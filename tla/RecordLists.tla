----------------------------- MODULE RecordLists -----------------------------
(***************************************************************************)
(* The lists of records of memsafety.c, as values: a list is the sequence  *)
(* of its nodes from the head on, a node is its record and its flag.       *)
(***************************************************************************)
EXTENDS Integers, Sequences, SequencesExt

NULL == 0
Record == [id : Nat, size : Nat, flag : Nat]
node_create(p, n) == [id |-> p, size |-> n, flag |-> 0]

(* list_search takes the first node that covers the address.               *)
Covers(r, p) == r.id <= p /\ (r.id = p \/ p - r.id < r.size)

(* The position of that node, 0 when there is none.                        *)
list_search(list, p) == SelectInSeq(list, LAMBDA r : Covers(r, p))
Found(list, p) == list_search(list, p) # 0

(* The position of the first flagged node, 0 when there is none.           *)
FirstFlagged(list) == SelectInSeq(list, LAMBDA r : r.flag > 0)

(***************************************************************************)
(* What a list says of memory.  A block of no bytes still has an address   *)
(* nobody else has.                                                        *)
(***************************************************************************)
Extent(b) == IF b.size = 0 THEN 1 ELSE b.size
Within(b, p) == b.id <= p /\ p < b.id + Extent(b)
Disjoint(a, b) == a.id + Extent(a) <= b.id \/ b.id + Extent(b) <= a.id

Bare(r) == [id |-> r.id, size |-> r.size]
Bares(list) == {Bare(list[i]) : i \in DOMAIN list}
NoTwoOverlap(list) ==
  \A i, j \in DOMAIN list : i # j => Disjoint(list[i], list[j])

(* The list is a true picture of these blocks: one node each, no others.   *)
Mirrors(list, blocks) == Bares(list) = blocks /\ NoTwoOverlap(list)
=============================================================================
