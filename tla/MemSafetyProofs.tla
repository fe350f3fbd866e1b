--------------------------- MODULE MemSafetyProofs ---------------------------
(***************************************************************************)
(* Theorems of MemSafety for every region, size, depth and set of rules.   *)
(*                                                                         *)
(* TypeOK holds with any allocator.  The lists mirror the heap only with   *)
(* an allocator that gives freed addresses out as whole blocks again       *)
(* (MallocReuse # "any") and never by realloc (ReallocReuse = "none"): the *)
(* run realloc_reuse shows what goes wrong without.                        *)
(***************************************************************************)
EXTENDS MemSafety, SequenceTheorems, WellFoundedInduction, TLAPS

(***************************************************************************)
(* What the list operations of memsafety.c do to the records of a list.    *)
(***************************************************************************)
(* Every nonempty set of naturals has a least element, and Min is it.      *)
LEMMA MinOfNats ==
  ASSUME NEW S, S \subseteq Nat, S # {}
  PROVE  Min(S) \in S /\ \A y \in S : Min(S) <= y
<1>1. PICK m \in S : \A y \in S : ~ (<<y, m>> \in OpToRel(<, Nat))
  BY NatLessThanWellFounded, WFMin
<1>2. \A y \in S : m <= y
  <2> TAKE y \in S
  <2>1. ~ (y < m)
    BY <1>1 DEF OpToRel
  <2> QED BY <2>1
<1> QED BY <1>2 DEF Min

(* Induction over 0 .. n: what holds at 0 and is passed on fails nowhere.  *)
LEMMA NoneFails ==
  ASSUME NEW n \in Nat, NEW Fails, Fails \subseteq 0 .. n, 0 \notin Fails,
         \A k \in 0 .. n - 1 : k \notin Fails => k + 1 \notin Fails
  PROVE  Fails = {}
<1> SUFFICES ASSUME Fails # {} PROVE FALSE
  OBVIOUS
<1>1. Fails \subseteq Nat
  OBVIOUS
<1>2. PICK m \in Fails : \A y \in Fails : m <= y
  BY <1>1, MinOfNats
<1>3. m - 1 \in 0 .. n - 1 /\ m - 1 \notin Fails
  BY <1>2
<1>4. (m - 1) + 1 \notin Fails
  BY <1>3
<1> QED BY <1>2, <1>4

(* A search by least position returns 0 or the first position of the set.  *)
LEMMA FirstPosition ==
  ASSUME NEW n \in Nat, NEW I, I \subseteq 1 .. n,
         NEW k, k = IF I # {} THEN Min(I) ELSE 0
  PROVE  /\ k \in 0 .. n
         /\ k # 0 => k \in I /\ \A j \in 1 .. k - 1 : j \notin I
         /\ k = 0 => I = {}
<1>1. I \subseteq Nat
  OBVIOUS
<1>2. CASE I = {}
  BY <1>2
<1>3. CASE I # {}
  <2>1. k \in I /\ \A y \in I : k <= y
    BY <1>1, <1>3, MinOfNats
  <2> QED BY <2>1, <1>3
<1> QED BY <1>2, <1>3

(* list_search (memsafety.c:107-125) returns the first covering node.      *)
LEMMA SearchFinds ==
  ASSUME NEW list \in Seq(Record), NEW p \in Nat
  PROVE  /\ list_search(list, p) \in 0 .. Len(list)
         /\ list_search(list, p) # 0 =>
              /\ Covers(list[list_search(list, p)], p)
              /\ \A j \in 1 .. list_search(list, p) - 1 : ~ Covers(list[j], p)
         /\ list_search(list, p) = 0 => \A j \in 1 .. Len(list) : ~ Covers(list[j], p)
<1> DEFINE I == {i \in 1 .. Len(list) : Covers(list[i], p)}
           k == list_search(list, p)
<1>1. k = IF I # {} THEN Min(I) ELSE 0
  BY DEF list_search, SelectInSeq
<1>2. /\ k \in 0 .. Len(list)
      /\ k # 0 => k \in I /\ \A j \in 1 .. k - 1 : j \notin I
      /\ k = 0 => I = {}
  <2>1. Len(list) \in Nat /\ I \subseteq 1 .. Len(list)
    OBVIOUS
  <2> HIDE DEF I, k
  <2> QED BY <2>1, <1>1, FirstPosition
<1> HIDE DEF k
<1>3. k # 0 => Covers(list[k], p) /\ \A j \in 1 .. k - 1 : ~ Covers(list[j], p)
  BY <1>2
<1>4. k = 0 => \A j \in 1 .. Len(list) : ~ Covers(list[j], p)
  BY <1>2
<1> QED BY <1>2, <1>3, <1>4 DEF k

(* The first flagged node, where destroy_allocas stops (memsafety.c:438).  *)
LEMMA FlaggedFinds ==
  ASSUME NEW list \in Seq(Record)
  PROVE  /\ FirstFlagged(list) \in 0 .. Len(list)
         /\ FirstFlagged(list) # 0 =>
              /\ list[FirstFlagged(list)].flag > 0
              /\ \A j \in 1 .. FirstFlagged(list) - 1 : ~ (list[j].flag > 0)
         /\ FirstFlagged(list) = 0 => \A j \in 1 .. Len(list) : ~ (list[j].flag > 0)
<1> DEFINE I == {i \in 1 .. Len(list) : list[i].flag > 0}
           k == FirstFlagged(list)
<1>1. k = IF I # {} THEN Min(I) ELSE 0
  BY DEF FirstFlagged, SelectInSeq
<1>2. /\ k \in 0 .. Len(list)
      /\ k # 0 => k \in I /\ \A j \in 1 .. k - 1 : j \notin I
      /\ k = 0 => I = {}
  <2>1. Len(list) \in Nat /\ I \subseteq 1 .. Len(list)
    OBVIOUS
  <2> HIDE DEF I, k
  <2> QED BY <2>1, <1>1, FirstPosition
<1> HIDE DEF k
<1>3. k # 0 => list[k].flag > 0 /\ \A j \in 1 .. k - 1 : ~ (list[j].flag > 0)
  BY <1>2
<1>4. k = 0 => \A j \in 1 .. Len(list) : ~ (list[j].flag > 0)
  BY <1>2
<1> QED BY <1>2, <1>3, <1>4 DEF k

(* For records, the search condition is membership in the block.           *)
LEMMA CoversWithin ==
  ASSUME NEW r \in Record, NEW p \in Nat
  PROVE  /\ Covers(r, p) <=> Within(Bare(r), p)
         /\ Covers(r, p) <=> Within(r, p)
<1>1. r.id \in Nat /\ r.size \in Nat
  BY DEF Record
<1>2. \A a, n \in Nat :
         (a <= p /\ (a = p \/ p - a < n)) <=> (a <= p /\ p < a + (IF n = 0 THEN 1 ELSE n))
  OBVIOUS
<1>3. Covers(r, p) <=> Within(r, p)
  BY <1>1, <1>2 DEF Covers, Within, Extent
<1>4. Within(Bare(r), p) <=> Within(r, p)
  BY DEF Bare, Within, Extent
<1> QED BY <1>4, <1>3

(* __INSTR_list_prepend (memsafety.c:52-58).                               *)
LEMMA ConsList ==
  ASSUME NEW list \in Seq(Record), NEW r \in Record
  PROVE  /\ Cons(r, list) \in Seq(Record)
         /\ Len(Cons(r, list)) = Len(list) + 1
         /\ Cons(r, list)[1] = r
         /\ \A i \in 1 .. Len(list) : Cons(r, list)[i + 1] = list[i]
         /\ Bares(Cons(r, list)) = Bares(list) \cup {Bare(r)}
<1> DEFINE c == Cons(r, list)
<1>1. /\ c \in Seq(Record) /\ Len(c) = Len(list) + 1 /\ c[1] = r
      /\ \A i \in 1 .. Len(list) : c[i + 1] = list[i]
  BY DEF Cons
<1> HIDE DEF c
<1>2. DOMAIN c = 1 .. Len(list) + 1 /\ DOMAIN list = 1 .. Len(list) /\ Len(list) \in Nat
  BY <1>1
<1>3. Bares(c) \subseteq Bares(list) \cup {Bare(r)}
  <2> SUFFICES ASSUME NEW i \in 1 .. Len(list) + 1
               PROVE  Bare(c[i]) \in Bares(list) \cup {Bare(r)}
    BY <1>2 DEF Bares
  <2>1. CASE i = 1
    BY <2>1, <1>1
  <2>2. CASE i # 1
    <3>1. i - 1 \in 1 .. Len(list) /\ c[i] = list[i - 1]
      <4>1. i - 1 \in 1 .. Len(list)
        BY <2>2, <1>2
      <4>2. c[(i - 1) + 1] = list[i - 1]
        BY <4>1, <1>1
      <4> QED BY <4>1, <4>2
    <3> QED BY <3>1, <1>2 DEF Bares
  <2> QED BY <2>1, <2>2
<1>4. Bares(list) \cup {Bare(r)} \subseteq Bares(c)
  <2>1. Bare(r) \in Bares(c)
    BY <1>1, <1>2 DEF Bares
  <2>2. ASSUME NEW i \in 1 .. Len(list)
        PROVE  Bare(list[i]) \in Bares(c)
    <3>1. i + 1 \in DOMAIN c /\ c[i + 1] = list[i]
      BY <1>1, <1>2
    <3> QED BY <3>1 DEF Bares
  <2> QED BY <2>1, <2>2, <1>2 DEF Bares
<1> QED BY <1>1, <1>3, <1>4 DEF c

(* Disjoint blocks share no address, and no block is disjoint from itself. *)
LEMMA DisjointShareNothing ==
  ASSUME NEW a, NEW b, a.id \in Nat, a.size \in Nat, b.id \in Nat, b.size \in Nat,
         NEW p \in Nat, Disjoint(a, b)
  PROVE  ~ (Within(a, p) /\ Within(b, p)) /\ Bare(a) # Bare(b) /\ Disjoint(b, a)
BY DEF Disjoint, Within, Extent, Bare

(* In a list without overlaps the address of a block picks one node.       *)
LEMMA OneNodeCovers ==
  ASSUME NEW list \in Seq(Record), NoTwoOverlap(list), NEW p \in Nat,
         NEW i \in 1 .. Len(list), NEW j \in 1 .. Len(list),
         Covers(list[i], p), Covers(list[j], p)
  PROVE  i = j
<1>1. list[i] \in Record /\ list[j] \in Record /\ DOMAIN list = 1 .. Len(list)
  OBVIOUS
<1>2. \A r \in Record : Covers(r, p) => Within(r, p)
  BY CoversWithin
<1>3. CASE i # j
  <2>1. Disjoint(list[i], list[j])
    BY <1>1, <1>3 DEF NoTwoOverlap
  <2>2. Within(list[i], p) /\ Within(list[j], p)
    BY <1>1, <1>2
  <2>3. /\ list[i].id \in Nat /\ list[i].size \in Nat
        /\ list[j].id \in Nat /\ list[j].size \in Nat
    BY <1>1 DEF Record
  <2> QED BY <2>1, <2>2, <2>3, DisjointShareNothing
<1> QED BY <1>3

(* Prepending a node that overlaps no other keeps the list overlap-free.   *)
LEMMA ConsNoOverlap ==
  ASSUME NEW list \in Seq(Record), NEW r \in Record, NoTwoOverlap(list),
         \A i \in 1 .. Len(list) : Disjoint(list[i], r)
  PROVE  NoTwoOverlap(Cons(r, list))
<1> DEFINE c == Cons(r, list)
<1>1. /\ c \in Seq(Record) /\ Len(c) = Len(list) + 1 /\ c[1] = r
      /\ \A i \in 1 .. Len(list) : c[i + 1] = list[i]
  BY ConsList
<1> HIDE DEF c
<1>2. DOMAIN c = 1 .. Len(list) + 1 /\ DOMAIN list = 1 .. Len(list) /\ Len(list) \in Nat
  BY <1>1
<1>3. \A i \in 2 .. Len(list) + 1 : i - 1 \in 1 .. Len(list) /\ c[i] = list[i - 1]
  <2> TAKE i \in 2 .. Len(list) + 1
  <2>1. i - 1 \in 1 .. Len(list)
    BY <1>2
  <2>2. c[(i - 1) + 1] = list[i - 1]
    BY <1>1, <2>1
  <2> QED BY <2>1, <2>2
<1>4. \A i \in 1 .. Len(list) : list[i] \in Record
  OBVIOUS
<1>5. SUFFICES ASSUME NEW i \in DOMAIN c, NEW j \in DOMAIN c, i # j
               PROVE  Disjoint(c[i], c[j])
  BY DEF NoTwoOverlap, c
<1>6. CASE i = 1
  <2>1. j \in 2 .. Len(list) + 1
    BY <1>6, <1>5, <1>2
  <2>2. j - 1 \in 1 .. Len(list) /\ c[j] = list[j - 1]
    BY <2>1, <1>3
  <2>3. Disjoint(c[j], r)
    BY <2>2
  <2> QED BY <2>3, <1>6, <1>1 DEF Disjoint
<1>7. CASE j = 1
  <2>1. i \in 2 .. Len(list) + 1
    BY <1>7, <1>5, <1>2
  <2>2. i - 1 \in 1 .. Len(list) /\ c[i] = list[i - 1]
    BY <2>1, <1>3
  <2>3. Disjoint(c[i], r)
    BY <2>2
  <2> QED BY <2>3, <1>7, <1>1
<1>8. CASE i # 1 /\ j # 1
  <2>1. i \in 2 .. Len(list) + 1 /\ j \in 2 .. Len(list) + 1 /\ i - 1 # j - 1
    BY <1>8, <1>5, <1>2
  <2> QED BY <2>1, <1>3, <1>2 DEF NoTwoOverlap
<1> QED BY <1>6, <1>7, <1>8

(* What is left of a sequence without its k-th entry.                      *)
LEMMA RemoveSeq ==
  ASSUME NEW S, NEW q \in Seq(S), NEW k \in 1 .. Len(q)
  PROVE  /\ RemoveAt(q, k) \in Seq(S)
         /\ Len(RemoveAt(q, k)) = Len(q) - 1
         /\ \A i \in 1 .. Len(q) - 1 :
              RemoveAt(q, k)[i] = IF i < k THEN q[i] ELSE q[i + 1]
<1> DEFINE a == SubSeq(q, 1, k - 1)
           b == SubSeq(q, k + 1, Len(q))
<1>1. /\ a \in Seq(S) /\ Len(a) = k - 1
      /\ \A i \in 1 .. k - 1 : a[i] = q[i]
  BY SubSeqProperties
<1>2. /\ b \in Seq(S) /\ Len(b) = Len(q) - k
      /\ \A i \in 1 .. Len(q) - k : b[i] = q[k + i]
  BY SubSeqProperties
<1>3. RemoveAt(q, k) = a \o b
  BY DEF RemoveAt
<1> HIDE DEF a, b
<1>4. Len(q) \in Nat
  OBVIOUS
<1>5. /\ a \o b \in Seq(S) /\ Len(a \o b) = Len(a) + Len(b)
      /\ \A i \in 1 .. Len(a) + Len(b) :
           (a \o b)[i] = IF i <= Len(a) THEN a[i] ELSE b[i - Len(a)]
  BY <1>1, <1>2, ConcatProperties
<1>6. Len(a) + Len(b) = Len(q) - 1
  BY <1>1, <1>2, <1>4
<1>7. ASSUME NEW i \in 1 .. Len(q) - 1
      PROVE  (a \o b)[i] = IF i < k THEN q[i] ELSE q[i + 1]
  <2>1. (a \o b)[i] = IF i <= k - 1 THEN a[i] ELSE b[i - (k - 1)]
    BY <1>1, <1>5, <1>6
  <2>2. CASE i < k
    <3>1. i <= k - 1 /\ i \in 1 .. k - 1
      BY <2>2, <1>4
    <3> QED BY <3>1, <2>1, <2>2, <1>1
  <2>3. CASE ~ (i < k)
    <3>1. ~ (i <= k - 1) /\ i - (k - 1) \in 1 .. Len(q) - k
          /\ k + (i - (k - 1)) = i + 1
      BY <2>3, <1>4
    <3>2. b[i - (k - 1)] = q[k + (i - (k - 1))]
      BY <3>1, <1>2
    <3> QED BY <3>1, <3>2, <2>1, <2>3
  <2> QED BY <2>2, <2>3
<1> QED BY <1>3, <1>5, <1>6, <1>7

(* __INSTR_detach_node (memsafety.c:127-142): the other nodes keep their   *)
(* order, and when no two overlap exactly the record of the node goes.     *)
LEMMA RemoveList ==
  ASSUME NEW list \in Seq(Record), NEW k \in 1 .. Len(list)
  PROVE  /\ RemoveAt(list, k) \in Seq(Record)
         /\ Len(RemoveAt(list, k)) = Len(list) - 1
         /\ \A i \in 1 .. Len(list) - 1 :
              RemoveAt(list, k)[i] = IF i < k THEN list[i] ELSE list[i + 1]
BY RemoveSeq

LEMMA RemoveNoOverlap ==
  ASSUME NEW list \in Seq(Record), NEW k \in 1 .. Len(list), NoTwoOverlap(list)
  PROVE  /\ NoTwoOverlap(RemoveAt(list, k))
         /\ Bares(RemoveAt(list, k)) = Bares(list) \ {Bare(list[k])}
<1> DEFINE c == RemoveAt(list, k)
           Old(i) == IF i < k THEN i ELSE i + 1
<1>1. /\ c \in Seq(Record) /\ DOMAIN c = 1 .. Len(list) - 1
      /\ \A i \in 1 .. Len(list) - 1 : c[i] = list[Old(i)]
      /\ DOMAIN list = 1 .. Len(list) /\ Len(list) \in Nat
  <2>1. c \in Seq(Record) /\ Len(c) = Len(list) - 1
    BY RemoveList
  <2>2. \A i \in 1 .. Len(list) - 1 : c[i] = list[Old(i)]
    BY RemoveList
  <2> QED BY <2>1, <2>2
<1> HIDE DEF c
<1>2. \A i, j \in 1 .. Len(list) - 1 :
         /\ Old(i) \in 1 .. Len(list) /\ Old(i) # k
         /\ i # j => Old(i) # Old(j)
  BY <1>1
<1>3. \A m \in 1 .. Len(list) : m # k =>
         \E i \in 1 .. Len(list) - 1 : m = Old(i)
  <2> SUFFICES ASSUME NEW m \in 1 .. Len(list), m # k
               PROVE  \E i \in 1 .. Len(list) - 1 : m = Old(i)
    OBVIOUS
  <2>1. CASE m < k
    BY <2>1, <1>1
  <2>2. CASE m > k
    <3>1. m - 1 \in 1 .. Len(list) - 1 /\ m = Old(m - 1)
      BY <2>2, <1>1
    <3> QED BY <3>1
  <2> QED BY <2>1, <2>2, <1>1
<1> HIDE DEF Old
<1>4. NoTwoOverlap(c)
  BY SMTT(30), <1>1, <1>2 DEF NoTwoOverlap
<1>5. \A m \in 1 .. Len(list) : m # k => Bare(list[m]) # Bare(list[k])
  <2> SUFFICES ASSUME NEW m \in 1 .. Len(list), m # k
               PROVE  Bare(list[m]) # Bare(list[k])
    OBVIOUS
  <2>1. Disjoint(list[m], list[k])
    BY <1>1 DEF NoTwoOverlap
  <2>2. list[m] \in Record /\ list[k] \in Record
    OBVIOUS
  <2> QED BY <2>1, <2>2, DisjointShareNothing DEF Record
<1>6. Bares(c) \subseteq Bares(list) \ {Bare(list[k])}
  <2> SUFFICES ASSUME NEW i \in 1 .. Len(list) - 1
               PROVE  Bare(c[i]) \in Bares(list) \ {Bare(list[k])}
    BY <1>1 DEF Bares
  <2>1. c[i] = list[Old(i)] /\ Old(i) \in 1 .. Len(list) /\ Old(i) # k
    BY <1>1, <1>2
  <2> QED BY <2>1, <1>5, <1>1 DEF Bares
<1>7. Bares(list) \ {Bare(list[k])} \subseteq Bares(c)
  <2> SUFFICES ASSUME NEW m \in 1 .. Len(list), Bare(list[m]) # Bare(list[k])
               PROVE  Bare(list[m]) \in Bares(c)
    BY <1>1 DEF Bares
  <2>1. PICK i \in 1 .. Len(list) - 1 : m = Old(i)
    BY <1>3
  <2> QED BY <2>1, <1>1 DEF Bares
<1> QED BY <1>4, <1>6, <1>7 DEF c

-----------------------------------------------------------------------------
(***************************************************************************)
(* A list that mirrors a set of blocks.                                    *)
(***************************************************************************)
LEMMA DisjointBare ==
  ASSUME NEW a, NEW b
  PROVE  Disjoint(a, b) <=> Disjoint(Bare(a), Bare(b))
BY DEF Disjoint, Extent, Bare

LEMMA BareNats ==
  ASSUME NEW r \in Record
  PROVE  /\ Bare(r).id = r.id /\ Bare(r).size = r.size
         /\ r.id \in Nat /\ r.size \in Nat
BY DEF Record, Bare

(* Its search finds the address of each block and no other, and finds the  *)
(* block's own node.                                                       *)
LEMMA MirrorSearch ==
  ASSUME NEW list \in Seq(Record), NEW mem, Mirrors(list, mem), NEW p \in Nat,
         NEW i, i = list_search(list, p)
  PROVE  /\ Found(list, p) <=> \E b \in mem : Within(b, p)
         /\ i # 0 => /\ i \in 1 .. Len(list) /\ Within(Bare(list[i]), p)
                     /\ Bare(list[i]) \in mem
                     /\ \A b \in mem : Within(b, p) => b = Bare(list[i])
<1>1. /\ DOMAIN list = 1 .. Len(list)
      /\ \A j \in 1 .. Len(list) : list[j] \in Record
  OBVIOUS
<1>2. \A b \in mem : \E j \in 1 .. Len(list) : b = Bare(list[j])
  BY <1>1 DEF Mirrors, Bares
<1>3. \A j \in 1 .. Len(list) : Bare(list[j]) \in mem
  BY <1>1 DEF Mirrors, Bares
<1>4. \A j \in 1 .. Len(list) : Covers(list[j], p) <=> Within(Bare(list[j]), p)
  BY <1>1, CoversWithin
<1>5. /\ i \in 0 .. Len(list)
      /\ i # 0 => Covers(list[i], p)
      /\ i = 0 => \A j \in 1 .. Len(list) : ~ Covers(list[j], p)
  BY SearchFinds
<1>6. CASE i = 0
  <2>1. \A b \in mem : ~ Within(b, p)
    BY <1>2, <1>4, <1>5, <1>6
  <2> QED BY <2>1, <1>6 DEF Found
<1>7. CASE i # 0
  <2>1. i \in 1 .. Len(list)
    BY <1>5, <1>7
  <2>2. Within(Bare(list[i]), p) /\ Bare(list[i]) \in mem
    BY <2>1, <1>3, <1>4, <1>5, <1>7
  <2>3. ASSUME NEW b \in mem, Within(b, p)
        PROVE  b = Bare(list[i])
    <3>1. PICK j \in 1 .. Len(list) : b = Bare(list[j])
      BY <1>2
    <3>2. Covers(list[j], p)
      BY <3>1, <2>3, <1>4
    <3>3. i = j
      BY <2>1, <3>2, <1>5, <1>7, OneNodeCovers DEF Mirrors
    <3> QED BY <3>1, <3>3
  <2> QED BY <2>1, <2>2, <2>3, <1>7 DEF Found
<1> QED BY <1>6, <1>7

LEMMA MirrorCons ==
  ASSUME NEW list \in Seq(Record), NEW mem, Mirrors(list, mem), NEW r \in Record,
         \A b \in mem : Disjoint(b, Bare(r))
  PROVE  Mirrors(Cons(r, list), mem \cup {Bare(r)})
<1>1. \A i \in 1 .. Len(list) : Bare(list[i]) \in mem
  BY DEF Mirrors, Bares
<1>2. \A i \in 1 .. Len(list) : Disjoint(list[i], r)
  <2> TAKE i \in 1 .. Len(list)
  <2>1. Disjoint(Bare(list[i]), Bare(r))
    BY <1>1
  <2> QED BY <2>1, DisjointBare
<1>3. NoTwoOverlap(Cons(r, list))
  BY <1>2, ConsNoOverlap DEF Mirrors
<1>4. Bares(Cons(r, list)) = mem \cup {Bare(r)}
  BY ConsList DEF Mirrors
<1> QED BY <1>3, <1>4 DEF Mirrors

LEMMA MirrorRemove ==
  ASSUME NEW list \in Seq(Record), NEW mem, Mirrors(list, mem), NEW k \in 1 .. Len(list)
  PROVE  Mirrors(RemoveAt(list, k), mem \ {Bare(list[k])})
BY RemoveNoOverlap DEF Mirrors

(* Two blocks of a mirrored set are the same or share nothing.             *)
LEMMA MirrorApart ==
  ASSUME NEW list \in Seq(Record), NEW mem, Mirrors(list, mem), NEW a \in mem, NEW b \in mem
  PROVE  a = b \/ Disjoint(a, b)
<1>1. PICK i \in DOMAIN list : a = Bare(list[i])
  BY DEF Mirrors, Bares
<1>2. PICK j \in DOMAIN list : b = Bare(list[j])
  BY DEF Mirrors, Bares
<1>3. CASE i = j
  BY <1>1, <1>2, <1>3
<1>4. CASE i # j
  <2>1. Disjoint(list[i], list[j])
    BY <1>4 DEF Mirrors, NoTwoOverlap
  <2> QED BY <2>1, <1>1, <1>2, DisjointBare
<1> QED BY <1>3, <1>4

(* __INSTR_realloc (memsafety.c:405-421) prepends before it detaches.      *)
LEMMA DetachAfterPrepend ==
  ASSUME NEW list \in Seq(Record), NEW r \in Record, NEW k \in 1 .. Len(list)
  PROVE  RemoveAt(Cons(r, list), k + 1) = Cons(r, RemoveAt(list, k))
<1> DEFINE c == Cons(r, list)
           d == RemoveAt(list, k)
           x == RemoveAt(c, k + 1)
           y == Cons(r, d)
<1>1. /\ c \in Seq(Record) /\ Len(c) = Len(list) + 1 /\ c[1] = r
      /\ \A i \in 1 .. Len(list) : c[i + 1] = list[i]
  BY ConsList
<1>2. /\ d \in Seq(Record) /\ Len(d) = Len(list) - 1
      /\ \A i \in 1 .. Len(list) - 1 : d[i] = IF i < k THEN list[i] ELSE list[i + 1]
  <2>1. d \in Seq(Record) /\ Len(d) = Len(list) - 1
    BY RemoveList
  <2>2. \A i \in 1 .. Len(list) - 1 : d[i] = IF i < k THEN list[i] ELSE list[i + 1]
    BY RemoveList
  <2> QED BY <2>1, <2>2
<1>3. Len(list) \in Nat /\ k + 1 \in 1 .. Len(list) + 1
  OBVIOUS
<1> HIDE DEF c, d
<1>4. /\ x \in Seq(Record) /\ Len(x) = Len(list)
      /\ \A i \in 1 .. Len(list) : x[i] = IF i < k + 1 THEN c[i] ELSE c[i + 1]
  <2>1. k + 1 \in 1 .. Len(c) /\ Len(c) - 1 = Len(list)
    BY <1>1, <1>3
  <2>2. x \in Seq(Record) /\ Len(x) = Len(c) - 1
    BY <2>1, <1>1, RemoveList
  <2>3. \A i \in 1 .. Len(c) - 1 : x[i] = IF i < k + 1 THEN c[i] ELSE c[i + 1]
    BY <2>1, <1>1, RemoveList
  <2> QED BY <2>1, <2>2, <2>3
<1>5. /\ y \in Seq(Record) /\ Len(y) = Len(list) /\ y[1] = r
      /\ \A i \in 1 .. Len(list) - 1 : y[i + 1] = d[i]
  <2>1. /\ y \in Seq(Record) /\ Len(y) = Len(d) + 1 /\ y[1] = r
        /\ \A i \in 1 .. Len(d) : y[i + 1] = d[i]
    BY <1>2, ConsList
  <2> HIDE DEF y
  <2> QED BY <2>1, <1>2, <1>3
<1> HIDE DEF x, y
<1>6. ASSUME NEW i \in 1 .. Len(list)
      PROVE  x[i] = y[i]
  <2>1. CASE i = 1
    <3>1. i < k + 1
      BY <2>1, <1>3
    <3>2. x[i] = c[i]
      BY <3>1, <1>4
    <3> QED BY <3>2, <2>1, <1>1, <1>5
  <2>2. CASE i # 1
    <3> DEFINE j == i - 1
    <3>1. j \in 1 .. Len(list) - 1 /\ i = j + 1
      BY <2>2, <1>3
    <3> HIDE DEF j
    <3>2. y[i] = d[j]
      BY <3>1, <1>5
    <3>3. CASE j < k
      <4>1. i < k + 1 /\ j \in 1 .. Len(list)
        BY <3>1, <3>3, <1>3
      <4>2. x[i] = c[i] /\ c[j + 1] = list[j]
        BY <4>1, <1>1, <1>4
      <4>3. d[j] = list[j]
        BY <3>1, <3>3, <1>2
      <4> QED BY <3>1, <3>2, <4>2, <4>3
    <3>4. CASE ~ (j < k)
      <4>1. ~ (i < k + 1)
        BY <3>1, <3>4, <1>3
      <4>2. x[i] = c[i + 1] /\ c[i + 1] = list[i]
        BY <4>1, <1>1, <1>4
      <4>3. d[j] = list[j + 1]
        BY <3>1, <3>4, <1>2
      <4> QED BY <3>1, <3>2, <4>2, <4>3
    <3> QED BY <3>3, <3>4
  <2> QED BY <2>1, <2>2
<1>7. x = y
  BY <1>4, <1>5, <1>6, SeqEqual
<1> QED BY <1>7 DEF x, y, c, d

(***************************************************************************)
(* Types.                                                                  *)
(***************************************************************************)
LEMMA NatAddresses ==
  /\ \A p \in Addr \cup {NULL} : p \in Nat
  /\ \A p \in HeapAddr : p \in Nat /\ p # NULL
  /\ \A p \in StackAddr \cup GlobalAddr : p \in Nat /\ p # NULL /\ p \notin HeapAddr
  /\ Sizes \subseteq Nat /\ 1 .. MaxSize \subseteq Nat
BY AddrAssumption, BoundAssumption DEF Addr, NULL, Sizes

LEMMA NodeIsRecord ==
  ASSUME NEW p \in Nat, NEW n \in Nat
  PROVE  /\ node_create(p, n) \in Record
         /\ Bare(node_create(p, n)) = Block(p, n)
BY DEF node_create, Record, Bare, Block

LEMMA RecordUpdates ==
  ASSUME NEW r \in Record, NEW n \in Nat
  PROVE  /\ r.flag \in Nat /\ r.id \in Nat /\ r.size \in Nat
         /\ [r EXCEPT !.size = n] \in Record
         /\ [r EXCEPT !.flag = @ + 1] \in Record
         /\ r.flag > 0 => [r EXCEPT !.flag = @ - 1] \in Record
BY DEF Record

(* The three remember functions make a list of records.                    *)
LEMMA AdoptedType ==
  ASSUME NEW list \in Seq(Record), NEW p \in Nat, NEW n \in Nat,
         deallocated_list \in Seq(Record)
  PROVE  /\ Adopted(list, p, n) \in Seq(Record)
         /\ DeallocatedWithout(p) \in Seq(Record)
<1> DEFINE i == list_search(deallocated_list, p)
<1>1. i \in 0 .. Len(deallocated_list)
  BY SearchFinds
<1>2. CASE i = 0
  <2>1. node_create(p, n) \in Record
    BY NodeIsRecord
  <2> QED BY <1>2, <2>1, ConsList DEF Adopted, DeallocatedWithout
<1>3. CASE i # 0
  <2>1. i \in 1 .. Len(deallocated_list)
    BY <1>1, <1>3
  <2>2. deallocated_list[i] \in Record
    BY <2>1
  <2>3. Adopted(list, p, n) = Cons(deallocated_list[i], list)
    BY <1>3 DEF Adopted
  <2>4. DeallocatedWithout(p) = RemoveAt(deallocated_list, i)
    BY <1>3 DEF DeallocatedWithout
  <2> HIDE DEF i
  <2>5. Cons(deallocated_list[i], list) \in Seq(Record)
    BY <2>2, ConsList
  <2>6. RemoveAt(deallocated_list, i) \in Seq(Record)
    BY <2>1, RemoveList
  <2> QED BY <2>3, <2>4, <2>5, <2>6
<1> QED BY <1>2, <1>3

LEMMA ResizedType ==
  ASSUME NEW list \in Seq(Record), NEW i \in 1 .. Len(list), NEW n \in Nat
  PROVE  [list EXCEPT ![i].size = n] \in Seq(Record)
<1>1. list[i] \in Record
  OBVIOUS
<1>2. [list[i] EXCEPT !.size = n] \in Record
  BY <1>1, RecordUpdates
<1> QED BY <1>2

LEMMA FlagsType ==
  ASSUME stack_list \in Seq(Record)
  PROVE  set_flag \in Seq(Record) /\ destroy_allocas \in Seq(Record)
<1>1. set_flag \in Seq(Record)
  <2>1. CASE stack_list = <<>>
    BY <2>1 DEF set_flag
  <2>2. CASE stack_list # <<>>
    <3>1. stack_list[1] \in Record
      BY <2>2
    <3>2. [stack_list[1] EXCEPT !.flag = @ + 1] \in Record
      BY <3>1, RecordUpdates
    <3> QED BY <2>2, <3>2 DEF set_flag
  <2> QED BY <2>1, <2>2
<1>2. destroy_allocas \in Seq(Record)
  <2> DEFINE k == FirstFlagged(stack_list)
             s == SubSeq(stack_list, k, Len(stack_list))
  <2>1. k \in 0 .. Len(stack_list) /\ (k # 0 => stack_list[k].flag > 0)
    BY FlaggedFinds
  <2>2. CASE k = 0
    BY <2>2 DEF destroy_allocas
  <2>3. CASE k # 0
    <3>1. destroy_allocas = [s EXCEPT ![1].flag = @ - 1]
      BY <2>3 DEF destroy_allocas
    <3>2. k \in 1 .. Len(stack_list) /\ Len(stack_list) \in Nat
      BY <2>1, <2>3
    <3> HIDE DEF k
    <3>3. /\ s \in Seq(Record) /\ Len(s) = Len(stack_list) - k + 1
          /\ s[1] = stack_list[k]
      <4>1. stack_list \in Seq(Record) /\ k \in 1 .. Len(stack_list) + 1
        BY <3>2
      <4>2. /\ s \in Seq(Record) /\ Len(s) = Len(stack_list) - k + 1
            /\ \A m \in 1 .. Len(stack_list) - k + 1 : s[m] = stack_list[k + m - 1]
        BY <4>1, <3>2, SubSeqProperties
      <4>3. s[1] = stack_list[k + 1 - 1] /\ k + 1 - 1 = k
        BY <4>2, <3>2
      <4> QED BY <4>2, <4>3
    <3> HIDE DEF s
    <3>4. s[1] \in Record /\ s[1].flag > 0
      BY <3>2, <3>3, <2>1, <2>3
    <3>5. [s[1] EXCEPT !.flag = @ - 1] \in Record
      BY <3>4, RecordUpdates
    <3>6. s \in Seq(Record) /\ 1 \in 1 .. Len(s)
      <4>1. Len(stack_list) - k + 1 \in Nat /\ Len(stack_list) - k + 1 >= 1
        BY <3>2
      <4> QED BY <4>1, <3>3
    <3> QED BY <3>1, <3>5, <3>6
  <2> QED BY <2>2, <2>3
<1> QED BY <1>1, <1>2

ListTypes ==
  /\ heap_list \in Seq(Record) /\ stack_list \in Seq(Record)
  /\ deallocated_list \in Seq(Record) /\ globals_list \in Seq(Record)

LEMMA BlockNats ==
  ASSUME NEW region, NEW b \in BlockSet(region)
  PROVE  /\ b.id \in region /\ b.size \in Nat /\ b = Block(b.id, b.size)
         /\ b \in BlockSet(HeapAddr) \cup BlockSet(StackAddr) \cup BlockSet(GlobalAddr)
              => b.id \in Nat
<1>1. b.id \in region /\ b.size \in Sizes /\ b = Block(b.id, b.size)
  BY DEF BlockSet, Block
<1>2. b \in BlockSet(HeapAddr) \/ b \in BlockSet(StackAddr) \/ b \in BlockSet(GlobalAddr)
        => b.id \in HeapAddr \/ b.id \in StackAddr \/ b.id \in GlobalAddr
  BY DEF BlockSet
<1> QED BY <1>1, <1>2, NatAddresses

(* The program's own steps keep its memory well-typed.                     *)
LEMMA ProgramTypes ==
  ASSUME MemTypeOK,
         \/ \E b \in BlockSet(HeapAddr) : ProgMalloc(b)
         \/ \E p \in Addr \cup {NULL} : ProgFree(p)
         \/ \E p \in Addr \cup {NULL}, b \in BlockSet(HeapAddr) : ProgRealloc(p, b)
         \/ \E b \in BlockSet(GlobalAddr) : ProgGlobal(b)
         \/ ProgEnter \/ ProgLeave
         \/ \E b \in BlockSet(StackAddr) : ProgAlloca(b)
         \/ \E s \in stackMem, open \in BOOLEAN : ProgScope(s, open)
  PROVE  MemTypeOK'
<1>1. CASE \E b \in BlockSet(HeapAddr) : ProgMalloc(b)
  BY <1>1 DEF MemTypeOK, ProgMalloc, StillFreed, StillMoved
<1>2. CASE \E p \in Addr \cup {NULL} : ProgFree(p)
  BY <1>2 DEF MemTypeOK, ProgFree
<1>3. CASE \E p \in Addr \cup {NULL}, b \in BlockSet(HeapAddr) : ProgRealloc(p, b)
  BY <1>3 DEF MemTypeOK, ProgRealloc, StillFreed, StillMoved
<1>4. CASE \E b \in BlockSet(GlobalAddr) : ProgGlobal(b)
  BY <1>4 DEF MemTypeOK, ProgGlobal
<1>5. CASE ProgEnter
  BY <1>5, BoundAssumption DEF MemTypeOK, ProgEnter
<1>6. CASE ProgLeave
  BY <1>6, BoundAssumption DEF MemTypeOK, ProgLeave
<1>7. CASE \E b \in BlockSet(StackAddr) : ProgAlloca(b)
  <2>1. PICK b \in BlockSet(StackAddr) : ProgAlloca(b)
    BY <1>7
  <2>2. depth \in 1 .. MaxDepth
    BY <2>1, BoundAssumption DEF MemTypeOK, ProgAlloca
  <2>3. [id |-> b.id, size |-> b.size, frame |-> depth, live |-> TRUE]
           \in [id : StackAddr, size : Sizes, frame : 1 .. MaxDepth, live : BOOLEAN]
    BY <2>2 DEF BlockSet
  <2>4. stackMem' \subseteq [id : StackAddr, size : Sizes, frame : 1 .. MaxDepth,
                            live : BOOLEAN]
    BY <2>1, <2>3 DEF MemTypeOK, ProgAlloca
  <2> QED BY <2>1, <2>4 DEF MemTypeOK, ProgAlloca
<1>8. CASE \E s \in stackMem, open \in BOOLEAN : ProgScope(s, open)
  <2>1. PICK s \in stackMem, open \in BOOLEAN : ProgScope(s, open)
    BY <1>8
  <2>2. [s EXCEPT !.live = open] \in [id : StackAddr, size : Sizes,
                                      frame : 1 .. MaxDepth, live : BOOLEAN]
    BY <2>1 DEF MemTypeOK
  <2> QED BY <2>1, <2>2 DEF MemTypeOK, ProgScope
<1> QED BY <1>1, <1>2, <1>3, <1>4, <1>5, <1>6, <1>7, <1>8

LEMMA VerdictTypes ==
  /\ \A p : FreeVerdict(p) \in {"running", "doubleFree", "badFree"}
  /\ \A p : check_realloc(p) \in {"running", "reallocFreed", "reallocStack"}
  /\ \A list, p, n : Deref(list, p, n) \in {"running", "outOfRange", "freedDeref",
                                         "invalidDeref"}
<1>1. \A p : FreeVerdict(p) \in {"running", "doubleFree", "badFree"}
  BY DEF FreeVerdict
<1>2. \A p : check_realloc(p) \in {"running", "reallocFreed", "reallocStack"}
  BY DEF check_realloc
<1>3. \A list, p, n : Deref(list, p, n) \in {"running", "outOfRange", "freedDeref",
                                         "invalidDeref"}
  BY DEF Deref
<1> QED BY <1>1, <1>2, <1>3

(* A remember function puts a record into its list, and may take one from  *)
(* the deallocated list.                                                   *)
LEMMA RememberTypes ==
  ASSUME ListTypes, NEW p \in Nat, NEW n \in Nat,
         \/ remember_malloc_calloc(p, n)
         \/ remember(p, n)
         \/ remember_global(p, n)
  PROVE  ListTypes'
<1>1. /\ Adopted(heap_list, p, n) \in Seq(Record)
      /\ Adopted(stack_list, p, n) \in Seq(Record)
      /\ Adopted(globals_list, p, n) \in Seq(Record)
      /\ DeallocatedWithout(p) \in Seq(Record)
  BY AdoptedType DEF ListTypes
<1>2. CASE remember_malloc_calloc(p, n)
  BY <1>1, <1>2 DEF remember_malloc_calloc, ListTypes
<1>3. ASSUME NEW list \in Seq(Record), list_search(list, p) # 0
      PROVE  [list EXCEPT ![list_search(list, p)].size = n] \in Seq(Record)
  <2>1. list_search(list, p) \in 0 .. Len(list)
    BY SearchFinds
  <2>2. list_search(list, p) \in 1 .. Len(list)
    BY <2>1, <1>3
  <2> QED BY <2>2, ResizedType
<1>4. CASE remember(p, n)
  <2>1. stack_list' \in Seq(Record) /\ deallocated_list' \in Seq(Record)
    BY <1>1, <1>3, <1>4 DEF remember, ListTypes
  <2> QED BY <2>1, <1>4 DEF remember, ListTypes
<1>5. CASE remember_global(p, n)
  <2>1. globals_list' \in Seq(Record) /\ deallocated_list' \in Seq(Record)
    BY <1>1, <1>3, <1>5 DEF remember_global, ListTypes
  <2> QED BY <2>1, <1>5 DEF remember_global, ListTypes
<1> QED BY <1>2, <1>4, <1>5

LEMMA FreeTypes ==
  ASSUME ListTypes, NEW p \in Addr \cup {NULL}, Free(p)
  PROVE  ListTypes'
<1> DEFINE i == list_search(heap_list, p)
<1>1. CASE FreeVerdict(p) # "running"
  BY <1>1 DEF Free, Stop, lists, ListTypes
<1>2. CASE FreeVerdict(p) = "running" /\ p = NULL
  BY <1>2 DEF Free, free, ListTypes
<1>3. CASE FreeVerdict(p) = "running" /\ p # NULL
  <2>1. p \in Nat /\ heap_list \in Seq(Record)
    BY NatAddresses DEF ListTypes
  <2>2. i # 0
    BY <1>3 DEF FreeVerdict
  <2>3. i \in 0 .. Len(heap_list)
    BY <2>1, SearchFinds
  <2>4. /\ heap_list' = RemoveAt(heap_list, i)
        /\ deallocated_list' = Cons(heap_list[i], deallocated_list)
        /\ UNCHANGED <<stack_list, globals_list>>
    BY <1>3 DEF Free, free
  <2> HIDE DEF i
  <2>5. i \in 1 .. Len(heap_list)
    BY <2>2, <2>3
  <2>6. RemoveAt(heap_list, i) \in Seq(Record)
    BY <2>1, <2>5, RemoveList
  <2>7. heap_list[i] \in Record
    BY <2>1, <2>5
  <2>8. Cons(heap_list[i], deallocated_list) \in Seq(Record)
    BY <2>7, ConsList DEF ListTypes
  <2> QED BY <2>4, <2>6, <2>8 DEF ListTypes
<1> QED BY <1>1, <1>2, <1>3

LEMMA ReallocTypes ==
  ASSUME ListTypes, NEW p \in Nat, NEW b, b.id \in Nat, b.size \in Nat, realloc(p, b)
  PROVE  ListTypes'
<1> DEFINE i == list_search(heap_list, p)
           made == Cons(node_create(b.id, b.size), heap_list)
<1>1. node_create(b.id, b.size) \in Record /\ heap_list \in Seq(Record)
  BY NodeIsRecord DEF ListTypes
<1>2. made \in Seq(Record) /\ Len(made) = Len(heap_list) + 1
  BY <1>1, ConsList
<1>3. i \in 0 .. Len(heap_list)
  BY <1>1, SearchFinds
<1>4. /\ heap_list' = CASE p = NULL           -> made
                         [] p # NULL /\ i # 0 -> RemoveAt(made, i + 1)
                         [] p # NULL /\ i = 0 -> heap_list
      /\ UNCHANGED <<stack_list, deallocated_list, globals_list>>
  BY DEF realloc
<1> HIDE DEF i, made
<1>5. i # 0 => RemoveAt(made, i + 1) \in Seq(Record)
  <2> HAVE i # 0
  <2>1. i + 1 \in 1 .. Len(made)
    BY <1>1, <1>2, <1>3
  <2> QED BY <1>2, <2>1, RemoveList
<1> QED BY <1>1, <1>2, <1>4, <1>5 DEF ListTypes

LEMMA TypeStep ==
  ASSUME TypeOK, [Next]_vars
  PROVE  TypeOK'
<1>1. ListTypes /\ MemTypeOK /\ status \in Statuses
  BY DEF TypeOK, ListTypes
<1>2. SUFFICES MemTypeOK' /\ ListTypes' /\ status' \in Statuses
  BY DEF TypeOK, ListTypes
<1>3. ASSUME NEW s \in Statuses, Stop(s)
      PROVE  MemTypeOK' /\ ListTypes' /\ status' \in Statuses
  BY <1>1, <1>3 DEF Stop, memVars, lists, MemTypeOK, ListTypes
<1>4. ASSUME Proceed PROVE status' \in Statuses
  BY <1>4 DEF Proceed, Statuses
<1>5. CASE \E b \in BlockSet(HeapAddr) : Malloc(b)
  <2>1. PICK b \in BlockSet(HeapAddr) : Malloc(b)
    BY <1>5
  <2>2. b.id \in Nat /\ b.size \in Nat
    BY BlockNats
  <2> QED BY <1>1, <1>4, <2>1, <2>2, ProgramTypes, RememberTypes DEF Malloc
<1>6. CASE \E p \in Addr \cup {NULL} : Free(p)
  <2>1. PICK p \in Addr \cup {NULL} : Free(p)
    BY <1>6
  <2>2. ListTypes'
    BY <1>1, <2>1, FreeTypes
  <2>3. CASE FreeVerdict(p) = "running"
    <3>1. ProgFree(p) /\ Proceed
      BY <2>1, <2>3 DEF Free
    <3> QED BY <1>1, <1>4, <2>2, <3>1, ProgramTypes
  <2>4. CASE FreeVerdict(p) # "running"
    <3>1. Stop(FreeVerdict(p)) /\ FreeVerdict(p) \in Statuses
      BY <2>1, <2>4, VerdictTypes DEF Free, Statuses, Alarms
    <3> QED BY <1>3, <3>1
  <2> QED BY <2>3, <2>4
<1>7. CASE \E p \in Addr \cup {NULL} : BadRealloc(p)
  <2>1. PICK p \in Addr \cup {NULL} : BadRealloc(p)
    BY <1>7
  <2>2. \E s \in Statuses : Stop(s)
    BY <2>1, VerdictTypes DEF BadRealloc, Statuses, Alarms
  <2> QED BY <1>3, <2>2
<1>8. CASE \E p \in Addr \cup {NULL} : AccessNullOrFreed(p)
  BY <1>3, <1>8 DEF AccessNullOrFreed, Statuses, Alarms
<1>9. CASE \E p \in HeapAddr \cup {NULL}, b \in BlockSet(HeapAddr) : Realloc(p, b)
  <2>1. PICK p \in HeapAddr \cup {NULL}, b \in BlockSet(HeapAddr) : Realloc(p, b)
    BY <1>9
  <2>2. b.id \in Nat /\ b.size \in Nat /\ p \in Nat /\ p \in Addr \cup {NULL}
    BY BlockNats, NatAddresses DEF Addr
  <2>3. ProgRealloc(p, b) /\ Proceed /\ realloc(p, b)
    BY <2>1 DEF Realloc
  <2>4. ListTypes'
    BY <1>1, <2>2, <2>3, ReallocTypes
  <2> QED BY <1>1, <1>4, <2>2, <2>3, <2>4, ProgramTypes
<1>10. CASE \E p \in Addr \cup {NULL}, n \in 1 .. MaxSize : Access(p, n)
  <2>1. PICK p \in Addr \cup {NULL}, n \in 1 .. MaxSize : Access(p, n)
    BY <1>10
  <2>2. \E s \in Statuses : Stop(s)
    BY <2>1, VerdictTypes DEF Access, check_heap, check_stack, check_globals,
                             check_pointer, Statuses, Alarms
  <2> QED BY <1>3, <2>2
<1>11. CASE \E b \in BlockSet(GlobalAddr) : Global(b)
  <2>1. PICK b \in BlockSet(GlobalAddr) : Global(b)
    BY <1>11
  <2>2. b.id \in Nat /\ b.size \in Nat
    BY BlockNats
  <2> QED BY <1>1, <1>4, <2>1, <2>2, ProgramTypes, RememberTypes DEF Global
<1>12. CASE Enter
  BY <1>1, <1>4, <1>12, ProgramTypes, FlagsType DEF Enter, ListTypes
<1>13. CASE Return
  BY <1>1, <1>4, <1>13, ProgramTypes, FlagsType DEF Return, ListTypes
<1>14. CASE ExitMain
  <2>1. MemTypeOK'
    BY <1>1, <1>14, ProgramTypes DEF ExitMain
  <2>2. ListTypes'
    BY <1>1, <1>14, FlagsType DEF ExitMain, ListTypes
  <2>3. status' \in Statuses
    BY <1>14 DEF ExitMain, Statuses, Alarms
  <2> QED BY <2>1, <2>2, <2>3
<1>15. CASE \E b \in BlockSet(StackAddr) : Alloca(b)
  <2>1. PICK b \in BlockSet(StackAddr) : Alloca(b)
    BY <1>15
  <2>2. b.id \in Nat /\ b.size \in Nat
    BY BlockNats
  <2> QED BY <1>1, <1>4, <2>1, <2>2, ProgramTypes, RememberTypes DEF Alloca
<1>16. ASSUME NEW s \in stackMem
       PROVE  s.id \in Nat /\ s.size \in Nat /\ s.id \in StackAddr
  BY <1>1, NatAddresses DEF MemTypeOK
<1>17. CASE \E s \in stackMem : LifetimeEnd(s)
  <2>1. PICK s \in stackMem : LifetimeEnd(s)
    BY <1>17
  <2>2. MemTypeOK' /\ status' \in Statuses
    BY <1>1, <1>4, <2>1, ProgramTypes DEF LifetimeEnd
  <2> DEFINE i == list_search(stack_list, s.id)
  <2>3. i \in 0 .. Len(stack_list) /\ stack_list \in Seq(Record)
    BY <1>1, <1>16, SearchFinds DEF ListTypes
  <2>4. i # 0 => RemoveAt(stack_list, i) \in Seq(Record)
    <3> HIDE DEF i
    <3> HAVE i # 0
    <3>1. i \in 1 .. Len(stack_list)
      BY <2>3
    <3> QED BY <2>3, <3>1, RemoveList
  <2>5. ListTypes'
    BY <1>1, <2>1, <2>4 DEF LifetimeEnd, destroy, lists, ListTypes
  <2> QED BY <2>2, <2>5
<1>18. CASE \E s \in stackMem : LifetimeStart(s)
  <2>1. PICK s \in stackMem : LifetimeStart(s)
    BY <1>18
  <2>2. MemTypeOK' /\ status' \in Statuses
    BY <1>1, <1>4, <2>1, ProgramTypes DEF LifetimeStart
  <2>3. s.id \in Nat /\ s.size \in Nat
    BY <1>16
  <2>4. ListTypes'
    BY <1>1, <2>1, <2>3, RememberTypes DEF LifetimeStart, ListTypes, lists
  <2> QED BY <2>2, <2>4
<1>19. CASE UNCHANGED vars
  BY <1>1, <1>19 DEF vars, memVars, lists, MemTypeOK, ListTypes
<1> QED
  BY <1>5, <1>6, <1>7, <1>8, <1>9, <1>10, <1>11, <1>12, <1>13, <1>14, <1>15, <1>17,
     <1>18, <1>19 DEF Next

(* Whatever the allocator does, the program's memory and the four lists    *)
(* stay well-formed: no search, detach or flag count ever leaves its list  *)
(* (memsafety.c:40-175).                                                   *)
THEOREM TypesHold == Spec => []TypeOK
<1>1. Init => TypeOK
  BY BoundAssumption DEF Init, MemInit, TypeOK, MemTypeOK, Statuses
<1>2. TypeOK /\ [Next]_vars => TypeOK'
  BY TypeStep
<1> QED BY <1>1, <1>2, PTL DEF Spec

-----------------------------------------------------------------------------
(***************************************************************************)
(* The heap lists mirror the heap, and what that gives the program: right  *)
(* verdicts for free() and for leaks, no false alarm from realloc().       *)
(* Assumed of the allocator: malloc hands a freed block out again only     *)
(* whole, and realloc hands out none.                                      *)
(*                                                                         *)
(* The strengthening.  A record leaves the deallocated list only if its    *)
(* block is handed out again, so live and freed blocks must be known never *)
(* to overlap; and a stack object or a global must be known never to lie   *)
(* on a freed block, whose record its remember call would then adopt.      *)
(* What realloc freed has no record; it must be known never to overlap     *)
(* what free() was given, or a record of that would speak for it.          *)
(***************************************************************************)
HeapApart ==
  /\ \A f \in freedMem, b \in heapMem : Disjoint(f, b)
  /\ \A b \in heapMem \cup freedMem : Fits(b, HeapAddr)

MovedApart == \A m \in movedMem, b \in heapMem \cup freedMem : Disjoint(m, b)

HeapInv == TypeOK /\ HeapMirrored /\ HeapApart /\ MovedApart

LEMMA SelfWithin ==
  ASSUME NEW b, b.id \in Nat, b.size \in Nat
  PROVE  Within(b, b.id) /\ ~ Disjoint(b, b)
BY DEF Within, Disjoint, Extent

LEMMA HeapBlocks ==
  ASSUME TypeOK
  PROVE  /\ heap_list \in Seq(Record) /\ deallocated_list \in Seq(Record)
         /\ \A b \in heapMem \cup freedMem \cup movedMem :
              b.id \in HeapAddr /\ b.id \in Nat /\ b.size \in Nat
<1>1. heapMem \cup freedMem \cup movedMem \subseteq BlockSet(HeapAddr)
  BY DEF TypeOK, MemTypeOK
<1>2. \A b \in BlockSet(HeapAddr) : b.id \in HeapAddr /\ b.id \in Nat /\ b.size \in Nat
  BY BlockNats
<1> QED BY <1>1, <1>2 DEF TypeOK

(* No freed block covers an address outside of the heap.                   *)
LEMMA NotFreed ==
  ASSUME HeapInv, NEW p \in Nat, p \notin HeapAddr
  PROVE  ~ Found(deallocated_list, p)
<1>1. deallocated_list \in Seq(Record) /\ Mirrors(deallocated_list, freedMem)
  BY HeapBlocks DEF HeapInv, HeapMirrored
<1>2. Found(deallocated_list, p) <=> \E f \in freedMem : Within(f, p)
  BY <1>1, MirrorSearch
<1>3. ASSUME NEW f \in freedMem, Within(f, p) PROVE FALSE
  <2>1. f.id \in Nat /\ f.size \in Nat /\ Fits(f, HeapAddr)
    BY HeapBlocks DEF HeapInv, HeapApart
  <2>2. p \in f.id .. (f.id + Extent(f) - 1)
    BY <2>1, <1>3 DEF Within, Extent
  <2> QED BY <2>1, <2>2 DEF Fits
<1> QED BY <1>2, <1>3

LEMMA RememberElsewhere ==
  ASSUME HeapInv, NEW p \in Nat, p \notin HeapAddr, NEW n \in Nat,
         remember(p, n) \/ remember_global(p, n)
  PROVE  UNCHANGED <<heap_list, deallocated_list>>
<1>1. list_search(deallocated_list, p) = 0
  BY NotFreed DEF Found
<1>2. DeallocatedWithout(p) = deallocated_list
  BY <1>1 DEF DeallocatedWithout
<1> QED BY <1>2 DEF remember, remember_global

LEMMA HeapUnchanged ==
  ASSUME HeapInv, UNCHANGED <<heapMem, freedMem, movedMem, heap_list, deallocated_list>>
  PROVE  HeapMirrored' /\ HeapApart' /\ MovedApart'
BY DEF HeapInv, HeapMirrored, HeapApart, MovedApart

LEMMA MallocMirrors ==
  ASSUME MallocReuse # "any", HeapInv, NEW b \in BlockSet(HeapAddr), Malloc(b)
  PROVE  HeapMirrored' /\ HeapApart' /\ MovedApart'
<1> DEFINE i == list_search(deallocated_list, b.id)
<1>1. /\ b.id \in Nat /\ b.size \in Nat /\ b = Block(b.id, b.size) /\ b.id # NULL
  <2>1. b.id \in HeapAddr /\ b.size \in Nat /\ b = Block(b.id, b.size)
    BY BlockNats
  <2> QED BY <2>1, NatAddresses
<1>2. /\ heap_list \in Seq(Record) /\ Mirrors(heap_list, heapMem)
      /\ deallocated_list \in Seq(Record) /\ Mirrors(deallocated_list, freedMem)
  BY HeapBlocks DEF HeapInv, HeapMirrored
<1>3. /\ Fits(b, HeapAddr) /\ \A o \in heapMem : Disjoint(o, b)
      /\ heapMem' = heapMem \cup {b}
      /\ freedMem' = {f \in freedMem : Disjoint(f, b)}
      /\ movedMem' = {m \in movedMem : Disjoint(m, b)}
  BY DEF Malloc, ProgMalloc, Free4Use, StillFreed, StillMoved
<1>4. \A f \in freedMem : f = b \/ Disjoint(f, b)
  BY BoundAssumption DEF Malloc, ProgMalloc, MayReuse, Policies
<1>5. \A o \in heapMem \cup freedMem : o.id \in Nat /\ o.size \in Nat
  BY HeapBlocks DEF HeapInv
<1>6. Within(b, b.id) /\ ~ Disjoint(b, b)
  BY <1>1, SelfWithin
<1>7. ~ Found(heap_list, b.id)
  <2>1. \A o \in heapMem : ~ Within(o, b.id)
    BY <1>1, <1>3, <1>5, <1>6, DisjointShareNothing
  <2> QED BY <2>1, <1>1, <1>2, MirrorSearch
<1>8. /\ heap_list' = Adopted(heap_list, b.id, b.size)
      /\ deallocated_list' = DeallocatedWithout(b.id)
  BY <1>1, <1>7 DEF Malloc, remember_malloc_calloc
<1>9. freedMem' = freedMem \ {b}
  BY <1>3, <1>4, <1>6
<1>10. Mirrors(heap_list', heapMem') /\ Mirrors(deallocated_list', freedMem')
  <2>1. CASE i = 0
    <3>1. b \notin freedMem
      <4>1. ~ Found(deallocated_list, b.id)
        BY <2>1 DEF Found
      <4> QED BY <4>1, <1>1, <1>2, <1>6, MirrorSearch
    <3>2. deallocated_list' = deallocated_list /\ freedMem' = freedMem
      BY <2>1, <3>1, <1>8, <1>9 DEF DeallocatedWithout
    <3>3. heap_list' = Cons(node_create(b.id, b.size), heap_list)
      BY <2>1, <1>8 DEF Adopted
    <3>4. node_create(b.id, b.size) \in Record /\ Bare(node_create(b.id, b.size)) = b
      BY <1>1, NodeIsRecord
    <3>5. Mirrors(Cons(node_create(b.id, b.size), heap_list), heapMem \cup {b})
      BY <1>2, <1>3, <3>4, MirrorCons
    <3> QED BY <1>2, <1>3, <3>2, <3>3, <3>5
  <2>2. CASE i # 0
    <3>1. heap_list' = Cons(deallocated_list[i], heap_list)
      BY <2>2, <1>8 DEF Adopted
    <3>2. deallocated_list' = RemoveAt(deallocated_list, i)
      BY <2>2, <1>8 DEF DeallocatedWithout
    <3>3. /\ i \in 1 .. Len(deallocated_list) /\ Within(Bare(deallocated_list[i]), b.id)
          /\ Bare(deallocated_list[i]) \in freedMem
      BY <2>2, <1>1, <1>2, MirrorSearch
    <3> HIDE DEF i
    <3>4. Bare(deallocated_list[i]) = b
      BY <3>3, <1>1, <1>4, <1>5, <1>6, DisjointShareNothing
    <3>5. deallocated_list[i] \in Record
      BY <3>3, <1>2
    <3>6. Mirrors(Cons(deallocated_list[i], heap_list), heapMem \cup {b})
      BY <1>2, <1>3, <3>4, <3>5, MirrorCons
    <3>7. Mirrors(RemoveAt(deallocated_list, i), freedMem \ {b})
      BY <1>2, <3>3, <3>4, MirrorRemove
    <3> QED BY <1>3, <1>9, <3>1, <3>2, <3>6, <3>7
  <2> QED BY <2>1, <2>2
<1>11. HeapApart' /\ MovedApart'
  BY <1>3 DEF HeapInv, HeapApart, MovedApart
<1> QED BY <1>10, <1>11 DEF HeapMirrored

(* The node that free() and realloc() detach is the one of the block that  *)
(* starts at p, and no other block starts there.                           *)
LEMMA BaseNode ==
  ASSUME HeapInv, NEW p \in Nat, \E o \in heapMem : o.id = p,
         NEW i, i = list_search(heap_list, p)
  PROVE  /\ i \in 1 .. Len(heap_list) /\ heap_list[i].id = p
         /\ Bare(heap_list[i]) \in heapMem
         /\ {o \in heapMem : o.id = p} = {Bare(heap_list[i])}
<1>1. heap_list \in Seq(Record) /\ Mirrors(heap_list, heapMem)
  BY HeapBlocks DEF HeapInv, HeapMirrored
<1>2. \A o \in heapMem : o.id = p => Within(o, p)
  BY HeapBlocks, SelfWithin DEF HeapInv
<1>3. Found(heap_list, p)
  BY <1>1, <1>2, MirrorSearch
<1>4. i # 0
  BY <1>3 DEF Found
<1>5. /\ i \in 1 .. Len(heap_list) /\ Bare(heap_list[i]) \in heapMem
      /\ \A o \in heapMem : Within(o, p) => o = Bare(heap_list[i])
  BY <1>1, <1>4, MirrorSearch
<1>6. {o \in heapMem : o.id = p} = {Bare(heap_list[i])}
  BY <1>2, <1>5
<1>7. heap_list[i].id = p
  <2>1. Bare(heap_list[i]).id = p
    BY <1>6
  <2>2. heap_list[i] \in Record
    BY <1>1, <1>5
  <2> QED BY <2>1, <2>2, BareNats
<1> QED BY <1>5, <1>6, <1>7

LEMMA FreeMirrors ==
  ASSUME HeapInv, NEW p \in Addr \cup {NULL}, Free(p)
  PROVE  HeapMirrored' /\ HeapApart' /\ MovedApart'
<1> DEFINE i == list_search(heap_list, p)
<1>1. /\ heap_list \in Seq(Record) /\ Mirrors(heap_list, heapMem)
      /\ deallocated_list \in Seq(Record) /\ Mirrors(deallocated_list, freedMem)
      /\ p \in Nat
  BY HeapBlocks, NatAddresses DEF HeapInv, HeapMirrored
<1>2. CASE FreeVerdict(p) # "running"
  BY <1>2, HeapUnchanged DEF Free, Stop, memVars, lists
<1>3. CASE FreeVerdict(p) = "running" /\ p = NULL
  <2>1. \A o \in heapMem : o.id # p
    BY <1>3, HeapBlocks, NatAddresses DEF HeapInv
  <2>2. UNCHANGED <<heapMem, freedMem, movedMem, heap_list, deallocated_list>>
    BY <1>3, <2>1 DEF Free, free, ProgFree
  <2> QED BY <2>2, HeapUnchanged
<1>4. CASE FreeVerdict(p) = "running" /\ p # NULL
  <2>1. i # 0 /\ heap_list[i].id = p
    BY <1>4 DEF FreeVerdict
  <2>2. /\ heap_list' = RemoveAt(heap_list, i)
        /\ deallocated_list' = Cons(heap_list[i], deallocated_list)
        /\ heapMem' = {b \in heapMem : b.id # p}
        /\ freedMem' = freedMem \cup {b \in heapMem : b.id = p}
        /\ movedMem' = movedMem
    BY <1>4 DEF Free, free, ProgFree
  <2>3. i \in 1 .. Len(heap_list) /\ Bare(heap_list[i]) \in heapMem
    BY <2>1, <1>1, MirrorSearch
  <2> HIDE DEF i
  <2>4. heap_list[i] \in Record /\ Bare(heap_list[i]).id = p
    BY <2>1, <2>3, <1>1, BareNats
  <2> DEFINE r == Bare(heap_list[i])
  <2>5. {o \in heapMem : o.id = p} = {r}
    <3>1. \E o \in heapMem : o.id = p
      BY <2>3, <2>4
    <3> QED BY <3>1, <1>1, BaseNode DEF i
  <2>6. heapMem' = heapMem \ {r} /\ freedMem' = freedMem \cup {r}
    BY <2>2, <2>5
  <2>7. Mirrors(RemoveAt(heap_list, i), heapMem \ {r})
    BY <1>1, <2>3, MirrorRemove
  <2>8. \A f \in freedMem : Disjoint(f, r)
    BY <2>3 DEF HeapInv, HeapApart
  <2>9. Mirrors(Cons(heap_list[i], deallocated_list), freedMem \cup {r})
    BY <1>1, <2>4, <2>8, MirrorCons
  <2>10. \A o \in heapMem \ {r} : Disjoint(r, o)
    BY <1>1, <2>3, MirrorApart
  <2> HIDE DEF r
  <2>11. HeapApart'
    BY <2>3, <2>6, <2>10 DEF HeapInv, HeapApart, r
  <2>12. MovedApart'
    BY <2>2 DEF HeapInv, MovedApart
  <2> QED BY <2>2, <2>6, <2>7, <2>9, <2>11, <2>12 DEF HeapMirrored
<1> QED BY <1>2, <1>3, <1>4

LEMMA ReallocMirrors ==
  ASSUME ReallocReuse = "none", HeapInv, NEW p \in HeapAddr \cup {NULL},
         NEW b \in BlockSet(HeapAddr), Realloc(p, b)
  PROVE  HeapMirrored' /\ HeapApart' /\ MovedApart'
<1> DEFINE i == list_search(heap_list, p)
           r == node_create(b.id, b.size)
           others == {o \in heapMem : o.id # p}
<1>1. /\ heap_list \in Seq(Record) /\ Mirrors(heap_list, heapMem)
      /\ deallocated_list \in Seq(Record) /\ Mirrors(deallocated_list, freedMem)
      /\ p \in Nat
  BY HeapBlocks, NatAddresses DEF HeapInv, HeapMirrored, NULL
<1>2. r \in Record /\ Bare(r) = b
  <2>1. b.id \in HeapAddr /\ b.size \in Nat /\ b = Block(b.id, b.size)
    BY BlockNats
  <2> QED BY <2>1, NatAddresses, NodeIsRecord
<1>3. /\ Fits(b, HeapAddr) /\ \A o \in others : Disjoint(o, b)
      /\ heapMem' = others \cup {b}
  BY DEF Realloc, ProgRealloc, Free4Use
<1>4. \A f \in freedMem : Disjoint(f, b)
  BY DEF Realloc, ProgRealloc, MayReuse
<1>5. freedMem' = freedMem
  BY <1>4 DEF Realloc, ProgRealloc, StillFreed
<1>6. deallocated_list' = deallocated_list
  BY DEF Realloc, realloc
<1> HIDE DEF r
<1>7. Mirrors(heap_list', others \cup {b})
  <2>1. CASE p = NULL
    <3>1. others = heapMem
      BY <2>1, HeapBlocks, NatAddresses DEF HeapInv
    <3>2. heap_list' = Cons(r, heap_list)
      BY <2>1 DEF Realloc, realloc, r
    <3>3. Mirrors(Cons(r, heap_list), others \cup {b})
      <4> HIDE DEF others
      <4> QED BY <1>1, <1>2, <1>3, <3>1, MirrorCons
    <3> QED BY <3>2, <3>3
  <2>2. CASE p # NULL
    <3>1. \E o \in heapMem : o.id = p
      BY <2>2 DEF Realloc
    <3>2. /\ i \in 1 .. Len(heap_list)
          /\ {o \in heapMem : o.id = p} = {Bare(heap_list[i])}
      BY <3>1, <1>1, BaseNode
    <3>3. heap_list' = RemoveAt(Cons(r, heap_list), i + 1)
      <4>1. i # 0
        BY <3>2
      <4> QED BY <4>1, <2>2 DEF Realloc, realloc, r
    <3> HIDE DEF i
    <3>4. heap_list' = Cons(r, RemoveAt(heap_list, i))
      BY <3>2, <3>3, <1>1, <1>2, DetachAfterPrepend
    <3>5. others = heapMem \ {Bare(heap_list[i])}
      BY <3>2
    <3>6. Mirrors(RemoveAt(heap_list, i), others)
      <4>1. Mirrors(RemoveAt(heap_list, i), heapMem \ {Bare(heap_list[i])})
        BY <1>1, <3>2, MirrorRemove
      <4> QED BY <4>1, <3>5
    <3>7. RemoveAt(heap_list, i) \in Seq(Record)
      BY <1>1, <3>2, RemoveList
    <3> HIDE DEF others
    <3>8. Mirrors(Cons(r, RemoveAt(heap_list, i)), others \cup {b})
      BY <1>2, <1>3, <3>6, <3>7, MirrorCons
    <3> QED BY <3>4, <3>8
  <2> QED BY <2>1, <2>2
<1>8. HeapMirrored'
  BY <1>1, <1>3, <1>5, <1>6, <1>7 DEF HeapMirrored
<1>9. HeapApart'
  BY <1>3, <1>4, <1>5 DEF HeapInv, HeapApart
<1>10. MovedApart'
  <2> SUFFICES ASSUME NEW m \in movedMem', NEW o \in others \cup {b} \cup freedMem
               PROVE  Disjoint(m, o)
    BY <1>3, <1>5 DEF MovedApart
  <2>1. CASE m \in StillMoved(b)
    BY <2>1 DEF StillMoved, HeapInv, MovedApart
  <2>2. CASE m \in heapMem /\ m.id = p /\ p # b.id
    <3>1. \A x \in heapMem : Disjoint(x, b)
      BY <2>2 DEF Realloc, ProgRealloc, Free4Use
    <3>2. \A x \in others : Disjoint(m, x)
      BY <2>2, <1>1, MirrorApart
    <3>3. \A f \in freedMem : Disjoint(m, f)
      BY <2>2, HeapBlocks DEF HeapInv, HeapApart, Disjoint, Extent
    <3> QED BY <2>2, <3>1, <3>2, <3>3
  <2> QED BY <2>1, <2>2 DEF Realloc, ProgRealloc
<1> QED BY <1>8, <1>9, <1>10

LEMMA HeapStep ==
  ASSUME MallocReuse # "any", ReallocReuse = "none", HeapInv, [Next]_vars
  PROVE  HeapInv'
<1>1. TypeOK'
  BY TypeStep DEF HeapInv
<1>2. SUFFICES HeapMirrored' /\ HeapApart' /\ MovedApart'
  BY <1>1 DEF HeapInv
<1>3. CASE \E b \in BlockSet(HeapAddr) : Malloc(b)
  BY <1>3, MallocMirrors
<1>4. CASE \E p \in Addr \cup {NULL} : Free(p)
  BY <1>4, FreeMirrors
<1>5. CASE \E p \in HeapAddr \cup {NULL}, b \in BlockSet(HeapAddr) : Realloc(p, b)
  BY <1>5, ReallocMirrors
<1>6. CASE \/ \E p \in Addr \cup {NULL} : BadRealloc(p)
           \/ \E p \in Addr \cup {NULL} : AccessNullOrFreed(p)
           \/ \E p \in Addr \cup {NULL}, n \in 1 .. MaxSize : Access(p, n)
  <2>1. \E s : Stop(s)
    BY <1>6 DEF BadRealloc, AccessNullOrFreed, Access
  <2> QED BY <2>1, HeapUnchanged DEF Stop, memVars, lists
<1>7. CASE Enter \/ Return \/ ExitMain
  BY <1>7, HeapUnchanged DEF Enter, Return, ExitMain, ProgEnter, ProgLeave
<1>8. CASE \E b \in BlockSet(GlobalAddr) : Global(b)
  <2>1. PICK b \in BlockSet(GlobalAddr) : Global(b)
    BY <1>8
  <2>2. b.id \in GlobalAddr /\ b.size \in Nat
    BY BlockNats
  <2>3. b.id \in Nat /\ b.id \notin HeapAddr
    BY <2>2, NatAddresses
  <2>4. UNCHANGED <<heap_list, deallocated_list>>
    BY <2>1, <2>2, <2>3, RememberElsewhere DEF Global
  <2> QED BY <2>1, <2>4, HeapUnchanged DEF Global, ProgGlobal
<1>9. CASE \E b \in BlockSet(StackAddr) : Alloca(b)
  <2>1. PICK b \in BlockSet(StackAddr) : Alloca(b)
    BY <1>9
  <2>2. b.id \in StackAddr /\ b.size \in Nat
    BY BlockNats
  <2>3. b.id \in Nat /\ b.id \notin HeapAddr
    BY <2>2, NatAddresses
  <2>4. UNCHANGED <<heap_list, deallocated_list>>
    BY <2>1, <2>2, <2>3, RememberElsewhere DEF Alloca
  <2> QED BY <2>1, <2>4, HeapUnchanged DEF Alloca, ProgAlloca
<1>10. CASE \E s \in stackMem : LifetimeEnd(s)
  BY <1>10, HeapUnchanged DEF LifetimeEnd, destroy, lists, ProgScope
<1>11. CASE \E s \in stackMem : LifetimeStart(s)
  <2>1. PICK s \in stackMem : LifetimeStart(s)
    BY <1>11
  <2>2. s.id \in StackAddr /\ s.size \in Nat
    BY NatAddresses DEF HeapInv, TypeOK, MemTypeOK
  <2>3. s.id \in Nat /\ s.id \notin HeapAddr
    BY <2>2, NatAddresses
  <2>4. UNCHANGED <<heap_list, deallocated_list>>
    <3>1. CASE ScopeStart
      BY <3>1, <2>1, <2>2, <2>3, RememberElsewhere DEF LifetimeStart
    <3>2. CASE ~ ScopeStart
      BY <3>2, <2>1 DEF LifetimeStart, lists
    <3> QED BY <3>1, <3>2
  <2> QED BY <2>1, <2>4, HeapUnchanged DEF LifetimeStart, ProgScope
<1>12. CASE UNCHANGED vars
  BY <1>12, HeapUnchanged DEF vars, memVars, lists
<1> QED
  BY <1>3, <1>4, <1>5, <1>6, <1>7, <1>8, <1>9, <1>10, <1>11, <1>12 DEF Next

LEMMA HeapStart == Init => HeapInv
<1> SUFFICES ASSUME Init PROVE HeapInv
  OBVIOUS
<1>1. TypeOK
  BY BoundAssumption DEF Init, MemInit, TypeOK, MemTypeOK, Statuses
<1>2. Mirrors(<<>>, {})
  BY DEF Mirrors, Bares, NoTwoOverlap
<1>3. HeapMirrored /\ HeapApart /\ MovedApart
  BY <1>2 DEF Init, MemInit, HeapMirrored, HeapApart, MovedApart
<1> QED BY <1>1, <1>3 DEF HeapInv

-----------------------------------------------------------------------------
LEMMA HeapAlways ==
  ASSUME MallocReuse # "any", ReallocReuse = "none"
  PROVE  Spec => []HeapInv
<1>1. HeapInv /\ [Next]_vars => HeapInv'
  BY HeapStep
<1> QED BY <1>1, HeapStart, PTL DEF Spec

(* After any sequence of allocations, frees, reallocations, frames and     *)
(* scopes, the heap list has one record for each live block and the        *)
(* deallocated list one for each block given to free() and not handed out  *)
(* again, with the block's own address and size, and no others             *)
(* (memsafety.c:149-238, 405-421).                                         *)
THEOREM HeapIsMirrored ==
  ASSUME MallocReuse # "any", ReallocReuse = "none"
  PROVE  Spec => []HeapMirrored
<1>1. HeapInv => HeapMirrored
  BY DEF HeapInv
<1> QED BY <1>1, HeapAlways, PTL

(* The deallocated list knows of freed memory all but what realloc freed.  *)
LEMMA FreedKnown ==
  ASSUME HeapInv, NEW p \in Nat
  PROVE  /\ Found(deallocated_list, p) <=> WasFreed(p) /\ ~ Forgotten(p)
         /\ Forgotten(p) => WasFreed(p)
<1>1. deallocated_list \in Seq(Record) /\ Mirrors(deallocated_list, freedMem)
  BY HeapBlocks DEF HeapInv, HeapMirrored
<1>2. Found(deallocated_list, p) <=> \E f \in freedMem : Within(f, p)
  BY <1>1, MirrorSearch
<1>3. ASSUME NEW f \in freedMem, Within(f, p), NEW m \in movedMem, Within(m, p)
      PROVE  FALSE
  <2>1. /\ f.id \in Nat /\ f.size \in Nat /\ m.id \in Nat /\ m.size \in Nat
        /\ Disjoint(m, f)
    BY HeapBlocks DEF HeapInv, MovedApart
  <2> QED BY <1>3, <2>1, DisjointShareNothing
<1> QED BY <1>2, <1>3 DEF WasFreed, Forgotten

LEMMA KnownVerdicts ==
  ASSUME NEW p
  PROVE  /\ Known(p, "freedDeref") = IF Forgotten(p) THEN "invalidDeref" ELSE "freedDeref"
         /\ Known(p, "doubleFree") = IF Forgotten(p) THEN "badFree" ELSE "doubleFree"
         /\ \A v \in {"running", "outOfRange", "invalidDeref", "badFree"} : Known(p, v) = v
BY DEF Known, WithoutRecord

LEMMA FreeJudged ==
  ASSUME HeapInv, NEW p \in Addr \cup {NULL}
  PROVE  FreeVerdict(p) = Known(p, JudgeFree(p))
<1> DEFINE i == list_search(heap_list, p)
<1>1. /\ heap_list \in Seq(Record) /\ Mirrors(heap_list, heapMem)
      /\ deallocated_list \in Seq(Record) /\ Mirrors(deallocated_list, freedMem)
      /\ p \in Nat
  BY HeapBlocks, NatAddresses DEF HeapInv, HeapMirrored
<1>2. Found(deallocated_list, p) <=> WasFreed(p) /\ ~ Forgotten(p)
  BY <1>1, FreedKnown
<1>3. (i # 0 /\ heap_list[i].id = p) <=> IsHeapBase(p)
  <2>1. IsHeapBase(p) => i # 0 /\ heap_list[i].id = p
    <3> HAVE IsHeapBase(p)
    <3>1. \E o \in heapMem : o.id = p
      BY DEF IsHeapBase
    <3>2. i \in 1 .. Len(heap_list) /\ heap_list[i].id = p
      BY <3>1, <1>1, BaseNode
    <3> HIDE DEF i
    <3> QED BY <3>2
  <2>2. i # 0 /\ heap_list[i].id = p => IsHeapBase(p)
    <3> HAVE i # 0 /\ heap_list[i].id = p
    <3>1. i \in 1 .. Len(heap_list) /\ Bare(heap_list[i]) \in heapMem
      BY <1>1, MirrorSearch
    <3> HIDE DEF i
    <3>2. Bare(heap_list[i]).id = p
      BY <3>1, <1>1, BareNats
    <3> QED BY <3>1, <3>2 DEF IsHeapBase
  <2> QED BY <2>1, <2>2
<1>4. FreeVerdict(p) = IF p = NULL \/ IsHeapBase(p) THEN "running"
                       ELSE IF WasFreed(p) /\ ~ Forgotten(p) THEN "doubleFree" ELSE "badFree"
  BY <1>2, <1>3, Zenon DEF FreeVerdict
<1>5. JudgeFree(p) = IF p = NULL \/ IsHeapBase(p) THEN "running"
                     ELSE IF WasFreed(p) THEN "doubleFree" ELSE "badFree"
  BY DEF JudgeFree
<1> QED BY <1>4, <1>5, KnownVerdicts

(* free() of a live block passes, a second free() and a free() of anything *)
(* else are reported as what they are, and free() of what realloc freed is *)
(* reported as one of memory never allocated (memsafety.c:149-173, 418).   *)
THEOREM FreesAreJudged ==
  ASSUME MallocReuse # "any", ReallocReuse = "none"
  PROVE  Spec => []FreeVerdicts
<1>1. HeapInv => FreeVerdicts
  BY FreeJudged DEF FreeVerdicts
<1> QED BY <1>1, HeapAlways, PTL

(* A live heap block is never taken for freed memory by realloc's check    *)
(* (memsafety.c:389-403).                                                  *)
THEOREM ReallocsAreSpared ==
  ASSUME MallocReuse # "any", ReallocReuse = "none"
  PROVE  Spec => []ReallocAlarmMeansFreed
<1>1. HeapInv => ReallocAlarmMeansFreed
  <2> SUFFICES ASSUME HeapInv, NEW p \in Addr, check_realloc(p) = "reallocFreed",
                      NEW o \in heapMem, o.id = p
               PROVE  FALSE
    BY DEF ReallocAlarmMeansFreed, IsHeapBase
  <2>1. Found(deallocated_list, p)
    BY DEF check_realloc
  <2>2. deallocated_list \in Seq(Record) /\ Mirrors(deallocated_list, freedMem) /\ p \in Nat
    BY HeapBlocks, NatAddresses DEF HeapInv, HeapMirrored
  <2>3. PICK f \in freedMem : Within(f, p)
    BY <2>1, <2>2, MirrorSearch
  <2>4. /\ f.id \in Nat /\ f.size \in Nat /\ o.id \in Nat /\ o.size \in Nat
        /\ Disjoint(f, o)
    BY HeapBlocks DEF HeapInv, HeapApart
  <2> QED BY <2>2, <2>3, <2>4, SelfWithin, DisjointShareNothing
<1> QED BY <1>1, HeapAlways, PTL

(* A report of a leak at the return of main means a heap block is left,    *)
(* and none means none is (memsafety.c:363-370).                           *)
THEOREM LeaksAreJudged ==
  ASSUME MallocReuse # "any", ReallocReuse = "none"
  PROVE  Spec => []LeakVerdict
<1>1. Init => LeakVerdict
  BY DEF Init, LeakVerdict
<1>2. HeapInv /\ LeakVerdict /\ [Next]_vars => LeakVerdict'
  <2> SUFFICES ASSUME HeapInv, LeakVerdict, [Next]_vars PROVE LeakVerdict'
    OBVIOUS
  <2>1. CASE Proceed
    BY <2>1 DEF Proceed, LeakVerdict
  <2>2. CASE \E s \in Statuses \ {"leak", "exited"} : Stop(s)
    BY <2>2 DEF Stop, LeakVerdict
  <2>3. CASE UNCHANGED vars
    BY <2>3 DEF vars, memVars, LeakVerdict
  <2>4. CASE ExitMain
    <3>1. heap_list # <<>> <=> heapMem # {}
      <4>1. heapMem = Bares(heap_list)
        BY DEF HeapInv, HeapMirrored, Mirrors
      <4>2. heap_list \in Seq(Record)
        BY HeapBlocks DEF HeapInv
      <4>3. CASE heap_list = <<>>
        BY <4>1, <4>3 DEF Bares
      <4>4. CASE heap_list # <<>>
        <5>1. 1 \in DOMAIN heap_list
          BY <4>2, <4>4
        <5> QED BY <4>1, <4>4, <5>1 DEF Bares
      <4> QED BY <4>3, <4>4
    <3> QED BY <2>4, <3>1 DEF ExitMain, ProgLeave, LeakVerdict
  <2>5. CASE Next
    <3>1. CASE \/ \E p \in Addr \cup {NULL} : BadRealloc(p)
               \/ \E p \in Addr \cup {NULL} : AccessNullOrFreed(p)
               \/ \E p \in Addr \cup {NULL}, n \in 1 .. MaxSize : Access(p, n)
      <4>1. CASE \E p \in Addr \cup {NULL} : BadRealloc(p)
        BY <4>1, <2>2, VerdictTypes DEF BadRealloc, Statuses, Alarms
      <4>2. CASE \E p \in Addr \cup {NULL} : AccessNullOrFreed(p)
        BY <4>2, <2>2 DEF AccessNullOrFreed, Statuses, Alarms
      <4>3. CASE \E p \in Addr \cup {NULL}, n \in 1 .. MaxSize : Access(p, n)
        BY <4>3, <2>2, VerdictTypes DEF Access, check_heap, check_stack, check_globals,
                                        check_pointer, Statuses, Alarms
      <4> QED BY <3>1, <4>1, <4>2, <4>3
    <3>2. CASE \E p \in Addr \cup {NULL} : Free(p)
      <4>1. PICK p \in Addr \cup {NULL} : Free(p)
        BY <3>2
      <4>2. Proceed \/ Stop(FreeVerdict(p))
        BY <4>1 DEF Free
      <4>3. FreeVerdict(p) \in Statuses \ {"leak", "exited"}
        BY VerdictTypes DEF Statuses, Alarms
      <4> QED BY <4>2, <4>3, <2>1, <2>2
    <3>3. CASE \/ \E b \in BlockSet(HeapAddr) : Malloc(b)
               \/ \E p \in HeapAddr \cup {NULL}, b \in BlockSet(HeapAddr) : Realloc(p, b)
               \/ \E b \in BlockSet(GlobalAddr) : Global(b)
               \/ Enter \/ Return
               \/ \E b \in BlockSet(StackAddr) : Alloca(b)
               \/ \E s \in stackMem : LifetimeEnd(s)
               \/ \E s \in stackMem : LifetimeStart(s)
      BY <3>3, <2>1 DEF Malloc, Realloc, Global, Enter, Return, Alloca, LifetimeEnd,
                        LifetimeStart
    <3> QED BY <2>4, <2>5, <3>1, <3>2, <3>3 DEF Next
  <2> QED BY <2>3, <2>5
<1> QED BY <1>1, <1>2, HeapAlways, PTL DEF Spec

(***************************************************************************)
(* From here on: the lists for globals and for the stack mirror the        *)
(* program's globals and open stack objects, and a return drops exactly    *)
(* the records of the frame it leaves; with the heap lists every           *)
(* dereference and every realloc() gets the right answer.  What is said of *)
(* globals and stack alone holds with any allocator.                       *)
(***************************************************************************)

(***************************************************************************)
(* Globals.  A remember call adopts a deallocated record that covers its   *)
(* address, so the records of the heap's two lists must be known never to  *)
(* leave the heap, however stale they are.                                 *)
(***************************************************************************)
RecordsInHeap ==
  \A r \in Bares(heap_list) \cup Bares(deallocated_list) : Fits(r, HeapAddr)

GlobalsFit == \A b \in globalMem : Fits(b, GlobalAddr)

RegionInv == TypeOK /\ RecordsInHeap /\ GlobalsMirrored /\ GlobalsFit

LEMMA FitsWithin ==
  ASSUME NEW b, b.id \in Nat, b.size \in Nat, NEW region, Fits(b, region),
         NEW p \in Nat, Within(b, p)
  PROVE  p \in region
<1>1. p \in b.id .. (b.id + Extent(b) - 1)
  BY DEF Within, Extent
<1> QED BY <1>1 DEF Fits

LEMMA RemoveKeeps ==
  ASSUME NEW list \in Seq(Record), NEW k \in 1 .. Len(list)
  PROVE  Bares(RemoveAt(list, k)) \subseteq Bares(list)
<1> DEFINE c == RemoveAt(list, k)
<1>1. c \in Seq(Record) /\ Len(c) = Len(list) - 1
  BY RemoveList
<1>2. \A i \in 1 .. Len(list) - 1 : c[i] = IF i < k THEN list[i] ELSE list[i + 1]
  BY RemoveList
<1> HIDE DEF c
<1>3. DOMAIN c = 1 .. Len(list) - 1 /\ DOMAIN list = 1 .. Len(list) /\ Len(list) \in Nat
  BY <1>1
<1>4. SUFFICES ASSUME NEW i \in 1 .. Len(list) - 1
               PROVE  \E j \in 1 .. Len(list) : c[i] = list[j]
  BY <1>3 DEF Bares, c
<1> QED BY <1>2, <1>3

(* No remember call for a global or a stack object adopts a record.        *)
LEMMA NothingAdopted ==
  ASSUME TypeOK, RecordsInHeap, NEW p \in Nat, p \notin HeapAddr
  PROVE  list_search(deallocated_list, p) = 0
<1> DEFINE i == list_search(deallocated_list, p)
<1>1. deallocated_list \in Seq(Record)
  BY DEF TypeOK
<1>2. i \in 0 .. Len(deallocated_list) /\ (i # 0 => Covers(deallocated_list[i], p))
  BY <1>1, SearchFinds
<1> HIDE DEF i
<1>3. SUFFICES ASSUME i # 0 PROVE FALSE
  BY DEF i
<1>4. i \in 1 .. Len(deallocated_list) /\ deallocated_list[i] \in Record
  BY <1>1, <1>2, <1>3
<1>5. /\ Within(Bare(deallocated_list[i]), p)
      /\ Bare(deallocated_list[i]).id \in Nat /\ Bare(deallocated_list[i]).size \in Nat
  BY <1>2, <1>3, <1>4, CoversWithin, BareNats
<1>6. Fits(Bare(deallocated_list[i]), HeapAddr)
  BY <1>1, <1>4 DEF RecordsInHeap, Bares
<1> QED BY <1>5, <1>6, FitsWithin

LEMMA RememberFresh ==
  ASSUME TypeOK, RecordsInHeap, NEW p \in Nat, p \notin HeapAddr, NEW n \in Nat
  PROVE  /\ DeallocatedWithout(p) = deallocated_list
         /\ Adopted(stack_list, p, n) = Cons(node_create(p, n), stack_list)
         /\ Adopted(globals_list, p, n) = Cons(node_create(p, n), globals_list)
         /\ remember(p, n) => UNCHANGED <<heap_list, deallocated_list>>
         /\ remember_global(p, n) => UNCHANGED <<heap_list, deallocated_list>>
<1>1. list_search(deallocated_list, p) = 0
  BY NothingAdopted
<1>2. DeallocatedWithout(p) = deallocated_list
  BY <1>1 DEF DeallocatedWithout
<1>3. /\ Adopted(stack_list, p, n) = Cons(node_create(p, n), stack_list)
      /\ Adopted(globals_list, p, n) = Cons(node_create(p, n), globals_list)
  BY <1>1 DEF Adopted
<1> QED BY <1>2, <1>3 DEF remember, remember_global

LEMMA HeapRecordsUnchanged ==
  ASSUME RecordsInHeap, UNCHANGED <<heap_list, deallocated_list>>
  PROVE  RecordsInHeap'
BY DEF RecordsInHeap

LEMMA MallocInHeap ==
  ASSUME TypeOK, RecordsInHeap, NEW b \in BlockSet(HeapAddr), Malloc(b)
  PROVE  RecordsInHeap'
<1> DEFINE i == list_search(deallocated_list, b.id)
<1>1. b.id \in Nat /\ b.size \in Nat /\ b = Block(b.id, b.size) /\ Fits(b, HeapAddr)
  BY BlockNats DEF Malloc, ProgMalloc, Free4Use
<1>2. heap_list \in Seq(Record) /\ deallocated_list \in Seq(Record)
  BY DEF TypeOK
<1>3. i \in 0 .. Len(deallocated_list)
  BY <1>1, <1>2, SearchFinds
<1>4. CASE UNCHANGED <<heap_list, deallocated_list>>
  BY <1>4, HeapRecordsUnchanged
<1>5. CASE /\ heap_list' = Adopted(heap_list, b.id, b.size)
           /\ deallocated_list' = DeallocatedWithout(b.id)
  <2>1. CASE i = 0
    <3>1. /\ heap_list' = Cons(node_create(b.id, b.size), heap_list)
          /\ deallocated_list' = deallocated_list
      BY <1>5, <2>1 DEF Adopted, DeallocatedWithout
    <3>2. node_create(b.id, b.size) \in Record /\ Bare(node_create(b.id, b.size)) = b
      BY <1>1, NodeIsRecord
    <3>3. Bares(heap_list') = Bares(heap_list) \cup {b}
      BY <3>1, <3>2, <1>2, ConsList
    <3> QED BY <3>1, <3>3, <1>1 DEF RecordsInHeap
  <2>2. CASE i # 0
    <3>1. /\ heap_list' = Cons(deallocated_list[i], heap_list)
          /\ deallocated_list' = RemoveAt(deallocated_list, i)
      BY <1>5, <2>2 DEF Adopted, DeallocatedWithout
    <3> HIDE DEF i
    <3>2. i \in 1 .. Len(deallocated_list) /\ deallocated_list[i] \in Record
      BY <1>2, <1>3, <2>2
    <3>3. Bare(deallocated_list[i]) \in Bares(deallocated_list)
      BY <1>2, <3>2 DEF Bares
    <3>4. Bares(heap_list') = Bares(heap_list) \cup {Bare(deallocated_list[i])}
      BY <3>1, <3>2, <1>2, ConsList
    <3>5. Bares(deallocated_list') \subseteq Bares(deallocated_list)
      BY <3>1, <3>2, <1>2, RemoveKeeps
    <3> QED BY <3>3, <3>4, <3>5 DEF RecordsInHeap
  <2> QED BY <2>1, <2>2
<1> QED BY <1>4, <1>5 DEF Malloc, remember_malloc_calloc

LEMMA FreeInHeap ==
  ASSUME TypeOK, RecordsInHeap, NEW p \in Addr \cup {NULL}, Free(p)
  PROVE  RecordsInHeap'
<1> DEFINE i == list_search(heap_list, p)
<1>1. heap_list \in Seq(Record) /\ deallocated_list \in Seq(Record) /\ p \in Nat
  BY NatAddresses DEF TypeOK
<1>2. CASE UNCHANGED <<heap_list, deallocated_list>>
  BY <1>2, HeapRecordsUnchanged
<1>3. CASE FreeVerdict(p) = "running" /\ p # NULL
  <2>1. i # 0
    BY <1>3 DEF FreeVerdict
  <2>2. i \in 0 .. Len(heap_list)
    BY <1>1, SearchFinds
  <2>3. /\ heap_list' = RemoveAt(heap_list, i)
        /\ deallocated_list' = Cons(heap_list[i], deallocated_list)
    BY <1>3 DEF Free, free
  <2> HIDE DEF i
  <2>4. i \in 1 .. Len(heap_list) /\ heap_list[i] \in Record
    BY <1>1, <2>1, <2>2
  <2>5. Bare(heap_list[i]) \in Bares(heap_list)
    BY <1>1, <2>4 DEF Bares
  <2>6. Bares(deallocated_list') = Bares(deallocated_list) \cup {Bare(heap_list[i])}
    BY <2>3, <2>4, <1>1, ConsList
  <2>7. Bares(heap_list') \subseteq Bares(heap_list)
    BY <2>3, <2>4, <1>1, RemoveKeeps
  <2> QED BY <2>5, <2>6, <2>7 DEF RecordsInHeap
<1> QED BY <1>2, <1>3 DEF Free, free, Stop, lists

LEMMA ReallocInHeap ==
  ASSUME TypeOK, RecordsInHeap, NEW p \in HeapAddr \cup {NULL},
         NEW b \in BlockSet(HeapAddr), Realloc(p, b)
  PROVE  RecordsInHeap'
<1> DEFINE i == list_search(heap_list, p)
           r == node_create(b.id, b.size)
           made == Cons(r, heap_list)
<1>1. heap_list \in Seq(Record) /\ deallocated_list \in Seq(Record) /\ p \in Nat
  BY NatAddresses DEF TypeOK, NULL
<1>2. b.id \in Nat /\ b.size \in Nat /\ b = Block(b.id, b.size)
  BY BlockNats
<1>3. Fits(b, HeapAddr)
  BY DEF Realloc, ProgRealloc, Free4Use
<1>4. r \in Record /\ Bare(r) = b
  BY <1>2, NodeIsRecord
<1>5. i \in 0 .. Len(heap_list)
  BY <1>1, SearchFinds
<1>6. /\ deallocated_list' = deallocated_list
      /\ heap_list' \in {heap_list, made} \/ (i # 0 /\ heap_list' = RemoveAt(made, i + 1))
  BY DEF Realloc, realloc
<1> HIDE DEF i, r
<1>7. made \in Seq(Record) /\ Len(made) = Len(heap_list) + 1
      /\ Bares(made) = Bares(heap_list) \cup {b}
  BY <1>1, <1>4, ConsList
<1> HIDE DEF made
<1>8. i # 0 => Bares(RemoveAt(made, i + 1)) \subseteq Bares(made)
  <2> HAVE i # 0
  <2>1. i + 1 \in 1 .. Len(made)
    BY <1>1, <1>5, <1>7
  <2> QED BY <2>1, <1>7, RemoveKeeps
<1>9. Bares(heap_list') \subseteq Bares(heap_list) \cup {b}
  BY <1>6, <1>7, <1>8
<1> QED BY <1>3, <1>6, <1>9 DEF RecordsInHeap

(* A new block that lies apart from all blocks of a list gets a record of  *)
(* its own there, and the list still mirrors its blocks.                   *)
LEMMA FreshMirrors ==
  ASSUME NEW list \in Seq(Record), NEW mem, Mirrors(list, mem),
         NEW b, b.id \in Nat, b.size \in Nat, b = Block(b.id, b.size),
         \A o \in mem : Disjoint(o, b)
  PROVE  /\ ~ Found(list, b.id)
         /\ Mirrors(Cons(node_create(b.id, b.size), list), mem \cup {b})
<1>1. \A o \in mem : o.id \in Nat /\ o.size \in Nat
  <2>1. \A j \in 1 .. Len(list) : list[j] \in Record
    OBVIOUS
  <2>2. \A o \in mem : \E j \in 1 .. Len(list) : o = Bare(list[j])
    BY DEF Mirrors, Bares
  <2> QED BY <2>1, <2>2, BareNats
<1>2. \A o \in mem : ~ Within(o, b.id)
  BY <1>1, SelfWithin, DisjointShareNothing
<1>3. ~ Found(list, b.id)
  BY <1>2, MirrorSearch
<1>4. node_create(b.id, b.size) \in Record /\ Bare(node_create(b.id, b.size)) = b
  BY NodeIsRecord
<1>5. Mirrors(Cons(node_create(b.id, b.size), list), mem \cup {b})
  BY <1>4, MirrorCons
<1> QED BY <1>3, <1>5

LEMMA GlobalMirrors ==
  ASSUME RegionInv, NEW b \in BlockSet(GlobalAddr), Global(b)
  PROVE  RecordsInHeap' /\ GlobalsMirrored' /\ GlobalsFit'
<1>1. b.id \in Nat /\ b.size \in Nat /\ b = Block(b.id, b.size) /\ b.id \notin HeapAddr
  BY BlockNats, NatAddresses
<1>2. /\ Fits(b, GlobalAddr) /\ \A o \in globalMem : Disjoint(o, b)
      /\ globalMem' = globalMem \cup {b}
      /\ remember_global(b.id, b.size)
  BY DEF Global, ProgGlobal
<1>3. globals_list \in Seq(Record) /\ Mirrors(globals_list, globalMem)
  BY DEF RegionInv, TypeOK, GlobalsMirrored
<1>4. /\ ~ Found(globals_list, b.id)
      /\ Mirrors(Cons(node_create(b.id, b.size), globals_list), globalMem \cup {b})
  BY <1>1, <1>2, <1>3, FreshMirrors
<1>5. globals_list' = Adopted(globals_list, b.id, b.size)
  BY <1>2, <1>4 DEF remember_global, Found
<1>6. /\ Adopted(globals_list, b.id, b.size) = Cons(node_create(b.id, b.size), globals_list)
      /\ UNCHANGED <<heap_list, deallocated_list>>
  BY <1>1, <1>2, RememberFresh DEF RegionInv
<1>7. RecordsInHeap'
  BY <1>6, HeapRecordsUnchanged DEF RegionInv
<1>8. GlobalsFit'
  BY <1>2 DEF RegionInv, GlobalsFit
<1> QED BY <1>2, <1>4, <1>5, <1>6, <1>7, <1>8 DEF GlobalsMirrored

(* What a step does to the three lists that are not the stack's: it is an  *)
(* operation on the heap, a new global, or leaves them alone.              *)
LEMMA ElsewhereStep ==
  ASSUME TypeOK, RecordsInHeap, [Next]_vars
  PROVE  \/ \E b \in BlockSet(HeapAddr) : Malloc(b)
         \/ \E p \in Addr \cup {NULL} : Free(p)
         \/ \E p \in HeapAddr \cup {NULL}, b \in BlockSet(HeapAddr) : Realloc(p, b)
         \/ \E b \in BlockSet(GlobalAddr) : Global(b)
         \/ UNCHANGED <<heap_list, deallocated_list, globals_list, globalMem>>
<1>1. ASSUME NEW p \in StackAddr, NEW n \in Nat, remember(p, n)
      PROVE  UNCHANGED <<heap_list, deallocated_list, globals_list>>
  <2>1. p \in Nat /\ p \notin HeapAddr
    BY NatAddresses
  <2> QED BY <2>1, <1>1, RememberFresh DEF remember
<1>2. CASE \/ \E p \in Addr \cup {NULL} : BadRealloc(p)
           \/ \E p \in Addr \cup {NULL} : AccessNullOrFreed(p)
           \/ \E p \in Addr \cup {NULL}, n \in 1 .. MaxSize : Access(p, n)
           \/ UNCHANGED vars
  BY <1>2 DEF BadRealloc, AccessNullOrFreed, Access, Stop, vars, memVars, lists
<1>3. CASE Enter \/ Return \/ ExitMain
  BY <1>3 DEF Enter, Return, ExitMain, ProgEnter, ProgLeave
<1>4. CASE \E b \in BlockSet(StackAddr) : Alloca(b)
  <2>1. PICK b \in BlockSet(StackAddr) : Alloca(b)
    BY <1>4
  <2>2. b.id \in StackAddr /\ b.size \in Nat
    BY BlockNats
  <2> QED BY <2>1, <2>2, <1>1 DEF Alloca, ProgAlloca
<1>5. CASE \E s \in stackMem : LifetimeEnd(s)
  BY <1>5 DEF LifetimeEnd, ProgScope, destroy, lists
<1>6. CASE \E s \in stackMem : LifetimeStart(s)
  <2>1. PICK s \in stackMem : LifetimeStart(s)
    BY <1>6
  <2>2. s.id \in StackAddr /\ s.size \in Nat
    BY NatAddresses DEF TypeOK, MemTypeOK
  <2>3. UNCHANGED <<heap_list, deallocated_list, globals_list>>
    BY <2>1, <2>2, <1>1 DEF LifetimeStart, lists
  <2> QED BY <2>1, <2>3 DEF LifetimeStart, ProgScope
<1> QED BY <1>2, <1>3, <1>4, <1>5, <1>6 DEF Next

LEMMA RegionStep ==
  ASSUME RegionInv, [Next]_vars
  PROVE  RegionInv'
<1>1. TypeOK'
  BY TypeStep DEF RegionInv
<1>2. ASSUME UNCHANGED <<globals_list, globalMem>>
      PROVE  GlobalsMirrored' /\ GlobalsFit'
  BY <1>2 DEF RegionInv, GlobalsMirrored, GlobalsFit
<1>3. CASE \E b \in BlockSet(HeapAddr) : Malloc(b)
  <2>1. RecordsInHeap'
    BY <1>3, MallocInHeap DEF RegionInv
  <2>2. UNCHANGED <<globals_list, globalMem>>
    BY <1>3 DEF Malloc, ProgMalloc, remember_malloc_calloc
  <2> QED BY <1>1, <1>2, <2>1, <2>2 DEF RegionInv
<1>4. CASE \E p \in Addr \cup {NULL} : Free(p)
  <2>1. RecordsInHeap'
    BY <1>4, FreeInHeap DEF RegionInv
  <2>2. UNCHANGED <<globals_list, globalMem>>
    BY <1>4 DEF Free, ProgFree, free, Stop, memVars, lists
  <2> QED BY <1>1, <1>2, <2>1, <2>2 DEF RegionInv
<1>5. CASE \E p \in HeapAddr \cup {NULL}, b \in BlockSet(HeapAddr) : Realloc(p, b)
  <2>1. RecordsInHeap'
    BY <1>5, ReallocInHeap DEF RegionInv
  <2>2. UNCHANGED <<globals_list, globalMem>>
    BY <1>5 DEF Realloc, ProgRealloc, realloc
  <2> QED BY <1>1, <1>2, <2>1, <2>2 DEF RegionInv
<1>6. CASE \E b \in BlockSet(GlobalAddr) : Global(b)
  BY <1>1, <1>6, GlobalMirrors DEF RegionInv
<1>7. CASE UNCHANGED <<heap_list, deallocated_list, globals_list, globalMem>>
  BY <1>1, <1>2, <1>7, HeapRecordsUnchanged DEF RegionInv
<1> QED BY <1>3, <1>4, <1>5, <1>6, <1>7, ElsewhereStep DEF RegionInv

LEMMA EmptyMirrors == Mirrors(<<>>, {})
BY DEF Mirrors, Bares, NoTwoOverlap

LEMMA RegionAlways == Spec => []RegionInv
<1>1. Init => RegionInv
  <2> SUFFICES ASSUME Init PROVE RegionInv
    OBVIOUS
  <2>1. TypeOK
    BY HeapStart DEF HeapInv
  <2>2. RecordsInHeap
    BY DEF Init, RecordsInHeap, Bares
  <2>3. GlobalsMirrored /\ GlobalsFit
    BY EmptyMirrors DEF Init, MemInit, GlobalsMirrored, GlobalsFit
  <2> QED BY <2>1, <2>2, <2>3 DEF RegionInv
<1>2. RegionInv /\ [Next]_vars => RegionInv'
  BY RegionStep
<1> QED BY <1>1, <1>2, PTL DEF Spec

(* Every global has its own record with its address and size, and no       *)
(* record is of anything else, whatever the allocator does                 *)
(* (memsafety.c:202-238).                                                  *)
THEOREM GlobalsAreMirrored == Spec => []GlobalsMirrored
<1>1. RegionInv => GlobalsMirrored
  BY DEF RegionInv
<1> QED BY <1>1, RegionAlways, PTL

-----------------------------------------------------------------------------
(***************************************************************************)
(* The stack.  A record does not say whose frame it is of; the flags do.   *)
(* The strengthening gives every node the frame of its object, fr, and 0   *)
(* the running frame: going down the list the frames never rise, and the   *)
(* flag of a node is the number of frames that begin between the node      *)
(* above it (or the top of the call stack) and itself.                     *)
(***************************************************************************)
FrameOfNodes == [0 .. Len(stack_list) -> 0 .. MaxDepth]

FramesOf(fr) ==
  /\ fr[0] = depth
  /\ \A i, j \in 0 .. Len(stack_list) : i < j => fr[j] <= fr[i]
  /\ \A i \in 1 .. Len(stack_list) :
       /\ \E s \in stackMem : s.live /\ s.frame = fr[i] /\ Open(s) = Bare(stack_list[i])
       /\ stack_list[i].flag = fr[i - 1] - fr[i]

StackFlagged == \E fr \in FrameOfNodes : FramesOf(fr)

(* Stack objects lie apart, also those whose scope is closed, and none is  *)
(* of a frame that is gone.                                                *)
StackApart ==
  /\ \A s, t \in stackMem : s = t \/ Disjoint(Open(s), Open(t))
  /\ \A s \in stackMem : Fits(Open(s), StackAddr) /\ s.frame <= depth

StackInv == StackMirrored /\ StackApart /\ StackFlagged

LEMMA StackObjects ==
  ASSUME TypeOK
  PROVE  /\ \A s \in stackMem : /\ s.id \in StackAddr /\ s.id \in Nat /\ s.id \notin HeapAddr
                                /\ s.size \in Nat /\ s.frame \in Nat /\ s.live \in BOOLEAN
                                /\ Open(s).id = s.id /\ Open(s).size = s.size
                                /\ Open(s) = Block(s.id, s.size)
         /\ depth \in Nat /\ depth \in 0 .. MaxDepth /\ MaxDepth \in Nat
         /\ stack_list \in Seq(Record) /\ Len(stack_list) \in Nat
         /\ \A i \in 1 .. Len(stack_list) : stack_list[i] \in Record /\ stack_list[i].flag \in Nat
<1>1. stackMem \subseteq [id : StackAddr, size : Sizes, frame : 1 .. MaxDepth, live : BOOLEAN]
      /\ stack_list \in Seq(Record)
  BY DEF TypeOK, MemTypeOK
<1>2. depth \in 0 .. MaxDepth /\ MaxDepth \in Nat
  BY BoundAssumption DEF TypeOK, MemTypeOK
<1>3. \A s \in stackMem : /\ s.id \in StackAddr /\ s.id \in Nat /\ s.id \notin HeapAddr
                         /\ s.size \in Nat /\ s.frame \in Nat /\ s.live \in BOOLEAN
  <2> TAKE s \in stackMem
  <2>1. /\ s.id \in StackAddr /\ s.size \in Sizes /\ s.frame \in 1 .. MaxDepth
        /\ s.live \in BOOLEAN
    BY <1>1
  <2>2. s.id \in Nat /\ s.id \notin HeapAddr /\ s.size \in Nat
    BY <2>1, NatAddresses
  <2> QED BY <2>1, <2>2, <1>2
<1>4. \A s : Open(s).id = s.id /\ Open(s).size = s.size /\ Open(s) = Block(s.id, s.size)
  BY DEF Open, Block
<1>5. \A i \in 1 .. Len(stack_list) : stack_list[i] \in Record /\ stack_list[i].flag \in Nat
  <2>1. \A i \in 1 .. Len(stack_list) : stack_list[i] \in Record
    BY <1>1
  <2> QED BY <2>1, RecordUpdates
<1> QED BY <1>1, <1>2, <1>3, <1>4, <1>5

(* An object is known by its address and size.                             *)
LEMMA OneObject ==
  ASSUME TypeOK, StackApart, NEW s \in stackMem, NEW t \in stackMem, Open(s) = Open(t)
  PROVE  s = t
<1>1. ~ Disjoint(Open(s), Open(s))
  BY StackObjects, SelfWithin
<1> QED BY <1>1 DEF StackApart

(* Nodes that no flag separates from the top are of the running frame.     *)
LEMMA UnflaggedTop ==
  ASSUME TypeOK, NEW fr \in FrameOfNodes, FramesOf(fr), NEW n \in 0 .. Len(stack_list),
         \A j \in 1 .. n : stack_list[j].flag = 0
  PROVE  \A j \in 0 .. n : fr[j] = depth
<1> DEFINE S == {j \in 0 .. n : fr[j] # depth}
<1>1. SUFFICES ASSUME S # {} PROVE FALSE
  OBVIOUS
<1>2. S \subseteq Nat
  OBVIOUS
<1> DEFINE m == Min(S)
<1>3. m \in S /\ \A y \in S : m <= y
  BY <1>1, <1>2, MinOfNats
<1> HIDE DEF m
<1>4. Len(stack_list) \in Nat /\ depth \in Nat /\ MaxDepth \in Nat
  BY StackObjects
<1>5. m # 0
  BY <1>3 DEF FramesOf
<1>6. m \in 1 .. n /\ m - 1 \in 0 .. n /\ m - 1 \notin S
  BY <1>3, <1>4, <1>5
<1>7. fr[m - 1] = depth
  BY <1>6
<1>8. stack_list[m].flag = fr[m - 1] - fr[m] /\ stack_list[m].flag = 0
  BY <1>4, <1>6 DEF FramesOf
<1>9. fr[m] \in Nat
  BY <1>4, <1>6 DEF FrameOfNodes
<1> QED BY <1>3, <1>4, <1>7, <1>8, <1>9

(* What destroy_allocas leaves: the list from the first node of another    *)
(* frame on, with one flag less on that node.                              *)
LEMMA DestroyLeaves ==
  ASSUME TypeOK, NEW fr \in FrameOfNodes, FramesOf(fr)
  PROVE  \E k \in 1 .. Len(stack_list) + 1 :
           /\ destroy_allocas \in Seq(Record)
           /\ Len(destroy_allocas) = Len(stack_list) + 1 - k
           /\ \A i \in 1 .. Len(stack_list) + 1 - k :
                /\ Bare(destroy_allocas[i]) = Bare(stack_list[k + i - 1])
                /\ i > 1 => destroy_allocas[i].flag = stack_list[k + i - 1].flag
                /\ i = 1 => destroy_allocas[i].flag = stack_list[k + i - 1].flag - 1
           /\ \A j \in 0 .. Len(stack_list) : j < k => fr[j] = depth
           /\ \A j \in 0 .. Len(stack_list) : k <= j => fr[j] < depth
<1> DEFINE f == FirstFlagged(stack_list)
<1>1. /\ stack_list \in Seq(Record) /\ Len(stack_list) \in Nat /\ depth \in Nat /\ MaxDepth \in Nat
      /\ \A i \in 1 .. Len(stack_list) : stack_list[i] \in Record /\ stack_list[i].flag \in Nat
  BY StackObjects
<1>2. /\ f \in 0 .. Len(stack_list)
      /\ f # 0 => /\ stack_list[f].flag > 0
                  /\ \A j \in 1 .. f - 1 : ~ (stack_list[j].flag > 0)
      /\ f = 0 => \A j \in 1 .. Len(stack_list) : ~ (stack_list[j].flag > 0)
  BY <1>1, FlaggedFinds
<1>3. destroy_allocas \in Seq(Record)
  BY <1>1, FlagsType
<1>4. \A j \in 0 .. Len(stack_list) : fr[j] \in Nat
  BY <1>1 DEF FrameOfNodes
<1>5. CASE f = 0
  <2>1. destroy_allocas = <<>>
    BY <1>5 DEF destroy_allocas
  <2>2. \A j \in 1 .. Len(stack_list) : stack_list[j].flag = 0
    BY <1>1, <1>2, <1>5
  <2>3. \A j \in 0 .. Len(stack_list) : fr[j] = depth
    BY <1>1, <2>2, UnflaggedTop
  <2>4. /\ Len(stack_list) + 1 \in 1 .. Len(stack_list) + 1
        /\ Len(destroy_allocas) = Len(stack_list) + 1 - (Len(stack_list) + 1)
    BY <1>1, <2>1
  <2> QED BY <1>1, <1>3, <2>3, <2>4
<1>6. CASE f # 0
  <2> DEFINE s == SubSeq(stack_list, f, Len(stack_list))
  <2>1. destroy_allocas = [s EXCEPT ![1].flag = @ - 1]
    BY <1>6 DEF destroy_allocas
  <2> HIDE DEF f
  <2>2. f \in 1 .. Len(stack_list)
    BY <1>1, <1>2, <1>6
  <2>3. /\ s \in Seq(Record) /\ Len(s) = Len(stack_list) - f + 1
        /\ \A m \in 1 .. Len(stack_list) - f + 1 : s[m] = stack_list[f + m - 1]
    <3>1. f \in 1 .. Len(stack_list) + 1
      BY <1>1, <2>2
    <3> QED BY <1>1, <2>2, <3>1, SubSeqProperties
  <2> HIDE DEF s
  <2>4. /\ Len(destroy_allocas) = Len(stack_list) + 1 - f
        /\ destroy_allocas[1] = [s[1] EXCEPT !.flag = @ - 1]
        /\ \A m \in 1 .. Len(stack_list) + 1 - f : m > 1 => destroy_allocas[m] = s[m]
    BY <1>1, <2>1, <2>2, <2>3
  <2>5. ASSUME NEW i \in 1 .. Len(stack_list) + 1 - f
        PROVE  /\ Bare(destroy_allocas[i]) = Bare(stack_list[f + i - 1])
               /\ i > 1 => destroy_allocas[i].flag = stack_list[f + i - 1].flag
               /\ i = 1 => destroy_allocas[i].flag = stack_list[f + i - 1].flag - 1
    <3>1. s[i] = stack_list[f + i - 1] /\ f + i - 1 \in 1 .. Len(stack_list)
      <4>1. i \in 1 .. Len(stack_list) - f + 1 /\ f + i - 1 \in 1 .. Len(stack_list)
        BY <1>1, <2>2
      <4> QED BY <4>1, <2>3
    <3>2. s[i] \in Record
      BY <1>1, <3>1
    <3>3. CASE i = 1
      <4>1. destroy_allocas[i] = [s[i] EXCEPT !.flag = @ - 1]
        BY <2>4, <3>3
      <4>2. destroy_allocas[i].flag = s[i].flag - 1 /\ Bare(destroy_allocas[i]) = Bare(s[i])
        BY <3>2, <4>1 DEF Record, Bare
      <4> QED BY <3>1, <3>3, <4>2
    <3>4. CASE i # 1
      <4>1. i > 1 /\ destroy_allocas[i] = s[i]
        BY <1>1, <2>2, <2>4, <3>4
      <4> QED BY <3>1, <4>1
    <3> QED BY <3>3, <3>4
  <2>6. \A j \in 0 .. f - 1 : fr[j] = depth
    <3>1. f - 1 \in 0 .. Len(stack_list)
      BY <1>1, <2>2
    <3>2. \A j \in 1 .. f - 1 : stack_list[j].flag = 0
      <4> TAKE j \in 1 .. f - 1
      <4>1. j \in 1 .. Len(stack_list) /\ ~ (stack_list[j].flag > 0)
        BY <1>1, <1>2, <1>6, <2>2
      <4> QED BY <1>1, <4>1
    <3> QED BY <3>1, <3>2, UnflaggedTop
  <2>7. fr[f] < depth
    <3>1. stack_list[f].flag = fr[f - 1] - fr[f] /\ stack_list[f].flag > 0
      BY <1>2, <1>6, <2>2 DEF FramesOf
    <3>2. fr[f - 1] = depth /\ fr[f] \in Nat
      BY <1>1, <1>4, <2>2, <2>6
    <3> QED BY <1>1, <3>1, <3>2
  <2>8. \A j \in 0 .. Len(stack_list) : f <= j => fr[j] < depth
    <3> SUFFICES ASSUME NEW j \in 0 .. Len(stack_list), f < j
                 PROVE  fr[j] < depth
      BY <1>1, <2>2, <2>7
    <3>1. f \in 0 .. Len(stack_list) /\ fr[j] \in Nat /\ fr[f] \in Nat
      BY <1>1, <1>4, <2>2
    <3>2. fr[j] <= fr[f]
      BY <3>1 DEF FramesOf
    <3> QED BY <1>1, <2>7, <3>1, <3>2
  <2>9. \A j \in 0 .. Len(stack_list) : j < f => fr[j] = depth
    BY <1>1, <2>2, <2>6
  <2>10. f \in 1 .. Len(stack_list) + 1
    BY <1>1, <2>2
  <2> QED BY <1>3, <2>4, <2>5, <2>8, <2>9, <2>10
<1> QED BY <1>5, <1>6

LEMMA DestroyMirrors ==
  ASSUME TypeOK, StackInv
  PROVE  Mirrors(destroy_allocas,
                 {Open(s) : s \in {x \in stackMem : x.live /\ x.frame < depth}})
<1> DEFINE n == Len(stack_list)
           c == destroy_allocas
           kept == {Open(s) : s \in {x \in stackMem : x.live /\ x.frame < depth}}
<1>1. /\ stack_list \in Seq(Record) /\ n \in Nat
      /\ \A i \in 1 .. n : stack_list[i] \in Record
  BY StackObjects
<1>2. PICK fr \in FrameOfNodes : FramesOf(fr)
  BY DEF StackInv, StackFlagged
<1>3. PICK k \in 1 .. n + 1 :
        /\ c \in Seq(Record) /\ Len(c) = n + 1 - k
        /\ \A i \in 1 .. n + 1 - k : Bare(c[i]) = Bare(stack_list[k + i - 1])
        /\ \A j \in 0 .. n : j < k => fr[j] = depth
        /\ \A j \in 0 .. n : k <= j => fr[j] < depth
  BY <1>2, DestroyLeaves
<1> HIDE DEF c
<1>4. DOMAIN c = 1 .. n + 1 - k /\ \A i \in 1 .. n + 1 - k : k + i - 1 \in 1 .. n
  BY <1>1, <1>3
<1>5. ASSUME NEW j \in 1 .. n
      PROVE  \E s \in stackMem : s.live /\ s.frame = fr[j] /\ Open(s) = Bare(stack_list[j])
  BY <1>2 DEF FramesOf
<1>6. Bares(c) \subseteq kept
  <2> SUFFICES ASSUME NEW i \in 1 .. n + 1 - k PROVE Bare(c[i]) \in kept
    BY <1>4 DEF Bares
  <2>1. k + i - 1 \in 1 .. n /\ k + i - 1 \in 0 .. n /\ k <= k + i - 1
    BY <1>1, <1>4
  <2>2. PICK s \in stackMem : /\ s.live /\ s.frame = fr[k + i - 1]
                              /\ Open(s) = Bare(stack_list[k + i - 1])
    BY <1>5, <2>1
  <2>3. s.frame < depth
    BY <1>3, <2>1, <2>2
  <2> QED BY <1>3, <2>2, <2>3
<1>7. kept \subseteq Bares(c)
  <2> SUFFICES ASSUME NEW s \in stackMem, s.live, s.frame < depth
               PROVE  Open(s) \in Bares(c)
    OBVIOUS
  <2>1. Open(s) \in Bares(stack_list)
    BY DEF StackInv, StackMirrored, Mirrors, OpenStack
  <2>2. PICK j \in 1 .. n : Open(s) = Bare(stack_list[j])
    BY <1>1, <2>1 DEF Bares
  <2>3. PICK t \in stackMem : t.frame = fr[j] /\ Open(t) = Bare(stack_list[j])
    BY <1>5
  <2>4. s = t
    BY <2>2, <2>3, OneObject DEF StackInv
  <2>5. fr[j] < depth /\ j \in 0 .. n /\ fr[j] \in Nat /\ depth \in Nat
    BY <1>1, <2>3, <2>4, StackObjects
  <2>6. k <= j
    BY <1>1, <1>3, <2>5
  <2>7. j - k + 1 \in 1 .. n + 1 - k /\ k + (j - k + 1) - 1 = j
    BY <1>1, <2>6
  <2>8. Bare(c[j - k + 1]) = Bare(stack_list[j])
    BY <1>3, <2>7
  <2> QED BY <1>4, <2>2, <2>7, <2>8 DEF Bares
<1>8. NoTwoOverlap(c)
  <2> SUFFICES ASSUME NEW i \in 1 .. n + 1 - k, NEW j \in 1 .. n + 1 - k, i # j
               PROVE  Disjoint(c[i], c[j])
    BY <1>4 DEF NoTwoOverlap
  <2>1. /\ k + i - 1 \in DOMAIN stack_list /\ k + j - 1 \in DOMAIN stack_list
        /\ k + i - 1 # k + j - 1
    BY <1>1, <1>4
  <2>2. Disjoint(stack_list[k + i - 1], stack_list[k + j - 1])
    BY <2>1 DEF StackInv, StackMirrored, Mirrors, NoTwoOverlap
  <2>3. Bare(c[i]) = Bare(stack_list[k + i - 1]) /\ Bare(c[j]) = Bare(stack_list[k + j - 1])
    BY <1>3
  <2> QED BY <2>2, <2>3, DisjointBare
<1> QED BY <1>6, <1>7, <1>8 DEF Mirrors, c

LEMMA LeaveStack ==
  ASSUME TypeOK, StackInv, ProgLeave, stack_list' = destroy_allocas
  PROVE  StackInv'
<1>1. /\ depth > 0 /\ depth' = depth - 1
      /\ stackMem' = {s \in stackMem : s.frame < depth}
      /\ depth \in Nat /\ MaxDepth \in Nat /\ depth \in 0 .. MaxDepth
  BY StackObjects DEF ProgLeave
<1>2. StackMirrored'
  <2>1. OpenStack' = {Open(s) : s \in {x \in stackMem : x.live /\ x.frame < depth}}
    BY <1>1 DEF OpenStack
  <2> QED BY <2>1, DestroyMirrors DEF StackMirrored
<1>3. StackApart'
  <2>1. \A s \in stackMem' : s \in stackMem /\ s.frame < depth /\ s.frame \in Nat
    BY <1>1, StackObjects
  <2>2. \A s \in stackMem' : s.frame <= depth'
    BY <1>1, <2>1
  <2> QED BY <2>1, <2>2 DEF StackInv, StackApart
<1>4. StackFlagged'
  <2> DEFINE n == Len(stack_list)
  <2>1. n \in Nat
    BY StackObjects
  <2>2. PICK fr \in FrameOfNodes : FramesOf(fr)
    BY DEF StackInv, StackFlagged
  <2>3. PICK k \in 1 .. n + 1 :
          /\ Len(stack_list') = n + 1 - k
          /\ \A i \in 1 .. n + 1 - k :
               /\ Bare(stack_list'[i]) = Bare(stack_list[k + i - 1])
               /\ i > 1 => stack_list'[i].flag = stack_list[k + i - 1].flag
               /\ i = 1 => stack_list'[i].flag = stack_list[k + i - 1].flag - 1
          /\ \A j \in 0 .. n : j < k => fr[j] = depth
          /\ \A j \in 0 .. n : k <= j => fr[j] < depth
    BY <2>2, DestroyLeaves
  <2> DEFINE fs == [i \in 0 .. n + 1 - k |-> IF i = 0 THEN depth - 1 ELSE fr[k + i - 1]]
  <2>4. \A i \in 0 .. n : fr[i] \in 0 .. MaxDepth
    BY DEF FrameOfNodes
  <2>5. \A i \in 1 .. n + 1 - k : /\ k + i - 1 \in 1 .. n /\ k + i - 1 \in 0 .. n
                                  /\ k <= k + i - 1
    BY <2>1
  <2>6. fs[0] = depth - 1 /\ \A i \in 1 .. n + 1 - k : fs[i] = fr[k + i - 1]
    BY <2>1
  <2>7. fs \in [0 .. n + 1 - k -> 0 .. MaxDepth]
    BY <1>1, <2>4, <2>5
  <2> HIDE DEF fs, n
  <2>8. \A i, j \in 0 .. n + 1 - k : i < j => fs[j] <= fs[i]
    <3> SUFFICES ASSUME NEW i \in 0 .. n + 1 - k, NEW j \in 0 .. n + 1 - k, i < j
                 PROVE  fs[j] <= fs[i]
      OBVIOUS
    <3>1. j \in 1 .. n + 1 - k /\ fs[j] = fr[k + j - 1] /\ k + j - 1 \in 0 .. n
      BY <2>1, <2>5, <2>6
    <3>2. CASE i = 0
      <4>1. fr[k + j - 1] < depth /\ fr[k + j - 1] \in Nat
        BY <1>1, <2>3, <2>4, <2>5, <3>1
      <4> QED BY <1>1, <2>6, <3>1, <3>2, <4>1
    <3>3. CASE i # 0
      <4>1. i \in 1 .. n + 1 - k /\ fs[i] = fr[k + i - 1] /\ k + i - 1 \in 0 .. n
        BY <2>1, <2>5, <2>6, <3>3
      <4>2. fr[k + j - 1] <= fr[k + i - 1]
        <5>1. k + i - 1 < k + j - 1
          BY <2>1
        <5> QED BY <2>2, <3>1, <4>1, <5>1 DEF FramesOf, n
      <4> QED BY <3>1, <4>1, <4>2
    <3> QED BY <3>2, <3>3
  <2>9. ASSUME NEW i \in 1 .. n + 1 - k
        PROVE  /\ \E s \in stackMem' : s.live /\ s.frame = fs[i] /\ Open(s) = Bare(stack_list'[i])
               /\ stack_list'[i].flag = fs[i - 1] - fs[i]
    <3>1. /\ k + i - 1 \in 1 .. n /\ k + i - 1 \in 0 .. n /\ k <= k + i - 1
          /\ fs[i] = fr[k + i - 1]
      BY <2>5, <2>6
    <3>2. PICK s \in stackMem : /\ s.live /\ s.frame = fr[k + i - 1]
                                /\ Open(s) = Bare(stack_list[k + i - 1])
      BY <2>2, <3>1 DEF FramesOf, n
    <3>3. s \in stackMem'
      BY <1>1, <2>3, <3>1, <3>2
    <3>4. stack_list[k + i - 1].flag = fr[k + i - 1 - 1] - fr[k + i - 1]
      BY <2>2, <3>1 DEF FramesOf, n
    <3>5. stack_list'[i].flag = fs[i - 1] - fs[i]
      <4>1. CASE i = 1
        <5>1. k + i - 1 = k /\ k + i - 1 - 1 = k - 1 /\ k - 1 \in 0 .. n /\ k - 1 < k
          BY <2>1, <4>1
        <5>2. fr[k - 1] = depth /\ fr[k] \in Nat
          BY <2>3, <2>4, <3>1, <5>1
        <5>3. stack_list'[i].flag = stack_list[k].flag - 1 /\ stack_list[k].flag = depth - fr[k]
          BY <2>3, <3>4, <4>1, <5>1, <5>2
        <5>4. fs[i - 1] = depth - 1 /\ fs[i] = fr[k]
          BY <2>6, <3>1, <4>1, <5>1
        <5> QED BY <1>1, <5>2, <5>3, <5>4
      <4>2. CASE i # 1
        <5>1. i > 1 /\ i - 1 \in 1 .. n + 1 - k /\ k + (i - 1) - 1 = k + i - 1 - 1
          BY <2>1, <4>2
        <5>2. fs[i - 1] = fr[k + i - 1 - 1]
          BY <2>6, <5>1
        <5> QED BY <2>3, <3>1, <3>4, <5>1, <5>2
      <4> QED BY <4>1, <4>2
    <3> QED BY <2>3, <3>1, <3>2, <3>3, <3>5
  <2> DEFINE m == Len(stack_list')
  <2>10. m = n + 1 - k
    BY <2>3
  <2>11. PICK fr2 \in [0 .. m -> 0 .. MaxDepth] : fr2 = fs
    BY <2>7, <2>10
  <2>12. FramesOf(fr2)'
    <3>1. fr2[0] = depth'
      BY <1>1, <2>6, <2>11
    <3>2. \A i, j \in 0 .. m : i < j => fr2[j] <= fr2[i]
      BY <2>8, <2>10, <2>11
    <3>3. \A i \in 1 .. m :
            /\ \E s \in stackMem' : s.live /\ s.frame = fr2[i] /\ Open(s) = Bare(stack_list'[i])
            /\ stack_list'[i].flag = fr2[i - 1] - fr2[i]
      BY <2>9, <2>10, <2>11
    <3> QED BY <3>1, <3>2, <3>3 DEF FramesOf
  <2>13. fr2 \in FrameOfNodes'
    BY <2>11 DEF FrameOfNodes
  <2> QED BY <2>12, <2>13 DEF StackFlagged
<1> QED BY <1>2, <1>3, <1>4 DEF StackInv

(* A call marks the first node, and no record changes its block.           *)
LEMMA EnterStack ==
  ASSUME TypeOK, StackInv, ProgEnter, stack_list' = set_flag
  PROVE  StackInv'
<1> DEFINE n == Len(stack_list)
<1>1. /\ stack_list \in Seq(Record) /\ n \in Nat /\ MaxDepth \in Nat
      /\ depth \in Nat /\ depth' = depth + 1 /\ depth < MaxDepth
      /\ stackMem' = stackMem
  BY StackObjects DEF ProgEnter
<1>2. /\ stack_list' \in Seq(Record) /\ Len(stack_list') = n
      /\ \A i \in 1 .. n : /\ Bare(stack_list'[i]) = Bare(stack_list[i])
                           /\ i > 1 => stack_list'[i].flag = stack_list[i].flag
                           /\ i = 1 => stack_list'[i].flag = stack_list[i].flag + 1
  <2>1. CASE stack_list = <<>>
    BY <2>1 DEF set_flag
  <2>2. CASE stack_list # <<>>
    <3>1. stack_list' = [stack_list EXCEPT ![1].flag = @ + 1] /\ 1 \in 1 .. n
      BY <1>1, <2>2 DEF set_flag
    <3>2. stack_list' \in Seq(Record) /\ Len(stack_list') = n
      BY <1>1, <3>1, FlagsType
    <3>3. ASSUME NEW i \in 1 .. n
          PROVE  /\ Bare(stack_list'[i]) = Bare(stack_list[i])
                 /\ i > 1 => stack_list'[i].flag = stack_list[i].flag
                 /\ i = 1 => stack_list'[i].flag = stack_list[i].flag + 1
      <4>1. CASE i = 1
        <5>1. stack_list[i] \in Record /\ stack_list'[i] = [stack_list[i] EXCEPT !.flag = @ + 1]
          BY <1>1, <3>1, <4>1
        <5> QED BY <4>1, <5>1 DEF Record, Bare
      <4>2. CASE i # 1
        BY <3>1, <4>2
      <4> QED BY <4>1, <4>2
    <3> QED BY <3>2, <3>3
  <2> QED BY <2>1, <2>2
<1>3. StackMirrored'
  <2>1. DOMAIN stack_list' = 1 .. n /\ DOMAIN stack_list = 1 .. n
    BY <1>1, <1>2
  <2>2. Bares(stack_list') = Bares(stack_list)
    BY <1>2, <2>1 DEF Bares
  <2>3. NoTwoOverlap(stack_list')
    <3> SUFFICES ASSUME NEW i \in 1 .. n, NEW j \in 1 .. n, i # j
                 PROVE  Disjoint(stack_list'[i], stack_list'[j])
      BY <2>1 DEF NoTwoOverlap
    <3>1. Disjoint(stack_list[i], stack_list[j])
      BY <2>1 DEF StackInv, StackMirrored, Mirrors, NoTwoOverlap
    <3>2. Bare(stack_list'[i]) = Bare(stack_list[i]) /\ Bare(stack_list'[j]) = Bare(stack_list[j])
      BY <1>2
    <3> QED BY <3>1, <3>2, DisjointBare
  <2>4. OpenStack' = OpenStack
    BY <1>1 DEF OpenStack
  <2> QED BY <2>2, <2>3, <2>4 DEF StackInv, StackMirrored, Mirrors
<1>4. StackApart'
  <2>1. \A s \in stackMem : s.frame \in Nat
    BY StackObjects
  <2> QED BY <1>1, <2>1 DEF StackInv, StackApart
<1>5. StackFlagged'
  <2>1. PICK fr \in FrameOfNodes : FramesOf(fr)
    BY DEF StackInv, StackFlagged
  <2>2. \A i \in 0 .. n : fr[i] \in 0 .. MaxDepth
    BY DEF FrameOfNodes
  <2>3. [fr EXCEPT ![0] = depth + 1] \in [0 .. n -> 0 .. MaxDepth]
    BY <1>1 DEF FrameOfNodes
  <2>4. PICK fr2 \in [0 .. n -> 0 .. MaxDepth] : fr2 = [fr EXCEPT ![0] = depth + 1]
    BY <2>3
  <2>5. /\ fr[0] = depth /\ 0 \in 0 .. n
        /\ \A i, j \in 0 .. n : i < j => fr[j] <= fr[i]
        /\ \A i \in 1 .. n :
             /\ \E s \in stackMem : s.live /\ s.frame = fr[i] /\ Open(s) = Bare(stack_list[i])
             /\ stack_list[i].flag = fr[i - 1] - fr[i]
    BY <1>1, <2>1 DEF FramesOf
  <2>6. fr2[0] = depth + 1 /\ \A i \in 1 .. n : fr2[i] = fr[i] /\ i \in 0 .. n
    BY <1>1, <2>4 DEF FrameOfNodes
  <2> HIDE DEF n
  <2>7. \A i, j \in 0 .. n : i < j => fr2[j] <= fr2[i]
    <3> SUFFICES ASSUME NEW i \in 0 .. n, NEW j \in 0 .. n, i < j PROVE fr2[j] <= fr2[i]
      OBVIOUS
    <3>1. fr2[j] = fr[j] /\ fr[j] <= fr[i] /\ fr[j] \in Nat /\ fr[i] \in Nat /\ fr[j] <= depth
      BY SMTT(30), <1>1, <2>2, <2>5, <2>6
    <3>2. CASE i = 0
      BY <1>1, <2>6, <3>1, <3>2
    <3>3. CASE i # 0
      BY <1>1, <2>6, <3>1, <3>3
    <3> QED BY <3>2, <3>3
  <2>8. ASSUME NEW i \in 1 .. n
        PROVE  /\ \E s \in stackMem' : s.live /\ s.frame = fr2[i] /\ Open(s) = Bare(stack_list'[i])
               /\ stack_list'[i].flag = fr2[i - 1] - fr2[i]
    <3>1. \E s \in stackMem' : s.live /\ s.frame = fr2[i] /\ Open(s) = Bare(stack_list'[i])
      BY <1>1, <1>2, <2>5, <2>6
    <3>2. CASE i = 1
      <4>1. stack_list'[i].flag = stack_list[i].flag + 1
        BY <1>2, <3>2
      <4>2. stack_list[i].flag = fr[i - 1] - fr[i] /\ i - 1 = 0
        BY <2>5, <3>2
      <4>3. fr2[i] = fr[i] /\ fr[i] \in Nat
        BY <1>1, <2>2, <2>6
      <4>4. stack_list'[i].flag = fr2[i - 1] - fr2[i]
        BY <1>1, <2>5, <2>6, <4>1, <4>2, <4>3
      <4> QED BY <3>1, <4>4
    <3>3. CASE i # 1
      <4>1. i > 1 /\ i - 1 \in 1 .. n
        BY <1>1, <3>3
      <4> QED BY <1>2, <2>5, <2>6, <3>1, <4>1
    <3> QED BY <3>2, <3>3
  <2>9. FramesOf(fr2)'
    BY <1>1, <1>2, <2>6, <2>7, <2>8 DEF FramesOf
  <2>10. fr2 \in FrameOfNodes'
    BY <1>2, <2>4 DEF FrameOfNodes
  <2> QED BY <2>9, <2>10 DEF StackFlagged
<1> QED BY <1>3, <1>4, <1>5 DEF StackInv

(* A new object of the running frame, or one whose scope opens again, gets *)
(* an unflagged record at the head.                                        *)
LEMMA PrependStack ==
  ASSUME TypeOK, RecordsInHeap, StackInv, depth' = depth,
         NEW b, b.id \in StackAddr, b.size \in Nat, b = Block(b.id, b.size),
         remember(b.id, b.size),
         \A o \in OpenStack : Disjoint(o, b),
         OpenStack' = OpenStack \cup {b},
         \A s \in stackMem : s.live => s \in stackMem',
         \E s \in stackMem' : s.live /\ s.frame = depth /\ Open(s) = b
  PROVE  StackMirrored' /\ StackFlagged'
<1> DEFINE n == Len(stack_list)
           r == node_create(b.id, b.size)
<1>1. /\ stack_list \in Seq(Record) /\ n \in Nat /\ MaxDepth \in Nat
      /\ depth \in Nat /\ depth \in 0 .. MaxDepth
  BY StackObjects
<1>2. b.id \in Nat /\ b.id \notin HeapAddr
  BY NatAddresses
<1>3. /\ ~ Found(stack_list, b.id)
      /\ Mirrors(Cons(r, stack_list), OpenStack \cup {b})
  BY <1>1, <1>2, FreshMirrors DEF StackInv, StackMirrored
<1>4. stack_list' = Cons(r, stack_list)
  <2>1. stack_list' = Adopted(stack_list, b.id, b.size)
    BY <1>3 DEF remember, Found
  <2> QED BY <1>2, <2>1, RememberFresh
<1>5. StackMirrored'
  BY <1>3, <1>4 DEF StackMirrored
<1>6. r \in Record /\ r.flag = 0 /\ Bare(r) = b
  BY <1>2, NodeIsRecord DEF node_create
<1> HIDE DEF r
<1>7. /\ Len(stack_list') = n + 1 /\ stack_list'[1] = r
      /\ \A i \in 1 .. n : stack_list'[i + 1] = stack_list[i]
  BY <1>1, <1>4, <1>6, ConsList
<1>8. StackFlagged'
  <2>1. PICK fr \in FrameOfNodes : FramesOf(fr)
    BY DEF StackInv, StackFlagged
  <2>2. \A i \in 0 .. n : fr[i] \in 0 .. MaxDepth
    BY DEF FrameOfNodes
  <2>3. /\ fr[0] = depth /\ 0 \in 0 .. n
        /\ \A i, j \in 0 .. n : i < j => fr[j] <= fr[i]
        /\ \A i \in 1 .. n :
             /\ \E s \in stackMem : s.live /\ s.frame = fr[i] /\ Open(s) = Bare(stack_list[i])
             /\ stack_list[i].flag = fr[i - 1] - fr[i]
    BY <1>1, <2>1 DEF FramesOf
  <2> HIDE DEF n
  <2>4. \A i \in 1 .. n + 1 : i - 1 \in 0 .. n
    BY <1>1
  <2>5. PICK fr2 \in [0 .. n + 1 -> 0 .. MaxDepth] :
          fr2 = [i \in 0 .. n + 1 |-> IF i = 0 THEN depth ELSE fr[i - 1]]
    <3>1. [i \in 0 .. n + 1 |-> IF i = 0 THEN depth ELSE fr[i - 1]]
            \in [0 .. n + 1 -> 0 .. MaxDepth]
      BY <1>1, <2>2, <2>4
    <3> QED BY <3>1
  <2>6. fr2[0] = depth /\ \A i \in 1 .. n + 1 : fr2[i] = fr[i - 1]
    BY <1>1, <2>5
  <2>7. \A i, j \in 0 .. n + 1 : i < j => fr2[j] <= fr2[i]
    <3> SUFFICES ASSUME NEW i \in 0 .. n + 1, NEW j \in 0 .. n + 1, i < j PROVE fr2[j] <= fr2[i]
      OBVIOUS
    <3>1. /\ j \in 1 .. n + 1 /\ fr2[j] = fr[j - 1] /\ j - 1 \in 0 .. n
          /\ fr[j - 1] \in Nat /\ fr[j - 1] <= depth
      <4>1. j \in 1 .. n + 1 /\ j - 1 \in 0 .. n
        BY <1>1
      <4>2. fr[j - 1] \in Nat /\ fr[j - 1] <= depth
        BY <1>1, <2>2, <2>3, <4>1
      <4> QED BY <2>6, <4>1, <4>2
    <3>2. CASE i = 0
      BY <2>6, <3>1, <3>2
    <3>3. CASE i # 0
      <4>1. i \in 1 .. n + 1 /\ i - 1 \in 0 .. n /\ i - 1 < j - 1
        BY <1>1, <3>3
      <4> QED BY <2>3, <2>6, <3>1, <4>1
    <3> QED BY <3>2, <3>3
  <2>8. ASSUME NEW i \in 1 .. n + 1
        PROVE  /\ \E s \in stackMem' : s.live /\ s.frame = fr2[i] /\ Open(s) = Bare(stack_list'[i])
               /\ stack_list'[i].flag = fr2[i - 1] - fr2[i]
    <3>1. CASE i = 1
      <4>1. fr2[1] = depth /\ fr2[i] = depth /\ fr2[i - 1] = depth
        <5>1. 1 \in 1 .. n + 1 /\ 1 - 1 = 0 /\ i - 1 = 0
          BY <1>1, <3>1
        <5> QED BY <2>3, <2>6, <3>1, <5>1
      <4> QED BY <1>1, <1>6, <1>7, <3>1, <4>1
    <3>2. CASE i # 1
      <4>1. i - 1 \in 1 .. n /\ (i - 1) + 1 = i
        BY <1>1, <3>2
      <4>2. stack_list'[i] = stack_list[i - 1]
        BY <1>7, <4>1
      <4>3. fr2[i] = fr[i - 1] /\ fr2[i - 1] = fr[i - 1 - 1]
        <5>1. i - 1 \in 1 .. n + 1
          BY <1>1, <4>1
        <5> QED BY <2>6, <5>1
      <4>4. PICK s \in stackMem : /\ s.live /\ s.frame = fr[i - 1]
                                  /\ Open(s) = Bare(stack_list[i - 1])
        BY <2>3, <4>1
      <4>5. stack_list[i - 1].flag = fr[i - 1 - 1] - fr[i - 1]
        BY <2>3, <4>1
      <4> QED BY <4>2, <4>3, <4>4, <4>5
    <3> QED BY <3>1, <3>2
  <2>9. FramesOf(fr2)'
    BY <1>7, <2>6, <2>7, <2>8 DEF FramesOf
  <2>10. fr2 \in FrameOfNodes'
    BY <1>7, <2>5 DEF FrameOfNodes
  <2> QED BY <2>9, <2>10 DEF StackFlagged
<1> QED BY <1>5, <1>8

LEMMA AllocaStack ==
  ASSUME TypeOK, RecordsInHeap, StackInv, NEW b \in BlockSet(StackAddr), Alloca(b)
  PROVE  StackInv'
<1> DEFINE new == [id |-> b.id, size |-> b.size, frame |-> depth, live |-> TRUE]
<1>1. b.id \in StackAddr /\ b.size \in Nat /\ b = Block(b.id, b.size) /\ b.id \in Nat
  BY BlockNats, NatAddresses
<1>2. /\ Fits(b, StackAddr) /\ \A s \in stackMem : Disjoint(Open(s), b)
      /\ stackMem' = stackMem \cup {new} /\ depth' = depth /\ remember(b.id, b.size)
  BY DEF Alloca, ProgAlloca
<1>3. Open(new) = b /\ new.live /\ new.frame = depth
  BY <1>1 DEF Open, Block
<1> HIDE DEF new
<1>4. StackMirrored' /\ StackFlagged'
  <2>1. \A o \in OpenStack : Disjoint(o, b)
    BY <1>2 DEF OpenStack
  <2>2. OpenStack' = OpenStack \cup {b}
    BY <1>2, <1>3 DEF OpenStack
  <2>3. \E s \in stackMem' : s.live /\ s.frame = depth /\ Open(s) = b
    BY <1>2, <1>3
  <2> QED BY <1>1, <1>2, <2>1, <2>2, <2>3, PrependStack
<1>5. StackApart'
  <2>1. \A s \in stackMem : Disjoint(b, Open(s))
    BY <1>2 DEF Disjoint
  <2>2. \A s, t \in stackMem' : s = t \/ Disjoint(Open(s), Open(t))
    BY <1>2, <1>3, <2>1 DEF StackInv, StackApart
  <2>3. \A s \in stackMem' : Fits(Open(s), StackAddr) /\ s.frame <= depth'
    <3>1. depth <= depth
      BY StackObjects
    <3> QED BY <1>2, <1>3, <3>1 DEF StackInv, StackApart
  <2> QED BY <2>2, <2>3 DEF StackApart
<1> QED BY <1>4, <1>5 DEF StackInv

(* Opening or closing a scope moves no object.                             *)
LEMMA ScopeApart ==
  ASSUME TypeOK, StackApart, NEW s \in stackMem, NEW open \in BOOLEAN, ProgScope(s, open)
  PROVE  /\ StackApart'
         /\ \E t \in stackMem' :
              /\ stackMem' = (stackMem \ {s}) \cup {t}
              /\ t.frame = depth /\ t.live = open /\ Open(t) = Open(s)
<1> DEFINE t == [s EXCEPT !.live = open]
<1>1. /\ stackMem' = (stackMem \ {s}) \cup {t} /\ s.frame = depth /\ depth' = depth
  BY DEF ProgScope
<1>2. t.frame = s.frame /\ t.live = open /\ Open(t) = Open(s)
  <2>1. s \in [id : StackAddr, size : Sizes, frame : 1 .. MaxDepth, live : BOOLEAN]
    BY DEF TypeOK, MemTypeOK
  <2> QED BY <2>1 DEF Open
<1> HIDE DEF t
<1>3. \A x, y \in stackMem' : x = y \/ Disjoint(Open(x), Open(y))
  BY <1>1, <1>2 DEF StackApart
<1>4. \A x \in stackMem' : Fits(Open(x), StackAddr) /\ x.frame <= depth'
  BY <1>1, <1>2 DEF StackApart
<1> QED BY <1>1, <1>2, <1>3, <1>4 DEF StackApart

LEMMA ScopeStartStack ==
  ASSUME TypeOK, RecordsInHeap, StackInv, ScopeStart,
         NEW s \in stackMem, LifetimeStart(s)
  PROVE  StackInv'
<1>1. ProgScope(s, TRUE) /\ remember(s.id, s.size) /\ depth' = depth /\ ~ s.live
  <2>1. s.live \in BOOLEAN
    BY StackObjects
  <2> QED BY <2>1 DEF LifetimeStart, ProgScope
<1>2. StackApart'
  BY <1>1, ScopeApart DEF StackInv
<1>3. PICK t \in stackMem' : /\ stackMem' = (stackMem \ {s}) \cup {t}
                             /\ t.frame = depth /\ t.live /\ Open(t) = Open(s)
  BY <1>1, ScopeApart DEF StackInv
<1> DEFINE b == Open(s)
<1>4. /\ b.id = s.id /\ b.size = s.size /\ b = Block(b.id, b.size)
      /\ s.id \in StackAddr /\ s.size \in Nat
  BY StackObjects
<1>5. OpenStack' = OpenStack \cup {b}
  BY <1>1, <1>3 DEF OpenStack
<1>6. \A o \in OpenStack : Disjoint(o, b)
  <2>1. \A x \in stackMem : x.live => Disjoint(Open(x), b)
    BY <1>1 DEF StackInv, StackApart
  <2> QED BY <2>1 DEF OpenStack
<1>7. \A x \in stackMem : x.live => x \in stackMem'
  BY <1>1, <1>3
<1>8. \E x \in stackMem' : x.live /\ x.frame = depth /\ Open(x) = b
  BY <1>3
<1> HIDE DEF b
<1>9. StackMirrored' /\ StackFlagged'
  BY <1>1, <1>4, <1>5, <1>6, <1>7, <1>8, PrependStack
<1> QED BY <1>2, <1>9 DEF StackInv

(* The end of a scope takes the record of its object, which is of the      *)
(* running frame and so has no flag.                                       *)
LEMMA ScopeEndStack ==
  ASSUME TypeOK, StackInv, ScopeEnd, NEW s \in stackMem, LifetimeEnd(s)
  PROVE  StackInv'
<1> DEFINE n == Len(stack_list)
           k == list_search(stack_list, s.id)
<1>1. /\ stack_list \in Seq(Record) /\ n \in Nat /\ MaxDepth \in Nat /\ depth \in Nat
      /\ \A i \in 1 .. n : stack_list[i] \in Record /\ stack_list[i].flag \in Nat
      /\ s.id \in Nat /\ s.size \in Nat /\ Open(s).id = s.id /\ Open(s).size = s.size
  BY StackObjects
<1>2. ProgScope(s, FALSE) /\ destroy(s.id) /\ s.live /\ s.frame = depth /\ depth' = depth
  <2>1. s.live \in BOOLEAN
    BY StackObjects
  <2> QED BY <2>1 DEF LifetimeEnd, ProgScope
<1>3. StackApart'
  BY <1>2, ScopeApart DEF StackInv
<1>4. PICK t \in stackMem' : /\ stackMem' = (stackMem \ {s}) \cup {t}
                             /\ t.live = FALSE /\ Open(t) = Open(s)
  BY <1>2, ScopeApart DEF StackInv
<1>5. Mirrors(stack_list, OpenStack) /\ Open(s) \in OpenStack
  BY <1>2 DEF StackInv, StackMirrored, OpenStack
<1>6. Within(Open(s), s.id)
  BY <1>1, SelfWithin
<1>7. k # 0
  BY <1>1, <1>5, <1>6, MirrorSearch DEF Found
<1>8. k \in 1 .. n /\ Bare(stack_list[k]) = Open(s)
  BY <1>1, <1>5, <1>6, <1>7, MirrorSearch
<1>9. stack_list' = RemoveAt(stack_list, k)
  BY <1>2, <1>7 DEF destroy
<1> HIDE DEF k
<1>10. OpenStack' = OpenStack \ {Open(s)}
  <2>1. \A x \in stackMem : x # s => Open(x) # Open(s)
    BY OneObject DEF StackInv
  <2> QED BY <1>2, <1>4, <2>1 DEF OpenStack
<1>11. StackMirrored'
  BY <1>1, <1>5, <1>8, <1>9, <1>10, MirrorRemove DEF StackMirrored
<1>12. /\ Len(stack_list') = n - 1
       /\ \A i \in 1 .. n - 1 : stack_list'[i] = IF i < k THEN stack_list[i] ELSE stack_list[i + 1]
  <2>1. Len(stack_list') = n - 1
    BY <1>1, <1>8, <1>9, RemoveList
  <2>2. \A i \in 1 .. n - 1 : stack_list'[i] = IF i < k THEN stack_list[i] ELSE stack_list[i + 1]
    BY <1>1, <1>8, <1>9, RemoveList
  <2> QED BY <2>1, <2>2
<1>13. StackFlagged'
  <2>1. PICK fr \in FrameOfNodes : FramesOf(fr)
    BY DEF StackInv, StackFlagged
  <2>2. \A i \in 0 .. n : fr[i] \in 0 .. MaxDepth /\ fr[i] \in Nat
    BY <1>1 DEF FrameOfNodes
  <2>3. /\ fr[0] = depth /\ 0 \in 0 .. n
        /\ \A i, j \in 0 .. n : i < j => fr[j] <= fr[i]
        /\ \A i \in 1 .. n :
             /\ \E x \in stackMem : x.live /\ x.frame = fr[i] /\ Open(x) = Bare(stack_list[i])
             /\ stack_list[i].flag = fr[i - 1] - fr[i]
    BY SMTT(30), <1>1, <2>1 DEF FramesOf
  <2> HIDE DEF n
  <2>4. fr[k] = depth /\ fr[k - 1] = depth /\ k \in 0 .. n /\ k - 1 \in 0 .. n
    <3>1. k \in 0 .. n /\ k - 1 \in 0 .. n /\ k - 1 < k
      BY <1>1, <1>8
    <3>2. PICK x \in stackMem : x.frame = fr[k] /\ Open(x) = Bare(stack_list[k])
      BY <1>8, <2>3
    <3>3. x = s
      BY <1>8, <3>2, OneObject DEF StackInv
    <3>4. fr[k] = depth
      BY <1>2, <3>2, <3>3
    <3>5. fr[k - 1] <= depth
      BY <1>1, <2>2, <2>3, <3>1
    <3>6. fr[k] <= fr[k - 1]
      BY <2>3, <3>1
    <3> QED BY <1>1, <2>2, <3>1, <3>4, <3>5, <3>6
  <2>5. \A i \in 0 .. n - 1 : i \in 0 .. n /\ i + 1 \in 1 .. n /\ i + 1 \in 0 .. n
    BY <1>1
  <2>6. PICK fr2 \in [0 .. n - 1 -> 0 .. MaxDepth] :
          fr2 = [i \in 0 .. n - 1 |-> IF i < k THEN fr[i] ELSE fr[i + 1]]
    <3>1. [i \in 0 .. n - 1 |-> IF i < k THEN fr[i] ELSE fr[i + 1]] \in [0 .. n - 1 -> 0 .. MaxDepth]
      BY <2>2, <2>5
    <3> QED BY <3>1
  <2>7. \A i \in 0 .. n - 1 : fr2[i] = IF i < k THEN fr[i] ELSE fr[i + 1]
    BY <2>6
  <2>8. \A i, j \in 0 .. n - 1 : i < j => fr2[j] <= fr2[i]
    <3> SUFFICES ASSUME NEW i \in 0 .. n - 1, NEW j \in 0 .. n - 1, i < j PROVE fr2[j] <= fr2[i]
      OBVIOUS
    <3>1. CASE j < k
      <4>0. i < k
        BY <1>1, <1>8, <3>1
      <4>1. fr2[j] = fr[j] /\ fr2[i] = fr[i]
        BY <2>7, <3>1, <4>0
      <4> QED BY <2>3, <2>5, <4>1
    <3>2. CASE ~ (j < k) /\ i < k
      <4>1. fr2[j] = fr[j + 1] /\ fr2[i] = fr[i] /\ i < j + 1
        BY <1>1, <1>8, <2>7, <3>2
      <4> QED BY <2>3, <2>5, <4>1
    <3>3. CASE ~ (j < k) /\ ~ (i < k)
      <4>1. fr2[j] = fr[j + 1] /\ fr2[i] = fr[i + 1] /\ i + 1 < j + 1
        BY SMTT(30), <1>1, <1>8, <2>7, <3>3
      <4> QED BY <2>3, <2>5, <4>1
    <3> QED BY <3>1, <3>2, <3>3
  <2>9. ASSUME NEW i \in 1 .. n, i # k
        PROVE  \E x \in stackMem' : x.live /\ x.frame = fr[i] /\ Open(x) = Bare(stack_list[i])
    <3>1. PICK x \in stackMem : x.live /\ x.frame = fr[i] /\ Open(x) = Bare(stack_list[i])
      BY <2>3
    <3>2. x # s
      <4>1. Bare(stack_list[i]) # Bare(stack_list[k])
        <5>1. Disjoint(stack_list[i], stack_list[k])
          BY <1>1, <1>5, <1>8, <2>9 DEF Mirrors, NoTwoOverlap, n
        <5>2. /\ stack_list[i].id \in Nat /\ stack_list[i].size \in Nat
              /\ stack_list[k].id \in Nat /\ stack_list[k].size \in Nat
          BY <1>1, <1>8, BareNats
        <5> QED BY <5>1, <5>2, DisjointShareNothing
      <4> QED BY <1>8, <3>1, <4>1
    <3> QED BY <1>4, <3>1, <3>2
  <2>10. ASSUME NEW i \in 1 .. n - 1
         PROVE  /\ \E x \in stackMem' : x.live /\ x.frame = fr2[i] /\ Open(x) = Bare(stack_list'[i])
                /\ stack_list'[i].flag = fr2[i - 1] - fr2[i]
    <3>1. i \in 1 .. n /\ i + 1 \in 1 .. n /\ i \in 0 .. n - 1 /\ i - 1 \in 0 .. n - 1
      BY <1>1
    <3>2. CASE i < k
      <4>1. stack_list'[i] = stack_list[i] /\ fr2[i] = fr[i] /\ fr2[i - 1] = fr[i - 1] /\ i # k
        <5>1. i - 1 < k
          BY <1>1, <1>8, <3>2
        <5> QED BY SMTT(30), <1>1, <1>8, <1>12, <2>7, <3>1, <3>2, <5>1
      <4> QED BY <2>3, <2>9, <3>1, <4>1
    <3>3. CASE ~ (i < k)
      <4>1. stack_list'[i] = stack_list[i + 1] /\ fr2[i] = fr[i + 1] /\ i + 1 # k
        BY <1>1, <1>8, <1>12, <2>7, <3>1, <3>3
      <4>2. stack_list[i + 1].flag = fr[i] - fr[i + 1]
        <5>1. i + 1 - 1 = i
          BY <1>1
        <5> QED BY <2>3, <3>1, <5>1
      <4>3. fr2[i - 1] = fr[i]
        <5>1. CASE i = k
          <6>1. i - 1 < k /\ i - 1 = k - 1
            BY <1>1, <1>8, <5>1
          <6> QED BY <2>4, <2>7, <3>1, <5>1, <6>1
        <5>2. CASE i # k
          <6>1. ~ (i - 1 < k) /\ i - 1 + 1 = i
            BY <1>1, <1>8, <3>3, <5>2
          <6> QED BY <2>7, <3>1, <6>1
        <5> QED BY <5>1, <5>2
      <4>4. \E x \in stackMem' : x.live /\ x.frame = fr[i + 1] /\ Open(x) = Bare(stack_list[i + 1])
        BY <2>9, <3>1, <4>1
      <4> QED BY <4>1, <4>2, <4>3, <4>4
    <3> QED BY <3>2, <3>3
  <2>11. fr2[0] = depth
    BY <1>1, <1>8, <2>3, <2>5, <2>7
  <2>12. FramesOf(fr2)'
    BY <1>2, <1>12, <2>8, <2>10, <2>11 DEF FramesOf
  <2>13. fr2 \in FrameOfNodes'
    BY <1>12, <2>6 DEF FrameOfNodes
  <2> QED BY <2>12, <2>13 DEF StackFlagged
<1> QED BY <1>3, <1>11, <1>13 DEF StackInv

LEMMA StackUnchanged ==
  ASSUME StackInv, UNCHANGED <<stackMem, depth, stack_list>>
  PROVE  StackInv'
BY DEF StackInv, StackMirrored, OpenStack, StackApart, StackFlagged, FrameOfNodes, FramesOf

LEMMA StackStep ==
  ASSUME Frames, ScopeEnd, ScopeStart, RegionInv, StackInv, [Next]_vars
  PROVE  StackInv'
<1>1. TypeOK /\ RecordsInHeap
  BY DEF RegionInv
<1>2. CASE \/ \E b \in BlockSet(HeapAddr) : Malloc(b)
           \/ \E p \in HeapAddr \cup {NULL}, b \in BlockSet(HeapAddr) : Realloc(p, b)
           \/ \E b \in BlockSet(GlobalAddr) : Global(b)
  <2>1. UNCHANGED <<stackMem, depth, stack_list>>
    BY <1>2 DEF Malloc, ProgMalloc, remember_malloc_calloc, Realloc, ProgRealloc, realloc,
                Global, ProgGlobal, remember_global
  <2> QED BY <2>1, StackUnchanged
<1>3. CASE \/ \E p \in Addr \cup {NULL} : Free(p)
           \/ \E p \in Addr \cup {NULL} : BadRealloc(p)
           \/ \E p \in Addr \cup {NULL} : AccessNullOrFreed(p)
           \/ \E p \in Addr \cup {NULL}, n \in 1 .. MaxSize : Access(p, n)
           \/ UNCHANGED vars
  <2>1. UNCHANGED <<stackMem, depth, stack_list>>
    BY <1>3 DEF Free, ProgFree, free, BadRealloc, AccessNullOrFreed, Access, Stop, vars,
                memVars, lists
  <2> QED BY <2>1, StackUnchanged
<1>4. CASE Enter
  BY <1>1, <1>4, EnterStack DEF Enter
<1>5. CASE Return \/ ExitMain
  BY <1>1, <1>5, LeaveStack DEF Return, ExitMain
<1>6. CASE \E b \in BlockSet(StackAddr) : Alloca(b)
  BY <1>1, <1>6, AllocaStack
<1>7. CASE \E s \in stackMem : LifetimeEnd(s)
  BY <1>1, <1>7, ScopeEndStack
<1>8. CASE \E s \in stackMem : LifetimeStart(s)
  BY <1>1, <1>8, ScopeStartStack
<1> QED BY <1>2, <1>3, <1>4, <1>5, <1>6, <1>7, <1>8 DEF Next

LEMMA StackStart == Init => StackInv
<1> SUFFICES ASSUME Init PROVE StackInv
  OBVIOUS
<1>1. depth = 0 /\ stackMem = {} /\ stack_list = <<>> /\ MaxDepth \in Nat
  BY BoundAssumption DEF Init, MemInit
<1>2. StackMirrored
  BY <1>1, EmptyMirrors DEF StackMirrored, OpenStack
<1>3. StackApart
  BY <1>1 DEF StackApart
<1>4. StackFlagged
  <2>1. PICK fr \in [0 .. 0 -> 0 .. MaxDepth] : fr = [i \in 0 .. 0 |-> 0]
    <3>1. 0 \in 0 .. MaxDepth
      BY <1>1
    <3>2. [i \in 0 .. 0 |-> 0] \in [0 .. 0 -> 0 .. MaxDepth]
      BY <3>1
    <3> QED BY <3>2
  <2>2. FramesOf(fr) /\ fr \in FrameOfNodes
    BY <1>1, <2>1 DEF FramesOf, FrameOfNodes
  <2> QED BY <2>2 DEF StackFlagged
<1> QED BY <1>2, <1>3, <1>4 DEF StackInv

LEMMA StackAlways ==
  ASSUME Frames, ScopeEnd, ScopeStart
  PROVE  Spec => [](RegionInv /\ StackInv)
<1>1. RegionInv /\ StackInv /\ [Next]_vars => StackInv'
  BY StackStep
<1> QED BY <1>1, StackStart, RegionAlways, PTL DEF Spec

(* Under the rules of a configuration that calls the monitor on entries,   *)
(* returns and both ends of a scope, and with any allocator: the stack     *)
(* list has one record for each object whose scope is open, with its       *)
(* address and size, and no others (memsafety.c:177-200, 423-467).         *)
THEOREM StackIsMirrored ==
  ASSUME Frames, ScopeEnd, ScopeStart
  PROVE  Spec => []StackMirrored
<1>1. RegionInv /\ StackInv => StackMirrored
  BY DEF StackInv
<1> QED BY <1>1, StackAlways, PTL

(* However calls, allocations and scopes alternated, also through frames   *)
(* that allocate nothing and are not flagged themselves: destroy_allocas   *)
(* would drop the records of the running frame and those only              *)
(* (memsafety.c:423-451).                                                  *)
THEOREM ReturnsDropOwnFrame ==
  ASSUME Frames, ScopeEnd, ScopeStart
  PROVE  Spec => []ReturnDropsOwnFrame
<1>1. RegionInv /\ StackInv => ReturnDropsOwnFrame
  BY DestroyMirrors DEF RegionInv, ReturnDropsOwnFrame, Mirrors
<1> QED BY <1>1, StackAlways, PTL

-----------------------------------------------------------------------------
(***************************************************************************)
(* The verdicts on dereferences and on realloc().                          *)
(***************************************************************************)
LEMMA RegionsApart ==
  ASSUME NEW a, a.id \in Nat, a.size \in Nat, NEW b, b.id \in Nat, b.size \in Nat,
         NEW R, NEW S, R \cap S = {}, Fits(a, R), Fits(b, S)
  PROVE  Disjoint(a, b)
<1>1. Extent(a) \in Nat /\ Extent(a) > 0 /\ Extent(b) \in Nat /\ Extent(b) > 0
  BY DEF Extent
<1>2. SUFFICES ASSUME a.id + Extent(a) > b.id, b.id + Extent(b) > a.id PROVE FALSE
  BY <1>1 DEF Disjoint
<1>3. CASE a.id <= b.id
  <2>1. b.id \in a.id .. (a.id + Extent(a) - 1) /\ b.id \in b.id .. (b.id + Extent(b) - 1)
    BY <1>1, <1>2, <1>3
  <2> QED BY <2>1 DEF Fits
<1>4. CASE b.id <= a.id
  <2>1. a.id \in a.id .. (a.id + Extent(a) - 1) /\ a.id \in b.id .. (b.id + Extent(b) - 1)
    BY <1>1, <1>2, <1>4
  <2> QED BY <2>1 DEF Fits
<1> QED BY <1>3, <1>4

(* __INSTR_check_pointer looks through the lists one after the other.      *)
LEMMA ConcatMirrors ==
  ASSUME NEW a \in Seq(Record), NEW b \in Seq(Record), NEW A, NEW B,
         Mirrors(a, A), Mirrors(b, B), \A x \in A, y \in B : Disjoint(x, y) /\ Disjoint(y, x)
  PROVE  a \o b \in Seq(Record) /\ Mirrors(a \o b, A \cup B)
<1> DEFINE m == Len(a)
           n == Len(b)
           c == a \o b
<1>1. /\ m \in Nat /\ n \in Nat /\ DOMAIN a = 1 .. m /\ DOMAIN b = 1 .. n
      /\ c \in Seq(Record) /\ Len(c) = m + n /\ DOMAIN c = 1 .. m + n
      /\ \A i \in 1 .. m + n : c[i] = IF i <= m THEN a[i] ELSE b[i - m]
  <2>1. m \in Nat /\ n \in Nat /\ DOMAIN a = 1 .. m /\ DOMAIN b = 1 .. n
    OBVIOUS
  <2>2. /\ c \in Seq(Record) /\ Len(c) = m + n
        /\ \A i \in 1 .. m + n : c[i] = IF i <= m THEN a[i] ELSE b[i - m]
    BY ConcatProperties
  <2> QED BY <2>1, <2>2
<1> HIDE DEF c, m, n
<1>2. ASSUME NEW i \in 1 .. m + n
      PROVE  \/ i \in 1 .. m /\ c[i] = a[i] /\ Bare(c[i]) \in A
             \/ i > m /\ i - m \in 1 .. n /\ c[i] = b[i - m] /\ Bare(c[i]) \in B
  <2>1. CASE i <= m
    <3>1. i \in 1 .. m /\ c[i] = a[i]
      BY <1>1, <2>1
    <3> QED BY <1>1, <3>1 DEF Mirrors, Bares
  <2>2. CASE ~ (i <= m)
    <3>1. i > m /\ i - m \in 1 .. n /\ c[i] = b[i - m]
      BY <1>1, <2>2
    <3> QED BY <1>1, <3>1 DEF Mirrors, Bares
  <2> QED BY <2>1, <2>2
<1>3. Bares(c) \subseteq A \cup B
  BY <1>1, <1>2 DEF Bares
<1>4. A \cup B \subseteq Bares(c)
  <2>1. ASSUME NEW x \in A PROVE x \in Bares(c)
    <3>1. PICK i \in 1 .. m : x = Bare(a[i])
      BY <1>1 DEF Mirrors, Bares
    <3>2. i \in 1 .. m + n /\ c[i] = a[i]
      BY <1>1
    <3> QED BY <1>1, <3>1, <3>2 DEF Bares
  <2>2. ASSUME NEW x \in B PROVE x \in Bares(c)
    <3>1. PICK i \in 1 .. n : x = Bare(b[i])
      BY <1>1 DEF Mirrors, Bares
    <3>2. m + i \in 1 .. m + n /\ c[m + i] = b[i]
      <4>1. m + i \in 1 .. m + n /\ ~ (m + i <= m) /\ m + i - m = i
        BY <1>1
      <4> QED BY <1>1, <4>1
    <3> QED BY <1>1, <3>1, <3>2 DEF Bares
  <2> QED BY <2>1, <2>2
<1>5. NoTwoOverlap(c)
  <2> SUFFICES ASSUME NEW i \in 1 .. m + n, NEW j \in 1 .. m + n, i # j
               PROVE  Disjoint(c[i], c[j])
    BY <1>1 DEF NoTwoOverlap
  <2>1. CASE i \in 1 .. m /\ c[i] = a[i] /\ j \in 1 .. m /\ c[j] = a[j]
    BY <1>1, <2>1 DEF Mirrors, NoTwoOverlap
  <2>2. CASE i > m /\ i - m \in 1 .. n /\ c[i] = b[i - m] /\ j > m /\ j - m \in 1 .. n /\ c[j] = b[j - m]
    <3>1. i - m # j - m
      BY <1>1
    <3> QED BY <1>1, <2>2, <3>1 DEF Mirrors, NoTwoOverlap
  <2>3. CASE \/ Bare(c[i]) \in A /\ Bare(c[j]) \in B
             \/ Bare(c[i]) \in B /\ Bare(c[j]) \in A
    <3>1. Disjoint(Bare(c[i]), Bare(c[j]))
      BY <2>3
    <3> QED BY <3>1, DisjointBare
  <2> QED BY <1>2, <2>1, <2>2, <2>3
<1> QED BY <1>1, <1>3, <1>4, <1>5 DEF Mirrors, c

(* A search in a list that mirrors the owners gives their verdict.         *)
LEMMA DerefJudged ==
  ASSUME HeapInv, NEW list \in Seq(Record), NEW owners, Mirrors(list, owners),
         NEW p \in Nat, NEW n \in Nat
  PROVE  Deref(list, p, n) = Known(p, Judge(owners, p, n))
<1> DEFINE i == list_search(list, p)
           owner == {b \in owners : Within(b, p)}
<1>1. Found(deallocated_list, p) <=> WasFreed(p) /\ ~ Forgotten(p)
  BY FreedKnown
<1>2. Found(list, p) <=> owner # {}
  BY MirrorSearch
<1>3. i # 0 => /\ i \in 1 .. Len(list) /\ owner = {Bare(list[i])}
  BY MirrorSearch
<1>4. CASE i = 0
  <2>1. ~ Found(list, p) /\ owner = {}
    BY <1>2, <1>4 DEF Found
  <2>2. Deref(list, p, n) = IF Found(deallocated_list, p) THEN "freedDeref" ELSE "invalidDeref"
    BY <2>1 DEF Deref
  <2>3. Judge(owners, p, n) = IF WasFreed(p) THEN "freedDeref" ELSE "invalidDeref"
    BY <2>1 DEF Judge
  <2> QED BY <1>1, <2>2, <2>3, KnownVerdicts
<1>5. CASE i # 0
  <2> DEFINE r == list[i]
  <2>1. /\ Found(list, p) /\ r \in Record /\ owner = {Bare(r)} /\ Within(Bare(r), p)
    BY <1>2, <1>3, <1>5 DEF Found
  <2>2. Deref(list, p, n) = IF OutOfRange(r, p, n) THEN "outOfRange" ELSE "running"
    BY <2>1 DEF Deref
  <2> HIDE DEF i, r, owner
  <2>3. r.id \in Nat /\ r.size \in Nat /\ Bare(r).id = r.id /\ Bare(r).size = r.size
    BY <2>1, BareNats
  <2>4. r.id <= p
    BY <2>1, <2>3 DEF Within
  <2>5. OutOfRange(r, p, n) <=> p + n > r.id + r.size
    BY <2>3, <2>4 DEF OutOfRange
  <2>6. /\ (\E b \in owner : p + n <= b.id + b.size) <=> p + n <= r.id + r.size
        /\ (\E b \in owner : p + n > b.id + b.size) <=> p + n > r.id + r.size
        /\ owner # {}
    BY <2>1, <2>3
  <2>7. p + n > r.id + r.size <=> ~ (p + n <= r.id + r.size)
    BY <2>3
  <2>8. Judge(owners, p, n) = IF OutOfRange(r, p, n) THEN "outOfRange" ELSE "running"
    <3>1. CASE OutOfRange(r, p, n)
      <4>1. /\ ~ \E b \in owner : p + n <= b.id + b.size
            /\ \E b \in owner : p + n > b.id + b.size
        BY <2>5, <2>6, <2>7, <3>1
      <4> QED BY <2>6, <3>1, <4>1 DEF Judge, owner
    <3>2. CASE ~ OutOfRange(r, p, n)
      <4>1. /\ \E b \in owner : p + n <= b.id + b.size
            /\ ~ \E b \in owner : p + n > b.id + b.size
        BY <2>5, <2>6, <2>7, <3>2
      <4> QED BY <2>6, <3>2, <4>1 DEF Judge, owner
    <3> QED BY <3>1, <3>2
  <2> QED BY <2>2, <2>8, KnownVerdicts
<1> QED BY <1>4, <1>5

LEMMA OpenBlocks ==
  ASSUME TypeOK, StackApart, NEW o \in OpenStack
  PROVE  o.id \in Nat /\ o.size \in Nat /\ Fits(o, StackAddr)
BY StackObjects DEF OpenStack, StackApart

(* The owners of memory that check_pointer asks for, list after list.      *)
LEMMA AllMirrored ==
  ASSUME HeapInv, RegionInv, StackInv
  PROVE  /\ heap_list \o stack_list \o globals_list \in Seq(Record)
         /\ Mirrors(heap_list \o stack_list \o globals_list, heapMem \cup OpenStack \cup globalMem)
<1>1. /\ heap_list \in Seq(Record) /\ Mirrors(heap_list, heapMem)
      /\ stack_list \in Seq(Record) /\ Mirrors(stack_list, OpenStack)
      /\ globals_list \in Seq(Record) /\ Mirrors(globals_list, globalMem)
  BY DEF HeapInv, HeapMirrored, RegionInv, GlobalsMirrored, StackInv, StackMirrored, TypeOK
<1>2. \A b \in heapMem : b.id \in Nat /\ b.size \in Nat /\ Fits(b, HeapAddr)
  BY HeapBlocks DEF HeapInv, HeapApart
<1>3. \A b \in OpenStack : b.id \in Nat /\ b.size \in Nat /\ Fits(b, StackAddr)
  BY OpenBlocks DEF StackInv, RegionInv
<1>4. \A b \in globalMem : b.id \in Nat /\ b.size \in Nat /\ Fits(b, GlobalAddr)
  <2>1. globalMem \subseteq BlockSet(GlobalAddr)
    BY DEF RegionInv, TypeOK, MemTypeOK
  <2> QED BY <2>1, BlockNats DEF RegionInv, GlobalsFit
<1>5. /\ HeapAddr \cap StackAddr = {} /\ HeapAddr \cap GlobalAddr = {}
      /\ StackAddr \cap GlobalAddr = {} /\ StackAddr \cap HeapAddr = {}
      /\ GlobalAddr \cap HeapAddr = {} /\ GlobalAddr \cap StackAddr = {}
  BY AddrAssumption
<1>6. \A x \in heapMem, y \in OpenStack : Disjoint(x, y) /\ Disjoint(y, x)
  BY <1>2, <1>3, <1>5, RegionsApart
<1>7. \A x \in heapMem \cup OpenStack, y \in globalMem : Disjoint(x, y) /\ Disjoint(y, x)
  BY <1>2, <1>3, <1>4, <1>5, RegionsApart
<1>8. /\ heap_list \o stack_list \in Seq(Record)
      /\ Mirrors(heap_list \o stack_list, heapMem \cup OpenStack)
  BY <1>1, <1>6, ConcatMirrors
<1> QED BY <1>1, <1>7, <1>8, ConcatMirrors

LEMMA VerdictsAlways ==
  ASSUME Frames, ScopeEnd, ScopeStart, MallocReuse # "any", ReallocReuse = "none"
  PROVE  Spec => [](HeapInv /\ RegionInv /\ StackInv)
BY HeapAlways, StackAlways, PTL

(* Every check of a dereference answers what the program's memory says: an *)
(* access that stays in a block is never reported, one that leaves its     *)
(* block, or that no block owns, always, and as what it is, but that what  *)
(* realloc freed is not known as freed (memsafety.c:248-324, 418).         *)
THEOREM DereferencesAreJudged ==
  ASSUME Frames, ScopeEnd, ScopeStart, MallocReuse # "any", ReallocReuse = "none"
  PROVE  Spec => []DerefVerdicts
<1>1. HeapInv /\ RegionInv /\ StackInv => DerefVerdicts
  <2> SUFFICES ASSUME HeapInv, RegionInv, StackInv,
                      NEW p \in Addr \cup {NULL}, NEW n \in 1 .. MaxSize
               PROVE  /\ check_heap(p, n) = Known(p, Judge(heapMem, p, n))
                      /\ check_stack(p, n) = Known(p, Judge(OpenStack, p, n))
                      /\ check_globals(p, n) = Known(p, Judge(globalMem, p, n))
                      /\ check_pointer(p, n) = Known(p, Judge(heapMem \cup OpenStack \cup globalMem, p, n))
    BY DEF DerefVerdicts
  <2>1. p \in Nat /\ n \in Nat
    BY NatAddresses
  <2>2. /\ heap_list \in Seq(Record) /\ Mirrors(heap_list, heapMem)
        /\ stack_list \in Seq(Record) /\ Mirrors(stack_list, OpenStack)
        /\ globals_list \in Seq(Record) /\ Mirrors(globals_list, globalMem)
    BY DEF HeapInv, HeapMirrored, RegionInv, GlobalsMirrored, StackInv, StackMirrored, TypeOK
  <2>3. check_heap(p, n) = Known(p, Judge(heapMem, p, n))
    BY <2>1, <2>2, DerefJudged DEF check_heap
  <2>4. check_stack(p, n) = Known(p, Judge(OpenStack, p, n))
    BY <2>1, <2>2, DerefJudged DEF check_stack
  <2>5. check_globals(p, n) = Known(p, Judge(globalMem, p, n))
    BY <2>1, <2>2, DerefJudged DEF check_globals
  <2>6. check_pointer(p, n) = Known(p, Judge(heapMem \cup OpenStack \cup globalMem, p, n))
    BY <2>1, AllMirrored, DerefJudged DEF check_pointer
  <2> QED BY <2>3, <2>4, <2>5, <2>6
<1> QED BY <1>1, VerdictsAlways, PTL

(* realloc() of a live heap block or of NULL passes, of stack memory or of *)
(* memory given to free() is refused as such (memsafety.c:389-403).  Of    *)
(* memory that an earlier realloc freed nothing is said: its record is     *)
(* gone (418), and the check lets it pass.                                 *)
THEOREM ReallocsAreJudged ==
  ASSUME Frames, ScopeEnd, ScopeStart, MallocReuse # "any", ReallocReuse = "none"
  PROVE  Spec => []ReallocVerdicts
<1>1. HeapInv /\ RegionInv /\ StackInv => ReallocVerdicts
  <2> SUFFICES ASSUME HeapInv, RegionInv, StackInv, NEW p \in Addr \cup {NULL},
                      ~ Forgotten(p)
               PROVE  check_realloc(p) = JudgeRealloc(p)
    BY DEF ReallocVerdicts
  <2>1. p \in Nat
    BY NatAddresses
  <2>2. Found(deallocated_list, p) <=> WasFreed(p)
    BY <2>1, FreedKnown
  <2>3. Found(stack_list, p) <=> \E b \in OpenStack : Within(b, p)
    <3>1. stack_list \in Seq(Record) /\ Mirrors(stack_list, OpenStack)
      BY DEF StackInv, StackMirrored, RegionInv, TypeOK
    <3> QED BY <2>1, <3>1, MirrorSearch
  <2>4. IsHeapBase(p) => ~ WasFreed(p)
    <3> SUFFICES ASSUME NEW o \in heapMem, o.id = p, NEW f \in freedMem, Within(f, p)
                 PROVE  FALSE
      BY DEF IsHeapBase, WasFreed, Forgotten
    <3>1. /\ f.id \in Nat /\ f.size \in Nat /\ o.id \in Nat /\ o.size \in Nat
          /\ Disjoint(f, o)
      BY HeapBlocks DEF HeapInv, HeapApart
    <3> QED BY <3>1, SelfWithin, DisjointShareNothing
  <2>5. IsHeapBase(p) => ~ \E b \in OpenStack : Within(b, p)
    <3> SUFFICES ASSUME NEW o \in heapMem, o.id = p, NEW b \in OpenStack, Within(b, p)
                 PROVE  FALSE
      BY DEF IsHeapBase
    <3>1. p \in HeapAddr
      BY HeapBlocks DEF HeapInv
    <3>2. b.id \in Nat /\ b.size \in Nat /\ Fits(b, StackAddr)
      BY OpenBlocks DEF StackInv, RegionInv
    <3>3. p \in StackAddr
      BY <2>1, <3>2, FitsWithin
    <3> QED BY <3>1, <3>3, AddrAssumption
  <2>6. check_realloc(p) = IF p = NULL THEN "running"
                           ELSE IF WasFreed(p) THEN "reallocFreed"
                           ELSE IF \E b \in OpenStack : Within(b, p) THEN "reallocStack"
                           ELSE "running"
    BY <2>2, <2>3 DEF check_realloc
  <2>7. JudgeRealloc(p) = IF p = NULL \/ IsHeapBase(p) THEN "running"
                          ELSE IF WasFreed(p) THEN "reallocFreed"
                          ELSE IF \E b \in OpenStack : Within(b, p) THEN "reallocStack"
                          ELSE "running"
    BY DEF JudgeRealloc
  <2>8. CASE IsHeapBase(p)
    BY <2>4, <2>5, <2>6, <2>7, <2>8
  <2>9. CASE ~ IsHeapBase(p)
    BY <2>6, <2>7, <2>9
  <2> QED BY <2>8, <2>9
<1> QED BY <1>1, VerdictsAlways, PTL
=============================================================================
