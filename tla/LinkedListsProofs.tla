-------------------------- MODULE LinkedListsProofs --------------------------
(***************************************************************************)
(* The links of LinkedLists always lay out four sequences of nodes, and on *)
(* them the monitor's calls do what MonitorLists says of sequences: for    *)
(* every set of nodes, addresses and sizes.                                *)
(***************************************************************************)
EXTENDS LinkedLists, SequenceTheorems, WellFoundedInduction, FiniteSetTheorems, TLAPS

(***************************************************************************)
(* Least positions, and a sequence without one of its entries.             *)
(***************************************************************************)
(* Every nonempty set of naturals has a least element, and Min is it.      *)
LEMMA MinOfNats ==
  ASSUME NEW S, S \subseteq Nat, S # {}
  PROVE  Min(S) \in S /\ \A y \in S : Min(S) <= y
<1>1. PICK m \in S : \A y \in S : ~ (<<y, m>> \in OpToRel(<, Nat))
  BY NatLessThanWellFounded, WFMin
<1>2. \A y \in S : m <= y
  <2> TAKE y \in S
  <2>1. ~ (y < m)
    BY <1>1 DEF OpToRel
  <2> QED BY <2>1
<1> QED BY <1>2 DEF Min

(* Induction over 0 .. n: what holds at 0 and is passed on fails nowhere.  *)
LEMMA NoneFails ==
  ASSUME NEW n \in Nat, NEW Fails, Fails \subseteq 0 .. n, 0 \notin Fails,
         \A k \in 0 .. n - 1 : k \notin Fails => k + 1 \notin Fails
  PROVE  Fails = {}
<1> SUFFICES ASSUME Fails # {} PROVE FALSE
  OBVIOUS
<1>1. Fails \subseteq Nat
  OBVIOUS
<1>2. PICK m \in Fails : \A y \in Fails : m <= y
  BY <1>1, MinOfNats
<1>3. m - 1 \in 0 .. n - 1 /\ m - 1 \notin Fails
  BY <1>2
<1>4. (m - 1) + 1 \notin Fails
  BY <1>3
<1> QED BY <1>2, <1>4

(* A search by least position returns 0 or the first position of the set.  *)
LEMMA FirstPosition ==
  ASSUME NEW n \in Nat, NEW I, I \subseteq 1 .. n,
         NEW k, k = IF I # {} THEN Min(I) ELSE 0
  PROVE  /\ k \in 0 .. n
         /\ k # 0 => k \in I /\ \A j \in 1 .. k - 1 : j \notin I
         /\ k = 0 => I = {}
<1>1. I \subseteq Nat
  OBVIOUS
<1>2. CASE I = {}
  BY <1>2
<1>3. CASE I # {}
  <2>1. k \in I /\ \A y \in I : k <= y
    BY <1>1, <1>3, MinOfNats
  <2> QED BY <2>1, <1>3
<1> QED BY <1>2, <1>3

(* What is left of a sequence without its k-th entry.                      *)
LEMMA RemoveSeq ==
  ASSUME NEW S, NEW q \in Seq(S), NEW k \in 1 .. Len(q)
  PROVE  /\ RemoveAt(q, k) \in Seq(S)
         /\ Len(RemoveAt(q, k)) = Len(q) - 1
         /\ \A i \in 1 .. Len(q) - 1 :
              RemoveAt(q, k)[i] = IF i < k THEN q[i] ELSE q[i + 1]
<1> DEFINE a == SubSeq(q, 1, k - 1)
           b == SubSeq(q, k + 1, Len(q))
<1>1. /\ a \in Seq(S) /\ Len(a) = k - 1
      /\ \A i \in 1 .. k - 1 : a[i] = q[i]
  BY SubSeqProperties
<1>2. /\ b \in Seq(S) /\ Len(b) = Len(q) - k
      /\ \A i \in 1 .. Len(q) - k : b[i] = q[k + i]
  BY SubSeqProperties
<1>3. RemoveAt(q, k) = a \o b
  BY DEF RemoveAt
<1> HIDE DEF a, b
<1>4. Len(q) \in Nat
  OBVIOUS
<1>5. /\ a \o b \in Seq(S) /\ Len(a \o b) = Len(a) + Len(b)
      /\ \A i \in 1 .. Len(a) + Len(b) :
           (a \o b)[i] = IF i <= Len(a) THEN a[i] ELSE b[i - Len(a)]
  BY <1>1, <1>2, ConcatProperties
<1>6. Len(a) + Len(b) = Len(q) - 1
  BY <1>1, <1>2, <1>4
<1>7. ASSUME NEW i \in 1 .. Len(q) - 1
      PROVE  (a \o b)[i] = IF i < k THEN q[i] ELSE q[i + 1]
  <2>1. (a \o b)[i] = IF i <= k - 1 THEN a[i] ELSE b[i - (k - 1)]
    BY <1>1, <1>5, <1>6
  <2>2. CASE i < k
    <3>1. i <= k - 1 /\ i \in 1 .. k - 1
      BY <2>2, <1>4
    <3> QED BY <3>1, <2>1, <2>2, <1>1
  <2>3. CASE ~ (i < k)
    <3>1. ~ (i <= k - 1) /\ i - (k - 1) \in 1 .. Len(q) - k
          /\ k + (i - (k - 1)) = i + 1
      BY <2>3, <1>4
    <3>2. b[i - (k - 1)] = q[k + (i - (k - 1))]
      BY <3>1, <1>2
    <3> QED BY <3>1, <3>2, <2>1, <2>3
  <2> QED BY <2>2, <2>3
<1> QED BY <1>3, <1>5, <1>6, <1>7

(***************************************************************************)
(* Sequences without repetitions, by position.                             *)
(***************************************************************************)
(* The sequence r is q with c in front.                                    *)
Preceded(r, c, q) ==
  /\ Len(r) = Len(q) + 1 /\ r[1] = c
  /\ \A i \in 1 .. Len(q) : r[i + 1] = q[i]

(* The sequence r is q without its i-th entry.                             *)
Skipped(r, q, i) ==
  /\ Len(r) = Len(q) - 1
  /\ \A j \in 1 .. Len(r) : r[j] = IF j < i THEN q[j] ELSE q[j + 1]

LEMMA ConsSeq ==
  ASSUME NEW S, NEW q \in Seq(S), NEW c \in S
  PROVE  Cons(c, q) \in Seq(S) /\ Preceded(Cons(c, q), c, q)
BY DEF Cons, Preceded

LEMMA TailSeq ==
  ASSUME NEW S, NEW q \in Seq(S), q # <<>>
  PROVE  /\ Tail(q) \in Seq(S)
         /\ Len(Tail(q)) = Len(q) - 1 /\ Len(q) \in Nat \ {0}
         /\ \A i \in 1 .. Len(q) - 1 : Tail(q)[i] = q[i + 1]
OBVIOUS

(* Two sequences with the same entries are the same.                       *)
LEMMA SameSeq ==
  ASSUME NEW S, NEW T, NEW a \in Seq(S), NEW b \in Seq(T), Len(a) = Len(b),
         \A i \in 1 .. Len(a) : a[i] = b[i]
  PROVE  a = b
OBVIOUS
(* The last entries of a sequence.                                         *)
LEMMA LastEntries ==
  ASSUME NEW S, NEW q \in Seq(S), NEW j \in 0 .. Len(q),
         NEW r, r = SubSeq(q, Len(q) - j + 1, Len(q))
  PROVE  /\ r \in Seq(S) /\ Len(r) = j
         /\ \A i \in 1 .. j : r[i] = q[(Len(q) - j) + i]
<1>1. Len(q) - j + 1 \in 1 .. Len(q) + 1 /\ Len(q) \in 0 .. Len(q)
  OBVIOUS
<1>2. (Len(q) - (Len(q) - j + 1)) + 1 = j
  OBVIOUS
<1> QED BY <1>1, <1>2, SubSeqProperties

LEMMA LastWithNext ==
  ASSUME NEW S, NEW q \in Seq(S), NEW j \in 0 .. Len(q) - 1
  PROVE  Cons(q[Len(q) - j], SubSeq(q, Len(q) - j + 1, Len(q)))
           = SubSeq(q, Len(q) - (j + 1) + 1, Len(q))
<1> DEFINE x == q[Len(q) - j]
           r == SubSeq(q, Len(q) - j + 1, Len(q))
           a == Cons(x, r)
           b == SubSeq(q, Len(q) - (j + 1) + 1, Len(q))
<1>1. j \in 0 .. Len(q) /\ j + 1 \in 0 .. Len(q) /\ j \in Nat /\ Len(q) \in Nat
  OBVIOUS
<1>2. /\ r \in Seq(S) /\ Len(r) = j
      /\ \A i \in 1 .. j : r[i] = q[(Len(q) - j) + i]
  BY <1>1, LastEntries
<1>3. /\ b \in Seq(S) /\ Len(b) = j + 1
      /\ \A i \in 1 .. j + 1 : b[i] = q[(Len(q) - (j + 1)) + i]
  BY <1>1, LastEntries
<1>4. x \in S
  OBVIOUS
<1> HIDE DEF r, b
<1>5. /\ a \in Seq(S) /\ Len(a) = j + 1 /\ a[1] = x
      /\ \A i \in 1 .. j : a[i + 1] = r[i]
  <2> HIDE DEF x
  <2>1. r \in Seq(S)
    BY <1>2
  <2>2. Cons(x, r) \in Seq(S) /\ Preceded(Cons(x, r), x, r)
    BY <2>1, <1>4, ConsSeq
  <2> QED BY <1>2, <2>2 DEF Preceded
<1> HIDE DEF a
<1>6. ASSUME NEW i \in 1 .. j + 1 PROVE a[i] = b[i]
  <2>1. CASE i = 1
    <3>1. (Len(q) - (j + 1)) + 1 = Len(q) - j
      BY <1>1
    <3> QED BY <1>3, <1>5, <2>1, <3>1
  <2>2. CASE i # 1
    <3>1. i - 1 \in 1 .. j /\ (i - 1) + 1 = i
      BY <1>1, <2>2
    <3>2. a[i] = r[i - 1]
      BY <1>5, <3>1
    <3>3. r[i - 1] = q[(Len(q) - j) + (i - 1)]
      BY <1>2, <3>1
    <3>4. (Len(q) - j) + (i - 1) = (Len(q) - (j + 1)) + i
      BY <1>1
    <3> QED BY <1>3, <3>2, <3>3, <3>4
  <2> QED BY <2>1, <2>2
<1>7. a = b
  BY <1>1, <1>3, <1>5, <1>6, SameSeq
<1> QED BY <1>7 DEF a, b, r

(***************************************************************************)
(* A chain is the sequence that the links spell.                           *)
(***************************************************************************)
(* One step of the walk, from what is met in one step less.                *)
Onward(m, shorter, k) ==
  [d \in Pointers |->
     IF d = NULL \/ k = 0 THEN <<>> ELSE Cons(d, shorter[m.at[d].next])]

Walks(m, n, f) == f = [k \in 0 .. n |-> Onward(m, f[k - 1], k)]

LEMMA WalkExists ==
  ASSUME NEW m, NEW n \in Nat
  PROVE  \E f : Walks(m, n, f)
<1> DEFINE Walkable == {j \in 0 .. n : \E f : Walks(m, j, f)}
           Fails == (0 .. n) \ Walkable
<1>1. \A x, y : Onward(m, x, 0) = Onward(m, y, 0)
  BY DEF Onward
<1>2. Walks(m, 0, [k \in 0 .. 0 |-> Onward(m, <<>>, 0)])
  <2> DEFINE f == [k \in 0 .. 0 |-> Onward(m, <<>>, 0)]
  <2>1. \A k \in 0 .. 0 : Onward(m, <<>>, 0) = Onward(m, f[k - 1], k)
    <3> TAKE k \in 0 .. 0
    <3>1. k = 0
      OBVIOUS
    <3> HIDE DEF f
    <3> QED BY <3>1, <1>1
  <2>2. f = [k \in 0 .. 0 |-> Onward(m, f[k - 1], k)]
    BY <2>1
  <2> QED BY <2>2 DEF Walks
<1>3. ASSUME NEW j \in 0 .. n - 1, NEW f, Walks(m, j, f) PROVE \E h : Walks(m, j + 1, h)
  <2> DEFINE h == [k \in 0 .. j + 1 |-> Onward(m, f[k - 1], k)]
             g == [k \in 0 .. j |-> Onward(m, f[k - 1], k)]
  <2>1. f = g
    BY <1>3 DEF Walks
  <2>2. \A k \in 0 .. j : h[k] = f[k]
    <3>1. \A k \in 0 .. j : h[k] = g[k]
      OBVIOUS
    <3> HIDE DEF g
    <3> QED BY <2>1, <3>1
  <2>3. h = [k \in 0 .. j + 1 |-> Onward(m, f[k - 1], k)]
    OBVIOUS
  <2> HIDE DEF h
  <2>4. \A k \in 0 .. j + 1 : Onward(m, f[k - 1], k) = Onward(m, h[k - 1], k)
    <3> TAKE k \in 0 .. j + 1
    <3>1. CASE k = 0
      BY <1>1, <3>1
    <3>2. CASE k # 0
      <4>1. k - 1 \in 0 .. j
        BY <3>2
      <4> QED BY <2>2, <4>1
    <3> QED BY <3>1, <3>2
  <2>5. h = [k \in 0 .. j + 1 |-> Onward(m, h[k - 1], k)]
    BY <2>3, <2>4
  <2> QED BY <2>5 DEF Walks
<1>4. 0 \notin Fails
  BY <1>2
<1>5. \A k \in 0 .. n - 1 : k \notin Fails => k + 1 \notin Fails
  <2> SUFFICES ASSUME NEW k \in 0 .. n - 1, k \in Walkable PROVE k + 1 \in Walkable
    OBVIOUS
  <2>1. \E f : Walks(m, k, f)
    OBVIOUS
  <2>2. \E h : Walks(m, k + 1, h)
    BY <1>3, <2>1
  <2> QED BY <2>2
<1>6. Fails = {}
  <2>1. Fails \subseteq 0 .. n
    OBVIOUS
  <2> HIDE DEF Fails
  <2> QED BY <1>4, <1>5, <2>1, NoneFails
<1> QED BY <1>6

(* The walk takes each step as Onward says.                                *)
LEMMA WalkSteps ==
  ASSUME NEW m, NEW c
  PROVE  \E f : /\ Chain(m, c) = f[Cardinality(Nodes)][c]
                /\ \A k \in 0 .. Cardinality(Nodes) : f[k] = Onward(m, f[k - 1], k)
<1> DEFINE n == Cardinality(Nodes)
           f == CHOOSE g : Walks(m, n, g)
<1>1. n \in Nat
  BY NodesAssumption, FS_CardinalityType
<1>2. Chain(m, c) = f[n][c]
  BY DEF Chain, Walks, Onward
<1>3. Walks(m, n, f)
  BY <1>1, WalkExists
<1> HIDE DEF f, n
<1>4. \A k \in 0 .. n : f[k] = Onward(m, f[k - 1], k)
  BY <1>3 DEF Walks
<1> QED BY <1>2, <1>4 DEF n

(* A sequence of different nodes is no longer than there are nodes.        *)
LEMMA DifferentNodes ==
  ASSUME NEW q \in Seq(Nodes), \A i, j \in 1 .. Len(q) : q[i] = q[j] => i = j
  PROVE  Len(q) <= Cardinality(Nodes) /\ Cardinality(Nodes) \in Nat
<1> DEFINE I == 1 .. Len(q)
<1>1. q \in [I -> Nodes]
  OBVIOUS
<1>2. IsFiniteSet(I) /\ Cardinality(I) = Len(q)
  <2>1. 1 \in Int /\ Len(q) \in Int /\ Len(q) >= 0
    OBVIOUS
  <2>2. /\ IsFiniteSet(1 .. Len(q))
        /\ Cardinality(1 .. Len(q)) = IF 1 > Len(q) THEN 0 ELSE Len(q) - 1 + 1
    BY <2>1, FS_Interval
  <2> QED BY <2>1, <2>2
<1>3. Cardinality(Nodes) \in Nat
  BY NodesAssumption, FS_CardinalityType
<1>4. CASE Cardinality(Nodes) < Cardinality(I)
  <2>1. \E x, y \in I : x # y /\ q[x] = q[y]
    BY <1>1, <1>2, <1>4, NodesAssumption, FS_PigeonHole
  <2> QED BY <2>1
<1> QED BY <1>2, <1>3, <1>4
(* The links of these nodes spell the sequence q of nodes.                 *)
Spelt(at, c, q) ==
  /\ q \in Seq(Nodes)
  /\ \A i, j \in 1 .. Len(q) : q[i] = q[j] => i = j
  /\ c = IF Len(q) = 0 THEN NULL ELSE q[1]
  /\ \A i \in 1 .. Len(q) : at[q[i]].next = IF i = Len(q) THEN NULL ELSE q[i + 1]

LEMMA ChainIsSpelt ==
  ASSUME NEW m, NEW c, NEW q, Spelt(m.at, c, q)
  PROVE  Chain(m, c) = q
<1> DEFINE N == Cardinality(Nodes)
           n == Len(q)
           From(j) == IF j = 0 THEN NULL ELSE q[n - j + 1]
           Ending(j) == SubSeq(q, n - j + 1, n)
<1>1. PICK f : /\ Chain(m, c) = f[N][c]
               /\ \A k \in 0 .. N : f[k] = Onward(m, f[k - 1], k)
  BY WalkSteps
<1>2. /\ q \in Seq(Nodes) /\ n \in Nat /\ N \in Nat /\ n <= N
      /\ \A i \in 1 .. n : q[i] \in Nodes /\ q[i] # NULL /\ q[i] \in Pointers
      /\ \A i \in 1 .. n : m.at[q[i]].next = IF i = n THEN NULL ELSE q[i + 1]
      /\ NULL \in Pointers
  BY DifferentNodes, NodesAssumption DEF Spelt, Pointers
<1> DEFINE Fails == {j \in 0 .. n : \E k \in j .. N : f[k][From(j)] # Ending(j)}
<1>3. \A k \in 0 .. N, d \in Pointers :
        f[k][d] = IF d = NULL \/ k = 0 THEN <<>> ELSE Cons(d, f[k - 1][m.at[d].next])
  <2> TAKE k \in 0 .. N, d \in Pointers
  <2>1. f[k] = Onward(m, f[k - 1], k)
    BY <1>1
  <2>2. Onward(m, f[k - 1], k)[d]
          = IF d = NULL \/ k = 0 THEN <<>> ELSE Cons(d, f[k - 1][m.at[d].next])
    BY DEF Onward
  <2> QED BY <2>1, <2>2
<1>4. 0 \notin Fails
  <2>1. From(0) = NULL /\ Ending(0) = <<>>
    BY <1>2
  <2>2. \A k \in 0 .. N : f[k][NULL] = <<>>
    BY <1>2, <1>3
  <2> QED BY <2>1, <2>2, <1>2
<1>5. ASSUME NEW j \in 0 .. n - 1, j \notin Fails PROVE j + 1 \notin Fails
  <2> SUFFICES ASSUME NEW k \in j + 1 .. N PROVE f[k][From(j + 1)] = Ending(j + 1)
    BY <1>2
  <2>1. /\ n - j \in 1 .. n /\ n - (j + 1) + 1 = n - j
        /\ k \in 0 .. N /\ k # 0 /\ k - 1 \in j .. N
    BY <1>2
  <2>2. From(j + 1) = q[n - j] /\ m.at[q[n - j]].next = From(j)
    <3> HIDE DEF n
    <3>1. j + 1 # 0 /\ j \in Nat /\ (n - j = n <=> j = 0) /\ n - j + 1 = (n - j) + 1
      BY <1>2
    <3>2. m.at[q[n - j]].next = IF n - j = n THEN NULL ELSE q[(n - j) + 1]
      BY <1>2, <2>1
    <3> QED BY <2>1, <3>1, <3>2
  <2>3. f[k][From(j + 1)] = Cons(q[n - j], f[k - 1][From(j)])
    <3> DEFINE d == q[n - j]
    <3>1. d \in Pointers /\ d # NULL /\ From(j + 1) = d /\ m.at[d].next = From(j)
      BY <1>2, <2>1, <2>2
    <3> HIDE DEF d, From
    <3>2. f[k][d] = Cons(d, f[k - 1][From(j)])
      BY <1>3, <2>1, <3>1
    <3> QED BY <3>1, <3>2 DEF d
  <2>4. f[k - 1][From(j)] = Ending(j)
    BY <1>5, <2>1
  <2>5. Cons(q[n - j], Ending(j)) = Ending(j + 1)
    <3>1. n - (j + 1) + 1 = n - j
      BY <1>2
    <3> QED BY <1>2, <3>1, LastWithNext
  <2> QED BY <2>3, <2>4, <2>5
<1>6. Fails = {}
  <2>1. Fails \subseteq 0 .. n
    OBVIOUS
  <2> HIDE DEF Fails
  <2> QED BY <1>2, <1>4, <1>5, <2>1, NoneFails
<1>7. f[N][From(n)] = Ending(n)
  <2>1. n \in 0 .. n /\ N \in n .. N
    BY <1>2
  <2>2. n \notin Fails
    BY <1>6
  <2> QED BY <2>1, <2>2
<1>8. Ending(n) = q
  <2>1. n - n + 1 = 1
    BY <1>2
  <2> QED BY <1>2, <2>1
<1>9. c = From(n)
  <2>1. n # 0 => n - n + 1 = 1
    BY <1>2
  <2> QED BY <2>1 DEF Spelt
<1> QED BY <1>1, <1>7, <1>8, <1>9
-----------------------------------------------------------------------------
(***************************************************************************)
(* Memories, and what the two list functions write to them.                *)
(***************************************************************************)
Cells == [flag : 0 .. MaxFlag, id : Ids \cup {NULL}, size : Sizes \cup {0},
          next : Pointers, prev : Pointers]

IsMemory(m) ==
  /\ m = [x \in Names \cup {"at"} |-> m[x]]
  /\ \A l \in Names : m[l] \in Pointers
  /\ m.at \in [Nodes -> Cells]

LEMMA NamesApart == "at" \notin Names
BY DEF Names

(* Writing the head of a list; writing a node.                             *)
HeadSet(m, r, list, p) ==
  /\ IsMemory(r) /\ r.at = m.at /\ r[list] = p
  /\ \A l \in Names \ {list} : r[l] = m[l]
NodeSet(m, r, n, cell) ==
  /\ IsMemory(r) /\ r.at[n] = cell
  /\ \A l \in Names : r[l] = m[l]
  /\ \A c \in Nodes \ {n} : r.at[c] = m.at[c]

LEMMA HeadWrite ==
  ASSUME NEW m, IsMemory(m), NEW list \in Names, NEW p \in Pointers
  PROVE  HeadSet(m, [m EXCEPT ![list] = p], list, p)
BY NamesApart DEF IsMemory, HeadSet

LEMMA NodeWrite ==
  ASSUME NEW m, IsMemory(m), NEW n \in Nodes, NEW cell \in Cells
  PROVE  NodeSet(m, [m EXCEPT !.at = [m.at EXCEPT ![n] = cell]], n, cell)
BY NamesApart DEF IsMemory, NodeSet

LEMMA LinkWrite ==
  ASSUME NEW m, IsMemory(m), NEW n \in Nodes, NEW p \in Pointers
  PROVE  /\ [m EXCEPT !.at[n].next = p] = [m EXCEPT !.at = [m.at EXCEPT ![n] = [m.at[n] EXCEPT !.next = p]]]
         /\ [m EXCEPT !.at[n].prev = p] = [m EXCEPT !.at = [m.at EXCEPT ![n] = [m.at[n] EXCEPT !.prev = p]]]
         /\ [m.at[n] EXCEPT !.next = p] \in Cells
         /\ [m.at[n] EXCEPT !.prev = p] \in Cells
BY DEF IsMemory, Cells
(* The links of a memory r are those of m, but for the node n: its next    *)
(* node is p; or: its previous one.                                        *)
NextSet(m, r, n, p) ==
  /\ IsMemory(r)
  /\ \A l \in Names : r[l] = m[l]
  /\ \A c \in Nodes : /\ r.at[c].next = IF c = n THEN p ELSE m.at[c].next
                      /\ r.at[c].prev = m.at[c].prev
                      /\ Recorded(r.at[c]) = Recorded(m.at[c])
PrevSet(m, r, n, p) ==
  /\ IsMemory(r)
  /\ \A l \in Names : r[l] = m[l]
  /\ \A c \in Nodes : /\ r.at[c].prev = IF c = n THEN p ELSE m.at[c].prev
                      /\ r.at[c].next = m.at[c].next
                      /\ Recorded(r.at[c]) = Recorded(m.at[c])

LEMMA LinkSet ==
  ASSUME NEW m, IsMemory(m), NEW n \in Nodes, NEW p \in Pointers
  PROVE  /\ NextSet(m, [m EXCEPT !.at[n].next = p], n, p)
         /\ PrevSet(m, [m EXCEPT !.at[n].prev = p], n, p)
<1>0. \A c \in Nodes : m.at[c] \in Cells
  BY DEF IsMemory
<1>1. NextSet(m, [m EXCEPT !.at[n].next = p], n, p)
  <2> DEFINE r == [m EXCEPT !.at[n].next = p]
             cell == [m.at[n] EXCEPT !.next = p]
  <2>1. cell \in Cells /\ r = [m EXCEPT !.at = [m.at EXCEPT ![n] = cell]]
    BY LinkWrite
  <2>2. cell.next = p /\ cell.prev = m.at[n].prev /\ Recorded(cell) = Recorded(m.at[n])
    BY <1>0 DEF Recorded, Cells
  <2> HIDE DEF r, cell
  <2>3. NodeSet(m, r, n, cell)
    <3>1. NodeSet(m, [m EXCEPT !.at = [m.at EXCEPT ![n] = cell]], n, cell)
      BY <2>1, NodeWrite
    <3> QED BY <2>1, <3>1
  <2>4. NextSet(m, r, n, p)
    BY <2>2, <2>3 DEF NextSet, NodeSet
  <2> QED BY <2>4 DEF r
<1>2. PrevSet(m, [m EXCEPT !.at[n].prev = p], n, p)
  <2> DEFINE r == [m EXCEPT !.at[n].prev = p]
             cell == [m.at[n] EXCEPT !.prev = p]
  <2>1. cell \in Cells /\ r = [m EXCEPT !.at = [m.at EXCEPT ![n] = cell]]
    BY LinkWrite
  <2>2. cell.prev = p /\ cell.next = m.at[n].next /\ Recorded(cell) = Recorded(m.at[n])
    BY <1>0 DEF Recorded, Cells
  <2> HIDE DEF r, cell
  <2>3. NodeSet(m, r, n, cell)
    <3>1. NodeSet(m, [m EXCEPT !.at = [m.at EXCEPT ![n] = cell]], n, cell)
      BY <2>1, NodeWrite
    <3> QED BY <2>1, <3>1
  <2>4. PrevSet(m, r, n, p)
    BY <2>2, <2>3 DEF PrevSet, NodeSet
  <2> QED BY <2>4 DEF r
<1> QED BY <1>1, <1>2

LEMMA PrependWrites ==
  ASSUME NEW m, IsMemory(m), NEW n \in Nodes, NEW list \in Names,
         NEW r, r = list_prepend(m, n, list)
  PROVE  /\ IsMemory(r) /\ r[list] = n /\ \A l \in Names \ {list} : r[l] = m[l]
         /\ \A c \in Nodes :
              /\ r.at[c].next = IF c = n THEN m[list] ELSE m.at[c].next
              /\ r.at[c].prev = CASE c = n -> NULL
                                  [] c # n /\ c = m[list] -> n
                                  [] c # n /\ c # m[list] -> m.at[c].prev
              /\ Recorded(r.at[c]) = Recorded(m.at[c])
<1> DEFINE old == m[list]
           a == IF old # NULL THEN [m EXCEPT !.at[old].prev = n] ELSE m
           b == [a EXCEPT !.at[n].next = old]
           d == [b EXCEPT !.at[n].prev = NULL]
<1>1. r = [d EXCEPT ![list] = n]
  BY DEF list_prepend
<1>2. /\ old \in Pointers /\ n \in Pointers /\ NULL \in Pointers /\ NULL \notin Nodes
      /\ (old # NULL => old \in Nodes)
  BY NodesAssumption DEF IsMemory, Pointers
<1>3. /\ IsMemory(a)
      /\ \A l \in Names : a[l] = m[l]
      /\ \A c \in Nodes : /\ a.at[c].prev = IF c = old THEN n ELSE m.at[c].prev
                          /\ a.at[c].next = m.at[c].next
                          /\ Recorded(a.at[c]) = Recorded(m.at[c])
  <2>1. CASE old = NULL
    BY <1>2, <2>1
  <2>2. CASE old # NULL
    <3>1. PrevSet(m, a, old, n)
      BY <1>2, <2>2, LinkSet
    <3> QED BY <3>1 DEF PrevSet
  <2> QED BY <2>1, <2>2
<1> HIDE DEF a, old
<1>4. NextSet(a, b, n, old)
  BY <1>2, <1>3, LinkSet
<1> HIDE DEF b
<1>5. PrevSet(b, d, n, NULL)
  BY <1>2, <1>4, LinkSet DEF NextSet
<1> HIDE DEF d
<1>6. /\ IsMemory(r) /\ r.at = d.at /\ r[list] = n
      /\ \A l \in Names \ {list} : r[l] = d[l]
  <2>1. IsMemory(d)
    BY <1>5 DEF PrevSet
  <2>2. HeadSet(d, [d EXCEPT ![list] = n], list, n)
    BY <1>2, <2>1, HeadWrite
  <2> QED BY <1>1, <2>2 DEF HeadSet
<1>7. \A l \in Names \ {list} : r[l] = m[l]
  BY <1>3, <1>4, <1>5, <1>6 DEF NextSet, PrevSet
<1>8. ASSUME NEW c \in Nodes
      PROVE  /\ r.at[c].next = IF c = n THEN old ELSE m.at[c].next
             /\ r.at[c].prev = CASE c = n -> NULL
                                 [] c # n /\ c = old -> n
                                 [] c # n /\ c # old -> m.at[c].prev
             /\ Recorded(r.at[c]) = Recorded(m.at[c])
  BY <1>3, <1>4, <1>5, <1>6 DEF NextSet, PrevSet
<1> QED BY <1>6, <1>7, <1>8 DEF old

LEMMA DetachWrites ==
  ASSUME NEW m, IsMemory(m), NEW n \in Nodes, NEW list \in Names,
         NEW r, r = detach_node(m, n, list)
  PROVE  /\ IsMemory(r)
         /\ r[list] = IF m.at[n].prev = NULL THEN m.at[n].next ELSE m[list]
         /\ \A l \in Names \ {list} : r[l] = m[l]
         /\ \A c \in Nodes :
              /\ r.at[c].next = CASE c = n -> NULL
                                  [] c # n /\ c = m.at[n].prev -> m.at[n].next
                                  [] c # n /\ c # m.at[n].prev -> m.at[c].next
              /\ r.at[c].prev = CASE c = n -> NULL
                                  [] c # n /\ c = m.at[n].next -> m.at[n].prev
                                  [] c # n /\ c # m.at[n].next -> m.at[c].prev
              /\ Recorded(r.at[c]) = Recorded(m.at[c])
<1> DEFINE next == m.at[n].next
           prev == m.at[n].prev
           a == IF prev # NULL THEN [m EXCEPT !.at[prev].next = next] ELSE [m EXCEPT ![list] = next]
           b == IF next # NULL THEN [a EXCEPT !.at[next].prev = prev] ELSE a
           d == [b EXCEPT !.at[n].next = NULL]
<1>1. r = [d EXCEPT !.at[n].prev = NULL]
  BY DEF detach_node
<1>2. /\ next \in Pointers /\ prev \in Pointers /\ NULL \in Pointers /\ NULL \notin Nodes
      /\ (next # NULL => next \in Nodes) /\ (prev # NULL => prev \in Nodes)
  BY NodesAssumption DEF IsMemory, Cells, Pointers
<1>3. /\ IsMemory(a)
      /\ a[list] = IF prev = NULL THEN next ELSE m[list]
      /\ \A l \in Names \ {list} : a[l] = m[l]
      /\ \A c \in Nodes : /\ a.at[c].next = IF c = prev THEN next ELSE m.at[c].next
                          /\ a.at[c].prev = m.at[c].prev
                          /\ Recorded(a.at[c]) = Recorded(m.at[c])
  <2> HIDE DEF next, prev
  <2>1. CASE prev = NULL
    <3>1. HeadSet(m, a, list, next)
      <4>1. HeadSet(m, [m EXCEPT ![list] = next], list, next)
        BY <1>2, HeadWrite
      <4> QED BY <2>1, <4>1
    <3> HIDE DEF a
    <3> QED BY <1>2, <2>1, <3>1 DEF HeadSet
  <2>2. CASE prev # NULL
    <3>1. NextSet(m, a, prev, next)
      BY <1>2, <2>2, LinkSet
    <3> QED BY <2>2, <3>1 DEF NextSet
  <2> QED BY <2>1, <2>2
<1> HIDE DEF a, next, prev
<1>4. /\ IsMemory(b)
      /\ \A l \in Names : b[l] = a[l]
      /\ \A c \in Nodes : /\ b.at[c].prev = IF c = next THEN prev ELSE a.at[c].prev
                          /\ b.at[c].next = a.at[c].next
                          /\ Recorded(b.at[c]) = Recorded(a.at[c])
  <2>1. CASE next = NULL
    BY <1>2, <1>3, <2>1
  <2>2. CASE next # NULL
    <3>1. PrevSet(a, b, next, prev)
      BY <1>2, <1>3, <2>2, LinkSet
    <3> QED BY <3>1 DEF PrevSet
  <2> QED BY <2>1, <2>2
<1> HIDE DEF b
<1>5. NextSet(b, d, n, NULL)
  BY <1>2, <1>4, LinkSet
<1> HIDE DEF d
<1>6. PrevSet(d, r, n, NULL)
  <2>1. IsMemory(d)
    BY <1>5 DEF NextSet
  <2>2. PrevSet(d, [d EXCEPT !.at[n].prev = NULL], n, NULL)
    BY <1>2, <2>1, LinkSet
  <2> QED BY <1>1, <2>2
<1>7. /\ IsMemory(r)
      /\ r[list] = IF prev = NULL THEN next ELSE m[list]
      /\ \A l \in Names \ {list} : r[l] = m[l]
  BY <1>3, <1>4, <1>5, <1>6 DEF NextSet, PrevSet
<1>8. ASSUME NEW c \in Nodes
      PROVE  /\ r.at[c].next = CASE c = n -> NULL
                                 [] c # n /\ c = prev -> next
                                 [] c # n /\ c # prev -> m.at[c].next
             /\ r.at[c].prev = CASE c = n -> NULL
                                 [] c # n /\ c = next -> prev
                                 [] c # n /\ c # next -> m.at[c].prev
             /\ Recorded(r.at[c]) = Recorded(m.at[c])
  BY <1>3, <1>4, <1>5, <1>6 DEF NextSet, PrevSet
<1> QED BY <1>7, <1>8 DEF next, prev
-----------------------------------------------------------------------------
(***************************************************************************)
(* Lists laid out in a memory: the sequences of s are of different nodes,  *)
(* those of A, and the heads and links spell them.  The first node of a    *)
(* list in open may point back anywhere.                                   *)
(***************************************************************************)
Distinct(s, A) ==
  /\ s \in [Names -> Seq(Nodes)]
  /\ \A k, l \in Names : \A i \in 1 .. Len(s[k]), j \in 1 .. Len(s[l]) :
       s[k][i] = s[l][j] => k = l /\ i = j
  /\ A = {c \in Nodes : \E l \in Names : \E i \in 1 .. Len(s[l]) : c = s[l][i]}

Linked(m, open, s) ==
  \A l \in Names :
    /\ m[l] = IF Len(s[l]) = 0 THEN NULL ELSE s[l][1]
    /\ \A i \in 1 .. Len(s[l]) :
         /\ m.at[s[l][i]].next = IF i = Len(s[l]) THEN NULL ELSE s[l][i + 1]
         /\ \/ m.at[s[l][i]].prev = IF i = 1 THEN NULL ELSE s[l][i - 1]
            \/ i = 1 /\ l \in open

(* The sequences t are s with n in front of one list; without its i-th     *)
(* node.                                                                   *)
InFront(t, s, list, n) == t = [s EXCEPT ![list] = Cons(n, s[list])]
LeftOut(t, s, list, i) == t = [s EXCEPT ![list] = RemoveAt(s[list], i)]

Elsewhere(t, s, list) == \A l \in Names \ {list} : t[l] = s[l]

LEMMA SpeltOut ==
  ASSUME NEW m, NEW open, NEW s, NEW A, Distinct(s, A), Linked(m, open, s), NEW l \in Names
  PROVE  Spelt(m.at, m[l], s[l])
BY DEF Spelt, Distinct, Linked

(* The sequences without the node at place i of one of them.               *)
LEMMA RemoveDistinct ==
  ASSUME NEW s, NEW A, Distinct(s, A), NEW list \in Names, NEW i \in 1 .. Len(s[list]),
         NEW t, LeftOut(t, s, list, i)
  PROVE  /\ Distinct(t, A \ {s[list][i]})
         /\ Skipped(t[list], s[list], i)
         /\ Elsewhere(t, s, list)
<1> DEFINE q == s[list]
           r == RemoveAt(q, i)
<1>1. /\ s \in [Names -> Seq(Nodes)]
      /\ \A k, l \in Names : \A x \in 1 .. Len(s[k]), y \in 1 .. Len(s[l]) :
           s[k][x] = s[l][y] => k = l /\ x = y
      /\ A = {c \in Nodes : \E l \in Names : \E x \in 1 .. Len(s[l]) : c = s[l][x]}
  BY DEF Distinct
<1>2. q \in Seq(Nodes) /\ i \in 1 .. Len(q) /\ Len(q) \in Nat
  BY <1>1
<1>3. /\ r \in Seq(Nodes) /\ Len(r) = Len(q) - 1
      /\ \A j \in 1 .. Len(q) - 1 : r[j] = IF j < i THEN q[j] ELSE q[j + 1]
  <2> HIDE DEF q
  <2> QED BY <1>2, RemoveSeq
<1>4. /\ t \in [Names -> Seq(Nodes)] /\ t[list] = r
      /\ \A l \in Names \ {list} : t[l] = s[l]
  BY <1>1, <1>3 DEF LeftOut
<1> HIDE DEF r
<1>5. \A j \in 1 .. Len(r) : \E x \in 1 .. Len(q) : x # i /\ r[j] = q[x] /\ x = (IF j < i THEN j ELSE j + 1)
  <2> HIDE DEF q
  <2> TAKE j \in 1 .. Len(r)
  <2>1. j \in 1 .. Len(q) - 1 /\ j \in 1 .. Len(q) /\ j + 1 \in 1 .. Len(q)
    BY <1>2, <1>3
  <2>2. CASE j < i
    BY <1>2, <1>3, <2>1, <2>2
  <2>3. CASE ~ (j < i)
    <3>1. j + 1 # i
      BY <1>2, <2>1, <2>3
    <3> QED BY <1>3, <2>1, <2>3, <3>1
  <2> QED BY <2>2, <2>3
<1>6. ASSUME NEW l \in Names, NEW j \in 1 .. Len(t[l])
      PROVE  \E x \in 1 .. Len(s[l]) : /\ t[l][j] = s[l][x] /\ (l = list => x # i)
                                       /\ x = IF l = list /\ j >= i THEN j + 1 ELSE j
  <2>1. CASE l = list
    <3>1. j \in Nat /\ i \in Nat
      BY <1>2, <1>3, <1>4, <2>1
    <3> QED BY <1>4, <1>5, <2>1, <3>1
  <2>2. CASE l # list
    BY <1>4, <2>2
  <2> QED BY <2>1, <2>2
<1>7. ASSUME NEW k \in Names, NEW l \in Names,
             NEW x \in 1 .. Len(t[k]), NEW y \in 1 .. Len(t[l]), t[k][x] = t[l][y]
      PROVE  k = l /\ x = y
  <2>1. PICK u \in 1 .. Len(s[k]) : /\ t[k][x] = s[k][u]
                                    /\ u = IF k = list /\ x >= i THEN x + 1 ELSE x
    BY <1>6
  <2>2. PICK v \in 1 .. Len(s[l]) : /\ t[l][y] = s[l][v]
                                    /\ v = IF l = list /\ y >= i THEN y + 1 ELSE y
    BY <1>6
  <2>3. s[k][u] = s[l][v]
    BY <1>7, <2>1, <2>2
  <2>4. k = l /\ u = v
    BY <1>1, <2>3
  <2>5. x \in Int /\ y \in Int
    OBVIOUS
  <2> QED BY <1>2, <2>1, <2>2, <2>4, <2>5
<1>8. ASSUME NEW c \in Nodes
      PROVE  c \in A \ {s[list][i]} <=> \E l \in Names : \E j \in 1 .. Len(t[l]) : c = t[l][j]
  <2>1. ASSUME NEW l \in Names, NEW j \in 1 .. Len(t[l]), c = t[l][j]
        PROVE  c \in A \ {s[list][i]}
    <3>1. PICK x \in 1 .. Len(s[l]) : t[l][j] = s[l][x] /\ (l = list => x # i)
      BY <1>6
    <3> QED BY <1>1, <2>1, <3>1
  <2>2. ASSUME c \in A \ {s[list][i]}
        PROVE  \E l \in Names : \E j \in 1 .. Len(t[l]) : c = t[l][j]
    <3>1. PICK l \in Names : \E x \in 1 .. Len(s[l]) : c = s[l][x]
      BY <1>1, <2>2
    <3>2. PICK x \in 1 .. Len(s[l]) : c = s[l][x]
      BY <3>1
    <3>3. CASE l # list
      BY <1>4, <3>2, <3>3
    <3>4. CASE l = list
      <4>1. x # i /\ x \in 1 .. Len(q)
        BY <2>2, <3>2, <3>4
      <4> DEFINE j == IF x < i THEN x ELSE x - 1
      <4>2. j \in 1 .. Len(q) - 1 /\ (IF j < i THEN j ELSE j + 1) = x
        <5> HIDE DEF q
        <5> QED BY <1>2, <4>1
      <4>3. r[j] = q[x]
        <5> HIDE DEF q, j
        <5>1. r[j] = IF j < i THEN q[j] ELSE q[j + 1]
          BY <1>3, <4>2
        <5> QED BY <4>2, <5>1
      <4> HIDE DEF j
      <4>4. j \in 1 .. Len(t[list]) /\ c = t[list][j]
        BY <1>3, <1>4, <3>2, <3>4, <4>2, <4>3
      <4> QED BY <4>4
    <3> QED BY <3>3, <3>4
  <2> QED BY <2>1, <2>2
<1>9. Distinct(t, A \ {s[list][i]})
  <2>1. A \ {s[list][i]} = {c \in Nodes : \E l \in Names : \E j \in 1 .. Len(t[l]) : c = t[l][j]}
    <3>1. A \subseteq Nodes
      BY <1>1
    <3> QED BY <1>8, <3>1
  <2> QED BY <1>4, <1>7, <2>1 DEF Distinct
<1>10. Skipped(r, q, i)
  <2> HIDE DEF q
  <2> QED BY <1>3 DEF Skipped
<1> QED BY <1>4, <1>9, <1>10 DEF Elsewhere

(* The sequences with a new node in front of one of them.                  *)
LEMMA ConsDistinct ==
  ASSUME NEW s, NEW A, Distinct(s, A), NEW list \in Names, NEW n \in Nodes \ A,
         NEW t, InFront(t, s, list, n)
  PROVE  /\ Distinct(t, A \cup {n})
         /\ Preceded(t[list], n, s[list])
         /\ Elsewhere(t, s, list)
<1> DEFINE q == s[list]
           r == Cons(n, q)
<1>1. /\ s \in [Names -> Seq(Nodes)]
      /\ \A k, l \in Names : \A x \in 1 .. Len(s[k]), y \in 1 .. Len(s[l]) :
           s[k][x] = s[l][y] => k = l /\ x = y
      /\ A = {c \in Nodes : \E l \in Names : \E x \in 1 .. Len(s[l]) : c = s[l][x]}
  BY DEF Distinct
<1>2. q \in Seq(Nodes) /\ Len(q) \in Nat
  BY <1>1
<1>3. /\ r \in Seq(Nodes) /\ Len(r) = Len(q) + 1 /\ r[1] = n
      /\ \A j \in 1 .. Len(q) : r[j + 1] = q[j]
  <2> HIDE DEF q
  <2>1. n \in Nodes
    OBVIOUS
  <2>2. r \in Seq(Nodes) /\ Preceded(r, n, q)
    BY <1>2, <2>1, ConsSeq
  <2> QED BY <2>2 DEF Preceded
<1>4. /\ t \in [Names -> Seq(Nodes)] /\ t[list] = r
      /\ \A l \in Names \ {list} : t[l] = s[l]
  BY <1>1, <1>3 DEF InFront
<1> HIDE DEF r
<1>5. ASSUME NEW l \in Names, NEW j \in 1 .. Len(t[l])
      PROVE  \/ l = list /\ j = 1 /\ t[l][j] = n
             \/ \E x \in 1 .. Len(s[l]) : /\ t[l][j] = s[l][x]
                                          /\ j = IF l = list THEN x + 1 ELSE x
  <2>1. CASE l # list
    BY <1>4, <2>1
  <2>2. CASE l = list /\ j = 1
    BY <1>3, <1>4, <2>2
  <2>3. CASE l = list /\ j # 1
    <3>1. j - 1 \in 1 .. Len(q) /\ (j - 1) + 1 = j
      <4> HIDE DEF q
      <4>1. j \in 1 .. Len(q) + 1
        BY <1>3, <1>4, <2>3
      <4> QED BY <1>2, <2>3, <4>1
    <3>2. r[j] = q[j - 1]
      <4> HIDE DEF q
      <4> QED BY <1>3, <3>1
    <3> QED BY <1>4, <2>3, <3>1, <3>2
  <2> QED BY <2>1, <2>2, <2>3
<1>6. \A l \in Names : \A x \in 1 .. Len(s[l]) : s[l][x] # n
  BY <1>1
<1>7. ASSUME NEW k \in Names, NEW l \in Names,
             NEW x \in 1 .. Len(t[k]), NEW y \in 1 .. Len(t[l]), t[k][x] = t[l][y]
      PROVE  k = l /\ x = y
  <2>1. CASE t[k][x] = n
    <3>1. k = list /\ x = 1
      BY <1>5, <1>6, <2>1
    <3>2. t[l][y] = n
      BY <1>7, <2>1
    <3>3. l = list /\ y = 1
      BY <1>5, <1>6, <3>2
    <3> QED BY <3>1, <3>3
  <2>2. CASE t[k][x] # n
    <3>1. PICK u \in 1 .. Len(s[k]) : t[k][x] = s[k][u] /\ x = IF k = list THEN u + 1 ELSE u
      BY <1>5, <2>2
    <3>2. PICK v \in 1 .. Len(s[l]) : t[l][y] = s[l][v] /\ y = IF l = list THEN v + 1 ELSE v
      BY <1>5, <1>7, <2>2
    <3>3. s[k][u] = s[l][v]
      BY <1>7, <3>1, <3>2
    <3>4. k = l /\ u = v
      BY <1>1, <3>3
    <3> QED BY <3>1, <3>2, <3>4
  <2> QED BY <2>1, <2>2
<1>8. ASSUME NEW c \in Nodes
      PROVE  c \in A \cup {n} <=> \E l \in Names : \E j \in 1 .. Len(t[l]) : c = t[l][j]
  <2>1. ASSUME NEW l \in Names, NEW j \in 1 .. Len(t[l]), c = t[l][j]
        PROVE  c \in A \cup {n}
    BY SMTT(30), <1>1, <1>5, <2>1
  <2>2. ASSUME c = n
        PROVE  \E l \in Names : \E j \in 1 .. Len(t[l]) : c = t[l][j]
    <3>1. 1 \in 1 .. Len(t[list]) /\ t[list][1] = n
      BY <1>2, <1>3, <1>4
    <3> QED BY <2>2, <3>1
  <2>3. ASSUME c \in A
        PROVE  \E l \in Names : \E j \in 1 .. Len(t[l]) : c = t[l][j]
    <3>1. PICK l \in Names : \E x \in 1 .. Len(s[l]) : c = s[l][x]
      BY <1>1, <2>3
    <3>2. PICK x \in 1 .. Len(s[l]) : c = s[l][x]
      BY <3>1
    <3>3. CASE l # list
      BY <1>4, <3>2, <3>3
    <3>4. CASE l = list
      <4>1. x \in 1 .. Len(q) /\ x + 1 \in 1 .. Len(q) + 1
        BY <1>2, <3>4
      <4>2. x + 1 \in 1 .. Len(t[list]) /\ t[list][x + 1] = c
        BY <1>3, <1>4, <3>2, <3>4, <4>1
      <4> QED BY <4>2
    <3> QED BY <3>3, <3>4
  <2> QED BY <2>1, <2>2, <2>3
<1>9. Distinct(t, A \cup {n})
  <2>1. A \cup {n} = {c \in Nodes : \E l \in Names : \E j \in 1 .. Len(t[l]) : c = t[l][j]}
    <3>1. A \cup {n} \subseteq Nodes
      BY <1>1
    <3> QED BY <1>8, <3>1
  <2> QED BY <1>4, <1>7, <2>1 DEF Distinct
<1> QED BY <1>3, <1>4, <1>9 DEF Preceded, Elsewhere

(* Links that nobody wrote.                                                *)
LEMMA SameLinks ==
  ASSUME NEW m, NEW open, NEW s, NEW A, Distinct(s, A), Linked(m, open, s),
         NEW r, \A l \in Names : r[l] = m[l],
         \A c \in A : r.at[c].next = m.at[c].next /\ r.at[c].prev = m.at[c].prev
  PROVE  Linked(r, open, s)
<1>1. \A l \in Names : \A i \in 1 .. Len(s[l]) : s[l][i] \in A
  BY DEF Distinct
<1>2. ASSUME NEW l \in Names, NEW i \in 1 .. Len(s[l])
      PROVE  /\ r.at[s[l][i]].next = m.at[s[l][i]].next
             /\ r.at[s[l][i]].prev = m.at[s[l][i]].prev
  BY <1>1
<1> QED BY <1>2 DEF Linked

LEMMA PrependLinked ==
  ASSUME NEW m, IsMemory(m), NEW s, NEW A, Distinct(s, A), Linked(m, {}, s),
         NEW list \in Names, NEW n \in Nodes \ A,
         NEW t, InFront(t, s, list, n)
  PROVE  Linked(list_prepend(m, n, list), {}, t)
<1> DEFINE r == list_prepend(m, n, list)
<1>1. /\ r[list] = n /\ \A l \in Names \ {list} : r[l] = m[l]
      /\ \A c \in Nodes :
           /\ r.at[c].next = IF c = n THEN m[list] ELSE m.at[c].next
           /\ r.at[c].prev = CASE c = n -> NULL
                               [] c # n /\ c = m[list] -> n
                               [] c # n /\ c # m[list] -> m.at[c].prev
  BY PrependWrites
<1> HIDE DEF r
<1>2. /\ Distinct(t, A \cup {n})
      /\ Len(t[list]) = Len(s[list]) + 1 /\ t[list][1] = n
      /\ \A j \in 1 .. Len(s[list]) : t[list][j + 1] = s[list][j]
      /\ \A l \in Names \ {list} : t[l] = s[l]
  <2>1. /\ Distinct(t, A \cup {n}) /\ Preceded(t[list], n, s[list])
        /\ Elsewhere(t, s, list)
    BY ConsDistinct
  <2> QED BY <2>1 DEF Preceded, Elsewhere
<1>3. /\ \A l \in Names : s[l] \in Seq(Nodes) /\ Len(s[l]) \in Nat
      /\ \A l \in Names : \A i \in 1 .. Len(s[l]) : s[l][i] \in Nodes /\ s[l][i] # n
      /\ \A k, l \in Names : \A x \in 1 .. Len(s[k]), y \in 1 .. Len(s[l]) :
           s[k][x] = s[l][y] => k = l /\ x = y
  BY DEF Distinct
<1>4. \A l \in Names :
        /\ m[l] = IF Len(s[l]) = 0 THEN NULL ELSE s[l][1]
        /\ \A i \in 1 .. Len(s[l]) :
             /\ m.at[s[l][i]].next = IF i = Len(s[l]) THEN NULL ELSE s[l][i + 1]
             /\ m.at[s[l][i]].prev = IF i = 1 THEN NULL ELSE s[l][i - 1]
  BY DEF Linked
<1>5. ASSUME NEW l \in Names, l # list
      PROVE  /\ r[l] = IF Len(t[l]) = 0 THEN NULL ELSE t[l][1]
             /\ \A i \in 1 .. Len(t[l]) :
                  /\ r.at[t[l][i]].next = IF i = Len(t[l]) THEN NULL ELSE t[l][i + 1]
                  /\ r.at[t[l][i]].prev = IF i = 1 THEN NULL ELSE t[l][i - 1]
  <2>1. r[l] = m[l] /\ t[l] = s[l]
    BY <1>1, <1>2, <1>5
  <2>2. ASSUME NEW i \in 1 .. Len(s[l])
        PROVE  r.at[s[l][i]].next = m.at[s[l][i]].next /\ r.at[s[l][i]].prev = m.at[s[l][i]].prev
    <3>1. s[l][i] # m[list]
      <4>1. CASE Len(s[list]) = 0
        BY <1>3, <1>4, <4>1, NodesAssumption
      <4>2. CASE Len(s[list]) # 0
        <5>1. 1 \in 1 .. Len(s[list])
          BY <1>3, <4>2
        <5>2. m[list] = s[list][1] /\ s[l][i] # s[list][1]
          BY <1>3, <1>4, <1>5, <4>2, <5>1
        <5> QED BY <5>2
      <4> QED BY <4>1, <4>2
    <3> QED BY <1>1, <1>3, <3>1
  <2> QED BY <1>4, <2>1, <2>2
<1>6. r[list] = IF Len(t[list]) = 0 THEN NULL ELSE t[list][1]
  <2>1. Len(t[list]) # 0
    BY <1>2, <1>3
  <2> QED BY <1>1, <1>2, <2>1
<1>7. ASSUME NEW i \in 1 .. Len(t[list])
      PROVE  /\ r.at[t[list][i]].next = IF i = Len(t[list]) THEN NULL ELSE t[list][i + 1]
             /\ r.at[t[list][i]].prev = IF i = 1 THEN NULL ELSE t[list][i - 1]
  <2>0. n \in Nodes
    OBVIOUS
  <2>1. CASE i = 1
    <3>1. r.at[t[list][i]].next = m[list] /\ r.at[t[list][i]].prev = NULL
      BY <1>1, <1>2, <2>0, <2>1
    <3>2. CASE Len(s[list]) = 0
      BY <1>2, <1>4, <2>1, <3>1, <3>2
    <3>3. CASE Len(s[list]) # 0
      <4>1. 1 \in 1 .. Len(s[list]) /\ i # Len(t[list]) /\ t[list][1 + 1] = s[list][1]
        BY <1>2, <1>3, <2>1, <3>3
      <4> QED BY <1>4, <2>1, <3>1, <3>3, <4>1
    <3> QED BY <3>2, <3>3
  <2>2. CASE i # 1
    <3>1. PICK j \in 1 .. Len(s[list]) : i = j + 1
      <4>1. i - 1 \in 1 .. Len(s[list]) /\ i = (i - 1) + 1
        BY <1>2, <1>3, <2>2
      <4> QED BY <4>1
    <3> DEFINE c == s[list][j]
    <3>2. t[list][i] = c /\ c \in Nodes /\ c # n
      BY <1>2, <1>3, <3>1
    <3>3. c = m[list] <=> j = 1
      <4>1. 1 \in 1 .. Len(s[list]) /\ Len(s[list]) # 0
        BY <1>3
      <4>2. m[list] = s[list][1]
        BY <1>4, <4>1
      <4>3. s[list][j] = s[list][1] <=> j = 1
        BY <1>3, <4>1
      <4> QED BY <4>2, <4>3
    <3>4. r.at[c].next = IF i = Len(t[list]) THEN NULL ELSE t[list][i + 1]
      <4>0. m.at[c].next = IF j = Len(s[list]) THEN NULL ELSE s[list][j + 1]
        BY <1>4
      <4>1. r.at[c].next = IF j = Len(s[list]) THEN NULL ELSE s[list][j + 1]
        <5> HIDE DEF c
        <5> QED BY <1>1, <3>2, <4>0
      <4>2. j = Len(s[list]) <=> i = Len(t[list])
        BY <1>2, <1>3, <3>1
      <4>3. CASE j # Len(s[list])
        <5>1. j + 1 \in 1 .. Len(s[list])
          BY <1>3, <4>3
        <5>2. t[list][(j + 1) + 1] = s[list][j + 1]
          BY <1>2, <5>1
        <5> QED BY <3>1, <4>1, <4>2, <4>3, <5>2
      <4> QED BY <4>1, <4>2, <4>3
    <3>5. r.at[c].prev = IF i = 1 THEN NULL ELSE t[list][i - 1]
      <4>1. i - 1 = j
        BY <3>1
      <4>2. CASE j = 1
        <5>1. r.at[c].prev = n
          BY <1>1, <3>2, <3>3, <4>2
        <5> QED BY <1>2, <2>2, <4>1, <4>2, <5>1
      <4>3. CASE j # 1
        <5>1. r.at[c].prev = s[list][j - 1]
          BY SMTT(30), <1>1, <1>4, <3>2, <3>3, <4>3
        <5>2. j - 1 \in 1 .. Len(s[list]) /\ (j - 1) + 1 = j
          BY <1>3, <4>3
        <5>3. t[list][j] = s[list][j - 1]
          BY <1>2, <5>2
        <5> QED BY <2>2, <4>1, <5>1, <5>3
      <4> QED BY <4>2, <4>3
    <3> QED BY <3>2, <3>4, <3>5
  <2> QED BY <2>1, <2>2
<1> QED BY SMTT(30), <1>5, <1>6, <1>7 DEF Linked, r
LEMMA DetachLinked ==
  ASSUME NEW m, IsMemory(m), NEW s, NEW A, Distinct(s, A), Linked(m, {}, s),
         NEW list \in Names, NEW i \in 1 .. Len(s[list]),
         NEW t, LeftOut(t, s, list, i)
  PROVE  Linked(detach_node(m, s[list][i], list), {}, t)
<1> DEFINE n == s[list][i]
           r == detach_node(m, n, list)
           q == s[list]
           len == Len(q)
<1>1. /\ \A l \in Names : s[l] \in Seq(Nodes) /\ Len(s[l]) \in Nat
      /\ \A l \in Names : \A x \in 1 .. Len(s[l]) : s[l][x] \in Nodes /\ s[l][x] # NULL
      /\ \A k, l \in Names : \A x \in 1 .. Len(s[k]), y \in 1 .. Len(s[l]) :
           s[k][x] = s[l][y] => k = l /\ x = y
  BY NodesAssumption DEF Distinct
<1>2. \A l \in Names :
        /\ m[l] = IF Len(s[l]) = 0 THEN NULL ELSE s[l][1]
        /\ \A x \in 1 .. Len(s[l]) :
             /\ m.at[s[l][x]].next = IF x = Len(s[l]) THEN NULL ELSE s[l][x + 1]
             /\ m.at[s[l][x]].prev = IF x = 1 THEN NULL ELSE s[l][x - 1]
  BY DEF Linked
<1> DEFINE next == IF i = len THEN NULL ELSE q[i + 1]
           prev == IF i = 1 THEN NULL ELSE q[i - 1]
<1>3. n \in Nodes /\ m.at[n].next = next /\ m.at[n].prev = prev
  BY <1>1, <1>2
<1>4. /\ r[list] = IF prev = NULL THEN next ELSE m[list]
      /\ \A l \in Names \ {list} : r[l] = m[l]
      /\ \A c \in Nodes :
           /\ r.at[c].next = CASE c = n -> NULL
                               [] c # n /\ c = prev -> next
                               [] c # n /\ c # prev -> m.at[c].next
           /\ r.at[c].prev = CASE c = n -> NULL
                               [] c # n /\ c = next -> prev
                               [] c # n /\ c # next -> m.at[c].prev
  <2> HIDE DEF n, next, prev
  <2> QED BY <1>3, DetachWrites
<1> HIDE DEF r
<1>5. /\ Len(t[list]) = len - 1 /\ len \in Nat /\ i \in 1 .. len
      /\ \A j \in 1 .. Len(t[list]) : t[list][j] = IF j < i THEN q[j] ELSE q[j + 1]
      /\ \A l \in Names \ {list} : t[l] = s[l]
  <2> HIDE DEF n, q, len, next, prev
  <2>1. Skipped(t[list], s[list], i) /\ Elsewhere(t, s, list)
    BY RemoveDistinct
  <2> QED BY <1>1, <2>1 DEF Skipped, Elsewhere, q, len
<1>6. /\ \A x \in 1 .. len : q[x] \in Nodes /\ q[x] # NULL
      /\ \A x, y \in 1 .. len : q[x] = q[y] => x = y
      /\ m[list] = IF len = 0 THEN NULL ELSE q[1]
      /\ \A x \in 1 .. len : /\ m.at[q[x]].next = IF x = len THEN NULL ELSE q[x + 1]
                             /\ m.at[q[x]].prev = IF x = 1 THEN NULL ELSE q[x - 1]
  BY <1>1, <1>2
<1>7. /\ (prev = NULL \/ \E x \in 1 .. len : prev = q[x])
      /\ (next = NULL \/ \E x \in 1 .. len : next = q[x])
  <2> HIDE DEF q, len
  <2>1. i # 1 => i - 1 \in 1 .. len
    BY <1>5
  <2>2. i # len => i + 1 \in 1 .. len
    BY <1>5
  <2> QED BY <2>1, <2>2
<1>8. ASSUME NEW l \in Names, l # list
      PROVE  /\ r[l] = IF Len(t[l]) = 0 THEN NULL ELSE t[l][1]
             /\ \A x \in 1 .. Len(t[l]) :
                  /\ r.at[t[l][x]].next = IF x = Len(t[l]) THEN NULL ELSE t[l][x + 1]
                  /\ r.at[t[l][x]].prev = IF x = 1 THEN NULL ELSE t[l][x - 1]
  <2>1. r[l] = m[l] /\ t[l] = s[l]
    BY <1>4, <1>5, <1>8
  <2>2. ASSUME NEW x \in 1 .. Len(s[l])
        PROVE  r.at[s[l][x]].next = m.at[s[l][x]].next /\ r.at[s[l][x]].prev = m.at[s[l][x]].prev
    <3>1. s[l][x] \in Nodes /\ s[l][x] # NULL /\ \A y \in 1 .. len : s[l][x] # q[y]
      BY <1>1, <1>8
    <3>2. s[l][x] # n /\ s[l][x] # prev /\ s[l][x] # next
      <4> HIDE DEF next, prev
      <4> QED BY <1>7, <3>1
    <3> HIDE DEF next, prev, n
    <3> QED BY <1>4, <3>1, <3>2
  <2> QED BY <1>2, <2>1, <2>2
<1>9. r[list] = IF Len(t[list]) = 0 THEN NULL ELSE t[list][1]
  <2> HIDE DEF q, len
  <2>1. CASE i = 1 /\ len = 1
    BY <1>4, <1>5, <2>1
  <2>2. CASE i = 1 /\ len # 1
    <3>1. 1 \in 1 .. Len(t[list]) /\ Len(t[list]) # 0
      BY <1>5, <2>2
    <3>2. t[list][1] = q[1 + 1]
      BY <1>5, <2>2, <3>1
    <3> QED BY <1>4, <2>2, <3>1, <3>2
  <2>3. CASE i # 1
    <3>1. 1 \in 1 .. Len(t[list]) /\ Len(t[list]) # 0 /\ 1 < i /\ len # 0 /\ i - 1 \in 1 .. len
      BY <1>5, <2>3
    <3>2. t[list][1] = q[1] /\ prev # NULL
      BY <1>5, <1>6, <2>3, <3>1
    <3> QED BY <1>4, <1>6, <3>1, <3>2
  <2> QED BY <2>1, <2>2, <2>3
<1>10. ASSUME NEW j \in 1 .. Len(t[list])
       PROVE  /\ r.at[t[list][j]].next = IF j = Len(t[list]) THEN NULL ELSE t[list][j + 1]
              /\ r.at[t[list][j]].prev = IF j = 1 THEN NULL ELSE t[list][j - 1]
  <2> HIDE DEF q, len
  <2> DEFINE x == IF j < i THEN j ELSE j + 1
             c == q[x]
  <2>1. x \in 1 .. len /\ x # i /\ j \in 1 .. len - 1 /\ j \in Int /\ i \in Int /\ len \in Int
    BY <1>5
  <2>2. t[list][j] = c /\ c \in Nodes /\ c # n /\ c # NULL
    <3>1. c = IF j < i THEN q[j] ELSE q[j + 1]
      OBVIOUS
    <3>2. c \in Nodes /\ c # n /\ c # NULL
      BY <1>5, <1>6, <2>1 DEF q
    <3> QED BY <1>5, <3>1, <3>2
  <2>3. c = prev <=> x = i - 1
    <3>1. CASE i = 1
      BY <2>1, <2>2, <3>1
    <3>2. CASE i # 1
      <4>1. i - 1 \in 1 .. len
        BY <1>5, <3>2
      <4> QED BY <1>6, <2>1, <3>2, <4>1
    <3> QED BY <3>1, <3>2
  <2>4. c = next <=> x = i + 1
    <3>1. CASE i = len
      BY <2>1, <2>2, <3>1
    <3>2. CASE i # len
      <4>1. i + 1 \in 1 .. len
        BY <1>5, <3>2
      <4> QED BY <1>6, <2>1, <3>2, <4>1
    <3> QED BY <3>1, <3>2
  <2>5. /\ m.at[c].next = IF x = len THEN NULL ELSE q[x + 1]
        /\ m.at[c].prev = IF x = 1 THEN NULL ELSE q[x - 1]
    BY <1>6, <2>1
  <2>6. /\ r.at[c].next = IF x = i - 1 THEN next ELSE IF x = len THEN NULL ELSE q[x + 1]
        /\ r.at[c].prev = IF x = i + 1 THEN prev ELSE IF x = 1 THEN NULL ELSE q[x - 1]
    <3> HIDE DEF n, next, prev, c, x
    <3> QED BY <1>4, <2>2, <2>3, <2>4, <2>5
  <2>7. r.at[c].next = IF j = Len(t[list]) THEN NULL ELSE t[list][j + 1]
    <3>1. CASE j = len - 1
      <4>1. CASE i = len
        <5>1. x = i - 1
          BY <2>1, <3>1, <4>1
        <5> QED BY <1>5, <2>6, <3>1, <4>1, <5>1
      <4>2. CASE i # len
        <5>1. x = len /\ x # i - 1
          BY <1>5, <2>1, <3>1, <4>2
        <5> QED BY <1>5, <2>6, <3>1, <5>1
      <4> QED BY <4>1, <4>2
    <3>2. CASE j # len - 1
      <4>1. j + 1 \in 1 .. Len(t[list]) /\ j # Len(t[list])
        BY <1>5, <2>1, <3>2
      <4>2. t[list][j + 1] = IF j + 1 < i THEN q[j + 1] ELSE q[(j + 1) + 1]
        BY <1>5, <4>1
      <4>3. CASE j + 1 < i
        <5>1. x = j /\ x # i - 1 /\ x # len
          BY <2>1, <4>3
        <5> QED BY <2>6, <4>1, <4>2, <4>3, <5>1
      <4>4. CASE j + 1 = i
        <5>1. x = i - 1 /\ x = j /\ i # len /\ i + 1 = (j + 1) + 1 /\ ~ (j + 1 < i)
          BY <2>1, <3>2, <4>4
        <5> QED BY <2>6, <4>1, <4>2, <5>1
      <4>5. CASE j + 1 > i
        <5>1. x = j + 1 /\ x # i - 1 /\ x # len /\ ~ (j + 1 < i)
          BY <2>1, <3>2, <4>5
        <5> QED BY <2>6, <4>1, <4>2, <5>1
      <4> QED BY <2>1, <4>3, <4>4, <4>5
    <3> QED BY <3>1, <3>2
  <2>8. r.at[c].prev = IF j = 1 THEN NULL ELSE t[list][j - 1]
    <3>1. CASE j = 1
      <4>1. CASE i = 1
        <5>1. x = i + 1
          BY <2>1, <3>1, <4>1
        <5> QED BY <2>6, <3>1, <4>1, <5>1
      <4>2. CASE i # 1
        <5>1. x = 1 /\ x # i + 1
          BY <1>5, <2>1, <3>1, <4>2
        <5> QED BY <2>6, <3>1, <5>1
      <4> QED BY <4>1, <4>2
    <3>2. CASE j # 1
      <4>1. j - 1 \in 1 .. Len(t[list])
        BY <1>5, <2>1, <3>2
      <4>2. t[list][j - 1] = IF j - 1 < i THEN q[j - 1] ELSE q[(j - 1) + 1]
        BY <1>5, <4>1
      <4>3. CASE j < i
        <5>1. x = j /\ x # i + 1 /\ x # 1 /\ j - 1 < i
          BY <2>1, <3>2, <4>3
        <5> QED BY <2>6, <3>2, <4>2, <5>1
      <4>4. CASE j = i
        <5>1. x = i + 1 /\ i # 1 /\ j - 1 = i - 1 /\ j - 1 < i
          BY <2>1, <3>2, <4>4
        <5> QED BY <2>6, <3>2, <4>2, <4>4, <5>1
      <4>5. CASE j > i
        <5>1. x = j + 1 /\ x # i + 1 /\ x # 1 /\ ~ (j - 1 < i) /\ x - 1 = (j - 1) + 1
          BY <2>1, <3>2, <4>5
        <5> QED BY <2>6, <3>2, <4>2, <5>1
      <4> QED BY <2>1, <4>3, <4>4, <4>5
    <3> QED BY <3>1, <3>2
  <2> QED BY <2>2, <2>7, <2>8
<1> QED BY SMTT(30), <1>8, <1>9, <1>10 DEF Linked, r, n
-----------------------------------------------------------------------------
(***************************************************************************)
(* The lists as values: what the sequences of nodes record in a memory.    *)
(***************************************************************************)
Recs(m, q) == [i \in 1 .. Len(q) |-> Recorded(m.at[q[i]])]
Values(m, s) == [l \in Names |-> Recs(m, s[l])]

(* Memory m has its lists laid out as s, in the nodes A.                   *)
Holds(m, s, A) == IsMemory(m) /\ Distinct(s, A) /\ Linked(m, {}, s)

LEMMA RecordsSpelt ==
  ASSUME NEW m, NEW c, NEW q, Spelt(m.at, c, q)
  PROVE  Records(m, c) = Recs(m, q)
<1>1. Chain(m, c) = q
  BY ChainIsSpelt
<1>2. DOMAIN q = 1 .. Len(q)
  BY DEF Spelt
<1> QED BY <1>1, <1>2 DEF Records, Recs

LEMMA RecsList ==
  ASSUME NEW m, NEW q \in Seq(Nodes)
  PROVE  /\ Recs(m, q) \in Seq({Recorded(m.at[c]) : c \in Nodes})
         /\ Len(Recs(m, q)) = Len(q)
         /\ \A i \in 1 .. Len(q) : Recs(m, q)[i] = Recorded(m.at[q[i]])
BY DEF Recs

(* The same nodes with the same contents.                                  *)
SameRecs(m, r, q) == \A i \in 1 .. Len(q) : Recorded(r.at[q[i]]) = Recorded(m.at[q[i]])

LEMMA RecsSame ==
  ASSUME NEW m, NEW r, NEW q \in Seq(Nodes), SameRecs(m, r, q)
  PROVE  Recs(r, q) = Recs(m, q)
BY DEF Recs, SameRecs

(* Another node in front.                                                  *)
LEMMA RecsCons ==
  ASSUME NEW m, NEW r, NEW q \in Seq(Nodes), NEW c \in Nodes, NEW u \in Seq(Nodes),
         Preceded(u, c, q), SameRecs(m, r, q)
  PROVE  Recs(r, u) = Cons(Recorded(r.at[c]), Recs(m, q))
<1> DEFINE S == {Recorded(r.at[d]) : d \in Nodes} \cup {Recorded(m.at[d]) : d \in Nodes}
           x == Recorded(r.at[c])
           a == Recs(r, u)
           b == Cons(x, Recs(m, q))
<1>1. Recs(m, q) \in Seq(S) /\ Len(Recs(m, q)) = Len(q) /\ a \in Seq(S) /\ Len(a) = Len(u) /\ x \in S
  BY DEF Recs
<1>2. /\ \A i \in 1 .. Len(q) : Recs(m, q)[i] = Recorded(m.at[q[i]])
      /\ \A i \in 1 .. Len(u) : a[i] = Recorded(r.at[u[i]])
  BY DEF Recs
<1> HIDE DEF S, x
<1>3. b \in Seq(S) /\ Preceded(b, x, Recs(m, q))
  BY <1>1, ConsSeq
<1> HIDE DEF a, b
<1>4. Len(q) \in Nat /\ Len(u) = Len(q) + 1 /\ Len(b) = Len(q) + 1
  BY <1>1, <1>3 DEF Preceded
<1>5. ASSUME NEW i \in 1 .. Len(u) PROVE a[i] = b[i]
  <2>1. CASE i = 1
    BY <1>2, <1>3, <2>1 DEF Preceded, x
  <2>2. CASE i # 1
    <3>1. i - 1 \in 1 .. Len(q) /\ (i - 1) + 1 = i
      BY <1>4, <2>2
    <3>2. u[i] = q[i - 1] /\ b[i] = Recs(m, q)[i - 1]
      BY <1>1, <1>3, <3>1 DEF Preceded
    <3> QED BY <1>2, <3>1, <3>2 DEF SameRecs
  <2> QED BY <2>1, <2>2
<1>6. a = b
  BY <1>1, <1>3, <1>4, <1>5, SameSeq
<1> QED BY <1>6 DEF a, b, x

(* One node less.                                                          *)
LEMMA RecsRemove ==
  ASSUME NEW m, NEW r, NEW q \in Seq(Nodes), NEW i \in 1 .. Len(q), NEW u \in Seq(Nodes),
         Skipped(u, q, i), SameRecs(m, r, q)
  PROVE  Recs(r, u) = RemoveAt(Recs(m, q), i)
<1> DEFINE S == {Recorded(r.at[d]) : d \in Nodes} \cup {Recorded(m.at[d]) : d \in Nodes}
           a == Recs(r, u)
           v == Recs(m, q)
           b == RemoveAt(v, i)
<1>1. v \in Seq(S) /\ Len(v) = Len(q) /\ a \in Seq(S) /\ Len(a) = Len(u)
  BY DEF Recs
<1>2. /\ \A j \in 1 .. Len(q) : v[j] = Recorded(m.at[q[j]])
      /\ \A j \in 1 .. Len(u) : a[j] = Recorded(r.at[u[j]])
  BY DEF Recs
<1> HIDE DEF S, v
<1>3. /\ b \in Seq(S) /\ Len(b) = Len(v) - 1
      /\ \A j \in 1 .. Len(v) - 1 : b[j] = IF j < i THEN v[j] ELSE v[j + 1]
  BY <1>1, RemoveSeq
<1> HIDE DEF a, b
<1>4. Len(q) \in Nat /\ Len(u) = Len(q) - 1 /\ Len(b) = Len(q) - 1
  BY <1>1, <1>3 DEF Skipped
<1>5. ASSUME NEW j \in 1 .. Len(u) PROVE a[j] = b[j]
  <2>1. j \in 1 .. Len(q) /\ j + 1 \in 1 .. Len(q) /\ j \in 1 .. Len(v) - 1
    BY <1>1, <1>4
  <2>2. CASE j < i
    <3>1. u[j] = q[j] /\ b[j] = v[j]
      BY <1>3, <2>1, <2>2 DEF Skipped
    <3> QED BY <1>2, <2>1, <3>1 DEF SameRecs
  <2>3. CASE ~ (j < i)
    <3>1. u[j] = q[j + 1] /\ b[j] = v[j + 1]
      BY <1>3, <2>1, <2>3 DEF Skipped
    <3> QED BY <1>2, <2>1, <3>1 DEF SameRecs
  <2> QED BY <2>2, <2>3
<1>6. a = b
  BY <1>1, <1>3, <1>4, <1>5, SameSeq
<1> QED BY <1>6 DEF a, b, v
-----------------------------------------------------------------------------
(***************************************************************************)
(* What the monitor does with nodes, and what that is to the lists.        *)
(***************************************************************************)
LEMMA LaidOut ==
  ASSUME NEW s, NEW A, Distinct(s, A)
  PROVE  /\ A \subseteq Nodes
         /\ \A l \in Names : s[l] \in Seq(Nodes) /\ Len(s[l]) \in Nat
         /\ \A l \in Names : \A i \in 1 .. Len(s[l]) : s[l][i] \in A /\ s[l][i] \in Nodes
         /\ \A k, l \in Names : \A i \in 1 .. Len(s[k]), j \in 1 .. Len(s[l]) :
              s[k][i] = s[l][j] => k = l /\ i = j
BY DEF Distinct

(* Only these lists have changed from V to W.                              *)
Only(changed, V, W) == \A l \in Names \ changed : W[l] = V[l]

(* A node of one list becomes the first of another.                        *)
Moved(V, W, from, to, i) ==
  /\ Only({from, to}, V, W)
  /\ W[from] = RemoveAt(V[from], i) /\ W[to] = Cons(V[from][i], V[to])

(* In memory m, laid out as t, one of the lists V has become v.            *)
Becomes(V, list, v, m, t, A) ==
  Holds(m, t, A) /\ Only({list}, V, Values(m, t)) /\ Values(m, t)[list] = v

(* The node n is at place i of a list.                                     *)
Placed(s, list, i, n) == i \in 1 .. Len(s[list]) /\ n = s[list][i]

(* A new record in front of a list.                                        *)
LEMMA CreateHolds ==
  ASSUME NEW m, NEW s, NEW A, Holds(m, s, A), NEW list \in Names, NEW c \in Nodes \ A,
         NEW cell \in Cells, NEW b, NodeSet(m, b, c, cell)
  PROVE  \E t : /\ Becomes(Values(m, s), list, Cons(Recorded(cell), Values(m, s)[list]),
                           list_prepend(b, c, list), t, A \cup {c})
                /\ Preceded(t[list], c, s[list])
<1> DEFINE t == [s EXCEPT ![list] = Cons(c, s[list])]
           r == list_prepend(b, c, list)
<1>1. InFront(t, s, list, c)
  BY DEF InFront
<1> HIDE DEF t
<1>2. IsMemory(m) /\ Distinct(s, A) /\ Linked(m, {}, s) /\ c \in Nodes /\ c \notin A
  BY DEF Holds
<1>3. NodeSet(m, b, c, cell)
  OBVIOUS
<1>4. \A d \in A : d \in Nodes /\ d # c /\ b.at[d] = m.at[d]
  BY <1>2, <1>3, LaidOut DEF NodeSet
<1>5. IsMemory(b) /\ Linked(b, {}, s)
  <2>1. \A l \in Names : b[l] = m[l]
    BY <1>3 DEF NodeSet
  <2> QED BY <1>2, <1>3, <1>4, <2>1, SameLinks DEF NodeSet
<1>6. Distinct(t, A \cup {c}) /\ Preceded(t[list], c, s[list]) /\ Elsewhere(t, s, list)
  BY <1>1, <1>2, ConsDistinct
<1>7. Linked(r, {}, t)
  BY <1>1, <1>2, <1>5, PrependLinked
<1>8. IsMemory(r) /\ \A d \in Nodes : Recorded(r.at[d]) = Recorded(b.at[d])
  BY <1>2, <1>5, PrependWrites
<1> HIDE DEF r
<1>9. /\ \A d \in A : Recorded(r.at[d]) = Recorded(m.at[d])
      /\ Recorded(r.at[c]) = Recorded(cell)
  BY <1>2, <1>3, <1>4, <1>8 DEF NodeSet
<1>10. Recs(r, t[list]) = Cons(Recorded(cell), Recs(m, s[list]))
  <2>1. t[list] \in Seq(Nodes) /\ s[list] \in Seq(Nodes)
    BY <1>2, <1>6, LaidOut
  <2>2. SameRecs(m, r, s[list])
    BY <1>2, <1>9, LaidOut DEF SameRecs
  <2>3. Recs(r, t[list]) = Cons(Recorded(r.at[c]), Recs(m, s[list]))
    BY <1>2, <1>6, <2>1, <2>2, RecsCons
  <2> QED BY <1>9, <2>3
<1>11. ASSUME NEW l \in Names, l # list PROVE Recs(r, t[l]) = Recs(m, s[l])
  <2>1. t[l] = s[l] /\ s[l] \in Seq(Nodes)
    BY <1>2, <1>6, <1>11, LaidOut DEF Elsewhere
  <2>2. SameRecs(m, r, s[l])
    BY <1>2, <1>9, LaidOut DEF SameRecs
  <2>3. Recs(r, s[l]) = Recs(m, s[l])
    BY <2>1, <2>2, RecsSame
  <2> QED BY <2>1, <2>3
<1>12. /\ Values(r, t)[list] = Cons(Recorded(cell), Values(m, s)[list])
       /\ Only({list}, Values(m, s), Values(r, t))
  BY <1>10, <1>11 DEF Values, Only
<1>13. Holds(r, t, A \cup {c})
  BY <1>6, <1>7, <1>8 DEF Holds
<1> QED BY <1>6, <1>12, <1>13 DEF Becomes, r

(* A node taken out of a list.                                             *)
LEMMA DetachHolds ==
  ASSUME NEW m, NEW s, NEW A, Holds(m, s, A), NEW list \in Names,
         NEW i, NEW n, Placed(s, list, i, n)
  PROVE  \E t : Becomes(Values(m, s), list, RemoveAt(Values(m, s)[list], i),
                        detach_node(m, n, list), t, A \ {n})
<1> DEFINE t == [s EXCEPT ![list] = RemoveAt(s[list], i)]
           r == detach_node(m, n, list)
<1>0. i \in 1 .. Len(s[list]) /\ n = s[list][i]
  BY DEF Placed
<1>1. LeftOut(t, s, list, i)
  BY DEF LeftOut
<1> HIDE DEF t
<1>2. IsMemory(m) /\ Distinct(s, A) /\ Linked(m, {}, s)
  BY DEF Holds
<1>3. n \in Nodes /\ \A l \in Names : s[l] \in Seq(Nodes)
  BY <1>0, <1>2, LaidOut
<1>4. Distinct(t, A \ {n}) /\ Skipped(t[list], s[list], i) /\ Elsewhere(t, s, list)
  BY <1>0, <1>1, <1>2, RemoveDistinct
<1>5. Linked(r, {}, t)
  BY <1>0, <1>1, <1>2, DetachLinked
<1>6. IsMemory(r) /\ \A d \in Nodes : Recorded(r.at[d]) = Recorded(m.at[d])
  BY <1>2, <1>3, DetachWrites
<1> HIDE DEF r
<1>7. Recs(r, t[list]) = RemoveAt(Recs(m, s[list]), i)
  <2>1. t[list] \in Seq(Nodes) /\ s[list] \in Seq(Nodes)
    BY <1>2, <1>4, LaidOut
  <2>2. SameRecs(m, r, s[list])
    BY <1>2, <1>6, LaidOut DEF SameRecs
  <2> QED BY <1>0, <1>4, <2>1, <2>2, RecsRemove
<1>8. ASSUME NEW l \in Names, l # list PROVE Recs(r, t[l]) = Recs(m, s[l])
  <2>1. t[l] = s[l] /\ s[l] \in Seq(Nodes)
    BY <1>2, <1>4, <1>8, LaidOut DEF Elsewhere
  <2>2. SameRecs(m, r, s[l])
    BY <1>2, <1>6, LaidOut DEF SameRecs
  <2>3. Recs(r, s[l]) = Recs(m, s[l])
    BY <2>1, <2>2, RecsSame
  <2> QED BY <2>1, <2>3
<1>9. /\ Values(r, t)[list] = RemoveAt(Values(m, s)[list], i)
      /\ Only({list}, Values(m, s), Values(r, t))
  BY <1>7, <1>8 DEF Values, Only
<1>10. Holds(r, t, A \ {n})
  BY <1>4, <1>5, <1>6 DEF Holds
<1> QED BY <1>9, <1>10 DEF Becomes, r

(* It keeps its record.                                                    *)
Keeps(m, r, n) == Recorded(r.at[n]) = Recorded(m.at[n])

LEMMA DetachKeeps ==
  ASSUME NEW m, IsMemory(m), NEW n \in Nodes, NEW list \in Names
  PROVE  Keeps(m, detach_node(m, n, list), n)
BY DetachWrites DEF Keeps

(* A node of no list put in front of one.                                  *)
LEMMA PrependHolds ==
  ASSUME NEW m, NEW s, NEW A, Holds(m, s, A), NEW list \in Names, NEW c \in Nodes \ A
  PROVE  \E t : Becomes(Values(m, s), list, Cons(Recorded(m.at[c]), Values(m, s)[list]),
                        list_prepend(m, c, list), t, A \cup {c})
<1>1. m.at[c] \in Cells /\ NodeSet(m, m, c, m.at[c])
  BY DEF Holds, IsMemory, NodeSet
<1> QED BY <1>1, CreateHolds

(* A node that no list leads to is written.                                *)
LEMMA EraseHolds ==
  ASSUME NEW m, NEW s, NEW A, Holds(m, s, A), NEW c \in Nodes \ A
  PROVE  /\ Holds(erase(m, c), s, A) /\ Values(erase(m, c), s) = Values(m, s)
<1> DEFINE r == erase(m, c)
<1>1. Scrap \in Cells
  BY FlagAssumption DEF Scrap, Fresh, Cells, Pointers
<1>2. NodeSet(m, r, c, Scrap)
  <2>1. NodeSet(m, [m EXCEPT !.at = [m.at EXCEPT ![c] = Scrap]], c, Scrap)
    BY <1>1, NodeWrite DEF Holds
  <2>2. r = [m EXCEPT !.at = [m.at EXCEPT ![c] = Scrap]]
    BY DEF erase
  <2> QED BY <2>1, <2>2
<1> HIDE DEF r
<1>3. IsMemory(m) /\ Distinct(s, A) /\ Linked(m, {}, s)
  BY DEF Holds
<1>4. \A d \in A : d \in Nodes /\ d # c /\ r.at[d] = m.at[d]
  BY <1>2, <1>3, LaidOut DEF NodeSet
<1>5. IsMemory(r) /\ Linked(r, {}, s)
  <2>1. \A l \in Names : r[l] = m[l]
    BY <1>2 DEF NodeSet
  <2> QED BY <1>2, <1>3, <1>4, <2>1, SameLinks DEF NodeSet
<1>6. \A l \in Names : Recs(r, s[l]) = Recs(m, s[l])
  <2> TAKE l \in Names
  <2>1. s[l] \in Seq(Nodes)
    BY <1>3, LaidOut
  <2>2. SameRecs(m, r, s[l])
    BY <1>3, <1>4, LaidOut DEF SameRecs
  <2> QED BY <2>1, <2>2, RecsSame
<1>7. Values(r, s) = Values(m, s)
  BY <1>6 DEF Values
<1> QED BY <1>3, <1>5, <1>7 DEF Holds, r

(* A node is detached and freed.                                           *)
LEMMA DropHolds ==
  ASSUME NEW m, NEW s, NEW A, Holds(m, s, A), NEW list \in Names,
         NEW i, NEW n, Placed(s, list, i, n)
  PROVE  \E t : Becomes(Values(m, s), list, RemoveAt(Values(m, s)[list], i),
                        erase(detach_node(m, n, list), n), t, A \ {n})
<1> DEFINE d == detach_node(m, n, list)
           v == RemoveAt(Values(m, s)[list], i)
<1>1. PICK t : Becomes(Values(m, s), list, v, d, t, A \ {n})
  BY DetachHolds
<1> HIDE DEF d, v
<1>2. n \in Nodes \ (A \ {n}) /\ Holds(d, t, A \ {n})
  BY <1>1, LaidOut DEF Holds, Placed, Becomes
<1>3. Holds(erase(d, n), t, A \ {n}) /\ Values(erase(d, n), t) = Values(d, t)
  BY <1>2, EraseHolds
<1>4. Becomes(Values(m, s), list, v, erase(d, n), t, A \ {n})
  BY <1>1, <1>3 DEF Becomes
<1> QED BY <1>4 DEF d, v

(* A node of a list gets another size or another flag.                     *)
LEMMA WriteHolds ==
  ASSUME NEW m, NEW s, NEW A, Holds(m, s, A), NEW list \in Names,
         NEW i, NEW n, Placed(s, list, i, n),
         NEW cell \in Cells, cell.next = m.at[n].next, cell.prev = m.at[n].prev,
         NEW r, NodeSet(m, r, n, cell)
  PROVE  Becomes(Values(m, s), list, [Values(m, s)[list] EXCEPT ![i] = Recorded(cell)], r, s, A)
<1>0. i \in 1 .. Len(s[list]) /\ n = s[list][i]
  BY DEF Placed
<1>1. IsMemory(m) /\ Distinct(s, A) /\ Linked(m, {}, s)
  BY DEF Holds
<1>2. n \in Nodes
  BY <1>0, <1>1, LaidOut
<1>3. NodeSet(m, r, n, cell)
  OBVIOUS
<1>4. \A d \in A : r.at[d].next = m.at[d].next /\ r.at[d].prev = m.at[d].prev
  BY <1>1, <1>3, LaidOut DEF NodeSet
<1>5. IsMemory(r) /\ Linked(r, {}, s)
  <2>1. \A l \in Names : r[l] = m[l]
    BY <1>3 DEF NodeSet
  <2> QED BY <1>1, <1>3, <1>4, <2>1, SameLinks DEF NodeSet
<1>6. ASSUME NEW l \in Names, l # list PROVE Recs(r, s[l]) = Recs(m, s[l])
  <2>1. s[l] \in Seq(Nodes)
    BY <1>1, LaidOut
  <2>2. \A j \in 1 .. Len(s[l]) : s[l][j] \in Nodes /\ s[l][j] # n
    BY <1>0, <1>1, <1>6, LaidOut
  <2>3. SameRecs(m, r, s[l])
    BY <1>3, <2>2 DEF NodeSet, SameRecs
  <2> QED BY <2>1, <2>3, RecsSame
<1>7. Recs(r, s[list]) = [Recs(m, s[list]) EXCEPT ![i] = Recorded(cell)]
  <2> DEFINE q == s[list]
  <2>1. \A j \in 1 .. Len(q) : q[j] \in Nodes /\ (q[j] = n <=> j = i)
    BY <1>0, <1>1, LaidOut
  <2> HIDE DEF q
  <2>2. \A j \in 1 .. Len(q) : Recorded(r.at[q[j]]) = IF j = i THEN Recorded(cell) ELSE Recorded(m.at[q[j]])
    BY <1>3, <2>1 DEF NodeSet
  <2>3. Recs(r, q) = [Recs(m, q) EXCEPT ![i] = Recorded(cell)]
    BY <2>2 DEF Recs
  <2> QED BY <2>3 DEF q
<1>8. /\ Values(r, s)[list] = [Values(m, s)[list] EXCEPT ![i] = Recorded(cell)]
      /\ Only({list}, Values(m, s), Values(r, s))
  BY <1>6, <1>7 DEF Values, Only
<1> QED BY <1>1, <1>5, <1>8 DEF Holds, Becomes
-----------------------------------------------------------------------------
(***************************************************************************)
(* What MonitorCalls says, in the terms of this module.                    *)
(***************************************************************************)
LEMMA ListsTerms ==
  ASSUME NEW list, NEW p, NEW n, NEW k, NEW r
  PROVE  /\ Lists!NULL = NULL
         /\ Lists!list_search(list, p) = list_search(list, p)
         /\ Lists!Found(list, p) = Found(list, p)
         /\ Lists!FirstFlagged(list) = FirstFlagged(list)
         /\ Lists!node_create(p, n) = node_create(p, n)
         /\ Lists!Cons(r, list) = Cons(r, list)
         /\ Lists!RemoveAt(list, k) = RemoveAt(list, k)
<1>1. Lists!NULL = NULL
  BY DEF Lists!NULL, NULL
<1>2. Lists!list_search(list, p) = list_search(list, p)
  BY DEF Lists!list_search, list_search, Lists!SelectInSeq, SelectInSeq, Lists!Covers, Covers, Lists!Min, Min
<1>3. Lists!Found(list, p) = Found(list, p)
  BY <1>2 DEF Lists!Found, Found
<1>4. Lists!FirstFlagged(list) = FirstFlagged(list)
  BY DEF Lists!FirstFlagged, FirstFlagged, Lists!SelectInSeq, SelectInSeq, Lists!Min, Min
<1>5. Lists!node_create(p, n) = node_create(p, n)
  BY DEF Lists!node_create, node_create
<1>6. Lists!Cons(r, list) = Cons(r, list)
  BY DEF Lists!Cons, Cons
<1>7. Lists!RemoveAt(list, k) = RemoveAt(list, k)
  BY DEF Lists!RemoveAt, RemoveAt
<1> QED BY <1>1, <1>2, <1>3, <1>4, <1>5, <1>6, <1>7
(* The variables of MonitorCalls, and lists V that are theirs.             *)
HeapList == Records(mem, mem.heap_list)
StackList == IF returning THEN AtCursor!destroy_allocas ELSE Records(mem, mem.stack_list)
DeadList == Records(mem, mem.deallocated_list)
GlobalList == Records(mem, mem.globals_list)

Shown(V) ==
  /\ HeapList = V["heap_list"] /\ StackList = V["stack_list"]
  /\ DeadList = V["deallocated_list"] /\ GlobalList = V["globals_list"]

(* What a remember call does with an address its own list does not cover.  *)
Adoption(V, W, list, p, n) ==
  LET dead == V["deallocated_list"]
      i == list_search(dead, p)
  IN /\ Only({list, "deallocated_list"}, V, W)
     /\ W[list] = Cons(IF i # 0 THEN dead[i] ELSE node_create(p, n), V[list])
     /\ W["deallocated_list"] = IF i # 0 THEN RemoveAt(dead, i) ELSE dead

LEMMA AdoptionFollows ==
  ASSUME NEW V, NEW W, Shown(V), Shown(W)', NEW p, NEW n
  PROVE  /\ p # NULL /\ ~ Found(V["heap_list"], p) /\ Adoption(V, W, "heap_list", p, n)
              => Lists!remember_malloc_calloc(p, n)
         /\ ~ Found(V["stack_list"], p) /\ Adoption(V, W, "stack_list", p, n)
              => Lists!remember(p, n)
         /\ ~ Found(V["globals_list"], p) /\ Adoption(V, W, "globals_list", p, n)
              => Lists!remember_global(p, n)
<1> DEFINE dead == V["deallocated_list"]
           i == list_search(dead, p)
<1>1. ASSUME NEW list \in Names, Adoption(V, W, list, p, n)
      PROVE  /\ W[list] = Lists!Cons(IF Lists!list_search(DeadList, p) # 0
                                       THEN DeadList[Lists!list_search(DeadList, p)]
                                       ELSE Lists!node_create(p, n), V[list])
             /\ W["deallocated_list"] = IF Lists!list_search(DeadList, p) # 0
                  THEN Lists!RemoveAt(DeadList, Lists!list_search(DeadList, p)) ELSE DeadList
             /\ Only({list, "deallocated_list"}, V, W)
  BY <1>1, ListsTerms DEF Adoption, Shown
<1>2. ASSUME p # NULL, ~ Found(V["heap_list"], p), Adoption(V, W, "heap_list", p, n)
      PROVE  Lists!remember_malloc_calloc(p, n)
  <2>1. ~ (p = Lists!NULL \/ Lists!Found(HeapList, p))
    BY <1>2, ListsTerms DEF Shown
  <2>2. StackList' = StackList /\ GlobalList' = GlobalList
    BY <1>2 DEF Adoption, Only, Shown, Names
  <2>3. HeapList' = Lists!Cons(IF Lists!list_search(DeadList, p) # 0
                                 THEN DeadList[Lists!list_search(DeadList, p)]
                                 ELSE Lists!node_create(p, n), HeapList)
        /\ DeadList' = IF Lists!list_search(DeadList, p) # 0
             THEN Lists!RemoveAt(DeadList, Lists!list_search(DeadList, p)) ELSE DeadList
    BY <1>1, <1>2 DEF Shown, Names
  <2> QED BY <2>1, <2>2, <2>3
      DEF Lists!remember_malloc_calloc, Lists!Adopted, Lists!DeallocatedWithout,
          HeapList, StackList, DeadList, GlobalList
<1>3. ASSUME ~ Found(V["stack_list"], p), Adoption(V, W, "stack_list", p, n)
      PROVE  Lists!remember(p, n)
  <2>1. Lists!list_search(StackList, p) = 0
    BY <1>3, ListsTerms DEF Shown, Found
  <2>2. HeapList' = HeapList /\ GlobalList' = GlobalList
    BY <1>3 DEF Adoption, Only, Shown, Names
  <2>3. StackList' = Lists!Cons(IF Lists!list_search(DeadList, p) # 0
                                 THEN DeadList[Lists!list_search(DeadList, p)]
                                 ELSE Lists!node_create(p, n), StackList)
        /\ DeadList' = IF Lists!list_search(DeadList, p) # 0
             THEN Lists!RemoveAt(DeadList, Lists!list_search(DeadList, p)) ELSE DeadList
    BY <1>1, <1>3 DEF Shown, Names
  <2> QED BY <2>1, <2>2, <2>3
      DEF Lists!remember, Lists!Adopted, Lists!DeallocatedWithout,
          HeapList, StackList, DeadList, GlobalList
<1>4. ASSUME ~ Found(V["globals_list"], p), Adoption(V, W, "globals_list", p, n)
      PROVE  Lists!remember_global(p, n)
  <2>1. Lists!list_search(GlobalList, p) = 0
    BY <1>4, ListsTerms DEF Shown, Found
  <2>2. HeapList' = HeapList /\ StackList' = StackList
    BY <1>4 DEF Adoption, Only, Shown, Names
  <2>3. GlobalList' = Lists!Cons(IF Lists!list_search(DeadList, p) # 0
                                 THEN DeadList[Lists!list_search(DeadList, p)]
                                 ELSE Lists!node_create(p, n), GlobalList)
        /\ DeadList' = IF Lists!list_search(DeadList, p) # 0
             THEN Lists!RemoveAt(DeadList, Lists!list_search(DeadList, p)) ELSE DeadList
    BY <1>1, <1>4 DEF Shown, Names
  <2> QED BY <2>1, <2>2, <2>3
      DEF Lists!remember_global, Lists!Adopted, Lists!DeallocatedWithout,
          HeapList, StackList, DeadList, GlobalList
<1> QED BY <1>2, <1>3, <1>4

(* A list that covers the address gets the size.                           *)
Resized(V, W, list, p, n) ==
  LET i == list_search(V[list], p) IN
  i # 0 /\ Only({list}, V, W) /\ W[list] = [V[list] EXCEPT ![i].size = n]

LEMMA ResizeFollows ==
  ASSUME NEW V, NEW W, Shown(V), Shown(W)', NEW p, NEW n
  PROVE  /\ Resized(V, W, "stack_list", p, n) => Lists!remember(p, n)
         /\ Resized(V, W, "globals_list", p, n) => Lists!remember_global(p, n)
<1>1. ASSUME Resized(V, W, "stack_list", p, n)
      PROVE  Lists!remember(p, n)
  <2>1. Lists!list_search(StackList, p) # 0
    BY <1>1, ListsTerms DEF Shown, Resized
  <2>2. HeapList' = HeapList /\ GlobalList' = GlobalList /\ DeadList' = DeadList
    BY <1>1 DEF Only, Shown, Names, Resized
  <2>3. StackList' = [StackList EXCEPT ![Lists!list_search(StackList, p)].size = n]
    BY <1>1, ListsTerms DEF Shown, Resized
  <2> QED BY <2>1, <2>2, <2>3 DEF Lists!remember, HeapList, StackList, DeadList, GlobalList
<1>2. ASSUME Resized(V, W, "globals_list", p, n)
      PROVE  Lists!remember_global(p, n)
  <2>1. Lists!list_search(GlobalList, p) # 0
    BY <1>2, ListsTerms DEF Shown, Resized
  <2>2. HeapList' = HeapList /\ StackList' = StackList /\ DeadList' = DeadList
    BY <1>2 DEF Only, Shown, Names, Resized
  <2>3. GlobalList' = [GlobalList EXCEPT ![Lists!list_search(GlobalList, p)].size = n]
    BY <1>2, ListsTerms DEF Shown, Resized
  <2> QED BY <2>1, <2>2, <2>3 DEF Lists!remember_global, HeapList, StackList, DeadList, GlobalList
<1> QED BY <1>1, <1>2

(* A block is freed whose own node the search finds.                       *)
Freed(V, W, p) ==
  LET i == list_search(V["heap_list"], p) IN
  i # 0 /\ V["heap_list"][i].id = p /\ Moved(V, W, "heap_list", "deallocated_list", i)

LEMMA FreeFollows ==
  ASSUME NEW V, NEW W, Shown(V), Shown(W)', NEW p, p # NULL, Freed(V, W, p)
  PROVE  Lists!FreeVerdict(p) = "running" /\ Lists!free(p)
<1> DEFINE i == list_search(V["heap_list"], p)
<1>0. i # 0 /\ V["heap_list"][i].id = p /\ Moved(V, W, "heap_list", "deallocated_list", i)
  BY DEF Freed
<1>1. Lists!list_search(HeapList, p) = i /\ HeapList[i].id = p /\ p # Lists!NULL
  BY <1>0, ListsTerms DEF Shown
<1> HIDE DEF i
<1>2. StackList' = StackList /\ GlobalList' = GlobalList
  BY <1>0 DEF Only, Shown, Names, Moved
<1>3. HeapList' = Lists!RemoveAt(HeapList, i) /\ DeadList' = Lists!Cons(HeapList[i], DeadList)
  BY <1>0, ListsTerms DEF Shown, Moved
<1>4. Lists!FreeVerdict(p) = "running"
  BY <1>0, <1>1 DEF Lists!FreeVerdict, HeapList, DeadList
<1>5. Lists!free(p)
  BY <1>1, <1>2, <1>3 DEF Lists!free, HeapList, StackList, DeadList, GlobalList
<1> QED BY <1>4, <1>5

(* The old node goes after the new one has come.                           *)
Replaced(V, W, old, p, n) ==
  LET i == list_search(V["heap_list"], old)
      made == Cons(node_create(p, n), V["heap_list"])
  IN i # 0 /\ Only({"heap_list"}, V, W) /\ W["heap_list"] = RemoveAt(made, i + 1)

LEMMA ReallocFollows ==
  ASSUME NEW V, NEW W, Shown(V), Shown(W)', NEW old, NEW p, NEW n,
         \/ /\ old = NULL /\ Only({"heap_list"}, V, W)
            /\ W["heap_list"] = Cons(node_create(p, n), V["heap_list"])
         \/ old # NULL /\ Replaced(V, W, old, p, n)
  PROVE  Lists!realloc(old, [id |-> p, size |-> n])
<1> DEFINE i == Lists!list_search(HeapList, old)
           made == Cons(node_create(p, n), V["heap_list"])
           lmade == Lists!Cons(Lists!node_create(p, n), HeapList)
<1>1. lmade = made /\ i = list_search(V["heap_list"], old) /\ Lists!NULL = NULL
  BY ListsTerms DEF Shown
<1>2. StackList' = StackList /\ GlobalList' = GlobalList /\ DeadList' = DeadList
  BY DEF Only, Shown, Names, Replaced
<1>3. \/ old = Lists!NULL /\ HeapList' = lmade
      \/ old # Lists!NULL /\ i # 0 /\ HeapList' = Lists!RemoveAt(lmade, i + 1)
  BY <1>1, ListsTerms DEF Shown, Replaced
<1>4. HeapList' = CASE old = Lists!NULL             -> lmade
                    [] old # Lists!NULL /\ i # 0 -> Lists!RemoveAt(lmade, i + 1)
                    [] old # Lists!NULL /\ i = 0 -> HeapList
  BY <1>3
<1> QED BY <1>2, <1>4 DEF Lists!realloc, HeapList, StackList, DeadList, GlobalList

(* The node goes that covers the address; the first node gets a flag.      *)
Dropped(V, W, p) ==
  LET i == list_search(V["stack_list"], p) IN
  i # 0 /\ Only({"stack_list"}, V, W) /\ W["stack_list"] = RemoveAt(V["stack_list"], i)
Flagged(V, W) ==
  /\ V["stack_list"] # <<>> /\ Only({"stack_list"}, V, W)
  /\ W["stack_list"] = [V["stack_list"] EXCEPT ![1].flag = @ + 1]

LEMMA DestroyFollows ==
  ASSUME NEW V, NEW W, Shown(V), Shown(W)', NEW p, Dropped(V, W, p)
  PROVE  Lists!destroy(p)
<1>1. /\ Lists!list_search(StackList, p) # 0
      /\ StackList' = Lists!RemoveAt(StackList, Lists!list_search(StackList, p))
  BY ListsTerms DEF Shown, Dropped
<1>2. HeapList' = HeapList /\ GlobalList' = GlobalList /\ DeadList' = DeadList
  BY DEF Only, Shown, Names, Dropped
<1> QED BY <1>1, <1>2 DEF Lists!destroy, HeapList, StackList, DeadList, GlobalList

LEMMA FlagFollows ==
  ASSUME NEW V, NEW W, Shown(V), Shown(W)', Flagged(V, W)
  PROVE  Lists!OnStack(Lists!set_flag)
<1>1. StackList # <<>> /\ StackList' = [StackList EXCEPT ![1].flag = @ + 1]
  BY DEF Shown, Flagged
<1>2. HeapList' = HeapList /\ GlobalList' = GlobalList /\ DeadList' = DeadList
  BY DEF Only, Shown, Names, Flagged
<1> QED BY <1>1, <1>2 DEF Lists!OnStack, Lists!set_flag, HeapList, StackList, DeadList, GlobalList

(***************************************************************************)
(* A return: the nodes before the first flagged one go, and that one loses *)
(* a flag.                                                                 *)
(***************************************************************************)
Returned(list) ==
  LET k == FirstFlagged(list)
  IN IF k = 0 THEN <<>> ELSE [SubSeq(list, k, Len(list)) EXCEPT ![1].flag = @ - 1]

LEMMA ReturnTerms ==
  /\ AtCursor!destroy_allocas = Returned(Records(mem, cur))
  /\ (AtCursor!destroy_allocas)' = Returned(Records(mem', cur'))
  /\ Lists!destroy_allocas = Returned(StackList)
<1>1. \A list : AtCursor!FirstFlagged(list) = FirstFlagged(list)
  BY DEF AtCursor!FirstFlagged, FirstFlagged, AtCursor!SelectInSeq, SelectInSeq, AtCursor!Min, Min
<1>2. AtCursor!destroy_allocas = Returned(Records(mem, cur))
  BY <1>1 DEF AtCursor!destroy_allocas, Returned
<1>3. (AtCursor!destroy_allocas)' = Returned(Records(mem', cur'))
  BY <1>1 DEF AtCursor!destroy_allocas, Returned
<1>4. Lists!FirstFlagged(StackList) = FirstFlagged(StackList)
  BY ListsTerms
<1>5. Lists!destroy_allocas = Returned(StackList)
  BY <1>4 DEF Lists!destroy_allocas, Returned, StackList
<1> QED BY <1>2, <1>3, <1>5

(* The search for the first flagged node of any list.                      *)
LEMMA FirstFlag ==
  ASSUME NEW S, NEW list \in Seq(S), NEW k, k = FirstFlagged(list)
  PROVE  /\ k \in 0 .. Len(list)
         /\ k # 0 => list[k].flag > 0 /\ \A j \in 1 .. k - 1 : ~ (list[j].flag > 0)
         /\ k = 0 => \A j \in 1 .. Len(list) : ~ (list[j].flag > 0)
<1> DEFINE I == {i \in 1 .. Len(list) : list[i].flag > 0}
<1>1. k = IF I # {} THEN Min(I) ELSE 0
  BY DEF FirstFlagged, SelectInSeq
<1>2. I \subseteq 1 .. Len(list) /\ Len(list) \in Nat
  OBVIOUS
<1>3. /\ k \in 0 .. Len(list)
      /\ k # 0 => k \in I /\ \A j \in 1 .. k - 1 : j \notin I
      /\ k = 0 => I = {}
  <2> HIDE DEF I
  <2> QED BY <1>1, <1>2, FirstPosition
<1>4. k # 0 => \A j \in 1 .. k - 1 : j \in 1 .. Len(list)
  BY <1>2, <1>3
<1> QED BY <1>3, <1>4

LEMMA ReturnedNone == Returned(<<>>) = <<>>
<1>1. <<>> \in Seq({}) /\ Len(<<>>) = 0
  OBVIOUS
<1>2. FirstFlagged(<<>>) \in 0 .. Len(<<>>)
  BY <1>1, FirstFlag
<1>3. FirstFlagged(<<>>) = 0
  BY <1>1, <1>2
<1> QED BY <1>3 DEF Returned

LEMMA ReturnedSkips ==
  ASSUME NEW S, NEW list \in Seq(S), NEW rest \in Seq(S), NEW x,
         Preceded(list, x, rest), ~ (x.flag > 0)
  PROVE  Returned(list) = Returned(rest)
<1> DEFINE k == FirstFlagged(list)
           j == FirstFlagged(rest)
<1>1. /\ k \in 0 .. Len(list)
      /\ k # 0 => list[k].flag > 0 /\ \A i \in 1 .. k - 1 : ~ (list[i].flag > 0)
      /\ k = 0 => \A i \in 1 .. Len(list) : ~ (list[i].flag > 0)
  BY FirstFlag
<1>2. /\ j \in 0 .. Len(rest)
      /\ j # 0 => rest[j].flag > 0 /\ \A i \in 1 .. j - 1 : ~ (rest[i].flag > 0)
      /\ j = 0 => \A i \in 1 .. Len(rest) : ~ (rest[i].flag > 0)
  BY FirstFlag
<1> HIDE DEF k, j
<1>3. /\ Len(rest) \in Nat /\ Len(list) = Len(rest) + 1 /\ list[1] = x
      /\ \A i \in 1 .. Len(rest) : list[i + 1] = rest[i]
  BY DEF Preceded
<1>4. k # 1
  BY <1>1, <1>3
<1>5. CASE j = 0
  <2>1. CASE k = 0
    BY <1>5, <2>1 DEF Returned, j, k
  <2>2. CASE k # 0
    <3>1. k - 1 \in 1 .. Len(rest) /\ (k - 1) + 1 = k
      BY <1>1, <1>3, <1>4, <2>2
    <3>2. list[k] = rest[k - 1]
      BY <1>3, <3>1
    <3> QED BY <1>1, <1>2, <1>5, <2>2, <3>1, <3>2
  <2> QED BY <2>1, <2>2
<1>6. CASE j # 0
  <2>0. j \in 1 .. Len(rest) /\ j + 1 \in 1 .. Len(list)
    BY <1>2, <1>3, <1>6
  <2>1. list[j + 1] = rest[j] /\ list[j + 1].flag > 0
    BY <1>2, <1>3, <1>6, <2>0
  <2>2. k # 0
    BY <1>1, <2>0, <2>1
  <2>3. k = j + 1
    <3>1. k - 1 \in 1 .. Len(rest) /\ (k - 1) + 1 = k /\ k \in Int /\ j \in Int
      BY <1>1, <1>3, <1>4, <2>0, <2>2
    <3>2. ~ (j + 1 < k)
      <4> SUFFICES ASSUME j + 1 < k PROVE FALSE
        OBVIOUS
      <4>1. j + 1 \in 1 .. k - 1
        BY <2>0, <3>1
      <4> QED BY <1>1, <2>1, <2>2, <4>1
    <3>3. ~ (k < j + 1)
      <4> SUFFICES ASSUME k < j + 1 PROVE FALSE
        OBVIOUS
      <4>1. k - 1 \in 1 .. j - 1
        BY <2>0, <3>1
      <4>2. list[k] = rest[k - 1]
        BY <1>3, <3>1
      <4> QED BY <1>1, <1>2, <1>6, <2>2, <4>1, <4>2
    <3> QED BY <3>1, <3>2, <3>3
  <2>4. SubSeq(list, k, Len(list)) = SubSeq(rest, j, Len(rest))
    <3> DEFINE a == SubSeq(list, k, Len(list))
               b == SubSeq(rest, j, Len(rest))
               c == Len(rest) - j + 1
    <3>1. c \in Nat /\ c \in 0 .. Len(list) /\ c \in 0 .. Len(rest)
          /\ Len(list) - c + 1 = k /\ Len(rest) - c + 1 = j
      BY <1>3, <2>0, <2>3
    <3>2. /\ a \in Seq(S) /\ Len(a) = c
          /\ \A i \in 1 .. c : a[i] = list[(Len(list) - c) + i]
      <4> HIDE DEF c
      <4> QED BY <3>1, LastEntries
    <3>3. /\ b \in Seq(S) /\ Len(b) = c
          /\ \A i \in 1 .. c : b[i] = rest[(Len(rest) - c) + i]
      <4> HIDE DEF c
      <4> QED BY <3>1, LastEntries
    <3> HIDE DEF a, b, c
    <3>4. ASSUME NEW i \in 1 .. c PROVE a[i] = b[i]
      <4>1. (Len(rest) - c) + i \in 1 .. Len(rest)
            /\ (Len(list) - c) + i = ((Len(rest) - c) + i) + 1
        BY <1>3, <3>1
      <4>2. list[((Len(rest) - c) + i) + 1] = rest[(Len(rest) - c) + i]
        BY <1>3, <4>1
      <4> QED BY <3>2, <3>3, <4>1, <4>2
    <3>5. a = b
      BY <3>2, <3>3, <3>4, SameSeq
    <3> QED BY <3>5 DEF a, b
  <2> QED BY <1>6, <2>2, <2>4 DEF Returned, j, k
<1> QED BY <1>5, <1>6

LEMMA ReturnedLowers ==
  ASSUME NEW S, NEW list \in Seq(S), Len(list) # 0, list[1].flag > 0
  PROVE  Returned(list) = [list EXCEPT ![1].flag = @ - 1]
<1> DEFINE k == FirstFlagged(list)
<1>1. /\ k \in 0 .. Len(list)
      /\ k # 0 => list[k].flag > 0 /\ \A i \in 1 .. k - 1 : ~ (list[i].flag > 0)
      /\ k = 0 => \A i \in 1 .. Len(list) : ~ (list[i].flag > 0)
  BY FirstFlag
<1> HIDE DEF k
<1>2. Len(list) \in Nat /\ 1 \in 1 .. Len(list)
  OBVIOUS
<1>3. k # 0
  BY <1>1, <1>2
<1>4. k = 1
  <2> SUFFICES ASSUME k # 1 PROVE FALSE
    OBVIOUS
  <2>1. 1 \in 1 .. k - 1
    BY <1>1, <1>3
  <2> QED BY <1>1, <1>3, <2>1
<1>5. SubSeq(list, 1, Len(list)) = list
  OBVIOUS
<1> QED BY <1>3, <1>4, <1>5 DEF Returned, k
-----------------------------------------------------------------------------
(***************************************************************************)
(* The invariant: some sequences of different nodes, together the          *)
(* allocated ones, are what the heads and links spell.  While a return     *)
(* drops nodes, the stack begins at the cursor, and its first node may     *)
(* point back anywhere.                                                    *)
(***************************************************************************)
Reached(m, c, s, A) ==
  /\ IsMemory(m) /\ Distinct(s, A)
  /\ Linked([m EXCEPT !["stack_list"] = c], {"stack_list"}, s)

LInv ==
  /\ IsMemory(mem) /\ returning \in BOOLEAN /\ cur \in Pointers
  /\ \E s : IF returning THEN Reached(mem, cur, s, allocated) ELSE Holds(mem, s, allocated)

(* Between the calls the layout is that of the memory.                     *)
LEMMA Between ==
  ASSUME LInv, ~returning
  PROVE  \E s : Holds(mem, s, allocated)
BY DEF LInv

LEMMA HeldRecords ==
  ASSUME NEW m, NEW s, NEW A, Holds(m, s, A), NEW l \in Names
  PROVE  Records(m, m[l]) = Values(m, s)[l]
<1>1. Spelt(m.at, m[l], s[l])
  BY SpeltOut DEF Holds
<1> QED BY <1>1, RecordsSpelt DEF Values

LEMMA ShownHeld ==
  ASSUME ~returning, NEW s, Holds(mem, s, allocated)
  PROVE  Shown(Values(mem, s))
<1>1. \A l \in Names : Records(mem, mem[l]) = Values(mem, s)[l]
  BY HeldRecords
<1> QED BY <1>1 DEF Shown, HeapList, StackList, DeadList, GlobalList, Names

(* What a call leaves.                                                     *)
LEMMA CallLeaves ==
  ASSUME ~returning', cur' \in Pointers, returning' \in BOOLEAN,
         NEW t, Holds(mem', t, allocated'), NEW W, W = Values(mem', t)
  PROVE  LInv' /\ Shown(W)'
<1>1. LInv'
  BY DEF LInv, Holds
<1>2. \A l \in Names : Records(mem', mem'[l]) = W[l]
  BY HeldRecords
<1>3. Shown(W)'
  BY <1>2 DEF Shown, HeapList, StackList, DeadList, GlobalList, Names
<1> QED BY <1>1, <1>3

(* The search finds the first node that covers the address.                *)
LEMMA SearchNode ==
  ASSUME NEW s, NEW A, Holds(mem, s, A), NEW list \in Names, NEW p, NEW i,
         i = list_search(Values(mem, s)[list], p)
  PROVE  /\ i \in 0 .. Len(s[list])
         /\ i = 0 <=> list_search_node(list, p) = NULL
         /\ i # 0 => /\ i \in 1 .. Len(s[list])
                     /\ list_search_node(list, p) = s[list][i]
                     /\ Values(mem, s)[list][i] = Recorded(mem.at[s[list][i]])
<1> DEFINE q == s[list]
           v == Values(mem, s)[list]
           I == {j \in 1 .. Len(q) : Covers(mem.at[q[j]], p)}
<1>1. q \in Seq(Nodes) /\ Len(q) \in Nat /\ \A j \in 1 .. Len(q) : q[j] # NULL
  BY LaidOut, NodesAssumption DEF Holds
<1>2. v = Recs(mem, q)
  BY DEF Values
<1>3. Chain(mem, mem[list]) = q
  <2>1. Spelt(mem.at, mem[list], q)
    BY SpeltOut DEF Holds
  <2> QED BY <2>1, ChainIsSpelt
<1> HIDE DEF q, v
<1>4. Len(v) = Len(q) /\ \A j \in 1 .. Len(q) : v[j] = Recorded(mem.at[q[j]])
  BY <1>1, <1>2, RecsList
<1>5. i = IF I # {} THEN Min(I) ELSE 0
  <2>1. I = {j \in 1 .. Len(v) : Covers(v[j], p)}
    <3>1. \A c : Covers(Recorded(mem.at[c]), p) <=> Covers(mem.at[c], p)
      BY DEF Covers, Recorded
    <3>2. \A j \in 1 .. Len(q) : Covers(v[j], p) <=> Covers(mem.at[q[j]], p)
      BY <1>4, <3>1
    <3> QED BY <1>4, <3>2
  <2>2. i = list_search(v, p)
    BY DEF v
  <2> HIDE DEF I
  <2> QED BY <2>1, <2>2 DEF list_search, SelectInSeq
<1>6. SelectInSeq(q, LAMBDA c : Covers(mem.at[c], p)) = i
  BY <1>5 DEF SelectInSeq
<1>7. i \in 0 .. Len(q)
  <2>1. I \subseteq 1 .. Len(q)
    OBVIOUS
  <2> HIDE DEF I
  <2> QED BY <1>1, <1>5, <2>1, FirstPosition
<1>8. list_search_node(list, p) = IF i = 0 THEN NULL ELSE q[i]
  BY <1>3, <1>6 DEF list_search_node
<1>9. i # 0 => i \in 1 .. Len(q)
  BY <1>1, <1>7
<1> QED BY <1>1, <1>4, <1>7, <1>8, <1>9 DEF q, v
-----------------------------------------------------------------------------
(***************************************************************************)
(* The calls: each leaves the lists laid out, and does to them what        *)
(* MonitorCalls says.                                                      *)
(***************************************************************************)
LEMMA FreshCell ==
  ASSUME NEW p \in Ids, NEW n \in Sizes
  PROVE  Fresh(p, n) \in Cells /\ Recorded(Fresh(p, n)) = node_create(p, n)
BY FlagAssumption DEF Fresh, Cells, Pointers, Recorded, node_create

LEMMA MoveHolds ==
  ASSUME NEW m, NEW s, NEW A, Holds(m, s, A), NEW from \in Names, NEW to \in Names, from # to,
         NEW i, NEW n, Placed(s, from, i, n)
  PROVE  \E t : /\ Holds(move(m, n, from, to), t, A)
                /\ Moved(Values(m, s), Values(move(m, n, from, to), t), from, to, i)
<1> DEFINE d == detach_node(m, n, from)
           V == Values(m, s)
<1>1. PICK t1 : Becomes(V, from, RemoveAt(V[from], i), d, t1, A \ {n})
  <2>1. \E t : Becomes(Values(m, s), from, RemoveAt(Values(m, s)[from], i),
                       detach_node(m, n, from), t, A \ {n})
    BY DetachHolds
  <2> QED BY <2>1
<1>2. Recorded(d.at[n]) = V[from][i]
  <2>1. Keeps(m, d, n)
    BY LaidOut, DetachKeeps DEF Holds, Placed
  <2>2. V[from][i] = Recorded(m.at[n])
    BY DEF Placed, Values, Recs
  <2> HIDE DEF d, V
  <2> QED BY <2>1, <2>2 DEF Keeps
<1> HIDE DEF d, V
<1>3. n \in Nodes \ (A \ {n}) /\ (A \ {n}) \cup {n} = A
  BY LaidOut DEF Holds, Placed
<1>4. Holds(d, t1, A \ {n})
  BY <1>1 DEF Becomes
<1> DEFINE U == Values(d, t1)
           r == list_prepend(d, n, to)
<1>5. PICK t : Becomes(U, to, Cons(Recorded(d.at[n]), U[to]), r, t, (A \ {n}) \cup {n})
  BY <1>3, <1>4, PrependHolds
<1>6. move(m, n, from, to) = r
  BY DEF move, d
<1>7. Only({from}, V, U) /\ U[from] = RemoveAt(V[from], i)
  BY <1>1 DEF Becomes
<1> HIDE DEF U, r
<1>8. /\ Only({to}, U, Values(r, t)) /\ Values(r, t)[to] = Cons(V[from][i], U[to])
      /\ Holds(r, t, A)
  BY <1>2, <1>3, <1>5 DEF Becomes
<1>9. Moved(V, Values(r, t), from, to, i)
  BY <1>7, <1>8 DEF Only, Moved
<1> QED BY <1>6, <1>8, <1>9 DEF V

(* A call that leaves the lists V as W.                                    *)
Before(s, V) == Holds(mem, s, allocated) /\ V = Values(mem, s)
After(t, W) == Holds(mem', t, allocated') /\ W = Values(mem', t)

Made(m, c, list, p, n) == list_prepend([m EXCEPT !.at[c] = Fresh(p, n)], c, list)

LEMMA MadeHolds ==
  ASSUME NEW s, NEW V, Before(s, V), NEW list \in Names, NEW p \in Ids, NEW n \in Sizes,
         NEW c \in Nodes \ allocated
  PROVE  \E t : /\ Becomes(V, list, Cons(node_create(p, n), V[list]),
                           Made(mem, c, list, p, n), t, allocated \cup {c})
                /\ Preceded(t[list], c, s[list])
<1> DEFINE b == [mem EXCEPT !.at[c] = Fresh(p, n)]
<1>1. Holds(mem, s, allocated) /\ V = Values(mem, s)
  BY DEF Before
<1>2. NodeSet(mem, b, c, Fresh(p, n))
  <2>1. NodeSet(mem, [mem EXCEPT !.at = [mem.at EXCEPT ![c] = Fresh(p, n)]], c, Fresh(p, n))
    BY <1>1, FreshCell, NodeWrite DEF Holds
  <2>2. b = [mem EXCEPT !.at = [mem.at EXCEPT ![c] = Fresh(p, n)]]
    OBVIOUS
  <2> QED BY <2>1, <2>2
<1>3. Made(mem, c, list, p, n) = list_prepend(b, c, list)
  BY DEF Made
<1> HIDE DEF b
<1>4. Fresh(p, n) \in Cells /\ Recorded(Fresh(p, n)) = node_create(p, n)
  BY FreshCell
<1>5. PICK t : /\ Becomes(V, list, Cons(Recorded(Fresh(p, n)), V[list]),
                          list_prepend(b, c, list), t, allocated \cup {c})
               /\ Preceded(t[list], c, s[list])
  BY <1>1, <1>2, <1>4, CreateHolds
<1> QED BY <1>3, <1>4, <1>5

LEMMA CreateStep ==
  ASSUME NEW s, NEW V, Before(s, V), NEW list \in Names, NEW p \in Ids, NEW n \in Sizes,
         Create(list, p, n)
  PROVE  \E t, W : /\ After(t, W) /\ Only({list}, V, W)
                   /\ W[list] = Cons(node_create(p, n), V[list])
<1>1. PICK c \in Nodes \ allocated :
        mem' = Made(mem, c, list, p, n) /\ allocated' = allocated \cup {c}
  BY DEF Create, Made
<1>2. PICK t : Becomes(V, list, Cons(node_create(p, n), V[list]),
                       Made(mem, c, list, p, n), t, allocated \cup {c})
  BY MadeHolds
<1>3. Becomes(V, list, Cons(node_create(p, n), V[list]), mem', t, allocated')
  BY <1>1, <1>2
<1> QED BY <1>3 DEF Becomes, After

LEMMA AdoptStep ==
  ASSUME NEW s, NEW V, Before(s, V), NEW list \in Names, list # "deallocated_list",
         NEW p \in Ids, NEW n \in Sizes, Adopt(list, p, n)
  PROVE  \E t, W : After(t, W) /\ Adoption(V, W, list, p, n)
<1> DEFINE dead == "deallocated_list"
           i == list_search(V[dead], p)
           c == list_search_node(dead, p)
<1>0. dead \in Names
  BY DEF Names
<1>1. /\ i \in 0 .. Len(s[dead])
      /\ i = 0 <=> c = NULL
      /\ i # 0 => i \in 1 .. Len(s[dead]) /\ c = s[dead][i]
  BY <1>0, SearchNode DEF Before
<1>2. CASE c # NULL
  <2>1. mem' = move(mem, c, dead, list) /\ allocated' = allocated
    BY <1>2 DEF Adopt
  <2>2. Placed(s, dead, i, c) /\ i # 0
    BY <1>1, <1>2 DEF Placed
  <2> HIDE DEF i, c
  <2>3. PICK t : /\ Holds(move(mem, c, dead, list), t, allocated)
                 /\ Moved(V, Values(move(mem, c, dead, list), t), dead, list, i)
    BY <1>0, <2>2, MoveHolds DEF Before
  <2>4. Holds(mem', t, allocated') /\ Moved(V, Values(mem', t), dead, list, i)
    BY <2>1, <2>3
  <2>5. Adoption(V, Values(mem', t), list, p, n)
    BY <2>2, <2>4 DEF Adoption, Moved, Only, i
  <2> QED BY <2>4, <2>5 DEF After
<1>3. CASE c = NULL
  <2>1. Create(list, p, n)
    BY <1>3 DEF Adopt
  <2>2. PICK t, W : /\ After(t, W) /\ Only({list}, V, W)
                    /\ W[list] = Cons(node_create(p, n), V[list])
    BY <2>1, CreateStep
  <2>3. i = 0
    BY <1>1, <1>3
  <2>4. Only({list, dead}, V, W) /\ W[dead] = V[dead]
    BY <1>0, <2>2 DEF Only
  <2>5. Adoption(V, W, list, p, n)
    BY <2>2, <2>3, <2>4 DEF Adoption
  <2> QED BY <2>2, <2>5
<1> QED BY <1>2, <1>3
LEMMA CallFinds ==
  ASSUME LInv, Call
  PROVE  \E s, V : Before(s, V) /\ Shown(V)
<1>1. ~returning
  BY DEF Call
<1>2. PICK s : Holds(mem, s, allocated)
  BY <1>1, Between
<1>3. Shown(Values(mem, s))
  BY <1>1, <1>2, ShownHeld
<1> QED BY <1>2, <1>3 DEF Before

LEMMA CallGives ==
  ASSUME LInv, Call, NEW t, NEW W, After(t, W)
  PROVE  LInv' /\ Shown(W)'
<1>1. ~returning' /\ cur' \in Pointers /\ returning' \in BOOLEAN
  BY DEF Call, LInv
<1>2. Holds(mem', t, allocated') /\ W = Values(mem', t)
  BY DEF After
<1> QED BY <1>1, <1>2, CallLeaves

LEMMA MallocStep ==
  ASSUME LInv, NEW p \in Ids, NEW n \in Sizes, remember_malloc_calloc(p, n)
  PROVE  LInv' /\ Lists!remember_malloc_calloc(p, n)
<1>1. Call /\ p # NULL /\ list_search_node("heap_list", p) = NULL /\ Adopt("heap_list", p, n)
  BY DEF remember_malloc_calloc
<1>2. PICK s, V : Before(s, V) /\ Shown(V)
  BY <1>1, CallFinds
<1>3. "heap_list" \in Names /\ "heap_list" # "deallocated_list"
  BY DEF Names
<1>4. PICK t, W : After(t, W) /\ Adoption(V, W, "heap_list", p, n)
  BY <1>1, <1>2, <1>3, AdoptStep
<1>5. LInv' /\ Shown(W)'
  BY <1>1, <1>4, CallGives
<1>6. ~ Found(V["heap_list"], p)
  BY <1>1, <1>2, <1>3, SearchNode DEF Before, Found
<1> QED BY <1>1, <1>2, <1>4, <1>5, <1>6, AdoptionFollows

(* The size of a record changes.                                           *)
LEMMA ResizeStep ==
  ASSUME NEW s, NEW V, Before(s, V), NEW list \in Names, NEW p, NEW n \in Sizes,
         list_search_node(list, p) # NULL,
         mem' = [mem EXCEPT !.at[list_search_node(list, p)].size = n], UNCHANGED allocated
  PROVE  \E W : After(s, W) /\ Resized(V, W, list, p, n)
<1> DEFINE i == list_search(V[list], p)
           c == list_search_node(list, p)
           cell == [mem.at[c] EXCEPT !.size = n]
<1>1. Holds(mem, s, allocated) /\ V = Values(mem, s)
  BY DEF Before
<1>2. /\ i \in 1 .. Len(s[list]) /\ i # 0 /\ c = s[list][i]
      /\ V[list][i] = Recorded(mem.at[s[list][i]])
  BY <1>1, SearchNode
<1>3. Placed(s, list, i, c)
  BY <1>2 DEF Placed
<1> HIDE DEF i, c
<1>4. IsMemory(mem) /\ c \in Nodes /\ mem.at[c] \in Cells
  <2>1. Distinct(s, allocated) /\ IsMemory(mem)
    BY <1>1 DEF Holds
  <2>2. c \in Nodes
    BY <1>2, <2>1, LaidOut
  <2> QED BY <2>1, <2>2 DEF IsMemory
<1>5. /\ cell \in Cells /\ cell.next = mem.at[c].next /\ cell.prev = mem.at[c].prev
      /\ Recorded(cell) = [Recorded(mem.at[c]) EXCEPT !.size = n]
  BY <1>4 DEF Cells, Recorded
<1>6. mem' = [mem EXCEPT !.at = [mem.at EXCEPT ![c] = cell]]
  BY <1>4 DEF IsMemory, c
<1> HIDE DEF cell
<1>7. NodeSet(mem, mem', c, cell)
  <2>1. NodeSet(mem, [mem EXCEPT !.at = [mem.at EXCEPT ![c] = cell]], c, cell)
    BY <1>4, <1>5, NodeWrite
  <2> QED BY <1>6, <2>1
<1>8. Becomes(V, list, [V[list] EXCEPT ![i] = Recorded(cell)], mem', s, allocated)
  BY <1>1, <1>3, <1>5, <1>7, WriteHolds
<1>9. [V[list] EXCEPT ![i] = Recorded(cell)] = [V[list] EXCEPT ![i].size = n]
  BY <1>2, <1>3, <1>5 DEF Placed
<1> QED BY <1>2, <1>8, <1>9 DEF Becomes, After, Resized, i
(* A remember call on a list of its own, whatever it finds there.          *)
LEMMA RememberGives ==
  ASSUME LInv, NEW list \in Names, list # "deallocated_list",
         NEW p \in Ids, NEW n \in Sizes, remember(list, p, n)
  PROVE  \E V, W : /\ Shown(V) /\ LInv' /\ Shown(W)'
                   /\ \/ Resized(V, W, list, p, n)
                      \/ ~ Found(V[list], p) /\ Adoption(V, W, list, p, n)
<1> DEFINE c == list_search_node(list, p)
<1>1. /\ Call
      /\ \/ c # NULL /\ mem' = [mem EXCEPT !.at[c].size = n] /\ UNCHANGED allocated
         \/ c = NULL /\ Adopt(list, p, n)
  BY DEF remember
<1>2. PICK s, V : Before(s, V) /\ Shown(V)
  BY <1>1, CallFinds
<1>3. CASE c # NULL
  <2>1. PICK W : After(s, W) /\ Resized(V, W, list, p, n)
    BY <1>1, <1>2, <1>3, ResizeStep
  <2>2. LInv' /\ Shown(W)'
    BY <1>1, <2>1, CallGives
  <2> QED BY <1>2, <2>1, <2>2
<1>4. CASE c = NULL
  <2>1. PICK t, W : After(t, W) /\ Adoption(V, W, list, p, n)
    BY <1>1, <1>2, <1>4, AdoptStep
  <2>2. LInv' /\ Shown(W)'
    BY <1>1, <2>1, CallGives
  <2>3. ~ Found(V[list], p)
    BY <1>2, <1>4, SearchNode DEF Before, Found
  <2> QED BY <1>2, <2>1, <2>2, <2>3
<1> QED BY <1>3, <1>4

LEMMA RememberStep ==
  ASSUME LInv, NEW p \in Ids, NEW n \in Sizes
  PROVE  /\ remember("stack_list", p, n) => LInv' /\ Lists!remember(p, n)
         /\ remember("globals_list", p, n) => LInv' /\ Lists!remember_global(p, n)
<1>1. ASSUME remember("stack_list", p, n)
      PROVE  LInv' /\ Lists!remember(p, n)
  <2>1. "stack_list" \in Names /\ "stack_list" # "deallocated_list"
    BY DEF Names
  <2>2. PICK V, W : /\ Shown(V) /\ LInv' /\ Shown(W)'
                    /\ \/ Resized(V, W, "stack_list", p, n)
                       \/ ~ Found(V["stack_list"], p) /\ Adoption(V, W, "stack_list", p, n)
    BY <1>1, <2>1, RememberGives
  <2> QED BY <2>2, ResizeFollows, AdoptionFollows
<1>2. ASSUME remember("globals_list", p, n)
      PROVE  LInv' /\ Lists!remember_global(p, n)
  <2>1. "globals_list" \in Names /\ "globals_list" # "deallocated_list"
    BY DEF Names
  <2>2. PICK V, W : /\ Shown(V) /\ LInv' /\ Shown(W)'
                    /\ \/ Resized(V, W, "globals_list", p, n)
                       \/ ~ Found(V["globals_list"], p) /\ Adoption(V, W, "globals_list", p, n)
    BY <1>2, <2>1, RememberGives
  <2> QED BY <2>2, ResizeFollows, AdoptionFollows
<1> QED BY <1>1, <1>2

LEMMA FreeStep ==
  ASSUME LInv, NEW p \in Ids, free(p)
  PROVE  LInv' /\ Lists!FreeVerdict(p) = "running" /\ Lists!free(p)
<1> DEFINE heap == "heap_list"
           dead == "deallocated_list"
           c == list_search_node(heap, p)
<1>1. /\ Call /\ p # NULL /\ c # NULL /\ mem.at[c].id = p
      /\ mem' = move(mem, c, heap, dead) /\ allocated' = allocated
  BY DEF free
<1>2. PICK s, V : Before(s, V) /\ Shown(V)
  BY <1>1, CallFinds
<1> DEFINE i == list_search(V[heap], p)
<1>3. heap \in Names /\ dead \in Names /\ heap # dead
  BY DEF Names
<1>4. Placed(s, heap, i, c) /\ i # 0 /\ V[heap][i] = Recorded(mem.at[c])
  BY <1>1, <1>2, <1>3, SearchNode DEF Before, Placed
<1> HIDE DEF i, c
<1>5. PICK t : /\ Holds(move(mem, c, heap, dead), t, allocated)
               /\ Moved(V, Values(move(mem, c, heap, dead), t), heap, dead, i)
  BY <1>2, <1>3, <1>4, MoveHolds DEF Before
<1>6. PICK W : After(t, W) /\ Moved(V, W, heap, dead, i)
  BY <1>1, <1>5 DEF After
<1>7. LInv' /\ Shown(W)'
  BY <1>1, <1>6, CallGives
<1>8. V[heap][i].id = p
  BY <1>1, <1>4 DEF Recorded
<1>9. Freed(V, W, p)
  BY <1>4, <1>6, <1>8 DEF Freed, i
<1> QED BY <1>1, <1>2, <1>7, <1>9, FreeFollows
LEMMA DestroyStep ==
  ASSUME LInv, NEW p \in Ids, destroy(p)
  PROVE  LInv' /\ Lists!destroy(p)
<1> DEFINE stack == "stack_list"
           c == list_search_node(stack, p)
<1>1. /\ Call /\ c # NULL
      /\ mem' = erase(detach_node(mem, c, stack), c) /\ allocated' = allocated \ {c}
  BY DEF destroy
<1>2. PICK s, V : Before(s, V) /\ Shown(V)
  BY <1>1, CallFinds
<1> DEFINE i == list_search(V[stack], p)
<1>3. stack \in Names
  BY DEF Names
<1>4. Placed(s, stack, i, c) /\ i # 0
  BY <1>1, <1>2, <1>3, SearchNode DEF Before, Placed
<1> HIDE DEF i, c
<1>5. PICK t : Becomes(V, stack, RemoveAt(V[stack], i),
                       erase(detach_node(mem, c, stack), c), t, allocated \ {c})
  BY <1>2, <1>3, <1>4, DropHolds DEF Before
<1>6. Becomes(V, stack, RemoveAt(V[stack], i), mem', t, allocated')
  BY <1>1, <1>5
<1>7. PICK W : After(t, W) /\ Only({stack}, V, W) /\ W[stack] = RemoveAt(V[stack], i)
  BY <1>6 DEF Becomes, After
<1>8. LInv' /\ Shown(W)'
  BY <1>1, <1>7, CallGives
<1>9. Dropped(V, W, p)
  BY <1>4, <1>7 DEF Dropped, i
<1> QED BY <1>2, <1>8, <1>9, DestroyFollows

LEMMA FlagStep ==
  ASSUME LInv, set_flag
  PROVE  LInv' /\ Lists!OnStack(Lists!set_flag)
<1> DEFINE stack == "stack_list"
           c == mem.stack_list
           cell == [mem.at[c] EXCEPT !.flag = @ + 1]
<1>1. /\ Call /\ c # NULL /\ mem.at[c].flag < MaxFlag
      /\ mem' = [mem EXCEPT !.at[c].flag = @ + 1] /\ allocated' = allocated
  BY DEF set_flag
<1>2. PICK s, V : Before(s, V) /\ Shown(V)
  BY <1>1, CallFinds
<1>3. stack \in Names
  BY DEF Names
<1>4. Holds(mem, s, allocated) /\ V = Values(mem, s)
  BY <1>2 DEF Before
<1>5. Distinct(s, allocated) /\ IsMemory(mem) /\ Linked(mem, {}, s)
  BY <1>4 DEF Holds
<1>6. Placed(s, stack, 1, c)
  <2>1. Len(s[stack]) \in Nat
    BY <1>3, <1>5, LaidOut
  <2>2. c = IF Len(s[stack]) = 0 THEN NULL ELSE s[stack][1]
    BY <1>3, <1>5 DEF Linked
  <2> QED BY <1>1, <2>1, <2>2 DEF Placed
<1>7. V[stack][1] = Recorded(mem.at[c]) /\ Len(V[stack]) # 0 /\ 1 \in DOMAIN V[stack]
  BY <1>3, <1>4, <1>6 DEF Values, Recs, Placed
<1>8. c \in Nodes /\ mem.at[c] \in Cells
  BY <1>3, <1>5, <1>6, LaidOut DEF IsMemory, Placed
<1> HIDE DEF c
<1>9. /\ cell \in Cells /\ cell.next = mem.at[c].next /\ cell.prev = mem.at[c].prev
      /\ Recorded(cell) = [Recorded(mem.at[c]) EXCEPT !.flag = @ + 1]
  BY <1>1, <1>8, FlagAssumption DEF Cells, Recorded
<1>10. mem' = [mem EXCEPT !.at = [mem.at EXCEPT ![c] = cell]]
  BY <1>1, <1>5, <1>8 DEF IsMemory
<1> HIDE DEF cell
<1>11. NodeSet(mem, mem', c, cell)
  <2>1. NodeSet(mem, [mem EXCEPT !.at = [mem.at EXCEPT ![c] = cell]], c, cell)
    BY <1>5, <1>8, <1>9, NodeWrite
  <2> QED BY <1>10, <2>1
<1>12. Becomes(V, stack, [V[stack] EXCEPT ![1] = Recorded(cell)], mem', s, allocated)
  BY <1>3, <1>4, <1>6, <1>9, <1>11, WriteHolds
<1>13. [V[stack] EXCEPT ![1] = Recorded(cell)] = [V[stack] EXCEPT ![1].flag = @ + 1]
  BY <1>7, <1>9
<1>14. PICK W : /\ After(s, W) /\ Only({stack}, V, W)
                /\ W[stack] = [V[stack] EXCEPT ![1].flag = @ + 1]
  BY <1>1, <1>12, <1>13 DEF Becomes, After
<1>15. LInv' /\ Shown(W)'
  BY <1>1, <1>14, CallGives
<1>16. Flagged(V, W)
  BY <1>7, <1>14 DEF Flagged
<1> QED BY <1>2, <1>15, <1>16, FlagFollows
(* __INSTR_realloc makes the new record before it drops the old one.       *)
LEMMA ReallocGives ==
  ASSUME NEW s, NEW V, Before(s, V), NEW new \in Ids, NEW size \in Sizes, NEW p,
         list_search_node("heap_list", p) # NULL,
         NEW d \in Nodes \ allocated, NEW c, c = list_search_node("heap_list", p),
         mem' = erase(detach_node(Made(mem, d, "heap_list", new, size), c, "heap_list"), c),
         allocated' = (allocated \cup {d}) \ {c}
  PROVE  \E t, W : After(t, W) /\ Replaced(V, W, p, new, size)
<1> DEFINE heap == "heap_list"
           i == list_search(V[heap], p)
           made == Made(mem, d, heap, new, size)
           entry == Cons(node_create(new, size), V[heap])
<1>0. heap \in Names
  BY DEF Names
<1>1. Placed(s, heap, i, c) /\ i # 0
  BY <1>0, SearchNode DEF Before, Placed
<1>2. PICK t1 : /\ Becomes(V, heap, entry, made, t1, allocated \cup {d})
                /\ Preceded(t1[heap], d, s[heap])
  BY <1>0, MadeHolds
<1>3. mem' = erase(detach_node(made, c, heap), c)
  OBVIOUS
<1> HIDE DEF i, made, entry
<1>4. Placed(t1, heap, i + 1, c)
  <2>1. Len(s[heap]) \in Nat
    BY <1>0, LaidOut DEF Before, Holds
  <2>2. i \in 1 .. Len(s[heap]) /\ c = s[heap][i]
    BY <1>1 DEF Placed
  <2>3. t1[heap][i + 1] = c /\ Len(t1[heap]) = Len(s[heap]) + 1
    BY <1>2, <2>2 DEF Preceded
  <2> QED BY <2>1, <2>2, <2>3 DEF Placed
<1>5. /\ Holds(made, t1, allocated \cup {d}) /\ Only({heap}, V, Values(made, t1))
      /\ Values(made, t1)[heap] = entry
  BY <1>2 DEF Becomes
<1> DEFINE U == Values(made, t1)
<1>6. PICK t : Becomes(U, heap, RemoveAt(U[heap], i + 1),
                       erase(detach_node(made, c, heap), c), t, (allocated \cup {d}) \ {c})
  BY <1>0, <1>4, <1>5, DropHolds
<1>7. Only({heap}, V, U) /\ U[heap] = entry
  BY <1>5
<1> HIDE DEF U
<1>8. Becomes(U, heap, RemoveAt(entry, i + 1), mem', t, allocated')
  BY <1>3, <1>6, <1>7
<1>9. PICK W : After(t, W) /\ Only({heap}, U, W) /\ W[heap] = RemoveAt(entry, i + 1)
  BY <1>8 DEF Becomes, After
<1>10. Only({heap}, V, W)
  BY <1>7, <1>9 DEF Only
<1>11. Replaced(V, W, p, new, size)
  BY <1>1, <1>9, <1>10 DEF Replaced, i, entry
<1> QED BY <1>9, <1>11

LEMMA ReallocStep ==
  ASSUME LInv, NEW old \in Ids \cup {NULL}, NEW new \in Ids, NEW size \in Sizes,
         realloc(old, new, size)
  PROVE  LInv' /\ Lists!realloc(old, [id |-> new, size |-> size])
<1> DEFINE heap == "heap_list"
           c == list_search_node(heap, old)
<1>0. heap \in Names
  BY DEF Names
<1>1. /\ Call
      /\ \/ old = NULL /\ Create(heap, new, size)
         \/ /\ old # NULL /\ c # NULL
            /\ \E d \in Nodes \ allocated :
                 /\ mem' = erase(detach_node(Made(mem, d, heap, new, size), c, heap), c)
                 /\ allocated' = (allocated \cup {d}) \ {c}
  BY DEF realloc, Made
<1>2. PICK s, V : Before(s, V) /\ Shown(V)
  BY <1>1, CallFinds
<1>3. CASE old = NULL
  <2>1. PICK t, W : /\ After(t, W) /\ Only({heap}, V, W)
                    /\ W[heap] = Cons(node_create(new, size), V[heap])
    BY <1>0, <1>1, <1>2, <1>3, CreateStep
  <2>2. LInv' /\ Shown(W)'
    BY <1>1, <2>1, CallGives
  <2> QED BY <1>2, <1>3, <2>1, <2>2, ReallocFollows
<1>4. CASE old # NULL
  <2>1. PICK t, W : After(t, W) /\ Replaced(V, W, old, new, size)
    BY <1>1, <1>2, <1>4, ReallocGives
  <2>2. LInv' /\ Shown(W)'
    BY <1>1, <2>1, CallGives
  <2> QED BY <1>2, <1>4, <2>1, <2>2, ReallocFollows
<1> QED BY <1>3, <1>4
-----------------------------------------------------------------------------
(***************************************************************************)
(* The rounds of a return.                                                 *)
(***************************************************************************)
LEMMA ReturnFinds ==
  ASSUME LInv, returning
  PROVE  \E s : Reached(mem, cur, s, allocated)
BY DEF LInv

(* The links of a memory whose stack begins at c.                          *)
LEMMA ReachedLinks ==
  ASSUME NEW m, NEW c, NEW s, NEW A, Reached(m, c, s, A)
  PROVE  /\ IsMemory(m) /\ Distinct(s, A)
         /\ \A l \in Names :
              /\ (IF l = "stack_list" THEN c ELSE m[l]) = IF Len(s[l]) = 0 THEN NULL ELSE s[l][1]
              /\ \A i \in 1 .. Len(s[l]) :
                   /\ m.at[s[l][i]].next = IF i = Len(s[l]) THEN NULL ELSE s[l][i + 1]
                   /\ \/ m.at[s[l][i]].prev = IF i = 1 THEN NULL ELSE s[l][i - 1]
                      \/ i = 1 /\ l = "stack_list"
<1> DEFINE r == [m EXCEPT !["stack_list"] = c]
<1>1. IsMemory(m) /\ Distinct(s, A) /\ Linked(r, {"stack_list"}, s)
  BY DEF Reached
<1>2. "stack_list" \in Names
  BY DEF Names
<1>3. r.at = m.at /\ \A l \in Names : r[l] = IF l = "stack_list" THEN c ELSE m[l]
  BY <1>1, <1>2, NamesApart DEF IsMemory
<1> HIDE DEF r
<1> QED BY SMTT(30), <1>1, <1>3 DEF Linked

LEMMA ReachedRecords ==
  ASSUME NEW m, NEW c, NEW s, NEW A, Reached(m, c, s, A)
  PROVE  /\ Records(m, c) = Recs(m, s["stack_list"])
         /\ \A l \in Names \ {"stack_list"} : Records(m, m[l]) = Recs(m, s[l])
<1> DEFINE First0(l) == IF l = "stack_list" THEN c ELSE m[l]
<1>1. ASSUME NEW l \in Names PROVE Records(m, First0(l)) = Recs(m, s[l])
  <2>1. Spelt(m.at, First0(l), s[l])
    BY ReachedLinks DEF Spelt, Distinct
  <2> HIDE DEF First0
  <2> QED BY <2>1, RecordsSpelt
<1>2. "stack_list" \in Names
  BY DEF Names
<1>3. Records(m, First0("stack_list")) = Recs(m, s["stack_list"])
  BY <1>1, <1>2
<1> QED BY <1>1, <1>3

LEMMA ReturnBegins ==
  ASSUME LInv, destroy_allocas
  PROVE  LInv' /\ Lists!OnStack(Lists!destroy_allocas)
<1>1. ~returning /\ returning' = TRUE /\ cur' = mem.stack_list /\ mem' = mem /\ allocated' = allocated
  BY DEF destroy_allocas
<1>2. PICK s : Holds(mem, s, allocated)
  BY <1>1, Between
<1>3. "stack_list" \in Names /\ IsMemory(mem)
  BY <1>2 DEF Names, Holds
<1>4. [mem EXCEPT !["stack_list"] = mem.stack_list] = mem
  BY <1>3 DEF IsMemory
<1>5. Linked(mem, {"stack_list"}, s)
  BY <1>2 DEF Holds, Linked
<1>6. Reached(mem, mem.stack_list, s, allocated)
  BY <1>2, <1>4, <1>5 DEF Holds, Reached
<1>7. LInv'
  <2>1. mem.stack_list \in Pointers
    BY <1>3 DEF IsMemory
  <2> QED BY <1>1, <1>3, <1>6, <2>1 DEF LInv
<1>8. StackList = Records(mem, mem.stack_list)
  BY <1>1 DEF StackList
<1>9. StackList' = Returned(Records(mem, mem.stack_list))
  BY <1>1, ReturnTerms DEF StackList
<1>10. HeapList' = HeapList /\ DeadList' = DeadList /\ GlobalList' = GlobalList
  BY <1>1 DEF HeapList, DeadList, GlobalList
<1>11. StackList' = Lists!destroy_allocas
  BY <1>8, <1>9, ReturnTerms
<1>12. Lists!OnStack(Lists!destroy_allocas)
  BY <1>10, <1>11 DEF Lists!OnStack, HeapList, StackList, DeadList, GlobalList
<1> QED BY <1>7, <1>12
(* The lists as they are seen while nodes are dropped.                     *)
LEMMA ReturnShown ==
  ASSUME returning = TRUE, NEW s, Reached(mem, cur, s, allocated)
  PROVE  /\ StackList = Returned(Recs(mem, s["stack_list"]))
         /\ HeapList = Recs(mem, s["heap_list"])
         /\ DeadList = Recs(mem, s["deallocated_list"])
         /\ GlobalList = Recs(mem, s["globals_list"])
BY ReachedRecords, ReturnTerms DEF StackList, HeapList, DeadList, GlobalList, Names

LEMMA ReturnShownNext ==
  ASSUME returning' = TRUE, NEW s, Reached(mem', cur', s, allocated')
  PROVE  /\ StackList' = Returned(Recs(mem', s["stack_list"]))
         /\ HeapList' = Recs(mem', s["heap_list"])
         /\ DeadList' = Recs(mem', s["deallocated_list"])
         /\ GlobalList' = Recs(mem', s["globals_list"])
BY ReachedRecords, ReturnTerms DEF StackList, HeapList, DeadList, GlobalList, Names

(* The first node is dropped.                                              *)
LEMMA DropReaches ==
  ASSUME NEW m, NEW c, c # NULL, NEW s, NEW A, Reached(m, c, s, A)
  PROVE  \E t : /\ Reached(erase(m, c), m.at[c].next, t, A \ {c})
                /\ Preceded(s["stack_list"], c, t["stack_list"])
                /\ Elsewhere(t, s, "stack_list")
<1> DEFINE stack == "stack_list"
           t == [s EXCEPT ![stack] = RemoveAt(s[stack], 1)]
           r == erase(m, c)
           next == m.at[c].next
           u == [r EXCEPT ![stack] = next]
<1>0. stack \in Names
  BY DEF Names
<1>1. /\ IsMemory(m) /\ Distinct(s, A)
      /\ \A l \in Names :
           /\ (IF l = "stack_list" THEN c ELSE m[l]) = IF Len(s[l]) = 0 THEN NULL ELSE s[l][1]
           /\ \A i \in 1 .. Len(s[l]) :
                /\ m.at[s[l][i]].next = IF i = Len(s[l]) THEN NULL ELSE s[l][i + 1]
                /\ \/ m.at[s[l][i]].prev = IF i = 1 THEN NULL ELSE s[l][i - 1]
                   \/ i = 1 /\ l = "stack_list"
  BY ReachedLinks
<1>2. /\ \A l \in Names : s[l] \in Seq(Nodes) /\ Len(s[l]) \in Nat
      /\ \A l \in Names : \A i \in 1 .. Len(s[l]) : s[l][i] \in A /\ s[l][i] \in Nodes
      /\ \A k, l \in Names : \A i \in 1 .. Len(s[k]), j \in 1 .. Len(s[l]) :
           s[k][i] = s[l][j] => k = l /\ i = j
  BY <1>1, LaidOut
<1>3. Len(s[stack]) # 0 /\ 1 \in 1 .. Len(s[stack]) /\ c = s[stack][1] /\ c \in Nodes
  BY <1>0, <1>1, <1>2
<1>4. LeftOut(t, s, stack, 1)
  BY DEF LeftOut
<1> HIDE DEF t
<1>5. Distinct(t, A \ {c}) /\ Skipped(t[stack], s[stack], 1) /\ Elsewhere(t, s, stack)
  BY <1>0, <1>1, <1>3, <1>4, RemoveDistinct
<1>6. /\ Len(t[stack]) = Len(s[stack]) - 1 /\ Len(t[stack]) \in Nat
      /\ \A j \in 1 .. Len(t[stack]) : t[stack][j] = s[stack][j + 1] /\ j + 1 \in 1 .. Len(s[stack])
  <2>1. Len(t[stack]) = Len(s[stack]) - 1
    BY <1>5 DEF Skipped
  <2>2. ASSUME NEW j \in 1 .. Len(t[stack])
        PROVE  t[stack][j] = s[stack][j + 1] /\ j + 1 \in 1 .. Len(s[stack])
    <3>1. ~ (j < 1) /\ j + 1 \in 1 .. Len(s[stack])
      BY <1>0, <1>2, <1>3, <2>1
    <3> QED BY <1>5, <3>1 DEF Skipped
  <2> QED BY <1>0, <1>2, <1>3, <2>1, <2>2
<1>7. NodeSet(m, r, c, Scrap) /\ next \in Pointers
  <2>1. Scrap \in Cells /\ m.at[c] \in Cells
    BY <1>1, <1>3, FlagAssumption DEF Scrap, Fresh, Cells, Pointers, IsMemory
  <2>2. NodeSet(m, [m EXCEPT !.at = [m.at EXCEPT ![c] = Scrap]], c, Scrap)
    BY <1>1, <1>3, <2>1, NodeWrite
  <2>3. r = [m EXCEPT !.at = [m.at EXCEPT ![c] = Scrap]]
    BY DEF erase
  <2> QED BY <2>1, <2>2, <2>3 DEF Cells
<1> HIDE DEF r, next
<1>8. HeadSet(r, u, stack, next)
  BY <1>0, <1>7, HeadWrite DEF NodeSet
<1> HIDE DEF u
<1>9. /\ \A d \in Nodes \ {c} : u.at[d] = m.at[d]
      /\ \A l \in Names \ {stack} : u[l] = m[l] /\ t[l] = s[l]
      /\ u[stack] = next
  BY <1>5, <1>7, <1>8 DEF NodeSet, HeadSet, Elsewhere
<1>10. next = IF Len(s[stack]) = 1 THEN NULL ELSE s[stack][2]
  <2>1. m.at[s[stack][1]].next = IF 1 = Len(s[stack]) THEN NULL ELSE s[stack][1 + 1]
    BY <1>0, <1>1, <1>3
  <2> QED BY <1>3, <2>1 DEF next
<1>11. ASSUME NEW l \in Names, l # stack
       PROVE  /\ u[l] = IF Len(t[l]) = 0 THEN NULL ELSE t[l][1]
              /\ \A i \in 1 .. Len(t[l]) :
                   /\ u.at[t[l][i]].next = IF i = Len(t[l]) THEN NULL ELSE t[l][i + 1]
                   /\ u.at[t[l][i]].prev = IF i = 1 THEN NULL ELSE t[l][i - 1]
  <2>1. \A i \in 1 .. Len(s[l]) : u.at[s[l][i]] = m.at[s[l][i]]
    BY <1>0, <1>2, <1>3, <1>9, <1>11
  <2>2. u[l] = m[l] /\ t[l] = s[l]
    BY <1>9, <1>11
  <2>3. m[l] = IF Len(s[l]) = 0 THEN NULL ELSE s[l][1]
    BY <1>1, <1>11
  <2>4. ASSUME NEW i \in 1 .. Len(s[l])
        PROVE  /\ m.at[s[l][i]].next = IF i = Len(s[l]) THEN NULL ELSE s[l][i + 1]
               /\ m.at[s[l][i]].prev = IF i = 1 THEN NULL ELSE s[l][i - 1]
    BY <1>1, <1>11
  <2>5. ASSUME NEW i \in 1 .. Len(t[l])
        PROVE  /\ u.at[t[l][i]].next = IF i = Len(t[l]) THEN NULL ELSE t[l][i + 1]
               /\ u.at[t[l][i]].prev = IF i = 1 THEN NULL ELSE t[l][i - 1]
    <3>1. i \in 1 .. Len(s[l])
      BY <2>2
    <3>2. u.at[s[l][i]] = m.at[s[l][i]]
      BY <2>1, <3>1
    <3> QED BY <2>2, <2>4, <3>1, <3>2
  <2> QED BY <2>2, <2>3, <2>5
<1>12. u[stack] = IF Len(t[stack]) = 0 THEN NULL ELSE t[stack][1]
  <2>1. CASE Len(s[stack]) = 1
    BY <1>6, <1>9, <1>10, <2>1
  <2>2. CASE Len(s[stack]) # 1
    <3>0. Len(s[stack]) \in Nat
      BY <1>0, <1>2
    <3>1. 1 \in 1 .. Len(t[stack]) /\ Len(t[stack]) # 0
      <4>1. Len(t[stack]) = Len(s[stack]) - 1 /\ Len(s[stack]) # 0
        BY <1>3, <1>6
      <4>2. \A x \in Nat : \A y : x # 0 /\ x # 1 /\ y = x - 1 => 1 \in 1 .. y /\ y # 0
        OBVIOUS
      <4> QED BY <2>2, <3>0, <4>1, <4>2
    <3>2. t[stack][1] = s[stack][1 + 1]
      BY <1>6, <3>1
    <3> QED BY <1>9, <1>10, <2>2, <3>1, <3>2
  <2> QED BY <2>1, <2>2
<1>13. ASSUME NEW i \in 1 .. Len(t[stack])
       PROVE  /\ u.at[t[stack][i]].next = IF i = Len(t[stack]) THEN NULL ELSE t[stack][i + 1]
              /\ \/ u.at[t[stack][i]].prev = IF i = 1 THEN NULL ELSE t[stack][i - 1]
                 \/ i = 1
  <2> DEFINE d == s[stack][i + 1]
  <2>1. /\ t[stack][i] = d /\ i + 1 \in 1 .. Len(s[stack]) /\ i + 1 # 1 /\ (i + 1) - 1 = i
        /\ i \in 1 .. Len(s[stack])
    BY <1>6
  <2>2. d \in Nodes /\ d # c
    BY <1>0, <1>2, <1>3, <2>1
  <2>3. /\ m.at[d].next = IF i + 1 = Len(s[stack]) THEN NULL ELSE s[stack][(i + 1) + 1]
        /\ m.at[d].prev = s[stack][i]
           \/ m.at[d].prev = IF i + 1 = 1 THEN NULL ELSE s[stack][(i + 1) - 1]
    BY <1>0, <1>1, <2>1
  <2>4. m.at[d].prev = s[stack][i]
    BY <2>1, <2>3
  <2> HIDE DEF d
  <2>5. u.at[d] = m.at[d]
    BY <1>9, <2>2
  <2>6. u.at[t[stack][i]].next = IF i = Len(t[stack]) THEN NULL ELSE t[stack][i + 1]
    <3>1. CASE i = Len(t[stack])
      <4>1. i + 1 = Len(s[stack])
        BY <1>0, <1>2, <1>6, <3>1
      <4> QED BY <2>1, <2>3, <2>5, <3>1, <4>1
    <3>2. CASE i # Len(t[stack])
      <4>1. i + 1 # Len(s[stack]) /\ i + 1 \in 1 .. Len(t[stack])
        BY <1>0, <1>2, <1>6, <3>2
      <4>2. t[stack][i + 1] = s[stack][(i + 1) + 1]
        BY <1>6, <4>1
      <4> QED BY <2>1, <2>3, <2>5, <3>2, <4>1, <4>2
    <3> QED BY <3>1, <3>2
  <2>7. i # 1 => u.at[t[stack][i]].prev = t[stack][i - 1]
    <3> SUFFICES ASSUME i # 1 PROVE u.at[t[stack][i]].prev = t[stack][i - 1]
      OBVIOUS
    <3>1. i - 1 \in 1 .. Len(t[stack]) /\ (i - 1) + 1 = i
      BY <1>6
    <3>2. t[stack][i - 1] = s[stack][i]
      BY <1>6, <3>1
    <3> QED BY <2>1, <2>4, <2>5, <3>2
  <2> QED BY <2>6, <2>7
<1>14. Linked(u, {stack}, t)
  BY SMTT(30), <1>11, <1>12, <1>13 DEF Linked
<1>15. Reached(r, next, t, A \ {c})
  BY <1>5, <1>7, <1>14 DEF Reached, NodeSet, u
<1>16. Preceded(s[stack], c, t[stack])
  <2>1. Len(s[stack]) = Len(t[stack]) + 1
    BY <1>0, <1>2, <1>6
  <2> QED BY <1>3, <1>6, <2>1 DEF Preceded
<1> QED BY <1>5, <1>15, <1>16 DEF r, next
(* Nothing is seen of it.                                                  *)
Unseen == /\ HeapList' = HeapList /\ StackList' = StackList
          /\ DeadList' = DeadList /\ GlobalList' = GlobalList

LEMMA DropStep ==
  ASSUME LInv, DropNode
  PROVE  LInv' /\ Unseen
<1> DEFINE stack == "stack_list"
<1>1. /\ returning = TRUE /\ returning' = TRUE /\ cur # NULL /\ mem.at[cur].flag = 0
      /\ cur' = mem.at[cur].next /\ mem' = erase(mem, cur) /\ allocated' = allocated \ {cur}
  BY DEF DropNode, LInv
<1>2. PICK s : Reached(mem, cur, s, allocated)
  BY <1>1, ReturnFinds
<1>3. PICK t : /\ Reached(erase(mem, cur), mem.at[cur].next, t, allocated \ {cur})
               /\ Preceded(s["stack_list"], cur, t["stack_list"])
               /\ Elsewhere(t, s, "stack_list")
  BY <1>1, <1>2, DropReaches
<1>4. Reached(mem', cur', t, allocated')
  BY <1>1, <1>3
<1>5. /\ IsMemory(mem) /\ Distinct(s, allocated) /\ IsMemory(mem') /\ Distinct(t, allocated')
  BY <1>2, <1>4 DEF Reached
<1>6. cur \in Nodes /\ cur' \in Pointers
  <2>1. cur \in Nodes
    BY <1>1 DEF LInv, Pointers
  <2> QED BY <1>1, <1>5, <2>1 DEF IsMemory, Cells
<1>7. LInv'
  BY <1>1, <1>4, <1>5, <1>6 DEF LInv
<1>8. ASSUME NEW c \in allocated', c \in Nodes
      PROVE  Recorded(mem'.at[c]) = Recorded(mem.at[c])
  <2>1. c # cur
    BY <1>1, <1>8
  <2> QED BY <1>1, <1>5, <1>8, <2>1 DEF erase, IsMemory
<1>9. ASSUME NEW l \in Names PROVE SameRecs(mem, mem', t[l]) /\ t[l] \in Seq(Nodes)
  BY <1>5, <1>8, LaidOut DEF SameRecs
<1>10. ASSUME NEW l \in Names PROVE Recs(mem', t[l]) = Recs(mem, t[l])
  BY <1>9, RecsSame
<1>11. \A l \in Names \ {stack} : Recs(mem', t[l]) = Recs(mem, s[l])
  BY <1>3, <1>10 DEF Elsewhere
<1>12. Returned(Recs(mem', t[stack])) = Returned(Recs(mem, s[stack]))
  <2> DEFINE S == {Recorded(mem.at[c]) : c \in Nodes}
             list == Recs(mem, s[stack])
             rest == Recs(mem, t[stack])
             x == Recorded(mem.at[cur])
  <2>0. stack \in Names
    BY DEF Names
  <2>1. s[stack] \in Seq(Nodes) /\ t[stack] \in Seq(Nodes)
    BY <1>5, <2>0, LaidOut
  <2>2. list \in Seq(S) /\ rest \in Seq(S)
    BY <2>1, RecsList
  <2>3. list = Cons(x, rest)
    <3>1. SameRecs(mem, mem, t[stack])
      BY DEF SameRecs
    <3> QED BY <1>3, <1>6, <2>1, <3>1, RecsCons
  <2>4. x \in S
    BY <1>6
  <2>5. ~ (x.flag > 0)
    BY <1>1 DEF Recorded
  <2> HIDE DEF S, list, rest, x
  <2>6. Preceded(list, x, rest)
    BY <2>2, <2>3, <2>4, ConsSeq
  <2>7. Returned(list) = Returned(rest)
    BY <2>2, <2>5, <2>6, ReturnedSkips
  <2> QED BY <1>10, <2>0, <2>7 DEF list, rest
<1>13. /\ StackList' = StackList /\ HeapList' = HeapList
       /\ DeadList' = DeadList /\ GlobalList' = GlobalList
  <2>1. /\ StackList = Returned(Recs(mem, s["stack_list"]))
        /\ HeapList = Recs(mem, s["heap_list"])
        /\ DeadList = Recs(mem, s["deallocated_list"])
        /\ GlobalList = Recs(mem, s["globals_list"])
    BY <1>1, <1>2, ReturnShown
  <2>2. /\ StackList' = Returned(Recs(mem', t["stack_list"]))
        /\ HeapList' = Recs(mem', t["heap_list"])
        /\ DeadList' = Recs(mem', t["deallocated_list"])
        /\ GlobalList' = Recs(mem', t["globals_list"])
    BY <1>1, <1>4, ReturnShownNext
  <2> QED BY <1>11, <1>12, <2>1, <2>2 DEF Names
<1> QED BY <1>7, <1>13 DEF Unseen
(* The stack is made to begin at c, which points back no more.             *)
Closes(m, r, c, A) ==
  /\ IsMemory(r) /\ r["stack_list"] = c
  /\ \A l \in Names \ {"stack_list"} : r[l] = m[l]
  /\ \A d \in A : /\ r.at[d].next = m.at[d].next
                  /\ r.at[d].prev = IF d = c THEN NULL ELSE m.at[d].prev

LEMMA ClosesHolds ==
  ASSUME NEW m, NEW c, NEW s, NEW A, Reached(m, c, s, A), NEW r, Closes(m, r, c, A)
  PROVE  Holds(r, s, A)
<1> DEFINE stack == "stack_list"
<1>0. stack \in Names
  BY DEF Names
<1>1. /\ IsMemory(m) /\ Distinct(s, A)
      /\ \A l \in Names :
           /\ (IF l = "stack_list" THEN c ELSE m[l]) = IF Len(s[l]) = 0 THEN NULL ELSE s[l][1]
           /\ \A i \in 1 .. Len(s[l]) :
                /\ m.at[s[l][i]].next = IF i = Len(s[l]) THEN NULL ELSE s[l][i + 1]
                /\ \/ m.at[s[l][i]].prev = IF i = 1 THEN NULL ELSE s[l][i - 1]
                   \/ i = 1 /\ l = "stack_list"
  BY ReachedLinks
<1>2. /\ \A l \in Names : s[l] \in Seq(Nodes) /\ Len(s[l]) \in Nat
      /\ \A l \in Names : \A i \in 1 .. Len(s[l]) : s[l][i] \in A /\ s[l][i] \in Nodes
      /\ \A k, l \in Names : \A i \in 1 .. Len(s[k]), j \in 1 .. Len(s[l]) :
           s[k][i] = s[l][j] => k = l /\ i = j
  BY <1>1, LaidOut
<1>3. c = IF Len(s[stack]) = 0 THEN NULL ELSE s[stack][1]
  BY <1>0, <1>1
<1>4. ASSUME NEW l \in Names
      PROVE  r[l] = IF Len(s[l]) = 0 THEN NULL ELSE s[l][1]
  BY <1>1, <1>3 DEF Closes
<1>5. ASSUME NEW l \in Names, NEW i \in 1 .. Len(s[l])
      PROVE  /\ r.at[s[l][i]].next = IF i = Len(s[l]) THEN NULL ELSE s[l][i + 1]
             /\ r.at[s[l][i]].prev = IF i = 1 THEN NULL ELSE s[l][i - 1]
  <2> DEFINE d == s[l][i]
  <2>1. /\ m.at[d].next = IF i = Len(s[l]) THEN NULL ELSE s[l][i + 1]
        /\ \/ m.at[d].prev = IF i = 1 THEN NULL ELSE s[l][i - 1]
           \/ i = 1 /\ l = "stack_list"
    BY <1>1
  <2>2. d \in A /\ d # NULL
    BY <1>2, NodesAssumption
  <2>3. d = c <=> l = stack /\ i = 1
    <3>1. CASE Len(s[stack]) = 0
      <4>1. d # c
        BY <1>3, <2>2, <3>1
      <4>2. l # stack
        BY <3>1
      <4> QED BY <4>1, <4>2
    <3>2. CASE Len(s[stack]) # 0
      <4>1. c = s[stack][1] /\ 1 \in 1 .. Len(s[stack])
        BY <1>0, <1>2, <1>3, <3>2
      <4> QED BY <1>0, <1>2, <4>1
    <3> QED BY <3>1, <3>2
  <2> HIDE DEF d
  <2>4. r.at[d].next = m.at[d].next /\ r.at[d].prev = IF d = c THEN NULL ELSE m.at[d].prev
    BY <2>2 DEF Closes
  <2>5. r.at[d].prev = IF i = 1 THEN NULL ELSE s[l][i - 1]
    BY <2>1, <2>3, <2>4
  <2> QED BY <2>1, <2>4, <2>5 DEF d
<1>6. Linked(r, {}, s)
  BY <1>4, <1>5 DEF Linked
<1> QED BY <1>1, <1>6 DEF Holds, Closes

LEMMA ReturnEnds ==
  ASSUME returning' = FALSE, cur' \in Pointers, NEW s, Holds(mem', s, allocated')
  PROVE  /\ LInv'
         /\ StackList' = Recs(mem', s["stack_list"])
         /\ HeapList' = Recs(mem', s["heap_list"])
         /\ DeadList' = Recs(mem', s["deallocated_list"])
         /\ GlobalList' = Recs(mem', s["globals_list"])
<1>1. LInv'
  BY DEF LInv, Holds
<1>2. \A l \in Names : Records(mem', mem'[l]) = Recs(mem', s[l])
  BY HeldRecords DEF Values
<1> QED BY <1>1, <1>2 DEF StackList, HeapList, DeadList, GlobalList, Names

LEMMA NoneStep ==
  ASSUME LInv, NoneLeft
  PROVE  LInv' /\ Unseen
<1> DEFINE stack == "stack_list"
<1>1. /\ returning = TRUE /\ returning' = FALSE /\ cur = NULL /\ cur' = cur
      /\ mem' = [mem EXCEPT !["stack_list"] = NULL] /\ allocated' = allocated
  BY DEF NoneLeft, LInv
<1>2. PICK s : Reached(mem, cur, s, allocated)
  BY <1>1, ReturnFinds
<1>3. IsMemory(mem) /\ Distinct(s, allocated) /\ stack \in Names /\ NULL \in Pointers
  BY <1>2 DEF Reached, Names, Pointers
<1>4. HeadSet(mem, mem', stack, NULL)
  <2>1. HeadSet(mem, [mem EXCEPT ![stack] = NULL], stack, NULL)
    BY <1>3, HeadWrite
  <2> QED BY <1>1, <2>1
<1>5. \A d \in allocated : d \in Nodes /\ d # NULL
  BY <1>3, LaidOut, NodesAssumption
<1>6. Closes(mem, mem', cur, allocated)
  BY <1>1, <1>4, <1>5 DEF Closes, HeadSet
<1>7. Holds(mem', s, allocated')
  BY <1>1, <1>2, <1>6, ClosesHolds
<1>8. s[stack] = <<>>
  <2>1. /\ cur = IF Len(s[stack]) = 0 THEN NULL ELSE s[stack][1]
        /\ s[stack] \in Seq(Nodes)
    BY <1>2, <1>3, ReachedLinks, LaidOut
  <2> QED BY <1>1, <2>1, NodesAssumption
<1>9. \A l \in Names : Recs(mem', s[l]) = Recs(mem, s[l])
  BY <1>4 DEF HeadSet, Recs
<1>10. Recs(mem, s[stack]) = <<>>
  BY <1>8 DEF Recs
<1>11. /\ LInv'
       /\ StackList' = Recs(mem', s["stack_list"])
       /\ HeapList' = Recs(mem', s["heap_list"])
       /\ DeadList' = Recs(mem', s["deallocated_list"])
       /\ GlobalList' = Recs(mem', s["globals_list"])
  <2>1. returning' = FALSE /\ cur' \in Pointers
    BY <1>1, <1>3
  <2> QED BY <1>7, <2>1, ReturnEnds
<1>12. /\ StackList = Returned(Recs(mem, s["stack_list"]))
       /\ HeapList = Recs(mem, s["heap_list"])
       /\ DeadList = Recs(mem, s["deallocated_list"])
       /\ GlobalList = Recs(mem, s["globals_list"])
  BY <1>1, <1>2, ReturnShown
<1>13. Returned(Recs(mem, s[stack])) = Recs(mem', s[stack])
  BY <1>3, <1>9, <1>10, ReturnedNone
<1> QED BY <1>9, <1>11, <1>12, <1>13 DEF Names, Unseen

LEMMA LowerStep ==
  ASSUME LInv, LowerFlag
  PROVE  LInv' /\ Unseen
<1> DEFINE stack == "stack_list"
           cell == [mem.at[cur] EXCEPT !.flag = @ - 1, !.prev = NULL]
           b == [mem EXCEPT !.at = [mem.at EXCEPT ![cur] = cell]]
<1>1. /\ returning = TRUE /\ returning' = FALSE /\ cur # NULL /\ cur' = NULL
      /\ mem.at[cur].flag > 0 /\ allocated' = allocated
      /\ mem' = [mem EXCEPT !.at[cur].flag = @ - 1, !.at[cur].prev = NULL, !.stack_list = cur]
  BY DEF LowerFlag, LInv
<1>2. PICK s : Reached(mem, cur, s, allocated)
  BY <1>1, ReturnFinds
<1>3. /\ IsMemory(mem) /\ Distinct(s, allocated) /\ stack \in Names /\ NULL \in Pointers
      /\ cur \in Pointers /\ cur \in Nodes /\ mem.at[cur] \in Cells
  <2>1. cur \in Pointers /\ cur \in Nodes
    BY <1>1 DEF LInv, Pointers
  <2> QED BY <1>2, <2>1 DEF Reached, Names, Pointers, IsMemory
<1>4. /\ cell \in Cells /\ cell.next = mem.at[cur].next /\ cell.prev = NULL
      /\ Recorded(cell) = [Recorded(mem.at[cur]) EXCEPT !.flag = @ - 1]
  <2> DEFINE o == mem.at[cur]
  <2>1. o \in Cells /\ o.flag \in 0 .. MaxFlag /\ o.flag - 1 \in 0 .. MaxFlag
    BY <1>1, <1>3, FlagAssumption DEF Cells
  <2> HIDE DEF o
  <2>2. cell = [o EXCEPT !.flag = o.flag - 1, !.prev = NULL]
    BY DEF o
  <2>3. cell \in Cells /\ cell.next = o.next /\ cell.prev = NULL
    BY <1>3, <2>1, <2>2 DEF Cells
  <2>4. Recorded(cell) = [Recorded(o) EXCEPT !.flag = o.flag - 1]
    <3>1. cell.id = o.id /\ cell.size = o.size /\ cell.flag = o.flag - 1
      BY <2>1, <2>2 DEF Cells
    <3> HIDE DEF cell
    <3> QED BY <3>1 DEF Recorded
  <2>5. Recorded(o).flag = o.flag
    BY DEF Recorded
  <2> QED BY <2>3, <2>4, <2>5 DEF o
<1>5. mem' = [b EXCEPT ![stack] = cur]
  BY <1>1, <1>3 DEF IsMemory, Names
<1> HIDE DEF cell
<1>6. NodeSet(mem, b, cur, cell)
  BY <1>3, <1>4, NodeWrite
<1> HIDE DEF b
<1>7. HeadSet(b, mem', stack, cur)
  <2>1. HeadSet(b, [b EXCEPT ![stack] = cur], stack, cur)
    BY <1>3, <1>6, HeadWrite DEF NodeSet
  <2> QED BY <1>5, <2>1
<1>8. /\ IsMemory(mem') /\ mem'[stack] = cur
      /\ \A l \in Names \ {stack} : mem'[l] = mem[l]
      /\ mem'.at[cur] = cell
      /\ \A d \in Nodes \ {cur} : mem'.at[d] = mem.at[d]
  BY <1>6, <1>7 DEF NodeSet, HeadSet
<1>9. Closes(mem, mem', cur, allocated)
  <2>1. \A d \in allocated : d \in Nodes
    BY <1>3, LaidOut
  <2> QED BY <1>4, <1>8, <2>1 DEF Closes
<1>10. Holds(mem', s, allocated')
  BY <1>1, <1>2, <1>9, ClosesHolds
<1>11. /\ s[stack] \in Seq(Nodes) /\ Len(s[stack]) # 0 /\ s[stack][1] = cur
       /\ 1 \in 1 .. Len(s[stack])
  <2>1. /\ cur = IF Len(s[stack]) = 0 THEN NULL ELSE s[stack][1]
        /\ s[stack] \in Seq(Nodes) /\ Len(s[stack]) \in Nat
    BY <1>2, <1>3, ReachedLinks, LaidOut
  <2> QED BY <1>1, <2>1
<1>12. /\ \A l \in Names : \A i \in 1 .. Len(s[l]) :
            s[l][i] \in Nodes /\ (s[l][i] = cur <=> l = stack /\ i = 1)
       /\ \A l \in Names : s[l] \in Seq(Nodes)
  BY <1>3, <1>11, LaidOut
<1>13. ASSUME NEW l \in Names, l # stack PROVE Recs(mem', s[l]) = Recs(mem, s[l])
  <2>1. SameRecs(mem, mem', s[l])
    BY <1>8, <1>12, <1>13 DEF SameRecs
  <2> QED BY <1>12, <2>1, RecsSame
<1>14. Recs(mem', s[stack]) = Returned(Recs(mem, s[stack]))
  <2> DEFINE q == s[stack]
             v == Recs(mem, q)
             S == {Recorded(mem.at[c]) : c \in Nodes}
  <2>1. v \in Seq(S) /\ Len(v) = Len(q) /\ \A i \in 1 .. Len(q) : v[i] = Recorded(mem.at[q[i]])
    BY <1>11, RecsList
  <2>2. \A i \in 1 .. Len(q) : q[i] \in Nodes /\ (q[i] = cur <=> i = 1)
    BY <1>3, <1>12
  <2> HIDE DEF q
  <2>3. \A i \in 1 .. Len(q) :
          Recorded(mem'.at[q[i]]) = IF i = 1 THEN Recorded(cell) ELSE Recorded(mem.at[q[i]])
    BY <1>8, <2>2
  <2>4. Recs(mem', q) = [v EXCEPT ![1] = Recorded(cell)]
    BY <2>3 DEF Recs
  <2> HIDE DEF v, S
  <2>5. Len(v) # 0 /\ v[1] = Recorded(mem.at[cur]) /\ v[1].flag > 0 /\ 1 \in DOMAIN v
    <3>1. v[1] = Recorded(mem.at[cur]) /\ Len(v) # 0 /\ 1 \in DOMAIN v
      BY <1>11, <2>1 DEF q
    <3> QED BY <1>1, <3>1 DEF Recorded
  <2>6. [v EXCEPT ![1] = Recorded(cell)] = [v EXCEPT ![1].flag = @ - 1]
    BY <1>4, <2>5
  <2>7. Returned(v) = [v EXCEPT ![1].flag = @ - 1]
    BY <2>1, <2>5, ReturnedLowers
  <2> QED BY <2>4, <2>6, <2>7 DEF v, q
<1>15. /\ LInv'
       /\ StackList' = Recs(mem', s["stack_list"])
       /\ HeapList' = Recs(mem', s["heap_list"])
       /\ DeadList' = Recs(mem', s["deallocated_list"])
       /\ GlobalList' = Recs(mem', s["globals_list"])
  <2>1. returning' = FALSE /\ cur' \in Pointers
    BY <1>1, <1>3
  <2> QED BY <1>10, <2>1, ReturnEnds
<1>16. /\ StackList = Returned(Recs(mem, s["stack_list"]))
       /\ HeapList = Recs(mem, s["heap_list"])
       /\ DeadList = Recs(mem, s["deallocated_list"])
       /\ GlobalList = Recs(mem, s["globals_list"])
  BY <1>1, <1>2, ReturnShown
<1> QED BY <1>13, <1>14, <1>15, <1>16 DEF Names, Unseen
-----------------------------------------------------------------------------
(***************************************************************************)
(* The invariant holds, and every step is one of MonitorCalls or none.     *)
(***************************************************************************)
LEMMA StepHolds ==
  ASSUME LInv, [Next]_vars
  PROVE  LInv' /\ [Lists!Next]_(Lists!lists)
<1>1. Unseen => UNCHANGED Lists!lists
  BY DEF Unseen, Lists!lists, HeapList, StackList, DeadList, GlobalList
<1>2. ASSUME NEW p \in Ids, NEW n \in Sizes, remember_malloc_calloc(p, n)
      PROVE  LInv' /\ Lists!Next
  BY <1>2, MallocStep DEF Lists!Next
<1>3. ASSUME NEW p \in Ids, NEW n \in Sizes, remember("stack_list", p, n)
      PROVE  LInv' /\ Lists!Next
  BY <1>3, RememberStep DEF Lists!Next
<1>4. ASSUME NEW p \in Ids, NEW n \in Sizes, remember("globals_list", p, n)
      PROVE  LInv' /\ Lists!Next
  BY <1>4, RememberStep DEF Lists!Next
<1>5. ASSUME NEW p \in Ids, NEW n \in Sizes, NEW old \in Ids \cup {NULL}, realloc(old, p, n)
      PROVE  LInv' /\ Lists!Next
  <2>1. LInv' /\ Lists!realloc(old, [id |-> p, size |-> n])
    BY <1>5, ReallocStep
  <2>2. old \in Ids \cup {Lists!NULL}
    BY ListsTerms
  <2> QED BY <2>1, <2>2 DEF Lists!Next
<1>6. ASSUME NEW p \in Ids, free(p)
      PROVE  LInv' /\ Lists!Next
  BY <1>6, FreeStep DEF Lists!Next
<1>7. ASSUME NEW p \in Ids, destroy(p)
      PROVE  LInv' /\ Lists!Next
  BY <1>7, DestroyStep DEF Lists!Next
<1>8. ASSUME set_flag
      PROVE  LInv' /\ Lists!Next
  BY <1>8, FlagStep DEF Lists!Next
<1>9. ASSUME destroy_allocas
      PROVE  LInv' /\ Lists!Next
  BY <1>9, ReturnBegins DEF Lists!Next
<1>10. CASE DropNode
  BY <1>1, <1>10, DropStep
<1>11. CASE LowerFlag
  BY <1>1, <1>11, LowerStep
<1>12. CASE NoneLeft
  BY <1>1, <1>12, NoneStep
<1>13. CASE UNCHANGED vars
  <2>1. mem' = mem /\ allocated' = allocated /\ returning' = returning /\ cur' = cur
    BY <1>13 DEF vars
  <2>2. LInv'
    BY <2>1 DEF LInv
  <2>3. (AtCursor!destroy_allocas)' = AtCursor!destroy_allocas
    BY <2>1, ReturnTerms
  <2>4. Unseen
    BY <2>1, <2>3 DEF Unseen, HeapList, StackList, DeadList, GlobalList
  <2> QED BY <1>1, <2>2, <2>4
<1> QED BY <1>2, <1>3, <1>4, <1>5, <1>6, <1>7, <1>8, <1>9, <1>10, <1>11, <1>12, <1>13 DEF Next

LEMMA InitHolds ==
  ASSUME Init
  PROVE  LInv /\ Lists!Init
<1> DEFINE s == [l \in Names |-> <<>>]
<1>1. /\ mem = [heap_list |-> NULL, stack_list |-> NULL, deallocated_list |-> NULL,
                globals_list |-> NULL, at |-> [c \in Nodes |-> Scrap]]
      /\ allocated = {} /\ returning = FALSE /\ cur = NULL
  BY DEF Init
<1>2. /\ mem = [x \in Names \cup {"at"} |-> mem[x]]
      /\ \A l \in Names : mem[l] = NULL
      /\ mem.at = [c \in Nodes |-> Scrap]
  BY <1>1 DEF Names
<1>3. IsMemory(mem) /\ NULL \in Pointers
  BY <1>2, FlagAssumption DEF IsMemory, Pointers, Cells, Scrap, Fresh
<1>4. \A l \in Names : s[l] = <<>> /\ Len(s[l]) = 0 /\ s[l] \in Seq(Nodes)
  OBVIOUS
<1>5. Distinct(s, allocated)
  BY <1>1, <1>4 DEF Distinct
<1> HIDE DEF s
<1>6. Linked(mem, {}, s)
  BY <1>2, <1>4 DEF Linked
<1>7. Holds(mem, s, allocated)
  BY <1>3, <1>5, <1>6 DEF Holds
<1>8. LInv
  BY <1>1, <1>3, <1>7 DEF LInv
<1>9. \A l \in Names : Records(mem, mem[l]) = <<>>
  BY SMTT(30), <1>4, <1>7, HeldRecords DEF Values, Recs
<1>10. Lists!Init
  BY <1>1, <1>9 DEF Lists!Init, Names
<1> QED BY <1>8, <1>10

(* What the invariant says of the chains.                                  *)
LEMMA ChainsLaid ==
  ASSUME LInv
  PROVE  \E s : /\ Distinct(s, allocated)
                /\ \A l \in Names :
                     /\ Chain(mem, First(l)) = s[l]
                     /\ \A i \in 1 .. Len(s[l]) :
                          \/ mem.at[s[l][i]].prev = IF i = 1 THEN NULL ELSE s[l][i - 1]
                          \/ i = 1 /\ returning /\ s[l][i] = cur
<1>1. CASE returning
  <2>1. PICK s : Reached(mem, cur, s, allocated)
    BY <1>1, ReturnFinds
  <2>2. Distinct(s, allocated)
    BY <2>1 DEF Reached
  <2>3. ASSUME NEW l \in Names
        PROVE  /\ First(l) = IF Len(s[l]) = 0 THEN NULL ELSE s[l][1]
               /\ \A i \in 1 .. Len(s[l]) :
                    /\ mem.at[s[l][i]].next = IF i = Len(s[l]) THEN NULL ELSE s[l][i + 1]
                    /\ \/ mem.at[s[l][i]].prev = IF i = 1 THEN NULL ELSE s[l][i - 1]
                       \/ i = 1 /\ l = "stack_list"
    BY <1>1, <2>1, ReachedLinks DEF First
  <2>4. ASSUME NEW l \in Names
        PROVE  Chain(mem, First(l)) = s[l]
    <3>1. Spelt(mem.at, First(l), s[l])
      <4>1. s[l] \in Seq(Nodes) /\ \A i, j \in 1 .. Len(s[l]) : s[l][i] = s[l][j] => i = j
        BY <2>2 DEF Distinct
      <4> QED BY <2>3, <4>1 DEF Spelt
    <3> QED BY <3>1, ChainIsSpelt
  <2>5. ASSUME NEW l \in Names, NEW i \in 1 .. Len(s[l])
        PROVE  \/ mem.at[s[l][i]].prev = IF i = 1 THEN NULL ELSE s[l][i - 1]
               \/ i = 1 /\ returning /\ s[l][i] = cur
    <3>1. CASE i = 1 /\ l = "stack_list"
      <4>1. First(l) = cur /\ Len(s[l]) # 0
        BY <1>1, <2>2, <3>1 DEF First, Distinct
      <4> QED BY <1>1, <2>3, <3>1, <4>1
    <3>2. CASE ~ (i = 1 /\ l = "stack_list")
      BY <2>3, <3>2
    <3> QED BY <3>1, <3>2
  <2> QED BY <2>2, <2>4, <2>5
<1>2. CASE ~returning
  <2>1. PICK s : Holds(mem, s, allocated)
    BY <1>2, Between
  <2>2. Distinct(s, allocated) /\ Linked(mem, {}, s)
    BY <2>1 DEF Holds
  <2>3. ASSUME NEW l \in Names
        PROVE  Chain(mem, First(l)) = s[l]
    <3>1. Spelt(mem.at, mem[l], s[l])
      BY <2>2, SpeltOut
    <3>2. First(l) = mem[l]
      BY <1>2 DEF First
    <3> QED BY <3>1, <3>2, ChainIsSpelt
  <2>4. ASSUME NEW l \in Names, NEW i \in 1 .. Len(s[l])
        PROVE  mem.at[s[l][i]].prev = IF i = 1 THEN NULL ELSE s[l][i - 1]
    BY <2>2 DEF Linked
  <2> QED BY <2>2, <2>3, <2>4
<1> QED BY <1>1, <1>2

LEMMA LaidMeansWell ==
  ASSUME LInv
  PROVE  WellLinked
<1>1. PICK s : /\ Distinct(s, allocated)
               /\ \A l \in Names :
                    /\ Chain(mem, First(l)) = s[l]
                    /\ \A i \in 1 .. Len(s[l]) :
                         \/ mem.at[s[l][i]].prev = IF i = 1 THEN NULL ELSE s[l][i - 1]
                         \/ i = 1 /\ returning /\ s[l][i] = cur
  BY ChainsLaid
<1>2. /\ allocated \subseteq Nodes
      /\ \A l \in Names : s[l] \in Seq(Nodes) /\ Len(s[l]) \in Nat
      /\ \A l \in Names : \A i \in 1 .. Len(s[l]) : s[l][i] \in allocated /\ s[l][i] \in Nodes
      /\ \A k, l \in Names : \A i \in 1 .. Len(s[k]), j \in 1 .. Len(s[l]) :
           s[k][i] = s[l][j] => k = l /\ i = j
  BY <1>1, LaidOut
<1>3. \A l \in Names : DOMAIN s[l] = 1 .. Len(s[l]) /\ Chain(mem, First(l)) = s[l]
  BY <1>1, <1>2
<1>4. LinksLead
  BY <1>2 DEF LInv, LinksLead, IsMemory, Cells
<1>5. ASSUME NEW l \in Names, NEW i \in DOMAIN s[l]
      PROVE  IF i > 1 THEN mem.at[s[l][i]].prev = s[l][i - 1]
                      ELSE mem.at[s[l][1]].prev = NULL \/ (returning /\ s[l][1] = cur)
  <2>1. i \in 1 .. Len(s[l]) /\ i \in Nat
    BY <1>3
  <2>2. \/ mem.at[s[l][i]].prev = IF i = 1 THEN NULL ELSE s[l][i - 1]
        \/ i = 1 /\ returning /\ s[l][i] = cur
    BY <1>1, <2>1
  <2>3. CASE i = 1
    BY <2>2, <2>3
  <2>4. CASE i # 1
    BY <2>1, <2>2, <2>4
  <2> QED BY <2>3, <2>4
<1>6. ASSUME NEW c \in Nodes
      PROVE  c \in allocated <=> \E l \in Names : c \in ToSet(s[l])
  BY <1>1, <1>3 DEF Distinct, ToSet
<1>7. ASSUME NEW k \in Names, NEW l \in Names, k # l
      PROVE  ToSet(s[k]) \cap ToSet(s[l]) = {}
  BY SMTT(30), <1>2, <1>3, <1>7 DEF ToSet
<1>8. ASSUME NEW l \in Names PROVE IsInjective(s[l])
  BY <1>2, <1>3 DEF IsInjective
<1>9. \A l \in Names : \A i \in DOMAIN Chain(mem, First(l)) :
         IF i > 1 THEN mem.at[Chain(mem, First(l))[i]].prev = Chain(mem, First(l))[i - 1]
                  ELSE \/ mem.at[Chain(mem, First(l))[1]].prev = NULL
                       \/ returning /\ Chain(mem, First(l))[1] = cur
  BY <1>3, <1>5
<1>10. \A c \in Nodes : c \in allocated <=> \E l \in Names : c \in ToSet(Chain(mem, First(l)))
  BY <1>3, <1>6
<1>11. \A k, l \in Names :
         k # l => ToSet(Chain(mem, First(k))) \cap ToSet(Chain(mem, First(l))) = {}
  BY <1>3, <1>7
<1>12. \A l \in Names : IsInjective(Chain(mem, First(l)))
  BY <1>3, <1>8
<1> QED BY <1>4, <1>9, <1>10, <1>11, <1>12 DEF WellLinked

(* For every set of nodes, addresses and sizes, the links of the four      *)
(* lists stay whole: forward and backward links agree, every allocated     *)
(* node is in exactly one list and no list leads to a freed one, whatever  *)
(* calls come and wherever a return's loop has come to.                    *)
THEOREM LinksAreWell == Spec => []WellLinked
<1>1. Init => LInv
  BY InitHolds
<1>2. LInv /\ [Next]_vars => LInv'
  BY StepHolds
<1>3. LInv => WellLinked
  BY LaidMeansWell
<1> QED BY <1>1, <1>2, <1>3, PTL DEF Spec

(* Each call does to the linked lists what MonitorLists says of sequences; *)
(* a return has done its work when it begins, as seen from outside.        *)
THEOREM ListsAreImplemented == Spec => ImplementsLists
<1>1. Init => LInv /\ Lists!Init
  BY InitHolds
<1>2. LInv /\ [Next]_vars => LInv' /\ [Lists!Next]_(Lists!lists)
  BY StepHolds
<1> QED BY <1>1, <1>2, PTL DEF Spec, ImplementsLists, Lists!Spec
=============================================================================
