------------------------- MODULE InstrumenterProofs --------------------------
(***************************************************************************)
(* Theorems of Instrumenter for every program, every answer of the plugins *)
(* and every configuration: what the rules do to the functions.            *)
(***************************************************************************)
EXTENDS Instrumenter, FiniteSetTheorems, SequenceTheorems, WellFoundedInduction, TLAPS

-----------------------------------------------------------------------------
(***************************************************************************)
(* FlattenSeq.  The library states no fact about it; the proofs here go by *)
(* least counterexample.                                                   *)
(***************************************************************************)
LEMMA LeastOfNats ==
  ASSUME NEW S, S \subseteq Nat, S # {}
  PROVE  \E m \in S : \A y \in S : m <= y
<1>1. PICK m \in S : \A y \in S : ~ (<<y, m>> \in OpToRel(<, Nat))
  BY NatLessThanWellFounded, WFMin
<1>2. \A y \in S : m <= y
  <2> TAKE y \in S
  <2>1. ~ (y < m)
    BY <1>1 DEF OpToRel
  <2> QED BY <2>1
<1> QED BY <1>2

(* Where what holds of 0 and goes from each number to the next, all have   *)
(* it: the set of those that do not is empty.                              *)
LEMMA NoneFails ==
  ASSUME NEW n \in Nat, NEW Fails, Fails \subseteq 0 .. n, 0 \notin Fails,
         \A k \in 0 .. n - 1 : k \notin Fails => k + 1 \notin Fails
  PROVE  Fails = {}
<1> SUFFICES ASSUME Fails # {} PROVE FALSE
  OBVIOUS
<1>1. Fails \subseteq Nat
  OBVIOUS
<1>2. PICK m \in Fails : \A y \in Fails : m <= y
  BY <1>1, LeastOfNats
<1>3. m - 1 \in 0 .. n - 1 /\ m - 1 \notin Fails
  BY <1>2
<1>4. (m - 1) + 1 \notin Fails
  BY <1>3
<1> QED BY <1>2, <1>4

(* The function that FlattenSeq defines exists.                            *)
LEMMA FlattenFunction ==
  ASSUME NEW s, Len(s) \in Nat
  PROVE  \E f : f = [i \in 1 .. Len(s) |-> IF i = 1 THEN s[i] ELSE f[i - 1] \o s[i]]
<1> DEFINE Is(f, n) == f = [i \in 1 .. n |-> IF i = 1 THEN s[i] ELSE f[i - 1] \o s[i]]
           Found == {n \in 0 .. Len(s) : \E f : Is(f, n)}
           Fails == (0 .. Len(s)) \ Found
<1>1. Is([i \in 1 .. 0 |-> 0], 0)
  OBVIOUS
<1>2. ASSUME NEW k \in 0 .. Len(s) - 1, NEW f, Is(f, k) PROVE \E h : Is(h, k + 1)
  <2> DEFINE h == [i \in 1 .. k + 1 |-> IF i = 1 THEN s[i] ELSE f[i - 1] \o s[i]]
         g == [i \in 1 .. k |-> IF i = 1 THEN s[i] ELSE f[i - 1] \o s[i]]
  <2>1. f = g
    BY <1>2
  <2>2. \A i \in 1 .. k : h[i] = f[i]
    <3>1. \A i \in 1 .. k : h[i] = g[i]
      OBVIOUS
    <3> HIDE DEF g
    <3> QED BY <2>1, <3>1
  <2>3. \A i \in 1 .. k + 1 : i # 1 => i - 1 \in 1 .. k
    OBVIOUS
  <2>4. \A i \in 1 .. k + 1 : i # 1 => f[i - 1] = h[i - 1]
    BY <2>2, <2>3
  <2>5. h = [i \in 1 .. k + 1 |-> IF i = 1 THEN s[i] ELSE h[i - 1] \o s[i]]
    BY <2>4
  <2> QED BY <2>5
<1> HIDE DEF Is
<1>3. 0 \notin Fails
  BY <1>1
<1>4. \A k \in 0 .. Len(s) - 1 : k \notin Fails => k + 1 \notin Fails
  <2> SUFFICES ASSUME NEW k \in 0 .. Len(s) - 1, k \in Found PROVE k + 1 \in Found
    OBVIOUS
  <2>1. \E f : Is(f, k)
    OBVIOUS
  <2>2. \E h : Is(h, k + 1)
    BY <1>2, <2>1
  <2> QED BY <2>2
<1>5. Fails = {}
  <2>1. Fails \subseteq 0 .. Len(s)
    OBVIOUS
  <2> HIDE DEF Fails
  <2> QED BY <1>3, <1>4, <2>1, NoneFails
<1>6. \E f : Is(f, Len(s))
  BY <1>5
<1> QED BY <1>6 DEF Is

LEMMA FlattenSteps ==
  ASSUME NEW s, Len(s) \in Nat
  PROVE  \E f : /\ \A i \in 1 .. Len(s) : f[i] = IF i = 1 THEN s[i] ELSE f[i - 1] \o s[i]
                /\ FlattenSeq(s) = IF Len(s) = 0 THEN s ELSE f[Len(s)]
<1> DEFINE f == CHOOSE g : g = [i \in 1 .. Len(s) |-> IF i = 1 THEN s[i] ELSE g[i - 1] \o s[i]]
           h == [i \in 1 .. Len(s) |-> IF i = 1 THEN s[i] ELSE f[i - 1] \o s[i]]
<1>1. f = h
  BY FlattenFunction
<1>2. FlattenSeq(s) = IF Len(s) = 0 THEN s ELSE f[Len(s)]
  BY DEF FlattenSeq
<1> HIDE DEF f
<1>3. \A i \in 1 .. Len(s) : h[i] = IF i = 1 THEN s[i] ELSE f[i - 1] \o s[i]
  OBVIOUS
<1> HIDE DEF h
<1>4. \A i \in 1 .. Len(s) : f[i] = IF i = 1 THEN s[i] ELSE f[i - 1] \o s[i]
  BY <1>1, <1>3
<1> QED BY <1>2, <1>4

(* What is built up in the same way is the same.                           *)
LEMMA FlattenIs ==
  ASSUME NEW s, Len(s) \in Nat \ {0},
         NEW h, \A i \in 1 .. Len(s) : h[i] = IF i = 1 THEN s[i] ELSE h[i - 1] \o s[i]
  PROVE  FlattenSeq(s) = h[Len(s)]
<1>1. PICK f : /\ \A i \in 1 .. Len(s) : f[i] = IF i = 1 THEN s[i] ELSE f[i - 1] \o s[i]
               /\ FlattenSeq(s) = IF Len(s) = 0 THEN s ELSE f[Len(s)]
  BY FlattenSteps
<1> DEFINE Fails == {i \in 1 .. Len(s) : f[i] # h[i]}
<1>2. 0 \notin Fails /\ Fails \subseteq 0 .. Len(s)
  OBVIOUS
<1>3. ASSUME NEW k \in 0 .. Len(s) - 1, k \notin Fails PROVE k + 1 \notin Fails
  <2>1. k + 1 \in 1 .. Len(s) /\ (k + 1) - 1 = k
    OBVIOUS
  <2>2. CASE k = 0
    BY <1>1, <2>1, <2>2
  <2>3. CASE k # 0
    <3>1. k \in 1 .. Len(s) /\ f[k] = h[k]
      BY <1>3, <2>3
    <3> DEFINE i == k + 1
    <3>2. i \in 1 .. Len(s) /\ i # 1 /\ i - 1 = k
      BY <2>1, <2>3
    <3> HIDE DEF i
    <3>3. f[i] = f[k] \o s[i] /\ h[i] = h[k] \o s[i]
      BY <1>1, <3>2
    <3> QED BY <3>1, <3>3 DEF i
  <2> QED BY <2>2, <2>3
<1>4. Fails = {}
  <2> HIDE DEF Fails
  <2> QED BY <1>2, <1>3, NoneFails
<1>5. f[Len(s)] = h[Len(s)]
  BY <1>4
<1> QED BY <1>1, <1>5

LEMMA FlattenType ==
  ASSUME NEW T, NEW s \in Seq(Seq(T))
  PROVE  FlattenSeq(s) \in Seq(T)
<1>1. Len(s) \in Nat /\ \A i \in 1 .. Len(s) : s[i] \in Seq(T)
  OBVIOUS
<1>2. PICK f : /\ \A i \in 1 .. Len(s) : f[i] = IF i = 1 THEN s[i] ELSE f[i - 1] \o s[i]
               /\ FlattenSeq(s) = IF Len(s) = 0 THEN s ELSE f[Len(s)]
  BY <1>1, FlattenSteps
<1> DEFINE Fails == {i \in 1 .. Len(s) : f[i] \notin Seq(T)}
<1>3. 0 \notin Fails /\ Fails \subseteq 0 .. Len(s)
  OBVIOUS
<1>4. ASSUME NEW k \in 0 .. Len(s) - 1, k \notin Fails PROVE k + 1 \notin Fails
  <2>1. k + 1 \in 1 .. Len(s) /\ (k + 1) - 1 = k /\ s[k + 1] \in Seq(T)
    BY <1>1
  <2>2. CASE k = 0
    BY <1>2, <2>1, <2>2
  <2>3. CASE k # 0
    <3>1. k \in 1 .. Len(s) /\ f[k] \in Seq(T)
      BY <1>4, <2>3
    <3> DEFINE i == k + 1
    <3>2. i \in 1 .. Len(s) /\ i # 1 /\ i - 1 = k /\ s[i] \in Seq(T)
      BY <2>1, <2>3
    <3> HIDE DEF i
    <3>3. f[i] = f[k] \o s[i]
      BY <1>2, <3>2
    <3>4. f[i] \in Seq(T)
      BY <3>1, <3>2, <3>3
    <3> QED BY <3>4 DEF i
  <2> QED BY <2>2, <2>3
<1>5. Fails = {}
  <2> HIDE DEF Fails
  <2> QED BY <1>1, <1>3, <1>4, NoneFails
<1>6. Len(s) # 0 => f[Len(s)] \in Seq(T)
  BY SMTT(30), <1>1, <1>5
<1>7. Len(s) = 0 => s \in Seq(T)
  <2>1. Len(s) = 0 => s = <<>>
    OBVIOUS
  <2> QED BY <2>1
<1> QED BY <1>2, <1>6, <1>7

LEMMA FlattenAppend ==
  ASSUME NEW T, NEW s \in Seq(Seq(T)), NEW e \in Seq(T)
  PROVE  FlattenSeq(Append(s, e)) = FlattenSeq(s) \o e
<1> DEFINE n == Len(s)  r == Append(s, e)
<1>1. n \in Nat /\ Len(r) = n + 1 /\ r[n + 1] = e /\ \A i \in 1 .. n : r[i] = s[i]
  OBVIOUS
<1>2. PICK f : /\ \A i \in 1 .. n : f[i] = IF i = 1 THEN s[i] ELSE f[i - 1] \o s[i]
               /\ FlattenSeq(s) = IF n = 0 THEN s ELSE f[n]
  BY <1>1, FlattenSteps
<1> DEFINE h == [i \in 1 .. n + 1 |-> IF i = n + 1 THEN FlattenSeq(s) \o e ELSE f[i]]
<1>3. h[n + 1] = FlattenSeq(s) \o e /\ \A i \in 1 .. n : h[i] = f[i]
  BY <1>1
<1> HIDE DEF r, h
<1>4. ASSUME NEW i \in 1 .. n + 1 PROVE h[i] = IF i = 1 THEN r[i] ELSE h[i - 1] \o r[i]
  <2>1. CASE i \in 1 .. n
    <3>1. h[i] = f[i] /\ r[i] = s[i] /\ (i # 1 => i - 1 \in 1 .. n /\ h[i - 1] = f[i - 1])
      BY <1>1, <1>3, <2>1
    <3> QED BY <1>2, <2>1, <3>1
  <2>2. CASE i = n + 1 /\ n = 0
    <3>1. s = <<>>
      BY <2>2
    <3>2. FlattenSeq(s) \o e = e
      BY <1>2, <2>2, <3>1
    <3> QED BY <1>1, <1>3, <2>2, <3>2
  <2>3. CASE i = n + 1 /\ n # 0
    <3>1. i - 1 = n /\ n \in 1 .. n /\ h[n] = FlattenSeq(s) /\ i # 1
      BY <1>1, <1>2, <1>3, <2>3
    <3> QED BY <1>1, <1>3, <2>3, <3>1
  <2> QED BY <1>1, <2>1, <2>2, <2>3
<1>5. FlattenSeq(r) = h[n + 1]
  <2>1. Len(r) \in Nat \ {0} /\ Len(r) = n + 1
    BY <1>1
  <2>2. \A i \in 1 .. Len(r) : h[i] = IF i = 1 THEN r[i] ELSE h[i - 1] \o r[i]
    BY <1>4, <2>1
  <2> HIDE DEF n
  <2>3. FlattenSeq(r) = h[Len(r)]
    BY <2>1, <2>2, FlattenIs
  <2> QED BY <2>1, <2>3
<1> QED BY <1>3, <1>5 DEF r

LEMMA FlattenEmpty == FlattenSeq(<<>>) = <<>>
BY DEF FlattenSeq
-----------------------------------------------------------------------------
(***************************************************************************)
(* What is left of a code when its inserted calls are taken out.           *)
(***************************************************************************)
Inserted(i) == i.op = "inserted"
KeptIn(c) == FlattenSeq([i \in DOMAIN c |-> IF ~Inserted(c[i]) THEN <<c[i]>> ELSE <<>>])

LEMMA KeptOfCode == \A f : Kept(f) = KeptIn(code[f])
BY DEF Kept, Only, KeptIn, Inserted

LEMMA KeptType ==
  ASSUME NEW T, NEW c \in Seq(T)
  PROVE  KeptIn(c) \in Seq(T)
<1> DEFINE units == [i \in DOMAIN c |-> IF ~Inserted(c[i]) THEN <<c[i]>> ELSE <<>>]
<1>1. units \in Seq(Seq(T))
  <2>1. DOMAIN c = 1 .. Len(c) /\ Len(c) \in Nat /\ \A i \in 1 .. Len(c) : c[i] \in T
    OBVIOUS
  <2>2. \A i \in 1 .. Len(c) : units[i] \in Seq(T)
    BY <2>1
  <2>3. units = [i \in 1 .. Len(c) |-> units[i]]
    BY <2>1
  <2> HIDE DEF units
  <2> QED BY <2>1, <2>2, <2>3, IsASeq
<1> HIDE DEF units
<1>2. FlattenSeq(units) \in Seq(T)
  BY <1>1, FlattenType
<1> QED BY <1>2 DEF KeptIn, units

LEMMA KeptAppend ==
  ASSUME NEW T, NEW c \in Seq(T), NEW e \in T
  PROVE  KeptIn(Append(c, e)) = IF Inserted(e) THEN KeptIn(c) ELSE KeptIn(c) \o <<e>>
<1> DEFINE Unit(x) == IF ~Inserted(x) THEN <<x>> ELSE <<>>
           units == [i \in DOMAIN c |-> Unit(c[i])]
           d == Append(c, e)
           all == [i \in DOMAIN d |-> Unit(d[i])]
<1>1. units \in Seq(Seq(T)) /\ Unit(e) \in Seq(T)
  <2>1. DOMAIN c = 1 .. Len(c) /\ Len(c) \in Nat /\ \A i \in 1 .. Len(c) : c[i] \in T
    OBVIOUS
  <2>2. \A x \in T : Unit(x) \in Seq(T)
    OBVIOUS
  <2> HIDE DEF Unit
  <2>3. units = [i \in 1 .. Len(c) |-> Unit(c[i])] /\ \A i \in 1 .. Len(c) : Unit(c[i]) \in Seq(T)
    BY <2>1, <2>2
  <2> QED BY <2>1, <2>2, <2>3, IsASeq
<1> HIDE DEF Unit
<1>2. all = Append(units, Unit(e))
  <2>1. /\ Len(c) \in Nat /\ DOMAIN d = 1 .. Len(c) + 1 /\ d[Len(c) + 1] = e
        /\ DOMAIN c = 1 .. Len(c) /\ \A i \in 1 .. Len(c) : d[i] = c[i]
    OBVIOUS
  <2>2. /\ Append(units, Unit(e)) \in Seq(Seq(T)) /\ Len(units) = Len(c)
        /\ Len(Append(units, Unit(e))) = Len(c) + 1
        /\ DOMAIN Append(units, Unit(e)) = 1 .. Len(c) + 1
        /\ Append(units, Unit(e))[Len(c) + 1] = Unit(e)
        /\ \A i \in 1 .. Len(c) : Append(units, Unit(e))[i] = units[i]
    <3>1. Len(units) = Len(c)
      BY <1>1, <2>1
    <3> HIDE DEF units
    <3> QED BY <1>1, <2>1, <3>1, AppendProperties
  <2>3. Append(units, Unit(e)) = [i \in 1 .. Len(c) + 1 |-> Append(units, Unit(e))[i]]
    <3> DEFINE a == Append(units, Unit(e))
    <3> HIDE DEF a
    <3>1. \A S, q : q \in Seq(S) => q = [i \in 1 .. Len(q) |-> q[i]]
      OBVIOUS
    <3>2. a \in Seq(Seq(T)) /\ Len(a) = Len(c) + 1
      BY <2>2 DEF a
    <3>3. a = [i \in 1 .. Len(c) + 1 |-> a[i]]
      BY <3>1, <3>2
    <3> QED BY <3>3 DEF a
  <2>4. \A i \in 1 .. Len(c) + 1 : Append(units, Unit(e))[i] = Unit(d[i])
    <3>1. \A i \in 1 .. Len(c) : units[i] = Unit(c[i])
      BY <2>1
    <3> HIDE DEF units, d
    <3> QED BY <2>1, <2>2, <3>1
  <2> QED BY <2>1, <2>3, <2>4
<1>3. KeptIn(d) = FlattenSeq(all) /\ KeptIn(c) = FlattenSeq(units)
  BY DEF KeptIn, Unit
<1> HIDE DEF units, all
<1>4. KeptIn(d) = KeptIn(c) \o Unit(e) /\ KeptIn(c) \in Seq(T)
  BY <1>1, <1>2, <1>3, FlattenAppend, FlattenType
<1>5. KeptIn(c) \o <<>> = KeptIn(c)
  BY <1>4, ConcatEmptySeq
<1> QED BY <1>4, <1>5 DEF Unit

LEMMA KeptEmpty == KeptIn(<<>>) = <<>>
<1>1. [i \in DOMAIN <<>> |-> IF ~Inserted(<<>>[i]) THEN <<<<>>[i]>> ELSE <<>>] = <<>>
  OBVIOUS
<1> QED BY <1>1, FlattenEmpty DEF KeptIn

LEMMA KeptConcat ==
  ASSUME NEW T, NEW c \in Seq(T), NEW d \in Seq(T)
  PROVE  KeptIn(c \o d) = KeptIn(c) \o KeptIn(d)
<1> DEFINE P(k) == SubSeq(d, 1, k)
           Fails == {k \in 0 .. Len(d) : KeptIn(c \o P(k)) # KeptIn(c) \o KeptIn(P(k))}
<1>1. Len(d) \in Nat /\ Fails \subseteq 0 .. Len(d)
  OBVIOUS
<1>2. 0 \notin Fails
  <2>1. P(0) = <<>> /\ c \o <<>> = c /\ KeptIn(c) \o <<>> = KeptIn(c)
    BY KeptType, ConcatEmptySeq, SubSeqEmpty
  <2> QED BY <2>1, KeptEmpty
<1>3. ASSUME NEW k \in 0 .. Len(d) - 1, k \notin Fails PROVE k + 1 \notin Fails
  <2> DEFINE e == d[k + 1]
  <2>1. e \in T /\ P(k) \in Seq(T) /\ P(k + 1) = Append(P(k), e)
    <3>1. k + 1 \in 1 .. Len(d) /\ 1 \in 1 .. Len(d) /\ (k + 1) - 1 = k
      BY <1>1
    <3>2. P(k) \in Seq(T)
      BY <3>1, SubSeqProperties
    <3>3. P(k + 1) = P(k) \o <<e>>
      BY <3>1, SubSeqRecursiveSecond
    <3> HIDE DEF P
    <3> QED BY <3>1, <3>2, <3>3, AppendIsConcat
  <2>2. KeptIn(c \o P(k)) = KeptIn(c) \o KeptIn(P(k))
    BY <1>1, <1>3
  <2> HIDE DEF P, e
  <2>3. c \o P(k + 1) = Append(c \o P(k), e) /\ c \o P(k) \in Seq(T)
    <3>1. c \o P(k) \in Seq(T) /\ <<e>> \in Seq(T)
      BY <2>1
    <3>2. c \o (P(k) \o <<e>>) = (c \o P(k)) \o <<e>>
      BY SMTT(30), <2>1, <3>1, ConcatAssociative
    <3> QED BY <2>1, <3>1, <3>2, AppendIsConcat
  <2>4. KeptIn(c) \in Seq(T) /\ KeptIn(P(k)) \in Seq(T) /\ <<e>> \in Seq(T)
    BY <2>1, KeptType
  <2>5. KeptIn(c) \o (KeptIn(P(k)) \o <<e>>) = (KeptIn(c) \o KeptIn(P(k))) \o <<e>>
    BY SMTT(30), <2>4, ConcatAssociative
  <2>6. KeptIn(P(k + 1)) = IF Inserted(e) THEN KeptIn(P(k)) ELSE KeptIn(P(k)) \o <<e>>
    BY <2>1, KeptAppend
  <2>7. KeptIn(c \o P(k + 1)) =
          IF Inserted(e) THEN KeptIn(c \o P(k)) ELSE KeptIn(c \o P(k)) \o <<e>>
    BY <2>1, <2>3, KeptAppend
  <2> QED BY <2>2, <2>5, <2>6, <2>7
<1>4. Fails = {}
  <2> HIDE DEF Fails
  <2> QED BY <1>1, <1>2, <1>3, NoneFails
<1>5. P(Len(d)) = d
  BY SubSeqFull
<1>6. Len(d) \in 0 .. Len(d)
  BY <1>1
<1> HIDE DEF P
<1> QED BY <1>4, <1>5, <1>6

(* A code of inserted calls keeps nothing.                                 *)
LEMMA KeptOfCalls ==
  ASSUME NEW T, NEW d \in Seq(T), \A i \in 1 .. Len(d) : Inserted(d[i])
  PROVE  KeptIn(d) = <<>>
<1> DEFINE P(k) == SubSeq(d, 1, k)
           Fails == {k \in 0 .. Len(d) : KeptIn(P(k)) # <<>>}
<1>1. Len(d) \in Nat /\ Fails \subseteq 0 .. Len(d)
  OBVIOUS
<1>2. 0 \notin Fails
  <2>1. P(0) = <<>>
    BY SubSeqEmpty
  <2> QED BY <2>1, KeptEmpty
<1>3. ASSUME NEW k \in 0 .. Len(d) - 1, k \notin Fails PROVE k + 1 \notin Fails
  <2> DEFINE e == d[k + 1]
  <2>1. k + 1 \in 1 .. Len(d) /\ 1 \in 1 .. Len(d) /\ (k + 1) - 1 = k
    BY <1>1
  <2>2. P(k) \in Seq(T) /\ e \in T /\ Inserted(e)
    BY <2>1, SubSeqProperties
  <2>3. P(k + 1) = P(k) \o <<e>>
    BY <2>1, SubSeqRecursiveSecond
  <2>4. KeptIn(P(k)) = <<>>
    BY <1>1, <1>3
  <2> HIDE DEF P, e
  <2>5. P(k + 1) = Append(P(k), e)
    BY <2>2, <2>3, AppendIsConcat
  <2> QED BY <2>2, <2>4, <2>5, KeptAppend
<1>4. Fails = {}
  <2> HIDE DEF Fails
  <2> QED BY <1>1, <1>2, <1>3, NoneFails
<1>5. P(Len(d)) = d
  BY SubSeqFull
<1>6. Len(d) \in 0 .. Len(d)
  BY <1>1
<1> HIDE DEF P
<1> QED BY <1>4, <1>5, <1>6

(* What stands for an instruction must keep what the instruction keeps.    *)
LEMMA KeptFlatten ==
  ASSUME NEW T, NEW c \in Seq(T), NEW b \in Seq(Seq(T)), Len(b) = Len(c),
         \A i \in 1 .. Len(c) : KeptIn(b[i]) = KeptIn(<<c[i]>>)
  PROVE  KeptIn(FlattenSeq(b)) = KeptIn(c)
<1> DEFINE C(k) == SubSeq(c, 1, k)  B(k) == SubSeq(b, 1, k)
           Fails == {k \in 0 .. Len(c) : KeptIn(FlattenSeq(B(k))) # KeptIn(C(k))}
<1>1. Len(c) \in Nat /\ Fails \subseteq 0 .. Len(c)
  OBVIOUS
<1>2. 0 \notin Fails
  <2>1. B(0) = <<>> /\ C(0) = <<>>
    BY SubSeqEmpty
  <2> QED BY <2>1, KeptEmpty, FlattenEmpty
<1>3. ASSUME NEW k \in 0 .. Len(c) - 1, k \notin Fails PROVE k + 1 \notin Fails
  <2> DEFINE e == c[k + 1]  w == b[k + 1]
  <2>1. k + 1 \in 1 .. Len(c) /\ 1 \in 1 .. Len(c) /\ (k + 1) - 1 = k
    BY <1>1
  <2>2. C(k) \in Seq(T) /\ e \in T /\ B(k) \in Seq(Seq(T)) /\ w \in Seq(T)
    BY <2>1, SubSeqProperties
  <2>3. C(k + 1) = C(k) \o <<e>> /\ B(k + 1) = B(k) \o <<w>>
    BY <2>1, SubSeqRecursiveSecond
  <2>4. KeptIn(FlattenSeq(B(k))) = KeptIn(C(k)) /\ KeptIn(w) = KeptIn(<<e>>)
    BY <1>1, <1>3, <2>1
  <2> HIDE DEF B, C, e, w
  <2>5. B(k + 1) = Append(B(k), w) /\ <<e>> \in Seq(T)
    BY SMTT(30), <2>2, <2>3, AppendIsConcat
  <2>6. FlattenSeq(B(k + 1)) = FlattenSeq(B(k)) \o w /\ FlattenSeq(B(k)) \in Seq(T)
    BY <2>2, <2>5, FlattenAppend, FlattenType
  <2>7. KeptIn(FlattenSeq(B(k + 1))) = KeptIn(FlattenSeq(B(k))) \o KeptIn(w)
    BY <2>2, <2>6, KeptConcat
  <2>8. KeptIn(C(k + 1)) = KeptIn(C(k)) \o KeptIn(<<e>>)
    BY <2>2, <2>3, <2>5, KeptConcat
  <2> QED BY <2>4, <2>7, <2>8
<1>4. Fails = {}
  <2> HIDE DEF Fails
  <2> QED BY <1>1, <1>2, <1>3, NoneFails
<1>5. C(Len(c)) = c /\ B(Len(c)) = b
  BY SubSeqFull
<1>6. Len(c) \in 0 .. Len(c)
  BY <1>1
<1> HIDE DEF B, C
<1> QED BY <1>4, <1>5, <1>6

LEMMA PickedType ==
  ASSUME NEW R, NEW s \in Seq(R), NEW B, NEW S, \A i \in DOMAIN s : i \in B => s[i] \in S
  PROVE  FlattenSeq([i \in DOMAIN s |-> IF i \in B THEN <<s[i]>> ELSE <<>>]) \in Seq(S)
<1> DEFINE units == [i \in DOMAIN s |-> IF i \in B THEN <<s[i]>> ELSE <<>>]
<1>1. units \in Seq(Seq(S))
  <2>1. DOMAIN s = 1 .. Len(s) /\ Len(s) \in Nat
    OBVIOUS
  <2>2. \A i \in 1 .. Len(s) : units[i] \in Seq(S)
    BY <2>1
  <2>3. units = [i \in 1 .. Len(s) |-> units[i]]
    BY <2>1
  <2> HIDE DEF units
  <2> QED BY <2>1, <2>2, <2>3, IsASeq
<1> HIDE DEF units
<1>2. FlattenSeq(units) \in Seq(S)
  BY <1>1, FlattenType
<1> QED BY <1>2 DEF units

LEMMA ReverseType ==
  ASSUME NEW S, NEW s \in Seq(S)
  PROVE  /\ Reverse(s) \in Seq(S) /\ Len(Reverse(s)) = Len(s)
         /\ \A i \in 1 .. Len(s) : \E j \in 1 .. Len(s) : Reverse(s)[i] = s[j]
<1>1. Len(s) \in Nat /\ \A i \in 1 .. Len(s) : s[i] \in S /\ (Len(s) - i) + 1 \in 1 .. Len(s)
  OBVIOUS
<1>2. Reverse(s) = [i \in 1 .. Len(s) |-> s[(Len(s) - i) + 1]]
  BY DEF Reverse
<1>3. \A i \in 1 .. Len(s) : Reverse(s)[i] = s[(Len(s) - i) + 1]
  BY <1>2
<1>4. Reverse(s) \in Seq(S)
  BY <1>1, <1>2, IsASeq
<1>5. Len(Reverse(s)) = Len(s)
  BY <1>1, <1>2, <1>4
<1> QED BY <1>1, <1>3, <1>4, <1>5

LEMMA InsertKeeps ==
  ASSUME NEW T, NEW c \in Seq(T), NEW k \in 1 .. Len(c) + 1, NEW e \in T, Inserted(e)
  PROVE  /\ InsertAt(c, k, e) \in Seq(T) /\ Len(InsertAt(c, k, e)) = Len(c) + 1
         /\ KeptIn(InsertAt(c, k, e)) = KeptIn(c)
<1> DEFINE a == SubSeq(c, 1, k - 1)  b == SubSeq(c, k, Len(c))
<1>1. Len(c) \in Nat /\ \A i \in 1 .. Len(c) : c[i] \in T
  OBVIOUS
<1>2. a \in Seq(T) /\ Len(a) = k - 1
  <2>1. 1 \in Int /\ k - 1 \in Int /\ \A i \in 1 .. k - 1 : c[i] \in T
    BY <1>1
  <2> QED BY <2>1, SubSeqProperties
<1>3. b \in Seq(T) /\ Len(b) = (Len(c) - k) + 1
  <2>1. k \in Int /\ Len(c) \in Int /\ \A i \in k .. Len(c) : c[i] \in T
    BY <1>1
  <2> QED BY <1>1, <2>1, SubSeqProperties
<1>4. c = a \o b
  <2>1. /\ a \o b \in Seq(T) /\ Len(a \o b) = Len(c)
        /\ \A i \in 1 .. Len(c) : (a \o b)[i] = c[i]
    <3>1. /\ \A i \in 1 .. k - 1 : a[i] = c[i]
          /\ \A i \in 1 .. (Len(c) - k) + 1 : b[i] = c[(k + i) - 1]
      BY <1>1
    <3> HIDE DEF a, b
    <3>2. a \o b \in Seq(T) /\ Len(a \o b) = Len(c)
      BY <1>1, <1>2, <1>3, ConcatProperties
    <3>3. ASSUME NEW i \in 1 .. Len(c) PROVE (a \o b)[i] = c[i]
      <4>1. (a \o b)[i] = IF i <= Len(a) THEN a[i] ELSE b[i - Len(a)]
        BY <1>1, <1>2, <1>3, ConcatProperties
      <4>2. CASE i <= k - 1
        BY <1>1, <1>2, <3>1, <4>1, <4>2
      <4>3. CASE ~ (i <= k - 1)
        <5>1. i - (k - 1) \in 1 .. (Len(c) - k) + 1 /\ (k + (i - (k - 1))) - 1 = i
          <6>1. k \in Int /\ i \in Int
            BY <1>1
          <6> QED BY <1>1, <4>3, <6>1
        <5> DEFINE j == i - (k - 1)
        <5>2. b[j] = c[(k + j) - 1]
          <6> HIDE DEF j
          <6> QED BY <3>1, <5>1 DEF j
        <5> QED BY <1>2, <4>1, <4>3, <5>1, <5>2
      <4> QED BY <4>2, <4>3
    <3> QED BY <3>2, <3>3
  <2> HIDE DEF a, b
  <2> QED BY <2>1, SeqEqual
<1>5. InsertAt(c, k, e) = (a \o <<e>>) \o b
  BY DEF InsertAt
<1> HIDE DEF a, b
<1>6. a \o <<e>> = Append(a, e) /\ a \o <<e>> \in Seq(T) /\ Len(a \o <<e>>) = k
  BY <1>2, AppendIsConcat, AppendProperties
<1>7. KeptIn(a \o <<e>>) = KeptIn(a)
  BY <1>2, <1>6, KeptAppend
<1>8. KeptIn((a \o <<e>>) \o b) = KeptIn(a) \o KeptIn(b) /\ KeptIn(c) = KeptIn(a) \o KeptIn(b)
  BY <1>2, <1>3, <1>4, <1>6, <1>7, KeptConcat
<1>9. (a \o <<e>>) \o b \in Seq(T) /\ Len((a \o <<e>>) \o b) = Len(c) + 1
  BY <1>1, <1>3, <1>6, ConcatProperties
<1> QED BY <1>5, <1>8, <1>9

LEMMA AllInserted ==
  ASSUME NEW T, NEW d \in Seq(T), NEW c \in Seq(T), \A i \in 1 .. Len(d) : Inserted(d[i])
  PROVE  KeptIn(d \o c) = KeptIn(c) /\ d \o c \in Seq(T) /\ Len(d \o c) = Len(d) + Len(c)
<1>1. KeptIn(d) = <<>> /\ KeptIn(c) \in Seq(T)
  BY KeptOfCalls, KeptType
<1>2. <<>> \o KeptIn(c) = KeptIn(c)
  BY <1>1, ConcatEmptySeq
<1>3. KeptIn(d \o c) = KeptIn(d) \o KeptIn(c)
  BY KeptConcat
<1> QED BY <1>1, <1>2, <1>3, ConcatProperties
-----------------------------------------------------------------------------
(***************************************************************************)
(* What the rules place.                                                   *)
(***************************************************************************)
(* As in the configurations: a call that is passed what a plugin knows of  *)
(* the pointer is placed by rules for instructions that ask for it.        *)
BoundsRules ==
  \A s \in Setups : \A p \in ToSet(s.phases) :
    /\ p.globals.new # "__INSTR_check_bounds"
    /\ \A r \in ToSet(p.rules) : r.new = "__INSTR_check_bounds" =>
         r.where \notin {"entry", "return"} /\ r.info

Told(i) == PTA /\ ~KnowsNothing(facts[i.val].base)

(* The instructions that the functions may have by now.                    *)
Operands ==
  {"none"} \cup ToSet(Globals)
    \cup UNION {{i.val : i \in ToSet(original[f])} : f \in ToSet(Functions)}
Calls == {Call(new, val) : new \in Definitions, val \in Operands}
Linkable ==
  {i \in Original \cup Calls :
     /\ i.val \in Operands
     /\ Inserted(i) => i.new \in Definitions
     /\ ~Inserted(i) => /\ i.new = "none"
                        /\ \E f \in ToSet(Functions) : i \in ToSet(original[f])
     /\ BoundsRules /\ i.new = "__INSTR_check_bounds" => Told(i)}

InputType == original \in Programs /\ setup \in Setups /\ facts \in Facts

LEMMA PhaseType ==
  ASSUME InputType, phase \in 1 .. Len(Phases)
  PROVE  /\ Phases[phase] \in ToSet(setup.phases) /\ Rules \in Seq(ToSet(Rules))
         /\ \A k \in 1 .. Len(Rules) : Rules[k] \in ToSet(Rules)
<1>1. Phases \in Seq(ToSet(Phases)) /\ Phases = setup.phases
  BY SetupAssumption DEF InputType, Phases, IsSequence
<1>2. Phases[phase] \in ToSet(setup.phases)
  BY <1>1
<1>3. Rules \in Seq(ToSet(Rules))
  BY <1>2, SetupAssumption DEF InputType, Rules, IsSequence, Phases
<1>4. \A k \in 1 .. Len(Rules) : Rules[k] \in ToSet(Rules)
  BY <1>3
<1> QED BY <1>2, <1>3, <1>4

LEMMA CallType ==
  ASSUME NEW new \in Definitions, NEW val \in Operands,
         BoundsRules /\ new = "__INSTR_check_bounds" => Told(Call(new, val))
  PROVE  Call(new, val) \in Linkable /\ Inserted(Call(new, val))
<1> DEFINE c == Call(new, val)
<1>1. c \in Calls /\ c.op = "inserted" /\ c.new = new /\ c.val = val
  BY DEF Call, Calls
<1> HIDE DEF c
<1>2. c \in Linkable /\ Inserted(c)
  BY <1>1 DEF Linkable, Inserted, c
<1> QED BY <1>2 DEF c

LEMMA PlacedType ==
  ASSUME InputType, phase \in 1 .. Len(Phases), NEW f, NEW where \in {"entry", "return"},
         {c.new : c \in ToSet(Placed(where, f))} \subseteq Definitions
  PROVE  /\ Placed(where, f) \in Seq(Linkable)
         /\ \A i \in 1 .. Len(Placed(where, f)) :
              /\ Inserted(Placed(where, f)[i])
              /\ \E r \in ToSet(Rules) : r.where = where /\ Placed(where, f)[i].new = r.new
<1> DEFINE Fitting == {r \in ToSet(Rules) : r.where = where}
           s == Framing(where, f)
<1>1. s \in Seq(Fitting)
  <2> DEFINE B == {i \in DOMAIN Rules : Rules[i].where = where /\ AppliesIn(Rules[i], f)}
  <2>1. s = FlattenSeq([i \in DOMAIN Rules |-> IF i \in B THEN <<Rules[i]>> ELSE <<>>])
    BY DEF Framing, Only
  <2>2. Rules \in Seq(ToSet(Rules)) /\ \A i \in DOMAIN Rules : i \in B => Rules[i] \in Fitting
    BY PhaseType
  <2> HIDE DEF s, B, Fitting
  <2> QED BY <2>1, <2>2, PickedType
<1>2. Placed(where, f) = [i \in DOMAIN s |-> Call(s[i].new, "none")]
  BY DEF Placed
<1> HIDE DEF s
<1>3. DOMAIN s = 1 .. Len(s) /\ Len(s) \in Nat /\ \A i \in 1 .. Len(s) : s[i] \in Fitting
  BY <1>1
<1>4. \A i \in 1 .. Len(s) : Placed(where, f)[i] = Call(s[i].new, "none")
  BY <1>2, <1>3
<1>5. ASSUME NEW i \in 1 .. Len(s)
      PROVE  Call(s[i].new, "none") \in Linkable /\ Inserted(Call(s[i].new, "none"))
  <2>1. s[i] \in ToSet(Rules) /\ s[i].where = where
    BY <1>3
  <2>2. Phases[phase] \in ToSet(setup.phases) /\ setup \in Setups /\ Rules = Phases[phase].rules
    BY PhaseType DEF InputType, Rules
  <2>4. ~ (BoundsRules /\ s[i].new = "__INSTR_check_bounds")
    BY <2>1, <2>2 DEF BoundsRules
  <2>5. s[i].new \in Definitions
    <3>1. Call(s[i].new, "none") \in ToSet(Placed(where, f))
      BY <1>2, <1>3, <1>4 DEF ToSet
    <3>2. Call(s[i].new, "none").new = s[i].new
      BY DEF Call
    <3> QED BY <3>1, <3>2
  <2> DEFINE n == s[i].new
  <2>6. n \in Definitions /\ ~ (BoundsRules /\ n = "__INSTR_check_bounds")
    BY <2>4, <2>5
  <2> HIDE DEF n
  <2>7. "none" \in Operands
    BY DEF Operands
  <2>8. Call(n, "none") \in Linkable /\ Inserted(Call(n, "none"))
    BY <2>6, <2>7, CallType
  <2> QED BY <2>8 DEF n
<1>6. Placed(where, f) = [i \in 1 .. Len(s) |-> Call(s[i].new, "none")]
  BY <1>2, <1>3
<1>7. Placed(where, f) \in Seq(Linkable)
  BY <1>3, <1>5, <1>6, IsASeq
<1>8. Len(Placed(where, f)) = Len(s)
  BY <1>3, <1>6, <1>7
<1>9. \A i \in 1 .. Len(s) :
        \E r \in ToSet(Rules) : r.where = where /\ Placed(where, f)[i].new = r.new
  <2> TAKE i \in 1 .. Len(s)
  <2>1. s[i] \in ToSet(Rules) /\ s[i].where = where
    BY <1>3
  <2>2. Placed(where, f)[i].new = s[i].new
    <3> DEFINE new == s[i].new
    <3>1. Placed(where, f)[i] = Call(new, "none")
      BY <1>4
    <3> HIDE DEF new
    <3>2. Placed(where, f)[i].new = new
      BY <3>1 DEF Call
    <3> QED BY <3>2 DEF new
  <2> QED BY <2>1, <2>2
<1> QED BY <1>4, <1>5, <1>7, <1>8, <1>9

(* What an entry rule places, and what a return rule.                      *)
LEMMA FrameType ==
  ASSUME InputType, phase \in 1 .. Len(Phases), NEW f,
         {c.new : c \in ToSet(Placed("entry", f) \o Placed("return", f))} \subseteq Definitions,
         NEW where \in {"entry", "return"}
  PROVE  /\ Placed(where, f) \in Seq(Linkable)
         /\ \A i \in 1 .. Len(Placed(where, f)) :
              /\ Inserted(Placed(where, f)[i])
              /\ \E r \in ToSet(Rules) : r.where = where /\ Placed(where, f)[i].new = r.new
<1> DEFINE E == Placed("entry", f)  R == Placed("return", f)
<1>1. ASSUME NEW place \in {"entry", "return"}
      PROVE  Placed(place, f) \in Seq(ToSet(Placed(place, f)))
  <2>1. Len(Framing(place, f)) \in Nat /\ DOMAIN Framing(place, f) = 1 .. Len(Framing(place, f))
    <3> DEFINE B == {i \in DOMAIN Rules : Rules[i].where = place /\ AppliesIn(Rules[i], f)}
    <3>1. Framing(place, f) =
            FlattenSeq([i \in DOMAIN Rules |-> IF i \in B THEN <<Rules[i]>> ELSE <<>>])
      BY DEF Framing, Only
    <3>2. Rules \in Seq(ToSet(Rules)) /\ \A i \in DOMAIN Rules : i \in B => Rules[i] \in ToSet(Rules)
      BY PhaseType
    <3> DEFINE Q == ToSet(Rules)  r == Rules  g == Framing(place, f)
    <3>3. r \in Seq(Q) /\ \A i \in DOMAIN r : i \in B => r[i] \in Q
      BY <3>2
    <3>4. g = FlattenSeq([i \in DOMAIN r |-> IF i \in B THEN <<r[i]>> ELSE <<>>])
      BY <3>1
    <3> HIDE DEF B, Q, r, g
    <3>5. FlattenSeq([i \in DOMAIN r |-> IF i \in B THEN <<r[i]>> ELSE <<>>]) \in Seq(Q)
      BY <3>3, PickedType
    <3>6. Len(g) \in Nat /\ DOMAIN g = 1 .. Len(g)
      BY <3>4, <3>5
    <3> QED BY <3>6 DEF g
  <2> DEFINE n == Len(Framing(place, f))
  <2>2. Placed(place, f) = [i \in 1 .. n |-> Call(Framing(place, f)[i].new, "none")]
    BY <2>1 DEF Placed
  <2>3. \A i \in 1 .. n : Call(Framing(place, f)[i].new, "none") \in ToSet(Placed(place, f))
    <3> DEFINE p == Placed(place, f)
    <3>1. DOMAIN p = 1 .. n /\ \A i \in 1 .. n : p[i] = Call(Framing(place, f)[i].new, "none")
      BY <2>2
    <3> HIDE DEF p
    <3>2. \A i \in 1 .. n : Call(Framing(place, f)[i].new, "none") \in ToSet(p)
      BY <3>1 DEF ToSet
    <3> QED BY <3>2 DEF p
  <2> QED BY <2>1, <2>2, <2>3, IsASeq
<1>2. ToSet(E) \subseteq ToSet(E \o R) /\ ToSet(R) \subseteq ToSet(E \o R)
  <2> DEFINE S == ToSet(E) \cup ToSet(R)
  <2> HIDE DEF E, R
  <2>1. E \in Seq(S) /\ R \in Seq(S)
    BY <1>1, SeqMonotonic DEF E, R
  <2> HIDE DEF S
  <2>2. /\ Len(E \o R) = Len(E) + Len(R) /\ Len(E) \in Nat /\ Len(R) \in Nat
        /\ DOMAIN (E \o R) = 1 .. Len(E) + Len(R)
        /\ DOMAIN E = 1 .. Len(E) /\ DOMAIN R = 1 .. Len(R)
        /\ \A i \in 1 .. Len(E) + Len(R) :
             (E \o R)[i] = IF i <= Len(E) THEN E[i] ELSE R[i - Len(E)]
    BY <2>1, ConcatProperties
  <2>3. \A i \in 1 .. Len(E) : i \in 1 .. Len(E) + Len(R) /\ (E \o R)[i] = E[i]
    BY <2>2
  <2>4. \A i \in 1 .. Len(R) : /\ Len(E) + i \in 1 .. Len(E) + Len(R)
                               /\ (E \o R)[Len(E) + i] = R[i]
    BY <2>2
  <2>5. ToSet(E) \subseteq ToSet(E \o R)
    BY <2>2, <2>3 DEF ToSet
  <2>6. ToSet(R) \subseteq ToSet(E \o R)
    <3> SUFFICES ASSUME NEW i \in 1 .. Len(R) PROVE R[i] \in ToSet(E \o R)
      BY <2>2 DEF ToSet
    <3>1. Len(E) + i \in DOMAIN (E \o R) /\ (E \o R)[Len(E) + i] = R[i]
      BY <2>2, <2>4
    <3> QED BY <3>1 DEF ToSet
  <2> QED BY <2>5, <2>6
<1>3. {d.new : d \in ToSet(E)} \subseteq Definitions /\ {d.new : d \in ToSet(R)} \subseteq Definitions
  BY <1>2
<1> HIDE DEF E, R
<1>4. {c.new : c \in ToSet(Placed(where, f))} \subseteq Definitions
  <2>1. where = "entry" \/ where = "return"
    OBVIOUS
  <2> QED BY <1>3, <2>1 DEF E, R
<1> QED BY <1>4, PlacedType

(* The entry and return calls add to a function and take nothing away.     *)
LEMMA FrameKeeps ==
  ASSUME InputType, phase \in 1 .. Len(Phases), NEW f, code[f] \in Seq(Linkable),
         {c.new : c \in ToSet(Placed("entry", f) \o Placed("return", f))} \subseteq Definitions
  PROVE  WithFrame(f) \in Seq(Linkable) /\ KeptIn(WithFrame(f)) = KeptIn(code[f])
<1> DEFINE E == Placed("entry", f)  R == Placed("return", f)  c == code[f]
           b == [i \in DOMAIN c |-> IF c[i].op = "ret" THEN Append(R, c[i]) ELSE <<c[i]>>]
<1>1. E \in Seq(Linkable) /\ R \in Seq(Linkable)
      /\ (\A i \in 1 .. Len(E) : Inserted(E[i])) /\ \A i \in 1 .. Len(R) : Inserted(R[i])
  <2>1. E \in Seq(Linkable) /\ \A i \in 1 .. Len(E) : Inserted(E[i])
    BY FrameType
  <2>2. R \in Seq(Linkable) /\ \A i \in 1 .. Len(R) : Inserted(R[i])
    BY FrameType
  <2> QED BY <2>1, <2>2
<1>2. WithFrame(f) = Reverse(E) \o FlattenSeq(b)
  BY DEF WithFrame
<1> HIDE DEF E, R
<1>3. DOMAIN c = 1 .. Len(c) /\ Len(c) \in Nat /\ \A i \in 1 .. Len(c) : c[i] \in Linkable
  OBVIOUS
<1> HIDE DEF c
<1>4. ASSUME NEW i \in 1 .. Len(c)
      PROVE  b[i] \in Seq(Linkable) /\ KeptIn(b[i]) = KeptIn(<<c[i]>>)
  <2>1. Append(R, c[i]) = R \o <<c[i]>> /\ <<c[i]>> \in Seq(Linkable)
    BY <1>1, <1>3, AppendIsConcat
  <2>2. R \o <<c[i]>> \in Seq(Linkable) /\ KeptIn(R \o <<c[i]>>) = KeptIn(<<c[i]>>)
    BY <1>1, <2>1, AllInserted
  <2>3. b[i] = IF c[i].op = "ret" THEN Append(R, c[i]) ELSE <<c[i]>>
    BY <1>3
  <2> HIDE DEF b
  <2> QED BY <2>1, <2>2, <2>3
<1>5. b \in Seq(Seq(Linkable)) /\ Len(b) = Len(c)
  <2>1. b = [i \in 1 .. Len(c) |-> b[i]]
    BY <1>3
  <2>2. \A i \in 1 .. Len(c) : b[i] \in Seq(Linkable)
    BY <1>4
  <2> HIDE DEF b
  <2>3. b \in Seq(Seq(Linkable))
    BY <1>3, <2>1, <2>2, IsASeq
  <2> QED BY <1>3, <2>1, <2>3
<1> HIDE DEF b
<1>6. FlattenSeq(b) \in Seq(Linkable)
  BY <1>5, FlattenType
<1>7. KeptIn(FlattenSeq(b)) = KeptIn(c)
  BY <1>4, <1>5, KeptFlatten DEF c
<1>8. Reverse(E) \in Seq(Linkable) /\ \A i \in 1 .. Len(Reverse(E)) : Inserted(Reverse(E)[i])
  BY <1>1, ReverseType
<1>9. /\ KeptIn(Reverse(E) \o FlattenSeq(b)) = KeptIn(FlattenSeq(b))
      /\ Reverse(E) \o FlattenSeq(b) \in Seq(Linkable)
  BY <1>6, <1>8, AllInserted
<1> QED BY <1>2, <1>7, <1>9 DEF c

(* A program has no calls to be taken out.                                 *)
LEMMA KeptOfProgram ==
  ASSUME NEW T, NEW d \in Seq(T), \A i \in 1 .. Len(d) : ~Inserted(d[i])
  PROVE  KeptIn(d) = d
<1> DEFINE P(k) == SubSeq(d, 1, k)
           Fails == {k \in 0 .. Len(d) : KeptIn(P(k)) # P(k)}
<1>1. Len(d) \in Nat /\ Fails \subseteq 0 .. Len(d)
  OBVIOUS
<1>2. 0 \notin Fails
  <2>1. P(0) = <<>>
    BY SubSeqEmpty
  <2> QED BY <2>1, KeptEmpty
<1>3. ASSUME NEW k \in 0 .. Len(d) - 1, k \notin Fails PROVE k + 1 \notin Fails
  <2> DEFINE e == d[k + 1]
  <2>1. k + 1 \in 1 .. Len(d) /\ 1 \in 1 .. Len(d) /\ (k + 1) - 1 = k
    BY <1>1
  <2>2. P(k) \in Seq(T) /\ e \in T /\ ~Inserted(e)
    BY <2>1, SubSeqProperties
  <2>3. P(k + 1) = P(k) \o <<e>>
    BY <2>1, SubSeqRecursiveSecond
  <2>4. KeptIn(P(k)) = P(k)
    BY <1>1, <1>3
  <2> HIDE DEF P, e
  <2>5. P(k + 1) = Append(P(k), e)
    BY <2>2, <2>3, AppendIsConcat
  <2> QED BY <2>2, <2>3, <2>4, <2>5, KeptAppend
<1>4. Fails = {}
  <2> HIDE DEF Fails
  <2> QED BY <1>1, <1>2, <1>3, NoneFails
<1>5. P(Len(d)) = d
  BY SubSeqFull
<1>6. Len(d) \in 0 .. Len(d)
  BY <1>1
<1> HIDE DEF P
<1> QED BY <1>4, <1>5, <1>6

(* The next rule to be tried is one that is meant for the instruction.     *)
LEMMA NextRuleFits ==
  ASSUME Len(Rules) \in Nat, rule \in Nat
  PROVE  /\ NextRule \in 1 .. Len(Rules) + 1
         /\ NextRule <= Len(Rules) => Matches(Rules[NextRule]) /\ NextRule > rule
<1> DEFINE I == {i \in rule + 1 .. Len(Rules) : Matches(Rules[i])}
           k == IF I # {} THEN Min(I) ELSE 0
<1>1. NextRule = IF k = 0 THEN Len(Rules) + 1 ELSE k
  BY DEF NextRule, SelectInSubSeq
<1>2. CASE I = {}
  BY <1>1, <1>2
<1>3. CASE I # {}
  <2>1. I \subseteq Nat
    OBVIOUS
  <2>2. Min(I) \in I
    <3> HIDE DEF I
    <3>1. \E m \in I : \A y \in I : m <= y
      BY <1>3, <2>1, LeastOfNats
    <3> QED BY <3>1 DEF Min
  <2>3. k \in I
    BY <1>3, <2>2
  <2> HIDE DEF k
  <2> QED BY <1>1, <2>3
<1> QED BY <1>2, <1>3

LEMMA FunctionType ==
  ASSUME fun \in 1 .. Len(Functions)
  PROVE  F \in ToSet(Functions)
<1>1. DOMAIN Functions = 1 .. Len(Functions)
  BY ProgramAssumption DEF IsSequence
<1> QED BY <1>1 DEF F, ToSet

LEMMA InputStays ==
  ASSUME UNCHANGED input
  PROVE  /\ Linkable' = Linkable /\ InputType' = InputType
         /\ setup' = setup /\ original' = original /\ facts' = facts
         /\ Phases' = Phases /\ \A f : Instruments(f)' = Instruments(f)
BY DEF input, Linkable, InputType, Operands, Calls, Told, Phases, Definitions, PTA,
       Instruments, isReachableFun

-----------------------------------------------------------------------------
(***************************************************************************)
(* The inductive invariant.                                                *)
(***************************************************************************)
CodeType == code \in [ToSet(Functions) -> Seq(Linkable)]

(* The iterator only ever stands in a function that is instrumented.       *)
Walking == pos # 0 => phase <= Len(Phases) /\ fun <= Len(Functions) /\ Instruments(F)

CodeInv == InputType /\ CodeType /\ Walking /\ TypeOK /\ ProgramKept

LEMMA CodeInit == Init => CodeInv
<1> SUFFICES ASSUME Init PROVE CodeInv
  OBVIOUS
<1>1. InputType /\ code = original /\ original \in [ToSet(Functions) -> Seq(Original)]
  BY ProgramAssumption DEF Init, InputType
<1>2. ASSUME NEW f \in ToSet(Functions)
      PROVE  /\ code[f] \in Seq(Linkable) /\ KeptIn(code[f]) = code[f]
  <2>1. code[f] \in Seq(Original)
    BY <1>1
  <2>2. /\ Len(code[f]) \in Nat /\ code[f] = [i \in 1 .. Len(code[f]) |-> code[f][i]]
        /\ DOMAIN code[f] = 1 .. Len(code[f]) /\ \A i \in 1 .. Len(code[f]) : code[f][i] \in Original
    BY <2>1
  <2>3. ASSUME NEW i \in 1 .. Len(code[f]) PROVE code[f][i] \in Linkable /\ ~Inserted(code[f][i])
    <3> DEFINE o == code[f][i]
    <3>1. o \in Original /\ o \in ToSet(original[f])
      BY <1>1, <2>2 DEF ToSet
    <3>2. o.new = "none" /\ ~Inserted(o) /\ o.val \in Operands
      BY <3>1 DEF Original, Inserted, Operands
    <3> HIDE DEF o
    <3>3. o \in Linkable /\ ~Inserted(o)
      BY <3>1, <3>2 DEF Linkable
    <3> QED BY <3>3 DEF o
  <2>4. code[f] \in Seq(Linkable)
    BY <2>2, <2>3, IsASeq
  <2> QED BY <2>1, <2>3, KeptOfProgram
<1>3. CodeType
  BY <1>1, <1>2 DEF CodeType
<1>4. ProgramKept
  BY <1>1, <1>2, KeptOfCode DEF ProgramKept
<1>5. TypeOK
  <2>6. /\ phase = 1 /\ fun = 1 /\ pos = 0 /\ rule = 0 /\ rememberedValues = {}
        /\ outcome = "running"
    BY DEF Init
  <2>1. Phases \in Seq(ToSet(Phases)) /\ Len(Phases) \in Nat
    BY <1>1, SetupAssumption DEF InputType, Phases, IsSequence
  <2>2. Len(Functions) \in Nat
    BY ProgramAssumption DEF IsSequence
  <2>3. pos \in 0 .. (IF fun <= Len(Functions) THEN Len(code[F]) + 1 ELSE 0)
    <3>1. ASSUME fun <= Len(Functions) PROVE Len(code[F]) \in Nat
      <4>1. F \in ToSet(Functions)
        BY <2>2, <2>6, <3>1, FunctionType
      <4> QED BY <1>2, <4>1
    <3> QED BY <2>6, <3>1
  <2>4. rule \in 0 .. (IF phase <= Len(Phases) THEN Len(Rules) ELSE 0)
    <3>1. ASSUME phase <= Len(Phases) PROVE Len(Rules) \in Nat
      <4>1. phase \in 1 .. Len(Phases)
        BY <2>1, <2>6, <3>1
      <4> QED BY <1>1, <4>1, PhaseType
    <3> QED BY <2>6, <3>1
  <2>5. DOMAIN flags = setup.flags /\ DOMAIN code = ToSet(Functions)
    BY <1>1 DEF Init
  <2> QED BY <2>1, <2>2, <2>3, <2>4, <2>5, <2>6 DEF TypeOK
<1>6. Walking
  BY DEF Init, Walking
<1> QED BY <1>1, <1>3, <1>4, <1>5, <1>6 DEF CodeInv

LEMMA CodeFacts ==
  ASSUME CodeInv
  PROVE  /\ Len(Phases) \in Nat /\ Len(Functions) \in Nat
         /\ phase \in Nat /\ fun \in Nat /\ pos \in Nat /\ rule \in Nat
         /\ phase >= 1 /\ fun >= 1 /\ phase <= Len(Phases) + 1 /\ fun <= Len(Functions) + 1
         /\ \A f \in ToSet(Functions) : code[f] \in Seq(Linkable) /\ Len(code[f]) \in Nat
         /\ phase <= Len(Phases) => Len(Rules) \in Nat
         /\ fun <= Len(Functions) => F \in ToSet(Functions) /\ pos <= Len(code[F]) + 1
         /\ Phases = setup.phases
<1>1. Phases \in Seq(ToSet(Phases)) /\ Len(Phases) \in Nat
  BY SetupAssumption DEF CodeInv, InputType, Phases, IsSequence
<1>2. Len(Functions) \in Nat
  BY ProgramAssumption DEF IsSequence
<1>3. /\ phase \in 1 .. Len(Phases) + 1 /\ fun \in 1 .. Len(Functions) + 1
      /\ pos \in 0 .. (IF fun <= Len(Functions) THEN Len(code[F]) + 1 ELSE 0)
      /\ rule \in 0 .. (IF phase <= Len(Phases) THEN Len(Rules) ELSE 0)
  BY DEF CodeInv, TypeOK
<1>4. \A f \in ToSet(Functions) : code[f] \in Seq(Linkable) /\ Len(code[f]) \in Nat
  BY DEF CodeInv, CodeType
<1>5. phase <= Len(Phases) => phase \in 1 .. Len(Phases) /\ Len(Rules) \in Nat
  <2>1. phase <= Len(Phases) => phase \in 1 .. Len(Phases)
    BY <1>1, <1>3
  <2> QED BY <2>1, PhaseType DEF CodeInv
<1>6. fun <= Len(Functions) => fun \in 1 .. Len(Functions) /\ F \in ToSet(Functions)
  <2>1. fun <= Len(Functions) => fun \in 1 .. Len(Functions)
    BY <1>2, <1>3
  <2> QED BY <2>1, FunctionType
<1>7. fun <= Len(Functions) => pos \in 0 .. Len(code[F]) + 1
  BY <1>3
<1>8. pos \in Nat /\ rule \in Nat
  BY <1>3
<1>9. phase \in Nat /\ fun \in Nat /\ phase >= 1 /\ fun >= 1
      /\ phase <= Len(Phases) + 1 /\ fun <= Len(Functions) + 1
  BY <1>1, <1>2, <1>3
<1> QED BY <1>1, <1>2, <1>4, <1>5, <1>6, <1>7, <1>8, <1>9 DEF Phases

(* What a step has to show.                                                *)
LEMMA CodeStep ==
  ASSUME CodeInv, UNCHANGED input,
         phase' \in 1 .. Len(Phases) + 1, fun' \in 1 .. Len(Functions) + 1,
         pos' \in 0 .. (IF fun' <= Len(Functions) THEN Len(code'[Functions[fun']]) + 1 ELSE 0),
         rule' \in 0 .. (IF phase' <= Len(Phases) THEN Len(Phases[phase'].rules) ELSE 0),
         pos' # 0 => /\ phase' <= Len(Phases) /\ fun' <= Len(Functions)
                     /\ Instruments(Functions[fun']),
         code' \in [ToSet(Functions) -> Seq(Linkable)],
         \A f \in ToSet(Functions) :
           /\ KeptIn(code'[f]) = KeptIn(code[f])
           /\ ~Instruments(f) /\ f # "main" => code'[f] = code[f],
         DOMAIN flags' = setup.flags,
         rememberedValues' \subseteq {facts[v] : v \in DOMAIN facts},
         outcome' \in {"running", "done", "failed"}
  PROVE  CodeInv'
<1>1. /\ Linkable' = Linkable /\ InputType' = InputType /\ setup' = setup
      /\ original' = original /\ facts' = facts /\ Phases' = Phases
      /\ \A f : Instruments(f)' = Instruments(f)
  BY InputStays
<1>2. InputType' /\ CodeType'
  BY <1>1 DEF CodeInv, CodeType
<1>3. Walking'
  BY <1>1 DEF Walking, F
<1>4. TypeOK'
  BY <1>1 DEF TypeOK, F, Rules, CodeInv
<1>5. ProgramKept'
  <2>1. \A f \in ToSet(Functions) : KeptIn(code[f]) = original[f]
                                    /\ (~Instruments(f) /\ f # "main" => code[f] = original[f])
    BY KeptOfCode DEF CodeInv, ProgramKept
  <2>2. \A f : Kept(f)' = KeptIn(code'[f])
    BY DEF Kept, Only, KeptIn, Inserted
  <2> QED BY <1>1, <2>1, <2>2 DEF ProgramKept
<1> QED BY <1>2, <1>3, <1>4, <1>5 DEF CodeInv

LEMMA KeepsInstrument ==
  ASSUME CodeInv, instrumentFunction PROVE CodeInv'
<1>1. phase <= Len(Phases) /\ fun <= Len(Functions) /\ pos = 0 /\ Instruments(F)
      /\ UNCHANGED <<phase, fun, setup, reachable, facts, original, flags, rememberedValues>>
  BY DEF instrumentFunction, InFunction, Runs, Stay, input
<1>2. phase \in 1 .. Len(Phases) /\ fun \in 1 .. Len(Functions) /\ F \in ToSet(Functions)
  BY <1>1, CodeFacts
<1>3. CASE {c.new : c \in ToSet(Placed("entry", F) \o Placed("return", F))} \subseteq Definitions
  <2>1. code' = [code EXCEPT ![F] = WithFrame(F)] /\ pos' = 1 /\ rule' = 0 /\ outcome' = outcome
    BY <1>3 DEF instrumentFunction
  <2>2. WithFrame(F) \in Seq(Linkable) /\ KeptIn(WithFrame(F)) = KeptIn(code[F])
    BY <1>2, <1>3, CodeFacts, FrameKeeps DEF CodeInv
  <2>3. code \in [ToSet(Functions) -> Seq(Linkable)]
    BY DEF CodeInv, CodeType
  <2> DEFINE w == WithFrame(F)
  <2> HIDE DEF w
  <2>4. code' = [code EXCEPT ![F] = w] /\ w \in Seq(Linkable) /\ KeptIn(w) = KeptIn(code[F])
    BY <2>1, <2>2 DEF w
  <2>5. code' \in [ToSet(Functions) -> Seq(Linkable)]
    BY <1>2, <2>3, <2>4
  <2>6. \A f \in ToSet(Functions) : code'[f] = IF f = F THEN w ELSE code[f]
    BY <2>3, <2>4
  <2>7. code'[F] \in Seq(Linkable) /\ Len(code'[F]) \in Nat
    BY <1>2, <2>5
  <2>8. fun' = fun /\ F = Functions[fun']
    BY <1>1 DEF F
  <2>9. Len(Rules) \in Nat /\ Rules = Phases[phase'].rules
    BY <1>1, <1>2, CodeFacts DEF Rules
  <2>10. /\ DOMAIN flags' = setup.flags /\ outcome' \in {"running", "done", "failed"}
         /\ rememberedValues' \subseteq {facts[v] : v \in DOMAIN facts}
    BY <1>1, <2>1 DEF CodeInv, TypeOK
  <2>11. phase' \in 1 .. Len(Phases) + 1 /\ fun' \in 1 .. Len(Functions) + 1
    BY <1>1, <1>2
  <2>12. pos' \in 0 .. (IF fun' <= Len(Functions) THEN Len(code'[Functions[fun']]) + 1 ELSE 0)
    BY <1>1, <2>1, <2>7, <2>8
  <2>13. rule' \in 0 .. (IF phase' <= Len(Phases) THEN Len(Phases[phase'].rules) ELSE 0)
    BY <1>1, <2>1, <2>9
  <2>14. \A f \in ToSet(Functions) :
           /\ KeptIn(code'[f]) = KeptIn(code[f])
           /\ ~Instruments(f) /\ f # "main" => code'[f] = code[f]
    BY <1>1, <2>4, <2>6
  <2>15. UNCHANGED input
    BY <1>1 DEF input
  <2> QED BY <1>1, <2>5, <2>8, <2>10, <2>11, <2>12, <2>13, <2>14, <2>15, CodeStep
<1>4. CASE ~ ({c.new : c \in ToSet(Placed("entry", F) \o Placed("return", F))} \subseteq Definitions)
  <2>1. outcome' = "failed" /\ UNCHANGED <<code, pos, rule>>
    BY <1>4 DEF instrumentFunction
  <2> QED BY <1>1, <2>1 DEF CodeInv, InputType, CodeType, Walking, TypeOK, ProgramKept, F,
                             Rules, Phases, Instruments, isReachableFun, PTA, Linkable, Operands,
                             Calls, Told, Definitions, Kept, Only
<1> QED BY <1>3, <1>4

(* A step that moves the iterator and leaves the rest.                     *)
LEMMA CodeMoves ==
  ASSUME CodeInv, UNCHANGED <<code, input, phase, flags, rememberedValues>>,
         outcome' \in {"running", "done", "failed"}, phase <= Len(Phases),
         fun' \in 1 .. Len(Functions) + 1, rule' \in 0 .. Len(Rules),
         pos' \in 0 .. (IF fun' <= Len(Functions) THEN Len(code[Functions[fun']]) + 1 ELSE 0),
         pos' # 0 => fun' <= Len(Functions) /\ Instruments(Functions[fun'])
  PROVE  CodeInv'
<1>1. /\ UNCHANGED input /\ phase' = phase /\ code' = code
      /\ flags' = flags /\ rememberedValues' = rememberedValues
  OBVIOUS
<1>2. phase' \in 1 .. Len(Phases) + 1
  BY <1>1, CodeFacts
<1>3. rule' \in 0 .. (IF phase' <= Len(Phases) THEN Len(Phases[phase'].rules) ELSE 0)
  BY <1>1 DEF Rules
<1>4. /\ code' \in [ToSet(Functions) -> Seq(Linkable)] /\ DOMAIN flags' = setup.flags
      /\ rememberedValues' \subseteq {facts[v] : v \in DOMAIN facts}
  BY <1>1 DEF CodeInv, CodeType, TypeOK
<1>5. pos' \in 0 .. (IF fun' <= Len(Functions) THEN Len(code'[Functions[fun']]) + 1 ELSE 0)
  BY <1>1
<1> QED BY <1>1, <1>2, <1>3, <1>4, <1>5, CodeStep

LEMMA KeepsOmit ==
  ASSUME CodeInv, omitFunction PROVE CodeInv'
<1>1. /\ phase <= Len(Phases) /\ fun <= Len(Functions) /\ pos = 0 /\ outcome = "running"
      /\ fun' = fun + 1 /\ pos' = pos /\ rule' = rule /\ outcome' = outcome
      /\ UNCHANGED <<code, input, phase, flags, rememberedValues>>
  BY DEF omitFunction, InFunction, Runs, Quiet
<1>2. fun' \in 1 .. Len(Functions) + 1
  BY <1>1, CodeFacts
<1>3. rule' \in 0 .. Len(Rules)
  BY <1>1 DEF CodeInv, TypeOK
<1>4. ASSUME fun' <= Len(Functions) PROVE Len(code[Functions[fun']]) \in Nat
  <2>1. fun' \in 1 .. Len(Functions)
    BY <1>2, <1>4, CodeFacts
  <2>2. Functions[fun'] \in ToSet(Functions)
    BY <2>1, ProgramAssumption DEF IsSequence
  <2> QED BY <2>2, CodeFacts
<1>5. pos' \in 0 .. (IF fun' <= Len(Functions) THEN Len(code[Functions[fun']]) + 1 ELSE 0)
  BY <1>1, <1>4
<1> QED BY <1>1, <1>2, <1>3, <1>5, CodeMoves

LEMMA KeepsNextInstruction ==
  ASSUME CodeInv, nextInstruction PROVE CodeInv'
<1>1. /\ phase <= Len(Phases) /\ fun <= Len(Functions) /\ outcome = "running"
      /\ pos \in 1 .. Len(code[F])
      /\ fun' = fun /\ pos' = pos + 1 /\ rule' = 0 /\ outcome' = outcome
      /\ UNCHANGED <<code, input, phase, flags, rememberedValues>>
  BY DEF nextInstruction, InFunction, Runs, Quiet, Stay
<1>2. fun' \in 1 .. Len(Functions) + 1 /\ rule' \in 0 .. Len(Rules)
  BY <1>1, CodeFacts
<1>3. Instruments(F) /\ F = Functions[fun'] /\ Len(code[F]) \in Nat
  BY <1>1, CodeFacts DEF CodeInv, Walking, F
<1>4. pos' \in 0 .. Len(code[F]) + 1
  BY <1>1, <1>3
<1>5. pos' \in 0 .. (IF fun' <= Len(Functions) THEN Len(code[Functions[fun']]) + 1 ELSE 0)
  BY <1>1, <1>3, <1>4
<1> QED BY <1>1, <1>2, <1>3, <1>5, CodeMoves

LEMMA KeepsNextFunction ==
  ASSUME CodeInv, nextFunction PROVE CodeInv'
<1>1. /\ phase <= Len(Phases) /\ fun <= Len(Functions) /\ outcome = "running"
      /\ fun' = fun + 1 /\ pos' = 0 /\ rule' = 0 /\ outcome' = outcome
      /\ UNCHANGED <<code, input, phase, flags, rememberedValues>>
  BY DEF nextFunction, InFunction, Runs, Quiet
<1>2. fun' \in 1 .. Len(Functions) + 1 /\ rule' \in 0 .. Len(Rules)
  BY <1>1, CodeFacts
<1>4. ASSUME fun' <= Len(Functions) PROVE Len(code[Functions[fun']]) \in Nat
  <2>1. fun' \in 1 .. Len(Functions)
    BY <1>2, <1>4, CodeFacts
  <2>2. Functions[fun'] \in ToSet(Functions)
    BY <2>1, ProgramAssumption DEF IsSequence
  <2> QED BY <2>2, CodeFacts
<1>5. pos' \in 0 .. (IF fun' <= Len(Functions) THEN Len(code[Functions[fun']]) + 1 ELSE 0)
  BY <1>1, <1>4
<1> QED BY <1>1, <1>2, <1>5, CodeMoves

LEMMA KeepsFinish ==
  ASSUME CodeInv, finish PROVE CodeInv'
BY DEF finish, input, CodeInv, InputType, CodeType, Walking, TypeOK, ProgramKept, F,
       Rules, Phases, Instruments, isReachableFun, PTA, Linkable, Operands,
       Calls, Told, Definitions, Kept, Only

(* A rule that matches places a call that can be linked.                   *)
LEMMA KeepsCheck ==
  ASSUME CodeInv, checkInstruction PROVE CodeInv'
<1> DEFINE k == NextRule
<1>1. /\ phase <= Len(Phases) /\ fun <= Len(Functions) /\ outcome = "running"
      /\ pos \in 1 .. Len(code[F]) /\ k <= Len(Rules) /\ rule' = k
      /\ phase' = phase /\ fun' = fun /\ UNCHANGED input
  BY DEF checkInstruction, InFunction, Runs, Stay
<1>2. /\ phase \in 1 .. Len(Phases) /\ fun \in 1 .. Len(Functions) /\ F \in ToSet(Functions)
      /\ Len(Rules) \in Nat /\ Len(code[F]) \in Nat /\ code[F] \in Seq(Linkable)
  BY <1>1, CodeFacts
<1>3. k \in 1 .. Len(Rules) /\ Matches(Rules[k])
  BY <1>1, <1>2, CodeFacts, NextRuleFits
<1> HIDE DEF k
<1>4. rule' \in 0 .. Len(Rules) /\ Instruments(F) /\ F = Functions[fun']
  BY <1>1, <1>3 DEF CodeInv, Walking, F
<1> DEFINE rw == Rules[k]
<1>5. \/ outcome' \in {"running", "failed"} /\ UNCHANGED <<code, pos, flags, rememberedValues>>
      \/ /\ flags' = setFlags(rw) /\ ~InfoMissing(rw)
         /\ rememberedValues' = rememberedValues \cup (IF rw.remember THEN {facts[ins.val]} ELSE {})
         /\ \/ rw.new \in Definitions /\ applyRule(rw) /\ outcome' = outcome
            \/ outcome' = "failed" /\ UNCHANGED <<code, pos>>
  <2>1. \/ ~checkConditions(rw, ins.val) /\ Quiet /\ UNCHANGED <<code, pos>>
        \/ outcome' = "failed" /\ UNCHANGED <<code, pos, flags, rememberedValues>>
        \/ /\ flags' = setFlags(rw) /\ ~InfoMissing(rw)
           /\ rememberedValues' = rememberedValues \cup (IF rw.remember THEN {facts[ins.val]} ELSE {})
           /\ IF rw.new \in Definitions
                THEN applyRule(rw) /\ UNCHANGED outcome
                ELSE outcome' = "failed" /\ UNCHANGED <<code, pos>>
    BY DEF checkInstruction, k
  <2> HIDE DEF rw
  <2>2. ASSUME ~checkConditions(rw, ins.val), Quiet, UNCHANGED <<code, pos>>
        PROVE  outcome' \in {"running", "failed"} /\ UNCHANGED <<code, pos, flags, rememberedValues>>
    BY <1>1, <2>2 DEF Quiet
  <2> QED BY <2>1, <2>2
<1>6. CASE outcome' \in {"running", "failed"} /\ UNCHANGED <<code, pos, flags, rememberedValues>>
  <2>1. pos' \in 0 .. (IF fun' <= Len(Functions) THEN Len(code[Functions[fun']]) + 1 ELSE 0)
    BY <1>1, <1>2, <1>4, <1>6
  <2> QED BY <1>1, <1>2, <1>4, <1>6, <2>1, CodeMoves
<1>7. CASE /\ flags' = setFlags(rw) /\ ~InfoMissing(rw)
           /\ rememberedValues' = rememberedValues \cup (IF rw.remember THEN {facts[ins.val]} ELSE {})
           /\ \/ rw.new \in Definitions /\ applyRule(rw) /\ outcome' = outcome
              \/ outcome' = "failed" /\ UNCHANGED <<code, pos>>
  <2>1. /\ rw \in ToSet(Rules) /\ Phases[phase] \in ToSet(setup.phases) /\ setup \in Setups
        /\ Rules = Phases[phase].rules /\ original \in Programs /\ facts \in Facts
    BY <1>2, <1>3, PhaseType DEF CodeInv, InputType, Rules
  <2>2. rw.op = ins.op /\ rw.where \in {"before", "after"} /\ rw.op # "inserted"
    <3>1. rw.op # "inserted"
      BY <2>1, SetupAssumption
    <3> QED BY <1>3, <3>1 DEF Matches
  <2>3. /\ ins \in Linkable /\ ins.val \in Operands
        /\ \E f \in ToSet(Functions) : ins \in ToSet(original[f])
    <3>1. ins \in Linkable
      BY <1>1, <1>2 DEF ins
    <3> QED BY <2>2, <3>1 DEF Linkable, Inserted
  <2>4. ASSUME rw.remember PROVE ins.val \in DOMAIN facts
    <3>1. PICK f \in ToSet(Functions) : ins \in ToSet(original[f])
      BY <2>3
    <3>2. PICK i \in DOMAIN original[f] : original[f][i] = ins
      BY <3>1 DEF ToSet
    <3> HIDE DEF rw
    <3>3. original[f][i].op = rw.op => original[f][i].val \in DOMAIN facts
      BY <2>1, <2>4, SetupAssumption
    <3> QED BY <2>2, <3>2, <3>3
  <2>5. DOMAIN flags' = setup.flags
    BY <1>7 DEF setFlags, CodeInv, TypeOK
  <2>6. rememberedValues' \subseteq {facts[v] : v \in DOMAIN facts}
    <3>1. rememberedValues \subseteq {facts[v] : v \in DOMAIN facts}
      BY DEF CodeInv, TypeOK
    <3> HIDE DEF rw
    <3> QED BY <1>7, <2>4, <3>1
  <2>7. ASSUME rw.new \in Definitions
        PROVE  Call(rw.new, ins.val) \in Linkable /\ Inserted(Call(rw.new, ins.val))
    <3>1. BoundsRules /\ rw.new = "__INSTR_check_bounds" => rw.info
      BY <2>1 DEF BoundsRules
    <3>2. rw.info => Told(ins)
      BY <1>7 DEF InfoMissing, Told
    <3>3. Told(Call(rw.new, ins.val)) = Told(ins)
      BY DEF Told, Call
    <3> HIDE DEF rw
    <3> QED BY <2>3, <2>7, <3>1, <3>2, <3>3, CallType
  <2>8. CASE outcome' = "failed" /\ UNCHANGED <<code, pos>>
    <3>1. pos' \in 0 .. (IF fun' <= Len(Functions) THEN Len(code'[Functions[fun']]) + 1 ELSE 0)
      BY <1>1, <1>2, <1>4, <2>8
    <3>2. rule' \in 0 .. (IF phase' <= Len(Phases) THEN Len(Phases[phase'].rules) ELSE 0)
      BY <1>1, <1>4 DEF Rules
    <3>3. code' \in [ToSet(Functions) -> Seq(Linkable)] /\ code' = code
      BY <2>8 DEF CodeInv, CodeType
    <3>4. phase' \in 1 .. Len(Phases) + 1 /\ fun' \in 1 .. Len(Functions) + 1
      BY <1>1, <1>2
    <3> QED BY <1>1, <1>4, <2>5, <2>6, <2>8, <3>1, <3>2, <3>3, <3>4, CodeStep
  <2>9. CASE rw.new \in Definitions /\ applyRule(rw) /\ outcome' = outcome
    <3> DEFINE call == Call(rw.new, ins.val)
               put == IF rw.where = "before" THEN pos ELSE pos + 1
               w == InsertAt(code[F], put, call)
    <3>1. code' = [code EXCEPT ![F] = w] /\ pos' = IF rw.where = "before" THEN pos + 1 ELSE pos
      BY <2>9 DEF applyRule
    <3>2. call \in Linkable /\ Inserted(call)
      BY <2>7, <2>9
    <3>3. put \in 1 .. Len(code[F]) + 1
      BY <1>1, <1>2
    <3> HIDE DEF call, put
    <3>4. w \in Seq(Linkable) /\ Len(w) = Len(code[F]) + 1 /\ KeptIn(w) = KeptIn(code[F])
      BY <1>2, <3>2, <3>3, InsertKeeps
    <3> HIDE DEF w
    <3>5. code \in [ToSet(Functions) -> Seq(Linkable)]
      BY DEF CodeInv, CodeType
    <3>6. code' \in [ToSet(Functions) -> Seq(Linkable)]
      BY <3>1, <3>4, <3>5
    <3>7. \A f \in ToSet(Functions) : code'[f] = IF f = F THEN w ELSE code[f]
      BY <3>1, <3>5
    <3>8. Len(code'[F]) = Len(code[F]) + 1 /\ pos' \in 0 .. Len(code'[F]) + 1
      BY SMTT(30), <1>1, <1>2, <3>1, <3>4, <3>7
    <3>9. pos' \in 0 .. (IF fun' <= Len(Functions) THEN Len(code'[Functions[fun']]) + 1 ELSE 0)
      BY <1>1, <1>4, <3>8
    <3>10. rule' \in 0 .. (IF phase' <= Len(Phases) THEN Len(Phases[phase'].rules) ELSE 0)
      BY <1>1, <1>4 DEF Rules
    <3>11. phase' \in 1 .. Len(Phases) + 1 /\ fun' \in 1 .. Len(Functions) + 1
      BY <1>1, <1>2
    <3>12. \A f \in ToSet(Functions) :
             /\ KeptIn(code'[f]) = KeptIn(code[f])
             /\ ~Instruments(f) /\ f # "main" => code'[f] = code[f]
      BY <1>4, <3>4, <3>7
    <3> QED BY <1>1, <1>4, <2>5, <2>6, <2>9, <3>6, <3>9, <3>10, <3>11, <3>12, CodeStep
  <2> QED BY <1>7, <2>8, <2>9
<1> QED BY <1>5, <1>6, <1>7

LEMMA PickedGlobalsType ==
  ASSUME NEW g
  PROVE  PickedGlobals(g) \in Seq(ToSet(Globals))
<1> DEFINE B == {j \in DOMAIN Globals : \A i \in DOMAIN g.conds :
                   checkAnalysis(setup.plugins, g.conds[i], g.forAll, facts[Globals[j]],
                                 rememberedValues)}
           Q == ToSet(Globals)
<1>1. PickedGlobals(g) = FlattenSeq([i \in DOMAIN Globals |-> IF i \in B THEN <<Globals[i]>> ELSE <<>>])
  BY DEF PickedGlobals, Only
<1>2. Globals \in Seq(Q)
  BY ProgramAssumption DEF IsSequence
<1> HIDE DEF B, Q
<1>3. \A i \in DOMAIN Globals : Globals[i] \in Q
  BY <1>2
<1>4. FlattenSeq([i \in DOMAIN Globals |-> IF i \in B THEN <<Globals[i]>> ELSE <<>>]) \in Seq(Q)
  BY <1>2, <1>3, PickedType
<1> QED BY <1>1, <1>4 DEF Q

(* The calls for globals go in front of main.                              *)
LEMMA KeepsGlobals ==
  ASSUME CodeInv, instrumentGlobals PROVE CodeInv'
<1> DEFINE g == Phases[phase].globals  picked == PickedGlobals(g)
           calls == [i \in DOMAIN picked |-> Call(g.new, picked[i])]
<1>1. /\ phase <= Len(Phases) /\ outcome = "running"
      /\ phase' = phase + 1 /\ fun' = 1 /\ pos' = 0 /\ rule' = 0
      /\ UNCHANGED <<input, flags, rememberedValues>>
  BY DEF instrumentGlobals, Runs
<1>2. \/ UNCHANGED <<code, outcome>>
      \/ outcome' = "failed" /\ UNCHANGED code
      \/ /\ g.in # "none" /\ g.in # "*" /\ {c.new : c \in ToSet(calls)} \subseteq Definitions
         /\ code' = [code EXCEPT ![g.in] = Reverse(calls) \o @] /\ UNCHANGED outcome
  BY DEF instrumentGlobals
<1>3. /\ Phases[phase] \in ToSet(setup.phases) /\ setup \in Setups
      /\ phase \in 1 .. Len(Phases) /\ Len(Phases) \in Nat
  <2>1. phase \in 1 .. Len(Phases) /\ Len(Phases) \in Nat
    BY <1>1, CodeFacts
  <2> QED BY <2>1, PhaseType DEF CodeInv, InputType
<1>4. picked \in Seq(ToSet(Globals))
  BY PickedGlobalsType
<1> DEFINE n == Len(picked)
<1>5. calls = [i \in 1 .. n |-> Call(g.new, picked[i])] /\ n \in Nat
      /\ \A i \in 1 .. n : picked[i] \in Operands
  <2> HIDE DEF picked
  <2> QED BY <1>4 DEF Operands
<1>6. g.new # "__INSTR_check_bounds" \/ ~BoundsRules
  BY <1>3 DEF BoundsRules
<1>7. g.in \in {"none", "*", "main"}
  BY <1>3, SetupAssumption
<1> HIDE DEF g, picked, calls, n
<1>8. ASSUME {c.new : c \in ToSet(calls)} \subseteq Definitions
      PROVE  calls \in Seq(Linkable) /\ Len(calls) = n
             /\ \A i \in 1 .. n : Inserted(calls[i])
  <2>1. ASSUME NEW i \in 1 .. n
        PROVE  Call(g.new, picked[i]) \in Linkable /\ Inserted(Call(g.new, picked[i]))
    <3>1. calls[i] = Call(g.new, picked[i]) /\ calls[i] \in ToSet(calls)
      BY <1>5 DEF ToSet
    <3>2. calls[i].new = g.new
      BY <3>1 DEF Call
    <3>3. g.new \in Definitions
      BY <1>8, <3>1, <3>2
    <3>4. picked[i] \in Operands
      BY <1>5
    <3> DEFINE new == g.new  p == picked[i]
    <3>5. new \in Definitions /\ p \in Operands /\ ~ (BoundsRules /\ new = "__INSTR_check_bounds")
      BY <1>6, <3>3, <3>4
    <3> HIDE DEF new, p
    <3>6. Call(new, p) \in Linkable /\ Inserted(Call(new, p))
      BY <3>5, CallType
    <3> QED BY <3>6 DEF new, p
  <2>2. calls \in Seq(Linkable)
    BY <1>5, <2>1, IsASeq
  <2>3. Len(calls) = n
    BY <1>5, <2>2
  <2> QED BY <1>5, <2>1, <2>2, <2>3
<1>9. /\ code' \in [ToSet(Functions) -> Seq(Linkable)]
      /\ \A f \in ToSet(Functions) : KeptIn(code'[f]) = KeptIn(code[f])
                                     /\ (f # "main" => code'[f] = code[f])
  <2>1. code \in [ToSet(Functions) -> Seq(Linkable)]
    BY DEF CodeInv, CodeType
  <2>2. CASE code' = code
    BY <2>1, <2>2
  <2>3. CASE /\ g.in # "none" /\ g.in # "*" /\ {c.new : c \in ToSet(calls)} \subseteq Definitions
             /\ code' = [code EXCEPT ![g.in] = Reverse(calls) \o @]
    <3>1. g.in = "main"
      BY <1>7, <2>3
    <3> DEFINE r == Reverse(calls)  w == r \o code["main"]
    <3>2. r \in Seq(Linkable) /\ \A i \in 1 .. Len(r) : Inserted(r[i])
      BY <1>8, <2>3, ReverseType
    <3> HIDE DEF r
    <3>3. "main" \in ToSet(Functions) => w \in Seq(Linkable) /\ KeptIn(w) = KeptIn(code["main"])
      BY <2>1, <3>2, AllInserted
    <3>4. code' = [code EXCEPT !["main"] = w]
      BY <2>3, <3>1 DEF r
    <3> HIDE DEF w
    <3>5. \A f \in ToSet(Functions) : code'[f] = IF f = "main" THEN w ELSE code[f]
      BY <2>1, <3>4
    <3>6. code' \in [ToSet(Functions) -> Seq(Linkable)]
      BY <2>1, <3>3, <3>4
    <3> QED BY <3>3, <3>5, <3>6
  <2> QED BY <1>2, <2>2, <2>3
<1>10. phase' \in 1 .. Len(Phases) + 1 /\ fun' \in 1 .. Len(Functions) + 1
  <2>1. Len(Functions) \in Nat
    BY CodeFacts
  <2> QED BY <1>1, <1>3, <2>1
<1>11. pos' \in 0 .. (IF fun' <= Len(Functions) THEN Len(code'[Functions[fun']]) + 1 ELSE 0)
  <2>1. ASSUME fun' <= Len(Functions) PROVE Len(code'[Functions[fun']]) \in Nat
    <3>1. fun' \in 1 .. Len(Functions)
      BY <1>1, <2>1, CodeFacts
    <3>2. Functions[fun'] \in ToSet(Functions)
      BY <3>1, ProgramAssumption DEF IsSequence
    <3> QED BY <1>9, <3>2
  <2> QED BY <1>1, <2>1
<1>12. rule' \in 0 .. (IF phase' <= Len(Phases) THEN Len(Phases[phase'].rules) ELSE 0)
  <2>1. ASSUME phase' <= Len(Phases) PROVE Len(Phases[phase'].rules) \in Nat
    <3>1. phase' \in 1 .. Len(Phases)
      BY <1>10, <1>3, <2>1
    <3>2. Phases \in Seq(ToSet(Phases)) /\ Phases = setup.phases
      BY <1>3, SetupAssumption DEF IsSequence, Phases
    <3>3. Phases[phase'] \in ToSet(setup.phases)
      BY <3>1, <3>2
    <3>4. Phases[phase'].rules \in Seq(ToSet(Phases[phase'].rules))
      BY <1>3, <3>3, SetupAssumption DEF IsSequence
    <3> QED BY <3>4
  <2> QED BY <1>1, <2>1
<1>13. /\ DOMAIN flags' = setup.flags /\ outcome' \in {"running", "done", "failed"}
       /\ rememberedValues' \subseteq {facts[v] : v \in DOMAIN facts}
  BY <1>1, <1>2 DEF CodeInv, TypeOK
<1> QED BY <1>1, <1>9, <1>10, <1>11, <1>12, <1>13, CodeStep

LEMMA CodeInductive == CodeInv /\ [Next]_vars => CodeInv'
<1> SUFFICES ASSUME CodeInv, [Next]_vars PROVE CodeInv'
  OBVIOUS
<1>1. CASE instrumentFunction
  BY <1>1, KeepsInstrument
<1>2. CASE omitFunction
  BY <1>2, KeepsOmit
<1>3. CASE checkInstruction
  BY <1>3, KeepsCheck
<1>4. CASE nextInstruction
  BY <1>4, KeepsNextInstruction
<1>5. CASE nextFunction
  BY <1>5, KeepsNextFunction
<1>6. CASE instrumentGlobals
  BY <1>6, KeepsGlobals
<1>7. CASE finish
  BY <1>7, KeepsFinish
<1>8. CASE UNCHANGED vars
  BY SMTT(30), <1>8 DEF vars, input, CodeInv, InputType, CodeType, Walking, TypeOK, ProgramKept, F,
       Rules, Phases, Instruments, isReachableFun, PTA, Linkable, Operands,
       Calls, Told, Definitions, Kept, Only
<1> QED BY <1>1, <1>2, <1>3, <1>4, <1>5, <1>6, <1>7, <1>8 DEF Next

LEMMA CodeInvariant == Spec => []CodeInv
BY CodeInit, CodeInductive, PTL DEF Spec

-----------------------------------------------------------------------------
(* The iterator stays within the function it walks over while calls are    *)
(* inserted around it, no value is remembered that the plugins do not      *)
(* know, and no flag appears that the configuration did not declare        *)
(* (instr.cpp:360-399, 849-869, 1242-1249).                                *)
THEOREM IteratorStaysInside == Spec => []TypeOK
<1>1. CodeInv => TypeOK
  BY DEF CodeInv
<1> QED BY <1>1, CodeInvariant, PTL

(* Whatever the rules, the plugins and the flags: taking the inserted      *)
(* calls out of a function gives back the function as it was, and what DG  *)
(* does not reach is left as it was, but for main, which gets the calls    *)
(* for globals (instr.cpp:360-399, 1215-1250).                             *)
THEOREM ProgramIsKept == Spec => []ProgramKept
<1>1. CodeInv => ProgramKept
  BY DEF CodeInv
<1> QED BY <1>1, CodeInvariant, PTL

(* Where pointer infos are only asked for by rules for instructions, as in *)
(* the configurations, a finished module calls functions that its          *)
(* definitions have, and __INSTR_check_bounds only where the points-to     *)
(* plugin told it the bounds (instr.cpp:168-216, 553-623).                 *)
THEOREM FinishedIsLinkable ==
  ASSUME BoundsRules
  PROVE  Spec => []DoneMeansLinkable
<1>1. CodeInv => DoneMeansLinkable
  <2> SUFFICES ASSUME CodeInv, NEW f \in ToSet(Functions), NEW i \in DOMAIN code[f]
               PROVE  /\ code[f][i].op = "inserted" => code[f][i].new \in Definitions
                      /\ code[f][i].new = "__INSTR_check_bounds" =>
                           PTA /\ ~KnowsNothing(facts[code[f][i].val].base)
    BY DEF DoneMeansLinkable
  <2>1. code[f][i] \in Linkable
    <3>1. code[f] \in Seq(Linkable)
      BY DEF CodeInv, CodeType
    <3> QED BY <3>1
  <2> QED BY <2>1 DEF Linkable, Inserted, Told
<1> QED BY <1>1, CodeInvariant, PTL

-----------------------------------------------------------------------------
(***************************************************************************)
(* Calls in front of an instruction.                                       *)
(***************************************************************************)
(* The calls of the functions N between instruction i and the one before.  *)
Watched(c, i, N) == {j \in 1 .. i - 1 : c[j].new \in N /\ \A k \in j .. i - 1 : Inserted(c[k])}

(* The code d is c with more calls inserted, none of them of N; what was   *)
(* at i is now at m[i].                                                    *)
Grown(c, d, m, N) ==
  /\ \A i \in 1 .. Len(c) : m[i] \in 1 .. Len(d) /\ d[m[i]] = c[i]
  /\ \A i, j \in 1 .. Len(c) : i < j => m[i] < m[j]
  /\ \A k \in 1 .. Len(d) :
       (\A i \in 1 .. Len(c) : m[i] # k) => Inserted(d[k]) /\ d[k].new \notin N

LEMMA WatchedGrown ==
  ASSUME NEW T, NEW c \in Seq(T), NEW d \in Seq(T), NEW m, NEW N, Grown(c, d, m, N),
         NEW i \in 1 .. Len(c)
  PROVE  /\ \A j \in Watched(c, i, N) : m[j] \in Watched(d, m[i], N) /\ d[m[j]] = c[j]
         /\ \A k \in Watched(d, m[i], N) : \E j \in Watched(c, i, N) : m[j] = k /\ c[j] = d[k]
<1>1. Len(c) \in Nat /\ Len(d) \in Nat
  OBVIOUS
<1>2. /\ \A x \in 1 .. Len(c) : m[x] \in 1 .. Len(d) /\ d[m[x]] = c[x]
      /\ \A x, y \in 1 .. Len(c) : x < y => m[x] < m[y]
      /\ \A k \in 1 .. Len(d) :
           (\A x \in 1 .. Len(c) : m[x] # k) => Inserted(d[k]) /\ d[k].new \notin N
  BY DEF Grown
<1>3. ASSUME NEW j \in Watched(c, i, N) PROVE m[j] \in Watched(d, m[i], N) /\ d[m[j]] = c[j]
  <2>1. j \in 1 .. i - 1 /\ c[j].new \in N /\ \A k \in j .. i - 1 : Inserted(c[k])
    BY DEF Watched
  <2>2. j \in 1 .. Len(c) /\ j < i
    BY <1>1, <2>1
  <2>3. m[j] \in 1 .. Len(d) /\ m[i] \in 1 .. Len(d) /\ m[j] < m[i] /\ d[m[j]] = c[j]
    BY <1>2, <2>2
  <2>4. ASSUME NEW k \in m[j] .. m[i] - 1 PROVE Inserted(d[k])
    <3>1. k \in 1 .. Len(d) /\ m[j] <= k /\ k < m[i]
      BY <1>1, <2>3
    <3>2. ASSUME NEW x \in 1 .. Len(c), m[x] = k PROVE Inserted(d[k])
      <4>1. ~ (x < j) /\ ~ (i < x) /\ x # i
        BY <1>1, <1>2, <2>2, <2>3, <3>1, <3>2
      <4>2. x \in j .. i - 1
        BY <2>2, <4>1
      <4> QED BY <1>2, <2>1, <3>2, <4>2
    <3> QED BY <1>2, <3>1, <3>2
  <2>5. m[j] \in 1 .. m[i] - 1
    BY <1>1, <2>3
  <2> QED BY <2>1, <2>3, <2>4, <2>5 DEF Watched
<1>4. ASSUME NEW k \in Watched(d, m[i], N)
      PROVE  \E j \in Watched(c, i, N) : m[j] = k /\ c[j] = d[k]
  <2>1. k \in 1 .. m[i] - 1 /\ d[k].new \in N /\ \A l \in k .. m[i] - 1 : Inserted(d[l])
    BY DEF Watched
  <2>2. m[i] \in 1 .. Len(d) /\ k \in 1 .. Len(d) /\ k < m[i]
    BY <1>1, <1>2, <2>1
  <2>3. PICK j \in 1 .. Len(c) : m[j] = k
    BY <1>2, <2>1, <2>2
  <2>4. d[k] = c[j]
    BY <1>2, <2>3
  <2>5. ~ (i < j) /\ j # i
    BY <1>1, <1>2, <2>2, <2>3
  <2>6. j \in 1 .. i - 1
    BY <2>5
  <2>7. ASSUME NEW x \in j .. i - 1 PROVE Inserted(c[x])
    <3>1. x \in 1 .. Len(c) /\ x < i /\ (j < x \/ j = x)
      BY <1>1, <2>6
    <3>2. m[x] \in 1 .. Len(d) /\ m[x] < m[i] /\ k <= m[x]
      BY <1>1, <1>2, <2>2, <2>3, <3>1
    <3>3. m[x] \in k .. m[i] - 1
      BY <2>2, <3>2
    <3> QED BY <1>2, <2>1, <3>1, <3>3
  <2>8. j \in Watched(c, i, N)
    BY <2>1, <2>4, <2>6, <2>7 DEF Watched
  <2> QED BY <2>3, <2>4, <2>8
<1> QED BY <1>3, <1>4

(* The calls of N in front of instruction i are those that the rules D     *)
(* place there, one of each.                                               *)
Shows(c, i, N, D, R) ==
  /\ \A k \in D : \E j \in Watched(c, i, N) : c[j] = Call(R[k].new, c[i].val)
  /\ \A j \in Watched(c, i, N) : \E k \in D : c[j] = Call(R[k].new, c[i].val)
  /\ \A j, l \in Watched(c, i, N) : j # l =>
       \E k, h \in D : /\ k # h
                       /\ c[j] = Call(R[k].new, c[i].val) /\ c[l] = Call(R[h].new, c[i].val)

LEMMA ShowsMoved ==
  ASSUME NEW c, NEW d, NEW i, NEW l, NEW m, NEW N, d[l] = c[i],
         \A j \in Watched(c, i, N) : m[j] \in Watched(d, l, N) /\ d[m[j]] = c[j],
         \A k \in Watched(d, l, N) : \E j \in Watched(c, i, N) : m[j] = k /\ c[j] = d[k],
         NEW D, NEW R, Shows(c, i, N, D, R)
  PROVE  Shows(d, l, N, D, R)
<1> DEFINE W == Watched(c, i, N)  V == Watched(d, l, N)  P(k) == Call(R[k].new, c[i].val)
<1>1. /\ \A k \in D : \E j \in W : c[j] = P(k)
      /\ \A j \in W : \E k \in D : c[j] = P(k)
      /\ \A j, y \in W : j # y => \E k, h \in D : k # h /\ c[j] = P(k) /\ c[y] = P(h)
  BY DEF Shows
<1> HIDE DEF W, V, P
<1>2. /\ \A j \in W : m[j] \in V /\ d[m[j]] = c[j]
      /\ \A k \in V : \E j \in W : m[j] = k /\ c[j] = d[k]
  BY DEF W, V
<1>3. \A k \in D : \E j \in V : d[j] = P(k)
  BY <1>1, <1>2
<1>4. \A j \in V : \E k \in D : d[j] = P(k)
  BY <1>1, <1>2
<1>5. ASSUME NEW j \in V, NEW y \in V, j # y
      PROVE  \E k, h \in D : k # h /\ d[j] = P(k) /\ d[y] = P(h)
  <2>1. PICK x \in W : m[x] = j /\ c[x] = d[j]
    BY <1>2
  <2>2. PICK z \in W : m[z] = y /\ c[z] = d[y]
    BY <1>2
  <2> QED BY <1>1, <1>5, <2>1, <2>2
<1> QED BY <1>3, <1>4, <1>5 DEF Shows, V, P

LEMMA ShowsGrown ==
  ASSUME NEW T, NEW c \in Seq(T), NEW d \in Seq(T), NEW m, NEW N, Grown(c, d, m, N),
         NEW i \in 1 .. Len(c), NEW D, NEW R, Shows(c, i, N, D, R)
  PROVE  Shows(d, m[i], N, D, R)
<1>1. /\ \A j \in Watched(c, i, N) : m[j] \in Watched(d, m[i], N) /\ d[m[j]] = c[j]
      /\ \A k \in Watched(d, m[i], N) : \E j \in Watched(c, i, N) : m[j] = k /\ c[j] = d[k]
  BY WatchedGrown
<1>2. d[m[i]] = c[i]
  BY DEF Grown
<1> QED BY <1>1, <1>2, ShowsMoved

(* Where the instructions are after an insertion.                          *)
LEMMA InsertPlaces ==
  ASSUME NEW T, NEW c \in Seq(T), NEW p \in 1 .. Len(c) + 1, NEW e \in T
  PROVE  /\ InsertAt(c, p, e) \in Seq(T) /\ Len(InsertAt(c, p, e)) = Len(c) + 1
         /\ \A i \in 1 .. Len(c) + 1 :
              InsertAt(c, p, e)[i] = IF i < p THEN c[i] ELSE IF i = p THEN e ELSE c[i - 1]
<1> DEFINE a == SubSeq(c, 1, p - 1)  b == SubSeq(c, p, Len(c))  n == Len(c)
<1>1. n \in Nat /\ \A i \in 1 .. n : c[i] \in T
  OBVIOUS
<1>2. /\ a \in Seq(T) /\ Len(a) = p - 1 /\ \A i \in 1 .. p - 1 : a[i] = c[i]
  <2>1. 1 \in Int /\ p - 1 \in Int /\ \A i \in 1 .. p - 1 : c[i] \in T
    BY <1>1
  <2>2. a \in Seq(T) /\ Len(a) = p - 1
    BY <2>1, SubSeqProperties
  <2>3. \A i \in 1 .. p - 1 : a[i] = c[i]
    BY <1>1
  <2> QED BY <2>2, <2>3
<1>3. /\ b \in Seq(T) /\ Len(b) = (n - p) + 1
      /\ \A i \in 1 .. (n - p) + 1 : b[i] = c[(p + i) - 1]
  <2>1. p \in Int /\ n \in Int /\ \A i \in p .. n : c[i] \in T
    BY <1>1
  <2>2. b \in Seq(T) /\ Len(b) = (n - p) + 1
    BY <1>1, <2>1, SubSeqProperties
  <2>3. \A i \in 1 .. (n - p) + 1 : b[i] = c[(p + i) - 1]
    BY <1>1
  <2> QED BY <2>2, <2>3
<1>4. InsertAt(c, p, e) = (a \o <<e>>) \o b
  BY DEF InsertAt
<1> HIDE DEF a, b, n
<1> DEFINE x == a \o <<e>>
<1>5. /\ x \in Seq(T) /\ Len(x) = p
      /\ \A i \in 1 .. p : x[i] = IF i < p THEN c[i] ELSE e
  <2>1. x = Append(a, e)
    BY <1>2, AppendIsConcat
  <2>2. /\ Append(a, e) \in Seq(T) /\ Len(Append(a, e)) = Len(a) + 1
        /\ \A i \in 1 .. Len(a) : Append(a, e)[i] = a[i]
        /\ Append(a, e)[Len(a) + 1] = e
    BY <1>2, AppendProperties
  <2> HIDE DEF x
  <2> QED BY <1>1, <1>2, <2>1, <2>2
<1> HIDE DEF x
<1>6. /\ x \o b \in Seq(T) /\ Len(x \o b) = Len(x) + Len(b)
      /\ \A i \in 1 .. Len(x) + Len(b) : (x \o b)[i] = IF i <= Len(x) THEN x[i] ELSE b[i - Len(x)]
  BY <1>3, <1>5, ConcatProperties
<1>7. p + ((n - p) + 1) = n + 1 /\ p \in Nat
  BY <1>1 DEF n
<1>8. ASSUME NEW i \in 1 .. n + 1
      PROVE  (x \o b)[i] = IF i < p THEN c[i] ELSE IF i = p THEN e ELSE c[i - 1]
  <2>1. (x \o b)[i] = IF i <= p THEN x[i] ELSE b[i - p]
    BY <1>3, <1>5, <1>6, <1>7
  <2>2. CASE i <= p
    BY <1>5, <1>7, <2>1, <2>2
  <2>3. CASE ~ (i <= p)
    <3> DEFINE j == i - p
    <3>1. j \in 1 .. (n - p) + 1 /\ (p + j) - 1 = i - 1
      BY <1>1, <1>7, <2>3
    <3> HIDE DEF j
    <3>2. b[j] = c[i - 1]
      BY <1>3, <3>1
    <3> QED BY <1>1, <1>7, <2>1, <2>3, <3>2 DEF j
  <2> QED BY <2>2, <2>3
<1> QED BY <1>3, <1>4, <1>5, <1>6, <1>7, <1>8 DEF x, n

Shifted(n, p) == [i \in 1 .. n |-> IF i < p THEN i ELSE i + 1]

LEMMA GrownInsert ==
  ASSUME NEW T, NEW c \in Seq(T), NEW p \in 1 .. Len(c) + 1, NEW e \in T,
         Inserted(e), NEW N, e.new \notin N
  PROVE  Grown(c, InsertAt(c, p, e), Shifted(Len(c), p), N)
<1> DEFINE d == InsertAt(c, p, e)  m == Shifted(Len(c), p)  n == Len(c)
<1>1. /\ Len(d) = n + 1 /\ n \in Nat
      /\ \A i \in 1 .. n + 1 : d[i] = IF i < p THEN c[i] ELSE IF i = p THEN e ELSE c[i - 1]
  <2>1. n \in Nat
    OBVIOUS
  <2>2. /\ Len(InsertAt(c, p, e)) = Len(c) + 1
        /\ \A i \in 1 .. Len(c) + 1 :
             InsertAt(c, p, e)[i] = IF i < p THEN c[i] ELSE IF i = p THEN e ELSE c[i - 1]
    BY InsertPlaces
  <2> HIDE DEF d
  <2> QED BY <2>1, <2>2 DEF d
<1>2. \A i \in 1 .. n : m[i] = IF i < p THEN i ELSE i + 1
  BY DEF Shifted
<1> HIDE DEF d, m, n
<1>3. ASSUME NEW i \in 1 .. n PROVE m[i] \in 1 .. Len(d) /\ d[m[i]] = c[i]
  <2>1. CASE i < p
    BY <1>1, <1>2, <2>1
  <2>2. CASE ~ (i < p)
    <3>1. m[i] = i + 1 /\ i + 1 \in 1 .. n + 1 /\ ~ (i + 1 < p) /\ i + 1 # p /\ (i + 1) - 1 = i
      BY <1>1, <1>2, <2>2
    <3> QED BY <1>1, <3>1
  <2> QED BY <2>1, <2>2
<1>4. \A i, j \in 1 .. n : i < j => m[i] < m[j]
  BY <1>1, <1>2
<1>5. ASSUME NEW k \in 1 .. Len(d), \A i \in 1 .. n : m[i] # k
      PROVE  k = p
  <2>1. CASE k < p
    <3>1. k \in 1 .. n
      BY <1>1, <2>1 DEF n
    <3> QED BY <1>2, <1>5, <2>1, <3>1
  <2>2. CASE k > p
    <3>1. k - 1 \in 1 .. n /\ ~ (k - 1 < p) /\ (k - 1) + 1 = k
      BY <1>1, <2>2
    <3> DEFINE i == k - 1
    <3>2. i \in 1 .. n /\ ~ (i < p) /\ i + 1 = k
      BY <3>1
    <3> HIDE DEF i
    <3> QED BY <1>2, <1>5, <3>2
  <2> QED BY <1>1, <2>1, <2>2
<1>6. d[p] = e
  BY <1>1 DEF n
<1>7. \A k \in 1 .. Len(d) :
        (\A i \in 1 .. n : m[i] # k) => Inserted(d[k]) /\ d[k].new \notin N
  BY <1>5, <1>6
<1> QED BY <1>3, <1>4, <1>7 DEF Grown, d, m, n

(* A call of N in front of an instruction is one more there, and elsewhere *)
(* makes no difference.                                                    *)
LEMMA ShowsPlaced ==
  ASSUME NEW T, NEW c \in Seq(T), NEW p \in 1 .. Len(c), NEW N, NEW D, NEW R, NEW k, k \notin D,
         R[k].new \in N, Call(R[k].new, c[p].val) \in T, Shows(c, p, N, D, R)
  PROVE  Shows(InsertAt(c, p, Call(R[k].new, c[p].val)), p + 1, N, D \cup {k}, R)
<1> DEFINE e == Call(R[k].new, c[p].val)  d == InsertAt(c, p, e)
           W == Watched(c, p, N)  V == Watched(d, p + 1, N)  Q(h) == Call(R[h].new, c[p].val)
<1>1. /\ Len(c) \in Nat /\ p \in Nat
      /\ \A i \in 1 .. Len(c) + 1 : d[i] = IF i < p THEN c[i] ELSE IF i = p THEN e ELSE c[i - 1]
  <2> HIDE DEF d, e
  <2>1. p \in 1 .. Len(c) + 1 /\ Len(c) \in Nat /\ p \in Nat
    OBVIOUS
  <2>2. e \in T
    BY DEF e
  <2>3. \A i \in 1 .. Len(c) + 1 :
          InsertAt(c, p, e)[i] = IF i < p THEN c[i] ELSE IF i = p THEN e ELSE c[i - 1]
    BY <2>1, <2>2, InsertPlaces
  <2> QED BY <2>1, <2>3 DEF d
<1>2. Inserted(e) /\ e.new \in N
  BY DEF Call, Inserted
<1>3. e = Q(k)
  OBVIOUS
<1>4. /\ \A h \in D : \E j \in W : c[j] = Q(h)
      /\ \A j \in W : \E h \in D : c[j] = Q(h)
      /\ \A j, l \in W : j # l => \E g, h \in D : g # h /\ c[j] = Q(g) /\ c[l] = Q(h)
  BY DEF Shows
<1> HIDE DEF e, d, Q
<1>5. d[p + 1] = c[p] /\ d[p] = e /\ \A i \in 1 .. p - 1 : d[i] = c[i]
  <2>1. /\ p + 1 \in 1 .. Len(c) + 1 /\ p \in 1 .. Len(c) + 1 /\ (p + 1) - 1 = p
        /\ \A i \in 1 .. p - 1 : i \in 1 .. Len(c) + 1 /\ i < p
    BY <1>1
  <2> QED BY <1>1, <2>1
<1>6. ASSUME NEW j \in 1 .. p - 1
      PROVE  (\A i \in j .. p - 1 : Inserted(c[i])) <=> (\A i \in j .. p : Inserted(d[i]))
  <2>1. \A i \in j .. p - 1 : i \in 1 .. p - 1 /\ i \in j .. p
    BY <1>1
  <2>2. \A i \in j .. p : i = p \/ i \in j .. p - 1
    BY <1>1
  <2> QED BY <1>2, <1>5, <2>1, <2>2
<1>7. \A j : j \in W <=> j \in 1 .. p - 1 /\ c[j].new \in N /\ \A i \in j .. p - 1 : Inserted(c[i])
  BY DEF Watched
<1>8. \A j : j \in V <=> j \in 1 .. p /\ d[j].new \in N /\ \A i \in j .. p : Inserted(d[i])
  <2>1. (p + 1) - 1 = p
    BY <1>1
  <2> QED BY <2>1 DEF Watched
<1> HIDE DEF W, V
<1>9. \A j \in W : j \in V /\ j # p /\ d[j] = c[j]
  <2> TAKE j \in W
  <2>1. j \in 1 .. p - 1 /\ j \in 1 .. p /\ j # p
    BY <1>1, <1>7
  <2> QED BY <1>5, <1>6, <1>7, <1>8, <2>1
<1>10. p \in V
  <2>1. p \in 1 .. p /\ \A i \in p .. p : i = p
    BY <1>1
  <2> QED BY <1>2, <1>5, <1>8, <2>1
<1>11. \A j \in V : j = p \/ (j \in W /\ d[j] = c[j])
  <2> TAKE j \in V
  <2>1. j = p \/ j \in 1 .. p - 1
    BY <1>1, <1>8
  <2> QED BY <1>5, <1>6, <1>7, <1>8, <2>1
<1>12. \A h \in D \cup {k} : \E j \in V : d[j] = Q(h)
  BY <1>3, <1>4, <1>5, <1>9, <1>10
<1>13. \A j \in V : \E h \in D \cup {k} : d[j] = Q(h)
  BY <1>3, <1>4, <1>5, <1>11
<1>14. ASSUME NEW j \in V, NEW l \in V, j # l
       PROVE  \E g, h \in D \cup {k} : g # h /\ d[j] = Q(g) /\ d[l] = Q(h)
  <2>1. CASE j = p
    <3>1. l \in W /\ d[l] = c[l]
      BY <1>11, <1>14, <2>1
    <3>2. PICK h \in D : c[l] = Q(h)
      BY <1>4, <3>1
    <3> QED BY <1>3, <1>5, <2>1, <3>1, <3>2
  <2>2. CASE l = p
    <3>1. j \in W /\ d[j] = c[j]
      BY <1>11, <1>14, <2>2
    <3>2. PICK h \in D : c[j] = Q(h)
      BY <1>4, <3>1
    <3> QED BY <1>3, <1>5, <2>2, <3>1, <3>2
  <2>3. CASE j # p /\ l # p
    <3>1. j \in W /\ l \in W /\ d[j] = c[j] /\ d[l] = c[l]
      BY <1>11, <2>3
    <3>2. PICK g \in D, h \in D : g # h /\ c[j] = Q(g) /\ c[l] = Q(h)
      BY <1>4, <1>14, <3>1
    <3> QED BY <3>1, <3>2
  <2> QED BY <2>1, <2>2, <2>3
<1> QED BY <1>5, <1>12, <1>13, <1>14 DEF Shows, V, Q, d, e

LEMMA ShowsElsewhere ==
  ASSUME NEW T, NEW c \in Seq(T), NEW p \in 1 .. Len(c), NEW e \in T, ~Inserted(c[p]),
         NEW i \in 1 .. Len(c), i # p, NEW N, NEW D, NEW R, Shows(c, i, N, D, R)
  PROVE  Shows(InsertAt(c, p, e), Shifted(Len(c), p)[i], N, D, R)
<1> DEFINE d == InsertAt(c, p, e)  m == Shifted(Len(c), p)  n == Len(c)
<1>1. /\ n \in Nat /\ p \in Nat /\ i \in Nat
      /\ \A x \in 1 .. n + 1 : d[x] = IF x < p THEN c[x] ELSE IF x = p THEN e ELSE c[x - 1]
  <2> HIDE DEF d
  <2>1. p \in 1 .. n + 1 /\ n \in Nat /\ p \in Nat /\ i \in Nat
    OBVIOUS
  <2> QED BY <2>1, InsertPlaces DEF d
<1>2. \A x \in 1 .. n : m[x] = IF x < p THEN x ELSE x + 1
  BY DEF Shifted
<1> HIDE DEF d, m, n
<1>3. /\ \A x \in 1 .. n : x < p => d[x] = c[x] /\ m[x] = x
      /\ \A x \in 1 .. n : ~ (x < p) => d[x + 1] = c[x] /\ m[x] = x + 1
  <2>1. \A x \in 1 .. n : x < p => d[x] = c[x] /\ m[x] = x
    BY <1>1, <1>2
  <2>2. ASSUME NEW x \in 1 .. n, ~ (x < p) PROVE d[x + 1] = c[x] /\ m[x] = x + 1
    <3>1. x + 1 \in 1 .. n + 1 /\ ~ (x + 1 < p) /\ x + 1 # p /\ (x + 1) - 1 = x
      BY <1>1, <2>2
    <3> QED BY <1>1, <1>2, <2>2, <3>1
  <2> QED BY <2>1, <2>2
<1>4. i \in 1 .. n /\ p \in 1 .. n /\ ~Inserted(c[p])
  BY DEF n
<1> DEFINE W == Watched(c, i, N)  l == m[i]  V == Watched(d, l, N)
<1>5. d[l] = c[i]
  BY <1>3, <1>4
<1>6. CASE i < p
  <2>1. l = i
    BY <1>3, <1>4, <1>6
  <2>2. \A x \in 1 .. i - 1 : d[x] = c[x] /\ m[x] = x
    BY <1>1, <1>3, <1>4, <1>6
  <2>3. \A j \in 1 .. i - 1 : \A x \in j .. i - 1 : x \in 1 .. i - 1
    BY <1>1
  <2>4. \A j \in W : m[j] \in V /\ d[m[j]] = c[j]
    BY <2>1, <2>2, <2>3 DEF Watched
  <2>5. \A k \in V : \E j \in W : m[j] = k /\ c[j] = d[k]
    BY <2>1, <2>2, <2>3 DEF Watched
  <2> HIDE DEF l
  <2> QED BY <1>5, <2>4, <2>5, ShowsMoved DEF l, d, m, n
<1>7. CASE ~ (i < p)
  <2>1. l = i + 1 /\ i > p
    BY <1>1, <1>3, <1>4, <1>7
  <2>2. \A x \in p .. i : d[x + 1] = c[x] /\ m[x] = x + 1
    BY <1>1, <1>3, <1>4
  <2>3. ASSUME NEW j \in W PROVE m[j] \in V /\ d[m[j]] = c[j]
    <3>1. j \in 1 .. i - 1 /\ c[j].new \in N /\ \A x \in j .. i - 1 : Inserted(c[x])
      BY DEF Watched
    <3>2. p < j
      <4>1. ~ (p \in j .. i - 1)
        BY <1>4, <3>1
      <4> QED BY <1>1, <2>1, <3>1, <4>1
    <3>3. j \in p .. i /\ m[j] = j + 1 /\ d[j + 1] = c[j]
      BY <1>1, <2>2, <3>1, <3>2
    <3>4. ASSUME NEW x \in j + 1 .. l - 1 PROVE Inserted(d[x])
      <4> DEFINE y == x - 1
      <4>1. y \in j .. i - 1 /\ y \in p .. i /\ x = y + 1
        BY <1>1, <2>1, <3>1, <3>2
      <4> HIDE DEF y
      <4> QED BY <2>2, <3>1, <4>1
    <3>5. j + 1 \in 1 .. l - 1
      BY <1>1, <2>1, <3>1
    <3> HIDE DEF l
    <3> QED BY <3>1, <3>3, <3>4, <3>5 DEF Watched
  <2>4. ASSUME NEW k \in V PROVE \E j \in W : m[j] = k /\ c[j] = d[k]
    <3>1. k \in 1 .. i /\ d[k].new \in N /\ \A x \in k .. i : Inserted(d[x])
      <4>1. l - 1 = i
        BY <1>1, <2>1
      <4> QED BY <4>1 DEF Watched
    <3>2. p + 1 < k
      <4>1. d[p + 1] = c[p] /\ p + 1 \in Nat /\ p + 1 <= i
        BY <1>1, <2>1, <2>2
      <4>2. ~ (p + 1 \in k .. i)
        BY <1>4, <3>1, <4>1
      <4> QED BY <1>1, <3>1, <4>1, <4>2
    <3> DEFINE j == k - 1
    <3>3. j \in 1 .. i - 1 /\ j \in p .. i /\ k = j + 1
      BY <1>1, <3>1, <3>2
    <3> HIDE DEF j
    <3>4. ASSUME NEW x \in j .. i - 1 PROVE Inserted(c[x])
      <4>1. x + 1 \in k .. i /\ x \in p .. i
        BY <1>1, <3>3
      <4> QED BY <2>2, <3>1, <4>1
    <3>5. m[j] = k /\ c[j] = d[k]
      BY <2>2, <3>3
    <3>6. j \in W
      BY <3>1, <3>3, <3>4, <3>5 DEF Watched
    <3> QED BY <3>5, <3>6
  <2> HIDE DEF l
  <2> QED BY <1>5, <2>3, <2>4, ShowsMoved DEF l, d, m, n
<1> QED BY <1>6, <1>7

LEMMA GrownPrefix ==
  ASSUME NEW T, NEW e \in Seq(T), NEW c \in Seq(T), NEW d \in Seq(T), NEW m, NEW N,
         Grown(c, d, m, N), \A i \in 1 .. Len(e) : Inserted(e[i]) /\ e[i].new \notin N
  PROVE  \E h : Grown(c, e \o d, h, N)
<1> DEFINE n == Len(e)  h == [i \in 1 .. Len(c) |-> n + m[i]]  w == e \o d
<1>1. /\ Len(w) = n + Len(d) /\ n \in Nat /\ Len(c) \in Nat /\ Len(d) \in Nat
      /\ \A i \in 1 .. n + Len(d) : w[i] = IF i <= n THEN e[i] ELSE d[i - n]
  <2>1. n \in Nat /\ Len(c) \in Nat /\ Len(d) \in Nat
    OBVIOUS
  <2> QED BY <2>1, ConcatProperties
<1>2. /\ \A x \in 1 .. Len(c) : m[x] \in 1 .. Len(d) /\ d[m[x]] = c[x]
      /\ \A x, y \in 1 .. Len(c) : x < y => m[x] < m[y]
      /\ \A k \in 1 .. Len(d) :
           (\A x \in 1 .. Len(c) : m[x] # k) => Inserted(d[k]) /\ d[k].new \notin N
  BY DEF Grown
<1>3. \A i \in 1 .. Len(c) : h[i] = n + m[i]
  OBVIOUS
<1> HIDE DEF h, w, n
<1>4. ASSUME NEW i \in 1 .. Len(c) PROVE h[i] \in 1 .. Len(w) /\ w[h[i]] = c[i]
  <2> DEFINE k == m[i]
  <2>1. k \in 1 .. Len(d) /\ d[k] = c[i] /\ h[i] = n + k
    BY <1>2, <1>3
  <2> HIDE DEF k
  <2>2. n + k \in 1 .. n + Len(d) /\ ~ (n + k <= n) /\ (n + k) - n = k
    BY <1>1, <2>1
  <2> QED BY <1>1, <2>1, <2>2
<1>5. ASSUME NEW i \in 1 .. Len(c), NEW j \in 1 .. Len(c), i < j PROVE h[i] < h[j]
  <2>1. m[i] \in 1 .. Len(d) /\ m[j] \in 1 .. Len(d) /\ m[i] < m[j]
    BY <1>2, <1>5
  <2> QED BY <1>1, <1>3, <2>1
<1>6. ASSUME NEW k \in 1 .. Len(w), \A i \in 1 .. Len(c) : h[i] # k
      PROVE  Inserted(w[k]) /\ w[k].new \notin N
  <2>1. CASE k <= n
    <3>1. w[k] = e[k] /\ k \in 1 .. n
      BY <1>1, <2>1
    <3> QED BY <3>1 DEF n
  <2>2. CASE ~ (k <= n)
    <3> DEFINE l == k - n
    <3>1. l \in 1 .. Len(d) /\ w[k] = d[l] /\ k = n + l
      BY <1>1, <2>2
    <3> HIDE DEF l
    <3>2. \A i \in 1 .. Len(c) : m[i] # l
      BY <1>3, <1>6, <3>1
    <3> QED BY <1>2, <3>1, <3>2
  <2> QED BY <2>1, <2>2
<1>7. \A k \in 1 .. Len(w) :
        (\A i \in 1 .. Len(c) : h[i] # k) => Inserted(w[k]) /\ w[k].new \notin N
  BY <1>6
<1>8. Grown(c, w, h, N)
  BY <1>4, <1>5, <1>7 DEF Grown
<1> QED BY <1>8 DEF w

LEMMA GrownAppend ==
  ASSUME NEW T, NEW c \in Seq(T), NEW d \in Seq(T), NEW m, NEW N, Grown(c, d, m, N),
         NEW a \in Seq(T), \A i \in 1 .. Len(a) : Inserted(a[i]) /\ a[i].new \notin N,
         NEW e \in T
  PROVE  \E h : Grown(Append(c, e), d \o Append(a, e), h, N)
<1> DEFINE n == Len(c)  q == Len(d)  x == Len(a)  w == d \o Append(a, e)  v == Append(c, e)
           h == [i \in 1 .. n + 1 |-> IF i <= n THEN m[i] ELSE q + x + 1]
<1>1. n \in Nat /\ q \in Nat /\ x \in Nat
  OBVIOUS
<1>2. /\ v \in Seq(T) /\ Len(v) = n + 1 /\ v[n + 1] = e /\ \A i \in 1 .. n : v[i] = c[i]
  OBVIOUS
<1>3. /\ Len(w) = q + (x + 1)
      /\ \A i \in 1 .. q : w[i] = d[i]
      /\ \A i \in 1 .. x : w[q + i] = a[i]
      /\ w[q + x + 1] = e
  <2> DEFINE y == Append(a, e)
  <2>1. y \in Seq(T) /\ Len(y) = x + 1 /\ y[x + 1] = e /\ \A i \in 1 .. x : y[i] = a[i]
    OBVIOUS
  <2> HIDE DEF y
  <2>2. /\ Len(d \o y) = q + Len(y)
        /\ \A i \in 1 .. q + Len(y) : (d \o y)[i] = IF i <= q THEN d[i] ELSE y[i - q]
    BY <2>1, ConcatProperties
  <2> HIDE DEF q, x
  <2>3. \A i \in 1 .. q : (d \o y)[i] = d[i]
    BY <1>1, <2>1, <2>2
  <2>4. ASSUME NEW i \in 1 .. x + 1 PROVE (d \o y)[q + i] = y[i]
    <3>1. q + i \in 1 .. q + Len(y) /\ ~ (q + i <= q) /\ (q + i) - q = i
      BY <1>1, <2>1
    <3> QED BY <2>2, <3>1
  <2>5. x + 1 \in 1 .. x + 1 /\ q + (x + 1) = q + x + 1 /\ \A i \in 1 .. x : i \in 1 .. x + 1
    BY <1>1
  <2> QED BY <2>1, <2>2, <2>3, <2>4, <2>5 DEF y
<1>4. /\ \A k \in 1 .. n : m[k] \in 1 .. q /\ d[m[k]] = c[k]
      /\ \A k, y \in 1 .. n : k < y => m[k] < m[y]
      /\ \A k \in 1 .. q :
           (\A y \in 1 .. n : m[y] # k) => Inserted(d[k]) /\ d[k].new \notin N
  BY DEF Grown
<1>5. \A i \in 1 .. n + 1 : h[i] = IF i <= n THEN m[i] ELSE q + x + 1
  OBVIOUS
<1>6. \A i \in 1 .. x : Inserted(a[i]) /\ a[i].new \notin N
  OBVIOUS
<1> HIDE DEF n, q, x, w, v, h
<1>7. ASSUME NEW i \in 1 .. n + 1 PROVE h[i] \in 1 .. Len(w) /\ w[h[i]] = v[i]
  <2>1. CASE i <= n
    <3>1. i \in 1 .. n /\ h[i] = m[i]
      BY <1>1, <1>5, <2>1
    <3>2. m[i] \in 1 .. q /\ m[i] \in 1 .. q + (x + 1)
      BY <1>1, <1>4, <3>1
    <3> QED BY <1>2, <1>3, <1>4, <3>1, <3>2
  <2>2. CASE ~ (i <= n)
    <3>1. i = n + 1 /\ h[i] = q + x + 1 /\ q + x + 1 \in 1 .. q + (x + 1)
      BY <1>1, <1>5, <2>2
    <3> QED BY <1>2, <1>3, <3>1
  <2> QED BY <2>1, <2>2
<1>8. ASSUME NEW i \in 1 .. n + 1, NEW j \in 1 .. n + 1, i < j PROVE h[i] < h[j]
  <2>1. i \in 1 .. n /\ h[i] = m[i] /\ m[i] \in 1 .. q
    BY <1>1, <1>4, <1>5, <1>8
  <2>2. CASE j <= n
    <3>1. j \in 1 .. n /\ h[j] = m[j]
      BY <1>1, <1>5, <2>2
    <3> QED BY <1>4, <1>8, <2>1, <3>1
  <2>3. CASE ~ (j <= n)
    BY <1>1, <1>5, <2>1, <2>3
  <2> QED BY <2>2, <2>3
<1>9. ASSUME NEW k \in 1 .. Len(w), \A i \in 1 .. n + 1 : h[i] # k
      PROVE  Inserted(w[k]) /\ w[k].new \notin N
  <2>1. CASE k <= q
    <3>1. k \in 1 .. q
      BY <1>1, <2>1
    <3>2. \A y \in 1 .. n : m[y] # k
      <4> TAKE y \in 1 .. n
      <4>1. y \in 1 .. n + 1 /\ h[y] = m[y]
        BY <1>1, <1>5
      <4> QED BY <1>9, <4>1
    <3> QED BY <1>3, <1>4, <3>1, <3>2
  <2>2. CASE ~ (k <= q)
    <3>1. k # q + x + 1
      <4>1. n + 1 \in 1 .. n + 1 /\ h[n + 1] = q + x + 1
        BY <1>1, <1>5
      <4> QED BY <1>9, <4>1
    <3> DEFINE i == k - q
    <3>2. i \in 1 .. x /\ k = q + i
      BY <1>1, <1>3, <2>2, <3>1
    <3> HIDE DEF i
    <3> QED BY <1>3, <1>6, <3>2
  <2> QED BY <2>1, <2>2
<1>10. /\ \A i \in 1 .. Len(v) : h[i] \in 1 .. Len(w) /\ w[h[i]] = v[i]
       /\ \A i, j \in 1 .. Len(v) : i < j => h[i] < h[j]
       /\ \A k \in 1 .. Len(w) :
            (\A i \in 1 .. Len(v) : h[i] # k) => Inserted(w[k]) /\ w[k].new \notin N
  BY <1>2, <1>7, <1>8, <1>9
<1>11. Grown(v, w, h, N)
  BY <1>10 DEF Grown
<1> QED BY <1>11 DEF v, w

(* Where each instruction is replaced by some calls and itself.            *)
LEMMA GrownFlatten ==
  ASSUME NEW T, NEW c \in Seq(T), NEW b \in Seq(Seq(T)), Len(b) = Len(c), NEW N,
         \A i \in 1 .. Len(c) : \E a \in Seq(T) :
           b[i] = Append(a, c[i]) /\ \A x \in 1 .. Len(a) : Inserted(a[x]) /\ a[x].new \notin N
  PROVE  \E m : Grown(c, FlattenSeq(b), m, N)
<1> DEFINE C(k) == SubSeq(c, 1, k)  B(k) == SubSeq(b, 1, k)
           Ok(k) == \E m : Grown(C(k), FlattenSeq(B(k)), m, N)
           Fails == {k \in 0 .. Len(c) : ~Ok(k)}
<1>1. Len(c) \in Nat /\ Fails \subseteq 0 .. Len(c)
  OBVIOUS
<1>2. Ok(0)
  <2>1. B(0) = <<>> /\ C(0) = <<>>
    BY SubSeqEmpty
  <2>2. FlattenSeq(B(0)) = <<>>
    BY <2>1, FlattenEmpty
  <2>3. Grown(<<>>, <<>>, <<>>, N)
    BY DEF Grown
  <2> QED BY <2>1, <2>2, <2>3
<1>3. ASSUME NEW k \in 0 .. Len(c) - 1, k \notin Fails PROVE k + 1 \notin Fails
  <2> DEFINE e == c[k + 1]  w == b[k + 1]
  <2>1. k + 1 \in 1 .. Len(c) /\ 1 \in 1 .. Len(c) /\ (k + 1) - 1 = k
    BY <1>1
  <2>2. C(k) \in Seq(T) /\ e \in T /\ B(k) \in Seq(Seq(T)) /\ w \in Seq(T)
    BY <2>1, SubSeqProperties
  <2>3. C(k + 1) = C(k) \o <<e>> /\ B(k + 1) = B(k) \o <<w>>
    BY <2>1, SubSeqRecursiveSecond
  <2>4. Ok(k)
    BY <1>1, <1>3, <2>1
  <2>5. PICK a \in Seq(T) :
          w = Append(a, e) /\ \A x \in 1 .. Len(a) : Inserted(a[x]) /\ a[x].new \notin N
    BY <2>1
  <2>6. PICK m : Grown(C(k), FlattenSeq(B(k)), m, N)
    BY <2>4
  <2> HIDE DEF B, C, e, w
  <2>7. B(k + 1) = Append(B(k), w) /\ C(k + 1) = Append(C(k), e)
    BY <2>2, <2>3, AppendIsConcat
  <2>8. FlattenSeq(B(k + 1)) = FlattenSeq(B(k)) \o w /\ FlattenSeq(B(k)) \in Seq(T)
    BY <2>2, <2>7, FlattenAppend, FlattenType
  <2>9. \E h : Grown(Append(C(k), e), FlattenSeq(B(k)) \o Append(a, e), h, N)
    BY <2>2, <2>5, <2>6, <2>8, GrownAppend
  <2>10. Ok(k + 1)
    BY <2>5, <2>7, <2>8, <2>9
  <2> QED BY <2>10
<1>4. Fails = {}
  <2>1. 0 \notin Fails
    BY <1>2
  <2> HIDE DEF Fails
  <2> QED BY <1>1, <1>3, <2>1, NoneFails
<1>5. C(Len(c)) = c /\ B(Len(c)) = b
  BY SubSeqFull
<1>6. Ok(Len(c))
  <2>1. Len(c) \in 0 .. Len(c)
    BY <1>1
  <2> HIDE DEF Ok
  <2> QED BY <1>4, <2>1
<1> HIDE DEF B, C
<1> QED BY <1>5, <1>6
-----------------------------------------------------------------------------
(***************************************************************************)
(* What a step does to the calls of N, which no entry, return or global    *)
(* rule places.                                                            *)
(***************************************************************************)
LEMMA GrownFrame ==
  ASSUME InputType, phase \in 1 .. Len(Phases), NEW f, code[f] \in Seq(Linkable),
         {c.new : c \in ToSet(Placed("entry", f) \o Placed("return", f))} \subseteq Definitions,
         NEW N, \A r \in ToSet(Rules) : r.where \in {"entry", "return"} => r.new \notin N
  PROVE  /\ WithFrame(f) \in Seq(Linkable)
         /\ \E m : Grown(code[f], WithFrame(f), m, N)
<1> DEFINE E == Placed("entry", f)  R == Placed("return", f)  c == code[f]  T == Linkable
           b == [i \in DOMAIN c |-> IF c[i].op = "ret" THEN Append(R, c[i]) ELSE <<c[i]>>]
<1>1. /\ E \in Seq(T) /\ R \in Seq(T)
      /\ \A i \in 1 .. Len(E) : Inserted(E[i]) /\ E[i].new \notin N
      /\ \A i \in 1 .. Len(R) : Inserted(R[i]) /\ R[i].new \notin N
  <2>1. /\ E \in Seq(T)
        /\ \A i \in 1 .. Len(E) :
             Inserted(E[i]) /\ \E r \in ToSet(Rules) : r.where = "entry" /\ E[i].new = r.new
    BY FrameType
  <2>2. /\ R \in Seq(T)
        /\ \A i \in 1 .. Len(R) :
             Inserted(R[i]) /\ \E r \in ToSet(Rules) : r.where = "return" /\ R[i].new = r.new
    BY FrameType
  <2> HIDE DEF E, R, T
  <2>3. \A i \in 1 .. Len(E) : E[i].new \notin N
    BY <2>1
  <2>4. \A i \in 1 .. Len(R) : R[i].new \notin N
    BY <2>2
  <2> QED BY <2>1, <2>2, <2>3, <2>4
<1>2. WithFrame(f) = Reverse(E) \o FlattenSeq(b) /\ WithFrame(f) \in Seq(T)
  BY FrameKeeps DEF WithFrame
<1>3. c \in Seq(T)
  OBVIOUS
<1> HIDE DEF E, R, T, c
<1>4. DOMAIN c = 1 .. Len(c) /\ Len(c) \in Nat /\ \A i \in 1 .. Len(c) : c[i] \in T
  BY <1>3
<1>5. ASSUME NEW i \in 1 .. Len(c)
      PROVE  /\ b[i] \in Seq(T)
             /\ \E a \in Seq(T) : /\ b[i] = Append(a, c[i])
                                  /\ \A x \in 1 .. Len(a) : Inserted(a[x]) /\ a[x].new \notin N
  <2>1. b[i] = IF c[i].op = "ret" THEN Append(R, c[i]) ELSE <<c[i]>>
    BY <1>4
  <2>2. Append(R, c[i]) \in Seq(T) /\ <<c[i]>> \in Seq(T) /\ <<c[i]>> = Append(<<>>, c[i])
        /\ <<>> \in Seq(T)
    BY <1>1, <1>4
  <2> HIDE DEF b
  <2>3. CASE c[i].op = "ret"
    BY <1>1, <2>1, <2>2, <2>3
  <2>4. CASE c[i].op # "ret"
    <3>1. \A x \in 1 .. Len(<<>>) : Inserted(<<>>[x]) /\ <<>>[x].new \notin N
      OBVIOUS
    <3> QED BY <2>1, <2>2, <2>4, <3>1
  <2> QED BY <2>3, <2>4
<1>6. b \in Seq(Seq(T)) /\ Len(b) = Len(c)
  <2>1. b = [i \in 1 .. Len(c) |-> b[i]]
    BY <1>4
  <2>2. \A i \in 1 .. Len(c) : b[i] \in Seq(T)
    BY <1>5
  <2> HIDE DEF b
  <2>3. b \in Seq(Seq(T))
    BY <1>4, <2>1, <2>2, IsASeq
  <2> QED BY <1>4, <2>1, <2>3
<1> HIDE DEF b
<1>7. PICK m : Grown(c, FlattenSeq(b), m, N)
  BY <1>3, <1>5, <1>6, GrownFlatten
<1>8. FlattenSeq(b) \in Seq(T)
  BY <1>6, FlattenType
<1>9. /\ Reverse(E) \in Seq(T)
      /\ \A i \in 1 .. Len(Reverse(E)) : Inserted(Reverse(E)[i]) /\ Reverse(E)[i].new \notin N
  <2>1. /\ Reverse(E) \in Seq(T) /\ Len(Reverse(E)) = Len(E)
        /\ \A i \in 1 .. Len(E) : \E j \in 1 .. Len(E) : Reverse(E)[i] = E[j]
    BY <1>1, ReverseType
  <2> QED BY <1>1, <2>1
<1>10. \E h : Grown(c, Reverse(E) \o FlattenSeq(b), h, N)
  BY <1>3, <1>7, <1>8, <1>9, GrownPrefix
<1> QED BY <1>2, <1>10 DEF c, T

(* The next rule is the first that matches.                                *)
LEMMA NextRuleFirst ==
  ASSUME Len(Rules) \in Nat, rule \in Nat, NEW k \in rule + 1 .. Len(Rules), Matches(Rules[k])
  PROVE  NextRule <= k
<1> DEFINE I == {i \in rule + 1 .. Len(Rules) : Matches(Rules[i])}
<1>1. NextRule = IF (IF I # {} THEN Min(I) ELSE 0) = 0 THEN Len(Rules) + 1
                                                   ELSE (IF I # {} THEN Min(I) ELSE 0)
  BY DEF NextRule, SelectInSubSeq
<1>2. k \in I /\ I \subseteq Nat
  OBVIOUS
<1>3. 0 \notin I
  OBVIOUS
<1> HIDE DEF I
<1>4. Min(I) \in I /\ Min(I) <= k
  <2>1. \E x \in I : \A y \in I : x <= y
    BY <1>2, LeastOfNats
  <2> QED BY <1>2, <2>1 DEF Min
<1> QED BY <1>1, <1>2, <1>3, <1>4
-----------------------------------------------------------------------------
(***************************************************************************)
(* The rules of phase P that place calls of N, all of them before the      *)
(* instruction they match.                                                 *)
(***************************************************************************)
BeforeOnly(P, N) ==
  /\ P \in 1 .. Len(Phases)
  /\ \A p \in 1 .. Len(Phases) :
       /\ Phases[p].globals.new \notin N
       /\ \A r \in ToSet(Phases[p].rules) : r.new \in N => p = P /\ r.where = "before"

Holds(P, k, v) == checkConditions(Phases[P].rules[k], v)

(* Those of the first r rules that place a call of N for the instruction x. *)
Due(P, N, f, x, r) ==
  {k \in 1 .. Len(Phases[P].rules) :
     /\ k <= r
     /\ Phases[P].rules[k].new \in N /\ Phases[P].rules[k].op = x.op
     /\ AppliesIn(Phases[P].rules[k], f)
     /\ Holds(P, k, x.val)}

(* How many rules of phase P have been tried on instruction i of the n-th  *)
(* function.                                                               *)
Tried(P, n, i) ==
  IF ~Instruments(Functions[n]) \/ phase < P THEN 0
  ELSE IF phase > P \/ fun > n \/ (fun = n /\ pos > i) THEN Len(Phases[P].rules)
  ELSE IF fun = n /\ pos = i THEN rule ELSE 0

GapOf(P, N, n) ==
  \A i \in 1 .. Len(code[Functions[n]]) : \A x \in {code[Functions[n]][i]} :
    ~Inserted(x) =>
      Shows(code[Functions[n]], i, N, Due(P, N, Functions[n], x, Tried(P, n, i)),
            Phases[P].rules)
GapInv(P, N) == outcome # "failed" => \A n \in 1 .. Len(Functions) : GapOf(P, N, n)

(* From phase P on, a step does not change what the conditions of these    *)
(* rules say.                                                              *)
Steady(P, N) ==
  phase >= P => \A k \in 1 .. Len(Phases[P].rules) :
    Phases[P].rules[k].new \in N => \A v : Holds(P, k, v)' <=> Holds(P, k, v)

LEMMA FunctionAt ==
  ASSUME NEW n \in 1 .. Len(Functions)
  PROVE  /\ Functions[n] \in ToSet(Functions) /\ n \in Nat /\ n >= 1
         /\ CodeInv => code[Functions[n]] \in Seq(Linkable)
<1>1. Functions[n] \in ToSet(Functions)
  <2>1. DOMAIN Functions = 1 .. Len(Functions)
    BY ProgramAssumption DEF IsSequence
  <2> QED BY <2>1 DEF ToSet
<1> QED BY <1>1 DEF CodeInv, CodeType

LEMMA DueStays ==
  ASSUME UNCHANGED input, NEW P, NEW N, Steady(P, N), NEW f, NEW x, NEW r,
         phase >= P \/ r = 0
  PROVE  Due(P, N, f, x, r)' = Due(P, N, f, x, r)
<1>1. Phases' = Phases
  BY InputStays
<1>2. CASE phase >= P
  <2>1. \A k \in 1 .. Len(Phases[P].rules) :
          Phases[P].rules[k].new \in N => (Holds(P, k, x.val)' <=> Holds(P, k, x.val))
    BY <1>2 DEF Steady
  <2> QED BY <1>1, <2>1 DEF Due, AppliesIn
<1>3. CASE r = 0
  BY <1>1, <1>3 DEF Due
<1> QED BY <1>2, <1>3

LEMMA DueSame ==
  ASSUME NEW P, NEW N, NEW f, NEW x, NEW r \in Nat, NEW s \in Nat, r <= s,
         \A k \in Due(P, N, f, x, s) : k <= r
  PROVE  Due(P, N, f, x, r) = Due(P, N, f, x, s)
BY DEF Due

(* Where no call of N is placed.                                           *)
Kin(P, N, n, m) ==
  /\ Grown(code[Functions[n]], code'[Functions[n]], m, N)
  /\ \A i \in 1 .. Len(code[Functions[n]]) : \A x \in {code[Functions[n]][i]} :
       ~Inserted(x) =>
         Due(P, N, Functions[n], x, Tried(P, n, m[i]))' = Due(P, N, Functions[n], x, Tried(P, n, i))

LEMMA GapOfKin ==
  ASSUME CodeInv, CodeInv', UNCHANGED input, NEW P, NEW N, NEW n \in 1 .. Len(Functions),
         GapOf(P, N, n), NEW m, Kin(P, N, n, m)
  PROVE  GapOf(P, N, n)'
<1> SUFFICES ASSUME NEW j \in 1 .. Len(code'[Functions[n]]),
                    NEW x, x = code'[Functions[n]][j], ~Inserted(x)
             PROVE  Shows(code'[Functions[n]], j, N, Due(P, N, Functions[n], x, Tried(P, n, j))',
                          Phases'[P].rules)
  BY DEF GapOf
<1> DEFINE f == Functions[n]  c == code[f]  d == code'[f]
<1>1. Phases' = Phases
  BY InputStays
<1>2. f \in ToSet(Functions)
  BY FunctionAt
<1>3. c \in Seq(Linkable) /\ d \in Seq(Linkable)
  <2>1. Linkable' = Linkable
    BY InputStays
  <2> QED BY <1>2, <2>1 DEF CodeInv, CodeType
<1>5. Grown(c, d, m, N)
  BY DEF Kin
<1>6. PICK i \in 1 .. Len(c) : m[i] = j /\ c[i] = x
  BY <1>5 DEF Grown
<1>7. Due(P, N, f, x, Tried(P, n, m[i]))' = Due(P, N, f, x, Tried(P, n, i))
  BY <1>6 DEF Kin
<1>8. Shows(c, i, N, Due(P, N, f, x, Tried(P, n, i)), Phases[P].rules)
  BY <1>6 DEF GapOf
<1> DEFINE D == Due(P, N, f, x, Tried(P, n, i))
<1> HIDE DEF D, c, d
<1>9. Shows(d, m[i], N, D, Phases[P].rules)
  BY <1>3, <1>5, <1>8, ShowsGrown DEF D
<1> QED BY <1>1, <1>6, <1>7, <1>9 DEF D, d

LEMMA GapKept ==
  ASSUME CodeInv, CodeInv', UNCHANGED input, outcome # "failed", NEW P, NEW N, GapInv(P, N),
         \A n \in 1 .. Len(Functions) : \E m : Kin(P, N, n, m)
  PROVE  GapInv(P, N)'
<1> SUFFICES ASSUME NEW n \in 1 .. Len(Functions) PROVE GapOf(P, N, n)'
  BY DEF GapInv
<1>1. PICK m : Kin(P, N, n, m)
  OBVIOUS
<1>2. GapOf(P, N, n)
  BY DEF GapInv
<1> QED BY <1>1, <1>2, GapOfKin

LEMMA DifferentFunctions ==
  ASSUME NEW n \in 1 .. Len(Functions), NEW l \in 1 .. Len(Functions), Functions[n] = Functions[l]
  PROVE  n = l
<1>1. n \in DOMAIN Functions /\ l \in DOMAIN Functions
  BY ProgramAssumption DEF IsSequence
<1> QED BY <1>1, ProgramAssumption DEF IsInjective

LEMMA TriedType ==
  ASSUME CodeInv, NEW P, NEW N, BeforeOnly(P, N), NEW n, NEW i
  PROVE  /\ Tried(P, n, i) \in Nat /\ Len(Phases[P].rules) \in Nat
         /\ phase >= P \/ Tried(P, n, i) = 0
         /\ P \in Nat
<1>1. Len(Phases) \in Nat /\ phase \in Nat /\ rule \in Nat /\ P \in 1 .. Len(Phases)
  BY CodeFacts DEF BeforeOnly
<1>2. Len(Phases[P].rules) \in Nat
  <2>1. Phases \in Seq(ToSet(Phases)) /\ Phases = setup.phases /\ setup \in Setups
    BY SetupAssumption DEF CodeInv, InputType, IsSequence, Phases
  <2>2. Phases[P] \in ToSet(setup.phases)
    BY <1>1, <2>1
  <2>3. Phases[P].rules \in Seq(ToSet(Phases[P].rules))
    BY <2>1, <2>2, SetupAssumption DEF IsSequence
  <2> QED BY <2>3
<1> QED BY <1>1, <1>2 DEF Tried

LEMMA GrownSame ==
  ASSUME NEW T, NEW c \in Seq(T), NEW N
  PROVE  Grown(c, c, [i \in 1 .. Len(c) |-> i], N)
BY DEF Grown

(* A step that grows a function and has tried the same rules on each of    *)
(* its instructions.                                                       *)
LEMMA KinGrown ==
  ASSUME CodeInv, UNCHANGED input, NEW P, NEW N, BeforeOnly(P, N), Steady(P, N),
         NEW n \in 1 .. Len(Functions), NEW m,
         Grown(code[Functions[n]], code'[Functions[n]], m, N),
         \A i \in 1 .. Len(code[Functions[n]]) : Tried(P, n, m[i])' = Tried(P, n, i)
  PROVE  Kin(P, N, n, m)
<1> SUFFICES ASSUME NEW i \in 1 .. Len(code[Functions[n]]), NEW x
             PROVE  Due(P, N, Functions[n], x, Tried(P, n, m[i]))'
                      = Due(P, N, Functions[n], x, Tried(P, n, i))
  BY DEF Kin
<1>1. phase >= P \/ Tried(P, n, i) = 0
  BY TriedType
<1>2. PICK r : r = Tried(P, n, i)
  OBVIOUS
<1>3. Tried(P, n, m[i])' = r
  BY <1>2
<1>4. Due(P, N, Functions[n], x, r)' = Due(P, N, Functions[n], x, r)
  BY <1>1, <1>2, DueStays
<1>5. Due(P, N, Functions[n], x, Tried(P, n, m[i]))' = Due(P, N, Functions[n], x, r)'
  BY <1>3
<1> QED BY <1>2, <1>4, <1>5

LEMMA KinSame ==
  ASSUME CodeInv, UNCHANGED input, NEW P, NEW N, BeforeOnly(P, N), Steady(P, N),
         NEW n \in 1 .. Len(Functions), code'[Functions[n]] = code[Functions[n]],
         \A i \in 1 .. Len(code[Functions[n]]) : Tried(P, n, i)' = Tried(P, n, i)
  PROVE  \E m : Kin(P, N, n, m)
<1> DEFINE c == code[Functions[n]]  m == [i \in 1 .. Len(c) |-> i]
<1>1. c \in Seq(Linkable)
  BY FunctionAt
<1>2. Grown(c, c, m, N)
  BY <1>1, GrownSame
<1>3. \A i \in 1 .. Len(c) : m[i] = i
  OBVIOUS
<1>4. PICK h : h = m
  OBVIOUS
<1>5. \A i \in 1 .. Len(c) : Tried(P, n, h[i])' = Tried(P, n, i)
  <2> TAKE i \in 1 .. Len(c)
  <2>1. h[i] = i
    BY <1>3, <1>4
  <2> QED BY <2>1
<1> QED BY <1>2, <1>4, <1>5, KinGrown

(* The rules that have been tried on an instruction are more, and the ones *)
(* that place calls of N the same.                                         *)
LEMMA KinDue ==
  ASSUME CodeInv, UNCHANGED input, NEW P, NEW N, BeforeOnly(P, N), Steady(P, N),
         NEW n \in 1 .. Len(Functions), NEW m,
         Grown(code[Functions[n]], code'[Functions[n]], m, N),
         \A i \in 1 .. Len(code[Functions[n]]) : \A x \in {code[Functions[n]][i]} :
           ~Inserted(x) =>
             \E r : /\ Tried(P, n, m[i])' = r /\ (phase >= P \/ r = 0)
                    /\ Due(P, N, Functions[n], x, r) = Due(P, N, Functions[n], x, Tried(P, n, i))
  PROVE  Kin(P, N, n, m)
<1> SUFFICES ASSUME NEW i \in 1 .. Len(code[Functions[n]]), NEW x,
                    x = code[Functions[n]][i], ~Inserted(x)
             PROVE  Due(P, N, Functions[n], x, Tried(P, n, m[i]))'
                      = Due(P, N, Functions[n], x, Tried(P, n, i))
  BY DEF Kin
<1>1. PICK r : /\ Tried(P, n, m[i])' = r /\ (phase >= P \/ r = 0)
               /\ Due(P, N, Functions[n], x, r) = Due(P, N, Functions[n], x, Tried(P, n, i))
  OBVIOUS
<1>2. Due(P, N, Functions[n], x, r)' = Due(P, N, Functions[n], x, r)
  BY <1>1, DueStays
<1>3. Due(P, N, Functions[n], x, Tried(P, n, m[i]))' = Due(P, N, Functions[n], x, r)'
  BY <1>1
<1> QED BY <1>1, <1>2, <1>3

(* Between the rule tried last and rule s there is none that places a call *)
(* of N in front of the current instruction.                               *)
LEMMA DueFurther ==
  ASSUME CodeInv, phase <= Len(Phases), NEW N, BeforeOnly(phase, N),
         NEW s \in rule .. Len(Rules),
         \A k \in rule + 1 .. s :
           \/ ~Matches(Rules[k]) \/ Rules[k].new \notin N \/ ~checkConditions(Rules[k], ins.val)
  PROVE  Due(phase, N, F, ins, s) = Due(phase, N, F, ins, rule)
<1>1. rule \in Nat /\ Len(Rules) \in Nat /\ phase \in 1 .. Len(Phases)
  BY CodeFacts
<1>2. ASSUME NEW k \in Due(phase, N, F, ins, s), ~ (k <= rule) PROVE FALSE
  <2>1. /\ k \in 1 .. Len(Rules) /\ k <= s /\ Rules[k].new \in N /\ Rules[k].op = ins.op
        /\ AppliesIn(Rules[k], F) /\ checkConditions(Rules[k], ins.val)
    BY DEF Due, Rules, Holds
  <2>2. k \in rule + 1 .. s
    BY <1>1, <1>2, <2>1
  <2>3. Rules[k] \in ToSet(Rules)
    BY <1>1, <2>1, PhaseType DEF CodeInv
  <2>4. Rules[k].where = "before"
    BY <1>1, <2>1, <2>3 DEF BeforeOnly, Rules
  <2>5. Matches(Rules[k])
    BY <2>1, <2>4 DEF Matches
  <2> QED BY <2>1, <2>2, <2>5
<1>3. rule <= s /\ s \in Nat
  BY <1>1
<1> QED BY <1>1, <1>2, <1>3, DueSame

(***************************************************************************)
(* The step that tries the next rule.                                      *)
(***************************************************************************)
LEMMA CheckFacts ==
  ASSUME CodeInv, checkInstruction
  PROVE  /\ phase \in 1 .. Len(Phases) /\ fun \in 1 .. Len(Functions) /\ outcome = "running"
         /\ code[F] \in Seq(Linkable) /\ Len(code[F]) \in Nat /\ F \in ToSet(Functions)
         /\ pos \in 1 .. Len(code[F]) /\ ~Inserted(code[F][pos]) /\ ins = code[F][pos]
         /\ rule \in Nat /\ Len(Rules) \in Nat /\ NextRule \in rule + 1 .. Len(Rules)
         /\ rule' = NextRule /\ phase' = phase /\ fun' = fun /\ UNCHANGED input
         /\ Matches(Rules[NextRule]) /\ Rules[NextRule] \in ToSet(Rules)
         /\ \A k \in rule + 1 .. NextRule - 1 : ~Matches(Rules[k])
<1>1. /\ phase <= Len(Phases) /\ fun <= Len(Functions) /\ outcome = "running"
      /\ pos \in 1 .. Len(code[F]) /\ NextRule <= Len(Rules)
      /\ rule' = NextRule /\ phase' = phase /\ fun' = fun /\ UNCHANGED input
  BY DEF checkInstruction, InFunction, Runs, Stay
<1>2. /\ phase \in 1 .. Len(Phases) /\ fun \in 1 .. Len(Functions) /\ F \in ToSet(Functions)
      /\ code[F] \in Seq(Linkable) /\ Len(code[F]) \in Nat
      /\ rule \in Nat /\ Len(Rules) \in Nat
  BY <1>1, CodeFacts
<1>3. /\ NextRule \in 1 .. Len(Rules) + 1 /\ NextRule > rule /\ Matches(Rules[NextRule])
  BY <1>1, <1>2, NextRuleFits
<1>4. NextRule \in rule + 1 .. Len(Rules)
  BY <1>1, <1>2, <1>3
<1>5. /\ Rules[NextRule] \in ToSet(Rules) /\ Phases[phase] \in ToSet(setup.phases)
      /\ setup \in Setups /\ Rules = Phases[phase].rules
  <2>1. NextRule \in 1 .. Len(Rules)
    BY <1>1, <1>2, <1>3
  <2> QED BY <1>2, <2>1, PhaseType DEF CodeInv, InputType, Rules
<1>6. ~Inserted(ins)
  <2>1. Rules[NextRule].op # "inserted"
    BY <1>5, SetupAssumption
  <2> QED BY <1>3, <2>1 DEF Matches, Inserted
<1>7. ASSUME NEW k \in rule + 1 .. NextRule - 1, Matches(Rules[k]) PROVE FALSE
  <2>1. k \in rule + 1 .. Len(Rules) /\ ~ (NextRule <= k)
    BY <1>2, <1>4
  <2> QED BY <1>2, <1>7, <2>1, NextRuleFirst
<1> QED BY <1>1, <1>2, <1>3, <1>4, <1>5, <1>6, <1>7 DEF ins

(* The step inserts no call of N, and where an instruction stays it has    *)
(* tried the same rules as before, or some more, none of which does.       *)
Advances(P, N, n, m) ==
  /\ Grown(code[Functions[n]], code'[Functions[n]], m, N)
  /\ \A i \in 1 .. Len(code[Functions[n]]) :
       \/ Tried(P, n, m[i])' = Tried(P, n, i)
       \/ /\ phase = P /\ fun = n /\ pos = i /\ Tried(P, n, i) = rule
          /\ \/ /\ checkInstruction /\ Tried(P, n, m[i])' = NextRule
             \/ /\ nextInstruction /\ Tried(P, n, m[i])' = Len(Rules)
                /\ \A k \in rule + 1 .. Len(Rules) : ~Matches(Rules[k])

LEMMA TriedSame ==
  ASSUME CodeInv, NEW n \in 1 .. Len(Functions), NEW N,
         code'[Functions[n]] = code[Functions[n]], NEW P,
         \A i \in 1 .. Len(code[Functions[n]]) : Tried(P, n, i)' = Tried(P, n, i)
  PROVE  \E m : Advances(P, N, n, m)
<1> DEFINE c == code[Functions[n]]
<1>1. c \in Seq(Linkable)
  BY FunctionAt
<1>2. PICK m : m = [i \in 1 .. Len(c) |-> i]
  OBVIOUS
<1>3. Grown(c, c, m, N)
  BY <1>1, <1>2, GrownSame
<1>4. \A i \in 1 .. Len(c) : m[i] = i
  BY <1>2
<1> QED BY <1>3, <1>4 DEF Advances

LEMMA AdvanceInstrument ==
  ASSUME CodeInv, CodeInv', instrumentFunction, outcome' # "failed",
         NEW P \in 1 .. Len(Phases), NEW N,
         \A r \in ToSet(Rules) : r.where \in {"entry", "return"} => r.new \notin N,
         NEW n \in 1 .. Len(Functions)
  PROVE  \E m : Advances(P, N, n, m)
<1>1. /\ phase <= Len(Phases) /\ fun <= Len(Functions) /\ pos = 0
      /\ phase' = phase /\ fun' = fun /\ UNCHANGED input
  BY DEF instrumentFunction, InFunction, Runs, Stay
<1>2. /\ phase \in 1 .. Len(Phases) /\ fun \in 1 .. Len(Functions) /\ F \in ToSet(Functions)
      /\ code[F] \in Seq(Linkable)
  BY <1>1, CodeFacts
<1>3. /\ {c.new : c \in ToSet(Placed("entry", F) \o Placed("return", F))} \subseteq Definitions
      /\ code' = [code EXCEPT ![F] = WithFrame(F)] /\ pos' = 1 /\ rule' = 0
  BY DEF instrumentFunction
<1>4. \E m : Grown(code[F], WithFrame(F), m, N)
  BY <1>2, <1>3, GrownFrame DEF CodeInv
<1>5. code \in [ToSet(Functions) -> Seq(Linkable)]
  BY DEF CodeInv, CodeType
<1>6. phase \in Nat /\ P \in Nat /\ fun \in Nat /\ n \in Nat
  BY CodeFacts
<1>7. (\A f : Instruments(f)' = Instruments(f)) /\ Phases' = Phases
  BY <1>1, InputStays
<1>8. CASE n = fun
  <2>1. PICK m : Grown(code[F], WithFrame(F), m, N)
    BY <1>4
  <2>2. code'[F] = WithFrame(F) /\ F = Functions[n]
    BY <1>2, <1>3, <1>5, <1>8 DEF F
  <2>3. ASSUME NEW i \in 1 .. Len(code[F]) PROVE Tried(P, n, m[i])' = Tried(P, n, i)
    <3>1. m[i] \in 1 .. Len(WithFrame(F)) /\ i \in Nat /\ i > 0
      BY <1>2, <2>1 DEF Grown
    <3>2. m[i] >= 1
      BY <3>1
    <3> QED BY <1>1, <1>3, <1>6, <1>7, <1>8, <3>1, <3>2 DEF Tried
  <2> QED BY <2>1, <2>2, <2>3 DEF Advances
<1>9. CASE n # fun
  <2>1. Functions[n] # F /\ Functions[n] \in ToSet(Functions)
    BY <1>2, <1>9, DifferentFunctions, FunctionAt DEF F
  <2>2. code'[Functions[n]] = code[Functions[n]]
    BY <1>3, <1>5, <2>1
  <2>3. \A i : Tried(P, n, i)' = Tried(P, n, i)
    BY <1>1, <1>7, <1>9 DEF Tried
  <2> QED BY <2>2, <2>3, TriedSame
<1> QED BY <1>8, <1>9

(* The steps that only go on to the next function or end it all.           *)
LEMMA AdvanceMoves ==
  ASSUME CodeInv, omitFunction \/ nextFunction \/ finish \/ UNCHANGED vars,
         NEW P \in 1 .. Len(Phases), NEW N, NEW n \in 1 .. Len(Functions)
  PROVE  \E m : Advances(P, N, n, m)
<1>1. UNCHANGED <<code, input, phase>>
  BY DEF omitFunction, nextFunction, finish, vars
<1>2. /\ phase \in Nat /\ P \in Nat /\ fun \in Nat /\ n \in Nat /\ pos \in Nat
      /\ Len(Phases) \in Nat
  BY CodeFacts
<1>3. (\A f : Instruments(f)' = Instruments(f)) /\ Phases' = Phases
  BY <1>1, InputStays
<1>4. \A i \in 1 .. Len(code[Functions[n]]) : i \in Nat /\ i > 0
  OBVIOUS
<1>5. ASSUME NEW i \in 1 .. Len(code[Functions[n]]) PROVE Tried(P, n, i)' = Tried(P, n, i)
  <2>1. CASE omitFunction
    <3>1. /\ ~Instruments(F) /\ pos = 0 /\ fun' = fun + 1 /\ pos' = pos /\ rule' = rule
      BY <2>1 DEF omitFunction
    <3>2. n = fun => ~Instruments(Functions[n])
      BY <3>1 DEF F
    <3> QED BY <1>1, <1>2, <1>3, <1>4, <3>1, <3>2 DEF Tried
  <2>2. CASE nextFunction
    <3>1. /\ pos > Len(code[F]) /\ fun' = fun + 1 /\ pos' = 0 /\ rule' = 0
          /\ fun <= Len(Functions)
      BY <2>2 DEF nextFunction, InFunction
    <3>2. n = fun => i < pos
      <4>1. F \in ToSet(Functions) /\ Len(code[F]) \in Nat
        BY <3>1, CodeFacts
      <4> QED BY <1>2, <3>1, <4>1 DEF F
    <3> QED BY <1>1, <1>2, <1>3, <1>4, <3>1, <3>2 DEF Tried
  <2>3. CASE finish \/ UNCHANGED vars
    <3>1. fun' = fun /\ pos' = pos /\ rule' = rule
      BY <2>3 DEF finish, vars
    <3> QED BY <1>1, <1>3, <3>1 DEF Tried
  <2> QED BY <2>1, <2>2, <2>3
<1> QED BY <1>1, <1>5, TriedSame

LEMMA AdvanceNextInstruction ==
  ASSUME CodeInv, nextInstruction,
         NEW P \in 1 .. Len(Phases), NEW N, NEW n \in 1 .. Len(Functions)
  PROVE  \E m : Advances(P, N, n, m)
<1>1. /\ phase <= Len(Phases) /\ fun <= Len(Functions)
      /\ pos \in 1 .. Len(code[F]) /\ NextRule > Len(Rules)
      /\ pos' = pos + 1 /\ rule' = 0 /\ fun' = fun
      /\ UNCHANGED <<code, input, phase>>
  BY DEF nextInstruction, InFunction, Runs, Stay
<1>2. /\ phase \in Nat /\ P \in Nat /\ fun \in Nat /\ pos \in Nat /\ rule \in Nat
      /\ Len(Rules) \in Nat
  BY <1>1, CodeFacts
<1> DEFINE c == code[Functions[n]]
<1>3. c \in Seq(Linkable) /\ code'[Functions[n]] = c
  BY <1>1, FunctionAt
<1>4. PICK m : m = [i \in 1 .. Len(c) |-> i]
  OBVIOUS
<1>5. Grown(c, c, m, N)
  BY <1>3, <1>4, GrownSame
<1>6. (\A f : Instruments(f)' = Instruments(f)) /\ Phases' = Phases
  BY <1>1, InputStays
<1>7. \A k \in rule + 1 .. Len(Rules) : ~Matches(Rules[k])
  <2> TAKE k \in rule + 1 .. Len(Rules)
  <2>1. Matches(Rules[k]) => NextRule <= k
    BY <1>2, NextRuleFirst
  <2>2. NextRule \in Nat
    BY <1>2, NextRuleFits
  <2> QED BY <1>1, <1>2, <2>1, <2>2
<1>8. ASSUME NEW i \in 1 .. Len(c)
      PROVE  \/ Tried(P, n, m[i])' = Tried(P, n, i)
             \/ /\ phase = P /\ fun = n /\ pos = i /\ Tried(P, n, i) = rule
                /\ Tried(P, n, m[i])' = Len(Rules)
  <2>1. m[i] = i /\ i \in Nat
    BY <1>4
  <2>2. CASE Instruments(Functions[n]) /\ n = fun /\ i = pos /\ phase = P
    <3>1. Rules = Phases[P].rules
      BY <2>2 DEF Rules
    <3> QED BY <1>1, <1>2, <1>6, <2>1, <2>2, <3>1 DEF Tried
  <2>3. CASE ~ (Instruments(Functions[n]) /\ n = fun /\ i = pos /\ phase = P)
    BY <1>1, <1>2, <1>6, <2>1, <2>3 DEF Tried
  <2> QED BY <2>2, <2>3
<1> QED BY <1>3, <1>5, <1>7, <1>8 DEF Advances

LEMMA AdvanceGlobals ==
  ASSUME CodeInv, instrumentGlobals, outcome' # "failed",
         NEW P \in 1 .. Len(Phases), NEW N, Phases[phase].globals.new \notin N,
         NEW n \in 1 .. Len(Functions)
  PROVE  \E m : Advances(P, N, n, m)
<1> DEFINE g == Phases[phase].globals  picked == PickedGlobals(g)
           calls == [i \in DOMAIN picked |-> Call(g.new, picked[i])]
           f == Functions[n]  c == code[f]
<1>1. /\ phase <= Len(Phases) /\ fun > Len(Functions)
      /\ phase' = phase + 1 /\ fun' = 1 /\ pos' = 0 /\ rule' = 0 /\ UNCHANGED input
  BY DEF instrumentGlobals, Runs
<1>2. \/ UNCHANGED code
      \/ g.in # "none" /\ g.in # "*" /\ code' = [code EXCEPT ![g.in] = Reverse(calls) \o @]
  BY DEF instrumentGlobals
<1>3. /\ phase \in 1 .. Len(Phases) /\ Len(Functions) \in Nat /\ phase \in Nat /\ P \in Nat
      /\ fun \in Nat
  BY <1>1, CodeFacts
<1>4. g.new \notin N
  OBVIOUS
<1>5. g.in \in {"none", "*", "main"}
  BY <1>3, PhaseType, SetupAssumption DEF CodeInv, InputType
<1>6. picked \in Seq(ToSet(Globals))
  BY PickedGlobalsType
<1> HIDE DEF g, picked
<1> DEFINE S == {Call(g.new, v) : v \in ToSet(Globals)}  T == Linkable \cup S  r == Reverse(calls)
<1>7. r \in Seq(T) /\ \A i \in 1 .. Len(r) : Inserted(r[i]) /\ r[i].new \notin N
  <2>1. DOMAIN picked = 1 .. Len(picked) /\ Len(picked) \in Nat
        /\ \A i \in 1 .. Len(picked) : picked[i] \in ToSet(Globals)
    BY <1>6
  <2>2. calls = [i \in 1 .. Len(picked) |-> Call(g.new, picked[i])]
    BY <2>1
  <2>3. \A i \in 1 .. Len(picked) : Call(g.new, picked[i]) \in S
    BY <2>1
  <2> HIDE DEF S
  <2>4. calls \in Seq(S)
    BY <2>1, <2>2, <2>3, IsASeq
  <2> HIDE DEF calls
  <2>5. r \in Seq(S)
    BY <2>4, ReverseType
  <2>6. \A s \in S : Inserted(s) /\ s.new \notin N
    BY <1>4 DEF S, Inserted, Call
  <2>7. S \subseteq T
    OBVIOUS
  <2> HIDE DEF T, r
  <2>8. r \in Seq(T)
    BY <2>5, <2>7, SeqMonotonic
  <2>9. \A i \in 1 .. Len(r) : r[i] \in S
    BY <2>5
  <2> QED BY <2>6, <2>8, <2>9
<1>8. (\A h : Instruments(h)' = Instruments(h)) /\ Phases' = Phases
  BY <1>1, InputStays
<1>9. \A i \in Nat \ {0}, j \in Nat \ {0} : Tried(P, n, j)' = Tried(P, n, i)
  <2> TAKE i \in Nat \ {0}, j \in Nat \ {0}
  <2>1. /\ n \in Nat /\ n >= 1 /\ fun > n /\ ~ (1 > n)
        /\ (phase + 1 > P <=> ~ (phase < P))
        /\ (phase >= P => ~ (phase + 1 < P))
        /\ i > 0 /\ j > 0 /\ ~ (0 > j) /\ j # 0
    BY <1>1, <1>3
  <2> QED BY <1>1, <1>3, <1>8, <2>1 DEF Tried
<1>10. code \in [ToSet(Functions) -> Seq(Linkable)]
  BY DEF CodeInv, CodeType
<1> HIDE DEF r
<1>11. f \in ToSet(Functions)
  BY FunctionAt
<1>12. c \in Seq(Linkable) /\ Len(c) \in Nat
  BY <1>10, <1>11
<1>13. CASE code'[f] = c
  <2>1. \A i \in 1 .. Len(c) : Tried(P, n, i)' = Tried(P, n, i)
    <3> TAKE i \in 1 .. Len(c)
    <3>1. i \in Nat \ {0}
      OBVIOUS
    <3> QED BY <1>9, <3>1
  <2> QED BY <1>1, <1>13, <2>1, TriedSame
<1>14. CASE code'[f] = r \o c
  <2>1. c \in Seq(T)
    <3>1. Linkable \subseteq T
      OBVIOUS
    <3> HIDE DEF T, c
    <3> QED BY <1>12, <3>1, SeqMonotonic
  <2> DEFINE w == r \o c
  <2> HIDE DEF T, c
  <2>2. Grown(c, c, [i \in 1 .. Len(c) |-> i], N)
    BY <2>1, GrownSame
  <2>3. \E h : Grown(c, r \o c, h, N)
    BY <1>7, <2>1, <2>2, GrownPrefix
  <2>4. PICK m : Grown(c, w, m, N)
    BY <2>3
  <2>5. w \in Seq(T) /\ Len(w) \in Nat
    BY <1>7, <2>1, ConcatProperties
  <2> HIDE DEF w
  <2>6. ASSUME NEW i \in 1 .. Len(c) PROVE Tried(P, n, m[i])' = Tried(P, n, i)
    <3>1. m[i] \in 1 .. Len(w)
      BY <2>4 DEF Grown
    <3>2. m[i] \in Nat \ {0} /\ i \in Nat \ {0}
      BY <1>12, <2>5, <3>1
    <3> QED BY <1>9, <3>2
  <2>7. code'[f] = w
    BY <1>14 DEF w
  <2>8. Advances(P, N, n, m)
    BY <2>4, <2>6, <2>7 DEF c, Advances
  <2> QED BY <2>8
<1>15. code'[f] = c \/ code'[f] = r \o c
  <2>1. CASE code' = code
    BY <2>1
  <2>2. CASE g.in = "main" /\ code' = [code EXCEPT !["main"] = r \o @]
    BY <1>10, <1>11, <2>2
  <2> QED BY <1>2, <1>5, <2>1, <2>2 DEF r
<1> QED BY <1>13, <1>14, <1>15

(* What a rule inserts is linked: the step leads to a program again.       *)
LEMMA AppliedType ==
  ASSUME CodeInv, CodeInv', checkInstruction, applyRule(Rules[NextRule])
  PROVE  Call(Rules[NextRule].new, ins.val) \in Linkable
<1> DEFINE rw == Rules[NextRule]  e == Call(rw.new, ins.val)  c == code[F]
           put == IF rw.where = "before" THEN pos ELSE pos + 1
           d == InsertAt(c, put, e)  T == Linkable \cup {e}
<1>1. /\ c \in Seq(Linkable) /\ Len(c) \in Nat /\ F \in ToSet(Functions)
      /\ pos \in 1 .. Len(c) /\ UNCHANGED input
  BY CheckFacts
<1>2. code \in [ToSet(Functions) -> Seq(Linkable)] /\ code' \in [ToSet(Functions) -> Seq(Linkable)]
  <2>1. Linkable' = Linkable
    BY <1>1, InputStays
  <2> QED BY <2>1 DEF CodeInv, CodeType
<1>3. code' = [code EXCEPT ![F] = d]
  BY DEF applyRule
<1>4. put \in 1 .. Len(c) + 1
  BY <1>1
<1> HIDE DEF c, e, put
<1>5. code'[F] = d /\ d \in Seq(Linkable)
  BY <1>1, <1>2, <1>3
<1>6. c \in Seq(T) /\ e \in T
  <2>1. Linkable \subseteq T
    OBVIOUS
  <2> HIDE DEF T
  <2>2. c \in Seq(T)
    BY <1>1, <2>1, SeqMonotonic
  <2> QED BY <2>2 DEF T
<1> HIDE DEF T
<1>7. /\ Len(d) = Len(c) + 1
      /\ \A i \in 1 .. Len(c) + 1 :
           InsertAt(c, put, e)[i] = IF i < put THEN c[i] ELSE IF i = put THEN e ELSE c[i - 1]
  BY <1>4, <1>6, InsertPlaces
<1>8. d[put] = e /\ put \in 1 .. Len(d)
  BY <1>1, <1>4, <1>7
<1> HIDE DEF d
<1>9. e \in Linkable
  BY <1>5, <1>8
<1> QED BY <1>9 DEF e

LEMMA OutcomeStays == [Next]_vars /\ outcome = "failed" => outcome' = "failed"
<1> SUFFICES ASSUME [Next]_vars, outcome = "failed" PROVE outcome' = "failed"
  OBVIOUS
<1>1. ~ (instrumentFunction \/ omitFunction \/ checkInstruction \/ nextInstruction
         \/ nextFunction \/ instrumentGlobals \/ finish)
  BY DEF instrumentFunction, omitFunction, checkInstruction, nextInstruction, nextFunction,
         instrumentGlobals, finish, InFunction, Runs
<1> QED BY <1>1 DEF Next, vars

(* A rule was tried.  Where the current function's instructions went.      *)
LEMMA CheckGrows ==
  ASSUME CodeInv, CodeInv', checkInstruction, outcome' # "failed", NEW N,
         Rules[NextRule].new \notin N \/ ~checkConditions(Rules[NextRule], ins.val)
  PROVE  /\ \A f \in ToSet(Functions) : f # F => code'[f] = code[f]
         /\ \E m : /\ Grown(code[F], code'[F], m, N)
                   /\ \A i \in 1 .. Len(code[F]) :
                        (m[i] < pos' <=> i < pos) /\ (m[i] = pos' <=> i = pos)
<1> DEFINE rw == Rules[NextRule]  e == Call(rw.new, ins.val)  c == code[F]
<1>1. /\ c \in Seq(Linkable) /\ Len(c) \in Nat /\ F \in ToSet(Functions)
      /\ pos \in 1 .. Len(c) /\ rw \in ToSet(Rules) /\ Matches(rw) /\ UNCHANGED input
  BY CheckFacts
<1>2. code \in [ToSet(Functions) -> Seq(Linkable)] /\ code' \in [ToSet(Functions) -> Seq(Linkable)]
  <2>1. Linkable' = Linkable
    BY <1>1, InputStays
  <2> QED BY <2>1 DEF CodeInv, CodeType
<1>4. CASE UNCHANGED <<code, pos>> /\ ~checkConditions(rw, ins.val)
  <2>1. PICK m : m = [i \in 1 .. Len(c) |-> i]
    OBVIOUS
  <2>2. Grown(c, code'[F], m, N)
    BY <1>1, <1>4, <2>1, GrownSame
  <2>3. \A i \in 1 .. Len(c) : (m[i] < pos' <=> i < pos) /\ (m[i] = pos' <=> i = pos)
    BY <1>4, <2>1
  <2> QED BY <1>4, <2>2, <2>3
<1>5. CASE applyRule(rw) /\ checkConditions(rw, ins.val)
  <2> DEFINE put == IF rw.where = "before" THEN pos ELSE pos + 1
             d == InsertAt(c, put, e)  m == Shifted(Len(c), put)
  <2>1. /\ code' = [code EXCEPT ![F] = d] /\ pos' = IF rw.where = "before" THEN pos + 1 ELSE pos
    BY <1>5 DEF applyRule
  <2>2. put \in 1 .. Len(c) + 1 /\ pos \in Nat
    BY <1>1
  <2>3. \A i \in 1 .. Len(c) : m[i] = IF i < put THEN i ELSE i + 1
    BY DEF Shifted
  <2>4. Inserted(e) /\ e.new = rw.new
    BY DEF Inserted, Call
  <2>5. e \in Linkable
    BY <1>5, AppliedType
  <2>6. Grown(c, d, m, N)
    <3>1. e.new \notin N
      BY <1>5, <2>4
    <3> HIDE DEF c, e, put, rw
    <3> QED BY <1>1, <2>2, <2>4, <2>5, <3>1, GrownInsert
  <2>7. \A i \in 1 .. Len(c) : (m[i] < pos' <=> i < pos) /\ (m[i] = pos' <=> i = pos)
    <3> HIDE DEF m, c
    <3>1. CASE rw.where = "before"
      BY <2>1, <2>2, <2>3, <3>1
    <3>2. CASE rw.where # "before"
      BY <2>1, <2>2, <2>3, <3>2
    <3> QED BY <3>1, <3>2
  <2> HIDE DEF d, m
  <2>8. code'[F] = d /\ \A f \in ToSet(Functions) : f # F => code'[f] = code[f]
    BY <1>1, <1>2, <2>1
  <2> QED BY <2>6, <2>7, <2>8
<1> QED BY <1>4, <1>5 DEF checkInstruction

LEMMA AdvanceCheck ==
  ASSUME CodeInv, CodeInv', checkInstruction, outcome' # "failed",
         NEW P \in 1 .. Len(Phases), NEW N,
         Rules[NextRule].new \notin N \/ ~checkConditions(Rules[NextRule], ins.val),
         NEW n \in 1 .. Len(Functions)
  PROVE  \E m : Advances(P, N, n, m)
<1> DEFINE f == Functions[n]  c == code[f]
<1>1. /\ fun \in 1 .. Len(Functions) /\ code[F] \in Seq(Linkable)
      /\ rule' = NextRule /\ phase' = phase /\ fun' = fun /\ UNCHANGED input
  BY CheckFacts
<1>2. phase \in Nat /\ P \in Nat /\ fun \in Nat /\ pos \in Nat /\ Len(Phases) \in Nat
  BY CodeFacts
<1>3. (\A h : Instruments(h)' = Instruments(h)) /\ Phases' = Phases
  BY <1>1, InputStays
<1>4. \A h \in ToSet(Functions) : h # F => code'[h] = code[h]
  BY CheckGrows
<1>5. pos' \in Nat
  BY DEF CodeInv, TypeOK
<1>6. f \in ToSet(Functions) /\ n \in Nat
  BY FunctionAt
<1>7. CASE n # fun
  <2>1. f # F
    BY <1>1, <1>7, DifferentFunctions DEF F
  <2>2. code'[f] = c
    BY <1>4, <1>6, <2>1
  <2>3. \A i : Tried(P, n, i)' = Tried(P, n, i)
    BY <1>1, <1>3, <1>7 DEF Tried
  <2> QED BY <2>2, <2>3, TriedSame
<1>8. CASE n = fun
  <2>1. f = F
    BY <1>8 DEF F
  <2>2. PICK m : /\ Grown(c, code'[f], m, N)
                 /\ \A i \in 1 .. Len(c) : (m[i] < pos' <=> i < pos) /\ (m[i] = pos' <=> i = pos)
    BY <2>1, CheckGrows
  <2>3. ASSUME NEW i \in 1 .. Len(c)
        PROVE  \/ Tried(P, n, m[i])' = Tried(P, n, i)
               \/ /\ phase = P /\ fun = n /\ pos = i /\ Tried(P, n, i) = rule
                  /\ Tried(P, n, m[i])' = NextRule
    <3>1. m[i] \in Nat /\ i \in Nat /\ (m[i] < pos' <=> i < pos) /\ (m[i] = pos' <=> i = pos)
      <4>1. m[i] \in 1 .. Len(code'[f])
        BY <2>2 DEF Grown
      <4> QED BY <2>2, <4>1
    <3>2. /\ phase' = phase /\ fun' = fun /\ fun = n /\ rule' = NextRule
          /\ Phases' = Phases /\ Instruments(f)' = Instruments(f)
          /\ phase \in Nat /\ P \in Nat /\ n \in Nat /\ pos \in Nat /\ pos' \in Nat
      BY <1>1, <1>2, <1>3, <1>5, <1>6, <1>8
    <3>3. CASE Instruments(f) /\ i = pos /\ phase = P
      BY <3>1, <3>2, <3>3 DEF Tried
    <3>4. CASE ~ (Instruments(f) /\ i = pos /\ phase = P)
      BY <3>1, <3>2, <3>4 DEF Tried
    <3> QED BY <3>3, <3>4
  <2> QED BY <2>2, <2>3 DEF Advances
<1> QED BY <1>7, <1>8

(* Every step that places no call of N advances.                           *)
PlacesNone(N) ==
  /\ instrumentFunction =>
       \A r \in ToSet(Rules) : r.where \in {"entry", "return"} => r.new \notin N
  /\ checkInstruction =>
       Rules[NextRule].new \notin N \/ ~checkConditions(Rules[NextRule], ins.val)
  /\ instrumentGlobals => Phases[phase].globals.new \notin N

LEMMA StepAdvances ==
  ASSUME CodeInv, CodeInv', [Next]_vars, outcome' # "failed",
         NEW P \in 1 .. Len(Phases), NEW N, PlacesNone(N), NEW n \in 1 .. Len(Functions)
  PROVE  \E m : Advances(P, N, n, m)
<1>1. CASE instrumentFunction
  BY <1>1, AdvanceInstrument DEF PlacesNone
<1>2. CASE checkInstruction
  BY <1>2, AdvanceCheck DEF PlacesNone
<1>3. CASE nextInstruction
  BY <1>3, AdvanceNextInstruction
<1>4. CASE instrumentGlobals
  BY <1>4, AdvanceGlobals DEF PlacesNone
<1>5. CASE omitFunction \/ nextFunction \/ finish \/ UNCHANGED vars
  BY <1>5, AdvanceMoves
<1> QED BY <1>1, <1>2, <1>3, <1>4, <1>5 DEF Next

LEMMA KinAdvances ==
  ASSUME CodeInv, CodeInv', [Next]_vars, UNCHANGED input,
         NEW P, NEW N, BeforeOnly(P, N), Steady(P, N), PlacesNone(N),
         NEW n \in 1 .. Len(Functions), NEW m, Advances(P, N, n, m)
  PROVE  Kin(P, N, n, m)
<1> DEFINE f == Functions[n]  c == code[f]
<1> SUFFICES ASSUME NEW i \in 1 .. Len(c), NEW x, x = c[i], ~Inserted(x)
             PROVE  \E r : /\ Tried(P, n, m[i])' = r /\ (phase >= P \/ r = 0)
                           /\ Due(P, N, f, x, r) = Due(P, N, f, x, Tried(P, n, i))
  BY KinDue DEF Advances
<1>1. CASE Tried(P, n, m[i])' = Tried(P, n, i)
  BY <1>1, TriedType
<1>2. ASSUME phase = P, fun = n, pos = i, Tried(P, n, i) = rule,
             NEW r \in rule .. Len(Rules), Tried(P, n, m[i])' = r, phase <= Len(Phases),
             \A k \in rule + 1 .. r :
               \/ ~Matches(Rules[k]) \/ Rules[k].new \notin N
               \/ ~checkConditions(Rules[k], ins.val)
      PROVE  /\ Tried(P, n, m[i])' = r /\ phase >= P
             /\ Due(P, N, f, x, r) = Due(P, N, f, x, Tried(P, n, i))
  <2>1. x = ins /\ F = f
    BY <1>2 DEF ins, F
  <2>2. Due(phase, N, F, ins, r) = Due(phase, N, F, ins, rule)
    BY <1>2, DueFurther
  <2>3. phase >= P
    BY <1>2, CodeFacts
  <2> QED BY <1>2, <2>1, <2>2, <2>3
<1>3. CASE /\ phase = P /\ fun = n /\ pos = i /\ Tried(P, n, i) = rule
           /\ checkInstruction /\ Tried(P, n, m[i])' = NextRule
  <2>1. /\ phase \in 1 .. Len(Phases) /\ rule \in Nat /\ Len(Rules) \in Nat
        /\ NextRule \in rule + 1 .. Len(Rules)
        /\ \A k \in rule + 1 .. NextRule - 1 : ~Matches(Rules[k])
    BY <1>3, CheckFacts
  <2>2. \A k \in rule + 1 .. NextRule :
          \/ ~Matches(Rules[k]) \/ Rules[k].new \notin N
          \/ ~checkConditions(Rules[k], ins.val)
    <3> TAKE k \in rule + 1 .. NextRule
    <3>1. k \in rule + 1 .. NextRule - 1 \/ k = NextRule
      BY <2>1
    <3> QED BY <1>3, <2>1, <3>1 DEF PlacesNone
  <2>3. NextRule \in rule .. Len(Rules) /\ phase <= Len(Phases)
    BY <2>1, CodeFacts
  <2> DEFINE r == NextRule
  <2>4. /\ Tried(P, n, m[i])' = r /\ phase >= P
        /\ Due(P, N, f, x, r) = Due(P, N, f, x, Tried(P, n, i))
    BY <1>2, <1>3, <2>2, <2>3
  <2> QED BY <2>4
<1>4. CASE /\ phase = P /\ fun = n /\ pos = i /\ Tried(P, n, i) = rule
           /\ nextInstruction /\ Tried(P, n, m[i])' = Len(Rules)
           /\ \A k \in rule + 1 .. Len(Rules) : ~Matches(Rules[k])
  <2>1. phase <= Len(Phases)
    BY <1>4 DEF nextInstruction, InFunction, Runs
  <2>2. rule \in 0 .. Len(Rules) /\ Len(Rules) \in Nat
    BY <2>1, CodeFacts DEF CodeInv, TypeOK
  <2>3. Len(Rules) \in rule .. Len(Rules)
    BY <2>2
  <2> DEFINE r == Len(Rules)
  <2>4. /\ Tried(P, n, m[i])' = r /\ phase >= P
        /\ Due(P, N, f, x, r) = Due(P, N, f, x, Tried(P, n, i))
    BY <1>2, <1>4, <2>1, <2>3
  <2> QED BY <2>4
<1> QED BY <1>1, <1>3, <1>4 DEF Advances

(* The rule places a call of N: it is one more in front of its instruction.*)
LEMMA GapPlaced ==
  ASSUME CodeInv, CodeInv', checkInstruction,
         NEW P, NEW N, BeforeOnly(P, N), Steady(P, N), GapInv(P, N),
         Rules[NextRule].new \in N, checkConditions(Rules[NextRule], ins.val),
         applyRule(Rules[NextRule]), Call(Rules[NextRule].new, ins.val) \in Linkable
  PROVE  GapInv(P, N)'
<1> DEFINE k == NextRule  rw == Rules[k]  e == Call(rw.new, ins.val)  c == code[F]
           d == InsertAt(c, pos, e)  m == Shifted(Len(c), pos)
<1>1. /\ phase \in 1 .. Len(Phases) /\ fun \in 1 .. Len(Functions) /\ outcome = "running"
      /\ c \in Seq(Linkable) /\ Len(c) \in Nat /\ F \in ToSet(Functions)
      /\ pos \in 1 .. Len(c) /\ ins = c[pos] /\ ~Inserted(c[pos])
      /\ rule \in Nat /\ Len(Rules) \in Nat /\ k \in rule + 1 .. Len(Rules)
      /\ rule' = k /\ phase' = phase /\ fun' = fun /\ UNCHANGED input
      /\ Matches(rw) /\ rw \in ToSet(Rules)
      /\ \A h \in rule + 1 .. k - 1 : ~Matches(Rules[h])
  BY CheckFacts
<1>2. phase \in Nat /\ P \in Nat /\ fun \in Nat /\ pos \in Nat /\ Len(Phases) \in Nat
  BY CodeFacts, TriedType
<1>3. (\A f : Instruments(f)' = Instruments(f)) /\ Phases' = Phases
  BY <1>1, InputStays
<1>4. phase = P /\ rw.where = "before" /\ Rules = Phases[P].rules
  BY <1>1 DEF BeforeOnly, Rules
<1>5. Instruments(F)
  BY <1>1, <1>2 DEF CodeInv, Walking
<1>6. code \in [ToSet(Functions) -> Seq(Linkable)]
  BY DEF CodeInv, CodeType
<1>7. code' = [code EXCEPT ![F] = d] /\ pos' = pos + 1
  BY <1>4 DEF applyRule
<1>8. e \in Linkable /\ Inserted(e)
  BY DEF Call, Inserted
<1>9. Grown(c, d, m, {})
  <2>1. pos \in 1 .. Len(c) + 1
    BY <1>1
  <2> HIDE DEF d, m, e, c
  <2> QED BY <1>1, <1>8, <2>1, GrownInsert DEF d, m
<1>10. d[pos] = e /\ d[pos + 1] = c[pos] /\ Len(d) = Len(c) + 1
  <2>1. /\ pos \in 1 .. Len(c) + 1 /\ pos + 1 \in 1 .. Len(c) + 1
        /\ ~ (pos + 1 < pos) /\ pos + 1 # pos /\ (pos + 1) - 1 = pos /\ ~ (pos < pos)
    BY <1>1
  <2> HIDE DEF e, c
  <2>2. /\ Len(InsertAt(c, pos, e)) = Len(c) + 1
        /\ \A i \in 1 .. Len(c) + 1 :
          InsertAt(c, pos, e)[i] = IF i < pos THEN c[i] ELSE IF i = pos THEN e ELSE c[i - 1]
    BY <1>1, <1>8, <2>1, InsertPlaces
  <2> QED BY <2>1, <2>2
<1>11. \A i \in 1 .. Len(c) : m[i] = IF i < pos THEN i ELSE i + 1
  BY DEF Shifted
<1> HIDE DEF d, m, e, c
<1>12. ASSUME NEW n \in 1 .. Len(Functions) PROVE GapOf(P, N, n)'
  <2> DEFINE f == Functions[n]
  <2>1. f \in ToSet(Functions) /\ n \in Nat /\ GapOf(P, N, n)
    BY <1>1, FunctionAt DEF GapInv
  <2>2. CASE n # fun
    <3>1. f # F
      BY <1>1, <2>2, DifferentFunctions DEF F
    <3>2. code'[f] = code[f]
      BY <1>6, <1>7, <2>1, <3>1
    <3>3. \A i : Tried(P, n, i)' = Tried(P, n, i)
      BY <1>1, <1>3, <2>2 DEF Tried
    <3>4. \E h : Kin(P, N, n, h)
      BY <1>1, <3>2, <3>3, KinSame
    <3> QED BY <1>1, <2>1, <3>4, GapOfKin
  <2>3. CASE n = fun
    <3>1. f = F /\ code'[f] = d /\ code[f] = c
      BY <1>1, <1>6, <1>7, <2>3 DEF F, c
    <3> SUFFICES ASSUME NEW j \in 1 .. Len(d), NEW x, x = d[j], ~Inserted(x)
                 PROVE  Shows(d, j, N, Due(P, N, f, x, Tried(P, n, j))', Phases[P].rules)
      BY <1>3, <3>1 DEF GapOf
    <3>0. /\ phase' = phase /\ fun' = fun /\ fun = n /\ rule' = k /\ pos' = pos + 1
          /\ Phases' = Phases /\ Instruments(f)' /\ Instruments(f) /\ phase = P
          /\ P \in Nat /\ n \in Nat /\ pos \in Nat
      BY <1>1, <1>2, <1>3, <1>4, <1>5, <1>7, <2>3, <3>1
    <3>2. CASE j = pos + 1
      <4>1. x = ins
        BY <1>1, <1>10, <3>2
      <4>2. Tried(P, n, j)' = k /\ Tried(P, n, pos) = rule
        BY <3>0, <3>2 DEF Tried
      <4> DEFINE D == Due(P, N, f, ins, rule)
      <4>3. PICK r : r = k
        OBVIOUS
      <4>4. Due(P, N, f, x, Tried(P, n, j))' = Due(P, N, f, ins, k)
        <5>1. phase >= P
          BY <1>2, <1>4
        <5>2. Due(P, N, f, x, r)' = Due(P, N, f, x, r)
          BY <1>1, <5>1, DueStays
        <5>3. Tried(P, n, j)' = r
          BY <4>2, <4>3
        <5>4. Due(P, N, f, x, Tried(P, n, j))' = Due(P, N, f, x, r)'
          BY <5>3
        <5> QED BY <4>1, <4>3, <5>2, <5>4
      <4>5. Due(P, N, f, ins, k - 1) = D
        <5>1. PICK s \in rule .. Len(Rules) : s = k - 1
          BY <1>1
        <5>2. \A h \in rule + 1 .. s :
                \/ ~Matches(Rules[h]) \/ Rules[h].new \notin N \/ ~checkConditions(Rules[h], ins.val)
          BY <1>1, <5>1
        <5>3. phase <= Len(Phases) /\ BeforeOnly(phase, N)
          BY <1>1, <1>4
        <5>4. Due(phase, N, F, ins, s) = Due(phase, N, F, ins, rule)
          BY <5>2, <5>3, DueFurther
        <5> QED BY <1>4, <3>1, <5>1, <5>4
      <4>6. Due(P, N, f, ins, k) = Due(P, N, f, ins, k - 1) \cup {k}
        <5>1. /\ rw.new \in N /\ rw.op = ins.op /\ AppliesIn(rw, F) /\ Holds(P, k, ins.val)
              /\ rw = Phases[P].rules[k]
          BY <1>1, <1>4 DEF Matches, Holds
        <5>2. k \in 1 .. Len(Phases[P].rules) /\ k <= k
              /\ \A h \in 1 .. Len(Phases[P].rules) : h <= k <=> (h <= k - 1 \/ h = k)
          BY <1>1, <1>4
        <5> QED BY <3>1, <5>1, <5>2 DEF Due
      <4>7. k \notin D
        <5>1. ~ (k <= rule)
          BY <1>1
        <5> QED BY <5>1 DEF Due
      <4>8. Shows(c, pos, N, D, Phases[P].rules)
        BY <1>1, <2>1, <3>1, <4>2 DEF GapOf
      <4> HIDE DEF D
      <4>9. Shows(d, pos + 1, N, D \cup {k}, Phases[P].rules)
        <5> DEFINE R == Phases[P].rules  v == c[pos].val
        <5>1. R[k].new \in N /\ Call(R[k].new, v) = e /\ Call(R[k].new, v) \in Linkable
          BY <1>1, <1>4, <1>8 DEF e
        <5> HIDE DEF R
        <5>2. Shows(InsertAt(c, pos, Call(R[k].new, c[pos].val)), pos + 1, N, D \cup {k}, R)
          <6>1. Shows(c, pos, N, D, R)
            BY <4>8 DEF R
          <6> HIDE DEF k
          <6> QED BY <1>1, <4>7, <5>1, <6>1, ShowsPlaced
        <5> QED BY <5>1, <5>2 DEF R, d
      <4> QED BY <3>2, <4>4, <4>5, <4>6, <4>9
    <3>3. CASE j # pos + 1
      <4>1. PICK i \in 1 .. Len(c) : m[i] = j /\ c[i] = x
        <5>1. j # pos
          BY <1>8, <1>10
        <5>2. \A y \in 1 .. Len(d) : (\A i \in 1 .. Len(c) : m[i] # y) => Inserted(d[y])
          BY <1>9 DEF Grown
        <5>3. PICK i \in 1 .. Len(c) : m[i] = j
          BY <5>2
        <5> QED BY <1>9, <5>3 DEF Grown
      <4>2. i # pos /\ i \in Nat /\ (j < pos + 1 <=> i < pos) /\ j \in Nat
        <5>1. pos \in Nat /\ i \in Nat /\ j \in Nat /\ j = IF i < pos THEN i ELSE i + 1
          BY <1>2, <1>10, <1>11, <4>1
        <5> QED BY <3>3, <5>1
      <4>3. Tried(P, n, j)' = Tried(P, n, i)
        BY <3>0, <3>3, <4>2 DEF Tried
      <4> DEFINE D == Due(P, N, f, x, Tried(P, n, i))
      <4>4. Due(P, N, f, x, Tried(P, n, j))' = D
        <5>1. PICK r : r = Tried(P, n, i)
          OBVIOUS
        <5>2. phase >= P
          BY <1>2, <1>4
        <5>3. Due(P, N, f, x, r)' = Due(P, N, f, x, r)
          BY <1>1, <5>2, DueStays
        <5>4. Tried(P, n, j)' = r
          BY <4>3, <5>1
        <5>5. Due(P, N, f, x, Tried(P, n, j))' = Due(P, N, f, x, r)'
          BY <5>4
        <5> QED BY <5>1, <5>3, <5>5
      <4>5. Shows(c, i, N, D, Phases[P].rules)
        BY <2>1, <3>1, <4>1 DEF GapOf
      <4> HIDE DEF D
      <4>6. Shows(InsertAt(c, pos, e), Shifted(Len(c), pos)[i], N, D, Phases[P].rules)
        BY <1>1, <1>8, <4>2, <4>5, ShowsElsewhere
      <4> QED BY <4>1, <4>4, <4>6 DEF d, m
    <3> QED BY <3>2, <3>3
  <2> QED BY <2>2, <2>3
<1> QED BY <1>12 DEF GapInv

(* The programs have no calls yet, and no rule has been tried.             *)
LEMMA GapInit ==
  ASSUME Init, CodeInv, NEW P, NEW N, BeforeOnly(P, N)
  PROVE  GapInv(P, N)
<1> SUFFICES ASSUME NEW n \in 1 .. Len(Functions),
                    NEW i \in 1 .. Len(code[Functions[n]]), NEW x
             PROVE  Shows(code[Functions[n]], i, N, Due(P, N, Functions[n], x, Tried(P, n, i)),
                          Phases[P].rules)
  BY DEF GapInv, GapOf
<1> DEFINE f == Functions[n]  c == code[f]
<1>1. f \in ToSet(Functions) /\ n \in Nat /\ n >= 1
  BY FunctionAt
<1>2. c \in Seq(Original) /\ Len(c) \in Nat
  <2>1. original \in [ToSet(Functions) -> Seq(Original)] /\ code = original
    BY ProgramAssumption DEF Init
  <2> QED BY <1>1, <2>1
<1> HIDE DEF c
<1>3. \A j \in 1 .. Len(c) : ~Inserted(c[j])
  BY <1>2 DEF Original, Inserted
<1>4. Watched(c, i, N) = {}
  <2> SUFFICES ASSUME NEW j \in Watched(c, i, N) PROVE FALSE
    OBVIOUS
  <2>1. j \in 1 .. i - 1 /\ \A k \in j .. i - 1 : Inserted(c[k])
    BY DEF Watched
  <2>2. j \in j .. i - 1 /\ j \in 1 .. Len(c)
    BY <1>2, <2>1 DEF c
  <2> QED BY <1>3, <2>1, <2>2
<1>5. Tried(P, n, i) = 0
  <2>1. phase = 1 /\ fun = 1 /\ pos = 0 /\ P \in Nat /\ P >= 1
    <3>1. phase = 1 /\ fun = 1 /\ pos = 0
      BY DEF Init
    <3>2. P \in 1 .. Len(Phases) /\ Len(Phases) \in Nat
      BY CodeFacts DEF BeforeOnly
    <3> QED BY <3>1, <3>2
  <2>2. i \in Nat /\ i >= 1
    BY <1>2 DEF c
  <2> QED BY <1>1, <2>1, <2>2 DEF Tried
<1>6. Due(P, N, f, x, Tried(P, n, i)) = {}
  BY <1>5 DEF Due
<1> QED BY <1>4, <1>6 DEF Shows, c

LEMMA InputFixed == [Next]_vars => UNCHANGED input
<1>1. instrumentFunction => UNCHANGED input
  BY DEF instrumentFunction
<1>2. omitFunction => UNCHANGED input
  BY DEF omitFunction
<1>3. checkInstruction => UNCHANGED input
  BY DEF checkInstruction
<1>4. nextInstruction => UNCHANGED input
  BY DEF nextInstruction
<1>5. nextFunction => UNCHANGED input
  BY DEF nextFunction
<1>6. instrumentGlobals => UNCHANGED input
  BY DEF instrumentGlobals
<1>7. finish => UNCHANGED input
  BY DEF finish
<1>8. UNCHANGED vars => UNCHANGED input
  BY DEF vars
<1> QED BY <1>1, <1>2, <1>3, <1>4, <1>5, <1>6, <1>7, <1>8 DEF Next

LEMMA GapInductive ==
  ASSUME CodeInv, CodeInv', [Next]_vars,
         NEW P, NEW N, BeforeOnly(P, N), Steady(P, N), GapInv(P, N)
  PROVE  GapInv(P, N)'
<1>1. UNCHANGED input
  BY InputFixed
<1>2. CASE outcome' = "failed"
  BY <1>2 DEF GapInv
<1>3. outcome # "failed" \/ outcome' = "failed"
  BY OutcomeStays
<1>4. CASE outcome # "failed" /\ outcome' # "failed" /\ PlacesNone(N)
  <2>1. \A n \in 1 .. Len(Functions) : \E m : Kin(P, N, n, m)
    BY <1>1, <1>4, StepAdvances, KinAdvances DEF BeforeOnly
  <2> QED BY <1>1, <1>4, <2>1, GapKept
<1>5. CASE outcome' # "failed" /\ checkInstruction /\ Rules[NextRule].new \in N
           /\ checkConditions(Rules[NextRule], ins.val)
  <2>1. applyRule(Rules[NextRule])
    BY <1>5 DEF checkInstruction
  <2>2. Call(Rules[NextRule].new, ins.val) \in Linkable
    BY <1>5, <2>1, AppliedType
  <2> QED BY <1>5, <2>1, <2>2, GapPlaced
<1>6. PlacesNone(N) \/ (/\ checkInstruction /\ Rules[NextRule].new \in N
                        /\ checkConditions(Rules[NextRule], ins.val))
  <2>1. instrumentFunction =>
          \A r \in ToSet(Rules) : r.where \in {"entry", "return"} => r.new \notin N
    <3>1. instrumentFunction => phase \in 1 .. Len(Phases)
      BY CodeFacts DEF instrumentFunction, InFunction, Runs
    <3> QED BY <3>1 DEF BeforeOnly, Rules
  <2>2. instrumentGlobals => Phases[phase].globals.new \notin N
    <3>1. instrumentGlobals => phase \in 1 .. Len(Phases)
      <4>1. instrumentGlobals => phase <= Len(Phases)
        BY DEF instrumentGlobals, Runs
      <4> QED BY <4>1, CodeFacts
    <3> QED BY <3>1 DEF BeforeOnly
  <2> QED BY <2>1, <2>2 DEF PlacesNone
<1> QED BY <1>2, <1>3, <1>4, <1>5, <1>6

(* A condition that asks the plugins about the program alone.              *)
Plain(c) == c.name \notin setup.flags /\ c.name # "isRemembered"

LEMMA PlainStays ==
  ASSUME UNCHANGED input, NEW r, \A i \in DOMAIN r.conds : Plain(r.conds[i]), NEW v
  PROVE  checkConditions(r, v)' <=> checkConditions(r, v)
<1>1. setup' = setup /\ facts' = facts
  BY InputStays
<1>2. ASSUME NEW i \in DOMAIN r.conds
      PROVE  checkAnalysis(setup.plugins, r.conds[i], r.forAll, facts[v], rememberedValues')
             <=> checkAnalysis(setup.plugins, r.conds[i], r.forAll, facts[v], rememberedValues)
  <2>1. r.conds[i].name # "isRemembered"
    BY DEF Plain
  <2> QED BY <2>1 DEF checkAnalysis, shouldInstrument
<1>3. \A i \in DOMAIN r.conds : r.conds[i].name \notin setup.flags
  BY DEF Plain
<1> QED BY <1>1, <1>2, <1>3 DEF checkConditions
(* Rules whose conditions are plain answer the same at any time.           *)
LEMMA PlainIsSteady ==
  ASSUME CodeInv, UNCHANGED input, NEW P \in 1 .. Len(Phases), NEW N,
         \A r \in ToSet(Phases[P].rules) : r.new \in N => \A i \in DOMAIN r.conds : Plain(r.conds[i])
  PROVE  Steady(P, N)
<1> SUFFICES ASSUME NEW k \in 1 .. Len(Phases[P].rules), Phases[P].rules[k].new \in N, NEW v
             PROVE  Holds(P, k, v)' <=> Holds(P, k, v)
  BY DEF Steady
<1>1. setup \in Setups /\ Phases = setup.phases /\ Phases' = Phases
  BY InputStays DEF CodeInv, InputType, Phases
<1> DEFINE r == Phases[P].rules[k]
<1>3. r \in ToSet(Phases[P].rules)
  <2>1. setup.phases[P] \in ToSet(setup.phases)
    BY <1>1, SetupAssumption DEF IsSequence, ToSet
  <2>2. IsSequence(Phases[P].rules)
    BY <1>1, <2>1, SetupAssumption
  <2> QED BY <2>2 DEF IsSequence
<1>4. \A i \in DOMAIN r.conds : Plain(r.conds[i])
  BY <1>3
<1>5. PICK q : q = r
  OBVIOUS
<1>6. checkConditions(q, v)' <=> checkConditions(q, v)
  BY <1>4, <1>5, PlainStays
<1>7. Holds(P, k, v)' <=> checkConditions(q, v)'
  <2>1. r' = q
    BY <1>1, <1>5
  <2> QED BY <2>1 DEF Holds
<1>8. Holds(P, k, v) <=> checkConditions(q, v)
  BY <1>5 DEF Holds
<1> QED BY <1>6, <1>7, <1>8

(* When the phases are over all rules have been tried on an instruction.   *)
LEMMA FinallyShown ==
  ASSUME CodeInv, phase > Len(Phases), outcome # "failed",
         NEW P, NEW N, BeforeOnly(P, N), GapInv(P, N),
         NEW f \in Instrumented, NEW i \in DOMAIN code[f], ~Inserted(code[f][i])
  PROVE  /\ code[f] \in Seq(Linkable) /\ Len(code[f]) \in Nat /\ i \in 1 .. Len(code[f])
         /\ code[f][i] \in Linkable
         /\ Shows(code[f], i, N, Due(P, N, f, code[f][i], Len(Phases[P].rules)), Phases[P].rules)
<1> DEFINE c == code[f]  x == c[i]
<1>1. f \in ToSet(Functions) /\ Instruments(f)
  BY DEF Instrumented
<1>2. PICK n \in 1 .. Len(Functions) : Functions[n] = f
  BY <1>1, ProgramAssumption DEF ToSet, IsSequence
<1>3. c \in Seq(Linkable) /\ Len(c) \in Nat
  BY <1>1, CodeFacts
<1>4. i \in 1 .. Len(c) /\ x \in Linkable
  BY <1>3
<1>5. Tried(P, n, i) = Len(Phases[P].rules)
  <2>1. phase \in Nat /\ Len(Phases) \in Nat /\ P \in 1 .. Len(Phases)
    BY CodeFacts DEF BeforeOnly
  <2>2. ~ (phase < P) /\ phase > P
    BY <2>1
  <2> QED BY <1>1, <1>2, <2>2 DEF Tried
<1>6. Shows(c, i, N, Due(P, N, f, x, Tried(P, n, i)), Phases[P].rules)
  BY <1>2, <1>4 DEF GapInv, GapOf
<1> QED BY <1>3, <1>4, <1>5, <1>6
(* It is done only after the last phase.                                   *)
DonePast == outcome = "done" => phase > Len(Phases)

LEMMA DonePastStays ==
  ASSUME CodeInv, DonePast, [Next]_vars
  PROVE  DonePast'
<1>1. Phases' = Phases
  BY InputFixed, InputStays
<1>2. outcome' = "done" => phase' = phase /\ (outcome = "done" \/ phase > Len(Phases))
  <2>1. instrumentFunction => outcome' # "done"
    BY DEF instrumentFunction, InFunction, Runs
  <2>2. checkInstruction => outcome' # "done"
    BY DEF checkInstruction, InFunction, Runs, Quiet
  <2>3. instrumentGlobals => outcome' # "done"
    BY DEF instrumentGlobals, Runs
  <2>4. omitFunction \/ nextInstruction \/ nextFunction => outcome' # "done"
    BY DEF omitFunction, nextInstruction, nextFunction, InFunction, Runs, Quiet
  <2>5. finish => phase' = phase /\ phase > Len(Phases)
    BY DEF finish
  <2>6. UNCHANGED vars => phase' = phase /\ outcome' = outcome
    BY DEF vars
  <2> QED BY <2>1, <2>2, <2>3, <2>4, <2>5, <2>6 DEF Next
<1> QED BY <1>1, <1>2 DEF DonePast

-----------------------------------------------------------------------------
(***************************************************************************)
(* The rules that check loads and stores.                                  *)
(***************************************************************************)
Asks(name, expected) == [name |-> name, expected |-> expected]
Doubtful == {"false", "maybe"}
CheckConds(sized, invalid) ==
  <<Asks("isValidPointer", Doubtful), Asks("hasKnownSize", sized), Asks("isInvalid", invalid)>>

(* What a rule places and what it asks for.                                *)
KindOf(r) == <<r.new, r.conds>>
BoundsKind == <<"__INSTR_check_bounds", CheckConds({"true"}, Doubtful)>>
PointerKind == <<"__INSTR_check_pointer", CheckConds(Doubtful, Doubtful)>>
InvalidKind == <<"__INSTR_check_pointer", CheckConds(Doubtful, {"true"})>>
FailKind == <<"__INSTR_fail", CheckConds(Doubtful, {"true"})>>

(* The configurations of memory safety: the points-to plugin is the only   *)
(* one; the checks are placed in the first phase, in front of what they    *)
(* check, and do not ask what has been remembered; a load or a store has   *)
(* its rule for each outcome, and none twice (memsafety/config.json).      *)
CheckRules ==
  \A s \in Setups : s.config = "config" /\ "PointsTo" \in s.plugins =>
    /\ s.plugins = {"PointsTo"} /\ s.phases # <<>>
    /\ \A p \in 1 .. Len(s.phases) :
         /\ s.phases[p].globals.new \notin Checks
         /\ \A r \in ToSet(s.phases[p].rules) : r.new \in Checks =>
              /\ p = 1 /\ r.where = "before"
              /\ \A i \in DOMAIN r.conds :
                   r.conds[i].name \notin s.flags /\ r.conds[i].name # "isRemembered"
              /\ r.op \in Accesses =>
                   r.in = "*" /\ KindOf(r) \in {BoundsKind, PointerKind, InvalidKind, FailKind}
    /\ \A op \in Accesses : \A kind \in {BoundsKind, PointerKind, FailKind} :
         \E r \in ToSet(s.phases[1].rules) : r.op = op /\ KindOf(r) = kind
    /\ \A k, h \in 1 .. Len(s.phases[1].rules) :
         LET r == s.phases[1].rules[k]
             q == s.phases[1].rules[h]
         IN  r.new \in Checks /\ r.op \in Accesses /\ r.op = q.op /\ KindOf(r) = KindOf(q) => k = h

(* DG moves the pointers of a getelementptr's base and keeps their targets:*)
(* where those have a size, the result is not surely invalid.              *)
SizedIsNotInvalid ==
  \A prog \in Programs, known \in Facts, f \in ToSet(Functions) : \A i \in DOMAIN prog[f] :
    prog[f][i].op \in Accesses =>
      LET v == known[prog[f][i].val]
      IN  hasKnownSize(v.base) = "true" => isInvalid(v.node) # "true"

LEMMA Answers ==
  ASSUME NEW node
  PROVE  /\ isValidPointer(node, AccessSize) \in {"true", "false", "maybe"}
         /\ isInvalid(node) \in {"true", "false", "maybe"}
         /\ hasKnownSize(node) \in {"true", "false"}
<1>1. ASSUME NEW p PROVE TargetValid(p, AccessSize) \in {"true", "false", "maybe"}
  BY DEF TargetValid, Truth
<1>2. isValidPointer(node, AccessSize) \in {"true", "false", "maybe"}
  <2> DEFINE i == SelectInSeq(node.pointsTo, LAMBDA p : TargetValid(p, AccessSize) # "true")
  <2>1. TargetValid(node.pointsTo[i], AccessSize) \in {"true", "false", "maybe"}
    BY <1>1
  <2>2. isValidPointer(node, AccessSize) =
          CASE KnowsNothing(node)             -> "maybe"
            [] ~KnowsNothing(node) /\ i = 0   -> "true"
            [] ~KnowsNothing(node) /\ i # 0   -> TargetValid(node.pointsTo[i], AccessSize)
    BY DEF isValidPointer
  <2> HIDE DEF i
  <2> QED BY <2>1, <2>2
<1>3. isInvalid(node) \in {"true", "false", "maybe"}
  BY DEF isInvalid, AllOf
<1>4. hasKnownSize(node) \in {"true", "false"}
  BY DEF hasKnownSize, Truth
<1> QED BY <1>2, <1>3, <1>4

(* With the points-to plugin alone, a check's conditions are what it says. *)
LEMMA CheckHolds ==
  ASSUME setup.plugins = {"PointsTo"}, NEW r, NEW v,
         \A i \in DOMAIN r.conds : Plain(r.conds[i]),
         NEW sized, NEW invalid, r.conds = CheckConds(sized, invalid)
  PROVE  checkConditions(r, v) <=>
           /\ isValidPointer(facts[v].node, AccessSize) \in Doubtful
           /\ hasKnownSize(facts[v].base) \in sized
           /\ isInvalid(facts[v].node) \in invalid
<1>1. ASSUME NEW c, NEW q, q \in {"isValidPointer", "hasKnownSize", "isInvalid"}, c.name = q
      PROVE  checkAnalysis(setup.plugins, c, r.forAll, facts[v], rememberedValues)
               <=> pointsToQuery(q, facts[v]) \in c.expected
  <2>1. supports("PointsTo", q)
    BY <1>1 DEF supports, supportedQueries
  <2>2. q # "isRemembered"
    BY <1>1
  <2>3. shouldInstrument("PointsTo", c, facts[v], rememberedValues)
          <=> pointsToQuery(q, facts[v]) \in c.expected
    BY <1>1, <2>2 DEF shouldInstrument, query
  <2> QED BY <1>1, <2>1, <2>2, <2>3 DEF checkAnalysis, Needed
<1>2. /\ pointsToQuery("isValidPointer", facts[v]) = isValidPointer(facts[v].node, AccessSize)
      /\ pointsToQuery("hasKnownSize", facts[v]) = hasKnownSize(facts[v].base)
      /\ pointsToQuery("isInvalid", facts[v]) = isInvalid(facts[v].node)
  BY DEF pointsToQuery
<1>3. /\ DOMAIN r.conds = 1 .. 3
      /\ r.conds[1] = Asks("isValidPointer", Doubtful)
      /\ r.conds[2] = Asks("hasKnownSize", sized)
      /\ r.conds[3] = Asks("isInvalid", invalid)
  BY DEF CheckConds
<1>4. /\ r.conds[1].name = "isValidPointer" /\ r.conds[1].expected = Doubtful
      /\ r.conds[2].name = "hasKnownSize" /\ r.conds[2].expected = sized
      /\ r.conds[3].name = "isInvalid" /\ r.conds[3].expected = invalid
  BY <1>3 DEF Asks
<1>5. checkConditions(r, v) <=>
        \A i \in 1 .. 3 :
          checkAnalysis(setup.plugins, r.conds[i], r.forAll, facts[v], rememberedValues)
  BY <1>3 DEF checkConditions, Plain
<1>6. \A i \in 1 .. 3 : i = 1 \/ i = 2 \/ i = 3
  OBVIOUS
<1>7. 1 \in 1 .. 3 /\ 2 \in 1 .. 3 /\ 3 \in 1 .. 3
  OBVIOUS
<1>8. checkConditions(r, v) <=>
        /\ checkAnalysis(setup.plugins, r.conds[1], r.forAll, facts[v], rememberedValues)
        /\ checkAnalysis(setup.plugins, r.conds[2], r.forAll, facts[v], rememberedValues)
        /\ checkAnalysis(setup.plugins, r.conds[3], r.forAll, facts[v], rememberedValues)
  BY <1>5, <1>6, <1>7
<1> HIDE DEF Doubtful
<1>9. checkAnalysis(setup.plugins, r.conds[1], r.forAll, facts[v], rememberedValues)
        <=> isValidPointer(facts[v].node, AccessSize) \in Doubtful
  BY <1>1, <1>2, <1>4
<1>10. checkAnalysis(setup.plugins, r.conds[2], r.forAll, facts[v], rememberedValues)
         <=> hasKnownSize(facts[v].base) \in sized
  BY <1>1, <1>2, <1>4
<1>11. checkAnalysis(setup.plugins, r.conds[3], r.forAll, facts[v], rememberedValues)
         <=> isInvalid(facts[v].node) \in invalid
  BY <1>1, <1>2, <1>4
<1> QED BY <1>8, <1>9, <1>10, <1>11

(* Under these rules, those that place a check in front of an access are   *)
(* none iff its pointer is surely valid, and just one but for __INSTR_fail.*)
LEMMA DueChecks ==
  ASSUME CodeInv, CheckRules, SizedIsNotInvalid, setup.config = "config", PTA,
         NEW f, NEW x \in Linkable, x.op \in Accesses
  PROVE  LET D == Due(1, Checks, f, x, Len(Phases[1].rules))
         IN  /\ D = {} <=> isValidPointer(facts[x.val].node, AccessSize) = "true"
             /\ \A k, h \in D : k # h =>
                  "__INSTR_fail" \in {Phases[1].rules[k].new, Phases[1].rules[h].new}
<1> DEFINE R == Phases[1].rules  v == x.val  D == Due(1, Checks, f, x, Len(R))
<1>1. setup \in Setups /\ setup.plugins = {"PointsTo"} /\ 1 \in 1 .. Len(Phases)
      /\ Phases = setup.phases
  <2>1. setup \in Setups /\ Phases = setup.phases /\ Phases \in Seq(ToSet(Phases))
    BY SetupAssumption DEF CodeInv, InputType, IsSequence, Phases
  <2>2. setup.plugins = {"PointsTo"} /\ Phases # <<>>
    BY <2>1 DEF CheckRules, PTA
  <2> QED BY <2>1, <2>2
<1>2. R \in Seq(ToSet(R)) /\ Len(R) \in Nat /\ ToSet(R) = {R[k] : k \in 1 .. Len(R)}
  <2>1. R \in Seq(ToSet(R)) /\ Len(R) \in Nat
    <3>1. setup.phases[1] \in ToSet(setup.phases)
      BY <1>1 DEF ToSet, IsSequence, Phases
    <3>2. IsSequence(setup.phases[1].rules)
      BY <1>1, <3>1, SetupAssumption
    <3>3. R = setup.phases[1].rules
      BY <1>1
    <3> HIDE DEF R
    <3> QED BY <3>2, <3>3 DEF IsSequence
  <2> QED BY <2>1 DEF ToSet
<1>3. /\ \A r \in ToSet(R) : r.new \in Checks =>
              /\ \A i \in DOMAIN r.conds : Plain(r.conds[i])
              /\ r.op \in Accesses =>
                   r.in = "*" /\ KindOf(r) \in {BoundsKind, PointerKind, InvalidKind, FailKind}
      /\ \A kind \in {BoundsKind, PointerKind, FailKind} :
           \E r \in ToSet(R) : r.op = x.op /\ KindOf(r) = kind
      /\ \A k, h \in 1 .. Len(R) :
           R[k].new \in Checks /\ R[k].op \in Accesses /\ R[k].op = R[h].op
             /\ KindOf(R[k]) = KindOf(R[h]) => k = h
  BY <1>1 DEF CheckRules, PTA, Plain
<1>4. PICK a, b, c : /\ a = isValidPointer(facts[v].node, AccessSize)
                     /\ b = hasKnownSize(facts[v].base) /\ c = isInvalid(facts[v].node)
  OBVIOUS
<1>5. /\ a \in {"true", "false", "maybe"} /\ b \in {"true", "false"}
      /\ c \in {"true", "false", "maybe"}
  BY <1>4, Answers
<1>6. b = "true" => c # "true"
  <2>1. x.op # "inserted"
    BY DEF Accesses
  <2>2. PICK g \in ToSet(Functions) : x \in ToSet(original[g])
    BY <2>1 DEF Linkable, Inserted
  <2>3. PICK i \in DOMAIN original[g] : original[g][i] = x
    BY <2>2 DEF ToSet
  <2>4. original \in Programs /\ facts \in Facts
    BY DEF CodeInv, InputType
  <2> QED BY <1>4, <2>3, <2>4 DEF SizedIsNotInvalid
<1> HIDE DEF R
<1>7. ASSUME NEW k \in 1 .. Len(R), R[k].new \in Checks, R[k].op = x.op
      PROVE  /\ R[k].in = "*" /\ KindOf(R[k]) \in {BoundsKind, PointerKind, InvalidKind, FailKind}
             /\ KindOf(R[k]) = BoundsKind =>
                  (Holds(1, k, v) <=> a \in Doubtful /\ b = "true" /\ c \in Doubtful)
             /\ KindOf(R[k]) = PointerKind =>
                  (Holds(1, k, v) <=> a \in Doubtful /\ b \in Doubtful /\ c \in Doubtful)
             /\ KindOf(R[k]) \in {InvalidKind, FailKind} =>
                  (Holds(1, k, v) <=> a \in Doubtful /\ b \in Doubtful /\ c = "true")
  <2> DEFINE r == R[k]
  <2>1. /\ r \in ToSet(R) /\ \A i \in DOMAIN r.conds : Plain(r.conds[i])
        /\ r.in = "*" /\ KindOf(r) \in {BoundsKind, PointerKind, InvalidKind, FailKind}
    BY <1>2, <1>3, <1>7
  <2>2. Holds(1, k, v) <=> checkConditions(r, v)
    BY DEF Holds, R
  <2>3. /\ KindOf(r) = BoundsKind => r.conds = CheckConds({"true"}, Doubtful)
        /\ KindOf(r) = PointerKind => r.conds = CheckConds(Doubtful, Doubtful)
        /\ KindOf(r) \in {InvalidKind, FailKind} => r.conds = CheckConds(Doubtful, {"true"})
    BY DEF KindOf, BoundsKind, PointerKind, InvalidKind, FailKind
  <2>4. \A sized, invalid : r.conds = CheckConds(sized, invalid) =>
          (checkConditions(r, v) <=> a \in Doubtful /\ b \in sized /\ c \in invalid)
    BY <1>1, <1>4, <2>1, CheckHolds
  <2> HIDE DEF r, Doubtful
  <2>5. KindOf(r) = BoundsKind =>
          (checkConditions(r, v) <=> a \in Doubtful /\ b \in {"true"} /\ c \in Doubtful)
    BY <2>3, <2>4
  <2>6. KindOf(r) = PointerKind =>
          (checkConditions(r, v) <=> a \in Doubtful /\ b \in Doubtful /\ c \in Doubtful)
    BY <2>3, <2>4
  <2>7. KindOf(r) \in {InvalidKind, FailKind} =>
          (checkConditions(r, v) <=> a \in Doubtful /\ b \in Doubtful /\ c \in {"true"})
    BY <2>3, <2>4
  <2> QED BY <2>1, <2>2, <2>5, <2>6, <2>7 DEF r
<1>8. ASSUME NEW k \in D
      PROVE  /\ k \in 1 .. Len(R) /\ R[k].new \in Checks /\ R[k].op = x.op /\ a # "true"
             /\ \/ b = "true" /\ KindOf(R[k]) = BoundsKind
                \/ b = "false" /\ c # "true" /\ KindOf(R[k]) = PointerKind
                \/ b = "false" /\ c = "true" /\ KindOf(R[k]) \in {InvalidKind, FailKind}
  <2>1. k \in 1 .. Len(R) /\ R[k].new \in Checks /\ R[k].op = x.op /\ Holds(1, k, v)
    BY DEF Due, R
  <2> QED BY <1>5, <1>7, <2>1 DEF Doubtful
<1>9. ASSUME NEW k \in D, NEW h \in D, k # h
      PROVE  "__INSTR_fail" \in {R[k].new, R[h].new}
  <2>1. KindOf(R[k]) # KindOf(R[h])
    BY <1>3, <1>8, <1>9
  <2>2. KindOf(R[k]) = FailKind \/ KindOf(R[h]) = FailKind
    BY <1>8, <2>1
  <2>3. \A r : KindOf(r) = FailKind => r.new = "__INSTR_fail"
    BY DEF KindOf, FailKind
  <2> QED BY <2>2, <2>3
<1>10. ASSUME a # "true" PROVE D # {}
  <2> DEFINE kind == IF b = "true" THEN BoundsKind ELSE IF c = "true" THEN FailKind ELSE PointerKind
  <2>1. PICK r \in ToSet(R) : r.op = x.op /\ KindOf(r) = kind
    BY <1>3
  <2>2. PICK k \in 1 .. Len(R) : R[k] = r
    BY <1>2
  <2>3. r.new \in Checks
    BY <2>1 DEF KindOf, BoundsKind, PointerKind, FailKind, Checks
  <2>4. Holds(1, k, v) /\ R[k].in = "*"
    <3>1. CASE b = "true"
      BY <1>5, <1>6, <1>7, <1>10, <2>1, <2>2, <2>3, <3>1 DEF Doubtful
    <3>2. CASE b # "true" /\ c = "true"
      BY <1>5, <1>7, <1>10, <2>1, <2>2, <2>3, <3>2 DEF Doubtful
    <3>3. CASE b # "true" /\ c # "true"
      BY <1>5, <1>7, <1>10, <2>1, <2>2, <2>3, <3>3 DEF Doubtful
    <3> QED BY <3>1, <3>2, <3>3
  <2>5. k <= Len(R)
    BY <1>2
  <2>6. k \in D
    BY <2>1, <2>2, <2>3, <2>4, <2>5 DEF Due, R, AppliesIn
  <2> QED BY <2>6
<1>11. D = {} <=> a = "true"
  BY <1>8, <1>10
<1> QED BY <1>4, <1>9, <1>11 DEF R
-----------------------------------------------------------------------------
(***************************************************************************)
(* Every access is checked.                                                *)
(***************************************************************************)
MemorySafety == setup.config = "config" /\ PTA
CheckInv ==
  /\ CodeInv /\ DonePast
  /\ MemorySafety => GapInv(1, Checks)

LEMMA ChecksBefore ==
  ASSUME CodeInv, CheckRules, MemorySafety
  PROVE  BeforeOnly(1, Checks)
<1>1. setup \in Setups /\ Phases = setup.phases /\ Phases \in Seq(ToSet(Phases))
  BY SetupAssumption DEF CodeInv, InputType, IsSequence, Phases
<1>2. 1 \in 1 .. Len(Phases)
  BY <1>1 DEF CheckRules, MemorySafety, PTA
<1> QED BY <1>1, <1>2 DEF CheckRules, MemorySafety, PTA, BeforeOnly

LEMMA ChecksSteady ==
  ASSUME CodeInv, CheckRules, MemorySafety, UNCHANGED input
  PROVE  Steady(1, Checks)
<1>1. setup \in Setups /\ Phases = setup.phases
  BY DEF CodeInv, InputType, Phases
<1>2. 1 \in 1 .. Len(Phases)
  BY ChecksBefore DEF BeforeOnly
<1>3. \A r \in ToSet(Phases[1].rules) : r.new \in Checks => \A i \in DOMAIN r.conds : Plain(r.conds[i])
  BY <1>1, <1>2 DEF CheckRules, MemorySafety, PTA, Plain
<1> QED BY <1>2, <1>3, PlainIsSteady

LEMMA CheckInductive ==
  ASSUME CheckRules, CheckInv, [Next]_vars
  PROVE  CheckInv'
<1>1. CodeInv /\ CodeInv' /\ UNCHANGED input
  BY CodeInductive, InputFixed DEF CheckInv
<1>2. MemorySafety' <=> MemorySafety
  BY <1>1, InputStays DEF MemorySafety, PTA
<1>3. ASSUME MemorySafety PROVE GapInv(1, Checks)'
  <2>1. BeforeOnly(1, Checks) /\ Steady(1, Checks) /\ GapInv(1, Checks)
    BY <1>1, <1>3, ChecksBefore, ChecksSteady DEF CheckInv
  <2> QED BY <1>1, <2>1, GapInductive
<1> QED BY <1>1, <1>2, <1>3, DonePastStays DEF CheckInv

LEMMA TwoOf ==
  ASSUME NEW S, IsFiniteSet(S), Cardinality(S) > 1
  PROVE  \E j, l \in S : j # l
<1> SUFFICES ASSUME \A j, l \in S : j = l PROVE FALSE
  OBVIOUS
<1>1. CASE S = {}
  BY <1>1, FS_EmptySet
<1>2. CASE S # {}
  <2>1. PICK j \in S : TRUE
    BY <1>2
  <2>2. S = {j}
    BY <2>1
  <2>3. Cardinality(S) = 1
    BY <2>2, FS_Singleton
  <2> QED BY <2>3
<1> QED BY <1>1, <1>2

LEMMA CheckInvChecks ==
  ASSUME CheckRules, SizedIsNotInvalid, CheckInv
  PROVE  AccessesChecked
<1> SUFFICES ASSUME outcome = "done", MemorySafety,
                    NEW f \in Instrumented, NEW i \in DOMAIN code[f], code[f][i].op \in Accesses
             PROVE  LET placed == {j \in Gap(f, i) : /\ code[f][j].new \in Checks
                                                     /\ code[f][j].val = code[f][i].val}
                    IN  /\ placed = {} <=>
                             isValidPointer(facts[code[f][i].val].node, AccessSize) = "true"
                        /\ Cardinality(placed) > 1 =>
                             placed \cap CallsIn(f, "__INSTR_fail") # {}
  BY DEF AccessesChecked, Done, MemorySafety
<1> DEFINE c == code[f]  x == c[i]  R == Phases[1].rules
           D == Due(1, Checks, f, x, Len(R))  W == Watched(c, i, Checks)
           placed == {j \in Gap(f, i) : c[j].new \in Checks /\ c[j].val = x.val}
<1>1. CodeInv /\ phase > Len(Phases) /\ GapInv(1, Checks) /\ BeforeOnly(1, Checks)
  BY ChecksBefore DEF CheckInv, DonePast
<1>2. ~Inserted(x)
  BY DEF Inserted, Accesses
<1>4. c \in Seq(Linkable) /\ Len(c) \in Nat /\ i \in 1 .. Len(c) /\ x \in Linkable
  BY <1>1, <1>2, FinallyShown
<1>7. Shows(c, i, Checks, D, R)
  BY <1>1, <1>2, FinallyShown
<1>8. /\ D = {} <=> isValidPointer(facts[x.val].node, AccessSize) = "true"
      /\ \A k, h \in D : k # h => "__INSTR_fail" \in {R[k].new, R[h].new}
  BY <1>1, <1>4, DueChecks DEF MemorySafety
<1> HIDE DEF D, R
<1>9. /\ \A k \in D : \E j \in W : c[j] = Call(R[k].new, x.val)
      /\ \A j \in W : \E k \in D : c[j] = Call(R[k].new, x.val)
      /\ \A j, l \in W : j # l =>
           \E k, h \in D : k # h /\ c[j] = Call(R[k].new, x.val) /\ c[l] = Call(R[h].new, x.val)
  BY <1>7 DEF Shows
<1>10. placed = W
  <2>1. W = {j \in Gap(f, i) : c[j].new \in Checks}
    BY DEF Watched, Gap, Inserted
  <2>2. ASSUME NEW j \in W PROVE c[j].val = x.val
    <3>1. PICK k \in D : c[j] = Call(R[k].new, x.val)
      BY <1>9
    <3> HIDE DEF c, x
    <3> QED BY <3>1 DEF Call
  <2> HIDE DEF c, x, W
  <2> QED BY <2>1, <2>2
<1>11. W \subseteq 1 .. Len(c)
  BY <1>4 DEF Watched
<1> HIDE DEF W
<1>12. W = {} <=> D = {}
  BY <1>9
<1>13. ASSUME Cardinality(W) > 1 PROVE W \cap CallsIn(f, "__INSTR_fail") # {}
  <2>1. PICK j \in W, l \in W : j # l
    <3>1. \E j, l \in W : j # l
      <4>1. IsFiniteSet(W)
        <5>1. IsFiniteSet(1 .. Len(c))
          BY <1>4, FS_Interval
        <5> QED BY <1>11, <5>1, FS_Subset
      <4> QED BY <1>13, <4>1, TwoOf
    <3> QED BY <3>1
  <2>2. PICK k \in D, h \in D :
          k # h /\ c[j] = Call(R[k].new, x.val) /\ c[l] = Call(R[h].new, x.val)
    BY <1>9, <2>1
  <2>3. c[j].new = "__INSTR_fail" \/ c[l].new = "__INSTR_fail"
    BY <1>8, <2>2 DEF Call
  <2>4. j \in DOMAIN c /\ l \in DOMAIN c
    BY <1>4, <1>11
  <2> QED BY <2>3, <2>4 DEF CallsIn
<1> QED BY <1>8, <1>10, <1>12, <1>13

(* Under the rules of the configurations, when the tool has finished every *)
(* load and store that is not surely valid has a check of its pointer      *)
(* right in front of it, just one unless __INSTR_fail is among them, and   *)
(* no other has one, however the calls of other rules and phases came to   *)
(* stand between (instr.cpp:849-869, 894-1000, memsafety/config.json).     *)
THEOREM AccessesAreChecked ==
  ASSUME CheckRules, SizedIsNotInvalid
  PROVE  Spec => []AccessesChecked
<1>1. Init => CheckInv
  <2> SUFFICES ASSUME Init PROVE CheckInv
    OBVIOUS
  <2>1. CodeInv
    BY CodeInit
  <2>2. outcome = "running"
    BY DEF Init
  <2>3. MemorySafety => GapInv(1, Checks)
    BY <2>1, ChecksBefore, GapInit
  <2> QED BY <2>1, <2>2, <2>3 DEF CheckInv, DonePast
<1>2. CheckInv /\ [Next]_vars => CheckInv'
  BY CheckInductive
<1>3. CheckInv => AccessesChecked
  BY CheckInvChecks
<1> QED BY <1>1, <1>2, <1>3, PTL DEF Spec
-----------------------------------------------------------------------------
(***************************************************************************)
(* Which accesses the marker configuration marks.                          *)
(***************************************************************************)
Marks == {"__INSTR_mark_pointer"}

MarkConds == <<Asks("isValidPointer", {"false", "maybe", "unknown"})>>

(* The marker configuration: one rule for loads and one for stores, in the *)
(* first phase, both asking all plugins                                    *)
(* (memsafety/config-marker-predator-pta.json).                            *)
MarkRules ==
  \A s \in Setups : s.config = "marker" =>
    /\ s.plugins \subseteq {"PointsTo", "Predator"} /\ s.flags = {} /\ s.phases # <<>>
    /\ \A p \in 1 .. Len(s.phases) :
         /\ s.phases[p].globals.new \notin Marks
         /\ \A r \in ToSet(s.phases[p].rules) : r.new \in Marks =>
              /\ p = 1 /\ r.where = "before" /\ r.in = "*" /\ r.forAll
              /\ r.conds = MarkConds
    /\ \A op \in Accesses : \E r \in ToSet(s.phases[1].rules) : r.op = op /\ r.new \in Marks

Marking == setup.config = "marker"

(* All plugins have to doubt it.                                           *)
Doubted(v) ==
  /\ PTA => isValidPointer(v.node, AccessSize) # "true"
  /\ "Predator" \in setup.plugins => v.reported

LEMMA MarkHolds ==
  ASSUME setup.plugins \subseteq {"PointsTo", "Predator"}, setup.flags = {},
         NEW r, r.forAll, r.conds = MarkConds, NEW v
  PROVE  checkConditions(r, v) <=> Doubted(facts[v])
<1> DEFINE c == r.conds[1]
<1>1. DOMAIN r.conds = {1} /\ c.name = "isValidPointer" /\ c.expected = {"false", "maybe", "unknown"}
  BY DEF MarkConds, Asks
<1> HIDE DEF c
<1>2. checkConditions(r, v)
        <=> checkAnalysis(setup.plugins, c, r.forAll, facts[v], rememberedValues)
  BY <1>1 DEF checkConditions, c
<1>3. supports("PointsTo", c.name) /\ supports("Predator", c.name) /\ Needed(c.name) = c.name
  BY <1>1 DEF supports, supportedQueries, Needed
<1>4. checkAnalysis(setup.plugins, c, r.forAll, facts[v], rememberedValues)
        <=> \A p \in setup.plugins : shouldInstrument(p, c, facts[v], rememberedValues)
  BY <1>3 DEF checkAnalysis
<1>5. shouldInstrument("PointsTo", c, facts[v], rememberedValues)
        <=> isValidPointer(facts[v].node, AccessSize) # "true"
  <2>1. isValidPointer(facts[v].node, AccessSize) \in {"true", "false", "maybe"}
    BY Answers
  <2>2. pointsToQuery(c.name, facts[v]) = isValidPointer(facts[v].node, AccessSize)
    BY <1>1 DEF pointsToQuery
  <2> QED BY <1>1, <2>1, <2>2 DEF shouldInstrument, query
<1>6. shouldInstrument("Predator", c, facts[v], rememberedValues) <=> facts[v].reported
  <2>1. facts[v].reported => predatorQuery(c.name, facts[v]) = "maybe"
    BY DEF predatorQuery
  <2>2. ~facts[v].reported => predatorQuery(c.name, facts[v]) = "true"
    BY <1>1 DEF predatorQuery
  <2> QED BY <1>1, <2>1, <2>2 DEF shouldInstrument, query
<1> QED BY <1>2, <1>4, <1>5, <1>6 DEF Doubted, PTA

MarkInv == CodeInv /\ DonePast /\ (Marking => GapInv(1, Marks))

LEMMA MarkBefore ==
  ASSUME CodeInv, MarkRules, Marking
  PROVE  BeforeOnly(1, Marks)
<1>1. setup \in Setups /\ Phases = setup.phases /\ Phases \in Seq(ToSet(Phases))
  BY SetupAssumption DEF CodeInv, InputType, IsSequence, Phases
<1>2. 1 \in 1 .. Len(Phases)
  BY <1>1 DEF MarkRules, Marking
<1> QED BY <1>1, <1>2 DEF MarkRules, Marking, BeforeOnly

LEMMA MarkSteady ==
  ASSUME CodeInv, MarkRules, Marking, UNCHANGED input
  PROVE  Steady(1, Marks)
<1>1. setup \in Setups /\ Phases = setup.phases
  BY DEF CodeInv, InputType, Phases
<1>2. 1 \in 1 .. Len(Phases)
  BY MarkBefore DEF BeforeOnly
<1>4. \A r \in ToSet(Phases[1].rules) : r.new \in Marks => \A i \in DOMAIN r.conds : Plain(r.conds[i])
  <2> SUFFICES ASSUME NEW r \in ToSet(Phases[1].rules), r.new \in Marks,
                      NEW i \in DOMAIN r.conds
               PROVE  Plain(r.conds[i])
    OBVIOUS
  <2>1. r.conds = MarkConds /\ setup.flags = {}
    BY <1>1, <1>2 DEF MarkRules, Marking
  <2> QED BY <2>1 DEF MarkConds, Asks, Plain
<1> QED BY <1>2, <1>4, PlainIsSteady

LEMMA MarkInductive ==
  ASSUME MarkRules, MarkInv, [Next]_vars
  PROVE  MarkInv'
<1>1. CodeInv /\ CodeInv' /\ UNCHANGED input
  BY CodeInductive, InputFixed DEF MarkInv
<1>2. Marking' <=> Marking
  BY <1>1, InputStays DEF Marking
<1>3. ASSUME Marking PROVE GapInv(1, Marks)'
  <2>1. BeforeOnly(1, Marks) /\ Steady(1, Marks) /\ GapInv(1, Marks)
    BY <1>1, <1>3, MarkBefore, MarkSteady DEF MarkInv
  <2> QED BY <1>1, <2>1, GapInductive
<1> QED BY <1>1, <1>2, <1>3, DonePastStays DEF MarkInv

LEMMA MarkInvMarks ==
  ASSUME MarkRules, MarkInv, BeforeOnly(1, Marks)
  PROVE  MarkedUnlessVetoed
<1> SUFFICES ASSUME outcome = "done", Marking,
                    NEW f \in Instrumented, NEW i \in DOMAIN code[f], code[f][i].op \in Accesses
             PROVE  Gap(f, i) \cap CallsIn(f, "__INSTR_mark_pointer") # {}
                      <=> Doubted(facts[code[f][i].val])
  BY DEF MarkedUnlessVetoed, Done, Marking, Doubted
<1> DEFINE c == code[f]  x == c[i]  R == Phases[1].rules
           D == Due(1, Marks, f, x, Len(R))  W == Watched(c, i, Marks)
<1>1. CodeInv /\ phase > Len(Phases) /\ GapInv(1, Marks)
  BY DEF MarkInv, DonePast
<1>2. ~Inserted(x)
  BY DEF Inserted, Accesses
<1>3. c \in Seq(Linkable) /\ Len(c) \in Nat /\ i \in 1 .. Len(c) /\ Shows(c, i, Marks, D, R)
  BY <1>1, <1>2, FinallyShown
<1>4. setup \in Setups /\ Phases = setup.phases /\ Phases \in Seq(ToSet(Phases))
  BY <1>1, SetupAssumption DEF CodeInv, InputType, IsSequence, Phases
<1>5. 1 \in 1 .. Len(Phases) /\ IsSequence(R) /\ Len(R) \in Nat
  <2>1. 1 \in 1 .. Len(Phases)
    BY DEF BeforeOnly
  <2>2. Phases[1] \in ToSet(Phases)
    BY <1>4, <2>1
  <2> QED BY <1>4, <2>1, <2>2, SetupAssumption DEF IsSequence
<1>6. D # {} <=> Doubted(facts[x.val])
  <2>1. ASSUME NEW k \in D PROVE Doubted(facts[x.val])
    <3>1. R[k] \in ToSet(R) /\ R[k].new \in Marks /\ checkConditions(R[k], x.val)
      BY <1>5 DEF Due, Holds, IsSequence
    <3> QED BY <1>4, <1>5, <3>1, MarkHolds DEF MarkRules, Marking
  <2>2. ASSUME Doubted(facts[x.val]) PROVE D # {}
    <3>1. PICK r \in ToSet(R) : r.op = x.op /\ r.new \in Marks
      BY <1>4 DEF MarkRules, Marking
    <3>2. PICK k \in 1 .. Len(R) : R[k] = r
      BY <1>5 DEF IsSequence, ToSet
    <3>3. /\ r.in = "*" /\ r.forAll /\ r.conds = MarkConds
          /\ setup.plugins \subseteq {"PointsTo", "Predator"} /\ setup.flags = {}
      BY <1>4, <1>5, <3>1 DEF MarkRules, Marking
    <3>4. checkConditions(r, x.val)
      BY <2>2, <3>3, MarkHolds
    <3>5. k <= Len(R)
      BY <1>5
    <3>6. k \in D
      BY <3>1, <3>2, <3>3, <3>4, <3>5 DEF Due, Holds, AppliesIn
    <3> QED BY <3>6
  <2> QED BY <2>1, <2>2
<1> HIDE DEF D, R
<1>7. Gap(f, i) \cap CallsIn(f, "__INSTR_mark_pointer") = W
  <2>1. \A j \in 1 .. i - 1 : j \in DOMAIN c
    BY <1>3
  <2> QED BY <2>1 DEF Watched, Gap, Inserted, CallsIn, Marks
<1>8. W # {} <=> D # {}
  BY <1>3 DEF Shows
<1> QED BY <1>6, <1>7, <1>8

(* With the marker configuration a load or a store is marked iff no plugin *)
(* that is loaded calls it valid (instr.cpp:687-688).                      *)
THEOREM MarksNeedAll ==
  ASSUME MarkRules
  PROVE  Spec => []MarkedUnlessVetoed
<1>1. Init => MarkInv
  <2> SUFFICES ASSUME Init PROVE MarkInv
    OBVIOUS
  <2>1. CodeInv /\ outcome = "running"
    BY CodeInit DEF Init
  <2>2. ASSUME Marking PROVE BeforeOnly(1, Marks)
    BY <2>1, <2>2, MarkBefore
  <2> QED BY <2>1, <2>2, GapInit DEF MarkInv, DonePast
<1>2. MarkInv /\ [Next]_vars => MarkInv'
  BY MarkInductive
<1>3. MarkInv => MarkedUnlessVetoed
  <2>1. ASSUME MarkInv, Marking PROVE BeforeOnly(1, Marks)
    BY <2>1, MarkBefore DEF MarkInv
  <2> QED BY <2>1, MarkInvMarks DEF MarkedUnlessVetoed, Done, Marking
<1> QED BY <1>1, <1>2, <1>3, PTL DEF Spec

(* Taking out the calls leaves every other instruction.                    *)
LEMMA KeptHas ==
  ASSUME NEW T, NEW c \in Seq(T), NEW x, ~Inserted(x)
  PROVE  (\E i \in 1 .. Len(c) : c[i] = x) <=> (\E i \in 1 .. Len(KeptIn(c)) : KeptIn(c)[i] = x)
<1> DEFINE P(k) == SubSeq(c, 1, k)
           In(s) == \E i \in 1 .. Len(s) : s[i] = x
           Fails == {k \in 0 .. Len(c) : ~(In(P(k)) <=> In(KeptIn(P(k))))}
<1>1. Len(c) \in Nat /\ Fails \subseteq 0 .. Len(c)
  OBVIOUS
<1>2. 0 \notin Fails
  <2>1. P(0) = <<>>
    BY SubSeqEmpty
  <2>2. ~In(<<>>)
    OBVIOUS
  <2> QED BY <2>1, <2>2, KeptEmpty
<1>3. ASSUME NEW k \in 0 .. Len(c) - 1, k \notin Fails PROVE k + 1 \notin Fails
  <2> DEFINE e == c[k + 1]
  <2>1. k + 1 \in 1 .. Len(c) /\ 1 \in 1 .. Len(c) /\ (k + 1) - 1 = k
    BY <1>1
  <2>2. P(k) \in Seq(T) /\ e \in T
    BY <2>1, SubSeqProperties
  <2>3. P(k + 1) = P(k) \o <<e>>
    BY <2>1, SubSeqRecursiveSecond
  <2>4. In(P(k)) <=> In(KeptIn(P(k)))
    BY <1>1, <1>3
  <2> HIDE DEF P, e
  <2>5. P(k + 1) = Append(P(k), e)
    BY <2>2, <2>3, AppendIsConcat
  <2>6. KeptIn(P(k)) \in Seq(T)
    BY <2>2, KeptType
  <2>7. \A s \in Seq(T) : In(Append(s, e)) <=> In(s) \/ e = x
    <3> TAKE s \in Seq(T)
    <3>1. /\ Len(s) \in Nat /\ Len(Append(s, e)) = Len(s) + 1 /\ Append(s, e)[Len(s) + 1] = e
          /\ \A i \in 1 .. Len(s) : Append(s, e)[i] = s[i]
      BY <2>2, AppendProperties
    <3>2. \A i \in 1 .. Len(s) + 1 : i \in 1 .. Len(s) \/ i = Len(s) + 1
      BY <3>1
    <3>3. 1 .. Len(s) \subseteq 1 .. Len(s) + 1 /\ Len(s) + 1 \in 1 .. Len(s) + 1
      BY <3>1
    <3> HIDE DEF P
    <3> QED BY <3>1, <3>2, <3>3
  <2>8. KeptIn(P(k + 1)) = IF Inserted(e) THEN KeptIn(P(k)) ELSE Append(KeptIn(P(k)), e)
    <3>1. KeptIn(P(k)) \o <<e>> = Append(KeptIn(P(k)), e)
      BY <2>2, <2>6, AppendIsConcat
    <3> QED BY <2>2, <2>5, <3>1, KeptAppend
  <2>9. In(P(k + 1)) <=> In(KeptIn(P(k + 1)))
    <3> HIDE DEF In
    <3>1. CASE Inserted(e)
      BY <2>2, <2>4, <2>5, <2>7, <2>8, <3>1
    <3>2. CASE ~Inserted(e)
      BY <2>2, <2>4, <2>5, <2>6, <2>7, <2>8, <3>2
    <3> QED BY <3>1, <3>2
  <2> QED BY <2>9
<1>4. Fails = {}
  <2> HIDE DEF Fails
  <2> QED BY <1>1, <1>2, <1>3, NoneFails
<1>5. P(Len(c)) = c
  BY SubSeqFull
<1>6. Len(c) \in 0 .. Len(c)
  BY <1>1
<1> HIDE DEF P
<1> QED BY <1>4, <1>5, <1>6

(* The instructions of the program are all there, and no others.           *)
LEMMA ProgramThere ==
  ASSUME CodeInv, NEW f \in ToSet(Functions), NEW x, ~Inserted(x)
  PROVE  /\ code[f] \in Seq(Linkable)
         /\ (\E i \in DOMAIN code[f] : code[f][i] = x)
              <=> (\E i \in DOMAIN original[f] : original[f][i] = x)
<1>1. code[f] \in Seq(Linkable) /\ KeptIn(code[f]) = original[f]
  BY KeptOfCode DEF CodeInv, CodeType, ProgramKept
<1>2. DOMAIN code[f] = 1 .. Len(code[f])
  BY <1>1
<1>3. DOMAIN original[f] = 1 .. Len(original[f])
  <2>1. original[f] \in Seq(Linkable)
    BY <1>1, KeptType
  <2> QED BY <2>1
<1> QED BY <1>1, <1>2, <1>3, KeptHas

(* An instruction of the program was there before the step, and what has   *)
(* been tried on it since is the rule that matched it.                     *)
LEMMA TriedBefore ==
  ASSUME CodeInv, CodeInv', [Next]_vars, outcome' # "failed", NEW P \in 1 .. Len(Phases),
         NEW n \in 1 .. Len(Functions), NEW l \in 1 .. Len(code'[Functions[n]]),
         ~Inserted(code'[Functions[n]][l]), NEW k \in Nat, k <= Tried(P, n, l)'
  PROVE  \E i \in 1 .. Len(code[Functions[n]]) :
           /\ code[Functions[n]][i] = code'[Functions[n]][l]
           /\ \/ k <= Tried(P, n, i)
              \/ /\ phase = P /\ fun = n /\ pos = i
                 /\ k \in rule + 1 .. Len(Rules) /\ ~Matches(Rules[k])
              \/ checkInstruction /\ phase = P /\ fun = n /\ pos = i /\ NextRule = k
<1> DEFINE f == Functions[n]  c == code[f]  d == code'[f]
<1>1. PICK m : Advances(P, {}, n, m)
  BY StepAdvances DEF PlacesNone
<1>2. PICK i \in 1 .. Len(c) : m[i] = l /\ c[i] = d[l]
  BY <1>1 DEF Advances, Grown
<1>3. CASE Tried(P, n, m[i])' = Tried(P, n, i)
  <2>1. k <= Tried(P, n, i)
    BY <1>2, <1>3
  <2> QED BY <1>2, <2>1
<1>4. CASE /\ phase = P /\ fun = n /\ pos = i /\ Tried(P, n, i) = rule
           /\ checkInstruction /\ Tried(P, n, m[i])' = NextRule
  <2>1. /\ rule \in Nat /\ Len(Rules) \in Nat /\ NextRule \in rule + 1 .. Len(Rules)
        /\ \A j \in rule + 1 .. NextRule - 1 : ~Matches(Rules[j])
    BY <1>4, CheckFacts
  <2>2. k <= NextRule
    BY <1>2, <1>4
  <2>3. k <= rule \/ k = NextRule \/ (k \in rule + 1 .. NextRule - 1 /\ k \in rule + 1 .. Len(Rules))
    BY <2>1, <2>2
  <2> QED BY <1>2, <1>4, <2>1, <2>3
<1>5. CASE /\ phase = P /\ fun = n /\ pos = i /\ Tried(P, n, i) = rule
           /\ nextInstruction /\ Tried(P, n, m[i])' = Len(Rules)
           /\ \A j \in rule + 1 .. Len(Rules) : ~Matches(Rules[j])
  <2>1. rule \in Nat /\ Len(Rules) \in Nat
    <3>1. phase <= Len(Phases)
      BY <1>5 DEF nextInstruction, InFunction, Runs
    <3> QED BY <3>1, CodeFacts
  <2>2. k <= Len(Rules)
    BY <1>2, <1>5
  <2>3. k <= rule \/ k \in rule + 1 .. Len(Rules)
    BY <2>1, <2>2
  <2> QED BY <1>2, <1>5, <2>3
<1> QED BY <1>1, <1>2, <1>3, <1>4, <1>5 DEF Advances

-----------------------------------------------------------------------------
(***************************************************************************)
(* The flag that tells whether the program allocates.                      *)
(***************************************************************************)
Leaks == {"__INSTR_check_leaks"}

AlwaysFlags(r) ==
  /\ r.op = "malloc" /\ r.in = "*" /\ r.where \in {"before", "after"} /\ r.conds = <<>>
  /\ "malloc" \in DOMAIN r.setFlags

(* Only the rules for allocations set the flag, in the first phase and     *)
(* unconditionally; it is all that the rule in the second phase asks which *)
(* looks for leaks before each ret of main (memsafety/config.json, whose   *)
(* rules for all allocation functions malloc stands for).                  *)
LeakRules ==
  \A s \in Setups : s.config = "config" =>
    /\ "malloc" \in s.flags /\ Len(s.phases) >= 2
    /\ \A p \in 1 .. Len(s.phases) :
         /\ s.phases[p].globals.new \notin Leaks
         /\ \A r \in ToSet(s.phases[p].rules) :
              /\ r.new \in Leaks =>
                   /\ p = 2 /\ r.where = "before" /\ r.op = "ret" /\ r.in = "main"
                   /\ r.conds = <<Asks("malloc", {"true"})>>
              /\ "malloc" \in DOMAIN r.setFlags =>
                   p = 1 /\ r.op = "malloc" /\ r.setFlags["malloc"] = "true"
    /\ \E r \in ToSet(s.phases[1].rules) : AlwaysFlags(r)
    /\ \E r \in ToSet(s.phases[2].rules) : r.new \in Leaks

(* The module has a main, which DG reaches.                                *)
MainRuns ==
  /\ "main" \in ToSet(Functions) \ Omitted
  /\ \A fs \in Reachable : "main" \in fs

Standard == setup.config = "config"
Flagged == flags["malloc"] = "true"
FlagKnown == Flagged => \E f \in Instrumented : Has(f, "malloc")
FlagTried ==
  outcome # "failed" =>
    \A n \in 1 .. Len(Functions) : \A i \in 1 .. Len(code[Functions[n]]) :
      code[Functions[n]][i].op = "malloc" =>
        \A k \in 1 .. Len(Phases[1].rules) :
          k <= Tried(1, n, i) /\ AlwaysFlags(Phases[1].rules[k]) => Flagged

LeakInv ==
  /\ CodeInv /\ DonePast /\ reachable \in Reachable
  /\ Standard => GapInv(2, Leaks) /\ FlagKnown /\ FlagTried

LEMMA LeakSetup ==
  ASSUME CodeInv, LeakRules, Standard
  PROVE  /\ setup \in Setups /\ Phases = setup.phases /\ Phases \in Seq(ToSet(Phases))
         /\ Len(Phases) \in Nat /\ 1 \in 1 .. Len(Phases) /\ 2 \in 1 .. Len(Phases)
         /\ \A p \in 1 .. Len(Phases) :
              /\ IsSequence(Phases[p].rules) /\ Len(Phases[p].rules) \in Nat
              /\ \A k \in 1 .. Len(Phases[p].rules) : Phases[p].rules[k] \in ToSet(Phases[p].rules)
              /\ \A r \in ToSet(Phases[p].rules) :
                   \E k \in 1 .. Len(Phases[p].rules) : Phases[p].rules[k] = r
         /\ "malloc" \in DOMAIN flags /\ "malloc" \in setup.flags
         /\ BeforeOnly(2, Leaks)
<1>1. setup \in Setups /\ Phases = setup.phases /\ Phases \in Seq(ToSet(Phases))
  BY SetupAssumption DEF CodeInv, InputType, IsSequence, Phases
<1>2. Len(Phases) \in Nat /\ Len(Phases) >= 2 /\ "malloc" \in setup.flags
  BY <1>1 DEF LeakRules, Standard
<1>3. "malloc" \in DOMAIN flags
  BY <1>2 DEF CodeInv, TypeOK
<1>4. ASSUME NEW p \in 1 .. Len(Phases)
      PROVE  /\ IsSequence(Phases[p].rules) /\ Len(Phases[p].rules) \in Nat
             /\ \A k \in 1 .. Len(Phases[p].rules) : Phases[p].rules[k] \in ToSet(Phases[p].rules)
             /\ \A r \in ToSet(Phases[p].rules) :
                  \E k \in 1 .. Len(Phases[p].rules) : Phases[p].rules[k] = r
  <2>1. Phases[p] \in ToSet(Phases)
    BY <1>1
  <2>2. IsSequence(Phases[p].rules)
    BY <1>1, <2>1, SetupAssumption
  <2>3. DOMAIN Phases[p].rules = 1 .. Len(Phases[p].rules)
    BY <2>2 DEF IsSequence
  <2> QED BY <2>2, <2>3 DEF IsSequence, ToSet
<1>5. BeforeOnly(2, Leaks)
  BY <1>1, <1>2 DEF LeakRules, Standard, BeforeOnly
<1>6. 1 \in 1 .. Len(Phases) /\ 2 \in 1 .. Len(Phases)
  BY <1>2
<1> QED BY <1>1, <1>2, <1>3, <1>4, <1>5, <1>6

(* The step that sets the flag.                                            *)
LEMMA FlagStep ==
  ASSUME CodeInv, LeakRules, Standard, [Next]_vars
  PROVE  /\ Flagged => Flagged'
         /\ Flagged' /\ ~Flagged => checkInstruction /\ ins.op = "malloc"
         /\ phase >= 2 => flags'["malloc"] = flags["malloc"]
         /\ checkInstruction /\ phase = 1 /\ AlwaysFlags(Rules[NextRule]) =>
              outcome' = "failed" \/ Flagged'
<1>1. CASE ~checkInstruction
  <2>1. flags' = flags
    <3>1. instrumentFunction => flags' = flags
      BY DEF instrumentFunction
    <3>2. instrumentGlobals => flags' = flags
      BY DEF instrumentGlobals
    <3>3. omitFunction \/ nextInstruction \/ nextFunction \/ finish => flags' = flags
      BY DEF omitFunction, nextInstruction, nextFunction, finish, Quiet
    <3>4. UNCHANGED vars => flags' = flags
      BY DEF vars
    <3> QED BY <1>1, <3>1, <3>2, <3>3, <3>4 DEF Next
  <2> QED BY <1>1, <2>1 DEF Flagged
<1>2. CASE checkInstruction
  <2> DEFINE rw == Rules[NextRule]
  <2>1. /\ phase \in 1 .. Len(Phases) /\ Matches(rw) /\ rw \in ToSet(Rules)
    BY <1>2, CheckFacts
  <2>2. "malloc" \in DOMAIN rw.setFlags =>
          phase = 1 /\ rw.op = "malloc" /\ rw.setFlags["malloc"] = "true"
    BY <2>1, LeakSetup DEF LeakRules, Standard, Rules
  <2>3. rw.op = ins.op
    BY <2>1 DEF Matches
  <2>4. "malloc" \in DOMAIN flags
    BY LeakSetup
  <2>5. \/ flags' = flags /\ (checkConditions(rw, ins.val) => outcome' = "failed")
        \/ flags' = setFlags(rw)
    BY <1>2 DEF checkInstruction, Quiet
  <2>6. AlwaysFlags(rw) => checkConditions(rw, ins.val)
    BY DEF AlwaysFlags, checkConditions
  <2> HIDE DEF rw
  <2>7. flags' = setFlags(rw) =>
          flags'["malloc"] = IF "malloc" \in DOMAIN rw.setFlags THEN "true" ELSE flags["malloc"]
    BY <2>2, <2>4 DEF setFlags
  <2>8. phase >= 2 => phase # 1
    BY <2>1
  <2> QED BY <1>2, <2>2, <2>3, <2>5, <2>6, <2>7, <2>8 DEF Flagged, AlwaysFlags, rw
<1> QED BY <1>1, <1>2

LEMMA LeakHolds ==
  ASSUME "malloc" \in setup.flags, NEW r, r.conds = <<Asks("malloc", {"true"})>>, NEW v
  PROVE  checkConditions(r, v) <=> Flagged
BY DEF checkConditions, checkFlag, Asks, Flagged

LEMMA LeaksSteady ==
  ASSUME CodeInv, LeakRules, Standard, [Next]_vars
  PROVE  Steady(2, Leaks)
<1> SUFFICES ASSUME phase >= 2, NEW k \in 1 .. Len(Phases[2].rules),
                    Phases[2].rules[k].new \in Leaks, NEW v
             PROVE  Holds(2, k, v)' <=> Holds(2, k, v)
  BY DEF Steady
<1>1. setup' = setup /\ Phases' = Phases /\ flags'["malloc"] = flags["malloc"]
  BY InputFixed, InputStays, FlagStep
<1> DEFINE r == Phases[2].rules[k]
<1>2. r.conds = <<Asks("malloc", {"true"})>> /\ "malloc" \in setup.flags
  <2>1. setup \in Setups /\ 2 \in 1 .. Len(Phases) /\ r \in ToSet(Phases[2].rules)
        /\ Phases = setup.phases /\ "malloc" \in setup.flags
    BY LeakSetup
  <2> QED BY <2>1 DEF LeakRules, Standard
<1>3. Holds(2, k, v) <=> flags["malloc"] \in {"true"}
  BY <1>2 DEF Holds, checkConditions, checkFlag, Asks
<1>4. Holds(2, k, v)' <=> flags'["malloc"] \in {"true"}
  BY <1>1, <1>2 DEF Holds, checkConditions, checkFlag, Asks
<1> QED BY <1>1, <1>3, <1>4

(* The iterator stands at an instruction of the program.                   *)
LEMMA ProgramHas ==
  ASSUME CodeInv, checkInstruction
  PROVE  F \in Instrumented /\ \E i \in DOMAIN original[F] : original[F][i] = ins
<1>1. /\ F \in ToSet(Functions) /\ ~Inserted(ins) /\ ins = code[F][pos]
      /\ pos \in 1 .. Len(code[F]) /\ code[F] \in Seq(Linkable)
  BY CheckFacts
<1>2. pos \in DOMAIN code[F] /\ pos # 0
  BY <1>1
<1>3. Instruments(F)
  BY <1>2 DEF CodeInv, Walking
<1> QED BY <1>1, <1>2, <1>3, ProgramThere DEF Instrumented

LEMMA InstrumentedStays ==
  ASSUME UNCHANGED input
  PROVE  Instrumented' = Instrumented /\ \A f, op : Has(f, op)' <=> Has(f, op)
BY InputStays DEF Instrumented, Has

LEMMA FlagKnownStays ==
  ASSUME CodeInv, LeakRules, Standard, FlagKnown, [Next]_vars
  PROVE  FlagKnown'
<1>1. Instrumented' = Instrumented /\ \A f, op : Has(f, op)' <=> Has(f, op)
  BY InputFixed, InstrumentedStays
<1>2. ASSUME Flagged' PROVE \E f \in Instrumented : Has(f, "malloc")
  <2>1. CASE Flagged
    BY <2>1 DEF FlagKnown
  <2>2. CASE ~Flagged
    BY <1>2, <2>2, FlagStep, ProgramHas DEF Has
  <2> QED BY <2>1, <2>2
<1> QED BY <1>1, <1>2 DEF FlagKnown

LEMMA FlagTriedStays ==
  ASSUME CodeInv, CodeInv', LeakRules, Standard, FlagTried, [Next]_vars
  PROVE  FlagTried'
<1>1. Phases' = Phases
  BY InputFixed, InputStays
<1>2. /\ Len(Phases) \in Nat /\ 1 \in 1 .. Len(Phases) /\ Len(Phases[1].rules) \in Nat
  BY LeakSetup
<1> SUFFICES ASSUME outcome' # "failed", NEW n \in 1 .. Len(Functions),
                    NEW l \in 1 .. Len(code'[Functions[n]]),
                    code'[Functions[n]][l].op = "malloc",
                    NEW k \in 1 .. Len(Phases[1].rules), k <= Tried(1, n, l)',
                    AlwaysFlags(Phases[1].rules[k])
             PROVE  Flagged'
  BY <1>1 DEF FlagTried
<1>3. ~Inserted(code'[Functions[n]][l]) /\ k \in Nat
  BY DEF Inserted
<1>4. PICK i \in 1 .. Len(code[Functions[n]]) :
        /\ code[Functions[n]][i] = code'[Functions[n]][l]
        /\ \/ k <= Tried(1, n, i)
           \/ /\ phase = 1 /\ fun = n /\ pos = i
              /\ k \in rule + 1 .. Len(Rules) /\ ~Matches(Rules[k])
           \/ checkInstruction /\ phase = 1 /\ fun = n /\ pos = i /\ NextRule = k
  BY <1>2, <1>3, TriedBefore
<1>5. outcome # "failed"
  BY OutcomeStays
<1>6. CASE k <= Tried(1, n, i)
  BY <1>4, <1>5, <1>6, FlagStep DEF FlagTried
<1>7. CASE /\ phase = 1 /\ fun = n /\ pos = i
           /\ k \in rule + 1 .. Len(Rules) /\ ~Matches(Rules[k])
  <2>1. Rules = Phases[1].rules /\ F = Functions[n] /\ ins.op = "malloc"
    BY <1>4, <1>7 DEF Rules, F, ins
  <2>2. Matches(Rules[k])
    BY <2>1 DEF AlwaysFlags, Matches, AppliesIn
  <2> QED BY <1>7, <2>2
<1>8. CASE checkInstruction /\ phase = 1 /\ NextRule = k
  <2>1. AlwaysFlags(Rules[NextRule])
    BY <1>8 DEF Rules
  <2> QED BY <1>8, <2>1, FlagStep
<1> QED BY <1>4, <1>6, <1>7, <1>8

LEMMA LeakInductive ==
  ASSUME LeakRules, LeakInv, [Next]_vars
  PROVE  LeakInv'
<1>1. CodeInv /\ CodeInv' /\ UNCHANGED input
  BY CodeInductive, InputFixed DEF LeakInv
<1>2. (Standard' <=> Standard) /\ reachable' = reachable
  BY <1>1, InputStays DEF Standard, input
<1>3. ASSUME Standard PROVE GapInv(2, Leaks)' /\ FlagKnown' /\ FlagTried'
  <2>1. BeforeOnly(2, Leaks) /\ Steady(2, Leaks)
    BY <1>1, <1>3, LeakSetup, LeaksSteady
  <2> QED BY <1>1, <1>3, <2>1, GapInductive, FlagKnownStays, FlagTriedStays DEF LeakInv
<1> QED BY <1>1, <1>2, <1>3, DonePastStays DEF LeakInv

LEMMA LeakInvLeaks ==
  ASSUME LeakRules, MainRuns, LeakInv
  PROVE  LeakCheckIffAllocates
<1> SUFFICES ASSUME outcome = "done", Standard,
                    NEW i \in DOMAIN code["main"], code["main"][i].op = "ret"
             PROVE  Gap("main", i) \cap CallsIn("main", "__INSTR_check_leaks") # {}
                      <=> \E f \in Instrumented : Has(f, "malloc")
  BY DEF LeakCheckIffAllocates, Done, Standard
<1> DEFINE c == code["main"]  x == c[i]  R == Phases[2].rules
           D == Due(2, Leaks, "main", x, Len(R))  W == Watched(c, i, Leaks)
<1>1. CodeInv /\ phase > Len(Phases) /\ GapInv(2, Leaks) /\ FlagKnown /\ FlagTried
  BY DEF LeakInv, DonePast
<1>2. ~Inserted(x) /\ "main" \in Instrumented
  BY DEF Inserted, Instrumented, Instruments, isReachableFun, MainRuns, LeakInv
<1>3. /\ setup \in Setups /\ Phases = setup.phases /\ BeforeOnly(2, Leaks)
      /\ Len(Phases) \in Nat /\ 1 \in 1 .. Len(Phases) /\ 2 \in 1 .. Len(Phases)
      /\ Len(R) \in Nat /\ "malloc" \in setup.flags
      /\ \A k \in 1 .. Len(R) : R[k] \in ToSet(R)
      /\ \A r \in ToSet(R) : \E k \in 1 .. Len(R) : R[k] = r
  BY <1>1, LeakSetup
<1>9. /\ \A r \in ToSet(R) : r.new \in Leaks =>
           r.op = "ret" /\ r.in = "main" /\ r.conds = <<Asks("malloc", {"true"})>>
      /\ \E r \in ToSet(Phases[1].rules) : AlwaysFlags(r)
      /\ \E r \in ToSet(R) : r.new \in Leaks
  <2>1. setup \in Setups /\ setup.config = "config" /\ Phases = setup.phases
        /\ 2 \in 1 .. Len(setup.phases)
    BY <1>3 DEF Standard
  <2> QED BY <2>1 DEF LeakRules
<1>4. c \in Seq(Linkable) /\ Len(c) \in Nat /\ i \in 1 .. Len(c) /\ Shows(c, i, Leaks, D, R)
  BY <1>1, <1>2, <1>3, FinallyShown
<1>5. D # {} <=> Flagged
  <2>1. ASSUME NEW k \in 1 .. Len(R), R[k].new \in Leaks
        PROVE  /\ R[k].op = "ret" /\ R[k].in = "main"
               /\ Holds(2, k, x.val) <=> Flagged
    <3>1. R[k].op = "ret" /\ R[k].in = "main" /\ R[k].conds = <<Asks("malloc", {"true"})>>
      BY <1>3, <1>9, <2>1
    <3>2. checkConditions(R[k], x.val) <=> Flagged
      BY <1>3, <3>1, LeakHolds
    <3> QED BY <3>1, <3>2 DEF Holds
  <2>2. D # {} => Flagged
    <3>1. \A k \in D : k \in 1 .. Len(R) /\ R[k].new \in Leaks /\ Holds(2, k, x.val)
      BY DEF Due
    <3> QED BY <2>1, <3>1
  <2>3. ASSUME Flagged PROVE D # {}
    <3>1. PICK k \in 1 .. Len(R) : R[k].new \in Leaks
      BY <1>3, <1>9
    <3>2. k <= Len(R)
      BY <1>3
    <3>3. k \in D
      BY <2>1, <2>3, <3>1, <3>2 DEF Due, AppliesIn
    <3> QED BY <3>3
  <2> QED BY <2>2, <2>3
<1>6. Flagged <=> \E f \in Instrumented : Has(f, "malloc")
  <2>1. ASSUME NEW f \in Instrumented, Has(f, "malloc") PROVE Flagged
    <3>1. f \in ToSet(Functions) /\ Instruments(f)
      BY DEF Instrumented
    <3>2. PICK j \in DOMAIN original[f] : original[f][j].op = "malloc"
      BY <2>1 DEF Has
    <3>3. PICK l \in DOMAIN code[f] : code[f][l] = original[f][j]
      BY <1>1, <3>1, <3>2, ProgramThere DEF Inserted
    <3>4. l \in 1 .. Len(code[f])
      BY <1>1, <3>1, CodeFacts
    <3>5. PICK n \in 1 .. Len(Functions) : Functions[n] = f
      BY <3>1, ProgramAssumption DEF ToSet, IsSequence
    <3>9. PICK r \in ToSet(Phases[1].rules) : AlwaysFlags(r)
      BY <1>9
    <3>6. PICK k \in 1 .. Len(Phases[1].rules) : AlwaysFlags(Phases[1].rules[k])
      <4>1. PICK k \in 1 .. Len(Phases[1].rules) : Phases[1].rules[k] = r
        BY <1>1, <1>3, LeakSetup
      <4> QED BY <3>9, <4>1
    <3>7. Tried(1, n, l) = Len(Phases[1].rules)
      <4>1. phase > 1 /\ ~ (phase < 1)
        BY <1>1, <1>3, CodeFacts
      <4> QED BY <3>1, <3>5, <4>1 DEF Tried
    <3>8. k <= Tried(1, n, l)
      BY <1>1, <3>7, LeakSetup
    <3> QED BY <1>1, <3>2, <3>3, <3>4, <3>5, <3>6, <3>8 DEF FlagTried
  <2> QED BY <1>1, <2>1 DEF FlagKnown
<1> HIDE DEF D, R
<1>7. Gap("main", i) \cap CallsIn("main", "__INSTR_check_leaks") = W
  <2>1. \A j \in 1 .. i - 1 : j \in DOMAIN c
    BY <1>4
  <2> QED BY <2>1 DEF Watched, Gap, Inserted, CallsIn, Leaks
<1>8. W # {} <=> D # {}
  BY <1>4 DEF Shows
<1> QED BY <1>5, <1>6, <1>7, <1>8

(* In the end leaks are looked for before each ret of main if and only if  *)
(* a function that was instrumented allocates: the flag that the rules for *)
(* allocations set in the first phase is what the second phase asks        *)
(* (memsafety/config.json, instr.cpp:849-853).                             *)
THEOREM LeaksAreLookedFor ==
  ASSUME LeakRules, MainRuns
  PROVE  Spec => []LeakCheckIffAllocates
<1>1. Init => LeakInv
  <2> SUFFICES ASSUME Init PROVE LeakInv
    OBVIOUS
  <2>1. CodeInv /\ outcome = "running" /\ reachable \in Reachable
    BY CodeInit DEF Init
  <2>2. ASSUME Standard PROVE GapInv(2, Leaks) /\ FlagKnown /\ FlagTried
    <3>1. GapInv(2, Leaks)
      BY <2>1, <2>2, LeakSetup, GapInit
    <3>2. flags["malloc"] = ""
      BY <2>1, <2>2, LeakSetup DEF Init
    <3>3. FlagTried
      <4> SUFFICES ASSUME NEW n \in 1 .. Len(Functions), NEW i \in 1 .. Len(code[Functions[n]]),
                          NEW k \in 1 .. Len(Phases[1].rules), k <= Tried(1, n, i)
                   PROVE  FALSE
        BY DEF FlagTried
      <4>1. phase = 1 /\ fun = 1 /\ pos = 0
        BY DEF Init
      <4>2. n \in Nat /\ n >= 1 /\ i \in Nat /\ i >= 1
        BY FunctionAt
      <4>3. Tried(1, n, i) = 0
        BY <4>1, <4>2 DEF Tried
      <4> QED BY <4>3
    <3> QED BY <3>1, <3>2, <3>3 DEF FlagKnown, Flagged
  <2> QED BY <2>1, <2>2 DEF LeakInv, DonePast
<1>2. LeakInv /\ [Next]_vars => LeakInv'
  BY LeakInductive
<1>3. LeakInv => LeakCheckIffAllocates
  BY LeakInvLeaks
<1> QED BY <1>1, <1>2, <1>3, PTL DEF Spec

-----------------------------------------------------------------------------
(***************************************************************************)
(* What checked pointers may target is registered.                         *)
(***************************************************************************)
(* The elements of a part of a sequence of sequences are in the whole.     *)
LEMMA FlattenHas ==
  ASSUME NEW T, NEW s \in Seq(Seq(T)), NEW i \in 1 .. Len(s), NEW j \in 1 .. Len(s[i])
  PROVE  \E l \in 1 .. Len(FlattenSeq(s)) : FlattenSeq(s)[l] = s[i][j]
<1> DEFINE x == s[i][j]
           P(k) == SubSeq(s, 1, k)
           In(t) == \E l \in 1 .. Len(t) : t[l] = x
           Fails == {k \in 0 .. Len(s) : i <= k /\ ~In(FlattenSeq(P(k)))}
<1>1. Len(s) \in Nat /\ Fails \subseteq 0 .. Len(s) /\ i \in Nat /\ i >= 1 /\ In(s[i])
  OBVIOUS
<1>2. 0 \notin Fails
  BY <1>1
<1>3. ASSUME NEW k \in 0 .. Len(s) - 1, k \notin Fails PROVE k + 1 \notin Fails
  <2> DEFINE e == s[k + 1]
  <2>1. k + 1 \in 1 .. Len(s) /\ 1 \in 1 .. Len(s) /\ (k + 1) - 1 = k /\ k \in Nat
    BY <1>1
  <2>2. P(k) \in Seq(Seq(T)) /\ e \in Seq(T)
    BY <2>1, SubSeqProperties
  <2>3. P(k + 1) = P(k) \o <<e>>
    BY <2>1, SubSeqRecursiveSecond
  <2>4. i <= k => In(FlattenSeq(P(k)))
    BY <1>1, <1>3
  <2>5. i = k + 1 => In(e)
    BY <1>1
  <2>6. i <= k + 1 => i <= k \/ i = k + 1
    BY <1>1, <2>1
  <2> HIDE DEF P, e, x
  <2>7. P(k + 1) = Append(P(k), e)
    BY <2>2, <2>3, AppendIsConcat
  <2>8. FlattenSeq(P(k + 1)) = FlattenSeq(P(k)) \o e /\ FlattenSeq(P(k)) \in Seq(T)
    BY <2>2, <2>7, FlattenAppend, FlattenType
  <2>9. \A t \in Seq(T) : In(t) \/ In(e) => In(t \o e)
    <3> TAKE t \in Seq(T)
    <3>1. /\ Len(t) \in Nat /\ Len(e) \in Nat /\ Len(t \o e) = Len(t) + Len(e)
          /\ \A l \in 1 .. Len(t) : (t \o e)[l] = t[l]
          /\ \A l \in 1 .. Len(e) : (t \o e)[Len(t) + l] = e[l]
      BY <2>2
    <3>2. \A l \in 1 .. Len(t) : l \in 1 .. Len(t \o e)
      BY <3>1
    <3>3. \A l \in 1 .. Len(e) : Len(t) + l \in 1 .. Len(t \o e)
      BY <3>1
    <3> QED BY <3>1, <3>2, <3>3
  <2> HIDE DEF In
  <2>10. i <= k + 1 => In(FlattenSeq(P(k + 1)))
    BY <2>4, <2>5, <2>6, <2>8, <2>9
  <2> QED BY <2>10 DEF In
<1>4. Fails = {}
  <2> HIDE DEF Fails
  <2> QED BY <1>1, <1>2, <1>3, NoneFails
<1>5. P(Len(s)) = s
  BY SubSeqFull
<1>6. Len(s) \in 0 .. Len(s) /\ i <= Len(s)
  BY <1>1
<1> HIDE DEF P
<1> QED BY <1>4, <1>5, <1>6

(* The globals that meet the conditions are all picked.                    *)
LEMMA PickedGlobalsAll ==
  ASSUME NEW r, NEW v \in ToSet(Globals),
         \A i \in DOMAIN r.conds :
           checkAnalysis(setup.plugins, r.conds[i], r.forAll, facts[v], rememberedValues)
  PROVE  \E j \in 1 .. Len(PickedGlobals(r)) : PickedGlobals(r)[j] = v
<1> DEFINE B == {j \in DOMAIN Globals : \A i \in DOMAIN r.conds :
                   checkAnalysis(setup.plugins, r.conds[i], r.forAll, facts[Globals[j]],
                                 rememberedValues)}
           units == [i \in DOMAIN Globals |-> IF i \in B THEN <<Globals[i]>> ELSE <<>>]
           Q == ToSet(Globals)
<1>1. PickedGlobals(r) = FlattenSeq(units)
  BY DEF PickedGlobals, Only
<1>2. Globals \in Seq(Q) /\ DOMAIN Globals = 1 .. Len(Globals) /\ Len(Globals) \in Nat
  BY ProgramAssumption DEF IsSequence
<1>3. PICK i \in 1 .. Len(Globals) : Globals[i] = v
  BY <1>2 DEF ToSet
<1>4. i \in B
  BY <1>2, <1>3
<1> HIDE DEF B, Q
<1>5. units \in Seq(Seq(Q)) /\ Len(units) = Len(Globals) /\ units[i] = <<v>>
  <2>1. \A j \in 1 .. Len(Globals) : units[j] \in Seq(Q)
    BY <1>2
  <2>2. units = [j \in 1 .. Len(Globals) |-> units[j]] /\ units[i] = <<v>>
    BY <1>2, <1>3, <1>4
  <2> HIDE DEF units
  <2>3. units \in Seq(Seq(Q))
    BY <1>2, <2>1, <2>2, IsASeq
  <2> QED BY <1>2, <2>2, <2>3
<1> HIDE DEF units
<1>6. i \in 1 .. Len(units) /\ 1 \in 1 .. Len(units[i]) /\ units[i][1] = v
  BY <1>3, <1>5
<1>7. \E l \in 1 .. Len(FlattenSeq(units)) : FlattenSeq(units)[l] = units[i][1]
  <2>1. \A t \in Seq(Seq(Q)) : \A k \in 1 .. Len(t) : \A j \in 1 .. Len(t[k]) :
          \E l \in 1 .. Len(FlattenSeq(t)) : FlattenSeq(t)[l] = t[k][j]
    BY FlattenHas
  <2> QED BY <1>5, <1>6, <2>1
<1> QED BY <1>1, <1>6, <1>7

LEMMA FunctionPlace ==
  ASSUME NEW f \in ToSet(Functions)
  PROVE  \E n \in 1 .. Len(Functions) : Functions[n] = f
BY ProgramAssumption DEF ToSet, IsSequence

(* What is in the code stays there.                                        *)
LEMMA CodeStays ==
  ASSUME CodeInv, CodeInv', [Next]_vars, outcome' # "failed", 1 \in 1 .. Len(Phases),
         NEW f \in ToSet(Functions), NEW x, \E j \in 1 .. Len(code[f]) : code[f][j] = x
  PROVE  \E j \in 1 .. Len(code'[f]) : code'[f][j] = x
<1>1. PICK n \in 1 .. Len(Functions) : Functions[n] = f
  BY FunctionPlace
<1>2. PICK m : Advances(1, {}, n, m)
  BY StepAdvances DEF PlacesNone
<1> QED BY <1>1, <1>2 DEF Advances, Grown

PointerCheck == {"__INSTR_check_pointer"}
RememberedConds == <<Asks("isRemembered", {"true", "maybe"})>>

RegistersAlloca(r) ==
  /\ r.op = "alloca" /\ r.in = "*" /\ r.where = "after" /\ r.new = "__INSTR_remember"
  /\ r.conds = RememberedConds /\ ~r.forAll /\ ~r.info

(* Whoever checks a pointer remembers it, all of that in the first phase;  *)
(* the second registers what a remembered pointer may target, the stack    *)
(* objects at their allocas and the globals in main                        *)
(* (memsafety/config.json).                                                *)
RegisterRules ==
  \A s \in Setups : s.config = "config" =>
    /\ "isRemembered" \notin s.flags /\ Len(s.phases) >= 2
    /\ \A p \in 1 .. Len(s.phases) :
         /\ s.phases[p].globals.new \notin PointerCheck
         /\ \A r \in ToSet(s.phases[p].rules) :
              /\ r.new \in PointerCheck => r.where \notin {"entry", "return"} /\ r.remember
              /\ p >= 2 => ~r.remember
    /\ \E r \in ToSet(s.phases[2].rules) : RegistersAlloca(r)
    /\ LET r == s.phases[2].globals
       IN  /\ r.in = "main" /\ r.new = "__INSTR_remember_global"
           /\ r.conds = RememberedConds /\ ~r.forAll

(* What the plugins may know: an object goes by the name of the alloca or  *)
(* of the global that it is, points-to sets are not open, and a value that *)
(* DG knows nothing of has no node.  Without the last two the property     *)
(* fails (section 3 of README.md).                                         *)
ObjectsNamed ==
  \A known \in Facts : \A v \in DOMAIN known :
    /\ ~getPointsTo(known[v].node).unknown
    /\ KnowsNothing(known[v].node) => ~known[v].node.built
    /\ \A t \in getPointsTo(known[v].node).ptset \cup {known[v].obj} :
         t.kind \in {"global", "stack"} =>
           /\ t.name \in DOMAIN known /\ known[t.name].obj = t
           /\ t.kind = "global" => t.name \in ToSet(Globals)

(* A remembered pointer may target the object.                             *)
RememberedNow(v) ==
  checkAnalysis(setup.plugins, RememberedConds[1], FALSE, facts[v], rememberedValues)

ChecksRemembered ==
  \A f \in ToSet(Functions) : \A i \in 1 .. Len(code[f]) :
    code[f][i].new \in PointerCheck => facts[code[f][i].val] \in rememberedValues
AllocasRegistered ==
  \A n \in 1 .. Len(Functions) : \A i \in 1 .. Len(code[Functions[n]]) :
    \A x \in {code[Functions[n]][i]} : ~Inserted(x) /\ x.op = "alloca" /\ RememberedNow(x.val) =>
      \A k \in 1 .. Len(Phases[2].rules) :
        k <= Tried(2, n, i) /\ RegistersAlloca(Phases[2].rules[k]) =>
          \E j \in 1 .. Len(code[Functions[n]]) :
            code[Functions[n]][j] = Call("__INSTR_remember", x.val)
GlobalsRegistered ==
  phase > 2 => \A v \in ToSet(Globals) : RememberedNow(v) =>
    \E j \in 1 .. Len(code["main"]) : code["main"][j] = Call("__INSTR_remember_global", v)

RegisterInv ==
  /\ CodeInv /\ DonePast /\ reachable \in Reachable
  /\ Standard /\ outcome # "failed" => ChecksRemembered /\ AllocasRegistered /\ GlobalsRegistered

LEMMA RegisterSetup ==
  ASSUME CodeInv, RegisterRules, Standard
  PROVE  /\ setup \in Setups /\ Phases = setup.phases /\ Len(Phases) \in Nat
         /\ 1 \in 1 .. Len(Phases) /\ 2 \in 1 .. Len(Phases)
         /\ "isRemembered" \notin setup.flags
         /\ \A p \in 1 .. Len(Phases) :
              /\ Phases[p].globals.new \notin PointerCheck
              /\ \A r \in ToSet(Phases[p].rules) :
                   /\ r.new \in PointerCheck => r.where \notin {"entry", "return"} /\ r.remember
                   /\ p >= 2 => ~r.remember
         /\ \E k \in 1 .. Len(Phases[2].rules) : RegistersAlloca(Phases[2].rules[k])
         /\ Phases[2].globals.in = "main" /\ Phases[2].globals.new = "__INSTR_remember_global"
         /\ Phases[2].globals.conds = RememberedConds /\ ~Phases[2].globals.forAll
<1>1. setup \in Setups /\ Phases = setup.phases /\ Phases \in Seq(ToSet(Phases))
      /\ setup.config = "config"
  BY SetupAssumption DEF CodeInv, InputType, IsSequence, Phases, Standard
<1>2. Len(Phases) \in Nat /\ Len(Phases) >= 2
  BY <1>1 DEF RegisterRules
<1>3. 1 \in 1 .. Len(Phases) /\ 2 \in 1 .. Len(Phases)
  BY <1>2
<1>4. \E k \in 1 .. Len(Phases[2].rules) : RegistersAlloca(Phases[2].rules[k])
  <2>1. PICK r \in ToSet(Phases[2].rules) : RegistersAlloca(r)
    BY <1>1 DEF RegisterRules
  <2>2. IsSequence(Phases[2].rules)
    <3>1. Phases[2] \in ToSet(Phases)
      BY <1>1, <1>3
    <3> QED BY <1>1, <3>1, SetupAssumption
  <2>3. PICK k \in 1 .. Len(Phases[2].rules) : Phases[2].rules[k] = r
    BY <2>2 DEF IsSequence, ToSet
  <2> QED BY <2>1, <2>3
<1> QED BY <1>1, <1>2, <1>3, <1>4 DEF RegisterRules

LEMMA RememberedStep ==
  ASSUME CodeInv, RegisterRules, Standard, [Next]_vars
  PROVE  /\ rememberedValues \subseteq rememberedValues'
         /\ phase >= 2 => rememberedValues' = rememberedValues
<1>1. CASE ~checkInstruction
  <2>1. instrumentFunction => rememberedValues' = rememberedValues
    BY DEF instrumentFunction
  <2>2. instrumentGlobals => rememberedValues' = rememberedValues
    BY DEF instrumentGlobals
  <2>3. omitFunction \/ nextInstruction \/ nextFunction \/ finish => rememberedValues' = rememberedValues
    BY DEF omitFunction, nextInstruction, nextFunction, finish, Quiet
  <2>4. UNCHANGED vars => rememberedValues' = rememberedValues
    BY DEF vars
  <2> QED BY <1>1, <2>1, <2>2, <2>3, <2>4 DEF Next
<1>2. CASE checkInstruction
  <2> DEFINE rw == Rules[NextRule]
  <2>1. phase \in 1 .. Len(Phases) /\ rw \in ToSet(Rules)
    BY <1>2, CheckFacts
  <2>2. phase >= 2 => ~rw.remember
    BY <2>1, RegisterSetup DEF Rules
  <2>3. \/ rememberedValues' = rememberedValues
        \/ rememberedValues' = rememberedValues \cup (IF rw.remember THEN {facts[ins.val]} ELSE {})
    BY <1>2 DEF checkInstruction, Quiet
  <2> HIDE DEF rw
  <2> QED BY <2>2, <2>3
<1> QED BY <1>1, <1>2

LEMMA RememberedSteady ==
  ASSUME CodeInv, RegisterRules, Standard, [Next]_vars, phase >= 2, NEW v
  PROVE  RememberedNow(v)' <=> RememberedNow(v)
<1>1. rememberedValues' = rememberedValues /\ setup' = setup /\ facts' = facts
  BY RememberedStep, InputFixed, InputStays
<1> QED BY <1>1 DEF RememberedNow

(* What the step that applies a rule puts into the code.                   *)
LEMMA AppliedCode ==
  ASSUME CodeInv, CodeInv', checkInstruction, checkConditions(Rules[NextRule], ins.val),
         outcome' # "failed"
  PROVE  LET e == Call(Rules[NextRule].new, ins.val)
         IN  /\ ~InfoMissing(Rules[NextRule])
             /\ rememberedValues' = rememberedValues \cup
                  (IF Rules[NextRule].remember THEN {facts[ins.val]} ELSE {})
             /\ \A f \in ToSet(Functions) : f # F => code'[f] = code[f]
             /\ \A l \in 1 .. Len(code'[F]) :
                  code'[F][l] = e \/ \E i \in 1 .. Len(code[F]) : code[F][i] = code'[F][l]
             /\ \E l \in 1 .. Len(code'[F]) : code'[F][l] = e
<1> DEFINE rw == Rules[NextRule]  e == Call(rw.new, ins.val)  c == code[F]
           p == IF rw.where = "before" THEN pos ELSE pos + 1  d == InsertAt(c, p, e)
<1>1. /\ ~InfoMissing(rw) /\ applyRule(rw)
      /\ rememberedValues' = rememberedValues \cup (IF rw.remember THEN {facts[ins.val]} ELSE {})
  BY DEF checkInstruction
<1>2. /\ c \in Seq(Linkable) /\ Len(c) \in Nat /\ pos \in 1 .. Len(c) /\ F \in ToSet(Functions)
  BY CheckFacts
<1>3. e \in Linkable
  BY <1>1, AppliedType
<1>4. code \in [ToSet(Functions) -> Seq(Linkable)]
  BY DEF CodeInv, CodeType
<1>5. code' = [code EXCEPT ![F] = d]
  BY <1>1 DEF applyRule
<1>6. p \in 1 .. Len(c) + 1
  BY <1>2
<1> HIDE DEF p, c, e
<1>7. /\ Len(d) = Len(c) + 1
      /\ \A i \in 1 .. Len(c) + 1 : d[i] = IF i < p THEN c[i] ELSE IF i = p THEN e ELSE c[i - 1]
  BY <1>2, <1>3, <1>6, InsertPlaces
<1> HIDE DEF d
<1>8. code'[F] = d /\ \A f \in ToSet(Functions) : f # F => code'[f] = code[f]
  BY <1>2, <1>4, <1>5
<1>9. ASSUME NEW l \in 1 .. Len(d) PROVE d[l] = e \/ \E i \in 1 .. Len(c) : c[i] = d[l]
  <2>1. l \in 1 .. Len(c) + 1 /\ l \in Nat /\ p \in Nat /\ p <= Len(c) + 1
    BY <1>2, <1>6, <1>7
  <2>2. CASE l < p
    <3>1. l \in 1 .. Len(c)
      BY <1>2, <2>1, <2>2
    <3> QED BY <1>7, <2>1, <2>2, <3>1
  <2>3. CASE l = p
    BY <1>7, <2>1, <2>3
  <2>4. CASE l > p
    <3>1. l - 1 \in 1 .. Len(c) /\ ~ (l < p) /\ l # p
      BY <1>2, <1>6, <2>1, <2>4
    <3> QED BY <1>7, <2>1, <3>1
  <2> QED BY <2>1, <2>2, <2>3, <2>4
<1>10. p \in 1 .. Len(d) /\ d[p] = e
  BY <1>2, <1>6, <1>7
<1> QED BY <1>1, <1>8, <1>9, <1>10 DEF c, e

(* A call of N is an old one, or the one that the rule at hand has placed. *)
LEMMA CallsFrom ==
  ASSUME CodeInv, CodeInv', [Next]_vars, outcome' # "failed", 1 \in 1 .. Len(Phases), NEW N,
         \A p \in 1 .. Len(Phases) :
           /\ Phases[p].globals.new \notin N
           /\ \A r \in ToSet(Phases[p].rules) : r.where \in {"entry", "return"} => r.new \notin N,
         NEW f \in ToSet(Functions), NEW l \in 1 .. Len(code'[f]), code'[f][l].new \in N
  PROVE  \/ \E i \in 1 .. Len(code[f]) : code[f][i] = code'[f][l]
         \/ /\ checkInstruction /\ checkConditions(Rules[NextRule], ins.val)
            /\ Rules[NextRule].new \in N /\ code'[f][l] = Call(Rules[NextRule].new, ins.val)
<1>1. PICK n \in 1 .. Len(Functions) : Functions[n] = f
  BY FunctionPlace
<1>2. CASE PlacesNone(N)
  <2>1. PICK m : Advances(1, N, n, m)
    BY <1>2, StepAdvances
  <2> QED BY <1>1, <2>1 DEF Advances, Grown
<1>3. CASE /\ checkInstruction /\ checkConditions(Rules[NextRule], ins.val)
           /\ Rules[NextRule].new \in N
  <2> DEFINE e == Call(Rules[NextRule].new, ins.val)
  <2>1. /\ \A h \in ToSet(Functions) : h # F => code'[h] = code[h]
        /\ \A j \in 1 .. Len(code'[F]) :
             code'[F][j] = e \/ \E i \in 1 .. Len(code[F]) : code[F][i] = code'[F][j]
    BY <1>3, AppliedCode
  <2> HIDE DEF e
  <2>2. code'[f][l] = e \/ \E i \in 1 .. Len(code[f]) : code[f][i] = code'[f][l]
    BY <2>1
  <2> QED BY <1>3, <2>2 DEF e
<1>4. PlacesNone(N) \/ /\ checkInstruction /\ checkConditions(Rules[NextRule], ins.val)
                       /\ Rules[NextRule].new \in N
  <2>1. instrumentFunction \/ instrumentGlobals => phase \in 1 .. Len(Phases)
    <3>1. instrumentFunction \/ instrumentGlobals => phase <= Len(Phases)
      BY DEF instrumentFunction, instrumentGlobals, InFunction, Runs
    <3>2. phase \in Nat /\ phase >= 1 /\ Len(Phases) \in Nat
      BY CodeFacts
    <3> QED BY <3>1, <3>2
  <2> QED BY <2>1 DEF PlacesNone, Rules
<1> QED BY <1>2, <1>3, <1>4

LEMMA ChecksRememberedStays ==
  ASSUME CodeInv, CodeInv', RegisterRules, Standard, ChecksRemembered, [Next]_vars,
         outcome' # "failed"
  PROVE  ChecksRemembered'
<1> SUFFICES ASSUME NEW f \in ToSet(Functions), NEW l \in 1 .. Len(code'[f]),
                    code'[f][l].new \in PointerCheck
             PROVE  facts[code'[f][l].val] \in rememberedValues'
  BY InputFixed, InputStays DEF ChecksRemembered
<1>1. CASE \E i \in 1 .. Len(code[f]) : code[f][i] = code'[f][l]
  BY <1>1, RememberedStep DEF ChecksRemembered
<1>2. CASE /\ checkInstruction /\ checkConditions(Rules[NextRule], ins.val)
           /\ Rules[NextRule].new \in PointerCheck
           /\ code'[f][l] = Call(Rules[NextRule].new, ins.val)
  <2>1. phase \in 1 .. Len(Phases) /\ Rules[NextRule] \in ToSet(Rules)
    BY <1>2, CheckFacts
  <2>2. Rules[NextRule].remember
    BY <1>2, <2>1, RegisterSetup DEF Rules
  <2>3. facts[ins.val] \in rememberedValues'
    BY <1>2, <2>2, AppliedCode
  <2>4. code'[f][l].val = ins.val
    BY <1>2 DEF Call
  <2> QED BY <2>3, <2>4
<1>3. /\ 1 \in 1 .. Len(Phases)
      /\ \A p \in 1 .. Len(Phases) :
           /\ Phases[p].globals.new \notin PointerCheck
           /\ \A r \in ToSet(Phases[p].rules) :
                r.where \in {"entry", "return"} => r.new \notin PointerCheck
  BY RegisterSetup
<1> QED BY <1>1, <1>2, <1>3, CallsFrom

(* The condition of the rules of the second phase.                         *)
LEMMA RememberedHolds ==
  ASSUME "isRemembered" \notin setup.flags, NEW r, r.conds = RememberedConds, ~r.forAll, NEW v
  PROVE  /\ checkConditions(r, v) <=> RememberedNow(v)
         /\ (\A i \in DOMAIN r.conds :
               checkAnalysis(setup.plugins, r.conds[i], r.forAll, facts[v], rememberedValues))
              <=> RememberedNow(v)
<1>1. DOMAIN r.conds = {1} /\ r.conds[1].name = "isRemembered" /\ r.conds[1] = RememberedConds[1]
      /\ r.conds[1].name \notin setup.flags
  BY DEF RememberedConds, Asks
<1>2. checkAnalysis(setup.plugins, r.conds[1], r.forAll, facts[v], rememberedValues)
        <=> RememberedNow(v)
  BY <1>1 DEF RememberedNow, checkAnalysis
<1> QED BY <1>1, <1>2 DEF checkConditions

LEMMA AllocasRegisteredStays ==
  ASSUME CodeInv, CodeInv', RegisterRules, Standard, AllocasRegistered, [Next]_vars,
         outcome' # "failed"
  PROVE  AllocasRegistered'
<1>1. Phases' = Phases /\ 1 \in 1 .. Len(Phases) /\ 2 \in 1 .. Len(Phases)
      /\ "isRemembered" \notin setup.flags
  BY InputFixed, InputStays, RegisterSetup
<1> SUFFICES ASSUME NEW n \in 1 .. Len(Functions), NEW l \in 1 .. Len(code'[Functions[n]]),
                    NEW x, x = code'[Functions[n]][l], ~Inserted(x), x.op = "alloca",
                    RememberedNow(x.val)',
                    NEW k \in 1 .. Len(Phases[2].rules), k <= Tried(2, n, l)',
                    RegistersAlloca(Phases[2].rules[k])
             PROVE  \E j \in 1 .. Len(code'[Functions[n]]) :
                      code'[Functions[n]][j] = Call("__INSTR_remember", x.val)
  BY <1>1 DEF AllocasRegistered
<1>2. Functions[n] \in ToSet(Functions) /\ k \in Nat
  BY FunctionAt
<1>3. PICK i \in 1 .. Len(code[Functions[n]]) :
        /\ code[Functions[n]][i] = x
        /\ \/ k <= Tried(2, n, i)
           \/ /\ phase = 2 /\ fun = n /\ pos = i
              /\ k \in rule + 1 .. Len(Rules) /\ ~Matches(Rules[k])
           \/ checkInstruction /\ phase = 2 /\ fun = n /\ pos = i /\ NextRule = k
  BY <1>1, <1>2, TriedBefore
<1>4. CASE k <= Tried(2, n, i)
  <2>1. phase >= 2
    <3>1. phase \in Nat
      BY CodeFacts
    <3>2. phase < 2 => Tried(2, n, i) = 0
      BY DEF Tried
    <3> QED BY <1>4, <3>1, <3>2
  <2>2. RememberedNow(x.val)
    <3>1. PICK v : v = x.val
      OBVIOUS
    <3>2. RememberedNow(v)' <=> RememberedNow(v)
      BY <2>1, RememberedSteady
    <3>3. RememberedNow(v)'
      BY <3>1
    <3> QED BY <3>1, <3>2, <3>3
  <2>3. \E j \in 1 .. Len(code[Functions[n]]) :
          code[Functions[n]][j] = Call("__INSTR_remember", x.val)
    BY <1>3, <1>4, <2>2 DEF AllocasRegistered
  <2> QED BY <1>1, <1>2, <2>3, CodeStays
<1>5. CASE /\ phase = 2 /\ fun = n /\ pos = i
           /\ k \in rule + 1 .. Len(Rules) /\ ~Matches(Rules[k])
  <2>1. Rules = Phases[2].rules /\ ins = x
    BY <1>3, <1>5 DEF Rules, F, ins
  <2>2. Matches(Rules[k])
    BY <2>1 DEF RegistersAlloca, Matches, AppliesIn
  <2> QED BY <1>5, <2>2
<1>6. CASE checkInstruction /\ phase = 2 /\ fun = n /\ pos = i /\ NextRule = k
  <2>1. Rules = Phases[2].rules /\ ins = x /\ F = Functions[n]
    BY <1>3, <1>6 DEF Rules, F, ins
  <2>2. PICK r : r = Rules[k] /\ RegistersAlloca(r)
    BY <2>1
  <2>3. PICK v : v = x.val
    OBVIOUS
  <2>4. RememberedNow(v)
    <3>1. RememberedNow(v)' <=> RememberedNow(v)
      BY <1>6, RememberedSteady
    <3>2. RememberedNow(v)'
      BY <2>3
    <3> QED BY <3>1, <3>2
  <2>5. checkConditions(Rules[NextRule], ins.val)
    <3>1. checkConditions(r, v)
      BY <1>1, <2>2, <2>4, RememberedHolds DEF RegistersAlloca
    <3> QED BY <1>6, <2>1, <2>2, <2>3, <3>1
  <2>6. \E j \in 1 .. Len(code'[F]) : code'[F][j] = Call(Rules[NextRule].new, ins.val)
    BY <1>6, <2>5, AppliedCode
  <2>7. Rules[NextRule].new = "__INSTR_remember"
    BY <1>6, <2>2 DEF RegistersAlloca
  <2> QED BY <2>1, <2>6, <2>7
<1> QED BY <1>3, <1>4, <1>5, <1>6

LEMMA GlobalsRegisteredStays ==
  ASSUME CodeInv, CodeInv', RegisterRules, MainRuns, Standard, GlobalsRegistered, [Next]_vars,
         outcome' # "failed"
  PROVE  GlobalsRegistered'
<1>1. 1 \in 1 .. Len(Phases) /\ "isRemembered" \notin setup.flags /\ "main" \in ToSet(Functions)
  BY RegisterSetup DEF MainRuns
<1> SUFFICES ASSUME phase' > 2, NEW v \in ToSet(Globals), RememberedNow(v)'
             PROVE  \E j \in 1 .. Len(code'["main"]) :
                      code'["main"][j] = Call("__INSTR_remember_global", v)
  BY DEF GlobalsRegistered
<1>2. phase \in Nat
  BY CodeFacts
<1>3. phase' = phase \/ (instrumentGlobals /\ phase' = phase + 1)
  <2>1. instrumentFunction \/ checkInstruction \/ nextInstruction => phase' = phase
    BY DEF instrumentFunction, checkInstruction, nextInstruction, Stay
  <2>2. omitFunction \/ nextFunction \/ finish => phase' = phase
    BY DEF omitFunction, nextFunction, finish
  <2>3. instrumentGlobals => phase' = phase + 1
    BY DEF instrumentGlobals
  <2>4. UNCHANGED vars => phase' = phase
    BY DEF vars
  <2> QED BY <2>1, <2>2, <2>3, <2>4 DEF Next
<1>4. phase >= 2
  BY <1>2, <1>3
<1>5. RememberedNow(v)
  BY <1>4, RememberedSteady
<1>6. CASE phase > 2
  <2>1. \E j \in 1 .. Len(code["main"]) : code["main"][j] = Call("__INSTR_remember_global", v)
    BY <1>5, <1>6 DEF GlobalsRegistered
  <2> QED BY <1>1, <2>1, CodeStays
<1>7. CASE instrumentGlobals /\ phase = 2
  <2> DEFINE r == Phases[2].globals  picked == PickedGlobals(r)
             calls == [i \in DOMAIN picked |-> Call(r.new, picked[i])]
  <2>1. /\ r.in = "main" /\ r.new = "__INSTR_remember_global"
        /\ r.conds = RememberedConds /\ ~r.forAll
    BY RegisterSetup
  <2>2. PICK j \in 1 .. Len(picked) : picked[j] = v
    <3> HIDE DEF r
    <3> QED BY <1>1, <1>5, <2>1, RememberedHolds, PickedGlobalsAll
  <2>3. Globals # <<>>
    BY DEF ToSet
  <2>4. code' = [code EXCEPT !["main"] = Reverse(calls) \o @]
    <3>1. code' = [code EXCEPT ![r.in] = Reverse(calls) \o @]
      BY <1>7, <2>1, <2>3 DEF instrumentGlobals
    <3> QED BY <2>1, <3>1
  <2>5. picked \in Seq(ToSet(Globals))
    BY PickedGlobalsType
  <2> HIDE DEF r, picked
  <2>6. /\ DOMAIN picked = 1 .. Len(picked) /\ Len(picked) \in Nat
        /\ calls = [i \in 1 .. Len(picked) |-> Call(r.new, picked[i])]
    BY <2>5
  <2> DEFINE T == {Call(r.new, u) : u \in ToSet(Globals)}
  <2>7. /\ calls \in Seq(T) /\ Len(calls) = Len(picked)
        /\ calls[j] = Call("__INSTR_remember_global", v)
    <3>1. \A i \in 1 .. Len(picked) : Call(r.new, picked[i]) \in T
      BY <2>5
    <3> HIDE DEF T
    <3>2. calls \in Seq(T)
      BY <2>6, <3>1, IsASeq
    <3>3. calls[j] = Call("__INSTR_remember_global", v)
      BY <2>1, <2>2, <2>6
    <3>4. Len(calls) = Len(picked)
      BY <2>6, <3>2
    <3> QED BY <3>2, <3>3, <3>4
  <2> HIDE DEF calls, T
  <2> DEFINE w == Reverse(calls)  k == (Len(calls) - j) + 1
  <2>8. /\ w \in Seq(T) /\ Len(w) = Len(calls) /\ k \in 1 .. Len(w)
        /\ w[k] = Call("__INSTR_remember_global", v)
    <3>1. w \in Seq(T) /\ Len(w) = Len(calls)
      BY <2>7, ReverseType
    <3>2. w = [i \in 1 .. Len(calls) |-> calls[(Len(calls) - i) + 1]]
      BY DEF Reverse
    <3>3. k \in 1 .. Len(calls) /\ (Len(calls) - k) + 1 = j /\ Len(calls) \in Nat
      BY <2>6, <2>7
    <3> HIDE DEF w, k
    <3> QED BY <2>7, <3>1, <3>2, <3>3
  <2> HIDE DEF w, k
  <2>9. code'["main"] = w \o code["main"] /\ code["main"] \in Seq(Linkable)
    BY <1>1, <2>4 DEF CodeInv, CodeType, w
  <2>10. k \in 1 .. Len(code'["main"]) /\ code'["main"][k] = w[k]
    BY <2>8, <2>9
  <2> QED BY <2>8, <2>10
<1> QED BY <1>2, <1>3, <1>4, <1>6, <1>7

LEMMA RegisterInductive ==
  ASSUME RegisterRules, MainRuns, RegisterInv, [Next]_vars
  PROVE  RegisterInv'
<1>1. CodeInv /\ CodeInv' /\ UNCHANGED input
  BY CodeInductive, InputFixed DEF RegisterInv
<1>2. (Standard' <=> Standard) /\ reachable' = reachable
  BY <1>1, InputStays DEF Standard, input
<1>3. ASSUME Standard, outcome' # "failed"
      PROVE  ChecksRemembered' /\ AllocasRegistered' /\ GlobalsRegistered'
  <2>1. ChecksRemembered /\ AllocasRegistered /\ GlobalsRegistered
    BY <1>3, OutcomeStays DEF RegisterInv
  <2> QED BY <1>1, <1>3, <2>1, ChecksRememberedStays, AllocasRegisteredStays, GlobalsRegisteredStays
<1> QED BY <1>1, <1>2, <1>3, DonePastStays DEF RegisterInv

(* A pointer that is remembered may target its targets.                    *)
LEMMA TargetsRemembered ==
  ASSUME ObjectsNamed, facts \in Facts, NEW w \in DOMAIN facts, facts[w] \in rememberedValues,
         NEW t \in MayTarget(facts[w].node), t.kind \in {"global", "stack"}
  PROVE  /\ RememberedNow(t.name)
         /\ t.kind = "global" => t.name \in ToSet(Globals)
<1> DEFINE node == facts[w].node
<1>1. /\ facts[t.name].obj = t /\ (t.kind = "global" => t.name \in ToSet(Globals))
      /\ pointsTo(node, t) \in {"true", "maybe"}
  <2>1. ~getPointsTo(node).unknown /\ (KnowsNothing(node) => ~node.built)
    BY DEF ObjectsNamed
  <2>2. CASE KnowsNothing(node)
    <3>1. PICK u \in DOMAIN facts : t = facts[u].obj
      BY <2>2 DEF MayTarget
    <3>2. pointsTo(node, t) = "maybe"
      BY <2>1, <2>2 DEF pointsTo
    <3> QED BY <3>1, <3>2 DEF ObjectsNamed
  <2>3. CASE ~KnowsNothing(node)
    <3>1. t \in getPointsTo(node).ptset
      BY <2>1, <2>3 DEF MayTarget
    <3>2. PICK p \in Pointees(node) : p.target = t
      BY <3>1 DEF getPointsTo
    <3>3. pointsTo(node, t) \in {"true", "maybe"}
      BY <3>2 DEF pointsTo, Truth
    <3> QED BY <3>1, <3>3 DEF ObjectsNamed
  <2> QED BY <2>2, <2>3
<1> DEFINE c == RememberedConds[1]
<1>2. c.name = "isRemembered" /\ c.expected = {"true", "maybe"} /\ Needed(c.name) = "pointsTo"
  BY DEF RememberedConds, Asks, Needed
<1> HIDE DEF c
<1>3. ASSUME NEW p \in setup.plugins, supports(p, "pointsTo")
      PROVE  shouldInstrument(p, c, facts[t.name], rememberedValues)
  BY <1>1, <1>2, <1>3 DEF shouldInstrument
<1>4. checkAnalysis(setup.plugins, c, FALSE, facts[t.name], rememberedValues)
  BY <1>2, <1>3 DEF checkAnalysis
<1> QED BY <1>1, <1>4 DEF RememberedNow, c

LEMMA RegisterInvRegisters ==
  ASSUME RegisterRules, MainRuns, ObjectsNamed, RegisterInv
  PROVE  CheckedObjectsRegistered
<1> SUFFICES ASSUME outcome = "done", Standard,
                    NEW v \in CheckedPointers, NEW t \in MayTarget(facts[v].node)
             PROVE  /\ t.kind = "global" => Registers("__INSTR_remember_global", t)
                    /\ t.kind = "stack" =>
                         \A f \in Instrumented : Ins("alloca", t.name) \in ToSet(original[f]) =>
                           Registers("__INSTR_remember", t)
  BY DEF CheckedObjectsRegistered, Done, Standard
<1>1. CodeInv /\ phase > Len(Phases) /\ ChecksRemembered /\ AllocasRegistered /\ GlobalsRegistered
  BY DEF RegisterInv, DonePast
<1>2. /\ 1 \in 1 .. Len(Phases) /\ 2 \in 1 .. Len(Phases) /\ Len(Phases) \in Nat /\ phase \in Nat
      /\ \E k \in 1 .. Len(Phases[2].rules) : RegistersAlloca(Phases[2].rules[k])
      /\ \A f \in ToSet(Functions) : code[f] \in Seq(Linkable) /\ Len(code[f]) \in Nat
                                     /\ DOMAIN code[f] = 1 .. Len(code[f])
  <2>1. \A f \in ToSet(Functions) : code[f] \in Seq(Linkable) /\ Len(code[f]) \in Nat
    BY <1>1, CodeFacts
  <2>2. \A f \in ToSet(Functions) : DOMAIN code[f] = 1 .. Len(code[f])
    BY <2>1
  <2> QED BY <1>1, <2>1, <2>2, RegisterSetup, CodeFacts
<1>3. "main" \in Instrumented
  BY DEF Instrumented, Instruments, isReachableFun, MainRuns, RegisterInv
<1>4. facts[v] \in rememberedValues
  <2>1. PICK f \in Instrumented : \E i \in CallsIn(f, "__INSTR_check_pointer") : v = code[f][i].val
    BY DEF CheckedPointers
  <2>4. PICK i \in CallsIn(f, "__INSTR_check_pointer") : v = code[f][i].val
    BY <2>1
  <2>2. f \in ToSet(Functions) /\ i \in DOMAIN code[f] /\ code[f][i].new = "__INSTR_check_pointer"
    BY DEF Instrumented, CallsIn
  <2>3. i \in 1 .. Len(code[f]) /\ code[f][i].new \in PointerCheck
    BY <1>2, <2>2 DEF PointerCheck
  <2> QED BY <1>1, <2>2, <2>3, <2>4 DEF ChecksRemembered
<1>5. PICK w \in DOMAIN facts : facts[w] = facts[v]
  BY <1>1, <1>4 DEF CodeInv, TypeOK
<1>6. t.kind \in {"global", "stack"} =>
        RememberedNow(t.name) /\ (t.kind = "global" => t.name \in ToSet(Globals))
  <2>1. facts \in Facts /\ facts[w] \in rememberedValues /\ t \in MayTarget(facts[w].node)
    BY <1>1, <1>4, <1>5 DEF CodeInv, InputType
  <2> QED BY <2>1, TargetsRemembered
<1>7. ASSUME NEW f \in Instrumented, NEW new,
             \E j \in 1 .. Len(code[f]) : code[f][j] = Call(new, t.name)
      PROVE  Registers(new, t)
  <2>1. PICK j \in 1 .. Len(code[f]) : code[f][j] = Call(new, t.name)
    BY <1>7
  <2>2. j \in DOMAIN code[f]
    BY <1>2 DEF Instrumented
  <2>3. code[f][j].new = new /\ code[f][j].val = t.name
    BY <2>1 DEF Call
  <2> QED BY <2>2, <2>3 DEF Registers, CallsIn
<1>8. ASSUME t.kind = "global" PROVE Registers("__INSTR_remember_global", t)
  <2>1. phase > 2
    BY <1>1, <1>2
  <2>2. \E j \in 1 .. Len(code["main"]) : code["main"][j] = Call("__INSTR_remember_global", t.name)
    BY <1>1, <1>6, <1>8, <2>1 DEF GlobalsRegistered
  <2> QED BY <1>3, <1>7, <2>2
<1>9. ASSUME t.kind = "stack", NEW f \in Instrumented, Ins("alloca", t.name) \in ToSet(original[f])
      PROVE  Registers("__INSTR_remember", t)
  <2> DEFINE x == Ins("alloca", t.name)
  <2>1. f \in ToSet(Functions) /\ Instruments(f)
    BY DEF Instrumented
  <2>2. x.op = "alloca" /\ x.val = t.name /\ ~Inserted(x)
    BY DEF Ins, Inserted
  <2>3. \E j \in DOMAIN original[f] : original[f][j] = x
    BY <1>9 DEF ToSet
  <2> HIDE DEF x
  <2>4. PICK l \in 1 .. Len(code[f]) : code[f][l] = x
    BY <1>1, <1>2, <2>1, <2>2, <2>3, ProgramThere
  <2>5. PICK n \in 1 .. Len(Functions) : Functions[n] = f
    BY <2>1, FunctionPlace
  <2>6. PICK k \in 1 .. Len(Phases[2].rules) : RegistersAlloca(Phases[2].rules[k])
    BY <1>2
  <2>7. Tried(2, n, l) = Len(Phases[2].rules)
    <3>1. phase > 2 /\ ~ (phase < 2)
      BY <1>1, <1>2
    <3> QED BY <2>1, <2>5, <3>1 DEF Tried
  <2>8. k <= Tried(2, n, l)
    BY <2>7
  <2>9. RememberedNow(x.val)
    BY <1>6, <1>9, <2>2
  <2>10. \E j \in 1 .. Len(code[f]) : code[f][j] = Call("__INSTR_remember", x.val)
    BY <1>1, <2>2, <2>4, <2>5, <2>6, <2>8, <2>9 DEF AllocasRegistered
  <2> QED BY <1>7, <2>2, <2>10
<1> QED BY <1>8, <1>9

(* In the end every global and every instrumented stack object that a      *)
(* checked pointer may target is registered where it is allocated: what    *)
(* the first phase remembers is what the second asks for, in whatever      *)
(* order functions and instructions were met (memsafety.c:318,             *)
(* instr.cpp:775-790, 1215-1250).                                          *)
THEOREM ObjectsAreRegistered ==
  ASSUME RegisterRules, MainRuns, ObjectsNamed
  PROVE  Spec => []CheckedObjectsRegistered
<1>1. Init => RegisterInv
  <2> SUFFICES ASSUME Init PROVE RegisterInv
    OBVIOUS
  <2>1. CodeInv /\ outcome = "running" /\ reachable \in Reachable /\ phase = 1 /\ fun = 1 /\ pos = 0
    BY CodeInit DEF Init
  <2>2. ChecksRemembered
    <3> SUFFICES ASSUME NEW f \in ToSet(Functions), NEW i \in 1 .. Len(code[f])
                 PROVE  code[f][i].new # "__INSTR_check_pointer"
      BY DEF ChecksRemembered, PointerCheck
    <3>1. code[f] \in Seq(Original)
      BY ProgramAssumption DEF Init
    <3>2. code[f][i] \in Original
      BY <3>1
    <3> QED BY <3>2 DEF Original
  <2>3. AllocasRegistered
    <3>1. \A i : \A n \in 1 .. Len(Functions) : Tried(2, n, i) = 0
      BY <2>1 DEF Tried
    <3> QED BY <3>1 DEF AllocasRegistered
  <2>4. GlobalsRegistered
    BY <2>1 DEF GlobalsRegistered
  <2> QED BY <2>1, <2>2, <2>3, <2>4 DEF RegisterInv, DonePast
<1>2. RegisterInv /\ [Next]_vars => RegisterInv'
  BY RegisterInductive
<1>3. RegisterInv => CheckedObjectsRegistered
  BY RegisterInvRegisters
<1> QED BY <1>1, <1>2, <1>3, PTL DEF Spec

(***************************************************************************)
(* The calls that frame a function.                                        *)
(***************************************************************************)
(* One element of a sequence has its new in S, or none has.                *)
NoneOf(s, S) == \A j \in 1 .. Len(s) : s[j].new \notin S
Once(s, S) ==
  \E i \in 1 .. Len(s) : s[i].new \in S /\ \A j \in 1 .. Len(s) : s[j].new \in S => j = i

LEMMA OnceConcat ==
  ASSUME NEW T, NEW a \in Seq(T), NEW b \in Seq(T), NEW S
  PROVE  /\ NoneOf(a, S) /\ NoneOf(b, S) => NoneOf(a \o b, S)
         /\ Once(a, S) /\ NoneOf(b, S) => Once(a \o b, S)
         /\ NoneOf(a, S) /\ Once(b, S) => Once(a \o b, S)
<1> DEFINE w == a \o b  n == Len(a)
<1>1. /\ n \in Nat /\ Len(b) \in Nat /\ Len(w) = n + Len(b)
      /\ \A i \in 1 .. n : w[i] = a[i]
      /\ \A i \in 1 .. Len(b) : w[n + i] = b[i]
  OBVIOUS
<1> HIDE DEF w, n
<1>2. \A i \in 1 .. Len(w) : i \in 1 .. n \/ (i - n \in 1 .. Len(b) /\ i = n + (i - n))
  BY <1>1
<1>3. \A i \in 1 .. n : i \in 1 .. Len(w)
  BY <1>1
<1>4. \A i \in 1 .. Len(b) : n + i \in 1 .. Len(w)
  BY <1>1
<1>5. ASSUME NoneOf(a, S), NoneOf(b, S) PROVE NoneOf(w, S)
  BY <1>1, <1>2, <1>5 DEF NoneOf, n
<1>6. ASSUME Once(a, S), NoneOf(b, S) PROVE Once(w, S)
  <2>1. PICK i \in 1 .. n : a[i].new \in S /\ \A j \in 1 .. n : a[j].new \in S => j = i
    BY <1>6 DEF Once, n
  <2>2. \A j \in 1 .. Len(w) : w[j].new \in S => j = i
    BY <1>1, <1>2, <1>6, <2>1 DEF NoneOf
  <2> QED BY <1>1, <1>3, <2>1, <2>2 DEF Once
<1>7. ASSUME NoneOf(a, S), Once(b, S) PROVE Once(w, S)
  <2>1. PICK i \in 1 .. Len(b) : b[i].new \in S /\ \A j \in 1 .. Len(b) : b[j].new \in S => j = i
    BY <1>7 DEF Once
  <2>2. ASSUME NEW j \in 1 .. Len(w), w[j].new \in S PROVE j = n + i
    <3>1. j \notin 1 .. n
      BY <1>1, <1>7, <2>2 DEF NoneOf, n
    <3>2. j - n \in 1 .. Len(b) /\ j = n + (j - n)
      BY <1>2, <3>1
    <3>3. j - n = i
      BY <1>1, <2>1, <2>2, <3>2
    <3> QED BY <3>2, <3>3
  <2> DEFINE k == n + i
  <2>3. k \in 1 .. Len(w) /\ w[k].new \in S
    BY <1>1, <1>4, <2>1
  <2>4. \A j \in 1 .. Len(w) : w[j].new \in S => j = k
    BY <2>2
  <2> HIDE DEF k
  <2> QED BY <2>3, <2>4 DEF Once
<1> QED BY <1>5, <1>6, <1>7 DEF w

LEMMA FlattenOnce ==
  ASSUME NEW T, NEW s \in Seq(Seq(T)), NEW S, NEW k \in 1 .. Len(s), Once(s[k], S),
         \A i \in 1 .. Len(s) : i # k => NoneOf(s[i], S)
  PROVE  Once(FlattenSeq(s), S)
<1> DEFINE P(n) == SubSeq(s, 1, n)
           Ok(n) == IF k <= n THEN Once(FlattenSeq(P(n)), S) ELSE NoneOf(FlattenSeq(P(n)), S)
           Fails == {n \in 0 .. Len(s) : ~Ok(n)}
<1>1. Len(s) \in Nat /\ Fails \subseteq 0 .. Len(s) /\ k \in Nat /\ k >= 1 /\ k <= Len(s)
  OBVIOUS
<1>2. 0 \notin Fails
  <2>1. P(0) = <<>>
    BY SubSeqEmpty
  <2>2. NoneOf(<<>>, S)
    BY DEF NoneOf
  <2> HIDE DEF P
  <2> QED BY <1>1, <2>1, <2>2, FlattenEmpty
<1>3. ASSUME NEW n \in 0 .. Len(s) - 1, n \notin Fails PROVE n + 1 \notin Fails
  <2> DEFINE e == s[n + 1]
  <2>1. n + 1 \in 1 .. Len(s) /\ 1 \in 1 .. Len(s) /\ (n + 1) - 1 = n /\ n \in Nat
    BY <1>1
  <2>2. P(n) \in Seq(Seq(T)) /\ e \in Seq(T)
    BY <2>1, SubSeqProperties
  <2>3. P(n + 1) = P(n) \o <<e>>
    BY <2>1, SubSeqRecursiveSecond
  <2>4. Ok(n)
    BY <1>1, <1>3
  <2>5. IF n + 1 = k THEN Once(e, S) ELSE NoneOf(e, S)
    BY <2>1
  <2> HIDE DEF P, e
  <2>6. P(n + 1) = Append(P(n), e)
    BY <2>2, <2>3, AppendIsConcat
  <2>7. FlattenSeq(P(n + 1)) = FlattenSeq(P(n)) \o e /\ FlattenSeq(P(n)) \in Seq(T)
    BY <2>2, <2>6, FlattenAppend, FlattenType
  <2>8. CASE n + 1 = k
    <3>1. ~ (k <= n) /\ k <= n + 1
      BY <2>1, <2>8
    <3> QED BY <2>2, <2>4, <2>5, <2>7, <2>8, <3>1, OnceConcat
  <2>9. CASE n + 1 # k
    <3>1. k <= n <=> k <= n + 1
      BY <1>1, <2>1, <2>9
    <3> QED BY <2>2, <2>4, <2>5, <2>7, <2>9, <3>1, OnceConcat
  <2> QED BY <2>8, <2>9
<1>4. Fails = {}
  <2> HIDE DEF Fails
  <2> QED BY <1>1, <1>2, <1>3, NoneFails
<1>5. P(Len(s)) = s
  BY SubSeqFull
<1>6. Ok(Len(s))
  <2>1. Len(s) \in 0 .. Len(s)
    BY <1>1
  <2> HIDE DEF Ok
  <2> QED BY <1>4, <2>1
<1> HIDE DEF P
<1> QED BY <1>1, <1>5, <1>6

LEMMA ReverseOnce ==
  ASSUME NEW T, NEW s \in Seq(T), NEW S, Once(s, S)
  PROVE  Once(Reverse(s), S)
<1>1. Len(s) \in Nat
  OBVIOUS
<1>2. PICK i \in 1 .. Len(s) : s[i].new \in S /\ \A j \in 1 .. Len(s) : s[j].new \in S => j = i
  BY DEF Once
<1> DEFINE r == Reverse(s)  k == (Len(s) - i) + 1
<1>3. Len(r) = Len(s)
  BY ReverseType
<1>4. r = [j \in 1 .. Len(s) |-> s[(Len(s) - j) + 1]]
  BY DEF Reverse
<1> HIDE DEF r
<1>5. \A j \in 1 .. Len(s) : r[j] = s[(Len(s) - j) + 1] /\ (Len(s) - j) + 1 \in 1 .. Len(s)
  BY <1>1, <1>4
<1>6. k \in 1 .. Len(s) /\ (Len(s) - k) + 1 = i
  BY <1>1
<1>7. \A j \in 1 .. Len(s) : (Len(s) - j) + 1 = i => j = k
  BY <1>1
<1> HIDE DEF k
<1>8. r[k].new \in S
  BY <1>2, <1>5, <1>6
<1>9. \A j \in 1 .. Len(s) : r[j].new \in S => j = k
  BY <1>2, <1>5, <1>7
<1> QED BY <1>3, <1>6, <1>8, <1>9 DEF Once, r

(* Of the rules one places a call of S, and that for the frame.            *)
LEMMA PlacedOnce ==
  ASSUME InputType, phase \in 1 .. Len(Phases), NEW f, NEW where, NEW S,
         NEW k \in 1 .. Len(Rules), Rules[k].new \in S, Rules[k].where = where,
         AppliesIn(Rules[k], f), \A j \in 1 .. Len(Rules) : Rules[j].new \in S => j = k
  PROVE  Once(Placed(where, f), S)
<1> DEFINE B == {i \in DOMAIN Rules : Rules[i].where = where /\ AppliesIn(Rules[i], f)}
           Q == ToSet(Rules)  s == Framing(where, f)
           units == [i \in DOMAIN Rules |-> IF i \in B THEN <<Rules[i]>> ELSE <<>>]
<1>1. s = FlattenSeq(units)
  BY DEF Framing, Only
<1>2. Rules \in Seq(Q) /\ DOMAIN Rules = 1 .. Len(Rules) /\ Len(Rules) \in Nat
      /\ \A i \in 1 .. Len(Rules) : Rules[i] \in Q
  <2>1. Rules \in Seq(Q)
    BY PhaseType
  <2> HIDE DEF Q
  <2> QED BY <2>1
<1>3. k \in B
  BY <1>2
<1> HIDE DEF B, Q, s
<1>4. \A i \in 1 .. Len(Rules) : units[i] = IF i \in B THEN <<Rules[i]>> ELSE <<>>
  BY <1>2
<1>5. units \in Seq(Seq(Q)) /\ Len(units) = Len(Rules)
  <2>1. \A i \in 1 .. Len(Rules) : units[i] \in Seq(Q)
    BY <1>2, <1>4
  <2>2. units = [i \in 1 .. Len(Rules) |-> units[i]]
    BY <1>2
  <2> HIDE DEF units
  <2>3. units \in Seq(Seq(Q))
    BY <1>2, <2>1, <2>2, IsASeq
  <2> QED BY <1>2, <2>2, <2>3
<1> HIDE DEF units
<1>6. Once(units[k], S)
  <2>1. units[k] = <<Rules[k]>>
    BY <1>3, <1>4
  <2> QED BY <2>1 DEF Once
<1>7. \A i \in 1 .. Len(units) : i # k => NoneOf(units[i], S)
  <2> SUFFICES ASSUME NEW i \in 1 .. Len(units), i # k PROVE NoneOf(units[i], S)
    OBVIOUS
  <2>1. units[i] = <<Rules[i]>> \/ units[i] = <<>>
    BY <1>4, <1>5
  <2>2. Rules[i].new \notin S
    BY <1>5
  <2> QED BY <2>1, <2>2 DEF NoneOf
<1>8. k \in 1 .. Len(units)
  BY <1>5
<1>9. Once(s, S)
  BY <1>1, <1>5, <1>6, <1>7, <1>8, FlattenOnce
<1>10. s \in Seq(Q)
  BY <1>1, <1>5, FlattenType
<1>11. Placed(where, f) = [i \in DOMAIN s |-> Call(s[i].new, "none")]
  BY DEF Placed, s
<1>12. DOMAIN s = 1 .. Len(s) /\ Len(s) \in Nat
  BY <1>10
<1>13. Len(Placed(where, f)) = Len(s) /\ \A i \in 1 .. Len(s) : Placed(where, f)[i].new = s[i].new
  <2>1. Placed(where, f) = [i \in 1 .. Len(s) |-> Call(s[i].new, "none")]
    BY <1>11, <1>12
  <2>2. Len(Placed(where, f)) = Len(s)
    BY <1>12, <2>1
  <2>3. \A i \in 1 .. Len(s) : Placed(where, f)[i].new = s[i].new
    BY <2>1 DEF Call
  <2> QED BY <2>2, <2>3
<1>14. PICK i \in 1 .. Len(s) : s[i].new \in S /\ \A j \in 1 .. Len(s) : s[j].new \in S => j = i
  BY <1>9 DEF Once
<1> DEFINE d == Placed(where, f)
<1> HIDE DEF d
<1>15. Len(d) = Len(s) /\ i \in 1 .. Len(d) /\ d[i].new \in S
  BY <1>13, <1>14 DEF d
<1>16. \A j \in 1 .. Len(d) : d[j].new \in S => j = i
  BY <1>13, <1>14, <1>15 DEF d
<1>17. Once(d, S)
  BY <1>15, <1>16 DEF Once
<1> QED BY <1>17 DEF d

(* The calls of N in front of instruction i, when code grows behind it.    *)
LEMMA WatchedLonger ==
  ASSUME NEW T, NEW c \in Seq(T), NEW e \in Seq(T), NEW i \in 1 .. Len(c), NEW N
  PROVE  Watched(c \o e, i, N) = Watched(c, i, N)
<1> DEFINE d == c \o e
<1>1. Len(c) \in Nat /\ i \in Nat /\ i <= Len(c) /\ \A j \in 1 .. Len(c) : d[j] = c[j]
  OBVIOUS
<1> HIDE DEF d
<1>2. \A j \in 1 .. i - 1 : d[j] = c[j] /\ \A k \in j .. i - 1 : d[k] = c[k]
  BY <1>1
<1> QED BY <1>2 DEF Watched, d

(* What is watched behind insertions was watched before.                   *)
LEMMA WatchedBack ==
  ASSUME NEW T, NEW c \in Seq(T), NEW d \in Seq(T), NEW m, NEW S, Grown(c, d, m, S), NEW N,
         NEW i \in 1 .. Len(c), NEW j \in 1 .. Len(c), m[j] \in Watched(d, m[i], N)
  PROVE  j \in Watched(c, i, N)
<1>1. /\ \A x \in 1 .. Len(c) : m[x] \in 1 .. Len(d) /\ d[m[x]] = c[x]
      /\ \A x, y \in 1 .. Len(c) : x < y => m[x] < m[y]
  BY DEF Grown
<1>2. Len(c) \in Nat /\ Len(d) \in Nat
  OBVIOUS
<1>3. m[j] \in 1 .. m[i] - 1 /\ d[m[j]].new \in N /\ \A k \in m[j] .. m[i] - 1 : Inserted(d[k])
  BY DEF Watched
<1>4. j \in 1 .. i - 1
  <2>1. ~ (i < j) /\ i # j
    BY <1>1, <1>2, <1>3
  <2> QED BY <2>1
<1>5. ASSUME NEW x \in j .. i - 1 PROVE Inserted(c[x])
  <2>1. x \in 1 .. Len(c) /\ x < i /\ (j < x \/ j = x)
    BY <1>2, <1>4
  <2>2. m[x] \in 1 .. Len(d) /\ m[i] \in 1 .. Len(d) /\ m[j] \in 1 .. Len(d)
        /\ m[x] < m[i] /\ (m[j] < m[x] \/ m[j] = m[x])
    BY <1>1, <2>1
  <2>3. m[x] \in m[j] .. m[i] - 1
    BY <1>2, <2>2
  <2> QED BY <1>1, <1>3, <2>1, <2>3
<1> QED BY <1>1, <1>3, <1>4, <1>5 DEF Watched

(***************************************************************************)
(* A framed function.                                                      *)
(***************************************************************************)
Sets == {"__INSTR_set_flag"}
Drops == {"__INSTR_destroy_allocas"}
Remembers == {"__INSTR_remember"}

(* One call sets the flag, and only calls are in front of it, none of them *)
(* registering anything.                                                   *)
Opened(c) ==
  \E s \in 1 .. Len(c) :
    /\ c[s].new \in Sets /\ \A j \in 1 .. Len(c) : c[j].new \in Sets => j = s
    /\ \A j \in 1 .. s : Inserted(c[j]) /\ c[j].new \notin Remembers

(* Before the instruction the frame is dropped once, and leaks are looked  *)
(* for only then.                                                          *)
Dropped(c, i) ==
  \E d \in Watched(c, i, Drops) :
    /\ \A k \in Watched(c, i, Drops) : k = d
    /\ \A l \in Watched(c, i, Leaks) : d < l
Closed(c) == \A i \in 1 .. Len(c) : ~Inserted(c[i]) /\ c[i].op = "ret" => Dropped(c, i)

LEMMA OpenedGrown ==
  ASSUME NEW T, NEW c \in Seq(T), NEW d \in Seq(T), NEW m, Grown(c, d, m, Sets), Opened(c),
         \A k \in 1 .. Len(d) : (\A i \in 1 .. Len(c) : m[i] # k) /\ d[k].new \in Remembers =>
           \E i \in 1 .. Len(c) : ~Inserted(c[i]) /\ m[i] <= k + 1
  PROVE  Opened(d)
<1>1. /\ \A x \in 1 .. Len(c) : m[x] \in 1 .. Len(d) /\ d[m[x]] = c[x]
      /\ \A x, y \in 1 .. Len(c) : x < y => m[x] < m[y]
      /\ \A k \in 1 .. Len(d) :
           (\A x \in 1 .. Len(c) : m[x] # k) => Inserted(d[k]) /\ d[k].new \notin Sets
  BY DEF Grown
<1>2. Len(c) \in Nat /\ Len(d) \in Nat
  OBVIOUS
<1>3. PICK s \in 1 .. Len(c) :
        /\ c[s].new \in Sets /\ \A j \in 1 .. Len(c) : c[j].new \in Sets => j = s
        /\ \A j \in 1 .. s : Inserted(c[j]) /\ c[j].new \notin Remembers
  BY DEF Opened
<1>4. m[s] \in 1 .. Len(d) /\ d[m[s]].new \in Sets
  BY <1>1, <1>3
<1>5. ASSUME NEW k \in 1 .. Len(d), d[k].new \in Sets PROVE k = m[s]
  BY <1>1, <1>3, <1>5
<1>6. ASSUME NEW k \in 1 .. m[s] PROVE Inserted(d[k]) /\ d[k].new \notin Remembers
  <2>1. k \in 1 .. Len(d) /\ k <= m[s]
    BY <1>2, <1>4
  <2>2. CASE \E i \in 1 .. Len(c) : m[i] = k
    <3>1. PICK i \in 1 .. Len(c) : m[i] = k
      BY <2>2
    <3>2. ~ (s < i)
      BY <1>1, <1>2, <1>4, <2>1, <3>1
    <3>3. i \in 1 .. s
      BY <1>2, <3>2
    <3> QED BY <1>1, <1>3, <3>1, <3>3
  <2>3. CASE \A i \in 1 .. Len(c) : m[i] # k
    <3>1. ASSUME d[k].new \in Remembers PROVE FALSE
      <4>1. PICK i \in 1 .. Len(c) : ~Inserted(c[i]) /\ m[i] <= k + 1
        BY <2>1, <2>3, <3>1
      <4>2. i \notin 1 .. s
        BY <1>3, <4>1
      <4>3. s < i
        BY <1>2, <4>2
      <4>4. m[s] < m[i] /\ m[i] \in 1 .. Len(d)
        BY <1>1, <4>3
      <4>5. k = m[s]
        BY <1>2, <1>4, <2>1, <4>1, <4>4
      <4> QED BY <2>3, <4>5
    <3> QED BY <1>1, <2>1, <2>3, <3>1
  <2> QED BY <2>2, <2>3
<1> QED BY <1>4, <1>5, <1>6 DEF Opened

LEMMA ClosedGrown ==
  ASSUME NEW T, NEW c \in Seq(T), NEW d \in Seq(T), NEW m, Grown(c, d, m, Drops), Closed(c),
         \A k \in 1 .. Len(d) : (\A i \in 1 .. Len(c) : m[i] # k) /\ d[k].new \in Leaks =>
           \E i \in 1 .. Len(c) : ~Inserted(c[i]) /\ m[i] = k + 1
  PROVE  Closed(d)
<1>1. /\ \A x \in 1 .. Len(c) : m[x] \in 1 .. Len(d) /\ d[m[x]] = c[x]
      /\ \A x, y \in 1 .. Len(c) : x < y => m[x] < m[y]
      /\ \A k \in 1 .. Len(d) :
           (\A x \in 1 .. Len(c) : m[x] # k) => Inserted(d[k]) /\ d[k].new \notin Drops
  BY DEF Grown
<1>2. Len(c) \in Nat /\ Len(d) \in Nat
  OBVIOUS
<1> SUFFICES ASSUME NEW l \in 1 .. Len(d), ~Inserted(d[l]), d[l].op = "ret" PROVE Dropped(d, l)
  BY DEF Closed
<1>3. PICK i \in 1 .. Len(c) : m[i] = l
  BY <1>1
<1>4. Dropped(c, i)
  BY <1>1, <1>3 DEF Closed
<1>5. PICK a \in Watched(c, i, Drops) :
        /\ \A k \in Watched(c, i, Drops) : k = a
        /\ \A k \in Watched(c, i, Leaks) : a < k
  BY <1>4 DEF Dropped
<1>6. m[a] \in Watched(d, l, Drops) /\ \A k \in Watched(d, l, Drops) : k = m[a]
  <2>1. /\ \A j \in Watched(c, i, Drops) : m[j] \in Watched(d, m[i], Drops) /\ d[m[j]] = c[j]
        /\ \A k \in Watched(d, m[i], Drops) :
             \E j \in Watched(c, i, Drops) : m[j] = k /\ c[j] = d[k]
    BY WatchedGrown
  <2> QED BY <1>3, <1>5, <2>1
<1>7. a \in 1 .. i - 1 /\ a \in 1 .. Len(c) /\ a < i
  <2>1. a \in 1 .. i - 1
    BY DEF Watched
  <2> QED BY <1>2, <2>1
<1>8. ASSUME NEW k \in Watched(d, l, Leaks) PROVE m[a] < k
  <2>1. k \in 1 .. l - 1 /\ d[k].new \in Leaks /\ \A x \in k .. l - 1 : Inserted(d[x])
    BY DEF Watched
  <2>2. k \in 1 .. Len(d) /\ l \in Nat /\ k < l
    BY <1>2, <2>1
  <2>3. CASE \E j \in 1 .. Len(c) : m[j] = k
    <3>1. PICK j \in 1 .. Len(c) : m[j] = k
      BY <2>3
    <3>2. j \in Watched(c, i, Leaks)
      BY <1>3, <3>1, WatchedBack
    <3> QED BY <1>1, <1>5, <1>7, <3>1, <3>2
  <2>4. CASE \A j \in 1 .. Len(c) : m[j] # k
    <3>1. PICK j \in 1 .. Len(c) : ~Inserted(c[j]) /\ m[j] = k + 1
      BY <2>1, <2>2, <2>4
    <3>2. ~Inserted(d[k + 1])
      BY <1>1, <3>1
    <3>3. k + 1 = l
      BY <2>1, <2>2, <3>2
    <3>4. m[a] < m[i] /\ m[a] \in 1 .. Len(d)
      BY <1>1, <1>7
    <3>5. m[a] < k \/ m[a] = k
      BY <1>3, <2>2, <3>3, <3>4
    <3> QED BY <1>7, <2>4, <3>5
  <2> QED BY <2>3, <2>4
<1> QED BY <1>6, <1>8 DEF Dropped

(* A return behind the calls of its frame.                                 *)
LEMMA ClosedBehind ==
  ASSUME NEW T, NEW c \in Seq(T), Closed(c), Len(c) = 0 \/ ~Inserted(c[Len(c)]),
         NEW a \in Seq(T), \A j \in 1 .. Len(a) : Inserted(a[j]), NEW x \in T, ~Inserted(x),
         x.op = "ret" => Once(a, Drops) /\ NoneOf(a, Leaks)
  PROVE  LET d == c \o Append(a, x) IN Closed(d) /\ d \in Seq(T) /\ ~Inserted(d[Len(d)])
<1> DEFINE e == Append(a, x)  d == c \o e  n == Len(c)  r == Len(a)
<1>1. /\ n \in Nat /\ r \in Nat /\ e \in Seq(T) /\ Len(e) = r + 1 /\ e[r + 1] = x
      /\ \A j \in 1 .. r : e[j] = a[j]
  OBVIOUS
<1>2. /\ d \in Seq(T) /\ Len(d) = n + (r + 1)
      /\ \A j \in 1 .. n : d[j] = c[j]
      /\ \A j \in 1 .. r + 1 : d[n + j] = e[j]
  <2> HIDE DEF e, r
  <2>1. /\ c \o e \in Seq(T) /\ Len(c \o e) = Len(c) + Len(e)
        /\ \A j \in 1 .. Len(c) : (c \o e)[j] = c[j]
        /\ \A j \in 1 .. Len(e) : (c \o e)[Len(c) + j] = e[j]
    BY <1>1
  <2> QED BY <1>1, <2>1
<1>3. \A N : \A i \in 1 .. n : Watched(d, i, N) = Watched(c, i, N)
  <2> HIDE DEF e
  <2> QED BY <1>1, WatchedLonger
<1> HIDE DEF d, e, n, r
<1>4. \A j \in 1 .. Len(d) :
        \/ j \in 1 .. n
        \/ j - n \in 1 .. r /\ j = n + (j - n)
        \/ j = n + (r + 1)
  BY <1>1, <1>2
<1>5. \A j \in 1 .. r : d[n + j] = a[j] /\ Inserted(d[n + j])
  BY <1>1, <1>2 DEF r
<1>6. d[n + (r + 1)] = x
  <2>1. r + 1 \in 1 .. r + 1
    BY <1>1
  <2> QED BY <1>1, <1>2, <2>1
<1>7. ASSUME NEW l \in 1 .. Len(d), ~Inserted(d[l]), d[l].op = "ret" PROVE Dropped(d, l)
  <2>1. CASE l \in 1 .. n
    <3>1. Dropped(c, l)
      BY <1>2, <1>7, <2>1 DEF Closed, n
    <3> QED BY <1>3, <2>1, <3>1 DEF Dropped
  <2>2. CASE l - n \in 1 .. r /\ l = n + (l - n)
    BY <1>5, <1>7, <2>2
  <2>3. CASE l = n + (r + 1)
    <3>1. Once(a, Drops) /\ NoneOf(a, Leaks)
      BY <1>6, <1>7, <2>3
    <3>2. ASSUME NEW N, NEW k \in Watched(d, l, N)
          PROVE  k - n \in 1 .. r /\ k = n + (k - n) /\ a[k - n].new \in N
      <4>1. k \in 1 .. l - 1 /\ d[k].new \in N /\ \A y \in k .. l - 1 : Inserted(d[y])
        BY DEF Watched
      <4>2. k \in 1 .. Len(d) /\ k # n + (r + 1)
        BY <1>1, <1>2, <2>3, <4>1
      <4>3. k \notin 1 .. n
        <5>1. ASSUME k \in 1 .. n PROVE FALSE
          <6>1. n \in k .. l - 1 /\ n \in 1 .. n
            BY <1>1, <2>3, <5>1
          <6> QED BY <1>2, <4>1, <5>1, <6>1 DEF n
        <5> QED BY <5>1
      <4>4. k - n \in 1 .. r /\ k = n + (k - n)
        BY <1>4, <4>2, <4>3
      <4> QED BY <1>5, <4>1, <4>4
    <3>3. PICK i \in 1 .. r : a[i].new \in Drops /\ \A j \in 1 .. r : a[j].new \in Drops => j = i
      BY <3>1 DEF Once, r
    <3> DEFINE w == n + i
    <3>4. w \in Watched(d, l, Drops)
      <4>1. w \in 1 .. l - 1
        BY <1>1, <2>3
      <4>2. d[w].new \in Drops
        BY <1>5, <3>3
      <4>3. ASSUME NEW y \in w .. l - 1 PROVE Inserted(d[y])
        <5>1. y - n \in 1 .. r /\ y = n + (y - n)
          BY <1>1, <2>3
        <5> QED BY <1>5, <5>1
      <4> HIDE DEF w
      <4> QED BY <4>1, <4>2, <4>3 DEF Watched
    <3>5. ASSUME NEW k \in Watched(d, l, Drops) PROVE k = w
      <4>1. k - n \in 1 .. r /\ k = n + (k - n) /\ a[k - n].new \in Drops
        BY <3>2
      <4>2. k - n = i
        BY <3>3, <4>1
      <4> QED BY <4>1, <4>2
    <3>6. ASSUME NEW k \in Watched(d, l, Leaks) PROVE FALSE
      <4>1. k - n \in 1 .. r /\ a[k - n].new \in Leaks
        BY <3>2
      <4> QED BY <3>1, <4>1 DEF NoneOf, r
    <3> HIDE DEF w
    <3> QED BY <3>4, <3>5, <3>6 DEF Dropped
  <2> QED BY <1>4, <2>1, <2>2, <2>3
<1>8. Closed(d)
  BY <1>7 DEF Closed
<1>9. ~Inserted(d[Len(d)])
  BY <1>2, <1>6
<1> QED BY <1>2, <1>8, <1>9 DEF d, e

LEMMA ReturnsClosed ==
  ASSUME NEW T, NEW c \in Seq(T), \A i \in 1 .. Len(c) : ~Inserted(c[i]),
         NEW R \in Seq(T), \A j \in 1 .. Len(R) : Inserted(R[j]),
         Once(R, Drops), NoneOf(R, Leaks),
         NEW b \in Seq(Seq(T)), Len(b) = Len(c),
         \A i \in 1 .. Len(c) : b[i] = IF c[i].op = "ret" THEN Append(R, c[i]) ELSE <<c[i]>>
  PROVE  Closed(FlattenSeq(b))
<1> DEFINE P(k) == SubSeq(b, 1, k)
           Ok(d) == Closed(d) /\ (Len(d) = 0 \/ ~Inserted(d[Len(d)]))
           Fails == {k \in 0 .. Len(b) : ~Ok(FlattenSeq(P(k)))}
<1>1. Len(b) \in Nat /\ Fails \subseteq 0 .. Len(b)
  OBVIOUS
<1>2. 0 \notin Fails
  <2>1. P(0) = <<>>
    BY SubSeqEmpty
  <2>2. Ok(<<>>)
    BY DEF Closed
  <2> HIDE DEF P, Ok
  <2> QED BY <1>1, <2>1, <2>2, FlattenEmpty
<1>3. ASSUME NEW k \in 0 .. Len(b) - 1, k \notin Fails PROVE k + 1 \notin Fails
  <2> DEFINE x == c[k + 1]  a == IF x.op = "ret" THEN R ELSE <<>>  g == FlattenSeq(P(k))
  <2>1. k + 1 \in 1 .. Len(b) /\ 1 \in 1 .. Len(b) /\ (k + 1) - 1 = k /\ k \in 0 .. Len(b)
    BY <1>1
  <2>2. P(k) \in Seq(Seq(T)) /\ b[k + 1] \in Seq(T)
    BY <2>1, SubSeqProperties
  <2>3. P(k + 1) = P(k) \o <<b[k + 1]>>
    BY <2>1, SubSeqRecursiveSecond
  <2>4. x \in T /\ ~Inserted(x)
    BY <2>1
  <2>5. a \in Seq(T) /\ (\A j \in 1 .. Len(a) : Inserted(a[j])) /\ (x.op = "ret" => a = R)
    <3>1. <<>> \in Seq(T) /\ \A j \in 1 .. Len(<<>>) : Inserted(<<>>[j])
      OBVIOUS
    <3> QED BY <3>1
  <2>6. b[k + 1] = Append(a, x)
    <3>1. b[k + 1] = IF x.op = "ret" THEN Append(R, x) ELSE <<x>>
      BY <2>1
    <3>2. <<x>> = Append(<<>>, x)
      OBVIOUS
    <3> QED BY <3>1, <3>2
  <2> HIDE DEF P, x, a
  <2>7. P(k + 1) = Append(P(k), b[k + 1])
    BY <2>2, <2>3, AppendIsConcat
  <2>8. FlattenSeq(P(k + 1)) = g \o Append(a, x) /\ g \in Seq(T)
    BY <2>2, <2>6, <2>7, FlattenAppend, FlattenType
  <2>9. Ok(g)
    <3> HIDE DEF Ok
    <3> QED BY <1>3, <2>1
  <2> HIDE DEF g
  <2>10. Closed(g) /\ (Len(g) = 0 \/ ~Inserted(g[Len(g)]))
    BY <2>9
  <2>11. x.op = "ret" => Once(a, Drops) /\ NoneOf(a, Leaks)
    BY <2>5
  <2>12. LET d == g \o Append(a, x) IN Closed(d) /\ d \in Seq(T) /\ ~Inserted(d[Len(d)])
    BY <2>4, <2>5, <2>8, <2>10, <2>11, ClosedBehind
  <2> QED BY <2>8, <2>12
<1>4. Fails = {}
  <2> HIDE DEF Fails
  <2> QED BY <1>1, <1>2, <1>3, NoneFails
<1>5. P(Len(b)) = b
  BY SubSeqFull
<1>6. Ok(FlattenSeq(P(Len(b))))
  <2>1. Len(b) \in 0 .. Len(b)
    BY <1>1
  <2> HIDE DEF P, Ok
  <2> QED BY <1>4, <2>1
<1> HIDE DEF P
<1> QED BY <1>5, <1>6

Framers == Sets \cup Drops \cup Remembers \cup Leaks
Bracketed(c) == Opened(c) /\ Closed(c)

OneRule(rules, S) ==
  \E k \in 1 .. Len(rules) :
    /\ rules[k].new \in S /\ rules[k].in = "*"
    /\ \A j \in 1 .. Len(rules) : rules[j].new \in S => j = k

(* The first phase has one rule for entries, which sets the flag, and one  *)
(* for returns, which drops the frame, and they are all that does; nothing *)
(* is registered on entry or on return, and leaks are looked for before an *)
(* instruction (memsafety/config.json).                                    *)
FrameRules ==
  \A s \in Setups : s.config = "config" =>
    /\ Len(s.phases) >= 1
    /\ OneRule(s.phases[1].rules, Sets) /\ OneRule(s.phases[1].rules, Drops)
    /\ \A p \in 1 .. Len(s.phases) :
         /\ s.phases[p].globals.new \notin Framers
         /\ \A r \in ToSet(s.phases[p].rules) :
              /\ r.new \in Sets => p = 1 /\ r.where = "entry"
              /\ r.new \in Drops => p = 1 /\ r.where = "return"
              /\ r.new \in Remembers => r.where \in {"before", "after"}
              /\ r.new \in Leaks => r.where = "before"

LEMMA FrameSetup ==
  ASSUME InputType, FrameRules, Standard
  PROVE  /\ Phases = setup.phases /\ 1 \in 1 .. Len(Phases)
         /\ OneRule(Phases[1].rules, Sets) /\ OneRule(Phases[1].rules, Drops)
         /\ \A p \in 1 .. Len(Phases) :
              /\ Phases[p].globals.new \notin Framers
              /\ \A r \in ToSet(Phases[p].rules) :
                   /\ r.new \in Sets => p = 1 /\ r.where = "entry"
                   /\ r.new \in Drops => p = 1 /\ r.where = "return"
                   /\ r.new \in Remembers => r.where \in {"before", "after"}
                   /\ r.new \in Leaks => r.where = "before"
<1>1. setup \in Setups /\ Phases = setup.phases /\ setup.config = "config"
  BY DEF InputType, Phases, Standard
<1>2. Phases \in Seq(ToSet(Phases))
  BY <1>1, SetupAssumption DEF IsSequence
<1>3. Len(Phases) \in Nat /\ Len(Phases) >= 1
  BY <1>1, <1>2 DEF FrameRules
<1>4. 1 \in 1 .. Len(Phases)
  BY <1>3
<1> QED BY <1>1, <1>4 DEF FrameRules

(* A function that the first phase frames is bracketed.                    *)
LEMMA FrameBrackets ==
  ASSUME InputType, FrameRules, Standard, phase = 1, NEW f, code[f] \in Seq(Linkable),
         \A i \in 1 .. Len(code[f]) : ~Inserted(code[f][i]) /\ code[f][i].new = "none",
         {c.new : c \in ToSet(Placed("entry", f) \o Placed("return", f))} \subseteq Definitions
  PROVE  Bracketed(WithFrame(f))
<1> DEFINE E == Placed("entry", f)  R == Placed("return", f)  c == code[f]  T == Linkable
           b == [i \in DOMAIN c |-> IF c[i].op = "ret" THEN Append(R, c[i]) ELSE <<c[i]>>]
<1>1. /\ phase \in 1 .. Len(Phases) /\ Rules = Phases[1].rules
      /\ OneRule(Rules, Sets) /\ OneRule(Rules, Drops)
      /\ \A r \in ToSet(Rules) :
           /\ r.new \in Sets => r.where = "entry"
           /\ r.new \in Drops => r.where = "return"
           /\ r.new \in Remembers => r.where \in {"before", "after"}
           /\ r.new \in Leaks => r.where = "before"
  BY FrameSetup DEF Rules
<1>2. /\ E \in Seq(T) /\ \A i \in 1 .. Len(E) :
           Inserted(E[i]) /\ \E r \in ToSet(Rules) : r.where = "entry" /\ E[i].new = r.new
      /\ R \in Seq(T) /\ \A i \in 1 .. Len(R) :
           Inserted(R[i]) /\ \E r \in ToSet(Rules) : r.where = "return" /\ R[i].new = r.new
  BY <1>1, FrameType
<1>3. /\ \A i \in 1 .. Len(E) : Inserted(E[i]) /\ E[i].new \notin Drops \cup Remembers \cup Leaks
      /\ \A i \in 1 .. Len(R) : Inserted(R[i]) /\ R[i].new \notin Sets \cup Remembers \cup Leaks
  <2> HIDE DEF E, R
  <2>1. ASSUME NEW i \in 1 .. Len(E) PROVE E[i].new \notin Drops \cup Remembers \cup Leaks
    BY <1>1, <1>2
  <2>2. ASSUME NEW i \in 1 .. Len(R) PROVE R[i].new \notin Sets \cup Remembers \cup Leaks
    BY <1>1, <1>2
  <2> QED BY <1>2, <2>1, <2>2
<1>4. Once(E, Sets) /\ Once(R, Drops)
  <2>1. ASSUME NEW S, OneRule(Rules, S), NEW where, \A r \in ToSet(Rules) : r.new \in S => r.where = where
        PROVE  Once(Placed(where, f), S)
    <3>1. PICK k \in 1 .. Len(Rules) :
            /\ Rules[k].new \in S /\ Rules[k].in = "*"
            /\ \A j \in 1 .. Len(Rules) : Rules[j].new \in S => j = k
      BY <2>1 DEF OneRule
    <3>2. Rules[k].where = where /\ AppliesIn(Rules[k], f)
      <4>1. Rules[k] \in ToSet(Rules)
        BY <1>1, PhaseType
      <4> QED BY <2>1, <3>1, <4>1 DEF AppliesIn
    <3> QED BY <1>1, <3>1, <3>2, PlacedOnce
  <2> QED BY <1>1, <2>1
<1>5. WithFrame(f) = Reverse(E) \o FlattenSeq(b) /\ WithFrame(f) \in Seq(T)
  BY <1>1, FrameKeeps DEF WithFrame
<1>6. c \in Seq(T) /\ \A i \in 1 .. Len(c) : ~Inserted(c[i]) /\ c[i].new = "none"
  OBVIOUS
<1>7. Reverse(E) \in Seq(T) /\ Once(Reverse(E), Sets)
      /\ \A i \in 1 .. Len(Reverse(E)) :
           Inserted(Reverse(E)[i]) /\ Reverse(E)[i].new \notin Drops \cup Remembers \cup Leaks
  <2> HIDE DEF E, T
  <2>1. /\ Reverse(E) \in Seq(T) /\ Len(Reverse(E)) = Len(E)
        /\ \A i \in 1 .. Len(E) : \E j \in 1 .. Len(E) : Reverse(E)[i] = E[j]
    BY <1>2, ReverseType
  <2>2. Once(Reverse(E), Sets)
    BY <1>2, <1>4, ReverseOnce
  <2> QED BY <1>3, <2>1, <2>2
<1> DEFINE A == Reverse(E)
<1> HIDE DEF E, R, T, c, A
<1>8. DOMAIN c = 1 .. Len(c) /\ Len(c) \in Nat /\ \A i \in 1 .. Len(c) : c[i] \in T
  BY <1>6
<1>9. \A i \in 1 .. Len(c) : b[i] = IF c[i].op = "ret" THEN Append(R, c[i]) ELSE <<c[i]>>
  BY <1>8
<1>10. b \in Seq(Seq(T)) /\ Len(b) = Len(c)
  <2>1. b = [i \in 1 .. Len(c) |-> b[i]]
    BY <1>8
  <2>2. \A i \in 1 .. Len(c) : b[i] \in Seq(T)
    <3> SUFFICES ASSUME NEW i \in 1 .. Len(c) PROVE b[i] \in Seq(T)
      OBVIOUS
    <3>1. Append(R, c[i]) \in Seq(T) /\ <<c[i]>> \in Seq(T)
      BY <1>2, <1>8
    <3> HIDE DEF b
    <3> QED BY <1>9, <3>1
  <2> HIDE DEF b
  <2>3. b \in Seq(Seq(T))
    BY <1>8, <2>1, <2>2, IsASeq
  <2> QED BY <1>8, <2>1, <2>3
<1> HIDE DEF b
<1> DEFINE B == FlattenSeq(b)
<1>11. B \in Seq(T)
  BY <1>10, FlattenType
<1>12. Closed(B)
  <2>1. NoneOf(R, Leaks)
    BY <1>3 DEF NoneOf
  <2> QED BY <1>2, <1>3, <1>4, <1>6, <1>9, <1>10, <2>1, ReturnsClosed
<1>13. \A k \in 1 .. Len(B) : B[k].new \notin Sets
  <2>1. ASSUME NEW i \in 1 .. Len(c)
        PROVE  \E a \in Seq(T) : b[i] = Append(a, c[i])
                 /\ \A x \in 1 .. Len(a) : Inserted(a[x]) /\ a[x].new \notin Sets
    <3>1. CASE c[i].op = "ret"
      BY <1>2, <1>3, <1>9, <3>1
    <3>2. CASE c[i].op # "ret"
      <4>1. b[i] = Append(<<>>, c[i])
        <5>1. b[i] = <<c[i]>>
          BY <1>9, <3>2
        <5>2. <<c[i]>> = Append(<<>>, c[i])
          OBVIOUS
        <5> QED BY <5>1, <5>2
      <4>2. <<>> \in Seq(T) /\ \A x \in 1 .. Len(<<>>) : Inserted(<<>>[x]) /\ <<>>[x].new \notin Sets
        OBVIOUS
      <4> QED BY <4>1, <4>2
    <3> QED BY <3>1, <3>2
  <2>2. PICK m : Grown(c, B, m, Sets)
    BY <1>6, <1>10, <2>1, GrownFlatten
  <2>3. ASSUME NEW k \in 1 .. Len(B), NEW i \in 1 .. Len(c), m[i] = k PROVE B[k].new \notin Sets
    <3>1. B[k] = c[i]
      BY <2>2, <2>3 DEF Grown
    <3> QED BY <1>6, <3>1 DEF Sets
  <2> QED BY <2>2, <2>3 DEF Grown
<1> HIDE DEF B
<1>14. Opened(A \o B)
  <2> DEFINE d == A \o B
  <2>1. /\ Len(A) \in Nat /\ Len(B) \in Nat /\ Len(d) = Len(A) + Len(B)
        /\ \A j \in 1 .. Len(A) : d[j] = A[j]
        /\ \A j \in 1 .. Len(B) : d[Len(A) + j] = B[j]
    BY <1>7, <1>11 DEF A
  <2> HIDE DEF d
  <2>2. PICK s \in 1 .. Len(A) :
          A[s].new \in Sets /\ \A j \in 1 .. Len(A) : A[j].new \in Sets => j = s
    BY <1>7 DEF Once, A
  <2>3. \A j \in 1 .. Len(d) : d[j].new \in Sets => j = s
    <3> SUFFICES ASSUME NEW j \in 1 .. Len(d), d[j].new \in Sets PROVE j = s
      OBVIOUS
    <3>1. CASE j \in 1 .. Len(A)
      BY <2>1, <2>2, <3>1
    <3>2. CASE j \notin 1 .. Len(A)
      <4>1. j - Len(A) \in 1 .. Len(B) /\ j = Len(A) + (j - Len(A))
        BY <2>1, <3>2
      <4> QED BY <1>13, <2>1, <4>1
    <3> QED BY <3>1, <3>2
  <2>4. \A j \in 1 .. s : j \in 1 .. Len(A)
    BY <2>1
  <2>5. \A j \in 1 .. s : Inserted(d[j]) /\ d[j].new \notin Remembers
    BY <1>7, <2>1, <2>4 DEF A
  <2>6. s \in 1 .. Len(d)
    BY <2>1
  <2> QED BY <2>1, <2>2, <2>3, <2>5, <2>6 DEF Opened, d
<1>15. Closed(A \o B)
  <2>1. \A i \in 1 .. Len(A) : Inserted(A[i]) /\ A[i].new \notin Drops \cup Leaks
    BY <1>7 DEF A
  <2>2. Grown(B, B, [i \in 1 .. Len(B) |-> i], Drops \cup Leaks)
    BY <1>11, GrownSame
  <2>3. A \in Seq(T)
    BY <1>7 DEF A
  <2>4. PICK m : Grown(B, A \o B, m, Drops \cup Leaks)
    BY <1>11, <2>1, <2>2, <2>3, GrownPrefix
  <2> DEFINE d == A \o B
  <2>5. d \in Seq(T)
    BY <1>11, <2>3
  <2> HIDE DEF d
  <2>6. Grown(B, d, m, Drops)
    BY <2>4 DEF Grown, d
  <2>7. \A k \in 1 .. Len(d) : ~ ((\A i \in 1 .. Len(B) : m[i] # k) /\ d[k].new \in Leaks)
    BY <2>4 DEF Grown, d
  <2>8. Closed(d)
    BY <1>11, <1>12, <2>5, <2>6, <2>7, ClosedGrown DEF B
  <2> QED BY <2>8 DEF d
<1> QED BY <1>5, <1>14, <1>15 DEF Bracketed, A, B

(* Where a function has its frame once and for all.                        *)
Unframed(n) == phase = 1 /\ (fun < n \/ (fun = n /\ pos = 0))

LEMMA BracketGrown ==
  ASSUME NEW T, NEW c \in Seq(T), NEW d \in Seq(T), NEW m, Grown(c, d, m, Framers), Bracketed(c)
  PROVE  Bracketed(d)
<1>1. Grown(c, d, m, Sets) /\ Grown(c, d, m, Drops)
  BY DEF Grown, Framers
<1>2. \A k \in 1 .. Len(d) : (\A i \in 1 .. Len(c) : m[i] # k) =>
        d[k].new \notin Remembers /\ d[k].new \notin Leaks
  BY DEF Grown, Framers
<1>3. Opened(c) /\ Closed(c)
  BY DEF Bracketed
<1>4. Opened(d)
  BY <1>1, <1>2, <1>3, OpenedGrown
<1>5. Closed(d)
  BY <1>1, <1>2, <1>3, ClosedGrown
<1> QED BY <1>4, <1>5 DEF Bracketed

(* A rule puts its call next to an instruction of the program.             *)
LEMMA BracketInsert ==
  ASSUME NEW T, NEW c \in Seq(T), Bracketed(c), NEW at \in 1 .. Len(c), ~Inserted(c[at]),
         NEW p \in {at, at + 1}, NEW e \in T, Inserted(e), e.new \notin Sets \cup Drops,
         e.new \in Leaks => p = at
  PROVE  Bracketed(InsertAt(c, p, e))
<1> DEFINE d == InsertAt(c, p, e)  m == Shifted(Len(c), p)
<1>1. Len(c) \in Nat /\ p \in 1 .. Len(c) + 1 /\ at \in Nat /\ p \in Nat
  OBVIOUS
<1>2. d \in Seq(T) /\ Len(d) = Len(c) + 1 /\ d[p] = e
  <2>1. ~ (p < p)
    BY <1>1
  <2> QED BY <1>1, <2>1, InsertPlaces
<1>3. Grown(c, d, m, Sets) /\ Grown(c, d, m, Drops)
  BY <1>1, GrownInsert
<1>4. \A i \in 1 .. Len(c) : m[i] = IF i < p THEN i ELSE i + 1
  BY DEF Shifted
<1> HIDE DEF d, m
<1>5. ASSUME NEW k \in 1 .. Len(d), \A i \in 1 .. Len(c) : m[i] # k PROVE k = p
  <2>1. CASE k < p
    <3>1. k \in 1 .. Len(c)
      BY <1>1, <1>2, <2>1
    <3> QED BY <1>4, <1>5, <2>1, <3>1
  <2>2. CASE k > p
    <3> DEFINE i == k - 1
    <3>1. i \in 1 .. Len(c) /\ ~ (i < p) /\ i + 1 = k
      BY <1>1, <1>2, <2>2
    <3> HIDE DEF i
    <3> QED BY <1>4, <1>5, <3>1
  <2> QED BY <1>1, <2>1, <2>2
<1>6. m[at] <= p + 1 /\ (p = at => m[at] = p + 1)
  BY <1>1, <1>4
<1>7. Opened(c) /\ Closed(c)
  BY DEF Bracketed
<1>8. Opened(d)
  <2>1. ASSUME NEW k \in 1 .. Len(d), \A i \in 1 .. Len(c) : m[i] # k, d[k].new \in Remembers
        PROVE  \E i \in 1 .. Len(c) : ~Inserted(c[i]) /\ m[i] <= k + 1
    BY <1>5, <1>6, <2>1
  <2> QED BY <1>2, <1>3, <1>7, <2>1, OpenedGrown
<1>9. Closed(d)
  <2>1. ASSUME NEW k \in 1 .. Len(d), \A i \in 1 .. Len(c) : m[i] # k, d[k].new \in Leaks
        PROVE  \E i \in 1 .. Len(c) : ~Inserted(c[i]) /\ m[i] = k + 1
    BY <1>2, <1>5, <1>6, <2>1
  <2> QED BY <1>2, <1>3, <1>7, <2>1, ClosedGrown
<1> QED BY <1>8, <1>9 DEF Bracketed, d

LEMMA BracketApplied ==
  ASSUME CodeInv, CodeInv', FrameRules, Standard, checkInstruction,
         checkConditions(Rules[NextRule], ins.val), outcome' # "failed", Bracketed(code[F])
  PROVE  /\ \A f \in ToSet(Functions) : f # F => code'[f] = code[f]
         /\ Bracketed(code'[F])
<1> DEFINE rw == Rules[NextRule]  e == Call(rw.new, ins.val)  c == code[F]
           p == IF rw.where = "before" THEN pos ELSE pos + 1
<1>1. applyRule(rw)
  BY DEF checkInstruction
<1>2. /\ c \in Seq(Linkable) /\ Len(c) \in Nat /\ pos \in 1 .. Len(c) /\ ~Inserted(c[pos])
      /\ F \in ToSet(Functions) /\ phase \in 1 .. Len(Phases)
      /\ Matches(rw) /\ rw \in ToSet(Rules)
  BY CheckFacts
<1>3. e \in Linkable /\ Inserted(e) /\ e.new = rw.new
  BY <1>1, AppliedType DEF Inserted, Call
<1>4. code \in [ToSet(Functions) -> Seq(Linkable)]
  BY DEF CodeInv, CodeType
<1>5. code' = [code EXCEPT ![F] = InsertAt(c, p, e)]
  BY <1>1 DEF applyRule
<1>6. p \in {pos, pos + 1} /\ (rw.where = "before" => p = pos)
  OBVIOUS
<1>7. rw.new \notin Sets \cup Drops /\ (rw.new \in Leaks => rw.where = "before")
  <2>1. rw.where \notin {"entry", "return"}
    BY <1>2 DEF Matches
  <2>2. rw \in ToSet(Phases[phase].rules)
    BY <1>2 DEF Rules
  <2> HIDE DEF rw
  <2>3. /\ rw.new \in Sets => rw.where = "entry"
        /\ rw.new \in Drops => rw.where = "return"
        /\ rw.new \in Leaks => rw.where = "before"
    BY <1>2, <2>2, FrameSetup DEF CodeInv
  <2> QED BY <2>1, <2>3
<1> HIDE DEF p, e, c, rw
<1>8. Bracketed(InsertAt(c, p, e))
  BY <1>2, <1>3, <1>6, <1>7, BracketInsert DEF c
<1> QED BY <1>2, <1>4, <1>5, <1>8

LEMMA FrameStays ==
  ASSUME CodeInv, CodeInv', FrameRules, Standard, [Next]_vars, outcome' # "failed",
         NEW n \in 1 .. Len(Functions), ~Unframed(n), Bracketed(code[Functions[n]])
  PROVE  Bracketed(code'[Functions[n]])
<1> DEFINE f == Functions[n]
<1>1. /\ f \in ToSet(Functions) /\ code[f] \in Seq(Linkable) /\ code'[f] \in Seq(Linkable)
      /\ n \in Nat
  <2>1. f \in ToSet(Functions) /\ code[f] \in Seq(Linkable) /\ n \in Nat
    BY FunctionAt
  <2>2. Linkable' = Linkable
    BY InputFixed, InputStays
  <2>3. code' \in [ToSet(Functions) -> Seq(Linkable)]
    BY <2>2 DEF CodeInv, CodeType
  <2> QED BY <2>1, <2>3
<1>2. CASE PlacesNone(Framers)
  <2>1. 1 \in 1 .. Len(Phases)
    BY FrameSetup DEF CodeInv
  <2>2. PICK m : Advances(1, Framers, n, m)
    BY <1>2, <2>1, StepAdvances
  <2>3. Grown(code[f], code'[f], m, Framers)
    BY <2>2 DEF Advances
  <2> QED BY <1>1, <2>3, BracketGrown
<1>3. CASE checkInstruction /\ checkConditions(Rules[NextRule], ins.val)
  <2>1. CASE f = F
    BY <1>3, <2>1, BracketApplied
  <2>2. CASE f # F
    <3>1. \A h \in ToSet(Functions) : h # F => code'[h] = code[h]
      BY <1>3, AppliedCode
    <3> QED BY <1>1, <2>2, <3>1
  <2> QED BY <2>1, <2>2
<1>4. CASE instrumentFunction /\ phase = 1
  <2>1. fun \in Nat /\ pos = 0 /\ fun \in 1 .. Len(Functions)
    BY <1>4, CodeFacts DEF instrumentFunction, InFunction
  <2>2. n # fun
    BY <1>1, <1>4, <2>1 DEF Unframed
  <2>3. f # F
    BY <2>1, <2>2, DifferentFunctions DEF F
  <2>4. code'[f] = code[f]
    <3>1. code' = [code EXCEPT ![F] = WithFrame(F)]
      BY <1>4 DEF instrumentFunction
    <3> QED BY <1>1, <2>3, <3>1 DEF CodeInv, CodeType
  <2> QED BY <2>4
<1>5. PlacesNone(Framers) \/ (checkInstruction /\ checkConditions(Rules[NextRule], ins.val))
        \/ (instrumentFunction /\ phase = 1)
  <2> SUFFICES ASSUME ~ (checkInstruction /\ checkConditions(Rules[NextRule], ins.val)),
                      ~ (instrumentFunction /\ phase = 1)
               PROVE  PlacesNone(Framers)
    OBVIOUS
  <2>1. instrumentGlobals => Phases[phase].globals.new \notin Framers
    <3>1. ASSUME instrumentGlobals PROVE phase \in 1 .. Len(Phases)
      <4>1. phase <= Len(Phases)
        BY <3>1 DEF instrumentGlobals, Runs
      <4> QED BY <4>1, CodeFacts
    <3> QED BY <3>1, FrameSetup DEF CodeInv
  <2>2. ASSUME instrumentFunction, NEW r \in ToSet(Rules), r.where \in {"entry", "return"}
        PROVE  r.new \notin Framers
    <3>1. phase \in 1 .. Len(Phases) /\ phase # 1
      BY <2>2, CodeFacts DEF instrumentFunction, InFunction, Runs
    <3>2. /\ r.new \in Sets => phase = 1
          /\ r.new \in Drops => phase = 1
          /\ r.new \in Remembers => r.where \in {"before", "after"}
          /\ r.new \in Leaks => r.where = "before"
      BY <2>2, <3>1, FrameSetup DEF CodeInv, Rules
    <3> QED BY <2>2, <3>1, <3>2 DEF Framers
  <2> QED BY <2>1, <2>2 DEF PlacesNone
<1> QED BY <1>2, <1>3, <1>4, <1>5

FrameInv ==
  /\ CodeInv /\ DonePast
  /\ Standard => (outcome # "failed" => \A n \in 1 .. Len(Functions) :
       IF Unframed(n)
         THEN \A i \in 1 .. Len(code[Functions[n]]) :
                ~Inserted(code[Functions[n]][i]) /\ code[Functions[n]][i].new = "none"
         ELSE Instruments(Functions[n]) => Bracketed(code[Functions[n]]))

(* While a function waits for its frame its code is that of the program.   *)
LEMMA UnframedSame ==
  ASSUME CodeInv, FrameRules, Standard, [Next]_vars, outcome' # "failed",
         NEW n \in 1 .. Len(Functions), Unframed(n)'
  PROVE  Unframed(n) /\ code'[Functions[n]] = code[Functions[n]]
<1>1. /\ phase \in Nat /\ phase >= 1 /\ fun \in Nat /\ pos \in Nat /\ n \in Nat
      /\ fun <= Len(Functions) + 1 /\ Len(Functions) \in Nat /\ n <= Len(Functions)
  BY CodeFacts
<1>2. phase' = 1 /\ (fun' < n \/ (fun' = n /\ pos' = 0))
  BY DEF Unframed
<1>3. code \in [ToSet(Functions) -> Seq(Linkable)] /\ Functions[n] \in ToSet(Functions)
  BY FunctionAt DEF CodeInv, CodeType
<1>4. CASE instrumentFunction
  <2>1. /\ code' = [code EXCEPT ![F] = WithFrame(F)] /\ pos' = 1 /\ fun' = fun /\ phase' = phase
        /\ fun <= Len(Functions)
    BY <1>4 DEF instrumentFunction, InFunction, Stay
  <2>2. fun < n /\ fun \in 1 .. Len(Functions)
    BY <1>1, <1>2, <2>1, CodeFacts
  <2>3. Functions[n] # F
    BY <1>1, <2>2, DifferentFunctions DEF F
  <2> QED BY <1>2, <1>3, <2>1, <2>2, <2>3 DEF Unframed
<1>5. CASE checkInstruction
  <2>1. /\ phase' = phase /\ fun' = fun /\ fun \in 1 .. Len(Functions) /\ pos \in 1 .. Len(code[F])
        /\ Len(code[F]) \in Nat /\ F \in ToSet(Functions) /\ code[F] \in Seq(Linkable)
    BY <1>5, CheckFacts
  <2>2. pos' >= 1
    <3>1. pos' = pos \/ pos' = pos + 1
      BY <1>5 DEF checkInstruction, applyRule
    <3> QED BY <2>1, <3>1
  <2>3. fun < n
    BY <1>1, <1>2, <2>1, <2>2
  <2>4. Functions[n] # F
    BY <1>1, <2>1, <2>3, DifferentFunctions DEF F
  <2>5. code'[Functions[n]] = code[Functions[n]]
    <3>1. code' = code \/ \E e : code' = [code EXCEPT ![F] = e]
      BY <1>5 DEF checkInstruction, applyRule
    <3> QED BY <1>3, <2>4, <3>1
  <2> QED BY <1>2, <2>1, <2>3, <2>5 DEF Unframed
<1>6. CASE instrumentGlobals
  <2>1. phase' = phase + 1
    BY <1>6 DEF instrumentGlobals
  <2> QED BY <1>1, <1>2, <2>1
<1>7. CASE omitFunction \/ nextFunction
  <2>1. code' = code /\ phase' = phase /\ fun' = fun + 1
    BY <1>7 DEF omitFunction, nextFunction
  <2> QED BY <1>1, <1>2, <2>1 DEF Unframed
<1>8. CASE nextInstruction
  <2>1. code' = code /\ phase' = phase /\ fun' = fun /\ pos' = pos + 1
    BY <1>8 DEF nextInstruction, Stay
  <2> QED BY <1>1, <1>2, <2>1 DEF Unframed
<1>9. CASE finish \/ UNCHANGED vars
  <2>1. code' = code /\ phase' = phase /\ fun' = fun /\ pos' = pos
    BY <1>9 DEF finish, vars
  <2> QED BY <1>2, <2>1 DEF Unframed
<1> QED BY <1>4, <1>5, <1>6, <1>7, <1>8, <1>9 DEF Next

(* A function is framed when the first phase comes to it.                  *)
LEMMA FramedThen ==
  ASSUME CodeInv, CodeInv', FrameRules, Standard, FrameInv, [Next]_vars, outcome' # "failed",
         NEW n \in 1 .. Len(Functions), Unframed(n), ~Unframed(n)', Instruments(Functions[n])
  PROVE  Bracketed(code'[Functions[n]])
<1>1. /\ phase = 1 /\ fun \in Nat /\ pos \in Nat /\ n \in Nat /\ Len(Functions) \in Nat
      /\ n <= Len(Functions) /\ fun <= Len(Functions) + 1 /\ fun >= 1
  BY CodeFacts DEF Unframed
<1>2. fun < n \/ (fun = n /\ pos = 0)
  BY DEF Unframed
<1>3. ~ (phase' = 1 /\ (fun' < n \/ (fun' = n /\ pos' = 0)))
  BY DEF Unframed
<1>4. CASE instrumentFunction
  <2>1. fun' = fun /\ phase' = phase /\ pos = 0 /\ fun <= Len(Functions)
    BY <1>4 DEF instrumentFunction, InFunction, Stay
  <2>2. fun = n
    BY <1>1, <1>2, <1>3, <2>1
  <2>3. F = Functions[n] /\ F \in ToSet(Functions) /\ code[F] \in Seq(Linkable)
    BY <2>2, FunctionAt DEF F
  <2>4. /\ {c.new : c \in ToSet(Placed("entry", F) \o Placed("return", F))} \subseteq Definitions
        /\ code' = [code EXCEPT ![F] = WithFrame(F)]
    BY <1>4 DEF instrumentFunction
  <2>5. \A i \in 1 .. Len(code[F]) : ~Inserted(code[F][i]) /\ code[F][i].new = "none"
    <3>1. outcome # "failed"
      BY <1>4 DEF instrumentFunction, InFunction, Runs
    <3> QED BY <2>3, <3>1 DEF FrameInv
  <2>6. Bracketed(WithFrame(F))
    BY <1>1, <2>3, <2>4, <2>5, FrameBrackets DEF CodeInv
  <2>7. code'[F] = WithFrame(F)
    BY <2>3, <2>4 DEF CodeInv, CodeType
  <2> QED BY <2>3, <2>6, <2>7
<1>5. CASE omitFunction
  <2>1. fun' = fun + 1 /\ phase' = phase /\ pos' = pos /\ pos = 0 /\ ~Instruments(F)
    BY <1>5 DEF omitFunction
  <2>2. fun = n
    BY <1>1, <1>2, <1>3, <2>1
  <2> QED BY <2>1, <2>2 DEF F
<1>6. CASE nextFunction
  <2>1. fun' = fun + 1 /\ phase' = phase /\ pos' = 0 /\ pos > Len(code[F]) /\ fun <= Len(Functions)
    BY <1>6 DEF nextFunction, InFunction
  <2>2. Len(code[F]) \in Nat
    BY <2>1, CodeFacts
  <2> QED BY <1>1, <1>2, <1>3, <2>1, <2>2
<1>7. CASE instrumentGlobals
  <2>1. fun > Len(Functions)
    BY <1>7 DEF instrumentGlobals
  <2> QED BY <1>1, <1>2, <2>1
<1>8. CASE checkInstruction
  <2>1. fun' = fun /\ phase' = phase /\ pos \in 1 .. Len(code[F]) /\ Len(code[F]) \in Nat
    BY <1>8, CheckFacts
  <2> QED BY <1>1, <1>2, <1>3, <2>1
<1>9. CASE nextInstruction
  <2>1. fun' = fun /\ phase' = phase /\ pos \in 1 .. Len(code[F]) /\ fun <= Len(Functions)
    BY <1>9 DEF nextInstruction, Stay, InFunction
  <2>2. Len(code[F]) \in Nat
    BY <2>1, CodeFacts
  <2> QED BY <1>1, <1>2, <1>3, <2>1, <2>2
<1>10. CASE finish \/ UNCHANGED vars
  <2>1. phase' = phase /\ fun' = fun /\ pos' = pos
    BY <1>10 DEF finish, vars
  <2> QED BY <1>1, <1>2, <1>3, <2>1
<1> QED BY <1>4, <1>5, <1>6, <1>7, <1>8, <1>9, <1>10 DEF Next

LEMMA FrameInductive ==
  ASSUME FrameRules, FrameInv, [Next]_vars
  PROVE  FrameInv'
<1>1. CodeInv /\ CodeInv' /\ DonePast'
  BY CodeInductive, DonePastStays DEF FrameInv
<1>2. UNCHANGED input /\ (\A f : Instruments(f)' = Instruments(f)) /\ setup' = setup
  BY InputFixed, InputStays
<1>3. ASSUME Standard', outcome' # "failed", NEW n \in 1 .. Len(Functions)
      PROVE  IF Unframed(n)'
               THEN \A i \in 1 .. Len(code'[Functions[n]]) :
                 ~Inserted(code'[Functions[n]][i]) /\ code'[Functions[n]][i].new = "none"
               ELSE Instruments(Functions[n]) => Bracketed(code'[Functions[n]])
  <2>1. Standard
    BY <1>2, <1>3 DEF Standard
  <2>2. outcome # "failed"
    BY <1>3 DEF Next, instrumentFunction, omitFunction, checkInstruction, nextInstruction,
                nextFunction, instrumentGlobals, finish, InFunction, Runs, vars
  <2>3. CASE Unframed(n)'
    <3>1. Unframed(n) /\ code'[Functions[n]] = code[Functions[n]]
      BY <1>1, <1>3, <2>1, <2>3, UnframedSame
    <3> QED BY <2>1, <2>2, <2>3, <3>1 DEF FrameInv
  <2>4. CASE ~Unframed(n)' /\ Unframed(n)
    BY <1>1, <1>3, <2>1, <2>4, FramedThen
  <2>5. CASE ~Unframed(n)' /\ ~Unframed(n)
    <3>1. Instruments(Functions[n]) => Bracketed(code[Functions[n]])
      BY <2>1, <2>2, <2>5 DEF FrameInv
    <3> QED BY <1>1, <1>3, <2>1, <2>5, <3>1, FrameStays
  <2> QED BY <2>3, <2>4, <2>5
<1> QED BY <1>1, <1>2, <1>3 DEF FrameInv

LEMMA WatchedCalls ==
  ASSUME NEW f, code[f] \in Seq(Linkable), NEW i \in DOMAIN code[f], NEW new
  PROVE  Gap(f, i) \cap CallsIn(f, new) = Watched(code[f], i, {new})
<1>1. Len(code[f]) \in Nat /\ DOMAIN code[f] = 1 .. Len(code[f]) /\ i \in 1 .. Len(code[f])
  OBVIOUS
<1>2. \A j \in 1 .. i - 1 : j \in DOMAIN code[f]
  BY <1>1
<1> QED BY <1>2 DEF Gap, CallsIn, Watched, Inserted

LEMMA FrameInvFrames ==
  ASSUME FrameRules, FrameInv
  PROVE  FrameBracket
<1> SUFFICES ASSUME outcome = "done", Standard, NEW f \in Instrumented
             PROVE  /\ Cardinality(CallsIn(f, "__INSTR_set_flag")) = 1
                    /\ \A i \in CallsIn(f, "__INSTR_set_flag"), j \in CallsIn(f, "__INSTR_remember") :
                         i < j
                    /\ \A i \in DOMAIN code[f] : code[f][i].op = "ret" =>
                         LET drops == Gap(f, i) \cap CallsIn(f, "__INSTR_destroy_allocas")
                         IN  /\ Cardinality(drops) = 1
                             /\ \A d \in drops,
                                   l \in Gap(f, i) \cap CallsIn(f, "__INSTR_check_leaks") : d < l
  BY DEF FrameBracket, Done, Standard
<1> DEFINE c == code[f]
<1>1. CodeInv /\ phase > Len(Phases) /\ phase \in Nat /\ Len(Phases) \in Nat
  BY CodeFacts DEF FrameInv, DonePast
<1>2. f \in ToSet(Functions) /\ Instruments(f)
  BY DEF Instrumented
<1>3. PICK n \in 1 .. Len(Functions) : Functions[n] = f
  BY <1>2, FunctionPlace
<1>4. c \in Seq(Linkable) /\ Len(c) \in Nat /\ DOMAIN c = 1 .. Len(c)
  <2>1. c \in Seq(Linkable)
    BY <1>1, <1>2 DEF CodeInv, CodeType
  <2> QED BY <2>1
<1>5. Opened(c) /\ Closed(c)
  <2>1. 1 \in 1 .. Len(Phases)
    BY <1>1, FrameSetup DEF CodeInv
  <2>2. ~Unframed(n)
    BY <1>1, <2>1 DEF Unframed
  <2> QED BY <1>2, <1>3, <2>2 DEF FrameInv, Bracketed
<1>6. PICK s \in 1 .. Len(c) :
        /\ c[s].new \in Sets /\ \A j \in 1 .. Len(c) : c[j].new \in Sets => j = s
        /\ \A j \in 1 .. s : Inserted(c[j]) /\ c[j].new \notin Remembers
  BY <1>5 DEF Opened
<1>7. CallsIn(f, "__INSTR_set_flag") = {s}
  BY <1>4, <1>6 DEF CallsIn, Sets
<1>8. \A i \in CallsIn(f, "__INSTR_set_flag"), j \in CallsIn(f, "__INSTR_remember") : i < j
  <2> SUFFICES ASSUME NEW j \in CallsIn(f, "__INSTR_remember") PROVE s < j
    BY <1>7
  <2>1. j \in 1 .. Len(c) /\ c[j].new \in Remembers
    BY <1>4 DEF CallsIn, Remembers
  <2>2. j \notin 1 .. s
    BY <1>6, <2>1
  <2> QED BY <1>4, <2>1, <2>2
<1>9. ASSUME NEW i \in DOMAIN c, c[i].op = "ret"
      PROVE  LET drops == Gap(f, i) \cap CallsIn(f, "__INSTR_destroy_allocas")
             IN  /\ Cardinality(drops) = 1
                 /\ \A d \in drops, l \in Gap(f, i) \cap CallsIn(f, "__INSTR_check_leaks") : d < l
  <2>1. Dropped(c, i)
    BY <1>4, <1>5, <1>9 DEF Closed, Inserted
  <2>2. PICK d \in Watched(c, i, Drops) :
          /\ \A k \in Watched(c, i, Drops) : k = d
          /\ \A l \in Watched(c, i, Leaks) : d < l
    BY <2>1 DEF Dropped
  <2>3. /\ Gap(f, i) \cap CallsIn(f, "__INSTR_destroy_allocas") = Watched(c, i, Drops)
        /\ Gap(f, i) \cap CallsIn(f, "__INSTR_check_leaks") = Watched(c, i, Leaks)
    BY <1>4, WatchedCalls DEF Drops, Leaks
  <2>4. Watched(c, i, Drops) = {d}
    BY <2>2
  <2>5. Cardinality(Watched(c, i, Drops)) = 1
    BY <2>4, FS_Singleton
  <2> QED BY <2>2, <2>3, <2>4, <2>5
<1>10. Cardinality(CallsIn(f, "__INSTR_set_flag")) = 1
  BY <1>7, FS_Singleton
<1> QED BY <1>8, <1>9, <1>10

(* With memsafety/config.json every instrumented function sets its flag    *)
(* once, before it registers anything, and in front of each return drops   *)
(* its frame once, and only then looks for leaks: for any program and any  *)
(* number of phases, whatever else their rules insert                      *)
(* (instr.cpp:360-399, 1125-1191).                                         *)
THEOREM FramesAreBracketed ==
  ASSUME FrameRules
  PROVE  Spec => []FrameBracket
<1>1. Init => FrameInv
  <2> SUFFICES ASSUME Init PROVE FrameInv
    OBVIOUS
  <2>1. CodeInv /\ outcome = "running" /\ phase = 1 /\ fun = 1 /\ pos = 0
    BY CodeInit DEF Init
  <2>2. ASSUME NEW n \in 1 .. Len(Functions)
        PROVE  /\ Unframed(n)
               /\ \A i \in 1 .. Len(code[Functions[n]]) :
                    ~Inserted(code[Functions[n]][i]) /\ code[Functions[n]][i].new = "none"
    <3>1. Unframed(n)
      BY <2>1, FunctionAt DEF Unframed
    <3>2. code[Functions[n]] \in Seq(Original)
      BY FunctionAt, ProgramAssumption DEF Init
    <3>3. \A i \in 1 .. Len(code[Functions[n]]) : code[Functions[n]][i] \in Original
      BY <3>2
    <3> QED BY <3>1, <3>3 DEF Original, Inserted
  <2> QED BY <2>1, <2>2 DEF FrameInv, DonePast
<1>2. FrameInv /\ [Next]_vars => FrameInv'
  BY FrameInductive
<1>3. FrameInv => FrameBracket
  BY FrameInvFrames
<1> QED BY <1>1, <1>2, <1>3, PTL DEF Spec
=============================================================================
