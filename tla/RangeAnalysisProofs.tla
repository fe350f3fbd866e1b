------------------------ MODULE RangeAnalysisProofs -------------------------
(***************************************************************************)
(* Theorems of RangeAnalysis for every function and every width: the       *)
(* ranges stay intervals of the width; the order of the components makes   *)
(* them final; none is left unknown; and the lists of update run empty     *)
(* only where no operation would change its sink.                          *)
(***************************************************************************)
EXTENDS RangeAnalysis, WellFoundedInduction, TLAPS

-----------------------------------------------------------------------------
(***************************************************************************)
(* Values: the proofs go by least counterexample.                          *)
(***************************************************************************)
LEMMA LeastOfNats ==
  ASSUME NEW S, S \subseteq Nat, S # {}
  PROVE  \E m \in S : \A y \in S : m <= y
<1>1. PICK m \in S : \A y \in S : ~ (<<y, m>> \in OpToRel(<, Nat))
  BY NatLessThanWellFounded, WFMin
<1>2. \A y \in S : m <= y
  <2> TAKE y \in S
  <2>1. ~ (y < m)
    BY <1>1 DEF OpToRel
  <2> QED BY <2>1
<1> QED BY <1>2

(* What holds of 0 and goes from each number to the next holds of all: the *)
(* set of those it does not hold of is empty.                              *)
LEMMA NoneFails ==
  ASSUME NEW n \in Nat, NEW Fails, Fails \subseteq 0 .. n, 0 \notin Fails,
         \A k \in 0 .. n - 1 : k \notin Fails => k + 1 \notin Fails
  PROVE  Fails = {}
<1> SUFFICES ASSUME Fails # {} PROVE FALSE
  OBVIOUS
<1>1. Fails \subseteq Nat
  OBVIOUS
<1>2. PICK m \in Fails : \A y \in Fails : m <= y
  BY <1>1, LeastOfNats
<1>3. m - 1 \in 0 .. n - 1 /\ m - 1 \notin Fails
  BY <1>2
<1>4. (m - 1) + 1 \notin Fails
  BY <1>3
<1> QED BY <1>2, <1>4

(* Quotient and remainder.                                                 *)
LEMMA Division ==
  ASSUME NEW a \in Int, NEW b \in Nat \ {0}
  PROVE  a \div b \in Int /\ a % b \in 0 .. b - 1 /\ a = b * (a \div b) + (a % b)
OBVIOUS

(* The W-bit integers.                                                     *)
LEMMA Scale ==
  /\ W \in Nat /\ W > 1
  /\ Min \in Int /\ Max \in Int /\ Modulus \in Nat \ {0}
  /\ Modulus = (Max - Min) + 1 /\ Max = -Min - 1 /\ Min < -1 /\ Max > 0
<1> DEFINE h == 2 ^ (W - 1)
<1>1. W \in Nat /\ W > 1 /\ W - 1 \in 0 .. 2 * W
  BY WidthAssumption
<1>2. h \in Nat \ {0} /\ 2 ^ W = 2 * h /\ h > 1
  BY <1>1, WidthAssumption
<1>3. Min = -h /\ Max = h - 1 /\ Modulus = 2 * h
  BY <1>2 DEF Min, Max, Modulus
<1> HIDE DEF h
<1> QED BY <1>1, <1>2, <1>3

(* The powers that occur.                                                  *)
LEMMA PowerFacts ==
  /\ \A k \in 0 .. 2 * W : 2 ^ k \in Nat \ {0}
  /\ \A k \in 0 .. W - 1 : 2 ^ k <= Max + 1
BY WidthAssumption, Scale DEF Max

(* The values that the code names.                                         *)
LEMMA SomeValues == 0 \in Values /\ 1 \in Values /\ -1 \in Values /\ Min \in Values /\ Max \in Values
BY Scale DEF Values

(* Values are integers of the scale.                                       *)
LEMMA ValuesAreInts == Values \subseteq Int /\ \A x \in Values : Min <= x /\ x <= Max
BY Scale DEF Values

(* Whatever is kept modulo 2^W is a value.                                 *)
LEMMA WrapValue ==
  ASSUME NEW x \in Int
  PROVE  Wrap(x) \in Values
<1> DEFINE r == (x - Min) % Modulus
<1>1. r \in 0 .. Modulus - 1
  BY Scale
<1>2. Wrap(x) = r + Min
  BY DEF Wrap
<1> HIDE DEF r
<1> QED BY <1>1, <1>2, Scale DEF Values

(* What the unsigned operations see: 0 for 0 only.                         *)
LEMMA UnsignedValue ==
  ASSUME NEW x \in Values
  PROVE  /\ Unsigned(x) \in 0 .. Modulus - 1
         /\ x # 0 => Unsigned(x) > 0
<1>1. Unsigned(x) \in 0 .. Modulus - 1
  BY Scale, ValuesAreInts DEF Unsigned
<1>2. ASSUME x # 0 PROVE Unsigned(x) > 0
  <2> DEFINE u == x % Modulus
  <2>1. x \in Int /\ -Modulus < x /\ x < Modulus /\ Modulus \in Nat \ {0}
    BY Scale, ValuesAreInts
  <2>2. x = Modulus * (x \div Modulus) + u
    BY <2>1
  <2>3. u # 0
    BY <1>2, <2>1, SMTT(30)
  <2> QED BY <1>1, <2>3 DEF Unsigned
<1> QED BY <1>1, <1>2

(* Signed division is defined but for 0.                                   *)
LEMMA QuotientInt ==
  ASSUME NEW x \in Int, NEW y \in Int, y # 0
  PROVE  Quotient(x, y) \in Int
<1>1. Abs(x) \in Nat /\ Abs(y) \in Nat \ {0}
  BY DEF Abs
<1>2. Abs(x) \div Abs(y) \in Int
  BY <1>1
<1> QED BY <1>2 DEF Quotient

(* What the quotient leaves is smaller than the divisor.                   *)
LEMMA RemainderValue ==
  ASSUME NEW x \in Values, NEW y \in Values, y # 0
  PROVE  x - y * Quotient(x, y) \in Values
<1> DEFINE n == Abs(x)
           d == Abs(y)
           q == n \div d
           r == n % d
<1>1. n \in Nat /\ d \in Nat \ {0} /\ d <= Max + 1 /\ x \in Int /\ y \in Int
  BY Scale, ValuesAreInts DEF Abs
<1>2. q \in Int /\ r \in 0 .. d - 1 /\ n = d * q + r
  <2>1. n \in Int /\ d \in Nat \ {0}
    BY <1>1
  <2> HIDE DEF n, d
  <2> QED BY <2>1, Division
<1>3. /\ x < 0 => n = -x
      /\ x >= 0 => n = x
      /\ y < 0 => d = -y
      /\ y >= 0 => d = y
      /\ Quotient(x, y) = IF (x < 0) = (y < 0) THEN q ELSE -q
  BY <1>1 DEF Abs, Quotient
<1> HIDE DEF n, d, q, r
<1>4. x - y * Quotient(x, y) \in {r, -r}
  <2>1. CASE x < 0 /\ y < 0
    BY <1>1, <1>2, <1>3, <2>1
  <2>2. CASE x < 0 /\ ~(y < 0)
    BY <1>1, <1>2, <1>3, <2>2
  <2>3. CASE ~(x < 0) /\ y < 0
    BY <1>1, <1>2, <1>3, <2>3
  <2>4. CASE ~(x < 0) /\ ~(y < 0)
    BY <1>1, <1>2, <1>3, <2>4
  <2> QED BY <2>1, <2>2, <2>3, <2>4
<1> QED BY <1>1, <1>2, <1>4, Scale DEF Values

(* A value shifted to the right is between it and 0 or -1.                 *)
LEMMA ShiftedValue ==
  ASSUME NEW x \in Values, NEW p \in Nat \ {0}
  PROVE  x \div p \in Values
<1> DEFINE q == x \div p
           r == x % p
<1>1. x \in Int /\ q \in Int /\ r \in 0 .. p - 1 /\ x = p * q + r
  BY ValuesAreInts
<1> HIDE DEF q, r
<1>2. ASSUME q > x, x < 0 PROVE q <= -1
  <2>1. CASE q >= 0
    <3>1. p * q >= 0
      BY <1>1, <2>1
    <3> QED BY <1>1, <1>2, <3>1
  <2> QED BY <1>1, <2>1
<1>3. ASSUME x >= 0 PROVE q >= 0 /\ q <= x
  <2>1. q >= 0
    <3> SUFFICES ASSUME q <= -1 PROVE FALSE
      BY <1>1
    <3>1. p * q <= p * (-1)
      BY <1>1
    <3> QED BY <1>1, <1>3, <3>1
  <2>2. p * q >= 1 * q
    BY <1>1, <2>1
  <2> QED BY <1>1, <2>1, <2>2
<1>4. ASSUME x < 0 PROVE q >= x
  <2> SUFFICES ASSUME q <= x - 1 PROVE FALSE
    BY <1>1
  <2>1. p * q <= 1 * q
    BY <1>1, <1>4
  <2>2. r <= p - 1 /\ x = p * q + r
    BY <1>1
  <2>3. (p - 1) * q <= (p - 1) * (-2)
    BY <1>1, <1>4
  <2>4. p * q = (p - 1) * q + q
    BY <1>1
  <2> QED BY <1>1, <1>4, <2>2, <2>3, <2>4
<1>5. q \in Values
  BY <1>1, <1>2, <1>3, <1>4, Scale, ValuesAreInts DEF Values
<1> QED BY <1>5 DEF q

(* The operations on values.                                               *)
LEMMA ValueOps ==
  ASSUME NEW x \in Values, NEW y \in Values
  PROVE  /\ sdivInt(x, y) \in Values /\ sremInt(x, y) \in Values
         /\ udivInt(x, y) \in Values /\ uremInt(x, y) \in Values
         /\ shlInt(x, y) \in Values /\ lshrInt(x, y) \in Values /\ ashrInt(x, y) \in Values
<1> DEFINE a == Unsigned(x)
           b == Unsigned(y)
<1>1. x \in Int /\ y \in Int /\ a \in Nat /\ b \in Nat /\ (y # 0 => b # 0) /\ W \in Nat
  BY ValuesAreInts, UnsignedValue, Scale
<1>2. b < W => 2 ^ b \in Nat \ {0}
  BY <1>1, PowerFacts
<1> HIDE DEF a, b
<1>3. sdivInt(x, y) \in Values
  BY <1>1, QuotientInt, WrapValue, SomeValues DEF sdivInt
<1>4. sremInt(x, y) \in Values
  BY <1>1, RemainderValue, SomeValues DEF sremInt
<1>5. udivInt(x, y) \in Values
  <2>1. y # 0 => a \div b \in Int
    BY <1>1
  <2> QED BY <1>1, <2>1, WrapValue, SomeValues DEF udivInt, a, b
<1>6. uremInt(x, y) \in Values
  <2>1. y # 0 => a % b \in Int
    BY <1>1
  <2> QED BY <1>1, <2>1, WrapValue, SomeValues DEF uremInt, a, b
<1>7. shlInt(x, y) \in Values
  <2>1. b < W => x * 2 ^ b \in Int
    BY <1>1, <1>2
  <2> QED BY <1>1, <2>1, WrapValue, SomeValues DEF shlInt, b
<1>8. lshrInt(x, y) \in Values
  <2>1. b < W => a \div 2 ^ b \in Int
    BY <1>1, <1>2
  <2> QED BY <1>1, <2>1, WrapValue, SomeValues DEF lshrInt, a, b
<1>9. ashrInt(x, y) \in Values
  <2>1. b < W => x \div 2 ^ b \in Values
    BY <1>1, <1>2, ShiftedValue
  <2> QED BY <1>1, <2>1, SomeValues DEF ashrInt, b
<1> QED BY <1>3, <1>4, <1>5, <1>6, <1>7, <1>8, <1>9

-----------------------------------------------------------------------------
(***************************************************************************)
(* Ranges: what each operation of class Range returns.                     *)
(***************************************************************************)
LEMMA LeastValue ==
  ASSUME NEW S, S \subseteq Values, S # {}
  PROVE  Least(S) \in S /\ \A y \in S : Least(S) <= y
<1> DEFINE T == {y - Min : y \in S}
<1>1. S \subseteq Int /\ \A y \in S : Min <= y
  BY ValuesAreInts
<1>2. T \subseteq Nat /\ T # {}
  <2>1. \A y \in S : y - Min \in Nat
    BY <1>1, Scale
  <2> QED BY <2>1
<1>3. PICK m \in T : \A t \in T : m <= t
  BY <1>2, LeastOfNats
<1>4. PICK x \in S : m = x - Min
  OBVIOUS
<1>5. \A y \in S : x <= y
  <2> TAKE y \in S
  <2>1. y - Min \in T
    OBVIOUS
  <2>2. m <= y - Min
    BY <1>3, <2>1
  <2> QED BY <1>1, <1>4, <2>2, Scale
<1> QED BY <1>5 DEF Least

(* And a greatest one.                                                     *)
LEMMA GreatestValue ==
  ASSUME NEW S, S \subseteq Values, S # {}
  PROVE  Greatest(S) \in S /\ \A y \in S : Greatest(S) >= y
<1> DEFINE T == {Max - y : y \in S}
<1>1. S \subseteq Int /\ \A y \in S : y <= Max
  BY ValuesAreInts
<1>2. T \subseteq Nat /\ T # {}
  <2>1. \A y \in S : Max - y \in Nat
    BY <1>1, Scale
  <2> QED BY <2>1
<1>3. PICK m \in T : \A t \in T : m <= t
  BY <1>2, LeastOfNats
<1>4. PICK x \in S : m = Max - x
  OBVIOUS
<1>5. \A y \in S : x >= y
  <2> TAKE y \in S
  <2>1. Max - y \in T
    OBVIOUS
  <2>2. m <= Max - y
    BY <1>3, <2>1
  <2> QED BY <1>1, <1>4, <2>2, Scale
<1> QED BY <1>5 DEF Greatest

(* What an operation leaves of known ranges: a range that is known.        *)
KnownRanges == {r \in RangeRecords : ~isUnknown(r)}

(* The parts of a range.                                                   *)
LEMMA RangeParts ==
  ASSUME NEW r \in RangeRecords
  PROVE  /\ r.l \in Values /\ r.u \in Values
         /\ r.type \in {"Regular", "Unknown", "Empty"}
         /\ r \in KnownRanges <=> ~isUnknown(r)
BY DEF RangeRecords, KnownRanges

(* A range made of two values is known, crossed or not.                    *)
LEMMA RangeOfKnown ==
  ASSUME NEW l \in Values, NEW u \in Values
  PROVE  RangeOf(l, u) \in KnownRanges /\ RangeOf(l, u).l = l /\ RangeOf(l, u).u = u
BY DEF RangeOf, KnownRanges, RangeRecords, isUnknown

(* The ranges that have a name.                                            *)
LEMMA NamedRanges ==
  /\ FullRange \in KnownRanges /\ EmptyRange \in KnownRanges
  /\ UnknownRange \in RangeRecords /\ isUnknown(UnknownRange)
BY SomeValues, RangeOfKnown
   DEF FullRange, EmptyRange, UnknownRange, KnownRanges, RangeRecords, isUnknown

(* So is the span of a set of values.                                      *)
LEMMA SpanKnown ==
  ASSUME NEW S, S \subseteq Values, S # {}
  PROVE  Span(S) \in KnownRanges
<1>1. Least(S) \in Values /\ Greatest(S) \in Values
  BY LeastValue, GreatestValue
<1> QED BY <1>1, RangeOfKnown DEF Span

(* add: a bound at the end of the scale stays there.                       *)
LEMMA AddKnown ==
  ASSUME NEW p \in RangeRecords, NEW q \in RangeRecords
  PROVE  add(p, q) \in KnownRanges
<1>1. p.l \in Values /\ p.u \in Values /\ q.l \in Values /\ q.u \in Values
  BY RangeParts
<1> QED BY <1>1, SomeValues, RangeOfKnown DEF add

(* sub.                                                                    *)
LEMMA SubKnown ==
  ASSUME NEW p \in RangeRecords, NEW q \in RangeRecords
  PROVE  sub(p, q) \in KnownRanges
<1>1. p.l \in Values /\ p.u \in Values /\ q.l \in Values /\ q.u \in Values
  BY RangeParts
<1>2. p.l - q.u \in Int /\ p.u - q.l \in Int
  <2>1. p.l \in Int /\ p.u \in Int /\ q.l \in Int /\ q.u \in Int
    BY <1>1, ValuesAreInts
  <2> QED BY <2>1
<1>3. Wrap(p.l - q.u) \in Values /\ Wrap(p.u - q.l) \in Values
  BY <1>2, WrapValue
<1> QED BY <1>3, SomeValues, RangeOfKnown DEF sub

(* MUL_OV: a product is a value.                                           *)
LEMMA MulValue ==
  ASSUME NEW x \in Values, NEW y \in Values
  PROVE  mulOv(x, y) \in Values
<1>1. Infinite(x, y) \in Values /\ Infinite(y, x) \in Values
  BY SomeValues DEF Infinite
<1>2. x * y \in Int
  BY ValuesAreInts
<1>3. Wrap(x * y) \in Values
  BY <1>2, WrapValue
<1>4. mulHelper(x, y) \in Values
  <2>1. \/ x \in {Min, Max}
        \/ x \notin {Min, Max} /\ y \in {Min, Max}
        \/ {x, y} \cap {Min, Max} = {}
    OBVIOUS
  <2> QED BY <1>1, <1>3, <2>1 DEF mulHelper
<1> DEFINE xy == mulHelper(x, y)
<1>5. /\ (x > 0) = (y > 0) => mulOv(x, y) = IF xy < 0 THEN Max ELSE xy
      /\ (x > 0) # (y > 0) => mulOv(x, y) = IF xy > 0 THEN Min ELSE xy
  BY DEF mulOv
<1> HIDE DEF xy
<1> QED BY <1>4, <1>5, SomeValues DEF xy

(* mul.                                                                    *)
LEMMA MulKnown ==
  ASSUME NEW p \in RangeRecords, NEW q \in RangeRecords
  PROVE  mul(p, q) \in KnownRanges
<1> DEFINE S == {mulOv(x, y) : x \in {p.l, p.u}, y \in {q.l, q.u}}
<1>1. p.l \in Values /\ p.u \in Values /\ q.l \in Values /\ q.u \in Values
  BY RangeParts
<1>2. S \subseteq Values /\ S # {}
  BY <1>1, MulValue
<1>3. mul(p, q) = FullRange \/ mul(p, q) = Span(S)
  BY DEF mul
<1> HIDE DEF S
<1> QED BY <1>2, <1>3, SpanKnown, NamedRanges

(* udiv and sdiv.                                                          *)
LEMMA QuotientsKnown ==
  ASSUME NEW p \in RangeRecords, NEW q \in RangeRecords
  PROVE  udiv(p, q) \in KnownRanges /\ sdiv(p, q) \in KnownRanges
<1> DEFINE z == IF q.l = 0 THEN 1 ELSE q.l
<1>1. p.l \in Values /\ p.u \in Values /\ q.u \in Values /\ z \in Values
  BY RangeParts, SomeValues
<1>2. /\ udivInt(p.l, q.u) \in Values /\ udivInt(p.u, z) \in Values
      /\ sdivInt(p.l, q.u) \in Values /\ sdivInt(p.u, z) \in Values
  <2> HIDE DEF z
  <2> QED BY <1>1, ValueOps
<1>3. udiv(p, q) \in {FullRange, RangeOf(udivInt(p.l, q.u), udivInt(p.u, z))}
  BY DEF udiv, quotients
<1>4. sdiv(p, q) \in {FullRange, RangeOf(sdivInt(p.l, q.u), sdivInt(p.u, z))}
  BY DEF sdiv, quotients
<1> HIDE DEF z
<1> QED BY <1>2, <1>3, <1>4, RangeOfKnown, NamedRanges

(* The operations on corners.                                              *)
LEMMA CornersKnown ==
  ASSUME NEW p \in RangeRecords, NEW q \in RangeRecords
  PROVE  /\ corners(p, q, uremInt) \in KnownRanges
         /\ corners(p, q, sremInt) \in KnownRanges
         /\ corners(p, q, shlInt) \in KnownRanges
         /\ corners(p, q, lshrInt) \in KnownRanges
         /\ corners(p, q, ashrInt) \in KnownRanges
<1>1. p.l \in Values /\ p.u \in Values /\ q.l \in Values /\ q.u \in Values
  BY RangeParts
<1>2. ASSUME NEW a \in Values, NEW b \in Values, NEW c \in Values, NEW d \in Values
      PROVE  Span({IF p.l # Min /\ q.l # Min THEN a ELSE Min,
                   IF p.l # Min /\ q.u # Max THEN b ELSE Min,
                   IF p.u # Max /\ q.l # Min THEN c ELSE Max,
                   IF p.u # Max /\ q.u # Max THEN d ELSE Max}) \in KnownRanges
  <2> DEFINE S == {IF p.l # Min /\ q.l # Min THEN a ELSE Min,
                   IF p.l # Min /\ q.u # Max THEN b ELSE Min,
                   IF p.u # Max /\ q.l # Min THEN c ELSE Max,
                   IF p.u # Max /\ q.u # Max THEN d ELSE Max}
  <2>1. S \subseteq Values /\ S # {}
    BY SomeValues
  <2> HIDE DEF S
  <2>2. Span(S) \in KnownRanges
    BY <2>1, SpanKnown
  <2> QED BY <2>2 DEF S
<1>3. corners(p, q, uremInt) \in KnownRanges
  BY <1>1, <1>2, ValueOps DEF corners
<1>4. corners(p, q, sremInt) \in KnownRanges
  BY <1>1, <1>2, ValueOps DEF corners
<1>5. corners(p, q, shlInt) \in KnownRanges
  BY <1>1, <1>2, ValueOps DEF corners
<1>6. corners(p, q, lshrInt) \in KnownRanges
  BY <1>1, <1>2, ValueOps DEF corners
<1>7. corners(p, q, ashrInt) \in KnownRanges
  BY <1>1, <1>2, ValueOps DEF corners
<1> QED BY <1>3, <1>4, <1>5, <1>6, <1>7

(* urem, srem, shl, lshr and ashr.                                         *)
LEMMA RemaindersAndShiftsKnown ==
  ASSUME NEW p \in RangeRecords, NEW q \in RangeRecords
  PROVE  /\ urem(p, q) \in KnownRanges /\ srem(p, q) \in KnownRanges
         /\ shl(p, q) \in KnownRanges /\ lshr(p, q) \in KnownRanges
         /\ ashr(p, q) \in KnownRanges
<1>1. urem(p, q) \in KnownRanges
  BY CornersKnown, NamedRanges DEF urem
<1>2. srem(p, q) \in KnownRanges
  <2> DEFINE none == q = RangeOf(0, 0) \/ q = EmptyRange
             any == q.l = 0 \/ q.u = 0 \/ (q.l < 0 /\ q.u > 0)
             some == q.l > 0 \/ q.u < 0
             C == corners(p, q, sremInt)
  <2>1. q.l \in Int /\ q.u \in Int
    BY RangeParts, ValuesAreInts
  <2>2. RangeOf(0, 0).l = 0
    BY SomeValues, RangeOfKnown
  <2>3. none \/ (~none /\ any) \/ (~none /\ some)
    BY <2>1
  <2>4. ~none => q \notin {RangeOf(0, 0), EmptyRange} /\ q # EmptyRange
    OBVIOUS
  <2>5. none \/ any \/ some => srem(p, q) \in {EmptyRange, FullRange, C}
    BY <2>4 DEF srem
  <2> HIDE DEF none, any, some, C
  <2>6. srem(p, q) \in {EmptyRange, FullRange, C}
    BY <2>3, <2>5
  <2> QED BY <2>6, CornersKnown, NamedRanges DEF C
<1>3. lshr(p, q) \in KnownRanges
  BY CornersKnown, SomeValues, RangeOfKnown DEF lshr
<1> QED BY <1>1, <1>2, <1>3, CornersKnown DEF shl, ashr

(* And and Xor.                                                            *)
LEMMA AndXorKnown ==
  ASSUME NEW p \in RangeRecords, NEW q \in RangeRecords
  PROVE  And(p, q) \in KnownRanges /\ Xor(p, q) \in KnownRanges
<1> DEFINE umin == IF Unsigned(q.u) <= Unsigned(p.u) THEN q.u ELSE p.u
<1>1. umin \in Values
  BY RangeParts
<1>2. RangeOf(0, umin) \in KnownRanges
  BY <1>1, SomeValues, RangeOfKnown
<1>3. And(p, q) \in {EmptyRange, FullRange, RangeOf(0, umin)}
  BY DEF And
<1> QED BY <1>2, <1>3, NamedRanges DEF Xor

(* The operations of one operand, for a type of at most W bits.            *)
LEMMA TypeRangeKnown ==
  ASSUME NEW bw \in 1 .. W
  PROVE  TypeRange(bw) \in KnownRanges
<1> DEFINE h == 2 ^ (bw - 1)
<1>1. bw - 1 \in 0 .. W - 1 /\ bw - 1 \in 0 .. 2 * W
  BY Scale
<1>2. h \in Nat \ {0} /\ h <= Max + 1
  BY <1>1, PowerFacts
<1> HIDE DEF h
<1>3. -h \in Values /\ h - 1 \in Values
  BY <1>2, Scale DEF Values
<1> QED BY <1>3, RangeOfKnown DEF TypeRange, h

(* UnaryOp::eval of a known range is known.                                *)
LEMMA UnaryKnown ==
  ASSUME NEW p \in KnownRanges, NEW bw, NEW opcode \in UnaryOpcodes,
         opcode \in {"trunc", "zext", "sext"} => bw \in 1 .. W
  PROVE  UnaryEval(opcode, p, bw) \in KnownRanges
<1>1. p \in RangeRecords /\ (isRegular(p) \/ isEmpty(p))
  BY DEF KnownRanges, RangeRecords, isUnknown, isRegular, isEmpty
<1>2. opcode \in {"trunc", "zext", "sext"} =>
        truncate(p, bw) \in KnownRanges /\ zextOrTrunc(p, bw) \in KnownRanges
  BY TypeRangeKnown DEF truncate, zextOrTrunc
<1> QED BY <1>1, <1>2, NamedRanges
        DEF UnaryEval, UnaryOpcodes, sextOrTrunc, isRegular, isEmpty, isUnknown

(* UnaryOp::eval of any range is a range.                                  *)
LEMMA UnaryRange ==
  ASSUME NEW p \in RangeRecords, NEW bw, NEW opcode \in UnaryOpcodes,
         opcode \in {"trunc", "zext", "sext"} => bw \in 1 .. W
  PROVE  UnaryEval(opcode, p, bw) \in RangeRecords
<1>1. CASE isUnknown(p)
  BY <1>1, NamedRanges DEF UnaryEval, isRegular, isEmpty, isUnknown
<1>2. CASE ~isUnknown(p)
  BY <1>2, UnaryKnown DEF KnownRanges
<1> QED BY <1>1, <1>2

-----------------------------------------------------------------------------
(***************************************************************************)
(* The "or" of ranges.                                                     *)
(***************************************************************************)
(* The function that sums up the bits of an "or".                          *)
OrSums(x, y, n, f) ==
  f = [i \in 1 .. n |-> IF i = 1 THEN OrBit(x, y, 0) ELSE f[i - 1] + OrBit(x, y, i - 1)]

(* It exists.                                                              *)
LEMMA OrFunction ==
  ASSUME NEW x, NEW y, NEW n \in Nat
  PROVE  \E f : OrSums(x, y, n, f)
<1> DEFINE Is(f, m) == f = [i \in 1 .. m |-> IF i = 1 THEN OrBit(x, y, 0) ELSE f[i - 1] + OrBit(x, y, i - 1)]
           Found == {m \in 0 .. n : \E f : Is(f, m)}
           Fails == (0 .. n) \ Found
<1>1. Is([i \in 1 .. 0 |-> 0], 0)
  OBVIOUS
<1>2. ASSUME NEW k \in 0 .. n - 1, NEW f, Is(f, k) PROVE \E h : Is(h, k + 1)
  <2> DEFINE h == [i \in 1 .. k + 1 |-> IF i = 1 THEN OrBit(x, y, 0) ELSE f[i - 1] + OrBit(x, y, i - 1)]
             g == [i \in 1 .. k |-> IF i = 1 THEN OrBit(x, y, 0) ELSE f[i - 1] + OrBit(x, y, i - 1)]
  <2>1. f = g
    BY <1>2
  <2>2. \A i \in 1 .. k : h[i] = f[i]
    <3>1. \A i \in 1 .. k : h[i] = g[i]
      OBVIOUS
    <3> HIDE DEF g
    <3> QED BY <2>1, <3>1
  <2>3. \A i \in 1 .. k + 1 : i # 1 => i - 1 \in 1 .. k
    OBVIOUS
  <2>4. \A i \in 1 .. k + 1 : i # 1 => f[i - 1] = h[i - 1]
    BY <2>2, <2>3
  <2>5. h = [i \in 1 .. k + 1 |-> IF i = 1 THEN OrBit(x, y, 0) ELSE h[i - 1] + OrBit(x, y, i - 1)]
    BY <2>4
  <2> QED BY <2>5
<1> HIDE DEF Is
<1>3. 0 \notin Fails
  BY <1>1
<1>4. \A k \in 0 .. n - 1 : k \notin Fails => k + 1 \notin Fails
  <2> SUFFICES ASSUME NEW k \in 0 .. n - 1, k \in Found PROVE k + 1 \in Found
    OBVIOUS
  <2>1. \E f : Is(f, k)
    OBVIOUS
  <2>2. \E h : Is(h, k + 1)
    BY <1>2, <2>1
  <2> QED BY <2>2
<1>5. Fails = {}
  <2>1. Fails \subseteq 0 .. n
    OBVIOUS
  <2> HIDE DEF Fails
  <2> QED BY <1>3, <1>4, <2>1, NoneFails
<1>6. \E f : Is(f, n)
  BY <1>5
<1> QED BY <1>6 DEF Is, OrSums

(* All its values are integers.                                            *)
LEMMA OrSum ==
  ASSUME NEW x \in Int, NEW y \in Int, NEW n \in 1 .. 2 * W,
         NEW f, f = CHOOSE g : OrSums(x, y, n, g)
  PROVE  f[n] \in Int
<1> DEFINE h == [i \in 1 .. n |-> IF i = 1 THEN OrBit(x, y, 0) ELSE f[i - 1] + OrBit(x, y, i - 1)]
           Fails == {i \in 1 .. n : f[i] \notin Int}
<1>1. n \in Nat /\ n \in 1 .. n /\ 0 \notin 1 .. n
  BY Scale
<1>2. \A i \in 0 .. n : OrBit(x, y, i) \in Int
  <2>1. \A i \in 0 .. n : 2 ^ i \in Int
    BY Scale, PowerFacts
  <2> QED BY <2>1 DEF OrBit
<1>3. f = h
  <2>1. OrSums(x, y, n, f)
    BY <1>1, OrFunction
  <2> QED BY <2>1 DEF OrSums
<1>4. \A i \in 1 .. n : h[i] = IF i = 1 THEN OrBit(x, y, 0) ELSE f[i - 1] + OrBit(x, y, i - 1)
  OBVIOUS
<1> HIDE DEF h
<1>5. \A i \in 1 .. n : f[i] = IF i = 1 THEN OrBit(x, y, 0) ELSE f[i - 1] + OrBit(x, y, i - 1)
  BY <1>3, <1>4
<1>6. ASSUME NEW k \in 0 .. n - 1, k \notin Fails PROVE k + 1 \notin Fails
  <2> DEFINE i == k + 1
  <2>1. i \in 1 .. n /\ i - 1 = k /\ k \in 0 .. n /\ 0 \in 0 .. n
    BY <1>1
  <2> HIDE DEF i
  <2>2. CASE i = 1
    BY <1>2, <1>5, <2>1, <2>2 DEF i
  <2>3. CASE i # 1
    <3>1. k \in 1 .. n
      BY <1>1, <2>1, <2>3
    <3>2. f[k] \in Int
      BY <1>6, <3>1
    <3>3. f[i] = f[k] + OrBit(x, y, k)
      BY <1>5, <2>1, <2>3
    <3> QED BY <1>2, <2>1, <3>2, <3>3 DEF i
  <2> QED BY <2>2, <2>3
<1>7. Fails = {}
  <2>1. Fails \subseteq 0 .. n /\ 0 \notin Fails
    BY <1>1
  <2> HIDE DEF Fails
  <2> QED BY <1>1, <1>6, <2>1, NoneFails
<1> QED BY <1>1, <1>7

(* An "or" of two integers is one.                                         *)
LEMMA OrIntInt ==
  ASSUME NEW x \in Int, NEW y \in Int
  PROVE  OrInt(x, y) \in Int
<1> DEFINE n == WordBits - 1
           f == CHOOSE g : OrSums(x, y, n, g)
<1>1. n \in 1 .. 2 * W /\ n \in 0 .. 2 * W
  BY Scale DEF WordBits
<1>2. OrInt(x, y) = f[n] - (IF x < 0 \/ y < 0 THEN 2 ^ n ELSE 0)
  BY DEF OrInt, OrSums
<1>3. 2 ^ n \in Int
  BY <1>1, PowerFacts
<1> HIDE DEF n
<1>4. f[n] \in Int
  BY <1>1, OrSum
<1> HIDE DEF f
<1> QED BY <1>2, <1>3, <1>4

(* Where the walk of minOR or maxOR ends: at a bit of the word.            *)
LEMMA TopBit ==
  ASSUME NEW S, S \subseteq BitNumbers, S # {}
  PROVE  Greatest(S) \in S
<1> DEFINE T == {W - y : y \in S}
<1>1. S \subseteq Int /\ \A y \in S : y <= W - 1
  BY Scale DEF BitNumbers
<1>2. T \subseteq Nat /\ T # {}
  <2>1. \A y \in S : W - y \in Nat
    BY <1>1, Scale
  <2> QED BY <2>1
<1>3. PICK m \in T : \A t \in T : m <= t
  BY <1>2, LeastOfNats
<1>4. PICK x \in S : m = W - x
  OBVIOUS
<1>5. \A y \in S : x >= y
  <2> TAKE y \in S
  <2>1. W - y \in T
    OBVIOUS
  <2>2. m <= W - y
    BY <1>3, <2>1
  <2> QED BY <1>1, <1>4, <2>2, Scale
<1> QED BY <1>5 DEF Greatest

(* A bound that minOR or maxOR moves stays an integer.                     *)
LEMMA MovedInt ==
  ASSUME NEW x \in Int, NEW i \in BitNumbers
  PROVE  Raised(x, i) \in Int /\ Lowered(x, i) \in Int
<1>1. i \in 0 .. 2 * W /\ i + 1 \in 0 .. 2 * W
  BY Scale DEF BitNumbers
<1> DEFINE lo == 2 ^ i
           hi == 2 ^ (i + 1)
<1>2. lo \in Nat \ {0} /\ hi \in Nat \ {0}
  BY <1>1, PowerFacts
<1> HIDE DEF lo, hi
<1>3. x \div hi \in Int
  BY <1>2
<1>4. (x \div hi) * hi \in Int
  BY <1>2, <1>3
<1> QED BY <1>2, <1>4 DEF Raised, Lowered, Above, lo, hi

(* minOR and maxOR.                                                        *)
LEMMA MinMaxOrInt ==
  ASSUME NEW a \in Int, NEW b \in Int, NEW c \in Int, NEW d \in Int
  PROVE  minOR(a, b, c, d) \in Int /\ maxOR(a, b, c, d) \in Int
<1>1. minOR(a, b, c, d) \in Int
  <2> DEFINE first(i) == BitOf(a, i) = 0 /\ BitOf(c, i) = 1 /\ Raised(a, i) <= b
             second(i) == BitOf(a, i) = 1 /\ BitOf(c, i) = 0 /\ Raised(c, i) <= d
             moves == {i \in BitNumbers : first(i) \/ second(i)}
             top == Greatest(moves)
  <2>1. minOR(a, b, c, d) =
          CASE moves = {}                    -> OrInt(a, c)
            [] moves # {} /\ first(top)      -> OrInt(Raised(a, top), c)
            [] moves # {} /\ second(top)     -> OrInt(a, Raised(c, top))
    BY DEF minOR
  <2>2. moves \subseteq BitNumbers
    OBVIOUS
  <2>3. moves # {} => top \in moves
    <3> HIDE DEF moves
    <3> QED BY <2>2, TopBit
  <2>4. moves # {} => top \in BitNumbers /\ (first(top) \/ second(top))
    <3> HIDE DEF top, first, second
    <3> QED BY <2>3
  <2> HIDE DEF top, moves, first, second
  <2>5. moves # {} => Raised(a, top) \in Int /\ Raised(c, top) \in Int
    BY <2>4, MovedInt
  <2>6. /\ OrInt(a, c) \in Int
        /\ moves # {} => OrInt(Raised(a, top), c) \in Int /\ OrInt(a, Raised(c, top)) \in Int
    BY <2>5, OrIntInt
  <2> QED BY <2>1, <2>4, <2>6
<1>2. maxOR(a, b, c, d) \in Int
  <2> DEFINE both(i) == BitOf(b, i) = 1 /\ BitOf(d, i) = 1
             first(i) == both(i) /\ Lowered(b, i) >= a
             second(i) == both(i) /\ Lowered(d, i) >= c
             moves == {i \in BitNumbers : first(i) \/ second(i)}
             top == Greatest(moves)
  <2>1. maxOR(a, b, c, d) =
          CASE moves = {}                                -> OrInt(b, d)
            [] moves # {} /\ first(top)                  -> OrInt(Lowered(b, top), d)
            [] moves # {} /\ ~first(top) /\ second(top)  -> OrInt(b, Lowered(d, top))
    BY DEF maxOR
  <2>2. moves \subseteq BitNumbers
    OBVIOUS
  <2>3. moves # {} => top \in moves
    <3> HIDE DEF moves
    <3> QED BY <2>2, TopBit
  <2>4. moves # {} => top \in BitNumbers /\ (first(top) \/ second(top))
    <3> HIDE DEF top, first, second
    <3> QED BY <2>3
  <2> HIDE DEF top, moves, first, second
  <2>5. moves # {} => Lowered(b, top) \in Int /\ Lowered(d, top) \in Int
    BY <2>4, MovedInt
  <2>6. /\ OrInt(b, d) \in Int
        /\ moves # {} => OrInt(Lowered(b, top), d) \in Int /\ OrInt(b, Lowered(d, top)) \in Int
    BY <2>5, OrIntInt
  <2> QED BY <2>1, <2>4, <2>6
<1> QED BY <1>1, <1>2

(* Or: unknown only where an operand is.                                   *)
LEMMA OrKnown ==
  ASSUME NEW p \in RangeRecords, NEW q \in RangeRecords
  PROVE  Or(p, q) \in RangeRecords /\ (~isUnknown(p) /\ ~isUnknown(q) => ~isUnknown(Or(p, q)))
<1> DEFINE a == p.l
           b == p.u
           c == q.l
           d == q.u
           Tight == RangeOf(Wrap(minOR(a, b, c, d)), Wrap(maxOR(a, b, c, d)))
           Low == RangeOf(IF a < c THEN a ELSE c, Wrap(maxOR(0, b, 0, d)))
           Odd == RangeOf(Wrap(minOR(a, AllOnes, c, d)), Wrap(minOR(0, b, c, d)))
           Even == RangeOf(Wrap(minOR(a, b, c, AllOnes)), Wrap(maxOR(a, b, 0, d)))
           Named == {FullRange, RangeOf(a, -1), RangeOf(c, -1)}
<1>1. a \in Values /\ b \in Values /\ c \in Values /\ d \in Values
  BY RangeParts
<1>2. a \in Int /\ b \in Int /\ c \in Int /\ d \in Int /\ AllOnes \in Int
  <2>1. AllOnes \in Int
    BY Scale DEF AllOnes
  <2> HIDE DEF a, b, c, d
  <2> QED BY <1>1, <2>1, ValuesAreInts
<1>3. Or(p, q) \in Named \cup {Tight, Low, Odd, Even} \/ ((isUnknown(p) \/ isUnknown(q)) /\ Or(p, q) = UnknownRange)
  <2>1. CASE isUnknown(p) \/ isUnknown(q)
    BY <2>1 DEF Or
  <2>2. CASE ~(isUnknown(p) \/ isUnknown(q))
    BY <2>2 DEF Or
  <2> QED BY <2>1, <2>2
<1> HIDE DEF a, b, c, d
<1> HIDE DEF Tight, Low, Odd, Even, Named
<1>4. Tight \in KnownRanges
  BY <1>2, MinMaxOrInt, WrapValue, RangeOfKnown DEF Tight
<1>5. Low \in KnownRanges
  <2>1. maxOR(0, b, 0, d) \in Int
    BY <1>2, MinMaxOrInt
  <2> QED BY <1>1, <2>1, WrapValue, RangeOfKnown DEF Low
<1>6. Odd \in KnownRanges
  <2>1. minOR(a, AllOnes, c, d) \in Int /\ minOR(0, b, c, d) \in Int
    BY <1>2, MinMaxOrInt
  <2> QED BY <2>1, WrapValue, RangeOfKnown DEF Odd
<1>7. Even \in KnownRanges
  <2>1. minOR(a, b, c, AllOnes) \in Int /\ maxOR(a, b, 0, d) \in Int
    BY <1>2, MinMaxOrInt
  <2> QED BY <2>1, WrapValue, RangeOfKnown DEF Even
<1>8. Named \subseteq KnownRanges
  BY <1>1, SomeValues, RangeOfKnown, NamedRanges DEF Named
<1> QED BY <1>3, <1>4, <1>5, <1>6, <1>7, <1>8, NamedRanges DEF KnownRanges

-----------------------------------------------------------------------------
(***************************************************************************)
(* eval of the operations of one and two operands and of a phi.            *)
(***************************************************************************)
LEMMA AppliedKnown ==
  ASSUME NEW p \in KnownRanges, NEW q \in KnownRanges, NEW opcode \in BinaryOpcodes
  PROVE  Applied(opcode, p, q) \in KnownRanges
<1>1. p \in RangeRecords /\ q \in RangeRecords /\ ~isUnknown(p) /\ ~isUnknown(q)
  BY DEF KnownRanges
<1>2. /\ add(p, q) \in KnownRanges /\ sub(p, q) \in KnownRanges /\ mul(p, q) \in KnownRanges
      /\ udiv(p, q) \in KnownRanges /\ sdiv(p, q) \in KnownRanges
  BY <1>1, AddKnown, SubKnown, MulKnown, QuotientsKnown
<1>3. /\ urem(p, q) \in KnownRanges /\ srem(p, q) \in KnownRanges /\ shl(p, q) \in KnownRanges
      /\ lshr(p, q) \in KnownRanges /\ ashr(p, q) \in KnownRanges
  BY <1>1, RemaindersAndShiftsKnown
<1>4. And(p, q) \in KnownRanges /\ Xor(p, q) \in KnownRanges /\ Or(p, q) \in KnownRanges
  BY <1>1, AndXorKnown, OrKnown DEF KnownRanges
<1>5. CASE opcode \in {"add", "sub", "mul", "udiv", "sdiv"}
  BY <1>2, <1>5 DEF Applied
<1>6. CASE opcode \in {"urem", "srem", "shl", "lshr", "ashr"}
  BY <1>3, <1>6 DEF Applied
<1>7. CASE opcode \in {"and", "or", "xor"}
  BY <1>4, <1>7 DEF Applied
<1> QED BY <1>5, <1>6, <1>7 DEF BinaryOpcodes

(* BinaryOp::eval: unknown only where an operand is.                       *)
LEMMA BinaryRange ==
  ASSUME NEW p \in RangeRecords, NEW q \in RangeRecords, NEW opcode \in BinaryOpcodes
  PROVE  /\ BinaryEval(opcode, p, q) \in RangeRecords
         /\ ~isUnknown(p) /\ ~isUnknown(q) => ~isUnknown(BinaryEval(opcode, p, q))
<1> DEFINE r == Applied(opcode, p, q)
           both == isRegular(p) /\ isRegular(q)
           none == isEmpty(p) \/ isEmpty(q)
<1>1. both => p \in KnownRanges /\ q \in KnownRanges
  BY DEF KnownRanges, isRegular, isUnknown
<1>2. both => r \in KnownRanges
  BY <1>1, AppliedKnown
<1>3. /\ both => ~none
      /\ ~both /\ ~none => isUnknown(p) \/ isUnknown(q)
  BY RangeParts DEF isRegular, isEmpty, isUnknown
<1>4. /\ both => BinaryEval(opcode, p, q) \in {FullRange, r}
      /\ none => BinaryEval(opcode, p, q) = EmptyRange
      /\ ~both /\ ~none => BinaryEval(opcode, p, q) = UnknownRange
  BY <1>3 DEF BinaryEval
<1> HIDE DEF r, both, none
<1> QED BY <1>2, <1>3, <1>4, NamedRanges DEF KnownRanges

(* intersectWith, which is SigmaOp::eval.                                  *)
LEMMA MeetRange ==
  ASSUME NEW p \in RangeRecords, NEW q \in RangeRecords
  PROVE  /\ intersectWith(p, q) \in RangeRecords
         /\ ~isUnknown(p) => ~isUnknown(intersectWith(p, q))
<1> DEFINE r == RangeOf(IF p.l > q.l THEN p.l ELSE q.l, IF p.u < q.u THEN p.u ELSE q.u)
<1>1. r \in KnownRanges
  BY RangeParts, RangeOfKnown
<1>2. p.type \in {"Regular", "Unknown", "Empty"} /\ q.type \in {"Regular", "Unknown", "Empty"}
  BY RangeParts
<1>3. \/ (isEmpty(p) \/ isEmpty(q)) /\ intersectWith(p, q) = EmptyRange
      \/ isUnknown(p) /\ intersectWith(p, q) = q
      \/ intersectWith(p, q) = p
      \/ intersectWith(p, q) = r
  BY <1>2 DEF intersectWith, isEmpty, isUnknown, isRegular
<1> HIDE DEF r
<1> QED BY <1>1, <1>3, NamedRanges DEF KnownRanges

(* unionWith.                                                              *)
LEMMA JoinRange ==
  ASSUME NEW p \in RangeRecords, NEW q \in RangeRecords
  PROVE  /\ unionWith(p, q) \in RangeRecords
         /\ ~isUnknown(p) /\ ~isUnknown(q) => ~isUnknown(unionWith(p, q))
<1> DEFINE r == RangeOf(IF p.l < q.l THEN p.l ELSE q.l, IF p.u > q.u THEN p.u ELSE q.u)
<1>1. r \in KnownRanges
  BY RangeParts, RangeOfKnown
<1>2. p.type \in {"Regular", "Unknown", "Empty"} /\ q.type \in {"Regular", "Unknown", "Empty"}
  BY RangeParts
<1>3. unionWith(p, q) \in {p, q, r}
  BY <1>2 DEF unionWith, isEmpty, isUnknown, isRegular
<1> HIDE DEF r
<1> QED BY <1>1, <1>3 DEF KnownRanges

(* The function that joins the operands of a phi.                          *)
Joins(ps, n, f) ==
  f = [k \in 1 .. n |-> IF k = 1 THEN ps[1] ELSE unionWith(f[k - 1], ps[k])]

(* It exists.                                                              *)
LEMMA JoinFunction ==
  ASSUME NEW ps, NEW n \in Nat
  PROVE  \E f : Joins(ps, n, f)
<1> DEFINE Is(f, m) == f = [i \in 1 .. m |-> IF i = 1 THEN ps[1] ELSE unionWith(f[i - 1], ps[i])]
           Found == {m \in 0 .. n : \E f : Is(f, m)}
           Fails == (0 .. n) \ Found
<1>1. Is([i \in 1 .. 0 |-> 0], 0)
  OBVIOUS
<1>2. ASSUME NEW k \in 0 .. n - 1, NEW f, Is(f, k) PROVE \E h : Is(h, k + 1)
  <2> DEFINE h == [i \in 1 .. k + 1 |-> IF i = 1 THEN ps[1] ELSE unionWith(f[i - 1], ps[i])]
             g == [i \in 1 .. k |-> IF i = 1 THEN ps[1] ELSE unionWith(f[i - 1], ps[i])]
  <2>1. f = g
    BY <1>2
  <2>2. \A i \in 1 .. k : h[i] = f[i]
    <3>1. \A i \in 1 .. k : h[i] = g[i]
      OBVIOUS
    <3> HIDE DEF g
    <3> QED BY <2>1, <3>1
  <2>3. \A i \in 1 .. k + 1 : i # 1 => i - 1 \in 1 .. k
    OBVIOUS
  <2>4. \A i \in 1 .. k + 1 : i # 1 => f[i - 1] = h[i - 1]
    BY <2>2, <2>3
  <2>5. h = [i \in 1 .. k + 1 |-> IF i = 1 THEN ps[1] ELSE unionWith(h[i - 1], ps[i])]
    BY <2>4
  <2> QED BY <2>5
<1> HIDE DEF Is
<1>3. 0 \notin Fails
  BY <1>1
<1>4. \A k \in 0 .. n - 1 : k \notin Fails => k + 1 \notin Fails
  <2> SUFFICES ASSUME NEW k \in 0 .. n - 1, k \in Found PROVE k + 1 \in Found
    OBVIOUS
  <2>1. \E f : Is(f, k)
    OBVIOUS
  <2>2. \E h : Is(h, k + 1)
    BY <1>2, <2>1
  <2> QED BY <2>2
<1>5. Fails = {}
  <2>1. Fails \subseteq 0 .. n
    OBVIOUS
  <2> HIDE DEF Fails
  <2> QED BY <1>3, <1>4, <2>1, NoneFails
<1>6. \E f : Is(f, n)
  BY <1>5
<1> QED BY <1>6 DEF Is, Joins

(* PhiOp::eval.                                                            *)
LEMMA PhiIn ==
  ASSUME NEW n \in Nat \ {0}, NEW ps \in [1 .. n -> RangeRecords],
         NEW R \in {RangeRecords, KnownRanges}, \A k \in 1 .. n : ps[k] \in R
  PROVE  PhiEval(ps) \in R
<1> DEFINE f == CHOOSE g : Joins(ps, n, g)
           h == [k \in 1 .. n |-> IF k = 1 THEN ps[1] ELSE unionWith(f[k - 1], ps[k])]
           Fails == {i \in 1 .. n : f[i] \notin R}
<1>0. n \in 1 .. n /\ n \in Nat /\ 1 \in 1 .. n
  OBVIOUS
<1>1. ps \in Seq(RangeRecords) /\ Len(ps) = n
  OBVIOUS
<1>2. PhiEval(ps) = f[n]
  BY <1>1 DEF PhiEval, Joins
<1>3. f = h
  <2>1. Joins(ps, n, f)
    BY <1>0, JoinFunction
  <2> QED BY <2>1 DEF Joins
<1>4. \A i \in 1 .. n : h[i] = IF i = 1 THEN ps[1] ELSE unionWith(f[i - 1], ps[i])
  OBVIOUS
<1> HIDE DEF f, h
<1>5. \A i \in 1 .. n : f[i] = IF i = 1 THEN ps[1] ELSE unionWith(f[i - 1], ps[i])
  BY <1>3, <1>4
<1>6. ASSUME NEW k \in 0 .. n - 1, k \notin Fails PROVE k + 1 \notin Fails
  <2> DEFINE i == k + 1
  <2>1. i \in 1 .. n /\ i - 1 = k
    OBVIOUS
  <2> HIDE DEF i
  <2>2. CASE i = 1
    BY <1>0, <1>5, <2>1, <2>2 DEF i
  <2>3. CASE i # 1
    <3>1. k \in 1 .. n
      BY <2>1, <2>3
    <3>2. f[k] \in R /\ ps[i] \in R
      BY <1>6, <2>1, <3>1
    <3>3. f[i] = unionWith(f[k], ps[i])
      BY <1>5, <2>1, <2>3
    <3>4. unionWith(f[k], ps[i]) \in R
      BY <3>2, JoinRange DEF KnownRanges
    <3> QED BY <3>3, <3>4 DEF i
  <2> QED BY <2>2, <2>3
<1>7. Fails = {}
  <2>1. Fails \subseteq 0 .. n /\ 0 \notin Fails
    OBVIOUS
  <2> HIDE DEF Fails
  <2> QED BY <1>0, <1>6, <2>1, NoneFails
<1> QED BY <1>0, <1>2, <1>7

-----------------------------------------------------------------------------
(***************************************************************************)
(* The graph of a function: its sequences, branches and switches.          *)
(***************************************************************************)
(* The sequences of a function, and what a search in one finds.            *)
LEMMA SequenceFacts ==
  ASSUME NEW s, IsSequence(s)
  PROVE  /\ Len(s) \in Nat /\ DOMAIN s = 1 .. Len(s)
         /\ s # <<>> => Len(s) \in Nat \ {0}
<1>1. s \in Seq(Seqs!ToSet(s))
  BY DEF IsSequence
<1> DEFINE S == Seqs!ToSet(s)
<1> HIDE DEF S
<1>2. s \in Seq(S)
  BY <1>1 DEF S
<1> QED BY <1>2

(* The index that SelectInSeq finds is one of those it looks for.          *)
LEMMA FirstIndex ==
  ASSUME NEW I, I \subseteq Nat, I # {}
  PROVE  Seqs!Min(I) \in I
BY LeastOfNats DEF Seqs!Min

(* What is about a value is one of the entries.                            *)
LEMMA AboutFacts ==
  ASSUME NEW entries, NEW v, Len(entries) \in Nat
  PROVE  \/ About(entries, v) = 0
         \/ About(entries, v) \in 1 .. Len(entries) /\ entries[About(entries, v)].value = v
<1> DEFINE I == {i \in 1 .. Len(entries) : entries[i].value = v}
<1>1. About(entries, v) = IF I # {} THEN Seqs!Min(I) ELSE 0
  BY DEF About, Seqs!SelectInSeq
<1>2. I \subseteq Nat
  OBVIOUS
<1>3. I # {} => Seqs!Min(I) \in I
  <2> HIDE DEF I
  <2> QED BY <1>2, FirstIndex
<1> QED BY <1>1, <1>3

(* A comparison with a constant.                                           *)
LEMMA SatisfyingKnown ==
  ASSUME NEW pred, NEW c, NEW bw \in 1 .. W
  PROVE  Satisfying(pred, c, bw) \in KnownRanges
<1> DEFINE region == {x \in TypeValues(bw) : Holds(pred, x, c, bw)}
<1>1. TypeRange(bw).l \in Values /\ TypeRange(bw).u \in Values
  BY TypeRangeKnown, RangeParts DEF KnownRanges
<1>2. TypeValues(bw) \subseteq Values
  BY <1>1, Scale DEF TypeValues, Values
<1>3. region \subseteq Values
  BY <1>2
<1>4. Satisfying(pred, c, bw) = IF region = {} THEN RangeOf(0, Max) ELSE Span(region)
  BY DEF Satisfying
<1> HIDE DEF region
<1> QED BY <1>3, <1>4, SpanKnown, RangeOfKnown, SomeValues

(* What a branch says of its values.                                       *)
LEMMA EntryRanges ==
  ASSUME NEW f, NEW br, br.rhs \in DOMAIN f.consts => f.bits[br.lhs] \in 1 .. W
  PROVE  \E S : /\ Entries(f, br) \in Seq(S)
                /\ \A e \in S : e.itvT.range \in RangeRecords /\ e.itvF.range \in RangeRecords
<1> DEFINE good(e) == e.itvT.range \in RangeRecords /\ e.itvF.range \in RangeRecords
<1>1. ASSUME NEW v, NEW T, NEW F, T.range \in RangeRecords, F.range \in RangeRecords
      PROVE  good(Entry(br, v, T, F))
  BY <1>1 DEF Entry
<1>2. ASSUME NEW v, NEW T, NEW F
      PROVE  CastEntry(f, br, v, T, F) \in Seq({Entry(br, f.insts[v].args[1], T, F)})
  <2> DEFINE e == Entry(br, f.insts[v].args[1], T, F)
  <2>1. CastEntry(f, br, v, T, F) \in {<<e>>, <<>>}
    BY DEF CastEntry
  <2> HIDE DEF e
  <2>2. CastEntry(f, br, v, T, F) \in Seq({e})
    <3> DEFINE S == {e}
    <3>1. e \in S
      OBVIOUS
    <3> HIDE DEF S
    <3>2. <<e>> \in Seq(S) /\ <<>> \in Seq(S)
      BY <3>1
    <3> QED BY <2>1, <3>2 DEF S
  <2> QED BY <2>2 DEF e
<1>3. CASE br.rhs \in DOMAIN f.consts
  <2> DEFINE T == Basic(Satisfying(br.pred, f.consts[br.rhs], f.bits[br.lhs]))
             F == Basic(Satisfying(Inverse[br.pred], f.consts[br.rhs], f.bits[br.lhs]))
             e1 == Entry(br, br.lhs, T, F)
             e2 == Entry(br, f.insts[br.lhs].args[1], T, F)
             cast == CastEntry(f, br, br.lhs, T, F)
  <2>1. Entries(f, br) = <<e1>> \o cast
    BY <1>3 DEF Entries, ConstantEntries
  <2>2. cast \in Seq({e2})
    <3> HIDE DEF T, F
    <3> QED BY <1>2
  <2>3. T.range \in RangeRecords /\ F.range \in RangeRecords
    BY <1>3, SatisfyingKnown DEF Basic, KnownRanges
  <2>4. good(e1) /\ good(e2)
    <3> HIDE DEF T, F, good
    <3> QED BY <1>1, <2>3
  <2> HIDE DEF e1, e2, cast, good
  <2>5. Entries(f, br) \in Seq({e1, e2})
    BY <2>1, <2>2
  <2>6. \A e \in {e1, e2} : good(e)
    BY <2>4
  <2> QED BY <2>5, <2>6 DEF good
<1>4. CASE br.rhs \notin DOMAIN f.consts
  <2> DEFINE inv == Inverse[br.pred]
             T == Symb(br.rhs, br.pred)
             F == Symb(br.rhs, inv)
             T2 == Symb(br.lhs, inv)
             F2 == Symb(br.lhs, br.pred)
             e1 == Entry(br, br.lhs, T, F)
             e2 == Entry(br, f.insts[br.lhs].args[1], T, F)
             e3 == Entry(br, br.rhs, T2, F2)
             e4 == Entry(br, f.insts[br.rhs].args[1], T, F)
             cast1 == CastEntry(f, br, br.lhs, T, F)
             cast2 == CastEntry(f, br, br.rhs, T, F)
  <2>1. Entries(f, br) = <<e1>> \o cast1 \o <<e3>> \o cast2
    BY <1>4 DEF Entries, SymbolicEntries
  <2>2. cast1 \in Seq({e2}) /\ cast2 \in Seq({e4})
    <3> HIDE DEF T, F
    <3> QED BY <1>2
  <2>3. /\ T.range \in RangeRecords /\ F.range \in RangeRecords
        /\ T2.range \in RangeRecords /\ F2.range \in RangeRecords
    BY NamedRanges DEF Symb
  <2>4. good(e1) /\ good(e2) /\ good(e3) /\ good(e4)
    <3> HIDE DEF T, F, T2, F2, good
    <3> QED BY <1>1, <2>3
  <2> HIDE DEF e1, e2, e3, e4, cast1, cast2, good
  <2>5. Entries(f, br) \in Seq({e1, e2, e3, e4})
    <3> DEFINE S == {e1, e2, e3, e4}
    <3>1. <<e1>> \in Seq(S) /\ <<e3>> \in Seq(S) /\ cast1 \in Seq(S) /\ cast2 \in Seq(S)
      BY <2>2
    <3> HIDE DEF S
    <3>2. <<e1>> \o cast1 \o <<e3>> \o cast2 \in Seq(S)
      BY <3>1
    <3> QED BY <2>1, <3>2 DEF S
  <2>6. \A e \in {e1, e2, e3, e4} : good(e)
    BY <2>4
  <2> QED BY <2>5, <2>6 DEF good
<1> QED BY <1>3, <1>4

(* The interval that a switch gives to a value.                            *)
LEMMA SwitchRange ==
  ASSUME NEW f, NEW v, NEW block, IsSequence(f.switches),
         \A s \in DOMAIN f.switches :
           LET cases == f.switches[s].cases
           IN  IsSequence(cases) /\ \A k \in DOMAIN cases : cases[k].value \in Values
  PROVE  SwitchInterval(f, v, block).range \in RangeRecords
<1> DEFINE about(sw) == sw.cond = v \/ (isCast(f, sw.cond) /\ f.insts[sw.cond].args[1] = v)
           s == Seqs!SelectInSeq(f.switches, about)
           sw == f.switches[s]
           entries == SwitchEntries(sw)
           I == {k \in 1 .. Len(f.switches) : about(f.switches[k])}
           J == {k \in 1 .. Len(entries) : entries[k].block = block}
           e == IF J # {} THEN Seqs!Min(J) ELSE 0
<1>1. Len(f.switches) \in Nat /\ DOMAIN f.switches = 1 .. Len(f.switches)
  BY SequenceFacts
<1>2. s = IF I # {} THEN Seqs!Min(I) ELSE 0
  BY DEF Seqs!SelectInSeq
<1>3. s # 0 => s \in DOMAIN f.switches
  <2>1. I \subseteq Nat /\ I \subseteq DOMAIN f.switches
    BY <1>1
  <2> HIDE DEF I, s
  <2> QED BY <1>2, <2>1, FirstIndex
<1>4. /\ s = 0 => SwitchInterval(f, v, block) = Basic(FullRange)
      /\ s # 0 => SwitchInterval(f, v, block) = IF e = 0 THEN Basic(FullRange) ELSE entries[e].itv
  BY DEF SwitchInterval, Seqs!SelectInSeq
<1>5. ASSUME s # 0, e # 0 PROVE entries[e].itv.range \in RangeRecords
  <2> DEFINE cases == sw.cases
             first == [block |-> sw.default, itv |-> Basic(FullRange)]
             rest == [k \in DOMAIN cases |->
                        [block |-> sw.default, itv |-> Basic(RangeOf(cases[k].value, cases[k].value))]]
             S == {first} \cup {rest[k] : k \in DOMAIN cases}
  <2>1. IsSequence(cases) /\ \A k \in DOMAIN cases : cases[k].value \in Values
    BY <1>3, <1>5
  <2>2. Len(cases) \in Nat /\ DOMAIN cases = 1 .. Len(cases)
    <3> HIDE DEF cases
    <3> QED BY <2>1, SequenceFacts
  <2>3. entries = <<first>> \o rest
    BY DEF SwitchEntries
  <2>4. rest \in Seq(S)
    <3> HIDE DEF cases, first
    <3>1. rest \in [1 .. Len(cases) -> S]
      BY <2>2
    <3> HIDE DEF rest, S
    <3> QED BY <2>2, <3>1
  <2>5. <<first>> \in Seq(S)
    <3>1. first \in S
      OBVIOUS
    <3> HIDE DEF first, S
    <3> QED BY <3>1
  <2>6. entries \in Seq(S)
    <3> HIDE DEF first, rest, S, entries
    <3> QED BY <2>3, <2>4, <2>5
  <2>7. \A x \in S : x.itv.range \in RangeRecords
    <3>1. first.itv.range \in RangeRecords
      BY NamedRanges DEF Basic, KnownRanges
    <3>2. \A k \in DOMAIN cases : rest[k].itv.range \in RangeRecords
      BY <2>1, RangeOfKnown DEF Basic, KnownRanges
    <3> HIDE DEF first, rest, cases
    <3> QED BY <3>1, <3>2
  <2>8. e \in 1 .. Len(entries)
    <3>1. Len(entries) \in Nat
      <4> HIDE DEF entries, S
      <4> QED BY <2>6
    <3>2. J \subseteq Nat /\ J \subseteq 1 .. Len(entries) /\ J # {}
      <4> HIDE DEF entries
      <4> QED BY <1>5, <3>1
    <3> HIDE DEF J
    <3> QED BY <3>2, FirstIndex
  <2> HIDE DEF entries, S, e
  <2>9. entries[e] \in S
    BY <2>6, <2>8
  <2> QED BY <2>7, <2>9
<1>6. Basic(FullRange).range \in RangeRecords
  BY NamedRanges DEF Basic, KnownRanges
<1> HIDE DEF s, e, entries
<1> QED BY <1>4, <1>5, <1>6

(* addSigmaOp gives a sigma the range of an interval.                      *)
LEMMA SigmaRange ==
  ASSUME NEW f, NEW v, IsSequence(f.branches), IsSequence(f.switches),
         \A b \in DOMAIN f.branches :
           f.branches[b].rhs \in DOMAIN f.consts => f.bits[f.branches[b].lhs] \in 1 .. W,
         \A s \in DOMAIN f.switches :
           LET cases == f.switches[s].cases
           IN  IsSequence(cases) /\ \A k \in DOMAIN cases : cases[k].value \in Values
  PROVE  SigmaInterval(f, v).range \in RangeRecords
<1> DEFINE i == f.insts[v]
           b == FirstBranch(f, i.args[1])
           entries == Entries(f, f.branches[b])
           e == entries[About(entries, i.args[1])]
           I == {k \in 1 .. Len(f.branches) : About(Entries(f, f.branches[k]), i.args[1]) # 0}
<1>1. Len(f.branches) \in Nat /\ DOMAIN f.branches = 1 .. Len(f.branches)
  BY SequenceFacts
<1>2. b = IF I # {} THEN Seqs!Min(I) ELSE 0
  BY DEF FirstBranch, Seqs!SelectInSeq
<1>3. b # 0 => b \in I
  <2>1. I \subseteq Nat
    BY <1>1
  <2> HIDE DEF I, b
  <2> QED BY <1>2, <2>1, FirstIndex
<1>4. b # 0 => b \in DOMAIN f.branches /\ About(entries, i.args[1]) # 0
  <2> HIDE DEF b
  <2> QED BY <1>1, <1>3
<1>5. ASSUME b # 0 PROVE e.itvT.range \in RangeRecords /\ e.itvF.range \in RangeRecords
  <2>1. PICK S : /\ entries \in Seq(S)
                 /\ \A x \in S : x.itvT.range \in RangeRecords /\ x.itvF.range \in RangeRecords
    <3>1. f.branches[b].rhs \in DOMAIN f.consts => f.bits[f.branches[b].lhs] \in 1 .. W
      BY <1>4, <1>5
    <3> HIDE DEF b
    <3> QED BY <3>1, EntryRanges
  <2> HIDE DEF entries, b
  <2>2. Len(entries) \in Nat
    BY <2>1
  <2>3. About(entries, i.args[1]) \in 1 .. Len(entries)
    BY <1>4, <1>5, <2>2, AboutFacts
  <2>4. e \in S
    BY <2>1, <2>3
  <2> QED BY <2>1, <2>4
<1>6. Basic(FullRange).range \in RangeRecords
  BY NamedRanges DEF Basic, KnownRanges
<1>7. b = 0 => SwitchInterval(f, i.args[1], i.block).range \in RangeRecords
  BY SwitchRange
<1>8. SigmaInterval(f, v) =
        CASE b # 0 /\ i.block = e.t                   -> e.itvT
          [] b # 0 /\ i.block # e.t /\ i.block = e.f  -> e.itvF
          [] b # 0 /\ i.block \notin {e.t, e.f}       -> Basic(FullRange)
          [] b = 0 -> SwitchInterval(f, i.args[1], i.block)
  BY DEF SigmaInterval
<1> HIDE DEF b, e
<1> QED BY <1>5, <1>6, <1>7, <1>8

-----------------------------------------------------------------------------
(***************************************************************************)
(* The function under analysis, and what its operations read.              *)
(***************************************************************************)
(* The function under analysis, its graph and its intervals.               *)
BuiltInv ==
  /\ VarNodes = Vars(fn)
  /\ cg.useMap = [v \in Vars(fn) |-> Uses(fn, v)] /\ cg.graph = GraphOf(fn)
  /\ DOMAIN cg.itv = Sigmas(fn) /\ \A s \in Sigmas(fn) : cg.itv[s].range \in RangeRecords
  /\ DOMAIN fn.consts \cap DOMAIN fn.insts = {}
  /\ \A c \in DOMAIN fn.consts : fn.consts[c] \in Values
  /\ \A v \in Nodes(fn) :
       /\ fn.insts[v].op \in {"trunc", "zext", "sext"} => fn.bits[v] \in 1 .. W
       /\ fn.insts[v].op = "phi" => IsSequence(fn.insts[v].args) /\ fn.insts[v].args # <<>>

RangesInv ==
  /\ range \in [VarNodes -> RangeRecords]
  /\ isect \in [Sigmas(fn) -> RangeRecords]

(* The initial states have both.                                           *)
LEMMA BuiltInit == Init => BuiltInv /\ RangesInv
<1> SUFFICES ASSUME Init PROVE BuiltInv /\ RangesInv
  OBVIOUS
<1>1. PICK p \in DOMAIN Functions : cg = Built[p]
  BY DEF Init
<1> DEFINE f == Functions[p]
<1>2. /\ cg.fn = f /\ cg.graph = GraphOf(f)
      /\ cg.useMap = [v \in Vars(f) |-> Uses(f, v)]
      /\ cg.itv = [s \in Sigmas(f) |-> SigmaInterval(f, s)]
  BY <1>1 DEF Built
<1>3. fn = f /\ VarNodes = Vars(f) /\ getMaxBitWidth(f) = W
  BY <1>2 DEF fn, VarNodes, Init
<1>4. /\ f.consts \in [DOMAIN f.consts -> Values] /\ DOMAIN f.consts \cap DOMAIN f.insts = {}
      /\ \A v \in Nodes(f) :
           /\ f.insts[v].op \in {"trunc", "zext", "sext"} => f.bits[v] \in 1 .. W
           /\ f.insts[v].op = "phi" => IsSequence(f.insts[v].args) /\ f.insts[v].args # <<>>
      /\ IsSequence(f.branches) /\ IsSequence(f.switches)
      /\ \A b \in DOMAIN f.branches :
           f.branches[b].rhs \in DOMAIN f.consts => f.bits[f.branches[b].lhs] \in 1 .. W
      /\ \A s \in DOMAIN f.switches :
           LET cases == f.switches[s].cases
           IN  IsSequence(cases) /\ \A k \in DOMAIN cases : cases[k].value \in Values
  BY <1>3, FunctionAssumption
<1> HIDE DEF f
<1>5. \A s \in Sigmas(f) : SigmaInterval(f, s).range \in RangeRecords
  BY <1>4, SigmaRange
<1>6. \A c \in DOMAIN f.consts : f.consts[c] \in Values
  BY <1>4
<1>7. BuiltInv
  BY <1>2, <1>3, <1>4, <1>5, <1>6 DEF BuiltInv
<1>8. \A v \in VarNodes : InitialRange(f, v) \in RangeRecords
  BY <1>6, RangeOfKnown, NamedRanges DEF InitialRange, KnownRanges
<1>9. RangesInv
  BY <1>2, <1>3, <1>5, <1>8 DEF Init, RangesInv
<1> QED BY <1>7, <1>9

(* What an operation reads has a node of its own.                          *)
LEMMA SourceFacts ==
  ASSUME BuiltInv, NEW s \in Nodes(fn)
  PROVE  LET i == fn.insts[s] IN
         /\ SourceSet(i) \subseteq VarNodes /\ s \in VarNodes
         /\ i.op \in ValidOpcodes
         /\ i.op # "phi" => Sources(i)[1] \in SourceSet(i)
         /\ i.op \in BinaryOpcodes => Sources(i)[2] \in SourceSet(i)
         /\ i.op = "phi" => \A k \in DOMAIN i.args : Sources(i)[k] \in SourceSet(i)
<1> DEFINE i == fn.insts[s]
<1>1. i.op \in ValidOpcodes
  BY DEF Nodes
<1>2. VarNodes = Vars(fn) /\ s \in Vars(fn) /\ SourceSet(i) \subseteq Vars(fn)
  BY DEF BuiltInv, Vars
<1> HIDE DEF i
<1>3. SourceSet(i) = {Sources(i)[k] : k \in DOMAIN Sources(i)}
  BY DEF SourceSet, Seqs!ToSet
<1>4. CASE i.op = "phi"
  <2>1. Sources(i) = i.args
    BY <1>4 DEF Sources, UnaryOpcodes, BinaryOpcodes
  <2>2. i.op \notin BinaryOpcodes
    BY <1>4 DEF BinaryOpcodes
  <2> QED BY <1>1, <1>2, <1>3, <1>4, <2>1, <2>2 DEF i
<1>5. CASE i.op \in BinaryOpcodes
  <2>1. Sources(i) = <<i.args[1], i.args[2]>>
    BY <1>5 DEF Sources, UnaryOpcodes, BinaryOpcodes
  <2>2. 1 \in DOMAIN Sources(i) /\ 2 \in DOMAIN Sources(i)
    BY <2>1
  <2>3. i.op # "phi"
    BY <1>5 DEF BinaryOpcodes
  <2> QED BY <1>1, <1>2, <1>3, <2>2, <2>3 DEF i
<1>6. CASE i.op \in UnaryOpcodes \cup {"sigma"}
  <2>1. Sources(i) = <<i.args[1]>> \/ Sources(i) = <<i.args[2]>>
    BY <1>6 DEF Sources, UnaryOpcodes, BinaryOpcodes
  <2>2. 1 \in DOMAIN Sources(i)
    BY <2>1
  <2>3. i.op # "phi" /\ i.op \notin BinaryOpcodes
    BY <1>6 DEF BinaryOpcodes, UnaryOpcodes
  <2> QED BY <1>1, <1>2, <1>3, <2>2, <2>3 DEF i
<1> QED BY <1>1, <1>4, <1>5, <1>6 DEF ValidOpcodes

(* An operation makes a range of ranges, and a known one of known ones.    *)
LEMMA EvalRange ==
  ASSUME BuiltInv, RangesInv, NEW s \in Nodes(fn)
  PROVE  /\ eval(s) \in RangeRecords
         /\ (\A v \in SourceSet(fn.insts[s]) : ~isUnknown(range[v])) => ~isUnknown(eval(s))
<1> DEFINE i == fn.insts[s]
           source(k) == range[Sources(i)[k]]
           known == \A v \in SourceSet(i) : ~isUnknown(range[v])
<1>1. /\ SourceSet(i) \subseteq VarNodes
      /\ i.op \in ValidOpcodes
      /\ i.op # "phi" => Sources(i)[1] \in SourceSet(i)
      /\ i.op \in BinaryOpcodes => Sources(i)[2] \in SourceSet(i)
      /\ i.op = "phi" => \A k \in DOMAIN i.args : Sources(i)[k] \in SourceSet(i)
  BY SourceFacts
<1>2. \A v \in SourceSet(i) : range[v] \in RangeRecords /\ (known => ~isUnknown(range[v]))
  BY <1>1 DEF RangesInv
<1>3. CASE i.op = "sigma"
  <2>1. s \in Sigmas(fn)
    BY <1>3 DEF Sigmas
  <2>2. isect[s] \in RangeRecords
    BY <2>1 DEF RangesInv
  <2>3. source(1) \in RangeRecords /\ (known => ~isUnknown(source(1)))
    BY <1>1, <1>2, <1>3
  <2>4. eval(s) = intersectWith(source(1), isect[s])
    BY <1>3 DEF eval, SigmaEval, BinaryOpcodes, UnaryOpcodes
  <2> HIDE DEF source, known
  <2>5. eval(s) \in RangeRecords /\ (known => ~isUnknown(eval(s)))
    BY <2>2, <2>3, <2>4, MeetRange
  <2> QED BY <2>5 DEF known
<1>4. CASE i.op = "phi"
  <2> DEFINE n == Len(i.args)
             ps == [k \in DOMAIN i.args |-> source(k)]
  <2>1. n \in Nat \ {0} /\ DOMAIN i.args = 1 .. n
    <3>1. IsSequence(i.args) /\ i.args # <<>>
      BY <1>4 DEF BuiltInv
    <3> HIDE DEF i
    <3> QED BY <3>1, SequenceFacts
  <2>2. \A k \in 1 .. n : source(k) \in RangeRecords /\ (known => ~isUnknown(source(k)))
    BY <1>1, <1>2, <1>4, <2>1
  <2>3. eval(s) = PhiEval(ps)
    BY <1>4 DEF eval, BinaryOpcodes, UnaryOpcodes
  <2> HIDE DEF source, known, i, n
  <2>4. ps \in [1 .. n -> RangeRecords] /\ \A k \in 1 .. n : ps[k] = source(k)
    BY <2>1, <2>2
  <2> HIDE DEF ps
  <2>5. PhiEval(ps) \in RangeRecords
    BY <2>1, <2>2, <2>4, PhiIn
  <2>6. ASSUME known PROVE PhiEval(ps) \in KnownRanges
    <3>1. \A k \in 1 .. n : ps[k] \in KnownRanges
      BY <2>2, <2>4, <2>6 DEF KnownRanges
    <3> QED BY <2>1, <2>4, <3>1, PhiIn
  <2>7. eval(s) \in RangeRecords /\ (known => ~isUnknown(eval(s)))
    BY <2>3, <2>5, <2>6 DEF KnownRanges
  <2> QED BY <2>7 DEF known, i
<1>5. CASE i.op \in BinaryOpcodes
  <2>1. /\ source(1) \in RangeRecords /\ (known => ~isUnknown(source(1)))
        /\ source(2) \in RangeRecords /\ (known => ~isUnknown(source(2)))
    <3>1. i.op # "phi"
      BY <1>5 DEF BinaryOpcodes
    <3> HIDE DEF i, known
    <3> QED BY <1>1, <1>2, <1>5, <3>1
  <2>2. eval(s) = BinaryEval(i.op, source(1), source(2))
    BY <1>5 DEF eval, BinaryOpcodes, UnaryOpcodes
  <2> HIDE DEF source, known
  <2>3. eval(s) \in RangeRecords /\ (known => ~isUnknown(eval(s)))
    BY <1>5, <2>1, <2>2, BinaryRange
  <2> QED BY <2>3 DEF known
<1>6. CASE i.op \in UnaryOpcodes
  <2>1. source(1) \in RangeRecords /\ (known => ~isUnknown(source(1)))
    <3>1. i.op # "phi"
      BY <1>6 DEF UnaryOpcodes
    <3> HIDE DEF i, known
    <3> QED BY <1>1, <1>2, <3>1
  <2>2. eval(s) = UnaryEval(i.op, source(1), fn.bits[s])
    BY <1>6 DEF eval, BinaryOpcodes, UnaryOpcodes
  <2>3. i.op \in {"trunc", "zext", "sext"} => fn.bits[s] \in 1 .. W
    BY DEF BuiltInv
  <2> HIDE DEF source, known, i
  <2>4. eval(s) \in RangeRecords /\ (known => ~isUnknown(eval(s)))
    BY <1>6, <2>1, <2>2, <2>3, UnaryRange, UnaryKnown DEF KnownRanges
  <2> QED BY <2>4 DEF known, i
<1> QED BY <1>1, <1>3, <1>4, <1>5, <1>6 DEF ValidOpcodes

(* It reads nothing but its sources and the intersection.                  *)
LEMMA EvalReads ==
  ASSUME BuiltInv, NEW s \in Nodes(fn), UNCHANGED <<cg, isect>>,
         \A v \in SourceSet(fn.insts[s]) : range'[v] = range[v]
  PROVE  eval(s)' = eval(s)
<1> DEFINE i == fn.insts[s]
<1>1. /\ i.op \in ValidOpcodes
      /\ i.op # "phi" => Sources(i)[1] \in SourceSet(i)
      /\ i.op \in BinaryOpcodes => Sources(i)[2] \in SourceSet(i)
      /\ i.op = "phi" => \A k \in DOMAIN i.args : Sources(i)[k] \in SourceSet(i)
  BY SourceFacts
<1>2. fn' = fn /\ isect' = isect
  BY DEF fn
<1>3. CASE i.op = "sigma"
  BY <1>1, <1>2, <1>3 DEF eval, BinaryOpcodes, UnaryOpcodes
<1>4. CASE i.op = "phi"
  <2> DEFINE old == [k \in DOMAIN i.args |-> range[Sources(i)[k]]]
             new == [k \in DOMAIN i.args |-> range'[Sources(i)[k]]]
  <2>1. eval(s) = PhiEval(old)
    BY <1>4 DEF eval, BinaryOpcodes, UnaryOpcodes
  <2>2. eval(s)' = PhiEval(new)
    BY <1>2, <1>4 DEF eval, BinaryOpcodes, UnaryOpcodes
  <2>3. old = new
    BY <1>1, <1>4
  <2> QED BY <2>1, <2>2, <2>3
<1>5. CASE i.op \in BinaryOpcodes
  <2>1. range'[Sources(i)[1]] = range[Sources(i)[1]] /\ range'[Sources(i)[2]] = range[Sources(i)[2]]
    BY <1>1, <1>5 DEF BinaryOpcodes
  <2> QED BY <1>2, <1>5, <2>1 DEF eval, BinaryOpcodes, UnaryOpcodes
<1>6. CASE i.op \in UnaryOpcodes
  <2>1. range'[Sources(i)[1]] = range[Sources(i)[1]]
    BY <1>1, <1>6 DEF UnaryOpcodes
  <2> QED BY <1>2, <1>6, <2>1 DEF eval, BinaryOpcodes, UnaryOpcodes
<1> QED BY <1>1, <1>3, <1>4, <1>5, <1>6 DEF ValidOpcodes

-----------------------------------------------------------------------------
(***************************************************************************)
(* The order of the components.                                            *)
(***************************************************************************)
(* The graph is that of a function: an edge to every use.                  *)
GraphInv ==
  /\ VarNodes \subseteq DOMAIN cg.graph
  /\ \A v \in VarNodes : cg.useMap[v] \subseteq cg.graph[v] \cap VarNodes

(* What is still to come uses nothing that is done, and neither does the   *)
(* component; so no operation that is due has its sink in what is done.    *)
OrderInv ==
  /\ \A v \in pending : cg.useMap[v] \subseteq pending
  /\ \A v \in comp : cg.useMap[v] \subseteq pending \cup comp
  /\ todo \subseteq pending \cup comp
  /\ phase # "propagate" => todo \subseteq comp
  /\ active \subseteq comp

ShapeInv ==
  /\ pending \subseteq VarNodes /\ comp \subseteq VarNodes
  /\ DOMAIN range = VarNodes
  /\ phase = "pick" => todo = {} /\ active = {} /\ comp = {}

Inv == GraphInv /\ OrderInv /\ ShapeInv

(* The initial states have it.                                             *)
LEMMA InitInv == Init => Inv
<1> SUFFICES ASSUME Init PROVE Inv
  OBVIOUS
<1>1. PICK p \in DOMAIN Functions : cg = Built[p]
  BY DEF Init
<1> DEFINE f == Functions[p]
<1>2. /\ cg.graph = GraphOf(f)
      /\ cg.useMap = [v \in Vars(f) |-> Uses(f, v)]
  BY <1>1 DEF Built
<1>3. VarNodes = Vars(f)
  BY <1>2 DEF VarNodes
<1>4. Nodes(f) \subseteq Vars(f)
  BY DEF Vars
<1>5. ASSUME NEW v \in VarNodes PROVE cg.useMap[v] \subseteq cg.graph[v] \cap VarNodes
  <2>1. cg.useMap[v] = Uses(f, v)
    BY <1>2, <1>3
  <2>2. cg.graph[v] = Uses(f, v) \cup BoundedBy(f, v)
    BY <1>2, <1>3 DEF GraphOf
  <2>3. Uses(f, v) \subseteq Nodes(f)
    BY DEF Uses
  <2> QED BY <2>1, <2>2, <2>3, <1>3, <1>4
<1>6. GraphInv
  BY <1>2, <1>3, <1>5 DEF GraphInv, GraphOf
<1>7. OrderInv /\ ShapeInv
  BY <1>5 DEF Init, OrderInv, ShapeInv
<1> QED BY <1>6, <1>7 DEF Inv

Kept == \A v \in VarNodes \ (pending \cup comp) : range'[v] = range[v]

(* What a meet does to one sink of the component.                          *)
LEMMA SetKeeps ==
  ASSUME Inv, NEW s \in todo, NEW new, phase \notin {"pick", "propagate"}, Set(s, new)
  PROVE  Inv' /\ Kept
BY DEF Inv, GraphInv, OrderInv, ShapeInv, Set, VarNodes, Kept

(* Every step has it, and leaves the ranges alone that are done.           *)
LEMMA StepInv == Inv /\ [Next]_vars => Inv' /\ (Next => Kept)
<1> SUFFICES ASSUME Inv, [Next]_vars PROVE Inv' /\ (Next => Kept)
  OBVIOUS
<1> USE DEF Inv, GraphInv, OrderInv, ShapeInv, VarNodes
<1>1. ASSUME NEW C \in cg.components, Alone(C) PROVE Inv' /\ Kept
  BY <1>1 DEF Alone, Ready, Filled, Kept
<1>2. ASSUME NEW C \in cg.components, Together(C) PROVE Inv' /\ Kept
  BY <1>2 DEF Together, Ready, Kept
<1>3. ASSUME NEW v \in VarNodes, Enter(v) PROVE Inv' /\ Kept
  BY <1>3 DEF Enter, Kept
<1>4. ASSUME NEW v \in VarNodes, Take(v) PROVE Inv' /\ Kept
  BY <1>4 DEF Take, Kept
<1>5. ASSUME NEW v \in VarNodes, Widen(v) PROVE Inv' /\ Kept
  <2>1. PICK new : Set(v, new)
    BY <1>5 DEF Widen
  <2> QED BY <1>5, <2>1, SetKeeps DEF Widen
<1>6. ASSUME NEW v \in VarNodes, Narrow(v) PROVE Inv' /\ Kept
  <2>1. PICK new : Set(v, new)
    BY <1>6 DEF Narrow
  <2> QED BY <1>6, <2>1, SetKeeps DEF Narrow
<1>7. ASSUME NEW v \in VarNodes, Propagate(v) PROVE Inv' /\ Kept
  BY <1>7 DEF Propagate, Kept
<1>8. ASSUME Fix PROVE Inv' /\ Kept
  BY <1>8 DEF Fix, Settled, Filled, Kept
<1>9. ASSUME Leave PROVE Inv' /\ Kept
  BY <1>9 DEF Leave, Settled, Kept
<1>10. ASSUME EndComponent PROVE Inv' /\ Kept
  BY <1>10 DEF EndComponent, Settled, Kept
<1>11. ASSUME UNCHANGED vars PROVE Inv'
  BY <1>11 DEF vars
<1>12. ASSUME Next PROVE Inv' /\ Kept
  BY <1>1, <1>2, <1>3, <1>4, <1>5, <1>6, <1>7, <1>8, <1>9, <1>10, <1>12 DEF Next
<1> QED BY <1>11, <1>12

(* propagateToNextSCC evaluates the uses of a component without asking     *)
(* where their sinks are; the order of the components alone makes sure     *)
(* that none is in a component already left.                               *)
THEOREM RangesAreFinal == Spec => LeftAlone
<1>1. Init => Inv
  BY InitInv
<1>2. Inv /\ [Next]_vars => Inv'
  BY StepInv
<1>3. Inv /\ [Next]_vars =>
        [\A v \in VarNodes \ (pending \cup comp) : range'[v] = range[v]]_vars
  BY StepInv DEF Kept
<1> QED BY <1>1, <1>2, <1>3, PTL DEF Spec, LeftAlone

-----------------------------------------------------------------------------
(***************************************************************************)
(* Types.                                                                  *)
(***************************************************************************)
(* What is due are operations, but while the component is entered.         *)
DueInv == phase # "enter" => todo \subseteq Nodes(fn)
TypeInv == TypeOK /\ DueInv

(* Where a bound that moves may stop.                                      *)
LEMMA JumpFacts ==
  ASSUME BuiltInv, RangesInv, NEW x \in Values
  PROVE  /\ FirstLess(x) \in Values /\ FirstLess(x) <= x
         /\ FirstGreater(x) \in Values /\ x <= FirstGreater(x)
<1>1. JumpSet \subseteq Values
  <2>1. \A s \in comp \cap Nodes(fn) : isSigma(s) => isect[s].l \in Values /\ isect[s].u \in Values
    BY RangeParts DEF BuiltInv, RangesInv, isSigma
  <2>2. \A c \in DOMAIN fn.consts : fn.consts[c] \in Values
    BY DEF BuiltInv
  <2> QED BY <2>1, <2>2 DEF JumpSet
<1> DEFINE below == {Min} \cup {c \in JumpSet : c <= x}
           above == {Max} \cup {c \in JumpSet : c >= x}
<1>2. below \subseteq Values /\ below # {} /\ \A c \in below : c <= x
  BY <1>1, SomeValues, ValuesAreInts
<1>3. above \subseteq Values /\ above # {} /\ \A c \in above : x <= c
  BY <1>1, SomeValues, ValuesAreInts
<1>4. FirstLess(x) = Greatest(below) /\ FirstGreater(x) = Least(above)
  BY DEF FirstLess, FirstGreater
<1> HIDE DEF below, above
<1>5. Greatest(below) \in below /\ Least(above) \in above
  BY <1>2, <1>3, LeastValue, GreatestValue
<1> QED BY <1>2, <1>3, <1>4, <1>5

(* Both meets leave a range; a known one, where the old or the new one is  *)
(* known.                                                                  *)
LEMMA MeetsRange ==
  ASSUME BuiltInv, RangesInv, NEW old \in RangeRecords, NEW new \in RangeRecords
  PROVE  /\ Widened(old, new) \in RangeRecords /\ Narrowed(old, new) \in RangeRecords
         /\ ~isUnknown(old) => ~isUnknown(Narrowed(old, new))
<1>1. new.l \in Values /\ new.u \in Values /\ old.l \in Values /\ old.u \in Values
  BY RangeParts
<1>2. FirstLess(new.l) \in Values /\ FirstGreater(new.u) \in Values
  BY <1>1, JumpFacts
<1>3. Widened(old, new) \in RangeRecords
  <2> DEFINE down == new.l < old.l
             up == new.u > old.u
             moved == RangeOf(IF down THEN FirstLess(new.l) ELSE old.l,
                              IF up THEN FirstGreater(new.u) ELSE old.u)
  <2>1. moved \in KnownRanges
    BY <1>1, <1>2, RangeOfKnown
  <2>2. Widened(old, new) \in {old, new, moved}
    BY DEF Widened
  <2> QED BY <2>1, <2>2 DEF KnownRanges
<1>4. Narrowed(old, new) = old \/ Narrowed(old, new) \in KnownRanges
  BY <1>1, RangeOfKnown DEF Narrowed
<1> QED BY <1>3, <1>4 DEF KnownRanges

(* The range that fixIntersects gives to a sigma.                          *)
LEMMA FixedRange ==
  ASSUME NEW b \in RangeRecords, NEW sink \in RangeRecords, NEW pred
  PROVE  FixedBy(pred, b, sink) \in RangeRecords
<1>1. b.l \in Values /\ b.u \in Values /\ sink.l \in Values /\ sink.u \in Values
  BY RangeParts
<1>2. b.u - 1 \in Int /\ b.l + 1 \in Int
  <2>1. b.u \in Int /\ b.l \in Int
    BY <1>1, ValuesAreInts
  <2> QED BY <2>1
<1>3. Wrap(b.u - 1) \in Values /\ Wrap(b.l + 1) \in Values
  BY <1>2, WrapValue
<1>4. /\ RangeOf(b.l, b.u) \in RangeRecords /\ RangeOf(sink.l, b.u) \in RangeRecords
      /\ RangeOf(b.l, sink.u) \in RangeRecords /\ FullRange \in RangeRecords
      /\ RangeOf(sink.l, Wrap(b.u - 1)) \in RangeRecords
      /\ RangeOf(Wrap(b.l + 1), sink.u) \in RangeRecords
  BY <1>1, <1>3, RangeOfKnown, NamedRanges DEF KnownRanges
<1>5. FixedBy(pred, b, sink) \in
        {RangeOf(b.l, b.u), RangeOf(sink.l, b.u), RangeOf(b.l, sink.u), FullRange,
         RangeOf(sink.l, Wrap(b.u - 1)), RangeOf(Wrap(b.l + 1), sink.u)}
  BY DEF FixedBy
<1> QED BY <1>4, <1>5

(* fixIntersects, and the filling in of what is unknown.                   *)
LEMMA FixedAndFilled ==
  ASSUME BuiltInv, RangesInv, NEW C, C \subseteq VarNodes
  PROVE  /\ Fixed(C) \in [Sigmas(fn) -> RangeRecords]
         /\ Filled(C) \in [VarNodes -> RangeRecords]
         /\ \A v \in C : ~isUnknown(Filled(C)[v])
         /\ \A v \in VarNodes \ C : Filled(C)[v] = range[v]
<1>1. Sigmas(fn) \subseteq VarNodes
  BY DEF BuiltInv, Sigmas, Vars
<1>2. \A s \in Sigmas(fn) : bound(s) \in C =>
        FixedBy(cg.itv[s].pred, range[bound(s)], range[s]) \in RangeRecords
  BY <1>1, FixedRange DEF RangesInv
<1>3. Fixed(C) \in [Sigmas(fn) -> RangeRecords]
  BY <1>2 DEF Fixed, RangesInv
<1>4. FullRange \in RangeRecords /\ ~isUnknown(FullRange)
  BY NamedRanges DEF KnownRanges
<1>5. Filled(C) \in [VarNodes -> RangeRecords]
  BY <1>4 DEF Filled, RangesInv
<1> QED BY <1>3, <1>4, <1>5 DEF Filled

(* A meet keeps the types.                                                 *)
LEMMA SetTypes ==
  ASSUME Inv, BuiltInv, TypeInv, NEW s \in todo, NEW new \in RangeRecords,
         phase \in {"widen", "narrow"}, Set(s, new)
  PROVE  TypeInv'
<1>1. s \in comp /\ s \in Nodes(fn)
  BY DEF Inv, OrderInv, TypeInv, DueInv
<1> QED BY <1>1 DEF Set, TypeInv, TypeOK, DueInv, fn, VarNodes

(* No step changes the graph.                                              *)
LEMMA BuiltStep == BuiltInv /\ [Next]_vars => BuiltInv'
<1> SUFFICES ASSUME BuiltInv, [Next]_vars PROVE BuiltInv'
  OBVIOUS
<1>1. cg' = cg
  BY DEF Next, vars, Alone, Together, Enter, Take, Widen, Narrow, Set, Propagate, Fix, Leave,
         EndComponent
<1> QED BY <1>1 DEF BuiltInv, fn, VarNodes

(* Every step keeps the types.                                             *)
LEMMA StepTypes == Inv /\ BuiltInv /\ TypeInv /\ [Next]_vars => TypeInv'
<1> SUFFICES ASSUME Inv, BuiltInv, TypeInv, [Next]_vars PROVE TypeInv'
  OBVIOUS
<1>0. /\ RangesInv
      /\ Sigmas(fn) \subseteq Nodes(fn) /\ Nodes(fn) \subseteq VarNodes
  BY DEF TypeInv, TypeOK, RangesInv, BuiltInv, Sigmas, Vars
<1>1. ASSUME NEW C \in cg.components, Alone(C) PROVE TypeInv'
  <2>1. C \subseteq pending /\ pending \subseteq VarNodes
    BY <1>1 DEF Alone, Ready, TypeInv, TypeOK
  <2>2. /\ Fixed(C) \in [Sigmas(fn) -> RangeRecords]
        /\ Filled(C) \in [VarNodes -> RangeRecords]
    BY <1>0, <2>1, FixedAndFilled
  <2> QED BY <1>1, <2>1, <2>2 DEF Alone, Ready, TypeInv, TypeOK, DueInv, fn, VarNodes, Inv, ShapeInv
<1>2. ASSUME NEW C \in cg.components, Together(C) PROVE TypeInv'
  BY <1>2 DEF Together, Ready, TypeInv, TypeOK, DueInv, fn, VarNodes, Inv, ShapeInv
<1>3. ASSUME NEW v \in VarNodes, Enter(v) PROVE TypeInv'
  <2>1. v \in unresolved => eval(v) \in RangeRecords
    BY <1>0, EvalRange DEF TypeInv, TypeOK
  <2>2. range' \in [VarNodes -> RangeRecords]
    BY <1>0, <1>3, <2>1 DEF Enter, RangesInv
  <2>3. todo \subseteq comp
    BY <1>3 DEF Inv, OrderInv, Enter
  <2>4. active' \subseteq comp /\ todo' \subseteq todo /\ unresolved' \subseteq unresolved
    BY <1>3, <2>3 DEF Enter, TypeInv, TypeOK
  <2>5. phase' # "enter" => todo' = {}
    BY <1>3 DEF Enter
  <2> QED BY <1>3, <2>2, <2>4, <2>5 DEF Enter, TypeInv, TypeOK, DueInv, fn, VarNodes
<1>4. ASSUME NEW v \in VarNodes, Take(v) PROVE TypeInv'
  <2>1. cg.useMap[v] \subseteq Nodes(fn)
    BY DEF BuiltInv, Uses
  <2> QED BY <1>0, <1>4, <2>1 DEF Take, TypeInv, TypeOK, DueInv, fn, VarNodes
<1>5. ASSUME NEW v \in VarNodes, Widen(v) PROVE TypeInv'
  <2>1. phase = "widen" /\ v \in todo /\ Set(v, Widened(range[v], eval(v)))
    BY <1>5 DEF Widen
  <2>2. v \in Nodes(fn)
    BY <2>1 DEF TypeInv, DueInv
  <2>3. Widened(range[v], eval(v)) \in RangeRecords
    BY <1>0, <2>2, EvalRange, MeetsRange DEF RangesInv
  <2> QED BY <2>1, <2>3, SetTypes
<1>6. ASSUME NEW v \in VarNodes, Narrow(v) PROVE TypeInv'
  <2>1. phase = "narrow" /\ v \in todo /\ Set(v, Narrowed(range[v], eval(v)))
    BY <1>6 DEF Narrow
  <2>2. v \in Nodes(fn)
    BY <2>1 DEF TypeInv, DueInv
  <2>3. Narrowed(range[v], eval(v)) \in RangeRecords
    BY <1>0, <2>2, EvalRange, MeetsRange DEF RangesInv
  <2> QED BY <2>1, <2>3, SetTypes
<1>7. ASSUME NEW v \in VarNodes, Propagate(v) PROVE TypeInv'
  <2>1. v \in Nodes(fn)
    BY <1>7 DEF Propagate, TypeInv, DueInv
  <2>2. eval(v) \in RangeRecords
    BY <1>0, <2>1, EvalRange
  <2>3. unresolved' \subseteq Sigmas(fn)
    BY <1>7 DEF Propagate, isSigma, BuiltInv, TypeInv, TypeOK
  <2> QED BY <1>7, <2>2, <2>3 DEF Propagate, TypeInv, TypeOK, DueInv, fn, VarNodes
<1>8. ASSUME Fix PROVE TypeInv'
  <2>1. /\ Fixed(comp) \in [Sigmas(fn) -> RangeRecords]
        /\ Filled(comp) \in [VarNodes -> RangeRecords]
    BY <1>0, FixedAndFilled DEF TypeInv, TypeOK
  <2> QED BY <1>8, <2>1 DEF Fix, Settled, TypeInv, TypeOK, DueInv, fn, VarNodes
<1>9. ASSUME Leave PROVE TypeInv'
  BY <1>9 DEF Leave, Settled, TypeInv, TypeOK, DueInv, fn, VarNodes
<1>10. ASSUME EndComponent PROVE TypeInv'
  BY <1>10 DEF EndComponent, Settled, TypeInv, TypeOK, DueInv, fn, VarNodes
<1>11. ASSUME UNCHANGED vars PROVE TypeInv'
  BY <1>11 DEF vars, TypeInv, TypeOK, DueInv, fn, VarNodes
<1> QED BY <1>1, <1>2, <1>3, <1>4, <1>5, <1>6, <1>7, <1>8, <1>9, <1>10, <1>11 DEF Next

(* The three are one inductive invariant.                                  *)
LEMMA TypesAndOrder ==
  /\ Init => Inv /\ BuiltInv /\ TypeInv
  /\ Inv /\ BuiltInv /\ TypeInv /\ [Next]_vars => (Inv /\ BuiltInv /\ TypeInv)'
<1>1. Init => TypeInv
  BY BuiltInit DEF Init, RangesInv, TypeInv, TypeOK, DueInv, isSigma
<1> QED BY <1>1, BuiltInit, InitInv, StepInv, BuiltStep, StepTypes

(* Whatever the function, every interval and every intersection stays one  *)
(* of W bits, and what is due stays within the component.                  *)
THEOREM RangesTyped == Spec => []TypeOK
<1>1. Inv /\ BuiltInv /\ TypeInv => TypeOK
  BY DEF TypeInv
<1> QED BY <1>1, TypesAndOrder, PTL DEF Spec

-----------------------------------------------------------------------------
(***************************************************************************)
(* No range stays unknown.                                                 *)
(***************************************************************************)
(* Outside of what is to come and of the component nothing is unknown, and *)
(* from fixIntersects on nothing in the component is.                      *)
KnownInv ==
  /\ pending \cap comp = {}
  /\ \A v \in VarNodes \ (pending \cup comp) : ~isUnknown(range[v])
  /\ phase \in {"narrow", "propagate"} => \A v \in comp : ~isUnknown(range[v])

(* Every step has it: a use of what is done is done or to come, and what   *)
(* it reads is known.                                                      *)
LEMMA StepKnown == Inv /\ BuiltInv /\ TypeInv /\ KnownInv /\ [Next]_vars => KnownInv'
<1> SUFFICES ASSUME Inv, BuiltInv, TypeInv, KnownInv, [Next]_vars PROVE KnownInv'
  OBVIOUS
<1>0. RangesInv /\ Nodes(fn) \subseteq VarNodes
  BY DEF TypeInv, TypeOK, RangesInv, BuiltInv, Vars
<1>1. ASSUME NEW C \in cg.components, Alone(C) PROVE KnownInv'
  <2>1. C \subseteq VarNodes /\ comp = {}
    BY <1>1 DEF Alone, Ready, TypeInv, TypeOK, Inv, ShapeInv
  <2>2. /\ \A v \in C : ~isUnknown(Filled(C)[v])
        /\ \A v \in VarNodes \ C : Filled(C)[v] = range[v]
    BY <1>0, <2>1, FixedAndFilled
  <2> QED BY <1>1, <2>1, <2>2 DEF Alone, KnownInv, VarNodes
<1>2. ASSUME NEW C \in cg.components, Together(C) PROVE KnownInv'
  <2>1. comp = {}
    BY <1>2 DEF Together, Ready, Inv, ShapeInv
  <2> QED BY <1>2, <2>1 DEF Together, KnownInv, VarNodes
<1>3. ASSUME NEW v \in VarNodes, Enter(v) PROVE KnownInv'
  <2>1. v \in comp
    BY <1>3 DEF Enter, Inv, OrderInv
  <2> QED BY <1>3, <2>1 DEF Enter, KnownInv, VarNodes, TypeInv, TypeOK
<1>4. ASSUME NEW v \in VarNodes, Take(v) PROVE KnownInv'
  BY <1>4 DEF Take, KnownInv, VarNodes
<1>5. ASSUME NEW v \in VarNodes, Widen(v) PROVE KnownInv'
  <2>1. v \in comp /\ phase = "widen" /\ Set(v, Widened(range[v], eval(v)))
    BY <1>5 DEF Widen, Inv, OrderInv
  <2> QED BY <2>1 DEF Set, KnownInv, VarNodes, TypeInv, TypeOK
<1>6. ASSUME NEW v \in VarNodes, Narrow(v) PROVE KnownInv'
  <2> DEFINE new == Narrowed(range[v], eval(v))
  <2>1. v \in comp /\ phase = "narrow" /\ v \in todo /\ Set(v, new)
    BY <1>6 DEF Narrow, Inv, OrderInv
  <2>2. v \in Nodes(fn) /\ ~isUnknown(range[v])
    BY <2>1 DEF TypeInv, DueInv, KnownInv
  <2>3. ~isUnknown(new)
    BY <1>0, <2>2, EvalRange, MeetsRange DEF RangesInv
  <2> HIDE DEF new
  <2> QED BY <2>1, <2>3 DEF Set, KnownInv, VarNodes, TypeInv, TypeOK
<1>7. ASSUME NEW v \in VarNodes, Propagate(v) PROVE KnownInv'
  <2>1. v \in Nodes(fn) /\ v \in todo /\ phase = "propagate" /\ v \in pending \cup comp
    BY <1>7 DEF Propagate, TypeInv, DueInv, Inv, OrderInv
  <2>2. ASSUME v \notin pending, NEW u \in SourceSet(fn.insts[v]) PROVE ~isUnknown(range[u])
    <3>1. u \in VarNodes
      BY <2>1, SourceFacts
    <3>2. v \in cg.useMap[u]
      BY <2>1, <3>1 DEF BuiltInv, Uses
    <3>3. u \notin pending
      BY <2>2, <3>2 DEF Inv, OrderInv
    <3> QED BY <2>1, <3>1, <3>3 DEF KnownInv
  <2>3. v \notin pending => ~isUnknown(eval(v))
    BY <1>0, <2>1, <2>2, EvalRange
  <2> QED BY <1>7, <2>1, <2>3 DEF Propagate, KnownInv, VarNodes, TypeInv, TypeOK
<1>8. ASSUME Fix PROVE KnownInv'
  <2>1. comp \subseteq VarNodes
    BY DEF TypeInv, TypeOK
  <2>2. /\ \A v \in comp : ~isUnknown(Filled(comp)[v])
        /\ \A v \in VarNodes \ comp : Filled(comp)[v] = range[v]
    BY <1>0, <2>1, FixedAndFilled
  <2> QED BY <1>8, <2>2 DEF Fix, KnownInv, VarNodes
<1>9. ASSUME Leave PROVE KnownInv'
  BY <1>9 DEF Leave, KnownInv, VarNodes
<1>10. ASSUME EndComponent PROVE KnownInv'
  BY <1>10 DEF EndComponent, KnownInv, VarNodes
<1>11. ASSUME UNCHANGED vars PROVE KnownInv'
  BY <1>11 DEF vars, KnownInv, VarNodes
<1> QED BY <1>1, <1>2, <1>3, <1>4, <1>5, <1>6, <1>7, <1>8, <1>9, <1>10, <1>11 DEF Next

(* "After this analysis runs, there will be no undefined interval": in     *)
(* whatever order the lists are walked, each value is given a range.       *)
THEOREM EveryRangeKnown == Spec => []NoneUnknown
<1>1. Init => KnownInv
  BY DEF Init, KnownInv
<1>2. Inv /\ KnownInv => NoneUnknown
  BY DEF Inv, ShapeInv, KnownInv, NoneUnknown, Done
<1> QED BY <1>1, <1>2, TypesAndOrder, StepKnown, PTL DEF Spec

(* A second meet with the same new range changes nothing more.             *)
LEMMA MeetsOnce ==
  ASSUME BuiltInv, RangesInv, NEW old \in RangeRecords, NEW new \in RangeRecords
  PROVE  /\ Widened(Widened(old, new), new) = Widened(old, new)
         /\ Narrowed(Narrowed(old, new), new) = Narrowed(old, new)
<1>1. new.l \in Values /\ new.u \in Values /\ old.l \in Values /\ old.u \in Values
  BY RangeParts
<1>2. new.l \in Int /\ new.u \in Int /\ old.l \in Int /\ old.u \in Int
  BY <1>1, ValuesAreInts
<1>3. Widened(Widened(old, new), new) = Widened(old, new)
  <2> DEFINE down == new.l < old.l
             up == new.u > old.u
             l == IF down THEN FirstLess(new.l) ELSE old.l
             u == IF up THEN FirstGreater(new.u) ELSE old.u
             w == Widened(old, new)
  <2>1. FirstLess(new.l) \in Values /\ FirstLess(new.l) <= new.l
    BY <1>1, JumpFacts
  <2>2. FirstGreater(new.u) \in Values /\ new.u <= FirstGreater(new.u)
    BY <1>1, JumpFacts
  <2>3. l \in Values /\ u \in Values /\ l <= new.l /\ new.u <= u
    BY <1>1, <1>2, <2>1, <2>2
  <2>4. /\ isUnknown(old) => w = new
        /\ ~isUnknown(old) /\ (down \/ up) => w = RangeOf(l, u)
        /\ ~isUnknown(old) /\ ~(down \/ up) => w = old
    BY DEF Widened
  <2>5. RangeOf(l, u).l = l /\ RangeOf(l, u).u = u /\ ~isUnknown(RangeOf(l, u))
    <3> HIDE DEF l, u
    <3> QED BY <2>3, RangeOfKnown DEF KnownRanges
  <2>6. ASSUME NEW r, ~isUnknown(r), r.l \in Int, r.u \in Int, r.l <= new.l, new.u <= r.u
        PROVE  Widened(r, new) = r
    <3>1. ~(new.l < r.l) /\ ~(new.u > r.u)
      BY <1>2, <2>6
    <3> QED BY <2>6, <3>1 DEF Widened
  <2>7. CASE isUnknown(old)
    <3>1. w = new
      BY <2>4, <2>7
    <3>2. isUnknown(new) => Widened(new, new) = new
      BY DEF Widened
    <3>3. ~isUnknown(new) => Widened(new, new) = new
      BY <1>2, <2>6
    <3> QED BY <3>1, <3>2, <3>3
  <2>8. CASE ~isUnknown(old) /\ (down \/ up)
    <3>1. w = RangeOf(l, u)
      BY <2>4, <2>8
    <3>2. Widened(RangeOf(l, u), new) = RangeOf(l, u)
      <4> HIDE DEF l, u
      <4> QED BY <2>3, <2>5, <2>6, ValuesAreInts
    <3> QED BY <3>1, <3>2
  <2>9. CASE ~isUnknown(old) /\ ~(down \/ up)
    <3>1. w = old
      BY <2>4, <2>9
    <3>2. old.l <= new.l /\ new.u <= old.u
      BY <1>2, <2>9
    <3> QED BY <1>2, <2>6, <2>9, <3>1, <3>2
  <2> QED BY <2>7, <2>8, <2>9
<1>4. Narrowed(Narrowed(old, new), new) = Narrowed(old, new)
  <2> DEFINE l == IF (old.l = Min /\ new.l # Min) \/ new.l < old.l THEN new.l ELSE old.l
             u == IF (old.u = Max /\ new.u # Max) \/ new.u > old.u THEN new.u ELSE old.u
  <2>1. l \in {new.l, old.l} /\ u \in {new.u, old.u}
    OBVIOUS
  <2>2. RangeOf(l, u).l = l /\ RangeOf(l, u).u = u
    BY DEF RangeOf
  <2>3. ASSUME NEW r, r.l = l, r.u = u PROVE Narrowed(r, new) = r
    <3>1. (IF (r.l = Min /\ new.l # Min) \/ new.l < r.l THEN new.l ELSE r.l) = r.l
      BY <1>2, <2>3
    <3>2. (IF (r.u = Max /\ new.u # Max) \/ new.u > r.u THEN new.u ELSE r.u) = r.u
      BY <1>2, <2>3
    <3> HIDE DEF l, u
    <3> QED BY <3>1, <3>2 DEF Narrowed
  <2>4. Narrowed(old, new) = IF l = old.l /\ u = old.u THEN old ELSE RangeOf(l, u)
    BY DEF Narrowed
  <2> HIDE DEF l, u
  <2> QED BY <2>2, <2>3, <2>4
<1> QED BY <1>3, <1>4

-----------------------------------------------------------------------------
(***************************************************************************)
(* The lists.                                                              *)
(***************************************************************************)
(* An operation is still to be done, or a value it reads is still active,  *)
(* or another meet would change nothing.                                   *)
Met(old, new) == IF phase = "widen" THEN Widened(old, new) ELSE Narrowed(old, new)
Due(s) == s \in todo \/ \E v \in SourceSet(fn.insts[s]) \cap comp : v \in active
Stable(s) == Met(range[s], eval(s)) = range[s]
WorkInv ==
  /\ phase = "enter" => \A v \in comp : ~isUnknown(range[v]) => v \in todo \cup active
  /\ phase \in {"widen", "narrow"} =>
       \A s \in comp \cap Nodes(fn) : FedFromInside(s) => Due(s) \/ Stable(s)

(* The jump set depends on the component and the intersections alone.      *)
LEMMA JumpReads == UNCHANGED <<cg, comp, isect>> => JumpSet' = JumpSet
BY DEF JumpSet, isSigma, bound, fn

(* A meet reads the old range, the new one and the jump set.               *)
LEMMA MetReads ==
  ASSUME UNCHANGED <<cg, comp, isect, phase>>, NEW s, NEW old, NEW new,
         range'[s] = old, eval(s)' = new
  PROVE  Met(range[s], eval(s))' = Met(old, new)
<1>1. JumpSet' = JumpSet
  BY JumpReads
<1>2. Widened(range[s], eval(s))' = Widened(old, new)
  BY <1>1 DEF Widened, FirstLess, FirstGreater
<1>3. Narrowed(range[s], eval(s))' = Narrowed(old, new)
  BY DEF Narrowed
<1> QED BY <1>2, <1>3 DEF Met

(* A meet keeps it: if the sink changes, all that read it are due, and the *)
(* operation itself is stable unless it is one of them.                    *)
LEMMA SetWork ==
  ASSUME Inv, BuiltInv, TypeInv, WorkInv, NEW s \in todo,
         phase \in {"widen", "narrow"}, Set(s, Met(range[s], eval(s)))
  PROVE  WorkInv'
<1> DEFINE w == Met(range[s], eval(s))
<1>1. /\ range' = [range EXCEPT ![s] = w]
      /\ active' = IF w # range[s] THEN active \cup {s} ELSE active
      /\ todo' = todo \ {s}
      /\ UNCHANGED <<cg, phase, pending, comp, isect, unresolved>>
  BY DEF Set
<1>2. /\ RangesInv /\ s \in Nodes(fn) /\ s \in VarNodes /\ s \in comp
      /\ comp \subseteq VarNodes /\ Nodes(fn)' = Nodes(fn) /\ fn' = fn
  BY <1>1 DEF TypeInv, TypeOK, DueInv, RangesInv, Inv, OrderInv, ShapeInv, fn
<1>3. Met(w, eval(s)) = w
  <2>1. eval(s) \in RangeRecords /\ range[s] \in RangeRecords
    BY <1>2, EvalRange DEF RangesInv
  <2> QED BY <1>2, <2>1, MeetsOnce DEF Met
<1> HIDE DEF w
<1>4. SUFFICES ASSUME NEW t \in comp \cap Nodes(fn), FedFromInside(t)', ~Due(t)'
               PROVE  Stable(t)'
  BY <1>1, <1>2 DEF WorkInv
<1>5. t \in VarNodes /\ SourceSet(fn.insts[t]) \subseteq VarNodes
  BY <1>2, SourceFacts
<1>6. range'[s] = w /\ \A v \in VarNodes : v # s => range'[v] = range[v]
  BY <1>1, <1>2 DEF RangesInv
<1>7. \A v \in SourceSet(fn.insts[t]) : range'[v] = range[v]
  <2>1. CASE s \in SourceSet(fn.insts[t])
    <3>1. s \notin active'
      BY <1>1, <1>2, <1>4, <2>1 DEF Due
    <3>2. range'[s] = range[s]
      BY <1>1, <1>6, <3>1
    <3> QED BY <1>5, <1>6, <3>2
  <2>2. CASE s \notin SourceSet(fn.insts[t])
    BY <1>5, <1>6, <2>2
  <2> QED BY <2>1, <2>2
<1>8. eval(t)' = eval(t)
  BY <1>1, <1>7, EvalReads
<1>9. CASE t = s
  <2>1. Met(range[t], eval(t))' = Met(w, eval(s))
    BY <1>1, <1>6, <1>8, <1>9, MetReads
  <2> QED BY <1>3, <1>6, <1>9, <2>1 DEF Stable
<1>10. CASE t # s
  <2>1. range'[t] = range[t]
    BY <1>5, <1>6, <1>10
  <2>2. FedFromInside(t)
    BY <1>1, <1>2, <1>4, <1>7 DEF FedFromInside
  <2>3. ~Due(t)
    BY <1>1, <1>2, <1>4, <1>10 DEF Due
  <2>4. Stable(t)
    BY <2>2, <2>3 DEF WorkInv
  <2>5. Met(range[t], eval(t))' = Met(range[t], eval(t))
    BY <1>1, <1>8, <2>1, MetReads
  <2> QED BY <2>1, <2>4, <2>5 DEF Stable
<1> QED BY <1>9, <1>10

(* Every step has it.                                                      *)
LEMMA StepWork == Inv /\ BuiltInv /\ TypeInv /\ WorkInv /\ [Next]_vars => WorkInv'
<1> SUFFICES ASSUME Inv, BuiltInv, TypeInv, WorkInv, [Next]_vars PROVE WorkInv'
  OBVIOUS
<1>0. comp \subseteq VarNodes /\ RangesInv
  BY DEF TypeInv, TypeOK, RangesInv
<1>1. ASSUME NEW C \in cg.components, Alone(C) PROVE WorkInv'
  BY <1>1 DEF Alone, WorkInv
<1>2. ASSUME NEW C \in cg.components, Together(C) PROVE WorkInv'
  BY <1>2 DEF Together, WorkInv
<1>3. ASSUME NEW v \in VarNodes, Enter(v) PROVE WorkInv'
  <2>1. \A u \in comp : ~isUnknown(range'[u]) => u \in todo' \cup active'
    <3>1. \A u \in comp : u # v => range'[u] = range[u]
      BY <1>0, <1>3 DEF Enter, RangesInv
    <3> QED BY <1>3, <3>1 DEF Enter, WorkInv
  <2>2. CASE phase' = "enter"
    BY <1>3, <2>1, <2>2 DEF Enter, WorkInv
  <2>3. CASE phase' # "enter"
    <3>1. todo' = {} /\ comp' = comp /\ fn' = fn
      BY <1>3, <2>3 DEF Enter, fn
    <3>2. ASSUME NEW s \in comp \cap Nodes(fn), FedFromInside(s)' PROVE Due(s)'
      BY <2>1, <3>1, <3>2 DEF FedFromInside, Due
    <3> QED BY <2>3, <3>1, <3>2 DEF WorkInv
  <2> QED BY <2>2, <2>3
<1>4. ASSUME NEW v \in VarNodes, Take(v) PROVE WorkInv'
  <2>1. /\ UNCHANGED <<cg, phase, pending, comp, range, isect, unresolved>> /\ todo = {}
        /\ active' = active \ {v}
    BY <1>4 DEF Take
  <2>2. phase \in {"widen", "narrow"} => todo' = cg.useMap[v] \cap comp
    BY <1>4 DEF Take
  <2>3. phase # "enter" /\ fn' = fn
    BY <1>4 DEF Take, fn
  <2>4. SUFFICES ASSUME phase \in {"widen", "narrow"}, NEW s \in comp \cap Nodes(fn),
                        FedFromInside(s)
                 PROVE  Due(s)' \/ Stable(s)'
    BY <2>1, <2>3 DEF WorkInv, FedFromInside
  <2>5. CASE Due(s)
    <3>1. PICK u \in SourceSet(fn.insts[s]) \cap comp : u \in active
      BY <2>1, <2>5 DEF Due
    <3>2. CASE u = v
      <4>1. s \in cg.useMap[v]
        BY <3>1, <3>2 DEF BuiltInv, Uses
      <4> QED BY <2>2, <2>4, <4>1 DEF Due
    <3>3. CASE u # v
      BY <2>1, <2>3, <3>1, <3>3 DEF Due
    <3> QED BY <3>2, <3>3
  <2>6. CASE Stable(s)
    <3>1. eval(s)' = eval(s)
      BY <2>1, EvalReads
    <3>2. Met(range[s], eval(s))' = Met(range[s], eval(s))
      BY <2>1, <3>1, MetReads
    <3> QED BY <2>1, <2>6, <3>2 DEF Stable
  <2> QED BY <2>4, <2>5, <2>6 DEF WorkInv
<1>5. ASSUME NEW v \in VarNodes, Widen(v) PROVE WorkInv'
  <2>1. phase = "widen" /\ v \in todo /\ Set(v, Met(range[v], eval(v)))
    BY <1>5 DEF Widen, Met
  <2> QED BY <2>1, SetWork
<1>6. ASSUME NEW v \in VarNodes, Narrow(v) PROVE WorkInv'
  <2>1. phase = "narrow" /\ v \in todo /\ Set(v, Met(range[v], eval(v)))
    BY <1>6 DEF Narrow, Met
  <2> QED BY <2>1, SetWork
<1>7. ASSUME NEW v \in VarNodes, Propagate(v) PROVE WorkInv'
  BY <1>7 DEF Propagate, WorkInv
<1>8. ASSUME Fix PROVE WorkInv'
  <2>1. /\ active' = comp \ DOMAIN fn.consts /\ phase' = "narrow"
        /\ comp' = comp /\ fn' = fn
    BY <1>8 DEF Fix, fn
  <2>2. Nodes(fn) \cap DOMAIN fn.consts = {}
    BY DEF BuiltInv, Nodes
  <2>3. ASSUME NEW s \in comp \cap Nodes(fn), FedFromInside(s)' PROVE Due(s)'
    BY <2>1, <2>2, <2>3 DEF FedFromInside, Due
  <2> QED BY <2>1, <2>3 DEF WorkInv
<1>9. ASSUME Leave PROVE WorkInv'
  BY <1>9 DEF Leave, WorkInv
<1>10. ASSUME EndComponent PROVE WorkInv'
  BY <1>10 DEF EndComponent, WorkInv
<1>11. ASSUME UNCHANGED vars PROVE WorkInv'
  <2>1. UNCHANGED <<cg, phase, pending, comp, todo, active, range, isect, unresolved>> /\ fn' = fn
    BY <1>11 DEF vars, fn
  <2>2. ASSUME NEW s \in comp \cap Nodes(fn), Stable(s) PROVE Stable(s)'
    <3>1. eval(s)' = eval(s)
      BY <2>1, EvalReads
    <3>2. Met(range[s], eval(s))' = Met(range[s], eval(s))
      BY <2>1, <3>1, MetReads
    <3> QED BY <2>1, <2>2, <3>2 DEF Stable
  <2>3. ASSUME NEW s \in comp \cap Nodes(fn)
        PROVE  (FedFromInside(s)' <=> FedFromInside(s)) /\ (Due(s)' <=> Due(s))
    BY <2>1 DEF FedFromInside, Due
  <2> QED BY <2>1, <2>2, <2>3 DEF WorkInv
<1> QED BY <1>1, <1>2, <1>3, <1>4, <1>5, <1>6, <1>7, <1>8, <1>9, <1>10, <1>11 DEF Next

(* When the lists of update run empty, no operation that was reached from  *)
(* within the component would still move its sink, in whatever order the   *)
(* lists were walked.                                                      *)
THEOREM ListsEmptyAtFixpoint == Spec => []FixpointReached
<1>1. Init => WorkInv
  BY DEF Init, WorkInv
<1>2. WorkInv => FixpointReached
  <2> SUFFICES ASSUME WorkInv, Settled, NEW s \in comp \cap Nodes(fn), FedFromInside(s)
               PROVE  /\ phase = "widen" => Widened(range[s], eval(s)) = range[s]
                      /\ phase = "narrow" => Narrowed(range[s], eval(s)) = range[s]
    BY DEF FixpointReached
  <2>1. ~Due(s)
    BY DEF Due, Settled
  <2> QED BY <2>1 DEF WorkInv, Stable, Met
<1> QED BY <1>1, <1>2, TypesAndOrder, StepWork, PTL DEF Spec
=============================================================================
