------------------------------- MODULE Ranges -------------------------------
(***************************************************************************)
(* Class Range of analyses/ra/RangeAnalysis.cpp: intervals of W-bit        *)
(* machine integers and what an operation of the program does to them.     *)
(* W is MAX_BIT_INT, the widest integer instruction of the function.  A    *)
(* range keeps its bounds also when it is unknown or empty; the bounds of  *)
(* an empty range may be crossed.                                          *)
(***************************************************************************)
EXTENDS Integers, FiniteSets

CONSTANT W
(* (The provers know no powers.)                                           *)
ASSUME WidthAssumption ==
  /\ W \in Nat \ {0, 1}
  /\ \A k \in 0 .. 2 * W : 2 ^ k \in Nat \ {0}
  /\ \A k \in 0 .. W - 1 : 2 ^ k <= 2 ^ (W - 1)
  /\ 2 ^ W = 2 * 2 ^ (W - 1) /\ 2 ^ (W - 1) > 1

Modulus == 2 ^ W
Min == -(2 ^ (W - 1))
Max == 2 ^ (W - 1) - 1
Values == Min .. Max

(***************************************************************************)
(* APInt: the result of an operation is kept modulo 2^W; Unsigned is what  *)
(* the unsigned operations see.                                            *)
(***************************************************************************)
Wrap(x) == ((x - Min) % Modulus) + Min
Unsigned(x) == x % Modulus
Abs(x) == IF x < 0 THEN -x ELSE x

Quotient(x, y) ==
  LET q == Abs(x) \div Abs(y) IN IF (x < 0) = (y < 0) THEN q ELSE -q

sdivInt(x, y) == IF y = 0 THEN 0 ELSE Wrap(Quotient(x, y))
sremInt(x, y) == IF y = 0 THEN 0 ELSE x - y * Quotient(x, y)
udivInt(x, y) == IF y = 0 THEN 0 ELSE Wrap(Unsigned(x) \div Unsigned(y))
uremInt(x, y) == IF y = 0 THEN 0 ELSE Wrap(Unsigned(x) % Unsigned(y))
shlInt(x, y) == IF Unsigned(y) >= W THEN 0 ELSE Wrap(x * 2 ^ Unsigned(y))
lshrInt(x, y) == IF Unsigned(y) >= W THEN 0 ELSE Wrap(Unsigned(x) \div 2 ^ Unsigned(y))
ashrInt(x, y) ==
  IF Unsigned(y) >= W THEN (IF x < 0 THEN -1 ELSE 0) ELSE x \div 2 ^ Unsigned(y)

(***************************************************************************)
(* The class.                                                              *)
(***************************************************************************)
RangeOf(l, u) == [l |-> l, u |-> u, type |-> IF l > u THEN "Empty" ELSE "Regular"]
FullRange == RangeOf(Min, Max)
UnknownRange == [l |-> Min, u |-> Max, type |-> "Unknown"]
EmptyRange == [l |-> Min, u |-> Max, type |-> "Empty"]
RangeRecords == [l : Values, u : Values, type : {"Regular", "Unknown", "Empty"}]
RegularRanges == {r \in RangeRecords : r.type = "Regular" /\ r.l <= r.u}

isUnknown(r) == r.type = "Unknown"
isRegular(r) == r.type = "Regular"
isEmpty(r) == r.type = "Empty"
isMaxRange(r) == r.l = Min /\ r.u = Max

(* What a range says of a value: an unknown one says nothing.              *)
Contains(r, x) == isUnknown(r) \/ (isRegular(r) /\ r.l <= x /\ x <= r.u)

Least(S) == CHOOSE x \in S : \A y \in S : x <= y
Greatest(S) == CHOOSE x \in S : \A y \in S : x >= y
Span(S) == RangeOf(Least(S), Greatest(S))

(* Fault: only a bound at the end of the scale counts as infinite.         *)
add_unsaturated(p, q) ==
  RangeOf(IF p.l = Min \/ q.l = Min THEN Min ELSE p.l + q.l,
          IF p.u = Max \/ q.u = Max THEN Max ELSE p.u + q.u)

(* A sum that leaves the scale counts as infinite: nothing wraps around.   *)
add(p, q) ==
  RangeOf(IF p.l = Min \/ q.l = Min \/ p.l + q.l \notin Values THEN Min ELSE p.l + q.l,
          IF p.u = Max \/ q.u = Max \/ p.u + q.u \notin Values THEN Max ELSE p.u + q.u)

(* A difference wraps.                                                     *)
sub(p, q) ==
  RangeOf(IF p.l = Min \/ q.u = Max THEN Min ELSE Wrap(p.l - q.u),
          IF p.u = Max \/ q.l = Min THEN Max ELSE Wrap(p.u - q.l))

(* MUL_HELPER: the ends of the scale stand for infinity.                   *)
Infinite(x, y) ==
  IF y = 0 THEN 0 ELSE IF (x = Max) = (y > 0) THEN Max ELSE Min
mulHelper(x, y) ==
  CASE x \in {Min, Max}                        -> Infinite(x, y)
    [] x \notin {Min, Max} /\ y \in {Min, Max} -> Infinite(y, x)
    [] {x, y} \cap {Min, Max} = {}             -> Wrap(x * y)
(* MUL_OV: a product of the wrong sign has overflowed.                     *)
mulOv(x, y) ==
  LET xy == mulHelper(x, y) IN
  CASE (x > 0) = (y > 0) -> IF xy < 0 THEN Max ELSE xy
    [] (x > 0) # (y > 0) -> IF xy > 0 THEN Min ELSE xy

mul(p, q) ==
  IF isMaxRange(p) \/ isMaxRange(q) THEN FullRange
  ELSE Span({mulOv(x, y) : x \in {p.l, p.u}, y \in {q.l, q.u}})

(* The divisions take two corners of the four; equal bounds make the code  *)
(* give up.                                                                *)
quotients(p, q, div(_, _)) ==
  LET lower == div(p.l, q.u)
      upper == div(p.u, IF q.l = 0 THEN 1 ELSE q.l)
  IN IF isEmpty(p) \/ isEmpty(q) \/ q.u = 0 \/ isMaxRange(q) \/ lower = upper
       THEN FullRange ELSE RangeOf(lower, upper)
udiv(p, q) == quotients(p, q, udivInt)
sdiv(p, q) == quotients(p, q, sdivInt)

(* The results at the four corners; a corner that lies at an end of the    *)
(* scale gives that end.                                                   *)
corners(p, q, op(_, _)) ==
  Span({IF p.l # Min /\ q.l # Min THEN op(p.l, q.l) ELSE Min,
        IF p.l # Min /\ q.u # Max THEN op(p.l, q.u) ELSE Min,
        IF p.u # Max /\ q.l # Min THEN op(p.u, q.l) ELSE Max,
        IF p.u # Max /\ q.u # Max THEN op(p.u, q.u) ELSE Max})

urem(p, q) == IF q.l = 0 \/ q.u = 0 THEN FullRange ELSE corners(p, q, uremInt)
srem(p, q) ==
  CASE q = RangeOf(0, 0) \/ q = EmptyRange           -> EmptyRange
    [] q \notin {RangeOf(0, 0), EmptyRange}
         /\ (q.l = 0 \/ q.u = 0 \/ (q.l < 0 /\ q.u > 0)) -> FullRange
    [] q # EmptyRange /\ (q.l > 0 \/ q.u < 0)        -> corners(p, q, sremInt)
shl(p, q) == corners(p, q, shlInt)
lshr(p, q) ==
  IF p.l < 0 \/ p.u < 0 THEN RangeOf(0, Max) ELSE corners(p, q, lshrInt)
ashr(p, q) == corners(p, q, ashrInt)

And(p, q) ==
  LET umin == IF Unsigned(q.u) <= Unsigned(p.u) THEN q.u ELSE p.u IN
  CASE isEmpty(p) \/ isEmpty(q)                -> EmptyRange
    [] ~isEmpty(p) /\ ~isEmpty(q) /\ umin = -1 -> FullRange
    [] ~isEmpty(p) /\ ~isEmpty(q) /\ umin # -1 -> RangeOf(0, umin)
Xor(p, q) == FullRange

(* The values of a type of bw bits, bw at most W.                          *)
TypeRange(bw) == RangeOf(-(2 ^ (bw - 1)), 2 ^ (bw - 1) - 1)
truncate(p, bw) ==
  IF p.l >= TypeRange(bw).l /\ p.u <= TypeRange(bw).u THEN p ELSE TypeRange(bw)
sextOrTrunc(p, bw) == truncate(p, bw)
zextOrTrunc(p, bw) == TypeRange(bw)

intersectWith(p, q) ==
  CASE isEmpty(p) \/ isEmpty(q)                   -> EmptyRange
    [] ~isEmpty(p) /\ ~isEmpty(q) /\ isUnknown(p) -> q
    [] ~isEmpty(p) /\ isRegular(p) /\ isUnknown(q) -> p
    [] isRegular(p) /\ isRegular(q) ->
         RangeOf(IF p.l > q.l THEN p.l ELSE q.l, IF p.u < q.u THEN p.u ELSE q.u)
unionWith(p, q) ==
  CASE isEmpty(p) \/ (~isEmpty(q) /\ isUnknown(p)) -> q
    [] isEmpty(q) /\ ~isEmpty(p)                   -> p
    [] isRegular(p) /\ isUnknown(q)                -> p
    [] isRegular(p) /\ isRegular(q) ->
         RangeOf(IF p.l < q.l THEN p.l ELSE q.l, IF p.u > q.u THEN p.u ELSE q.u)
=============================================================================
