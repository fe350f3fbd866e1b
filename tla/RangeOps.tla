------------------------------ MODULE RangeOps ------------------------------
(***************************************************************************)
(* The operation nodes of the constraint graph: BinaryOp::eval,            *)
(* UnaryOp::eval, SigmaOp::eval and PhiOp::eval of RangeAnalysis.cpp, and  *)
(* the bitwise "or" of ranges they need, after Hacker's Delight.           *)
(***************************************************************************)
EXTENDS Ranges, Sequences

(***************************************************************************)
(* minOR and maxOR walk down the bits of a 64-bit word from the sign bit   *)
(* of a W-bit one; the first bit where a bound may be moved ends the walk. *)
(***************************************************************************)
WordBits == 2 * W
BitOf(x, i) == (x \div 2 ^ i) % 2
OrBit(x, y, i) == IF BitOf(x, i) = 1 \/ BitOf(y, i) = 1 THEN 2 ^ i ELSE 0
OrInt(x, y) ==
  LET below[i \in 1 .. WordBits - 1] ==    \* the bits below bit i
        IF i = 1 THEN OrBit(x, y, 0) ELSE below[i - 1] + OrBit(x, y, i - 1)
  IN below[WordBits - 1] - (IF x < 0 \/ y < 0 THEN 2 ^ (WordBits - 1) ELSE 0)
orInt == [x, y \in Values |-> OrInt(x, y)]
Above(x, i) == (x \div 2 ^ (i + 1)) * 2 ^ (i + 1)
Raised(x, i) == Above(x, i) + 2 ^ i         \* (x | m) & -m, for a bit that is 0
Lowered(x, i) == Above(x, i) + 2 ^ i - 1    \* (x - m) | (m - 1), for a bit that is 1
BitNumbers == 0 .. W - 1

minOR(a, b, c, d) ==
  LET first(i) == BitOf(a, i) = 0 /\ BitOf(c, i) = 1 /\ Raised(a, i) <= b
      second(i) == BitOf(a, i) = 1 /\ BitOf(c, i) = 0 /\ Raised(c, i) <= d
      moves == {i \in BitNumbers : first(i) \/ second(i)}
      top == Greatest(moves)
  IN CASE moves = {}                    -> OrInt(a, c)
       [] moves # {} /\ first(top)      -> OrInt(Raised(a, top), c)
       [] moves # {} /\ second(top)     -> OrInt(a, Raised(c, top))
maxOR(a, b, c, d) ==
  LET both(i) == BitOf(b, i) = 1 /\ BitOf(d, i) = 1
      first(i) == both(i) /\ Lowered(b, i) >= a
      second(i) == both(i) /\ Lowered(d, i) >= c
      moves == {i \in BitNumbers : first(i) \/ second(i)}
      top == Greatest(moves)
  IN CASE moves = {}                                   -> OrInt(b, d)
       [] moves # {} /\ first(top)                     -> OrInt(Lowered(b, top), d)
       [] moves # {} /\ ~first(top) /\ second(top)     -> OrInt(b, Lowered(d, top))

(* Which of the four bounds are negative decides; 2^W - 1 stands for       *)
(* 0xFFFFFFFF.                                                             *)
AllOnes == Modulus - 1
Or(p, q) ==
  LET a == p.l  b == p.u  c == q.l  d == q.u
      negative == {k \in 1 .. 4 : <<a, b, c, d>>[k] < 0}
      tight == RangeOf(Wrap(minOR(a, b, c, d)), Wrap(maxOR(a, b, c, d)))
  IN IF isUnknown(p) \/ isUnknown(q) THEN UnknownRange
     ELSE CASE negative \in {{}, {1, 2}, {3, 4}, 1 .. 4} -> tight
            [] negative = {1, 2, 3} -> RangeOf(a, -1)
            [] negative = {1, 3, 4} -> RangeOf(c, -1)
            [] negative = {1, 3} -> RangeOf(IF a < c THEN a ELSE c, Wrap(maxOR(0, b, 0, d)))
            [] negative = {1} ->
                 RangeOf(Wrap(minOR(a, AllOnes, c, d)), Wrap(minOR(0, b, c, d)))
            [] negative = {3} ->
                 RangeOf(Wrap(minOR(a, b, c, AllOnes)), Wrap(maxOR(a, b, 0, d)))
            [] OTHER -> FullRange

(***************************************************************************)
(* eval of the nodes.  An intersection that is the full range is skipped.  *)
(***************************************************************************)
BinaryOpcodes == {"add", "sub", "mul", "udiv", "sdiv", "urem", "srem",
                  "shl", "lshr", "ashr", "and", "or", "xor"}
Applied(opcode, p, q) ==
  CASE opcode = "add" -> add(p, q)   [] opcode = "sub" -> sub(p, q)
    [] opcode = "mul" -> mul(p, q)   [] opcode = "udiv" -> udiv(p, q)
    [] opcode = "sdiv" -> sdiv(p, q) [] opcode = "urem" -> urem(p, q)
    [] opcode = "srem" -> srem(p, q) [] opcode = "shl" -> shl(p, q)
    [] opcode = "lshr" -> lshr(p, q) [] opcode = "ashr" -> ashr(p, q)
    [] opcode = "and" -> And(p, q)   [] opcode = "or" -> Or(p, q)
    [] opcode = "xor" -> Xor(p, q)

BinaryEval(opcode, p, q) ==
  LET r == Applied(opcode, p, q) IN
  CASE isRegular(p) /\ isRegular(q)       -> IF r.l > r.u THEN FullRange ELSE r
    [] isEmpty(p) \/ isEmpty(q)           -> EmptyRange
    [] ~(isRegular(p) /\ isRegular(q)) /\ ~isEmpty(p) /\ ~isEmpty(q) -> UnknownRange

UnaryOpcodes == {"trunc", "zext", "sext", "load", "store"}
UnaryEval(opcode, p, bw) ==
  CASE isRegular(p) /\ opcode = "trunc"            -> truncate(p, bw)
    [] isRegular(p) /\ opcode = "zext"             -> zextOrTrunc(p, bw)
    [] isRegular(p) /\ opcode = "sext"             -> sextOrTrunc(p, bw)
    [] isRegular(p) /\ opcode \in {"load", "store"} -> p
    [] isEmpty(p)                                  -> EmptyRange
    [] isUnknown(p)                                -> UnknownRange

SigmaEval(p, bound) == intersectWith(p, bound)
PhiEval(ps) ==
  LET union[k \in 1 .. Len(ps)] ==
        IF k = 1 THEN ps[1] ELSE unionWith(union[k - 1], ps[k])
  IN union[Len(ps)]

(***************************************************************************)
(* The program itself, on values of a type of bw bits: the exact results   *)
(* of an operation.  There is none when the operation has no defined       *)
(* result, and none when an nsw operation overflows: there the monitor     *)
(* ends the run.                                                           *)
(***************************************************************************)
TypeValues(bw) == TypeRange(bw).l .. TypeRange(bw).u
WrapTo(x, bw) == ((x - TypeRange(bw).l) % 2 ^ bw) + TypeRange(bw).l

Exact(opcode, x, y, bw) ==
  LET ux == x % 2 ^ bw  uy == y % 2 ^ bw IN
  CASE opcode = "add" -> x + y
    [] opcode = "sub" -> x - y
    [] opcode = "mul" -> x * y
    [] opcode = "sdiv" -> Quotient(x, y)
    [] opcode = "srem" -> x - y * Quotient(x, y)
    [] opcode = "udiv" -> WrapTo(ux \div uy, bw)
    [] opcode = "urem" -> WrapTo(ux % uy, bw)
    [] opcode = "shl"  -> x * 2 ^ y
    [] opcode = "lshr" -> WrapTo(ux \div 2 ^ y, bw)
    [] opcode = "ashr" -> x \div 2 ^ y
    [] opcode = "and"  -> x + y - orInt[x, y]
    [] opcode = "or"   -> orInt[x, y]
    [] opcode = "xor"  -> 2 * orInt[x, y] - x - y

Defined(opcode, x, y, bw) ==
  /\ opcode \in {"udiv", "sdiv", "urem", "srem"} => y # 0
  /\ opcode \in {"shl", "lshr", "ashr"} => y \in 0 .. bw - 1
Results(opcode, xs, ys, bw) ==
  {Exact(opcode, p[1], p[2], bw) : p \in {q \in xs \X ys : Defined(opcode, q[1], q[2], bw)}}
    \cap TypeValues(bw)
=============================================================================
