-------------------------- MODULE MCRangeAnalysis ---------------------------
(* RangeAnalysis for TLC: small functions in e-SSA form, of W-bit values   *)
(* unless said otherwise.                                                  *)
EXTENDS RangeAnalysis

Op(op, args) == [op |-> op, args |-> args, block |-> "entry"]
Sigma(v, block) == [op |-> "sigma", args |-> <<v>>, block |-> block]
Br(lhs, pred, rhs, t, f) == [lhs |-> lhs, pred |-> pred, rhs |-> rhs, t |-> t, f |-> f]
Fn(consts, insts, args, branches) ==
  [consts |-> consts, insts |-> insts,
   bits |-> [v \in DOMAIN consts \cup DOMAIN insts \cup args |-> W],
   branches |-> branches, switches |-> <<>>]

(* for (i = from; i pred to; i += step)                                    *)
Loop(from, pred, to, step) ==
  Fn([from |-> from, to |-> to, step |-> step],
     [i |-> Op("phi", <<"from", "next">>), in |-> Sigma("i", "body"),
      next |-> Op("add", <<"in", "step">>), out |-> Sigma("i", "exit")],
     {}, <<Br("i", pred, "to", "body", "exit")>>)

(* for (i = 0; i pred n; i++) with n an argument.                          *)
UpTo(pred) ==
  Fn([zero |-> 0, one |-> 1],
     [i |-> Op("phi", <<"zero", "next">>), in |-> Sigma("i", "body"),
      next |-> Op("add", <<"in", "one">>)],
     {"n"}, <<Br("i", pred, "n", "body", "exit")>>)

(* for (l = 0, h = 5; l < h; l++, h--)                                     *)
TwoEnds ==
  Fn([zero |-> 0, five |-> 5, one |-> 1, minus |-> -1],
     [l |-> Op("phi", <<"zero", "l2">>), h |-> Op("phi", <<"five", "h2">>),
      lin |-> Sigma("l", "body"),
      l2 |-> Op("add", <<"lin", "one">>), h2 |-> Op("add", <<"h", "minus">>)],
     {}, <<Br("l", "slt", "h", "body", "exit")>>)

(* Two values that a loop exchanges.                                       *)
Swap ==
  Fn([two |-> 2, six |-> 6],
     [x |-> Op("phi", <<"two", "y">>), y |-> Op("phi", <<"six", "x">>),
      sum |-> Op("add", <<"x", "y">>)],
     {}, <<>>)

(* A loop that nothing enters.                                             *)
Orphan ==
  Fn([one |-> 1],
     [x |-> Op("phi", <<"y">>), y |-> Op("add", <<"x", "one">>)],
     {}, <<>>)

(* A loop in a loop.                                                       *)
Nested ==
  Fn([zero |-> 0, three |-> 3, one |-> 1],
     [i |-> Op("phi", <<"zero", "inext">>), iin |-> Sigma("i", "outer"),
      j |-> Op("phi", <<"iin", "jnext">>), jin |-> Sigma("j", "inner"),
      jnext |-> Op("add", <<"jin", "one">>), jout |-> Sigma("j", "after"),
      inext |-> Op("add", <<"iin", "one">>)],
     {}, <<Br("i", "slt", "three", "outer", "exit"), Br("j", "slt", "three", "inner", "after")>>)

(* if (a < b) s = a + 1; with a and b read by a call.                      *)
Guarded(pred) ==
  Fn([one |-> 1, three |-> 3, six |-> 6],
     [a |-> Op("call", <<>>), b0 |-> Op("call", <<>>),
      b |-> Sigma("b0", "small"),
      ain |-> Sigma("a", "then"), bin |-> Sigma("b", "else"),
      s |-> Op("add", <<"ain", "one">>), r |-> Op("xor", <<"bin", "s">>)],
     {}, <<Br("b0", "ult", "six", "small", "large"), Br("a", pred, "b", "then", "else")>>)

(* switch (v) { case 1: ...; case 4: ...; default: ... }                   *)
Switched ==
  [Fn([one |-> 1],
      [v |-> Op("call", <<>>), c1 |-> Sigma("v", "first"), c2 |-> Sigma("v", "second"),
       d |-> Sigma("v", "other"), m |-> Op("phi", <<"c1", "d">>),
       t |-> Op("add", <<"c2", "one">>)],
      {}, <<>>)
    EXCEPT !.switches = <<[cond |-> "v", default |-> "other",
                           cases |-> <<[value |-> 1, block |-> "first"],
                                       [value |-> 4, block |-> "second"]>>]>>]

(* Memory, and casts to and from values of two bits less.                  *)
Casts ==
  [Fn([one |-> 1],
      [x |-> Op("load", <<"p">>), w |-> Op("store", <<"x", "p">>),
       big |-> Sigma("x", "then"), t |-> Op("trunc", <<"big">>),
       z |-> Op("zext", <<"t">>), e |-> Op("sext", <<"t">>)],
      {"p"}, <<Br("x", "uge", "one", "then", "else")>>)
    EXCEPT !.bits = [@ EXCEPT !["t"] = W - 2]]

(* A short x, and a branch on the long one it is extended to.              *)
ViaCast ==
  [Fn([one |-> 1],
      [x |-> Op("call", <<>>), long |-> Op("sext", <<"x">>), low |-> Sigma("x", "then"),
       e |-> Op("sext", <<"low">>), y |-> Op("add", <<"e", "one">>)],
      {}, <<Br("long", "slt", "one", "then", "else")>>)
    EXCEPT !.bits = [@ EXCEPT !["x"] = W - 2, !["low"] = W - 2]]

(* if (x >= 1) y = (x op1 3) op2 6;                                        *)
Straight(op1, op2) ==
  Fn([one |-> 1, three |-> 3, six |-> 6],
     [x |-> Op("call", <<>>), pos |-> Sigma("x", "then"),
      d |-> Op(op1, <<"pos", "three">>), y |-> Op(op2, <<"d", "six">>)],
     {}, <<Br("x", "sge", "one", "then", "else")>>)

(* while (a < b) b = a & 3; with a read once: only the branch puts what    *)
(* bounds a into a loop with it.                                           *)
Bounded ==
  Fn([five |-> 5, three |-> 3],
     [a |-> Op("call", <<>>), b |-> Op("phi", <<"five", "b2">>),
      in |-> Sigma("a", "body"), b2 |-> Op("and", <<"in", "three">>)],
     {}, <<Br("a", "slt", "b", "body", "exit")>>)

(* The branch of a loop that nothing enters.                               *)
OrphanBranch ==
  Fn([one |-> 1, three |-> 3],
     [x |-> Op("phi", <<"y">>), in |-> Sigma("x", "body"), y |-> Op("add", <<"in", "one">>)],
     {}, <<Br("x", "slt", "three", "body", "exit")>>)

Pass ==
  [count |-> Loop(0, "slt", 5, 1), down |-> Loop(5, "sgt", 0, -1),
   le |-> Loop(1, "sle", 6, 2), until |-> Loop(0, "ne", 4, 1), ult |-> Loop(0, "ult", 6, 3),
   never |-> Loop(5, "slt", 3, 1), once |-> Loop(2, "eq", 2, 1), endless |-> Loop(1, "sge", -8, 1),
   upto |-> UpTo("slt"), uptoeq |-> UpTo("sle"), unsigned |-> UpTo("ult"),
   ends |-> TwoEnds, swap |-> Swap, orphan |-> Orphan,
   bounded |-> Bounded, unentered |-> OrphanBranch, nested |-> Nested,
   less |-> Guarded("slt"), more |-> Guarded("sgt"), most |-> Guarded("sge"), same |-> Guarded("eq"),
   switched |-> Switched, casts |-> Casts, via |-> ViaCast,
   udiv |-> Straight("udiv", "sub"), sdiv |-> Straight("sdiv", "or"),
   lshr |-> Straight("lshr", "and"), ashr |-> Straight("ashr", "add")]

(* The body runs only after the loop has counted down to it: its first     *)
(* range is empty.                                                         *)
LateBody ==
  [late |->
     Fn([five |-> 5, three |-> 3, minus |-> -1],
        [x |-> Op("phi", <<"five", "y", "z">>), in |-> Sigma("x", "low"),
         y |-> Op("xor", <<"in", "minus">>), out |-> Sigma("x", "high"),
         z |-> Op("add", <<"x", "minus">>)],
        {}, <<Br("x", "slt", "three", "low", "high")>>)]
=============================================================================
