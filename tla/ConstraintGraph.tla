-------------------------- MODULE ConstraintGraph ---------------------------
(***************************************************************************)
(* buildGraph of analyses/ra/RangeAnalysis.cpp: from a function to its     *)
(* constraint graph.  A function f is a record:                            *)
(*   consts    constant -> its value                                       *)
(*   insts     instruction -> [op, args, block]                            *)
(*   bits      value -> the width of its type                              *)
(*   branches  the conditional branches on a comparison, in block order:   *)
(*             [lhs, pred, rhs, t, f]                                      *)
(*   switches  in block order: [cond, default, cases], a case being        *)
(*             [value, block]                                              *)
(* An instruction is its own sink.  A phi whose name starts with           *)
(* vSSA_sigma is a "sigma": the function is in e-SSA form where the        *)
(* analysis is to learn from a branch.                                     *)
(***************************************************************************)
EXTENDS RangeOps

Seqs == INSTANCE SequencesExt

(* Only these instructions become nodes; the others are "call", "icmp"...  *)
ValidOpcodes == BinaryOpcodes \cup UnaryOpcodes \cup {"phi", "sigma"}
Nodes(f) == {v \in DOMAIN f.insts : f.insts[v].op \in ValidOpcodes}

(* Min and Max are those of the widest instruction; operands do not count. *)
getMaxBitWidth(f) == Greatest({1} \cup {f.bits[v] : v \in DOMAIN f.insts})

(* addUnaryOp, addBinaryOp, addPhiOp, addSigmaOp: the operands that the    *)
(* node reads.  A load and a store read the pointer.                       *)
Sources(i) ==
  CASE i.op = "store" -> <<i.args[2]>>
    [] i.op \in UnaryOpcodes \ {"store"} -> <<i.args[1]>>
    [] i.op = "sigma" -> <<i.args[1]>>
    [] i.op \in BinaryOpcodes -> <<i.args[1], i.args[2]>>
    [] i.op = "phi" -> i.args
SourceSet(i) == Seqs!ToSet(Sources(i))

Vars(f) ==
  Nodes(f) \cup UNION {SourceSet(f.insts[v]) : v \in Nodes(f)}
    \cup UNION {{f.branches[b].lhs, f.branches[b].rhs} : b \in DOMAIN f.branches}
    \cup {f.switches[s].cond : s \in DOMAIN f.switches}
Uses(f, v) == {s \in Nodes(f) : v \in SourceSet(f.insts[s])}
Sigmas(f) == {v \in Nodes(f) : f.insts[v].op = "sigma"}

(* VarNode::init                                                           *)
InitialRange(f, v) ==
  CASE v \in DOMAIN f.consts -> RangeOf(f.consts[v], f.consts[v])
    [] v \in Nodes(f)        -> UnknownRange
    [] v \notin DOMAIN f.consts \cup Nodes(f) -> FullRange

-----------------------------------------------------------------------------
(* Comparisons.                                                            *)
Holds(pred, x, y, bw) ==
  LET ux == x % 2 ^ bw  uy == y % 2 ^ bw IN
  CASE pred = "eq" -> x = y     [] pred = "ne" -> x # y
    [] pred = "slt" -> x < y    [] pred = "sge" -> x >= y
    [] pred = "sle" -> x <= y   [] pred = "sgt" -> x > y
    [] pred = "ult" -> ux < uy  [] pred = "uge" -> ux >= uy
    [] pred = "ule" -> ux <= uy [] pred = "ugt" -> ux > uy
Inverse == [eq |-> "ne", ne |-> "eq", slt |-> "sge", sge |-> "slt", sle |-> "sgt",
            sgt |-> "sle", ult |-> "uge", uge |-> "ult", ule |-> "ugt", ugt |-> "ule"]

(* A BasicInterval is a range; a SymbInterval also has a bound and a       *)
(* predicate, and its range is unknown until fixIntersects.                *)
NoBound == ""
Basic(r) == [range |-> r, bound |-> NoBound, pred |-> "eq"]
Symb(bound, pred) == [range |-> UnknownRange, bound |-> bound, pred |-> pred]

(* The hull of the values that satisfy a comparison with a constant.  An   *)
(* empty ConstantRange begins at 0 and ends before it.                     *)
Satisfying(pred, c, bw) ==
  LET region == {x \in TypeValues(bw) : Holds(pred, x, c, bw)}
  IN IF region = {} THEN RangeOf(0, Max) ELSE Span(region)

(* buildValueBranchMap: what a branch says of a value, and of the operand  *)
(* of the value when that is a cast.  The operand of a cast on the right   *)
(* is bounded by the cast itself.                                          *)
isCast(f, v) == v \in Nodes(f) /\ f.insts[v].op \in {"trunc", "zext", "sext"}
Entry(br, v, itvT, itvF) == [value |-> v, t |-> br.t, f |-> br.f, itvT |-> itvT, itvF |-> itvF]
CastEntry(f, br, v, itvT, itvF) ==
  IF isCast(f, v) THEN <<Entry(br, f.insts[v].args[1], itvT, itvF)>> ELSE <<>>

ConstantEntries(f, br) ==
  LET region(pred) == Basic(Satisfying(pred, f.consts[br.rhs], f.bits[br.lhs]))
      itvT == region(br.pred)
      itvF == region(Inverse[br.pred])
  IN <<Entry(br, br.lhs, itvT, itvF)>> \o CastEntry(f, br, br.lhs, itvT, itvF)
SymbolicEntries(f, br) ==
  LET inv == Inverse[br.pred] IN
  <<Entry(br, br.lhs, Symb(br.rhs, br.pred), Symb(br.rhs, inv))>>
    \o CastEntry(f, br, br.lhs, Symb(br.rhs, br.pred), Symb(br.rhs, inv))
    \o <<Entry(br, br.rhs, Symb(br.lhs, inv), Symb(br.lhs, br.pred))>>
    \o CastEntry(f, br, br.rhs, Symb(br.rhs, br.pred), Symb(br.rhs, inv))

Entries(f, br) ==
  IF br.rhs \in DOMAIN f.consts THEN ConstantEntries(f, br) ELSE SymbolicEntries(f, br)
About(entries, v) == Seqs!SelectInSeq(entries, LAMBDA e : e.value = v)

(* The first entry for a value stays: insert changes nothing.              *)
FirstBranch(f, v) ==
  Seqs!SelectInSeq(f.branches, LAMBDA br : About(Entries(f, br), v) # 0)

(* buildValueSwitchMap: every case is filed under the default block, and   *)
(* the first interval of a block is the one that is found.                 *)
SwitchEntries(sw) ==
  <<[block |-> sw.default, itv |-> Basic(FullRange)]>>
    \o [k \in DOMAIN sw.cases |->
           [block |-> sw.default, itv |-> Basic(RangeOf(sw.cases[k].value, sw.cases[k].value))]]
SwitchInterval(f, v, block) ==
  LET about(sw) == sw.cond = v \/ (isCast(f, sw.cond) /\ f.insts[sw.cond].args[1] = v)
      s == Seqs!SelectInSeq(f.switches, about)
      entries == SwitchEntries(f.switches[s])
      e == Seqs!SelectInSeq(entries, LAMBDA x : x.block = block)
  IN IF s = 0 THEN Basic(FullRange) ELSE IF e = 0 THEN Basic(FullRange) ELSE entries[e].itv

(* addSigmaOp: the interval of a sigma, by its operand and its block.      *)
SigmaInterval(f, v) ==
  LET i == f.insts[v]
      b == FirstBranch(f, i.args[1])
      entries == Entries(f, f.branches[b])
      e == entries[About(entries, i.args[1])]
  IN CASE b # 0 /\ i.block = e.t                   -> e.itvT
       [] b # 0 /\ i.block # e.t /\ i.block = e.f  -> e.itvF
       [] b # 0 /\ i.block \notin {e.t, e.f}       -> Basic(FullRange)
       [] b = 0 -> SwitchInterval(f, i.args[1], i.block)

(* buildSymbolicIntersectMap, and the edges of the graph that is ordered:  *)
(* addControlDependenceEdges makes the bound of a sigma come before it.    *)
BoundedBy(f, v) == {s \in Sigmas(f) : SigmaInterval(f, s).bound = v}
GraphOf(f) == [v \in Vars(f) |-> Uses(f, v) \cup BoundedBy(f, v)]
=============================================================================
