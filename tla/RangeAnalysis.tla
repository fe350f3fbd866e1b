--------------------------- MODULE RangeAnalysis ----------------------------
(***************************************************************************)
(* findIntervals of analyses/ra/RangeAnalysis.cpp (class Cousot, with the  *)
(* jump set): the ranges of the values of one function.  The components of *)
(* the constraint graph are solved one after the other, in an order that   *)
(* SccOrder allows (the list of Nuutila, read backwards); within one, the  *)
(* sets of active values are walked in the order of their addresses, which *)
(* is any.                                                                 *)
(***************************************************************************)
EXTENDS ConstraintGraph

CONSTANT Functions    \* name -> function, in the form of ConstraintGraph

IsSequence(s) == s \in Seq(Seqs!ToSet(s))

(* A constant is no instruction, a phi has operands, and no constant that  *)
(* an operation or a branch uses is wider than the instructions.           *)
ASSUME FunctionAssumption ==
  \A p \in DOMAIN Functions :
    LET f == Functions[p] IN
    getMaxBitWidth(f) = W =>
      /\ f.consts \in [DOMAIN f.consts -> Values] /\ DOMAIN f.consts \cap DOMAIN f.insts = {}
      /\ \A v \in Nodes(f) :
           /\ f.insts[v].op \in {"trunc", "zext", "sext"} => f.bits[v] \in 1 .. W
           /\ f.insts[v].op = "phi" => IsSequence(f.insts[v].args) /\ f.insts[v].args # <<>>
      /\ IsSequence(f.branches) /\ IsSequence(f.switches)
      /\ \A b \in DOMAIN f.branches :
           f.branches[b].rhs \in DOMAIN f.consts => f.bits[f.branches[b].lhs] \in 1 .. W
      /\ \A s \in DOMAIN f.switches :
           LET cases == f.switches[s].cases
           IN  IsSequence(cases) /\ \A k \in DOMAIN cases : cases[k].value \in Values

VARIABLES
  cg,           \* the function under analysis and its constraint graph
  phase,        \* what is done with the component
  pending,      \* the values whose component is still to come
  comp,         \* the component
  todo,         \* in "enter" the values, later the operations, to do now
  active,       \* entryPoints, activeVars: the values whose uses are due
  range,        \* value -> the interval of its VarNode
  isect,        \* sigma -> the range of its intersection
  unresolved    \* the sigmas that are marked

vars == <<cg, phase, pending, comp, todo, active, range, isect, unresolved>>

LOCAL Scc == INSTANCE SccOrder WITH Graphs <- {}, useMap <- <<>>, order <- <<>>

(* buildGraph, buildSymbolicIntersectMap and Nuutila.                      *)
Built ==
  [p \in DOMAIN Functions |->
     LET f == Functions[p]  graph == GraphOf(f) IN
     [name |-> p, fn |-> f, graph |-> graph,
      useMap |-> [v \in Vars(f) |-> Uses(f, v)],
      components |-> {Scc!Component(graph, v) : v \in Vars(f)},
      itv |-> [s \in Sigmas(f) |-> SigmaInterval(f, s)]]]

fn == cg.fn
VarNodes == DOMAIN cg.useMap
isSigma(s) == s \in DOMAIN cg.itv
bound(s) == cg.itv[s].bound

Init ==
  /\ cg \in {Built[p] : p \in DOMAIN Functions}
  /\ getMaxBitWidth(cg.fn) = W
  /\ phase = "pick"
  /\ pending = VarNodes
  /\ comp = {} /\ todo = {} /\ active = {}
  /\ range = [v \in VarNodes |-> InitialRange(fn, v)]
  /\ isect = [s \in Sigmas(fn) |-> cg.itv[s].range]
  /\ unresolved = {}

(* eval of the operation whose sink is s.                                  *)
eval(s) ==
  LET i == fn.insts[s]
      source(k) == range[Sources(i)[k]]
  IN CASE i.op = "sigma"            -> SigmaEval(source(1), isect[s])
       [] i.op = "phi"              -> PhiEval([k \in DOMAIN i.args |-> source(k)])
       [] i.op \in BinaryOpcodes    -> BinaryEval(i.op, source(1), source(2))
       [] i.op \in UnaryOpcodes     -> UnaryEval(i.op, source(1), fn.bits[s])

(* Fault: "less than" is bounded by the lower end of the other side.       *)
FixedBy_lower(pred, b, sink) ==
  CASE pred = "eq"  -> RangeOf(b.l, b.u)
    [] pred = "sle" -> RangeOf(sink.l, b.u)
    [] pred = "slt" -> RangeOf(sink.l, IF b.l # Min THEN Wrap(b.l - 1) ELSE b.l)
    [] pred = "sge" -> RangeOf(b.l, sink.u)
    [] pred = "sgt" -> RangeOf(IF b.l # Min THEN Wrap(b.l + 1) ELSE b.l, sink.u)
    [] pred \notin {"eq", "sle", "slt", "sge", "sgt"} -> FullRange
(* fixIntersects: the sigmas bounded by values of C get a range.           *)
FixedBy(pred, b, sink) ==
  CASE pred = "eq"  -> RangeOf(b.l, b.u)
    [] pred = "sle" -> RangeOf(sink.l, b.u)
    [] pred = "slt" -> RangeOf(sink.l, IF b.u # Max THEN Wrap(b.u - 1) ELSE b.u)
    [] pred = "sge" -> RangeOf(b.l, sink.u)
    [] pred = "sgt" -> RangeOf(IF b.l # Min THEN Wrap(b.l + 1) ELSE b.l, sink.u)
    [] pred \notin {"eq", "sle", "slt", "sge", "sgt"} -> FullRange
Fixed(C) ==
  [s \in DOMAIN isect |->
     IF bound(s) \in C THEN FixedBy(cg.itv[s].pred, range[bound(s)], range[s])
                       ELSE isect[s]]

(* Fault: what was never reached stays unknown.                            *)
Filled_not(C) == [v \in VarNodes |-> range[v]]
(* What is still unknown may be anything.                                  *)
Filled(C) == [v \in VarNodes |-> IF v \in C /\ isUnknown(range[v]) THEN FullRange ELSE range[v]]

-----------------------------------------------------------------------------
(* Fault: the components in any order.                                     *)
Ready_early(C) ==
  /\ phase = "pick"
  /\ C \subseteq pending
Ready(C) ==
  /\ phase = "pick"
  /\ C \subseteq pending
  /\ \A v \in pending \ C : cg.graph[v] \cap C = {}

Alone(C) ==
  /\ Ready(C) /\ Cardinality(C) = 1
  /\ pending' = pending \ C
  /\ comp' = C
  /\ isect' = Fixed(C)
  /\ range' = Filled(C)
  /\ active' = C
  /\ phase' = "propagate"
  /\ UNCHANGED <<cg, todo, unresolved>>

Together(C) ==
  /\ Ready(C) /\ Cardinality(C) > 1
  /\ pending' = pending \ C
  /\ comp' = C
  /\ todo' = C
  /\ phase' = "enter"
  /\ UNCHANGED <<cg, active, range, isect, unresolved>>

(* generateEntryPoints: a marked sigma is evaluated with its bound.        *)
Enter(v) ==
  /\ phase = "enter" /\ v \in todo
  /\ todo' = todo \ {v}
  /\ range' = IF v \in unresolved THEN [range EXCEPT ![v] = eval(v)] ELSE range
  /\ unresolved' = unresolved \ {v}
  /\ active' = IF isUnknown(range'[v]) THEN active ELSE active \cup {v}
  /\ phase' = IF todo' = {} THEN "widen" ELSE phase
  /\ UNCHANGED <<cg, pending, comp, isect>>

(* update takes a value and sees to its uses; within the component, but    *)
(* for propagateToNextSCC, which goes once through them all.               *)
Take(v) ==
  /\ phase \in {"widen", "narrow", "propagate"} /\ todo = {} /\ v \in active
  /\ active' = active \ {v}
  /\ todo' = IF phase = "propagate" THEN cg.useMap[v] ELSE cg.useMap[v] \cap comp
  /\ UNCHANGED <<cg, phase, pending, comp, range, isect, unresolved>>

(* buildConstantVector: where a bound that moves stops first.              *)
JumpSet ==
  LET inside == comp \cap Nodes(fn)
      feeding == {v \in inside : fn.insts[v].op \in BinaryOpcodes \cup {"phi"}}
      constants == (comp \cup UNION {SourceSet(fn.insts[v]) : v \in feeding}) \cap DOMAIN fn.consts
      cut == {s \in inside : isSigma(s) /\ bound(s) = NoBound}
  IN {fn.consts[c] : c \in constants}
       \cup (UNION {{isect[s].l, isect[s].u} : s \in cut} \ {Min, Max})
FirstLess(x) == Greatest({Min} \cup {c \in JumpSet : c <= x})
FirstGreater(x) == Least({Max} \cup {c \in JumpSet : c >= x})

(* Fault: a sink is made active only when it leaves "unknown".             *)
Set_first(s, new) ==
  /\ range' = [range EXCEPT ![s] = new]
  /\ active' = IF isUnknown(range[s]) /\ new # range[s] THEN active \cup {s} ELSE active
  /\ todo' = todo \ {s}
  /\ UNCHANGED <<cg, phase, pending, comp, isect, unresolved>>
(* Fault: every sink is made active, changed or not.                       *)
Set_always(s, new) ==
  /\ range' = [range EXCEPT ![s] = new]
  /\ active' = active \cup {s}
  /\ todo' = todo \ {s}
  /\ UNCHANGED <<cg, phase, pending, comp, isect, unresolved>>
(* What a meet leaves in the sink; a change makes it active.               *)
Set(s, new) ==
  /\ range' = [range EXCEPT ![s] = new]
  /\ active' = IF new # range[s] THEN active \cup {s} ELSE active
  /\ todo' = todo \ {s}
  /\ UNCHANGED <<cg, phase, pending, comp, isect, unresolved>>

Widened(old, new) ==
  LET down == new.l < old.l
      up == new.u > old.u
  IN CASE isUnknown(old)                 -> new
       [] ~isUnknown(old) /\ (down \/ up) ->
            RangeOf(IF down THEN FirstLess(new.l) ELSE old.l,
                    IF up THEN FirstGreater(new.u) ELSE old.u)
       [] ~isUnknown(old) /\ ~down /\ ~up -> old
Widen(s) ==
  /\ phase = "widen" /\ s \in todo
  /\ \E newInterval \in {eval(s)} : Set(s, Widened(range[s], newInterval))

(* narrow: an infinite bound becomes finite; one that was too tight moves. *)
Narrowed(old, new) ==
  LET l == IF (old.l = Min /\ new.l # Min) \/ new.l < old.l THEN new.l ELSE old.l
      u == IF (old.u = Max /\ new.u # Max) \/ new.u > old.u THEN new.u ELSE old.u
  IN IF l = old.l /\ u = old.u THEN old ELSE RangeOf(l, u)
Narrow(s) ==
  /\ phase = "narrow" /\ s \in todo
  /\ \E newInterval \in {eval(s)} : Set(s, Narrowed(range[s], newInterval))

(* propagateToNextSCC evaluates every use, those in the component too.     *)
Propagate(s) ==
  /\ phase = "propagate" /\ s \in todo
  /\ range' = [range EXCEPT ![s] = eval(s)]
  /\ unresolved' = IF isSigma(s) /\ isUnknown(isect[s]) THEN unresolved \cup {s} ELSE unresolved
  /\ todo' = todo \ {s}
  /\ UNCHANGED <<cg, phase, pending, comp, active, isect>>

Settled == active = {} /\ todo = {}

Fix ==
  /\ phase = "widen" /\ Settled
  /\ isect' = Fixed(comp)
  /\ range' = Filled(comp)
  /\ active' = comp \ DOMAIN fn.consts
  /\ phase' = "narrow"
  /\ UNCHANGED <<cg, pending, comp, todo, unresolved>>

Leave ==
  /\ phase = "narrow" /\ Settled
  /\ active' = comp
  /\ phase' = "propagate"
  /\ UNCHANGED <<cg, pending, comp, todo, range, isect, unresolved>>

EndComponent ==
  /\ phase = "propagate" /\ Settled
  /\ phase' = "pick"
  /\ comp' = {}
  /\ UNCHANGED <<cg, pending, todo, active, range, isect, unresolved>>

Next ==
  \/ \E C \in cg.components : Alone(C) \/ Together(C)
  \/ \E v \in VarNodes : Enter(v) \/ Take(v) \/ Widen(v) \/ Narrow(v) \/ Propagate(v)
  \/ Fix \/ Leave \/ EndComponent

Spec == Init /\ [][Next]_vars /\ WF_vars(Next)

Done == phase = "pick" /\ pending = {}

(* getRange: a value without a node is unknown.                            *)
getRange(v) == IF v \in DOMAIN range THEN range[v] ELSE UnknownRange

-----------------------------------------------------------------------------
(***************************************************************************)
(* The values that the function can give to its values, whatever its       *)
(* arguments and the memory hold; a sigma lets through what satisfies the  *)
(* comparison, its own or that of a cast of it, with some value of the     *)
(* other side.                                                             *)
(***************************************************************************)
Cast(f, c, x) ==
  LET from == f.insts[c].args[1] IN
  WrapTo(IF f.insts[c].op = "zext" THEN x % 2 ^ f.bits[from] ELSE x, f.bits[c])
Passes(f, br, v, block, x, vals) ==
  LET pred == IF block = br.t THEN br.pred ELSE Inverse[br.pred]
      about(side) == v = side \/ (isCast(f, side) /\ f.insts[side].args[1] = v)
      seen(side) == IF v = side THEN x ELSE Cast(f, side, x) IN
  /\ about(br.lhs) => \E y \in vals[br.rhs] : Holds(pred, seen(br.lhs), y, f.bits[br.lhs])
  /\ about(br.rhs) => \E y \in vals[br.lhs] : Holds(pred, y, seen(br.rhs), f.bits[br.rhs])
CasePasses(sw, v, block, x) ==
  (v = sw.cond) =>
    \/ \E k \in DOMAIN sw.cases : sw.cases[k].block = block /\ sw.cases[k].value = x
    \/ block = sw.default /\ \A k \in DOMAIN sw.cases : sw.cases[k].value # x
Lets(f, v, block, x, vals) ==
  /\ \A b \in DOMAIN f.branches :
       block \in {f.branches[b].t, f.branches[b].f} => Passes(f, f.branches[b], v, block, x, vals)
  /\ \A b \in DOMAIN f.switches :
       LET sw == f.switches[b] IN
       block \in {sw.default} \cup {sw.cases[k].block : k \in DOMAIN sw.cases}
         => CasePasses(sw, v, block, x)

Given(f, v, vals) ==
  LET i == f.insts[v]
      arg(k) == vals[Sources(i)[k]]
  IN CASE v \in DOMAIN f.consts                        -> {f.consts[v]}
       [] v \notin DOMAIN f.consts \cup Nodes(f)       -> TypeValues(f.bits[v])
       [] v \in Nodes(f) /\ i.op = "sigma"             -> {x \in arg(1) : Lets(f, i.args[1], i.block, x, vals)}
       [] v \in Nodes(f) /\ i.op = "phi"               -> UNION {arg(k) : k \in DOMAIN i.args}
       [] v \in Nodes(f) /\ i.op \in BinaryOpcodes     -> Results(i.op, arg(1), arg(2), f.bits[v])
       [] v \in Nodes(f) /\ i.op = "load"              -> TypeValues(f.bits[v])
       [] v \in Nodes(f) /\ i.op = "store"             -> {}
       [] isCast(f, v)                                 -> {Cast(f, v, x) : x \in arg(1)}

Collected ==
  [p \in DOMAIN Functions |->
     LET f == Functions[p]
         closed[vals \in [Vars(f) -> SUBSET Values]] ==
           LET more == [v \in Vars(f) |-> Given(f, v, vals)]
           IN IF more = vals THEN vals ELSE closed[more]
     IN closed[[v \in Vars(f) |-> {}]]]

-----------------------------------------------------------------------------
(* The ranges and intersections stay intervals of W bits, and what is due  *)
(* belongs to the component.                                               *)
TypeOK ==
  /\ range \in [VarNodes -> RangeRecords]
  /\ isect \in [Sigmas(fn) -> RangeRecords]
  /\ pending \cup comp \cup todo \subseteq VarNodes
  /\ active \subseteq comp
  /\ unresolved \subseteq Sigmas(fn)

(* The analysis is conservative: in the end the range of a value contains  *)
(* every value it can have in a run.                                       *)
Covered ==
  Done => \A v \in VarNodes : \A x \in Collected[cg.name][v] : Contains(range[v], x)

(* "After this analysis runs, there will be no undefined interval": every  *)
(* value was reached, whatever the order in which the lists were walked.   *)
NoneUnknown == Done => \A v \in VarNodes : ~isUnknown(range[v])

(* update stops at a fixpoint only: when its list is empty, no operation   *)
(* that takes an operand from the component, and one that was reached,     *)
(* would still change its sink.                                            *)
FedFromInside(s) ==
  \E v \in SourceSet(fn.insts[s]) \cap comp \cap Nodes(fn) : ~isUnknown(range[v])
FixpointReached ==
  Settled =>
    \A s \in comp \cap Nodes(fn) : FedFromInside(s) =>
      /\ phase = "widen" => Widened(range[s], eval(s)) = range[s]
      /\ phase = "narrow" => Narrowed(range[s], eval(s)) = range[s]

(* A component that was left keeps its ranges: the later ones only read    *)
(* them.                                                                   *)
LeftAlone ==
  [][\A v \in VarNodes \ (pending \cup comp) : range'[v] = range[v]]_vars

(* Widening and narrowing come to an end, in any order.                    *)
Terminates == <>Done
=============================================================================
