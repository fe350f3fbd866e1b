--------------------------- MODULE PointsToPlugin ---------------------------
(***************************************************************************)
(* The queries of analyses/dg_points_to_plugin.cpp, over the points-to     *)
(* sets that the DG library computed.  A node is what getPointsToNode      *)
(* returns for a value: its points-to set in iteration order, or NoNode.   *)
(* A pointer names its target object and an offset into it.                *)
(***************************************************************************)
EXTENDS Integers, Sequences, SequencesExt, FiniteSets

UNKNOWN == -1    \* Offset::UNKNOWN

(* kind: null, unknown and invalidated are DG's special targets.  size: 0  *)
(* when DG does not know it.  near: no instruction of another function and *)
(* none of a recursive one allocates it.                                   *)
Special(kind) == [name |-> kind, kind |-> kind, size |-> 0, near |-> TRUE]
SpecialKinds == {"null", "unknown", "invalidated"}
PointerTo(obj, off) == [target |-> obj, offset |-> off]

isUnknown(ptr) == ptr.target.kind = "unknown"
isAlloc(ptr) == ptr.target.kind \notin SpecialKinds

NoNode == [built |-> FALSE, pointsTo |-> <<>>]
Node(ptrs) == [built |-> TRUE, pointsTo |-> ptrs]
Pointees(node) == ToSet(node.pointsTo)
KnowsNothing(node) == node.pointsTo = <<>>

Truth(b) == IF b THEN "true" ELSE "false"
AllOf(node, Holds(_)) ==
  CASE KnowsNothing(node)                                     -> "maybe"
    [] ~KnowsNothing(node) /\ \A p \in Pointees(node) : Holds(p)    -> "true"
    [] ~KnowsNothing(node) /\ \E p \in Pointees(node) : ~Holds(p)   -> "false"

(* Fault: one target on the stack is enough.                               *)
pointsToStack_some(node) ==
  Truth(\E p \in Pointees(node) : isAlloc(p) /\ p.target.kind \notin {"global", "heap"})
pointsToStack(node) ==
  AllOf(node, LAMBDA p : isAlloc(p) /\ p.target.kind \notin {"global", "heap"})
pointsToGlobal(node) == AllOf(node, LAMBDA p : p.target.kind = "global")
pointsToHeap(node) == AllOf(node, LAMBDA p : p.target.kind = "heap")
(* Fault: what may be anything is called invalid.                          *)
isInvalid_when_unknown(node) == AllOf(node, LAMBDA p : p.target.kind \in SpecialKinds)
isInvalid(node) ==
  AllOf(node, LAMBDA p : p.target.kind \in {"null", "invalidated"})

isNull(node) ==
  CASE KnowsNothing(node) -> "maybe"
    [] OTHER -> IF \E p \in Pointees(node) : p.target.kind \in {"null", "unknown"}
                  THEN "true" ELSE "false"

safeForFree(node) ==
  AllOf(node, LAMBDA p : p.offset = 0 /\ p.target.kind = "heap")

(***************************************************************************)
(* Sizes.  These four look at the base of a getelementptr, given here.     *)
(***************************************************************************)
Measured(p) == isAlloc(p) /\ p.offset # UNKNOWN /\ p.target.size # 0

hasKnownSizes(base) ==
  Truth(~KnowsNothing(base) /\ \A p \in Pointees(base) : Measured(p))

hasKnownSize(base) ==
  Truth(/\ ~KnowsNothing(base) /\ Measured(Head(base.pointsTo))
        /\ \A p \in Pointees(base) :
             /\ p.offset = Head(base.pointsTo).offset
             /\ p.target.size = Head(base.pointsTo).target.size)

getPointerInfo(base) ==
  [offset |-> Head(base.pointsTo).offset, size |-> Head(base.pointsTo).target.size]

Space(p) == p.target.size - p.offset
Least(S) == CHOOSE m \in S : \A x \in S : m <= x
Greatest(S) == CHOOSE m \in S : \A x \in S : x <= m
Offsets(base) == {p.offset : p \in Pointees(base)}
Spaces(base) == {Space(p) : p \in Pointees(base)}

getPInfoMin(base) ==
  [min_off |-> Least(Offsets(base)), min_space |-> Least(Spaces(base))]

getPInfoMinMax(base) ==
  [min_off |-> Least(Offsets(base)), min_space |-> Least(Spaces(base)),
   max_off |-> Greatest(Offsets(base)), max_space |-> Greatest(Spaces(base))]

(***************************************************************************)
(* isValidPointer takes the first target that is not surely valid.         *)
(***************************************************************************)
(* Fault: only the first byte must fit.                                    *)
TargetValid_first_byte(p, len) ==
  CASE ~isAlloc(p)                         -> "false"
    [] isAlloc(p) /\ p.offset = UNKNOWN    -> "maybe"
    [] isAlloc(p) /\ p.offset # UNKNOWN    ->
         Truth(p.offset <= p.target.size /\ p.target.near)

TargetValid(p, len) ==
  CASE ~isAlloc(p)                         -> "false"
    [] isAlloc(p) /\ p.offset = UNKNOWN    -> "maybe"
    [] isAlloc(p) /\ p.offset # UNKNOWN    ->
         Truth(len <= p.target.size /\ p.offset <= p.target.size - len /\ p.target.near)

isValidPointer(node, len) ==
  LET i == SelectInSeq(node.pointsTo, LAMBDA p : TargetValid(p, len) # "true")
  IN  CASE KnowsNothing(node)             -> "maybe"
        [] ~KnowsNothing(node) /\ i = 0   -> "true"
        [] ~KnowsNothing(node) /\ i # 0   -> TargetValid(node.pointsTo[i], len)

(***************************************************************************)
(* Which objects a value may point to.                                     *)
(***************************************************************************)
(* Fault: a value without a node points nowhere.                           *)
pointsTo_without_node(node, obj) == Truth(\E p \in Pointees(node) : p.target = obj)

pointsTo(node, obj) ==
  IF node.built THEN Truth(\E p \in Pointees(node) : p.target = obj) ELSE "maybe"

getPointsTo(node) ==
  [ptset |-> {p.target : p \in {q \in Pointees(node) : isAlloc(q)}},
   unknown |-> \E p \in Pointees(node) : isUnknown(p)]
=============================================================================
