---------------------------- MODULE BoundsChecks ----------------------------
(***************************************************************************)
(* One load or store through a pointer: the rules of a configuration ask   *)
(* the points-to plugin and place at most one check before it; at run time *)
(* that check of memsafety.c decides with machine integers of W bits.      *)
(*                                                                         *)
(* The points-to sets are right: they hold the target the pointer has at   *)
(* run time.  What the rules and the checks make of them is the question.  *)
(***************************************************************************)
EXTENDS PointsToPlugin

CONSTANTS
  W,          \* the width of a_size and of int64_t
  Objects,    \* the objects DG knows: Special's fields
  MaxTargets, \* the most pointers in a points-to set (bound)
  RealSize,   \* object names -> the sizes the object may have at run time
  Ranges,     \* the sizes of the accesses
  RangedChecks \* the checks for several known sizes: of "min" and "min_max"

TwoTo == [i \in 0 .. W |-> 2 ^ i]
uint(x) == x % TwoTo[W]
int(x) == IF uint(x) < TwoTo[W - 1] THEN uint(x) ELSE uint(x) - TwoTo[W]
INT_MIN == -TwoTo[W - 1]
Ints == INT_MIN .. (TwoTo[W - 1] - 1)

(* Objects and accesses are no larger than half of what a word counts; an  *)
(* object whose size DG knows has that size.  (The provers know no powers.)*)
ASSUME WidthAssumption ==
  /\ W \in Nat \ {0, 1} /\ MaxTargets \in Nat /\ RangedChecks \subseteq {"min", "min_max"}
  /\ TwoTo[W - 1] \in Nat \ {0} /\ TwoTo[W] = 2 * TwoTo[W - 1]
  /\ Ranges \subseteq 1 .. TwoTo[W - 1]

ASSUME ObjectsAssumption ==
  \A o \in Objects :
    /\ o.kind \in {"stack", "heap", "global"} /\ o.size \in Nat
    /\ RealSize[o.name] \subseteq 0 .. TwoTo[W - 1] - 1
    /\ o.size # 0 => RealSize[o.name] = {o.size}

VARIABLES
  base,      \* the node of the pointer, or of the getelementptr's base
  node,      \* the node of the pointer
  gep,       \* the getelementptr: "no", or its distance is "const" or "var"
  target,    \* what the base really points to: kind, size and offset
  n, range,  \* the distance and the number of bytes of the access
  phase,     \* "analysed", "instrumented", "executed"
  checks,    \* the checks the rules placed before the access
  outcome    \* of the checks: "ok", "alarm", or "list": a list is asked

vars == <<base, node, gep, target, n, range, phase, checks, outcome>>

(***************************************************************************)
(* DG, as the plugin uses it.                                              *)
(***************************************************************************)
Pointers == {PointerTo(Special(k), 0) : k \in SpecialKinds} \cup
  UNION {{PointerTo(o, d) : d \in {UNKNOWN} \cup 0 .. (IF o.size = 0 THEN 0 ELSE o.size - 1)} :
           o \in Objects}
Nodes == {NoNode} \cup {Node(s) : s \in {t \in BoundedSeq(Pointers, MaxTargets) : IsInjective(t)}}

(* A getelementptr moves the known offsets that stay inside their object.  *)
Moved(p, d) ==
  CASE ~isAlloc(p) \/ p.offset = UNKNOWN -> p
    [] isAlloc(p) /\ p.offset # UNKNOWN  ->
         IF p.offset + d \in 0 .. (p.target.size - 1) \cup {0}
           THEN PointerTo(p.target, p.offset + d) ELSE PointerTo(p.target, UNKNOWN)
Loose(p) == IF isAlloc(p) THEN PointerTo(p.target, UNKNOWN) ELSE p

Step(p) == CASE gep = "no"    -> p
             [] gep = "var"   -> Loose(p)
             [] gep = "const" -> Moved(p, n)
PointerNode == [base EXCEPT !.pointsTo = [i \in DOMAIN @ |-> Step(@[i])]]

(* The targets at run time that a points-to set stands for.                *)
Place(kind, size, off) == [kind |-> kind, size |-> size, offset |-> off]
Inside(o) == UNION {{Place(o.kind, s, d) : d \in 0 .. s} : s \in RealSize[o.name]}
Stands(p) ==
  CASE p.target.kind \in {"null", "invalidated"} -> {Place(p.target.kind, 0, 0)}
    [] isUnknown(p) -> UNION {Inside(o) : o \in Objects} \cup {Place("null", 0, 0)}
    [] isAlloc(p)   -> {q \in Inside(p.target) : p.offset \in {UNKNOWN, q.offset}}
Possible ==
  IF KnowsNothing(base) THEN Stands(PointerTo(Special("unknown"), 0))
                        ELSE UNION {Stands(p) : p \in Pointees(base)}

Valid ==
  /\ target.kind \notin SpecialKinds
  /\ target.offset + n >= 0 /\ target.offset + n + range <= target.size

(***************************************************************************)
(* The rules for loads and stores, of config-i2-enhanced-lifetimes.json    *)
(* ("min") and of config-minmax.json ("min_max").                          *)
(***************************************************************************)
Known(query(_)) == gep # "no" /\ query(base) = "true"
Suspect == isValidPointer(node, range) # "true"
Dubious == Suspect /\ isInvalid(node) # "true"
Unmeasured == Dubious /\ ~Known(hasKnownSize) /\ ~Known(hasKnownSizes)

(* Fault: the rule for known sizes does not exclude one known size.        *)
Applies_both_sizes(rule) ==
  CASE rule = "fail"    -> Suspect /\ isInvalid(node) = "true"
    [] rule = "bounds"  -> Dubious /\ Known(hasKnownSize)
    [] rule \in RangedChecks -> Dubious /\ Known(hasKnownSizes)
    [] OTHER            -> Unmeasured

Applies(rule) ==
  CASE rule = "fail"    -> Suspect /\ isInvalid(node) = "true"
    [] rule = "bounds"  -> Dubious /\ Known(hasKnownSize)
    [] rule \in RangedChecks -> Dubious /\ ~Known(hasKnownSize) /\ Known(hasKnownSizes)
    [] rule = "stack"   -> Unmeasured /\ pointsToStack(node) = "true"
    [] rule = "heap"    -> Unmeasured /\ pointsToHeap(node) = "true"
    [] rule = "globals" -> Unmeasured /\ pointsToGlobal(node) = "true"
    [] rule = "pointer" -> Unmeasured /\ \A q \in {pointsToStack(node),
                                pointsToHeap(node), pointsToGlobal(node)} : q # "true"
Rules(ranged) == {"fail", "bounds", ranged, "stack", "heap", "globals", "pointer"}

(***************************************************************************)
(* The checks.  addr_b - addr_a is n; sums and comparisons with an a_size  *)
(* are unsigned; -INT_MIN, which C leaves undefined, is INT_MIN as every   *)
(* build computes it, and range is at most the largest scalar.             *)
(***************************************************************************)
check_bounds ==
  LET info == getPointerInfo(base)
      offb == int(n + info.offset)
  IN  IF offb < 0 \/ uint(offb + range) > info.size THEN "alarm" ELSE "ok"

(* Fault: how far the pointer may go back is not looked at.                *)
check_bounds_min_forward ==
  IF uint(n + range) > getPInfoMin(base).min_space THEN "list" ELSE "ok"

check_bounds_min ==
  LET info == getPInfoMin(base)
  IN  IF \/ n = INT_MIN /\ info.min_off < TwoTo[W - 1]
         \/ info.min_off <= uint(-n)
         \/ uint(n + range) > info.min_space
        THEN "list" ELSE "ok"

check_bounds_min_max ==
  LET info == getPInfoMinMax(base)
      posN == uint(-n)
      Beyond(off, space) == (n < 0 /\ off <= posN) \/ uint(n + range) > space
  IN  CASE Beyond(info.max_off, info.max_space) -> "alarm"
        [] OTHER -> IF Beyond(info.min_off, info.min_space) THEN "list" ELSE "ok"

Outcome(check) ==
  CASE check = "fail"   -> "alarm"
    [] check = "bounds" -> check_bounds
    [] check = "min"    -> check_bounds_min
    [] check = "min_max" -> check_bounds_min_max
    [] OTHER            -> "list"

Init ==
  /\ base \in Nodes
  /\ target \in Possible
  /\ gep \in {"no", "const", "var"}
  /\ n \in IF gep = "no" THEN {0} ELSE Ints
  /\ range \in Ranges
  /\ node = PointerNode
  /\ phase = "analysed" /\ checks = {} /\ outcome = "ok"

Instrument ==
  /\ phase = "analysed" /\ phase' = "instrumented"
  /\ \E ranged \in RangedChecks : checks' = {r \in Rules(ranged) : Applies(r)}
  /\ UNCHANGED <<base, node, gep, target, n, range, outcome>>

Execute ==
  /\ phase = "instrumented" /\ phase' = "executed"
  /\ \E c \in checks : outcome' = Outcome(c)
  /\ UNCHANGED <<base, node, gep, target, n, range, checks>>

Next == Instrument \/ Execute
Spec == Init /\ [][Next]_vars

-----------------------------------------------------------------------------
(* An access that the rules leave without a check is valid                 *)
(* (dg_points_to_plugin.cpp:351-419 and the conditions of the rules).      *)
UncheckedMeansValid == phase = "instrumented" /\ checks = {} => Valid

(* An access gets no more than one of the checks: their conditions, asked  *)
(* of two nodes, exclude each other.                                       *)
OneCheckEach == Cardinality(checks) <= 1

(* A check that lets the access pass without asking a list let a valid     *)
(* access pass (memsafety.c:240-246, 325-361).                             *)
PassedMeansValid == phase = "executed" /\ outcome = "ok" => Valid

(* The list of one region is asked only for targets of that region: asked  *)
(* for any other it would not find the record (memsafety.c:259-299).       *)
RightList ==
  target.kind \notin SpecialKinds =>
    /\ "stack" \in checks => target.kind = "stack"
    /\ "heap" \in checks => target.kind = "heap"
    /\ "globals" \in checks => target.kind = "global"

(* The assertions "invalid pointer dereference" of __INSTR_fail and of     *)
(* the checks fail only for invalid accesses (memsafety.c:243, 453-456).   *)
(* check_bounds_min_max (336-361) refuses valid ones, but only two kinds   *)
(* of access behind the base: to the first byte of an object, max_off      *)
(* bytes back, and those that end before the base, where n + range,        *)
(* which has no sign, wraps.                                               *)
RefusedBehind ==
  LET info == getPInfoMinMax(base)
  IN  n < 0 /\ (-n = info.max_off \/ n + range < 0)
FailMeansInvalid ==
  outcome = "alarm" => ~Valid \/ ("min_max" \in checks /\ RefusedBehind)
=============================================================================
