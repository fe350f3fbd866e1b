----------------------------- MODULE BoundsProofs ----------------------------
(***************************************************************************)
(* Theorems of BoundsChecks for every width of the machine, every set of   *)
(* objects and every points-to set (however large): an access that is left *)
(* alone or let pass is valid, and the alarms are true.                    *)
(***************************************************************************)
EXTENDS BoundsChecks, FiniteSetTheorems, WellFoundedInduction, TLAPS

-----------------------------------------------------------------------------
(***************************************************************************)
(* Machine integers.                                                       *)
(***************************************************************************)
Half == TwoTo[W - 1]

LEMMA Halves == Half \in Nat \ {0} /\ TwoTo[W] = 2 * Half /\ INT_MIN = -Half
BY WidthAssumption DEF Half, INT_MIN

LEMMA Unsigned ==
  ASSUME NEW x \in Int
  PROVE  /\ x \in 0 .. 2 * Half - 1 => uint(x) = x
         /\ x \in -2 * Half .. -1 => uint(x) = x + 2 * Half
<1> DEFINE H == Half
<1>1. H \in Nat \ {0} /\ uint(x) = x % (2 * H)
  BY Halves DEF uint
<1> HIDE DEF H
<1>2. x \in 0 .. 2 * H - 1 => x % (2 * H) = x
  BY <1>1
<1>3. x \in -2 * H .. -1 => x % (2 * H) = x + 2 * H
  BY <1>1
<1> QED BY <1>1, <1>2, <1>3 DEF H

LEMMA Signed ==
  ASSUME NEW x \in Int
  PROVE  /\ x \in -Half .. Half - 1 => int(x) = x
         /\ x \in Half .. 2 * Half - 1 => int(x) = x - 2 * Half
BY Unsigned, Halves DEF int, Half

-----------------------------------------------------------------------------
(***************************************************************************)
(* Least and greatest numbers.                                             *)
(***************************************************************************)
LEMMA LeastIs ==
  ASSUME NEW S, S \subseteq Nat, S # {}
  PROVE  Least(S) \in S /\ \A x \in S : Least(S) <= x
<1>1. PICK m \in S : \A y \in S : ~ (<<y, m>> \in OpToRel(<, Nat))
  BY NatLessThanWellFounded, WFMin
<1>2. \A y \in S : m <= y
  <2> TAKE y \in S
  <2>1. ~ (y < m)
    BY <1>1 DEF OpToRel
  <2> QED BY <2>1
<1> QED BY <1>2 DEF Least

LEMMA GreatestIs ==
  ASSUME NEW b \in Nat, NEW S, S \subseteq 0 .. b, S # {}
  PROVE  Greatest(S) \in S /\ \A x \in S : x <= Greatest(S)
<1> DEFINE R == {b - x : x \in S}
<1>1. R \subseteq Nat /\ R # {}
  <2>1. \A x \in S : b - x \in Nat
    OBVIOUS
  <2>2. PICK x \in S : TRUE
    OBVIOUS
  <2> QED BY <2>1, <2>2
<1>2. PICK m \in R : \A x \in R : m <= x
  BY <1>1, LeastIs
<1>3. PICK s \in S : m = b - s
  BY <1>2
<1>4. \A x \in S : x <= s
  <2> TAKE x \in S
  <2>1. b - s <= b - x
    BY <1>2, <1>3
  <2> QED BY <2>1
<1> QED BY <1>4 DEF Greatest

-----------------------------------------------------------------------------
(***************************************************************************)
(* What the queries say of the pointees.                                   *)
(***************************************************************************)
LEMMA PointerType ==
  ASSUME NEW p \in Pointers
  PROVE  \/ /\ p.target.kind \in SpecialKinds /\ p.target.size = 0 /\ p.offset = 0
            /\ ~isAlloc(p)
         \/ /\ isAlloc(p) /\ p.target \in Objects /\ p.target.size \in Nat
            /\ p.offset = UNKNOWN \/ p.offset \in 0 .. (IF p.target.size = 0 THEN 0 ELSE p.target.size - 1)
<1>1. CASE p \in {PointerTo(Special(k), 0) : k \in SpecialKinds}
  BY <1>1 DEF PointerTo, Special, isAlloc
<1>2. ASSUME NEW o \in Objects,
             NEW d \in {UNKNOWN} \cup 0 .. (IF o.size = 0 THEN 0 ELSE o.size - 1),
             p = PointerTo(o, d)
      PROVE  /\ isAlloc(p) /\ p.target \in Objects /\ p.target.size \in Nat
             /\ p.offset = UNKNOWN \/ p.offset \in 0 .. (IF p.target.size = 0 THEN 0 ELSE p.target.size - 1)
  <2>1. p.target = o /\ p.offset = d
    BY <1>2 DEF PointerTo
  <2>2. o.kind \in {"stack", "heap", "global"} /\ o.size \in Nat
    BY ObjectsAssumption
  <2>3. isAlloc(p)
    BY <2>1, <2>2 DEF isAlloc, SpecialKinds
  <2> QED BY <2>1, <2>2, <2>3
<1> QED BY <1>1, <1>2 DEF Pointers

LEMMA AllOfTrue ==
  ASSUME NEW s, s.pointsTo \in Seq(ToSet(s.pointsTo))
  PROVE  /\ pointsToStack(s) = "true" <=>
              s.pointsTo # <<>> /\ \A p \in Pointees(s) : isAlloc(p) /\ p.target.kind \notin {"global", "heap"}
         /\ pointsToGlobal(s) = "true" <=>
              s.pointsTo # <<>> /\ \A p \in Pointees(s) : p.target.kind = "global"
         /\ pointsToHeap(s) = "true" <=>
              s.pointsTo # <<>> /\ \A p \in Pointees(s) : p.target.kind = "heap"
         /\ isInvalid(s) = "true" <=>
              s.pointsTo # <<>> /\ \A p \in Pointees(s) : p.target.kind \in {"null", "invalidated"}
         /\ s.pointsTo # <<>> => Pointees(s) # {}
<1> DEFINE None == KnowsNothing(s)
<1>1. pointsToStack(s) = "true" <=> ~None /\ \A p \in Pointees(s) : isAlloc(p) /\ p.target.kind \notin {"global", "heap"}
  <2> DEFINE All == \A p \in Pointees(s) : isAlloc(p) /\ p.target.kind \notin {"global", "heap"}
  <2>1. pointsToStack(s) = (CASE None -> "maybe"
                        [] ~None /\ All -> "true"
                        [] ~None /\ (\E p \in Pointees(s) : ~ (isAlloc(p) /\ p.target.kind \notin {"global", "heap"})) -> "false")
    BY DEF pointsToStack, AllOf
  <2>2. ~All <=> \E p \in Pointees(s) : ~ (isAlloc(p) /\ p.target.kind \notin {"global", "heap"})
    OBVIOUS
  <2> HIDE DEF None, All
  <2>3. pointsToStack(s) = (CASE None -> "maybe" [] ~None /\ All -> "true" [] ~None /\ ~All -> "false")
    BY <2>1, <2>2
  <2>4. pointsToStack(s) = "true" <=> ~None /\ All
    BY <2>3
  <2> QED BY <2>4 DEF All
<1>2. pointsToGlobal(s) = "true" <=> ~None /\ \A p \in Pointees(s) : p.target.kind = "global"
  <2> DEFINE All == \A p \in Pointees(s) : p.target.kind = "global"
  <2>1. pointsToGlobal(s) = (CASE None -> "maybe"
                        [] ~None /\ All -> "true"
                        [] ~None /\ (\E p \in Pointees(s) : ~ (p.target.kind = "global")) -> "false")
    BY DEF pointsToGlobal, AllOf
  <2>2. ~All <=> \E p \in Pointees(s) : ~ (p.target.kind = "global")
    OBVIOUS
  <2> HIDE DEF None, All
  <2>3. pointsToGlobal(s) = (CASE None -> "maybe" [] ~None /\ All -> "true" [] ~None /\ ~All -> "false")
    BY <2>1, <2>2
  <2>4. pointsToGlobal(s) = "true" <=> ~None /\ All
    BY <2>3
  <2> QED BY <2>4 DEF All
<1>3. pointsToHeap(s) = "true" <=> ~None /\ \A p \in Pointees(s) : p.target.kind = "heap"
  <2> DEFINE All == \A p \in Pointees(s) : p.target.kind = "heap"
  <2>1. pointsToHeap(s) = (CASE None -> "maybe"
                        [] ~None /\ All -> "true"
                        [] ~None /\ (\E p \in Pointees(s) : ~ (p.target.kind = "heap")) -> "false")
    BY DEF pointsToHeap, AllOf
  <2>2. ~All <=> \E p \in Pointees(s) : ~ (p.target.kind = "heap")
    OBVIOUS
  <2> HIDE DEF None, All
  <2>3. pointsToHeap(s) = (CASE None -> "maybe" [] ~None /\ All -> "true" [] ~None /\ ~All -> "false")
    BY <2>1, <2>2
  <2>4. pointsToHeap(s) = "true" <=> ~None /\ All
    BY <2>3
  <2> QED BY <2>4 DEF All
<1>4. isInvalid(s) = "true" <=> ~None /\ \A p \in Pointees(s) : p.target.kind \in {"null", "invalidated"}
  <2> DEFINE All == \A p \in Pointees(s) : p.target.kind \in {"null", "invalidated"}
  <2>1. isInvalid(s) = (CASE None -> "maybe"
                        [] ~None /\ All -> "true"
                        [] ~None /\ (\E p \in Pointees(s) : ~ (p.target.kind \in {"null", "invalidated"})) -> "false")
    BY DEF isInvalid, AllOf
  <2>2. ~All <=> \E p \in Pointees(s) : ~ (p.target.kind \in {"null", "invalidated"})
    OBVIOUS
  <2> HIDE DEF None, All
  <2>3. isInvalid(s) = (CASE None -> "maybe" [] ~None /\ All -> "true" [] ~None /\ ~All -> "false")
    BY <2>1, <2>2
  <2>4. isInvalid(s) = "true" <=> ~None /\ All
    BY <2>3
  <2> QED BY <2>4 DEF All
<1>5. s.pointsTo # <<>> => Pointees(s) # {}
  <2> DEFINE q == s.pointsTo
  <2>1. ASSUME q # <<>> PROVE q[1] \in ToSet(q)
    <3>1. q \in Seq(ToSet(q))
      OBVIOUS
    <3> HIDE DEF q
    <3>2. 1 \in DOMAIN q
      BY <2>1, <3>1
    <3> QED BY <3>2 DEF ToSet
  <2> QED BY <2>1 DEF Pointees
<1>6. None <=> s.pointsTo = <<>>
  BY DEF KnowsNothing
<1> HIDE DEF None
<1> QED BY <1>1, <1>2, <1>3, <1>4, <1>5, <1>6

LEMMA ValidPointer ==
  ASSUME NEW s, s.pointsTo \in Seq(ToSet(s.pointsTo)), NEW len, isValidPointer(s, len) = "true"
  PROVE  s.pointsTo # <<>> /\ \A p \in Pointees(s) : TargetValid(p, len) = "true"
<1> DEFINE I == {i \in 1 .. Len(s.pointsTo) : TargetValid(s.pointsTo[i], len) # "true"}
           i == IF I # {} THEN Min(I) ELSE 0
<1>1. isValidPointer(s, len) =
        CASE KnowsNothing(s)             -> "maybe"
          [] ~KnowsNothing(s) /\ i = 0   -> "true"
          [] ~KnowsNothing(s) /\ i # 0   -> TargetValid(s.pointsTo[i], len)
  BY DEF isValidPointer, SelectInSeq
<1>2. I # {} => i \in I
  <2>1. I \subseteq Nat
    OBVIOUS
  <2> HIDE DEF I
  <2>2. ASSUME I # {} PROVE Min(I) \in I
    <3>1. \E m \in I : \A y \in I : m <= y
      BY <2>1, <2>2, LeastIs
    <3> QED BY <3>1 DEF Min
  <2> QED BY <2>2
<1>3. i \in I => i # 0 /\ TargetValid(s.pointsTo[i], len) # "true"
  OBVIOUS
<1> HIDE DEF i
<1>4. I = {} /\ ~KnowsNothing(s)
  BY <1>1, <1>2, <1>3
<1> QED BY <1>4 DEF KnowsNothing, Pointees, ToSet

LEMMA TargetFits ==
  ASSUME NEW p, NEW len, TargetValid(p, len) = "true"
  PROVE  isAlloc(p) /\ p.offset # UNKNOWN /\ len <= p.target.size /\ p.offset <= p.target.size - len
BY DEF TargetValid, Truth
-----------------------------------------------------------------------------
(***************************************************************************)
(* The inductive invariant: the access is one that Init picks, the checks  *)
(* are what the rules say of it, the outcome is that of one of them.       *)
(***************************************************************************)
AccessInv ==
  /\ base \in [built : BOOLEAN, pointsTo : Seq(Pointers)]
  /\ target \in Possible /\ node = PointerNode
  /\ gep \in {"no", "const", "var"} /\ n \in Ints /\ (gep = "no" => n = 0)
  /\ range \in Ranges

ChecksInv ==
  /\ phase \in {"analysed", "instrumented", "executed"}
  /\ IF phase = "analysed" THEN checks = {}
       ELSE \E ranged \in RangedChecks : checks = {r \in Rules(ranged) : Applies(r)}
  /\ IF phase = "executed" THEN \E c \in checks : outcome = Outcome(c) ELSE outcome = "ok"

BoundsInv == AccessInv /\ ChecksInv

LEMMA BoundsInit == Init => BoundsInv
<1> SUFFICES ASSUME Init PROVE BoundsInv
  OBVIOUS
<1>1. base \in [built : BOOLEAN, pointsTo : Seq(Pointers)]
  <2>1. CASE base = NoNode
    BY <2>1 DEF NoNode
  <2>2. ASSUME NEW s \in BoundedSeq(Pointers, MaxTargets), base = Node(s)
        PROVE  base \in [built : BOOLEAN, pointsTo : Seq(Pointers)]
    <3>1. s \in Seq(Pointers)
      <4>1. PICK m \in 0 .. MaxTargets : s \in [1 .. m -> Pointers]
        BY DEF BoundedSeq, SeqOf
      <4> QED BY <4>1
    <3> QED BY <2>2, <3>1 DEF Node
  <2>3. base \in Nodes
    BY DEF Init
  <2> QED BY <2>1, <2>2, <2>3 DEF Nodes
<1>2. n \in Ints /\ (gep = "no" => n = 0)
  <2>1. 0 \in Ints
    BY Halves DEF Ints, Half
  <2>2. n \in IF gep = "no" THEN {0} ELSE Ints
    BY DEF Init
  <2> QED BY <2>1, <2>2
<1>3. AccessInv
  BY <1>1, <1>2 DEF Init, AccessInv
<1>4. ChecksInv
  BY DEF Init, ChecksInv
<1> QED BY <1>3, <1>4 DEF BoundsInv

LEMMA BoundsStep == BoundsInv /\ [Next]_vars => BoundsInv'
<1> SUFFICES ASSUME BoundsInv, [Next]_vars PROVE BoundsInv'
  OBVIOUS
<1>1. UNCHANGED <<base, node, gep, target, n, range>>
  BY DEF Next, Instrument, Execute, vars
<1>2. AccessInv'
  BY <1>1 DEF BoundsInv, AccessInv, Possible, Stands, PointerNode, Step, Moved, Ints
<1>3. /\ \A r : Applies(r)' <=> Applies(r)
      /\ \A c : Outcome(c)' = Outcome(c)
  BY <1>1 DEF Applies, Suspect, Dubious, Unmeasured, Known, Outcome, check_bounds,
              check_bounds_min, check_bounds_min_max
<1> DEFINE Placed(ranged) == {r \in Rules(ranged) : Applies(r)}
<1>7. \A ranged : Placed(ranged)' = Placed(ranged)
  BY <1>3 DEF Rules
<1>8. /\ phase \in {"analysed", "instrumented", "executed"}
      /\ IF phase = "analysed" THEN checks = {}
           ELSE \E ranged \in RangedChecks : checks = Placed(ranged)
      /\ IF phase = "executed" THEN \E c \in checks : outcome = Outcome(c) ELSE outcome = "ok"
  BY DEF BoundsInv, ChecksInv
<1>9. ASSUME /\ phase' \in {"analysed", "instrumented", "executed"}
             /\ IF phase' = "analysed" THEN checks' = {}
                  ELSE \E ranged \in RangedChecks : checks' = Placed(ranged)
             /\ IF phase' = "executed" THEN \E c \in checks' : outcome' = Outcome(c)
                  ELSE outcome' = "ok"
      PROVE  ChecksInv'
  <2>1. \A ranged : {r \in Rules(ranged)' : Applies(r)'} = Placed(ranged)
    BY <1>7
  <2> HIDE DEF Placed
  <2> QED BY <1>3, <1>9, <2>1 DEF ChecksInv
<1>4. CASE Instrument
  <2>1. /\ phase = "analysed" /\ phase' = "instrumented" /\ outcome' = outcome
        /\ \E ranged \in RangedChecks : checks' = Placed(ranged)
    BY <1>4 DEF Instrument
  <2> HIDE DEF Placed
  <2> QED BY <1>2, <1>8, <1>9, <2>1 DEF BoundsInv
<1>5. CASE Execute
  <2>1. /\ phase = "instrumented" /\ phase' = "executed" /\ checks' = checks
        /\ \E c \in checks : outcome' = Outcome(c)
    BY <1>5 DEF Execute
  <2> HIDE DEF Placed
  <2> QED BY <1>2, <1>8, <1>9, <2>1 DEF BoundsInv
<1>6. CASE UNCHANGED vars
  <2>1. phase' = phase /\ checks' = checks /\ outcome' = outcome
    BY <1>6 DEF vars
  <2> HIDE DEF Placed
  <2> QED BY <1>2, <1>8, <1>9, <2>1 DEF BoundsInv
<1> QED BY <1>4, <1>5, <1>6 DEF Next

LEMMA BoundsInvariant == Spec => []BoundsInv
BY BoundsInit, BoundsStep, PTL DEF Spec

-----------------------------------------------------------------------------
(***************************************************************************)
(* What the pointees say of the target.                                    *)
(***************************************************************************)
LEMMA NodesAgree ==
  ASSUME AccessInv
  PROVE  /\ node.pointsTo \in Seq(ToSet(node.pointsTo))
         /\ base.pointsTo \in Seq(ToSet(base.pointsTo)) /\ base.pointsTo \in Seq(Pointers)
         /\ node.pointsTo = <<>> <=> base.pointsTo = <<>>
         /\ \A p \in Pointees(base) : p \in Pointers /\ Step(p) \in Pointees(node)
<1> DEFINE b == base.pointsTo  q == node.pointsTo
<1>1. b \in Seq(Pointers) /\ q = [i \in DOMAIN b |-> Step(b[i])]
  BY DEF AccessInv, PointerNode
<1>2. b \in Seq(ToSet(b)) /\ \A p \in ToSet(b) : p \in Pointers
  <2> HIDE DEF b, q
  <2> QED BY <1>1 DEF ToSet
<1> HIDE DEF b, q
<1>3. DOMAIN b = 1 .. Len(b) /\ Len(b) \in Nat
  BY <1>1
<1>4. q = [i \in 1 .. Len(b) |-> Step(b[i])]
  BY <1>1, <1>3
<1>5. \A i \in 1 .. Len(b) : q[i] = Step(b[i]) /\ q[i] \in ToSet(q)
  BY <1>4 DEF ToSet
<1>6. q \in Seq(ToSet(q)) /\ Len(q) = Len(b)
  <2>1. q = [i \in 1 .. Len(b) |-> q[i]]
    BY <1>4
  <2>2. q \in [1 .. Len(b) -> ToSet(q)]
    BY <1>5, <2>1
  <2> QED BY <1>3, <2>2
<1>7. q = <<>> <=> b = <<>>
  BY <1>1, <1>6
<1>8. \A p \in ToSet(b) : Step(p) \in ToSet(q)
  BY <1>3, <1>5 DEF ToSet
<1> QED BY <1>1, <1>2, <1>6, <1>7, <1>8 DEF b, q, Pointees

LEMMA Moves ==
  ASSUME AccessInv, NEW p \in Pointers
  PROVE  /\ Step(p).target = p.target /\ (isAlloc(Step(p)) <=> isAlloc(p))
         /\ isAlloc(p) /\ Step(p).offset # UNKNOWN =>
              /\ p.offset # UNKNOWN /\ Step(p).offset = p.offset + n
              /\ Step(p).offset \in Nat
<1>1. gep \in {"no", "const", "var"} /\ n \in Int /\ (gep = "no" => n = 0)
  BY Halves DEF AccessInv, Ints, Half, INT_MIN
<1>2. isAlloc(p) => p.offset \in Int /\ p.target.size \in Int
  BY PointerType DEF UNKNOWN
<1>3. /\ Loose(p).target = p.target /\ (isAlloc(p) => Loose(p).offset = UNKNOWN)
  BY DEF Loose, PointerTo
<1>4. /\ Moved(p, n).target = p.target
      /\ isAlloc(p) /\ Moved(p, n).offset # UNKNOWN =>
           /\ p.offset # UNKNOWN /\ Moved(p, n).offset = p.offset + n
           /\ Moved(p, n).offset \in Nat
  BY <1>1, <1>2 DEF Moved, PointerTo
<1>5. isAlloc(p) /\ p.offset # UNKNOWN => p.offset \in Nat
  BY PointerType
<1> QED BY <1>1, <1>2, <1>3, <1>4, <1>5 DEF Step, isAlloc

LEMMA TargetIs ==
  ASSUME AccessInv, base.pointsTo # <<>>
  PROVE  \E p \in Pointees(base) : target \in Stands(p)
BY DEF AccessInv, Possible, KnowsNothing

LEMMA StandsFor ==
  ASSUME NEW p \in Pointers, NEW t \in Stands(p)
  PROVE  /\ p.target.kind \in {"null", "invalidated"} => t.kind \in SpecialKinds
         /\ isAlloc(p) =>
              /\ t.kind = p.target.kind /\ t.kind \in {"stack", "heap", "global"}
              /\ t.size \in 0 .. Half - 1 /\ t.offset \in 0 .. t.size
              /\ p.target.size # 0 => t.size = p.target.size
              /\ p.offset # UNKNOWN => t.offset = p.offset
<1>1. CASE isAlloc(p)
  <2>1. /\ ~isUnknown(p) /\ p.target.kind \notin {"null", "invalidated"}
        /\ t \in Inside(p.target) /\ p.offset \in {UNKNOWN, t.offset}
    BY <1>1 DEF Stands, isAlloc, isUnknown, SpecialKinds
  <2>2. p.target \in Objects
    BY <1>1, PointerType
  <2> DEFINE o == p.target
  <2>6. PICK s \in RealSize[o.name] : t \in {Place(o.kind, s, d) : d \in 0 .. s}
    BY <2>1 DEF Inside
  <2>3. PICK d \in 0 .. s : t = Place(o.kind, s, d)
    BY <2>6
  <2>4. t.kind = o.kind /\ t.size = s /\ t.offset = d
    BY <2>3 DEF Place
  <2>5. /\ o.kind \in {"stack", "heap", "global"} /\ s \in 0 .. Half - 1
        /\ o.size # 0 => s = o.size
    BY <2>2, <2>3, ObjectsAssumption DEF Half
  <2> HIDE DEF o
  <2> QED BY <2>1, <2>4, <2>5 DEF o
<1>2. CASE p.target.kind \in {"null", "invalidated"}
  <2>1. t = Place(p.target.kind, 0, 0) /\ ~isAlloc(p)
    BY <1>2 DEF Stands, isAlloc, isUnknown, SpecialKinds
  <2> QED BY <1>2, <2>1 DEF Place, SpecialKinds
<1> QED BY <1>1, <1>2
-----------------------------------------------------------------------------
(***************************************************************************)
(* The rules.                                                              *)
(***************************************************************************)
LEMMA RangedNames ==
  ASSUME NEW r \in RangedChecks
  PROVE  r \in {"min", "min_max"}
BY WidthAssumption

(* The regions exclude each other: what is asked of the pointees differs.  *)
LEMMA RegionsDiffer ==
  ASSUME AccessInv
  PROVE  /\ ~ (pointsToStack(node) = "true" /\ pointsToHeap(node) = "true")
         /\ ~ (pointsToStack(node) = "true" /\ pointsToGlobal(node) = "true")
         /\ ~ (pointsToHeap(node) = "true" /\ pointsToGlobal(node) = "true")
<1>1. node.pointsTo \in Seq(ToSet(node.pointsTo))
  BY NodesAgree
<1> QED BY <1>1, AllOfTrue

LEMMA AppliesTo ==
  /\ Applies("fail") <=> Suspect /\ isInvalid(node) = "true"
  /\ Applies("bounds") <=> Dubious /\ Known(hasKnownSize)
  /\ \A r \in RangedChecks :
       Applies(r) <=> Dubious /\ ~Known(hasKnownSize) /\ Known(hasKnownSizes)
  /\ Applies("stack") <=> Unmeasured /\ pointsToStack(node) = "true"
  /\ Applies("heap") <=> Unmeasured /\ pointsToHeap(node) = "true"
  /\ Applies("globals") <=> Unmeasured /\ pointsToGlobal(node) = "true"
  /\ Applies("pointer") <=> /\ Unmeasured /\ pointsToStack(node) # "true"
                            /\ pointsToHeap(node) # "true" /\ pointsToGlobal(node) # "true"
BY RangedNames DEF Applies

LEMMA OneApplies ==
  ASSUME AccessInv, NEW ranged \in RangedChecks
  PROVE  \A r, s \in {t \in Rules(ranged) : Applies(t)} : r = s
<1>1. Rules(ranged) = {"fail", "bounds", ranged, "stack", "heap", "globals", "pointer"}
  BY DEF Rules
<1>2. /\ Dubious <=> Suspect /\ isInvalid(node) # "true"
      /\ Unmeasured <=> Dubious /\ ~Known(hasKnownSize) /\ ~Known(hasKnownSizes)
  BY DEF Dubious, Unmeasured
<1>3. Applies(ranged) <=> Dubious /\ ~Known(hasKnownSize) /\ Known(hasKnownSizes)
  BY AppliesTo
<1> QED BY <1>1, <1>2, <1>3, AppliesTo, RegionsDiffer

(* An access gets no more than one check, whatever the points-to sets are: *)
(* the conditions of the rules, asked of the pointer and of its base,      *)
(* exclude each other (dg_points_to_plugin.cpp:351-419 and the conditions  *)
(* of config-i2-enhanced-lifetimes.json and config-minmax.json).           *)
THEOREM ChecksExclude == Spec => []OneCheckEach
<1>1. BoundsInv => OneCheckEach
  <2> SUFFICES ASSUME BoundsInv PROVE OneCheckEach
    OBVIOUS
  <2>1. \A r, s \in checks : r = s
    BY OneApplies DEF BoundsInv, ChecksInv
  <2>2. CASE checks = {}
    BY <2>2, FS_EmptySet DEF OneCheckEach
  <2>3. CASE checks # {}
    <3>1. PICK r \in checks : TRUE
      BY <2>3
    <3>2. checks = {r}
      BY <2>1, <3>1
    <3>3. Cardinality(checks) = 1
      BY <3>2, FS_Singleton
    <3> QED BY <3>3 DEF OneCheckEach
  <2> QED BY <2>2, <2>3
<1> QED BY <1>1, BoundsInvariant, PTL

(* The check that asks the list of one region is placed only before        *)
(* accesses to that region, or to no object at all                         *)
(* (dg_points_to_plugin.cpp:113-195, memsafety.c:259-299).                 *)
THEOREM ListsAreRight == Spec => []RightList
<1>1. BoundsInv => RightList
  <2> SUFFICES ASSUME BoundsInv, target.kind \notin SpecialKinds
               PROVE  /\ "stack" \in checks => target.kind = "stack"
                      /\ "heap" \in checks => target.kind = "heap"
                      /\ "globals" \in checks => target.kind = "global"
    BY DEF RightList
  <2>1. AccessInv /\ \A r \in checks : Applies(r)
    BY DEF BoundsInv, ChecksInv
  <2>2. ASSUME node.pointsTo # <<>>
        PROVE  \E p \in Pointees(base) : /\ p \in Pointers /\ target \in Stands(p)
                                         /\ Step(p) \in Pointees(node)
                                         /\ Step(p).target = p.target
                                         /\ (isAlloc(Step(p)) <=> isAlloc(p))
    <3>1. base.pointsTo # <<>>
      BY <2>1, <2>2, NodesAgree
    <3>2. PICK p \in Pointees(base) : target \in Stands(p)
      BY <2>1, <3>1, TargetIs
    <3>3. p \in Pointers /\ Step(p) \in Pointees(node)
      BY <2>1, NodesAgree
    <3> QED BY <2>1, <3>2, <3>3, Moves
  <2>3. node.pointsTo \in Seq(ToSet(node.pointsTo))
    BY <2>1, NodesAgree
  <2>4. ASSUME "stack" \in checks PROVE target.kind = "stack"
    <3>1. pointsToStack(node) = "true"
      BY <2>1, <2>4, AppliesTo
    <3>2. /\ node.pointsTo # <<>>
          /\ \A p \in Pointees(node) : isAlloc(p) /\ p.target.kind \notin {"global", "heap"}
      BY <2>3, <3>1, AllOfTrue
    <3>3. PICK p \in Pointers : target \in Stands(p) /\ isAlloc(p) /\ p.target.kind \notin {"global", "heap"}
      BY <2>2, <3>2
    <3> QED BY <3>3, StandsFor
  <2>5. ASSUME "heap" \in checks PROVE target.kind = "heap"
    <3>1. pointsToHeap(node) = "true"
      BY <2>1, <2>5, AppliesTo
    <3>2. node.pointsTo # <<>> /\ \A p \in Pointees(node) : p.target.kind = "heap"
      BY <2>3, <3>1, AllOfTrue
    <3>3. PICK p \in Pointers : target \in Stands(p) /\ p.target.kind = "heap"
      BY <2>2, <3>2
    <3>4. isAlloc(p)
      BY <3>3 DEF isAlloc, SpecialKinds
    <3> QED BY <3>3, <3>4, StandsFor
  <2>6. ASSUME "globals" \in checks PROVE target.kind = "global"
    <3>1. pointsToGlobal(node) = "true"
      BY <2>1, <2>6, AppliesTo
    <3>2. node.pointsTo # <<>> /\ \A p \in Pointees(node) : p.target.kind = "global"
      BY <2>3, <3>1, AllOfTrue
    <3>3. PICK p \in Pointers : target \in Stands(p) /\ p.target.kind = "global"
      BY <2>2, <3>2
    <3>4. isAlloc(p)
      BY <3>3 DEF isAlloc, SpecialKinds
    <3> QED BY <3>3, <3>4, StandsFor
  <2> QED BY <2>4, <2>5, <2>6
<1> QED BY <1>1, BoundsInvariant, PTL

(* An access that no rule places a check before is valid at run time       *)
(* (dg_points_to_plugin.cpp:351-419).                                      *)
THEOREM UncheckedAreValid == Spec => []UncheckedMeansValid
<1>1. BoundsInv => UncheckedMeansValid
  <2> SUFFICES ASSUME BoundsInv, phase = "instrumented", checks = {} PROVE Valid
    BY DEF UncheckedMeansValid
  <2>1. AccessInv
    BY DEF BoundsInv
  <2>2. isValidPointer(node, range) = "true"
    <3>1. PICK ranged \in RangedChecks : {} = {r \in Rules(ranged) : Applies(r)}
      BY DEF BoundsInv, ChecksInv
    <3>2. \A r \in Rules(ranged) : ~Applies(r)
      BY <3>1
    <3>3. /\ ~Applies("fail") /\ ~Applies("bounds") /\ ~Applies(ranged) /\ ~Applies("stack")
          /\ ~Applies("heap") /\ ~Applies("globals") /\ ~Applies("pointer")
      BY <3>2 DEF Rules
    <3>4. ~Suspect
      BY <3>3, AppliesTo DEF Dubious, Unmeasured
    <3> QED BY <3>4 DEF Suspect
  <2>3. node.pointsTo # <<>> /\ \A p \in Pointees(node) : TargetValid(p, range) = "true"
    BY <2>1, <2>2, NodesAgree, ValidPointer
  <2>4. PICK p \in Pointees(base) : target \in Stands(p)
    BY <2>1, <2>3, NodesAgree, TargetIs
  <2>5. p \in Pointers /\ Step(p) \in Pointees(node)
    BY <2>1, NodesAgree
  <2>6. /\ isAlloc(Step(p)) /\ Step(p).offset # UNKNOWN /\ range <= Step(p).target.size
        /\ Step(p).offset <= Step(p).target.size - range
    BY <2>3, <2>5, TargetFits
  <2>7. /\ isAlloc(p) /\ p.offset # UNKNOWN /\ Step(p).offset = p.offset + n
        /\ Step(p).target = p.target
    BY <2>1, <2>5, <2>6, Moves
  <2>8. range \in 1 .. Half /\ n \in Int
    BY <2>1, Halves, WidthAssumption DEF AccessInv, Half, Ints
  <2>9. p.target.size \in Nat /\ p.target.size # 0
    BY <2>5, <2>6, <2>7, <2>8, PointerType, Halves
  <2>10. /\ target.kind \notin SpecialKinds /\ target.size = p.target.size
         /\ target.offset = p.offset /\ target.offset \in Nat
    BY <2>4, <2>5, <2>7, <2>9, StandsFor, Halves DEF SpecialKinds
  <2>11. Step(p).offset \in Nat
    BY <2>1, <2>5, <2>6, <2>7, Moves
  <2> QED BY <2>6, <2>7, <2>8, <2>9, <2>10, <2>11 DEF Valid
<1> QED BY <1>1, BoundsInvariant, PTL
-----------------------------------------------------------------------------
(***************************************************************************)
(* What the checks are told of the base.                                   *)
(***************************************************************************)
LEMMA AccessNumbers ==
  ASSUME AccessInv
  PROVE  n \in -Half .. Half - 1 /\ range \in 1 .. Half /\ Half \in Nat \ {0}
BY Halves, WidthAssumption DEF AccessInv, Half, Ints

LEMMA MeasuredSize ==
  ASSUME NEW p \in Pointers, Measured(p)
  PROVE  /\ isAlloc(p) /\ p.target.size \in 1 .. Half - 1
         /\ p.offset \in 0 .. p.target.size - 1
         /\ \A t \in Stands(p) : t.offset = p.offset /\ t.size = p.target.size
                                 /\ t.kind \notin SpecialKinds
<1>1. isAlloc(p) /\ p.offset # UNKNOWN /\ p.target.size # 0
  BY DEF Measured
<1>2. /\ p.target \in Objects /\ p.target.size \in Nat
      /\ p.offset \in 0 .. p.target.size - 1
  BY <1>1, PointerType
<1>3. p.target.size \in 0 .. Half - 1
  BY <1>1, <1>2, ObjectsAssumption DEF Half
<1>4. \A t \in Stands(p) : t.offset = p.offset /\ t.size = p.target.size /\ t.kind \notin SpecialKinds
  BY <1>1, StandsFor DEF SpecialKinds
<1> QED BY <1>1, <1>2, <1>3, <1>4

LEMMA OneSize ==
  ASSUME AccessInv, hasKnownSize(base) = "true"
  PROVE  /\ getPointerInfo(base).size \in 1 .. Half - 1
         /\ getPointerInfo(base).offset \in 0 .. getPointerInfo(base).size - 1
         /\ target.offset = getPointerInfo(base).offset
         /\ target.size = getPointerInfo(base).size /\ target.kind \notin SpecialKinds
<1> DEFINE h == Head(base.pointsTo)
<1>1. /\ base.pointsTo # <<>> /\ Measured(h)
      /\ \A p \in Pointees(base) : p.offset = h.offset /\ p.target.size = h.target.size
  BY DEF hasKnownSize, Truth, KnowsNothing
<1>2. h \in Pointers
  BY <1>1, NodesAgree
<1>3. getPointerInfo(base).size = h.target.size /\ getPointerInfo(base).offset = h.offset
  BY DEF getPointerInfo
<1>4. PICK p \in Pointees(base) : target \in Stands(p)
  BY <1>1, TargetIs
<1>5. p \in Pointers /\ p.offset = h.offset /\ p.target.size = h.target.size
  BY <1>1, NodesAgree
<1> HIDE DEF h
<1>6. h.target.size \in 1 .. Half - 1 /\ h.offset \in 0 .. h.target.size - 1
  BY <1>1, <1>2, MeasuredSize
<1>7. Measured(p)
  <2>1. p.offset # UNKNOWN /\ p.target.size # 0
    BY <1>5, <1>6, Halves DEF UNKNOWN
  <2>2. isAlloc(p)
    BY <1>5, <2>1, PointerType
  <2> QED BY <2>1, <2>2 DEF Measured
<1> QED BY <1>3, <1>4, <1>5, <1>6, <1>7, MeasuredSize

LEMMA SomeSizes ==
  ASSUME AccessInv, hasKnownSizes(base) = "true"
  PROVE  /\ Least(Offsets(base)) \in 0 .. target.offset
         /\ Greatest(Offsets(base)) \in target.offset .. Half - 1
         /\ Least(Spaces(base)) \in 1 .. target.size - target.offset
         /\ Greatest(Spaces(base)) \in target.size - target.offset .. Half - 1
         /\ target.offset \in Nat /\ target.size \in Nat /\ target.offset < target.size
         /\ target.kind \notin SpecialKinds
<1>1. base.pointsTo # <<>> /\ \A p \in Pointees(base) : Measured(p) /\ p \in Pointers
  BY NodesAgree DEF hasKnownSizes, Truth, KnowsNothing
<1>2. PICK p \in Pointees(base) : target \in Stands(p)
  BY <1>1, TargetIs
<1>3. /\ target.offset = p.offset /\ target.size = p.target.size /\ target.kind \notin SpecialKinds
      /\ target.size \in 1 .. Half - 1 /\ target.offset \in 0 .. target.size - 1
  BY <1>1, <1>2, MeasuredSize
<1> DEFINE O == Offsets(base)  S == Spaces(base)
<1>4. O \subseteq 0 .. Half - 1 /\ target.offset \in O
  <2>1. \A q \in Pointees(base) : q.offset \in 0 .. Half - 1
    <3> TAKE q \in Pointees(base)
    <3>1. q.target.size \in 1 .. Half - 1 /\ q.offset \in 0 .. q.target.size - 1
      BY <1>1, MeasuredSize
    <3> QED BY <3>1, Halves
  <2> QED BY <1>2, <1>3, <2>1 DEF Offsets
<1>5. S \subseteq 1 .. Half - 1 /\ target.size - target.offset \in S
  <2>1. \A q \in Pointees(base) : Space(q) \in 1 .. Half - 1
    <3> TAKE q \in Pointees(base)
    <3>1. q.target.size \in 1 .. Half - 1 /\ q.offset \in 0 .. q.target.size - 1
      BY <1>1, MeasuredSize
    <3> QED BY <3>1, Halves DEF Space
  <2>2. Space(p) = target.size - target.offset
    BY <1>3 DEF Space
  <2> QED BY <1>2, <2>1, <2>2 DEF Spaces
<1> HIDE DEF O, S
<1>6. Least(O) \in O /\ Least(S) \in S /\ (\A x \in O : Least(O) <= x) /\ \A x \in S : Least(S) <= x
  <2>1. O \subseteq Nat /\ S \subseteq Nat /\ O # {} /\ S # {}
    BY <1>4, <1>5
  <2> QED BY <2>1, LeastIs
<1>7. /\ Greatest(O) \in O /\ Greatest(S) \in S
      /\ (\A x \in O : x <= Greatest(O)) /\ \A x \in S : x <= Greatest(S)
  <2>1. Half - 1 \in Nat /\ S \subseteq 0 .. Half - 1
    BY <1>5, Halves
  <2>2. Greatest(O) \in O /\ \A x \in O : x <= Greatest(O)
    BY <1>4, <2>1, GreatestIs
  <2>3. Greatest(S) \in S /\ \A x \in S : x <= Greatest(S)
    BY <1>5, <2>1, GreatestIs
  <2> QED BY <2>2, <2>3
<1>8. Least(O) \in 0 .. target.offset /\ Greatest(O) \in target.offset .. Half - 1
  <2>1. Least(O) <= target.offset /\ target.offset <= Greatest(O)
    BY <1>4, <1>6, <1>7
  <2>2. Least(O) \in 0 .. Half - 1 /\ Greatest(O) \in 0 .. Half - 1
    BY <1>4, <1>6, <1>7
  <2> QED BY <1>3, <2>1, <2>2, Halves
<1>9. /\ Least(S) \in 1 .. target.size - target.offset
      /\ Greatest(S) \in target.size - target.offset .. Half - 1
  <2>1. Least(S) <= target.size - target.offset /\ target.size - target.offset <= Greatest(S)
    BY <1>5, <1>6, <1>7
  <2>2. Least(S) \in 1 .. Half - 1 /\ Greatest(S) \in 1 .. Half - 1
    BY <1>5, <1>6, <1>7
  <2> QED BY <1>3, <2>1, <2>2, Halves
<1> QED BY <1>3, <1>8, <1>9 DEF O, S

-----------------------------------------------------------------------------
(***************************************************************************)
(* What the checks decide.                                                 *)
(***************************************************************************)
LEMMA BoundsDecides ==
  ASSUME AccessInv, hasKnownSize(base) = "true"
  PROVE  /\ check_bounds = "ok" => Valid
         /\ check_bounds = "alarm" => ~Valid
<1> DEFINE H == Half  off == getPointerInfo(base).offset  size == getPointerInfo(base).size
           offb == int(n + off)
<1>1. /\ H \in Nat \ {0} /\ n \in -H .. H - 1 /\ range \in 1 .. H
      /\ size \in 1 .. H - 1 /\ off \in 0 .. size - 1
      /\ target.offset = off /\ target.size = size /\ target.kind \notin SpecialKinds
  BY AccessNumbers, OneSize
<1>2. check_bounds = IF offb < 0 \/ uint(offb + range) > size THEN "alarm" ELSE "ok"
  BY DEF check_bounds
<1>3. /\ n + off \in Int
      /\ n + off \in -H .. H - 1 => offb = n + off
      /\ n + off \in H .. 2 * H - 1 => offb = (n + off) - 2 * H
  <2>1. n + off \in Int
    BY <1>1
  <2> QED BY <2>1, Signed
<1>4. ASSUME NEW x \in 0 .. 2 * H - 1 PROVE uint(x) = x
  BY <1>1, <1>4, Unsigned
<1>5. Valid <=> off + n >= 0 /\ (off + n) + range <= size
  BY <1>1 DEF Valid
<1> HIDE DEF H, off, size, offb
<1>6. CASE n + off < 0
  <2>1. offb < 0
    BY <1>1, <1>3, <1>6
  <2> QED BY <1>1, <1>2, <1>5, <1>6, <2>1
<1>7. CASE n + off \in 0 .. H - 1
  <2>1. offb = n + off /\ offb + range \in 0 .. 2 * H - 1
    BY <1>1, <1>3, <1>7
  <2>2. uint(offb + range) = offb + range
    BY <1>4, <2>1
  <2> QED BY <1>1, <1>2, <1>5, <1>7, <2>1, <2>2
<1>8. CASE n + off >= H
  <2>1. offb < 0
    BY <1>1, <1>3, <1>8
  <2> QED BY <1>1, <1>2, <1>5, <1>8, <2>1
<1> QED BY <1>1, <1>3, <1>6, <1>7, <1>8

(* Back by n, and on by n + range, as the checks compute them.             *)
LEMMA Distances ==
  ASSUME AccessInv
  PROVE  /\ n < 0 => uint(-n) = -n
         /\ n + range >= 0 => uint(n + range) = n + range
         /\ n + range < 0 => uint(n + range) >= Half
         /\ n > 0 => uint(-n) > Half
         /\ uint(0) = 0
<1> DEFINE H == Half
<1>1. H \in Nat \ {0} /\ n \in -H .. H - 1 /\ range \in 1 .. H
  BY AccessNumbers
<1>2. ASSUME NEW x \in Int
      PROVE  /\ x \in 0 .. 2 * H - 1 => uint(x) = x
             /\ x \in -2 * H .. -1 => uint(x) = x + 2 * H
  BY Unsigned
<1> HIDE DEF H
<1>3. n < 0 => -n \in 0 .. 2 * H - 1
  BY <1>1
<1>4. n > 0 => -n \in -2 * H .. -1 /\ -n + 2 * H > H
  BY <1>1
<1>5. n + range >= 0 => n + range \in 0 .. 2 * H - 1
  BY <1>1
<1>6. n + range < 0 => n + range \in -2 * H .. -1 /\ (n + range) + 2 * H >= H
  BY <1>1
<1>7. -n \in Int /\ n + range \in Int /\ 0 \in 0 .. 2 * H - 1
  BY <1>1
<1>8. n < 0 => uint(-n) = -n
  BY <1>2, <1>3, <1>7
<1>9. n > 0 => uint(-n) > H
  BY <1>2, <1>4, <1>7
<1>10. n + range >= 0 => uint(n + range) = n + range
  BY <1>2, <1>5, <1>7
<1>11. n + range < 0 => uint(n + range) >= H
  BY <1>2, <1>6, <1>7
<1>12. uint(0) = 0
  BY <1>2, <1>7
<1> QED BY <1>8, <1>9, <1>10, <1>11, <1>12 DEF H
LEMMA MinDecides ==
  ASSUME AccessInv, hasKnownSizes(base) = "true", check_bounds_min = "ok"
  PROVE  Valid
<1> DEFINE H == Half  off == Least(Offsets(base))  space == Least(Spaces(base))
           t == target.offset  s == target.size
<1>1. /\ H \in Nat \ {0} /\ n \in -H .. H - 1 /\ range \in 1 .. H
      /\ off \in 0 .. t /\ space \in 1 .. s - t
      /\ t \in Nat /\ s \in Nat /\ t < s /\ t <= H - 1 /\ s - t <= H - 1
      /\ target.kind \notin SpecialKinds
  <2>1. Greatest(Offsets(base)) \in t .. Half - 1 /\ Greatest(Spaces(base)) \in s - t .. Half - 1
    BY SomeSizes
  <2>2. t \in Nat /\ s \in Nat /\ Half \in Nat
    BY AccessNumbers, SomeSizes
  <2>3. t <= Half - 1 /\ s - t <= Half - 1
    BY <2>1, <2>2
  <2> QED BY <2>3, AccessNumbers, SomeSizes
<1>2. ~ (n = -H /\ off < H) /\ ~ (off <= uint(-n)) /\ ~ (uint(n + range) > space)
  BY Halves DEF check_bounds_min, getPInfoMin, Half
<1>3. /\ n < 0 => uint(-n) = -n
      /\ n + range >= 0 => uint(n + range) = n + range
      /\ n + range < 0 => uint(n + range) >= H
  BY Distances
<1>4. Valid <=> t + n >= 0 /\ (t + n) + range <= s
  BY <1>1 DEF Valid
<1> HIDE DEF H, off, space, t, s
<1>5. t + n >= 0
  <2>1. CASE n < 0
    BY <1>1, <1>2, <1>3, <2>1
  <2>2. CASE n >= 0
    BY <1>1, <2>2
  <2> QED BY <1>1, <2>1, <2>2
<1>6. (t + n) + range <= s
  <2>1. CASE n + range < 0
    BY <1>1, <1>2, <1>3, <2>1
  <2>2. CASE n + range >= 0
    BY <1>1, <1>2, <1>3, <2>2
  <2> QED BY <1>1, <2>1, <2>2
<1> QED BY <1>4, <1>5, <1>6

LEMMA MinMaxDecides ==
  ASSUME AccessInv, hasKnownSizes(base) = "true"
  PROVE  /\ check_bounds_min_max = "ok" => Valid
         /\ check_bounds_min_max = "alarm" => ~Valid \/ RefusedBehind
<1> DEFINE H == Half  off == Least(Offsets(base))  space == Least(Spaces(base))
           far == Greatest(Offsets(base))  most == Greatest(Spaces(base))
           t == target.offset  s == target.size
           Beyond(o, m) == (n < 0 /\ o <= uint(-n)) \/ uint(n + range) > m
<1>1. /\ H \in Nat \ {0} /\ n \in -H .. H - 1 /\ range \in 1 .. H
      /\ off \in 0 .. t /\ space \in 1 .. s - t /\ far \in t .. H - 1 /\ most \in s - t .. H - 1
      /\ t \in Nat /\ s \in Nat /\ t < s /\ target.kind \notin SpecialKinds
  BY AccessNumbers, SomeSizes
<1>2. check_bounds_min_max = CASE Beyond(far, most) -> "alarm"
                               [] OTHER -> IF Beyond(off, space) THEN "list" ELSE "ok"
  BY DEF check_bounds_min_max, getPInfoMinMax
<1>3. /\ n < 0 => uint(-n) = -n
      /\ n + range >= 0 => uint(n + range) = n + range
      /\ n + range < 0 => uint(n + range) >= H
  BY Distances
<1>4. Valid <=> t + n >= 0 /\ (t + n) + range <= s
  BY <1>1 DEF Valid
<1>5. RefusedBehind <=> n < 0 /\ (-n = far \/ n + range < 0)
  BY DEF RefusedBehind, getPInfoMinMax
<1> HIDE DEF H, off, space, far, most, t, s, Beyond
<1>6. ASSUME check_bounds_min_max = "ok" PROVE Valid
  <2>1. ~Beyond(off, space)
    BY <1>2, <1>6
  <2>2. ~ (n < 0 /\ off <= uint(-n)) /\ ~ (uint(n + range) > space)
    BY <2>1 DEF Beyond
  <2>3. t + n >= 0
    <3>1. CASE n < 0
      BY <1>1, <1>3, <2>2, <3>1
    <3>2. CASE n >= 0
      BY <1>1, <3>2
    <3> QED BY <1>1, <3>1, <3>2
  <2>4. (t + n) + range <= s
    <3>1. CASE n + range < 0
      BY <1>1, <1>3, <2>2, <3>1
    <3>2. CASE n + range >= 0
      BY <1>1, <1>3, <2>2, <3>2
    <3> QED BY <1>1, <3>1, <3>2
  <2> QED BY <1>4, <2>3, <2>4
<1>7. ASSUME check_bounds_min_max = "alarm" PROVE ~Valid \/ RefusedBehind
  <2>1. Beyond(far, most)
    BY <1>2, <1>7
  <2>2. CASE n < 0 /\ far <= uint(-n)
    <3>1. far <= -n
      BY <1>3, <2>2
    <3>2. t + n < 0 \/ -n = far
      BY <1>1, <2>2, <3>1
    <3> QED BY <1>1, <1>4, <1>5, <2>2, <3>2
  <2>3. CASE uint(n + range) > most
    <3>1. CASE n + range < 0
      BY <1>1, <1>5, <3>1
    <3>2. CASE n + range >= 0
      BY <1>1, <1>3, <1>4, <2>3, <3>2
    <3> QED BY <1>1, <3>1, <3>2
  <2> QED BY <2>1, <2>2, <2>3 DEF Beyond
<1> QED BY <1>6, <1>7

(* Each check is placed where its question has an answer.                  *)
LEMMA ChecksAreFed ==
  ASSUME BoundsInv
  PROVE  /\ checks \subseteq {"fail", "bounds", "min", "min_max", "stack", "heap", "globals", "pointer"}
         /\ "bounds" \in checks => hasKnownSize(base) = "true"
         /\ "min" \in checks \/ "min_max" \in checks => hasKnownSizes(base) = "true"
         /\ "fail" \in checks => isInvalid(node) = "true"
<1>1. CASE checks = {}
  BY <1>1
<1>2. ASSUME NEW ranged \in RangedChecks, checks = {r \in Rules(ranged) : Applies(r)}
      PROVE  /\ checks \subseteq {"fail", "bounds", "min", "min_max", "stack", "heap", "globals", "pointer"}
             /\ "bounds" \in checks => hasKnownSize(base) = "true"
             /\ "min" \in checks \/ "min_max" \in checks => hasKnownSizes(base) = "true"
             /\ "fail" \in checks => isInvalid(node) = "true"
  <2>1. ranged \in {"min", "min_max"}
    BY RangedNames
  <2>2. \A r \in checks : Applies(r) /\ r \in {"fail", "bounds", ranged, "stack", "heap", "globals", "pointer"}
    BY <1>2 DEF Rules
  <2>3. Applies("bounds") => hasKnownSize(base) = "true"
    BY AppliesTo DEF Known
  <2>4. Applies(ranged) => hasKnownSizes(base) = "true"
    BY AppliesTo DEF Known
  <2>5. Applies("fail") => isInvalid(node) = "true"
    BY AppliesTo
  <2> QED BY <2>1, <2>2, <2>3, <2>4, <2>5
<1> QED BY <1>1, <1>2 DEF BoundsInv, ChecksInv

LEMMA Outcomes ==
  /\ Outcome("fail") = "alarm" /\ Outcome("bounds") = check_bounds
  /\ Outcome("min") = check_bounds_min /\ Outcome("min_max") = check_bounds_min_max
  /\ \A c \in {"stack", "heap", "globals", "pointer"} : Outcome(c) = "list"
BY DEF Outcome

(* A check that lets an access pass without asking a list is right to do   *)
(* so, for all sizes of the target and distances from the base, with what  *)
(* wraps in a word of W bits taken into account (memsafety.c:240-246,      *)
(* 325-361).                                                               *)
THEOREM PassedAreValid == Spec => []PassedMeansValid
<1>1. BoundsInv => PassedMeansValid
  <2> SUFFICES ASSUME BoundsInv, phase = "executed", outcome = "ok" PROVE Valid
    BY DEF PassedMeansValid
  <2>1. PICK c \in checks : Outcome(c) = "ok"
    BY DEF BoundsInv, ChecksInv
  <2>2. c \in {"fail", "bounds", "min", "min_max", "stack", "heap", "globals", "pointer"}
    BY ChecksAreFed
  <2>3. \/ c = "bounds" /\ check_bounds = "ok"
        \/ c = "min" /\ check_bounds_min = "ok"
        \/ c = "min_max" /\ check_bounds_min_max = "ok"
    BY <2>1, <2>2, Outcomes
  <2> QED BY <2>1, <2>3, ChecksAreFed, BoundsDecides, MinDecides, MinMaxDecides DEF BoundsInv
<1> QED BY <1>1, BoundsInvariant, PTL

(* The assertions of the checks fail for invalid accesses only, but for    *)
(* two kinds of access behind the base that check_bounds_min_max refuses   *)
(* (memsafety.c:240-246, 336-361, 453-456).                                *)
THEOREM AlarmsAreInvalid == Spec => []FailMeansInvalid
<1>1. BoundsInv => FailMeansInvalid
  <2> SUFFICES ASSUME BoundsInv, outcome = "alarm"
               PROVE  ~Valid \/ ("min_max" \in checks /\ RefusedBehind)
    BY DEF FailMeansInvalid
  <2>1. PICK c \in checks : Outcome(c) = "alarm"
    BY DEF BoundsInv, ChecksInv
  <2>2. c \in {"fail", "bounds", "min", "min_max", "stack", "heap", "globals", "pointer"}
    BY ChecksAreFed
  <2>3. \/ c = "fail"
        \/ c = "bounds" /\ check_bounds = "alarm"
        \/ c = "min" /\ check_bounds_min = "alarm"
        \/ c = "min_max" /\ check_bounds_min_max = "alarm"
    BY <2>1, <2>2, Outcomes
  <2>4. check_bounds_min # "alarm"
    BY DEF check_bounds_min
  <2>5. ASSUME "fail" \in checks PROVE ~Valid
    <3>1. /\ node.pointsTo # <<>>
          /\ \A p \in Pointees(node) : p.target.kind \in {"null", "invalidated"}
      BY <2>5, ChecksAreFed, NodesAgree, AllOfTrue DEF BoundsInv
    <3>2. PICK p \in Pointees(base) : target \in Stands(p)
      BY <3>1, NodesAgree, TargetIs DEF BoundsInv
    <3>3. p \in Pointers /\ Step(p) \in Pointees(node) /\ Step(p).target = p.target
      BY NodesAgree, Moves DEF BoundsInv
    <3>4. p.target.kind \in {"null", "invalidated"}
      BY <3>1, <3>3
    <3>5. target.kind \in SpecialKinds
      BY <3>2, <3>3, <3>4, StandsFor
    <3> QED BY <3>5 DEF Valid
  <2> QED BY <2>1, <2>3, <2>4, <2>5, ChecksAreFed, BoundsDecides, MinMaxDecides DEF BoundsInv
<1> QED BY <1>1, BoundsInvariant, PTL
=============================================================================
