--------------------------- MODULE OverflowProofs ----------------------------
(***************************************************************************)
(* Theorems of OverflowChecks for all widths of the types, all ranges of   *)
(* the operands and all operands: what the plugin's corner computations    *)
(* and the comparisons of overflows.c say is so.                           *)
(***************************************************************************)
EXTENDS OverflowChecks, TLAPS

-----------------------------------------------------------------------------
(* A division that rounds down, and comparisons with it.                   *)
LEMMA DivMod ==
  ASSUME NEW m \in Nat, NEW n \in Nat, n > 0
  PROVE  m = n * (m \div n) + (m % n)
OBVIOUS

LEMMA DivLess ==
  ASSUME NEW k \in Int, NEW m \in Nat, NEW n \in Nat \ {0}
  PROVE  /\ m \div n \in Nat
         /\ k <= m \div n <=> k * n <= m
<1>1. PICK q \in Nat, r \in Nat : m = q * n + r /\ r < n /\ m \div n = q
  <2>1. m \div n \in Nat
    OBVIOUS
  <2>2. m % n \in 0 .. n - 1
    OBVIOUS
  <2>3. m = n * (m \div n) + (m % n)
    BY DivMod
  <2>4. n * (m \div n) = (m \div n) * n
    BY <2>1
  <2> QED BY <2>1, <2>2, <2>3, <2>4
<1>2. CASE k <= q
  <2>1. k * n <= q * n
    BY <1>2
  <2> QED BY <1>1, <1>2, <2>1
<1>3. CASE k > q
  <2>1. (q + 1) * n <= k * n
    BY <1>3
  <2>2. (q + 1) * n = q * n + n
    OBVIOUS
  <2> QED BY <1>1, <1>3, <2>1, <2>2
<1> QED BY <1>1, <1>2, <1>3

(* A product of one factor from each of two intervals lies between the     *)
(* products of their ends.                                                 *)
LEMMA Monotonic ==
  ASSUME NEW p \in Int, NEW q \in Int, NEW c \in Int, p <= q
  PROVE  /\ c >= 0 => p * c <= q * c /\ c * p <= c * q
         /\ c <= 0 => q * c <= p * c /\ c * q <= c * p
<1>1. (q - p) * c = q * c - p * c /\ q * c = c * q /\ p * c = c * p
  OBVIOUS
<1>2. c >= 0 => (q - p) * c >= 0
  OBVIOUS
<1>3. c <= 0 => (q - p) * c <= 0
  OBVIOUS
<1> QED BY <1>1, <1>2, <1>3

LEMMA Between ==
  ASSUME NEW l \in Int, NEW u \in Int, NEW v \in Int, NEW c \in Int, l <= v, v <= u,
         NEW m \in Int, NEW M \in Int,
         m <= l * c, l * c <= M, m <= u * c, u * c <= M
  PROVE  m <= v * c /\ v * c <= M
<1>1. v * c \in Int /\ l * c \in Int /\ u * c \in Int
  OBVIOUS
<1>2. CASE c >= 0
  <2>1. l * c <= v * c /\ v * c <= u * c
    BY <1>2, Monotonic
  <2> QED BY <1>1, <2>1
<1>3. CASE c <= 0
  <2>1. u * c <= v * c /\ v * c <= l * c
    BY <1>3, Monotonic
  <2> QED BY <1>1, <2>1
<1> QED BY <1>2, <1>3

LEMMA Corners ==
  ASSUME NEW l1 \in Int, NEW u1 \in Int, NEW v \in Int, l1 <= v, v <= u1,
         NEW l2 \in Int, NEW u2 \in Int, NEW w \in Int, l2 <= w, w <= u2,
         NEW m \in Int, NEW M \in Int,
         \A p \in {l1, u1}, q \in {l2, u2} : m <= p * q /\ p * q <= M
  PROVE  m <= v * w /\ v * w <= M
<1>1. \A p \in {l1, u1} : m <= w * p /\ w * p <= M
  <2> SUFFICES ASSUME NEW p \in {l1, u1} PROVE m <= w * p /\ w * p <= M
    OBVIOUS
  <2>1. p \in Int /\ p * l2 = l2 * p /\ p * u2 = u2 * p
    OBVIOUS
  <2>2. m <= l2 * p /\ l2 * p <= M /\ m <= u2 * p /\ u2 * p <= M
    BY <2>1
  <2> QED BY SMTT(30), <2>1, <2>2, Between
<1>2. \A p \in {l1, u1} : p * w = w * p
  OBVIOUS
<1>3. m <= l1 * w /\ l1 * w <= M /\ m <= u1 * w /\ u1 * w <= M
  BY <1>1, <1>2
<1> QED BY <1>3, Between
-----------------------------------------------------------------------------
(* overflows.c compares a factor with an end of the type divided by the    *)
(* other factor: of a type from -P to P - 1, what each comparison means.   *)
LEMMA QuotientCompare ==
  ASSUME NEW P \in Nat \ {0}, NEW v \in Int, NEW w \in Int
  PROVE  /\ w > 0 => (v > Quotient(P - 1, w) <=> v * w > P - 1)
         /\ w > 0 => (v < Quotient(-P, w) <=> v * w < -P)
         /\ w < 0 => (v > Quotient(-P, w) <=> v * w < -P)
         /\ w < 0 /\ v # 0 => v > Quotient(P - 1, w) \/ v < Quotient(-P, w)
<1>1. CASE w > 0
  <2>1. Quotient(P - 1, w) = (P - 1) \div w /\ Quotient(-P, w) = -(P \div w)
    BY <1>1 DEF Quotient, Abs
  <2>2. /\ (P - 1) \div w \in Nat /\ (v <= (P - 1) \div w <=> v * w <= P - 1)
        /\ P \div w \in Nat /\ (-v <= P \div w <=> (-v) * w <= P)
    BY <1>1, DivLess
  <2>3. v * w \in Int /\ (-v) * w = -(v * w)
    OBVIOUS
  <2> QED BY <1>1, <2>1, <2>2, <2>3
<1>2. CASE w < 0
  <2>1. Quotient(P - 1, w) = -((P - 1) \div (-w)) /\ Quotient(-P, w) = P \div (-w)
    BY <1>2 DEF Quotient, Abs
  <2>2. /\ (P - 1) \div (-w) \in Nat
        /\ P \div (-w) \in Nat /\ (v <= P \div (-w) <=> v * (-w) <= P)
    BY <1>2, DivLess
  <2>3. v * w \in Int /\ v * (-w) = -(v * w)
    OBVIOUS
  <2> QED BY <1>2, <2>1, <2>2, <2>3
<1> QED BY <1>1, <1>2

(* The quotient of two values of a type is one, but for -P / -1.           *)
LEMMA QuotientFits ==
  ASSUME NEW P \in Nat \ {0}, NEW v \in -P .. P - 1, NEW w \in -P .. P - 1,
         w # 0, ~ (v = -P /\ w = -1)
  PROVE  -P <= Quotient(v, w) /\ Quotient(v, w) <= P - 1
<1>1. Abs(v) \in Nat /\ Abs(w) \in Nat \ {0}
  BY DEF Abs
<1> DEFINE q == Abs(v) \div Abs(w)
<1>2. q \in Nat /\ q * Abs(w) <= Abs(v)
  <2>1. q \in Nat
    BY <1>1, DivLess
  <2> QED BY <1>1, <2>1, DivLess
<1>3. Quotient(v, w) = IF (v < 0) = (w < 0) THEN q ELSE -q
  BY DEF Quotient
<1> HIDE DEF q
<1>4. q <= q * Abs(w)
  BY <1>1, <1>2
<1>5. q <= Abs(v) /\ Abs(v) <= P
  BY <1>1, <1>2, <1>4 DEF Abs
<1>6. CASE q = P /\ (v < 0) = (w < 0)
  <2>1. v = -P /\ Abs(v) = P /\ w < 0
    BY <1>5, <1>6 DEF Abs
  <2>2. Abs(w) >= 2
    BY <1>1, <2>1 DEF Abs
  <2>3. q * 2 <= q * Abs(w)
    BY <1>1, <1>2, <2>2, Monotonic
  <2> QED BY <1>1, <1>2, <1>6, <2>1, <2>3
<1>7. CASE ~ (q = P /\ (v < 0) = (w < 0))
  <2>1. q <= P /\ q \in Nat
    BY <1>1, <1>2, <1>5
  <2>2. CASE (v < 0) = (w < 0)
    BY <1>3, <1>7, <2>1, <2>2
  <2>3. CASE (v < 0) # (w < 0)
    BY <1>3, <2>1, <2>3
  <2> QED BY <2>2, <2>3
<1> QED BY <1>6, <1>7
-----------------------------------------------------------------------------
(***************************************************************************)
(* The strengthening: answer and call follow from the instruction alone,   *)
(* the operands are in their ranges whenever they are judged or used, and  *)
(* what is executed after a check has passed it.                           *)
(***************************************************************************)
Asked == IF config = "config-no-ra" THEN canOverflowNSW ELSE canOverflow
Called ==
  opcode \in RuleOpcodes /\ type \in RuleTypes /\ answer \in {"true", "unknown"}

LifeInv ==
  /\ opcode \in Opcodes /\ type \in DOMAIN Bits /\ nsw \in BOOLEAN
  /\ a \in OperandRanges /\ b \in OperandRanges
  /\ phase \in {"query", "rules", "run", "check", "execute", "alarm", "trap"}
  /\ phase # "query" => answer = Asked
  /\ phase \notin {"query", "rules"} => call = Called
  /\ phase \in {"check", "execute", "alarm", "trap"} =>
       /\ x \in OperandType /\ Contains(a, x)
       /\ y \in OperandType /\ Contains(b, y)
  /\ phase = "check" => call
  /\ phase = "execute" => ~ (call /\ Check)
  /\ phase = "alarm" => call /\ (Check \/ Undefined)

(* What is asked of the instruction does not change.                       *)
LEMMA Frozen ==
  ASSUME UNCHANGED instruction
  PROVE  /\ Asked' = Asked /\ OperandRanges' = OperandRanges /\ OperandType' = OperandType
         /\ UNCHANGED <<opcode, type, nsw, config, a, b>>
<1>1. UNCHANGED <<opcode, type, nsw, config, a, b>>
  BY DEF instruction
<1>2. TypeMin' = TypeMin /\ TypeMax' = TypeMax /\ Overflowing' = Overflowing
  BY <1>1 DEF TypeMin, TypeMax, Overflowing
<1>3. /\ canOverflowAdd' = canOverflowAdd /\ canOverflowSub' = canOverflowSub
      /\ canOverflowMul' = canOverflowMul /\ canOverflowDiv' = canOverflowDiv
      /\ canOverflowTrunc' = canOverflowTrunc
  BY <1>1, <1>2 DEF canOverflowAdd, canOverflowSub, canOverflowMul, canOverflowDiv,
     canOverflowTrunc, checkOverflowAdd, checkOverflowSub, checkOverflowMul, InType, Saturated
<1>4. Possible' = Possible
  BY <1>1, <1>3 DEF Possible
<1>5. canOverflow' = canOverflow /\ canOverflowNSW' = canOverflowNSW
  BY <1>1, <1>2, <1>4 DEF canOverflow, canOverflowNSW
<1>6. Asked' = Asked
  BY <1>1, <1>5 DEF Asked
<1>7. OperandRanges' = OperandRanges /\ OperandType' = OperandType
  BY <1>1 DEF OperandRanges, OperandType
<1> QED BY <1>1, <1>6, <1>7

LEMMA SameJudgement ==
  ASSUME UNCHANGED <<instruction, x, y>>
  PROVE  Check' = Check /\ Undefined' = Undefined
<1>1. UNCHANGED <<opcode, type, nsw, config, a, b, x, y>>
  BY DEF instruction
<1>2. TypeMin' = TypeMin /\ TypeMax' = TypeMax
  BY <1>1 DEF TypeMin, TypeMax
<1>3. /\ checkAdd' = checkAdd /\ checkSub' = checkSub /\ checkMul32' = checkMul32
      /\ checkDiv' = checkDiv /\ EndTimesMinusOne' = EndTimesMinusOne
  BY <1>1, <1>2 DEF checkAdd, checkSub, checkMul32, checkDiv, EndTimesMinusOne, InType
<1>4. checkMul64' = checkMul64 /\ checkMulNarrow' = checkMulNarrow
  BY <1>1, <1>2, <1>3 DEF checkMul64, checkMulNarrow
<1> QED BY <1>1, <1>3, <1>4 DEF Check, Undefined

LEMMA LifeStart == Init => LifeInv
BY DEF Init, LifeInv

LEMMA LifeStep == LifeInv /\ [Next]_vars => LifeInv'
<1> SUFFICES ASSUME LifeInv, [Next]_vars PROVE LifeInv'
  OBVIOUS
<1>1. CASE Query
  <2>1. UNCHANGED instruction /\ phase = "query" /\ phase' = "rules" /\ answer' = Asked
    BY <1>1 DEF Query, Asked
  <2> QED BY <2>1, Frozen DEF LifeInv
<1>2. CASE ApplyRules
  <2>1. /\ UNCHANGED <<instruction, answer>> /\ phase = "rules" /\ phase' = "run"
        /\ call' = Called
    BY <1>2 DEF ApplyRules, Called
  <2>2. UNCHANGED instruction /\ answer' = answer
    BY <2>1
  <2>3. Called' = Called
    BY <2>2, Frozen DEF Called, RuleOpcodes, RuleTypes
  <2> QED BY <2>1, <2>2, <2>3, Frozen DEF LifeInv
<1>3. ASSUME NEW v \in Values, NEW w \in Values, Reach(v, w) PROVE LifeInv'
  <2>1. /\ UNCHANGED instruction /\ answer' = answer /\ call' = call
        /\ phase = "run" /\ phase' = IF call THEN "check" ELSE "execute"
        /\ v \in OperandType /\ Contains(a, v) /\ w \in OperandType /\ Contains(b, w)
        /\ x' = v /\ y' = w
    BY <1>3 DEF Reach
  <2>2. Called' = Called
    BY <2>1, Frozen DEF Called, RuleOpcodes, RuleTypes
  <2>3. Contains(a, x)' /\ Contains(b, y)'
    BY <2>1, Frozen DEF Contains, isUnknown, isRegular
  <2> QED BY <2>1, <2>2, <2>3, Frozen DEF LifeInv
<1>4. CASE Judge
  <2>1. /\ UNCHANGED <<instruction, x, y>> /\ UNCHANGED instruction
        /\ answer' = answer /\ call' = call /\ x' = x /\ y' = y
        /\ phase = "check" /\ phase' \in {"alarm", "execute", "trap"}
        /\ phase' = "execute" => ~ Check
        /\ phase' = "alarm" => Check \/ Undefined
    BY <1>4 DEF Judge
  <2>2. Called' = Called
    BY <2>1, Frozen DEF Called, RuleOpcodes, RuleTypes
  <2>3. Contains(a, x)' = Contains(a, x) /\ Contains(b, y)' = Contains(b, y)
    BY <2>1, Frozen DEF Contains, isUnknown, isRegular
  <2> QED BY <2>1, <2>2, <2>3, Frozen, SameJudgement DEF LifeInv
<1>5. CASE Execute
  <2>1. /\ UNCHANGED instruction /\ answer' = answer /\ call' = call
        /\ phase = "execute" /\ phase' = "run"
    BY <1>5 DEF Execute
  <2>2. Called' = Called
    BY <2>1, Frozen DEF Called, RuleOpcodes, RuleTypes
  <2> QED BY <2>1, <2>2, Frozen DEF LifeInv
<1>6. CASE UNCHANGED vars
  <2>1. /\ UNCHANGED <<instruction, x, y>> /\ UNCHANGED instruction
        /\ answer' = answer /\ call' = call /\ x' = x /\ y' = y /\ phase' = phase
    BY <1>6 DEF vars, instruction
  <2>2. Called' = Called
    BY <2>1, Frozen DEF Called, RuleOpcodes, RuleTypes
  <2>3. Contains(a, x)' = Contains(a, x) /\ Contains(b, y)' = Contains(b, y)
    BY <2>1, Frozen DEF Contains, isUnknown, isRegular
  <2> QED BY <2>1, <2>2, <2>3, Frozen, SameJudgement DEF LifeInv
<1> QED BY <1>1, <1>2, <1>3, <1>4, <1>5, <1>6 DEF Next

LEMMA LifeAlways == Spec => []LifeInv
BY LifeStart, LifeStep, PTL DEF Spec
-----------------------------------------------------------------------------
(* A type has P values below zero and P from zero on.                      *)
LEMMA TypeEnds ==
  ASSUME type \in DOMAIN Bits
  PROVE  \E P \in Nat \ {0} : /\ TypeMin = -P /\ TypeMax = P - 1
                             /\ TypeValues(Bits[type]) = -P .. P - 1
<1> DEFINE P == 2 ^ (Bits[type] - 1)
<1>1. Bits[type] - 1 \in Nat /\ 0 \in TypeValues(Bits[type])
  BY BitsAssumption, WidthAssumption
<1>2. P \in Int
  BY <1>1
<1>3. TypeMin = -P /\ TypeMax = P - 1 /\ TypeValues(Bits[type]) = -P .. P - 1
  BY DEF TypeMin, TypeMax, TypeRange, RangeOf, TypeValues
<1> HIDE DEF P
<1>4. P >= 1
  BY <1>1, <1>2, <1>3
<1> QED BY <1>2, <1>3, <1>4

(* A value of the type that is in a regular range lies between the bounds  *)
(* as canOverflow saturates them.                                          *)
LEMMA InSaturated ==
  ASSUME type \in DOMAIN Bits, NEW r \in OperandRanges, isRegular(r),
         NEW v \in TypeValues(Bits[type]), Contains(r, v)
  PROVE  /\ r.l \in Int /\ r.u \in Int /\ r.l <= v /\ v <= r.u /\ v \in Int
         /\ Saturated(r.l) \in Int /\ Saturated(r.u) \in Int
         /\ Saturated(r.l) <= v /\ v <= Saturated(r.u)
<1>1. PICK P \in Nat \ {0} : /\ TypeMin = -P /\ TypeMax = P - 1
                            /\ TypeValues(Bits[type]) = -P .. P - 1
  BY TypeEnds
<1>2. r.l \in Values /\ r.u \in Values
  <2>1. r # UnknownRange
    BY DEF isRegular, UnknownRange
  <2> QED BY <2>1 DEF OperandRanges, RegularRanges, RangeRecords
<1>3. Values \subseteq Int
  BY DEF Values
<1>4. r.l <= v /\ v <= r.u
  BY DEF Contains, isRegular, isUnknown
<1>5. v \in Int /\ -P <= v /\ v <= P - 1 /\ r.l \in Int /\ r.u \in Int
  <2>1. v \in -P .. P - 1
    BY <1>1
  <2>2. r.l \in Int /\ r.u \in Int
    BY <1>2, <1>3
  <2> QED BY <2>1, <2>2
<1>6. Saturated(r.l) \in Int /\ Saturated(r.l) <= v
  BY <1>1, <1>4, <1>5 DEF Saturated
<1>7. Saturated(r.u) \in Int /\ v <= Saturated(r.u)
  BY <1>1, <1>4, <1>5 DEF Saturated
<1> QED BY <1>4, <1>5, <1>6, <1>7

(* What the plugin calls safe is.                                          *)
LEMMA FalseAnswer ==
  ASSUME LifeInv, phase = "execute", answer = "false", Overflowing => nsw
  PROVE  CASE opcode = "trunc" -> InType(x)
           [] opcode = "sdiv"  -> y = 0 \/ InType(Result)
           [] Overflowing      -> InType(Result)
<1>1. /\ type \in DOMAIN Bits /\ a \in OperandRanges /\ b \in OperandRanges
      /\ x \in OperandType /\ Contains(a, x) /\ y \in OperandType /\ Contains(b, y)
      /\ opcode \in {"add", "sub", "mul", "sdiv", "trunc"}
      /\ Asked = "false"
  BY OpcodesAssumption DEF LifeInv
<1>2. canOverflow = "false"
  BY <1>1 DEF Asked, canOverflowNSW
<1>3. ~ Possible
  BY <1>1, <1>2 DEF canOverflow, Overflowing
<1>4. PICK P \in Nat \ {0} : /\ TypeMin = -P /\ TypeMax = P - 1
                            /\ TypeValues(Bits[type]) = -P .. P - 1
  BY <1>1, TypeEnds
<1>5. CASE opcode = "trunc"
  <2>1. isRegular(a) /\ ~ canOverflowTrunc
    BY <1>2, <1>3, <1>5 DEF canOverflow, Overflowing, Possible
  <2>2. a.l <= x /\ x <= a.u
    BY <1>1, <2>1 DEF Contains, isRegular, isUnknown
  <2>3. a.l \in Values /\ a.u \in Values /\ x \in Values
    <3>1. a # UnknownRange
      BY <2>1 DEF isRegular, UnknownRange
    <3> QED BY <1>1, <1>5, <3>1 DEF OperandRanges, RegularRanges, RangeRecords, OperandType
  <2>4. Values \subseteq Int
    BY DEF Values
  <2>5. x \in Int /\ a.l \in Int /\ a.u \in Int
    BY <2>3, <2>4
  <2>6. InType(x)
    BY <1>4, <2>1, <2>2, <2>5 DEF canOverflowTrunc, InType
  <2> QED BY <1>5, <2>6 DEF InType, Overflowing
<1>6. CASE opcode # "trunc"
  <2>1. isRegular(a) /\ isRegular(b)
    BY <1>1, <1>2, <1>3, <1>6 DEF canOverflow, Overflowing, Possible
  <2>2. /\ x \in TypeValues(Bits[type]) /\ y \in TypeValues(Bits[type])
        /\ x \in -P .. P - 1 /\ y \in -P .. P - 1
    BY <1>1, <1>4, <1>6 DEF OperandType
  <2>3. /\ a.l \in Int /\ a.u \in Int /\ a.l <= x /\ x <= a.u
        /\ Saturated(a.l) \in Int /\ Saturated(a.u) \in Int
        /\ Saturated(a.l) <= x /\ x <= Saturated(a.u)
    BY <1>1, <2>1, <2>2, InSaturated
  <2>4. /\ b.l \in Int /\ b.u \in Int /\ b.l <= y /\ y <= b.u
        /\ Saturated(b.l) \in Int /\ Saturated(b.u) \in Int
        /\ Saturated(b.l) <= y /\ y <= Saturated(b.u)
    BY <1>1, <2>1, <2>2, InSaturated
  <2>5. CASE opcode = "add"
    <3>1. ~ checkOverflowAdd(a.u, b.u) /\ ~ checkOverflowAdd(a.l, b.l)
      BY <1>3, <2>5 DEF Possible, canOverflowAdd
    <3>2. Result = x + y
      BY <2>5 DEF Result, Exact
    <3> QED
      BY SMTT(30), <1>4, <2>2, <2>3, <2>4, <2>5, <3>1, <3>2
      DEF checkOverflowAdd, InType, Overflowing
  <2>6. CASE opcode = "sub"
    <3>1. ~ checkOverflowSub(a.u, b.l) /\ ~ checkOverflowSub(a.l, b.u)
      BY <1>3, <2>6 DEF Possible, canOverflowSub
    <3>2. Result = x - y
      BY <2>6 DEF Result, Exact
    <3> QED
      BY SMTT(30), <1>4, <2>2, <2>3, <2>4, <2>6, <3>1, <3>2
      DEF checkOverflowSub, InType, Overflowing
  <2>7. CASE opcode = "mul"
    <3>1. \A p \in {a.l, a.u}, q \in {b.l, b.u} : InType(Saturated(p) * Saturated(q))
      BY <1>3, <2>7 DEF Possible, canOverflowMul, checkOverflowMul
    <3>2. \A p \in {Saturated(a.l), Saturated(a.u)}, q \in {Saturated(b.l), Saturated(b.u)} :
            -P <= p * q /\ p * q <= P - 1
      BY <1>4, <3>1 DEF InType
    <3>3. -P <= x * y /\ x * y <= P - 1
      BY <2>2, <2>3, <2>4, <3>2, Corners
    <3>4. Result = x * y
      BY <2>7 DEF Result, Exact
    <3> QED BY <1>4, <2>7, <3>3, <3>4 DEF InType, Overflowing
  <2>8. CASE opcode = "sdiv"
    <3>1. ~ (a.l <= -P /\ b.l <= -1 /\ b.u >= -1)
      BY <1>3, <1>4, <2>8 DEF Possible, canOverflowDiv
    <3>2. ~ (x = -P /\ y = -1)
      BY <2>2, <2>3, <2>4, <3>1
    <3>3. Result = Quotient(x, y)
      BY <2>8 DEF Result, Exact
    <3>4. y # 0 => -P <= Quotient(x, y) /\ Quotient(x, y) <= P - 1
      BY <2>2, <3>2, QuotientFits
    <3>5. y = 0 \/ InType(Result)
      BY <1>4, <3>3, <3>4 DEF InType
    <3> QED BY <2>8, <3>5 DEF InType, Overflowing
  <2> QED BY <1>1, <1>6, <2>5, <2>6, <2>7, <2>8
<1> QED BY <1>5, <1>6

(* Where the plugin has ranges that hold and says that an instruction does *)
(* not overflow, it does not, whatever the operands                        *)
(* (range_analysis_plugin.cpp:17-151).                                     *)
THEOREM FalseIsTrusted == Spec => []FalseIsRight
<1>1. LifeInv => FalseIsRight
  BY FalseAnswer DEF FalseIsRight
<1> QED BY <1>1, LifeAlways, PTL

-----------------------------------------------------------------------------
(* What each comparison of overflows.c says of two values of the type.     *)
LEMMA ChecksJudge ==
  ASSUME NEW P \in Nat \ {0}, TypeMin = -P, TypeMax = P - 1,
         x \in -P .. P - 1, y \in -P .. P - 1
  PROVE  /\ checkAdd <=> ~ InType(x + y)
         /\ checkSub <=> ~ InType(x - y)
         /\ checkMul32 <=> ~ InType(x * y)
         /\ ~ InType(x * y) /\ ~ (x < 0 /\ y < 0) => checkMul64
         /\ checkMul64 => ~ InType(x * y)
         /\ ~ InType(x * y) => checkMulNarrow
         /\ checkMulNarrow /\ y >= 0 => ~ InType(x * y)
<1>1. checkAdd <=> ~ InType(x + y)
  BY DEF checkAdd, InType
<1>2. checkSub <=> ~ InType(x - y)
  BY DEF checkSub, InType
<1>3. checkMul32 <=> ~ InType(x * y)
  BY DEF checkMul32
<1>4. /\ x \in Int /\ y \in Int /\ x * y \in Int /\ x * y = y * x
      /\ x = 0 \/ y = 0 => x * y = 0
      /\ x = -1 => x * y = -y
      /\ y = -1 => x * y = -x
  OBVIOUS
<1>5. InType(x * y) <=> -P <= x * y /\ x * y <= P - 1
  BY DEF InType
<1>6. /\ y > 0 => (x > Quotient(TypeMax, y) <=> x * y > P - 1)
      /\ y > 0 => (x < Quotient(TypeMin, y) <=> x * y < -P)
      /\ y < 0 => (x > Quotient(TypeMin, y) <=> x * y < -P)
      /\ y < 0 /\ x # 0 => x > Quotient(TypeMax, y) \/ x < Quotient(TypeMin, y)
  BY QuotientCompare
<1>7. /\ x > 0 => (y > Quotient(TypeMax, x) <=> x * y > P - 1)
      /\ x < 0 => (y > Quotient(TypeMin, x) <=> x * y < -P)
  BY <1>4, QuotientCompare
<1>8. EndTimesMinusOne => ~ InType(x * y)
  BY <1>4, <1>5 DEF EndTimesMinusOne
<1>9. ASSUME ~ InType(x * y) PROVE checkMulNarrow
  <2>1. x # 0 /\ y # 0
    BY <1>4, <1>5, <1>9
  <2> QED BY <1>4, <1>5, <1>6, <1>9, <2>1 DEF checkMulNarrow
<1>10. ASSUME checkMulNarrow, y >= 0 PROVE ~ InType(x * y)
  BY <1>4, <1>5, <1>6, <1>8, <1>10 DEF checkMulNarrow
<1>11. ASSUME ~ InType(x * y), ~ (x < 0 /\ y < 0) PROVE checkMul64
  <2>1. x # 0 /\ y # 0
    BY <1>4, <1>5, <1>11
  <2>2. CASE y > 0 /\ x > 0
    <3>1. x * y > 0
      BY <1>4, <2>2
    <3> QED BY <1>4, <1>5, <1>6, <1>11, <2>1, <2>2, <3>1 DEF checkMul64
  <2>3. CASE y > 0 /\ x < 0
    <3>1. x * y <= 0
      BY <1>4, <2>3
    <3>2. x # -1
      BY <1>4, <1>5, <1>11, <2>3
    <3> QED BY <1>4, <1>5, <1>7, <1>11, <2>1, <2>3, <3>1, <3>2 DEF checkMul64
  <2>4. CASE y < 0 /\ x > 0
    <3>1. x * y <= 0
      BY <1>4, <2>4
    <3>2. y # -1
      BY <1>4, <1>5, <1>11, <2>4
    <3> QED BY <1>4, <1>5, <1>6, <1>11, <2>1, <2>4, <3>1, <3>2 DEF checkMul64
  <2> QED BY <1>4, <1>11, <2>1, <2>2, <2>3, <2>4
<1>12. ASSUME checkMul64 PROVE ~ InType(x * y)
  BY <1>4, <1>5, <1>6, <1>7, <1>8, <1>12 DEF checkMul64
<1> QED BY <1>1, <1>2, <1>3, <1>9, <1>10, <1>11, <1>12

LEMMA ReachedOperands ==
  ASSUME LifeInv, phase \in {"execute", "alarm"}, Overflowing
  PROVE  \E P \in Nat \ {0} : /\ TypeMin = -P /\ TypeMax = P - 1
                             /\ x \in -P .. P - 1 /\ y \in -P .. P - 1
<1>1. type \in DOMAIN Bits /\ opcode # "trunc" /\ x \in OperandType /\ y \in OperandType
  BY DEF LifeInv, Overflowing
<1>2. x \in TypeValues(Bits[type]) /\ y \in TypeValues(Bits[type])
  BY <1>1 DEF OperandType
<1> QED BY <1>1, <1>2, TypeEnds

(* For the four types that the rules name: an addition, a subtraction or a *)
(* multiplication that overflows is not executed, but for products of two  *)
(* negative 64-bit factors: the plugin's "false" is right and the checks   *)
(* of overflows.c miss nothing else (config.json:1-226, overflows.c).      *)
THEOREM OverflowsAreSeen ==
  ASSUME DOMAIN Bits \subseteq RuleTypes
  PROVE  Spec => []NoOverflowUnseen
<1>1. ASSUME LifeInv PROVE NoOverflowUnseen
  <2> SUFFICES ASSUME phase = "execute", Overflowing, nsw,
                      ~ (opcode = "mul" /\ type = "i64" /\ x < 0 /\ y < 0)
               PROVE  InType(Result)
    BY DEF NoOverflowUnseen
  <2>1. /\ type \in {"i8", "i16", "i32", "i64"} /\ opcode \in {"add", "sub", "mul"}
        /\ answer = Asked /\ call = Called /\ ~ (call /\ Check)
    BY <1>1 DEF LifeInv, RuleTypes, Overflowing
  <2>2. CASE answer = "false"
    <3>1. (CASE opcode = "trunc" -> InType(x)
             [] opcode = "sdiv"  -> y = 0 \/ InType(Result)
             [] Overflowing      -> InType(Result))
      BY <1>1, <2>2, FalseAnswer
    <3> QED BY <2>1, <3>1 DEF Overflowing, InType
  <2>3. CASE answer # "false"
    <3>1. answer \in {"true", "unknown"}
      BY <2>1, <2>3 DEF Asked, canOverflow, canOverflowNSW
    <3>2. ~ Check
      BY <2>1, <3>1 DEF Called, RuleOpcodes, RuleTypes
    <3>3. PICK P \in Nat \ {0} : /\ TypeMin = -P /\ TypeMax = P - 1
                                /\ x \in -P .. P - 1 /\ y \in -P .. P - 1
      BY <1>1, ReachedOperands
    <3>4. CASE opcode = "add"
      <4>1. Result = x + y /\ ~ checkAdd
        BY <3>2, <3>4 DEF Result, Exact, Check
      <4> QED BY <3>3, <4>1, ChecksJudge
    <3>5. CASE opcode = "sub"
      <4>1. Result = x - y /\ ~ checkSub
        BY <3>2, <3>5 DEF Result, Exact, Check
      <4> QED BY <3>3, <4>1, ChecksJudge
    <3>6. CASE opcode = "mul"
      <4>1. Result = x * y
        BY <3>6 DEF Result, Exact
      <4>2. /\ type = "i32" => ~ checkMul32
            /\ type = "i64" => ~ checkMul64
            /\ type \in {"i16", "i8"} => ~ checkMulNarrow
        BY <3>2, <3>6 DEF Check
      <4> QED BY <2>1, <3>3, <3>6, <4>1, <4>2, ChecksJudge
    <3> QED BY <2>1, <3>4, <3>5, <3>6
  <2> QED BY <2>2, <2>3
<1> QED BY <1>1, LifeAlways, PTL

(* An alarm is an overflow, but for the multiplications that the narrow    *)
(* checks turn around and the division that is undefined (overflows.c).    *)
THEOREM AlarmsAreTrue == Spec => []AlarmMeansOverflow
<1>1. ASSUME LifeInv PROVE AlarmMeansOverflow
  <2> SUFFICES ASSUME phase = "alarm", InType(Result), ~ Undefined,
                      ~ (opcode = "mul" /\ type \in {"i8", "i16"} /\ y < 0)
               PROVE  FALSE
    BY DEF AlarmMeansOverflow
  <2>1. /\ call /\ Check /\ call = Called
        /\ opcode \in {"add", "sub", "mul", "sdiv", "trunc"}
    BY <1>1, OpcodesAssumption DEF LifeInv
  <2>2. opcode \in {"add", "sub", "mul"} /\ type \in {"i8", "i16", "i32", "i64"}
    BY <2>1 DEF Called, RuleOpcodes, RuleTypes
  <2>3. PICK P \in Nat \ {0} : /\ TypeMin = -P /\ TypeMax = P - 1
                              /\ x \in -P .. P - 1 /\ y \in -P .. P - 1
    BY <1>1, <2>2, ReachedOperands DEF Overflowing
  <2>4. CASE opcode = "add"
    <3>1. Result = x + y /\ checkAdd
      BY <2>1, <2>4 DEF Result, Exact, Check
    <3> QED BY <2>3, <3>1, ChecksJudge
  <2>5. CASE opcode = "sub"
    <3>1. Result = x - y /\ checkSub
      BY <2>1, <2>5 DEF Result, Exact, Check
    <3> QED BY <2>3, <3>1, ChecksJudge
  <2>6. CASE opcode = "mul"
    <3>1. Result = x * y
      BY <2>6 DEF Result, Exact
    <3>2. /\ type = "i32" => checkMul32
          /\ type = "i64" => checkMul64
          /\ type \in {"i16", "i8"} => checkMulNarrow
      BY <2>1, <2>6 DEF Check
    <3> QED BY <2>2, <2>3, <2>6, <3>1, <3>2, ChecksJudge
  <2> QED BY <2>2, <2>4, <2>5, <2>6
<1> QED BY <1>1, LifeAlways, PTL
=============================================================================
