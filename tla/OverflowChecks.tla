--------------------------- MODULE OverflowChecks ---------------------------
(***************************************************************************)
(* The life of one arithmetic instruction under the configurations of      *)
(* instrumentations/int_overflows: the plugin says whether it may          *)
(* overflow (range_analysis_plugin.cpp, check_nsw_plugin.cpp), the rules   *)
(* of config.json or config-no-ra.json put a check before it or not, and   *)
(* in the instrumented program overflows.c, or overflows-no-assert.c with  *)
(* config-no-assert.json, judges the operands each time it is reached.     *)
(* The operands stay in the ranges that the analysis computed: that is     *)
(* what Covered of RangeAnalysis is for.                                   *)
(***************************************************************************)
EXTENDS RangeOps

CONSTANTS
  Bits,        \* type -> its width, at most W
  Opcodes,     \* the opcodes the instruction may have
  Bounds       \* the bounds its operands' ranges may have

(* That 0 is a value of every type the provers cannot find out: they know  *)
(* nothing of powers.                                                      *)
ASSUME BitsAssumption ==
  \A t \in DOMAIN Bits : Bits[t] \in 2 .. W /\ 0 \in TypeValues(Bits[t])
ASSUME BoundsAssumption == Bounds \subseteq Values
ASSUME OpcodesAssumption == Opcodes \subseteq {"add", "sub", "mul", "sdiv", "trunc"}

VARIABLES
  opcode, type, nsw,    \* the instruction; of a trunc, the type it gives
  config,               \* the configuration: it names the plugin and the file of checks
  a, b,                 \* the ranges of its operands
  answer,               \* of canOverflow
  call,                 \* is there a call of the check before it
  x, y,                 \* the operands, when it is reached
  phase                 \* "query", "rules", "run", "check", "execute", "alarm", "trap"

vars == <<opcode, type, nsw, config, a, b, answer, call, x, y, phase>>

TypeMin == TypeRange(Bits[type]).l
TypeMax == TypeRange(Bits[type]).u
InType(v) == TypeMin <= v /\ v <= TypeMax

-----------------------------------------------------------------------------
(* RangeAnalysisPlugin::canOverflow.                                       *)
Saturated(v) == IF v < TypeMin THEN TypeMin ELSE IF v > TypeMax THEN TypeMax ELSE v

checkOverflowAdd(ax, ay) == ~InType(Saturated(ax) + Saturated(ay))
checkOverflowSub(ax, ay) == ~InType(Saturated(ax) - Saturated(ay))
checkOverflowMul(ax, ay) == ~InType(Saturated(ax) * Saturated(ay))

canOverflowAdd == checkOverflowAdd(a.u, b.u) \/ checkOverflowAdd(a.l, b.l)
canOverflowSub == checkOverflowSub(a.u, b.l) \/ checkOverflowSub(a.l, b.u)
(* Fault: only bounds of the same side are multiplied.                     *)
canOverflowMul_same_side == checkOverflowMul(a.l, b.l) \/ checkOverflowMul(a.u, b.u)
canOverflowMul == \E ax \in {a.l, a.u}, ay \in {b.l, b.u} : checkOverflowMul(ax, ay)
canOverflowDiv == a.l <= TypeMin /\ b.l <= -1 /\ b.u >= -1
canOverflowTrunc == (a.u > 0 /\ a.u > TypeMax) \/ (a.l < 0 /\ a.l < TypeMin)

Overflowing == opcode \in {"add", "sub", "mul"}
Possible ==
  \/ opcode = "add" /\ canOverflowAdd
  \/ opcode = "sub" /\ canOverflowSub
  \/ opcode = "mul" /\ canOverflowMul
  \/ opcode = "sdiv" /\ (~(isRegular(a) /\ isRegular(b)) \/ canOverflowDiv)
  \/ opcode = "trunc" /\ canOverflowTrunc

canOverflow ==
  CASE Overflowing /\ ~nsw -> "false"
    [] Overflowing /\ nsw /\ ~(isRegular(a) /\ isRegular(b)) -> "unknown"
    [] opcode = "trunc" /\ ~isRegular(a) -> "unknown"
    [] OTHER -> IF Possible THEN "true" ELSE "false"

(* CheckNSWPlugin::canOverflow.                                            *)
canOverflowNSW == IF Overflowing /\ ~nsw THEN "false" ELSE "unknown"

-----------------------------------------------------------------------------
(***************************************************************************)
(* overflows.c: what __INSTR_check_<opcode>_<type> asserts against.  The   *)
(* arithmetic inside is exact: narrow types are promoted to int, the       *)
(* products of i32 are computed in 64 bits, and the comparisons are        *)
(* arranged so that nothing overflows, but for one division.               *)
(***************************************************************************)
(* Fault: a sum that just fits is refused.                                 *)
checkAdd_tight == \/ x > 0 /\ y > 0 /\ x >= TypeMax - y
                  \/ x < 0 /\ y < 0 /\ x < TypeMin - y
checkAdd == \/ x > 0 /\ y > 0 /\ x > TypeMax - y
            \/ x < 0 /\ y < 0 /\ x < TypeMin - y
checkSub == \/ y > 0 /\ x < TypeMin + y
            \/ y < 0 /\ x > TypeMax + y
EndTimesMinusOne == (x = -1 /\ y = TypeMin) \/ (y = -1 /\ x = TypeMin)
checkMul32 == ~InType(x * y)
checkMul64 ==
  /\ x # 0 /\ y # 0
  /\ \/ y > 0 /\ x > Quotient(TypeMax, y)
     \/ y < -1 /\ x > Quotient(TypeMin, y)
     \/ x > 0 /\ y > Quotient(TypeMax, x)
     \/ x < -1 /\ y > Quotient(TypeMin, x)
     \/ EndTimesMinusOne
checkMulNarrow ==
  /\ x # 0 /\ y # 0
  /\ \/ x > Quotient(TypeMax, y)
     \/ x < Quotient(TypeMin, y)
     \/ EndTimesMinusOne

checkDiv == y = 0 \/ (x = TypeMin /\ y = -1)

Check ==
  CASE opcode = "add" -> checkAdd
    [] opcode = "sub" -> checkSub
    [] opcode = "mul" /\ type = "i32" -> checkMul32
    [] opcode = "mul" /\ type = "i64" -> checkMul64
    [] opcode = "mul" /\ type \in {"i16", "i8"} -> checkMulNarrow
    [] opcode = "sdiv" -> checkDiv

(* INT64_MIN / -1 in overflows.c, where no test before it alarms.  The     *)
(* divide instruction traps; a folded one gives any quotient.              *)
Undefined ==
  config # "config-no-assert" /\ opcode = "mul" /\ type = "i64" /\ x = -1 /\ y # 0

-----------------------------------------------------------------------------
OperandRanges ==
  {UnknownRange} \cup {r \in RegularRanges : r.l \in Bounds /\ r.u \in Bounds}
OperandType == IF opcode = "trunc" THEN Values ELSE TypeValues(Bits[type])

Init ==
  /\ opcode \in Opcodes /\ type \in DOMAIN Bits
  /\ nsw \in BOOLEAN
  /\ config \in {"config", "config-no-assert", "config-no-ra"}
  /\ a \in OperandRanges /\ b \in OperandRanges
  /\ (config = "config-no-ra" => a = UnknownRange /\ b = UnknownRange)
  /\ ((opcode = "trunc" \/ opcode = "sdiv") => ~nsw)
  /\ (opcode = "trunc" => b = UnknownRange)
  /\ answer = "none" /\ call = FALSE
  /\ x = 0 /\ y = 0
  /\ phase = "query"

instruction == <<opcode, type, nsw, config, a, b>>

Query ==
  /\ phase = "query"
  /\ answer' = IF config = "config-no-ra" THEN canOverflowNSW ELSE canOverflow
  /\ phase' = "rules"
  /\ UNCHANGED <<instruction, call, x, y>>

(* The rules match the name of the opcode; those for division name "div".  *)
RuleOpcodes == {"add", "sub", "mul", "div"}
RuleTypes == {"i8", "i16", "i32", "i64"}

(* Fault: "unknown" is not among the expected results.                     *)
ApplyRules_if_true ==
  /\ phase = "rules"
  /\ call' = (opcode \in RuleOpcodes /\ type \in RuleTypes /\ answer = "true")
  /\ phase' = "run"
  /\ UNCHANGED <<instruction, answer, x, y>>

ApplyRules ==
  /\ phase = "rules"
  /\ call' = (opcode \in RuleOpcodes /\ type \in RuleTypes /\ answer \in {"true", "unknown"})
  /\ phase' = "run"
  /\ UNCHANGED <<instruction, answer, x, y>>

Reach(v, w) ==
  /\ phase = "run"
  /\ v \in OperandType /\ Contains(a, v)
  /\ w \in OperandType /\ Contains(b, w)
  /\ x' = v /\ y' = w
  /\ phase' = IF call THEN "check" ELSE "execute"
  /\ UNCHANGED <<instruction, answer, call>>

Judge ==
  /\ phase = "check"
  /\ phase' \in {IF Check THEN "alarm" ELSE "execute"}
                   \cup IF Undefined THEN {"alarm", "trap"} ELSE {}
  /\ UNCHANGED <<instruction, answer, call, x, y>>

Execute ==
  /\ phase = "execute"
  /\ x' = 0 /\ y' = 0
  /\ phase' = "run"
  /\ UNCHANGED <<instruction, answer, call>>

Next ==
  \/ Query
  \/ ApplyRules
  \/ \E v, w \in Values : Reach(v, w)
  \/ Judge
  \/ Execute

Spec == Init /\ [][Next]_vars

-----------------------------------------------------------------------------
Result == Exact(opcode, x, y, Bits[type])

(* No signed overflow of an addition, a subtraction or a multiplication    *)
(* passes: either the check before it ends the run, or the plugin was      *)
(* right that it needs none.  The 64-bit check misses products of two      *)
(* negative factors.                                                       *)
NoOverflowUnseen ==
  phase = "execute" /\ Overflowing /\ nsw =>
    \/ InType(Result)
    \/ opcode = "mul" /\ type = "i64" /\ x < 0 /\ y < 0

(* An alarm is never false: the operands do overflow.  The narrow checks   *)
(* of a multiplication turn around for a negative second factor, and the   *)
(* 64-bit one divides by a first factor of -1.                             *)
AlarmMeansOverflow ==
  phase = "alarm" =>
    \/ ~InType(Result)
    \/ opcode = "mul" /\ type \in {"i8", "i16"} /\ y < 0
    \/ Undefined

(* "false" may be trusted: where the plugin has ranges and says that an    *)
(* instruction does not overflow, no operands within them overflow.        *)
FalseIsRight ==
  answer = "false" /\ phase = "execute" /\ (Overflowing => nsw) =>
    CASE opcode = "trunc" -> InType(x)
      [] opcode = "sdiv"  -> y = 0 \/ InType(Result)
      [] Overflowing      -> InType(Result)
=============================================================================
