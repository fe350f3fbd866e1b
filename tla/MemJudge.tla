------------------------------ MODULE MemJudge ------------------------------
(***************************************************************************)
(* What the instrumentation promises: every monitored operation of the     *)
(* program is judged by the memory the program really owns at that point.  *)
(* No monitor is in this module, only the right answers.                   *)
(***************************************************************************)
EXTENDS MemProgram

Alarms == {"badFree", "doubleFree", "outOfRange", "freedDeref", "invalidDeref",
           "leak", "reallocFreed", "reallocStack", "nullOrFreed"}

(* Memory is freed by free() and by a realloc that moves the block.        *)
WasFreed(p) == \E f \in freedMem \cup movedMem : Within(f, p)
IsHeapBase(p) == \E b \in heapMem : b.id = p

(* An access of n bytes at p by a pointer into one of the owners.          *)
Judge(owners, p, n) ==
  LET owner == {b \in owners : Within(b, p)}
  IN  CASE \E b \in owner : p + n <= b.id + b.size -> "running"
        [] \E b \in owner : p + n > b.id + b.size  -> "outOfRange"
        [] owner = {} /\ WasFreed(p)               -> "freedDeref"
        [] owner = {} /\ ~WasFreed(p)              -> "invalidDeref"

JudgeFree(p) ==
  CASE p = NULL \/ IsHeapBase(p)                      -> "running"
    [] p # NULL /\ ~IsHeapBase(p) /\ WasFreed(p)      -> "doubleFree"
    [] p # NULL /\ ~IsHeapBase(p) /\ ~WasFreed(p)     -> "badFree"

(* Only freed and stack memory is promised to be refused.                  *)
JudgeRealloc(p) ==
  CASE p = NULL \/ IsHeapBase(p)                      -> "running"
    [] p # NULL /\ ~IsHeapBase(p) /\ WasFreed(p)      -> "reallocFreed"
    [] p # NULL /\ ~IsHeapBase(p) /\ ~WasFreed(p)     ->
         IF \E b \in OpenStack : Within(b, p) THEN "reallocStack" ELSE "running"
=============================================================================
