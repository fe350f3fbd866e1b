------------------------------ MODULE MemSafety ------------------------------
(***************************************************************************)
(* The run-time monitor of instrumentations/memsafety/memsafety.c, called  *)
(* by the program where the rules of a configuration put the calls.        *)
(*                                                                         *)
(* The monitor knows memory only by the lists of MonitorLists.             *)
(* An action is one operation of the program with every monitor call its   *)
(* rules place before and after it; program and monitor share one thread.  *)
(***************************************************************************)
EXTENDS MemJudge, MonitorLists

CONSTANTS
  Frames,      \* the rules call set_flag on entry, destroy_allocas on return
  ScopeEnd,    \* the rules call __INSTR_destroy at llvm.lifetime.end
  ScopeStart   \* the rules call __INSTR_remember at llvm.lifetime.start

ASSUME RulesAssumption ==
  Frames \in BOOLEAN /\ ScopeEnd \in BOOLEAN /\ ScopeStart \in BOOLEAN

VARIABLE status

vars == <<memVars, lists, status>>

Statuses == {"running", "exited", "undefined"} \cup Alarms

Running == status = "running"
Proceed == status' = "running"
Stop(s) == status' = s /\ UNCHANGED <<memVars, lists>>

(***************************************************************************)
(* The dereference checks: the first record that covers the address bounds *)
(* the access; else a deallocated record explains the failure.             *)
(***************************************************************************)
(* Fault: the last byte that fits is refused.                              *)
OutOfRange_off_by_one(r, p, n) == n > r.size \/ p - r.id >= r.size - n
OutOfRange(r, p, n) == n > r.size \/ p - r.id > r.size - n

Deref(list, p, n) ==
  CASE Found(list, p) ->
         IF OutOfRange(list[list_search(list, p)], p, n) THEN "outOfRange" ELSE "running"
    [] ~Found(list, p) /\ Found(deallocated_list, p)  -> "freedDeref"
    [] ~Found(list, p) /\ ~Found(deallocated_list, p) -> "invalidDeref"

check_heap(p, n) == Deref(heap_list, p, n)
check_stack(p, n) == Deref(stack_list, p, n)
check_globals(p, n) == Deref(globals_list, p, n)
check_pointer(p, n) == Deref(heap_list \o stack_list \o globals_list, p, n)

(***************************************************************************)
(* Operations on the heap.                                                 *)
(***************************************************************************)
Malloc(b) ==
  /\ Running /\ ProgMalloc(b) /\ Proceed
  /\ remember_malloc_calloc(b.id, b.size)

(* __INSTR_free runs before free().                                        *)
Free(p) ==
  /\ Running
  /\ \/ FreeVerdict(p) = "running" /\ ProgFree(p) /\ Proceed /\ free(p)
     \/ FreeVerdict(p) # "running" /\ Stop(FreeVerdict(p))

(* Fault: the deallocated list is not searched.                            *)
check_realloc_forgives_freed(p) ==
  IF p # NULL /\ Found(stack_list, p) THEN "reallocStack" ELSE "running"

check_realloc(p) ==
  CASE p = NULL -> "running"
    [] p # NULL /\ Found(deallocated_list, p) -> "reallocFreed"
    [] p # NULL /\ ~Found(deallocated_list, p) /\ Found(stack_list, p) -> "reallocStack"
    [] OTHER -> "running"

(* __INSTR_check_realloc runs before the call, __INSTR_realloc after it.   *)
Realloc(p, b) ==
  /\ Running /\ check_realloc(p) = "running"
  /\ p = NULL \/ \E o \in heapMem : o.id = p
  /\ ProgRealloc(p, b) /\ Proceed
  /\ realloc(p, b)

(* A bad argument: an alarm, or what libc makes of the call.               *)
BadRealloc(p) ==
  /\ Running
  /\ \/ check_realloc(p) # "running" /\ Stop(check_realloc(p))
     \/ /\ check_realloc(p) = "running"
        /\ p # NULL /\ \A o \in heapMem : o.id # p
        /\ Stop("undefined")

(***************************************************************************)
(* Dereferences.  The rules choose the check by what the points-to plugin  *)
(* says of the pointer; __INSTR_fail stands where it knows the pointer to  *)
(* be invalid.                                                             *)
(***************************************************************************)
Access(p, n) ==
  /\ Running
  /\ \E s \in {check_heap(p, n), check_stack(p, n), check_globals(p, n),
               check_pointer(p, n)} : Stop(s)

AccessNullOrFreed(p) ==
  /\ Running /\ (p = NULL \/ WasFreed(p))
  /\ Stop("nullOrFreed")

(***************************************************************************)
(* Globals, frames and scopes.                                             *)
(***************************************************************************)
Global(b) ==
  /\ Running /\ ProgGlobal(b) /\ Proceed
  /\ remember_global(b.id, b.size)

Enter ==
  /\ Running /\ ProgEnter /\ Proceed
  /\ stack_list' = IF Frames THEN set_flag ELSE stack_list
  /\ UNCHANGED <<heap_list, deallocated_list, globals_list>>

Alloca(b) ==
  /\ Running /\ ProgAlloca(b) /\ Proceed
  /\ remember(b.id, b.size)

LifetimeEnd(s) ==
  /\ Running /\ ProgScope(s, FALSE) /\ Proceed
  /\ IF ScopeEnd THEN destroy(s.id) ELSE UNCHANGED lists

LifetimeStart(s) ==
  /\ Running /\ ProgScope(s, TRUE) /\ Proceed
  /\ IF ScopeStart THEN remember(s.id, s.size) ELSE UNCHANGED lists

Return ==
  /\ Running /\ depth > 1 /\ ProgLeave /\ Proceed
  /\ stack_list' = IF Frames THEN destroy_allocas ELSE stack_list
  /\ UNCHANGED <<heap_list, deallocated_list, globals_list>>

(* The return of main: destroy_allocas, then check_leaks.                  *)
ExitMain ==
  /\ Running /\ depth = 1 /\ ProgLeave
  /\ status' = IF heap_list # <<>> THEN "leak" ELSE "exited"
  /\ stack_list' = IF Frames THEN destroy_allocas ELSE stack_list
  /\ UNCHANGED <<heap_list, deallocated_list, globals_list>>

Init ==
  /\ MemInit /\ status = "running"
  /\ heap_list = <<>> /\ stack_list = <<>>
  /\ deallocated_list = <<>> /\ globals_list = <<>>

Next ==
  \/ \E b \in BlockSet(HeapAddr) : Malloc(b)
  \/ \E p \in Addr \cup {NULL} : Free(p)
  \/ \E p \in Addr \cup {NULL} : BadRealloc(p)
  \/ \E p \in Addr \cup {NULL} : AccessNullOrFreed(p)
  \/ \E p \in HeapAddr \cup {NULL}, b \in BlockSet(HeapAddr) : Realloc(p, b)
  \/ \E p \in Addr \cup {NULL}, n \in 1 .. MaxSize : Access(p, n)
  \/ \E b \in BlockSet(GlobalAddr) : Global(b)
  \/ Enter \/ Return \/ ExitMain
  \/ \E b \in BlockSet(StackAddr) : Alloca(b)
  \/ \E s \in stackMem : LifetimeEnd(s)
  \/ \E s \in stackMem : LifetimeStart(s)

Spec == Init /\ [][Next]_vars

-----------------------------------------------------------------------------
TypeOK ==
  /\ MemTypeOK
  /\ status \in Statuses
  /\ heap_list \in Seq(Record) /\ stack_list \in Seq(Record)
  /\ deallocated_list \in Seq(Record) /\ globals_list \in Seq(Record)

(***************************************************************************)
(* The lists say what the memory is: every live heap block, every block    *)
(* given to free() and every global has its own record with its own        *)
(* address and size, and no record outlives its block or overlaps another  *)
(* of its list (memsafety.c:149-238, 405-421).  A block that realloc freed *)
(* has no record any more: __INSTR_realloc drops it (418).                 *)
(***************************************************************************)
HeapMirrored == Mirrors(heap_list, heapMem) /\ Mirrors(deallocated_list, freedMem)
GlobalsMirrored == Mirrors(globals_list, globalMem)
StackMirrored == Mirrors(stack_list, OpenStack)

(* Whatever frames and scopes opened and closed, a return that runs        *)
(* destroy_allocas leaves exactly the records of the caller's frames       *)
(* (memsafety.c:423-451).                                                  *)
ReturnDropsOwnFrame ==
  depth > 0 => Bares(destroy_allocas) = {Open(s) : s \in {x \in stackMem :
                                           x.live /\ x.frame < depth}}

(* What the monitor can say of memory that realloc freed, whose record it  *)
(* has dropped (memsafety.c:418): still an alarm, but not its cause.       *)
Forgotten(p) == \E m \in movedMem : Within(m, p)
WithoutRecord == [freedDeref |-> "invalidDeref", doubleFree |-> "badFree"]
Known(p, verdict) ==
  IF Forgotten(p) /\ verdict \in DOMAIN WithoutRecord THEN WithoutRecord[verdict] ELSE verdict

(* Each check answers what the real memory says: a valid access is never   *)
(* reported, an invalid one always, as what it is, but that memory freed   *)
(* by realloc is called invalid and not freed (memsafety.c:248-324, 418).  *)
DerefVerdicts ==
  \A p \in Addr \cup {NULL}, n \in 1 .. MaxSize :
    /\ check_heap(p, n) = Known(p, Judge(heapMem, p, n))
    /\ check_stack(p, n) = Known(p, Judge(OpenStack, p, n))
    /\ check_globals(p, n) = Known(p, Judge(globalMem, p, n))
    /\ check_pointer(p, n) = Known(p, Judge(heapMem \cup OpenStack \cup globalMem, p, n))

(* free() of a live block passes, a second free() and a free() of anything *)
(* else are told apart, but that free() of memory freed by realloc is told *)
(* as one of memory never allocated (memsafety.c:149-173, 418).            *)
FreeVerdicts == \A p \in Addr \cup {NULL} : FreeVerdict(p) = Known(p, JudgeFree(p))

(* realloc() of a live block or NULL passes; stack memory and memory given *)
(* to free() is refused as such (memsafety.c:389-403).  Memory that an     *)
(* earlier realloc freed is left out: the monitor has dropped its record   *)
(* (418), and realloc() of it passes although the assertion at 396 is      *)
(* about all freed memory.                                                 *)
ReallocVerdicts ==
  \A p \in Addr \cup {NULL} : ~Forgotten(p) => check_realloc(p) = JudgeRealloc(p)

(* At the return of main a leak is reported iff a heap block is left       *)
(* (memsafety.c:363-370).                                                  *)
LeakVerdict == status \in {"leak", "exited"} => (status = "leak" <=> heapMem # {})

(* The assertion "realloc on freed memory" (memsafety.c:396) fails only    *)
(* for memory that was freed, never for a live heap block.                 *)
ReallocAlarmMeansFreed ==
  \A p \in Addr : check_realloc(p) = "reallocFreed" => ~IsHeapBase(p)
=============================================================================
