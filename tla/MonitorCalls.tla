---------------------------- MODULE MonitorCalls -----------------------------
(***************************************************************************)
(* The calls of the monitor in any order, whatever program makes them:     *)
(* what LinkedLists has to implement.                                      *)
(***************************************************************************)
EXTENDS MonitorLists

CONSTANTS Ids, Sizes    \* the addresses and sizes that calls may name

Init ==
  /\ heap_list = <<>> /\ stack_list = <<>>
  /\ deallocated_list = <<>> /\ globals_list = <<>>

OnStack(new) ==
  stack_list' = new /\ UNCHANGED <<heap_list, deallocated_list, globals_list>>

Next ==
  \/ \E p \in Ids, n \in Sizes :
       \/ remember_malloc_calloc(p, n)
       \/ remember(p, n)
       \/ remember_global(p, n)
       \/ \E old \in Ids \cup {NULL} : realloc(old, [id |-> p, size |-> n])
  \/ \E p \in Ids : (FreeVerdict(p) = "running" /\ free(p)) \/ destroy(p)
  \/ OnStack(set_flag)
  \/ OnStack(destroy_allocas)

Spec == Init /\ [][Next]_lists
=============================================================================
