---------------------------- MODULE MonitorLists -----------------------------
(***************************************************************************)
(* The four lists of memsafety.c and what its functions do with them.  A   *)
(* list is the sequence of its nodes from the head on; LinkedLists has the *)
(* nodes with their links.                                                 *)
(***************************************************************************)
EXTENDS RecordLists

VARIABLES heap_list, stack_list, deallocated_list, globals_list

lists == <<heap_list, stack_list, deallocated_list, globals_list>>

(* What the three remember functions do with an address their own list     *)
(* does not cover: a deallocated record that covers it changes lists as it *)
(* stands, else a record is made.                                          *)
Adopted(list, p, n) ==
  LET i == list_search(deallocated_list, p)
  IN  Cons(IF i # 0 THEN deallocated_list[i] ELSE node_create(p, n), list)
DeallocatedWithout(p) ==
  LET i == list_search(deallocated_list, p)
  IN  IF i # 0 THEN RemoveAt(deallocated_list, i) ELSE deallocated_list

(* Fault: a block of no bytes is not worth a record.                       *)
remember_malloc_calloc_skips_empty(p, n) ==
  /\ IF p = NULL \/ n = 0 \/ Found(heap_list, p)
       THEN UNCHANGED <<heap_list, deallocated_list>>
       ELSE /\ heap_list' = Adopted(heap_list, p, n)
            /\ deallocated_list' = DeallocatedWithout(p)
  /\ UNCHANGED <<stack_list, globals_list>>

remember_malloc_calloc(p, n) ==
  /\ IF p = NULL \/ Found(heap_list, p)
       THEN UNCHANGED <<heap_list, deallocated_list>>
       ELSE /\ heap_list' = Adopted(heap_list, p, n)
            /\ deallocated_list' = DeallocatedWithout(p)
  /\ UNCHANGED <<stack_list, globals_list>>

remember(p, n) ==
  LET i == list_search(stack_list, p)
  IN  /\ IF i # 0
           THEN /\ stack_list' = [stack_list EXCEPT ![i].size = n]
                /\ UNCHANGED deallocated_list
           ELSE /\ stack_list' = Adopted(stack_list, p, n)
                /\ deallocated_list' = DeallocatedWithout(p)
      /\ UNCHANGED <<heap_list, globals_list>>

(* Fault: the copied function still names the stack's list.                *)
remember_global_on_stack(p, n) == remember(p, n)

remember_global(p, n) ==
  LET i == list_search(globals_list, p)
  IN  /\ IF i # 0
           THEN /\ globals_list' = [globals_list EXCEPT ![i].size = n]
                /\ UNCHANGED deallocated_list
           ELSE /\ globals_list' = Adopted(globals_list, p, n)
                /\ deallocated_list' = DeallocatedWithout(p)
      /\ UNCHANGED <<heap_list, stack_list>>

(* Fault: a pointer into a block may free it.                              *)
FreeVerdict_inside(p) ==
  CASE p = NULL \/ Found(heap_list, p) -> "running"
    [] OTHER -> IF Found(deallocated_list, p) THEN "doubleFree" ELSE "badFree"

FreeVerdict(p) ==
  LET i == list_search(heap_list, p)
  IN  CASE p = NULL \/ (i # 0 /\ heap_list[i].id = p) -> "running"
        [] OTHER -> IF Found(deallocated_list, p) THEN "doubleFree" ELSE "badFree"

free(p) ==
  LET i == list_search(heap_list, p)
  IN  /\ IF p = NULL
           THEN UNCHANGED <<heap_list, deallocated_list>>
           ELSE /\ heap_list' = RemoveAt(heap_list, i)
                /\ deallocated_list' = Cons(heap_list[i], deallocated_list)
      /\ UNCHANGED <<stack_list, globals_list>>

(* Fault: the old record stays.                                            *)
realloc_keeps_old(p, b) ==
  /\ heap_list' = IF p = NULL \/ Found(heap_list, p)
                   THEN Cons(node_create(b.id, b.size), heap_list) ELSE heap_list
  /\ UNCHANGED <<stack_list, deallocated_list, globals_list>>

realloc(p, b) ==
  LET i == list_search(heap_list, p)
      made == Cons(node_create(b.id, b.size), heap_list)
  IN  /\ heap_list' = CASE p = NULL           -> made
                        [] p # NULL /\ i # 0 -> RemoveAt(made, i + 1)
                        [] p # NULL /\ i = 0 -> heap_list
      /\ UNCHANGED <<stack_list, deallocated_list, globals_list>>

(* Fault: the flag only says that some callee is active.                   *)
set_flag_once ==
  IF stack_list # <<>> THEN [stack_list EXCEPT ![1].flag = 1] ELSE stack_list

set_flag ==
  IF stack_list # <<>> THEN [stack_list EXCEPT ![1].flag = @ + 1] ELSE stack_list

(* Faults: the flag outlives the frame it was set for; no node is skipped  *)
(* before a flag is lowered.                                               *)
destroy_allocas_keeps_flag ==
  LET k == FirstFlagged(stack_list)
  IN  IF k = 0 THEN <<>> ELSE SubSeq(stack_list, k, Len(stack_list))
destroy_allocas_frees_none ==
  IF stack_list = <<>> THEN <<>> ELSE [stack_list EXCEPT ![1].flag = @ - 1]

(* The nodes before the first flagged one go; that one loses a flag.       *)
destroy_allocas ==
  LET k == FirstFlagged(stack_list)
  IN  IF k = 0 THEN <<>>
               ELSE [SubSeq(stack_list, k, Len(stack_list)) EXCEPT ![1].flag = @ - 1]

destroy(p) ==
  LET i == list_search(stack_list, p)
  IN  /\ stack_list' = IF i # 0 THEN RemoveAt(stack_list, i) ELSE stack_list
      /\ UNCHANGED <<heap_list, deallocated_list, globals_list>>
=============================================================================
