---------------------------- MODULE PredatorRun ------------------------------
(***************************************************************************)
(* How the Predator plugin comes to its answers: the plugin (analyses/     *)
(* predator_plugin.cpp) starts predator_wrapper.py and waits; the wrapper  *)
(* starts the analyser, reads what it prints while it runs, and leaves a   *)
(* result in predator.log; the plugin reads that file and answers queries  *)
(* from it.  Analyser and wrapper run side by side, joined by a pipe, and  *)
(* the file may be there from an earlier run.                              *)
(***************************************************************************)
EXTENDS Integers, Sequences

CONSTANTS
  Outputs,     \* what the analyser may print: sequences of lines
  LineOnly,    \* the places of reports that have no column
  Users,       \* pointer -> the places of the instructions that use it
  Earlier      \* the logs that may lie there: of other programs, or none

(* The wrapper leaves the analyser at the line that says how long it took  *)
(* (predator_wrapper.py:190-192), so it counts on no report after it.      *)
ASSUME OutputAssumption ==
  \A o \in Outputs :
    /\ o \in Seq([kind : {"compiled", "failed", "report", "took", "odd", "unsupported",
                         "unexpected", "chatter"},
                 place : STRING])
    /\ \A i, j \in DOMAIN o : i < j /\ o[i].kind = "took" => o[j].kind # "report"

VARIABLES
  output, sent,       \* what the analyser prints if it is let, and how much it has
  proc,               \* "none", "running", "exited", "killed"
  expired,            \* is the wrapper's time over
  pc,                 \* where the plugin and its wrapper are
  fetched, taken,     \* the lines the wrapper has fetched from the pipe, and read
  result, errs,       \* what run_predator returns
  status,             \* of the wrapper: 0 only if it came to its end
  log,                \* predator.log: its first word, its whole lines, a line cut off
  predatorSuccess, errors

analyser == <<output, sent, proc>>
wrapper == <<fetched, taken, result, errs, status>>
plugin == <<predatorSuccess, errors>>
vars == <<analyser, wrapper, plugin, expired, pc, log>>

Log(r, whole, cut) == [result |-> r, errs |-> whole, cut |-> cut]
NoLog == Log("no file", {}, {})
Running == {"first", "select", "poll", "leave", "open", "write", "exit"}
Over == {"done", "aborted", "terminated"}

Line(kind, place) == [kind |-> kind, place |-> place]
EndOfFile == Line("none", "none")
Gone == proc # "running"

Init ==
  /\ output \in Outputs /\ sent = 0 /\ proc = "none"
  /\ expired = FALSE /\ pc = "start"
  /\ fetched = 0 /\ taken = 0
  /\ result = "none" /\ errs = {} /\ status = 1
  /\ log \in Earlier
  /\ predatorSuccess = FALSE /\ errors = {}

-----------------------------------------------------------------------------
(* The analyser prints its lines and ends, early or late; and time goes on.*)
Emit ==
  /\ pc \in Running /\ proc = "running" /\ sent < Len(output)
  /\ sent' = sent + 1
  /\ UNCHANGED <<output, proc, wrapper, plugin, expired, pc, log>>
Exit ==
  /\ pc \in Running /\ proc = "running"
  /\ proc' = "exited"
  /\ UNCHANGED <<output, sent, wrapper, plugin, expired, pc, log>>
Expire ==
  /\ pc \in Running /\ ~expired
  /\ expired' = TRUE
  /\ UNCHANGED <<analyser, wrapper, plugin, pc, log>>

-----------------------------------------------------------------------------
(* readline: a line that was fetched, else all that is in the pipe is      *)
(* fetched.  At the end of the file it gives an empty line at once.        *)
CanRead == taken < sent \/ Gone
Next1 == IF taken < sent THEN output[taken + 1] ELSE EndOfFile
Readline ==
  /\ taken' = IF taken < sent THEN taken + 1 ELSE taken
  /\ fetched' = IF taken < fetched THEN fetched ELSE sent

Return(r, found) == result' = r /\ errs' = found /\ pc' = "leave"
Kill == proc' = IF proc = "running" THEN "killed" ELSE proc
Go(where) == pc' = where /\ UNCHANGED <<result, errs>>

(* runPredator; the wrapper gives up when there is no analyser.            *)
Start ==
  /\ pc = "start"
  /\ \/ pc' = "load" /\ UNCHANGED proc
     \/ pc' = "first" /\ proc' = "running"
  /\ UNCHANGED <<output, sent, wrapper, plugin, expired, log>>

(* The first line says whether the module was compiled.                    *)
First ==
  /\ pc = "first" /\ CanRead
  /\ Readline
  /\ IF Next1.kind = "compiled" THEN Go("select") ELSE Return("error", {})
  /\ UNCHANGED <<analyser, plugin, expired, status, log>>

(* select looks at the pipe, not at what was fetched from it.              *)
Ready == fetched < sent \/ Gone

Judge(line) ==
  /\ \/ line.kind = "report"
        /\ errs' = errs \cup {line.place} /\ pc' = "poll" /\ UNCHANGED <<result, proc>>
     \/ line.kind = "took"                  /\ Return("ok", errs) /\ UNCHANGED proc
     \/ line.kind \in {"odd", "unsupported"} /\ Return("unknown", {}) /\ Kill
     \/ line.kind = "unexpected"            /\ Return("error", {}) /\ Kill
     \/ line.kind \in {"chatter", "none"}   /\ Go("poll") /\ UNCHANGED proc

Look ==
  /\ pc = "select" /\ Ready
  /\ Readline /\ Judge(Next1)
  /\ UNCHANGED <<output, sent, plugin, expired, status, log>>

NothingSeen ==
  /\ pc = "select" /\ ~Ready /\ expired
  /\ Go("poll")
  /\ UNCHANGED <<analyser, fetched, taken, plugin, expired, status, log>>

(* Faults: an analyser that is gone has finished; the time is not looked at.*)
Poll_gone_is_ok ==
  /\ pc = "poll"
  /\ \/ Gone /\ Return("ok", errs) /\ UNCHANGED proc
     \/ ~Gone /\ expired /\ Return("timeout", {}) /\ Kill
     \/ ~Gone /\ ~expired /\ Go("select") /\ UNCHANGED proc
  /\ UNCHANGED <<output, sent, fetched, taken, plugin, expired, status, log>>
Poll_no_timeout ==
  /\ pc = "poll"
  /\ \/ Gone /\ Return("error", {}) /\ UNCHANGED proc
     \/ ~Gone /\ Go("select") /\ UNCHANGED proc
  /\ UNCHANGED <<output, sent, fetched, taken, plugin, expired, status, log>>
Poll ==
  /\ pc = "poll"
  /\ \/ Gone /\ Return("error", {}) /\ UNCHANGED proc
     \/ ~Gone /\ expired /\ Return("timeout", {}) /\ Kill
     \/ ~Gone /\ ~expired /\ Go("select") /\ UNCHANGED proc
  /\ UNCHANGED <<output, sent, fetched, taken, plugin, expired, status, log>>

(* The with statement waits for the analyser.                              *)
Leave ==
  /\ pc = "leave" /\ Gone
  /\ Go("open")
  /\ UNCHANGED <<analyser, fetched, taken, plugin, expired, status, log>>

(* write_logfile: opening the file empties it.  What the loop writes goes  *)
(* to a buffer, and reaches the file when that is full, wherever a line    *)
(* is then, or when the file is closed, which an exception does as well.   *)
OpenLog ==
  /\ pc = "open"
  /\ log' = Log("", {}, {})
  /\ Go("write")
  /\ UNCHANGED <<analyser, fetched, taken, plugin, expired, status>>
Flush ==
  /\ pc = "write"
  /\ \E whole \in SUBSET errs :
       /\ log.errs \cup log.cut \subseteq whole
       /\ \E cut \in {{}} \cup {{place} : place \in errs \ whole} :
            log' = Log(result, whole, cut)
  /\ Go("write")
  /\ UNCHANGED <<analyser, fetched, taken, plugin, expired, status>>
CloseLog ==
  /\ pc = "write"
  /\ log' = Log(result, errs, {})
  /\ Go("exit")
  /\ UNCHANGED <<analyser, fetched, taken, plugin, expired, status>>

(* sys.exit(0)                                                             *)
Finish ==
  /\ pc = "exit"
  /\ status' = 0 /\ pc' = "load"
  /\ UNCHANGED <<analyser, fetched, taken, result, errs, plugin, expired, log>>

(* The wrapper is killed, or stops with an exception, at any of its steps. *)
Die ==
  /\ pc \in Running
  /\ Go("load")
  /\ UNCHANGED <<analyser, fetched, taken, plugin, expired, status, log>>

-----------------------------------------------------------------------------
(* loadPredatorOutput.  The status of the wrapper has set predatorSuccess, *)
(* which was FALSE, to FALSE; what counts is the first word of the file.   *)
(* A report without a column ends the program (std::stoi of "none"), and   *)
(* so does a file without reports.  Of a line that is cut off the row is   *)
(* no report, a part of the last word ends the program, and a "none" that  *)
(* the file ends with is remembered for addReportsForLineErrors, which may *)
(* find no variable for it.                                                *)
Believed(success, found) == pc' = "done" /\ predatorSuccess' = success /\ errors' = found
Ended(how) == pc' = how /\ predatorSuccess' = TRUE /\ errors' = {}
Load ==
  /\ pc = "load"
  /\ \/ log.result # "ok" /\ Believed(FALSE, {})
     \/ log.result = "ok" /\ (log.errs \cup log.cut) \cap LineOnly # {} /\ Ended("terminated")
     \/ /\ log.result = "ok" /\ log.errs \cap LineOnly = {}
        /\ \/ log.errs # {} /\ Believed(TRUE, log.errs)
           \/ log.errs = {} /\ Ended("aborted")
           \/ log.cut \ LineOnly # {} /\ Ended("aborted")
           \/ log.cut \cap LineOnly # {} /\ \E found \in BOOLEAN : Believed(found, log.errs)
  /\ UNCHANGED <<analyser, wrapper, expired, log>>

(* Fault: all users must be reported.                                      *)
someUserHasSomeErrorReport_all(p) == Users[p] \subseteq errors
someUserHasSomeErrorReport(p) == Users[p] \cap errors # {}

(* A plugin that failed is not loaded and answers nothing.                 *)
loaded == pc = "done" /\ predatorSuccess
isValidPointer(p) == IF someUserHasSomeErrorReport(p) THEN "maybe" ELSE "true"

Tool ==
  \/ Start \/ First \/ Look \/ NothingSeen \/ Poll \/ Leave
  \/ OpenLog \/ Flush \/ CloseLog \/ Finish \/ Load
Next == Emit \/ Exit \/ Expire \/ Tool \/ Die

(* The wrapper runs and time passes.  The analyser may stop half way; but  *)
(* it prints a first line or ends, and it ends when it has been left.      *)
Fairness ==
  /\ WF_vars(Tool) /\ WF_vars(Expire)
  /\ WF_vars(sent = 0 /\ (Emit \/ Exit)) /\ WF_vars(pc = "leave" /\ Exit)
Spec == Init /\ [][Next]_vars /\ Fairness

-----------------------------------------------------------------------------
Reported == {output[i].place : i \in {k \in 1 .. sent : output[k].kind = "report"}}
Finished == \E i \in 1 .. sent : output[i].kind = "took"

(* A pointer is called valid only when the analyser finished its run on    *)
(* this module, by its own reports and no other's; and unless the wrapper  *)
(* died after it had opened the log, by all of them.  A wrapper that dies  *)
(* later may leave "ok" with a part of the reports, and the plugin does    *)
(* not heed its status: see FailureSaysMaybe.                              *)
TrueMeansAnalysed ==
  loaded => \A p \in DOMAIN Users : isValidPointer(p) = "true" =>
              /\ Finished /\ errors \subseteq Reported
              /\ status = 0 => Users[p] \cap Reported = {}

(* A result is "ok" only with all reports of a finished analyser, however  *)
(* its printing, its end, the reading and the clock interleave.            *)
OkMeansAllReports == result = "ok" => Finished /\ errs = Reported

(* The plugin comes to an end, also when the analyser stops half way and   *)
(* neither prints nor ends.                                                *)
Ends == <>(pc \in Over)

(* "always saying maybe": after a wrapper that failed, as "finished with   *)
(* non-0 exit status", no pointer is called valid.                         *)
FailureSaysMaybe ==
  status # 0 /\ loaded => \A p \in DOMAIN Users : isValidPointer(p) = "maybe"
=============================================================================
