--------------------------- MODULE PredatorProofs ----------------------------
(***************************************************************************)
(* Theorems of PredatorRun for every analyser that reports nothing after   *)
(* the line that ends its run: however printing, reading, the clock and    *)
(* deaths interleave, "ok" means the whole list of reports; where the      *)
(* wrapper came to its end the plugin goes by all of them; and where no    *)
(* success of an earlier run lies about, what it calls valid was analysed. *)
(***************************************************************************)
EXTENDS PredatorRun, TLAPS

Reading == {"first", "select", "poll"}
ReportsUpTo(n) == {output[i].place : i \in {k \in 1 .. n : output[k].kind = "report"}}

(***************************************************************************)
(* The strengthening: while the wrapper reads, its reports are those of    *)
(* the lines it has taken; lines are taken only after they were fetched,   *)
(* and fetched only after they were printed.  It returns "ok" only at a    *)
(* line that says the analyser is through, after which nothing is said.    *)
(***************************************************************************)
ReadInv ==
  /\ output \in Outputs /\ sent \in 0 .. Len(output)
  /\ fetched \in 0 .. sent /\ taken \in 0 .. fetched
  /\ pc \in {"start"} \cup Reading => result = "none" /\ errs = ReportsUpTo(taken)
  /\ pc \in {"start", "first"} => taken = 0
  /\ result = "ok" =>
       errs = ReportsUpTo(taken) /\ \E i \in 1 .. taken : output[i].kind = "took"

LEMMA ReadCounts ==
  ASSUME ReadInv
  PROVE  /\ Len(output) \in Nat /\ sent \in Nat /\ sent <= Len(output)
         /\ fetched \in Nat /\ fetched <= sent /\ taken \in Nat /\ taken <= fetched
<1>1. Len(output) \in Nat
  BY OutputAssumption DEF ReadInv
<1> QED BY <1>1 DEF ReadInv

(* One line more is read, or, at the end of the file, none.                *)
LEMMA ReadOne ==
  ASSUME ReadInv, Readline, UNCHANGED <<output, sent>>
  PROVE  /\ fetched' \in 0 .. sent' /\ taken' \in 0 .. fetched'
         /\ \/ taken < sent /\ taken' = taken + 1 /\ Next1 = output[taken + 1]
            \/ taken' = taken /\ Next1.kind = "none"
         /\ Next1.kind = "report" => ReportsUpTo(taken)' = ReportsUpTo(taken) \cup {Next1.place}
         /\ Next1.kind # "report" => ReportsUpTo(taken)' = ReportsUpTo(taken)
         /\ Next1.kind = "took" => \E i \in 1 .. taken' : output[i].kind = "took"
<1>1. /\ Len(output) \in Nat /\ sent \in Nat /\ sent <= Len(output)
      /\ fetched \in Nat /\ fetched <= sent /\ taken \in Nat /\ taken <= fetched
  BY ReadCounts
<1>2. fetched' \in 0 .. sent' /\ taken' \in 0 .. fetched'
  BY <1>1 DEF Readline
<1>3. CASE taken < sent
  <2>1. taken' = taken + 1 /\ Next1 = output[taken + 1]
    BY <1>3 DEF Readline, Next1
  <2>2. 1 .. taken' = (1 .. taken) \cup {taken + 1}
    BY <1>1, <2>1
  <2>3. ReportsUpTo(taken)' =
          {output[i].place : i \in {k \in (1 .. taken) \cup {taken + 1} : output[k].kind = "report"}}
    BY <2>2 DEF ReportsUpTo
  <2>4. CASE Next1.kind = "report"
    <3>1. {k \in (1 .. taken) \cup {taken + 1} : output[k].kind = "report"}
            = {k \in 1 .. taken : output[k].kind = "report"} \cup {taken + 1}
      BY <2>1, <2>4
    <3>2. ReportsUpTo(taken)' = ReportsUpTo(taken) \cup {Next1.place}
      BY <2>1, <2>3, <3>1 DEF ReportsUpTo
    <3> QED BY <1>2, <1>3, <2>1, <2>4, <3>2
  <2>5. CASE Next1.kind # "report"
    <3>1. {k \in (1 .. taken) \cup {taken + 1} : output[k].kind = "report"}
            = {k \in 1 .. taken : output[k].kind = "report"}
      BY <2>1, <2>5
    <3>2. ReportsUpTo(taken)' = ReportsUpTo(taken)
      BY <2>3, <3>1 DEF ReportsUpTo
    <3>3. Next1.kind = "took" => \E i \in 1 .. taken' : output[i].kind = "took"
      BY <2>1, <2>2
    <3> QED BY <1>2, <1>3, <2>1, <2>5, <3>2, <3>3
  <2> QED BY <2>4, <2>5
<1>4. CASE ~ (taken < sent)
  <2>1. taken' = taken /\ Next1.kind = "none"
    BY <1>4 DEF Readline, Next1, EndOfFile, Line
  <2>2. ReportsUpTo(taken)' = ReportsUpTo(taken)
    BY <2>1 DEF ReportsUpTo
  <2> QED BY <1>2, <2>1, <2>2
<1> QED BY <1>3, <1>4

LEMMA ReadStep ==
  ASSUME ReadInv, [Next]_vars
  PROVE  ReadInv'
<1>1. /\ Len(output) \in Nat /\ sent \in Nat /\ sent <= Len(output)
      /\ fetched \in Nat /\ fetched <= sent /\ taken \in Nat /\ taken <= fetched
  BY ReadCounts
<1>2. ASSUME UNCHANGED <<output, fetched, taken, result, errs>>, sent' \in sent .. Len(output),
             \/ pc' = pc \/ pc' \notin {"start"} \cup Reading
             \/ pc = "start" /\ pc' = "first"
             \/ pc \in Reading /\ pc' \in {"select", "poll"}
      PROVE  ReadInv'
  <2>1. fetched' \in 0 .. sent' /\ sent' \in 0 .. Len(output')
    BY <1>1, <1>2
  <2>2. ReportsUpTo(taken)' = ReportsUpTo(taken)
    BY <1>2 DEF ReportsUpTo
  <2> QED BY <1>2, <2>1, <2>2 DEF ReadInv, Reading
<1>3. CASE Emit \/ Exit \/ Expire \/ Die \/ Load \/ UNCHANGED vars
  BY <1>1, <1>2, <1>3
     DEF Emit, Exit, Expire, Die, Load, Believed, Ended, Go, analyser, wrapper, plugin, vars,
         Reading, Running
<1>4. CASE Start \/ NothingSeen
  BY <1>1, <1>2, <1>4 DEF Start, NothingSeen, Go, analyser, wrapper, plugin, Reading
<1>5. CASE Leave \/ OpenLog \/ Flush \/ CloseLog \/ Finish
  <2>1. /\ UNCHANGED <<output, sent, fetched, taken, result, errs>>
        /\ pc' \in {"open", "write", "exit", "load"}
    BY <1>5 DEF Leave, OpenLog, Flush, CloseLog, Finish, Go, analyser
  <2>2. sent' \in sent .. Len(output) /\ pc' \notin {"start"} \cup Reading
    BY <1>1, <2>1 DEF Reading
  <2> QED BY <1>2, <2>1, <2>2
<1>6. CASE Poll
  <2>1. CASE ~ Gone /\ ~ expired
    BY <1>1, <1>2, <1>6, <2>1 DEF Poll, Go, Reading
  <2>2. CASE Gone \/ expired
    <3>1. /\ UNCHANGED <<output, sent, fetched, taken>>
          /\ result' \in {"error", "timeout"} /\ pc' = "leave"
      BY <1>6, <2>2 DEF Poll, Return
    <3> QED BY <1>1, <3>1 DEF ReadInv, Reading
  <2> QED BY <2>1, <2>2
<1>7. CASE First
  <2>1. /\ pc = "first" /\ Readline /\ UNCHANGED <<output, sent>>
        /\ IF Next1.kind = "compiled" THEN Go("select") ELSE Return("error", {})
    BY <1>7 DEF First, analyser
  <2>2. fetched' \in 0 .. sent' /\ taken' \in 0 .. fetched'
    BY <2>1, ReadOne
  <2>3. CASE Next1.kind = "compiled"
    <3>1. ReportsUpTo(taken)' = ReportsUpTo(taken)
      BY <2>1, <2>3, ReadOne
    <3> QED BY <2>1, <2>2, <2>3, <3>1 DEF ReadInv, Go, Reading
  <2>4. CASE Next1.kind # "compiled"
    BY <2>1, <2>2, <2>4 DEF ReadInv, Return, Reading
  <2> QED BY <2>3, <2>4
<1>8. CASE Look
  <2>1. /\ pc = "select" /\ Readline /\ Judge(Next1) /\ UNCHANGED <<output, sent>>
    BY <1>8 DEF Look
  <2>2. fetched' \in 0 .. sent' /\ taken' \in 0 .. fetched'
    BY <2>1, ReadOne
  <2>3. result = "none" /\ errs = ReportsUpTo(taken)
    BY <2>1 DEF ReadInv, Reading
  <2>4. CASE Next1.kind = "report"
    <3>1. errs' = errs \cup {Next1.place} /\ pc' = "poll" /\ result' = result
      BY <2>1, <2>4 DEF Judge
    <3>2. ReportsUpTo(taken)' = ReportsUpTo(taken) \cup {Next1.place}
      BY <2>1, <2>4, ReadOne
    <3> QED BY <2>1, <2>2, <2>3, <3>1, <3>2 DEF ReadInv, Reading
  <2>5. CASE Next1.kind = "took"
    <3>1. errs' = errs /\ pc' = "leave" /\ result' = "ok"
      BY <2>1, <2>5 DEF Judge, Return
    <3>2. /\ ReportsUpTo(taken)' = ReportsUpTo(taken)
          /\ \E i \in 1 .. taken' : output[i].kind = "took"
      BY <2>1, <2>5, ReadOne
    <3> QED BY <2>1, <2>2, <2>3, <3>1, <3>2 DEF ReadInv, Reading
  <2>6. CASE Next1.kind \in {"odd", "unsupported", "unexpected"}
    <3>1. pc' = "leave" /\ result' \in {"unknown", "error"}
      BY <2>1, <2>6 DEF Judge, Return
    <3> QED BY <2>1, <2>2, <3>1 DEF ReadInv, Reading
  <2>7. CASE Next1.kind \in {"chatter", "none"}
    <3>1. pc' = "poll" /\ errs' = errs /\ result' = result
      BY <2>1, <2>7 DEF Judge, Go
    <3>2. ReportsUpTo(taken)' = ReportsUpTo(taken)
      BY <2>1, <2>7, ReadOne
    <3> QED BY <2>1, <2>2, <2>3, <3>1, <3>2 DEF ReadInv, Reading
  <2> QED BY <2>1, <2>4, <2>5, <2>6, <2>7 DEF Judge
<1> QED BY <1>3, <1>4, <1>5, <1>6, <1>7, <1>8 DEF Next, Tool

LEMMA ReadStart == Init => ReadInv
<1> SUFFICES ASSUME Init PROVE ReadInv
  OBVIOUS
<1>1. /\ output \in Outputs /\ sent = 0 /\ fetched = 0 /\ taken = 0 /\ pc = "start"
      /\ result = "none" /\ errs = {}
  BY DEF Init
<1>2. Len(output) \in Nat
  BY <1>1, OutputAssumption
<1>3. ReportsUpTo(taken) = {}
  BY <1>1 DEF ReportsUpTo
<1> QED BY <1>1, <1>2, <1>3 DEF ReadInv

LEMMA ReadAlways == Spec => []ReadInv
<1>1. ReadInv /\ [Next]_vars => ReadInv'
  BY ReadStep
<1> QED BY <1>1, ReadStart, PTL DEF Spec

LEMMA OkIsComplete ==
  ASSUME ReadInv, result = "ok"
  PROVE  Finished /\ errs = Reported
<1>1. /\ Len(output) \in Nat /\ sent \in Nat /\ sent <= Len(output)
      /\ fetched \in Nat /\ fetched <= sent /\ taken \in Nat /\ taken <= fetched
  BY ReadCounts
<1>2. PICK i \in 1 .. taken : output[i].kind = "took"
  BY DEF ReadInv
<1>3. i \in 1 .. sent /\ DOMAIN output = 1 .. Len(output)
  BY <1>1, OutputAssumption DEF ReadInv
<1>4. \A j \in 1 .. sent : j > taken => output[j].kind # "report"
  <2> SUFFICES ASSUME NEW j \in 1 .. sent, j > taken PROVE output[j].kind # "report"
    OBVIOUS
  <2>1. i \in DOMAIN output /\ j \in DOMAIN output /\ i < j
    BY <1>1, <1>2, <1>3
  <2> QED BY <1>2, <2>1, OutputAssumption DEF ReadInv
<1>5. {k \in 1 .. sent : output[k].kind = "report"} = {k \in 1 .. taken : output[k].kind = "report"}
  BY <1>1, <1>4
<1>6. Reported = ReportsUpTo(taken)
  BY <1>5 DEF Reported, ReportsUpTo
<1> QED BY <1>2, <1>3, <1>6 DEF Finished, ReadInv

(* A result is "ok" only when the analyser came to its end, and then it    *)
(* has all the reports there are, whatever lay in the pipe or was printed  *)
(* late (predator_wrapper.py:144-205).                                     *)
THEOREM OkIsAllReports == Spec => []OkMeansAllReports
<1>1. ReadInv => OkMeansAllReports
  BY OkIsComplete DEF OkMeansAllReports
<1> QED BY <1>1, ReadAlways, PTL

-----------------------------------------------------------------------------
(***************************************************************************)
(* The plugin sees only the file.  The wrapper's own log is a part of its  *)
(* result while it is written, all of it once it is closed; status 0 says  *)
(* that it was closed.                                                     *)
(***************************************************************************)
LogInv ==
  /\ pc = "write" => log.errs \subseteq errs /\ log.result \in {"", result}
  /\ pc = "exit" => log = Log(result, errs, {})
  /\ status = 0 => pc \in {"load"} \cup Over /\ log = Log(result, errs, {})
  /\ pc \in Running \cup {"start", "load"} => ~ predatorSuccess
  /\ loaded => log.result = "ok" /\ errors = log.errs

(* Where no earlier run left a success, an "ok" log is of this wrapper.    *)
OwnInv ==
  /\ pc \in {"start", "first", "select", "poll", "leave", "open"} => log.result # "ok"
  /\ log.result = "ok" => result = "ok" /\ log.errs \subseteq errs

(* The steps that change nothing of the log, nor what is written in it;    *)
(* and those of the reader.                                                *)
Rests ==
  /\ UNCHANGED <<log, plugin, status, result, errs>>
  /\ \/ pc' = pc
     \/ pc = "start" /\ pc' \in {"first", "load"}
     \/ pc = "leave" /\ pc' = "open"
     \/ pc \in Running /\ pc' = "load"
Reads ==
  /\ pc \in Reading /\ pc' \in {"select", "poll", "leave"}
  /\ UNCHANGED <<log, plugin, status>>

LEMMA WriterStep ==
  ASSUME [Next]_vars
  PROVE  Rests \/ Reads \/ OpenLog \/ Flush \/ CloseLog \/ Finish \/ Load
<1>1. CASE Emit \/ Exit \/ Expire \/ UNCHANGED vars
  BY <1>1 DEF Emit, Exit, Expire, Rests, analyser, wrapper, plugin, vars
<1>2. CASE Start \/ NothingSeen \/ Leave \/ Die
  BY <1>2 DEF Start, NothingSeen, Leave, Die, Go, Rests, Reads, Reading, wrapper, plugin
<1>3. CASE First \/ Look \/ Poll
  BY <1>3 DEF First, Look, Poll, Judge, Return, Go, Reads, Reading
<1> QED BY <1>1, <1>2, <1>3 DEF Next, Tool

LEMMA LoadStep ==
  ASSUME Load
  PROVE  /\ pc = "load" /\ pc' \in Over /\ UNCHANGED <<wrapper, log>>
         /\ loaded' => log.result = "ok" /\ errors' = log.errs
BY DEF Load, Believed, Ended, loaded, Over

LEMMA LogStep ==
  ASSUME LogInv, [Next]_vars
  PROVE  LogInv'
<1>1. CASE Rests
  BY <1>1 DEF Rests, LogInv, loaded, plugin, Running, Over
<1>2. CASE Reads
  BY <1>2 DEF Reads, Reading, LogInv, loaded, plugin, Running, Over
<1>3. CASE OpenLog
  BY <1>3 DEF OpenLog, Go, Log, LogInv, loaded, plugin, Running, Over
<1>4. CASE Flush
  <2>1. /\ pc = "write" /\ pc' = "write" /\ UNCHANGED <<result, errs, status, plugin>>
        /\ \E whole \in SUBSET errs : \E cut : log' = Log(result, whole, cut)
    BY <1>4 DEF Flush, Go
  <2>2. log'.errs \subseteq errs /\ log'.result = result
    BY <2>1 DEF Log
  <2> QED BY <2>1, <2>2 DEF LogInv, loaded, plugin, Running, Over
<1>5. CASE CloseLog
  BY <1>5 DEF CloseLog, Go, LogInv, loaded, plugin, Running, Over
<1>6. CASE Finish
  BY <1>6 DEF Finish, LogInv, loaded, plugin, Running, Over
<1>7. CASE Load
  <2>1. LogInv /\ pc = "load" /\ pc' \in Over /\ UNCHANGED <<wrapper, log>>
    BY <1>7, LoadStep
  <2>2. loaded' => log.result = "ok" /\ errors' = log.errs
    BY <1>7, LoadStep
  <2> QED BY <2>1, <2>2 DEF LogInv, wrapper, Running, Over
<1> QED BY <1>1, <1>2, <1>3, <1>4, <1>5, <1>6, <1>7, WriterStep

LEMMA OwnStep ==
  ASSUME LogInv, OwnInv, [Next]_vars
  PROVE  OwnInv'
<1>1. CASE Rests
  BY <1>1 DEF Rests, OwnInv, Running
<1>2. CASE Reads
  BY <1>2 DEF Reads, Reading, OwnInv
<1>3. CASE OpenLog
  BY <1>3 DEF OpenLog, Go, Log, OwnInv
<1>4. CASE Flush \/ CloseLog
  BY <1>4 DEF Flush, CloseLog, Go, Log, OwnInv
<1>5. CASE Finish
  BY <1>5 DEF Finish, OwnInv
<1>6. CASE Load
  BY <1>6, LoadStep DEF OwnInv, wrapper, Over
<1> QED BY <1>1, <1>2, <1>3, <1>4, <1>5, <1>6, WriterStep

LEMMA LogAlways == Spec => []LogInv
<1>1. Init => LogInv
  BY DEF Init, LogInv, loaded, Running
<1>2. LogInv /\ [Next]_vars => LogInv'
  BY LogStep
<1> QED BY <1>1, <1>2, PTL DEF Spec

LEMMA OwnAlways ==
  ASSUME \A l \in Earlier : l.result # "ok"
  PROVE  Spec => []OwnInv
<1>1. Init => OwnInv
  BY DEF Init, OwnInv
<1>2. LogInv /\ OwnInv /\ [Next]_vars => OwnInv'
  BY OwnStep
<1> QED BY <1>1, <1>2, LogAlways, PTL DEF Spec

(* Whatever lay in the directory: after a wrapper that came to its end     *)
(* the plugin goes by the reports of a finished analyser, all of them and  *)
(* no others (predator_wrapper.py:207-211, 245-248,                        *)
(* predator_plugin.cpp:107-166).                                           *)
THEOREM EndedRunIsBelievedWhole ==
  Spec => [](loaded /\ status = 0 => Finished /\ errors = Reported)
<1>1. ReadInv /\ LogInv => (loaded /\ status = 0 => Finished /\ errors = Reported)
  <2> SUFFICES ASSUME ReadInv, LogInv, loaded, status = 0
               PROVE  Finished /\ errors = Reported
    OBVIOUS
  <2>1. log.result = "ok" /\ errors = log.errs /\ log = Log(result, errs, {})
    BY DEF LogInv
  <2>2. log.result = result /\ log.errs = errs
    BY <2>1 DEF Log
  <2> QED BY <2>1, <2>2, OkIsComplete
<1> QED BY <1>1, ReadAlways, LogAlways, PTL

(* No log of an earlier success: a pointer is called valid only if the     *)
(* analyser finished its run on this module, by its own reports, and, if   *)
(* the wrapper came to its end, only if it reported none of the pointer's  *)
(* uses.  Wherever the wrapper dies, also between two writes to the file,  *)
(* the first two hold (predator_plugin.cpp:36-55, 107-166).                *)
THEOREM TrueIsAnalysed ==
  ASSUME \A l \in Earlier : l.result # "ok"
  PROVE  Spec => []TrueMeansAnalysed
<1>1. ReadInv /\ LogInv /\ OwnInv => TrueMeansAnalysed
  <2> SUFFICES ASSUME ReadInv, LogInv, OwnInv, loaded, NEW p \in DOMAIN Users,
                      isValidPointer(p) = "true"
               PROVE  /\ Finished /\ errors \subseteq Reported
                      /\ status = 0 => Users[p] \cap Reported = {}
    BY DEF TrueMeansAnalysed
  <2>1. result = "ok" /\ errors = log.errs /\ log.errs \subseteq errs
    BY DEF LogInv, OwnInv
  <2>2. Finished /\ errs = Reported
    BY <2>1, OkIsComplete
  <2>3. Users[p] \cap errors = {}
    BY DEF isValidPointer, someUserHasSomeErrorReport
  <2>4. ASSUME status = 0 PROVE log.errs = errs
    <3>1. log = Log(result, errs, {})
      BY <2>4 DEF LogInv
    <3> QED BY <3>1 DEF Log
  <2> QED BY <2>1, <2>2, <2>3, <2>4
<1> QED BY <1>1, ReadAlways, LogAlways, OwnAlways, PTL
=============================================================================
