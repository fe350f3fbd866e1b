---------------------------- MODULE MCPredatorRun ----------------------------
(* PredatorRun for TLC: two pointers, one used twice, reports at each use, *)
(* at no use and without a column, and the lines that end an analysis.     *)
EXTENDS PredatorRun

TwoPointers == [p |-> {"10:3", "12:5"}, q |-> {"20:1"}]
NoColumn == {"30:none"}

Compiled == Line("compiled", "none")
Report(place) == Line("report", place)
Chatter == Line("chatter", "none")
Took == Line("took", "none")
SomeOutputs == {
  <<Compiled, Report("10:3"), Chatter, Report("20:1"), Took>>,
  <<Compiled, Report("12:5"), Took>>,
  <<Compiled, Took, Chatter>>,
  <<Compiled, Report("30:none"), Report("20:1"), Took>>,
  <<Compiled, Report("10:3"), Line("odd", "none"), Took>>,
  <<Compiled, Report("10:3"), Line("unsupported", "none"), Took>>,
  <<Compiled, Line("unexpected", "none"), Took>>,
  <<Compiled, Report("20:1"), Chatter>>,
  <<Line("failed", "none"), Chatter>>,
  <<>>}

Failed == Log("timeout", {}, {})
Old == Log("ok", {"20:1"}, {})
NoSuccess == {NoLog, Failed}
Success == {Old}
=============================================================================
