---------------------------- MODULE MCFlinkWindows ----------------------------
EXTENDS FlinkWindows

(* Around the boundaries of the windows 0-4 and 5-9 and a bound of 2, and one *)
(* far ahead; the minutes of TestSource, 4, 6, 3, 7 and 20, are among them.   *)
MCTimes == {3, 4, 6, 7, 12, 20}
===============================================================================
