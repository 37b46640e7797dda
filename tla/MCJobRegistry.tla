--------------------------- MODULE MCJobRegistry ---------------------------
(* Small instances of JobRegistry for TLC.  Model values name the threads   *)
(* and the jobs; the constants that are sets of strings, Booleans or        *)
(* numbers are given here.                                                  *)
EXTENDS JobRegistry, TLC

WorkerOnly   == {FALSE}
GameThread   == {TRUE}
Either       == {TRUE, FALSE}
Works        == {TRUE}
Fails        == {FALSE}
NoQueries    == {}      \* no request for a result in this run
NoWait       == {0}
WaitOrNot    == {0, 1}
TwoOutcomes  == {"value", "bailError"}
FourOutcomes == {"value", "null", "error", "bail"}

(* Jobs and workers are interchangeable: nothing compares them.             *)
JobWorkerSymmetry == Permutations(Jobs) \cup Permutations(Workers)
=============================================================================
