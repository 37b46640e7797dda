------------------------------ MODULE TestRuns -------------------------------
(* The automation tests of the engine: test.*.  The framework has one current *)
(* test.  run_single_test, cancel_current and set_filter_flags run on the     *)
(* game thread, the readers on lane B, all under gAutomationFrameworkLock;    *)
(* the job of test.run_automation runs on the game thread without it, and so  *)
(* does the editor's own test window.                                         *)
EXTENDS EditorSession, Integers, Sequences, FiniteSets

CONSTANTS
  Tests,         \* tests that the framework knows
  UnknownTest,   \* a name that it does not know
  NoTest,
  RunLists,      \* test_names of the requests
  EntryMax       \* bound: entries a test writes

ASSUME RunListsAreLists == RunLists \subseteq Seq(Tests \cup {UnknownTest})

VARIABLES
  gameThread,    \* idle, single: run_single_test, batch: the job's body
  lockedBy,      \* gAutomationFrameworkLock: free, game, reader
  current,       \* the framework's current test
  starter,       \* who started it: nobody, tool, window: the editor's
  entries,       \* its results so far
  reader,        \* a test.get_last_results: the test and the entries it read
  testJob        \* the job: names, how far, its report, and the request to cancel

runVars  == <<current, starter, entries>>
testVars == <<gameThread, lockedBy, runVars, reader, testJob>>

NoReader  == [at |-> "done", test |-> NoTest, entries |-> 0]
NoRunJob  == [names |-> <<>>, i |-> 1, cancel |-> FALSE, cancelled |-> FALSE,
              succeeded |-> {}, failed |-> {}, skipped |-> {}]

TestInit ==
  /\ gameThread = "idle"
  /\ lockedBy = "free"
  /\ current = NoTest
  /\ starter = "nobody"
  /\ entries = 0
  /\ reader = NoReader
  /\ testJob = NoRunJob

\* StartTestByName, which ends a test that is under way, and StopTest.
TestStarted(t, by) == current' = t /\ starter' = by /\ entries' = 0
TestEnded          == current' = NoTest /\ starter' = "nobody" /\ entries' = 0

------------------------------------------------------------------------------
(* Lane A.                                                                   *)

GameEnters == lockedBy = "free"

\* test.run_single_test waits for the lock and keeps it till the reply.  It
\* does not look whether the window's test is under way, and ends it.
RunSingle ==
  /\ gameThread = "idle" /\ GameEnters
  /\ gameThread' = "single" /\ lockedBy' = "game"
  /\ \E t \in Tests : TestStarted(t, "tool")
  /\ UNCHANGED <<reader, testJob>>

SingleEnded == TestEnded

\* The latent commands are done, or kTSTSingleTestMaxSeconds are over.
SingleEnds ==
  /\ gameThread = "single"
  /\ gameThread' = "idle" /\ lockedBy' = "free"
  /\ SingleEnded
  /\ UNCHANGED <<reader, testJob>>

\* test.cancel_current, under the lock.  The tools' own tests end before the
\* game thread comes to it, so it is the window's that it stops.
CancelCurrent ==
  /\ gameThread = "idle" /\ GameEnters
  /\ current # NoTest
  /\ TestEnded
  /\ UNCHANGED <<gameThread, lockedBy, reader, testJob>>

\* The editor's window runs a test over many frames, between handlers.
WindowRuns ==
  /\ gameThread = "idle" /\ current = NoTest
  /\ \E t \in Tests : TestStarted(t, "window")
  /\ UNCHANGED <<gameThread, lockedBy, reader, testJob>>

WindowEnds ==
  /\ gameThread = "idle" /\ starter = "window"
  /\ TestEnded
  /\ UNCHANGED <<gameThread, lockedBy, reader, testJob>>

\* A step of the current test: a tool's while the tool pumps, the window's
\* between handlers.
TestWorks ==
  /\ current # NoTest
  /\ starter = "window" => gameThread = "idle"
  /\ entries < EntryMax
  /\ entries' = entries + 1
  /\ UNCHANGED <<gameThread, lockedBy, current, starter, reader, testJob>>

------------------------------------------------------------------------------
(* The body of test.run_automation.                                          *)

\* test._run_automation_internal submits; the registry runs the body, with a
\* test of the window under way or without.
RunAutomation ==
  /\ gameThread = "idle"
  /\ testJob = NoRunJob
  /\ gameThread' = "batch"
  /\ \E names \in RunLists : testJob' = [NoRunJob EXCEPT !.names = names]
  /\ UNCHANGED <<lockedBy, runVars, reader>>

CancelRun ==
  /\ gameThread = "batch" /\ ~testJob.cancel
  /\ testJob' = [testJob EXCEPT !.cancel = TRUE]
  /\ UNCHANGED <<gameThread, lockedBy, runVars, reader>>

SkippedFrom(i) == i .. Len(testJob.names)

\* The head of the loop: a cancelled batch skips the rest, a name that was not
\* found fails at once, a test is started.
BatchTakesNext ==
  /\ gameThread = "batch" /\ starter # "tool" /\ ~testJob.cancelled
  /\ testJob.i <= Len(testJob.names)
  /\ IF testJob.cancel
     THEN /\ testJob' = [testJob EXCEPT !.cancelled = TRUE, !.skipped = SkippedFrom(testJob.i)]
          /\ UNCHANGED runVars
     ELSE IF testJob.names[testJob.i] \notin Tests
     THEN /\ testJob' = [testJob EXCEPT !.failed = @ \cup {testJob.i}, !.i = @ + 1]
          /\ UNCHANGED runVars
     ELSE TestStarted(testJob.names[testJob.i], "tool") /\ UNCHANGED testJob
  /\ UNCHANGED <<gameThread, lockedBy, reader>>

\* The latent commands are done, with errors or without, or the request to
\* cancel is seen first: the test has failed then and the rest is skipped.
BatchStopsTest ==
  /\ gameThread = "batch" /\ starter = "tool"
  /\ TestEnded
  /\ \/ testJob' = [testJob EXCEPT !.succeeded = @ \cup {testJob.i}, !.i = @ + 1]
     \/ testJob' = [testJob EXCEPT !.failed = @ \cup {testJob.i}, !.i = @ + 1]
     \/ /\ testJob.cancel
        /\ testJob' = [testJob EXCEPT !.failed = @ \cup {testJob.i}, !.i = @ + 1,
                       !.cancelled = TRUE, !.skipped = SkippedFrom(testJob.i + 1)]
  /\ UNCHANGED <<gameThread, lockedBy, reader>>

BatchOver == testJob.cancelled \/ testJob.i > Len(testJob.names)

BatchReplies ==
  /\ gameThread = "batch" /\ starter # "tool" /\ BatchOver
  /\ gameThread' = "idle"
  /\ testJob' = NoRunJob
  /\ UNCHANGED <<lockedBy, runVars, reader>>

------------------------------------------------------------------------------
(* Lane B.                                                                   *)

\* test.get_last_results: the current test, then its results.  The other
\* readers hold the lock the same way.
ReadResults ==
  /\ \/ /\ reader.at = "done" /\ lockedBy = "free"
        /\ lockedBy' = "reader"
        /\ reader' = [at |-> "info", test |-> current, entries |-> 0]
     \/ /\ reader.at = "info"
        /\ lockedBy' = "free"
        /\ reader' = [reader EXCEPT !.at = "done", !.entries = entries]
  /\ UNCHANGED <<gameThread, runVars, testJob>>

TestNext ==
  /\ \/ RunSingle \/ SingleEnds \/ CancelCurrent \/ WindowRuns \/ WindowEnds \/ TestWorks
     \/ RunAutomation \/ CancelRun \/ BatchTakesNext \/ BatchStopsTest \/ BatchReplies
     \/ ReadResults
  /\ Look

------------------------------------------------------------------------------
(* Properties.                                                               *)

\* No reader of lane B is inside the framework while run_single_test changes
\* the current test or its results (TestTools.cpp:32).
SingleExcludesReaders == ~(reader.at = "info" /\ gameThread = "single")

\* The report of test.run_automation names every requested test exactly once,
\* wherever the batch was cancelled and whatever test it found under way.
EveryTestReported ==
  gameThread = "batch" /\ BatchOver =>
    /\ testJob.succeeded \cup testJob.failed \cup testJob.skipped = DOMAIN testJob.names
    /\ Cardinality(testJob.succeeded) + Cardinality(testJob.failed) + Cardinality(testJob.skipped)
         = Len(testJob.names)

\* One test at a time, and every one accounted for.
TestsAccounted == SingleExcludesReaders /\ EveryTestReported
=============================================================================
