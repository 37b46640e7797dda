------------------------------ MODULE Captures -------------------------------
(* The captures of the profiler: insights.* keeps the time at which a trace  *)
(* started beside what the engine knows of it, stat.dump_to_file ends a      *)
(* capture by a ticker, and memreport.dump asks for a report that the engine *)
(* writes at a tick.  insights.get_status runs on lane B between the steps   *)
(* of a handler of lane A.                                                   *)
EXTENDS EditorSession, Integers, FiniteSets

CONSTANTS
  TraceMax,      \* bound: traces of a behaviour
  DumpFrames,    \* the lengths of stat captures asked for
  DumpCount,     \* bound: stat captures of a behaviour
  ReportMax      \* bound: reports of a behaviour

\* stat.dump_to_file clamps the frames it is asked for (StatTools.cpp:343).
ASSUME FramesAsked == DumpFrames \subseteq Nat \ {0}

VARIABLES
  trace,         \* the engine's: its number, and off, on or paused
  stamp,         \* the trace whose start GInsightsLocalState holds, 0 for none
  handler,       \* what lane A does next: "idle", "stamp", "clear"
  byUser,        \* a ghost: a trace was started or stopped by the console
  status,        \* an insights.get_status: how far, the path and the start it read
  capture,       \* the running stat capture, 0 for none; frames and overlap of each
  stopTickers,   \* <<capture, frames remaining>>
  reports        \* memory reports: asked for and not written, and files

captureVars == <<trace, stamp, handler, byUser, status, capture, stopTickers, reports>>
insights == <<trace, stamp, handler, byUser, status>>
others   == <<capture, stopTickers, reports>>

NoStatus == [at |-> "done", path |-> 0, start |-> 0]

CaptureInit ==
  /\ trace = [id |-> 0, state |-> "off"]
  /\ stamp = 0
  /\ handler = "idle"
  /\ byUser = FALSE
  /\ status = NoStatus
  /\ capture = [on |-> 0, made |-> <<>>]
  /\ stopTickers = {}
  /\ reports = [pending |-> 0, files |-> 0]

------------------------------------------------------------------------------
(* insights.                                                                 *)

\* FTraceAuxiliary::Start, which refuses while a trace is connected.
TraceStarts ==
  /\ handler = "idle"
  /\ trace.state = "off"
  /\ trace.id < TraceMax
  /\ trace' = [id |-> trace.id + 1, state |-> "on"]

TraceStops ==
  /\ handler = "idle"
  /\ trace.state # "off"
  /\ trace' = [trace EXCEPT !.state = "off"]

\* insights.start_capture stamps once the trace runs.
StartCapture ==
  /\ TraceStarts
  /\ handler' = "stamp"
  /\ UNCHANGED <<stamp, byUser, status>>

StampStart ==
  /\ handler = "stamp"
  /\ handler' = "idle"
  /\ stamp' = trace.id
  /\ UNCHANGED <<trace, byUser, status>>

\* insights.stop_capture clears once it is over.
StopCapture ==
  /\ TraceStops
  /\ handler' = "clear"
  /\ UNCHANGED <<stamp, byUser, status>>

\* Mutant: the stamp stays.
ClearedNot == stamp

Cleared == 0

ClearStamp ==
  /\ handler = "clear"
  /\ handler' = "idle"
  /\ stamp' = Cleared
  /\ UNCHANGED <<trace, byUser, status>>

\* insights.pause and insights.resume.
PauseTrace ==
  /\ handler = "idle"
  /\ trace.state # "off"
  /\ trace' = [trace EXCEPT !.state = "paused"]
  /\ UNCHANGED <<stamp, handler, byUser, status>>

ResumeTrace ==
  /\ handler = "idle"
  /\ trace.state = "paused"
  /\ trace' = [trace EXCEPT !.state = "on"]
  /\ UNCHANGED <<stamp, handler, byUser, status>>

\* insights.write_snapshot writes what the engine has buffered, running or not.
WriteSnapshot == handler = "idle" /\ UNCHANGED insights

\* Trace.File and Trace.Stop of the console do not know of the stamp.
UserTraces ==
  /\ TraceStarts \/ TraceStops
  /\ byUser' = TRUE
  /\ UNCHANGED <<stamp, handler, status>>

\* insights.get_status: is a trace connected, what is its destination, when did
\* it start; each is read on its own.
GetStatus ==
  /\ \/ status.at = "done" /\ trace.state # "off"
        /\ status' = [NoStatus EXCEPT !.at = "path"]
     \/ status.at = "path"
        /\ status' = [status EXCEPT !.at = "start", !.path = IF trace.state = "off" THEN 0 ELSE trace.id]
     \/ status.at = "start"
        /\ status' = [status EXCEPT !.at = "done", !.start = stamp]
  /\ UNCHANGED <<trace, stamp, handler, byUser>>

InsightsNext ==
  /\ \/ StartCapture \/ StampStart \/ StopCapture \/ ClearStamp
     \/ PauseTrace \/ ResumeTrace \/ WriteSnapshot \/ UserTraces \/ GetStatus
  /\ UNCHANGED others /\ Look

------------------------------------------------------------------------------
(* stat and memreport.                                                       *)

\* stat.dump_to_file: "stat startfile" ends the capture that is running, and a
\* ticker with no handle to the new one will end whatever runs then.
DumpToFile ==
  \E n \in DumpFrames :
    LET c == Cardinality(DOMAIN capture.made) + 1
        over == capture.on # 0 \/ stopTickers # {}
    IN  /\ c <= DumpCount
        /\ capture' = [on |-> c,
             made |-> [d \in 1 .. c |-> IF d = c THEN [asked |-> n, frames |-> 0, over |-> over]
                       ELSE [capture.made[d] EXCEPT !.over = @ \/ d = capture.on]]]
        /\ stopTickers' = stopTickers \cup {<<c, n>>}
        /\ UNCHANGED reports

\* FramesRemaining is counted down first.
Due(t) == t[2] <= 1

\* A frame, or editor.tick_once: the core ticker runs every ticker once, and
\* the deferred commands write the reports.
CoreTick ==
  /\ stopTickers # {} \/ reports.pending > 0
  /\ stopTickers' = {<<t[1], t[2] - 1>> : t \in {u \in stopTickers : ~Due(u)}}
  /\ capture' = [on   |-> IF \E t \in stopTickers : Due(t) THEN 0 ELSE capture.on,
                 made |-> [d \in DOMAIN capture.made |->
                             IF d = capture.on THEN [capture.made[d] EXCEPT !.frames = @ + 1] ELSE capture.made[d]]]
  /\ reports' = [pending |-> 0, files |-> reports.files + reports.pending]

\* memreport.dump: the command is deferred to a tick.  With mode "wait" the
\* handler then waits for a file on the thread whose tick would write it, and
\* refuses after its timeout.
MemReportDump ==
  /\ reports.files + reports.pending < ReportMax
  /\ reports' = [reports EXCEPT !.pending = @ + 1]
  /\ UNCHANGED <<capture, stopTickers>>

\* memreport.list_files.
ListFiles == reports.files

StatNext ==
  /\ DumpToFile \/ CoreTick \/ MemReportDump
  /\ UNCHANGED insights /\ Look

------------------------------------------------------------------------------
(* Properties.                                                               *)

\* insights.get_status never gives the start of an earlier trace than the one
\* whose path it gives, however its reads fall between the steps of
\* insights.start_capture and insights.stop_capture: what it reports as elapsed
\* has elapsed for that trace or a later one.  A trace that the console stops
\* keeps its stamp, which is why those are left out.
StatusNotOlder ==
  status.at = "done" /\ status.start # 0 => status.start >= status.path \/ byUser

\* No capture of stat.dump_to_file gets more frames than were asked for, although
\* the ticker that was to end it may find another one running; and one that no
\* other request overlapped has, when it has ended, just as many.
CaptureHasItsFrames ==
  \A d \in DOMAIN capture.made :
    LET c == capture.made[d] IN
      /\ c.frames <= c.asked
      /\ capture.on # d /\ ~c.over => c.frames = c.asked

\* What a capture or a status tells its client is what happened.
CapturesTrue == StatusNotOlder /\ CaptureHasItsFrames
=============================================================================
