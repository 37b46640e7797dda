----------------------------- MODULE LiveCoding ------------------------------
(* Recompiling C++ modules in the running editor: livecoding.recompile.  The *)
(* job's body keeps the game thread while it waits for the compiler, which   *)
(* is a process of its own, and reads the names of the patched modules from  *)
(* the log.                                                                  *)
EXTENDS EditorSession, Integers, Sequences

CONSTANTS
  CodeModules,   \* modules that a compile may patch
  CompileMax,    \* bound: compiles of a behaviour
  WaitMax        \* kLIVMaxRecompileWaitSecs, in rounds of the wait

VARIABLES
  compiler,      \* the compile that runs, 0 for none, and the number of compiles
  codeLog,       \* the lines of LogLiveCoding in the ring: <<compile, module>>
  recompile,     \* the job: idle, queued, waiting, or how it ended
  waited,        \* rounds of its wait
  patchComplete, \* its flag, set by the delegate of the patch
  patched        \* its answer

codingVars == <<compiler, codeLog, recompile, waited, patchComplete, patched>>

CodingInit ==
  /\ compiler = [on |-> 0, made |-> 0]
  /\ codeLog = {}
  /\ recompile = "idle"
  /\ waited = 0
  /\ patchComplete = FALSE
  /\ patched = {}

\* livecoding._recompile_internal submits the job.
RecompileInternal ==
  /\ recompile \notin {"queued", "waiting"}
  /\ recompile' = "queued"
  /\ UNCHANGED <<compiler, codeLog, waited, patchComplete, patched>>

\* The body looks for a play session again, subscribes to the delegate and asks
\* for a compile, which is rejected while another one runs.
RecompileBody ==
  /\ recompile = "queued"
  /\ IF ~pie /\ compiler.on = 0
     THEN /\ compiler.made < CompileMax
          /\ compiler' = [on |-> compiler.made + 1, made |-> compiler.made + 1]
          /\ recompile' = "waiting" /\ waited' = 0 /\ patchComplete' = FALSE
     ELSE recompile' = "failed" /\ UNCHANGED <<compiler, waited, patchComplete>>
  /\ UNCHANGED <<codeLog, patched>>

\* A line of the compile.
CompilerPatches ==
  /\ compiler.on # 0
  /\ \E m \in CodeModules : codeLog' = codeLog \cup {<<compiler.on, m>>}
  /\ UNCHANGED <<compiler, recompile, waited, patchComplete, patched>>

\* The compile is over; ILiveCodingModule::Tick on the game thread fires the
\* delegate if it patched.
CompilerEnds ==
  /\ compiler.on # 0
  /\ compiler' = [compiler EXCEPT !.on = 0]
  /\ patchComplete' \in {patchComplete, recompile = "waiting"}
  /\ UNCHANGED <<codeLog, recompile, waited, patched>>

Waits == compiler.on # 0 \/ ~patchComplete

\* The scrape reads the whole ring: the modules of earlier compiles too.
Scraped == {line[2] : line \in codeLog}

\* A round of the wait: the request to cancel, the limit, a Tick, a sleep.  A
\* cancelled job leaves the compile running.
WaitRound ==
  /\ recompile = "waiting" /\ Waits
  /\ \/ recompile' = "cancelled" /\ UNCHANGED <<waited, patched>>
     \/ /\ waited >= WaitMax
        /\ recompile' = "timed_out" /\ patched' = Scraped
        /\ UNCHANGED waited
     \/ /\ waited < WaitMax
        /\ waited' = waited + 1
        /\ UNCHANGED <<recompile, patched>>
  /\ UNCHANGED <<compiler, codeLog, patchComplete>>

WaitEnds ==
  /\ recompile = "waiting" /\ ~Waits
  /\ recompile' = "done" /\ patched' = Scraped
  /\ UNCHANGED <<compiler, codeLog, waited, patchComplete>>

CodingNext ==
  /\ \/ RecompileInternal \/ RecompileBody \/ CompilerPatches \/ CompilerEnds
     \/ WaitRound \/ WaitEnds
  /\ Look
=============================================================================
