---------------------------- MODULE JobRegistry ----------------------------
(***************************************************************************)
(* FMCPJobRegistry: the asynchronous job tracker of the bridge and the     *)
(* threads that meet in it.                                                *)
(*                                                                         *)
(*   - the game thread GT runs Lane A handlers (job.submit, job.cancel),   *)
(*     the FTSTicker callbacks (bodies of jobs that require the game       *)
(*     thread, the TTL sweep) and ShutdownModule;                          *)
(*   - the listener threads run Lane B handlers: the *_internal submitters *)
(*     and job.status / job.result;                                        *)
(*   - the pool workers run FMCPJobWork::DoThreadedWork.                   *)
(*                                                                         *)
(* JobsLock is the variable jobsLock; a critical section that touches the  *)
(* map only is one step.  Workers write the fields of FMCPJob WITHOUT that *)
(* lock, one field per step, so a reader of GetStatus sees them one by     *)
(* one; ErrorMessage is an FString, so even one assignment to it takes     *)
(* two steps.  Time is a counter that starts at 1, because the code uses 0 *)
(* for "not stamped"; MaxTime and the finite set Jobs bound the model.     *)
(***************************************************************************)
EXTENDS Integers, Sequences, FiniteSets

CONSTANTS
  Jobs,        \* the job ids FGuid::NewGuid may hand out
  Workers,     \* the threads of MCPJobPool
  Listeners,   \* the connection threads that run Lane B handlers
  GT,          \* the game thread
  Nobody,      \* no thread, no job
  GtModes,     \* values of bGameThreadRequired the submitters use
  Outcomes,    \* what a body may do, a subset of AllOutcomes
  PoolCreates, \* what FQueuedThreadPool::Create may return
  Ttl,         \* kTtlSeconds
  Waits,       \* values of wait_timeout_s job.result is called with
  MaxTime      \* bound on the clock

(* What a body may do: return a value, return null (with or without an     *)
(* ErrorMessage), or poll bCancelRequested and bail out, either silently   *)
(* (MakePythonToolJobBody) or with an ErrorMessage (the asset composites   *)
(* and cook.start).                                                        *)
AllOutcomes == {"value", "null", "error", "bail", "bailError"}
Bails  == {"bail", "bailError"}
Errors == {"error", "bailError"}

ASSUME ConstantsAssumption ==
  /\ GT \notin Listeners
  /\ Nobody \notin Jobs \cup Listeners \cup {GT}
  /\ GtModes \subseteq BOOLEAN
  /\ Outcomes \subseteq AllOutcomes
  /\ PoolCreates \subseteq BOOLEAN
  /\ Ttl \in Nat
  /\ Waits \subseteq Nat
  /\ MaxTime \in Nat \ {0}

VARIABLES
  tracked,     \* keys of the Jobs map
  state,       \* FMCPJob::State, "New" before SubmitJob creates the job
  cancelReq,   \* FMCPJob::bCancelRequested
  gtReq,       \* FMCPJob::bGameThreadRequired
  errMsg,      \* FMCPJob::ErrorMessage
  writing,     \* the jobs whose ErrorMessage is half written
  result,      \* FMCPJob::Result is set
  finishedAt,  \* FMCPJob::FinishedAt, 0 when not stamped
  returned,    \* what the body handed back (the promise, for a ticker body)
  pool,        \* Pool: "null", "ok", or "dead" when Create failed
  poolsMade,   \* how many pools were ever allocated
  initialised, \* bInitialised
  shutdown,    \* bShutdown
  serverUp,    \* the listener accepts and its connection threads read
  workQueue,   \* the work items the pool has not handed out
  ticker,      \* one-shot FTSTicker callbacks, each the body of a job
  wpc, wjob,   \* worker: next step, and the job of its work item
  tpc, tjob,   \* game thread and listeners: next step, and the job in hand
  jobsLock,    \* holder of JobsLock between steps
  snap,        \* FStatusSnapshot of the last GetStatus of a thread
  waitUntil,   \* Deadline of the job.result a thread is in
  reply,       \* answer of the thread's last job.* request
  now          \* FPlatformTime::Seconds()

errVars    == <<errMsg, writing>>
jobVars    == <<state, cancelReq, gtReq, errVars, result, finishedAt, returned>>
poolVars   == <<pool, poolsMade, initialised, shutdown, serverUp>>
workerVars == <<wpc, wjob>>
askVars    == <<snap, waitUntil, reply>>
threadVars == <<tpc, tjob, jobsLock, askVars>>

\* What most steps of a thread, of a worker and of the game thread leave alone.
registry == <<tracked, jobVars, poolVars>>
machine  == <<workQueue, ticker, workerVars, now>>
notMine  == <<tracked, cancelReq, gtReq, poolVars, workQueue, ticker, threadVars, now>>
vars == <<registry, machine, threadVars>>

Threads == Listeners \cup {GT}
TerminalStates == {"Succeeded", "Failed", "Cancelled"}
States == {"New", "Pending", "Running"} \cup TerminalStates
Messages == {"none", "body", "cancelled", "nullBody", "abandoned",
             "unavailable"}
Returns == {"unset", "value", "null"}
WorkerSteps == {"idle", "loadCancel", "storeCancelled", "stampCancelled",
                "storeRunning", "enterBody", "inBody", "gtWait", "writeError",
                "returned", "settle", "fillError", "publishOk", "publishFail"}
SubmitSteps == {"ensureInit", "initLocked", "checkShutdown", "addJob", "enqueue"}
ReadSteps   == {"readState", "readRest", "getResult"}
GtSteps     == {"gtWriteError", "joinConns", "beginShutdown", "dropJobs",
                "destroyPool", "awaitWorkers", "down"}
Replies == {"none", "refused", "jobId", "notFound", "pending", "ok",
            "okNoResult", "failed", "cancelled", "accepted", "rejected"}
Snapshots == [state : States, error : Messages, torn : BOOLEAN, finishedAt : Nat]

Terminal(j) == state[j] \in TerminalStates

Init ==
  /\ tracked = {}
  /\ state = [j \in Jobs |-> "New"]
  /\ cancelReq = [j \in Jobs |-> FALSE]
  /\ gtReq = [j \in Jobs |-> FALSE]
  /\ errMsg = [j \in Jobs |-> "none"]
  /\ writing = {}
  /\ result = [j \in Jobs |-> FALSE]
  /\ finishedAt = [j \in Jobs |-> 0]
  /\ returned = [j \in Jobs |-> "unset"]
  /\ pool = "null" /\ poolsMade = 0
  /\ initialised = FALSE /\ shutdown = FALSE /\ serverUp = TRUE
  /\ workQueue = <<>> /\ ticker = <<>>
  /\ wpc = [w \in Workers |-> "idle"]
  /\ wjob = [w \in Workers |-> Nobody]
  /\ tpc = [t \in Threads |-> "idle"]
  /\ tjob = [t \in Threads |-> Nobody]
  /\ jobsLock = Nobody
  /\ snap = [t \in Threads |-> [state |-> "New", error |-> "none", torn |-> FALSE,
                                finishedAt |-> 0]]
  /\ waitUntil = [t \in Threads |-> 0]
  /\ reply = [t \in Threads |-> "none"]
  /\ now = 1

------------------------------------------------------------------------------
(* SubmitJob, step by step: the double-checked EnsureInitialized, the      *)
(* shutdown check, the insertion under JobsLock and AddQueuedWork.         *)

Goto(t, step) == tpc' = [tpc EXCEPT ![t] = step]

Answer(t, r) ==
  /\ tpc' = [tpc EXCEPT ![t] = "idle"]
  /\ tjob' = [tjob EXCEPT ![t] = Nobody]
  /\ reply' = [reply EXCEPT ![t] = r]

\* Connection threads take no new request once bStopRequested is set.
MayBegin(t) == tpc[t] = "idle" /\ (t # GT => serverUp)

\* The id of the job to come is reserved here, so that Jobs bounds the
\* submissions and never stops one half way.
BeginSubmit(t) ==
  /\ MayBegin(t)
  /\ \E j \in Jobs :
       /\ state[j] = "New" /\ \A u \in Threads : tjob[u] # j
       /\ tjob' = [tjob EXCEPT ![t] = j]
  /\ Goto(t, "ensureInit")
  /\ UNCHANGED <<registry, machine, askVars, jobsLock>>

EnsureInitFast(t) ==
  /\ tpc[t] = "ensureInit"
  /\ Goto(t, IF initialised THEN "checkShutdown" ELSE "initLocked")
  /\ UNCHANGED <<registry, machine, askVars, tjob, jobsLock>>

\* Mutant: the second check of bInitialised is missing.
MustInitUnchecked == ~shutdown

MustInit == ~initialised /\ ~shutdown

AllocatePool ==
  /\ \E created \in PoolCreates : pool' = IF created THEN "ok" ELSE "dead"
  /\ poolsMade' = poolsMade + 1
  /\ initialised' = TRUE

EnsureInitLocked(t) ==
  /\ tpc[t] = "initLocked"
  /\ jobsLock = Nobody
  /\ Goto(t, "checkShutdown")
  /\ IF MustInit THEN AllocatePool ELSE UNCHANGED <<pool, poolsMade, initialised>>
  /\ UNCHANGED <<machine, jobVars, askVars, tracked, shutdown, serverUp, tjob,
                 jobsLock>>

CheckShutdown(t) ==
  /\ tpc[t] = "checkShutdown"
  /\ IF shutdown
     THEN Answer(t, "refused")
     ELSE Goto(t, "addJob") /\ UNCHANGED <<tjob, reply>>
  /\ UNCHANGED <<registry, machine, jobsLock, snap, waitUntil>>

AddJob(t) ==
  /\ tpc[t] = "addJob"
  /\ jobsLock = Nobody
  /\ state' = [state EXCEPT ![tjob[t]] = "Pending"]
  /\ \E g \in GtModes : gtReq' = [gtReq EXCEPT ![tjob[t]] = g]
  /\ tracked' = tracked \cup {tjob[t]}
  /\ Goto(t, "enqueue")
  /\ UNCHANGED <<machine, poolVars, askVars, errVars, cancelReq, result,
                 finishedAt, returned, tjob, jobsLock>>

\* Without a pool the work item is abandoned, which writes Cancelled first and
\* without the lock, and the job fails.  No schedule comes to that branch (see
\* PoolOutlivesWork), so its writes are one step.
Enqueue(t) ==
  /\ tpc[t] = "enqueue"
  /\ LET j == tjob[t] IN
       IF pool # "null"
       THEN /\ workQueue' = Append(workQueue, j)
            /\ UNCHANGED <<state, errMsg, finishedAt>>
       ELSE /\ jobsLock = Nobody
            /\ state' = [state EXCEPT ![j] = "Failed"]
            /\ errMsg' = [errMsg EXCEPT ![j] = "unavailable"]
            /\ finishedAt' = [finishedAt EXCEPT ![j] = now]
            /\ UNCHANGED workQueue
  /\ Answer(t, "jobId")
  /\ UNCHANGED <<poolVars, workerVars, tracked, cancelReq, gtReq, writing,
                 result, returned, ticker, jobsLock, snap, waitUntil, now>>

Submit(t) ==
  \/ BeginSubmit(t) \/ EnsureInitFast(t) \/ EnsureInitLocked(t)
  \/ CheckShutdown(t) \/ AddJob(t) \/ Enqueue(t)

------------------------------------------------------------------------------
(* job.result (job.status is its first two steps): GetStatus under         *)
(* JobsLock reads State first and the other fields after it, again and     *)
(* again until the state is terminal or the deadline has passed; GetResult *)
(* takes the lock once more.                                               *)

Earliest(a, b) == IF a < b THEN a ELSE b

BeginResult(t) ==
  /\ MayBegin(t) /\ t # GT
  /\ \E j \in {k \in Jobs : state[k] # "New"} : tjob' = [tjob EXCEPT ![t] = j]
  /\ \E w \in Waits :
       waitUntil' = [waitUntil EXCEPT ![t] = Earliest(now + w, MaxTime)]
  /\ Goto(t, "readState")
  /\ UNCHANGED <<registry, machine, jobsLock, snap, reply>>

ReadState(t) ==
  /\ tpc[t] = "readState"
  /\ jobsLock = Nobody
  /\ IF tjob[t] \in tracked
     THEN /\ jobsLock' = t
          /\ snap' = [snap EXCEPT ![t].state = state[tjob[t]]]
          /\ Goto(t, "readRest")
          /\ UNCHANGED <<tjob, reply>>
     ELSE Answer(t, "notFound") /\ UNCHANGED <<jobsLock, snap>>
  /\ UNCHANGED <<registry, machine, waitUntil>>

\* The reply a snapshot leads to once the wait is over.
ReplyFor(s) == CASE s = "Failed"    -> "failed"
                 [] s = "Cancelled" -> "cancelled"
                 [] OTHER           -> "pending"

ReadRest(t) ==
  /\ tpc[t] = "readRest"
  /\ jobsLock' = Nobody
  /\ snap' = [snap EXCEPT ![t].error = errMsg[tjob[t]],
                          ![t].torn = tjob[t] \in writing,
                          ![t].finishedAt = finishedAt[tjob[t]]]
  /\ IF snap[t].state = "Succeeded"
     THEN Goto(t, "getResult") /\ UNCHANGED <<tjob, reply>>
     ELSE IF snap[t].state \in TerminalStates \/ now >= waitUntil[t]
     THEN Answer(t, ReplyFor(snap[t].state))
     ELSE Goto(t, "readState") /\ UNCHANGED <<tjob, reply>>
  /\ UNCHANGED <<registry, machine, waitUntil>>

GetResult(t) ==
  /\ tpc[t] = "getResult"
  /\ jobsLock = Nobody
  /\ LET j == tjob[t] IN
       Answer(t, IF j \in tracked /\ state[j] = "Succeeded" /\ result[j]
                 THEN "ok" ELSE "okNoResult")
  /\ UNCHANGED <<registry, machine, jobsLock, snap, waitUntil>>

Query(t) == BeginResult(t) \/ ReadState(t) \/ ReadRest(t) \/ GetResult(t)

------------------------------------------------------------------------------
(* Bodies, on a worker or on the game thread.                              *)

\* What a body of j may do now: it bails out only on a cancel it has seen.
MayEnd(j, o) == o \in Outcomes /\ (o \in Bails => cancelReq[j])

BodyReturns(j) ==
  \E o \in AllOutcomes \ Errors :
    /\ MayEnd(j, o)
    /\ returned' = [returned EXCEPT ![j] = IF o = "value" THEN "value" ELSE "null"]

BodyBeginsError(j) ==
  /\ \E o \in Errors :
       /\ MayEnd(j, o)
       /\ errMsg' = [errMsg EXCEPT ![j] = IF o = "error" THEN "body" ELSE "cancelled"]
  /\ writing' = writing \cup {j}

\* Mutant: a failing body leaves the promise unset.
BodyEndsUnfulfilled(j) == writing' = writing \ {j} /\ UNCHANGED returned

BodyEndsError(j) ==
  /\ writing' = writing \ {j}
  /\ returned' = [returned EXCEPT ![j] = "null"]

------------------------------------------------------------------------------
(* ExecuteJobOnWorker.                                                     *)

WGoto(w, step) == wpc' = [wpc EXCEPT ![w] = step]

WDone(w) ==
  /\ wpc' = [wpc EXCEPT ![w] = "idle"]
  /\ wjob' = [wjob EXCEPT ![w] = Nobody]

Dequeue(w) ==
  /\ wpc[w] = "idle" /\ pool = "ok" /\ workQueue # <<>>
  /\ wjob' = [wjob EXCEPT ![w] = Head(workQueue)]
  /\ workQueue' = Tail(workQueue)
  /\ WGoto(w, "loadCancel")
  /\ UNCHANGED <<registry, threadVars, ticker, now>>

LoadCancel(w) ==
  /\ wpc[w] = "loadCancel"
  /\ WGoto(w, IF cancelReq[wjob[w]] THEN "storeCancelled" ELSE "storeRunning")
  /\ UNCHANGED <<registry, threadVars, workQueue, ticker, wjob, now>>

SetState(j, s) == state' = [state EXCEPT ![j] = s]

\* Mutant: an elapsed time in place of a stamp.
StampElapsed(j) == finishedAt' = [finishedAt EXCEPT ![j] = @ - now]

Stamp(j) == finishedAt' = [finishedAt EXCEPT ![j] = now]

\* Cancelled is published first and FinishedAt stamped after it.
StoreCancelled(w) ==
  /\ wpc[w] = "storeCancelled"
  /\ SetState(wjob[w], "Cancelled")
  /\ WGoto(w, "stampCancelled")
  /\ UNCHANGED <<notMine, errVars, result, finishedAt, returned, wjob>>

StampCancelled(w) ==
  /\ wpc[w] = "stampCancelled"
  /\ Stamp(wjob[w])
  /\ WDone(w)
  /\ UNCHANGED <<notMine, errVars, state, result, returned>>

StoreRunning(w) ==
  /\ wpc[w] = "storeRunning"
  /\ SetState(wjob[w], "Running")
  /\ WGoto(w, "enterBody")
  /\ UNCHANGED <<notMine, errVars, result, finishedAt, returned, wjob>>

NeedsGameThread(j) == gtReq[j]

\* A game-thread body becomes a one-shot ticker and the worker blocks.
EnterBody(w) ==
  /\ wpc[w] = "enterBody"
  /\ IF NeedsGameThread(wjob[w])
     THEN ticker' = Append(ticker, wjob[w]) /\ WGoto(w, "gtWait")
     ELSE UNCHANGED ticker /\ WGoto(w, "inBody")
  /\ UNCHANGED <<registry, threadVars, workQueue, wjob, now>>

RunBody(w) ==
  /\ wpc[w] = "inBody"
  /\ \/ BodyReturns(wjob[w]) /\ WGoto(w, "returned") /\ UNCHANGED <<errMsg, writing>>
     \/ BodyBeginsError(wjob[w]) /\ WGoto(w, "writeError") /\ UNCHANGED returned
  /\ UNCHANGED <<notMine, state, result, finishedAt, wjob>>

WriteError(w) ==
  /\ wpc[w] = "writeError"
  /\ BodyEndsError(wjob[w])
  /\ WGoto(w, "returned")
  /\ UNCHANGED <<notMine, state, errMsg, result, finishedAt, wjob>>

FutureReady(j) == returned[j] # "unset"

FutureGet(w) ==
  /\ wpc[w] = "gtWait" /\ FutureReady(wjob[w])
  /\ WGoto(w, "returned")
  /\ UNCHANGED <<registry, threadVars, workQueue, ticker, wjob, now>>

StampFinished(w) ==
  /\ wpc[w] = "returned"
  /\ Stamp(wjob[w])
  /\ WGoto(w, "settle")
  /\ UNCHANGED <<notMine, errVars, state, result, returned, wjob>>

\* The terminal-state decision; each branch ends in the release store of
\* State that makes the fields written before it visible.

\* Mutant: the result is not stored.
StoreResultNot(j) == UNCHANGED result

StoreResult(j) == result' = [result EXCEPT ![j] = TRUE]

SettleValue(w) ==
  /\ wpc[w] = "settle" /\ returned[wjob[w]] = "value"
  /\ StoreResult(wjob[w])
  /\ WGoto(w, "publishOk")
  /\ UNCHANGED <<notMine, errVars, state, finishedAt, returned, wjob>>

SettleCancelled(w) ==
  /\ wpc[w] = "settle" /\ returned[wjob[w]] = "null"
  /\ cancelReq[wjob[w]] /\ errMsg[wjob[w]] = "none"
  /\ SetState(wjob[w], "Cancelled")
  /\ WDone(w)
  /\ UNCHANGED <<notMine, errVars, result, finishedAt, returned>>

SettleError(w) ==
  /\ wpc[w] = "settle" /\ returned[wjob[w]] = "null"
  /\ errMsg[wjob[w]] # "none"
  /\ SetState(wjob[w], "Failed")
  /\ WDone(w)
  /\ UNCHANGED <<notMine, errVars, result, finishedAt, returned>>

BeginFill(j) ==
  /\ errMsg' = [errMsg EXCEPT ![j] = "nullBody"]
  /\ writing' = writing \cup {j}

\* Mutant: Failed is published before the message is filled in.
FillAfterPublish(j) == BeginFill(j) /\ SetState(j, "Failed")

FillBeforePublish(j) == BeginFill(j) /\ UNCHANGED state

SettleNull(w) ==
  /\ wpc[w] = "settle" /\ returned[wjob[w]] = "null"
  /\ ~cancelReq[wjob[w]] /\ errMsg[wjob[w]] = "none"
  /\ FillBeforePublish(wjob[w])
  /\ WGoto(w, "fillError")
  /\ UNCHANGED <<notMine, result, finishedAt, returned, wjob>>

FillError(w) ==
  /\ wpc[w] = "fillError"
  /\ writing' = writing \ {wjob[w]}
  /\ WGoto(w, "publishFail")
  /\ UNCHANGED <<notMine, state, errMsg, result, finishedAt, returned, wjob>>

Publish(w) ==
  /\ \/ wpc[w] = "publishOk" /\ SetState(wjob[w], "Succeeded")
     \/ wpc[w] = "publishFail" /\ SetState(wjob[w], "Failed")
  /\ WDone(w)
  /\ UNCHANGED <<notMine, errVars, result, finishedAt, returned>>

Work(w) ==
  \/ Dequeue(w) \/ LoadCancel(w) \/ StoreCancelled(w) \/ StampCancelled(w)
  \/ StoreRunning(w) \/ EnterBody(w) \/ RunBody(w) \/ WriteError(w)
  \/ FutureGet(w) \/ StampFinished(w) \/ SettleValue(w) \/ SettleCancelled(w)
  \/ SettleError(w) \/ SettleNull(w) \/ FillError(w) \/ Publish(w)

------------------------------------------------------------------------------
(* The game thread: job bodies and the TTL sweep in FTSTicker, job.cancel  *)
(* in Drain, and ShutdownModule.                                           *)

RunTicker ==
  LET j == Head(ticker) IN
  /\ tpc[GT] = "idle" /\ ticker # <<>>
  /\ ticker' = Tail(ticker)
  /\ \/ BodyReturns(j) /\ UNCHANGED <<errMsg, writing, tpc, tjob>>
     \/ /\ BodyBeginsError(j)
        /\ Goto(GT, "gtWriteError")
        /\ tjob' = [tjob EXCEPT ![GT] = j]
        /\ UNCHANGED returned
  /\ UNCHANGED <<poolVars, workerVars, askVars, tracked, state, cancelReq,
                 gtReq, result, finishedAt, workQueue, jobsLock, now>>

TickerWritesError ==
  /\ tpc[GT] = "gtWriteError"
  /\ BodyEndsError(tjob[GT])
  /\ Goto(GT, "idle")
  /\ tjob' = [tjob EXCEPT ![GT] = Nobody]
  /\ UNCHANGED <<machine, poolVars, askVars, tracked, state, cancelReq, gtReq,
                 errMsg, result, finishedAt, jobsLock>>

\* Mutant: a terminal job can be cancelled.
CancellableLate(j) == j \in tracked

Cancellable(j) == j \in tracked /\ ~Terminal(j)

RequestCancel ==
  /\ tpc[GT] = "idle" /\ serverUp /\ jobsLock = Nobody
  /\ \E j \in Jobs :
       /\ state[j] # "New"
       /\ IF Cancellable(j)
          THEN /\ cancelReq' = [cancelReq EXCEPT ![j] = TRUE]
               /\ reply' = [reply EXCEPT ![GT] = "accepted"]
          ELSE /\ reply' = [reply EXCEPT ![GT] = "rejected"]
               /\ UNCHANGED cancelReq
  /\ UNCHANGED <<machine, poolVars, errVars, tracked, state, gtReq, result,
                 finishedAt, returned, tpc, tjob, jobsLock, snap, waitUntil>>

\* Mutant: the sweep looks at FinishedAt only.
ExpiredActive(j) == j \in tracked /\ finishedAt[j] > 0 /\ now > finishedAt[j] + Ttl

Expired(j) ==
  /\ j \in tracked /\ Terminal(j)
  /\ finishedAt[j] > 0 /\ now > finishedAt[j] + Ttl

TickTtlCleanup ==
  /\ tpc[GT] = "idle" /\ initialised /\ jobsLock = Nobody
  /\ \E j \in Jobs : Expired(j)
  /\ tracked' = {j \in tracked : ~Expired(j)}
  /\ UNCHANGED <<machine, jobVars, threadVars, poolVars>>

\* ShutdownModule: FMCPServer::Stop joins every connection thread first.
StopServer ==
  /\ tpc[GT] = "idle" /\ serverUp
  /\ serverUp' = FALSE
  /\ Goto(GT, "joinConns")
  /\ UNCHANGED <<machine, jobVars, askVars, tracked, pool, poolsMade,
                 initialised, shutdown, tjob, jobsLock>>

\* Mutant: the connection threads are not joined.
ConnectionsIgnored == TRUE

ConnectionsDone == \A t \in Listeners : tpc[t] = "idle"

JoinConnections ==
  /\ tpc[GT] = "joinConns" /\ ConnectionsDone
  /\ Goto(GT, "beginShutdown")
  /\ UNCHANGED <<registry, machine, askVars, tjob, jobsLock>>

BeginShutdown ==
  /\ tpc[GT] = "beginShutdown"
  /\ shutdown' = TRUE
  /\ Goto(GT, "dropJobs")
  /\ UNCHANGED <<machine, jobVars, askVars, tracked, pool, poolsMade,
                 initialised, serverUp, tjob, jobsLock>>

CancelAll == cancelReq' = [j \in Jobs |-> cancelReq[j] \/ j \in tracked]

DropJobs ==
  /\ tpc[GT] = "dropJobs" /\ jobsLock = Nobody
  /\ CancelAll
  /\ tracked' = {}
  /\ Goto(GT, IF pool = "null" THEN "down" ELSE "destroyPool")
  /\ UNCHANGED <<machine, poolVars, askVars, errVars, state, gtReq, result,
                 finishedAt, returned, tjob, jobsLock>>

Queued(j) == \E i \in 1..Len(workQueue) : workQueue[i] = j

\* Mutant: Abandon leaves the state alone.
AbandonedStateKept == UNCHANGED state

AbandonedState == state' = [j \in Jobs |-> IF Queued(j) THEN "Cancelled" ELSE state[j]]

\* FQueuedThreadPool::Destroy abandons what is queued ...
AbandonQueue ==
  /\ tpc[GT] = "destroyPool"
  /\ AbandonedState
  /\ finishedAt' = [j \in Jobs |-> IF Queued(j) THEN now ELSE finishedAt[j]]
  /\ errMsg' = [j \in Jobs |-> IF Queued(j) THEN "abandoned" ELSE errMsg[j]]
  /\ workQueue' = <<>>
  /\ Goto(GT, "awaitWorkers")
  /\ UNCHANGED <<poolVars, workerVars, askVars, tracked, cancelReq, gtReq,
                 writing, result, returned, ticker, tjob, jobsLock, now>>

\* ... and then waits, on the game thread, for every worker to come home.
DestroyPool ==
  /\ tpc[GT] = "awaitWorkers"
  /\ \A w \in Workers : wpc[w] = "idle"
  /\ pool' = "null" /\ initialised' = FALSE
  /\ Goto(GT, "down")
  /\ UNCHANGED <<machine, jobVars, askVars, tracked, poolsMade, shutdown,
                 serverUp, tjob, jobsLock>>

Shutdown == JoinConnections \/ BeginShutdown \/ DropJobs \/ AbandonQueue \/ DestroyPool

Tick ==
  /\ now < MaxTime
  /\ now' = now + 1
  /\ UNCHANGED <<registry, threadVars, workerVars, workQueue, ticker>>

------------------------------------------------------------------------------
Next ==
  \/ \E t \in Threads : Submit(t) \/ Query(t)
  \/ \E w \in Workers : Work(w)
  \/ RunTicker \/ TickerWritesError \/ RequestCancel \/ TickTtlCleanup
  \/ StopServer \/ Shutdown \/ Tick

(* Every thread is scheduled, a contended JobsLock is granted in the end,  *)
(* a body ends, the engine loop gets back to its ticker, and time passes.  *)
(* Nobody has to send a request, and nobody has to unload the module.      *)
Fairness ==
  /\ \A w \in Workers : WF_vars(Work(w))
  /\ \A t \in Threads :
       /\ WF_vars(EnsureInitFast(t) \/ CheckShutdown(t) \/ ReadRest(t))
       /\ SF_vars(EnsureInitLocked(t) \/ AddJob(t) \/ Enqueue(t))
       /\ SF_vars(ReadState(t) \/ GetResult(t))
  /\ SF_vars(RunTicker) /\ WF_vars(TickerWritesError)
  /\ WF_vars(Shutdown) /\ WF_vars(Tick)

Spec == Init /\ [][Next]_vars /\ Fairness

------------------------------------------------------------------------------
(* What the registry promises.                                             *)

JobTypes ==
  /\ tracked \subseteq Jobs
  /\ state \in [Jobs -> States]
  /\ cancelReq \in [Jobs -> BOOLEAN]
  /\ gtReq \in [Jobs -> BOOLEAN]
  /\ errMsg \in [Jobs -> Messages]
  /\ writing \subseteq Jobs
  /\ result \in [Jobs -> BOOLEAN]
  /\ finishedAt \in [Jobs -> Nat]
  /\ returned \in [Jobs -> Returns]

PoolTypes ==
  /\ pool \in {"null", "ok", "dead"} /\ poolsMade \in Nat
  /\ initialised \in BOOLEAN /\ shutdown \in BOOLEAN /\ serverUp \in BOOLEAN

QueueTypes ==
  /\ workQueue \in Seq(Jobs) /\ ticker \in Seq(Jobs)
  /\ now \in Nat \ {0}

\* A worker has a job exactly when it is busy.
WorkerTypes ==
  /\ wpc \in [Workers -> WorkerSteps]
  /\ wjob \in [Workers -> Jobs \cup {Nobody}]
  /\ \A w \in Workers : wpc[w] = "idle" <=> wjob[w] = Nobody

\* A thread has a job in hand when its step needs one; only the game thread
\* runs tickers and unloads the module, and it never asks for a result.
ThreadTypes ==
  /\ tpc \in [Threads -> {"idle"} \cup SubmitSteps \cup ReadSteps \cup GtSteps]
  /\ tjob \in [Threads -> Jobs \cup {Nobody}]
  /\ jobsLock \in Threads \cup {Nobody}
  /\ \A t \in Threads :
       /\ tpc[t] \in SubmitSteps \cup ReadSteps \cup {"gtWriteError"} => tjob[t] \in Jobs
       /\ tpc[t] \in GtSteps => t = GT
       /\ tpc[t] \in ReadSteps => t # GT

AskTypes ==
  /\ snap \in [Threads -> Snapshots]
  /\ waitUntil \in [Threads -> Nat]
  /\ reply \in [Threads -> Replies]

\* Type correctness: every field, program counter and lock holder of the
\* registry stays in its range, and whoever is about to write the fields of a
\* job has one in hand.
TypeOK ==
  JobTypes /\ PoolTypes /\ QueueTypes /\ WorkerTypes /\ ThreadTypes /\ AskTypes

Active(j) == state[j] \in {"Pending", "Running"}
Enqueuer(t, j) == tpc[t] = "enqueue" /\ tjob[t] = j

\* A job is in one place at a time: an active job is held by its submitter,
\* by the queue or by one worker, and a job nobody needs any more by none,
\* so that no body runs twice and no accepted job is lost between SubmitJob,
\* the pool and Pool->Destroy.
JobHeldOnce ==
  \A j \in Jobs :
    LET holders == {<<"thread", t>> : t \in {u \in Threads : Enqueuer(u, j)}}
                   \cup {<<"queue", i>> : i \in {k \in 1..Len(workQueue) : workQueue[k] = j}}
                   \cup {<<"worker", w>> : w \in {v \in Workers : wjob[v] = j}}
    IN  /\ Active(j) => Cardinality(holders) = 1
        /\ ~Active(j) => \A h \in holders : h[1] = "worker" /\ wpc[h[2]] = "stampCancelled"

\* A game-thread body is in the ticker only while its worker is blocked on
\* the future of that very job: the lambda never outlives its FMCPJobWork.
TickerBodyAwaited ==
  \A i \in 1..Len(ticker) :
    /\ \E w \in Workers : wjob[w] = ticker[i] /\ wpc[w] = "gtWait"
    /\ returned[ticker[i]] = "unset"
    /\ \A k \in 1..Len(ticker) : ticker[k] = ticker[i] => k = i

\* What a client is told of a settled job is settled: a snapshot that says
\* Failed carries the whole message, one that says Succeeded or Failed
\* carries the finish time, although the worker writes these fields without
\* JobsLock while GetStatus reads them under it.
SnapshotConsistent ==
  \A t \in Listeners :
    tpc[t] # "readRest" =>
      /\ snap[t].state = "Failed" => snap[t].error # "none"
      /\ snap[t].state \in TerminalStates => ~snap[t].torn
      /\ snap[t].state \in {"Succeeded", "Failed"} => snap[t].finishedAt > 0

\* Cancelled is an answer to a request: no job ends Cancelled, on a worker or
\* by Abandon, that RequestCancel or Shutdown did not flag before.
CancelledOnlyIfAsked == \A j \in Jobs : state[j] = "Cancelled" => cancelReq[j]

\* What a client is told of a job that has ended is true and complete.
StatusTrue == SnapshotConsistent /\ CancelledOnlyIfAsked

\* SubmitJob uses the raw pointer Pool after its shutdown check: the pool is
\* there whenever a submitter gets to AddQueuedWork, and as long as a work
\* item or a busy worker is.
PoolOutlivesWork ==
  /\ \A t \in Threads : tpc[t] \in {"addJob", "enqueue"} => pool # "null"
  /\ workQueue # <<>> => pool # "null"
  /\ \A w \in Workers : wpc[w] # "idle" => pool = "ok"

\* The induction behind PoolOutlivesWork and OnePool: Pool is non-null exactly
\* while bInitialised is set, a submitter past the first check knows that one
\* of the two flags was set, the connection threads are gone before bShutdown
\* is set, the queue is empty before the pool goes, and an unset bInitialised
\* without bShutdown means that no pool was ever made.
PoolInv ==
  LET unloading == tpc[GT] \in {"beginShutdown", "dropJobs", "destroyPool",
                                "awaitWorkers", "down"} IN
  /\ pool = "null" <=> ~initialised
  /\ \A t \in Threads : /\ tpc[t] = "checkShutdown" => initialised \/ shutdown
                        /\ tpc[t] \in {"addJob", "enqueue"} => initialised
  /\ unloading \/ tpc[GT] = "joinConns" => ~serverUp
  /\ unloading => \A t \in Listeners : tpc[t] = "idle"
  /\ unloading /\ tpc[GT] # "beginShutdown" => shutdown
  /\ tpc[GT] \in {"awaitWorkers", "down"} \/ pool = "null" => workQueue = <<>>
  /\ \A w \in Workers : wpc[w] # "idle" => pool = "ok"
  /\ poolsMade \leq 1 /\ (~initialised /\ ~shutdown => poolsMade = 0)

\* Two first submissions at once create one pool: the second check of
\* bInitialised is made under the lock.
OnePool == poolsMade \leq 1

\* An active job stays known to the registry until Shutdown drops the map,
\* whatever the TTL sweep does and however late the job finishes.
ActiveJobTracked == \A j \in Jobs : Active(j) => j \in tracked \/ shutdown

\* The work items, the game-thread bodies and the records of active jobs are
\* where they should be, whatever worker, ticker, sweep or unload was there last.
WorkHeldOnce == JobHeldOnce /\ TickerBodyAwaited /\ ActiveJobTracked

\* A client that waits for a Succeeded job gets its result, unless the TTL
\* sweep or the shutdown removed the job between GetStatus and GetResult.
NoResultOnlyIfForgotten ==
  [][\A t \in Threads :
       tpc[t] = "getResult" /\ reply'[t] = "okNoResult" /\ tpc'[t] = "idle"
         => tjob[t] \notin tracked]_vars

\* The unload waits for a worker that waits for the game thread's ticker.
UnloadStuck == tpc[GT] = "awaitWorkers" /\ \E w \in Workers : wpc[w] = "gtWait"

\* Every accepted job ends, on a worker, on the game thread's ticker or
\* abandoned by Pool->Destroy, across an unload too, unless that unload has to
\* wait for a body that needs the game thread.
JobsSettle == \A j \in Jobs : state[j] = "Pending" ~> Terminal(j) \/ UnloadStuck

\* An unload that begins ends, with the same exception.
UnloadEnds == (~serverUp) ~> (tpc[GT] = "down" \/ UnloadStuck)

\* What the client of a settled job is given.
Answered(j) == IF ~Terminal(j) THEN "nothing"
               ELSE IF result[j] THEN "value"
               ELSE IF errMsg[j] # "none" THEN "error" ELSE "nothing"

Lifecycle == INSTANCE JobLifecycle WITH
  phase  <- state,
  answer <- [j \in Jobs |-> Answered(j)],
  known  <- tracked,
  asked  <- {j \in Jobs : cancelReq[j]},
  closed <- shutdown

\* The threads, the queue, the ticker and the unlocked field writes implement
\* the lifecycle the clients see: the answer appears with the terminal state.
ImplementsLifecycle == Lifecycle!Spec

------------------------------------------------------------------------------
(* What the repository's comments say of the registry, and the code does   *)
(* not do.                                                                 *)

\* UnrealMCPBridge.cpp:85: bodies that do not honour a cancel "will still run to
\* completion - pool->Destroy() blocks": it blocks, and it ends.
ShutdownEnds == (~serverUp) ~> (tpc[GT] = "down")

\* LevelCompositeTools.h:39: the bodies that poll bCancelRequested set
\* ErrorMessage to "cancelled" and return null, and "the registry transitions
\* the job to Cancelled state when the body returns null after cancel has been
\* requested": a body that bailed out because it was asked to ends Cancelled.
HonouredCancelEndsCancelled ==
  \A j \in Jobs : Terminal(j) /\ errMsg[j] = "cancelled" => state[j] = "Cancelled"
============================================================================
