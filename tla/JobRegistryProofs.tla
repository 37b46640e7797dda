------------------------- MODULE JobRegistryProofs -------------------------
(* Proofs about JobRegistry for every number of jobs, workers, connection   *)
(* threads and clock ticks.                                                 *)
EXTENDS JobRegistry, TLAPS

(***************************************************************************)
(* Type correctness.  TypeOK is inductive because it also says that        *)
(* whoever is at a step that writes the fields of a job has a job in hand. *)
(* Each step is split along the parts of TypeOK it can disturb; the parts  *)
(* whose variables it leaves alone follow from the frame lemma.            *)
(***************************************************************************)
LEMMA InitTypeOK == Init => TypeOK
<1> SUFFICES ASSUME Init PROVE TypeOK
  OBVIOUS
<1> USE DEF Init
<1>1. JobTypes
  BY DEF JobTypes, States, Messages, Returns
<1>2. PoolTypes
  BY DEF PoolTypes
<1>3. QueueTypes
  BY DEF QueueTypes
<1>4. WorkerTypes
  BY DEF WorkerTypes, WorkerSteps
<1>5. ThreadTypes
  BY DEF ThreadTypes, SubmitSteps, ReadSteps, GtSteps
<1>6. AskTypes
  <2>1. snap \in [Threads -> Snapshots]
    BY DEF Snapshots, States, Messages
  <2>2. QED
    BY <2>1 DEF AskTypes, Replies
<1>7. QED
  BY <1>1, <1>2, <1>3, <1>4, <1>5, <1>6 DEF TypeOK

LEMMA Frame ==
  ASSUME TypeOK
  PROVE  /\ UNCHANGED <<tracked, jobVars>> => JobTypes'
         /\ UNCHANGED poolVars => PoolTypes'
         /\ UNCHANGED <<workQueue, ticker, now>> => QueueTypes'
         /\ UNCHANGED workerVars => WorkerTypes'
         /\ UNCHANGED <<tpc, tjob, jobsLock>> => ThreadTypes'
         /\ UNCHANGED askVars => AskTypes'
<1> USE DEF TypeOK
<1>1. UNCHANGED <<tracked, jobVars>> => JobTypes'
  BY DEF JobTypes, jobVars, errVars
<1>2. UNCHANGED poolVars => PoolTypes'
  BY DEF PoolTypes, poolVars
<1>3. UNCHANGED <<workQueue, ticker, now>> => QueueTypes'
  BY DEF QueueTypes
<1>4. UNCHANGED workerVars => WorkerTypes'
  BY DEF WorkerTypes, workerVars
<1>5. UNCHANGED <<tpc, tjob, jobsLock>> => ThreadTypes'
  BY DEF ThreadTypes
<1>6. UNCHANGED askVars => AskTypes'
  BY DEF AskTypes, askVars
<1>7. QED
  BY <1>1, <1>2, <1>3, <1>4, <1>5, <1>6

LEMMA SubmitTypeOK ==
  ASSUME TypeOK, NEW t \in Threads, Submit(t)
  PROVE  TypeOK'
<1> USE Frame, ConstantsAssumption DEF TypeOK, registry, machine
<1>1. CASE BeginSubmit(t)
  <2>1. ThreadTypes'
    BY <1>1 DEF BeginSubmit, MayBegin, Goto, ThreadTypes, SubmitSteps, ReadSteps, GtSteps
  <2>2. QED
    BY <1>1, <2>1 DEF BeginSubmit
<1>2. CASE EnsureInitFast(t)
  <2>1. ThreadTypes'
    BY <1>2 DEF EnsureInitFast, Goto, ThreadTypes, SubmitSteps, ReadSteps, GtSteps
  <2>2. QED
    BY <1>2, <2>1 DEF EnsureInitFast
<1>3. CASE EnsureInitLocked(t)
  <2>1. ThreadTypes'
    BY <1>3 DEF EnsureInitLocked, Goto, ThreadTypes, SubmitSteps, ReadSteps, GtSteps
  <2>2. PoolTypes'
    <3>1. CASE MustInit
      BY <1>3, <3>1 DEF EnsureInitLocked, AllocatePool, PoolTypes
    <3>2. CASE ~MustInit
      BY <1>3, <3>2 DEF EnsureInitLocked, PoolTypes
    <3>3. QED
      BY <3>1, <3>2
  <2>3. QED
    BY <1>3, <2>1, <2>2 DEF EnsureInitLocked
<1>4. CASE CheckShutdown(t)
  <2>1. ThreadTypes' /\ AskTypes'
    <3>1. CASE shutdown
      BY <1>4, <3>1 DEF CheckShutdown, Answer, ThreadTypes, AskTypes, SubmitSteps, ReadSteps, GtSteps, Replies
    <3>2. CASE ~shutdown
      BY <1>4, <3>2 DEF CheckShutdown, Goto, ThreadTypes, AskTypes, SubmitSteps, ReadSteps, GtSteps
    <3>3. QED
      BY <3>1, <3>2
  <2>2. QED
    BY <1>4, <2>1 DEF CheckShutdown
<1>5. CASE AddJob(t)
  <2>1. ThreadTypes'
    BY <1>5 DEF AddJob, Goto, ThreadTypes, SubmitSteps, ReadSteps, GtSteps
  <2>2. JobTypes'
    BY <1>5 DEF AddJob, JobTypes, ThreadTypes, SubmitSteps, States, errVars
  <2>3. QED
    BY <1>5, <2>1, <2>2 DEF AddJob
<1>6. CASE Enqueue(t)
  <2>0. tjob[t] \in Jobs
    BY <1>6 DEF Enqueue, ThreadTypes, SubmitSteps
  <2>1. ThreadTypes' /\ AskTypes'
    BY <1>6 DEF Enqueue, Answer, ThreadTypes, AskTypes, SubmitSteps, ReadSteps, GtSteps, Replies
  <2>2. JobTypes'
    <3>1. CASE pool # "null"
      BY <1>6, <2>0, <3>1 DEF Enqueue, JobTypes
    <3>2. CASE pool = "null"
      <4>1. now \in Nat
        BY DEF QueueTypes
      <4>2. QED
        BY <1>6, <2>0, <3>2, <4>1 DEF Enqueue, JobTypes, States, Messages, TerminalStates
    <3>3. QED
      BY <3>1, <3>2
  <2>4. QueueTypes'
    BY <1>6, <2>0 DEF Enqueue, QueueTypes
  <2>3. QED
    BY <1>6, <2>1, <2>2, <2>4 DEF Enqueue
<1>7. QED
  BY <1>1, <1>2, <1>3, <1>4, <1>5, <1>6 DEF Submit

(* Filling in a snapshot leaves it a snapshot.                              *)
LEMMA SnapState ==
  ASSUME snap \in [Threads -> Snapshots], NEW t \in Threads, NEW s \in States
  PROVE  [snap EXCEPT ![t].state = s] \in [Threads -> Snapshots]
  BY DEF Snapshots

LEMMA SnapRest ==
  ASSUME snap \in [Threads -> Snapshots], NEW t \in Threads, NEW e \in Messages,
         NEW b \in BOOLEAN, NEW f \in Nat
  PROVE  [snap EXCEPT ![t].error = e, ![t].torn = b, ![t].finishedAt = f]
           \in [Threads -> Snapshots]
  BY DEF Snapshots

LEMMA QueryTypeOK ==
  ASSUME TypeOK, NEW t \in Threads, Query(t)
  PROVE  TypeOK'
<1> USE Frame, ConstantsAssumption DEF TypeOK, registry, machine
<1>1. CASE BeginResult(t)
  <2>1. ThreadTypes'
    BY <1>1 DEF BeginResult, MayBegin, Goto, ThreadTypes, SubmitSteps, ReadSteps, GtSteps
  <2>2. AskTypes'
    BY <1>1 DEF BeginResult, Earliest, AskTypes, QueueTypes
  <2>3. QED
    BY <1>1, <2>1, <2>2 DEF BeginResult
<1>2. CASE ReadState(t)
  <2>0. t # GT /\ tjob[t] \in Jobs
    BY <1>2 DEF ReadState, ThreadTypes, ReadSteps
  <2>1. CASE tjob[t] \in tracked
    <3>1. ThreadTypes'
      BY <1>2, <2>0, <2>1 DEF ReadState, Goto, ThreadTypes, SubmitSteps, ReadSteps, GtSteps
    <3>2. AskTypes'
      <4>1. snap' \in [Threads -> Snapshots]
        BY <1>2, <2>0, <2>1, SnapState DEF ReadState, AskTypes, JobTypes
      <4>2. QED
        BY <1>2, <2>1, <4>1 DEF ReadState, AskTypes
    <3>3. QED
      BY <1>2, <3>1, <3>2 DEF ReadState
  <2>2. CASE tjob[t] \notin tracked
    <3>1. ThreadTypes' /\ AskTypes'
      BY <1>2, <2>0, <2>2 DEF ReadState, Answer, ThreadTypes, AskTypes, SubmitSteps,
         ReadSteps, GtSteps, Replies
    <3>2. QED
      BY <1>2, <3>1 DEF ReadState
  <2>3. QED
    BY <2>1, <2>2
<1>3. CASE ReadRest(t)
  <2>0. t # GT /\ tjob[t] \in Jobs
    BY <1>3 DEF ReadRest, ThreadTypes, ReadSteps
  <2>1. snap' \in [Threads -> Snapshots]
    <3>1. errMsg[tjob[t]] \in Messages /\ finishedAt[tjob[t]] \in Nat
      BY <2>0 DEF JobTypes
    <3>2. (tjob[t] \in writing) \in BOOLEAN
      OBVIOUS
    <3>3. QED
      BY <1>3, <3>1, <3>2, SnapRest DEF ReadRest, AskTypes
  <2>2. CASE UNCHANGED <<tjob, reply>>
    <3>1. ThreadTypes'
      BY <1>3, <2>0, <2>2 DEF ReadRest, Answer, Goto, ThreadTypes, SubmitSteps,
         ReadSteps, GtSteps
    <3>2. AskTypes'
      BY <1>3, <2>1, <2>2 DEF ReadRest, AskTypes
    <3>3. QED
      BY <1>3, <3>1, <3>2 DEF ReadRest
  <2>3. CASE Answer(t, ReplyFor(snap[t].state))
    <3>1. ThreadTypes'
      BY <1>3, <2>0, <2>3 DEF ReadRest, Answer, ThreadTypes, SubmitSteps, ReadSteps, GtSteps
    <3>2. ReplyFor(snap[t].state) \in Replies
      BY DEF ReplyFor, Replies
    <3>3. AskTypes'
      BY <1>3, <2>1, <2>3, <3>2 DEF ReadRest, Answer, AskTypes
    <3>4. QED
      BY <1>3, <3>1, <3>3 DEF ReadRest
  <2>4. QED
    BY <1>3, <2>2, <2>3 DEF ReadRest
<1>4. CASE GetResult(t)
  <2>0. t # GT
    BY <1>4 DEF GetResult, ThreadTypes, ReadSteps
  <2>1. ThreadTypes' /\ AskTypes'
    BY <1>4, <2>0 DEF GetResult, Answer, ThreadTypes, AskTypes, SubmitSteps, ReadSteps,
       GtSteps, Replies
  <2>2. QED
    BY <1>4, <2>1 DEF GetResult
<1>5. QED
  BY <1>1, <1>2, <1>3, <1>4 DEF Query

LEMMA WorkTypeOK ==
  ASSUME TypeOK, NEW w \in Workers, Work(w)
  PROVE  TypeOK'
<1> USE Frame, ConstantsAssumption DEF TypeOK, registry, notMine, threadVars, workerVars
<1>j. wpc[w] # "idle" => wjob[w] \in Jobs
  BY DEF WorkerTypes
<1>1. CASE Dequeue(w)
  <2>1. Head(workQueue) \in Jobs /\ Tail(workQueue) \in Seq(Jobs)
    BY <1>1 DEF Dequeue, QueueTypes
  <2>2. WorkerTypes'
    BY <1>1, <2>1 DEF Dequeue, WGoto, WorkerTypes, WorkerSteps
  <2>3. QueueTypes'
    BY <1>1, <2>1 DEF Dequeue, QueueTypes
  <2>4. QED
    BY <1>1, <2>2, <2>3 DEF Dequeue
<1>2. CASE LoadCancel(w)
  <2>1. WorkerTypes'
    BY <1>2 DEF LoadCancel, WGoto, WorkerTypes, WorkerSteps
  <2>2. QED
    BY <1>2, <2>1 DEF LoadCancel
<1>3. CASE StoreCancelled(w)
  <2>1. WorkerTypes'
    BY <1>3 DEF StoreCancelled, WGoto, WorkerTypes, WorkerSteps
  <2>2. JobTypes'
    BY <1>3, <1>j DEF StoreCancelled, SetState, JobTypes, States, TerminalStates, errVars
  <2>3. QED
    BY <1>3, <2>1, <2>2 DEF StoreCancelled
<1>4. CASE StampCancelled(w)
  <2>1. WorkerTypes'
    BY <1>4 DEF StampCancelled, WDone, WorkerTypes, WorkerSteps
  <2>2. JobTypes'
    BY <1>4, <1>j DEF StampCancelled, Stamp, JobTypes, QueueTypes, errVars
  <2>3. QED
    BY <1>4, <2>1, <2>2 DEF StampCancelled
<1>5. CASE StoreRunning(w)
  <2>1. WorkerTypes'
    BY <1>5 DEF StoreRunning, WGoto, WorkerTypes, WorkerSteps
  <2>2. JobTypes'
    BY <1>5, <1>j DEF StoreRunning, SetState, JobTypes, States, errVars
  <2>3. QED
    BY <1>5, <2>1, <2>2 DEF StoreRunning
<1>6. CASE EnterBody(w)
  <2>1. CASE NeedsGameThread(wjob[w])
    <3>1. WorkerTypes'
      BY <1>6, <2>1 DEF EnterBody, WGoto, WorkerTypes, WorkerSteps
    <3>2. QueueTypes'
      BY <1>6, <1>j, <2>1 DEF EnterBody, QueueTypes
    <3>3. QED
      BY <1>6, <3>1, <3>2 DEF EnterBody
  <2>2. CASE ~NeedsGameThread(wjob[w])
    <3>1. WorkerTypes'
      BY <1>6, <2>2 DEF EnterBody, WGoto, WorkerTypes, WorkerSteps
    <3>2. QED
      BY <1>6, <2>2, <3>1 DEF EnterBody
  <2>3. QED
    BY <2>1, <2>2
<1>7. CASE RunBody(w)
  <2>0. wpc[w] = "inBody" /\ wjob[w] \in Jobs
    BY <1>7, <1>j DEF RunBody
  <2>1. CASE BodyReturns(wjob[w]) /\ WGoto(w, "returned") /\ UNCHANGED <<errMsg, writing>>
    <3>1. WorkerTypes'
      BY <1>7, <2>0, <2>1 DEF RunBody, WGoto, WorkerTypes, WorkerSteps
    <3>2. JobTypes'
      BY <1>7, <2>0, <2>1 DEF RunBody, BodyReturns, JobTypes, Returns
    <3>3. QED
      BY <1>7, <3>1, <3>2 DEF RunBody
  <2>2. CASE BodyBeginsError(wjob[w]) /\ WGoto(w, "writeError") /\ UNCHANGED returned
    <3>1. WorkerTypes'
      BY <1>7, <2>0, <2>2 DEF RunBody, WGoto, WorkerTypes, WorkerSteps
    <3>2. JobTypes'
      BY <1>7, <2>0, <2>2 DEF RunBody, BodyBeginsError, JobTypes, Messages
    <3>3. QED
      BY <1>7, <3>1, <3>2 DEF RunBody
  <2>3. QED
    BY <1>7, <2>1, <2>2 DEF RunBody
<1>8. CASE WriteError(w)
  <2>1. WorkerTypes'
    BY <1>8 DEF WriteError, WGoto, WorkerTypes, WorkerSteps
  <2>2. JobTypes'
    BY <1>8, <1>j DEF WriteError, BodyEndsError, JobTypes, Returns
  <2>3. QED
    BY <1>8, <2>1, <2>2 DEF WriteError
<1>9. CASE FutureGet(w)
  <2>1. WorkerTypes'
    BY <1>9 DEF FutureGet, WGoto, WorkerTypes, WorkerSteps
  <2>2. QED
    BY <1>9, <2>1 DEF FutureGet
<1>10. CASE StampFinished(w)
  <2>1. WorkerTypes'
    BY <1>10 DEF StampFinished, WGoto, WorkerTypes, WorkerSteps
  <2>2. JobTypes'
    BY <1>10, <1>j DEF StampFinished, Stamp, JobTypes, QueueTypes, errVars
  <2>3. QED
    BY <1>10, <2>1, <2>2 DEF StampFinished
<1>11. CASE SettleValue(w)
  <2>1. WorkerTypes'
    BY <1>11 DEF SettleValue, WGoto, WorkerTypes, WorkerSteps
  <2>2. JobTypes'
    BY <1>11, <1>j DEF SettleValue, StoreResult, JobTypes, errVars
  <2>3. QED
    BY <1>11, <2>1, <2>2 DEF SettleValue
<1>12. CASE SettleCancelled(w)
  <2>1. WorkerTypes'
    BY <1>12 DEF SettleCancelled, WDone, WorkerTypes, WorkerSteps
  <2>2. JobTypes'
    BY <1>12, <1>j DEF SettleCancelled, SetState, JobTypes, States, TerminalStates, errVars
  <2>3. QED
    BY <1>12, <2>1, <2>2 DEF SettleCancelled
<1>13. CASE SettleError(w)
  <2>1. WorkerTypes'
    BY <1>13 DEF SettleError, WDone, WorkerTypes, WorkerSteps
  <2>2. JobTypes'
    BY <1>13, <1>j DEF SettleError, SetState, JobTypes, States, TerminalStates, errVars
  <2>3. QED
    BY <1>13, <2>1, <2>2 DEF SettleError
<1>14. CASE SettleNull(w)
  <2>1. WorkerTypes'
    BY <1>14 DEF SettleNull, WGoto, WorkerTypes, WorkerSteps
  <2>2. JobTypes'
    BY <1>14, <1>j DEF SettleNull, FillBeforePublish, BeginFill, JobTypes, Messages
  <2>3. QED
    BY <1>14, <2>1, <2>2 DEF SettleNull
<1>15. CASE FillError(w)
  <2>1. WorkerTypes'
    BY <1>15 DEF FillError, WGoto, WorkerTypes, WorkerSteps
  <2>2. JobTypes'
    BY <1>15 DEF FillError, JobTypes
  <2>3. QED
    BY <1>15, <2>1, <2>2 DEF FillError
<1>16. CASE Publish(w)
  <2>1. WorkerTypes'
    BY <1>16 DEF Publish, WDone, WorkerTypes, WorkerSteps
  <2>2. JobTypes'
    BY <1>16, <1>j DEF Publish, SetState, JobTypes, States, TerminalStates, errVars
  <2>3. QED
    BY <1>16, <2>1, <2>2 DEF Publish
<1>17. QED
  BY <1>1, <1>2, <1>3, <1>4, <1>5, <1>6, <1>7, <1>8, <1>9, <1>10, <1>11, <1>12,
     <1>13, <1>14, <1>15, <1>16 DEF Work

GameThreadStep ==
  \/ RunTicker \/ TickerWritesError \/ RequestCancel \/ TickTtlCleanup
  \/ StopServer \/ Shutdown \/ Tick

LEMMA GameThreadTypeOK ==
  ASSUME TypeOK, GameThreadStep
  PROVE  TypeOK'
<1> USE Frame, ConstantsAssumption DEF TypeOK, registry, machine, threadVars
<1>g. GT \in Threads
  BY DEF Threads
<1>1. CASE RunTicker
  <2> DEFINE j == Head(ticker)
  <2>1. j \in Jobs /\ Tail(ticker) \in Seq(Jobs)
    BY <1>1 DEF RunTicker, QueueTypes
  <2>2. QueueTypes'
    BY <1>1, <2>1 DEF RunTicker, QueueTypes
  <2>3. CASE BodyReturns(j) /\ UNCHANGED <<errMsg, writing, tpc, tjob>>
    <3>1. JobTypes'
      BY <1>1, <2>1, <2>3 DEF RunTicker, BodyReturns, JobTypes, Returns
    <3>2. QED
      BY <1>1, <2>2, <2>3, <3>1 DEF RunTicker
  <2>4. CASE /\ BodyBeginsError(j) /\ Goto(GT, "gtWriteError")
             /\ tjob' = [tjob EXCEPT ![GT] = j] /\ UNCHANGED returned
    <3>1. JobTypes'
      BY <1>1, <2>1, <2>4 DEF RunTicker, BodyBeginsError, JobTypes, Messages
    <3>2. ThreadTypes'
      BY <1>1, <1>g, <2>1, <2>4 DEF RunTicker, Goto, ThreadTypes, SubmitSteps, ReadSteps, GtSteps
    <3>3. QED
      BY <1>1, <2>2, <3>1, <3>2 DEF RunTicker
  <2>5. QED
    BY <1>1, <2>3, <2>4 DEF RunTicker
<1>2. CASE TickerWritesError
  <2>1. JobTypes'
    BY <1>2, <1>g DEF TickerWritesError, BodyEndsError, JobTypes, ThreadTypes, Returns
  <2>2. ThreadTypes'
    BY <1>2, <1>g DEF TickerWritesError, Goto, ThreadTypes, SubmitSteps, ReadSteps, GtSteps
  <2>3. QED
    BY <1>2, <2>1, <2>2 DEF TickerWritesError
<1>3. CASE RequestCancel
  <2>1. JobTypes'
    <3>1. PICK j \in Jobs : \/ cancelReq' = [cancelReq EXCEPT ![j] = TRUE]
                             \/ UNCHANGED cancelReq
      BY <1>3, Zenon DEF RequestCancel
    <3>2. cancelReq' \in [Jobs -> BOOLEAN]
      BY <3>1 DEF JobTypes
    <3>3. UNCHANGED <<tracked, state, gtReq, errVars, result, finishedAt, returned>>
      BY <1>3, Zenon DEF RequestCancel
    <3>4. QED
      BY <3>2, <3>3 DEF errVars, JobTypes
  <2>2. AskTypes'
    <3>1. PICK r \in {"accepted", "rejected"} : reply' = [reply EXCEPT ![GT] = r]
      BY <1>3 DEF RequestCancel
    <3>2. QED
      BY <1>3, <1>g, <3>1 DEF RequestCancel, AskTypes, Replies
  <2>3. QED
    BY <1>3, <2>1, <2>2 DEF RequestCancel
<1>4. CASE TickTtlCleanup
  <2>1. JobTypes'
    BY <1>4 DEF TickTtlCleanup, JobTypes, jobVars, errVars
  <2>2. QED
    BY <1>4, <2>1 DEF TickTtlCleanup, workerVars
<1>5. CASE StopServer
  <2>1. PoolTypes'
    BY <1>5 DEF StopServer, PoolTypes
  <2>2. ThreadTypes'
    BY <1>5, <1>g DEF StopServer, Goto, ThreadTypes, SubmitSteps, ReadSteps, GtSteps
  <2>3. QED
    BY <1>5, <2>1, <2>2 DEF StopServer
<1>6. CASE JoinConnections
  <2>1. ThreadTypes'
    BY <1>6, <1>g DEF JoinConnections, Goto, ThreadTypes, SubmitSteps, ReadSteps, GtSteps
  <2>2. QED
    BY <1>6, <2>1 DEF JoinConnections
<1>7. CASE BeginShutdown
  <2>1. PoolTypes'
    BY <1>7 DEF BeginShutdown, PoolTypes
  <2>2. ThreadTypes'
    BY <1>7, <1>g DEF BeginShutdown, Goto, ThreadTypes, SubmitSteps, ReadSteps, GtSteps
  <2>3. QED
    BY <1>7, <2>1, <2>2 DEF BeginShutdown
<1>8. CASE DropJobs
  <2>1. JobTypes'
    BY <1>8 DEF DropJobs, CancelAll, JobTypes, errVars
  <2>2. ThreadTypes'
    <3>1. PICK step \in {"down", "destroyPool"} : Goto(GT, step)
      BY <1>8 DEF DropJobs
    <3>2. QED
      BY <1>8, <1>g, <3>1 DEF DropJobs, Goto, ThreadTypes, SubmitSteps, ReadSteps, GtSteps
  <2>3. QED
    BY <1>8, <2>1, <2>2 DEF DropJobs
<1>9. CASE AbandonQueue
  <2>1. JobTypes'
    <3>1. state' \in [Jobs -> States]
      BY <1>9 DEF AbandonQueue, AbandonedState, JobTypes, States, TerminalStates
    <3>2. finishedAt' \in [Jobs -> Nat]
      BY <1>9 DEF AbandonQueue, JobTypes, QueueTypes
    <3>3. errMsg' \in [Jobs -> Messages]
      BY <1>9 DEF AbandonQueue, JobTypes, Messages
    <3>4. QED
      BY <1>9, <3>1, <3>2, <3>3 DEF AbandonQueue, JobTypes
  <2>2. ThreadTypes'
    BY <1>9, <1>g DEF AbandonQueue, Goto, ThreadTypes, SubmitSteps, ReadSteps, GtSteps
  <2>3. QueueTypes'
    BY <1>9 DEF AbandonQueue, QueueTypes
  <2>4. QED
    BY <1>9, <2>1, <2>2, <2>3 DEF AbandonQueue
<1>10. CASE DestroyPool
  <2>1. PoolTypes'
    BY <1>10 DEF DestroyPool, PoolTypes
  <2>2. ThreadTypes'
    BY <1>10, <1>g DEF DestroyPool, Goto, ThreadTypes, SubmitSteps, ReadSteps, GtSteps
  <2>3. QED
    BY <1>10, <2>1, <2>2 DEF DestroyPool
<1>11. CASE Tick
  <2>1. QueueTypes'
    BY <1>11 DEF Tick, QueueTypes
  <2>2. QED
    BY <1>11, <2>1 DEF Tick
<1>12. QED
  BY <1>1, <1>2, <1>3, <1>4, <1>5, <1>6, <1>7, <1>8, <1>9, <1>10, <1>11
  DEF GameThreadStep, Shutdown

LEMMA NextTypeOK ==
  ASSUME TypeOK, [Next]_vars
  PROVE  TypeOK'
<1>1. CASE UNCHANGED vars
  BY <1>1, Frame DEF vars, registry, machine, threadVars, TypeOK
<1>2. CASE Next
  BY <1>2, SubmitTypeOK, QueryTypeOK, WorkTypeOK, GameThreadTypeOK DEF Next, GameThreadStep
<1>3. QED
  BY <1>1, <1>2

\* Every field and program counter of the registry, its workers and its
\* clients stays in range, for any number of jobs and threads.
THEOREM TypeCorrect == Spec => []TypeOK
<1>1. Init => TypeOK
  BY InitTypeOK
<1>2. TypeOK /\ [Next]_vars => TypeOK'
  BY NextTypeOK
<1>3. QED
  BY <1>1, <1>2, PTL DEF Spec

------------------------------------------------------------------------------
(***************************************************************************)
(* The worker pool outlives everything that uses it, and there is never    *)
(* more than one.                                                          *)
(***************************************************************************)
Inv == TypeOK /\ PoolInv

LEMMA InitPoolInv == Init => PoolInv
  BY DEF Init, PoolInv, Threads

LEMMA SubmitPoolInv ==
  ASSUME Inv, NEW t \in Threads, Submit(t)
  PROVE  PoolInv'
<1> USE ConstantsAssumption DEF Inv, TypeOK, ThreadTypes, PoolInv, Threads, machine
<1>1. CASE BeginSubmit(t)
  BY <1>1 DEF BeginSubmit, MayBegin, Goto, registry, poolVars, workerVars
<1>2. CASE EnsureInitFast(t)
  BY <1>2 DEF EnsureInitFast, Goto, registry, poolVars, workerVars
<1>3. CASE EnsureInitLocked(t)
  <2>1. CASE MustInit
    BY <1>3, <2>1 DEF EnsureInitLocked, AllocatePool, MustInit, Goto, workerVars
  <2>2. CASE ~MustInit
    BY <1>3, <2>2 DEF EnsureInitLocked, MustInit, Goto, workerVars
  <2>3. QED
    BY <2>1, <2>2
<1>4. CASE CheckShutdown(t)
  <2>1. CASE shutdown
    BY <1>4, <2>1 DEF CheckShutdown, Answer, registry, poolVars, workerVars
  <2>2. CASE ~shutdown
    BY <1>4, <2>2 DEF CheckShutdown, Goto, registry, poolVars, workerVars
  <2>3. QED
    BY <2>1, <2>2
<1>5. CASE AddJob(t)
  BY <1>5 DEF AddJob, Goto, poolVars, workerVars
<1>6. CASE Enqueue(t)
  <2>1. pool # "null" /\ tpc[GT] \notin {"awaitWorkers", "down"}
    BY <1>6 DEF Enqueue
  <2>2. QED
    BY <1>6, <2>1 DEF Enqueue, Answer, poolVars, workerVars
<1>7. QED
  BY <1>1, <1>2, <1>3, <1>4, <1>5, <1>6 DEF Submit

LEMMA QueryPoolInv ==
  ASSUME Inv, NEW t \in Threads, Query(t)
  PROVE  PoolInv'
<1> USE ConstantsAssumption DEF Inv, TypeOK, ThreadTypes, PoolInv, Threads, machine,
        registry, poolVars, workerVars, ReadSteps
<1>1. t # GT
  BY DEF Query, BeginResult, ReadState, ReadRest, GetResult
<1>2. CASE BeginResult(t)
  BY <1>1, <1>2 DEF BeginResult, MayBegin, Goto
<1>3. \A s \in {"readState", "readRest", "getResult", "idle"} :
        /\ tpc[t] \in ReadSteps
        /\ Goto(t, s) /\ UNCHANGED <<registry, machine>>
        => PoolInv'
  BY <1>1 DEF Goto
<1>4. CASE ReadState(t)
  BY <1>3, <1>4 DEF ReadState, Goto, Answer
<1>5. CASE ReadRest(t)
  BY <1>3, <1>5 DEF ReadRest, Goto, Answer
<1>6. CASE GetResult(t)
  BY <1>3, <1>6 DEF GetResult, Goto, Answer
<1>7. QED
  BY <1>2, <1>4, <1>5, <1>6 DEF Query

(* A busy worker moves on or comes home: the pool is there, and stays.      *)
LEMMA BusyWorker ==
  ASSUME Inv, NEW w \in Workers, wpc[w] # "idle", NEW s,
         WGoto(w, s), UNCHANGED <<poolVars, workQueue, tpc>>
  PROVE  PoolInv'
  BY DEF Inv, PoolInv, WGoto, poolVars, TypeOK, WorkerTypes

LEMMA WorkPoolInv ==
  ASSUME Inv, NEW w \in Workers, Work(w)
  PROVE  PoolInv'
<1>1. CASE Dequeue(w)
  <2>1. tpc[GT] \notin {"awaitWorkers", "down"} /\ pool = "ok"
    BY <1>1 DEF Dequeue, Inv, PoolInv
  <2>2. QED
    BY <1>1, <2>1 DEF Dequeue, WGoto, Inv, PoolInv, TypeOK, WorkerTypes, registry,
       poolVars, threadVars
<1>2. CASE ~Dequeue(w)
  <2>1. wpc[w] # "idle"
    BY <1>2 DEF Work, LoadCancel, StoreCancelled, StampCancelled, StoreRunning,
       EnterBody, RunBody, WriteError, FutureGet, StampFinished, SettleValue,
       SettleCancelled, SettleError, SettleNull, FillError, Publish
  <2>2. UNCHANGED <<poolVars, workQueue, tpc>>
    BY <1>2 DEF Work, LoadCancel, StoreCancelled, StampCancelled, StoreRunning,
       EnterBody, RunBody, WriteError, FutureGet, StampFinished, SettleValue,
       SettleCancelled, SettleError, SettleNull, FillError, Publish, registry,
       notMine, threadVars
  <2>3. \E s \in WorkerSteps : WGoto(w, s)
    BY <1>2 DEF Work, LoadCancel, StoreCancelled, StampCancelled, StoreRunning,
       EnterBody, RunBody, WriteError, FutureGet, StampFinished, SettleValue,
       SettleCancelled, SettleError, SettleNull, FillError, Publish, WGoto, WDone,
       WorkerSteps
  <2>4. QED
    BY <2>1, <2>2, <2>3, BusyWorker
<1>3. QED
  BY <1>1, <1>2

LEMMA GameThreadPoolInv ==
  ASSUME Inv, GameThreadStep
  PROVE  PoolInv'
<1> USE ConstantsAssumption DEF Inv, TypeOK, ThreadTypes, PoolInv, machine
<1>g. GT \in Threads /\ \A t \in Threads : t # GT => t \in Listeners
  BY DEF Threads
<1>1. CASE RunTicker
  BY <1>1, <1>g DEF RunTicker, Goto, poolVars, workerVars
<1>2. CASE TickerWritesError
  BY <1>2, <1>g DEF TickerWritesError, Goto, poolVars, workerVars
<1>3. CASE RequestCancel \/ TickTtlCleanup \/ Tick
  <2>1. UNCHANGED <<poolVars, workQueue, wpc, tpc>>
    BY <1>3, Zenon DEF RequestCancel, TickTtlCleanup, Tick, registry, workerVars, threadVars
  <2>2. QED
    BY <2>1 DEF poolVars
<1>4. CASE StopServer
  BY <1>4, <1>g DEF StopServer, Goto, workerVars
<1>5. CASE JoinConnections
  BY <1>5, <1>g DEF JoinConnections, ConnectionsDone, Goto, registry, poolVars, workerVars
<1>6. CASE BeginShutdown
  BY <1>6, <1>g DEF BeginShutdown, Goto, workerVars
<1>7. CASE DropJobs
  <2>1. CASE pool = "null"
    BY <1>7, <1>g, <2>1 DEF DropJobs, Goto, poolVars, workerVars
  <2>2. CASE pool # "null"
    BY <1>7, <1>g, <2>2 DEF DropJobs, Goto, poolVars, workerVars
  <2>3. QED
    BY <2>1, <2>2
<1>8. CASE AbandonQueue
  BY <1>8, <1>g DEF AbandonQueue, Goto, poolVars, workerVars
<1>9. CASE DestroyPool
  BY <1>9, <1>g DEF DestroyPool, Goto, workerVars
<1>10. QED
  BY <1>1, <1>2, <1>3, <1>4, <1>5, <1>6, <1>7, <1>8, <1>9 DEF GameThreadStep, Shutdown

LEMMA NextPoolInv ==
  ASSUME Inv, [Next]_vars
  PROVE  Inv'
<1>1. TypeOK'
  BY NextTypeOK DEF Inv
<1>2. PoolInv'
  <2>1. CASE UNCHANGED vars
    BY <2>1 DEF Inv, PoolInv, vars, registry, machine, threadVars, poolVars, workerVars
  <2>2. CASE Next
    BY <2>2, SubmitPoolInv, QueryPoolInv, WorkPoolInv, GameThreadPoolInv
    DEF Next, GameThreadStep
  <2>3. QED
    BY <2>1, <2>2
<1>3. QED
  BY <1>1, <1>2 DEF Inv

LEMMA InvImpliesSafety == Inv => PoolOutlivesWork /\ OnePool
  BY DEF Inv, TypeOK, PoolTypes, PoolInv, PoolOutlivesWork, OnePool

\* A submitter that passed the shutdown check of SubmitJob finds the pool, and
\* so does every queued work item and every busy worker: the unload joins the
\* connection threads before it destroys the pool.
THEOREM PoolSafe == Spec => []PoolOutlivesWork
<1>1. Init => Inv
  BY InitTypeOK, InitPoolInv DEF Inv
<1>2. Inv /\ [Next]_vars => Inv'
  BY NextPoolInv
<1>3. Inv => PoolOutlivesWork
  BY InvImpliesSafety
<1>4. QED
  BY <1>1, <1>2, <1>3, PTL DEF Spec

\* However many threads submit a first job at the same time, EnsureInitialized
\* allocates one pool, and an unload never makes a second one possible.
THEOREM AtMostOnePool == Spec => []OnePool
<1>1. Init => Inv
  BY InitTypeOK, InitPoolInv DEF Inv
<1>2. Inv /\ [Next]_vars => Inv'
  BY NextPoolInv
<1>3. Inv => OnePool
  BY InvImpliesSafety
<1>4. QED
  BY <1>1, <1>2, <1>3, PTL DEF Spec
=============================================================================
