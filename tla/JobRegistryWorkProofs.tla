----------------------- MODULE JobRegistryWorkProofs -----------------------
(* Proofs about JobRegistry, continued: where a job is, what its fields say *)
(* and what its clients are told, for every number of jobs and threads.     *)
EXTENDS JobRegistryProofs, DataLemmas, FiniteSetTheorems

(***************************************************************************)
(* The inductive invariant, in parts.                                      *)
(***************************************************************************)

\* A submitter on its way to AddJob is the only one that has its job in hand,
\* and nobody has made that job yet.
Reserving(t) == tpc[t] \in {"ensureInit", "initLocked", "checkShutdown", "addJob"}

ReserveInv ==
  \A t \in Threads :
    Reserving(t) => /\ state[tjob[t]] = "New"
                    /\ \A u \in Threads : u # t => tjob[u] # tjob[t]

\* The places of a work item: with its submitter, in the queue, with a worker.
Submitted(j) == \E t \in Threads : Enqueuer(t, j)
Waiting(j)   == j \in Range(workQueue)
Carried(j)   == \E w \in Workers : wjob[w] = j

PlaceInv ==
  /\ \A t, u \in Threads :
       tpc[t] = "enqueue" /\ tpc[u] = "enqueue" /\ tjob[t] = tjob[u] => t = u
  /\ IsInjective(workQueue)
  /\ \A v, w \in Workers : wjob[v] = wjob[w] /\ wjob[v] # Nobody => v = w
  /\ \A t \in Threads : tpc[t] = "enqueue" => ~Waiting(tjob[t]) /\ ~Carried(tjob[t])
  /\ \A j \in Jobs : Waiting(j) => ~Carried(j)
  /\ \A j \in Jobs : Active(j) => Submitted(j) \/ Waiting(j) \/ Carried(j)

\* How far a job can have come, given where it is.
BodySteps   == {"enterBody", "inBody", "gtWait", "writeError", "returned"}
SettleSteps == {"settle", "fillError", "publishOk", "publishFail"}

PhaseInv ==
  /\ \A t \in Threads : tpc[t] = "enqueue" => state[tjob[t]] = "Pending"
  /\ \A j \in Jobs : Waiting(j) => state[j] = "Pending"
  /\ \A w \in Workers :
       /\ wpc[w] \in {"loadCancel", "storeCancelled", "storeRunning"}
            => state[wjob[w]] = "Pending"
       /\ wpc[w] = "stampCancelled" => state[wjob[w]] = "Cancelled"
       /\ wpc[w] \in BodySteps \cup SettleSteps => state[wjob[w]] = "Running"

\* A body has an outcome only once it has run, and one that runs on the game
\* thread has a worker that waits for it.
Awaited(j) == \E w \in Workers : wjob[w] = j /\ wpc[w] = "gtWait"

BodyInv ==
  /\ \A j \in Jobs : state[j] \in {"New", "Pending"} => returned[j] = "unset"
  /\ \A w \in Workers : wpc[w] \in {"enterBody", "inBody", "writeError"}
                          => returned[wjob[w]] = "unset"
  /\ IsInjective(ticker)
  /\ \A j \in Range(ticker) : Awaited(j) /\ returned[j] = "unset"
  /\ tpc[GT] = "gtWriteError" => /\ Awaited(tjob[GT]) /\ returned[tjob[GT]] = "unset"
                                 /\ tjob[GT] \notin Range(ticker)
  /\ \A j \in writing : \/ \E w \in Workers : /\ wjob[w] = j
                                               /\ wpc[w] \in {"writeError", "fillError"}
                        \/ tpc[GT] = "gtWriteError" /\ tjob[GT] = j

\* What the fields of a job say at each step of its worker, and once it has
\* ended: FinishedAt, ErrorMessage and Result are there before State is.
FieldInv ==
  /\ \A w \in Workers :
       /\ wpc[w] \in SettleSteps => finishedAt[wjob[w]] > 0
       /\ wpc[w] \in {"fillError", "publishFail"} => errMsg[wjob[w]] # "none"
       /\ wpc[w] = "publishOk" => result[wjob[w]]
       /\ wpc[w] = "storeCancelled" => cancelReq[wjob[w]]
  /\ \A j \in Jobs :
       /\ state[j] \in {"New", "Pending"} => errMsg[j] = "none"
       /\ state[j] = "Failed" => errMsg[j] # "none"
       /\ state[j] \in {"Succeeded", "Failed"} => finishedAt[j] > 0
       /\ state[j] = "Succeeded" => result[j]
       /\ state[j] = "Cancelled" => cancelReq[j]
       /\ result[j] => \/ state[j] = "Succeeded"
                       \/ \E w \in Workers : wjob[w] = j /\ wpc[w] = "publishOk"

\* An active job is tracked until the unload drops the map, and cancelled then.
DroppedSteps == {"destroyPool", "awaitWorkers", "down"}

TrackInv ==
  \A j \in Jobs :
    Active(j) => IF tpc[GT] \in DroppedSteps THEN cancelReq[j] ELSE j \in tracked

\* What a reader has seen of a job that has ended is still so.
SnapInv ==
  \A t \in Listeners :
    /\ tpc[t] = "readRest" /\ snap[t].state \in TerminalStates
         => state[tjob[t]] = snap[t].state
    /\ tpc[t] = "getResult" => state[tjob[t]] = "Succeeded"

\* The part that does not speak of readers is inductive by itself.
WorkInv == ReserveInv /\ PlaceInv /\ PhaseInv /\ BodyInv /\ FieldInv /\ TrackInv

IInv == Inv /\ WorkInv /\ SnapInv /\ SnapshotConsistent
------------------------------------------------------------------------------
LEMMA InitWorkInv == Init => WorkInv /\ SnapInv /\ SnapshotConsistent
<1> SUFFICES ASSUME Init PROVE WorkInv /\ SnapInv /\ SnapshotConsistent
  OBVIOUS
<1>1. /\ \A t \in Threads : tpc[t] = "idle" /\ snap[t].state = "New"
      /\ \A w \in Workers : wpc[w] = "idle" /\ wjob[w] = Nobody
      /\ \A j \in Jobs : /\ state[j] = "New" /\ returned[j] = "unset"
                         /\ errMsg[j] = "none" /\ ~result[j]
      /\ GT \in Threads
      /\ Range(workQueue) = {} /\ Range(ticker) = {} /\ writing = {}
      /\ IsInjective(workQueue) /\ IsInjective(ticker)
  BY DEF Init, Threads, Range, IsInjective
<1>2. WorkInv
  BY <1>1 DEF WorkInv, ReserveInv, Reserving, PlaceInv, Submitted, Waiting, Carried,
     Enqueuer, Active, PhaseInv, BodySteps, SettleSteps, BodyInv, FieldInv, TrackInv
<1>3. SnapInv /\ SnapshotConsistent
  BY <1>1 DEF SnapInv, SnapshotConsistent, Threads, TerminalStates
<1>4. QED
  BY <1>2, <1>3

------------------------------------------------------------------------------
(* SubmitJob.                                                               *)

\* Nobody works on a job that has not been submitted.
LEMMA NewNowhere ==
  ASSUME TypeOK, PhaseInv, NEW j \in Jobs, state[j] = "New"
  PROVE  ~Waiting(j) /\ ~Carried(j)
<1>1. ~Waiting(j)
  BY DEF PhaseInv
<1>2. ASSUME NEW w \in Workers, wjob[w] = j PROVE FALSE
  <2>1. wpc[w] # "idle" /\ wpc[w] \in WorkerSteps
    BY <1>2, ConstantsAssumption DEF TypeOK, WorkerTypes
  <2>2. QED
    BY <1>2, <2>1 DEF PhaseInv, WorkerSteps, BodySteps, SettleSteps
<1>3. QED
  BY <1>1, <1>2 DEF Carried

LEMMA SubmitWorkInv ==
  ASSUME TypeOK, PoolInv, ReserveInv, PlaceInv, PhaseInv, BodyInv, FieldInv, TrackInv,
         NEW t \in Threads, Submit(t)
  PROVE  WorkInv'
<1> USE ConstantsAssumption DEF TypeOK, WorkInv, registry, machine, jobVars, errVars,
        workerVars
<1>0. /\ GT \in Threads /\ tpc \in [Threads -> {"idle"} \cup SubmitSteps \cup ReadSteps \cup GtSteps]
      /\ tjob \in [Threads -> Jobs \cup {Nobody}]
      /\ state \in [Jobs -> States]
      /\ \A u \in Threads : Reserving(u) => tjob[u] \in Jobs
      /\ Nobody \notin Jobs
  BY DEF ThreadTypes, JobTypes, Threads, Reserving, SubmitSteps
<1>1. CASE BeginSubmit(t)
  <2>0. PICK j \in Jobs : /\ state[j] = "New" /\ \A u \in Threads : tjob[u] # j
                          /\ tjob' = [tjob EXCEPT ![t] = j]
    BY <1>1 DEF BeginSubmit
  <2>1. ReserveInv'
    BY <1>0, <1>1, <2>0 DEF BeginSubmit, MayBegin, Goto, ReserveInv, Reserving
  <2>2. PlaceInv'
    BY <1>0, <1>1, <2>0 DEF BeginSubmit, MayBegin, Goto, PlaceInv, Submitted, Waiting, Carried, Enqueuer, Active
  <2>3. PhaseInv'
    BY <1>0, <1>1, <2>0 DEF BeginSubmit, MayBegin, Goto, PhaseInv, Waiting
  <2>4. BodyInv'
    BY <1>0, <1>1, <2>0 DEF BeginSubmit, MayBegin, Goto, BodyInv, Awaited
  <2>5. FieldInv'
    BY <1>1 DEF BeginSubmit, FieldInv
  <2>6. TrackInv'
    BY <1>0, <1>1 DEF BeginSubmit, MayBegin, Goto, TrackInv, Active, DroppedSteps
  <2>7. QED
    BY <2>1, <2>2, <2>3, <2>4, <2>5, <2>6
<1>2. CASE EnsureInitFast(t) \/ EnsureInitLocked(t) \/ CheckShutdown(t)
  <2>0. /\ tpc[t] \in {"ensureInit", "initLocked", "checkShutdown"}
        /\ \/ /\ tpc' = [tpc EXCEPT ![t] = "idle"]
              /\ tjob' = [tjob EXCEPT ![t] = Nobody]
           \/ /\ \E s \in {"initLocked", "checkShutdown", "addJob"} : tpc' = [tpc EXCEPT ![t] = s]
              /\ UNCHANGED tjob
        /\ UNCHANGED <<tracked, jobVars, machine>>
    BY <1>2 DEF EnsureInitFast, EnsureInitLocked, CheckShutdown, Goto, Answer, registry
  <2>1. ReserveInv'
    BY <1>0, <2>0 DEF ReserveInv, Reserving
  <2>2. PlaceInv'
    BY <1>0, <2>0 DEF PlaceInv, Submitted, Waiting, Carried, Enqueuer, Active
  <2>3. PhaseInv'
    BY <1>0, <2>0 DEF PhaseInv, Waiting
  <2>4. BodyInv'
    BY <1>0, <2>0 DEF BodyInv, Awaited
  <2>5. FieldInv'
    BY <2>0 DEF FieldInv
  <2>6. TrackInv'
    BY <1>0, <2>0 DEF TrackInv, Active, DroppedSteps
  <2>7. QED
    BY <2>1, <2>2, <2>3, <2>4, <2>5, <2>6
<1>3. CASE AddJob(t)
  <2>0. tjob[t] \in Jobs /\ state[tjob[t]] = "New" /\ \A u \in Threads : u # t => tjob[u] # tjob[t]
    BY <1>0, <1>3 DEF AddJob, ReserveInv, Reserving
  <2>8. ~Waiting(tjob[t]) /\ ~Carried(tjob[t])
    BY <1>0, <2>0, NewNowhere
  <2>1. ReserveInv'
    BY <1>0, <1>3, <2>0 DEF AddJob, Goto, ReserveInv, Reserving
  <2>2. PlaceInv'
    BY <1>0, <1>3, <2>0, <2>8 DEF AddJob, Goto, PlaceInv, Submitted, Waiting, Carried, Enqueuer, Active
  <2>3. PhaseInv'
    BY <1>0, <1>3, <2>0 DEF AddJob, Goto, PhaseInv, Waiting, BodySteps, SettleSteps
  <2>4. BodyInv'
    BY <1>0, <1>3, <2>0 DEF AddJob, Goto, BodyInv, Awaited
  <2>5. FieldInv'
    BY <1>0, <1>3, <2>0 DEF AddJob, FieldInv
  <2>6. TrackInv'
    BY <1>0, <1>3, <2>0 DEF AddJob, Goto, TrackInv, Active, DroppedSteps, PoolInv, Threads
  <2>7. QED
    BY <2>1, <2>2, <2>3, <2>4, <2>5, <2>6
<1>4. CASE Enqueue(t)
  <2>0. /\ tjob[t] \in Jobs /\ state[tjob[t]] = "Pending"
        /\ workQueue \in Seq(Jobs) /\ IsInjective(workQueue) /\ tjob[t] \notin Range(workQueue)
        /\ pool # "null"
    BY <1>4 DEF Enqueue, ThreadTypes, QueueTypes, SubmitSteps, PlaceInv, Waiting, PhaseInv, PoolInv
  <2>8. /\ workQueue' = Append(workQueue, tjob[t])
        /\ UNCHANGED <<state, errMsg, finishedAt>>
        /\ IsInjective(workQueue') /\ Range(workQueue') = Range(workQueue) \cup {tjob[t]}
    <3>1. workQueue' = Append(workQueue, tjob[t]) /\ UNCHANGED <<state, errMsg, finishedAt>>
      BY <1>4, <2>0 DEF Enqueue
    <3>2. QED
      BY <2>0, <3>1, AppendFresh
  <2>1. ReserveInv'
    BY <1>0, <1>4, <2>0, <2>8 DEF Enqueue, Answer, ReserveInv, Reserving
  <2>2. PlaceInv'
    BY <1>0, <1>4, <2>0, <2>8 DEF Enqueue, Answer, PlaceInv, Submitted, Waiting, Carried, Enqueuer, Active
  <2>3. PhaseInv'
    BY <1>0, <1>4, <2>0, <2>8 DEF Enqueue, Answer, PhaseInv, Waiting
  <2>4. BodyInv'
    BY <1>0, <1>4, <2>0, <2>8 DEF Enqueue, Answer, BodyInv, Awaited
  <2>5. FieldInv'
    BY <1>4, <2>8 DEF Enqueue, FieldInv
  <2>6. TrackInv'
    BY <1>0, <1>4, <2>8 DEF Enqueue, Answer, TrackInv, Active, DroppedSteps
  <2>7. QED
    BY <2>1, <2>2, <2>3, <2>4, <2>5, <2>6
<1>5. QED
  BY <1>1, <1>2, <1>3, <1>4 DEF Submit

------------------------------------------------------------------------------
(* job.status and job.result.                                               *)

LEMMA QueryWorkInv ==
  ASSUME TypeOK, ReserveInv, PlaceInv, PhaseInv, BodyInv, FieldInv, TrackInv,
         NEW t \in Threads, Query(t)
  PROVE  WorkInv'
<1> USE ConstantsAssumption DEF TypeOK, WorkInv, registry, machine, jobVars, errVars,
        workerVars
<1>0. /\ GT \in Threads /\ tpc \in [Threads -> {"idle"} \cup SubmitSteps \cup ReadSteps \cup GtSteps]
      /\ tjob \in [Threads -> Jobs \cup {Nobody}]
      /\ \A u \in Threads : Reserving(u) => tjob[u] \in Jobs
      /\ Nobody \notin Jobs
  BY DEF ThreadTypes, Threads, Reserving, SubmitSteps
<1>1. /\ t # GT
      /\ tpc[t] \in {"idle", "readState", "readRest", "getResult"}
      /\ UNCHANGED <<tracked, jobVars, machine>>
      /\ \E s \in {"idle", "readState", "readRest", "getResult"} : tpc' = [tpc EXCEPT ![t] = s]
      /\ \/ UNCHANGED tjob
         \/ tjob' = [tjob EXCEPT ![t] = Nobody]
         \/ \E j \in Jobs : state[j] # "New" /\ tjob' = [tjob EXCEPT ![t] = j]
  <2>1. CASE BeginResult(t)
    BY <2>1 DEF BeginResult, MayBegin, Goto
  <2>2. CASE ReadState(t)
    BY <2>2 DEF ReadState, Answer, Goto, ThreadTypes, ReadSteps
  <2>3. CASE ReadRest(t)
    BY <2>3 DEF ReadRest, Answer, Goto, ThreadTypes, ReadSteps
  <2>4. CASE GetResult(t)
    BY <2>4 DEF GetResult, Answer, ThreadTypes, ReadSteps
  <2>5. QED
    BY <2>1, <2>2, <2>3, <2>4 DEF Query
<1>2. ReserveInv'
  BY <1>0, <1>1 DEF ReserveInv, Reserving
<1>3. PlaceInv'
  BY <1>0, <1>1 DEF PlaceInv, Submitted, Waiting, Carried, Enqueuer, Active
<1>4. PhaseInv'
  BY <1>0, <1>1 DEF PhaseInv, Waiting
<1>5. BodyInv'
  BY <1>0, <1>1 DEF BodyInv, Awaited
<1>6. FieldInv'
  BY <1>1 DEF FieldInv
<1>7. TrackInv'
  BY <1>0, <1>1 DEF TrackInv, Active, DroppedSteps
<1>8. QED
  BY <1>2, <1>3, <1>4, <1>5, <1>6, <1>7

------------------------------------------------------------------------------
(* ExecuteJobOnWorker.                                                      *)

\* What every step of a worker after Dequeue has in common: it moves w, it
\* changes the state of the job w carries and of no other, and w lets go of
\* the job only when that is no longer active.
ActiveStates == {"Pending", "Running"}

BusyStep(w) ==
  /\ wpc[w] # "idle" /\ wjob[w] \in Jobs
  /\ UNCHANGED <<tracked, cancelReq, workQueue, tpc, tjob>>
  /\ \E s \in WorkerSteps : wpc' = [wpc EXCEPT ![w] = s]
  /\ state[wjob[w]] # "New"
  /\ \E s \in States \ {"New"} :
       /\ state' = [state EXCEPT ![wjob[w]] = s]
       /\ s \in ActiveStates => Active(wjob[w])
       /\ \/ UNCHANGED wjob
          \/ s \notin ActiveStates /\ wjob' = [wjob EXCEPT ![w] = Nobody]

LEMMA WorkIsBusyStep ==
  ASSUME TypeOK, PhaseInv, NEW w \in Workers, Work(w), ~Dequeue(w)
  PROVE  BusyStep(w)
<1> USE ConstantsAssumption DEF TypeOK
<1>0. /\ state \in [Jobs -> States]
      /\ wpc \in [Workers -> WorkerSteps] /\ wjob \in [Workers -> Jobs \cup {Nobody}]
      /\ wpc[w] = "idle" <=> wjob[w] = Nobody
  BY DEF JobTypes, WorkerTypes
<1>1. wpc[w] # "idle"
  BY DEF Work, LoadCancel, StoreCancelled, StampCancelled, StoreRunning, EnterBody,
     RunBody, WriteError, FutureGet, StampFinished, SettleValue, SettleCancelled,
     SettleError, SettleNull, FillError, Publish
<1>2. wjob[w] \in Jobs /\ state[wjob[w]] # "New" /\ state[wjob[w]] \in States
  BY <1>0, <1>1 DEF PhaseInv, WorkerSteps, BodySteps, SettleSteps
<1>3. UNCHANGED state => state' = [state EXCEPT ![wjob[w]] = state[wjob[w]]]
  BY <1>0
<1>4. CASE UNCHANGED <<state, wjob>>
  <2>1. \E s \in WorkerSteps : wpc' = [wpc EXCEPT ![w] = s]
    BY <1>0, <1>4 DEF Work, LoadCancel, StoreCancelled, StampCancelled, StoreRunning, EnterBody,
       RunBody, WriteError, FutureGet, StampFinished, SettleValue, SettleCancelled,
       SettleError, SettleNull, FillError, Publish, WGoto, WDone, WorkerSteps
  <2>2. UNCHANGED <<tracked, cancelReq, workQueue, tpc, tjob>>
    BY DEF Work, LoadCancel, StoreCancelled, StampCancelled, StoreRunning, EnterBody,
       RunBody, WriteError, FutureGet, StampFinished, SettleValue, SettleCancelled,
       SettleError, SettleNull, FillError, Publish, registry, notMine, threadVars, jobVars
  <2>3. /\ state[wjob[w]] \in States \ {"New"}
        /\ state' = [state EXCEPT ![wjob[w]] = state[wjob[w]]]
        /\ state[wjob[w]] \in ActiveStates => Active(wjob[w])
    BY <1>2, <1>3, <1>4 DEF Active, ActiveStates
  <2>4. QED
    <3>1. UNCHANGED wjob
      BY <1>4
    <3>2. QED
      BY <1>1, <1>2, <2>1, <2>2, <2>3, <3>1 DEF BusyStep
<1>5. CASE StoreCancelled(w) \/ StoreRunning(w)
  <2>1. PICK s \in {"Cancelled", "Running"} : state' = [state EXCEPT ![wjob[w]] = s]
    BY <1>5 DEF StoreCancelled, StoreRunning, SetState
  <2>2. s \in States \ {"New"} /\ Active(wjob[w])
    BY <1>5 DEF StoreCancelled, StoreRunning, PhaseInv, Active, States, TerminalStates
  <2>3. UNCHANGED <<wjob, notMine>> /\ \E p \in WorkerSteps : wpc' = [wpc EXCEPT ![w] = p]
    BY <1>5 DEF StoreCancelled, StoreRunning, WGoto, WorkerSteps
  <2>4. QED
    <3>1. UNCHANGED <<tracked, cancelReq, workQueue, tpc, tjob>> /\ UNCHANGED wjob
      BY <2>3 DEF notMine, threadVars
    <3>2. QED
      BY <1>1, <1>2, <2>1, <2>2, <2>3, <3>1 DEF BusyStep
<1>6. CASE StampCancelled(w)
  <2>1. state[wjob[w]] = "Cancelled"
    BY <1>6 DEF StampCancelled, PhaseInv
  <2>2. QED
    BY <1>0, <1>1, <1>2, <1>3, <1>6, <2>1 DEF StampCancelled, WDone, notMine, threadVars,
       BusyStep, Active, ActiveStates, WorkerSteps
<1>7. CASE SettleCancelled(w) \/ SettleError(w) \/ Publish(w)
  <2>1. PICK s \in TerminalStates : state' = [state EXCEPT ![wjob[w]] = s]
    BY <1>7 DEF SettleCancelled, SettleError, Publish, SetState, TerminalStates
  <2>2. s \in States \ {"New"} /\ s \notin ActiveStates
    BY DEF TerminalStates, States, ActiveStates
  <2>3. WDone(w) /\ UNCHANGED notMine
    BY <1>7, Zenon DEF SettleCancelled, SettleError, Publish
  <2>4. QED
    BY <1>0, <1>1, <1>2, <2>1, <2>2, <2>3 DEF WDone, notMine, threadVars, BusyStep,
       WorkerSteps
<1>8. QED
  <2>1. CASE LoadCancel(w) \/ EnterBody(w) \/ FutureGet(w)
    BY <1>4, <2>1 DEF LoadCancel, EnterBody, FutureGet, registry, jobVars
  <2>2. CASE RunBody(w) \/ WriteError(w) \/ StampFinished(w) \/ SettleValue(w)
    BY <1>4, <2>2 DEF RunBody, WriteError, StampFinished, SettleValue
  <2>3. CASE SettleNull(w) \/ FillError(w)
    BY <1>4, <2>3 DEF SettleNull, FillBeforePublish, FillError
  <2>4. QED
    BY <1>5, <1>6, <1>7, <2>1, <2>2, <2>3 DEF Work

LEMMA BusyPlaces ==
  ASSUME TypeOK, ReserveInv, PlaceInv, PhaseInv, TrackInv, NEW w \in Workers, BusyStep(w)
  PROVE  ReserveInv' /\ PlaceInv' /\ TrackInv'
<1> USE ConstantsAssumption DEF TypeOK, BusyStep
<1>0. /\ state \in [Jobs -> States]
      /\ wpc \in [Workers -> WorkerSteps] /\ wjob \in [Workers -> Jobs \cup {Nobody}]
      /\ Nobody \notin Jobs
  BY DEF JobTypes, WorkerTypes
<1>1. ReserveInv'
  BY <1>0 DEF ReserveInv, Reserving
<1>2. PlaceInv'
  <2>1. \A v \in Workers : wjob'[v] # Nobody => wjob'[v] = wjob[v]
    BY <1>0
  <2>2. \A i \in Jobs : Carried(i)' => Carried(i)
    BY <2>1, <1>0 DEF Carried
  <2>3. \A i \in Jobs : Active(i)' /\ Carried(i) => Carried(i)'
    BY <1>0 DEF Carried, Active, ActiveStates, PlaceInv
  <2>4. \A i \in Jobs : Active(i)' => Active(i)
    BY <1>0 DEF Active, ActiveStates
  <2>5. \A i \in Jobs : /\ Waiting(i)' <=> Waiting(i)
                        /\ Submitted(i)' <=> Submitted(i)
    BY DEF Waiting, Submitted, Enqueuer
  <2>6. \A v, u \in Workers : wjob'[v] = wjob'[u] /\ wjob'[v] # Nobody => v = u
    BY <2>1 DEF PlaceInv
  <2>7. \A t \in Threads : tpc[t] = "enqueue" => tjob[t] \in Jobs
    BY DEF ThreadTypes, SubmitSteps
  <2>8. QED
    BY <2>2, <2>3, <2>4, <2>5, <2>6, <2>7 DEF PlaceInv, Waiting, Carried
<1>3. TrackInv'
  BY <1>0 DEF TrackInv, Active, ActiveStates
<1>4. QED
  BY <1>1, <1>2, <1>3

\* The job a worker carries is in no other hands.
LEMMA CarriedAlone ==
  ASSUME TypeOK, PlaceInv, NEW w \in Workers, wpc[w] # "idle"
  PROVE  /\ wjob[w] \in Jobs
         /\ \A v \in Workers : v # w => wjob[v] # wjob[w]
         /\ wjob[w] \notin Range(workQueue)
         /\ \A t \in Threads : tpc[t] = "enqueue" => tjob[t] # wjob[w]
<1>1. wjob[w] \in Jobs /\ wjob[w] # Nobody
  BY ConstantsAssumption DEF TypeOK, WorkerTypes
<1>2. QED
  BY <1>1 DEF PlaceInv, Waiting, Carried

LEMMA BusyPhase ==
  ASSUME TypeOK, PlaceInv, PhaseInv, NEW w \in Workers, Work(w), BusyStep(w)
  PROVE  PhaseInv'
<1> USE ConstantsAssumption DEF TypeOK
<1>0. /\ state \in [Jobs -> States] /\ \E s \in States : state' = [state EXCEPT ![wjob[w]] = s]
      /\ wpc \in [Workers -> WorkerSteps] /\ wjob \in [Workers -> Jobs \cup {Nobody}]
      /\ \A v \in Workers : wpc[v] = "idle" <=> wjob[v] = Nobody
      /\ \A t \in Threads : tpc[t] = "enqueue" => tjob[t] \in Jobs
      /\ UNCHANGED <<workQueue, tpc, tjob>>
      /\ Nobody \notin Jobs /\ wpc[w] # "idle"
  BY DEF JobTypes, WorkerTypes, ThreadTypes, SubmitSteps, BusyStep
<1>1. /\ wjob[w] \in Jobs
      /\ \A v \in Workers : v # w => wjob[v] # wjob[w]
      /\ wjob[w] \notin Range(workQueue)
      /\ \A t \in Threads : tpc[t] = "enqueue" => tjob[t] # wjob[w]
  BY <1>0, CarriedAlone
<1>2. \A v \in Workers : v # w /\ wpc[v] # "idle" =>
        wpc'[v] = wpc[v] /\ wjob'[v] = wjob[v] /\ state'[wjob[v]] = state[wjob[v]]
  BY <1>0, <1>1 DEF BusyStep
<1>3. /\ \A t \in Threads : tpc'[t] = "enqueue" => state'[tjob'[t]] = "Pending"
      /\ \A j \in Jobs : Waiting(j)' => state'[j] = "Pending"
  BY <1>0, <1>1 DEF PhaseInv, Waiting
<1>4. /\ wpc'[w] \in {"loadCancel", "storeCancelled", "storeRunning"} => state'[wjob'[w]] = "Pending"
      /\ wpc'[w] = "stampCancelled" => state'[wjob'[w]] = "Cancelled"
      /\ wpc'[w] \in BodySteps \cup SettleSteps => state'[wjob'[w]] = "Running"
  <2> USE DEF PhaseInv, BodySteps, SettleSteps, WGoto, WDone
  <2>1. CASE LoadCancel(w) \/ StoreCancelled(w) \/ StoreRunning(w)
    BY <1>0, <1>1, <2>1 DEF LoadCancel, StoreCancelled, StoreRunning, SetState, registry, jobVars
  <2>2. CASE EnterBody(w) \/ RunBody(w) \/ WriteError(w) \/ FutureGet(w)
    BY <1>0, <1>1, <2>2 DEF EnterBody, RunBody, WriteError, FutureGet, registry, jobVars
  <2>3. CASE StampFinished(w) \/ SettleValue(w) \/ SettleNull(w) \/ FillError(w)
    BY <1>0, <1>1, <2>3 DEF StampFinished, SettleValue, SettleNull, FillBeforePublish, FillError
  <2>4. CASE StampCancelled(w) \/ SettleCancelled(w) \/ SettleError(w) \/ Publish(w)
    <3>1. wpc'[w] = "idle"
      BY <1>0, <2>4 DEF StampCancelled, SettleCancelled, SettleError, Publish
    <3>2. QED
      BY <3>1
  <2>5. QED
    BY <1>0, <2>1, <2>2, <2>3, <2>4 DEF Work, Dequeue
<1>5. QED
  <2>1. \A v \in Workers : wpc'[v] # "idle" => v = w \/ wpc[v] # "idle"
    BY <1>0 DEF BusyStep
  <2>2. QED
    BY <1>2, <1>3, <1>4, <2>1 DEF PhaseInv, BodySteps, SettleSteps

\* A step of a worker writes no field of another job.
LEMMA BusyWritesOwn ==
  ASSUME TypeOK, NEW w \in Workers, Work(w), BusyStep(w), NEW i \in Jobs, i # wjob[w]
  PROVE  /\ state'[i] = state[i] /\ errMsg'[i] = errMsg[i] /\ result'[i] = result[i]
         /\ finishedAt'[i] = finishedAt[i] /\ returned'[i] = returned[i]
         /\ i \in writing' <=> i \in writing
<1> USE DEF TypeOK, JobTypes, BusyStep
<1>1. CASE LoadCancel(w) \/ EnterBody(w) \/ FutureGet(w)
  BY <1>1 DEF LoadCancel, EnterBody, FutureGet, registry, jobVars, errVars
<1>2. CASE RunBody(w) \/ WriteError(w)
  BY <1>2 DEF RunBody, WriteError, BodyReturns, BodyBeginsError, BodyEndsError
<1>3. CASE StoreCancelled(w) \/ StoreRunning(w) \/ SettleCancelled(w) \/ SettleError(w) \/ Publish(w)
  BY <1>3 DEF StoreCancelled, StoreRunning, SettleCancelled, SettleError, Publish, errVars
<1>4. CASE StampCancelled(w) \/ StampFinished(w) \/ SettleValue(w)
  BY <1>4 DEF StampCancelled, StampFinished, SettleValue, StoreResult, Stamp, errVars
<1>5. CASE SettleNull(w) \/ FillError(w)
  BY <1>5 DEF SettleNull, FillError, FillBeforePublish, BeginFill
<1>6. QED
  BY <1>1, <1>2, <1>3, <1>4, <1>5 DEF Work, Dequeue

LEMMA BusyFields ==
  ASSUME TypeOK, PlaceInv, PhaseInv, FieldInv, NEW w \in Workers, Work(w), BusyStep(w)
  PROVE  FieldInv'
<1> USE ConstantsAssumption DEF TypeOK
<1> DEFINE j == wjob[w]
<1>0. /\ state \in [Jobs -> States] /\ errMsg \in [Jobs -> Messages]
      /\ result \in [Jobs -> BOOLEAN] /\ finishedAt \in [Jobs -> Nat]
      /\ wpc \in [Workers -> WorkerSteps] /\ wjob \in [Workers -> Jobs \cup {Nobody}]
      /\ \A v \in Workers : wpc[v] = "idle" <=> wjob[v] = Nobody
      /\ now \in Nat \ {0}
      /\ Nobody \notin Jobs /\ wpc[w] # "idle" /\ UNCHANGED cancelReq
  BY DEF JobTypes, WorkerTypes, QueueTypes, BusyStep
<1>1. /\ j \in Jobs
      /\ \A v \in Workers : v # w => wjob[v] # j
  BY <1>0, CarriedAlone
<1>2. \A i \in Jobs : i # j => /\ state'[i] = state[i] /\ errMsg'[i] = errMsg[i]
                               /\ result'[i] = result[i] /\ finishedAt'[i] = finishedAt[i]
  BY BusyWritesOwn
<1>3. \A v \in Workers : v # w => wpc'[v] = wpc[v] /\ wjob'[v] = wjob[v]
  BY <1>0 DEF BusyStep
<1>4. wjob'[w] = j \/ wpc'[w] = "idle"
  BY <1>0 DEF Work, LoadCancel, StoreCancelled, StampCancelled, StoreRunning, EnterBody, RunBody,
     WriteError, FutureGet, StampFinished, SettleValue, SettleCancelled, SettleError,
     SettleNull, FillError, Publish, registry, notMine, WGoto, WDone, BusyStep, Dequeue
<1>5. /\ wpc'[w] \in SettleSteps => finishedAt'[j] > 0
      /\ wpc'[w] \in {"fillError", "publishFail"} => errMsg'[j] # "none"
      /\ wpc'[w] = "publishOk" => result'[j]
      /\ wpc'[w] = "storeCancelled" => cancelReq'[j]
      /\ state'[j] \in {"New", "Pending"} => errMsg'[j] = "none"
      /\ state'[j] = "Failed" => errMsg'[j] # "none"
      /\ state'[j] \in {"Succeeded", "Failed"} => finishedAt'[j] > 0
      /\ state'[j] = "Succeeded" => result'[j]
      /\ state'[j] = "Cancelled" => cancelReq'[j]
      /\ result'[j] => state'[j] = "Succeeded" \/ wpc'[w] = "publishOk"
  <2>0. /\ wpc[w] \in {"loadCancel", "storeCancelled", "storeRunning"} => state[j] = "Pending"
        /\ wpc[w] = "stampCancelled" => state[j] = "Cancelled"
        /\ wpc[w] \in BodySteps \cup SettleSteps => state[j] = "Running"
        /\ wpc[w] \in SettleSteps => finishedAt[j] > 0
        /\ wpc[w] \in {"fillError", "publishFail"} => errMsg[j] # "none"
        /\ wpc[w] = "publishOk" => result[j]
        /\ wpc[w] = "storeCancelled" => cancelReq[j]
        /\ state[j] \in {"New", "Pending"} => errMsg[j] = "none"
        /\ state[j] = "Cancelled" => cancelReq[j]
        /\ result[j] => state[j] = "Succeeded" \/ wpc[w] = "publishOk"
    BY <1>0, <1>1 DEF PhaseInv, FieldInv
  <2> HIDE DEF j
  <2> USE <1>0, <1>1, <2>0 DEF BodySteps, SettleSteps, WGoto, WDone
  <2>1. CASE LoadCancel(w) \/ FutureGet(w)
    BY <2>1 DEF j, LoadCancel, FutureGet, registry, jobVars, errVars
  <2>2. CASE EnterBody(w)
    BY <2>2 DEF EnterBody, registry, jobVars, errVars
  <2>3. CASE StoreCancelled(w) \/ StoreRunning(w)
    BY <2>3 DEF j, StoreCancelled, StoreRunning, SetState, errVars
  <2>4. CASE RunBody(w) \/ WriteError(w)
    BY <2>4 DEF RunBody, WriteError
  <2>5. CASE StampCancelled(w) \/ StampFinished(w)
    BY <2>5 DEF j, StampCancelled, StampFinished, Stamp, errVars
  <2>6. CASE SettleValue(w) \/ SettleNull(w) \/ FillError(w)
    BY <2>6 DEF j, SettleValue, StoreResult, SettleNull, FillBeforePublish, BeginFill, FillError, errVars
  <2>7. CASE SettleCancelled(w) \/ SettleError(w)
    BY <2>7 DEF j, SettleCancelled, SettleError, SetState, errVars
  <2>8. CASE Publish(w)
    BY <2>8 DEF j, Publish, SetState, errVars
  <2>9. QED
    BY <2>1, <2>2, <2>3, <2>4, <2>5, <2>6, <2>7, <2>8 DEF Work, Dequeue
<1>6. QED
  <2> HIDE DEF j
  <2>1. \A v \in Workers : wpc'[v] # "idle" => /\ v = w => wjob'[v] = j
                                               /\ v # w => wjob'[v] \in Jobs /\ wjob'[v] # j
    BY <1>0, <1>1, <1>3, <1>4 DEF j
  <2>2. ASSUME NEW v \in Workers
        PROVE  /\ wpc'[v] \in SettleSteps => finishedAt'[wjob'[v]] > 0
               /\ wpc'[v] \in {"fillError", "publishFail"} => errMsg'[wjob'[v]] # "none"
               /\ wpc'[v] = "publishOk" => result'[wjob'[v]]
               /\ wpc'[v] = "storeCancelled" => cancelReq'[wjob'[v]]
    <3>1. CASE v = w
      BY <1>5, <2>1, <3>1 DEF SettleSteps
    <3>2. CASE v # w
      BY <1>0, <1>2, <1>3, <2>1, <3>2 DEF FieldInv, SettleSteps
    <3>3. QED
      BY <3>1, <3>2
  <2>3. ASSUME NEW i \in Jobs, result'[i]
        PROVE  state'[i] = "Succeeded" \/ \E v \in Workers : wjob'[v] = i /\ wpc'[v] = "publishOk"
    <3>1. CASE i = j
      BY <1>5, <2>1, <2>3, <3>1
    <3>2. CASE i # j
      BY <1>1, <1>2, <1>3, <2>3, <3>2 DEF FieldInv, j
    <3>3. QED
      BY <3>1, <3>2
  <2>4. QED
    BY <1>0, <1>2, <1>5, <2>2, <2>3 DEF FieldInv

LEMMA BusyBodies ==
  ASSUME TypeOK, PlaceInv, PhaseInv, BodyInv, NEW w \in Workers, Work(w), BusyStep(w)
  PROVE  BodyInv'
<1> USE ConstantsAssumption DEF TypeOK
<1>0. /\ state \in [Jobs -> States] /\ returned \in [Jobs -> Returns]
      /\ wpc \in [Workers -> WorkerSteps] /\ wjob \in [Workers -> Jobs \cup {Nobody}]
      /\ ticker \in Seq(Jobs) /\ writing \subseteq Jobs
      /\ Range(ticker) \subseteq Jobs
      /\ tpc[GT] = "gtWriteError" => tjob[GT] \in Jobs
      /\ Nobody \notin Jobs /\ wpc[w] # "idle" /\ UNCHANGED <<tpc, tjob>>
  BY DEF JobTypes, WorkerTypes, QueueTypes, ThreadTypes, Threads, BusyStep, Range
<1>1. PICK j \in Jobs : j = wjob[w] /\ \A v \in Workers : v # w => wjob[v] # j
  BY <1>0, CarriedAlone
<1>2. \A i \in Jobs : i # j => /\ state'[i] = state[i] /\ returned'[i] = returned[i]
                               /\ i \in writing' <=> i \in writing
  BY <1>1, BusyWritesOwn
<1>3. \A v \in Workers : v # w => wpc'[v] = wpc[v] /\ wjob'[v] = wjob[v]
  BY <1>0 DEF BusyStep
<1>4. wjob'[w] = j \/ wpc'[w] = "idle"
  BY <1>0, <1>1 DEF Work, LoadCancel, StoreCancelled, StampCancelled, StoreRunning, EnterBody, RunBody,
     WriteError, FutureGet, StampFinished, SettleValue, SettleCancelled, SettleError,
     SettleNull, FillError, Publish, registry, notMine, WGoto, WDone, BusyStep, Dequeue
<1>5. wpc[w] # "gtWait" \/ returned[j] # "unset"
  BY <1>1 DEF Work, LoadCancel, StoreCancelled, StampCancelled, StoreRunning, EnterBody, RunBody,
     WriteError, FutureGet, FutureReady, StampFinished, SettleValue, SettleCancelled,
     SettleError, SettleNull, FillError, Publish, BusyStep, Dequeue
<1>6. j \notin Range(ticker) /\ (tpc[GT] = "gtWriteError" => tjob[GT] # j)
  BY <1>1, <1>5 DEF BodyInv, Awaited
<1>7. \A i \in Jobs : i # j => (Awaited(i)' <=> Awaited(i))
  <2>1. \A i \in Jobs : i # j => \A v \in Workers :
          (wjob'[v] = i /\ wpc'[v] = "gtWait") <=> (wjob[v] = i /\ wpc[v] = "gtWait")
    BY <1>0, <1>1, <1>3, <1>4
  <2>2. QED
    BY <2>1 DEF Awaited
<1>8. /\ state'[j] \in {"New", "Pending"} => returned'[j] = "unset"
      /\ wpc'[w] \in {"enterBody", "inBody", "writeError"} => returned'[j] = "unset"
      /\ j \in writing' => wpc'[w] \in {"writeError", "fillError"}
      /\ \/ UNCHANGED ticker
         \/ ticker' = Append(ticker, j) /\ wpc'[w] = "gtWait" /\ returned'[j] = "unset"
  <2>0. /\ wpc[w] \in {"loadCancel", "storeCancelled", "storeRunning"} => state[j] = "Pending"
        /\ wpc[w] = "stampCancelled" => state[j] = "Cancelled"
        /\ wpc[w] \in BodySteps \cup SettleSteps => state[j] = "Running"
        /\ state[j] \in {"New", "Pending"} => returned[j] = "unset"
        /\ wpc[w] \in {"enterBody", "inBody", "writeError"} => returned[j] = "unset"
        /\ j \in writing => wpc[w] \in {"writeError", "fillError"}
    BY <1>0, <1>1, <1>6 DEF PhaseInv, BodyInv
  <2> USE <1>0, <1>1, <2>0 DEF BodySteps, SettleSteps, WGoto, WDone
  <2>1. CASE LoadCancel(w) \/ FutureGet(w)
    BY <2>1 DEF LoadCancel, FutureGet, registry, jobVars, errVars
  <2>2. CASE EnterBody(w)
    BY <2>2 DEF EnterBody, registry, jobVars, errVars
  <2>3. CASE StoreCancelled(w) \/ StoreRunning(w) \/ StampCancelled(w) \/ StampFinished(w)
    BY <2>3 DEF StoreCancelled, StoreRunning, StampCancelled, StampFinished, SetState, notMine, errVars
  <2>4. CASE RunBody(w)
    BY <2>4 DEF RunBody, BodyReturns, BodyBeginsError, notMine
  <2>5. CASE WriteError(w)
    BY <2>5 DEF WriteError, BodyEndsError, notMine
  <2>6. CASE SettleValue(w) \/ SettleNull(w) \/ FillError(w)
    BY <2>6 DEF SettleValue, SettleNull, FillBeforePublish, BeginFill, FillError, notMine, errVars
  <2>7. CASE SettleCancelled(w) \/ SettleError(w) \/ Publish(w)
    BY <2>7 DEF SettleCancelled, SettleError, Publish, SetState, notMine, errVars
  <2>8. QED
    BY <2>1, <2>2, <2>3, <2>4, <2>5, <2>6, <2>7 DEF Work, Dequeue
<1>9. QED
  <2>1. /\ IsInjective(ticker')
        /\ \/ Range(ticker') = Range(ticker)
           \/ /\ Range(ticker') = Range(ticker) \cup {j}
              /\ wpc'[w] = "gtWait" /\ returned'[j] = "unset"
    <3>1. CASE UNCHANGED ticker
      BY <3>1 DEF BodyInv
    <3>2. CASE ticker' = Append(ticker, j) /\ wpc'[w] = "gtWait" /\ returned'[j] = "unset"
      BY <1>0, <1>1, <1>6, <3>2, AppendFresh DEF BodyInv
    <3>3. QED
      BY <1>8, <3>1, <3>2
  <2>2. \A i \in Jobs : state'[i] \in {"New", "Pending"} => returned'[i] = "unset"
    BY <1>2, <1>8 DEF BodyInv
  <2>3. \A v \in Workers : wpc'[v] \in {"enterBody", "inBody", "writeError"}
                             => returned'[wjob'[v]] = "unset"
    <3>1. \A v \in Workers : v # w /\ wpc[v] # "idle" => wjob[v] \in Jobs /\ wjob[v] # j
      BY <1>0, <1>1 DEF WorkerTypes
    <3>2. QED
      BY <1>2, <1>3, <1>4, <1>8, <3>1 DEF BodyInv
  <2>4. \A i \in Range(ticker') : Awaited(i)' /\ returned'[i] = "unset"
    <3>1. \A i \in Range(ticker) : Awaited(i)' /\ returned'[i] = "unset"
      BY <1>0, <1>2, <1>6, <1>7 DEF BodyInv
    <3>2. wpc'[w] = "gtWait" => Awaited(j)'
      BY <1>4 DEF Awaited
    <3>3. QED
      BY <2>1, <3>1, <3>2
  <2>5. tpc'[GT] = "gtWriteError" => /\ Awaited(tjob[GT])' /\ returned'[tjob'[GT]] = "unset"
                                     /\ tjob'[GT] \notin Range(ticker')
    BY <1>0, <1>2, <1>6, <1>7, <2>1 DEF BodyInv
  <2>6. \A i \in writing' : \/ \E v \in Workers : /\ wjob'[v] = i
                                                  /\ wpc'[v] \in {"writeError", "fillError"}
                            \/ tpc'[GT] = "gtWriteError" /\ tjob'[GT] = i
    <3>1. writing' \subseteq writing \cup {j}
      <4>1. writing' \subseteq Jobs
        BY WorkTypeOK DEF JobTypes
      <4>2. QED
        BY <1>2, <4>1
    <3>2. ASSUME NEW i \in writing, i # j
          PROVE  \/ \E v \in Workers : wjob'[v] = i /\ wpc'[v] \in {"writeError", "fillError"}
                 \/ tpc'[GT] = "gtWriteError" /\ tjob'[GT] = i
      BY <1>0, <1>1, <1>3, <3>2 DEF BodyInv
    <3>3. QED
      BY <1>4, <1>8, <3>1, <3>2
  <2>7. QED
    BY <2>1, <2>2, <2>3, <2>4, <2>5, <2>6 DEF BodyInv

LEMMA DequeueWorkInv ==
  ASSUME TypeOK, ReserveInv, PlaceInv, PhaseInv, BodyInv, FieldInv, TrackInv,
         NEW w \in Workers, Dequeue(w)
  PROVE  WorkInv'
<1> USE ConstantsAssumption DEF TypeOK
<1>0. /\ wpc \in [Workers -> WorkerSteps] /\ wjob \in [Workers -> Jobs \cup {Nobody}]
      /\ workQueue \in Seq(Jobs) /\ workQueue # <<>> /\ wpc[w] = "idle" /\ wjob[w] = Nobody
      /\ wpc' = [wpc EXCEPT ![w] = "loadCancel"]
      /\ wjob' = [wjob EXCEPT ![w] = Head(workQueue)]
      /\ workQueue' = Tail(workQueue)
      /\ UNCHANGED <<registry, threadVars, ticker>>
  BY DEF WorkerTypes, QueueTypes, Dequeue, WGoto
<1>1. PICK j \in Jobs : /\ j = Head(workQueue) /\ j \in Range(workQueue)
                        /\ IsInjective(workQueue')
                        /\ Range(workQueue') = Range(workQueue) \ {j}
  BY <1>0, TailFresh DEF PlaceInv
<1>2. ~Carried(j) /\ state[j] = "Pending" /\ \A t \in Threads : tpc[t] = "enqueue" => tjob[t] # j
  BY <1>1 DEF PlaceInv, PhaseInv, Waiting
<1>3. UNCHANGED <<tracked, state, cancelReq, errMsg, writing, result, finishedAt, returned,
                  tpc, tjob, ticker>>
  BY <1>0 DEF registry, jobVars, errVars, threadVars
<1>4. \A v \in Workers : v # w => wpc'[v] = wpc[v] /\ wjob'[v] = wjob[v] /\ wjob[v] # j
  BY <1>0, <1>2 DEF Carried
<1>5. wpc'[w] = "loadCancel" /\ wjob'[w] = j
  BY <1>0, <1>1
<1>6. ReserveInv' /\ TrackInv'
  BY <1>3 DEF ReserveInv, Reserving, TrackInv, Active
<1>7. PlaceInv'
  <2>1. \A i \in Jobs : /\ i # j => (Carried(i)' <=> Carried(i))
                        /\ Waiting(i)' <=> Waiting(i) /\ i # j
    <3>1. \A i \in Jobs : i # j => (Carried(i)' <=> Carried(i))
      BY <1>0, <1>4, <1>5 DEF Carried
    <3>2. QED
      BY <1>1, <3>1 DEF Waiting
  <2>2. Carried(j)'
    BY <1>5 DEF Carried
  <2>3. \A i \in Jobs : (Submitted(i)' <=> Submitted(i)) /\ (Active(i)' <=> Active(i))
    BY <1>3 DEF Submitted, Enqueuer, Active
  <2>4. \A v, u \in Workers : wjob'[v] = wjob'[u] /\ wjob'[v] # Nobody => v = u
    BY <1>4, <1>5 DEF PlaceInv
  <2>5. \A t \in Threads : tpc[t] = "enqueue" => tjob[t] \in Jobs
    BY DEF ThreadTypes, SubmitSteps
  <2>6. \A t \in Threads : tpc[t] = "enqueue" => ~Waiting(tjob[t])' /\ ~Carried(tjob[t])'
    <3>1. ASSUME NEW t \in Threads, tpc[t] = "enqueue" PROVE ~Waiting(tjob[t])' /\ ~Carried(tjob[t])'
      <4>1. PICK i \in Jobs : i = tjob[t] /\ i # j
        BY <1>2, <2>5, <3>1
      <4>2. ~Waiting(i) /\ ~Carried(i)
        BY <3>1, <4>1 DEF PlaceInv
      <4>3. ~Waiting(i)' /\ ~Carried(i)'
        BY <2>1, <4>1, <4>2
      <4>4. QED
        BY <1>3, <4>1, <4>3 DEF Waiting, Carried
    <3>2. QED
      BY <3>1
  <2>7. QED
    BY <1>1, <1>3, <2>1, <2>2, <2>3, <2>4, <2>6 DEF PlaceInv, Waiting, Carried
<1>8. PhaseInv'
  BY <1>1, <1>2, <1>3, <1>4, <1>5 DEF PhaseInv, Waiting, BodySteps, SettleSteps
<1>9. BodyInv'
  <2>1. \A i \in Jobs : Awaited(i)' <=> Awaited(i)
    BY <1>0, <1>4, <1>5 DEF Awaited
  <2>2. Range(ticker) \subseteq Jobs /\ (tpc[GT] = "gtWriteError" => tjob[GT] \in Jobs)
    BY DEF QueueTypes, Range, ThreadTypes, Threads
  <2>3. \A i \in writing : \/ \E v \in Workers : wjob'[v] = i /\ wpc'[v] \in {"writeError", "fillError"}
                           \/ tpc[GT] = "gtWriteError" /\ tjob[GT] = i
    BY <1>0, <1>4 DEF BodyInv
  <2>4. \A v \in Workers : wpc'[v] \in {"enterBody", "inBody", "writeError"}
                             => returned[wjob'[v]] = "unset"
    BY <1>4, <1>5 DEF BodyInv
  <2>5. tpc[GT] = "gtWriteError" => Awaited(tjob[GT])'
    <3>1. tpc[GT] = "gtWriteError" => Awaited(tjob[GT])
      BY DEF BodyInv
    <3>2. QED
      BY <1>3, <2>1, <2>2, <3>1 DEF Awaited
  <2>6. QED
    BY <1>3, <2>1, <2>2, <2>3, <2>4, <2>5 DEF BodyInv
<1>10. FieldInv'
  BY <1>0, <1>3, <1>4, <1>5 DEF FieldInv, SettleSteps
<1>11. QED
  BY <1>6, <1>7, <1>8, <1>9, <1>10 DEF WorkInv

LEMMA WorkWorkInv ==
  ASSUME TypeOK, ReserveInv, PlaceInv, PhaseInv, BodyInv, FieldInv, TrackInv,
         NEW w \in Workers, Work(w)
  PROVE  WorkInv'
<1>1. CASE Dequeue(w)
  BY <1>1, DequeueWorkInv
<1>2. CASE ~Dequeue(w)
  <2>1. BusyStep(w)
    BY <1>2, WorkIsBusyStep
  <2>2. QED
    BY <2>1, BusyPlaces, BusyPhase, BusyBodies, BusyFields DEF WorkInv
<1>3. QED
  BY <1>1, <1>2

------------------------------------------------------------------------------
(* The game thread.                                                         *)

\* A step that moves only the program counter of the game thread, from and to
\* steps at which it has no job in hand, disturbs no place and no field.
IdleSteps == {"idle"} \cup (GtSteps \ {"gtWriteError"})

LEMMA UnloadStep ==
  ASSUME TypeOK, ReserveInv, PlaceInv, PhaseInv, BodyInv, tpc[GT] \in IdleSteps,
         UNCHANGED <<state, errVars, result, finishedAt, returned, machine, tjob>>,
         NEW s \in IdleSteps, tpc' = [tpc EXCEPT ![GT] = s]
  PROVE  /\ ReserveInv' /\ PlaceInv' /\ PhaseInv' /\ BodyInv'
         /\ (\A j \in Jobs : cancelReq[j] => cancelReq'[j]) /\ FieldInv => FieldInv'
<1> USE DEF machine, workerVars, errVars, IdleSteps, GtSteps
<1>1. /\ GT \in Threads /\ tpc \in [Threads -> {"idle"} \cup SubmitSteps \cup ReadSteps \cup GtSteps]
      /\ \A t \in Threads : t # GT => tpc'[t] = tpc[t]
      /\ tpc'[GT] = s
      /\ \A t \in Threads : tpc[t] = "enqueue" => tjob[t] \in Jobs
  BY DEF TypeOK, ThreadTypes, Threads, SubmitSteps
<1>2. ReserveInv'
  BY <1>1 DEF ReserveInv, Reserving
<1>3. PlaceInv'
  <2>1. \A j \in Jobs : /\ Submitted(j)' <=> Submitted(j)
                        /\ Waiting(j)' <=> Waiting(j)
                        /\ Carried(j)' <=> Carried(j)
                        /\ Active(j)' <=> Active(j)
    <3>1. \A t \in Threads, j \in Jobs : Enqueuer(t, j)' <=> Enqueuer(t, j)
      BY <1>1 DEF Enqueuer
    <3>2. QED
      BY <3>1 DEF Submitted, Waiting, Carried, Active
  <2>2. \A t \in Threads : tpc'[t] = "enqueue" <=> tpc[t] = "enqueue"
    BY <1>1
  <2>3. QED
    BY <1>1, <2>1, <2>2 DEF PlaceInv, Waiting, Carried
<1>4. PhaseInv'
  BY <1>1 DEF PhaseInv, Waiting
<1>5. BodyInv'
  BY <1>1 DEF BodyInv, Awaited
<1>6. (\A j \in Jobs : cancelReq[j] => cancelReq'[j]) /\ FieldInv => FieldInv'
  <2>1. \A w \in Workers : wpc[w] # "idle" => wjob[w] \in Jobs
    BY ConstantsAssumption DEF TypeOK, WorkerTypes
  <2>2. QED
    BY <2>1 DEF FieldInv
<1>7. QED
  BY <1>2, <1>3, <1>4, <1>5, <1>6

LEMMA ShutdownWorkInv ==
  ASSUME TypeOK, PoolInv, ReserveInv, PlaceInv, PhaseInv, BodyInv, FieldInv, TrackInv,
         StopServer \/ JoinConnections \/ BeginShutdown \/ DropJobs \/ DestroyPool
  PROVE  WorkInv'
<1>1. /\ tpc[GT] \in IdleSteps
      /\ \E s \in IdleSteps : tpc' = [tpc EXCEPT ![GT] = s]
      /\ UNCHANGED <<state, errVars, result, finishedAt, returned, machine, tjob>>
  BY DEF StopServer, JoinConnections, BeginShutdown, DropJobs, DestroyPool, Goto, registry,
     jobVars, IdleSteps, GtSteps
<1>2. \A j \in Jobs : cancelReq[j] => cancelReq'[j]
  BY DEF StopServer, JoinConnections, BeginShutdown, DropJobs, CancelAll, DestroyPool,
     registry, jobVars
<1>3. TrackInv'
  <2>0. GT \in Threads /\ tpc \in [Threads -> {"idle"} \cup SubmitSteps \cup ReadSteps \cup GtSteps]
    BY DEF TypeOK, ThreadTypes, Threads
  <2>1. \A j \in Jobs : Active(j)' <=> Active(j)
    BY <1>1 DEF Active
  <2>2. CASE DropJobs
    <3>1. tpc[GT] = "dropJobs" /\ tpc'[GT] \in DroppedSteps
      BY <2>0, <2>2 DEF DropJobs, Goto, DroppedSteps
    <3>2. \A j \in Jobs : Active(j) => cancelReq'[j]
      BY <2>2, <3>1 DEF DropJobs, CancelAll, TrackInv, DroppedSteps
    <3>3. QED
      BY <2>1, <3>1, <3>2 DEF TrackInv
  <2>3. CASE StopServer \/ JoinConnections \/ BeginShutdown
    <3>1. tpc[GT] \notin DroppedSteps /\ tpc'[GT] \notin DroppedSteps /\ UNCHANGED tracked
      BY <2>0, <2>3 DEF StopServer, JoinConnections, BeginShutdown, Goto, DroppedSteps, registry
    <3>2. QED
      BY <2>1, <3>1 DEF TrackInv
  <2>4. CASE DestroyPool
    <3>1. tpc[GT] \in DroppedSteps /\ tpc'[GT] \in DroppedSteps /\ UNCHANGED cancelReq
      BY <2>0, <2>4 DEF DestroyPool, Goto, DroppedSteps, jobVars
    <3>2. QED
      BY <2>1, <3>1 DEF TrackInv
  <2>5. QED
    BY <2>2, <2>3, <2>4
<1>4. QED
  BY <1>1, <1>2, <1>3, UnloadStep DEF WorkInv

LEMMA AskWorkInv ==
  ASSUME TypeOK, ReserveInv, PlaceInv, PhaseInv, BodyInv, FieldInv, TrackInv,
         RequestCancel \/ TickTtlCleanup \/ Tick \/ UNCHANGED vars
  PROVE  WorkInv'
<1>1. UNCHANGED <<state, errVars, result, finishedAt, returned, workQueue, ticker,
                  workerVars, tpc, tjob>>
  BY Zenon DEF RequestCancel, TickTtlCleanup, Tick, registry, jobVars, machine, threadVars, vars
<1>2. /\ \A j \in Jobs : cancelReq[j] => cancelReq'[j]
      /\ \A j \in Jobs : Active(j) /\ j \in tracked => j \in tracked'
  <2>1. CASE RequestCancel
    <3>1. PICK j \in Jobs : UNCHANGED cancelReq \/ cancelReq' = [cancelReq EXCEPT ![j] = TRUE]
      BY <2>1, Zenon DEF RequestCancel
    <3>2. UNCHANGED tracked
      BY <2>1, Zenon DEF RequestCancel
    <3>3. QED
      BY <3>1, <3>2 DEF TypeOK, JobTypes
  <2>2. CASE TickTtlCleanup
    BY <2>2 DEF TickTtlCleanup, Expired, Terminal, TerminalStates, Active, jobVars
  <2>3. CASE Tick \/ UNCHANGED vars
    BY <2>3 DEF Tick, registry, jobVars, vars
  <2>4. QED
    BY <2>1, <2>2, <2>3
<1>3. \A w \in Workers : wpc[w] # "idle" => wjob[w] \in Jobs
  BY ConstantsAssumption DEF TypeOK, WorkerTypes
<1>4. ReserveInv' /\ PlaceInv'
  BY <1>1 DEF ReserveInv, Reserving, PlaceInv, Submitted, Waiting, Carried, Enqueuer, Active,
     workerVars
<1>5. PhaseInv' /\ BodyInv'
  BY <1>1 DEF PhaseInv, Waiting, BodyInv, Awaited, workerVars, errVars
<1>6. FieldInv'
  BY <1>1, <1>2, <1>3 DEF FieldInv, workerVars, errVars
<1>7. TrackInv'
  BY <1>1, <1>2 DEF TrackInv, Active
<1>8. QED
  BY <1>4, <1>5, <1>6, <1>7 DEF WorkInv

\* Pool->Destroy finds no submitter: the connection threads are gone, and the
\* game thread is in ShutdownModule.
LEMMA AbandonWorkInv ==
  ASSUME TypeOK, PoolInv, ReserveInv, PlaceInv, PhaseInv, BodyInv, FieldInv, TrackInv,
         AbandonQueue
  PROVE  WorkInv'
<1>0. /\ GT \in Threads /\ tpc \in [Threads -> {"idle"} \cup SubmitSteps \cup ReadSteps \cup GtSteps]
      /\ tpc[GT] = "destroyPool" /\ tpc'[GT] = "awaitWorkers"
      /\ \A t \in Threads : t # GT => tpc[t] = "idle" /\ tpc'[t] = "idle"
  BY DEF AbandonQueue, Goto, TypeOK, ThreadTypes, Threads, PoolInv
<1>1. \A j \in Jobs : Queued(j) <=> Waiting(j)
  BY DEF Queued, Waiting, Range, TypeOK, QueueTypes
<1>2. /\ \A j \in Jobs : /\ Waiting(j) => /\ state'[j] = "Cancelled" /\ errMsg'[j] = "abandoned"
                                         /\ finishedAt'[j] = now
                         /\ ~Waiting(j) => /\ state'[j] = state[j] /\ errMsg'[j] = errMsg[j]
                                           /\ finishedAt'[j] = finishedAt[j]
      /\ workQueue' = <<>> /\ Range(workQueue') = {}
      /\ UNCHANGED <<tracked, cancelReq, writing, result, returned, ticker, wpc, wjob, tjob>>
  BY <1>1 DEF AbandonQueue, AbandonedState, Range, workerVars
<1>3. \A j \in Jobs : Active(j) => cancelReq[j]
  BY <1>0 DEF TrackInv, DroppedSteps
<1>4. \A j \in Jobs : Waiting(j) => state[j] = "Pending" /\ ~Carried(j) /\ cancelReq[j]
  BY <1>3 DEF PhaseInv, PlaceInv, Active
<1>5. \A w \in Workers : wpc[w] # "idle" => wjob[w] \in Jobs /\ ~Waiting(wjob[w])
  BY ConstantsAssumption, <1>4 DEF TypeOK, WorkerTypes, Carried
<1>6. ReserveInv'
  BY <1>0 DEF ReserveInv, Reserving
<1>7. PlaceInv'
  <2>1. \A j \in Jobs : Active(j)' => Active(j) /\ ~Waiting(j)
    BY <1>2 DEF Active
  <2>2. \A j \in Jobs : ~Submitted(j) /\ ~Submitted(j)'
    BY <1>0 DEF Submitted, Enqueuer
  <2>3. \A j \in Jobs : Active(j)' => Carried(j)'
    BY <1>2, <2>1, <2>2 DEF PlaceInv, Carried
  <2>4. QED
    BY <1>0, <1>2, <2>3 DEF PlaceInv, Waiting, Carried, IsInjective
<1>8. PhaseInv'
  BY <1>0, <1>2, <1>5 DEF PhaseInv, Waiting, BodySteps, SettleSteps
<1>9. BodyInv'
  BY <1>0, <1>2, <1>4 DEF BodyInv, Awaited
<1>10. FieldInv'
  <2>1. now > 0
    BY DEF TypeOK, QueueTypes
  <2>2. ASSUME NEW w \in Workers
        PROVE  /\ wpc[w] \in SettleSteps => finishedAt'[wjob[w]] > 0
               /\ wpc[w] \in {"fillError", "publishFail"} => errMsg'[wjob[w]] # "none"
    BY <1>2, <1>5 DEF FieldInv, SettleSteps
  <2>3. ASSUME NEW j \in Jobs
        PROVE  /\ state'[j] \in {"New", "Pending"} => errMsg'[j] = "none"
               /\ state'[j] = "Failed" => errMsg'[j] # "none"
               /\ state'[j] \in {"Succeeded", "Failed"} => finishedAt'[j] > 0
               /\ state'[j] = "Succeeded" => result[j]
               /\ state'[j] = "Cancelled" => cancelReq[j]
               /\ result[j] => \/ state'[j] = "Succeeded"
                               \/ \E w \in Workers : wjob[w] = j /\ wpc[w] = "publishOk"
    <3>1. Waiting(j) => ~result[j]
      BY <1>4 DEF FieldInv, Carried
    <3>2. QED
      BY <1>2, <1>4, <3>1 DEF FieldInv
  <2>4. QED
    BY <1>2, <2>2, <2>3 DEF FieldInv
<1>11. TrackInv'
  BY <1>0, <1>2, <1>3 DEF TrackInv, Active, DroppedSteps
<1>12. QED
  BY <1>6, <1>7, <1>8, <1>9, <1>10, <1>11 DEF WorkInv

\* A body on the game thread runs for a worker that waits for it, so its job
\* is running and nobody else writes its fields.
LEMMA TickerWorkInv ==
  ASSUME TypeOK, ReserveInv, PlaceInv, PhaseInv, BodyInv, FieldInv, TrackInv,
         RunTicker \/ TickerWritesError
  PROVE  WorkInv'
<1>0. /\ GT \in Threads /\ tpc \in [Threads -> {"idle"} \cup SubmitSteps \cup ReadSteps \cup GtSteps]
      /\ tjob \in [Threads -> Jobs \cup {Nobody}]
      /\ ticker \in Seq(Jobs) /\ Range(ticker) \subseteq Jobs
      /\ \A w \in Workers : wpc[w] # "idle" => wjob[w] \in Jobs
      /\ tpc[GT] = "gtWriteError" => tjob[GT] \in Jobs
      /\ returned \in [Jobs -> Returns] /\ errMsg \in [Jobs -> Messages] /\ writing \subseteq Jobs
      /\ \A t \in Threads : Reserving(t) \/ tpc[t] = "enqueue" => tjob[t] \in Jobs
      /\ Nobody \notin Jobs
  BY ConstantsAssumption DEF TypeOK, ThreadTypes, JobTypes, QueueTypes, WorkerTypes, Threads, Range,
     Reserving, SubmitSteps
<1>1. UNCHANGED <<tracked, state, cancelReq, result, finishedAt, workQueue, wpc, wjob>>
  BY DEF RunTicker, TickerWritesError, machine, workerVars
<1>2. PICK j \in Jobs : /\ Awaited(j) /\ returned[j] = "unset" /\ state[j] = "Running"
                        /\ \A i \in Jobs : i # j => /\ returned'[i] = returned[i]
                                                    /\ errMsg'[i] = errMsg[i]
                                                    /\ i \in writing' <=> i \in writing
                        /\ errMsg'[j] # "none" \/ errMsg'[j] = errMsg[j]
                        /\ j \notin Range(ticker') /\ Range(ticker') \subseteq Range(ticker)
                        /\ IsInjective(ticker') /\ writing' \subseteq Jobs
                        /\ \/ /\ UNCHANGED <<tpc, tjob>> /\ tpc[GT] = "idle" /\ j \notin writing
                              /\ UNCHANGED writing
                           \/ /\ tpc[GT] = "idle" /\ returned'[j] = "unset"
                              /\ tpc' = [tpc EXCEPT ![GT] = "gtWriteError"]
                              /\ tjob' = [tjob EXCEPT ![GT] = j]
                           \/ /\ tpc[GT] = "gtWriteError" /\ j \notin writing' /\ tjob[GT] = j
                              /\ tpc' = [tpc EXCEPT ![GT] = "idle"]
                              /\ tjob' = [tjob EXCEPT ![GT] = Nobody]
  <2>1. \A i \in Jobs : Awaited(i) => state[i] = "Running"
    BY DEF PhaseInv, Awaited, BodySteps
  <2>2. CASE RunTicker
    <3>1. PICK i \in Jobs : /\ i = Head(ticker) /\ i \in Range(ticker)
                            /\ IsInjective(ticker')
                            /\ Range(ticker') = Range(ticker) \ {i}
      BY <1>0, <2>2, TailFresh DEF RunTicker, BodyInv
    <3>2. Awaited(i) /\ returned[i] = "unset" /\ state[i] = "Running"
      BY <2>1, <3>1 DEF BodyInv
    <3>3. tpc[GT] = "idle" /\ i \notin writing
      <4>1. tpc[GT] = "idle"
        BY <2>2 DEF RunTicker
      <4>2. i \notin writing
        BY <1>0, <3>2, <4>1 DEF BodyInv, Awaited, PlaceInv
      <4>3. QED
        BY <4>1, <4>2
    <3>4. CASE BodyReturns(i) /\ UNCHANGED <<errMsg, writing, tpc, tjob>>
      BY <1>0, <3>1, <3>2, <3>3, <3>4 DEF BodyReturns
    <3>5. CASE /\ BodyBeginsError(i) /\ Goto(GT, "gtWriteError")
               /\ tjob' = [tjob EXCEPT ![GT] = i] /\ UNCHANGED returned
      <4>1. errMsg'[i] # "none" /\ \A k \in Jobs : k # i => errMsg'[k] = errMsg[k]
        BY <1>0, <3>5 DEF BodyBeginsError
      <4>2. writing' = writing \cup {i}
        BY <3>5 DEF BodyBeginsError
      <4>3. QED
        BY <1>0, <3>1, <3>2, <3>3, <3>5, <4>1, <4>2 DEF Goto
    <3>6. QED
      BY <2>2, <3>1, <3>4, <3>5 DEF RunTicker
  <2>3. CASE TickerWritesError
    <3>1. /\ tjob[GT] \in Jobs /\ Awaited(tjob[GT]) /\ returned[tjob[GT]] = "unset"
          /\ tjob[GT] \notin Range(ticker) /\ IsInjective(ticker)
      BY <1>0, <2>3 DEF TickerWritesError, BodyInv
    <3>2. QED
      BY <1>0, <2>1, <2>3, <3>1 DEF TickerWritesError, BodyEndsError, Goto, machine
  <2>4. QED
    BY <2>2, <2>3
<1>3. /\ \A t \in Threads : t # GT => tpc'[t] = tpc[t] /\ tjob'[t] = tjob[t]
      /\ ~Reserving(GT) /\ tpc[GT] # "enqueue" /\ tpc'[GT] # "enqueue"
      /\ tpc'[GT] \notin {"ensureInit", "initLocked", "checkShutdown", "addJob"}
      /\ tjob'[GT] \in {tjob[GT], j, Nobody}
  BY <1>0, <1>2 DEF Reserving
<1>4. ReserveInv'
  BY <1>0, <1>1, <1>2, <1>3 DEF ReserveInv, Reserving
<1>5. PlaceInv'
  <2>1. \A t \in Threads, i \in Jobs : Enqueuer(t, i)' <=> Enqueuer(t, i)
    BY <1>3 DEF Enqueuer
  <2>2. \A i \in Jobs : /\ Submitted(i)' <=> Submitted(i)
                        /\ Waiting(i)' <=> Waiting(i)
                        /\ Carried(i)' <=> Carried(i)
                        /\ Active(i)' <=> Active(i)
    BY <1>1, <2>1 DEF Submitted, Waiting, Carried, Active
  <2>3. QED
    BY <1>0, <1>1, <1>3, <2>2 DEF PlaceInv, Waiting, Carried
<1>6. PhaseInv'
  BY <1>1, <1>3 DEF PhaseInv, Waiting
<1>7. BodyInv'
  <2>1. \A i \in Jobs : Awaited(i)' <=> Awaited(i)
    BY <1>1 DEF Awaited
  <2>2. \A w \in Workers : wpc[w] \in {"enterBody", "inBody", "writeError"} => wjob[w] # j
    BY <1>0, <1>2 DEF Awaited, PlaceInv
  <2>3. \A i \in Jobs : state[i] \in {"New", "Pending"} => returned'[i] = "unset"
    BY <1>2 DEF BodyInv
  <2>4. \A w \in Workers : wpc[w] \in {"enterBody", "inBody", "writeError"} => returned'[wjob[w]] = "unset"
    BY <1>0, <1>2, <2>2 DEF BodyInv
  <2>5. \A i \in Range(ticker') : Awaited(i)' /\ returned'[i] = "unset"
    BY <1>0, <1>2, <2>1 DEF BodyInv
  <2>6. tpc'[GT] = "gtWriteError" => /\ tjob'[GT] = j /\ returned'[j] = "unset"
    BY <1>0, <1>2
  <2>7. \A i \in writing' : \/ \E w \in Workers : wjob[w] = i /\ wpc[w] \in {"writeError", "fillError"}
                            \/ tpc'[GT] = "gtWriteError" /\ tjob'[GT] = i
    BY <1>0, <1>2 DEF BodyInv
  <2>8. Awaited(j)'
    BY <1>2, <2>1
  <2>9. tpc'[GT] = "gtWriteError" => /\ \E w \in Workers : wjob'[w] = tjob'[GT] /\ wpc'[w] = "gtWait"
                                     /\ returned'[tjob'[GT]] = "unset"
                                     /\ tjob'[GT] \notin Range(ticker')
    BY <1>2, <2>6, <2>8 DEF Awaited
  <2>10. QED
    BY <1>1, <1>2, <2>3, <2>4, <2>5, <2>7, <2>9 DEF BodyInv, Awaited
<1>8. FieldInv'
  <2>1. \A w \in Workers : wpc[w] \in {"fillError", "publishFail"} => errMsg'[wjob[w]] # "none"
    BY <1>0, <1>2 DEF FieldInv
  <2>2. \A i \in Jobs : /\ state[i] \in {"New", "Pending"} => errMsg'[i] = "none"
                        /\ state[i] = "Failed" => errMsg'[i] # "none"
    BY <1>2 DEF FieldInv
  <2>3. QED
    BY <1>1, <2>1, <2>2 DEF FieldInv
<1>9. TrackInv'
  BY <1>0, <1>1, <1>2 DEF TrackInv, Active, DroppedSteps
<1>10. QED
  BY <1>4, <1>5, <1>6, <1>7, <1>8, <1>9 DEF WorkInv

LEMMA NextWorkInv ==
  ASSUME Inv, WorkInv, [Next]_vars
  PROVE  WorkInv'
<1>1. TypeOK /\ PoolInv /\ ReserveInv /\ PlaceInv /\ PhaseInv /\ BodyInv /\ FieldInv /\ TrackInv
  BY DEF Inv, WorkInv
<1>2. CASE \E t \in Threads : Submit(t)
  BY <1>1, <1>2, SubmitWorkInv
<1>3. CASE \E t \in Threads : Query(t)
  BY <1>1, <1>3, QueryWorkInv
<1>4. CASE \E w \in Workers : Work(w)
  BY <1>1, <1>4, WorkWorkInv
<1>5. CASE RunTicker \/ TickerWritesError
  BY <1>1, <1>5, TickerWorkInv
<1>6. CASE RequestCancel \/ TickTtlCleanup \/ Tick \/ UNCHANGED vars
  BY <1>1, <1>6, AskWorkInv
<1>7. CASE StopServer \/ JoinConnections \/ BeginShutdown \/ DropJobs \/ DestroyPool
  BY <1>1, <1>7, ShutdownWorkInv
<1>8. CASE AbandonQueue
  BY <1>1, <1>8, AbandonWorkInv
<1>9. QED
  BY <1>2, <1>3, <1>4, <1>5, <1>6, <1>7, <1>8 DEF Next, Shutdown

------------------------------------------------------------------------------
(* What the invariant says of the places of a job.                          *)

LEMMA HeldOnce ==
  ASSUME TypeOK, PlaceInv, PhaseInv
  PROVE  JobHeldOnce
<1> SUFFICES ASSUME NEW j \in Jobs
             PROVE  LET holders == {<<"thread", t>> : t \in {u \in Threads : Enqueuer(u, j)}}
                          \cup {<<"queue", i>> : i \in {k \in 1..Len(workQueue) : workQueue[k] = j}}
                          \cup {<<"worker", w>> : w \in {v \in Workers : wjob[v] = j}}
                    IN  /\ Active(j) => Cardinality(holders) = 1
                        /\ ~Active(j) => \A h \in holders :
                                           h[1] = "worker" /\ wpc[h[2]] = "stampCancelled"
  BY DEF JobHeldOnce
<1> DEFINE submitters == {u \in Threads : Enqueuer(u, j)}
           places     == {k \in 1..Len(workQueue) : workQueue[k] = j}
           carriers   == {v \in Workers : wjob[v] = j}
           holders    == {<<"thread", t>> : t \in submitters}
                         \cup {<<"queue", i>> : i \in places}
                         \cup {<<"worker", w>> : w \in carriers}
<1>1. /\ Submitted(j) <=> submitters # {}
      /\ Waiting(j) <=> places # {}
      /\ Carried(j) <=> carriers # {}
  BY DEF Submitted, Waiting, Carried, Range, TypeOK, QueueTypes
<1>2. /\ \A t, u \in submitters : t = u
      /\ \A i, k \in places : i = k
      /\ \A v, w \in carriers : v = w
  <2>1. \A t, u \in submitters : t = u
    BY DEF Enqueuer, PlaceInv
  <2>2. \A i, k \in places : i = k
    BY DEF PlaceInv, IsInjective, TypeOK, QueueTypes
  <2>3. \A v, w \in carriers : v = w
    BY ConstantsAssumption DEF PlaceInv
  <2>4. QED
    BY <2>1, <2>2, <2>3
<1>3. /\ Submitted(j) => ~Waiting(j) /\ ~Carried(j)
      /\ Waiting(j) => ~Carried(j)
      /\ Active(j) => Submitted(j) \/ Waiting(j) \/ Carried(j)
  BY DEF PlaceInv, Submitted, Enqueuer
<1>4. /\ Submitted(j) \/ Waiting(j) => Active(j)
      /\ \A v \in carriers : Active(j) \/ wpc[v] = "stampCancelled"
  <2>1. Submitted(j) \/ Waiting(j) => Active(j)
    BY DEF PhaseInv, Submitted, Enqueuer, Active
  <2>2. \A v \in carriers : wpc[v] # "idle" /\ wpc[v] \in WorkerSteps
    BY ConstantsAssumption DEF TypeOK, WorkerTypes
  <2>3. \A v \in carriers : Active(j) \/ wpc[v] = "stampCancelled"
    BY <2>2 DEF PhaseInv, Active, WorkerSteps, BodySteps, SettleSteps
  <2>4. QED
    BY <2>1, <2>3
<1> HIDE DEF submitters, places, carriers
<1>5. Active(j) => Cardinality(holders) = 1
  <2>1. CASE Submitted(j)
    <3>1. PICK t : t \in submitters
      BY <1>1, <2>1
    <3>2. submitters = {t} /\ places = {} /\ carriers = {}
      BY <1>1, <1>2, <1>3, <2>1, <3>1
    <3>3. holders = {<<"thread", t>>}
      BY <3>2
    <3>4. QED
      BY <3>3, FS_Singleton
  <2>2. CASE Waiting(j)
    <3>1. PICK i : i \in places
      BY <1>1, <2>2
    <3>2. submitters = {} /\ places = {i} /\ carriers = {}
      BY <1>1, <1>2, <1>3, <2>2, <3>1
    <3>3. holders = {<<"queue", i>>}
      BY <3>2
    <3>4. QED
      BY <3>3, FS_Singleton
  <2>3. CASE Carried(j)
    <3>1. PICK w : w \in carriers
      BY <1>1, <2>3
    <3>2. submitters = {} /\ places = {} /\ carriers = {w}
      BY <1>1, <1>2, <1>3, <2>3, <3>1
    <3>3. holders = {<<"worker", w>>}
      BY <3>2
    <3>4. QED
      BY <3>3, FS_Singleton
  <2>4. QED
    BY <1>3, <2>1, <2>2, <2>3
<1>6. ASSUME ~Active(j), NEW h \in holders
      PROVE  h[1] = "worker" /\ wpc[h[2]] = "stampCancelled"
  <2>1. submitters = {} /\ places = {}
    BY <1>1, <1>4, <1>6
  <2>2. PICK w \in carriers : h = <<"worker", w>>
    BY <1>6, <2>1
  <2>3. QED
    BY <1>4, <1>6, <2>2
<1>7. QED
  BY <1>5, <1>6 DEF submitters, places, carriers

LEMMA WorkInvHolds ==
  ASSUME Inv, WorkInv
  PROVE  WorkHeldOnce
<1>1. JobHeldOnce
  BY HeldOnce DEF Inv, WorkInv
<1>2. TickerBodyAwaited
  <2>1. \A i \in 1..Len(ticker) : ticker[i] \in Range(ticker)
    BY DEF Inv, TypeOK, QueueTypes, Range
  <2>2. \A i, k \in 1..Len(ticker) : ticker[k] = ticker[i] => k = i
    BY DEF Inv, TypeOK, QueueTypes, WorkInv, BodyInv, IsInjective
  <2>3. QED
    BY <2>1, <2>2 DEF TickerBodyAwaited, WorkInv, BodyInv, Awaited
<1>3. ActiveJobTracked
  BY DEF ActiveJobTracked, WorkInv, TrackInv, DroppedSteps, Inv, PoolInv
<1>4. QED
  BY <1>1, <1>2, <1>3 DEF WorkHeldOnce

\* Every active job is with its submitter, in the pool's queue or with one
\* worker, and in one of these places only; a body handed to the game thread's
\* ticker has a worker that waits for it; and an active job stays in the map
\* until Shutdown drops it, for any number of jobs, workers and threads.
THEOREM JobsHeldOnce == Spec => []WorkHeldOnce
<1>1. Init => Inv /\ WorkInv
  BY InitTypeOK, InitPoolInv, InitWorkInv DEF Inv
<1>2. Inv /\ WorkInv /\ [Next]_vars => (Inv /\ WorkInv)'
  BY NextPoolInv, NextWorkInv
<1>3. Inv /\ WorkInv => WorkHeldOnce
  BY WorkInvHolds
<1>4. QED
  BY <1>1, <1>2, <1>3, PTL DEF Spec

------------------------------------------------------------------------------
(* What a client is told.                                                   *)

\* A job that has ended stays as it ended.
LEMMA TerminalStays ==
  ASSUME Inv, WorkInv, [Next]_vars, NEW j \in Jobs, Terminal(j)
  PROVE  state'[j] = state[j]
<1> USE ConstantsAssumption DEF Inv, WorkInv, TypeOK, Terminal, TerminalStates
<1>0. state \in [Jobs -> States] /\ state[j] \notin {"New", "Pending", "Running"}
  BY DEF JobTypes
<1>1. CASE \E t \in Threads : Submit(t)
  <2>1. PICK t \in Threads : Submit(t)
    BY <1>1
  <2>2. CASE AddJob(t)
    BY <1>0, <2>2 DEF AddJob, ReserveInv, Reserving
  <2>3. CASE Enqueue(t)
    BY <2>3 DEF Enqueue, PoolInv
  <2>4. QED
    BY <2>1, <2>2, <2>3 DEF Submit, BeginSubmit, EnsureInitFast, EnsureInitLocked, CheckShutdown,
       registry, jobVars
<1>2. CASE \E t \in Threads : Query(t)
  BY <1>2 DEF Query, BeginResult, ReadState, ReadRest, GetResult, registry, jobVars
<1>3. CASE \E w \in Workers : Work(w)
  <2>1. PICK w \in Workers : Work(w)
    BY <1>3
  <2>2. wpc[w] \in BodySteps \cup SettleSteps \cup {"storeCancelled", "storeRunning"}
          => wjob[w] # j
    BY <1>0 DEF PhaseInv
  <2>3. CASE StoreCancelled(w) \/ StoreRunning(w) \/ SettleCancelled(w) \/ SettleError(w) \/ Publish(w)
    BY <1>0, <2>2, <2>3 DEF StoreCancelled, StoreRunning, SettleCancelled, SettleError, Publish,
       SetState, SettleSteps
  <2>4. CASE Dequeue(w) \/ LoadCancel(w) \/ EnterBody(w) \/ FutureGet(w)
    BY <2>4 DEF Dequeue, LoadCancel, EnterBody, FutureGet, registry, jobVars
  <2>5. CASE StampCancelled(w) \/ RunBody(w) \/ WriteError(w) \/ StampFinished(w)
             \/ SettleValue(w) \/ SettleNull(w) \/ FillError(w)
    BY <2>5 DEF StampCancelled, RunBody, WriteError, StampFinished, SettleValue, SettleNull,
       FillBeforePublish, FillError
  <2>6. QED
    BY <2>1, <2>3, <2>4, <2>5 DEF Work
<1>4. CASE AbandonQueue
  <2>1. ~Queued(j)
    BY <1>0 DEF PhaseInv, Waiting, Queued, Range, QueueTypes
  <2>2. QED
    BY <1>4, <2>1 DEF AbandonQueue, AbandonedState
<1>5. CASE RunTicker \/ TickerWritesError \/ TickTtlCleanup \/ StopServer \/ JoinConnections
           \/ BeginShutdown \/ DropJobs \/ DestroyPool \/ Tick \/ UNCHANGED vars
  BY <1>5 DEF RunTicker, TickerWritesError, TickTtlCleanup, StopServer, JoinConnections,
     BeginShutdown, DropJobs, DestroyPool, Tick, registry, jobVars, vars
<1>6. CASE RequestCancel
  BY <1>6, Zenon DEF RequestCancel
<1>7. QED
  BY <1>1, <1>2, <1>3, <1>4, <1>5, <1>6 DEF Next, Shutdown

\* The fields of a job that has ended are complete.
LEMMA EndedComplete ==
  ASSUME Inv, WorkInv, NEW j \in Jobs, Terminal(j)
  PROVE  /\ j \notin writing
         /\ state[j] = "Failed" => errMsg[j] # "none"
         /\ state[j] \in {"Succeeded", "Failed"} => finishedAt[j] > 0
         /\ state[j] = "Succeeded" => result[j]
<1>1. state[j] # "Running"
  BY DEF Terminal, TerminalStates
<1>2. j \notin writing
  <2>1. \A w \in Workers : wpc[w] \in {"writeError", "fillError", "gtWait"} => wjob[w] # j
    BY <1>1 DEF WorkInv, PhaseInv, BodySteps, SettleSteps
  <2>2. QED
    BY <2>1 DEF WorkInv, BodyInv, Awaited
<1>3. QED
  BY <1>2 DEF WorkInv, FieldInv

\* Nothing that another thread does moves a reader or touches its snapshot.
LEMMA ReaderAlone ==
  ASSUME TypeOK, NEW t \in Listeners, [Next]_vars, ~Query(t)
  PROVE  /\ snap'[t] = snap[t]
         /\ \/ tpc'[t] = tpc[t] /\ tjob'[t] = tjob[t]
            \/ {tpc[t], tpc'[t]} \cap {"readRest", "getResult"} = {}
<1>0. /\ t \in Threads /\ GT \in Threads /\ t # GT
      /\ tpc \in [Threads -> {"idle"} \cup SubmitSteps \cup ReadSteps \cup GtSteps]
      /\ tjob \in [Threads -> Jobs \cup {Nobody}] /\ snap \in [Threads -> Snapshots]
  BY ConstantsAssumption DEF Threads, TypeOK, ThreadTypes, AskTypes
<1>1. CASE \E u \in Threads : Submit(u)
  <2>1. PICK u \in Threads : Submit(u)
    BY <1>1
  <2>2. /\ UNCHANGED snap /\ tpc[u] \in SubmitSteps \cup {"idle"}
        /\ \E s \in SubmitSteps \cup {"idle"} : tpc' = [tpc EXCEPT ![u] = s]
    BY <2>1 DEF MayBegin, Submit, BeginSubmit, EnsureInitFast, EnsureInitLocked, CheckShutdown, AddJob,
       Enqueue, Goto, Answer, SubmitSteps, askVars
  <2>3. \E k \in Jobs \cup {Nobody} : tjob' = [tjob EXCEPT ![u] = k] \/ tjob' = tjob
    BY <2>1 DEF Submit, BeginSubmit, EnsureInitFast, EnsureInitLocked, CheckShutdown, AddJob,
       Enqueue, Answer
  <2>4. QED
    BY <1>0, <2>2, <2>3 DEF SubmitSteps
<1>2. CASE \E u \in Threads : Query(u)
  <2>1. PICK u \in Threads : Query(u) /\ u # t
    BY <1>2
  <2>2. snap'[t] = snap[t]
    BY <1>0, <2>1 DEF Query, BeginResult, ReadState, ReadRest, GetResult
  <2>3. tpc'[t] = tpc[t] /\ tjob'[t] = tjob[t]
    BY <1>0, <2>1 DEF Query, BeginResult, ReadState, ReadRest, GetResult, Goto, Answer
  <2>4. QED
    BY <2>2, <2>3
<1>3. CASE \E w \in Workers : Work(w)
  <2>1. UNCHANGED threadVars
    BY <1>3 DEF Work, Dequeue, LoadCancel, StoreCancelled, StampCancelled, StoreRunning, EnterBody,
       RunBody, WriteError, FutureGet, StampFinished, SettleValue, SettleCancelled, SettleError,
       SettleNull, FillError, Publish, notMine
  <2>2. QED
    BY <2>1 DEF threadVars, askVars
<1>4. CASE RunTicker \/ TickerWritesError
  <2>1. UNCHANGED snap /\ \E s \in {"idle", "gtWriteError"} : tpc' = [tpc EXCEPT ![GT] = s] \/ tpc' = tpc
    BY <1>4 DEF RunTicker, TickerWritesError, Goto, askVars
  <2>2. tjob'[t] = tjob[t]
    BY <1>0, <1>4 DEF RunTicker, TickerWritesError
  <2>3. QED
    BY <1>0, <2>1, <2>2
<1>5. CASE TickTtlCleanup \/ Tick \/ UNCHANGED vars
  BY <1>5 DEF TickTtlCleanup, Tick, threadVars, askVars, vars
<1>6. CASE RequestCancel
  <2>1. UNCHANGED <<snap, tpc, tjob>>
    BY <1>6, Zenon DEF RequestCancel
  <2>2. QED
    BY <2>1
<1>7. CASE StopServer \/ Shutdown
  BY <1>0, <1>7 DEF StopServer, Shutdown, JoinConnections, BeginShutdown, DropJobs, AbandonQueue,
     DestroyPool, Goto, askVars
<1>8. QED
  BY <1>1, <1>2, <1>3, <1>4, <1>5, <1>6, <1>7 DEF Next

LEMMA NextSnapInv ==
  ASSUME Inv, WorkInv, SnapInv, [Next]_vars
  PROVE  SnapInv'
<1> SUFFICES ASSUME NEW t \in Listeners
             PROVE  /\ tpc'[t] = "readRest" /\ snap'[t].state \in TerminalStates
                         => state'[tjob'[t]] = snap'[t].state
                    /\ tpc'[t] = "getResult" => state'[tjob'[t]] = "Succeeded"
  BY DEF SnapInv
<1> USE DEF Inv, TypeOK
<1>0. /\ t \in Threads /\ tpc \in [Threads -> {"idle"} \cup SubmitSteps \cup ReadSteps \cup GtSteps]
      /\ tjob \in [Threads -> Jobs \cup {Nobody}] /\ snap \in [Threads -> Snapshots]
      /\ tpc[t] \in {"readState", "readRest", "getResult"} => tjob[t] \in Jobs
  BY DEF Threads, ThreadTypes, AskTypes, ReadSteps
<1>1. \A j \in Jobs : Terminal(j) => state'[j] = state[j]
  BY TerminalStays
<1>2. CASE ~Query(t)
  <2>1. snap'[t] = snap[t]
    BY <1>2, ReaderAlone
  <2>2. ASSUME tpc'[t] \in {"readRest", "getResult"}
        PROVE  tpc'[t] = tpc[t] /\ tjob'[t] = tjob[t] /\ tjob[t] \in Jobs
    BY <1>0, <1>2, <2>2, ReaderAlone
  <2>3. QED
    BY <1>1, <2>1, <2>2 DEF SnapInv, Terminal, TerminalStates
<1>3. CASE Query(t)
  <2>1. CASE BeginResult(t)
    BY <1>0, <2>1 DEF BeginResult, Goto
  <2>2. CASE ReadState(t)
    <3>1. CASE tjob[t] \in tracked
      <4>1. /\ tpc'[t] = "readRest" /\ UNCHANGED <<tjob, state>>
            /\ snap' = [snap EXCEPT ![t].state = state[tjob[t]]]
        BY <1>0, <2>2, <3>1 DEF ReadState, Goto, registry, jobVars
      <4>2. snap'[t].state = state[tjob[t]]
        BY <1>0, <4>1 DEF Snapshots
      <4>3. QED
        BY <4>1, <4>2
    <3>2. CASE tjob[t] \notin tracked
      BY <1>0, <2>2, <3>2 DEF ReadState, Answer
    <3>3. QED
      BY <3>1, <3>2
  <2>3. CASE ReadRest(t)
    <3>1. UNCHANGED state /\ tpc'[t] # "readRest" /\ tpc[t] = "readRest"
      BY <1>0, <2>3 DEF ReadRest, Goto, Answer, registry, jobVars
    <3>2. tpc'[t] = "getResult" => snap[t].state = "Succeeded" /\ UNCHANGED tjob
      BY <1>0, <2>3 DEF ReadRest, Goto, Answer
    <3>3. QED
      BY <3>1, <3>2 DEF SnapInv, TerminalStates
  <2>4. CASE GetResult(t)
    BY <1>0, <2>4 DEF GetResult, Answer
  <2>5. QED
    BY <1>3, <2>1, <2>2, <2>3, <2>4 DEF Query
<1>4. QED
  BY <1>2, <1>3

\* A snapshot is filled in under JobsLock, field after field, and each field of
\* a job that has ended was complete before State said so.
LEMMA NextSnapshotConsistent ==
  ASSUME Inv, WorkInv, SnapInv, SnapshotConsistent, [Next]_vars
  PROVE  SnapshotConsistent'
<1> SUFFICES ASSUME NEW t \in Listeners, tpc'[t] # "readRest"
             PROVE  /\ snap'[t].state = "Failed" => snap'[t].error # "none"
                    /\ snap'[t].state \in TerminalStates => ~snap'[t].torn
                    /\ snap'[t].state \in {"Succeeded", "Failed"} => snap'[t].finishedAt > 0
  BY DEF SnapshotConsistent
<1> USE DEF Inv, TypeOK
<1>0. /\ t \in Threads /\ tpc \in [Threads -> {"idle"} \cup SubmitSteps \cup ReadSteps \cup GtSteps]
      /\ snap \in [Threads -> Snapshots]
      /\ tpc[t] \in {"readState", "readRest", "getResult"} => tjob[t] \in Jobs
  BY DEF Threads, ThreadTypes, AskTypes, ReadSteps
<1>1. CASE snap'[t] = snap[t] /\ tpc[t] # "readRest"
  BY <1>1 DEF SnapshotConsistent
<1>2. CASE ~Query(t)
  <2>1. snap'[t] = snap[t] /\ tpc[t] # "readRest"
    BY <1>2, ReaderAlone
  <2>2. QED
    BY <1>1, <2>1
<1>3. CASE BeginResult(t) \/ ReadState(t) \/ GetResult(t)
  <2>1. snap'[t] = snap[t] /\ tpc[t] # "readRest"
    BY <1>0, <1>3 DEF BeginResult, ReadState, GetResult, MayBegin, Goto
  <2>2. QED
    BY <1>1, <2>1
<1>4. CASE ReadRest(t)
  <2>1. /\ snap'[t].state = snap[t].state /\ snap'[t].error = errMsg[tjob[t]]
        /\ snap'[t].torn = (tjob[t] \in writing) /\ snap'[t].finishedAt = finishedAt[tjob[t]]
    BY <1>0, <1>4 DEF ReadRest, Snapshots
  <2>2. snap[t].state \in TerminalStates => state[tjob[t]] = snap[t].state
    BY <1>4 DEF ReadRest, SnapInv
  <2>3. tjob[t] \in Jobs
    BY <1>0, <1>4 DEF ReadRest
  <2>4. QED
    BY <2>1, <2>2, <2>3, EndedComplete DEF Terminal, TerminalStates
<1>5. QED
  BY <1>2, <1>3, <1>4 DEF Query

LEMMA InitIInv == Init => IInv
  BY InitTypeOK, InitPoolInv, InitWorkInv DEF IInv, Inv

LEMMA NextIInv == IInv /\ [Next]_vars => IInv'
  BY NextPoolInv, NextWorkInv, NextSnapInv, NextSnapshotConsistent DEF IInv

\* A snapshot that tells a client of the end of a job carries the whole message
\* and the finish time, although the worker writes these fields without JobsLock;
\* and a job is Cancelled only after somebody asked for that.
THEOREM StatusIsTrue == Spec => []StatusTrue
<1>1. IInv => StatusTrue
  BY DEF IInv, WorkInv, FieldInv, StatusTrue, CancelledOnlyIfAsked
<1>2. QED
  BY <1>1, InitIInv, NextIInv, PTL DEF Spec

\* A client that has read Succeeded is given the result by GetResult, unless the
\* job has left the map between the two calls, by the sweep or by Shutdown.
THEOREM ResultUnlessForgotten == Spec => NoResultOnlyIfForgotten
<1>1. IInv /\ [Next]_vars =>
        [\A t \in Threads :
           tpc[t] = "getResult" /\ reply'[t] = "okNoResult" /\ tpc'[t] = "idle"
             => tjob[t] \notin tracked]_vars
  <2> SUFFICES ASSUME IInv, [Next]_vars, NEW t \in Threads,
                      tpc[t] = "getResult", reply'[t] = "okNoResult", tpc'[t] = "idle"
               PROVE  tjob[t] \notin tracked
    OBVIOUS
  <2>1. t \in Listeners /\ tjob[t] \in Jobs /\ reply \in [Threads -> Replies]
    BY DEF IInv, Inv, TypeOK, ThreadTypes, AskTypes, ReadSteps, Threads
  <2>2. Query(t)
    BY <2>1, ReaderAlone DEF IInv, Inv
  <2>3. GetResult(t)
    BY <2>2 DEF Query, BeginResult, ReadState, ReadRest, MayBegin
  <2>4. state[tjob[t]] = "Succeeded" /\ result[tjob[t]]
    BY <2>1 DEF IInv, SnapInv, WorkInv, FieldInv
  <2>5. QED
    BY <2>1, <2>3, <2>4 DEF GetResult, Answer
<1>2. QED
  BY <1>1, InitIInv, NextIInv, PTL DEF Spec, NoResultOnlyIfForgotten

------------------------------------------------------------------------------
(***************************************************************************)
(* The threads, the queue, the ticker and the unlocked field writes        *)
(* implement the lifecycle of JobLifecycle, step by step.                  *)
(***************************************************************************)

\* bShutdown is set by an unload that has joined the connection threads and
\* never comes back, so whoever passed the check of SubmitJob adds its job
\* while the registry is open.
ClosedInv == shutdown => tpc[GT] \in {"dropJobs", "destroyPool", "awaitWorkers", "down"}

LEMMA NextClosedInv ==
  ASSUME TypeOK, ClosedInv, [Next]_vars
  PROVE  ClosedInv'
<1>0. /\ GT \in Threads /\ tpc \in [Threads -> {"idle"} \cup SubmitSteps \cup ReadSteps \cup GtSteps]
      /\ \A t \in Threads : tpc[t] \in ReadSteps => t # GT
  BY DEF TypeOK, ThreadTypes, Threads
<1> USE DEF ClosedInv
<1>1. CASE \E t \in Threads : Submit(t)
  <2>1. PICK t \in Threads : Submit(t)
    BY <1>1
  <2>2. /\ UNCHANGED shutdown /\ tpc[t] \in SubmitSteps \cup {"idle"}
        /\ \E s \in SubmitSteps \cup {"idle"} : tpc' = [tpc EXCEPT ![t] = s]
    BY <2>1 DEF Submit, BeginSubmit, EnsureInitFast, EnsureInitLocked, CheckShutdown, AddJob,
       Enqueue, MayBegin, Goto, Answer, SubmitSteps, registry, poolVars
  <2>3. QED
    BY <1>0, <2>2 DEF SubmitSteps
<1>2. CASE \E t \in Threads : Query(t)
  <2>1. PICK t \in Threads : Query(t) /\ t # GT
    BY <1>0, <1>2 DEF Query, BeginResult, ReadState, ReadRest, GetResult, ReadSteps
  <2>2. tpc'[GT] = tpc[GT] /\ UNCHANGED shutdown
    BY <1>0, <2>1 DEF Query, BeginResult, ReadState, ReadRest, GetResult, Goto, Answer, registry, poolVars
  <2>3. QED
    BY <2>2
<1>3. CASE \E w \in Workers : Work(w)
  <2>1. UNCHANGED <<tpc, shutdown>>
    BY <1>3 DEF Work, Dequeue, LoadCancel, StoreCancelled, StampCancelled, StoreRunning, EnterBody,
       RunBody, WriteError, FutureGet, StampFinished, SettleValue, SettleCancelled, SettleError,
       SettleNull, FillError, Publish, notMine, registry, threadVars, poolVars
  <2>2. QED
    BY <2>1
<1>4. CASE RunTicker \/ TickerWritesError \/ TickTtlCleanup \/ Tick \/ UNCHANGED vars
  BY <1>0, <1>4 DEF RunTicker, TickerWritesError, TickTtlCleanup, Tick, Goto, registry, threadVars,
     poolVars, vars
<1>5. CASE RequestCancel
  <2>1. UNCHANGED <<tpc, poolVars>>
    BY <1>5, Zenon DEF RequestCancel
  <2>2. QED
    BY <2>1 DEF poolVars
<1>6. CASE StopServer \/ Shutdown
  BY <1>0, <1>6 DEF StopServer, Shutdown, JoinConnections, BeginShutdown, DropJobs, AbandonQueue,
     DestroyPool, Goto, registry, poolVars
<1>7. QED
  BY <1>1, <1>2, <1>3, <1>4, <1>5, <1>6 DEF Next

\* What a client is given follows from State, Result and ErrorMessage.
LEMMA AnsweredSame ==
  ASSUME NEW j, state'[j] = state[j],
         Terminal(j) => errMsg'[j] = errMsg[j] /\ result'[j] = result[j]
  PROVE  Answered(j)' = Answered(j)
  BY DEF Answered, Terminal

\* A step that changes neither State nor the fields of an ended job, nor what
\* is tracked, asked for and closed, is invisible.
LEMMA Invisible ==
  ASSUME UNCHANGED <<state, tracked, cancelReq, shutdown>>,
         \A j \in Jobs : Terminal(j) => errMsg'[j] = errMsg[j] /\ result'[j] = result[j]
  PROVE  UNCHANGED Lifecycle!vars
<1>1. \A j \in Jobs : Answered(j)' = Answered(j)
  BY AnsweredSame
<1>2. [j \in Jobs |-> Answered(j)]' = [j \in Jobs |-> Answered(j)]
  BY <1>1
<1>3. {j \in Jobs : cancelReq[j]}' = {j \in Jobs : cancelReq[j]}
  OBVIOUS
<1>4. QED
  BY <1>2, <1>3 DEF Lifecycle!vars

\* A job that has not begun to run has neither a result nor a message.
LEMMA PendingBlank ==
  ASSUME Inv, WorkInv, NEW j \in Jobs, state[j] = "Pending"
  PROVE  ~result[j] /\ errMsg[j] = "none"
<1>1. \A w \in Workers : wpc[w] = "publishOk" => wjob[w] # j
  BY DEF WorkInv, PhaseInv, SettleSteps
<1>2. QED
  BY <1>1 DEF WorkInv, FieldInv

\* The steps of SubmitJob: AddJob accepts, the others are invisible.
LEMMA SubmitImplements ==
  ASSUME Inv, WorkInv, ClosedInv, NEW t \in Threads, Submit(t)
  PROVE  [Lifecycle!Next]_(Lifecycle!vars)
<1> USE ConstantsAssumption DEF Inv, WorkInv, TypeOK
<1>1. CASE AddJob(t)
  <2>1. PICK j \in Jobs : j = tjob[t] /\ state[j] = "New"
    BY <1>1 DEF AddJob, ReserveInv, Reserving, ThreadTypes, SubmitSteps
  <2>2. ~shutdown
    <3>1. t = GT \/ tpc[GT] \notin {"dropJobs", "destroyPool", "awaitWorkers", "down"}
      BY <1>1 DEF AddJob, PoolInv, Threads
    <3>2. QED
      BY <1>1, <3>1 DEF AddJob, ClosedInv
  <2>3. /\ state' = [state EXCEPT ![j] = "Pending"] /\ tracked' = tracked \cup {j}
        /\ UNCHANGED <<cancelReq, errMsg, result, shutdown>>
    BY <1>1, <2>1 DEF AddJob, errVars, poolVars
  <2>4. \A i \in Jobs : Answered(i)' = Answered(i)
    BY <2>1, <2>3 DEF Answered, Terminal, TerminalStates, JobTypes
  <2>5. [i \in Jobs |-> Answered(i)]' = [i \in Jobs |-> Answered(i)]
    BY <2>4
  <2>6. Lifecycle!Accept(j)
    BY <2>1, <2>2, <2>3, <2>5 DEF Lifecycle!Accept
  <2>7. QED
    BY <2>6 DEF Lifecycle!Next
<1>2. CASE Enqueue(t)
  <2>1. UNCHANGED <<state, errMsg, result, tracked, cancelReq, shutdown>>
    BY <1>2 DEF Enqueue, PoolInv, poolVars
  <2>2. QED
    BY <2>1, Invisible
<1>3. CASE BeginSubmit(t) \/ EnsureInitFast(t) \/ EnsureInitLocked(t) \/ CheckShutdown(t)
  <2>1. UNCHANGED <<state, errMsg, result, tracked, cancelReq, shutdown>>
    BY <1>3 DEF BeginSubmit, EnsureInitFast, EnsureInitLocked, CheckShutdown, registry, jobVars,
       errVars, poolVars
  <2>2. QED
    BY <2>1, Invisible
<1>4. QED
  BY <1>1, <1>2, <1>3 DEF Submit

\* The steps of a worker: StoreRunning starts its job, StoreCancelled withdraws
\* it, the last step of ExecuteJobOnWorker ends it with the answer it prepared.
LEMMA WorkImplements ==
  ASSUME Inv, WorkInv, NEW w \in Workers, Work(w)
  PROVE  [Lifecycle!Next]_(Lifecycle!vars)
<1> USE ConstantsAssumption DEF Inv, WorkInv, TypeOK
<1>0. /\ UNCHANGED <<tracked, cancelReq, shutdown>>
      /\ state \in [Jobs -> States] /\ errMsg \in [Jobs -> Messages]
      /\ result \in [Jobs -> BOOLEAN] /\ cancelReq \in [Jobs -> BOOLEAN]
      /\ UNCHANGED {i \in Jobs : cancelReq[i]}
  <2>1. UNCHANGED <<tracked, cancelReq, shutdown>>
    BY DEF Work, Dequeue, LoadCancel, StoreCancelled, StampCancelled, StoreRunning, EnterBody,
       RunBody, WriteError, FutureGet, StampFinished, SettleValue, SettleCancelled, SettleError,
       SettleNull, FillError, Publish, notMine, registry, jobVars, poolVars
  <2>2. QED
    BY <2>1 DEF JobTypes
<1>1. CASE Dequeue(w) \/ LoadCancel(w) \/ EnterBody(w) \/ FutureGet(w) \/ StampCancelled(w)
           \/ WriteError(w) \/ StampFinished(w) \/ FillError(w)
  <2>1. UNCHANGED <<state, errMsg, result>>
    BY <1>1 DEF Dequeue, LoadCancel, EnterBody, FutureGet, StampCancelled, WriteError,
       StampFinished, FillError, registry, jobVars, errVars
  <2>2. QED
    BY <1>0, <2>1, Invisible
<1>2. ASSUME ~Dequeue(w)
      PROVE  \E j \in Jobs : j = wjob[w]
  BY <1>2, WorkIsBusyStep DEF BusyStep
<1>3. CASE RunBody(w) \/ SettleValue(w) \/ SettleNull(w)
  <2>1. UNCHANGED state /\ \A i \in Jobs : i # wjob[w] => errMsg'[i] = errMsg[i] /\ result'[i] = result[i]
    BY <1>0, <1>3 DEF RunBody, BodyReturns, BodyBeginsError, SettleValue, StoreResult, SettleNull,
       FillBeforePublish, BeginFill, errVars
  <2>2. state[wjob[w]] = "Running"
    BY <1>3 DEF RunBody, SettleValue, SettleNull, PhaseInv, BodySteps, SettleSteps
  <2>3. \A i \in Jobs : Terminal(i) => errMsg'[i] = errMsg[i] /\ result'[i] = result[i]
    BY <2>1, <2>2 DEF Terminal, TerminalStates
  <2>4. QED
    BY <1>0, <2>1, <2>3, Invisible
<1>4. CASE StoreRunning(w)
  <2>1. PICK j \in Jobs : j = wjob[w] /\ state[j] = "Pending" /\ state' = [state EXCEPT ![j] = "Running"]
    BY <1>2, <1>4 DEF StoreRunning, Dequeue, SetState, PhaseInv
  <2>2. \A i \in Jobs : Answered(i)' = Answered(i)
    BY <1>0, <1>4, <2>1 DEF StoreRunning, errVars, Answered, Terminal, TerminalStates
  <2>3. [i \in Jobs |-> Answered(i)]' = [i \in Jobs |-> Answered(i)]
    BY <2>2
  <2>4. Lifecycle!Start(j)
    BY <1>0, <2>1, <2>3 DEF Lifecycle!Start
  <2>5. QED
    BY <2>4 DEF Lifecycle!Next
<1>5. CASE StoreCancelled(w)
  <2>1. PICK j \in Jobs : /\ j = wjob[w] /\ state[j] = "Pending" /\ cancelReq[j]
                          /\ state' = [state EXCEPT ![j] = "Cancelled"]
    BY ZenonT(20), <1>2, <1>5 DEF StoreCancelled, Dequeue, SetState, PhaseInv, FieldInv
  <2>2. ~result[j] /\ errMsg[j] = "none" /\ UNCHANGED <<errMsg, result>>
    BY <1>5, <2>1, PendingBlank DEF StoreCancelled, errVars
  <2>3. \A i \in Jobs : Answered(i)' = IF i \in {j} THEN "nothing" ELSE Answered(i)
    BY <1>0, <2>1, <2>2 DEF Answered, Terminal, TerminalStates
  <2>4. /\ state' = [i \in Jobs |-> IF i \in {j} THEN "Cancelled" ELSE state[i]]
        /\ [i \in Jobs |-> Answered(i)]' = [i \in Jobs |-> IF i \in {j} THEN "nothing"
                                                           ELSE [k \in Jobs |-> Answered(k)][i]]
    BY <1>0, <2>1, <2>3
  <2>5. Lifecycle!Withdraw
    <3>1. {j} \in SUBSET {i \in {k \in Jobs : cancelReq[k]} : state[i] = "Pending"}
      BY <2>1
    <3>2. QED
      BY <1>0, <2>4, <3>1 DEF Lifecycle!Withdraw
  <2>6. QED
    BY <2>5 DEF Lifecycle!Next
<1>6. CASE SettleCancelled(w) \/ SettleError(w) \/ Publish(w)
  <2>1. PICK j \in Jobs : j = wjob[w] /\ state[j] = "Running"
    BY <1>2, <1>6 DEF SettleCancelled, SettleError, Publish, Dequeue, PhaseInv, SettleSteps
  <2>2. result[j] <=> wpc[w] = "publishOk"
    BY <1>0, <2>1 DEF FieldInv, PlaceInv
  <2>3. PICK e \in {<<"Succeeded", "value">>, <<"Failed", "error">>, <<"Cancelled", "nothing">>} :
          /\ state' = [state EXCEPT ![j] = e[1]]
          /\ e[1] = "Cancelled" => cancelReq[j]
          /\ e[2] = IF result[j] THEN "value" ELSE IF errMsg[j] # "none" THEN "error" ELSE "nothing"
    <3>1. CASE SettleCancelled(w)
      BY <2>1, <2>2, <3>1 DEF SettleCancelled, SetState
    <3>2. CASE SettleError(w)
      BY <2>1, <2>2, <3>2 DEF SettleError, SetState
    <3>3. CASE Publish(w)
      BY <2>1, <2>2, <3>3 DEF Publish, SetState, FieldInv
    <3>4. QED
      BY <1>6, <3>1, <3>2, <3>3
  <2>4. UNCHANGED <<errMsg, result>>
    BY <1>6 DEF SettleCancelled, SettleError, Publish, errVars
  <2>5. \A i \in Jobs : Answered(i)' = IF i = j THEN e[2] ELSE Answered(i)
    BY <1>0, <2>1, <2>3, <2>4 DEF Answered, Terminal, TerminalStates
  <2>6. [i \in Jobs |-> Answered(i)]' = [[i \in Jobs |-> Answered(i)] EXCEPT ![j] = e[2]]
    BY <2>5
  <2>7. Lifecycle!End(j)
    BY <1>0, <2>1, <2>3, <2>6 DEF Lifecycle!End
  <2>8. QED
    BY <2>7 DEF Lifecycle!Next
<1>7. QED
  BY <1>1, <1>3, <1>4, <1>5, <1>6 DEF Work

\* The steps of the game thread: a cancel, the sweep and the unload are steps of
\* the lifecycle, and so is the end of all the jobs that Pool->Destroy abandons.
LEMMA GameThreadImplements ==
  ASSUME Inv, WorkInv, GameThreadStep
  PROVE  [Lifecycle!Next]_(Lifecycle!vars)
<1> USE ConstantsAssumption DEF Inv, WorkInv, TypeOK
<1>0. /\ state \in [Jobs -> States] /\ errMsg \in [Jobs -> Messages]
      /\ result \in [Jobs -> BOOLEAN] /\ cancelReq \in [Jobs -> BOOLEAN]
      /\ tracked \subseteq Jobs
  BY DEF JobTypes
<1>a. UNCHANGED <<state, errMsg, result>> =>
        UNCHANGED <<state, [i \in Jobs |-> Answered(i)]>>
  BY DEF Answered, Terminal
<1>1. CASE RunTicker \/ TickerWritesError
  <2>1. UNCHANGED <<state, result, tracked, cancelReq, shutdown>>
    BY <1>1 DEF RunTicker, TickerWritesError, poolVars
  <2>2. \A i \in Jobs : Terminal(i) => errMsg'[i] = errMsg[i]
    <3>1. CASE TickerWritesError
      BY <3>1 DEF TickerWritesError
    <3>2. CASE RunTicker
      <4>1. PICK j \in Jobs : j = Head(ticker) /\ j \in Range(ticker)
        BY <3>2, TailFresh DEF RunTicker, BodyInv, QueueTypes
      <4>2. ~Terminal(j)
        BY <4>1 DEF BodyInv, Awaited, PhaseInv, BodySteps, Terminal, TerminalStates
      <4>3. \A i \in Jobs : i # j => errMsg'[i] = errMsg[i]
        BY <1>0, <3>2, <4>1 DEF RunTicker, BodyBeginsError
      <4>4. QED
        BY <4>2, <4>3
    <3>3. QED
      BY <1>1, <3>1, <3>2
  <2>3. QED
    BY <2>1, <2>2, Invisible
<1>2. CASE RequestCancel
  <2>1. /\ UNCHANGED <<state, errMsg, result, tracked, shutdown>>
        /\ \/ UNCHANGED cancelReq
           \/ \E j \in Jobs : Cancellable(j) /\ cancelReq' = [cancelReq EXCEPT ![j] = TRUE]
    <3>1. UNCHANGED <<state, errVars, result, tracked, poolVars>>
      BY <1>2, Zenon DEF RequestCancel
    <3>2. UNCHANGED cancelReq \/ \E j \in Jobs : Cancellable(j) /\ cancelReq' = [cancelReq EXCEPT ![j] = TRUE]
      BY <1>2, Zenon DEF RequestCancel
    <3>3. QED
      BY <3>1, <3>2 DEF errVars, poolVars
  <2>2. CASE UNCHANGED cancelReq
    BY <2>1, <2>2, Invisible
  <2>3. CASE \E j \in Jobs : Cancellable(j) /\ cancelReq' = [cancelReq EXCEPT ![j] = TRUE]
    <3>1. PICK j \in Jobs : Cancellable(j) /\ cancelReq' = [cancelReq EXCEPT ![j] = TRUE]
      BY <2>3
    <3>2. {i \in Jobs : cancelReq[i]}' = {i \in Jobs : cancelReq[i]} \cup {j}
      BY <1>0, <3>1
    <3>3. Lifecycle!AskCancel(j)
      BY <1>a, <2>1, <3>1, <3>2 DEF Lifecycle!AskCancel, Lifecycle!Ended, Cancellable, Terminal,
         TerminalStates
    <3>4. QED
      BY <3>3 DEF Lifecycle!Next
  <2>4. QED
    BY <2>1, <2>2, <2>3
<1>3. CASE TickTtlCleanup
  <2>1. /\ UNCHANGED <<state, errMsg, result, cancelReq, shutdown>>
        /\ tracked' = tracked \ {j \in tracked : Expired(j)}
    BY <1>3 DEF TickTtlCleanup, jobVars, errVars, poolVars
  <2>2. {j \in tracked : Expired(j)} \in SUBSET (tracked \cap Lifecycle!Ended)
    BY <1>0 DEF Expired, Terminal, TerminalStates, Lifecycle!Ended
  <2>3. UNCHANGED {i \in Jobs : cancelReq[i]}
    BY <2>1
  <2>4. Lifecycle!Forget
    BY <1>a, <2>1, <2>2, <2>3 DEF Lifecycle!Forget
  <2>5. QED
    BY <2>4 DEF Lifecycle!Next
<1>4. CASE BeginShutdown
  <2>1. UNCHANGED <<state, errMsg, result, cancelReq, tracked>> /\ shutdown' = TRUE
    BY <1>4 DEF BeginShutdown, jobVars, errVars
  <2>2. UNCHANGED {i \in Jobs : cancelReq[i]}
    BY <2>1
  <2>3. Lifecycle!Close
    BY <1>a, <2>1, <2>2 DEF Lifecycle!Close
  <2>4. QED
    BY <2>3 DEF Lifecycle!Next
<1>5. CASE DropJobs
  <2>1. /\ UNCHANGED <<state, errMsg, result, shutdown>> /\ tracked' = {} /\ shutdown
        /\ cancelReq' = [j \in Jobs |-> cancelReq[j] \/ j \in tracked]
    BY <1>5 DEF DropJobs, CancelAll, errVars, poolVars, PoolInv
  <2>2. {i \in Jobs : cancelReq[i]}' = {i \in Jobs : cancelReq[i]} \cup tracked
    BY <1>0, <2>1
  <2>3. Lifecycle!ForgetAll
    BY <1>a, <2>1, <2>2 DEF Lifecycle!ForgetAll
  <2>4. QED
    BY <2>3 DEF Lifecycle!Next
<1>6. CASE AbandonQueue
  <2> DEFINE gone == {j \in Jobs : Queued(j)}
  <2>1. /\ state' = [j \in Jobs |-> IF j \in gone THEN "Cancelled" ELSE state[j]]
        /\ errMsg' = [j \in Jobs |-> IF j \in gone THEN "abandoned" ELSE errMsg[j]]
        /\ UNCHANGED <<result, tracked, cancelReq, shutdown>>
    BY <1>6 DEF AbandonQueue, AbandonedState, poolVars
  <2>2. \A j \in gone : state[j] = "Pending" /\ cancelReq[j] /\ ~result[j]
    <3>1. \A j \in gone : state[j] = "Pending"
      BY DEF PhaseInv, Waiting, Queued, Range, QueueTypes
    <3>2. tpc[GT] \in DroppedSteps
      BY <1>6 DEF AbandonQueue, DroppedSteps
    <3>3. QED
      BY <3>1, <3>2, PendingBlank DEF TrackInv, Active
  <2> HIDE DEF gone
  <2>3. CASE gone = {}
    <3>1. UNCHANGED <<state, errMsg>>
      BY <1>0, <2>1, <2>3
    <3>2. QED
      BY <2>1, <3>1, Invisible
  <2>4. CASE gone # {}
    <3>0. gone \subseteq Jobs
      BY DEF gone
    <3>1. \A i \in Jobs : Answered(i)' = IF i \in gone THEN "error" ELSE Answered(i)
      BY <1>0, <2>1, <2>2 DEF Answered, Terminal, TerminalStates
    <3>2. [i \in Jobs |-> Answered(i)]' = [i \in Jobs |-> IF i \in gone THEN "error"
                                                          ELSE [k \in Jobs |-> Answered(k)][i]]
      BY <2>1, <2>2, <3>1 DEF gone
    <3>3. gone \in SUBSET {i \in {k \in Jobs : cancelReq[k]} : state[i] = "Pending"}
      BY <2>2, <3>0
    <3>4. UNCHANGED {i \in Jobs : cancelReq[i]}
      BY <2>1
    <3>5. Lifecycle!Withdraw
      BY <2>1, <2>4, <3>2, <3>3, <3>4 DEF Lifecycle!Withdraw
    <3>6. QED
      BY <3>5 DEF Lifecycle!Next
  <2>5. QED
    BY <2>3, <2>4
<1>7. CASE StopServer \/ JoinConnections \/ DestroyPool \/ Tick
  <2>1. UNCHANGED <<state, errMsg, result, tracked, cancelReq, shutdown>>
    BY <1>7 DEF StopServer, JoinConnections, DestroyPool, Tick, registry, jobVars, errVars, poolVars
  <2>2. QED
    BY <2>1, Invisible
<1>8. QED
  BY <1>1, <1>2, <1>3, <1>4, <1>5, <1>6, <1>7 DEF GameThreadStep, Shutdown

\* The registry implements the lifecycle its clients see: a job runs once, its
\* answer appears together with its terminal state and agrees with it, it is
\* cancelled only when asked, and the registry forgets only jobs that have ended
\* until it closes; for any number of jobs, workers and threads.
THEOREM LifecycleImplemented == Spec => ImplementsLifecycle
<1>1. Init => Lifecycle!Init
  <2> SUFFICES ASSUME Init PROVE Lifecycle!Init
    OBVIOUS
  <2>1. [j \in Jobs |-> Answered(j)] = [j \in Jobs |-> "nothing"]
    BY DEF Init, Answered, Terminal, TerminalStates
  <2>2. {j \in Jobs : cancelReq[j]} = {}
    BY DEF Init
  <2>3. QED
    BY <2>1, <2>2 DEF Init, Lifecycle!Init
<1>2. Init => ClosedInv
  BY DEF Init, ClosedInv
<1>3. Inv /\ WorkInv /\ ClosedInv /\ [Next]_vars => (Inv /\ WorkInv /\ ClosedInv)'
  BY NextPoolInv, NextWorkInv, NextClosedInv DEF Inv
<1>4. Inv /\ WorkInv /\ ClosedInv /\ [Next]_vars => [Lifecycle!Next]_(Lifecycle!vars)
  <2> SUFFICES ASSUME Inv, WorkInv, ClosedInv, [Next]_vars
               PROVE  [Lifecycle!Next]_(Lifecycle!vars)
    OBVIOUS
  <2>1. CASE \E t \in Threads : Submit(t)
    BY <2>1, SubmitImplements
  <2>2. CASE \/ \E t \in Threads : Query(t)
             \/ UNCHANGED vars
    <3>1. UNCHANGED <<state, errMsg, result, tracked, cancelReq, shutdown>>
      BY <2>2 DEF Query, BeginResult, ReadState, ReadRest, GetResult, registry, jobVars, errVars,
         poolVars, vars
    <3>2. QED
      BY <3>1, Invisible
  <2>3. CASE \E w \in Workers : Work(w)
    BY <2>3, WorkImplements
  <2>4. CASE GameThreadStep
    BY <2>4, GameThreadImplements
  <2>5. QED
    BY <2>1, <2>2, <2>3, <2>4 DEF Next, GameThreadStep
<1>5. Init => Inv /\ WorkInv
  BY InitTypeOK, InitPoolInv, InitWorkInv DEF Inv
<1>6. QED
  BY <1>1, <1>2, <1>3, <1>4, <1>5, PTL DEF Spec, ImplementsLifecycle, Lifecycle!Spec
=============================================================================
