---------------------------- MODULE JobLifecycle ----------------------------
(***************************************************************************)
(* What FMCPJobRegistry promises its clients, without threads, locks,      *)
(* queues or tickers: a job goes New -> Pending -> Running -> terminal, it  *)
(* is cancelled only when somebody asked for that, its answer appears       *)
(* together with its terminal state and agrees with it, and the registry    *)
(* forgets only jobs that have ended, until it closes.                      *)
(***************************************************************************)
CONSTANT Jobs

VARIABLES
  phase,   \* EMCPJobState, "New" before the job is accepted
  answer,  \* what a client is given: nothing, the value or an error message
  known,   \* the jobs the registry answers for
  asked,   \* the jobs somebody asked to cancel
  closed   \* Shutdown was called

vars == <<phase, answer, known, asked, closed>>

Init ==
  /\ phase = [j \in Jobs |-> "New"]
  /\ answer = [j \in Jobs |-> "nothing"]
  /\ known = {} /\ asked = {} /\ closed = FALSE

Ended == {j \in Jobs : phase[j] \in {"Succeeded", "Failed", "Cancelled"}}

Accept(j) ==
  /\ phase[j] = "New" /\ ~closed
  /\ phase' = [phase EXCEPT ![j] = "Pending"]
  /\ known' = known \cup {j}
  /\ UNCHANGED <<answer, asked, closed>>

AskCancel(j) ==
  /\ j \in known \ Ended
  /\ asked' = asked \cup {j}
  /\ UNCHANGED <<phase, answer, known, closed>>

Start(j) ==
  /\ phase[j] = "Pending"
  /\ phase' = [phase EXCEPT ![j] = "Running"]
  /\ UNCHANGED <<answer, known, asked, closed>>

\* The end of a job that ran, with the answer that goes with it.
End(j) ==
  /\ phase[j] = "Running"
  /\ \E e \in {<<"Succeeded", "value">>, <<"Failed", "error">>,
               <<"Cancelled", "nothing">>} :
       /\ e[1] = "Cancelled" => j \in asked
       /\ phase' = [phase EXCEPT ![j] = e[1]]
       /\ answer' = [answer EXCEPT ![j] = e[2]]
  /\ UNCHANGED <<known, asked, closed>>

\* The end of jobs that never ran: one of them because a worker saw that it
\* was cancelled, all that are queued when the pool is destroyed.
Withdraw ==
  /\ \E gone \in SUBSET {j \in asked : phase[j] = "Pending"}, a \in {"nothing", "error"} :
       /\ gone # {}
       /\ phase' = [j \in Jobs |-> IF j \in gone THEN "Cancelled" ELSE phase[j]]
       /\ answer' = [j \in Jobs |-> IF j \in gone THEN a ELSE answer[j]]
  /\ UNCHANGED <<known, asked, closed>>

Forget ==
  /\ \E gone \in SUBSET (known \cap Ended) : known' = known \ gone
  /\ UNCHANGED <<phase, answer, asked, closed>>

\* Closing takes two steps: no job is accepted any more, and then every
\* job still known is cancelled and forgotten.
Close ==
  /\ closed' = TRUE
  /\ UNCHANGED <<phase, answer, known, asked>>

ForgetAll ==
  /\ closed
  /\ asked' = asked \cup known
  /\ known' = {}
  /\ UNCHANGED <<phase, answer, closed>>

Next ==
  \/ \E j \in Jobs : Accept(j) \/ AskCancel(j) \/ Start(j) \/ End(j)
  \/ Withdraw \/ Forget \/ Close \/ ForgetAll

Spec == Init /\ [][Next]_vars
=============================================================================
