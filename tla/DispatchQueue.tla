--------------------------- MODULE DispatchQueue ---------------------------
(***************************************************************************)
(* FMCPDispatchQueue: the handler table and the two lanes requests take.   *)
(*                                                                         *)
(* Lane B: a CallFunction request whose method is registered as thread     *)
(* safe runs at once on the thread of its connection.  Lane A: every other *)
(* request waits in InboundQueue for the game thread's Drain.              *)
(*                                                                         *)
(* The module holds the state and the steps; the threads that take them    *)
(* are in BridgeServer.  A request is a model value.  What HandleFrame and *)
(* the dispatcher tell apart is the set it belongs to; the arguments and   *)
(* the results are abstracted.  HandlersLock is held within a step only.   *)
(***************************************************************************)
EXTENDS Integers, Sequences, FiniteSets

CONSTANTS
  LaneA,     \* CallFunction, a method registered with bThreadSafe = false
  LaneB,     \* CallFunction, a method registered with bThreadSafe = true
  OtherKind, \* a thread-safe method asked for with another kind (job_status ...)
  Exec,      \* kind ExecPython
  Unmatched, \* a method without C++ handler: the Python registry's
  BadKind,   \* an id, but a missing or unknown kind
  Malformed, \* not JSON, nested too deep, or without an id
  Huge,      \* a line of kMCPFrameMaxBytes or more
  Opaque     \* the requests whose id is not the text of a GUID

Requests == LaneA \cup LaneB \cup OtherKind \cup Exec \cup Unmatched
            \cup BadKind \cup Malformed \cup Huge

(* The frames that never become an FMCPRequest.                            *)
Rejected == BadKind \cup Malformed \cup Huge

ASSUME RequestsAssumption ==
  /\ IsFiniteSet(Requests) /\ Opaque \subseteq Requests
  /\ Cardinality(Requests) =
       Cardinality(LaneA) + Cardinality(LaneB) + Cardinality(OtherKind)
       + Cardinality(Exec) + Cardinality(Unmatched) + Cardinality(BadKind)
       + Cardinality(Malformed) + Cardinality(Huge)

VARIABLES
  handlers,  \* the methods in Handlers (and MethodThreadSafety), see Methods
  python,    \* ExecPythonHandler and UnknownMethodFallback are installed
  inbound,   \* InboundQueue
  ranOn      \* the thread that ran the handler of a request, once it ran

dispatchVars == <<handlers, python, inbound, ranOn>>

(* One method stands for all those of a lane; "none" has no C++ handler.   *)
Methods == {"laneA", "laneB"}

Method(r) == CASE r \in LaneA                 -> "laneA"
               [] r \in LaneB \cup OtherKind  -> "laneB"
               [] OTHER                       -> "none"

Lanes   == {"nobody", "gameThread", "connection"}
Answers == {"result", "notFound", "noPython", "badFrame", "badKind", "tooLarge"}

DispatchInit ==
  /\ handlers = {} /\ python = FALSE
  /\ inbound = <<>>
  /\ ranOn = [r \in Requests |-> "nobody"]

------------------------------------------------------------------------------
(* Responses.  SerializeResponse echoes OriginalIdString and falls back to *)
(* RequestId when it is empty; RequestId is a fresh GUID for an opaque id. *)

IdEcho(r, hasOriginal) == IF hasOriginal \/ r \notin Opaque THEN "own" ELSE "fresh"

\* The response of a dispatched request is stamped with both ids.
Response(r, answer) == [req |-> r, answer |-> answer, id |-> IdEcho(r, TRUE)]

\* SendImmediateError knows the GUID at most.
ImmediateError(r) ==
  CASE r \in BadKind -> [req |-> r, answer |-> "badKind", id |-> IdEcho(r, FALSE)]
    [] r \in Huge    -> [req |-> r, answer |-> "tooLarge", id |-> "fresh"]
    [] OTHER         -> [req |-> r, answer |-> "badFrame", id |-> "fresh"]

Responses == [req : Requests, answer : Answers, id : {"own", "fresh"}]

------------------------------------------------------------------------------
(* The producer's side, on a connection thread.                            *)

IsThreadSafe(r) == Method(r) = "laneB" /\ "laneB" \in handlers

\* The condition of the Lane B short-circuit in HandleFrame.
TakesLaneB(r) == r \notin Exec \cup OtherKind /\ IsThreadSafe(r)

\* Mutant: the newest request is served first.
PushFront(r) == inbound' = <<r>> \o inbound

Push(r) == inbound' = Append(inbound, r)

MethodNotFound(r) == Response(r, "notFound")

------------------------------------------------------------------------------
(* Drain's choice of a handler: ExecPython first, then the table, then the *)
(* Python fallback.  DispatchInline looks at the table alone.              *)

Resolves(r) == IF r \in Exec THEN python ELSE Method(r) \in handlers \/ python

DrainAnswer(r) ==
  CASE Resolves(r) -> Response(r, "result")
    [] r \in Exec  -> Response(r, "noPython")
    [] OTHER       -> MethodNotFound(r)

Dispatched(r, where) == ranOn' = [ranOn EXCEPT ![r] = where]

\* One turn of Drain's loop up to the response.
DrainHead ==
  /\ inbound # <<>>
  /\ inbound' = Tail(inbound)
  /\ IF Resolves(Head(inbound)) THEN Dispatched(Head(inbound), "gameThread")
                                ELSE UNCHANGED ranOn
  /\ UNCHANGED <<handlers, python>>

------------------------------------------------------------------------------
(* RegisterDefaultDispatchHandlers and its undoing, on the game thread.    *)

RegisterPython ==
  /\ python' = TRUE
  /\ UNCHANGED <<handlers, inbound, ranOn>>

RegisterMethods ==
  /\ handlers' = Methods
  /\ UNCHANGED <<python, inbound, ranOn>>

UnregisterPython ==
  /\ python' = FALSE
  /\ UNCHANGED <<handlers, inbound, ranOn>>

UnregisterMethods ==
  /\ handlers' = {}
  /\ UNCHANGED <<python, inbound, ranOn>>
=============================================================================
