---------------------------- MODULE BridgeServer ----------------------------
(***************************************************************************)
(* FMCPServer, FMCPConnection and the module that owns them, around the    *)
(* dispatcher of DispatchQueue:                                            *)
(*                                                                         *)
(*   - the accept thread of FTcpListener runs OnConnectionAccepted;        *)
(*   - every connection has a thread that receives, cuts frames, answers   *)
(*     Lane B requests and pushes the others;                              *)
(*   - the game thread runs StartupModule, OnEndFrame (Drain and the       *)
(*     collection of closed connections), MCP.RestartListener and          *)
(*     ShutdownModule;                                                     *)
(*   - the clients connect, write, read or stop reading, shut down their   *)
(*     half of the connection, or vanish.                                  *)
(*                                                                         *)
(* A connection is a number, the order of the accepts; its ConnectionId is *)
(* connId.  TSharedPtr is modelled by who holds a reference: Connections,  *)
(* the accept thread, the game thread.  A response goes out in two writes, *)
(* its head and its tail, because Send may take only a part of a line, and *)
(* either may fail: SendResponse gives up its line then, in the middle if  *)
(* need be, and the connection goes on with the next one.                  *)
(* ConnectionsLock is held within a step only; SendLock across two.        *)
(* MaxConns and the finite set Requests bound the model.                   *)
(***************************************************************************)
EXTENDS DispatchQueue

CONSTANTS
  MaxConns, \* bound on the connections that are accepted
  Spawns,   \* what FRunnableThread::Create may do, a subset of BOOLEAN
  Binds,    \* whether the port can be bound, a subset of BOOLEAN
  Stalls    \* whether clients may stop reading, a Boolean

ASSUME ServerAssumption ==
  /\ MaxConns \in Nat \ {0}
  /\ Spawns \subseteq BOOLEAN /\ Binds \subseteq BOOLEAN /\ Stalls \in BOOLEAN

Conns == 1..MaxConns
None  == 0   \* no connection

VARIABLES
  listener,  \* the FTcpListener exists, and with it its accept thread
  listening, \* bListening
  nextId,    \* NextConnectionId
  conns,     \* Connections
  apc, ahand,       \* accept thread: next step, and the connection it makes
  connId,           \* FMCPConnection::ConnectionId, 0 before the object exists
  cpc,              \* a connection's thread: next step
  stopReq, closed,  \* bStopRequested, bClosed
  destroyed,        \* how often the socket of a connection was destroyed
  client,           \* what the client does
  stream,           \* the requests the client wrote, in order
  recvd, handled,   \* how many of them were received, and handled
  chand,            \* the response a connection's thread sends
  wire,             \* what was written to the socket
  lost,             \* the requests whose SendResponse returned false
  sendLock,         \* SendLock of a connection
  gpc,              \* the game thread: next step
  ghand, gtarget,   \* the response in Drain's hand, and the connection it is for
  doomed, reason    \* Stop's ToDestroy, and why Stop runs

acceptVars == <<apc, ahand>>
ioVars     == <<wire, lost, sendLock>>
threadVars == <<cpc, closed, recvd, handled, chand>>
gameVars   == <<gpc, ghand, gtarget, doomed, reason>>
listVars   == <<listener, listening, nextId, conns, connId>>
clientVars == <<client, stream>>
vars == <<dispatchVars, listVars, acceptVars, threadVars, stopReq, destroyed,
          clientVars, ioVars, gameVars>>

\* What the steps of a connection's thread leave alone.
notConn == <<listVars, acceptVars, stopReq, destroyed, clientVars, gameVars>>
\* What the steps of the game thread leave alone but for the shutdown.
notGame == <<acceptVars, threadVars, clientVars>>

NoResponse == [req |-> "none"]
AcceptSteps == {"idle", "check", "add", "spawn", "setThread", "refuse"}
ConnSteps   == {"none", "wait", "recv", "frames", "find", "send", "sendTail", "exited"}
StopSteps   == {"stopListening", "joinListener", "take", "signal", "reap"}
GameSteps   == {"bind", "listen", "registerPython", "registerMethods", "hook",
                "frame", "drain", "lookup", "respond", "send", "sendTail", "collect",
                "unregisterPython", "unregisterMethods", "down"} \cup StopSteps
Reasons == {"startup", "restart", "unload"}
ClientStates == {"none", "reading", "stalled", "halfClosed", "gone"}

Init ==
  /\ DispatchInit
  /\ listener = FALSE /\ listening = FALSE /\ nextId = 1 /\ conns = {}
  /\ apc = "idle" /\ ahand = None
  /\ connId = [o \in Conns |-> 0]
  /\ cpc = [o \in Conns |-> "none"]
  /\ stopReq = [o \in Conns |-> FALSE] /\ closed = [o \in Conns |-> FALSE]
  /\ destroyed = [o \in Conns |-> 0]
  /\ client = [o \in Conns |-> "none"]
  /\ stream = [o \in Conns |-> <<>>]
  /\ recvd = [o \in Conns |-> 0] /\ handled = [o \in Conns |-> 0]
  /\ chand = [o \in Conns |-> NoResponse]
  /\ wire = [o \in Conns |-> <<>>] /\ lost = {}
  /\ sendLock = [o \in Conns |-> "nobody"]
  /\ gpc = "bind" /\ ghand = NoResponse /\ gtarget = None
  /\ doomed = {} /\ reason = "startup"

Sent(o)  == {stream[o][i] : i \in 1..Len(stream[o])}
Owner(r) == CHOOSE o \in Conns : r \in Sent(o)

------------------------------------------------------------------------------
(* The clients.                                                            *)

Unsent == Requests \ UNION {Sent(o) : o \in Conns}

ClientWrites(o) ==
  /\ client[o] \in {"reading", "stalled"}
  /\ \E r \in Unsent : stream' = [stream EXCEPT ![o] = Append(@, r)]
  /\ UNCHANGED <<dispatchVars, listVars, acceptVars, threadVars, stopReq, destroyed,
                 client, ioVars, gameVars>>

BecomesClient(o, from, to) ==
  /\ client[o] \in from
  /\ client' = [client EXCEPT ![o] = to]
  /\ UNCHANGED <<dispatchVars, listVars, acceptVars, threadVars, stopReq, destroyed,
                 stream, ioVars, gameVars>>

ClientStalls(o)     == Stalls /\ BecomesClient(o, {"reading"}, "stalled")
ClientResumes(o)    == BecomesClient(o, {"stalled"}, "reading")
ClientHalfCloses(o) == BecomesClient(o, {"reading"}, "halfClosed")
ClientVanishes(o)   == BecomesClient(o, {"reading", "stalled", "halfClosed"}, "gone")

Client(o) == \/ ClientWrites(o) \/ ClientStalls(o) \/ ClientResumes(o)
             \/ ClientHalfCloses(o) \/ ClientVanishes(o)

------------------------------------------------------------------------------
(* The accept thread: FTcpListener accepts and asks OnConnectionAccepted   *)
(* whether to keep the socket.                                             *)

\* The socket is closed and freed, whoever the client is.
DestroySockets(os) ==
  destroyed' = [o \in Conns |-> destroyed[o] + (IF o \in os THEN 1 ELSE 0)]

Accept(o) ==
  /\ listener /\ apc = "idle"
  /\ client[o] = "none" /\ \A p \in 1..(o - 1) : client[p] # "none"
  /\ client' = [client EXCEPT ![o] = "reading"]
  /\ apc' = "check" /\ ahand' = o
  /\ UNCHANGED <<dispatchVars, listVars, threadVars, stopReq, destroyed, stream, ioVars,
                 gameVars>>

CheckListening ==
  /\ apc = "check"
  /\ apc' = IF listening THEN "add" ELSE "refuse"
  /\ UNCHANGED <<dispatchVars, listVars, ahand, threadVars, stopReq, destroyed,
                 clientVars, ioVars, gameVars>>

AddConnection ==
  /\ apc = "add"
  /\ connId' = [connId EXCEPT ![ahand] = nextId]
  /\ nextId' = nextId + 1
  /\ conns' = conns \cup {ahand}
  /\ apc' = "spawn"
  /\ UNCHANGED <<dispatchVars, listener, listening, ahand, threadVars, stopReq,
                 destroyed, clientVars, ioVars, gameVars>>

SpawnThread ==
  /\ apc = "spawn" /\ TRUE \in Spawns
  /\ cpc' = [cpc EXCEPT ![ahand] = "wait"]
  /\ apc' = "setThread"
  /\ UNCHANGED <<dispatchVars, listVars, ahand, closed, recvd, handled, chand, stopReq,
                 destroyed, clientVars, ioVars, gameVars>>

\* The object leaves the list and dies with the last reference to it, which
\* destroys the socket; the listener is then told to do the same.
SpawnFails ==
  /\ apc = "spawn" /\ FALSE \in Spawns
  /\ conns' = conns \ {ahand}
  /\ DestroySockets({ahand})
  /\ apc' = "refuse"
  /\ UNCHANGED <<dispatchVars, listener, listening, nextId, connId, ahand, threadVars,
                 stopReq, clientVars, ioVars, gameVars>>

\* The callback's reference ends here; it is the last one when the connection
\* closed so early that the game thread has already collected it.
SetThread ==
  /\ apc = "setThread"
  /\ DestroySockets({ahand} \ conns)
  /\ apc' = "idle" /\ ahand' = None
  /\ UNCHANGED <<dispatchVars, listVars, threadVars, stopReq, clientVars, ioVars, gameVars>>

\* The callback returned false: FTcpListener closes and destroys the socket.
Refuse ==
  /\ apc = "refuse"
  /\ DestroySockets({ahand})
  /\ apc' = "idle" /\ ahand' = None
  /\ UNCHANGED <<dispatchVars, listVars, threadVars, stopReq, clientVars, ioVars, gameVars>>

AcceptThread ==
  \/ CheckListening \/ AddConnection \/ SpawnThread \/ SpawnFails \/ SetThread \/ Refuse

------------------------------------------------------------------------------
(* SendResponse's loop under SendLock.  Send blocks while the client does  *)
(* not read.  It always fails once the client is gone, and may fail at any *)
(* time while it stays: bClosed is left as it is, so the next response is  *)
(* written behind whatever part of this line went out.                     *)

Blocked(o) == client[o] = "stalled"

\* Mutant: SendLock is not taken.
SendLockIgnored(o) == TRUE

SendLockFree(o) == sendLock[o] = "nobody"

Writes(o, part, resp) ==
  /\ client[o] # "gone"
  /\ wire' = [wire EXCEPT ![o] = Append(@, [part |-> part, resp |-> resp])]
  /\ UNCHANGED lost

SendFails(resp) == lost' = lost \cup {resp.req} /\ UNCHANGED wire

\* The first part of a line; FALSE in sent when nothing was written.
WriteHead(o, resp, sent) ==
  /\ SendLockFree(o) /\ ~Blocked(o)
  /\ IF sent
     THEN Writes(o, "head", resp) /\ sendLock' = [sendLock EXCEPT ![o] = "held"]
     ELSE SendFails(resp) /\ UNCHANGED sendLock

\* The rest of the line, or its loss; the lock is released in both cases.
WriteTail(o, resp) ==
  /\ ~Blocked(o)
  /\ Writes(o, "tail", resp) \/ SendFails(resp)
  /\ sendLock' = [sendLock EXCEPT ![o] = "nobody"]

------------------------------------------------------------------------------
(* FMCPConnection::Run.                                                    *)

Exits(o) ==
  /\ cpc' = [cpc EXCEPT ![o] = "exited"]
  /\ closed' = [closed EXCEPT ![o] = TRUE]

\* Mutant: the loop does not look at bStopRequested.
MustStopNever(o) == FALSE

MustStop(o) == stopReq[o]

\* Wait returned: the second look at bStopRequested, or its timeout and the first.
Wakes(o) ==
  /\ cpc[o] = "wait"
  /\ IF MustStop(o)
     THEN Exits(o)
     ELSE /\ recvd[o] < Len(stream[o]) \/ client[o] \in {"halfClosed", "gone"}
          /\ cpc' = [cpc EXCEPT ![o] = "recv"]
          /\ UNCHANGED closed
  /\ UNCHANGED <<notConn, dispatchVars, recvd, handled, chand, ioVars>>

\* A chunk ends anywhere: some of the requests written so far are complete.
Receives(o) ==
  /\ cpc[o] = "recv"
  /\ \E n \in recvd[o] + 1 .. Len(stream[o]) : recvd' = [recvd EXCEPT ![o] = n]
  /\ cpc' = [cpc EXCEPT ![o] = "frames"]
  /\ UNCHANGED <<notConn, dispatchVars, closed, handled, chand, ioVars>>

\* Recv fails, or reads zero bytes: the client closed its half after the last
\* byte, or it is gone.
ReceivesEnd(o) ==
  /\ cpc[o] = "recv"
  /\ client[o] = "gone" \/ (client[o] = "halfClosed" /\ recvd[o] = Len(stream[o]))
  /\ Exits(o)
  /\ UNCHANGED <<notConn, dispatchVars, recvd, handled, chand, ioVars>>

Frame(o) == stream[o][handled[o] + 1]
HasFrame(o) == cpc[o] = "frames" /\ handled[o] < recvd[o]

\* Mutant: a frame takes the next one with it.
NextFrameSkips(o) == handled' = [handled EXCEPT ![o] = @ + 2]

NextFrame(o) == handled' = [handled EXCEPT ![o] = @ + 1]

NoMoreFrames(o) ==
  /\ cpc[o] = "frames" /\ handled[o] = recvd[o]
  /\ cpc' = [cpc EXCEPT ![o] = "wait"]
  /\ UNCHANGED <<notConn, dispatchVars, closed, recvd, handled, chand, ioVars>>

RejectsFrame(o) ==
  /\ HasFrame(o) /\ Frame(o) \in Rejected
  /\ NextFrame(o)
  /\ chand' = [chand EXCEPT ![o] = ImmediateError(Frame(o))]
  /\ cpc' = [cpc EXCEPT ![o] = "send"]
  /\ UNCHANGED <<notConn, dispatchVars, closed, recvd, ioVars>>

\* Mutant: the short-circuit does not return, the request is queued as well.
PushesToo(r) == Push(r)

PushesNot(r) == UNCHANGED inbound

\* The first of the two looks at the handler table.
TakesInline(o) ==
  /\ HasFrame(o) /\ Frame(o) \notin Rejected /\ TakesLaneB(Frame(o))
  /\ cpc' = [cpc EXCEPT ![o] = "find"]
  /\ PushesNot(Frame(o))
  /\ UNCHANGED <<notConn, handlers, python, ranOn, closed, recvd, handled, chand, ioVars>>

\* DispatchInline: the second look, and the handler.
DispatchInline(o) ==
  /\ cpc[o] = "find"
  /\ NextFrame(o)
  /\ LET r == Frame(o) IN
       IF Method(r) \in handlers
       THEN /\ chand' = [chand EXCEPT ![o] = Response(r, "result")]
            /\ Dispatched(r, "connection")
       ELSE /\ chand' = [chand EXCEPT ![o] = MethodNotFound(r)]
            /\ UNCHANGED ranOn
  /\ cpc' = [cpc EXCEPT ![o] = "send"]
  /\ UNCHANGED <<notConn, handlers, python, inbound, closed, recvd, ioVars>>

PushesFrame(o) ==
  /\ HasFrame(o) /\ Frame(o) \notin Rejected /\ ~TakesLaneB(Frame(o))
  /\ NextFrame(o)
  /\ Push(Frame(o))
  /\ UNCHANGED <<notConn, handlers, python, ranOn, cpc, closed, recvd, chand, ioVars>>

\* Mutant: every rejected frame ends the connection's work.
FatalIfRejected(r) == r \in Rejected

Fatal(r) == r \in Huge

\* A frame that is too large ends the connection, whatever became of the answer.
AfterSend(o) ==
  /\ IF Fatal(chand[o].req)
     THEN Exits(o)
     ELSE cpc' = [cpc EXCEPT ![o] = "frames"] /\ UNCHANGED closed
  /\ chand' = [chand EXCEPT ![o] = NoResponse]

SendsHead(o) ==
  /\ cpc[o] = "send"
  /\ \/ /\ WriteHead(o, chand[o], TRUE)
        /\ cpc' = [cpc EXCEPT ![o] = "sendTail"]
        /\ UNCHANGED <<closed, chand>>
     \/ WriteHead(o, chand[o], FALSE) /\ AfterSend(o)
  /\ UNCHANGED <<notConn, dispatchVars, recvd, handled>>

SendsTail(o) ==
  /\ cpc[o] = "sendTail"
  /\ WriteTail(o, chand[o])
  /\ AfterSend(o)
  /\ UNCHANGED <<notConn, dispatchVars, recvd, handled>>

ConnThread(o) ==
  \/ Wakes(o) \/ Receives(o) \/ ReceivesEnd(o) \/ NoMoreFrames(o)
  \/ RejectsFrame(o) \/ TakesInline(o) \/ DispatchInline(o) \/ PushesFrame(o)
  \/ SendsHead(o) \/ SendsTail(o)

------------------------------------------------------------------------------
(* The game thread: StartupModule.                                         *)

Goes(step) == gpc' = step

\* Start, up to the constructor of FTcpListener.
Bind ==
  /\ gpc = "bind"
  /\ \E ok \in Binds :
       /\ listener' = ok
       /\ Goes(IF ok THEN "listen" ELSE IF reason = "restart" THEN "frame"
                                   ELSE "registerPython")
  /\ UNCHANGED <<notGame, dispatchVars, listening, nextId, conns, connId, stopReq,
                 destroyed, ioVars, ghand, gtarget, doomed, reason>>

\* The accept thread runs already; what it accepts before this step is refused.
Listen ==
  /\ gpc = "listen"
  /\ listening' = TRUE
  /\ Goes(IF reason = "restart" THEN "frame" ELSE "registerPython")
  /\ UNCHANGED <<notGame, dispatchVars, listener, nextId, conns, connId, stopReq,
                 destroyed, ioVars, ghand, gtarget, doomed, reason>>

\* A step of the game thread on the dispatcher only.
Changes(from, step, to) ==
  /\ gpc = from /\ step /\ Goes(to)
  /\ UNCHANGED <<notGame, listVars, stopReq, destroyed, ioVars, ghand, gtarget, doomed,
                 reason>>

Register ==
  \/ Changes("registerPython", RegisterPython, "registerMethods")
  \/ Changes("registerMethods", RegisterMethods, "hook")
  \/ Changes("hook", UNCHANGED dispatchVars, "frame")

------------------------------------------------------------------------------
(* OnEndFrame: Drain, then GarbageCollectClosedConnections.                *)

BeginFrame == Changes("frame", UNCHANGED dispatchVars, "drain")

DrainOne ==
  /\ gpc = "drain"
  /\ DrainHead
  /\ ghand' = DrainAnswer(Head(inbound))
  /\ Goes("lookup")
  /\ UNCHANGED <<notGame, listVars, stopReq, destroyed, ioVars, gtarget, doomed, reason>>

DrainEnds == inbound = <<>> /\ Changes("drain", UNCHANGED dispatchVars, "collect")

SourceConnectionId(r) == connId[Owner(r)]

\* Back to Drain's loop, the response sent or lost.
NextResponse == Goes("drain") /\ ghand' = NoResponse /\ gtarget' = None

\* FMCPServer::SendResponse takes a reference under ConnectionsLock.
LookUp ==
  /\ gpc = "lookup"
  /\ LET targets == {o \in conns : connId[o] = SourceConnectionId(ghand.req)} IN
       \/ \E o \in targets : gtarget' = o /\ Goes("respond") /\ UNCHANGED ghand
       \/ targets = {} /\ NextResponse
  /\ UNCHANGED <<notGame, dispatchVars, listVars, stopReq, destroyed, ioVars, doomed, reason>>

\* FMCPConnection::SendResponse: nothing is written once bClosed is set.
Respond ==
  /\ gpc = "respond"
  /\ IF closed[gtarget] THEN NextResponse ELSE Goes("send") /\ UNCHANGED <<ghand, gtarget>>
  /\ UNCHANGED <<notGame, dispatchVars, listVars, stopReq, destroyed, ioVars, doomed, reason>>

RespondHead ==
  /\ gpc = "send"
  /\ \/ WriteHead(gtarget, ghand, TRUE) /\ Goes("sendTail") /\ UNCHANGED <<ghand, gtarget>>
     \/ WriteHead(gtarget, ghand, FALSE) /\ NextResponse
  /\ UNCHANGED <<notGame, dispatchVars, listVars, stopReq, destroyed, doomed, reason>>

RespondTail ==
  /\ gpc = "sendTail"
  /\ WriteTail(gtarget, ghand)
  /\ NextResponse
  /\ UNCHANGED <<notGame, dispatchVars, listVars, stopReq, destroyed, doomed, reason>>

\* Mutant: a connection is collected as soon as its client is gone.
CollectableEarly(o) == client[o] = "gone"

Collectable(o) == closed[o]

\* The destructors run here, but for a connection the accept thread still holds.
Collect ==
  /\ gpc = "collect"
  /\ conns' = {o \in conns : ~Collectable(o)}
  /\ DestroySockets({o \in conns : Collectable(o) /\ o # ahand})
  /\ Goes("frame")
  /\ UNCHANGED <<notGame, dispatchVars, listener, listening, nextId, connId, stopReq,
                 ioVars, ghand, gtarget, doomed, reason>>

EndFrame ==
  \/ BeginFrame \/ DrainOne \/ DrainEnds \/ LookUp \/ Respond \/ RespondHead
  \/ RespondTail \/ Collect

------------------------------------------------------------------------------
(* FMCPServer::Stop, for MCP.RestartListener or ShutdownModule.            *)

\* Stop returns at once when the listener never started.
StopOr(next) == IF listening \/ listener THEN "stopListening" ELSE next

Restart ==
  /\ gpc = "frame"
  /\ reason' = "restart" /\ Goes(StopOr("bind"))
  /\ UNCHANGED <<notGame, dispatchVars, listVars, stopReq, destroyed, ioVars, ghand, gtarget,
                 doomed>>

\* ShutdownModule: OnEndFrame is unhooked and the handlers are dropped first.
Unload ==
  /\ gpc = "frame"
  /\ reason' = "unload" /\ Goes("unregisterPython")
  /\ UNCHANGED <<notGame, dispatchVars, listVars, stopReq, destroyed, ioVars, ghand, gtarget,
                 doomed>>

Unregister ==
  \/ Changes("unregisterPython", UnregisterPython, "unregisterMethods")
  \/ Changes("unregisterMethods", UnregisterMethods, StopOr("down"))

StopListening ==
  /\ gpc = "stopListening"
  /\ listening' = FALSE
  /\ Goes("joinListener")
  /\ UNCHANGED <<notGame, dispatchVars, listener, nextId, conns, connId, stopReq,
                 destroyed, ioVars, ghand, gtarget, doomed, reason>>

AcceptDone == apc = "idle"

JoinListener ==
  /\ gpc = "joinListener" /\ AcceptDone
  /\ listener' = FALSE
  /\ Goes("take")
  /\ UNCHANGED <<notGame, dispatchVars, listening, nextId, conns, connId, stopReq,
                 destroyed, ioVars, ghand, gtarget, doomed, reason>>

\* Mutant: a restarted server counts its connections from 1 again.
IdsRestart == nextId' = 1

IdsGoOn == UNCHANGED nextId

TakeConnections ==
  /\ gpc = "take"
  /\ doomed' = conns /\ conns' = {}
  /\ IdsGoOn
  /\ Goes("signal")
  /\ UNCHANGED <<notGame, dispatchVars, listener, listening, connId, stopReq,
                 destroyed, ioVars, ghand, gtarget, reason>>

SignalAll ==
  /\ gpc = "signal"
  /\ stopReq' = [o \in Conns |-> stopReq[o] \/ o \in doomed]
  /\ Goes("reap")
  /\ UNCHANGED <<notGame, dispatchVars, listVars, destroyed, ioVars, ghand, gtarget,
                 doomed, reason>>

\* ~FMCPConnection: the thread is joined, then the socket is destroyed.
Reap ==
  /\ gpc = "reap"
  /\ \E o \in doomed :
       /\ cpc[o] = "exited"
       /\ DestroySockets({o})
       /\ doomed' = doomed \ {o}
  /\ UNCHANGED <<notGame, dispatchVars, listVars, stopReq, ioVars, gpc, ghand, gtarget,
                 reason>>

StopEnds ==
  /\ doomed = {}
  /\ Changes("reap", UNCHANGED dispatchVars, IF reason = "restart" THEN "bind" ELSE "down")

Stop == \/ StopListening \/ JoinListener \/ TakeConnections \/ SignalAll
        \/ Reap \/ StopEnds

------------------------------------------------------------------------------
GameThread == Bind \/ Listen \/ Register \/ EndFrame \/ Unregister \/ Stop

Next ==
  \/ \E o \in Conns : Client(o) \/ Accept(o) \/ ConnThread(o)
  \/ AcceptThread \/ GameThread \/ Restart \/ Unload

(* The code's own threads run; SendLock is granted in the end, and a Send  *)
(* returns when its client reads now and then.  Nobody has to connect, to  *)
(* write, to restart or to unload.                                         *)
Fairness ==
  /\ \A o \in Conns : WF_vars(ConnThread(o)) /\ SF_vars(SendsHead(o) \/ SendsTail(o))
  /\ WF_vars(AcceptThread)
  /\ WF_vars(GameThread) /\ SF_vars(RespondHead \/ RespondTail)

(* What the code does not promise for its clients: one that stopped        *)
(* reading reads on, or its connection breaks.                             *)
ClientsRead == \A o \in Conns : WF_vars(ClientResumes(o) \/ ClientVanishes(o))

Spec     == Init /\ [][Next]_vars /\ Fairness
SpecRead == Spec /\ ClientsRead

------------------------------------------------------------------------------
(* What the server promises.                                               *)

Positive == Nat \ {0}

\* Type correctness of the server, its connections and the dispatcher; a
\* thread that sends has a response in hand.
TypeOK ==
  /\ handlers \subseteq Methods /\ python \in BOOLEAN
  /\ inbound \in Seq(Requests) /\ ranOn \in [Requests -> Lanes]
  /\ listener \in BOOLEAN /\ listening \in BOOLEAN /\ nextId \in Positive
  /\ conns \subseteq Conns /\ apc \in AcceptSteps /\ ahand \in Conns \cup {None}
  /\ connId \in [Conns -> Nat] /\ cpc \in [Conns -> ConnSteps]
  /\ stopReq \in [Conns -> BOOLEAN] /\ closed \in [Conns -> BOOLEAN]
  /\ destroyed \in [Conns -> Nat] /\ client \in [Conns -> ClientStates]
  /\ \A o \in Conns : /\ stream[o] \in Seq(Requests)
                      /\ handled[o] \leq recvd[o] /\ recvd[o] \leq Len(stream[o])
                      /\ chand[o] \in Responses \cup {NoResponse}
                      /\ cpc[o] \in {"send", "sendTail"} <=> chand[o] # NoResponse
                      /\ sendLock[o] \in {"nobody", "held"}
  /\ gpc \in GameSteps /\ ghand \in Responses \cup {NoResponse}
  /\ gtarget \in Conns \cup {None} /\ lost \subseteq Requests
  /\ gpc \in {"respond", "send", "sendTail"} <=> gtarget # None
  /\ doomed \subseteq Conns /\ reason \in Reasons

Heads(o) == {i \in 1..Len(wire[o]) : wire[o][i].part = "head"}
AnswersOn(o) == {wire[o][i].resp : i \in Heads(o)}
Answered(r) == \E o \in Conns : \E resp \in AnswersOn(o) : resp.req = r

\* An answer goes to the connection its request came from, although Drain
\* finds that connection by its number only, frames, restarts and reconnects
\* after the request was queued.
AnswerToOwner == \A o \in Conns : \A resp \in AnswersOn(o) : resp.req \in Sent(o)

\* No request is answered twice, by the two lanes or by one of them.
AnsweredOnce ==
  \A o, p \in Conns : \A i \in Heads(o), k \in Heads(p) :
    wire[o][i].resp.req = wire[p][k].resp.req => o = p /\ i = k

\* Position of a request in what its client wrote.
PlaceOf(o, r) == CHOOSE i \in 1..Len(stream[o]) : stream[o][i] = r

\* The answers to requests that go through the queue reach a client in the
\* order in which it asked.
LaneAInOrder ==
  \A o \in Conns : \A i, k \in Heads(o) :
    LET q == wire[o][i].resp.req
        r == wire[o][k].resp.req
    IN  i < k /\ {q, r} \subseteq LaneA \cup OtherKind \cup Exec \cup Unmatched
          => PlaceOf(o, q) < PlaceOf(o, r)

\* Handlers that touch UObjects or Python run on the game thread only, and so
\* does a lane B method that is asked for with another kind of request.
LaneAOnGameThread ==
  \A r \in Requests \ LaneB : ranOn[r] # "connection"

\* Lines do not interleave on a socket the game thread and the connection's
\* thread both write to, although a Send may fail in the middle of one and the
\* connection goes on: a tail comes right after its own head, and a head is
\* followed by its own tail unless it is being sent or its own Send failed.
WholeLines ==
  \A o \in Conns : \A i \in 1..Len(wire[o]) :
    LET resp == wire[o][i].resp IN
      IF wire[o][i].part = "tail"
      THEN i > 1 /\ wire[o][i - 1] = [part |-> "head", resp |-> resp]
      ELSE \/ i < Len(wire[o]) /\ wire[o][i + 1] = [part |-> "tail", resp |-> resp]
           \/ i = Len(wire[o]) /\ sendLock[o] = "held"
           \/ resp.req \in lost

\* A socket that was destroyed is not in use: its thread has exited, nobody
\* looks it up any more and the game thread is not sending on it.
NoUseAfterDestroy ==
  \A o \in Conns : destroyed[o] > 0 =>
    /\ cpc[o] \in {"none", "exited"} /\ o \notin conns \cup doomed
    /\ gtarget # o /\ (ahand = o => apc = "refuse")

\* A socket is destroyed once.
DestroyedOnce == \A o \in Conns : destroyed[o] \leq 1

\* When the module is down nothing of it runs or is left: every thread has
\* been joined, every accepted socket destroyed, and no accept is under way.
NothingLeft ==
  gpc = "down" =>
    /\ conns = {} /\ doomed = {} /\ apc = "idle"
    /\ \A o \in Conns : /\ cpc[o] \in {"none", "exited"}
                        /\ client[o] # "none" => destroyed[o] = 1

\* Every dispatched request is answered under the id the client chose.
DispatchedIdsEchoed ==
  \A o \in Conns : \A resp \in AnswersOn(o) : resp.req \notin Rejected => resp.id = "own"

\* Every request that is answered is answered once, where its handler may run,
\* and under its own id.
AnsweredAsAsked == AnsweredOnce /\ LaneAOnGameThread /\ DispatchedIdsEchoed

\* A socket has one owner to its end, which comes before the module's.
SocketsOwned == NoUseAfterDestroy /\ DestroyedOnce /\ NothingLeft

Leaving(o)   == client[o] \in {"halfClosed", "gone"}
Dismissed(o) == stopReq[o] \/ (connId[o] = 0 /\ destroyed[o] > 0)
Stopping == gpc \in StopSteps \cup {"unregisterPython", "unregisterMethods", "down"}
SendsHuge(o) == Sent(o) \cap Huge # {}
CutOff(o)    == Sent(o) \cap lost # {}

\* The client can read the answer: its line is complete, and starts where
\* another ended.
Readable(r) ==
  \E o \in Conns : \E i \in Heads(o) :
    /\ wire[o][i].resp.req = r
    /\ i = 1 \/ wire[o][i - 1].part = "tail"
    /\ i < Len(wire[o]) /\ wire[o][i + 1].part = "tail"

\* A request gets an answer its client can read as long as that client stays
\* and keeps both halves of its connection open, sends no line that is too
\* large, no Send on its connection fails, and the server neither refused the
\* connection nor is stopped.  After a Send that failed the code promises
\* nothing: it neither repeats the answer nor closes the connection.
EventuallyAnswered ==
  \A r \in Requests, o \in Conns :
    (r \in Sent(o)) ~>
      (Readable(r) \/ CutOff(o) \/ Leaving(o) \/ SendsHuge(o) \/ Dismissed(o) \/ Stopping)

\* A stop that begins ends: the listener is joined, then every connection.
StopsEventually == (gpc \in StopSteps) ~> (gpc \notin StopSteps)

------------------------------------------------------------------------------
(* What the repository's comments and documents say, and the code does not *)
(* do.                                                                     *)

\* FMCPServer.cpp:128: after a failed spawn "return false" is what "tells
\* FTcpListener to close+destroy the socket": nobody else does.
SpawnFailureDestroysOnce == DestroyedOnce
=============================================================================
