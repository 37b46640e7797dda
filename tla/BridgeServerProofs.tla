------------------------- MODULE BridgeServerProofs -------------------------
(* Proofs about BridgeServer: types, who owns a socket, which connection a  *)
(* response goes to, how often and in which order requests are answered,    *)
(* for every number of connections and every set of requests.               *)
EXTENDS BridgeServer, DataLemmas, FiniteSetTheorems

(***************************************************************************)
(* The inductive invariant, in parts.                                      *)
(***************************************************************************)

\* What a socket carries.
Lines == [part : {"head", "tail"}, resp : Responses]

\* Steps of the game thread with a response in hand.
Answering == {"lookup", "respond", "send", "sendTail"}

\* The types that TypeOK leaves out, and what the senders and the accept thread
\* have in hand at each step.
HandInv ==
  /\ stream \in [Conns -> Seq(Requests)] /\ wire \in [Conns -> Seq(Lines)]
  /\ recvd \in [Conns -> Nat] /\ handled \in [Conns -> Nat]
  /\ chand \in [Conns -> Responses \cup {NoResponse}]
  /\ sendLock \in [Conns -> {"nobody", "held"}]
  /\ apc = "idle" <=> ahand = None
  /\ ghand # NoResponse <=> gpc \in Answering
  /\ \A o \in Conns : cpc[o] = "find" => handled[o] < recvd[o]
  /\ \A o \in Conns : client[o] = "none" => cpc[o] = "none"
  /\ ahand # None => client[ahand] # "none"
  /\ apc \in {"check", "add", "spawn"} => cpc[ahand] = "none"

TInv == TypeOK /\ HandInv

\* A request has one place in one stream, and a connection its own number from
\* AddConnection on, whatever was restarted since.
NumberInv ==
  /\ \A o \in Conns : IsInjective(stream[o])
  /\ \A o, p \in Conns : o # p => Sent(o) \cap Sent(p) = {}
  /\ \A o \in Conns : connId[o] < nextId
  /\ \A o, p \in Conns : connId[o] = connId[p] /\ connId[o] # 0 => o = p
  /\ \A o \in Conns : o \in conns \/ cpc[o] # "none" => connId[o] # 0
  /\ apc = "spawn" => connId[ahand] # 0

\* A request in the queue, or its response in a hand or on the wire, can still
\* be traced to the connection it came from.
Traced(r, o) == r \in Sent(o) /\ connId[o] # 0

TraceInv ==
  /\ \A r \in Range(inbound) : \E o \in Conns : Traced(r, o)
  /\ ghand # NoResponse => \E o \in Conns : Traced(ghand.req, o)
  /\ \A o \in Conns : gtarget = o => Traced(ghand.req, o)
  /\ \A o \in Conns : chand[o] # NoResponse => Traced(chand[o].req, o)

\* SendLock has one holder, and the wire ends with the head of that holder's
\* line.
HeadLast(o, resp) ==
  wire[o] # <<>> /\ wire[o][Len(wire[o])] = [part |-> "head", resp |-> resp]

LockInv ==
  /\ \A o \in Conns :
       /\ sendLock[o] = "held" <=> cpc[o] = "sendTail" \/ (gpc = "sendTail" /\ gtarget = o)
       /\ cpc[o] = "sendTail" => ~(gpc = "sendTail" /\ gtarget = o) /\ HeadLast(o, chand[o])
       /\ gpc = "sendTail" /\ gtarget = o => HeadLast(o, ghand)

\* A request that was handled is in one place: the queue, the hand of its
\* connection's thread, the hand of the game thread, or a wire.
Handled(r) == \E o \in Conns : \E i \in 1..handled[o] : stream[o][i] = r

InConn(o, r) == chand[o] # NoResponse /\ chand[o].req = r
InGame(r)    == ghand # NoResponse /\ ghand.req = r

OnceInv ==
  /\ IsInjective(inbound)
  /\ \A r \in Requests :
       /\ r \in Range(inbound) => Handled(r) /\ ~Answered(r)
       /\ InGame(r) => Handled(r) /\ r \notin Range(inbound)
       /\ InGame(r) /\ gpc # "sendTail" => ~Answered(r)
       /\ \A o \in Conns : InConn(o, r) => /\ Handled(r) /\ ~InGame(r)
                                           /\ r \notin Range(inbound)
       /\ \A o \in Conns : InConn(o, r) /\ cpc[o] # "sendTail" => ~Answered(r)
       /\ Answered(r) => Handled(r)

\* What is answered on a connection's thread: a rejected frame or a request of
\* lane B. Every other answer bears the client's id.
Echoed(resp) == resp.req \notin Rejected => resp.id = "own"

LaneInv ==
  /\ \A o \in Conns : cpc[o] = "find" => Frame(o) \in LaneB
  /\ \A o \in Conns : chand[o] # NoResponse =>
       chand[o].req \in LaneB \cup Rejected /\ Echoed(chand[o])
  /\ ghand # NoResponse => Echoed(ghand)

\* The answers of the queue follow the order of the stream: what is on the wire
\* comes before what is in Drain's hand, and that before what is in the queue.
Queued == LaneA \cup OtherKind \cup Exec \cup Unmatched

Before(o, q, r) == \E i, k \in 1..Len(stream[o]) :
                     i < k /\ stream[o][i] = q /\ stream[o][k] = r

OnWire(o, q) == q \in Queued /\ \E resp \in AnswersOn(o) : resp.req = q

QueueOrder(o) ==
  \A i, k \in 1..Len(inbound) :
    i < k /\ inbound[i] \in Sent(o) /\ inbound[k] \in Sent(o)
      => Before(o, inbound[i], inbound[k])

HandOrder(o) ==
  \A r \in Sent(o) : InGame(r) =>
    \A k \in 1..Len(inbound) : inbound[k] \in Sent(o) => Before(o, r, inbound[k])

WireQueueOrder(o) ==
  \A q \in Sent(o) : OnWire(o, q) =>
    \A k \in 1..Len(inbound) : inbound[k] \in Sent(o) => Before(o, q, inbound[k])

WireHandOrder(o) ==
  \A q \in Sent(o) : OnWire(o, q) =>
    \A r \in Sent(o) : InGame(r) /\ gpc # "sendTail" => Before(o, q, r)

WireOrder(o) ==
  \A i, k \in Heads(o) :
    i < k /\ wire[o][i].resp.req \in Queued /\ wire[o][k].resp.req \in Queued
      => Before(o, wire[o][i].resp.req, wire[o][k].resp.req)

OrderInv ==
  \A o \in Conns : /\ QueueOrder(o) /\ HandOrder(o) /\ WireQueueOrder(o)
                    /\ WireHandOrder(o) /\ WireOrder(o)

\* The life of a socket: before its accept, in the hand of the accept thread,
\* in Connections or in Stop's ToDestroy, and destroyed after that.
LifeInv ==
  /\ \A o \in Conns :
       /\ closed[o] <=> cpc[o] = "exited"
       /\ client[o] = "none" =>
            ahand # o /\ destroyed[o] = 0 /\ cpc[o] = "none" /\ o \notin conns \cup doomed
       /\ client[o] # "none" /\ ahand # o =>
            destroyed[o] = IF o \in conns \cup doomed THEN 0 ELSE 1
       /\ destroyed[o] # 0 => cpc[o] \in {"none", "exited"}
  /\ ahand # None =>
       /\ destroyed[ahand] = 0 /\ listener
       /\ apc \in {"check", "add", "refuse", "spawn"} => cpc[ahand] = "none"
       /\ apc \in {"check", "add", "refuse"} => ahand \notin conns
       /\ apc = "spawn" => ahand \in conns
       /\ apc = "setThread" => ahand \in conns \/ cpc[ahand] = "exited"
  /\ gtarget # None => gtarget \in conns
  /\ gpc \in {"bind", "take", "signal", "reap", "down"} => ~listener
  /\ ~listener /\ gpc # "take" => conns = {}
  /\ gpc \notin {"signal", "reap"} => doomed = {}
------------------------------------------------------------------------------
(* Types.                                                                   *)

\* What the responses are: about their request, and under its id unless the
\* frame was rejected.
LEMMA ResponseFacts ==
  /\ NoResponse \notin Responses
  /\ \A r \in Requests :
       /\ ImmediateError(r) \in Responses /\ ImmediateError(r).req = r
       /\ DrainAnswer(r) \in Responses /\ DrainAnswer(r).req = r
       /\ DrainAnswer(r).id = "own"
       /\ Response(r, "result") \in Responses /\ Response(r, "result").req = r
       /\ Response(r, "result").id = "own"
       /\ MethodNotFound(r) \in Responses /\ MethodNotFound(r).req = r
       /\ MethodNotFound(r).id = "own"
<1>1. NoResponse \notin Responses
  BY DEF NoResponse, Responses
<1>2. ASSUME NEW r \in Requests, NEW a \in Answers
      PROVE  /\ Response(r, a) \in Responses /\ Response(r, a).req = r
             /\ Response(r, a).id = "own"
  BY DEF Response, Responses, IdEcho
<1>3. ASSUME NEW r \in Requests
      PROVE  ImmediateError(r) \in Responses /\ ImmediateError(r).req = r
  BY DEF ImmediateError, Responses, IdEcho, Answers
<1>4. ASSUME NEW r \in Requests
      PROVE  DrainAnswer(r) \in {Response(r, "result"), Response(r, "noPython"),
                                 Response(r, "notFound")}
  BY DEF DrainAnswer, MethodNotFound
<1>5. {"result", "noPython", "notFound"} \subseteq Answers
  BY DEF Answers
<1>6. QED
  BY <1>1, <1>2, <1>3, <1>4, <1>5 DEF MethodNotFound

LEMMA InitTInv == Init => TInv
<1> SUFFICES ASSUME Init PROVE TInv
  OBVIOUS
<1>1. TypeOK
  <2>1. /\ handlers \subseteq Methods /\ python \in BOOLEAN
        /\ inbound \in Seq(Requests) /\ ranOn \in [Requests -> Lanes]
    <3>1. "nobody" \in Lanes
      BY DEF Lanes
    <3>2. handlers \subseteq Methods /\ python \in BOOLEAN /\ ranOn \in [Requests -> Lanes]
      BY <3>1 DEF Init, DispatchInit
    <3>3. inbound \in Seq(Requests)
      BY DEF Init, DispatchInit
    <3>4. QED
      BY <3>2, <3>3
  <2>2. /\ listener \in BOOLEAN /\ listening \in BOOLEAN /\ nextId \in Positive
        /\ conns \subseteq Conns /\ apc \in AcceptSteps /\ ahand \in Conns \cup {None}
        /\ connId \in [Conns -> Nat] /\ cpc \in [Conns -> ConnSteps]
        /\ stopReq \in [Conns -> BOOLEAN] /\ closed \in [Conns -> BOOLEAN]
        /\ destroyed \in [Conns -> Nat] /\ client \in [Conns -> ClientStates]
    <3>1. "idle" \in AcceptSteps /\ "none" \in ConnSteps /\ "none" \in ClientStates
          /\ 1 \in Positive
      BY DEF Positive, AcceptSteps, ConnSteps, ClientStates
    <3>2. QED
      BY <3>1 DEF Init
  <2>3. \A o \in Conns :
          /\ stream[o] \in Seq(Requests)
          /\ handled[o] \leq recvd[o] /\ recvd[o] \leq Len(stream[o])
          /\ chand[o] \in Responses \cup {NoResponse}
          /\ cpc[o] \in {"send", "sendTail"} <=> chand[o] # NoResponse
          /\ sendLock[o] \in {"nobody", "held"}
    BY DEF Init
  <2>4. /\ gpc \in GameSteps /\ ghand \in Responses \cup {NoResponse}
        /\ gtarget \in Conns \cup {None}
        /\ gpc \in {"respond", "send", "sendTail"} <=> gtarget # None
        /\ doomed \subseteq Conns /\ reason \in Reasons /\ lost \subseteq Requests
    BY DEF Init, GameSteps, Reasons
  <2>5. QED
    BY <2>1, <2>2, <2>3, <2>4 DEF TypeOK
<1>2. HandInv
  BY ServerAssumption DEF Init, HandInv, Answering, None
<1>3. QED
  BY <1>1, <1>2 DEF TInv

LEMMA ClientTInv ==
  ASSUME TInv, NEW o \in Conns, Client(o) \/ Accept(o)
  PROVE  TInv'
<1> USE DEF TInv, dispatchVars, listVars, acceptVars, threadVars, ioVars, gameVars
<1>1. CASE ClientWrites(o)
  <2>1. PICK r \in Requests : stream' = [stream EXCEPT ![o] = Append(@, r)]
    BY <1>1 DEF ClientWrites, Unsent
  <2>2. stream' \in [Conns -> Seq(Requests)] /\ \A p \in Conns : Len(stream[p]) <= Len(stream'[p])
    BY <2>1 DEF HandInv
  <2>3. HandInv'
    BY <1>1, <2>2 DEF ClientWrites, HandInv
  <2>4. \A p \in Conns : recvd[p] \in Nat /\ Len(stream[p]) \in Nat /\ Len(stream'[p]) \in Nat
    BY <2>2 DEF HandInv
  <2>5. \A p \in Conns : stream'[p] \in Seq(Requests) /\ recvd[p] <= Len(stream'[p])
    <3>1. \A p \in Conns : recvd[p] <= Len(stream[p])
      BY DEF TypeOK
    <3>2. QED
      <4> HIDE DEF TInv
      <4>1. TAKE p \in Conns
      <4>2. recvd[p] <= Len(stream[p]) /\ Len(stream[p]) <= Len(stream'[p])
        BY <2>2, <3>1
      <4>3. QED
        BY <2>2, <2>4, <4>2
  <2>6. TypeOK'
    BY <1>1, <2>5 DEF ClientWrites, TypeOK
  <2>7. QED
    BY <2>3, <2>6
<1>2. ASSUME NEW from \in SUBSET (ClientStates \ {"none"}),
             NEW to \in ClientStates \ {"none"}, BecomesClient(o, from, to)
      PROVE  TInv'
  BY <1>2 DEF BecomesClient, TypeOK, HandInv
<1>3. CASE ClientStalls(o) \/ ClientResumes(o) \/ ClientHalfCloses(o) \/ ClientVanishes(o)
  BY <1>2, <1>3 DEF ClientStalls, ClientResumes, ClientHalfCloses, ClientVanishes, ClientStates
<1>0. None \notin Conns
  BY ServerAssumption DEF None, Conns
<1>4. CASE Accept(o)
  BY <1>0, <1>4, ServerAssumption DEF Accept, TypeOK, HandInv, ClientStates, AcceptSteps
<1>5. QED
  BY <1>1, <1>3, <1>4 DEF Client

LEMMA AcceptTInv ==
  ASSUME TInv, AcceptThread
  PROVE  TInv'
<1> USE ServerAssumption DEF TInv, dispatchVars, listVars, acceptVars, threadVars, ioVars, gameVars, clientVars
<1>0. /\ apc # "idle" => ahand \in Conns
      /\ None \notin Conns
  BY ServerAssumption DEF TypeOK, HandInv, None, Conns
<1>1. CASE CheckListening
  BY <1>0, <1>1 DEF CheckListening, TypeOK, HandInv, AcceptSteps
<1>2. CASE AddConnection
  BY <1>0, <1>2 DEF AddConnection, TypeOK, HandInv, AcceptSteps, Positive
<1>3. CASE SpawnThread
  BY <1>0, <1>3 DEF SpawnThread, TypeOK, HandInv, AcceptSteps, ConnSteps
<1>4. CASE SpawnFails
  BY SMTT(20), <1>0, <1>4 DEF SpawnFails, DestroySockets, TypeOK, HandInv, AcceptSteps
<1>5. CASE SetThread
  BY SMTT(20), <1>0, <1>5 DEF SetThread, DestroySockets, TypeOK, HandInv, AcceptSteps
<1>7. CASE Refuse
  BY SMTT(20), <1>0, <1>7 DEF Refuse, DestroySockets, TypeOK, HandInv, AcceptSteps
<1>6. QED
  BY <1>1, <1>2, <1>3, <1>4, <1>5, <1>7 DEF AcceptThread

\* Both parts of a line keep the types of the socket and of its lock.
LEMMA WriteTypes ==
  ASSUME TInv, NEW o \in Conns, NEW resp \in Responses,
         WriteHead(o, resp, TRUE) \/ WriteHead(o, resp, FALSE) \/ WriteTail(o, resp)
  PROVE  /\ wire' \in [Conns -> Seq(Lines)]
         /\ sendLock' \in [Conns -> {"nobody", "held"}]
         /\ lost' \subseteq Requests
<1>1. wire \in [Conns -> Seq(Lines)] /\ sendLock \in [Conns -> {"nobody", "held"}]
  BY DEF TInv, HandInv
<1>2. \A part \in {"head", "tail"} : [part |-> part, resp |-> resp] \in Lines
  BY DEF Lines
<1>3. \/ UNCHANGED wire
      \/ \E line \in Lines : wire' = [wire EXCEPT ![o] = Append(@, line)]
  BY <1>2 DEF WriteHead, WriteTail, Writes, SendFails
<1>4. wire' \in [Conns -> Seq(Lines)]
  <2>1. \A line \in Lines : Append(wire[o], line) \in Seq(Lines)
    BY <1>1
  <2>2. QED
    BY <1>1, <1>3, <2>1
<1>5. sendLock' \in [Conns -> {"nobody", "held"}]
  BY <1>1 DEF WriteHead, WriteTail
<1>6. lost' \subseteq Requests
  BY DEF WriteHead, WriteTail, Writes, SendFails, Responses, TInv, TypeOK
<1>7. QED
  BY <1>4, <1>5, <1>6

\* A connection's thread that has an answer in its hand and one frame less to
\* look at: RejectsFrame and DispatchInline.
LEMMA AnswerTInv ==
  ASSUME TInv, NEW o \in Conns, NEW resp \in Responses,
         handled[o] < recvd[o], cpc[o] # "none",
         handled' = [handled EXCEPT ![o] = handled[o] + 1],
         chand' = [chand EXCEPT ![o] = resp],
         cpc' = [cpc EXCEPT ![o] = "send"],
         ranOn' \in [Requests -> Lanes],
         UNCHANGED <<notConn, handlers, python, inbound, closed, recvd, ioVars>>
  PROVE  TInv'
<1> USE DEF dispatchVars, listVars, acceptVars, threadVars, ioVars, gameVars, clientVars, notConn
<1>0. /\ recvd[o] \in Nat /\ handled[o] \in Nat /\ NoResponse \notin Responses
      /\ cpc \in [Conns -> ConnSteps] /\ chand \in [Conns -> Responses \cup {NoResponse}]
      /\ handled \in [Conns -> Nat]
  BY ResponseFacts DEF TInv, TypeOK, HandInv
<1>1. /\ handled'[o] <= recvd[o] /\ handled' \in [Conns -> Nat]
      /\ chand' \in [Conns -> Responses \cup {NoResponse}]
      /\ cpc' \in [Conns -> ConnSteps]
      /\ cpc'[o] = "send" /\ chand'[o] = resp /\ resp # NoResponse
      /\ \A p \in Conns \ {o} : cpc'[p] = cpc[p] /\ chand'[p] = chand[p] /\ handled'[p] = handled[p]
  BY <1>0 DEF ConnSteps
<1>2. \A p \in Conns :
        /\ stream'[p] \in Seq(Requests)
        /\ handled'[p] <= recvd'[p] /\ recvd'[p] <= Len(stream'[p])
        /\ chand'[p] \in Responses \cup {NoResponse}
        /\ cpc'[p] \in {"send", "sendTail"} <=> chand'[p] # NoResponse
        /\ sendLock'[p] \in {"nobody", "held"}
  BY <1>1 DEF TInv, TypeOK
<1>3. TypeOK'
  BY <1>1, <1>2 DEF TInv, TypeOK
<1>4. /\ \A p \in Conns : cpc'[p] = "find" => handled'[p] < recvd'[p]
      /\ \A p \in Conns : client'[p] = "none" => cpc'[p] = "none"
      /\ apc' \in {"check", "add", "spawn"} => cpc'[ahand'] = "none"
  <2>1. apc \in {"check", "add", "spawn"} => ahand \in Conns \ {o}
    BY DEF TInv, TypeOK, HandInv
  <2> QED BY <1>1, <2>1 DEF TInv, HandInv
<1>5. HandInv'
  BY <1>1, <1>4 DEF TInv, HandInv
<1> QED BY <1>3, <1>5 DEF TInv

LEMMA ConnTInv ==
  ASSUME TInv, NEW o \in Conns, ConnThread(o)
  PROVE  TInv'
<1> USE DEF TInv, dispatchVars, listVars, acceptVars, threadVars, ioVars, gameVars, clientVars,
        notConn
<1>0. /\ cpc \in [Conns -> ConnSteps] /\ closed \in [Conns -> BOOLEAN]
      /\ recvd[o] \in Nat /\ handled[o] \in Nat /\ Len(stream[o]) \in Nat
      /\ handled[o] <= recvd[o] /\ recvd[o] <= Len(stream[o])
      /\ handled[o] < recvd[o] => Frame(o) \in Requests
      /\ NoResponse \notin Responses
      /\ ahand = o => apc \in AcceptSteps
  BY ResponseFacts DEF TypeOK, HandInv, Frame
<1>1. CASE Wakes(o)
  BY ZenonT(20), <1>0, <1>1 DEF Wakes, Exits, TypeOK, HandInv, ConnSteps
<1>2. CASE Receives(o)
  <2>1. PICK n \in recvd[o] + 1 .. Len(stream[o]) : recvd' = [recvd EXCEPT ![o] = n]
    BY <1>2 DEF Receives
  <2>2. n \in Nat /\ handled[o] <= n /\ n <= Len(stream[o])
    BY <1>0, <2>1
  <2>3. QED
    BY <1>0, <1>2, <2>1, <2>2 DEF Receives, TypeOK, HandInv, ConnSteps
<1>3. CASE ReceivesEnd(o)
  BY <1>0, <1>3 DEF ReceivesEnd, Exits, TypeOK, HandInv, ConnSteps
<1>4. CASE NoMoreFrames(o)
  BY <1>0, <1>4 DEF NoMoreFrames, TypeOK, HandInv, ConnSteps
<1>5. CASE RejectsFrame(o)
  <2>1. ImmediateError(Frame(o)) \in Responses
    BY <1>0, <1>5, ResponseFacts DEF RejectsFrame, HasFrame
  <2>2. UNCHANGED ranOn /\ ranOn \in [Requests -> Lanes] /\ handled[o] < recvd[o] /\ cpc[o] # "none"
    BY <1>5 DEF RejectsFrame, HasFrame, TypeOK
  <2> QED BY <1>5, <2>1, <2>2, AnswerTInv DEF RejectsFrame, NextFrame
<1>6. CASE TakesInline(o)
  BY <1>0, <1>6 DEF TakesInline, HasFrame, PushesNot, TypeOK, HandInv, ConnSteps
<1>7. CASE DispatchInline(o)
  <2>1. handled[o] < recvd[o] /\ cpc[o] # "none" /\ Frame(o) \in Requests
    BY <1>0, <1>7 DEF DispatchInline, HandInv
  <2>2. PICK resp \in Responses : chand' = [chand EXCEPT ![o] = resp]
    BY <1>7, <2>1, ResponseFacts DEF DispatchInline
  <2>3. ranOn' \in [Requests -> Lanes]
    BY <1>7, <2>1 DEF DispatchInline, Dispatched, TypeOK, Lanes
  <2> QED BY <1>7, <2>1, <2>2, <2>3, AnswerTInv DEF DispatchInline, NextFrame
<1>8. CASE PushesFrame(o)
  <2>1. inbound' \in Seq(Requests)
    BY <1>0, <1>8 DEF PushesFrame, HasFrame, Push, TypeOK
  <2>2. QED
    BY SMTT(20), <1>0, <1>8, <2>1 DEF PushesFrame, HasFrame, NextFrame, TypeOK, HandInv, ConnSteps
<1>9. CASE SendsHead(o) \/ SendsTail(o)
  <2>1. /\ wire' \in [Conns -> Seq(Lines)]
        /\ sendLock' \in [Conns -> {"nobody", "held"}] /\ lost' \subseteq Requests
    <3>1. chand[o] \in Responses
      BY <1>0, <1>9 DEF SendsHead, SendsTail, TypeOK
    <3>2. QED
      BY <1>9, <3>1, WriteTypes DEF SendsHead, SendsTail
  <2>2. /\ cpc[o] \in {"send", "sendTail"}
        /\ \/ cpc' = [cpc EXCEPT ![o] = "sendTail"] /\ UNCHANGED <<closed, chand>>
           \/ /\ cpc' = [cpc EXCEPT ![o] = "exited"] \/ cpc' = [cpc EXCEPT ![o] = "frames"]
              /\ closed' \in [Conns -> BOOLEAN]
              /\ chand' = [chand EXCEPT ![o] = NoResponse]
        /\ UNCHANGED <<notConn, dispatchVars, recvd, handled>>
    BY <1>0, <1>9 DEF SendsHead, SendsTail, AfterSend, Exits
  <2>3. /\ closed' \in [Conns -> BOOLEAN] /\ cpc' \in [Conns -> ConnSteps]
        /\ chand' \in [Conns -> Responses \cup {NoResponse}]
        /\ cpc'[o] \in {"send", "sendTail"} <=> chand'[o] # NoResponse
        /\ cpc'[o] # "find" /\ cpc'[o] # "none"
        /\ \A p \in Conns \ {o} : cpc'[p] = cpc[p] /\ chand'[p] = chand[p]
    <3> HIDE DEF TInv
    <3>1. /\ cpc \in [Conns -> ConnSteps] /\ closed \in [Conns -> BOOLEAN]
          /\ chand \in [Conns -> Responses \cup {NoResponse}] /\ chand[o] # NoResponse
      BY <2>2 DEF TInv, TypeOK, HandInv
    <3>2. {"sendTail", "exited", "frames"} \subseteq ConnSteps
      BY DEF ConnSteps
    <3>3. CASE cpc' = [cpc EXCEPT ![o] = "sendTail"] /\ UNCHANGED <<closed, chand>>
      BY <3>1, <3>2, <3>3
    <3>4. CASE /\ cpc' = [cpc EXCEPT ![o] = "exited"] \/ cpc' = [cpc EXCEPT ![o] = "frames"]
               /\ closed' \in [Conns -> BOOLEAN]
               /\ chand' = [chand EXCEPT ![o] = NoResponse]
      BY <3>1, <3>2, <3>4
    <3>5. QED
      BY <2>2, <3>3, <3>4
  <2>4. \A p \in Conns : /\ chand'[p] \in Responses \cup {NoResponse}
                         /\ cpc'[p] \in {"send", "sendTail"} <=> chand'[p] # NoResponse
                         /\ sendLock'[p] \in {"nobody", "held"}
    BY <2>1, <2>3 DEF TypeOK
  <2>5. TypeOK'
    BY <2>1, <2>2, <2>3, <2>4 DEF TypeOK
  <2>6. apc \in {"check", "add", "spawn"} => ahand \in Conns \ {o}
    BY <2>2 DEF TypeOK, HandInv
  <2>7. HandInv'
    BY <2>1, <2>2, <2>3, <2>6 DEF HandInv
  <2> QED BY <2>5, <2>7
<1>10. QED
  BY <1>1, <1>2, <1>3, <1>4, <1>5, <1>6, <1>7, <1>8, <1>9 DEF ConnThread

LEMMA GameTInv ==
  ASSUME TInv, GameThread \/ Restart \/ Unload
  PROVE  TInv'
<1> USE DEF TInv, dispatchVars, listVars, acceptVars, threadVars, ioVars, gameVars, clientVars,
        notGame, Goes
<1>0. /\ NoResponse \notin Responses /\ None \notin Conns
      /\ gpc \in GameSteps
      /\ gpc \in {"respond", "send", "sendTail"} <=> gtarget # None
      /\ ghand # NoResponse <=> gpc \in Answering
  BY ResponseFacts, ServerAssumption DEF TypeOK, HandInv, None, Conns
<1>1. CASE Bind
  BY <1>0, <1>1, ServerAssumption DEF Bind, TypeOK, HandInv, GameSteps, Answering
<1>2. CASE Listen \/ Restart \/ Unload \/ StopListening \/ JoinListener
  BY ZenonT(20), <1>0, <1>2 DEF Listen, Restart, Unload, StopListening, JoinListener, StopOr, TypeOK,
     HandInv, GameSteps, Answering, StopSteps, Reasons
<1>3. CASE Register \/ BeginFrame \/ DrainEnds \/ Unregister \/ StopEnds
  <2>1. /\ handlers' \subseteq Methods /\ python' \in BOOLEAN
        /\ UNCHANGED <<inbound, ranOn, notGame, listVars, stopReq, destroyed, ioVars, ghand,
                       gtarget, doomed, reason>>
    BY <1>3 DEF Register, BeginFrame, DrainEnds, Unregister, StopEnds, Changes, RegisterPython,
       RegisterMethods, UnregisterPython, UnregisterMethods, TypeOK
  <2>2. gpc \notin Answering /\ gpc' \in GameSteps \ Answering
    BY <1>3 DEF Register, BeginFrame, DrainEnds, Unregister, StopEnds, Changes, StopOr,
       GameSteps, Answering, StopSteps
  <2>3. QED
    BY <1>0, <2>1, <2>2 DEF TypeOK, HandInv, Answering
<1>4. CASE DrainOne
  <2>1. /\ inbound # <<>> /\ Head(inbound) \in Requests /\ inbound' \in Seq(Requests)
        /\ ranOn' \in [Requests -> Lanes]
    <3>1. inbound # <<>> /\ inbound' = Tail(inbound) /\ inbound \in Seq(Requests)
      BY <1>4 DEF DrainOne, DrainHead, TypeOK
    <3>2. Head(inbound) \in Requests /\ Tail(inbound) \in Seq(Requests)
      BY <3>1
    <3>3. ranOn' \in [Requests -> Lanes]
      BY <1>4, <3>2 DEF DrainOne, DrainHead, Dispatched, TypeOK, Lanes
    <3>4. QED
      BY <3>1, <3>2, <3>3
  <2>2. ghand' \in Responses
    BY <1>4, <2>1, ResponseFacts DEF DrainOne
  <2>3. QED
    BY <1>0, <1>4, <2>1, <2>2 DEF DrainOne, DrainHead, TypeOK, HandInv, GameSteps, Answering
<1>5. CASE LookUp
  BY <1>0, <1>5 DEF LookUp, NextResponse, TypeOK, HandInv, GameSteps, Answering
<1>6. CASE Respond
  BY <1>0, <1>6 DEF Respond, NextResponse, TypeOK, HandInv, GameSteps, Answering
<1>7. CASE RespondHead \/ RespondTail
  <2>1. /\ wire' \in [Conns -> Seq(Lines)]
        /\ sendLock' \in [Conns -> {"nobody", "held"}] /\ lost' \subseteq Requests
    <3>1. ghand \in Responses /\ gtarget \in Conns
      BY <1>0, <1>7 DEF RespondHead, RespondTail, TypeOK, Answering
    <3>2. QED
      BY <1>7, <3>1, WriteTypes DEF RespondHead, RespondTail
  <2>2. /\ gpc \in {"send", "sendTail"}
        /\ \/ gpc' = "sendTail" /\ UNCHANGED <<ghand, gtarget>>
           \/ gpc' = "drain" /\ ghand' = NoResponse /\ gtarget' = None
        /\ UNCHANGED <<notGame, dispatchVars, listVars, stopReq, destroyed, doomed, reason>>
    BY <1>7 DEF RespondHead, RespondTail, NextResponse
  <2>3. QED
    BY <1>0, <2>1, <2>2 DEF TypeOK, HandInv, GameSteps, Answering
<1>8. CASE Collect \/ TakeConnections \/ SignalAll \/ Reap
  <2>1. /\ conns' \subseteq Conns /\ doomed' \subseteq Conns
        /\ destroyed' \in [Conns -> Nat] /\ stopReq' \in [Conns -> BOOLEAN]
        /\ gpc \notin Answering /\ gpc' \in GameSteps \ Answering
    <3>1. conns' \subseteq Conns /\ doomed' \subseteq Conns
      BY <1>8 DEF Collect, TakeConnections, SignalAll, Reap, TypeOK
    <3>2. destroyed' \in [Conns -> Nat]
      <4>1. destroyed \in [Conns -> Nat]
        BY DEF TypeOK
      <4>2. ASSUME NEW os, DestroySockets(os) PROVE destroyed' \in [Conns -> Nat]
        BY <4>1, <4>2 DEF DestroySockets
      <4>3. UNCHANGED destroyed \/ \E os : DestroySockets(os)
        BY <1>8 DEF Collect, TakeConnections, SignalAll, Reap
      <4>4. QED
        BY <4>1, <4>2, <4>3
    <3>3. stopReq' \in [Conns -> BOOLEAN]
      BY <1>8 DEF Collect, TakeConnections, SignalAll, Reap, TypeOK
    <3>4. gpc \notin Answering /\ gpc' \in GameSteps \ Answering
      BY <1>8 DEF Collect, TakeConnections, SignalAll, Reap, GameSteps, Answering, StopSteps
    <3>5. QED
      BY <3>1, <3>2, <3>3, <3>4
  <2>2. UNCHANGED <<notGame, dispatchVars, listener, listening, nextId, connId, ioVars, ghand,
                    gtarget, reason>>
    BY <1>8 DEF Collect, TakeConnections, SignalAll, Reap, IdsGoOn
  <2>3. QED
    BY <1>0, <2>1, <2>2 DEF TypeOK, HandInv, Answering
<1>9. QED
  BY <1>1, <1>2, <1>3, <1>4, <1>5, <1>6, <1>7, <1>8 DEF GameThread, EndFrame, Stop

\* Every step of the system keeps the types.
LEMMA NextTInv == TInv /\ [Next]_vars => TInv'
<1>1. TInv /\ UNCHANGED vars => TInv'
  BY DEF TInv, TypeOK, HandInv, vars, dispatchVars, listVars, acceptVars, threadVars, ioVars,
     gameVars, clientVars
<1>2. QED
  BY <1>1, ClientTInv, AcceptTInv, ConnTInv, GameTInv DEF Next

\* TypeOK of BridgeServer, a property of the run BridgeServerSafety: program
\* counters, hands and counts of received and handled requests stay in range.
THEOREM TypeCorrect == Spec => []TypeOK
<1>1. TInv => TypeOK
  BY DEF TInv
<1>2. QED
  BY <1>1, InitTInv, NextTInv, PTL DEF Spec

------------------------------------------------------------------------------
(* The life of a socket. FALSE \in Spawns is excluded: when the thread of a *)
(* connection cannot be created its socket is destroyed twice.              *)

LEMMA InitLifeInv == Init => LifeInv
  BY ServerAssumption DEF Init, LifeInv, None, Conns

\* A connection's thread changes nothing of its socket but that it may exit.
LEMMA ConnLife ==
  ASSUME TInv, NEW o \in Conns, ConnThread(o), closed[o] <=> cpc[o] = "exited"
  PROVE  /\ cpc[o] \notin {"none", "exited"}
         /\ \E s \in ConnSteps \ {"none"} :
              /\ cpc' = [cpc EXCEPT ![o] = s]
              /\ closed' = IF s = "exited" THEN [closed EXCEPT ![o] = TRUE] ELSE closed
         /\ UNCHANGED <<notConn, handlers, python>>
<1>0. /\ cpc \in [Conns -> ConnSteps] /\ closed \in [Conns -> BOOLEAN]
  BY DEF TInv, TypeOK
<1>1. CASE Wakes(o) \/ ReceivesEnd(o)
  BY <1>0, <1>1 DEF Wakes, ReceivesEnd, Exits, ConnSteps, dispatchVars
<1>2. CASE Receives(o) \/ NoMoreFrames(o) \/ RejectsFrame(o) \/ TakesInline(o)
  <2>1. /\ cpc[o] \in {"recv", "frames"} /\ UNCHANGED closed
        /\ \E s \in ConnSteps \ {"none", "exited"} : cpc' = [cpc EXCEPT ![o] = s]
        /\ UNCHANGED <<notConn, handlers, python>>
    BY <1>2 DEF Receives, NoMoreFrames, RejectsFrame, TakesInline, HasFrame, ConnSteps,
       dispatchVars
  <2>2. QED
    BY <1>0, <2>1
<1>3. CASE DispatchInline(o) \/ PushesFrame(o)
  <2>1. /\ cpc[o] \in {"find", "frames"} /\ UNCHANGED closed
        /\ \E s \in ConnSteps \ {"none", "exited"} : cpc' = [cpc EXCEPT ![o] = s]
        /\ UNCHANGED <<notConn, handlers, python>>
    BY <1>0, <1>3 DEF DispatchInline, PushesFrame, HasFrame, ConnSteps
  <2>2. QED
    BY <1>0, <2>1
<1>4. CASE SendsHead(o) \/ SendsTail(o)
  BY <1>0, <1>4 DEF SendsHead, SendsTail, AfterSend, Exits, ConnSteps, dispatchVars
<1>5. QED
  BY <1>1, <1>2, <1>3, <1>4 DEF ConnThread

LEMMA ConnLifeInv ==
  ASSUME TInv, LifeInv, NEW o \in Conns, ConnThread(o)
  PROVE  LifeInv'
<1>1. /\ cpc[o] \notin {"none", "exited"}
      /\ \E s \in ConnSteps \ {"none"} :
           /\ cpc' = [cpc EXCEPT ![o] = s]
           /\ closed' = IF s = "exited" THEN [closed EXCEPT ![o] = TRUE] ELSE closed
      /\ UNCHANGED <<notConn, handlers, python>>
  BY ConnLife DEF LifeInv
<1>2. cpc \in [Conns -> ConnSteps] /\ closed \in [Conns -> BOOLEAN] /\ ahand \in Conns \cup {None}
  BY DEF TInv, TypeOK
<1>3. QED
  BY <1>1, <1>2 DEF LifeInv, notConn, listVars, acceptVars, gameVars, clientVars

LEMMA ClientLifeInv ==
  ASSUME TInv, LifeInv, NEW o \in Conns, Client(o) \/ Accept(o)
  PROVE  LifeInv'
<1> USE DEF dispatchVars, listVars, acceptVars, threadVars, ioVars, gameVars, clientVars
<1>0. /\ client \in [Conns -> ClientStates] /\ None \notin Conns
      /\ ahand \in Conns \cup {None} /\ (apc = "idle" <=> ahand = None)
  BY ServerAssumption DEF TInv, TypeOK, HandInv, None, Conns
<1>1. CASE Client(o)
  <2>1. /\ UNCHANGED <<listVars, acceptVars, threadVars, stopReq, destroyed, gameVars>>
        /\ \/ UNCHANGED client
           \/ client[o] # "none" /\ \E to : to # "none" /\ client' = [client EXCEPT ![o] = to]
    BY <1>1 DEF Client, ClientWrites, ClientStalls, ClientResumes, ClientHalfCloses,
       ClientVanishes, BecomesClient
  <2>2. QED
    BY <1>0, <2>1 DEF LifeInv
<1>2. CASE Accept(o)
  <2>1. o # ahand /\ destroyed[o] = 0 /\ cpc[o] = "none" /\ o \notin conns
    BY <1>0, <1>2 DEF Accept, LifeInv
  <2>2. QED
    BY <1>0, <1>2, <2>1 DEF Accept, LifeInv
<1>3. QED
  BY <1>1, <1>2

LEMMA AcceptLifeInv ==
  ASSUME TInv, LifeInv, AcceptThread, FALSE \notin Spawns
  PROVE  LifeInv'
<1> USE DEF dispatchVars, listVars, acceptVars, threadVars, ioVars, gameVars, clientVars
<1>0. /\ cpc \in [Conns -> ConnSteps] /\ destroyed \in [Conns -> Nat]
      /\ None \notin Conns /\ ahand \in Conns \cup {None} /\ (apc = "idle" <=> ahand = None)
      /\ gpc \in GameSteps /\ conns \subseteq Conns
      /\ ahand # None => client[ahand] # "none"
  BY SMTT(20), ServerAssumption DEF TInv, TypeOK, HandInv, None, Conns
<1>1. ahand # None => listener /\ gpc \notin {"bind", "take", "signal", "reap", "down"} /\ doomed = {}
  BY DEF LifeInv
<1>2. CASE CheckListening
  BY <1>0, <1>1, <1>2 DEF CheckListening, LifeInv
<1>3. CASE AddConnection
  BY <1>0, <1>1, <1>3 DEF AddConnection, LifeInv
<1>4. CASE SpawnThread
  <2>1. cpc[ahand] = "none" /\ ahand \in conns /\ destroyed[ahand] = 0 /\ ahand \in Conns
    BY <1>0, <1>4 DEF SpawnThread, LifeInv
  <2>2. /\ cpc' = [cpc EXCEPT ![ahand] = "wait"] /\ apc' = "setThread"
        /\ UNCHANGED <<listener, conns, ahand, closed, destroyed, client, gpc, gtarget, doomed>>
    BY <1>4 DEF SpawnThread
  <2>3. QED
    BY <1>0, <1>1, <2>1, <2>2 DEF LifeInv
<1>5. CASE SetThread
  <2>1. /\ destroyed' = [o \in Conns |-> destroyed[o] + (IF o = ahand /\ o \notin conns THEN 1 ELSE 0)]
        /\ apc = "setThread" /\ apc' = "idle" /\ ahand' = None
        /\ UNCHANGED <<listener, conns, cpc, closed, client, gpc, gtarget, doomed>>
    BY <1>5 DEF SetThread, DestroySockets
  <2>2. QED
    BY <1>0, <1>1, <2>1 DEF LifeInv
<1>6. CASE Refuse
  <2>1. /\ destroyed' = [o \in Conns |-> destroyed[o] + (IF o = ahand THEN 1 ELSE 0)]
        /\ apc = "refuse" /\ apc' = "idle" /\ ahand' = None
        /\ UNCHANGED <<listener, conns, cpc, closed, client, gpc, gtarget, doomed>>
    BY <1>6 DEF Refuse, DestroySockets
  <2>2. QED
    BY <1>0, <1>1, <2>1 DEF LifeInv
<1>7. QED
  BY <1>2, <1>3, <1>4, <1>5, <1>6 DEF AcceptThread, SpawnFails

LEMMA GameLifeInv ==
  ASSUME TInv, LifeInv, GameThread \/ Restart \/ Unload
  PROVE  LifeInv'
<1> USE DEF dispatchVars, listVars, acceptVars, threadVars, ioVars, gameVars, clientVars, notGame,
        Goes
<1>0. /\ destroyed \in [Conns -> Nat] /\ conns \subseteq Conns /\ doomed \subseteq Conns
      /\ None \notin Conns /\ ahand \in Conns \cup {None} /\ (apc = "idle" <=> ahand = None)
      /\ gpc \in {"respond", "send", "sendTail"} <=> gtarget # None
      /\ gtarget \in Conns \cup {None}
      /\ apc \in AcceptSteps
  BY SMTT(20), ServerAssumption DEF TInv, TypeOK, HandInv, None, Conns
<1>1. CASE Bind \/ Listen \/ Restart \/ Unload \/ StopListening \/ JoinListener
  <2>1. UNCHANGED <<acceptVars, threadVars, conns, destroyed, client, gtarget, doomed>>
    BY <1>1 DEF Bind, Listen, Restart, Unload, StopListening, JoinListener
  <2>2. \/ /\ gpc = "bind" /\ gpc' \in {"listen", "frame", "registerPython"}
        \/ /\ gpc \in {"listen", "frame", "stopListening"} /\ UNCHANGED listener
           /\ gpc' \in {"frame", "registerPython", "stopListening", "unregisterPython",
                        "joinListener"} \/ (gpc' = "bind" /\ ~listener)
        \/ apc = "idle" /\ gpc = "joinListener" /\ gpc' = "take" /\ ~listener'
    BY <1>1 DEF Bind, Listen, Restart, Unload, StopListening, JoinListener, StopOr, AcceptDone
  <2>3. QED
    BY <1>0, <2>1, <2>2 DEF LifeInv
<1>2. CASE Register \/ BeginFrame \/ DrainEnds \/ Unregister \/ DrainOne
  <2>1. UNCHANGED <<acceptVars, threadVars, listener, conns, destroyed, client, gtarget, doomed>>
    BY <1>2 DEF Register, BeginFrame, DrainEnds, Unregister, DrainOne, Changes
  <2>2. /\ gpc \notin {"signal", "reap", "take"}
        /\ gpc' \notin {"bind", "take", "signal", "reap"}
        /\ gpc' = "down" => ~listener
    BY <1>2 DEF Register, BeginFrame, DrainEnds, Unregister, DrainOne, Changes, StopOr
  <2>3. QED
    BY <1>0, <2>1, <2>2 DEF LifeInv
<1>3. CASE StopEnds
  BY <1>0, <1>3 DEF StopEnds, Changes, LifeInv
<1>4. CASE LookUp \/ Respond \/ RespondHead \/ RespondTail
  <2>1. UNCHANGED <<acceptVars, threadVars, listener, conns, destroyed, client, doomed>>
    BY <1>4 DEF LookUp, Respond, RespondHead, RespondTail
  <2>2. gtarget' \in conns \/ gtarget' = None
    BY <1>0, <1>4 DEF LookUp, Respond, RespondHead, RespondTail, NextResponse, LifeInv
  <2>3. /\ gpc \notin {"signal", "reap", "take"}
        /\ gpc' \notin {"bind", "take", "signal", "reap", "down"}
    BY <1>4 DEF LookUp, Respond, RespondHead, RespondTail, NextResponse
  <2>4. QED
    BY <1>0, <2>1, <2>2, <2>3 DEF LifeInv
<1>5. CASE Collect
  <2>1. /\ conns' = {o \in conns : ~closed[o]}
        /\ destroyed' = [o \in Conns |->
             destroyed[o] + (IF o \in conns /\ closed[o] /\ o # ahand THEN 1 ELSE 0)]
        /\ gpc = "collect" /\ gpc' = "frame" /\ gtarget = None
        /\ UNCHANGED <<acceptVars, threadVars, listener, client, gtarget, doomed>>
    BY <1>0, <1>5 DEF Collect, Collectable, DestroySockets
  <2>2. QED
    BY <1>0, <2>1 DEF LifeInv
<1>6. CASE TakeConnections
  BY <1>0, <1>6 DEF TakeConnections, LifeInv
<1>7. CASE SignalAll
  BY <1>0, <1>7 DEF SignalAll, LifeInv
<1>8. CASE Reap
  <2>1. PICK o \in doomed : /\ cpc[o] = "exited" /\ doomed' = doomed \ {o}
                            /\ DestroySockets({o})
    BY <1>8 DEF Reap
  <2>2. /\ destroyed' = [p \in Conns |-> destroyed[p] + (IF p = o THEN 1 ELSE 0)]
        /\ gpc = "reap" /\ ahand = None
        /\ UNCHANGED <<acceptVars, threadVars, listener, conns, client, gpc, gtarget>>
    BY <1>8, <2>1 DEF Reap, DestroySockets, LifeInv
  <2>3. QED
    BY <1>0, <2>1, <2>2 DEF LifeInv
<1>9. QED
  BY <1>1, <1>2, <1>3, <1>4, <1>5, <1>6, <1>7, <1>8 DEF GameThread, EndFrame, Stop

LEMMA NextLifeInv ==
  ASSUME FALSE \notin Spawns
  PROVE  TInv /\ LifeInv /\ [Next]_vars => LifeInv'
<1>1. LifeInv /\ UNCHANGED vars => LifeInv'
  BY DEF LifeInv, vars, dispatchVars, listVars, acceptVars, threadVars, ioVars, gameVars,
     clientVars
<1>2. QED
  BY <1>1, ClientLifeInv, AcceptLifeInv, ConnLifeInv, GameLifeInv DEF Next

\* SocketsOwned, a property of the run BridgeServerSafety: the accept thread, the
\* connection's thread and the game thread use a socket only while it exists, it
\* is destroyed once, and nothing is left of any connection when the module is
\* down. The threads of the connections are assumed to be created.
THEOREM OneOwnerPerSocket ==
  ASSUME FALSE \notin Spawns
  PROVE  Spec => []SocketsOwned
<1>1. TInv /\ LifeInv => SocketsOwned
  <2> SUFFICES ASSUME TInv, LifeInv PROVE SocketsOwned
    OBVIOUS
  <2>0. /\ None \notin Conns /\ ahand \in Conns \cup {None} /\ gtarget \in Conns \cup {None}
        /\ apc \in AcceptSteps /\ (apc = "idle" <=> ahand = None)
    BY ServerAssumption DEF TInv, TypeOK, HandInv, None, Conns
  <2>1. NoUseAfterDestroy
    BY <2>0 DEF LifeInv, NoUseAfterDestroy
  <2>2. DestroyedOnce
    BY <2>0 DEF LifeInv, DestroyedOnce
  <2>3. NothingLeft
    BY <2>0 DEF LifeInv, NothingLeft
  <2>4. QED
    BY <2>1, <2>2, <2>3 DEF SocketsOwned
<1>2. QED
  BY <1>1, InitTInv, InitLifeInv, NextTInv, NextLifeInv, PTL DEF Spec

------------------------------------------------------------------------------
(* What a step does to the requests and their responses: the requests move  *)
(* from a stream to the queue or to a hand, and from a hand to a wire.      *)

\* The steps of the thread of connection o.
AnswersFrame(o) ==
  /\ cpc[o] \in {"frames", "find"} /\ handled[o] < recvd[o]
  /\ cpc[o] = "frames" => Frame(o) \in Rejected
  /\ handled' = [handled EXCEPT ![o] = @ + 1]
  /\ \E resp \in Responses : /\ resp.req = Frame(o) /\ Echoed(resp)
                             /\ chand' = [chand EXCEPT ![o] = resp]
  /\ cpc' = [cpc EXCEPT ![o] = "send"]
  /\ UNCHANGED <<inbound, wire, lost, sendLock>>

QueuesFrame(o) ==
  /\ cpc[o] = "frames" /\ handled[o] < recvd[o]
  /\ handled' = [handled EXCEPT ![o] = @ + 1]
  /\ inbound' = Append(inbound, Frame(o))
  /\ UNCHANGED <<cpc, chand, wire, lost, sendLock>>

ConnWritesHead(o) ==
  /\ cpc[o] = "send" /\ cpc' = [cpc EXCEPT ![o] = "sendTail"]
  /\ WriteHead(o, chand[o], TRUE)
  /\ UNCHANGED <<inbound, handled, chand>>

\* The response is on the wire, or lost.
ConnLetsGo(o) ==
  /\ \/ cpc[o] = "sendTail" /\ WriteTail(o, chand[o])
     \/ cpc[o] = "send" /\ UNCHANGED <<wire, sendLock>> /\ lost \subseteq lost'
  /\ \E s \in {"frames", "exited"} : cpc' = [cpc EXCEPT ![o] = s]
  /\ chand' = [chand EXCEPT ![o] = NoResponse]
  /\ UNCHANGED <<inbound, handled>>

ConnMovesOn(o) ==
  /\ cpc[o] \in {"wait", "recv", "frames"}
  /\ \E s \in {"wait", "recv", "frames", "exited"} : cpc' = [cpc EXCEPT ![o] = s]
  /\ UNCHANGED <<inbound, handled, chand, wire, lost, sendLock>>

ConnLooksUp(o) ==
  /\ cpc[o] = "frames" /\ handled[o] < recvd[o]
  /\ TakesLaneB(Frame(o)) /\ cpc' = [cpc EXCEPT ![o] = "find"]
  /\ UNCHANGED <<inbound, handled, chand, wire, lost, sendLock>>

LEMMA ConnEffect ==
  ASSUME TInv, NEW o \in Conns, ConnThread(o)
  PROVE  /\ UNCHANGED notConn
         /\ \/ AnswersFrame(o) \/ QueuesFrame(o) \/ ConnWritesHead(o)
            \/ ConnLetsGo(o) \/ ConnMovesOn(o) \/ ConnLooksUp(o)
<1> USE DEF dispatchVars, threadVars, ioVars
<1>0. handled[o] < recvd[o] => Frame(o) \in Requests
  BY DEF TInv, TypeOK, HandInv, Frame
<1>1. CASE Wakes(o) \/ Receives(o) \/ ReceivesEnd(o) \/ NoMoreFrames(o)
  BY <1>1 DEF Wakes, Receives, ReceivesEnd, NoMoreFrames, Exits, ConnMovesOn
<1>2. CASE RejectsFrame(o)
  <2>1. ImmediateError(Frame(o)) \in Responses /\ ImmediateError(Frame(o)).req = Frame(o)
    BY <1>0, <1>2, ResponseFacts DEF RejectsFrame, HasFrame
  <2>2. QED
    BY <1>2, <2>1 DEF RejectsFrame, HasFrame, NextFrame, AnswersFrame, Echoed
<1>3. CASE TakesInline(o)
  BY <1>3 DEF TakesInline, HasFrame, PushesNot, ConnLooksUp
<1>4. CASE DispatchInline(o)
  <2>1. handled[o] < recvd[o]
    BY <1>4 DEF DispatchInline, TInv, HandInv
  <2>2. \E resp \in {Response(Frame(o), "result"), MethodNotFound(Frame(o))} :
           chand' = [chand EXCEPT ![o] = resp]
    BY <1>4 DEF DispatchInline
  <2>3. QED
    BY <1>0, <1>4, <2>1, <2>2, ResponseFacts DEF DispatchInline, NextFrame, AnswersFrame, Echoed
<1>5. CASE PushesFrame(o)
  BY <1>5 DEF PushesFrame, HasFrame, NextFrame, Push, QueuesFrame
<1>6. CASE SendsHead(o)
  BY <1>6 DEF SendsHead, WriteHead, SendFails, AfterSend, Exits, ConnWritesHead, ConnLetsGo
<1>7. CASE SendsTail(o)
  BY <1>7 DEF SendsTail, AfterSend, Exits, ConnLetsGo
<1>8. QED
  BY <1>1, <1>2, <1>3, <1>4, <1>5, <1>6, <1>7 DEF ConnThread

\* The steps of the game thread.
TakesRequest ==
  /\ gpc = "drain" /\ gpc' = "lookup"
  /\ inbound # <<>> /\ inbound' = Tail(inbound)
  /\ ghand' = DrainAnswer(Head(inbound))
  /\ UNCHANGED <<conns, gtarget, wire, lost, sendLock>>

FindsTarget ==
  /\ gpc = "lookup" /\ gpc' = "respond"
  /\ gtarget' \in conns /\ connId[gtarget'] = SourceConnectionId(ghand.req)
  /\ UNCHANGED <<conns, inbound, ghand, wire, lost, sendLock>>

GetsReady ==
  /\ gpc = "respond" /\ gpc' = "send"
  /\ UNCHANGED <<conns, inbound, ghand, gtarget, wire, lost, sendLock>>

GameWritesHead ==
  /\ gpc = "send" /\ gpc' = "sendTail"
  /\ WriteHead(gtarget, ghand, TRUE)
  /\ UNCHANGED <<conns, inbound, ghand, gtarget>>

GameLetsGo ==
  /\ \/ gpc = "sendTail" /\ WriteTail(gtarget, ghand)
     \/ /\ gpc \in {"lookup", "respond", "send"}
        /\ UNCHANGED <<wire, sendLock>> /\ lost \subseteq lost'
  /\ gpc' = "drain" /\ ghand' = NoResponse /\ gtarget' = None
  /\ UNCHANGED <<conns, inbound>>

GameMovesOn ==
  /\ gpc \notin Answering /\ gpc' \notin Answering
  /\ conns' \subseteq conns
  /\ UNCHANGED <<inbound, ghand, gtarget, wire, lost, sendLock>>

LEMMA GameEffect ==
  ASSUME TInv, GameThread \/ Restart \/ Unload
  PROVE  /\ UNCHANGED notGame /\ UNCHANGED <<connId, nextId>>
         /\ \/ TakesRequest \/ FindsTarget \/ GetsReady \/ GameWritesHead
            \/ GameLetsGo \/ GameMovesOn
<1> USE DEF dispatchVars, listVars, ioVars, Goes
<1>1. CASE Bind \/ Listen \/ Restart \/ Unload \/ StopListening \/ JoinListener
  BY <1>1 DEF Bind, Listen, Restart, Unload, StopListening, JoinListener, StopOr, GameMovesOn,
     Answering
<1>2. CASE Register \/ BeginFrame \/ DrainEnds \/ Unregister \/ StopEnds
  BY <1>2 DEF Register, BeginFrame, DrainEnds, Unregister, StopEnds, Changes, RegisterPython,
     RegisterMethods, UnregisterPython, UnregisterMethods, StopOr, GameMovesOn, Answering
<1>3. CASE DrainOne
  BY <1>3 DEF DrainOne, DrainHead, TakesRequest
<1>4. CASE LookUp
  BY <1>4 DEF LookUp, NextResponse, FindsTarget, GameLetsGo
<1>5. CASE Respond
  BY <1>5 DEF Respond, NextResponse, GetsReady, GameLetsGo
<1>6. CASE RespondHead
  BY <1>6 DEF RespondHead, WriteHead, SendFails, NextResponse, GameWritesHead, GameLetsGo
<1>7. CASE RespondTail
  BY <1>7 DEF RespondTail, NextResponse, GameLetsGo
<1>8. CASE Collect \/ TakeConnections \/ SignalAll \/ Reap
  BY <1>8 DEF Collect, TakeConnections, SignalAll, Reap, IdsGoOn, GameMovesOn, Answering
<1>9. QED
  BY <1>1, <1>2, <1>3, <1>4, <1>5, <1>6, <1>7, <1>8 DEF GameThread, EndFrame, Stop

------------------------------------------------------------------------------
(* What a write does to a stream and to a wire.                             *)

\* A client writes a request that nobody has written: nothing that was written
\* moves.
LEMMA RequestWritten ==
  ASSUME TInv, NumberInv, NEW o \in Conns, ClientWrites(o)
  PROVE  \E r \in Requests :
           /\ \A p \in Conns : r \notin Sent(p)
           /\ stream' = [stream EXCEPT ![o] = Append(stream[o], r)]
           /\ Sent(o)' = Sent(o) \cup {r}
           /\ \A p \in Conns \ {o} : Sent(p)' = Sent(p)
           /\ IsInjective(stream'[o])
           /\ \A p \in Conns : /\ Len(stream[p]) \in Nat /\ Len(stream'[p]) \in Nat
                               /\ Len(stream'[p]) >= Len(stream[p])
                               /\ \A i \in 1..Len(stream[p]) : stream'[p][i] = stream[p][i]
<1>1. PICK r \in Unsent : stream' = [stream EXCEPT ![o] = Append(stream[o], r)]
  BY DEF ClientWrites
<1>2. r \in Requests /\ \A p \in Conns : r \notin Sent(p)
  BY <1>1 DEF Unsent
<1>3. stream \in [Conns -> Seq(Requests)] /\ IsInjective(stream[o])
  BY DEF TInv, HandInv, NumberInv
<1>4. Sent(o) = Range(stream[o]) /\ Sent(o)' = Range(stream'[o])
  <2>1. DOMAIN stream[o] = 1..Len(stream[o]) /\ DOMAIN stream'[o] = 1..Len(stream'[o])
    BY <1>1, <1>2, <1>3
  <2>2. QED
    BY <2>1 DEF Sent, Range
<1>5. stream'[o] = Append(stream[o], r) /\ \A p \in Conns \ {o} : stream'[p] = stream[p]
  BY <1>1, <1>3
<1>6. IsInjective(stream'[o]) /\ Sent(o)' = Sent(o) \cup {r}
  BY <1>2, <1>3, <1>4, <1>5, AppendFresh
<1>7. \A p \in Conns : /\ Len(stream[p]) \in Nat /\ Len(stream'[p]) \in Nat
                       /\ Len(stream'[p]) >= Len(stream[p])
                       /\ \A i \in 1..Len(stream[p]) : stream'[p][i] = stream[p][i]
  BY <1>2, <1>3, <1>5
<1>8. \A p \in Conns \ {o} : Sent(p)' = Sent(p)
  BY <1>5 DEF Sent
<1>9. QED
  BY <1>1, <1>2, <1>6, <1>7, <1>8

\* A head adds one answer, at the end of one wire.
LEMMA HeadWritten ==
  ASSUME TInv, NEW o \in Conns, NEW resp \in Responses, WriteHead(o, resp, TRUE)
  PROVE  /\ Heads(o)' = Heads(o) \cup {Len(wire[o]) + 1}
         /\ wire'[o][Len(wire[o]) + 1] = [part |-> "head", resp |-> resp]
         /\ \A i \in 1..Len(wire[o]) : wire'[o][i] = wire[o][i]
         /\ Len(wire[o]) \in Nat /\ Len(wire'[o]) = Len(wire[o]) + 1
         /\ \A p \in Conns \ {o} : wire'[p] = wire[p] /\ Heads(p)' = Heads(p)
         /\ AnswersOn(o)' = AnswersOn(o) \cup {resp}
         /\ \A p \in Conns \ {o} : AnswersOn(p)' = AnswersOn(p)
<1>1. wire \in [Conns -> Seq(Lines)] /\ [part |-> "head", resp |-> resp] \in Lines
  BY DEF TInv, HandInv, Lines
<1>2. wire' = [wire EXCEPT ![o] = Append(wire[o], [part |-> "head", resp |-> resp])]
  BY DEF WriteHead, Writes
<1>3. /\ wire'[o] = Append(wire[o], [part |-> "head", resp |-> resp])
      /\ \A p \in Conns \ {o} : wire'[p] = wire[p]
  BY <1>1, <1>2
<1>4. /\ wire'[o][Len(wire[o]) + 1] = [part |-> "head", resp |-> resp]
      /\ \A i \in 1..Len(wire[o]) : wire'[o][i] = wire[o][i]
      /\ Len(wire[o]) \in Nat /\ Len(wire'[o]) = Len(wire[o]) + 1
  BY <1>1, <1>3
<1>5. Heads(o)' = Heads(o) \cup {Len(wire[o]) + 1}
  BY <1>4 DEF Heads
<1>6. \A p \in Conns \ {o} : Heads(p)' = Heads(p) /\ AnswersOn(p)' = AnswersOn(p)
  BY <1>3 DEF Heads, AnswersOn
<1>7. \A i \in Heads(o) : wire'[o][i].resp = wire[o][i].resp
  BY <1>4 DEF Heads
<1>8. wire'[o][Len(wire[o]) + 1].resp = resp
  BY <1>4
<1>9. AnswersOn(o)' = AnswersOn(o) \cup {resp}
  BY <1>5, <1>7, <1>8 DEF AnswersOn
<1>10. QED
  BY <1>3, <1>4, <1>5, <1>6, <1>9

\* A tail adds none.
LEMMA TailWritten ==
  ASSUME TInv, NEW o \in Conns, NEW resp \in Responses, WriteTail(o, resp)
  PROVE  \A p \in Conns : /\ Heads(p)' = Heads(p)
                          /\ \A i \in 1..Len(wire[p]) : wire'[p][i] = wire[p][i]
                          /\ AnswersOn(p)' = AnswersOn(p)
<1>1. wire \in [Conns -> Seq(Lines)] /\ [part |-> "tail", resp |-> resp] \in Lines
  BY DEF TInv, HandInv, Lines
<1>2. \/ UNCHANGED wire
      \/ wire' = [wire EXCEPT ![o] = Append(wire[o], [part |-> "tail", resp |-> resp])]
  BY DEF WriteTail, Writes, SendFails
<1>3. \A p \in Conns :
         wire'[p] = wire[p] \/ wire'[p] = Append(wire[p], [part |-> "tail", resp |-> resp])
  BY <1>1, <1>2
<1>4. \A p \in Conns : /\ Heads(p)' = Heads(p)
                       /\ \A i \in 1..Len(wire[p]) : wire'[p][i] = wire[p][i]
  <2>1. SUFFICES ASSUME NEW p \in Conns
                 PROVE  /\ Heads(p)' = Heads(p)
                        /\ \A i \in 1..Len(wire[p]) : wire'[p][i] = wire[p][i]
    OBVIOUS
  <2>2. CASE wire'[p] = wire[p]
    BY <2>2 DEF Heads
  <2>3. CASE wire'[p] = Append(wire[p], [part |-> "tail", resp |-> resp])
    <3>1. /\ Len(wire[p]) \in Nat /\ Len(wire'[p]) = Len(wire[p]) + 1
          /\ \A i \in 1..Len(wire[p]) : wire'[p][i] = wire[p][i]
          /\ wire'[p][Len(wire[p]) + 1].part = "tail"
      BY <1>1, <2>3
    <3>2. QED
      BY <3>1 DEF Heads
  <2>4. QED
    BY <1>3, <2>2, <2>3
<1>5. \A p \in Conns : AnswersOn(p)' = AnswersOn(p)
  BY <1>4 DEF AnswersOn, Heads
<1>6. QED
  BY <1>4, <1>5

------------------------------------------------------------------------------
(* Which connection a response goes to.                                     *)

OwnInv == NumberInv /\ TraceInv /\ AnswerToOwner

LEMMA OwnerOf ==
  ASSUME NumberInv, NEW o \in Conns, NEW r \in Sent(o)
  PROVE  Owner(r) = o
BY DEF Owner, NumberInv

LEMMA InitOwnInv == Init => OwnInv
<1> SUFFICES ASSUME Init PROVE OwnInv
  OBVIOUS
<1>1. \A o \in Conns : Sent(o) = {} /\ AnswersOn(o) = {} /\ IsInjective(stream[o])
  BY DEF Init, Sent, AnswersOn, Heads, IsInjective
<1>2. NumberInv
  BY <1>1 DEF Init, NumberInv
<1>3. TraceInv /\ AnswerToOwner
  <2>1. None \notin Conns
    BY ServerAssumption DEF None, Conns
  <2>2. QED
    BY <1>1, <2>1 DEF Init, DispatchInit, TraceInv, AnswerToOwner, Range
<1>4. QED
  BY <1>2, <1>3 DEF OwnInv

LEMMA ClientOwnInv ==
  ASSUME TInv, NumberInv, TraceInv, AnswerToOwner, NEW o \in Conns, Client(o) \/ Accept(o)
  PROVE  OwnInv'
<1> USE DEF dispatchVars, listVars, acceptVars, threadVars, ioVars, gameVars
<1>1. CASE ClientWrites(o)
  <2>1. PICK r \in Requests :
          /\ \A p \in Conns : r \notin Sent(p)
          /\ Sent(o)' = Sent(o) \cup {r}
          /\ \A p \in Conns \ {o} : Sent(p)' = Sent(p)
          /\ IsInjective(stream'[o])
          /\ stream' = [stream EXCEPT ![o] = Append(stream[o], r)]
    BY <1>1, RequestWritten
  <2>2. UNCHANGED <<inbound, nextId, conns, connId, apc, ahand, cpc, chand, wire, ghand, gtarget>>
    BY <1>1 DEF ClientWrites
  <2>3. stream \in [Conns -> Seq(Requests)]
    BY DEF TInv, HandInv
  <2>4. \A p \in Conns : Sent(p) \subseteq Sent(p)'
    BY <2>1
  <2>5. NumberInv'
    <3>1. \A p \in Conns : IsInjective(stream'[p])
      <4>1. \A p \in Conns \ {o} : stream'[p] = stream[p]
        BY <2>1, <2>3
      <4>2. QED
        BY <2>1, <4>1 DEF NumberInv
    <3>2. \A p, q \in Conns : p # q => Sent(p)' \cap Sent(q)' = {}
      BY <2>1 DEF NumberInv
    <3>3. QED
      BY <2>2, <3>1, <3>2 DEF NumberInv
  <2>6. TraceInv'
    BY <2>2, <2>4 DEF TraceInv, Traced
  <2>7. \A p \in Conns : AnswersOn(p)' = AnswersOn(p)
    BY <2>2 DEF AnswersOn, Heads
  <2>8. AnswerToOwner'
    BY <2>4, <2>7 DEF AnswerToOwner
  <2>9. QED
    BY <2>5, <2>6, <2>8 DEF OwnInv
<1>2. CASE Accept(o) \/ ~ClientWrites(o)
  <2>1. /\ UNCHANGED <<inbound, nextId, conns, connId, cpc, chand, wire, ghand, gtarget, stream>>
        /\ apc' = "spawn" => apc = "spawn" /\ ahand' = ahand
    BY <1>2 DEF Client, ClientStalls, ClientResumes, ClientHalfCloses, ClientVanishes,
       BecomesClient, Accept
  <2>2. /\ \A p \in Conns : Sent(p)' = Sent(p) /\ AnswersOn(p)' = AnswersOn(p)
    BY <2>1 DEF Sent, AnswersOn, Heads
  <2>3. QED
    BY <2>1, <2>2 DEF OwnInv, NumberInv, TraceInv, Traced, AnswerToOwner
<1>3. QED
  BY <1>1, <1>2

LEMMA AcceptOwnInv ==
  ASSUME TInv, NumberInv, TraceInv, AnswerToOwner, AcceptThread
  PROVE  OwnInv'
<1> USE DEF dispatchVars, listVars, acceptVars, threadVars, ioVars, gameVars, clientVars
<1>0. /\ apc # "idle" => ahand \in Conns
      /\ connId \in [Conns -> Nat] /\ cpc \in [Conns -> ConnSteps] /\ nextId \in Nat \ {0}
      /\ conns \subseteq Conns
  BY DEF TInv, TypeOK, HandInv, Positive
<1>1. UNCHANGED <<inbound, stream, chand, wire, ghand, gtarget>>
  BY DEF AcceptThread, CheckListening, AddConnection, SpawnThread, SpawnFails, SetThread, Refuse
<1>2. \A p \in Conns : Sent(p)' = Sent(p) /\ AnswersOn(p)' = AnswersOn(p)
  BY <1>1 DEF Sent, AnswersOn, Heads
<1>3. NumberInv' /\ \A p \in Conns : connId[p] # 0 => connId'[p] # 0
  <2>1. CASE AddConnection
    <3>1. /\ ahand \in Conns /\ connId' = [connId EXCEPT ![ahand] = nextId]
          /\ nextId' = nextId + 1 /\ conns' = conns \cup {ahand}
          /\ ahand' = ahand /\ UNCHANGED cpc
      BY <1>0, <2>1 DEF AddConnection
    <3>2. QED
      BY <1>0, <1>1, <1>2, <3>1 DEF NumberInv
  <2>2. CASE SpawnThread
    BY <1>0, <1>1, <1>2, <2>2 DEF SpawnThread, NumberInv
  <2>3. CASE CheckListening \/ SpawnFails \/ SetThread \/ Refuse
    <3>1. /\ UNCHANGED <<connId, nextId, cpc>> /\ conns' \subseteq conns
          /\ apc' # "spawn"
      BY <2>3 DEF CheckListening, SpawnFails, SetThread, Refuse
    <3>2. QED
      BY <1>1, <1>2, <3>1 DEF NumberInv
  <2>4. QED
    BY <2>1, <2>2, <2>3 DEF AcceptThread
<1>4. TraceInv' /\ AnswerToOwner'
  BY <1>1, <1>2, <1>3 DEF TraceInv, Traced, AnswerToOwner
<1>5. QED
  BY <1>3, <1>4 DEF OwnInv

LEMMA ConnOwnInv ==
  ASSUME TInv, NumberInv, TraceInv, AnswerToOwner, NEW o \in Conns, ConnThread(o)
  PROVE  OwnInv'
<1> USE DEF notConn, listVars, acceptVars, gameVars, clientVars
<1>0. /\ cpc \in [Conns -> ConnSteps] /\ chand \in [Conns -> Responses \cup {NoResponse}]
      /\ inbound \in Seq(Requests) /\ None \notin Conns
      /\ handled[o] < recvd[o] => Frame(o) \in Sent(o) /\ Frame(o) \in Requests
  <2>1. /\ recvd[o] <= Len(stream[o]) /\ stream[o] \in Seq(Requests)
        /\ handled[o] \in Nat /\ recvd[o] \in Nat
    BY DEF TInv, TypeOK, HandInv
  <2>2. handled[o] < recvd[o] => handled[o] + 1 \in 1..Len(stream[o])
    BY <2>1
  <2>3. handled[o] < recvd[o] => Frame(o) \in Sent(o) /\ Frame(o) \in Requests
    BY <2>1, <2>2 DEF Frame, Sent
  <2>4. None \notin Conns
    BY ServerAssumption DEF None, Conns
  <2>5. QED
    BY <2>3, <2>4 DEF TInv, TypeOK, HandInv
<1>1. UNCHANGED notConn
  BY ConnEffect
<1>2. \A p \in Conns : Sent(p)' = Sent(p)
  BY <1>1 DEF Sent
<1>3. cpc[o] # "none" /\ \E s \in ConnSteps : cpc' = [cpc EXCEPT ![o] = s]
  BY <1>0, ConnEffect DEF AnswersFrame, QueuesFrame, ConnWritesHead, ConnLetsGo, ConnMovesOn,
     ConnLooksUp, ConnSteps
<1>4. NumberInv'
  BY <1>0, <1>1, <1>2, <1>3 DEF NumberInv
<1>5. connId[o] # 0
  BY <1>3 DEF NumberInv
<1>6. TraceInv'
  <2>1. CASE AnswersFrame(o)
    BY <1>0, <1>1, <1>2, <1>5, <2>1 DEF AnswersFrame, TraceInv, Traced
  <2>2. CASE QueuesFrame(o)
    <3>1. Range(inbound') \subseteq Range(inbound) \cup {Frame(o)}
      BY <1>0, <2>2 DEF QueuesFrame, Range
    <3>2. Traced(Frame(o), o)
      BY <1>0, <1>5, <2>2 DEF QueuesFrame, Traced
    <3>3. QED
      BY <1>0, <1>1, <1>2, <2>2, <3>1, <3>2 DEF QueuesFrame, TraceInv, Traced
  <2>3. CASE ConnWritesHead(o) \/ ConnLetsGo(o) \/ ConnMovesOn(o) \/ ConnLooksUp(o)
    <3>1. UNCHANGED inbound /\ (UNCHANGED chand \/ chand' = [chand EXCEPT ![o] = NoResponse])
      BY <2>3 DEF ConnWritesHead, ConnLetsGo, ConnMovesOn, ConnLooksUp
    <3>2. QED
      BY <1>0, <1>1, <1>2, <3>1 DEF TraceInv, Traced
  <2>4. QED
    BY <2>1, <2>2, <2>3, ConnEffect
<1>7. AnswerToOwner'
  <2>1. CASE ConnWritesHead(o)
    <3>1. chand[o] \in Responses /\ chand[o].req \in Sent(o)
      <4>1. chand[o] # NoResponse
        BY <2>1 DEF ConnWritesHead, TInv, TypeOK
      <4>2. QED
        BY <1>0, <4>1 DEF TraceInv, Traced
    <3>2. WriteHead(o, chand[o], TRUE)
      BY <2>1 DEF ConnWritesHead
    <3>3. /\ AnswersOn(o)' = AnswersOn(o) \cup {chand[o]}
          /\ \A p \in Conns \ {o} : AnswersOn(p)' = AnswersOn(p)
      BY <3>1, <3>2, HeadWritten
    <3>4. QED
      BY <1>2, <3>1, <3>3 DEF AnswerToOwner
  <2>2. CASE ConnLetsGo(o)
    <3>1. \A p \in Conns : AnswersOn(p)' = AnswersOn(p)
      <4>1. CASE UNCHANGED wire
        BY <4>1 DEF AnswersOn, Heads
      <4>2. CASE cpc[o] = "sendTail" /\ WriteTail(o, chand[o])
        BY <1>0, <4>2, TailWritten DEF TInv, TypeOK
      <4>3. QED
        BY <2>2, <4>1, <4>2 DEF ConnLetsGo
    <3>2. QED
      BY <1>2, <3>1 DEF AnswerToOwner
  <2>3. CASE UNCHANGED wire
    BY <1>2, <2>3 DEF AnswerToOwner, AnswersOn, Heads
  <2>4. QED
    BY <2>1, <2>2, <2>3, ConnEffect DEF AnswersFrame, QueuesFrame, ConnMovesOn, ConnLooksUp
<1>8. QED
  BY <1>4, <1>6, <1>7 DEF OwnInv

LEMMA GameOwnInv ==
  ASSUME TInv, NumberInv, TraceInv, AnswerToOwner, GameThread \/ Restart \/ Unload
  PROVE  OwnInv'
<1> USE DEF notGame, listVars, acceptVars, threadVars, clientVars
<1>0. /\ inbound \in Seq(Requests) /\ None \notin Conns /\ conns \subseteq Conns
      /\ gtarget \in Conns \cup {None} /\ ghand \in Responses \cup {NoResponse}
      /\ ghand # NoResponse <=> gpc \in Answering
      /\ gpc \in {"respond", "send", "sendTail"} <=> gtarget # None
  BY ServerAssumption DEF TInv, TypeOK, HandInv, None, Conns
<1>1. UNCHANGED notGame /\ UNCHANGED <<connId, nextId>> /\ conns' \subseteq conns
  BY GameEffect DEF TakesRequest, FindsTarget, GetsReady, GameWritesHead, GameLetsGo, GameMovesOn
<1>2. \A p \in Conns : Sent(p)' = Sent(p)
  BY <1>1 DEF Sent
<1>3. NumberInv'
  BY <1>1, <1>2 DEF NumberInv
<1>4. TraceInv'
  <2>1. CASE TakesRequest
    <3>1. Head(inbound) \in Range(inbound) /\ Range(inbound') \subseteq Range(inbound)
      <4>1. inbound # <<>> /\ inbound' = Tail(inbound)
        BY <2>1 DEF TakesRequest
      <4>2. /\ Len(inbound) \in Nat /\ 1 \in DOMAIN inbound /\ Head(inbound) = inbound[1]
            /\ \A i \in DOMAIN inbound' : i + 1 \in DOMAIN inbound /\ inbound'[i] = inbound[i + 1]
        BY <1>0, <4>1
      <4>3. QED
        BY <4>2 DEF Range
    <3>2. ghand'.req = Head(inbound)
      <4>1. Head(inbound) \in Requests
        BY <1>0, <2>1 DEF TakesRequest
      <4>2. QED
        BY <2>1, <4>1, ResponseFacts DEF TakesRequest
    <3>3. gtarget' = None
      BY <1>0, <2>1 DEF TakesRequest
    <3>4. QED
      BY <1>0, <1>1, <1>2, <2>1, <3>1, <3>2, <3>3 DEF TakesRequest, TraceInv, Traced
  <2>2. CASE FindsTarget
    <3>1. PICK o \in Conns : Traced(ghand.req, o)
      BY <1>0, <2>2 DEF FindsTarget, TraceInv, Answering
    <3>2. SourceConnectionId(ghand.req) = connId[o]
      BY <3>1, OwnerOf DEF SourceConnectionId, Traced
    <3>3. gtarget' = o
      BY <1>0, <2>2, <3>1, <3>2 DEF FindsTarget, NumberInv, Traced
    <3>4. QED
      BY <1>1, <1>2, <2>2, <3>1, <3>3 DEF FindsTarget, TraceInv, Traced
  <2>3. CASE GetsReady \/ GameWritesHead \/ GameLetsGo \/ GameMovesOn
    <3>1. UNCHANGED inbound /\ \/ UNCHANGED <<ghand, gtarget>>
                               \/ ghand' = NoResponse /\ gtarget' = None
      BY <2>3 DEF GetsReady, GameWritesHead, GameLetsGo, GameMovesOn
    <3>2. QED
      BY <1>0, <1>1, <1>2, <3>1 DEF TraceInv, Traced
  <2>4. QED
    BY <2>1, <2>2, <2>3, GameEffect
<1>5. AnswerToOwner'
  <2>1. CASE GameWritesHead
    <3>1. gtarget \in Conns /\ ghand \in Responses /\ ghand.req \in Sent(gtarget)
      BY <1>0, <2>1 DEF GameWritesHead, TraceInv, Traced, Answering
    <3>2. WriteHead(gtarget, ghand, TRUE)
      BY <2>1 DEF GameWritesHead
    <3>3. PICK o \in Conns : gtarget = o
      BY <3>1
    <3>4. /\ AnswersOn(o)' = AnswersOn(o) \cup {ghand}
          /\ \A p \in Conns \ {o} : AnswersOn(p)' = AnswersOn(p)
      BY <3>1, <3>2, <3>3, HeadWritten
    <3>5. QED
      BY <1>2, <3>1, <3>3, <3>4 DEF AnswerToOwner
  <2>2. CASE GameLetsGo
    <3>1. \A p \in Conns : AnswersOn(p)' = AnswersOn(p)
      <4>1. CASE UNCHANGED wire
        BY <4>1 DEF AnswersOn, Heads
      <4>2. CASE gpc = "sendTail" /\ WriteTail(gtarget, ghand)
        BY <1>0, <4>2, TailWritten DEF Answering
      <4>3. QED
        BY <2>2, <4>1, <4>2 DEF GameLetsGo
    <3>2. QED
      BY <1>2, <3>1 DEF AnswerToOwner
  <2>3. CASE UNCHANGED wire
    BY <1>2, <2>3 DEF AnswerToOwner, AnswersOn, Heads
  <2>4. QED
    BY <2>1, <2>2, <2>3, GameEffect DEF TakesRequest, FindsTarget, GetsReady, GameMovesOn
<1>6. QED
  BY <1>3, <1>4, <1>5 DEF OwnInv

LEMMA NextOwnInv == TInv /\ OwnInv /\ [Next]_vars => OwnInv'
<1>1. OwnInv /\ UNCHANGED vars => OwnInv'
  <2> SUFFICES ASSUME OwnInv, UNCHANGED vars PROVE OwnInv'
    OBVIOUS
  <2>1. UNCHANGED <<inbound, nextId, conns, connId, apc, ahand, cpc, chand, wire, ghand, gtarget,
                    stream>>
    BY DEF vars, dispatchVars, listVars, acceptVars, threadVars, ioVars, gameVars, clientVars
  <2>2. \A p \in Conns : Sent(p)' = Sent(p) /\ AnswersOn(p)' = AnswersOn(p)
    BY <2>1 DEF Sent, AnswersOn, Heads
  <2>3. QED
    BY <2>1, <2>2 DEF OwnInv, NumberInv, TraceInv, Traced, AnswerToOwner
<1>2. QED
  BY <1>1, ClientOwnInv, AcceptOwnInv, ConnOwnInv, GameOwnInv DEF Next, OwnInv

\* AnswerToOwner, a property of the run BridgeServerSafety: Drain finds the
\* connection of a response by the number it has kept since the request was
\* queued, and finds the one the request came from or none, although listeners
\* restart and clients come and go in between.
THEOREM AnswersGoHome == Spec => []AnswerToOwner
<1>1. OwnInv => AnswerToOwner
  BY DEF OwnInv
<1>2. QED
  BY <1>1, InitTInv, InitOwnInv, NextTInv, NextOwnInv, PTL DEF Spec

------------------------------------------------------------------------------
(* How often a request is answered, where and under which id.               *)

AskedInv == OnceInv /\ AnsweredOnce /\ LaneInv /\ LaneAOnGameThread /\ DispatchedIdsEchoed

LEMMA InitAskedInv == Init => AskedInv
<1> SUFFICES ASSUME Init PROVE AskedInv
  OBVIOUS
<1>1. /\ \A o \in Conns : Heads(o) = {} /\ AnswersOn(o) = {}
      /\ Range(inbound) = {} /\ IsInjective(inbound)
      /\ \A r \in Requests : ~Answered(r) /\ ranOn[r] = "nobody"
  BY DEF Init, DispatchInit, AnswersOn, Answered, Heads, Range, IsInjective
<1>2. OnceInv
  BY <1>1 DEF Init, OnceInv, InGame, InConn
<1>3. LaneInv /\ AnsweredOnce /\ LaneAOnGameThread /\ DispatchedIdsEchoed
  BY <1>1 DEF Init, LaneInv, AnsweredOnce, LaneAOnGameThread, DispatchedIdsEchoed
<1>4. QED
  BY <1>2, <1>3 DEF AskedInv

\* The frame a connection is about to handle has not been handled.
LEMMA FrameFresh ==
  ASSUME TInv, NumberInv, NEW o \in Conns, handled[o] < recvd[o]
  PROVE  /\ Frame(o) \in Requests /\ Frame(o) \in Sent(o) /\ ~Handled(Frame(o))
         /\ handled[o] \in Nat /\ handled[o] + 1 \in 1..Len(stream[o])
<1>1. /\ stream \in [Conns -> Seq(Requests)] /\ handled \in [Conns -> Nat]
      /\ recvd \in [Conns -> Nat]
      /\ \A p \in Conns : handled[p] <= recvd[p] /\ recvd[p] <= Len(stream[p])
  BY DEF TInv, TypeOK, HandInv
<1>2. handled[o] + 1 \in 1..Len(stream[o])
  BY <1>1
<1>3. Frame(o) \in Requests /\ Frame(o) \in Sent(o)
  BY <1>1, <1>2 DEF Frame, Sent
<1>4. ASSUME NEW p \in Conns, NEW i \in 1..handled[p], stream[p][i] = Frame(o)
      PROVE  FALSE
  <2>1. i \in 1..Len(stream[p])
    BY <1>1
  <2>2. Frame(o) \in Sent(p)
    BY <1>4, <2>1 DEF Sent
  <2>3. p = o
    BY <1>3, <2>2 DEF NumberInv
  <2>4. i = handled[o] + 1
    <3>1. DOMAIN stream[o] = 1..Len(stream[o])
      BY <1>1
    <3>2. QED
      BY <1>2, <1>4, <2>1, <2>3, <3>1 DEF Frame, NumberInv, IsInjective
  <2>5. QED
    BY <1>1, <2>3, <2>4
<1>5. QED
  BY <1>1, <1>2, <1>3, <1>4 DEF Handled

\* Handling a frame adds it to what was handled.
LEMMA FrameHandled ==
  ASSUME TInv, NumberInv, NEW o \in Conns, handled[o] < recvd[o],
         handled' = [handled EXCEPT ![o] = @ + 1], UNCHANGED stream
  PROVE  \A r : Handled(r)' <=> Handled(r) \/ r = Frame(o)
<1>1. handled \in [Conns -> Nat]
  BY DEF TInv, HandInv
<1>2. handled'[o] = handled[o] + 1 /\ \A p \in Conns \ {o} : handled'[p] = handled[p]
  BY <1>1
<1>3. 1..handled'[o] = (1..handled[o]) \cup {handled[o] + 1}
  BY <1>1, <1>2
<1>4. QED
  BY <1>2, <1>3 DEF Handled, Frame

\* Nothing in a step that only moves requests on changes what is answered.
LEMMA AskedStutter ==
  ASSUME TInv, AskedInv, UNCHANGED <<inbound, ghand, cpc, chand, wire, handled, ranOn>>,
         \A r : Handled(r)' <=> Handled(r),
         gpc' = "sendTail" <=> gpc = "sendTail",
         \A o \in Conns : cpc[o] = "find" => Frame(o)' = Frame(o)
  PROVE  AskedInv'
<1>1. \A o \in Conns : Heads(o)' = Heads(o) /\ AnswersOn(o)' = AnswersOn(o)
  BY DEF Heads, AnswersOn
<1>2. \A r : (Answered(r)' <=> Answered(r)) /\ (InGame(r)' <=> InGame(r))
  BY <1>1 DEF Answered, InGame
<1>3. \A r : \A o \in Conns : InConn(o, r)' <=> InConn(o, r)
  BY DEF InConn
<1>4. OnceInv'
  BY <1>2, <1>3 DEF AskedInv, OnceInv
<1>5. AnsweredOnce' /\ LaneInv' /\ LaneAOnGameThread' /\ DispatchedIdsEchoed'
  BY <1>1 DEF AskedInv, AnsweredOnce, LaneInv, Echoed, LaneAOnGameThread, DispatchedIdsEchoed
<1>6. QED
  BY <1>4, <1>5 DEF AskedInv

LEMMA ClientAskedInv ==
  ASSUME TInv, NumberInv, AskedInv, NEW o \in Conns, Client(o) \/ Accept(o)
  PROVE  AskedInv'
<1> USE DEF dispatchVars, listVars, acceptVars, threadVars, ioVars, gameVars
<1>1. /\ UNCHANGED <<inbound, ghand, cpc, chand, wire, handled, recvd, ranOn, gpc>>
      /\ ClientWrites(o) \/ UNCHANGED stream
  BY DEF Client, ClientWrites, ClientStalls, ClientResumes, ClientHalfCloses, ClientVanishes,
     BecomesClient, Accept
<1>2. \A p \in Conns : \A i \in 1..Len(stream[p]) : stream'[p][i] = stream[p][i]
  <2>1. CASE ClientWrites(o)
    BY <2>1, RequestWritten
  <2>2. CASE UNCHANGED stream
    BY <2>2
  <2>3. QED
    BY <1>1, <2>1, <2>2
<1>3. \A p \in Conns : \A i \in 1..handled[p] : i \in 1..Len(stream[p])
  BY DEF TInv, TypeOK, HandInv
<1>4. \A r : Handled(r)' <=> Handled(r)
  BY <1>1, <1>2, <1>3 DEF Handled
<1>5. \A p \in Conns : cpc[p] = "find" => Frame(p)' = Frame(p)
  <2>1. \A p \in Conns : cpc[p] = "find" => handled[p] + 1 \in 1..Len(stream[p])
    BY DEF TInv, TypeOK, HandInv
  <2>2. QED
    BY <1>1, <1>2, <2>1 DEF Frame
<1>6. QED
  BY <1>1, <1>4, <1>5, AskedStutter

LEMMA AcceptAskedInv ==
  ASSUME TInv, AskedInv, AcceptThread
  PROVE  AskedInv'
<1>1. \/ UNCHANGED <<stream, inbound, ghand, cpc, chand, wire, handled, ranOn, gpc>>
      \/ SpawnThread
  BY DEF AcceptThread, CheckListening, AddConnection, SpawnFails, SetThread, Refuse,
     dispatchVars, threadVars, ioVars, gameVars, clientVars
<1>2. CASE UNCHANGED <<stream, inbound, ghand, cpc, chand, wire, handled, ranOn, gpc>>
  <2>1. \A r : Handled(r)' <=> Handled(r)
    BY <1>2 DEF Handled
  <2>2. \A p \in Conns : Frame(p)' = Frame(p)
    BY <1>2 DEF Frame
  <2>3. QED
    BY <1>2, <2>1, <2>2, AskedStutter
<1>3. CASE SpawnThread
  <2>1. /\ ahand \in Conns /\ cpc[ahand] = "none" /\ cpc' = [cpc EXCEPT ![ahand] = "wait"]
        /\ cpc \in [Conns -> ConnSteps]
        /\ UNCHANGED <<stream, inbound, ghand, chand, wire, handled, ranOn, gpc>>
    BY <1>3 DEF SpawnThread, TInv, TypeOK, HandInv, dispatchVars, ioVars, gameVars, clientVars
  <2>2. /\ \A o \in Conns : Heads(o)' = Heads(o) /\ AnswersOn(o)' = AnswersOn(o) /\ Frame(o)' = Frame(o)
        /\ \A r : Handled(r)' <=> Handled(r)
    BY <2>1 DEF Heads, AnswersOn, Handled, Frame
  <2>3. \A r : (Answered(r)' <=> Answered(r)) /\ (InGame(r)' <=> InGame(r))
    BY <2>1, <2>2 DEF Answered, InGame
  <2>4. \A r : \A o \in Conns : InConn(o, r)' <=> InConn(o, r)
    BY <2>1 DEF InConn
  <2>5. \A o \in Conns : (cpc'[o] = "sendTail" <=> cpc[o] = "sendTail")
                         /\ (cpc'[o] = "find" <=> cpc[o] = "find")
    BY <2>1
  <2>6. OnceInv'
    BY <2>1, <2>2, <2>3, <2>4, <2>5 DEF AskedInv, OnceInv
  <2>7. AnsweredOnce' /\ LaneInv' /\ LaneAOnGameThread' /\ DispatchedIdsEchoed'
    BY <2>1, <2>2, <2>5 DEF AskedInv, AnsweredOnce, LaneInv, Echoed, LaneAOnGameThread,
       DispatchedIdsEchoed
  <2>8. QED
    BY <2>6, <2>7 DEF AskedInv
<1>4. QED
  BY <1>1, <1>2, <1>3

\* A head adds an answer to a request that had none.
LEMMA HeadAnswers ==
  ASSUME TInv, AnsweredOnce, DispatchedIdsEchoed, NEW o \in Conns, NEW resp \in Responses,
         WriteHead(o, resp, TRUE), ~Answered(resp.req), Echoed(resp)
  PROVE  /\ AnsweredOnce' /\ DispatchedIdsEchoed'
         /\ \A r : Answered(r)' <=> Answered(r) \/ r = resp.req
<1>1. /\ Heads(o)' = Heads(o) \cup {Len(wire[o]) + 1}
      /\ wire'[o][Len(wire[o]) + 1] = [part |-> "head", resp |-> resp]
      /\ \A i \in 1..Len(wire[o]) : wire'[o][i] = wire[o][i]
      /\ \A p \in Conns \ {o} : wire'[p] = wire[p] /\ Heads(p)' = Heads(p)
      /\ AnswersOn(o)' = AnswersOn(o) \cup {resp}
      /\ \A p \in Conns \ {o} : AnswersOn(p)' = AnswersOn(p)
  BY HeadWritten
<1>2. \A p \in Conns : \A i \in Heads(p) : i \in 1..Len(wire[p])
  BY DEF Heads
<1>3. \A p \in Conns : \A i \in Heads(p) : wire[p][i].resp.req # resp.req
  BY DEF Answered, AnswersOn
<1>4. \A p \in Conns : \A i \in Heads(p) : wire'[p][i] = wire[p][i]
  BY <1>1, <1>2
<1>5. AnsweredOnce'
  <2> SUFFICES ASSUME NEW p \in Conns, NEW q \in Conns, NEW i \in Heads(p)', NEW k \in Heads(q)',
                      wire'[p][i].resp.req = wire'[q][k].resp.req
               PROVE  p = q /\ i = k
    BY DEF AnsweredOnce
  <2>1. i \in Heads(p) \/ (p = o /\ i = Len(wire[o]) + 1)
    BY <1>1
  <2>2. k \in Heads(q) \/ (q = o /\ k = Len(wire[o]) + 1)
    BY <1>1
  <2>3. wire'[o][Len(wire[o]) + 1].resp.req = resp.req
    BY <1>1
  <2>4. QED
    BY <1>3, <1>4, <2>1, <2>2, <2>3 DEF AnsweredOnce
<1>6. DispatchedIdsEchoed'
  BY <1>1 DEF DispatchedIdsEchoed, Echoed
<1>7. \A r : Answered(r)' <=> Answered(r) \/ r = resp.req
  BY <1>1 DEF Answered
<1>8. QED
  BY <1>5, <1>6, <1>7

\* Any other step of the senders leaves the answers as they are.
LEMMA NoHeadAnswers ==
  ASSUME TInv, AnsweredOnce, DispatchedIdsEchoed,
         UNCHANGED wire \/ \E o \in Conns, resp \in Responses : WriteTail(o, resp)
  PROVE  /\ AnsweredOnce' /\ DispatchedIdsEchoed'
         /\ \A r : Answered(r)' <=> Answered(r)
<1>1. \A p \in Conns : /\ Heads(p)' = Heads(p) /\ AnswersOn(p)' = AnswersOn(p)
                       /\ \A i \in 1..Len(wire[p]) : wire'[p][i] = wire[p][i]
  BY TailWritten DEF Heads, AnswersOn
<1>2. \A p \in Conns : \A i \in Heads(p) : wire'[p][i] = wire[p][i]
  BY <1>1 DEF Heads
<1>3. QED
  BY <1>1, <1>2 DEF AnsweredOnce, DispatchedIdsEchoed, Answered

\* Lane B takes requests of LaneB only: exec_python and the requests of
\* another kind go through the queue.
LEMMA LaneBTaken == \A r : TakesLaneB(r) => r \in LaneB
BY DEF TakesLaneB, IsThreadSafe, Method

LEMMA ConnLaneInv ==
  ASSUME TInv, LaneInv, LaneAOnGameThread, NEW o \in Conns, ConnThread(o)
  PROVE  LaneInv' /\ LaneAOnGameThread'
<1>0. /\ cpc \in [Conns -> ConnSteps] /\ chand \in [Conns -> Responses \cup {NoResponse}]
      /\ handled \in [Conns -> Nat]
  BY DEF TInv, TypeOK, HandInv
<1>1. UNCHANGED <<stream, ghand>>
  BY ConnEffect DEF notConn, clientVars, gameVars
<1>2. \A p \in Conns \ {o} : Frame(p)' = Frame(p)
  BY <1>0, <1>1, ConnEffect DEF Frame, AnswersFrame, QueuesFrame, ConnWritesHead, ConnLetsGo,
     ConnMovesOn, ConnLooksUp
<1>3. LaneInv'
  <2>1. CASE AnswersFrame(o)
    <3>1. Frame(o) \in LaneB \cup Rejected
      BY <2>1 DEF AnswersFrame, LaneInv
    <3>2. QED
      BY <1>0, <1>1, <1>2, <2>1, <3>1 DEF AnswersFrame, LaneInv, Echoed
  <2>2. CASE ConnLooksUp(o)
    <3>1. Frame(o) \in LaneB /\ Frame(o)' = Frame(o)
      BY <1>1, <2>2, LaneBTaken DEF ConnLooksUp, Frame
    <3>2. QED
      BY <1>0, <1>1, <1>2, <2>2, <3>1 DEF ConnLooksUp, LaneInv, Echoed
  <2>3. CASE QueuesFrame(o) \/ ConnWritesHead(o) \/ ConnLetsGo(o) \/ ConnMovesOn(o)
    <3>1. /\ UNCHANGED chand \/ chand' = [chand EXCEPT ![o] = NoResponse]
          /\ cpc'[o] # "find" /\ \A p \in Conns \ {o} : cpc'[p] = cpc[p]
      BY <1>0, <2>3 DEF QueuesFrame, ConnWritesHead, ConnLetsGo, ConnMovesOn
    <3>2. QED
      BY <1>0, <1>1, <1>2, <3>1 DEF LaneInv, Echoed
  <2>4. QED
    BY <2>1, <2>2, <2>3, ConnEffect
<1>4. LaneAOnGameThread'
  <2>1. CASE DispatchInline(o)
    <3>1. Frame(o) \in LaneB
      BY <2>1 DEF DispatchInline, LaneInv
    <3>2. \A r \in Requests \ LaneB : ranOn'[r] = ranOn[r]
      BY <2>1, <3>1 DEF DispatchInline, Dispatched, TInv, TypeOK
    <3>3. QED
      BY <3>2 DEF LaneAOnGameThread
  <2>2. CASE ~DispatchInline(o)
    <3>1. UNCHANGED ranOn
      BY <2>2 DEF ConnThread, Wakes, Receives, ReceivesEnd, NoMoreFrames, RejectsFrame, TakesInline,
         PushesFrame, SendsHead, SendsTail, dispatchVars
    <3>2. QED
      BY <3>1 DEF LaneAOnGameThread
  <2>3. QED
    BY <2>1, <2>2
<1>5. QED
  BY <1>3, <1>4

LEMMA ConnAskedInv ==
  ASSUME TInv, NumberInv, TraceInv, AskedInv, NEW o \in Conns, ConnThread(o)
  PROVE  AskedInv'
<1>0. /\ cpc \in [Conns -> ConnSteps] /\ chand \in [Conns -> Responses \cup {NoResponse}]
      /\ inbound \in Seq(Requests)
      /\ \A p \in Conns : cpc[p] \in {"send", "sendTail"} <=> chand[p] # NoResponse
      /\ \A resp \in Responses : resp.req \in Requests /\ resp # NoResponse
  BY ResponseFacts DEF TInv, TypeOK, HandInv, Responses
<1>1. LaneInv' /\ LaneAOnGameThread'
  BY ConnLaneInv DEF AskedInv
<1>2. UNCHANGED <<stream, gpc, ghand>>
  BY ConnEffect DEF notConn, clientVars, gameVars
<1>3. \A r : InGame(r)' <=> InGame(r)
  BY <1>2 DEF InGame
<1>4. \A p \in Conns \ {o} : /\ cpc'[p] = cpc[p]
                             /\ \A r : InConn(p, r)' <=> InConn(p, r)
  BY ZenonT(20), <1>0, ConnEffect DEF InConn, AnswersFrame, QueuesFrame, ConnWritesHead, ConnLetsGo,
     ConnMovesOn, ConnLooksUp
<1>5. CASE AnswersFrame(o)
  <2>1. /\ \A r : Handled(r)' <=> Handled(r) \/ r = Frame(o)
        /\ Frame(o) \in Requests /\ ~Handled(Frame(o))
    BY <1>2, <1>5, FrameFresh, FrameHandled DEF AnswersFrame
  <2>2. AnsweredOnce' /\ DispatchedIdsEchoed' /\ \A r : Answered(r)' <=> Answered(r)
    BY <1>5, NoHeadAnswers DEF AnswersFrame, AskedInv
  <2>3. \A r : InConn(o, r)' <=> r = Frame(o)
    BY <1>0, <1>5 DEF AnswersFrame, InConn
  <2>4. cpc'[o] = "send" /\ UNCHANGED inbound
    BY <1>0, <1>5 DEF AnswersFrame
  <2>5. OnceInv'
    BY <1>2, <1>3, <1>4, <2>1, <2>2, <2>3, <2>4 DEF AskedInv, OnceInv
  <2>6. QED
    BY <1>1, <2>2, <2>5 DEF AskedInv
<1>6. CASE QueuesFrame(o)
  <2>1. /\ \A r : Handled(r)' <=> Handled(r) \/ r = Frame(o)
        /\ Frame(o) \in Requests /\ ~Handled(Frame(o))
    BY <1>2, <1>6, FrameFresh, FrameHandled DEF QueuesFrame
  <2>2. AnsweredOnce' /\ DispatchedIdsEchoed' /\ \A r : Answered(r)' <=> Answered(r)
    BY <1>6, NoHeadAnswers DEF QueuesFrame, AskedInv
  <2>3. \A r : InConn(o, r)' <=> InConn(o, r)
    BY <1>6 DEF QueuesFrame, InConn
  <2>4. IsInjective(inbound') /\ Range(inbound') = Range(inbound) \cup {Frame(o)}
    <3>1. Frame(o) \notin Range(inbound) /\ IsInjective(inbound)
      BY <2>1 DEF AskedInv, OnceInv
    <3>2. QED
      BY <1>0, <1>6, <2>1, <3>1, AppendFresh DEF QueuesFrame
  <2>5. cpc'[o] = cpc[o]
    BY <1>6 DEF QueuesFrame
  <2>6. \A p \in Conns : ~InConn(p, Frame(o))
    BY <2>1 DEF AskedInv, OnceInv
  <2>7. OnceInv'
    BY <1>2, <1>3, <1>4, <2>1, <2>2, <2>3, <2>4, <2>5, <2>6 DEF AskedInv, OnceInv
  <2>8. QED
    BY <1>1, <2>2, <2>7 DEF AskedInv
<1>7. CASE ConnWritesHead(o)
  <2>1. /\ chand[o] \in Responses /\ chand[o].req \in Requests
        /\ Handled(chand[o].req) /\ ~InGame(chand[o].req) /\ chand[o].req \notin Range(inbound)
        /\ ~Answered(chand[o].req) /\ Echoed(chand[o])
        /\ InConn(o, chand[o].req)
    <3>1. chand[o] # NoResponse /\ chand[o] \in Responses /\ cpc[o] # "sendTail"
      BY <1>0, <1>7 DEF ConnWritesHead
    <3>2. QED
      BY <1>0, <3>1 DEF AskedInv, OnceInv, LaneInv, InConn
  <2>2. /\ AnsweredOnce' /\ DispatchedIdsEchoed'
        /\ \A r : Answered(r)' <=> Answered(r) \/ r = chand[o].req
    BY <1>7, <2>1, HeadAnswers DEF ConnWritesHead, AskedInv
  <2>3. \A p \in Conns \ {o} : ~InConn(p, chand[o].req)
    <3>1. \A p \in Conns : InConn(p, chand[o].req) => chand[o].req \in Sent(p)
      BY DEF TraceInv, Traced, InConn
    <3>2. QED
      BY <2>1, <3>1 DEF NumberInv
  <2>4. /\ \A r : (InConn(o, r)' <=> InConn(o, r)) /\ (Handled(r)' <=> Handled(r))
        /\ cpc'[o] = "sendTail" /\ UNCHANGED inbound
    BY <1>0, <1>2, <1>7 DEF ConnWritesHead, InConn, Handled
  <2>5. OnceInv'
    BY <1>2, <1>3, <1>4, <2>1, <2>2, <2>3, <2>4 DEF AskedInv, OnceInv
  <2>6. QED
    BY <1>1, <2>2, <2>5 DEF AskedInv
<1>8. CASE ConnLetsGo(o) \/ ConnMovesOn(o) \/ ConnLooksUp(o)
  <2>1. AnsweredOnce' /\ DispatchedIdsEchoed' /\ \A r : Answered(r)' <=> Answered(r)
    <3>1. UNCHANGED wire \/ \E resp \in Responses : WriteTail(o, resp)
      BY <1>0, <1>8 DEF ConnLetsGo, ConnMovesOn, ConnLooksUp, ioVars
    <3>2. QED
      BY <3>1, NoHeadAnswers DEF AskedInv
  <2>2. /\ \A r : ~InConn(o, r)'
        /\ \A r : Handled(r)' <=> Handled(r)
        /\ UNCHANGED inbound
    BY <1>0, <1>2, <1>8 DEF ConnLetsGo, ConnMovesOn, ConnLooksUp, InConn, Handled
  <2>3. OnceInv'
    BY <1>2, <1>3, <1>4, <2>1, <2>2 DEF AskedInv, OnceInv
  <2>4. QED
    BY <1>1, <2>1, <2>3 DEF AskedInv
<1>9. QED
  BY <1>5, <1>6, <1>7, <1>8, ConnEffect

LEMMA GameAskedInv ==
  ASSUME TInv, NumberInv, TraceInv, AskedInv, GameThread \/ Restart \/ Unload
  PROVE  AskedInv'
<1>0. /\ inbound \in Seq(Requests) /\ gtarget \in Conns \cup {None}
      /\ ghand \in Responses \cup {NoResponse} /\ (ghand # NoResponse <=> gpc \in Answering)
      /\ gpc \in {"respond", "send", "sendTail"} <=> gtarget # None
      /\ \A resp \in Responses : resp.req \in Requests /\ resp # NoResponse
  BY ResponseFacts DEF TInv, TypeOK, HandInv, Responses
<1>1. UNCHANGED <<stream, handled, cpc, chand>>
  BY GameEffect DEF notGame, threadVars, clientVars
<1>2. /\ \A r : Handled(r)' <=> Handled(r)
      /\ \A p \in Conns : Frame(p)' = Frame(p) /\ \A r : InConn(p, r)' <=> InConn(p, r)
  BY <1>1 DEF Handled, Frame, InConn
<1>3. LaneAOnGameThread'
  <2>1. CASE DrainOne
    <3>1. /\ ranOn \in [Requests -> Lanes]
          /\ \/ UNCHANGED ranOn
             \/ \E r : ranOn' = [ranOn EXCEPT ![r] = "gameThread"]
      BY <2>1 DEF DrainOne, DrainHead, Dispatched, TInv, TypeOK
    <3>2. \A r \in Requests : ranOn'[r] = "gameThread" \/ ranOn'[r] = ranOn[r]
      BY <3>1
    <3>3. QED
      BY <3>2 DEF AskedInv, LaneAOnGameThread
  <2>2. CASE ~DrainOne
    <3>1. UNCHANGED ranOn
      BY <2>2 DEF GameThread, EndFrame, Stop, Bind, Listen, Restart, Unload, StopListening,
         JoinListener, Register, BeginFrame, DrainEnds, Unregister, StopEnds, Changes,
         RegisterPython, RegisterMethods, UnregisterPython, UnregisterMethods, LookUp, Respond,
         RespondHead, RespondTail, Collect, TakeConnections, SignalAll, Reap, dispatchVars
    <3>2. QED
      BY <3>1 DEF AskedInv, LaneAOnGameThread
  <2>3. QED
    BY <2>1, <2>2
<1>4. CASE TakesRequest
  <2>1. /\ Head(inbound) \in Requests /\ ghand' \in Responses
        /\ ghand'.req = Head(inbound) /\ Echoed(ghand')
    <3>1. Head(inbound) \in Requests
      BY <1>0, <1>4 DEF TakesRequest
    <3>2. QED
      BY <1>4, <3>1, ResponseFacts DEF TakesRequest, Echoed
  <2>2. /\ IsInjective(inbound') /\ Head(inbound) \in Range(inbound)
        /\ Range(inbound') = Range(inbound) \ {Head(inbound)}
    BY <1>0, <1>4, TailFresh DEF TakesRequest, AskedInv, OnceInv
  <2>3. AnsweredOnce' /\ DispatchedIdsEchoed' /\ \A r : Answered(r)' <=> Answered(r)
    BY <1>4, NoHeadAnswers DEF TakesRequest, AskedInv
  <2>4. \A r : InGame(r)' <=> r = Head(inbound)
    BY <1>0, <2>1 DEF InGame
  <2>5. LaneInv'
    BY <1>1, <1>2, <2>1 DEF AskedInv, LaneInv, Echoed
  <2>6. OnceInv'
    BY <1>1, <1>2, <2>1, <2>2, <2>3, <2>4 DEF AskedInv, OnceInv
  <2>7. QED
    BY <1>3, <2>3, <2>5, <2>6 DEF AskedInv
<1>5. CASE GameWritesHead
  <2>1. /\ ghand \in Responses /\ gtarget \in Conns /\ gpc # "sendTail" /\ InGame(ghand.req)
        /\ ghand.req \in Requests
    BY <1>0, <1>5 DEF GameWritesHead, InGame, Answering
  <2>2. /\ ~Answered(ghand.req) /\ Echoed(ghand) /\ Handled(ghand.req)
        /\ ghand.req \notin Range(inbound) /\ \A p \in Conns : ~InConn(p, ghand.req)
    BY <2>1 DEF AskedInv, OnceInv, LaneInv, InGame
  <2>3. /\ AnsweredOnce' /\ DispatchedIdsEchoed'
        /\ \A r : Answered(r)' <=> Answered(r) \/ r = ghand.req
    BY <1>5, <2>1, <2>2, HeadAnswers DEF GameWritesHead, AskedInv
  <2>4. /\ \A r : InGame(r)' <=> InGame(r)
        /\ gpc' = "sendTail" /\ UNCHANGED <<inbound, ghand>>
    BY <1>5 DEF GameWritesHead, InGame
  <2>5. LaneInv'
    BY <1>1, <1>2, <2>4 DEF AskedInv, LaneInv, Echoed
  <2>6. OnceInv'
    BY <1>1, <1>2, <2>2, <2>3, <2>4 DEF AskedInv, OnceInv, InGame
  <2>7. QED
    BY <1>3, <2>3, <2>5, <2>6 DEF AskedInv
<1>6. CASE FindsTarget \/ GetsReady \/ GameLetsGo \/ GameMovesOn
  <2>1. AnsweredOnce' /\ DispatchedIdsEchoed' /\ \A r : Answered(r)' <=> Answered(r)
    <3>1. UNCHANGED wire \/ \E p \in Conns, resp \in Responses : WriteTail(p, resp)
      BY <1>0, <1>6 DEF FindsTarget, GetsReady, GameLetsGo, GameMovesOn, ioVars, Answering
    <3>2. QED
      BY <3>1, NoHeadAnswers DEF AskedInv
  <2>2. /\ UNCHANGED inbound
        /\ ghand' = NoResponse \/ (UNCHANGED ghand /\ (gpc = "sendTail" => gpc' = "sendTail"))
    BY <1>6 DEF FindsTarget, GetsReady, GameLetsGo, GameMovesOn, Answering
  <2>3. /\ \A r : InGame(r)' => InGame(r)
        /\ \A r : InGame(r)' /\ gpc' # "sendTail" => gpc # "sendTail"
    BY <2>2 DEF InGame
  <2>4. LaneInv'
    BY <1>1, <1>2, <2>2 DEF AskedInv, LaneInv, Echoed
  <2>5. OnceInv'
    BY <1>1, <1>2, <2>1, <2>2, <2>3 DEF AskedInv, OnceInv
  <2>6. QED
    BY <1>3, <2>1, <2>4, <2>5 DEF AskedInv
<1>7. QED
  BY <1>4, <1>5, <1>6, GameEffect

LEMMA NextAskedInv == TInv /\ OwnInv /\ AskedInv /\ [Next]_vars => AskedInv'
<1>1. TInv /\ AskedInv /\ UNCHANGED vars => AskedInv'
  <2> SUFFICES ASSUME TInv, AskedInv, UNCHANGED vars PROVE AskedInv'
    OBVIOUS
  <2>1. UNCHANGED <<stream, inbound, ghand, cpc, chand, wire, handled, ranOn, gpc>>
    BY DEF vars, dispatchVars, threadVars, ioVars, gameVars, clientVars
  <2>2. (\A r : Handled(r)' <=> Handled(r)) /\ \A p \in Conns : Frame(p)' = Frame(p)
    BY <2>1 DEF Handled, Frame
  <2>3. QED
    BY <2>1, <2>2, AskedStutter
<1>2. QED
  BY <1>1, ClientAskedInv, AcceptAskedInv, ConnAskedInv, GameAskedInv DEF Next, OwnInv

\* AnsweredAsAsked, a property of the run BridgeServerLanes: no request is
\* answered twice, by one lane or by both; what touches UObjects or Python runs
\* on the game thread only; an answer bears the id its client chose.
THEOREM AnsweredOnceInItsLane == Spec => []AnsweredAsAsked
<1>1. AskedInv => AnsweredAsAsked
  BY DEF AskedInv, AnsweredAsAsked
<1>2. QED
  BY <1>1, InitTInv, InitOwnInv, InitAskedInv, NextTInv, NextOwnInv, NextAskedInv, PTL DEF Spec

------------------------------------------------------------------------------
(* Lines on a wire.                                                         *)

LineInv == LockInv /\ WholeLines

LEMMA InitLineInv == Init => LineInv
  BY DEF Init, LineInv, LockInv, WholeLines

\* What the writers and their clients leave alone keeps the lines whole.
LEMMA LineStutter ==
  ASSUME TInv, LockInv, WholeLines, UNCHANGED <<wire, sendLock>>, lost \subseteq lost',
         \A o \in Conns :
           /\ cpc'[o] = "sendTail" <=> cpc[o] = "sendTail"
           /\ cpc[o] = "sendTail" => chand'[o] = chand[o],
         gpc' = "sendTail" <=> gpc = "sendTail",
         gpc = "sendTail" => UNCHANGED <<gtarget, ghand>>
  PROVE  LineInv'
<1>1. \A o, resp : HeadLast(o, resp)' <=> HeadLast(o, resp)
  BY DEF HeadLast
<1>2. LockInv'
  BY <1>1 DEF LockInv
<1>3. WholeLines'
  BY DEF WholeLines
<1> QED BY <1>2, <1>3 DEF LineInv

\* The line at one place of a wire, as WholeLines has it.
WholeAt(o, i) ==
  IF wire[o][i].part = "tail"
  THEN i > 1 /\ wire[o][i - 1] = [part |-> "head", resp |-> wire[o][i].resp]
  ELSE \/ i < Len(wire[o]) /\ wire[o][i + 1] = [part |-> "tail", resp |-> wire[o][i].resp]
       \/ i = Len(wire[o]) /\ sendLock[o] = "held"
       \/ wire[o][i].resp.req \in lost

LEMMA WholeLinesAt == WholeLines <=> \A o \in Conns : \A i \in 1..Len(wire[o]) : WholeAt(o, i)
BY DEF WholeLines, WholeAt

\* A line stays whole when its wire and its lock stay, whatever else is lost.
LEMMA WholeStays ==
  ASSUME NEW o \in Conns, NEW i \in 1..Len(wire[o]), WholeAt(o, i),
         wire'[o] = wire[o], sendLock'[o] = sendLock[o], lost \subseteq lost'
  PROVE  WholeAt(o, i)'
BY DEF WholeAt

\* A head is written when the lock is free, so the line before it is whole or
\* was cut by its own Send.
LEMMA HeadKeepsLines ==
  ASSUME TInv, LockInv, WholeLines, NEW o \in Conns, NEW resp \in Responses,
         WriteHead(o, resp, TRUE)
  PROVE  /\ WholeLines' /\ HeadLast(o, resp)'
         /\ sendLock[o] = "nobody" /\ sendLock' = [sendLock EXCEPT ![o] = "held"]
         /\ \A p \in Conns \ {o} : wire'[p] = wire[p]
<1>1. /\ wire'[o][Len(wire[o]) + 1] = [part |-> "head", resp |-> resp]
      /\ \A i \in 1..Len(wire[o]) : wire'[o][i] = wire[o][i]
      /\ Len(wire[o]) \in Nat /\ Len(wire'[o]) = Len(wire[o]) + 1
      /\ \A p \in Conns \ {o} : wire'[p] = wire[p]
  BY HeadWritten
<1>2. /\ sendLock[o] = "nobody" /\ sendLock' = [sendLock EXCEPT ![o] = "held"]
      /\ UNCHANGED lost
  BY DEF WriteHead, Writes, SendLockFree
<1>3. /\ wire \in [Conns -> Seq(Lines)] /\ wire' \in [Conns -> Seq(Lines)]
      /\ sendLock \in [Conns -> {"nobody", "held"}]
  BY WriteTypes DEF TInv, HandInv
<1>4. HeadLast(o, resp)'
  BY <1>1, <1>3 DEF HeadLast
<1>5. \A p \in Conns : \A i \in 1..Len(wire[p]) : WholeAt(p, i)
  BY WholeLinesAt
<1>6. WholeLines'
  <2> SUFFICES ASSUME NEW p \in Conns, NEW i \in 1..Len(wire'[p]) PROVE WholeAt(p, i)'
    BY DEF WholeLines, WholeAt
  <2>1. CASE p # o
    BY <1>1, <1>2, <1>3, <1>5, <2>1, WholeStays
  <2>2. CASE p = o /\ i = Len(wire[o]) + 1
    <3>1. wire'[o][i].part = "head" /\ i = Len(wire'[o]) /\ sendLock'[o] = "held"
      BY <1>1, <1>2, <1>3, <2>2
    <3>2. QED
      BY <2>2, <3>1 DEF WholeAt
  <2>3. CASE p = o /\ i # Len(wire[o]) + 1
    <3>1. i \in 1..Len(wire[o]) /\ WholeAt(o, i)
      BY <1>1, <1>5, <2>3
    <3>2. i > 1 => i - 1 \in 1..Len(wire[o])
      BY <1>1, <3>1
    <3>3. i < Len(wire[o]) => i + 1 \in 1..Len(wire[o]) /\ i < Len(wire'[o])
      BY <1>1, <3>1
    <3>4. wire'[o][i] = wire[o][i]
      BY <1>1, <3>1
    <3>5. QED
      BY <1>1, <1>2, <2>3, <3>1, <3>2, <3>3, <3>4 DEF WholeAt
  <2>4. QED
    BY <2>1, <2>2, <2>3
<1>7. QED
  BY <1>1, <1>2, <1>4, <1>6

\* A tail follows its head, or its Send failed and the line stays cut.
LEMMA TailKeepsLines ==
  ASSUME TInv, LockInv, WholeLines, NEW o \in Conns, NEW resp \in Responses,
         WriteTail(o, resp), HeadLast(o, resp)
  PROVE  /\ WholeLines'
         /\ sendLock' = [sendLock EXCEPT ![o] = "nobody"]
         /\ \A p \in Conns \ {o} : wire'[p] = wire[p]
<1>1. /\ wire \in [Conns -> Seq(Lines)] /\ [part |-> "tail", resp |-> resp] \in Lines
      /\ sendLock \in [Conns -> {"nobody", "held"}]
  BY DEF TInv, HandInv, Lines
<1>2. sendLock' = [sendLock EXCEPT ![o] = "nobody"]
  BY DEF WriteTail
<1>3. /\ Len(wire[o]) \in Nat /\ Len(wire[o]) \in 1..Len(wire[o])
      /\ wire[o][Len(wire[o])] = [part |-> "head", resp |-> resp]
  BY <1>1 DEF HeadLast
<1>4. \A p \in Conns : \A i \in 1..Len(wire[p]) : WholeAt(p, i)
  BY WholeLinesAt
<1>5. CASE SendFails(resp)
  <2>1. UNCHANGED wire /\ lost' = lost \cup {resp.req}
    BY <1>5 DEF SendFails
  <2>2. WholeLines'
    <3> SUFFICES ASSUME NEW p \in Conns, NEW i \in 1..Len(wire[p]) PROVE WholeAt(p, i)'
      BY <2>1 DEF WholeLines, WholeAt
    <3>1. CASE p # o
      BY <1>1, <1>2, <1>4, <2>1, <3>1, WholeStays
    <3>2. CASE p = o /\ i = Len(wire[o])
      <4>1. wire'[o][i].part = "head" /\ wire'[o][i].resp.req \in lost'
        BY <1>3, <2>1, <3>2
      <4>2. QED
        BY <3>2, <4>1 DEF WholeAt
    <3>3. CASE p = o /\ i # Len(wire[o])
      BY <1>4, <2>1, <3>3 DEF WholeAt
    <3>4. QED
      BY <3>1, <3>2, <3>3
  <2>3. QED
    BY <1>2, <2>1, <2>2
<1>6. CASE Writes(o, "tail", resp)
  <2>1. /\ wire' = [wire EXCEPT ![o] = Append(wire[o], [part |-> "tail", resp |-> resp])]
        /\ UNCHANGED lost
    BY <1>6 DEF Writes
  <2>2. /\ wire'[o] = Append(wire[o], [part |-> "tail", resp |-> resp])
        /\ \A p \in Conns \ {o} : wire'[p] = wire[p]
    BY <1>1, <2>1
  <2>3. /\ Len(wire'[o]) = Len(wire[o]) + 1
        /\ \A i \in 1..Len(wire[o]) : wire'[o][i] = wire[o][i]
        /\ wire'[o][Len(wire[o]) + 1] = [part |-> "tail", resp |-> resp]
    BY <1>1, <2>2
  <2>4. WholeLines'
    <3> SUFFICES ASSUME NEW p \in Conns, NEW i \in 1..Len(wire'[p]) PROVE WholeAt(p, i)'
      BY DEF WholeLines, WholeAt
    <3>1. CASE p # o
      BY <1>1, <1>2, <1>4, <2>1, <2>2, <3>1, WholeStays
    <3>2. CASE p = o /\ i = Len(wire[o]) + 1
      <4>1. i - 1 = Len(wire[o]) /\ i > 1
        BY <1>3, <3>2
      <4>2. /\ wire'[o][i].part = "tail" /\ wire'[o][i].resp = resp
            /\ wire'[o][i - 1] = [part |-> "head", resp |-> resp]
        BY <1>3, <2>3, <3>2, <4>1
      <4>3. QED
        BY <3>2, <4>1, <4>2 DEF WholeAt
    <3>3. CASE p = o /\ i = Len(wire[o])
      <4>1. /\ wire'[o][i].part = "head" /\ wire'[o][i].resp = resp
            /\ i < Len(wire'[o]) /\ wire'[o][i + 1] = [part |-> "tail", resp |-> resp]
        BY <1>3, <2>3, <3>3
      <4>2. QED
        BY <3>3, <4>1 DEF WholeAt
    <3>4. CASE p = o /\ i # Len(wire[o]) /\ i # Len(wire[o]) + 1
      <4>1. i \in 1..Len(wire[o]) /\ WholeAt(o, i) /\ i < Len(wire[o])
        BY <1>3, <1>4, <2>3, <3>4
      <4>2. /\ i > 1 => i - 1 \in 1..Len(wire[o])
            /\ i + 1 \in 1..Len(wire[o]) /\ i < Len(wire'[o])
        BY <1>3, <2>3, <4>1
      <4>3. wire'[o][i] = wire[o][i] /\ wire'[o][i + 1] = wire[o][i + 1]
        BY <2>3, <4>1, <4>2
      <4>4. QED
        BY <2>1, <2>3, <3>4, <4>1, <4>2, <4>3 DEF WholeAt
    <3>5. QED
      BY <3>1, <3>2, <3>3, <3>4
  <2>5. QED
    BY <1>2, <2>2, <2>4
<1>7. QED
  BY <1>5, <1>6 DEF WriteTail

LEMMA ConnLineInv ==
  ASSUME TInv, LockInv, WholeLines, NEW o \in Conns, ConnThread(o)
  PROVE  LineInv'
<1>0. /\ cpc \in [Conns -> ConnSteps] /\ chand \in [Conns -> Responses \cup {NoResponse}]
      /\ sendLock \in [Conns -> {"nobody", "held"}]
      /\ \A p \in Conns : cpc[p] \in {"send", "sendTail"} <=> chand[p] # NoResponse
  BY DEF TInv, TypeOK, HandInv
<1>1. UNCHANGED <<gpc, gtarget, ghand, client>>
  BY ConnEffect DEF notConn, clientVars, gameVars
<1>2. CASE AnswersFrame(o) \/ QueuesFrame(o) \/ ConnMovesOn(o) \/ ConnLooksUp(o)
  <2>1. /\ UNCHANGED <<wire, lost, sendLock>>
        /\ \A p \in Conns : /\ cpc'[p] = "sendTail" <=> cpc[p] = "sendTail"
                            /\ cpc[p] = "sendTail" => chand'[p] = chand[p]
    BY <1>0, <1>2 DEF AnswersFrame, QueuesFrame, ConnMovesOn, ConnLooksUp
  <2>2. QED
    BY <1>1, <2>1, LineStutter
<1>3. CASE ConnWritesHead(o)
  <2>1. chand[o] \in Responses /\ WriteHead(o, chand[o], TRUE)
    BY <1>0, <1>3 DEF ConnWritesHead
  <2>2. PICK resp \in Responses : resp = chand[o]
    BY <2>1
  <2>3. /\ WholeLines' /\ HeadLast(o, resp)'
        /\ sendLock[o] = "nobody" /\ sendLock' = [sendLock EXCEPT ![o] = "held"]
        /\ \A p \in Conns \ {o} : wire'[p] = wire[p]
    BY <2>1, <2>2, HeadKeepsLines
  <2>4. cpc' = [cpc EXCEPT ![o] = "sendTail"] /\ UNCHANGED chand
    BY <1>3 DEF ConnWritesHead
  <2>5. LockInv'
    BY <1>0, <1>1, <2>2, <2>3, <2>4 DEF LockInv, HeadLast
  <2>6. QED
    BY <2>3, <2>5 DEF LineInv
<1>4. CASE ConnLetsGo(o)
  <2>1. cpc'[o] # "sendTail" /\ \A p \in Conns \ {o} : cpc'[p] = cpc[p] /\ chand'[p] = chand[p]
    BY <1>0, <1>4 DEF ConnLetsGo
  <2>2. CASE cpc[o] = "send" /\ UNCHANGED <<wire, sendLock>> /\ lost \subseteq lost'
    BY <1>1, <2>1, <2>2, LineStutter
  <2>3. CASE cpc[o] = "sendTail" /\ WriteTail(o, chand[o])
    <3>1. chand[o] \in Responses /\ HeadLast(o, chand[o])
      BY <1>0, <2>3 DEF LockInv
    <3>2. /\ WholeLines' /\ sendLock' = [sendLock EXCEPT ![o] = "nobody"]
          /\ \A p \in Conns \ {o} : wire'[p] = wire[p]
      BY <2>3, <3>1, TailKeepsLines
    <3>3. ~(gpc = "sendTail" /\ gtarget = o) /\ sendLock'[o] = "nobody"
      BY <1>0, <2>3, <3>2 DEF LockInv
    <3>4. \A p \in Conns \ {o} : sendLock'[p] = sendLock[p]
      BY <1>0, <3>2
    <3>5. LockInv'
      <4>1. SUFFICES ASSUME NEW p \in Conns
                     PROVE  /\ sendLock'[p] = "held" <=>
                                 \/ cpc'[p] = "sendTail"
                                 \/ gpc' = "sendTail" /\ gtarget' = p
                            /\ cpc'[p] = "sendTail" =>
                                 ~(gpc' = "sendTail" /\ gtarget' = p) /\ HeadLast(p, chand[p])'
                            /\ gpc' = "sendTail" /\ gtarget' = p => HeadLast(p, ghand)'
        BY DEF LockInv
      <4>2. CASE p = o
        BY <1>1, <2>1, <3>2, <3>3, <4>2
      <4>3. CASE p # o
        BY <1>1, <2>1, <3>2, <3>4, <4>3 DEF LockInv, HeadLast
      <4>4. QED
        BY <4>2, <4>3
    <3>6. QED
      BY <3>2, <3>5 DEF LineInv
  <2>4. QED
    BY <1>4, <2>2, <2>3 DEF ConnLetsGo
<1>5. QED
  BY <1>2, <1>3, <1>4, ConnEffect

LEMMA GameLineInv ==
  ASSUME TInv, LockInv, WholeLines, GameThread \/ Restart \/ Unload
  PROVE  LineInv'
<1>0. /\ sendLock \in [Conns -> {"nobody", "held"}] /\ None \notin Conns
      /\ gtarget \in Conns \cup {None} /\ ghand \in Responses \cup {NoResponse}
      /\ ghand # NoResponse <=> gpc \in Answering
      /\ gpc \in {"respond", "send", "sendTail"} <=> gtarget # None
  BY ServerAssumption DEF TInv, TypeOK, HandInv, None, Conns
<1>1. UNCHANGED <<cpc, chand, client>>
  BY GameEffect DEF notGame, threadVars, clientVars
<1>2. CASE TakesRequest \/ FindsTarget \/ GetsReady \/ GameMovesOn
  <2>1. UNCHANGED <<wire, lost, sendLock>> /\ gpc # "sendTail" /\ gpc' # "sendTail"
    BY <1>2 DEF TakesRequest, FindsTarget, GetsReady, GameMovesOn, Answering
  <2>2. QED
    BY <1>1, <2>1, LineStutter
<1>3. CASE GameWritesHead
  <2>1. PICK o \in Conns, resp \in Responses : o = gtarget /\ resp = ghand
    BY <1>0, <1>3 DEF GameWritesHead, Answering
  <2>2. WriteHead(o, resp, TRUE)
    BY <1>3, <2>1 DEF GameWritesHead
  <2>3. /\ WholeLines' /\ HeadLast(o, resp)'
        /\ sendLock[o] = "nobody" /\ sendLock' = [sendLock EXCEPT ![o] = "held"]
        /\ \A p \in Conns \ {o} : wire'[p] = wire[p]
    BY <2>2, HeadKeepsLines
  <2>4. gpc = "send" /\ gpc' = "sendTail" /\ UNCHANGED <<ghand, gtarget>>
    BY <1>3 DEF GameWritesHead
  <2>5. LockInv'
    BY <1>0, <1>1, <2>1, <2>3, <2>4 DEF LockInv, HeadLast
  <2>6. QED
    BY <2>3, <2>5 DEF LineInv
<1>4. CASE GameLetsGo
  <2>1. gpc' # "sendTail"
    BY <1>4 DEF GameLetsGo
  <2>2. CASE gpc # "sendTail" /\ UNCHANGED <<wire, sendLock>> /\ lost \subseteq lost'
    BY <1>1, <2>1, <2>2, LineStutter
  <2>3. CASE gpc = "sendTail" /\ WriteTail(gtarget, ghand)
    <3>1. PICK o \in Conns, resp \in Responses : o = gtarget /\ resp = ghand
      BY <1>0, <2>3 DEF Answering
    <3>2. WriteTail(o, resp) /\ HeadLast(o, resp)
      BY <2>3, <3>1 DEF LockInv
    <3>3. /\ WholeLines' /\ sendLock' = [sendLock EXCEPT ![o] = "nobody"]
          /\ \A p \in Conns \ {o} : wire'[p] = wire[p]
      BY <3>2, TailKeepsLines
    <3>4. LockInv'
      BY <1>0, <1>1, <2>1, <2>3, <3>1, <3>3 DEF LockInv, HeadLast
    <3>5. QED
      BY <3>3, <3>4 DEF LineInv
  <2>4. QED
    BY <1>4, <2>2, <2>3 DEF GameLetsGo
<1>5. QED
  BY <1>2, <1>3, <1>4, GameEffect

LEMMA NextLineInv == TInv /\ LineInv /\ [Next]_vars => LineInv'
<1> SUFFICES ASSUME TInv, LineInv, [Next]_vars PROVE LineInv'
  OBVIOUS
<1>0. LockInv /\ WholeLines
  BY DEF LineInv
<1>1. ASSUME NEW o \in Conns, Client(o) \/ Accept(o) PROVE LineInv'
  <2>1. UNCHANGED <<wire, lost, sendLock, cpc, chand, gpc, gtarget, ghand>>
    BY <1>1 DEF Client, ClientWrites, ClientStalls, ClientResumes, ClientHalfCloses, ClientVanishes,
       BecomesClient, Accept, threadVars, ioVars, gameVars
  <2>2. QED
    BY <1>0, <2>1, LineStutter
<1>2. CASE AcceptThread
  <2>1. /\ UNCHANGED <<wire, lost, sendLock, chand, gpc, gtarget, ghand, client>>
        /\ UNCHANGED cpc \/ SpawnThread
    BY <1>2 DEF AcceptThread, CheckListening, AddConnection, SpawnThread, SpawnFails, SetThread,
       Refuse, threadVars, ioVars, gameVars, clientVars
  <2>2. \A o \in Conns : cpc'[o] = "sendTail" <=> cpc[o] = "sendTail"
    BY <2>1 DEF SpawnThread, TInv, TypeOK, HandInv
  <2>3. QED
    BY <1>0, <2>1, <2>2, LineStutter
<1>3. CASE UNCHANGED vars
  BY <1>0, <1>3, LineStutter DEF vars, threadVars, ioVars, gameVars, clientVars
<1>4. QED
  BY <1>0, <1>1, <1>2, <1>3, ConnLineInv, GameLineInv DEF Next

\* WholeLines, a property of the run BridgeServerLanes: SendLock keeps the lines
\* apart that the game thread and the connection's thread write to one socket;
\* a line that is not whole was cut by its own Send, or is being sent.
THEOREM LinesStayWhole == Spec => []WholeLines
<1>1. LineInv => WholeLines
  BY DEF LineInv
<1>2. QED
  BY <1>1, InitTInv, InitLineInv, NextTInv, NextLineInv, PTL DEF Spec

------------------------------------------------------------------------------
(* The order of the answers of the queue.                                   *)

\* A union has as many elements as its parts at most.
LEMMA UnionCount ==
  ASSUME NEW S, NEW T, IsFiniteSet(S), IsFiniteSet(T)
  PROVE  /\ IsFiniteSet(S \cup T)
         /\ Cardinality(S \cup T) <= Cardinality(S) + Cardinality(T)
<1>1. /\ IsFiniteSet(S \cup T) /\ IsFiniteSet(S \cap T)
      /\ Cardinality(S \cup T) = Cardinality(S) + Cardinality(T) - Cardinality(S \cap T)
  BY FS_Union, FS_Intersection
<1>2. /\ Cardinality(S) \in Nat /\ Cardinality(T) \in Nat /\ Cardinality(S \cap T) \in Nat
  BY <1>1, FS_CardinalityType
<1>3. QED
  BY <1>1, <1>2

\* Two sets that have as many elements apart as together have none in common.
LEMMA DisjointByCount ==
  ASSUME NEW S, NEW T, IsFiniteSet(S), IsFiniteSet(T),
         Cardinality(S \cup T) >= Cardinality(S) + Cardinality(T)
  PROVE  S \cap T = {}
<1>1. /\ Cardinality(S \cup T) = Cardinality(S) + Cardinality(T) - Cardinality(S \cap T)
      /\ IsFiniteSet(S \cap T)
  BY FS_Union, FS_Intersection
<1>2. /\ Cardinality(S) \in Nat /\ Cardinality(T) \in Nat /\ Cardinality(S \cap T) \in Nat
  BY <1>1, FS_CardinalityType
<1>3. Cardinality(S \cap T) = 0
  BY <1>1, <1>2
<1>4. QED
  BY <1>1, <1>3, FS_EmptySet

\* A request is of one kind: the requests of the queue are neither of lane B
\* nor rejected.
LEMMA KindsApart == Queued \cap (LaneB \cup Rejected) = {}
<1>1. /\ IsFiniteSet(LaneA) /\ IsFiniteSet(LaneB) /\ IsFiniteSet(OtherKind)
      /\ IsFiniteSet(Exec) /\ IsFiniteSet(Unmatched) /\ IsFiniteSet(BadKind)
      /\ IsFiniteSet(Malformed) /\ IsFiniteSet(Huge)
  BY RequestsAssumption, FS_Subset DEF Requests
<1> DEFINE A2 == LaneA \cup OtherKind
           A3 == A2 \cup Exec
           A4 == A3 \cup Unmatched
           B2 == BadKind \cup Malformed
           B3 == B2 \cup Huge
           B4 == LaneB \cup B3
<1>2. /\ IsFiniteSet(A2) /\ Cardinality(A2) <= Cardinality(LaneA) + Cardinality(OtherKind)
      /\ IsFiniteSet(B2) /\ Cardinality(B2) <= Cardinality(BadKind) + Cardinality(Malformed)
  BY <1>1, UnionCount
<1>3. /\ IsFiniteSet(A3) /\ Cardinality(A3) <= Cardinality(A2) + Cardinality(Exec)
      /\ IsFiniteSet(B3) /\ Cardinality(B3) <= Cardinality(B2) + Cardinality(Huge)
  BY <1>1, <1>2, UnionCount
<1>4. /\ IsFiniteSet(A4) /\ Cardinality(A4) <= Cardinality(A3) + Cardinality(Unmatched)
      /\ IsFiniteSet(B4) /\ Cardinality(B4) <= Cardinality(LaneB) + Cardinality(B3)
  BY <1>1, <1>3, UnionCount
<1>5. A4 \cup B4 = Requests
  BY DEF Requests
<1>6. /\ Cardinality(LaneA) \in Nat /\ Cardinality(LaneB) \in Nat
      /\ Cardinality(OtherKind) \in Nat /\ Cardinality(Exec) \in Nat
      /\ Cardinality(Unmatched) \in Nat /\ Cardinality(BadKind) \in Nat
      /\ Cardinality(Malformed) \in Nat /\ Cardinality(Huge) \in Nat
      /\ Cardinality(A2) \in Nat /\ Cardinality(A3) \in Nat /\ Cardinality(A4) \in Nat
      /\ Cardinality(B2) \in Nat /\ Cardinality(B3) \in Nat /\ Cardinality(B4) \in Nat
  BY <1>1, <1>2, <1>3, <1>4, FS_CardinalityType
<1> HIDE DEF A2, A3, A4, B2, B3, B4
<1>7. Cardinality(A4 \cup B4) >= Cardinality(A4) + Cardinality(B4)
  <2>1. Cardinality(A4 \cup B4) = Cardinality(Requests)
    BY <1>5
  <2>2. Cardinality(Requests) =
          Cardinality(LaneA) + Cardinality(LaneB) + Cardinality(OtherKind)
          + Cardinality(Exec) + Cardinality(Unmatched) + Cardinality(BadKind)
          + Cardinality(Malformed) + Cardinality(Huge)
    BY RequestsAssumption
  <2>3. QED
    BY <1>2, <1>3, <1>4, <1>6, <2>1, <2>2
<1>8. A4 \cap B4 = {}
  BY <1>4, <1>7, DisjointByCount
<1>9. QED
  BY <1>8 DEF A2, A3, A4, B2, B3, B4, Queued, Rejected

LEMMA InitOrderInv == Init => OrderInv
<1> SUFFICES ASSUME Init PROVE OrderInv
  OBVIOUS
<1>1. \A o \in Conns : Sent(o) = {} /\ Heads(o) = {}
  BY DEF Init, Sent, Heads
<1>2. Len(inbound) = 0
  BY DEF Init, DispatchInit
<1>3. QED
  BY <1>1, <1>2 DEF OrderInv, QueueOrder, HandOrder, WireQueueOrder, WireHandOrder, WireOrder

\* The requests in the queue, in Drain's hand and on a wire were written by
\* clients.
LEMMA WrittenByClients ==
  ASSUME TInv, TraceInv, AnswerToOwner
  PROVE  /\ \A k \in 1..Len(inbound) : \E p \in Conns : inbound[k] \in Sent(p)
         /\ \A r : InGame(r) => \E p \in Conns : r \in Sent(p)
         /\ \A o \in Conns : \A q : OnWire(o, q) => q \in Sent(o)
<1>1. ASSUME NEW k \in 1..Len(inbound) PROVE \E p \in Conns : inbound[k] \in Sent(p)
  <2>1. inbound \in Seq(Requests)
    BY DEF TInv, TypeOK
  <2>2. inbound[k] \in Range(inbound)
    BY <2>1 DEF Range
  <2>3. QED
    BY <2>2 DEF TraceInv, Traced
<1>2. QED
  BY <1>1 DEF TraceInv, Traced, InGame, AnswerToOwner, OnWire

\* A step that writes no head and leaves the queue alone keeps the order.
LEMMA OrderKept ==
  ASSUME TInv, TraceInv, AnswerToOwner, OrderInv, UNCHANGED inbound,
         \A o \in Conns : /\ Heads(o)' = Heads(o) /\ AnswersOn(o)' = AnswersOn(o)
                          /\ \A i \in Heads(o) : wire'[o][i] = wire[o][i],
         \A r : InGame(r)' => InGame(r) /\ (gpc' # "sendTail" => gpc # "sendTail"),
         \A o \in Conns : \A r \in Sent(o)' : r \in Sent(o) \/ \A p \in Conns : r \notin Sent(p),
         \A o \in Conns : \A q, r : Before(o, q, r) => Before(o, q, r)'
  PROVE  OrderInv'
<1> SUFFICES ASSUME NEW o \in Conns
             PROVE  /\ QueueOrder(o)' /\ HandOrder(o)' /\ WireQueueOrder(o)'
                    /\ WireHandOrder(o)' /\ WireOrder(o)'
  BY DEF OrderInv
<1>1. /\ \A k \in 1..Len(inbound) : inbound[k] \in Sent(o)' => inbound[k] \in Sent(o)
      /\ \A r \in Sent(o)' : InGame(r) => r \in Sent(o)
      /\ \A q : OnWire(o, q) => q \in Sent(o)
  BY WrittenByClients
<1>2. \A q : OnWire(o, q)' <=> OnWire(o, q)
  BY DEF OnWire
<1>3. QueueOrder(o)'
  BY <1>1 DEF OrderInv, QueueOrder
<1>4. HandOrder(o)'
  BY <1>1 DEF OrderInv, HandOrder
<1>5. WireQueueOrder(o)'
  BY <1>1, <1>2 DEF OrderInv, WireQueueOrder
<1>6. WireHandOrder(o)'
  BY <1>1, <1>2 DEF OrderInv, WireHandOrder
<1>7. WireOrder(o)'
  BY DEF OrderInv, WireOrder
<1>8. QED
  BY <1>3, <1>4, <1>5, <1>6, <1>7

\* What was handled comes before the frame that is handled next.
LEMMA FrameComesLast ==
  ASSUME TInv, NumberInv, NEW o \in Conns, handled[o] < recvd[o],
         NEW q \in Sent(o), Handled(q)
  PROVE  Before(o, q, Frame(o))
<1>1. PICK p \in Conns : \E i \in 1..handled[p] : stream[p][i] = q
  BY DEF Handled
<1>2. PICK i \in 1..handled[p] : stream[p][i] = q
  BY <1>1
<1>3. /\ handled[p] \in Nat /\ recvd[p] \in Nat /\ Len(stream[p]) \in Nat
      /\ handled[p] <= recvd[p] /\ recvd[p] <= Len(stream[p])
  BY DEF TInv, TypeOK, HandInv
<1>4. i \in 1..Len(stream[p])
  BY <1>3
<1>5. q \in Sent(p)
  BY <1>2, <1>4 DEF Sent
<1>6. p = o
  BY <1>5 DEF NumberInv
<1>7. handled[o] + 1 \in 1..Len(stream[o]) /\ i < handled[o] + 1
  BY <1>3, <1>6, FrameFresh
<1>8. QED
  BY <1>2, <1>4, <1>6, <1>7 DEF Before, Frame

LEMMA ConnOrderInv ==
  ASSUME TInv, NumberInv, TraceInv, AnswerToOwner, OnceInv, LaneInv, OrderInv,
         NEW o \in Conns, ConnThread(o)
  PROVE  OrderInv'
<1>0. /\ cpc \in [Conns -> ConnSteps] /\ chand \in [Conns -> Responses \cup {NoResponse}]
      /\ inbound \in Seq(Requests)
      /\ \A p \in Conns : cpc[p] \in {"send", "sendTail"} <=> chand[p] # NoResponse
      /\ \A resp \in Responses : resp.req \in Requests
  BY DEF TInv, TypeOK, HandInv, Responses
<1>1. UNCHANGED <<stream, gpc, ghand>>
  BY ConnEffect DEF notConn, clientVars, gameVars
<1>2. /\ \A p \in Conns : Sent(p)' = Sent(p)
      /\ \A p \in Conns : \A q, r : Before(p, q, r)' <=> Before(p, q, r)
      /\ \A r : InGame(r)' <=> InGame(r)
  BY <1>1 DEF Sent, Before, InGame
<1>3. CASE AnswersFrame(o) \/ ConnMovesOn(o) \/ ConnLooksUp(o)
  <2>1. UNCHANGED <<inbound, wire>>
    BY <1>3 DEF AnswersFrame, ConnMovesOn, ConnLooksUp
  <2>2. \A p \in Conns : Heads(p)' = Heads(p) /\ AnswersOn(p)' = AnswersOn(p)
    BY <2>1 DEF Heads, AnswersOn
  <2>3. QED
    BY <1>1, <1>2, <2>1, <2>2, OrderKept
<1>4. CASE ConnLetsGo(o)
  <2>1. UNCHANGED inbound
    BY <1>4 DEF ConnLetsGo
  <2>2. \A p \in Conns : /\ Heads(p)' = Heads(p) /\ AnswersOn(p)' = AnswersOn(p)
                         /\ \A i \in Heads(p) : wire'[p][i] = wire[p][i]
    <3>1. CASE UNCHANGED wire
      BY <3>1 DEF Heads, AnswersOn
    <3>2. CASE cpc[o] = "sendTail" /\ WriteTail(o, chand[o])
      BY <1>0, <3>2, TailWritten DEF Heads
    <3>3. QED
      BY <1>4, <3>1, <3>2 DEF ConnLetsGo
  <2>3. QED
    BY <1>1, <1>2, <2>1, <2>2, OrderKept
<1>5. CASE QueuesFrame(o)
  <2>1. /\ handled[o] < recvd[o] /\ inbound' = Append(inbound, Frame(o)) /\ UNCHANGED wire
    BY <1>5 DEF QueuesFrame
  <2>2. Frame(o) \in Requests /\ Frame(o) \in Sent(o)
    BY <2>1, FrameFresh
  <2>3. /\ Len(inbound) \in Nat /\ Len(inbound') = Len(inbound) + 1
        /\ \A k \in 1..Len(inbound) : inbound'[k] = inbound[k]
        /\ inbound'[Len(inbound) + 1] = Frame(o)
    BY <1>0, <2>1, <2>2
  <2>4. \A p \in Conns : Heads(p)' = Heads(p) /\ AnswersOn(p)' = AnswersOn(p)
    BY <2>1 DEF Heads, AnswersOn
  <2>5. \A p \in Conns : \A q : OnWire(p, q)' <=> OnWire(p, q)
    BY <2>4 DEF OnWire
  <2>6. \A q \in Sent(o) : Handled(q) => Before(o, q, Frame(o))
    BY <2>1, FrameComesLast
  <2>7. \A p \in Conns : Frame(o) \in Sent(p) => p = o
    BY <2>2 DEF NumberInv
  <2>8. /\ \A k \in 1..Len(inbound) : Handled(inbound[k])
        /\ \A r \in Requests : InGame(r) => Handled(r)
        /\ \A p \in Conns, q \in Requests : OnWire(p, q) => Handled(q)
    <3>1. \A k \in 1..Len(inbound) : inbound[k] \in Range(inbound) /\ inbound[k] \in Requests
      BY <1>0 DEF Range
    <3>2. QED
      BY <3>1 DEF OnceInv, OnWire, Answered
  <2>9. \A p \in Conns : Sent(p) \subseteq Requests
    BY DEF Sent, TInv, TypeOK
  <2>10. SUFFICES ASSUME NEW p \in Conns
                  PROVE  /\ QueueOrder(p)' /\ HandOrder(p)' /\ WireQueueOrder(p)'
                         /\ WireHandOrder(p)' /\ WireOrder(p)'
    BY DEF OrderInv
  <2>11. QueueOrder(p) /\ HandOrder(p) /\ WireQueueOrder(p) /\ WireHandOrder(p) /\ WireOrder(p)
    BY DEF OrderInv
  <2>12. QueueOrder(p)'
    BY <1>2, <2>3, <2>6, <2>7, <2>8, <2>11 DEF QueueOrder
  <2>13. HandOrder(p)'
    BY <1>2, <2>3, <2>6, <2>7, <2>8, <2>9, <2>11 DEF HandOrder
  <2>14. WireQueueOrder(p)'
    BY <1>2, <2>3, <2>5, <2>6, <2>7, <2>8, <2>9, <2>11 DEF WireQueueOrder
  <2>15. WireHandOrder(p)'
    BY <1>1, <1>2, <2>5, <2>11 DEF WireHandOrder
  <2>16. WireOrder(p)'
    BY <1>2, <2>1, <2>4, <2>11 DEF WireOrder
  <2>17. QED
    BY <2>12, <2>13, <2>14, <2>15, <2>16
<1>6. CASE ConnWritesHead(o)
  <2>1. /\ chand[o] \in Responses /\ WriteHead(o, chand[o], TRUE) /\ UNCHANGED inbound
        /\ chand[o].req \in LaneB \cup Rejected
    BY <1>0, <1>6 DEF ConnWritesHead, LaneInv
  <2>2. chand[o].req \notin Queued
    BY <2>1, KindsApart
  <2>3. /\ Heads(o)' = Heads(o) \cup {Len(wire[o]) + 1}
        /\ wire'[o][Len(wire[o]) + 1] = [part |-> "head", resp |-> chand[o]]
        /\ \A i \in 1..Len(wire[o]) : wire'[o][i] = wire[o][i]
        /\ \A p \in Conns \ {o} : wire'[p] = wire[p] /\ Heads(p)' = Heads(p)
        /\ AnswersOn(o)' = AnswersOn(o) \cup {chand[o]}
        /\ \A p \in Conns \ {o} : AnswersOn(p)' = AnswersOn(p)
    BY <2>1, HeadWritten
  <2>4. \A p \in Conns : \A q : OnWire(p, q)' <=> OnWire(p, q)
    BY <2>2, <2>3 DEF OnWire
  <2>5. SUFFICES ASSUME NEW p \in Conns
                 PROVE  /\ QueueOrder(p)' /\ HandOrder(p)' /\ WireQueueOrder(p)'
                        /\ WireHandOrder(p)' /\ WireOrder(p)'
    BY DEF OrderInv
  <2>6. QueueOrder(p) /\ HandOrder(p) /\ WireQueueOrder(p) /\ WireHandOrder(p) /\ WireOrder(p)
    BY DEF OrderInv
  <2>7. QueueOrder(p)' /\ HandOrder(p)' /\ WireQueueOrder(p)' /\ WireHandOrder(p)'
    BY <1>1, <1>2, <2>1, <2>4, <2>6 DEF QueueOrder, HandOrder, WireQueueOrder, WireHandOrder
  <2>8. WireOrder(p)'
    <3>1. \A i \in Heads(o) : i \in 1..Len(wire[o])
      BY DEF Heads
    <3>2. wire'[o][Len(wire[o]) + 1].resp.req \notin Queued
      BY <2>2, <2>3
    <3>3. CASE p = o
      BY <1>2, <2>3, <2>6, <3>1, <3>2, <3>3 DEF WireOrder
    <3>4. CASE p # o
      BY <1>2, <2>3, <2>6, <3>4 DEF WireOrder
    <3>5. QED
      BY <3>3, <3>4
  <2>9. QED
    BY <2>7, <2>8
<1>7. QED
  BY <1>3, <1>4, <1>5, <1>6, ConnEffect

LEMMA GameOrderInv ==
  ASSUME TInv, TraceInv, AnswerToOwner, OrderInv, GameThread \/ Restart \/ Unload
  PROVE  OrderInv'
<1>0. /\ inbound \in Seq(Requests) /\ gtarget \in Conns \cup {None}
      /\ ghand \in Responses \cup {NoResponse} /\ (ghand # NoResponse <=> gpc \in Answering)
      /\ gpc \in {"respond", "send", "sendTail"} <=> gtarget # None
  BY DEF TInv, TypeOK, HandInv
<1>1. UNCHANGED stream
  BY GameEffect DEF notGame, clientVars
<1>2. /\ \A p \in Conns : Sent(p)' = Sent(p)
      /\ \A p \in Conns : \A q, r : Before(p, q, r)' <=> Before(p, q, r)
  BY <1>1 DEF Sent, Before
<1>3. CASE FindsTarget \/ GetsReady \/ GameLetsGo \/ GameMovesOn
  <2>1. /\ UNCHANGED inbound
        /\ ghand' = NoResponse \/ (UNCHANGED ghand /\ (gpc = "sendTail" => gpc' = "sendTail"))
    BY <1>3 DEF FindsTarget, GetsReady, GameLetsGo, GameMovesOn, Answering
  <2>2. \A p \in Conns : /\ Heads(p)' = Heads(p) /\ AnswersOn(p)' = AnswersOn(p)
                         /\ \A i \in Heads(p) : wire'[p][i] = wire[p][i]
    <3>1. CASE UNCHANGED wire
      BY <3>1 DEF Heads, AnswersOn
    <3>2. CASE gpc = "sendTail" /\ WriteTail(gtarget, ghand)
      BY <1>0, <3>2, TailWritten DEF Heads, Answering
    <3>3. QED
      BY <1>3, <3>1, <3>2 DEF FindsTarget, GetsReady, GameLetsGo, GameMovesOn, ioVars
  <2>3. \A r : InGame(r)' => InGame(r) /\ (gpc' # "sendTail" => gpc # "sendTail")
    BY <2>1 DEF InGame
  <2>4. QED
    BY <1>2, <2>1, <2>2, <2>3, OrderKept
<1>4. CASE TakesRequest
  <2>1. /\ inbound # <<>> /\ inbound' = Tail(inbound) /\ UNCHANGED wire /\ gpc = "drain"
        /\ ghand' = DrainAnswer(Head(inbound))
    BY <1>4 DEF TakesRequest
  <2>2. /\ Head(inbound) = inbound[1] /\ Head(inbound) \in Requests
        /\ Len(inbound) \in Nat /\ Len(inbound) >= 1 /\ Len(inbound') = Len(inbound) - 1
        /\ \A k \in 1..Len(inbound') : k + 1 \in 1..Len(inbound) /\ inbound'[k] = inbound[k + 1]
    BY <1>0, <2>1
  <2>3. \A r : InGame(r)' => r = inbound[1]
    BY <2>1, <2>2, ResponseFacts DEF InGame
  <2>4. \A p \in Conns : Heads(p)' = Heads(p) /\ AnswersOn(p)' = AnswersOn(p)
    BY <2>1 DEF Heads, AnswersOn
  <2>5. \A p \in Conns : \A q : OnWire(p, q)' <=> OnWire(p, q)
    BY <2>4 DEF OnWire
  <2>6. SUFFICES ASSUME NEW p \in Conns
                 PROVE  /\ QueueOrder(p)' /\ HandOrder(p)' /\ WireQueueOrder(p)'
                        /\ WireHandOrder(p)' /\ WireOrder(p)'
    BY DEF OrderInv
  <2>7. QueueOrder(p) /\ HandOrder(p) /\ WireQueueOrder(p) /\ WireHandOrder(p) /\ WireOrder(p)
    BY DEF OrderInv
  <2>8. QueueOrder(p)'
    <3> SUFFICES ASSUME NEW i \in 1..Len(inbound'), NEW k \in 1..Len(inbound'), i < k,
                        inbound'[i] \in Sent(p), inbound'[k] \in Sent(p)
                 PROVE  Before(p, inbound'[i], inbound'[k])
      BY <1>2 DEF QueueOrder
    <3>1. /\ i + 1 \in 1..Len(inbound) /\ k + 1 \in 1..Len(inbound) /\ i + 1 < k + 1
          /\ inbound'[i] = inbound[i + 1] /\ inbound'[k] = inbound[k + 1]
      BY <2>2
    <3>2. QED
      BY <2>7, <3>1 DEF QueueOrder
  <2>9. HandOrder(p)'
    <3> SUFFICES ASSUME NEW r \in Sent(p), r = inbound[1], NEW k \in 1..Len(inbound'),
                        inbound'[k] \in Sent(p)
                 PROVE  Before(p, r, inbound'[k])
      BY <1>2, <2>3 DEF HandOrder
    <3>1. /\ 1 \in 1..Len(inbound) /\ k + 1 \in 1..Len(inbound) /\ 1 < k + 1
          /\ inbound'[k] = inbound[k + 1]
      BY <2>2
    <3>2. QED
      BY <2>7, <3>1 DEF QueueOrder
  <2>10. WireQueueOrder(p)'
    BY <1>2, <2>2, <2>5, <2>7 DEF WireQueueOrder
  <2>11. WireHandOrder(p)'
    BY <1>2, <2>2, <2>3, <2>5, <2>7 DEF WireHandOrder, WireQueueOrder
  <2>12. WireOrder(p)'
    BY <1>2, <2>1, <2>4, <2>7 DEF WireOrder
  <2>13. QED
    BY <2>8, <2>9, <2>10, <2>11, <2>12
<1>5. CASE GameWritesHead
  <2>1. PICK o \in Conns, resp \in Responses : o = gtarget /\ resp = ghand
    BY <1>0, <1>5 DEF GameWritesHead, Answering
  <2>2. /\ WriteHead(o, resp, TRUE) /\ UNCHANGED <<inbound, ghand>>
        /\ gpc = "send" /\ gpc' = "sendTail"
    BY <1>5, <2>1 DEF GameWritesHead
  <2>3. resp.req \in Sent(o) /\ InGame(resp.req)
    BY <1>0, <2>1, <2>2 DEF TraceInv, Traced, InGame, Answering
  <2>4. /\ Heads(o)' = Heads(o) \cup {Len(wire[o]) + 1}
        /\ wire'[o][Len(wire[o]) + 1] = [part |-> "head", resp |-> resp]
        /\ \A i \in 1..Len(wire[o]) : wire'[o][i] = wire[o][i]
        /\ Len(wire[o]) \in Nat
        /\ \A p \in Conns \ {o} : wire'[p] = wire[p] /\ Heads(p)' = Heads(p)
        /\ AnswersOn(o)' = AnswersOn(o) \cup {resp}
        /\ \A p \in Conns \ {o} : AnswersOn(p)' = AnswersOn(p)
    BY <2>2, HeadWritten
  <2>5. \A p \in Conns : \A q : OnWire(p, q)' => OnWire(p, q) \/ (p = o /\ q = resp.req)
    BY <2>4 DEF OnWire
  <2>6. \A r : InGame(r)' <=> InGame(r)
    BY <2>2 DEF InGame
  <2>7. SUFFICES ASSUME NEW p \in Conns
                 PROVE  /\ QueueOrder(p)' /\ HandOrder(p)' /\ WireQueueOrder(p)'
                        /\ WireHandOrder(p)' /\ WireOrder(p)'
    BY DEF OrderInv
  <2>8. QueueOrder(p) /\ HandOrder(p) /\ WireQueueOrder(p) /\ WireHandOrder(p) /\ WireOrder(p)
    BY DEF OrderInv
  <2>9. QueueOrder(p)' /\ HandOrder(p)' /\ WireHandOrder(p)'
    BY <1>2, <2>2, <2>6, <2>8 DEF QueueOrder, HandOrder, WireHandOrder
  <2>10. WireQueueOrder(p)'
    BY <1>2, <2>2, <2>3, <2>5, <2>8 DEF WireQueueOrder, HandOrder
  <2>11. WireOrder(p)'
    <3>1. CASE p # o
      BY <1>2, <2>4, <2>8, <3>1 DEF WireOrder
    <3>2. CASE p = o
      <4> SUFFICES ASSUME NEW i \in Heads(o)', NEW k \in Heads(o)', i < k,
                          wire'[o][i].resp.req \in Queued, wire'[o][k].resp.req \in Queued
                   PROVE  Before(o, wire'[o][i].resp.req, wire'[o][k].resp.req)
        BY <1>2, <3>2 DEF WireOrder
      <4>1. i \in Heads(o) /\ i \in 1..Len(wire[o]) /\ wire'[o][i] = wire[o][i]
        <5>1. \A j \in Heads(o) : j \in 1..Len(wire[o])
          BY DEF Heads
        <5>2. QED
          BY <2>4, <5>1
      <4>2. CASE k \in Heads(o)
        <5>1. wire'[o][k] = wire[o][k]
          BY <2>4, <4>2 DEF Heads
        <5>2. QED
          BY <2>8, <3>2, <4>1, <4>2, <5>1 DEF WireOrder
      <4>3. CASE k = Len(wire[o]) + 1
        <5>1. wire'[o][k].resp.req = resp.req
          BY <2>4, <4>3
        <5>2. OnWire(o, wire[o][i].resp.req)
          BY <4>1 DEF OnWire, AnswersOn
        <5>3. wire[o][i].resp.req \in Sent(o)
          BY <4>1 DEF AnswerToOwner, AnswersOn
        <5>4. QED
          BY <2>2, <2>3, <2>8, <3>2, <4>1, <5>1, <5>2, <5>3 DEF WireHandOrder
      <4>4. QED
        BY <2>4, <4>2, <4>3
    <3>3. QED
      BY <3>1, <3>2
  <2>12. QED
    BY <2>9, <2>10, <2>11
<1>6. QED
  BY <1>3, <1>4, <1>5, GameEffect

LEMMA NextOrderInv == TInv /\ OwnInv /\ AskedInv /\ OrderInv /\ [Next]_vars => OrderInv'
<1> SUFFICES ASSUME TInv, OwnInv, AskedInv, OrderInv, [Next]_vars PROVE OrderInv'
  OBVIOUS
<1>0. NumberInv /\ TraceInv /\ AnswerToOwner /\ OnceInv /\ LaneInv
  BY DEF OwnInv, AskedInv
<1>1. ASSUME NEW o \in Conns, ClientWrites(o) PROVE OrderInv'
  <2>1. UNCHANGED <<inbound, wire, ghand, gpc>>
    BY <1>1 DEF ClientWrites, dispatchVars, ioVars, gameVars
  <2>2. /\ \A p \in Conns : Heads(p)' = Heads(p) /\ AnswersOn(p)' = AnswersOn(p)
        /\ \A r : InGame(r)' <=> InGame(r)
    BY <2>1 DEF Heads, AnswersOn, InGame
  <2>3. PICK r \in Requests :
          /\ \A p \in Conns : r \notin Sent(p)
          /\ Sent(o)' = Sent(o) \cup {r}
          /\ \A p \in Conns \ {o} : Sent(p)' = Sent(p)
          /\ \A p \in Conns : /\ Len(stream[p]) \in Nat /\ Len(stream'[p]) \in Nat
                              /\ Len(stream'[p]) >= Len(stream[p])
                              /\ \A i \in 1..Len(stream[p]) : stream'[p][i] = stream[p][i]
    BY <1>0, <1>1, RequestWritten
  <2>4. \A p \in Conns : \A i \in 1..Len(stream[p]) : i \in 1..Len(stream'[p])
    BY <2>3
  <2>5. \A p \in Conns : \A q, t : Before(p, q, t) => Before(p, q, t)'
    BY <2>3, <2>4 DEF Before
  <2>6. \A p \in Conns : \A t \in Sent(p)' : t \in Sent(p) \/ \A u \in Conns : t \notin Sent(u)
    BY <2>3
  <2>7. QED
    BY <1>0, <2>1, <2>2, <2>5, <2>6, OrderKept
<1>2. CASE UNCHANGED <<stream, inbound, wire, ghand, gpc>>
  <2>1. /\ \A p \in Conns : /\ Heads(p)' = Heads(p) /\ AnswersOn(p)' = AnswersOn(p)
                            /\ Sent(p)' = Sent(p)
        /\ \A r : InGame(r)' <=> InGame(r)
        /\ \A p \in Conns : \A q, t : Before(p, q, t)' <=> Before(p, q, t)
    BY <1>2 DEF Heads, AnswersOn, Sent, InGame, Before
  <2>2. QED
    BY <1>0, <1>2, <2>1, OrderKept
<1>3. ASSUME NEW o \in Conns, Client(o) \/ Accept(o)
      PROVE  ClientWrites(o) \/ UNCHANGED <<stream, inbound, wire, ghand, gpc>>
  BY <1>3 DEF Client, ClientStalls, ClientResumes, ClientHalfCloses, ClientVanishes,
     BecomesClient, Accept, dispatchVars, ioVars, gameVars
<1>4. AcceptThread \/ UNCHANGED vars => UNCHANGED <<stream, inbound, wire, ghand, gpc>>
  BY DEF AcceptThread, CheckListening, AddConnection, SpawnThread, SpawnFails, SetThread, Refuse,
     vars, dispatchVars, ioVars, gameVars, clientVars
<1>5. QED
  BY <1>0, <1>1, <1>2, <1>3, <1>4, ConnOrderInv, GameOrderInv DEF Next

\* LaneAInOrder, a property of the run BridgeServerLanes: the answers to the
\* requests that go through the queue reach a client in the order in which it
\* asked, although its own thread answers others in between.
THEOREM QueueKeepsOrder == Spec => []LaneAInOrder
<1>1. TInv /\ OwnInv /\ OrderInv => LaneAInOrder
  <2> SUFFICES ASSUME TInv, OwnInv, OrderInv, NEW o \in Conns, NEW i \in Heads(o), NEW k \in Heads(o),
                      i < k, wire[o][i].resp.req \in Queued, wire[o][k].resp.req \in Queued
               PROVE  PlaceOf(o, wire[o][i].resp.req) < PlaceOf(o, wire[o][k].resp.req)
    BY DEF LaneAInOrder, Queued
  <2>1. Before(o, wire[o][i].resp.req, wire[o][k].resp.req)
    BY DEF OrderInv, WireOrder
  <2>2. PICK a, b \in 1..Len(stream[o]) : /\ a < b /\ stream[o][a] = wire[o][i].resp.req
                                          /\ stream[o][b] = wire[o][k].resp.req
    BY <2>1 DEF Before
  <2>3. IsInjective(stream[o]) /\ DOMAIN stream[o] = 1..Len(stream[o])
    BY DEF OwnInv, NumberInv, TInv, HandInv
  <2>4. \A c \in 1..Len(stream[o]) : PlaceOf(o, stream[o][c]) = c
    BY <2>3 DEF PlaceOf, IsInjective
  <2>5. QED
    BY <2>2, <2>4
<1>2. QED
  BY <1>1, InitTInv, InitOwnInv, InitAskedInv, InitOrderInv, NextTInv, NextOwnInv, NextAskedInv,
     NextOrderInv, PTL DEF Spec
=============================================================================
