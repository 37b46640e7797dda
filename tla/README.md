# Verification of the UE5 MCP bridge

The bridge is a plugin of the Unreal editor: clients connect over TCP, write JSON requests one per
line, and the plugin runs them on one of its threads and answers. This directory holds TLA+ models
of it, the TLC instances that check them, and the TLAPS proofs of what holds for every size. The core
(jobs, dispatch, server, log, framing) is modelled step by step, because threads meet there; the tools
are modelled one handler per action, because what can go wrong with them takes several requests. Paths below are relative to the repository; `Core/` stands for
`Source/UnrealMCPBridgeCore/` and `Tools/` for `Source/UnrealMCPBridge/Private/Tools/`.

## 1. The system

### Threads

| thread | runs |
| --- | --- |
| game thread | `StartupModule`, `ShutdownModule`, console commands, `OnEndFrame` (Drain, then collection of closed connections), FTSTicker callbacks (bodies of jobs that need it, the TTL sweep), all Lane A handlers, all Python |
| accept thread | `FMCPServer::OnConnectionAccepted`, one call per client |
| connection threads, one per client | receive, cut frames, parse, push requests for the game thread (Lane A) or run thread-safe handlers at once (Lane B), send those answers |
| pool workers, cores minus two and at least one | `FMCPJobWork::DoThreadedWork` |
| any thread of the editor | `FMCPLogStream::Serialize`, for every line that is logged |

### Components, their state and operations

| component | state | operations | what makes it correct | model |
| --- | --- | --- | --- | --- |
| job registry, `Core/Private/FMCPJobRegistry.cpp` | map of jobs, pool, `bInitialised`, `bShutdown`; per job: State, bCancelRequested, ErrorMessage, Result, FinishedAt | SubmitJob, GetStatus, GetResult, RequestCancel, TickTtlCleanup, Shutdown, DoThreadedWork, Abandon | no job lost or run twice; a terminal state comes with its answer and is final; the pool outlives its users; jobs and unloads end | JobRegistry |
| `job.*` handlers, `Core/Private/FMCPDay7Handlers.cpp` | none | submit, status, result (with a wait), cancel, list | the answer belongs to the state the client saw | JobRegistry (not the listing of active jobs) |
| dispatch queue, `Core/Private/FMCPDispatchQueue.cpp` | handler table, thread-safe set, Python handlers, queue | Push, Drain, DispatchInline, IsThreadSafe, register and unregister | right lane, order kept, every response stamped with its id | DispatchQueue |
| server, `Core/Private/FMCPServer.cpp` | listener, bListening, connections, NextConnectionId | Start, Stop, OnConnectionAccepted, SendResponse, GarbageCollectClosedConnections | answers reach their owner; sockets destroyed once, after the last use; nothing survives Stop | BridgeServer |
| connection, `Core/Private/FMCPConnection.cpp` | socket, receive buffer, bStopRequested, bClosed, SendLock | Run, ConsumeBufferedFrames, HandleFrame, SendResponse, SignalStop, destructor | frames are the client's lines; answers are whole lines; bounded memory | BridgeServer, FrameScanner |
| module, `Source/UnrealMCPBridge/Private/UnrealMCPBridge.cpp` | - | StartupModule, ShutdownModule, OnEndFrame | the order of the start and of the unload | BridgeServer, JobRegistry |
| console commands | - | MCP.RestartListener; others print | a restart is a Stop and a Start | BridgeServer (restart) |
| log stream, `Core/Private/FMCPLogStream.cpp` | ring of entries, head, count, total observed, categories | Serialize, GetLastN, Search, Clear, Attach, Detach | it is a log of bounded length | LogStream |
| `log.*` handlers, `Tools/Diagnostics/LogTools.cpp` | none; the page token is with the client | tail, search, clear, list_categories | counters fit the entries; a walk over pages is complete | LogTools |
| Python evaluator, bootstrap, registry, composites | interpreter (engine) | run a script, find a tool, call back over TCP | a call back must not wait for its own thread | as an outcome only |
| marshalling, helpers, surface registry | none that lasts | pure, or one call of the engine | conversions | no |
| mutator scope, `Core/Private/MCPMutatorScope.cpp` | refused or not, packages to flag | constructor, DirtyPackage, Abort, destructor | no edit in a PIE session, no edit without a dirty flag | EditorSession |
| page cursor, `Core/Private/Utils/MCPPageCursor.cpp` | none; the token is with the client | encode, decode, compare | a walk over pages is complete | in each module that pages |

The tools, one surface per namespace; the state is the engine's, held between requests:

| surfaces | state | what makes them correct | model |
| --- | --- | --- | --- |
| `actor.*`, `hierarchy.*`, `transform.*`, `actor_spatial.*` | actors, attachment, transforms | attachment is a forest; an alignment is what a query finds | SceneGraph, Trees |
| `actor.find_by_*`, `folder.*` | outliner folders, selection, a search under way | no actor is lost between pages or with a folder | Outliner |
| `component.*` | components of an actor, root | only a removal cuts a component off the root | ActorComponents |
| `level.*`, `level_streaming.*`, `wp.*` | maps on disk, streaming entries | changes are flagged | Levels |
| `actor.batch_*`, `level.dump_actors` and their jobs | a submitted job | its account is true of the world | BatchJobs |
| `pie.*`, `physics.*`, `editor.*` | the session, its cleanup, time since stop | a session leaves the editor world alone | PlaySession |
| `ai.bt.*` | a tree of composites, tasks, decorators, services | paths last | BehaviorTree |
| `ai.bb.*`, `ai.eqs.*`, `ai.controller.*`, `ai.crowd.*` | boards, queries, agents | - | AIAgents |
| `insights.*`, `stat.*`, `memreport.*` | trace, stamp, capture, its tickers | a status is of one trace; a capture has its frames | Captures |
| `test.*` | the framework, a batch | each test is accounted for once | TestRuns |
| `viewport.*`, `screenshot.*`, `render.*`, `debug.*` | cameras, show flags, an image | lines are lines | Viewports, Drawing |
| `sc.*` | states of files, a submit job | a diff is a shortest edit script | SourceControl |
| `livecoding.recompile` | a compile, a wait, the log | - | LiveCoding |
| `cfg.*`, `collision.*`, `gameplaytag.*`, `subsystem.*` | cvars, ini files, responses, tags | a response in force is the one asked for | Settings |
| `cb.*`, `asset.create*`, `package.*` and others | assets, files, redirectors, a job | no asset is lost unasked | Assets |
| `asset.*` reads, call sites | the registry; a walk under way | walks are complete, graphs true | PagedReads |
| `bp.*` members | variables, functions, interfaces, parent | - | BlueprintClass |
| `bp.*` components and graphs, `anim_bp.*` | tree of components, nodes and wires, states | wires join nodes that are there | BlueprintGraph |
| `mat.*`, `material.*`, `mat_inst.*` | expressions, parameters, a walk under way | pages are complete | Materials |
| `input.*` | mappings, triggers, modifiers | - | InputMappings |
| `data_table.*`, `curve.*` | rows, keys | pages are complete | DataAssets |
| `sequencer.*` | bindings, tracks, sections | what is shown can be named | Sequencer |
| `umg.*`, meshes, textures, effects, landscape, sound, navigation, engine reads | the engine's | one step each | no |

A dash means that only the general promise on dirty packages, and the tools' refusals, are stated for
that surface: each handler there is right or wrong by itself.

### How they interact

A connection thread calls the dispatch queue (Push or DispatchInline) and, through Lane B handlers,
the job registry and the log stream. The game thread pulls from the queue in Drain and routes the
answer through `FMCPServer::SendResponse`, which finds the connection by its number, so both threads
write to one socket. Jobs leave the registry through the pool's queue; a job that needs the game
thread comes back to it as a one-shot ticker whose promise the worker waits for. The unload walks
through all of them in a fixed order: unhook OnEndFrame, drop the handlers, stop the server (joining
accept thread and connections), then `FMCPJobRegistry::Shutdown` (cancel, drop the map, destroy the
pool, which waits for the workers).

### What is hard here

`PROJECT.json` lists the hazards line by line. In short: fields of a job are written without the
lock under which they are read; SubmitJob uses a raw pool pointer after one check of a flag; answers
are routed by number frames after the request; two threads send on one socket; a socket has several
owners while a connection is made and torn down; the unload waits for threads that may wait for it;
the handler table is read twice per Lane B request; the log's ring wraps, is cleared and is counted
by different threads at once.

With the tools, what is hard is what several requests do together: a page token or a node path that
was true when it was given, a job that runs when the world has moved on, a ticker that ends the wrong
capture, an edit that no package is flagged for, a session that starts while the last one is still
being torn down, an order of edits that cuts a component off.

## 2. Modules

| module | models | uses |
| --- | --- | --- |
| `JobLifecycle` | abstract: what the registry promises its clients, no threads or locks | |
| `JobRegistry` | registry, workers, ticker, `job.*` handlers, unload | INSTANCE JobLifecycle |
| `JobRegistryProofs` | proofs of `TypeOK`, `PoolOutlivesWork` and `OnePool` | JobRegistry |
| `JobRegistryWorkProofs` | proofs of `WorkHeldOnce`, `StatusTrue`, `NoResultOnlyIfForgotten` and of the refinement | JobRegistryProofs, DataLemmas |
| `DispatchQueue` | handler table, lanes, queue, ids: the steps as operators | |
| `BridgeServer` | server, connections, module; composes the steps of DispatchQueue with them | EXTENDS DispatchQueue |
| `BridgeServerProofs` | proofs of all six safety properties of it | BridgeServer, DataLemmas |
| `BoundedLog` | abstract: a log that remembers its last `Capacity` lines | |
| `LogStream` | the ring | INSTANCE BoundedLog |
| `LogTools` | `log.*` handlers on top of the ring | EXTENDS LogStream |
| `LogStreamProofs` | proofs of `TypeOK`, the refinement, `ReadsFaithful` and `RepliesTrue` | LogTools, DataLemmas |
| `FrameScanner` | how Run and ConsumeBufferedFrames cut bytes into frames | |
| `FrameScannerProofs` | proofs of `TypeOK`, `BufferBounded` and `FramesExact` | FrameScanner, DataLemmas |
| `EditorSession` | the PIE guard, dirty packages, the surface in focus | |
| `Trees` | parent functions: ancestors, forests | |
| `DataLemmas` | lemmas about the operators of several modules: recursive functions, sums, queues, sorted lists and their pages | |
| `SceneGraph`, `Outliner`, `ActorComponents`, `Levels`, `BatchJobs`, `PlaySession`, `BehaviorTree`, `AIAgents`, `Captures`, `TestRuns`, `Viewports`, `Drawing`, `SourceControl`, `LiveCoding`, `Settings` | the surfaces of a world (table above) | EXTENDS EditorSession |
| `WorldSurfaces` | composes them over one session | the fifteen above |
| `WorldProofs` | proofs of ten properties of these surfaces | WorldSurfaces, DataLemmas |
| `Assets`, `PagedReads`, `BlueprintClass`, `BlueprintGraph`, `Materials`, `InputMappings`, `DataAssets`, `Sequencer` | the surfaces of assets | EXTENDS EditorSession |
| `ContentSurfaces` | composes them over one session | the eight above |
| `ContentProofs` | proofs of three of theirs | ContentSurfaces, DataLemmas |
| `MCJobRegistry`, `MCWorldSurfaces`, `MCContentSurfaces` | instances whose constants are not plain sets; the other runs take the module itself | the module named |

Definitions marked `Mutant` are plausible bugs: each replaces the definition that follows it and
must break a property. They are used by nothing else.

### JobRegistry

One step is one access to shared memory that another thread can notice. A critical section that
touches the map only is one step; a worker's writes to ErrorMessage, Result, FinishedAt and State
are steps of their own, because they are made without JobsLock. ErrorMessage is a string, so an
assignment to it takes two steps, with `writing` true in between.

| code | actions |
| --- | --- |
| SubmitJob, EnsureInitialised | `BeginSubmit`, `EnsureInitFast`, `EnsureInitLocked`, `CheckShutdown`, `AddJob`, `Enqueue` |
| `job.status`, `job.result` | `BeginResult`, `ReadState`, `ReadRest`, `GetResult` |
| DoThreadedWork | `Dequeue`, `LoadCancel`, `StoreCancelled`, `StampCancelled`, `StoreRunning`, `EnterBody`, `RunBody`, `WriteError`, `FutureGet`, `StampFinished`, `Settle*`, `FillError`, `Publish` |
| the ticker's lambda | `RunTicker`, `TickerWritesError` |
| RequestCancel, TickTtlCleanup | `RequestCancel`, `TickTtlCleanup` |
| ShutdownModule and Shutdown | `StopServer`, `JoinConnections`, `BeginShutdown`, `DropJobs`, `AbandonQueue`, `DestroyPool` |

A body is what the registry can tell apart: it returns a value, returns null with or without an
error, or looks at the cancel flag and bails out, silently (Python bodies) or with the message
"cancelled" (asset composites, level composites, the cook job). The submitter's and the reader's
step sequences are the same for every listener.

### DispatchQueue and BridgeServer

DispatchQueue has no specification of its own: its operators are the dispatcher's part of a step of
BridgeServer. A request is a model value of one of eight kinds (Lane A, Lane B, a Lane B method under
another kind, exec_python, unknown method, bad kind, malformed, too large); `Opaque` holds those whose
id is not a GUID. A response carries the request, the kind of answer and which id it bears.
A connection is the number of its accept; the game thread is one program counter `gpc` that walks
through startup, frames, restarts and the unload. A shared pointer is modelled by who holds it: the
socket is destroyed when the last of list, accept thread and game thread lets go. Every Send is two
steps, head and tail, with SendLock held in between. It may fail at any time, before the head or after
it, whether its client is still there or not: `lost` remembers the request, and the connection goes on
(SendResponse returns false and leaves bClosed unset), so that the next head comes right after the
line that was cut. With `Stalls` a Send may also block.

### LogStream, LogTools and FrameScanner

`Serialize` is three steps: count, take the time, append under the lock. `Head` and `Count` have the
code's arithmetic, GetLastN and Search are the code's walks over indices. Verbosity and message text
are left out: a line is its thread, its number and its category. In LogTools each handler is split
where it takes the lock more than once. FrameScanner has bytes of three kinds: newline, carriage
return and any other; Recv delivers any chunk up to a size.

### The tool surfaces

A handler runs on the game thread from its first line to its reply, so it is one action: its guard is
what it demands of its arguments and of the editor, and a request that it refuses before it changed
anything is a stuttering step and has no action. A refusal after a change is an action of its own
(`Flag({}, ...)` where only `Modify` was reached). Handlers of lane B that read in several steps
(`GetStatus`, readers of test results) and bodies of jobs are split at those steps. Arguments are
chosen by `\E` from small sets; names, values and classes are kept only as far as replies and later
requests tell them apart. `EditorSession` carries what all share: `ScopeOpen` is the refusal of
FMCPMutatorScope in a PIE session, `Edit(packages)` a mutator that flags what it changes, `Flag` one
that does not, `Written` a save. In SceneGraph what changes is computed from the state (`Rewritten`)
and compared with what the handler marks (`Marked`).

The surfaces share no other state. A behaviour works with one of them, named by `focus`, while the
user starts and ends play sessions and saves; so the instances of the surfaces add up and one run
covers them. State that a client keeps between two requests (a page token, a list it was shown) is a
variable of the module, and the environment moves between the pages.

Some correspondences that are not one to one:

| code | model |
| --- | --- |
| `ACT_AttachWouldCycle`, walks up the parents | `Trees!Above`; `WouldCycle` |
| `AIBT_ResolvePath` | `Ways`, `At`, `SlotBehind`: a way is the sequence of indices of a path |
| `AR_DecodeCursor`, `AR_SlicePage` and the sort before them | `Listing`, `Rest`, `Paged` |
| `MAT_CollectAllParameters` and the budget across categories | `Parameters`, `Pending` |
| `SEQ_ResolveTrackSection` | `TrackPath`, `MasterNamed`, `TrackOfBinding`, `Resolve`: a name with dots is a sequence |
| `SCT_BuildUnifiedDiff` | `Cut`, `Common` (the table), `Scripts` (the walk back), `RestOf` |
| `DrawLine`, `DrawCircle`, `DrawBox` of screenshot.annotate | `Step`, `Round`, `Rounds`, `LinePoints`, `DiscPoints`, `BoxPoints` |
| `COLL_RegenerateCustomResponses` and the reload | `CustomOf`, `FilledIn` |

## 3. Runs

| run | states | bounds | question |
| --- | --- | --- | --- |
| JobRegistrySafety | 7.7 M | two jobs, one worker, one listener, TTL 0, clock to 2, waits of 0 and 1 | Do all interleavings of submitters, worker, ticker, readers, cancel, sweep and unload keep the safety properties, and implement JobLifecycle? |
| JobRegistryLive | 79 k | two jobs, one worker, no queries | Does every accepted job end, and every unload? |
| BridgeServerSafety | 1.9 M | two connections, one exec_python and one Lane B request, failed binds, failed Sends | Ownership of answers and sockets, across restarts and the unload. |
| BridgeServerLanes | 2.6 M | one connection, four requests of different kinds (Lane A, Lane B, a Lane B method under another kind, a line that is too large), failed spawns, failed Sends | Order, whole lines, lanes, ids. |
| BridgeServerLive | 624 k | one connection, Lane A, Lane B and a malformed line, stalls, failed Sends, failed binds | Is every request answered and does every Stop end? |
| LogStream | 800 k | two threads, three lines, ring of two, two categories, pages of one | Is the ring a bounded log; are reads, counters and pages right? |
| Framing | 36 k | cap 3, chunks to 3, streams to 8 bytes | Are the frames the lines of the stream for every cut into chunks? |
| WorldSurfaces | 141 k | two maps, three actors, four components, folders to depth two with one name twice, batches of two, trees of depth two with two children and one service (`ServicesMax`) for each composite, two traces and captures, two tests and an unknown one, images of 3 x 3, texts to four lines | Do series of requests to the tools over a world keep what their replies said? |
| ContentSurfaces | 574 k | three paths, all with one leaf, three keys with a filter, dependency graphs over three packages with `max_depth` 1 and 2, `max_nodes` 2 and 3, each direction, filter and order of the registry, three nodes, three parameters and three rows whose order as text differs, pages of one and two, two tracks and two sections | The same for the tools over assets. |
| JobRegistryUnloadGT, JobRegistryCancel, BridgeServerSpawn | - | as small as shows it | one statement of the repository each, which the code does not keep (section 6) |

Why the bounds are enough. Two jobs, one worker and one listener beside the game thread are what
every race between a pair of actors needs: two jobs on one worker fill the pool, so that one waits in
the queue while the unload begins, and both submitters may find the registry uninitialised. A clock to
2 with a TTL of 0 holds a job stamped, kept and swept, and a poll before and after each. Two
connections are what a misrouted answer needs, and a restart in between makes the second one's
number matter. Lines, ring and pages are chosen so that the ring wraps, is full and is cleared, and
a page boundary falls between two names. The stream of 8 bytes holds two frames and a rest, with cap
and chunk of 3 each byte of a frame may be the first or last of a chunk. Of the surfaces: a loop of
attachments takes two actors and one that a shallow test misses takes three; a page of one with three
entries has a change before, at and behind the token; three parameters and rows are what two orders
can disagree on; two captures overlap, and a third repeats them; a line in a square of five, of which
three are the image, meets every octant, ties and clipping.

CHECK_DEADLOCK is off everywhere: clients may all leave, the clock stops at its bound, a module that
was unloaded stays down, and a surface whose bounds are used up has nothing left to do.

### What the properties say

* **WorkHeldOnce**: an active job is tracked and in exactly one of submitter, queue and workers, and a
  body in the ticker has its worker waiting for it; the reference it captured stays valid.
* **StatusTrue**: what a reader is told with a terminal state is complete, although no lock protects
  the writes: a worker writes the state last. Cancelled is an answer to a request.
* **PoolOutlivesWork**, **OnePool**: the raw pool pointer is valid when it is used. The argument is
  that connection threads are joined before `bShutdown` is set, and the game thread, the only other
  submitter, is the one that unloads.
* **NoResultOnlyIfForgotten**: a Succeeded job answers without a result only when the sweep came between.
* **JobsSettle**, **UnloadEnds**: with the exception of the deadlock in section 6, named `UnloadStuck`.
* **ImplementsLifecycle**: all of the above seen from a client, as a specification.
* **AnswerToOwner**, **AnsweredAsAsked** (once, on the game thread if Lane A, under the id given),
  **LaneAInOrder**, **WholeLines**: what a client sees on its socket. No line is ever cut by another
  one, only by the failure of its own Send; what follows a cut line is then the head of another answer.
* **SocketsOwned**: sockets are destroyed once, after the last use, and none survives Stop. It is
  checked where threads can be created; section 6 has the case where they cannot.
* **EventuallyAnswered**, **StopsEventually**: a request of a client that stays gets an answer that can
  be read, that is, a whole line that does not begin on one that was cut; a Stop ends. The first is
  claimed for connections on which no Send fails: after one that did, the code promises nothing (section 6).
* **ReadsFaithful**: GetLastN and Search return the last lines that match, oldest first, those of one
  thread in their order. **RepliesTrue**: the counter outside the lock is never behind what a reply
  shows, and a client that follows the page tokens gets each name once.
  **ImplementsBoundedLog**: ring, wrap-around and Clear implement a log of the last lines.
* **FramesExact**, **BufferBounded**: no byte is lost or doubled, memory is bounded, and only an
  unfinished line of the cap's length closes a connection.
* **EditsFlagged**: over all surfaces of a world, two tools only change what a map stores without
  flagging it; the mutants of the others, one package flagged for several, are found.
* **SceneSound**: no order of attach, detach, duplicate and destroy makes a loop, and align leaves an
  actor elsewhere only when an attach ancestor follows it in the list.
* **OutlinerKeepsActors**, **WalksComplete**: a client that follows page tokens sees each entry that
  was there all the while, and none twice, while entries come and go. WalksComplete exempts what the
  code cannot keep: two entries with one key, names that sort as text in another order (section 6).
* **OnlyRemovalCutsOff**: a component that comes loose from the root hung on one that was removed, or on
  one that was loose already; the instance has four components, since three cannot show the second.
* **WaysLast**, **GraphSound**, **SectionsFound**: the shape that edits leave:
  node paths keep their node until something is removed, wires join nodes
  that exist with one source each, sections can be named by what `get_tracks` shows. WaysLast speaks of
  edits that add. SectionsFound exempts the names that the code cannot find or takes for others: an
  empty part anywhere ("a..b", "x."), a dot in a binding's name, a dot in the title of a master track or
  of the camera cuts, and bindings or tracks that share a path (section 6). A dotted title of a binding's track it does claim.
* **BatchAccountTrue**, **DiagnosticsTrue**, **SessionsApart**: jobs, captures, tests and play sessions
  say what happened, although the world, the console and other requests move in between. No capture gets
  more frames than were asked for, and one that nothing overlapped gets them all; each requested test has
  one line of the report, although the editor's window may have a test of its own under way. A session
  that `pie.stop` ended is torn down before `pie.start` may begin the next.
* **NothingOverwritten**: only a deletion, a reimport or an import that may replace loses an asset.
* **GraphIsTrue**, **DiffIsShortest**, **LineDrawn**: the algorithms, against definitions of what they
  are to compute: in a dependency graph, depths that are distances, all edges between the packages given
  and, unless the reply says what cut it, all packages; an edit script that leads from the one text to the
  other and keeps as many lines as any text within both has; in each column of a line's longer side one
  pixel, and that within half a pixel of the line.
* **ResponsesInForce**: storing responses as differences and loading them back forgets none.

### Fairness

Weak fairness for each worker, connection thread, the accept thread and the game thread: the
operating system schedules them and none of their steps waits for a choice of theirs. Strong fairness
for what competes: a thread that waits for a lock others take and release again and again (JobsLock,
SendLock), and the ticker, which the game thread reaches every frame unless something else holds it.
Nothing forces a client to connect, write or read, a body to be asked to cancel, a restart or an
unload. Bodies are assumed to end once they run. `SpecRead` adds that a client that stopped reading
reads on or its connection breaks: without it a Stop may wait for ever (section 6), and the two
liveness properties of the server are claimed only with it.

## 4. Proofs

TLAPS proves the following for every value of the constants that satisfies the assumptions of their
modules. Wherever TLC and a theorem speak of the same property, the run came first. Each proof has the
same form: an inductive invariant in named parts, a lemma per action or group of actions, and a frame
lemma that says which steps can touch the variables at all (in the composed modules: those of the
surface in focus).

### The core

| theorem | states | why it holds |
| --- | --- | --- |
| `JobRegistryProofs!TypeCorrect` | `TypeOK` | inductive as it is, because it says who has a job in hand at which step |
| `PoolSafe`, `AtMostOnePool` | `PoolOutlivesWork`, `OnePool` | `PoolInv`: the pool exists exactly while `bInitialised` is set; a submitter past the initialisation knows that one of the flags was set; no connection thread is in a handler once the unload has joined them; the queue is empty before the pool goes |
| `JobRegistryWorkProofs!JobsHeldOnce` | `WorkHeldOnce` | `PlaceInv`, `PhaseInv`, `BodyInv`: an active job has one place, how far it came follows from the place, and a body that waits for the ticker has its worker waiting |
| `StatusIsTrue`, `ResultUnlessForgotten` | `StatusTrue`, `NoResultOnlyIfForgotten` | `FieldInv` says what the fields hold at each step of the worker: they are there before the state is |
| `LifecycleImplemented` | `ImplementsLifecycle` | each step maps to one of JobLifecycle or to none, under the invariant above |
| `BridgeServerProofs!TypeCorrect` | `TypeOK` | with `HandInv`, what each thread has in hand at each step |
| `OneOwnerPerSocket` | `SocketsOwned` | `LifeInv`: a socket is in the hand of the accept thread, in Connections or in ToDestroy, and destroyed after that. Assumes `FALSE \notin Spawns`: without it the property is false (section 6) |
| `AnswersGoHome` | `AnswerToOwner` | `NumberInv` and `TraceInv`: numbers are unique over restarts, since `NextConnectionId` only grows, and whatever is queued or in a hand can be traced to the number it came from |
| `AnsweredOnceInItsLane` | `AnsweredAsAsked` | `OnceInv`: a handled request is in one place, the queue, a hand or a wire |
| `LinesStayWhole` | `WholeLines` | `LockInv`: while a thread holds SendLock between head and tail, its head is last on the wire. It lets go after the tail or after a Send that failed, and then the request is in `lost` for good |
| `QueueKeepsOrder` | `LaneAInOrder` | `OrderInv`: what is on the wire was asked before what is in Drain's hand, and that before what is queued |
| `LogStreamProofs!TypeCorrect`, `ImplementsBounded` | `TypeOK`, `ImplementsBoundedLog` | a ring that is not full was filled from slot 0; an append extends the window by a slot or moves it by one, modulo Capacity |
| `ReadersSeeTheEnd`, `ThreadsStayInOrder` | `ReadsFaithful` | the walk of GetLastN and Search from the newest entry back, by induction on its length |
| `RepliesAddUp` | `RepliesTrue` | the counter is ahead of the ring, the catalogue holds every category of it, and the pages of a walk are the beginning of the sorted names |
| `FrameScannerProofs!TypeCorrect`, `MemoryBounded` | `TypeOK`, `BufferBounded` | Recv is called only when less than a frame is left |
| `FramesCorrect` | `FramesExact` | the frames handled are the lines of the bytes consumed, and what is not consumed holds no newline after the scan; the reference reads byte by byte, and the induction is over the bytes |

### The tools

| theorem | states | why it holds |
| --- | --- | --- |
| `AttachmentsStayAForest`, `SceneStaysSound` | `SceneSound` | `ForestInv`: an edge is added only to a node that is not among its ancestors. An align is a sequence of moves; each takes along only what hangs below its actor, so a place that was given stays until the turn of an ancestor comes |
| `EditsAreFlagged` | `EditsFlagged` | what a step rewrites (`Rewritten`, computed from the state) lies in the levels of the actors that it marks |
| `RemovalAloneCutsOff` | `OnlyRemovalCutsOff` | `PartsInv`; adding a leaf or cutting an edge changes the ancestors of what hung below it only. This proof found the property too strong: a component below one that is loose comes loose without a removal |
| `BatchesTellTheTruth` | `BatchAccountTrue` | the body's account and the world it leaves are computed from one list |
| `CapturesTellTheTruth`, `TestsAreAccounted`, `DiagnosticsTellTheTruth` | `DiagnosticsTrue` | `StampInv`, `FrameInv`: a capture that runs lacks frames and has a ticker that waits for just these, its only one if nothing overlapped it; `ToolsTest`: a test that a tool started is under way only while the tool runs; `BatchStands`: the tests before the index are done, those after it are skipped once a cancel was seen |
| `SessionsStayApart` | `SessionsApart` | `PlayInv`: cleanup left and time passed add up to the cleanup's length, which the gap exceeds |
| `LastResponseInForce` | `ResponsesInForce` | the stored differences determine the responses |
| `LinesAreDrawn` | `LineDrawn` | `OnCourse`: the error that DrawLine carries is the distance from the line, and a round that keeps within half a pixel leaves it so; by induction over the rounds, one column each |
| `DiffsAreShortest` | `DiffIsShortest` | by induction on the sum of a cell's indices: the script of the cell leads from one beginning to the other and keeps as many lines as the table says, and no text within both beginnings is longer |
| `NodePathsLast` | `WaysLast` | the nodes that a way passes, by induction along it: a tool that takes no node away leaves each of them its children and adds new ones behind them |
| `OutlinerLosesNothing` | `OutlinerKeepsActors` | `OutlinerInv`: what was seen is ascending and ends at the key, and an actor that matched all the while was seen or lies behind the key. For the folders: what a path becomes when the folder above it goes |
| `ContentProofs!GraphStaysSound` | `GraphSound` | the four parts of it and that the node which the editor made with the graph is there |
| `AssetsAreKept` | `NothingOverwritten` | a move of several assets is a sequence of moves, each of which leaves the multiset of contents as it is |
| `ShownSectionsAreFound` | `SectionsFound` | culling leaves a path without empty parts as it is; such a path without ambiguity has one reading, by which binding and which title its parts name |
| `WalksStayComplete` | `WalksComplete` | `ReadInv`, `ListerInv`: an entry that is owed was shown or lies behind the key, and what was shown does not. The call sites from a cursor are those of one request and those from the next cursor. The pages of a table reach its end by induction on what is left |
| `GraphsAreTrue` | `GraphIsTrue` | `FrontierInv`, `DistanceInv`, `FollowedInv`, `CutInv`: the frontier is sorted and spans two depths; until `max_nodes` bites, all that is nearer is in the graph, so a new package is at its distance; the edges are the hops from what left the frontier. Each round takes one package off it, so there are enough rounds |

### Assumptions

Each is an ASSUME with a name, evaluated by TLC on the instances:

* Sizes and numbers: `ConstantsAssumption`, `ServerAssumption`, `CapacityAssumption`,
  `MaxEntriesAssumption`, `SizesAssumption`, `PageSizeAssumption`, `LinesAreNumbers`, `ShownAreNumbers`,
  `PathsAreNumbers`, `ActorPageAssumption`, `ReadSizes`, `ParametersAssumption`, `RowsAreNumbers`.
* The kinds of requests are disjoint and finite in number: `RequestsAssumption`.
* Lists are lists, and null values are none of the values: `PlacesAndLists`, `BatchListsAreLists`,
  `RunListsAreLists`, `TextsAreLines`, `FiltersAssumption`, `NoneIsNoActor`, `NoComponentIsNone`,
  `NothingIsNoContents`, `TreeNodes`; folders are lists of names: `FoldersAreNames`.
* What exists is finite: `PathsFinite`, `NamesAndThreads` (which also numbers the categories, so that
  they have an order).
* From the code: `FramesAsked`, a capture is asked for at least one frame; `GapCoversCleanup`, the gap
  that `pie.start` keeps after `pie.stop` exceeds the engine's cleanup, which is what the gap is for;
  `NamesHaveParts`, no name of a binding or track is the empty text; `PrintedAssumption`, no two names print alike.

### Lemmas

`DataLemmas` has what the proofs share. Induction is over subsets of the numbers or of a finite set
(`SetInduction`, `SubsetInduction`). A recursive function over such a set has a value:
`Iterated` for one that looks at its predecessor, `Ranked` for one whose every step looks at
arguments of a lower rank, as a table over two indices does. The rest is sums over finite sets
and how they change with one summand, queues without repetition, sorted listings and their pages
(`PageTaken` as a sequence, `FirstOnes` as a set), and slices of a sequence.
`WorldProofs` adds trees: the ancestors of a node are the least set that is closed under parents
(`Above` walks as many steps as there are nodes, and by counting more would find no new one), and
how they change when a leaf is added or an edge is cut or moved.

### Model-checked only

Liveness: the installed provers have none under fairness. It is what `JobsSettle`, `UnloadEnds`,
`EventuallyAnswered` and `StopsEventually` state. Every safety property that a passing run checks is
stated by a theorem.

## 5. Limits of the models

### What is abstracted

* Names, texts, numbers in payloads, verbosity and formatting are left out; a request is its kind.
  Positions are small integers on one axis, images a few pixels, values of properties two or three.
* `FMCPRequest` parsing is an outcome (fine, malformed, bad kind). Python is an outcome.
* Sequentially consistent memory: atomics of the code use acquire and release, and the only unlocked
  non-atomic data modelled are ErrorMessage, Result and FinishedAt, written before the release of State.
* `PoolCreates` can model a pool that cannot be created; the runs use one that can. In the code a
  failed creation leaves a dead pool and the first job Pending (`FMCPJobRegistry.cpp:207` against
  `:114-119`).
* The branch of SubmitJob in which the pool is gone (`FMCPJobRegistry.cpp:209-213`) writes the job's fields in
  one step of `Enqueue`. Where the pool can be created no run comes there: that is PoolOutlivesWork.
* A second load of the module in one process is not modelled: `bShutdown` is never reset.
* The engine (pool, ticker, listener, scene, assets, blueprints, source control and the rest) is
  modelled by how the code uses it and marked external in the map. Undo is the engine's and is left
  out; so is what a user does by hand, except starting and ending a play session, saving, and the
  changes to a listing between two pages.
* A surface is checked by itself. What couples two of them in the code is the mutator scope, the play
  session and the dirty packages, and these are shared in the models too.

### Not modelled

* **Python bootstrap, registry and composites.** The first two are written once, at import, on one thread.
  The composites call methods over TCP from the game thread; each method they call today is of lane B, and
  the helper that waits for a job is called by no tool (section 6).
* **`umg.*`**: trees of widgets, edited like the components of a blueprint (BlueprintGraph), and synthetic clicks.
* **Meshes, textures, effects, landscape, animation assets, sound, navigation, engine reads.** Each
  handler reads or writes one object of the engine in one step and keeps nothing: there is no second
  step that could disagree with the first. Their edits go through the mutator scope as EditorSession has it.
* **Reads of the modelled surfaces** that only format what the engine answers. The notes of
  `PROJECT.json` name them for each component.
* **Inside of some job bodies**: asset and blueprint composites other than those of section 2, and the cook
  with its monitor of a child process. The registry's view of them (how they end, when they look at the
  cancel flag) is in JobRegistry.
* **Marshalling, path and pin-type parsers, base64 of the page token**: pure conversions, well within
  reach of unit tests.

## 6. Findings

Shown by a run:

1. **JobRegistryUnloadGT**. `UnrealMCPBridge.cpp:85` says bodies that ignore a cancel run to completion
   while the pool's Destroy blocks. A body that needs the game thread cannot: its worker waits for the
   ticker and the game thread waits for the worker. The unload never ends.
2. **JobRegistryCancel**. `LevelCompositeTools.h:39` says a body that bails out with the message
   "cancelled" ends Cancelled. The registry tests the message first, so the job ends Failed; a cook
   that was cancelled ends the same way.
3. **BridgeServerSpawn**. `FMCPServer.cpp:128` leaves the socket to the listener after a failed spawn,
   but the connection object's destructor destroys it as well.

Met while modelling, without a run of their own. The core:

* `FMCPDay7Handlers.cpp:258` says GetStatus reads atomics under the lock. It also copies ErrorMessage,
  which a worker writes without the lock, and Job.Description, which bodies write in the same way.
* The listener accepts before the handlers are registered (`UnrealMCPBridge.cpp:33` and `:54`), and
  the unload drops the handlers before it stops the server. A Lane B request in these windows finds
  no thread-safe method and goes to the game thread, although `FMCPDispatchQueue.h:21-23` promises the lane.
* `docs/architecture.md:115` says a connection processes its requests sequentially; a Lane B request
  overtakes earlier Lane A requests. LaneAInOrder is what does hold.
* `docs/architecture.md:117` says any line larger than the cap aborts the connection; the cap is tested only when no
  newline is left (`FMCPConnection.cpp:152`), with >=, so a finished line may exceed it by one chunk
  and an unfinished one of just the cap is refused. BufferBounded states the bound that holds.
* `FMCPConnection.cpp:294` says whatever id was sent is echoed; a request without a kind or with an
  unknown one (`:301`, `:308`) is answered under a fresh GUID when its id is not a GUID.
  AnsweredAsAsked states the promise for requests that are dispatched.
* `FMCPServer.cpp:79` joins connection threads with no limit of time; a client that does not read
  holds Stop, and with it the editor.
* `FMCPConnection.cpp:383-387` gives up on a response when a Send fails, perhaps after a part of it, and
  neither closes the connection nor remembers the cut: the next response is written right behind it, and
  the client reads the two as one line. `FMCPServer.cpp:166` only logs it.
* A client that shuts down its sending half gets no answer to queued requests (`FMCPConnection.cpp:98`).
* `FMCPLogStream.h:69` calls GetLastN chronological; times are taken before the lock, so lines of two
  threads may be stored the other way round.
* `log.search` counts the ring in a second critical section (`FMCPDay7Handlers.cpp:533`); after a
  clear in between it shows more lines than it says it scanned. `FMCPLogStream.h:105` calls `log.clear`
  a Lane A tool; it is registered for Lane B.
* `FMCPJobRegistry.h:47` and `:83` describe the state transitions and the result more strictly than
  the code writes them.
* `editor.tick_once` ticks the core ticker inside a handler that Drain is running (`EditorTools.cpp:1042`),
  so bodies of jobs run in the middle of another request.
* `Content/Python/MCPTools/tools/asset_tools.py:126` says that time.sleep releases the game thread to the bodies
  of jobs; it does not: a composite that waits so for a job with such a body waits in vain. No tool calls it today.

Pages and paths that do not last:

* `docs/architecture.md:240` says a keyset page survives inserts and deletes. It does where keys are
  unique. The lists of dependents and references have an entry for each link, so a package that two others
  need has two with one key, and if a page ends between them the second is lost (`AssetRegistryTools.cpp:153`).
* Two walks compare the token by another order than they sort by: rows of a data table
  (`DataTableTools.cpp:248` against `:258`) and parameters of a material (`MaterialTools.cpp:281` against
  `:406`). FName puts Row_2 before Row_10, text the other way round. ParametersPaged and RowsPaged state
  what holds, and exempt such names.
* `AIBehaviorTreeTools.cpp:238` says Root/Children[N]/Decorators[M] is a decorator of the slot N of the root,
  and the reply of `ai.bt.add_decorator` (`:1242`) says so too. The walk has gone down into the child by then
  (`:358`), and looks in the slot N of the child; on a task it meets a failed check (`:398`).
* The path of a section is split at its dots, empty parts are dropped (`SequencerTools.cpp:329`), the first
  part is the binding and the rest the track (`:413`), and a path of one part is a master track or the
  camera cuts (`:363`). So a binding with a dot in its name, a master track or camera cuts with a dot in the
  title, and any name with an empty part ("a..b", "x.") cannot be named by what `get_tracks` shows; such a
  path may even lead to another track, whose name is what the culling leaves.
* `ai.bt.remove_node` (`AIBehaviorTreeTools.cpp:1429`) moves the later siblings up, so a path kept from an earlier
  reply names the next one.
* Two mappings of one action and key: only the first can be edited (`InputTools.cpp:275`, which says so).

Replies that say more than was done, and edits that are not noted:

* `level.set_streaming_state` (`LevelTools.cpp:678`) and `physics.set_simulation`
  (`PhysicsTools.cpp:748`) change what a map stores without flagging its package. EditsFlagged holds
  of all other tools of a world.
* `cfg.set_cvar` answers set although a value given at the console outranks it (`ConfigTools.cpp:593`);
  `cfg.write` takes the file's existence for the flush (`:963`).
* `soft_ref.fix_redirectors` counts what it loaded as fixed (`SoftRefTools.cpp:506`). `sc.revert` judges
  success by the state of the file after it, whatever the operation did (`SourceControlTools.cpp:982`).
* `livecoding.recompile` reads the last log entries without regard to when the compile began
  (`LiveCodingTools.cpp:288`), so it may report the modules of the one before.
* `screenshot.diff` is documented to answer images of two sizes with a difference of 100
  (`ScreenshotTools.cpp:1159`) and answers an error (`:1316`). `bp.set_variable_metadata` stores a
  notify function that it says is ignored (`BlueprintTools.cpp:3245`).
* `level.unload` asks the level for its package after it was removed from the world (`LevelTools.cpp:621`).
* `cb.export` deletes the old file before it knows that it can write the new one
  (`ContentBrowserTools.cpp:904`). Thumbnails of assets with one leaf overwrite each other, deliberately
  (`ThumbnailTools.cpp:302`).
* `actor.attach` refuses to cross sublevels (`ActorTools.cpp:1337`), `hierarchy.attach` does not.

Diagnostics and sessions:

* The ticker that ends a stat capture (`StatTools.cpp:400`) does not know which one it was made for. A second
  capture that begins before the first has its frames is ended by the first one's ticker, with fewer
  frames than its reply promised.
* `test.run_single` (`TestTools.cpp:465`) and `test.run_automation` (`TestCompositeTools.cpp:241`) do not ask whether
  the editor's window has a test under way; StartTestByName then ends that one.
* The minimal gap before a new play session counts from `pie.stop` only (`PIETools.cpp:497`); a session
  that the user ends leaves no trace there.
* `memreport.generate` keeps the game thread, whose next tick writes the file, while it waits for the
  file (`MemReportTools.cpp:214`).
* `TestCompositeTools.cpp:244` drives the test framework without the lock of `TestTools.cpp:38`.

## 7. Plan

Done: the core (jobs, server, lanes, log, framing) and the surfaces of the tools, checked over one
editor session; the safety properties of both are proved. What is left, in this order:

1. **Composites** over TCP: which methods may be called without a deadlock, what a timeout followed
   by a retry submits, what a nested tick may run.
2. **`umg.*`**, then the cook with its monitor and its 10 s limit on a cancel.
3. **Parsers** of `Core/Private/Utils` as operators over short token sequences.
