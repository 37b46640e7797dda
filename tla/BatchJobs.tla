------------------------------ MODULE BatchJobs ------------------------------
(* The bodies of the batch jobs over actors: they are submitted by lane B   *)
(* and run later, in one step of the game thread, over what the world has   *)
(* become by then.  A cancellation comes in from lane B at any item.        *)
EXTENDS EditorSession, Integers, Sequences, FiniteSets

CONSTANTS
  BatchActors,   \* actors that requests name
  BatchLists,    \* the lists that requests give, not empty
  DumpMax        \* kLCOMaxActorsPerDump

ASSUME BatchListsAreLists == BatchLists \subseteq Seq(BatchActors)

VARIABLES
  here,        \* actors of the world
  hidden,      \* those in a hidden level
  batch,       \* the submitted job, or NoBatch
  report       \* what the last body did: a ghost

batchVars == <<here, hidden, batch, report>>

NoBatch == [kind |-> "none", items |-> <<>>]
NoReport == [kind |-> "none", items |-> {}, before |-> {}, ok |-> {}, failed |-> {}, ended |-> "ran"]

BatchInit ==
  /\ here \in Start("batch", SUBSET BatchActors)
  /\ hidden = {}
  /\ batch = NoBatch
  /\ report = NoReport

\* The submitters check the form of the list, nothing of the world.
SubmitBatch ==
  /\ batch = NoBatch
  /\ \E kind \in {"spawn", "destroy", "set", "find", "dump"}, items \in BatchLists :
       batch' = [kind |-> kind, items |-> items]
  /\ Look
  /\ UNCHANGED <<here, hidden, report>>

\* The items before the one at which the body sees the cancel flag.
Reached(n) == {batch.items[i] : i \in 1 .. n}

Report(ok, failed, ended) ==
  [kind |-> batch.kind, items |-> Reached(Len(batch.items)), before |-> here,
   ok |-> ok, failed |-> failed, ended |-> ended]

\* A cancelled body returns no result, whatever it has done.
Ended(n, ok, failed) ==
  report' = IF n < Len(batch.items) THEN Report({}, {}, "cancelled") ELSE Report(ok, failed, "ran")

\* actor._batch_spawn_internal: an item that is malformed, or whose class or
\* name is refused, fails alone; for a name that is taken the engine finds
\* another.
BatchSpawn ==
  \E n \in 0 .. Len(batch.items), refused \in SUBSET BatchActors :
    LET ok == Reached(n) \ refused
    IN  /\ batch.kind = "spawn"
        /\ here' = here \cup ok
        /\ Ended(n, ok, Reached(n) \ ok)
        /\ Edit(IF ok = {} THEN {} ELSE Packages)

\* Mutant: an actor that is gone is a failure, and a hidden one is destroyed.
DestroyableHidden(items) == items \cap here

\* What the level's visibility lets the body destroy.
Destroyable(items) == (items \cap here) \ hidden

\* actor._batch_destroy_internal: an actor that is already gone counts as done.
BatchDestroy ==
  \E n \in 0 .. Len(batch.items) :
    LET gone == Destroyable(Reached(n))
    IN  /\ batch.kind = "destroy"
        /\ here' = here \ gone
        /\ Ended(n, Reached(n) \ hidden, Reached(n) \cap hidden)
        /\ Edit(IF gone = {} THEN {} ELSE Packages)

\* actor._batch_set_property_internal: the property may be missing, read-only
\* or of another type.
BatchSetProperty ==
  \E n \in 0 .. Len(batch.items), refused \in SUBSET BatchActors :
    LET ok == (Reached(n) \cap here) \ (hidden \cup refused)
    IN  /\ batch.kind = "set"
        /\ UNCHANGED here
        /\ Ended(n, ok, Reached(n) \ ok)
        /\ Edit(IF ok = {} THEN {} ELSE Packages)

\* A batch that edits finds a PIE world when it runs.
BatchRefused ==
  /\ batch.kind \in {"spawn", "destroy", "set"}
  /\ pie
  /\ report' = Report({}, {}, "refused")
  /\ UNCHANGED here
  /\ Look

\* The actors in the levels that a search or a dump covers: too many are refused
\* before any is walked; it reads the editor world in a PIE session too.
Scanned(kind, covered, matching) ==
  /\ batch.kind = kind
  /\ UNCHANGED here
  /\ \/ Cardinality(covered) > DumpMax /\ report' = Report({}, {}, "refused")
     \/ Cardinality(covered) <= DumpMax /\ report' = Report(matching, {}, "ran")
     \/ Cardinality(covered) <= DumpMax /\ report' = Report({}, {}, "cancelled")
  /\ Look

\* level._full_actor_dump_internal.
FullActorDump == Scanned("dump", here, here)

\* level._find_actors_with_class_internal.
FindActors == \E covered \in SUBSET here : \E matching \in SUBSET covered : Scanned("find", covered, matching)

RunBatch ==
  /\ BatchSpawn \/ BatchDestroy \/ BatchSetProperty \/ BatchRefused \/ FindActors \/ FullActorDump
  /\ batch' = NoBatch
  /\ UNCHANGED hidden

\* Meanwhile other requests destroy actors and hide levels.
WorldMoves ==
  /\ \/ \E a \in here : here' = here \ {a} /\ hidden' = hidden \ {a} /\ Edit(Packages)
     \/ \E a \in here : hidden' = hidden \cup {a} /\ UNCHANGED here /\ Look
  /\ UNCHANGED batch
  /\ report' = NoReport

BatchNext == SubmitBatch \/ RunBatch \/ WorldMoves

------------------------------------------------------------------------------
(* Properties.                                                              *)

\* A batch job that was neither cancelled nor refused accounts for each item
\* of its request once, and its account is true of the world that it left:
\* what it says it spawned or set is there, what it says it destroyed is gone,
\* and it touched nothing else, although actors went and levels were hidden
\* between the request and the body.
BatchAccountTrue ==
  report.kind \in {"spawn", "destroy", "set"} /\ report.ended = "ran" =>
    /\ report.ok \cup report.failed = report.items
    /\ report.ok \cap report.failed = {}
    /\ here = CASE report.kind = "spawn"   -> report.before \cup report.ok
                [] report.kind = "destroy" -> report.before \ report.ok
                [] report.kind = "set"     -> report.before
=============================================================================
