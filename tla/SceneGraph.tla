----------------------------- MODULE SceneGraph -----------------------------
(* Actors of the editor world, their attachment and their place: the        *)
(* actor.* tools that spawn, destroy, attach and move, hierarchy.*,          *)
(* transform.* and the spatial queries.  A transform is its coordinate on   *)
(* one axis; rotation and scale behave alike.  `rel` is the coordinate      *)
(* relative to the parent, as the engine stores it.                         *)
EXTENDS EditorSession, Trees, Integers, SequencesExt, FiniteSets

CONSTANTS
  Actors,      \* paths of actors
  None,        \* no parent
  LevelOf,     \* Actors -> Packages: the level an actor is spawned into
  Coords,      \* coordinates that requests give; world positions stay in it
  Requests     \* the lists of actor paths that requests give

ASSUME NoneIsNoActor == None \notin Actors
ASSUME PlacesAndLists == Coords \subseteq Int /\ Requests \subseteq Seq(Actors)

VARIABLES
  up,          \* live actors -> their attach parent
  rel,         \* live actors -> relative coordinate
  visible,     \* levels that are visible
  moved        \* what the last transform.align did: a ghost

sceneVars == <<up, rel, visible, moved>>

live == DOMAIN up

NothingMoved == [list |-> <<>>, value |-> 0]

SceneInit ==
  /\ up = << >>
  /\ rel = << >>
  /\ visible = Packages
  /\ moved = NothingMoved

------------------------------------------------------------------------------
(* Helpers.                                                                 *)

\* The world coordinate of an actor.
PosIn(rels, tree, a) == rels[a] + SumFunctionOnSet(rels, Above(tree, a))
Pos(a) == PosIn(rel, up, a)

\* SetActorLocation: the relative coordinate that puts a at x.
Place(rels, tree, a, x) ==
  [rels EXCEPT ![a] = x - SumFunctionOnSet(rels, Above(tree, a))]

InCoords == \A a \in DOMAIN up' : PosIn(rel', up', a) \in Coords

\* ACT_ResolveActorOrError with bCheckSublevelVisible.
Editable(a) == a \in live /\ LevelOf[a] \in visible

\* The places in the list of a request whose actors resolve.
Resolved(list) == {i \in DOMAIN list : list[i] \in live}
Named(list) == {list[i] : i \in Resolved(list)}

\* Mutant: one package is queued for all of them.
LevelsOfOne(actors) == IF actors = {} THEN {} ELSE {LevelOf[CHOOSE a \in actors : TRUE]}

LevelsOf(actors) == {LevelOf[a] : a \in actors}

\* The packages whose actors the step changes, whatever the handler flags.
Rewritten == {LevelOf[a] : a \in {b \in live \cup DOMAIN up' :
              \/ b \notin live \cap DOMAIN up'
              \/ <<up'[b], rel'[b]>> # <<up[b], rel[b]>>}}

\* A mutator that marks the packages of these actors, and no other.
Marked(actors) == ScopeOpen /\ Flag(Rewritten, LevelsOf(actors))

Rules == {"KeepRelative", "KeepWorld", "Snap"}

\* The engine's attachment and detachment rules for the location.
Kept(rule, a, tree) ==
  CASE rule = "KeepRelative" -> [rel EXCEPT ![a] = rel[a]]
    [] rule = "KeepWorld"    -> Place(rel, tree, a, Pos(a))
    [] rule = "Snap"         -> [rel EXCEPT ![a] = 0]

Attached(child, p, rule) ==
  /\ up' = [up EXCEPT ![child] = p]
  /\ rel' = Kept(rule, child, up')

------------------------------------------------------------------------------
(* actor.*                                                                  *)

NewActor(a, x) ==
  /\ a \notin live
  /\ up' = [b \in live \cup {a} |-> IF b = a THEN None ELSE up[b]]
  /\ rel' = [b \in live \cup {a} |-> IF b = a THEN x ELSE rel[b]]

\* actor.spawn.  The target level has to be visible.  A folder or a tag that
\* is too long is refused after SpawnActor: the actor stays.
Spawn ==
  \E a \in Actors, x \in Coords :
    /\ LevelOf[a] \in visible
    /\ NewActor(a, x)
    /\ Marked({a})

\* actor.duplicate: a template copy in the level of its source, unattached.
Duplicate ==
  \E source, a \in Actors, offset \in Coords :
    /\ Editable(source)
    /\ LevelOf[a] = LevelOf[source]
    /\ NewActor(a, Pos(source) + offset)
    /\ InCoords
    /\ Marked({a})

\* EditorDestroyActor detaches the children where they stand and marks them.
Unlinked(a) ==
  LET kids == Children(up, a)
  IN  /\ up' = Prune(up, {a}, None)
      /\ rel' = [b \in live \ {a} |-> IF b \in kids THEN Pos(b) ELSE rel[b]]

Destroy ==
  \E a \in Actors :
    /\ Editable(a)
    /\ Unlinked(a)
    /\ Marked({a} \cup Children(up, a))

\* Mutant: only the actor itself is looked for.
WouldCycleShallow(p, child) == p = child

\* ACT_AttachWouldCycle.
WouldCycle(p, child) == p = child \/ child \in Above(up, p)

\* actor.attach.
Attach ==
  \E child, p \in Actors, rule \in Rules :
    /\ Editable(child) /\ Editable(p)
    /\ child # p
    /\ LevelOf[child] = LevelOf[p]
    /\ ~WouldCycle(p, child)
    /\ Attached(child, p, rule)
    /\ InCoords
    /\ Marked({child, p})

DetachFromActor(child, rule) ==
  /\ up' = [up EXCEPT ![child] = None]
  /\ rel' = Kept(rule, child, up')

\* actor.detach; without a parent it succeeds and changes nothing.
Detach ==
  \E child \in Actors, rule \in Rules \ {"Snap"} :
    /\ Editable(child)
    /\ DetachFromActor(child, rule)
    /\ InCoords
    /\ Marked({child})

\* actor.set_transform.
SetTransform ==
  \E a \in Actors, x \in Coords :
    /\ Editable(a)
    /\ rel' = Place(rel, up, a, x)
    /\ UNCHANGED up
    /\ InCoords
    /\ Marked({a})

\* actor.set_location; actor.set_rotation and actor.set_scale do the same to
\* their part of the transform.
SetLocation == SetTransform

ActorEdits ==
  /\ Spawn \/ Duplicate \/ Destroy \/ Attach \/ Detach \/ SetLocation
  /\ moved' = NothingMoved
  /\ UNCHANGED visible

------------------------------------------------------------------------------
(* hierarchy.*: neither the levels nor their visibility are compared, and a *)
(* loop is left to AttachToActor, which refuses it.                         *)

HierarchyAttach ==
  \E child, p \in Actors, rule \in Rules :
    /\ {child, p} \subseteq live
    /\ child # p
    /\ child \notin Above(up, p)
    /\ Attached(child, p, rule)
    /\ InCoords
    /\ Marked({child})

HierarchyDetach ==
  \E child \in Actors, rule \in Rules \ {"Snap"} :
    /\ child \in live
    /\ DetachFromActor(child, rule)
    /\ InCoords
    /\ Marked({child})

HierarchyEdits ==
  /\ HierarchyAttach \/ HierarchyDetach
  /\ moved' = NothingMoved
  /\ UNCHANGED visible

\* hierarchy.list_children.
ListChildren(a, recursive) == IF recursive THEN Below(up, a) ELSE Children(up, a)

------------------------------------------------------------------------------
(* transform.*: a list of actors, in its order; what does not resolve is    *)
(* reported and left out, and a request of which nothing resolves refused.  *)

\* The actor at place i of the list goes from where it is to the goal for that.
MoveAt(i, list, goal, rels) ==
  IF i \notin Resolved(list) THEN rels
  ELSE Place(rels, up, list[i], goal[PosIn(rels, up, list[i])])

\* The relative coordinates after each actor of the list: one after the other,
\* parents and children as they come.
Moves(list, goal) ==
  LET after[i \in 0 .. Len(list)] ==
        IF i = 0 THEN rel ELSE MoveAt(i, list, goal, after[i - 1])
  IN  after

MovedTo(list, goal) == rel' = Moves(list, goal)[Len(list)] /\ UNCHANGED up /\ InCoords

\* transform.batch_set.
BatchSet ==
  \E list \in Requests, x \in Coords, relative \in BOOLEAN :
    /\ Resolved(list) # {}
    /\ MovedTo(list, [at \in Int |-> IF relative THEN at + x ELSE x])
    /\ Marked(Named(list))
    /\ moved' = NothingMoved

\* The first thing below an actor at x that a trace meets: here one floor.
Trace(x, maxDist, floor) == floor <= x /\ x - floor <= maxDist

\* transform.snap_to_floor: an actor with nothing below it is left alone.
SnapToFloor ==
  \E list \in Requests, floor, maxDist \in Coords :
    LET goal == [at \in Int |-> IF Trace(at, maxDist, floor) THEN floor ELSE at]
        hit  == {i \in Resolved(list) :
                   Trace(PosIn(Moves(list, goal)[i - 1], up, list[i]), maxDist, floor)}
    IN  /\ maxDist > 0
        /\ Resolved(list) # {}
        /\ MovedTo(list, goal)
        /\ Marked({list[i] : i \in hit})
        /\ moved' = NothingMoved

\* The value that transform.align writes; the positions are read before any
\* actor moves, once for each time an actor is named.
AlignValue(mode, list, x) ==
  LET at == [i \in Resolved(list) |-> Pos(list[i])]
  IN  CASE mode = "set" -> x
        [] mode = "min" -> Min(Range(at))
        [] mode = "max" -> Max(Range(at))
        [] mode = "average" ->
             SumFunctionOnSet(at, Resolved(list)) \div Cardinality(Resolved(list))

\* transform.align.
Align ==
  \E list \in Requests, mode \in {"set", "min", "max", "average"}, x \in Coords :
    LET value == AlignValue(mode, list, x)
    IN  /\ Resolved(list) # {}
        /\ MovedTo(list, [at \in Int |-> value])
        /\ Marked(Named(list))
        /\ moved' = [list |-> list, value |-> value]

TransformEdits == (BatchSet \/ SnapToFloor \/ Align) /\ UNCHANGED visible

------------------------------------------------------------------------------
(* Spatial queries.  The reply is cut at limit, the total is not.           *)

BoxQuery(low, high) == {a \in live : Min({low, high}) <= Pos(a) /\ Pos(a) <= Max({low, high})}

SphereQuery(center, radius) ==
  {a \in live : (Pos(a) - center) * (Pos(a) - center) <= radius * radius}

------------------------------------------------------------------------------
\* The user shows or hides a level.
LevelShown ==
  /\ \E l \in Packages : visible' = (visible \ {l}) \cup ({l} \ visible)
  /\ UNCHANGED <<session, up, rel, moved>>

SceneNext == ActorEdits \/ HierarchyEdits \/ TransformEdits \/ LevelShown

------------------------------------------------------------------------------
(* Properties.                                                              *)

\* The attachments of live actors form a forest of live actors, however
\* attach, detach, duplicate and destroy follow one another; the parent walks
\* of the tools end.
AttachedInForest ==
  /\ IsForest(up)
  /\ \A a \in live : up[a] # None => up[a] \in live

\* transform.align puts an actor of its list on the common value unless one of
\* the actor's attach ancestors comes later in the list: that one's move takes
\* the actor along again.  Then a box query at the value does not find it.
AlignedUnlessAncestorFollows ==
  \A i \in Resolved(moved.list) :
    (\A j \in Resolved(moved.list) : i < j => moved.list[j] \notin Above(up, moved.list[i]))
      => moved.list[i] \in BoxQuery(moved.value, moved.value)

\* However attachments, moves and alignments alternate, the scene is one that
\* the replies describe.
SceneSound == AttachedInForest /\ AlignedUnlessAncestorFollows
=============================================================================
