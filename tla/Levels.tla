------------------------------- MODULE Levels -------------------------------
(* Maps: level.*, level_streaming.*, wp.*.  Packages are the maps; the      *)
(* editor world is one of them with streaming entries for others.  Opening  *)
(* another world drops what was not saved of the old one; whether the       *)
(* editor asks first is the engine's.                                       *)
EXTENDS EditorSession, FiniteSets

CONSTANTS
  NoWorld      \* the untitled world of a new editor

VARIABLES
  onDisk,      \* maps that exist on disk
  world,       \* the persistent map, or NoWorld
  entry,       \* its streaming entries: map -> [loaded, visible]
  grid,        \* actors of the world that have a runtime grid: whether
  saving       \* the job of level.save_all_dirty waits for the ticker

levelVars == <<onDisk, world, entry, grid, saving>>

inWorld == DOMAIN entry \cup {world}

LevelInit ==
  /\ onDisk \in Start("levels", SUBSET Packages)
  /\ world = NoWorld
  /\ entry = << >>
  /\ grid = FALSE
  /\ saving = FALSE

\* The world changes to m, without streaming entries that are worth a model.
Opened(m) ==
  /\ world' = m
  /\ entry' = << >>
  /\ grid' = FALSE

\* level.load: the map has to exist.
LevelLoad ==
  \E m \in onDisk :
    /\ ScopeOpen
    /\ Opened(m)
    /\ Written(inWorld)
    /\ UNCHANGED <<onDisk, saving>>

\* level.create, blank or from a template that exists: the engine refuses a
\* path that is taken, saves the new map and opens it.
LevelCreate ==
  \E m \in Packages \ onDisk, template \in onDisk \cup {NoWorld} :
    /\ ScopeOpen
    /\ Opened(m)
    /\ onDisk' = onDisk \cup {m}
    /\ Written(inWorld)
    /\ UNCHANGED saving

\* level.save: the current level, or a loaded sublevel.
LevelSave ==
  \E m \in inWorld :
    /\ ScopeOpen
    /\ m \in Packages
    /\ m # world => entry[m].loaded
    /\ onDisk' = onDisk \cup {m}
    /\ Written({m})
    /\ UNCHANGED <<world, entry, grid, saving>>

\* level.duplicate: the source exists, the destination does not.
LevelDuplicate ==
  \E source \in onDisk, dest \in Packages \ onDisk :
    /\ onDisk' = onDisk \cup {dest}
    /\ Edit({dest})
    /\ UNCHANGED <<world, entry, grid, saving>>

Without(m) == [n \in DOMAIN entry \ {m} |-> entry[n]]

\* level.unload: a loaded sublevel; the persistent level is refused.  Nothing
\* flags the persistent map, RemoveLevelFromWorld does.
LevelUnload ==
  \E m \in DOMAIN entry :
    /\ entry[m].loaded
    /\ entry' = Without(m)
    /\ Edit({world} \cap Packages)
    /\ UNCHANGED <<onDisk, world, grid, saving>>

\* level.set_streaming_state changes the entry, which the persistent map stores,
\* and flags no package.
SetStreamingState ==
  \E m \in DOMAIN entry, loaded, visible \in BOOLEAN :
    /\ ScopeOpen
    /\ entry' = [entry EXCEPT ![m] = [loaded |-> loaded, visible |-> visible]]
    /\ Flag(IF entry' = entry THEN {} ELSE {world}, {})
    /\ UNCHANGED <<onDisk, world, grid, saving>>

\* level_streaming.add: the map exists and has no entry yet.
StreamingAdd ==
  \E m \in onDisk \ inWorld :
    /\ world # NoWorld
    /\ entry' = [n \in DOMAIN entry \cup {m} |->
                   IF n = m THEN [loaded |-> TRUE, visible |-> TRUE] ELSE entry[n]]
    /\ Edit({world})
    /\ UNCHANGED <<onDisk, world, grid, saving>>

\* level_streaming.remove: the level and its entry, or an entry whose level is
\* not loaded.
StreamingRemove ==
  \E m \in DOMAIN entry :
    /\ entry' = Without(m)
    /\ Edit({world})
    /\ UNCHANGED <<onDisk, world, grid, saving>>

\* level_streaming.set_loaded: in a PIE session it turns to the PIE world and
\* leaves the editor's entry alone.
SetLoaded ==
  \E m \in DOMAIN entry, loaded, visible \in BOOLEAN :
    /\ IF pie
       THEN UNCHANGED entry /\ Look
       ELSE /\ entry' = [entry EXCEPT ![m] = [loaded |-> loaded, visible |-> visible]]
            /\ Flag({world}, {world})
    /\ UNCHANGED <<onDisk, world, grid, saving>>

\* level.set_world_settings: properties outside the writable subset, or that
\* cannot be written, are rejected one by one; the others are applied.
SetWorldSettings ==
  \E rejected \in BOOLEAN :
    /\ world # NoWorld
    /\ ScopeOpen
    /\ Flag(IF rejected THEN {} ELSE {world}, IF rejected THEN {} ELSE {world})
    /\ UNCHANGED levelVars

\* wp.set_actor_runtime_grid.
SetActorRuntimeGrid ==
  /\ world # NoWorld
  /\ grid' \in BOOLEAN
  /\ Edit({world})
  /\ UNCHANGED <<onDisk, world, entry, saving>>

\* level.save_all_dirty: a PIE session is refused when the job is submitted.
SubmitSaveAllDirty ==
  /\ ~pie
  /\ saving' = TRUE
  /\ Look
  /\ UNCHANGED <<onDisk, world, entry, grid>>

\* The engine saves no package while a PIE world runs.
SavedByJob(maps) == IF pie THEN {} ELSE maps

\* Its body, later and in one step of the game thread: it takes the dirty maps
\* of that moment, and a cancellation leaves the rest; some fail.
SaveAllDirtyBody ==
  \E maps \in SUBSET dirty, cancelled \in BOOLEAN :
    /\ saving
    /\ saving' = FALSE
    /\ onDisk' = onDisk \cup SavedByJob(maps)
    /\ Written(SavedByJob(maps))
    /\ UNCHANGED <<world, entry, grid>>

LevelNext ==
  \/ LevelLoad \/ LevelCreate \/ LevelSave \/ LevelDuplicate \/ LevelUnload
  \/ SetStreamingState \/ StreamingAdd \/ StreamingRemove \/ SetLoaded
  \/ SetWorldSettings \/ SetActorRuntimeGrid \/ SubmitSaveAllDirty \/ SaveAllDirtyBody

------------------------------------------------------------------------------
(* Reads.                                                                   *)

\* level.list_loaded and level_streaming.list.
ListLoaded == {world} \cup {m \in DOMAIN entry : entry[m].loaded}
StreamingList == DOMAIN entry
=============================================================================
