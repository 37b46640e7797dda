----------------------------- MODULE PlaySession -----------------------------
(* Play-In-Editor sessions: pie.*, and the tools that work on the play      *)
(* world while there is one and on the editor world otherwise (physics.*,   *)
(* the viewport).  The engine takes a stop up at its next tick and then     *)
(* cleans up for a while; a unit of time is half a second.                  *)
EXTENDS EditorSession, Integers

CONSTANTS
  StartGap,    \* kMinPIEStartGapSeconds
  CleanupTime, \* how long the engine cleans up after a session
  Bodies,      \* primitive components
  Keys,        \* keys and mouse buttons
  Spots        \* camera positions

\* The gap is there because the engine cleans up for less than it
\* (PIETools.cpp:322).
ASSUME GapCoversCleanup ==
  StartGap \in Nat /\ CleanupTime \in Nat /\ CleanupTime < StartGap

VARIABLES
  phase,       \* none, starting, running, ending
  cleanup,     \* the time the engine still cleans up
  sinceStop,   \* gLastPIEStopTimeSeconds, as the time since then
  endedBy,     \* who ended the last session: a ghost
  paused,
  held,        \* keys held down in the play world
  simulated,   \* world -> its bodies that simulate physics
  camera,
  selection

playVars == <<phase, cleanup, sinceStop, endedBy, paused, held, simulated, camera, selection>>

timing == <<phase, cleanup, sinceStop, endedBy>>
playing == <<paused, held>>
viewport == <<camera, selection>>

PlayInit ==
  /\ phase = "none"
  /\ cleanup = 0
  /\ sinceStop = StartGap
  /\ endedBy = "nobody"
  /\ paused = FALSE
  /\ held = {}
  /\ simulated \in [{"editor", "play"} -> {{}}]
  /\ camera \in Start("play", Spots)
  /\ selection = {}

\* The world of the session is a copy of the editor's.
PlayWorldUp ==
  /\ phase' = "running"
  /\ pie' = TRUE
  /\ simulated' = [simulated EXCEPT !["play"] = simulated["editor"]]

------------------------------------------------------------------------------
(* pie.*                                                                    *)

\* Mutant: the gap is not looked at.
GapOverNever == TRUE

GapOver == sinceStop >= StartGap

\* pie.start: the request is queued and taken up at once; the play world may
\* or may not be there when the handler replies.  "standalone" starts another
\* process.
PieStart ==
  \E inProcess \in BOOLEAN :
    /\ phase = "none"
    /\ GapOver
    /\ \/ inProcess /\ PlayWorldUp
       \/ inProcess /\ phase' = "starting" /\ UNCHANGED <<pie, simulated>>
       \/ ~inProcess /\ UNCHANGED <<phase, pie, simulated>>
    /\ UNCHANGED <<focus, dirty, unsaved, cleanup, sinceStop, endedBy, playing, viewport>>

\* pie.stop asks the engine to end the session at its next tick.
PieStop ==
  /\ pie
  /\ phase' = "ending"
  /\ sinceStop' = 0
  /\ endedBy' = "pie.stop"
  /\ Look
  /\ UNCHANGED <<cleanup, playing, simulated, viewport>>

\* pie.pause and pie.resume.
PauseOrResume ==
  /\ pie
  /\ phase = "running"
  /\ paused' = ~paused
  /\ Look
  /\ UNCHANGED <<timing, held, simulated, viewport>>

\* pie.step_frame: one tick of a session that stays paused.
StepFrame == pie /\ paused /\ Look /\ UNCHANGED playVars

\* pie.console_exec: in the editor world, or in worlds of a session; what the
\* command does is the engine's.
ConsoleExec ==
  \E target \in {"pie", "editor", "server", "all_pie"} :
    /\ target # "editor" => pie
    /\ Look
    /\ UNCHANGED playVars

\* pie.simulate_key.
SimulateKey ==
  \E k \in Keys, action \in {"press", "release", "tap"} :
    /\ pie
    /\ held' = IF action = "press" THEN held \cup {k} ELSE held \ {k}
    /\ Look
    /\ UNCHANGED <<timing, paused, simulated, viewport>>

\* A click presses and releases in one step.
Click(k) == pie /\ held' = held \ {k} /\ Look /\ UNCHANGED <<timing, paused, simulated, viewport>>
ClickScreen == \E k \in Keys : Click(k)
\* The actor has to be on the screen.
ClickActor == \E k \in Keys : Click(k)
DragScreen == \E k \in Keys : Click(k)

\* Input and settings of the play world that leave nothing behind here.
InPlay == pie /\ Look /\ UNCHANGED playVars
AddLookInput == InPlay
MoveMouse == InPlay
SetTimeDilation == InPlay

\* pie.focus_actor moves the level viewport to an actor of the play world.
FocusActor ==
  /\ pie
  /\ camera' \in Spots
  /\ Look
  /\ UNCHANGED <<timing, playing, simulated, selection>>

\* pie.is_running.
IsRunning == [running |-> pie, paused |-> pie /\ paused]

------------------------------------------------------------------------------
(* The engine and the user.                                                 *)

EngineTick ==
  /\ sinceStop' = IF sinceStop < StartGap THEN sinceStop + 1 ELSE sinceStop
  /\ \/ /\ phase = "starting"
        /\ PlayWorldUp
        /\ UNCHANGED <<cleanup, playing>>
     \/ /\ phase = "ending"
        /\ phase' = "none"
        /\ pie' = FALSE
        /\ cleanup' = CleanupTime
        /\ simulated' = [simulated EXCEPT !["play"] = {}]
        /\ paused' = FALSE
        /\ held' = {}
     \/ /\ phase \in {"none", "running"}
        /\ cleanup' = IF cleanup > 0 THEN cleanup - 1 ELSE 0
        /\ UNCHANGED <<phase, pie, playing, simulated>>
  /\ UNCHANGED <<focus, dirty, unsaved, endedBy, viewport>>

\* Esc, or the Stop button: the same teardown, and no stamp.
UserEnds ==
  /\ phase = "running"
  /\ phase' = "ending"
  /\ endedBy' = "user"
  /\ Look
  /\ UNCHANGED <<cleanup, sinceStop, playing, simulated, viewport>>

------------------------------------------------------------------------------
(* physics.*                                                                *)

\* PHY_ResolveTraceWorld.
TraceWorld == IF pie THEN "play" ELSE "editor"

\* physics.set_simulation: the root, a named component or all of an actor's.
\* No transaction and no dirty flag, although a body of the editor world is
\* saved with its map.
SetSimulation ==
  \E bodies \in SUBSET Bodies, simulate \in BOOLEAN :
    /\ bodies # {}
    /\ simulated' = [simulated EXCEPT ![TraceWorld] = IF simulate THEN @ \cup bodies ELSE @ \ bodies]
    /\ Flag(IF simulated'["editor"] = simulated["editor"] THEN {} ELSE Packages, {})
    /\ UNCHANGED <<timing, playing, viewport>>

\* physics.apply_impulse and physics.set_velocity move a body that simulates.
ApplyImpulse == Bodies # {} /\ Look /\ UNCHANGED playVars
SetVelocity == \E linear, angular \in BOOLEAN : (linear \/ angular) /\ Look /\ UNCHANGED playVars

\* physics.line_trace, physics.sweep_capsule, physics.overlap_test: the bodies
\* met, without those of ignored actors; one hit unless all are asked for.
TraceHits(met, ignored, multi) ==
  IF multi \/ met \subseteq ignored THEN met \ ignored ELSE {CHOOSE b \in met \ ignored : TRUE}

------------------------------------------------------------------------------
(* The level viewport and the selection of the editor.                      *)

SetCamera ==
  /\ camera' \in Spots
  /\ Look
  /\ UNCHANGED <<timing, playing, simulated, selection>>

\* editor.set_selection: one actor that does not resolve refuses the request.
SetSelection ==
  \E named \in SUBSET Bodies, append \in BOOLEAN :
    /\ selection' = named \cup (IF append THEN selection ELSE {})
    /\ Look
    /\ UNCHANGED <<timing, playing, simulated, camera>>

\* editor.viewport_screenshot* and editor.show_message need no session,
\* pie.screenshot_to_disk does.
ViewportScreenshot == Look /\ UNCHANGED playVars
PIEScreenshotToDisk == InPlay

PlayNext ==
  \/ PieStart \/ PieStop \/ PauseOrResume \/ StepFrame \/ ConsoleExec
  \/ SimulateKey \/ ClickScreen \/ ClickActor \/ DragScreen
  \/ AddLookInput \/ MoveMouse \/ SetTimeDilation \/ FocusActor
  \/ EngineTick \/ UserEnds
  \/ SetSimulation \/ ApplyImpulse \/ SetVelocity
  \/ SetCamera \/ SetSelection \/ ViewportScreenshot \/ PIEScreenshotToDisk

------------------------------------------------------------------------------
(* Properties.                                                              *)

\* A session that pie.stop ended is cleaned up before the next one starts, and
\* what a session does is gone with it: while it runs no tool that works on
\* "the" world touches the bodies of the editor's (PIETools.cpp:321 has the
\* gap for every end of a session; one that the user ends is not stamped).
SessionsApart ==
  [][/\ phase = "none" /\ phase' # "none" /\ endedBy = "pie.stop" => cleanup = 0
     /\ pie => simulated'["editor"] = simulated["editor"]]_playVars
=============================================================================
