------------------------------ MODULE Viewports ------------------------------
(* The editor's level viewports and what is drawn in them: viewport.*,       *)
(* render.*, debug.*, render_target.* and the captures of screenshot.*.      *)
EXTENDS EditorSession, Integers

CONSTANTS
  ViewportIds,   \* the level viewports
  OrthoIds,      \* those that are orthographic
  Places,        \* camera positions, rotations and fields of view, together
  Zooms,         \* ortho zooms
  ShowFlags

VARIABLES
  view,          \* viewport -> place and zoom
  flagsOn,       \* viewport -> show flags that are on
  lines,         \* world -> it has persistent debug lines
  volume         \* a post process volume: the value of a field and its override flag

viewVars == <<view, flagsOn, lines, volume>>

ViewInit ==
  /\ view \in Start("views", [ViewportIds -> [place : Places, zoom : Zooms]])
  /\ flagsOn = [v \in ViewportIds |-> {}]
  /\ lines = [w \in {"editor", "play"} |-> FALSE]
  /\ volume = [value |-> 0, override |-> FALSE]

\* viewport.set_camera, in any session and for any viewport of the list.
ViewportSetCamera ==
  \E v \in ViewportIds, p \in Places :
    /\ view' = [view EXCEPT ![v].place = p]
    /\ Look /\ UNCHANGED <<flagsOn, lines, volume>>

\* FocusViewportOnBox moves the camera; an orthographic one zooms.
Focused(v, p, z) == [place |-> p, zoom |-> IF v \in OrthoIds THEN z ELSE view[v].zoom]

\* viewport.focus_on_actor.
FocusOnActor ==
  \E v \in ViewportIds, p \in Places, z \in Zooms :
    /\ view' = [view EXCEPT ![v] = Focused(v, p, z)]
    /\ Look /\ UNCHANGED <<flagsOn, lines, volume>>

\* What a capture puts back, whether it took the picture, failed to take it or
\* to write it: location, rotation and field of view.
Restored(v, seen) == [seen EXCEPT !.place = view[v].place]

\* screenshot.region_capture, capture_actors and capture_selection: focus on
\* the bounds, draw, put the camera back.
Capture ==
  \E v \in ViewportIds, p \in Places, z \in Zooms :
    /\ view' = [view EXCEPT ![v] = Restored(v, Focused(v, p, z))]
    /\ Look /\ UNCHANGED <<flagsOn, lines, volume>>
RegionCapture    == Capture
CaptureActors    == Capture
CaptureSelection == Capture

\* screenshot.high_resolution draws what the viewport shows.
HighResolution == Look /\ UNCHANGED viewVars

\* render.set_show_flag.
SetShowFlag ==
  \E v \in ViewportIds, f \in ShowFlags, on \in BOOLEAN :
    /\ flagsOn' = [flagsOn EXCEPT ![v] = IF on THEN @ \cup {f} ELSE @ \ {f}]
    /\ Look /\ UNCHANGED <<view, lines, volume>>

\* render.set_post_process_volume_property: the companion flag bOverride_... is
\* set before the value is written, and stays set if the value does not fit.
SetPostProcess ==
  /\ ScopeOpen
  /\ \/ \E x \in 0 .. 1 : volume' = [value |-> x, override |-> TRUE]
     \/ volume' = [volume EXCEPT !.override = TRUE]
  /\ Flag(Packages, Packages)
  /\ UNCHANGED <<view, flagsOn, lines>>

\* debug.draw_line, draw_sphere, draw_box and draw_arrow draw into the play
\* world if there is one; debug.draw_text and debug.clear too.
DrawWorld == IF pie THEN "play" ELSE "editor"
DrawDebug ==
  /\ \E persistent \in BOOLEAN : lines' = [lines EXCEPT ![DrawWorld] = @ \/ persistent]
  /\ Look /\ UNCHANGED <<view, flagsOn, volume>>
DrawLine   == DrawDebug
DrawSphere == DrawDebug
DrawBox    == DrawDebug
DrawArrow  == DrawDebug
DrawText   == Look /\ UNCHANGED viewVars

ClearDebug ==
  /\ lines' = [lines EXCEPT ![DrawWorld] = FALSE]
  /\ Look /\ UNCHANGED <<view, flagsOn, volume>>

\* The replies of viewport.list, viewport.get_camera and render.list_show_flags.
ListViewports      == [v \in ViewportIds |-> view[v]]
GetCamera(v)       == view[v]
ListShowFlags(v)   == [f \in ShowFlags |-> f \in flagsOn[v]]

ViewNext ==
  \/ ViewportSetCamera \/ FocusOnActor
  \/ RegionCapture \/ CaptureActors \/ CaptureSelection \/ HighResolution
  \/ SetShowFlag \/ SetPostProcess
  \/ DrawLine \/ DrawSphere \/ DrawBox \/ DrawArrow \/ DrawText \/ ClearDebug
=============================================================================
