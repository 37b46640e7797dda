--------------------------- MODULE WorldSurfaces ----------------------------
(* The tools that edit a world and play it, over one editor session: a       *)
(* behaviour works with the surface that focus names and leaves the others'  *)
(* state alone.                                                              *)
EXTENDS SceneGraph, Outliner, ActorComponents, Levels, BatchJobs, PlaySession, BehaviorTree, AIAgents, Captures, TestRuns, Viewports, Drawing, SourceControl, LiveCoding, Settings

vars == <<session, sceneVars, outlinerVars, componentVars, levelVars, batchVars, playVars, treeVars, agentVars, captureVars, testVars, viewVars, drawVars, scVars, codingVars, settingVars>>

Init ==
  /\ SessionInit
  /\ SceneInit /\ OutlinerInit /\ ComponentInit /\ LevelInit /\ BatchInit /\ PlayInit
  /\ TreeInit
  /\ AgentInit
  /\ CaptureInit
  /\ TestInit
  /\ ViewInit
  /\ DrawInit
  /\ SourceControlInit
  /\ CodingInit
  /\ SettingInit

\* The state of the surfaces other than f.
OthersStill(f) ==
  /\ f # "scene"      => UNCHANGED sceneVars
  /\ f # "outliner"   => UNCHANGED outlinerVars
  /\ f # "components" => UNCHANGED componentVars
  /\ f # "levels"     => UNCHANGED levelVars
  /\ f # "batch"      => UNCHANGED batchVars
  /\ f # "play"       => UNCHANGED playVars
  /\ f # "tree" => UNCHANGED treeVars
  /\ f # "agents" => UNCHANGED agentVars
  /\ f \notin {"insights", "stat"} => UNCHANGED captureVars
  /\ f # "tests" => UNCHANGED testVars
  /\ f # "views" => UNCHANGED viewVars
  /\ f # "drawing" => UNCHANGED drawVars
  /\ f \notin {"sc", "diff"} => UNCHANGED scVars
  /\ f # "coding" => UNCHANGED codingVars
  /\ f \notin {"cfg", "collision", "tags"} => UNCHANGED settingVars

\* pie.start and pie.stop are actions of the play surface; to the others the
\* session starts and ends at any time.
PlayWorld == focus # "play" /\ PlayWorldChanges /\ OthersStill("none")

\* The maps are saved by the tools of the levels surface.
UserSaves == focus # "levels" /\ SaveAll /\ OthersStill("none")

SceneStep      == focus = "scene"      /\ SceneNext     /\ OthersStill("scene")
OutlinerStep   == focus = "outliner"   /\ OutlinerNext  /\ OthersStill("outliner")
ComponentStep  == focus = "components" /\ ComponentNext /\ OthersStill("components")
LevelStep      == focus = "levels"     /\ LevelNext     /\ OthersStill("levels")
BatchStep      == focus = "batch"      /\ BatchNext     /\ OthersStill("batch")
PlayStep       == focus = "play"       /\ PlayNext      /\ OthersStill("play")
TreeStep == focus = "tree" /\ TreeNext /\ OthersStill("tree")
AgentStep == focus = "agents" /\ AgentNext /\ OthersStill("agents")
InsightsStep == focus = "insights" /\ InsightsNext /\ OthersStill("insights")
StatStep == focus = "stat" /\ StatNext /\ OthersStill("stat")
TestStep == focus = "tests" /\ TestNext /\ OthersStill("tests")
ViewStep == focus = "views" /\ ViewNext /\ OthersStill("views")
DrawStep == focus = "drawing" /\ DrawNext /\ OthersStill("drawing")
SourceControlStep == focus = "sc" /\ SourceControlNext /\ OthersStill("sc")
DiffStep == focus = "diff" /\ DiffNext /\ OthersStill("diff")
CodingStep == focus = "coding" /\ CodingNext /\ OthersStill("coding")
CfgStep == focus = "cfg" /\ (CfgNext \/ CallSubsystem) /\ OthersStill("cfg")
CollisionStep == focus = "collision" /\ CollisionNext /\ OthersStill("collision")
TagStep == focus = "tags" /\ TagNext /\ OthersStill("tags")

Next ==
  \/ SceneStep \/ OutlinerStep \/ ComponentStep \/ LevelStep \/ BatchStep \/ PlayStep
  \/ TreeStep
  \/ AgentStep
  \/ InsightsStep \/ StatStep
  \/ TestStep
  \/ ViewStep
  \/ DrawStep
  \/ SourceControlStep \/ DiffStep
  \/ CodingStep
  \/ CfgStep \/ CollisionStep \/ TagStep
  \/ PlayWorld \/ UserSaves

Spec == Init /\ [][Next]_vars

------------------------------------------------------------------------------
(* Properties.                                                               *)

\* What a tool changes in a package is flagged, in each package that it changes,
\* so that a save of the dirty packages misses none of it.  Two tools are the
\* exception: level.set_streaming_state, and physics.set_simulation outside of
\* a session (LevelTools.cpp:678, PhysicsTools.cpp:747).
EditsFlagged ==
  [][unsaved' \ dirty' \subseteq unsaved \ dirty \/ SetStreamingState \/ SetSimulation]_session

\* What the captures and the test runs tell their clients is what happened,
\* whatever other requests, the console and the test window do meanwhile.
DiagnosticsTrue == CapturesTrue /\ TestsAccounted
=============================================================================
