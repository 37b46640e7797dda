-------------------------- MODULE ContentSurfaces ---------------------------
(* The tools that edit assets, over one editor session: the content browser, *)
(* the reads of the asset registry, and the editors of blueprints.  A        *)
(* behaviour works with the surface that focus names.                        *)
EXTENDS Assets, PagedReads, BlueprintClass, BlueprintGraph, Materials, InputMappings, DataAssets, Sequencer

vars == <<session, contentVars, readVars, memberVars, partVars, wireVars, animVars, materialVars, inputVars, dataVars, sequenceVars>>

Init ==
  /\ SessionInit
  /\ AssetInit /\ ReadInit /\ MembersInit /\ PartsInit /\ GraphInit /\ AnimInit
  /\ MaterialInit
  /\ InputInit
  /\ DataInit
  /\ SequenceInit

\* The state of the surfaces other than f.
OthersStill(f) ==
  /\ f # "content" => UNCHANGED contentVars
  /\ f # "reads"   => UNCHANGED readVars
  /\ f # "members" => UNCHANGED memberVars
  /\ f # "parts"   => UNCHANGED partVars
  /\ f # "graph"   => UNCHANGED wireVars
  /\ f # "anim"    => UNCHANGED animVars
  /\ f # "materials" => UNCHANGED materialVars
  /\ f # "input" => UNCHANGED inputVars
  /\ f # "data" => UNCHANGED dataVars
  /\ f # "sequence" => UNCHANGED sequenceVars

\* A session in the play world starts and ends at any time.
PlayWorld == focus # "reads" /\ PlayWorldChanges /\ OthersStill("none")

AssetStep   == focus = "content" /\ AssetNext     /\ OthersStill("content")
ReadStep    == focus = "reads"   /\ ReadNextState /\ OthersStill("reads")
MemberStep  == focus = "members" /\ MembersNext   /\ OthersStill("members")
PartStep    == focus = "parts"   /\ PartsNext     /\ OthersStill("parts")
GraphStep   == focus = "graph"   /\ GraphNext     /\ OthersStill("graph")
AnimStep    == focus = "anim"    /\ AnimNext      /\ OthersStill("anim")
MaterialStep == focus = "materials" /\ MaterialNext /\ OthersStill("materials")
InputStep == focus = "input" /\ InputNext /\ OthersStill("input")
DataStep == focus = "data" /\ DataNext /\ OthersStill("data")
SequenceStep == focus = "sequence" /\ SequenceNext /\ OthersStill("sequence")

Next ==
  \/ AssetStep \/ ReadStep \/ MemberStep \/ PartStep \/ GraphStep \/ AnimStep
  \/ MaterialStep
  \/ InputStep
  \/ DataStep
  \/ SequenceStep
  \/ PlayWorld

Spec == Init /\ [][Next]_vars

------------------------------------------------------------------------------
(* Properties.                                                               *)

\* A walk over several requests leaves nothing out and gives nothing twice:
\* lists and call sites, parameters of a material, rows of a table.
WalksComplete == ReadsComplete /\ ParametersPaged /\ RowsPaged
=============================================================================
