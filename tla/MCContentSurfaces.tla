------------------------- MODULE MCContentSurfaces --------------------------
(* A small instance of ContentSurfaces: three asset paths of one leaf.       *)
EXTENDS ContentSurfaces, TLC

MCPaths == {[folder |-> "F", leaf |-> "x"], [folder |-> "G", leaf |-> "x"], [folder |-> "H", leaf |-> "x"]}
MCPackages == MCPaths

MCKeys  == 1 .. 3
MCLinks == {<<1, 2>>, <<1, 3>>, <<2, 3>>, <<3, 2>>, <<2, 1>>}
MCKinds == 1 .. 2

\* Of the names 1 is Tex_2, 2 is Tex_10 and 3 is Tex_11: as texts the last two
\* come before the first.
MCPrinted == 1 :> 3 @@ 2 :> 1 @@ 3 :> 2
MCMaterialParams == {<<1, 1>>, <<1, 2>>, <<1, 3>>, <<2, 2>>, <<3, 1>>, <<4, 1>>}

MCRowPrinted == 1 :> 1 @@ 2 :> 3 @@ 3 :> 2
MCTableAt == [folder |-> "F", leaf |-> "x"]
MCCurveAt == [folder |-> "G", leaf |-> "x"]

\* "Cam" and "A.b" name bindings, "T", "x.y" and "x..y" tracks.
MCLabels == {<<"Cam">>, <<"A", "b">>}
MCSpawnables == <<<<"Cam">>>>
MCTitles == {<<"T">>, <<"x", "y">>, <<"x", "", "y">>}
MCCutTitle == <<"Camera Cuts">>
=============================================================================
