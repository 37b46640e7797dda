-------------------------- MODULE MCWorldSurfaces ---------------------------
(* A small instance of WorldSurfaces: two maps, three actors in them, nested *)
(* folders of which one has its parent's name, four components.              *)
EXTENDS WorldSurfaces, TLC

CONSTANTS a1, a2, a3, m1, m2, c1, c2, c3, c4

MCLevelOf  == a1 :> m1 @@ a2 :> m1 @@ a3 :> m2
MCCoords   == 0 .. 1
MCRequests == {<<a1, a2>>, <<a2, a1>>, <<a1, a2, a3>>, <<a3, a1, a3>>}

MCPaths   == 1 .. 2
MCFolders == {<<>>, <<"A">>, <<"A", "A">>}

MCBatchLists == {<<a1>>, <<a1, a2>>, <<a2, a1>>}

CONSTANTS b1, y1, t1, t2, t9
MCParentBoard == b1 :> y1

MCRunLists == {<<t1, t2>>, <<t1, t9, t1>>}

MCShown == -1 .. 3

MCTexts == UNION {[1 .. n -> {"l", "r"}] : n \in 0 .. 4}

MCCVarType == t1 :> "bool" @@ t2 :> "int" @@ t9 :> "string"
MCHolderOf == a1 :> m1
=============================================================================
