---------------------------- MODULE ContentProofs ----------------------------
(* Proofs about the tools that edit assets, for every instance of their     *)
(* constants.  As in WorldProofs, a behaviour works with one surface, and    *)
(* each proof first says which steps reach the variables of its surface.     *)
EXTENDS ContentSurfaces, DataLemmas, FiniteSetTheorems, SequenceTheorems

------------------------------------------------------------------------------
(* Blueprint graphs.                                                        *)

\* The graph's tools alone change a graph.
LEMMA GraphFrame ==
  ASSUME [Next]_vars
  PROVE  GraphNext \/ UNCHANGED wireVars
  BY DEF Next, vars, OthersStill, AssetStep, ReadStep, MemberStep, PartStep, GraphStep, AnimStep,
         MaterialStep, InputStep, DataStep, SequenceStep, PlayWorld

\* What a tool does to the graph, without the packages it flags.
Places ==
  \E n \in GraphNodes \ DOMAIN nodeKind, kind \in NodeKinds \ {"entry"} :
    (kind = "bound" => Unbound) /\ Placed(n, kind)

Connects ==
  \E from, to \in DOMAIN nodeKind, pin \in Pins :
    /\ wires' = Connected([pin |-> pin, from |-> from, to |-> to])
    /\ UNCHANGED nodeKind

Disconnects == wires' \subseteq wires /\ UNCHANGED nodeKind

Deletes ==
  \E n \in DOMAIN nodeKind :
    /\ Deletable(n)
    /\ nodeKind' = [m \in DOMAIN nodeKind \ {n} |-> nodeKind[m]]
    /\ wires' = {x \in wires : n \notin {x.from, x.to}}

LEMMA GraphChanges ==
  ASSUME GraphNext
  PROVE  Places \/ Connects \/ Disconnects \/ Deletes
  <1>a. \A kind \in NodeKinds \ {"entry"} : PlaceNew(kind) /\ (kind = "bound" => Unbound) => Places
    BY DEF PlaceNew, Places
  <1>b. RefusedLate => Disconnects
    BY DEF RefusedLate, Disconnects, wireVars
  <1>1. AddNode => Places \/ Disconnects
    BY <1>a, <1>b DEF AddNode, NodeKinds
  <1>2. AddCastNode \/ AddStructBreakNode \/ AddStructMakeNode \/ AddMacroNode => Places
    BY <1>a DEF AddCastNode, AddStructBreakNode, AddStructMakeNode, AddMacroNode, NodeKinds
  <1>3. AddInputActionEventNode => Places \/ Disconnects
    BY <1>a, <1>b DEF AddInputActionEventNode, NodeKinds
  <1>4. BindComponentEvent => Places
    BY <1>a DEF BindComponentEvent, NodeKinds
  <1>5. AddComment => Places
    BY <1>a DEF AddComment, NodeKinds
  <1>6. ConnectPins => Connects \/ Disconnects
    BY <1>b DEF ConnectPins, Connects
  <1>7. DisconnectPin => Disconnects
    BY DEF DisconnectPin, Disconnects
  <1>8. SetPinDefault \/ SetNodeProperty \/ MoveNode => Disconnects
    BY DEF SetPinDefault, SetNodeProperty, MoveNode, Disconnects, wireVars
  <1>9. DeleteNode => Deletes
    BY DEF DeleteNode, Deletes, Without
  <1>10. DeleteComment => Deletes
    BY DEF DeleteComment, Deletes, Without, Deletable
  <1> QED
    BY <1>1, <1>2, <1>3, <1>4, <1>5, <1>6, <1>7, <1>8, <1>9, <1>10 DEF GraphNext

\* The parts of GraphSound, with "bound once" as a statement about two nodes
\* and without the counting.
EndsPlaced(w, kind) == \A x \in w : x.from \in DOMAIN kind /\ x.to \in DOMAIN kind

SamePin(x, y) == x.pin = y.pin /\ (IF x.pin = "exec" THEN x.from = y.from ELSE x.to = y.to)

PinsSingle(w) == \A x, y \in w : SamePin(x, y) => x = y

BoundOnce(kind) == \A m, n \in DOMAIN kind : kind[m] = "bound" /\ kind[n] = "bound" => m = n

HasEntry(kind) == \E n \in DOMAIN kind : kind[n] \in {"entry", "event"}

GraphInv ==
  /\ EndsPlaced(wires, nodeKind)
  /\ PinsSingle(wires)
  /\ BoundOnce(nodeKind)
  /\ HasEntry(nodeKind)

LEMMA GraphInvariant ==
  ASSUME GraphInv, [Next]_vars
  PROVE  GraphInv'
  <1>0. EndsPlaced(wires, nodeKind) /\ PinsSingle(wires) /\ BoundOnce(nodeKind) /\ HasEntry(nodeKind)
    BY DEF GraphInv
  <1>1. CASE UNCHANGED wireVars
    BY <1>0, <1>1 DEF GraphInv, wireVars
  <1>2. CASE Places
    <2>1. PICK n \in GraphNodes \ DOMAIN nodeKind, kind \in NodeKinds \ {"entry"} :
            /\ kind = "bound" => Unbound
            /\ nodeKind' = [m \in DOMAIN nodeKind \cup {n} |-> IF m = n THEN kind ELSE nodeKind[m]]
            /\ wires' = wires
      BY <1>2 DEF Places, Placed
    <2>2. /\ DOMAIN nodeKind' = DOMAIN nodeKind \cup {n}
          /\ nodeKind'[n] = kind
          /\ \A m \in DOMAIN nodeKind : nodeKind'[m] = nodeKind[m]
      BY <2>1
    <2>3. EndsPlaced(wires, nodeKind)'
      BY <1>0, <2>1, <2>2 DEF EndsPlaced
    <2>4. BoundOnce(nodeKind)'
      BY <1>0, <2>1, <2>2 DEF BoundOnce, Unbound
    <2>5. HasEntry(nodeKind)'
      BY <1>0, <2>2 DEF HasEntry
    <2> QED BY <1>0, <2>1, <2>3, <2>4, <2>5 DEF GraphInv
  <1>3. CASE Connects
    <2>1. PICK from, to \in DOMAIN nodeKind, pin \in Pins :
            wires' = Connected([pin |-> pin, from |-> from, to |-> to]) /\ nodeKind' = nodeKind
      BY <1>3 DEF Connects
    <2> DEFINE w == [pin |-> pin, from |-> from, to |-> to]
    <2>2. w.pin = pin /\ w.from = from /\ w.to = to
      OBVIOUS
    <2>3. wires' = {x \in wires : ~(x.pin = w.pin /\ IF w.pin = "exec" THEN x.from = w.from ELSE x.to = w.to)} \cup {w}
      BY <2>1 DEF Connected
    <2> HIDE DEF w
    <2>4. \A x \in wires' : x = w \/ (x \in wires /\ ~SamePin(x, w) /\ ~SamePin(w, x))
      BY <2>3 DEF SamePin
    <2>5. EndsPlaced(wires, nodeKind)'
      BY <1>0, <2>1, <2>2, <2>4 DEF EndsPlaced
    <2>6. PinsSingle(wires)'
      BY <1>0, <2>4 DEF PinsSingle
    <2> QED BY <1>0, <2>1, <2>5, <2>6 DEF GraphInv
  <1>4. CASE Disconnects
    <2>1. wires' \subseteq wires /\ nodeKind' = nodeKind
      BY <1>4 DEF Disconnects
    <2> QED BY <1>0, <2>1 DEF GraphInv, EndsPlaced, PinsSingle
  <1>5. CASE Deletes
    <2>1. PICK n \in DOMAIN nodeKind :
            /\ Deletable(n)
            /\ nodeKind' = [m \in DOMAIN nodeKind \ {n} |-> nodeKind[m]]
            /\ wires' = {x \in wires : n \notin {x.from, x.to}}
      BY <1>5 DEF Deletes
    <2>2. DOMAIN nodeKind' = DOMAIN nodeKind \ {n} /\ \A m \in DOMAIN nodeKind' : nodeKind'[m] = nodeKind[m]
      BY <2>1
    <2>3. EndsPlaced(wires, nodeKind)' /\ PinsSingle(wires)'
      BY <1>0, <2>1, <2>2 DEF EndsPlaced, PinsSingle
    <2>4. BoundOnce(nodeKind)'
      BY <1>0, <2>2 DEF BoundOnce
    <2>5. HasEntry(nodeKind)'
      BY <1>0, <2>1, <2>2 DEF HasEntry, Deletable
    <2> QED BY <2>3, <2>4, <2>5 DEF GraphInv
  <1> QED BY <1>1, <1>2, <1>3, <1>4, <1>5, GraphFrame, GraphChanges

\* In every order of placing, connecting and deleting, a wire joins two nodes
\* of the graph, a pin that takes one link has one, a delegate is bound once,
\* and the node that the editor made with the graph is there.
THEOREM GraphStaysSound == Spec => []GraphSound
  <1>1. Init => GraphInv
    <2> SUFFICES ASSUME Init PROVE GraphInv
      OBVIOUS
    <2> DEFINE first == CHOOSE n \in GraphNodes : TRUE
               graphs == [{first} -> {"entry", "event"}]
    <2>1. nodeKind \in Start("graph", graphs) /\ wires = {}
      BY DEF Init, GraphInit
    <2>2. [n \in {first} |-> "entry"] \in graphs
      OBVIOUS
    <2>3. nodeKind \in graphs
      <3> HIDE DEF graphs
      <3> QED BY <2>1, <2>2 DEF Start
    <2> HIDE DEF first
    <2>4. DOMAIN nodeKind = {first} /\ nodeKind[first] \in {"entry", "event"}
      BY <2>3
    <2> QED BY <2>1, <2>4 DEF GraphInv, EndsPlaced, PinsSingle, BoundOnce, HasEntry
  <1>2. GraphInv /\ [Next]_vars => GraphInv'
    BY GraphInvariant
  <1>3. GraphInv => GraphSound
    <2> SUFFICES ASSUME GraphInv PROVE GraphSound
      OBVIOUS
    <2>1. Cardinality({n \in DOMAIN nodeKind : nodeKind[n] = "bound"}) <= 1
      <3> DEFINE B == {n \in DOMAIN nodeKind : nodeKind[n] = "bound"}
      <3>1. CASE B = {}
        BY <3>1, FS_EmptySet
      <3>2. CASE B # {}
        <4>1. PICK b : B = {b}
          BY <3>2 DEF GraphInv, BoundOnce
        <4> HIDE DEF B
        <4>2. Cardinality(B) = 1
          BY <4>1, FS_Singleton
        <4> QED BY <4>2 DEF B
      <3> QED BY <3>1, <3>2
    <2> QED BY <2>1 DEF GraphInv, GraphSound, EndsPlaced, PinsSingle, SamePin, HasEntry
  <1> QED BY <1>1, <1>2, <1>3, PTL DEF Spec
------------------------------------------------------------------------------
(* The content browser.                                                     *)

\* The content browser's tools alone change what the paths hold.
LEMMA AssetFrame ==
  ASSUME [Next]_vars
  PROVE  AssetNext \/ UNCHANGED contentVars
  BY DEF Next, vars, OthersStill, AssetStep, ReadStep, MemberStep, PartStep, GraphStep, AnimStep,
         MaterialStep, InputStep, DataStep, SequenceStep, PlayWorld

Holds == [AssetPaths -> Contents \cup {Nothing}]

AtPlace(h, c) == {p \in AssetPaths : h[p] = c}

\* Every asset of h is still somewhere in g.
KeepsAll(h, g) == \A c \in Contents : ~(Copies(g, c) < Copies(h, c))

\* What stays where it is is kept.
LEMMA StaysIsKept ==
  ASSUME NEW h \in Holds, NEW g \in Holds, \A p \in AssetPaths : h[p] = Nothing \/ g[p] = h[p]
  PROVE  KeepsAll(h, g)
  <1> SUFFICES ASSUME NEW c \in Contents PROVE ~(Copies(g, c) < Copies(h, c))
    BY DEF KeepsAll
  <1>1. AtPlace(h, c) \subseteq AtPlace(g, c)
    BY NothingIsNoContents DEF AtPlace
  <1>2. IsFiniteSet(AtPlace(g, c))
    BY PathsFinite, FS_Subset DEF AtPlace
  <1> DEFINE A == AtPlace(h, c)
             B == AtPlace(g, c)
  <1> HIDE DEF A, B
  <1>3. A \in SUBSET B /\ IsFiniteSet(B)
    BY <1>1, <1>2 DEF A, B
  <1>4. IsFiniteSet(A) /\ Cardinality(A) <= Cardinality(B)
    BY <1>3, FS_Subset
  <1>5. Cardinality(A) \in Nat /\ Cardinality(B) \in Nat
    BY <1>3, <1>4, FS_CardinalityType
  <1>6. ~(Cardinality(B) < Cardinality(A))
    BY <1>4, <1>5
  <1> QED BY <1>6 DEF Copies, AtPlace, A, B

\* An asset that moves to a path that held nothing is kept.
LEMMA MovedIsKept ==
  ASSUME NEW h \in Holds, NEW src \in AssetPaths, NEW dest \in AssetPaths,
         h[src] # Nothing, h[dest] = Nothing
  PROVE  LET g == [h EXCEPT ![dest] = h[src], ![src] = Nothing]
         IN  g \in Holds /\ KeepsAll(h, g)
  <1> DEFINE g == [h EXCEPT ![dest] = h[src], ![src] = Nothing]
  <1>1. /\ g \in Holds /\ src # dest
        /\ \A p \in AssetPaths : g[p] = IF p = src THEN Nothing ELSE IF p = dest THEN h[src] ELSE h[p]
    BY DEF Holds
  <1> HIDE DEF g
  <1>2. ASSUME NEW c \in Contents PROVE ~(Copies(g, c) < Copies(h, c))
    <2> DEFINE A == AtPlace(h, c)
               B == AtPlace(g, c)
    <2>1. IsFiniteSet(A) /\ IsFiniteSet(B)
      BY PathsFinite, FS_Subset DEF AtPlace
    <2>2. CASE h[src] # c
      <3>1. A = B
        BY <1>1, <2>2, NothingIsNoContents DEF AtPlace
      <3>2. Cardinality(A) = Cardinality(B)
        BY <3>1
      <3>3. Cardinality(A) \in Nat
        BY <2>1, FS_CardinalityType
      <3> HIDE DEF A, B
      <3>4. ~(Cardinality(B) < Cardinality(A))
        BY <3>2, <3>3
      <3> QED BY <3>4 DEF Copies, AtPlace, A, B
    <2>3. CASE h[src] = c
      <3>1. B = (A \ {src}) \cup {dest} /\ src \in A /\ dest \notin A \ {src}
        BY <1>1, <2>3, NothingIsNoContents DEF AtPlace
      <3> HIDE DEF A, B
      <3>2. IsFiniteSet(A \ {src}) /\ Cardinality(A \ {src}) = Cardinality(A) - 1
        BY <2>1, <3>1, FS_RemoveElement
      <3>3. Cardinality(B) = Cardinality(A \ {src}) + 1
        BY <3>1, <3>2, FS_AddElement
      <3>4. Cardinality(A) \in Nat
        BY <2>1, FS_CardinalityType
      <3>5. ~(Cardinality(B) < Cardinality(A))
        BY <3>2, <3>3, <3>4
      <3> QED BY <3>5 DEF Copies, AtPlace, A, B
    <2> QED BY <2>2, <2>3
  <1> QED BY <1>1, <1>2 DEF KeepsAll, g

\* One source of a move, and two of them one after the other.
LEMMA OneMoveKeeps ==
  ASSUME NEW s, s.h \in Holds, NEW src \in AssetPaths, NEW dest \in AssetPaths, NEW referred
  PROVE  /\ MoveOne(s, src, dest, referred).h \in Holds
         /\ KeepsAll(s.h, MoveOne(s, src, dest, referred).h)
  <1> DEFINE t == MoveOne(s, src, dest, referred)
  <1>1. CASE s.h[src] = Nothing \/ DoesAssetExist(s.h, s.r, dest)
    <2>1. t = s
      BY <1>1 DEF MoveOne
    <2>2. KeepsAll(s.h, s.h)
      BY StaysIsKept
    <2> QED BY <2>1, <2>2
  <1>2. CASE s.h[src] # Nothing /\ ~DoesAssetExist(s.h, s.r, dest)
    <2>1. t = Renamed(s, src, dest, referred)
      BY <1>2 DEF MoveOne
    <2>2. t.h = [s.h EXCEPT ![dest] = s.h[src], ![src] = Nothing]
      BY <2>1 DEF Renamed
    <2>3. s.h[dest] = Nothing
      BY <1>2 DEF DoesAssetExist
    <2> DEFINE h == s.h
    <2>4. h \in Holds /\ h[src] # Nothing /\ h[dest] = Nothing
      BY <1>2, <2>3
    <2> HIDE DEF h
    <2>5. LET g == [h EXCEPT ![dest] = h[src], ![src] = Nothing]
          IN  g \in Holds /\ KeepsAll(h, g)
      BY <2>4, MovedIsKept
    <2> QED BY <2>2, <2>5 DEF h
  <1> QED BY <1>1, <1>2

LEMMA KeptTwice ==
  ASSUME NEW f \in Holds, NEW g \in Holds, NEW h \in Holds, KeepsAll(f, g), KeepsAll(g, h)
  PROVE  KeepsAll(f, h)
  <1> SUFFICES ASSUME NEW c \in Contents PROVE ~(Copies(h, c) < Copies(f, c))
    BY DEF KeepsAll
  <1>1. \A k \in Holds : IsFiniteSet(AtPlace(k, c)) /\ Copies(k, c) = Cardinality(AtPlace(k, c))
    BY PathsFinite, FS_Subset DEF AtPlace, Copies
  <1>2. \A k \in Holds : Copies(k, c) \in Nat
    BY <1>1, FS_CardinalityType
  <1>3. ~(Copies(g, c) < Copies(f, c)) /\ ~(Copies(h, c) < Copies(g, c))
    BY DEF KeepsAll
  <1> QED BY <1>2, <1>3

LEMMA MoveKeeps ==
  ASSUME held \in Holds, MoveAssets
  PROVE  held' \in Holds /\ KeepsAll(held, held')
  <1>1. PICK sources \in [1 .. 2 -> AssetPaths], folder \in {p.folder : p \in AssetPaths}, referred \in {{}, AssetPaths} :
          LET after(s, src) == MoveOne(s, src, PathOf(folder, src.leaf), referred)
          IN  /\ \A i \in 1 .. 2 : FolderHas(folder, sources[i].leaf)
              /\ Becomes(after(after(Holdings, sources[1]), sources[2]))
    BY DEF MoveAssets
  <1> DEFINE to(i) == PathOf(folder, sources[i].leaf)
  <1>2. sources[1] \in AssetPaths /\ sources[2] \in AssetPaths
    OBVIOUS
  <1>3. to(1) \in AssetPaths /\ to(2) \in AssetPaths
    BY <1>1 DEF FolderHas, PathOf
  <1> DEFINE s == MoveOne(Holdings, sources[1], to(1), referred)
             t == MoveOne(s, sources[2], to(2), referred)
  <1>4. held' = t.h
    BY <1>1 DEF Becomes
  <1>5. Holdings.h = held
    BY DEF Holdings
  <1> HIDE DEF to
  <1>6. s.h \in Holds /\ KeepsAll(held, s.h)
    BY <1>2, <1>3, <1>5, OneMoveKeeps
  <1>7. t.h \in Holds /\ KeepsAll(s.h, t.h)
    <2> HIDE DEF s
    <2> QED BY <1>2, <1>3, <1>6, OneMoveKeeps
  <1>8. KeepsAll(held, t.h)
    <2> HIDE DEF s, t
    <2> QED BY <1>6, <1>7, KeptTwice
  <1> QED BY <1>4, <1>7, <1>8

\* The tasks of an import job replace what is there only if it was told to.
LEMMA BulkImportKeeps ==
  ASSUME held \in Holds, BulkImport
  PROVE  held' \in Holds /\ (KeepsAll(held, held') \/ AsksToLose)
  <1>1. PICK cancelled \in BOOLEAN : BulkImportAs(cancelled)
    BY DEF BulkImport
  <1>2. PICK read \in SUBSET assetJob.files :
          held' \in {h \in Holds : \A p \in AssetPaths :
                       IF p \in ImportsOf(read, cancelled) THEN h[p] \in ImportedAt(p, read) ELSE h[p] = held[p]}
    BY <1>1 DEF BulkImportAs, Holds
  <1>3. CASE cancelled = TRUE
    <2>1. ImportsOf(read, cancelled) = {}
      BY <1>3 DEF ImportsOf
    <2>2. \A p \in AssetPaths : held'[p] = held[p]
      BY <1>2, <2>1
    <2> QED BY <1>2, <2>2, StaysIsKept
  <1>4. CASE cancelled = FALSE /\ assetJob.replace
    BY <1>1, <1>2, <1>4 DEF AsksToLose
  <1>5. CASE cancelled = FALSE /\ ~assetJob.replace
    <2>1. \A p \in ImportsOf(read, cancelled) : held[p] = Nothing
      BY <1>5 DEF ImportsOf, Imports, DoesAssetExist
    <2>2. \A p \in AssetPaths : held[p] = Nothing \/ held'[p] = held[p]
      BY <1>2, <2>1
    <2> QED BY <1>2, <2>2, StaysIsKept
  <1> QED BY <1>3, <1>4, <1>5

\* Every other tool of the content browser.
LEMMA AssetStepKeeps ==
  ASSUME held \in Holds, AssetNext
  PROVE  held' \in Holds /\ (KeepsAll(held, held') \/ AsksToLose)
  <1>1. CASE AssetCreate \/ AssetCreateDataAsset
    <2>1. PICK p \in AssetPaths, c \in Contents : held[p] = Nothing /\ held' = [held EXCEPT ![p] = c]
      BY <1>1 DEF AssetCreate, AssetCreateDataAsset, Free, DoesAssetExist, CreatedAt
    <2>2. held' \in Holds /\ \A q \in AssetPaths : held[q] = Nothing \/ held'[q] = held[q]
      BY <2>1 DEF Holds
    <2> QED BY <2>2, StaysIsKept
  <1>2. CASE DuplicateAsset
    <2>1. PICK p \in AssetPaths, q \in AssetPaths : held[p] = Nothing /\ held' = [held EXCEPT ![p] = held[q]]
      BY <1>2 DEF DuplicateAsset, DoesAssetExist
    <2>2. held' \in Holds /\ \A r \in AssetPaths : held[r] = Nothing \/ held'[r] = held[r]
      BY <2>1 DEF Holds
    <2> QED BY <2>2, StaysIsKept
  <1>3. CASE ImportAsset
    <2>1. PICK p \in AssetPaths, c \in Contents, replace \in BOOLEAN : ImportAt(p, c, replace)
      BY <1>3 DEF ImportAsset
    <2>2. held' = [held EXCEPT ![p] = c]
      BY <2>1 DEF ImportAt
    <2>3. held' \in Holds
      BY <2>2 DEF Holds
    <2>4. CASE replace = TRUE
      BY <2>1, <2>3, <2>4 DEF AsksToLose
    <2>5. CASE replace = FALSE
      <3>1. held[p] = Nothing
        BY <2>1, <2>5 DEF ImportAt, DoesAssetExist
      <3>2. \A q \in AssetPaths : held[q] = Nothing \/ held'[q] = held[q]
        BY <2>2, <3>1 DEF Holds
      <3> QED BY <2>3, <3>2, StaysIsKept
    <2> QED BY <2>4, <2>5
  <1>4. CASE Reimport
    BY <1>4 DEF Reimport, AsksToLose, Holds, Used
  <1>5. CASE DeleteAsset
    BY <1>5 DEF DeleteAsset, AsksToLose, Holds
  <1>6. CASE RenameAsset
    <2>1. PICK src \in AssetPaths, dest \in AssetPaths, referred \in {{}, AssetPaths} :
            /\ held[src] # Nothing /\ held[dest] = Nothing
            /\ Becomes(Renamed(Holdings, src, dest, referred))
      BY <1>6 DEF RenameAsset, DoesAssetExist
    <2>2. held' = [held EXCEPT ![dest] = held[src], ![src] = Nothing]
      BY <2>1 DEF Becomes, Renamed, Holdings
    <2> QED BY <2>1, <2>2, MovedIsKept
  <1>7. CASE MoveAssets
    BY <1>7, MoveKeeps
  <1>8. CASE BulkImport
    BY <1>8, BulkImportKeeps
  <1>9. CASE UNCHANGED held
    BY <1>9, StaysIsKept
  <1>10. CASE CbFixRedirectors \/ SoftRefFixRedirectors \/ AssetSetProperty \/ ThumbnailSetCustom \/ CbSave
              \/ PackageSave \/ PackageSaveAll \/ ExportAsset \/ SubmitAssetJob \/ SaveAllDirtyRuns
    <2>1. UNCHANGED held
      BY <1>10
      DEF CbFixRedirectors, SoftRefFixRedirectors, AssetSetProperty, ThumbnailSetCustom, CbSave, PackageSave,
          PackageSaveAll, ExportAsset, SubmitAssetJob, SaveAllDirtyRuns, contentVars
    <2> QED BY <1>9, <2>1
  <1> QED
    BY <1>1, <1>2, <1>3, <1>4, <1>5, <1>6, <1>7, <1>8, <1>10 DEF AssetNext

\* No asset is lost but by a deletion, an import that may replace or a
\* reimport: creating, duplicating, renaming and a move of several assets leave
\* every asset somewhere, and a cancelled import leaves all where they are.
THEOREM AssetsAreKept == Spec => NothingOverwritten
  <1>1. Init => held \in Holds
    <2> SUFFICES ASSUME Init PROVE held \in Holds
      OBVIOUS
    <2> DEFINE distinct == {h \in [AssetPaths -> Contents \cup {Nothing}] :
                              \A p, q \in Used(h) : p # q => h[p] # h[q]}
    <2>1. held \in Start("content", distinct)
      BY DEF Init, AssetInit
    <2>2. [p \in AssetPaths |-> Nothing] \in distinct
      BY DEF Used
    <2>3. distinct \subseteq Holds
      BY DEF Holds
    <2> HIDE DEF distinct
    <2> QED BY <2>1, <2>2, <2>3 DEF Start
  <1>2. held \in Holds /\ [Next]_vars => (held \in Holds)'
    BY AssetFrame, AssetStepKeeps DEF contentVars
  <1>3. held \in Holds /\ [Next]_vars =>
          [(\E c \in Contents : Copies(held', c) < Copies(held, c)) => AsksToLose]_contentVars
    BY AssetFrame, AssetStepKeeps DEF KeepsAll
  <1> QED BY <1>1, <1>2, <1>3, PTL DEF Spec, NothingOverwritten
------------------------------------------------------------------------------
(* Level sequences.                                                         *)

\* The sequencer's tools alone change a sequence.
LEMMA SequenceFrame ==
  ASSUME [Next]_vars
  PROVE  SequenceNext \/ UNCHANGED sequenceVars
  BY DEF Next, vars, OthersStill, AssetStep, ReadStep, MemberStep, PartStep, GraphStep, AnimStep,
         MaterialStep, InputStep, DataStep, SequenceStep, PlayWorld

Sections == [range : Ranges, keys : Nat]

\* Who has a track; a binding has a number.
Owners == {Master, CutTrack} \cup ({"p", "s"} \X Nat)

TrackRecords == [of : Owners, title : DottedNames, sections : Seq(Sections)]

\* Tracks belong to the sequence or to a binding that it has, and the camera
\* cut track has its name.
Belongs(of, title) == of \in {Master, CutTrack} \cup BindingIds /\ (of = CutTrack => title = CutTitle)

SequenceInv ==
  /\ possessables \in Seq(DottedNames)
  /\ tracks \in Seq(TrackRecords)
  /\ \A t \in DOMAIN tracks : Belongs(tracks[t].of, tracks[t].title)

LEMMA TrackTypes ==
  ASSUME SequenceInv, NEW t \in DOMAIN tracks
  PROVE  /\ t \in Nat /\ t # 0
         /\ tracks[t].of \in Owners /\ tracks[t].title \in Seq(STRING) /\ tracks[t].title # <<>>
         /\ Belongs(tracks[t].of, tracks[t].title)
  <1>1. tracks \in Seq(TrackRecords) /\ Belongs(tracks[t].of, tracks[t].title)
    BY DEF SequenceInv
  <1>2. t \in Nat /\ t # 0 /\ tracks[t] \in TrackRecords
    BY <1>1
  <1> DEFINE r == tracks[t]
  <1>3. \A q \in TrackRecords : q.of \in Owners /\ q.title \in DottedNames
    BY DEF TrackRecords
  <1> QED BY <1>1, <1>2, <1>3 DEF DottedNames

\* A name of one part before another name: the part, and the other name.
LEMMA PartBefore ==
  ASSUME NEW name \in Seq(STRING), Len(name) = 1, NEW title \in Seq(STRING), title # <<>>
  PROVE  /\ Len(name \o title) # 1 /\ name \o title # <<>>
         /\ (name \o title)[1] = name[1]
         /\ Tail(name \o title) = title
  <1> DEFINE path == name \o title
  <1>1. Len(title) \in Nat /\ Len(title) > 0
    OBVIOUS
  <1>2. /\ path \in Seq(STRING) /\ Len(path) = 1 + Len(title)
        /\ \A i \in 1 .. 1 + Len(title) : path[i] = IF i <= 1 THEN name[i] ELSE title[i - 1]
    <2>1. /\ path \in Seq(STRING) /\ Len(path) = Len(name) + Len(title)
          /\ \A i \in 1 .. Len(name) + Len(title) :
               path[i] = IF i <= Len(name) THEN name[i] ELSE title[i - Len(name)]
      BY ConcatProperties, Zenon
    <2> HIDE DEF path
    <2> QED BY <2>1
  <1> HIDE DEF path
  <1>3. path[1] = name[1] /\ path # <<>>
    BY <1>1, <1>2
  <1>4. /\ Tail(path) \in Seq(STRING) /\ Len(Tail(path)) = Len(title)
        /\ \A i \in 1 .. Len(title) : Tail(path)[i] = path[i + 1]
    BY <1>1, <1>2, <1>3, HeadTailProperties
  <1>5. ASSUME NEW i \in 1 .. Len(title) PROVE Tail(path)[i] = title[i]
    BY <1>1, <1>2, <1>4, <1>5
  <1>6. Tail(path) = title
    BY <1>4, <1>5, SeqEqual
  <1> QED BY <1>1, <1>2, <1>3, <1>6 DEF path

\* Bindings are pairs; nothing else is one of them.
LEMMA BindingIsPair ==
  ASSUME SequenceInv, NEW b \in BindingIds
  PROVE  /\ b \in {"p", "s"} \X Nat
         /\ b # Master /\ b # CutTrack
         /\ NameOf(b) \in DottedNames
         /\ LooksFirst(b, b)
  <1>1. possessables \in Seq(DottedNames) /\ Spawnables \in Seq(DottedNames)
    BY NamesHaveParts DEF SequenceInv
  <1>2. Len(possessables) \in Nat /\ Len(Spawnables) \in Nat
    BY <1>1
  <1>3. CASE b \in {"p"} \X (1 .. Len(possessables))
    BY <1>1, <1>2, <1>3 DEF Master, CutTrack, NameOf, LooksFirst
  <1>4. CASE b \in {"s"} \X (1 .. Len(Spawnables))
    BY <1>1, <1>2, <1>4 DEF Master, CutTrack, NameOf, LooksFirst
  <1> QED BY <1>3, <1>4 DEF BindingIds

\* A track whose path is no other's, and that is not of a binding.
LEMMA MasterFound ==
  ASSUME SequenceInv, NEW t \in DOMAIN tracks, tracks[t].of \notin BindingIds, Len(tracks[t].title) = 1,
         \A u \in DOMAIN tracks \ {t} : TrackPath(u) # TrackPath(t)
  PROVE  TrackPath(t) = tracks[t].title /\ MasterNamed(tracks[t].title[1]) = t
  <1>1. /\ tracks[t].of \in {Master, CutTrack}
        /\ t # 0
        /\ \A u \in DOMAIN tracks : tracks[u].of = CutTrack => tracks[u].title = CutTitle
    BY TrackTypes DEF Belongs
  <1>2. \A u \in DOMAIN tracks : tracks[u].title \in Seq(STRING)
    BY TrackTypes
  <1>3. \A u \in DOMAIN tracks : tracks[u].of \in {Master, CutTrack} => tracks[u].of \notin BindingIds
    BY BindingIsPair
  <1>4. \A u \in DOMAIN tracks : tracks[u].of \in {Master, CutTrack} => TrackPath(u) = tracks[u].title
    <2> SUFFICES ASSUME NEW u \in DOMAIN tracks, tracks[u].of \in {Master, CutTrack}
                 PROVE  TrackPath(u) = tracks[u].title
      OBVIOUS
    <2>1. TrackPath(u) = <<>> \o tracks[u].title
      BY <1>3 DEF TrackPath
    <2> QED BY <1>2, <2>1, ConcatEmptySeq
  <1> DEFINE part == tracks[t].title[1]
  <1>5. tracks[t].title = <<part>>
    BY <1>2
  <1> HIDE DEF part
  <1>6. \A u \in DOMAIN tracks \ {t} : tracks[u].of \in {Master, CutTrack} => tracks[u].title # <<part>>
    BY <1>1, <1>4, <1>5
  <1>7. Master # CutTrack
    BY DEF Master, CutTrack
  <1> DEFINE masters == {u \in DOMAIN tracks : tracks[u].of = Master /\ tracks[u].title = <<part>>}
             cuts == {u \in DOMAIN tracks : tracks[u].of = CutTrack /\ (tracks[u].title = <<part>> \/ part = "CameraCutTrack")}
  <1>8. MasterNamed(part) =
          IF (IF masters = {} THEN 0 ELSE CHOOSE u \in masters : \A v \in masters : u <= v) # 0
          THEN (IF masters = {} THEN 0 ELSE CHOOSE u \in masters : \A v \in masters : u <= v)
          ELSE (IF cuts = {} THEN 0 ELSE CHOOSE u \in cuts : \A v \in cuts : u <= v)
    BY DEF MasterNamed, First
  <1>9. t \in Nat
    BY TrackTypes
  <1>10. CASE tracks[t].of = Master
    <2>1. masters = {t}
      BY <1>5, <1>6, <1>10
    <2> HIDE DEF masters, cuts
    <2>2. (CHOOSE u \in masters : \A v \in masters : u <= v) = t
      BY <1>9, <2>1
    <2>3. MasterNamed(part) = t
      BY <1>1, <1>8, <2>1, <2>2
    <2> QED BY <1>1, <1>4, <2>3 DEF part
  <1>11. CASE tracks[t].of = CutTrack
    <2>1. masters = {}
      BY <1>6, <1>7, <1>11
    <2>2. cuts = {t}
      BY <1>1, <1>5, <1>6, <1>11
    <2> HIDE DEF masters, cuts
    <2>3. (CHOOSE u \in cuts : \A v \in cuts : u <= v) = t
      BY <1>9, <2>2
    <2>4. MasterNamed(part) = t
      BY <1>8, <2>1, <2>2, <2>3
    <2> QED BY <1>1, <1>4, <2>4 DEF part
  <1> QED BY <1>1, <1>10, <1>11

\* A track of a binding whose name is one part and no other binding's.
LEMMA BoundFound ==
  ASSUME SequenceInv, NEW t \in DOMAIN tracks, tracks[t].of \in BindingIds, Len(NameOf(tracks[t].of)) = 1,
         \A b \in BindingIds \ {tracks[t].of} : NameOf(b) # NameOf(tracks[t].of),
         \A u \in DOMAIN tracks \ {t} : TrackPath(u) # TrackPath(t)
  PROVE  Len(TrackPath(t)) # 1 /\ TrackPath(t) # <<>> /\ TrackOfBinding(TrackPath(t)) = t
  <1> DEFINE of == tracks[t].of
             name == NameOf(of)
             title == tracks[t].title
             path == TrackPath(t)
  <1>1. title \in Seq(STRING) /\ title # <<>> /\ t \in Nat
    BY TrackTypes
  <1>2. name \in Seq(STRING) /\ LooksFirst(of, of)
    BY BindingIsPair DEF DottedNames
  <1>3. path = name \o title
    BY DEF TrackPath
  <1>4. name = <<name[1]>>
    BY <1>2
  <1> HIDE DEF name, title, path
  <1>5. Len(path) # 1 /\ path # <<>> /\ path[1] = name[1] /\ Tail(path) = title
    BY <1>1, <1>2, <1>3, PartBefore DEF name
  <1> DEFINE named == {b \in BindingIds : NameOf(b) = <<path[1]>>}
  <1>6. named = {of}
    BY <1>4, <1>5 DEF name
  <1> HIDE DEF named
  <1>7. (CHOOSE b \in named : \A c \in named : LooksFirst(b, c)) = of
    BY <1>2, <1>6
  <1> DEFINE found == {u \in DOMAIN tracks : tracks[u].of = (CHOOSE b \in named : \A c \in named : LooksFirst(b, c))
                                             /\ tracks[u].title = TitleIn(path)}
  <1>8. TrackOfBinding(path) =
          IF named = {} THEN 0 ELSE IF found = {} THEN 0 ELSE CHOOSE u \in found : \A v \in found : u <= v
    BY DEF TrackOfBinding, First, named
  <1>9. found = {t}
    <2>1. \A u \in DOMAIN tracks : tracks[u].of = of /\ tracks[u].title = title => TrackPath(u) = path
      BY DEF TrackPath, path, title
    <2>2. \A u \in DOMAIN tracks : tracks[u].of = of /\ tracks[u].title = title => u = t
      BY <2>1 DEF path
    <2>3. TitleIn(path) = title
      BY <1>5 DEF TitleIn
    <2> QED BY <1>7, <2>2, <2>3 DEF title
  <1> HIDE DEF found
  <1>10. (CHOOSE u \in found : \A v \in found : u <= v) = t
    BY <1>1, <1>9
  <1>11. TrackOfBinding(path) = t
    BY <1>6, <1>8, <1>9, <1>10
  <1> QED BY <1>5, <1>11 DEF path

LEMMA SectionsFoundHere ==
  ASSUME SequenceInv
  PROVE  SectionsFound
  <1> SUFFICES ASSUME NEW t \in DOMAIN tracks,
                      \A u \in DOMAIN tracks \ {t} : TrackPath(u) # TrackPath(t),
                      Culled(TrackPath(t)) = TrackPath(t),
                      IF tracks[t].of \in BindingIds
                      THEN /\ Len(NameOf(tracks[t].of)) = 1
                           /\ \A b \in BindingIds \ {tracks[t].of} : NameOf(b) # NameOf(tracks[t].of)
                      ELSE Len(tracks[t].title) = 1,
                      NEW i \in DOMAIN tracks[t].sections
               PROVE  Resolve(TrackPath(t), i) = {<<t, i>>}
    BY DEF SectionsFound
  <1>1. t # 0
    BY TrackTypes
  <1>2. CASE tracks[t].of \in BindingIds
    <2>1. Len(TrackPath(t)) # 1 /\ TrackPath(t) # <<>> /\ TrackOfBinding(TrackPath(t)) = t
      BY <1>2, BoundFound
    <2> QED BY <1>1, <2>1 DEF Resolve
  <1>3. CASE tracks[t].of \notin BindingIds
    <2>1. TrackPath(t) = tracks[t].title /\ MasterNamed(tracks[t].title[1]) = t /\ Len(tracks[t].title) = 1
      BY <1>3, MasterFound
    <2> QED BY <1>1, <2>1 DEF Resolve
  <1> QED BY <1>2, <1>3

LEMMA BoundAppended ==
  ASSUME SequenceInv, NEW label \in DottedNames, NEW b \in BindingIds, possessables' = Append(possessables, label)
  PROVE  b \in BindingIds'
  <1>1. possessables \in Seq(DottedNames) /\ Len(possessables') = Len(possessables) + 1
    BY DEF SequenceInv
  <1>2. Len(possessables) \in Nat
    BY <1>1
  <1> QED BY <1>1, <1>2 DEF BindingIds

\* The tracks stay with their owners when a binding is added or none is.
LEMMA OwnersStay ==
  ASSUME SequenceInv, NEW with, with \in Seq(TrackRecords),
         \A t \in DOMAIN with : Belongs(with[t].of, with[t].title),
         tracks' = with,
         UNCHANGED possessables \/ \E label \in DottedNames : possessables' = Append(possessables, label)
  PROVE  SequenceInv'
  <1>1. possessables' \in Seq(DottedNames)
    BY SMTT(20) DEF SequenceInv
  <1>2. \A b \in BindingIds : b \in BindingIds'
    BY BoundAppended DEF BindingIds
  <1>3. \A of, title : Belongs(of, title) => of \in {Master, CutTrack} \cup BindingIds' /\ (of = CutTrack => title = CutTitle)
    BY <1>2 DEF Belongs
  <1>4. (\A t \in DOMAIN tracks : Belongs(tracks[t].of, tracks[t].title))'
    BY <1>3 DEF Belongs, Master, CutTrack
  <1> QED BY <1>1, <1>4 DEF SequenceInv

LEMMA TrackAppended ==
  ASSUME SequenceInv, NEW of, NEW title \in DottedNames, Belongs(of, title),
         NEW new, new = Append(tracks, [of |-> of, title |-> title, sections |-> <<>>])
  PROVE  new \in Seq(TrackRecords) /\ \A t \in DOMAIN new : Belongs(new[t].of, new[t].title)
  <1> DEFINE r == [of |-> of, title |-> title, sections |-> <<>>]
  <1>1. of \in Owners
    BY BindingIsPair DEF Belongs, Owners
  <1>2. r \in TrackRecords
    BY <1>1 DEF TrackRecords
  <1>3. r.of = of /\ r.title = title
    OBVIOUS
  <1> HIDE DEF r
  <1>4. tracks \in Seq(TrackRecords)
    BY DEF SequenceInv
  <1>5. /\ new \in Seq(TrackRecords) /\ Len(new) = Len(tracks) + 1
        /\ \A t \in 1 .. Len(tracks) : new[t] = tracks[t]
        /\ new[Len(tracks) + 1] = r
    BY <1>2, <1>4 DEF r
  <1>6. \A t \in DOMAIN new : t \in DOMAIN tracks \/ t = Len(tracks) + 1
    BY <1>4, <1>5
  <1>7. \A t \in DOMAIN tracks : new[t] = tracks[t]
    BY <1>4, <1>5
  <1> QED BY <1>3, <1>5, <1>6, <1>7 DEF SequenceInv

\* A track whose sections change.
LEMMA SectionsChanged ==
  ASSUME SequenceInv, NEW with, with \in Seq(TrackRecords), NEW t \in DOMAIN with, NEW list \in Seq(Sections),
         \A u \in DOMAIN with : Belongs(with[u].of, with[u].title),
         NEW new, new = [with EXCEPT ![t].sections = list]
  PROVE  new \in Seq(TrackRecords) /\ \A u \in DOMAIN new : Belongs(new[u].of, new[u].title)
  <1> DEFINE r == [with[t] EXCEPT !.sections = list]
  <1>1. with[t] \in TrackRecords
    OBVIOUS
  <1>2. r \in TrackRecords /\ r.of = with[t].of /\ r.title = with[t].title
    BY <1>1 DEF TrackRecords
  <1>3. new = [with EXCEPT ![t] = r]
    OBVIOUS
  <1> HIDE DEF r
  <1>4. new \in Seq(TrackRecords) /\ DOMAIN new = DOMAIN with
    BY SMTT(20), <1>2, <1>3, ExceptSeq
  <1>5. \A u \in DOMAIN with : new[u] = IF u = t THEN r ELSE with[u]
    BY <1>3
  <1> QED BY <1>2, <1>4, <1>5

\* A section of a track that changes; of a track, or a section, that is not
\* there nothing changes.
LEMMA SectionChanged ==
  ASSUME SequenceInv, NEW at, NEW i, NEW section,
         at \in DOMAIN tracks /\ i \in DOMAIN tracks[at].sections => section \in Sections,
         tracks' = [tracks EXCEPT ![at].sections[i] = section], UNCHANGED possessables
  PROVE  SequenceInv'
  <1>0. /\ tracks \in Seq(TrackRecords) /\ \A t \in DOMAIN tracks : Belongs(tracks[t].of, tracks[t].title)
    BY DEF SequenceInv
  <1>1. CASE at \notin DOMAIN tracks
    <2>1. tracks' = tracks
      BY <1>0, <1>1
    <2> QED BY <1>0, <2>1, OwnersStay
  <1>2. CASE at \in DOMAIN tracks
    <2> DEFINE list == [tracks[at].sections EXCEPT ![i] = section]
    <2>1. tracks[at] \in TrackRecords
      BY <1>0, <1>2
    <2>2. tracks[at].sections \in Seq(Sections)
      BY <2>1 DEF TrackRecords
    <2>3. list \in Seq(Sections)
      <3>1. CASE i \in DOMAIN tracks[at].sections
        BY <1>2, <2>2, <3>1, ExceptSeq DEF Sections
      <3>2. CASE i \notin DOMAIN tracks[at].sections
        <4>1. list = tracks[at].sections
          BY <2>2, <3>2
        <4> QED BY <2>2, <4>1
      <3> QED BY <3>1, <3>2
    <2>4. tracks' = [tracks EXCEPT ![at].sections = list]
      OBVIOUS
    <2> HIDE DEF list
    <2> QED BY <1>0, <1>2, <2>3, <2>4, SectionsChanged, OwnersStay
  <1> QED BY <1>1, <1>2

\* Every tool keeps it.
LEMMA SequenceNextKeeps ==
  ASSUME SequenceInv, SequenceNext
  PROVE  SequenceInv'
  <1>0. /\ tracks \in Seq(TrackRecords) /\ \A t \in DOMAIN tracks : Belongs(tracks[t].of, tracks[t].title)
        /\ possessables \in Seq(DottedNames)
    BY DEF SequenceInv
  <1>a. Titles \subseteq DottedNames /\ CutTitle \in DottedNames /\ Labels \subseteq DottedNames
    BY NamesHaveParts
  <1>b. Belongs(CutTrack, CutTitle) /\ \A title : Belongs(Master, title)
    BY DEF Belongs, Master, CutTrack
  <1>c. \A title : \A of \in BindingIds : Belongs(of, title)
    BY BindingIsPair DEF Belongs
  <1>d. \A range \in Ranges : NewSection(range) \in Sections
    BY DEF NewSection, Sections
  <1>1. CASE CreateSequence
    <2>1. UNCHANGED sequenceVars
      BY <1>1 DEF CreateSequence
    <2> QED BY <1>0, <2>1, OwnersStay DEF sequenceVars
  <1>2. CASE AddMasterTrack
    <2>1. UNCHANGED possessables
      BY <1>2 DEF AddMasterTrack
    <2>2. \/ UNCHANGED tracks
          \/ \E title \in Titles : AddsTrack(Master, title)
          \/ AddsTrack(CutTrack, CutTitle)
      BY <1>2 DEF AddMasterTrack
    <2>3. CASE UNCHANGED tracks
      BY <1>0, <2>1, <2>3, OwnersStay
    <2>4. ASSUME NEW title \in Titles, AddsTrack(Master, title) PROVE SequenceInv'
      BY <1>a, <1>b, <2>1, <2>4, TrackAppended, OwnersStay DEF AddsTrack
    <2>5. CASE AddsTrack(CutTrack, CutTitle)
      BY <1>a, <1>b, <2>1, <2>5, TrackAppended, OwnersStay DEF AddsTrack
    <2> QED BY <2>2, <2>3, <2>4, <2>5
  <1>3. CASE AddCameraCut
    <2> DEFINE cut == First(LAMBDA t : t.of = CutTrack)
               with == IF cut # 0 THEN tracks
                       ELSE Append(tracks, [of |-> CutTrack, title |-> CutTitle, sections |-> <<>>])
               at == IF cut # 0 THEN cut ELSE Len(tracks) + 1
    <2>1. cut = 0 \/ cut \in DOMAIN tracks
      <3> DEFINE found == {t \in DOMAIN tracks : tracks[t].of = CutTrack}
      <3>1. cut = IF found = {} THEN 0 ELSE CHOOSE t \in found : \A u \in found : t <= u
        BY DEF First
      <3>2. found # {} => \E t \in found : \A u \in found : t <= u
        <4> HIDE DEF found
        <4>1. found \in SUBSET Nat
          BY <1>0 DEF found
        <4> QED BY <4>1, LeastOf
      <3> QED BY <3>1, <3>2
    <2>2. /\ \/ tracks' = with /\ UNCHANGED possessables
             \/ \E range \in Ranges :
                  /\ tracks' = [with EXCEPT ![at].sections = Append(with[at].sections, NewSection(range))]
                  /\ \/ UNCHANGED possessables
                     \/ \E label \in Labels : possessables' = Append(possessables, label)
      BY <1>3 DEF AddCameraCut
    <2> HIDE DEF cut
    <2>3. with \in Seq(TrackRecords) /\ \A t \in DOMAIN with : Belongs(with[t].of, with[t].title)
      BY <1>0, <1>a, <1>b, TrackAppended
    <2>4. at \in DOMAIN with
      BY <1>0, <2>1
    <2> HIDE DEF with, at
    <2>5. CASE tracks' = with /\ UNCHANGED possessables
      BY <2>3, <2>5, OwnersStay
    <2>6. ASSUME NEW range \in Ranges,
                 tracks' = [with EXCEPT ![at].sections = Append(with[at].sections, NewSection(range))]
          PROVE  tracks' \in Seq(TrackRecords) /\ \A t \in DOMAIN tracks' : Belongs(tracks'[t].of, tracks'[t].title)
      <3>1. with[at] \in TrackRecords
        BY <2>3, <2>4
      <3>2. Append(with[at].sections, NewSection(range)) \in Seq(Sections)
        BY <1>d, <3>1 DEF TrackRecords
      <3> QED BY <2>3, <2>4, <2>6, <3>2, SectionsChanged
    <2> QED BY <1>a, <2>2, <2>5, <2>6, OwnersStay
  <1>4. CASE AddPossessable
    <2>1. UNCHANGED tracks /\ \E label \in DottedNames : possessables' = Append(possessables, label)
      BY <1>4, <1>a DEF AddPossessable
    <2> QED BY <1>0, <2>1, OwnersStay
  <1>5. CASE AddTrack
    <2>1. PICK of \in BindingIds, title \in Titles : AddsTrack(of, title) /\ UNCHANGED possessables
      BY <1>5 DEF AddTrack
    <2> QED BY <1>a, <1>c, <2>1, TrackAppended, OwnersStay DEF AddsTrack
  <1>6. CASE AddSection
    <2>0. PICK of \in BindingIds, title \in Titles, range \in Ranges :
            LET at == TrackTitled(of, title)
            IN  /\ tracks' = [tracks EXCEPT ![at].sections = Append(@, NewSection(range))]
                /\ UNCHANGED possessables
      BY <1>6 DEF AddSection
    <2> DEFINE at == TrackTitled(of, title)
    <2>1. /\ tracks' = [tracks EXCEPT ![at].sections = Append(tracks[at].sections, NewSection(range))]
          /\ UNCHANGED possessables
      BY <2>0
    <2> HIDE DEF at
    <2>2. CASE at \notin DOMAIN tracks
      <3>1. tracks' = tracks
        BY <1>0, <2>1, <2>2
      <3> QED BY <1>0, <2>1, <3>1, OwnersStay
    <2>3. CASE at \in DOMAIN tracks
      <3>1. tracks[at] \in TrackRecords
        BY <1>0, <2>3
      <3>2. Append(tracks[at].sections, NewSection(range)) \in Seq(Sections)
        BY <1>d, <3>1 DEF TrackRecords
      <3> QED BY <1>0, <2>1, <2>3, <3>2, SectionsChanged, OwnersStay
    <2> QED BY <2>2, <2>3
  <1>e. \A at, i : at \in DOMAIN tracks /\ i \in DOMAIN tracks[at].sections =>
          tracks[at].sections[i] \in Sections
    <2> SUFFICES ASSUME NEW at \in DOMAIN tracks, NEW i \in DOMAIN tracks[at].sections
                 PROVE  tracks[at].sections[i] \in Sections
      OBVIOUS
    <2>1. tracks[at] \in TrackRecords
      BY <1>0
    <2>2. tracks[at].sections \in Seq(Sections)
      BY <2>1 DEF TrackRecords
    <2> QED BY <2>2
  <1>8. CASE AddKeyframe
    <2>1. CASE UNCHANGED tracks /\ UNCHANGED possessables
      BY <1>0, <2>1, OwnersStay
    <2>2. ASSUME NEW at, NEW i, NEW cubic \in BOOLEAN,
                 tracks' = [tracks EXCEPT ![at].sections[i].keys = IF @ < KeyCount /\ (cubic \/ @ = 0) THEN @ + 1 ELSE @],
                 UNCHANGED possessables
          PROVE  SequenceInv'
      <3> DEFINE old == tracks[at].sections[i]
                 k == IF old.keys < KeyCount /\ (cubic \/ old.keys = 0) THEN old.keys + 1 ELSE old.keys
                 section == [old EXCEPT !.keys = k]
      <3>1. tracks' = [tracks EXCEPT ![at].sections[i] = section]
        BY <2>2
      <3>2. at \in DOMAIN tracks /\ i \in DOMAIN tracks[at].sections => section \in Sections
        BY <1>e DEF Sections
      <3> HIDE DEF section
      <3> QED BY SectionChanged, <2>2, <3>1, <3>2
    <2>3. \/ UNCHANGED tracks
          \/ \E s \in SectionsNamed, cubic \in BOOLEAN :
               tracks' = [tracks EXCEPT ![s[1]].sections[s[2]].keys = IF @ < KeyCount /\ (cubic \/ @ = 0) THEN @ + 1 ELSE @]
      BY <1>8 DEF AddKeyframe
    <2>4. UNCHANGED possessables
      BY <1>8 DEF AddKeyframe
    <2> QED BY <2>1, <2>2, <2>3, <2>4
  <1>9. CASE SetSectionRange
    <2>1. PICK s \in SectionsNamed, range \in Ranges :
            /\ tracks' = [tracks EXCEPT ![s[1]].sections[s[2]].range = range]
            /\ UNCHANGED possessables
      BY <1>9 DEF SetSectionRange
    <2> DEFINE old == tracks[s[1]].sections[s[2]]
               section == [old EXCEPT !.range = range]
    <2>2. tracks' = [tracks EXCEPT ![s[1]].sections[s[2]] = section]
      BY <2>1
    <2>3. s[1] \in DOMAIN tracks /\ s[2] \in DOMAIN tracks[s[1]].sections => section \in Sections
      BY <1>e DEF Sections
    <2> HIDE DEF section
    <2> QED BY SectionChanged, <2>1, <2>2, <2>3
  <1> QED BY <1>1, <1>2, <1>3, <1>4, <1>5, <1>6, <1>8, <1>9 DEF SequenceNext

\* SectionsFound, a property of the run ContentSurfaces: the path that a client
\* puts together from what sequencer.get_tracks shows leads to that section and
\* nowhere else, if no part of the path is empty, no other track has the path,
\* the binding's name has no dot and is no other binding's, and a master or camera
\* cut track's name has no dot.
THEOREM ShownSectionsAreFound == Spec => []SectionsFound
  <1>1. Init => SequenceInv
    BY DEF Init, SequenceInit, SequenceInv
  <1>2. SequenceInv /\ [Next]_vars => SequenceInv'
    <2> SUFFICES ASSUME SequenceInv, [Next]_vars PROVE SequenceInv'
      OBVIOUS
    <2>1. CASE UNCHANGED sequenceVars
      BY <2>1, OwnersStay DEF sequenceVars, SequenceInv
    <2> QED BY <2>1, SequenceFrame, SequenceNextKeeps
  <1>3. SequenceInv => SectionsFound
    BY SectionsFoundHere
  <1> QED BY <1>1, <1>2, <1>3, PTL DEF Spec

------------------------------------------------------------------------------
(* The lists of the registry and the call sites, page by page.              *)

\* The reads' tools alone change what is read, and the reader.
LEMMA ReadFrame ==
  ASSUME [Next]_vars
  PROVE  ReadNextState \/ UNCHANGED readVars
  BY DEF Next, vars, OthersStill, AssetStep, ReadStep, MemberStep, PartStep, GraphStep, AnimStep,
         MaterialStep, InputStep, DataStep, SequenceStep, PlayWorld

\* The entries that a list may have.
Entries == ({0} \cup Keys) \X Keys

\* There are finitely many.
LEMMA EntriesFinite == IsFiniteSet(Entries) /\ Entries \subseteq Nat \X Nat
<1>1. IsFiniteSet({0}) /\ IsFiniteSet(Keys)
  BY ReadSizes, FS_Singleton
<1>2. IsFiniteSet({0} \cup Keys)
  BY <1>1, FS_Union
<1>3. IsFiniteSet(({0} \cup Keys) \X Keys)
  BY <1>1, <1>2, FS_Product
<1>4. {0} \cup Keys \subseteq Nat /\ Keys \subseteq Nat
  BY ReadSizes
<1>5. Entries \subseteq Nat \X Nat
  BY <1>4 DEF Entries
<1> QED
  BY <1>3, <1>5 DEF Entries

RegistryTyped == DOMAIN assets \subseteq Keys /\ links \subseteq Links

\* Whatever is asked for is a list of them.
LEMMA ListingTyped ==
  ASSUME RegistryTyped, NEW ask \in Listings
  PROVE  Listing(ask) \subseteq Entries
<1>1. \A kinds : AssetsOf(kinds) \subseteq Entries
  BY DEF AssetsOf, Entries, RegistryTyped
<1>2. \A edges, root, recursive : WalkDependencyGraph(edges, root, recursive) \subseteq edges
  BY DEF WalkDependencyGraph
<1>3. links \subseteq Entries /\ Reversed(links) \subseteq Entries
  BY ReadSizes DEF RegistryTyped, Reversed, Entries
<1> QED
  BY <1>1, <1>2, <1>3 DEF Listing, Listings, AssetList, SearchByClass, FindDependents, FindReferences

PairsBefore == {p \in (Nat \X Nat) \X (Nat \X Nat) : Precedes(p[1], p[2])}

\* A list is ordered by its keys, and by the detail where keys repeat.
LEMMA PairsOrdered ==
  ASSUME NEW S \in SUBSET (Nat \X Nat)
  PROVE  /\ Orders(PairsBefore, S)
         /\ \A a, b \in S : <<a, b>> \in PairsBefore <=> Precedes(a, b)
<1>1. \A a, b \in S : <<a, b>> \in PairsBefore <=> Precedes(a, b)
  BY DEF PairsBefore
<1>2. \A a \in S : a[1] \in Nat /\ a[2] \in Nat /\ a = <<a[1], a[2]>>
  OBVIOUS
<1>3. \A a, b \in S : a[1] = b[1] /\ a[2] = b[2] => a = b
  BY <1>2
<1>4. \A a \in S : ~Precedes(a, a)
  BY <1>2 DEF Precedes
<1>5. \A a, b \in S : a # b => Precedes(a, b) \/ Precedes(b, a)
  BY <1>2, <1>3 DEF Precedes
<1>6. \A a, b, c \in S : Precedes(a, b) /\ Precedes(b, c) => Precedes(a, c)
  BY <1>2 DEF Precedes
<1> QED
  BY <1>1, <1>4, <1>5, <1>6 DEF Orders

\* A page, and its last key.  Keys that repeat may be on both of its sides.
KeyOfPage(rest, key) ==
  /\ key \in Nat
  /\ \E e \in SlicePage(rest) : e[2] = key
  /\ \A e \in SlicePage(rest) : e[2] <= key
  /\ ~Twins(rest) => \A e \in rest \ SlicePage(rest) : e[2] > key

LEMMA PageOfEntries ==
  ASSUME NEW rest \in SUBSET Entries
  PROVE  /\ SlicePage(rest) \subseteq rest
         /\ Cardinality(rest) \in Nat
         /\ Cardinality(rest) <= PageSize => SlicePage(rest) = rest
         /\ rest # {} => KeyOfPage(rest, Max({e[2] : e \in SlicePage(rest)}))
<1>1. IsFiniteSet(rest) /\ rest \subseteq Nat \X Nat
  BY EntriesFinite, FS_Subset
<1>2. /\ Orders(PairsBefore, rest)
      /\ \A a, b \in rest : <<a, b>> \in PairsBefore <=> Precedes(a, b)
  BY <1>1, PairsOrdered
<1> DEFINE P == SlicePage(rest)
<1>3. FirstOf(P, rest, PairsBefore, PageSize)
  <2>1. \A e \in rest : {d \in rest : Precedes(d, e)} = {d \in rest : <<d, e>> \in PairsBefore}
    BY <1>2
  <2> QED BY <2>1 DEF FirstOf, SlicePage
<1>4. PageSize \in Nat \ {0}
  BY ReadSizes
<1> HIDE DEF P
<1>5. /\ P \subseteq rest
      /\ rest # {} => P # {}
      /\ Cardinality(rest) <= PageSize => P = rest
      /\ Cardinality(rest) \in Nat
      /\ \A x \in P : \A y \in rest \ P : <<x, y>> \in PairsBefore
      /\ P # {} => \E m \in P : \A a \in P \ {m} : <<a, m>> \in PairsBefore
  BY <1>1, <1>2, <1>3, <1>4, FirstOnes
<1>6. \A a \in rest : a[2] \in Nat
  BY <1>1
<1>7. ASSUME rest # {}
      PROVE  KeyOfPage(rest, Max({e[2] : e \in P}))
  <2>1. PICK m \in P : \A a \in P \ {m} : <<a, m>> \in PairsBefore
    BY <1>5, <1>7
  <2>2. \A a \in P : a[2] <= m[2]
    <3>1. m \in rest /\ m[2] \in Nat
      BY <1>5, <1>6
    <3>2. ASSUME NEW a \in P, a # m PROVE a[2] <= m[2]
      <4>1. a \in rest /\ a[2] \in Nat /\ Precedes(a, m)
        BY <1>2, <1>5, <1>6, <2>1, <3>1, <3>2
      <4> QED BY <3>1, <4>1 DEF Precedes
    <3> QED BY <3>1, <3>2
  <2> DEFINE K == {e[2] : e \in P}
  <2>3. m[2] \in K /\ \A k \in K : k \in Nat /\ m[2] >= k
    BY <1>5, <1>6, <2>2
  <2> HIDE DEF K
  <2>4. Max(K) = m[2]
    <3>1. Max(K) \in K /\ \A k \in K : Max(K) >= k
      BY <2>3 DEF Max
    <3> QED BY <2>3, <3>1
  <2>5. ASSUME ~Twins(rest) PROVE \A e \in rest \ P : e[2] > m[2]
    <3> SUFFICES ASSUME NEW e \in rest \ P PROVE e[2] > m[2]
      OBVIOUS
    <3>1. Precedes(m, e)
      BY <1>2, <1>5
    <3>2. e # m /\ e \in rest /\ m \in rest
      BY <1>5
    <3>3. e[2] # m[2]
      BY <2>5, <3>2 DEF Twins
    <3> QED BY <1>6, <3>1, <3>2, <3>3 DEF Precedes
  <2>6. m[2] \in Nat
    BY <1>5, <1>6
  <2>7. KeyOfPage(rest, m[2])
    BY <2>1, <2>2, <2>5, <2>6 DEF KeyOfPage, P
  <2> QED BY <2>4, <2>7 DEF K
<1> QED
  BY <1>5, <1>7 DEF P

Asks == {"none", "stale", "callsites"} \cup Listings

ReaderType ==
  [ask : Asks, at : {"done", "paging"}, last : Nat, node : Nat, shown : SUBSET (Nat \X Nat),
   twice : BOOLEAN, owed : SUBSET (Nat \X Nat), twins : BOOLEAN]

\* Before a page is taken from rest, and behind it.
LeftOver(r, entries, rest) ==
  /\ ~Twins(entries)
  /\ r.owed \subseteq entries
  /\ r.twice = FALSE
  /\ \A e \in r.shown : \A d \in rest : e[2] < d[2]
  /\ \A e \in r.owed : e \in r.shown \/ e \in rest

UpTo(r, entries) ==
  /\ ~Twins(entries)
  /\ r.owed \subseteq entries
  /\ r.twice = FALSE
  /\ \A e \in r.shown : e[2] <= r.last
  /\ \A e \in r.owed : e[2] <= r.last => e \in r.shown

Complete(r) == r.owed \subseteq r.shown /\ r.twice = FALSE

\* What a page does to the reader.
LEMMA PagedFields ==
  ASSUME NEW r \in ReaderType, NEW rest \in SUBSET Entries
  PROVE  /\ Paged(r, rest) \in ReaderType
         /\ Paged(r, rest).ask = r.ask
         /\ Paged(r, rest).owed = r.owed
         /\ Paged(r, rest).twins = r.twins
         /\ Paged(r, rest).shown = r.shown \cup SlicePage(rest)
         /\ Paged(r, rest).twice = (r.twice \/ r.shown \cap SlicePage(rest) # {})
         /\ Paged(r, rest).last = IF rest = {} THEN r.last ELSE Max({e[2] : e \in SlicePage(rest)})
         /\ Paged(r, rest).at = IF Cardinality(rest) > PageSize THEN "paging" ELSE "done"
<1> DEFINE page == SlicePage(rest)
           key == Max({e[2] : e \in page})
<1>1. page \subseteq Nat \X Nat /\ (rest # {} => key \in Nat)
  BY PageOfEntries, EntriesFinite DEF KeyOfPage
<1>2. Paged(r, rest) =
        [r EXCEPT !.shown = @ \cup page,
                  !.twice = @ \/ r.shown \cap page # {},
                  !.last = IF rest = {} THEN @ ELSE key,
                  !.at = IF Cardinality(rest) > PageSize THEN "paging" ELSE "done"]
  BY DEF Paged
<1> HIDE DEF key, page
<1>3. r.shown \subseteq Nat \X Nat /\ r.twice \in BOOLEAN /\ r.last \in Nat
  BY DEF ReaderType
<1>4. /\ r.shown \cup page \in SUBSET (Nat \X Nat)
      /\ (r.twice \/ r.shown \cap page # {}) \in BOOLEAN
      /\ (IF rest = {} THEN r.last ELSE key) \in Nat
      /\ (IF Cardinality(rest) > PageSize THEN "paging" ELSE "done") \in {"done", "paging"}
  BY <1>1, <1>3
<1>5. Paged(r, rest) \in ReaderType
  BY <1>2, <1>4 DEF ReaderType
<1> QED
  BY <1>2, <1>5 DEF ReaderType, key, page

\* A page is taken from the front of what is left, so the reader goes on behind
\* it, or is done.
LEMMA PagedKeeps ==
  ASSUME NEW r \in ReaderType, NEW entries \in SUBSET Entries, NEW rest \in SUBSET entries,
         LeftOver(r, entries, rest), NEW q, q = Paged(r, rest)
  PROVE  /\ q.at = "paging" => UpTo(q, entries)
         /\ q.at = "done" => Complete(q)
<1> DEFINE page == SlicePage(rest)
           key == Max({e[2] : e \in page})
<1>1. rest \in SUBSET Entries
  OBVIOUS
<1>2. /\ page \subseteq rest
      /\ Cardinality(rest) \in Nat
      /\ Cardinality(rest) <= PageSize => page = rest
      /\ rest # {} => KeyOfPage(rest, key)
  BY <1>1, PageOfEntries
<1>3. /\ q.owed = r.owed
      /\ q.shown = r.shown \cup page
      /\ q.twice = (r.twice \/ r.shown \cap page # {})
      /\ q.last = IF rest = {} THEN r.last ELSE key
      /\ q.at = IF Cardinality(rest) > PageSize THEN "paging" ELSE "done"
  <2>1. /\ Paged(r, rest).owed = r.owed
        /\ Paged(r, rest).shown = r.shown \cup SlicePage(rest)
        /\ Paged(r, rest).twice = (r.twice \/ r.shown \cap SlicePage(rest) # {})
        /\ Paged(r, rest).last = IF rest = {} THEN r.last ELSE Max({e[2] : e \in SlicePage(rest)})
        /\ Paged(r, rest).at = IF Cardinality(rest) > PageSize THEN "paging" ELSE "done"
    BY ONLY <1>1, r \in ReaderType, PagedFields
  <2> QED BY <2>1
<1>4. \A e \in rest : e[2] \in Nat
  BY EntriesFinite
<1>5. ~Twins(rest)
  BY DEF LeftOver, Twins
<1> USE DEF page
<1>6. rest # {} => /\ key \in Nat
                   /\ \E e \in page : e[2] = key
                   /\ \A e \in page : e[2] <= key
                   /\ \A e \in rest \ page : e[2] > key
  BY <1>2, <1>5 DEF KeyOfPage
<1> HIDE DEF key, page
<1>7. /\ ~Twins(entries) /\ r.owed \subseteq entries /\ r.twice = FALSE
      /\ \A e \in r.shown : \A d \in rest : e[2] < d[2]
      /\ \A e \in r.owed : e \in r.shown \/ e \in rest
  BY DEF LeftOver
<1>8. \A e \in r.shown : e[2] \in Nat
  BY DEF ReaderType
<1>9. q.twice = FALSE
  <2>1. \A e \in page : e \notin r.shown
    BY <1>2, <1>4, <1>7
  <2> QED BY <1>3, <1>7, <2>1
<1>10. ASSUME q.at = "paging" PROVE UpTo(q, entries)
  <2>1. rest # {}
    <3>1. Cardinality(rest) > PageSize
      BY <1>3, <1>10
    <3> QED BY <3>1, ReadSizes, FS_EmptySet
  <2>2. q.last = key
    BY <1>3, <2>1
  <2>3. \A e \in q.shown : e[2] <= key
    <3>1. PICK d \in page : d[2] = key
      BY <1>6, <2>1
    <3>2. \A e \in r.shown : e[2] < key
      BY <1>2, <1>7, <3>1
    <3> QED BY <1>3, <1>6, <1>8, <2>1, <3>2
  <2>4. ASSUME NEW e \in r.owed, e[2] <= key PROVE e \in q.shown
    <3>1. CASE e \in r.shown
      BY <1>3, <3>1
    <3>2. CASE e \in rest
      <4>1. e \in page
        BY <1>4, <1>6, <2>1, <2>4, <3>2
      <4> QED BY <1>3, <4>1
    <3> QED BY <1>7, <3>1, <3>2
  <2> QED BY <1>3, <1>7, <1>9, <2>2, <2>3, <2>4 DEF UpTo
<1>11. ASSUME q.at = "done" PROVE Complete(q)
  <2>1. page = rest
    BY <1>2, <1>3, <1>11, ReadSizes
  <2> QED BY <1>3, <1>7, <1>9, <2>1 DEF Complete
<1> QED
  BY <1>10, <1>11

\* There are finitely many call sites.
LEMMA SitesFinite ==
  /\ Sites \subseteq (1 .. Blueprints) \X (1 .. 2)
  /\ IsFiniteSet(Sites)
<1>1. Blueprints \in Int /\ 1 \in Int /\ 2 \in Int
  BY ReadSizes
<1>2. IsFiniteSet(1 .. Blueprints)
  BY <1>1, FS_Interval, Zenon
<1>3. IsFiniteSet(1 .. 2)
  BY <1>1, FS_Interval, Zenon
<1>4. IsFiniteSet((1 .. Blueprints) \X (1 .. 2))
  BY <1>2, <1>3, FS_Product
<1>5. Sites \subseteq (1 .. Blueprints) \X (1 .. 2)
  BY DEF Sites
<1> QED
  BY <1>4, <1>5, FS_Subset

SitesBefore == {p \in (Nat \X Nat) \X (Nat \X Nat) : Earlier(p[1], p[2])}

\* Call sites are ordered by blueprint and node.
LEMMA SitesOrdered ==
  ASSUME NEW S \in SUBSET (Nat \X Nat)
  PROVE  /\ Orders(SitesBefore, S)
         /\ \A a, b \in S : <<a, b>> \in SitesBefore <=> Earlier(a, b)
<1>1. \A a, b \in S : <<a, b>> \in SitesBefore <=> Earlier(a, b)
  BY DEF SitesBefore
<1>2. \A a \in S : a[1] \in Nat /\ a[2] \in Nat /\ a = <<a[1], a[2]>>
  OBVIOUS
<1>3. \A a, b \in S : a[1] = b[1] /\ a[2] = b[2] => a = b
  BY <1>2
<1>4. \A a \in S : ~Earlier(a, a)
  BY <1>2 DEF Earlier
<1>5. \A a, b \in S : a # b => Earlier(a, b) \/ Earlier(b, a)
  BY <1>2, <1>3 DEF Earlier
<1>6. \A a, b, c \in S : Earlier(a, b) /\ Earlier(b, c) => Earlier(a, c)
  BY <1>2 DEF Earlier
<1> QED
  BY <1>1, <1>4, <1>5, <1>6 DEF Orders

\* One request: the sites it gives and where the next one starts.
Window(from) == {s \in SitesFrom(from) : s[1] <= from[1] + ScanCap}
SitesPage(from) == {s \in Window(from) : Cardinality({t \in Window(from) : Earlier(t, s)}) < MaxResults}
PageEnd(from) == CHOOSE s \in SitesPage(from) : \A t \in SitesPage(from) \ {s} : Earlier(t, s)
NextFrom(from) ==
  IF Cardinality(Window(from)) >= MaxResults
  THEN <<PageEnd(from)[1] - 1, PageEnd(from)[2]>> ELSE <<from[1] + ScanCap, 0>>

\* The sites from a cursor are those of one request and those from the next.
LEMMA SitesSplit ==
  ASSUME NEW from \in Nat \X Nat
  PROVE  /\ NextFrom(from) \in Nat \X Nat
         /\ SitesPage(from) \subseteq SitesFrom(from)
         /\ SitesFrom(NextFrom(from)) = SitesFrom(from) \ SitesPage(from)
         /\ NextFrom(from)[1] >= Blueprints => SitesFrom(NextFrom(from)) = {}
<1> DEFINE W == Window(from)
           P == SitesPage(from)
           end == PageEnd(from)
           next == NextFrom(from)
<1>1. /\ Sites \subseteq Nat \X Nat
      /\ \A s \in Sites : s[1] \in 1 .. Blueprints /\ s[2] \in 1 .. 2
  BY SitesFinite
<1>2. from[1] \in Nat /\ from[2] \in Nat /\ ScanCap \in Nat /\ MaxResults \in Nat \ {0} /\ Blueprints \in Nat
  BY ReadSizes
<1>3. \A s, f : s \in SitesFrom(f) <=>
        s \in Sites /\ (s[1] > f[1] + 1 \/ (s[1] = f[1] + 1 /\ s[2] > f[2]))
  BY DEF SitesFrom
<1>4. \A s : s \in W <=> s \in SitesFrom(from) /\ s[1] <= from[1] + ScanCap
  BY DEF Window
<1>5. W \subseteq Nat \X Nat /\ IsFiniteSet(W)
  BY <1>1, <1>3, <1>4, SitesFinite, FS_Subset
<1>6. /\ Orders(SitesBefore, W)
      /\ \A a, b \in W : <<a, b>> \in SitesBefore <=> Earlier(a, b)
  BY <1>5, SitesOrdered
<1>7. FirstOf(P, W, SitesBefore, MaxResults)
  <2>1. \A s \in W : {t \in W : Earlier(t, s)} = {t \in W : <<t, s>> \in SitesBefore}
    BY <1>6
  <2> QED BY <2>1 DEF FirstOf, SitesPage
<1> HIDE DEF P, W
<1>8. /\ P \subseteq W
      /\ W # {} => P # {}
      /\ Cardinality(W) <= MaxResults => P = W
      /\ Cardinality(W) \in Nat
      /\ \A x \in P : \A y \in W \ P : <<x, y>> \in SitesBefore
      /\ P # {} => \E m \in P : \A a \in P \ {m} : <<a, m>> \in SitesBefore
  BY <1>2, <1>5, <1>6, <1>7, FirstOnes
<1>9. P \subseteq SitesFrom(from)
  BY <1>4, <1>8
<1>10. CASE Cardinality(W) >= MaxResults
  <2>1. W # {}
    BY <1>2, <1>10, FS_EmptySet
  <2>2. \E m \in P : \A a \in P \ {m} : Earlier(a, m)
    BY <1>6, <1>8, <2>1
  <2>3. end \in P /\ \A a \in P \ {end} : Earlier(a, end)
    BY <2>2 DEF PageEnd, P
  <2>4. next = <<end[1] - 1, end[2]>>
    BY <1>10 DEF NextFrom, W
  <2> HIDE DEF end, next
  <2>5. end \in W /\ end \in SitesFrom(from) /\ end \in Sites
    BY <1>3, <1>4, <1>8, <2>3
  <2>6. end[1] \in 1 .. Blueprints /\ end[2] \in 1 .. 2 /\ end[1] <= from[1] + ScanCap
    BY <1>1, <1>4, <2>5
  <2>7. next[1] = end[1] - 1 /\ next[2] = end[2] /\ next \in Nat \X Nat
    BY <2>4, <2>6
  <2>8. \A s : s \in SitesFrom(next) <=> s \in Sites /\ Earlier(end, s)
    <3> SUFFICES ASSUME NEW s \in Sites PROVE s \in SitesFrom(next) <=> Earlier(end, s)
      BY <1>3
    <3>1. s[1] \in Nat /\ s[2] \in Nat
      BY <1>1
    <3> QED BY <1>3, <2>6, <2>7, <3>1 DEF Earlier
  <2>9. ASSUME NEW s \in SitesFrom(next) PROVE s \in SitesFrom(from) /\ s \notin P
    <3>1. s \in Sites /\ Earlier(end, s) /\ s[1] \in Nat /\ s[2] \in Nat
      BY <1>1, <2>8, <2>9
    <3>2. s \in SitesFrom(from)
      BY <1>2, <1>3, <2>5, <2>6, <3>1 DEF Earlier
    <3>3. s # end
      BY <2>6, <3>1 DEF Earlier
    <3>4. ~Earlier(s, end)
      BY <2>6, <3>1 DEF Earlier
    <3> QED BY <2>3, <3>2, <3>3, <3>4
  <2>10. ASSUME NEW s \in SitesFrom(from), s \notin P PROVE s \in SitesFrom(next)
    <3>1. s \in Sites /\ s[1] \in Nat /\ s[2] \in Nat
      BY <1>1, <1>3, <2>10
    <3>2. CASE s \in W
      <4>1. Earlier(end, s)
        BY <1>6, <1>8, <2>3, <2>5, <2>10, <3>2
      <4> QED BY <2>8, <3>1, <4>1
    <3>3. CASE s \notin W
      <4>1. s[1] > from[1] + ScanCap
        BY <1>2, <1>4, <2>10, <3>1, <3>3
      <4>2. Earlier(end, s)
        BY <1>2, <2>6, <3>1, <4>1 DEF Earlier
      <4> QED BY <2>8, <3>1, <4>2
    <3> QED BY <3>2, <3>3
  <2>11. SitesFrom(next) = SitesFrom(from) \ P
    BY <2>9, <2>10
  <2>12. ~(next[1] >= Blueprints)
    BY <1>2, <2>6, <2>7
  <2> QED BY <1>9, <2>7, <2>11, <2>12 DEF next, P
<1>11. CASE ~(Cardinality(W) >= MaxResults)
  <2>1. P = W
    BY <1>2, <1>8, <1>11
  <2>2. next = <<from[1] + ScanCap, 0>>
    BY <1>11 DEF NextFrom, W
  <2> HIDE DEF next
  <2>3. next[1] = from[1] + ScanCap /\ next[2] = 0 /\ next \in Nat \X Nat
    BY <1>2, <2>2
  <2>4. \A s : s \in SitesFrom(next) <=> s \in Sites /\ s[1] > from[1] + ScanCap
    <3> SUFFICES ASSUME NEW s \in Sites PROVE s \in SitesFrom(next) <=> s[1] > from[1] + ScanCap
      BY <1>3
    <3>1. s[1] \in Nat /\ s[2] \in Nat /\ s[2] > 0
      BY <1>1
    <3> QED BY <1>2, <1>3, <2>3, <3>1
  <2>5. ASSUME NEW s \in Sites PROVE s \in SitesFrom(next) <=> s \in SitesFrom(from) \ P
    <3>1. s[1] \in Nat /\ s[2] \in Nat
      BY <1>1
    <3>2. s[1] > from[1] + ScanCap => s \in SitesFrom(from)
      BY <1>2, <1>3, <3>1, ReadSizes
    <3>3. s[1] > from[1] + ScanCap <=> ~(s[1] <= from[1] + ScanCap)
      BY <1>2, <3>1
    <3> QED BY <1>4, <2>1, <2>4, <3>2, <3>3
  <2>6. SitesFrom(next) = SitesFrom(from) \ P
    BY <1>3, <2>5
  <2>7. ASSUME next[1] >= Blueprints PROVE SitesFrom(next) = {}
    BY <1>1, <1>2, <2>3, <2>4, <2>7
  <2> QED BY <1>9, <2>3, <2>6, <2>7 DEF next, P
<1> QED
  BY <1>10, <1>11

\* What a request of the search does to the reader.
LEMMA ScannedFields ==
  ASSUME NEW r \in ReaderType, NEW from \in Nat \X Nat
  PROVE  /\ Scanned(r, from) \in ReaderType
         /\ Scanned(r, from).ask = r.ask
         /\ Scanned(r, from).owed = r.owed
         /\ Scanned(r, from).shown = r.shown \cup SitesPage(from)
         /\ Scanned(r, from).twice = (r.twice \/ r.shown \cap SitesPage(from) # {})
         /\ <<Scanned(r, from).last, Scanned(r, from).node>> = NextFrom(from)
         /\ Scanned(r, from).at = IF NextFrom(from)[1] < Blueprints THEN "paging" ELSE "done"
<1> DEFINE page == SitesPage(from)
           next == NextFrom(from)
<1>1. /\ page \subseteq Nat \X Nat
      /\ next \in Nat \X Nat
  <2>1. SitesFrom(from) \subseteq Nat \X Nat
    BY SitesFinite DEF SitesFrom
  <2> QED BY <2>1, SitesSplit
<1>2. Scanned(r, from) =
        [r EXCEPT !.shown = @ \cup page,
                  !.twice = @ \/ r.shown \cap page # {},
                  !.last = next[1], !.node = next[2],
                  !.at = IF next[1] < Blueprints THEN "paging" ELSE "done"]
  BY DEF Scanned, Window, SitesPage, PageEnd, NextFrom
<1> HIDE DEF page, next
<1>3. r.shown \subseteq Nat \X Nat /\ r.twice \in BOOLEAN
  BY DEF ReaderType
<1>4. /\ r.shown \cup page \in SUBSET (Nat \X Nat)
      /\ (r.twice \/ r.shown \cap page # {}) \in BOOLEAN
      /\ next[1] \in Nat /\ next[2] \in Nat /\ next = <<next[1], next[2]>>
      /\ (IF next[1] < Blueprints THEN "paging" ELSE "done") \in {"done", "paging"}
  BY <1>1, <1>3
<1>5. Scanned(r, from) \in ReaderType
  BY <1>2, <1>4 DEF ReaderType
<1> QED
  BY <1>2, <1>4, <1>5 DEF ReaderType, page, next

\* The search for call sites has given the sites before its cursor.
ScannedTo(r, from) ==
  /\ r.owed = Sites
  /\ r.twice = FALSE
  /\ r.shown = Sites \ SitesFrom(from)

\* The next request takes up the search where this one stops.
LEMMA ScannedKeeps ==
  ASSUME NEW r \in ReaderType, NEW from \in Nat \X Nat, ScannedTo(r, from),
         NEW q, q = Scanned(r, from)
  PROVE  /\ ScannedTo(q, <<q.last, q.node>>)
         /\ q.at = "done" => q.owed = q.shown
<1>1. /\ NextFrom(from) \in Nat \X Nat
      /\ SitesPage(from) \subseteq SitesFrom(from)
      /\ SitesFrom(NextFrom(from)) = SitesFrom(from) \ SitesPage(from)
      /\ NextFrom(from)[1] >= Blueprints => SitesFrom(NextFrom(from)) = {}
  BY SitesSplit
<1>2. /\ q.owed = r.owed
      /\ q.shown = r.shown \cup SitesPage(from)
      /\ q.twice = (r.twice \/ r.shown \cap SitesPage(from) # {})
      /\ <<q.last, q.node>> = NextFrom(from)
      /\ q.at = IF NextFrom(from)[1] < Blueprints THEN "paging" ELSE "done"
  BY ScannedFields
<1>3. SitesFrom(from) \subseteq Sites
  BY DEF SitesFrom
<1>4. r.owed = Sites /\ r.twice = FALSE /\ r.shown = Sites \ SitesFrom(from)
  BY DEF ScannedTo
<1>5. q.twice = FALSE
  BY <1>1, <1>2, <1>4
<1>6. q.shown = Sites \ SitesFrom(NextFrom(from))
  BY <1>1, <1>2, <1>3, <1>4
<1>7. ASSUME q.at = "done" PROVE q.owed = q.shown
  <2>1. NextFrom(from)[1] \in Nat /\ Blueprints \in Nat
    BY <1>1, ReadSizes
  <2>2. NextFrom(from)[1] >= Blueprints
    BY <1>2, <1>7, <2>1
  <2> QED BY <1>1, <1>2, <1>4, <1>6, <2>2
<1> QED
  BY <1>2, <1>4, <1>5, <1>6, <1>7 DEF ScannedTo

\* What the reader has of a list, and of the call sites, whichever it asked for.
ListWalk(r) ==
  \A ask \in Listings :
    r.ask = ask /\ r.twins = FALSE => IF r.at = "paging" THEN UpTo(r, Listing(ask)) ELSE Complete(r)

SiteWalk(r) ==
  r.ask = "callsites" =>
    /\ ScannedTo(r, <<r.last, r.node>>)
    /\ r.at = "done" => r.owed = r.shown

ReadInv ==
  /\ RegistryTyped
  /\ reader \in ReaderType
  /\ ListWalk(reader)
  /\ SiteWalk(reader)

\* Nothing is asked for at first.
LEMMA ReadInitially ==
  ASSUME Init
  PROVE  ReadInv
<1>1. ReadInit
  BY DEF Init
<1>2. [Keys -> Kinds] # {}
  <2>1. PICK k \in Kinds : TRUE
    BY ReadSizes
  <2>2. [x \in Keys |-> k] \in [Keys -> Kinds]
    BY <2>1
  <2> QED BY <2>2
<1>3. \A S, f : f # {} => Start(S, f) \subseteq f
  BY DEF Start
<1>4. assets \in [Keys -> Kinds] /\ links \in SUBSET Links /\ reader = NoReader
  BY <1>1, <1>2, <1>3 DEF ReadInit
<1>5. RegistryTyped
  BY <1>4 DEF RegistryTyped
<1>6. NoReader \in ReaderType /\ NoReader.ask = "none"
  BY DEF NoReader, ReaderType, Asks
<1> QED
  BY <1>4, <1>5, <1>6 DEF ReadInv, ListWalk, SiteWalk, Listings

\* The first page of a list.
LEMMA ReadFirstKeeps ==
  ASSUME ReadInv, ReadFirst, UNCHANGED <<assets, links, calls>>
  PROVE  ReadInv'
<1>1. PICK ask \in Listings :
        reader' = Paged([NoReader EXCEPT !.ask = ask, !.owed = Listing(ask), !.twins = Twins(Listing(ask))],
                        Listing(ask))
  BY DEF ReadFirst
<1> DEFINE entries == Listing(ask)
<1>2. entries \subseteq Entries /\ entries \in SUBSET (Nat \X Nat) /\ Listing(ask)' = entries
  <2>1. entries \subseteq Entries
    BY ListingTyped DEF ReadInv
  <2>2. Listing(ask)' = entries
    BY DEF Listing, AssetList, SearchByClass, AssetsOf, FindDependents, FindReferences
  <2> QED BY <2>1, <2>2, EntriesFinite
<1>3. PICK twins \in BOOLEAN : twins = Twins(entries)
  BY DEF Twins
<1> DEFINE r == [NoReader EXCEPT !.ask = ask, !.owed = entries, !.twins = twins]
<1>4. reader' = Paged(r, entries)
  BY <1>1, <1>3
<1>5. ask \in Asks
  BY DEF Asks
<1> HIDE DEF entries, r
<1>6. /\ r \in ReaderType
      /\ r.ask = ask /\ r.owed = entries /\ r.twins = twins
      /\ r.shown = {} /\ r.twice = FALSE
  BY <1>2, <1>5 DEF r, NoReader, ReaderType
<1>7. /\ reader' \in ReaderType
      /\ reader'.ask = ask /\ reader'.twins = twins
  BY <1>2, <1>4, <1>6, PagedFields
<1>8. reader'.at \in {"done", "paging"}
  BY <1>7 DEF ReaderType
<1>9. ASSUME twins = FALSE
      PROVE  IF reader'.at = "paging" THEN UpTo(reader', entries) ELSE Complete(reader')
  <2>1. LeftOver(r, entries, entries)
    BY <1>3, <1>6, <1>9 DEF LeftOver
  <2>2. /\ reader'.at = "paging" => UpTo(reader', entries)
        /\ reader'.at = "done" => Complete(reader')
    BY <1>2, <1>4, <1>6, <2>1, PagedKeeps
  <2> QED BY <1>8, <2>2
<1>10. ListWalk(reader)'
  BY <1>2, <1>7, <1>9 DEF ListWalk
<1>11. reader'.ask # "callsites"
  BY <1>7 DEF Listings
<1>12. RegistryTyped'
  BY DEF ReadInv, RegistryTyped
<1> QED
  BY <1>7, <1>11, <1>12, <1>10 DEF ReadInv, SiteWalk

\* The next page, of the list as it is by then.
LEMMA ReadNextKeeps ==
  ASSUME ReadInv, ReadNext, UNCHANGED <<assets, links, calls>>
  PROVE  ReadInv'
<1>1. PICK ask \in Listings :
        /\ reader.at = "paging" /\ reader.ask \in Listings
        /\ reader' = IF ask = reader.ask
                     THEN Paged(reader, Rest(Listing(ask), reader.last))
                     ELSE [NoReader EXCEPT !.ask = "stale"]
  BY DEF ReadNext
<1>2. RegistryTyped'
  BY DEF ReadInv, RegistryTyped
<1>3. CASE ask # reader.ask
  <2>1. reader' = [NoReader EXCEPT !.ask = "stale"]
    BY <1>1, <1>3
  <2>2. reader' \in ReaderType /\ reader'.ask = "stale"
    BY <2>1 DEF NoReader, ReaderType, Asks
  <2> QED BY <1>2, <2>2 DEF ReadInv, ListWalk, SiteWalk, Listings
<1>4. CASE ask = reader.ask
  <2> DEFINE entries == Listing(ask)
             rest == Rest(entries, reader.last)
  <2>1. entries \subseteq Entries /\ Listing(ask)' = entries
    <3>1. entries \subseteq Entries
      BY ListingTyped DEF ReadInv
    <3>2. Listing(ask)' = entries
      BY DEF Listing, AssetList, SearchByClass, AssetsOf, FindDependents, FindReferences
    <3> QED BY <3>1, <3>2
  <2>2. reader' = Paged(reader, rest)
    BY <1>1, <1>4
  <2>3. rest \subseteq entries /\ \A e \in entries : e \in rest <=> e[2] > reader.last
    BY DEF Rest
  <2> HIDE DEF entries, rest
  <2>4. /\ reader \in ReaderType /\ reader.last \in Nat
        /\ \A e \in reader.shown : e[2] \in Nat
        /\ \A e \in entries : e[2] \in Nat
    <3>1. reader \in ReaderType
      BY DEF ReadInv
    <3>2. reader.last \in Nat /\ \A e \in reader.shown : e[2] \in Nat
      BY <3>1 DEF ReaderType
    <3> QED BY <2>1, <3>1, <3>2, EntriesFinite
  <2>5. /\ reader' \in ReaderType
        /\ reader'.ask = ask /\ reader'.twins = reader.twins
    BY <1>4, <2>1, <2>2, <2>3, <2>4, PagedFields
  <2>6. reader'.at \in {"done", "paging"}
    BY <2>5 DEF ReaderType
  <2>7. ASSUME reader.twins = FALSE
        PROVE  IF reader'.at = "paging" THEN UpTo(reader', entries) ELSE Complete(reader')
    <3>1. UpTo(reader, entries)
      BY <1>1, <1>4, <2>7 DEF ReadInv, ListWalk, entries
    <3>2. LeftOver(reader, entries, rest)
      <4>1. \A e \in reader.shown : \A d \in rest : e[2] < d[2]
        BY <2>3, <2>4, <3>1 DEF UpTo
      <4>2. \A e \in reader.owed : e \in reader.shown \/ e \in rest
        BY <2>3, <2>4, <3>1 DEF UpTo
      <4> QED BY <3>1, <4>1, <4>2 DEF UpTo, LeftOver
    <3>3. /\ reader'.at = "paging" => UpTo(reader', entries)
          /\ reader'.at = "done" => Complete(reader')
      BY <2>1, <2>2, <2>3, <2>4, <3>2, PagedKeeps
    <3> QED BY <2>6, <3>3
  <2>8. ListWalk(reader)'
    BY <2>1, <2>5, <2>7 DEF ListWalk
  <2>9. reader'.ask # "callsites"
    BY <2>5 DEF Listings
  <2> QED BY <1>2, <2>5, <2>8, <2>9 DEF ReadInv, SiteWalk
<1> QED
  BY <1>3, <1>4

\* A request of the search for call sites.
LEMMA FindCallsitesKeeps ==
  ASSUME ReadInv, FindCallsites, UNCHANGED <<assets, links, calls>>
  PROVE  ReadInv'
<1>1. RegistryTyped'
  BY DEF ReadInv, RegistryTyped
<1>2. Sites' = Sites /\ \A from : SitesFrom(from)' = SitesFrom(from)
  BY DEF Sites, SitesFrom
<1>3. \E r \in ReaderType : \E from \in Nat \X Nat :
        r.ask = "callsites" /\ ScannedTo(r, from) /\ reader' = Scanned(r, from)
  <2>1. CASE /\ reader.at = "done"
             /\ reader' = Scanned([NoReader EXCEPT !.ask = "callsites", !.owed = Sites], <<0, 0>>)
    <3> DEFINE r == [NoReader EXCEPT !.ask = "callsites", !.owed = Sites]
    <3>1. Sites \in SUBSET (Nat \X Nat) /\ \A s \in Sites : s[1] >= 1 /\ s[2] >= 1 /\ s[1] \in Nat /\ s[2] \in Nat
      BY SitesFinite
    <3>2. /\ r \in ReaderType
          /\ r.ask = "callsites" /\ r.owed = Sites /\ r.shown = {} /\ r.twice = FALSE
      BY <3>1 DEF NoReader, ReaderType, Asks
    <3>3. SitesFrom(<<0, 0>>) = Sites
      BY <3>1 DEF SitesFrom
    <3> HIDE DEF r
    <3>4. ScannedTo(r, <<0, 0>>)
      BY <3>2, <3>3 DEF ScannedTo
    <3>5. reader' = Scanned(r, <<0, 0>>)
      BY <2>1 DEF r
    <3> QED BY <3>2, <3>4, <3>5
  <2>2. CASE /\ reader.at = "paging" /\ reader.ask = "callsites"
             /\ reader' = Scanned(reader, <<reader.last, reader.node>>)
    <3>1. reader \in ReaderType /\ ScannedTo(reader, <<reader.last, reader.node>>)
      BY <2>2 DEF ReadInv, SiteWalk
    <3>2. <<reader.last, reader.node>> \in Nat \X Nat
      BY <3>1 DEF ReaderType
    <3> QED BY <2>2, <3>1, <3>2
  <2> QED BY <2>1, <2>2 DEF FindCallsites
<1>4. PICK r \in ReaderType, from \in Nat \X Nat :
        r.ask = "callsites" /\ ScannedTo(r, from) /\ reader' = Scanned(r, from)
  BY <1>3
<1>5. reader' \in ReaderType /\ reader'.ask = "callsites"
  BY <1>4, ScannedFields
<1>6. /\ ScannedTo(reader', <<reader'.last, reader'.node>>)
      /\ reader'.at = "done" => reader'.owed = reader'.shown
  BY <1>4, ScannedKeeps
<1>7. ScannedTo(reader, <<reader.last, reader.node>>)'
  BY <1>2, <1>6 DEF ScannedTo
<1>8. SiteWalk(reader)'
  BY <1>6, <1>7 DEF SiteWalk
<1>9. ListWalk(reader)'
  BY <1>5 DEF ListWalk, Listings
<1> QED
  BY <1>1, <1>5, <1>8, <1>9 DEF ReadInv

\* The registry changes between two pages: what has gone is no longer owed.
LEMMA RegistryMovesKeep ==
  ASSUME ReadInv, RegistryMoves
  PROVE  ReadInv'
<1>0. reader \in ReaderType /\ RegistryTyped /\ reader.at = "paging" /\ reader.ask \in Listings
  BY DEF ReadInv, RegistryMoves
<1>1. RegistryTyped'
  <2>1. AssetComes => DOMAIN assets' \subseteq Keys
    BY <1>0 DEF AssetComes, RegistryTyped
  <2>2. AssetGoes => DOMAIN assets' \subseteq Keys
    BY <1>0 DEF AssetGoes, RegistryTyped
  <2>3. LinkMoves => links' \subseteq Links
    BY <1>0 DEF LinkMoves, RegistryTyped
  <2> QED BY <1>0, <2>1, <2>2, <2>3 DEF RegistryMoves, RegistryTyped
<1>2. PICK ask \in Listings :
        /\ reader.ask = ask
        /\ reader' = [reader EXCEPT !.owed = @ \cap Listing(ask)', !.twins = @ \/ Twins(Listing(ask)')]
  BY <1>0 DEF RegistryMoves, Owing
<1> DEFINE entries == Listing(ask)'
<1>3. PICK twins \in BOOLEAN : twins = (reader.twins \/ Twins(entries))
  OBVIOUS
<1> HIDE DEF entries
<1>4. reader' = [reader EXCEPT !.owed = @ \cap entries, !.twins = twins]
  BY <1>2, <1>3 DEF entries
<1>5. reader.owed \cap entries \in SUBSET (Nat \X Nat)
  BY <1>0 DEF ReaderType
<1>6. [reader EXCEPT !.owed = @ \cap entries, !.twins = twins] \in ReaderType
  BY <1>0, <1>5 DEF ReaderType
<1>7. /\ reader' \in ReaderType
      /\ reader'.ask = ask /\ reader'.at = "paging"
      /\ reader'.owed = reader.owed \cap entries
      /\ reader'.twins = twins
      /\ reader'.shown = reader.shown /\ reader'.last = reader.last /\ reader'.twice = reader.twice
  BY <1>0, <1>2, <1>4, <1>6 DEF ReaderType
<1>8. ASSUME twins = FALSE PROVE UpTo(reader', entries)
  <2>1. reader.twins \in BOOLEAN
    BY <1>0 DEF ReaderType
  <2>2. reader.twins = FALSE /\ ~Twins(entries)
    BY <1>3, <1>8, <2>1
  <2>3. UpTo(reader, Listing(ask))
    BY <1>0, <1>2, <2>2 DEF ReadInv, ListWalk
  <2> QED BY <1>7, <2>2, <2>3 DEF UpTo
<1>9. ListWalk(reader)'
  BY <1>7, <1>8 DEF ListWalk, entries
<1>10. reader'.ask # "callsites"
  BY <1>7 DEF Listings
<1> QED
  BY <1>1, <1>7, <1>9, <1>10 DEF ReadInv, SiteWalk

\* Every step keeps the invariant of the reads.
LEMMA ReadInvariant ==
  ASSUME ReadInv, [Next]_vars
  PROVE  ReadInv'
<1>1. CASE UNCHANGED readVars
  <2>1. \A ask \in Listings : Listing(ask)' = Listing(ask)
    BY <1>1 DEF readVars, Listing, AssetList, SearchByClass, AssetsOf, FindDependents, FindReferences
  <2>2. Sites' = Sites /\ \A from : SitesFrom(from)' = SitesFrom(from)
    BY <1>1 DEF readVars, Sites, SitesFrom
  <2>3. reader' = reader /\ assets' = assets /\ links' = links
    BY <1>1 DEF readVars
  <2>4. ListWalk(reader)'
    BY <2>1, <2>3 DEF ReadInv, ListWalk
  <2>5. SiteWalk(reader)'
    BY <2>2, <2>3 DEF ReadInv, SiteWalk, ScannedTo
  <2> QED BY <2>3, <2>4, <2>5 DEF ReadInv, RegistryTyped
<1>2. CASE ReadNextState
  BY <1>2, ReadFirstKeeps, ReadNextKeeps, FindCallsitesKeeps, RegistryMovesKeep DEF ReadNextState, Read
<1> QED
  BY <1>1, <1>2, ReadFrame

\* So the lists and the search are complete when they are done.
LEMMA WalksOfReads ==
  ASSUME ReadInv
  PROVE  ReadsComplete
<1>1. reader \in ReaderType
  BY DEF ReadInv
<1>2. reader.twins \in BOOLEAN
  BY <1>1 DEF ReaderType
<1>3. PagesComplete
  BY <1>2 DEF ReadInv, ListWalk, PagesComplete, Complete
<1>4. CallsitesOnce
  BY DEF ReadInv, SiteWalk, ScannedTo, CallsitesOnce
<1> QED
  BY <1>3, <1>4 DEF ReadsComplete

------------------------------------------------------------------------------
(* The parameters of a material, page by page.                              *)

\* The tools of materials alone change a material.
LEMMA MaterialFrame ==
  ASSUME [Next]_vars
  PROVE  MaterialNext \/ UNCHANGED materialVars
  BY DEF Next, vars, OthersStill, AssetStep, ReadStep, MemberStep, PartStep, GraphStep, AnimStep,
         MaterialStep, InputStep, DataStep, SequenceStep, PlayWorld

ListerType ==
  [at : {"done", "paging"}, last : Nat \X Nat, shown : SUBSET MaterialParams, twice : BOOLEAN,
   owed : SUBSET MaterialParams, mixed : BOOLEAN]

\* A parameter has come, one after another, before the key.
Passed(p, last) ==
  p[1] < last[1] \/ (p[1] = last[1] /\ last[2] \in ParamNames /\ Printed[p[2]] <= Printed[last[2]])

Ahead(p, last) ==
  p[1] > last[1] \/ (p[1] = last[1] /\ (last[2] = 0 \/ Printed[p[2]] > Printed[last[2]]))

ListedTo(r, params) ==
  /\ ~Mixed(params)
  /\ r.owed \subseteq params
  /\ r.twice = FALSE
  /\ \A p \in r.shown : Passed(p, r.last)
  /\ \A p \in r.owed : p \in r.shown \/ Ahead(p, r.last)

ListerInv ==
  /\ DOMAIN expressions \subseteq Expressions
  /\ \A e \in DOMAIN expressions : expressions[e] \in MaterialParams
  /\ lister \in ListerType
  /\ lister.last[2] \in ParamNames \cup {0}
  /\ lister.mixed = FALSE =>
       IF lister.at = "paging" THEN ListedTo(lister, Parameters)
       ELSE lister.owed \subseteq lister.shown /\ lister.twice = FALSE

\* A category and a name, and the text of the name.
LEMMA NamesTyped ==
  /\ 0 \notin ParamNames /\ ParamNames \subseteq Nat
  /\ \A p \in MaterialParams : p[1] \in Nat /\ p[2] \in ParamNames /\ p = <<p[1], p[2]>>
  /\ \A n \in ParamNames : Printed[n] \in Nat
  /\ \A n, o \in ParamNames : n # o => Printed[n] # Printed[o]
<1>1. \A p \in MaterialParams : p \in (1 .. 4) \X ParamNames
  BY ParametersAssumption
<1>2. \A p \in MaterialParams : p[1] \in Nat /\ p[2] \in ParamNames /\ p = <<p[1], p[2]>>
  BY <1>1
<1> QED
  BY <1>2, ParametersAssumption, PrintedAssumption

ParamsBefore == {p \in MaterialParams \X MaterialParams : InOrder(p[1], p[2])}

\* Parameters are ordered by category and name.
LEMMA ParamsOrdered ==
  ASSUME NEW S \in SUBSET MaterialParams
  PROVE  /\ Orders(ParamsBefore, S)
         /\ \A a, b \in S : <<a, b>> \in ParamsBefore <=> InOrder(a, b)
<1>1. \A a, b \in S : <<a, b>> \in ParamsBefore <=> InOrder(a, b)
  BY DEF ParamsBefore
<1>2. \A a \in S : a[1] \in Nat /\ a[2] \in Nat /\ a = <<a[1], a[2]>>
  BY NamesTyped
<1>3. \A a, b \in S : a[1] = b[1] /\ a[2] = b[2] => a = b
  BY <1>2
<1>4. \A a \in S : ~InOrder(a, a)
  BY <1>2 DEF InOrder
<1>5. \A a, b \in S : a # b => InOrder(a, b) \/ InOrder(b, a)
  BY <1>2, <1>3 DEF InOrder
<1>6. \A a, b, c \in S : InOrder(a, b) /\ InOrder(b, c) => InOrder(a, c)
  BY <1>2 DEF InOrder
<1> QED
  BY <1>1, <1>4, <1>5, <1>6 DEF Orders

\* Of names that are ordered as their texts, what is listed first is passed
\* behind the key, and the rest is ahead.
LEMMA OrderedAsText ==
  ASSUME NEW params \in SUBSET MaterialParams, ~Mixed(params),
         NEW p \in params, NEW q \in params, InOrder(p, q)
  PROVE  Passed(p, q) /\ Ahead(q, p)
<1>1. /\ p[1] \in Nat /\ p[2] \in ParamNames /\ p[2] \in Nat
      /\ q[1] \in Nat /\ q[2] \in ParamNames /\ q[2] \in Nat
      /\ Printed[p[2]] \in Nat /\ Printed[q[2]] \in Nat
      /\ p[2] # q[2] => Printed[p[2]] # Printed[q[2]]
  BY NamesTyped
<1>2. ~(p[1] = q[1] /\ p[2] < q[2] /\ Printed[q[2]] < Printed[p[2]])
  BY DEF Mixed
<1> QED
  BY <1>1, <1>2 DEF InOrder, Passed, Ahead

\* What is passed is not ahead, and stays behind a later key.
LEMMA PassedStays ==
  ASSUME NEW p \in MaterialParams, NEW q \in MaterialParams, NEW last \in Nat \X Nat,
         last[2] \in ParamNames \cup {0}, Passed(p, last), Ahead(q, last)
  PROVE  Passed(p, q) /\ p # q
<1>1. /\ p[1] \in Nat /\ p[2] \in ParamNames /\ Printed[p[2]] \in Nat
      /\ q[1] \in Nat /\ q[2] \in ParamNames /\ Printed[q[2]] \in Nat
      /\ 0 \notin ParamNames
      /\ last[1] \in Nat
      /\ last[2] \in ParamNames => Printed[last[2]] \in Nat
  BY NamesTyped
<1> QED
  BY <1>1 DEF Passed, Ahead

\* A page of parameters.
LEMMA ListParametersKeeps ==
  ASSUME ListerInv, ListParameters
  PROVE  ListerInv'
<1> DEFINE fresh == [NoLister EXCEPT !.owed = Parameters, !.mixed = Mixed(Parameters)]
           r == IF lister.at = "done" THEN fresh ELSE lister
           pending == Pending(r.last)
           page == {p \in pending : Cardinality({q \in pending : InOrder(q, p)}) < MatPageSize}
           end == CHOOSE p \in page : \A q \in page \ {p} : InOrder(q, p)
<1>1. /\ lister' = [r EXCEPT !.shown = @ \cup page,
                             !.twice = @ \/ r.shown \cap page # {},
                             !.last = IF page = {} THEN @ ELSE end,
                             !.at = IF page # pending THEN "paging" ELSE "done"]
      /\ expressions' = expressions
  BY DEF ListParameters, material
<1>2. Parameters \subseteq MaterialParams
  BY DEF ListerInv, Parameters
<1>3. /\ r \in ListerType
      /\ r.last[2] \in ParamNames \cup {0}
      /\ r.mixed = FALSE => ListedTo(r, Parameters)
  <2>1. CASE lister.at = "done"
    <3>1. PICK mixed \in BOOLEAN : mixed = Mixed(Parameters)
      BY DEF Mixed
    <3>2. r = [NoLister EXCEPT !.owed = Parameters, !.mixed = mixed]
      BY <2>1, <3>1
    <3> HIDE DEF r
    <3>3. /\ r \in ListerType
          /\ r.last = <<1, 0>> /\ r.owed = Parameters /\ r.mixed = mixed
          /\ r.shown = {} /\ r.twice = FALSE
      BY <1>2, <3>2 DEF NoLister, ListerType
    <3>4. \A p \in MaterialParams : Ahead(p, <<1, 0>>)
      <4>1. \A p \in MaterialParams : p \in (1 .. 4) \X ParamNames
        BY ParametersAssumption
      <4> QED BY <4>1 DEF Ahead
    <3> QED BY <1>2, <3>1, <3>3, <3>4 DEF ListedTo
  <2>2. CASE lister.at # "done"
    <3>1. r = lister
      BY <2>2
    <3> QED BY <2>2, <3>1 DEF ListerInv, ListerType
  <2> QED BY <2>1, <2>2
<1> HIDE DEF fresh, r
<1>4. /\ r.last \in Nat \X Nat /\ r.shown \subseteq MaterialParams /\ r.twice \in BOOLEAN
      /\ r.owed \subseteq MaterialParams /\ r.mixed \in BOOLEAN
  BY <1>3 DEF ListerType
<1>5. pending \subseteq Parameters /\ \A p \in Parameters : p \in pending <=> Ahead(p, r.last)
  BY DEF Pending, Ahead
<1>6. IsFiniteSet(pending) /\ pending \in SUBSET MaterialParams
  BY <1>2, <1>5, ParametersAssumption, FS_Subset
<1> HIDE DEF pending
<1>7. /\ Orders(ParamsBefore, pending)
      /\ \A a, b \in pending : <<a, b>> \in ParamsBefore <=> InOrder(a, b)
  BY <1>6, ParamsOrdered
<1>8. FirstOf(page, pending, ParamsBefore, MatPageSize)
  <2>1. \A e \in pending : {d \in pending : InOrder(d, e)} = {d \in pending : <<d, e>> \in ParamsBefore}
    BY <1>7
  <2> QED BY <2>1 DEF FirstOf
<1> HIDE DEF page
<1>9. MatPageSize \in Nat \ {0}
  BY ParametersAssumption
<1>10. /\ page \subseteq pending
       /\ pending # {} => page # {}
       /\ \A x \in page : \A y \in pending \ page : <<x, y>> \in ParamsBefore
       /\ page # {} => \E m \in page : \A a \in page \ {m} : <<a, m>> \in ParamsBefore
  BY <1>6, <1>7, <1>8, <1>9, FirstOnes
<1>11. page # {} =>
         /\ end \in page
         /\ \A q \in page \ {end} : InOrder(q, end)
         /\ \A q \in pending \ page : InOrder(end, q)
  <2> SUFFICES ASSUME page # {} PROVE /\ end \in page
                                      /\ \A q \in page \ {end} : InOrder(q, end)
                                      /\ \A q \in pending \ page : InOrder(end, q)
    OBVIOUS
  <2>1. \E m \in page : \A a \in page \ {m} : InOrder(a, m)
    BY <1>7, <1>10
  <2>2. end \in page /\ \A q \in page \ {end} : InOrder(q, end)
    BY <2>1
  <2> HIDE DEF end
  <2> QED BY <1>7, <1>10, <2>2
<1> HIDE DEF end
<1>12. page # {} => end \in pending /\ end \in Parameters /\ end \in MaterialParams
                    /\ end[1] \in Nat /\ end[2] \in ParamNames /\ end \in Nat \X Nat
  BY <1>2, <1>5, <1>10, <1>11, NamesTyped
<1>13. /\ lister' \in ListerType
       /\ lister'.owed = r.owed /\ lister'.mixed = r.mixed
       /\ lister'.shown = r.shown \cup page
       /\ lister'.twice = (r.twice \/ r.shown \cap page # {})
       /\ lister'.last = IF page = {} THEN r.last ELSE end
       /\ lister'.at = IF page # pending THEN "paging" ELSE "done"
  <2>1. /\ r.shown \cup page \in SUBSET MaterialParams
        /\ (r.twice \/ r.shown \cap page # {}) \in BOOLEAN
        /\ (IF page = {} THEN r.last ELSE end) \in Nat \X Nat
        /\ (IF page # pending THEN "paging" ELSE "done") \in {"done", "paging"}
    BY <1>4, <1>6, <1>10, <1>12
  <2>2. lister' \in ListerType
    BY <1>1, <1>3, <2>1 DEF ListerType
  <2> QED BY <1>1, <1>3, <2>2 DEF ListerType
<1>14. ASSUME r.mixed = FALSE
       PROVE  IF lister'.at = "paging" THEN ListedTo(lister', Parameters)
              ELSE lister'.owed \subseteq lister'.shown /\ lister'.twice = FALSE
  <2>1. /\ ~Mixed(Parameters)
        /\ r.owed \subseteq Parameters
        /\ r.twice = FALSE
        /\ \A p \in r.shown : Passed(p, r.last)
        /\ \A p \in r.owed : p \in r.shown \/ Ahead(p, r.last)
    BY <1>3, <1>14 DEF ListedTo
  <2>2. ASSUME NEW p \in r.shown, NEW q \in pending PROVE Passed(p, q) /\ p # q
    <3>1. p \in MaterialParams /\ q \in MaterialParams /\ Passed(p, r.last) /\ Ahead(q, r.last)
      BY <1>2, <1>4, <1>5, <2>1
    <3> QED BY <1>3, <1>4, <3>1, PassedStays
  <2>3. lister'.twice = FALSE
    <3>1. r.shown \cap page = {}
      BY <1>10, <2>2
    <3> QED BY <1>13, <2>1, <3>1
  <2>4. \A p \in r.owed : p \in r.shown \/ p \in pending
    BY <1>5, <2>1
  <2>5. CASE page = pending
    BY <1>13, <2>3, <2>4, <2>5
  <2>6. CASE page # pending
    <3>1. page # {}
      BY <1>10, <2>6
    <3>2. lister'.last = end /\ lister'.at = "paging"
      BY <1>13, <2>6, <3>1
    <3>3. ASSUME NEW p \in lister'.shown PROVE Passed(p, end)
      <4>1. CASE p \in r.shown
        BY <1>12, <2>2, <3>1, <4>1
      <4>2. CASE p \in page /\ p # end
        <5>1. InOrder(p, end) /\ p \in Parameters /\ end \in Parameters
          BY <1>5, <1>10, <1>11, <1>12, <3>1, <4>2
        <5> QED BY <1>2, <2>1, <5>1, OrderedAsText
      <4>3. CASE p = end
        <5>1. Printed[end[2]] \in Nat
          BY <1>12, <3>1, NamesTyped
        <5> QED BY <1>12, <3>1, <4>3, <5>1 DEF Passed
      <4> QED BY <1>13, <3>3, <4>1, <4>2, <4>3
    <3>4. ASSUME NEW p \in r.owed, p \notin lister'.shown PROVE Ahead(p, end)
      <4>1. p \in pending \ page
        BY <1>13, <2>4, <3>4
      <4>2. InOrder(end, p) /\ p \in Parameters /\ end \in Parameters
        BY <1>5, <1>11, <1>12, <3>1, <4>1
      <4> QED BY <1>2, <2>1, <4>2, OrderedAsText
    <3>5. ListedTo(lister', Parameters)
      BY <1>13, <2>1, <2>3, <3>2, <3>3, <3>4 DEF ListedTo
    <3> QED BY <3>2, <3>5
  <2> QED BY <2>5, <2>6
<1>15. Parameters' = Parameters
  BY <1>1 DEF Parameters
<1>16. lister'.last[2] \in ParamNames \cup {0}
  BY <1>3, <1>12, <1>13
<1> QED
  BY <1>1, <1>13, <1>14, <1>15, <1>16 DEF ListerInv

\* The tools that edit the graph of expressions keep what is in it known, and
\* take from what the client is owed.
LEMMA ExpressionsEdited ==
  ASSUME ListerInv, AddExpression \/ SetExpressionParameter \/ DeleteExpression
  PROVE  /\ StillOwed
         /\ DOMAIN expressions' \subseteq Expressions
         /\ \A e \in DOMAIN expressions' : expressions'[e] \in MaterialParams
<1>1. /\ DOMAIN expressions \subseteq Expressions
      /\ \A e \in DOMAIN expressions : expressions[e] \in MaterialParams
  BY DEF ListerInv
<1>2. CASE AddExpression
  <2>1. PICK e \in Expressions \ DOMAIN expressions, p \in MaterialParams :
          /\ expressions' = [f \in DOMAIN expressions \cup {e} |-> IF f = e THEN p ELSE expressions[f]]
          /\ StillOwed
    BY <1>2 DEF AddExpression
  <2> QED BY <1>1, <2>1
<1>3. CASE SetExpressionParameter
  <2>1. PICK e \in DOMAIN expressions, n \in ParamNames, fits \in BOOLEAN :
          /\ <<expressions[e][1], n>> \in MaterialParams
          /\ expressions' = IF fits THEN [expressions EXCEPT ![e][2] = n] ELSE expressions
          /\ StillOwed
    BY <1>3 DEF SetExpressionParameter
  <2>2. expressions[e] = <<expressions[e][1], expressions[e][2]>>
    BY <1>1, <2>1, NamesTyped
  <2>3. [expressions[e] EXCEPT ![2] = n] = <<expressions[e][1], n>>
    BY <2>2
  <2>4. [expressions EXCEPT ![e][2] = n] = [f \in DOMAIN expressions |->
           IF f = e THEN [expressions[e] EXCEPT ![2] = n] ELSE expressions[f]]
    OBVIOUS
  <2> QED BY <1>1, <2>1, <2>3, <2>4
<1>4. CASE DeleteExpression
  <2>1. PICK e \in DOMAIN expressions :
          /\ expressions' = [f \in DOMAIN expressions \ {e} |-> expressions[f]]
          /\ StillOwed
    BY <1>4 DEF DeleteExpression
  <2> QED BY <1>1, <2>1
<1> QED
  BY <1>2, <1>3, <1>4

\* Every step keeps the invariant of the pages of parameters.
LEMMA ListerInvariant ==
  ASSUME ListerInv, [Next]_vars
  PROVE  ListerInv'
<1>1. CASE AddExpression \/ SetExpressionParameter \/ DeleteExpression
  <2>1. /\ StillOwed
        /\ DOMAIN expressions' \subseteq Expressions
        /\ \A e \in DOMAIN expressions' : expressions'[e] \in MaterialParams
    BY <1>1, ExpressionsEdited
  <2> DEFINE params == Parameters'
  <2>2. PICK mixed \in BOOLEAN : mixed = (lister.mixed \/ Mixed(params))
    OBVIOUS
  <2> HIDE DEF params
  <2>3. lister' = [lister EXCEPT !.owed = @ \cap params, !.mixed = mixed]
    BY <2>1, <2>2 DEF StillOwed, params
  <2>4. lister \in ListerType /\ lister.last[2] \in ParamNames \cup {0}
    BY DEF ListerInv
  <2>5. lister.owed \cap params \in SUBSET MaterialParams
    BY <2>4 DEF ListerType
  <2>6. [lister EXCEPT !.owed = @ \cap params, !.mixed = mixed] \in ListerType
    BY <2>4, <2>5 DEF ListerType
  <2>7. /\ lister' \in ListerType
        /\ lister'.at = lister.at /\ lister'.last = lister.last
        /\ lister'.shown = lister.shown /\ lister'.twice = lister.twice
        /\ lister'.owed = lister.owed \cap params
        /\ lister'.mixed = mixed
    BY <2>3, <2>4, <2>6 DEF ListerType
  <2>8. ASSUME mixed = FALSE
        PROVE  IF lister'.at = "paging" THEN ListedTo(lister', params)
               ELSE lister'.owed \subseteq lister'.shown /\ lister'.twice = FALSE
    <3>1. lister.mixed \in BOOLEAN
      BY <2>4 DEF ListerType
    <3>2. lister.mixed = FALSE /\ ~Mixed(params)
      BY <2>2, <2>8, <3>1
    <3>3. IF lister.at = "paging" THEN ListedTo(lister, Parameters)
          ELSE lister.owed \subseteq lister.shown /\ lister.twice = FALSE
      BY <3>2 DEF ListerInv
    <3> QED BY <2>7, <3>2, <3>3 DEF ListedTo
  <2> QED BY <2>1, <2>4, <2>7, <2>8 DEF ListerInv, params
<1>2. CASE ListParameters
  BY <1>2, ListParametersKeeps
<1>3. CASE UNCHANGED <<expressions, lister>>
  <2>1. Parameters' = Parameters
    BY <1>3 DEF Parameters
  <2> QED BY <1>3, <2>1 DEF ListerInv
<1>4. ConnectExpressions => UNCHANGED <<expressions, lister>>
  BY DEF ConnectExpressions
<1>5. \A p : SetOverride(p) => UNCHANGED <<expressions, lister>>
  BY DEF SetOverride, material
<1>6. SetScalarParam \/ SetVectorParam \/ SetTextureParam \/ SetStaticSwitch
        => UNCHANGED <<expressions, lister>>
  BY <1>5 DEF SetScalarParam, SetVectorParam, SetTextureParam, SetStaticSwitch
<1>7. CreateInstance \/ ShadersCompile \/ UNCHANGED materialVars => UNCHANGED <<expressions, lister>>
  BY DEF CreateInstance, ShadersCompile, materialVars, material
<1> QED
  BY <1>1, <1>2, <1>3, <1>4, <1>6, <1>7, MaterialFrame
     DEF MaterialNext, InstSetScalarParam, InstSetVectorParam, InstSetTextureParam

\* It holds at first.
LEMMA ListerInitially ==
  ASSUME Init
  PROVE  ListerInv
<1>1. /\ expressions = [e \in {} |-> 0]
      /\ lister = NoLister
  BY DEF Init, MaterialInit
<1>2. /\ NoLister \in ListerType /\ NoLister.last = <<1, 0>> /\ NoLister.at = "done"
      /\ NoLister.owed = {} /\ NoLister.twice = FALSE
  BY DEF NoLister, ListerType
<1> QED
  BY <1>1, <1>2 DEF ListerInv

\* So the pages are complete when they are done.
LEMMA WalksOfParameters ==
  ASSUME ListerInv
  PROVE  ParametersPaged
<1>1. lister.mixed \in BOOLEAN /\ lister.at \in {"done", "paging"}
  BY DEF ListerInv, ListerType
<1> QED
  BY <1>1 DEF ListerInv, ParametersPaged

------------------------------------------------------------------------------
(* The pages of a table.                                                    *)

\* Rows whose names are ordered as their texts, in their order.
RowList(s) ==
  /\ s \in Seq(Rows)
  /\ \A i, k \in 1 .. Len(s) : i < k => RowPrinted[s[i]] < RowPrinted[s[k]]

Stop(s, m, size) == IF Len(s) - m < size THEN Len(s) ELSE m + size

\* The rows behind a token are those behind its row.
LEMMA RowsAfter ==
  ASSUME NEW s, RowList(s), NEW m \in 1 .. Len(s)
  PROVE  RowsFrom(s, s[m]) = SubSeq(s, m + 1, Len(s))
<1> DEFINE Skipped(n) == \A i \in 1 .. n : RowPrinted[s[i]] <= RowPrinted[s[m]]
           Found(n) == Skipped(n) /\ (n < Len(s) => ~Skipped(n + 1))
           first == CHOOSE n \in 0 .. Len(s) : Found(n)
<1>1. /\ Len(s) \in Nat
      /\ \A i \in 1 .. Len(s) : RowPrinted[s[i]] \in Nat
      /\ \A i, k \in 1 .. Len(s) : i < k => RowPrinted[s[i]] < RowPrinted[s[k]]
  <2>1. s \in Seq(Rows)
    BY DEF RowList
  <2>2. Len(s) \in Nat /\ \A i \in 1 .. Len(s) : s[i] \in Rows
    BY <2>1, ElementOfSeq
  <2> QED BY <2>2, RowsAreNumbers DEF RowList
<1>2. \A i \in 1 .. Len(s) : RowPrinted[s[i]] <= RowPrinted[s[m]] <=> i <= m
  <2> SUFFICES ASSUME NEW i \in 1 .. Len(s) PROVE RowPrinted[s[i]] <= RowPrinted[s[m]] <=> i <= m
    OBVIOUS
  <2>1. CASE i < m
    BY <1>1, <2>1
  <2>2. CASE i = m
    BY <1>1, <2>2
  <2>3. CASE i > m
    BY <1>1, <2>3
  <2> QED BY <2>1, <2>2, <2>3
<1>3. \A n \in 0 .. Len(s) : Skipped(n) <=> n <= m
  <2> SUFFICES ASSUME NEW n \in 0 .. Len(s) PROVE Skipped(n) <=> n <= m
    OBVIOUS
  <2>1. CASE n <= m
    <3>1. \A i \in 1 .. n : i \in 1 .. Len(s) /\ i <= m
      BY <1>1, <2>1
    <3> QED BY <1>2, <2>1, <3>1
  <2>2. CASE n > m
    <3>1. n \in 1 .. n /\ n \in 1 .. Len(s) /\ ~(n <= m)
      BY <1>1, <2>2
    <3> QED BY <1>2, <3>1
  <2> QED BY <2>1, <2>2
<1> HIDE DEF Skipped
<1>4. \A n \in 0 .. Len(s) : Found(n) <=> n = m
  <2> SUFFICES ASSUME NEW n \in 0 .. Len(s) PROVE Found(n) <=> n = m
    OBVIOUS
  <2>1. n < Len(s) => n + 1 \in 0 .. Len(s) /\ (Skipped(n + 1) <=> n + 1 <= m)
    BY <1>1, <1>3
  <2> QED BY <1>1, <1>3, <2>1
<1> HIDE DEF Found
<1>5. m \in 0 .. Len(s)
  BY <1>1
<1>6. first = m
  BY <1>4, <1>5
<1>7. RowsFrom(s, s[m]) = SubSeq(s, first + 1, Len(s))
  BY DEF RowsFrom, first, Found, Skipped
<1> HIDE DEF first
<1> QED
  BY <1>6, <1>7

\* A page of them.
LEMMA PageBehindRow ==
  ASSUME NEW s, RowList(s), NEW m \in 1 .. Len(s), NEW size \in Nat \ {0}
  PROVE  /\ Stop(s, m, size) \in m .. Len(s)
         /\ m < Len(s) => Stop(s, m, size) > m
         /\ GetRows(s, s[m], size) = SubSeq(s, m + 1, Stop(s, m, size))
<1> DEFINE j == Stop(s, m, size)
           t == SubSeq(s, m + 1, Len(s))
<1>1. s \in Seq(Rows) /\ Len(s) \in Nat
  BY DEF RowList
<1>2. j \in m .. Len(s) /\ (m < Len(s) => j > m)
  BY <1>1 DEF Stop
<1>3. Len(t) = Len(s) - m
  <2>1. m \in 0 .. Len(s) /\ Len(s) \in m .. Len(s)
    BY <1>1
  <2> QED BY <1>1, <2>1, Slices
<1>4. RowsFrom(s, s[m]) = t
  BY RowsAfter
<1> HIDE DEF t
<1>5. GetRows(s, s[m], size) = SubSeq(t, 1, IF Len(t) < size THEN Len(t) ELSE size)
  BY <1>4 DEF GetRows
<1>6. (IF Len(t) < size THEN Len(t) ELSE size) = j - m
  BY <1>1, <1>3 DEF Stop
<1>7. SubSeq(t, 1, j - m) = SubSeq(s, m + 1, j)
  <2>1. m \in 0 .. Len(s)
    BY <1>1
  <2> HIDE DEF j
  <2> QED BY <1>1, <1>2, <2>1, SliceOfSlice DEF t
<1> QED
  BY <1>2, <1>5, <1>6, <1>7

\* The function that the pages are computed with.
IsPages(f, size) ==
  f = [k \in 0 .. Cardinality(DOMAIN table) |->
        [after \in DOMAIN table |->
           IF k = 0 \/ GetRows(SortedRows, after, size) = <<>> THEN GetRows(SortedRows, after, size)
           ELSE GetRows(SortedRows, after, size) \o f[k - 1][Last(GetRows(SortedRows, after, size))]]]

\* The rows of a table can be listed.
LEMMA SortedRowsList ==
  ASSUME DOMAIN table \subseteq Rows, \A r, s \in DOMAIN table : r < s <=> RowPrinted[r] < RowPrinted[s]
  PROVE  /\ RowList(SortedRows)
         /\ SortedRows \in Seq(DOMAIN table)
         /\ Len(SortedRows) = Cardinality(DOMAIN table)
         /\ \A r \in DOMAIN table : \E m \in 1 .. Len(SortedRows) : SortedRows[m] = r
<1> DEFINE D == DOMAIN table
           s == SortedRows
           N == Cardinality(D)
<1>1. IsFiniteSet(D) /\ D \in SUBSET Nat /\ N \in Nat
  <2>1. IsFiniteSet(D)
    BY RowsAreNumbers, FS_Subset
  <2> QED BY <2>1, RowsAreNumbers, FS_CardinalityType
<1>2. Orders(LessPairs, D) /\ IsListing(s, D, LessPairs)
  <2> HIDE DEF D
  <2>1. /\ Orders(LessPairs, D)
        /\ IsListing(CHOOSE l \in [1 .. Cardinality(D) -> D] : \A i, k \in DOMAIN l : i < k => l[i] < l[k], D, LessPairs)
    BY <1>1, ListingOfNumbers
  <2> QED BY <2>1, Zenon DEF SortedRows, D
<1> HIDE DEF s
<1>3. /\ s \in [1 .. N -> D]
      /\ \A i, k \in 1 .. N : i < k => <<s[i], s[k]>> \in LessPairs
  BY <1>2 DEF IsListing
<1>4. \A x \in D : \E i \in 1 .. N : s[i] = x
  <2> HIDE DEF D
  <2> QED BY <1>1, <1>2, ListingIsComplete DEF N
<1> HIDE DEF N
<1>5. s \in Seq(D) /\ Len(s) = N
  BY <1>1, <1>3
<1>6. s \in Seq(Rows)
  BY <1>5, SeqMonotonic
<1>7. ASSUME NEW i \in 1 .. N, NEW k \in 1 .. N, i < k PROVE RowPrinted[s[i]] < RowPrinted[s[k]]
  <2>1. s[i] < s[k] /\ s[i] \in D /\ s[k] \in D
    BY <1>3, <1>7 DEF LessPairs
  <2> QED BY <2>1
<1>8. RowList(s)
  BY <1>5, <1>6, <1>7 DEF RowList
<1> QED
  BY <1>4, <1>5, <1>8 DEF s, N

\* Pages, one after the other, reach the end of the list.
LEMMA PagesReachEnd ==
  ASSUME DOMAIN table \subseteq Rows, \A r, s \in DOMAIN table : r < s <=> RowPrinted[r] < RowPrinted[s],
         NEW size \in Nat \ {0}, NEW m \in 1 .. Len(SortedRows)
  PROVE  PagesAfter(size)[SortedRows[m]] = SubSeq(SortedRows, m + 1, Len(SortedRows))
<1> DEFINE D == DOMAIN table
           s == SortedRows
           N == Cardinality(D)
           Next1(r) == GetRows(s, r, size)
<1>1. /\ RowList(s)
      /\ s \in Seq(D)
      /\ Len(s) = N /\ N \in Nat
      /\ \A r \in D : \E i \in 1 .. N : s[i] = r
  BY SortedRowsList
<1>2. \A i \in 1 .. N : s[i] \in D
  BY <1>1, ElementOfSeq
<1>3. ASSUME NEW i \in 1 .. N
      PROVE  /\ Stop(s, i, size) \in i .. N
             /\ i < N => Stop(s, i, size) > i
             /\ Next1(s[i]) = SubSeq(s, i + 1, Stop(s, i, size))
             /\ Next1(s[i]) \in Seq(D)
             /\ Len(Next1(s[i])) = Stop(s, i, size) - i
             /\ Stop(s, i, size) > i => Last(Next1(s[i])) = s[Stop(s, i, size)]
  <2> DEFINE j == Stop(s, i, size)
             page == Next1(s[i])
  <2>1. /\ j \in i .. N
        /\ i < N => j > i
        /\ page = SubSeq(s, i + 1, j)
    BY <1>1, PageBehindRow
  <2> HIDE DEF j, page
  <2>2. /\ SubSeq(s, i + 1, j) \in Seq(D)
        /\ Len(SubSeq(s, i + 1, j)) = j - i
        /\ \A k \in 1 .. j - i : SubSeq(s, i + 1, j)[k] = s[i + k]
    <3>1. i \in 0 .. Len(s) /\ j \in i .. Len(s)
      BY <1>1, <2>1
    <3>2. s \in Seq(D)
      BY <1>1
    <3> HIDE DEF s, D
    <3> QED BY ONLY <3>1, <3>2, Slices
  <2>3. j > i => j - i \in 1 .. j - i /\ i + (j - i) = j
    BY <2>1
  <2>4. j > i => Last(page) = s[j]
    BY <2>1, <2>2, <2>3 DEF Last
  <2> QED BY <2>1, <2>2, <2>4 DEF j, page
<1> HIDE DEF s, N, Next1, D
<1> DEFINE X == [D -> Seq(D)]
           base == [after \in D |-> Next1(after)]
           turn == [k \in 1 .. N |-> [f \in X |-> [after \in D |->
                      IF Next1(after) = <<>> THEN Next1(after) ELSE Next1(after) \o f[Last(Next1(after))]]]]
<1>4. \A r \in D : Next1(r) \in Seq(D) /\ (Next1(r) # <<>> => Last(Next1(r)) \in D)
  <2> SUFFICES ASSUME NEW r \in D PROVE Next1(r) \in Seq(D) /\ (Next1(r) # <<>> => Last(Next1(r)) \in D)
    OBVIOUS
  <2>1. PICK i \in 1 .. N : s[i] = r
    BY <1>1
  <2>2. Next1(r) \in Seq(D)
    BY <1>3, <2>1
  <2>3. Next1(r) # <<>> => Len(Next1(r)) \in 1 .. Len(Next1(r))
    BY <2>2
  <2> QED BY <2>2, <2>3, ElementOfSeq DEF Last
<1>5. base \in X
  BY <1>4
<1>6. turn \in [1 .. N -> [X -> X]]
  <2> SUFFICES ASSUME NEW f \in X, NEW after \in D
               PROVE  (IF Next1(after) = <<>> THEN Next1(after) ELSE Next1(after) \o f[Last(Next1(after))]) \in Seq(D)
    OBVIOUS
  <2>1. CASE Next1(after) = <<>>
    BY <1>4, <2>1
  <2>2. CASE Next1(after) # <<>>
    <3>1. f[Last(Next1(after))] \in Seq(D) /\ Next1(after) \in Seq(D)
      BY <1>4, <2>2
    <3>2. Next1(after) \o f[Last(Next1(after))] \in Seq(D)
      BY <3>1, ConcatProperties
    <3> QED BY <2>2, <3>2
  <2> QED BY <2>1, <2>2
<1>7. \A k \in 1 .. N : \A f \in X : turn[k][f] = [after \in D |->
        IF Next1(after) = <<>> THEN Next1(after) ELSE Next1(after) \o f[Last(Next1(after))]]
  OBVIOUS
<1>8. \A after \in D : base[after] = Next1(after)
  OBVIOUS
<1>9. base = [after \in D |-> Next1(after)]
  OBVIOUS
<1> HIDE DEF X, base, turn
<1>10. PICK f : Iterates(f, X, base, N, turn)
  BY <1>1, <1>5, <1>6, Iterated
<1>11. f \in [0 .. N -> X] /\ f[0] = base /\ \A k \in 1 .. N : f[k] = turn[k][f[k - 1]]
  BY <1>10 DEF Iterates
<1> DEFINE Row(g, k) == [after \in D |->
             IF k = 0 \/ Next1(after) = <<>> THEN Next1(after) ELSE Next1(after) \o g[k - 1][Last(Next1(after))]]
<1>12. ASSUME NEW k \in 0 .. N PROVE f[k] = Row(f, k)
  <2>1. CASE k = 0
    BY <1>9, <1>11, <2>1
  <2>2. CASE k # 0
    <3>1. k \in 1 .. N /\ k - 1 \in 0 .. N
      BY <1>1, <2>2
    <3>2. f[k] = turn[k][f[k - 1]] /\ f[k - 1] \in X
      BY <1>11, <3>1
    <3> QED BY <1>7, <2>2, <3>1, <3>2
  <2> QED BY <2>1, <2>2
<1> HIDE DEF Row
<1>13. f = [k \in 0 .. N |-> Row(f, k)]
  BY <1>11, <1>12
<1>14. \A g : IsPages(g, size) <=> g = [k \in 0 .. N |-> Row(g, k)]
  BY DEF IsPages, Row, Next1, s, N, D
<1>15. IsPages(CHOOSE g : IsPages(g, size), size)
  BY <1>13, <1>14
<1> DEFINE pages == CHOOSE g : IsPages(g, size)
<1>16. PagesAfter(size) = pages[N]
  BY DEF PagesAfter, IsPages, N, D
<1> HIDE DEF pages
<1>17. pages = [k \in 0 .. N |-> Row(pages, k)]
  BY <1>14, <1>15 DEF pages
<1>18. \A k \in 0 .. N : pages[k] = Row(pages, k)
  BY <1>17, Zenon
<1>19. \A k \in 0 .. N : \A r \in D : pages[k][r] =
         IF k = 0 \/ Next1(r) = <<>> THEN Next1(r) ELSE Next1(r) \o pages[k - 1][Last(Next1(r))]
  BY <1>18 DEF Row
<1> DEFINE Good == {k \in Nat : k <= N => \A i \in 1 .. N : N - i <= k => pages[k][s[i]] = SubSeq(s, i + 1, N)}
<1>20. ASSUME NEW i \in 1 .. N, Next1(s[i]) = <<>> PROVE i = N /\ SubSeq(s, i + 1, N) = <<>>
  <2>1. Stop(s, i, size) - i = 0 /\ Stop(s, i, size) \in i .. N
    BY <1>3, <1>20
  <2>2. Stop(s, i, size) = i
    BY <1>1, <2>1
  <2>3. i = N
    BY <1>1, <1>3, <2>2
  <2>4. N + 1 \in Int /\ N \in Int /\ N < N + 1
    BY <1>1
  <2> QED BY <2>3, <2>4, SubSeqEmpty
<1>21. 0 \in Good
  <2> SUFFICES ASSUME NEW i \in 1 .. N, N - i <= 0 PROVE pages[0][s[i]] = SubSeq(s, i + 1, N)
    OBVIOUS
  <2>1. i = N
    BY <1>1
  <2>2. Stop(s, i, size) = N
    BY <1>1, <1>3, <2>1
  <2>3. pages[0][s[i]] = Next1(s[i])
    BY <1>1, <1>2, <1>19
  <2> QED BY <1>3, <2>2, <2>3
<1>22. ASSUME NEW k \in Nat, k \in Good PROVE k + 1 \in Good
  <2> SUFFICES ASSUME k + 1 <= N, NEW i \in 1 .. N, N - i <= k + 1
               PROVE  pages[k + 1][s[i]] = SubSeq(s, i + 1, N)
    OBVIOUS
  <2>1. pages[k + 1][s[i]] = IF k + 1 = 0 \/ Next1(s[i]) = <<>> THEN Next1(s[i])
                             ELSE Next1(s[i]) \o pages[(k + 1) - 1][Last(Next1(s[i]))]
    <3>1. k + 1 \in 0 .. N /\ s[i] \in D
      BY <1>1, <1>2
    <3> QED BY <1>19, <3>1
  <2>2. k + 1 # 0 /\ (k + 1) - 1 = k /\ k <= N
    BY <1>1
  <2>3. CASE Next1(s[i]) = <<>>
    BY <1>20, <2>1, <2>3
  <2>4. CASE Next1(s[i]) # <<>>
    <3> DEFINE j == Stop(s, i, size)
    <3>1. /\ j \in i .. N /\ (i < N => j > i)
          /\ Next1(s[i]) = SubSeq(s, i + 1, j)
          /\ Len(Next1(s[i])) = j - i
          /\ j > i => Last(Next1(s[i])) = s[j]
      BY <1>3
    <3>2. Next1(s[i]) \in Seq(D)
      BY <1>3
    <3> HIDE DEF j
    <3>3. j # i
      BY <1>1, <2>4, <3>1, <3>2
    <3>4. j > i /\ j \in 1 .. N /\ N - j <= k
      BY <1>1, <3>1, <3>3
    <3>5. pages[k][s[j]] = SubSeq(s, j + 1, N)
      BY <1>22, <2>2, <3>4
    <3>6. pages[(k + 1) - 1][Last(Next1(s[i]))] = SubSeq(s, j + 1, N)
      BY <2>2, <3>1, <3>4, <3>5
    <3>7. pages[k + 1][s[i]] = SubSeq(s, i + 1, j) \o SubSeq(s, j + 1, N)
      BY <2>1, <2>2, <2>4, <3>1, <3>6
    <3>8. i \in 0 .. Len(s) /\ j \in i .. Len(s) /\ Len(s) = N
      BY <1>1, <3>1
    <3>9. SubSeq(s, i + 1, j) \o SubSeq(s, j + 1, Len(s)) = SubSeq(s, i + 1, Len(s))
      BY <1>1, <3>8, SlicesJoin
    <3> QED BY <3>7, <3>8, <3>9
  <2> QED BY <2>3, <2>4
<1> HIDE DEF Good
<1>23. N \in Good
  BY <1>1, <1>21, <1>22, SetInduction
<1>24. m \in 1 .. N /\ N - m <= N
  BY <1>1 DEF s
<1>25. pages[N][s[m]] = SubSeq(s, m + 1, N)
  BY <1>1, <1>23, <1>24 DEF Good
<1> QED
  BY <1>1, <1>16, <1>25 DEF s

\* So the pages of a table, put together, are its rows.
LEMMA WalksOfRows ==
  ASSUME DOMAIN table \subseteq Rows
  PROVE  RowsPaged
<1> SUFFICES ASSUME NEW size \in 1 .. 2,
                    \A r, s \in DOMAIN table : r < s <=> RowPrinted[r] < RowPrinted[s],
                    SubSeq(SortedRows, 1, IF Len(SortedRows) < size THEN Len(SortedRows) ELSE size) # <<>>
             PROVE  LET first == SubSeq(SortedRows, 1, IF Len(SortedRows) < size THEN Len(SortedRows) ELSE size)
                    IN  first \o PagesAfter(size)[Last(first)] = SortedRows
  BY DEF RowsPaged
<1> DEFINE s == SortedRows
           j == IF Len(s) < size THEN Len(s) ELSE size
           first == SubSeq(s, 1, j)
<1>1. s \in Seq(DOMAIN table) /\ Len(s) \in Nat
  BY SortedRowsList
<1>2. j \in 0 .. Len(s)
  BY <1>1
<1>3. /\ \A i \in 1 .. Len(s) : PagesAfter(size)[s[i]] = SubSeq(s, i + 1, Len(s))
  BY PagesReachEnd
<1> HIDE DEF s, j
<1>4. first \in Seq(DOMAIN table) /\ Len(first) = j /\ \A i \in 1 .. j : first[i] = s[i]
  <2>1. 0 \in 0 .. Len(s) /\ j \in 0 .. Len(s)
    BY <1>1, <1>2
  <2>2. /\ SubSeq(s, 0 + 1, j) \in Seq(DOMAIN table)
        /\ Len(SubSeq(s, 0 + 1, j)) = j - 0
        /\ \A i \in 1 .. j - 0 : SubSeq(s, 0 + 1, j)[i] = s[0 + i]
    BY <1>1, <2>1, Slices
  <2>3. 0 + 1 = 1 /\ j - 0 = j /\ \A i \in 1 .. j : 0 + i = i
    BY <1>2
  <2> QED BY <2>2, <2>3
<1>5. j # 0
  <2>1. first # <<>>
    BY DEF s, j
  <2> HIDE DEF first
  <2> QED BY <1>4, <2>1
<1>6. j \in 1 .. Len(s) /\ j \in 1 .. j
  BY <1>1, <1>2, <1>5
<1>7. Last(first) = s[j]
  BY <1>4, <1>6 DEF Last
<1>8. PagesAfter(size)[Last(first)] = SubSeq(s, j + 1, Len(s))
  BY <1>3, <1>6, <1>7
<1>9. SubSeq(s, 0 + 1, j) \o SubSeq(s, j + 1, Len(s)) = SubSeq(s, 0 + 1, Len(s))
  <2>1. 0 \in 0 .. Len(s) /\ j \in 0 .. Len(s)
    BY <1>1, <1>2
  <2> QED BY <1>1, <2>1, SlicesJoin
<1>10. SubSeq(s, 1, Len(s)) = s
  <2>1. 0 \in 0 .. Len(s) /\ Len(s) \in 0 .. Len(s)
    BY <1>1
  <2>2. /\ SubSeq(s, 0 + 1, Len(s)) \in Seq(DOMAIN table)
        /\ Len(SubSeq(s, 0 + 1, Len(s))) = Len(s) - 0
        /\ \A i \in 1 .. Len(s) - 0 : SubSeq(s, 0 + 1, Len(s))[i] = s[0 + i]
    BY <1>1, <2>1, Slices
  <2>3. 0 + 1 = 1 /\ Len(s) - 0 = Len(s) /\ \A i \in 1 .. Len(s) : 0 + i = i
    BY <1>1
  <2>4. Len(SubSeq(s, 1, Len(s))) = Len(s) /\ \A i \in 1 .. Len(s) : SubSeq(s, 1, Len(s))[i] = s[i]
    BY <2>2, <2>3
  <2>5. SubSeq(s, 1, Len(s)) \in Seq(DOMAIN table)
    BY <2>2, <2>3
  <2> DEFINE t == SubSeq(s, 1, Len(s))
  <2> HIDE DEF t
  <2>6. t \in Seq(DOMAIN table) /\ Len(t) = Len(s) /\ \A i \in 1 .. Len(t) : t[i] = s[i]
    BY <2>4, <2>5 DEF t
  <2>7. t = s
    BY <1>1, <2>6, SeqEqual
  <2> QED BY <2>7 DEF t
<1>11. 0 + 1 = 1
  OBVIOUS
<1>12. first \o PagesAfter(size)[Last(first)] = s
  BY <1>8, <1>9, <1>10, <1>11
<1> QED
  BY <1>12 DEF s, j

\* The tools of tables alone change a table, and its rows are known ones.
LEMMA TableTyped ==
  ASSUME DOMAIN table \subseteq Rows, [Next]_vars
  PROVE  DOMAIN table' \subseteq Rows
<1>1. DataNext \/ UNCHANGED dataVars
  BY DEF Next, vars, OthersStill, AssetStep, ReadStep, MemberStep, PartStep, GraphStep, AnimStep,
         MaterialStep, InputStep, DataStep, SequenceStep, PlayWorld
<1>2. SetRow => DOMAIN table' \subseteq Rows
  BY DEF SetRow
<1>3. DeleteRow => DOMAIN table' \subseteq Rows
  BY DEF DeleteRow
<1>4. SetCurveData \/ AddCurveKey \/ UNCHANGED dataVars => table' = table
  BY DEF SetCurveData, AddCurveKey, dataVars
<1> QED
  BY <1>1, <1>2, <1>3, <1>4 DEF DataNext

------------------------------------------------------------------------------
(* The walks over several requests.                                         *)

\* A walk that takes several requests leaves nothing out and gives nothing
\* twice: the lists of the asset registry while it changes under them, the
\* search for call sites, the parameters of a material while its graph is
\* edited, and the rows of a table.  It holds for every page size and every
\* bound on what one request looks at.
THEOREM WalksStayComplete == Spec => []WalksComplete
<1> DEFINE Inv == ReadInv /\ ListerInv /\ DOMAIN table \subseteq Rows
<1>1. Init => Inv
  <2>1. Init => DOMAIN table \subseteq Rows
    BY DEF Init, DataInit
  <2> QED BY <2>1, ReadInitially, ListerInitially
<1>2. Inv /\ [Next]_vars => Inv'
  BY ReadInvariant, ListerInvariant, TableTyped
<1>3. Inv => WalksComplete
  BY WalksOfReads, WalksOfParameters, WalksOfRows DEF WalksComplete
<1> QED
  BY <1>1, <1>2, <1>3, PTL DEF Spec
------------------------------------------------------------------------------
(* asset.dependency_graph.                                                  *)

\* A hop: a package, the next one and the direction.
AllHops == Keys \X Keys \X {"dependency", "referencer"}

\* What a hop from s reaches, with s.
Wider(hops, s) == s \cup {h[2] : h \in {i \in hops : i[1] \in s}}

\* f gives what k hops reach, for k up to n; NearIn is the table that Within reads.
IsNear(f, hops, root, n) ==
  f = [k \in 0 .. n |->
         IF k = 0 THEN {root} ELSE f[k - 1] \cup {h[2] : h \in {i \in hops : i[1] \in f[k - 1]}}]

NearIn(hops, root, n) == CHOOSE f : IsNear(f, hops, root, n)

\* The table that Within reads has a value, one hop wider in each entry.
LEMMA NearUnfolds ==
  ASSUME NEW hops \in SUBSET AllHops, NEW root \in Keys, NEW n \in Nat
  PROVE  /\ NearIn(hops, root, n) \in [0 .. n -> SUBSET Keys]
         /\ NearIn(hops, root, n)[0] = {root}
         /\ \A k \in 1 .. n : NearIn(hops, root, n)[k] = Wider(hops, NearIn(hops, root, n)[k - 1])
<1> DEFINE X == SUBSET Keys
           step == [k \in 1 .. n |-> [s \in X |-> Wider(hops, s)]]
<1>1. \A s \in X : Wider(hops, s) \in X
  BY DEF Wider, AllHops
<1>2. step \in [1 .. n -> [X -> X]]
  BY <1>1
<1>3. {root} \in X
  OBVIOUS
<1>4. PICK f : Iterates(f, X, {root}, n, step)
  <2> HIDE DEF step, X
  <2> QED BY <1>2, <1>3, Iterated
<1>5. f \in [0 .. n -> X] /\ f[0] = {root} /\ \A k \in 1 .. n : f[k] = Wider(hops, f[k - 1])
  <2>1. f \in [0 .. n -> X] /\ f[0] = {root} /\ \A k \in 1 .. n : f[k] = step[k][f[k - 1]]
    BY <1>4 DEF Iterates
  <2> HIDE DEF X
  <2>2. ASSUME NEW k \in 1 .. n PROVE f[k] = Wider(hops, f[k - 1])
    <3>1. k - 1 \in 0 .. n
      OBVIOUS
    <3>2. f[k - 1] \in X
      BY <2>1, <3>1
    <3> QED BY <2>1, <3>2
  <2> QED BY <2>1, <2>2
<1>6. IsNear(f, hops, root, n)
  <2> DEFINE g == [k \in 0 .. n |->
                     IF k = 0 THEN {root} ELSE f[k - 1] \cup {h[2] : h \in {i \in hops : i[1] \in f[k - 1]}}]
  <2>1. \A k \in 0 .. n : f[k] = g[k]
    BY <1>5 DEF Wider
  <2>2. f = g
    BY <1>5, <2>1
  <2> QED BY <2>2 DEF IsNear
<1> DEFINE d == NearIn(hops, root, n)
<1>7. d = [k \in 0 .. n |->
             IF k = 0 THEN {root} ELSE d[k - 1] \cup {h[2] : h \in {i \in hops : i[1] \in d[k - 1]}}]
  BY <1>6 DEF NearIn, IsNear
<1> HIDE DEF d, step
<1>8. d[0] = {root} /\ \A k \in 1 .. n : d[k] = Wider(hops, d[k - 1])
  <2>1. \A k \in 0 .. n :
          d[k] = IF k = 0 THEN {root} ELSE d[k - 1] \cup {h[2] : h \in {i \in hops : i[1] \in d[k - 1]}}
    BY ONLY <1>7
  <2>2. 0 \in 0 .. n /\ \A k \in 1 .. n : k \in 0 .. n /\ k # 0
    OBVIOUS
  <2> QED BY ONLY <2>1, <2>2 DEF Wider
<1>9. \A k \in 0 .. n : d[k] \in X
  <2> DEFINE S == {k \in Nat : k <= n => d[k] \in X}
  <2>1. 0 \in S
    BY <1>3, <1>8
  <2>2. ASSUME NEW k \in Nat, k \in S PROVE k + 1 \in S
    <3> SUFFICES ASSUME k + 1 <= n PROVE d[k + 1] \in X
      OBVIOUS
    <3>1. k + 1 \in 1 .. n /\ k + 1 - 1 = k /\ d[k] \in X
      BY <2>2
    <3>2. d[k + 1] = Wider(hops, d[k])
      BY <1>8, <3>1
    <3> HIDE DEF X
    <3> QED BY <1>1, <3>1, <3>2
  <2> HIDE DEF S
  <2>3. \A k \in Nat : k \in S
    BY <2>1, <2>2, SetInduction
  <2> QED BY <2>3 DEF S
<1>10. d \in [0 .. n -> X]
  <2> HIDE DEF X
  <2> QED BY <1>7, <1>9
<1> QED BY <1>8, <1>10 DEF d

\* What n + 1 hops reach is what one hop reaches from what n hops reach.
LEMMA WithinUnfolds ==
  ASSUME NEW hops \in SUBSET AllHops, NEW root \in Keys
  PROVE  /\ Within(hops, root, 0) = {root}
         /\ \A n \in Nat : /\ Within(hops, root, n) \subseteq Keys
                           /\ Within(hops, root, n + 1) = Wider(hops, Within(hops, root, n))
<1>1. \A n : Within(hops, root, n) = NearIn(hops, root, n)[n]
  BY DEF Within, NearIn, IsNear
<1>2. Within(hops, root, 0) = {root}
  BY <1>1, NearUnfolds
<1>3. ASSUME NEW n \in Nat
      PROVE  /\ Within(hops, root, n) \subseteq Keys
             /\ Within(hops, root, n + 1) = Wider(hops, Within(hops, root, n))
  <2> DEFINE f == NearIn(hops, root, n)
             g == NearIn(hops, root, n + 1)
             S == {k \in Nat : k <= n => f[k] = g[k]}
  <2>1. f \in [0 .. n -> SUBSET Keys] /\ f[0] = {root} /\ \A k \in 1 .. n : f[k] = Wider(hops, f[k - 1])
    BY NearUnfolds
  <2>2. n + 1 \in Nat
    OBVIOUS
  <2>3. g[0] = {root} /\ \A k \in 1 .. n + 1 : g[k] = Wider(hops, g[k - 1])
    BY <2>2, NearUnfolds
  <2> HIDE DEF f, g
  <2>4. 0 \in S
    BY <2>1, <2>3
  <2>5. ASSUME NEW k \in Nat, k \in S PROVE k + 1 \in S
    <3> SUFFICES ASSUME k + 1 <= n PROVE f[k + 1] = g[k + 1]
      OBVIOUS
    <3>1. k + 1 \in 1 .. n /\ k + 1 \in 1 .. n + 1 /\ k + 1 - 1 = k /\ f[k] = g[k]
      BY <2>5
    <3> QED BY <2>1, <2>3, <3>1
  <2> HIDE DEF S
  <2>6. n \in S
    BY <2>4, <2>5, SetInduction
  <2>7. f[n] = g[n]
    BY <2>6 DEF S
  <2>8. n + 1 \in 1 .. n + 1 /\ n + 1 - 1 = n /\ n \in 0 .. n
    OBVIOUS
  <2>9. g[n + 1] = Wider(hops, f[n])
    BY <2>3, <2>7, <2>8
  <2>10. f[n] \in SUBSET Keys
    BY <2>1, <2>8
  <2>11. Within(hops, root, n) = f[n] /\ Within(hops, root, n + 1) = g[n + 1]
    BY <1>1 DEF f, g
  <2> QED BY <2>9, <2>10, <2>11
<1> QED BY <1>2, <1>3

\* More hops reach no less.
LEMMA WithinGrows ==
  ASSUME NEW hops \in SUBSET AllHops, NEW root \in Keys, NEW m \in Nat, NEW n \in Nat, m <= n
  PROVE  Within(hops, root, m) \subseteq Within(hops, root, n)
<1> DEFINE S == {k \in Nat : Within(hops, root, m) \subseteq Within(hops, root, m + k)}
<1>1. 0 \in S
  <2>1. m + 0 = m
    OBVIOUS
  <2> QED BY <2>1
<1>2. ASSUME NEW k \in Nat, k \in S PROVE k + 1 \in S
  <2>1. m + (k + 1) = (m + k) + 1 /\ m + k \in Nat
    OBVIOUS
  <2>2. Within(hops, root, (m + k) + 1) = Wider(hops, Within(hops, root, m + k))
    BY <2>1, WithinUnfolds
  <2>3. Within(hops, root, m + k) \subseteq Within(hops, root, (m + k) + 1)
    BY <2>2 DEF Wider
  <2>4. Within(hops, root, m) \subseteq Within(hops, root, m + (k + 1))
    BY <1>2, <2>1, <2>3
  <2> QED BY <2>4
<1> HIDE DEF S
<1>3. n - m \in Nat /\ m + (n - m) = n
  OBVIOUS
<1>4. n - m \in S
  BY <1>1, <1>2, <1>3, SetInduction
<1> QED BY <1>3, <1>4 DEF S

\* The order of the registry as a set of pairs.
ByOrder(order) == {p \in Keys \X Keys : order[p[1]] < order[p[2]]}

\* It orders every set of packages.
LEMMA OrderOrders ==
  ASSUME NEW order \in RegistryOrders, NEW S \in SUBSET Keys
  PROVE  /\ IsFiniteSet(S) /\ Cardinality(S) \in Nat
         /\ \A k \in Keys : order[k] \in Nat
         /\ Orders(ByOrder(order), S)
<1>1. IsFiniteSet(Keys)
  BY ReadSizes
<1>2. IsFiniteSet(S) /\ Cardinality(S) \in Nat
  BY <1>1, FS_Subset, FS_CardinalityType
<1>3. Cardinality(Keys) \in Nat
  BY <1>1, FS_CardinalityType
<1>4. \A k \in Keys : order[k] \in Nat
  BY <1>3 DEF RegistryOrders
<1>5. \A k, l \in Keys : order[k] = order[l] => k = l
  BY DEF RegistryOrders
<1>6. \A k, l \in Keys : <<k, l>> \in ByOrder(order) <=> order[k] < order[l]
  BY DEF ByOrder
<1>7. \A a, b \in S : a # b => <<a, b>> \in ByOrder(order) \/ <<b, a>> \in ByOrder(order)
  BY <1>4, <1>5, <1>6
<1>8. \A a, b, c \in S : <<a, b>> \in ByOrder(order) /\ <<b, c>> \in ByOrder(order) => <<a, c>> \in ByOrder(order)
  <2> SUFFICES ASSUME NEW a \in S, NEW b \in S, NEW c \in S,
                      <<a, b>> \in ByOrder(order), <<b, c>> \in ByOrder(order)
               PROVE  <<a, c>> \in ByOrder(order)
    OBVIOUS
  <2>1. order[a] < order[b] /\ order[b] < order[c] /\ order[a] \in Nat /\ order[b] \in Nat /\ order[c] \in Nat
    BY <1>4, <1>6
  <2>2. order[a] < order[c]
    BY <2>1
  <2> QED BY <1>6, <2>2
<1>9. \A a \in S : <<a, a>> \notin ByOrder(order)
  BY <1>4, <1>6
<1> QED BY <1>2, <1>4, <1>7, <1>8, <1>9 DEF Orders

\* The new packages for which there is room, the first ones in the order.
Taken(fresh, room, order) == {k \in fresh : Cardinality({l \in fresh : order[l] < order[k]}) < room}

\* What is taken fills the room, unless it is all.
LEMMA TakenFacts ==
  ASSUME NEW order \in RegistryOrders, NEW fresh \in SUBSET Keys, NEW room \in Int
  PROVE  /\ Taken(fresh, room, order) \subseteq fresh
         /\ Taken(fresh, room, order) # {} => room > 0
         /\ Taken(fresh, room, order) # fresh => Cardinality(Taken(fresh, room, order)) >= room
<1> DEFINE T == Taken(fresh, room, order)
           Before(k) == {l \in fresh : order[l] < order[k]}
<1>1. T \subseteq fresh
  BY DEF Taken
<1>2. \A k \in fresh : Cardinality(Before(k)) \in Nat
  <2> SUFFICES ASSUME NEW k \in fresh PROVE Cardinality(Before(k)) \in Nat
    OBVIOUS
  <2>1. Before(k) \in SUBSET Keys
    OBVIOUS
  <2> HIDE DEF Before
  <2> QED BY <2>1, OrderOrders
<1>3. \A k \in fresh : k \in T <=> Cardinality(Before(k)) < room
  BY DEF Taken
<1>4. T # {} => room > 0
  <2> HIDE DEF T, Before
  <2> QED BY <1>1, <1>2, <1>3
<1>5. ASSUME T # fresh PROVE Cardinality(T) >= room
  <2> DEFINE U == fresh \ T
             R == {p \in Keys \X Keys : order[p[1]] > order[p[2]]}
  <2>1. U # {} /\ U \in SUBSET Keys
    BY <1>1, <1>5
  <2>2. IsFiniteSet(U) /\ Orders(ByOrder(order), U) /\ \A k \in Keys : order[k] \in Nat
    BY <2>1, OrderOrders
  <2>3. \A k, l \in Keys : <<k, l>> \in R <=> <<l, k>> \in ByOrder(order)
    BY <2>2 DEF ByOrder
  <2>4. Orders(R, U)
    <3> HIDE DEF R, U
    <3> QED BY <2>1, <2>2, <2>3 DEF Orders
  <2>5. PICK m \in U : \A a \in U \ {m} : <<a, m>> \in R
    <3> HIDE DEF R, U
    <3> QED BY <2>1, <2>2, <2>4, LastInOrder
  <2>6. Before(m) \subseteq T
    <3> SUFFICES ASSUME NEW l \in fresh, order[l] < order[m], l \notin T PROVE FALSE
      OBVIOUS
    <3>1. l # m /\ l \in U
      BY <2>2
    <3>2. order[l] > order[m]
      BY <2>5, <3>1
    <3> QED BY <2>2, <3>2
  <2>7. Cardinality(Before(m)) >= room /\ Cardinality(Before(m)) \in Nat
    <3>1. m \in fresh /\ m \notin T
      BY <2>5
    <3> HIDE DEF T, Before
    <3> QED BY <1>2, <1>3, <3>1
  <2>8. T \in SUBSET Keys
    BY <1>1
  <2>9. IsFiniteSet(T) /\ Cardinality(T) \in Nat
    <3> HIDE DEF T
    <3> QED BY <2>8, OrderOrders
  <2>10. Cardinality(Before(m)) <= Cardinality(T)
    <3> HIDE DEF T, Before
    <3> QED BY <2>6, <2>9, FS_Subset
  <2> HIDE DEF T, Before
  <2> QED BY <2>7, <2>9, <2>10
<1> QED BY <1>1, <1>4, <1>5

\* A list of packages has each of them once.
LEMMA ListedFacts ==
  ASSUME NEW order \in RegistryOrders, NEW S \in SUBSET Keys
  PROVE  /\ Listed(S, order) \in Seq(Keys)
         /\ Len(Listed(S, order)) = Cardinality(S)
         /\ IsInjective(Listed(S, order))
         /\ Range(Listed(S, order)) = S
<1> DEFINE n == Cardinality(S)
           Good(s) == s \in [1 .. n -> S] /\ \A i, j \in DOMAIN s : i < j => order[s[i]] < order[s[j]]
           l == Listed(S, order)
<1>1. /\ IsFiniteSet(S) /\ n \in Nat
      /\ Orders(ByOrder(order), S)
      /\ \A k \in Keys : order[k] \in Nat
  BY OrderOrders
<1>2. PICK s : IsListing(s, S, ByOrder(order))
  <2> HIDE DEF n
  <2> QED BY <1>1, ListingExists
<1>3. Good(s)
  BY <1>2 DEF IsListing, ByOrder
<1>4. Good(l)
  BY <1>3 DEF Listed
<1> HIDE DEF l
<1>5. IsListing(l, S, ByOrder(order))
  BY <1>4 DEF IsListing, ByOrder
<1>6. \A x \in S : \E i \in 1 .. n : l[i] = x
  <2> HIDE DEF n
  <2> QED BY <1>1, <1>5, ListingIsComplete DEF n
<1>7. l \in Seq(Keys) /\ Len(l) = n
  <2> HIDE DEF n
  <2>1. l \in [1 .. n -> S]
    BY <1>4
  <2>2. l \in [1 .. n -> Keys]
    BY <2>1
  <2> QED BY <1>1, <2>2
<1>8. IsInjective(l)
  <2> SUFFICES ASSUME NEW i \in 1 .. n, NEW j \in 1 .. n, i # j PROVE l[i] # l[j]
    BY <1>4 DEF IsInjective
  <2>1. l[i] \in Keys /\ l[j] \in Keys /\ order[l[i]] \in Nat /\ order[l[j]] \in Nat /\ DOMAIN l = 1 .. n
    BY <1>1, <1>4
  <2>2. i < j \/ j < i
    BY <1>1
  <2>3. order[l[i]] < order[l[j]] \/ order[l[j]] < order[l[i]]
    BY <1>4, <2>1, <2>2
  <2> QED BY <2>1, <2>3
<1>9. Range(l) = S
  <2>1. DOMAIN l = 1 .. n /\ \A i \in 1 .. n : l[i] \in S
    BY <1>4
  <2> HIDE DEF n
  <2> QED BY <1>6, <2>1 DEF Range
<1> QED BY <1>7, <1>8, <1>9 DEF l, n

\* The graphs that a walk can hold.
GraphRecord(hops) ==
  [depth : UNION {[S -> Nat] : S \in SUBSET Keys}, queue : Seq(Keys),
   edges : SUBSET hops, truncated : SUBSET {"max_nodes", "depth"}]

\* The packages that have left the frontier.
Gone(g) == DOMAIN g.depth \ Range(g.queue)

\* The packages that some hops lead to and the graph lacks, and those of them
\* that find room.
FreshOf(g, some) == {h[2] : h \in some} \ DOMAIN g.depth
TakenOf(g, some, req) ==
  Taken(FreshOf(g, some), req.max_nodes - Cardinality(DOMAIN g.depth), req.order)

\* The fields of a request.
LEMMA RequestTypes ==
  ASSUME NEW req \in GraphRequests
  PROVE  /\ req.root \in Keys /\ req.matching \in SUBSET Keys /\ req.order \in RegistryOrders
         /\ req.max_depth \in Nat /\ req.max_nodes \in Nat \ {0}
         /\ Hops(req) \in SUBSET AllHops
<1>1. /\ req.root \in Keys /\ req.matching \in SUBSET Keys /\ req.order \in RegistryOrders
      /\ req.max_depth \in Depths /\ req.max_nodes \in NodeCaps
  BY DEF GraphRequests
<1>2. Hops(req) \in SUBSET AllHops
  BY <1>1 DEF Hops, AllHops
<1> QED BY <1>1, <1>2, ReadSizes

\* The fields of a graph.
LEMMA GraphFields ==
  ASSUME NEW hops \in SUBSET AllHops, NEW g \in GraphRecord(hops)
  PROVE  /\ DOMAIN g.depth \in SUBSET Keys
         /\ \A k \in DOMAIN g.depth : g.depth[k] \in Nat
         /\ g.queue \in Seq(Keys) /\ g.edges \subseteq hops /\ g.truncated \subseteq {"max_nodes", "depth"}
         /\ IsFiniteSet(DOMAIN g.depth) /\ Cardinality(DOMAIN g.depth) \in Nat
<1>1. /\ g.depth \in UNION {[S -> Nat] : S \in SUBSET Keys}
      /\ g.queue \in Seq(Keys) /\ g.edges \subseteq hops /\ g.truncated \subseteq {"max_nodes", "depth"}
  BY DEF GraphRecord
<1>2. PICK S \in SUBSET Keys : g.depth \in [S -> Nat]
  BY <1>1
<1>3. DOMAIN g.depth \in SUBSET Keys /\ \A k \in DOMAIN g.depth : g.depth[k] \in Nat
  BY <1>2
<1>4. IsFiniteSet(DOMAIN g.depth) /\ Cardinality(DOMAIN g.depth) \in Nat
  BY <1>3, ReadSizes, FS_Subset, FS_CardinalityType
<1> QED BY <1>1, <1>3, <1>4

\* n is g after the hops in some have been processed: taken are the packages
\* that were new and found room.
IsHop(n, g, cur, some, fresh, taken, hops, req) ==
  /\ n \in GraphRecord(hops)
  /\ DOMAIN n.depth = DOMAIN g.depth \cup taken
  /\ \A k \in DOMAIN g.depth : n.depth[k] = g.depth[k]
  /\ \A k \in taken : n.depth[k] = g.depth[cur] + 1
  /\ n.queue = g.queue \o Listed(taken, req.order)
  /\ n.edges = g.edges \cup {h \in some : h[2] \in DOMAIN g.depth \cup taken}
  /\ n.truncated = g.truncated \cup (IF taken = fresh THEN {} ELSE {"max_nodes"})
  /\ taken \subseteq fresh /\ fresh \subseteq Keys /\ fresh \cap DOMAIN g.depth = {}
  /\ taken # {} => Cardinality(DOMAIN g.depth) < req.max_nodes
  /\ taken # fresh => Cardinality(DOMAIN n.depth) >= req.max_nodes
  /\ Cardinality(taken) \in Nat
  /\ Cardinality(DOMAIN n.depth) = Cardinality(DOMAIN g.depth) + Cardinality(taken)

\* ProcessHop is such a step.
LEMMA HopFields ==
  ASSUME NEW hops \in SUBSET AllHops, NEW g \in GraphRecord(hops), NEW req \in GraphRequests,
         NEW cur \in DOMAIN g.depth, NEW some \in SUBSET hops
  PROVE  IsHop(ProcessHop(g, cur, some, req), g, cur, some, FreshOf(g, some), TakenOf(g, some, req), hops, req)
<1> DEFINE fresh == FreshOf(g, some)
           D == DOMAIN g.depth
           room == req.max_nodes - Cardinality(D)
           taken == TakenOf(g, some, req)
           depth2 == [k \in D \cup taken |-> IF k \in taken THEN g.depth[cur] + 1 ELSE g.depth[k]]
           queue2 == g.queue \o Listed(taken, req.order)
           edges2 == g.edges \cup {h \in some : h[2] \in D \cup taken}
           truncated2 == g.truncated \cup (IF taken = fresh THEN {} ELSE {"max_nodes"})
           n == ProcessHop(g, cur, some, req)
<1>1. /\ D \in SUBSET Keys /\ \A k \in D : g.depth[k] \in Nat
      /\ g.queue \in Seq(Keys) /\ g.edges \subseteq hops /\ g.truncated \subseteq {"max_nodes", "depth"}
      /\ IsFiniteSet(D) /\ Cardinality(D) \in Nat
  BY GraphFields
<1>2. fresh \in SUBSET Keys /\ fresh \cap D = {}
  BY DEF AllHops, FreshOf
<1>3. req.order \in RegistryOrders /\ req.max_nodes \in Nat \ {0}
  BY RequestTypes
<1>4. room \in Int
  BY <1>1, <1>3
<1>5. taken = Taken(fresh, room, req.order)
  BY DEF TakenOf
<1>6. n = [g EXCEPT !.depth = depth2, !.queue = queue2, !.edges = edges2, !.truncated = truncated2]
  BY DEF ProcessHop, TakenOf, FreshOf, Taken
<1> HIDE DEF fresh, room, taken
<1>7. /\ taken \subseteq fresh
      /\ taken # {} => room > 0
      /\ taken # fresh => Cardinality(taken) >= room
  BY <1>2, <1>3, <1>4, <1>5, TakenFacts
<1>8. taken \in SUBSET Keys
  BY <1>2, <1>7
<1>9. IsFiniteSet(taken) /\ Cardinality(taken) \in Nat /\ Listed(taken, req.order) \in Seq(Keys)
  BY <1>3, <1>8, OrderOrders, ListedFacts
<1>10. depth2 \in [D \cup taken -> Nat] /\ D \cup taken \in SUBSET Keys
  <2>1. g.depth[cur] + 1 \in Nat
    BY <1>1
  <2> QED BY <1>1, <1>8, <2>1
<1>11. queue2 \in Seq(Keys)
  BY <1>1, <1>9, ConcatProperties
<1>12. edges2 \in SUBSET hops /\ truncated2 \in SUBSET {"max_nodes", "depth"}
  BY <1>1
<1>13. /\ \A k \in D : depth2[k] = g.depth[k]
       /\ \A k \in taken : depth2[k] = g.depth[cur] + 1
       /\ DOMAIN depth2 = D \cup taken
  BY <1>2, <1>7
<1>14. Cardinality(D \cup taken) = Cardinality(D) + Cardinality(taken)
  <2>1. D \cap taken = {}
    BY <1>2, <1>7
  <2>2. Cardinality(D \cup taken) = Cardinality(D) + Cardinality(taken) - Cardinality({})
    BY <1>1, <1>9, <2>1, FS_Union
  <2> QED BY <1>1, <1>9, <2>2, FS_EmptySet
<1> HIDE DEF depth2, queue2, edges2, truncated2
<1>15. depth2 \in UNION {[S -> Nat] : S \in SUBSET Keys}
  BY <1>10
<1>16. n \in GraphRecord(hops) /\ n.depth = depth2 /\ n.queue = queue2 /\ n.edges = edges2 /\ n.truncated = truncated2
  BY <1>6, <1>11, <1>12, <1>15 DEF GraphRecord
<1>17. /\ taken # {} => Cardinality(D) < req.max_nodes
       /\ taken # fresh => Cardinality(D \cup taken) >= req.max_nodes
  BY <1>1, <1>3, <1>7, <1>9, <1>14 DEF room
<1> HIDE DEF n, D
<1> QED
  BY <1>2, <1>7, <1>9, <1>13, <1>14, <1>16, <1>17
  DEF IsHop, fresh, taken, n, D, queue2, edges2, truncated2

\* The frontier is sorted by depth and spans two depths, d and d + 1; what left
\* it is no deeper.
FrontierInv(g, req, d) ==
  /\ d \in Nat /\ d <= req.max_depth
  /\ IsInjective(g.queue) /\ Range(g.queue) \subseteq DOMAIN g.depth
  /\ \A i, j \in 1 .. Len(g.queue) : i < j => g.depth[g.queue[i]] <= g.depth[g.queue[j]]
  /\ \A k \in Range(g.queue) : d <= g.depth[k] /\ g.depth[k] <= d + 1
  /\ \A k \in Gone(g) : g.depth[k] <= d

\* A depth is a distance.
DistanceInv(g, hops, req) ==
  /\ req.root \in DOMAIN g.depth
  /\ \A k \in DOMAIN g.depth :
       /\ g.depth[k] <= req.max_depth
       /\ k \in Within(hops, req.root, g.depth[k])
       /\ \A m \in Nat : m < g.depth[k] => k \notin Within(hops, req.root, m)

\* The hops from packages that left the frontier have been followed, but those
\* in open, which lead from depth d.
FollowedInv(g, hops, req, d, open) ==
  /\ open \subseteq hops
  /\ \A h \in open : h[1] \in Gone(g) /\ g.depth[h[1]] = d
  /\ \A h \in hops \ open :
       h[1] \in Gone(g) /\ g.depth[h[1]] < req.max_depth /\ "max_nodes" \notin g.truncated
       => h[2] \in DOMAIN g.depth /\ g.depth[h[2]] <= g.depth[h[1]] + 1
  /\ g.edges = {h \in hops \ open :
                  h[1] \in Gone(g) /\ h[2] \in DOMAIN g.depth /\ g.depth[h[1]] < req.max_depth}

\* What the flags of the reply stand for.
CutInv(g, req) ==
  /\ "max_nodes" \in g.truncated => Cardinality(DOMAIN g.depth) >= req.max_nodes
  /\ "depth" \notin g.truncated => \A k \in Gone(g) : g.depth[k] < req.max_depth

\* The invariant of the walk, of a graph whose frontier begins at depth d.
WalkInv(g, hops, req, d, open) ==
  /\ g \in GraphRecord(hops)
  /\ FrontierInv(g, req, d)
  /\ DistanceInv(g, hops, req)
  /\ FollowedInv(g, hops, req, d, open)
  /\ CutInv(g, req)

\* Unless a node found no room, all that is nearer than the frontier is in the
\* graph.
LEMMA NearIsThere ==
  ASSUME NEW hops \in SUBSET AllHops, NEW req \in GraphRequests, NEW g, NEW d, NEW open,
         WalkInv(g, hops, req, d, open), "max_nodes" \notin g.truncated,
         NEW m \in Nat, m <= d, NEW k \in Within(hops, req.root, m)
  PROVE  k \in DOMAIN g.depth /\ g.depth[k] <= m
<1> DEFINE D == DOMAIN g.depth
           S == {n \in Nat : n <= d => \A l \in Within(hops, req.root, n) : l \in D /\ g.depth[l] <= n}
<1>1. req.root \in Keys /\ req.max_depth \in Nat
  BY RequestTypes
<1>2. /\ \A l \in D : g.depth[l] \in Nat
      /\ D \subseteq Keys
  BY GraphFields DEF WalkInv
<1>3. /\ d \in Nat /\ d <= req.max_depth
      /\ \A l \in Range(g.queue) : d <= g.depth[l]
  BY DEF WalkInv, FrontierInv
<1>4. /\ req.root \in D
      /\ \A l \in D : \A n \in Nat : n < g.depth[l] => l \notin Within(hops, req.root, n)
  BY DEF WalkInv, DistanceInv
<1>5. /\ \A h \in open : g.depth[h[1]] = d
      /\ \A h \in hops \ open : h[1] \in Gone(g) /\ g.depth[h[1]] < req.max_depth
                                => h[2] \in D /\ g.depth[h[2]] <= g.depth[h[1]] + 1
  BY DEF WalkInv, FollowedInv
<1>6. /\ Within(hops, req.root, 0) = {req.root}
      /\ \A n \in Nat : Within(hops, req.root, n + 1) = Wider(hops, Within(hops, req.root, n))
  BY <1>1, WithinUnfolds
<1> HIDE DEF D
<1>7. 0 \in S
  <2>1. ~(0 < g.depth[req.root])
    BY <1>4, <1>6
  <2>2. g.depth[req.root] <= 0
    BY <1>2, <1>4, <2>1
  <2> QED BY <1>4, <1>6, <2>2
<1>8. ASSUME NEW n \in Nat, n \in S PROVE n + 1 \in S
  <2> SUFFICES ASSUME n + 1 <= d, NEW l \in Within(hops, req.root, n + 1)
               PROVE  l \in D /\ g.depth[l] <= n + 1
    OBVIOUS
  <2>1. n <= d /\ n < d /\ n < req.max_depth
    BY <1>1, <1>3
  <2>2. \A q \in Within(hops, req.root, n) : q \in D /\ g.depth[q] <= n
    BY <1>8, <2>1
  <2>3. CASE l \in Within(hops, req.root, n)
    <3>1. l \in D /\ g.depth[l] <= n /\ g.depth[l] \in Nat
      BY <1>2, <2>2, <2>3
    <3> QED BY <3>1
  <2>4. ASSUME NEW h \in hops, h[1] \in Within(hops, req.root, n), h[2] = l
        PROVE  l \in D /\ g.depth[l] <= n + 1
    <3>1. h[1] \in D /\ g.depth[h[1]] <= n /\ g.depth[h[1]] \in Nat
      BY <1>2, <2>2, <2>4
    <3>2. g.depth[h[1]] < d /\ g.depth[h[1]] < req.max_depth
      BY <1>1, <1>3, <2>1, <3>1
    <3>3. h[1] \notin Range(g.queue)
      BY <1>3, <3>1, <3>2
    <3>4. h[1] \in Gone(g)
      BY <3>1, <3>3 DEF Gone, D
    <3>5. h \notin open
      BY <1>3, <1>5, <3>1, <3>2
    <3>6. h[2] \in D /\ g.depth[h[2]] <= g.depth[h[1]] + 1
      BY <1>5, <3>2, <3>4, <3>5
    <3>7. g.depth[h[2]] \in Nat
      BY <1>2, <3>6
    <3> QED BY <2>4, <3>1, <3>6, <3>7
  <2> QED BY <1>6, <2>3, <2>4 DEF Wider
<1> HIDE DEF S
<1>9. m \in S
  BY <1>7, <1>8, SetInduction
<1> QED BY <1>9 DEF S, D

\* How many packages have left the frontier.
Lead(g) == Cardinality(DOMAIN g.depth) - Len(g.queue)

\* cur has left the frontier, and the hops in open are the ones to follow yet.
InHand(g, hops, req, d, cur, open) ==
  /\ WalkInv(g, hops, req, d, open)
  /\ cur \in Gone(g) /\ g.depth[cur] = d /\ d < req.max_depth

\* One direction of the hops from the package in hand.
LEMMA HopKeeps ==
  ASSUME NEW hops \in SUBSET AllHops, NEW req \in GraphRequests, NEW g, NEW d, NEW cur, NEW open,
         InHand(g, hops, req, d, cur, open),
         NEW some \in SUBSET open, \A h \in some : h[1] = cur
  PROVE  /\ InHand(ProcessHop(g, cur, some, req), hops, req, d, cur, open \ some)
         /\ Lead(ProcessHop(g, cur, some, req)) = Lead(g)
<1> USE DEF InHand
<1> DEFINE fresh == FreshOf(g, some)
           taken == TakenOf(g, some, req)
           n == ProcessHop(g, cur, some, req)
           D == DOMAIN g.depth
           Q == Range(g.queue)
           new == Listed(taken, req.order)
           q == g.queue
           w(m) == Within(hops, req.root, m)
<1>1. /\ g \in GraphRecord(hops)
      /\ open \subseteq hops
      /\ cur \in D /\ cur \notin Q
  BY DEF WalkInv, FollowedInv, Gone
<1>2. /\ D \in SUBSET Keys /\ \A k \in D : g.depth[k] \in Nat
      /\ q \in Seq(Keys) /\ g.truncated \subseteq {"max_nodes", "depth"}
      /\ Cardinality(D) \in Nat
  BY <1>1, GraphFields
<1>3. /\ n \in GraphRecord(hops)
      /\ DOMAIN n.depth = D \cup taken
      /\ \A k \in D : n.depth[k] = g.depth[k]
      /\ \A k \in taken : n.depth[k] = d + 1
      /\ n.queue = q \o new
      /\ n.edges = g.edges \cup {h \in some : h[2] \in D \cup taken}
      /\ n.truncated = g.truncated \cup (IF taken = fresh THEN {} ELSE {"max_nodes"})
      /\ taken \subseteq fresh /\ fresh \subseteq Keys /\ fresh \cap D = {}
      /\ taken # {} => Cardinality(D) < req.max_nodes
      /\ taken # fresh => Cardinality(D \cup taken) >= req.max_nodes
      /\ Cardinality(taken) \in Nat
      /\ Cardinality(D \cup taken) = Cardinality(D) + Cardinality(taken)
  <2>1. some \in SUBSET hops
    BY <1>1
  <2>2. cur \in DOMAIN g.depth
    BY <1>1
  <2>3. IsHop(n, g, cur, some, fresh, taken, hops, req)
    BY <1>1, <2>1, <2>2, HopFields
  <2> HIDE DEF n, taken, fresh
  <2> QED BY <2>3 DEF IsHop
<1> HIDE DEF n, taken, fresh
<1>4. /\ d \in Nat /\ d <= req.max_depth /\ d + 1 <= req.max_depth
      /\ req.max_depth \in Nat /\ req.max_nodes \in Nat /\ req.root \in Keys
      /\ req.order \in RegistryOrders
  BY RequestTypes DEF WalkInv, FrontierInv
<1>5. /\ IsInjective(q) /\ Q \subseteq D
      /\ \A i, j \in 1 .. Len(q) : i < j => g.depth[q[i]] <= g.depth[q[j]]
      /\ \A k \in Q : d <= g.depth[k] /\ g.depth[k] <= d + 1
      /\ \A k \in Gone(g) : g.depth[k] <= d
  BY DEF WalkInv, FrontierInv
<1>6. /\ req.root \in D
      /\ \A k \in D : /\ g.depth[k] <= req.max_depth
                      /\ k \in w(g.depth[k])
                      /\ \A m \in Nat : m < g.depth[k] => k \notin w(m)
  BY DEF WalkInv, DistanceInv
<1>7. /\ \A h \in open : h[1] \in Gone(g) /\ g.depth[h[1]] = d
      /\ \A h \in hops \ open :
           h[1] \in Gone(g) /\ g.depth[h[1]] < req.max_depth /\ "max_nodes" \notin g.truncated
           => h[2] \in D /\ g.depth[h[2]] <= g.depth[h[1]] + 1
      /\ g.edges = {h \in hops \ open : h[1] \in Gone(g) /\ h[2] \in D /\ g.depth[h[1]] < req.max_depth}
  BY DEF WalkInv, FollowedInv
<1>8. /\ "max_nodes" \in g.truncated => Cardinality(D) >= req.max_nodes
      /\ "depth" \notin g.truncated => \A k \in Gone(g) : g.depth[k] < req.max_depth
  BY DEF WalkInv, CutInv
<1>9. taken # {} => "max_nodes" \notin g.truncated
  <2> HIDE DEF D
  <2> QED BY <1>2, <1>3, <1>4, <1>8
<1>10. /\ \A k \in taken : k \in Keys /\ k \notin D
       /\ \A h \in some : h[2] \in D \/ h[2] \in fresh
       /\ \A k \in taken : \E h \in some : h[2] = k
  BY <1>3 DEF FreshOf, fresh
<1>11. /\ new \in Seq(Keys) /\ Len(new) = Cardinality(taken) /\ IsInjective(new) /\ Range(new) = taken
  <2>1. taken \in SUBSET Keys
    BY <1>10
  <2> QED BY <1>4, <2>1, ListedFacts
<1>12. /\ n.queue \in Seq(Keys) /\ Len(n.queue) = Len(q) + Len(new)
       /\ IsInjective(n.queue) /\ Range(n.queue) = Q \cup taken
  <2>1. Q \cap taken = {}
    BY <1>5, <1>10
  <2> HIDE DEF new, q, Q
  <2>0. Range(q) = Q
    BY DEF q, Q
  <2>2. /\ q \o new \in Seq(Keys) /\ Len(q \o new) = Len(q) + Len(new)
        /\ IsInjective(q \o new) /\ Range(q \o new) = Range(q) \cup Range(new)
    <3>1. /\ q \in Seq(Keys) /\ new \in Seq(Keys) /\ IsInjective(q) /\ IsInjective(new)
          /\ Range(q) \cap Range(new) = {}
      BY <1>2, <1>5, <1>11, <2>0, <2>1
    <3> QED BY ONLY <3>1, JoinFresh
  <2> QED BY <1>3, <1>11, <2>0, <2>2
<1>13. Gone(n) = Gone(g)
  BY <1>3, <1>5, <1>10, <1>12 DEF Gone
<1>14. /\ \A k \in Gone(g) : k \in D /\ n.depth[k] = g.depth[k]
       /\ \A k \in D \cup taken : n.depth[k] \in Nat
  <2>1. \A k \in Gone(g) : k \in D /\ n.depth[k] = g.depth[k]
    BY <1>3 DEF Gone
  <2>2. d + 1 \in Nat
    BY <1>4
  <2> HIDE DEF D
  <2>3. \A k \in D \cup taken : n.depth[k] \in Nat
    BY <1>2, <1>3, <2>2
  <2> QED BY <2>1, <2>3
<1> HIDE DEF D, Q, new, q, w
<1>15. FrontierInv(n, req, d)
  <2>1. \A k \in Q \cup taken : d <= n.depth[k] /\ n.depth[k] <= d + 1
    BY <1>3, <1>4, <1>5
  <2>2. ASSUME NEW i \in 1 .. Len(n.queue), NEW j \in 1 .. Len(n.queue), i < j
        PROVE  n.depth[n.queue[i]] <= n.depth[n.queue[j]]
    <3> DEFINE a == Len(q)
               b == Len(new)
    <3>1. /\ a \in Nat /\ b \in Nat
          /\ \A x \in 1 .. a + b : n.queue[x] = IF x <= a THEN q[x] ELSE new[x - a]
      <4>1. q \in Seq(Keys) /\ new \in Seq(Keys) /\ n.queue = q \o new
        BY <1>2, <1>3, <1>11
      <4>2. \A x \in 1 .. Len(q) + Len(new) : (q \o new)[x] = IF x <= Len(q) THEN q[x] ELSE new[x - Len(q)]
        BY ONLY <4>1, ConcatProperties
      <4>3. Len(q) \in Nat /\ Len(new) \in Nat
        BY ONLY <4>1
      <4> QED BY ONLY <4>1, <4>2, <4>3
    <3>2. /\ \A x \in 1 .. a : q[x] \in Q
          /\ \A x \in 1 .. b : new[x] \in taken
      <4>1. Range(q) = Q
        BY DEF q, Q
      <4> QED BY <1>2, <1>11, <4>1, RangeElements
    <3> HIDE DEF a, b
    <3>3. i \in 1 .. a + b /\ j \in 1 .. a + b
      BY <1>12 DEF a, b
    <3>4. \A x \in 1 .. a + b : n.queue[x] \in Q \cup taken
      <4> SUFFICES ASSUME NEW x \in 1 .. a + b PROVE n.queue[x] \in Q \cup taken
        OBVIOUS
      <4>1. CASE x <= a
        <5>1. x \in 1 .. a
          BY <3>1, <4>1
        <5> QED BY <3>1, <3>2, <4>1, <5>1
      <4>2. CASE ~(x <= a)
        <5>1. x - a \in 1 .. b
          BY <3>1, <4>2
        <5> QED BY <3>1, <3>2, <4>2, <5>1
      <4> QED BY <4>1, <4>2
    <3>5. CASE j <= a
      <4>1. i \in 1 .. a /\ j \in 1 .. a /\ i <= a
        BY <2>2, <3>1, <3>3, <3>5
      <4>2. n.queue[i] = q[i] /\ n.queue[j] = q[j]
        BY <3>1, <3>3, <3>5, <4>1
      <4>3. g.depth[q[i]] <= g.depth[q[j]]
        BY <1>5, <2>2, <4>1 DEF a
      <4>4. q[i] \in D /\ q[j] \in D
        BY <1>5, <3>2, <4>1
      <4> QED BY <1>3, <4>2, <4>3, <4>4
    <3>6. CASE ~(j <= a)
      <4>1. j - a \in 1 .. b
        BY <3>1, <3>3, <3>6
      <4>2. n.queue[j] = new[j - a]
        BY <3>1, <3>3, <3>6
      <4>3. n.depth[n.queue[j]] = d + 1
        BY <1>3, <3>2, <4>1, <4>2
      <4>4. n.depth[n.queue[i]] <= d + 1
        BY <2>1, <3>3, <3>4
      <4> QED BY <4>3, <4>4
    <3> QED BY <3>5, <3>6
  <2>3. \A k \in Gone(n) : n.depth[k] <= d
    BY <1>5, <1>13, <1>14
  <2>4. Range(n.queue) \subseteq DOMAIN n.depth
    BY <1>3, <1>5, <1>12
  <2> QED BY <1>4, <1>12, <2>1, <2>2, <2>3, <2>4 DEF FrontierInv
<1>16. DistanceInv(n, hops, req)
  <2>1. ASSUME NEW k \in taken
        PROVE  /\ n.depth[k] <= req.max_depth
               /\ k \in w(n.depth[k])
               /\ \A m \in Nat : m < n.depth[k] => k \notin w(m)
    <3>1. n.depth[k] = d + 1
      BY <1>3
    <3>2. PICK h \in some : h[2] = k
      BY <1>10
    <3>3. h \in hops /\ h[1] = cur /\ cur \in w(d)
      BY <1>1, <1>6, <3>2
    <3>4. w(d + 1) = Wider(hops, w(d))
      BY <1>4, WithinUnfolds DEF w
    <3>5. k \in w(d + 1)
      BY <3>2, <3>3, <3>4 DEF Wider
    <3>6. ASSUME NEW m \in Nat, m < d + 1, k \in w(m) PROVE FALSE
      <4>1. m <= d
        BY <1>4, <3>6
      <4>2. "max_nodes" \notin g.truncated
        BY <1>9, <2>1
      <4>3. k \in D
        BY <3>6, <4>1, <4>2, NearIsThere DEF w, D
      <4> QED BY <1>10, <4>3
    <3> QED BY <1>4, <3>1, <3>5, <3>6
  <2>2. ASSUME NEW k \in D
        PROVE  /\ n.depth[k] <= req.max_depth
               /\ k \in w(n.depth[k])
               /\ \A m \in Nat : m < n.depth[k] => k \notin w(m)
    BY <1>3, <1>6
  <2> QED BY <1>3, <1>6, <2>1, <2>2 DEF DistanceInv, w
<1>17. FollowedInv(n, hops, req, d, open \ some)
  <2>1. \A h \in open \ some : h[1] \in Gone(n) /\ n.depth[h[1]] = d
    BY <1>7, <1>13, <1>14
  <2>2. \A h \in some : h[1] \in Gone(n) /\ n.depth[h[1]] = d /\ n.depth[h[1]] < req.max_depth
    BY <1>4, <1>7, <1>13, <1>14
  <2>3. ASSUME NEW h \in hops \ (open \ some), h[1] \in Gone(n), n.depth[h[1]] < req.max_depth,
               "max_nodes" \notin n.truncated
        PROVE  h[2] \in DOMAIN n.depth /\ n.depth[h[2]] <= n.depth[h[1]] + 1
    <3>1. "max_nodes" \notin g.truncated /\ taken = fresh
      BY <1>3, <2>3
    <3>2. CASE h \in some
      <4>1. n.depth[h[1]] = d
        BY <2>2, <3>2
      <4>2. CASE h[2] \in D
        <5>1. h[2] \in Q \/ h[2] \in Gone(g)
          BY <4>2 DEF Gone, Q, D
        <5>2. g.depth[h[2]] <= d + 1
          BY <1>2, <1>4, <1>5, <4>2, <5>1
        <5> QED BY <1>3, <4>1, <4>2, <5>2
      <4>3. CASE h[2] \in taken
        <5>1. n.depth[h[2]] <= d + 1
          BY <1>3, <1>4, <4>3
        <5> QED BY <1>3, <4>1, <4>3, <5>1
      <4> QED BY <1>10, <3>1, <3>2, <4>2, <4>3
    <3>3. CASE h \in hops \ open
      <4>1. h[1] \in Gone(g) /\ g.depth[h[1]] < req.max_depth /\ n.depth[h[1]] = g.depth[h[1]]
        BY <1>13, <1>14, <2>3
      <4>2. h[2] \in D /\ g.depth[h[2]] <= g.depth[h[1]] + 1
        BY <1>7, <3>1, <3>3, <4>1
      <4> QED BY <1>3, <4>1, <4>2
    <3> QED BY <2>3, <3>2, <3>3
  <2>4. n.edges = {h \in hops \ (open \ some) :
                     h[1] \in Gone(n) /\ h[2] \in DOMAIN n.depth /\ n.depth[h[1]] < req.max_depth}
    <3>1. ASSUME NEW h \in g.edges
          PROVE  /\ h \in hops \ (open \ some)
                 /\ h[1] \in Gone(n) /\ h[2] \in DOMAIN n.depth /\ n.depth[h[1]] < req.max_depth
      BY <1>3, <1>7, <1>13, <1>14
    <3>2. ASSUME NEW h \in some, h[2] \in D \cup taken
          PROVE  /\ h \in hops \ (open \ some)
                 /\ h[1] \in Gone(n) /\ h[2] \in DOMAIN n.depth /\ n.depth[h[1]] < req.max_depth
      BY <1>1, <1>3, <2>2, <3>2
    <3>3. ASSUME NEW h \in hops \ (open \ some),
                 h[1] \in Gone(n), h[2] \in DOMAIN n.depth, n.depth[h[1]] < req.max_depth
          PROVE  h \in n.edges
      <4>1. CASE h \in some
        BY <1>3, <3>3, <4>1
      <4>2. CASE h \in hops \ open
        <5>1. h[1] \in Gone(g) /\ g.depth[h[1]] < req.max_depth
          BY <1>13, <1>14, <3>3
        <5>2. h[2] \in taken => h[2] \in D
          BY <1>7, <1>9, <4>2, <5>1
        <5>3. h[2] \in D
          BY <1>3, <3>3, <5>2
        <5>4. h \in g.edges
          BY <1>7, <4>2, <5>1, <5>3
        <5> QED BY <1>3, <5>4
      <4> QED BY <3>3, <4>1, <4>2
    <3>4. \A h \in n.edges : h \in g.edges \/ (h \in some /\ h[2] \in D \cup taken)
      BY <1>3
    <3> QED BY <3>1, <3>2, <3>3, <3>4
  <2> QED BY <1>1, <2>1, <2>3, <2>4 DEF FollowedInv
<1>18. CutInv(n, req)
  <2>1. "max_nodes" \in n.truncated => Cardinality(D \cup taken) >= req.max_nodes
    <3>1. "max_nodes" \in n.truncated => "max_nodes" \in g.truncated \/ taken # fresh
      BY <1>3
    <3> QED BY <1>2, <1>3, <1>4, <1>8, <3>1
  <2>2. "depth" \notin n.truncated => \A k \in Gone(n) : n.depth[k] < req.max_depth
    BY <1>3, <1>8, <1>13, <1>14
  <2> QED BY <1>3, <2>1, <2>2 DEF CutInv
<1>19. Lead(n) = Lead(g)
  <2>1. Len(q) \in Nat
    BY <1>2
  <2>2. Cardinality(DOMAIN n.depth) - Len(n.queue) = Cardinality(D) - Len(q)
    BY <1>2, <1>3, <1>11, <1>12, <2>1
  <2> QED BY <2>2 DEF Lead, D, q
<1>20. n.depth[cur] = d
  BY <1>1, <1>3
<1> QED BY <1>3, <1>13, <1>15, <1>16, <1>17, <1>18, <1>19, <1>20 DEF WalkInv, n, D, q

\* r is g without the head of its frontier: the hops from it are open, or it is
\* at max_depth and the reply says so.
IsDequeued(r, g, hops, req, open) ==
  /\ r \in GraphRecord(hops)
  /\ r.depth = g.depth /\ r.queue = Tail(g.queue) /\ r.edges = g.edges
  /\ "max_nodes" \in r.truncated <=> "max_nodes" \in g.truncated
  /\ "depth" \in g.truncated => "depth" \in r.truncated
  /\ \/ /\ g.depth[Head(g.queue)] < req.max_depth
        /\ open = {h \in hops : h[1] = Head(g.queue)}
     \/ /\ g.depth[Head(g.queue)] >= req.max_depth
        /\ open = {}
        /\ "depth" \in r.truncated

\* What the walk knows of g it knows of r, at the depth of the head.
LEMMA DequeueKeeps ==
  ASSUME NEW hops \in SUBSET AllHops, NEW req \in GraphRequests, NEW g, NEW d,
         WalkInv(g, hops, req, d, {}), g.queue # <<>>,
         NEW r, NEW open, IsDequeued(r, g, hops, req, open)
  PROVE  /\ WalkInv(r, hops, req, g.depth[Head(g.queue)], open)
         /\ Head(g.queue) \in Gone(r)
         /\ Len(r.queue) = Len(g.queue) - 1
<1> USE DEF IsDequeued
<1> DEFINE D == DOMAIN g.depth
           q == g.queue
           cur == Head(q)
           e == g.depth[cur]
<1>1. g \in GraphRecord(hops)
  BY DEF WalkInv
<1>2. /\ \A k \in D : g.depth[k] \in Nat
      /\ q \in Seq(Keys)
  BY <1>1, GraphFields
<1>3. req.max_depth \in Nat
  BY RequestTypes
<1>4. /\ d \in Nat /\ d <= req.max_depth
      /\ IsInjective(q) /\ Range(q) \subseteq D
      /\ \A i, j \in 1 .. Len(q) : i < j => g.depth[q[i]] <= g.depth[q[j]]
      /\ \A k \in Range(q) : d <= g.depth[k] /\ g.depth[k] <= d + 1
      /\ \A k \in Gone(g) : g.depth[k] <= d
  BY DEF WalkInv, FrontierInv
<1>5. \A k \in D : g.depth[k] <= req.max_depth
  BY DEF WalkInv, DistanceInv
<1>6. /\ \A h \in hops : h[1] \in Gone(g) /\ g.depth[h[1]] < req.max_depth /\ "max_nodes" \notin g.truncated
                         => h[2] \in D /\ g.depth[h[2]] <= g.depth[h[1]] + 1
      /\ g.edges = {h \in hops : h[1] \in Gone(g) /\ h[2] \in D /\ g.depth[h[1]] < req.max_depth}
  BY DEF WalkInv, FollowedInv
<1> HIDE DEF q, D
<1>7. /\ IsInjective(Tail(q)) /\ cur \in Range(q) /\ Range(Tail(q)) = Range(q) \ {cur}
      /\ q # <<>>
  <2>1. q # <<>>
    BY DEF q
  <2> QED BY <1>2, <1>4, <2>1, TailFresh
<1>8. /\ Len(q) \in Nat /\ Len(q) > 0 /\ cur = q[1]
      /\ Len(Tail(q)) = Len(q) - 1
      /\ \A i \in 1 .. Len(q) - 1 : Tail(q)[i] = q[i + 1]
  BY <1>2, <1>7
<1>9. Gone(r) = Gone(g) \cup {cur} /\ cur \notin Gone(g) /\ cur \in D
  BY <1>4, <1>7 DEF Gone, q, D
<1>10. e \in Nat /\ d <= e /\ e <= d + 1 /\ e <= req.max_depth
  BY <1>2, <1>4, <1>5, <1>7, <1>9
<1>11. \A i \in 1 .. Len(q) : e <= g.depth[q[i]]
  <2> SUFFICES ASSUME NEW i \in 1 .. Len(q) PROVE e <= g.depth[q[i]]
    OBVIOUS
  <2>1. CASE i = 1
    BY <1>8, <1>10, <2>1
  <2>2. CASE i > 1
    <3>1. 1 \in 1 .. Len(q) /\ 1 < i
      BY <1>8, <2>2
    <3> QED BY <1>4, <1>8, <3>1
  <2> QED BY <2>1, <2>2
<1> HIDE DEF cur
<1> DEFINE f == g.depth[cur]
<1>12. f = e
  OBVIOUS
<1> HIDE DEF e
<1>13. FrontierInv(r, req, e)
  <2>1. \A k \in Range(Tail(q)) : e <= g.depth[k] /\ g.depth[k] <= e + 1
    <3> SUFFICES ASSUME NEW k \in Range(Tail(q)) PROVE e <= g.depth[k] /\ g.depth[k] <= e + 1
      OBVIOUS
    <3>1. k \in Range(q)
      BY <1>7
    <3>2. \E i \in 1 .. Len(q) : k = q[i]
      BY <1>2, <3>1, RangeElements
    <3>3. g.depth[k] <= d + 1 /\ g.depth[k] \in Nat
      BY <1>2, <1>4, <3>1
    <3> QED BY <1>4, <1>10, <1>11, <3>2, <3>3
  <2>2. \A i, j \in 1 .. Len(Tail(q)) : i < j => g.depth[Tail(q)[i]] <= g.depth[Tail(q)[j]]
    <3> SUFFICES ASSUME NEW i \in 1 .. Len(q) - 1, NEW j \in 1 .. Len(q) - 1, i < j
                 PROVE  g.depth[Tail(q)[i]] <= g.depth[Tail(q)[j]]
      BY <1>8
    <3>1. i + 1 \in 1 .. Len(q) /\ j + 1 \in 1 .. Len(q) /\ i + 1 < j + 1
      BY <1>8
    <3>2. g.depth[q[i + 1]] <= g.depth[q[j + 1]]
      BY <1>4, <3>1
    <3> QED BY <1>8, <3>2
  <2>3. \A k \in Gone(r) : g.depth[k] <= e
    <3>1. \A k \in Gone(g) : g.depth[k] <= d /\ g.depth[k] \in Nat
      BY <1>2, <1>4 DEF Gone, D
    <3>2. \A k \in Gone(g) : g.depth[k] <= e
      BY <1>4, <1>10, <3>1
    <3>3. g.depth[cur] <= e
      BY <1>10, <1>12
    <3> QED BY <1>9, <3>2, <3>3
  <2>4. r.depth = g.depth /\ r.queue = Tail(q)
    BY DEF q
  <2>5. Range(Tail(q)) \subseteq DOMAIN g.depth
    BY <1>4, <1>7 DEF D
  <2> QED BY <1>7, <1>10, <2>1, <2>2, <2>3, <2>4, <2>5 DEF FrontierInv
<1>14. DistanceInv(r, hops, req)
  BY DEF WalkInv, DistanceInv
<1>15. \/ e < req.max_depth /\ open = {h \in hops : h[1] = cur}
       \/ e >= req.max_depth /\ open = {} /\ "depth" \in r.truncated
  BY DEF e, cur, q
<1>16. FollowedInv(r, hops, req, e, open)
  <2>1. open \subseteq hops /\ \A h \in open : h[1] = cur
    BY <1>15
  <2>2. \A h \in open : h[1] \in Gone(r) /\ r.depth[h[1]] = e
    BY <1>9, <1>12, <2>1
  <2>3. ASSUME NEW h \in hops \ open, h[1] \in Gone(r), r.depth[h[1]] < req.max_depth
        PROVE  h[1] \in Gone(g) /\ g.depth[h[1]] < req.max_depth
    <3>1. h[1] # cur
      <4> SUFFICES ASSUME h[1] = cur PROVE FALSE
        OBVIOUS
      <4>1. e < req.max_depth
        BY <1>12, <2>3
      <4>2. h \in open
        BY <1>3, <1>10, <1>15, <4>1
      <4> QED BY <4>2
    <3> QED BY <1>9, <2>3, <3>1
  <2>4. \A h \in hops \ open :
          h[1] \in Gone(r) /\ r.depth[h[1]] < req.max_depth /\ "max_nodes" \notin r.truncated
          => h[2] \in DOMAIN r.depth /\ r.depth[h[2]] <= r.depth[h[1]] + 1
    BY <1>6, <2>3 DEF D
  <2>5. r.edges = {h \in hops \ open :
                     h[1] \in Gone(r) /\ h[2] \in DOMAIN r.depth /\ r.depth[h[1]] < req.max_depth}
    <3>1. \A h \in g.edges : h \in hops \ open /\ h[1] \in Gone(r) /\ h[2] \in D /\ g.depth[h[1]] < req.max_depth
      BY <1>6, <1>9, <2>1
    <3>2. \A h \in hops \ open : h[1] \in Gone(r) /\ h[2] \in D /\ r.depth[h[1]] < req.max_depth => h \in g.edges
      BY <1>6, <2>3
    <3>3. r.edges = g.edges /\ r.depth = g.depth /\ DOMAIN r.depth = D
      BY DEF D
    <3> QED BY <3>1, <3>2, <3>3
  <2> QED BY <2>1, <2>2, <2>4, <2>5 DEF FollowedInv
<1>17. CutInv(r, req)
  <2>1. /\ "max_nodes" \in g.truncated => Cardinality(DOMAIN g.depth) >= req.max_nodes
        /\ "depth" \notin g.truncated => \A k \in Gone(g) : g.depth[k] < req.max_depth
    BY DEF WalkInv, CutInv
  <2>2. "depth" \notin r.truncated => g.depth[cur] < req.max_depth
    BY <1>12, <1>15
  <2> QED BY <1>9, <2>1, <2>2 DEF CutInv
<1>18. Len(r.queue) = Len(q) - 1 /\ cur \in Gone(r)
  BY <1>8, <1>9 DEF q
<1> QED BY <1>13, <1>14, <1>16, <1>17, <1>18 DEF WalkInv, e, cur, q

\* The package in hand, its dependencies first, then its referencers.
LEMMA FollowKeeps ==
  ASSUME NEW hops \in SUBSET AllHops, NEW req \in GraphRequests, NEW g, NEW d, NEW cur,
         InHand(g, hops, req, d, cur, {h \in hops : h[1] = cur}),
         NEW first, first = {h \in hops : h[1] = cur /\ h[3] = "dependency"},
         NEW second, second = {h \in hops : h[1] = cur /\ h[3] = "referencer"},
         NEW one, one = ProcessHop(g, cur, first, req),
         NEW two, two = ProcessHop(one, cur, second, req)
  PROVE  WalkInv(two, hops, req, d, {}) /\ Lead(two) = Lead(g)
<1> DEFINE open == {h \in hops : h[1] = cur}
           left == open \ first
<1>1. /\ hops \in SUBSET AllHops /\ req \in GraphRequests
      /\ InHand(g, hops, req, d, cur, open)
      /\ one = ProcessHop(g, cur, first, req)
      /\ two = ProcessHop(one, cur, second, req)
  OBVIOUS
<1>2. /\ first \in SUBSET open /\ second \in SUBSET left
      /\ \A h \in first : h[1] = cur
      /\ \A h \in second : h[1] = cur
      /\ left \ second = {}
  <2>1. \A h \in hops : h[3] = "dependency" \/ h[3] = "referencer"
    BY DEF AllHops
  <2> QED BY <2>1
<1> HIDE DEF open
<1>3. InHand(one, hops, req, d, cur, left) /\ Lead(one) = Lead(g)
  BY ONLY <1>1, <1>2, HopKeeps
<1> HIDE DEF left
<1>4. InHand(two, hops, req, d, cur, left \ second) /\ Lead(two) = Lead(one)
  BY ONLY <1>1, <1>2, <1>3, HopKeeps
<1> QED BY <1>2, <1>3, <1>4 DEF InHand

\* One round of the walk: one more package has left the frontier.
LEMMA ExpandKeeps ==
  ASSUME NEW hops \in SUBSET AllHops, NEW req \in GraphRequests, NEW g, NEW d,
         WalkInv(g, hops, req, d, {}), g.queue # <<>>
  PROVE  /\ \E e : WalkInv(Expand(g, hops, req), hops, req, e, {})
         /\ Lead(Expand(g, hops, req)) = Lead(g) + 1
<1> DEFINE cur == Head(g.queue)
           e == g.depth[cur]
           rest == [g EXCEPT !.queue = Tail(g.queue)]
           deep == [rest EXCEPT !.truncated = g.truncated \cup {"depth"}]
           n == Expand(g, hops, req)
           first == {h \in hops : h[1] = cur /\ h[3] = "dependency"}
           second == {h \in hops : h[1] = cur /\ h[3] = "referencer"}
           one == ProcessHop(rest, cur, first, req)
           two == ProcessHop(one, cur, second, req)
<1>1. g \in GraphRecord(hops) /\ IsInjective(g.queue)
  BY DEF WalkInv, FrontierInv
<1>2. g.queue \in Seq(Keys) /\ g.truncated \subseteq {"max_nodes", "depth"}
  BY <1>1, GraphFields
<1>3. Tail(g.queue) \in Seq(Keys) /\ Len(g.queue) \in Nat
  BY <1>2
<1>4. /\ rest \in GraphRecord(hops)
      /\ rest.depth = g.depth /\ rest.queue = Tail(g.queue) /\ rest.edges = g.edges
      /\ rest.truncated = g.truncated
  BY <1>1, <1>3 DEF GraphRecord
<1>5. /\ deep \in GraphRecord(hops)
      /\ deep.depth = g.depth /\ deep.queue = Tail(g.queue) /\ deep.edges = g.edges
      /\ deep.truncated = g.truncated \cup {"depth"}
  BY <1>1, <1>2, <1>4 DEF GraphRecord
<1>6. n = IF e >= req.max_depth THEN deep ELSE two
  BY DEF Expand
<1>7. Cardinality(DOMAIN g.depth) \in Nat
  BY <1>1, GraphFields
<1>8. e \in Nat /\ req.max_depth \in Nat
  <2>1. cur \in DOMAIN g.depth
    BY <1>1, <1>2, TailFresh DEF WalkInv, FrontierInv
  <2> QED BY <1>1, <2>1, GraphFields, RequestTypes
<1> HIDE DEF rest, deep, n, two, one
<1>9. ASSUME NEW r, r.depth = g.depth, Len(r.queue) = Len(g.queue) - 1
      PROVE  Lead(r) = Lead(g) + 1
  BY <1>3, <1>7, <1>9 DEF Lead
<1>10. CASE e >= req.max_depth
  <2>1. IsDequeued(deep, g, hops, req, {})
    <3>1. /\ "max_nodes" \in deep.truncated <=> "max_nodes" \in g.truncated
          /\ "depth" \in deep.truncated
      BY <1>5
    <3> QED BY <1>5, <1>10, <3>1 DEF IsDequeued
  <2>2. /\ WalkInv(deep, hops, req, e, {})
        /\ Len(deep.queue) = Len(g.queue) - 1
    BY <2>1, DequeueKeeps
  <2>3. Lead(deep) = Lead(g) + 1
    BY <1>5, <1>9, <2>2
  <2> QED BY <1>6, <1>10, <2>2, <2>3 DEF n
<1>11. CASE e < req.max_depth
  <2> DEFINE open == {h \in hops : h[1] = cur}
  <2>1. IsDequeued(rest, g, hops, req, open)
    BY <1>4, <1>11 DEF IsDequeued
  <2>2. /\ WalkInv(rest, hops, req, e, open)
        /\ cur \in Gone(rest)
        /\ Len(rest.queue) = Len(g.queue) - 1
    BY <2>1, DequeueKeeps
  <2>3. InHand(rest, hops, req, e, cur, {h \in hops : h[1] = cur})
    BY <1>4, <1>11, <2>2 DEF InHand
  <2>4. /\ first = {h \in hops : h[1] = cur /\ h[3] = "dependency"}
        /\ second = {h \in hops : h[1] = cur /\ h[3] = "referencer"}
        /\ one = ProcessHop(rest, cur, first, req)
        /\ two = ProcessHop(one, cur, second, req)
    BY DEF one, two
  <2> HIDE DEF open, first, second, e, cur
  <2>5. WalkInv(two, hops, req, e, {}) /\ Lead(two) = Lead(rest)
    <3>1. hops \in SUBSET AllHops /\ req \in GraphRequests
      OBVIOUS
    <3> QED BY ONLY <2>3, <2>4, <3>1, FollowKeeps
  <2>6. Lead(rest) = Lead(g) + 1
    BY <1>4, <1>9, <2>2
  <2>7. n = two
    BY <1>6, <1>8, <1>11
  <2> QED BY <2>5, <2>6, <2>7 DEF n
<1> QED BY <1>8, <1>10, <1>11

\* What the walk starts from.
StartOf(req) ==
  [depth |-> [k \in {req.root} |-> 0], queue |-> <<req.root>>, edges |-> {}, truncated |-> {}]

\* A round, idle when the frontier is empty.
WalkOn(g, hops, req) == IF g.queue = <<>> THEN g ELSE Expand(g, hops, req)

\* The graphs for which the invariant of the walk holds.
SoundGraphs(hops, req) == {g \in GraphRecord(hops) : \E d : WalkInv(g, hops, req, d, {})}

\* The invariant holds of the root alone.
LEMMA StartSound ==
  ASSUME NEW hops \in SUBSET AllHops, NEW req \in GraphRequests
  PROVE  StartOf(req) \in SoundGraphs(hops, req) /\ Lead(StartOf(req)) = 0
<1> DEFINE g == StartOf(req)
           root == req.root
           dep == [k \in {root} |-> 0]
<1>1. /\ root \in Keys /\ req.max_depth \in Nat /\ req.max_nodes \in Nat \ {0}
      /\ Within(hops, root, 0) = {root}
  BY RequestTypes, WithinUnfolds
<1>2. /\ DOMAIN dep = {root} /\ dep[root] = 0
      /\ dep \in UNION {[S -> Nat] : S \in SUBSET Keys}
  BY <1>1
<1>3. g.depth = dep /\ g.queue = <<root>> /\ g.edges = {} /\ g.truncated = {}
  BY DEF StartOf
<1>4. /\ <<root>> \in Seq(Keys) /\ Len(<<root>>) = 1
      /\ IsInjective(<<root>>) /\ Range(<<root>>) = {root}
  <2>1. DOMAIN <<root>> = 1 .. 1 /\ <<root>>[1] = root
    OBVIOUS
  <2>2. \A i \in 1 .. 1 : i = 1
    OBVIOUS
  <2>3. IsInjective(<<root>>)
    BY <2>1, <2>2 DEF IsInjective
  <2>4. Range(<<root>>) = {root}
    BY <2>1, <2>2 DEF Range
  <2> QED BY <1>1, <2>3, <2>4
<1>5. g \in GraphRecord(hops)
  BY <1>2, <1>4 DEF StartOf, GraphRecord
<1> HIDE DEF g, dep
<1>6. Gone(g) = {} /\ Range(g.queue) = {root} /\ DOMAIN g.depth = {root} /\ g.depth[root] = 0
  BY <1>2, <1>3, <1>4 DEF Gone
<1>7. FrontierInv(g, req, 0)
  <2>1. \A i, j \in 1 .. Len(g.queue) : i < j => g.depth[g.queue[i]] <= g.depth[g.queue[j]]
    BY <1>3, <1>4
  <2>2. \A k \in Range(g.queue) : 0 <= g.depth[k] /\ g.depth[k] <= 0 + 1
    BY <1>6
  <2> QED BY <1>1, <1>3, <1>4, <1>6, <2>1, <2>2 DEF FrontierInv
<1>8. DistanceInv(g, hops, req)
  <2>1. ~\E m \in Nat : m < 0
    OBVIOUS
  <2> QED BY <1>1, <1>6, <2>1 DEF DistanceInv, root
<1>9. FollowedInv(g, hops, req, 0, {})
  BY <1>3, <1>6 DEF FollowedInv
<1>10. CutInv(g, req)
  BY <1>3, <1>6 DEF CutInv
<1>11. g \in SoundGraphs(hops, req)
  <2>1. WalkInv(g, hops, req, 0, {})
    BY <1>5, <1>7, <1>8, <1>9, <1>10 DEF WalkInv
  <2> QED BY <1>5, <2>1 DEF SoundGraphs
<1>12. Lead(g) = 0
  <2>1. Cardinality({root}) = 1
    BY FS_Singleton
  <2> QED BY <1>3, <1>4, <1>6, <2>1 DEF Lead
<1> QED BY <1>11, <1>12 DEF g

\* A round of the walk keeps the invariant.
LEMMA WalkOnKeeps ==
  ASSUME NEW hops \in SUBSET AllHops, NEW req \in GraphRequests, NEW g \in SoundGraphs(hops, req)
  PROVE  /\ WalkOn(g, hops, req) \in SoundGraphs(hops, req)
         /\ g.queue # <<>> => Lead(WalkOn(g, hops, req)) = Lead(g) + 1
<1>1. CASE g.queue = <<>>
  BY <1>1 DEF WalkOn
<1>2. CASE g.queue # <<>>
  <2>1. PICK d : WalkInv(g, hops, req, d, {})
    BY DEF SoundGraphs
  <2>2. /\ \E e : WalkInv(Expand(g, hops, req), hops, req, e, {})
        /\ Lead(Expand(g, hops, req)) = Lead(g) + 1
    BY <1>2, <2>1, ExpandKeeps
  <2>3. Expand(g, hops, req) \in SoundGraphs(hops, req)
    BY <2>2 DEF SoundGraphs, WalkInv
  <2> QED BY <1>2, <2>2, <2>3 DEF WalkOn
<1> QED BY <1>1, <1>2

\* No more packages leave the frontier than there are.
LEMMA LeadBound ==
  ASSUME NEW hops \in SUBSET AllHops, NEW req \in GraphRequests, NEW g \in SoundGraphs(hops, req)
  PROVE  /\ Lead(g) <= Cardinality(Keys)
         /\ g.queue # <<>> => Lead(g) < Cardinality(Keys)
<1>1. g \in GraphRecord(hops)
  BY DEF SoundGraphs
<1>2. /\ DOMAIN g.depth \in SUBSET Keys /\ Cardinality(DOMAIN g.depth) \in Nat
      /\ g.queue \in Seq(Keys)
  BY <1>1, GraphFields
<1>3. Cardinality(DOMAIN g.depth) <= Cardinality(Keys) /\ Cardinality(Keys) \in Nat
  BY <1>2, ReadSizes, FS_Subset, FS_CardinalityType
<1>4. Len(g.queue) \in Nat /\ (g.queue # <<>> => Len(g.queue) > 0)
  BY <1>2
<1> QED BY <1>2, <1>3, <1>4 DEF Lead

\* f gives the graph after each round.
IsWalk(f, hops, req) ==
  f = [n \in 0 .. Cardinality(Keys) |->
         IF n = 0
         THEN [depth |-> [k \in {req.root} |-> 0], queue |-> <<req.root>>, edges |-> {}, truncated |-> {}]
         ELSE IF f[n - 1].queue = <<>> THEN f[n - 1] ELSE Expand(f[n - 1], hops, req)]

\* The graphs that the walk passes.
WalkOf(hops, req) == CHOOSE f : IsWalk(f, hops, req)

\* The recursion of DependencyGraph has a value, round by round.
LEMMA WalkUnfolds ==
  ASSUME NEW hops \in SUBSET AllHops, NEW req \in GraphRequests
  PROVE  /\ WalkOf(hops, req)[0] = StartOf(req)
         /\ \A n \in 1 .. Cardinality(Keys) :
              WalkOf(hops, req)[n] = WalkOn(WalkOf(hops, req)[n - 1], hops, req)
<1> DEFINE X == SoundGraphs(hops, req)
           N == Cardinality(Keys)
           start == StartOf(req)
           step == [k \in 1 .. N |-> [g \in X |-> WalkOn(g, hops, req)]]
<1>1. N \in Nat
  BY ReadSizes, FS_CardinalityType
<1>2. start \in X /\ \A g \in X : WalkOn(g, hops, req) \in X
  BY StartSound, WalkOnKeeps
<1> HIDE DEF X, start, N
<1>3. step \in [1 .. N -> [X -> X]]
  BY <1>2
<1>4. PICK f : Iterates(f, X, start, N, step)
  <2> HIDE DEF step
  <2> QED BY <1>1, <1>2, <1>3, Iterated
<1>5. f \in [0 .. N -> X] /\ f[0] = start /\ \A k \in 1 .. N : f[k] = WalkOn(f[k - 1], hops, req)
  <2>1. f \in [0 .. N -> X] /\ f[0] = start /\ \A k \in 1 .. N : f[k] = step[k][f[k - 1]]
    BY <1>4 DEF Iterates
  <2>2. ASSUME NEW k \in 1 .. N PROVE f[k] = WalkOn(f[k - 1], hops, req)
    <3>1. k - 1 \in 0 .. N
      BY <1>1
    <3>2. f[k - 1] \in X
      BY <2>1, <3>1
    <3> QED BY <2>1, <3>2
  <2> QED BY <2>1, <2>2
<1> HIDE DEF step
<1>6. IsWalk(f, hops, req)
  <2> DEFINE h == [n \in 0 .. N |-> IF n = 0 THEN start ELSE WalkOn(f[n - 1], hops, req)]
  <2>1. ASSUME NEW n \in 0 .. N PROVE f[n] = h[n]
    <3>1. CASE n = 0
      BY <1>5, <3>1
    <3>2. CASE n # 0
      <4>1. n \in 1 .. N
        BY <1>1, <3>2
      <4> QED BY <1>5, <3>2, <4>1
    <3> QED BY <3>1, <3>2
  <2>2. f = h
    BY <1>5, <2>1
  <2> QED BY <2>2 DEF IsWalk, WalkOn, StartOf, start, N
<1> DEFINE w == WalkOf(hops, req)
<1>7. w = [n \in 0 .. N |-> IF n = 0 THEN start ELSE WalkOn(w[n - 1], hops, req)]
  BY <1>6 DEF WalkOf, IsWalk, WalkOn, StartOf, start, N
<1> HIDE DEF w
<1>8. \A n \in 0 .. N : w[n] = IF n = 0 THEN start ELSE WalkOn(w[n - 1], hops, req)
  BY ONLY <1>7
<1>9. 0 \in 0 .. N /\ \A n \in 1 .. N : n \in 0 .. N /\ n # 0
  BY <1>1
<1>10. w[0] = start /\ \A n \in 1 .. N : w[n] = WalkOn(w[n - 1], hops, req)
  BY ONLY <1>8, <1>9
<1> QED BY <1>10 DEF w, start, N

\* When the walk ends, nothing is left of the frontier: each round that is not
\* idle takes one package off it.
LEMMA WalkEnds ==
  ASSUME NEW hops \in SUBSET AllHops, NEW req \in GraphRequests
  PROVE  /\ DependencyGraph(hops, req) \in SoundGraphs(hops, req)
         /\ DependencyGraph(hops, req).queue = <<>>
<1> DEFINE N == Cardinality(Keys)
           w == WalkOf(hops, req)
           X == SoundGraphs(hops, req)
           S == {n \in Nat : n <= N => w[n] \in X /\ (w[n].queue = <<>> \/ Lead(w[n]) = n)}
<1>1. N \in Nat
  BY ReadSizes, FS_CardinalityType
<1>2. w[0] = StartOf(req) /\ \A n \in 1 .. N : w[n] = WalkOn(w[n - 1], hops, req)
  BY WalkUnfolds
<1> HIDE DEF w, X, N
<1>3. 0 \in S
  BY <1>2, StartSound DEF X
<1>4. ASSUME NEW n \in Nat, n \in S PROVE n + 1 \in S
  <2> SUFFICES ASSUME n + 1 <= N
               PROVE  w[n + 1] \in X /\ (w[n + 1].queue = <<>> \/ Lead(w[n + 1]) = n + 1)
    OBVIOUS
  <2> DEFINE g == w[n]
             h == w[n + 1]
  <2>1. g \in X /\ (g.queue = <<>> \/ Lead(g) = n)
    BY <1>1, <1>4
  <2>2. h = WalkOn(g, hops, req)
    <3>1. n + 1 \in 1 .. N /\ n + 1 - 1 = n
      BY <1>1
    <3> QED BY <1>2, <3>1
  <2> HIDE DEF g, h
  <2>3. h \in X /\ (g.queue # <<>> => Lead(h) = Lead(g) + 1)
    BY <2>1, <2>2, WalkOnKeeps DEF X
  <2>4. g.queue = <<>> => h.queue = <<>>
    BY <2>2 DEF WalkOn
  <2>5. h \in X /\ (h.queue = <<>> \/ Lead(h) = n + 1)
    BY <2>1, <2>3, <2>4
  <2> QED BY <2>5 DEF h
<1> HIDE DEF S
<1>5. N \in S
  BY <1>1, <1>3, <1>4, SetInduction
<1>6. w[N] \in X /\ (w[N].queue = <<>> \/ Lead(w[N]) = N)
  BY <1>1, <1>5 DEF S
<1>7. w[N].queue = <<>>
  <2>1. w[N].queue # <<>> => Lead(w[N]) < N
    BY <1>6, LeadBound DEF X, N
  <2> QED BY <1>1, <1>6, <2>1
<1>8. DependencyGraph(hops, req) = w[N]
  BY DEF DependencyGraph, WalkOf, IsWalk, w, N
<1> QED BY <1>6, <1>7, <1>8 DEF X

\* What the reply says, of a graph whose frontier is empty.
SaysTrue(g, hops, req) ==
  /\ g.edges = {h \in hops : {h[1], h[2]} \subseteq DOMAIN g.depth /\ g.depth[h[1]] < req.max_depth}
  /\ \A k \in DOMAIN g.depth :
       /\ k \in Within(hops, req.root, g.depth[k])
       /\ g.depth[k] > 0 => k \notin Within(hops, req.root, g.depth[k] - 1)
  /\ "max_nodes" \notin g.truncated => DOMAIN g.depth = Within(hops, req.root, req.max_depth)
  /\ g.truncated = {} => \A h \in hops : h[1] \in DOMAIN g.depth => h[2] \in DOMAIN g.depth

\* The invariant says it of every graph whose frontier is empty.
LEMMA GraphAtEnd ==
  ASSUME NEW hops \in SUBSET AllHops, NEW req \in GraphRequests, NEW g \in SoundGraphs(hops, req), g.queue = <<>>
  PROVE  SaysTrue(g, hops, req)
<1> DEFINE D == DOMAIN g.depth
           w(n) == Within(hops, req.root, n)
           M == req.max_depth
<1>1. PICK d : WalkInv(g, hops, req, d, {})
  BY DEF SoundGraphs
<1>2. /\ \A k \in D : g.depth[k] \in Nat
      /\ D \subseteq Keys
  BY <1>1, GraphFields DEF WalkInv
<1>3. req.root \in Keys /\ M \in Nat
  BY RequestTypes
<1>4. Gone(g) = D
  <2>1. Range(g.queue) = {}
    BY DEF Range
  <2> QED BY <2>1 DEF Gone
<1>5. /\ req.root \in D
      /\ \A k \in D : /\ g.depth[k] <= M
                      /\ k \in w(g.depth[k])
                      /\ \A m \in Nat : m < g.depth[k] => k \notin w(m)
  BY <1>1 DEF WalkInv, DistanceInv
<1>6. /\ \A h \in hops : h[1] \in D /\ g.depth[h[1]] < M /\ "max_nodes" \notin g.truncated
                         => h[2] \in D /\ g.depth[h[2]] <= g.depth[h[1]] + 1
      /\ g.edges = {h \in hops : h[1] \in D /\ h[2] \in D /\ g.depth[h[1]] < M}
  BY <1>1, <1>4 DEF WalkInv, FollowedInv
<1>7. "depth" \notin g.truncated => \A k \in D : g.depth[k] < M
  BY <1>1, <1>4 DEF WalkInv, CutInv
<1> HIDE DEF D, w, M
<1>8. \A k \in D : g.depth[k] > 0 => k \notin w(g.depth[k] - 1)
  <2> SUFFICES ASSUME NEW k \in D, g.depth[k] > 0 PROVE k \notin w(g.depth[k] - 1)
    OBVIOUS
  <2>1. g.depth[k] - 1 \in Nat /\ g.depth[k] - 1 < g.depth[k]
    BY <1>2
  <2> QED BY <1>5, <2>1
<1>9. ASSUME "max_nodes" \notin g.truncated PROVE D = w(M)
  <2>1. ASSUME NEW k \in D PROVE k \in w(M)
    <3>1. k \in w(g.depth[k]) /\ g.depth[k] \in Nat /\ g.depth[k] <= M
      BY <1>2, <1>5
    <3>2. w(g.depth[k]) \subseteq w(M)
      BY <1>3, <3>1, WithinGrows DEF w
    <3> QED BY <3>1, <3>2
  <2> DEFINE S == {n \in Nat : n <= M => \A l \in w(n) : l \in D /\ g.depth[l] <= n}
  <2>2. 0 \in S
    <3>1. w(0) = {req.root}
      BY <1>3, WithinUnfolds DEF w
    <3>2. ~(0 < g.depth[req.root])
      <4>1. 0 < g.depth[req.root] => req.root \notin w(0)
        BY <1>5
      <4> QED BY <3>1, <4>1
    <3>3. g.depth[req.root] <= 0
      BY <1>2, <1>5, <3>2
    <3> QED BY <1>5, <3>1, <3>3
  <2>3. ASSUME NEW n \in Nat, n \in S PROVE n + 1 \in S
    <3> SUFFICES ASSUME n + 1 <= M, NEW l \in w(n + 1) PROVE l \in D /\ g.depth[l] <= n + 1
      OBVIOUS
    <3>1. n < M /\ \A q \in w(n) : q \in D /\ g.depth[q] <= n /\ g.depth[q] \in Nat
      BY <1>2, <1>3, <2>3
    <3>2. w(n + 1) = Wider(hops, w(n))
      BY <1>3, WithinUnfolds DEF w
    <3>3. CASE l \in w(n)
      BY <3>1, <3>3
    <3>4. ASSUME NEW h \in hops, h[1] \in w(n), h[2] = l PROVE l \in D /\ g.depth[l] <= n + 1
      <4>1. h[1] \in D /\ g.depth[h[1]] <= n /\ g.depth[h[1]] \in Nat /\ g.depth[h[1]] < M
        BY <1>3, <3>1, <3>4
      <4>2. h[2] \in D /\ g.depth[h[2]] <= g.depth[h[1]] + 1
        BY <1>6, <1>9, <4>1
      <4>3. g.depth[h[2]] \in Nat
        BY <1>2, <4>2
      <4> QED BY <3>4, <4>1, <4>2, <4>3
    <3> QED BY <3>2, <3>3, <3>4 DEF Wider
  <2> HIDE DEF S
  <2>4. M \in S
    BY <1>3, <2>2, <2>3, SetInduction
  <2>5. \A l \in w(M) : l \in D
    BY <1>3, <2>4 DEF S
  <2> QED BY <2>1, <2>5
<1>10. g.truncated = {} => \A h \in hops : h[1] \in D => h[2] \in D
  BY <1>6, <1>7
<1>11. g.edges = {h \in hops : {h[1], h[2]} \subseteq D /\ g.depth[h[1]] < M}
  BY <1>6
<1> QED BY <1>5, <1>8, <1>9, <1>10, <1>11 DEF SaysTrue, D, w, M

\* asset.dependency_graph tells the truth in every state.
LEMMA GraphTrue == GraphIsTrue
<1> SUFFICES ASSUME NEW req \in GraphRequests
             PROVE  SaysTrue(DependencyGraph(Hops(req), req), Hops(req), req)
  BY DEF GraphIsTrue, SaysTrue
<1>1. Hops(req) \in SUBSET AllHops
  BY RequestTypes
<1> QED BY <1>1, WalkEnds, GraphAtEnd

\* Whatever the bounds on depth and nodes, the direction, the filters and the
\* order in which the registry gives the links, the reply of
\* asset.dependency_graph says of its nodes, depths and edges only what is so,
\* and all of it that its flags claim.
THEOREM GraphsAreTrue == Spec => []GraphIsTrue
<1>1. GraphIsTrue
  BY GraphTrue
<1> QED
  BY <1>1, PTL
=============================================================================
