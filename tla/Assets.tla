------------------------------- MODULE Assets -------------------------------
(* The content browser: cb.*, asset.create*, asset.set_property, package.*,  *)
(* soft_ref.fix_redirectors, thumbnail.set_custom.  An asset is the contents *)
(* that a path holds in the editor; onFile are the paths whose package is on *)
(* disk, redirect those where a rename left a redirector.  What the editor's *)
(* own operations may refuse is a choice.                                    *)
EXTENDS EditorSession, FiniteSets, Sequences, SequencesExt, FiniteSetsExt

CONSTANTS
  AssetPaths,    \* records [folder, leaf]; the paths that an instance uses
  Contents,      \* what distinguishes two assets
  Nothing,       \* no contents
  SaveMax        \* max_packages of package.save_all

ASSUME PathsFinite == IsFiniteSet(AssetPaths)
ASSUME NothingIsNoContents == Nothing \notin Contents

VARIABLES
  held,          \* AssetPaths -> Contents \cup {Nothing}
  onFile,        \* SUBSET AssetPaths
  redirect,      \* SUBSET AssetPaths
  exported,      \* the file that cb.export is given exists
  assetJob       \* the job that waits for the ticker, or NoAssetJob

contentVars == <<held, onFile, redirect, exported, assetJob>>

NoAssetJob == [kind |-> "none", files |-> {}, folder |-> Nothing, replace |-> FALSE]

Used(h) == {p \in AssetPaths : h[p] # Nothing}

AssetInit ==
  /\ held \in Start("content", {h \in [AssetPaths -> Contents \cup {Nothing}] :
                                \A p, q \in Used(h) : p # q => h[p] # h[q]})
  /\ onFile = Used(held)
  /\ redirect = {}
  /\ exported = FALSE
  /\ assetJob = NoAssetJob

\* DoesAssetExist, the asset registry: it knows what is only in memory too.
DoesAssetExist(h, r, p) == h[p] # Nothing \/ p \in r

\* PathInUse of the creators: neither a file nor an object in memory.
Free(p) == p \notin onFile /\ ~DoesAssetExist(held, redirect, p)

------------------------------------------------------------------------------
(* Creating.                                                                *)

\* The new asset is dirty in memory; with save = true it is written at once,
\* when the engine lets it.
CreatedAt(p, c) ==
  /\ held' = [held EXCEPT ![p] = c]
  /\ \E saved \in BOOLEAN :
       IF saved
       THEN onFile' = onFile \cup {p} /\ Written({p})
       ELSE UNCHANGED onFile /\ Flag({p}, {p})
  /\ UNCHANGED <<redirect, exported, assetJob>>

\* asset.create: a factory for the class, or a bare object.
AssetCreate ==
  \E p \in AssetPaths, c \in Contents : ScopeOpen /\ Free(p) /\ CreatedAt(p, c)

\* asset.create_data_asset.
AssetCreateDataAsset == AssetCreate

\* cb.duplicate has no guard against a PIE session.
DuplicateAsset ==
  \E source, dest \in AssetPaths :
    /\ held[source] # Nothing
    /\ ~DoesAssetExist(held, redirect, dest)
    /\ held' = [held EXCEPT ![dest] = held[source]]
    /\ Flag({dest}, {dest})
    /\ UNCHANGED <<onFile, redirect, exported, assetJob>>

\* The asset that an import leaves at p, unsaved.
ImportAt(p, c, replace) ==
  /\ DoesAssetExist(held, redirect, p) => replace
  /\ held' = [held EXCEPT ![p] = c]
  /\ redirect' = redirect \ {p}
  /\ Flag({p}, {p})
  /\ UNCHANGED <<onFile, exported, assetJob>>

\* cb.import.
ImportAsset ==
  \E p \in AssetPaths, c \in Contents, replace \in BOOLEAN : ImportAt(p, c, replace)

\* cb.reimport: the source file that the asset names is changed before the
\* import is tried, and stays so when it fails.
Reimport ==
  \E p \in Used(held), c \in Contents :
    /\ ScopeOpen
    /\ held' = [held EXCEPT ![p] = c]
    /\ Flag({p}, {p})
    /\ UNCHANGED <<onFile, redirect, exported, assetJob>>

------------------------------------------------------------------------------
(* Moving and deleting.                                                     *)

\* The assets, files and redirectors after a rename; a redirector stays behind
\* if something refers to the old path.
Renamed(s, src, dest, referred) ==
  [h |-> [s.h EXCEPT ![dest] = s.h[src], ![src] = Nothing],
   r |-> IF src \in referred THEN s.r \cup {src} ELSE s.r,
   f |-> s.f \ {src},
   moved |-> s.moved \cup {dest}]

Holdings == [h |-> held, r |-> redirect, f |-> onFile, moved |-> {}]

Becomes(s) ==
  /\ held' = s.h
  /\ redirect' = s.r
  /\ onFile' = s.f
  /\ Flag(s.moved, s.moved)
  /\ UNCHANGED <<exported, assetJob>>

\* cb.rename.
RenameAsset ==
  \E src, dest \in AssetPaths, referred \in {{}, AssetPaths} :
    /\ DoesAssetExist(held, redirect, src)
    /\ held[src] # Nothing
    /\ ~DoesAssetExist(held, redirect, dest)
    /\ Becomes(Renamed(Holdings, src, dest, referred))

\* Mutant: whether the destination is taken is asked before anything moves.
MoveOneChecked(s, src, dest, referred) ==
  IF s.h[src] = Nothing \/ DoesAssetExist(held, redirect, dest)
  THEN s
  ELSE Renamed(s, src, dest, referred)

\* One source of cb.move; a source that is missing or a destination that is
\* taken by now is a failure of its own.
MoveOne(s, src, dest, referred) ==
  IF s.h[src] = Nothing \/ DoesAssetExist(s.h, s.r, dest)
  THEN s
  ELSE Renamed(s, src, dest, referred)

PathOf(folder, leaf) == CHOOSE p \in AssetPaths : p.folder = folder /\ p.leaf = leaf
FolderHas(folder, leaf) == \E p \in AssetPaths : p.folder = folder /\ p.leaf = leaf

\* cb.move: the sources one after another into a folder under their leaf names.
MoveAssets ==
  \E sources \in [1 .. 2 -> AssetPaths], folder \in {p.folder : p \in AssetPaths},
     referred \in {{}, AssetPaths} :
    LET after(s, src) == MoveOne(s, src, PathOf(folder, src.leaf), referred)
    IN  /\ \A i \in 1 .. 2 : FolderHas(folder, sources[i].leaf)
        /\ Becomes(after(after(Holdings, sources[1]), sources[2]))

\* cb.delete: an asset without a file is deleted by force; the editor may keep
\* an asset that is referred to, unless force is given.
DeleteAsset ==
  \E p \in AssetPaths, referred, force \in BOOLEAN :
    /\ p \in onFile => DoesAssetExist(held, redirect, p)
    /\ p \notin onFile => held[p] # Nothing
    /\ (force \/ p \notin onFile) \/ ~referred
    /\ held' = [held EXCEPT ![p] = Nothing]
    /\ redirect' = redirect \ {p}
    /\ onFile' = onFile \ {p}
    /\ Written({p})
    /\ UNCHANGED <<exported, assetJob>>

\* cb.fix_redirectors: those below a folder, refused as a whole when they are
\* too many; a redirector whose referencers cannot be written stays.
CbFixRedirectors ==
  \E folder \in {p.folder : p \in AssetPaths}, stuck \in SUBSET redirect :
    /\ redirect' = {p \in redirect : p.folder # folder} \cup stuck
    /\ UNCHANGED <<held, onFile, exported, assetJob>>
    /\ Look

\* soft_ref.fix_redirectors: the given ones or those of a folder, unless it
\* is a dry run.
SoftRefFixRedirectors ==
  \E given \in SUBSET redirect, stuck \in SUBSET redirect :
    /\ ScopeOpen
    /\ redirect' = (redirect \ given) \cup stuck
    /\ UNCHANGED <<held, onFile, exported, assetJob>>
    /\ Look

------------------------------------------------------------------------------
(* Editing, saving, exporting.                                              *)

\* asset.set_property: it flags the package only after the value is written.
AssetSetProperty ==
  \E p \in Used(held) : Edit({p}) /\ UNCHANGED contentVars

\* thumbnail.set_custom: the picture is part of the package.
ThumbnailSetCustom == AssetSetProperty

\* cb.save, which asks nothing of a PIE session; the engine does.
CbSave ==
  \E p \in Used(held) :
    /\ ScopeOpen
    /\ onFile' = onFile \cup {p}
    /\ Written({p})
    /\ UNCHANGED <<held, redirect, exported, assetJob>>

\* package.save.
PackageSave == CbSave

\* The first packages that are met, dirty or not.
SaveAllCandidates(onlyDirty) ==
  LET all == IF onlyDirty THEN dirty \cap Used(held) ELSE Used(held)
  IN  kSubset(Min({SaveMax, Cardinality(all)}), all)

\* Some fail, each for itself.
SavesSomeOf(packages) ==
  \E saved \in SUBSET packages :
    /\ onFile' = onFile \cup saved
    /\ Written(saved)

\* package.save_all.
PackageSaveAll ==
  \E onlyDirty \in BOOLEAN :
    \E packages \in SaveAllCandidates(onlyDirty) :
      /\ ScopeOpen
      /\ SavesSomeOf(packages)
      /\ UNCHANGED <<held, redirect, exported, assetJob>>

\* cb.export: once an exporter is found for the asset, the old file is deleted
\* before the exporter runs, which may fail.
ExportAsset ==
  /\ Used(held) # {}
  /\ exported' \in BOOLEAN
  /\ UNCHANGED <<held, onFile, redirect, assetJob>>
  /\ Look

------------------------------------------------------------------------------
(* Jobs, whose bodies run later on the game thread.                         *)

\* cb.save_all_dirty and cb.bulk_import are submitted; the files, a set of
\* [leaf, contents], are checked for their directory only.
SubmitAssetJob ==
  /\ assetJob = NoAssetJob
  /\ \/ assetJob' = [NoAssetJob EXCEPT !.kind = "save"]
     \/ \E files \in (SUBSET [leaf : {p.leaf : p \in AssetPaths}, contents : Contents]) \ {{}},
           folder \in {p.folder : p \in AssetPaths}, replace \in BOOLEAN :
          /\ Cardinality(files) <= 2
          /\ \A f \in files : FolderHas(folder, f.leaf)
          /\ assetJob' = [kind |-> "import", files |-> files, folder |-> folder, replace |-> replace]
  /\ UNCHANGED <<held, onFile, redirect, exported>>
  /\ Look

JobEnds == assetJob' = NoAssetJob

\* cb.save_all_dirty: package after package, until a cancellation.
SaveAllDirtyRuns ==
  /\ assetJob.kind = "save"
  /\ SavesSomeOf(IF pie THEN {} ELSE dirty \cap Used(held))
  /\ JobEnds
  /\ UNCHANGED <<held, redirect, exported>>

\* The contents that the files of the job may leave at p, when the engine
\* takes `read` of them: of two with the same base name the later one.
ImportedAt(p, read) ==
  {f.contents : f \in {g \in read : p.folder = assetJob.folder /\ p.leaf = g.leaf}}

Imports(read) ==
  {p \in AssetPaths : /\ ImportedAt(p, read) # {}
                      /\ DoesAssetExist(held, redirect, p) => assetJob.replace}

\* A cancelled job has handed nothing to the importer yet: the tasks are built
\* first and given to it together.
ImportsOf(read, cancelled) == IF cancelled THEN {} ELSE Imports(read)

\* cb.bulk_import: a file that is gone, or that the importer refuses, fails alone.
BulkImportAs(cancelled) ==
  \E read \in SUBSET assetJob.files :
    LET done == ImportsOf(read, cancelled)
    IN  /\ assetJob.kind = "import"
        /\ held' \in {h \in [AssetPaths -> Contents \cup {Nothing}] :
                        \A p \in AssetPaths : IF p \in done THEN h[p] \in ImportedAt(p, read)
                                              ELSE h[p] = held[p]}
        /\ redirect' = redirect \ done
        /\ Flag(done, done)
        /\ JobEnds
        /\ UNCHANGED <<onFile, exported>>

BulkImport == \E cancelled \in BOOLEAN : BulkImportAs(cancelled)

------------------------------------------------------------------------------
(* Replies that other requests of a client rest on.                         *)

AssetExists(p) == DoesAssetExist(held, redirect, p)
AssetIsDirty(p) == p \in dirty
ListDirty == dirty

\* data_validation.validate_path and its counts: the first `max` assets of a
\* folder, whose order is that of their paths; `verdict` is the validators'.
ValidatePath(folder, max, verdict) ==
  LET all  == {p \in Used(held) : p.folder = folder}
      seen == CHOOSE s \in kSubset(Min({max, Cardinality(all)}), all) : TRUE
  IN  [valid |-> Cardinality({p \in seen : verdict[p] = "valid"}),
       invalid |-> Cardinality({p \in seen : verdict[p] = "invalid"}),
       notValidated |-> Cardinality({p \in seen : verdict[p] = "none"}),
       truncated |-> Cardinality(all) > max]

\* thumbnail.batch_generate: one file for a leaf name, so of two assets of one
\* name the later one's picture is kept, as its comment says.
BatchGenerate(assets, failing) == {p.leaf : p \in assets \ failing}

AssetNext ==
  \/ AssetCreate \/ AssetCreateDataAsset \/ DuplicateAsset \/ ImportAsset \/ Reimport
  \/ RenameAsset \/ MoveAssets \/ DeleteAsset \/ CbFixRedirectors \/ SoftRefFixRedirectors
  \/ AssetSetProperty \/ ThumbnailSetCustom \/ CbSave \/ PackageSave \/ PackageSaveAll
  \/ ExportAsset \/ SubmitAssetJob \/ SaveAllDirtyRuns \/ BulkImport

------------------------------------------------------------------------------
(* Properties.                                                              *)

Copies(h, c) == Cardinality({p \in AssetPaths : h[p] = c})

\* The requests that ask for an asset to go: a deletion, an import that may
\* replace, a reimport.
AsksToLose ==
  \/ DeleteAsset
  \/ Reimport
  \/ \E p \in AssetPaths, c \in Contents : ImportAt(p, c, TRUE)
  \/ assetJob.replace /\ BulkImportAs(FALSE)

\* No asset is lost but by a request that asks for it: creating, duplicating,
\* renaming, moving several assets of one name and a cancelled import leave
\* every asset somewhere.
NothingOverwritten ==
  [][(\E c \in Contents : Copies(held', c) < Copies(held, c)) => AsksToLose]_contentVars
=============================================================================
