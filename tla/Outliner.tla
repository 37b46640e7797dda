------------------------------ MODULE Outliner ------------------------------
(* What the outliner shows of the actors: their folders and tags, the       *)
(* folder registry, the selection, and the paged searches over them.        *)
(* actor.spawn is here with the refusals that come after the actor exists.  *)
EXTENDS EditorSession, Integers, SequencesExt

CONSTANTS
  Paths,       \* actor paths, numbers in their alphabetical order
  Folders,     \* folder paths: sequences of names, closed under their fronts
  ActorPage    \* page_size

ASSUME PathsAreNumbers == Paths \subseteq Nat /\ IsFiniteSet(Paths)
ASSUME FoldersAreNames == Folders \subseteq Seq(STRING)
ASSUME ActorPageAssumption == ActorPage \in Nat \ {0}

VARIABLES
  acts,        \* live actors -> [folder, tagged]
  folders,     \* registered folders
  selected,    \* selected actors
  search       \* a client's walk through the pages of actor.find_by_*

outlinerVars == <<acts, folders, selected, search>>

NoFolder == <<>>
NoSearch == [at |-> "idle", tag |-> FALSE, last |-> 0, steady |-> {}, seen |-> <<>>]

OutlinerInit ==
  /\ acts = << >>
  /\ folders = {}
  /\ selected = {}
  /\ search = NoSearch

\* The engine registers a folder with the folders above it.
WithFronts(f) == {g \in Folders : IsPrefix(g, f)} \ {NoFolder}

------------------------------------------------------------------------------
(* actor.*                                                                  *)

\* What actor.spawn has made of the actor when it replies: the folder and each
\* tag are checked for their length when their turn comes, after SpawnActor,
\* and the first that is too long ends the handler there.
Spawned == {[folder |-> f, tagged |-> t] : f \in Folders, t \in BOOLEAN}

SpawnActor ==
  \E a \in Paths \ DOMAIN acts : \E n \in Spawned :
    /\ acts' = [b \in DOMAIN acts \cup {a} |-> IF b = a THEN n ELSE acts[b]]
    /\ folders' = folders \cup WithFronts(n.folder)
    /\ UNCHANGED selected
    /\ Edit(Packages)

DestroyActor ==
  \E a \in DOMAIN acts :
    /\ acts' = [b \in DOMAIN acts \ {a} |-> acts[b]]
    /\ selected' = selected \ {a}
    /\ UNCHANGED folders
    /\ Edit(Packages)

\* actor.set_folder; the engine records the actor in the transaction.
SetFolder ==
  \E a \in DOMAIN acts, f \in Folders :
    /\ acts' = [acts EXCEPT ![a].folder = f]
    /\ folders' = folders \cup WithFronts(f)
    /\ UNCHANGED selected
    /\ Edit(Packages)

\* actor.select_in_editor: allowed while a PIE world runs; what does not
\* resolve is reported as missing.
SelectInEditor ==
  \E named \in SUBSET Paths, additive \in BOOLEAN :
    /\ selected' = (named \cap DOMAIN acts) \cup (IF additive THEN selected ELSE {})
    /\ UNCHANGED <<acts, folders>>
    /\ Look

------------------------------------------------------------------------------
(* folder.*                                                                 *)

\* folder.list: a folder with the number of folders anywhere below it.
ListFolders ==
  {[path |-> f, child_count |-> Cardinality({g \in folders : IsStrictPrefix(f, g)})] : f \in folders}

CreateFolder ==
  \E f \in Folders \ {NoFolder} :
    /\ folders' = folders \cup WithFronts(f)
    /\ UNCHANGED <<acts, selected>>
    /\ Edit(Packages)

\* Where folder.delete puts an actor: the deleted folder's name goes from the
\* path, what is below it keeps its tail.
Lifted(f, folder) ==
  IF IsPrefix(f, folder) THEN Front(f) \o SubSeq(folder, Len(f) + 1, Len(folder)) ELSE folder

FoldersAfter(f, moving) ==
  (folders \ {f}) \cup
    (IF moving THEN UNION {WithFronts(Lifted(f, acts[a].folder)) : a \in DOMAIN acts} ELSE {})

\* folder.delete; without move_children_to_parent the actors keep their path.
DeleteFolderAt(f, moving) ==
  /\ acts' = IF moving THEN [a \in DOMAIN acts |-> [acts[a] EXCEPT !.folder = Lifted(f, @)]] ELSE acts
  /\ folders' = FoldersAfter(f, moving)
  /\ UNCHANGED selected
  /\ Edit(Packages)

DeleteFolder == \E f \in folders, moving \in BOOLEAN : DeleteFolderAt(f, moving)

\* folder.set_actor: as actor.set_folder, but the level may be hidden and an
\* empty path clears the folder.
FolderSetActor == SetFolder

------------------------------------------------------------------------------
(* actor.find_by_class, actor.find_by_label, actor.find_by_tag: the matches  *)
(* in the order of their paths, cut after the last path of the page before. *)
(* Class and label search as find_by_tag does, with another predicate.      *)

\* tag = FALSE: a class or a label that every actor has.
FindMatches(tag) == {a \in DOMAIN acts : tag => acts[a].tagged}

\* Mutant: the page begins with the last actor of the page before.
PastLastIncl(found, last) == {a \in found : a >= last}

PastLast(found, last) == {a \in found : a > last}

InPathOrder(found) ==
  CHOOSE s \in [1 .. Cardinality(found) -> found] : \A i, k \in DOMAIN s : i < k => s[i] < s[k]

SliceActorPage(rest) ==
  SubSeq(InPathOrder(rest), 1, IF Cardinality(rest) < ActorPage THEN Cardinality(rest) ELSE ActorPage)

\* The next sentinel is given only if something follows the page.
Answered(w, rest) ==
  [w EXCEPT !.seen = @ \o SliceActorPage(rest),
            !.at = IF Cardinality(rest) > ActorPage THEN "paging" ELSE "done",
            !.last = IF rest = {} THEN @ ELSE Last(SliceActorPage(rest))]

FindFirst ==
  /\ search.at # "paging"
  /\ \E tag \in BOOLEAN :
       search' = Answered([NoSearch EXCEPT !.tag = tag, !.steady = FindMatches(tag)], FindMatches(tag))

\* The cursor carries a hash of the filter; another filter is refused.
FindNext ==
  /\ search.at = "paging"
  /\ \E tag \in BOOLEAN :
       search' = IF tag = search.tag
                 THEN Answered(search, PastLast(FindMatches(tag), search.last))
                 ELSE [NoSearch EXCEPT !.at = "stale"]

Find == (FindFirst \/ FindNext) /\ UNCHANGED <<acts, folders, selected>> /\ Look

\* Actors that go, or lose the tag, between two pages are no longer owed; a walk
\* that has ended is forgotten.
Steady ==
  search' = IF search.at # "paging" THEN NoSearch
            ELSE [search EXCEPT !.steady = @ \cap {a \in DOMAIN acts' : search.tag => acts'[a].tagged}]

Manage ==
  /\ \/ SpawnActor \/ DestroyActor \/ SetFolder \/ FolderSetActor
     \/ SelectInEditor \/ CreateFolder \/ DeleteFolder
  /\ Steady

OutlinerNext == Manage \/ Find

------------------------------------------------------------------------------
(* Properties.                                                              *)

\* Following the page tokens of a search to the end shows no actor twice and,
\* of the actors that matched all the while, every one, although actors are
\* spawned and destroyed between the pages.
SearchComplete ==
  search.at = "done" =>
    /\ search.steady \subseteq ToSet(search.seen)
    /\ \A i, j \in DOMAIN search.seen : i # j => search.seen[i] # search.seen[j]

\* folder.delete with move_children_to_parent leaves no actor in the folder or
\* below it, however deep it was nested, but one that was in a subfolder of the
\* folder's own name, which moves up into its place.
DeletedFolderIsEmpty ==
  \A f \in folders : DeleteFolderAt(f, TRUE) =>
    \A a \in DOMAIN acts :
      IsPrefix(f, acts'[a].folder) => IsPrefix(Append(f, Last(f)), acts[a].folder)

\* The outliner loses no actor: not between the pages of a search, and not in a
\* folder that is deleted.
OutlinerKeepsActors == [][SearchComplete' /\ DeletedFolderIsEmpty]_outlinerVars
=============================================================================
