---------------------------- MODULE EditorSession ----------------------------
(* What the tools of every surface share: whether a Play-In-Editor world    *)
(* runs, and which packages the editor would save.  A handler runs on the   *)
(* game thread from its first line to its reply, so it is one action; its   *)
(* guard is what the handler demands of its arguments and of the editor.  A *)
(* request that it refuses before it has changed anything is a stuttering   *)
(* step and has no action; a refusal after a change has one.                *)
(*                                                                          *)
(* The surfaces share no other state, so a behaviour works with one of them *)
(* (focus) and the instances of the surfaces add up instead of multiplying. *)
CONSTANTS
  Surfaces,    \* the surfaces of the instance
  Packages     \* the packages that a surface edits

VARIABLES
  focus,       \* the surface this session works with
  pie,         \* GEditor->PlayWorld is set
  dirty,       \* packages flagged dirty
  unsaved      \* packages whose objects differ from their files

session == <<focus, pie, dirty, unsaved>>

SessionInit ==
  /\ focus \in Surfaces
  /\ pie = FALSE
  /\ dirty = {}
  /\ unsaved = {}

\* The initial values of a surface's variable, or one for every behaviour that
\* does not work with it.
Start(surface, values) == IF focus = surface THEN values ELSE {CHOOSE v \in values : TRUE}

\* FMCPMutatorScope: the constructor refuses while a PIE world runs.
ScopeOpen == ~pie

\* The objects of `changed` are edited; `flagged` are the packages that the
\* handler marks dirty, by Modify or by DirtyPackage, which the destructor of
\* a scope that was not aborted carries out.
Flag(changed, flagged) ==
  /\ dirty' = dirty \cup flagged
  /\ unsaved' = unsaved \cup changed
  /\ UNCHANGED <<focus, pie>>

\* A mutator in its scope, which edits what it flags.
Edit(packages) == ScopeOpen /\ Flag(packages, packages)

\* A handler that only reads, or whose effect no package stores.
Look == UNCHANGED session

\* The packages are written, whatever their flag says.
Written(packages) ==
  /\ dirty' = dirty \ packages
  /\ unsaved' = unsaved \ packages
  /\ UNCHANGED <<focus, pie>>

\* The user saves everything that is dirty; the editor saves nothing in PIE.
SaveAll == ~pie /\ dirty # {} /\ Written(dirty)

\* The user, or a pie.* tool, starts and ends a session.
PlayWorldChanges ==
  /\ pie' = ~pie
  /\ UNCHANGED <<focus, dirty, unsaved>>
=============================================================================
