--------------------------- MODULE ActorComponents ---------------------------
(* The components of one actor: the component.* tools.  The scene           *)
(* components hang on one another; the others only belong to the actor.     *)
EXTENDS EditorSession, Trees

CONSTANTS
  Components,       \* names of components
  SceneComponents,  \* those whose class is a scene component
  NoComponent       \* no attach parent, no root

ASSUME NoComponentIsNone == NoComponent \notin Components

VARIABLES
  parts,       \* the actor's components -> their attach parent
  root,        \* the root component
  shown        \* the actor's level is visible

componentVars == <<parts, root, shown>>

scene == DOMAIN parts \cap SceneComponents

ComponentInit ==
  /\ parts = << >>
  /\ root = NoComponent
  /\ shown = TRUE

\* CMP_ResolveComponentOrError, for the handlers that change something.
EditableComponent(c) == shown /\ c \in DOMAIN parts

\* Mutant: what is given no parent is attached to nothing.
ParentForUnattached(attachTo) == attachTo

\* The parent of a new scene component: attach_to, else the root; the first
\* scene component of an actor becomes its root.
ParentFor(attachTo) == IF attachTo # NoComponent THEN attachTo ELSE root

\* component.add: attach_to is for scene components and names one of the actor.
ComponentAdd ==
  \E c \in Components \ DOMAIN parts, attachTo \in {NoComponent} \cup scene :
    /\ shown
    /\ attachTo # NoComponent => c \in SceneComponents
    /\ parts' = [d \in DOMAIN parts \cup {c} |->
                   IF d # c THEN parts[d]
                   ELSE IF c \in SceneComponents THEN ParentFor(attachTo) ELSE NoComponent]
    /\ root' = IF c \in SceneComponents /\ root = NoComponent THEN c ELSE root
    /\ Edit(Packages)

Removable(c) == EditableComponent(c) /\ c # root

\* component.remove: the root is refused; children are not promoted to the
\* parent, the engine detaches them.
ComponentRemove ==
  \E c \in Components :
    /\ Removable(c)
    /\ parts' = Prune(parts, {c}, NoComponent)
    /\ UNCHANGED root
    /\ Edit(Packages)

\* CMP_ParentWouldCycle.
ParentWouldCycle(parent, child) == parent = child \/ child \in Above(parts, parent)

\* component.move_in_hierarchy.
MoveInHierarchy ==
  \E child, parent \in scene :
    /\ EditableComponent(child)
    /\ child # root
    /\ ~ParentWouldCycle(parent, child)
    /\ parts' = [parts EXCEPT ![child] = parent]
    /\ UNCHANGED root
    /\ Edit(Packages)

\* component.set_property, a value: the tree stays.  The flags that make a
\* property read-only are skipped with bypass_readonly.
ComponentSetProperty ==
  \E c \in Components :
    /\ EditableComponent(c)
    /\ UNCHANGED <<parts, root>>
    /\ Edit(Packages)

\* component.set_transform: a request without any field is refused after
\* Modify has flagged the package.
ComponentSetTransform ==
  \E c \in SceneComponents, fields \in SUBSET {"location", "rotation", "scale"} :
    /\ EditableComponent(c)
    /\ UNCHANGED <<parts, root>>
    /\ ScopeOpen
    /\ Flag(IF fields = {} THEN {} ELSE Packages, Packages)

\* component.get, in a PIE world too.
ComponentSnapshot(c) ==
  [is_scene |-> c \in SceneComponents, is_root |-> c = root, parent |-> parts[c]]

ComponentNext ==
  \/ /\ \/ ComponentAdd \/ ComponentRemove \/ MoveInHierarchy
        \/ ComponentSetProperty \/ ComponentSetTransform
     /\ UNCHANGED shown
  \/ /\ shown' = ~shown
     /\ UNCHANGED <<session, parts, root>>

------------------------------------------------------------------------------
(* Properties.                                                              *)

\* Scene components that moving the actor does not move.
Loose == {c \in scene : c # root /\ root \notin Above(parts, c)}

\* A scene component comes loose from the actor's root only when a component
\* that it hung on, directly or not, is removed, since component.remove does not
\* promote children, or when it is hung below one that is loose already.  No
\* other order of add, move and remove does it, and the root stays.
OnlyRemovalCutsOff ==
  [][/\ \A c \in Loose' \ Loose :
          \/ c \in DOMAIN parts /\ Above(parts, c) \cap (DOMAIN parts \ DOMAIN parts') # {}
          \/ Above(parts', c) \cap Loose # {}
     /\ root # NoComponent => root' = root /\ root \in DOMAIN parts']_componentVars
=============================================================================
