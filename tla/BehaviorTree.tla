---------------------------- MODULE BehaviorTree -----------------------------
(* The nodes of one behavior tree asset: ai.bt.*.  A request names a node by *)
(* its way from the root, "Root/Children[0]/Children[2]", and a decorator or *)
(* a service by a last segment behind it; a way is the sequence of its child *)
(* indexes here, counted from 1.                                             *)
EXTENDS EditorSession, Integers, Sequences, FiniteSets, SequencesExt

CONSTANTS
  Composites,    \* nodes that have children and services
  Tasks,         \* nodes that have none
  Decorators,
  NoNode,
  KidsMax,       \* bound: children of a composite
  TreeDepth,     \* bound: length of a way
  ServicesMax    \* bound: services of a composite

VARIABLES
  rootNode,          \* BT->RootNode, NoNode without one
  kids,          \* composite -> its children
  decorators,    \* node -> the decorators of its child slot
  rootDecorators,
  services       \* composite -> the number of its services

treeVars == <<rootNode, kids, decorators, rootDecorators, services>>

Nodes == Composites \cup Tasks

ASSUME TreeNodes == NoNode \notin Nodes

Ways  == UNION {[1 .. n -> 1 .. KidsMax] : n \in 0 .. TreeDepth}

TreeInit ==
  /\ rootNode \in Start("tree", Composites \cup {NoNode})
  /\ kids = [c \in Composites |-> <<>>]
  /\ decorators = [n \in Nodes |-> <<>>]
  /\ rootDecorators = <<>>
  /\ services = [c \in Composites |-> 0]

------------------------------------------------------------------------------
(* AIBT_ResolvePath.                                                         *)

\* The i-th child of n, NoNode if the slot is not there.
Child(n, i) == IF n \in Composites /\ i \in DOMAIN kids[n] THEN kids[n][i] ELSE NoNode

\* The node that a way leads to.
At(way) ==
  LET down[k \in 0 .. Len(way)] == IF k = 0 THEN rootNode ELSE Child(down[k - 1], way[k])
  IN  down[Len(way)]

\* The node in whose slot ".../Decorators[i]" looks: behind the last
\* Children[k] the parent of the walk is that child already, and the index is
\* still k, so the slot is the child's own k-th.
SlotBehind(way) == Child(At(way), Last(way))

Used == {n \in Nodes : \E way \in Ways : At(way) = n}
UsedDecorators ==
  ToSet(rootDecorators) \cup UNION {ToSet(decorators[n]) : n \in Used}

------------------------------------------------------------------------------
(* The handlers.                                                             *)

\* ai.bt.create_asset gives a root if a class for it is resolved: TreeInit.

\* Mutant: a new child becomes the first.
GrownFirst(parent, n) == [kids EXCEPT ![parent] = <<n>> \o @]

Grown(parent, n) == [kids EXCEPT ![parent] = Append(@, n)]

\* ai.bt.add_node: the root, which has to be a composite, or the last child of
\* a composite.  The decorators of the root slot are the asset's and stay.
AddNode ==
  \E n \in Nodes \ Used :
    /\ \/ /\ rootNode = NoNode /\ n \in Composites
          /\ rootNode' = n
          /\ UNCHANGED kids
       \/ \E way \in Ways :
            /\ Len(way) < TreeDepth
            /\ At(way) \in Composites
            /\ Len(kids[At(way)]) < KidsMax
            /\ kids' = Grown(At(way), n)
            /\ UNCHANGED rootNode
    /\ Edit(Packages)
    /\ UNCHANGED <<decorators, rootDecorators, services>>

\* A task as the root, and a parent that is not there or no composite, are
\* refused after Modify.
AddNodeRefused ==
  /\ ScopeOpen
  /\ Flag({}, Packages)
  /\ UNCHANGED treeVars

\* ai.bt.add_decorator: on the root slot, which takes it without a root too, or
\* on the slot of a child.
AddDecorator ==
  \E d \in Decorators \ UsedDecorators, way \in Ways :
    /\ \/ /\ way = <<>>
          /\ rootDecorators' = Append(rootDecorators, d)
          /\ UNCHANGED decorators
       \/ /\ way # <<>>
          /\ At(way) # NoNode
          /\ decorators' = [decorators EXCEPT ![At(way)] = Append(@, d)]
          /\ UNCHANGED rootDecorators
    /\ Edit(Packages)
    /\ UNCHANGED <<rootNode, kids, services>>

\* ai.bt.add_service.
AddService ==
  \E way \in Ways :
    /\ At(way) \in Composites
    /\ services[At(way)] < ServicesMax
    /\ services' = [services EXCEPT ![At(way)] = @ + 1]
    /\ Edit(Packages)
    /\ UNCHANGED <<rootNode, kids, decorators, rootDecorators>>

\* What hangs below n, with it.
Subtree(n) ==
  LET down[k \in 0 .. TreeDepth] ==
        IF k = 0 THEN {n}
        ELSE down[k - 1] \cup UNION {ToSet(kids[c]) : c \in Composites \cap down[k - 1]}
  IN  down[TreeDepth]

\* A subtree leaves the tree with all that its nodes carry; `left` are the
\* children that each composite has without it.
Dropped(n, left) ==
  /\ kids' = [c \in Composites |-> IF c \in Subtree(n) THEN <<>> ELSE left[c]]
  /\ decorators' = [m \in Nodes |-> IF m \in Subtree(n) THEN <<>> ELSE decorators[m]]
  /\ services' = [c \in Composites |-> IF c \in Subtree(n) THEN 0 ELSE services[c]]

RemoveRoot ==
  /\ rootNode # NoNode
  /\ rootNode' = NoNode
  /\ Dropped(rootNode, kids)
  /\ UNCHANGED rootDecorators

RemoveChild ==
  \E parent \in Ways, i \in 1 .. KidsMax :
    /\ Len(parent) < TreeDepth
    /\ Child(At(parent), i) # NoNode
    /\ Dropped(Child(At(parent), i), [kids EXCEPT ![At(parent)] = RemoveAt(@, i)])
    /\ UNCHANGED <<rootNode, rootDecorators>>

\* A way to a task fails the check that there is a parent, which ends the
\* editor.
RemoveDecorator ==
  /\ \/ \E i \in DOMAIN rootDecorators :
          rootDecorators' = RemoveAt(rootDecorators, i) /\ UNCHANGED decorators
     \/ \E way \in Ways :
          /\ way # <<>>
          /\ SlotBehind(way) # NoNode
          /\ \E i \in DOMAIN decorators[SlotBehind(way)] :
               decorators' = [decorators EXCEPT ![SlotBehind(way)] = RemoveAt(@, i)]
          /\ UNCHANGED rootDecorators
  /\ UNCHANGED <<rootNode, kids, services>>

RemoveService ==
  \E way \in Ways :
    /\ At(way) \in Composites
    /\ services[At(way)] > 0
    /\ services' = [services EXCEPT ![At(way)] = @ - 1]
    /\ UNCHANGED <<rootNode, kids, decorators, rootDecorators>>

\* ai.bt.remove_node.
RemoveNode ==
  /\ RemoveRoot \/ RemoveChild \/ RemoveDecorator \/ RemoveService
  /\ Edit(Packages)

\* ai.bt.set_node_property; a value of the wrong type is refused after Modify.
SetNodeProperty ==
  \E way \in Ways, fits \in BOOLEAN :
    /\ ScopeOpen
    /\ At(way) # NoNode
    /\ Flag(IF fits THEN Packages ELSE {}, Packages)
    /\ UNCHANGED treeVars

\* ai.bt.get_nodes: the tree down to kAIBTMaxRecursionDepth.
GetNodes(depth) == {<<way, At(way)>> : way \in {w \in Ways : Len(w) <= depth /\ At(w) # NoNode}}

TreeNext ==
  \/ AddNode \/ AddNodeRefused \/ AddDecorator \/ AddService
  \/ RemoveNode \/ SetNodeProperty

------------------------------------------------------------------------------
(* Properties.                                                              *)

\* A way that a reply gave keeps leading to the same node until the request
\* that takes nodes away, so a client may build a tree from the node paths of
\* the replies.
WaysLast ==
  [][RemoveNode \/ \A way \in Ways : At(way) # NoNode => At(way)' = At(way)]_treeVars
=============================================================================
