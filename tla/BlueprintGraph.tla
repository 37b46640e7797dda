---------------------------- MODULE BlueprintGraph ----------------------------
(* The construction script, the event graph and the state machine of one    *)
(* blueprint: the bp.* component and node tools and animbp.*.               *)
EXTENDS EditorSession, Trees

CONSTANTS
  BpParts,      \* variable names of component templates
  SceneParts,   \* those of a scene component class
  NoPart,       \* no parent: a root of the construction script
  GraphNodes,   \* guids of nodes
  AnimStates    \* names of animation states

VARIABLES
  scs,          \* component templates -> their parent
  nodeKind,     \* nodes of the graph -> their kind
  wires,        \* links of the graph: [pin, from, to]
  machine       \* states and transitions of the state machine

partVars == <<scs>>
wireVars == <<nodeKind, wires>>
animVars == <<machine>>

------------------------------------------------------------------------------
(* The construction script.  DefaultRoot is there from the start.           *)

DefaultRoot == CHOOSE p \in SceneParts : TRUE

PartsInit == scs = [p \in {DefaultRoot} |-> NoPart]

\* bp.add_component: a scene component hangs on the parent that is given, else
\* on the default root while there is one; the others are roots.
BpAddComponent ==
  \E p \in BpParts \ DOMAIN scs, given \in DOMAIN scs \cup {NoPart} :
    LET under == CASE p \notin SceneParts -> NoPart
                   [] given # NoPart -> given
                   [] OTHER -> IF DefaultRoot \in DOMAIN scs THEN DefaultRoot ELSE NoPart
    IN  /\ scs' = [q \in DOMAIN scs \cup {p} |-> IF q = p THEN under ELSE scs[q]]
        /\ Edit(Packages)

\* The children take the place of the removed component.
Promoted(p) == Prune(scs, {p}, scs[p])

\* bp.remove_component.
BpRemoveComponent ==
  \E p \in DOMAIN scs : scs' = Promoted(p) /\ Edit(Packages)

\* bp.set_component_default: a value of the template.
BpSetComponentDefault == DOMAIN scs # {} /\ UNCHANGED scs /\ Edit(Packages)

\* bp.list_components.
BpListComponents(recursive) ==
  IF recursive THEN {<<p, scs[p]>> : p \in DOMAIN scs} ELSE {p \in DOMAIN scs : scs[p] = NoPart}

PartsNext == BpAddComponent \/ BpRemoveComponent \/ BpSetComponentDefault

------------------------------------------------------------------------------
(* The graph.  Every node has an exec and a data pin on either side.        *)

NodeKinds == {"entry", "event", "call", "bound", "comment"}
Pins == {"exec", "data"}

GraphInit ==
  /\ nodeKind \in Start("graph", [{CHOOSE n \in GraphNodes : TRUE} -> {"entry", "event"}])
  /\ wires = {}

\* BPG_FinalizeNewNode, Graph->AddNode.
Placed(n, kind) ==
  /\ nodeKind' = [m \in DOMAIN nodeKind \cup {n} |-> IF m = n THEN kind ELSE nodeKind[m]]
  /\ UNCHANGED wires

PlaceNew(kind) == \E n \in GraphNodes \ DOMAIN nodeKind : Placed(n, kind) /\ Edit(Packages)

\* Refused after Modify has flagged the package: the graph is as it was.
RefusedLate == ScopeOpen /\ Flag({}, Packages) /\ UNCHANGED wireVars

\* bp.add_node: any class of nodes, a custom event too; a name that is too long
\* is refused when the node is made and not yet in the graph.
AddNode == PlaceNew("call") \/ PlaceNew("event") \/ RefusedLate

\* bp.add_cast_node, bp.add_struct_break_node, bp.add_struct_make_node and
\* bp.add_macro_node: nodes of their classes, after checks of the class.
AddCastNode == PlaceNew("call")
AddStructBreakNode == PlaceNew("call")
AddStructMakeNode == PlaceNew("call")
AddMacroNode == PlaceNew("call")

\* bp.add_input_action_event_node: a node class without the property is found
\* out late.
AddInputActionEventNode == PlaceNew("call") \/ RefusedLate

AddComment == PlaceNew("comment")

\* FKismetEditorUtilities::FindBoundEventForComponent.
Unbound == \A m \in DOMAIN nodeKind : nodeKind[m] # "bound"

\* bp.bind_component_event, for one component and delegate: bound once.
BindComponentEvent == Unbound /\ PlaceNew("bound")

\* Mutant: the pins are linked as they are.
ConnectedBeside(w) == wires \cup {w}

\* TryCreateConnection: an exec output leads to one node, a data input has one
\* source; the link that was there is broken.
Connected(w) ==
  {x \in wires : ~(x.pin = w.pin /\ IF w.pin = "exec" THEN x.from = w.from ELSE x.to = w.to)} \cup {w}

\* bp.connect_pins.  The schema refuses two pins of one node.  A connection
\* that it answers it can make may still fail, after Modify.
ConnectPins ==
  \E from, to \in DOMAIN nodeKind, pin \in Pins :
    /\ from # to
    /\ "comment" \notin {nodeKind[from], nodeKind[to]}
    /\ \/ /\ wires' = Connected([pin |-> pin, from |-> from, to |-> to])
          /\ UNCHANGED nodeKind
          /\ Edit(Packages)
       \/ RefusedLate

\* bp.disconnect_pin: all links of one pin; without links nothing is touched.
DisconnectPin ==
  \E n \in DOMAIN nodeKind, pin \in Pins, output \in BOOLEAN :
    LET broken == {x \in wires : x.pin = pin /\ n = (IF output THEN x.from ELSE x.to)}
    IN  /\ broken # {}
        /\ wires' = wires \ broken
        /\ UNCHANGED nodeKind
        /\ Edit(Packages)

\* bp.set_pin_default: refused while the pin is linked; an object that cannot
\* be loaded, or a value that the pin does not take, is refused after Modify.
SetPinDefault ==
  \E n \in DOMAIN nodeKind, taken \in BOOLEAN :
    /\ \A x \in wires : x.pin = "data" => x.to # n
    /\ UNCHANGED wireVars
    /\ ScopeOpen
    /\ Flag(IF taken THEN Packages ELSE {}, Packages)

\* bp.set_node_property and bp.move_node.
SetNodeProperty == DOMAIN nodeKind # {} /\ UNCHANGED wireVars /\ Edit(Packages)
MoveNode == SetNodeProperty

\* bp.delete_node refuses entries and events; a component's bound event is one.
Deletable(n) == nodeKind[n] \notin {"entry", "event", "bound"}

\* Graph->RemoveNode breaks the links of the node.
Without(n) ==
  /\ nodeKind' = [m \in DOMAIN nodeKind \ {n} |-> nodeKind[m]]
  /\ wires' = {x \in wires : n \notin {x.from, x.to}}
  /\ Edit(Packages)

DeleteNode == \E n \in DOMAIN nodeKind : Deletable(n) /\ Without(n)
DeleteComment == \E n \in DOMAIN nodeKind : nodeKind[n] = "comment" /\ Without(n)

\* bp.list_node_pins.
ListNodePins(n) == {x \in wires : n \in {x.from, x.to}}

GraphNext ==
  \/ AddNode \/ AddCastNode \/ AddStructBreakNode \/ AddStructMakeNode \/ AddMacroNode
  \/ AddInputActionEventNode \/ BindComponentEvent \/ AddComment
  \/ ConnectPins \/ DisconnectPin \/ SetPinDefault \/ SetNodeProperty \/ MoveNode
  \/ DeleteNode \/ DeleteComment

------------------------------------------------------------------------------
(* The state machine of an animation blueprint.                             *)

AnimInit == machine = [states |-> {}, transitions |-> {}]

\* animbp.add_state; the sequence is loaded before the state is made, and a
\* player that cannot be wired into it is only noticed.
AddState ==
  \E s \in AnimStates \ machine.states :
    /\ machine' = [machine EXCEPT !.states = @ \cup {s}]
    /\ Edit(Packages)

\* animbp.add_transition; a second one between the same states is not refused.
AddTransition ==
  \E from, to \in machine.states :
    /\ from # to
    /\ machine' = [machine EXCEPT !.transitions = @ \cup {<<from, to>>}]
    /\ Edit(Packages)

\* animbp.get_states; nothing connects the entry node to a state.
GetStates == [states |-> machine.states, entry |-> {}]

AnimNext == AddState \/ AddTransition

------------------------------------------------------------------------------
(* Properties.                                                              *)

\* In every order of placing, connecting and deleting, a wire joins two nodes
\* of the graph, an exec output leads to one node and a data input has one
\* source, a delegate is bound once, and the entry node is there.
GraphSound ==
  /\ \A x \in wires : {x.from, x.to} \subseteq DOMAIN nodeKind
  /\ \A x, y \in wires :
       x.pin = y.pin /\ (IF x.pin = "exec" THEN x.from = y.from ELSE x.to = y.to) => x = y
  /\ Cardinality({n \in DOMAIN nodeKind : nodeKind[n] = "bound"}) <= 1
  /\ \E n \in DOMAIN nodeKind : nodeKind[n] \in {"entry", "event"}
=============================================================================
