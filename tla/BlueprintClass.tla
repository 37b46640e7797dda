---------------------------- MODULE BlueprintClass ----------------------------
(* The members of one blueprint: its variables with their replication, its  *)
(* functions with their terminator nodes, its interfaces, its parent class  *)
(* and whether the compiled class is up to date.  Types, defaults,          *)
(* categories and the other flags of a variable are left out: a handler     *)
(* that only writes those is an edit that keeps this state.                 *)
EXTENDS EditorSession

CONSTANTS
  BpVars,        \* names of member variables
  BpFuncs,       \* names of functions, which a variable names as its notify
  BpParams,      \* names of parameters
  BpInterfaces,  \* interface classes
  BpParents,     \* parent classes
  NoFunc         \* NAME_None

VARIABLES
  variables,          \* variables -> [rep, notify]
  funcs,         \* functions -> [ins, outs, result]
  implements,    \* implemented interfaces
  parent,        \* the parent class
  upToDate       \* Status is BS_UpToDate

memberVars == <<variables, funcs, implements, parent, upToDate>>

Unreplicated == [rep |-> "none", notify |-> NoFunc]
RepModes == {"none", "replicated", "rep_notify"}

MembersInit ==
  /\ variables = << >>
  /\ funcs = << >>
  /\ implements = {}
  /\ parent \in Start("members", BpParents)
  /\ upToDate = TRUE

\* FBlueprintEditorUtils::MarkBlueprintAsModified and the structural one: the
\* blueprint has to be compiled again, its package is flagged.
Modified == upToDate' = FALSE /\ Edit(Packages)

------------------------------------------------------------------------------
(* Variables.                                                               *)

\* bp.add_variable; a name that is taken is refused.
AddVariable ==
  \E v \in BpVars \ DOMAIN variables, replicated \in BOOLEAN :
    /\ variables' = [w \in DOMAIN variables \cup {v} |->
                  IF w # v THEN variables[w]
                  ELSE IF replicated THEN [Unreplicated EXCEPT !.rep = "replicated"] ELSE Unreplicated]
    /\ Modified
    /\ UNCHANGED <<funcs, implements, parent>>

\* bp.remove_variable; what is absent succeeds and changes nothing.
RemoveVariable ==
  \E v \in DOMAIN variables :
    /\ variables' = [w \in DOMAIN variables \ {v} |-> variables[w]]
    /\ Modified
    /\ UNCHANGED <<funcs, implements, parent>>

\* bp.change_variable_type, drop_default_value: the type is not modelled.
ChangeVariableType ==
  /\ DOMAIN variables # {}
  /\ Modified
  /\ UNCHANGED <<variables, funcs, implements, parent>>

\* What bp.set_variable_metadata writes of the replication.  Without the field
\* "replicate" the notify function is written whatever the flags say.
Rewritten(v, mode, notify) ==
  CASE mode = "unset"      -> [v EXCEPT !.notify = notify]
    [] mode = "rep_notify" -> [rep |-> mode, notify |-> IF notify = NoFunc THEN v.notify ELSE notify]
    [] OTHER               -> [rep |-> mode, notify |-> NoFunc]

\* bp.set_variable_metadata.  Category and tooltip mark the blueprint when
\* they are written, a flag (`others`, or the replication) at the end.
SetVariableMetadata ==
  \E v \in DOMAIN variables, mode \in RepModes \cup {"unset"}, notify \in BpFuncs \cup {NoFunc} :
    /\ variables' = [variables EXCEPT ![v] = Rewritten(@, mode, notify)]
    /\ Modified
    /\ UNCHANGED <<funcs, implements, parent>>

\* The name of the notify function is checked for its length when its turn
\* comes: the flags before it stay set, under a scope that has flagged the
\* package, and MarkBlueprintAsStructurallyModified is not reached.
SetVariableMetadataLateRefusal ==
  \E v \in DOMAIN variables, mode \in {"unset", "rep_notify"} :
    /\ variables' = [variables EXCEPT ![v].rep = IF mode = "unset" THEN @ ELSE mode]
    /\ Edit(Packages)
    /\ UNCHANGED <<funcs, implements, parent, upToDate>>

------------------------------------------------------------------------------
(* Functions.                                                               *)

\* bp.add_function: the whole signature is parsed before the graph is made;
\* a result node only for outputs.
AddFunction ==
  \E f \in BpFuncs \ DOMAIN funcs, ins, outs \in SUBSET BpParams :
    /\ funcs' = [g \in DOMAIN funcs \cup {f} |->
                   IF g # f THEN funcs[g] ELSE [ins |-> ins, outs |-> outs, result |-> outs # {}]]
    /\ Modified
    /\ UNCHANGED <<variables, implements, parent>>

\* bp.remove_function; variables keep naming it as their notify.
RemoveFunction ==
  \E f \in DOMAIN funcs :
    /\ funcs' = [g \in DOMAIN funcs \ {f} |-> funcs[g]]
    /\ Modified
    /\ UNCHANGED <<variables, implements, parent>>

\* bp.add_function_parameter.  The result node is made for an output before the
\* duplicate is looked for.
AddFunctionParameter ==
  \E f \in DOMAIN funcs, p \in BpParams, input \in BOOLEAN :
    /\ p \notin (IF input THEN funcs[f].ins ELSE funcs[f].outs)
    /\ funcs' = [funcs EXCEPT ![f] =
                   IF input THEN [@ EXCEPT !.ins = @ \cup {p}]
                   ELSE [@ EXCEPT !.outs = @ \cup {p}, !.result = TRUE]]
    /\ Modified
    /\ UNCHANGED <<variables, implements, parent>>

OutputRemoved(f, p) == [f EXCEPT !.outs = @ \ {p}]

\* bp.remove_function_parameter: an input of the name before an output; the
\* result node stays.
RemoveFunctionParameter ==
  \E f \in DOMAIN funcs, p \in BpParams :
    /\ p \in funcs[f].ins \cup funcs[f].outs
    /\ funcs' = [funcs EXCEPT ![f] =
                   IF p \in @.ins THEN [@ EXCEPT !.ins = @ \ {p}] ELSE OutputRemoved(@, p)]
    /\ Modified
    /\ UNCHANGED <<variables, implements, parent>>

\* bp.set_function_metadata: the access specifier is checked before the entry
\* node is touched.
SetFunctionMetadata ==
  /\ DOMAIN funcs # {}
  /\ Modified
  /\ UNCHANGED <<variables, funcs, implements, parent>>

\* bp.list_function_parameters, bp.get_function.
ListFunctionParameters(f) == [inputs |-> funcs[f].ins, outputs |-> funcs[f].outs]

------------------------------------------------------------------------------
(* Interfaces, parent, compilation.                                         *)

AddInterface ==
  \E i \in BpInterfaces \ implements :
    /\ implements' = implements \cup {i}
    /\ Modified
    /\ UNCHANGED <<variables, funcs, parent>>

\* bp.remove_interface, whose functions go with it.
RemoveInterface ==
  \E i \in implements :
    /\ implements' = implements \ {i}
    /\ Modified
    /\ UNCHANGED <<variables, funcs, parent>>

\* bp.reparent compiles; to the same parent it does nothing.
Reparent ==
  \E c \in BpParents \ {parent}, compiles \in BOOLEAN :
    /\ parent' = c
    /\ upToDate' = compiles
    /\ Edit(Packages)
    /\ UNCHANGED <<variables, funcs, implements>>

\* bp.compile: with fail_on_error a failure is an error reply after the same
\* compilation.
Compile ==
  \E compiles \in BOOLEAN :
    /\ upToDate' = compiles
    /\ Edit(Packages)
    /\ UNCHANGED <<variables, funcs, implements, parent>>

\* bp.create: here the blueprint is replaced by a new one under another path.
CreateBlueprint ==
  \E c \in BpParents, saved \in BOOLEAN :
    /\ variables' = << >> /\ funcs' = << >> /\ implements' = {}
    /\ parent' = c
    /\ upToDate' = TRUE
    /\ ScopeOpen
    /\ IF saved THEN Written(Packages) ELSE Edit(Packages)

MembersNext ==
  \/ AddVariable \/ RemoveVariable \/ ChangeVariableType
  \/ SetVariableMetadata \/ SetVariableMetadataLateRefusal
  \/ AddFunction \/ RemoveFunction \/ AddFunctionParameter \/ RemoveFunctionParameter
  \/ SetFunctionMetadata \/ AddInterface \/ RemoveInterface
  \/ Reparent \/ Compile \/ CreateBlueprint
=============================================================================
