------------------------------ MODULE Materials ------------------------------
(* A base material and an instance of it: the mat tools edit the graph of    *)
(* expressions, the material and mat_inst tools the parameters of instances, *)
(* whose values are left out.  The pages of material.list_parameters go      *)
(* through four lists (scalars, vectors, textures, static switches), each    *)
(* sorted by name, and resume behind a key "category|name".                  *)
EXTENDS EditorSession, Integers, Sequences, FiniteSets, SequencesExt, FiniteSetsExt

CONSTANTS
  Expressions,    \* guids of expressions
  ParamNames,     \* parameter names, as naturals in FName's order
  MaterialParams, \* the <<category, name>> that expressions may have
  Printed,        \* a name -> the rank of its text among the texts
  InputsMax,      \* bound: connected inputs
  MatPageSize,    \* page_size
  ShaderLimit     \* kMATShaderQueueSoftLimit

ASSUME ParametersAssumption ==
  /\ ParamNames \subseteq Nat \ {0}
  /\ MaterialParams \subseteq (1 .. 4) \X ParamNames /\ IsFiniteSet(MaterialParams)
  /\ MatPageSize \in Nat \ {0}
\* No two names have one text.
ASSUME PrintedAssumption ==
  /\ \A n \in ParamNames : Printed[n] \in Nat
  /\ \A n, o \in ParamNames : n # o => Printed[n] # Printed[o]

VARIABLES
  expressions,    \* guid -> the <<category, name>> of the parameter it is
  inputs,         \* <<from, to>>: an input of `to` takes an output of `from`
  shaderJobs,     \* GShaderCompilingManager->GetNumRemainingJobs
  lister          \* the client of material.list_parameters

materialVars == <<expressions, inputs, shaderJobs, lister>>

material == <<expressions, inputs>>

NoLister == [at |-> "done", last |-> <<1, 0>>, shown |-> {}, twice |-> FALSE,
             owed |-> {}, mixed |-> FALSE]

MaterialInit ==
  /\ expressions = [e \in {} |-> 0]
  /\ inputs = {}
  /\ shaderJobs = 0
  /\ lister = NoLister

Parameters == {expressions[e] : e \in DOMAIN expressions}

------------------------------------------------------------------------------
(* The graph of a base material.  A handler has called Modify on the        *)
(* material when the library may still refuse.                              *)

\* What the client of the pages is owed, and whether names were among them
\* whose order is not that of their texts.
Mixed(params) ==
  \E p, q \in params : p[1] = q[1] /\ p[2] < q[2] /\ Printed[q[2]] < Printed[p[2]]
StillOwed ==
  lister' = [lister EXCEPT !.owed = @ \cap Parameters', !.mixed = @ \/ Mixed(Parameters')]

\* mat.add_expression.
AddExpression ==
  \E e \in Expressions \ DOMAIN expressions, p \in MaterialParams :
    /\ expressions' = [f \in DOMAIN expressions \cup {e} |-> IF f = e THEN p ELSE expressions[f]]
    /\ StillOwed
    /\ Edit(Packages)
    /\ UNCHANGED <<inputs, shaderJobs>>

\* mat.connect_expressions; no input of that name is known only once the
\* material is flagged.
ConnectExpressions ==
  \E from, to \in DOMAIN expressions, named \in BOOLEAN :
    /\ ScopeOpen
    /\ Cardinality(inputs) < InputsMax
    /\ inputs' = IF named THEN inputs \cup {<<from, to>>} ELSE inputs
    /\ Flag(IF named THEN Packages ELSE {}, Packages)
    /\ UNCHANGED <<expressions, shaderJobs, lister>>

\* mat.set_expression_parameter: a property of an expression, its parameter
\* name among them.  A value of the wrong type is refused after Modify.
SetExpressionParameter ==
  \E e \in DOMAIN expressions, n \in ParamNames, fits \in BOOLEAN :
    /\ ScopeOpen
    /\ <<expressions[e][1], n>> \in MaterialParams
    /\ expressions' = IF fits THEN [expressions EXCEPT ![e][2] = n] ELSE expressions
    /\ StillOwed
    /\ Flag(IF fits THEN Packages ELSE {}, Packages)
    /\ UNCHANGED <<inputs, shaderJobs>>

\* The connections that mat.delete_expression counts: inputs that take an
\* output of the expression.
Cleared(e) == {w \in inputs : w[1] = e /\ w[2] # e}

\* mat.delete_expression.
DeleteExpression ==
  \E e \in DOMAIN expressions :
    /\ expressions' = [f \in DOMAIN expressions \ {e} |-> expressions[f]]
    /\ inputs' = {w \in inputs : e \notin {w[1], w[2]}}
    /\ StillOwed
    /\ Edit(Packages)
    /\ UNCHANGED shaderJobs

------------------------------------------------------------------------------
(* The instance.  A parameter is found if the material above has it.        *)

\* MAT_PreWriteResolve, and the parameter.
Settable(p) == ScopeOpen /\ p \in Parameters

SetOverride(p) ==
  /\ Settable(p)
  /\ Flag(Packages, Packages)
  /\ UNCHANGED <<material, lister>>

\* material.set_scalar_param, material.set_vector_param and
\* material.set_texture_param write through FMCPWritePropertyScope, the tools
\* of mat_inst call Modify.
SetScalarParam  == \E n \in ParamNames : SetOverride(<<1, n>>) /\ UNCHANGED shaderJobs
SetVectorParam  == \E n \in ParamNames : SetOverride(<<2, n>>) /\ UNCHANGED shaderJobs
SetTextureParam == \E n \in ParamNames : SetOverride(<<3, n>>) /\ UNCHANGED shaderJobs
InstSetScalarParam  == SetScalarParam
InstSetVectorParam  == SetVectorParam
InstSetTextureParam == SetTextureParam

\* material.set_static_switch compiles shaders, and refuses when many wait.
SetStaticSwitch ==
  \E n \in ParamNames :
    /\ shaderJobs < ShaderLimit
    /\ SetOverride(<<4, n>>)
    /\ shaderJobs' = shaderJobs + 1

ShadersCompile ==
  /\ shaderJobs > 0
  /\ shaderJobs' = shaderJobs - 1
  /\ Look
  /\ UNCHANGED <<material, lister>>

\* material.create_instance: at a path that no package has.
CreateInstance ==
  /\ Edit(Packages)
  /\ UNCHANGED materialVars

\* material.is_shader_compiling; material.get_parameter, which tries the
\* categories in turn.
IsShaderCompiling == shaderJobs > 0
GetParameter(n) ==
  IF \E p \in Parameters : p[2] = n THEN Min({p[1] : p \in {q \in Parameters : q[2] = n}}) ELSE 0

------------------------------------------------------------------------------
(* material.list_parameters.                                                 *)

\* EmitFromCategory: the categories before the key's are done; in the key's own
\* the names whose text is not after the key's are skipped.
Pending(last) ==
  {p \in Parameters :
     \/ p[1] > last[1]
     \/ p[1] = last[1] /\ (last[2] = 0 \/ Printed[p[2]] > Printed[last[2]])}

\* MAT_CollectAllParameters.
InOrder(p, q) == p[1] < q[1] \/ (p[1] = q[1] /\ p[2] < q[2])

ListParameters ==
  /\ LET fresh   == [NoLister EXCEPT !.owed = Parameters, !.mixed = Mixed(Parameters)]
         r       == IF lister.at = "done" THEN fresh ELSE lister
         pending == Pending(r.last)
         page    == {p \in pending : Cardinality({q \in pending : InOrder(q, p)}) < MatPageSize}
         end     == CHOOSE p \in page : \A q \in page \ {p} : InOrder(q, p)
     IN  lister' = [r EXCEPT !.shown = @ \cup page,
                             !.twice = @ \/ r.shown \cap page # {},
                             !.last = IF page = {} THEN @ ELSE end,
                             !.at = IF page # pending THEN "paging" ELSE "done"]
  /\ Look
  /\ UNCHANGED <<material, shaderJobs>>

MaterialNext ==
  \/ AddExpression \/ ConnectExpressions \/ SetExpressionParameter \/ DeleteExpression
  \/ SetScalarParam \/ SetVectorParam \/ SetTextureParam \/ SetStaticSwitch \/ CreateInstance
  \/ InstSetScalarParam \/ InstSetVectorParam \/ InstSetTextureParam
  \/ ShadersCompile \/ ListParameters

------------------------------------------------------------------------------
(* Properties.                                                              *)

\* The pages of material.list_parameters, which one budget cuts across four
\* lists, show every parameter that the material had all the while, and none
\* twice while its graph is edited, if names are ordered as their texts: the
\* lists are sorted by FName, which has Tex_2 before Tex_10, and the key is
\* compared as text, which has Tex_10 before Tex_2.
ParametersPaged ==
  lister.at = "done" /\ ~lister.mixed =>
    /\ lister.owed \subseteq lister.shown
    /\ ~lister.twice
=============================================================================
