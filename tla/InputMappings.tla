---------------------------- MODULE InputMappings ----------------------------
(* A mapping context and an input action: input.*.  A context may hold the   *)
(* same action and key several times; the tools of triggers and modifiers    *)
(* work on the first.                                                        *)
EXTENDS EditorSession, Integers, Sequences, SequencesExt

CONSTANTS
  InputKeys,      \* FKeys
  MapMax,         \* bound: mappings of the context
  AuxMax          \* bound: triggers and modifiers of one owner

VARIABLES
  mappings,       \* the context's mappings of the action: [key, triggers, modifiers], counted
  actionAux       \* the action's own triggers and modifiers

inputVars == <<mappings, actionAux>>

NoAux == [triggers |-> 0, modifiers |-> 0]
AuxKinds == DOMAIN NoAux

InputInit ==
  /\ mappings = <<>>
  /\ actionAux = NoAux

\* input.create_input_action and input.create_mapping_context give what is at
\* the path if it is of their class, and make an empty asset otherwise.
CreateInputAction == Edit(Packages) /\ UNCHANGED inputVars
CreateMappingContext == mappings = <<>> /\ Edit(Packages) /\ UNCHANGED inputVars

\* input.add_mapping: MapKey appends, the same pair again too.
AddMapping ==
  \E k \in InputKeys :
    /\ Len(mappings) < MapMax
    /\ mappings' = Append(mappings, [key |-> k, aux |-> NoAux])
    /\ Edit(Packages)
    /\ UNCHANGED actionAux

\* INP_FindMappingIndex, 0 if there is none.
FindMappingIndex(k) == SelectInSeq(mappings, LAMBDA m : m.key = k)

WithoutFirst(k) == IF FindMappingIndex(k) = 0 THEN mappings ELSE RemoveAt(mappings, FindMappingIndex(k))

\* input.remove_mapping: UnmapKey takes the first of a key away, without a key
\* all go.  A key that is none is refused after Modify.
RemoveMapping ==
  /\ ScopeOpen
  /\ \/ /\ \/ \E k \in InputKeys : mappings' = WithoutFirst(k)
           \/ mappings' = <<>>
        /\ Flag(Packages, Packages)
     \/ UNCHANGED mappings /\ Flag({}, Packages)
  /\ UNCHANGED actionAux

\* The first mapping of k gets `aux`.
SetFirst(k, aux) ==
  /\ FindMappingIndex(k) # 0
  /\ mappings' = [mappings EXCEPT ![FindMappingIndex(k)].aux = aux]
  /\ Edit(Packages)
  /\ UNCHANGED actionAux

Aux(k) == mappings[FindMappingIndex(k)].aux

AddMappingAux(kind) ==
  \E k \in InputKeys :
    /\ FindMappingIndex(k) # 0 => Aux(k)[kind] < AuxMax
    /\ SetFirst(k, [Aux(k) EXCEPT ![kind] = @ + 1])

\* An index out of range is refused after Modify.
RemoveMappingAux(kind) ==
  \E k \in InputKeys :
    /\ ScopeOpen
    /\ FindMappingIndex(k) # 0
    /\ \/ Aux(k)[kind] > 0 /\ SetFirst(k, [Aux(k) EXCEPT ![kind] = @ - 1])
       \/ Flag({}, Packages) /\ UNCHANGED inputVars

AddMappingTrigger == AddMappingAux("triggers")
RemoveMappingTrigger == RemoveMappingAux("triggers")
AddMappingModifier == AddMappingAux("modifiers")
RemoveMappingModifier == RemoveMappingAux("modifiers")

\* The same on the action; here the index is looked at before Modify.
AddActionAux(kind) ==
  /\ actionAux[kind] < AuxMax
  /\ actionAux' = [actionAux EXCEPT ![kind] = @ + 1]
  /\ Edit(Packages)
  /\ UNCHANGED mappings

RemoveActionAux(kind) ==
  /\ actionAux[kind] > 0
  /\ actionAux' = [actionAux EXCEPT ![kind] = @ - 1]
  /\ Edit(Packages)
  /\ UNCHANGED mappings

AddActionTrigger == AddActionAux("triggers")
RemoveActionTrigger == RemoveActionAux("triggers")
AddActionModifier == AddActionAux("modifiers")
RemoveActionModifier == RemoveActionAux("modifiers")

\* input.add_context_to_player: a player of the play world has the context
\* until the session ends.
AddContextToPlayer == pie /\ Look /\ UNCHANGED inputVars

\* input.get_context_bindings.
GetContextBindings == mappings

InputNext ==
  \/ CreateInputAction \/ CreateMappingContext
  \/ AddMapping \/ RemoveMapping
  \/ AddMappingTrigger \/ RemoveMappingTrigger \/ AddMappingModifier \/ RemoveMappingModifier
  \/ AddActionTrigger \/ RemoveActionTrigger \/ AddActionModifier \/ RemoveActionModifier
  \/ AddContextToPlayer
=============================================================================
