------------------------------ MODULE AIAgents -------------------------------
(* Blackboard and query assets and the agents that use them: ai.bb.*,        *)
(* ai.eqs.*, and what ai.bt, ai.controller and ai.crowd do to a controller.  *)
EXTENDS EditorSession, Integers, Sequences, SequencesExt

CONSTANTS
  BoardKeys,     \* names of blackboard keys
  KeyTypes,      \* BlackboardKeyType classes
  ParentBoard,   \* name -> type of the keys of the parent asset
  TestsMax       \* bound: options of the query, and tests of an option

VARIABLES
  board,         \* the asset's own keys, in their order: <<name, type>>
  query,         \* the options of a query: the number of tests of each
  agent          \* a controller: whether it runs a tree, and its keys with values

agentVars == <<board, query, agent>>

AgentInit ==
  /\ board = <<>>
  /\ query = <<>>
  /\ agent = [tree |-> FALSE, values |-> {}]

------------------------------------------------------------------------------
(* Blackboard assets.                                                        *)

Own(k) == \E i \in DOMAIN board : board[i][1] = k

\* ai.bb.create_asset: with a parent or without.
CreateBoard == board = <<>> /\ Edit(Packages) /\ UNCHANGED agentVars

\* ai.bb.add_key: options are resolved before anything changes; a key of the
\* parent may be given anew.
AddKey ==
  \E k \in BoardKeys, t \in KeyTypes :
    /\ ~Own(k)
    /\ board' = Append(board, <<k, t>>)
    /\ Edit(Packages)
    /\ UNCHANGED <<query, agent>>

\* ai.bb.remove_key takes the first of the name.
RemoveKey ==
  \E k \in BoardKeys :
    /\ Own(k)
    /\ board' = RemoveAt(board, SelectInSeq(board, LAMBDA e : e[1] = k))
    /\ Edit(Packages)
    /\ UNCHANGED <<query, agent>>

\* The type of a key: the asset's own entry, else its parent's.
KeyType(k) == IF Own(k) THEN board[SelectInSeq(board, LAMBDA e : e[1] = k)][2] ELSE ParentBoard[k]
HasKey(k)  == Own(k) \/ k \in DOMAIN ParentBoard

------------------------------------------------------------------------------
(* Queries.                                                                  *)

\* ai.eqs.create_asset makes one without options.
CreateQuery == query = <<>> /\ Edit(Packages) /\ UNCHANGED agentVars

\* ai.eqs.add_generator: each generator is an option.
AddGenerator ==
  /\ Len(query) < TestsMax
  /\ query' = Append(query, 0)
  /\ Edit(Packages)
  /\ UNCHANGED <<board, agent>>

\* ai.eqs.add_test.
AddTest ==
  \E o \in DOMAIN query :
    /\ query[o] < TestsMax
    /\ query' = [query EXCEPT ![o] = @ + 1]
    /\ Edit(Packages)
    /\ UNCHANGED <<board, agent>>

\* ai.eqs.run_query: at once, for the items of the best option or of all.
RunQuery == query # <<>> /\ Look /\ UNCHANGED agentVars

------------------------------------------------------------------------------
(* An agent.  The tools take an actor of the play world or of the editor's   *)
(* and flag no package.                                                      *)

\* ai.bt.start_on_actor and ai.bt.stop_on_actor.
StartOnActor == agent' = [agent EXCEPT !.tree = TRUE] /\ Look /\ UNCHANGED <<board, query>>
StopOnActor  == agent' = [agent EXCEPT !.tree = FALSE] /\ Look /\ UNCHANGED <<board, query>>

\* ai.bb.set_value writes a value that fits the type of the key.
SetValue ==
  \E k \in BoardKeys, t \in KeyTypes :
    /\ HasKey(k) /\ KeyType(k) = t
    /\ agent' = [agent EXCEPT !.values = @ \cup {<<k, t>>}]
    /\ Look
    /\ UNCHANGED <<board, query>>

\* ai.controller.respawn_blackboard: a new component, or the old one
\* initialised from the asset.
RespawnBlackboard ==
  /\ agent' = [agent EXCEPT !.values = {}]
  /\ Look
  /\ UNCHANGED <<board, query>>

\* ai.crowd.set_avoidance_quality.
SetAvoidanceQuality == Look /\ UNCHANGED agentVars

\* ai.bb.list_keys gives the asset's own keys only, ai.bb.get_value all.
ListKeys == {board[i][1] : i \in DOMAIN board}
GetValue(k) == IF HasKey(k) THEN {v \in agent.values : v[1] = k} ELSE {}

AgentNext ==
  \/ CreateBoard \/ AddKey \/ RemoveKey
  \/ CreateQuery \/ AddGenerator \/ AddTest \/ RunQuery
  \/ StartOnActor \/ StopOnActor \/ SetValue \/ RespawnBlackboard \/ SetAvoidanceQuality
=============================================================================
