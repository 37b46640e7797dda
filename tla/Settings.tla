------------------------------ MODULE Settings -------------------------------
(* Settings of the editor and the project: cfg.*, collision.*, gameplaytag.* *)
(* and subsystem.*.  None but the containers of tags are assets: what is     *)
(* written goes to memory and to an ini file that may be read-only.          *)
EXTENDS EditorSession, Integers, Sequences

CONSTANTS
  CVars,         \* console variables
  CVarType,      \* each one's type: bool, int, string
  IniKeys,       \* section and key, in one of the files of the whitelist
  Profiles,      \* collision profiles
  Channels,      \* object and trace channels
  TagNames,      \* gameplay tags
  HolderOf       \* an actor's or component's tag container -> its package

VARIABLES
  cvar,          \* name -> value and the priority it was set with
  ini,           \* key -> value in GConfig, 0 for none
  iniFile,       \* key -> value in the file
  fileWritable,  \* the files can be written
  responses,     \* profile -> channel -> response in force
  custom,        \* profile -> the responses that are stored: <<channel, response>>
  asked,         \* a ghost: the response last asked for
  tagsIn         \* container -> tags

settingVars == <<cvar, ini, iniFile, fileWritable, responses, custom, asked, tagsIn>>
cfgVars       == <<cvar, ini, iniFile>>
collisionVars == <<responses, custom, asked>>

DefaultResponse == [c \in Channels |-> "Block"]
Priority == [scalability |-> 1, code |-> 2, console |-> 3]

SettingInit ==
  /\ cvar = [c \in CVars |-> [value |-> 0, by |-> "scalability"]]
  /\ ini = [k \in IniKeys |-> 0]
  /\ iniFile = ini
  /\ fileWritable \in Start("cfg", BOOLEAN)
  /\ responses = [p \in Profiles |-> DefaultResponse]
  /\ custom = [p \in Profiles |-> {}]
  /\ asked = responses
  /\ tagsIn = [h \in DOMAIN HolderOf |-> {}]

------------------------------------------------------------------------------
(* cfg.                                                                      *)

\* What a request gives: JSON of a kind; numbers in halves.
Json == [kind : {"bool"}, n : {0, 2}] \cup [kind : {"number"}, n : {-3, 1, 2}]
        \cup [kind : {"numeral"}, n : {2, 4}] \cup [kind : {"keyword"}, n : {0, 2}] \cup [kind : {"text"}, n : {0}]

\* A conversion to int32 cuts towards zero.
Truncated(n) == IF n < 0 THEN -((-n) \div 2) ELSE n \div 2

\* cfg.set_cvar by the variable's type: a bool takes numbers, and of strings 0,
\* 1 and the keywords; an int numbers and numerals; a string anything.
Fits(type, v) ==
  CASE type = "bool"   -> v.kind # "text" /\ (v.kind = "numeral" => v.n \in {0, 2})
    [] type = "int"    -> v.kind \notin {"text", "keyword"}
    [] type = "string" -> TRUE
Coerced(type, v) ==
  CASE type = "bool"   -> IF v.n # 0 THEN 2 ELSE 0
    [] type = "int"    -> 2 * Truncated(v.n)
    [] type = "string" -> v.n

\* IConsoleVariable::Set ignores a priority below the one it was set with.
Assigned(c, value, by) ==
  IF Priority[by] >= Priority[cvar[c].by] THEN [value |-> value, by |-> by] ELSE cvar[c]

\* cfg.set_cvar sets with the priority of code and reports the value afterwards.
SetCVar ==
  /\ \E c \in CVars, v \in Json :
       /\ Fits(CVarType[c], v)
       /\ cvar' = [cvar EXCEPT ![c] = Assigned(c, Coerced(CVarType[c], v), "code")]
  /\ UNCHANGED <<ini, iniFile>>

\* The user types a value on the console.
ConsoleSets ==
  /\ \E c \in CVars : cvar' = [cvar EXCEPT ![c] = Assigned(c, 2, "console")]
  /\ UNCHANGED <<ini, iniFile>>

\* cfg.write: into GConfig, then the file; a file that cannot be written stays
\* as it is and the reply says flushed if there is one.
CfgWrite ==
  /\ \E k \in IniKeys, v \in 1 .. 2 :
       /\ ini' = [ini EXCEPT ![k] = v]
       /\ iniFile' = IF fileWritable THEN ini' ELSE iniFile
  /\ UNCHANGED cvar

\* The replies of cfg.read and cfg.get_cvar.
CfgRead(k)     == IF ini[k] = 0 THEN "refused" ELSE ini[k]
GetCVar(c)     == cvar[c]

------------------------------------------------------------------------------
(* collision.                                                                *)

\* Mutant: only the channel that changed is stored.
CustomOfChanged(p, r) == {<<c, r[c]>> : c \in {d \in Channels : r[d] # responses[p][d]}}

\* COLL_RegenerateCustomResponses: what differs from the default.
CustomOf(p, r) == {<<c, r[c]>> : c \in {d \in Channels : r[d] # DefaultResponse[d]}}

\* LoadProfileConfig fills the responses in from what is stored.
FilledIn(stored) ==
  [c \in Channels |-> IF \E r \in stored : r[1] = c THEN (CHOOSE r \in stored : r[1] = c)[2]
                      ELSE DefaultResponse[c]]

\* collision.set_profile_response, in a session too.  The file may not be
\* written; the change in memory stays then and the reply is an error.
SetProfileResponse ==
  \E p \in Profiles, c \in Channels, r \in {"Block", "Overlap", "Ignore"} :
    /\ custom' = [custom EXCEPT ![p] = CustomOf(p, [responses[p] EXCEPT ![c] = r])]
    /\ responses' = [responses EXCEPT ![p] = FilledIn(custom'[p])]
    /\ asked' = [asked EXCEPT ![p][c] = r]

ListChannels  == Channels
ListProfiles  == Profiles
GetProfile(p) == responses[p]

------------------------------------------------------------------------------
(* gameplaytag.                                                              *)

AddToContainer ==
  \E h \in DOMAIN HolderOf, t \in TagNames :
    /\ tagsIn' = [tagsIn EXCEPT ![h] = @ \cup {t}]
    /\ Edit({HolderOf[h]})

RemoveFromContainer ==
  \E h \in DOMAIN HolderOf, t \in TagNames :
    /\ tagsIn' = [tagsIn EXCEPT ![h] = @ \ {t}]
    /\ Edit({HolderOf[h]})

QueryActor(h) == tagsIn[h]

\* gameplaytag.list, cfg.list_cvars and cfg.list_sections: a page of the sorted
\* names after the token, the last name of the page before.
PageAfter(names, token, size) ==
  LET later == SelectSeq(names, LAMBDA n : n > token)
  IN  SubSeq(later, 1, IF Len(later) < size THEN Len(later) ELSE size)

ListTags(names, token, size)     == PageAfter(names, token, size)
ListCVars(names, token, size)    == PageAfter(names, token, size)
ListSections(names, token, size) == PageAfter(names, token, size)

\* A subsystem is there while its owner is: only a running game has a game
\* instance and local players.
SubsystemKinds == {"engine", "editor", "world", "game_instance", "local_player"}
Owned(kind) == kind \in {"game_instance", "local_player"} => pie

\* subsystem.call_function runs any function that a Blueprint may call, in a
\* session too, and marks nothing; what the function does is its own.
CallSubsystem ==
  /\ \E kind \in SubsystemKinds : Owned(kind)
  /\ Look /\ UNCHANGED settingVars

ListSubsystems(kind)       == {k \in SubsystemKinds : kind \in {"all", k} /\ Owned(k)}
GetSubsystemProperty(kind) == IF Owned(kind) THEN "value" ELSE "refused"

CfgNext ==
  /\ SetCVar \/ ConsoleSets \/ CfgWrite
  /\ Look /\ UNCHANGED <<fileWritable, collisionVars, tagsIn>>

CollisionNext ==
  /\ SetProfileResponse
  /\ Look /\ UNCHANGED <<cfgVars, fileWritable, tagsIn>>

TagNext ==
  /\ AddToContainer \/ RemoveFromContainer
  /\ UNCHANGED <<cfgVars, fileWritable, collisionVars>>

------------------------------------------------------------------------------
(* Properties.                                                               *)

\* Each response in force is the last one asked for, of every channel: storing
\* the differences from the default and loading them again loses nothing of
\* what earlier requests set (CollisionTools.cpp:437).
ResponsesInForce == responses = asked
=============================================================================
