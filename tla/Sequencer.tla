------------------------------ MODULE Sequencer ------------------------------
(* A level sequence: sequencer.* and sequencer_ext.*.  Bindings are named by  *)
(* actor labels and tracks by their classes' titles, both of which may have   *)
(* dots.  A name is the sequence of its parts between the dots, and "a..b" or *)
(* "x." has an empty one; a request names a section by the parts of a path.   *)
EXTENDS EditorSession, Integers, Sequences, FiniteSets, SequencesExt

CONSTANTS
  Labels,        \* names of bindings, each a sequence of parts
  Spawnables,    \* bindings that the sequence has from the start, in order
  Titles,        \* names of tracks, each a sequence of parts
  CutTitle,      \* the name of the camera cut track
  Ranges,        \* ranges of sections
  SequenceAt,    \* the package of the sequence
  BindingMax, TrackMax, SectionMax, KeyCount   \* bounds of an instance

\* The editor gives no binding and no track an empty name.
DottedNames == Seq(STRING) \ {<<>>, <<"">>}

ASSUME NamesHaveParts ==
  Labels \cup Titles \cup {CutTitle} \subseteq DottedNames /\ Spawnables \in Seq(DottedNames)

VARIABLES
  possessables,  \* their names in order
  tracks         \* [of, title, sections]; `of` is Master, CutTrack or a binding

Master   == <<"master", 0>>
CutTrack == <<"cut", 0>>

sequenceVars == <<possessables, tracks>>

SequenceInit == possessables = <<>> /\ tracks = <<>>

\* The bindings in the order they are looked through, with their names.
BindingIds == ({"p"} \X (1 .. Len(possessables))) \cup ({"s"} \X (1 .. Len(Spawnables)))
NameOf(b) == IF b[1] = "p" THEN possessables[b[2]] ELSE Spawnables[b[2]]
LooksFirst(b, c) == (b[1] = "p" /\ c[1] = "s") \/ (b[1] = c[1] /\ b[2] <= c[2])

First(which(_)) ==
  LET found == {t \in DOMAIN tracks : which(tracks[t])}
  IN  IF found = {} THEN 0 ELSE CHOOSE t \in found : \A u \in found : t <= u

------------------------------------------------------------------------------
(* SEQ_ResolveTrackSection: the parts of a path, without its last, a number.  *)

\* ParseIntoArray drops the empty parts, so two dots together count as one, and
\* a dot at the end of a name not at all.
Culled(path) == SelectSeq(path, LAMBDA part : part # "")

MasterNamed(part) ==
  IF First(LAMBDA t : t.of = Master /\ t.title = <<part>>) # 0
  THEN First(LAMBDA t : t.of = Master /\ t.title = <<part>>)
  ELSE First(LAMBDA t : t.of = CutTrack /\ (t.title = <<part>> \/ part = "CameraCutTrack"))

\* Mutant: the second part alone is the track's name.
TitleIsOnePart(parts) == <<parts[2]>>

\* The parts after the binding's are the track's name again.
TitleIn(parts) == Tail(parts)

TrackOfBinding(parts) ==
  LET named == {b \in BindingIds : NameOf(b) = <<parts[1]>>}
  IN  IF named = {} THEN 0
      ELSE First(LAMBDA t : /\ t.of = CHOOSE b \in named : \A c \in named : LooksFirst(b, c)
                            /\ t.title = TitleIn(parts))

Resolve(path, section) ==
  LET parts == Culled(path)
      t     == IF Len(parts) = 1 THEN MasterNamed(parts[1])
               ELSE IF parts = <<>> THEN 0 ELSE TrackOfBinding(parts)
  IN  IF t # 0 /\ section \in DOMAIN tracks[t].sections THEN {<<t, section>>} ELSE {}

\* The path that sequencer.get_tracks lets a client put together.
TrackPath(t) == (IF tracks[t].of \in BindingIds THEN NameOf(tracks[t].of) ELSE <<>>) \o tracks[t].title

Paths == {TrackPath(t) : t \in DOMAIN tracks} \cup {<<"CameraCutTrack">>}
SectionsNamed == UNION {Resolve(p, i) : p \in Paths, i \in 1 .. SectionMax}

------------------------------------------------------------------------------
(* The handlers.                                                            *)

AddsTrack(of, title) ==
  /\ Len(tracks) < TrackMax
  /\ tracks' = Append(tracks, [of |-> of, title |-> title, sections |-> <<>>])

NewSection(range) == [range |-> range, keys |-> 0]

\* sequencer.create_sequence: the scope flags the package after a save, too.
CreateSequence ==
  /\ ScopeOpen /\ SequenceAt \notin unsaved
  /\ \E saved \in BOOLEAN : Flag(IF saved THEN {} ELSE {SequenceAt}, {SequenceAt})
  /\ UNCHANGED sequenceVars

\* sequencer.add_master_track: there is one camera cut track at most, and a
\* request for another is answered with it.
AddMasterTrack ==
  /\ Edit({SequenceAt})
  /\ \/ \E title \in Titles : AddsTrack(Master, title)
     \/ IF First(LAMBDA t : t.of = CutTrack) = 0 THEN AddsTrack(CutTrack, CutTitle) ELSE UNCHANGED tracks
  /\ UNCHANGED possessables

\* sequencer.add_camera_cut makes the track before it looks for the camera, and
\* each cut with a camera a possessable of its own.
AddCameraCut ==
  LET cut  == First(LAMBDA t : t.of = CutTrack)
      with == IF cut # 0 THEN tracks
              ELSE Append(tracks, [of |-> CutTrack, title |-> CutTitle, sections |-> <<>>])
      at   == IF cut # 0 THEN cut ELSE Len(tracks) + 1
  IN  /\ Edit({SequenceAt}) /\ Len(with) <= TrackMax
      /\ \/ tracks' = with /\ UNCHANGED possessables     \* refused: no such actor
         \/ \E range \in Ranges :
              /\ Len(with[at].sections) < SectionMax
              /\ tracks' = [with EXCEPT ![at].sections = Append(@, NewSection(range))]
              /\ \/ UNCHANGED possessables
                 \/ \E label \in Labels :
                      /\ Len(possessables) < BindingMax
                      /\ possessables' = Append(possessables, label)

\* sequencer_ext.add_possessable; an actor may be added again.
AddPossessable ==
  \E label \in Labels :
    /\ Len(possessables) < BindingMax
    /\ possessables' = Append(possessables, label)
    /\ Edit({SequenceAt})
    /\ UNCHANGED tracks

\* sequencer_ext.add_track; a binding may have several tracks of a class.
AddTrack ==
  \E of \in BindingIds, title \in Titles :
    AddsTrack(of, title) /\ Edit({SequenceAt}) /\ UNCHANGED possessables

\* The binding's first track of the class.
TrackTitled(of, title) == First(LAMBDA t : t.of = of /\ t.title = title)

\* sequencer_ext.add_section.
AddSection ==
  \E of \in BindingIds, title \in Titles, range \in Ranges :
    LET at == TrackTitled(of, title)
    IN  /\ at # 0 /\ Len(tracks[at].sections) < SectionMax
        /\ tracks' = [tracks EXCEPT ![at].sections = Append(@, NewSection(range))]
        /\ Edit({SequenceAt})
        /\ UNCHANGED possessables

\* sequencer.add_keyframe: a cubic channel takes a second key at a time, a
\* boolean or integer one replaces it; a value of the wrong type is refused
\* after Modify.
AddKeyframe ==
  \E s \in SectionsNamed :
    /\ \/ ScopeOpen /\ Flag({}, {SequenceAt}) /\ UNCHANGED tracks
       \/ /\ Edit({SequenceAt})
          /\ \E cubic \in BOOLEAN :
               tracks' = [tracks EXCEPT ![s[1]].sections[s[2]].keys =
                 IF @ < KeyCount /\ (cubic \/ @ = 0) THEN @ + 1 ELSE @]
    /\ UNCHANGED possessables

\* sequencer.set_section_range
SetSectionRange ==
  \E s \in SectionsNamed, range \in Ranges :
    /\ tracks' = [tracks EXCEPT ![s[1]].sections[s[2]].range = range]
    /\ Edit({SequenceAt})
    /\ UNCHANGED possessables

\* The replies: sequencer.get_tracks, get_camera_cuts and get_keyframes.
GetTracks == [masters      |-> SelectSeq(tracks, LAMBDA t : t.of \notin BindingIds),
              possessables |-> [i \in DOMAIN possessables |->
                                  SelectSeq(tracks, LAMBDA t : t.of = <<"p", i>>)],
              spawnables   |-> [i \in DOMAIN Spawnables |->
                                  SelectSeq(tracks, LAMBDA t : t.of = <<"s", i>>)]]
GetCameraCuts ==
  LET cut == First(LAMBDA t : t.of = CutTrack) IN IF cut = 0 THEN <<>> ELSE tracks[cut].sections
\* All keys of all channels, or none for a path that leads nowhere.
GetKeyframes(path, section) == {tracks[s[1]].sections[s[2]].keys : s \in Resolve(path, section)}

SequenceNext ==
  \/ CreateSequence \/ AddMasterTrack \/ AddCameraCut \/ AddPossessable \/ AddTrack
  \/ AddSection \/ AddKeyframe \/ SetSectionRange

------------------------------------------------------------------------------
(* Properties.                                                              *)

\* A section that sequencer.get_tracks shows can be named by the path a client
\* puts together, which leads to it and nowhere else, if that path is no other
\* track's and no part of it is empty, and moreover
\*   - for a track of a binding: the binding's name has no dot and is no other
\*     binding's; the track's own name may have dots;
\*   - for a master track or the camera cuts: the track's name has no dot.
\* All others the code cannot name, or takes for another.
SectionsFound ==
  \A t \in DOMAIN tracks :
    LET of == tracks[t].of
    IN  /\ \A u \in DOMAIN tracks \ {t} : TrackPath(u) # TrackPath(t)
        /\ Culled(TrackPath(t)) = TrackPath(t)
        /\ IF of \in BindingIds
           THEN Len(NameOf(of)) = 1 /\ \A b \in BindingIds \ {of} : NameOf(b) # NameOf(of)
           ELSE Len(tracks[t].title) = 1
        => \A i \in DOMAIN tracks[t].sections : Resolve(TrackPath(t), i) = {<<t, i>>}
=============================================================================
