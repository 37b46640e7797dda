---------------------------- MODULE SourceControl ----------------------------
(* Source control: sc.*.  The provider keeps a state per file, which its     *)
(* operations refresh for the files they touch; the server is shared with    *)
(* other users.  A file's text is a sequence of lines.                       *)
EXTENDS EditorSession, Integers, Sequences

CONSTANTS
  Files,       \* files of the project
  Texts,       \* what a file may hold
  LineCap      \* kMaxLinesPerSide

ASSUME TextsAreLines ==
  LineCap \in Nat /\ \A t \in Texts : t \in Seq({t[k] : k \in DOMAIN t})

VARIABLES
  provider,    \* it is enabled and available
  server,      \* file -> unchanged, checked_out, checked_out_other, added, modified, not_controlled
  cached,      \* file -> what the provider last learned
  checkIn,     \* the files of a queued sc._submit_internal
  scReply,     \* what the last sc.checkout or sc.revert reports done
  compared,    \* the texts that sc.diff compares
  patch        \* and its answer

scVars == <<provider, server, cached, checkIn, scReply, compared, patch>>

FileStates == {"unchanged", "checked_out", "checked_out_other", "added", "modified", "not_controlled"}

SourceControlInit ==
  /\ provider = TRUE
  /\ server \in Start("sc", [Files -> FileStates])
  /\ cached = server
  /\ checkIn = {}
  /\ scReply = {}
  /\ compared \in Start("diff", Texts \X Texts)
  /\ patch = <<>>

\* What Execute leaves: the files it refreshed, as the server has them.
Refreshed(files, after) == [f \in Files |-> IF f \in files THEN after[f] ELSE cached[f]]

\* sc.status asks the server about the files named; without names it lists what
\* is known.
Status ==
  /\ provider
  /\ \E files \in SUBSET Files : cached' = Refreshed(files, server)
  /\ UNCHANGED <<provider, server, checkIn, scReply, compared, patch>>

\* sc.checkout: Execute may fail for any of the files; a file is reported
\* checked out by its state afterwards, whatever Execute returned.
Checkout ==
  /\ provider
  /\ \E files \in SUBSET Files \ {{}} : \E failed \in SUBSET files :
       /\ server' = [f \in Files |-> IF f \in files \ failed /\ server[f] = "unchanged"
                                     THEN "checked_out" ELSE server[f]]
       /\ cached' = Refreshed(files \ failed, server')
       /\ scReply' = {f \in files : cached'[f] = "checked_out"}
  /\ UNCHANGED <<provider, checkIn, compared, patch>>

\* sc.revert reports reverted what has no local change afterwards: also a file
\* that had none, is another user's or is not controlled at all.
LocalChange == {"checked_out", "added", "modified"}
Revert ==
  /\ provider
  /\ \E files \in SUBSET Files \ {{}} : \E failed \in SUBSET files :
       /\ server' = [f \in Files |->
            IF f \in files \ failed /\ server[f] \in LocalChange
            THEN IF server[f] = "added" THEN "not_controlled" ELSE "unchanged"
            ELSE server[f]]
       /\ cached' = Refreshed(files \ failed, server')
       /\ scReply' = {f \in files : cached'[f] \notin LocalChange}
  /\ UNCHANGED <<provider, checkIn, compared, patch>>

\* sc._submit_internal checks the provider and submits a job; it names every
\* file here.
SubmitInternal ==
  /\ provider /\ checkIn = {}
  /\ checkIn' = Files
  /\ UNCHANGED <<provider, server, cached, scReply, compared, patch>>

\* Its body checks the provider again; the check-in takes all files or none.
SubmitBody ==
  /\ checkIn # {}
  /\ checkIn' = {}
  /\ \/ /\ provider
        /\ server' = [f \in Files |-> IF f \in checkIn /\ server[f] \in LocalChange THEN "unchanged" ELSE server[f]]
        /\ cached' = Refreshed(checkIn, server')
     \/ UNCHANGED <<server, cached>>
  /\ UNCHANGED <<provider, scReply, compared, patch>>

\* Another user, or the user outside of the editor, changes a file's state; the
\* provider comes and goes.
OthersWork ==
  /\ \/ \E f \in Files, s \in {"unchanged", "checked_out_other", "modified"} : server' = [server EXCEPT ![f] = s]
        /\ UNCHANGED provider
     \/ provider' = ~provider /\ UNCHANGED server
  /\ UNCHANGED <<cached, checkIn, scReply, compared, patch>>

------------------------------------------------------------------------------
(* SCT_BuildUnifiedDiff: a longest common subsequence by its table, then back *)
(* from the ends of both texts.                                              *)

Cut(text) == SubSeq(text, 1, IF Len(text) > LineCap THEN LineCap ELSE Len(text))

Common(a, b) ==
  LET table[p \in (0 .. Len(a)) \X (0 .. Len(b))] ==
        LET i == p[1]
            j == p[2]
        IN  IF i = 0 \/ j = 0 THEN 0
            ELSE IF a[i] = b[j] THEN table[<<i - 1, j - 1>>] + 1
            ELSE IF table[<<i - 1, j>>] > table[<<i, j - 1>>] THEN table[<<i - 1, j>>]
            ELSE table[<<i, j - 1>>]
  IN  table

\* Mutant: what is left of one text when the other is used up is lost.
RestLost(op, text, n) == <<>>

RestOf(op, text, n) == [k \in 1 .. n |-> <<op, text[k]>>]

\* The operations for the first i and j lines.
Scripts(a, b) ==
  LET table == Common(a, b)
      ops[p \in (0 .. Len(a)) \X (0 .. Len(b))] ==
        LET i == p[1]
            j == p[2]
        IN  IF j = 0 THEN RestOf("gone", a, i)
            ELSE IF i = 0 THEN RestOf("added", b, j)
            ELSE IF a[i] = b[j] THEN Append(ops[<<i - 1, j - 1>>], <<"kept", a[i]>>)
            ELSE IF table[<<i - 1, j>>] >= table[<<i, j - 1>>] THEN Append(ops[<<i - 1, j>>], <<"gone", a[i]>>)
            ELSE Append(ops[<<i, j - 1>>], <<"added", b[j]>>)
  IN  ops

UnifiedDiff(a, b) == Scripts(a, b)[<<Len(a), Len(b)>>]

\* sc.diff of two revisions, each read by SCT_LoadRevisionBytes.
DiffFile ==
  /\ provider /\ patch = <<>>
  /\ patch' = UnifiedDiff(Cut(compared[1]), Cut(compared[2]))
  /\ UNCHANGED <<provider, server, cached, checkIn, scReply, compared>>

\* sc.diff_binary answers with the bytes of both sides.
DiffBinary == compared

SourceControlNext ==
  /\ Status \/ Checkout \/ Revert \/ SubmitInternal \/ SubmitBody \/ OthersWork
  /\ Look

DiffNext == DiffFile /\ Look

------------------------------------------------------------------------------
(* Properties.                                                               *)

\* The lines of a script that bear one of these marks.
LinesOf(script, marks) ==
  LET lines[k \in 0 .. Len(script)] ==
        IF k = 0 THEN <<>>
        ELSE IF script[k][1] \in marks THEN Append(lines[k - 1], script[k][2]) ELSE lines[k - 1]
  IN  lines[Len(script)]

\* s is what remains of t if lines are taken away.
Within(s, t) ==
  \E f \in [DOMAIN s -> DOMAIN t] :
    \A i, j \in DOMAIN s : s[i] = t[f[i]] /\ (i < j => f[i] < f[j])

\* A shortest edit script: the lines kept and taken away are the first text,
\* those kept and added the second, and no script keeps more lines (up to the
\* cap on the lines of a side).
DiffIsShortest ==
  patch # <<>> =>
    LET a == Cut(compared[1])
        b == Cut(compared[2])
    IN  /\ LinesOf(patch, {"kept", "gone"}) = a /\ LinesOf(patch, {"kept", "added"}) = b
        /\ \A s \in Texts : Len(s) > Len(LinesOf(patch, {"kept"})) => ~(Within(s, a) /\ Within(s, b))
=============================================================================
