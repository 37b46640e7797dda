----------------------------- MODULE WorldProofs ----------------------------
(* Proofs about the tools that edit a world and play it, for every instance *)
(* of their constants.  A behaviour works with one surface, so each proof   *)
(* first says which steps reach the variables of its surface.               *)
EXTENDS WorldSurfaces, DataLemmas, FiniteSetTheorems

------------------------------------------------------------------------------
(* Collision profiles.                                                      *)

\* The responses are changed by collision.set_profile_response alone.
LEMMA CollisionFrame ==
  ASSUME [Next]_vars
  PROVE  SetProfileResponse \/ UNCHANGED collisionVars
  <1> USE DEF OthersStill, settingVars, collisionVars, cfgVars
  <1>1. CASE CollisionStep
    BY <1>1 DEF CollisionStep, CollisionNext
  <1>2. CASE CfgStep
    BY <1>2 DEF CfgStep, CfgNext, CallSubsystem
  <1>3. CASE TagStep
    BY <1>3 DEF TagStep, TagNext
  <1>4. CASE UNCHANGED vars
    BY <1>4 DEF vars
  <1> QED
    BY <1>1, <1>2, <1>3, <1>4
    DEF Next, SceneStep, OutlinerStep, ComponentStep, LevelStep, BatchStep, PlayStep, TreeStep,
        AgentStep, InsightsStep, StatStep, TestStep, ViewStep, DrawStep, SourceControlStep, DiffStep,
        CodingStep, PlayWorld, UserSaves

ResponseKinds == {"Block", "Overlap", "Ignore"}

\* Loading what was stored gives back the responses: a channel is stored with
\* one response, or not at all if it has the default one.
LEMMA StoredAndFilledIn ==
  ASSUME NEW p, NEW r \in [Channels -> ResponseKinds]
  PROVE  FilledIn(CustomOf(p, r)) = r
  <1> DEFINE stored == CustomOf(p, r)
  <1>1. \A e : e \in stored <=> \E d \in Channels : r[d] # "Block" /\ e = <<d, r[d]>>
    BY DEF CustomOf, DefaultResponse
  <1> HIDE DEF stored
  <1>2. ASSUME NEW c \in Channels
        PROVE  (IF \E e \in stored : e[1] = c THEN (CHOOSE e \in stored : e[1] = c)[2]
                ELSE DefaultResponse[c]) = r[c]
    <2>1. CASE r[c] = "Block"
      <3>1. ~ \E e \in stored : e[1] = c
        BY <2>1, <1>1
      <3> QED BY <3>1, <2>1 DEF DefaultResponse
    <2>2. CASE r[c] # "Block"
      <3>1. <<c, r[c]>> \in stored
        BY <2>2, <1>1
      <3>2. \A e \in stored : e[1] = c => e = <<c, r[c]>>
        BY <1>1
      <3>3. (CHOOSE e \in stored : e[1] = c) = <<c, r[c]>>
        BY <3>1, <3>2
      <3>4. <<c, r[c]>>[1] = c /\ <<c, r[c]>>[2] = r[c]
        OBVIOUS
      <3>5. \E e \in stored : e[1] = c
        BY <3>1, <3>4
      <3>6. (CHOOSE e \in stored : e[1] = c)[2] = r[c]
        BY <3>3, <3>4
      <3> QED BY <3>5, <3>6
    <2> QED BY <2>1, <2>2
  <1>3. FilledIn(stored) = [c \in Channels |-> r[c]]
    BY <1>2 DEF FilledIn
  <1> QED BY <1>3 DEF stored

\* ResponsesInForce with the types that make it inductive.
CollisionInv ==
  /\ asked \in [Profiles -> [Channels -> ResponseKinds]]
  /\ custom \in [Profiles -> SUBSET (Channels \X ResponseKinds)]
  /\ ResponsesInForce

\* The response in force of each channel of a profile is the last one asked for,
\* however many were stored as differences from the default and loaded again.
THEOREM LastResponseInForce == Spec => []ResponsesInForce
  <1>1. Init => CollisionInv
    BY DEF Init, SettingInit, CollisionInv, ResponsesInForce, DefaultResponse, ResponseKinds
  <1>2. CollisionInv /\ [Next]_vars => CollisionInv'
    <2> SUFFICES ASSUME CollisionInv, [Next]_vars PROVE CollisionInv'
      OBVIOUS
    <2>1. CASE UNCHANGED collisionVars
      BY <2>1 DEF CollisionInv, ResponsesInForce, collisionVars
    <2>2. CASE SetProfileResponse
      <3>1. PICK p \in Profiles, c \in Channels, r \in ResponseKinds :
              /\ custom' = [custom EXCEPT ![p] = CustomOf(p, [responses[p] EXCEPT ![c] = r])]
              /\ responses' = [responses EXCEPT ![p] = FilledIn(custom'[p])]
              /\ asked' = [asked EXCEPT ![p][c] = r]
        BY <2>2 DEF SetProfileResponse, ResponseKinds
      <3> DEFINE new == [responses[p] EXCEPT ![c] = r]
      <3>2. /\ responses = asked /\ responses \in [Profiles -> [Channels -> ResponseKinds]]
            /\ custom \in [Profiles -> SUBSET (Channels \X ResponseKinds)]
        BY DEF CollisionInv, ResponsesInForce
      <3>3. new \in [Channels -> ResponseKinds]
        BY <3>2
      <3>4. custom'[p] = CustomOf(p, new)
        BY <3>1, <3>2
      <3>5. responses' = [responses EXCEPT ![p] = new]
        BY <3>1, <3>3, <3>4, StoredAndFilledIn
      <3>6. asked' = [asked EXCEPT ![p] = new]
        BY <3>1, <3>2
      <3>7. CustomOf(p, new) \in SUBSET (Channels \X ResponseKinds)
        BY <3>3 DEF CustomOf
      <3> QED BY ZenonT(20), <3>1, <3>2, <3>3, <3>5, <3>6, <3>7 DEF CollisionInv, ResponsesInForce
    <2> QED BY <2>1, <2>2, CollisionFrame
  <1>3. CollisionInv => ResponsesInForce
    BY DEF CollisionInv
  <1> QED BY <1>1, <1>2, <1>3, PTL DEF Spec
------------------------------------------------------------------------------
(* Batch jobs over actors.                                                  *)

\* The batch surface alone moves its variables.
LEMMA BatchFrame ==
  ASSUME [Next]_vars
  PROVE  BatchNext \/ UNCHANGED batchVars
  BY DEF Next, vars, OthersStill, SceneStep, OutlinerStep, ComponentStep, LevelStep, BatchStep,
         PlayStep, TreeStep, AgentStep, InsightsStep, StatStep, TestStep, ViewStep, DrawStep,
         SourceControlStep, DiffStep, CodingStep, CfgStep, CollisionStep, TagStep, PlayWorld, UserSaves

\* A submitted batch names a list.
BatchInv == batch.items \in Seq(BatchActors) /\ BatchAccountTrue

\* What a batch job says of its items is true of the world that it leaves,
\* whatever the world has become between the request and the body.
THEOREM BatchesTellTheTruth == Spec => []BatchAccountTrue
  <1>1. Init => BatchInv
    BY DEF Init, BatchInit, BatchInv, BatchAccountTrue, NoBatch, NoReport
  <1>2. BatchInv /\ [Next]_vars => BatchInv'
    <2> SUFFICES ASSUME BatchInv, BatchNext PROVE BatchInv'
      BY BatchFrame DEF BatchInv, BatchAccountTrue, batchVars
    <2>0. batch.items \in Seq(BatchActors) /\ BatchAccountTrue /\ Len(batch.items) \in Nat
      BY DEF BatchInv
    <2>1. CASE SubmitBatch
      BY <2>0, <2>1, BatchListsAreLists DEF SubmitBatch, BatchInv, BatchAccountTrue
    <2>2. CASE WorldMoves
      BY <2>0, <2>2 DEF WorldMoves, BatchInv, BatchAccountTrue, NoReport
    <2>3. CASE RunBatch
      <3> DEFINE all == Reached(Len(batch.items))
      <3>1. batch' = NoBatch
        BY <2>3 DEF RunBatch
      <3>2. batch'.items \in Seq(BatchActors)
        BY <3>1 DEF NoBatch
      <3>3. ASSUME NEW n \in 0 .. Len(batch.items), NEW ok, NEW failed, Ended(n, ok, failed),
                   report'.ended = "ran"
            PROVE  n = Len(batch.items) /\ report' = Report(ok, failed, "ran")
        BY <2>0, <3>3 DEF Ended, Report
      <3>4. CASE BatchSpawn
        <4>1. PICK n \in 0 .. Len(batch.items), refused \in SUBSET BatchActors :
                /\ batch.kind = "spawn"
                /\ here' = here \cup (Reached(n) \ refused)
                /\ Ended(n, Reached(n) \ refused, Reached(n) \ (Reached(n) \ refused))
          BY <3>4 DEF BatchSpawn
        <4>2. report'.ended = "ran" =>
                report' = Report(all \ refused, all \ (all \ refused), "ran") /\ n = Len(batch.items)
          BY <4>1, <3>3
        <4> HIDE DEF all
        <4>3. report'.ended = "ran" =>
                /\ report'.items = all /\ report'.before = here /\ report'.ok = all \ refused
                /\ report'.failed = all \ (all \ refused) /\ report'.kind = "spawn"
                /\ here' = here \cup (all \ refused)
          BY <4>1, <4>2 DEF Report, all
        <4>4. BatchAccountTrue'
          BY <4>3 DEF BatchAccountTrue
        <4> QED BY <3>2, <4>4 DEF BatchInv
      <3>5. CASE BatchDestroy
        <4>1. PICK n \in 0 .. Len(batch.items) :
                /\ batch.kind = "destroy"
                /\ here' = here \ Destroyable(Reached(n))
                /\ Ended(n, Reached(n) \ hidden, Reached(n) \cap hidden)
          BY <3>5 DEF BatchDestroy
        <4>2. report'.ended = "ran" =>
                report' = Report(all \ hidden, all \cap hidden, "ran") /\ n = Len(batch.items)
          BY <4>1, <3>3
        <4> HIDE DEF all
        <4>3. report'.ended = "ran" =>
                /\ report'.items = all /\ report'.before = here /\ report'.ok = all \ hidden
                /\ report'.failed = all \cap hidden /\ report'.kind = "destroy"
                /\ here' = here \ ((all \cap here) \ hidden)
          BY <4>1, <4>2 DEF Report, all, Destroyable
        <4>4. BatchAccountTrue'
          BY <4>3 DEF BatchAccountTrue
        <4> QED BY <3>2, <4>4 DEF BatchInv
      <3>6. CASE BatchSetProperty
        <4>1. PICK n \in 0 .. Len(batch.items), refused \in SUBSET BatchActors :
                LET ok == (Reached(n) \cap here) \ (hidden \cup refused)
                IN  /\ batch.kind = "set"
                    /\ here' = here
                    /\ Ended(n, ok, Reached(n) \ ok)
          BY <3>6 DEF BatchSetProperty
        <4> DEFINE set == (all \cap here) \ (hidden \cup refused)
        <4>2. report'.ended = "ran" => report' = Report(set, all \ set, "ran")
          BY <4>1, <3>3
        <4> HIDE DEF all
        <4>3. report'.ended = "ran" =>
                /\ report'.items = all /\ report'.before = here /\ report'.ok = set
                /\ report'.failed = all \ set /\ report'.kind = "set"
                /\ here' = here
          BY <4>1, <4>2 DEF Report, all
        <4> HIDE DEF set
        <4>5. report'.ended = "ran" =>
                report'.ok \cup report'.failed = report'.items /\ report'.ok \cap report'.failed = {}
          BY <4>3 DEF set
        <4>4. BatchAccountTrue'
          BY <4>3, <4>5 DEF BatchAccountTrue
        <4> QED BY <3>2, <4>4 DEF BatchInv
      <3>7. CASE BatchRefused
        BY <3>2, <3>7 DEF BatchRefused, BatchInv, BatchAccountTrue, Report
      <3>8. CASE FindActors \/ FullActorDump
        <4>1. batch.kind \in {"find", "dump"} /\ report'.kind = batch.kind
          BY <3>8 DEF FindActors, FullActorDump, Scanned, Report
        <4> QED BY <3>2, <4>1 DEF BatchInv, BatchAccountTrue
      <3> QED BY <2>3, <3>4, <3>5, <3>6, <3>7, <3>8 DEF RunBatch
    <2> QED BY <2>1, <2>2, <2>3 DEF BatchNext
  <1>3. BatchInv => BatchAccountTrue
    BY DEF BatchInv
  <1> QED BY <1>1, <1>2, <1>3, PTL DEF Spec
------------------------------------------------------------------------------
(* Captures.                                                                *)

\* The insights and the stat surface move the variables of the captures.
LEMMA CaptureFrame ==
  ASSUME [Next]_vars
  PROVE  InsightsNext \/ StatNext \/ UNCHANGED captureVars
  BY DEF Next, vars, OthersStill, SceneStep, OutlinerStep, ComponentStep, LevelStep, BatchStep,
         PlayStep, TreeStep, AgentStep, InsightsStep, StatStep, TestStep, ViewStep, DrawStep,
         SourceControlStep, DiffStep, CodingStep, CfgStep, CollisionStep, TagStep, PlayWorld, UserSaves

\* What the stamp of the bridge says, between the steps of the two handlers that
\* write it and while the console leaves the traces alone.
StampTypes ==
  /\ trace \in [id : Nat, state : {"off", "on", "paused"}]
  /\ stamp \in Nat
  /\ handler \in {"idle", "stamp", "clear"}
  /\ status \in [at : {"done", "path", "start"}, path : Nat, start : Nat]
  /\ status.path <= trace.id

StampIsOfTrace ==
  /\ stamp \in {0, trace.id}
  /\ handler = "idle" /\ trace.state = "off" => stamp = 0
  /\ handler = "idle" /\ trace.state # "off" => stamp = trace.id
  /\ handler = "stamp" => trace.state # "off"
  /\ handler = "clear" => trace.state = "off"
  /\ status.at = "done" => status.start = 0 \/ status.start >= status.path

StampInv ==
  /\ StampTypes
  /\ byUser = TRUE \/ StampIsOfTrace

LEMMA StampStep ==
  ASSUME StampTypes, InsightsNext
  PROVE  /\ StampTypes'
         /\ StampIsOfTrace => StampIsOfTrace' \/ byUser' = TRUE
         /\ byUser = TRUE => byUser' = TRUE
  <1>0. /\ trace.id \in Nat /\ trace.state \in {"off", "on", "paused"}
        /\ trace = [id |-> trace.id, state |-> trace.state]
        /\ status.path \in Nat /\ status.start \in Nat /\ status.path <= trace.id
        /\ status = [at |-> status.at, path |-> status.path, start |-> status.start]
        /\ stamp \in Nat /\ handler \in {"idle", "stamp", "clear"}
        /\ trace \in [id : Nat, state : {"off", "on", "paused"}]
        /\ status \in [at : {"done", "path", "start"}, path : Nat, start : Nat]
    BY DEF StampTypes
  <1>2. CASE StartCapture
    <2>1. /\ trace.state = "off" /\ handler = "idle" /\ trace' = [id |-> trace.id + 1, state |-> "on"]
          /\ handler' = "stamp" /\ stamp' = stamp /\ byUser' = byUser /\ status' = status
      BY <1>2 DEF StartCapture, TraceStarts
    <2>2. StampTypes'
      BY <1>0, <2>1 DEF StampTypes
    <2> QED BY <1>0, <2>1, <2>2 DEF StampIsOfTrace
  <1>3. CASE StampStart
    BY <1>0, <1>3 DEF StampStart, StampTypes, StampIsOfTrace
  <1>4. CASE StopCapture
    BY <1>0, <1>4 DEF StopCapture, TraceStops, StampTypes, StampIsOfTrace
  <1>5. CASE ClearStamp
    BY <1>0, <1>5 DEF ClearStamp, Cleared, StampTypes, StampIsOfTrace
  <1>6. CASE PauseTrace
    BY <1>0, <1>6 DEF PauseTrace, StampTypes, StampIsOfTrace
  <1>7. CASE ResumeTrace
    BY <1>0, <1>7 DEF ResumeTrace, StampTypes, StampIsOfTrace
  <1>8. CASE WriteSnapshot
    BY <1>0, <1>8 DEF WriteSnapshot, insights, StampTypes, StampIsOfTrace
  <1>9. CASE UserTraces
    <2>1. byUser' = TRUE /\ stamp' = stamp /\ handler' = handler /\ status' = status
      BY <1>9 DEF UserTraces
    <2>2. trace' = [id |-> trace.id + 1, state |-> "on"] \/ trace' = [id |-> trace.id, state |-> "off"]
      BY <1>0, <1>9 DEF UserTraces, TraceStarts, TraceStops
    <2>3. StampTypes'
      BY <1>0, <2>1, <2>2 DEF StampTypes
    <2> QED BY <2>1, <2>3
  <1>10. CASE GetStatus
    <2>0. trace' = trace /\ stamp' = stamp /\ handler' = handler /\ byUser' = byUser
      BY <1>10 DEF GetStatus
    <2>1. CASE status' = [at |-> "path", path |-> 0, start |-> 0]
      BY <1>0, <2>0, <2>1 DEF StampTypes, StampIsOfTrace
    <2>2. CASE status' = [at |-> "start", start |-> status.start,
                          path |-> IF trace.state = "off" THEN 0 ELSE trace.id]
      <3>1. /\ status'.path \in Nat /\ status'.path <= trace.id
            /\ status'.at = "start" /\ status'.start = status.start
        BY <1>0, <2>2
      <3>2. StampTypes'
        BY <1>0, <2>0, <2>2, <3>1 DEF StampTypes
      <3> QED BY <1>0, <2>0, <3>1, <3>2 DEF StampIsOfTrace
    <2>3. CASE status' = [at |-> "done", path |-> status.path, start |-> stamp]
      BY <1>0, <2>0, <2>3 DEF StampTypes, StampIsOfTrace
    <2> QED BY <1>0, <1>10, <2>1, <2>2, <2>3 DEF GetStatus, NoStatus
  <1> QED
    BY <1>2, <1>3, <1>4, <1>5, <1>6, <1>7, <1>8, <1>9, <1>10 DEF InsightsNext

\* The running capture lacks some of its frames, and there is a ticker that waits
\* for them.  A ticker ends whatever runs, so it is only of a capture that
\* nothing overlapped, where there is no other, that the bridge knows when it
\* ends.
FrameInv ==
  \E k \in Nat :
    /\ capture.made \in [1 .. k -> [asked : Nat, frames : Nat, over : BOOLEAN]]
    /\ capture = [on |-> capture.on, made |-> capture.made]
    /\ capture.on \in 0 .. k
    /\ capture.on # 0 =>
         /\ capture.made[capture.on].frames < capture.made[capture.on].asked
         /\ <<capture.on, capture.made[capture.on].asked - capture.made[capture.on].frames>> \in stopTickers
    /\ capture.on # 0 /\ capture.made[capture.on].over = FALSE =>
         stopTickers = {<<capture.on, capture.made[capture.on].asked - capture.made[capture.on].frames>>}
    /\ \A d \in 1 .. k : capture.made[d].frames <= capture.made[d].asked
    /\ \A d \in 1 .. k :
         capture.on # d /\ capture.made[d].over = FALSE => capture.made[d].frames = capture.made[d].asked

LEMMA FrameInvMeansFrames == ASSUME FrameInv PROVE CaptureHasItsFrames
  BY DEF FrameInv, CaptureHasItsFrames

LEMMA DumpKeepsFrames == ASSUME FrameInv, DumpToFile PROVE FrameInv'
  <1>1. PICK k \in Nat :
          /\ capture.made \in [1 .. k -> [asked : Nat, frames : Nat, over : BOOLEAN]]
          /\ capture.on \in 0 .. k
          /\ \A d \in 1 .. k : capture.made[d].frames <= capture.made[d].asked
          /\ \A d \in 1 .. k :
               capture.on # d /\ capture.made[d].over = FALSE => capture.made[d].frames = capture.made[d].asked
    BY DEF FrameInv
  <1>2. Cardinality(DOMAIN capture.made) = k
    <2>1. DOMAIN capture.made = 1 .. k /\ 1 \in Int /\ k \in Int
      BY <1>1
    <2>2. Cardinality(1 .. k) = IF 1 > k THEN 0 ELSE k - 1 + 1
      BY <2>1, FS_Interval
    <2> QED BY <1>1, <2>1, <2>2
  <1>3. PICK n \in DumpFrames :
          LET over == capture.on # 0 \/ stopTickers # {}
          IN  /\ capture' = [on |-> k + 1,
                   made |-> [d \in 1 .. k + 1 |-> IF d = k + 1 THEN [asked |-> n, frames |-> 0, over |-> over]
                             ELSE [capture.made[d] EXCEPT !.over = @ \/ d = capture.on]]]
              /\ stopTickers' = stopTickers \cup {<<k + 1, n>>}
    BY <1>2 DEF DumpToFile
  <1>4. n \in Nat /\ 0 < n
    BY FramesAsked
  <1>5. capture'.on = k + 1 /\ DOMAIN capture'.made = 1 .. k + 1
    BY <1>3
  <1> DEFINE over == capture.on # 0 \/ stopTickers # {}
  <1>0. over \in BOOLEAN /\ (over = FALSE => stopTickers = {})
    OBVIOUS
  <1> HIDE DEF over
  <1>6. /\ capture'.made[k + 1] = [asked |-> n, frames |-> 0, over |-> over]
        /\ capture'.made[k + 1] \in [asked : Nat, frames : Nat, over : BOOLEAN]
    BY <1>0, <1>1, <1>3, <1>4 DEF over
  <1>7. ASSUME NEW d \in 1 .. k
        PROVE  /\ capture'.made[d] \in [asked : Nat, frames : Nat, over : BOOLEAN]
               /\ capture'.made[d].asked = capture.made[d].asked
               /\ capture'.made[d].frames = capture.made[d].frames
               /\ capture'.made[d].over = FALSE => capture.made[d].over = FALSE /\ d # capture.on
    <2> DEFINE still == capture.made[d].over \/ d = capture.on
    <2>1. capture'.made[d] = [capture.made[d] EXCEPT !.over = still]
      BY <1>3
    <2>2. capture.made[d] \in [asked : Nat, frames : Nat, over : BOOLEAN]
      BY <1>1
    <2>3. capture.made[d].over \in BOOLEAN
      BY <2>2
    <2>4. still \in BOOLEAN /\ (still = FALSE => capture.made[d].over = FALSE /\ d # capture.on)
      BY <2>3
    <2> HIDE DEF still
    <2> QED BY <2>1, <2>2, <2>4
  <1>8. capture'.made \in [1 .. k + 1 -> [asked : Nat, frames : Nat, over : BOOLEAN]]
    <2>1. ASSUME NEW d \in 1 .. k + 1 PROVE d \in 1 .. k \/ d = k + 1
      OBVIOUS
    <2>2. \A d \in 1 .. k + 1 : capture'.made[d] \in [asked : Nat, frames : Nat, over : BOOLEAN]
      BY <1>6, <1>7, <2>1
    <2>3. \E f : capture'.made = [d \in 1 .. k + 1 |-> f[d]]
      <3> DEFINE g == [d \in 1 .. k + 1 |-> IF d = k + 1 THEN [asked |-> n, frames |-> 0, over |-> over]
                       ELSE [capture.made[d] EXCEPT !.over = @ \/ d = capture.on]]
      <3>1. capture'.made = g
        BY <1>3 DEF over
      <3>2. g = [d \in 1 .. k + 1 |-> g[d]]
        OBVIOUS
      <3> QED BY ZenonT(20), <3>1, <3>2
    <2> QED BY <2>2, <2>3
  <1>9. capture'.made[k + 1].over = FALSE => stopTickers' = {<<k + 1, n>>}
    BY <1>0, <1>3, <1>6
  <1>10. ASSUME NEW d \in 1 .. k + 1, capture'.on # d, capture'.made[d].over = FALSE
         PROVE  capture'.made[d].frames = capture'.made[d].asked
    <2>1. d \in 1 .. k
      BY <1>5, <1>10
    <2>2. capture.made[d].over = FALSE /\ capture.on # d
      BY <1>1, <1>7, <1>10, <2>1
    <2> QED BY <1>1, <1>7, <2>1, <2>2
  <1>11. /\ capture'.made[k + 1].frames = 0 /\ capture'.made[k + 1].asked = n
         /\ capture' = [on |-> capture'.on, made |-> capture'.made]
    BY <1>3, <1>6
  <1>12. k + 1 \in Nat /\ capture'.on \in 0 .. k + 1 /\ n - 0 = n
    BY <1>4, <1>5
  <1>13. capture'.on # 0 /\ capture'.made[capture'.on].over = FALSE =>
           stopTickers' = {<<capture'.on, capture'.made[capture'.on].asked - capture'.made[capture'.on].frames>>}
    BY <1>4, <1>5, <1>9, <1>11, <1>12
  <1>14. /\ capture'.made[capture'.on].frames < capture'.made[capture'.on].asked
         /\ <<capture'.on, capture'.made[capture'.on].asked - capture'.made[capture'.on].frames>> \in stopTickers'
    <2>1. <<k + 1, n>> \in stopTickers'
      BY <1>3
    <2> QED BY <1>4, <1>5, <1>11, <1>12, <2>1
  <1>15. \A d \in 1 .. k + 1 : capture'.made[d].frames <= capture'.made[d].asked
    <2>1. \A d \in 1 .. k : capture'.made[d].frames <= capture'.made[d].asked
      BY <1>1, <1>7
    <2>2. capture'.made[k + 1].frames <= capture'.made[k + 1].asked
      BY <1>4, <1>11
    <2> QED BY <2>1, <2>2
  <1> QED BY <1>8, <1>10, <1>11, <1>12, <1>13, <1>14, <1>15 DEF FrameInv

LEMMA TickKeepsFrames == ASSUME FrameInv, CoreTick PROVE FrameInv'
  <1>1. PICK k \in Nat :
          /\ capture.made \in [1 .. k -> [asked : Nat, frames : Nat, over : BOOLEAN]]
          /\ capture.on \in 0 .. k
          /\ capture.on # 0 =>
               /\ capture.made[capture.on].frames < capture.made[capture.on].asked
               /\ <<capture.on, capture.made[capture.on].asked - capture.made[capture.on].frames>> \in stopTickers
          /\ capture.on # 0 /\ capture.made[capture.on].over = FALSE =>
               stopTickers = {<<capture.on, capture.made[capture.on].asked - capture.made[capture.on].frames>>}
          /\ \A d \in 1 .. k : capture.made[d].frames <= capture.made[d].asked
          /\ \A d \in 1 .. k :
               capture.on # d /\ capture.made[d].over = FALSE => capture.made[d].frames = capture.made[d].asked
    BY DEF FrameInv
  <1>2. /\ stopTickers' = {<<t[1], t[2] - 1>> : t \in {u \in stopTickers : ~Due(u)}}
        /\ capture' = [on   |-> IF \E t \in stopTickers : Due(t) THEN 0 ELSE capture.on,
                       made |-> [d \in 1 .. k |->
                                   IF d = capture.on THEN [capture.made[d] EXCEPT !.frames = @ + 1] ELSE capture.made[d]]]
    BY <1>1 DEF CoreTick
  <1>3. /\ capture' = [on |-> capture'.on, made |-> capture'.made]
        /\ capture'.on = IF \E t \in stopTickers : Due(t) THEN 0 ELSE capture.on
        /\ DOMAIN capture'.made = 1 .. k
        /\ capture'.made = [d \in 1 .. k |->
                              IF d = capture.on THEN [capture.made[d] EXCEPT !.frames = @ + 1] ELSE capture.made[d]]
    BY <1>2
  <1>4. ASSUME NEW d \in 1 .. k
        PROVE  /\ d = capture.on => capture'.made[d] = [asked |-> capture.made[d].asked, over |-> capture.made[d].over,
                                                       frames |-> capture.made[d].frames + 1]
               /\ d # capture.on => capture'.made[d] = capture.made[d]
               /\ d = capture.on => /\ capture'.made[d].asked = capture.made[d].asked
                                    /\ capture'.made[d].over = capture.made[d].over
                                    /\ capture'.made[d].frames = capture.made[d].frames + 1
               /\ capture'.made[d] \in [asked : Nat, frames : Nat, over : BOOLEAN]
    <2>1. capture'.made[d] = IF d = capture.on THEN [capture.made[d] EXCEPT !.frames = @ + 1] ELSE capture.made[d]
      BY <1>3
    <2>2. capture.made[d] \in [asked : Nat, frames : Nat, over : BOOLEAN]
      BY <1>1
    <2>3. capture.made[d] = [asked |-> capture.made[d].asked, frames |-> capture.made[d].frames,
                             over |-> capture.made[d].over] /\ capture.made[d].frames \in Nat
      BY <2>2
    <2>4. [capture.made[d] EXCEPT !.frames = @ + 1] =
            [asked |-> capture.made[d].asked, over |-> capture.made[d].over, frames |-> capture.made[d].frames + 1]
      BY <2>3
    <2> QED BY <2>1, <2>2, <2>3, <2>4
  <1>5. capture'.made \in [1 .. k -> [asked : Nat, frames : Nat, over : BOOLEAN]]
    BY <1>3, <1>4
  <1>6. capture'.on \in 0 .. k
    BY <1>1, <1>3
  <1>7. ASSUME NEW d \in 1 .. k, d = capture.on, capture'.made[d].over = FALSE
        PROVE  \E left \in Nat :
                 /\ left = capture.made[d].asked - capture.made[d].frames /\ 0 < left
                 /\ capture'.made[d].asked = capture.made[d].asked
                 /\ capture'.made[d].frames = capture.made[d].frames + 1
                 /\ left = 1 => capture'.on = 0
                 /\ left > 1 => capture'.on = d /\ stopTickers' = {<<d, left - 1>>}
    <2> DEFINE left == capture.made[d].asked - capture.made[d].frames
    <2>1. /\ capture'.made[d].asked = capture.made[d].asked
          /\ capture'.made[d].over = capture.made[d].over
          /\ capture'.made[d].frames = capture.made[d].frames + 1
      BY <1>4, <1>7
    <2>8. capture.made[d].over = FALSE
      BY <1>7, <2>1
    <2>2. capture.made[d].asked \in Nat /\ capture.made[d].frames \in Nat
      BY <1>1
    <2>3. capture.made[d].frames < capture.made[d].asked /\ stopTickers = {<<d, left>>}
      BY <1>1, <1>7, <2>8
    <2>4. left \in Nat /\ 0 < left
      BY <2>2, <2>3
    <2> HIDE DEF left
    <2>5. /\ left <= 1 => \E t \in stopTickers : Due(t)
          /\ left > 1 => \A t \in stopTickers : ~Due(t)
      BY <2>3, <2>4 DEF Due
    <2>6. left = 1 => capture'.on = 0
      BY <1>3, <2>5
    <2>7. ASSUME left > 1 PROVE capture'.on = d /\ stopTickers' = {<<d, left - 1>>}
      <3>1. {u \in stopTickers : ~Due(u)} = {<<d, left>>}
        BY <2>3, <2>5, <2>7
      <3>4. \A e : {<<t[1], t[2] - 1>> : t \in {e}} = {<<e[1], e[2] - 1>>}
        OBVIOUS
      <3>5. <<d, left>>[1] = d /\ <<d, left>>[2] = left
        OBVIOUS
      <3>2. {<<t[1], t[2] - 1>> : t \in {u \in stopTickers : ~Due(u)}} = {<<d, left - 1>>}
        BY <3>1, <3>4, <3>5
      <3>3. capture'.on = d
        BY <1>3, <1>7, <2>5, <2>7
      <3> QED BY <1>2, <3>2, <3>3
    <2>9. left = capture.made[d].asked - capture.made[d].frames
      BY DEF left
    <2> QED BY <2>1, <2>4, <2>6, <2>7, <2>9
  <1>8. capture'.on # 0 /\ capture'.made[capture'.on].over = FALSE =>
          stopTickers' = {<<capture'.on, capture'.made[capture'.on].asked - capture'.made[capture'.on].frames>>}
    <2> SUFFICES ASSUME capture'.on # 0, capture'.made[capture'.on].over = FALSE
                 PROVE  stopTickers' = {<<capture'.on, capture'.made[capture'.on].asked - capture'.made[capture'.on].frames>>}
      OBVIOUS
    <2> DEFINE d == capture'.on
    <2>1. d = capture.on /\ d \in 1 .. k
      BY <1>1, <1>3
    <2>2. capture.made[d].asked \in Nat /\ capture.made[d].frames \in Nat
      BY <1>1, <2>1
    <2>3. PICK left \in Nat :
            /\ left = capture.made[d].asked - capture.made[d].frames /\ 0 < left
            /\ capture'.made[d].asked = capture.made[d].asked
            /\ capture'.made[d].frames = capture.made[d].frames + 1
            /\ left = 1 => capture'.on = 0
            /\ left > 1 => stopTickers' = {<<d, left - 1>>}
      BY <1>7, <2>1
    <2>4. left > 1
      BY <2>3
    <2>5. left - 1 = capture'.made[d].asked - capture'.made[d].frames
      BY <2>2, <2>3
    <2> QED BY <2>3, <2>4, <2>5
  <1>9. ASSUME NEW d \in 1 .. k, capture'.on # d, capture'.made[d].over = FALSE
        PROVE  capture'.made[d].frames = capture'.made[d].asked
    <2>1. CASE d # capture.on
      BY <1>1, <1>4, <1>9, <2>1
    <2>2. CASE d = capture.on
      <3>1. capture.made[d].asked \in Nat /\ capture.made[d].frames \in Nat
        BY <1>1
      <3>2. PICK left \in Nat :
              /\ left = capture.made[d].asked - capture.made[d].frames /\ 0 < left
              /\ capture'.made[d].asked = capture.made[d].asked
              /\ capture'.made[d].frames = capture.made[d].frames + 1
              /\ left > 1 => capture'.on = d
        BY <1>7, <1>9, <2>2
      <3>3. left = 1
        BY <1>9, <3>2
      <3> QED BY <3>1, <3>2, <3>3
    <2> QED BY <2>1, <2>2
  <1>10. ASSUME capture'.on # 0
         PROVE  /\ capture'.made[capture'.on].frames < capture'.made[capture'.on].asked
                /\ <<capture'.on, capture'.made[capture'.on].asked - capture'.made[capture'.on].frames>> \in stopTickers'
    <2> DEFINE d == capture'.on
               left == capture.made[d].asked - capture.made[d].frames
    <2>1. d = capture.on /\ d \in 1 .. k /\ \A t \in stopTickers : ~Due(t)
      BY <1>1, <1>3, <1>10
    <2>2. /\ capture.made[d].asked \in Nat /\ capture.made[d].frames \in Nat
          /\ capture'.made[d].asked = capture.made[d].asked
          /\ capture'.made[d].frames = capture.made[d].frames + 1
      BY <1>1, <1>4, <2>1
    <2>3. <<d, left>> \in stopTickers /\ left \in Nat
      <3>1. capture.on # 0 /\ capture.made[d].frames < capture.made[d].asked /\ <<d, left>> \in stopTickers
        BY <1>1, <1>10, <2>1
      <3>2. QED
        BY <2>2, <3>1
    <2> HIDE DEF left
    <2>4. left > 1
      BY <2>1, <2>3 DEF Due
    <2>5. <<d, left - 1>> \in stopTickers'
      BY <1>2, <2>1, <2>3
    <2>6. left - 1 = capture'.made[d].asked - capture'.made[d].frames
      BY <2>2 DEF left
    <2>7. capture'.made[d].frames < capture'.made[d].asked
      BY <2>2, <2>4 DEF left
    <2> QED BY <2>5, <2>6, <2>7
  <1>11. ASSUME NEW d \in 1 .. k PROVE capture'.made[d].frames <= capture'.made[d].asked
    <2>1. CASE d # capture.on
      BY <1>1, <1>4, <2>1
    <2>2. CASE d = capture.on
      <3>1. /\ capture.made[d].asked \in Nat /\ capture.made[d].frames \in Nat
            /\ capture.made[d].frames < capture.made[d].asked
        BY <1>1, <2>2
      <3>2. /\ capture'.made[d].asked = capture.made[d].asked
            /\ capture'.made[d].frames = capture.made[d].frames + 1
        BY <1>4, <2>2
      <3> QED BY <3>1, <3>2
    <2> QED BY <2>1, <2>2
  <1> QED BY <1>3, <1>5, <1>6, <1>8, <1>9, <1>10, <1>11 DEF FrameInv

\* What a capture or a status tells its client is what happened, although the
\* status reads its parts between the steps of a handler, the console starts and
\* stops traces too, and a ticker ends whichever capture is running.
THEOREM CapturesTellTheTruth == Spec => []CapturesTrue
  <1> DEFINE Inv == StampInv /\ FrameInv
  <1>1. Init => Inv
    <2> SUFFICES ASSUME Init PROVE Inv
      OBVIOUS
    <2>1. StampInv
      BY DEF Init, CaptureInit, StampInv, StampTypes, StampIsOfTrace, NoStatus
    <2>2. capture = [on |-> 0, made |-> <<>>] /\ stopTickers = {}
      BY DEF Init, CaptureInit
    <2>3. <<>> \in [1 .. 0 -> [asked : Nat, frames : Nat, over : BOOLEAN]]
      OBVIOUS
    <2>4. FrameInv
      <3>1. /\ capture.made \in [1 .. 0 -> [asked : Nat, frames : Nat, over : BOOLEAN]]
            /\ capture = [on |-> capture.on, made |-> capture.made]
            /\ capture.on = 0 /\ 1 .. 0 = {}
        BY <2>2, <2>3
      <3> QED BY <3>1 DEF FrameInv
    <2> QED BY <2>1, <2>4
  <1>2. Inv /\ [Next]_vars => Inv'
    <2> SUFFICES ASSUME Inv, [Next]_vars PROVE Inv'
      OBVIOUS
    <2>1. CASE InsightsNext
      <3>1. StampInv'
        BY <2>1, StampStep DEF StampInv
      <3>2. UNCHANGED <<capture, stopTickers>>
        BY <2>1 DEF InsightsNext, others
      <3> QED BY <3>1, <3>2 DEF FrameInv
    <2>2. CASE StatNext
      <3>1. UNCHANGED insights
        BY <2>2 DEF StatNext
      <3>2. StampInv'
        BY <3>1 DEF insights, StampInv, StampTypes, StampIsOfTrace
      <3>3. FrameInv'
        <4>1. CASE MemReportDump
          BY <4>1 DEF MemReportDump, FrameInv
        <4> QED BY <2>2, <4>1, DumpKeepsFrames, TickKeepsFrames DEF StatNext
      <3> QED BY <3>2, <3>3
    <2>3. CASE UNCHANGED captureVars
      BY <2>3 DEF captureVars, StampInv, StampTypes, StampIsOfTrace, FrameInv
    <2> QED BY <2>1, <2>2, <2>3, CaptureFrame
  <1>3. Inv => CapturesTrue
    <2> SUFFICES ASSUME Inv PROVE StatusNotOlder
      BY FrameInvMeansFrames DEF CapturesTrue
    <2> QED BY DEF StampInv, StampIsOfTrace, StatusNotOlder
  <1> QED BY <1>1, <1>2, <1>3, PTL DEF Spec
------------------------------------------------------------------------------
(* Test runs.                                                               *)

\* The tests surface alone moves its variables.
LEMMA TestFrame ==
  ASSUME [Next]_vars
  PROVE  TestNext \/ UNCHANGED testVars
  BY DEF Next, vars, OthersStill, SceneStep, OutlinerStep, ComponentStep, LevelStep, BatchStep,
         PlayStep, TreeStep, AgentStep, InsightsStep, StatStep, TestStep, ViewStep, DrawStep,
         SourceControlStep, DiffStep, CodingStep, CfgStep, CollisionStep, TagStep, PlayWorld, UserSaves

\* Who is inside the framework holds its lock.
LockInv ==
  /\ reader = [at |-> reader.at, test |-> reader.test, entries |-> reader.entries]
  /\ reader.at \in {"done", "info"}
  /\ reader.at = "info" => lockedBy = "reader"
  /\ gameThread = "single" => lockedBy = "game"

\* Where the batch stands: the names before i are done, one way or the other;
\* those from i on are skipped once the cancellation is seen.
BatchStands ==
  /\ testJob.names \in Seq(Tests \cup {UnknownTest})
  /\ testJob.i \in 1 .. Len(testJob.names) + 1
  /\ testJob.succeeded \cup testJob.failed = 1 .. testJob.i - 1
  /\ testJob.succeeded \cap testJob.failed = {}
  /\ testJob.cancelled \in BOOLEAN
  /\ testJob.cancelled = TRUE => testJob.skipped = testJob.i .. Len(testJob.names)
  /\ testJob.cancelled = FALSE => testJob.skipped = {}
  /\ starter = "tool" => testJob.cancelled = FALSE /\ testJob.i <= Len(testJob.names)

RunJobs == [names : Seq(Tests \cup {UnknownTest}), i : Nat, cancel : BOOLEAN, cancelled : BOOLEAN,
            succeeded : SUBSET Nat, failed : SUBSET Nat, skipped : SUBSET Nat]

\* A test that a tool started is under way while the tool runs, no longer.
ToolsTest == starter = "tool" => gameThread \in {"single", "batch"}

TestInv ==
  /\ LockInv
  /\ ToolsTest
  /\ testJob \in RunJobs
  /\ gameThread = "batch" => BatchStands

LEMMA LocksKept == ASSUME LockInv, TestNext PROVE LockInv'
  <1>1. CASE RunSingle
    BY <1>1 DEF RunSingle, GameEnters, LockInv
  <1>2. CASE SingleEnds
    BY <1>2 DEF SingleEnds, LockInv
  <1>3. CASE CancelCurrent
    BY <1>3 DEF CancelCurrent, LockInv
  <1>4. CASE WindowRuns \/ WindowEnds \/ TestWorks
    BY <1>4 DEF WindowRuns, WindowEnds, TestWorks, LockInv
  <1>5. CASE RunAutomation \/ CancelRun \/ BatchTakesNext \/ BatchStopsTest \/ BatchReplies
    BY <1>5 DEF RunAutomation, CancelRun, BatchTakesNext, BatchStopsTest, BatchReplies, LockInv
  <1>6. CASE ReadResults
    <2>1. CASE reader.at = "done" /\ lockedBy' = "reader" /\ reader' = [at |-> "info", test |-> current, entries |-> 0]
      BY <1>6, <2>1 DEF ReadResults, LockInv
    <2>2. CASE reader.at = "info" /\ lockedBy' = "free" /\ reader' = [reader EXCEPT !.at = "done", !.entries = entries]
      <3>1. reader' = [at |-> "done", test |-> reader.test, entries |-> entries]
        BY <2>2 DEF LockInv
      <3>2. gameThread' # "single"
        BY <1>6, <2>2 DEF ReadResults, LockInv
      <3> QED BY <3>1, <3>2 DEF LockInv
    <2> QED BY <1>6, <2>1, <2>2 DEF ReadResults
  <1> QED BY <1>1, <1>2, <1>3, <1>4, <1>5, <1>6 DEF TestNext

LEMMA ToolsTestKept == ASSUME ToolsTest, TestNext PROVE ToolsTest'
  <1>1. CASE RunSingle \/ SingleEnds \/ CancelCurrent \/ WindowRuns \/ WindowEnds
    BY <1>1 DEF RunSingle, SingleEnds, SingleEnded, CancelCurrent, WindowRuns, WindowEnds,
                TestStarted, TestEnded, ToolsTest
  <1>2. CASE TestWorks \/ RunAutomation \/ CancelRun \/ ReadResults
    BY <1>2 DEF TestWorks, RunAutomation, CancelRun, ReadResults, runVars, ToolsTest
  <1>3. CASE BatchTakesNext
    BY <1>3 DEF BatchTakesNext, TestStarted, runVars, ToolsTest
  <1>4. CASE BatchStopsTest \/ BatchReplies
    BY <1>4 DEF BatchStopsTest, BatchReplies, TestEnded, runVars, ToolsTest
  <1> QED BY <1>1, <1>2, <1>3, <1>4 DEF TestNext

LEMMA BatchAdvances ==
  ASSUME ToolsTest, testJob \in RunJobs, gameThread = "batch" => BatchStands, TestNext
  PROVE  /\ testJob' \in RunJobs
         /\ gameThread' = "batch" => BatchStands'
  <1> DEFINE n == Len(testJob.names)
  <1>0. /\ testJob.names \in Seq(Tests \cup {UnknownTest}) /\ n \in Nat /\ testJob.i \in Nat
        /\ testJob.succeeded \in SUBSET Nat /\ testJob.failed \in SUBSET Nat
        /\ testJob.cancelled \in BOOLEAN
    BY DEF RunJobs
  <1>1. CASE gameThread' # "batch" /\ testJob' = testJob
    BY <1>1
  <1>2. CASE RunSingle \/ SingleEnds \/ CancelCurrent \/ WindowRuns \/ WindowEnds
    BY <1>1, <1>2 DEF RunSingle, SingleEnds, CancelCurrent, WindowRuns, WindowEnds
  <1>3. CASE TestWorks \/ ReadResults
    BY <1>3 DEF TestWorks, ReadResults, runVars, BatchStands
  <1>4. CASE RunAutomation
    <2>1. PICK names \in RunLists : testJob' = [NoRunJob EXCEPT !.names = names]
      BY <1>4 DEF RunAutomation
    <2>2. names \in Seq(Tests \cup {UnknownTest}) /\ Len(names) \in Nat
      BY RunListsAreLists
    <2>3. testJob' = [names |-> names, i |-> 1, cancel |-> FALSE, cancelled |-> FALSE,
                      succeeded |-> {}, failed |-> {}, skipped |-> {}]
      BY <2>1 DEF NoRunJob
    <2>4. starter' # "tool"
      BY <1>4 DEF RunAutomation, runVars, ToolsTest
    <2>5. 1 .. 1 - 1 = {} /\ 1 \in 1 .. Len(names) + 1
      BY <2>2
    <2> QED BY <2>2, <2>3, <2>4, <2>5 DEF BatchStands, RunJobs
  <1>5. CASE CancelRun
    <2>1. testJob' = [testJob EXCEPT !.cancel = TRUE] /\ gameThread = "batch" /\ starter' = starter
      BY <1>5 DEF CancelRun, runVars
    <2>2. testJob' \in RunJobs
      BY <2>1 DEF RunJobs
    <2>3. /\ testJob'.names = testJob.names /\ testJob'.i = testJob.i /\ testJob'.cancelled = testJob.cancelled
          /\ testJob'.succeeded = testJob.succeeded /\ testJob'.failed = testJob.failed
          /\ testJob'.skipped = testJob.skipped
      BY <2>1 DEF RunJobs
    <2> QED BY <2>1, <2>2, <2>3 DEF BatchStands
  <1>6. CASE BatchTakesNext
    <2>0. /\ gameThread = "batch" /\ starter # "tool" /\ testJob.cancelled = FALSE
          /\ testJob.i <= n /\ BatchStands
      BY <1>0, <1>6 DEF BatchTakesNext
    <2>1. CASE testJob' = [testJob EXCEPT !.cancelled = TRUE, !.skipped = SkippedFrom(testJob.i)] /\ starter' = starter
      <3>1. SkippedFrom(testJob.i) = testJob.i .. n /\ testJob.i .. n \in SUBSET Nat
        BY <1>0 DEF SkippedFrom
      <3>2. testJob' \in RunJobs
        BY <2>1, <3>1 DEF RunJobs
      <3>3. /\ testJob'.names = testJob.names /\ testJob'.i = testJob.i /\ testJob'.cancelled = TRUE
            /\ testJob'.succeeded = testJob.succeeded /\ testJob'.failed = testJob.failed
            /\ testJob'.skipped = testJob.i .. n
        BY <2>1, <3>1 DEF RunJobs
      <3> QED BY <2>0, <2>1, <3>2, <3>3 DEF BatchStands
    <2>2. CASE testJob' = [testJob EXCEPT !.failed = @ \cup {testJob.i}, !.i = @ + 1] /\ starter' = starter
      <3>0. testJob.i + 1 \in Nat /\ testJob.failed \cup {testJob.i} \in SUBSET Nat
        BY <1>0
      <3>1. testJob' \in RunJobs
        BY <2>2, <3>0 DEF RunJobs
      <3>2. /\ testJob'.names = testJob.names /\ testJob'.i = testJob.i + 1 /\ testJob'.cancelled = FALSE
            /\ testJob'.succeeded = testJob.succeeded /\ testJob'.failed = testJob.failed \cup {testJob.i}
            /\ testJob'.skipped = testJob.skipped
        BY <2>0, <2>2 DEF RunJobs
      <3>3. testJob.i \notin 1 .. testJob.i - 1 /\ 1 .. testJob.i + 1 - 1 = (1 .. testJob.i - 1) \cup {testJob.i}
        BY <1>0, <2>0 DEF BatchStands
      <3>4. testJob.i + 1 \in 1 .. n + 1
        BY <1>0, <2>0 DEF BatchStands
      <3> QED BY <2>0, <2>2, <3>1, <3>2, <3>3, <3>4 DEF BatchStands
    <2>3. CASE testJob' = testJob
      BY <2>0, <2>3 DEF BatchStands
    <2> QED BY <1>6, <2>1, <2>2, <2>3 DEF BatchTakesNext, runVars
  <1>7. CASE BatchStopsTest
    <2>0. /\ gameThread = "batch" /\ starter = "tool" /\ starter' = "nobody" /\ BatchStands
          /\ testJob.cancelled = FALSE /\ testJob.i <= n
      BY <1>7 DEF BatchStopsTest, TestEnded, BatchStands
    <2>1. testJob.i \notin 1 .. testJob.i - 1 /\ 1 .. testJob.i + 1 - 1 = (1 .. testJob.i - 1) \cup {testJob.i}
      BY <1>0, <2>0 DEF BatchStands
    <2>2. testJob.i + 1 \in 1 .. n + 1 /\ testJob.i + 1 \in Nat
      BY <1>0, <2>0 DEF BatchStands
    <2>6. \A S, F : S \cup F = 1 .. testJob.i - 1 /\ S \cap F = {} =>
            /\ S \cup {testJob.i} \cup F = 1 .. testJob.i + 1 - 1 /\ (S \cup {testJob.i}) \cap F = {}
            /\ S \cup (F \cup {testJob.i}) = 1 .. testJob.i + 1 - 1 /\ S \cap (F \cup {testJob.i}) = {}
      BY <2>1
    <2>7. /\ testJob.succeeded \cup {testJob.i} \cup testJob.failed = 1 .. testJob.i + 1 - 1
          /\ (testJob.succeeded \cup {testJob.i}) \cap testJob.failed = {}
          /\ testJob.succeeded \cup (testJob.failed \cup {testJob.i}) = 1 .. testJob.i + 1 - 1
          /\ testJob.succeeded \cap (testJob.failed \cup {testJob.i}) = {}
          /\ testJob.skipped = {} /\ testJob.names \in Seq(Tests \cup {UnknownTest})
      BY <2>0, <2>6 DEF BatchStands
    <2>8. starter' # "tool"
      BY <2>0
    <2>3. CASE testJob' = [testJob EXCEPT !.succeeded = @ \cup {testJob.i}, !.i = @ + 1]
      <3>1. testJob' \in RunJobs
        BY <1>0, <2>2, <2>3 DEF RunJobs
      <3>2. /\ testJob'.names = testJob.names /\ testJob'.i = testJob.i + 1 /\ testJob'.cancelled = FALSE
            /\ testJob'.succeeded = testJob.succeeded \cup {testJob.i} /\ testJob'.failed = testJob.failed
            /\ testJob'.skipped = testJob.skipped
        BY <2>0, <2>3 DEF RunJobs
      <3>3. BatchStands'
        <4>1. /\ testJob'.names \in Seq(Tests \cup {UnknownTest}) /\ Len(testJob'.names) = n
              /\ testJob'.i \in 1 .. n + 1
          BY <2>2, <2>7, <3>2
        <4>2. testJob'.succeeded \cup testJob'.failed = 1 .. testJob'.i - 1
          <5>1. testJob'.succeeded \cup testJob'.failed = 1 .. testJob.i + 1 - 1
            BY <2>7, <3>2
          <5>2. testJob'.i = testJob.i + 1
            BY <3>2
          <5> QED BY <1>0, <5>1, <5>2
        <4>3. testJob'.succeeded \cap testJob'.failed = {}
          BY <2>7, <3>2
        <4> QED BY <2>7, <2>8, <3>2, <4>1, <4>2, <4>3 DEF BatchStands
      <3> QED BY <3>1, <3>3
    <2>4. CASE testJob' = [testJob EXCEPT !.failed = @ \cup {testJob.i}, !.i = @ + 1]
      <3>1. testJob' \in RunJobs
        BY <1>0, <2>2, <2>4 DEF RunJobs
      <3>2. /\ testJob'.names = testJob.names /\ testJob'.i = testJob.i + 1 /\ testJob'.cancelled = FALSE
            /\ testJob'.succeeded = testJob.succeeded /\ testJob'.failed = testJob.failed \cup {testJob.i}
            /\ testJob'.skipped = testJob.skipped
        BY <2>0, <2>4 DEF RunJobs
      <3>3. BatchStands'
        <4>1. /\ testJob'.names \in Seq(Tests \cup {UnknownTest}) /\ Len(testJob'.names) = n
              /\ testJob'.i \in 1 .. n + 1
          BY <2>2, <2>7, <3>2
        <4>2. testJob'.succeeded \cup testJob'.failed = 1 .. testJob'.i - 1
          <5>1. testJob'.succeeded \cup testJob'.failed = 1 .. testJob.i + 1 - 1
            BY <2>7, <3>2
          <5>2. testJob'.i = testJob.i + 1
            BY <3>2
          <5> QED BY <1>0, <5>1, <5>2
        <4>3. testJob'.succeeded \cap testJob'.failed = {}
          BY <2>7, <3>2
        <4> QED BY <2>7, <2>8, <3>2, <4>1, <4>2, <4>3 DEF BatchStands
      <3> QED BY <3>1, <3>3
    <2>5. CASE testJob' = [testJob EXCEPT !.failed = @ \cup {testJob.i}, !.i = @ + 1,
                           !.cancelled = TRUE, !.skipped = SkippedFrom(testJob.i + 1)]
      <3>0. SkippedFrom(testJob.i + 1) = testJob.i + 1 .. n /\ testJob.i + 1 .. n \in SUBSET Nat
        BY <1>0 DEF SkippedFrom
      <3>1. testJob' \in RunJobs
        BY <1>0, <2>2, <2>5, <3>0 DEF RunJobs
      <3>2. /\ testJob'.names = testJob.names /\ testJob'.i = testJob.i + 1 /\ testJob'.cancelled = TRUE
            /\ testJob'.succeeded = testJob.succeeded /\ testJob'.failed = testJob.failed \cup {testJob.i}
            /\ testJob'.skipped = testJob.i + 1 .. n
        BY <2>0, <2>5, <3>0 DEF RunJobs
      <3>3. BatchStands'
        <4>1. /\ testJob'.names \in Seq(Tests \cup {UnknownTest}) /\ Len(testJob'.names) = n
              /\ testJob'.i \in 1 .. n + 1
          BY <2>2, <2>7, <3>2
        <4>2. testJob'.succeeded \cup testJob'.failed = 1 .. testJob'.i - 1
          <5>1. testJob'.succeeded \cup testJob'.failed = 1 .. testJob.i + 1 - 1
            BY <2>7, <3>2
          <5>2. testJob'.i = testJob.i + 1
            BY <3>2
          <5> QED BY <1>0, <5>1, <5>2
        <4>3. testJob'.succeeded \cap testJob'.failed = {}
          BY <2>7, <3>2
        <4> QED BY <2>7, <2>8, <3>2, <4>1, <4>2, <4>3 DEF BatchStands
      <3> QED BY <3>1, <3>3
    <2> QED BY <1>7, <2>3, <2>4, <2>5 DEF BatchStopsTest
  <1>8. CASE BatchReplies
    <2>1. gameThread' = "idle" /\ testJob' = NoRunJob
      BY <1>8 DEF BatchReplies
    <2> QED BY <2>1 DEF NoRunJob, RunJobs
  <1> QED BY <1>2, <1>3, <1>4, <1>5, <1>6, <1>7, <1>8 DEF TestNext

\* What a batch that is over has reported.
LEMMA OverMeansReported ==
  ASSUME BatchStands, BatchOver
  PROVE  /\ testJob.succeeded \cup testJob.failed \cup testJob.skipped = DOMAIN testJob.names
         /\ Cardinality(testJob.succeeded) + Cardinality(testJob.failed) + Cardinality(testJob.skipped)
              = Len(testJob.names)
  <1> DEFINE n == Len(testJob.names)
             S == testJob.succeeded
             F == testJob.failed
             i == testJob.i
  <1>0. n \in Nat /\ DOMAIN testJob.names = 1 .. n /\ i \in 1 .. n + 1
    BY DEF BatchStands
  <1>1. S \cup F = 1 .. i - 1 /\ S \cap F = {}
    BY DEF BatchStands
  <1>2. testJob.skipped = i .. n
    <2>1. CASE testJob.cancelled = TRUE
      BY <2>1 DEF BatchStands
    <2>2. CASE testJob.cancelled = FALSE
      <3>1. i = n + 1
        BY <1>0, <2>2 DEF BatchOver
      <3>2. i .. n = {}
        BY <1>0, <3>1
      <3> QED BY <2>2, <3>2 DEF BatchStands
    <2> QED BY <2>1, <2>2 DEF BatchStands
  <1> HIDE DEF n, S, F, i
  <1>3. i \in Nat /\ 1 <= i /\ i <= n + 1 /\ i - 1 \in Int /\ 1 \in Int
    BY <1>0
  <1>4. IsFiniteSet(1 .. i - 1) /\ Cardinality(1 .. i - 1) = i - 1
    <2>1. IsFiniteSet(1 .. i - 1) /\ Cardinality(1 .. i - 1) = IF 1 > i - 1 THEN 0 ELSE i - 1 - 1 + 1
      BY <1>3, FS_Interval
    <2> QED BY <1>3, <2>1
  <1>5. IsFiniteSet(i .. n) /\ Cardinality(i .. n) = n - i + 1
    <2>1. IsFiniteSet(i .. n) /\ Cardinality(i .. n) = IF i > n THEN 0 ELSE n - i + 1
      BY <1>0, <1>3, FS_Interval
    <2> QED BY <1>0, <1>3, <2>1
  <1>6. IsFiniteSet(S) /\ IsFiniteSet(F)
    <2>1. S \in SUBSET (1 .. i - 1) /\ F \in SUBSET (1 .. i - 1)
      BY <1>1
    <2> QED BY <1>4, <2>1, FS_Subset
  <1>7. Cardinality(S) + Cardinality(F) = i - 1
    <2>1. Cardinality(S \cup F) = Cardinality(S) + Cardinality(F) - Cardinality(S \cap F)
      BY <1>6, FS_Union
    <2>2. Cardinality(S \cap F) = 0
      BY <1>1, FS_EmptySet
    <2>3. Cardinality(S) \in Nat /\ Cardinality(F) \in Nat
      BY <1>6, FS_CardinalityType
    <2>4. Cardinality(S \cup F) = i - 1
      BY <1>1, <1>4
    <2> QED BY <1>3, <2>1, <2>2, <2>3, <2>4
  <1>8. Cardinality(S) \in Nat /\ Cardinality(F) \in Nat
    BY <1>6, FS_CardinalityType
  <1>9. S \cup F \cup (i .. n) = 1 .. n
    BY <1>0, <1>1, <1>3
  <1>10. Cardinality(S) + Cardinality(F) + Cardinality(i .. n) = n
    BY <1>0, <1>3, <1>5, <1>7, <1>8
  <1> QED BY <1>0, <1>2, <1>9, <1>10 DEF n, S, F, i

\* No reader is inside the framework while run_single_test changes its results,
\* and a batch reports every test that was asked for once, wherever it was
\* cancelled and whoever else runs tests meanwhile.
THEOREM TestsAreAccounted == Spec => []TestsAccounted
  <1>1. Init => TestInv
    <2> SUFFICES ASSUME Init PROVE TestInv
      OBVIOUS
    <2>1. LockInv
      BY DEF Init, TestInit, NoReader, LockInv
    <2>2. testJob \in RunJobs
      BY DEF Init, TestInit, NoRunJob, RunJobs
    <2> QED BY <2>1, <2>2 DEF Init, TestInit, ToolsTest, TestInv
  <1>2. TestInv /\ [Next]_vars => TestInv'
    <2> SUFFICES ASSUME TestInv, [Next]_vars PROVE TestInv'
      OBVIOUS
    <2>1. CASE UNCHANGED testVars
      BY <2>1 DEF testVars, runVars, TestInv, LockInv, ToolsTest, BatchStands
    <2>2. CASE TestNext
      BY <2>2, LocksKept, ToolsTestKept, BatchAdvances DEF TestInv
    <2> QED BY <2>1, <2>2, TestFrame
  <1>3. TestInv => TestsAccounted
    <2> SUFFICES ASSUME TestInv PROVE SingleExcludesReaders /\ EveryTestReported
      BY DEF TestsAccounted
    <2>1. SingleExcludesReaders
      BY DEF TestInv, LockInv, SingleExcludesReaders
    <2>2. EveryTestReported
      BY OverMeansReported DEF TestInv, EveryTestReported
    <2> QED BY <2>1, <2>2
  <1> QED BY <1>1, <1>2, <1>3, PTL DEF Spec

\* What the captures and the test runs tell their clients is what happened,
\* whatever other requests, the console and the test window do meanwhile.
THEOREM DiagnosticsTellTheTruth == Spec => []DiagnosticsTrue
  <1>1. CapturesTrue /\ TestsAccounted => DiagnosticsTrue
    BY DEF DiagnosticsTrue
  <1> QED BY <1>1, CapturesTellTheTruth, TestsAreAccounted, PTL
------------------------------------------------------------------------------
(* Play sessions.                                                           *)

\* Whatever a handler does to the packages, the behaviour stays with its surface.
LEMMA SessionSteps ==
  /\ Look => focus' = focus
  /\ \A p : Edit(p) => focus' = focus
  /\ \A p, q : Flag(p, q) => focus' = focus
  /\ \A p : Written(p) => focus' = focus
  /\ SaveAll => focus' = focus
  /\ PlayWorldChanges => focus' = focus
  BY DEF Look, Edit, Flag, Written, SaveAll, PlayWorldChanges, session

LEMMA FocusKept == ASSUME [Next]_vars PROVE focus' = focus
  <1>1. SceneNext => focus' = focus
    <2>1. \A actors : Marked(actors) => focus' = focus
      BY SessionSteps DEF Marked
    <2>2. Spawn \/ Duplicate \/ Destroy \/ Attach \/ Detach \/ SetLocation => focus' = focus
      BY <2>1 DEF Spawn, Duplicate, Destroy, Attach, Detach, SetLocation, SetTransform
    <2>3. HierarchyAttach \/ HierarchyDetach => focus' = focus
      BY <2>1 DEF HierarchyAttach, HierarchyDetach
    <2>4. BatchSet \/ SnapToFloor \/ Align => focus' = focus
      BY <2>1 DEF BatchSet, SnapToFloor, Align
    <2> QED
      BY <2>2, <2>3, <2>4 DEF SceneNext, ActorEdits, HierarchyEdits, TransformEdits, LevelShown, session
  <1>2. OutlinerNext => focus' = focus
    BY SessionSteps DEF OutlinerNext, Manage, Find, SpawnActor, DestroyActor, SetFolder, FolderSetActor, SelectInEditor, CreateFolder, DeleteFolder, DeleteFolderAt
  <1>3. ComponentNext => focus' = focus
    <2>1. ComponentAdd \/ ComponentRemove \/ MoveInHierarchy => focus' = focus
      BY SessionSteps DEF ComponentAdd, ComponentRemove, MoveInHierarchy
    <2>2. ComponentSetProperty \/ ComponentSetTransform => focus' = focus
      BY SessionSteps DEF ComponentSetProperty, ComponentSetTransform
    <2> QED
      BY <2>1, <2>2 DEF ComponentNext, session
  <1>4. LevelNext => focus' = focus
    BY SessionSteps DEF LevelNext, LevelLoad, LevelCreate, LevelSave, LevelDuplicate, LevelUnload, SetStreamingState, StreamingAdd, StreamingRemove, SetLoaded, SetWorldSettings, SetActorRuntimeGrid, SubmitSaveAllDirty, SaveAllDirtyBody
  <1>5. BatchNext => focus' = focus
    BY SessionSteps DEF BatchNext, SubmitBatch, RunBatch, WorldMoves, BatchSpawn, BatchDestroy, BatchSetProperty, BatchRefused, FindActors, FullActorDump, Scanned
  <1>6. PlayNext => focus' = focus
    BY SessionSteps DEF PlayNext, PieStop, PauseOrResume, StepFrame, ConsoleExec, SimulateKey, ClickScreen, ClickActor, DragScreen, AddLookInput, MoveMouse, SetTimeDilation, FocusActor, UserEnds, SetSimulation, ApplyImpulse, SetVelocity, SetCamera, SetSelection, ViewportScreenshot, PIEScreenshotToDisk, Click, InPlay, PieStart, EngineTick, PlayWorldUp
  <1>7. TreeNext => focus' = focus
    BY SessionSteps DEF TreeNext, AddNode, AddNodeRefused, AddDecorator, AddService, RemoveNode, SetNodeProperty
  <1>8. AgentNext => focus' = focus
    BY SessionSteps DEF AgentNext, CreateBoard, AddKey, RemoveKey, CreateQuery, AddGenerator, AddTest, RunQuery, StartOnActor, StopOnActor, SetValue, RespawnBlackboard, SetAvoidanceQuality
  <1>9. InsightsNext => focus' = focus
    BY SessionSteps DEF InsightsNext
  <1>10. StatNext => focus' = focus
    BY SessionSteps DEF StatNext
  <1>11. TestNext => focus' = focus
    BY SessionSteps DEF TestNext
  <1>12. ViewNext => focus' = focus
    BY SessionSteps DEF ViewNext, ViewportSetCamera, FocusOnActor, RegionCapture, CaptureActors, CaptureSelection, HighResolution, SetShowFlag, SetPostProcess, DrawLine, DrawSphere, DrawBox, DrawArrow, DrawText, ClearDebug, Capture, DrawDebug
  <1>13. DrawNext => focus' = focus
    BY SessionSteps DEF DrawNext, Annotate
  <1>14. SourceControlNext => focus' = focus
    BY SessionSteps DEF SourceControlNext
  <1>15. DiffNext => focus' = focus
    BY SessionSteps DEF DiffNext
  <1>16. CodingNext => focus' = focus
    BY SessionSteps DEF CodingNext
  <1>17. CfgNext => focus' = focus
    BY SessionSteps DEF CfgNext
  <1>18. CallSubsystem => focus' = focus
    BY SessionSteps DEF CallSubsystem
  <1>19. CollisionNext => focus' = focus
    BY SessionSteps DEF CollisionNext
  <1>20. TagNext => focus' = focus
    BY SessionSteps DEF TagNext, AddToContainer, RemoveFromContainer
  <1> QED
    BY SessionSteps, <1>1, <1>2, <1>3, <1>4, <1>5, <1>6, <1>7, <1>8, <1>9, <1>10, <1>11, <1>12, <1>13, <1>14, <1>15, <1>16, <1>17, <1>18, <1>19, <1>20
    DEF Next, vars, session, SceneStep, OutlinerStep, ComponentStep, LevelStep, BatchStep,
        PlayStep, TreeStep, AgentStep, InsightsStep, StatStep, TestStep, ViewStep, DrawStep,
        SourceControlStep, DiffStep, CodingStep, CfgStep, CollisionStep, TagStep, PlayWorld, UserSaves


\* The play surface alone moves its variables, and the session with them.
LEMMA PlayFrame ==
  ASSUME [Next]_vars
  PROVE  \/ focus = "play" /\ PlayNext
         \/ UNCHANGED playVars /\ (focus = "play" => UNCHANGED pie)
  <1>1. SaveAll => UNCHANGED pie
    BY DEF SaveAll, Written
  <1> QED
    BY <1>1 DEF Next, vars, session, OthersStill, SceneStep, OutlinerStep, ComponentStep, LevelStep, BatchStep,
           PlayStep, TreeStep, AgentStep, InsightsStep, StatStep, TestStep, ViewStep, DrawStep,
           SourceControlStep, DiffStep, CodingStep, CfgStep, CollisionStep, TagStep, PlayWorld, UserSaves

\* How far a session that pie.stop ended is with its end, by the engine's count
\* of the cleanup and by the time that the bridge keeps.
PlayInv ==
  /\ simulated \in [{"editor", "play"} -> SUBSET Bodies]
  /\ phase \in {"none", "starting", "running", "ending"}
  /\ sinceStop \in Nat /\ cleanup \in Nat
  /\ sinceStop <= StartGap
  /\ focus = "play" =>
       /\ pie = TRUE => phase \in {"running", "ending"}
       /\ phase = "ending" /\ endedBy = "pie.stop" => sinceStop = 0
       /\ phase = "none" /\ endedBy = "pie.stop" => cleanup = 0 \/ cleanup + sinceStop <= CleanupTime + 1

\* The steps that the play surface takes to its timing, to the session and to the
\* bodies; all its other steps leave them alone.
LEMMA PlayKinds ==
  ASSUME PlayNext
  PROVE  \/ PieStart \/ PieStop \/ EngineTick \/ UserEnds \/ SetSimulation
         \/ UNCHANGED <<timing, simulated, pie>>
  <1>1. StepFrame \/ ConsoleExec \/ AddLookInput \/ MoveMouse \/ SetTimeDilation \/ ApplyImpulse
          \/ SetVelocity \/ ViewportScreenshot \/ PIEScreenshotToDisk => UNCHANGED <<timing, simulated, pie>>
    BY DEF StepFrame, ConsoleExec, AddLookInput, MoveMouse, SetTimeDilation, ApplyImpulse, SetVelocity,
           ViewportScreenshot, PIEScreenshotToDisk, InPlay, Look, session, playVars, timing
  <1>2. PauseOrResume \/ SimulateKey \/ ClickScreen \/ ClickActor \/ DragScreen \/ FocusActor
          \/ SetCamera \/ SetSelection => UNCHANGED <<timing, simulated, pie>>
    BY DEF PauseOrResume, SimulateKey, ClickScreen, ClickActor, DragScreen, Click, FocusActor,
           SetCamera, SetSelection, Look, session
  <1> QED BY <1>1, <1>2 DEF PlayNext

LEMMA PlayInvariant ==
  ASSUME PlayInv, [Next]_vars
  PROVE  PlayInv'
  <1>0. focus' = focus
    BY FocusKept
  <1>1. /\ StartGap \in Nat /\ CleanupTime \in Nat /\ CleanupTime < StartGap
        /\ sinceStop \in Nat /\ cleanup \in Nat /\ sinceStop <= StartGap
    BY GapCoversCleanup DEF PlayInv
  <1>2. CASE UNCHANGED playVars /\ (focus = "play" => UNCHANGED pie)
    BY <1>0, <1>2 DEF playVars, PlayInv
  <1>3. CASE focus = "play" /\ PlayNext
    <2>1. CASE UNCHANGED <<timing, simulated, pie>>
      BY <1>0, <2>1 DEF timing, PlayInv
    <2>2. CASE PieStart
      BY <1>0, <1>3, <2>2 DEF PieStart, PlayWorldUp, PlayInv
    <2>3. CASE PieStop
      BY <1>0, <1>1, <1>3, <2>3 DEF PieStop, Look, session, PlayInv
    <2>4. CASE UserEnds
      BY <1>0, <1>3, <2>4 DEF UserEnds, Look, session, PlayInv
    <2>5. CASE SetSimulation
      <3>1. /\ UNCHANGED timing /\ UNCHANGED pie
        BY <2>5 DEF SetSimulation, Flag
      <3>2. simulated' \in [{"editor", "play"} -> SUBSET Bodies]
        BY <2>5 DEF SetSimulation, TraceWorld, PlayInv
      <3> QED BY <1>0, <1>3, <3>1, <3>2 DEF timing, PlayInv
    <2>6. CASE EngineTick
      <3>0. /\ sinceStop' = (IF sinceStop < StartGap THEN sinceStop + 1 ELSE sinceStop)
            /\ endedBy' = endedBy
        BY <2>6 DEF EngineTick
      <3>1. sinceStop' \in Nat /\ sinceStop' <= StartGap
        BY <1>1, <3>0
      <3>2. CASE phase = "starting" /\ PlayWorldUp /\ cleanup' = cleanup
        <4>1. simulated' \in [{"editor", "play"} -> SUBSET Bodies] /\ phase' = "running"
          BY <3>2 DEF PlayWorldUp, PlayInv
        <4> QED BY <1>0, <1>1, <1>3, <3>1, <3>2, <4>1 DEF PlayInv
      <3>3. CASE phase = "ending" /\ phase' = "none" /\ pie' = FALSE /\ cleanup' = CleanupTime
                 /\ simulated' = [simulated EXCEPT !["play"] = {}]
        <4>1. simulated' \in [{"editor", "play"} -> SUBSET Bodies]
          BY <3>3 DEF PlayInv
        <4>2. endedBy' = "pie.stop" => sinceStop' = 1
          BY <1>1, <1>3, <3>0, <3>3 DEF PlayInv
        <4>3. endedBy' = "pie.stop" => cleanup' + sinceStop' <= CleanupTime + 1
          BY <1>1, <3>3, <4>2
        <4> QED BY <1>0, <1>1, <3>1, <3>3, <4>1, <4>3 DEF PlayInv
      <3>4. CASE /\ phase \in {"none", "running"} /\ UNCHANGED <<phase, pie, simulated>>
                 /\ cleanup' = (IF cleanup > 0 THEN cleanup - 1 ELSE 0)
        <4>1. cleanup' \in Nat
          BY <1>1, <3>4
        <4>2. phase = "none" /\ endedBy = "pie.stop" => cleanup = 0 \/ cleanup + sinceStop <= CleanupTime + 1
          BY <1>3 DEF PlayInv
        <4>3. phase' = "none" /\ endedBy' = "pie.stop" => cleanup' = 0 \/ cleanup' + sinceStop' <= CleanupTime + 1
          BY <1>1, <3>0, <3>4, <4>2
        <4>4. phase' # "ending" /\ phase' = phase /\ pie' = pie /\ simulated' = simulated
          BY <3>4
        <4> QED BY <1>0, <1>3, <3>1, <4>1, <4>3, <4>4 DEF PlayInv
      <3> QED BY <2>6, <3>2, <3>3, <3>4 DEF EngineTick
    <2> QED BY <1>3, <2>1, <2>2, <2>3, <2>4, <2>5, <2>6, PlayKinds
  <1> QED BY <1>2, <1>3, PlayFrame

LEMMA PlayStepsApart ==
  ASSUME PlayInv, [Next]_vars
  PROVE  \/ UNCHANGED playVars
         \/ /\ phase = "none" /\ phase' # "none" /\ endedBy = "pie.stop" => cleanup = 0
            /\ pie => simulated'["editor"] = simulated["editor"]
  <1> SUFFICES ASSUME focus = "play", PlayNext
               PROVE  /\ phase = "none" /\ phase' # "none" /\ endedBy = "pie.stop" => cleanup = 0
                      /\ pie => simulated'["editor"] = simulated["editor"]
    BY PlayFrame
  <1>0. /\ StartGap \in Nat /\ CleanupTime \in Nat /\ CleanupTime < StartGap
        /\ sinceStop \in Nat /\ cleanup \in Nat
        /\ simulated \in [{"editor", "play"} -> SUBSET Bodies]
    BY GapCoversCleanup DEF PlayInv
  <1>1. CASE UNCHANGED <<timing, simulated, pie>>
    BY <1>1 DEF timing
  <1>2. CASE PieStart
    <2>1. phase = "none" /\ sinceStop >= StartGap
      BY <1>2 DEF PieStart, GapOver
    <2>2. endedBy = "pie.stop" => cleanup = 0
      BY <1>0, <2>1 DEF PlayInv
    <2>3. pie => FALSE
      BY <2>1 DEF PlayInv
    <2> QED BY <2>2, <2>3
  <1>3. CASE PieStop
    BY <1>3 DEF PieStop, PlayInv
  <1>4. CASE UserEnds
    BY <1>4 DEF UserEnds
  <1>5. CASE SetSimulation
    <2>1. phase' = phase
      BY <1>5 DEF SetSimulation, timing
    <2>2. pie => simulated'["editor"] = simulated["editor"]
      BY <1>0, <1>5 DEF SetSimulation, TraceWorld
    <2> QED BY <2>1, <2>2
  <1>6. CASE EngineTick
    BY <1>0, <1>6 DEF EngineTick, PlayWorldUp
  <1> QED BY <1>1, <1>2, <1>3, <1>4, <1>5, <1>6, PlayKinds

\* A session that pie.stop ended is cleaned up before the next one starts, because
\* the gap that pie.start keeps is longer than the cleanup; and while a session
\* runs no tool of the play surface touches the bodies of the editor's world.
THEOREM SessionsStayApart == Spec => SessionsApart
  <1>1. Init => PlayInv
    BY GapCoversCleanup DEF Init, PlayInit, SessionInit, PlayInv
  <1>2. PlayInv /\ [Next]_vars => PlayInv'
    BY PlayInvariant
  <1>3. PlayInv /\ [Next]_vars =>
          [/\ phase = "none" /\ phase' # "none" /\ endedBy = "pie.stop" => cleanup = 0
           /\ pie => simulated'["editor"] = simulated["editor"]]_playVars
    BY PlayStepsApart
  <1> QED BY <1>1, <1>2, <1>3, PTL DEF Spec, SessionsApart
------------------------------------------------------------------------------
(* Trees given by a parent function.                                        *)

NothingMet(tree) == [m \in DOMAIN tree |-> {}]

MetWithin(f, tree, depth) ==
  f = [k \in 0 .. depth |-> IF k = 0 THEN NothingMet(tree) ELSE Further(tree, f[k - 1])]

LEMMA SomeChains == ASSUME NEW tree PROVE \A n \in Nat : \E f : MetWithin(f, tree, n)
  <1> DEFINE S == {n \in Nat : \E f : MetWithin(f, tree, n)}
  <1>1. 0 \in S
    <2> DEFINE f == [k \in 0 .. 0 |-> NothingMet(tree)]
    <2>1. MetWithin(f, tree, 0)
      BY DEF MetWithin
    <2> QED BY <2>1
  <1>2. ASSUME NEW n \in Nat, n \in S PROVE n + 1 \in S
    <2>1. PICK f : f = [k \in 0 .. n |-> IF k = 0 THEN NothingMet(tree) ELSE Further(tree, f[k - 1])]
      BY <1>2 DEF MetWithin
    <2> DEFINE g == [k \in 0 .. n + 1 |-> IF k = n + 1 THEN Further(tree, f[n]) ELSE f[k]]
               h == [k \in 0 .. n + 1 |-> IF k = 0 THEN NothingMet(tree) ELSE Further(tree, g[k - 1])]
    <2>2. ASSUME NEW k \in 0 .. n + 1 PROVE g[k] = h[k]
      <3>1. CASE k = 0
        <4>1. f[0] = NothingMet(tree)
          BY <2>1
        <4> QED BY <3>1, <4>1
      <3>2. CASE k \in 1 .. n
        <4>1. f[k] = Further(tree, f[k - 1])
          BY <2>1, <3>2
        <4>2. g[k] = f[k] /\ g[k - 1] = f[k - 1]
          BY <3>2
        <4>3. h[k] = Further(tree, g[k - 1])
          BY <3>2
        <4> QED BY <4>1, <4>2, <4>3
      <3>3. CASE k = n + 1
        <4>1. g[n] = f[n] /\ g[n + 1] = Further(tree, f[n])
          OBVIOUS
        <4>2. h[n + 1] = Further(tree, g[n])
          OBVIOUS
        <4> QED BY <3>3, <4>1, <4>2
      <3> QED BY <3>1, <3>2, <3>3
    <2>3. g = h
      BY <2>2
    <2> HIDE DEF g
    <2>4. MetWithin(g, tree, n + 1)
      BY <2>3 DEF MetWithin
    <2> QED BY <2>4
  <1> HIDE DEF S
  <1>3. \A n \in Nat : n \in S
    BY <1>1, <1>2, SetInduction
  <1> USE DEF S
  <1> QED BY <1>3

LEMMA ChainsMeet ==
  ASSUME NEW tree, NEW depth \in Nat
  PROVE  MetWithin(Chains(tree, depth), tree, depth)
  <1>1. \E f : MetWithin(f, tree, depth)
    BY SomeChains
  <1>2. Chains(tree, depth) = CHOOSE f : MetWithin(f, tree, depth)
    BY DEF Chains, MetWithin, NothingMet
  <1> QED BY <1>1, <1>2

\* The parents of the nodes of S that are nodes themselves.
ParentsOf(tree, S) == {tree[x] : x \in {y \in S : tree[y] \in DOMAIN tree}}

\* The step of the chains: a step further at the far end, too.
LEMMA ChainStep ==
  ASSUME NEW tree, NEW depth \in Nat
  PROVE  LET C == Chains(tree, depth)
         IN  /\ \A n \in DOMAIN tree : C[0][n] = {}
             /\ \A k \in 0 .. depth - 1 : C[k + 1] = Further(tree, C[k])
  <1> DEFINE C == Chains(tree, depth)
  <1>1. C = [k \in 0 .. depth |-> IF k = 0 THEN NothingMet(tree) ELSE Further(tree, C[k - 1])]
    BY ChainsMeet DEF MetWithin
  <1> HIDE DEF C
  <1>2. C[0] = NothingMet(tree)
    BY <1>1
  <1>3. ASSUME NEW k \in 0 .. depth - 1 PROVE C[k + 1] = Further(tree, C[k])
    <2>1. k + 1 \in 0 .. depth /\ k + 1 # 0 /\ k + 1 - 1 = k
      OBVIOUS
    <2> QED BY <1>1, <2>1
  <1> QED BY <1>2, <1>3 DEF NothingMet, C

LEMMA ChainGrowsAtItsEnd ==
  ASSUME NEW tree, NEW depth \in Nat, NEW C, C = Chains(tree, depth)
  PROVE  \A k \in Nat : k < depth =>
           \A n \in DOMAIN tree : C[k + 1][n] = ParentsOf(tree, {n} \cup C[k][n])
  <1> DEFINE S == {k \in Nat : k < depth => \A n \in DOMAIN tree : C[k + 1][n] = ParentsOf(tree, {n} \cup C[k][n])}
  <1>0. /\ \A n \in DOMAIN tree : C[0][n] = {}
        /\ \A k \in 0 .. depth - 1 : C[k + 1] = Further(tree, C[k])
    BY ChainStep
  <1>1. 0 \in S
    <2>1. ASSUME 0 < depth, NEW n \in DOMAIN tree PROVE C[0 + 1][n] = ParentsOf(tree, {n} \cup C[0][n])
      <3>1. C[0 + 1] = Further(tree, C[0]) /\ C[0][n] = {}
        BY <1>0, <2>1
      <3>2. tree[n] \in DOMAIN tree => C[0][tree[n]] = {}
        BY <1>0
      <3>3. C[0 + 1][n] = IF tree[n] \in DOMAIN tree THEN {tree[n]} ELSE {}
        BY <3>1, <3>2 DEF Further
      <3> QED BY <3>1, <3>3 DEF ParentsOf
    <2> QED BY <2>1
  <1>2. ASSUME NEW k \in Nat, k \in S PROVE k + 1 \in S
    <2>1. ASSUME k + 1 < depth, NEW n \in DOMAIN tree
          PROVE  C[k + 1 + 1][n] = ParentsOf(tree, {n} \cup C[k + 1][n])
      <3>1. C[k + 1 + 1] = Further(tree, C[k + 1]) /\ C[k + 1] = Further(tree, C[k])
        BY <1>0, <2>1
      <3>2. CASE tree[n] \notin DOMAIN tree
        <4>1. C[k + 1 + 1][n] = {} /\ C[k + 1][n] = {}
          BY <3>1, <3>2 DEF Further
        <4> QED BY <3>2, <4>1 DEF ParentsOf
      <3>3. CASE tree[n] \in DOMAIN tree
        <4>1. C[k + 1 + 1][n] = {tree[n]} \cup C[k + 1][tree[n]] /\ C[k + 1][n] = {tree[n]} \cup C[k][tree[n]]
          BY <3>1, <3>3 DEF Further
        <4>2. C[k + 1][tree[n]] = ParentsOf(tree, {tree[n]} \cup C[k][tree[n]])
          BY <1>2, <2>1, <3>3
        <4>3. C[k + 1 + 1][n] = {tree[n]} \cup ParentsOf(tree, C[k + 1][n])
          BY <4>1, <4>2
        <4>4. \A T : {tree[n]} \cup ParentsOf(tree, T) = ParentsOf(tree, {n} \cup T)
          BY <3>3 DEF ParentsOf
        <4> QED BY <4>3, <4>4
      <3> QED BY <3>2, <3>3
    <2>2. k + 1 \in Nat
      OBVIOUS
    <2> QED BY <2>1, <2>2
  <1> HIDE DEF S
  <1>3. \A k \in Nat : k \in S
    BY <1>1, <1>2, SetInduction
  <1> USE DEF S
  <1> QED BY <1>3

\* What is above a node is the least set that holds the parent of the node and
\* the parents of its own members, as far as they are nodes.
LEMMA AboveLeast ==
  ASSUME NEW tree, IsFiniteSet(DOMAIN tree), NEW n \in DOMAIN tree, NEW S, ParentsOf(tree, {n} \cup S) \subseteq S
  PROVE  Above(tree, n) \subseteq S
  <1> DEFINE d == Cardinality(DOMAIN tree)
  <1>1. d \in Nat
    BY FS_CardinalityType
  <1> HIDE DEF d
  <1> DEFINE C == Chains(tree, d)
             T == {k \in Nat : k <= d => C[k][n] \subseteq S}
  <1>2. C[0][n] = {} /\ \A k \in Nat : k < d => C[k + 1][n] = ParentsOf(tree, {n} \cup C[k][n])
    BY <1>1, ChainStep, ChainGrowsAtItsEnd
  <1> HIDE DEF C
  <1>3. 0 \in T
    BY <1>2
  <1>4. ASSUME NEW k \in Nat, k \in T PROVE k + 1 \in T
    <2>1. ASSUME k + 1 <= d PROVE C[k + 1][n] \subseteq S
      <3>1. k < d /\ k <= d
        BY <1>1, <2>1
      <3>2. C[k][n] \subseteq S /\ C[k + 1][n] = ParentsOf(tree, {n} \cup C[k][n])
        BY <1>2, <1>4, <3>1
      <3>3. \A R \in SUBSET S : ParentsOf(tree, {n} \cup R) \subseteq ParentsOf(tree, {n} \cup S)
        BY DEF ParentsOf
      <3> QED BY <3>2, <3>3
    <2> QED BY <2>1
  <1> HIDE DEF T
  <1>5. d \in T
    BY <1>1, <1>3, <1>4, SetInduction
  <1>6. C[d][n] \subseteq S
    BY <1>1, <1>5 DEF T
  <1> QED BY <1>6 DEF Above, ChainUp, C, d

LEMMA AboveClosed ==
  ASSUME NEW tree, IsFiniteSet(DOMAIN tree), NEW n \in DOMAIN tree
  PROVE  /\ ParentsOf(tree, {n} \cup Above(tree, n)) \subseteq Above(tree, n)
         /\ Above(tree, n) \subseteq DOMAIN tree
  <1> DEFINE d == Cardinality(DOMAIN tree)
  <1>1. d \in Nat
    BY FS_CardinalityType
  <1> HIDE DEF d
  <1> DEFINE C == Chains(tree, d)
             Climb(S) == ParentsOf(tree, {n} \cup S)
  <1>2. C[0][n] = {} /\ \A k \in Nat : k < d => C[k + 1][n] = Climb(C[k][n])
    BY <1>1, ChainStep, ChainGrowsAtItsEnd
  <1> HIDE DEF C
  <1>3. \A S : Climb(S) \subseteq DOMAIN tree
    BY DEF ParentsOf
  <1>4. \A R, S : R \subseteq S => Climb(R) \subseteq Climb(S)
    BY DEF ParentsOf
  <1> HIDE DEF Climb
  <1> DEFINE Grows(k) == C[k][n] \subseteq DOMAIN tree /\ C[k][n] \subseteq Climb(C[k][n])
             Far(k) == Climb(C[k][n]) \subseteq C[k][n] \/ Cardinality(C[k][n]) >= k
             T == {k \in Nat : k <= d => Grows(k) /\ Far(k)}
  <1>5. 0 \in T
    <2>1. Cardinality(C[0][n]) = 0
      BY <1>2, FS_EmptySet
    <2> QED BY <1>2, <2>1
  <1>6. ASSUME NEW k \in Nat, k \in T PROVE k + 1 \in T
    <2>1. ASSUME k + 1 <= d PROVE Grows(k + 1) /\ Far(k + 1)
      <3>1. k < d /\ k <= d
        BY <1>1, <2>1
      <3>2. Grows(k) /\ Far(k) /\ C[k + 1][n] = Climb(C[k][n])
        BY <1>2, <1>6, <3>1
      <3>3. Grows(k + 1)
        BY <1>3, <1>4, <3>2
      <3>4. CASE Climb(C[k][n]) \subseteq C[k][n]
        BY <1>4, <3>2, <3>4
      <3>5. CASE ~(Climb(C[k][n]) \subseteq C[k][n])
        <4>1. Cardinality(C[k][n]) >= k
          BY <3>2, <3>5
        <4>2. IsFiniteSet(C[k + 1][n])
          BY <3>3, FS_Subset
        <4>3. C[k][n] \subseteq C[k + 1][n] /\ C[k][n] # C[k + 1][n]
          BY <3>2, <3>5
        <4> DEFINE A == C[k][n]
                   B == C[k + 1][n]
        <4>4. Cardinality(A) <= Cardinality(B) /\ Cardinality(A) # Cardinality(B)
          <5> HIDE DEF A, B
          <5>1. A \in SUBSET B /\ IsFiniteSet(B) /\ A # B
            BY <4>2, <4>3 DEF A, B
          <5> QED BY <5>1, FS_Subset
        <4>5. Cardinality(A) \in Nat /\ Cardinality(B) \in Nat
          BY <3>2, <4>2, FS_Subset, FS_CardinalityType
        <4>6. Cardinality(B) >= k + 1
          <5> HIDE DEF B
          <5> QED BY <4>1, <4>4, <4>5
        <4> QED BY <3>3, <4>6
      <3> QED BY <3>3, <3>4, <3>5
    <2>2. k + 1 \in Nat
      OBVIOUS
    <2> QED BY <2>1, <2>2
  <1> HIDE DEF T
  <1>7. d \in T
    BY <1>1, <1>5, <1>6, SetInduction
  <1>8. Grows(d) /\ Far(d)
    BY <1>1, <1>7 DEF T
  <1>9. Climb(C[d][n]) \subseteq C[d][n]
    <2>1. CASE Cardinality(C[d][n]) >= d
      <3>1. Cardinality(C[d][n]) <= d /\ (Cardinality(C[d][n]) = d => C[d][n] = DOMAIN tree)
        <4> DEFINE A == C[d][n]
        <4>1. A \in SUBSET DOMAIN tree
          BY <1>8
        <4> HIDE DEF A
        <4>2. Cardinality(A) <= Cardinality(DOMAIN tree) /\ (Cardinality(DOMAIN tree) = Cardinality(A) => DOMAIN tree = A)
          BY <4>1, FS_Subset
        <4> QED BY <4>2 DEF A, d
      <3>2. Cardinality(C[d][n]) \in Nat
        BY <1>8, FS_Subset, FS_CardinalityType
      <3>3. C[d][n] = DOMAIN tree
        BY <1>1, <2>1, <3>1, <3>2
      <3> QED BY <1>3, <3>3
    <2> QED BY <1>8, <2>1
  <1>10. C[d][n] = Above(tree, n)
    BY DEF Above, ChainUp, C, d
  <1>11. Climb(Above(tree, n)) \subseteq Above(tree, n) /\ Above(tree, n) \subseteq DOMAIN tree
    BY <1>8, <1>9, <1>10
  <1> QED BY <1>11 DEF Climb

\* On the way up from a node that is above n, only nodes above n are met.
LEMMA AboveTransitive ==
  ASSUME NEW tree, IsFiniteSet(DOMAIN tree), NEW n \in DOMAIN tree, NEW m \in Above(tree, n)
  PROVE  m \in DOMAIN tree /\ Above(tree, m) \subseteq Above(tree, n)
  <1>1. ParentsOf(tree, {n} \cup Above(tree, n)) \subseteq Above(tree, n) /\ m \in DOMAIN tree
    BY AboveClosed
  <1>2. ParentsOf(tree, {m} \cup Above(tree, n)) \subseteq Above(tree, n)
    BY <1>1 DEF ParentsOf
  <1> QED BY <1>1, <1>2, AboveLeast

\* The parent of a node, and what is above the parent, is above the node.
LEMMA ParentIsAbove ==
  ASSUME NEW tree, IsFiniteSet(DOMAIN tree), NEW n \in DOMAIN tree, tree[n] \in DOMAIN tree
  PROVE  tree[n] \in Above(tree, n) /\ Above(tree, tree[n]) \subseteq Above(tree, n)
  <1>1. tree[n] \in Above(tree, n)
    BY AboveClosed DEF ParentsOf
  <1> QED BY <1>1, AboveTransitive

\* A tree that has the links of another one that are met from n has what is
\* above n there.
LEMMA SameWayUp ==
  ASSUME NEW tree, IsFiniteSet(DOMAIN tree), NEW treeNew, IsFiniteSet(DOMAIN treeNew),
         NEW n \in DOMAIN tree \cap DOMAIN treeNew,
         \A m \in {n} \cup (Above(tree, n) \cap Above(treeNew, n)) :
           tree[m] \in DOMAIN tree => tree[m] \in DOMAIN treeNew /\ treeNew[m] = tree[m]
  PROVE  Above(tree, n) \subseteq Above(treeNew, n)
  <1> DEFINE S == Above(tree, n) \cap Above(treeNew, n)
  <1>1. ParentsOf(tree, {n} \cup Above(tree, n)) \subseteq Above(tree, n)
    BY AboveClosed
  <1>2. ParentsOf(treeNew, {n} \cup Above(treeNew, n)) \subseteq Above(treeNew, n)
    BY AboveClosed
  <1>3. ASSUME NEW m \in {n} \cup S, tree[m] \in DOMAIN tree PROVE tree[m] \in S
    <2>1. tree[m] \in Above(tree, n)
      BY <1>1, <1>3 DEF ParentsOf
    <2>2. treeNew[m] = tree[m] /\ treeNew[m] \in DOMAIN treeNew
      BY <1>3
    <2>3. treeNew[m] \in Above(treeNew, n)
      BY <1>2, <1>3, <2>2 DEF ParentsOf
    <2> QED BY <2>1, <2>2, <2>3
  <1>4. ParentsOf(tree, {n} \cup S) \subseteq S
    BY <1>3 DEF ParentsOf
  <1>5. Above(tree, n) \subseteq S
    <2> HIDE DEF S
    <2> QED BY <1>4, AboveLeast
  <1> QED BY <1>5

\* A tree that has no link but those of a forest is a forest.
LEMMA FewerLinks ==
  ASSUME NEW tree, IsFiniteSet(DOMAIN tree), IsForest(tree), NEW treeNew, IsFiniteSet(DOMAIN treeNew),
         \A m \in DOMAIN treeNew : treeNew[m] \in DOMAIN treeNew =>
           m \in DOMAIN tree /\ tree[m] = treeNew[m] /\ tree[m] \in DOMAIN tree
  PROVE  IsForest(treeNew)
  <1> SUFFICES ASSUME NEW n \in DOMAIN treeNew PROVE n \notin Above(treeNew, n)
    BY DEF IsForest
  <1>1. CASE n \in DOMAIN tree
    <2>1. Above(treeNew, n) \subseteq DOMAIN treeNew
      BY AboveClosed
    <2>2. Above(treeNew, n) \subseteq Above(tree, n)
      BY <1>1, <2>1, SameWayUp
    <2> QED BY <1>1, <2>2 DEF IsForest
  <1>2. CASE n \notin DOMAIN tree
    <2>1. ParentsOf(treeNew, {n} \cup {}) \subseteq {}
      BY <1>2 DEF ParentsOf
    <2> QED BY <2>1, AboveLeast
  <1> QED BY <1>1, <1>2

\* A node that is hung on one that is not below it leaves the forest a forest.
LEMMA HungOn ==
  ASSUME NEW tree, IsFiniteSet(DOMAIN tree), IsForest(tree),
         NEW child \in DOMAIN tree, NEW p \in DOMAIN tree, child # p, child \notin Above(tree, p)
  PROVE  IsForest([tree EXCEPT ![child] = p])
  <1> DEFINE new == [tree EXCEPT ![child] = p]
  <1>1. DOMAIN new = DOMAIN tree /\ new[child] = p /\ \A m \in DOMAIN tree \ {child} : new[m] = tree[m]
    OBVIOUS
  <1> HIDE DEF new
  <1> SUFFICES ASSUME NEW n \in DOMAIN tree PROVE n \notin Above(new, n)
    BY <1>1 DEF IsForest, new
  <1>2. /\ ParentsOf(tree, {n} \cup Above(tree, n)) \subseteq Above(tree, n) /\ Above(tree, n) \subseteq DOMAIN tree
        /\ ParentsOf(tree, {p} \cup Above(tree, p)) \subseteq Above(tree, p) /\ Above(tree, p) \subseteq DOMAIN tree
    BY AboveClosed
  <1>3. CASE n = child
    <2> DEFINE S == {p} \cup Above(tree, p)
    <2>1. ParentsOf(new, {n} \cup S) \subseteq S
      BY <1>1, <1>2, <1>3 DEF ParentsOf
    <2>2. n \notin S
      BY <1>3
    <2> HIDE DEF S
    <2> QED BY <1>1, <2>1, <2>2, AboveLeast
  <1>4. CASE n # child /\ child \in Above(tree, n)
    <2> DEFINE S == Above(tree, n) \cup {p} \cup Above(tree, p)
    <2>1. ParentsOf(new, {n} \cup S) \subseteq S
      BY <1>1, <1>2, <1>4 DEF ParentsOf
    <2>2. n \notin Above(tree, p)
      <3>1. n \in Above(tree, p) => Above(tree, n) \subseteq Above(tree, p)
        BY AboveTransitive
      <3> QED BY <1>4, <3>1
    <2>3. n \notin S
      BY <1>4, <2>2 DEF IsForest
    <2> HIDE DEF S
    <2> QED BY <1>1, <2>1, <2>3, AboveLeast
  <1>5. CASE n # child /\ child \notin Above(tree, n)
    <2>1. ParentsOf(new, {n} \cup Above(tree, n)) \subseteq Above(tree, n)
      BY <1>1, <1>2, <1>5 DEF ParentsOf
    <2>2. Above(new, n) \subseteq Above(tree, n)
      BY <1>1, <2>1, AboveLeast
    <2> QED BY <2>2 DEF IsForest
  <1> QED BY <1>3, <1>4, <1>5

------------------------------------------------------------------------------
(* Actors and their attachment.                                             *)

\* The scene surface alone moves its variables.
LEMMA SceneFrame ==
  ASSUME [Next]_vars
  PROVE  SceneNext \/ UNCHANGED sceneVars
  BY DEF Next, vars, OthersStill, SceneStep, OutlinerStep, ComponentStep, LevelStep, BatchStep,
         PlayStep, TreeStep, AgentStep, InsightsStep, StatStep, TestStep, ViewStep, DrawStep,
         SourceControlStep, DiffStep, CodingStep, CfgStep, CollisionStep, TagStep, PlayWorld, UserSaves

ForestInv ==
  /\ DOMAIN up \subseteq Actors /\ IsFiniteSet(DOMAIN up)
  /\ \A a \in DOMAIN up : up[a] \in DOMAIN up \cup {None}
  /\ IsForest(up)

\* The steps that the scene surface takes to the attachments.
LEMMA SceneKinds ==
  ASSUME SceneNext
  PROVE  \/ \E a \in Actors : \E x : NewActor(a, x)
         \/ \E a \in live : Unlinked(a)
         \/ \E child, p \in live : /\ child # p /\ child \notin Above(up, p)
                                   /\ up' = [up EXCEPT ![child] = p]
         \/ \E child \in live : up' = [up EXCEPT ![child] = None]
         \/ up' = up
  <1>1. CASE Spawn
    BY <1>1 DEF Spawn
  <1>2. CASE Duplicate
    BY <1>2 DEF Duplicate
  <1>3. CASE Destroy
    BY <1>3 DEF Destroy, Editable
  <1>4. CASE Attach
    <2>1. PICK child, p \in Actors, rule \in Rules :
            Editable(child) /\ Editable(p) /\ child # p /\ ~WouldCycle(p, child) /\ Attached(child, p, rule)
      BY <1>4 DEF Attach
    <2> QED BY <2>1 DEF Editable, WouldCycle, Attached
  <1>5. CASE Detach
    <2>1. PICK child \in Actors, rule \in Rules : Editable(child) /\ DetachFromActor(child, rule)
      BY <1>5 DEF Detach
    <2> QED BY <2>1 DEF Editable, DetachFromActor
  <1>6. CASE HierarchyAttach
    <2>1. PICK child, p \in Actors, rule \in Rules :
            {child, p} \subseteq live /\ child # p /\ child \notin Above(up, p) /\ Attached(child, p, rule)
      BY <1>6 DEF HierarchyAttach
    <2> QED BY <2>1 DEF Attached
  <1>7. CASE HierarchyDetach
    <2>1. PICK child \in Actors, rule \in Rules : child \in live /\ DetachFromActor(child, rule)
      BY <1>7 DEF HierarchyDetach
    <2> QED BY <2>1 DEF DetachFromActor
  <1>8. CASE SetLocation \/ BatchSet \/ SnapToFloor \/ Align \/ LevelShown
    BY <1>8 DEF SetLocation, SetTransform, BatchSet, SnapToFloor, Align, MovedTo, LevelShown
  <1> QED
    BY <1>1, <1>2, <1>3, <1>4, <1>5, <1>6, <1>7, <1>8 DEF SceneNext, ActorEdits, HierarchyEdits, TransformEdits

LEMMA ForestKept == ASSUME ForestInv, SceneNext PROVE ForestInv'
  <1>0. /\ DOMAIN up \subseteq Actors /\ IsFiniteSet(DOMAIN up) /\ IsForest(up) /\ None \notin Actors
        /\ \A a \in DOMAIN up : up[a] \in DOMAIN up \cup {None}
    BY NoneIsNoActor DEF ForestInv
  <1>1. ASSUME NEW a \in Actors, NEW x, NewActor(a, x) PROVE ForestInv'
    <2>1. a \notin DOMAIN up /\ up' = [b \in DOMAIN up \cup {a} |-> IF b = a THEN None ELSE up[b]]
      BY <1>1 DEF NewActor, live
    <2>2. DOMAIN up' = DOMAIN up \cup {a} /\ up'[a] = None /\ \A b \in DOMAIN up : up'[b] = up[b]
      BY <2>1
    <2>3. IsFiniteSet(DOMAIN up')
      BY <1>0, <2>2, FS_AddElement
    <2>4. \A b \in DOMAIN up' : up'[b] \in DOMAIN up' =>
            b \in DOMAIN up /\ up[b] = up'[b] /\ up[b] \in DOMAIN up
      BY <1>0, <2>1, <2>2
    <2>5. IsForest(up')
      BY <1>0, <2>3, <2>4, FewerLinks
    <2> QED BY <1>0, <2>2, <2>3, <2>5 DEF ForestInv
  <1>2. ASSUME NEW a \in live, Unlinked(a) PROVE ForestInv'
    <2>1. /\ DOMAIN up' = DOMAIN up \ {a}
          /\ \A b \in DOMAIN up' : up'[b] = IF up[b] = a THEN None ELSE up[b]
      BY <1>2 DEF Unlinked, Prune
    <2>2. IsFiniteSet(DOMAIN up')
      BY <1>0, <2>1, FS_Subset
    <2>3. \A b \in DOMAIN up' : up'[b] \in DOMAIN up' =>
            b \in DOMAIN up /\ up[b] = up'[b] /\ up[b] \in DOMAIN up
      BY <1>0, <2>1
    <2>4. IsForest(up')
      BY <1>0, <2>2, <2>3, FewerLinks
    <2> QED BY <1>0, <2>1, <2>2, <2>4 DEF ForestInv
  <1>3. ASSUME NEW child \in live, NEW p \in live, child # p, child \notin Above(up, p),
               up' = [up EXCEPT ![child] = p]
        PROVE  ForestInv'
    <2>1. DOMAIN up' = DOMAIN up /\ \A a \in DOMAIN up : up'[a] = IF a = child THEN p ELSE up[a]
      BY <1>3 DEF live
    <2>2. IsForest(up')
      BY <1>0, <1>3, HungOn DEF live
    <2> QED BY <1>0, <2>1, <2>2 DEF ForestInv, live
  <1>4. ASSUME NEW child \in live, up' = [up EXCEPT ![child] = None] PROVE ForestInv'
    <2>1. DOMAIN up' = DOMAIN up /\ \A a \in DOMAIN up : up'[a] = IF a = child THEN None ELSE up[a]
      BY <1>4 DEF live
    <2>2. IsForest(up')
      BY <1>0, <2>1, FewerLinks
    <2> QED BY <1>0, <2>1, <2>2 DEF ForestInv
  <1>5. CASE up' = up
    BY <1>5 DEF ForestInv
  <1> QED BY <1>1, <1>2, <1>3, <1>4, <1>5, SceneKinds

\* The attachments of live actors are a forest of live actors, for any number of
\* actors, however attach, detach, duplicate and destroy follow one another.
THEOREM AttachmentsStayAForest == Spec => []AttachedInForest
  <1>1. Init => ForestInv
    BY FS_EmptySet DEF Init, SceneInit, ForestInv, IsForest
  <1>2. ForestInv /\ [Next]_vars => ForestInv'
    <2>1. ForestInv /\ UNCHANGED sceneVars => ForestInv'
      BY DEF sceneVars, ForestInv
    <2> QED BY <2>1, SceneFrame, ForestKept
  <1>3. ForestInv => AttachedInForest
    BY DEF ForestInv, AttachedInForest, live
  <1> QED BY <1>1, <1>2, <1>3, PTL DEF Spec
------------------------------------------------------------------------------
(* The places of actors.                                                    *)

\* The place of an actor is a number, and its chain of parents is finite.
LEMMA WorldPlace ==
  ASSUME ForestInv, NEW rels \in [live -> Int], NEW a \in live
  PROVE  /\ Above(up, a) \subseteq live /\ IsFiniteSet(Above(up, a)) /\ a \notin Above(up, a)
         /\ SumFunctionOnSet(rels, Above(up, a)) \in Int
         /\ PosIn(rels, up, a) = rels[a] + SumFunctionOnSet(rels, Above(up, a))
         /\ PosIn(rels, up, a) \in Int
  <1>1. Above(up, a) \subseteq live
    BY AboveClosed DEF ForestInv, live
  <1>2. IsFiniteSet(Above(up, a))
    BY <1>1, FS_Subset DEF ForestInv, live
  <1>3. a \notin Above(up, a)
    BY DEF ForestInv, IsForest, live
  <1>4. \A b \in Above(up, a) : rels[b] \in Int
    BY <1>1
  <1>5. SumFunctionOnSet(rels, Above(up, a)) \in Int
    BY <1>2, <1>4, SumIsInt
  <1>6. PosIn(rels, up, a) = rels[a] + SumFunctionOnSet(rels, Above(up, a))
    BY DEF PosIn
  <1> QED BY <1>1, <1>2, <1>3, <1>5, <1>6

\* Place puts its actor where it is to be, and takes along those that hang on it
\* and no other.
IsPlaced(new, rels, a, x) ==
  /\ new \in [live -> Int]
  /\ PosIn(new, up, a) = x
  /\ \A b \in live \ {a} : new[b] = rels[b]
  /\ x = PosIn(rels, up, a) => new[a] = rels[a]
  /\ \A b \in live \ {a} : a \notin Above(up, b) => PosIn(new, up, b) = PosIn(rels, up, b)

LEMMA PlacedThere ==
  ASSUME ForestInv, NEW rels \in [live -> Int], NEW a \in live, NEW x \in Int
  PROVE  IsPlaced(Place(rels, up, a, x), rels, a, x)
  <1> DEFINE new == Place(rels, up, a, x)
             sum == SumFunctionOnSet(rels, Above(up, a))
  <1>1. sum \in Int /\ PosIn(rels, up, a) = rels[a] + sum /\ a \notin Above(up, a) /\ rels[a] \in Int
        /\ Above(up, a) \subseteq live /\ IsFiniteSet(Above(up, a))
    BY WorldPlace
  <1>2. new = [rels EXCEPT ![a] = x - sum]
    BY DEF Place
  <1> HIDE DEF new
  <1>3. new \in [live -> Int] /\ new[a] = x - sum /\ \A b \in live \ {a} : new[b] = rels[b]
    <2> HIDE DEF sum
    <2> QED BY <1>1, <1>2
  <1>4. PosIn(new, up, a) = x
    <2>1. \A b \in Above(up, a) : new[b] = rels[b]
      BY <1>1, <1>3
    <2>2. SumFunctionOnSet(new, Above(up, a)) = sum
      BY <1>1, <2>1, SumOfSame
    <2>3. PosIn(new, up, a) = new[a] + SumFunctionOnSet(new, Above(up, a))
      BY DEF PosIn
    <2> HIDE DEF sum
    <2> QED BY <1>1, <1>3, <2>2, <2>3
  <1>5. x = PosIn(rels, up, a) => new[a] = rels[a]
    <2> HIDE DEF sum
    <2> QED BY <1>1, <1>3
  <1>6. ASSUME NEW b \in live \ {a}, a \notin Above(up, b) PROVE PosIn(new, up, b) = PosIn(rels, up, b)
    <2>1. Above(up, b) \subseteq live /\ IsFiniteSet(Above(up, b))
      BY WorldPlace
    <2>2. \A c \in Above(up, b) : new[c] = rels[c]
      BY <1>3, <1>6, <2>1
    <2>3. SumFunctionOnSet(new, Above(up, b)) = SumFunctionOnSet(rels, Above(up, b))
      BY <2>1, <2>2, SumOfSame
    <2> QED BY <1>3, <2>3 DEF PosIn
  <1>7. IsPlaced(new, rels, a, x)
    BY <1>3, <1>4, <1>5, <1>6 DEF IsPlaced
  <1> QED BY <1>7 DEF new

IsMoves(f, list, goal) == f = [i \in 0 .. Len(list) |-> IF i = 0 THEN rel ELSE MoveAt(i, list, goal, f[i - 1])]

LEMMA SomeMoves ==
  ASSUME NEW X, rel \in X, NEW list, NEW goal, Len(list) \in Nat,
         \A i \in 1 .. Len(list) : \A r \in X : MoveAt(i, list, goal, r) \in X
  PROVE  \E f : IsMoves(f, list, goal)
  <1> DEFINE n == Len(list)
             turn == [i \in 1 .. n |-> [r \in X |-> MoveAt(i, list, goal, r)]]
  <1>1. /\ turn \in [1 .. n -> [X -> X]]
        /\ \A i \in 1 .. n : \A r \in X : turn[i][r] = MoveAt(i, list, goal, r)
    OBVIOUS
  <1>2. n \in Nat
    OBVIOUS
  <1> HIDE DEF turn, n
  <1>3. PICK f \in [0 .. n -> X] : f[0] = rel /\ \A i \in 1 .. n : f[i] = turn[i][f[i - 1]]
    <2>1. \E f : Iterates(f, X, rel, n, turn)
      BY <1>1, <1>2, Iterated
    <2> QED BY <2>1 DEF Iterates
  <1>4. ASSUME NEW i \in 0 .. n, i # 0 PROVE f[i] = MoveAt(i, list, goal, f[i - 1])
    <2>1. i \in 1 .. n /\ i - 1 \in 0 .. n
      BY <1>2, <1>4
    <2> QED BY <2>1, <1>1, <1>3
  <1>5. f = [i \in 0 .. n |-> IF i = 0 THEN rel ELSE MoveAt(i, list, goal, f[i - 1])]
    BY <1>3, <1>4
  <1> QED BY <1>5 DEF IsMoves, n

LEMMA MovesUnfold ==
  ASSUME ForestInv, rel \in [live -> Int], NEW list \in Seq(Actors), NEW goal \in [Int -> Int]
  PROVE  /\ Moves(list, goal) \in [0 .. Len(list) -> [live -> Int]]
         /\ Moves(list, goal)[0] = rel
         /\ \A i \in 1 .. Len(list) : Moves(list, goal)[i] = MoveAt(i, list, goal, Moves(list, goal)[i - 1])
  <1> DEFINE n == Len(list)
             X == [live -> Int]
  <1>1. n \in Nat
    OBVIOUS
  <1>2. ASSUME NEW i \in 1 .. n, NEW r \in X PROVE MoveAt(i, list, goal, r) \in X
    <2>1. CASE i \in Resolved(list)
      <3>1. list[i] \in live
        BY <2>1 DEF Resolved
      <3>2. PosIn(r, up, list[i]) \in Int
        BY <3>1, WorldPlace
      <3>3. goal[PosIn(r, up, list[i])] \in Int
        BY <3>2
      <3>4. IsPlaced(Place(r, up, list[i], goal[PosIn(r, up, list[i])]), r, list[i], goal[PosIn(r, up, list[i])])
        BY <3>1, <3>3, PlacedThere
      <3>5. Place(r, up, list[i], goal[PosIn(r, up, list[i])]) \in X
        BY <3>4 DEF IsPlaced
      <3> QED BY <2>1, <3>5 DEF MoveAt
    <2> QED BY <2>1 DEF MoveAt
  <1>4. rel \in X
    OBVIOUS
  <1> HIDE DEF X
  <1>8. \E f : IsMoves(f, list, goal)
    BY <1>1, <1>2, <1>4, SomeMoves
  <1>9. Moves(list, goal) = CHOOSE g : IsMoves(g, list, goal)
    BY DEF Moves, IsMoves
  <1>10. IsMoves(Moves(list, goal), list, goal)
    BY <1>8, <1>9
  <1> HIDE DEF n
  <1> DEFINE g == Moves(list, goal)
  <1>11. g = [i \in 0 .. n |-> IF i = 0 THEN rel ELSE MoveAt(i, list, goal, g[i - 1])]
    BY <1>10 DEF IsMoves, n
  <1> HIDE DEF g
  <1>12. g[0] = rel /\ \A i \in 1 .. n : g[i] = MoveAt(i, list, goal, g[i - 1])
    <2>1. 0 \in 0 .. n /\ \A i \in 1 .. n : i \in 0 .. n /\ i # 0
      BY <1>1
    <2> QED BY <1>11, <2>1
  <1> DEFINE S == {i \in Nat : i <= n => g[i] \in X}
  <1>13. 0 \in S
    BY <1>4, <1>12
  <1>14. ASSUME NEW i \in Nat, i \in S PROVE i + 1 \in S
    <2> SUFFICES ASSUME i + 1 <= n PROVE g[i + 1] \in X
      OBVIOUS
    <2>1. i + 1 \in 1 .. n /\ i + 1 - 1 = i /\ i <= n
      BY <1>1
    <2>2. g[i] \in X
      BY <1>14, <2>1
    <2> QED BY SMTT(20), <1>2, <1>12, <2>1, <2>2
  <1> HIDE DEF S
  <1>15. \A i \in Nat : i \in S
    BY <1>13, <1>14, SetInduction
  <1>16. \A i \in 0 .. n : g[i] \in X
    BY <1>1, <1>15 DEF S
  <1>17. g \in [0 .. n -> X]
    BY <1>11, <1>16
  <1> QED BY <1>12, <1>17 DEF g, n, X

\* Whenever it is b's turn, the goal is where it stands.
StandsStill(list, goal, b) ==
  \A i \in Resolved(list) :
    list[i] = b => goal[PosIn(Moves(list, goal)[i - 1], up, b)] = PosIn(Moves(list, goal)[i - 1], up, b)

\* The list's moves change the coordinate of an actor only when it is the
\* actor's turn and the goal is not where it stands.
LEMMA MovedInTurn ==
  ASSUME ForestInv, rel \in [live -> Int], NEW list \in Seq(Actors), NEW goal \in [Int -> Int], NEW b \in live,
         StandsStill(list, goal, b)
  PROVE  Moves(list, goal)[Len(list)][b] = rel[b]
  <1> DEFINE n == Len(list)
             m == Moves(list, goal)
             S == {k \in Nat : k <= n => m[k][b] = rel[b]}
  <1>1. /\ m \in [0 .. n -> [live -> Int]] /\ m[0] = rel /\ n \in Nat
        /\ \A i \in 1 .. n : m[i] = MoveAt(i, list, goal, m[i - 1])
    <2>1. n \in Nat
      OBVIOUS
    <2> QED BY <2>1, MovesUnfold
  <1>2. \A i \in Resolved(list) : list[i] = b => goal[PosIn(m[i - 1], up, b)] = PosIn(m[i - 1], up, b)
    BY DEF StandsStill
  <1> HIDE DEF m, n
  <1>3. 0 \in S
    BY <1>1
  <1>4. ASSUME NEW k \in Nat, k \in S PROVE k + 1 \in S
    <2> SUFFICES ASSUME k + 1 <= n PROVE m[k + 1][b] = rel[b]
      OBVIOUS
    <2>1. k + 1 \in 1 .. n /\ k + 1 - 1 = k /\ k \in 0 .. n /\ m[k] \in [live -> Int] /\ m[k][b] = rel[b]
      BY <1>1, <1>4
    <2>2. m[k + 1] = MoveAt(k + 1, list, goal, m[k])
      BY <1>1, <2>1
    <2>3. CASE k + 1 \notin Resolved(list)
      BY <2>1, <2>2, <2>3 DEF MoveAt
    <2>4. CASE k + 1 \in Resolved(list)
      <3> DEFINE a == list[k + 1]
                 at == PosIn(m[k], up, a)
      <3>1. a \in live
        BY <2>4 DEF Resolved
      <3>2. at \in Int
        BY <2>1, <3>1, WorldPlace
      <3>3. goal[at] \in Int
        BY <3>2
      <3>4. m[k + 1] = Place(m[k], up, a, goal[at])
        BY <2>2, <2>4 DEF MoveAt
      <3>5. a = b => goal[at] = at
        <4>1. a = b => goal[PosIn(m[k + 1 - 1], up, b)] = PosIn(m[k + 1 - 1], up, b)
          <5> DEFINE i == k + 1
          <5>1. i \in Resolved(list) /\ a = list[i]
            BY <2>4
          <5> HIDE DEF i, a
          <5>2. a = b => goal[PosIn(m[i - 1], up, b)] = PosIn(m[i - 1], up, b)
            BY <1>2, <5>1
          <5> QED BY <5>2 DEF i
        <4>2. m[k + 1 - 1] = m[k]
          BY <2>1
        <4> QED BY <4>1, <4>2
      <3> HIDE DEF a, at
      <3>6. IsPlaced(m[k + 1], m[k], a, goal[at])
        <4> DEFINE x == goal[at]
        <4>1. x \in Int /\ m[k + 1] = Place(m[k], up, a, x)
          BY <3>3, <3>4
        <4> HIDE DEF x
        <4>2. IsPlaced(Place(m[k], up, a, x), m[k], a, x)
          BY <2>1, <3>1, <4>1, PlacedThere
        <4> QED BY <4>1, <4>2 DEF x
      <3>7. at = PosIn(m[k], up, a)
        BY DEF at
      <3> QED BY <2>1, <3>5, <3>6, <3>7 DEF IsPlaced
    <2> QED BY <2>3, <2>4
  <1> HIDE DEF S
  <1>5. n \in S
    BY <1>1, <1>3, <1>4, SetInduction
  <1> QED BY <1>1, <1>5 DEF S, m, n

\* No actor that the one at i hangs on has a later turn.
NoneFollows(list, i) == \A j \in Resolved(list) : i < j => list[j] \notin Above(up, list[i])

SendsTo(goal, value) == goal \in [Int -> Int] /\ \A x \in Int : goal[x] = value

\* After an alignment an actor of the list is on the value, if none of those that
\* it hangs on had a later turn.
LEMMA AlignedStays ==
  ASSUME ForestInv, rel \in [live -> Int], NEW list \in Seq(Actors), NEW value \in Int, NEW goal,
         SendsTo(goal, value), NEW i \in Resolved(list), NoneFollows(list, i)
  PROVE  PosIn(Moves(list, goal)[Len(list)], up, list[i]) = value
  <1> DEFINE n == Len(list)
             m == Moves(list, goal)
             b == list[i]
             S == {k \in Nat : i <= k /\ k <= n => PosIn(m[k], up, b) = value}
  <1>0. goal \in [Int -> Int] /\ \A x \in Int : goal[x] = value
    BY DEF SendsTo
  <1>1. /\ m \in [0 .. n -> [live -> Int]] /\ n \in Nat
        /\ \A k \in 1 .. n : m[k] = MoveAt(k, list, goal, m[k - 1])
    BY <1>0, MovesUnfold
  <1>2. b \in live /\ i \in 1 .. n
    BY DEF Resolved
  <1>3. \A j \in Resolved(list) : i < j => list[j] \notin Above(up, b)
    BY DEF NoneFollows
  <1> HIDE DEF m, n, b
  <1>4. 0 \in S
    BY <1>2
  <1>5. ASSUME NEW k \in Nat, k \in S PROVE k + 1 \in S
    <2> SUFFICES ASSUME i <= k + 1, k + 1 <= n PROVE PosIn(m[k + 1], up, b) = value
      OBVIOUS
    <2>1. k + 1 \in 1 .. n /\ k + 1 - 1 = k /\ k \in 0 .. n /\ m[k] \in [live -> Int]
      BY <1>1
    <2>2. m[k + 1] = MoveAt(k + 1, list, goal, m[k])
      <3>1. m[k + 1] = MoveAt(k + 1, list, goal, m[k + 1 - 1])
        BY <1>1, <2>1
      <3> QED BY <2>1, <3>1
    <2>3. k + 1 # i => i < k + 1 /\ PosIn(m[k], up, b) = value
      BY <1>2, <1>5, <2>1
    <2>4. CASE k + 1 \notin Resolved(list)
      BY <2>2, <2>3, <2>4 DEF MoveAt
    <2>5. CASE k + 1 \in Resolved(list)
      <3> DEFINE a == list[k + 1]
      <3>1. a \in live /\ (k + 1 = i => a = b) /\ (k + 1 # i => a \notin Above(up, b))
        BY <1>3, <2>3, <2>5 DEF Resolved, b
      <3>2. PosIn(m[k], up, a) \in Int
        BY <2>1, <3>1, WorldPlace
      <3>3. m[k + 1] = Place(m[k], up, a, value)
        BY <1>0, <2>2, <2>5, <3>2 DEF MoveAt
      <3> HIDE DEF a
      <3>4. IsPlaced(m[k + 1], m[k], a, value)
        BY <2>1, <3>1, <3>3, PlacedThere
      <3> QED BY <1>2, <2>3, <3>1, <3>4 DEF IsPlaced
    <2> QED BY <2>4, <2>5
  <1> HIDE DEF S
  <1>6. n \in S
    BY <1>1, <1>4, <1>5, SetInduction
  <1> QED BY <1>1, <1>2, <1>6 DEF S, m, n, b

\* The least, the greatest and the average of some places are numbers.
LEMMA ExtremesAreMembers ==
  ASSUME NEW S \in SUBSET Int, IsFiniteSet(S), S # {}
  PROVE  Min(S) \in S /\ Max(S) \in S
  <1> DEFINE Up == {p \in Int \X Int : p[1] < p[2]}
             Down == {p \in Int \X Int : p[1] > p[2]}
  <1>1. \A a, b \in Int : (<<a, b>> \in Up <=> a < b) /\ (<<a, b>> \in Down <=> a > b)
    OBVIOUS
  <1> HIDE DEF Up, Down
  <1>2. Orders(Up, S) /\ Orders(Down, S)
    BY <1>1 DEF Orders
  <1>3. PICK m \in S : \A a \in S \ {m} : <<a, m>> \in Up
    BY <1>2, LastInOrder
  <1>4. PICK l \in S : \A a \in S \ {l} : <<a, l>> \in Down
    BY ZenonT(20), <1>2, LastInOrder
  <1>5. ASSUME NEW y \in S PROVE m >= y /\ l <= y
    <2>1. y = m \/ <<y, m>> \in Up
      BY <1>3
    <2>2. y = l \/ <<y, l>> \in Down
      BY <1>4
    <2>3. y \in Int /\ m \in Int /\ l \in Int
      OBVIOUS
    <2> QED BY <1>1, <2>1, <2>2, <2>3
  <1> QED BY <1>5 DEF Min, Max

LEMMA ValueIsNumber ==
  ASSUME ForestInv, rel \in [live -> Int], NEW list \in Seq(Actors), Resolved(list) # {}, NEW x \in Int,
         NEW mode \in {"set", "min", "max", "average"}
  PROVE  AlignValue(mode, list, x) \in Int
  <1> DEFINE at == [i \in Resolved(list) |-> Pos(list[i])]
             R == Resolved(list)
  <1>1. IsFiniteSet(R) /\ R # {}
    <2>1. R \subseteq 1 .. Len(list) /\ Len(list) \in Nat
      BY DEF Resolved
    <2>2. IsFiniteSet(1 .. Len(list))
      BY <2>1, FS_Interval
    <2> QED BY <2>1, <2>2, FS_Subset
  <1>2. \A i \in R : at[i] \in Int
    <2> SUFFICES ASSUME NEW i \in R PROVE at[i] \in Int
      OBVIOUS
    <2>1. list[i] \in live
      BY DEF Resolved
    <2>2. PosIn(rel, up, list[i]) \in Int
      BY <2>1, WorldPlace
    <2> QED BY <2>2 DEF Pos
  <1>3. /\ AlignValue("set", list, x) = x
        /\ AlignValue("min", list, x) = Min(Range(at))
        /\ AlignValue("max", list, x) = Max(Range(at))
        /\ AlignValue("average", list, x) = SumFunctionOnSet(at, R) \div Cardinality(R)
    BY DEF AlignValue
  <1>4. DOMAIN at = R
    OBVIOUS
  <1> HIDE DEF at, R
  <1>5. Range(at) = {at[i] : i \in R}
    BY <1>4 DEF Range
  <1>6. Range(at) \in SUBSET Int /\ Range(at) # {}
    BY <1>1, <1>2, <1>5
  <1>7. IsFiniteSet(Range(at))
    BY <1>1, <1>4, RangeIsFinite DEF at
  <1>8. Min(Range(at)) \in Int /\ Max(Range(at)) \in Int
    BY <1>6, <1>7, ExtremesAreMembers
  <1>9. SumFunctionOnSet(at, R) \div Cardinality(R) \in Int
    <2>1. SumFunctionOnSet(at, R) \in Int
      BY <1>1, <1>2, SumIsInt
    <2>2. Cardinality(R) \in Nat /\ Cardinality(R) # 0
      BY <1>1, FS_CardinalityType, FS_EmptySet
    <2> QED BY <2>1, <2>2
  <1> QED BY <1>3, <1>8, <1>9

------------------------------------------------------------------------------
(* What each step of the scene does to the places and to the dirty packages. *)

\* Nothing changes in a package that is not flagged.
Tracked == unsaved' \ dirty' \subseteq unsaved \ dirty

LEMMA FlagTracks ==
  ASSUME NEW changed, NEW flagged, changed \subseteq flagged, Flag(changed, flagged)
  PROVE  Tracked
  BY DEF Flag, Tracked

\* An actor that the step leaves as it is.
LeftAlone(b) == b \in live /\ b \in DOMAIN up' /\ up'[b] = up[b] /\ rel'[b] = rel[b]

LEMMA MarkedTracks ==
  ASSUME NEW A, Marked(A), \A b \in live \cup DOMAIN up' : b \notin A => LeftAlone(b)
  PROVE  Tracked
  <1>1. Rewritten \subseteq LevelsOf(A)
    BY DEF Rewritten, LevelsOf, LeftAlone
  <1> HIDE DEF Rewritten, LevelsOf
  <1> QED BY <1>1, FlagTracks DEF Marked

PlaceInv == ForestInv /\ rel \in [live -> Int]

LEMMA NewActorFine ==
  ASSUME PlaceInv, NEW a, NEW x \in Int, NewActor(a, x), Marked({a})
  PROVE  rel' \in [DOMAIN up' -> Int] /\ Tracked
  <1>1. DOMAIN up' = live \cup {a} /\ DOMAIN rel' = live \cup {a} /\ a \notin live
    BY DEF NewActor
  <1>2. \A b \in live : b # a /\ up'[b] = up[b] /\ rel'[b] = rel[b]
    BY DEF NewActor
  <1>3. rel' = [b \in live \cup {a} |-> IF b = a THEN x ELSE rel[b]] /\ rel \in [live -> Int]
    BY DEF NewActor, PlaceInv
  <1>4. rel' \in [DOMAIN up' -> Int]
    BY <1>1, <1>3
  <1>5. \A b \in live \cup DOMAIN up' : b \notin {a} => LeftAlone(b)
    BY <1>1, <1>2 DEF LeftAlone
  <1> QED BY <1>4, <1>5, MarkedTracks

LEMMA DestroyFine ==
  ASSUME PlaceInv, NEW a \in live, Unlinked(a), Marked({a} \cup Children(up, a))
  PROVE  rel' \in [DOMAIN up' -> Int] /\ Tracked
  <1>1. \A b \in live : Pos(b) \in Int
    BY WorldPlace DEF Pos, PlaceInv
  <1>2. DOMAIN up' = live \ {a} /\ \A b \in live \ {a} : up'[b] = IF up[b] = a THEN None ELSE up[b]
    BY DEF Unlinked, Prune, live
  <1>3. rel' = [b \in live \ {a} |-> IF b \in Children(up, a) THEN Pos(b) ELSE rel[b]]
    BY DEF Unlinked
  <1>4. rel' \in [DOMAIN up' -> Int]
    BY <1>1, <1>2, <1>3 DEF PlaceInv
  <1>5. \A b \in live \cup DOMAIN up' : b \notin {a} \cup Children(up, a) => LeftAlone(b)
    BY <1>2, <1>3 DEF LeftAlone, Children, live
  <1> QED BY <1>4, <1>5, MarkedTracks

\* Attaching and detaching change the coordinate of the child alone.
LEMMA KeptInPlace ==
  ASSUME PlaceInv, NEW tree, DOMAIN tree = live, NEW child \in live, NEW rule \in Rules
  PROVE  /\ Kept(rule, child, tree) \in [live -> Int]
         /\ \A b \in live \ {child} : Kept(rule, child, tree)[b] = rel[b]
  <1>1. rel \in [live -> Int] /\ IsFiniteSet(live) /\ rel[child] \in Int
    BY DEF PlaceInv, ForestInv, live
  <1>2. Pos(child) \in Int
    BY WorldPlace DEF Pos, PlaceInv
  <1>3. SumFunctionOnSet(rel, Above(tree, child)) \in Int
    <2>1. Above(tree, child) \subseteq live
      BY <1>1, AboveClosed
    <2>2. IsFiniteSet(Above(tree, child)) /\ \A b \in Above(tree, child) : rel[b] \in Int
      BY <1>1, <2>1, FS_Subset
    <2> QED BY <2>2, SumIsInt
  <1> DEFINE x == Pos(child) - SumFunctionOnSet(rel, Above(tree, child))
  <1>4. x \in Int
    BY <1>2, <1>3
  <1>5. Kept(rule, child, tree) \in {[rel EXCEPT ![child] = y] : y \in {rel[child], x, 0}}
    BY DEF Kept, Rules, Place
  <1> HIDE DEF x
  <1>6. PICK y \in Int : Kept(rule, child, tree) = [rel EXCEPT ![child] = y]
    BY <1>1, <1>4, <1>5
  <1> QED BY <1>1, <1>6

LEMMA RelinkFine ==
  ASSUME PlaceInv, NEW child \in live, NEW p, NEW rule \in Rules, NEW A, child \in A, Marked(A),
         up' = [up EXCEPT ![child] = p], rel' = Kept(rule, child, up')
  PROVE  rel' \in [DOMAIN up' -> Int] /\ Tracked
  <1>1. DOMAIN up' = live /\ \A b \in live \ {child} : up'[b] = up[b]
    BY DEF live
  <1>2. rel' \in [live -> Int] /\ \A b \in live \ {child} : rel'[b] = rel[b]
    <2> DEFINE tree == up'
    <2>1. DOMAIN tree = live /\ rel' = Kept(rule, child, tree)
      BY <1>1
    <2> HIDE DEF tree
    <2>2. /\ Kept(rule, child, tree) \in [live -> Int]
          /\ \A b \in live \ {child} : Kept(rule, child, tree)[b] = rel[b]
      BY <2>1, KeptInPlace
    <2> QED BY <2>1, <2>2
  <1>3. \A b \in live \cup DOMAIN up' : b \notin A => LeftAlone(b)
    BY <1>1, <1>2 DEF LeftAlone
  <1> QED BY <1>1, <1>2, <1>3, MarkedTracks

LEMMA MovesFine ==
  ASSUME PlaceInv, NEW list \in Seq(Actors), NEW goal \in [Int -> Int], MovedTo(list, goal), NEW A, Marked(A),
         \A b \in live \ A : StandsStill(list, goal, b)
  PROVE  rel' \in [DOMAIN up' -> Int] /\ Tracked
  <1>1. up' = up /\ rel' = Moves(list, goal)[Len(list)] /\ DOMAIN up' = live
    BY DEF MovedTo, live
  <1>2. rel' \in [live -> Int]
    <2>1. Len(list) \in 0 .. Len(list)
      OBVIOUS
    <2>2. Moves(list, goal) \in [0 .. Len(list) -> [live -> Int]]
      BY MovesUnfold DEF PlaceInv
    <2> QED BY <1>1, <2>1, <2>2
  <1>3. \A b \in live \ A : rel'[b] = rel[b]
    BY <1>1, MovedInTurn DEF PlaceInv
  <1>4. \A b \in live \cup DOMAIN up' : b \notin A => LeftAlone(b)
    BY <1>1, <1>3 DEF LeftAlone
  <1> QED BY <1>1, <1>2, <1>4, MarkedTracks

\* Who is not named by a list is not moved by it.
LEMMA NotNamedStands ==
  ASSUME NEW list, NEW goal, NEW b \in live \ Named(list)
  PROVE  StandsStill(list, goal, b)
  BY DEF StandsStill, Named

\* The steps of the scene but for transform.align.
LEMMA SceneEditsFine ==
  ASSUME PlaceInv, ActorEdits \/ HierarchyEdits \/ BatchSet \/ SnapToFloor
  PROVE  rel' \in [DOMAIN up' -> Int] /\ Tracked
  <1>0. /\ Coords \subseteq Int /\ Requests \subseteq Seq(Actors)
        /\ \A a \in live : Pos(a) \in Int
    BY PlacesAndLists, WorldPlace DEF Pos, PlaceInv
  <1>1. CASE Spawn
    <2>1. PICK a \in Actors, x \in Coords : NewActor(a, x) /\ Marked({a})
      BY <1>1 DEF Spawn
    <2>2. x \in Int
      BY <1>0
    <2> QED BY <2>1, <2>2, NewActorFine
  <1>2. CASE Duplicate
    <2>1. PICK source, a \in Actors, offset \in Coords :
            Editable(source) /\ NewActor(a, Pos(source) + offset) /\ Marked({a})
      BY <1>2 DEF Duplicate
    <2>2. Pos(source) + offset \in Int
      <3>1. Pos(source) \in Int /\ offset \in Int
        BY <1>0, <2>1 DEF Editable
      <3> QED BY <3>1
    <2> QED BY <2>1, <2>2, NewActorFine
  <1>3. CASE Destroy
    <2>1. PICK a \in live : Unlinked(a) /\ Marked({a} \cup Children(up, a))
      BY <1>3 DEF Destroy, Editable
    <2> QED BY <2>1, DestroyFine
  <1>4. CASE Attach
    <2>1. PICK child \in live, p \in Actors, rule \in Rules : Attached(child, p, rule) /\ Marked({child, p})
      BY <1>4 DEF Attach, Editable
    <2>2. up' = [up EXCEPT ![child] = p] /\ rel' = Kept(rule, child, up')
      BY <2>1 DEF Attached
    <2>3. child \in {child, p}
      OBVIOUS
    <2> QED BY <2>1, <2>2, <2>3, RelinkFine
  <1>5. CASE HierarchyAttach
    <2>1. PICK child \in live, p \in Actors, rule \in Rules : Attached(child, p, rule) /\ Marked({child})
      BY <1>5 DEF HierarchyAttach
    <2>2. up' = [up EXCEPT ![child] = p] /\ rel' = Kept(rule, child, up')
      BY <2>1 DEF Attached
    <2>3. child \in {child}
      OBVIOUS
    <2> QED BY <2>1, <2>2, <2>3, RelinkFine
  <1>6. CASE Detach \/ HierarchyDetach
    <2>1. PICK child \in live, rule \in Rules : DetachFromActor(child, rule) /\ Marked({child})
      BY <1>6 DEF Detach, HierarchyDetach, Editable
    <2>2. up' = [up EXCEPT ![child] = None] /\ rel' = Kept(rule, child, up')
      BY <2>1 DEF DetachFromActor
    <2>3. child \in {child}
      OBVIOUS
    <2> QED BY <2>1, <2>2, <2>3, RelinkFine
  <1>7. CASE SetLocation
    <2>1. PICK a \in live, x \in Coords : rel' = Place(rel, up, a, x) /\ up' = up /\ Marked({a})
      BY <1>7 DEF SetLocation, SetTransform, Editable
    <2>2. x \in Int
      BY <1>0
    <2>3. IsPlaced(rel', rel, a, x)
      BY <2>1, <2>2, PlacedThere DEF PlaceInv
    <2>4. rel' \in [live -> Int] /\ \A b \in live \ {a} : rel'[b] = rel[b]
      BY <2>3 DEF IsPlaced
    <2>5. \A b \in live \cup DOMAIN up' : b \notin {a} => LeftAlone(b)
      BY <2>1, <2>4 DEF LeftAlone, live
    <2>6. Tracked
      BY <2>1, <2>5, MarkedTracks
    <2> QED BY <2>1, <2>4, <2>6 DEF live
  <1>8. CASE BatchSet
    <2>1. PICK list \in Requests, x \in Coords, relative \in BOOLEAN :
            /\ MovedTo(list, [at \in Int |-> IF relative THEN at + x ELSE x])
            /\ Marked(Named(list)) /\ moved' = NothingMoved
      BY <1>8 DEF BatchSet
    <2> DEFINE goal == [at \in Int |-> IF relative THEN at + x ELSE x]
    <2>2. goal \in [Int -> Int] /\ list \in Seq(Actors)
      BY <1>0
    <2>3. MovedTo(list, goal)
      BY <2>1
    <2> HIDE DEF goal
    <2>4. \A b \in live \ Named(list) : StandsStill(list, goal, b)
      BY NotNamedStands
    <2> QED BY <2>1, <2>2, <2>3, <2>4, MovesFine
  <1>9. CASE SnapToFloor
    <2> DEFINE Goal(floor, maxDist) == [at \in Int |-> IF Trace(at, maxDist, floor) THEN floor ELSE at]
               Hit(list, floor, maxDist) ==
                 {i \in Resolved(list) :
                    Trace(PosIn(Moves(list, Goal(floor, maxDist))[i - 1], up, list[i]), maxDist, floor)}
    <2>1. PICK list \in Requests, floor, maxDist \in Coords :
            /\ MovedTo(list, Goal(floor, maxDist))
            /\ Marked({list[i] : i \in Hit(list, floor, maxDist)}) /\ moved' = NothingMoved
      BY <1>9 DEF SnapToFloor
    <2> DEFINE goal == Goal(floor, maxDist)
               A == {list[i] : i \in Hit(list, floor, maxDist)}
    <2>2. list \in Seq(Actors) /\ floor \in Int
      BY <1>0
    <2>3. goal \in [Int -> Int] /\ \A at \in Int : ~Trace(at, maxDist, floor) => goal[at] = at
      BY <2>2
    <2>4. \A i \in Resolved(list) :
            list[i] \notin A => ~Trace(PosIn(Moves(list, goal)[i - 1], up, list[i]), maxDist, floor)
      OBVIOUS
    <2>5. MovedTo(list, goal) /\ Marked(A)
      BY <2>1
    <2> HIDE DEF goal, A
    <2>6. ASSUME NEW b \in live \ A PROVE StandsStill(list, goal, b)
      <3> SUFFICES ASSUME NEW i \in Resolved(list), list[i] = b
                   PROVE  goal[PosIn(Moves(list, goal)[i - 1], up, b)] = PosIn(Moves(list, goal)[i - 1], up, b)
        BY DEF StandsStill
      <3>1. i - 1 \in 0 .. Len(list)
        BY <2>2 DEF Resolved
      <3>2. Moves(list, goal)[i - 1] \in [live -> Int]
        <4>1. Moves(list, goal) \in [0 .. Len(list) -> [live -> Int]]
          BY <2>2, <2>3, MovesUnfold DEF PlaceInv
        <4> QED BY <3>1, <4>1
      <3>3. PosIn(Moves(list, goal)[i - 1], up, b) \in Int
        BY <3>2, WorldPlace DEF PlaceInv
      <3>4. ~Trace(PosIn(Moves(list, goal)[i - 1], up, b), maxDist, floor)
        BY <2>4
      <3> QED BY <2>3, <3>3, <3>4
    <2> QED BY <2>1, <2>2, <2>3, <2>5, <2>6, MovesFine
  <1> QED
    BY <1>1, <1>2, <1>3, <1>4, <1>5, <1>6, <1>7, <1>8, <1>9 DEF ActorEdits, HierarchyEdits

LEMMA AlignFine ==
  ASSUME PlaceInv, Align
  PROVE  rel' \in [DOMAIN up' -> Int] /\ Tracked /\ AlignedUnlessAncestorFollows'
  <1>1. PICK list \in Requests, mode \in {"set", "min", "max", "average"}, x \in Coords :
          /\ Resolved(list) # {}
          /\ MovedTo(list, [at \in Int |-> AlignValue(mode, list, x)])
          /\ Marked(Named(list))
          /\ moved' = [list |-> list, value |-> AlignValue(mode, list, x)]
    BY DEF Align
  <1> DEFINE value == AlignValue(mode, list, x)
             goal == [at \in Int |-> value]
  <1>2. x \in Int /\ list \in Seq(Actors)
    BY PlacesAndLists
  <1>3. value \in Int
    BY <1>1, <1>2, ValueIsNumber DEF PlaceInv
  <1>4. MovedTo(list, goal) /\ moved' = [list |-> list, value |-> value]
    BY <1>1
  <1> HIDE DEF value
  <1>5. SendsTo(goal, value) /\ goal \in [Int -> Int]
    BY <1>3 DEF SendsTo
  <1> HIDE DEF goal
  <1>6. \A b \in live \ Named(list) : StandsStill(list, goal, b)
    BY NotNamedStands
  <1>7. rel' \in [DOMAIN up' -> Int] /\ Tracked
    BY <1>1, <1>2, <1>4, <1>5, <1>6, MovesFine
  <1>8. /\ up' = up /\ rel' = Moves(list, goal)[Len(list)] /\ moved'.list = list /\ moved'.value = value
        /\ live' = live /\ Resolved(list)' = Resolved(list)
    BY <1>4 DEF MovedTo, live, Resolved
  <1>9. ASSUME NEW i \in Resolved(list), NoneFollows(list, i)
        PROVE  /\ list[i] \in live'
               /\ Min({value, value}) <= Pos(list[i])' /\ Pos(list[i])' <= Max({value, value})
    <2>1. PosIn(rel', up', list[i]) = value
      BY <1>2, <1>3, <1>5, <1>8, <1>9, AlignedStays DEF PlaceInv
    <2>2. Pos(list[i])' = value
      BY <2>1 DEF Pos
    <2>3. {value, value} \in SUBSET Int /\ \A y \in {value, value} : y = value
      BY <1>3
    <2>4. Min({value, value}) = value /\ Max({value, value}) = value
      <3>1. IsFiniteSet({value, value})
        BY FS_Singleton
      <3> QED BY <2>3, <3>1, ExtremesAreMembers
    <2>5. list[i] \in live'
      BY <1>8 DEF Resolved
    <2> QED BY <1>3, <2>2, <2>4, <2>5
  <1>10. AlignedUnlessAncestorFollows'
    <2> SUFFICES ASSUME NEW i \in Resolved(moved.list)',
                        (\A j \in Resolved(moved.list) : i < j => moved.list[j] \notin Above(up, moved.list[i]))'
                 PROVE  (moved.list[i] \in BoxQuery(moved.value, moved.value))'
      BY DEF AlignedUnlessAncestorFollows
    <2>1. i \in Resolved(list) /\ NoneFollows(list, i)
      BY <1>8 DEF Resolved, NoneFollows, live
    <2>2. /\ list[i] \in live'
          /\ Min({value, value}) <= Pos(list[i])' /\ Pos(list[i])' <= Max({value, value})
      BY <1>9, <2>1
    <2> QED BY <1>8, <2>2 DEF BoxQuery, Pos
  <1> QED BY <1>7, <1>10
SceneInv == PlaceInv /\ AlignedUnlessAncestorFollows

LEMMA SceneInvKept == ASSUME SceneInv, SceneNext \/ UNCHANGED sceneVars PROVE SceneInv'
  <1>1. CASE Align /\ SceneNext
    <2>1. ForestInv'
      BY <1>1, ForestKept DEF SceneInv, PlaceInv
    <2>2. rel' \in [live' -> Int] /\ AlignedUnlessAncestorFollows'
      BY <1>1, AlignFine DEF SceneInv, live
    <2> QED BY <2>1, <2>2 DEF SceneInv, PlaceInv
  <1>2. CASE (ActorEdits \/ HierarchyEdits \/ BatchSet \/ SnapToFloor) /\ SceneNext
    <2>1. ForestInv'
      BY <1>2, ForestKept DEF SceneInv, PlaceInv
    <2>2. rel' \in [live' -> Int]
      BY <1>2, SceneEditsFine DEF SceneInv, live
    <2>3. moved' = NothingMoved
      BY <1>2 DEF ActorEdits, HierarchyEdits, BatchSet, SnapToFloor
    <2>4. AlignedUnlessAncestorFollows'
      BY <2>3 DEF AlignedUnlessAncestorFollows, NothingMoved, Resolved
    <2> QED BY <2>1, <2>2, <2>4 DEF SceneInv, PlaceInv
  <1>3. CASE UNCHANGED <<up, rel, moved>>
    BY <1>3 DEF SceneInv, PlaceInv, ForestInv, live, AlignedUnlessAncestorFollows, Resolved, BoxQuery, Pos
  <1> QED BY <1>1, <1>2, <1>3 DEF SceneNext, TransformEdits, LevelShown, sceneVars

\* For any number of actors and any lists of requests: the attachments stay a
\* forest of live actors, and an actor that transform.align has moved is found by
\* a box query at the common value unless an actor above it comes later in the
\* list.  Each move takes along only what hangs below its actor, so a place that
\* was given stays as it is until the turn of an ancestor comes.
THEOREM SceneStaysSound == Spec => []SceneSound
  <1>1. Init => SceneInv
    BY FS_EmptySet DEF Init, SceneInit, SceneInv, PlaceInv, ForestInv, IsForest, live, NothingMoved, AlignedUnlessAncestorFollows, Resolved
  <1>2. SceneInv /\ [Next]_vars => SceneInv'
    BY SceneFrame, SceneInvKept
  <1>3. SceneInv => SceneSound
    BY DEF SceneInv, PlaceInv, ForestInv, SceneSound, AttachedInForest, live
  <1> QED BY <1>1, <1>2, <1>3, PTL DEF Spec
------------------------------------------------------------------------------
(* What is flagged.                                                         *)

\* The ways in which a handler deals with the packages, and the user: none leaves
\* a package changed that was not and has no flag.
LEMMA PackageSteps ==
  /\ Look => Tracked
  /\ \A p : Edit(p) => Tracked
  /\ \A p, q : p \subseteq q /\ Flag(p, q) => Tracked
  /\ \A p : Written(p) => Tracked
  /\ SaveAll => Tracked
  /\ PlayWorldChanges => Tracked
  /\ UNCHANGED session => Tracked
  /\ dirty' = dirty /\ unsaved' = unsaved => Tracked
  BY DEF Look, Edit, Flag, Written, SaveAll, PlayWorldChanges, session, Tracked

LEMMA EveryStepTracks ==
  ASSUME SceneInv, [Next]_vars
  PROVE  Tracked \/ SetStreamingState \/ SetSimulation
  <1>1. SceneNext => Tracked
    <2>1. ActorEdits \/ HierarchyEdits \/ BatchSet \/ SnapToFloor => Tracked
      BY SceneEditsFine DEF SceneInv
    <2>2. Align => Tracked
      BY AlignFine DEF SceneInv
    <2>3. LevelShown => Tracked
      BY PackageSteps DEF LevelShown
    <2> QED BY <2>1, <2>2, <2>3 DEF SceneNext, TransformEdits
  <1>2. OutlinerNext => Tracked
    BY PackageSteps DEF OutlinerNext, Manage, Find, SpawnActor, DestroyActor, SetFolder, FolderSetActor, SelectInEditor, CreateFolder, DeleteFolder, DeleteFolderAt
  <1>3. ComponentNext => Tracked
    <2>1. ComponentAdd \/ ComponentRemove \/ MoveInHierarchy => Tracked
      BY PackageSteps DEF ComponentAdd, ComponentRemove, MoveInHierarchy
    <2>2. ComponentSetProperty \/ ComponentSetTransform => Tracked
      BY PackageSteps DEF ComponentSetProperty, ComponentSetTransform
    <2> QED
      BY <2>1, <2>2, PackageSteps DEF ComponentNext
  <1>4. LevelNext => Tracked \/ SetStreamingState
    BY PackageSteps DEF LevelNext, LevelLoad, LevelCreate, LevelSave, LevelDuplicate, LevelUnload, StreamingAdd, StreamingRemove, SetLoaded, SetWorldSettings, SetActorRuntimeGrid, SubmitSaveAllDirty, SaveAllDirtyBody
  <1>5. BatchNext => Tracked
    BY PackageSteps DEF BatchNext, SubmitBatch, RunBatch, WorldMoves, BatchSpawn, BatchDestroy, BatchSetProperty, BatchRefused, FindActors, FullActorDump, Scanned
  <1>6. PlayNext => Tracked \/ SetSimulation
    <2>1. PieStart \/ EngineTick => Tracked
      BY PackageSteps DEF PieStart, EngineTick
    <2> QED
      BY <2>1, PackageSteps DEF PlayNext, PieStop, PauseOrResume, StepFrame, ConsoleExec, SimulateKey, ClickScreen, ClickActor, DragScreen, AddLookInput, MoveMouse, SetTimeDilation, FocusActor, UserEnds, ApplyImpulse, SetVelocity, SetCamera, SetSelection, ViewportScreenshot, PIEScreenshotToDisk, Click, InPlay
  <1>7. TreeNext => Tracked
    BY PackageSteps DEF TreeNext, AddNode, AddNodeRefused, AddDecorator, AddService, RemoveNode, SetNodeProperty
  <1>8. AgentNext => Tracked
    BY PackageSteps DEF AgentNext, CreateBoard, AddKey, RemoveKey, CreateQuery, AddGenerator, AddTest, RunQuery, StartOnActor, StopOnActor, SetValue, RespawnBlackboard, SetAvoidanceQuality
  <1>9. InsightsNext => Tracked
    BY PackageSteps DEF InsightsNext
  <1>10. StatNext => Tracked
    BY PackageSteps DEF StatNext
  <1>11. TestNext => Tracked
    BY PackageSteps DEF TestNext
  <1>12. ViewNext => Tracked
    BY PackageSteps DEF ViewNext, ViewportSetCamera, FocusOnActor, RegionCapture, CaptureActors, CaptureSelection, HighResolution, SetShowFlag, SetPostProcess, DrawLine, DrawSphere, DrawBox, DrawArrow, DrawText, ClearDebug, Capture, DrawDebug
  <1>13. DrawNext => Tracked
    BY PackageSteps DEF DrawNext, Annotate
  <1>14. SourceControlNext => Tracked
    BY PackageSteps DEF SourceControlNext
  <1>15. DiffNext => Tracked
    BY PackageSteps DEF DiffNext
  <1>16. CodingNext => Tracked
    BY PackageSteps DEF CodingNext
  <1>17. CfgNext => Tracked
    BY PackageSteps DEF CfgNext
  <1>18. CallSubsystem => Tracked
    BY PackageSteps DEF CallSubsystem
  <1>19. CollisionNext => Tracked
    BY PackageSteps DEF CollisionNext
  <1>20. TagNext => Tracked
    BY PackageSteps DEF TagNext, AddToContainer, RemoveFromContainer
  <1> QED
    BY PackageSteps, <1>1, <1>2, <1>3, <1>4, <1>5, <1>6, <1>7, <1>8, <1>9, <1>10, <1>11, <1>12, <1>13, <1>14, <1>15, <1>16, <1>17, <1>18, <1>19, <1>20
    DEF Next, vars, SceneStep, OutlinerStep, ComponentStep, LevelStep, BatchStep,
        PlayStep, TreeStep, AgentStep, InsightsStep, StatStep, TestStep, ViewStep, DrawStep,
        SourceControlStep, DiffStep, CodingStep, CfgStep, CollisionStep, TagStep, PlayWorld, UserSaves

\* Every package that a tool of any surface changes is flagged by it, with the two
\* exceptions that the property names: transform.* marks the actors that it moves,
\* destroy the children that it lets go, and attach and detach the child, whose
\* coordinate alone they rewrite.
THEOREM EditsAreFlagged == Spec => EditsFlagged
  <1>1. Init => SceneInv
    BY FS_EmptySet DEF Init, SceneInit, SceneInv, PlaceInv, ForestInv, IsForest, live, NothingMoved, AlignedUnlessAncestorFollows, Resolved
  <1>2. SceneInv /\ [Next]_vars => SceneInv'
    BY SceneFrame, SceneInvKept
  <1>3. SceneInv /\ [Next]_vars =>
          [unsaved' \ dirty' \subseteq unsaved \ dirty \/ SetStreamingState \/ SetSimulation]_session
    BY EveryStepTracks DEF Tracked
  <1> QED BY <1>1, <1>2, <1>3, PTL DEF Spec, EditsFlagged
------------------------------------------------------------------------------
(* The components of an actor.                                              *)

\* The components surface alone moves its variables.
LEMMA ComponentFrame ==
  ASSUME [Next]_vars
  PROVE  ComponentNext \/ UNCHANGED componentVars
  BY DEF Next, vars, OthersStill, SceneStep, OutlinerStep, ComponentStep, LevelStep, BatchStep,
         PlayStep, TreeStep, AgentStep, InsightsStep, StatStep, TestStep, ViewStep, DrawStep,
         SourceControlStep, DiffStep, CodingStep, CfgStep, CollisionStep, TagStep, PlayWorld, UserSaves

PartsInv ==
  /\ DOMAIN parts \subseteq Components /\ IsFiniteSet(DOMAIN parts)
  /\ \A c \in DOMAIN parts : parts[c] \in DOMAIN parts \cup {NoComponent}
  /\ root \in DOMAIN parts \cup {NoComponent}
  /\ root = NoComponent => scene = {}

\* The steps that the component surface takes to the tree of components.
LEMMA ComponentKinds ==
  ASSUME ComponentNext
  PROVE  \/ \E c \in Components \ DOMAIN parts, attachTo \in {NoComponent} \cup scene :
              /\ parts' = [d \in DOMAIN parts \cup {c} |->
                             IF d # c THEN parts[d]
                             ELSE IF c \in SceneComponents THEN ParentFor(attachTo) ELSE NoComponent]
              /\ root' = IF c \in SceneComponents /\ root = NoComponent THEN c ELSE root
         \/ \E c \in DOMAIN parts : c # root /\ parts' = Prune(parts, {c}, NoComponent) /\ root' = root
         \/ \E child, parent \in scene : /\ child # root /\ child # parent /\ child \notin Above(parts, parent)
                                         /\ parts' = [parts EXCEPT ![child] = parent] /\ root' = root
         \/ parts' = parts /\ root' = root
  <1>1. CASE ComponentAdd
    BY <1>1 DEF ComponentAdd
  <1>2. CASE ComponentRemove
    BY <1>2 DEF ComponentRemove, Removable, EditableComponent
  <1>3. CASE MoveInHierarchy
    BY <1>3 DEF MoveInHierarchy, ParentWouldCycle
  <1>4. CASE ComponentSetProperty \/ ComponentSetTransform \/ UNCHANGED <<session, parts, root>>
    BY <1>4 DEF ComponentSetProperty, ComponentSetTransform
  <1> QED BY <1>1, <1>2, <1>3, <1>4 DEF ComponentNext

\* What OnlyRemovalCutsOff says of one step.
CutOffByRemoval ==
  /\ \A c \in Loose' \ Loose :
       \/ c \in DOMAIN parts /\ Above(parts, c) \cap (DOMAIN parts \ DOMAIN parts') # {}
       \/ Above(parts', c) \cap Loose # {}
  /\ root # NoComponent => root' = root /\ root \in DOMAIN parts'

LEMMA AddedComponent ==
  ASSUME PartsInv, NEW c \in Components \ DOMAIN parts, NEW attachTo \in {NoComponent} \cup scene,
         parts' = [d \in DOMAIN parts \cup {c} |->
                     IF d # c THEN parts[d]
                     ELSE IF c \in SceneComponents THEN ParentFor(attachTo) ELSE NoComponent],
         root' = IF c \in SceneComponents /\ root = NoComponent THEN c ELSE root
  PROVE  PartsInv' /\ CutOffByRemoval
  <1>0. /\ DOMAIN parts \subseteq Components /\ IsFiniteSet(DOMAIN parts) /\ NoComponent \notin Components
        /\ \A d \in DOMAIN parts : parts[d] \in DOMAIN parts \cup {NoComponent}
        /\ root \in DOMAIN parts \cup {NoComponent} /\ (root = NoComponent => scene = {})
    BY NoComponentIsNone DEF PartsInv
  <1>1. /\ DOMAIN parts' = DOMAIN parts \cup {c}
        /\ \A d \in DOMAIN parts : parts'[d] = parts[d]
        /\ parts'[c] = IF c \in SceneComponents THEN ParentFor(attachTo) ELSE NoComponent
    OBVIOUS
  <1>2. IsFiniteSet(DOMAIN parts')
    BY <1>0, <1>1, FS_AddElement
  <1>3. ParentFor(attachTo) \in DOMAIN parts \cup {NoComponent}
    BY <1>0 DEF ParentFor, scene
  <1>4. scene' = scene \cup ({c} \cap SceneComponents)
    BY <1>1 DEF scene
  <1>5. PartsInv'
    <2>1. \A d \in DOMAIN parts' : parts'[d] \in DOMAIN parts' \cup {NoComponent}
      BY <1>0, <1>1, <1>3
    <2>2. root' \in DOMAIN parts' \cup {NoComponent}
      BY <1>0, <1>1
    <2>3. root' = NoComponent => scene' = {}
      BY <1>0, <1>4
    <2> QED BY <1>0, <1>1, <1>2, <2>1, <2>2, <2>3 DEF PartsInv
  <1>6. root # NoComponent => root' = root /\ root \in DOMAIN parts'
    BY <1>0, <1>1
  <1>7. ASSUME NEW d \in DOMAIN parts PROVE Above(parts, d) \subseteq Above(parts', d)
    <2>1. Above(parts, d) \subseteq DOMAIN parts
      BY <1>0, AboveClosed
    <2> QED BY <1>0, <1>1, <1>2, <2>1, SameWayUp
  <1>8. ASSUME NEW d \in Loose' \ Loose, Above(parts', d) \cap Loose = {} PROVE FALSE
    <2>1. d \in scene' /\ d # root' /\ root' \notin Above(parts', d)
      BY <1>8 DEF Loose
    <2>2. root # NoComponent /\ root' = root
      BY <1>0, <1>4, <2>1
    <2>3. CASE d \in scene
      <3>1. root \in Above(parts, d)
        BY <1>8, <2>1, <2>2, <2>3 DEF Loose
      <3> QED BY <1>7, <2>1, <2>2, <2>3, <3>1 DEF scene
    <2>4. CASE d = c
      <3> DEFINE p == ParentFor(attachTo)
      <3>1. c \in SceneComponents /\ parts'[c] = p
        BY <1>1, <1>4, <2>1, <2>4 DEF scene
      <3>2. p \in scene \/ p = root
        BY DEF ParentFor
      <3>3. p \in DOMAIN parts
        BY <1>0, <2>2, <3>2 DEF scene
      <3> HIDE DEF p
      <3>4. p \in Above(parts', c) /\ Above(parts', p) \subseteq Above(parts', c)
        BY <1>1, <1>2, <3>1, <3>3, ParentIsAbove
      <3>5. p # root /\ p \in scene /\ p \notin Loose
        BY <1>8, <2>1, <2>2, <2>4, <3>2, <3>4
      <3>6. root \in Above(parts, p)
        BY <3>5 DEF Loose
      <3> QED BY <1>7, <2>1, <2>2, <2>4, <3>3, <3>4, <3>6
    <2> QED BY <1>4, <2>1, <2>3, <2>4
  <1> QED BY <1>5, <1>6, <1>8 DEF CutOffByRemoval

LEMMA RemovedComponent ==
  ASSUME PartsInv, NEW c \in DOMAIN parts, c # root, parts' = Prune(parts, {c}, NoComponent), root' = root
  PROVE  PartsInv' /\ CutOffByRemoval
  <1>0. /\ DOMAIN parts \subseteq Components /\ IsFiniteSet(DOMAIN parts) /\ NoComponent \notin Components
        /\ \A d \in DOMAIN parts : parts[d] \in DOMAIN parts \cup {NoComponent}
        /\ root \in DOMAIN parts \cup {NoComponent} /\ (root = NoComponent => scene = {})
    BY NoComponentIsNone DEF PartsInv
  <1>1. /\ DOMAIN parts' = DOMAIN parts \ {c}
        /\ \A d \in DOMAIN parts' : parts'[d] = IF parts[d] = c THEN NoComponent ELSE parts[d]
    BY DEF Prune
  <1>2. IsFiniteSet(DOMAIN parts')
    BY <1>0, <1>1, FS_Subset
  <1>3. PartsInv'
    <2>1. \A d \in DOMAIN parts' : parts'[d] \in DOMAIN parts' \cup {NoComponent}
      BY <1>0, <1>1
    <2>2. root' \in DOMAIN parts' \cup {NoComponent}
      BY <1>0, <1>1
    <2>3. root' = NoComponent => scene' = {}
      BY <1>0, <1>1 DEF scene
    <2> QED BY <1>0, <1>1, <1>2, <2>1, <2>2, <2>3 DEF PartsInv
  <1>4. root # NoComponent => root' = root /\ root \in DOMAIN parts'
    BY <1>0, <1>1
  <1>5. ASSUME NEW d \in Loose' \ Loose, c \notin Above(parts, d) PROVE FALSE
    <2>1. d \in DOMAIN parts' /\ d \in DOMAIN parts /\ root \notin Above(parts', d) /\ root \in Above(parts, d)
      BY <1>1, <1>5 DEF Loose, scene
    <2>2. /\ Above(parts, d) \subseteq DOMAIN parts
          /\ ParentsOf(parts, {d} \cup Above(parts, d)) \subseteq Above(parts, d)
      BY <1>0, <2>1, AboveClosed
    <2>3. \A m \in {d} \cup Above(parts, d) : parts[m] \in DOMAIN parts => parts[m] \in Above(parts, d)
      BY <2>1, <2>2 DEF ParentsOf
    <2>4. \A m \in {d} \cup Above(parts, d) : parts[m] \in DOMAIN parts =>
            parts[m] \in DOMAIN parts' /\ parts'[m] = parts[m]
      BY <1>1, <1>5, <2>1, <2>2, <2>3
    <2>5. Above(parts, d) \subseteq Above(parts', d)
      BY <1>0, <1>2, <2>1, <2>4, SameWayUp
    <2> QED BY <2>1, <2>5
  <1>6. \A d \in Loose' \ Loose :
          d \in DOMAIN parts /\ Above(parts, d) \cap (DOMAIN parts \ DOMAIN parts') # {}
    BY <1>1, <1>5 DEF Loose, scene
  <1> QED BY <1>3, <1>4, <1>6 DEF CutOffByRemoval

LEMMA MovedComponent ==
  ASSUME PartsInv, NEW child \in scene, NEW parent \in scene, child # root, child # parent,
         child \notin Above(parts, parent), parts' = [parts EXCEPT ![child] = parent], root' = root
  PROVE  PartsInv' /\ CutOffByRemoval
  <1>0. /\ DOMAIN parts \subseteq Components /\ IsFiniteSet(DOMAIN parts)
        /\ \A d \in DOMAIN parts : parts[d] \in DOMAIN parts \cup {NoComponent}
        /\ root \in DOMAIN parts \cup {NoComponent} /\ (root = NoComponent => scene = {})
    BY DEF PartsInv
  <1>1. /\ DOMAIN parts' = DOMAIN parts /\ scene' = scene /\ parts'[child] = parent
        /\ \A d \in DOMAIN parts \ {child} : parts'[d] = parts[d]
        /\ child \in DOMAIN parts /\ parent \in DOMAIN parts
    BY DEF scene
  <1>2. PartsInv'
    <2>1. \A d \in DOMAIN parts : parts'[d] \in DOMAIN parts \cup {NoComponent}
      BY <1>0, <1>1
    <2> QED BY <1>0, <1>1, <2>1 DEF PartsInv
  <1>3. ASSUME NEW d \in DOMAIN parts, child \notin {d} \cup (Above(parts, d) \cap Above(parts', d))
        PROVE  Above(parts, d) \subseteq Above(parts', d)
    <2>1. Above(parts, d) \subseteq DOMAIN parts
      BY <1>0, AboveClosed
    <2>2. \A m \in {d} \cup (Above(parts, d) \cap Above(parts', d)) :
            parts[m] \in DOMAIN parts => parts[m] \in DOMAIN parts' /\ parts'[m] = parts[m]
      BY <1>1, <1>3, <2>1
    <2> QED BY <1>0, <1>1, <2>2, SameWayUp
  <1>4. ASSUME NEW d \in Loose' \ Loose, Above(parts', d) \cap Loose = {} PROVE FALSE
    <2>1. d \in DOMAIN parts /\ d # root /\ root \notin Above(parts', d) /\ root \in Above(parts, d)
      BY <1>1, <1>4 DEF Loose, scene
    <2>2. child \in {d} \cup Above(parts', d)
      BY <1>3, <2>1
    <2>3. parent \in Above(parts', d) /\ Above(parts', parent) \subseteq Above(parts', d)
      <3>1. parent \in Above(parts', child) /\ Above(parts', parent) \subseteq Above(parts', child)
        BY <1>0, <1>1, ParentIsAbove
      <3>2. child \in Above(parts', d) => Above(parts', child) \subseteq Above(parts', d)
        BY <1>0, <1>1, <2>1, AboveTransitive
      <3> QED BY <2>2, <3>1, <3>2
    <2>4. parent # root /\ parent \notin Loose
      BY <1>4, <2>1, <2>3
    <2>5. root \in Above(parts, parent)
      BY <2>4 DEF Loose
    <2>6. Above(parts, parent) \subseteq Above(parts', parent)
      BY <1>1, <1>3
    <2> QED BY <2>1, <2>3, <2>5, <2>6
  <1>5. root # NoComponent => root' = root /\ root \in DOMAIN parts'
    BY <1>0, <1>1
  <1> QED BY <1>2, <1>4, <1>5 DEF CutOffByRemoval

\* A scene component comes loose from the root only by the removal of one that it
\* hung on, or below one that is loose already, for any number of components and
\* in every order of add, move and remove; and the root stays.
THEOREM RemovalAloneCutsOff == Spec => OnlyRemovalCutsOff
  <1>1. Init => PartsInv
    BY FS_EmptySet DEF Init, ComponentInit, PartsInv, scene
  <1>2. PartsInv /\ [Next]_vars => PartsInv' /\ (CutOffByRemoval \/ UNCHANGED componentVars)
    <2> SUFFICES ASSUME PartsInv, [Next]_vars PROVE PartsInv' /\ (CutOffByRemoval \/ UNCHANGED componentVars)
      OBVIOUS
    <2>1. CASE UNCHANGED componentVars
      BY <2>1 DEF componentVars, PartsInv, scene
    <2>2. CASE parts' = parts /\ root' = root
      BY <2>2 DEF PartsInv, scene, CutOffByRemoval, Loose
    <2>3. CASE ComponentNext
      BY <2>2, <2>3, ComponentKinds, AddedComponent, RemovedComponent, MovedComponent
    <2> QED BY <2>1, <2>3, ComponentFrame
  <1>3. CutOffByRemoval \/ UNCHANGED componentVars =>
          [/\ \A c \in Loose' \ Loose :
                \/ c \in DOMAIN parts /\ Above(parts, c) \cap (DOMAIN parts \ DOMAIN parts') # {}
                \/ Above(parts', c) \cap Loose # {}
           /\ root # NoComponent => root' = root /\ root \in DOMAIN parts']_componentVars
    BY DEF CutOffByRemoval
  <1> QED BY <1>1, <1>2, <1>3, PTL DEF Spec, OnlyRemovalCutsOff
------------------------------------------------------------------------------
(* The line that is drawn.                                                  *)

\* A run along the longer side: the position after u steps along it and v across
\* is off the line by at most half a pixel, in units of the longer side.
OnCourse(long, short, u, v) ==
  /\ u \in 0 .. long /\ v \in 0 .. short
  /\ -long <= 2 * (u * short - v * long) /\ 2 * (u * short - v * long) <= long

\* One step along, and one across if half of the error says so, keeps the course.
LEMMA CourseKept ==
  ASSUME NEW long \in Nat, NEW short \in Nat, short <= long, NEW u, NEW v,
         OnCourse(long, short, u, v), ~(u = long /\ v = short),
         NEW across \in {0, 1},
         across = 1 <=> 2 * (v * long - u * short + long - short) <= long
  PROVE  /\ 2 * (v * long - u * short + long - short) >= -short
         /\ u + 1 <= long
         /\ OnCourse(long, short, u + 1, v + across)
  <1> DEFINE P == u * short
             Q == v * long
  <1>1. u \in Nat /\ v \in Nat /\ u <= long /\ v <= short
    BY DEF OnCourse
  <1>2. P \in Int /\ Q \in Int
    BY <1>1
  <1>3. -long <= 2 * (P - Q) /\ 2 * (P - Q) <= long
    BY DEF OnCourse
  <1>4. u # long
    <2> SUFFICES ASSUME u = long PROVE FALSE
      OBVIOUS
    <2>1. v + 1 <= short
      BY <1>1
    <2>2. P = long * short /\ Q = v * long
      OBVIOUS
    <2>3. P - Q = long * (short - v)
      BY <1>1, <2>2
    <2>4. long * (short - v) >= long
      BY <1>1, <2>1
    <2>5. long = 0
      BY <1>2, <1>3, <2>3, <2>4
    <2> QED BY <1>1, <2>1, <2>5
  <1>5. u + 1 <= long
    BY <1>1, <1>4
  <1>6. (u + 1) * short = P + short /\ (v + 1) * long = Q + long
    BY <1>1
  <1>7. 2 * (Q - P + long - short) >= -short
    <2> HIDE DEF P, Q
    <2> QED BY <1>2, <1>3
  <1>8. CASE across = 0
    <2>1. 2 * (Q - P + long - short) > long
      <3>1. Q - P + long - short \in Int
        <4> HIDE DEF P, Q
        <4> QED BY <1>2
      <3> QED BY <1>8, <3>1
    <2>2. -long <= 2 * (P + short - Q) /\ 2 * (P + short - Q) <= long
      <3> HIDE DEF P, Q
      <3> QED BY <1>2, <1>3, <2>1
    <2>3. OnCourse(long, short, u + 1, v)
      BY <1>1, <1>5, <1>6, <2>2 DEF OnCourse
    <2> QED BY <1>1, <1>5, <1>7, <1>8, <2>3
  <1>9. CASE across = 1
    <2>1. 2 * (Q - P + long - short) <= long
      BY <1>9
    <2>2. -long <= 2 * (P + short - (Q + long)) /\ 2 * (P + short - (Q + long)) <= long
      <3> HIDE DEF P, Q
      <3> QED BY <1>2, <1>3, <2>1
    <2>3. v # short
      <3> SUFFICES ASSUME v = short PROVE FALSE
        OBVIOUS
      <3>1. Q - P = short * (long - u)
        BY <1>1
      <3>2. short * (long - u) >= short
        BY <1>1, <1>5
      <3>3. 2 * long <= long
        <4> HIDE DEF P, Q
        <4> QED BY <1>2, <2>1, <3>1, <3>2
      <3> QED BY <1>5, <1>1, <3>3
    <2>4. OnCourse(long, short, u + 1, v + 1)
      BY <1>1, <1>5, <1>6, <2>2, <2>3 DEF OnCourse
    <2> QED BY <1>5, <1>7, <1>9, <2>4
  <1> QED BY <1>8, <1>9

Pixels == [x : Int, y : Int, err : Int]

\* Where the loop of DrawLine stands after k rounds: it has come u columns and v
\* rows nearer to b, k of them along the longer side.
Stands(p, a, b, dx, dy, k, u, v) ==
  /\ p.x = IF a[1] < b[1] THEN a[1] + u ELSE a[1] - u
  /\ p.y = IF a[2] < b[2] THEN a[2] + v ELSE a[2] - v
  /\ p.err = v * dx - u * dy + dx - dy
  /\ dy <= dx => OnCourse(dx, dy, u, v) /\ u = Least(k, dx)
  /\ dx < dy => OnCourse(dy, dx, v, u) /\ v = Least(k, dy)

OnLine(p, a, b, k) ==
  /\ p \in Pixels
  /\ \E u, v \in Nat : Stands(p, a, b, AbsOf(b[1] - a[1]), AbsOf(b[2] - a[2]), k, u, v)

LEMMA RoundKeeps ==
  ASSUME NEW a \in Int \X Int, NEW b \in Int \X Int, NEW k \in Nat, NEW p, OnLine(p, a, b, k)
  PROVE  OnLine(Round(p, a, b), a, b, k + 1)
  <1> DEFINE dx == AbsOf(b[1] - a[1])
             dy == AbsOf(b[2] - a[2])
             q == Round(p, a, b)
  <1>1. /\ dx \in Nat /\ dy \in Nat
        /\ a[1] \in Int /\ a[2] \in Int /\ b[1] \in Int /\ b[2] \in Int
        /\ b[1] = IF a[1] < b[1] THEN a[1] + dx ELSE a[1] - dx
        /\ b[2] = IF a[2] < b[2] THEN a[2] + dy ELSE a[2] - dy
        /\ b = <<b[1], b[2]>>
    BY DEF AbsOf
  <1> HIDE DEF dx, dy
  <1>2. PICK u \in Nat, v \in Nat : Stands(p, a, b, dx, dy, k, u, v)
    BY DEF OnLine, dx, dy
  <1>7. /\ p.x = IF a[1] < b[1] THEN a[1] + u ELSE a[1] - u
        /\ p.y = IF a[2] < b[2] THEN a[2] + v ELSE a[2] - v
        /\ p.err = v * dx - u * dy + dx - dy
        /\ dy <= dx => OnCourse(dx, dy, u, v) /\ u = Least(k, dx)
        /\ dx < dy => OnCourse(dy, dx, v, u) /\ v = Least(k, dy)
    BY <1>2 DEF Stands
  <1>3. p \in Pixels
    BY DEF OnLine, dx, dy
  <1>4. <<p.x, p.y>> = b <=> u = dx /\ v = dy
    <2>1. p.x = b[1] <=> u = dx
      BY <1>1, <1>7
    <2>2. p.y = b[2] <=> v = dy
      BY <1>1, <1>7
    <2> QED BY <1>1, <2>1, <2>2
  <1>5. CASE u = dx /\ v = dy
    <2>1. q = p
      BY <1>4, <1>5 DEF Round
    <2>2. dx = Least(k, dx) => dx = Least(k + 1, dx)
      BY <1>1 DEF Least
    <2>3. dy = Least(k, dy) => dy = Least(k + 1, dy)
      BY <1>1 DEF Least
    <2>4. /\ dy <= dx => OnCourse(dx, dy, u, v) /\ u = Least(k + 1, dx)
          /\ dx < dy => OnCourse(dy, dx, v, u) /\ v = Least(k + 1, dy)
      BY <1>7, <1>5, <2>2, <2>3
    <2>5. Stands(p, a, b, dx, dy, k + 1, u, v)
      BY <1>7, <2>4 DEF Stands
    <2> QED BY <1>3, <2>1, <2>5 DEF OnLine, dx, dy
  <1>6. CASE ~(u = dx /\ v = dy)
    <2> DEFINE e2 == 2 * p.err
               i == IF e2 >= -dy THEN 1 ELSE 0
               j == IF e2 <= dx THEN 1 ELSE 0
    <2>0. v * dx \in Int /\ u * dy \in Int
      BY <1>1
    <2>1. p.err \in Int /\ p.x \in Int /\ p.y \in Int
      BY <1>3 DEF Pixels
    <2>2. e2 \in Int /\ e2 = 2 * (v * dx - u * dy + dx - dy) /\ i \in {0, 1} /\ j \in {0, 1}
      BY <1>7, <2>1
    <2>3. q = [x |-> IF e2 >= -dy THEN p.x + (IF a[1] < b[1] THEN 1 ELSE -1) ELSE p.x,
               y |-> IF e2 <= dx THEN p.y + (IF a[2] < b[2] THEN 1 ELSE -1) ELSE p.y,
               err |-> p.err + (IF e2 >= -dy THEN -dy ELSE 0) + (IF e2 <= dx THEN dx ELSE 0)]
      BY <1>4, <1>6 DEF Round, Step, dx, dy
    <2>4. /\ q.x = IF a[1] < b[1] THEN a[1] + (u + i) ELSE a[1] - (u + i)
          /\ q.y = IF a[2] < b[2] THEN a[2] + (v + j) ELSE a[2] - (v + j)
      <3> HIDE DEF e2
      <3> QED BY <1>1, <1>7, <2>1, <2>2, <2>3
    <2>5. q.err = (v + j) * dx - (u + i) * dy + dx - dy
      <3>1. (v + j) * dx = v * dx + (IF e2 <= dx THEN dx ELSE 0)
        BY <1>1, <2>2
      <3>2. (u + i) * dy = u * dy + (IF e2 >= -dy THEN dy ELSE 0)
        BY <1>1, <2>2
      <3>3. q.err = p.err + (IF e2 >= -dy THEN -dy ELSE 0) + (IF e2 <= dx THEN dx ELSE 0)
        BY <2>3
      <3> HIDE DEF e2, i, j
      <3>4. \A vd, ud, vd1, ud1 \in Int : vd1 = vd + (IF e2 <= dx THEN dx ELSE 0) /\ ud1 = ud + (IF e2 >= -dy THEN dy ELSE 0)
               /\ p.err = vd - ud + dx - dy => q.err = vd1 - ud1 + dx - dy
        BY <1>1, <2>1, <3>3
      <3>5. (v + j) * dx \in Int /\ (u + i) * dy \in Int
        BY <1>1, <2>2
      <3> QED BY <1>7, <2>0, <3>1, <3>2, <3>4, <3>5
    <2>6. q \in Pixels
      <3>1. q.x \in Int /\ q.y \in Int /\ q.err \in Int
        BY <1>1, <2>2, <2>4, <2>5
      <3> QED BY <2>3, <3>1 DEF Pixels
    <2>7. CASE dy <= dx
      <3>1. OnCourse(dx, dy, u, v) /\ u = Least(k, dx)
        BY <1>7, <2>7
      <3>2. j = 1 <=> 2 * (v * dx - u * dy + dx - dy) <= dx
        BY <2>2
      <3>3. /\ 2 * (v * dx - u * dy + dx - dy) >= -dy
            /\ u + 1 <= dx /\ OnCourse(dx, dy, u + 1, v + j)
        <4> HIDE DEF j, e2
        <4> QED BY <1>1, <1>6, <2>2, <2>7, <3>1, <3>2, CourseKept
      <3>4. i = 1
        BY <2>2, <3>3
      <3>5. u + 1 = Least(k + 1, dx)
        BY <1>1, <3>1, <3>3 DEF Least
      <3> HIDE DEF i, j, e2, q
      <3>6. u + i \in Nat /\ v + j \in Nat
        BY <2>2
      <3>7. OnCourse(dx, dy, u + i, v + j) /\ u + i = Least(k + 1, dx)
        BY <3>3, <3>4, <3>5
      <3>8. Stands(q, a, b, dx, dy, k + 1, u + i, v + j)
        BY <1>1, <2>4, <2>5, <2>7, <3>7 DEF Stands
      <3> QED BY <2>6, <3>6, <3>8 DEF OnLine, dx, dy, q
    <2>8. CASE dx < dy
      <3>1. OnCourse(dy, dx, v, u) /\ v = Least(k, dy) /\ dx <= dy
        BY <1>1, <1>7, <2>8
      <3>2. 2 * (u * dy - v * dx + dy - dx) = -e2
        BY <1>1, <2>0, <2>2
      <3>3. i = 1 <=> 2 * (u * dy - v * dx + dy - dx) <= dy
        <4> HIDE DEF e2
        <4> QED BY <1>1, <2>2, <3>2
      <3>4. /\ 2 * (u * dy - v * dx + dy - dx) >= -dx
            /\ v + 1 <= dy /\ OnCourse(dy, dx, v + 1, u + i)
        <4> HIDE DEF i, e2
        <4> QED BY <1>1, <1>6, <2>2, <3>1, <3>3, CourseKept
      <3>5. j = 1
        <4> HIDE DEF e2
        <4>1. e2 <= dx
          BY <1>1, <2>2, <3>2, <3>4
        <4> QED BY <4>1
      <3>6. v + 1 = Least(k + 1, dy)
        BY <1>1, <3>1, <3>4 DEF Least
      <3> HIDE DEF i, j, e2, q
      <3>7. u + i \in Nat /\ v + j \in Nat
        BY <2>2
      <3>8. OnCourse(dy, dx, v + j, u + i) /\ v + j = Least(k + 1, dy)
        BY <3>4, <3>5, <3>6
      <3>9. Stands(q, a, b, dx, dy, k + 1, u + i, v + j)
        BY <1>1, <2>4, <2>5, <2>8, <3>8 DEF Stands
      <3> QED BY <2>6, <3>7, <3>9 DEF OnLine, dx, dy, q
    <2> QED BY <1>1, <2>7, <2>8
  <1> QED BY <1>5, <1>6

LEMMA RoundsUnfold ==
  ASSUME NEW a \in Int \X Int, NEW b \in Int \X Int
  PROVE  /\ DOMAIN Rounds(a, b) = 0 .. AbsOf(b[1] - a[1]) + AbsOf(b[2] - a[2])
         /\ \A k \in DOMAIN Rounds(a, b) : OnLine(Rounds(a, b)[k], a, b, k)
  <1> DEFINE dx == AbsOf(b[1] - a[1])
             dy == AbsOf(b[2] - a[2])
             start == [x |-> a[1], y |-> a[2], err |-> dx - dy]
             n == dx + dy
             IsRounds(f) == f = [k \in 0 .. n |-> IF k = 0 THEN start ELSE Round(f[k - 1], a, b)]
             turn == [k \in 1 .. n |-> [p \in Pixels |-> Round(p, a, b)]]
             at == Rounds(a, b)
  <1>1. a[1] \in Int /\ a[2] \in Int /\ b[1] \in Int /\ b[2] \in Int /\ dx \in Nat /\ dy \in Nat
    BY DEF AbsOf
  <1>2. n \in Nat
    <2> HIDE DEF dx, dy
    <2> QED BY <1>1
  <1>3. ASSUME NEW p \in Pixels PROVE Round(p, a, b) \in Pixels
    <2>1. p.x \in Int /\ p.y \in Int /\ p.err \in Int /\ -dy \in Int
      BY <1>1 DEF Pixels
    <2>2. \A ey, sx, sy \in Int : Step(p, dx, ey, sx, sy) \in Pixels
      <3> HIDE DEF dx
      <3> QED BY <1>1, <2>1 DEF Step, Pixels
    <2>3. (IF a[1] < b[1] THEN 1 ELSE -1) \in Int /\ (IF a[2] < b[2] THEN 1 ELSE -1) \in Int
      OBVIOUS
    <2> QED BY <2>1, <2>2, <2>3 DEF Round
  <1>4. start \in Pixels
    <2> HIDE DEF dx, dy
    <2> QED BY <1>1 DEF Pixels
  <1>5. at = CHOOSE f : IsRounds(f)
    <2>1. -dy \in Int /\ dx - (-dy) = dx + dy /\ dx + (-dy) = dx - dy
      <3> HIDE DEF dx, dy
      <3> QED BY <1>1
    <2> QED BY <2>1 DEF Rounds
  <1>6. \E f : IsRounds(f)
    <2>1. /\ turn \in [1 .. n -> [Pixels -> Pixels]]
          /\ \A k \in 1 .. n : \A p \in Pixels : turn[k][p] = Round(p, a, b)
      BY <1>3
    <2> HIDE DEF turn, n, start
    <2>2. PICK f : Iterates(f, Pixels, start, n, turn)
      BY <1>2, <1>4, <2>1, Iterated
    <2>3. f \in [0 .. n -> Pixels] /\ f[0] = start /\ \A k \in 1 .. n : f[k] = turn[k][f[k - 1]]
      BY <2>2 DEF Iterates
    <2>4. ASSUME NEW k \in 0 .. n, k # 0 PROVE f[k] = Round(f[k - 1], a, b)
      <3>1. k \in 1 .. n /\ k - 1 \in 0 .. n
        BY <1>2, <2>4
      <3> QED BY <2>1, <2>3, <3>1
    <2>5. IsRounds(f)
      BY <2>3, <2>4
    <2> QED BY <2>5
  <1> HIDE DEF at
  <1>7. IsRounds(at)
    BY <1>5, <1>6
  <1>8. /\ DOMAIN at = 0 .. n /\ at[0] = start
        /\ \A k \in 1 .. n : at[k] = Round(at[k - 1], a, b)
    <2> HIDE DEF start, n
    <2>1. 0 \in 0 .. n /\ \A k \in 1 .. n : k \in 0 .. n /\ k # 0
      BY <1>2
    <2> QED BY <1>7, <2>1
  <1> DEFINE S == {k \in Nat : k <= n => OnLine(at[k], a, b, k)}
  <1>9. 0 \in S
    <2>1. start.x = a[1] /\ start.y = a[2] /\ start.err = dx - dy
      OBVIOUS
    <2> HIDE DEF dx, dy, start
    <2>2. Stands(start, a, b, dx, dy, 0, 0, 0)
      <3>1. 0 * dx = 0 /\ 0 * dy = 0
        BY <1>1
      <3> QED BY <1>1, <2>1, <3>1 DEF Stands, OnCourse, Least
    <2>3. OnLine(at[0], a, b, 0)
      BY <1>4, <1>8, <2>2 DEF OnLine, dx, dy
    <2> QED BY <2>3
  <1>10. ASSUME NEW k \in Nat, k \in S PROVE k + 1 \in S
    <2> SUFFICES ASSUME k + 1 <= n PROVE OnLine(at[k + 1], a, b, k + 1)
      OBVIOUS
    <2> HIDE DEF n
    <2>1. k + 1 \in 1 .. n /\ k + 1 - 1 = k /\ k <= n
      BY <1>2
    <2>2. OnLine(at[k], a, b, k)
      BY <1>10, <2>1 DEF n
    <2>3. at[k + 1] = Round(at[k], a, b)
      BY <1>8, <2>1
    <2> QED BY <2>2, <2>3, RoundKeeps
  <1> HIDE DEF S
  <1>11. \A k \in Nat : k \in S
    BY <1>9, <1>10, SetInduction
  <1>12. \A k \in 0 .. n : OnLine(at[k], a, b, k)
    <2> HIDE DEF dx, dy
    <2> QED BY <1>1, <1>11 DEF S
  <1> QED BY <1>8, <1>12 DEF at

\* At the end of the longer side the run is at the end of the shorter one.
LEMMA CourseEnds ==
  ASSUME NEW long \in Nat, NEW short \in Nat, short <= long, NEW v, OnCourse(long, short, long, v)
  PROVE  v = short
  <1> DEFINE e == 2 * (v * long - long * short + long - short)
             across == IF e <= long THEN 1 ELSE 0
  <1>1. across \in {0, 1} /\ (across = 1 <=> e <= long)
    OBVIOUS
  <1> SUFFICES ASSUME v # short PROVE FALSE
    OBVIOUS
  <1>2. long + 1 <= long
    <2> HIDE DEF across
    <2> QED BY <1>1, CourseKept
  <1> QED BY <1>2

LEMMA StandsNear ==
  ASSUME NEW a \in Int \X Int, NEW b \in Int \X Int, NEW p \in Pixels, NEW k, NEW u \in Nat, NEW v \in Nat,
         Stands(p, a, b, AbsOf(b[1] - a[1]), AbsOf(b[2] - a[2]), k, u, v)
  PROVE  /\ <<p.x, p.y>> \in NearLine(a, b)
         /\ u <= AbsOf(b[1] - a[1]) /\ v <= AbsOf(b[2] - a[2])
  <1> DEFINE dx == AbsOf(b[1] - a[1])
             dy == AbsOf(b[2] - a[2])
  <1>1. /\ dx \in Nat /\ dy \in Nat
        /\ a[1] \in Int /\ a[2] \in Int /\ b[1] \in Int /\ b[2] \in Int
        /\ b[1] = IF a[1] < b[1] THEN a[1] + dx ELSE a[1] - dx
        /\ b[2] = IF a[2] < b[2] THEN a[2] + dy ELSE a[2] - dy
    BY DEF AbsOf
  <1> HIDE DEF dx, dy
  <1>2. Stands(p, a, b, dx, dy, k, u, v)
    BY DEF dx, dy
  <1>3. u * dy \in Int /\ v * dx \in Int
    BY <1>1
  <1>4. /\ u <= dx /\ v <= dy
        /\ -Most(dx, dy) <= 2 * (u * dy - v * dx) /\ 2 * (u * dy - v * dx) <= Most(dx, dy)
    <2>1. CASE dy <= dx
      BY <1>1, <1>2, <2>1 DEF Stands, OnCourse, Most
    <2>2. CASE dx < dy
      <3>1. u <= dx /\ v <= dy /\ -dy <= 2 * (v * dx - u * dy) /\ 2 * (v * dx - u * dy) <= dy
        BY <1>1, <1>2, <2>2 DEF Stands, OnCourse
      <3> QED BY <1>1, <1>3, <2>2, <3>1 DEF Most
    <2> QED BY <1>1, <2>1, <2>2
  <1>5. /\ p.x \in Least(a[1], b[1]) .. Most(a[1], b[1])
        /\ p.y \in Least(a[2], b[2]) .. Most(a[2], b[2])
    BY <1>1, <1>2, <1>4 DEF Stands, Least, Most
  <1> DEFINE w == u * dy - v * dx
             cross == (p.x - a[1]) * (b[2] - a[2]) - (p.y - a[2]) * (b[1] - a[1])
  <1>6. cross \in {w, -w}
    <2>1. p.x - a[1] = IF a[1] < b[1] THEN u ELSE -u
      BY <1>1, <1>2 DEF Stands
    <2>2. p.y - a[2] = IF a[2] < b[2] THEN v ELSE -v
      BY <1>1, <1>2 DEF Stands
    <2>3. b[1] - a[1] = IF a[1] < b[1] THEN dx ELSE -dx
      BY <1>1
    <2>4. b[2] - a[2] = IF a[2] < b[2] THEN dy ELSE -dy
      BY <1>1
    <2>5. CASE a[1] < b[1] /\ a[2] < b[2]
      BY <2>1, <2>2, <2>3, <2>4, <2>5
    <2>6. CASE a[1] < b[1] /\ ~(a[2] < b[2])
      <3>1. cross = u * (-dy) - (-v) * dx
        BY <2>1, <2>2, <2>3, <2>4, <2>6
      <3> QED BY <1>1, <3>1
    <2>7. CASE ~(a[1] < b[1]) /\ a[2] < b[2]
      <3>1. cross = (-u) * dy - v * (-dx)
        BY <2>1, <2>2, <2>3, <2>4, <2>7
      <3> QED BY <1>1, <3>1
    <2>8. CASE ~(a[1] < b[1]) /\ ~(a[2] < b[2])
      <3>1. cross = (-u) * (-dy) - (-v) * (-dx)
        BY <2>1, <2>2, <2>3, <2>4, <2>8
      <3> QED BY <1>1, <3>1
    <2> QED BY <2>5, <2>6, <2>7, <2>8
  <1>7. 2 * AbsOf(cross) <= Most(dx, dy)
    <2>1. w \in Int /\ -Most(dx, dy) <= 2 * w /\ 2 * w <= Most(dx, dy)
      BY <1>3, <1>4
    <2> HIDE DEF w, cross
    <2>2. Most(dx, dy) \in Int
      BY <1>1 DEF Most
    <2> QED BY <1>6, <2>1, <2>2 DEF AbsOf
  <1>8. Off(a, b, <<p.x, p.y>>) = AbsOf(cross)
    BY DEF Off
  <1> HIDE DEF cross
  <1>9. <<p.x, p.y>> \in NearLine(a, b)
    BY <1>5, <1>7, <1>8 DEF NearLine, dx, dy
  <1> QED BY <1>4, <1>9 DEF dx, dy

\* The points of the line are near it, and one of them is in each column of the
\* longer side.
LEMMA OnePerColumn ==
  ASSUME NEW a \in Int \X Int, NEW b \in Int \X Int, NEW long,
         long = IF AbsOf(b[1] - a[1]) >= AbsOf(b[2] - a[2]) THEN 1 ELSE 2,
         NEW c \in Least(a[long], b[long]) .. Most(a[long], b[long])
  PROVE  \E p \in LinePoints(a, b) : p[long] = c /\ \A q \in LinePoints(a, b) : q[long] = c => q = p
  <1> DEFINE dx == AbsOf(b[1] - a[1])
             dy == AbsOf(b[2] - a[2])
             at == Rounds(a, b)
  <1>1. /\ dx \in Nat /\ dy \in Nat
        /\ a[1] \in Int /\ a[2] \in Int /\ b[1] \in Int /\ b[2] \in Int
        /\ b[1] = IF a[1] < b[1] THEN a[1] + dx ELSE a[1] - dx
        /\ b[2] = IF a[2] < b[2] THEN a[2] + dy ELSE a[2] - dy
    BY DEF AbsOf
  <1>2. /\ DOMAIN at = 0 .. dx + dy
        /\ LinePoints(a, b) = {<<at[k].x, at[k].y>> : k \in DOMAIN at}
    BY RoundsUnfold DEF LinePoints
  <1>3. ASSUME NEW k \in DOMAIN at
        PROVE  \E u, v \in Nat : Stands(at[k], a, b, dx, dy, k, u, v)
    BY RoundsUnfold DEF OnLine
  <1>4. \A k \in DOMAIN at : k \in Nat
    BY <1>2
  <1> HIDE DEF dx, dy, at
  <1>5. CASE dy <= dx
    <2>1. long = 1
      BY <1>1, <1>5 DEF dx, dy
    <2> DEFINE m == IF a[1] < b[1] THEN c - a[1] ELSE a[1] - c
    <2>2. m \in 0 .. dx /\ c = IF a[1] < b[1] THEN a[1] + m ELSE a[1] - m
      BY <1>1, <2>1 DEF Least, Most
    <2> HIDE DEF m
    <2>3. m \in DOMAIN at
      BY <1>1, <1>2, <2>2
    <2>4. PICK u \in Nat, v \in Nat : Stands(at[m], a, b, dx, dy, m, u, v)
      BY <1>3, <2>3
    <2>5. u = m /\ at[m].x = c /\ OnCourse(dx, dy, u, v)
          /\ at[m].y = IF a[2] < b[2] THEN a[2] + v ELSE a[2] - v
      BY <1>1, <1>5, <2>2, <2>4 DEF Stands, Least
    <2>6. ASSUME NEW k \in DOMAIN at, at[k].x = c PROVE at[k].y = at[m].y
      <3>1. PICK u1 \in Nat, v1 \in Nat : Stands(at[k], a, b, dx, dy, k, u1, v1)
        BY <1>3
      <3>2. /\ u1 = Least(k, dx) /\ OnCourse(dx, dy, u1, v1)
            /\ at[k].x = IF a[1] < b[1] THEN a[1] + u1 ELSE a[1] - u1
            /\ at[k].y = IF a[2] < b[2] THEN a[2] + v1 ELSE a[2] - v1
        BY <1>1, <1>5, <3>1 DEF Stands
      <3>3. u1 = m
        BY <1>1, <2>2, <2>6, <3>2
      <3>4. k = m \/ m = dx
        BY <1>1, <1>4, <2>2, <3>2, <3>3 DEF Least
      <3>5. m = dx => v1 = dy /\ v = dy
        BY <1>1, <1>5, <2>5, <3>2, <3>3, CourseEnds
      <3> QED BY <2>5, <3>2, <3>4, <3>5
    <2> DEFINE p == <<at[m].x, at[m].y>>
    <2>7. p \in LinePoints(a, b) /\ p[long] = c
      BY <1>2, <2>1, <2>3, <2>5
    <2>8. ASSUME NEW q \in LinePoints(a, b), q[long] = c PROVE q = p
      <3>1. PICK k \in DOMAIN at : q = <<at[k].x, at[k].y>>
        BY <1>2
      <3>2. at[k].x = c
        BY <2>1, <2>8, <3>1
      <3> QED BY <2>5, <2>6, <3>1, <3>2
    <2> QED BY <2>7, <2>8
  <1>6. CASE dx < dy
    <2>1. long = 2
      BY <1>1, <1>6 DEF dx, dy
    <2> DEFINE m == IF a[2] < b[2] THEN c - a[2] ELSE a[2] - c
    <2>2. m \in 0 .. dy /\ c = IF a[2] < b[2] THEN a[2] + m ELSE a[2] - m
      BY <1>1, <2>1 DEF Least, Most
    <2> HIDE DEF m
    <2>3. m \in DOMAIN at
      BY <1>1, <1>2, <2>2
    <2>4. PICK u \in Nat, v \in Nat : Stands(at[m], a, b, dx, dy, m, u, v)
      BY <1>3, <2>3
    <2>5. v = m /\ at[m].y = c /\ OnCourse(dy, dx, v, u)
          /\ at[m].x = IF a[1] < b[1] THEN a[1] + u ELSE a[1] - u
      BY <1>1, <1>6, <2>2, <2>4 DEF Stands, Least
    <2>6. ASSUME NEW k \in DOMAIN at, at[k].y = c PROVE at[k].x = at[m].x
      <3>1. PICK u1 \in Nat, v1 \in Nat : Stands(at[k], a, b, dx, dy, k, u1, v1)
        BY <1>3
      <3>2. /\ v1 = Least(k, dy) /\ OnCourse(dy, dx, v1, u1)
            /\ at[k].x = IF a[1] < b[1] THEN a[1] + u1 ELSE a[1] - u1
            /\ at[k].y = IF a[2] < b[2] THEN a[2] + v1 ELSE a[2] - v1
        BY <1>1, <1>6, <3>1 DEF Stands
      <3>3. v1 = m
        BY <1>1, <2>2, <2>6, <3>2
      <3>4. k = m \/ m = dy
        BY <1>1, <1>4, <2>2, <3>2, <3>3 DEF Least
      <3>5. m = dy => u1 = dx /\ u = dx
        BY <1>1, <1>6, <2>5, <3>2, <3>3, CourseEnds
      <3> QED BY <2>5, <3>2, <3>4, <3>5
    <2> DEFINE p == <<at[m].x, at[m].y>>
    <2>7. p \in LinePoints(a, b) /\ p[long] = c
      BY <1>2, <2>1, <2>3, <2>5
    <2>8. ASSUME NEW q \in LinePoints(a, b), q[long] = c PROVE q = p
      <3>1. PICK k \in DOMAIN at : q = <<at[k].x, at[k].y>>
        BY <1>2
      <3>2. at[k].y = c
        BY <2>1, <2>8, <3>1
      <3> QED BY <2>5, <2>6, <3>1, <3>2
    <2> QED BY <2>7, <2>8
  <1> QED BY <1>1, <1>5, <1>6

\* The drawing surface alone draws.
LEMMA DrawFrame ==
  ASSUME [Next]_vars
  PROVE  Annotate \/ UNCHANGED drawVars
  BY DEF Next, vars, OthersStill, SceneStep, OutlinerStep, ComponentStep, LevelStep, BatchStep,
         PlayStep, TreeStep, AgentStep, InsightsStep, StatStep, TestStep, ViewStep, DrawStep, DrawNext,
         SourceControlStep, DiffStep, CodingStep, CfgStep, CollisionStep, TagStep, PlayWorld, UserSaves

LineInv ==
  shape.kind = "line" =>
    /\ shape.from \in Int \X Int /\ shape.to \in Int \X Int
    /\ canvas = LinePoints(shape.from, shape.to) \cap Image

LEMMA LineInvMeansLine == ASSUME LineInv PROVE LineDrawn
  <1> SUFFICES ASSUME shape.kind = "line" PROVE LineDrawn
    BY DEF LineDrawn
  <1> DEFINE a == shape.from
             b == shape.to
             long == IF AbsOf(b[1] - a[1]) >= AbsOf(b[2] - a[2]) THEN 1 ELSE 2
             Column(c) == {p \in NearLine(a, b) : p[long] = c}
  <1>1. a \in Int \X Int /\ b \in Int \X Int /\ canvas = LinePoints(a, b) \cap Image
    BY DEF LineInv
  <1> HIDE DEF a, b
  <1>2. LinePoints(a, b) \subseteq NearLine(a, b)
    <2> DEFINE at == Rounds(a, b)
    <2>1. \A k \in DOMAIN at : <<at[k].x, at[k].y>> \in NearLine(a, b)
      BY <1>1, RoundsUnfold, StandsNear DEF OnLine
    <2>2. LinePoints(a, b) = {<<at[k].x, at[k].y>> : k \in DOMAIN at}
      BY DEF LinePoints
    <2> QED BY <2>1, <2>2
  <1>3. ASSUME NEW c \in Least(a[long], b[long]) .. Most(a[long], b[long]), Column(c) \subseteq Image
        PROVE  Cardinality(Column(c) \cap canvas) = 1
    <2>1. PICK p \in LinePoints(a, b) : p[long] = c /\ \A q \in LinePoints(a, b) : q[long] = c => q = p
      BY <1>1, OnePerColumn
    <2> HIDE DEF long
    <2>2. p \in Column(c)
      BY <1>2, <2>1
    <2>3. Column(c) \cap canvas = {p}
      BY <1>1, <1>3, <2>1, <2>2
    <2> QED BY <2>3, FS_Singleton
  <1>4. canvas \subseteq NearLine(a, b) \cap Image
    BY <1>1, <1>2
  <1> QED BY <1>3, <1>4 DEF LineDrawn, a, b

\* The line of screenshot.annotate has, between any two pixels and for an image of
\* any size, one pixel in each column of its longer side and none that is not the
\* nearest: the error that DrawLine carries is the distance from the line, and a
\* round leaves it within half a pixel.
THEOREM LinesAreDrawn == Spec => []LineDrawn
  <1>1. Init => LineInv
    BY DEF Init, DrawInit, NoShape, LineInv
  <1>2. LineInv /\ [Next]_vars => LineInv'
    <2>1. LineInv /\ UNCHANGED drawVars => LineInv'
      BY DEF drawVars, LineInv
    <2>2. ASSUME Annotate PROVE LineInv'
      <3>1. PICK a \in Shown \X Shown, b \in Shown \X Shown :
              \/ canvas' = LinePoints(a, b) \cap Image /\ shape' = [kind |-> "line", from |-> a, to |-> b]
              \/ shape'.kind \in {"box", "disc"}
        BY <2>2 DEF Annotate
      <3>2. a \in Int \X Int /\ b \in Int \X Int
        BY ShownAreNumbers
      <3>3. CASE canvas' = LinePoints(a, b) \cap Image /\ shape' = [kind |-> "line", from |-> a, to |-> b]
        <4>1. shape'.from = a /\ shape'.to = b
          BY <3>3
        <4>2. Image' = Image
          BY DEF Image
        <4> QED BY <3>2, <3>3, <4>1, <4>2 DEF LineInv
      <3>4. CASE shape'.kind \in {"box", "disc"}
        BY <3>4 DEF LineInv
      <3> QED BY <3>1, <3>3, <3>4
    <2> QED BY <2>1, <2>2, DrawFrame
  <1>3. LineInv => LineDrawn
    BY LineInvMeansLine
  <1> QED BY <1>1, <1>2, <1>3, PTL DEF Spec
------------------------------------------------------------------------------
(* The difference of two texts.                                             *)

\* The cells of the table, and what a table t says of one of them.
Cells(a, b) == (0 .. Len(a)) \X (0 .. Len(b))

CommonAt(t, a, b, i, j) ==
  IF i = 0 \/ j = 0 THEN 0
  ELSE IF a[i] = b[j] THEN t[<<i - 1, j - 1>>] + 1
  ELSE IF t[<<i - 1, j>>] > t[<<i, j - 1>>] THEN t[<<i - 1, j>>]
  ELSE t[<<i, j - 1>>]

\* The cells that a cell is computed from.
LEMMA CellsBefore ==
  ASSUME NEW L, NEW a \in Seq(L), NEW b \in Seq(L), NEW i \in 0 .. Len(a), NEW j \in 0 .. Len(b)
  PROVE  /\ <<i, j>> \in Cells(a, b)
         /\ i # 0 => <<i - 1, j>> \in Cells(a, b)
         /\ j # 0 => <<i, j - 1>> \in Cells(a, b)
         /\ i # 0 /\ j # 0 => <<i - 1, j - 1>> \in Cells(a, b)
  BY DEF Cells

\* The table of the lengths exists, holds numbers and obeys its recursion.
LEMMA CommonUnfolds ==
  ASSUME NEW L, NEW a \in Seq(L), NEW b \in Seq(L)
  PROVE  /\ Common(a, b) \in [Cells(a, b) -> Nat]
         /\ \A i \in 0 .. Len(a), j \in 0 .. Len(b) :
              Common(a, b)[<<i, j>>] = CommonAt(Common(a, b), a, b, i, j)
  <1> DEFINE P == Cells(a, b)
             IsTable(t) == t = [p \in P |-> CommonAt(t, a, b, p[1], p[2])]
             rank == [p \in P |-> p[1] + p[2]]
             N == Len(a) + Len(b)
             step == [p \in P |-> [t \in [P -> Nat] |-> CommonAt(t, a, b, p[1], p[2])]]
  <1>1. Common(a, b) = CHOOSE t : IsTable(t)
    BY DEF Common, CommonAt, Cells
  <1>2. N \in Nat /\ rank \in [P -> 0 .. N] /\ 0 \in Nat
    BY DEF Cells
  <1>3. \A p \in P : p[1] \in 0 .. Len(a) /\ p[2] \in 0 .. Len(b) /\ p = <<p[1], p[2]>> /\ rank[p] = p[1] + p[2]
    BY DEF Cells
  <1>4. ASSUME NEW t \in [P -> Nat], NEW i \in 0 .. Len(a), NEW j \in 0 .. Len(b)
        PROVE  CommonAt(t, a, b, i, j) \in Nat
    <2>1. /\ i # 0 => t[<<i - 1, j>>] \in Nat
          /\ j # 0 => t[<<i, j - 1>>] \in Nat
          /\ i # 0 /\ j # 0 => t[<<i - 1, j - 1>>] \in Nat
      BY CellsBefore
    <2> HIDE DEF P
    <2> QED BY <2>1 DEF CommonAt
  <1>5. ASSUME NEW i \in 0 .. Len(a), NEW j \in 0 .. Len(b)
        PROVE  /\ i # 0 => <<i - 1, j>> \in P /\ rank[<<i - 1, j>>] = i + j - 1
               /\ j # 0 => <<i, j - 1>> \in P /\ rank[<<i, j - 1>>] = i + j - 1
               /\ i # 0 /\ j # 0 => <<i - 1, j - 1>> \in P /\ rank[<<i - 1, j - 1>>] = i + j - 2
    <2>1. /\ i # 0 => <<i - 1, j>> \in P
          /\ j # 0 => <<i, j - 1>> \in P
          /\ i # 0 /\ j # 0 => <<i - 1, j - 1>> \in P
      BY CellsBefore
    <2>2. \A k, l \in Int : <<k, l>> \in P => rank[<<k, l>>] = k + l
      OBVIOUS
    <2> HIDE DEF P, rank
    <2>3. i - 1 \in Int /\ j - 1 \in Int /\ i \in Int /\ j \in Int
      OBVIOUS
    <2>4. /\ i # 0 => rank[<<i - 1, j>>] = (i - 1) + j
          /\ j # 0 => rank[<<i, j - 1>>] = i + (j - 1)
          /\ i # 0 /\ j # 0 => rank[<<i - 1, j - 1>>] = (i - 1) + (j - 1)
      BY <2>1, <2>2, <2>3
    <2> QED BY <2>1, <2>3, <2>4
  <1>6. /\ step \in [P -> [[P -> Nat] -> Nat]]
        /\ \A p \in P : \A t \in [P -> Nat] : step[p][t] = CommonAt(t, a, b, p[1], p[2])
    BY <1>3, <1>4
  <1> HIDE DEF P, rank, N, step
  <1>7. ASSUME NEW p \in P, NEW f \in [P -> Nat], NEW g \in [P -> Nat],
               \A q \in P : rank[q] < rank[p] => f[q] = g[q]
        PROVE  step[p][f] = step[p][g]
    <2>1. CommonAt(f, a, b, p[1], p[2]) = CommonAt(g, a, b, p[1], p[2])
      <3> DEFINE i == p[1]
                 j == p[2]
      <3>1. i \in 0 .. Len(a) /\ j \in 0 .. Len(b) /\ rank[p] = i + j
        BY <1>3
      <3> HIDE DEF i, j
      <3>2. /\ i # 0 => <<i - 1, j>> \in P /\ rank[<<i - 1, j>>] < rank[p]
            /\ j # 0 => <<i, j - 1>> \in P /\ rank[<<i, j - 1>>] < rank[p]
            /\ i # 0 /\ j # 0 => <<i - 1, j - 1>> \in P /\ rank[<<i - 1, j - 1>>] < rank[p]
        BY <1>5, <3>1
      <3>3. /\ i # 0 => f[<<i - 1, j>>] = g[<<i - 1, j>>]
            /\ j # 0 => f[<<i, j - 1>>] = g[<<i, j - 1>>]
            /\ i # 0 /\ j # 0 => f[<<i - 1, j - 1>>] = g[<<i - 1, j - 1>>]
        BY <1>7, <3>2
      <3>4. CommonAt(f, a, b, i, j) = CommonAt(g, a, b, i, j)
        BY <3>3 DEF CommonAt
      <3> QED BY <3>4 DEF i, j
    <2> QED BY <1>6, <2>1
  <1>8. LooksBelow(step, P, Nat, rank)
    BY <1>6, <1>7 DEF LooksBelow
  <1>9. PICK f : Solves(f, P, Nat, step)
    BY <1>2, <1>8, Ranked
  <1>10. IsTable(f)
    BY <1>6, <1>9 DEF Solves
  <1> DEFINE t == Common(a, b)
  <1>11. IsTable(t)
    BY <1>1, <1>10
  <1> HIDE DEF t
  <1> DEFINE S == {d \in Nat : \A p \in P : rank[p] < d => t[p] \in Nat}
  <1>12. \A p \in P : t[p] = CommonAt(t, a, b, p[1], p[2])
    BY <1>11
  <1>13. 0 \in S
    BY <1>2
  <1>14. ASSUME NEW d \in Nat, d \in S PROVE d + 1 \in S
    <2> SUFFICES ASSUME NEW p \in P, rank[p] < d + 1 PROVE t[p] \in Nat
      OBVIOUS
    <2> DEFINE r == [q \in P |-> IF rank[q] < d THEN t[q] ELSE 0]
    <2>1. r \in [P -> Nat]
      BY <1>14
    <2>2. CommonAt(r, a, b, p[1], p[2]) \in Nat
      BY <1>3, <1>4, <2>1
    <2>3. CommonAt(t, a, b, p[1], p[2]) = CommonAt(r, a, b, p[1], p[2])
      <3> DEFINE i == p[1]
                 j == p[2]
      <3>1. i \in 0 .. Len(a) /\ j \in 0 .. Len(b) /\ i + j < d + 1
        BY <1>3
      <3> HIDE DEF i, j
      <3>2. /\ i # 0 => <<i - 1, j>> \in P /\ rank[<<i - 1, j>>] < d
            /\ j # 0 => <<i, j - 1>> \in P /\ rank[<<i, j - 1>>] < d
            /\ i # 0 /\ j # 0 => <<i - 1, j - 1>> \in P /\ rank[<<i - 1, j - 1>>] < d
        <4>1. i + j - 1 < d /\ i + j - 2 < d
          <5> HIDE DEF S
          <5> QED BY <3>1
        <4> QED BY <1>5, <3>1, <4>1
      <3>3. /\ i # 0 => t[<<i - 1, j>>] = r[<<i - 1, j>>]
            /\ j # 0 => t[<<i, j - 1>>] = r[<<i, j - 1>>]
            /\ i # 0 /\ j # 0 => t[<<i - 1, j - 1>>] = r[<<i - 1, j - 1>>]
        BY <3>2
      <3> HIDE DEF r
      <3>4. CommonAt(t, a, b, i, j) = CommonAt(r, a, b, i, j)
        BY <3>3 DEF CommonAt
      <3> QED BY <3>4 DEF i, j
    <2> QED BY <1>12, <2>2, <2>3
  <1> HIDE DEF S
  <1>15. N + 1 \in S
    BY <1>2, <1>13, <1>14, SetInduction
  <1>16. \A p \in P : t[p] \in Nat
    BY <1>2, <1>15 DEF S
  <1>17. t \in [P -> Nat]
    BY <1>11, <1>16
  <1>18. ASSUME NEW i \in 0 .. Len(a), NEW j \in 0 .. Len(b) PROVE t[<<i, j>>] = CommonAt(t, a, b, i, j)
    <2>1. <<i, j>> \in P
      BY CellsBefore DEF P
    <2> QED BY <1>12, <2>1
  <1> QED BY <1>17, <1>18 DEF t, P

\* The operations of a script over the lines L, and what a table of scripts says
\* of a cell.
Marks(L) == {"kept", "gone", "added"} \X L

ScriptAt(t, a, b, i, j) ==
  IF j = 0 THEN RestOf("gone", a, i)
  ELSE IF i = 0 THEN RestOf("added", b, j)
  ELSE IF a[i] = b[j] THEN Append(t[<<i - 1, j - 1>>], <<"kept", a[i]>>)
  ELSE IF Common(a, b)[<<i - 1, j>>] >= Common(a, b)[<<i, j - 1>>] THEN Append(t[<<i - 1, j>>], <<"gone", a[i]>>)
  ELSE Append(t[<<i, j - 1>>], <<"added", b[j]>>)

\* What is left of one text is a script.
LEMMA RestIsScript ==
  ASSUME NEW L, NEW text \in Seq(L), NEW n \in 0 .. Len(text), NEW op \in {"kept", "gone", "added"}
  PROVE  RestOf(op, text, n) \in Seq(Marks(L)) /\ Len(RestOf(op, text, n)) = n
  <1>1. \A k \in 1 .. n : <<op, text[k]>> \in Marks(L)
    BY DEF Marks
  <1>2. RestOf(op, text, n) \in [1 .. n -> Marks(L)]
    BY <1>1 DEF RestOf
  <1>3. n \in Nat
    OBVIOUS
  <1> HIDE DEF Marks, RestOf
  <1> QED BY <1>2, <1>3

\* The table of the scripts exists and obeys its recursion.
LEMMA ScriptsUnfold ==
  ASSUME NEW L, NEW a \in Seq(L), NEW b \in Seq(L)
  PROVE  /\ Scripts(a, b) \in [Cells(a, b) -> Seq(Marks(L))]
         /\ \A i \in 0 .. Len(a), j \in 0 .. Len(b) :
              Scripts(a, b)[<<i, j>>] = ScriptAt(Scripts(a, b), a, b, i, j)
  <1> DEFINE P == Cells(a, b)
             X == Seq(Marks(L))
             IsTable(t) == t = [p \in P |-> ScriptAt(t, a, b, p[1], p[2])]
             rank == [p \in P |-> p[1] + p[2]]
             N == Len(a) + Len(b)
             step == [p \in P |-> [t \in [P -> X] |-> ScriptAt(t, a, b, p[1], p[2])]]
  <1>1. Scripts(a, b) = CHOOSE t : IsTable(t)
    BY DEF Scripts, ScriptAt, Cells
  <1>2. N \in Nat /\ rank \in [P -> 0 .. N] /\ << >> \in X
    BY DEF Cells
  <1>3. \A p \in P : p[1] \in 0 .. Len(a) /\ p[2] \in 0 .. Len(b) /\ p = <<p[1], p[2]>> /\ rank[p] = p[1] + p[2]
    BY DEF Cells
  <1>4. ASSUME NEW t \in [P -> X], NEW i \in 0 .. Len(a), NEW j \in 0 .. Len(b)
        PROVE  ScriptAt(t, a, b, i, j) \in X
    <2>1. /\ i # 0 => t[<<i - 1, j>>] \in X
          /\ j # 0 => t[<<i, j - 1>>] \in X
          /\ i # 0 /\ j # 0 => t[<<i - 1, j - 1>>] \in X
      BY CellsBefore
    <2>2. /\ j = 0 => RestOf("gone", a, i) \in X
          /\ i = 0 => RestOf("added", b, j) \in X
      BY RestIsScript
    <2>3. /\ i # 0 => <<"kept", a[i]>> \in Marks(L) /\ <<"gone", a[i]>> \in Marks(L)
          /\ j # 0 => <<"added", b[j]>> \in Marks(L)
      <3>1. i # 0 => a[i] \in L
        OBVIOUS
      <3>2. j # 0 => b[j] \in L
        OBVIOUS
      <3> QED BY <3>1, <3>2 DEF Marks
    <2>4. \A z \in X : \A e \in Marks(L) : Append(z, e) \in X
      OBVIOUS
    <2> HIDE DEF P, X
    <2>5. CASE i = 0 \/ j = 0
      BY <2>2, <2>5 DEF ScriptAt
    <2>6. CASE i # 0 /\ j # 0
      <3>1. /\ Append(t[<<i - 1, j - 1>>], <<"kept", a[i]>>) \in X
            /\ Append(t[<<i - 1, j>>], <<"gone", a[i]>>) \in X
            /\ Append(t[<<i, j - 1>>], <<"added", b[j]>>) \in X
        BY <2>1, <2>3, <2>4, <2>6
      <3> QED BY <2>6, <3>1 DEF ScriptAt
    <2> QED BY <2>5, <2>6
  <1>5. ASSUME NEW i \in 0 .. Len(a), NEW j \in 0 .. Len(b)
        PROVE  /\ i # 0 => <<i - 1, j>> \in P /\ rank[<<i - 1, j>>] = i + j - 1
               /\ j # 0 => <<i, j - 1>> \in P /\ rank[<<i, j - 1>>] = i + j - 1
               /\ i # 0 /\ j # 0 => <<i - 1, j - 1>> \in P /\ rank[<<i - 1, j - 1>>] = i + j - 2
    <2>1. /\ i # 0 => <<i - 1, j>> \in P
          /\ j # 0 => <<i, j - 1>> \in P
          /\ i # 0 /\ j # 0 => <<i - 1, j - 1>> \in P
      BY CellsBefore
    <2>2. \A k, l \in Int : <<k, l>> \in P => rank[<<k, l>>] = k + l
      OBVIOUS
    <2> HIDE DEF P, rank
    <2>3. i - 1 \in Int /\ j - 1 \in Int /\ i \in Int /\ j \in Int
      OBVIOUS
    <2>4. /\ i # 0 => rank[<<i - 1, j>>] = (i - 1) + j
          /\ j # 0 => rank[<<i, j - 1>>] = i + (j - 1)
          /\ i # 0 /\ j # 0 => rank[<<i - 1, j - 1>>] = (i - 1) + (j - 1)
      BY <2>1, <2>2, <2>3
    <2> QED BY <2>1, <2>3, <2>4
  <1>6. /\ step \in [P -> [[P -> X] -> X]]
        /\ \A p \in P : \A t \in [P -> X] : step[p][t] = ScriptAt(t, a, b, p[1], p[2])
    BY <1>3, <1>4
  <1> HIDE DEF P, rank, N, step, X
  <1>7. ASSUME NEW p \in P, NEW f \in [P -> X], NEW g \in [P -> X],
               \A q \in P : rank[q] < rank[p] => f[q] = g[q]
        PROVE  step[p][f] = step[p][g]
    <2>1. ScriptAt(f, a, b, p[1], p[2]) = ScriptAt(g, a, b, p[1], p[2])
      <3> DEFINE i == p[1]
                 j == p[2]
      <3>1. i \in 0 .. Len(a) /\ j \in 0 .. Len(b) /\ rank[p] = i + j
        BY <1>3
      <3> HIDE DEF i, j
      <3>2. /\ i # 0 => <<i - 1, j>> \in P /\ rank[<<i - 1, j>>] < rank[p]
            /\ j # 0 => <<i, j - 1>> \in P /\ rank[<<i, j - 1>>] < rank[p]
            /\ i # 0 /\ j # 0 => <<i - 1, j - 1>> \in P /\ rank[<<i - 1, j - 1>>] < rank[p]
        BY <1>5, <3>1
      <3>3. /\ i # 0 => f[<<i - 1, j>>] = g[<<i - 1, j>>]
            /\ j # 0 => f[<<i, j - 1>>] = g[<<i, j - 1>>]
            /\ i # 0 /\ j # 0 => f[<<i - 1, j - 1>>] = g[<<i - 1, j - 1>>]
        BY <1>7, <3>2
      <3>4. ScriptAt(f, a, b, i, j) = ScriptAt(g, a, b, i, j)
        BY <3>3 DEF ScriptAt
      <3> QED BY <3>4 DEF i, j
    <2> QED BY <1>6, <2>1
  <1>8. LooksBelow(step, P, X, rank)
    BY <1>6, <1>7 DEF LooksBelow
  <1>9. PICK f : Solves(f, P, X, step)
    BY <1>2, <1>8, Ranked
  <1>10. IsTable(f)
    BY <1>6, <1>9 DEF Solves
  <1> DEFINE t == Scripts(a, b)
  <1>11. IsTable(t)
    BY <1>1, <1>10
  <1> HIDE DEF t
  <1> DEFINE S == {d \in Nat : \A p \in P : rank[p] < d => t[p] \in X}
  <1>12. \A p \in P : t[p] = ScriptAt(t, a, b, p[1], p[2])
    BY <1>11
  <1>13. 0 \in S
    BY <1>2
  <1>14. ASSUME NEW d \in Nat, d \in S PROVE d + 1 \in S
    <2> SUFFICES ASSUME NEW p \in P, rank[p] < d + 1 PROVE t[p] \in X
      OBVIOUS
    <2> DEFINE r == [q \in P |-> IF rank[q] < d THEN t[q] ELSE << >>]
    <2>1. r \in [P -> X]
      BY <1>2, <1>14
    <2>2. ScriptAt(r, a, b, p[1], p[2]) \in X
      BY <1>3, <1>4, <2>1
    <2>3. ScriptAt(t, a, b, p[1], p[2]) = ScriptAt(r, a, b, p[1], p[2])
      <3> DEFINE i == p[1]
                 j == p[2]
      <3>1. i \in 0 .. Len(a) /\ j \in 0 .. Len(b) /\ i + j < d + 1
        BY <1>3
      <3> HIDE DEF i, j
      <3>2. /\ i # 0 => <<i - 1, j>> \in P /\ rank[<<i - 1, j>>] < d
            /\ j # 0 => <<i, j - 1>> \in P /\ rank[<<i, j - 1>>] < d
            /\ i # 0 /\ j # 0 => <<i - 1, j - 1>> \in P /\ rank[<<i - 1, j - 1>>] < d
        <4>1. i + j - 1 < d /\ i + j - 2 < d
          <5> HIDE DEF S
          <5> QED BY <3>1
        <4> QED BY <1>5, <3>1, <4>1
      <3>3. /\ i # 0 => t[<<i - 1, j>>] = r[<<i - 1, j>>]
            /\ j # 0 => t[<<i, j - 1>>] = r[<<i, j - 1>>]
            /\ i # 0 /\ j # 0 => t[<<i - 1, j - 1>>] = r[<<i - 1, j - 1>>]
        BY <3>2
      <3> HIDE DEF r
      <3>4. ScriptAt(t, a, b, i, j) = ScriptAt(r, a, b, i, j)
        BY <3>3 DEF ScriptAt
      <3> QED BY <3>4 DEF i, j
    <2> QED BY <1>12, <2>2, <2>3
  <1> HIDE DEF S
  <1>15. N + 1 \in S
    BY <1>2, <1>13, <1>14, SetInduction
  <1>16. \A p \in P : t[p] \in X
    BY <1>2, <1>15 DEF S
  <1>17. t \in [P -> X]
    BY <1>11, <1>16
  <1>18. ASSUME NEW i \in 0 .. Len(a), NEW j \in 0 .. Len(b) PROVE t[<<i, j>>] = ScriptAt(t, a, b, i, j)
    <2>1. <<i, j>> \in P
      BY CellsBefore DEF P
    <2> QED BY <1>12, <2>1
  <1> QED BY <1>17, <1>18 DEF t, P, X

\* LinesOf, one operation at a time.
LinesAt(before, script, marks, k) ==
  IF script[k][1] \in marks THEN Append(before, script[k][2]) ELSE before

IsLines(f, L, script, marks) ==
  /\ f \in [0 .. Len(script) -> Seq(L)] /\ f[0] = <<>>
  /\ \A k \in 1 .. Len(script) : f[k] = LinesAt(f[k - 1], script, marks, k)

\* The recursion of LinesOf has a value.
LEMMA LinesUnfold ==
  ASSUME NEW L, NEW script \in Seq(Marks(L)), NEW marks
  PROVE  \E f : IsLines(f, L, script, marks) /\ LinesOf(script, marks) = f[Len(script)]
  <1> DEFINE n == Len(script)
             X == Seq(L)
             IsIt(f) == f = [k \in 0 .. n |-> IF k = 0 THEN <<>> ELSE LinesAt(f[k - 1], script, marks, k)]
             turn == [k \in 1 .. n |-> [l \in X |-> LinesAt(l, script, marks, k)]]
             t == CHOOSE f : IsIt(f)
  <1>1. LinesOf(script, marks) = t[n]
    BY DEF LinesOf, LinesAt
  <1>2. n \in Nat /\ << >> \in X
    OBVIOUS
  <1>3. ASSUME NEW k \in 1 .. n, NEW l \in X PROVE LinesAt(l, script, marks, k) \in X
    <2>1. script[k] \in Marks(L)
      OBVIOUS
    <2>2. script[k][2] \in L
      BY <2>1 DEF Marks
    <2> QED BY <2>2 DEF LinesAt
  <1>4. \E f : IsIt(f)
    <2>1. /\ turn \in [1 .. n -> [X -> X]]
          /\ \A k \in 1 .. n : \A l \in X : turn[k][l] = LinesAt(l, script, marks, k)
      BY <1>3
    <2> HIDE DEF turn, n, X
    <2>2. PICK f : Iterates(f, X, << >>, n, turn)
      BY <1>2, <2>1, Iterated
    <2>3. f \in [0 .. n -> X] /\ f[0] = << >> /\ \A k \in 1 .. n : f[k] = turn[k][f[k - 1]]
      BY <2>2 DEF Iterates
    <2>4. ASSUME NEW k \in 0 .. n, k # 0 PROVE f[k] = LinesAt(f[k - 1], script, marks, k)
      <3>1. k \in 1 .. n /\ k - 1 \in 0 .. n
        BY <1>2, <2>4
      <3> QED BY <2>1, <2>3, <3>1
    <2>5. IsIt(f)
      BY <2>3, <2>4
    <2> QED BY <2>5
  <1>5. IsIt(t)
    BY <1>4
  <1> HIDE DEF t, n, X
  <1>6. t[0] = <<>> /\ \A k \in 1 .. n : t[k] = LinesAt(t[k - 1], script, marks, k)
    <2>1. 0 \in 0 .. n /\ \A k \in 1 .. n : k \in 0 .. n /\ k # 0
      BY <1>2
    <2> QED BY <1>5, <2>1
  <1> DEFINE S == {k \in Nat : k <= n => t[k] \in X}
  <1>7. 0 \in S
    BY <1>2, <1>6
  <1>8. ASSUME NEW k \in Nat, k \in S PROVE k + 1 \in S
    <2> SUFFICES ASSUME k + 1 <= n PROVE t[k + 1] \in X
      OBVIOUS
    <2>1. k + 1 \in 1 .. n /\ k + 1 - 1 = k /\ k <= n
      BY <1>2
    <2>2. t[k + 1] = LinesAt(t[k], script, marks, k + 1)
      BY <1>6, <2>1
    <2>3. t[k] \in X
      BY <1>8, <2>1
    <2> QED BY <1>3, <2>1, <2>2, <2>3
  <1> HIDE DEF S
  <1>9. \A k \in Nat : k \in S
    BY <1>7, <1>8, SetInduction
  <1>10. t \in [0 .. n -> X]
    <2>1. \A k \in 0 .. n : t[k] \in X
      BY <1>2, <1>9 DEF S
    <2> QED BY <1>5, <2>1
  <1>11. IsLines(t, L, script, marks)
    BY <1>6, <1>10 DEF IsLines, n, X
  <1> QED BY <1>1, <1>11 DEF n

\* An operation at the end of a script adds its line if it bears one of the marks.
LEMMA LinesAppended ==
  ASSUME NEW L, NEW script \in Seq(Marks(L)), NEW e \in Marks(L), NEW marks
  PROVE  /\ LinesOf(script, marks) \in Seq(L)
         /\ LinesOf(Append(script, e), marks) =
              IF e[1] \in marks THEN Append(LinesOf(script, marks), e[2]) ELSE LinesOf(script, marks)
  <1> DEFINE more == Append(script, e)
             n == Len(script)
  <1>1. /\ more \in Seq(Marks(L)) /\ Len(more) = n + 1 /\ more[n + 1] = e /\ n \in Nat
        /\ \A k \in 1 .. n : more[k] = script[k]
    OBVIOUS
  <1> HIDE DEF more, n
  <1>2. PICK f : IsLines(f, L, script, marks) /\ LinesOf(script, marks) = f[n]
    BY LinesUnfold DEF n
  <1>3. PICK g : IsLines(g, L, more, marks) /\ LinesOf(more, marks) = g[n + 1]
    BY <1>1, LinesUnfold
  <1>4. /\ f[0] = <<>> /\ f[n] \in Seq(L)
        /\ \A k \in 1 .. n : f[k] = LinesAt(f[k - 1], script, marks, k)
    BY <1>1, <1>2 DEF IsLines, n
  <1>5. /\ g[0] = <<>> /\ \A k \in 1 .. n + 1 : g[k] = LinesAt(g[k - 1], more, marks, k)
    BY <1>1, <1>3 DEF IsLines
  <1> DEFINE S == {k \in Nat : k <= n => f[k] = g[k]}
  <1>6. 0 \in S
    BY <1>4, <1>5
  <1>7. ASSUME NEW k \in Nat, k \in S PROVE k + 1 \in S
    <2> SUFFICES ASSUME k + 1 <= n PROVE f[k + 1] = g[k + 1]
      OBVIOUS
    <2>1. k + 1 \in 1 .. n /\ k + 1 \in 1 .. n + 1 /\ k + 1 - 1 = k /\ k <= n
      BY <1>1
    <2>2. f[k] = g[k]
      BY <1>7, <2>1
    <2>3. f[k + 1] = LinesAt(f[k], script, marks, k + 1) /\ g[k + 1] = LinesAt(g[k], more, marks, k + 1)
      BY <1>4, <1>5, <2>1
    <2>4. more[k + 1] = script[k + 1]
      BY <1>1, <2>1
    <2> QED BY <2>2, <2>3, <2>4 DEF LinesAt
  <1> HIDE DEF S
  <1>8. n \in S
    BY <1>1, <1>6, <1>7, SetInduction
  <1>9. f[n] = g[n]
    BY <1>1, <1>8 DEF S
  <1>10. g[n + 1] = LinesAt(g[n], more, marks, n + 1)
    <2> DEFINE m == n + 1
    <2>1. m \in 1 .. m /\ m - 1 = n
      BY <1>1
    <2>2. \A k \in 1 .. m : g[k] = LinesAt(g[k - 1], more, marks, k)
      BY <1>5
    <2> HIDE DEF m
    <2>3. g[m] = LinesAt(g[m - 1], more, marks, m)
      BY <2>1, <2>2
    <2>4. g[m] = LinesAt(g[n], more, marks, m)
      BY <2>1, <2>3
    <2> QED BY <2>4 DEF m
  <1>11. LinesOf(more, marks) = IF e[1] \in marks THEN Append(f[n], e[2]) ELSE f[n]
    BY <1>1, <1>3, <1>9, <1>10 DEF LinesAt
  <1> QED BY <1>2, <1>4, <1>11 DEF more

\* The empty script has no lines.
LEMMA NoLines == ASSUME NEW L, NEW marks PROVE LinesOf(<<>>, marks) = <<>>
  <1>1. << >> \in Seq(Marks(L)) /\ Len(<< >>) = 0
    OBVIOUS
  <1> DEFINE s == << >>
  <1>2. s \in Seq(Marks(L)) /\ Len(s) = 0
    BY <1>1
  <1> HIDE DEF s
  <1>3. PICK f : IsLines(f, L, s, marks) /\ LinesOf(s, marks) = f[0]
    BY <1>2, LinesUnfold
  <1>4. LinesOf(s, marks) = << >>
    BY <1>3 DEF IsLines
  <1> QED BY <1>4 DEF s

\* What is left of a text bears one mark throughout.
LEMMA LinesOfRest ==
  ASSUME NEW L, NEW text \in Seq(L), NEW op \in {"kept", "gone", "added"}, NEW n \in 0 .. Len(text), NEW marks
  PROVE  LinesOf(RestOf(op, text, n), marks) = IF op \in marks THEN SubSeq(text, 1, n) ELSE <<>>
  <1> DEFINE Holds(k) == LinesOf(RestOf(op, text, k), marks) = IF op \in marks THEN SubSeq(text, 1, k) ELSE <<>>
             S == {k \in Nat : k <= Len(text) => Holds(k)}
  <1>1. Holds(0)
    <2>1. RestOf(op, text, 0) = << >>
      BY DEF RestOf
    <2>2. LinesOf(RestOf(op, text, 0), marks) = <<>>
      BY <2>1, NoLines
    <2>3. SubSeq(text, 1, 0) = << >>
      OBVIOUS
    <2> QED BY <2>2, <2>3
  <1>2. ASSUME NEW k \in Nat, k + 1 <= Len(text), Holds(k) PROVE Holds(k + 1)
    <2>1. k \in 0 .. Len(text) /\ k + 1 \in 1 .. Len(text) /\ k <= Len(text)
      BY <1>2
    <2>2. LinesOf(RestOf(op, text, k), marks) = IF op \in marks THEN SubSeq(text, 1, k) ELSE <<>>
      BY <1>2
    <2>3. RestOf(op, text, k) \in Seq(Marks(L)) /\ Len(RestOf(op, text, k)) = k
      BY <2>1, RestIsScript
    <2> DEFINE e == <<op, text[k + 1]>>
    <2>4. e \in Marks(L) /\ e[1] = op /\ e[2] = text[k + 1]
      <3>1. text[k + 1] \in L
        BY <2>1
      <3> QED BY <3>1 DEF Marks
    <2>5. RestOf(op, text, k + 1) = Append(RestOf(op, text, k), e)
      BY DEF RestOf
    <2>6. SubSeq(text, 1, k + 1) = Append(SubSeq(text, 1, k), text[k + 1])
      BY <2>1
    <2> HIDE DEF e
    <2>7. LinesOf(Append(RestOf(op, text, k), e), marks) =
            IF e[1] \in marks THEN Append(LinesOf(RestOf(op, text, k), marks), e[2]) ELSE LinesOf(RestOf(op, text, k), marks)
      BY <2>3, <2>4, LinesAppended
    <2> QED BY <2>2, <2>4, <2>5, <2>6, <2>7
  <1> HIDE DEF Holds
  <1>3. 0 \in S /\ \A k \in Nat : k \in S => k + 1 \in S
    <2>1. \A k \in Nat : k + 1 <= Len(text) => k <= Len(text)
      OBVIOUS
    <2> QED BY <1>1, <1>2, <2>1
  <1> HIDE DEF S
  <1>4. n \in S
    BY <1>3, SetInduction
  <1> QED BY <1>4 DEF S, Holds

\* The script of a cell keeps and takes away the first i lines of the one text,
\* keeps and adds the first j of the other, and keeps as many as the table says.
CellRight(a, b, i, j) ==
  /\ LinesOf(Scripts(a, b)[<<i, j>>], {"kept", "gone"}) = SubSeq(a, 1, i)
  /\ LinesOf(Scripts(a, b)[<<i, j>>], {"kept", "added"}) = SubSeq(b, 1, j)
  /\ Len(LinesOf(Scripts(a, b)[<<i, j>>], {"kept"})) = Common(a, b)[<<i, j>>]

\* The first i lines are the first i - 1 and one more.
LEMMA FrontLonger ==
  ASSUME NEW L, NEW a \in Seq(L), NEW i \in 1 .. Len(a)
  PROVE  a[i] \in L /\ SubSeq(a, 1, i) = Append(SubSeq(a, 1, i - 1), a[i])
  <1> DEFINE k == i - 1
  <1>1. k \in 0 .. Len(a) /\ k + 1 = i /\ k + 1 <= Len(a) /\ k <= Len(a) /\ k \in Nat
    OBVIOUS
  <1> HIDE DEF k
  <1>2. SubSeq(a, 1, k + 1) = Append(SubSeq(a, 1, k), a[k + 1])
    BY <1>1
  <1> QED BY <1>1, <1>2 DEF k

\* The lines of a script are lines.
LEMMA LineTyped ==
  ASSUME NEW L, NEW z \in Seq(Marks(L)), NEW marks
  PROVE  LinesOf(z, marks) \in Seq(L)
  <1>1. PICK f : IsLines(f, L, z, marks) /\ LinesOf(z, marks) = f[Len(z)]
    BY LinesUnfold
  <1>2. Len(z) \in 0 .. Len(z)
    OBVIOUS
  <1> QED BY <1>1, <1>2 DEF IsLines

\* The two cases of LinesAppended.
LEMMA LineTaken ==
  ASSUME NEW L, NEW z \in Seq(Marks(L)), NEW e \in Marks(L), NEW marks, e[1] \in marks
  PROVE  LinesOf(Append(z, e), marks) = Append(LinesOf(z, marks), e[2])
  BY LinesAppended

LEMMA LineLeft ==
  ASSUME NEW L, NEW z \in Seq(Marks(L)), NEW e \in Marks(L), NEW marks, e[1] \notin marks
  PROVE  LinesOf(Append(z, e), marks) = LinesOf(z, marks)
  BY LinesAppended

\* One cell, from those before it.
LEMMA CellStep ==
  ASSUME NEW L, NEW a \in Seq(L), NEW b \in Seq(L), NEW i \in 0 .. Len(a), NEW j \in 0 .. Len(b),
         i # 0 => CellRight(a, b, i - 1, j),
         j # 0 => CellRight(a, b, i, j - 1),
         i # 0 /\ j # 0 => CellRight(a, b, i - 1, j - 1)
  PROVE  CellRight(a, b, i, j)
  <1> DEFINE o == Scripts(a, b)
             t == Common(a, b)
  <1>1. o[<<i, j>>] = ScriptAt(o, a, b, i, j) /\ t[<<i, j>>] = CommonAt(t, a, b, i, j)
    BY ScriptsUnfold, CommonUnfolds
  <1>2. /\ SubSeq(a, 1, 0) = << >> /\ SubSeq(b, 1, 0) = << >>
        /\ i # 0 => SubSeq(a, 1, i) = Append(SubSeq(a, 1, i - 1), a[i]) /\ a[i] \in L
        /\ j # 0 => SubSeq(b, 1, j) = Append(SubSeq(b, 1, j - 1), b[j]) /\ b[j] \in L
    <2>1. SubSeq(a, 1, 0) = << >> /\ SubSeq(b, 1, 0) = << >>
      OBVIOUS
    <2>2. i # 0 => i \in 1 .. Len(a)
      OBVIOUS
    <2>3. j # 0 => j \in 1 .. Len(b)
      OBVIOUS
    <2> QED BY <2>1, <2>2, <2>3, FrontLonger
  <1>3. CASE j = 0
    <2>1. o[<<i, j>>] = RestOf("gone", a, i) /\ t[<<i, j>>] = 0
      BY <1>1, <1>3 DEF ScriptAt, CommonAt
    <2> HIDE DEF o, t
    <2>2. /\ LinesOf(RestOf("gone", a, i), {"kept", "gone"}) = SubSeq(a, 1, i)
          /\ LinesOf(RestOf("gone", a, i), {"kept", "added"}) = << >>
          /\ LinesOf(RestOf("gone", a, i), {"kept"}) = << >>
      BY LinesOfRest
    <2> QED BY <1>2, <1>3, <2>1, <2>2 DEF CellRight, o, t
  <1>4. CASE i = 0 /\ j # 0
    <2>1. o[<<i, j>>] = RestOf("added", b, j) /\ t[<<i, j>>] = 0
      BY <1>1, <1>4 DEF ScriptAt, CommonAt
    <2> HIDE DEF o, t
    <2>2. /\ LinesOf(RestOf("added", b, j), {"kept", "gone"}) = << >>
          /\ LinesOf(RestOf("added", b, j), {"kept", "added"}) = SubSeq(b, 1, j)
          /\ LinesOf(RestOf("added", b, j), {"kept"}) = << >>
      BY LinesOfRest
    <2> QED BY <1>2, <1>4, <2>1, <2>2 DEF CellRight, o, t
  <1>5. CASE i # 0 /\ j # 0
    <2>1. /\ o[<<i - 1, j>>] \in Seq(Marks(L)) /\ o[<<i, j - 1>>] \in Seq(Marks(L)) /\ o[<<i - 1, j - 1>>] \in Seq(Marks(L))
          /\ t[<<i - 1, j>>] \in Nat /\ t[<<i, j - 1>>] \in Nat /\ t[<<i - 1, j - 1>>] \in Nat
      <3>1. <<i - 1, j>> \in Cells(a, b) /\ <<i, j - 1>> \in Cells(a, b) /\ <<i - 1, j - 1>> \in Cells(a, b)
        BY <1>5, CellsBefore
      <3> QED BY <3>1, ScriptsUnfold, CommonUnfolds
    <2> DEFINE KG == {"kept", "gone"}
               KA == {"kept", "added"}
               KK == {"kept"}
               U == o[<<i - 1, j>>]
               V == o[<<i, j - 1>>]
               W == o[<<i - 1, j - 1>>]
    <2>2. /\ LinesOf(U, KG) = SubSeq(a, 1, i - 1) /\ LinesOf(U, KA) = SubSeq(b, 1, j)
          /\ Len(LinesOf(U, KK)) = t[<<i - 1, j>>]
          /\ LinesOf(V, KG) = SubSeq(a, 1, i) /\ LinesOf(V, KA) = SubSeq(b, 1, j - 1)
          /\ Len(LinesOf(V, KK)) = t[<<i, j - 1>>]
          /\ LinesOf(W, KG) = SubSeq(a, 1, i - 1) /\ LinesOf(W, KA) = SubSeq(b, 1, j - 1)
          /\ Len(LinesOf(W, KK)) = t[<<i - 1, j - 1>>]
      BY <1>5 DEF CellRight
    <2> HIDE DEF U, V, W
    <2>3. U \in Seq(Marks(L)) /\ V \in Seq(Marks(L)) /\ W \in Seq(Marks(L))
      BY <2>1 DEF U, V, W
    <2>4. /\ "kept" \in KG /\ "gone" \in KG /\ "added" \notin KG
          /\ "kept" \in KA /\ "gone" \notin KA /\ "added" \in KA
          /\ "kept" \in KK /\ "gone" \notin KK /\ "added" \notin KK
      OBVIOUS
    <2>8. LinesOf(W, KK) \in Seq(L)
      BY <2>3, LineTyped
    <2> HIDE DEF KG, KA, KK
    <2> HIDE DEF o, t
    <2>5. CASE a[i] = b[j]
      <3> DEFINE e == <<"kept", a[i]>>
      <3>1. e \in Marks(L) /\ e[1] = "kept" /\ e[2] = a[i]
        BY <1>2, <1>5 DEF Marks
      <3>2. o[<<i, j>>] = Append(W, e) /\ t[<<i, j>>] = t[<<i - 1, j - 1>>] + 1
        BY <1>1, <1>5, <2>5 DEF ScriptAt, CommonAt, W
      <3> HIDE DEF e
      <3>3. /\ LinesOf(Append(W, e), KG) = Append(SubSeq(a, 1, i - 1), a[i])
            /\ LinesOf(Append(W, e), KA) = Append(SubSeq(b, 1, j - 1), a[i])
            /\ LinesOf(Append(W, e), KK) = Append(LinesOf(W, KK), a[i]) /\ LinesOf(W, KK) \in Seq(L)
        <4>1. LinesOf(Append(W, e), KG) = Append(SubSeq(a, 1, i - 1), a[i])
          <5>1. e[1] \in KG
            BY <2>4, <3>1
          <5>2. LinesOf(Append(W, e), KG) = Append(LinesOf(W, KG), e[2])
            BY <2>3, <3>1, <5>1, LineTaken
          <5> QED BY <2>2, <3>1, <5>2
        <4>2. LinesOf(Append(W, e), KA) = Append(SubSeq(b, 1, j - 1), a[i])
          <5>1. e[1] \in KA
            BY <2>4, <3>1
          <5>2. LinesOf(Append(W, e), KA) = Append(LinesOf(W, KA), e[2])
            BY <2>3, <3>1, <5>1, LineTaken
          <5> QED BY <2>2, <3>1, <5>2
        <4>3. LinesOf(Append(W, e), KK) = Append(LinesOf(W, KK), a[i]) /\ LinesOf(W, KK) \in Seq(L)
          <5>1. e[1] \in KK
            BY <2>4, <3>1
          <5> QED BY <2>2, <2>3, <2>8, <3>1, <5>1, LineTaken
        <4> QED BY <4>1, <4>2, <4>3
      <3>4. Len(Append(LinesOf(W, KK), a[i])) = t[<<i, j>>]
        BY <1>2, <1>5, <2>2, <3>2, <3>3
      <3> QED BY <1>2, <1>5, <2>5, <3>2, <3>3, <3>4 DEF CellRight, o, t, KG, KA, KK
    <2>6. CASE a[i] # b[j] /\ t[<<i - 1, j>>] >= t[<<i, j - 1>>]
      <3> DEFINE e == <<"gone", a[i]>>
      <3>1. e \in Marks(L) /\ e[1] = "gone" /\ e[2] = a[i]
        BY <1>2, <1>5 DEF Marks
      <3>2. o[<<i, j>>] = Append(U, e) /\ t[<<i, j>>] = t[<<i - 1, j>>]
        <4>1. o[<<i, j>>] = Append(U, e)
          BY <1>1, <1>5, <2>6 DEF ScriptAt, U, t
        <4>2. t[<<i, j>>] = t[<<i - 1, j>>]
          BY <1>1, <1>5, <2>1, <2>6 DEF CommonAt
        <4> QED BY <4>1, <4>2
      <3> HIDE DEF e
      <3>3. /\ LinesOf(Append(U, e), KG) = Append(SubSeq(a, 1, i - 1), a[i])
            /\ LinesOf(Append(U, e), KA) = SubSeq(b, 1, j)
            /\ LinesOf(Append(U, e), KK) = LinesOf(U, KK)
        <4>1. LinesOf(Append(U, e), KG) = Append(SubSeq(a, 1, i - 1), a[i])
          <5>1. e[1] \in KG
            BY <2>4, <3>1
          <5>2. LinesOf(Append(U, e), KG) = Append(LinesOf(U, KG), e[2])
            BY <2>3, <3>1, <5>1, LineTaken
          <5> QED BY <2>2, <3>1, <5>2
        <4>2. LinesOf(Append(U, e), KA) = SubSeq(b, 1, j)
          <5>1. e[1] \notin KA
            BY <2>4, <3>1
          <5> QED BY <2>2, <2>3, <2>8, <3>1, <5>1, LineLeft
        <4>3. LinesOf(Append(U, e), KK) = LinesOf(U, KK)
          <5>1. e[1] \notin KK
            BY <2>4, <3>1
          <5> QED BY <2>2, <2>3, <2>8, <3>1, <5>1, LineLeft
        <4> QED BY <4>1, <4>2, <4>3
      <3> QED BY <1>2, <1>5, <2>2, <3>2, <3>3 DEF CellRight, o, t, KG, KA, KK
    <2>7. CASE a[i] # b[j] /\ ~(t[<<i - 1, j>>] >= t[<<i, j - 1>>])
      <3> DEFINE e == <<"added", b[j]>>
      <3>1. e \in Marks(L) /\ e[1] = "added" /\ e[2] = b[j]
        BY <1>2, <1>5 DEF Marks
      <3>2. o[<<i, j>>] = Append(V, e) /\ t[<<i, j>>] = t[<<i, j - 1>>]
        <4>1. o[<<i, j>>] = Append(V, e)
          BY <1>1, <1>5, <2>7 DEF ScriptAt, V, t
        <4>2. t[<<i, j>>] = t[<<i, j - 1>>]
          BY <1>1, <1>5, <2>1, <2>7 DEF CommonAt
        <4> QED BY <4>1, <4>2
      <3> HIDE DEF e
      <3>3. /\ LinesOf(Append(V, e), KG) = SubSeq(a, 1, i)
            /\ LinesOf(Append(V, e), KA) = Append(SubSeq(b, 1, j - 1), b[j])
            /\ LinesOf(Append(V, e), KK) = LinesOf(V, KK)
        <4>1. LinesOf(Append(V, e), KG) = SubSeq(a, 1, i)
          <5>1. e[1] \notin KG
            BY <2>4, <3>1
          <5> QED BY <2>2, <2>3, <2>8, <3>1, <5>1, LineLeft
        <4>2. LinesOf(Append(V, e), KA) = Append(SubSeq(b, 1, j - 1), b[j])
          <5>1. e[1] \in KA
            BY <2>4, <3>1
          <5>2. LinesOf(Append(V, e), KA) = Append(LinesOf(V, KA), e[2])
            BY <2>3, <3>1, <5>1, LineTaken
          <5> QED BY <2>2, <3>1, <5>2
        <4>3. LinesOf(Append(V, e), KK) = LinesOf(V, KK)
          <5>1. e[1] \notin KK
            BY <2>4, <3>1
          <5> QED BY <2>2, <2>3, <2>8, <3>1, <5>1, LineLeft
        <4> QED BY <4>1, <4>2, <4>3
      <3> QED BY <1>2, <1>5, <2>2, <3>2, <3>3 DEF CellRight, o, t, KG, KA, KK
    <2> QED BY <2>5, <2>6, <2>7
  <1> QED BY <1>3, <1>4, <1>5

\* The last cell, by induction on the sum of its coordinates.
LEMMA CellsRight ==
  ASSUME NEW L, NEW a \in Seq(L), NEW b \in Seq(L)
  PROVE  CellRight(a, b, Len(a), Len(b))
  <1> DEFINE Fine(d) == \A i \in 0 .. Len(a), j \in 0 .. Len(b) : i + j = d => CellRight(a, b, i, j)
             S == {d \in Nat : \A c \in 0 .. d : Fine(c)}
  <1>1. ASSUME NEW d \in Nat, \A c \in Nat : c < d => Fine(c) PROVE Fine(d)
    <2> SUFFICES ASSUME NEW i \in 0 .. Len(a), NEW j \in 0 .. Len(b), i + j = d PROVE CellRight(a, b, i, j)
      OBVIOUS
    <2>1. i # 0 => CellRight(a, b, i - 1, j)
      <3> SUFFICES ASSUME i # 0 PROVE CellRight(a, b, i - 1, j)
        OBVIOUS
      <3>1. i - 1 \in 0 .. Len(a) /\ (i - 1) + j \in Nat /\ (i - 1) + j < d
        OBVIOUS
      <3>2. Fine((i - 1) + j)
        BY <1>1, <3>1
      <3> QED BY <3>1, <3>2
    <2>2. j # 0 => CellRight(a, b, i, j - 1)
      <3> SUFFICES ASSUME j # 0 PROVE CellRight(a, b, i, j - 1)
        OBVIOUS
      <3>1. j - 1 \in 0 .. Len(b) /\ i + (j - 1) \in Nat /\ i + (j - 1) < d
        OBVIOUS
      <3>2. Fine(i + (j - 1))
        BY <1>1, <3>1
      <3> QED BY <3>1, <3>2
    <2>3. i # 0 /\ j # 0 => CellRight(a, b, i - 1, j - 1)
      <3> SUFFICES ASSUME i # 0, j # 0 PROVE CellRight(a, b, i - 1, j - 1)
        OBVIOUS
      <3>1. i - 1 \in 0 .. Len(a) /\ j - 1 \in 0 .. Len(b) /\ (i - 1) + (j - 1) \in Nat /\ (i - 1) + (j - 1) < d
        OBVIOUS
      <3>2. Fine((i - 1) + (j - 1))
        BY <1>1, <3>1
      <3> QED BY <3>1, <3>2
    <2> QED BY <2>1, <2>2, <2>3, CellStep
  <1>2. Len(a) \in Nat /\ Len(b) \in Nat
    OBVIOUS
  <1> HIDE DEF Fine
  <1>3. 0 \in S
    <2>1. Fine(0)
      BY <1>1
    <2> QED BY <2>1
  <1>4. ASSUME NEW d \in Nat, d \in S PROVE d + 1 \in S
    <2>1. \A c \in Nat : c < d + 1 => Fine(c)
      BY <1>4
    <2>2. Fine(d + 1)
      BY <1>1, <2>1
    <2> QED BY <2>1, <2>2
  <1> HIDE DEF S
  <1>5. Len(a) + Len(b) \in S
    BY <1>2, <1>3, <1>4, SetInduction
  <1>6. Fine(Len(a) + Len(b))
    BY <1>2, <1>5 DEF S
  <1> QED BY <1>2, <1>6 DEF Fine

\* s is what remains of the first n lines of t if lines are taken away.
Embeds(s, t, n) ==
  \E f \in [DOMAIN s -> 1 .. n] : \A k, l \in DOMAIN s : s[k] = t[f[k]] /\ (k < l => f[k] < f[l])

\* Only the empty text embeds in nothing.
LEMMA EmbedsNothing ==
  ASSUME NEW L, NEW s \in Seq(L), NEW t, Embeds(s, t, 0)
  PROVE  Len(s) = 0
  <1>1. PICK f \in [DOMAIN s -> 1 .. 0] : TRUE
    BY DEF Embeds
  <1>2. \A k \in 1 .. Len(s) : f[k] \in 1 .. 0
    <2>1. DOMAIN s = 1 .. Len(s)
      OBVIOUS
    <2> QED BY <1>1, <2>1
  <1>3. Len(s) \in Nat /\ (Len(s) # 0 => 1 \in 1 .. Len(s))
    OBVIOUS
  <1> QED BY <1>2, <1>3

\* Without its last line it embeds in one line less.
LEMMA EmbedsFront ==
  ASSUME NEW L, NEW s \in Seq(L), NEW t, NEW n \in Nat, n # 0, s # << >>, Embeds(s, t, n)
  PROVE  /\ SubSeq(s, 1, Len(s) - 1) \in Seq(L) /\ Len(SubSeq(s, 1, Len(s) - 1)) = Len(s) - 1
         /\ Embeds(SubSeq(s, 1, Len(s) - 1), t, n - 1)
  <1> DEFINE m == Len(s)
             r == SubSeq(s, 1, m - 1)
  <1>1. m \in Nat /\ m # 0 /\ m \in 1 .. m /\ DOMAIN s = 1 .. m
    OBVIOUS
  <1>2. \A k \in 1 .. m - 1 : k \in 1 .. m /\ k < m
    OBVIOUS
  <1>3. r \in Seq(L) /\ Len(r) = m - 1 /\ DOMAIN r = 1 .. m - 1
    BY <1>1
  <1>4. \A k \in 1 .. m - 1 : r[k] = s[k]
    OBVIOUS
  <1> HIDE DEF m, r
  <1>5. PICK f \in [1 .. m -> 1 .. n] :
          \A k, l \in 1 .. m : s[k] = t[f[k]] /\ (k < l => f[k] < f[l])
    BY <1>1 DEF Embeds
  <1>6. \A k \in 1 .. m - 1 : f[k] \in 1 .. n - 1
    <2> SUFFICES ASSUME NEW k \in 1 .. m - 1 PROVE f[k] \in 1 .. n - 1
      OBVIOUS
    <2>1. k \in 1 .. m /\ k < m /\ m \in 1 .. m
      BY <1>1, <1>2
    <2>2. f[k] < f[m] /\ f[k] \in 1 .. n /\ f[m] \in 1 .. n
      BY <1>5, <2>1
    <2> QED BY <2>2
  <1> DEFINE g == [k \in 1 .. m - 1 |-> f[k]]
  <1>7. g \in [DOMAIN r -> 1 .. n - 1]
    BY <1>6, <1>3
  <1>8. \A k, l \in DOMAIN r : r[k] = t[g[k]] /\ (k < l => g[k] < g[l])
    BY <1>5, <1>2, <1>3, <1>4
  <1>9. Embeds(r, t, n - 1)
    BY <1>7, <1>8 DEF Embeds
  <1> QED BY <1>9, <1>3 DEF m, r

\* Unless its last line is the n-th of t, it fits into fewer.
LEMMA EmbedsShorter ==
  ASSUME NEW L, NEW s \in Seq(L), NEW t, NEW n \in Nat, n # 0, s # << >>, Embeds(s, t, n),
         s[Len(s)] # t[n]
  PROVE  Embeds(s, t, n - 1)
  <1> DEFINE m == Len(s)
  <1>1. m \in Nat /\ m # 0 /\ m \in 1 .. m /\ DOMAIN s = 1 .. m
    OBVIOUS
  <1> HIDE DEF m
  <1>2. PICK f \in [1 .. m -> 1 .. n] :
          \A k, l \in 1 .. m : s[k] = t[f[k]] /\ (k < l => f[k] < f[l])
    BY <1>1 DEF Embeds
  <1>3. f[m] \in 1 .. n - 1
    <2>1. f[m] \in 1 .. n /\ s[m] = t[f[m]]
      BY <1>1, <1>2
    <2>2. f[m] # n
      BY <2>1 DEF m
    <2> QED BY <2>1, <2>2
  <1>4. \A k \in 1 .. m : f[k] \in 1 .. n - 1
    <2> SUFFICES ASSUME NEW k \in 1 .. m PROVE f[k] \in 1 .. n - 1
      OBVIOUS
    <2>1. k = m \/ k < m
      BY <1>1
    <2>2. k < m => f[k] < f[m]
      BY <1>1, <1>2
    <2>3. f[k] \in 1 .. n
      BY <1>2
    <2> QED BY <1>3, <2>1, <2>2, <2>3
  <1>5. f \in [DOMAIN s -> 1 .. n - 1]
    BY <1>1, <1>2, <1>4
  <1> QED BY <1>1, <1>2, <1>5 DEF Embeds

\* No text over L within both beginnings is longer than the cell says.
NoLonger(L, a, b, i, j) ==
  \A s \in Seq(L) : Embeds(s, a, i) /\ Embeds(s, b, j) => Len(s) <= Common(a, b)[<<i, j>>]

\* One cell, from those before it.
LEMMA LongestStep ==
  ASSUME NEW L, NEW a \in Seq(L), NEW b \in Seq(L), NEW i \in 0 .. Len(a), NEW j \in 0 .. Len(b),
         i # 0 => NoLonger(L, a, b, i - 1, j),
         j # 0 => NoLonger(L, a, b, i, j - 1),
         i # 0 /\ j # 0 => NoLonger(L, a, b, i - 1, j - 1)
  PROVE  NoLonger(L, a, b, i, j)
  <1> DEFINE t == Common(a, b)
  <1>1. t[<<i, j>>] = CommonAt(t, a, b, i, j)
    BY CommonUnfolds
  <1>2. /\ t[<<i, j>>] \in Nat
        /\ i # 0 => t[<<i - 1, j>>] \in Nat
        /\ j # 0 => t[<<i, j - 1>>] \in Nat
        /\ i # 0 /\ j # 0 => t[<<i - 1, j - 1>>] \in Nat
    BY SMTT(20), CellsBefore, CommonUnfolds
  <1> SUFFICES ASSUME NEW s \in Seq(L), Embeds(s, a, i), Embeds(s, b, j) PROVE Len(s) <= t[<<i, j>>]
    BY DEF NoLonger
  <1>3. CASE s = << >>
    BY <1>2, <1>3
  <1>4. CASE i = 0 \/ j = 0
    <2>1. Len(s) = 0
      BY <1>4, EmbedsNothing
    <2> QED BY <1>2, <2>1
  <1>5. CASE s # << >> /\ i # 0 /\ j # 0
    <2> DEFINE m == Len(s)
    <2>1. m \in Nat /\ i \in Nat /\ j \in Nat
      OBVIOUS
    <2> HIDE DEF t
    <2>2. CASE a[i] = b[j]
      <3> DEFINE r == SubSeq(s, 1, m - 1)
      <3>1. r \in Seq(L) /\ Len(r) = m - 1 /\ Embeds(r, a, i - 1)
        BY <1>5, <2>1, EmbedsFront
      <3>2. Embeds(r, b, j - 1)
        BY <1>5, <2>1, EmbedsFront
      <3> HIDE DEF r, m
      <3>3. m - 1 <= t[<<i - 1, j - 1>>]
        <4>1. NoLonger(L, a, b, i - 1, j - 1)
          BY <1>5
        <4>2. Len(r) <= Common(a, b)[<<i - 1, j - 1>>]
          BY <3>1, <3>2, <4>1 DEF NoLonger
        <4> QED BY <3>1, <4>2 DEF t
      <3>4. t[<<i, j>>] = t[<<i - 1, j - 1>>] + 1
        BY <1>1, <1>5, <2>2 DEF CommonAt
      <3>5. m <= t[<<i, j>>]
        BY <1>2, <1>5, <2>1, <3>3, <3>4
      <3> QED BY <3>5 DEF m
    <2>3. CASE a[i] # b[j]
      <3>1. t[<<i, j>>] >= t[<<i - 1, j>>] /\ t[<<i, j>>] >= t[<<i, j - 1>>]
        BY <1>1, <1>2, <1>5, <2>3 DEF CommonAt
      <3>2. CASE s[m] # a[i]
        <4>1. Embeds(s, a, i - 1)
          BY <1>5, <2>1, <3>2, EmbedsShorter
        <4> HIDE DEF m
        <4>2. Len(s) <= t[<<i - 1, j>>]
          BY <1>5, <4>1 DEF NoLonger, t
        <4> QED BY <1>2, <1>5, <2>1, <3>1, <4>2 DEF m
      <3>3. CASE s[m] # b[j]
        <4>1. Embeds(s, b, j - 1)
          BY <1>5, <2>1, <3>3, EmbedsShorter
        <4> HIDE DEF m
        <4>2. Len(s) <= t[<<i, j - 1>>]
          BY <1>5, <4>1 DEF NoLonger, t
        <4> QED BY <1>2, <1>5, <2>1, <3>1, <4>2 DEF m
      <3> QED BY <2>3, <3>2, <3>3
    <2> QED BY <2>2, <2>3
  <1> QED BY <1>3, <1>4, <1>5

\* No text that both sides contain is longer than the table says.
LEMMA CommonIsLongest ==
  ASSUME NEW L, NEW a \in Seq(L), NEW b \in Seq(L)
  PROVE  NoLonger(L, a, b, Len(a), Len(b))
  <1> DEFINE Fine(d) == \A i \in 0 .. Len(a), j \in 0 .. Len(b) : i + j = d => NoLonger(L, a, b, i, j)
             S == {d \in Nat : \A c \in 0 .. d : Fine(c)}
  <1>1. ASSUME NEW d \in Nat, \A c \in Nat : c < d => Fine(c) PROVE Fine(d)
    <2> SUFFICES ASSUME NEW i \in 0 .. Len(a), NEW j \in 0 .. Len(b), i + j = d PROVE NoLonger(L, a, b, i, j)
      OBVIOUS
    <2>1. i # 0 => NoLonger(L, a, b, i - 1, j)
      <3> SUFFICES ASSUME i # 0 PROVE NoLonger(L, a, b, i - 1, j)
        OBVIOUS
      <3>1. i - 1 \in 0 .. Len(a) /\ (i - 1) + j \in Nat /\ (i - 1) + j < d
        OBVIOUS
      <3>2. Fine((i - 1) + j)
        BY <1>1, <3>1
      <3> QED BY <3>1, <3>2
    <2>2. j # 0 => NoLonger(L, a, b, i, j - 1)
      <3> SUFFICES ASSUME j # 0 PROVE NoLonger(L, a, b, i, j - 1)
        OBVIOUS
      <3>1. j - 1 \in 0 .. Len(b) /\ i + (j - 1) \in Nat /\ i + (j - 1) < d
        OBVIOUS
      <3>2. Fine(i + (j - 1))
        BY <1>1, <3>1
      <3> QED BY <3>1, <3>2
    <2>3. i # 0 /\ j # 0 => NoLonger(L, a, b, i - 1, j - 1)
      <3> SUFFICES ASSUME i # 0, j # 0 PROVE NoLonger(L, a, b, i - 1, j - 1)
        OBVIOUS
      <3>1. i - 1 \in 0 .. Len(a) /\ j - 1 \in 0 .. Len(b) /\ (i - 1) + (j - 1) \in Nat /\ (i - 1) + (j - 1) < d
        OBVIOUS
      <3>2. Fine((i - 1) + (j - 1))
        BY <1>1, <3>1
      <3> QED BY <3>1, <3>2
    <2> QED BY <2>1, <2>2, <2>3, LongestStep
  <1>2. Len(a) \in Nat /\ Len(b) \in Nat
    OBVIOUS
  <1> HIDE DEF Fine
  <1>3. 0 \in S
    <2>1. Fine(0)
      BY <1>1
    <2> QED BY <2>1
  <1>4. ASSUME NEW d \in Nat, d \in S PROVE d + 1 \in S
    <2>1. \A c \in Nat : c < d + 1 => Fine(c)
      BY <1>4
    <2>2. Fine(d + 1)
      BY <1>1, <2>1
    <2> QED BY <2>1, <2>2
  <1> HIDE DEF S
  <1>5. Len(a) + Len(b) \in S
    BY <1>2, <1>3, <1>4, SetInduction
  <1>6. Fine(Len(a) + Len(b))
    BY <1>2, <1>5 DEF S
  <1> QED BY <1>2, <1>6 DEF Fine

\* Within, as Embeds says it.
LEMMA WithinEmbeds ==
  ASSUME NEW L, NEW s \in Seq(L), NEW t \in Seq(L), Within(s, t)
  PROVE  Embeds(s, t, Len(t))
  <1>1. DOMAIN t = 1 .. Len(t)
    OBVIOUS
  <1> QED BY <1>1 DEF Within, Embeds

\* Only sc.diff writes an answer, and nothing changes the revisions.
LEMMA DiffFrame ==
  ASSUME [Next]_vars
  PROVE  /\ focus' = focus /\ compared' = compared
         /\ UNCHANGED patch \/ (focus = "diff" /\ patch' = UnifiedDiff(Cut(compared[1]), Cut(compared[2])))
  <1>1. focus' = focus
    BY FocusKept
  <1>2. UNCHANGED scVars \/ SourceControlNext \/ (focus = "diff" /\ DiffFile)
    BY DEF Next, vars, OthersStill, SceneStep, OutlinerStep, ComponentStep, LevelStep, BatchStep,
           PlayStep, TreeStep, AgentStep, InsightsStep, StatStep, TestStep, ViewStep, DrawStep, DiffNext,
           SourceControlStep, DiffStep, CodingStep, CfgStep, CollisionStep, TagStep, PlayWorld, UserSaves
  <1>3. SourceControlNext => compared' = compared /\ UNCHANGED patch
    BY DEF SourceControlNext, Status, Checkout, Revert, SubmitInternal, SubmitBody, OthersWork
  <1>4. UNCHANGED scVars => compared' = compared /\ UNCHANGED patch
    BY DEF scVars
  <1> QED BY <1>1, <1>2, <1>3, <1>4 DEF DiffFile

\* The answer is the script of the two revisions.
DiffInv ==
  /\ focus = "diff" => compared \in Texts \X Texts
  /\ patch # <<>> => compared \in Texts \X Texts /\ patch = UnifiedDiff(Cut(compared[1]), Cut(compared[2]))

\* What every script answered with is: the two texts, and no more lines in
\* common than any text that both contain.
LEMMA DiffInvMeansShortest == ASSUME DiffInv PROVE DiffIsShortest
  <1> SUFFICES ASSUME patch # <<>> PROVE DiffIsShortest
    BY DEF DiffIsShortest
  <1> DEFINE L == UNION {{t[k] : k \in DOMAIN t} : t \in Texts}
             a == Cut(compared[1])
             b == Cut(compared[2])
  <1>1. compared[1] \in Texts /\ compared[2] \in Texts /\ patch = UnifiedDiff(a, b)
    BY DEF DiffInv
  <1>2. \A t \in Texts : t \in Seq(L)
    <2> SUFFICES ASSUME NEW t \in Texts PROVE t \in Seq(L)
      OBVIOUS
    <2> DEFINE R == {t[k] : k \in DOMAIN t}
    <2>1. t \in Seq(R) /\ R \subseteq L
      BY TextsAreLines
    <2> HIDE DEF R, L
    <2> QED BY <2>1
  <1> HIDE DEF L
  <1>3. \A t \in Seq(L) : Cut(t) \in Seq(L)
    BY TextsAreLines DEF Cut
  <1>4. a \in Seq(L) /\ b \in Seq(L)
    BY <1>1, <1>2, <1>3
  <1> HIDE DEF a, b
  <1>5. CellRight(a, b, Len(a), Len(b)) /\ NoLonger(L, a, b, Len(a), Len(b))
    BY <1>4, CellsRight, CommonIsLongest
  <1>6. SubSeq(a, 1, Len(a)) = a /\ SubSeq(b, 1, Len(b)) = b
    BY <1>4
  <1>7. /\ LinesOf(patch, {"kept", "gone"}) = a /\ LinesOf(patch, {"kept", "added"}) = b
        /\ Len(LinesOf(patch, {"kept"})) = Common(a, b)[<<Len(a), Len(b)>>]
    BY <1>1, <1>5, <1>6 DEF CellRight, UnifiedDiff
  <1>8. Common(a, b)[<<Len(a), Len(b)>>] \in Nat
    <2>1. Len(a) \in 0 .. Len(a) /\ Len(b) \in 0 .. Len(b)
      BY <1>4
    <2>2. <<Len(a), Len(b)>> \in Cells(a, b)
      BY <1>4, <2>1, CellsBefore
    <2>3. Common(a, b) \in [Cells(a, b) -> Nat]
      BY <1>4, CommonUnfolds
    <2> QED BY <2>2, <2>3
  <1>9. ASSUME NEW s \in Texts, Len(s) > Len(LinesOf(patch, {"kept"})), Within(s, a), Within(s, b) PROVE FALSE
    <2>1. s \in Seq(L) /\ Len(s) \in Nat
      BY <1>2
    <2>2. Embeds(s, a, Len(a)) /\ Embeds(s, b, Len(b))
      BY <1>4, <1>9, <2>1, WithinEmbeds
    <2>3. Len(s) <= Common(a, b)[<<Len(a), Len(b)>>]
      BY <1>5, <2>1, <2>2 DEF NoLonger
    <2> QED BY <1>7, <1>8, <1>9, <2>1, <2>3
  <1> QED BY <1>7, <1>9 DEF DiffIsShortest, a, b

\* sc.diff answers with a shortest edit script of the two revisions: what it
\* keeps and takes away is the one, what it keeps and adds is the other, and no
\* text within both has more lines than it keeps.  SCT_BuildUnifiedDiff walks
\* back through the table of the longest common subsequence, whose every cell
\* is the length that the script of the cell keeps.
THEOREM DiffsAreShortest == Spec => []DiffIsShortest
  <1>1. Init => DiffInv
    BY DEF Init, SourceControlInit, Start, DiffInv
  <1>2. DiffInv /\ [Next]_vars => DiffInv'
    BY DiffFrame DEF DiffInv
  <1>3. DiffInv => DiffIsShortest
    BY DiffInvMeansShortest
  <1> QED BY <1>1, <1>2, <1>3, PTL DEF Spec
------------------------------------------------------------------------------
(* What the outliner shows.                                                 *)

\* Actors, folders and the search are changed by the outliner's tools alone.
LEMMA OutlinerFrame ==
  ASSUME [Next]_vars
  PROVE  OutlinerNext \/ UNCHANGED outlinerVars
  <1> USE DEF OthersStill
  <1> SUFFICES ASSUME ~OutlinerStep PROVE UNCHANGED outlinerVars
    BY DEF OutlinerStep
  <1>1. CASE UNCHANGED vars
    BY <1>1 DEF vars
  <1>2. CASE Next
    BY <1>2 DEF Next, SceneStep, ComponentStep, LevelStep, BatchStep, PlayStep, TreeStep, AgentStep,
      InsightsStep, StatStep, TestStep, ViewStep, DrawStep, SourceControlStep, DiffStep, CodingStep,
      CfgStep, CollisionStep, TagStep, PlayWorld, UserSaves
  <1> QED BY <1>1, <1>2

SearchRecord ==
  [at : {"idle", "paging", "done", "stale"}, tag : BOOLEAN, last : Nat,
   steady : SUBSET Paths, seen : Seq(Nat)]

\* A client has been shown the actors up to the sentinel: those that have
\* matched all the while are among them or past the sentinel.
SearchOK(s) ==
  /\ s.at \in {"paging", "done"} => Ascending(s.seen)
  /\ s.at = "paging" =>
       /\ \A x \in Range(s.seen) : x <= s.last
       /\ \A a \in s.steady : a <= s.last => a \in Range(s.seen)
       /\ s.steady \subseteq FindMatches(s.tag)
  /\ s.at = "done" => s.steady \subseteq Range(s.seen)

ActorsTyped ==
  /\ DOMAIN acts \subseteq Paths
  /\ \A a \in DOMAIN acts : acts[a] \in [folder : Seq(STRING), tagged : BOOLEAN]
  /\ folders \subseteq Seq(STRING) \ {NoFolder}

OutlinerInv == ActorsTyped /\ search \in SearchRecord /\ SearchOK(search)

\* A page of actors that come after those already seen.
LEMMA AnsweredKeeps ==
  ASSUME NEW s \in SearchRecord, NEW rest \in SUBSET Paths, Ascending(s.seen),
         \A x \in Range(s.seen) : \A y \in rest : x < y,
         s.steady \subseteq Range(s.seen) \cup rest,
         s.steady \subseteq FindMatches(s.tag)
  PROVE  Answered(s, rest) \in SearchRecord /\ SearchOK(Answered(s, rest))
  <1> DEFINE page == SliceActorPage(rest)
             n == Cardinality(rest)
             seen == s.seen \o page
             at == IF n > ActorPage THEN "paging" ELSE "done"
             last == IF rest = {} THEN s.last ELSE Last(page)
             new == Answered(s, rest)
  <1>1. /\ rest \in SUBSET Nat /\ IsFiniteSet(rest) /\ n \in Nat
        /\ s.seen \in Seq(Nat) /\ s.last \in Nat /\ s.steady \subseteq Paths /\ s.tag \in BOOLEAN
        /\ s.steady \subseteq Nat /\ ActorPage \in Nat \ {0}
    <2>1. rest \in SUBSET Nat /\ IsFiniteSet(rest)
      BY PathsAreNumbers, FS_Subset
    <2> QED BY <2>1, PathsAreNumbers, ActorPageAssumption, FS_CardinalityType DEF SearchRecord
  <1>2. /\ seen \in Seq(Nat)
        /\ Ascending(seen)
        /\ Range(seen) = Range(s.seen) \cup Range(page)
        /\ Range(page) \subseteq rest
        /\ n <= ActorPage => Range(page) = rest
        /\ rest # {} => /\ page[Len(page)] \in rest
                        /\ \A x \in Range(seen) : x <= page[Len(page)]
        /\ n > ActorPage => rest # {} /\ \A x \in rest \ Range(page) : page[Len(page)] < x
    <2>1. FirstNumbers(page, rest, ActorPage)
      BY DEF SliceActorPage, InPathOrder, FirstNumbers
    <2> HIDE DEF page
    <2> QED BY <1>1, <2>1, PageTaken
  <1>3. new = [s EXCEPT !.seen = seen, !.at = at, !.last = last]
    BY DEF Answered
  <1> HIDE DEF page, seen, new
  <1>4. last \in Nat /\ (rest # {} => last = page[Len(page)])
    BY <1>1, <1>2 DEF Last
  <1>5. at \in {"paging", "done"}
    OBVIOUS
  <1> HIDE DEF at, last
  <1>6. new = [at |-> at, tag |-> s.tag, last |-> last, steady |-> s.steady, seen |-> seen]
    BY <1>3 DEF SearchRecord
  <1>7. new \in SearchRecord
    BY <1>1, <1>2, <1>4, <1>5, <1>6 DEF SearchRecord
  <1>8. ASSUME at = "paging"
        PROVE  /\ \A x \in Range(seen) : x <= last
               /\ \A a \in s.steady : a <= last => a \in Range(seen)
    <2>1. n > ActorPage /\ rest # {}
      BY <1>2, <1>8 DEF at
    <2>2. \A x \in Range(seen) : x <= last
      BY <1>2, <1>4, <2>1
    <2>3. ASSUME NEW a \in s.steady, a <= last, a \notin Range(seen) PROVE FALSE
      <3>1. a \in rest \ Range(page)
        BY <2>3, <1>2
      <3>2. last < a
        BY <3>1, <2>1, <1>2, <1>4
      <3>3. a \in Nat
        BY <1>1
      <3> QED BY <2>3, <3>2, <3>3, <1>4
    <2> QED BY <2>2, <2>3
  <1>9. ASSUME at = "done" PROVE s.steady \subseteq Range(seen)
    <2>1. n <= ActorPage
      BY <1>1, <1>9 DEF at
    <2> QED BY <2>1, <1>2
  <1>10. SearchOK(new)
    BY <1>2, <1>6, <1>8, <1>9 DEF SearchOK
  <1> QED BY <1>7, <1>10 DEF new

\* The tools change the typed actors; Manage keeps the search, but for what is
\* no longer owed.
LEMMA ActorsStayTyped ==
  ASSUME ActorsTyped, OutlinerNext
  PROVE  ActorsTyped'
  <1> DEFINE Record == [folder : Seq(STRING), tagged : BOOLEAN]
  <1>0. /\ DOMAIN acts \subseteq Paths /\ \A a \in DOMAIN acts : acts[a] \in Record
        /\ folders \subseteq Seq(STRING) \ {NoFolder}
    BY DEF ActorsTyped
  <1>1. \A f : WithFronts(f) \subseteq Seq(STRING) \ {NoFolder}
    BY FoldersAreNames DEF WithFronts
  <1>2. Spawned \subseteq Record
    BY FoldersAreNames DEF Spawned
  <1>3. CASE SpawnActor
    BY <1>0, <1>1, <1>2, <1>3 DEF SpawnActor, ActorsTyped
  <1>4. CASE DestroyActor
    BY <1>0, <1>4 DEF DestroyActor, ActorsTyped
  <1>5. CASE SetFolder \/ FolderSetActor
    <2>1. PICK a \in DOMAIN acts, f \in Folders :
            acts' = [acts EXCEPT ![a].folder = f] /\ folders' = folders \cup WithFronts(f)
      BY <1>5 DEF SetFolder, FolderSetActor
    <2>2. f \in Seq(STRING)
      BY FoldersAreNames
    <2>3. \A b \in DOMAIN acts : acts'[b] \in Record
      BY <1>0, <2>1, <2>2
    <2> QED BY <1>0, <1>1, <2>1, <2>3 DEF ActorsTyped
  <1>6. CASE SelectInEditor \/ CreateFolder
    BY <1>0, <1>1, <1>6 DEF SelectInEditor, CreateFolder, ActorsTyped
  <1>7. CASE DeleteFolder
    <2>1. PICK f \in folders, moving \in BOOLEAN : DeleteFolderAt(f, moving)
      BY <1>7 DEF DeleteFolder
    <2>2. f \in Seq(STRING) /\ f # <<>>
      BY <1>0 DEF NoFolder
    <2>3. ASSUME NEW g \in Seq(STRING) PROVE Lifted(f, g) \in Seq(STRING)
      <3>1. CASE ~IsPrefix(f, g)
        BY <3>1 DEF Lifted
      <3>2. CASE IsPrefix(f, g)
        <4>1. Front(f) \in Seq(STRING)
          BY <2>2 DEF Front
        <4>2. SubSeq(g, Len(f) + 1, Len(g)) \in Seq(STRING)
          BY <2>2
        <4> QED BY <3>2, <4>1, <4>2 DEF Lifted
      <3> QED BY <3>1, <3>2
    <2>4. folders' \subseteq Seq(STRING) \ {NoFolder}
      BY <1>0, <1>1, <2>1 DEF DeleteFolderAt, FoldersAfter
    <2>5. CASE moving
      <3>1. acts' = [a \in DOMAIN acts |-> [acts[a] EXCEPT !.folder = Lifted(f, acts[a].folder)]]
        BY <2>1, <2>5 DEF DeleteFolderAt
      <3>2. \A a \in DOMAIN acts : acts'[a] \in Record
        BY <1>0, <2>3, <3>1
      <3> QED BY <1>0, <2>4, <3>1, <3>2 DEF ActorsTyped
    <2>6. CASE ~moving
      BY <1>0, <2>1, <2>4, <2>6 DEF DeleteFolderAt, ActorsTyped
    <2> QED BY <2>5, <2>6
  <1>8. CASE Find
    BY <1>0, <1>8 DEF Find, ActorsTyped
  <1> QED BY <1>3, <1>4, <1>5, <1>6, <1>7, <1>8 DEF OutlinerNext, Manage

LEMMA OutlinerInvariant == Spec => []OutlinerInv
  <1>1. Init => OutlinerInv
    <2> SUFFICES ASSUME Init PROVE OutlinerInv
      OBVIOUS
    <2>1. acts = <<>> /\ folders = {} /\ search = NoSearch
      BY DEF Init, OutlinerInit
    <2>2. ActorsTyped
      BY <2>1 DEF ActorsTyped
    <2>3. NoSearch \in SearchRecord /\ NoSearch.at = "idle"
      BY DEF NoSearch, SearchRecord
    <2> QED BY <2>1, <2>2, <2>3 DEF OutlinerInv, SearchOK
  <1>2. OutlinerInv /\ [Next]_vars => OutlinerInv'
    <2> SUFFICES ASSUME OutlinerInv, OutlinerNext \/ UNCHANGED outlinerVars PROVE OutlinerInv'
      BY OutlinerFrame
    <2>0. ActorsTyped /\ search \in SearchRecord /\ SearchOK(search)
      BY DEF OutlinerInv
    <2>1. CASE UNCHANGED outlinerVars
      <3>1. UNCHANGED <<acts, folders, search>>
        BY <2>1 DEF outlinerVars
      <3> QED BY <2>0, <3>1 DEF OutlinerInv, ActorsTyped, SearchOK, FindMatches
    <2>2. CASE Manage
      <3>1. ActorsTyped'
        BY <2>0, <2>2, ActorsStayTyped DEF OutlinerNext
      <3>2. CASE search.at # "paging"
        <4>1. search' = NoSearch
          BY <2>2, <3>2 DEF Manage, Steady
        <4>2. NoSearch \in SearchRecord /\ NoSearch.at = "idle"
          BY DEF NoSearch, SearchRecord
        <4>3. SearchOK(search)'
          BY <4>1, <4>2 DEF SearchOK
        <4> QED BY <3>1, <4>1, <4>2, <4>3 DEF OutlinerInv
      <3>3. CASE search.at = "paging"
        <4> DEFINE still == search.steady \cap {a \in DOMAIN acts' : search.tag => acts'[a].tagged}
        <4>1. search' = [search EXCEPT !.steady = still]
          BY <2>2, <3>3 DEF Manage, Steady
        <4>2. still \subseteq search.steady /\ \A a \in still : a \in DOMAIN acts' /\ (search.tag => acts'[a].tagged)
          OBVIOUS
        <4> HIDE DEF still
        <4>3. /\ search' \in SearchRecord /\ search'.at = search.at /\ search'.seen = search.seen
              /\ search'.last = search.last /\ search'.tag = search.tag /\ search'.steady = still
          BY <2>0, <4>1, <4>2 DEF SearchRecord
        <4>4. still \subseteq FindMatches(search.tag)'
          BY <4>2, <4>3 DEF FindMatches
        <4>5. SearchOK(search)'
          BY <2>0, <3>3, <4>2, <4>3, <4>4 DEF SearchOK
        <4> QED BY <3>1, <4>3, <4>5 DEF OutlinerInv
      <3> QED BY <3>2, <3>3
    <2>3. CASE Find
      <3>0. UNCHANGED <<acts, folders>> /\ (FindFirst \/ FindNext)
        BY <2>3 DEF Find
      <3>1. ActorsTyped'
        BY <2>0, <3>0 DEF ActorsTyped
      <3>2. ASSUME NEW s, s \in SearchRecord, SearchOK(s), search' = s PROVE OutlinerInv'
        <4>1. FindMatches(s.tag)' = FindMatches(s.tag)
          BY <3>0 DEF FindMatches
        <4>2. SearchOK(search)'
          BY <3>0, <3>2 DEF SearchOK, FindMatches
        <4> QED BY <3>1, <3>2, <4>2 DEF OutlinerInv
      <3>3. \A tag : FindMatches(tag) \in SUBSET Paths
        BY <2>0 DEF FindMatches, ActorsTyped
      <3>4. CASE FindFirst
        <4>1. PICK tag \in BOOLEAN :
                search' = Answered([NoSearch EXCEPT !.tag = tag, !.steady = FindMatches(tag)], FindMatches(tag))
          BY <3>4 DEF FindFirst
        <4> DEFINE found == FindMatches(tag)
                   none == <<>>
                   s == [NoSearch EXCEPT !.tag = tag, !.steady = found]
        <4>2. none \in Seq(Nat) /\ Len(none) = 0 /\ Range(none) = {}
          BY DEF Range
        <4>3. found \in SUBSET Paths
          BY <3>3
        <4>4. NoSearch \in SearchRecord /\ NoSearch.seen = none
          BY DEF NoSearch, SearchRecord
        <4> HIDE DEF none, found
        <4>5. s \in SearchRecord /\ s.seen = none /\ s.steady = found /\ s.tag = tag
          BY <4>3, <4>4 DEF SearchRecord
        <4> HIDE DEF s
        <4>6. Ascending(s.seen)
          BY <4>2, <4>5 DEF Ascending
        <4>7. Answered(s, found) \in SearchRecord /\ SearchOK(Answered(s, found))
          <5>1. \A x \in Range(s.seen) : \A y \in found : x < y
            BY <4>2, <4>5
          <5>2. s.steady \subseteq Range(s.seen) \cup found /\ s.steady \subseteq FindMatches(s.tag)
            BY <4>5 DEF found
          <5> QED BY <4>3, <4>5, <4>6, <5>1, <5>2, AnsweredKeeps
        <4>8. search' = Answered(s, found)
          BY <4>1 DEF s, found
        <4> QED BY <4>7, <4>8, <3>2
      <3>5. CASE FindNext
        <4>1. PICK tag \in BOOLEAN :
                search' = IF tag = search.tag
                          THEN Answered(search, PastLast(FindMatches(tag), search.last))
                          ELSE [NoSearch EXCEPT !.at = "stale"]
          BY <3>5 DEF FindNext
        <4>2. search.at = "paging"
          BY <3>5 DEF FindNext
        <4>3. CASE tag = search.tag
          <5> DEFINE rest == PastLast(FindMatches(tag), search.last)
          <5>1. /\ rest \in SUBSET Paths /\ \A y \in rest : y > search.last
                /\ \A a \in FindMatches(tag) : a > search.last => a \in rest
            BY <3>3 DEF PastLast
          <5>2. search.last \in Nat /\ search.seen \in Seq(Nat) /\ search.steady \subseteq Paths
            BY <2>0 DEF SearchRecord
          <5>3. /\ Ascending(search.seen) /\ \A x \in Range(search.seen) : x <= search.last
                /\ \A a \in search.steady : a <= search.last => a \in Range(search.seen)
                /\ search.steady \subseteq FindMatches(search.tag)
            BY <2>0, <4>2 DEF SearchOK
          <5>4. Range(search.seen) \subseteq Nat
            BY <5>2, RangeElements
          <5> HIDE DEF rest
          <5>5. \A x \in Range(search.seen) : \A y \in rest : x < y
            <6>1. rest \subseteq Nat
              BY <5>1, PathsAreNumbers
            <6> QED BY <5>1, <5>2, <5>3, <5>4, <6>1
          <5>6. search.steady \subseteq Range(search.seen) \cup rest
            <6>0. search.last \in Nat /\ search.steady \subseteq Nat
              BY <5>2, PathsAreNumbers
            <6>1. \A a \in search.steady : a \in Nat /\ (a <= search.last \/ a > search.last)
              BY <6>0
            <6> QED BY <4>3, <5>1, <5>3, <6>1
          <5>7. Answered(search, rest) \in SearchRecord /\ SearchOK(Answered(search, rest))
            BY <2>0, <5>1, <5>3, <5>5, <5>6, AnsweredKeeps
          <5>8. search' = Answered(search, rest)
            BY <4>1, <4>3 DEF rest
          <5> QED BY <5>7, <5>8, <3>2
        <4>4. CASE tag # search.tag
          <5>0. NoSearch \in SearchRecord
            BY DEF NoSearch, SearchRecord
          <5>1. [NoSearch EXCEPT !.at = "stale"] \in SearchRecord /\ [NoSearch EXCEPT !.at = "stale"].at = "stale"
            BY <5>0 DEF SearchRecord
          <5>2. search' = [NoSearch EXCEPT !.at = "stale"]
            BY <4>1, <4>4
          <5>3. SearchOK([NoSearch EXCEPT !.at = "stale"])
            BY <5>1 DEF SearchOK
          <5> QED BY <5>1, <5>2, <5>3, <3>2
        <4> QED BY <4>3, <4>4
      <3> QED BY <3>0, <3>4, <3>5
    <2> QED BY <2>1, <2>2, <2>3 DEF OutlinerNext
  <1> QED BY <1>1, <1>2, PTL DEF Spec

\* A folder path that starts with f once f's name is taken out of it had that
\* name twice.
LEMMA LiftedBack ==
  ASSUME NEW f \in Seq(STRING), f # <<>>, NEW g \in Seq(STRING), IsPrefix(f, Lifted(f, g))
  PROVE  IsPrefix(Append(f, Last(f)), g)
  <1> DEFINE n == Len(f)
             m == Len(g)
  <1>1. n \in Nat /\ n > 0 /\ m \in Nat
    OBVIOUS
  <1>2. IsPrefix(f, g)
    BY DEF Lifted
  <1>3. n <= m /\ \A i \in 1 .. n : f[i] = g[i]
    <2>1. n <= m /\ SubSeq(f, 1, n) = SubSeq(g, 1, n)
      BY <1>2 DEF IsPrefix
    <2>2. \A i \in 1 .. n : SubSeq(f, 1, n)[i] = f[i] /\ SubSeq(g, 1, n)[i] = g[i]
      BY <1>1, <2>1
    <2> QED BY <2>1, <2>2
  <1> DEFINE front == SubSeq(f, 1, n - 1)
             tail == SubSeq(g, n + 1, m)
             h == front \o tail
  <1>4. Lifted(f, g) = h
    BY <1>2 DEF Lifted, Front
  <1>5. /\ front \in Seq(STRING) /\ Len(front) = n - 1
        /\ tail \in Seq(STRING) /\ Len(tail) = m - n
        /\ m - n > 0 => tail[1] = g[n + 1]
    <2>1. front \in Seq(STRING) /\ Len(front) = n - 1
      <3>1. \A k \in 1 .. n - 1 : f[k] \in STRING
        BY <1>1
      <3>2. 1 \in Int /\ n - 1 \in Int
        BY <1>1
      <3>3. front \in Seq(STRING) /\ Len(front) = IF 1 <= n - 1 THEN n - 1 - 1 + 1 ELSE 0
        BY ONLY <3>1, <3>2, SubSeqProperties
      <3> HIDE DEF front, n
      <3>4. (IF 1 <= n - 1 THEN n - 1 - 1 + 1 ELSE 0) = n - 1
        BY ONLY <1>1
      <3> QED BY ONLY <3>3, <3>4
    <2>2. tail \in Seq(STRING) /\ Len(tail) = m - n /\ \A i \in 1 .. m - n : tail[i] = g[n + i]
      <3>1. \A k \in n + 1 .. m : g[k] \in STRING /\ n + 1 \in Int /\ m \in Int
        BY <1>1
      <3>2. /\ tail \in Seq(STRING) /\ Len(tail) = IF n + 1 <= m THEN m - (n + 1) + 1 ELSE 0
            /\ \A i \in 1 .. m - (n + 1) + 1 : tail[i] = g[n + 1 + i - 1]
        BY <1>1, <3>1, SubSeqProperties
      <3> HIDE DEF tail
      <3> QED BY <1>1, <1>3, <3>2
    <2> HIDE DEF front, tail
    <2>3. m - n > 0 => 1 \in 1 .. m - n
      BY <1>1
    <2> QED BY <2>1, <2>2, <2>3
  <1> HIDE DEF front, tail
  <1>6. h \in Seq(STRING) /\ Len(h) = m - 1 /\ (m - n > 0 => h[n] = tail[1])
    <2>1. h \in Seq(STRING) /\ Len(h) = Len(front) + Len(tail)
          /\ \A i \in 1 .. Len(front) + Len(tail) :
               h[i] = IF i <= Len(front) THEN front[i] ELSE tail[i - Len(front)]
      BY <1>5, ConcatProperties, Zenon
    <2> HIDE DEF h
    <2>2. Len(front) + Len(tail) = m - 1 /\ n - Len(front) = 1 /\ ~(n <= Len(front))
      BY <1>1, <1>3, <1>5
    <2>3. m - n > 0 => n \in 1 .. m - 1
      BY <1>1
    <2> QED BY <2>1, <2>2, <2>3
  <1> HIDE DEF h
  <1>7. n <= m - 1 /\ h[n] = f[n]
    <2>1. n <= Len(h) /\ SubSeq(f, 1, n) = SubSeq(h, 1, n)
      BY <1>4 DEF IsPrefix
    <2>2. SubSeq(f, 1, n)[n] = f[n] /\ SubSeq(h, 1, n)[n] = h[n]
      BY <1>1, <1>6, <2>1
    <2> QED BY <1>6, <2>1, <2>2
  <1>8. g[n + 1] = f[n]
    BY <1>1, <1>5, <1>6, <1>7
  <1> DEFINE p == Append(f, f[n])
  <1>9. p \in Seq(STRING) /\ Len(p) = n + 1 /\ \A i \in 1 .. n + 1 : p[i] = g[i]
    BY <1>1, <1>3, <1>8
  <1>10. SubSeq(p, 1, n + 1) = SubSeq(g, 1, n + 1)
    <2> HIDE DEF p
    <2> QED BY <1>1, <1>7, <1>9
  <1> QED BY <1>1, <1>7, <1>9, <1>10 DEF IsPrefix, Last

\* OutlinerKeepsActors, a property of the run WorldSurfaces: the pages of a
\* search show every actor that matched all the while, each once, and
\* folder.delete leaves none behind in the folder, but one from a subfolder of
\* the same name.
THEOREM OutlinerLosesNothing == Spec => OutlinerKeepsActors
  <1>1. OutlinerInv => SearchComplete
    <2> SUFFICES ASSUME OutlinerInv, search.at = "done"
                 PROVE  /\ search.steady \subseteq ToSet(search.seen)
                        /\ \A i, j \in DOMAIN search.seen : i # j => search.seen[i] # search.seen[j]
      BY DEF SearchComplete
    <2>1. search.seen \in Seq(Nat) /\ Ascending(search.seen) /\ search.steady \subseteq Range(search.seen)
      BY DEF OutlinerInv, SearchRecord, SearchOK
    <2>2. ToSet(search.seen) = Range(search.seen)
      BY DEF ToSet, Range
    <2>3. DOMAIN search.seen = 1 .. Len(search.seen) /\ \A i \in 1 .. Len(search.seen) : search.seen[i] \in Nat
      BY <2>1
    <2>4. \A i, j \in 1 .. Len(search.seen) : i < j => search.seen[i] < search.seen[j]
      BY <2>1 DEF Ascending
    <2>5. \A i, j \in 1 .. Len(search.seen) : i # j => search.seen[i] # search.seen[j]
      BY <2>3, <2>4
    <2> QED BY <2>1, <2>2, <2>3, <2>5
  <1>2. OutlinerInv => DeletedFolderIsEmpty
    <2> SUFFICES ASSUME OutlinerInv, NEW f \in folders, DeleteFolderAt(f, TRUE),
                        NEW a \in DOMAIN acts, IsPrefix(f, acts'[a].folder)
                 PROVE  IsPrefix(Append(f, Last(f)), acts[a].folder)
      BY DEF DeletedFolderIsEmpty
    <2>1. /\ f \in Seq(STRING) /\ f # <<>> /\ acts[a] \in [folder : Seq(STRING), tagged : BOOLEAN]
      BY DEF OutlinerInv, ActorsTyped, NoFolder
    <2>2. acts' = [b \in DOMAIN acts |-> [acts[b] EXCEPT !.folder = Lifted(f, acts[b].folder)]]
      BY DEF DeleteFolderAt
    <2>3. acts'[a].folder = Lifted(f, acts[a].folder)
      BY <2>1, <2>2
    <2>4. acts[a].folder \in Seq(STRING)
      BY <2>1
    <2> QED BY <2>1, <2>3, <2>4, LiftedBack
  <1> QED BY <1>1, <1>2, OutlinerInvariant, PTL DEF OutlinerKeepsActors

------------------------------------------------------------------------------
(* Behaviour trees.                                                         *)

\* The tree is changed by ai.bt.* alone.
LEMMA TreeFrame ==
  ASSUME [Next]_vars
  PROVE  TreeNext \/ UNCHANGED treeVars
  <1> USE DEF OthersStill
  <1>1. CASE TreeStep
    BY <1>1 DEF TreeStep
  <1>2. CASE UNCHANGED vars
    BY <1>2 DEF vars
  <1> QED
    BY <1>1, <1>2
    DEF Next, SceneStep, OutlinerStep, ComponentStep, LevelStep, BatchStep, PlayStep,
        AgentStep, InsightsStep, StatStep, TestStep, ViewStep, DrawStep, SourceControlStep, DiffStep,
        CodingStep, CfgStep, CollisionStep, TagStep, PlayWorld, UserSaves

\* The root is a node or missing and every child is a node.
TreeInv ==
  /\ rootNode \in Nodes \cup {NoNode}
  /\ kids \in [Composites -> Seq(Nodes)]

\* The child in a slot of any tree.
ChildIn(tree, n, i) == IF n \in Composites /\ i \in DOMAIN tree[n] THEN tree[n][i] ELSE NoNode

IsDown(f, top, tree, way) ==
  f = [k \in 0 .. Len(way) |-> IF k = 0 THEN top ELSE ChildIn(tree, f[k - 1], way[k])]

\* The nodes that a way passes.
Down(top, tree, way) == CHOOSE f : IsDown(f, top, tree, way)

\* A way has nodes that it passes, and leads to the last one.
LEMMA DownUnfolds ==
  ASSUME NEW top \in Nodes \cup {NoNode}, NEW tree \in [Composites -> Seq(Nodes)], NEW way \in Ways
  PROVE  LET f == Down(top, tree, way) IN
         /\ Len(way) \in Nat
         /\ f \in [0 .. Len(way) -> Nodes \cup {NoNode}]
         /\ f[0] = top
         /\ \A k \in 1 .. Len(way) : f[k] = ChildIn(tree, f[k - 1], way[k])
  <1> DEFINE X == Nodes \cup {NoNode}
             n == Len(way)
             step == [k \in 1 .. n |-> [x \in X |-> ChildIn(tree, x, way[k])]]
  <1>1. n \in Nat
    <2>1. PICK m \in 0 .. TreeDepth : way \in [1 .. m -> 1 .. KidsMax]
      BY DEF Ways
    <2>2. m \in Nat /\ DOMAIN way = 1 .. m
      BY <2>1
    <2>3. \A K : way \in [1 .. m -> K] => way \in Seq(K)
      BY ONLY <2>2
    <2>4. way \in Seq(1 .. KidsMax)
      BY ONLY <2>1, <2>3
    <2> QED BY ONLY <2>4
  <1>2. \A i : \A x \in X : ChildIn(tree, x, i) \in X
    <2> SUFFICES ASSUME NEW x \in Composites, NEW i \in DOMAIN tree[x] PROVE tree[x][i] \in Nodes
      BY DEF ChildIn
    <2>1. tree[x] \in Seq(Nodes)
      OBVIOUS
    <2> QED BY <2>1
  <1>3. step \in [1 .. n -> [X -> X]]
    BY <1>2
  <1>4. PICK f : Iterates(f, X, top, n, step)
    <2> HIDE DEF step, n, X
    <2>1. top \in X
      BY DEF X
    <2> QED BY <1>1, <1>3, <2>1, Iterated
  <1>5. f \in [0 .. n -> X] /\ f[0] = top /\ \A k \in 1 .. n : f[k] = ChildIn(tree, f[k - 1], way[k])
    <2>1. f \in [0 .. n -> X] /\ f[0] = top /\ \A k \in 1 .. n : f[k] = step[k][f[k - 1]]
      BY <1>4 DEF Iterates
    <2> HIDE DEF X, n
    <2>2. ASSUME NEW k \in 1 .. n PROVE f[k] = ChildIn(tree, f[k - 1], way[k])
      <3>1. k - 1 \in 0 .. n
        BY <1>1
      <3>2. f[k - 1] \in X
        BY <2>1, <3>1
      <3> QED BY <2>1, <3>2
    <2> QED BY <2>1, <2>2
  <1>6. IsDown(f, top, tree, way)
    <2> DEFINE g == [k \in 0 .. n |-> IF k = 0 THEN top ELSE ChildIn(tree, f[k - 1], way[k])]
    <2>1. \A k \in 0 .. n : f[k] = g[k]
      BY <1>1, <1>5
    <2>2. f = g
      BY <1>5, <2>1
    <2> QED BY <2>2 DEF IsDown
  <1> DEFINE d == Down(top, tree, way)
  <1>7. d = [k \in 0 .. n |-> IF k = 0 THEN top ELSE ChildIn(tree, d[k - 1], way[k])]
    BY <1>6 DEF Down, IsDown
  <1> HIDE DEF d, step
  <1>8. d[0] = top /\ \A k \in 1 .. n : d[k] = ChildIn(tree, d[k - 1], way[k])
    BY <1>1, <1>7
  <1>9. \A k \in 0 .. n : d[k] \in X
    <2> DEFINE S == {k \in Nat : k <= n => d[k] \in X}
    <2>1. 0 \in S
      BY <1>8
    <2>2. ASSUME NEW k \in Nat, k \in S PROVE k + 1 \in S
      <3> SUFFICES ASSUME k + 1 <= n PROVE d[k + 1] \in X
        OBVIOUS
      <3>1. k + 1 \in 1 .. n /\ k + 1 - 1 = k /\ d[k] \in X
        BY <1>1, <2>2
      <3>2. d[k + 1] = ChildIn(tree, d[k], way[k + 1])
        BY <1>8, <3>1
      <3> HIDE DEF X
      <3> QED BY <1>2, <3>1, <3>2
    <2> HIDE DEF S
    <2>3. \A k \in Nat : k \in S
      BY <2>1, <2>2, SetInduction
    <2> QED BY <1>1, <2>3 DEF S
  <1> QED
    <2>1. d \in [0 .. n -> X]
      <3> HIDE DEF X, n
      <3> QED BY <1>7, <1>9
    <2> QED BY <1>1, <1>8, <2>1 DEF d

\* The node that a way leads to, before and after a step.
LEMMA AtIsDown ==
  ASSUME NEW way \in Ways
  PROVE  /\ At(way) = Down(rootNode, kids, way)[Len(way)]
         /\ At(way)' = Down(rootNode', kids', way)[Len(way)]
  BY DEF At, Child, Down, IsDown, ChildIn

\* A tree that has gained children keeps the ways that led to a node.
LEMMA WaysKept ==
  ASSUME NEW top \in Nodes \cup {NoNode}, NEW top2 \in Nodes \cup {NoNode},
         NEW tree \in [Composites -> Seq(Nodes)], NEW tree2 \in [Composites -> Seq(Nodes)],
         top # NoNode => top2 = top,
         \A c \in Composites : \A i : i \in DOMAIN tree[c] => i \in DOMAIN tree2[c] /\ tree2[c][i] = tree[c][i],
         NEW way \in Ways, Down(top, tree, way)[Len(way)] # NoNode
  PROVE  Down(top2, tree2, way)[Len(way)] = Down(top, tree, way)[Len(way)]
  <1> DEFINE n == Len(way)
             f == Down(top, tree, way)
             g == Down(top2, tree2, way)
  <1>1. /\ n \in Nat
        /\ f[0] = top /\ \A k \in 1 .. n : f[k] = ChildIn(tree, f[k - 1], way[k])
        /\ g[0] = top2 /\ \A k \in 1 .. n : g[k] = ChildIn(tree2, g[k - 1], way[k])
    BY DownUnfolds
  <1> DEFINE S == {k \in Nat : k <= n /\ f[k] # NoNode => g[k] = f[k]}
  <1> HIDE DEF f, g, n
  <1>2. 0 \in S
    BY <1>1
  <1>3. ASSUME NEW k \in Nat, k \in S PROVE k + 1 \in S
    <2> SUFFICES ASSUME k + 1 <= n, f[k + 1] # NoNode PROVE g[k + 1] = f[k + 1]
      OBVIOUS
    <2>1. k + 1 \in 1 .. n /\ k + 1 - 1 = k /\ k <= n
      BY <1>1
    <2>2. f[k + 1] = ChildIn(tree, f[k], way[k + 1]) /\ g[k + 1] = ChildIn(tree2, g[k], way[k + 1])
      BY <1>1, <2>1
    <2>3. f[k] \in Composites /\ way[k + 1] \in DOMAIN tree[f[k]]
      BY <2>2 DEF ChildIn
    <2>4. f[k] # NoNode
      BY <2>3, TreeNodes DEF Nodes
    <2>5. g[k] = f[k]
      BY <1>3, <2>1, <2>4
    <2> QED BY <2>2, <2>3, <2>5 DEF ChildIn
  <1> HIDE DEF S
  <1>4. n \in S
    BY <1>1, <1>2, <1>3, SetInduction
  <1> QED BY <1>4 DEF S, f, g, n


\* A tree has nodes in its slots after any request.
LEMMA TreeInvKept ==
  ASSUME TreeInv, TreeNext \/ UNCHANGED treeVars
  PROVE  TreeInv'
  <1>0. rootNode \in Nodes \cup {NoNode} /\ kids \in [Composites -> Seq(Nodes)]
    BY DEF TreeInv
  <1>1. ASSUME UNCHANGED <<rootNode, kids>> PROVE TreeInv'
    BY <1>1 DEF TreeInv
  <1>2. CASE AddNode
    <2>1. PICK n \in Nodes :
             \/ rootNode' = n /\ UNCHANGED kids
             \/ \E way \in Ways : At(way) \in Composites /\ kids' = Grown(At(way), n) /\ UNCHANGED rootNode
      BY <1>2 DEF AddNode
    <2>2. ASSUME NEW p \in Composites, kids' = Grown(p, n) PROVE kids' \in [Composites -> Seq(Nodes)]
      <3>1. Append(kids[p], n) \in Seq(Nodes)
        BY <1>0
      <3> QED BY <1>0, <2>2, <3>1 DEF Grown
    <2> QED BY <1>0, <2>1, <2>2 DEF TreeInv
  <1>3. ASSUME NEW n, NEW left \in [Composites -> Seq(Nodes)], Dropped(n, left)
        PROVE  kids' \in [Composites -> Seq(Nodes)]
    BY <1>3 DEF Dropped
  <1>4. CASE RemoveRoot
    BY <1>0, <1>3, <1>4 DEF RemoveRoot, TreeInv
  <1>5. CASE RemoveChild
    <2>1. PICK p \in Ways, i \in 1 .. KidsMax :
             /\ Child(At(p), i) # NoNode
             /\ Dropped(Child(At(p), i), [kids EXCEPT ![At(p)] = RemoveAt(@, i)])
             /\ UNCHANGED rootNode
      BY <1>5 DEF RemoveChild
    <2> DEFINE c == At(p)
               left == [kids EXCEPT ![c] = RemoveAt(@, i)]
    <2> HIDE DEF c
    <2>2. c \in Composites /\ i \in DOMAIN kids[c]
      BY <2>1 DEF Child, c
    <2>3. RemoveAt(kids[c], i) \in Seq(Nodes)
      <3>1. kids[c] \in Seq(Nodes)
        BY <1>0, <2>2
      <3>2. i \in 1 .. Len(kids[c]) /\ Len(kids[c]) \in Nat
        BY <2>2, <3>1
      <3> QED BY <3>1, <3>2 DEF RemoveAt
    <2>4. left \in [Composites -> Seq(Nodes)]
      BY <1>0, <2>2, <2>3
    <2>5. Dropped(Child(c, i), left) /\ UNCHANGED rootNode
      BY <2>1 DEF c
    <2> HIDE DEF left
    <2>6. kids' \in [Composites -> Seq(Nodes)]
      BY <1>3, <2>4, <2>5
    <2> QED BY <1>0, <2>5, <2>6 DEF TreeInv
  <1>6. CASE RemoveDecorator \/ RemoveService
    BY <1>1, <1>6 DEF RemoveDecorator, RemoveService
  <1>7. CASE AddNodeRefused \/ AddDecorator \/ AddService \/ SetNodeProperty \/ UNCHANGED treeVars
    BY <1>1, <1>7 DEF AddNodeRefused, AddDecorator, AddService, SetNodeProperty, treeVars
  <1> QED BY <1>2, <1>4, <1>5, <1>6, <1>7 DEF TreeNext, RemoveNode

\* WaysLast, a property of the run WorldSurfaces: what a node path of a reply
\* leads to stays there until ai.bt.remove_node.
THEOREM NodePathsLast == Spec => WaysLast
  <1>1. Init => TreeInv
    BY DEF Init, TreeInit, TreeInv, Start, Nodes
  <1>2. TreeInv /\ [Next]_vars => TreeInv'
    BY TreeFrame, TreeInvKept
  <1>3. TreeInv /\ TreeInv' /\ [Next]_vars
        => [RemoveNode \/ \A way \in Ways : At(way) # NoNode => At(way)' = At(way)]_treeVars
    <2> SUFFICES ASSUME TreeInv, TreeInv', TreeNext, ~RemoveNode, NEW way \in Ways, At(way) # NoNode
                 PROVE  At(way)' = At(way)
      BY TreeFrame
    <2>1. /\ rootNode \in Nodes \cup {NoNode} /\ kids \in [Composites -> Seq(Nodes)]
          /\ rootNode' \in Nodes \cup {NoNode} /\ kids' \in [Composites -> Seq(Nodes)]
      BY DEF TreeInv
    <2>2. rootNode # NoNode => rootNode' = rootNode
      BY DEF TreeNext, AddNode, AddNodeRefused, AddDecorator, AddService, SetNodeProperty, treeVars
    <2>3. ASSUME NEW c \in Composites, NEW i, i \in DOMAIN kids[c]
          PROVE  i \in DOMAIN kids'[c] /\ kids'[c][i] = kids[c][i]
      <3>1. CASE UNCHANGED kids
        BY <2>3, <3>1
      <3>2. CASE AddNode /\ kids' # kids
        <4>1. PICK n \in Nodes, w \in Ways : At(w) \in Composites /\ kids' = Grown(At(w), n)
          BY <3>2 DEF AddNode
        <4>2. CASE c # At(w)
          BY <2>1, <2>3, <4>1, <4>2 DEF Grown
        <4>3. CASE c = At(w)
          <5>1. kids'[c] = Append(kids[c], n)
            BY <2>1, <4>1, <4>3 DEF Grown
          <5>2. kids[c] \in Seq(Nodes)
            BY <2>1
          <5> QED BY <2>3, <5>1, <5>2
        <4> QED BY <4>2, <4>3
      <3> QED
        BY <3>1, <3>2 DEF TreeNext, AddNodeRefused, AddDecorator, AddService, SetNodeProperty, treeVars
    <2>4. Down(rootNode, kids, way)[Len(way)] # NoNode
      BY AtIsDown
    <2>5. Down(rootNode', kids', way)[Len(way)] = Down(rootNode, kids, way)[Len(way)]
      BY <2>1, <2>2, <2>3, <2>4, WaysKept
    <2> QED BY <2>5, AtIsDown
  <1> QED BY <1>1, <1>2, <1>3, PTL DEF Spec, WaysLast
=============================================================================
