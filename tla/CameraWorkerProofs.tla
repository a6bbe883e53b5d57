-------------------------- MODULE CameraWorkerProofs --------------------------
(***************************************************************************)
(* Proofs about CameraWorker: the crop cache holds the best crop of each   *)
(* visit and nothing else, and the first retry after frames is quick, for  *)
(* any number of people, any TTL and any backoff.                          *)
(***************************************************************************)
EXTENDS CameraWorker, TLAPS

\* What is being shipped: nothing while frames are read, one track at a time, each
\* id once, and none that is active again.
ShipInv ==
    /\ pc \in {"read", "sleep"} => toShip = {}
    /\ pc # "embed" => current = {}
    /\ \A j, k \in current : j = k
    /\ \A j, k \in Unshipped : j.id = k.id => j = k
    /\ toShip \cap current = {}
    /\ \A k \in Unshipped : k.id \notin DOMAIN silent

\* An open source, and one that has read a frame since its last sleep, has the
\* shortest backoff.
SourceInv ==
    /\ nap = 0 => backoff = 1
    /\ cap # "closed" => nap = 0

IInv == TypeOK /\ ShipInv /\ CropsOnlyOfTracks /\ CropIsBestOfVisit /\ SourceInv

\* The smaller of two numbers in range is in range, and so is an age that grows.
LEMMA Bounds ==
    /\ \A a, b \in Nat : Smaller(a, b) \in Nat /\ Smaller(a, b) <= b
                         /\ (a >= 1 /\ b >= 1 => Smaller(a, b) >= 1)
    /\ \A m \in Nat : \A a, b \in 0..m : Larger(a, b) \in 0..m
    /\ \A m \in Nat : \A a \in 0..m+1 : Older(a, m) \in 0..m+1
  BY DEF Smaller, Larger, Older

\* A backoff, reset or doubled, stays within its limits.
LEMMA BackoffBounds ==
    ASSUME TypeOK
    PROVE  AfterOpen \in 1..MaxBackoff /\ Doubled \in 1..MaxBackoff
  <1>1. AfterOpen \in 1..MaxBackoff
    BY WorkerAssumption DEF TypeOK, AfterOpen
  <1>2. 2 * AfterOpen \in Nat /\ 2 * AfterOpen >= 1
    BY <1>1, WorkerAssumption
  <1>. QED  BY <1>1, <1>2, WorkerAssumption DEF Doubled, Smaller

\* Of the crop cache, a step that leaves it, the tracks and the closings alone
\* changes nothing.
LEMMA SameCrops ==
    ASSUME ShipInv, CropsOnlyOfTracks, CropIsBestOfVisit,
           UNCHANGED <<crops, visit>>, DOMAIN silent' = DOMAIN silent
    PROVE  /\ CropsOnlyOfTracks' /\ CropIsBestOfVisit'
           /\ \A j, k \in Unshipped' : j.id = k.id => j = k
           /\ toShip' \cap current' = {}
           /\ \A k \in Unshipped' : k.id \notin DOMAIN silent'
  BY DEF ShipInv, CropsOnlyOfTracks, CropIsBestOfVisit, CropArea, Unshipped, crops

\* The invariant holds at the start.
LEMMA InitInv == Init => IInv
  BY WorkerAssumption DEF Init, IInv, TypeOK, ShipInv, CropsOnlyOfTracks, CropIsBestOfVisit,
     SourceInv, Unshipped, Closing, CropArea

\* The clock disturbs none of it.
LEMMA TickInv == IInv /\ Tick => IInv'
  <1> SUFFICES ASSUME IInv, Tick PROVE IInv'
    OBVIOUS
  <1> USE DEF IInv
  <1>1. DOMAIN silent' = DOMAIN silent
    BY DEF Tick
  <1>2. silent' \in [DOMAIN silent -> 0..Ttl+1]
    BY Bounds, WorkerAssumption DEF Tick, TypeOK
  <1>3. sinceBeat' \in 0..HeartbeatEvery+1
    BY Bounds, WorkerAssumption DEF Tick, TypeOK
  <1>4. wait' \in 0..MaxBackoff
    BY WorkerAssumption DEF Tick, TypeOK
  <1>5. TypeOK'
    BY <1>1, <1>2, <1>3, <1>4 DEF Tick, TypeOK, crops
  <1>6. UNCHANGED <<crops, visit, pc, backoff, nap, cap>>
    BY DEF Tick
  <1>7. ShipInv' /\ CropsOnlyOfTracks' /\ CropIsBestOfVisit'
    BY <1>1, <1>6, SameCrops DEF ShipInv, crops
  <1>. QED  BY <1>5, <1>6, <1>7 DEF SourceInv

\* Nor does the camera.
LEMMA ChangeInv == ASSUME NEW s \in {"up", "mute", "down"} PROVE IInv /\ Change(s) => IInv'
  <1> SUFFICES ASSUME IInv, Change(s) PROVE IInv'
    OBVIOUS
  <1> USE DEF IInv
  <1>1. cap' \in {cap, "open", "broken"} /\ (cap = "closed" => cap' = "closed")
    BY DEF Change, TypeOK
  <1>2. TypeOK'
    BY <1>1 DEF Change, TypeOK, crops
  <1>3. ShipInv' /\ CropsOnlyOfTracks' /\ CropIsBestOfVisit'
    BY SameCrops DEF Change, ShipInv, crops
  <1>4. SourceInv'
    BY <1>1 DEF Change, SourceInv
  <1>. QED  BY <1>2, <1>3, <1>4

\* A call that reads nothing, and the sleep after it.
LEMMA ReadNothingInv == IInv /\ ReadNothing => IInv'
  <1> SUFFICES ASSUME IInv, ReadNothing PROVE IInv'
    OBVIOUS
  <1> USE DEF IInv
  <1>1. AfterOpen \in 1..MaxBackoff /\ Doubled \in 1..MaxBackoff
    BY BackoffBounds
  <1>2. TypeOK'
    BY <1>1 DEF ReadNothing, TypeOK, Released, crops
  <1>3. ShipInv' /\ CropsOnlyOfTracks' /\ CropIsBestOfVisit'
    BY SameCrops DEF ReadNothing, ShipInv, crops
  <1>4. SourceInv'
    BY <1>1 DEF ReadNothing, SourceInv, Released
  <1>. QED  BY <1>2, <1>3, <1>4

\* Nor does waking up.
LEMMA WakeInv == IInv /\ Wake => IInv'
  <1> SUFFICES ASSUME IInv, Wake PROVE IInv'
    OBVIOUS
  <1> USE DEF IInv
  <1>1. ShipInv' /\ CropsOnlyOfTracks' /\ CropIsBestOfVisit'
    BY SameCrops DEF Wake, ShipInv, crops
  <1>. QED  BY <1>1 DEF Wake, TypeOK, SourceInv, source, crops

\* A frame: who is seen, whose crop is the better one, who is closed.
LEMMA ReadFrameInv == ASSUME NEW seen \in People PROVE IInv /\ ReadFrame(seen) => IInv'
  <1> SUFFICES ASSUME IInv, ReadFrame(seen) PROVE IInv'
    OBVIOUS
  <1> USE DEF IInv
  <1>1. DOMAIN seen \subseteq Ids /\ \A t \in DOMAIN seen : seen[t] \in 0..MaxArea
    BY DEF People
  <1>2. toShip = {} /\ current = {} /\ Unshipped = {}
    BY DEF ReadFrame, ShipInv, Unshipped
  <1>3. DOMAIN bestCrop \subseteq DOMAIN silent
    BY <1>2 DEF CropsOnlyOfTracks
  <1>4. \A t \in DOMAIN silent : visit[t] \in 0..MaxArea /\ CropArea(t) = visit[t]
    BY DEF TypeOK, CropIsBestOfVisit
  <1>5. /\ DOMAIN silent' = Active(seen) /\ DOMAIN visit' = Active(seen)
        /\ Active(seen) \subseteq Ids
    BY <1>1 DEF ReadFrame, Active, TypeOK
  <1>6. DOMAIN bestCrop' = DOMAIN bestCrop \cup BetterCrop(seen)
    BY DEF ReadFrame
  <1>7. BetterCrop(seen) \subseteq DOMAIN seen
    BY DEF BetterCrop
  <1>8. \A t \in Active(seen) : visit'[t] \in 0..MaxArea /\ CropArea(t)' = visit'[t]
    <2> SUFFICES ASSUME NEW t \in Active(seen)
                 PROVE  visit'[t] \in 0..MaxArea /\ CropArea(t)' = visit'[t]
      OBVIOUS
    <2> DEFINE old == IF t \in DOMAIN silent THEN visit[t] ELSE 0
               new == IF t \in DOMAIN seen THEN seen[t] ELSE 0
    <2>1. visit'[t] = Larger(old, new)
      BY DEF ReadFrame
    <2>2. old \in 0..MaxArea /\ new \in 0..MaxArea
      BY <1>1, <1>4, WorkerAssumption
    <2>3. CropArea(t) = old
      BY <1>3, <1>4 DEF CropArea
    <2>4. CASE t \in BetterCrop(seen)
      <3>1. new > old /\ CropArea(t)' = new
        BY <1>6, <2>3, <2>4 DEF BetterCrop, ReadFrame, CropArea
      <3>. QED  BY <2>1, <2>2, <3>1 DEF Larger
    <2>5. CASE t \notin BetterCrop(seen)
      <3>1. ~(new > old)
        BY <2>2, <2>3, <2>5 DEF BetterCrop
      <3>2. CropArea(t)' = CropArea(t)
        BY <1>6, <2>5 DEF ReadFrame, CropArea
      <3>. QED  BY <2>1, <2>2, <2>3, <3>1, <3>2 DEF Larger
    <2>. QED  BY <2>4, <2>5
  <1>9. \A t \in Closed(seen) : CropArea(t)' = visit[t] /\ visit[t] \in 0..MaxArea
                                /\ t \in DOMAIN silent /\ t \notin Active(seen)
    BY <1>4, <1>6, <1>7 DEF ReadFrame, CropArea, Closed, Active
  <1>10. /\ toShip' = {[id |-> t, area |-> visit[t]] : t \in Closed(seen)}
         /\ Unshipped' = toShip' /\ current' = {}
    BY <1>2 DEF ReadFrame, Unshipped
  <1>11. DOMAIN bestCrop' \subseteq DOMAIN silent' \cup Closed(seen)
    BY <1>3, <1>5, <1>6, <1>7 DEF Active
  <1>12. TypeOK'
    <2>1. backoff' \in 1..MaxBackoff
      BY BackoffBounds DEF ReadFrame
    <2>2. silent' \in [Active(seen) -> 0..Ttl+1]
      BY WorkerAssumption DEF ReadFrame, TypeOK, Active
    <2>3. visit' \in [Active(seen) -> 0..MaxArea]
      BY <1>8 DEF ReadFrame
    <2>4. \A t \in BetterCrop(seen) : seen[t] \in 1..MaxArea
      <3> SUFFICES ASSUME NEW t \in BetterCrop(seen) PROVE seen[t] \in 1..MaxArea
        OBVIOUS
      <3>1. seen[t] \in 0..MaxArea /\ seen[t] > CropArea(t) /\ CropArea(t) \in Nat
        BY <1>1 DEF BetterCrop, CropArea, TypeOK
      <3>. QED  BY <3>1, WorkerAssumption
    <2>5. bestCrop' \in [DOMAIN bestCrop' -> 1..MaxArea]
      BY <2>4 DEF ReadFrame, TypeOK
    <2>6. toShip' \in SUBSET Closing /\ current' \in SUBSET Closing
      BY <1>9, <1>10 DEF Closing, Closed, TypeOK
    <2>. QED
      BY <1>5, <2>1, <2>2, <2>3, <2>5, <2>6, WorkerAssumption DEF ReadFrame, TypeOK
  <1>13. ShipInv'
    <2>1. pc' = "ship"
      BY DEF ReadFrame
    <2>2. \A k \in Unshipped' : k.id \in Closed(seen) /\ k = [id |-> k.id, area |-> visit[k.id]]
      BY <1>10
    <2>. QED  BY <1>5, <1>9, <1>10, <2>1, <2>2 DEF ShipInv
  <1>14. CropsOnlyOfTracks'
    <2>1. Closed(seen) \subseteq {k.id : k \in Unshipped'}
      <3> SUFFICES ASSUME NEW t \in Closed(seen) PROVE \E k \in Unshipped' : k.id = t
        OBVIOUS
      <3>1. [id |-> t, area |-> visit[t]] \in Unshipped'
        BY <1>10
      <3>. QED  BY <3>1
    <2>. QED  BY <1>11, <2>1 DEF CropsOnlyOfTracks
  <1>15. CropIsBestOfVisit'
    <2>1. \A t \in DOMAIN silent' : CropArea(t)' = visit'[t]
      BY <1>5, <1>8
    <2>2. \A k \in Unshipped' : CropArea(k.id)' = k.area
      BY <1>9, <1>10
    <2>. QED  BY <2>1, <2>2 DEF CropIsBestOfVisit, CropArea
  <1>16. SourceInv'
    BY DEF ReadFrame, SourceInv, AfterOpen, Reads, CanOpen
  <1>. QED  BY <1>12, <1>13, <1>14, <1>15, <1>16

\* The frame is sent first: the tracks it closed are still to ship.
LEMMA ShipFrameInv == IInv /\ ShipFrame => IInv'
  <1> SUFFICES ASSUME IInv, ShipFrame PROVE IInv'
    OBVIOUS
  <1> USE DEF IInv
  <1>1. ShipInv' /\ CropsOnlyOfTracks' /\ CropIsBestOfVisit'
    BY SameCrops DEF ShipFrame, ShipInv, crops
  <1>. QED  BY <1>1 DEF ShipFrame, TypeOK, SourceInv, source, crops

\* A track moves from those to ship to the one whose embedding is next.
LEMMA ShipTrackInv == ASSUME NEW k \in toShip PROVE IInv /\ ShipTrack(k) => IInv'
  <1> SUFFICES ASSUME IInv, ShipTrack(k) PROVE IInv'
    OBVIOUS
  <1> USE DEF IInv
  <1>1. current = {} /\ toShip' = toShip \ {k} /\ current' = {k} /\ pc' = "embed"
    BY DEF ShipTrack, ShipInv
  <1>2. Unshipped' = Unshipped
    BY <1>1 DEF Unshipped
  <1>3. UNCHANGED <<bestCrop, silent, visit>>
    BY DEF ShipTrack
  <1>4. TypeOK'
    BY <1>1 DEF ShipTrack, TypeOK, source
  <1>5. ShipInv'
    BY <1>1, <1>2, <1>3 DEF ShipInv
  <1>6. CropsOnlyOfTracks' /\ CropIsBestOfVisit'
    BY <1>2, <1>3 DEF CropsOnlyOfTracks, CropIsBestOfVisit, CropArea
  <1>7. SourceInv'
    BY DEF ShipTrack, SourceInv, source
  <1>. QED  BY <1>4, <1>5, <1>6, <1>7

\* The shipped track's crop is dropped; no other waiting or active track has its id.
LEMMA ShipEmbeddingInv == ASSUME NEW posts \in BOOLEAN PROVE IInv /\ ShipEmbedding(posts) => IInv'
  <1> SUFFICES ASSUME IInv, ShipEmbedding(posts) PROVE IInv'
    OBVIOUS
  <1> USE DEF IInv
  <1>1. PICK k \in current : bestCrop' = [t \in DOMAIN bestCrop \ {k.id} |-> bestCrop[t]]
    BY DEF ShipEmbedding
  <1>2. /\ UNCHANGED <<silent, toShip, visit>>
        /\ current' = {} /\ Unshipped' = toShip /\ pc' = "closed"
    BY DEF ShipEmbedding, Unshipped
  <1>3. k.id \notin DOMAIN silent /\ \A j \in toShip : j.id # k.id
    BY DEF ShipInv, Unshipped
  <1>4. \A j \in current : j = k
    BY DEF ShipInv
  <1>5. TypeOK'
    BY <1>1, <1>2 DEF ShipEmbedding, TypeOK, source
  <1>6. ShipInv'
    BY <1>2 DEF ShipInv, Unshipped
  <1>7. CropsOnlyOfTracks'
    BY <1>1, <1>2, <1>3, <1>4 DEF CropsOnlyOfTracks, Unshipped
  <1>8. CropIsBestOfVisit'
    BY <1>1, <1>2, <1>3 DEF CropIsBestOfVisit, CropArea, Unshipped
  <1>9. SourceInv'
    BY DEF ShipEmbedding, SourceInv, source
  <1>. QED  BY <1>5, <1>6, <1>7, <1>8, <1>9

\* The end of an iteration, with nothing left to ship.
LEMMA RestInv == IInv /\ Rest => IInv'
  <1> SUFFICES ASSUME IInv, Rest PROVE IInv'
    OBVIOUS
  <1> USE DEF IInv
  <1>1. ShipInv' /\ CropsOnlyOfTracks' /\ CropIsBestOfVisit'
    BY SameCrops DEF Rest, ShipInv, crops
  <1>2. sinceBeat' \in 0..HeartbeatEvery+1
    BY WorkerAssumption DEF Rest, TypeOK
  <1>. QED  BY <1>1, <1>2 DEF Rest, TypeOK, SourceInv, source, crops

-----------------------------------------------------------------------------
\* Every step, one of the thread, the clock or the camera, keeps the invariant.
LEMMA NextInv == IInv /\ [Next]_vars => IInv'
  <1> SUFFICES ASSUME IInv, [Next]_vars PROVE IInv'
    OBVIOUS
  <1>1. CASE ReadNothing
    BY <1>1, ReadNothingInv
  <1>2. CASE Wake
    BY <1>2, WakeInv
  <1>3. ASSUME NEW seen \in People, ReadFrame(seen) PROVE IInv'
    BY <1>3, ReadFrameInv
  <1>4. CASE ShipFrame
    BY <1>4, ShipFrameInv
  <1>5. ASSUME NEW k \in toShip, ShipTrack(k) PROVE IInv'
    BY <1>5, ShipTrackInv
  <1>6. ASSUME NEW posts \in BOOLEAN, ShipEmbedding(posts) PROVE IInv'
    BY <1>6, ShipEmbeddingInv
  <1>7. CASE Rest
    BY <1>7, RestInv
  <1>8. CASE Tick
    BY <1>8, TickInv
  <1>9. ASSUME NEW s \in {"up", "mute", "down"}, Change(s) PROVE IInv'
    BY <1>9, ChangeInv
  <1>10. CASE UNCHANGED vars
    BY <1>10 DEF vars, source, crops, IInv, TypeOK, ShipInv, CropsOnlyOfTracks,
       CropIsBestOfVisit, SourceInv, Unshipped, CropArea
  <1>. QED
    BY <1>1, <1>2, <1>3, <1>4, <1>5, <1>6, <1>7, <1>8, <1>9, <1>10 DEF Next, Run

\* The invariant the theorems below follow from.
LEMMA Inductive == Spec => []IInv
  BY InitInv, NextInv, PTL DEF Spec

\* The fields of the pipeline and its source stay in range; the backoff never passes
\* its maximum and never reaches 0 (video_source.py:65-67).
THEOREM TypeCorrect == Spec => []TypeOK
  <1>1. IInv => TypeOK
    BY DEF IInv
  <1>. QED  BY Inductive, <1>1, PTL

\* The crop cache never holds a crop of a person who is neither tracked nor about to
\* be shipped: it cannot grow without bound (camera_worker.py:179-203).
THEOREM CropsBounded == Spec => []CropsOnlyOfTracks
  <1>1. IInv => CropsOnlyOfTracks
    BY DEF IInv
  <1>. QED  BY Inductive, <1>1, PTL

\* Whatever is tracked, closed and shipped in whichever order, the crop of a track is
\* the largest usable one of its visit (camera_worker.py:184-194).
THEOREM BestCropShipped == Spec => []CropIsBestOfVisit
  <1>1. IInv => CropIsBestOfVisit
    BY DEF IInv
  <1>. QED  BY Inductive, <1>1, PTL

\* The first sleep after frames were read lasts the initial backoff (video_source.py:39).
THEOREM QuickFirstRetry == Spec => RetriesSoonAfterFrames
  <1>1. IInv /\ [Next]_vars =>
          [pc = "read" /\ pc' = "sleep" /\ nap = 0 => wait' = 1]_vars
    <2> SUFFICES ASSUME IInv, [Next]_vars, pc = "read", pc' = "sleep", nap = 0
                 PROVE  wait' = 1
      BY DEF vars
    <2>1. ReadNothing
      BY DEF Next, Run, Wake, ReadFrame, ShipFrame, ShipTrack, ShipEmbedding, Rest, Tick,
         Change, vars
    <2>2. backoff = 1
      BY DEF IInv, SourceInv
    <2>. QED  BY <2>1, <2>2 DEF ReadNothing, AfterOpen
  <1>. QED  BY Inductive, <1>1, PTL DEF Spec, RetriesSoonAfterFrames
=============================================================================
