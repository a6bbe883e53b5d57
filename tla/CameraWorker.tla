---------------------------- MODULE CameraWorker ----------------------------
(***************************************************************************)
(* The thread of one camera (CameraPipeline in streaming/camera_worker.py) *)
(* with the video source it reads (vision/video_source.py): reconnecting,  *)
(* the best crop kept of each person, the order in which what a frame      *)
(* yields is shipped, and the heartbeat.                                   *)
(*                                                                         *)
(* Every step of run() may take time: Tick is a step of its own.  What the *)
(* HTTP calls answer does not matter here, for a failed one is logged and  *)
(* the loop goes on (ReidIngest has the answers).  Of the engine only the  *)
(* lifetime of the tracks is kept (AnalyticsEngine has the rest).          *)
(*                                                                         *)
(* Times are ages that stop growing just past the limit the code compares  *)
(* them with.                                                              *)
(***************************************************************************)
EXTENDS Naturals, FiniteSets

CONSTANTS
    Ids,             \* the track ids ByteTracker may hand out
    MaxArea,         \* the largest bounding box (bound)
    Ttl,             \* TrackStore.ttl_s
    HeartbeatEvery,  \* the 15 s of _maybe_heartbeat
    MaxBackoff       \* the 30 s of _sleep_backoff

ASSUME WorkerAssumption ==
    /\ MaxArea \in Nat /\ Ttl \in Nat
    /\ HeartbeatEvery \in Nat \ {0} /\ MaxBackoff \in Nat \ {0}

VARIABLES
    stream,     \* what the camera does: "up" delivers frames, "mute" can be opened
                \* but delivers none, "down" cannot be opened
    cap,        \* source.cap: "closed" (or None), "open", or "broken" when the
                \* connection dropped, which only a read finds out
    backoff,    \* source._backoff
    pc,         \* where run() is
    wait,       \* what is left of a time.sleep in _sleep_backoff
    silent,     \* engine.store: each active track -> how long it has not been seen
    bestCrop,   \* _best_crop and _best_crop_area: track id -> area of its crop
    toShip,     \* the closed tracks of this frame still to ship
    current,    \* the one whose track was posted and whose embedding is next
    sinceBeat,  \* age of _last_heartbeat
    visit,      \* history: each active track -> its largest usable crop so far
    nap         \* history: the last backoff slept since a frame was read, or 0

source == <<stream, cap, backoff, wait, nap>>
crops  == <<bestCrop, toShip, current>>
vars   == <<source, pc, silent, crops, sinceBeat, visit>>

Older(age, limit) == IF age > limit THEN age ELSE age + 1
Larger(a, b)      == IF a > b THEN a ELSE b
Smaller(a, b)     == IF a < b THEN a ELSE b

\* The area of t's best crop; 0.0 without one.
CropArea(t) == IF t \in DOMAIN bestCrop THEN bestCrop[t] ELSE 0

-----------------------------------------------------------------------------
(* The world                                                               *)

Tick ==
    /\ silent' = [t \in DOMAIN silent |-> Older(silent[t], Ttl)]
    /\ sinceBeat' = Older(sinceBeat, HeartbeatEvery)
    /\ wait' = IF wait = 0 THEN 0 ELSE wait - 1
    /\ UNCHANGED <<stream, cap, backoff, nap, pc, crops, visit>>

\* The camera comes, goes or stops sending; a capture may survive it.
Change(s) ==
    /\ s # stream
    /\ stream' = s
    /\ cap' \in IF cap = "open" THEN {"open", "broken"} ELSE {cap}
    /\ UNCHANGED <<backoff, wait, nap, pc, silent, crops, sinceBeat, visit>>

-----------------------------------------------------------------------------
(* VideoSource.read                                                        *)

CanOpen == stream # "down"

\* Whether this call reads a frame, from the capture it has or from one it opens.
\* (At the end of a file the code rewinds and reads again, within the call.)
Reads == stream = "up" /\ cap # "broken"

\* The backoff once the call's _open, if it makes one, is over.
AfterOpen == IF cap = "closed" /\ CanOpen THEN 1 ELSE backoff

\* Mutant: a capture whose stream was lost is not released.
KeptWhenLost == IF cap = "closed" /\ ~CanOpen THEN "closed" ELSE "broken"
\* The capture after a call that reads nothing: it did not open, or was released.
Released == "closed"

\* Mutant: the backoff is not capped.
Uncapped == 2 * AfterOpen
Doubled  == Smaller(2 * AfterOpen, MaxBackoff)

ReadNothing ==
    /\ pc = "read" /\ ~Reads
    /\ cap' = Released
    /\ pc' = "sleep"
    /\ wait' = AfterOpen /\ nap' = AfterOpen
    /\ backoff' = Doubled
    /\ UNCHANGED <<stream, silent, crops, sinceBeat, visit>>

\* run() gets None and calls read() again.
Wake ==
    /\ pc = "sleep" /\ wait = 0
    /\ pc' = "read"
    /\ UNCHANGED <<source, silent, crops, sinceBeat, visit>>

-----------------------------------------------------------------------------
(* One frame                                                               *)

\* The people of a frame: the area of the crop of each, 0 where the confidence is
\* below MIN_CROP_CONFIDENCE or the crop is empty.
People == UNION {[P -> 0..MaxArea] : P \in SUBSET Ids}

\* Mutant: the last crop is kept, not the largest.
LastCrop(seen) == {t \in DOMAIN seen : seen[t] > 0}
\* _update_best_crops
BetterCrop(seen) == {t \in DOMAIN seen : seen[t] > CropArea(t)}

\* engine.process(): who the store closes, and the tracks left.
Closed(seen) == {t \in DOMAIN silent \ DOMAIN seen : silent[t] > Ttl}
Active(seen) == (DOMAIN silent \cup DOMAIN seen) \ Closed(seen)

ReadFrame(seen) ==
    /\ pc = "read" /\ Reads
    /\ cap' = "open" /\ backoff' = AfterOpen /\ nap' = 0
    /\ bestCrop' = [t \in DOMAIN bestCrop \cup BetterCrop(seen) |->
                       IF t \in BetterCrop(seen) THEN seen[t] ELSE bestCrop[t]]
    /\ silent' = [t \in Active(seen) |-> IF t \in DOMAIN seen THEN 0 ELSE silent[t]]
    /\ visit' = [t \in Active(seen) |->
                    Larger(IF t \in DOMAIN silent THEN visit[t] ELSE 0,
                           IF t \in DOMAIN seen THEN seen[t] ELSE 0)]
    /\ toShip' = {[id |-> t, area |-> visit[t]] : t \in Closed(seen)}
    /\ pc' = "ship"
    /\ UNCHANGED <<stream, wait, current, sinceBeat>>

\* _ship: the frame goes to /ingest/frame and to Kafka.
ShipFrame ==
    /\ pc = "ship"
    /\ pc' = "closed"
    /\ UNCHANGED <<source, silent, crops, sinceBeat, visit>>

\* One closed track after the other: first /ingest/track ...
ShipTrack(k) ==
    /\ pc = "closed" /\ k \in toShip
    /\ toShip' = toShip \ {k} /\ current' = {k}
    /\ pc' = "embed"
    /\ UNCHANGED <<source, silent, bestCrop, sinceBeat, visit>>

\* ... then _ship_reid_embedding: without a crop, a model or an embedding nothing is
\* posted, but the crop is taken out first in every case.
ShipEmbedding(posts) ==
    /\ pc = "embed"
    /\ \E k \in current :
          /\ posts => k.id \in DOMAIN bestCrop
          /\ bestCrop' = [t \in DOMAIN bestCrop \ {k.id} |-> bestCrop[t]]
    /\ current' = {}
    /\ pc' = "closed"
    /\ UNCHANGED <<source, silent, toShip, sinceBeat, visit>>

Due == sinceBeat >= HeartbeatEvery

\* The end of an iteration: _maybe_heartbeat, and a sleep up to the frame interval.
Rest ==
    /\ pc = "closed" /\ toShip = {}
    /\ sinceBeat' = IF Due THEN 0 ELSE sinceBeat
    /\ pc' = "read"
    /\ UNCHANGED <<source, silent, crops, visit>>

-----------------------------------------------------------------------------
Init ==
    /\ stream \in {"up", "mute", "down"} /\ cap = "closed"
    /\ backoff = 1 /\ wait = 0 /\ nap = 0
    /\ pc = "read"
    /\ silent = <<>> /\ visit = <<>>
    /\ bestCrop = <<>> /\ toShip = {} /\ current = {}
    /\ sinceBeat = HeartbeatEvery

Run == \/ ReadNothing \/ Wake
       \/ \E seen \in People : ReadFrame(seen)
       \/ ShipFrame
       \/ \E k \in toShip : ShipTrack(k)
       \/ \E posts \in BOOLEAN : ShipEmbedding(posts)
       \/ Rest

Next == Run \/ Tick \/ \E s \in {"up", "mute", "down"} : Change(s)

Spec == Init /\ [][Next]_vars

\* Time passes and the thread runs: every call it makes has a timeout.
FairSpec == Spec /\ WF_vars(Tick) /\ WF_vars(Run)

-----------------------------------------------------------------------------
(* Properties                                                              *)

Unshipped == toShip \cup current
Closing   == [id : Ids, area : 0..MaxArea]

\* The fields of the pipeline and its source hold what they hold in the code.
TypeOK ==
    /\ stream \in {"up", "mute", "down"} /\ cap \in {"closed", "open", "broken"}
    /\ backoff \in 1..MaxBackoff /\ wait \in 0..MaxBackoff /\ nap \in 0..MaxBackoff
    /\ pc \in {"read", "sleep", "ship", "closed", "embed"}
    /\ DOMAIN silent \subseteq Ids /\ silent \in [DOMAIN silent -> 0..Ttl+1]
    /\ visit \in [DOMAIN silent -> 0..MaxArea]
    /\ bestCrop \in [DOMAIN bestCrop -> 1..MaxArea]
    /\ toShip \in SUBSET Closing /\ current \in SUBSET Closing
    /\ sinceBeat \in 0..HeartbeatEvery+1

\* Crops are held only for tracks that are active or about to be shipped, so their
\* number is bounded by the people in view however long the worker runs.
CropsOnlyOfTracks ==
    DOMAIN bestCrop \subseteq DOMAIN silent \cup {k.id : k \in Unshipped}

\* The crop an embedding is made of is the largest usable one of that visit, not of
\* an earlier holder of the id, at every moment until it is shipped.
CropIsBestOfVisit ==
    /\ \A t \in DOMAIN silent : CropArea(t) = visit[t]
    /\ \A k \in Unshipped : CropArea(k.id) = k.area

\* "RTSP: reconnects with exponential backoff on stream drop" (video_source.py:3):
\* each sleep since the last frame is twice the one before, up to the maximum.
BackoffDoubles ==
    [][pc = "read" /\ pc' = "sleep" /\ nap > 0 => wait' = Smaller(2 * nap, MaxBackoff)]_vars

\* The first sleep after frames were read is the shortest, however long the outages
\* before them were.
RetriesSoonAfterFrames ==
    [][pc = "read" /\ pc' = "sleep" /\ nap = 0 => wait' = 1]_vars

\* "heartbeats resume when the link returns" (docs/DEPLOYMENT.md:26): once the camera
\* delivers for good, heartbeats are sent for ever, whatever happened before.
HeartbeatsResume == <>[](stream = "up") => []<>(sinceBeat = 0)
=============================================================================
