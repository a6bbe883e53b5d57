--------------------------- MODULE AnalyticsEngine ---------------------------
(***************************************************************************)
(* The per-camera analytics engine (analytics/engine.py) together with the *)
(* track store it owns (tracking/track_store.py).                          *)
(*                                                                         *)
(* One CameraPipeline thread owns one engine and calls process() once per  *)
(* frame, so a frame is one atomic step.  What a frame brings is the set   *)
(* of tracked people with, for each, the zones its foot point lies in, and *)
(* the products counted in each shelf zone.  Trajectories, speeds and      *)
(* heatmaps are left out: nothing below depends on them.                   *)
(***************************************************************************)
EXTENDS Integers, FiniteSets, Sequences

CONSTANTS
    Tracks,            \* the track ids ByteTracker may hand out
    ZoneList,          \* engine.zones: a sequence of [name, type]
    Places,            \* the sets of zones (indices) one foot point can lie in
    MaxProducts,       \* most products ever counted in one shelf zone (bound)
    LoiterSeconds,     \* LOITER_SECONDS
    TtlS,              \* TrackStore.ttl_s
    ShelfEmptyAfterS,  \* SHELF_EMPTY_AFTER_S
    SnapshotIntervalS, \* snapshot_interval_s
    Steps,             \* the times that may pass between two frames
    MaxTime            \* the last instant of a behaviour (bound)

Zones      == DOMAIN ZoneList
Name(z)    == ZoneList[z].name
Names(zs)  == {Name(z) : z \in zs}
OfType(ty) == {z \in Zones : ZoneList[z].type = ty}
Shelves    == OfType("shelf")
None       == "none"                \* Python's None, for a track or a zone
Never      == -1                    \* Python's None, for an instant

First(zs) == CHOOSE z \in zs : \A y \in zs : z <= y
Last(zs)  == CHOOSE z \in zs : \A y \in zs : y <= z

\* next((z for z in self.zones if z.name == zname), None)
ZoneNamed(n) == First({z \in Zones : Name(z) = n})

ASSUME EngineAssumption ==
    /\ ZoneList \in Seq([name : STRING, type : STRING])
    /\ Places \subseteq SUBSET Zones
    /\ IsFiniteSet(Tracks) /\ None \notin Tracks
    /\ MaxProducts \in Nat
    /\ LoiterSeconds \in Nat /\ TtlS \in Nat
    /\ ShelfEmptyAfterS \in Nat /\ SnapshotIntervalS \in Nat \ {0}
    /\ Steps \subseteq Nat
    /\ MaxTime \in Nat

VARIABLES
    now,                \* the clock process() was last called at
    tracks,             \* store.tracks: the active tracks
    totalUnique,        \* store.total_unique
    trackZones,         \* _track_zones: zone names each track was last in
    queueJoinedAt,      \* _queue_joined_at
    loiterFlagged,      \* _loiter_flagged
    restrictedFlagged,  \* _restricted_flagged
    shelfLastProduct,   \* _shelf_last_product, by zone name
    shelfProductCount,  \* _shelf_product_count, by zone name
    lastSnapshot,       \* _last_snapshot
    out,                \* EngineOutput of the last frame, and the samples that
                        \* frame appended to _wait_samples
    ledger              \* history: what a reader of the event stream knows

engineVars == <<tracks, totalUnique, trackZones, queueJoinedAt, loiterFlagged,
                restrictedFlagged>>
shelfVars  == <<shelfLastProduct, shelfProductCount>>
vars == <<now, engineVars, shelfVars, lastSnapshot, out, ledger>>

-----------------------------------------------------------------------------
(* The people of one frame: seen maps each person detected to its place.   *)

Seen == UNION {[P -> Places] : P \in SUBSET Tracks}

Prev(t)            == IF t \in DOMAIN trackZones THEN trackZones[t] ELSE {}
Entered(seen, t)   == {z \in seen[t] : Name(z) \notin Prev(t)}

\* Mutant: the exits are handled only for people who are in some zone.
ExitsSkippedOutside(seen, t) == IF seen[t] = {} THEN {} ELSE Prev(t) \ Names(seen[t])
LeftNames(seen, t)  == Prev(t) \ Names(seen[t])
QueuesLeft(seen, t) == {n \in LeftNames(seen, t) : ZoneNamed(n) \in OfType("queue")}

\* Mutant: every update counts a visitor.
EveryoneIsNew(seen) == DOMAIN seen
NewTracks(seen) == DOMAIN seen \ DOMAIN tracks

\* Mutant: a new track's first_seen is left unset.
TouchLeavesNone(at, t, places) ==
    IF t \in DOMAIN tracks
    THEN [tracks[t] EXCEPT !.last_seen = at, !.zones_visited = @ \cup Names(places)]
    ELSE [first_seen |-> Never, last_seen |-> at, zones_visited |-> Names(places)]
\* store.update(): open the track if it is new, then refresh it.
Touch(at, t, places) ==
    IF t \in DOMAIN tracks
    THEN [tracks[t] EXCEPT !.last_seen = at, !.zones_visited = @ \cup Names(places)]
    ELSE [first_seen |-> at, last_seen |-> at, zones_visited |-> Names(places)]

Touched(seen, at) ==
    [t \in DOMAIN tracks \cup DOMAIN seen |->
        IF t \in DOMAIN seen THEN Touch(at, t, seen[t]) ELSE tracks[t]]

Duration(st) == st.last_seen - st.first_seen

\* store.expire(): the tracks silent for longer than the TTL.
Gone(seen, at) ==
    {t \in DOMAIN tracks \cup DOMAIN seen : at - Touched(seen, at)[t].last_seen > TtlS}

\* Mutant: each frame spent in a queue restarts its clock.
InQueue(seen) == {t \in DOMAIN seen : seen[t] \cap OfType("queue") # {}}

\* _queue_joined_at once a frame's zone entries are handled, before its exits.
JoinsQueue(seen) == {t \in DOMAIN seen : Entered(seen, t) \cap OfType("queue") # {}}
Joined(seen, at) ==
    [t \in DOMAIN queueJoinedAt \cup JoinsQueue(seen) |->
        IF t \in JoinsQueue(seen) THEN at ELSE queueJoinedAt[t]]

\* Of the queues a track leaves in one frame, the first pops its entry and
\* yields the wait sample; the others find nothing.
LeavesQueue(seen) == {t \in DOMAIN seen : QueuesLeft(seen, t) # {}}
WaitSamples(seen, at) ==
    {[track |-> t, wait |-> at - Joined(seen, at)[t]] :
        t \in LeavesQueue(seen) \cap DOMAIN Joined(seen, at)}

\* The entries that outlive the frame.
\* Mutant: expiry forgets the queue clock.
QueuedForever(seen, at) == DOMAIN Joined(seen, at) \ LeavesQueue(seen)
StillQueued(seen, at) == (DOMAIN Joined(seen, at) \ LeavesQueue(seen)) \ Gone(seen, at)

EntersRestricted(seen) ==
    {t \in DOMAIN seen : Entered(seen, t) \cap OfType("restricted") # {}}
\* Mutant: >= for >.
LoiteringAtLimit(seen, at) ==
    {t \in DOMAIN seen : Duration(Touched(seen, at)[t]) >= LoiterSeconds}
Loitering(seen, at) ==
    {t \in DOMAIN seen : Duration(Touched(seen, at)[t]) > LoiterSeconds}

-----------------------------------------------------------------------------
(* The events and the snapshot of one frame                                *)

Event(type, t, n)            == [type |-> type, track |-> t, zone |-> n]
ZoneEvents(type, t, zs)      == {Event(type, t, Name(z)) : z \in zs}

PersonEvents(seen, t) ==
    UNION { ZoneEvents("zone_enter", t, Entered(seen, t)),
            ZoneEvents("entry", t, Entered(seen, t) \cap OfType("entrance")),
            ZoneEvents("queue_join", t, Entered(seen, t) \cap OfType("queue")),
            ZoneEvents("shelf_interaction", t, seen[t] \cap Shelves),
            {Event("zone_exit", t, n) : n \in LeftNames(seen, t)},
            {Event("queue_leave", t, n) : n \in QueuesLeft(seen, t)} }

RestrictedEvents(seen) ==
    {Event("restricted_zone", t, Name(First(Entered(seen, t) \cap OfType("restricted")))) :
        t \in EntersRestricted(seen) \ restrictedFlagged}

LoiterEvents(seen, at) ==
    {Event("loitering", t, None) : t \in Loitering(seen, at) \ loiterFlagged}

ExitEvents(seen, at) ==
    {[type |-> "exit", track |-> t, closed |-> Touched(seen, at)[t]] : t \in Gone(seen, at)}

\* The count a shelf zone is compared with: that of the shelf of the same name
\* before it in this frame, else the last frame's, else its own.
PrevCount(products, z) ==
    LET earlier == {y \in Shelves : y < z /\ Name(y) = Name(z)}
    IN  IF earlier # {} THEN products[Last(earlier)]
        ELSE IF Name(z) \in DOMAIN shelfProductCount THEN shelfProductCount[Name(z)]
        ELSE products[z]

ShelfEvent(products, z) ==
    [type |-> "shelf_interaction", track |-> None, zone |-> Name(z),
     before |-> PrevCount(products, z), after |-> products[z]]
\* Mutant: product_replaced is not reported.
OnlyRemovals(products) ==
    {ShelfEvent(products, z) : z \in {y \in Shelves : products[y] < PrevCount(products, y)}}
ShelfEvents(products) ==
    {ShelfEvent(products, z) : z \in {y \in Shelves : products[y] # PrevCount(products, y)}}

Stocked(products) == Names({z \in Shelves : products[z] > 0})

QueueLength(seen) ==
    Cardinality({p \in (DOMAIN seen) \X OfType("queue") : p[2] \in seen[p[1]]})
Occupancy(seen) ==
    [n \in Names(Zones) |->
        Cardinality({p \in (DOMAIN seen) \X Zones : p[2] \in seen[p[1]] /\ Name(p[2]) = n})]

\* EngineOutput.events; a person's and a shelf's events differ in their fields.
Events(seen, products, at) ==
    UNION { UNION {PersonEvents(seen, t) : t \in DOMAIN seen},
            RestrictedEvents(seen), LoiterEvents(seen, at),
            ShelfEvents(products), ExitEvents(seen, at) }

SnapshotDue(at) == lastSnapshot # Never /\ at - lastSnapshot >= SnapshotIntervalS

\* _snapshot(), taken after the updates of the frame; the averages are left out.
Snapshot(seen, at) ==
    [people_count    |-> Cardinality(DOMAIN seen),
     unique_visitors |-> totalUnique',
     queue_length    |-> QueueLength(seen),
     zone_occupancy  |-> Occupancy(seen),
     shelf_empty     |-> {n \in DOMAIN shelfLastProduct' :
                             at - shelfLastProduct'[n] > ShelfEmptyAfterS}]

-----------------------------------------------------------------------------
(* History: the reader of the event stream.  For each track since its last *)
(* "exit" it keeps the zones entered and not left, with the time, and the  *)
(* one-off alarms raised; how many tracks have been closed; and the last   *)
(* product count reported of each shelf.                                   *)

NothingKnown == [since |-> <<>>, alarms |-> {}]

Mine(evs, type, t) == {e \in evs : e.type = type /\ e.track = t}

Learn(known, evs, t, at) ==
    LET left  == {e.zone : e \in Mine(evs, "zone_exit", t)}
        enter == {e.zone : e \in Mine(evs, "zone_enter", t)}
    IN  IF Mine(evs, "exit", t) # {} THEN NothingKnown
        ELSE [since  |-> [n \in (DOMAIN known.since \cup enter) \ left |->
                            IF n \in enter THEN at ELSE known.since[n]],
              alarms |-> known.alarms \cup
                         {a \in {"loitering", "restricted_zone"} : Mine(evs, a, t) # {}}]

Counted(evs) == {e \in evs : e.type = "shelf_interaction" /\ e.track = None}

Read(evs, at) ==
    ledger' = [known  |-> [t \in Tracks |-> Learn(ledger.known[t], evs, t, at)],
               closed |-> ledger.closed + Cardinality({e \in evs : e.type = "exit"}),
               shelf  |-> [n \in DOMAIN ledger.shelf \cup {e.zone : e \in Counted(evs)} |->
                              IF \E e \in Counted(evs) : e.zone = n
                              THEN (CHOOSE e \in Counted(evs) : e.zone = n).after
                              ELSE ledger.shelf[n]]]

-----------------------------------------------------------------------------
Init ==
    /\ now = 0
    /\ tracks = <<>> /\ totalUnique = 0
    /\ trackZones = <<>> /\ queueJoinedAt = <<>>
    /\ loiterFlagged = {} /\ restrictedFlagged = {}
    /\ shelfLastProduct = <<>> /\ shelfProductCount = <<>>
    /\ lastSnapshot = Never
    /\ out = [events |-> {}, waits |-> {}, snapshot |-> {}]
    /\ ledger = [known |-> [t \in Tracks |-> NothingKnown], closed |-> 0, shelf |-> <<>>]

\* What process() does to the people's state.
UpdatePeople(seen, at) ==
    LET live(S) == S \ Gone(seen, at)
    IN
    /\ tracks' = [t \in live(DOMAIN Touched(seen, at)) |-> Touched(seen, at)[t]]
    /\ totalUnique' = totalUnique + Cardinality(NewTracks(seen))
    /\ trackZones' = [t \in live(DOMAIN trackZones \cup DOMAIN seen) |->
                        IF t \in DOMAIN seen THEN Names(seen[t]) ELSE trackZones[t]]
    /\ queueJoinedAt' = [t \in StillQueued(seen, at) |-> Joined(seen, at)[t]]
    /\ loiterFlagged' = live(loiterFlagged \cup Loitering(seen, at))
    /\ restrictedFlagged' = live(restrictedFlagged \cup EntersRestricted(seen))

\* The shelf loop of process(): zones of one name share their entry.
UpdateShelves(products, at) ==
    /\ shelfLastProduct' =
          [n \in DOMAIN shelfLastProduct \cup Stocked(products) |->
              IF n \in Stocked(products) THEN at ELSE shelfLastProduct[n]]
    /\ shelfProductCount' =
          [n \in Names(Shelves) |-> products[Last({z \in Shelves : Name(z) = n})]]

Process(seen, products, at) ==
    /\ now' = at
    /\ UpdatePeople(seen, at)
    /\ UpdateShelves(products, at)
    /\ lastSnapshot' = IF lastSnapshot = Never \/ SnapshotDue(at) THEN at ELSE lastSnapshot
    /\ out' = [events   |-> Events(seen, products, at),
               waits    |-> WaitSamples(seen, at),
               snapshot |-> IF SnapshotDue(at) THEN {Snapshot(seen, at)} ELSE {}]
    /\ Read(Events(seen, products, at), at)

Next == \E seen \in Seen, products \in [Shelves -> 0..MaxProducts], dt \in Steps :
            /\ now + dt <= MaxTime
            /\ Process(seen, products, now + dt)

Spec == Init /\ [][Next]_vars

-----------------------------------------------------------------------------
(* Properties                                                              *)

TrackState == [first_seen : 0..MaxTime, last_seen : 0..MaxTime,
               zones_visited : SUBSET Names(Zones)]

\* Every variable holds what the fields of AnalyticsEngine and TrackStore hold.
TypeOK ==
    /\ now \in 0..MaxTime
    /\ DOMAIN tracks \subseteq Tracks /\ tracks \in [DOMAIN tracks -> TrackState]
    /\ totalUnique \in Nat
    /\ trackZones \in [DOMAIN trackZones -> SUBSET Names(Zones)]
    /\ queueJoinedAt \in [DOMAIN queueJoinedAt -> 0..MaxTime]
    /\ loiterFlagged \subseteq Tracks /\ restrictedFlagged \subseteq Tracks
    /\ shelfLastProduct \in [DOMAIN shelfLastProduct -> 0..MaxTime]
    /\ shelfProductCount \in [DOMAIN shelfProductCount -> 0..MaxProducts]
    /\ lastSnapshot \in {Never} \cup 0..MaxTime

\* The four per-track maps of the engine never outlive the store's track, and
\* no track outlives its TTL: an id the tracker uses again starts afresh.
PerTrackStateInSync ==
    /\ DOMAIN trackZones = DOMAIN tracks
    /\ DOMAIN queueJoinedAt \subseteq DOMAIN tracks
    /\ loiterFlagged \subseteq DOMAIN tracks
    /\ restrictedFlagged \subseteq DOMAIN tracks
    /\ \A t \in DOMAIN tracks : now - tracks[t].last_seen <= TtlS

\* A reader of the event stream alone (zone_enter, zone_exit, exit) knows, after
\* every frame, exactly the zones the engine holds each track in.
LedgerMatchesEngine ==
    \A t \in Tracks : DOMAIN ledger.known[t].since = Prev(t)

\* "loitering" has been raised for exactly the active tracks that have dwelt
\* longer than LOITER_SECONDS: not before, not late, and not for an id's
\* previous holder.
LoiteringAlarmExact ==
    \A t \in Tracks : "loitering" \in ledger.known[t].alarms <=>
        t \in DOMAIN tracks /\ Duration(tracks[t]) > LoiterSeconds

\* "restricted_zone" has been raised for exactly the active tracks that have set
\* foot in a restricted zone (for zones with distinct names).
RestrictedAlarmExact ==
    \A t \in Tracks : "restricted_zone" \in ledger.known[t].alarms <=>
        t \in DOMAIN tracks /\ tracks[t].zones_visited \cap Names(OfType("restricted")) # {}

\* Neither alarm is raised twice for one track between two "exit" events, however
\* often the track leaves and re-enters (the flag sets of engine.py).
AlarmsRaisedOnce ==
    [][\A e \in out'.events :
          e.type \in {"loitering", "restricted_zone"} =>
              e.type \notin ledger.known[e.track].alarms]_vars

\* Over any sequence of lost and found frames each alarm is raised exactly when it
\* is due, once, and for its own track (the flag sets of engine.py).
AlarmsExact == [](LoiteringAlarmExact /\ RestrictedAlarmExact) /\ AlarmsRaisedOnce

\* total_unique, the visitor count of every snapshot, is the tracks still active
\* plus the "exit" events emitted: each visitor is closed once and none is lost.
VisitorsConserved == totalUnique = Cardinality(DOMAIN tracks) + ledger.closed

\* A snapshot never shows more people in a zone than the event stream places
\* there (it may show fewer: a lost track holds its zone until its TTL).
SnapshotWithinLedger ==
    \A s \in out.snapshot, n \in Names(Zones) :
        s.zone_occupancy[n] <= Cardinality({t \in Tracks : n \in DOMAIN ledger.known[t].since})

\* Leaving a queue yields a wait sample: tests/unit/test_analytics_engine.py:42.
QueueLeaveRecordsWait ==
    \A e \in out.events : e.type = "queue_leave" =>
        \E w \in out.waits : w.track = e.track

\* A wait sample is the time since the track entered the queue it now leaves, and
\* every queue left yields one (for cameras with one queue zone).
WaitSampleIsTimeInQueue ==
    [][\A e \in out'.events : e.type = "queue_leave" =>
          [track |-> e.track, wait |-> now' - ledger.known[e.track].since[e.zone]]
              \in out'.waits]_vars

\* A reader of the product_removed / product_replaced events always knows the
\* shelf's present count once one event named it (for distinct zone names).
ShelfLedgerExact ==
    \A n \in DOMAIN ledger.shelf : ledger.shelf[n] = shelfProductCount[n]

\* A shelf is in a snapshot's shelf_empty only if it is seen empty now.
EmptyShelfIsEmpty ==
    \A s \in out.snapshot : \A n \in s.shelf_empty : shelfProductCount[n] = 0

\* What the snapshots and the shelf events report agrees with the event stream and
\* with what is detected now, although each is kept and emitted on its own clock.
ReportsAgree == SnapshotWithinLedger /\ ShelfLedgerExact /\ EmptyShelfIsEmpty
=============================================================================
