----------------------- MODULE AnalyticsEngineProofs -----------------------
(***************************************************************************)
(* AnalyticsEngine's type invariant and safety properties, for every set   *)
(* of zones and tracks and every setting of the engine's limits.           *)
(*                                                                         *)
(* Two facts carry most of it.  A frame never expires a track it has seen  *)
(* (GoneUnseen), so a track's updates and its "exit" never meet in one     *)
(* frame.  And of all the events of a frame those that change what a       *)
(* reader knows of one track are its own (AlarmsOf, ZonesOf), so each    *)
(* property can be argued one track at a time.                             *)
(***************************************************************************)
EXTENDS AnalyticsEngine, FiniteSetTheorems, WellFoundedInduction, TLAPS

\* The times of an active track are in order and none is in the future.
TimesOrdered ==
    \A t \in DOMAIN tracks : /\ tracks[t].first_seen <= tracks[t].last_seen
                             /\ tracks[t].last_seen <= now

StateInv == TypeOK /\ PerTrackStateInSync /\ TimesOrdered

-----------------------------------------------------------------------------
(* Zones                                                                   *)

LEMMA ZonesAreNumbered == \E n \in Nat : Zones = 1..n
BY EngineAssumption DEF EngineAssumption, Zones

LEMMA LastIsIn ==
    ASSUME NEW zs \in SUBSET Zones, zs # {}
    PROVE  Last(zs) \in zs
<1>1. PICK n \in Nat : Zones = 1..n
  BY ZonesAreNumbered
<1>. DEFINE D == {n - z : z \in zs}
<1>2. D \in SUBSET Nat /\ D # {}
  <2>1. \A z \in zs : z \in 1..n
    BY <1>1
  <2>2. \A z \in zs : n - z \in Nat
    BY <2>1
  <2>. QED  BY <2>2
<1>3. PICK d \in D : \A e \in D : d <= e
  <2>. DEFINE Below == {p \in Nat \X Nat : p[1] < p[2]}
  <2>. HIDE DEF D
  <2>1. IsWellFoundedOn(Below, Nat)
    BY NatLessThanWellFounded DEF OpToRel
  <2>2. \E d \in D : \A e \in D : <<e, d>> \notin Below
    <3>. HIDE DEF Below
    <3>. QED  BY <1>2, <2>1, WFMin
  <2>3. \A d, e \in Nat : <<e, d>> \notin Below => d <= e
    OBVIOUS
  <2>. HIDE DEF Below
  <2>. QED  BY <1>2, <2>2, <2>3
<1>4. PICK z \in zs : d = n - z
  OBVIOUS
<1>5. \A y \in zs : y <= z
  <2>. TAKE y \in zs
  <2>1. n - z <= n - y
    BY <1>3, <1>4
  <2>. QED  BY <2>1, <1>1
<1>. QED  BY <1>5 DEF Last

LEMMA NamesMonotone ==
    ASSUME NEW zs \in SUBSET Zones
    PROVE  Names(zs) \in SUBSET Names(Zones)
BY DEF Names

-----------------------------------------------------------------------------
(* One frame                                                               *)

\* Every step that is not a stutter is a frame, no earlier than the last.
LEMMA StepIsFrame ==
    ASSUME TypeOK, [Next]_vars, vars' # vars
    PROVE  \E seen \in Seen, products \in [Shelves -> 0..MaxProducts], at \in 0..MaxTime :
              now <= at /\ Process(seen, products, at)
<1>1. PICK seen \in Seen, products \in [Shelves -> 0..MaxProducts], dt \in Steps :
          now + dt <= MaxTime /\ Process(seen, products, now + dt)
  BY DEF Next
<1>2. now + dt \in 0..MaxTime /\ now <= now + dt
  BY <1>1, EngineAssumption DEF TypeOK, EngineAssumption
<1>. QED  BY <1>1, <1>2

LEMMA SeenPlaces ==
    ASSUME NEW seen \in Seen
    PROVE  /\ DOMAIN seen \subseteq Tracks
           /\ \A t \in DOMAIN seen : seen[t] \subseteq Zones
BY EngineAssumption DEF Seen, EngineAssumption

\* store.update() leaves a track of the store's type with its times in order.
LEMMA TouchedTracks ==
    ASSUME TypeOK, TimesOrdered, NEW seen \in Seen, NEW at \in 0..MaxTime, now <= at,
           NEW t \in DOMAIN tracks \cup DOMAIN seen
    PROVE  LET st == Touched(seen, at)[t]
           IN  /\ st \in TrackState
               /\ st.first_seen <= st.last_seen /\ st.last_seen <= at
               /\ t \in DOMAIN seen => st.last_seen = at
               /\ t \notin DOMAIN seen => st = tracks[t]
<1>1. CASE t \notin DOMAIN seen
  BY <1>1, EngineAssumption DEF Touched, TypeOK, TimesOrdered, TrackState, EngineAssumption
<1>2. CASE t \in DOMAIN seen /\ t \in DOMAIN tracks
  <2>1. Names(seen[t]) \subseteq Names(Zones)
    BY <1>2, SeenPlaces, NamesMonotone
  <2>2. Touched(seen, at)[t] = [tracks[t] EXCEPT !.last_seen = at,
                                   !.zones_visited = tracks[t].zones_visited \cup Names(seen[t])]
    BY <1>2 DEF Touched, Touch
  <2>3. tracks[t] \in TrackState
    BY <1>2 DEF TypeOK
  <2>4. tracks[t].first_seen <= at
    BY <1>2, EngineAssumption DEF TypeOK, TimesOrdered, TrackState, EngineAssumption
  <2>5. Touched(seen, at)[t] \in TrackState
    BY <2>1, <2>2, <2>3 DEF TrackState
  <2>6. Touched(seen, at)[t].last_seen = at /\ Touched(seen, at)[t].first_seen = tracks[t].first_seen
    BY <2>2, <2>3 DEF TrackState
  <2>. QED  BY <1>2, <2>4, <2>5, <2>6
<1>3. CASE t \in DOMAIN seen /\ t \notin DOMAIN tracks
  <2>1. Names(seen[t]) \subseteq Names(Zones)
    BY <1>3, SeenPlaces, NamesMonotone
  <2>. QED  BY <1>3, <2>1 DEF Touched, Touch, TrackState
<1>. QED  BY <1>1, <1>2, <1>3

\* No frame expires a track it has seen.
LEMMA GoneUnseen ==
    ASSUME TypeOK, TimesOrdered, NEW seen \in Seen, NEW at \in 0..MaxTime, now <= at
    PROVE  Gone(seen, at) = {t \in DOMAIN tracks \ DOMAIN seen : at - tracks[t].last_seen > TtlS}
<1>1. \A t \in DOMAIN seen : Touched(seen, at)[t].last_seen = at
  BY TouchedTracks
<1>2. \A t \in DOMAIN tracks \ DOMAIN seen : Touched(seen, at)[t] = tracks[t]
  BY TouchedTracks
<1>3. ~(at - at > TtlS)
  BY EngineAssumption DEF EngineAssumption
<1>. QED  BY <1>1, <1>2, <1>3 DEF Gone

-----------------------------------------------------------------------------
(* Types and per-track state                                               *)

LEMMA CountNat ==
    ASSUME NEW S \in SUBSET Tracks
    PROVE  IsFiniteSet(S) /\ Cardinality(S) \in Nat
<1>1. IsFiniteSet(Tracks)
  BY EngineAssumption DEF EngineAssumption
<1>. QED  BY <1>1, FS_Subset, FS_CardinalityType

LEMMA PeopleTyped ==
    ASSUME StateInv, NEW seen \in Seen, NEW at \in 0..MaxTime, now <= at, UpdatePeople(seen, at)
    PROVE  /\ DOMAIN tracks' \subseteq Tracks /\ tracks' \in [DOMAIN tracks' -> TrackState]
           /\ totalUnique' \in Nat
           /\ trackZones' \in [DOMAIN trackZones' -> SUBSET Names(Zones)]
           /\ queueJoinedAt' \in [DOMAIN queueJoinedAt' -> 0..MaxTime]
           /\ loiterFlagged' \subseteq Tracks /\ restrictedFlagged' \subseteq Tracks
<1>. USE DEF StateInv
<1>1. /\ DOMAIN seen \subseteq Tracks
      /\ \A t \in DOMAIN seen : Names(seen[t]) \in SUBSET Names(Zones)
  BY SeenPlaces, NamesMonotone
<1>2. DOMAIN tracks' \subseteq Tracks /\ tracks' \in [DOMAIN tracks' -> TrackState]
  <2>1. \A t \in DOMAIN Touched(seen, at) : t \in Tracks /\ Touched(seen, at)[t] \in TrackState
    BY <1>1, TouchedTracks DEF TypeOK, Touched
  <2>. QED  BY <2>1 DEF UpdatePeople
<1>3. totalUnique' \in Nat
  BY <1>1, CountNat DEF UpdatePeople, NewTracks, TypeOK
<1>4. trackZones' \in [DOMAIN trackZones' -> SUBSET Names(Zones)]
  BY <1>1 DEF UpdatePeople, TypeOK
<1>5. queueJoinedAt' \in [DOMAIN queueJoinedAt' -> 0..MaxTime]
  <2>1. \A t \in StillQueued(seen, at) : Joined(seen, at)[t] \in 0..MaxTime
    BY DEF StillQueued, Joined, TypeOK
  <2>. QED  BY <2>1 DEF UpdatePeople
<1>6. loiterFlagged' \subseteq Tracks /\ restrictedFlagged' \subseteq Tracks
  BY <1>1 DEF UpdatePeople, Loitering, EntersRestricted, TypeOK
<1>. QED  BY <1>2, <1>3, <1>4, <1>5, <1>6

LEMMA ShelvesTyped ==
    ASSUME TypeOK, NEW products \in [Shelves -> 0..MaxProducts], NEW at \in 0..MaxTime,
           UpdateShelves(products, at)
    PROVE  /\ shelfLastProduct' \in [DOMAIN shelfLastProduct' -> 0..MaxTime]
           /\ shelfProductCount' \in [DOMAIN shelfProductCount' -> 0..MaxProducts]
<1>1. shelfLastProduct' \in [DOMAIN shelfLastProduct' -> 0..MaxTime]
  BY DEF UpdateShelves, TypeOK
<1>2. ASSUME NEW n \in Names(Shelves)
      PROVE  products[Last({z \in Shelves : Name(z) = n})] \in 0..MaxProducts
  <2>1. {z \in Shelves : Name(z) = n} # {} /\ {z \in Shelves : Name(z) = n} \in SUBSET Zones
    BY <1>2 DEF Names, Shelves, OfType
  <2>. QED  BY <2>1, LastIsIn
<1>3. shelfProductCount' \in [DOMAIN shelfProductCount' -> 0..MaxProducts]
  BY <1>2 DEF UpdateShelves
<1>. QED  BY <1>1, <1>3

LEMMA SyncKept ==
    ASSUME StateInv, NEW seen \in Seen, NEW at \in 0..MaxTime, now <= at, now' = at,
           UpdatePeople(seen, at)
    PROVE  PerTrackStateInSync' /\ TimesOrdered'
<1>. USE DEF StateInv
<1>1. /\ DOMAIN tracks' = (DOMAIN tracks \cup DOMAIN seen) \ Gone(seen, at)
      /\ \A t \in DOMAIN tracks' : tracks'[t] = Touched(seen, at)[t]
  BY DEF UpdatePeople, Touched
<1>2. \A t \in DOMAIN tracks' : at - tracks'[t].last_seen <= TtlS
  <2>1. \A t \in DOMAIN tracks' : ~(at - tracks'[t].last_seen > TtlS)
    BY <1>1 DEF Gone
  <2>2. \A t \in DOMAIN tracks' : tracks'[t].last_seen \in 0..MaxTime
    BY <1>1, TouchedTracks DEF TrackState
  <2>. QED  BY <2>1, <2>2, EngineAssumption DEF EngineAssumption
<1>3. DOMAIN trackZones' = DOMAIN tracks'
  BY <1>1 DEF UpdatePeople, PerTrackStateInSync
<1>4. DOMAIN queueJoinedAt' \subseteq DOMAIN tracks'
  BY <1>1 DEF UpdatePeople, PerTrackStateInSync, StillQueued, Joined, JoinsQueue
<1>5. loiterFlagged' \subseteq DOMAIN tracks' /\ restrictedFlagged' \subseteq DOMAIN tracks'
  BY <1>1 DEF UpdatePeople, PerTrackStateInSync, Loitering, EntersRestricted
<1>6. TimesOrdered'
  BY <1>1, TouchedTracks DEF TimesOrdered
<1>. QED  BY <1>2, <1>3, <1>4, <1>5, <1>6 DEF PerTrackStateInSync

LEMMA StateInit == Init => StateInv
BY EngineAssumption
DEF EngineAssumption, Init, StateInv, TypeOK, PerTrackStateInSync, TimesOrdered, Never

LEMMA StateStep == StateInv /\ [Next]_vars => StateInv'
<1>. SUFFICES ASSUME StateInv, [Next]_vars PROVE StateInv'
  OBVIOUS
<1>1. CASE vars' = vars
  BY <1>1 DEF vars, engineVars, shelfVars, StateInv, TypeOK, PerTrackStateInSync, TimesOrdered
<1>2. CASE vars' # vars
  <2>. PICK seen \in Seen, products \in [Shelves -> 0..MaxProducts], at \in 0..MaxTime :
            now <= at /\ Process(seen, products, at)
    BY <1>2, StepIsFrame DEF StateInv
  <2>1. UpdatePeople(seen, at) /\ UpdateShelves(products, at) /\ now' = at
    BY DEF Process
  <2>2. lastSnapshot' \in {Never} \cup 0..MaxTime
    BY DEF Process, StateInv, TypeOK
  <2>3. TypeOK'
    BY <2>1, <2>2, PeopleTyped, ShelvesTyped DEF StateInv, TypeOK
  <2>. QED  BY <2>1, <2>3, SyncKept DEF StateInv
<1>. QED  BY <1>1, <1>2

LEMMA StateInvariant == Spec => []StateInv
BY StateInit, StateStep, PTL DEF Spec

\* Every field of the engine and the store keeps its type, whatever the frames bring.
THEOREM TypeCorrect == Spec => []TypeOK
<1>1. StateInv => TypeOK
  BY DEF StateInv
<1>. QED  BY <1>1, StateInvariant, PTL

\* The engine's four per-track maps hold exactly tracks the store still has, none of
\* them silent for longer than its TTL: no state of one visitor reaches the next one
\* whom the tracker gives the same id.
THEOREM NoStateOutlivesTrack == Spec => []PerTrackStateInSync
<1>1. StateInv => PerTrackStateInSync
  BY DEF StateInv
<1>. QED  BY <1>1, StateInvariant, PTL

-----------------------------------------------------------------------------
(* The events of a frame that concern one track                            *)

LEMMA EventsMembers ==
    ASSUME NEW seen, NEW products, NEW at, NEW e
    PROVE  e \in Events(seen, products, at) <=>
              \/ \E u \in DOMAIN seen : e \in PersonEvents(seen, u)
              \/ e \in RestrictedEvents(seen)
              \/ e \in LoiterEvents(seen, at)
              \/ e \in ShelfEvents(products)
              \/ e \in ExitEvents(seen, at)
BY DEF Events

LEMMA RestrictedOf ==
    ASSUME NEW seen, NEW e \in RestrictedEvents(seen)
    PROVE  e.type = "restricted_zone" /\ e.track \in EntersRestricted(seen) \ restrictedFlagged
<1>1. \A u, n : /\ Event("restricted_zone", u, n).type = "restricted_zone"
               /\ Event("restricted_zone", u, n).track = u
  BY DEF Event
<1>2. PICK u \in EntersRestricted(seen) \ restrictedFlagged :
          e = Event("restricted_zone", u, Name(First(Entered(seen, u) \cap OfType("restricted"))))
  BY Zenon DEF RestrictedEvents
<1>. QED  BY <1>1, <1>2

\* What the type of an event says about where it comes from.
LEMMA EventsByType ==
    ASSUME NEW seen, NEW products, NEW at, NEW e \in Events(seen, products, at)
    PROVE  /\ e.type = "zone_enter" =>
                \E u \in DOMAIN seen : \E z \in Entered(seen, u) : e = Event("zone_enter", u, Name(z))
           /\ e.type = "zone_exit" =>
                \E u \in DOMAIN seen : \E n \in LeftNames(seen, u) : e = Event("zone_exit", u, n)
           /\ e.type = "restricted_zone" => e \in RestrictedEvents(seen)
           /\ e.type = "loitering" => e \in LoiterEvents(seen, at)
           /\ e.type = "exit" => e \in ExitEvents(seen, at)
<1>1. \A u \in DOMAIN seen : e \in PersonEvents(seen, u) =>
         \/ \E z \in Entered(seen, u) : e = Event("zone_enter", u, Name(z))
         \/ \E n \in LeftNames(seen, u) : e = Event("zone_exit", u, n)
         \/ e.type \in {"entry", "queue_join", "shelf_interaction", "queue_leave"}
  <2>. TAKE u \in DOMAIN seen
  <2>. HAVE e \in PersonEvents(seen, u)
  <2>1. \A type, zs : e \in ZoneEvents(type, u, zs) =>
            e.type = type /\ \E z \in zs : e = Event(type, u, Name(z))
    BY DEF ZoneEvents, Event
  <2>2. CASE e \in ZoneEvents("zone_enter", u, Entered(seen, u))
    BY <2>1, <2>2
  <2>3. CASE \/ e \in ZoneEvents("entry", u, Entered(seen, u) \cap OfType("entrance"))
             \/ e \in ZoneEvents("queue_join", u, Entered(seen, u) \cap OfType("queue"))
             \/ e \in ZoneEvents("shelf_interaction", u, seen[u] \cap Shelves)
    BY <2>1, <2>3
  <2>4. CASE e \in {Event("zone_exit", u, n) : n \in LeftNames(seen, u)}
    BY <2>4
  <2>5. CASE e \in {Event("queue_leave", u, n) : n \in QueuesLeft(seen, u)}
    BY <2>5 DEF Event
  <2>. QED  BY <2>2, <2>3, <2>4, <2>5 DEF PersonEvents
<1>2. e \in RestrictedEvents(seen) => e.type = "restricted_zone"
  BY RestrictedOf
<1>3. e \in LoiterEvents(seen, at) => e.type = "loitering"
  BY DEF LoiterEvents, Event
<1>4. e \in ShelfEvents(products) => e.type = "shelf_interaction"
  BY DEF ShelfEvents, ShelfEvent
<1>5. e \in ExitEvents(seen, at) => e.type = "exit"
  BY DEF ExitEvents
<1>6. \A u, n : Event("zone_enter", u, n).type = "zone_enter" /\ Event("zone_exit", u, n).type = "zone_exit"
  BY DEF Event
<1>. QED  BY <1>1, <1>2, <1>3, <1>4, <1>5, <1>6, EventsMembers

LEMMA AlarmsOf ==
    ASSUME NEW seen, NEW products, NEW at, NEW t
    PROVE  /\ Mine(Events(seen, products, at), "exit", t) # {} <=> t \in Gone(seen, at)
           /\ Mine(Events(seen, products, at), "loitering", t) # {}
                <=> t \in Loitering(seen, at) \ loiterFlagged
           /\ Mine(Events(seen, products, at), "restricted_zone", t) # {}
                <=> t \in EntersRestricted(seen) \ restrictedFlagged
<1>. DEFINE evs == Events(seen, products, at)
<1>1. ASSUME NEW e \in Mine(evs, "exit", t) PROVE t \in Gone(seen, at)
  BY EventsByType DEF Mine, ExitEvents
<1>2. ASSUME t \in Gone(seen, at) PROVE Mine(evs, "exit", t) # {}
  <2>. DEFINE e == [type |-> "exit", track |-> t, closed |-> Touched(seen, at)[t]]
  <2>1. e \in ExitEvents(seen, at)
    BY <1>2 DEF ExitEvents
  <2>2. e \in evs /\ e.type = "exit" /\ e.track = t
    BY <2>1, EventsMembers
  <2>. QED  BY <2>2 DEF Mine
<1>3. ASSUME NEW e \in Mine(evs, "loitering", t) PROVE t \in Loitering(seen, at) \ loiterFlagged
  BY EventsByType DEF Mine, LoiterEvents, Event
<1>4. ASSUME t \in Loitering(seen, at) \ loiterFlagged PROVE Mine(evs, "loitering", t) # {}
  <2>1. Event("loitering", t, None) \in evs
    BY <1>4, EventsMembers DEF LoiterEvents
  <2>. QED  BY <2>1 DEF Event, Mine
<1>5. ASSUME NEW e \in Mine(evs, "restricted_zone", t)
      PROVE  t \in EntersRestricted(seen) \ restrictedFlagged
  BY EventsByType, RestrictedOf DEF Mine
<1>6. ASSUME t \in EntersRestricted(seen) \ restrictedFlagged
      PROVE  Mine(evs, "restricted_zone", t) # {}
  <2>. DEFINE n == Name(First(Entered(seen, t) \cap OfType("restricted")))
  <2>1. Event("restricted_zone", t, n) \in evs
    BY <1>6, EventsMembers DEF RestrictedEvents
  <2>. QED  BY <2>1 DEF Event, Mine
<1>. QED  BY <1>1, <1>2, <1>3, <1>4, <1>5, <1>6

LEMMA ZonesOf ==
    ASSUME NEW seen, NEW products, NEW at, NEW t
    PROVE  /\ {e.zone : e \in Mine(Events(seen, products, at), "zone_enter", t)}
                = IF t \in DOMAIN seen THEN Names(Entered(seen, t)) ELSE {}
           /\ {e.zone : e \in Mine(Events(seen, products, at), "zone_exit", t)}
                = IF t \in DOMAIN seen THEN LeftNames(seen, t) ELSE {}
<1>. DEFINE evs == Events(seen, products, at)
<1>1. ASSUME NEW e \in Mine(evs, "zone_enter", t)
      PROVE  t \in DOMAIN seen /\ e.zone \in Names(Entered(seen, t))
  BY EventsByType DEF Mine, Event, Names
<1>2. ASSUME t \in DOMAIN seen, NEW n \in Names(Entered(seen, t))
      PROVE  \E e \in Mine(evs, "zone_enter", t) : e.zone = n
  <2>. PICK z \in Entered(seen, t) : n = Name(z)
    BY DEF Names
  <2>1. Event("zone_enter", t, n) \in PersonEvents(seen, t)
    <3>1. Event("zone_enter", t, n) \in ZoneEvents("zone_enter", t, Entered(seen, t))
      BY DEF ZoneEvents
    <3>. QED  BY <3>1 DEF PersonEvents
  <2>2. Event("zone_enter", t, n) \in evs
    BY <1>2, <2>1, EventsMembers
  <2>. QED  BY <2>2 DEF Event, Mine
<1>3. ASSUME NEW e \in Mine(evs, "zone_exit", t)
      PROVE  t \in DOMAIN seen /\ e.zone \in LeftNames(seen, t)
  BY EventsByType DEF Mine, Event
<1>4. ASSUME t \in DOMAIN seen, NEW n \in LeftNames(seen, t)
      PROVE  \E e \in Mine(evs, "zone_exit", t) : e.zone = n
  <2>1. Event("zone_exit", t, n) \in PersonEvents(seen, t)
    BY DEF PersonEvents
  <2>2. Event("zone_exit", t, n) \in evs
    BY <1>4, <2>1, EventsMembers
  <2>. QED  BY <2>2 DEF Event, Mine
<1>. HIDE DEF evs
<1>5. {e.zone : e \in Mine(evs, "zone_enter", t)}
        = IF t \in DOMAIN seen THEN Names(Entered(seen, t)) ELSE {}
  BY <1>1, <1>2
<1>6. {e.zone : e \in Mine(evs, "zone_exit", t)}
        = IF t \in DOMAIN seen THEN LeftNames(seen, t) ELSE {}
  BY <1>3, <1>4
<1>. QED  BY <1>5, <1>6 DEF evs

-----------------------------------------------------------------------------
(* The reader of the event stream                                          *)

\* What a frame teaches the reader about one track.
LEMMA Learned ==
    ASSUME NEW seen, NEW products, NEW at, Process(seen, products, at), NEW t \in Tracks
    PROVE  LET k == ledger.known[t]
               l == ledger'.known[t]
           IN  /\ t \in Gone(seen, at) => l.alarms = {} /\ DOMAIN l.since = {}
               /\ t \notin Gone(seen, at) =>
                    /\ "loitering" \in l.alarms <=>
                          "loitering" \in k.alarms \/ t \in Loitering(seen, at) \ loiterFlagged
                    /\ "restricted_zone" \in l.alarms <=>
                          "restricted_zone" \in k.alarms
                          \/ t \in EntersRestricted(seen) \ restrictedFlagged
                    /\ t \in DOMAIN seen => DOMAIN l.since =
                          (DOMAIN k.since \cup Names(Entered(seen, t))) \ LeftNames(seen, t)
                    /\ t \notin DOMAIN seen => DOMAIN l.since = DOMAIN k.since
<1>. DEFINE evs   == Events(seen, products, at)
            k     == ledger.known[t]
            enter == {e.zone : e \in Mine(evs, "zone_enter", t)}
            left  == {e.zone : e \in Mine(evs, "zone_exit", t)}
<1>1. ledger'.known[t] = Learn(k, evs, t, at)
  BY DEF Process, Read
<1>2. Learn(k, evs, t, at) =
        IF Mine(evs, "exit", t) # {} THEN NothingKnown
        ELSE [since  |-> [n \in (DOMAIN k.since \cup enter) \ left |->
                            IF n \in enter THEN at ELSE k.since[n]],
              alarms |-> k.alarms \cup
                         {a \in {"loitering", "restricted_zone"} : Mine(evs, a, t) # {}}]
  BY DEF Learn
<1>3. /\ Mine(evs, "exit", t) # {} <=> t \in Gone(seen, at)
      /\ Mine(evs, "loitering", t) # {} <=> t \in Loitering(seen, at) \ loiterFlagged
      /\ Mine(evs, "restricted_zone", t) # {} <=> t \in EntersRestricted(seen) \ restrictedFlagged
  BY AlarmsOf
<1>4. /\ enter = IF t \in DOMAIN seen THEN Names(Entered(seen, t)) ELSE {}
      /\ left = IF t \in DOMAIN seen THEN LeftNames(seen, t) ELSE {}
  BY ZonesOf, Zenon
<1>. HIDE DEF enter, left, evs, k
<1>5. CASE t \in Gone(seen, at)
  BY <1>1, <1>2, <1>3, <1>5 DEF NothingKnown
<1>6. CASE t \notin Gone(seen, at)
  <2>1. /\ ledger'.known[t].alarms = k.alarms \cup
              {a \in {"loitering", "restricted_zone"} : Mine(evs, a, t) # {}}
        /\ DOMAIN ledger'.known[t].since = (DOMAIN k.since \cup enter) \ left
    BY <1>1, <1>2, <1>3, <1>6
  <2>. QED  BY <2>1, <1>3, <1>4, <1>6 DEF k
<1>. QED  BY <1>5, <1>6

LEMMA LedgerZonesKept ==
    ASSUME StateInv, LedgerMatchesEngine, NEW seen \in Seen, NEW products, NEW at \in 0..MaxTime,
           now <= at, Process(seen, products, at)
    PROVE  LedgerMatchesEngine'
<1>. SUFFICES ASSUME NEW t \in Tracks PROVE DOMAIN ledger'.known[t].since = Prev(t)'
  BY DEF LedgerMatchesEngine
<1>. USE DEF StateInv
<1>1. /\ DOMAIN trackZones' = (DOMAIN trackZones \cup DOMAIN seen) \ Gone(seen, at)
      /\ \A u \in DOMAIN trackZones' :
            trackZones'[u] = IF u \in DOMAIN seen THEN Names(seen[u]) ELSE trackZones[u]
  BY DEF Process, UpdatePeople
<1>2. CASE t \in Gone(seen, at)
  BY <1>1, <1>2, Learned DEF Prev
<1>3. CASE t \notin Gone(seen, at) /\ t \notin DOMAIN seen
  BY <1>1, <1>3, Learned DEF Prev, LedgerMatchesEngine
<1>4. CASE t \notin Gone(seen, at) /\ t \in DOMAIN seen
  <2>1. DOMAIN ledger'.known[t].since = (Prev(t) \cup Names(Entered(seen, t))) \ LeftNames(seen, t)
    BY <1>4, Learned DEF LedgerMatchesEngine
  <2>2. (Prev(t) \cup Names(Entered(seen, t))) \ LeftNames(seen, t) = Names(seen[t])
    BY DEF Entered, LeftNames, Names
  <2>3. Prev(t)' = Names(seen[t])
    BY <1>1, <1>4 DEF Prev
  <2>. QED  BY <2>1, <2>2, <2>3
<1>. QED  BY <1>2, <1>3, <1>4

\* The engine's two flag sets are the alarms the reader has seen.
FlagsInv ==
    \A t \in Tracks : /\ t \in loiterFlagged <=> "loitering" \in ledger.known[t].alarms
                      /\ t \in restrictedFlagged <=> "restricted_zone" \in ledger.known[t].alarms

LEMMA FlagsKept ==
    ASSUME FlagsInv, StateInv, NEW seen \in Seen, NEW products, NEW at \in 0..MaxTime, now <= at,
           Process(seen, products, at)
    PROVE  FlagsInv'
<1>. SUFFICES ASSUME NEW t \in Tracks
              PROVE  /\ t \in loiterFlagged' <=> "loitering" \in ledger'.known[t].alarms
                     /\ t \in restrictedFlagged' <=> "restricted_zone" \in ledger'.known[t].alarms
  BY DEF FlagsInv
<1>1. /\ loiterFlagged' = (loiterFlagged \cup Loitering(seen, at)) \ Gone(seen, at)
      /\ restrictedFlagged' = (restrictedFlagged \cup EntersRestricted(seen)) \ Gone(seen, at)
  BY DEF Process, UpdatePeople
<1>2. CASE t \in Gone(seen, at)
  BY <1>1, <1>2, Learned
<1>3. CASE t \notin Gone(seen, at)
  BY <1>1, <1>3, Learned DEF FlagsInv
<1>. QED  BY <1>2, <1>3

LEMMA LoiteringKept ==
    ASSUME FlagsInv, LoiteringAlarmExact, StateInv, NEW seen \in Seen, NEW products,
           NEW at \in 0..MaxTime, now <= at, Process(seen, products, at)
    PROVE  LoiteringAlarmExact'
<1>. SUFFICES ASSUME NEW t \in Tracks
              PROVE  "loitering" \in ledger'.known[t].alarms <=>
                        t \in DOMAIN tracks' /\ Duration(tracks'[t]) > LoiterSeconds
  BY DEF LoiteringAlarmExact, Duration
<1>. USE DEF StateInv
<1>1. /\ DOMAIN tracks' = (DOMAIN tracks \cup DOMAIN seen) \ Gone(seen, at)
      /\ \A u \in DOMAIN tracks' : tracks'[u] = Touched(seen, at)[u]
  BY DEF Process, UpdatePeople, Touched
<1>2. CASE t \in Gone(seen, at)
  BY <1>1, <1>2, Learned
<1>3. CASE t \notin Gone(seen, at) /\ t \notin DOMAIN seen
  <2>1. t \in DOMAIN tracks' <=> t \in DOMAIN tracks
    BY <1>1, <1>3
  <2>2. t \in DOMAIN tracks => tracks'[t] = tracks[t]
    BY <1>1, <1>3, TouchedTracks
  <2>3. t \notin Loitering(seen, at)
    BY <1>3 DEF Loitering
  <2>. QED  BY <1>3, <2>1, <2>2, <2>3, Learned DEF LoiteringAlarmExact
<1>4. CASE t \in DOMAIN seen
  <2>1. t \notin Gone(seen, at) /\ t \in DOMAIN tracks'
    BY <1>1, <1>4, GoneUnseen
  <2>2. t \in Loitering(seen, at) <=> Duration(tracks'[t]) > LoiterSeconds
    BY <1>1, <1>4, <2>1 DEF Loitering
  <2>3. t \in DOMAIN tracks /\ Duration(tracks[t]) > LoiterSeconds => Duration(tracks'[t]) > LoiterSeconds
    <3>. SUFFICES ASSUME t \in DOMAIN tracks
                  PROVE  Duration(tracks[t]) > LoiterSeconds => Duration(tracks'[t]) > LoiterSeconds
      OBVIOUS
    <3>1. tracks[t] \in TrackState
      BY DEF TypeOK
    <3>2. tracks'[t].first_seen = tracks[t].first_seen /\ tracks'[t].last_seen = at
      BY <1>1, <1>4, <2>1, <3>1 DEF Touched, Touch, TrackState
    <3>3. tracks[t].last_seen <= at
      BY <3>1, EngineAssumption DEF TimesOrdered, TrackState, TypeOK, EngineAssumption
    <3>. QED  BY <3>1, <3>2, <3>3, EngineAssumption DEF Duration, TrackState, EngineAssumption
  <2>4. "loitering" \in ledger'.known[t].alarms <=>
            "loitering" \in ledger.known[t].alarms \/ t \in Loitering(seen, at)
    BY <2>1, Learned DEF FlagsInv
  <2>. QED  BY <2>1, <2>2, <2>3, <2>4 DEF LoiteringAlarmExact
<1>. QED  BY <1>2, <1>3, <1>4

-----------------------------------------------------------------------------
(* Counting visitors                                                       *)

\* A frame emits one "exit" for every track it expires.
LEMMA ExitsCounted ==
    ASSUME NEW seen, NEW products, NEW at, Gone(seen, at) \subseteq Tracks
    PROVE  Cardinality({e \in Events(seen, products, at) : e.type = "exit"}) = Cardinality(Gone(seen, at))
<1>. DEFINE G     == Gone(seen, at)
            exit  == [t \in G |-> [type |-> "exit", track |-> t, closed |-> Touched(seen, at)[t]]]
            exits == {e \in Events(seen, products, at) : e.type = "exit"}
<1>1. exits = ExitEvents(seen, at)
  <2>1. \A e \in ExitEvents(seen, at) : e.type = "exit"
    BY DEF ExitEvents
  <2>. QED  BY <2>1, EventsByType, EventsMembers
<1>2. ExitEvents(seen, at) = {exit[t] : t \in G}
  BY DEF ExitEvents
<1>3. \A t \in G : exit[t].track = t
  OBVIOUS
<1>. HIDE DEF exit
<1>4. exit \in [G -> exits] /\ (\A s, t \in G : exit[s] = exit[t] => s = t)
  <2>1. exit \in [G -> {exit[t] : t \in G}]
    BY DEF exit
  <2>. QED  BY <1>1, <1>2, <1>3, <2>1
<1>5. \A e \in exits : \E t \in G : exit[t] = e
  BY <1>1, <1>2
<1>6. exit \in Bijection(G, exits)
  BY <1>4, <1>5 DEF Bijection, Injection, Surjection, IsInjective
<1>7. IsFiniteSet(G)
  BY CountNat
<1>. HIDE DEF G, exits
<1>8. Cardinality(exits) = Cardinality(G)
  BY <1>6, <1>7, FS_Bijection DEF ExistsBijection
<1>. QED  BY <1>8 DEF G, exits

VisitorsInv == VisitorsConserved /\ ledger.closed \in Nat

LEMMA VisitorsKept ==
    ASSUME StateInv, VisitorsInv, NEW seen \in Seen, NEW products, NEW at \in 0..MaxTime, now <= at,
           Process(seen, products, at)
    PROVE  VisitorsInv'
<1>. DEFINE old  == DOMAIN tracks
            new  == NewTracks(seen)
            gone == Gone(seen, at)
<1>1. old \subseteq Tracks /\ new \subseteq Tracks /\ gone \subseteq old
  BY SeenPlaces, GoneUnseen DEF StateInv, TypeOK, NewTracks
<1>2. DOMAIN tracks' = (old \cup new) \ gone /\ old \cap new = {}
  BY DEF Process, UpdatePeople, Touched, NewTracks
<1>3. totalUnique' = totalUnique + Cardinality(new)
  BY DEF Process, UpdatePeople
<1>4. ledger'.closed = ledger.closed + Cardinality(gone)
  BY <1>1, ExitsCounted DEF Process, Read
<1>. HIDE DEF old, new, gone
<1>5. /\ IsFiniteSet(old) /\ IsFiniteSet(new) /\ IsFiniteSet(gone)
      /\ Cardinality(old) \in Nat /\ Cardinality(new) \in Nat /\ Cardinality(gone) \in Nat
  <2>1. gone \subseteq Tracks
    BY <1>1
  <2>. QED  BY <1>1, <2>1, CountNat
<1>6. IsFiniteSet(old \cup new) /\ Cardinality(old \cup new) = Cardinality(old) + Cardinality(new)
  BY <1>2, <1>5, FS_Union, FS_EmptySet
<1>7. Cardinality((old \cup new) \ gone) = Cardinality(old) + Cardinality(new) - Cardinality(gone)
  <2>. DEFINE all  == old \cup new
              both == all \cap gone
  <2>1. both = gone
    BY <1>1
  <2>2. IsFiniteSet(all) /\ Cardinality(all) = Cardinality(old) + Cardinality(new)
    BY <1>6
  <2>. HIDE DEF all
  <2>3. Cardinality(all \ gone) = Cardinality(all) - Cardinality(both)
    BY <2>2, FS_Difference
  <2>. HIDE DEF both
  <2>4. Cardinality(all \ gone) = Cardinality(old) + Cardinality(new) - Cardinality(gone)
    BY <1>5, <2>1, <2>2, <2>3
  <2>. QED  BY <2>4 DEF all
<1>8. totalUnique = Cardinality(old) + ledger.closed /\ ledger.closed \in Nat
  BY DEF VisitorsInv, VisitorsConserved, old
<1>9. totalUnique' = Cardinality(DOMAIN tracks') + ledger'.closed /\ ledger'.closed \in Nat
  BY <1>2, <1>3, <1>4, <1>5, <1>7, <1>8
<1>. QED  BY <1>9 DEF VisitorsInv, VisitorsConserved

-----------------------------------------------------------------------------
(* The safety properties                                                   *)

ReaderInv == StateInv /\ LedgerMatchesEngine /\ FlagsInv /\ LoiteringAlarmExact /\ VisitorsInv

LEMMA ReaderInit == Init => ReaderInv
<1>. SUFFICES ASSUME Init PROVE ReaderInv
  OBVIOUS
<1>1. StateInv
  BY StateInit
<1>2. LedgerMatchesEngine /\ FlagsInv /\ LoiteringAlarmExact
  BY DEF Init, LedgerMatchesEngine, Prev, FlagsInv, LoiteringAlarmExact, NothingKnown
<1>3. VisitorsInv
  BY FS_EmptySet DEF Init, VisitorsInv, VisitorsConserved
<1>. QED  BY <1>1, <1>2, <1>3 DEF ReaderInv

LEMMA ReaderStep == ReaderInv /\ [Next]_vars => ReaderInv'
<1>. SUFFICES ASSUME ReaderInv, [Next]_vars PROVE ReaderInv'
  OBVIOUS
<1>. USE DEF ReaderInv
<1>1. StateInv'
  BY StateStep
<1>2. CASE vars' = vars
  BY <1>1, <1>2 DEF vars, engineVars, LedgerMatchesEngine, Prev, FlagsInv, LoiteringAlarmExact,
                    Duration, VisitorsInv, VisitorsConserved
<1>3. CASE vars' # vars
  <2>. PICK seen \in Seen, products \in [Shelves -> 0..MaxProducts], at \in 0..MaxTime :
            now <= at /\ Process(seen, products, at)
    BY <1>3, StepIsFrame DEF StateInv
  <2>. QED  BY <1>1, LedgerZonesKept, FlagsKept, LoiteringKept, VisitorsKept
<1>. QED  BY <1>2, <1>3

LEMMA ReaderInvariant == Spec => []ReaderInv
BY ReaderInit, ReaderStep, PTL DEF Spec

\* A consumer of zone_enter, zone_exit and exit events reconstructs exactly the zones
\* process() holds each track in, with no event missing, doubled or left over.
THEOREM StreamTellsZones == Spec => []LedgerMatchesEngine
<1>1. ReaderInv => LedgerMatchesEngine
  BY DEF ReaderInv
<1>. QED  BY <1>1, ReaderInvariant, PTL

\* The loitering alarm has been raised for precisely the active tracks that have
\* dwelt longer than LOITER_SECONDS.
THEOREM LoiteringExact == Spec => []LoiteringAlarmExact
<1>1. ReaderInv => LoiteringAlarmExact
  BY DEF ReaderInv
<1>. QED  BY <1>1, ReaderInvariant, PTL

\* Every visitor total_unique counts is active or was closed by one exit event.
THEOREM NoVisitorLost == Spec => []VisitorsConserved
<1>1. ReaderInv => VisitorsConserved
  BY DEF ReaderInv, VisitorsInv
<1>. QED  BY <1>1, ReaderInvariant, PTL

\* The flag sets keep loitering and restricted_zone from being raised a second time
\* for one track.
THEOREM AlarmsOnce == Spec => AlarmsRaisedOnce
<1>1. ReaderInv /\ [Next]_vars =>
         [\A e \in out'.events : e.type \in {"loitering", "restricted_zone"} =>
              e.type \notin ledger.known[e.track].alarms]_vars
  <2>. SUFFICES ASSUME ReaderInv, [Next]_vars, vars' # vars,
                       NEW e \in out'.events, e.type \in {"loitering", "restricted_zone"}
                PROVE  e.type \notin ledger.known[e.track].alarms
    OBVIOUS
  <2>. PICK seen \in Seen, products \in [Shelves -> 0..MaxProducts], at \in 0..MaxTime :
            now <= at /\ Process(seen, products, at)
    BY StepIsFrame DEF ReaderInv, StateInv
  <2>1. e \in Events(seen, products, at)
    BY DEF Process
  <2>2. CASE e.type = "loitering"
    <3>1. e.track \in Loitering(seen, at) \ loiterFlagged
      BY <2>1, <2>2, EventsByType DEF LoiterEvents, Event
    <3>2. e.track \in Tracks
      BY <3>1, SeenPlaces DEF Loitering
    <3>. QED  BY <2>2, <3>1, <3>2 DEF ReaderInv, FlagsInv
  <2>3. CASE e.type = "restricted_zone"
    <3>1. e.track \in EntersRestricted(seen) \ restrictedFlagged
      BY <2>1, <2>3, EventsByType, RestrictedOf
    <3>2. e.track \in Tracks
      BY <3>1, SeenPlaces DEF EntersRestricted
    <3>. QED  BY <2>3, <3>1, <3>2 DEF ReaderInv, FlagsInv
  <2>. QED  BY <2>2, <2>3
<1>. QED  BY <1>1, ReaderInvariant, PTL DEF AlarmsRaisedOnce, Spec

-----------------------------------------------------------------------------
(* The restricted-zone alarm                                               *)

\* Zones of one name are of one type.  The database does not ask for it; without it
\* a foot in a shelf named like a vault is, by name, a foot in the vault.
NamesTellTypes ==
    \A y, z \in Zones : Name(y) = Name(z) => ZoneList[y].type = ZoneList[z].type

\* The zones a track is in are among those it has visited.
VisitedInv == \A t \in DOMAIN tracks : Prev(t) \subseteq tracks[t].zones_visited

RestrictedNames == Names(OfType("restricted"))

LEMMA NamesAndTypes ==
    ASSUME NamesTellTypes, NEW ty, NEW z \in Zones, Name(z) \in Names(OfType(ty))
    PROVE  z \in OfType(ty)
BY DEF NamesTellTypes, Names, OfType

\* What a frame leaves of a track that is still active after it.
LEMMA TrackAfter ==
    ASSUME StateInv, NEW seen \in Seen, NEW products, NEW at \in 0..MaxTime, now <= at,
           Process(seen, products, at), NEW t \in DOMAIN tracks'
    PROVE  /\ t \notin Gone(seen, at)
           /\ t \in DOMAIN seen =>
                /\ Prev(t)' = Names(seen[t])
                /\ t \in DOMAIN tracks =>
                     tracks'[t].zones_visited = tracks[t].zones_visited \cup Names(seen[t])
                /\ t \notin DOMAIN tracks =>
                     tracks'[t].zones_visited = Names(seen[t]) /\ Prev(t) = {}
           /\ t \notin DOMAIN seen =>
                t \in DOMAIN tracks /\ tracks'[t] = tracks[t] /\ Prev(t)' = Prev(t)
<1>. USE DEF StateInv
<1>1. /\ DOMAIN tracks' = (DOMAIN tracks \cup DOMAIN seen) \ Gone(seen, at)
      /\ tracks'[t] = Touched(seen, at)[t]
  BY DEF Process, UpdatePeople, Touched
<1>2. /\ DOMAIN trackZones' = (DOMAIN trackZones \cup DOMAIN seen) \ Gone(seen, at)
      /\ \A u \in DOMAIN trackZones' :
            trackZones'[u] = IF u \in DOMAIN seen THEN Names(seen[u]) ELSE trackZones[u]
  BY DEF Process, UpdatePeople
<1>3. DOMAIN trackZones = DOMAIN tracks
  BY DEF PerTrackStateInSync
<1>4. CASE t \notin DOMAIN seen
  BY <1>1, <1>2, <1>3, <1>4, TouchedTracks DEF Prev
<1>5. CASE t \in DOMAIN seen /\ t \in DOMAIN tracks
  <2>1. tracks[t] \in TrackState
    BY <1>5 DEF TypeOK
  <2>2. tracks'[t].zones_visited = tracks[t].zones_visited \cup Names(seen[t])
    BY <1>1, <1>5, <2>1 DEF Touched, Touch, TrackState
  <2>. QED  BY <1>1, <1>2, <1>3, <1>5, <2>2 DEF Prev
<1>6. CASE t \in DOMAIN seen /\ t \notin DOMAIN tracks
  <2>1. tracks'[t].zones_visited = Names(seen[t])
    BY <1>1, <1>6 DEF Touched, Touch
  <2>. QED  BY <1>1, <1>2, <1>3, <1>6, <2>1 DEF Prev
<1>. QED  BY <1>4, <1>5, <1>6

LEMMA VisitedKept ==
    ASSUME StateInv, VisitedInv, NEW seen \in Seen, NEW products, NEW at \in 0..MaxTime,
           now <= at, Process(seen, products, at)
    PROVE  VisitedInv'
<1>. SUFFICES ASSUME NEW t \in DOMAIN tracks' PROVE Prev(t)' \subseteq tracks'[t].zones_visited
  BY DEF VisitedInv, Prev
<1>. QED  BY TrackAfter DEF VisitedInv

\* A track has visited a restricted zone by the end of a frame if it had before or
\* has entered one now: one it stands in without entering it was visited before.
LEMMA RestrictedVisited ==
    ASSUME NamesTellTypes, StateInv, VisitedInv, NEW seen \in Seen, NEW products,
           NEW at \in 0..MaxTime, now <= at, Process(seen, products, at),
           NEW t \in DOMAIN seen, t \in DOMAIN tracks'
    PROVE  tracks'[t].zones_visited \cap RestrictedNames # {} <=>
              \/ t \in DOMAIN tracks /\ tracks[t].zones_visited \cap RestrictedNames # {}
              \/ t \in EntersRestricted(seen)
<1>. DEFINE before == t \in DOMAIN tracks /\ tracks[t].zones_visited \cap RestrictedNames # {}
<1>1. seen[t] \subseteq Zones
  BY SeenPlaces
<1>2. tracks'[t].zones_visited \cap RestrictedNames # {} <=>
         before \/ Names(seen[t]) \cap RestrictedNames # {}
  BY TrackAfter
<1>3. t \in EntersRestricted(seen) => Names(seen[t]) \cap RestrictedNames # {}
  BY DEF EntersRestricted, Entered, Names, RestrictedNames
<1>4. ASSUME Names(seen[t]) \cap RestrictedNames # {}, t \notin EntersRestricted(seen) PROVE before
  <2>1. PICK z \in seen[t] : Name(z) \in RestrictedNames
    BY <1>4 DEF Names
  <2>2. z \in OfType("restricted")
    BY <1>1, <2>1, NamesAndTypes DEF RestrictedNames
  <2>3. Name(z) \in Prev(t)
    BY <1>4, <2>2 DEF EntersRestricted, Entered
  <2>4. t \in DOMAIN tracks /\ Name(z) \in tracks[t].zones_visited
    BY <2>3, TrackAfter DEF VisitedInv
  <2>. QED  BY <2>1, <2>4
<1>. QED  BY <1>2, <1>3, <1>4

LEMMA RestrictedKept ==
    ASSUME NamesTellTypes, StateInv, FlagsInv, VisitedInv, RestrictedAlarmExact,
           NEW seen \in Seen, NEW products, NEW at \in 0..MaxTime, now <= at,
           Process(seen, products, at)
    PROVE  RestrictedAlarmExact'
<1>. SUFFICES ASSUME NEW t \in Tracks
              PROVE  "restricted_zone" \in ledger'.known[t].alarms <=>
                        t \in DOMAIN tracks' /\ tracks'[t].zones_visited \cap RestrictedNames # {}
  BY DEF RestrictedAlarmExact, RestrictedNames
<1>1. "restricted_zone" \in ledger.known[t].alarms <=>
          t \in DOMAIN tracks /\ tracks[t].zones_visited \cap RestrictedNames # {}
  BY DEF RestrictedAlarmExact, RestrictedNames
<1>2. DOMAIN tracks' = (DOMAIN tracks \cup DOMAIN seen) \ Gone(seen, at)
  BY DEF Process, UpdatePeople, Touched
<1>3. CASE t \in Gone(seen, at)
  BY <1>2, <1>3, Learned
<1>4. CASE t \notin Gone(seen, at) /\ t \notin DOMAIN seen
  <2>1. t \notin EntersRestricted(seen)
    BY <1>4 DEF EntersRestricted
  <2>. QED  BY <1>1, <1>2, <1>4, <2>1, Learned, TrackAfter
<1>5. CASE t \notin Gone(seen, at) /\ t \in DOMAIN seen
  <2>1. t \in DOMAIN tracks'
    BY <1>2, <1>5
  <2>2. "restricted_zone" \in ledger'.known[t].alarms <=>
            "restricted_zone" \in ledger.known[t].alarms \/ t \in EntersRestricted(seen)
    BY <1>5, Learned DEF FlagsInv
  <2>. QED  BY <1>1, <1>5, <2>1, <2>2, RestrictedVisited
<1>. QED  BY <1>3, <1>4, <1>5

RestrictedInv == ReaderInv /\ VisitedInv /\ RestrictedAlarmExact

LEMMA RestrictedInvariant ==
    ASSUME NamesTellTypes
    PROVE  Spec => []RestrictedInv
<1>1. Init => RestrictedInv
  <2>1. Init => VisitedInv /\ RestrictedAlarmExact
    BY DEF Init, VisitedInv, RestrictedAlarmExact, NothingKnown
  <2>. QED  BY <2>1, ReaderInit DEF RestrictedInv
<1>2. RestrictedInv /\ [Next]_vars => RestrictedInv'
  <2>. SUFFICES ASSUME RestrictedInv, [Next]_vars PROVE RestrictedInv'
    OBVIOUS
  <2>. USE DEF RestrictedInv
  <2>1. ReaderInv'
    BY ReaderStep
  <2>2. CASE vars' = vars
    BY <2>1, <2>2 DEF vars, engineVars, VisitedInv, Prev, RestrictedAlarmExact
  <2>3. CASE vars' # vars
    <3>. PICK seen \in Seen, products \in [Shelves -> 0..MaxProducts], at \in 0..MaxTime :
              now <= at /\ Process(seen, products, at)
      BY <2>3, StepIsFrame DEF ReaderInv, StateInv
    <3>. QED  BY <2>1, VisitedKept, RestrictedKept DEF ReaderInv
  <2>. QED  BY <2>2, <2>3
<1>. QED  BY <1>1, <1>2, PTL DEF Spec

\* Both alarms have been raised for exactly the active tracks they are due for, once
\* each, if zones of one name are of one type.
THEOREM AlarmsAreExact ==
    ASSUME NamesTellTypes
    PROVE  Spec => AlarmsExact
<1>1. RestrictedInv => LoiteringAlarmExact /\ RestrictedAlarmExact
  BY DEF RestrictedInv, ReaderInv
<1>. QED  BY <1>1, RestrictedInvariant, AlarmsOnce, PTL DEF AlarmsExact

-----------------------------------------------------------------------------
(* Waiting in the queue                                                    *)

\* All queue zones carry one name, as on a camera with one queue.
OneQueue == \A y, z \in OfType("queue") : Name(y) = Name(z)

\* The queue clock of a track in the queue started when the reader heard of its
\* entering.
QueueInv ==
    \A t \in Tracks, q \in OfType("queue") : Name(q) \in Prev(t) =>
        t \in DOMAIN queueJoinedAt /\ queueJoinedAt[t] = ledger.known[t].since[Name(q)]

LEMMA FirstIsIn ==
    ASSUME NEW zs \in SUBSET Zones, zs # {}
    PROVE  First(zs) \in zs
<1>1. zs \in SUBSET Nat
  BY ZonesAreNumbered
<1>2. \E z \in zs : \A y \in zs : z <= y
  <2>. DEFINE Below == {p \in Nat \X Nat : p[1] < p[2]}
  <2>1. IsWellFoundedOn(Below, Nat)
    BY NatLessThanWellFounded DEF OpToRel
  <2>2. \E z \in zs : \A y \in zs : <<y, z>> \notin Below
    <3>. HIDE DEF Below
    <3>. QED  BY <1>1, <2>1, WFMin
  <2>3. \A y, z \in Nat : <<y, z>> \notin Below => z <= y
    OBVIOUS
  <2>. HIDE DEF Below
  <2>. QED  BY <1>1, <2>2, <2>3
<1>. QED  BY <1>2 DEF First

LEMMA NamedZone ==
    ASSUME NEW n \in Names(Zones)
    PROVE  ZoneNamed(n) \in Zones /\ Name(ZoneNamed(n)) = n
<1>1. {z \in Zones : Name(z) = n} # {} /\ {z \in Zones : Name(z) = n} \in SUBSET Zones
  BY DEF Names
<1>. QED  BY <1>1, FirstIsIn DEF ZoneNamed

\* When the reader last heard of a track's entering a zone it is still in.
LEMMA SinceLearned ==
    ASSUME NEW seen, NEW products, NEW at, Process(seen, products, at), NEW t \in Tracks,
           NEW n \in DOMAIN ledger'.known[t].since
    PROVE  ledger'.known[t].since[n] =
              IF t \in DOMAIN seen /\ n \in Names(Entered(seen, t)) THEN at
              ELSE ledger.known[t].since[n]
<1>. DEFINE evs   == Events(seen, products, at)
            k     == ledger.known[t]
            enter == {e.zone : e \in Mine(evs, "zone_enter", t)}
            left  == {e.zone : e \in Mine(evs, "zone_exit", t)}
<1>1. ledger'.known[t] = Learn(k, evs, t, at)
  BY DEF Process, Read
<1>2. Mine(evs, "exit", t) = {}
  <2>1. Mine(evs, "exit", t) # {} <=> t \in Gone(seen, at)
    BY AlarmsOf
  <2>2. t \notin Gone(seen, at)
    BY Learned
  <2>. QED  BY <2>1, <2>2
<1>3. Learn(k, evs, t, at).since =
         [m \in (DOMAIN k.since \cup enter) \ left |-> IF m \in enter THEN at ELSE k.since[m]]
  BY <1>2 DEF Learn
<1>4. enter = IF t \in DOMAIN seen THEN Names(Entered(seen, t)) ELSE {}
  BY ZonesOf, Zenon
<1>. HIDE DEF enter, left, evs, k
<1>5. ledger'.known[t].since[n] = IF n \in enter THEN at ELSE k.since[n]
  BY <1>1, <1>3
<1>. QED  BY <1>4, <1>5 DEF k

LEMMA QueueKept ==
    ASSUME NamesTellTypes, OneQueue, StateInv, LedgerMatchesEngine, QueueInv,
           NEW seen \in Seen, NEW products, NEW at \in 0..MaxTime, now <= at,
           Process(seen, products, at)
    PROVE  QueueInv'
<1>. SUFFICES ASSUME NEW t \in Tracks, NEW q \in OfType("queue"), Name(q) \in Prev(t)'
              PROVE  /\ t \in DOMAIN queueJoinedAt'
                     /\ queueJoinedAt'[t] = ledger'.known[t].since[Name(q)]
  BY DEF QueueInv, Prev
<1>. DEFINE n == Name(q)
<1>0. DOMAIN trackZones' = DOMAIN tracks' /\ t \in DOMAIN tracks'
  BY SyncKept DEF Process, PerTrackStateInSync, Prev
<1>1. t \notin Gone(seen, at) /\ n \in DOMAIN ledger'.known[t].since
  BY <1>0, TrackAfter, LedgerZonesKept DEF LedgerMatchesEngine, Prev
<1>2. /\ DOMAIN queueJoinedAt' = StillQueued(seen, at)
      /\ t \in StillQueued(seen, at) => queueJoinedAt'[t] = Joined(seen, at)[t]
  BY DEF Process, UpdatePeople
<1>3. q \in Zones
  BY DEF OfType
<1>4. CASE t \notin DOMAIN seen
  <2>1. n \in Prev(t)
    BY <1>0, <1>4, TrackAfter
  <2>2. t \in DOMAIN queueJoinedAt /\ queueJoinedAt[t] = ledger.known[t].since[n]
    BY <2>1 DEF QueueInv
  <2>3. t \in StillQueued(seen, at) /\ Joined(seen, at)[t] = queueJoinedAt[t]
    BY <1>1, <1>4, <2>2 DEF StillQueued, Joined, JoinsQueue, LeavesQueue
  <2>. QED  BY <1>1, <1>2, <1>4, <2>2, <2>3, SinceLearned
<1>5. CASE t \in DOMAIN seen
  <2>1. seen[t] \subseteq Zones /\ n \in Names(seen[t])
    BY <1>0, <1>5, TrackAfter, SeenPlaces
  <2>2. PICK z \in seen[t] : Name(z) = n
    BY <2>1 DEF Names
  <2>3. z \in OfType("queue")
    BY <1>3, <2>1, <2>2 DEF NamesTellTypes, OfType
  <2>4. t \notin LeavesQueue(seen)
    <3>. SUFFICES ASSUME NEW m \in QueuesLeft(seen, t) PROVE FALSE
      BY DEF LeavesQueue
    <3>1. m \in Prev(t) /\ m \notin Names(seen[t]) /\ ZoneNamed(m) \in OfType("queue")
      BY DEF QueuesLeft, LeftNames
    <3>2. m \in Names(Zones)
      BY <3>1 DEF Prev, StateInv, TypeOK
    <3>3. m = n
      BY <3>1, <3>2, NamedZone DEF OneQueue
    <3>. QED  BY <2>1, <3>1, <3>3
  <2>5. CASE n \in Prev(t)
    <3>1. t \in DOMAIN queueJoinedAt /\ queueJoinedAt[t] = ledger.known[t].since[n]
      BY <2>5 DEF QueueInv
    <3>2. t \notin JoinsQueue(seen)
      BY <2>5 DEF JoinsQueue, Entered, OneQueue
    <3>3. n \notin Names(Entered(seen, t))
      BY <2>5 DEF Entered, Names
    <3>4. t \in StillQueued(seen, at) /\ Joined(seen, at)[t] = queueJoinedAt[t]
      BY <1>1, <2>4, <3>1, <3>2 DEF StillQueued, Joined
    <3>. QED  BY <1>1, <1>2, <3>1, <3>3, <3>4, SinceLearned
  <2>6. CASE n \notin Prev(t)
    <3>1. t \in JoinsQueue(seen) /\ n \in Names(Entered(seen, t))
      BY <1>5, <2>2, <2>3, <2>6 DEF JoinsQueue, Entered, Names
    <3>2. t \in StillQueued(seen, at) /\ Joined(seen, at)[t] = at
      BY <1>1, <2>4, <3>1 DEF StillQueued, Joined
    <3>. QED  BY <1>1, <1>2, <1>5, <3>1, <3>2, SinceLearned
  <2>. QED  BY <2>5, <2>6
<1>. QED  BY <1>4, <1>5

WaitInv == ReaderInv /\ QueueInv

LEMMA WaitInvariant ==
    ASSUME NamesTellTypes, OneQueue
    PROVE  Spec => []WaitInv
<1>1. Init => WaitInv
  <2>1. Init => QueueInv
    BY DEF Init, QueueInv, Prev
  <2>. QED  BY <2>1, ReaderInit DEF WaitInv
<1>2. WaitInv /\ [Next]_vars => WaitInv'
  <2>. SUFFICES ASSUME WaitInv, [Next]_vars PROVE WaitInv'
    OBVIOUS
  <2>. USE DEF WaitInv
  <2>1. ReaderInv'
    BY ReaderStep
  <2>2. CASE vars' = vars
    BY <2>1, <2>2 DEF vars, engineVars, QueueInv, Prev
  <2>3. CASE vars' # vars
    <3>. PICK seen \in Seen, products \in [Shelves -> 0..MaxProducts], at \in 0..MaxTime :
              now <= at /\ Process(seen, products, at)
      BY <2>3, StepIsFrame DEF ReaderInv, StateInv
    <3>. QED  BY <2>1, QueueKept DEF ReaderInv
  <2>. QED  BY <2>2, <2>3
<1>. QED  BY <1>1, <1>2, PTL DEF Spec

LEMMA QueueLeaveOf ==
    ASSUME NEW seen, NEW products, NEW at, NEW e \in Events(seen, products, at),
           e.type = "queue_leave"
    PROVE  e.track \in LeavesQueue(seen) /\ e.zone \in QueuesLeft(seen, e.track)
<1>1. ASSUME NEW u \in DOMAIN seen, e \in PersonEvents(seen, u)
      PROVE  \E n \in QueuesLeft(seen, u) : e = Event("queue_leave", u, n)
  <2>1. \A type, zs : e \in ZoneEvents(type, u, zs) => e.type = type
    BY DEF ZoneEvents, Event
  <2>2. e \notin {Event("zone_exit", u, n) : n \in LeftNames(seen, u)}
    BY DEF Event
  <2>3. e \in {Event("queue_leave", u, n) : n \in QueuesLeft(seen, u)}
    BY <1>1, <2>1, <2>2 DEF PersonEvents
  <2>. QED  BY <2>3
<1>2. e \notin RestrictedEvents(seen)
  BY RestrictedOf
<1>3. e \notin LoiterEvents(seen, at) /\ e \notin ShelfEvents(products) /\ e \notin ExitEvents(seen, at)
  BY DEF LoiterEvents, Event, ShelfEvents, ShelfEvent, ExitEvents
<1>4. PICK u \in DOMAIN seen : \E n \in QueuesLeft(seen, u) : e = Event("queue_leave", u, n)
  BY <1>1, <1>2, <1>3, EventsMembers
<1>. QED  BY <1>4 DEF Event, LeavesQueue

\* On a camera with one queue every queue left yields a sample of exactly the time
\* since the track entered it, however often it leaves, is lost and comes back.
THEOREM WaitsAreTimesInQueue ==
    ASSUME NamesTellTypes, OneQueue
    PROVE  Spec => WaitSampleIsTimeInQueue
<1>1. WaitInv /\ [Next]_vars =>
         [\A e \in out'.events : e.type = "queue_leave" =>
             [track |-> e.track, wait |-> now' - ledger.known[e.track].since[e.zone]]
                 \in out'.waits]_vars
  <2>. SUFFICES ASSUME WaitInv, [Next]_vars, vars' # vars,
                       NEW e \in out'.events, e.type = "queue_leave"
                PROVE  [track |-> e.track, wait |-> now' - ledger.known[e.track].since[e.zone]]
                           \in out'.waits
    OBVIOUS
  <2>. USE DEF WaitInv, ReaderInv
  <2>. PICK seen \in Seen, products \in [Shelves -> 0..MaxProducts], at \in 0..MaxTime :
            now <= at /\ Process(seen, products, at)
    BY StepIsFrame DEF StateInv
  <2>1. out'.events = Events(seen, products, at) /\ out'.waits = WaitSamples(seen, at) /\ now' = at
    BY DEF Process
  <2>. DEFINE t == e.track
              n == e.zone
              q == ZoneNamed(n)
  <2>2. t \in LeavesQueue(seen) /\ n \in QueuesLeft(seen, t)
    BY <2>1, QueueLeaveOf
  <2>3. t \in Tracks /\ n \in Prev(t) /\ n \in Names(Zones) /\ q \in OfType("queue")
    BY <2>2, SeenPlaces DEF LeavesQueue, QueuesLeft, LeftNames, Prev, StateInv, TypeOK
  <2>4. Name(q) = n
    BY <2>3, NamedZone
  <2>5. t \in DOMAIN queueJoinedAt /\ queueJoinedAt[t] = ledger.known[t].since[n]
    BY <2>3, <2>4 DEF QueueInv
  <2>6. t \notin JoinsQueue(seen)
    BY <2>3, <2>4 DEF JoinsQueue, Entered, OneQueue
  <2>7. t \in DOMAIN Joined(seen, at) /\ Joined(seen, at)[t] = queueJoinedAt[t]
    BY <2>5, <2>6 DEF Joined
  <2>. HIDE DEF t, n, q
  <2>8. [track |-> t, wait |-> at - Joined(seen, at)[t]] \in WaitSamples(seen, at)
    BY <2>2, <2>7 DEF WaitSamples
  <2>9. [track |-> t, wait |-> now' - ledger.known[t].since[n]] \in out'.waits
    BY <2>1, <2>5, <2>7, <2>8
  <2>. QED  BY <2>9 DEF t, n
<1>. QED  BY <1>1, WaitInvariant, PTL DEF WaitSampleIsTimeInQueue, Spec

-----------------------------------------------------------------------------
(* Snapshots and shelves                                                   *)

DistinctNames == \A y, z \in Zones : Name(y) = Name(z) => y = z

\* The shelf maps are about shelves, and what the reader was told of one is its
\* present count.
ShelfInv ==
    /\ DOMAIN shelfLastProduct \subseteq Names(Shelves)
    /\ DOMAIN ledger.shelf \subseteq DOMAIN shelfProductCount
    /\ DOMAIN shelfProductCount \subseteq Names(Shelves)
    /\ ShelfLedgerExact

\* With distinct names the shelf loop gives each shelf its own entry.
LEMMA ShelfAlone ==
    ASSUME DistinctNames, NEW products \in [Shelves -> 0..MaxProducts], NEW z \in Shelves
    PROVE  /\ products[Last({y \in Shelves : Name(y) = Name(z)})] = products[z]
           /\ PrevCount(products, z) =
                IF Name(z) \in DOMAIN shelfProductCount THEN shelfProductCount[Name(z)]
                ELSE products[z]
<1>1. \A y \in Shelves : y \in Zones
  BY DEF Shelves, OfType
<1>2. {y \in Shelves : Name(y) = Name(z)} = {z}
  BY <1>1 DEF DistinctNames
<1>3. Last({z}) \in {z}
  BY <1>1, LastIsIn
<1>4. {y \in Shelves : y < z /\ Name(y) = Name(z)} = {}
  <2>1. z \in Nat
    BY <1>1, ZonesAreNumbered
  <2>2. ~(z < z)
    BY <2>1
  <2>. QED  BY <1>1, <2>2 DEF DistinctNames
<1>. QED  BY <1>2, <1>3, <1>4 DEF PrevCount

\* The counts a frame reports are those of the shelves that changed.
LEMMA CountedEvents ==
    ASSUME NEW seen \in Seen, NEW products, NEW at
    PROVE  Counted(Events(seen, products, at)) = ShelfEvents(products)
<1>. DEFINE evs == Events(seen, products, at)
<1>1. ASSUME NEW e \in ShelfEvents(products) PROVE e \in Counted(evs)
  <2>1. e.type = "shelf_interaction" /\ e.track = None
    BY DEF ShelfEvents, ShelfEvent
  <2>. QED  BY <2>1, EventsMembers DEF Counted
<1>2. ASSUME NEW e \in Counted(evs) PROVE e \in ShelfEvents(products)
  <2>1. e \in evs /\ e.type = "shelf_interaction" /\ e.track = None
    BY DEF Counted
  <2>2. ASSUME NEW u \in DOMAIN seen, e \in PersonEvents(seen, u) PROVE e.track = u
    <3>1. \A type, zs : e \in ZoneEvents(type, u, zs) => e.track = u
      BY DEF ZoneEvents, Event
    <3>2. \A type, ns : e \in {Event(type, u, n) : n \in ns} => e.track = u
      BY DEF Event
    <3>3. \/ e \in ZoneEvents("zone_enter", u, Entered(seen, u))
          \/ e \in ZoneEvents("entry", u, Entered(seen, u) \cap OfType("entrance"))
          \/ e \in ZoneEvents("queue_join", u, Entered(seen, u) \cap OfType("queue"))
          \/ e \in ZoneEvents("shelf_interaction", u, seen[u] \cap Shelves)
          \/ e \in {Event("zone_exit", u, n) : n \in LeftNames(seen, u)}
          \/ e \in {Event("queue_leave", u, n) : n \in QueuesLeft(seen, u)}
      BY <2>2 DEF PersonEvents
    <3>. QED  BY <3>1, <3>2, <3>3
  <2>3. \A u \in DOMAIN seen : u # None
    BY SeenPlaces, EngineAssumption DEF EngineAssumption
  <2>4. e \notin RestrictedEvents(seen)
    BY <2>1, RestrictedOf
  <2>5. e \notin LoiterEvents(seen, at) /\ e \notin ExitEvents(seen, at)
    BY <2>1 DEF LoiterEvents, Event, ExitEvents
  <2>. QED  BY <2>1, <2>2, <2>3, <2>4, <2>5, EventsMembers
<1>. QED  BY <1>1, <1>2

LEMMA ShelvesKept ==
    ASSUME DistinctNames, ShelfInv, NEW seen \in Seen,
           NEW products \in [Shelves -> 0..MaxProducts], NEW at \in 0..MaxTime,
           Process(seen, products, at)
    PROVE  ShelfInv'
<1>. DEFINE evs == Events(seen, products, at)
            changed == {z \in Shelves : products[z] # PrevCount(products, z)}
<1>1. /\ DOMAIN shelfLastProduct' = DOMAIN shelfLastProduct \cup Stocked(products)
      /\ DOMAIN shelfProductCount' = Names(Shelves)
      /\ \A n \in Names(Shelves) :
            shelfProductCount'[n] = products[Last({z \in Shelves : Name(z) = n})]
  BY DEF Process, UpdateShelves
<1>2. \A z \in Shelves : shelfProductCount'[Name(z)] = products[z]
  BY <1>1, ShelfAlone DEF Names
<1>3. Stocked(products) \subseteq Names(Shelves)
  BY DEF Stocked, Names
<1>4. /\ DOMAIN ledger'.shelf = DOMAIN ledger.shelf \cup {e.zone : e \in Counted(evs)}
      /\ \A n \in DOMAIN ledger'.shelf :
            ledger'.shelf[n] = IF \E e \in Counted(evs) : e.zone = n
                               THEN (CHOOSE e \in Counted(evs) : e.zone = n).after
                               ELSE ledger.shelf[n]
  BY DEF Process, Read
<1>5. Counted(evs) = {ShelfEvent(products, z) : z \in changed}
  BY CountedEvents DEF ShelfEvents
<1>. HIDE DEF evs
<1>6. \A z \in changed : /\ z \in Shelves
                         /\ ShelfEvent(products, z).zone = Name(z)
                         /\ ShelfEvent(products, z).after = products[z]
  BY DEF ShelfEvent
<1>7. ASSUME NEW n \in DOMAIN ledger'.shelf
      PROVE  n \in Names(Shelves) /\ ledger'.shelf[n] = shelfProductCount'[n]
  <2>1. CASE \E e \in Counted(evs) : e.zone = n
    <3>1. PICK e \in Counted(evs) : e = (CHOOSE x \in Counted(evs) : x.zone = n) /\ e.zone = n
      BY <2>1
    <3>2. PICK z \in changed : e = ShelfEvent(products, z)
      BY <1>5, <3>1
    <3>3. z \in Shelves /\ Name(z) = n /\ e.after = products[z]
      BY <1>6, <3>1, <3>2
    <3>4. ledger'.shelf[n] = e.after
      BY <1>4, <2>1, <3>1
    <3>. QED  BY <1>2, <3>3, <3>4 DEF Names
  <2>2. CASE ~ \E e \in Counted(evs) : e.zone = n
    <3>1. n \in DOMAIN ledger.shelf /\ ledger'.shelf[n] = ledger.shelf[n]
      BY <1>4, <2>2
    <3>2. n \in DOMAIN shelfProductCount /\ ledger.shelf[n] = shelfProductCount[n]
      BY <3>1 DEF ShelfInv, ShelfLedgerExact
    <3>3. PICK z \in Shelves : n = Name(z)
      BY <3>2 DEF ShelfInv, Names
    <3>4. z \notin changed
      BY <1>5, <1>6, <2>2, <3>3
    <3>5. products[z] = shelfProductCount[n]
      BY <3>2, <3>3, <3>4, ShelfAlone
    <3>. QED  BY <1>2, <3>1, <3>2, <3>3, <3>5 DEF Names
  <2>. QED  BY <2>1, <2>2
<1>. QED  BY <1>1, <1>3, <1>7 DEF ShelfInv, ShelfLedgerExact

\* A shelf is reported empty only if the frame shows it empty: one that is stocked
\* has just been seen stocked.
LEMMA EmptyReported ==
    ASSUME ShelfInv, NEW seen \in Seen, NEW products \in [Shelves -> 0..MaxProducts],
           NEW at \in 0..MaxTime, Process(seen, products, at)
    PROVE  EmptyShelfIsEmpty'
<1>. SUFFICES ASSUME NEW s \in out'.snapshot, NEW n \in s.shelf_empty
              PROVE  shelfProductCount'[n] = 0
  BY DEF EmptyShelfIsEmpty
<1>1. s = Snapshot(seen, at)
  BY DEF Process
<1>2. n \in DOMAIN shelfLastProduct' /\ at - shelfLastProduct'[n] > ShelfEmptyAfterS
  BY <1>1 DEF Snapshot
<1>3. /\ DOMAIN shelfLastProduct' = DOMAIN shelfLastProduct \cup Stocked(products)
      /\ n \in Stocked(products) => shelfLastProduct'[n] = at
  BY <1>2 DEF Process, UpdateShelves
<1>4. ~(at - at > ShelfEmptyAfterS)
  BY EngineAssumption DEF EngineAssumption
<1>5. n \notin Stocked(products) /\ n \in Names(Shelves)
  BY <1>2, <1>3, <1>4 DEF ShelfInv
<1>6. {z \in Shelves : Name(z) = n} # {} /\ {z \in Shelves : Name(z) = n} \in SUBSET Zones
  BY <1>5 DEF Names, Shelves, OfType
<1>7. PICK z \in Shelves : Name(z) = n /\ z = Last({y \in Shelves : Name(y) = n})
  BY <1>6, LastIsIn
<1>8. ~(products[z] > 0) /\ products[z] \in 0..MaxProducts
  BY <1>5, <1>7 DEF Stocked, Names
<1>9. products[z] = 0
  BY <1>8, EngineAssumption DEF EngineAssumption
<1>. QED  BY <1>5, <1>7, <1>9 DEF Process, UpdateShelves

\* Each person a snapshot counts in a zone is a track the reader knows there.
LEMMA OccupancyReported ==
    ASSUME DistinctNames, StateInv, LedgerMatchesEngine, NEW seen \in Seen, NEW products,
           NEW at \in 0..MaxTime, now <= at, Process(seen, products, at)
    PROVE  SnapshotWithinLedger'
<1>. SUFFICES ASSUME NEW s \in out'.snapshot, NEW n \in Names(Zones)
              PROVE  s.zone_occupancy[n] <=
                        Cardinality({t \in Tracks : n \in DOMAIN ledger'.known[t].since})
  BY DEF SnapshotWithinLedger
<1>. DEFINE here  == {p \in (DOMAIN seen) \X Zones : p[2] \in seen[p[1]] /\ Name(p[2]) = n}
            known == {t \in Tracks : n \in DOMAIN ledger'.known[t].since}
            who   == [p \in here |-> p[1]]
<1>1. s = Snapshot(seen, at)
  BY DEF Process
<1>2. s.zone_occupancy[n] = Cardinality(here)
  BY <1>1 DEF Snapshot, Occupancy
<1>3. ASSUME NEW p \in here PROVE p[1] \in known
  <2>1. /\ p[1] \in DOMAIN seen /\ p[1] \in Tracks /\ n \in Names(seen[p[1]])
    BY SeenPlaces DEF Names
  <2>2. p[1] \notin Gone(seen, at)
    BY <2>1, GoneUnseen DEF StateInv
  <2>3. DOMAIN ledger'.known[p[1]].since =
           (Prev(p[1]) \cup Names(Entered(seen, p[1]))) \ LeftNames(seen, p[1])
    BY <2>1, <2>2, Learned DEF LedgerMatchesEngine
  <2>4. n \in Prev(p[1]) \cup Names(Entered(seen, p[1]))
    BY <2>1 DEF Entered, Names
  <2>. QED  BY <2>1, <2>3, <2>4 DEF LeftNames
<1>4. \A p, r \in here : p[1] = r[1] => p = r
  BY DEF DistinctNames
<1>5. IsFiniteSet(known)
  BY CountNat
<1>. HIDE DEF here, known
<1>6. who \in Injection(here, known)
  BY <1>3, <1>4 DEF Injection, IsInjective
<1>7. Cardinality(here) <= Cardinality(known)
  <2>. HIDE DEF who
  <2>. QED  BY <1>5, <1>6, FS_Injection DEF ExistsInjection
<1>. QED  BY <1>2, <1>7 DEF known

ReportInv == ReaderInv /\ ShelfInv /\ SnapshotWithinLedger /\ EmptyShelfIsEmpty

\* If zones have distinct names, no snapshot shows a person, and no shelf event a
\* count, that the event stream and the present frame do not bear out.
THEOREM ReportsBorneOut ==
    ASSUME DistinctNames
    PROVE  Spec => []ReportsAgree
<1>1. Init => ReportInv
  <2>1. Init => ShelfInv /\ SnapshotWithinLedger /\ EmptyShelfIsEmpty
    BY DEF Init, ShelfInv, ShelfLedgerExact, SnapshotWithinLedger, EmptyShelfIsEmpty
  <2>. QED  BY <2>1, ReaderInit DEF ReportInv
<1>2. ReportInv /\ [Next]_vars => ReportInv'
  <2>. SUFFICES ASSUME ReportInv, [Next]_vars PROVE ReportInv'
    OBVIOUS
  <2>. USE DEF ReportInv
  <2>1. ReaderInv'
    BY ReaderStep
  <2>2. CASE vars' = vars
    BY <2>1, <2>2 DEF vars, shelfVars, ShelfInv, ShelfLedgerExact, SnapshotWithinLedger,
                      EmptyShelfIsEmpty
  <2>3. CASE vars' # vars
    <3>. PICK seen \in Seen, products \in [Shelves -> 0..MaxProducts], at \in 0..MaxTime :
              now <= at /\ Process(seen, products, at)
      BY <2>3, StepIsFrame DEF ReaderInv, StateInv
    <3>. QED  BY <2>1, ShelvesKept, EmptyReported, OccupancyReported DEF ReaderInv
  <2>. QED  BY <2>2, <2>3
<1>3. ReportInv => ReportsAgree
  BY DEF ReportInv, ShelfInv, ReportsAgree
<1>. QED  BY <1>1, <1>2, <1>3, PTL DEF Spec
=============================================================================
