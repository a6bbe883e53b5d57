---------------------------- MODULE StoreReports ----------------------------
(***************************************************************************)
(* What the store is told about its visitors: the daily report and the     *)
(* retention of the Celery worker (backend/app/services/tasks.py) and the  *)
(* dashboard's queries (backend/app/api/v1/analytics.py), over the rows    *)
(* the vision worker's posts leave in the tables.                          *)
(*                                                                         *)
(* Every camera's engine numbers and counts the tracks it opens from when  *)
(* its process started.  A closed track and a snapshot are posted.  A post *)
(* may be lost, and one the worker gave up on may be committed after later *)
(* ones; both are here a post whose commit comes late or never (how the    *)
(* handlers run inside is in FrameIngest and ReidIngest).  An instant is   *)
(* longer than a store's TTL, and the columns averaged or maximised like   *)
(* the ones kept (waits, queues) are left out.                             *)
(***************************************************************************)
EXTENDS Integers, FiniteSets, Sequences, Functions, FiniteSetsExt

CONSTANTS
    CameraIds,
    Ids,           \* the tracker's ids, which it may give again
    Day,           \* timedelta(days=1), in instants
    Fresh,         \* how long a snapshot counts for the occupancy (5 minutes)
    Retention,     \* DETECTION_RETENTION_DAYS
    MaxTime, MaxVisits, MaxSnapshots, MaxRuns     \* bounds

ASSUME ReportsAssumption ==
    /\ Day \in Nat \ {0} /\ Fresh \in 1..Day /\ Retention \in Nat
    /\ {MaxTime, MaxVisits, MaxSnapshots} \subseteq Nat /\ MaxRuns \in Nat \ {0}

VARIABLES
    now,
    run,        \* which process the vision worker is; all cameras are threads of it
    visits,     \* the tracks ever opened; those whose fate is "open" are in a store
    total,      \* total[c]: TrackStore.total_unique
    sent,       \* the snapshots under way to the backend
    snapshots,  \* table analytics_snapshots in the order of its ids; run is history
    tracks,     \* table tracks: <<camera_id, track_id>> -> its times
    detections, \* table detections: of which frames it has rows
    reports     \* table reports: the rows added last; the earlier ones stay as they are

\* nr is the number of tracks the store had counted with this one.
VisitRow     == [camera_id : CameraIds, track_id : Ids, run : 1..MaxRuns, nr : 1..MaxVisits,
                 since : 0..MaxTime, until : 0..MaxTime,
                 fate : {"open", "posted", "lost", "stored"}]
SnapshotRow  == [camera_id : CameraIds, ts : 0..MaxTime, people_count : 0..MaxVisits,
                 unique_visitors : 0..MaxVisits, run : 1..MaxRuns]
DetectionRow == [camera_id : CameraIds, ts : 0..MaxTime]
ReportRow    == [camera_id : CameraIds, unique_visitors : 0..MaxVisits]

worker == <<run, visits, total, sent>>
database == <<snapshots, tracks, detections, reports>>
storeVars == <<now, worker, database>>

-----------------------------------------------------------------------------
(* The vision worker: tracks opened and closed, snapshots                  *)

Open == {v \in visits : v.fate = "open"}
OpenAt(c) == {v \in Open : v.camera_id = c}

\* Mutant: a track known by its id is opened again.
AnyIsNew(c, i) == TRUE
IsNew(c, i) == \A v \in OpenAt(c) : v.track_id # i

Enter(c, i) ==
    /\ Cardinality(visits) < MaxVisits /\ IsNew(c, i)
    /\ total' = [total EXCEPT ![c] = @ + 1]
    /\ visits' = visits \cup {[camera_id |-> c, track_id |-> i, run |-> run, nr |-> total'[c],
                               since |-> now, until |-> now, fate |-> "open"]}
    /\ UNCHANGED <<now, run, sent, database>>

\* The track is silent for the store's TTL and is posted to /ingest/track; one seen
\* in a single frame is posted with its two times equal.
Leave(v) ==
    /\ visits' = (visits \ {v}) \cup {[v EXCEPT !.until = now, !.fate = "posted"]}
    /\ UNCHANGED <<now, run, total, sent, database>>

\* The process dies and starts again: nothing is posted of the tracks it had.  (One
\* that has counted nobody has nothing to lose.)
Restart ==
    /\ run < MaxRuns /\ \E c \in CameraIds : total[c] > 0
    /\ run' = run + 1
    /\ visits' = {IF v \in Open THEN [v EXCEPT !.until = now, !.fate = "lost"] ELSE v :
                     v \in visits}
    /\ total' = [c \in CameraIds |-> 0]
    /\ UNCHANGED <<now, sent, database>>

\* A frame with a snapshot: the detector sees any of the people the store holds.
Snapshot(c, people) ==
    /\ Len(snapshots) + Cardinality(sent) < MaxSnapshots
    /\ \A s \in sent \cup Range(snapshots) : s.camera_id = c => s.ts < now
    /\ people <= Cardinality(OpenAt(c))
    /\ sent' = sent \cup {[camera_id |-> c, ts |-> now, people_count |-> people,
                           unique_visitors |-> total[c], run |-> run]}
    /\ UNCHANGED <<now, run, visits, total, database>>

-----------------------------------------------------------------------------
(* The backend: /ingest/track and /ingest/frame                            *)

CommitTrack(v) ==
    /\ v.fate = "posted"
    /\ visits' = (visits \ {v}) \cup {[v EXCEPT !.fate = "stored"]}
    /\ LET key == <<v.camera_id, v.track_id>>
       IN  tracks' = [k \in DOMAIN tracks \cup {key} |->
                         IF k = key THEN [first_seen |-> v.since, last_seen |-> v.until]
                         ELSE tracks[k]]
    /\ UNCHANGED <<now, run, total, sent, snapshots, detections, reports>>

CommitFrame(s) ==
    /\ sent' = sent \ {s}
    /\ snapshots' = Append(snapshots, s)
    /\ detections' = IF s.people_count = 0 THEN detections
                     ELSE detections \cup {[camera_id |-> s.camera_id, ts |-> s.ts]}
    /\ UNCHANGED <<now, run, visits, total, tracks, reports>>

-----------------------------------------------------------------------------
(* The Celery tasks.  Beat sends them at intervals, but they wait for a    *)
(* worker, may be lost with it, and beat itself may be down: they run at   *)
(* any instants.                                                           *)

Rows(c, since) == {s \in Range(snapshots) : s.camera_id = c /\ s.ts >= since}

\* Mutant: the latest counter of the window instead of the highest.
LatestVisitors(rows) ==
    (CHOOSE s \in rows : \A o \in rows : s.ts >= o.ts).unique_visitors
Visitors(rows) == Max({s.unique_visitors : s \in rows})

generate_daily_report ==
    LET found == {c \in CameraIds : Rows(c, now - Day) # {}}
    IN  /\ reports' = {[camera_id |-> c,
                        unique_visitors |-> Visitors(Rows(c, now - Day))] : c \in found}
        /\ UNCHANGED <<now, worker, snapshots, tracks, detections>>

purge_old_detections ==
    /\ \E d \in detections : d.ts < now - Retention
    /\ detections' = {d \in detections : d.ts >= now - Retention}
    /\ UNCHANGED <<now, worker, snapshots, tracks, reports>>

-----------------------------------------------------------------------------
(* The dashboard's queries                                                 *)

day_start == now - (now % Day)

\* Mutant: a camera's last snapshot counts however old it is.
AtAnyAge(ts) == TRUE
IsFresh(ts) == now - ts < Fresh

\* COUNT(DISTINCT track_id), over all cameras.
TodaysIds == {k[2] : k \in {l \in DOMAIN tracks : tracks[l].first_seen >= day_start}}

Latest(c) == CHOOSE s \in Rows(c, 0) : \A o \in Rows(c, 0) : s.ts >= o.ts

Overview ==
    LET recent  == {c \in CameraIds : Rows(c, 0) # {} /\ IsFresh(Latest(c).ts)}
        counted == UNION {{c} \X (1..Latest(c).people_count) : c \in recent}
    IN  [total_visitors_today |-> Cardinality(TodaysIds),
         current_occupancy    |-> Cardinality(counted)]   \* the sum of people_count

\* GET /analytics/dwell of the cameras cs.
Dwell(cs, since) ==
    LET found == {k \in DOMAIN tracks : k[1] \in cs /\ tracks[k].first_seen >= since}
    IN  [tracks |-> Cardinality(found),
         max_dwell_s |-> Max({tracks[k].last_seen - tracks[k].first_seen : k \in found} \cup {0})]

-----------------------------------------------------------------------------
StoreTick == now < MaxTime /\ now' = now + 1 /\ UNCHANGED <<worker, database>>

StoreInit ==
    /\ now = 0 /\ run = 1
    /\ visits = {} /\ total = [c \in CameraIds |-> 0] /\ sent = {}
    /\ snapshots = <<>> /\ tracks = <<>> /\ detections = {} /\ reports = {}

StoreNext ==
    \/ \E c \in CameraIds, i \in Ids : Enter(c, i)
    \/ \E v \in Open : Leave(v)
    \/ Restart
    \/ \E c \in CameraIds, n \in 0..MaxVisits : Snapshot(c, n)
    \/ \E v \in visits : CommitTrack(v)
    \/ \E s \in sent : CommitFrame(s)
    \/ generate_daily_report
    \/ purge_old_detections
    \/ StoreTick

StoreSpec == StoreInit /\ [][StoreNext]_storeVars

-----------------------------------------------------------------------------
(* Properties                                                              *)

\* Every table and store holds what its columns and fields can hold; a store has
\* one track of an id, a camera one snapshot of an instant.
StoreTypeOK ==
    /\ now \in 0..MaxTime /\ run \in 1..MaxRuns /\ total \in [CameraIds -> 0..MaxVisits]
    /\ visits \subseteq VisitRow
    /\ \A v \in visits : v.since <= v.until /\ v.until <= now /\ v.run <= run
    /\ \A v, w \in Open :
          v.camera_id = w.camera_id /\ v.track_id = w.track_id => v = w /\ v.run = run
    /\ \A i, j \in DOMAIN snapshots :
          snapshots[i].camera_id = snapshots[j].camera_id /\ snapshots[i].ts = snapshots[j].ts
             => i = j
    /\ \A k \in DOMAIN tracks : k \in CameraIds \X Ids /\ tracks[k].first_seen <= tracks[k].last_seen
    /\ sent \subseteq SnapshotRow /\ snapshots \in Seq(SnapshotRow)
    /\ detections \subseteq DetectionRow
    /\ reports \subseteq ReportRow

\* Who was counted when snapshot s was taken: surely those of its process who came
\* before its instant, perhaps those who came in it.
SurelyIn(s)  == {v \in visits : v.camera_id = s.camera_id /\ v.run = s.run /\ v.since < s.ts}
PerhapsIn(s) == {v \in visits : v.camera_id = s.camera_id /\ v.run = s.run /\ v.since <= s.ts}

\* A daily report gives a camera no fewer visitors than any snapshot in its window
\* had really seen, and no more than one of them had, whatever restarts of the
\* worker and late commits came before.
VisitorsAreReal ==
    \A r \in reports' :
       LET read == Rows(r.camera_id, now - Day)
       IN  /\ \A s \in read : Cardinality(SurelyIn(s)) <= r.unique_visitors
           /\ \E s \in read : r.unique_visitors <= Cardinality(PerhapsIn(s))

\* A frame with people in it has its detections for as long as the retention says.
DetectionsKept ==
    \A s \in Range(snapshots) : s.people_count > 0 /\ now - s.ts <= Retention =>
       [camera_id |-> s.camera_id, ts |-> s.ts] \in detections

\* What the Celery tasks promise of a report and of the rows they delete.
TasksTrue ==
    /\ [][generate_daily_report => VisitorsAreReal]_storeVars
    /\ []DetectionsKept

TodaysVisits == {v \in visits : v.since >= day_start}
TrackedSince(t) == {v \in visits : v.fate = "open" \/ v.until > t}

\* The tile "visitors today" never exceeds the visits there were today or the
\* tracks the dwell query finds, and it counts the id of every stored visit of
\* today, except one whose row an earlier visit, committed late, has taken back.
VisitorsTodayReal ==
    /\ LET shown == Overview.total_visitors_today
       IN  shown <= Cardinality(TodaysVisits) /\ shown <= Dwell(CameraIds, day_start).tracks
    /\ \A v \in TodaysVisits :
          v.fate = "stored" /\ tracks[<<v.camera_id, v.track_id>>].first_seen >= v.since =>
             v.track_id \in TodaysIds

\* The tile "in store now" counts nobody who was not tracked within the last
\* Fresh instants: a camera that falls silent leaves no people behind.
NoGhosts == Overview.current_occupancy <= Cardinality(TrackedSince(now - Fresh))

\* The longest dwell shown is the length of a visit that ended.
DwellIsReal ==
    LET shown == Dwell(CameraIds, 0)
    IN  shown.tracks > 0 =>
           \E v \in visits : v.fate = "stored" /\ v.until - v.since = shown.max_dwell_s

\* What the dashboard shows of visitors agrees with the visits there were.
OverviewTrue == VisitorsTodayReal /\ NoGhosts /\ DwellIsReal

\* services/tasks.py:48: "Aggregate yesterday's snapshots into a Report row per
\* camera".  Refuted by MCStoreDay.cfg: the counter a snapshot carries goes back
\* to the start of the worker, so yesterday's row counts who came the day before.
ReportCountsItsDay ==
    [][generate_daily_report =>
          \A r \in reports' :
             r.unique_visitors <= Cardinality({v \in TrackedSince(now - Day - 1) :
                                                  v.camera_id = r.camera_id})]_storeVars

=============================================================================
