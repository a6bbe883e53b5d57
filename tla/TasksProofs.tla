---------------------------- MODULE TasksProofs ----------------------------
(***************************************************************************)
(* The Celery tasks (backend/app/services/tasks.py) and what they work on: *)
(* the safety properties of CameraHealth, for every set of cameras and     *)
(* sweeps and every OFFLINE_AFTER and DEDUP_WINDOW, with crashes at any    *)
(* point, and those of StoreReports, for every fleet, retention, window    *)
(* and number of visits and restarts.                                      *)
(*                                                                         *)
(* CameraHealth: what a sweep decided from the rows it loaded stays true   *)
(* until it commits, or another session's commit has been recorded in      *)
(* overtaken (RaiseInv for its look for a recent alert, HoldInv for the    *)
(* heartbeat it read).                                                     *)
(*                                                                         *)
(* StoreReports: the end of a visit, its commit and a restart only rename  *)
(* the visits (Revises), so however many there were of one camera and      *)
(* process before an instant stays as it was when the snapshot counted     *)
(* them (SeenInv); and a row of tracks is of a visit (TracksInv).          *)
(***************************************************************************)
EXTENDS CameraHealth, StoreReports, TLAPS, FiniteSetTheorems

(***************************************************************************)
(* CameraHealth                                                            *)
(***************************************************************************)


\* A sweep about to raise an alert does so for one camera, whose new status its
\* session holds; the look for a recent alert it acts on is still right unless
\* another sweep has raised the same alert since.
RaiseInv ==
    \A s \in Sweeps : sweep[s].pc = "raise" =>
        /\ \E c \in Cameras : sweep[s].cam = {c}
        /\ sweep[s].cam \subseteq sweep[s].dirty
        /\ \A c \in sweep[s].cam : sinceAlert[c] > DedupWindow \/ overtaken[s].alert

\* A camera a sweep has loaded as stale is still stale unless it has been heard from.
HoldInv ==
    \A s \in Sweeps : \A c \in Holds(s) : sinceBeat[c] > OfflineAfter \/ c \in overtaken[s].beats

HealthInv == TypeOK /\ RaiseInv /\ HoldInv

-----------------------------------------------------------------------------
(* Ages                                                                    *)

\* An age stays within its range, and one past its limit stays past it.
LEMMA OlderRange ==
    ASSUME NEW limit \in Nat, NEW age \in 0..(limit + 1)
    PROVE  /\ Older(age, limit) \in 0..(limit + 1)
           /\ age > limit => Older(age, limit) > limit
BY DEF Older

-----------------------------------------------------------------------------
(* Type correctness                                                        *)

LEMMA TypeInit == Init => TypeOK
BY HealthAssumption DEF Init, TypeOK, SessionType, NeverBeat, NeverAlert, NoBeat, Idle, NotOvertaken

LEMMA TypeStep == TypeOK /\ [Next]_vars => TypeOK'
<1>. SUFFICES ASSUME TypeOK, [Next]_vars PROVE TypeOK'
  OBVIOUS
<1>. USE HealthAssumption
<1>1. CASE Tick
  <2>1. \A c \in Cameras : /\ Older(sinceBeat[c], OfflineAfter) \in 0..NeverBeat
                           /\ Older(sinceAlert[c], DedupWindow) \in 0..NeverAlert
    BY OlderRange DEF TypeOK, NeverBeat, NeverAlert
  <2>. QED  BY <1>1, <2>1 DEF Tick, TypeOK
<1>2. ASSUME NEW c \in Cameras, Flip(c) PROVE TypeOK'
  BY <1>2 DEF Flip, TypeOK, tables
<1>3. ASSUME NEW c \in Cameras, SetActive(c) PROVE TypeOK'
  BY <1>3 DEF SetActive, TypeOK
<1>4. ASSUME NEW c \in Cameras, BeatLoad(c) PROVE TypeOK'
  BY <1>4 DEF BeatLoad, TypeOK, tables
<1>5. ASSUME NEW c \in Cameras, BeatCommit(c) PROVE TypeOK'
  <2>1. overtaken' \in [Sweeps -> [beats : SUBSET Cameras, alert : BOOLEAN]]
    BY <1>5 DEF BeatCommit, TypeOK
  <2>2. status' \in [Cameras -> {"online", "offline"}]
    BY <1>5 DEF BeatCommit, TypeOK, StatusAfterBeat
  <2>3. sinceBeat' \in [Cameras -> 0..NeverBeat]
    BY <1>5 DEF BeatCommit, TypeOK, NeverBeat
  <2>4. beat' \in [Cameras -> [pc : {"idle", "loaded"}, status : {"online", "offline"}]]
    BY <1>5 DEF BeatCommit, TypeOK, NoBeat
  <2>. QED  BY <1>5, <2>1, <2>2, <2>3, <2>4 DEF BeatCommit, TypeOK
<1>6. ASSUME NEW s \in Sweeps, SweepLoad(s) PROVE TypeOK'
  BY <1>6 DEF SweepLoad, TypeOK, SessionType, tables, Idle, ToFlag
<1>7. ASSUME NEW s \in Sweeps, SweepCheck(s) PROVE TypeOK'
  BY <1>7 DEF SweepCheck, TypeOK, SessionType, tables
<1>8. ASSUME NEW s \in Sweeps, SweepRaise(s) PROVE TypeOK'
  <2>1. overtaken' \in [Sweeps -> [beats : SUBSET Cameras, alert : BOOLEAN]]
    BY <1>8 DEF SweepRaise, TypeOK
  <2>2. sweep' \in [Sweeps -> SessionType] /\ sweep'[s].dirty = {}
    <3>1. sweep[s] \in SessionType
      BY DEF TypeOK
    <3>2. Raised(s) \in SessionType /\ Raised(s).dirty = {}
      BY <3>1 DEF SessionType, Raised
    <3>. QED  BY <1>8, <3>2 DEF SweepRaise, TypeOK
  <2>3. status' \in [Cameras -> {"online", "offline"}]
    BY <1>8 DEF SweepRaise, TypeOK, Flushed
  <2>4. sinceAlert' \in [Cameras -> 0..NeverAlert]
    BY <1>8 DEF SweepRaise, TypeOK, NeverAlert
  <2>. QED  BY <1>8, <2>1, <2>2, <2>3, <2>4 DEF SweepRaise, TypeOK
<1>9. ASSUME NEW s \in Sweeps, SweepDispatched(s) PROVE TypeOK'
  <2>1. sweep' \in [Sweeps -> SessionType]
    <3>1. sweep[s] \in SessionType
      BY DEF TypeOK
    <3>2. [sweep[s] EXCEPT !.pc = "loop", !.cam = {}] \in SessionType
      BY <3>1 DEF SessionType
    <3>. QED  BY <1>9, <3>2 DEF SweepDispatched, TypeOK
  <2>. QED  BY <1>9, <2>1 DEF SweepDispatched, TypeOK, tables
<1>10. ASSUME NEW s \in Sweeps, SweepCommit(s) PROVE TypeOK'
  BY <1>10 DEF SweepCommit, TypeOK, SessionType, Flushed, Idle, NotOvertaken
<1>11. ASSUME NEW s \in Sweeps, SweepCrash(s) PROVE TypeOK'
  BY <1>11 DEF SweepCrash, TypeOK, SessionType, tables, Idle, NotOvertaken
<1>12. CASE UNCHANGED vars
  BY <1>12 DEF vars, tables, TypeOK
<1>. QED
  BY <1>1, <1>2, <1>3, <1>4, <1>5, <1>6, <1>7, <1>8, <1>9, <1>10, <1>11, <1>12
  DEF Next, Heartbeat, Sweep

\* The heartbeat and sweep sessions keep every variable within its type.
THEOREM TypeCorrect == Spec => []TypeOK
BY TypeInit, TypeStep, PTL DEF Spec

-----------------------------------------------------------------------------
(* The inductive invariant                                                 *)

LEMMA Inductive == HealthInv /\ [Next]_vars => HealthInv'
<1>. SUFFICES ASSUME HealthInv, [Next]_vars, TypeOK' PROVE RaiseInv' /\ HoldInv'
  BY TypeStep DEF HealthInv
<1>. USE HealthAssumption DEF HealthInv
<1>1. CASE Tick
  <2>1. \A c \in Cameras : /\ sinceBeat[c] > OfflineAfter => sinceBeat'[c] > OfflineAfter
                           /\ sinceAlert[c] > DedupWindow => sinceAlert'[c] > DedupWindow
    BY <1>1, OlderRange DEF Tick, TypeOK, NeverBeat, NeverAlert
  <2>2. UNCHANGED <<sweep, overtaken>> /\ \A s \in Sweeps : Holds(s)' = Holds(s)
    BY <1>1 DEF Tick, Holds
  <2>3. \A s \in Sweeps : sweep[s].cam \subseteq Cameras /\ Holds(s) \subseteq Cameras
    BY DEF TypeOK, SessionType, Holds
  <2>. QED  BY <2>1, <2>2, <2>3 DEF RaiseInv, HoldInv
<1>2. ASSUME NEW c \in Cameras, Flip(c) \/ SetActive(c) \/ BeatLoad(c)
      PROVE  RaiseInv' /\ HoldInv'
  BY <1>2 DEF Flip, SetActive, BeatLoad, tables, RaiseInv, HoldInv, Holds
<1>3. ASSUME NEW c \in Cameras, BeatCommit(c) PROVE RaiseInv' /\ HoldInv'
  <2>1. /\ UNCHANGED <<sweep, sinceAlert>>
        /\ \A s \in Sweeps : Holds(s)' = Holds(s) /\ Holds(s) \subseteq Cameras
    BY <1>3 DEF BeatCommit, Holds, TypeOK, SessionType
  <2>2. \A s \in Sweeps : /\ overtaken'[s].alert = overtaken[s].alert
                          /\ overtaken'[s].beats = overtaken[s].beats \cup ({c} \cap Holds(s))
    BY <1>3 DEF BeatCommit, TypeOK
  <2>3. \A d \in Cameras : d # c => sinceBeat'[d] = sinceBeat[d]
    BY <1>3 DEF BeatCommit, TypeOK
  <2>4. RaiseInv'
    BY <2>1, <2>2 DEF RaiseInv
  <2>5. HoldInv'
    BY <2>1, <2>2, <2>3 DEF HoldInv
  <2>. QED  BY <2>4, <2>5
<1>4. ASSUME NEW s \in Sweeps, SweepLoad(s) PROVE RaiseInv' /\ HoldInv'
  <2>1. UNCHANGED <<sinceBeat, sinceAlert, overtaken>>
    BY <1>4 DEF SweepLoad, tables
  <2>2. /\ sweep'[s].pc = "loop"
        /\ Holds(s)' = ToFlag
        /\ \A r \in Sweeps \ {s} : sweep'[r] = sweep[r] /\ Holds(r)' = Holds(r)
    BY <1>4 DEF SweepLoad, TypeOK, Idle, Holds
  <2>3. \A c \in ToFlag : sinceBeat[c] > OfflineAfter
    BY DEF ToFlag, Stale
  <2>. QED  BY <2>1, <2>2, <2>3 DEF RaiseInv, HoldInv
<1>5. ASSUME NEW s \in Sweeps, SweepCheck(s) PROVE RaiseInv' /\ HoldInv'
  <2>. PICK c \in sweep[s].todo :
          /\ sweep' = [sweep EXCEPT ![s] =
                        [pc    |-> IF RecentDuplicate(c) THEN "loop" ELSE "raise",
                         todo  |-> @.todo \ {c},
                         dirty |-> @.dirty \cup {c},
                         cam   |-> IF RecentDuplicate(c) THEN {} ELSE {c}]]
          /\ UNCHANGED <<tables, up, beat, crashes, overtaken>>
    BY <1>5 DEF SweepCheck
  <2>1. UNCHANGED <<sinceBeat, sinceAlert, overtaken>> /\ c \in Cameras
    BY DEF tables, TypeOK, SessionType
  <2>2. /\ sweep'[s].pc = "raise" => ~RecentDuplicate(c) /\ sweep'[s].cam = {c}
        /\ sweep'[s].dirty = sweep[s].dirty \cup {c}
        /\ Holds(s)' = Holds(s)
    BY DEF TypeOK, Holds
  <2>3. \A r \in Sweeps \ {s} : sweep'[r] = sweep[r] /\ Holds(r)' = Holds(r)
    BY DEF TypeOK, Holds
  <2>4. ~RecentDuplicate(c) => sinceAlert[c] > DedupWindow
    BY <2>1 DEF RecentDuplicate, TypeOK, NeverAlert
  <2>5. RaiseInv'
    BY <2>1, <2>2, <2>3, <2>4 DEF RaiseInv
  <2>6. HoldInv'
    BY <2>1, <2>2, <2>3 DEF HoldInv
  <2>. QED  BY <2>5, <2>6
<1>6. ASSUME NEW s \in Sweeps, SweepRaise(s) PROVE RaiseInv' /\ HoldInv'
  <2>1. /\ sweep'[s].pc = "dispatch" /\ Holds(s)' = sweep[s].todo
        /\ overtaken'[s].beats = overtaken[s].beats \cap sweep[s].todo
    BY <1>6 DEF SweepRaise, Raised, TypeOK, Holds
  <2>2. ASSUME NEW r \in Sweeps \ {s}
        PROVE  /\ sweep'[r] = sweep[r] /\ Holds(r)' = Holds(r)
               /\ overtaken'[r].beats = overtaken[r].beats
               /\ overtaken[r].alert => overtaken'[r].alert
               /\ sweep[r].pc = "raise" /\ sweep[r].cam = sweep[s].cam => overtaken'[r].alert
    BY <1>6 DEF SweepRaise, TypeOK, Holds
  <2>3. UNCHANGED sinceBeat /\ \A c \in Cameras : c \notin sweep[s].cam => sinceAlert'[c] = sinceAlert[c]
    BY <1>6 DEF SweepRaise, TypeOK
  <2>4. RaiseInv'
    <3>. SUFFICES ASSUME NEW r \in Sweeps, sweep'[r].pc = "raise", NEW c \in sweep'[r].cam
                  PROVE  /\ \E d \in Cameras : sweep'[r].cam = {d}
                         /\ sweep'[r].cam \subseteq sweep'[r].dirty
                         /\ sinceAlert'[c] > DedupWindow \/ overtaken'[r].alert
      BY <2>1, <2>2 DEF RaiseInv
    <3>1. r # s
      BY <2>1
    <3>2. sweep[r].pc = "raise" /\ c \in sweep[r].cam /\ sweep[s].pc = "raise"
      BY <3>1, <2>2, <1>6 DEF SweepRaise
    <3>3. CASE c \in sweep[s].cam
      <4>1. /\ \E d \in Cameras : sweep[r].cam = {d}
            /\ \E d \in Cameras : sweep[s].cam = {d}
            /\ sweep[r].cam \subseteq sweep[r].dirty
        BY <3>1, <3>2 DEF RaiseInv
      <4>2. sweep[r].cam = sweep[s].cam
        BY <4>1, <3>2, <3>3
      <4>. QED  BY <4>1, <4>2, <3>1, <3>2, <2>2
    <3>4. CASE c \notin sweep[s].cam
      BY <3>1, <3>2, <3>4, <2>2, <2>3 DEF RaiseInv
    <3>. QED  BY <3>3, <3>4
  <2>5. HoldInv'
    BY <2>1, <2>2, <2>3 DEF HoldInv, Holds
  <2>. QED  BY <2>4, <2>5
<1>7. ASSUME NEW s \in Sweeps, SweepDispatched(s) PROVE RaiseInv' /\ HoldInv'
  <2>1. UNCHANGED <<sinceBeat, sinceAlert, overtaken>>
    BY <1>7 DEF SweepDispatched, tables
  <2>2. sweep'[s].pc = "loop" /\ Holds(s)' = Holds(s)
    BY <1>7 DEF SweepDispatched, TypeOK, Holds
  <2>3. \A r \in Sweeps \ {s} : sweep'[r] = sweep[r] /\ Holds(r)' = Holds(r)
    BY <1>7 DEF SweepDispatched, TypeOK, Holds
  <2>. QED  BY <2>1, <2>2, <2>3 DEF RaiseInv, HoldInv
<1>8. ASSUME NEW s \in Sweeps, SweepCommit(s) \/ SweepCrash(s) PROVE RaiseInv' /\ HoldInv'
  <2>1. UNCHANGED <<sinceBeat, sinceAlert>>
    BY <1>8 DEF SweepCommit, SweepCrash, tables
  <2>2. sweep'[s].pc = "idle" /\ Holds(s)' = {}
    BY <1>8 DEF SweepCommit, SweepCrash, TypeOK, Holds, Idle
  <2>3. \A r \in Sweeps \ {s} :
            sweep'[r] = sweep[r] /\ Holds(r)' = Holds(r) /\ overtaken'[r] = overtaken[r]
    BY <1>8 DEF SweepCommit, SweepCrash, TypeOK, Holds
  <2>. QED  BY <2>1, <2>2, <2>3 DEF RaiseInv, HoldInv
<1>9. CASE UNCHANGED vars
  BY <1>9 DEF vars, tables, RaiseInv, HoldInv, Holds
<1>. QED
  BY <1>1, <1>2, <1>3, <1>4, <1>5, <1>6, <1>7, <1>8, <1>9 DEF Next, Heartbeat, Sweep

LEMMA Invariant == Spec => []HealthInv
<1>1. Init => HealthInv
  BY TypeInit DEF Init, HealthInv, RaiseInv, HoldInv, Holds, Idle
<1>. QED  BY <1>1, Inductive, PTL DEF Spec

-----------------------------------------------------------------------------
(* The safety properties                                                   *)

\* One commit writes the alert and the status (alert_service.py raise_alert's
\* commit flushes cam.status): no alert is left for a camera shown online.
THEOREM AlertWritesStatus == Spec => AlertMeansOffline
<1>1. HealthInv => \A s \in Sweeps, c \in Cameras : Alerted(s, c) => status'[c] = "offline"
  BY DEF HealthInv, RaiseInv, Alerted, SweepRaise, Flushed
<1>. QED  BY <1>1, Invariant, PTL DEF AlertMeansOffline

\* The 5-minute deduplication of raise_alert holds of every alert whose check for a
\* recent one was not overtaken by another sweep's insert.
THEOREM DedupUnlessOvertaken == Spec => AlertsDedupedUnlessOvertaken
<1>1. HealthInv => \A s \in Sweeps, c \in Cameras :
                  Alerted(s, c) => sinceAlert[c] > DedupWindow \/ overtaken[s].alert
  BY DEF HealthInv, RaiseInv, Alerted, SweepRaise
<1>. QED  BY <1>1, Invariant, PTL DEF AlertsDedupedUnlessOvertaken

\* The sweep marks a camera offline that is heard from only when the heartbeat was
\* committed after the sweep loaded the row.
THEOREM SweepFlagsSilent == Spec => OfflineUnlessOvertaken
<1>1. HealthInv /\ [Next]_vars => \A c \in Cameras : GoesOffline(c) =>
          \/ sinceBeat[c] > OfflineAfter
          \/ \E s \in Sweeps : c \in sweep[s].dirty /\ c \in overtaken[s].beats
  <2>. SUFFICES ASSUME HealthInv, [Next]_vars, NEW c \in Cameras, status[c] = "online", status'[c] = "offline"
                PROVE  \E s \in Sweeps : c \in sweep[s].dirty
    BY DEF HealthInv, HoldInv, Holds, GoesOffline
  <2>1. \A d \in Cameras : ~BeatCommit(d)
    BY DEF BeatCommit, StatusAfterBeat, HealthInv, TypeOK
  <2>2. \E s \in Sweeps : SweepRaise(s) \/ SweepCommit(s)
    BY <2>1 DEF Next, Heartbeat, Sweep, vars, tables, Tick, Flip, SetActive, BeatLoad,
                SweepLoad, SweepCheck, SweepDispatched, SweepCrash
  <2>. QED  BY <2>2 DEF SweepRaise, SweepCommit, Flushed
<1>. QED  BY <1>1, Invariant, PTL DEF OfflineUnlessOvertaken, Spec

\* What deduplication and status promise, in the form that overlapping sweeps leave.
THEOREM SweepsRight == Spec => SweepsRightUnlessOvertaken
<1>. QED  BY AlertWritesStatus, DedupUnlessOvertaken, SweepFlagsSilent
          DEF SweepsRightUnlessOvertaken

-----------------------------------------------------------------------------
(***************************************************************************)
(* StoreReports                                                            *)
(***************************************************************************)


\* The snapshots there are, committed or not.
Posts == sent \cup Range(snapshots)

\* A visit is known by its camera, its process and its number there, and keeps its id
\* and its beginning; no number is above the counter, and what is lost is of an
\* earlier process.
SameVisit(v, w) ==
    v.camera_id = w.camera_id /\ v.track_id = w.track_id /\ v.run = w.run /\ v.nr = w.nr
    /\ v.since = w.since

VisitsInv ==
    /\ IsFiniteSet(visits) /\ Cardinality(visits) <= MaxVisits
    /\ \A v \in visits : /\ v.fate = "lost" => v.run < run
                         /\ v.run = run => v.nr <= total[v.camera_id]
    /\ \A v, w \in visits : SameVisit(v, w) => v = w

\* A counter is the number of visits of its camera to the running process.
Counted(c) == {v \in visits : v.camera_id = c /\ v.run = run}
CountersInv == \A c \in CameraIds : total[c] = Cardinality(Counted(c))

\* A snapshot still says what there was when it was taken.
PresentAt(s) ==
    {v \in visits : v.camera_id = s.camera_id /\ (v.fate = "open" \/ v.until >= s.ts)}
SeenInv ==
    \A s \in Posts :
       /\ s.ts <= now
       /\ Cardinality(SurelyIn(s)) <= s.unique_visitors
       /\ s.unique_visitors <= Cardinality(PerhapsIn(s))
       /\ s.people_count <= Cardinality(PresentAt(s))

\* A camera has one snapshot of an instant, also before it is committed.
SameStamp(s, t) == s.camera_id = t.camera_id /\ s.ts = t.ts
StampsInv ==
    /\ \A s, t \in sent : SameStamp(s, t) => s = t
    /\ \A s \in sent, i \in DOMAIN snapshots : ~SameStamp(s, snapshots[i])

\* A row of tracks is of a stored visit, and every stored visit has a row.
RowOf(v) == <<v.camera_id, v.track_id>>
TracksInv ==
    /\ \A k \in DOMAIN tracks : \E v \in visits :
          /\ v.fate = "stored" /\ RowOf(v) = k
          /\ tracks[k].first_seen = v.since /\ tracks[k].last_seen = v.until
    /\ \A v \in visits : v.fate = "stored" => RowOf(v) \in DOMAIN tracks

StoreInv ==
    /\ StoreTypeOK /\ VisitsInv /\ CountersInv /\ SeenInv /\ StampsInv /\ TracksInv
    /\ DetectionsKept

-----------------------------------------------------------------------------
(* The operators                                                           *)

\* A set of naturals below a bound has a highest element.
LEMMA HighestExists ==
    ASSUME NEW n \in Nat, NEW S \in SUBSET (0..n), S # {}
    PROVE  \E x \in S : \A y \in S : x >= y
<1>. DEFINE T == {n - x : x \in S}
<1>0. \A x \in S : x \in 0..n /\ n - x \in Nat
  OBVIOUS
<1>1. T \subseteq Nat /\ T # {}
  BY <1>0
<1>2. \E m \in T : \A k \in T : ~(k < m)
  <2>. DEFINE Below == {p \in Nat \X Nat : p[1] < p[2]}
  <2>. HIDE DEF T
  <2>1. IsWellFoundedOn(Below, Nat)
    BY NatLessThanWellFounded DEF OpToRel
  <2>2. \E m \in T : \A k \in T : <<k, m>> \notin Below
    <3>. HIDE DEF Below
    <3>. QED  BY <1>1, <2>1, WFMin
  <2>3. \A m, k \in Nat : <<k, m>> \notin Below => ~(k < m)
    OBVIOUS
  <2>. HIDE DEF Below
  <2>. QED  BY <1>1, <2>2, <2>3
<1>3. PICK x \in S : \A k \in T : ~(k < n - x)
  BY <1>2
<1>4. \A y \in S : ~(n - y < n - x)
  BY <1>3
<1>. QED  BY <1>4

\* Max of FiniteSetsExt is that element.
LEMMA MaxOf ==
    ASSUME NEW n \in Nat, NEW S \in SUBSET (0..n), S # {}
    PROVE  Max(S) \in S /\ \A y \in S : Max(S) >= y
BY HighestExists DEF Max

\* A row inserted last is one more row.
LEMMA RangeOfAppend ==
    ASSUME NEW S, NEW q \in Seq(S), NEW x \in S
    PROVE  Range(Append(q, x)) = Range(q) \cup {x}
<1>1. \A i \in DOMAIN q : i \in DOMAIN Append(q, x) /\ Append(q, x)[i] = q[i]
  OBVIOUS
<1>2. Len(q) + 1 \in DOMAIN Append(q, x) /\ Append(q, x)[Len(q) + 1] = x
  OBVIOUS
<1>3. \A i \in DOMAIN Append(q, x) : i \in DOMAIN q \/ i = Len(q) + 1
  OBVIOUS
<1>. QED  BY <1>1, <1>2, <1>3 DEF Range

\* Counting what a renaming carries from one set to another.
LEMMA CountKept ==
    ASSUME NEW V, IsFiniteSet(V), NEW W, NEW f \in Bijection(V, W),
           NEW A \in SUBSET V, NEW B \in SUBSET W, \A v \in V : v \in A <=> f[v] \in B
    PROVE  IsFiniteSet(B) /\ Cardinality(B) = Cardinality(A)
<1>. DEFINE g == [v \in A |-> f[v]]
<1>1. IsFiniteSet(A)
  BY FS_Subset
<1>2. g \in [A -> B] /\ \A v, w \in A : g[v] = g[w] => v = w
  BY DEF Bijection, Injection, IsInjective
<1>3. \A b \in B : \E v \in A : g[v] = b
  BY DEF Bijection, Surjection
<1>4. g \in Bijection(A, B)
  <2>. HIDE DEF g
  <2>. QED  BY <1>2, <1>3 DEF Bijection, Injection, Surjection, IsInjective
<1>. QED  BY <1>1, <1>4, FS_Bijection DEF ExistsBijection

\* A part of the visits has between none and MaxVisits of them.
LEMMA PartCounts ==
    ASSUME NEW V, IsFiniteSet(V), Cardinality(V) <= MaxVisits, NEW A \in SUBSET V
    PROVE  IsFiniteSet(A) /\ Cardinality(A) \in 0..MaxVisits
<1>1. IsFiniteSet(A) /\ Cardinality(A) <= Cardinality(V)
  BY FS_Subset
<1>2. Cardinality(A) \in Nat /\ Cardinality(V) \in Nat
  BY <1>1, FS_CardinalityType
<1>. QED  BY <1>1, <1>2, ReportsAssumption

\* Snapshots under way and committed are of one type.
LEMMA PostsTyped ==
    ASSUME StoreTypeOK
    PROVE  Posts \subseteq SnapshotRow
<1>1. \A i \in DOMAIN snapshots : snapshots[i] \in SnapshotRow
  BY DEF StoreTypeOK
<1>. QED  BY <1>1 DEF Posts, Range, StoreTypeOK

-----------------------------------------------------------------------------
(* What the end of a visit and its commit leave as it was                  *)

\* f gives every visit the end and the fate it has after the step.
Revises(f) ==
    /\ f \in Bijection(visits, visits')
    /\ \A v \in visits :
          /\ f[v] \in VisitRow /\ SameVisit(v, f[v])
          /\ \A t \in 0..now : (f[v].fate = "open" \/ f[v].until >= t)
                                  <=> (v.fate = "open" \/ v.until >= t)

\* It leaves the visits as many as they were, whichever of them are counted.
LEMMA Revised ==
    ASSUME StoreInv, NEW f, Revises(f)
    PROVE  /\ visits' \subseteq VisitRow
           /\ IsFiniteSet(visits') /\ Cardinality(visits') <= MaxVisits
           /\ \A v, w \in visits' : SameVisit(v, w) => v = w
           /\ \A c \in CameraIds :
                 Cardinality({v \in visits' : v.camera_id = c /\ v.run = run}) = Cardinality(Counted(c))
           /\ \A s \in Posts : /\ Cardinality(SurelyIn(s)') = Cardinality(SurelyIn(s))
                               /\ Cardinality(PerhapsIn(s)') = Cardinality(PerhapsIn(s))
                               /\ Cardinality(PresentAt(s)') = Cardinality(PresentAt(s))
<1>1. /\ f \in Bijection(visits, visits') /\ f \in [visits -> visits']
      /\ \A w \in visits' : \E v \in visits : f[v] = w
      /\ \A v \in visits : f[v] \in VisitRow /\ SameVisit(v, f[v])
  BY DEF Revises, Bijection, Injection, Surjection
<1>2. visits' \subseteq VisitRow
  BY <1>1
<1>3. IsFiniteSet(visits') /\ Cardinality(visits') <= MaxVisits
  BY <1>1, FS_Bijection DEF ExistsBijection, StoreInv, VisitsInv
<1>4. ASSUME NEW v \in visits', NEW w \in visits', SameVisit(v, w) PROVE v = w
  <2>1. PICK a \in visits : f[a] = v
    BY <1>1
  <2>2. PICK b \in visits : f[b] = w
    BY <1>1
  <2>3. SameVisit(a, b)
    BY <1>1, <1>4, <2>1, <2>2 DEF SameVisit
  <2>. QED  BY <2>1, <2>2, <2>3 DEF StoreInv, VisitsInv
<1>5. ASSUME NEW c \in CameraIds
      PROVE  Cardinality({v \in visits' : v.camera_id = c /\ v.run = run}) = Cardinality(Counted(c))
  <2>. DEFINE B == {v \in visits' : v.camera_id = c /\ v.run = run}
  <2>1. \A v \in visits : v \in Counted(c) <=> f[v] \in B
    BY <1>1 DEF Counted, SameVisit
  <2>2. Counted(c) \in SUBSET visits /\ B \in SUBSET visits'
    BY DEF Counted
  <2>. HIDE DEF B
  <2>3. Cardinality(B) = Cardinality(Counted(c))
    BY <1>1, <2>1, <2>2, CountKept DEF StoreInv, VisitsInv
  <2>. QED  BY <2>3 DEF B
<1>6. ASSUME NEW s \in Posts
      PROVE  /\ Cardinality(SurelyIn(s)') = Cardinality(SurelyIn(s))
             /\ Cardinality(PerhapsIn(s)') = Cardinality(PerhapsIn(s))
             /\ Cardinality(PresentAt(s)') = Cardinality(PresentAt(s))
  <2>. DEFINE S == SurelyIn(s)'
              P == PerhapsIn(s)'
              O == PresentAt(s)'
  <2>1. s.ts \in 0..now
    <3>1. s \in SnapshotRow
      BY PostsTyped DEF StoreInv
    <3>. QED  BY <3>1 DEF StoreInv, SeenInv, SnapshotRow, StoreTypeOK
  <2>2. /\ \A v \in visits : v \in SurelyIn(s) <=> f[v] \in S
        /\ SurelyIn(s) \in SUBSET visits /\ S \in SUBSET visits'
    BY <1>1 DEF SurelyIn, SameVisit
  <2>3. /\ \A v \in visits : v \in PerhapsIn(s) <=> f[v] \in P
        /\ PerhapsIn(s) \in SUBSET visits /\ P \in SUBSET visits'
    BY <1>1 DEF PerhapsIn, SameVisit
  <2>4. /\ \A v \in visits : v \in PresentAt(s) <=> f[v] \in O
        /\ PresentAt(s) \in SUBSET visits /\ O \in SUBSET visits'
    BY <1>1, <2>1 DEF PresentAt, SameVisit, Revises
  <2>5. IsFiniteSet(visits)
    BY DEF StoreInv, VisitsInv
  <2>. HIDE DEF S, P, O
  <2>6. Cardinality(S) = Cardinality(SurelyIn(s))
    BY <1>1, <2>2, <2>5, CountKept
  <2>7. Cardinality(P) = Cardinality(PerhapsIn(s))
    BY <1>1, <2>3, <2>5, CountKept
  <2>8. Cardinality(O) = Cardinality(PresentAt(s))
    BY <1>1, <2>4, <2>5, CountKept
  <2>. QED  BY <2>6, <2>7, <2>8 DEF S, P, O
<1>. QED  BY <1>2, <1>3, <1>4, <1>5, <1>6

-----------------------------------------------------------------------------
(* The invariant is kept                                                   *)

\* A visit that begins is counted by its process and was in no snapshot before.
LEMMA EnterStep ==
    ASSUME StoreInv, NEW c \in CameraIds, NEW i \in Ids, Enter(c, i)
    PROVE  StoreInv'
<1>. DEFINE new == [camera_id |-> c, track_id |-> i, run |-> run, nr |-> total[c] + 1,
                    since |-> now, until |-> now, fate |-> "open"]
<1>0. /\ Cardinality(visits) < MaxVisits /\ IsNew(c, i) /\ visits' = visits \cup {new}
      /\ total' = [total EXCEPT ![c] = @ + 1]
      /\ UNCHANGED <<now, run, sent, snapshots, tracks, detections, reports>>
  <2>1. total \in [CameraIds -> 0..MaxVisits]
    BY DEF StoreInv, StoreTypeOK
  <2>. QED  BY <2>1 DEF Enter, database
<1>1. new \in VisitRow /\ new.camera_id = c /\ new.track_id = i /\ new.run = run
      /\ new.nr = total[c] + 1 /\ new.since = now /\ new.until = now /\ new.fate = "open"
  <2>1. Counted(c) \in SUBSET visits
    BY DEF Counted
  <2>2. Cardinality(Counted(c)) <= Cardinality(visits) /\ Cardinality(visits) \in Nat
    BY <2>1, FS_Subset, FS_CardinalityType DEF StoreInv, VisitsInv
  <2>3. total[c] + 1 \in 1..MaxVisits
    BY <1>0, <2>2, ReportsAssumption DEF StoreInv, StoreTypeOK, CountersInv
  <2>. QED  BY <2>3 DEF VisitRow, StoreInv, StoreTypeOK
<1>. HIDE DEF new
<1>2. \A w \in visits : ~SameVisit(w, new)
  <2>. SUFFICES ASSUME NEW w \in visits, SameVisit(w, new) PROVE FALSE
    OBVIOUS
  <2>1. w.nr = total[c] + 1 /\ w.run = run /\ w.camera_id = c /\ total[c] \in Nat
    BY <1>1 DEF SameVisit, StoreInv, StoreTypeOK
  <2>. QED  BY <2>1 DEF StoreInv, VisitsInv
<1>3. VisitsInv'
  <2>1. new \notin visits
    BY <1>2 DEF SameVisit
  <2>2. IsFiniteSet(visits') /\ Cardinality(visits') = Cardinality(visits) + 1
    BY <1>0, <2>1, FS_AddElement DEF StoreInv, VisitsInv
  <2>3. Cardinality(visits') <= MaxVisits
    BY <1>0, <2>2, FS_CardinalityType, ReportsAssumption DEF StoreInv, VisitsInv
  <2>4. \A w \in visits : w.camera_id \in CameraIds /\ w.nr \in Nat
    BY DEF StoreInv, StoreTypeOK, VisitRow
  <2>5. \A d \in CameraIds : total'[d] = (IF d = c THEN total[c] + 1 ELSE total[d]) /\ total[d] \in Nat
    BY <1>0 DEF StoreInv, StoreTypeOK
  <2>6. \A w \in visits' : /\ w.fate = "lost" => w.run < run
                           /\ w.run = run => w.nr <= total'[w.camera_id]
    BY <1>0, <1>1, <2>4, <2>5 DEF StoreInv, VisitsInv
  <2>7. \A v, w \in visits' : SameVisit(v, w) => v = w
    BY <1>0, <1>2 DEF StoreInv, VisitsInv, SameVisit
  <2>. QED  BY <1>0, <2>2, <2>3, <2>6, <2>7 DEF VisitsInv
<1>4. CountersInv'
  <2>. SUFFICES ASSUME NEW d \in CameraIds PROVE total'[d] = Cardinality(Counted(d)')
    BY DEF CountersInv
  <2>1. Counted(d)' = IF d = c THEN Counted(c) \cup {new} ELSE Counted(d)
    BY <1>0, <1>1 DEF Counted
  <2>2. IsFiniteSet(Counted(c)) /\ new \notin Counted(c)
    <3>1. Counted(c) \in SUBSET visits
      BY DEF Counted
    <3>. QED  BY <1>2, <3>1, FS_Subset DEF StoreInv, VisitsInv, SameVisit
  <2>3. Cardinality(Counted(c) \cup {new}) = Cardinality(Counted(c)) + 1
    BY <2>2, FS_AddElement
  <2>. QED  BY <1>0, <2>1, <2>3 DEF StoreInv, CountersInv, StoreTypeOK
<1>5. StoreTypeOK'
  <2>1. \A d \in CameraIds : total'[d] \in 0..MaxVisits
    <3>. SUFFICES ASSUME NEW d \in CameraIds PROVE total'[d] \in 0..MaxVisits
      OBVIOUS
    <3>1. Counted(d)' \in SUBSET visits'
      BY DEF Counted
    <3>. QED  BY <1>3, <1>4, <3>1, PartCounts DEF VisitsInv, CountersInv
  <2>2. total' \in [CameraIds -> 0..MaxVisits]
    BY <1>0, <2>1 DEF StoreInv, StoreTypeOK
  <2>3. visits' \subseteq VisitRow
    BY <1>0, <1>1 DEF StoreInv, StoreTypeOK
  <2>4. \A v \in visits' : v.since <= v.until /\ v.until <= now /\ v.run <= run
    BY <1>0, <1>1 DEF StoreInv, StoreTypeOK
  <2>5. \A v, w \in Open' :
          v.camera_id = w.camera_id /\ v.track_id = w.track_id => v = w /\ v.run = run
    BY <1>0, <1>1 DEF StoreInv, StoreTypeOK, Open, IsNew, OpenAt
  <2>. QED  BY <1>0, <2>2, <2>3, <2>4, <2>5 DEF StoreInv, StoreTypeOK
<1>6. SeenInv'
  <2>1. Posts' = Posts
    BY <1>0 DEF Posts
  <2>. SUFFICES ASSUME NEW s \in Posts
       PROVE  /\ s.ts <= now'
              /\ Cardinality(SurelyIn(s)') <= s.unique_visitors
              /\ s.unique_visitors <= Cardinality(PerhapsIn(s)')
              /\ s.people_count <= Cardinality(PresentAt(s)')
    BY <2>1 DEF SeenInv
  <2>2. s \in SnapshotRow /\ s.ts <= now /\ now \in Nat
    BY PostsTyped DEF StoreInv, SeenInv, StoreTypeOK
  <2>3. SurelyIn(s)' = SurelyIn(s)
    BY <1>0, <1>1, <2>2 DEF SurelyIn, SnapshotRow
  <2>4. PerhapsIn(s) \in SUBSET PerhapsIn(s)' /\ PresentAt(s) \in SUBSET PresentAt(s)'
        /\ PerhapsIn(s)' \in SUBSET visits' /\ PresentAt(s)' \in SUBSET visits'
    BY <1>0 DEF PerhapsIn, PresentAt
  <2>5. IsFiniteSet(PerhapsIn(s)') /\ IsFiniteSet(PresentAt(s)')
    BY <1>3, <2>4, FS_Subset DEF VisitsInv
  <2>6. /\ Cardinality(PerhapsIn(s)) <= Cardinality(PerhapsIn(s)')
        /\ Cardinality(PresentAt(s)) <= Cardinality(PresentAt(s)')
        /\ Cardinality(PerhapsIn(s)) \in Nat /\ Cardinality(PerhapsIn(s)') \in Nat
        /\ Cardinality(PresentAt(s)) \in Nat /\ Cardinality(PresentAt(s)') \in Nat
    BY <2>4, <2>5, FS_Subset, FS_CardinalityType
  <2>. QED  BY <1>0, <2>2, <2>3, <2>6 DEF StoreInv, SeenInv, SnapshotRow
<1>7. TracksInv'
  BY <1>0, <1>1 DEF StoreInv, TracksInv, RowOf
<1>8. StampsInv' /\ DetectionsKept'
  BY <1>0 DEF StoreInv, StampsInv, SameStamp, DetectionsKept
<1>. QED  BY <1>3, <1>4, <1>5, <1>6, <1>7, <1>8 DEF StoreInv

\* Ends and fates may be given to the visits in any step that keeps what they are.
LEMMA GivesRevision ==
    ASSUME StoreInv, NEW f, f \in [visits -> VisitRow], visits' = {f[v] : v \in visits},
           \A v \in visits :
              /\ SameVisit(v, f[v])
              /\ \A t \in 0..now : (f[v].fate = "open" \/ f[v].until >= t)
                                      <=> (v.fate = "open" \/ v.until >= t)
    PROVE  Revises(f)
<1>1. f \in [visits -> visits'] /\ \A w \in visits' : \E v \in visits : f[v] = w
  OBVIOUS
<1>2. ASSUME NEW v \in visits, NEW w \in visits, f[v] = f[w] PROVE v = w
  <2>1. SameVisit(v, w)
    BY <1>2 DEF SameVisit
  <2>. QED  BY <2>1 DEF StoreInv, VisitsInv
<1>3. f \in Bijection(visits, visits')
  BY <1>1, <1>2 DEF Bijection, Injection, Surjection, IsInjective
<1>. QED  BY <1>3 DEF Revises

\* One visit ends or is committed.
LEMMA OneRevised ==
    ASSUME StoreInv, NEW v \in visits, NEW new \in VisitRow, SameVisit(v, new),
           \A t \in 0..now : (new.fate = "open" \/ new.until >= t)
                                <=> (v.fate = "open" \/ v.until >= t),
           visits' = (visits \ {v}) \cup {new}
    PROVE  \E f : Revises(f)
<1>. DEFINE f == [w \in visits |-> IF w = v THEN new ELSE w]
<1>1. f \in [visits -> VisitRow] /\ visits' = {f[w] : w \in visits}
  BY DEF StoreInv, StoreTypeOK
<1>2. \A w \in visits :
         /\ SameVisit(w, f[w])
         /\ \A t \in 0..now : (f[w].fate = "open" \/ f[w].until >= t)
                                 <=> (w.fate = "open" \/ w.until >= t)
  BY DEF SameVisit
<1>. HIDE DEF f
<1>. QED  BY <1>1, <1>2, GivesRevision

\* What such a step keeps of the snapshots and of the counters of its process.
LEMMA RevisionKeeps ==
    ASSUME StoreInv, NEW f, Revises(f), UNCHANGED <<now, sent, snapshots, detections>>
    PROVE  /\ SeenInv' /\ StampsInv' /\ DetectionsKept'
           /\ UNCHANGED <<run, total>> => CountersInv'
<1>1. Posts' = Posts
  BY DEF Posts
<1>2. SeenInv'
  <2>1. \A s \in Posts : /\ Cardinality(SurelyIn(s)') = Cardinality(SurelyIn(s))
                         /\ Cardinality(PerhapsIn(s)') = Cardinality(PerhapsIn(s))
                         /\ Cardinality(PresentAt(s)') = Cardinality(PresentAt(s))
    BY Revised
  <2>. SUFFICES ASSUME NEW s \in Posts
       PROVE  /\ s.ts <= now'
              /\ Cardinality(SurelyIn(s)') <= s.unique_visitors
              /\ s.unique_visitors <= Cardinality(PerhapsIn(s)')
              /\ s.people_count <= Cardinality(PresentAt(s)')
    BY <1>1 DEF SeenInv
  <2>. QED  BY <2>1 DEF StoreInv, SeenInv
<1>3. StampsInv' /\ DetectionsKept'
  BY DEF StoreInv, StampsInv, SameStamp, DetectionsKept
<1>4. ASSUME UNCHANGED <<run, total>> PROVE CountersInv'
  <2>. SUFFICES ASSUME NEW c \in CameraIds PROVE total'[c] = Cardinality(Counted(c)')
    BY DEF CountersInv
  <2>1. Counted(c)' = {v \in visits' : v.camera_id = c /\ v.run = run}
    BY <1>4 DEF Counted
  <2>2. Cardinality(Counted(c)') = Cardinality(Counted(c))
    BY <2>1, Revised
  <2>. QED  BY <1>4, <2>2 DEF StoreInv, CountersInv
<1>. QED  BY <1>2, <1>3, <1>4

\* The end of a visit is at or after every snapshot that counted it.
LEMMA LeaveStep ==
    ASSUME StoreInv, NEW v \in Open, Leave(v)
    PROVE  StoreInv'
<1>. DEFINE new == [v EXCEPT !.until = now, !.fate = "posted"]
<1>0. /\ v \in visits /\ v.fate = "open" /\ visits' = (visits \ {v}) \cup {new}
      /\ UNCHANGED <<now, run, total, sent, snapshots, tracks, detections, reports>>
  BY DEF Leave, Open, database
<1>1. /\ new \in VisitRow /\ SameVisit(v, new) /\ new.until = now /\ new.fate = "posted"
      /\ now \in Nat /\ v.since \in Nat /\ v.since <= now /\ v.run <= run
  <2>1. v \in VisitRow /\ now \in 0..MaxTime /\ v.run <= run /\ MaxTime \in Nat
        /\ v.since <= v.until /\ v.until <= now
    BY <1>0, ReportsAssumption DEF StoreInv, StoreTypeOK
  <2>2. new \in VisitRow /\ SameVisit(v, new) /\ new.until = now /\ new.fate = "posted"
    BY <2>1 DEF VisitRow, SameVisit
  <2>. QED  BY <2>1, <2>2 DEF VisitRow
<1>. HIDE DEF new
<1>2. \A t \in 0..now : (new.fate = "open" \/ new.until >= t) <=> (v.fate = "open" \/ v.until >= t)
  BY <1>0, <1>1
<1>3. PICK f : Revises(f)
  BY <1>0, <1>1, <1>2, OneRevised
<1>4. SeenInv' /\ StampsInv' /\ DetectionsKept' /\ CountersInv'
  BY <1>0, <1>3, RevisionKeeps
<1>5. VisitsInv'
  <2>1. \A w \in visits' : /\ w.fate = "lost" => w.run < run'
                           /\ w.run = run' => w.nr <= total'[w.camera_id]
    BY <1>0, <1>1 DEF StoreInv, VisitsInv, SameVisit
  <2>. QED  BY <1>0, <1>3, <2>1, Revised DEF VisitsInv
<1>6. StoreTypeOK'
  <2>1. \A w \in visits' : w.since <= w.until /\ w.until <= now /\ w.run <= run
    BY <1>0, <1>1 DEF StoreInv, StoreTypeOK, SameVisit
  <2>2. Open' \subseteq Open
    BY <1>0, <1>1 DEF Open
  <2>3. visits' \subseteq VisitRow
    BY <1>3, Revised
  <2>. QED  BY <1>0, <2>1, <2>2, <2>3 DEF StoreInv, StoreTypeOK
<1>7. TracksInv'
  <2>1. \A w \in visits : w.fate = "stored" => w \in visits'
    BY <1>0
  <2>2. \A w \in visits' : w.fate = "stored" => w \in visits
    BY <1>0, <1>1
  <2>. QED  BY <1>0, <2>1, <2>2 DEF StoreInv, TracksInv, RowOf
<1>. QED  BY <1>4, <1>5, <1>6, <1>7 DEF StoreInv

\* After a restart the counters are those of a process nobody has come to.
LEMMA RestartStep ==
    ASSUME StoreInv, Restart
    PROVE  StoreInv'
<1>. DEFINE f == [v \in visits |->
                     IF v \in Open THEN [v EXCEPT !.until = now, !.fate = "lost"] ELSE v]
<1>0. /\ run < MaxRuns /\ run' = run + 1 /\ total' = [c \in CameraIds |-> 0]
      /\ visits' = {f[v] : v \in visits}
      /\ UNCHANGED <<now, sent, snapshots, tracks, detections, reports>>
  BY DEF Restart, database
<1>1. \A v \in visits : v \in VisitRow /\ v.since <= v.until /\ v.until <= now /\ v.run <= run
  BY DEF StoreInv, StoreTypeOK
<1>2. now \in 0..MaxTime /\ run \in Nat /\ MaxTime \in Nat
  BY ReportsAssumption DEF StoreInv, StoreTypeOK
<1>3. \A v \in visits : /\ f[v] \in VisitRow /\ SameVisit(v, f[v])
                        /\ v \in Open => f[v].fate = "lost" /\ f[v].until = now
                        /\ v \notin Open => f[v] = v
  BY <1>1, <1>2 DEF VisitRow, SameVisit
<1>4. f \in [visits -> VisitRow]
  BY <1>3
<1>. HIDE DEF f
<1>5. Revises(f)
  <2>1. \A v \in visits : \A t \in 0..now : (f[v].fate = "open" \/ f[v].until >= t)
                                               <=> (v.fate = "open" \/ v.until >= t)
    BY <1>2, <1>3 DEF Open
  <2>. QED  BY <1>0, <1>3, <1>4, <2>1, GivesRevision
<1>6. \A w \in visits' : \E v \in visits : w = f[v]
  BY <1>0
<1>7. SeenInv' /\ StampsInv' /\ DetectionsKept'
  BY <1>0, <1>5, RevisionKeeps
<1>8. VisitsInv'
  <2>1. \A w \in visits' : w.run < run' /\ w.run # run'
    <3>. SUFFICES ASSUME NEW v \in visits PROVE f[v].run < run' /\ f[v].run # run'
      BY <1>6
    <3>1. f[v].run \in Nat /\ f[v].run <= run
      BY <1>1, <1>3 DEF SameVisit, VisitRow
    <3>. QED  BY <1>0, <1>2, <3>1
  <2>. QED  BY <1>5, <2>1, Revised DEF VisitsInv
<1>9. CountersInv'
  <2>. SUFFICES ASSUME NEW c \in CameraIds PROVE total'[c] = Cardinality(Counted(c)')
    BY DEF CountersInv
  <2>1. \A v \in visits : f[v].run # run'
    BY <1>0, <1>1, <1>2, <1>3 DEF SameVisit, VisitRow
  <2>2. Counted(c)' = {}
    BY <1>6, <2>1 DEF Counted
  <2>. QED  BY <1>0, <2>2, FS_EmptySet
<1>10. StoreTypeOK'
  <2>1. \A w \in visits' : w.since <= w.until /\ w.until <= now /\ w.run <= run'
    <3>. SUFFICES ASSUME NEW v \in visits
         PROVE  f[v].since <= f[v].until /\ f[v].until <= now /\ f[v].run <= run'
      BY <1>6
    <3>. QED  BY <1>0, <1>1, <1>2, <1>3 DEF SameVisit, VisitRow
  <2>2. Open' = {}
    BY <1>3, <1>6 DEF Open
  <2>3. visits' \subseteq VisitRow
    BY <1>5, Revised
  <2>4. run' \in 1..MaxRuns /\ total' \in [CameraIds -> 0..MaxVisits]
    BY <1>0, ReportsAssumption DEF StoreInv, StoreTypeOK
  <2>. QED  BY <1>0, <2>1, <2>2, <2>3, <2>4 DEF StoreInv, StoreTypeOK
<1>11. TracksInv'
  <2>1. \A w \in visits : w.fate = "stored" => w \in visits'
    BY <1>0, <1>3 DEF Open
  <2>2. \A w \in visits' : w.fate = "stored" => w \in visits
    BY <1>3, <1>6
  <2>. QED  BY <1>0, <2>1, <2>2 DEF StoreInv, TracksInv, RowOf
<1>. QED  BY <1>7, <1>8, <1>9, <1>10, <1>11 DEF StoreInv

\* The row written is of the visit committed; the one it takes over is of a visit, too.
LEMMA CommitTrackStep ==
    ASSUME StoreInv, NEW v \in visits, CommitTrack(v)
    PROVE  StoreInv'
<1>. DEFINE new == [v EXCEPT !.fate = "stored"]
            key == RowOf(v)
<1>0. /\ v.fate = "posted" /\ visits' = (visits \ {v}) \cup {new}
      /\ tracks' = [k \in DOMAIN tracks \cup {key} |->
                       IF k = key THEN [first_seen |-> v.since, last_seen |-> v.until]
                       ELSE tracks[k]]
      /\ UNCHANGED <<now, run, total, sent, snapshots, detections, reports>>
  BY DEF CommitTrack, RowOf
<1>1. /\ new \in VisitRow /\ SameVisit(v, new) /\ new.until = v.until /\ new.fate = "stored"
      /\ v.since <= v.until /\ v.until <= now /\ v.run <= run
  BY <1>0 DEF VisitRow, StoreInv, StoreTypeOK, SameVisit, VisitsInv
<1>. HIDE DEF new
<1>2. \A t \in 0..now : (new.fate = "open" \/ new.until >= t) <=> (v.fate = "open" \/ v.until >= t)
  BY <1>0, <1>1
<1>3. PICK f : Revises(f)
  BY <1>0, <1>1, <1>2, OneRevised
<1>4. SeenInv' /\ StampsInv' /\ DetectionsKept' /\ CountersInv'
  BY <1>0, <1>3, RevisionKeeps
<1>5. VisitsInv'
  <2>1. \A w \in visits' : /\ w.fate = "lost" => w.run < run'
                           /\ w.run = run' => w.nr <= total'[w.camera_id]
    BY <1>0, <1>1 DEF StoreInv, VisitsInv, SameVisit
  <2>. QED  BY <1>0, <1>3, <2>1, Revised DEF VisitsInv
<1>6. StoreTypeOK'
  <2>1. \A w \in visits' : w.since <= w.until /\ w.until <= now /\ w.run <= run
    BY <1>0, <1>1 DEF StoreInv, StoreTypeOK, SameVisit
  <2>2. Open' \subseteq Open
    BY <1>0, <1>1 DEF Open
  <2>3. visits' \subseteq VisitRow
    BY <1>3, Revised
  <2>4. key \in CameraIds \X Ids
    BY DEF StoreInv, StoreTypeOK, VisitRow, RowOf
  <2>. HIDE DEF key
  <2>5. \A k \in DOMAIN tracks' :
           k \in CameraIds \X Ids /\ tracks'[k].first_seen <= tracks'[k].last_seen
    BY <1>0, <1>1, <2>4 DEF StoreInv, StoreTypeOK
  <2>. QED  BY <1>0, <2>1, <2>2, <2>3, <2>5 DEF StoreInv, StoreTypeOK
<1>7. TracksInv'
  <2>1. \A w \in visits : w.fate = "stored" => w \in visits'
    BY <1>0
  <2>2. RowOf(new) = key /\ new.since = v.since /\ new \in visits'
    BY <1>0, <1>1 DEF SameVisit, RowOf
  <2>. HIDE DEF key
  <2>3. ASSUME NEW k \in DOMAIN tracks'
        PROVE  \E w \in visits' : /\ w.fate = "stored" /\ RowOf(w) = k
                                  /\ tracks'[k].first_seen = w.since
                                  /\ tracks'[k].last_seen = w.until
    <3>1. CASE k = key
      BY <1>0, <1>1, <2>2, <3>1
    <3>2. CASE k # key
      BY <1>0, <2>1, <3>2 DEF StoreInv, TracksInv
    <3>. QED  BY <3>1, <3>2
  <2>4. \A w \in visits' : w.fate = "stored" => RowOf(w) \in DOMAIN tracks'
    BY <1>0, <2>2 DEF StoreInv, TracksInv
  <2>. QED  BY <2>3, <2>4 DEF TracksInv, RowOf
<1>. QED  BY <1>4, <1>5, <1>6, <1>7 DEF StoreInv

\* A step that leaves the worker and the rows of tracks alone.
LEMMA VisitsKept ==
    ASSUME StoreInv, UNCHANGED <<run, visits, total, tracks>>
    PROVE  VisitsInv' /\ CountersInv' /\ TracksInv'
BY DEF StoreInv, VisitsInv, CountersInv, Counted, TracksInv

\* A snapshot carries the counter and no more people than the store holds.
LEMMA SnapshotStep ==
    ASSUME StoreInv, NEW c \in CameraIds, NEW people \in 0..MaxVisits, Snapshot(c, people)
    PROVE  StoreInv'
<1>. DEFINE new == [camera_id |-> c, ts |-> now, people_count |-> people,
                    unique_visitors |-> total[c], run |-> run]
<1>0. /\ \A s \in Posts : s.camera_id = c => s.ts < now
      /\ people <= Cardinality(OpenAt(c))
      /\ sent' = sent \cup {new}
      /\ UNCHANGED <<now, run, visits, total, snapshots, tracks, detections, reports>>
  BY DEF Snapshot, database, Posts
<1>1. /\ new \in SnapshotRow /\ new.camera_id = c /\ new.ts = now /\ new.run = run
      /\ new.people_count = people /\ new.unique_visitors = total[c] /\ now \in Nat
  <2>1. total[c] \in 0..MaxVisits /\ now \in 0..MaxTime /\ run \in 1..MaxRuns /\ MaxTime \in Nat
    BY ReportsAssumption DEF StoreInv, StoreTypeOK
  <2>. QED  BY <2>1 DEF SnapshotRow
<1>. HIDE DEF new
<1>2. VisitsInv' /\ CountersInv' /\ TracksInv'
  BY <1>0, VisitsKept
<1>3. StoreTypeOK'
  BY <1>0, <1>1 DEF StoreInv, StoreTypeOK, Open
<1>4. SeenInv'
  <2>1. Posts' = Posts \cup {new}
    BY <1>0 DEF Posts
  <2>2. \A s : SurelyIn(s)' = SurelyIn(s) /\ PerhapsIn(s)' = PerhapsIn(s)
               /\ PresentAt(s)' = PresentAt(s)
    BY <1>0 DEF SurelyIn, PerhapsIn, PresentAt
  <2>3. \A v \in visits : v \in VisitRow /\ v.since <= v.until /\ v.until <= now
    BY DEF StoreInv, StoreTypeOK
  <2>4. /\ SurelyIn(new) \in SUBSET Counted(c) /\ PerhapsIn(new) = Counted(c)
        /\ OpenAt(c) \in SUBSET PresentAt(new)
        /\ Counted(c) \in SUBSET visits /\ PresentAt(new) \in SUBSET visits
    BY <1>1, <2>3 DEF SurelyIn, PerhapsIn, Counted, OpenAt, Open, PresentAt, VisitRow
  <2>5. IsFiniteSet(Counted(c)) /\ IsFiniteSet(PresentAt(new))
    BY <2>4, FS_Subset DEF StoreInv, VisitsInv
  <2>6. /\ Cardinality(SurelyIn(new)) <= Cardinality(Counted(c))
        /\ Cardinality(OpenAt(c)) <= Cardinality(PresentAt(new))
        /\ Cardinality(OpenAt(c)) \in Nat /\ Cardinality(PresentAt(new)) \in Nat
    BY <2>4, <2>5, FS_Subset, FS_CardinalityType
  <2>7. total[c] = Cardinality(Counted(c)) /\ total[c] \in 0..MaxVisits
    BY DEF StoreInv, CountersInv, StoreTypeOK
  <2>8. /\ new.ts <= now /\ Cardinality(SurelyIn(new)) <= new.unique_visitors
        /\ new.unique_visitors <= Cardinality(PerhapsIn(new))
        /\ new.people_count <= Cardinality(PresentAt(new))
    BY <1>0, <1>1, <2>4, <2>6, <2>7
  <2>. QED  BY <1>0, <2>1, <2>2, <2>8 DEF StoreInv, SeenInv
<1>5. StampsInv'
  <2>1. \A s \in Posts : s \in SnapshotRow
    BY PostsTyped DEF StoreInv
  <2>2. \A s \in Posts : ~SameStamp(s, new) /\ ~SameStamp(new, s)
    BY <1>0, <1>1, <2>1 DEF SameStamp, SnapshotRow
  <2>3. sent \subseteq Posts /\ \A i \in DOMAIN snapshots : snapshots[i] \in Posts
    BY DEF Posts, Range
  <2>. QED  BY <1>0, <2>2, <2>3 DEF StoreInv, StampsInv, SameStamp
<1>6. DetectionsKept'
  BY <1>0 DEF StoreInv, DetectionsKept
<1>. QED  BY <1>2, <1>3, <1>4, <1>5, <1>6 DEF StoreInv

\* A commit moves a snapshot into the table, with its detections.
LEMMA CommitFrameStep ==
    ASSUME StoreInv, NEW s \in sent, CommitFrame(s)
    PROVE  StoreInv'
<1>0. /\ sent' = sent \ {s} /\ snapshots' = Append(snapshots, s)
      /\ detections' = IF s.people_count = 0 THEN detections
                       ELSE detections \cup {[camera_id |-> s.camera_id, ts |-> s.ts]}
      /\ UNCHANGED <<now, run, visits, total, tracks, reports>>
  BY DEF CommitFrame
<1>1. s \in SnapshotRow /\ snapshots \in Seq(SnapshotRow) /\ snapshots' \in Seq(SnapshotRow)
  BY <1>0 DEF StoreInv, StoreTypeOK
<1>2. Range(snapshots') = Range(snapshots) \cup {s}
  BY <1>0, <1>1, RangeOfAppend
<1>3. VisitsInv' /\ CountersInv' /\ TracksInv'
  BY <1>0, VisitsKept
<1>4. SeenInv'
  <2>1. Posts' = Posts
    BY <1>0, <1>2 DEF Posts
  <2>2. \A t : SurelyIn(t)' = SurelyIn(t) /\ PerhapsIn(t)' = PerhapsIn(t)
               /\ PresentAt(t)' = PresentAt(t)
    BY <1>0 DEF SurelyIn, PerhapsIn, PresentAt
  <2>. QED  BY <1>0, <2>1, <2>2 DEF StoreInv, SeenInv
<1>5. \A i \in DOMAIN snapshots' :
         \/ i \in DOMAIN snapshots /\ snapshots'[i] = snapshots[i]
         \/ i = Len(snapshots) + 1 /\ i \notin DOMAIN snapshots /\ snapshots'[i] = s
  BY <1>0, <1>1
<1>6. StoreTypeOK'
  <2>1. \A i, j \in DOMAIN snapshots' :
           snapshots'[i].camera_id = snapshots'[j].camera_id /\ snapshots'[i].ts = snapshots'[j].ts
              => i = j
    BY <1>5 DEF StoreInv, StoreTypeOK, StampsInv, SameStamp
  <2>2. detections' \subseteq DetectionRow
    BY <1>0, <1>1 DEF StoreInv, StoreTypeOK, DetectionRow, SnapshotRow
  <2>. QED  BY <1>0, <1>1, <2>1, <2>2 DEF StoreInv, StoreTypeOK, Open
<1>7. StampsInv'
  BY <1>0, <1>5 DEF StoreInv, StampsInv, SameStamp
<1>8. DetectionsKept'
  <2>. SUFFICES ASSUME NEW t \in Range(snapshots'), t.people_count > 0, now - t.ts <= Retention
       PROVE  [camera_id |-> t.camera_id, ts |-> t.ts] \in detections'
    BY <1>0 DEF DetectionsKept
  <2>. QED  BY <1>0, <1>2 DEF StoreInv, DetectionsKept
<1>. QED  BY <1>3, <1>4, <1>6, <1>7, <1>8 DEF StoreInv

\* What a report says of a camera: the highest counter of the snapshots it reads.
LEMMA VisitorsOf ==
    ASSUME StoreInv, NEW c, NEW t, Rows(c, t) # {}
    PROVE  /\ \E s \in Rows(c, t) : Visitors(Rows(c, t)) = s.unique_visitors
           /\ \A s \in Rows(c, t) : Visitors(Rows(c, t)) >= s.unique_visitors
           /\ Visitors(Rows(c, t)) \in 0..MaxVisits
<1>. DEFINE S == {s.unique_visitors : s \in Rows(c, t)}
<1>1. \A s \in Rows(c, t) : s.unique_visitors \in 0..MaxVisits
  BY PostsTyped DEF StoreInv, Rows, Posts, SnapshotRow
<1>2. S \in SUBSET (0..MaxVisits) /\ S # {} /\ MaxVisits \in Nat
  BY <1>1, ReportsAssumption
<1>3. Visitors(Rows(c, t)) = Max(S)
  BY DEF Visitors
<1>4. Max(S) \in S /\ \A y \in S : Max(S) >= y
  <2>. HIDE DEF S
  <2>. QED  BY <1>2, MaxOf
<1>. QED  BY <1>1, <1>3, <1>4

\* A report reads only.
LEMMA ReportStep ==
    ASSUME StoreInv, generate_daily_report
    PROVE  StoreInv'
<1>0. /\ reports' = {[camera_id |-> c, unique_visitors |-> Visitors(Rows(c, now - Day))] :
                         c \in {d \in CameraIds : Rows(d, now - Day) # {}}}
      /\ UNCHANGED <<now, run, visits, total, sent, snapshots, tracks, detections>>
  BY DEF generate_daily_report, worker
<1>1. reports' \subseteq ReportRow
  <2>1. \A c \in CameraIds : Rows(c, now - Day) # {} =>
           [camera_id |-> c, unique_visitors |-> Visitors(Rows(c, now - Day))] \in ReportRow
    BY VisitorsOf DEF ReportRow
  <2>. QED  BY <1>0, <2>1 DEF StoreInv, StoreTypeOK
<1>2. StoreTypeOK'
  BY <1>0, <1>1 DEF StoreInv, StoreTypeOK, Open
<1>3. VisitsInv' /\ CountersInv' /\ TracksInv'
  BY <1>0, VisitsKept
<1>4. SeenInv' /\ StampsInv' /\ DetectionsKept'
  BY <1>0 DEF StoreInv, SeenInv, StampsInv, DetectionsKept, Posts, SurelyIn, PerhapsIn, PresentAt,
              SameStamp
<1>. QED  BY <1>2, <1>3, <1>4 DEF StoreInv

\* A purge deletes what is older than the retention.
LEMMA PurgeStep ==
    ASSUME StoreInv, purge_old_detections
    PROVE  StoreInv'
<1>0. /\ detections' = {d \in detections : d.ts >= now - Retention}
      /\ UNCHANGED <<now, run, visits, total, sent, snapshots, tracks, reports>>
  BY DEF purge_old_detections, worker
<1>1. StoreTypeOK'
  BY <1>0 DEF StoreInv, StoreTypeOK, Open
<1>2. VisitsInv' /\ CountersInv' /\ TracksInv'
  BY <1>0, VisitsKept
<1>3. SeenInv' /\ StampsInv'
  BY <1>0 DEF StoreInv, SeenInv, StampsInv, Posts, SurelyIn, PerhapsIn, PresentAt, SameStamp
<1>4. DetectionsKept'
  <2>1. \A s \in Range(snapshots) : s.ts \in Nat /\ now \in Nat /\ Retention \in Nat
    BY PostsTyped, ReportsAssumption DEF StoreInv, Posts, SnapshotRow, StoreTypeOK
  <2>. QED  BY <1>0, <2>1 DEF StoreInv, DetectionsKept
<1>. QED  BY <1>1, <1>2, <1>3, <1>4 DEF StoreInv

\* Time makes every limit easier to keep.
LEMMA TickStep ==
    ASSUME StoreInv, StoreTick
    PROVE  StoreInv'
<1>0. /\ now < MaxTime /\ now' = now + 1
      /\ UNCHANGED <<run, visits, total, sent, snapshots, tracks, detections, reports>>
  BY DEF StoreTick, worker, database
<1>1. now \in Nat /\ MaxTime \in Nat /\ Retention \in Nat
  BY ReportsAssumption DEF StoreInv, StoreTypeOK
<1>2. \A v \in visits : v.until <= now'
  BY <1>0, <1>1 DEF StoreInv, StoreTypeOK, VisitRow
<1>3. \A s \in Posts : s.ts \in Nat /\ s.ts <= now /\ s.ts <= now'
  BY <1>0, <1>1, PostsTyped DEF StoreInv, SeenInv, SnapshotRow
<1>4. StoreTypeOK'
  BY <1>0, <1>1, <1>2 DEF StoreInv, StoreTypeOK, Open
<1>5. VisitsInv' /\ CountersInv' /\ TracksInv'
  BY <1>0, VisitsKept
<1>6. SeenInv' /\ StampsInv'
  BY <1>0, <1>3 DEF StoreInv, SeenInv, StampsInv, Posts, SurelyIn, PerhapsIn, PresentAt, SameStamp
<1>7. DetectionsKept'
  BY <1>0, <1>1, <1>3 DEF StoreInv, DetectionsKept, Posts
<1>. QED  BY <1>4, <1>5, <1>6, <1>7 DEF StoreInv

\* The tables are empty and the first process runs.
LEMMA InvInit == StoreInit => StoreInv
<1>. SUFFICES ASSUME StoreInit PROVE StoreInv
  OBVIOUS
<1>0. /\ now = 0 /\ run = 1 /\ visits = {} /\ total = [c \in CameraIds |-> 0] /\ sent = {}
      /\ snapshots = <<>> /\ tracks = <<>> /\ detections = {}
      /\ reports = {}
  BY DEF StoreInit
<1>1. DOMAIN snapshots = {} /\ DOMAIN tracks = {} /\ snapshots \in Seq(SnapshotRow)
      /\ Range(snapshots) = {} /\ Posts = {}
  BY <1>0 DEF Range, Posts
<1>2. StoreTypeOK
  BY <1>0, <1>1, ReportsAssumption DEF StoreTypeOK, Open
<1>3. VisitsInv /\ TracksInv
  BY <1>0, <1>1, FS_EmptySet, ReportsAssumption DEF VisitsInv, TracksInv
<1>4. CountersInv
  <2>1. \A c \in CameraIds : Counted(c) = {}
    BY <1>0 DEF Counted
  <2>. QED  BY <1>0, <2>1, FS_EmptySet DEF CountersInv
<1>5. SeenInv /\ StampsInv /\ DetectionsKept
  BY <1>0, <1>1 DEF SeenInv, StampsInv, DetectionsKept
<1>. QED  BY <1>2, <1>3, <1>4, <1>5 DEF StoreInv

\* Every step keeps the invariant.
LEMMA InvStep == StoreInv /\ [StoreNext]_storeVars => StoreInv'
<1>. SUFFICES ASSUME StoreInv, [StoreNext]_storeVars PROVE StoreInv'
  OBVIOUS
<1>1. ASSUME NEW c \in CameraIds, NEW i \in Ids, Enter(c, i) PROVE StoreInv'
  BY <1>1, EnterStep
<1>2. ASSUME NEW v \in Open, Leave(v) PROVE StoreInv'
  BY <1>2, LeaveStep
<1>3. CASE Restart
  BY <1>3, RestartStep
<1>4. ASSUME NEW c \in CameraIds, NEW n \in 0..MaxVisits, Snapshot(c, n) PROVE StoreInv'
  BY <1>4, SnapshotStep
<1>5. ASSUME NEW v \in visits, CommitTrack(v) PROVE StoreInv'
  BY <1>5, CommitTrackStep
<1>6. ASSUME NEW s \in sent, CommitFrame(s) PROVE StoreInv'
  BY <1>6, CommitFrameStep
<1>7. CASE generate_daily_report
  BY <1>7, ReportStep
<1>8. CASE purge_old_detections
  BY <1>8, PurgeStep
<1>9. CASE StoreTick
  BY <1>9, TickStep
<1>10. CASE UNCHANGED storeVars
  <2>1. UNCHANGED <<now, run, visits, total, sent, snapshots, tracks, detections, reports>>
    BY <1>10 DEF storeVars, worker, database
  <2>2. StoreTypeOK'
    BY <2>1 DEF StoreInv, StoreTypeOK, Open
  <2>3. VisitsInv' /\ CountersInv' /\ TracksInv'
    BY <2>1, VisitsKept
  <2>4. SeenInv' /\ StampsInv' /\ DetectionsKept'
    BY <2>1 DEF StoreInv, SeenInv, StampsInv, DetectionsKept, Posts, SurelyIn, PerhapsIn, PresentAt,
                SameStamp
  <2>. QED  BY <2>2, <2>3, <2>4 DEF StoreInv
<1>. QED  BY <1>1, <1>2, <1>3, <1>4, <1>5, <1>6, <1>7, <1>8, <1>9, <1>10 DEF StoreNext

-----------------------------------------------------------------------------
(* The tables and the tasks                                                *)

\* Tables and stores hold what their columns can hold, and no counter outgrows
\* the tracks that were opened.
THEOREM StoreTypeCorrect == StoreSpec => []StoreTypeOK
<1>1. StoreInv => StoreTypeOK
  BY DEF StoreInv
<1>. QED  BY <1>1, InvInit, InvStep, PTL DEF StoreSpec

\* TrackStore.total_unique is the number of visits to its camera since the worker
\* started, however many ids came again and restarts there were.
THEOREM CountersAreVisits == StoreSpec => []CountersInv
<1>1. StoreInv => CountersInv
  BY DEF StoreInv
<1>. QED  BY <1>1, InvInit, InvStep, PTL DEF StoreSpec

\* What a report says, from the snapshots it reads.
LEMMA ReportIsReal ==
    ASSUME StoreInv, generate_daily_report
    PROVE  VisitorsAreReal
<1>. DEFINE from == now - Day
<1>1. reports' = {[camera_id |-> c, unique_visitors |-> Visitors(Rows(c, from))] :
                          c \in {d \in CameraIds : Rows(d, from) # {}}}
  BY DEF generate_daily_report
<1>2. \A s \in Range(snapshots) : s \in Posts /\ s \in SnapshotRow /\ s.ts \in Int
  BY PostsTyped DEF StoreInv, Posts, SnapshotRow
<1>. HIDE DEF from
<1>3. VisitorsAreReal
  <2>. SUFFICES ASSUME NEW c \in CameraIds, Rows(c, from) # {}
       PROVE  /\ \A s \in Rows(c, from) : Cardinality(SurelyIn(s)) <= Visitors(Rows(c, from))
              /\ \E s \in Rows(c, from) : Visitors(Rows(c, from)) <= Cardinality(PerhapsIn(s))
    BY <1>1 DEF VisitorsAreReal, from
  <2>1. \A s \in Rows(c, from) : s \in Posts /\ s.unique_visitors \in Nat
                                 /\ Cardinality(SurelyIn(s)) <= s.unique_visitors
                                 /\ s.unique_visitors <= Cardinality(PerhapsIn(s))
    BY <1>2 DEF Rows, StoreInv, SeenInv, SnapshotRow
  <2>2. \A s \in Rows(c, from) : Cardinality(SurelyIn(s)) \in Nat
    <3>1. \A s : SurelyIn(s) \in SUBSET visits
      BY DEF SurelyIn
    <3>. QED  BY <3>1, PartCounts DEF StoreInv, VisitsInv
  <2>. QED  BY <2>1, <2>2, VisitorsOf
<1>. QED  BY <1>3

\* A daily report gives a camera the visitors a snapshot of its window had counted, and
\* detections stay for the retention.
THEOREM TasksAreTrue == StoreSpec => TasksTrue
<1>1. StoreInv => DetectionsKept
  BY DEF StoreInv
<1>2. StoreInv /\ [StoreNext]_storeVars =>
         [generate_daily_report => VisitorsAreReal]_storeVars
  BY ReportIsReal
<1>. QED  BY <1>1, <1>2, InvInit, InvStep, PTL DEF StoreSpec, TasksTrue

-----------------------------------------------------------------------------
(* The dashboard                                                           *)

\* Counting one set by another: every element has one of its own.
LEMMA NoMoreThan ==
    ASSUME NEW S, NEW T, IsFiniteSet(T), NEW f \in [S -> T],
           \A x, y \in S : f[x] = f[y] => x = y
    PROVE  IsFiniteSet(S) /\ Cardinality(S) <= Cardinality(T)
<1>1. f \in Injection(S, T)
  BY DEF Injection, IsInjective
<1>. QED  BY <1>1, FS_Injection

\* As many elements of a finite set as are wanted, numbered.
LEMMA Numbered ==
    ASSUME NEW T, IsFiniteSet(T), NEW n \in Nat, n <= Cardinality(T)
    PROVE  \E g \in [1..n -> T] : \A x, y \in 1..n : g[x] = g[y] => x = y
<1>1. Cardinality(T) \in Nat /\ ExistsBijection(1..Cardinality(T), T)
  BY FS_CardinalityType
<1>2. PICK b : b \in Bijection(1..Cardinality(T), T)
  BY <1>1 DEF ExistsBijection
<1>3. /\ b \in [1..Cardinality(T) -> T]
      /\ \A x, y \in 1..Cardinality(T) : b[x] = b[y] => x = y
  BY <1>2 DEF Bijection, Injection, IsInjective
<1>. DEFINE g == [x \in 1..n |-> b[x]]
<1>4. \A x \in 1..n : x \in 1..Cardinality(T) /\ g[x] = b[x]
  BY <1>1
<1>5. g \in [1..n -> T]
  BY <1>3, <1>4
<1>. QED  BY <1>3, <1>4, <1>5

\* Midnight is an instant.
LEMMA DayStartIsInt == StoreInv => day_start \in Int
BY ReportsAssumption DEF StoreInv, StoreTypeOK, day_start

\* Every id counted today is of a visit of today, and every row found is of one.
LEMMA TilesTrue == StoreInv => VisitorsTodayReal
<1>. SUFFICES ASSUME StoreInv PROVE VisitorsTodayReal
  OBVIOUS
<1>. DEFINE K == {k \in DOMAIN tracks : tracks[k].first_seen >= day_start}
<1>1. TodaysIds = {k[2] : k \in K}
  BY DEF TodaysIds
<1>2. \A k \in K : \E v \in TodaysVisits : RowOf(v) = k
  BY DEF StoreInv, TracksInv, TodaysVisits
<1>3. IsFiniteSet(visits) /\ TodaysVisits \in SUBSET visits /\ day_start \in Int
  BY DayStartIsInt DEF StoreInv, VisitsInv, TodaysVisits
<1>4. IsFiniteSet(TodaysVisits)
  BY <1>3, FS_Subset
<1>. HIDE DEF K
<1>5. Cardinality(TodaysIds) <= Cardinality(TodaysVisits)
  <2>. DEFINE f == [i \in TodaysIds |-> CHOOSE v \in TodaysVisits : v.track_id = i]
  <2>1. \A i \in TodaysIds : \E v \in TodaysVisits : v.track_id = i
    BY <1>1, <1>2 DEF RowOf
  <2>2. \A i \in TodaysIds : f[i] \in TodaysVisits /\ f[i].track_id = i
    BY <2>1
  <2>3. f \in [TodaysIds -> TodaysVisits] /\ \A i, j \in TodaysIds : f[i] = f[j] => i = j
    BY <2>2
  <2>. HIDE DEF f
  <2>. QED  BY <1>4, <2>3, NoMoreThan
<1>6. Cardinality(TodaysIds) <= Cardinality(K)
  <2>1. IsFiniteSet(K)
    <3>. DEFINE f == [k \in K |-> CHOOSE v \in TodaysVisits : RowOf(v) = k]
    <3>1. \A k \in K : f[k] \in TodaysVisits /\ RowOf(f[k]) = k
      BY <1>2
    <3>2. f \in [K -> TodaysVisits] /\ \A k, l \in K : f[k] = f[l] => k = l
      BY <3>1
    <3>. HIDE DEF f
    <3>. QED  BY <1>4, <3>2, NoMoreThan
  <2>. DEFINE f == [i \in TodaysIds |-> CHOOSE k \in K : k[2] = i]
  <2>2. \A i \in TodaysIds : f[i] \in K /\ f[i][2] = i
    BY <1>1
  <2>3. f \in [TodaysIds -> K] /\ \A i, j \in TodaysIds : f[i] = f[j] => i = j
    BY <2>2
  <2>. HIDE DEF f
  <2>. QED  BY <2>1, <2>3, NoMoreThan
<1>7. Dwell(CameraIds, day_start).tracks = Cardinality(K)
  <2>1. K = {k \in DOMAIN tracks : k[1] \in CameraIds /\ tracks[k].first_seen >= day_start}
    BY DEF K, StoreInv, StoreTypeOK
  <2>. QED  BY <2>1 DEF Dwell
<1>8. ASSUME NEW v \in TodaysVisits, v.fate = "stored",
             tracks[<<v.camera_id, v.track_id>>].first_seen >= v.since
      PROVE  v.track_id \in TodaysIds
  <2>1. RowOf(v) \in DOMAIN tracks /\ v \in visits /\ v.since >= day_start /\ v.since \in Int
    BY <1>3, <1>8 DEF StoreInv, TracksInv, TodaysVisits, StoreTypeOK, VisitRow
  <2>2. tracks[RowOf(v)].first_seen \in Int
    BY <2>1 DEF StoreInv, TracksInv, StoreTypeOK, VisitRow
  <2>3. RowOf(v) \in K /\ RowOf(v)[2] = v.track_id
    BY <1>3, <1>8, <2>1, <2>2 DEF K, RowOf
  <2>. QED  BY <1>1, <2>3
<1>. QED  BY <1>5, <1>6, <1>7, <1>8 DEF VisitorsTodayReal, Overview

\* The longest time found is that of a row, also when it is zero.
LEMMA DwellTrue == StoreInv => DwellIsReal
<1>. SUFFICES ASSUME StoreInv PROVE DwellIsReal
  OBVIOUS
<1>. DEFINE K == {k \in DOMAIN tracks : k[1] \in CameraIds /\ tracks[k].first_seen >= 0}
            S == {tracks[k].last_seen - tracks[k].first_seen : k \in K} \cup {0}
<1>1. Dwell(CameraIds, 0) = [tracks |-> Cardinality(K), max_dwell_s |-> Max(S)]
  BY DEF Dwell
<1>2. SUFFICES ASSUME K # {}
      PROVE \E v \in visits : v.fate = "stored" /\ v.until - v.since = Max(S)
  <2>1. Cardinality({}) = 0
    BY FS_EmptySet
  <2>. HIDE DEF K, S
  <2>. QED  BY <1>1, <2>1 DEF DwellIsReal
<1>3. \A k \in K : \E v \in visits :
         /\ v.fate = "stored" /\ v.until - v.since = tracks[k].last_seen - tracks[k].first_seen
         /\ v.until - v.since \in 0..MaxTime
  <2>. SUFFICES ASSUME NEW k \in K
       PROVE \E v \in visits :
         /\ v.fate = "stored" /\ v.until - v.since = tracks[k].last_seen - tracks[k].first_seen
         /\ v.until - v.since \in 0..MaxTime
    OBVIOUS
  <2>1. PICK v \in visits : /\ v.fate = "stored" /\ tracks[k].first_seen = v.since
                            /\ tracks[k].last_seen = v.until
    BY DEF StoreInv, TracksInv
  <2>2. v.since \in 0..MaxTime /\ v.until \in 0..MaxTime /\ v.since <= v.until
    BY <2>1 DEF StoreInv, VisitsInv, StoreTypeOK, VisitRow
  <2>3. v.until - v.since \in 0..MaxTime
    BY <2>2, ReportsAssumption
  <2>. QED  BY <2>1, <2>3
<1>4. S \in SUBSET (0..MaxTime) /\ S # {} /\ MaxTime \in Nat
  <2>. HIDE DEF K
  <2>. QED  BY <1>3, ReportsAssumption
<1>5. Max(S) \in S /\ \A y \in S : Max(S) >= y
  <2>. HIDE DEF S
  <2>. QED  BY <1>4, MaxOf
<1>. HIDE DEF K
<1>6. PICK k \in K : TRUE
  BY <1>2
<1>7. CASE Max(S) = 0
  <2>1. PICK v \in visits :
           /\ v.fate = "stored" /\ v.until - v.since = tracks[k].last_seen - tracks[k].first_seen
           /\ v.until - v.since \in 0..MaxTime
    BY <1>3, <1>6
  <2>2. v.until - v.since \in S
    BY <1>6, <2>1
  <2>3. Max(S) >= v.until - v.since
    BY <1>5, <2>2
  <2>. HIDE DEF S
  <2>. QED  BY <1>7, <2>1, <2>3
<1>8. CASE Max(S) # 0
  <2>1. PICK l \in K : Max(S) = tracks[l].last_seen - tracks[l].first_seen
    BY <1>5, <1>8
  <2>. QED  BY <1>3, <2>1
<1>. QED  BY <1>7, <1>8

\* A camera with snapshots has a latest one.
LEMMA LatestIsOne ==
    ASSUME StoreInv, NEW c, Rows(c, 0) # {}
    PROVE  Latest(c) \in Rows(c, 0)
<1>. DEFINE S == {s.ts : s \in Rows(c, 0)}
<1>1. \A s \in Rows(c, 0) : s.ts \in 0..MaxTime
  BY PostsTyped DEF StoreInv, Rows, Posts, SnapshotRow
<1>2. S \in SUBSET (0..MaxTime) /\ S # {} /\ MaxTime \in Nat
  BY <1>1, ReportsAssumption
<1>3. \E x \in S : \A y \in S : x >= y
  <2>. HIDE DEF S
  <2>. QED  BY <1>2, HighestExists
<1>4. \E s \in Rows(c, 0) : \A o \in Rows(c, 0) : s.ts >= o.ts
  BY <1>3
<1>. QED  BY <1>4 DEF Latest

\* The people of a fresh snapshot are matched with visits present when it was taken.
LEMMA OccupancyTrue == StoreInv => NoGhosts
<1>. SUFFICES ASSUME StoreInv PROVE NoGhosts
  OBVIOUS
<1>. DEFINE recent    == {c \in CameraIds : Rows(c, 0) # {} /\ IsFresh(Latest(c).ts)}
            people(c) == Latest(c).people_count
            there(c)  == PresentAt(Latest(c))
            counted   == UNION {{c} \X (1..people(c)) : c \in recent}
            T         == TrackedSince(now - Fresh)
            one(c, g) == g \in [1..people(c) -> there(c)]
                         /\ \A x, y \in 1..people(c) : g[x] = g[y] => x = y
            G         == [c \in recent |-> CHOOSE g : one(c, g)]
            f         == [p \in counted |-> G[p[1]][p[2]]]
<1>1. Overview.current_occupancy = Cardinality(counted)
  BY DEF Overview
<1>2. \A c \in recent : /\ people(c) \in Nat /\ people(c) <= Cardinality(there(c))
                        /\ there(c) \subseteq T /\ IsFiniteSet(there(c))
                        /\ \A v \in there(c) : v.camera_id = c
  <2>. SUFFICES ASSUME NEW c \in recent
       PROVE  /\ people(c) \in Nat /\ people(c) <= Cardinality(there(c))
              /\ there(c) \subseteq T /\ IsFiniteSet(there(c))
              /\ \A v \in there(c) : v.camera_id = c
    OBVIOUS
  <2>1. Latest(c) \in Rows(c, 0) /\ now - Latest(c).ts < Fresh
    BY LatestIsOne DEF IsFresh
  <2>2. Latest(c) \in Posts /\ Latest(c).camera_id = c
    BY <2>1 DEF Rows, Posts
  <2>3. Latest(c) \in SnapshotRow
    BY <2>2, PostsTyped DEF StoreInv
  <2>4. people(c) \in Nat /\ people(c) <= Cardinality(there(c))
    BY <2>2, <2>3 DEF StoreInv, SeenInv, SnapshotRow
  <2>5. Latest(c).ts \in Int /\ now \in Int /\ Fresh \in Int
    BY <2>3, ReportsAssumption DEF SnapshotRow, StoreInv, StoreTypeOK
  <2>6. \A v \in visits : v.until \in Int
    BY DEF StoreInv, StoreTypeOK, VisitRow
  <2>7. there(c) \subseteq T
    BY <2>1, <2>5, <2>6 DEF PresentAt, TrackedSince
  <2>8. there(c) \in SUBSET visits
    BY DEF PresentAt
  <2>9. IsFiniteSet(there(c))
    BY <2>8, PartCounts DEF StoreInv, VisitsInv
  <2>. QED  BY <2>2, <2>4, <2>7, <2>9 DEF PresentAt
<1>3. IsFiniteSet(T)
  <2>1. T \in SUBSET visits
    BY DEF TrackedSince
  <2>. QED  BY <2>1, PartCounts DEF StoreInv, VisitsInv
<1>4. \A p \in counted : p[1] \in recent /\ p[2] \in 1..people(p[1]) /\ p = <<p[1], p[2]>>
  OBVIOUS
<1>. HIDE DEF recent, people, there, counted, T
<1>5. \A c \in recent : one(c, G[c])
  <2>. SUFFICES ASSUME NEW c \in recent PROVE \E g : one(c, g)
    OBVIOUS
  <2>. QED  BY <1>2, Numbered
<1>6. f = [p \in counted |-> f[p]] /\ \A p \in counted : f[p] = G[p[1]][p[2]]
  OBVIOUS
<1>. HIDE DEF G, f
<1>7. ASSUME NEW p \in counted PROVE f[p] \in T /\ f[p].camera_id = p[1]
  <2>1. p[1] \in recent /\ p[2] \in 1..people(p[1]) /\ one(p[1], G[p[1]])
    BY <1>4, <1>5
  <2>2. f[p] \in there(p[1])
    BY <1>6, <2>1
  <2>. QED  BY <1>2, <2>1, <2>2
<1>8. ASSUME NEW p \in counted, NEW q \in counted, f[p] = f[q] PROVE p = q
  <2>1. p[1] = q[1]
    BY <1>7, <1>8
  <2>2. p[2] \in 1..people(p[1]) /\ q[2] \in 1..people(p[1]) /\ one(p[1], G[p[1]])
    BY <1>4, <1>5, <2>1
  <2>3. p[2] = q[2]
    BY <1>6, <1>8, <2>1, <2>2
  <2>. QED  BY <1>4, <2>1, <2>3
<1>9. Cardinality(counted) <= Cardinality(T)
  <2>1. f \in [counted -> T]
    BY <1>6, <1>7
  <2>. QED  BY <1>3, <1>8, <2>1, NoMoreThan
<1>. QED  BY <1>1, <1>9 DEF NoGhosts, T

\* What the dashboard shows agrees with the visits: no more visitors than came, nobody
\* in store who was not tracked of late, the longest dwell one that somebody stayed.
THEOREM OverviewIsTrue == StoreSpec => []OverviewTrue
<1>1. StoreInv => OverviewTrue
  BY TilesTrue, OccupancyTrue, DwellTrue DEF OverviewTrue
<1>. QED  BY <1>1, InvInit, InvStep, PTL DEF StoreSpec

=============================================================================
