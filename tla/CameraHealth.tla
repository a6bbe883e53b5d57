---------------------------- MODULE CameraHealth ----------------------------
(***************************************************************************)
(* Camera health: the workers' heartbeats (streaming/camera_worker.py, the *)
(* heartbeat endpoint of backend/app/api/v1/cameras.py) against the Celery *)
(* health sweep (services/tasks.py) and the alert deduplication it relies  *)
(* on (services/alert_service.py).                                         *)
(*                                                                         *)
(* The heartbeat handler and each sweep run in a database session of their *)
(* own.  A session keeps the rows it loaded, and its commit writes only    *)
(* the columns it changed.  A sweep is long: raise_alert calls Slack, a    *)
(* webhook and a mail server before the loop goes on.                      *)
(*                                                                         *)
(* Timestamps are kept as ages that stop growing just past the limit the   *)
(* code compares them with, so time needs no bound.                        *)
(***************************************************************************)
EXTENDS Naturals, FiniteSets

CONSTANTS
    Cameras,
    Sweeps,        \* the camera_health_sweep tasks that may run at once (celery -c 2)
    OfflineAfter,  \* OFFLINE_AFTER
    DedupWindow,   \* DEDUP_WINDOW
    MaxCrashes     \* how many sweeps die half-way (bound)

ASSUME HealthAssumption ==
    OfflineAfter \in Nat /\ DedupWindow \in Nat /\ MaxCrashes \in Nat

VARIABLES
    sinceBeat,   \* age of cameras.last_heartbeat; past the limit when NULL
    status,      \* cameras.status
    active,      \* cameras.is_active
    sinceAlert,  \* age of the camera's latest camera_offline alert
    up,          \* whether the camera delivers frames and the backend hears of it
    beat,        \* the heartbeat handler of each camera
    sweep,       \* the sweep tasks
    crashes,
    overtaken    \* history: what other sessions committed under a sweep's feet

tables == <<sinceBeat, status, active, sinceAlert>>
vars == <<tables, up, beat, sweep, crashes, overtaken>>

\* The cameras whose status a sweep has still to write.
Holds(s) == sweep[s].todo \cup sweep[s].dirty

NeverBeat  == OfflineAfter + 1
NeverAlert == DedupWindow + 1

Older(age, limit) == IF age > limit THEN age ELSE age + 1

Tick ==
    /\ sinceBeat' = [c \in Cameras |-> Older(sinceBeat[c], OfflineAfter)]
    /\ sinceAlert' = [c \in Cameras |-> Older(sinceAlert[c], DedupWindow)]
    /\ UNCHANGED <<status, active, up, beat, sweep, crashes, overtaken>>

-----------------------------------------------------------------------------
(* Heartbeats                                                              *)

\* The camera's stream or the link comes or goes.
Flip(c) ==
    /\ up' = [up EXCEPT ![c] = ~up[c]]
    /\ UNCHANGED <<tables, beat, sweep, crashes, overtaken>>

\* PATCH /cameras/{id} with is_active.
SetActive(c) ==
    /\ active' = [active EXCEPT ![c] = ~active[c]]
    /\ UNCHANGED <<sinceBeat, status, sinceAlert, up, beat, sweep, crashes, overtaken>>

NoBeat == [pc |-> "idle", status |-> "offline"]

\* The worker posts, and the handler loads the camera.
BeatLoad(c) ==
    /\ up[c] /\ beat[c].pc = "idle"
    /\ beat' = [beat EXCEPT ![c] = [pc |-> "loaded", status |-> status[c]]]
    /\ UNCHANGED <<tables, up, sweep, crashes, overtaken>>

\* The status column is written only if it differs from what was loaded.
StatusAfterBeat(c) ==
    IF beat[c].status = "online" THEN status ELSE [status EXCEPT ![c] = "online"]

BeatCommit(c) ==
    /\ beat[c].pc = "loaded"
    /\ sinceBeat' = [sinceBeat EXCEPT ![c] = 0]
    /\ status' = StatusAfterBeat(c)
    /\ beat' = [beat EXCEPT ![c] = NoBeat]
    /\ overtaken' = [s \in Sweeps |->
                        [overtaken[s] EXCEPT !.beats = @ \cup ({c} \cap Holds(s))]]
    /\ UNCHANGED <<active, sinceAlert, up, sweep, crashes>>

-----------------------------------------------------------------------------
(* camera_health_sweep                                                     *)

NotOvertaken == [beats |-> {}, alert |-> FALSE]
Idle == [pc |-> "idle", todo |-> {}, dirty |-> {}, cam |-> {}]

Stale(c) == sinceBeat[c] > OfflineAfter

\* Mutant: the query selects the inactive cameras.
InactiveToFlag == {c \in Cameras : ~active[c] /\ Stale(c) /\ status[c] = "online"}
\* Which of the active cameras the loop will find stale and online: decided by the
\* rows as loaded, whatever is committed while the loop runs.
ToFlag == {c \in Cameras : active[c] /\ Stale(c) /\ status[c] = "online"}

SweepLoad(s) ==
    /\ sweep[s].pc = "idle"
    /\ sweep' = [sweep EXCEPT ![s] = [Idle EXCEPT !.pc = "loop", !.todo = ToFlag]]
    /\ UNCHANGED <<tables, up, beat, crashes, overtaken>>

\* Mutant: > for >= in the query for recent alerts.
RecentStrictly(c) == sinceAlert[c] < DedupWindow
\* _recent_duplicate
RecentDuplicate(c) == sinceAlert[c] <= DedupWindow

\* cam.status is set in the session; raise_alert looks for a recent alert and, when
\* there is one, returns without a commit.
SweepCheck(s) ==
    \E c \in sweep[s].todo :
        /\ sweep[s].pc = "loop"
        /\ sweep' = [sweep EXCEPT ![s] =
                        [pc    |-> IF RecentDuplicate(c) THEN "loop" ELSE "raise",
                         todo  |-> @.todo \ {c},
                         dirty |-> @.dirty \cup {c},
                         cam   |-> IF RecentDuplicate(c) THEN {} ELSE {c}]]
        /\ UNCHANGED <<tables, up, beat, crashes, overtaken>>

\* What a commit of the sweep's session does to the status column.
Flushed(s) == [c \in Cameras |-> IF c \in sweep[s].dirty THEN "offline" ELSE status[c]]

\* Mutant: the alert is committed in a session of its own.
RaisedAlone(s) == [sweep[s] EXCEPT !.pc = "dispatch"]
\* The sweep after the commit of raise_alert, which is that of its own session.
Raised(s) == [sweep[s] EXCEPT !.pc = "dispatch", !.dirty = {}]

\* The commit of raise_alert: the alert, and every status the loop has set so far.
SweepRaise(s) ==
    /\ sweep[s].pc = "raise"
    /\ sinceAlert' = [c \in Cameras |-> IF c \in sweep[s].cam THEN 0 ELSE sinceAlert[c]]
    /\ status' = Flushed(s)
    /\ sweep' = [sweep EXCEPT ![s] = Raised(s)]
    /\ overtaken' = [r \in Sweeps |->
                        IF r = s THEN [beats |-> overtaken[s].beats \cap sweep[s].todo, alert |-> FALSE]
                        ELSE IF sweep[r].pc = "raise" /\ sweep[r].cam = sweep[s].cam
                        THEN [overtaken[r] EXCEPT !.alert = TRUE] ELSE overtaken[r]]
    /\ UNCHANGED <<sinceBeat, active, up, beat, crashes>>

\* dispatch: three slow calls, whose failures are swallowed.
SweepDispatched(s) ==
    /\ sweep[s].pc = "dispatch"
    /\ sweep' = [sweep EXCEPT ![s] = [@ EXCEPT !.pc = "loop", !.cam = {}]]
    /\ UNCHANGED <<tables, up, beat, crashes, overtaken>>

SweepCommit(s) ==
    /\ sweep[s].pc = "loop" /\ sweep[s].todo = {}
    /\ status' = Flushed(s)
    /\ sweep' = [sweep EXCEPT ![s] = Idle]
    /\ overtaken' = [overtaken EXCEPT ![s] = NotOvertaken]
    /\ UNCHANGED <<sinceBeat, active, sinceAlert, up, beat, crashes>>

\* The worker process dies: what the session had not committed is gone.
SweepCrash(s) ==
    /\ sweep[s].pc # "idle" /\ crashes < MaxCrashes
    /\ crashes' = crashes + 1
    /\ sweep' = [sweep EXCEPT ![s] = Idle]
    /\ overtaken' = [overtaken EXCEPT ![s] = NotOvertaken]
    /\ UNCHANGED <<tables, up, beat>>

-----------------------------------------------------------------------------
Init ==
    /\ sinceBeat = [c \in Cameras |-> NeverBeat]
    /\ status = [c \in Cameras |-> "offline"]
    /\ active = [c \in Cameras |-> TRUE]
    /\ sinceAlert = [c \in Cameras |-> NeverAlert]
    /\ up = [c \in Cameras |-> TRUE]
    /\ beat = [c \in Cameras |-> NoBeat]
    /\ sweep = [s \in Sweeps |-> Idle]
    /\ crashes = 0
    /\ overtaken = [s \in Sweeps |-> NotOvertaken]

Heartbeat(c) == BeatLoad(c) \/ BeatCommit(c)
Sweep(s) == SweepLoad(s) \/ SweepCheck(s) \/ SweepRaise(s) \/ SweepDispatched(s) \/ SweepCommit(s)

Next == \/ Tick
        \/ \E c \in Cameras : Flip(c) \/ SetActive(c) \/ Heartbeat(c)
        \/ \E s \in Sweeps : Sweep(s) \/ SweepCrash(s)

Spec == Init /\ [][Next]_vars

\* Time passes, a camera that is up keeps sending heartbeats, and beat keeps
\* scheduling sweeps that Celery's workers run.
Fairness == /\ WF_vars(Tick)
            /\ \A c \in Cameras : WF_vars(Heartbeat(c))
            /\ \A s \in Sweeps : WF_vars(Sweep(s))
FairSpec == Spec /\ Fairness

-----------------------------------------------------------------------------
(* Properties                                                              *)

SessionType == [pc : {"idle", "loop", "raise", "dispatch"}, todo : SUBSET Cameras,
                dirty : SUBSET Cameras, cam : SUBSET Cameras]

\* The ages stay within their limits, the sessions hold what they loaded, and no sweep
\* waits for the slow calls of dispatch with a status it has not committed.
TypeOK ==
    /\ sinceBeat \in [Cameras -> 0..NeverBeat]
    /\ status \in [Cameras -> {"online", "offline"}]
    /\ active \in [Cameras -> BOOLEAN] /\ up \in [Cameras -> BOOLEAN]
    /\ sinceAlert \in [Cameras -> 0..NeverAlert]
    /\ beat \in [Cameras -> [pc : {"idle", "loaded"}, status : {"online", "offline"}]]
    /\ sweep \in [Sweeps -> SessionType]
    /\ \A s \in Sweeps : sweep[s].pc = "dispatch" => sweep[s].dirty = {}
    /\ crashes \in 0..MaxCrashes
    /\ overtaken \in [Sweeps -> [beats : SUBSET Cameras, alert : BOOLEAN]]

Alerted(s, c)    == SweepRaise(s) /\ c \in sweep[s].cam
GoesOffline(c)   == status[c] = "online" /\ status'[c] = "offline"

\* "Slack / email / webhook dispatch with 5-minute dedup" (README.md:55): no
\* camera_offline alert within the window of the camera's previous one.
AlertsDeduped ==
    [][\A s \in Sweeps, c \in Cameras : Alerted(s, c) => ~RecentDuplicate(c)]_vars

\* The deduplication fails only for a sweep whose alert another sweep raised between
\* its look for a recent alert and its insert.
AlertsDedupedUnlessOvertaken ==
    [][\A s \in Sweeps, c \in Cameras :
          Alerted(s, c) => sinceAlert[c] > DedupWindow \/ overtaken[s].alert]_vars

\* "Mark cameras offline when heartbeats stop" (services/tasks.py:25): a camera
\* marked offline has sent no heartbeat for longer than OFFLINE_AFTER.
OfflineOnlyWhenSilent ==
    [][\A c \in Cameras : GoesOffline(c) => sinceBeat[c] > OfflineAfter]_vars

\* A camera that is heard from is marked offline only by a sweep that loaded its row
\* before the heartbeat was committed.
OfflineUnlessOvertaken ==
    [][\A c \in Cameras : GoesOffline(c) =>
          \/ sinceBeat[c] > OfflineAfter
          \/ \E s \in Sweeps : c \in sweep[s].dirty /\ c \in overtaken[s].beats]_vars

\* An alert is never on record for a camera still shown online: one commit writes
\* both, so a sweep that dies in dispatch leaves no half of it.
AlertMeansOffline ==
    [][\A s \in Sweeps, c \in Cameras : Alerted(s, c) => status'[c] = "offline"]_vars

\* What overlapping sweeps, late heartbeats and crashes leave of the promises: an
\* alert is a duplicate, and a live camera offline, only by a sweep that another
\* transaction overtook, and never is there an alert without the status.
SweepsRightUnlessOvertaken ==
    AlertsDedupedUnlessOvertaken /\ OfflineUnlessOvertaken /\ AlertMeansOffline

\* A camera that stays silent does not stay online, though sweeps may die, be
\* deduplicated or work on stale rows.
SilentGoesOffline ==
    \A c \in Cameras : ~up[c] /\ active[c] /\ status[c] = "online"
        ~> up[c] \/ ~active[c] \/ status[c] = "offline"

\* A camera that keeps sending heartbeats comes back online, though a sweep may
\* overwrite the status one heartbeat restored.
LiveComesOnline ==
    \A c \in Cameras : up[c] /\ status[c] = "offline" ~> ~up[c] \/ status[c] = "online"

\* Whatever sweeps and heartbeats did to one another, the status ends up saying
\* whether the camera is heard from.
StatusConverges == SilentGoesOffline /\ LiveComesOnline
=============================================================================
