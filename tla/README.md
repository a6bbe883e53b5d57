# TLA+ models of the multi-camera retail analytics system

This directory specifies the parts of the system whose correctness depends on order, time,
failure and concurrency, model-checks them with TLC on small instances, and proves the most
important invariants with TLAPS for every value of the constants. Every definition follows
the code under `src/`; `PROJECT.json` gives, for each, the lines it stands for.

## 1. The system

Each camera has a thread in the vision worker: frame -> YOLO -> ByteTrack -> analytics engine.
The thread posts what the engine says to the FastAPI backend over HTTP. The backend writes
PostgreSQL, raises alerts, and fans frames and snapshots out to browsers. Celery runs health
sweeps, reports and retention. Redis holds the latest preview frame of each camera.

| component | state | operations | talks to | what is hard |
|---|---|---|---|---|
| analytics engine (`analytics/engine.py`) | zones of each track, queue clocks, alarm flags, shelf counts, snapshot clock | `process` per frame | owned by one camera thread; its events go to `_ship` | long sequences: lost and found tracks, overlapping zones, ids used again |
| track store (`tracking/track_store.py`) | active tracks, visitor count | `update`, `expire` | owned by the engine | boundary of the TTL; conservation of visitors |
| camera pipeline (`streaming/camera_worker.py`) | best crops, push clocks, video source | `run`, `_ship`, `_ship_reid_embedding`, `_maybe_heartbeat` | HTTP to the backend, Redis, Kafka | lost requests, answers that come late, restarts |
| ingest API (`api/v1/ingest.py`) | tables `tracks`, `detections`, snapshots | `ingest_frame`, `ingest_track`, `ingest_reid` | thread pool, one session per request | select-then-insert, read-modify-write |
| Re-ID gallery (`crud/reid.py`, `services/reid_matcher.py`) | table `identities` | match, link, create, journey | called by `ingest_reid` | check-then-create, stale reads, two commits |
| camera health (`services/tasks.py`, heartbeat endpoint) | `cameras.status`, `last_heartbeat` | heartbeat, `camera_health_sweep` | Celery beat every 30 s, two workers | overlapping sweeps, stale rows, slow dispatch in the loop |
| alert service (`services/alert_service.py`) | table `alerts` | `raise_alert`, `dispatch`, `evaluate_snapshot` | sweep, `ingest_frame`; Slack, webhook, mail | deduplication without a lock |
| fan-out (`services/ws_manager.py`, `api/v1/ws.py`) | subscribers per channel | connect, broadcast, disconnect | `ingest_frame`; browsers | sends outside the lock, sockets that stall or vanish |
| live view (`useWebSocket.ts`, `Dashboard.tsx`, `LiveDetectionCanvas.tsx`) | one effect per selected camera, its socket, timer, backoff; badge, last frame | select, connect, reconnect | the fan-out | closes of old sockets, refused and dropped links |
| live preview (`_maybe_push_preview`, `cameras.py`, `CameraStream.tsx`) | Redis key with a TTL, stream tokens, streaming threads; poll loop, URL, image | push, snapshot, token, stream, poll | browser, Redis | expiry, answers of cancelled polls, state that outlives a change of camera |
| cameras and zones API, `Cameras.tsx`, `ZoneEditor.tsx` | tables `cameras`, `zones`; list, selection, draft | CRUD, draw, save, refresh | browsers; worker only at start-up | two users, answers in any order, a pipeline never sees later zones |
| reports, dashboard queries (`services/tasks.py`, `api/v1/analytics.py`) | table `reports`; aggregates | daily report, retention, overview, dwell | database | counters and ids that restart, windows, rows that come late |
| users and tokens | users, JWT | login, refresh, role checks | all endpoints | token lifetimes |

What makes each of them correct:

- **engine**: what it announces as events, keeps as state and reports in snapshots are one
  story; nothing about a track outlives it; alarms come exactly once and exactly when due;
  waits are the time in the queue.
- **ingest and Re-ID**: one row per track; a track is linked only to an identity it looks like
  and only once it has an embedding; the counts and times of an identity reflect its tracks;
  one person gets one identity unless handlers overlapped; what is posted gets linked.
- **camera pipeline**: the crop embedded for a visitor is the best of that visit; crops are not
  kept for people who are gone; after any outage frames and heartbeats resume, soon.
- **health and alerts**: a silent camera becomes offline and a live one comes back; a live one
  is not marked offline; one alert per window; an alert and a status agree.
- **frame ingest and fan-out**: a posted frame is answered whatever the subscribers do; everyone
  subscribed gets it, in order; gone and broken sockets are forgotten; alerts are deduplicated.
- **live view and preview**: what is shown is of the selected camera and never older than what was
  shown; the badge tells the truth; views recover after every outage; no socket or timer is left behind.
- **cameras and zones**: no zone without a camera; a draft goes to its camera; the page ends up
  showing the tables.
- **reports and overview**: a report gives a camera no fewer visitors than a snapshot in its window
  had seen and no more than were there; nobody is shown in a store in which no camera sees anyone
  any more; detections stay as long as the retention says.

## 2. Modules

| module | models | extends |
|---|---|---|
| `AnalyticsEngine` | `AnalyticsEngine.process` and the `TrackStore` it owns | |
| `MCEngine` | three sets of zones for TLC | `AnalyticsEngine` |
| `AnalyticsEngineProofs` | proofs | `AnalyticsEngine` |
| `ReidIngest` | the worker's shipping of closed tracks composed with `/ingest/track` and `/ingest/reid` | |
| `MCReid` | the closed tracks and similarities of the runs | `ReidIngest` |
| `ReidIngestProofs` | proofs | `ReidIngest` |
| `CameraHealth` | heartbeats composed with overlapping sweeps and the alert deduplication | |
| `CameraWorker` | the frame loop of one camera thread composed with its video source | |
| `CameraWorkerProofs` | proofs | `CameraWorker` |
| `AlertLog` | what `raise_alert` promises: an abstract specification | |
| `FrameIngest` | `/ingest/frame` with its alert rules and dispatch, composed with the WebSocket fan-out and its subscribers | instantiates `AlertLog` |
| `FrameIngestProofs` | proofs, among them the refinement | `FrameIngest` |
| `LiveFeed` | the dashboard's live view: selection, hook, sockets, canvas | |
| `LiveFeedProofs` | proofs | `LiveFeed` |
| `CameraPreview` | preview key, snapshot, token and stream endpoints composed with `CameraStream` | |
| `CameraPreviewProofs` | proofs | `CameraPreview` |
| `ZoneConfig` | cameras page and zone editor composed with the CRUD handlers, another user and the worker's start | |
| `ZoneConfigProofs` | proofs | `ZoneConfig` |
| `StoreReports` | daily report, retention and the dashboard's queries over the rows the worker's posts leave | |
| `MCStore` | interchangeable cameras and ids | `StoreReports` |
| `TasksProofs` | proofs about the two modules of the Celery tasks | `CameraHealth`, `StoreReports` |

### AnalyticsEngine

One camera thread owns one engine and calls `process` once per frame, so a frame is one atomic
step, `Process(seen, products, at)`. `seen` maps each detected person to the set of zones of its
foot point; `products` gives the products counted in each shelf zone; both are arbitrary, since
the detector may miss or invent anything. The variables are the fields of the engine and the
store. The maps keyed by zone *name* are kept so: two zones of one name share an entry, as in the
code (`ZoneNamed`, `PrevCount`). The order inside `process` matters in one place, joining and
leaving queues in one frame, and is kept: `Joined` is the map after the entries, from which
`WaitSamples` pops the exits. `expire` is part of the step.

`ledger` is history: what a reader of the event stream knows (zones entered and not left with
the time, alarms raised since the last `exit`, tracks closed, last shelf count reported). The
properties compare it with the engine's state and snapshots.

Left out: trajectory, speed and heatmaps (nothing modelled reads them), averages of the
snapshot, and the polygon test (`Places` lists which sets of zones a point can be in).

### ReidIngest

`Closings[c]` lists the tracks camera `c` closes in order, each with its tracker id, its look
(which stands for the embedding) and its last instant. `worker[c]` is where the thread is in
`_ship` / `_ship_reid_embedding`. The handlers are plain `def` functions, which FastAPI runs in
its thread pool, each with a session at READ COMMITTED; they take one action per statement that
reads or commits: `TrackSelect`, `TrackCommit`, `ReidStore`, `ReidMatch`, and `ReidLink` or
`ReidCreate` then `ReidAttach`. `expire_on_commit=False` means a session works with the columns
it read, and SQLAlchemy writes only the columns whose value changed: `Linked` computes from
`h.read`. A lost request and a timeout are one action (`TrackPostFails`, `ReidPostFails`):
when the request was delivered its handler keeps running. `BackendCrash` ends every handler.
Similarity is any function with `Score(a, a) >= Threshold`; the winner among equal best scores is
arbitrary since the query has no order.

### CameraHealth

Timestamps are kept as ages that stop just past the limit they are compared with, so no bound on
time is needed. `BeatLoad` / `BeatCommit` are the two halves of the heartbeat handler. A sweep
loads its rows (`SweepLoad`, where staleness is decided: the rows do not change under it), then
for each camera to flag sets the status in its session and looks for a recent alert
(`SweepCheck`), inserts the alert and commits *everything the session has changed*
(`SweepRaise`), waits for the channels (`SweepDispatched`), and finally commits (`SweepCommit`).
Only changed columns are written. `SweepCrash` drops what was not committed. `overtaken` is
history: which heartbeats and alerts others committed under a sweep's feet.

### CameraWorker

`pc` is where `run` is: reading, asleep in `_sleep_backoff`, or shipping. The camera (`stream`)
comes, drops or stalls at any moment; `cap` is what the `VideoSource` holds, and a dropped
connection is found out only by the next read. `ReadFrame(seen)` is one frame up to and including
`engine.process`: `_update_best_crops` comes before the tracks expire, and `seen` gives the area
of each person's crop, 0 where it may not be used. `ShipFrame`, `ShipTrack` and `ShipEmbedding`
are `_ship` in its order, one network call each, with time passing between them; their answers are
`ReidIngest`'s subject. `Rest` ends an iteration with the heartbeat. `visit` is history: the
largest usable crop of each active track so far. `nap` is history: the last backoff slept since a
frame was read. Of the engine only the lifetime of tracks is kept.

Left out: the heatmap files, face blur, and an exception that ends the thread, after which nothing
more happens here. The preview push is in `CameraPreview`, the zones taken at start-up in
`ZoneConfig`.

### FrameIngest and AlertLog

One server process runs one event loop (`uvicorn` without `--workers`), and `ingest_frame` is a
coroutine of it. `loop` is the handler that holds the loop, or `Idle`. From `Store` to
`FirstBroadcast` nothing is awaited, so the duplicate check, the insert and the calls to Slack, the
webhook and the mail server hold the loop; the broadcasts (`Send`, one per subscriber of a *copy*
of the channel, then `NextBroadcast`, which discards the dead and copies the next channel) give it
up at each send. The worker posts one frame at a time but gives up after ten seconds (`GiveUp`),
while its handler goes on: two handlers of one camera may interleave at every send. Time passes
between any two steps (`Tick`), also while the loop is held. A socket has two ends, `link` (the
client: open, not reading, gone) and `serve` (`_serve`: accepting, serving, done, failed).
`_serve` catches only `WebSocketDisconnect`: any other exception of `receive_text`, as for a frame
that is not text, ends it without `ws_manager.disconnect` (`ServeFails`), and the socket stays in its
channel until a broadcast there fails to reach it. Stalling, leaving and the keepalive ping of the
server library are external. `reached` and `late` are
history: whom the current broadcast of a request has reached, and who subscribed since it was begun.

`AlertLog` is what `raise_alert` promises, with the check and the insert in one step. `FrameIngest`
implements it (`AlertsDeduplicated == Log!Spec`, `age <- sinceAlert`) because the loop is not given
up in between; the Celery sweep, with one session per process, does not (see below).

### LiveFeed

Every run of the hook's effect has its own closure (alive flag, socket, timer, backoff), and all of
them share `connected` and `last`; so `ws`, `timer`, `backoff` are indexed by effect and the two
state variables are not. `Select` and `Unmount` contain the clean-up. The browser's rules used: a
socket delivers no message after `close()`, its close event comes later, a state update of an
unmounted component does nothing. `Publish` is the broadcast of a frame, in order as
`FrameIngest` has it for frames that were not given up. `overtaken` is history: the close of an
older socket came after the present one had opened. It names the one case in which the badge is
wrong: it shows RECONNECTING over an open socket until the next close and open.

### CameraPreview

`delivering` and `cached` are the worker's and Redis's side, `orphans` the cameras for which a
server thread serves a client that left: `_mjpeg_parts` notices that only at a yield. The component
is *not* remounted when another camera is selected, so `online`, `url` and `wasOnline` survive, and
a token request under way in a cancelled poll (`stale`) or in `handleStreamError` (`reopen`) still
sets the URL of the camera it was made for. `Render` is what React does: an image of another URL is
another element and another connection. A stream that is open may break off at any moment (`Cut`):
the browser reports an error, which `handleStreamError` answers with a new token, or it keeps the last
picture without a word (`img = "frozen"`), and since `wasOnline` stays set nothing opens the stream
again until the camera has been offline. A token is `now` (of this second: minting again gives the
same string), `valid` or `expired`. `clear` is history and names the cases in which the preview does
not show its camera: since the preview was opened, or last found its camera offline, a token request
failed, returned the token the page already had, or was answered for an earlier camera.

### ZoneConfig

A request is `sent`, `open` (its session has read what it needs) and `done`; `Commit` is the
handler's commit, at which the rows it read may be gone. The page has several requests in flight
(`Slots`) and handles the answers in any order, with the values of the render that made the
request, which a call carries (`sel`, `from`). The editor drops a draft in an effect on `cameraId`.
React runs it before the next event when the change came from a click (`ShowOnClick`), but some
time after the render when it came from an answer (`ShowOnAnswer`): then the effect is `due`, and Save may be
clicked first, with the old draft and the new camera (`early`). Another user
(`Other`) works on the same tables. `StartWorker` takes the zones of the active cameras, once.
`astray` is history and names what may leave the page different from the tables: another user's
change, a failed request, two loads handled in the other order, a camera shown again while it was
being deleted.

### StoreReports

The other modules follow one post through its handler; this one asks what the rows add up to. A post
here is a commit that comes late or never: `sent` holds the snapshots under way and a track has a
fate (`open` in a store, `posted`, `stored`, or `lost` with its process). Handlers of one camera
overlap when the worker has given one up, so commits come in any order (`CommitFrame`,
`CommitTrack`). `Restart` is a new worker process: the counters `total` start again from 0 and the
tracker from its first ids, so a row of `tracks` may be taken over by another person, whose
`first_seen` the upsert writes. `generate_daily_report` and `purge_old_detections` run at any instants:
beat sends them at intervals, but they wait for a worker or are lost with one. `reports` keeps the rows
last added. `visits`, `run` and the `run` of a snapshot are history: the people
there really were, with the process that counted them; the queries read none of it.

Two things the queries do are kept as they are. `Overview` counts distinct tracker ids over *all*
cameras, so two people with one id on two cameras are one visitor: the tile may be too low and never
too high (`VisitorsTodayReal`). And a snapshot that is committed only after a report whose window it
was in, or that falls between two reports more than a day apart, is in no report; nothing promises
otherwise and no property speaks of it. A track seen in a single frame has its two times equal.

The occupancy, a sum, is written as the number of people counted, one element each. The names that
`CameraHealth` has too carry `Store` (`StoreNext`), and the cameras are `CameraIds`, so that one module can extend both.

Left out: averages, the maximum of queues (aggregated like the ones kept), the traffic and peak-hours
charts (the rows as they are), the counts of active cameras and open alerts.

## 3. Runs

| run | bounds | what it shows |
|---|---|---|
| `engine_visit` | 1 track; entrance, queue, overlapping restricted zone; TTL 1, loitering 2, 11 instants, frames 1 or 2 apart | per-track state, alarms and waits over visit, loss, expiry and reuse of the id |
| `engine_aisle` | 2 tracks; shelf and queue; snapshots every 2, shelf empty after 1; 6 instants | visitor count, snapshots and shelf events |
| `reid_concurrent` | 2 cameras, 3 + 2 tracks, 3 looks of which 2 alike, TTL 3, 1 fault | every interleaving of the handlers and one lost request, late answer or crash |
| `reid_restart` (violation) | 1 camera whose ids start again | another person's visit appears in a journey |
| `health` | 1 camera, 2 sweeps, 1 crash, offline after 1, window 2 | safety and both liveness properties |
| `worker` | 3 ids, areas up to 2, TTL 1, heartbeat every 2, backoff up to 4 | the crop cache over visits and reused ids, heartbeats after outages |
| `frames_fanout` | 1 frame with 2 rules and a snapshot (4 broadcasts), 2 sockets of any channel, 1 error | who a broadcast reaches, answers, forgotten and broken sockets (437,722 states) |
| `frames_overlap` | 2 frames of 1 camera, 1 socket, window 1, 1 error | order at the client, deduplication (1,563,366 states) |
| `live` | 2 cameras, 3 effects, 2 frames each, 1 outage | sockets, canvas, badge, reconnection (805,050 states) |
| `preview` | 2 cameras, no other bound | what is shown, recovery (459,576 states) |
| `zones` | 2 cameras, 2 zones, 2 calls of the two users, 2 requests of the page in flight | tables, page, draft (1,711,868 states) |
| `store` | 2 cameras, 2 ids, 2 visits, 2 snapshots, 2 worker processes; day, freshness and retention 2, 4 instants | reports, retention and overview against the visits there were (5,748,240 states) |

Some properties are conjunctions of named parts, defined beside them: `AlarmsExact` (loitering and
restricted-zone alarms raised exactly when due, and once), `ReportsAgree` (snapshots, shelf events
and shelf_empty against the event stream), `LinksAreSound`, `TablesExactUnlessContended` (rows,
journeys, `track_count`, `last_seen`), `SweepsRightUnlessOvertaken` (deduplication, offline marks,
alert and status), `CanvasFollowsSelection`, `StatusConverges` (`SilentGoesOffline`,
`LiveComesOnline`), `FramesAndSocketsEnd` (`FramesAnswered`, `GoneSocketsForgotten`),
`PreviewFollowsCamera` (`OutageShown`, `PreviewComesBack`), `OverviewTrue` (`VisitorsTodayReal`,
`NoGhosts`, `DwellIsReal`) and `TasksTrue` (`VisitorsAreReal`, `DetectionsKept`).

Why the bounds are enough. *Engine*: the per-track state of two tracks interacts only through
counts, so one track suffices for the per-track properties, and 11 instants hold a visit with
loitering (3), a loss past the TTL (2) and a second visit with loitering; a second track is
there where counts matter. TTL, loitering and snapshot interval are hit exactly, just under and
just over by steps of 1 and 2. *Re-ID*: two cameras are two concurrent workers, and a timeout
gives a third handler beside them; the five closings were chosen so that a match, a look-alike,
a stranger, an identity near its TTL and one kept alive by a refresh all occur; the one fault is
enough for a track whose handler outlives its client, so that the embedding meets 404 and is retried. *Health*: a limit
of 1 and a window of 2 put "just at", "within" and "past" apart; two sweeps are what
`celery -c 2` can run; what two cameras in one sweep do to each other is in `MCHealthSilent.cfg` and in
the theorems, which hold for any number. *Worker*: three ids let one track ship, one wait and one
stay active while an id is seen again; areas 0, 1 and 2 give a crop that is not usable, one to
replace and one that replaces it; a maximum of 4 takes the backoff through 1, 2, 4 and 4.
*Frames*: two sockets give one that stalls or dies in a round and one behind it in the copy, on one
channel or two, and a socket is a connection, so a client that comes back is the second one; two
frames are the smallest number of handlers that overlap, and a window of 1 lets the second fall
inside, at and past it. In `frames_fanout` the one frame meets no earlier alert, so that all four
broadcasts occur. *Live*: three effects are an old one closing late, the mounted one and a later
return to the first camera; two frames make an order. *Preview*: two cameras suffice for "another
camera"; nothing is counted. *Zones*: two calls of two users are what collides in a commit, two
slots let answers overtake each other, and the loads the page makes itself are not counted.
*Store*: a window of 2 within instants 0 to 3 has snapshots inside, at and before its edge; two visits and two
processes give a counter that starts again and an id that comes back, on one camera or two; two
snapshots may be committed in the other order, on both sides of a report.
`CHECK_DEADLOCK FALSE` is given for the engine and the store (time ends at `MaxTime`), for the shipping and frame
runs (everything shipped, answered and gone), and for live and zones (effects and calls used up,
nothing under way); the health, worker and preview runs never stop and check for deadlock.

The constant bounds of the models are `MaxTime`, `MaxProducts` (engine), `MaxFaults` (Re-ID),
`MaxCrashes` (health), `MaxArea` (worker), `MaxFrames`, `MaxErrors` (frames), `MaxEffects`,
`MaxFrames`, `MaxOutages` (live), `MaxCameras`, `MaxZones`, `MaxCalls` (zones) and `MaxTime`,
`MaxVisits`, `MaxSnapshots`, `MaxRuns` (store).

### Fairness

`ReidIngest!FairSpec`: a worker thread with something to do and a running handler are scheduled
(weak fairness of each; threads of one process and of one pool). Nothing is assumed of faults.
`CameraHealth!FairSpec`: time passes; a camera that is up keeps sending heartbeats (every 15 s
from the frame loop); each sweep slot keeps running, since beat schedules a sweep every 30 s and
dispatch has timeouts on Slack and the webhook (mail is assumed to answer or fail). Flips of
cameras, the `is_active` switch and crashes need not happen.
`CameraWorker!FairSpec`: time passes, and the thread takes its next step, since every call it makes
has a timeout (10 s for HTTP), is answered by Redis (whose client has none) or belongs to the
capture, and of both it is assumed that they return. Its liveness
property, `HeartbeatsResume`, is what `CameraHealth` assumes of a camera that is up.

`FrameIngest!Spec`: the event loop runs every ready task, a send that waited goes on when its
client reads again, hence strong fairness of a request's handler; registration, disconnection and
the keepalive ping happen (weak fairness). Nothing is assumed of workers, clients or the mail
server: the three liveness properties say "while the mail server answers". `BrokenSocketsDropped` speaks
of a frame posted after the exception; a channel with no more broadcasts keeps the socket.
`LiveFeed!Spec`: the browser fires due timers and reports the events of its sockets.
`CameraPreview!Spec`: requests are answered or fail, the poll timer fires, Redis expires keys, the
generator goes round its loop; that streams do not break off for ever is not assumed, the preview comes
back after each. `ZoneConfig!Spec`: requests are answered and the answers handled; its properties
are safety, and only the refuted `ZonesReachRunningEngine` needs it. The environment (outages,
tokens that expire, cameras that stop, users) is never fair; each liveness property says for which
environment it holds. `StoreReports` claims nothing that must eventually happen and has no fairness.

### Where the code and its docs disagree

The violation run `reid_restart` checks what a doc says of a journey and TLC refutes. The
configurations of thirteen more are kept beside it, each checks one property, and `tlc -config <cfg> <module>` prints the behaviour:

| says | configuration, property | holds instead |
|---|---|---|
| a journey is where *this appearance* was seen (`docs/REID.md:295`) | run `reid_restart` | `JourneyShowsOwnTracks` while no worker restarts |
| draw a zone "no code, no restart" (`README.md:35`) | `MCZonesFrozen.cfg` (ZoneConfig), `ZonesReachRunningEngine` | a pipeline takes its zones when it starts, and never again |
| a draft "can never be saved to the wrong camera_id" (`ZoneEditor.tsx:66-68`) | `MCZonesDraft.cfg` (ZoneConfig), `DraftSavedToItsCamera` | `StrayDraftsAreEarlyAndNew`: only by a Save before the effect, and only as a new zone |
| leaving a queue records a wait (`tests/unit/test_analytics_engine.py:42`) | `MCEngineTills.cfg` (MCEngine), `QueueLeaveRecordsWait` | `WaitSampleIsTimeInQueue`, for cameras with one queue zone |
| `track_count` is how many tracks have linked (`docs/REID.md:242`) | `MCReidCount.cfg` (MCReid), `TrackCountIsLinks` | `TrackCountExactUnlessContended` |
| the worker retries ingest (`docs/DEPLOYMENT.md:26`) | `MCReidOffline.cfg` (MCReid), `NothingDropped` | only the Re-ID post, once, on 404: `EmbeddingGetsLinked` |
| dispatch with 5-minute dedup (`README.md:55`) | `MCHealthDedup.cfg` (CameraHealth), `AlertsDeduped` | `AlertsDedupedUnlessOvertaken` for sweeps; for frames `AlertsDeduplicated` |
| cameras go offline when heartbeats stop (`services/tasks.py:25`) | `MCHealthSilent.cfg` (CameraHealth), `OfflineOnlyWhenSilent` | `OfflineUnlessOvertaken`, `SilentGoesOffline`, `LiveComesOnline` |
| RTSP reconnects with exponential backoff (`vision/video_source.py:3`) | `MCWorkerBackoff.cfg` (CameraWorker), `BackoffDoubles` | only while the stream cannot be opened; `RetriesSoonAfterFrames` (proved), `HeartbeatsResume` |
| "channel failure must never break ingestion" (`alert_service.py:165`) | `MCFramesMail.cfg` (FrameIngest), `ChannelFailureNeverBreaksIngestion` | `FramesAnswered`, while the mail server answers |
| the preview of a camera shows that camera (`CameraStream.tsx:11`) | `MCPreviewSelected.cfg` (CameraPreview), `ShowsSelected` | `SettledShowsSelected` |
| a stream token is "never reused across connects" (`CameraStream.tsx:16-17`) | `MCPreviewToken.cfg` (CameraPreview), `FreshTokenPerConnect` | two tokens of one second are one string: the stream that failed is not opened again |
| an offline camera "never holds a dangling connection open on the backend" (`CameraStream.tsx:13-14`) | `MCPreviewThreads.cfg` (CameraPreview), `NothingDangles` | a server thread whose client left stays until the camera delivers again (`Release`) |
| a daily report aggregates *yesterday's* snapshots (`services/tasks.py:48`) | `MCStoreDay.cfg` (StoreReports), `ReportCountsItsDay` | `TasksTrue`: the snapshots are, but the counter they carry is since the worker's start, so visitors of earlier days count again |

Two of these are worth a word. A draft goes astray when the page reloads after a save or a deletion
in one camera while the panel has been switched to another: `refreshSelected` switches it back after
an await, and the effect that drops the draft runs after the render. And in the preview the excepted
cases of `SettledShowsSelected` and `PreviewComesBack` (`clear`, `frozen`) all come from line 60:
`wasOnline` is set whether or not the stream is the right one, opened or still runs. `ServeFails` has no
row: no doc speaks of it, and what holds is `BrokenSocketsDropped`.

## 4. Proofs

All proofs hold for any number of tracks, cameras, sweeps and handlers and any limits, under the
assumptions named in the modules: `EngineAssumption` (types of the constants, finitely many
tracks, none of which is `None`), `ReidAssumption` (types; that similarity is symmetric, as the
cosine is; and that a look matches itself: the cosine of a vector with itself is 1 and the threshold
is below; a zero vector, which the extractor does not produce, is excluded), `HealthAssumption`,
`WorkerAssumption`, `LiveAssumption`, `PreviewAssumption`, `ConfigAssumption` and `NoneAssumption`
(types and distinct model values), `ReportsAssumption` (a day has instants, there is a first worker
process, no snapshot counts as fresh for longer than a day) and `IngestAssumption` (the same, and finitely many sockets).

Four theorems have a hypothesis of their own, because the code does not make the property hold
without it. `NamesTellTypes` (`AlarmsAreExact`): zones of one name are of one type; the engine keeps
its maps by name and the database does not ask for distinct ones. `OneQueue` (with the former,
`WaitsAreTimesInQueue`): a camera's queue zones carry one name; with two queues
`MCEngineTills.cfg` refutes the property. `DistinctNames` (`ReportsBorneOut`): two shelves of one name
overwrite each other's count. `DistinctKeys` (`TablesExact`): no camera uses a tracker id twice, as
while no worker restarts; with a restart `reid_restart` refutes it. The zones and closings of the passing runs
satisfy them.

- **AnalyticsEngineProofs.** `StateInv` is `TypeOK`, `PerTrackStateInSync` and `TimesOrdered` (no
  track is seen before it opens or after now, which the TTL and the dwell need). `ReaderInv` adds
  the history: what the reader knows is what the engine holds (`LedgerMatchesEngine`), the raised
  alarms are the flags (`FlagsInv`), the loitering flag is set exactly past the limit, and the
  conservation of visitors. The flags must be part of the invariant: that an alarm is not
  repeated (`AlarmsOnce`) follows only from the flag being set whenever the reader has heard it.
  `RestrictedInv` adds that the zones a track is in are among those it visited, from which an alarm
  is exact in both directions (`AlarmsAreExact`). `WaitInv` ties the queue clock of a track to the
  instant the reader heard of its entering, so what is popped is the time in the queue.
  `ReportInv` carries the shelf maps and the last snapshot: the people a snapshot counts in a zone are
  mapped one to one to tracks the reader knows to be in it (`ReportsBorneOut`).
- **ReidIngestProofs.** The invariant says what each handler holds between its statements: a row
  that exists and has its embedding from `match` on, an identity that exists and matched in
  `link`, its own identity in `attach`; and that an identity's embedding is that of its seed.
  Since rows and identities only grow and embeddings are never cleared (`TablesGrow`), what one
  handler holds survives the steps of all others, losses and crashes. `OnceInv`: a track's embedding
  is posted, stored, matched and linked once; without it an identity could count one track twice.
  `CountInv`: a handler about to link has read the identity's present count and time
  and is the only one linking to it, or the identity is in `contended` (`CountsAreExact`,
  `ClocksAdvance`). `RowsInv`: with distinct keys each stored track has its own row (`TablesExact`).
  `DuplicatesInv` also speaks of identities about to be created: of two look-alikes first seen within
  the TTL one was decided on while the other could not be seen (`blind`). It needs that an identity
  stays in the gallery at least as long as its first track would keep it (`SeenFrom`), and that among
  finitely many candidates there is a best one (`HighestExists`); with it `DuplicatesFromOverlap`.
- **TasksProofs**, `CameraHealth`. `RaiseInv`: a sweep about to insert holds one camera, no recent alert
  for it unless it was overtaken, and its status among the changes to flush. `HoldInv`: a camera
  a sweep still holds was stale when loaded, so it is stale now or its heartbeat is in
  `overtaken`.
- **TasksProofs**, `StoreReports`. `VisitsInv`: a visit is known by its camera, id, process and
  beginning, so the end of a visit, its commit and a restart only rename the visits (`Revises`), and
  whichever of them are counted stay as many (`Revised`, by `CountKept`: a bijection between two sets
  is one between what it carries). `CountersInv`: a counter is the number of its process's visits. `SeenInv`: what a
  snapshot carries is still between those who surely and perhaps were there, since who comes later
  begins later. With the highest of bounded naturals (`HighestExists`, by a least counterexample) a report's number
  is one of its snapshots' (`VisitorsOf`, `TasksAreTrue`). `TracksInv`: a row is of a stored visit, so
  ids and rows can be matched with visits. For `NoGhosts` the people of every fresh snapshot are
  numbered (`Numbered`) and matched with visits present then, of that camera, so no visit is used
  twice (`OverviewIsTrue`).
- **CameraWorkerProofs.** `ShipInv`: the tracks closed by a frame ship one at a time, each id
  once, before the next frame is read, so no id is both active and about to be shipped; without
  it a pop could take the crop of the id's next holder. `SourceInv`: a capture that is held, and a
  source that has read a frame since it last slept, have the shortest backoff.

- **FrameIngestProofs.** `LoopInv`: a handler that evaluates rules holds the loop. `InsertInv`: the
  alert about to be inserted is still no duplicate; it survives other handlers by `LoopInv` and
  time because ages only grow. With the two every step maps to a step of `AlertLog` or a stutter
  (`ImplementsAlertLog`). `RoundInv`: whoever a running broadcast owes its message has been reached
  or is still in the copy; it needs `SubInv` (channels hold every socket that is served and there),
  which holds because only sockets whose client is gone are discarded. `QueueInv`: a frame was begun
  only after the ones of its camera before it were answered or given up, and what a client shows was
  begun; so a broadcast that shows an older frame is of a request its worker abandoned.
- **LiveFeedProofs.** `OneLiveSocket` needs that effects not yet run have nothing (`EffectInv`).
  `NetInv` ties what is under way to open sockets and their camera, from which
  `CanvasShowsSelected`; `OrderInv` says what is under way is newer than what is shown and in
  order, from which `FramesNeverGoBack`, also over a return to a camera. `BadgeTellsTruth` rests
  on the first two: only the mounted effect's socket can open, and a new effect has none.
- **CameraPreviewProofs.** `UrlInv`: a loop that does not ask for a token has the right URL.
  `WaitInv`: one that waits without `wasOnline` has found its camera offline. Neither holds without
  the other: `wasOnline` decides whether a token is asked for.
- **ZoneConfigProofs.** `DraftInv`: a draft belongs to the camera open in the editor unless the effect
  that drops it is due, so what `Save` sends carries that camera or is `early` (`EarlyInv`).
  `KnownInv`: what the page knows of a zone's camera is true while the zone exists, so a stray redraw
  finds no zone (`DraftsGoHome`). For the tables: every commit asks again whether the camera is there. `PageComesRound` is the
  longest argument. `PageInv`: while nothing of what `astray` records has happened and no answer that
  waits has been overtaken, every row out of date in the list, in the panel or in an answer that
  waits is owed to the page by a request that will show it as it is (`Renews`), by an earlier answer's row
  only through one read later (`RowsInv`); the list is the tables' or will be loaded (`ListInv`); the
  panel of a camera being deleted is closed by its own answer (`PanelInv`); answers that wait are
  ordered by their reads (`OrderInv`). `TrafficInv` is what this rests on: a zone request is about the
  camera whose panel sent it, ids are not used again, answers hold one row per camera. With no request
  left nothing is owed, so the page shows the tables. `Excused` lets the proof look at ordered pages
  only: once an answer is overtaken, handling it sets `astray`.

Only model-checked: liveness (`EmbeddingGetsLinked`, `SilentGoesOffline`, `LiveComesOnline`,
`HeartbeatsResume`, `FramesAnswered`, `GoneSocketsForgotten`, `BrokenSocketsDropped`, `ReopensWhenServed`,
`OutageShown`, `PreviewComesBack`), which is out of the prover's reach. Every safety property of a passing run is a theorem, four of them under the hypotheses above.

## 5. Not modelled, and the plan

Image processing and inference (detector, extractor, heatmaps, face blur), ByteTrack (a library;
any set of ids may come), Kafka (nothing consumes it), build files, migrations and scripts are
outside. Users and tokens are stateless checks and single-statement CRUD; what a token gates is in
`FrameIngest`, `LiveFeed` and `CameraPreview`. The death of a worker thread is visible by reading.
Planned, in this order:

1. The alerts page: what it shows against the table, with acknowledgements.
2. `Polygon`: ray casting against a reference definition of inside.
3. Two more abstract specifications: an atomic identity gallery (match-or-create in one step), which
   `ReidIngest` implements when handlers do not overlap, and a visitor session (enter, dwell, leave,
   closed), which the engine implements per track.
