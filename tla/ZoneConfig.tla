----------------------------- MODULE ZoneConfig -----------------------------
(***************************************************************************)
(* Cameras and zones, from the page to the vision worker: the cameras page *)
(* (frontend/src/pages/Cameras.tsx) with its zone editor (components/      *)
(* ZoneEditor.tsx), the handlers behind it (backend/app/api/v1/cameras.py, *)
(* crud/cameras.py) and the list the worker fetches when it starts         *)
(* (main and fetch_cameras of streaming/camera_worker.py).                 *)
(*                                                                         *)
(* A request goes through "sent", "open" (its session has read the rows it *)
(* needs) and "done" (answered); the page goes on meanwhile and handles    *)
(* the answers in any order.  What a handler of the page does after an     *)
(* await uses the values of the render it was created in: a call carries   *)
(* them.  An effect runs with the render that a click leads to, but after  *)
(* the picture is painted when an answer leads to it: clicks may come in   *)
(* between.  Another user works on the same tables.                        *)
(***************************************************************************)
EXTENDS Naturals

CONSTANTS
    MaxCameras, MaxZones,  \* rows ever created (bound)
    MaxCalls,              \* requests the two users make, the page's loads apart (bound)
    Slots,                 \* the page's requests in flight (bound)
    Other,                 \* the other user's request
    None

ASSUME ConfigAssumption ==
    /\ MaxCameras \in Nat /\ MaxZones \in Nat /\ MaxCalls \in Nat
    /\ Other \notin Slots

VARIABLES
    cams, active,      \* the rows of cameras, and those with is_active
    zones,             \* the rows of zones
    lastCam, lastZone, \* the sequences of their ids
    list, selected,    \* state of the page
    draft,             \* the zone being drawn or edited
    due,               \* the editor shows another camera, and its effect has not run yet
    calls, made,       \* the requests in flight, and how many were made
    astray,            \* history: another user changed a table, a request failed, an
                       \* answer was handled after one read later, or a camera was
                       \* shown again during its deletion
    worker, engine     \* the worker process and the zones its engines use

tables == <<cams, active, zones, lastCam, lastZone>>
page == <<list, selected, draft, due>>
fleet == <<worker, engine>>
traffic == <<calls, made>>
vars == <<tables, page, traffic, astray, fleet>>

CameraIds == 1..MaxCameras
ZoneIds == 1..MaxZones
Shapes == {"drawn", "redrawn"}
Zone == [id : ZoneIds, cam : CameraIds, shape : Shapes]

ZonesOf(c) == {z \in zones : z.cam = c}
Rows(ids) == {[cam |-> c, zones |-> ZonesOf(c)] : c \in ids}

Call(op, c, z, sel) ==
    [op |-> op, cam |-> c, zone |-> z, shape |-> "drawn", sel |-> sel, from |-> c,
     stage |-> "sent", ok |-> TRUE, rows |-> {}, newer |-> 0, overtaken |-> FALSE,
     early |-> FALSE]
Load(sel) == Call("load", 0, 0, sel)

Init ==
    /\ lastCam \in 1..MaxCameras /\ cams = 1..lastCam /\ active = cams
    /\ lastZone \in 0..MaxZones
    /\ zones = {[id |-> i, cam |-> 1, shape |-> "drawn"] : i \in 1..lastZone}
    /\ list = {} /\ selected = None /\ draft = None /\ due = FALSE
    /\ \E k \in Slots : calls = [j \in Slots \cup {Other} |-> IF j = k THEN Load(0) ELSE None]
    /\ made = 0 /\ astray = FALSE
    /\ worker = "down" /\ engine = {}

-----------------------------------------------------------------------------
(* The handlers of the backend                                             *)

Answer(k, ok) == calls' = [calls EXCEPT ![k].stage = "done", ![k].ok = ok]

\* _get_or_404 and _get_zone_or_404
Found(c) ==
    \/ c.op \in {"load", "create"}
    \/ c.op \in {"remove", "activate", "add"} /\ c.cam \in cams
    \/ c.op \in {"patch", "drop"} /\ \E z \in zones : z.id = c.zone /\ z.cam = c.cam

\* Another load is read after those that wait to be handled.
OneNewer(c) ==
    IF c # None /\ c.op = "load" /\ c.stage = "done" /\ ~c.overtaken
    THEN [c EXCEPT !.newer = @ + 1] ELSE c

\* The session reads; list_cameras is answered with what it reads.
Open(k) ==
    LET c == calls[k] IN
    /\ c # None /\ c.stage = "sent"
    /\ IF c.op = "load"
       THEN calls' = [j \in DOMAIN calls |->
               IF j = k THEN [c EXCEPT !.stage = "done", !.rows = Rows(cams)]
               ELSE OneNewer(calls[j])]
       ELSE calls' = [calls EXCEPT ![k].stage = IF Found(c) THEN "open" ELSE "done",
                                   ![k].ok = Found(c),
                                   ![k].rows = IF Found(c) /\ c.op = "remove"
                                               THEN Rows({c.cam}) ELSE {}]
    /\ UNCHANGED <<tables, page, made, astray, fleet>>

CreateCamera(k) ==
    /\ lastCam < MaxCameras
    /\ lastCam' = lastCam + 1
    /\ cams' = cams \cup {lastCam'} /\ active' = active \cup {lastCam'}
    /\ Answer(k, TRUE)
    /\ UNCHANGED <<zones, lastZone>>

\* Mutant: only the zones the session had loaded are deleted with the camera.
DeleteLoaded(k) ==
    LET c == calls[k] IN
    /\ cams' = cams \ {c.cam} /\ active' = active \ {c.cam}
    /\ zones' = zones \ UNION {r.zones : r \in c.rows}
    /\ Answer(k, TRUE) /\ UNCHANGED <<lastCam, lastZone>>

\* The relationship's cascade and the foreign key's ON DELETE CASCADE.
DeleteCamera(k) ==
    LET c == calls[k] IN
    /\ cams' = cams \ {c.cam} /\ active' = active \ {c.cam}
    /\ zones' = zones \ ZonesOf(c.cam)
    /\ Answer(k, TRUE) /\ UNCHANGED <<lastCam, lastZone>>

\* Mutant: a camera deleted since it was read is written all the same.
ActivateGone(k) ==
    LET c == calls[k].cam IN
    /\ active' = IF c \in active THEN active \ {c} ELSE active \cup {c}
    /\ Answer(k, TRUE) /\ UNCHANGED <<cams, zones, lastCam, lastZone>>

\* update_camera with is_active; the row may be gone by now.
ActivateCamera(k) ==
    LET c == calls[k].cam IN
    /\ active' = IF c \notin cams THEN active
                 ELSE IF c \in active THEN active \ {c} ELSE active \cup {c}
    /\ Answer(k, c \in cams) /\ UNCHANGED <<cams, zones, lastCam, lastZone>>

\* The foreign key refuses a zone of a camera that is gone by now.
AddZone(k) ==
    LET c == calls[k].cam IN
    /\ lastZone < MaxZones /\ lastZone' = lastZone + 1
    /\ zones' = IF c \in cams
                THEN zones \cup {[id |-> lastZone', cam |-> c, shape |-> "drawn"]} ELSE zones
    /\ Answer(k, c \in cams) /\ UNCHANGED <<cams, active, lastCam>>

UpdateZone(k) ==
    LET c == calls[k] IN
    /\ zones' = {IF z.id = c.zone THEN [z EXCEPT !.shape = c.shape] ELSE z : z \in zones}
    /\ Answer(k, \E z \in zones : z.id = c.zone)
    /\ UNCHANGED <<cams, active, lastCam, lastZone>>

DeleteZone(k) ==
    /\ zones' = {z \in zones : z.id # calls[k].zone}
    /\ Answer(k, TRUE) /\ UNCHANGED <<cams, active, lastCam, lastZone>>

Commit(k) ==
    /\ calls[k] # None /\ calls[k].stage = "open"
    /\ LET op == calls[k].op IN
       \/ op = "create" /\ CreateCamera(k)
       \/ op = "remove" /\ DeleteCamera(k)
       \/ op = "activate" /\ ActivateCamera(k)
       \/ op = "add" /\ AddZone(k)
       \/ op = "patch" /\ UpdateZone(k)
       \/ op = "drop" /\ DeleteZone(k)
    /\ astray' = (astray \/ k = Other)
    /\ UNCHANGED <<page, made, fleet>>

\* The request fails, or its answer is lost.
Fail(k) ==
    /\ calls[k] # None /\ calls[k].stage # "done" /\ k # Other
    /\ Answer(k, FALSE) /\ astray' = TRUE
    /\ UNCHANGED <<tables, page, made, fleet>>

-----------------------------------------------------------------------------
(* The page handles an answer                                              *)

\* The draft, once an effect that is due has run: React runs it before it renders again.
Settled == IF due THEN None ELSE draft

SameCamera(s) == s # None /\ selected # None /\ s.cam = selected.cam

\* Mutant: the draft survives a change of camera.
ClickKeepsDraft(s) == selected' = s /\ due' = FALSE /\ UNCHANGED draft

\* setSelected in a click: the effect on cameraId drops the draft before the next
\* event, and so does leaving the editor.
ShowOnClick(s) ==
    /\ selected' = s /\ due' = FALSE
    /\ draft' = IF SameCamera(s) THEN Settled ELSE None

\* setSelected after an await: the effect is due after the render.  An editor that is
\* closed, or opened just now, has no draft.
ShowOnAnswer(s) ==
    /\ selected' = s
    /\ draft' = IF s = None \/ selected = None THEN None ELSE Settled
    /\ due' = (s # None /\ ~SameCamera(s))

\* The effect on cameraId
Effect == due /\ due' = FALSE /\ draft' = None
          /\ UNCHANGED <<tables, list, selected, traffic, astray, fleet>>

\* Mutant: the list is not loaded again after a zone was saved.
NothingAfter(k, sel) == calls' = [calls EXCEPT ![k] = None]

\* load, or refreshSelected with the camera of the render that called it.
Reload(k, sel) == calls' = [calls EXCEPT ![k] = Load(sel)]

Done(k, ops) == calls[k] # None /\ calls[k].stage = "done" /\ calls[k].op \in ops

\* The camera is gone, or the page has asked for its deletion.
Doomed(c) ==
    \/ c \notin cams
    \/ \E k \in Slots : calls[k] # None /\ calls[k].op = "remove" /\ calls[k].cam = c

\* setCameras, and setSelected in refreshSelected, also after a failure.
Loaded(k) ==
    LET c == calls[k] IN
    /\ Done(k, {"load"}) /\ k # Other
    /\ list' = IF c.ok THEN c.rows ELSE list
    /\ IF c.sel = 0 THEN UNCHANGED selected /\ draft' = Settled /\ due' = FALSE
       ELSE LET found == {r \in c.rows : c.ok /\ r.cam = c.sel} IN
            ShowOnAnswer(IF found = {} THEN None ELSE CHOOSE r \in found : TRUE)
    /\ calls' = [j \in DOMAIN calls |->
          IF j = k THEN None
          ELSE IF calls[j] # None /\ calls[j].newer > c.newer /\ c.ok
          THEN [calls[j] EXCEPT !.newer = 0, !.overtaken = TRUE] ELSE calls[j]]
    /\ astray' = (astray \/ c.overtaken \/ (c.sel # 0 /\ Doomed(c.sel)))
    /\ UNCHANGED <<tables, made, fleet>>

\* handleSave: the draft is closed, whichever it is by now.
Saved(k) ==
    /\ Done(k, {"add", "patch"}) /\ k # Other
    /\ due' = FALSE
    /\ IF calls[k].ok THEN draft' = None /\ Reload(k, calls[k].sel)
       ELSE draft' = Settled /\ calls' = [calls EXCEPT ![k] = None]
    /\ UNCHANGED <<tables, list, selected, made, astray, fleet>>

\* handleDelete: the draft is closed if it was the zone's when Delete was
\* clicked (from is 0 if it was).
Dropped(k) ==
    /\ Done(k, {"drop"}) /\ k # Other
    /\ IF calls[k].ok
       THEN /\ IF calls[k].from = 0 THEN draft' = None /\ due' = FALSE
               ELSE UNCHANGED <<draft, due>>
            /\ Reload(k, calls[k].sel)
       ELSE UNCHANGED <<draft, due>> /\ calls' = [calls EXCEPT ![k] = None]
    /\ UNCHANGED <<tables, list, selected, made, astray, fleet>>

\* create and remove: the panel is closed if it showed the camera when Delete
\* was clicked.
Changed(k) ==
    LET c == calls[k] IN
    /\ Done(k, {"create", "remove"}) /\ k # Other
    /\ IF c.ok /\ c.op = "remove" /\ c.sel = c.cam THEN ShowOnAnswer(None)
       ELSE UNCHANGED <<selected, draft, due>>
    /\ IF c.ok THEN Reload(k, 0) ELSE calls' = [calls EXCEPT ![k] = None]
    /\ UNCHANGED <<tables, list, made, astray, fleet>>

Forget(k) ==
    /\ k = Other /\ calls[k] # None /\ calls[k].stage = "done"
    /\ calls' = [calls EXCEPT ![k] = None]
    /\ UNCHANGED <<tables, page, made, astray, fleet>>

-----------------------------------------------------------------------------
(* The users                                                               *)

Send(k, c) ==
    /\ calls[k] = None /\ calls' = [calls EXCEPT ![k] = c]
    /\ made < MaxCalls /\ made' = made + 1
    /\ UNCHANGED <<tables, page, astray, fleet>>

Sel == IF selected = None THEN 0 ELSE selected.cam

\* A row of the table is clicked, perhaps one whose camera is being deleted.
Select ==
    \E r \in list :
        /\ Sel # r.cam \/ selected # r
        /\ ShowOnClick(r)
        /\ astray' = (astray \/ Doomed(r.cam))
        /\ UNCHANGED <<tables, list, traffic, fleet>>

\* Close, the preview tab, Cancel and Escape; the last two keep the panel.
Leave ==
    /\ selected # None
    /\ \/ ShowOnClick(None)
       \/ draft # None /\ draft' = None /\ due' = FALSE /\ UNCHANGED selected
    /\ UNCHANGED <<tables, list, traffic, astray, fleet>>

\* startNew and startEdit; an effect that is due drops the new draft as well.
StartDraft ==
    /\ selected # None
    /\ \E z \in {0} \cup {y.id : y \in selected.zones} :
          draft' = IF due THEN None ELSE [cam |-> Sel, zone |-> z, ready |-> z # 0]
    /\ due' = FALSE
    /\ UNCHANGED <<tables, list, selected, traffic, astray, fleet>>

\* Clicks, drags, Enter and the name field: the polygon is closed, which takes
\* three points, and the name is not blank; or the name is blanked again.
Draw ==
    /\ draft # None
    /\ draft' = IF due THEN None ELSE [draft EXCEPT !.ready = ~@]
    /\ due' = FALSE
    /\ UNCHANGED <<tables, list, selected, traffic, astray, fleet>>

\* handleSave: the draft as it was rendered, sent to the camera that is shown.
Save(k) ==
    /\ draft # None /\ draft.ready
    /\ Send(k, [Call(IF draft.zone = 0 THEN "add" ELSE "patch", Sel, draft.zone, Sel)
                   EXCEPT !.shape = IF draft.zone = 0 THEN "drawn" ELSE "redrawn",
                          !.from = draft.cam, !.early = due])

\* handleDelete, create and remove
PageCall(k) ==
    \/ /\ selected # None
       /\ \E z \in selected.zones :
             Send(k, [Call("drop", Sel, z.id, Sel) EXCEPT
                         !.from = IF draft # None /\ draft.zone = z.id THEN 0 ELSE Sel])
    \/ lastCam < MaxCameras /\ Send(k, Call("create", 0, 0, Sel))
    \/ \E r \in list : Send(k, Call("remove", r.cam, 0, Sel))

OtherCall ==
    /\ \/ \E op \in {"remove", "activate", "add"}, c \in cams : Send(Other, Call(op, c, 0, 0))
       \/ \E z \in zones : Send(Other, Call("drop", z.cam, z.id, 0))

-----------------------------------------------------------------------------
(* The worker                                                              *)

Fetched == Rows(active)

\* main: with no active camera the process ends; otherwise each pipeline takes
\* its zones from the list, for as long as it runs.
StartWorker ==
    /\ worker = "down" /\ Fetched # {}
    /\ worker' = "running" /\ engine' = Fetched
    /\ UNCHANGED <<tables, page, traffic, astray>>

StopWorker ==
    /\ worker = "running" /\ worker' = "down" /\ engine' = {}
    /\ UNCHANGED <<tables, page, traffic, astray>>

Handle(k) == Open(k) \/ Commit(k) \/ Loaded(k) \/ Saved(k) \/ Dropped(k) \/ Changed(k)
             \/ Forget(k)

Next ==
    \/ \E k \in Slots \cup {Other} : Handle(k)
    \/ \E k \in Slots : Fail(k) \/ Save(k) \/ PageCall(k)
    \/ Effect \/ Select \/ Leave \/ StartDraft \/ Draw \/ OtherCall
    \/ StartWorker \/ StopWorker

\* Requests are answered; nobody has to start the worker.
Spec == Init /\ [][Next]_vars /\ \A k \in Slots \cup {Other} : WF_vars(Handle(k))

-----------------------------------------------------------------------------
(* Properties                                                              *)

Row == [cam : CameraIds, zones : SUBSET Zone]
CallType ==
    [op : {"load", "create", "remove", "activate", "add", "patch", "drop"},
     cam : 0..MaxCameras, zone : 0..MaxZones, shape : Shapes, sel : 0..MaxCameras,
     from : 0..MaxCameras, stage : {"sent", "open", "done"}, ok : BOOLEAN,
     rows : SUBSET Row, newer : Nat, overtaken : BOOLEAN, early : BOOLEAN]

ASSUME NoneAssumption == None \notin CallType

\* Every variable has its type.
TypeOK ==
    /\ cams \subseteq CameraIds /\ active \subseteq cams /\ zones \subseteq Zone
    /\ lastCam \in CameraIds /\ lastZone \in 0..MaxZones
    /\ list \subseteq Row /\ selected \in Row \cup {None}
    /\ draft \in [cam : CameraIds, zone : 0..MaxZones, ready : BOOLEAN] \cup {None} /\ due \in BOOLEAN
    /\ calls \in [Slots \cup {Other} -> CallType \cup {None}]
    /\ made \in 0..MaxCalls /\ astray \in BOOLEAN /\ worker \in {"down", "running"} /\ engine \subseteq Row

\* No zone is left behind by its camera, whatever the handlers of two users do
\* between reading the camera and committing.
ZonesHaveCameras == \A z \in zones : z.cam \in cams

\* What the comment above the effect on cameraId says: a draft is never saved to
\* another camera than the one it was drawn over.
DraftSavedToItsCamera ==
    \A k \in Slots : calls[k] # None /\ calls[k].op \in {"add", "patch"} =>
        calls[k].from = calls[k].cam

\* Only a Save that is clicked between a render and its effect goes to another camera
\* than the draft's, and what is written there is a new zone: a zone redrawn is not
\* found under the other camera, so no zone gets a shape drawn over another's picture.
StrayDraftsAreEarlyAndNew ==
    \A k \in Slots : LET c == calls[k] IN
        c # None /\ c.op \in {"add", "patch"} /\ c.from # c.cam =>
            c.early /\ (c.op = "patch" => c.stage = "sent" \/ ~c.ok)

\* When no request is under way, the page shows the tables as they are and has
\* no deleted camera open, unless something of what astray records happened.
PageConverges ==
    (\A k \in Slots : calls[k] = None) /\ ~astray =>
        list = Rows(cams) /\ (selected # None => selected \in list)

\* What the README says under the picture of the zone editor: no restart.
ZonesReachRunningEngine ==
    \A z \in Zone :
        <>[](z \in zones /\ z.cam \in active /\ worker = "running")
            => <>(\E e \in engine : z \in e.zones)
=============================================================================
