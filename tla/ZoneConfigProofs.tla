-------------------------- MODULE ZoneConfigProofs --------------------------
(***************************************************************************)
(* ZoneConfig's safety properties, for any number of cameras, zones,       *)
(* requests and slots.                                                     *)
(*                                                                         *)
(* The argument for the tables: whatever a session has read, the commit    *)
(* asks again whether the camera is there, and a camera takes all its      *)
(* zones with it.  For the draft: it is of the camera that is open unless  *)
(* the effect on cameraId is due (DraftInv), so only a Save before that    *)
(* effect can send it to another camera; and every zone id the page knows  *)
(* is one of the camera it was read for (KnownInv), so such a change of a  *)
(* zone is not found there.  For the page and the tables together:         *)
(* whatever the page shows out of date is owed to it by a request still    *)
(* under way (PageInv): a write leads to a load, a load reads the tables,  *)
(* and of two answers that wait the one read later is handled later.       *)
(***************************************************************************)
EXTENDS ZoneConfig, TLAPS

\* A draft belongs to the camera that is open in the editor, or its end is due.
DraftInv == draft # None => selected # None /\ (~due => draft.cam = selected.cam)

\* A draft sent to another camera was sent before the effect that drops it.
EarlyInv ==
    \A k \in Slots : calls[k] # None /\ calls[k].op \in {"add", "patch"}
                     /\ calls[k].from # calls[k].cam => calls[k].early

Requests == Slots \cup {Other}
Drafts == [cam : CameraIds, zone : 0..MaxZones, ready : BOOLEAN]
Traffic == [Requests -> CallType \cup {None}]
Ops == {"load", "create", "remove", "activate", "add", "patch", "drop"}

-----------------------------------------------------------------------------
(* The operators                                                           *)

\* What a session reads of the tables are rows.
LEMMA RowsType ==
    ASSUME zones \subseteq Zone, NEW ids \in SUBSET CameraIds
    PROVE  Rows(ids) \subseteq Row
BY DEF Rows, Row, ZonesOf

LEMMA CallIn ==
    ASSUME ConfigAssumption, NEW op \in Ops, NEW c \in 0..MaxCameras, NEW z \in 0..MaxZones,
           NEW sel \in 0..MaxCameras
    PROVE  Call(op, c, z, sel) \in CallType
BY DEF Call, CallType, Ops, ConfigAssumption, Shapes

LEMMA LoadIn ==
    ASSUME ConfigAssumption, NEW sel \in 0..MaxCameras
    PROVE  Load(sel) \in CallType
BY CallIn DEF Load, Ops, ConfigAssumption

\* A request is answered, and stays the request it was.
LEMMA AnswerType ==
    ASSUME calls \in Traffic, NEW k \in Requests, calls[k] # None,
           NEW ok \in BOOLEAN, Answer(k, ok)
    PROVE  calls' \in Traffic
<1>1. calls[k] \in CallType
  BY DEF Traffic
<1>2. [calls[k] EXCEPT !.stage = "done", !.ok = ok] \in CallType
  BY <1>1 DEF CallType
<1>. QED  BY <1>2 DEF Answer, Traffic

\* Closed or loaded again, a slot keeps the type of the requests.
LEMMA SlotType ==
    ASSUME calls \in Traffic, NEW k \in Requests, NEW c \in CallType \cup {None},
           calls' = [calls EXCEPT ![k] = c]
    PROVE  calls' \in Traffic
BY DEF Traffic

\* Showing a row or nothing keeps the page's types, and drops the draft, at once or by
\* an effect that is due, unless it is of the camera that is shown.
LEMMA ClickType ==
    ASSUME TypeOK, DraftInv, NEW s \in Row \cup {None}, ShowOnClick(s)
    PROVE  /\ selected' \in Row \cup {None} /\ draft' \in Drafts \cup {None}
           /\ due' \in BOOLEAN /\ DraftInv'
BY DEF ShowOnClick, SameCamera, Settled, TypeOK, DraftInv, Drafts

LEMMA AnswerShows ==
    ASSUME TypeOK, DraftInv, NEW s \in Row \cup {None}, ShowOnAnswer(s)
    PROVE  /\ selected' \in Row \cup {None} /\ draft' \in Drafts \cup {None}
           /\ due' \in BOOLEAN /\ DraftInv'
<1>1. selected' = s /\ draft' \in Drafts \cup {None}
  BY DEF ShowOnAnswer, Settled, TypeOK, Drafts
<1>2. due' \in BOOLEAN
  BY DEF ShowOnAnswer
<1>3. DraftInv'
  BY DEF ShowOnAnswer, SameCamera, Settled, DraftInv
<1>. QED  BY <1>1, <1>2, <1>3

\* The camera shown by the page, or zero.
LEMMA SelType == TypeOK /\ ConfigAssumption => Sel \in 0..MaxCameras
BY DEF TypeOK, Sel, Row, CameraIds, ConfigAssumption

\* Closing the panel keeps nothing of it.
LEMMA ShowNone ==
    ShowOnClick(None) \/ ShowOnAnswer(None) => selected' = None /\ draft' = None /\ due' = FALSE
BY DEF ShowOnClick, ShowOnAnswer, SameCamera

-----------------------------------------------------------------------------
(* Type correctness                                                        *)

TablesOK ==
    /\ cams \subseteq CameraIds /\ active \subseteq cams /\ zones \subseteq Zone
    /\ lastCam \in CameraIds /\ lastZone \in 0..MaxZones
PageOK ==
    /\ list \subseteq Row /\ selected \in Row \cup {None} /\ draft \in Drafts \cup {None}
    /\ due \in BOOLEAN
FleetOK == worker \in {"down", "running"} /\ engine \subseteq Row
CountersOK == made \in 0..MaxCalls /\ astray \in BOOLEAN

LEMMA Parts == TypeOK <=> TablesOK /\ PageOK /\ FleetOK /\ CountersOK /\ calls \in Traffic
BY DEF TypeOK, TablesOK, PageOK, FleetOK, CountersOK, Traffic, Requests, Drafts

LEMMA PartsNext ==
    TablesOK' /\ PageOK' /\ FleetOK' /\ CountersOK' /\ calls' \in Traffic => TypeOK'
BY DEF TypeOK, TablesOK, PageOK, FleetOK, CountersOK, Traffic, Requests, Drafts

LEMMA TypeInit == Init => TypeOK /\ DraftInv
<1>. SUFFICES ASSUME Init PROVE TypeOK /\ DraftInv
  OBVIOUS
<1>1. TablesOK
  BY ConfigAssumption DEF Init, TablesOK, Zone, ZoneIds, CameraIds, Shapes, ConfigAssumption
<1>2. PageOK /\ FleetOK /\ DraftInv
  BY DEF Init, PageOK, FleetOK, DraftInv
<1>3. CountersOK
  <2>1. 0 \in 0..MaxCalls
    BY ConfigAssumption DEF ConfigAssumption
  <2>2. made = 0 /\ astray = FALSE
    BY DEF Init
  <2>. QED  BY <2>1, <2>2 DEF CountersOK
<1>4. Load(0) \in CallType
  BY ConfigAssumption, LoadIn DEF ConfigAssumption
<1>5. calls \in Traffic
  BY <1>4 DEF Init, Traffic, Requests
<1>. QED  BY <1>1, <1>2, <1>3, <1>5, Parts

\* Opening a session only changes requests.
LEMMA OpenStep ==
    ASSUME TypeOK, NEW k \in Requests, Open(k)
    PROVE  calls' \in Traffic
<1>. DEFINE c == calls[k]
<1>1. c \in CallType /\ \A j \in Requests : calls[j] \in CallType \cup {None}
  BY DEF Open, TypeOK, Requests
<1>2. Rows(cams) \subseteq Row
  BY RowsType DEF TypeOK
<1>3. CASE c.op = "load"
  <2>1. [c EXCEPT !.stage = "done", !.rows = Rows(cams)] \in CallType
    BY <1>1, <1>2 DEF CallType
  <2>2. \A j \in Requests : OneNewer(calls[j]) \in CallType \cup {None}
    BY <1>1 DEF OneNewer, CallType
  <2>3. calls' = [j \in Requests |->
            IF j = k THEN [c EXCEPT !.stage = "done", !.rows = Rows(cams)]
            ELSE OneNewer(calls[j])]
    BY <1>3 DEF Open, TypeOK, Requests
  <2>. QED  BY <2>1, <2>2, <2>3 DEF Traffic
<1>4. CASE c.op # "load"
  <2>. DEFINE r == IF Found(c) /\ c.op = "remove" THEN Rows({c.cam}) ELSE {}
              st == IF Found(c) THEN "open" ELSE "done"
  <2>1. Found(c) \in BOOLEAN
    BY DEF Found
  <2>2. Found(c) /\ c.op = "remove" => c.cam \in CameraIds
    BY DEF Found, TypeOK
  <2>3. r \subseteq Row
    BY <2>2, RowsType DEF TypeOK
  <2>4. [c EXCEPT !.stage = st, !.ok = Found(c), !.rows = r] \in CallType
    BY <1>1, <2>1, <2>3 DEF CallType
  <2>5. calls' = [calls EXCEPT ![k] = [c EXCEPT !.stage = st, !.ok = Found(c), !.rows = r]]
    BY <1>4, <1>1 DEF Open, TypeOK, Requests, CallType
  <2>6. calls \in Traffic
    BY Parts
  <2>. HIDE DEF c, r, st
  <2>. QED  BY <2>4, <2>5, <2>6, SlotType
<1>. QED  BY <1>3, <1>4

\* The commits of the handlers, one lemma for the tables they leave behind.
LEMMA CommitTables ==
    ASSUME TypeOK, NEW k \in Requests, Commit(k)
    PROVE  TablesOK' /\ (ZonesHaveCameras => ZonesHaveCameras')
<1>. DEFINE c == calls[k]
<1>1. c \in CallType
  BY DEF Commit, TypeOK, Requests
<1>. USE ConfigAssumption DEF TablesOK, TypeOK, ZonesHaveCameras, ConfigAssumption
<1>2. CASE CreateCamera(k)
  BY <1>2 DEF CreateCamera, CameraIds
<1>3. CASE DeleteCamera(k)
  BY <1>3 DEF DeleteCamera, ZonesOf
<1>4. CASE ActivateCamera(k)
  BY <1>4 DEF ActivateCamera
<1>5. CASE AddZone(k)
  <2>1. lastZone' \in ZoneIds /\ lastZone' \in 0..MaxZones
    BY <1>5 DEF AddZone, ZoneIds
  <2>2. c.cam \in cams => [id |-> lastZone', cam |-> c.cam, shape |-> "drawn"] \in Zone
    BY <2>1 DEF Zone, Shapes
  <2>. QED  BY <1>5, <2>1, <2>2 DEF AddZone
<1>6. CASE UpdateZone(k)
  <2>1. \A z \in zones : [z EXCEPT !.shape = c.shape] \in Zone
                         /\ [z EXCEPT !.shape = c.shape].cam = z.cam
    BY <1>1 DEF Zone, CallType
  <2>. QED  BY <1>6, <2>1 DEF UpdateZone
<1>7. CASE DeleteZone(k)
  BY <1>7 DEF DeleteZone
<1>. QED  BY <1>2, <1>3, <1>4, <1>5, <1>6, <1>7 DEF Commit

\* A commit answers its request.
LEMMA CommitAnswers ==
    ASSUME NEW k \in Requests, Commit(k)
    PROVE  \E ok \in BOOLEAN : Answer(k, ok)
<1>. DEFINE there == calls[k].cam \in cams
            present == \E z \in zones : z.id = calls[k].zone
<1>1. Answer(k, TRUE) \/ Answer(k, there) \/ Answer(k, present)
  BY DEF Commit, CreateCamera, DeleteCamera, ActivateCamera, AddZone, UpdateZone, DeleteZone
<1>2. there \in BOOLEAN /\ present \in BOOLEAN
  OBVIOUS
<1>. HIDE DEF there, present
<1>. QED  BY <1>1, <1>2

LEMMA CommitCalls ==
    ASSUME TypeOK, NEW k \in Requests, Commit(k)
    PROVE  calls' \in Traffic
<1>1. \E ok \in BOOLEAN : Answer(k, ok)
  BY CommitAnswers
<1>2. calls[k] # None /\ calls \in Traffic
  BY Parts DEF Commit
<1>. QED  BY <1>1, <1>2, AnswerType

\* The page's handlers: whichever camera they leave open, the draft is its own or about to go.
LEMMA PageStep ==
    ASSUME TypeOK, DraftInv, NEW k \in Requests,
           Loaded(k) \/ Saved(k) \/ Dropped(k) \/ Changed(k) \/ Forget(k)
    PROVE  PageOK' /\ DraftInv' /\ calls' \in Traffic /\ CountersOK'
<1>. DEFINE c == calls[k]
<1>1. calls \in Traffic /\ PageOK /\ CountersOK
  BY Parts
<1>2. c \in CallType
  BY <1>1 DEF Loaded, Saved, Dropped, Changed, Forget, Done, Traffic
<1>3. Load(0) \in CallType /\ Load(c.sel) \in CallType
  <2>1. 0 \in 0..MaxCameras /\ c.sel \in 0..MaxCameras
    BY <1>2, ConfigAssumption DEF CallType, ConfigAssumption
  <2>. HIDE DEF c
  <2>. QED  BY <2>1, ConfigAssumption, LoadIn
<1>4. CASE Loaded(k)
  <2>1. list' \subseteq Row
    BY <1>1, <1>2, <1>4 DEF Loaded, PageOK, CallType
  <2>2. /\ selected' \in Row \cup {None} /\ draft' \in Drafts \cup {None}
        /\ due' \in BOOLEAN /\ DraftInv'
    <3>1. CASE c.sel = 0
      BY <3>1, <1>1, <1>4 DEF Loaded, PageOK, DraftInv, Settled
    <3>2. CASE c.sel # 0
      <4>. DEFINE found == {r \in c.rows : c.ok /\ r.cam = c.sel}
                  s == IF found = {} THEN None ELSE CHOOSE r \in found : TRUE
      <4>1. s \in Row \cup {None}
        BY <1>2 DEF CallType
      <4>2. ShowOnAnswer(s)
        BY <3>2, <1>4 DEF Loaded
      <4>. HIDE DEF s
      <4>. QED  BY <4>1, <4>2, AnswerShows
    <3>. QED  BY <3>1, <3>2
  <2>3. calls' \in Traffic
    <3>1. \A j \in Requests : calls[j] # None =>
              [calls[j] EXCEPT !.newer = 0, !.overtaken = TRUE] \in CallType
      BY <1>1 DEF Traffic, CallType
    <3>. QED  BY <3>1, <1>1, <1>4 DEF Loaded, Traffic
  <2>4. CountersOK'
    BY <1>1, <1>2, <1>4 DEF Loaded, CountersOK, Doomed, CallType
  <2>. QED  BY <2>1, <2>2, <2>3, <2>4 DEF PageOK
<1>5. CASE Saved(k) \/ Dropped(k)
  <2>1. PageOK' /\ DraftInv' /\ CountersOK'
    BY <1>1, <1>5 DEF Saved, Dropped, Settled, PageOK, DraftInv, CountersOK
  <2>2. calls' = [calls EXCEPT ![k] = Load(c.sel)] \/ calls' = [calls EXCEPT ![k] = None]
    BY <1>5 DEF Saved, Dropped, Reload
  <2>. QED  BY <2>1, <2>2, <1>1, <1>3, SlotType
<1>6. CASE Changed(k)
  <2>1. PageOK' /\ DraftInv'
    BY <1>1, <1>6, ShowNone DEF Changed, PageOK, DraftInv
  <2>2. calls' = [calls EXCEPT ![k] = Load(0)] \/ calls' = [calls EXCEPT ![k] = None]
    BY <1>6 DEF Changed, Reload
  <2>. QED  BY <2>1, <2>2, <1>1, <1>3, <1>6, SlotType DEF Changed, CountersOK
<1>7. CASE Forget(k)
  <2>1. calls' \in Traffic
    BY <1>1, <1>7, SlotType DEF Forget
  <2>. QED  BY <2>1, <1>1, <1>7 DEF Forget, PageOK, DraftInv, CountersOK, page
<1>. QED  BY <1>4, <1>5, <1>6, <1>7

\* A click keeps the draft or drops it with its camera.
LEMMA ClickStep ==
    ASSUME TypeOK, DraftInv, Select \/ Leave \/ StartDraft \/ Draw \/ Effect
    PROVE  PageOK' /\ DraftInv' /\ CountersOK' /\ calls' = calls
<1>1. PageOK /\ CountersOK
  BY Parts
<1>2. CASE Select
  <2>1. PICK r \in list : ShowOnClick(r)
    BY <1>2 DEF Select
  <2>2. r \in Row \cup {None}
    BY <1>1 DEF PageOK
  <2>3. astray' \in BOOLEAN /\ made' = made /\ list' = list /\ calls' = calls
    BY <1>1, <1>2 DEF Select, CountersOK, Doomed, traffic
  <2>. QED  BY <2>1, <2>2, <2>3, <1>1, ClickType DEF PageOK, CountersOK
<1>3. CASE Leave
  BY <1>1, <1>3, ShowNone DEF Leave, PageOK, CountersOK, DraftInv, traffic
<1>4. CASE StartDraft
  <2>1. PICK z \in {0} \cup {y.id : y \in selected.zones} :
            draft' = IF due THEN None ELSE [cam |-> Sel, zone |-> z, ready |-> z # 0]
    BY <1>4 DEF StartDraft
  <2>2. selected \in Row /\ Sel = selected.cam
    BY <1>1, <1>4 DEF StartDraft, PageOK, Sel
  <2>3. z \in 0..MaxZones /\ Sel \in CameraIds
    BY <2>2, ConfigAssumption DEF Row, Zone, ZoneIds, ConfigAssumption
  <2>4. draft' = None \/ (draft' \in Drafts /\ draft'.cam = selected.cam)
    BY <2>1, <2>2, <2>3 DEF Drafts
  <2>. QED  BY <2>4, <1>1, <1>4 DEF StartDraft, PageOK, CountersOK, DraftInv, traffic
<1>5. CASE Draw
  <2>1. draft' = None \/ (~due /\ draft' \in Drafts /\ draft'.cam = draft.cam)
    BY <1>1, <1>5 DEF Draw, PageOK, Drafts
  <2>. QED  BY <2>1, <1>1, <1>5 DEF Draw, PageOK, CountersOK, DraftInv, traffic
<1>6. CASE Effect
  BY <1>1, <1>6 DEF Effect, PageOK, CountersOK, DraftInv, traffic
<1>. QED  BY <1>2, <1>3, <1>4, <1>5, <1>6

\* What Save sends is of the camera the draft was started against, or is early.
LEMMA SaveCall ==
    ASSUME TypeOK, DraftInv, NEW k \in Slots, Save(k)
    PROVE  \E c \in CallType : /\ (c.from = c.cam \/ c.early) /\ Send(k, c)
                              /\ c.stage = "sent" /\ c.zone = draft.zone /\ c.from = draft.cam
                              /\ c.op \in {"add", "patch"} /\ (c.op = "patch" => c.zone # 0)
<1>. DEFINE new == draft.zone = 0
            c == [Call(IF new THEN "add" ELSE "patch", Sel, draft.zone, Sel)
                     EXCEPT !.shape = IF new THEN "drawn" ELSE "redrawn", !.from = draft.cam,
                            !.early = due]
<1>1. /\ draft \in Drafts /\ (Sel = draft.cam \/ due) /\ Sel \in 0..MaxCameras /\ due \in BOOLEAN
      /\ draft.cam \in 0..MaxCameras
  BY SelType, Parts, ConfigAssumption
     DEF Save, PageOK, DraftInv, Sel, Drafts, CameraIds, ConfigAssumption
<1>2. Call(IF new THEN "add" ELSE "patch", Sel, draft.zone, Sel) \in CallType
  BY <1>1, CallIn, ConfigAssumption DEF Drafts, Ops
<1>3. c \in CallType
  BY <1>1, <1>2 DEF CallType, Shapes
<1>4. /\ c.from = draft.cam /\ c.cam = Sel /\ c.early = due /\ c.stage = "sent"
      /\ c.zone = draft.zone /\ c.op = IF new THEN "add" ELSE "patch"
  BY <1>1, <1>2 DEF Call
<1>. HIDE DEF c
<1>5. Send(k, c)
  BY DEF Save, c
<1>. QED  BY <1>1, <1>3, <1>4, <1>5

\* The other requests of the two users save nothing.
LEMMA OtherCalls ==
    ASSUME TypeOK, NEW k \in Requests,
           \/ PageCall(k) /\ k \in Slots
           \/ OtherCall /\ k = Other
    PROVE  \E c \in CallType : (k \in Slots => c.op \notin {"add", "patch"}) /\ Send(k, c)
<1>1. Sel \in 0..MaxCameras /\ 0 \in 0..MaxCameras /\ 0 \in 0..MaxZones
  BY SelType, ConfigAssumption DEF ConfigAssumption
<1>2. \A x \in CameraIds : x \in 0..MaxCameras
  BY ConfigAssumption DEF CameraIds, ConfigAssumption
<1>3. \A z \in Zone : z.id \in 0..MaxZones /\ z.cam \in 0..MaxCameras
  BY <1>2, ConfigAssumption DEF Zone, ZoneIds, ConfigAssumption
<1>4. selected # None => selected.zones \subseteq Zone
  BY DEF TypeOK, Row
<1>5. CASE PageCall(k) /\ k \in Slots
  <2>1. ASSUME NEW z \in selected.zones, selected # None, NEW f \in 0..MaxCameras,
               Send(k, [Call("drop", Sel, z.id, Sel) EXCEPT !.from = f])
        PROVE  \E c \in CallType : c.op = "drop" /\ Send(k, c)
    <3>1. Call("drop", Sel, z.id, Sel) \in CallType
      BY <1>1, <1>3, <1>4, <2>1, CallIn, ConfigAssumption DEF Ops
    <3>2. [Call("drop", Sel, z.id, Sel) EXCEPT !.from = f] \in CallType
      BY <3>1 DEF CallType
    <3>3. [Call("drop", Sel, z.id, Sel) EXCEPT !.from = f].op = "drop"
      BY <3>1 DEF Call
    <3>. QED  BY <3>2, <3>3, <2>1
  <2>2. ASSUME Send(k, Call("create", 0, 0, Sel))
        PROVE  \E c \in CallType : c.op = "create" /\ Send(k, c)
    <3>1. Call("create", 0, 0, Sel) \in CallType
      BY <1>1, CallIn, ConfigAssumption DEF Ops
    <3>2. Call("create", 0, 0, Sel).op = "create"
      BY DEF Call
    <3>. QED  BY <3>1, <3>2, <2>2
  <2>3. ASSUME NEW r \in list, Send(k, Call("remove", r.cam, 0, Sel))
        PROVE  \E c \in CallType : c.op = "remove" /\ Send(k, c)
    <3>1. r.cam \in 0..MaxCameras
      BY <1>2 DEF TypeOK, Row
    <3>2. Call("remove", r.cam, 0, Sel) \in CallType
      BY <3>1, <1>1, CallIn, ConfigAssumption DEF Ops
    <3>3. Call("remove", r.cam, 0, Sel).op = "remove"
      BY DEF Call
    <3>. QED  BY <3>2, <3>3, <2>3
  <2>4. selected # None => \A z \in selected.zones :
            (IF draft # None /\ draft.zone = z.id THEN 0 ELSE Sel) \in 0..MaxCameras
    BY <1>1
  <2>. QED  BY <1>5, <2>1, <2>2, <2>3, <2>4 DEF PageCall
<1>6. CASE OtherCall /\ k = Other
  <2>1. ASSUME NEW op \in {"remove", "activate", "add"}, NEW x \in cams,
               Send(Other, Call(op, x, 0, 0))
        PROVE  \E c \in CallType : Send(Other, c)
    <3>1. x \in 0..MaxCameras
      BY <1>2 DEF TypeOK
    <3>2. Call(op, x, 0, 0) \in CallType
      BY <3>1, <1>1, CallIn, ConfigAssumption DEF Ops
    <3>. QED  BY <3>2, <2>1
  <2>2. ASSUME NEW z \in zones, Send(Other, Call("drop", z.cam, z.id, 0))
        PROVE  \E c \in CallType : Send(Other, c)
    <3>1. Call("drop", z.cam, z.id, 0) \in CallType
      BY <1>1, <1>3, CallIn, ConfigAssumption DEF Ops, TypeOK
    <3>. QED  BY <3>1, <2>2
  <2>3. k \notin Slots
    BY <1>6, ConfigAssumption DEF ConfigAssumption
  <2>. QED  BY <1>6, <2>1, <2>2, <2>3 DEF OtherCall
<1>. QED  BY <1>5, <1>6

\* A new request.
LEMMA SendStep ==
    ASSUME TypeOK, DraftInv, NEW k \in Requests,
           \/ k \in Slots /\ (Save(k) \/ PageCall(k))
           \/ k = Other /\ OtherCall
    PROVE  /\ TypeOK' /\ DraftInv'
           /\ EarlyInv => EarlyInv'
<1>1. PICK c \in CallType :
          Send(k, c) /\ (k \in Slots => c.from = c.cam \/ c.early \/ c.op \notin {"add", "patch"})
  <2>1. CASE k \in Slots /\ Save(k)
    BY <2>1, SaveCall
  <2>2. CASE PageCall(k) /\ k \in Slots
    BY <2>2, OtherCalls
  <2>3. CASE OtherCall /\ k = Other
    BY <2>3, OtherCalls
  <2>. QED  BY <2>1, <2>2, <2>3
<1>2. calls' \in Traffic
  BY <1>1, Parts, SlotType DEF Send
<1>3. CountersOK'
  BY <1>1, Parts, ConfigAssumption DEF Send, CountersOK, ConfigAssumption
<1>4. TablesOK' /\ PageOK' /\ FleetOK' /\ DraftInv'
  BY <1>1, Parts DEF Send, tables, page, fleet, TablesOK, PageOK, FleetOK, DraftInv
<1>5. TypeOK'
  BY <1>2, <1>3, <1>4, PartsNext
<1>6. EarlyInv => EarlyInv'
  <2>1. \A j \in Slots : calls'[j] = IF j = k THEN c ELSE calls[j]
    BY <1>1, Parts DEF Send, Traffic, Requests
  <2>. QED  BY <1>1, <2>1 DEF EarlyInv
<1>. QED  BY <1>4, <1>5, <1>6

\* A handler answers a save, closes it or starts a load: it never makes one.
LEMMA HandlerStep ==
    ASSUME TypeOK, DraftInv, NEW k \in Requests, Handle(k) \/ Fail(k)
    PROVE  /\ TypeOK' /\ DraftInv'
           /\ EarlyInv => EarlyInv'
           /\ ZonesHaveCameras => ZonesHaveCameras'
<1>. DEFINE c == calls[k]
            Same(d, e) == d # None /\ d.op = e.op /\ d.from = e.from /\ d.cam = e.cam /\ d.early = e.early
            Kept == \A j \in Requests :
                       \/ calls'[j] = None \/ calls'[j].op = "load"
                       \/ Same(calls[j], calls'[j])
<1>1. calls \in Traffic /\ TablesOK /\ PageOK /\ FleetOK /\ CountersOK
  BY Parts
<1>2. c \in CallType /\ c # None
  BY <1>1 DEF Handle, Open, Commit, Fail, Loaded, Saved, Dropped, Changed, Forget, Done, Traffic
<1>3. Kept => (EarlyInv => EarlyInv')
  BY DEF EarlyInv, Requests
<1>4. \A ok \in BOOLEAN : Answer(k, ok) => Kept
  <2>. SUFFICES ASSUME NEW ok \in BOOLEAN, Answer(k, ok) PROVE Kept
    OBVIOUS
  <2>1. calls' = [calls EXCEPT ![k] = [c EXCEPT !.stage = "done", !.ok = ok]]
    BY <1>1 DEF Answer, Traffic
  <2>2. Same(c, [c EXCEPT !.stage = "done", !.ok = ok])
    BY <1>2 DEF CallType
  <2>3. \A j \in Requests : calls[j] = None \/ Same(calls[j], calls[j])
    OBVIOUS
  <2>. QED  BY <2>1, <2>2, <2>3, <1>1 DEF Traffic
<1>5. Load(0).op = "load" /\ Load(c.sel).op = "load"
  BY DEF Load, Call
<1>6. \A d \in {None, Load(0), Load(c.sel)} : calls' = [calls EXCEPT ![k] = d] => Kept
  BY <1>1, <1>5 DEF Traffic
<1>7. CASE Open(k)
  <2>1. calls' \in Traffic
    BY <1>7, OpenStep
  <2>2. Kept
    <3>1. CASE c.op = "load"
      <4>1. \A j \in Requests : j # k => calls'[j] = OneNewer(calls[j])
        BY <1>1, <1>7, <3>1 DEF Open, Traffic
      <4>2. ASSUME NEW j \in Requests, j # k, calls[j] # None
            PROVE  Same(calls[j], calls'[j])
        <5>1. calls[j] \in CallType
          BY <1>1, <4>2 DEF Traffic
        <5>2. Same(calls[j], [calls[j] EXCEPT !.newer = @ + 1])
          BY <4>2, <5>1 DEF CallType
        <5>. QED  BY <4>1, <4>2, <5>2 DEF OneNewer
      <4>3. calls'[k].op = "load"
        BY <1>1, <1>2, <1>7, <3>1 DEF Open, Traffic, CallType
      <4>4. \A j \in Requests : j # k /\ calls[j] = None => calls'[j] = None
        BY <4>1 DEF OneNewer
      <4>. QED  BY <4>2, <4>3, <4>4
    <3>2. CASE c.op # "load"
      BY <1>1, <1>2, <1>7, <3>2 DEF Open, Traffic, CallType
    <3>. QED  BY <3>1, <3>2
  <2>3. TablesOK' /\ PageOK' /\ FleetOK' /\ CountersOK' /\ DraftInv'
        /\ (ZonesHaveCameras => ZonesHaveCameras')
    BY <1>1, <1>7 DEF Open, tables, page, fleet, TablesOK, PageOK, FleetOK, CountersOK, DraftInv,
                      ZonesHaveCameras
  <2>. QED  BY <2>1, <2>2, <2>3, <1>3, PartsNext
<1>8. CASE Commit(k)
  <2>1. TablesOK' /\ calls' \in Traffic /\ (ZonesHaveCameras => ZonesHaveCameras')
    BY <1>8, CommitTables, CommitCalls
  <2>2. \E ok \in BOOLEAN : Answer(k, ok)
    BY <1>8, CommitAnswers
  <2>3. PageOK' /\ FleetOK' /\ DraftInv' /\ CountersOK'
    BY <1>1, <1>8 DEF Commit, page, fleet, PageOK, FleetOK, DraftInv, CountersOK
  <2>. QED  BY <2>1, <2>2, <2>3, <1>3, <1>4, PartsNext
<1>9. CASE Fail(k)
  <2>1. calls' \in Traffic
    BY <1>1, <1>9, AnswerType DEF Fail
  <2>2. TablesOK' /\ PageOK' /\ FleetOK' /\ CountersOK' /\ DraftInv'
        /\ (ZonesHaveCameras => ZonesHaveCameras')
    BY <1>1, <1>9 DEF Fail, tables, page, fleet, TablesOK, PageOK, FleetOK, CountersOK, DraftInv,
                      ZonesHaveCameras
  <2>3. Kept
    BY <1>4, <1>9 DEF Fail
  <2>. QED  BY <2>1, <2>2, <2>3, <1>3, PartsNext
<1>10. CASE Loaded(k) \/ Saved(k) \/ Dropped(k) \/ Changed(k) \/ Forget(k)
  <2>1. PageOK' /\ DraftInv' /\ calls' \in Traffic /\ CountersOK'
    BY <1>10, PageStep
  <2>2. TablesOK' /\ FleetOK' /\ (ZonesHaveCameras => ZonesHaveCameras')
    BY <1>1, <1>10 DEF Loaded, Saved, Dropped, Changed, Forget, tables, fleet, TablesOK, FleetOK,
                       ZonesHaveCameras
  <2>3. Kept
    <3>1. CASE Loaded(k)
      BY <1>1, <3>1 DEF Loaded, Traffic, CallType
    <3>2. CASE Saved(k) \/ Dropped(k) \/ Changed(k) \/ Forget(k)
      <4>1. \E d \in {None, Load(0), Load(c.sel)} : calls' = [calls EXCEPT ![k] = d]
        BY <3>2 DEF Saved, Dropped, Changed, Forget, Reload
      <4>. HIDE DEF Kept, c
      <4>. QED  BY <4>1, <1>6
    <3>. QED  BY <1>10, <3>1, <3>2
  <2>. QED  BY <2>1, <2>2, <2>3, <1>3, PartsNext
<1>. QED  BY <1>7, <1>8, <1>9, <1>10 DEF Handle

-----------------------------------------------------------------------------
(* The theorems                                                            *)

IInv == TypeOK /\ DraftInv /\ EarlyInv /\ ZonesHaveCameras

LEMMA Inductive == IInv /\ [Next]_vars => IInv'
<1>. SUFFICES ASSUME IInv, [Next]_vars PROVE IInv'
  OBVIOUS
<1>1. ASSUME NEW k \in Requests, Handle(k) PROVE IInv'
  BY <1>1, HandlerStep DEF IInv
<1>2. ASSUME NEW k \in Slots, Fail(k) PROVE IInv'
  BY <1>2, HandlerStep DEF IInv, Requests
<1>3. ASSUME NEW k \in Slots, Save(k) \/ PageCall(k) PROVE IInv'
  <2>1. ZonesHaveCameras'
    BY <1>3 DEF Save, PageCall, Send, IInv, ZonesHaveCameras, tables
  <2>. QED  BY <1>3, <2>1, SendStep DEF IInv, Requests
<1>4. CASE OtherCall
  <2>1. ZonesHaveCameras'
    BY <1>4 DEF OtherCall, Send, IInv, ZonesHaveCameras, tables
  <2>. QED  BY <1>4, <2>1, SendStep DEF IInv, Requests
<1>5. CASE Select \/ Leave \/ StartDraft \/ Draw \/ Effect
  <2>1. PageOK' /\ DraftInv' /\ CountersOK' /\ calls' = calls
    BY <1>5, ClickStep DEF IInv
  <2>2. TablesOK' /\ FleetOK' /\ ZonesHaveCameras'
    BY <1>5, Parts DEF Select, Leave, StartDraft, Draw, Effect, tables, fleet, TablesOK, FleetOK,
                       ZonesHaveCameras, IInv
  <2>. QED  BY <2>1, <2>2, Parts, PartsNext DEF IInv, EarlyInv
<1>6. CASE StartWorker \/ StopWorker
  <2>1. FleetOK'
    <3>1. Rows(active) \subseteq Row
      BY RowsType DEF IInv, TypeOK
    <3>. QED  BY <3>1, <1>6 DEF StartWorker, StopWorker, Fetched, FleetOK
  <2>2. TablesOK' /\ PageOK' /\ CountersOK' /\ calls' = calls /\ ZonesHaveCameras' /\ DraftInv'
    BY <1>6, Parts DEF StartWorker, StopWorker, tables, page, traffic, TablesOK, PageOK, CountersOK,
                       ZonesHaveCameras, DraftInv, IInv
  <2>. QED  BY <2>1, <2>2, Parts, PartsNext DEF IInv, EarlyInv
<1>7. CASE UNCHANGED vars
  BY <1>7 DEF vars, traffic, tables, page, fleet, IInv, TypeOK, DraftInv, EarlyInv,
              ZonesHaveCameras
<1>. QED  BY <1>1, <1>2, <1>3, <1>4, <1>5, <1>6, <1>7 DEF Next, Requests

LEMMA Invariant == Spec => []IInv
<1>1. Init => IInv
  <2>. SUFFICES ASSUME Init PROVE IInv
    OBVIOUS
  <2>1. ZonesHaveCameras
    BY DEF Init, ZonesHaveCameras
  <2>2. EarlyInv
    BY DEF Init, EarlyInv, Load, Call
  <2>. QED  BY <2>1, <2>2, TypeInit DEF IInv
<1>. QED  BY <1>1, Inductive, PTL DEF Spec

\* Every variable of the page, the tables and the requests has its type.
THEOREM TypeCorrect == Spec => []TypeOK
BY Invariant, PTL DEF IInv

\* No zone outlives its camera, with any number of requests between their reads and
\* their commits: a zone added while its camera is deleted is refused or deleted.
THEOREM NoOrphanZone == Spec => []ZonesHaveCameras
BY Invariant, PTL DEF IInv

-----------------------------------------------------------------------------
(* The page and the tables                                                 *)

\* Where the page's requests stand: a load not read yet, an answer of one that waits
\* to be handled, and a write that is answered.
Asked(k) == calls[k] # None /\ calls[k].op = "load" /\ calls[k].stage = "sent"
Waits(k) == calls[k] # None /\ calls[k].op = "load" /\ calls[k].stage = "done"
Wrote(k) == calls[k] # None /\ calls[k].op # "load" /\ calls[k].stage = "done" /\ calls[k].ok
ZoneOps  == {"add", "patch", "drop"}

\* The row of a camera as it is, and one that is out of date.
Now(c)   == [cam |-> c, zones |-> ZonesOf(c)]
Stale(r) == r.cam \in cams /\ r # Now(r.cam)

\* Handling request k, and the load it leads to, opens the camera as it is.
Renews(k, c) ==
    /\ calls[k] # None /\ calls[k].sel = c
    /\ Asked(k) \/ (Wrote(k) /\ calls[k].op \in ZoneOps) \/ (Waits(k) /\ Now(c) \in calls[k].rows)

\* Some answer will be handled after one that was read later: astray from then on.
Disordered == \E k \in Slots : Waits(k) /\ calls[k].overtaken

\* Requests know what they are about, and the answers that wait the order of their reads.
CallOK(k) ==
    LET c == calls[k] IN
    /\ ~Waits(k) => c.newer = 0 /\ ~c.overtaken
    /\ Waits(k) /\ c.ok => \A r, s \in c.rows : r.cam <= lastCam /\ (r.cam = s.cam => r = s)
    /\ c.op = "load" /\ c.stage # "done" => c.ok
    /\ c.op \in ZoneOps => c.sel = c.cam
    /\ c.op \in {"patch", "drop"} /\ c.stage = "open" =>
          c.zone <= lastZone /\ \A z \in zones : z.id = c.zone => z.cam = c.cam

TrafficInv ==
    /\ calls[Other] # None => calls[Other].op # "load"
    /\ \A k \in Slots : calls[k] # None => CallOK(k)
    /\ \A y, z \in zones : y.id <= lastZone /\ (y.id = z.id => y = z)
    /\ \A c \in cams : c <= lastCam
    /\ \A r \in list : r.cam <= lastCam
    /\ selected # None => selected.cam <= lastCam

\* The list is that of the tables or will be loaded from them once more.
ListInv ==
    \/ \E k \in Slots : Asked(k) \/ Wrote(k)
    \/ \E k \in Slots : Waits(k) /\ calls[k].newer = 0 /\ calls[k].rows = Rows(cams)
    \/ list = Rows(cams) /\ \A k \in Slots : ~Waits(k)

\* Whatever row the page shows or may come to show is as it is, or will be renewed.
RowsInv ==
    /\ \A r \in list : Stale(r) => \E k \in Slots : Renews(k, r.cam)
    /\ selected # None /\ Stale(selected) => \E k \in Slots : Renews(k, selected.cam)
    /\ \A k \in Slots : Waits(k) =>
          /\ calls[k].ok
          /\ \A r \in calls[k].rows : Stale(r) =>
                \E i \in Slots : /\ Renews(i, r.cam)
                                 /\ Waits(i) => calls[i].newer < calls[k].newer

\* The panel of a camera that is deleted will be closed.
PanelInv ==
    /\ \A k \in Slots : calls[k] # None /\ calls[k].op = "remove" =>
          (selected # None /\ selected.cam = calls[k].cam => calls[k].sel = calls[k].cam)
    /\ selected # None /\ selected.cam \notin cams =>
          \E k \in Slots : /\ Wrote(k) /\ calls[k].op = "remove"
                           /\ calls[k].cam = selected.cam /\ calls[k].sel = selected.cam

OrderInv ==
    \A j, k \in Slots : j # k /\ Waits(j) /\ Waits(k) => calls[j].newer # calls[k].newer

PageInv == ~astray /\ ~Disordered => ListInv /\ RowsInv /\ PanelInv /\ OrderInv

LEMMA RowsAre ==
    ASSUME NEW S
    PROVE  /\ \A c \in S : Now(c) \in Rows(S)
           /\ \A r \in Rows(S) : r.cam \in S /\ r = Now(r.cam)
BY DEF Rows, Now

LEMMA LoadIs ==
    ASSUME IInv, NEW s \in 0..MaxCameras
    PROVE  LET c == Load(s)
           IN  /\ c # None /\ c.op = "load" /\ c.stage = "sent" /\ c.sel = s /\ c.ok
               /\ c.newer = 0 /\ ~c.overtaken /\ c.rows = {}
BY LoadIn, ConfigAssumption, NoneAssumption DEF Load, Call

LEMMA AnswerIs ==
    ASSUME IInv, NEW k \in Requests, calls[k] # None, NEW ok \in BOOLEAN, Answer(k, ok)
    PROVE  /\ calls'[k] # None /\ calls'[k].stage = "done" /\ calls'[k].ok = ok
           /\ calls'[k].op = calls[k].op /\ calls'[k].cam = calls[k].cam
           /\ calls'[k].sel = calls[k].sel /\ calls'[k].zone = calls[k].zone
           /\ calls'[k].newer = calls[k].newer /\ calls'[k].overtaken = calls[k].overtaken
           /\ calls'[k].rows = calls[k].rows /\ calls'[k].from = calls[k].from
           /\ \A j \in Requests \ {k} : calls'[j] = calls[j]
<1>1. calls \in Traffic /\ calls[k] \in CallType
  BY Parts DEF IInv, Traffic
<1>. DEFINE d == [calls[k] EXCEPT !.stage = "done", !.ok = ok]
<1>2. calls' = [calls EXCEPT ![k] = d]
  BY <1>1 DEF Answer, Traffic
<1>3. /\ d \in CallType /\ d.stage = "done" /\ d.ok = ok /\ d.op = calls[k].op /\ d.cam = calls[k].cam
      /\ d.sel = calls[k].sel /\ d.zone = calls[k].zone /\ d.newer = calls[k].newer
      /\ d.overtaken = calls[k].overtaken /\ d.rows = calls[k].rows /\ d.from = calls[k].from
  BY <1>1 DEF CallType
<1>. HIDE DEF d
<1>. QED  BY <1>1, <1>2, <1>3, NoneAssumption DEF Traffic

\* What the handlers do to the request they handle, and that they leave the others alone.
LEMMA OpenIs ==
    ASSUME IInv, NEW k \in Requests, Open(k)
    PROVE  /\ calls[k] # None /\ calls[k].stage = "sent" /\ calls'[k] # None
           /\ calls'[k].op = calls[k].op /\ calls'[k].cam = calls[k].cam
           /\ calls'[k].sel = calls[k].sel /\ calls'[k].zone = calls[k].zone
           /\ calls'[k].newer = calls[k].newer /\ calls'[k].overtaken = calls[k].overtaken
           /\ calls'[k].from = calls[k].from
           /\ calls[k].op = "load" =>
                /\ calls'[k].stage = "done" /\ calls'[k].rows = Rows(cams) /\ calls'[k].ok = calls[k].ok
                /\ \A j \in Requests \ {k} : calls'[j] = OneNewer(calls[j])
           /\ calls[k].op # "load" =>
                /\ calls'[k].stage = (IF Found(calls[k]) THEN "open" ELSE "done")
                /\ calls'[k].ok = Found(calls[k])
                /\ \A j \in Requests \ {k} : calls'[j] = calls[j]
<1>1. calls \in Traffic /\ calls[k] # None /\ calls[k].stage = "sent" /\ calls[k] \in CallType
  BY Parts DEF IInv, Traffic, Open
<1>2. CASE calls[k].op = "load"
  <2>. DEFINE d == [calls[k] EXCEPT !.stage = "done", !.rows = Rows(cams)]
  <2>1. /\ d.op = calls[k].op /\ d.cam = calls[k].cam /\ d.sel = calls[k].sel /\ d.zone = calls[k].zone
        /\ d.newer = calls[k].newer /\ d.overtaken = calls[k].overtaken
        /\ d.stage = "done" /\ d.rows = Rows(cams) /\ d.ok = calls[k].ok /\ d.from = calls[k].from
    BY <1>1 DEF CallType
  <2>2. d \in CallType
    <3>1. Rows(cams) \subseteq Row
      BY RowsType DEF IInv, TypeOK
    <3>. QED  BY <1>1, <3>1 DEF CallType
  <2>3. calls' = [j \in Requests |-> IF j = k THEN d ELSE OneNewer(calls[j])]
    BY <1>1, <1>2 DEF Open, Traffic
  <2>. HIDE DEF d
  <2>. QED  BY <1>1, <1>2, <2>1, <2>2, <2>3, NoneAssumption
<1>3. CASE calls[k].op # "load"
  <2>. DEFINE st == IF Found(calls[k]) THEN "open" ELSE "done"
              rs == IF Found(calls[k]) /\ calls[k].op = "remove" THEN Rows({calls[k].cam}) ELSE {}
              d  == [calls[k] EXCEPT !.stage = st, !.ok = Found(calls[k]), !.rows = rs]
  <2>1. Found(calls[k]) \in BOOLEAN
    BY DEF Found
  <2>2. rs \subseteq Row
    <3>1. Found(calls[k]) /\ calls[k].op = "remove" => calls[k].cam \in CameraIds
      BY DEF Found, IInv, TypeOK
    <3>. QED  BY <3>1, RowsType DEF IInv, TypeOK
  <2>3. calls' = [calls EXCEPT ![k] = d]
    BY <1>1, <1>3 DEF Open, Traffic
  <2>. HIDE DEF rs
  <2>4. /\ d.op = calls[k].op /\ d.cam = calls[k].cam /\ d.sel = calls[k].sel /\ d.zone = calls[k].zone
        /\ d.newer = calls[k].newer /\ d.overtaken = calls[k].overtaken
        /\ d.stage = st /\ d.ok = Found(calls[k]) /\ d.from = calls[k].from
    BY <1>1 DEF CallType
  <2>5. d \in CallType
    BY <1>1, <2>1, <2>2 DEF CallType
  <2>. HIDE DEF d
  <2>. QED  BY <1>1, <1>3, <2>3, <2>4, <2>5, NoneAssumption DEF Traffic
<1>. QED  BY <1>2, <1>3

\* Waiting a turn longer changes nothing else of an answer.
LEMMA OneNewerIs ==
    ASSUME IInv, NEW k \in Requests, NEW d, d = OneNewer(calls[k])
    PROVE  /\ calls[k] = None <=> d = None
           /\ calls[k] # None =>
                /\ d.op = calls[k].op /\ d.cam = calls[k].cam /\ d.sel = calls[k].sel
                /\ d.zone = calls[k].zone /\ d.stage = calls[k].stage /\ d.ok = calls[k].ok
                /\ d.rows = calls[k].rows /\ d.overtaken = calls[k].overtaken
                /\ ~Waits(k) => d = calls[k]
                /\ Waits(k) /\ ~calls[k].overtaken => d.newer = calls[k].newer + 1
<1>1. calls[k] \in CallType \cup {None}
  BY Parts DEF IInv, Traffic
<1>2. CASE calls[k] # None /\ Waits(k) /\ ~calls[k].overtaken
  <2>1. d = [calls[k] EXCEPT !.newer = @ + 1]
    BY <1>2 DEF OneNewer, Waits
  <2>2. calls[k] \in CallType /\ d \in CallType
    BY <1>1, <1>2, <2>1 DEF CallType
  <2>. QED  BY <1>2, <2>1, <2>2, NoneAssumption DEF CallType
<1>3. CASE ~(calls[k] # None /\ Waits(k) /\ ~calls[k].overtaken)
  <2>1. d = calls[k]
    BY <1>3 DEF OneNewer, Waits
  <2>. QED  BY <1>3, <2>1
<1>. QED  BY <1>2, <1>3

\* Handling an answer of a load may overtake the ones read before it.
LEMMA LoadedIs ==
    ASSUME IInv, NEW k \in Slots, Loaded(k)
    PROVE  /\ Waits(k) /\ calls'[k] = None
           /\ \A j \in Requests \ {k} :
                 \/ calls'[j] = calls[j]
                 \/ /\ calls[j] # None /\ calls[j].newer > calls[k].newer /\ calls[k].ok
                    /\ calls'[j] # None /\ calls'[j].overtaken
                    /\ calls'[j].op = calls[j].op /\ calls'[j].stage = calls[j].stage
                    /\ calls'[j].rows = calls[j].rows /\ calls'[j].ok = calls[j].ok
           /\ \A j \in Requests \ {k} :
                 calls[j] # None /\ calls[j].newer > calls[k].newer /\ calls[k].ok =>
                     calls'[j].overtaken /\ calls'[j].op = calls[j].op
                     /\ calls'[j].stage = calls[j].stage /\ calls'[j] # None
<1>1. calls \in Traffic /\ calls[k] # None
  BY Parts DEF IInv, Loaded, Done
<1>. DEFINE Late(j) == calls[j] # None /\ calls[j].newer > calls[k].newer /\ calls[k].ok
            d(j)    == [calls[j] EXCEPT !.newer = 0, !.overtaken = TRUE]
<1>2. calls' = [j \in Requests |-> IF j = k THEN None ELSE IF Late(j) THEN d(j) ELSE calls[j]]
  BY <1>1 DEF Loaded, Traffic
<1>3. ASSUME NEW j \in Requests, calls[j] # None
      PROVE  /\ d(j) # None /\ d(j).overtaken /\ d(j).op = calls[j].op /\ d(j).stage = calls[j].stage
             /\ d(j).rows = calls[j].rows /\ d(j).ok = calls[j].ok
  <2>1. calls[j] \in CallType
    BY <1>1, <1>3 DEF Traffic
  <2>2. d(j) \in CallType
    BY <2>1 DEF CallType
  <2>. QED  BY <2>1, <2>2, NoneAssumption DEF CallType
<1>. HIDE DEF d
<1>4. \A j \in Requests \ {k} : calls'[j] = IF Late(j) THEN d(j) ELSE calls[j]
  BY <1>2
<1>5. calls'[k] = None /\ Waits(k)
  BY <1>2 DEF Requests, Loaded, Done, Waits
<1>. QED  BY <1>3, <1>4, <1>5

\* A request of the page is about the camera that is open, and not of a load.
LEMMA SentIs ==
    ASSUME IInv, NEW k \in Requests,
           \/ k \in Slots /\ (Save(k) \/ PageCall(k))
           \/ k = Other /\ OtherCall
    PROVE  \E c \in CallType :
              /\ Send(k, c) /\ c.op # "load" /\ c.stage = "sent" /\ c.newer = 0 /\ ~c.overtaken
              /\ k \in Slots => /\ c.op \in ZoneOps => c.sel = c.cam
                                /\ c.op = "remove" => c.sel = Sel
<1>. DEFINE Good(c) ==
              /\ Send(k, c) /\ c.op # "load" /\ c.stage = "sent" /\ c.newer = 0 /\ ~c.overtaken
              /\ k \in Slots => /\ c.op \in ZoneOps => c.sel = c.cam
                                /\ c.op = "remove" => c.sel = Sel
<1>1. /\ Sel \in 0..MaxCameras /\ 0 \in 0..MaxCameras /\ 0 \in 0..MaxZones
      /\ \A x \in CameraIds : x \in 0..MaxCameras
      /\ \A z \in Zone : z.id \in 0..MaxZones /\ z.cam \in 0..MaxCameras
  BY SelType, ConfigAssumption DEF IInv, ConfigAssumption, CameraIds, Zone, ZoneIds
<1>2. \A op \in Ops, x \in 0..MaxCameras, z \in 0..MaxZones, s \in 0..MaxCameras :
          LET c == Call(op, x, z, s)
          IN  /\ c \in CallType /\ c.op = op /\ c.cam = x /\ c.sel = s /\ c.stage = "sent"
              /\ c.newer = 0 /\ ~c.overtaken
  <2>. SUFFICES ASSUME NEW op \in Ops, NEW x \in 0..MaxCameras, NEW z \in 0..MaxZones,
                       NEW s \in 0..MaxCameras
                PROVE  LET c == Call(op, x, z, s)
                       IN  /\ c \in CallType /\ c.op = op /\ c.cam = x /\ c.sel = s
                           /\ c.stage = "sent" /\ c.newer = 0 /\ ~c.overtaken
    OBVIOUS
  <2>1. Call(op, x, z, s) \in CallType
    BY CallIn, ConfigAssumption
  <2>. QED  BY <2>1 DEF Call
<1>3. ASSUME NEW op \in Ops \ {"load"}, NEW x \in 0..MaxCameras, NEW z \in 0..MaxZones,
             NEW s \in 0..MaxCameras, Send(k, Call(op, x, z, s)),
             k \in Slots => (op \in ZoneOps => s = x) /\ (op = "remove" => s = Sel)
      PROVE  \E c \in CallType : Good(c)
  <2>1. LET c == Call(op, x, z, s)
        IN  /\ c \in CallType /\ c.op = op /\ c.cam = x /\ c.sel = s /\ c.stage = "sent"
            /\ c.newer = 0 /\ ~c.overtaken
    BY <1>2
  <2>2. Good(Call(op, x, z, s))
    BY <1>3, <2>1
  <2>. QED  BY <2>1, <2>2
<1>4. CASE k \in Slots /\ Save(k)
  <2>. DEFINE op == IF draft.zone = 0 THEN "add" ELSE "patch"
              sh == IF draft.zone = 0 THEN "drawn" ELSE "redrawn"
              b  == Call(op, Sel, draft.zone, Sel)
              c  == [b EXCEPT !.shape = sh, !.from = draft.cam, !.early = due]
  <2>1. draft \in Drafts /\ due \in BOOLEAN
    BY <1>4, Parts DEF IInv, Save, PageOK
  <2>2. /\ b \in CallType /\ b.op = op /\ b.cam = Sel /\ b.sel = Sel /\ b.stage = "sent"
        /\ b.newer = 0 /\ ~b.overtaken
    BY <1>1, <1>2, <2>1 DEF Drafts, Ops
  <2>3. Send(k, c) /\ op \in {"add", "patch"} /\ sh \in Shapes /\ draft.cam \in 0..MaxCameras
    BY <1>1, <1>4, <2>1 DEF Save, Drafts, Shapes
  <2>. HIDE DEF b, op, sh
  <2>4. /\ c \in CallType /\ c.op = op /\ c.cam = Sel /\ c.sel = Sel /\ c.stage = "sent"
        /\ c.newer = 0 /\ ~c.overtaken
    BY <2>1, <2>2, <2>3 DEF CallType
  <2>. HIDE DEF c
  <2>. QED  BY <2>3, <2>4
<1>5. CASE k \in Slots /\ PageCall(k)
  <2>1. ASSUME NEW z \in selected.zones, selected # None, NEW f \in 0..MaxCameras,
               Send(k, [Call("drop", Sel, z.id, Sel) EXCEPT !.from = f])
        PROVE  \E c \in CallType : Good(c)
    <3>. DEFINE b == Call("drop", Sel, z.id, Sel)
                c == [b EXCEPT !.from = f]
    <3>1. z \in Zone
      BY <2>1 DEF IInv, TypeOK, Row
    <3>2. /\ b \in CallType /\ b.op = "drop" /\ b.cam = Sel /\ b.sel = Sel /\ b.stage = "sent"
          /\ b.newer = 0 /\ ~b.overtaken
      BY <1>1, <1>2, <3>1 DEF Ops
    <3>3. Send(k, c)
      BY <2>1
    <3>. HIDE DEF b
    <3>4. /\ c \in CallType /\ c.op = "drop" /\ c.cam = Sel /\ c.sel = Sel /\ c.stage = "sent"
          /\ c.newer = 0 /\ ~c.overtaken
      BY <3>2 DEF CallType
    <3>. HIDE DEF c
    <3>. QED  BY <3>3, <3>4
  <2>2. ASSUME Send(k, Call("create", 0, 0, Sel)) PROVE \E c \in CallType : Good(c)
    BY <1>1, <1>3, <2>2 DEF Ops, ZoneOps
  <2>3. ASSUME NEW r \in list, Send(k, Call("remove", r.cam, 0, Sel)) PROVE \E c \in CallType : Good(c)
    <3>1. r.cam \in 0..MaxCameras
      BY <1>1 DEF IInv, TypeOK, Row
    <3>. QED  BY <1>1, <1>3, <2>3, <3>1 DEF Ops, ZoneOps
  <2>4. selected # None => \A z \in selected.zones :
            (IF draft # None /\ draft.zone = z.id THEN 0 ELSE Sel) \in 0..MaxCameras
    BY <1>1
  <2>. QED  BY <1>5, <2>1, <2>2, <2>3, <2>4 DEF PageCall
<1>6. CASE k = Other /\ OtherCall
  <2>1. k \notin Slots
    BY <1>6, ConfigAssumption DEF ConfigAssumption
  <2>2. ASSUME NEW op \in {"remove", "activate", "add"}, NEW x \in cams, Send(Other, Call(op, x, 0, 0))
        PROVE  \E c \in CallType : Good(c)
    <3>1. x \in 0..MaxCameras
      BY <1>1 DEF IInv, TypeOK
    <3>. QED  BY <1>1, <1>3, <1>6, <2>1, <2>2, <3>1 DEF Ops
  <2>3. ASSUME NEW z \in zones, Send(Other, Call("drop", z.cam, z.id, 0))
        PROVE  \E c \in CallType : Good(c)
    BY <1>1, <1>3, <1>6, <2>1, <2>3 DEF Ops, IInv, TypeOK
  <2>. QED  BY <1>6, <2>2, <2>3 DEF OtherCall
<1>. QED  BY <1>4, <1>5, <1>6

\* What a commit does to the tables, and that a change of them is told to the page.
LEMMA CommitIs ==
    ASSUME IInv, TrafficInv, NEW k \in Requests, Commit(k)
    PROVE  /\ calls[k] # None /\ calls[k].stage = "open" /\ calls[k].op # "load"
           /\ \E ok \in BOOLEAN :
                 /\ Answer(k, ok)
                 /\ ~ok => cams' = cams /\ zones' = zones
                 /\ k \in Slots => \A c \in cams' : c <= lastCam =>
                       \/ ZonesOf(c)' = ZonesOf(c)
                       \/ ok /\ calls[k].op \in ZoneOps /\ c = calls[k].cam
                 /\ \A c \in cams' : c <= lastCam => c \in cams
                 /\ \A c \in cams \ cams' : ok /\ calls[k].op = "remove" /\ c = calls[k].cam
<1>. DEFINE c == calls[k]
<1>1. c # None /\ c.stage = "open" /\ c.op # "load" /\ c \in CallType
  BY DEF Commit, IInv, TypeOK, Requests
<1>2. lastCam \in Nat /\ cams \subseteq Nat
  BY ConfigAssumption DEF IInv, TypeOK, CameraIds, ConfigAssumption
<1>3. \A y \in zones : [y EXCEPT !.shape = c.shape].cam = y.cam /\ [y EXCEPT !.shape = c.shape].id = y.id
  BY DEF IInv, TypeOK, Zone
<1>. DEFINE Fact(ok) ==
                 /\ Answer(k, ok)
                 /\ ~ok => cams' = cams /\ zones' = zones
                 /\ k \in Slots => \A d \in cams' : d <= lastCam =>
                       \/ ZonesOf(d)' = ZonesOf(d)
                       \/ ok /\ calls[k].op \in ZoneOps /\ d = calls[k].cam
                 /\ \A d \in cams' : d <= lastCam => d \in cams
                 /\ \A d \in cams \ cams' : ok /\ calls[k].op = "remove" /\ d = calls[k].cam
<1>. SUFFICES \E ok \in BOOLEAN : Fact(ok)
  BY <1>1
<1>4. CASE c.op = "create" /\ CreateCamera(k)
  <2>1. zones' = zones /\ Answer(k, TRUE) /\ cams \subseteq cams'
        /\ \A d \in cams' : d <= lastCam => d \in cams
    <3>1. /\ zones' = zones /\ Answer(k, TRUE) /\ lastCam' = lastCam + 1
          /\ cams' = cams \cup {lastCam'}
      BY <1>4 DEF CreateCamera
    <3>2. \A d \in cams' : d \in cams \/ d = lastCam + 1
      BY <3>1
    <3>3. ~(lastCam + 1 <= lastCam)
      BY <1>2
    <3>. QED  BY <3>1, <3>2, <3>3
  <2>2. \A d : ZonesOf(d)' = ZonesOf(d)
    BY <2>1 DEF ZonesOf
  <2>3. Fact(TRUE)
    BY <2>1, <2>2
  <2>. QED  BY <2>3
<1>5. CASE c.op = "remove" /\ DeleteCamera(k)
  <2>1. cams' = cams \ {c.cam} /\ zones' = zones \ ZonesOf(c.cam) /\ Answer(k, TRUE)
    BY <1>5 DEF DeleteCamera
  <2>2. \A d : d # c.cam => ZonesOf(d)' = ZonesOf(d)
    BY <2>1 DEF ZonesOf
  <2>3. Fact(TRUE)
    BY <1>5, <2>1, <2>2
  <2>. QED  BY <2>3
<1>6. CASE c.op = "activate" /\ ActivateCamera(k)
  <2>. DEFINE there == c.cam \in cams
  <2>1. cams' = cams /\ zones' = zones /\ Answer(k, there)
    BY <1>6 DEF ActivateCamera
  <2>2. \A d : ZonesOf(d)' = ZonesOf(d)
    BY <2>1 DEF ZonesOf
  <2>3. there \in BOOLEAN
    OBVIOUS
  <2>. HIDE DEF there
  <2>4. Fact(there)
    BY <2>1, <2>2
  <2>. QED  BY <2>3, <2>4
<1>7. CASE c.op = "add" /\ AddZone(k)
  <2>. DEFINE there == c.cam \in cams
  <2>1. cams' = cams /\ Answer(k, there)
        /\ zones' = IF c.cam \in cams
                    THEN zones \cup {[id |-> lastZone', cam |-> c.cam, shape |-> "drawn"]} ELSE zones
    BY <1>7 DEF AddZone
  <2>2. \A d : d # c.cam => ZonesOf(d)' = ZonesOf(d)
    BY <2>1 DEF ZonesOf
  <2>3. ~there => zones' = zones
    BY <2>1
  <2>4. there \in BOOLEAN /\ c.op \in ZoneOps
    BY <1>7 DEF ZoneOps
  <2>5. there \/ \A d : ZonesOf(d)' = ZonesOf(d)
    BY <2>3 DEF ZonesOf
  <2>. HIDE DEF there
  <2>6. Fact(there)
    BY <2>1, <2>2, <2>3, <2>4, <2>5
  <2>. QED  BY <2>4, <2>6
<1>8. CASE c.op = "patch" /\ UpdateZone(k)
  <2>. DEFINE there == \E z \in zones : z.id = c.zone
  <2>1. cams' = cams /\ Answer(k, there)
        /\ zones' = {IF z.id = c.zone THEN [z EXCEPT !.shape = c.shape] ELSE z : z \in zones}
    BY <1>8 DEF UpdateZone
  <2>2. ~there => zones' = zones
    BY <2>1
  <2>3. ASSUME k \in Slots, NEW d, d # c.cam PROVE ZonesOf(d)' = ZonesOf(d)
    <3>1. \A z \in zones : z.id = c.zone => z.cam # d
      BY <1>1, <1>8, <2>3 DEF TrafficInv, CallOK
    <3>4. \A z \in zones' : \E y \in zones :
              z = (IF y.id = c.zone THEN [y EXCEPT !.shape = c.shape] ELSE y) /\ z.cam = y.cam
      BY <1>3, <2>1
    <3>2. \A z \in zones' : z.cam = d => z \in zones
      BY <3>1, <3>4
    <3>3. \A z \in zones : z.cam = d => z \in zones'
      BY <2>1, <3>1
    <3>. QED  BY <3>2, <3>3 DEF ZonesOf
  <2>4. ~there => \A d : ZonesOf(d)' = ZonesOf(d)
    BY <2>2 DEF ZonesOf
  <2>. HIDE DEF there
  <2>5. there \in BOOLEAN /\ c.op \in ZoneOps
    BY <1>8 DEF there, ZoneOps
  <2>6. Fact(there)
    BY <2>1, <2>2, <2>3, <2>4, <2>5
  <2>. QED  BY <2>5, <2>6
<1>9. CASE c.op = "drop" /\ DeleteZone(k)
  <2>1. cams' = cams /\ Answer(k, TRUE) /\ zones' = {z \in zones : z.id # c.zone}
    BY <1>9 DEF DeleteZone
  <2>2. ASSUME k \in Slots, NEW d, d # c.cam PROVE ZonesOf(d)' = ZonesOf(d)
    <3>1. \A z \in zones : z.id = c.zone => z.cam # d
      BY <1>1, <1>9, <2>2 DEF TrafficInv, CallOK
    <3>. QED  BY <2>1, <3>1 DEF ZonesOf
  <2>3. c.op \in ZoneOps
    BY <1>9 DEF ZoneOps
  <2>4. Fact(TRUE)
    BY <2>1, <2>2, <2>3
  <2>. QED  BY <2>4
<1>. QED  BY <1>1, <1>4, <1>5, <1>6, <1>7, <1>8, <1>9 DEF Commit

\* The sequences of ids only rise, and a zone keeps its camera.
LEMMA CommitIds ==
    ASSUME IInv, TrafficInv, NEW k \in Requests, Commit(k)
    PROVE  /\ lastCam' \in Nat /\ lastZone' \in Nat /\ lastCam <= lastCam' /\ lastZone <= lastZone'
           /\ \A c \in cams' : c <= lastCam'
           /\ \A y, z \in zones' : y.id <= lastZone' /\ (y.id = z.id => y = z)
           /\ \A z \in zones' : z.id <= lastZone => \E y \in zones : y.id = z.id /\ y.cam = z.cam
<1>. DEFINE c == calls[k]
<1>1. lastCam \in Nat /\ lastZone \in Nat /\ cams \subseteq Nat /\ c \in CallType
  BY ConfigAssumption DEF IInv, TypeOK, CameraIds, ConfigAssumption, Commit, Requests
<1>2. \A y \in zones : /\ [y EXCEPT !.shape = c.shape].cam = y.cam /\ [y EXCEPT !.shape = c.shape].id = y.id
                       /\ y.id \in Nat
  BY DEF IInv, TypeOK, Zone, ZoneIds
<1>3. /\ \A d \in cams : d <= lastCam
      /\ \A y, z \in zones : y.id <= lastZone /\ (y.id = z.id => y = z)
  BY DEF TrafficInv
<1>4. CASE CreateCamera(k)
  BY <1>1, <1>3, <1>4 DEF CreateCamera
<1>5. CASE DeleteCamera(k)
  BY <1>1, <1>3, <1>5 DEF DeleteCamera
<1>6. CASE ActivateCamera(k)
  BY <1>1, <1>3, <1>6 DEF ActivateCamera
<1>7. CASE AddZone(k)
  <2>. DEFINE new == [id |-> lastZone', cam |-> c.cam, shape |-> "drawn"]
  <2>1. /\ lastZone' = lastZone + 1 /\ zones' \subseteq zones \cup {new} /\ new.id = lastZone + 1
        /\ UNCHANGED <<cams, lastCam>>
    BY <1>7 DEF AddZone
  <2>2. \A z \in zones : z.id <= lastZone /\ z.id \in Nat
    BY <1>2, <1>3
  <2>. HIDE DEF new
  <2>. QED  BY <1>1, <1>3, <2>1, <2>2
<1>8. CASE UpdateZone(k)
  <2>1. /\ UNCHANGED <<cams, lastCam, lastZone>>
        /\ zones' = {IF z.id = c.zone THEN [z EXCEPT !.shape = c.shape] ELSE z : z \in zones}
    BY <1>8 DEF UpdateZone
  <2>2. \A z \in zones' : \E y \in zones : /\ y.id = z.id /\ y.cam = z.cam
                                          /\ z = IF y.id = c.zone THEN [y EXCEPT !.shape = c.shape] ELSE y
    BY <1>2, <2>1
  <2>3. \A y, z \in zones' : y.id = z.id => y = z
    BY <1>3, <2>2
  <2>. QED  BY <1>1, <1>3, <2>1, <2>2, <2>3
<1>9. CASE DeleteZone(k)
  BY <1>1, <1>3, <1>9 DEF DeleteZone
<1>. QED  BY <1>4, <1>5, <1>6, <1>7, <1>8, <1>9 DEF Commit

\* A write is answered: it is followed by a load, which will open the camera of a zone.
LEMMA ReplyIs ==
    ASSUME IInv, NEW k \in Slots, Saved(k) \/ Dropped(k) \/ Changed(k)
    PROVE  /\ calls[k] # None /\ calls[k].stage = "done" /\ calls[k].op # "load"
           /\ \A j \in Requests \ {k} : calls'[j] = calls[j]
           /\ ~calls[k].ok => calls'[k] = None
           /\ calls[k].ok => /\ calls'[k] # None /\ calls'[k].op = "load" /\ calls'[k].stage = "sent"
                             /\ calls'[k].newer = 0 /\ ~calls'[k].overtaken /\ calls'[k].ok
                             /\ calls'[k].rows = {}
                             /\ calls[k].op \in ZoneOps => calls'[k].sel = calls[k].sel
           /\ UNCHANGED <<tables, list, astray>>
           /\ \/ selected' = selected
              \/ selected' = None /\ calls[k].op = "remove"
           /\ calls[k].ok /\ calls[k].op = "remove" /\ calls[k].sel = calls[k].cam => selected' = None
<1>1. calls \in Traffic /\ calls[k] # None /\ calls[k] \in CallType
  BY Parts DEF IInv, Traffic, Requests, Saved, Dropped, Changed, Done
<1>. DEFINE s == IF Changed(k) THEN 0 ELSE calls[k].sel
<1>2. calls[k].sel \in 0..MaxCameras /\ 0 \in 0..MaxCameras
  BY <1>1, ConfigAssumption DEF CallType, ConfigAssumption
<1>3. \A x \in 0..MaxCameras :
          LET c == Load(x) IN /\ c # None /\ c.op = "load" /\ c.stage = "sent" /\ c.sel = x
                              /\ c.newer = 0 /\ ~c.overtaken /\ c.ok /\ c.rows = {}
  BY LoadIs
<1>4. CASE Saved(k) \/ Dropped(k)
  <2>1. calls' = [calls EXCEPT ![k] = IF calls[k].ok THEN Load(calls[k].sel) ELSE None]
    BY <1>4 DEF Saved, Dropped, Reload
  <2>2. /\ calls'[k] = IF calls[k].ok THEN Load(calls[k].sel) ELSE None
        /\ \A j \in Requests \ {k} : calls'[j] = calls[j]
    BY <1>1, <2>1 DEF Traffic, Requests
  <2>3. calls[k].op \in ZoneOps /\ calls[k].stage = "done" /\ UNCHANGED <<tables, list, selected, astray>>
    BY <1>4 DEF Saved, Dropped, Done, ZoneOps
  <2>. QED  BY <1>1, <1>2, <1>3, <2>2, <2>3 DEF ZoneOps
<1>5. CASE Changed(k)
  <2>1. calls' = [calls EXCEPT ![k] = IF calls[k].ok THEN Load(0) ELSE None]
    BY <1>5 DEF Changed, Reload
  <2>2. /\ calls'[k] = IF calls[k].ok THEN Load(0) ELSE None
        /\ \A j \in Requests \ {k} : calls'[j] = calls[j]
    BY <1>1, <2>1 DEF Traffic, Requests
  <2>3. /\ calls[k].op \in {"create", "remove"} /\ calls[k].stage = "done"
        /\ UNCHANGED <<tables, list, astray>>
        /\ IF calls[k].ok /\ calls[k].op = "remove" /\ calls[k].sel = calls[k].cam
           THEN selected' = None ELSE selected' = selected
    BY <1>5, ShowNone DEF Changed, Done
  <2>. QED  BY <1>1, <1>2, <1>3, <2>2, <2>3 DEF ZoneOps
<1>. QED  BY <1>4, <1>5

\* What an answer of a load makes the page show.
LEMMA ShownIs ==
    ASSUME IInv, NEW k \in Slots, Loaded(k)
    PROVE  /\ list' = IF calls[k].ok THEN calls[k].rows ELSE list
           /\ calls[k].sel = 0 => selected' = selected
           /\ calls[k].sel # 0 => \/ selected' = None
                                  \/ /\ calls[k].ok /\ selected' \in calls[k].rows
                                     /\ selected'.cam = calls[k].sel
           /\ UNCHANGED tables
<1>. DEFINE c == calls[k]
            found == {r \in c.rows : c.ok /\ r.cam = c.sel}
            s == IF found = {} THEN None ELSE CHOOSE r \in found : TRUE
<1>1. c.sel # 0 => selected' = s
  BY DEF Loaded, ShowOnAnswer
<1>2. s = None \/ s \in found
  OBVIOUS
<1>. QED  BY <1>1, <1>2 DEF Loaded

TablesGrow ==
    /\ lastCam' \in Nat /\ lastZone' \in Nat /\ lastCam <= lastCam' /\ lastZone <= lastZone'
    /\ \A c \in cams' : c <= lastCam'
    /\ \A y, z \in zones' : y.id <= lastZone' /\ (y.id = z.id => y = z)
    /\ \A z \in zones' : z.id <= lastZone => \E y \in zones : y.id = z.id /\ y.cam = z.cam

LEMMA SameTablesGrow == ASSUME IInv, TrafficInv, UNCHANGED tables PROVE TablesGrow
BY ConfigAssumption DEF IInv, TypeOK, CameraIds, ConfigAssumption, TrafficInv, TablesGrow, tables

LEMMA TrafficFrom ==
    ASSUME IInv, TrafficInv, IInv', TablesGrow,
           \A r \in list' : r \in list \/ r.cam <= lastCam,
           selected' # None => selected' = selected \/ selected'.cam <= lastCam,
           \A j \in Requests : \/ calls'[j] = calls[j]
                               \/ calls'[j] = None
                               \/ j = Other /\ calls'[j].op # "load"
                               \/ j \in Slots /\ CallOK(j)'
    PROVE  TrafficInv'
<1>1. /\ lastCam \in Nat /\ lastZone \in Nat /\ \A r \in Row : r.cam \in Nat
      /\ list \subseteq Row /\ list' \subseteq Row /\ selected \in Row \cup {None}
      /\ selected' \in Row \cup {None} /\ \A c \in CallType : c.zone \in Nat /\ c.rows \subseteq Row
      /\ \A z \in Zone : z.id \in Nat
      /\ zones' \subseteq Zone /\ calls \in Traffic
  BY ConfigAssumption, Parts DEF IInv, TypeOK, CameraIds, ZoneIds, Zone, Row, CallType, ConfigAssumption
<1>2. /\ lastCam' \in Nat /\ lastZone' \in Nat /\ lastCam <= lastCam' /\ lastZone <= lastZone'
      /\ \A z \in zones' : z.id <= lastZone => \E y \in zones : y.id = z.id /\ y.cam = z.cam
  BY DEF TablesGrow
<1>3. /\ \A c \in cams' : c <= lastCam'
      /\ \A y, z \in zones' : y.id <= lastZone' /\ (y.id = z.id => y = z)
  BY DEF TablesGrow
<1>4. \A r \in list' : r.cam <= lastCam'
  <2>1. \A r \in list' : r.cam <= lastCam /\ r.cam \in Nat
    BY <1>1 DEF TrafficInv
  <2>. QED  BY <1>1, <1>2, <2>1
<1>5. selected' # None => selected'.cam <= lastCam'
  <2>1. selected' # None => selected'.cam <= lastCam /\ selected'.cam \in Nat
    BY <1>1 DEF TrafficInv
  <2>. QED  BY <1>1, <1>2, <2>1
<1>6. calls'[Other] # None => calls'[Other].op # "load"
  BY ConfigAssumption DEF ConfigAssumption, Requests, TrafficInv
<1>7. ASSUME NEW k \in Slots, calls'[k] # None PROVE CallOK(k)'
  <2>1. CASE calls'[k] = calls[k]
    <3>1. CallOK(k) /\ calls[k] \in CallType
      BY <1>1, <1>7, <2>1 DEF TrafficInv, Traffic, Requests
    <3>2. Waits(k)' = Waits(k)
      BY <2>1 DEF Waits
    <3>3. Waits(k) /\ calls[k].ok => \A r, s \in calls[k].rows : r.cam <= lastCam' /\ (r.cam = s.cam => r = s)
      <4>1. \A r \in calls[k].rows : r.cam \in Nat
        BY <1>1, <3>1
      <4>. QED  BY <1>1, <1>2, <3>1, <4>1 DEF CallOK
    <3>4. calls[k].op \in {"patch", "drop"} /\ calls[k].stage = "open" =>
              calls[k].zone <= lastZone' /\ \A z \in zones' : z.id = calls[k].zone => z.cam = calls[k].cam
      <4>1. calls[k].zone \in Nat
        BY <1>1, <3>1
      <4>. QED  BY <1>1, <1>2, <3>1, <4>1 DEF CallOK
    <3>. QED  BY <2>1, <3>1, <3>2, <3>3, <3>4 DEF CallOK
  <2>. QED  BY <1>7, <2>1, ConfigAssumption DEF ConfigAssumption, Requests
<1>. QED  BY <1>3, <1>4, <1>5, <1>6, <1>7 DEF TrafficInv

LEMMA TrafficStep == IInv /\ TrafficInv /\ [Next]_vars => TrafficInv'
<1>. SUFFICES ASSUME IInv, TrafficInv, [Next]_vars, IInv' PROVE TrafficInv'
  BY Inductive
<1>0. /\ Slots \subseteq Requests /\ Other \in Requests /\ Other \notin Slots
      /\ \A j \in Requests : j = Other \/ j \in Slots
      /\ selected # None => selected.cam <= lastCam
      /\ \A r \in list : r.cam <= lastCam
  BY ConfigAssumption DEF ConfigAssumption, Requests, TrafficInv
<1>1. ASSUME NEW k \in Requests, Open(k) PROVE TrafficInv'
  <2>1. UNCHANGED <<tables, list, selected>>
    BY <1>1 DEF Open, page
  <2>2. TablesGrow
    BY <2>1, SameTablesGrow
  <2>3. /\ calls[k] # None /\ calls[k].stage = "sent" /\ calls'[k] # None
        /\ calls'[k].op = calls[k].op /\ calls'[k].cam = calls[k].cam
        /\ calls'[k].sel = calls[k].sel /\ calls'[k].zone = calls[k].zone
        /\ calls'[k].newer = calls[k].newer /\ calls'[k].overtaken = calls[k].overtaken
    BY <1>1, OpenIs
  <2>4. calls[k].op # "load" =>
            /\ calls'[k].stage = (IF Found(calls[k]) THEN "open" ELSE "done")
            /\ \A j \in Requests \ {k} : calls'[j] = calls[j]
    BY <1>1, OpenIs
  <2>5. calls[k].op = "load" =>
            /\ calls'[k].stage = "done" /\ calls'[k].rows = Rows(cams)
            /\ \A j \in Requests \ {k} : calls'[j] = OneNewer(calls[j])
    BY <1>1, OpenIs
  <2>6. k \in Slots => CallOK(k)'
    <3>. SUFFICES ASSUME k \in Slots PROVE CallOK(k)'
      OBVIOUS
    <3>1. CallOK(k) /\ ~Waits(k)
      BY <2>3 DEF TrafficInv, Waits
    <3>2. CASE calls[k].op = "load"
      <4>1. \A r, s \in Rows(cams) : r.cam <= lastCam /\ (r.cam = s.cam => r = s)
        BY RowsAre DEF TrafficInv
      <4>2. Waits(k)'
        BY <2>3, <2>5, <3>2 DEF Waits
      <4>3. lastCam' = lastCam
        BY <2>1 DEF tables
      <4>. QED  BY <2>3, <2>5, <3>2, <4>1, <4>2, <4>3 DEF CallOK, ZoneOps
    <3>3. CASE calls[k].op # "load"
      <4>1. ~Waits(k)'
        BY <2>3, <3>3 DEF Waits
      <4>2. calls'[k].op \in {"patch", "drop"} /\ calls'[k].stage = "open" =>
                calls[k].zone <= lastZone /\ \A z \in zones : z.id = calls[k].zone => z.cam = calls[k].cam
        BY <2>3, <2>4, <3>3 DEF Found, TrafficInv
      <4>3. lastZone' = lastZone /\ zones' = zones
        BY <2>1 DEF tables
      <4>. QED  BY <2>3, <3>1, <3>3, <4>1, <4>2, <4>3 DEF CallOK
    <3>. QED  BY <3>2, <3>3
  <2>7. calls[k].op = "load" => k # Other
    BY <2>3 DEF TrafficInv
  <2>8. ASSUME NEW j \in Requests \ {k}, calls'[j] # None, calls'[j] # calls[j], j \in Slots
        PROVE  CallOK(j)'
    <3>1. calls'[j] = OneNewer(calls[j])
      BY <2>4, <2>5, <2>8
    <3>2. /\ calls[j] # None /\ calls'[j].op = calls[j].op /\ calls'[j].cam = calls[j].cam
          /\ calls'[j].sel = calls[j].sel /\ calls'[j].zone = calls[j].zone
          /\ calls'[j].stage = calls[j].stage /\ calls'[j].ok = calls[j].ok
          /\ calls'[j].rows = calls[j].rows /\ Waits(j)
      BY <2>8, <3>1, OneNewerIs
    <3>3. CallOK(j) /\ Waits(j)'
      BY <2>8, <3>2 DEF TrafficInv, Waits
    <3>4. UNCHANGED <<lastCam, lastZone, zones>>
      BY <2>1 DEF tables
    <3>. QED  BY <3>2, <3>3, <3>4 DEF CallOK
  <2>9. k = Other => calls'[k].op # "load"
    BY <2>3, <2>7
  <2>10. calls'[Other] = calls[Other] \/ calls'[Other] = None \/ calls'[Other].op # "load"
    <3>1. CASE k = Other
      BY <2>9, <3>1
    <3>2. CASE k # Other /\ calls[k].op # "load"
      BY <1>0, <2>4, <3>2
    <3>3. CASE k # Other /\ calls[k].op = "load"
      <4>1. calls'[Other] = OneNewer(calls[Other]) /\ ~Waits(Other)
        BY <1>0, <2>5, <3>3 DEF TrafficInv, Waits
      <4>. QED  BY <1>0, <4>1, OneNewerIs
    <3>. QED  BY <3>1, <3>2, <3>3
  <2>. QED  BY <1>0, <2>1, <2>2, <2>6, <2>8, <2>10, TrafficFrom
<1>2. ASSUME NEW k \in Requests, Commit(k) PROVE TrafficInv'
  <2>1. TablesGrow
    BY <1>2, CommitIds DEF TablesGrow
  <2>2. list' = list /\ selected' = selected
    BY <1>2 DEF Commit, page
  <2>3. calls[k] # None /\ calls[k].op # "load" /\ calls[k].stage = "open"
    BY <1>2, CommitIs
  <2>4. PICK ok \in BOOLEAN : Answer(k, ok)
    BY <1>2, CommitIs
  <2>5. /\ calls'[k] # None /\ calls'[k].stage = "done" /\ calls'[k].op = calls[k].op
        /\ calls'[k].cam = calls[k].cam /\ calls'[k].sel = calls[k].sel
        /\ calls'[k].newer = calls[k].newer /\ calls'[k].overtaken = calls[k].overtaken
        /\ \A j \in Requests \ {k} : calls'[j] = calls[j]
    BY <2>3, <2>4, AnswerIs
  <2>6. k \in Slots => CallOK(k)'
    <3>1. k \in Slots => CallOK(k) /\ ~Waits(k) /\ ~Waits(k)'
      BY <2>3, <2>5 DEF TrafficInv, Waits
    <3>. QED  BY <2>5, <3>1 DEF CallOK
  <2>. QED  BY <1>0, <2>1, <2>2, <2>3, <2>5, <2>6, TrafficFrom
<1>3. ASSUME NEW k \in Slots, Fail(k) PROVE TrafficInv'
  <2>1. TablesGrow /\ list' = list /\ selected' = selected
    BY <1>3, SameTablesGrow DEF Fail, page
  <2>2. calls[k] # None /\ calls[k].stage # "done" /\ Answer(k, FALSE)
    BY <1>3 DEF Fail
  <2>3. /\ calls'[k] # None /\ calls'[k].stage = "done" /\ calls'[k].op = calls[k].op /\ ~calls'[k].ok
        /\ calls'[k].cam = calls[k].cam /\ calls'[k].sel = calls[k].sel
        /\ calls'[k].newer = calls[k].newer /\ calls'[k].overtaken = calls[k].overtaken
        /\ \A j \in Requests \ {k} : calls'[j] = calls[j]
    BY <1>0, <2>2, AnswerIs
  <2>4. CallOK(k) /\ ~Waits(k)
    BY <2>2 DEF TrafficInv, Waits
  <2>5. CallOK(k)'
    BY <2>3, <2>4 DEF CallOK
  <2>. QED  BY <1>0, <2>1, <2>3, <2>5, TrafficFrom
<1>4. ASSUME NEW k \in Slots, Loaded(k) PROVE TrafficInv'
  <2>1. TablesGrow
    BY <1>4, ShownIs, SameTablesGrow
  <2>2. Waits(k) /\ CallOK(k) /\ calls'[k] = None
    BY <1>4, LoadedIs DEF TrafficInv, Waits
  <2>3. \A r \in list' : r \in list \/ r.cam <= lastCam
    BY <1>4, <2>2, ShownIs DEF CallOK
  <2>4. selected' # None => selected' = selected \/ selected'.cam <= lastCam
    BY <1>4, <2>2, ShownIs DEF CallOK
  <2>5. ASSUME NEW j \in Requests, calls'[j] # calls[j], calls'[j] # None
        PROVE  (j = Other /\ calls'[j].op # "load") \/ (j \in Slots /\ CallOK(j)')
    <3>1. /\ j # k /\ calls[j] # None /\ calls[j].newer > calls[k].newer
          /\ calls'[j].op = calls[j].op /\ calls'[j].stage = calls[j].stage
          /\ calls'[j].rows = calls[j].rows /\ calls'[j].ok = calls[j].ok
      BY <1>4, <2>2, <2>5, LoadedIs
    <3>2. CASE j = Other
      BY <3>1, <3>2 DEF TrafficInv
    <3>3. CASE j \in Slots
      <4>1. CallOK(j) /\ calls[k].newer \in Nat
        BY <1>0, <2>2, <3>1, <3>3, Parts DEF IInv, TrafficInv, Waits, Traffic, CallType
      <4>2. Waits(j) /\ calls[j].op = "load"
        BY <3>1, <4>1 DEF CallOK, Waits
      <4>3. Waits(j)' /\ lastCam' = lastCam
        BY <1>4, <2>5, <3>1, <4>2, ShownIs DEF Waits, tables
      <4>. QED  BY <3>1, <3>3, <4>1, <4>2, <4>3 DEF CallOK, ZoneOps
    <3>. QED  BY <1>0, <3>2, <3>3
  <2>. QED  BY <1>0, <2>1, <2>3, <2>4, <2>5, TrafficFrom
<1>5. ASSUME NEW k \in Slots, Saved(k) \/ Dropped(k) \/ Changed(k) PROVE TrafficInv'
  <2>1. /\ UNCHANGED <<tables, list>> /\ (selected' = selected \/ selected' = None)
        /\ \A j \in Requests \ {k} : calls'[j] = calls[j]
        /\ \/ calls'[k] = None
           \/ /\ calls'[k] # None /\ calls'[k].op = "load" /\ calls'[k].stage = "sent"
              /\ calls'[k].newer = 0 /\ ~calls'[k].overtaken /\ calls'[k].ok
    BY <1>5, ReplyIs
  <2>2. calls'[k] = None \/ CallOK(k)'
    BY <2>1 DEF CallOK, Waits, ZoneOps
  <2>. QED  BY <1>0, <2>1, <2>2, SameTablesGrow, TrafficFrom
<1>6. ASSUME NEW k \in Requests, Forget(k) PROVE TrafficInv'
  <2>1. \A j \in Requests : calls'[j] = calls[j] \/ calls'[j] = None
    BY <1>6, Parts DEF IInv, Forget, Traffic
  <2>2. UNCHANGED <<tables, list, selected>>
    BY <1>6 DEF Forget, page
  <2>. QED  BY <1>0, <2>1, <2>2, SameTablesGrow, TrafficFrom
<1>7. ASSUME NEW k \in Requests,
             \/ k \in Slots /\ (Save(k) \/ PageCall(k))
             \/ k = Other /\ OtherCall
      PROVE  TrafficInv'
  <2>1. PICK c \in CallType :
           /\ Send(k, c) /\ c.op # "load" /\ c.stage = "sent" /\ c.newer = 0 /\ ~c.overtaken
           /\ k \in Slots => (c.op \in ZoneOps => c.sel = c.cam)
    BY <1>7, SentIs
  <2>2. /\ calls'[k] = c /\ \A j \in Requests \ {k} : calls'[j] = calls[j]
        /\ UNCHANGED <<tables, list, selected>>
    BY <2>1, Parts DEF IInv, Traffic, Send, page
  <2>3. k \in Slots => CallOK(k)'
    BY <2>1, <2>2 DEF CallOK, Waits
  <2>. QED  BY <1>0, <2>1, <2>2, <2>3, SameTablesGrow, TrafficFrom
<1>8. CASE Select \/ Leave \/ StartDraft \/ Draw \/ Effect \/ StartWorker \/ StopWorker \/ UNCHANGED vars
  <2>1. UNCHANGED <<tables, list, calls>>
    BY <1>8 DEF Select, Leave, StartDraft, Draw, Effect, StartWorker, StopWorker, vars, traffic, page
  <2>2. selected' = selected \/ selected' = None \/ selected' \in list
    <3>1. CASE Select
      BY <3>1 DEF Select, ShowOnClick
    <3>2. CASE Leave
      BY <3>2, ShowNone DEF Leave
    <3>. QED  BY <1>8, <3>1, <3>2 DEF StartDraft, Draw, Effect, StartWorker, StopWorker, vars, page
  <2>. QED  BY <1>0, <2>1, <2>2, SameTablesGrow, TrafficFrom
<1>9. ASSUME NEW k \in Requests, Handle(k) PROVE TrafficInv'
  <2>1. Open(k) \/ Commit(k) \/ Forget(k) => TrafficInv'
    BY <1>1, <1>2, <1>6
  <2>2. Loaded(k) \/ Saved(k) \/ Dropped(k) \/ Changed(k) => k \in Slots
    BY <1>0 DEF Loaded, Saved, Dropped, Changed
  <2>. QED  BY <1>4, <1>5, <1>9, <2>1, <2>2 DEF Handle
<1>10. CASE OtherCall
  BY <1>0, <1>7, <1>10
<1>. QED  BY <1>0, <1>3, <1>7, <1>8, <1>9, <1>10 DEF Next, Requests

-----------------------------------------------------------------------------
(* The draft and the zone it redraws                                       *)

\* An id the page has read for a zone of camera c is one of c's, for ever.
Known(z, c) == z <= lastZone /\ \A y \in zones : y.id = z => y.cam = c
Knows(r)    == \A y \in r.zones : Known(y.id, r.cam)

\* And so it is after a step.
Later(z, c) == z <= lastZone' /\ \A y \in zones' : y.id = z => y.cam = c

\* A draft sent to another camera changes nothing there.
PatchOK(c) ==
    /\ Known(c.zone, c.from)
    /\ c.from # c.cam => c.stage = "sent" \/ (c.stage = "done" /\ ~c.ok)

KnownInv ==
    /\ \A r \in list : Knows(r)
    /\ selected # None => Knows(selected)
    /\ draft # None /\ draft.zone # 0 => Known(draft.zone, draft.cam)
    /\ \A k \in Slots : calls[k] # None =>
          /\ calls[k].op = "load" => \A r \in calls[k].rows : Knows(r)
          /\ calls[k].op = "patch" => PatchOK(calls[k])

LEMMA KnownStays ==
    ASSUME IInv, TablesGrow, NEW z \in Nat, NEW c, Known(z, c)
    PROVE  Later(z, c)
<1>1. lastZone \in Nat
  BY ConfigAssumption DEF IInv, TypeOK, ConfigAssumption
<1>. QED  BY <1>1 DEF Known, Later, TablesGrow

LEMMA KnowsStays ==
    ASSUME IInv, TablesGrow, NEW r \in Row, Knows(r)
    PROVE  \A y \in r.zones : Later(y.id, r.cam)
<1>1. \A y \in r.zones : y.id \in Nat
  BY DEF Row, Zone, ZoneIds
<1>. QED  BY <1>1, KnownStays DEF Knows

\* What the tables hold now is known of every camera.
LEMMA RowsKnown == ASSUME TrafficInv, NEW S PROVE \A r \in Rows(S) : Knows(r)
BY DEF TrafficInv, Rows, ZonesOf, Knows, Known

\* The page's knowledge outlives a step if what is new of it was known before.
LEMMA KnownFrom ==
    ASSUME IInv, IInv', TrafficInv, KnownInv, TablesGrow,
           \A r \in list' : r \in list \/ Knows(r),
           selected' # None => selected' = selected \/ Knows(selected'),
           draft' # None /\ draft'.zone # 0 => draft' = draft \/ Known(draft'.zone, draft'.cam),
           \A k \in Slots : calls'[k] # None =>
              \/ calls'[k] = calls[k]
              \/ /\ calls'[k].op = "load" => \A r \in calls'[k].rows : Knows(r)
                 /\ calls'[k].op = "patch" => PatchOK(calls'[k])
    PROVE  KnownInv'
<1>0. /\ \A r \in list' : r \in Row /\ Knows(r)
      /\ selected' # None => selected' \in Row /\ Knows(selected')
      /\ draft' # None /\ draft'.zone # 0 => draft'.zone \in Nat /\ Known(draft'.zone, draft'.cam)
  BY ConfigAssumption DEF IInv, TypeOK, KnownInv, ConfigAssumption
<1>5. \A k \in Slots : calls'[k] # None =>
          /\ calls'[k].op = "load" => \A r \in calls'[k].rows : r \in Row /\ Knows(r)
          /\ calls'[k].op = "patch" => calls'[k].zone \in Nat /\ PatchOK(calls'[k])
  <2>. SUFFICES ASSUME NEW k \in Slots, calls'[k] # None
                PROVE  /\ calls'[k].op = "load" => \A r \in calls'[k].rows : r \in Row /\ Knows(r)
                       /\ calls'[k].op = "patch" => calls'[k].zone \in Nat /\ PatchOK(calls'[k])
    OBVIOUS
  <2>1. calls'[k].rows \subseteq Row /\ calls'[k].zone \in Nat
    BY ConfigAssumption DEF IInv, TypeOK, CallType, ConfigAssumption
  <2>. QED  BY <2>1 DEF KnownInv
<1>1. \A r \in list' : \A y \in r.zones : Later(y.id, r.cam)
  BY <1>0, KnowsStays
<1>2. selected' # None => \A y \in selected'.zones : Later(y.id, selected'.cam)
  BY <1>0, KnowsStays
<1>3. draft' # None /\ draft'.zone # 0 => Later(draft'.zone, draft'.cam)
  BY <1>0, KnownStays
<1>4. ASSUME NEW k \in Slots, calls'[k] # None
      PROVE  /\ calls'[k].op = "load" => \A r \in calls'[k].rows : \A y \in r.zones : Later(y.id, r.cam)
             /\ calls'[k].op = "patch" =>
                  /\ Later(calls'[k].zone, calls'[k].from)
                  /\ calls'[k].from # calls'[k].cam =>
                        calls'[k].stage = "sent" \/ (calls'[k].stage = "done" /\ ~calls'[k].ok)
  <2>1. calls'[k].op = "load" => \A r \in calls'[k].rows : \A y \in r.zones : Later(y.id, r.cam)
    BY <1>5, <1>4, KnowsStays
  <2>2. calls'[k].op = "patch" => Later(calls'[k].zone, calls'[k].from)
    BY <1>5, <1>4, KnownStays DEF PatchOK
  <2>. QED  BY <1>5, <1>4, <2>1, <2>2 DEF PatchOK
<1>. QED  BY <1>1, <1>2, <1>3, <1>4 DEF KnownInv, Knows, Known, PatchOK, Later

LEMMA KnownStep == IInv /\ TrafficInv /\ KnownInv /\ [Next]_vars => KnownInv'
<1>. SUFFICES ASSUME IInv, TrafficInv, KnownInv, [Next]_vars, IInv' PROVE KnownInv'
  BY Inductive
<1>0. /\ Slots \subseteq Requests /\ Other \notin Slots
      /\ \A j \in Requests : j = Other \/ j \in Slots
  BY ConfigAssumption DEF ConfigAssumption, Requests
<1>1. UNCHANGED tables => TablesGrow
  BY SameTablesGrow
<1>2. ASSUME NEW k \in Requests, Open(k) PROVE KnownInv'
  <2>1. UNCHANGED tables /\ UNCHANGED page
    BY <1>2 DEF Open
  <2>2. /\ calls[k] # None /\ calls[k].stage = "sent" /\ calls'[k].op = calls[k].op
        /\ calls'[k].cam = calls[k].cam /\ calls'[k].zone = calls[k].zone
        /\ calls'[k].from = calls[k].from
        /\ calls[k].op = "load" => calls'[k].rows = Rows(cams)
        /\ calls[k].op # "load" => /\ calls'[k].stage = (IF Found(calls[k]) THEN "open" ELSE "done")
                                   /\ calls'[k].ok = Found(calls[k])
        /\ \A j \in Requests \ {k} : calls'[j] = calls[j] \/ calls'[j] = OneNewer(calls[j])
    BY <1>2, OpenIs
  <2>3. k \in Slots /\ calls[k].op = "patch" => PatchOK(calls'[k])
    <3>. SUFFICES ASSUME k \in Slots, calls[k].op = "patch" PROVE PatchOK(calls'[k])
      OBVIOUS
    <3>1. Known(calls[k].zone, calls[k].from)
      BY <2>2 DEF KnownInv, PatchOK
    <3>2. Found(calls[k]) => calls[k].from = calls[k].cam
      BY <3>1 DEF Found, Known
    <3>. QED  BY <2>2, <3>1, <3>2 DEF PatchOK
  <2>4. k \in Slots => /\ calls'[k].op = "load" => \A r \in calls'[k].rows : Knows(r)
                       /\ calls'[k].op = "patch" => PatchOK(calls'[k])
    BY <2>2, <2>3, RowsKnown
  <2>5. ASSUME NEW j \in Slots, j # k, calls'[j] # None, calls'[j] # calls[j]
        PROVE  /\ calls'[j].op = "load" => \A r \in calls'[j].rows : Knows(r)
               /\ calls'[j].op = "patch" => PatchOK(calls'[j])
    <3>1. calls'[j] = OneNewer(calls[j])
      BY <1>0, <2>2, <2>5
    <3>2. /\ calls[j] # None /\ calls'[j].op = calls[j].op /\ calls'[j].rows = calls[j].rows
          /\ Waits(j)
      BY <1>0, <2>5, <3>1, OneNewerIs
    <3>. QED  BY <3>2 DEF Waits, KnownInv
  <2>. QED  BY <1>1, <2>1, <2>4, <2>5, KnownFrom DEF page
<1>3. ASSUME NEW k \in Requests, Commit(k) PROVE KnownInv'
  <2>1. TablesGrow /\ UNCHANGED page
    BY <1>3, CommitIds DEF TablesGrow, Commit
  <2>2. calls[k] # None /\ calls[k].op # "load" /\ calls[k].stage = "open"
    BY <1>3, CommitIs
  <2>3. PICK ok \in BOOLEAN : Answer(k, ok)
    BY <1>3, CommitIs
  <2>4. /\ calls'[k].op = calls[k].op /\ calls'[k].cam = calls[k].cam /\ calls'[k].zone = calls[k].zone
        /\ calls'[k].from = calls[k].from /\ \A j \in Requests \ {k} : calls'[j] = calls[j]
    BY <2>2, <2>3, AnswerIs
  <2>5. k \in Slots /\ calls[k].op = "patch" => PatchOK(calls'[k])
    BY <2>2, <2>4 DEF KnownInv, PatchOK
  <2>. QED  BY <1>0, <2>1, <2>2, <2>4, <2>5, KnownFrom DEF page
<1>4. ASSUME NEW k \in Slots, Fail(k) PROVE KnownInv'
  <2>1. UNCHANGED tables /\ UNCHANGED page /\ calls[k] # None /\ Answer(k, FALSE)
    BY <1>4 DEF Fail
  <2>2. /\ calls'[k].op = calls[k].op /\ calls'[k].cam = calls[k].cam /\ calls'[k].zone = calls[k].zone
        /\ calls'[k].from = calls[k].from /\ calls'[k].rows = calls[k].rows
        /\ calls'[k].stage = "done" /\ ~calls'[k].ok
        /\ \A j \in Requests \ {k} : calls'[j] = calls[j]
    BY <1>0, <2>1, AnswerIs
  <2>3. /\ calls'[k].op = "load" => \A r \in calls'[k].rows : Knows(r)
        /\ calls'[k].op = "patch" => PatchOK(calls'[k])
    BY <2>1, <2>2 DEF KnownInv, PatchOK
  <2>. QED  BY <1>0, <1>1, <2>1, <2>2, <2>3, KnownFrom DEF page
<1>5. ASSUME NEW k \in Slots, Loaded(k) PROVE KnownInv'
  <2>1. /\ UNCHANGED tables /\ list' = (IF calls[k].ok THEN calls[k].rows ELSE list)
        /\ selected' = selected \/ selected' = None \/ selected' \in calls[k].rows
    BY <1>5, ShownIs
  <2>2. draft' = draft \/ draft' = None
    BY <1>5 DEF Loaded, ShowOnAnswer, Settled
  <2>3. Waits(k) /\ calls'[k] = None
    BY <1>5, LoadedIs
  <2>4. \A r \in calls[k].rows : Knows(r)
    BY <2>3 DEF Waits, KnownInv
  <2>5. ASSUME NEW j \in Slots, calls'[j] # None, calls'[j] # calls[j]
        PROVE  /\ calls'[j].op = "load" => \A r \in calls'[j].rows : Knows(r)
               /\ calls'[j].op = "patch" => PatchOK(calls'[j])
    <3>1. /\ calls[j] # None /\ calls[j].newer > calls[k].newer
          /\ calls'[j].op = calls[j].op /\ calls'[j].rows = calls[j].rows
      BY <1>0, <1>5, <2>3, <2>5, LoadedIs
    <3>2. CallOK(j) /\ calls[k].newer \in Nat
      BY <1>0, <2>3, <3>1, Parts DEF IInv, TrafficInv, Waits, Traffic, CallType
    <3>3. calls[j].op = "load"
      BY <3>1, <3>2 DEF CallOK, Waits
    <3>. QED  BY <3>1, <3>3 DEF KnownInv
  <2>. QED  BY <1>1, <2>1, <2>2, <2>4, <2>5, KnownFrom
<1>6. ASSUME NEW k \in Slots, Saved(k) \/ Dropped(k) \/ Changed(k) PROVE KnownInv'
  <2>1. /\ UNCHANGED <<tables, list>> /\ (selected' = selected \/ selected' = None)
        /\ \A j \in Requests \ {k} : calls'[j] = calls[j]
        /\ calls'[k] = None \/ (calls'[k].op = "load" /\ calls'[k].rows = {})
    BY <1>6, ReplyIs
  <2>2. draft' = draft \/ draft' = None
    BY <1>6, ShowNone DEF Saved, Dropped, Changed, Settled
  <2>. QED  BY <1>0, <1>1, <2>1, <2>2, KnownFrom
<1>7. ASSUME NEW k \in Requests, Forget(k) PROVE KnownInv'
  <2>1. \A j \in Slots : calls'[j] = calls[j]
    BY <1>0, <1>7 DEF Forget
  <2>. QED  BY <1>1, <1>7, <2>1, KnownFrom DEF Forget, page
<1>8. ASSUME NEW k \in Requests,
             \/ k \in Slots /\ (Save(k) \/ PageCall(k))
             \/ k = Other /\ OtherCall
      PROVE  KnownInv'
  <2>1. PICK c \in CallType : Send(k, c) /\ c.op # "load"
    BY <1>8, SentIs
  <2>2. /\ calls'[k] = c /\ \A j \in Requests \ {k} : calls'[j] = calls[j]
        /\ UNCHANGED tables /\ UNCHANGED page
    BY <2>1, Parts DEF IInv, Traffic, Send
  <2>3. CASE k = Other
    BY <1>0, <1>1, <2>2, <2>3, KnownFrom DEF page
  <2>4. CASE k \in Slots /\ PageCall(k)
    <3>1. c.op # "patch"
      <4>1. PICK d \in CallType : d.op \notin {"add", "patch"} /\ Send(k, d)
        BY <2>4, OtherCalls DEF IInv
      <4>2. calls'[k] = d
        BY <4>1, Parts DEF IInv, Traffic, Send
      <4>. QED  BY <2>2, <4>1, <4>2
    <3>. QED  BY <1>0, <1>1, <2>1, <2>2, <3>1, KnownFrom DEF page
  <2>5. CASE k \in Slots /\ Save(k)
    <3>1. PICK d \in CallType : /\ Send(k, d) /\ d.stage = "sent" /\ d.zone = draft.zone
                                /\ d.from = draft.cam /\ (d.op = "patch" => d.zone # 0)
      BY <2>5, SaveCall DEF IInv
    <3>2. calls'[k] = d
      BY <3>1, Parts DEF IInv, Traffic, Send
    <3>3. c.op = "patch" => PatchOK(c)
      BY <2>2, <2>5, <3>1, <3>2 DEF KnownInv, PatchOK, Save
    <3>. QED  BY <1>0, <1>1, <2>1, <2>2, <3>3, KnownFrom DEF page
  <2>. QED  BY <1>8, <2>3, <2>4, <2>5
<1>9. CASE Select \/ Leave \/ StartDraft \/ Draw \/ Effect \/ StartWorker \/ StopWorker \/ UNCHANGED vars
  <2>1. UNCHANGED <<tables, list, calls>>
    BY <1>9 DEF Select, Leave, StartDraft, Draw, Effect, StartWorker, StopWorker, vars, traffic, page
  <2>2. selected' = selected \/ selected' = None \/ selected' \in list
    <3>1. CASE Select
      BY <3>1 DEF Select, ShowOnClick
    <3>2. CASE Leave
      BY <3>2, ShowNone DEF Leave
    <3>. QED  BY <1>9, <3>1, <3>2 DEF StartDraft, Draw, Effect, StartWorker, StopWorker, vars, page
  <2>3. draft' # None /\ draft'.zone # 0 => draft' = draft \/ Known(draft'.zone, draft'.cam)
    <3>1. CASE StartDraft
      <4>1. PICK z \in {0} \cup {y.id : y \in selected.zones} :
                draft' = IF due THEN None ELSE [cam |-> Sel, zone |-> z, ready |-> z # 0]
        BY <3>1 DEF StartDraft
      <4>2. selected # None /\ Sel = selected.cam
        BY <3>1 DEF StartDraft, Sel
      <4>3. z # 0 => Known(z, Sel)
        BY <4>1, <4>2 DEF KnownInv, Knows
      <4>. QED  BY <4>1, <4>3
    <3>2. CASE Draw
      <4>1. draft # None /\ draft \in Drafts /\ (draft' = None \/ draft' = [draft EXCEPT !.ready = ~@])
        BY <3>2, Parts DEF Draw, IInv, PageOK
      <4>2. draft' # None => draft'.zone = draft.zone /\ draft'.cam = draft.cam
        BY <4>1 DEF Drafts
      <4>. QED  BY <4>1, <4>2 DEF KnownInv
    <3>3. CASE Select
      BY <3>3 DEF Select, ShowOnClick, Settled
    <3>4. CASE Leave
      BY <3>4, ShowNone DEF Leave
    <3>. QED  BY <1>9, <3>1, <3>2, <3>3, <3>4 DEF Effect, StartWorker, StopWorker, vars, page
  <2>. QED  BY <1>1, <2>1, <2>2, <2>3, KnownFrom DEF KnownInv
<1>10. ASSUME NEW k \in Requests, Handle(k) PROVE KnownInv'
  <2>1. Loaded(k) \/ Saved(k) \/ Dropped(k) \/ Changed(k) => k \in Slots
    BY <1>0 DEF Loaded, Saved, Dropped, Changed
  <2>. QED  BY <1>2, <1>3, <1>5, <1>6, <1>7, <1>10, <2>1 DEF Handle
<1>11. CASE OtherCall
  BY <1>8, <1>11 DEF Requests
<1>. QED  BY <1>0, <1>4, <1>8, <1>9, <1>10, <1>11 DEF Next, Requests

\* What another slot was or leads to stays so while its request does.
LEMMA SameSlot ==
    ASSUME NEW j \in Slots, calls'[j] = calls[j]
    PROVE  (Asked(j)' <=> Asked(j)) /\ (Waits(j)' <=> Waits(j)) /\ (Wrote(j)' <=> Wrote(j))
BY DEF Asked, Waits, Wrote

LEMMA SameRenews ==
    ASSUME NEW j \in Slots, NEW c, calls'[j] = calls[j], ZonesOf(c)' = ZonesOf(c)
    PROVE  Renews(j, c)' <=> Renews(j, c)
BY SameSlot DEF Renews, Now

LEMMA SameTables ==
    ASSUME cams' = cams, zones' = zones
    PROVE  /\ Rows(cams)' = Rows(cams)
           /\ \A c : ZonesOf(c)' = ZonesOf(c)
           /\ \A c : Now(c)' = Now(c)
           /\ \A r : Stale(r)' <=> Stale(r)
BY DEF Rows, ZonesOf, Now, Stale

\* A step that handles no load keeps the page's debts if the slot it works on keeps its own.
LEMMA Kept ==
    ASSUME UNCHANGED <<cams, zones, list>>, selected' = selected \/ selected' = None,
           \A j \in Slots : \/ calls'[j] = calls[j]
                            \/ /\ ~Waits(j) /\ ~Waits(j)'
                               /\ Asked(j) \/ Wrote(j) => Asked(j)' \/ Wrote(j)'
                               /\ \A c : Renews(j, c) => Renews(j, c)',
           ListInv, RowsInv, OrderInv
    PROVE  ListInv' /\ RowsInv' /\ OrderInv'
<1>1. \A j \in Slots : /\ Waits(j)' <=> Waits(j)
                       /\ Waits(j) => calls'[j] = calls[j]
                       /\ Asked(j) \/ Wrote(j) => Asked(j)' \/ Wrote(j)'
  BY SameSlot
<1>2. /\ Rows(cams)' = Rows(cams) /\ \A c : ZonesOf(c)' = ZonesOf(c)
      /\ \A r : Stale(r)' <=> Stale(r)
  BY SameTables
<1>3. \A j \in Slots : \A c : Renews(j, c) => Renews(j, c)'
  BY <1>2, SameRenews
<1>4. ListInv'
  BY <1>1, <1>2 DEF ListInv
<1>5. OrderInv'
  BY <1>1 DEF OrderInv
<1>6. \A r \in list' : Stale(r)' => \E k \in Slots : Renews(k, r.cam)'
  BY <1>2, <1>3 DEF RowsInv
<1>7. selected' # None /\ Stale(selected)' => \E k \in Slots : Renews(k, selected.cam)'
  BY <1>2, <1>3 DEF RowsInv
<1>8. ASSUME NEW k \in Slots, Waits(k)'
      PROVE  /\ calls'[k].ok
             /\ \A r \in calls'[k].rows : Stale(r)' =>
                    \E i \in Slots : /\ Renews(i, r.cam)'
                                     /\ Waits(i)' => calls'[i].newer < calls'[k].newer
  <2>1. Waits(k) /\ calls'[k] = calls[k] /\ calls[k].ok
    BY <1>1, <1>8 DEF RowsInv
  <2>2. ASSUME NEW r \in calls[k].rows, Stale(r)
        PROVE  \E i \in Slots : Renews(i, r.cam)' /\ (Waits(i)' => calls'[i].newer < calls'[k].newer)
    <3>1. PICK i \in Slots : Renews(i, r.cam) /\ (Waits(i) => calls[i].newer < calls[k].newer)
      BY <2>1, <2>2 DEF RowsInv
    <3>. QED  BY <1>1, <1>3, <2>1, <3>1
  <2>. QED  BY <1>2, <2>1, <2>2
<1>9. RowsInv'
  BY <1>6, <1>7, <1>8 DEF RowsInv
<1>. QED  BY <1>4, <1>5, <1>9

\* And the panel of a deleted camera is closed yet, if the removals stay what they are.
LEMMA PanelKept ==
    ASSUME UNCHANGED cams, selected' = selected \/ selected' = None,
           \A j \in Slots : calls'[j] # None /\ calls'[j].op = "remove" =>
              \/ /\ calls[j] # None /\ calls[j].op = "remove"
                 /\ calls'[j].cam = calls[j].cam /\ calls'[j].sel = calls[j].sel
              \/ selected # None => calls'[j].sel = selected.cam,
           \A j \in Slots : Wrote(j) /\ calls[j].op = "remove" /\ calls[j].sel = calls[j].cam =>
              \/ selected' = None
              \/ /\ Wrote(j)' /\ calls'[j].op = "remove"
                 /\ calls'[j].cam = calls[j].cam /\ calls'[j].sel = calls[j].sel,
           PanelInv
    PROVE  PanelInv'
BY DEF PanelInv

PageGood == ListInv /\ RowsInv /\ PanelInv /\ OrderInv

\* An order once upset stays so, until the upset answer is handled: then the page is astray.
LEMMA Excused ==
    ASSUME IInv, TrafficInv, [Next]_vars, ~astray', ~Disordered'
    PROVE  ~astray /\ ~Disordered
<1>0. /\ Slots \subseteq Requests /\ Other \notin Slots
      /\ \A j \in Requests : j = Other \/ j \in Slots
  BY ConfigAssumption DEF ConfigAssumption, Requests
<1>1. ~astray
  BY DEF Next, Handle, Open, Commit, Fail, Loaded, Saved, Dropped, Changed, Forget, Save, PageCall,
         OtherCall, Send, Select, Leave, StartDraft, Draw, Effect, StartWorker, StopWorker, vars
<1>2. ASSUME NEW j \in Slots, Waits(j), calls[j].overtaken PROVE Waits(j)' /\ calls'[j].overtaken
  <2>1. CASE calls'[j] = calls[j]
    BY <1>2, <2>1, SameSlot
  <2>2. ASSUME NEW k \in Requests, Open(k) PROVE Waits(j)' /\ calls'[j].overtaken
    <3>1. k # j
      BY <1>2, <2>2 DEF Open, Waits
    <3>2. calls'[j] = calls[j] \/ calls'[j] = OneNewer(calls[j])
      BY <1>0, <2>2, <3>1, OpenIs
    <3>3. OneNewer(calls[j]) = calls[j]
      BY <1>2 DEF OneNewer
    <3>. QED  BY <1>2, <3>2, <3>3 DEF Waits
  <2>3. ASSUME NEW k \in Requests, Commit(k) PROVE calls'[j] = calls[j]
    <3>1. k # j /\ calls[k] # None
      BY <1>2, <2>3 DEF Commit, Waits
    <3>2. PICK ok \in BOOLEAN : Answer(k, ok)
      BY <2>3, CommitIs
    <3>. QED  BY <1>0, <3>1, <3>2, AnswerIs
  <2>4. ASSUME NEW k \in Slots, Fail(k) PROVE FALSE
    BY <2>4 DEF Fail
  <2>5. ASSUME NEW k \in Slots, Loaded(k) PROVE Waits(j)' /\ calls'[j].overtaken
    <3>1. k # j
      BY <1>2, <2>5 DEF Loaded
    <3>. QED  BY <1>0, <1>2, <2>5, <3>1, LoadedIs DEF Waits
  <2>6. ASSUME NEW k \in Slots, Saved(k) \/ Dropped(k) \/ Changed(k) PROVE calls'[j] = calls[j]
    <3>1. k # j
      BY <1>2, <2>6, ReplyIs DEF Waits
    <3>. QED  BY <1>0, <2>6, <3>1, ReplyIs
  <2>7. ASSUME NEW k \in Requests, Forget(k) PROVE calls'[j] = calls[j]
    BY <1>0, <2>7 DEF Forget
  <2>8. ASSUME NEW k \in Requests,
               \/ k \in Slots /\ (Save(k) \/ PageCall(k))
               \/ k = Other /\ OtherCall
        PROVE  calls'[j] = calls[j]
    <3>1. PICK c \in CallType : Send(k, c)
      BY <2>8, SentIs
    <3>2. k # j
      BY <1>2, <3>1 DEF Send, Waits
    <3>. QED  BY <3>1, <3>2 DEF Send
  <2>9. ASSUME Select \/ Leave \/ StartDraft \/ Draw \/ Effect \/ StartWorker \/ StopWorker \/ UNCHANGED vars
        PROVE  calls' = calls
    BY <2>9 DEF Select, Leave, StartDraft, Draw, Effect, StartWorker, StopWorker, vars, traffic
  <2>10. ASSUME NEW k \in Requests, Handle(k) PROVE Waits(j)' /\ calls'[j].overtaken
    <3>1. Loaded(k) \/ Saved(k) \/ Dropped(k) \/ Changed(k) => k \in Slots
      BY <1>0 DEF Loaded, Saved, Dropped, Changed
    <3>. QED  BY <2>1, <2>2, <2>3, <2>5, <2>6, <2>7, <2>10, <3>1 DEF Handle
  <2>. QED  BY <1>0, <2>1, <2>4, <2>8, <2>9, <2>10 DEF Next, Requests
<1>. QED  BY <1>1, <1>2 DEF Disordered

\* A session that has read the tables for a load: from now on it owes what it found.
LEMMA OpenPage ==
    ASSUME IInv, TrafficInv, PageGood, ~Disordered, NEW k \in Requests, Open(k)
    PROVE  PageGood'
<1>0. /\ Slots \subseteq Requests /\ Other \in Requests /\ Other \notin Slots
      /\ \A j \in Requests : j = Other \/ j \in Slots
  BY ConfigAssumption DEF ConfigAssumption, Requests
<1>1. /\ UNCHANGED <<cams, zones, list, selected>>
      /\ Rows(cams)' = Rows(cams) /\ \A r : Stale(r)' <=> Stale(r)
      /\ \A c : Now(c)' = Now(c)
  BY SameTables DEF Open, tables, page
<1>2. /\ calls[k] # None /\ calls[k].stage = "sent" /\ calls'[k] # None
      /\ calls'[k].op = calls[k].op /\ calls'[k].cam = calls[k].cam /\ calls'[k].sel = calls[k].sel
      /\ calls'[k].newer = calls[k].newer
  BY OpenIs
<1>3. CASE calls[k].op # "load"
  <2>1. \A j \in Requests \ {k} : calls'[j] = calls[j]
    BY <1>3, OpenIs
  <2>2. /\ ~Waits(k) /\ ~Asked(k) /\ ~Wrote(k) /\ ~Waits(k)'
        /\ \A c : ~Renews(k, c)
    BY <1>2, <1>3 DEF Waits, Asked, Wrote, Renews
  <2>3. ListInv' /\ RowsInv' /\ OrderInv'
    BY <1>0, <1>1, <2>1, <2>2, Kept DEF PageGood
  <2>4. \A j \in Slots : /\ calls'[j] # None /\ calls'[j].op = "remove" =>
                              /\ calls[j] # None /\ calls[j].op = "remove"
                              /\ calls'[j].cam = calls[j].cam /\ calls'[j].sel = calls[j].sel
                         /\ Wrote(j) => calls'[j] = calls[j] /\ Wrote(j)'
    BY <1>0, <1>2, <2>1, <2>2, SameSlot
  <2>5. PanelInv'
    BY <1>1, <2>4, PanelKept DEF PageGood
  <2>. QED  BY <2>3, <2>5 DEF PageGood
<1>4. CASE calls[k].op = "load"
  <2>1. k \in Slots /\ CallOK(k) /\ ~Waits(k) /\ ~Wrote(k) /\ Asked(k)
    BY <1>0, <1>2, <1>4 DEF TrafficInv, Waits, Wrote, Asked
  <2>2. /\ Waits(k)' /\ calls'[k].rows = Rows(cams) /\ calls'[k].ok /\ calls'[k].newer = 0
    BY <1>2, <1>4, <2>1, OpenIs DEF Waits, CallOK
  <2>3. ASSUME NEW j \in Slots, j # k
        PROVE  /\ Asked(j)' <=> Asked(j)
               /\ Waits(j)' <=> Waits(j)
               /\ Wrote(j)' <=> Wrote(j)
               /\ calls'[j] = None <=> calls[j] = None
               /\ calls[j] # None => /\ calls'[j].op = calls[j].op /\ calls'[j].cam = calls[j].cam
                                     /\ calls'[j].sel = calls[j].sel /\ calls'[j].ok = calls[j].ok
                                     /\ calls'[j].rows = calls[j].rows
               /\ Waits(j) => calls'[j].newer = calls[j].newer + 1 /\ calls[j].newer \in Nat
    <3>1. calls'[j] = OneNewer(calls[j])
      BY <1>0, <1>4, <2>3, OpenIs
    <3>2. Waits(j) => ~calls[j].overtaken /\ calls[j].newer \in Nat
      BY <1>0, Parts DEF Disordered, IInv, Traffic, CallType, Waits
    <3>3. /\ calls[j] = None <=> calls'[j] = None
          /\ calls[j] # None =>
                /\ calls'[j].op = calls[j].op /\ calls'[j].cam = calls[j].cam
                /\ calls'[j].sel = calls[j].sel /\ calls'[j].stage = calls[j].stage
                /\ calls'[j].ok = calls[j].ok /\ calls'[j].rows = calls[j].rows
                /\ Waits(j) /\ ~calls[j].overtaken => calls'[j].newer = calls[j].newer + 1
      BY <1>0, <3>1, OneNewerIs
    <3>. QED  BY <3>2, <3>3 DEF Asked, Waits, Wrote
  <2>4. ASSUME NEW i \in Slots, NEW c, Renews(i, c), c \in cams PROVE Renews(i, c)'
    <3>1. CASE i = k
      BY <1>1, <1>2, <2>2, <2>4, <3>1, RowsAre DEF Renews
    <3>2. CASE i # k
      BY <1>1, <2>3, <2>4, <3>2 DEF Renews, Asked, Wrote, Waits
    <3>. QED  BY <3>1, <3>2
  <2>5. ListInv'
    BY <1>1, <2>1, <2>2 DEF ListInv
  <2>6. OrderInv'
    <3>1. \A j, i \in Slots : j # i /\ Waits(j)' /\ Waits(i)' => calls'[j].newer # calls'[i].newer
      BY <2>2, <2>3 DEF OrderInv, PageGood
    <3>. QED  BY <3>1 DEF OrderInv
  <2>7. ASSUME NEW j \in Slots, Waits(j)'
        PROVE  /\ calls'[j].ok
               /\ \A r \in calls'[j].rows : Stale(r)' =>
                      \E i \in Slots : /\ Renews(i, r.cam)'
                                       /\ Waits(i)' => calls'[i].newer < calls'[j].newer
    <3>1. CASE j = k
      <4>1. \A r \in Rows(cams) : ~Stale(r)
        BY RowsAre DEF Stale
      <4>. QED  BY <1>1, <2>2, <3>1, <4>1
    <3>2. CASE j # k
      <4>1. Waits(j) /\ calls[j].ok /\ calls'[j].ok /\ calls'[j].rows = calls[j].rows
            /\ calls'[j].newer = calls[j].newer + 1 /\ calls[j].newer \in Nat
        BY <2>3, <2>7, <3>2 DEF RowsInv, PageGood, Waits
      <4>2. ASSUME NEW r \in calls[j].rows, Stale(r)
            PROVE  \E i \in Slots : Renews(i, r.cam)' /\ (Waits(i)' => calls'[i].newer < calls'[j].newer)
        <5>1. PICK i \in Slots : Renews(i, r.cam) /\ (Waits(i) => calls[i].newer < calls[j].newer)
          BY <4>1, <4>2 DEF RowsInv, PageGood
        <5>2. Renews(i, r.cam)'
          BY <2>4, <4>2, <5>1 DEF Stale
        <5>3. Waits(i)' => calls'[i].newer < calls'[j].newer
          BY <2>2, <2>3, <4>1, <5>1
        <5>. QED  BY <5>2, <5>3
      <4>. QED  BY <1>1, <4>1, <4>2
    <3>. QED  BY <3>1, <3>2
  <2>8. RowsInv'
    <3>1. \A r \in list' : Stale(r)' => \E i \in Slots : Renews(i, r.cam)'
      BY <1>1, <2>4 DEF RowsInv, PageGood, Stale
    <3>2. selected' # None /\ Stale(selected)' => \E i \in Slots : Renews(i, selected.cam)'
      BY <1>1, <2>4 DEF RowsInv, PageGood, Stale
    <3>. QED  BY <2>7, <3>1, <3>2 DEF RowsInv
  <2>9. PanelInv'
    <3>1. \A j \in Slots : calls'[j] # None /\ calls'[j].op = "remove" =>
              /\ calls[j] # None /\ calls[j].op = "remove"
              /\ calls'[j].cam = calls[j].cam /\ calls'[j].sel = calls[j].sel
      BY <1>2, <1>4, <2>3
    <3>2. \A j \in Slots : Wrote(j) => /\ Wrote(j)' /\ calls'[j].op = calls[j].op
                                       /\ calls'[j].cam = calls[j].cam /\ calls'[j].sel = calls[j].sel
      BY <2>1, <2>3 DEF Wrote
    <3>. QED  BY <1>1, <3>1, <3>2, PanelKept DEF PageGood
  <2>. QED  BY <2>5, <2>6, <2>8, <2>9 DEF PageGood
<1>. QED  BY <1>3, <1>4

\* A write of the page's own: what it puts out of date, the load after it renews.
LEMMA CommitPage ==
    ASSUME IInv, TrafficInv, PageGood, NEW k \in Slots, Commit(k)
    PROVE  PageGood'
<1>0. Slots \subseteq Requests
  BY DEF Requests
<1>1. /\ calls[k] # None /\ calls[k].op # "load" /\ calls[k].stage = "open"
      /\ UNCHANGED <<list, selected>> /\ CallOK(k)
  BY <1>0, CommitIs DEF Commit, page, TrafficInv
<1>2. PICK ok \in BOOLEAN :
         /\ Answer(k, ok)
         /\ ~ok => cams' = cams /\ zones' = zones
         /\ k \in Slots => \A c \in cams' : c <= lastCam =>
               ZonesOf(c)' = ZonesOf(c) \/ (ok /\ calls[k].op \in ZoneOps /\ c = calls[k].cam)
         /\ \A c \in cams' : c <= lastCam => c \in cams
         /\ \A c \in cams \ cams' : ok /\ calls[k].op = "remove" /\ c = calls[k].cam
  BY <1>0, CommitIs
<1>3. /\ calls'[k] # None /\ calls'[k].stage = "done" /\ calls'[k].ok = ok
      /\ calls'[k].op = calls[k].op /\ calls'[k].cam = calls[k].cam /\ calls'[k].sel = calls[k].sel
      /\ \A j \in Slots \ {k} : calls'[j] = calls[j]
  BY <1>0, <1>1, <1>2, AnswerIs
<1>4. /\ ~Waits(k) /\ ~Asked(k) /\ ~Wrote(k) /\ ~Waits(k)' /\ ~Asked(k)'
      /\ Wrote(k)' <=> ok
      /\ \A c : ~Renews(k, c)
  BY <1>1, <1>3 DEF Waits, Asked, Wrote, Renews
<1>5. \A j \in Slots : Waits(j)' <=> Waits(j)
  BY <1>3, <1>4, SameSlot
<1>6. PanelInv'
  <2>1. ASSUME NEW j \in Slots, calls'[j] # None, calls'[j].op = "remove",
               selected' # None, selected'.cam = calls'[j].cam
        PROVE  calls'[j].sel = calls'[j].cam
    BY <1>1, <1>3, <2>1 DEF PanelInv, PageGood
  <2>2. ASSUME selected' # None, selected'.cam \notin cams'
        PROVE  \E j \in Slots : /\ Wrote(j)' /\ calls'[j].op = "remove"
                                /\ calls'[j].cam = selected'.cam /\ calls'[j].sel = selected'.cam
    <3>1. CASE selected.cam \in cams
      <4>1. ok /\ calls[k].op = "remove" /\ selected.cam = calls[k].cam
        BY <1>1, <1>2, <2>2, <3>1
      <4>2. calls[k].sel = calls[k].cam
        BY <1>1, <2>2, <4>1 DEF PanelInv, PageGood
      <4>. QED  BY <1>1, <1>3, <1>4, <4>1, <4>2
    <3>2. CASE selected.cam \notin cams
      <4>1. PICK j \in Slots : /\ Wrote(j) /\ calls[j].op = "remove"
                               /\ calls[j].cam = selected.cam /\ calls[j].sel = selected.cam
        BY <1>1, <2>2, <3>2 DEF PanelInv, PageGood
      <4>. QED  BY <1>1, <1>3, <1>4, <4>1, SameSlot
    <3>. QED  BY <3>1, <3>2
  <2>. QED  BY <2>1, <2>2 DEF PanelInv
<1>7. CASE ~ok
  <2>1. ListInv' /\ RowsInv' /\ OrderInv'
    BY <1>1, <1>2, <1>3, <1>4, <1>7, Kept DEF PageGood
  <2>. QED  BY <1>6, <2>1 DEF PageGood
<1>8. CASE ok
  <2>1. ListInv'
    BY <1>4, <1>8 DEF ListInv
  <2>2. OrderInv'
    <3>1. \A j, i \in Slots : j # i /\ Waits(j)' /\ Waits(i)' => calls'[j].newer # calls'[i].newer
      BY <1>3, <1>4, <1>5 DEF OrderInv, PageGood
    <3>. QED  BY <3>1 DEF OrderInv
  <2>3. ASSUME NEW r, r.cam <= lastCam, Stale(r)'
        PROVE  \/ Renews(k, r.cam)'
               \/ Stale(r) /\ \A i \in Slots : Renews(i, r.cam) => i # k /\ Renews(i, r.cam)'
    <3>1. r.cam \in cams' /\ r # Now(r.cam)'
      BY <2>3 DEF Stale
    <3>2. CASE ZonesOf(r.cam)' = ZonesOf(r.cam)
      <4>1. Stale(r)
        BY <1>2, <2>3, <3>1, <3>2 DEF Stale, Now
      <4>2. \A i \in Slots : Renews(i, r.cam) => i # k /\ Renews(i, r.cam)'
        BY <1>3, <1>4, <3>2, SameRenews
      <4>. QED  BY <4>1, <4>2
    <3>3. CASE calls[k].op \in ZoneOps /\ r.cam = calls[k].cam
      BY <1>1, <1>3, <1>4, <1>8, <3>3 DEF CallOK, Renews
    <3>. QED  BY <1>2, <2>3, <3>1, <3>2, <3>3
  <2>4. \A r \in list' : Stale(r)' => \E i \in Slots : Renews(i, r.cam)'
    <3>1. \A r \in list : r.cam <= lastCam
      BY DEF TrafficInv
    <3>. QED  BY <1>1, <2>3, <3>1 DEF RowsInv, PageGood
  <2>5. selected' # None /\ Stale(selected)' => \E i \in Slots : Renews(i, selected.cam)'
    <3>1. ASSUME NEW r, selected = r, r # None, Stale(r)'
          PROVE  \E i \in Slots : Renews(i, r.cam)'
      <4>1. r.cam <= lastCam
        BY <3>1 DEF TrafficInv
      <4>. QED  BY <2>3, <3>1, <4>1 DEF RowsInv, PageGood
    <3>2. selected' = selected
      BY <1>1
    <3>. QED  BY <3>1, <3>2 DEF Stale
  <2>6. ASSUME NEW j \in Slots, Waits(j)'
        PROVE  /\ calls'[j].ok
               /\ \A r \in calls'[j].rows : Stale(r)' =>
                      \E i \in Slots : /\ Renews(i, r.cam)'
                                       /\ Waits(i)' => calls'[i].newer < calls'[j].newer
    <3>1. j # k /\ Waits(j) /\ calls'[j] = calls[j] /\ calls[j].ok
      BY <1>3, <1>4, <1>5, <2>6 DEF RowsInv, PageGood
    <3>2. \A r \in calls[j].rows : r.cam <= lastCam
      BY <3>1 DEF TrafficInv, CallOK, Waits
    <3>3. ASSUME NEW r \in calls[j].rows, Stale(r)'
          PROVE  \E i \in Slots : Renews(i, r.cam)' /\ (Waits(i)' => calls'[i].newer < calls'[j].newer)
      <4>1. CASE Renews(k, r.cam)'
        BY <1>4, <4>1
      <4>2. CASE Stale(r) /\ \A i \in Slots : Renews(i, r.cam) => i # k /\ Renews(i, r.cam)'
        <5>1. PICK i \in Slots : Renews(i, r.cam) /\ (Waits(i) => calls[i].newer < calls[j].newer)
          BY <3>1, <4>2 DEF RowsInv, PageGood
        <5>. QED  BY <1>3, <1>5, <3>1, <4>2, <5>1
      <4>. QED  BY <2>3, <3>2, <3>3, <4>1, <4>2
    <3>. QED  BY <3>1, <3>3
  <2>7. RowsInv'
    BY <2>4, <2>5, <2>6 DEF RowsInv
  <2>. QED  BY <1>6, <2>1, <2>2, <2>7 DEF PageGood
<1>. QED  BY <1>7, <1>8

\* An answer handled in its turn: what it shows out of date is owed by a later one.
LEMMA LoadedPage ==
    ASSUME IInv, TrafficInv, PageGood, ~astray', ~Disordered', NEW k \in Slots, Loaded(k)
    PROVE  PageGood'
<1>0. Slots \subseteq Requests
  BY DEF Requests
<1>1. /\ Waits(k) /\ calls'[k] = None /\ calls[k].ok
      /\ ~Asked(k) /\ ~Wrote(k) /\ calls[k].newer \in Nat
  BY <1>0, LoadedIs, Parts DEF PageGood, RowsInv, Waits, Asked, Wrote, IInv, Traffic, CallType
<1>2. /\ UNCHANGED <<cams, zones>> /\ list' = calls[k].rows
      /\ Rows(cams)' = Rows(cams) /\ \A r : Stale(r)' <=> Stale(r)
      /\ \A c : ZonesOf(c)' = ZonesOf(c)
  BY <1>1, ShownIs, SameTables DEF tables
<1>3. calls[k].sel # 0 => ~Doomed(calls[k].sel)
  BY DEF Loaded
<1>4. ASSUME NEW j \in Slots, j # k
      PROVE  calls'[j] = calls[j] /\ (Waits(j) => calls[j].newer < calls[k].newer)
  <2>1. ~(calls[j] # None /\ calls[j].newer > calls[k].newer)
    <3>. SUFFICES ASSUME calls[j] # None, calls[j].newer > calls[k].newer PROVE FALSE
      OBVIOUS
    <3>1. Waits(j)
      BY <1>1, <1>4 DEF TrafficInv, CallOK
    <3>2. Waits(j)' /\ calls'[j].overtaken
      BY <1>0, <1>1, <1>4, <3>1, LoadedIs DEF Waits
    <3>. QED  BY <3>2 DEF Disordered
  <2>2. calls'[j] = calls[j]
    BY <1>0, <1>4, <2>1, LoadedIs
  <2>3. Waits(j) => calls[j] # None /\ calls[j].newer \in Nat /\ calls[j].newer # calls[k].newer
    BY <1>0, <1>1, <1>4, Parts DEF PageGood, OrderInv, Waits, IInv, Traffic, CallType
  <2>. QED  BY <1>1, <2>1, <2>2, <2>3
<1>5. /\ ~Waits(k)' /\ ~Asked(k)' /\ ~Wrote(k)'
      /\ \A j \in Slots : j # k => /\ Waits(j)' <=> Waits(j)
                                   /\ Asked(j)' <=> Asked(j)
                                   /\ Wrote(j)' <=> Wrote(j)
  BY <1>1, <1>4, SameSlot DEF Waits, Asked, Wrote
<1>6. \A j \in Slots : \A c : j # k /\ Renews(j, c) => Renews(j, c)'
  BY <1>2, <1>4, SameRenews
<1>7. \/ selected' = selected
      \/ selected' = None
      \/ selected' \in calls[k].rows /\ selected'.cam = calls[k].sel /\ ~Doomed(calls[k].sel)
  BY <1>3, ShownIs
<1>8. ListInv'
  <2>1. CASE \E j \in Slots : Asked(j) \/ Wrote(j)
    BY <1>1, <1>5, <2>1 DEF ListInv
  <2>2. ASSUME NEW j \in Slots, Waits(j), calls[j].newer = 0, calls[j].rows = Rows(cams), j # k
        PROVE  ListInv'
    BY <1>2, <1>4, <1>5, <2>2 DEF ListInv
  <2>3. CASE calls[k].newer = 0 /\ calls[k].rows = Rows(cams)
    <3>1. \A j \in Slots : j # k => ~Waits(j)
      <4>1. \A j \in Slots : Waits(j) => calls[j].newer \in Nat
        BY <1>0, Parts DEF Waits, IInv, Traffic, CallType
      <4>. QED  BY <1>4, <2>3, <4>1
    <3>. QED  BY <1>2, <1>5, <2>3, <3>1 DEF ListInv
  <2>. QED  BY <1>1, <2>1, <2>2, <2>3 DEF PageGood, ListInv
<1>9. OrderInv'
  <2>1. \A j, i \in Slots : j # i /\ Waits(j)' /\ Waits(i)' => calls'[j].newer # calls'[i].newer
    BY <1>4, <1>5 DEF OrderInv, PageGood
  <2>. QED  BY <2>1 DEF OrderInv
<1>10. ASSUME NEW r \in calls[k].rows, Stale(r) PROVE \E i \in Slots : Renews(i, r.cam)'
  <2>1. PICK i \in Slots : Renews(i, r.cam) /\ (Waits(i) => calls[i].newer < calls[k].newer)
    BY <1>1, <1>10 DEF PageGood, RowsInv
  <2>2. i # k
    BY <1>1, <2>1
  <2>. QED  BY <1>6, <2>1, <2>2
<1>11. selected' # None /\ Stale(selected)' => \E i \in Slots : Renews(i, selected.cam)'
  <2>1. ASSUME NEW r, selected' = r, r # None, Stale(r) PROVE \E i \in Slots : Renews(i, r.cam)'
    <3>1. CASE r \in calls[k].rows
      BY <1>10, <2>1, <3>1
    <3>2. CASE r \notin calls[k].rows
      <4>1. calls[k].sel = 0 /\ selected = r
        BY <2>1, <3>2, ShownIs
      <4>2. PICK i \in Slots : Renews(i, r.cam)
        BY <2>1, <4>1 DEF PageGood, RowsInv
      <4>3. r.cam # 0
        BY <2>1 DEF Stale, IInv, TypeOK, CameraIds
      <4>4. i # k
        BY <4>1, <4>2, <4>3 DEF Renews
      <4>. QED  BY <1>6, <4>2, <4>4
    <3>. QED  BY <3>1, <3>2
  <2>2. ASSUME NEW r, selected' = r, r # None, Stale(r)' PROVE \E i \in Slots : Renews(i, r.cam)'
    BY <1>2, <2>1, <2>2
  <2>. QED  BY <2>2 DEF Stale
<1>12. ASSUME NEW j \in Slots, Waits(j)'
       PROVE  /\ calls'[j].ok
              /\ \A r \in calls'[j].rows : Stale(r)' =>
                     \E i \in Slots : /\ Renews(i, r.cam)'
                                      /\ Waits(i)' => calls'[i].newer < calls'[j].newer
  <2>1. j # k /\ Waits(j) /\ calls'[j] = calls[j] /\ calls[j].ok /\ calls[j].newer \in Nat
        /\ calls[j].newer < calls[k].newer
    BY <1>0, <1>4, <1>5, <1>12, Parts DEF RowsInv, PageGood, Waits, IInv, Traffic, CallType
  <2>2. ASSUME NEW r \in calls[j].rows, Stale(r)
        PROVE  \E i \in Slots : Renews(i, r.cam)' /\ (Waits(i)' => calls'[i].newer < calls'[j].newer)
    <3>1. PICK i \in Slots : Renews(i, r.cam) /\ (Waits(i) => calls[i].newer < calls[j].newer)
      BY <2>1, <2>2 DEF RowsInv, PageGood
    <3>2. i # k
      BY <1>1, <2>1, <3>1
    <3>. QED  BY <1>4, <1>5, <1>6, <2>1, <3>1, <3>2
  <2>. QED  BY <1>2, <2>1, <2>2
<1>13. RowsInv'
  <2>1. \A r \in list' : Stale(r)' => \E i \in Slots : Renews(i, r.cam)'
    BY <1>2, <1>10
  <2>. QED  BY <1>11, <1>12, <2>1 DEF RowsInv
<1>14. PanelInv'
  <2>1. ASSUME NEW j \in Slots, calls'[j] # None, calls'[j].op = "remove",
               selected' # None, selected'.cam = calls'[j].cam
        PROVE  calls'[j].sel = calls'[j].cam
    BY <1>1, <1>4, <1>7, <2>1 DEF PanelInv, PageGood, Doomed
  <2>2. ASSUME selected' # None, selected'.cam \notin cams'
        PROVE  \E j \in Slots : /\ Wrote(j)' /\ calls'[j].op = "remove"
                                /\ calls'[j].cam = selected'.cam /\ calls'[j].sel = selected'.cam
    <3>1. selected' = selected
      BY <1>2, <1>7, <2>2 DEF Doomed
    <3>2. PICK j \in Slots : /\ Wrote(j) /\ calls[j].op = "remove"
                             /\ calls[j].cam = selected.cam /\ calls[j].sel = selected.cam
      BY <1>2, <2>2, <3>1 DEF PanelInv, PageGood
    <3>. QED  BY <1>1, <1>4, <1>5, <3>1, <3>2
  <2>. QED  BY <2>1, <2>2 DEF PanelInv
<1>. QED  BY <1>8, <1>9, <1>13, <1>14 DEF PageGood

\* A click shows a row of the list, whose camera is there and stays.
LEMMA SelectPage ==
    ASSUME IInv, PageGood, ~astray', Select
    PROVE  PageGood'
<1>1. PICK r \in list : ShowOnClick(r) /\ ~Doomed(r.cam)
  BY DEF Select
<1>2. /\ UNCHANGED <<cams, zones, list, calls>> /\ selected' = r
      /\ \A s : Stale(s)' <=> Stale(s)
  BY <1>1, SameTables DEF Select, ShowOnClick, tables, traffic
<1>3. \A j \in Slots : /\ calls'[j] = calls[j]
                       /\ Asked(j)' <=> Asked(j)
                       /\ Waits(j)' <=> Waits(j)
                       /\ Wrote(j)' <=> Wrote(j)
                       /\ \A c : Renews(j, c)' <=> Renews(j, c)
  BY <1>2, SameSlot, SameRenews, SameTables
<1>4. ListInv'
  BY <1>2, <1>3, SameTables DEF PageGood, ListInv
<1>5. OrderInv'
  BY <1>3 DEF PageGood, OrderInv
<1>6. RowsInv'
  <2>1. \A s \in list' : Stale(s)' => \E i \in Slots : Renews(i, s.cam)'
    BY <1>2, <1>3 DEF PageGood, RowsInv
  <2>2. selected' # None /\ Stale(selected)' => \E i \in Slots : Renews(i, selected.cam)'
    <3>1. Stale(r)' => \E i \in Slots : Renews(i, r.cam)'
      BY <1>2, <2>1
    <3>. QED  BY <1>2, <3>1 DEF Stale
  <2>3. \A j \in Slots : Waits(j)' =>
           /\ calls'[j].ok
           /\ \A s \in calls'[j].rows : Stale(s)' =>
                  \E i \in Slots : Renews(i, s.cam)' /\ (Waits(i)' => calls'[i].newer < calls'[j].newer)
    BY <1>2, <1>3 DEF PageGood, RowsInv
  <2>. QED  BY <2>1, <2>2, <2>3 DEF RowsInv
<1>7. PanelInv'
  BY <1>1, <1>2 DEF PanelInv, Doomed
<1>. QED  BY <1>4, <1>5, <1>6, <1>7 DEF PageGood

\* The other steps leave loads alone, or close the panel of a camera that is deleted.
LEMMA OtherPage ==
    ASSUME IInv, TrafficInv, PageGood,
           \/ \E k \in Slots : Saved(k) \/ Dropped(k) \/ Changed(k) \/ Save(k) \/ PageCall(k)
           \/ Forget(Other) \/ OtherCall
           \/ Leave \/ StartDraft \/ Draw \/ Effect \/ StartWorker \/ StopWorker \/ UNCHANGED vars
    PROVE  PageGood'
<1>0. Slots \subseteq Requests /\ Other \in Requests /\ Other \notin Slots
  BY ConfigAssumption DEF ConfigAssumption, Requests
<1>1. ASSUME UNCHANGED <<tables, list>>, selected' = selected \/ selected' = None,
             \A j \in Slots : calls'[j] = calls[j]
      PROVE  PageGood'
  <2>1. ListInv' /\ RowsInv' /\ OrderInv'
    BY <1>1, Kept DEF PageGood, tables
  <2>2. PanelInv'
    BY <1>1, SameSlot, PanelKept DEF PageGood, tables
  <2>. QED  BY <2>1, <2>2 DEF PageGood
<1>2. ASSUME NEW k \in Slots, Saved(k) \/ Dropped(k) \/ Changed(k) PROVE PageGood'
  <2>1. /\ calls[k] # None /\ calls[k].stage = "done" /\ calls[k].op # "load"
        /\ \A j \in Slots \ {k} : calls'[j] = calls[j]
        /\ ~calls[k].ok => calls'[k] = None
        /\ calls[k].ok => /\ calls'[k] # None /\ calls'[k].op = "load" /\ calls'[k].stage = "sent"
                          /\ calls[k].op \in ZoneOps => calls'[k].sel = calls[k].sel
        /\ UNCHANGED <<tables, list>>
        /\ selected' = selected \/ selected' = None
        /\ calls[k].ok /\ calls[k].op = "remove" /\ calls[k].sel = calls[k].cam => selected' = None
    BY <1>0, <1>2, ReplyIs
  <2>2. /\ ~Waits(k) /\ ~Waits(k)' /\ ~Asked(k) /\ (Wrote(k) => Asked(k)')
    BY <2>1 DEF Waits, Asked, Wrote
  <2>3. \A c : Renews(k, c) => Renews(k, c)'
    BY <2>1, <2>2 DEF Renews, Wrote
  <2>4. ListInv' /\ RowsInv' /\ OrderInv'
    BY <2>1, <2>2, <2>3, Kept DEF PageGood, tables
  <2>5. calls'[k] # None => calls'[k].op # "remove"
    BY <2>1
  <2>6. Wrote(k) /\ calls[k].op = "remove" /\ calls[k].sel = calls[k].cam => selected' = None
    BY <2>1 DEF Wrote
  <2>7. PanelInv'
    BY <2>1, <2>5, <2>6, SameSlot, PanelKept DEF PageGood, tables
  <2>. QED  BY <2>4, <2>7 DEF PageGood
<1>3. ASSUME NEW k \in Slots, Save(k) \/ PageCall(k) PROVE PageGood'
  <2>1. PICK c \in CallType : Send(k, c) /\ c.op # "load" /\ c.stage = "sent" /\ (c.op = "remove" => c.sel = Sel)
    BY <1>0, <1>3, SentIs
  <2>2. /\ calls[k] = None /\ calls'[k] = c /\ \A j \in Slots \ {k} : calls'[j] = calls[j]
        /\ UNCHANGED <<tables, list, selected>>
    BY <1>0, <2>1, Parts DEF IInv, Traffic, Send, page
  <2>3. /\ ~Waits(k) /\ ~Asked(k) /\ ~Wrote(k) /\ ~Waits(k)'
        /\ \A x : ~Renews(k, x)
    BY <2>1, <2>2 DEF Waits, Asked, Wrote, Renews
  <2>4. ListInv' /\ RowsInv' /\ OrderInv'
    BY <2>2, <2>3, Kept DEF PageGood, tables
  <2>5. calls'[k].op = "remove" => (selected # None => calls'[k].sel = selected.cam)
    BY <2>1, <2>2 DEF Sel
  <2>6. PanelInv'
    BY <2>2, <2>3, <2>5, SameSlot, PanelKept DEF PageGood, tables
  <2>. QED  BY <2>4, <2>6 DEF PageGood
<1>4. CASE OtherCall
  <2>1. PICK c \in CallType : Send(Other, c)
    BY <1>0, <1>4, SentIs
  <2>. QED  BY <1>0, <1>1, <2>1 DEF Send, page
<1>5. CASE Forget(Other)
  BY <1>0, <1>1, <1>5 DEF Forget, page
<1>6. CASE Leave
  BY <1>1, <1>6, ShowNone DEF Leave, traffic
<1>7. CASE StartDraft \/ Draw \/ Effect \/ StartWorker \/ StopWorker \/ UNCHANGED vars
  BY <1>1, <1>7 DEF StartDraft, Draw, Effect, StartWorker, StopWorker, vars, traffic, page
<1>. QED  BY <1>2, <1>3, <1>4, <1>5, <1>6, <1>7

LEMMA PageKeeps == IInv /\ TrafficInv /\ PageInv /\ [Next]_vars => PageInv'
<1>. SUFFICES ASSUME IInv, TrafficInv, PageInv, [Next]_vars, ~astray', ~Disordered' PROVE PageGood'
  BY DEF PageInv, PageGood
<1>0. /\ Slots \subseteq Requests /\ Other \notin Slots
      /\ \A j \in Requests : j = Other \/ j \in Slots
  BY ConfigAssumption DEF ConfigAssumption, Requests
<1>1. ~Disordered /\ PageGood
  BY Excused DEF PageInv, PageGood
<1>2. ASSUME NEW k \in Requests, Handle(k) PROVE PageGood'
  <2>1. CASE Open(k)
    BY <1>1, <2>1, OpenPage
  <2>2. CASE Commit(k)
    <3>1. k # Other
      BY <2>2 DEF Commit
    <3>. QED  BY <1>0, <1>1, <2>2, <3>1, CommitPage
  <2>3. CASE Loaded(k)
    BY <1>0, <1>1, <2>3, LoadedPage DEF Loaded
  <2>4. CASE Saved(k) \/ Dropped(k) \/ Changed(k)
    <3>1. k \in Slots
      BY <1>0, <2>4 DEF Saved, Dropped, Changed
    <3>. QED  BY <1>1, <2>4, <3>1, OtherPage
  <2>5. CASE Forget(k)
    BY <1>1, <2>5, OtherPage DEF Forget
  <2>. QED  BY <1>2, <2>1, <2>2, <2>3, <2>4, <2>5 DEF Handle
<1>3. ASSUME NEW k \in Slots, Fail(k) PROVE FALSE
  BY <1>3 DEF Fail
<1>4. CASE Select
  BY <1>1, <1>4, SelectPage
<1>5. ASSUME NEW k \in Slots, Save(k) \/ PageCall(k) PROVE PageGood'
  BY <1>1, <1>5, OtherPage
<1>6. CASE OtherCall \/ Leave \/ StartDraft \/ Draw \/ Effect \/ StartWorker \/ StopWorker \/ UNCHANGED vars
  BY <1>1, <1>6, OtherPage
<1>. QED  BY <1>2, <1>3, <1>4, <1>5, <1>6 DEF Next, Requests

LEMMA PageStart == Init => TrafficInv /\ PageInv
<1>. SUFFICES ASSUME Init PROVE TrafficInv /\ PageInv
  OBVIOUS
<1>0. /\ Slots \subseteq Requests /\ Other \in Requests /\ Other \notin Slots
      /\ MaxCameras \in Nat /\ MaxZones \in Nat /\ 0 \in 0..MaxCameras
  BY ConfigAssumption DEF ConfigAssumption, Requests
<1>1. PICK k \in Slots : calls = [j \in Slots \cup {Other} |-> IF j = k THEN Load(0) ELSE None]
  BY DEF Init
<1>2. /\ calls[k] = Load(0) /\ \A j \in Requests \ {k} : calls[j] = None
  BY <1>0, <1>1 DEF Requests
<1>3. /\ calls[k] # None /\ calls[k].op = "load" /\ calls[k].stage = "sent" /\ calls[k].ok
      /\ calls[k].newer = 0 /\ ~calls[k].overtaken
  <2>1. IInv
    BY TypeInit DEF IInv, Init, ZonesHaveCameras, EarlyInv, Load, Call
  <2>. QED  BY <1>0, <1>2, <2>1, LoadIs
<1>4. TrafficInv
  <2>1. \A j \in Slots : calls[j] # None => CallOK(j)
    BY <1>0, <1>2, <1>3 DEF CallOK, Waits, ZoneOps
  <2>2. \A y, z \in zones : y.id <= lastZone /\ (y.id = z.id => y = z)
    BY <1>0 DEF Init
  <2>3. list = {} /\ selected = None /\ \A c \in cams : c <= lastCam
    BY <1>0 DEF Init
  <2>4. calls[Other] = None
    BY <1>0, <1>2
  <2>. QED  BY <2>1, <2>2, <2>3, <2>4 DEF TrafficInv
<1>5. \A j \in Slots : ~Waits(j) /\ (calls[j] = None \/ calls[j].op # "remove")
  BY <1>0, <1>2, <1>3 DEF Waits
<1>6. ListInv
  BY <1>3 DEF ListInv, Asked
<1>7. RowsInv /\ PanelInv /\ OrderInv
  BY <1>5 DEF Init, RowsInv, PanelInv, OrderInv
<1>. QED  BY <1>4, <1>6, <1>7 DEF PageInv

LEMMA KnownStart == Init => KnownInv
<1>. SUFFICES ASSUME Init PROVE KnownInv
  OBVIOUS
<1>1. \A k \in Slots : calls[k] # None => calls[k] = Load(0)
  BY DEF Init
<1>2. Load(0).op = "load" /\ Load(0).rows = {}
  BY DEF Load, Call
<1>. QED  BY <1>1, <1>2 DEF Init, KnownInv

\* A draft is only ever sent to another camera by a Save before the effect that drops it,
\* and then nothing of that camera is redrawn: the zone is not found under it, for any
\* number of cameras, zones and requests.
THEOREM DraftsGoHome == Spec => []StrayDraftsAreEarlyAndNew
<1>1. IInv /\ KnownInv => StrayDraftsAreEarlyAndNew
  BY DEF IInv, EarlyInv, KnownInv, PatchOK, StrayDraftsAreEarlyAndNew
<1>. QED  BY <1>1, Invariant, Inductive, TrafficStep, KnownStep, PageStart, KnownStart, PTL DEF Spec

\* When the page's last request is handled, its list is the tables' and its panel a row
\* of it, for any number of requests in any interleaving, unless answers were handled out
\* of the order they were read in, one failed, or another user changed the tables: every
\* write is followed by a load, and a row out of date is owed by one that is still to come.
THEOREM PageComesRound == Spec => []PageConverges
<1>1. IInv /\ PageInv => PageConverges
  <2>. SUFFICES ASSUME IInv, PageInv, \A k \in Slots : calls[k] = None, ~astray
                PROVE  list = Rows(cams) /\ (selected # None => selected \in list)
    BY DEF PageConverges
  <2>1. \A k \in Slots : /\ ~Waits(k) /\ ~Asked(k) /\ ~Wrote(k)
                         /\ \A c : ~Renews(k, c)
    BY DEF Waits, Asked, Wrote, Renews
  <2>2. ListInv /\ RowsInv /\ PanelInv
    BY <2>1 DEF PageInv, Disordered
  <2>3. list = Rows(cams)
    BY <2>1, <2>2 DEF ListInv
  <2>4. selected # None => selected.cam \in cams /\ selected = Now(selected.cam)
    BY <2>1, <2>2 DEF RowsInv, PanelInv, Stale
  <2>. QED  BY <2>3, <2>4, RowsAre
<1>. QED  BY <1>1, Invariant, Inductive, TrafficStep, PageKeeps, PageStart, PTL DEF Spec
=============================================================================
