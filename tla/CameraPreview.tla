--------------------------- MODULE CameraPreview ---------------------------
(***************************************************************************)
(* The live preview of a camera: the frame the vision worker caches in     *)
(* Redis (_maybe_push_preview of streaming/camera_worker.py), the          *)
(* snapshot, stream-token and stream endpoints (backend/app/api/v1/        *)
(* cameras.py, with core/deps.py and core/security.py) and the component   *)
(* that polls the one and shows the other (frontend/src/components/        *)
(* CameraStream.tsx).                                                      *)
(*                                                                         *)
(* The component is not remounted when another camera is selected:         *)
(* online, streamUrl and wasOnline keep their values, and a token request  *)
(* that is under way still sets streamUrl when it is answered.  An <img>   *)
(* exists for as long as one URL is shown; each one is a connection.       *)
(***************************************************************************)
CONSTANTS Cameras, None

\* A stream URL: its camera and how old its token is.
Urls == [cam : Cameras, age : {"now", "valid", "expired"}]

ASSUME PreviewAssumption == None \notin Cameras \cup Urls

VARIABLES
    delivering,  \* the cameras whose worker gets frames
    cached,      \* the cameras with a frame in Redis (its key lives five seconds)
    orphans,     \* the cameras for which a server thread serves a client that left
                 \* (how many threads is abstracted)
    up,          \* whether requests to the backend succeed
    cam,         \* cameraId, None while no preview is open
    online, url, wasOnline,  \* state and ref of the component
    poll,        \* the poll loop: the snapshot asked, the token asked, or its timer
    stale,       \* token requests of polls that were cancelled, by camera
    reopen,      \* token requests of handleStreamError, by camera
    img,         \* the <img> and its connection; "frozen" once that is gone
                 \* without an error event
    clear        \* history: since the preview was opened, or last found its camera
                 \* offline, no token request failed, returned the token it had,
                 \* or was answered for an earlier camera

backend == <<delivering, cached, up>>
vars == <<backend, orphans, cam, online, url, wasOnline, poll, stale, reopen, img,
          clear>>

Init ==
    /\ delivering = {} /\ cached = {} /\ orphans = {} /\ up = TRUE
    /\ cam = None /\ online = "unknown" /\ url = None /\ wasOnline = FALSE
    /\ poll = "none" /\ stale = {} /\ reopen = {} /\ img = "none"
    /\ clear = TRUE

-----------------------------------------------------------------------------
(* The worker, Redis and the streaming thread                              *)

\* The worker gets frames of a camera, and _maybe_push_preview sets the key
\* again long before it expires; or it gets none any more.
Push(c) ==
    /\ c \notin delivering
    /\ delivering' = delivering \cup {c} /\ cached' = cached \cup {c}
    /\ UNCHANGED <<up, orphans, cam, online, url, wasOnline, poll, stale, reopen, img,
                   clear>>

Stop(c) ==
    /\ c \in delivering /\ delivering' = delivering \ {c}
    /\ UNCHANGED <<cached, up, orphans, cam, online, url, wasOnline, poll, stale,
                   reopen, img, clear>>

Expire(c) ==
    /\ c \in cached \ delivering
    /\ cached' = cached \ {c}
    /\ UNCHANGED <<delivering, up, orphans, cam, online, url, wasOnline, poll, stale,
                   reopen, img, clear>>

SetUp ==
    /\ up' = ~up
    /\ UNCHANGED <<delivering, cached, orphans, cam, online, url, wasOnline, poll,
                   stale, reopen, img, clear>>

\* _mjpeg_parts yields only when there is a frame, and only at a yield does
\* the server notice that the client is gone.
Release(c) ==
    /\ c \in orphans \cap cached
    /\ orphans' = orphans \ {c}
    /\ UNCHANGED <<backend, cam, online, url, wasOnline, poll, stale, reopen, img,
                   clear>>

-----------------------------------------------------------------------------
(* Rendering                                                               *)

\* create_stream_token: the times of a token are whole seconds, so that two
\* tokens of one camera and second are the same string.
Mint(c) ==
    IF url # None /\ url.cam = c /\ url.age = "now" THEN url
    ELSE [cam |-> c, age |-> "now"]

\* Whether the server holds, or will hold, a thread for the <img>.
Held == img = "open" \/ (img = "request" /\ url.age # "expired" /\ up)

\* A new online and streamUrl: the <img> of another URL is another element.
Render(on, u) ==
    LET before == IF online = "yes" THEN url ELSE None
        after == IF on = "yes" THEN u ELSE None IN
    /\ online' = on /\ url' = u
    /\ IF after = before THEN UNCHANGED <<img, orphans>>
       ELSE /\ img' = IF after = None THEN "none" ELSE "request"
            /\ orphans' = IF Held THEN orphans \cup {url.cam} ELSE orphans

\* A minute passes in two steps: the second of the token, then its lifetime,
\* which is longer than an <img> takes to connect.
TokenAges ==
    /\ url # None
    /\ url.age = "now" \/ (url.age = "valid" /\ img # "request")
    /\ url' = [url EXCEPT !.age = IF @ = "now" THEN "valid" ELSE "expired"]
    /\ UNCHANGED <<backend, orphans, cam, online, wasOnline, poll, stale, reopen,
                   img, clear>>

\* The browser requests the stream; require_viewer_via_header_or_query wants
\* a token of this camera that has not expired.
Connect ==
    /\ img = "request"
    /\ IF up /\ url.age # "expired"
       THEN img' = "open" /\ UNCHANGED reopen
       ELSE img' = "broken" /\ reopen' = reopen \cup {cam}
    /\ UNCHANGED <<backend, orphans, cam, online, url, wasOnline, poll, stale, clear>>

\* Mutant: the error of a stream that was open is not handled.
CutUnheard ==
    /\ img = "open" /\ img' \in {"broken", "frozen"}
    /\ orphans' \in {orphans, orphans \cup {url.cam}}
    /\ UNCHANGED <<backend, cam, online, url, wasOnline, poll, stale, reopen, clear>>
\* A stream breaks off: the backend restarts, a proxy or the network drops it.
\* The browser reports an error to the <img>, or keeps the last picture and says
\* nothing; the server thread ended with the connection or has yet to notice.
Cut ==
    /\ img = "open"
    /\ \/ img' = "broken" /\ reopen' = reopen \cup {cam}
       \/ img' = "frozen" /\ UNCHANGED reopen
    /\ orphans' \in {orphans, orphans \cup {url.cam}}
    /\ UNCHANGED <<backend, cam, online, url, wasOnline, poll, stale, clear>>

-----------------------------------------------------------------------------
(* The component                                                           *)

\* The user opens the preview of a camera, or selects another camera.
Select(c) ==
    /\ c # cam
    /\ cam' = c /\ poll' = "asking"
    /\ stale' = IF poll = "token" THEN stale \cup {cam} ELSE stale
    /\ clear' = (cam = None)
    /\ UNCHANGED <<backend, orphans, online, url, wasOnline, reopen, img>>

\* Mutant: the clean-up does not cancel the poll loop.
CloseUncancelled ==
    /\ cam # None
    /\ cam' = None /\ online' = "unknown" /\ url' = None /\ wasOnline' = FALSE
    /\ stale' = {} /\ reopen' = {} /\ img' = "none"
    /\ orphans' = IF Held THEN orphans \cup {url.cam} ELSE orphans
    /\ clear' = TRUE
    /\ UNCHANGED <<backend, poll>>

\* The preview is closed, or replaced by the zone editor.
Close ==
    /\ cam # None
    /\ cam' = None /\ online' = "unknown" /\ url' = None /\ wasOnline' = FALSE
    /\ poll' = "none" /\ stale' = {} /\ reopen' = {} /\ img' = "none"
    /\ orphans' = IF Held THEN orphans \cup {url.cam} ELSE orphans
    /\ clear' = TRUE
    /\ UNCHANGED backend

\* Mutant: wasOnline is never reset.
WasOnlineSticks(ok) == wasOnline \/ ok
WasOnlineAfter(ok) == ok

\* snapshot_camera: the frame of the camera is in Redis.
SnapshotOk == up /\ cam \in cached

\* The snapshot request is answered.
PollAnswered ==
    LET ok == SnapshotOk IN
    /\ poll = "asking"
    /\ Render(IF ok THEN "yes" ELSE "no", url)
    /\ IF ok /\ ~wasOnline
       THEN poll' = "token" /\ UNCHANGED wasOnline
       ELSE poll' = "waiting" /\ wasOnline' = WasOnlineAfter(ok)
    /\ clear' = (clear \/ ~ok)
    /\ UNCHANGED <<backend, cam, stale, reopen>>

\* openStream, for the camera of the closure that called it, and what becomes
\* of online and streamUrl if it fails.
OpenStream(c, onlineIfFailed) ==
    \/ /\ up /\ Render(online, Mint(c))
       /\ clear' = (clear /\ c = cam /\ Mint(c) # url)
    \/ ~up /\ Render(onlineIfFailed, None) /\ clear' = FALSE

\* Mutant: a failed openStream is not caught and ends the loop.
PollOpenedUncaught ==
    /\ poll = "token"
    /\ OpenStream(cam, online)
    /\ IF up THEN poll' = "waiting" /\ wasOnline' = TRUE
              ELSE poll' = "none" /\ UNCHANGED wasOnline
    /\ UNCHANGED <<backend, cam, stale, reopen>>

\* The token request of the poll loop is answered.
PollOpened ==
    /\ poll = "token"
    /\ OpenStream(cam, online)
    /\ poll' = "waiting" /\ wasOnline' = TRUE
    /\ UNCHANGED <<backend, cam, stale, reopen>>

\* The same in a poll that was cancelled meanwhile: it goes on to the end but
\* sets no timer.
StaleOpened(c) ==
    /\ c \in stale
    /\ OpenStream(c, online)
    /\ stale' = stale \ {c} /\ wasOnline' = TRUE
    /\ UNCHANGED <<backend, cam, poll, reopen>>

\* handleStreamError
Reopened(c) ==
    /\ c \in reopen
    /\ OpenStream(c, "no")
    /\ reopen' = reopen \ {c}
    /\ UNCHANGED <<backend, cam, poll, stale, wasOnline>>

PollAgain ==
    /\ poll = "waiting" /\ poll' = "asking"
    /\ UNCHANGED <<backend, orphans, cam, online, url, wasOnline, stale, reopen, img,
                   clear>>

Component == PollAnswered \/ PollOpened \/ PollAgain

Next ==
    \/ \E c \in Cameras : Push(c) \/ Stop(c) \/ Expire(c) \/ Release(c)
                          \/ Select(c) \/ StaleOpened(c) \/ Reopened(c)
    \/ SetUp \/ TokenAges \/ Connect \/ Cut \/ Close \/ Component

\* Requests are answered, the timer fires, Redis expires its keys and
\* the generator goes round its loop.
Fairness ==
    /\ WF_vars(Component) /\ WF_vars(Connect)
    /\ \A c \in Cameras : /\ WF_vars(StaleOpened(c)) /\ WF_vars(Reopened(c))
                          /\ WF_vars(Expire(c)) /\ WF_vars(Release(c))

Spec == Init /\ [][Next]_vars /\ Fairness

-----------------------------------------------------------------------------
(* Properties                                                              *)

\* Every variable has its type; nothing of the component outlives the preview,
\* and an <img> has a URL.
TypeOK ==
    /\ delivering \subseteq Cameras /\ cached \subseteq Cameras
    /\ orphans \subseteq Cameras /\ up \in BOOLEAN
    /\ cam \in Cameras \cup {None} /\ online \in {"unknown", "yes", "no"}
    /\ url \in Urls \cup {None}
    /\ wasOnline \in BOOLEAN /\ poll \in {"none", "asking", "token", "waiting"}
    /\ stale \subseteq Cameras /\ reopen \subseteq Cameras
    /\ img \in {"none", "request", "open", "broken", "frozen"}
    /\ clear \in BOOLEAN
    /\ cam = None => poll = "none" /\ url = None /\ stale = {} /\ reopen = {}
    /\ img # "none" => online = "yes" /\ url # None

\* A preview that stays open shows that its camera stopped, and closes its
\* stream: the poll loop ends neither at a failed request nor at a change of
\* camera.
OutageShown ==
    \A c \in Cameras :
        <>[](cam = c /\ c \notin delivering) => <>[](online = "no" /\ img = "none")

\* A camera that delivers always comes back in an open preview, and in the end
\* with frames of this camera only, whatever outages, expired tokens and streams
\* that failed to open or broke off came before.  Not so (wasOnline: the loop then
\* asks for no stream) if a stream died without an error event, a token request
\* failed or returned the same token, or the camera was changed, and the camera
\* was not seen offline since.
PreviewComesBack ==
    \A c \in Cameras :
        <>[](cam = c /\ c \in delivering /\ up /\ clear /\ img # "frozen")
            => []<>(img = "open") /\ <>[](url # None /\ url.cam = c)

\* A preview that stays open follows its camera, both ways.
PreviewFollowsCamera == OutageShown /\ PreviewComesBack

\* The stream that is shown is the selected camera's once the poll loop has
\* settled: only a token request that is still to be answered, or what clear
\* excludes, can leave another camera's picture under this one's name.
SettledShowsSelected ==
    clear /\ poll = "waiting" /\ img # "none" => url.cam = cam

\* The camera whose stream is shown is the selected one (CameraStream.tsx:11, "Live
\* MJPEG preview for a camera").
ShowsSelected == img # "none" => url.cam = cam

\* "a fresh one is fetched right before every (re)connect, never reused across
\* connects" (CameraStream.tsx:16-17): a token that arrives for a stream that
\* failed is another one than the stream had.
FreshTokenPerConnect == [][\A c \in Cameras : up /\ Reopened(c) => url' # url]_vars

\* "an offline camera never holds a dangling connection open on the backend"
\* (CameraStream.tsx:13-14).
NothingDangles == \A c \in Cameras : <>[](c \notin delivering) => <>[](c \notin orphans)
=============================================================================
