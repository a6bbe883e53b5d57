------------------------ MODULE CameraPreviewProofs ------------------------
(***************************************************************************)
(* CameraPreview's type correctness and SettledShowsSelected, for every    *)
(* set of cameras.                                                         *)
(*                                                                         *)
(* The argument: wasOnline is what decides whether the poll loop asks for  *)
(* a token, and it is set only by an answer that also sets the URL.  While *)
(* clear holds those answers are for the selected camera, so a loop that   *)
(* skips the request has the right URL, and one that has just found the    *)
(* camera offline shows nothing.                                           *)
(***************************************************************************)
EXTENDS CameraPreview, TLAPS

\* The URL that a loop which asks for no token goes on with is its camera's.
UrlInv == clear /\ wasOnline /\ url # None => url.cam = cam

\* A loop that waits without wasOnline has found its camera offline.
WaitInv == poll = "waiting" /\ ~wasOnline => online # "yes"

IInv == TypeOK /\ UrlInv /\ WaitInv

-----------------------------------------------------------------------------
(* The operators                                                           *)

\* A new token is one of the camera it was asked for.
LEMMA MintType ==
    ASSUME TypeOK, NEW c \in Cameras
    PROVE  Mint(c) \in Urls /\ Mint(c).cam = c
BY DEF Mint, TypeOK, Urls

\* Rendering keeps the types and shows an <img> exactly when it has a URL.
LEMMA RenderType ==
    ASSUME TypeOK, NEW on \in {"unknown", "yes", "no"}, NEW u \in Urls \cup {None},
           Render(on, u)
    PROVE  /\ online' = on /\ url' = u
           /\ orphans' \subseteq Cameras
           /\ img' \in {"none", "request", "open", "broken", "frozen"}
           /\ img' # "none" => on = "yes" /\ u # None
<1>1. Held => url.cam \in Cameras
  BY DEF Held, TypeOK, Urls
<1>. QED  BY <1>1 DEF Render, TypeOK, Urls

\* openStream: the URL is gone, or is of the camera it was opened for.
LEMMA OpenType ==
    ASSUME TypeOK, NEW c \in Cameras, NEW on \in {"unknown", "yes", "no"},
           OpenStream(c, on)
    PROVE  /\ online' \in {online, on} /\ url' \in Urls \cup {None}
           /\ orphans' \subseteq Cameras
           /\ img' \in {"none", "request", "open", "broken", "frozen"}
           /\ img' # "none" => online' = "yes" /\ url' # None
           /\ clear' \in BOOLEAN
           /\ clear' => clear /\ c = cam /\ url'.cam = c
<1>1. online \in {"unknown", "yes", "no"}
  BY DEF TypeOK
<1>2. CASE up /\ Render(online, Mint(c)) /\ clear' = (clear /\ c = cam /\ Mint(c) # url)
  BY <1>1, <1>2, MintType, RenderType
<1>3. CASE ~up /\ Render(on, None) /\ clear' = FALSE
  BY <1>3, RenderType
<1>. QED  BY <1>2, <1>3 DEF OpenStream

-----------------------------------------------------------------------------
(* Type correctness                                                        *)

LEMMA TypeInit == Init => TypeOK
BY DEF Init, TypeOK

LEMMA TypeStep == TypeOK /\ [Next]_vars => TypeOK'
<1>. SUFFICES ASSUME TypeOK, [Next]_vars PROVE TypeOK'
  OBVIOUS
<1>. USE PreviewAssumption
<1>1. ASSUME NEW c \in Cameras,
             Push(c) \/ Stop(c) \/ Expire(c) \/ Release(c) \/ Select(c)
      PROVE  TypeOK'
  <2>1. CASE Push(c) \/ Stop(c)
    BY <1>1, <2>1 DEF Push, Stop, TypeOK
  <2>2. CASE Expire(c) \/ Release(c)
    BY <1>1, <2>2 DEF Expire, Release, TypeOK, backend
  <2>3. CASE Select(c)
    BY <1>1, <2>3 DEF Select, TypeOK, backend
  <2>. QED  BY <1>1, <2>1, <2>2, <2>3
<1>2. ASSUME NEW c \in Cameras, StaleOpened(c) PROVE TypeOK'
  BY <1>2, OpenType DEF StaleOpened, TypeOK, backend, Urls
<1>3. ASSUME NEW c \in Cameras, Reopened(c) PROVE TypeOK'
  BY <1>3, OpenType DEF Reopened, TypeOK, backend, Urls
<1>4. CASE SetUp
  BY <1>4 DEF SetUp, TypeOK
<1>5. CASE TokenAges
  <2>1. url' \in Urls
    BY <1>5 DEF TokenAges, TypeOK, Urls
  <2>. QED  BY <1>5, <2>1 DEF TokenAges, TypeOK, backend
<1>6. CASE Connect
  BY <1>6 DEF Connect, TypeOK, backend
<1>7. CASE Close
  <2>1. Held => url.cam \in Cameras
    BY DEF Held, TypeOK, Urls
  <2>. QED  BY <1>7, <2>1 DEF Close, TypeOK, backend
<1>8. CASE PollAnswered
  <2>1. Render(IF up /\ cam \in cached THEN "yes" ELSE "no", url)
    BY <1>8 DEF PollAnswered, SnapshotOk
  <2>2. url \in Urls \cup {None}
    BY DEF TypeOK, Urls
  <2>. QED  BY <1>8, <2>1, <2>2, RenderType DEF PollAnswered, SnapshotOk, WasOnlineAfter, TypeOK, backend, Urls
<1>9. CASE PollOpened
  BY <1>9, OpenType DEF PollOpened, TypeOK, backend, Urls
<1>10. CASE PollAgain
  BY <1>10 DEF PollAgain, TypeOK, backend
<1>11. CASE Cut
  <2>1. url.cam \in Cameras
    BY <1>11 DEF Cut, TypeOK, Urls
  <2>. QED  BY <1>11, <2>1 DEF Cut, TypeOK, backend
<1>12. CASE UNCHANGED vars
  BY <1>12 DEF vars, TypeOK, backend
<1>. QED  BY <1>1, <1>2, <1>3, <1>4, <1>5, <1>6, <1>7, <1>8, <1>9, <1>10, <1>11, <1>12
          DEF Next, Component

\* Every variable has its type, and what the component showed is gone with it.
THEOREM TypeCorrect == Spec => []TypeOK
BY TypeInit, TypeStep, PTL DEF Spec

-----------------------------------------------------------------------------
(* The inductive invariant                                                 *)

LEMMA Inductive == IInv /\ [Next]_vars => IInv'
<1>. SUFFICES ASSUME IInv, [Next]_vars PROVE UrlInv' /\ WaitInv'
  BY TypeStep DEF IInv
<1>1. TypeOK /\ online \in {"unknown", "yes", "no"}
  BY DEF IInv, TypeOK
<1>. USE PreviewAssumption DEF IInv, UrlInv, WaitInv, backend
<1>2. ASSUME NEW c \in Cameras, Push(c) \/ Stop(c) \/ Expire(c) \/ Release(c)
      PROVE  UrlInv' /\ WaitInv'
  BY <1>2 DEF Push, Stop, Expire, Release
<1>3. ASSUME NEW c \in Cameras, Select(c) PROVE UrlInv' /\ WaitInv'
  BY <1>3 DEF Select, TypeOK
<1>4. ASSUME NEW c \in Cameras, StaleOpened(c) PROVE UrlInv' /\ WaitInv'
  BY <1>1, <1>4, OpenType DEF StaleOpened
<1>5. ASSUME NEW c \in Cameras, Reopened(c) PROVE UrlInv' /\ WaitInv'
  BY <1>1, <1>5, OpenType DEF Reopened
<1>6. CASE SetUp \/ Connect \/ Cut \/ Close \/ PollAgain
  BY <1>6 DEF SetUp, Connect, Cut, Close, PollAgain
<1>7. CASE TokenAges
  BY <1>7, <1>1 DEF TokenAges, TypeOK
<1>8. CASE PollAnswered
  BY <1>8 DEF PollAnswered, SnapshotOk, Render, WasOnlineAfter
<1>9. CASE PollOpened
  BY <1>1, <1>9, OpenType DEF PollOpened, TypeOK
<1>10. CASE UNCHANGED vars
  BY <1>10 DEF vars
<1>. QED  BY <1>2, <1>3, <1>4, <1>5, <1>6, <1>7, <1>8, <1>9, <1>10 DEF Next, Component

\* Under the name of the selected camera the settled preview shows the stream of
\* that camera: neither a stream opened again after an error nor a poll that was
\* cancelled can put another camera's picture there unless clear has recorded it.
THEOREM SettledPreview == Spec => []SettledShowsSelected
<1>1. Init => IInv
  BY TypeInit DEF Init, IInv, UrlInv, WaitInv
<1>2. IInv => SettledShowsSelected
  BY DEF IInv, UrlInv, WaitInv, TypeOK, SettledShowsSelected
<1>. QED  BY <1>1, <1>2, Inductive, PTL DEF Spec
=============================================================================
