------------------------------ MODULE LiveFeed ------------------------------
(***************************************************************************)
(* The live detection view of the dashboard: the reconnecting WebSocket    *)
(* hook (frontend/src/hooks/useWebSocket.ts), the canvas that draws the    *)
(* last message (components/LiveDetectionCanvas.tsx) and the page that     *)
(* chooses the camera (pages/Dashboard.tsx).                               *)
(*                                                                         *)
(* Every run of the hook's effect is an effect of its own, with its own    *)
(* alive flag, socket, timer and backoff; they share the two state         *)
(* variables connected and last.  A closed socket reports its close later, *)
(* when the closing handshake is over; it delivers no message after        *)
(* close() (the WebSocket standard drops them).                            *)
(***************************************************************************)
EXTENDS Naturals, Sequences

CONSTANTS
    Cameras,
    None,
    MaxEffects,  \* runs of the effect: camera changes and visits of the page (bound)
    MaxFrames,   \* frames the backend publishes for each camera (bound)
    MaxOutages   \* how often the backend goes down or the token expires (bound)

\* What a message says: the frame of which camera.
FramesOf == [camera : Cameras, n : 1..MaxFrames]

ASSUME LiveAssumption ==
    /\ MaxEffects \in Nat /\ MaxFrames \in Nat /\ MaxOutages \in Nat
    /\ None \notin Cameras \cup FramesOf

VARIABLES
    selected,   \* Dashboard's selected camera, None before the list is loaded
    effect,     \* the run of the effect that is mounted, 0 when the page is not
    effects,    \* how many runs there have been
    ws,         \* the socket of each effect
    of,         \* the camera of its path
    timer,      \* the effects with a reconnection scheduled
    backoff,    \* seconds
    connected, last,   \* the hook's state
    up, token,  \* the backend and the access token in localStorage
    outages,
    published,  \* frames published so far
    net,        \* frames on their way to each socket
    fresh,      \* history: a message has arrived since the path changed
    overtaken   \* history: an older socket's close came after this one's open

hook == <<effect, effects, ws, of, timer, backoff, connected, last, fresh, overtaken>>
world == <<up, token, outages, published>>
vars == <<selected, hook, world, net>>

Effects == 1..MaxEffects
Live(e) == ws[e] \in {"connecting", "refused", "open"}

Init ==
    /\ selected = None /\ effect = 0 /\ effects = 0
    /\ ws = [e \in Effects |-> "none"] /\ of = [e \in Effects |-> None]
    /\ timer = {} /\ backoff = [e \in Effects |-> 1]
    /\ connected = FALSE /\ last = None
    /\ up = TRUE /\ token = "good" /\ outages = 0
    /\ published = [c \in Cameras |-> 0] /\ net = [e \in Effects |-> <<>>]
    /\ fresh = FALSE /\ overtaken = FALSE

-----------------------------------------------------------------------------
(* The effect and its clean-up                                             *)

\* ws.close(): a socket that is closed already stays so.
Closed(e) == IF Live(e) THEN "closing" ELSE ws[e]

\* Mutants: the clean-up forgets the timer, or the socket.
CleanupKeepsTimer ==
    /\ timer' = timer
    /\ ws' = [e \in Effects |-> IF e = effect THEN Closed(e) ELSE ws[e]]
    /\ net' = [e \in Effects |-> IF e = effect THEN <<>> ELSE net[e]]
CleanupKeepsSocket == timer' = timer \ {effect} /\ ws' = ws /\ net' = net

\* The function the effect returns.
Cleanup ==
    /\ timer' = timer \ {effect}
    /\ ws' = [e \in Effects |-> IF e = effect THEN Closed(e) ELSE ws[e]]
    /\ net' = [e \in Effects |-> IF e = effect THEN <<>> ELSE net[e]]

\* The list of cameras arrives, or the user picks another camera: the old
\* effect is cleaned up and a new one runs.  connected and last stay.
Select(c) ==
    /\ effects < MaxEffects /\ c # selected
    /\ Cleanup
    /\ selected' = c /\ effect' = effects + 1 /\ effects' = effects + 1
    /\ of' = [of EXCEPT ![effects + 1] = c]
    /\ fresh' = FALSE /\ overtaken' = FALSE
    /\ UNCHANGED <<backoff, connected, last, world>>

\* The page is left, by the user or by api() after a 401; the next visit
\* starts with new state.
Unmount ==
    /\ effect # 0
    /\ Cleanup
    /\ selected' = None /\ effect' = 0
    /\ connected' = FALSE /\ last' = None /\ fresh' = FALSE /\ overtaken' = FALSE
    /\ UNCHANGED <<effects, of, backoff, world>>

\* The effect's first connect(), or the one its timer calls, with the token of
\* the moment.
Connect(e) ==
    /\ \/ e = effect /\ ws[e] = "none"
       \/ e \in timer
    /\ timer' = timer \ {e}
    /\ ws' = [ws EXCEPT ![e] = IF token = "good" THEN "connecting" ELSE "refused"]
    /\ UNCHANGED <<selected, effect, effects, of, backoff, connected, last, fresh,
                   overtaken, world, net>>

-----------------------------------------------------------------------------
(* The socket's events                                                     *)

\* setConnected and setLast do nothing once the page is gone.
Show(value, old) == IF effect = 0 THEN old ELSE value

\* Mutant: the badge is left as the close of the last socket set it.
OnOpenNoBadge(e) ==
    /\ ws[e] = "connecting" /\ up /\ token = "good"
    /\ ws' = [ws EXCEPT ![e] = "open"]
    /\ backoff' = [backoff EXCEPT ![e] = 1]
    /\ overtaken' = FALSE
    /\ UNCHANGED <<selected, effect, effects, of, timer, connected, last, fresh,
                   world, net>>

OnOpen(e) ==
    /\ ws[e] = "connecting" /\ up /\ token = "good"
    /\ ws' = [ws EXCEPT ![e] = "open"]
    /\ connected' = Show(TRUE, connected)
    /\ backoff' = [backoff EXCEPT ![e] = 1]
    /\ overtaken' = FALSE
    /\ UNCHANGED <<selected, effect, effects, of, timer, last, fresh, world, net>>

OnMessage(e) ==
    /\ ws[e] = "open" /\ net[e] # <<>>
    /\ last' = Show(Head(net[e]), last)
    /\ fresh' = (fresh \/ e = effect)
    /\ net' = [net EXCEPT ![e] = Tail(@)]
    /\ UNCHANGED <<selected, effect, effects, ws, of, timer, backoff, connected,
                   overtaken, world>>

\* Mutant: the reconnection is not scheduled when the server refused.
RetryUnlessRefused(e) == e = effect /\ ws[e] = "open"
Retry(e) == e = effect

\* Mutant: the backoff has no limit.
LongerUnlimited(b) == 2 * b
Longer(b) == IF 2 * b < 15 THEN 2 * b ELSE 15

\* onclose: refused, dropped, or the end of the handshake close() began.
OnClose(e) ==
    /\ \/ ws[e] = "connecting" /\ ~(up /\ token = "good")
       \/ ws[e] = "open" /\ ~up
       \/ ws[e] \in {"refused", "closing"}
    /\ ws' = [ws EXCEPT ![e] = "closed"]
    /\ net' = [net EXCEPT ![e] = <<>>]
    /\ connected' = FALSE
    /\ IF Retry(e)
       THEN /\ timer' = timer \cup {e}
            /\ backoff' = [backoff EXCEPT ![e] = Longer(@)]
       ELSE UNCHANGED <<timer, backoff>>
    /\ overtaken' = \/ overtaken
                    \/ effect \notin {0, e} /\ ws[effect] = "open"
    /\ UNCHANGED <<selected, effect, effects, of, last, fresh, world>>

-----------------------------------------------------------------------------
(* The backend and the session                                             *)

\* A frame is broadcast: every open socket of the camera's channel gets it.
Publish(c) ==
    /\ up /\ published[c] < MaxFrames
    /\ published' = [published EXCEPT ![c] = @ + 1]
    /\ net' = [e \in Effects |->
                  IF ws[e] = "open" /\ of[e] = c
                  THEN Append(net[e], [camera |-> c, n |-> published[c] + 1])
                  ELSE net[e]]
    /\ UNCHANGED <<selected, hook, up, token, outages>>

\* The token is checked when a socket connects, never later.
Environment(u, t) ==
    /\ up' = u /\ token' = t
    /\ outages' = IF u /\ t = "good" THEN outages ELSE outages + 1
    /\ outages' <= MaxOutages
    /\ UNCHANGED <<selected, hook, published, net>>

GoDown  == up /\ Environment(FALSE, token)
ComeUp  == ~up /\ outages' = outages /\ up' = TRUE
           /\ UNCHANGED <<token, published, selected, hook, net>>
Expire  == token = "good" /\ Environment(up, "expired")
LogIn   == token # "good" /\ token' = "good"
           /\ UNCHANGED <<up, outages, published, selected, hook, net>>

Next ==
    \/ \E c \in Cameras : Select(c) \/ Publish(c)
    \/ \E e \in Effects : Connect(e) \/ OnOpen(e) \/ OnMessage(e) \/ OnClose(e)
    \/ Unmount \/ GoDown \/ ComeUp \/ Expire \/ LogIn

\* The browser runs due timers and reports the events of its sockets.
Fairness ==
    \A e \in Effects : /\ WF_vars(Connect(e)) /\ WF_vars(OnOpen(e))
                       /\ WF_vars(OnMessage(e)) /\ WF_vars(OnClose(e))

Spec == Init /\ [][Next]_vars /\ Fairness

-----------------------------------------------------------------------------
(* Properties                                                              *)

\* Every variable has its type.
TypeOK ==
    /\ selected \in Cameras \cup {None} /\ effect \in 0..effects
    /\ effects \in 0..MaxEffects
    /\ ws \in [Effects -> {"none", "connecting", "refused", "open", "closing", "closed"}]
    /\ of \in [Effects -> Cameras \cup {None}]
    /\ timer \subseteq Effects /\ backoff \in [Effects -> 1..15]
    /\ connected \in BOOLEAN /\ last \in FramesOf \cup {None}
    /\ up \in BOOLEAN /\ token \in {"good", "expired"} /\ outages \in 0..MaxOutages
    /\ published \in [Cameras -> 0..MaxFrames]
    /\ net \in [Effects -> Seq(FramesOf)]
    /\ fresh \in BOOLEAN /\ overtaken \in BOOLEAN

\* However fast the camera is changed and the link fails, only the mounted
\* effect has a socket or a reconnection under way: no path of the hook leaks
\* a subscription (useWebSocket.ts 26-36).
OneLiveSocket == \A e \in Effects : Live(e) \/ e \in timer => e = effect

\* The canvas never goes back to an older frame of its camera, reconnections
\* and returns to the camera included.
FramesNeverGoBack ==
    [][last # None /\ last' # None /\ last'.camera = last.camera
          => last'.n >= last.n]_vars

\* Once a frame has arrived after a change of camera, the canvas shows the
\* selected camera (before that it may still show the last one), and its frames
\* in their order.
CanvasFollowsSelection ==
    [](fresh => last # None /\ last.camera = selected) /\ FramesNeverGoBack

\* LIVE and RECONNECTING say what the mounted socket is, except where the close
\* of an older socket is still to come or came after the new one had opened.
BadgeTellsTruth ==
    /\ effect # 0 /\ ws[effect] = "open" /\ ~connected => overtaken
    /\ connected => \/ effect # 0 /\ ws[effect] = "open"
                    \/ \E e \in Effects : ws[e] = "closing"

\* A mounted view is connected again for good once the backend stays up and
\* the token is good: the reconnection is never given up.
ReopensWhenServed ==
    <>[](up /\ token = "good" /\ effect # 0)
        => <>[](effect # 0 /\ ws[effect] = "open")
=============================================================================
