--------------------------- MODULE LiveFeedProofs ---------------------------
(***************************************************************************)
(* LiveFeed's safety properties, for any cameras and any number of         *)
(* effects, frames and outages.                                            *)
(*                                                                         *)
(* The argument: an effect is cleaned up before the next one runs, so that *)
(* only the mounted one has a socket or a timer (OneLiveSocket); messages  *)
(* are under way to an open socket only, and are of the camera of its path *)
(* (NetInv); the backend numbers its frames upwards, so what is under way  *)
(* is newer than what is shown (OrderInv).                                 *)
(***************************************************************************)
EXTENDS LiveFeed, TLAPS

\* Effects that have not run yet have nothing; the mounted one has the
\* selected camera's path.
EffectInv ==
    /\ \A e \in Effects : e > effects => ws[e] = "none" /\ e \notin timer /\ net[e] = <<>>
    /\ effect # 0 => of[effect] = selected
    /\ \A e \in Effects : e \in timer => ws[e] = "closed"

\* Messages are under way to open sockets, of their camera.
NetInv ==
    \A e \in Effects : net[e] # <<>> =>
        ws[e] = "open" /\ \A i \in DOMAIN net[e] : net[e][i].camera = of[e]

\* What is shown was published, and what is under way was published later and
\* is in order.
OrderInv ==
    /\ last # None => last.n <= published[last.camera]
    /\ \A e \in Effects : \A i \in DOMAIN net[e] :
          /\ net[e][i].n <= published[net[e][i].camera]
          /\ last # None /\ last.camera = net[e][i].camera => last.n <= net[e][i].n
          /\ \A j \in DOMAIN net[e] : i < j => net[e][i].n <= net[e][j].n

\* A frame that arrived since the camera was changed is of the selected camera.
CanvasShowsSelected == fresh => last # None /\ last.camera = selected

IInv == TypeOK /\ OneLiveSocket /\ EffectInv /\ NetInv /\ CanvasShowsSelected /\ OrderInv

-----------------------------------------------------------------------------
(* Type correctness                                                        *)

SocketsOK ==
    /\ ws \in [Effects -> {"none", "connecting", "refused", "open", "closing", "closed"}]
    /\ of \in [Effects -> Cameras \cup {None}]
    /\ timer \subseteq Effects /\ backoff \in [Effects -> 1..15]
    /\ net \in [Effects -> Seq(FramesOf)]
FlagsOK == connected \in BOOLEAN /\ fresh \in BOOLEAN /\ overtaken \in BOOLEAN /\ up \in BOOLEAN
ViewOK ==
    /\ selected \in Cameras \cup {None} /\ effect \in 0..effects /\ effects \in 0..MaxEffects
    /\ last \in FramesOf \cup {None} /\ token \in {"good", "expired"}
    /\ outages \in 0..MaxOutages /\ published \in [Cameras -> 0..MaxFrames]

LEMMA Parts == TypeOK <=> SocketsOK /\ FlagsOK /\ ViewOK
BY DEF TypeOK, SocketsOK, FlagsOK, ViewOK

LEMMA PartsNext == SocketsOK' /\ FlagsOK' /\ ViewOK' => TypeOK'
BY DEF TypeOK, SocketsOK, FlagsOK, ViewOK

LEMMA TypeInit == Init => TypeOK
<1>. SUFFICES ASSUME Init PROVE TypeOK
  OBVIOUS
<1>1. SocketsOK
  BY DEF Init, SocketsOK
<1>2. FlagsOK
  BY DEF Init, FlagsOK
<1>3. ViewOK
  BY LiveAssumption DEF Init, ViewOK, LiveAssumption
<1>. QED  BY <1>1, <1>2, <1>3, Parts

LEMMA LongerRange == ASSUME NEW b \in 1..15 PROVE Longer(b) \in 1..15
BY DEF Longer

LEMMA CleanupType ==
    ASSUME TypeOK, Cleanup
    PROVE  /\ timer' \subseteq Effects
           /\ ws' \in [Effects -> {"none", "connecting", "refused", "open", "closing", "closed"}]
           /\ net' \in [Effects -> Seq(FramesOf)]
BY DEF Cleanup, TypeOK, Closed

LEMMA TypeStep == TypeOK /\ [Next]_vars => TypeOK'
<1>. SUFFICES ASSUME TypeOK, [Next]_vars PROVE TypeOK'
  OBVIOUS
<1>. USE LiveAssumption DEF LiveAssumption
<1>1. ASSUME NEW c \in Cameras, Select(c) PROVE TypeOK'
  <2>1. SocketsOK'
    <3>1. effects + 1 \in Effects
      BY <1>1 DEF Select, TypeOK, Effects
    <3>. QED  BY <1>1, <3>1, CleanupType DEF Select, TypeOK, SocketsOK
  <2>2. FlagsOK'
    BY <1>1 DEF Select, TypeOK, FlagsOK, world
  <2>3. ViewOK'
    BY <1>1 DEF Select, TypeOK, ViewOK, world
  <2>. QED  BY <2>1, <2>2, <2>3, PartsNext
<1>2. ASSUME NEW c \in Cameras, Publish(c) PROVE TypeOK'
  <2>1. published[c] + 1 \in 1..MaxFrames
    BY <1>2 DEF Publish, TypeOK
  <2>2. [camera |-> c, n |-> published[c] + 1] \in FramesOf
    BY <2>1 DEF FramesOf
  <2>3. net' \in [Effects -> Seq(FramesOf)]
    BY <1>2, <2>2 DEF Publish, TypeOK
  <2>4. published' \in [Cameras -> 0..MaxFrames]
    BY <1>2, <2>1 DEF Publish, TypeOK
  <2>. QED  BY <1>2, <2>3, <2>4 DEF Publish, TypeOK, hook
<1>3. ASSUME NEW e \in Effects, Connect(e) PROVE TypeOK'
  BY <1>3 DEF Connect, TypeOK, world
<1>4. ASSUME NEW e \in Effects, OnOpen(e) PROVE TypeOK'
  <2>1. SocketsOK' /\ ViewOK'
    BY <1>4 DEF OnOpen, TypeOK, SocketsOK, ViewOK, world
  <2>2. connected' \in {TRUE, connected}
    BY <1>4 DEF OnOpen, Show
  <2>3. FlagsOK'
    BY <1>4, <2>2 DEF OnOpen, TypeOK, FlagsOK, world
  <2>. QED  BY <2>1, <2>3, PartsNext
<1>5. ASSUME NEW e \in Effects, OnMessage(e) PROVE TypeOK'
  <2>1. Head(net[e]) \in FramesOf /\ Tail(net[e]) \in Seq(FramesOf)
    BY <1>5 DEF OnMessage, TypeOK
  <2>2. net' \in [Effects -> Seq(FramesOf)]
    BY <1>5, <2>1 DEF OnMessage, TypeOK
  <2>3. SocketsOK'
    BY <1>5, <2>2 DEF OnMessage, TypeOK, SocketsOK
  <2>4. last' \in FramesOf \cup {None}
    BY <1>5, <2>1 DEF OnMessage, TypeOK, Show
  <2>5. ViewOK'
    BY <1>5, <2>4 DEF OnMessage, TypeOK, ViewOK, world
  <2>6. FlagsOK'
    BY <1>5 DEF OnMessage, TypeOK, FlagsOK, world
  <2>. QED  BY <2>3, <2>5, <2>6, PartsNext
<1>6. ASSUME NEW e \in Effects, OnClose(e) PROVE TypeOK'
  <2>1. Longer(backoff[e]) \in 1..15
    BY LongerRange DEF TypeOK
  <2>2. backoff' \in [Effects -> 1..15] /\ timer' \subseteq Effects
    <3>1. backoff' = [backoff EXCEPT ![e] = Longer(@)] \/ backoff' = backoff
      BY <1>6 DEF OnClose
    <3>2. timer' \subseteq timer \cup {e}
      BY <1>6 DEF OnClose
    <3>3. backoff' \in [Effects -> 1..15]
      BY <2>1, <3>1 DEF TypeOK
    <3>. QED  BY <3>2, <3>3 DEF TypeOK
  <2>3. overtaken' \in BOOLEAN
    BY <1>6 DEF OnClose, TypeOK
  <2>4. SocketsOK'
    <3>1. ws' \in [Effects -> {"none", "connecting", "refused", "open", "closing", "closed"}]
      BY <1>6 DEF OnClose, TypeOK
    <3>2. net' \in [Effects -> Seq(FramesOf)]
      BY <1>6 DEF OnClose, TypeOK
    <3>3. of' \in [Effects -> Cameras \cup {None}]
      BY <1>6 DEF OnClose, TypeOK
    <3>. QED  BY <2>2, <3>1, <3>2, <3>3 DEF SocketsOK
  <2>5. FlagsOK' /\ ViewOK'
    BY <1>6, <2>3 DEF OnClose, TypeOK, FlagsOK, ViewOK, world
  <2>. QED  BY <2>4, <2>5, PartsNext
<1>7. CASE Unmount
  <2>1. SocketsOK'
    BY <1>7, CleanupType DEF Unmount, TypeOK, SocketsOK
  <2>2. FlagsOK'
    BY <1>7 DEF Unmount, TypeOK, FlagsOK, world
  <2>3. ViewOK'
    BY <1>7 DEF Unmount, TypeOK, ViewOK, world
  <2>. QED  BY <2>1, <2>2, <2>3, PartsNext
<1>8. CASE GoDown \/ Expire
  <2>1. outages' \in 0..MaxOutages
    BY <1>8 DEF GoDown, Expire, Environment, TypeOK
  <2>. QED  BY <1>8, <2>1 DEF GoDown, Expire, Environment, TypeOK, hook
<1>9. CASE ComeUp \/ LogIn
  BY <1>9 DEF ComeUp, LogIn, TypeOK, hook
<1>10. CASE UNCHANGED vars
  BY <1>10 DEF vars, hook, world, TypeOK
<1>. QED  BY <1>1, <1>2, <1>3, <1>4, <1>5, <1>6, <1>7, <1>8, <1>9, <1>10 DEF Next

-----------------------------------------------------------------------------
(* The inductive invariant                                                 *)

\* After the clean-up no effect has a socket, a timer or a message under way.
LEMMA CleanedUp ==
    ASSUME TypeOK, OneLiveSocket, NetInv, Cleanup, NEW e \in Effects
    PROVE  /\ ~Live(e)' /\ e \notin timer' /\ net'[e] = <<>>
           /\ ws[e] = "none" => ws'[e] = "none"
<1>1. ws'[e] = IF e = effect THEN Closed(e) ELSE ws[e]
  BY DEF Cleanup
<1>2. net'[e] = IF e = effect THEN <<>> ELSE net[e]
  BY DEF Cleanup
<1>3. e # effect => ~Live(e) /\ e \notin timer
  BY DEF OneLiveSocket
<1>4. e # effect => net[e] = <<>>
  BY <1>3 DEF NetInv, Live
<1>. QED  BY <1>1, <1>2, <1>3, <1>4 DEF Cleanup, Closed, Live

\* A step that leaves the messages and what is shown alone keeps OrderInv.
LEMMA OrderKept ==
    ASSUME OrderInv, UNCHANGED <<last, net, published>>
    PROVE  OrderInv'
BY DEF OrderInv

LEMMA Inductive == IInv /\ [Next]_vars => IInv'
<1>. SUFFICES ASSUME IInv, [Next]_vars
              PROVE  OneLiveSocket' /\ EffectInv' /\ NetInv' /\ CanvasShowsSelected' /\ OrderInv'
  BY TypeStep DEF IInv
<1>0. TypeOK /\ OneLiveSocket /\ EffectInv /\ NetInv /\ CanvasShowsSelected /\ OrderInv
  BY DEF IInv
<1>1. ASSUME NEW c \in Cameras, Select(c)
      PROVE  OneLiveSocket' /\ EffectInv' /\ NetInv' /\ CanvasShowsSelected' /\ OrderInv'
  <2>1. \A e \in Effects : /\ ~Live(e)' /\ e \notin timer' /\ net'[e] = <<>>
                           /\ ws[e] = "none" => ws'[e] = "none"
    BY <1>0, <1>1, CleanedUp DEF Select
  <2>2. OneLiveSocket' /\ NetInv' /\ CanvasShowsSelected'
    BY <1>1, <2>1 DEF Select, OneLiveSocket, NetInv, CanvasShowsSelected
  <2>3. EffectInv'
    <3>1. effects \in Nat /\ effects' = effects + 1 /\ effects + 1 \in Effects
      BY <1>0, <1>1, LiveAssumption DEF Select, TypeOK, Effects, LiveAssumption
    <3>2. \A e \in Effects : e > effects' => ws[e] = "none"
      BY <1>0, <3>1 DEF EffectInv, Effects
    <3>3. effect' = effects + 1 /\ of'[effects + 1] = c /\ selected' = c
      BY <1>0, <1>1, <3>1 DEF Select, TypeOK
    <3>. QED  BY <2>1, <3>2, <3>3 DEF EffectInv
  <2>4. OrderInv'
    BY <1>0, <1>1, <2>1 DEF Select, OrderInv, world
  <2>. QED  BY <2>2, <2>3, <2>4
<1>2. CASE Unmount
  <2>1. \A e \in Effects : /\ ~Live(e)' /\ e \notin timer' /\ net'[e] = <<>>
                           /\ ws[e] = "none" => ws'[e] = "none"
    BY <1>0, <1>2, CleanedUp DEF Unmount
  <2>2. OneLiveSocket' /\ NetInv' /\ CanvasShowsSelected' /\ EffectInv'
    BY <1>0, <1>2, <2>1 DEF Unmount, OneLiveSocket, NetInv, CanvasShowsSelected, EffectInv
  <2>3. OrderInv'
    BY <1>0, <1>2, <2>1 DEF Unmount, OrderInv, world
  <2>. QED  BY <2>2, <2>3
<1>3. ASSUME NEW c \in Cameras, Publish(c)
      PROVE  OneLiveSocket' /\ EffectInv' /\ NetInv' /\ CanvasShowsSelected' /\ OrderInv'
  <2>. DEFINE m == [camera |-> c, n |-> published[c] + 1]
  <2>1. published[c] \in Nat /\ published' = [published EXCEPT ![c] = published[c] + 1]
        /\ \A d \in Cameras : published[d] \in Nat /\ published[d] <= published'[d]
    BY <1>0, <1>3 DEF Publish, TypeOK
  <2>2. \A e \in Effects :
            \/ net'[e] = net[e]
            \/ ws[e] = "open" /\ of[e] = c /\ net'[e] = Append(net[e], m)
    BY <1>3 DEF Publish
  <2>3. UNCHANGED <<selected, hook>>
    BY <1>3 DEF Publish
  <2>4. \A e \in Effects : net[e] \in Seq(FramesOf)
    BY <1>0 DEF TypeOK
  <2>5. ASSUME NEW e \in Effects
        PROVE  \A i \in DOMAIN net'[e] :
                  \/ i \in DOMAIN net[e] /\ net'[e][i] = net[e][i]
                  \/ /\ net'[e][i] = m /\ ws[e] = "open" /\ of[e] = c
                     /\ i = Len(net[e]) + 1 /\ \A j \in DOMAIN net'[e] : j <= i
    BY <2>2, <2>4
  <2>6. OneLiveSocket' /\ EffectInv' /\ CanvasShowsSelected'
    <3>1. \A e \in Effects : e > effects => net'[e] = <<>>
      BY <1>0, <2>2 DEF EffectInv
    <3>. QED  BY <1>0, <2>3, <3>1 DEF hook, OneLiveSocket, Live, EffectInv, CanvasShowsSelected
  <2>7. NetInv'
    <3>. SUFFICES ASSUME NEW e \in Effects, net'[e] # <<>>
                  PROVE  ws[e] = "open" /\ \A i \in DOMAIN net'[e] : net'[e][i].camera = of[e]
      BY <2>3 DEF NetInv, hook
    <3>1. ws[e] = "open"
      BY <1>0, <2>2 DEF NetInv
    <3>2. ASSUME NEW i \in DOMAIN net'[e] PROVE net'[e][i].camera = of[e]
      <4>1. CASE i \in DOMAIN net[e] /\ net'[e][i] = net[e][i]
        <5>1. net[e] # <<>>
          BY <4>1
        <5>. QED  BY <4>1, <5>1, <1>0 DEF NetInv
      <4>2. CASE net'[e][i] = m /\ of[e] = c
        BY <4>2
      <4>. QED  BY <2>5, <4>1, <4>2
    <3>. QED  BY <3>1, <3>2
  <2>8. OrderInv'
    <3>1. \A e \in Effects : \A i \in DOMAIN net[e] : net[e][i] \in FramesOf
      BY <2>4
    <3>2. last # None => last.n <= published[last.camera] /\ last.n \in Nat /\ last.camera \in Cameras
      BY <1>0 DEF TypeOK, OrderInv, FramesOf
    <3>3. last # None => last.n <= published'[last.camera]
      BY <2>1, <3>2
    <3>4. ASSUME NEW e \in Effects, NEW i \in DOMAIN net'[e]
          PROVE  /\ net'[e][i].n <= published'[net'[e][i].camera]
                 /\ last # None /\ last.camera = net'[e][i].camera => last.n <= net'[e][i].n
                 /\ \A j \in DOMAIN net'[e] : i < j => net'[e][i].n <= net'[e][j].n
      <4>1. CASE i \in DOMAIN net[e] /\ net'[e][i] = net[e][i]
        <5>1. net[e][i].n \in Nat /\ net[e][i].camera \in Cameras
              /\ net[e][i].n <= published[net[e][i].camera]
          BY <1>0, <3>1, <4>1 DEF OrderInv, FramesOf
        <5>2. net[e] # <<>>
          BY <4>1
        <5>3. net[e][i].camera = of[e]
          BY <1>0, <4>1, <5>2 DEF NetInv
        <5>4. ASSUME NEW j \in DOMAIN net'[e], i < j PROVE net'[e][i].n <= net'[e][j].n
          <6>1. CASE j \in DOMAIN net[e] /\ net'[e][j] = net[e][j]
            BY <1>0, <4>1, <5>4, <6>1 DEF OrderInv
          <6>2. CASE net'[e][j] = m /\ of[e] = c
            BY <2>1, <4>1, <5>1, <5>3, <6>2
          <6>. QED  BY <2>5, <6>1, <6>2
        <5>5. last # None /\ last.camera = net[e][i].camera => last.n <= net[e][i].n
          BY <1>0, <4>1 DEF OrderInv
        <5>. QED  BY <2>1, <4>1, <5>1, <5>4, <5>5
      <4>2. CASE net'[e][i] = m /\ \A j \in DOMAIN net'[e] : j <= i
        <5>1. \A j \in DOMAIN net'[e] : ~(i < j)
          <6>1. DOMAIN net'[e] \subseteq Nat
            BY <2>2, <2>4
          <6>. QED  BY <4>2, <6>1
        <5>2. m.camera = c /\ m.n = published[c] + 1 /\ published'[c] = published[c] + 1
          BY <1>0, <2>1 DEF TypeOK
        <5>. HIDE DEF m
        <5>. QED  BY <2>1, <3>2, <4>2, <5>1, <5>2
      <4>. QED  BY <2>5, <4>1, <4>2
    <3>. QED  BY <2>3, <3>3, <3>4 DEF OrderInv, hook
  <2>. QED  BY <2>6, <2>7, <2>8
<1>4. ASSUME NEW e \in Effects, Connect(e) \/ OnOpen(e)
      PROVE  OneLiveSocket' /\ EffectInv' /\ NetInv' /\ CanvasShowsSelected' /\ OrderInv'
  <2>1. /\ UNCHANGED <<selected, effect, effects, of, last, fresh, published, net>>
        /\ \E to \in {"connecting", "refused", "open"} : ws' = [ws EXCEPT ![e] = to]
        /\ timer' \subseteq timer
    BY <1>4 DEF Connect, OnOpen, world
  <2>2. e = effect
    BY <1>0, <1>4 DEF Connect, OnOpen, OneLiveSocket, Live
  <2>3. net[e] = <<>> \/ ws[e] = "open"
    BY <1>0 DEF NetInv
  <2>4. e \in timer \/ ws[e] \in {"none", "connecting"}
    BY <1>4 DEF Connect, OnOpen
  <2>5. e \in timer => ws[e] # "open"
    BY <1>0 DEF EffectInv
  <2>6. \A x \in Effects : x # e => ws'[x] = ws[x]
    BY <1>0, <2>1 DEF TypeOK
  <2>7. OneLiveSocket'
    BY <1>0, <2>1, <2>2, <2>6 DEF OneLiveSocket, Live
  <2>8. EffectInv'
    <3>1. e \notin timer'
      BY <1>0, <1>4 DEF Connect, OnOpen, EffectInv
    <3>2. \A x \in Effects : x > effects => x # e
      BY <1>0, <2>2 DEF TypeOK, Effects
    <3>. QED  BY <1>0, <2>1, <2>6, <3>1, <3>2 DEF EffectInv
  <2>9. NetInv'
    BY <1>0, <2>1, <2>3, <2>4, <2>5, <2>6 DEF NetInv
  <2>10. CanvasShowsSelected' /\ OrderInv'
    BY <1>0, <2>1, OrderKept DEF CanvasShowsSelected
  <2>. QED  BY <2>7, <2>8, <2>9, <2>10
<1>5. ASSUME NEW e \in Effects, OnMessage(e)
      PROVE  OneLiveSocket' /\ EffectInv' /\ NetInv' /\ CanvasShowsSelected' /\ OrderInv'
  <2>. DEFINE m == Head(net[e])
  <2>1. /\ ws[e] = "open" /\ net[e] # <<>> /\ net' = [net EXCEPT ![e] = Tail(net[e])]
        /\ fresh' = (fresh \/ e = effect)
        /\ UNCHANGED <<selected, effect, effects, ws, of, timer, published>>
    BY <1>5 DEF OnMessage, world
  <2>2. e = effect /\ effect # 0
    BY <1>0, <2>1 DEF OneLiveSocket, Live, Effects
  <2>3. last' = m
    BY <1>5, <2>2 DEF OnMessage, Show
  <2>4. net[e] \in Seq(FramesOf) /\ 1 \in DOMAIN net[e] /\ m = net[e][1] /\ m \in FramesOf
    BY <1>0, <2>1 DEF TypeOK
  <2>5. /\ \A x \in Effects : x # e => net'[x] = <<>>
        /\ net'[e] = Tail(net[e])
    <3>1. \A x \in Effects : x # e => net[x] = <<>>
      BY <1>0, <2>2 DEF NetInv, OneLiveSocket, Live
    <3>. QED  BY <1>0, <2>1, <3>1 DEF TypeOK
  <2>6. \A i \in DOMAIN net'[e] : i + 1 \in DOMAIN net[e] /\ net'[e][i] = net[e][i + 1] /\ i \in Nat /\ 1 < i + 1
    <3>1. \A i \in DOMAIN Tail(net[e]) :
              i + 1 \in DOMAIN net[e] /\ Tail(net[e])[i] = net[e][i + 1] /\ i \in Nat
      BY <2>1, <2>4
    <3>2. \A i \in DOMAIN Tail(net[e]) : 1 < i + 1
      BY <2>1, <2>4
    <3>. QED  BY <2>5, <3>1, <3>2
  <2>7. m.camera = of[e] /\ of[e] = selected
    BY <1>0, <2>1, <2>2, <2>4 DEF NetInv, EffectInv
  <2>8. OneLiveSocket' /\ EffectInv'
    BY <1>0, <2>1, <2>5, <2>2 DEF OneLiveSocket, Live, EffectInv, TypeOK, Effects
  <2>9. NetInv'
    BY <1>0, <2>1, <2>5, <2>6 DEF NetInv
  <2>10. CanvasShowsSelected'
    BY <2>1, <2>3, <2>4, <2>7, LiveAssumption DEF CanvasShowsSelected, LiveAssumption
  <2>11. OrderInv'
    <3>1. m.n <= published[m.camera]
      BY <1>0, <2>4 DEF OrderInv
    <3>2. ASSUME NEW i \in DOMAIN net'[e]
          PROVE  /\ net'[e][i].n <= published[net'[e][i].camera]
                 /\ m.n <= net'[e][i].n
                 /\ \A j \in DOMAIN net'[e] : i < j => net'[e][i].n <= net'[e][j].n
      <4>1. /\ net[e][i + 1].n <= published[net[e][i + 1].camera]
            /\ m.n <= net[e][i + 1].n
        BY <1>0, <2>4, <2>6 DEF OrderInv
      <4>2. ASSUME NEW j \in DOMAIN net'[e], i < j PROVE net[e][i + 1].n <= net[e][j + 1].n
        <5>1. i + 1 \in DOMAIN net[e] /\ j + 1 \in DOMAIN net[e] /\ i + 1 < j + 1
          BY <2>6, <4>2
        <5>. QED  BY <1>0, <5>1 DEF OrderInv
      <4>. QED  BY <2>6, <4>1, <4>2
    <3>. QED  BY <2>1, <2>3, <2>5, <3>1, <3>2 DEF OrderInv
  <2>. QED  BY <2>8, <2>9, <2>10, <2>11
<1>6. ASSUME NEW e \in Effects, OnClose(e)
      PROVE  OneLiveSocket' /\ EffectInv' /\ NetInv' /\ CanvasShowsSelected' /\ OrderInv'
  <2>1. /\ ws[e] # "none" /\ ws' = [ws EXCEPT ![e] = "closed"] /\ net' = [net EXCEPT ![e] = <<>>]
        /\ timer' = IF e = effect THEN timer \cup {e} ELSE timer
        /\ UNCHANGED <<selected, effect, effects, of, last, fresh, published>>
    BY <1>6 DEF OnClose, Retry, world
  <2>2. /\ \A x \in Effects : x # e => net'[x] = net[x] /\ ws'[x] = ws[x]
        /\ net'[e] = <<>> /\ ws'[e] = "closed"
    BY <1>0, <2>1 DEF TypeOK
  <2>3. OneLiveSocket' /\ EffectInv'
    BY <1>0, <2>1, <2>2 DEF OneLiveSocket, Live, EffectInv, TypeOK
  <2>4. NetInv' /\ CanvasShowsSelected'
    BY <1>0, <2>1, <2>2 DEF NetInv, CanvasShowsSelected
  <2>5. OrderInv'
    BY <1>0, <2>1, <2>2 DEF OrderInv
  <2>. QED  BY <2>3, <2>4, <2>5
<1>7. CASE GoDown \/ ComeUp \/ Expire \/ LogIn \/ UNCHANGED vars
  <2>1. UNCHANGED <<selected, hook, published, net>>
    BY <1>7 DEF GoDown, ComeUp, Expire, LogIn, Environment, vars, world
  <2>. QED  BY <1>0, <2>1, OrderKept DEF hook, OneLiveSocket, Live, EffectInv, NetInv,
                                        CanvasShowsSelected
<1>. QED  BY <1>1, <1>2, <1>3, <1>4, <1>5, <1>6, <1>7 DEF Next

LEMMA Invariant == Spec => []IInv
<1>1. Init => IInv
  BY TypeInit DEF Init, IInv, OneLiveSocket, Live, EffectInv, NetInv, CanvasShowsSelected, OrderInv,
                  Effects
<1>. QED  BY <1>1, Inductive, PTL DEF Spec

-----------------------------------------------------------------------------
(* The theorems                                                            *)

\* Every variable of the hook and of its sockets has its type.
THEOREM TypeCorrect == Spec => []TypeOK
BY Invariant, PTL DEF IInv

\* Only the mounted effect has a socket or a reconnection under way, after any
\* number of camera changes, refusals and outages.
THEOREM NoLeakedSocket == Spec => []OneLiveSocket
BY Invariant, PTL DEF IInv

\* The canvas never replaces a frame by an older one of the same camera, also
\* across reconnections and returns to the camera.
THEOREM FramesMoveForward == Spec => FramesNeverGoBack
<1>1. IInv /\ [Next]_vars =>
          (last # None /\ last' # None /\ last'.camera = last.camera => last'.n >= last.n)
  <2>. SUFFICES ASSUME IInv, [Next]_vars, last # None, last' # None, last'.camera = last.camera
                PROVE  last'.n >= last.n
    OBVIOUS
  <2>1. last.n \in Nat
    BY DEF IInv, TypeOK, FramesOf
  <2>2. CASE last' = last
    BY <2>1, <2>2
  <2>3. CASE \E e \in Effects : OnMessage(e)
    <3>1. PICK e \in Effects : OnMessage(e)
      BY <2>3
    <3>2. last' = Head(net[e]) \/ last' = last
      BY <3>1 DEF OnMessage, Show
    <3>3. net[e] \in Seq(FramesOf) /\ net[e] # <<>>
      BY <3>1 DEF OnMessage, IInv, TypeOK
    <3>4. 1 \in DOMAIN net[e] /\ Head(net[e]) = net[e][1] /\ net[e][1].n \in Nat
      <4>1. 1 \in DOMAIN net[e] /\ Head(net[e]) = net[e][1] /\ net[e][1] \in FramesOf
        BY <3>3
      <4>. QED  BY <4>1 DEF FramesOf
    <3>5. last.camera = net[e][1].camera => last.n <= net[e][1].n
      BY <3>4 DEF IInv, OrderInv
    <3>. QED  BY <2>1, <2>2, <3>2, <3>4, <3>5
  <2>. QED  BY <2>2, <2>3 DEF Next, Select, Publish, Connect, OnOpen, OnClose, Unmount, GoDown,
                ComeUp, Expire, LogIn, Environment, vars, hook
<1>. QED  BY <1>1, Invariant, PTL DEF Spec, FramesNeverGoBack

\* The canvas follows the selection, for any number of cameras, reconnections and
\* outages.
THEOREM CanvasFollows == Spec => CanvasFollowsSelection
<1>1. IInv => (fresh => last # None /\ last.camera = selected)
  BY DEF IInv, CanvasShowsSelected
<1>. QED  BY <1>1, Invariant, FramesMoveForward, PTL DEF CanvasFollowsSelection

\* The badge says what the mounted socket is, unless the close of an older socket
\* is still to come or came after it had opened, after any number of changes of
\* camera, refusals and outages.
THEOREM BadgeIsRight == Spec => []BadgeTellsTruth
<1>1. Init => BadgeTellsTruth
  BY DEF Init, BadgeTellsTruth
<1>2. IInv /\ BadgeTellsTruth /\ [Next]_vars => BadgeTellsTruth'
  <2>. SUFFICES ASSUME IInv, BadgeTellsTruth, [Next]_vars PROVE BadgeTellsTruth'
    OBVIOUS
  <2>1. TypeOK /\ OneLiveSocket /\ EffectInv /\ effect \in {0} \cup Effects
    BY LiveAssumption DEF IInv, TypeOK, Effects, LiveAssumption
  <2>2. ASSUME NEW c \in Cameras, Select(c) PROVE BadgeTellsTruth'
    <3>1. effect' = effects + 1 /\ effect' \in Effects /\ effect' > effects /\ connected' = connected
      BY <2>1, <2>2, LiveAssumption DEF Select, TypeOK, Effects, LiveAssumption
    <3>2. ws'[effect'] # "open"
      <4>1. ws[effect'] = "none"
        BY <2>1, <3>1 DEF EffectInv
      <4>. QED  BY <2>2, <3>1, <4>1 DEF Select, Cleanup, Closed, Live
    <3>3. \A e \in Effects : ws[e] = "closing" => ws'[e] = "closing"
      BY <2>2 DEF Select, Cleanup, Closed, Live
    <3>4. effect # 0 /\ ws[effect] = "open" => effect \in Effects /\ ws'[effect] = "closing"
      BY <2>1, <2>2 DEF Select, Cleanup, Closed, Live
    <3>. QED  BY <3>1, <3>2, <3>3, <3>4 DEF BadgeTellsTruth
  <2>3. ASSUME NEW e \in Effects, Connect(e) PROVE BadgeTellsTruth'
    <3>1. ws[e] \in {"none", "closed"} /\ ws'[e] \in {"connecting", "refused"}
      BY <2>1, <2>3 DEF Connect, EffectInv, TypeOK
    <3>2. /\ \A x \in Effects : x # e => ws'[x] = ws[x]
          /\ UNCHANGED <<effect, connected, overtaken>>
      BY <2>3 DEF Connect
    <3>. QED  BY <2>1, <3>1, <3>2 DEF BadgeTellsTruth
  <2>4. ASSUME NEW e \in Effects, OnOpen(e) PROVE BadgeTellsTruth'
    <3>1. e = effect /\ effect # 0
      BY <2>1, <2>4 DEF OnOpen, OneLiveSocket, Live, Effects
    <3>2. ws'[effect] = "open" /\ connected' = TRUE /\ effect' = effect
      BY <2>1, <2>4, <3>1 DEF OnOpen, Show, TypeOK
    <3>. QED  BY <3>1, <3>2 DEF BadgeTellsTruth
  <2>5. ASSUME NEW e \in Effects, OnClose(e) PROVE BadgeTellsTruth'
    <3>1. connected' = FALSE /\ effect' = effect
      BY <2>5 DEF OnClose
    <3>2. ws' = [ws EXCEPT ![e] = "closed"]
          /\ overtaken' = (overtaken \/ (effect \notin {0, e} /\ ws[effect] = "open"))
      BY <2>5 DEF OnClose
    <3>3. effect # 0 /\ ws'[effect] = "open" => effect # e /\ ws[effect] = "open"
      BY <2>1, <3>2 DEF TypeOK
    <3>. QED  BY <3>1, <3>2, <3>3 DEF BadgeTellsTruth
  <2>6. CASE Unmount
    BY <2>6 DEF Unmount, BadgeTellsTruth
  <2>7. CASE \/ \E e \in Effects : OnMessage(e)
             \/ \E c \in Cameras : Publish(c)
             \/ GoDown \/ ComeUp \/ Expire \/ LogIn \/ UNCHANGED vars
    <3>1. UNCHANGED <<effect, ws, connected, overtaken>>
      BY <2>7 DEF OnMessage, Publish, GoDown, ComeUp, Expire, LogIn, Environment, vars, hook
    <3>. QED  BY <3>1 DEF BadgeTellsTruth
  <2>. QED  BY <2>2, <2>3, <2>4, <2>5, <2>6, <2>7 DEF Next
<1>. QED  BY <1>1, <1>2, Invariant, PTL DEF Spec
=============================================================================
