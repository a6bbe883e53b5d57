------------------------- MODULE FrameIngestProofs -------------------------
(***************************************************************************)
(* FrameIngest's safety, for every set of cameras and sockets and every    *)
(* DEDUP_WINDOW: type correctness, SubscribersMissNothing, and the         *)
(* refinement of AlertLog.                                                 *)
(*                                                                         *)
(* The argument for the alerts: between the duplicate check and the        *)
(* insertion the handler holds the event loop (LoopInv), so no other       *)
(* handler inserts, and time only makes the latest alert older             *)
(* (InsertInv).  For the subscribers: a broadcast works on a copy, and     *)
(* whoever was subscribed when it was taken is either reached or still in  *)
(* the copy (RoundInv); only sockets whose client is gone are discarded.   *)
(***************************************************************************)
EXTENDS FrameIngest, FiniteSetTheorems, TLAPS

\* The handler that evaluates rules holds the event loop.
LoopInv == \A f \in Frames : handler[f].pc \in {"check", "insert", "dispatch"} => loop = f

\* The alert about to be inserted is still no duplicate.
InsertInv ==
    \A f \in Frames : handler[f].pc = "insert" =>
        /\ handler[f].rule \in {1, 2}
        /\ ~RecentDuplicate(RuleOrder[handler[f].rule], f[1])

\* A broadcast is of a message the request makes.
AtInv == \A f \in Frames : handler[f].pc = "send" => handler[f].at \in 1..Len(Out(f))

\* The two ends of a socket begin together; a channel holds sockets that have
\* begun, and every one that is served and whose client is there.
LinkInv == \A s \in Sockets : link[s] = "none" <=> serve[s] = "none"
SubInv ==
    /\ \A ch \in Feeds : \A s \in subs[ch] : serve[s] # "none"
    /\ \A s \in Sockets : serve[s] = "serving" /\ link[s] # "gone" => s \in subs[feed[s]]

Awaits(f, s) == \E i \in DOMAIN handler[f].to : handler[f].to[i] = s

\* A socket the running broadcast of f owes its message.
Owed(f, s) ==
    /\ serve[s] = "serving" /\ link[s] # "gone" /\ s \notin late[f]
    /\ feed[s] = Out(f)[handler[f].at].feed

RoundInv ==
    \A f \in Frames : handler[f].pc = "send" =>
        /\ \A s \in Sockets : Awaits(f, s) => serve[s] # "none"
        /\ \A s \in handler[f].dead : link[s] = "gone"
        /\ \A s \in Sockets : Owed(f, s) => s \in reached[f] \/ Awaits(f, s)

IInv == TypeOK /\ LoopInv /\ InsertInv /\ AtInv /\ LinkInv /\ SubInv /\ RoundInv

-----------------------------------------------------------------------------
(* The operators                                                           *)

\* An age stays in its range, and one past the window stays past it.
LEMMA OlderRange ==
    ASSUME IngestAssumption, NEW age \in 0..(DedupWindow + 1)
    PROVE  /\ Older(age) \in 0..(DedupWindow + 1)
           /\ age > DedupWindow => Older(age) > DedupWindow
BY DEF Older, IngestAssumption

\* A copy of the subscribers is a sequence in which each of them occurs.
LEMMA OrdersOf ==
    ASSUME IngestAssumption, NEW S \in SUBSET Sockets, NEW q \in Orders(S)
    PROVE  /\ q \in Seq(Sockets)
           /\ \A s \in Sockets : s \in S <=> \E i \in DOMAIN q : q[i] = s
<1>1. Cardinality(S) \in Nat
  BY FS_Subset, FS_CardinalityType DEF IngestAssumption
<1>2. q \in [1..Cardinality(S) -> S] /\ \A s \in S : \E i \in DOMAIN q : q[i] = s
  BY DEF Orders
<1>. QED  BY <1>1, <1>2

\* Every message goes to a channel that exists.
LEMMA MessageIn ==
    ASSUME NEW f \in Frames, NEW kind \in Rules \cup {"detections", "analytics"}
    PROVE  Message(kind, f) \in Messages /\ Message(kind, f).feed \in Feeds
BY DEF Message, Messages, Feeds, Rules, Frames

\* The broadcasts of a request are messages, and there is at least one.
LEMMA OutType ==
    ASSUME NEW f \in Frames, handler[f] \in Request
    PROVE  Out(f) \in Seq(Messages) /\ Len(Out(f)) >= 1
<1>. DEFINE m == handler[f].made
            a == [i \in DOMAIN m |-> Message(m[i], f)]
            b == <<Message("detections", f)>>
            c == IF handler[f].snapshot THEN <<Message("analytics", f)>> ELSE <<>>
<1>1. m \in Seq(Rules)
  BY DEF Request
<1>2. a \in Seq(Messages)
  BY <1>1, MessageIn
<1>3. b \in Seq(Messages) /\ Len(b) = 1 /\ c \in Seq(Messages)
  BY MessageIn
<1>4. Out(f) = a \o b \o c
  BY DEF Out
<1>. HIDE DEF a, b, c
<1>. QED  BY <1>2, <1>3, <1>4

\* The broadcasts of a request are settled once its rules are evaluated.
LEMMA OutSame ==
    ASSUME NEW f \in Frames, handler'[f].made = handler[f].made,
           handler'[f].snapshot = handler[f].snapshot
    PROVE  Out(f)' = Out(f)
BY DEF Out

-----------------------------------------------------------------------------
(* Parts of the steps                                                      *)

Requests == [Frames -> Request]
ClientsOK ==
    /\ link \in [Sockets -> {"none", "open", "stalled", "gone"}]
    /\ serve \in [Sockets -> {"none", "accepting", "serving", "done", "failed"}]
    /\ feed \in [Sockets -> Feeds]
    /\ subs \in [Feeds -> SUBSET Sockets]
    /\ last \in [Sockets -> Messages \cup {None}]
    /\ reached \in [Frames -> SUBSET Sockets] /\ late \in [Frames -> SUBSET Sockets]
ServerOK ==
    /\ sinceAlert \in [Rules -> [Cameras -> 0..(DedupWindow + 1)]]
    /\ loop \in Frames \cup {Idle}
    /\ abandoned \subseteq Frames /\ errors \in 0..MaxErrors
    /\ mail \in {"answers", "silent"}

LEMMA Parts == TypeOK <=> ServerOK /\ ClientsOK /\ handler \in Requests /\ LoopInv
BY DEF TypeOK, ServerOK, ClientsOK, Requests, LoopInv

LEMMA PartsNext == ServerOK' /\ ClientsOK' /\ handler' \in Requests /\ LoopInv' => TypeOK'
BY DEF TypeOK, ServerOK, ClientsOK, Requests, LoopInv

Broadcasting == AtInv /\ LinkInv /\ SubInv /\ RoundInv

\* A step of a request that broadcasts nothing leaves the broadcasts alone.
LEMMA QuietStep ==
    ASSUME TypeOK, Broadcasting, NEW f \in Frames, NEW r \in Request, r.pc # "send",
           handler' = [handler EXCEPT ![f] = r], UNCHANGED clients
    PROVE  handler' \in Requests /\ ClientsOK' /\ Broadcasting'
<1>1. handler \in Requests /\ ClientsOK
  BY Parts
<1>2. handler' \in Requests /\ handler'[f] = r
  BY <1>1 DEF Requests
<1>3. \A g \in Frames : g # f => handler'[g] = handler[g]
  BY <1>1 DEF Requests
<1>4. ClientsOK' /\ LinkInv' /\ SubInv'
  BY <1>1 DEF clients, ClientsOK, Broadcasting, LinkInv, SubInv
<1>5. \A g \in Frames : handler'[g].pc = "send" => g # f /\ handler'[g] = handler[g]
  BY <1>2, <1>3
<1>6. \A g \in Frames : handler'[g].pc = "send" => Out(g)' = Out(g)
  BY <1>5, OutSame
<1>7. AtInv'
  BY <1>5, <1>6 DEF AtInv, Broadcasting
<1>8. RoundInv'
  BY <1>5, <1>6 DEF RoundInv, Broadcasting, Awaits, Owed, clients
<1>. QED  BY <1>2, <1>4, <1>7, <1>8 DEF Broadcasting

\* A step that leaves the requests and the clients alone.
LEMMA IdleStep ==
    ASSUME IInv, UNCHANGED <<handler, clients>>
    PROVE  handler' \in Requests /\ ClientsOK' /\ Broadcasting'
<1>1. handler \in Requests /\ ClientsOK
  BY Parts DEF IInv
<1>2. \A g \in Frames : Out(g)' = Out(g)
  BY OutSame
<1>. QED  BY <1>1, <1>2 DEF IInv, Broadcasting, AtInv, LinkInv, SubInv, RoundInv, Awaits, Owed,
                            clients, ClientsOK, Requests

-----------------------------------------------------------------------------
(* The worker and the synchronous part                                     *)

LEMMA RulesStep ==
    ASSUME IInv, IngestAssumption, NEW f \in Frames,
           Post(f) \/ Store(f) \/ CheckRule(f) \/ InsertAlert(f) \/ Dispatch(f) \/ Fail(f)
    PROVE  IInv'
<1>. DEFINE h == handler[f]
<1>1. ServerOK /\ ClientsOK /\ handler \in Requests /\ h \in Request /\ TypeOK /\ Broadcasting
  BY Parts DEF IInv, Requests, Broadcasting
<1>2. ASSUME NEW r \in Request, handler' = [handler EXCEPT ![f] = r], r.pc # "send",
             ServerOK', UNCHANGED clients,
             r.pc \in {"check", "insert", "dispatch"} => loop' = f,
             \A g \in Frames : g # f /\ handler[g].pc \in {"check", "insert", "dispatch"} =>
                 loop' = loop /\ sinceAlert' = sinceAlert,
             r.pc = "insert" => /\ r.rule \in {1, 2} /\ sinceAlert' = sinceAlert
                                /\ ~RecentDuplicate(RuleOrder[r.rule], f[1])
      PROVE  IInv'
  <2>1. handler' \in Requests /\ ClientsOK' /\ Broadcasting'
    BY <1>1, <1>2, QuietStep
  <2>2. handler'[f] = r /\ \A g \in Frames : g # f => handler'[g] = handler[g]
    BY <1>1, <1>2 DEF Requests
  <2>3. LoopInv'
    BY <1>2, <2>2 DEF IInv, LoopInv
  <2>4. InsertInv'
    BY <1>2, <2>2 DEF IInv, InsertInv, RecentDuplicate
  <2>. QED  BY <1>2, <2>1, <2>3, <2>4, PartsNext DEF IInv, Broadcasting
<1>3. NewRequest \in Request
  BY DEF NewRequest, Request
<1>4. CASE Post(f)
  <2>1. PICK over \in SUBSET Rules, snap \in BOOLEAN :
            handler' = [handler EXCEPT ![f].pc = "posted", ![f].over = over,
                                       ![f].snapshot = snap]
    BY <1>4 DEF Post
  <2>2. [h EXCEPT !.pc = "posted", !.over = over, !.snapshot = snap] \in Request
        /\ [h EXCEPT !.pc = "posted", !.over = over, !.snapshot = snap].pc = "posted"
    BY <1>1 DEF Request
  <2>3. ServerOK' /\ UNCHANGED <<clients, loop, sinceAlert>>
    BY <1>1, <1>4 DEF Post, ServerOK
  <2>. QED  BY <2>1, <2>2, <2>3, <1>2
<1>5. CASE Store(f)
  <2>1. handler' = [handler EXCEPT ![f] = [h EXCEPT !.pc = "check"]]
    BY <1>1, <1>5 DEF Store, Requests
  <2>2. [h EXCEPT !.pc = "check"] \in Request /\ [h EXCEPT !.pc = "check"].pc = "check"
    BY <1>1 DEF Request
  <2>3. ServerOK' /\ UNCHANGED <<clients, sinceAlert>> /\ loop' = f /\ loop = Idle
    BY <1>1, <1>5 DEF Store, ServerOK
  <2>4. \A g \in Frames : handler[g].pc \notin {"check", "insert", "dispatch"}
    BY <2>3, IngestAssumption DEF IInv, LoopInv, IngestAssumption, Frames
  <2>. QED  BY <2>1, <2>2, <2>3, <2>4, <1>2
<1>6. CASE CheckRule(f)
  <2>. DEFINE t == RuleOrder[h.rule]
              r == IF t \in h.over /\ ~RecentDuplicate(t, f[1])
                   THEN [h EXCEPT !.pc = "insert"] ELSE [h EXCEPT !.rule = @ + 1]
  <2>1. handler' = [handler EXCEPT ![f] = r]
    BY <1>6 DEF CheckRule
  <2>2. r \in Request /\ r.pc \in {"check", "insert"}
    <3>1. [h EXCEPT !.pc = "insert"] \in Request /\ [h EXCEPT !.pc = "insert"].pc = "insert"
      BY <1>1 DEF Request
    <3>2. [h EXCEPT !.rule = @ + 1] \in Request /\ [h EXCEPT !.rule = @ + 1].pc = "check"
      <4>1. h.rule + 1 \in Nat \ {0}
        BY <1>1 DEF Request
      <4>. QED  BY <1>1, <1>6, <4>1 DEF CheckRule, Request
    <3>. QED  BY <3>1, <3>2
  <2>3. ServerOK' /\ UNCHANGED <<clients, sinceAlert, loop>> /\ loop = f
    BY <1>1, <1>6 DEF CheckRule, ServerOK
  <2>4. r.pc = "insert" => r.rule = h.rule /\ ~RecentDuplicate(t, f[1])
    BY <1>1, <1>6 DEF CheckRule, Request
  <2>5. h.rule \in {1, 2}
    BY <1>1, <1>6 DEF CheckRule, Request, RuleOrder
  <2>. QED  BY <2>1, <2>2, <2>3, <2>4, <2>5, <1>2
<1>7. CASE InsertAlert(f)
  <2>. DEFINE t == RuleOrder[h.rule]
              r == [h EXCEPT !.pc = "dispatch", !.made = Append(h.made, t)]
  <2>1. handler' = [handler EXCEPT ![f] = r] /\ loop = f /\ loop' = f /\ UNCHANGED clients
    BY <1>1, <1>7 DEF InsertAlert, Requests
  <2>2. t \in Rules
    BY <1>7 DEF InsertAlert, IInv, InsertInv, RuleOrder, Rules
  <2>3. r \in Request /\ r.pc = "dispatch"
    <3>1. Append(h.made, t) \in Seq(Rules)
      BY <1>1, <2>2 DEF Request
    <3>. QED  BY <1>1, <3>1 DEF Request
  <2>4. ServerOK'
    <3>1. f[1] \in Cameras
      BY DEF Frames
    <3>2. sinceAlert' = [sinceAlert EXCEPT ![t] = [sinceAlert[t] EXCEPT ![f[1]] = 0]]
      BY <1>7 DEF InsertAlert
    <3>. QED  BY <1>1, <1>7, <2>2, <3>1, <3>2, IngestAssumption
              DEF InsertAlert, ServerOK, IngestAssumption
  <2>5. \A g \in Frames : g # f => handler[g].pc \notin {"check", "insert", "dispatch"}
    BY <2>1 DEF IInv, LoopInv
  <2>. QED  BY <2>1, <2>3, <2>4, <2>5, <1>2
<1>8. CASE Dispatch(f)
  <2>. DEFINE r == [h EXCEPT !.pc = "check", !.rule = @ + 1]
  <2>1. handler' = [handler EXCEPT ![f] = r]
    BY <1>1, <1>8 DEF Dispatch, Requests
  <2>2. r \in Request /\ r.pc = "check"
    <3>1. h.rule + 1 \in Nat \ {0}
      BY <1>1 DEF Request
    <3>. QED  BY <1>1, <3>1 DEF Request
  <2>3. ServerOK' /\ UNCHANGED <<clients, sinceAlert, loop>> /\ loop = f
    BY <1>1, <1>8 DEF Dispatch, ServerOK
  <2>. QED  BY <2>1, <2>2, <2>3, <1>2
<1>9. CASE Fail(f)
  <2>. DEFINE r == [NewRequest EXCEPT !.pc = "failed"]
  <2>1. handler' = [handler EXCEPT ![f] = r] /\ UNCHANGED <<clients, sinceAlert>> /\ loop = f
    BY <1>9 DEF Fail
  <2>2. r \in Request /\ r.pc = "failed"
    BY <1>3 DEF Request
  <2>3. ServerOK'
    BY <1>1, <1>9, IngestAssumption DEF Fail, ServerOK, IngestAssumption
  <2>4. \A g \in Frames : g # f => handler[g].pc \notin {"check", "insert", "dispatch"}
    BY <2>1 DEF IInv, LoopInv
  <2>. QED  BY <2>1, <2>2, <2>3, <2>4, <1>2
<1>. QED  BY <1>4, <1>5, <1>6, <1>7, <1>8, <1>9

-----------------------------------------------------------------------------
(* The broadcasts                                                          *)

\* A step of a broadcasting request, from the facts about its own round.
LEMMA RoundStep ==
    ASSUME IInv, NEW f \in Frames, NEW r \in Request, handler' = [handler EXCEPT ![f] = r],
           r.pc \notin {"check", "insert", "dispatch"},
           loop' = loop \/ loop = f, ServerOK', ClientsOK', LinkInv', SubInv',
           UNCHANGED <<sinceAlert, link, serve, feed>>,
           \A g \in Frames : g # f => reached'[g] = reached[g] /\ late'[g] = late[g],
           r.pc = "send" =>
              /\ r.at \in 1..Len(Out(f)')
              /\ \A s \in Sockets : (\E i \in DOMAIN r.to : r.to[i] = s) => serve[s] # "none"
              /\ \A s \in r.dead : link[s] = "gone"
              /\ \A s \in Sockets :
                    serve[s] = "serving" /\ link[s] # "gone" /\ s \notin late'[f]
                    /\ feed[s] = Out(f)'[r.at].feed
                    => s \in reached'[f] \/ \E i \in DOMAIN r.to : r.to[i] = s
    PROVE  IInv'
<1>1. handler \in Requests
  BY Parts DEF IInv
<1>2. handler' \in Requests /\ handler'[f] = r /\ \A g \in Frames : g # f => handler'[g] = handler[g]
  BY <1>1 DEF Requests
<1>3. \A g \in Frames : g # f => Out(g)' = Out(g)
  BY <1>2, OutSame
<1>5. LoopInv'
  BY <1>2 DEF IInv, LoopInv
<1>4. TypeOK'
  BY <1>2, <1>5, PartsNext
<1>6. InsertInv'
  BY <1>2 DEF IInv, InsertInv, RecentDuplicate
<1>7. AtInv'
  BY <1>2, <1>3 DEF IInv, AtInv
<1>8. RoundInv'
  <2>1. ASSUME NEW g \in Frames, g # f, handler'[g].pc = "send"
        PROVE  /\ \A s \in Sockets : Awaits(g, s)' => serve'[s] # "none"
               /\ \A s \in handler'[g].dead : link'[s] = "gone"
               /\ \A s \in Sockets : Owed(g, s)' => s \in reached'[g] \/ Awaits(g, s)'
    BY <2>1, <1>2, <1>3 DEF IInv, RoundInv, Awaits, Owed
  <2>2. ASSUME handler'[f].pc = "send"
        PROVE  /\ \A s \in Sockets : Awaits(f, s)' => serve'[s] # "none"
               /\ \A s \in handler'[f].dead : link'[s] = "gone"
               /\ \A s \in Sockets : Owed(f, s)' => s \in reached'[f] \/ Awaits(f, s)'
    BY <2>2, <1>2 DEF Awaits, Owed
  <2>. QED  BY <2>1, <2>2 DEF RoundInv
<1>. QED  BY <1>4, <1>5, <1>6, <1>7, <1>8 DEF IInv

LEMMA FirstStep ==
    ASSUME IInv, IngestAssumption, NEW f \in Frames, FirstBroadcast(f)
    PROVE  IInv'
<1>. DEFINE h == handler[f]
<1>1. ServerOK /\ ClientsOK /\ handler \in Requests /\ h \in Request
  BY Parts DEF IInv, Requests
<1>. DEFINE ch == Out(f)[1].feed
<1>2. Out(f) \in Seq(Messages) /\ 1 \in 1..Len(Out(f)) /\ ch \in Feeds
  <2>1. Out(f) \in Seq(Messages) /\ Len(Out(f)) >= 1
    BY <1>1, OutType
  <2>2. Out(f)[1] \in Messages
    BY <2>1
  <2>. QED  BY <2>1, <2>2, MessageIn DEF Messages
<1>3. PICK q \in Orders(subs[ch]) :
          handler' = [handler EXCEPT ![f].pc = "send", ![f].over = {}, ![f].at = 1,
                                     ![f].to = q, ![f].dead = {}]
  BY DEF FirstBroadcast
<1>. DEFINE r == [h EXCEPT !.pc = "send", !.over = {}, !.at = 1, !.to = q, !.dead = {}]
<1>4. q \in Seq(Sockets) /\ \A s \in Sockets : s \in subs[ch] <=> \E i \in DOMAIN q : q[i] = s
  BY <1>1, <1>2, OrdersOf DEF ClientsOK
<1>5. r \in Request /\ r.pc = "send" /\ r.at = 1 /\ r.to = q /\ r.dead = {}
      /\ r.made = h.made /\ r.snapshot = h.snapshot
  BY <1>1, <1>4 DEF Request
<1>6. Out(f)' = Out(f)
  BY <1>1, <1>3, <1>5, OutSame DEF Requests
<1>7. ServerOK' /\ ClientsOK' /\ LinkInv' /\ SubInv' /\ loop = f /\ UNCHANGED <<sinceAlert, clients>>
  BY <1>1 DEF FirstBroadcast, ServerOK, ClientsOK, LinkInv, SubInv, IInv, clients
<1>8. \A s \in Sockets : s \in subs[ch] => serve[s] # "none"
  BY <1>2 DEF IInv, SubInv
<1>9. \A s \in Sockets : serve[s] = "serving" /\ link[s] # "gone" /\ feed[s] = ch => s \in subs[ch]
  BY DEF IInv, SubInv
<1>. HIDE DEF r
<1>10. \A s \in Sockets : (\E i \in DOMAIN r.to : r.to[i] = s) => serve[s] # "none"
  BY <1>4, <1>5, <1>8
<1>11. \A s \in Sockets :
          serve[s] = "serving" /\ link[s] # "gone" /\ feed[s] = Out(f)'[r.at].feed
          => \E i \in DOMAIN r.to : r.to[i] = s
  BY <1>4, <1>5, <1>6, <1>9
<1>12. r.at \in 1..Len(Out(f)') /\ \A s \in r.dead : link[s] = "gone"
  BY <1>2, <1>5, <1>6
<1>13. handler' = [handler EXCEPT ![f] = r]
  BY <1>3 DEF r
<1>. QED  BY <1>5, <1>7, <1>10, <1>11, <1>12, <1>13, RoundStep DEF clients

LEMMA SendStep ==
    ASSUME IInv, NEW f \in Frames, Send(f)
    PROVE  IInv'
<1>. DEFINE h == handler[f]
            s == Head(h.to)
            r == [h EXCEPT !.to = Tail(@), !.dead = IF link[s] = "open" THEN @ ELSE @ \cup {s}]
<1>1. ServerOK /\ ClientsOK /\ handler \in Requests /\ h \in Request
  BY Parts DEF IInv, Requests
<1>2. h.pc = "send" /\ h.to # <<>> /\ link[s] # "stalled" /\ handler' = [handler EXCEPT ![f] = r]
  BY <1>1 DEF Send, Requests
<1>3. h.to \in Seq(Sockets) /\ s \in Sockets /\ Tail(h.to) \in Seq(Sockets)
  BY <1>1, <1>2 DEF Request
<1>4. r \in Request /\ r.pc = "send" /\ r.to = Tail(h.to) /\ r.at = h.at /\ r.made = h.made
      /\ r.snapshot = h.snapshot /\ r.dead \subseteq h.dead \cup {s}
      /\ (link[s] = "open" => r.dead = h.dead)
  BY <1>1, <1>2, <1>3 DEF Request
<1>5. Out(f)' = Out(f)
  BY <1>1, <1>2, <1>4, OutSame DEF Requests
<1>6. Out(f)[h.at] \in Messages /\ h.at \in 1..Len(Out(f))
  BY <1>1, <1>2, OutType DEF IInv, AtInv
<1>7. reached' = [reached EXCEPT ![f] = @ \cup {s}] /\ UNCHANGED <<late, link, serve, feed, subs>>
      /\ UNCHANGED <<sinceAlert, loop, abandoned, errors, mail>>
  BY DEF Send
<1>8. ServerOK' /\ ClientsOK'
  <2>1. last' \in [Sockets -> Messages \cup {None}]
    BY <1>1, <1>6 DEF Send, ClientsOK
  <2>2. reached' \in [Frames -> SUBSET Sockets]
    BY <1>1, <1>3, <1>7 DEF ClientsOK
  <2>. QED  BY <1>1, <1>7, <2>1, <2>2 DEF ServerOK, ClientsOK
<1>9. LinkInv' /\ SubInv'
  BY <1>7 DEF IInv, LinkInv, SubInv
<1>10. Awaits(f, s) /\ \A x \in Sockets : Awaits(f, x) => x = s \/ \E i \in DOMAIN Tail(h.to) : Tail(h.to)[i] = x
  <2>1. Len(h.to) >= 1 /\ h.to[1] = s
    BY <1>2, <1>3
  <2>2. \A i \in 2..Len(h.to) : i - 1 \in DOMAIN Tail(h.to) /\ Tail(h.to)[i - 1] = h.to[i]
    BY <1>2, <1>3
  <2>3. ASSUME NEW x \in Sockets, Awaits(f, x), x # s
        PROVE  \E i \in DOMAIN Tail(h.to) : Tail(h.to)[i] = x
    <3>1. PICK i \in DOMAIN h.to : h.to[i] = x
      BY <2>3 DEF Awaits
    <3>2. i \in 2..Len(h.to)
      BY <1>3, <2>1, <2>3, <3>1
    <3>. QED  BY <2>2, <3>1, <3>2
  <2>4. 1 \in DOMAIN h.to
    BY <1>3, <2>1
  <2>. QED  BY <2>1, <2>3, <2>4 DEF Awaits
<1>11. \A x \in Sockets : (\E i \in DOMAIN Tail(h.to) : Tail(h.to)[i] = x) => Awaits(f, x)
  <2>1. \A i \in DOMAIN Tail(h.to) : i + 1 \in DOMAIN h.to /\ h.to[i + 1] = Tail(h.to)[i]
    BY <1>2, <1>3
  <2>. QED  BY <2>1 DEF Awaits
<1>. HIDE DEF r, s
<1>12. \A x \in Sockets : (\E i \in DOMAIN r.to : r.to[i] = x) => serve[x] # "none"
  BY <1>2, <1>4, <1>11 DEF IInv, RoundInv
<1>13. \A x \in r.dead : link[x] = "gone"
  <2>1. link[s] \in {"open", "gone"}
    BY <1>1, <1>2, <1>3, <1>10 DEF IInv, RoundInv, LinkInv, ClientsOK
  <2>. QED  BY <2>1, <1>2, <1>4 DEF IInv, RoundInv
<1>14. \A x \in Sockets :
          serve[x] = "serving" /\ link[x] # "gone" /\ x \notin late'[f]
          /\ feed[x] = Out(f)'[r.at].feed
          => x \in reached'[f] \/ \E i \in DOMAIN r.to : r.to[i] = x
  <2>1. \A x \in Sockets :
          serve[x] = "serving" /\ link[x] # "gone" /\ x \notin late[f]
          /\ feed[x] = Out(f)[h.at].feed
          => x \in reached[f] \/ Awaits(f, x)
    BY <1>2 DEF IInv, RoundInv, Owed
  <2>2. s \in reached'[f] /\ reached[f] \subseteq reached'[f]
    BY <1>1, <1>7 DEF ClientsOK
  <2>. QED  BY <2>1, <2>2, <1>4, <1>5, <1>7, <1>10
<1>15. \A g \in Frames : g # f => reached'[g] = reached[g] /\ late'[g] = late[g]
  BY <1>1, <1>7 DEF ClientsOK
<1>16. handler' = [handler EXCEPT ![f] = r] /\ r.at \in 1..Len(Out(f)')
  BY <1>2, <1>4, <1>5, <1>6
<1>. QED  BY <1>4, <1>7, <1>8, <1>9, <1>12, <1>13, <1>14, <1>15, <1>16, RoundStep

LEMMA NextStep ==
    ASSUME IInv, IngestAssumption, NEW f \in Frames, NextBroadcast(f)
    PROVE  IInv'
<1>. DEFINE h == handler[f]
            ch == Out(f)[h.at].feed
<1>1. ServerOK /\ ClientsOK /\ handler \in Requests /\ h \in Request
  BY Parts DEF IInv, Requests
<1>2. h.pc = "send" /\ h.to = <<>> /\ subs' = [subs EXCEPT ![ch] = @ \ h.dead]
      /\ reached' = [reached EXCEPT ![f] = {}] /\ late' = [late EXCEPT ![f] = {}]
      /\ UNCHANGED <<sinceAlert, loop, abandoned, errors, mail, link, serve, feed, last>>
  BY DEF NextBroadcast, WithoutDead
<1>3. Out(f) \in Seq(Messages) /\ h.at \in 1..Len(Out(f)) /\ \A m \in Messages : m.feed \in Feeds
  BY <1>1, <1>2, OutType, MessageIn DEF IInv, AtInv, Messages
<1>4. ch \in Feeds
  BY <1>3
<1>5. \A x \in h.dead : link[x] = "gone"
  BY <1>2 DEF IInv, RoundInv
<1>6. ServerOK' /\ ClientsOK'
  BY <1>1, <1>2 DEF ServerOK, ClientsOK
<1>7. LinkInv' /\ SubInv'
  BY <1>1, <1>2, <1>5 DEF IInv, LinkInv, SubInv, ClientsOK
<1>8. \A g \in Frames : g # f => reached'[g] = reached[g] /\ late'[g] = late[g]
  BY <1>1, <1>2 DEF ClientsOK
<1>9. CASE h.at = Len(Out(f))
  <2>. DEFINE r == [NewRequest EXCEPT !.pc = "answered"]
  <2>1. r \in Request /\ r.pc = "answered"
    <3>1. NewRequest \in Request
      BY DEF NewRequest, Request
    <3>. QED  BY <3>1 DEF Request
  <2>2. handler' = [handler EXCEPT ![f] = r]
    BY <1>9 DEF NextBroadcast
  <2>. HIDE DEF r
  <2>. QED  BY <2>1, <2>2, <1>2, <1>6, <1>7, <1>8, RoundStep
<1>10. CASE h.at # Len(Out(f))
  <2>. DEFINE nx == Out(f)[h.at + 1].feed
  <2>1. h.at + 1 \in 1..Len(Out(f)) /\ nx \in Feeds
    BY <1>3, <1>10
  <2>2. PICK q \in Orders(subs'[nx]) :
            handler' = [handler EXCEPT ![f] = [h EXCEPT !.at = @ + 1, !.to = q, !.dead = {}]]
    BY <1>1, <1>10 DEF NextBroadcast, Requests
  <2>. DEFINE r == [h EXCEPT !.at = @ + 1, !.to = q, !.dead = {}]
  <2>3. subs'[nx] \subseteq Sockets
    BY <1>6, <2>1 DEF ClientsOK
  <2>4. q \in Seq(Sockets) /\ \A s \in Sockets : s \in subs'[nx] <=> \E i \in DOMAIN q : q[i] = s
    BY <2>3, OrdersOf
  <2>5. r \in Request /\ r.pc = "send" /\ r.at = h.at + 1 /\ r.to = q /\ r.dead = {}
        /\ r.made = h.made /\ r.snapshot = h.snapshot
    <3>1. h.at + 1 \in Nat
      BY <1>1 DEF Request
    <3>. QED  BY <1>1, <1>2, <2>4, <3>1 DEF Request
  <2>6. Out(f)' = Out(f)
    BY <1>1, <2>2, <2>5, OutSame DEF Requests
  <2>. HIDE DEF r
  <2>7. \A s \in Sockets : (\E i \in DOMAIN r.to : r.to[i] = s) => serve[s] # "none"
    BY <1>2, <1>7, <2>1, <2>4, <2>5 DEF SubInv
  <2>8. \A s \in Sockets :
            serve[s] = "serving" /\ link[s] # "gone" /\ feed[s] = Out(f)'[r.at].feed
            => \E i \in DOMAIN r.to : r.to[i] = s
    BY <1>2, <1>7, <2>4, <2>5, <2>6 DEF SubInv
  <2>9. r.at \in 1..Len(Out(f)') /\ \A s \in r.dead : link[s] = "gone"
    BY <2>1, <2>5, <2>6
  <2>10. handler' = [handler EXCEPT ![f] = r]
    BY <2>2 DEF r
  <2>. QED  BY <1>2, <1>6, <1>7, <1>8, <2>5, <2>7, <2>8, <2>9, <2>10, RoundStep
<1>. QED  BY <1>9, <1>10

-----------------------------------------------------------------------------
(* The sockets, time and the mail server                                   *)

LEMMA SocketStep ==
    ASSUME IInv, NEW s \in Sockets,
           \/ Connect(s) \/ Register(s) \/ Disconnect(s) \/ ServeFails(s)
           \/ Stall(s) \/ Resume(s) \/ Leave(s) \/ PingTimeout(s)
    PROVE  IInv'
<1>1. ServerOK /\ ClientsOK /\ handler \in Requests
  BY Parts DEF IInv
<1>2. UNCHANGED server
  BY DEF Connect, Register, Disconnect, ServeFails, Stall, Resume, Leave, PingTimeout, SetLink
<1>3. ServerOK' /\ handler' \in Requests /\ LoopInv' /\ InsertInv'
  BY <1>1, <1>2 DEF server, ServerOK, IInv, LoopInv, InsertInv, RecentDuplicate
<1>4. \A f \in Frames : Out(f)' = Out(f) /\ \A x : Awaits(f, x)' = Awaits(f, x)
  BY <1>2, OutSame DEF server, Awaits
<1>5. AtInv' /\ handler' = handler
  BY <1>2, <1>4 DEF server, IInv, AtInv
<1>6. ASSUME ClientsOK', LinkInv', SubInv', RoundInv' PROVE IInv'
  BY <1>3, <1>5, <1>6, PartsNext DEF IInv
<1>7. CASE Connect(s)
  <2>1. PICK ch \in Feeds : feed' = [feed EXCEPT ![s] = ch]
    BY <1>7 DEF Connect
  <2>2. /\ link[s] = "none" /\ serve[s] = "none"
        /\ link' = [link EXCEPT ![s] = "open"] /\ serve' = [serve EXCEPT ![s] = "accepting"]
        /\ UNCHANGED <<subs, last, reached, late>>
    BY <1>7 DEF Connect, IInv, LinkInv
  <2>3. ClientsOK' /\ LinkInv'
    BY <1>1, <2>1, <2>2 DEF ClientsOK, IInv, LinkInv
  <2>4. SubInv'
    BY <1>1, <2>1, <2>2 DEF ClientsOK, IInv, SubInv
  <2>5. RoundInv'
    BY <1>1, <1>4, <1>5, <2>1, <2>2 DEF ClientsOK, IInv, RoundInv, Owed
  <2>. QED  BY <1>6, <2>3, <2>4, <2>5
<1>8. CASE Register(s)
  <2>1. /\ serve[s] = "accepting" /\ serve' = [serve EXCEPT ![s] = "serving"]
        /\ subs' = [subs EXCEPT ![feed[s]] = @ \cup {s}]
        /\ late' = [f \in Frames |-> IF handler[f].pc = "send" THEN late[f] \cup {s} ELSE {}]
        /\ UNCHANGED <<link, feed, last, reached>>
    BY <1>8 DEF Register
  <2>2. ClientsOK'
    BY <1>1, <2>1 DEF ClientsOK
  <2>3. LinkInv' /\ SubInv'
    BY <1>1, <2>1 DEF ClientsOK, IInv, LinkInv, SubInv
  <2>4. RoundInv'
    BY <1>1, <1>4, <1>5, <2>1 DEF ClientsOK, IInv, RoundInv, Owed
  <2>. QED  BY <1>6, <2>2, <2>3, <2>4
<1>9. CASE Disconnect(s)
  <2>1. /\ serve[s] = "serving" /\ link[s] = "gone" /\ serve' = [serve EXCEPT ![s] = "done"]
        /\ subs' = [subs EXCEPT ![feed[s]] = @ \ {s}]
        /\ UNCHANGED <<link, feed, last, reached, late>>
    BY <1>9 DEF Disconnect
  <2>2. ClientsOK'
    BY <1>1, <2>1 DEF ClientsOK
  <2>3. LinkInv' /\ SubInv'
    BY <1>1, <2>1 DEF ClientsOK, IInv, LinkInv, SubInv
  <2>4. RoundInv'
    BY <1>1, <1>4, <1>5, <2>1 DEF ClientsOK, IInv, RoundInv, Owed
  <2>. QED  BY <1>6, <2>2, <2>3, <2>4
<1>11. CASE ServeFails(s)
  <2>1. /\ serve[s] = "serving" /\ serve' = [serve EXCEPT ![s] = "failed"]
        /\ link' = [link EXCEPT ![s] = "gone"] /\ last' = [last EXCEPT ![s] = None]
        /\ UNCHANGED <<feed, subs, reached, late>>
    BY <1>11 DEF ServeFails
  <2>2. ClientsOK'
    BY <1>1, <2>1 DEF ClientsOK
  <2>3. LinkInv' /\ SubInv'
    BY <1>1, <2>1 DEF ClientsOK, IInv, LinkInv, SubInv
  <2>4. RoundInv'
    BY <1>1, <1>4, <1>5, <2>1 DEF ClientsOK, IInv, RoundInv, Owed
  <2>. QED  BY <1>6, <2>2, <2>3, <2>4
<1>10. CASE Stall(s) \/ Resume(s) \/ Leave(s) \/ PingTimeout(s)
  <2>1. PICK to \in {"open", "stalled", "gone"} : SetLink(s, {"open", "stalled"}, to)
    BY <1>10 DEF Stall, Resume, Leave, PingTimeout, SetLink
  <2>2. /\ link[s] \in {"open", "stalled"} /\ link' = [link EXCEPT ![s] = to]
        /\ UNCHANGED <<serve, feed, subs, reached, late>>
    BY <2>1 DEF SetLink
  <2>3. last' \in [Sockets -> Messages \cup {None}]
    BY <1>1, <2>1 DEF SetLink, ClientsOK
  <2>4. ClientsOK'
    BY <1>1, <2>2, <2>3 DEF ClientsOK
  <2>5. LinkInv' /\ SubInv'
    BY <1>1, <2>2 DEF ClientsOK, IInv, LinkInv, SubInv
  <2>6. RoundInv'
    BY <1>1, <1>4, <1>5, <2>2 DEF ClientsOK, IInv, RoundInv, Owed
  <2>. QED  BY <1>6, <2>4, <2>5, <2>6
<1>. QED  BY <1>7, <1>8, <1>9, <1>10, <1>11

LEMMA QuietTime ==
    ASSUME IInv, IngestAssumption,
           Tick \/ MailGoesSilent \/ (\E f \in Frames : GiveUp(f)) \/ UNCHANGED vars
    PROVE  IInv'
<1>1. ServerOK /\ ClientsOK /\ handler \in Requests
  BY Parts DEF IInv
<1>2. UNCHANGED <<handler, clients>> /\ loop' = loop
  BY DEF Tick, MailGoesSilent, GiveUp, vars, server
<1>3. \A t \in Rules, c \in Cameras :
          /\ sinceAlert'[t][c] \in 0..(DedupWindow + 1)
          /\ sinceAlert[t][c] > DedupWindow => sinceAlert'[t][c] > DedupWindow
  <2>1. CASE Tick
    BY <1>1, <2>1, OlderRange DEF Tick, ServerOK
  <2>2. CASE sinceAlert' = sinceAlert
    BY <1>1, <2>2 DEF ServerOK
  <2>. QED  BY <2>1, <2>2 DEF MailGoesSilent, GiveUp, vars, server
<1>4. sinceAlert' \in [Rules -> [Cameras -> 0..(DedupWindow + 1)]]
  <2>1. CASE Tick
    BY <1>1, <2>1, OlderRange DEF Tick, ServerOK
  <2>2. CASE sinceAlert' = sinceAlert
    BY <1>1, <2>2 DEF ServerOK
  <2>. QED  BY <2>1, <2>2 DEF MailGoesSilent, GiveUp, vars, server
<1>5. ServerOK'
  BY <1>1, <1>4 DEF Tick, MailGoesSilent, GiveUp, vars, server, ServerOK
<1>6. LoopInv'
  BY <1>2 DEF IInv, LoopInv
<1>7. InsertInv'
  <2>. SUFFICES ASSUME NEW f \in Frames, handler[f].pc = "insert"
                PROVE  /\ handler[f].rule \in {1, 2}
                       /\ ~(sinceAlert'[RuleOrder[handler[f].rule]][f[1]] <= DedupWindow)
    BY <1>2 DEF InsertInv, RecentDuplicate
  <2>1. /\ handler[f].rule \in {1, 2}
        /\ ~(sinceAlert[RuleOrder[handler[f].rule]][f[1]] <= DedupWindow)
    BY DEF IInv, InsertInv, RecentDuplicate
  <2>2. RuleOrder[handler[f].rule] \in Rules /\ f[1] \in Cameras
    BY <2>1 DEF RuleOrder, Rules, Frames
  <2>3. sinceAlert[RuleOrder[handler[f].rule]][f[1]] \in 0..(DedupWindow + 1)
    BY <1>1, <2>2 DEF ServerOK
  <2>. QED  BY <2>1, <2>2, <2>3, <1>3, IngestAssumption DEF IngestAssumption
<1>8. handler' \in Requests /\ ClientsOK' /\ Broadcasting'
  BY <1>2, IdleStep
<1>. QED  BY <1>5, <1>6, <1>7, <1>8, PartsNext DEF IInv, Broadcasting

-----------------------------------------------------------------------------
(* The theorems                                                            *)

LEMMA InitInv == Init => IInv
<1>. SUFFICES ASSUME Init PROVE IInv
  OBVIOUS
<1>1. NewRequest \in Request /\ NewRequest.pc = "unsent"
  BY DEF NewRequest, Request
<1>2. handler \in Requests /\ \A f \in Frames : handler[f].pc = "unsent"
  BY <1>1 DEF Init, Requests
<1>3. ServerOK
  BY IngestAssumption DEF Init, ServerOK, IngestAssumption
<1>4. ClientsOK /\ LinkInv /\ SubInv
  BY DEF Init, ClientsOK, LinkInv, SubInv, Feeds
<1>. QED  BY <1>2, <1>3, <1>4, Parts DEF IInv, LoopInv, InsertInv, AtInv, RoundInv

LEMMA Inductive == IInv /\ [Next]_vars => IInv'
<1>. SUFFICES ASSUME IInv, [Next]_vars PROVE IInv'
  OBVIOUS
<1>. USE IngestAssumption
<1>1. CASE \E f \in Frames : Send(f)
  BY <1>1, SendStep
<1>2. CASE \E f \in Frames : FirstBroadcast(f) \/ NextBroadcast(f)
  BY <1>2, FirstStep, NextStep
<1>3. CASE \E f \in Frames : Post(f) \/ Store(f) \/ CheckRule(f) \/ InsertAlert(f)
                             \/ Dispatch(f) \/ Fail(f)
  BY <1>3, RulesStep
<1>4. CASE \E s \in Sockets : \/ Connect(s) \/ Register(s) \/ Disconnect(s) \/ ServeFails(s)
                              \/ Stall(s) \/ Resume(s) \/ Leave(s) \/ PingTimeout(s)
  BY <1>4, SocketStep
<1>5. CASE Tick \/ MailGoesSilent \/ (\E f \in Frames : GiveUp(f)) \/ UNCHANGED vars
  BY <1>5, QuietTime
<1>. QED  BY <1>1, <1>2, <1>3, <1>4, <1>5 DEF Next, Handle

LEMMA Invariant == Spec => []IInv
BY InitInv, Inductive, PTL DEF Spec

\* Every variable of the backend and of its subscribers has its type.
THEOREM TypeCorrect == Spec => []TypeOK
BY Invariant, PTL DEF IInv

\* A broadcast that ends has reached every client that was subscribed when it began
\* and is still there, with any number of broadcasts, arrivals and departures
\* between two of its sends.
THEOREM NothingMissed == Spec => []SubscribersMissNothing
<1>1. IInv => SubscribersMissNothing
  <2>. SUFFICES ASSUME IInv, NEW f \in Frames, NEW s \in Sockets,
                       handler[f].pc = "send", handler[f].to = <<>>, Owed(f, s)
                PROVE  s \in reached[f]
    BY DEF SubscribersMissNothing, Owed
  <2>1. ~Awaits(f, s)
    BY DEF Awaits
  <2>. QED  BY <2>1 DEF IInv, RoundInv
<1>. QED  BY <1>1, Invariant, PTL

\* The frame alerts implement AlertLog: no alert of a type is inserted within
\* DEDUP_WINDOW of the one before it, for every interleaving of the requests.
THEOREM ImplementsAlertLog == Spec => AlertsDeduplicated
<1>1. Init => Log!Init
  BY DEF Init, Log!Init, Log!Old
<1>2. IInv /\ [Next]_vars => [Log!Next]_sinceAlert
  <2>. SUFFICES ASSUME IInv, Next, sinceAlert' # sinceAlert PROVE Log!Next
    BY DEF vars, server
  <2>1. CASE Tick
    <3>1. \A t \in Rules, c \in Cameras : Older(sinceAlert[t][c]) = Log!Older(sinceAlert[t][c])
      BY DEF Older, Log!Older
    <3>2. sinceAlert' = [t \in Rules |-> [c \in Cameras |-> Log!Older(sinceAlert[t][c])]]
      BY <2>1, <3>1 DEF Tick
    <3>. QED  BY <3>2 DEF Log!Next, Log!Tick
  <2>2. CASE \E f \in Frames : InsertAlert(f)
    <3>1. PICK f \in Frames : InsertAlert(f)
      BY <2>2
    <3>. DEFINE t == RuleOrder[handler[f].rule]
    <3>2. t \in Rules /\ f[1] \in Cameras
      BY <3>1 DEF InsertAlert, IInv, InsertInv, RuleOrder, Rules, Frames
    <3>3. sinceAlert[t][f[1]] \in 0..(DedupWindow + 1) /\ ~(sinceAlert[t][f[1]] <= DedupWindow)
      BY <3>1, <3>2 DEF InsertAlert, IInv, InsertInv, RecentDuplicate, TypeOK
    <3>4. sinceAlert[t][f[1]] > DedupWindow
      BY <3>3, IngestAssumption DEF IngestAssumption
    <3>5. Log!Raise(t, f[1])
      BY <3>1, <3>4 DEF InsertAlert, Log!Raise
    <3>. QED  BY <3>2, <3>5 DEF Log!Next
  <2>. QED  BY <2>1, <2>2 DEF Next, Handle, Post, GiveUp, Store, CheckRule, Dispatch, Fail,
                FirstBroadcast, Send, NextBroadcast, Connect, Register, Disconnect, ServeFails,
                Stall, Resume, Leave, PingTimeout, SetLink, MailGoesSilent, server
<1>. QED  BY <1>1, <1>2, Invariant, PTL DEF Spec, AlertsDeduplicated, Log!Spec

-----------------------------------------------------------------------------
(* The order of the frames                                                 *)

\* A frame is begun after the ones before it were answered or given up; what a
\* client shows was begun.
QueueInv ==
    /\ \A f \in abandoned : handler[f].pc # "unsent"
    /\ \A f, g \in Frames :
          f[1] = g[1] /\ f[2] < g[2] /\ handler[g].pc # "unsent" => Over(f) \/ f \in abandoned
    /\ \A s \in Sockets : last[s] # None =>
          last[s].frame \in Frames /\ handler[last[s].frame].pc # "unsent"

\* A request that was begun stays begun, and one that is over stays over.
LEMMA Onward ==
    ASSUME TypeOK, [Next]_vars, NEW f \in Frames
    PROVE  /\ Over(f) => Over(f)'
           /\ handler[f].pc # "unsent" => handler'[f].pc # "unsent"
           /\ handler[f].pc = "unsent" /\ handler'[f].pc # "unsent" => Post(f)
<1>. DEFINE Goal == /\ Over(f) => Over(f)'
                    /\ handler[f].pc # "unsent" => handler'[f].pc # "unsent"
                    /\ handler[f].pc = "unsent" /\ handler'[f].pc # "unsent" => Post(f)
<1>0. handler \in Requests
  BY DEF TypeOK, Requests
<1>1. ASSUME NEW g \in Frames, NEW r, handler' = [handler EXCEPT ![g] = r],
             ~Over(g), handler[g].pc = "unsent" => Post(g), r.pc # "unsent"
      PROVE  Goal
  <2>1. handler'[f] = IF f = g THEN r ELSE handler[f]
    BY <1>0, <1>1 DEF Requests
  <2>. QED  BY <1>1, <2>1 DEF Over
<1>2. ASSUME NEW g \in Frames, Post(g) PROVE Goal
  <2>1. g # f => handler'[f] = handler[f]
    BY <1>0, <1>2 DEF Post, Requests
  <2>2. handler'[g].pc = "posted"
    BY <1>0, <1>2 DEF Post, Requests, Request
  <2>. QED  BY <1>2, <2>1, <2>2 DEF Over, Post
<1>3. ASSUME NEW g \in Frames, Store(g) \/ CheckRule(g) \/ InsertAlert(g) \/ Dispatch(g)
      PROVE  Goal
  <2>1. g # f => handler'[f] = handler[f]
    BY <1>0, <1>3 DEF Store, CheckRule, InsertAlert, Dispatch, Requests
  <2>2. /\ handler[g].pc \in {"posted", "check", "insert", "dispatch"}
        /\ handler'[g].pc \in {"check", "insert", "dispatch"}
    BY <1>0, <1>3 DEF Store, CheckRule, InsertAlert, Dispatch, Requests, Request
  <2>. QED  BY <2>1, <2>2 DEF Over
<1>4. ASSUME NEW g \in Frames, Fail(g) PROVE Goal
  BY <1>1, <1>4 DEF Fail, NewRequest, Over
<1>5. ASSUME NEW g \in Frames, FirstBroadcast(g) PROVE Goal
  <2>1. PICK q : handler' = [handler EXCEPT ![g] = [handler[g] EXCEPT
                    !.pc = "send", !.over = {}, !.at = 1, !.to = q, !.dead = {}]]
    BY <1>5 DEF FirstBroadcast
  <2>2. handler[g].pc = "check"
    BY <1>5 DEF FirstBroadcast
  <2>3. handler[g] \in Request
    BY <1>0 DEF Requests
  <2>4. [handler[g] EXCEPT !.pc = "send", !.over = {}, !.at = 1, !.to = q, !.dead = {}].pc = "send"
    BY <2>3 DEF Request
  <2>. QED  BY <1>1, <2>1, <2>2, <2>4 DEF Over
<1>6. ASSUME NEW g \in Frames, Send(g) PROVE Goal
  <2>1. PICK q, d : handler' = [handler EXCEPT ![g] = [handler[g] EXCEPT !.to = q, !.dead = d]]
    BY <1>6 DEF Send
  <2>2. handler[g].pc = "send"
    BY <1>6 DEF Send
  <2>3. handler[g] \in Request
    BY <1>0 DEF Requests
  <2>4. [handler[g] EXCEPT !.to = q, !.dead = d].pc = "send"
    BY <2>2, <2>3 DEF Request
  <2>. QED  BY <1>1, <2>1, <2>2, <2>4 DEF Over
<1>7. ASSUME NEW g \in Frames, NextBroadcast(g) PROVE Goal
  <2>1. handler[g].pc = "send" /\ handler[g] \in Request
    BY <1>0, <1>7 DEF NextBroadcast, Requests
  <2>2. CASE handler' = [handler EXCEPT ![g] = [NewRequest EXCEPT !.pc = "answered"]]
    <3>1. [NewRequest EXCEPT !.pc = "answered"].pc = "answered"
      BY DEF NewRequest
    <3>. QED  BY <1>1, <2>1, <2>2, <3>1 DEF Over
  <2>3. ASSUME NEW n, NEW q,
               handler' = [handler EXCEPT ![g] = [handler[g] EXCEPT !.at = n, !.to = q, !.dead = {}]]
        PROVE  Goal
    <3>1. [handler[g] EXCEPT !.at = n, !.to = q, !.dead = {}].pc = "send"
      BY <2>1 DEF Request
    <3>. QED  BY <1>1, <2>1, <2>3, <3>1 DEF Over
  <2>4. CASE handler[g].at = Len(Out(g))
    BY <1>7, <2>2, <2>4 DEF NextBroadcast
  <2>5. CASE handler[g].at # Len(Out(g))
    <3>1. PICK q : handler' = [handler EXCEPT ![g].at = @ + 1, ![g].to = q, ![g].dead = {}]
      BY <1>7, <2>5 DEF NextBroadcast
    <3>2. handler' = [handler EXCEPT ![g] =
                        [handler[g] EXCEPT !.at = handler[g].at + 1, !.to = q, !.dead = {}]]
      BY <3>1
    <3>. QED  BY <2>3, <3>2
  <2>. QED  BY <2>4, <2>5
<1>8. CASE handler' = handler
  BY <1>8 DEF Over
<1>. QED  BY <1>2, <1>3, <1>4, <1>5, <1>6, <1>7, <1>8 DEF Next, Handle, GiveUp, Connect, Register,
             Disconnect, ServeFails, Stall, Resume, Leave, PingTimeout, SetLink, Tick, MailGoesSilent, vars, server

\* The messages of a request name its frame.
LEMMA OutFrame ==
    ASSUME NEW f \in Frames, handler[f] \in Request, NEW i \in 1..Len(Out(f))
    PROVE  Out(f)[i].frame = f
<1>. DEFINE m == handler[f].made
            a == [j \in DOMAIN m |-> Message(m[j], f)]
            b == <<Message("detections", f)>>
            c == IF handler[f].snapshot THEN <<Message("analytics", f)>> ELSE <<>>
            Own == {x \in Messages : x.frame = f}
<1>1. \A k \in Rules \cup {"detections", "analytics"} : Message(k, f) \in Own
  BY MessageIn DEF Message
<1>2. m \in Seq(Rules)
  BY DEF Request
<1>. HIDE DEF Own
<1>3. a \in Seq(Own)
  BY <1>1, <1>2
<1>4. b \in Seq(Own) /\ c \in Seq(Own)
  BY <1>1
<1>5. Out(f) = a \o b \o c
  BY DEF Out
<1>. HIDE DEF a, b, c
<1>6. Out(f) \in Seq(Own)
  BY <1>3, <1>4, <1>5
<1>7. Out(f)[i] \in Own
  BY <1>6
<1>. QED  BY <1>7 DEF Own

\* Where a step takes the message a client shows: nowhere, to the message of a
\* running broadcast, or away with the client.
LEMMA Shown ==
    ASSUME IInv, [Next]_vars, NEW s \in Sockets
    PROVE  \/ last'[s] = last[s]
           \/ last'[s] = None
           \/ \E f \in Frames : handler[f].pc = "send" /\ last'[s].frame = f
<1>1. last \in [Sockets -> Messages \cup {None}] /\ handler \in Requests
  BY DEF IInv, TypeOK, Requests
<1>2. ASSUME NEW f \in Frames, Send(f)
      PROVE  last'[s] = last[s] \/ (handler[f].pc = "send" /\ last'[s].frame = f)
  <2>1. handler[f].pc = "send" /\ handler[f].at \in 1..Len(Out(f)) /\ handler[f] \in Request
    BY <1>1, <1>2 DEF Send, IInv, AtInv, Requests
  <2>2. Out(f)[handler[f].at].frame = f
    BY <2>1, OutFrame
  <2>3. last' = last \/ last' = [last EXCEPT ![Head(handler[f].to)] = Out(f)[handler[f].at]]
    BY <1>2 DEF Send
  <2>. QED  BY <1>1, <2>1, <2>2, <2>3
<1>3. ASSUME NEW x \in Sockets, \/ Stall(x) \/ Resume(x) \/ Leave(x) \/ PingTimeout(x)
                                \/ ServeFails(x)
      PROVE  last'[s] = last[s] \/ last'[s] = None
  BY <1>1, <1>3 DEF Stall, Resume, Leave, PingTimeout, SetLink, ServeFails
<1>. QED  BY <1>2, <1>3 DEF Next, Handle, Post, GiveUp, Store, CheckRule, InsertAlert, Dispatch,
             Fail, FirstBroadcast, NextBroadcast, Connect, Register, Disconnect, Tick,
             MailGoesSilent, vars, clients

LEMMA QueueStep == IInv /\ QueueInv /\ [Next]_vars => QueueInv'
<1>. SUFFICES ASSUME IInv, QueueInv, [Next]_vars PROVE QueueInv'
  OBVIOUS
<1>0. TypeOK
  BY DEF IInv
<1>1. \A f \in abandoned' : handler'[f].pc # "unsent"
  <2>1. \A f \in abandoned' : f \in Frames /\ handler[f].pc # "unsent"
    BY <1>0 DEF QueueInv, TypeOK, Next, Handle, Post, GiveUp, Store, CheckRule, InsertAlert,
       Dispatch, Fail, FirstBroadcast, Send, NextBroadcast, Connect, Register, Disconnect,
       ServeFails, Stall,
       Resume, Leave, PingTimeout, SetLink, Tick, MailGoesSilent, vars, server
  <2>. QED  BY <1>0, <2>1, Onward
<1>2. abandoned \subseteq abandoned'
  BY <1>0 DEF Next, Handle, Post, GiveUp, Store, CheckRule, InsertAlert,
     Dispatch, Fail, FirstBroadcast, Send, NextBroadcast, Connect, Register, Disconnect,
       ServeFails, Stall,
     Resume, Leave, PingTimeout, SetLink, Tick, MailGoesSilent, vars, server
<1>3. ASSUME NEW f \in Frames, NEW g \in Frames, f[1] = g[1], f[2] < g[2],
             handler'[g].pc # "unsent"
      PROVE  Over(f)' \/ f \in abandoned'
  <2>1. CASE handler[g].pc # "unsent"
    BY <1>0, <1>2, <1>3, <2>1, Onward DEF QueueInv
  <2>2. CASE handler[g].pc = "unsent"
    <3>1. Post(g)
      BY <1>0, <1>3, <2>2, Onward
    <3>. DEFINE e == <<g[1], g[2] - 1>>
    <3>2. /\ f[2] \in 1..MaxFrames /\ g[2] \in 1..MaxFrames /\ f[1] \in Cameras
          /\ f = <<f[1], f[2]>> /\ g[2] > 1
      BY <1>3, IngestAssumption DEF Frames, IngestAssumption
    <3>3. e \in Frames /\ e[1] = f[1] /\ e[2] = g[2] - 1
      BY <1>3, <3>2, IngestAssumption DEF Frames, IngestAssumption
    <3>4. Over(e) \/ e \in abandoned
      BY <3>1, <3>2 DEF Post
    <3>5. CASE f[2] < e[2]
      <4>1. handler[e].pc # "unsent"
        BY <3>4 DEF Over, QueueInv
      <4>2. Over(f) \/ f \in abandoned
        BY <3>3, <3>5, <4>1 DEF QueueInv
      <4>. QED  BY <1>0, <1>2, <4>2, Onward
    <3>6. CASE f[2] = e[2]
      <4>1. f = e
        BY <3>2, <3>3, <3>6
      <4>. QED  BY <1>0, <1>2, <3>4, <4>1, Onward
    <3>. QED  BY <1>3, <3>2, <3>3, <3>5, <3>6, IngestAssumption DEF IngestAssumption
  <2>. QED  BY <2>1, <2>2
<1>4. ASSUME NEW s \in Sockets, last'[s] # None
      PROVE  last'[s].frame \in Frames /\ handler'[last'[s].frame].pc # "unsent"
  <2>1. last'[s].frame \in Frames /\ handler[last'[s].frame].pc # "unsent"
    BY <1>4, Shown DEF QueueInv
  <2>. QED  BY <1>0, <2>1, Onward
<1>. QED  BY <1>1, <1>3, <1>4 DEF QueueInv

\* A client sees the frames of a camera in the order they were taken, for any
\* number of requests that overlap, except a frame whose worker had given up.
THEOREM FramesInOrder == Spec => InOrderUnlessAbandoned
<1>1. Init => QueueInv
  BY DEF Init, QueueInv, NewRequest
<1>2. ASSUME IInv, QueueInv, [Next]_vars, NEW s \in Sockets,
             last'[s].frame[1] = last[s].frame[1], last'[s].frame[2] < last[s].frame[2]
      PROVE  last'[s].frame \in abandoned
  <2>1. \/ last[s] = None /\ last[s].frame = <<Idle, 0>>
        \/ last[s].frame \in Frames /\ handler[last[s].frame].pc # "unsent"
    BY <1>2 DEF QueueInv, None, Message
  <2>2. last[s].frame[2] \in Nat
    BY <2>1, IngestAssumption DEF Frames, IngestAssumption
  <2>3. last'[s] # last[s]
    BY <1>2, <2>2
  <2>4. last'[s] # None
    <3>. SUFFICES ASSUME last'[s] = None PROVE FALSE
      OBVIOUS
    <3>1. last'[s].frame = <<Idle, 0>>
      BY DEF None, Message
    <3>2. last[s].frame \in Frames
      BY <2>1, <2>3
    <3>. QED  BY <1>2, <3>1, <3>2, IngestAssumption DEF Frames, IngestAssumption
  <2>5. PICK f \in Frames : handler[f].pc = "send" /\ last'[s].frame = f
    BY <1>2, <2>3, <2>4, Shown
  <2>6. last[s].frame \in Frames /\ handler[last[s].frame].pc # "unsent"
    BY <1>2, <2>1, <2>5, IngestAssumption DEF Frames, IngestAssumption
  <2>. QED  BY <1>2, <2>5, <2>6 DEF QueueInv, Over
<1>3. IInv /\ QueueInv /\ [Next]_vars =>
          (\A s \in Sockets : last'[s].frame[1] = last[s].frame[1]
                              /\ last'[s].frame[2] < last[s].frame[2] => last'[s].frame \in abandoned)
  BY <1>2
<1>. QED  BY <1>1, <1>3, Invariant, QueueStep, PTL DEF Spec, InOrderUnlessAbandoned
=============================================================================
