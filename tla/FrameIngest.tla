---------------------------- MODULE FrameIngest ----------------------------
(***************************************************************************)
(* What happens to a processed frame in the backend: ingest_frame          *)
(* (backend/app/api/v1/ingest.py), the alert rules it evaluates            *)
(* (services/alert_service.py) and the fan-out to the WebSocket            *)
(* subscribers (services/ws_manager.py, api/v1/ws.py).                     *)
(*                                                                         *)
(* ingest_frame is a coroutine of the one event loop of the one server     *)
(* process.  It gives the loop up only where it awaits a send.  The        *)
(* database work, the evaluation of the rules and the dispatch to Slack, a *)
(* webhook and a mail server hold the loop from start to end, and nothing  *)
(* else of the backend's asynchronous side runs meanwhile.                 *)
(*                                                                         *)
(* A worker posts its frames one after the other, each with a time-out of  *)
(* ten seconds, and goes on to the next when it expires; the server does   *)
(* not hear of that and runs the handler to its end.                       *)
(***************************************************************************)
EXTENDS Naturals, Sequences, FiniteSets

CONSTANTS
    Cameras,
    Sockets,      \* the WebSocket connections; a reconnection is another one
    DedupWindow,  \* DEDUP_WINDOW
    MaxFrames,    \* frames posted for each camera (bound)
    MaxErrors,    \* requests that die of a database error or a bad body (bound)
    Idle          \* the event loop while it runs no handler

ASSUME IngestAssumption ==
    /\ DedupWindow \in Nat /\ MaxFrames \in Nat /\ MaxErrors \in Nat
    /\ Idle \notin Cameras \cup Cameras \X (1..MaxFrames) /\ IsFiniteSet(Sockets)

VARIABLES
    sinceAlert,  \* age of the latest alert of a type at a camera
    loop,        \* the handler that holds the event loop, or Idle
    handler,     \* the request of each frame
    abandoned,   \* the frames whose worker stopped waiting for the answer
    errors,
    mail,        \* whether the mail server answers, if only with an error
    link,        \* the client's end of each socket
    serve,       \* _serve, the server's end
    feed,        \* the channel each socket asked for
    subs,        \* WSManager._channels
    last,        \* the message each client received last
    reached,     \* history: the clients a request's broadcast has reached
    late         \* history: the clients that subscribed since it was begun

server == <<sinceAlert, loop, handler, abandoned, errors, mail>>
clients == <<link, serve, feed, subs, last, reached, late>>
vars == <<server, clients>>

Frames == Cameras \X (1..MaxFrames)
RuleOrder == <<"high_queue", "crowding">>
Rules == {"high_queue", "crowding"}
Feeds == Cameras \cup {"alerts", "analytics"}

Message(kind, f) ==
    [kind |-> kind, frame |-> f,
     feed |-> CASE kind \in Rules -> "alerts"
                [] kind = "detections" -> f[1]
                [] kind = "analytics" -> "analytics"]

\* The broadcasts a request makes, in their order.
Out(f) ==
    [i \in DOMAIN handler[f].made |-> Message(handler[f].made[i], f)]
    \o <<Message("detections", f)>>
    \o (IF handler[f].snapshot THEN <<Message("analytics", f)>> ELSE <<>>)

None == Message("detections", <<Idle, 0>>)

\* list(set): the subscribers in any order.
Orders(S) == {q \in [1..Cardinality(S) -> S] : \A s \in S : \E i \in DOMAIN q : q[i] = s}

NewRequest == [pc |-> "unsent", over |-> {}, snapshot |-> FALSE, rule |-> 1,
               made |-> <<>>, at |-> 0, to |-> <<>>, dead |-> {}]

Init ==
    /\ sinceAlert = [t \in Rules |-> [c \in Cameras |-> DedupWindow + 1]]
    /\ loop = Idle
    /\ handler = [f \in Frames |-> NewRequest]
    /\ abandoned = {} /\ errors = 0 /\ mail = "answers"
    /\ link = [s \in Sockets |-> "none"]
    /\ serve = [s \in Sockets |-> "none"]
    /\ feed = [s \in Sockets |-> "alerts"]
    /\ subs = [ch \in Feeds |-> {}]
    /\ last = [s \in Sockets |-> None]
    /\ reached = [f \in Frames |-> {}] /\ late = [f \in Frames |-> {}]

-----------------------------------------------------------------------------
(* The worker                                                              *)

Over(f) == handler[f].pc \in {"answered", "failed"}

\* Mutant: frames are posted without waiting for the one before.
PostAtOnce(f) ==
    /\ handler[f].pc = "unsent"
    /\ handler' = [handler EXCEPT ![f].pc = "posted"]
    /\ UNCHANGED <<sinceAlert, loop, abandoned, errors, mail, clients>>

\* post_frame: the previous frame of the camera was answered or given up.
Post(f) ==
    /\ handler[f].pc = "unsent"
    /\ f[2] > 1 => LET g == <<f[1], f[2] - 1>> IN Over(g) \/ g \in abandoned
    /\ \E over \in SUBSET Rules, snap \in BOOLEAN :
          /\ ~snap => over = {}
          /\ handler' = [handler EXCEPT ![f].pc = "posted", ![f].over = over,
                                        ![f].snapshot = snap]
    /\ UNCHANGED <<sinceAlert, loop, abandoned, errors, mail, clients>>

GiveUp(f) ==
    /\ handler[f].pc # "unsent" /\ ~Over(f) /\ f \notin abandoned
    /\ abandoned' = abandoned \cup {f}
    /\ UNCHANGED <<sinceAlert, loop, handler, errors, mail, clients>>

-----------------------------------------------------------------------------
(* The synchronous part of ingest_frame                                    *)

\* Mutant: the handler runs in a thread, beside the event loop.
StoreInThread(f) ==
    /\ handler[f].pc = "posted"
    /\ handler' = [handler EXCEPT ![f].pc = "check"]
    /\ UNCHANGED <<sinceAlert, loop, abandoned, errors, mail, clients>>

\* The detections and the snapshot are added and committed.
Store(f) ==
    /\ handler[f].pc = "posted" /\ loop = Idle
    /\ loop' = f
    /\ handler' = [handler EXCEPT ![f].pc = "check"]
    /\ UNCHANGED <<sinceAlert, abandoned, errors, mail, clients>>

\* Mutant: the window is compared with < where the query has >=.
DuplicateOffByOne(t, c) == sinceAlert[t][c] < DedupWindow
RecentDuplicate(t, c) == sinceAlert[t][c] <= DedupWindow

\* evaluate_snapshot: the next rule, its threshold and the duplicate check.
CheckRule(f) ==
    LET h == handler[f] IN
    /\ h.pc = "check" /\ loop = f /\ h.rule <= Len(RuleOrder)
    /\ LET t == RuleOrder[h.rule] IN
       handler' = [handler EXCEPT ![f] =
          IF t \in h.over /\ ~RecentDuplicate(t, f[1])
          THEN [h EXCEPT !.pc = "insert"] ELSE [h EXCEPT !.rule = @ + 1]]
    /\ UNCHANGED <<sinceAlert, loop, abandoned, errors, mail, clients>>

\* raise_alert: the row is added and committed.
InsertAlert(f) ==
    LET h == handler[f] IN
    /\ h.pc = "insert" /\ loop = f
    /\ LET t == RuleOrder[h.rule] IN
       /\ sinceAlert' = [sinceAlert EXCEPT ![t][f[1]] = 0]
       /\ handler' = [handler EXCEPT ![f].pc = "dispatch",
                                     ![f].made = Append(h.made, t)]
    /\ UNCHANGED <<loop, abandoned, errors, mail, clients>>

\* dispatch: Slack and the webhook are bounded by time-outs and their errors
\* are swallowed; the mail server's answer is awaited without a limit.
Dispatch(f) ==
    /\ handler[f].pc = "dispatch" /\ loop = f /\ mail = "answers"
    /\ handler' = [handler EXCEPT ![f].pc = "check", ![f].rule = @ + 1]
    /\ UNCHANGED <<sinceAlert, loop, abandoned, errors, mail, clients>>

\* An exception: the request ends with a 500, what was committed stays.
Fail(f) ==
    /\ handler[f].pc \in {"check", "insert"} /\ loop = f /\ errors < MaxErrors
    /\ errors' = errors + 1
    /\ handler' = [handler EXCEPT ![f] = [NewRequest EXCEPT !.pc = "failed"]]
    /\ loop' = Idle
    /\ UNCHANGED <<sinceAlert, abandoned, mail, clients>>

-----------------------------------------------------------------------------
(* WSManager.broadcast                                                     *)

\* The first broadcast copies its subscribers before the loop is given up.
FirstBroadcast(f) ==
    /\ handler[f].pc = "check" /\ loop = f
    /\ handler[f].rule > Len(RuleOrder)
    /\ \E q \in Orders(subs[Out(f)[1].feed]) :
          handler' = [handler EXCEPT ![f].pc = "send", ![f].over = {},
                                     ![f].at = 1, ![f].to = q, ![f].dead = {}]
    /\ loop' = Idle
    /\ UNCHANGED <<sinceAlert, abandoned, errors, mail, clients>>

\* Mutant: the first failed send ends the round.
SendOrStop(f) ==
    LET h == handler[f] s == Head(h.to) IN
    /\ h.pc = "send" /\ loop = Idle /\ h.to # <<>> /\ link[s] # "stalled"
    /\ last' = IF link[s] = "open" THEN [last EXCEPT ![s] = Out(f)[h.at]] ELSE last
    /\ reached' = [reached EXCEPT ![f] = @ \cup {s}]
    /\ handler' = [handler EXCEPT
          ![f].to = IF link[s] = "open" THEN Tail(@) ELSE <<>>,
          ![f].dead = IF link[s] = "open" THEN @ ELSE @ \cup {s}]
    /\ UNCHANGED <<sinceAlert, loop, abandoned, errors, mail, link, serve, feed,
                   subs, late>>

\* One send: it waits while the client does not read.
Send(f) ==
    LET h == handler[f] s == Head(h.to) IN
    /\ h.pc = "send" /\ loop = Idle /\ h.to # <<>> /\ link[s] # "stalled"
    /\ last' = IF link[s] = "open" THEN [last EXCEPT ![s] = Out(f)[h.at]] ELSE last
    /\ reached' = [reached EXCEPT ![f] = @ \cup {s}]
    /\ handler' = [handler EXCEPT ![f].to = Tail(@),
                      ![f].dead = IF link[s] = "open" THEN @ ELSE @ \cup {s}]
    /\ UNCHANGED <<sinceAlert, loop, abandoned, errors, mail, link, serve, feed,
                   subs, late>>

\* Mutant: the sockets that a send failed on stay in the channel.
KeptDead(f) == subs
WithoutDead(f) == [subs EXCEPT ![Out(f)[handler[f].at].feed] = @ \ handler[f].dead]

\* The dead sockets are discarded and the next broadcast copies its own.
NextBroadcast(f) ==
    LET h == handler[f] IN
    /\ h.pc = "send" /\ loop = Idle /\ h.to = <<>>
    /\ subs' = WithoutDead(f)
    /\ IF h.at = Len(Out(f))
       THEN handler' = [handler EXCEPT ![f] = [NewRequest EXCEPT !.pc = "answered"]]
       ELSE \E q \in Orders(subs'[Out(f)[h.at + 1].feed]) :
               handler' = [handler EXCEPT ![f].at = @ + 1, ![f].to = q, ![f].dead = {}]
    /\ reached' = [reached EXCEPT ![f] = {}] /\ late' = [late EXCEPT ![f] = {}]
    /\ UNCHANGED <<sinceAlert, loop, abandoned, errors, mail, link, serve, feed, last>>

-----------------------------------------------------------------------------
(* The subscribers                                                         *)

\* A user's token opens every channel, a stream token its camera's only.
Authorized(token, ch) == token = "access" \/ token = ch

Connect(s) ==
    /\ link[s] = "none" /\ loop = Idle
    /\ \E ch \in Feeds, token \in Cameras \cup {"access", "bad"} :
          /\ Authorized(token, ch)
          /\ feed' = [feed EXCEPT ![s] = ch]
    /\ link' = [link EXCEPT ![s] = "open"]
    /\ serve' = [serve EXCEPT ![s] = "accepting"]
    /\ UNCHANGED <<server, subs, last, reached, late>>

\* WSManager.connect, after accept
Register(s) ==
    /\ serve[s] = "accepting" /\ loop = Idle
    /\ serve' = [serve EXCEPT ![s] = "serving"]
    /\ subs' = [subs EXCEPT ![feed[s]] = @ \cup {s}]
    /\ late' = [f \in Frames |->
                  IF handler[f].pc = "send" THEN late[f] \cup {s} ELSE {}]
    /\ UNCHANGED <<server, link, feed, last, reached>>

\* Mutant: the channel keeps the socket.
DisconnectOnly(s) ==
    /\ serve[s] = "serving" /\ link[s] = "gone" /\ loop = Idle
    /\ serve' = [serve EXCEPT ![s] = "done"]
    /\ UNCHANGED <<server, link, feed, subs, last, reached, late>>

\* receive_text raises WebSocketDisconnect.
Disconnect(s) ==
    /\ serve[s] = "serving" /\ link[s] = "gone" /\ loop = Idle
    /\ serve' = [serve EXCEPT ![s] = "done"]
    /\ subs' = [subs EXCEPT ![feed[s]] = @ \ {s}]
    /\ UNCHANGED <<server, link, feed, last, reached, late>>

\* receive_text raises something else, a frame that is not text for one: the server
\* closes the connection, and nobody takes the socket out of its channel.
ServeFails(s) ==
    /\ serve[s] = "serving" /\ loop = Idle
    /\ serve' = [serve EXCEPT ![s] = "failed"]
    /\ link' = [link EXCEPT ![s] = "gone"] /\ last' = [last EXCEPT ![s] = None]
    /\ UNCHANGED <<server, feed, subs, reached, late>>

SetLink(s, from, to) ==
    /\ link[s] \in from
    /\ link' = [link EXCEPT ![s] = to]
    /\ last' = IF to = "gone" THEN [last EXCEPT ![s] = None] ELSE last
    /\ UNCHANGED <<server, serve, feed, subs, reached, late>>

Stall(s)  == SetLink(s, {"open"}, "stalled")
Resume(s) == SetLink(s, {"stalled"}, "open")
Leave(s)  == SetLink(s, {"open", "stalled"}, "gone")

\* The server's keepalive ping goes unanswered and the connection is dropped.
PingTimeout(s) == SetLink(s, {"stalled"}, "gone")

-----------------------------------------------------------------------------
\* Past the window every age is the same.
Older(age) == IF age > DedupWindow THEN age ELSE age + 1

Tick ==
    /\ sinceAlert' = [t \in Rules |-> [c \in Cameras |-> Older(sinceAlert[t][c])]]
    /\ UNCHANGED <<loop, handler, abandoned, errors, mail, clients>>

\* The mail server accepts connections and stays silent from now on.
MailGoesSilent ==
    /\ mail = "answers" /\ mail' = "silent"
    /\ UNCHANGED <<sinceAlert, loop, handler, abandoned, errors, clients>>

Handle(f) ==
    Store(f) \/ CheckRule(f) \/ InsertAlert(f) \/ Dispatch(f)
    \/ FirstBroadcast(f) \/ Send(f) \/ NextBroadcast(f)

Next ==
    \/ \E f \in Frames : Post(f) \/ GiveUp(f) \/ Handle(f) \/ Fail(f)
    \/ \E s \in Sockets : Connect(s) \/ Register(s) \/ Disconnect(s) \/ ServeFails(s)
                          \/ Stall(s) \/ Resume(s) \/ Leave(s) \/ PingTimeout(s)
    \/ Tick \/ MailGoesSilent

\* The loop runs every ready task, a send that waited goes on when its client
\* reads again, and a client that does not answer pings is dropped.  Nothing is
\* assumed of the workers, of the clients or of the mail server.
Fairness ==
    /\ \A f \in Frames : SF_vars(Handle(f))
    /\ \A s \in Sockets : WF_vars(Register(s)) /\ WF_vars(Disconnect(s))
                          /\ WF_vars(PingTimeout(s))

Spec == Init /\ [][Next]_vars /\ Fairness

-----------------------------------------------------------------------------
(* Properties                                                              *)

Messages == {Message(k, f) : k \in Rules \cup {"detections", "analytics"}, f \in Frames}

Request == [pc : {"unsent", "posted", "check", "insert", "dispatch", "send",
                  "answered", "failed"},
            over : SUBSET Rules, snapshot : BOOLEAN, rule : Nat \ {0},
            made : Seq(Rules), at : Nat, to : Seq(Sockets), dead : SUBSET Sockets]

\* Every variable has its type, and the handler that evaluates rules has the event
\* loop to itself.
TypeOK ==
    /\ sinceAlert \in [Rules -> [Cameras -> 0..(DedupWindow + 1)]]
    /\ loop \in Frames \cup {Idle}
    /\ handler \in [Frames -> Request]
    /\ \A f \in Frames : handler[f].pc \in {"check", "insert", "dispatch"} => loop = f
    /\ abandoned \subseteq Frames /\ errors \in 0..MaxErrors
    /\ mail \in {"answers", "silent"}
    /\ link \in [Sockets -> {"none", "open", "stalled", "gone"}]
    /\ serve \in [Sockets -> {"none", "accepting", "serving", "done", "failed"}]
    /\ feed \in [Sockets -> Feeds]
    /\ subs \in [Feeds -> SUBSET Sockets]
    /\ last \in [Sockets -> Messages \cup {None}]
    /\ reached \in [Frames -> SUBSET Sockets] /\ late \in [Frames -> SUBSET Sockets]

\* The frame alerts implement the log raise_alert promises, although the
\* duplicate check and the insertion are two statements and time passes
\* between them (alert_service.py 81-91).
Log == INSTANCE AlertLog WITH Types <- Rules, age <- sinceAlert
AlertsDeduplicated == Log!Spec

\* When a broadcast ends it has reached every client of its channel that was
\* subscribed when it began and is still there, whatever became of the other
\* sockets of the copy (ws_manager.py 30-41).
SubscribersMissNothing ==
    \A f \in Frames, s \in Sockets :
        /\ handler[f].pc = "send" /\ handler[f].to = <<>>
        /\ serve[s] = "serving" /\ link[s] # "gone" /\ s \notin late[f]
        /\ feed[s] = Out(f)[handler[f].at].feed
        => s \in reached[f]

\* A client sees the frames of a camera in the order they were taken, except
\* that a frame whose worker had given up waiting may come after a newer one.
InOrderUnlessAbandoned ==
    [][\A s \in Sockets :
          LET old == last[s].frame new == last'[s].frame IN
          new[1] = old[1] /\ new[2] < old[2] => new \in abandoned]_vars

\* While the mail server answers, every frame that is posted is answered:
\* no subscriber, dead or not reading, holds up its handler for good.
FramesAnswered ==
    [](mail = "answers") =>
        \A f \in Frames : handler[f].pc = "posted" ~> Over(f)

\* A socket whose client is gone ends up in no channel and stays out, also
\* when the client went between the accept and the registration, unless _serve
\* ended with an exception it does not catch.
GoneSocketsForgotten ==
    [](mail = "answers") =>
        \A s \in Sockets :
            \/ <>(serve[s] = "failed")
            \/ link[s] = "gone" ~> [](\A ch \in Feeds : s \notin subs[ch])

\* A socket left behind in its channel by such an exception is discarded by the next
\* broadcast there: no frame of its camera is answered with the socket still
\* subscribed, however the other sockets of the copy behave (ws_manager.py 34-42).
BrokenSocketsDropped ==
    [](mail = "answers") =>
        \A s \in Sockets, f \in Frames :
            serve[s] = "failed" /\ handler[f].pc = "posted" /\ feed[s] = f[1]
                ~> s \notin subs[feed[s]] \/ handler[f].pc = "failed"

\* Nothing is left behind by a frame or a client while the mail server answers.
FramesAndSocketsEnd == FramesAnswered /\ GoneSocketsForgotten

\* What the comment in _safe says: a failing channel never breaks ingestion.
ChannelFailureNeverBreaksIngestion ==
    \A f \in Frames : handler[f].pc = "posted" ~> Over(f)
=============================================================================
