----------------------------- MODULE ReidIngest -----------------------------
(***************************************************************************)
(* What happens to a track once the engine has closed it: the camera's     *)
(* worker thread posts it to /ingest/track and its appearance embedding to *)
(* /ingest/reid (streaming/camera_worker.py), and the backend stores the   *)
(* track, matches the embedding against the identity gallery and links or  *)
(* creates an identity (backend/app/api/v1/ingest.py, crud/reid.py,        *)
(* services/reid_matcher.py).                                              *)
(*                                                                         *)
(* Both handlers are plain functions FastAPI runs in its thread pool, with *)
(* a session each at READ COMMITTED: they interleave at every statement.   *)
(* A worker thread waits for one answer at a time, but a request it gave   *)
(* up on may still be running.                                             *)
(***************************************************************************)
EXTENDS Integers, FiniteSets, Sequences

CONSTANTS
    Cameras,
    Closings,      \* Closings[c]: the tracks camera c closes, in order, each
                   \*   [track_id, look, last_seen]; look stands for the embedding
    Score(_, _),   \* cosine_similarity of two looks
    Threshold,     \* reid_match_threshold
    Ttl,           \* reid_gallery_ttl_hours
    MaxFaults      \* how many times a request may be lost or time out, or the
                   \* backend crash (bound)

None       == "none"  \* no embedding
NoIdentity == <<>>    \* identity_id is NULL
Track == UNION {{<<c, n>> : n \in 1..Len(Closings[c])} : c \in Cameras}
                   \* one closed track: the n-th of camera c.  It also names the
                   \* row and the identity that handling it may insert
Of(l)  == Closings[l[1]][l[2]]
Key(l) == <<l[1], Of(l).track_id>>

Looks == {Of(l).look : l \in Track}
Times == {Of(l).last_seen : l \in Track}

\* A cosine does not depend on the order, and an embedding is as similar to itself
\* as two can be, so above the threshold.
ASSUME ReidAssumption ==
    /\ \A c \in Cameras :
          Closings[c] \in Seq([track_id : Nat, look : STRING \ {None}, last_seen : Nat])
    /\ \A a, b \in Looks : Score(a, b) \in Int /\ Score(a, b) = Score(b, a)
    /\ \A a \in Looks : Score(a, a) >= Threshold
    /\ Threshold \in Int /\ Ttl \in Nat
    /\ MaxFaults \in Nat

VARIABLES
    rows,      \* table tracks: inserted row -> its columns
    idents,    \* table identities: inserted identity -> its columns
    worker,    \* worker[c]: the closing being shipped, and how far
    track,     \* track[l]: the /ingest/track handler of l
    reid,      \* reid[l]: the /ingest/reid handler of l
    faults,    \* history: how often something was lost, timed out or crashed
    links,     \* history: <<l, i>> for every track l counted into identity i
    contended, \* history: identities two handlers were updating at once
    blind      \* history: blind[l] are the tracks whose identity l could not see

tables  == <<rows, idents>>
history == <<links, contended, blind>>
vars == <<tables, worker, track, reid, faults, history>>

-----------------------------------------------------------------------------
(* The worker: CameraPipeline._ship and _ship_reid_embedding               *)

Idle == [pc |-> "idle"]
Busy(h) == h.pc \notin {"idle", "dead", "200", "404"}

At(c, stage) == worker[c].n <= Len(Closings[c]) /\ worker[c].stage = stage
Cur(c)       == <<c, worker[c].n>>
Goto(c, stage) == worker' = [worker EXCEPT ![c].stage = stage]
NextClosing(c) == worker' = [worker EXCEPT ![c] = [n |-> @.n + 1, stage |-> "track"]]

PostTrack(c) ==
    /\ At(c, "track")
    /\ track' = [track EXCEPT ![Cur(c)] = [pc |-> "select"]]
    /\ Goto(c, "trackSent")
    /\ UNCHANGED <<tables, reid, faults, history>>

TrackAnswered(c) ==
    /\ At(c, "trackSent") /\ track[Cur(c)].pc = "200"
    /\ Goto(c, "reid")
    /\ UNCHANGED <<tables, track, reid, faults, history>>

\* httpx.HTTPError: never delivered, or no answer in time.  Logged, not retried.
TrackPostFails(c) ==
    /\ faults < MaxFaults /\ (At(c, "track") \/ At(c, "trackSent"))
    /\ faults' = faults + 1
    /\ Goto(c, "reid")
    /\ UNCHANGED <<tables, track, reid, history>>

\* No crop cleared the confidence floor, or no embedding came of it.
NothingToMatch(c) ==
    /\ At(c, "reid")
    /\ NextClosing(c)
    /\ UNCHANGED <<tables, track, reid, faults, history>>

PostReid(c) ==
    /\ \/ At(c, "reid")  /\ Goto(c, "reidSent")
       \/ At(c, "retry") /\ Goto(c, "retrySent")
    /\ reid' = [reid EXCEPT ![Cur(c)] = [pc |-> "store"]]
    /\ UNCHANGED <<tables, track, faults, history>>

\* Mutant: a 404 ends the shipment too.
ReidAnsweredOnce(c) ==
    /\ At(c, "reidSent") /\ reid[Cur(c)].pc \in {"200", "404"} /\ NextClosing(c)
    /\ UNCHANGED <<tables, track, reid, faults, history>>
\* A 404 is retried once; every other answer ends the shipment.
ReidAnswered(c) ==
    /\ \/ At(c, "reidSent") /\ reid[Cur(c)].pc = "404" /\ Goto(c, "retry")
       \/ At(c, "reidSent") /\ reid[Cur(c)].pc = "200" /\ NextClosing(c)
       \/ At(c, "retrySent") /\ reid[Cur(c)].pc \in {"200", "404"} /\ NextClosing(c)
    /\ UNCHANGED <<tables, track, reid, faults, history>>

ReidPostFails(c) ==
    /\ faults < MaxFaults /\ \E s \in {"reid", "reidSent", "retry", "retrySent"} : At(c, s)
    /\ faults' = faults + 1
    /\ NextClosing(c)
    /\ UNCHANGED <<tables, track, reid, history>>

-----------------------------------------------------------------------------
(* POST /ingest/track: an upsert in two statements                         *)

\* Mutant: the WHERE clause forgets the camera.
RowsOfAnyCamera(l) == {r \in DOMAIN rows : rows[r].key[2] = Key(l)[2]}
RowsOf(l) == {r \in DOMAIN rows : rows[r].key = Key(l)}

TrackSelect(l) ==
    /\ track[l].pc = "select"
    /\ \/ RowsOf(l) = {} /\ track' = [track EXCEPT ![l] = [pc |-> "commit", row |-> l]]
       \/ \E r \in RowsOf(l) : track' = [track EXCEPT ![l] = [pc |-> "commit", row |-> r]]
    /\ UNCHANGED <<tables, worker, reid, faults, history>>

\* An existing row keeps its embedding and identity_id.
TrackCommit(l) ==
    /\ track[l].pc = "commit"
    /\ LET r == track[l].row
           insert == [key |-> Key(l), holds |-> l, embedding |-> None, identity |-> NoIdentity]
       IN  rows' = [q \in DOMAIN rows \cup {r} |->
                       IF q # r THEN rows[q]
                       ELSE IF r \in DOMAIN rows THEN [rows[r] EXCEPT !.holds = l]
                       ELSE insert]
    /\ track' = [track EXCEPT ![l] = [pc |-> "200"]]
    /\ UNCHANGED <<idents, worker, reid, faults, history>>

-----------------------------------------------------------------------------
(* POST /ingest/reid                                                       *)

Become(l, h) == reid' = [reid EXCEPT ![l] = h]
LastSeen(r)  == Of(rows[r].holds).last_seen

WithEmbedding(r, l) == [rows EXCEPT ![r].embedding = Of(l).look]

\* store_track_embedding: select, update, commit and refresh of one row.
ReidStore(l) ==
    /\ reid[l].pc = "store"
    /\ \/ RowsOf(l) = {} /\ Become(l, [pc |-> "404"]) /\ UNCHANGED rows
       \/ \E r \in RowsOf(l) :
            /\ rows' = WithEmbedding(r, l)
            /\ Become(l, [pc |-> "match", row |-> r, last_seen |-> LastSeen(r),
                          identity |-> rows[r].identity])
    /\ UNCHANGED <<idents, worker, track, faults, history>>

\* active_gallery and the loop of match_or_create_identity: the identities of the
\* best score at or above the threshold (rows come in no order, so any of them).
\* Mutant: the cutoff is the track's own time.
GalleryWithoutTtl(h) == {i \in DOMAIN idents : idents[i].last_seen >= h.last_seen}
Gallery(h) == {i \in DOMAIN idents : idents[i].last_seen > h.last_seen - Ttl}
Scored(l, i) == Score(Of(l).look, idents[i].embedding)
\* Mutant: best_score starts at zero.
BestOfAll(l, h) ==
    {i \in Gallery(h) : \A j \in Gallery(h) : Scored(l, i) >= Scored(l, j)}
Best(l, h) ==
    {i \in Gallery(h) : /\ Scored(l, i) >= Threshold
                        /\ \A j \in Gallery(h) : Scored(l, i) >= Scored(l, j)}

Others(l, pc) == {k \in Track \ {l} : reid[k].pc = pc}

ReidMatch(l) ==
    LET h == reid[l]
    IN
    /\ h.pc = "match"
    /\ \/ /\ Best(l, h) = {}
          /\ Become(l, [h EXCEPT !.pc = "create"])
          /\ blind' = [blind EXCEPT ![l] = Others(l, "create")]
          /\ UNCHANGED contended
       \/ \E i \in Best(l, h) :
            /\ Become(l, [pc |-> "link", row |-> h.row, last_seen |-> h.last_seen,
                          identity |-> h.identity, best |-> i, read |-> idents[i]])
            /\ contended' = contended \cup {j \in {i} : \E k \in Others(l, "link") : reid[k].best = i}
            /\ UNCHANGED blind
    /\ UNCHANGED <<tables, worker, track, faults, links>>

\* Mutant: a match that is not later is not counted.
LinkedIfLater(h) ==
    IF h.last_seen > h.read.last_seen
    THEN [idents[h.best] EXCEPT !.last_seen = h.last_seen,
                                !.track_count = h.read.track_count + 1]
    ELSE idents[h.best]
\* The identity's columns after link_track_to_identity's commit: computed from those
\* ReidMatch read, and the session writes only the columns whose value it changed.
Linked(h) ==
    [idents[h.best] EXCEPT !.last_seen = IF h.last_seen > h.read.last_seen THEN h.last_seen ELSE @,
                           !.track_count = h.read.track_count + 1]

\* link_track_to_identity: one commit for the track and the identity.
ReidLink(l) ==
    LET h == reid[l]
    IN
    /\ h.pc = "link"
    /\ rows' = IF h.identity = h.best THEN rows
               ELSE [rows EXCEPT ![h.row].identity = h.best]
    /\ idents' = [idents EXCEPT ![h.best] = Linked(h)]
    /\ Become(l, [pc |-> "200"])
    /\ links' = links \cup {<<l, h.best>>}
    /\ UNCHANGED <<worker, track, faults, contended, blind>>

\* Mutant: the seed track is left for link_track_to_identity to count.
UncountedIdentity(l, h) == [embedding |-> Of(l).look, first_seen |-> h.last_seen,
                            last_seen |-> h.last_seen, track_count |-> 0]
NewIdentity(l, h) == [embedding |-> Of(l).look, first_seen |-> h.last_seen,
                      last_seen |-> h.last_seen, track_count |-> 1]

\* create_identity_from_track: create_identity commits the identity...
ReidCreate(l) ==
    LET h == reid[l]
    IN
    /\ h.pc = "create"
    /\ idents' = [i \in DOMAIN idents \cup {l} |->
                     IF i # l THEN idents[i] ELSE NewIdentity(l, h)]
    /\ Become(l, [h EXCEPT !.pc = "attach"])
    /\ links' = links \cup {<<l, l>>}
    /\ UNCHANGED <<rows, worker, track, faults, contended, blind>>

\* Mutant: the second commit is forgotten.
AttachForgotten(l) ==
    /\ reid[l].pc = "attach"
    /\ Become(l, [pc |-> "200"])
    /\ UNCHANGED <<tables, worker, track, faults, history>>
\* ... and a second commit points the track at it.
ReidAttach(l) ==
    /\ reid[l].pc = "attach"
    /\ rows' = [rows EXCEPT ![reid[l].row].identity = l]
    /\ Become(l, [pc |-> "200"])
    /\ UNCHANGED <<idents, worker, track, faults, history>>

\* GET /reid/identities/{id}/journey: the rows linked to it, in the order of first_seen.
get_identity_journey(i) == {r \in DOMAIN rows : rows[r].identity = i}

\* The backend process dies: every handler it was running is gone.
BackendCrash ==
    LET kill(h) == IF Busy(h) THEN [pc |-> "dead"] ELSE h
    IN
    /\ faults < MaxFaults /\ \E l \in Track : Busy(track[l]) \/ Busy(reid[l])
    /\ faults' = faults + 1
    /\ track' = [l \in Track |-> kill(track[l])]
    /\ reid' = [l \in Track |-> kill(reid[l])]
    /\ UNCHANGED <<tables, worker, history>>

-----------------------------------------------------------------------------
Init ==
    /\ rows = <<>> /\ idents = <<>>
    /\ worker = [c \in Cameras |-> [n |-> 1, stage |-> "track"]]
    /\ track = [l \in Track |-> Idle] /\ reid = [l \in Track |-> Idle]
    /\ faults = 0
    /\ links = {} /\ contended = {} /\ blind = [l \in Track |-> {}]

Worker(c) == PostTrack(c) \/ TrackAnswered(c) \/ NothingToMatch(c) \/ PostReid(c) \/ ReidAnswered(c)
Failure(c) == TrackPostFails(c) \/ ReidPostFails(c)
Handlers(l) == \/ TrackSelect(l) \/ TrackCommit(l)
               \/ ReidStore(l) \/ ReidMatch(l) \/ ReidLink(l) \/ ReidCreate(l) \/ ReidAttach(l)

Next == \/ \E c \in Cameras : Worker(c) \/ Failure(c)
        \/ \E l \in Track : Handlers(l)
        \/ BackendCrash

Spec == Init /\ [][Next]_vars

\* A running handler and a worker thread with something to do are scheduled.
Fairness == /\ \A c \in Cameras : WF_vars(Worker(c))
            /\ \A l \in Track : WF_vars(Handlers(l))
FairSpec == Spec /\ Fairness

-----------------------------------------------------------------------------
(* Properties                                                              *)

RowType      == [key : {Key(l) : l \in Track}, holds : Track,
                 embedding : Looks \cup {None}, identity : Track \cup {NoIdentity}]
IdentityType == [embedding : Looks, first_seen : Times, last_seen : Times, track_count : Nat \ {0}]
Stages       == {"track", "trackSent", "reid", "reidSent", "retry", "retrySent"}

\* The tables hold the columns the models declare, keyed by who inserted them.
TypeOK ==
    /\ DOMAIN rows \subseteq Track /\ rows \in [DOMAIN rows -> RowType]
    /\ DOMAIN idents \subseteq Track /\ idents \in [DOMAIN idents -> IdentityType]
    /\ worker \in [Cameras -> [n : Nat \ {0}, stage : Stages]]

\* At any instant, whatever handlers are running or died: a track with an identity
\* has an embedding (docs/REID.md:250) and the identity exists.
LinkedTracksAreWhole ==
    \A r \in DOMAIN rows : rows[r].identity # NoIdentity =>
        rows[r].embedding # None /\ rows[r].identity \in DOMAIN idents

\* A journey shows only tracks that were themselves matched to the identity
\* (docs/REID.md:295, "everywhere this appearance was seen").
JourneyShowsOwnTracks ==
    \A i \in Track : \A r \in get_identity_journey(i) : <<rows[r].holds, i>> \in links

\* A track is counted only into an identity it looks like, however long after its
\* own match or another handler's commit the link is written.
LinksAreMatches ==
    \A p \in links : Score(Of(p[1]).look, idents[p[2]].embedding) >= Threshold

\* Both, at any instant of any interleaving of the handlers.
LinksAreSound == LinkedTracksAreWhole /\ LinksAreMatches

\* "how many tracks have linked to this identity" (docs/REID.md:242).
TrackCountIsLinks ==
    \A i \in DOMAIN idents : idents[i].track_count = Cardinality({p \in links : p[2] = i})

\* track_count never exceeds the tracks linked, and is exact unless two handlers
\* were linking to the identity at the same time.
TrackCountExactUnlessContended ==
    \A i \in DOMAIN idents :
        LET linked == Cardinality({p \in links : p[2] = i})
        IN  /\ idents[i].track_count <= linked
            /\ i \notin contended => idents[i].track_count = linked

\* An identity's last_seen, which keeps it in the gallery, goes back only when two
\* handlers were linking to it at the same time.
LastSeenAdvances ==
    [][\A i \in DOMAIN idents : i \notin contended =>
          idents'[i].last_seen >= idents[i].last_seen]_vars

\* Two identities for one appearance within the TTL come only from two handlers
\* that each missed the identity the other was about to insert.
DuplicatesOnlyFromOverlap ==
    \A i, j \in DOMAIN idents :
        (/\ i # j /\ Score(idents[i].embedding, idents[j].embedding) >= Threshold
         /\ idents[j].first_seen - idents[i].first_seen \in -Ttl+1 .. Ttl-1)
        => i \in blind[j] \/ j \in blind[i]

\* A camera's track, once its handler has committed, keeps a row of its own.
OneRowPerTrack ==
    \A l \in Track : track[l].pc = "200" =>
        Cardinality({r \in DOMAIN rows : rows[r].holds = l}) = 1

\* The two tables say what the handlers did, each track and each identity for
\* itself, whatever is lost, late or killed; only the count and the clock of an
\* identity two handlers link to at once may suffer.
TablesExactUnlessContended ==
    /\ [](OneRowPerTrack /\ JourneyShowsOwnTracks /\ TrackCountExactUnlessContended)
    /\ LastSeenAdvances

\* "the worker keeps processing and retries ingest" (docs/DEPLOYMENT.md:26): a track
\* the worker is done with is stored, or still being stored.
NothingDropped ==
    \A l \in Track : l[2] < worker[l[1]].n =>
        Busy(track[l]) \/ \E r \in DOMAIN rows : rows[r].holds = l

\* An attempt to attach l's embedding is running or still owed: the handler has not
\* read the row yet, or the first one answered 404.
Owed(l) ==
    LET stage == IF worker[l[1]].n = l[2] THEN worker[l[1]].stage ELSE None
    IN  reid[l].pc = "store" \/ stage = "retry" \/ (stage = "reidSent" /\ reid[l].pc = "404")

Stored(l) == \E r \in DOMAIN rows : rows[r].holds = l

\* A track that is in the tables while its embedding is owed gets an identity, even
\* when /ingest/track was given up on and its commit came after the first 404
\* (docs/REID.md:277-281): only a fault from then on can still lose the embedding.
EmbeddingGetsLinked ==
    \A l \in Track : \A n \in 0..MaxFaults :
        (faults = n /\ Owed(l) /\ Stored(l)) ~>
            faults > n \/ \E r \in DOMAIN rows : rows[r].holds = l /\ rows[r].identity # NoIdentity
=============================================================================
