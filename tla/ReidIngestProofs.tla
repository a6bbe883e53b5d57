-------------------------- MODULE ReidIngestProofs --------------------------
(***************************************************************************)
(* What the two ingest handlers guarantee of the tables at every instant,  *)
(* for any cameras, tracks and similarity, however their statements        *)
(* interleave and whichever requests are lost or handlers die.             *)
(*                                                                         *)
(* A handler acts on what it read some commits ago.  The argument is that  *)
(* what it relies on cannot be taken back: rows and identities are never   *)
(* deleted, and an embedding once set is never cleared (HandlersInv).      *)
(* The counts and the times of an identity rest on two more facts: a       *)
(* track's embedding is posted, stored and matched once (OnceInv), so an   *)
(* identity gets each of its tracks once (CountInv); and a row holds what  *)
(* its closing said (RowsInv).  A match that was refused leaves a reason   *)
(* behind, which no later step takes away (DuplicatesInv).                 *)
(***************************************************************************)
EXTENDS ReidIngest, TLAPS, FiniteSetTheorems, WellFoundedInduction

TrackHandler == [pc : {"idle", "dead", "select", "200"}] \cup [pc : {"commit"}, row : Track]

ReidHandler ==
    [pc : {"idle", "dead", "store", "200", "404"}]
    \cup [pc : {"match", "create", "attach"}, row : Track, last_seen : Times,
          identity : Track \cup {NoIdentity}]
    \cup [pc : {"link"}, row : Track, last_seen : Times, identity : Track \cup {NoIdentity},
          best : Track, read : IdentityType]

HandlerTypes ==
    /\ TypeOK
    /\ track \in [Track -> TrackHandler]
    /\ reid \in [Track -> ReidHandler]

\* What a running /ingest/reid handler relies on from its earlier statements.
Relies(l) ==
    /\ reid[l].pc \in {"match", "create", "attach", "link"} =>
          reid[l].row \in DOMAIN rows /\ rows[reid[l].row].embedding # None
    /\ reid[l].pc = "link" =>
          /\ reid[l].best \in DOMAIN idents
          /\ Score(Of(l).look, Of(reid[l].best).look) >= Threshold
    /\ reid[l].pc = "attach" => l \in DOMAIN idents

HandlersInv == \A l \in Track : Relies(l)

\* An identity keeps the embedding of the track that seeded it, and the tracks
\* counted into it looked like that one.
SeedsInv ==
    /\ \A i \in DOMAIN idents : idents[i].embedding = Of(i).look
    /\ \A p \in links : /\ p[1] \in Track /\ p[2] \in DOMAIN idents
                        /\ Score(Of(p[1]).look, Of(p[2]).look) >= Threshold

IInv == HandlerTypes /\ HandlersInv /\ SeedsInv /\ LinkedTracksAreWhole

-----------------------------------------------------------------------------
(* The tracks                                                              *)

LEMMA TrackFields ==
    ASSUME NEW l \in Track
    PROVE  /\ Of(l).look \in Looks /\ Of(l).look # None
           /\ Of(l).last_seen \in Times
           /\ Score(Of(l).look, Of(l).look) >= Threshold
<1>1. PICK c \in Cameras : l \in {<<c, n>> : n \in 1..Len(Closings[c])}
  BY DEF Track
<1>2. PICK n \in 1..Len(Closings[c]) : l = <<c, n>>
  BY <1>1
<1>3. Closings[c] \in Seq([track_id : Nat, look : STRING \ {None}, last_seen : Nat])
  BY ReidAssumption
<1>4. Closings[c][n] \in [track_id : Nat, look : STRING \ {None}, last_seen : Nat]
  <2>1. \A S : \A s \in Seq(S) : \A i \in 1..Len(s) : s[i] \in S
    OBVIOUS
  <2>. QED  BY <1>3, <2>1
<1>5. Of(l).look # None
  BY <1>2, <1>4 DEF Of
<1>. QED  BY <1>5, ReidAssumption DEF Looks, Times

-----------------------------------------------------------------------------
(* Types                                                                   *)

LEMMA TypesInit == Init => HandlerTypes
BY DEF Init, HandlerTypes, TypeOK, TrackHandler, ReidHandler, Idle, Stages

LEMMA WorkerTypes ==
    ASSUME HandlerTypes, NEW c \in Cameras, Worker(c) \/ Failure(c)
    PROVE  HandlerTypes'
<1>. USE DEF HandlerTypes
<1>1. UNCHANGED tables
  BY DEF Worker, Failure, PostTrack, TrackAnswered, NothingToMatch, PostReid, ReidAnswered,
         TrackPostFails, ReidPostFails
<1>2. worker' \in [Cameras -> [n : Nat \ {0}, stage : Stages]]
  <2>1. \A s \in Stages : Goto(c, s) => worker' \in [Cameras -> [n : Nat \ {0}, stage : Stages]]
    BY DEF Goto, TypeOK
  <2>2. NextClosing(c) => worker' \in [Cameras -> [n : Nat \ {0}, stage : Stages]]
    <3>1. worker[c].n + 1 \in Nat \ {0}
      BY DEF TypeOK
    <3>2. "track" \in Stages
      BY DEF Stages
    <3>. QED  BY <3>1, <3>2 DEF NextClosing, TypeOK
  <2>3. Goto(c, "trackSent") \/ Goto(c, "reid") \/ Goto(c, "reidSent") \/ Goto(c, "retry")
        \/ Goto(c, "retrySent") \/ NextClosing(c)
    BY DEF Worker, Failure, PostTrack, TrackAnswered, NothingToMatch, PostReid, ReidAnswered,
           TrackPostFails, ReidPostFails
  <2>. QED  BY <2>1, <2>2, <2>3 DEF Stages
<1>3. TypeOK'
  BY <1>1, <1>2 DEF TypeOK, tables
<1>4. track' \in [Track -> TrackHandler]
  BY DEF Worker, Failure, PostTrack, TrackAnswered, NothingToMatch, PostReid, ReidAnswered,
         TrackPostFails, ReidPostFails, TrackHandler
<1>5. reid' \in [Track -> ReidHandler]
  BY DEF Worker, Failure, PostTrack, TrackAnswered, NothingToMatch, PostReid, ReidAnswered,
         TrackPostFails, ReidPostFails, ReidHandler
<1>. QED  BY <1>3, <1>4, <1>5

LEMMA IngestTypes ==
    ASSUME HandlerTypes, HandlersInv, NEW l \in Track, Handlers(l)
    PROVE  HandlerTypes'
<1>. USE DEF HandlerTypes
<1>1. CASE TrackSelect(l)
  <2>1. track' \in [Track -> TrackHandler]
    BY <1>1 DEF TrackSelect, TrackHandler, RowsOf, TypeOK
  <2>. QED  BY <1>1, <2>1 DEF TrackSelect, TypeOK, tables
<1>2. CASE TrackCommit(l)
  <2>. DEFINE r == track[l].row
              insert == [key |-> Key(l), holds |-> l, embedding |-> None, identity |-> NoIdentity]
  <2>1. r \in Track
    BY <1>2 DEF TrackCommit, TrackHandler
  <2>2. insert \in RowType
    BY DEF RowType
  <2>3. r \in DOMAIN rows => [rows[r] EXCEPT !.holds = l] \in RowType
    BY DEF RowType, TypeOK
  <2>. HIDE DEF r, insert
  <2>4. rows' = [q \in DOMAIN rows \cup {r} |->
                    IF q # r THEN rows[q]
                    ELSE IF r \in DOMAIN rows THEN [rows[r] EXCEPT !.holds = l] ELSE insert]
    BY <1>2 DEF TrackCommit, r, insert
  <2>5. DOMAIN rows' \subseteq Track /\ rows' \in [DOMAIN rows' -> RowType]
    BY <2>1, <2>2, <2>3, <2>4 DEF TypeOK
  <2>6. track' \in [Track -> TrackHandler]
    BY <1>2 DEF TrackCommit, TrackHandler
  <2>. QED  BY <1>2, <2>5, <2>6 DEF TrackCommit, TypeOK
<1>3. CASE ReidStore(l)
  <2>1. CASE RowsOf(l) = {} /\ Become(l, [pc |-> "404"]) /\ UNCHANGED rows
    BY <1>3, <2>1 DEF ReidStore, Become, ReidHandler, TypeOK
  <2>2. ASSUME NEW r \in RowsOf(l), rows' = WithEmbedding(r, l),
               Become(l, [pc |-> "match", row |-> r, last_seen |-> LastSeen(r),
                          identity |-> rows[r].identity])
        PROVE  HandlerTypes'
    <3>1. r \in DOMAIN rows /\ rows[r] \in RowType
      BY DEF RowsOf, TypeOK
    <3>2. LastSeen(r) \in Times
      BY <3>1, TrackFields DEF LastSeen, RowType
    <3>3. [rows[r] EXCEPT !.embedding = Of(l).look] \in RowType
      BY <3>1, TrackFields DEF RowType
    <3>4. rows' = [rows EXCEPT ![r] = [rows[r] EXCEPT !.embedding = Of(l).look]]
      BY <2>2 DEF WithEmbedding
    <3>5. DOMAIN rows' \subseteq Track /\ rows' \in [DOMAIN rows' -> RowType]
      BY <3>1, <3>3, <3>4 DEF TypeOK
    <3>6. [pc |-> "match", row |-> r, last_seen |-> LastSeen(r), identity |-> rows[r].identity]
              \in ReidHandler
      BY <3>1, <3>2 DEF ReidHandler, RowType, TypeOK
    <3>. QED  BY <1>3, <2>2, <3>5, <3>6 DEF ReidStore, Become, TypeOK
  <2>. QED  BY <1>3, <2>1, <2>2 DEF ReidStore
<1>4. CASE ReidMatch(l)
  <2>1. reid[l] \in [pc : {"match", "create", "attach"}, row : Track, last_seen : Times,
                     identity : Track \cup {NoIdentity}]
    BY <1>4 DEF ReidMatch, ReidHandler
  <2>2. [reid[l] EXCEPT !.pc = "create"] \in ReidHandler
    BY <2>1 DEF ReidHandler
  <2>3. \A i \in Best(l, reid[l]) :
            [pc |-> "link", row |-> reid[l].row, last_seen |-> reid[l].last_seen,
             identity |-> reid[l].identity, best |-> i, read |-> idents[i]] \in ReidHandler
    BY <2>1 DEF ReidHandler, Best, Gallery, TypeOK
  <2>4. reid' \in [Track -> ReidHandler]
    BY <1>4, <2>2, <2>3 DEF ReidMatch, Become
  <2>. QED  BY <1>4, <2>4 DEF ReidMatch, TypeOK, tables
<1>5. CASE ReidLink(l)
  <2>. DEFINE h == reid[l]
  <2>1. /\ h.pc = "link" /\ h.best \in Track /\ h.read \in IdentityType /\ h.last_seen \in Times
        /\ h.row \in DOMAIN rows /\ h.best \in DOMAIN idents
    BY <1>5 DEF ReidLink, ReidHandler, HandlersInv, Relies
  <2>2. [rows[h.row] EXCEPT !.identity = h.best] \in RowType
    <3>1. rows[h.row] \in RowType /\ h.best \in Track
      BY <2>1 DEF TypeOK
    <3>. HIDE DEF h
    <3>. QED  BY <3>1 DEF RowType
  <2>3. Linked(h) \in IdentityType
    <3>1. idents[h.best] \in IdentityType
      BY <2>1 DEF TypeOK
    <3>2. h.read.track_count + 1 \in Nat \ {0}
      BY <2>1 DEF IdentityType
    <3>. DEFINE seen == IF h.last_seen > h.read.last_seen THEN h.last_seen ELSE idents[h.best].last_seen
    <3>3. seen \in Times
      BY <2>1, <3>1 DEF IdentityType
    <3>. HIDE DEF seen
    <3>4. [idents[h.best] EXCEPT !.last_seen = seen, !.track_count = h.read.track_count + 1]
              \in IdentityType
      BY <3>1, <3>2, <3>3 DEF IdentityType
    <3>. QED  BY <3>4 DEF Linked, seen
  <2>4. /\ rows' = rows \/ rows' = [rows EXCEPT ![h.row] = [rows[h.row] EXCEPT !.identity = h.best]]
        /\ idents' = [idents EXCEPT ![h.best] = Linked(h)]
    BY <1>5 DEF ReidLink
  <2>. HIDE DEF h
  <2>5. DOMAIN rows' \subseteq Track /\ rows' \in [DOMAIN rows' -> RowType]
    BY <2>1, <2>2, <2>4 DEF TypeOK
  <2>6. DOMAIN idents' \subseteq Track /\ idents' \in [DOMAIN idents' -> IdentityType]
    BY <2>1, <2>3, <2>4 DEF TypeOK
  <2>7. reid' \in [Track -> ReidHandler]
    BY <1>5 DEF ReidLink, Become, ReidHandler
  <2>. QED  BY <1>5, <2>5, <2>6, <2>7 DEF ReidLink, TypeOK
<1>6. CASE ReidCreate(l)
  <2>1. reid[l] \in [pc : {"match", "create", "attach"}, row : Track, last_seen : Times,
                     identity : Track \cup {NoIdentity}]
    BY <1>6 DEF ReidCreate, ReidHandler
  <2>2. NewIdentity(l, reid[l]) \in IdentityType
    BY <2>1, TrackFields DEF NewIdentity, IdentityType
  <2>3. DOMAIN idents' \subseteq Track /\ idents' \in [DOMAIN idents' -> IdentityType]
    BY <1>6, <2>2 DEF ReidCreate, TypeOK
  <2>4. [reid[l] EXCEPT !.pc = "attach"] \in ReidHandler
    BY <2>1 DEF ReidHandler
  <2>. QED  BY <1>6, <2>3, <2>4 DEF ReidCreate, Become, TypeOK
<1>7. CASE ReidAttach(l)
  <2>1. reid[l].row \in DOMAIN rows
    BY <1>7 DEF ReidAttach, HandlersInv, Relies
  <2>2. [rows[reid[l].row] EXCEPT !.identity = l] \in RowType
    <3>1. rows[reid[l].row] \in RowType
      BY <2>1 DEF TypeOK
    <3>. QED  BY <3>1 DEF RowType
  <2>3. DOMAIN rows' \subseteq Track /\ rows' \in [DOMAIN rows' -> RowType]
    BY <1>7, <2>1, <2>2 DEF ReidAttach, TypeOK
  <2>4. reid' \in [Track -> ReidHandler]
    BY <1>7 DEF ReidAttach, Become, ReidHandler
  <2>. QED  BY <1>7, <2>3, <2>4 DEF ReidAttach, TypeOK
<1>. QED  BY <1>1, <1>2, <1>3, <1>4, <1>5, <1>6, <1>7 DEF Handlers

LEMMA TypesStep == HandlerTypes /\ HandlersInv /\ [Next]_vars => HandlerTypes'
<1>. SUFFICES ASSUME HandlerTypes, HandlersInv, [Next]_vars PROVE HandlerTypes'
  OBVIOUS
<1>1. CASE BackendCrash
  <2>1. track' \in [Track -> TrackHandler]
    BY <1>1 DEF BackendCrash, HandlerTypes, TrackHandler
  <2>2. reid' \in [Track -> ReidHandler]
    BY <1>1 DEF BackendCrash, HandlerTypes, ReidHandler
  <2>. QED  BY <1>1, <2>1, <2>2 DEF BackendCrash, HandlerTypes, TypeOK, tables
<1>2. CASE UNCHANGED vars
  BY <1>2 DEF vars, tables, HandlerTypes, TypeOK
<1>. QED  BY <1>1, <1>2, WorkerTypes, IngestTypes DEF Next

-----------------------------------------------------------------------------
(* What handlers rely on is never taken back                               *)

Grows ==
    /\ \A r \in DOMAIN rows : /\ r \in DOMAIN rows'
                              /\ rows[r].embedding # None => rows'[r].embedding # None
    /\ \A i \in DOMAIN idents : i \in DOMAIN idents' /\ idents'[i].embedding = idents[i].embedding

LEMMA TablesGrow == IInv /\ [Next]_vars => Grows
<1>. SUFFICES ASSUME IInv, [Next]_vars PROVE Grows
  OBVIOUS
<1>. USE DEF IInv, HandlerTypes
<1>1. CASE UNCHANGED tables
  BY <1>1 DEF Grows, tables
<1>2. ASSUME NEW l \in Track, TrackCommit(l) PROVE Grows
  <2>. DEFINE r == track[l].row
  <2>1. /\ DOMAIN rows' = DOMAIN rows \cup {r}
        /\ \A q \in DOMAIN rows : rows'[q] = IF q # r THEN rows[q] ELSE [rows[r] EXCEPT !.holds = l]
        /\ UNCHANGED idents
    BY <1>2 DEF TrackCommit
  <2>2. \A q \in DOMAIN rows : rows'[q].embedding = rows[q].embedding
    <3>1. \A q \in DOMAIN rows : [rows[q] EXCEPT !.holds = l].embedding = rows[q].embedding
      BY DEF TypeOK, RowType
    <3>. HIDE DEF r
    <3>. QED  BY <2>1, <3>1
  <2>. QED  BY <2>1, <2>2 DEF Grows
<1>3. ASSUME NEW l \in Track, ReidStore(l) PROVE Grows
  <2>1. UNCHANGED idents
    BY <1>3 DEF ReidStore
  <2>2. CASE UNCHANGED rows
    BY <2>1, <2>2 DEF Grows
  <2>3. ASSUME NEW r \in RowsOf(l), rows' = WithEmbedding(r, l) PROVE Grows
    <3>1. \A q \in DOMAIN rows :
              rows'[q] = IF q = r THEN [rows[q] EXCEPT !.embedding = Of(l).look] ELSE rows[q]
      BY <2>3 DEF WithEmbedding
    <3>2. DOMAIN rows' = DOMAIN rows
      BY <2>3 DEF WithEmbedding
    <3>3. \A q \in DOMAIN rows : rows[q].embedding # None => rows'[q].embedding # None
      BY <3>1, TrackFields DEF TypeOK, RowType
    <3>. QED  BY <2>1, <3>2, <3>3 DEF Grows
  <2>. QED  BY <1>3, <2>2, <2>3 DEF ReidStore
<1>4. ASSUME NEW l \in Track, ReidLink(l) PROVE Grows
  <2>. DEFINE h == reid[l]
  <2>1. h.row \in DOMAIN rows /\ h.best \in DOMAIN idents
    BY <1>4 DEF ReidLink, HandlersInv, Relies
  <2>2. /\ rows' = rows \/ rows' = [rows EXCEPT ![h.row] = [rows[h.row] EXCEPT !.identity = h.best]]
        /\ idents' = [idents EXCEPT ![h.best] = Linked(h)]
    BY <1>4 DEF ReidLink
  <2>3. Linked(h).embedding = idents[h.best].embedding
    <3>1. idents[h.best] \in IdentityType
      BY <2>1 DEF TypeOK
    <3>. DEFINE was  == idents[h.best]
                seen == IF h.last_seen > h.read.last_seen THEN h.last_seen ELSE was.last_seen
                n    == h.read.track_count + 1
    <3>. HIDE DEF seen, n
    <3>2. [was EXCEPT !.last_seen = seen, !.track_count = n].embedding = was.embedding
      BY <3>1 DEF IdentityType
    <3>. QED  BY <3>2 DEF Linked, seen, n
  <2>4. [rows[h.row] EXCEPT !.identity = h.best].embedding = rows[h.row].embedding
    BY <2>1 DEF TypeOK, RowType
  <2>. HIDE DEF h
  <2>. QED  BY <2>1, <2>2, <2>3, <2>4 DEF Grows
<1>5. ASSUME NEW l \in Track, ReidCreate(l) PROVE Grows
  <2>1. NewIdentity(l, reid[l]).embedding = Of(l).look
    BY DEF NewIdentity
  <2>. QED  BY <1>5, <2>1 DEF ReidCreate, Grows, SeedsInv
<1>6. ASSUME NEW l \in Track, ReidAttach(l) PROVE Grows
  <2>1. reid[l].row \in DOMAIN rows
    BY <1>6 DEF ReidAttach, HandlersInv, Relies
  <2>2. /\ rows' = [rows EXCEPT ![reid[l].row] = [rows[reid[l].row] EXCEPT !.identity = l]]
        /\ UNCHANGED idents
    BY <1>6 DEF ReidAttach
  <2>3. [rows[reid[l].row] EXCEPT !.identity = l].embedding = rows[reid[l].row].embedding
    BY <2>1 DEF TypeOK, RowType
  <2>. QED  BY <2>1, <2>2, <2>3 DEF Grows
<1>7. UNCHANGED tables \/ \E l \in Track :
          TrackCommit(l) \/ ReidStore(l) \/ ReidLink(l) \/ ReidCreate(l) \/ ReidAttach(l)
  BY DEF Next, Worker, Failure, Handlers, PostTrack, TrackAnswered, NothingToMatch, PostReid,
         ReidAnswered, TrackPostFails, ReidPostFails, BackendCrash, TrackSelect, ReidMatch, vars
<1>. QED  BY <1>1, <1>2, <1>3, <1>4, <1>5, <1>6, <1>7

-----------------------------------------------------------------------------
(* The inductive invariant                                                 *)

LEMMA Relied ==
    ASSUME IInv, Grows, NEW k \in Track, reid'[k] = reid[k] \/ reid'[k].pc \in {"dead", "store"}
    PROVE  Relies(k)'
BY DEF IInv, HandlerTypes, HandlersInv, Relies, Grows

LEMMA HandlersStep == IInv /\ [Next]_vars => HandlersInv'
<1>. SUFFICES ASSUME IInv, [Next]_vars, Grows, NEW k \in Track PROVE Relies(k)'
  BY TablesGrow DEF HandlersInv
<1>. USE DEF IInv, HandlerTypes
<1>1. CASE UNCHANGED vars \/ BackendCrash \/ \E c \in Cameras : Worker(c) \/ Failure(c)
  <2>1. reid'[k] = reid[k] \/ reid'[k].pc \in {"dead", "store"}
    BY <1>1 DEF vars, BackendCrash, Worker, Failure, PostTrack, TrackAnswered, NothingToMatch,
                PostReid, ReidAnswered, TrackPostFails, ReidPostFails
  <2>. QED  BY <2>1, Relied
<1>2. ASSUME NEW l \in Track, Handlers(l), k # l PROVE Relies(k)'
  <2>1. reid'[k] = reid[k]
    BY <1>2 DEF Handlers, TrackSelect, TrackCommit, ReidStore, ReidMatch, ReidLink, ReidCreate,
                ReidAttach, Become
  <2>. QED  BY <2>1, Relied
<1>3. CASE TrackSelect(k) \/ TrackCommit(k)
  BY <1>3, Relied DEF TrackSelect, TrackCommit
<1>4. CASE ReidStore(k)
  <2>1. CASE Become(k, [pc |-> "404"])
    BY <2>1 DEF Become, Relies
  <2>2. ASSUME NEW r \in RowsOf(k), rows' = WithEmbedding(r, k),
               Become(k, [pc |-> "match", row |-> r, last_seen |-> LastSeen(r),
                          identity |-> rows[r].identity])
        PROVE  Relies(k)'
    <3>1. reid'[k].pc = "match" /\ reid'[k].row = r /\ r \in DOMAIN rows
      BY <2>2 DEF Become, RowsOf
    <3>2. r \in DOMAIN rows' /\ rows'[r] = [rows[r] EXCEPT !.embedding = Of(k).look]
      BY <2>2, <3>1 DEF WithEmbedding
    <3>3. rows'[r].embedding # None
      BY <3>1, <3>2, TrackFields DEF TypeOK, RowType
    <3>. QED  BY <3>1, <3>2, <3>3 DEF Relies
  <2>. QED  BY <1>4, <2>1, <2>2 DEF ReidStore
<1>5. CASE ReidMatch(k)
  <2>1. reid[k].row \in DOMAIN rows /\ rows[reid[k].row].embedding # None /\ UNCHANGED tables
    BY <1>5 DEF ReidMatch, HandlersInv, Relies
  <2>2. CASE Become(k, [reid[k] EXCEPT !.pc = "create"])
    <3>1. reid[k] \in [pc : {"match", "create", "attach"}, row : Track, last_seen : Times,
                       identity : Track \cup {NoIdentity}]
      BY <1>5 DEF ReidMatch, ReidHandler
    <3>2. reid'[k].pc = "create" /\ reid'[k].row = reid[k].row
      BY <2>2, <3>1 DEF Become
    <3>. QED  BY <2>1, <3>2 DEF Relies, tables
  <2>3. ASSUME NEW i \in Best(k, reid[k]),
               Become(k, [pc |-> "link", row |-> reid[k].row, last_seen |-> reid[k].last_seen,
                          identity |-> reid[k].identity, best |-> i, read |-> idents[i]])
        PROVE  Relies(k)'
    <3>1. i \in DOMAIN idents /\ Score(Of(k).look, Of(i).look) >= Threshold
      BY DEF Best, Gallery, Scored, SeedsInv
    <3>2. reid'[k].pc = "link" /\ reid'[k].row = reid[k].row /\ reid'[k].best = i
      BY <2>3 DEF Become
    <3>. QED  BY <2>1, <3>1, <3>2 DEF Relies, tables
  <2>. QED  BY <1>5, <2>2, <2>3 DEF ReidMatch
<1>6. CASE ReidLink(k) \/ ReidAttach(k)
  <2>1. reid'[k].pc = "200"
    BY <1>6 DEF ReidLink, ReidAttach, Become
  <2>. QED  BY <2>1 DEF Relies
<1>7. CASE ReidCreate(k)
  <2>1. reid[k] \in [pc : {"match", "create", "attach"}, row : Track, last_seen : Times,
                     identity : Track \cup {NoIdentity}]
    BY <1>7 DEF ReidCreate, ReidHandler
  <2>2. reid'[k].pc = "attach" /\ reid'[k].row = reid[k].row /\ UNCHANGED rows /\ k \in DOMAIN idents'
    BY <1>7, <2>1 DEF ReidCreate, Become
  <2>3. reid[k].row \in DOMAIN rows /\ rows[reid[k].row].embedding # None
    BY <1>7 DEF ReidCreate, HandlersInv, Relies
  <2>. QED  BY <2>2, <2>3 DEF Relies
<1>. QED  BY <1>1, <1>2, <1>3, <1>4, <1>5, <1>6, <1>7 DEF Next, Handlers

LEMMA SeedsStep == IInv /\ [Next]_vars => SeedsInv'
<1>. SUFFICES ASSUME IInv, [Next]_vars, Grows PROVE SeedsInv'
  BY TablesGrow
<1>. USE DEF IInv, HandlerTypes
<1>1. \A i \in DOMAIN idents' : idents'[i].embedding = Of(i).look
  <2>1. \A i \in DOMAIN idents : idents'[i].embedding = Of(i).look
    BY DEF Grows, SeedsInv
  <2>2. ASSUME NEW i \in DOMAIN idents' \ DOMAIN idents PROVE idents'[i].embedding = Of(i).look
    <3>1. \E l \in Track : Handlers(l)
      BY <2>2 DEF Next, Worker, Failure, PostTrack, TrackAnswered, NothingToMatch, PostReid,
                  ReidAnswered, TrackPostFails, ReidPostFails, BackendCrash, vars, tables
    <3>2. \E l \in Track : ReidLink(l) \/ ReidCreate(l)
      BY <2>2, <3>1 DEF Handlers, TrackSelect, TrackCommit, ReidStore, ReidMatch, ReidAttach, tables
    <3>3. ASSUME NEW l \in Track, ReidLink(l) PROVE FALSE
      <4>1. DOMAIN idents' = DOMAIN idents
        BY <3>3 DEF ReidLink
      <4>. QED  BY <2>2, <4>1
    <3>4. PICK l \in Track : ReidCreate(l)
      BY <3>2, <3>3
    <3>5. i = l
      BY <2>2, <3>4 DEF ReidCreate
    <3>. QED  BY <3>4, <3>5 DEF ReidCreate, NewIdentity
  <2>. QED  BY <2>1, <2>2
<1>2. ASSUME NEW p \in links'
      PROVE  p[1] \in Track /\ p[2] \in DOMAIN idents' /\ Score(Of(p[1]).look, Of(p[2]).look) >= Threshold
  <2>1. CASE p \in links
    BY <2>1 DEF SeedsInv, Grows
  <2>2. CASE p \notin links
    <3>1. PICK l \in Track : ReidLink(l) \/ ReidCreate(l)
      BY <2>2 DEF Next, Worker, Failure, Handlers, PostTrack, TrackAnswered, NothingToMatch, PostReid,
             ReidAnswered, TrackPostFails, ReidPostFails, BackendCrash, TrackSelect, TrackCommit,
             ReidStore, ReidMatch, ReidAttach, vars, history
    <3>2. CASE ReidLink(l)
      <4>1. p = <<l, reid[l].best>>
        BY <2>2, <3>2 DEF ReidLink
      <4>2. reid[l].best \in DOMAIN idents /\ Score(Of(l).look, Of(reid[l].best).look) >= Threshold
        BY <3>2 DEF ReidLink, HandlersInv, Relies
      <4>. QED  BY <4>1, <4>2 DEF Grows
    <3>3. CASE ReidCreate(l)
      <4>1. p = <<l, l>> /\ l \in DOMAIN idents'
        BY <2>2, <3>3 DEF ReidCreate
      <4>. QED  BY <4>1, TrackFields
    <3>. QED  BY <3>1, <3>2, <3>3
  <2>. QED  BY <2>1, <2>2
<1>. QED  BY <1>1, <1>2 DEF SeedsInv

LEMMA WholeStep == IInv /\ [Next]_vars => LinkedTracksAreWhole'
<1>. SUFFICES ASSUME IInv, [Next]_vars, Grows, NEW r \in DOMAIN rows', rows'[r].identity # NoIdentity
              PROVE  rows'[r].embedding # None /\ rows'[r].identity \in DOMAIN idents'
  BY TablesGrow DEF LinkedTracksAreWhole
<1>. USE DEF IInv, HandlerTypes
<1>1. CASE r \in DOMAIN rows /\ rows'[r].identity = rows[r].identity
  BY <1>1 DEF LinkedTracksAreWhole, Grows
<1>2. CASE r \notin DOMAIN rows \/ rows'[r].identity # rows[r].identity
  <2>1. PICK l \in Track : TrackCommit(l) \/ ReidStore(l) \/ ReidLink(l) \/ ReidAttach(l)
    BY <1>2 DEF Next, Worker, Failure, Handlers, PostTrack, TrackAnswered, NothingToMatch, PostReid,
             ReidAnswered, TrackPostFails, ReidPostFails, BackendCrash, TrackSelect, ReidMatch,
             ReidCreate, vars, tables
  <2>2. CASE TrackCommit(l)
    <3>1. r \in DOMAIN rows => rows'[r].identity = rows[r].identity
      <4>1. r \in DOMAIN rows => [rows[r] EXCEPT !.holds = l].identity = rows[r].identity
        BY DEF TypeOK, RowType
      <4>2. r \in DOMAIN rows => rows'[r] = rows[r] \/ rows'[r] = [rows[r] EXCEPT !.holds = l]
        BY <2>2 DEF TrackCommit
      <4>. QED  BY <4>1, <4>2
    <3>2. r \notin DOMAIN rows => rows'[r].identity = NoIdentity
      BY <2>2 DEF TrackCommit
    <3>. QED  BY <1>2, <3>1, <3>2
  <2>3. CASE ReidStore(l)
    <3>1. r \in DOMAIN rows /\ rows'[r].identity = rows[r].identity
      <4>1. rows' = rows \/ \E q \in RowsOf(l) : rows' = WithEmbedding(q, l)
        BY <2>3 DEF ReidStore
      <4>2. r \in DOMAIN rows
        BY <4>1 DEF WithEmbedding
      <4>3. [rows[r] EXCEPT !.embedding = Of(l).look].identity = rows[r].identity
        BY <4>2 DEF TypeOK, RowType
      <4>4. rows'[r] = rows[r] \/ rows'[r] = [rows[r] EXCEPT !.embedding = Of(l).look]
        BY <4>1, <4>2 DEF WithEmbedding
      <4>. QED  BY <4>2, <4>3, <4>4
    <3>. QED  BY <1>2, <3>1
  <2>4. CASE ReidLink(l)
    <3>1. /\ reid[l].row \in DOMAIN rows /\ rows[reid[l].row].embedding # None
          /\ reid[l].best \in DOMAIN idents
      BY <2>4 DEF ReidLink, HandlersInv, Relies
    <3>2. r = reid[l].row /\ rows'[r].identity = reid[l].best
      BY <1>2, <2>4, <3>1 DEF ReidLink, TypeOK, RowType
    <3>. QED  BY <3>1, <3>2 DEF Grows
  <2>5. CASE ReidAttach(l)
    <3>1. /\ reid[l].row \in DOMAIN rows /\ rows[reid[l].row].embedding # None
          /\ l \in DOMAIN idents
      BY <2>5 DEF ReidAttach, HandlersInv, Relies
    <3>2. r = reid[l].row /\ rows'[r].identity = l
      BY <1>2, <2>5, <3>1 DEF ReidAttach, TypeOK, RowType
    <3>. QED  BY <3>1, <3>2 DEF Grows
  <2>. QED  BY <2>1, <2>2, <2>3, <2>4, <2>5
<1>. QED  BY <1>1, <1>2

LEMMA Invariant == Spec => []IInv
<1>1. Init => IInv
  BY TypesInit DEF Init, IInv, HandlersInv, Relies, SeedsInv, LinkedTracksAreWhole, Idle
<1>2. IInv /\ [Next]_vars => IInv'
  BY TypesStep, HandlersStep, SeedsStep, WholeStep DEF IInv
<1>. QED  BY <1>1, <1>2, PTL DEF Spec

-----------------------------------------------------------------------------
(* The safety properties                                                   *)

\* The tables always hold the columns their models declare.
THEOREM TypeCorrect == Spec => []TypeOK
<1>1. IInv => TypeOK
  BY DEF IInv, HandlerTypes
<1>. QED  BY <1>1, Invariant, PTL

\* However the handlers interleave, and wherever one of them dies between its commits,
\* a track with an identity has an embedding and the identity is there.
THEOREM LinksAreWhole == Spec => []LinkedTracksAreWhole
<1>1. IInv => LinkedTracksAreWhole
  BY DEF IInv
<1>. QED  BY <1>1, Invariant, PTL

\* A track is only ever counted into an identity whose embedding is at least as similar
\* as reid_match_threshold asks, although others write to the identity in between.
THEOREM OnlyMatchesLinked == Spec => []LinksAreMatches
<1>1. IInv => LinksAreMatches
  BY DEF IInv, SeedsInv, LinksAreMatches
<1>. QED  BY <1>1, Invariant, PTL

\* Both at once: every link a reader sees is complete and is a match.
THEOREM LinksSound == Spec => []LinksAreSound
<1>. QED  BY LinksAreWhole, OnlyMatchesLinked, PTL DEF LinksAreSound

-----------------------------------------------------------------------------
(* A track's embedding is matched once                                     *)

\* Not posted to /ingest/reid yet.
Unposted(l) == \/ l[2] > worker[l[1]].n
               \/ l[2] = worker[l[1]].n /\ worker[l[1]].stage \in {"track", "trackSent", "reid"}

\* A handler that has not linked its track yet finds it in no identity: the only second
\* post is the one after a 404, which linked nothing.
OnceInv ==
    /\ \A l \in Track : reid[l].pc \in {"idle", "404", "store", "match", "create", "link"} =>
           \A p \in links : p[1] # l
    /\ \A l \in Track : Unposted(l) => reid[l].pc = "idle"
    /\ \A l \in Track : l = Cur(l[1]) /\ At(l[1], "retry") => reid[l].pc = "404"
    /\ \A i \in DOMAIN idents : <<i, i>> \in links
    /\ IsFiniteSet(links) /\ IsFiniteSet(DOMAIN idents)

LEMMA TrackIs ==
    ASSUME NEW l \in Track
    PROVE  l = <<l[1], l[2]>> /\ l[1] \in Cameras /\ l[2] \in 1..Len(Closings[l[1]])
BY DEF Track

LEMMA CurIsTrack ==
    ASSUME HandlerTypes, NEW c \in Cameras, NEW s, At(c, s)
    PROVE  Cur(c) \in Track /\ Cur(c)[1] = c /\ Cur(c)[2] = worker[c].n
<1>1. worker[c].n \in 1..Len(Closings[c])
  <2>1. worker[c].n \in Nat \ {0}
    BY DEF HandlerTypes, TypeOK
  <2>2. Closings[c] \in Seq([track_id : Nat, look : STRING \ {None}, last_seen : Nat])
    BY ReidAssumption
  <2>3. Len(Closings[c]) \in Nat
    BY <2>2
  <2>4. worker[c].n <= Len(Closings[c])
    BY DEF At
  <2>. QED  BY <2>1, <2>3, <2>4
<1>. QED  BY <1>1 DEF Cur, Track

\* How a handler for /ingest/reid moves on.
LEMMA Moves ==
    ASSUME IInv, [Next]_vars, NEW k \in Track
    PROVE  \/ reid'[k] = reid[k]
           \/ reid'[k].pc \in {"200", "dead"} /\ reid[k].pc \notin {"idle", "404"}
           \/ reid[k].pc = "store" /\ reid'[k].pc \in {"404", "match"}
           \/ reid[k].pc = "match" /\ ReidMatch(k) /\ reid'[k].pc \in {"create", "link"}
           \/ reid[k].pc = "create" /\ ReidCreate(k) /\ reid'[k].pc = "attach"
           \/ /\ PostReid(k[1]) /\ k = Cur(k[1]) /\ reid'[k].pc = "store"
              /\ At(k[1], "reid") \/ At(k[1], "retry")
<1>. USE DEF IInv, HandlerTypes
<1>1. ASSUME NEW c \in Cameras, PostReid(c)
      PROVE  \/ k = Cur(c) /\ k[1] = c /\ reid'[k].pc = "store"
             \/ reid'[k] = reid[k]
  <2>1. Cur(c) \in Track /\ Cur(c)[1] = c
    BY <1>1, CurIsTrack DEF PostReid
  <2>2. reid' = [reid EXCEPT ![Cur(c)] = [pc |-> "store"]]
    BY <1>1 DEF PostReid
  <2>. QED  BY <2>1, <2>2
<1>2. ASSUME NEW c \in Cameras, Worker(c) \/ Failure(c), ~PostReid(c) PROVE reid' = reid
  BY <1>2 DEF Worker, Failure, PostTrack, TrackAnswered, NothingToMatch, ReidAnswered,
              TrackPostFails, ReidPostFails
<1>3. ASSUME NEW c \in Cameras, PostReid(c) PROVE At(c, "reid") \/ At(c, "retry")
  BY <1>3 DEF PostReid
<1>4. CASE BackendCrash
  BY <1>4 DEF BackendCrash, Busy
<1>5. CASE UNCHANGED vars
  BY <1>5 DEF vars
<1>6. ASSUME NEW l \in Track, Handlers(l), k # l PROVE reid'[k] = reid[k]
  BY <1>6 DEF Handlers, TrackSelect, TrackCommit, ReidStore, ReidMatch, ReidLink, ReidCreate,
              ReidAttach, Become
<1>7. CASE TrackSelect(k) \/ TrackCommit(k)
  BY <1>7 DEF TrackSelect, TrackCommit
<1>8. CASE ReidStore(k)
  BY <1>8 DEF ReidStore, Become
<1>9. ASSUME reid[k].pc \in {"match", "create"}
      PROVE  /\ [reid[k] EXCEPT !.pc = "create"].pc = "create"
             /\ [reid[k] EXCEPT !.pc = "attach"].pc = "attach"
  <2>1. reid[k] \in [pc : {"match", "create", "attach"}, row : Track, last_seen : Times,
                     identity : Track \cup {NoIdentity}]
    BY <1>9 DEF ReidHandler
  <2>. QED  BY <2>1
<1>10. CASE ReidMatch(k)
  <2>1. reid[k].pc = "match"
    BY <1>10 DEF ReidMatch
  <2>2. \/ reid' = [reid EXCEPT ![k] = [reid[k] EXCEPT !.pc = "create"]]
        \/ \E i \in Best(k, reid[k]) : reid' = [reid EXCEPT ![k] =
               [pc |-> "link", row |-> reid[k].row, last_seen |-> reid[k].last_seen,
                identity |-> reid[k].identity, best |-> i, read |-> idents[i]]]
    BY <1>10 DEF ReidMatch, Become
  <2>3. reid'[k] = [reid[k] EXCEPT !.pc = "create"] \/ reid'[k].pc = "link"
    BY <2>2
  <2>4. reid'[k].pc \in {"create", "link"}
    BY <2>1, <2>3, <1>9
  <2>. QED  BY <1>10, <2>1, <2>4
<1>11. CASE ReidCreate(k)
  <2>1. reid'[k].pc = "attach"
    BY <1>9, <1>11 DEF ReidCreate, Become
  <2>. QED  BY <1>11, <2>1 DEF ReidCreate
<1>12. CASE ReidLink(k) \/ ReidAttach(k)
  BY <1>12 DEF ReidLink, ReidAttach, Become
<1>. QED  BY <1>1, <1>2, <1>3, <1>4, <1>5, <1>6, <1>7, <1>8, <1>10, <1>11, <1>12 DEF Next, Handlers

\* Only three statements touch an identity or who is counted into it.
LEMMA Quiet ==
    ASSUME [Next]_vars, ~\E l \in Track : ReidMatch(l) \/ ReidLink(l) \/ ReidCreate(l)
    PROVE  UNCHANGED <<idents, history>>
BY DEF Next, Worker, Failure, Handlers, PostTrack, TrackAnswered, NothingToMatch, PostReid,
       ReidAnswered, TrackPostFails, ReidPostFails, BackendCrash, TrackSelect, TrackCommit,
       ReidStore, ReidAttach, vars, tables

LEMMA Shipping ==
    ASSUME IInv, OnceInv, [Next]_vars, NEW l \in Track
    PROVE  /\ Unposted(l)' => reid'[l].pc = "idle"
           /\ (l = Cur(l[1]) /\ At(l[1], "retry"))' => reid'[l].pc = "404"
<1>. USE DEF IInv, HandlerTypes
<1>. DEFINE c == l[1]
<1>1. /\ c \in Cameras /\ l = <<c, l[2]>> /\ l[2] \in Nat
      /\ worker[c] \in [n : Nat \ {0}, stage : Stages]
      /\ worker \in [Cameras -> [n : Nat \ {0}, stage : Stages]]
  <2>1. c \in Cameras /\ l = <<c, l[2]>> /\ l[2] \in 1..Len(Closings[c])
    BY TrackIs
  <2>2. Closings[c] \in Seq([track_id : Nat, look : STRING \ {None}, last_seen : Nat])
    BY <2>1, ReidAssumption
  <2>. QED  BY <2>1, <2>2 DEF TypeOK
<1>2. CASE worker' = worker
  <2>1. Unposted(l)' = Unposted(l) /\ (l = Cur(c) /\ At(c, "retry"))' = (l = Cur(c) /\ At(c, "retry"))
    BY <1>2 DEF Unposted, Cur, At
  <2>2. ~PostReid(c)
    <3>1. ASSUME PostReid(c) PROVE worker'[c].stage # worker[c].stage
      BY <1>1, <3>1 DEF PostReid, Goto, At
    <3>. QED  BY <1>2, <3>1
  <2>. QED  BY <2>1, <2>2, Moves DEF OnceInv
<1>3. ASSUME NEW d \in Cameras, Worker(d) \/ Failure(d) PROVE
          /\ Unposted(l)' => reid'[l].pc = "idle"
          /\ (l = Cur(c) /\ At(c, "retry"))' => reid'[l].pc = "404"
  <2>1. CASE d # c
    <3>1. worker'[c] = worker[c]
      BY <1>1, <1>3, <2>1 DEF Worker, Failure, PostTrack, TrackAnswered, NothingToMatch, PostReid,
             ReidAnswered, TrackPostFails, ReidPostFails, Goto, NextClosing
    <3>2. Unposted(l)' = Unposted(l) /\ (l = Cur(c) /\ At(c, "retry"))' = (l = Cur(c) /\ At(c, "retry"))
      BY <3>1 DEF Unposted, Cur, At
    <3>3. ~PostReid(c)
      <4>1. ASSUME PostReid(c) PROVE worker'[c].stage # worker[c].stage
        BY <1>1, <4>1 DEF PostReid, Goto, At
      <4>. QED  BY <3>1, <4>1
    <3>. QED  BY <3>2, <3>3, Moves DEF OnceInv
  <2>2. CASE d = c
    <3>. HIDE DEF c
    <3>1. /\ \A s : Goto(c, s) => worker'[c].n = worker[c].n /\ worker'[c].stage = s
          /\ NextClosing(c) => worker'[c].n = worker[c].n + 1 /\ worker'[c].stage = "track"
      <4>1. ASSUME NEW s, Goto(c, s) PROVE worker'[c].n = worker[c].n /\ worker'[c].stage = s
        BY <1>1, <4>1 DEF Goto
      <4>2. ASSUME NextClosing(c)
            PROVE  worker'[c].n = worker[c].n + 1 /\ worker'[c].stage = "track"
        BY <1>1, <4>2 DEF NextClosing
      <4>. QED  BY <4>1, <4>2
    <3>2. CASE PostReid(c)
      <4>1. worker'[c].n = worker[c].n /\ worker'[c].stage \in {"reidSent", "retrySent"}
        BY <1>1, <3>1, <3>2 DEF PostReid
      <4>2. ~(At(c, "retry"))'
        BY <4>1 DEF At
      <4>3. Unposted(l)' => Unposted(l) /\ l # Cur(c)
        BY <1>1, <4>1 DEF Unposted, Cur, c
      <4>4. Unposted(l)' => reid'[l] = reid[l]
        <5>1. reid' = [reid EXCEPT ![Cur(c)] = [pc |-> "store"]]
          BY <3>2 DEF PostReid
        <5>. QED  BY <4>3, <5>1
      <4>. QED  BY <4>2, <4>3, <4>4 DEF OnceInv, c
    <3>3. CASE ~PostReid(c)
      <4>1. reid' = reid
        BY <1>3, <2>2, <3>3 DEF Worker, Failure, PostTrack, TrackAnswered, NothingToMatch, ReidAnswered,
                                TrackPostFails, ReidPostFails
      <4>5. \/ /\ Goto(c, "trackSent") \/ Goto(c, "reid")
               /\ worker[c].stage \in {"track", "trackSent"}
            \/ NextClosing(c)
            \/ At(c, "reidSent") /\ reid[Cur(c)].pc = "404" /\ Goto(c, "retry")
        BY <1>3, <2>2, <3>3 DEF Worker, Failure, PostTrack, TrackAnswered, NothingToMatch,
                                ReidAnswered, TrackPostFails, ReidPostFails, At
      <4>6. \/ /\ worker'[c].n = worker[c].n /\ worker'[c].stage \in {"trackSent", "reid"}
               /\ worker[c].stage \in {"track", "trackSent"}
            \/ worker'[c].n = worker[c].n + 1 /\ worker'[c].stage = "track"
            \/ worker'[c].n = worker[c].n /\ worker'[c].stage = "retry"
        BY <1>1, <3>1, <4>5
      <4>2. Unposted(l)' => Unposted(l)
        BY <1>1, <4>6 DEF Unposted, c
      <4>3. ASSUME (l = Cur(c) /\ At(c, "retry"))' PROVE reid[l].pc = "404"
        <5>1. worker'[c].stage = "retry"
          BY <4>3 DEF At
        <5>2. At(c, "reidSent") /\ reid[Cur(c)].pc = "404" /\ Goto(c, "retry")
          BY <1>1, <3>1, <4>5, <5>1
        <5>3. Cur(c)' = Cur(c)
          BY <1>1, <3>1, <5>2 DEF Cur
        <5>. QED  BY <4>3, <5>2, <5>3
      <4>. QED  BY <4>1, <4>2, <4>3 DEF OnceInv, c
    <3>. QED  BY <3>2, <3>3
  <2>. QED  BY <2>1, <2>2
<1>4. worker' = worker \/ \E d \in Cameras : Worker(d) \/ Failure(d)
  BY DEF Next, Handlers, BackendCrash, TrackSelect, TrackCommit, ReidStore, ReidMatch, ReidLink,
         ReidCreate, ReidAttach, vars
<1>. QED  BY <1>2, <1>3, <1>4

LEMMA OnceStep == IInv /\ OnceInv /\ [Next]_vars => OnceInv'
<1>. SUFFICES ASSUME IInv, OnceInv, [Next]_vars PROVE OnceInv'
  OBVIOUS
<1>. USE DEF IInv, HandlerTypes
<1>1. ASSUME NEW l \in Track, reid'[l].pc \in {"idle", "404", "store", "match", "create", "link"}
      PROVE  reid[l].pc \in {"idle", "404", "store", "match", "create", "link"} /\ reid'[l].pc # "200" /\ reid'[l].pc # "attach"
  <2>1. CASE PostReid(l[1]) /\ l = Cur(l[1]) /\ (At(l[1], "reid") \/ At(l[1], "retry"))
    <3>1. At(l[1], "reid") => Unposted(l)
      BY <2>1 DEF At, Cur, Unposted
    <3>. QED  BY <1>1, <2>1, <3>1 DEF OnceInv
  <2>2. CASE ~(PostReid(l[1]) /\ l = Cur(l[1]) /\ (At(l[1], "reid") \/ At(l[1], "retry")))
    <3>1. \/ reid'[l] = reid[l]
          \/ reid'[l].pc \in {"200", "dead"}
          \/ reid[l].pc = "store"
          \/ reid[l].pc = "match"
          \/ reid'[l].pc = "attach"
      BY <2>2, Moves
    <3>. QED  BY <1>1, <3>1
  <2>. QED  BY <2>1, <2>2
<1>2. CASE links' = links /\ idents' = idents
  BY <1>1, <1>2, Shipping DEF OnceInv
<1>3. ASSUME NEW k \in Track, ReidLink(k) PROVE OnceInv'
  <2>1. /\ links' = links \cup {<<k, reid[k].best>>} /\ reid'[k].pc = "200"
        /\ DOMAIN idents' = DOMAIN idents
    BY <1>3 DEF ReidLink, Become
  <2>2. IsFiniteSet(links')
    BY <2>1, FS_AddElement DEF OnceInv
  <2>3. ASSUME NEW l \in Track, reid'[l].pc \in {"idle", "404", "store", "match", "create", "link"}
        PROVE  \A p \in links' : p[1] # l
    <3>1. l # k
      BY <2>1, <2>3
    <3>. QED  BY <1>1, <2>1, <2>3, <3>1 DEF OnceInv
  <2>4. \A i \in DOMAIN idents' : <<i, i>> \in links'
    BY <2>1 DEF OnceInv
  <2>5. IsFiniteSet(DOMAIN idents')
    BY <2>1 DEF OnceInv
  <2>. QED  BY <2>2, <2>3, <2>4, <2>5, Shipping DEF OnceInv
<1>4. ASSUME NEW k \in Track, ReidCreate(k) PROVE OnceInv'
  <2>1. links' = links \cup {<<k, k>>} /\ DOMAIN idents' = DOMAIN idents \cup {k}
    BY <1>4 DEF ReidCreate
  <2>2. reid'[k].pc = "attach"
    <3>1. reid[k] \in [pc : {"match", "create", "attach"}, row : Track, last_seen : Times,
                       identity : Track \cup {NoIdentity}]
      BY <1>4 DEF ReidCreate, ReidHandler
    <3>. QED  BY <1>4, <3>1 DEF ReidCreate, Become
  <2>3. IsFiniteSet(links') /\ IsFiniteSet(DOMAIN idents')
    <3>1. IsFiniteSet(links \cup {<<k, k>>})
      BY FS_AddElement DEF OnceInv
    <3>2. IsFiniteSet(DOMAIN idents \cup {k})
      BY FS_AddElement DEF OnceInv
    <3>. QED  BY <2>1, <3>1, <3>2
  <2>4. ASSUME NEW l \in Track, reid'[l].pc \in {"idle", "404", "store", "match", "create", "link"}
        PROVE  \A p \in links' : p[1] # l
    <3>1. l # k
      BY <2>2, <2>4
    <3>. QED  BY <1>1, <2>1, <2>4, <3>1 DEF OnceInv
  <2>5. \A i \in DOMAIN idents' : <<i, i>> \in links'
    BY <2>1 DEF OnceInv
  <2>. QED  BY <2>3, <2>4, <2>5, Shipping DEF OnceInv
<1>5. (links' = links /\ idents' = idents) \/ \E k \in Track : ReidLink(k) \/ ReidCreate(k)
  BY Quiet DEF ReidMatch, history, tables
<1>. QED  BY <1>2, <1>3, <1>4, <1>5

LEMMA Once == Spec => [](IInv /\ OnceInv)
<1>1. Init => OnceInv
  <2>. SUFFICES ASSUME Init PROVE OnceInv
    OBVIOUS
  <2>1. IsFiniteSet(links) /\ IsFiniteSet(DOMAIN idents)
    BY FS_EmptySet DEF Init
  <2>2. \A l \in Track : At(l[1], "retry") => FALSE
    <3>1. \A l \in Track : l[1] \in Cameras
      BY TrackIs
    <3>. QED  BY <3>1 DEF Init, At
  <2>. QED  BY <2>1, <2>2 DEF Init, OnceInv, Idle
<1>. QED  BY <1>1, OnceStep, Invariant, PTL DEF Spec

-----------------------------------------------------------------------------
(* An identity's count and its clock                                       *)

Counted(i) == Cardinality({p \in links : p[2] = i})

Linking(k, i) == reid[k].pc = "link" /\ reid[k].best = i

\* What a handler about to link read of the identity is out of date only if the
\* identity is contended: until then it is alone.
ReadsRight(l) ==
    reid[l].pc = "link" =>
        LET i == reid[l].best
        IN  /\ reid[l].read.track_count <= Counted(i)
            /\ i \notin contended =>
                  /\ reid[l].read.track_count = idents[i].track_count
                  /\ reid[l].read.last_seen = idents[i].last_seen
                  /\ \A k \in Track \ {l} : ~Linking(k, i)

CountInv == TrackCountExactUnlessContended /\ \A l \in Track : ReadsRight(l)

LEMMA TimesAreNumbers == Times \subseteq Nat
<1>. SUFFICES ASSUME NEW l \in Track PROVE Of(l).last_seen \in Nat
  BY DEF Times
<1>1. l[1] \in Cameras /\ l[2] \in 1..Len(Closings[l[1]])
  BY TrackIs
<1>2. Closings[l[1]] \in Seq([track_id : Nat, look : STRING \ {None}, last_seen : Nat])
  BY <1>1, ReidAssumption
<1>3. Closings[l[1]][l[2]] \in [track_id : Nat, look : STRING \ {None}, last_seen : Nat]
  <2>1. \A S : \A s \in Seq(S) : \A i \in 1..Len(s) : s[i] \in S
    OBVIOUS
  <2>. QED  BY <1>1, <1>2, <2>1
<1>. QED  BY <1>3 DEF Of

LEMMA Counts ==
    ASSUME IsFiniteSet(links), NEW l, NEW i, <<l, i>> \notin links, links' = links \cup {<<l, i>>}
    PROVE  /\ Counted(i) \in Nat /\ Counted(i)' = Counted(i) + 1
           /\ \A j : j # i => Counted(j)' = Counted(j)
<1>. DEFINE A == {p \in links : p[2] = i}
            B == {p \in links' : p[2] = i}
<1>1. IsFiniteSet(A)
  BY FS_Subset
<1>2. B = A \cup {<<l, i>>} /\ <<l, i>> \notin A
  OBVIOUS
<1>3. Cardinality(A \cup {<<l, i>>}) = Cardinality(A) + 1 /\ Cardinality(A) \in Nat
  BY <1>1, <1>2, FS_AddElement, FS_CardinalityType
<1>4. Cardinality(B) = Cardinality(A) + 1
  BY <1>2, <1>3
<1>5. ASSUME NEW j, j # i PROVE {p \in links' : p[2] = j} = {p \in links : p[2] = j}
  BY <1>5
<1>6. ASSUME NEW j, j # i PROVE Counted(j)' = Counted(j)
  BY <1>5, <1>6 DEF Counted
<1>. QED  BY <1>3, <1>4, <1>6 DEF Counted

\* A handler about to link, and what its commit does to the identity.
LEMMA LinkWrites ==
    ASSUME IInv, NEW l \in Track, ReidLink(l)
    PROVE  LET h == reid[l]  i == reid[l].best
           IN  /\ i \in DOMAIN idents /\ i \in Track /\ h.read \in IdentityType /\ h.last_seen \in Times
               /\ DOMAIN idents' = DOMAIN idents
               /\ \A j \in DOMAIN idents : j # i => idents'[j] = idents[j]
               /\ idents'[i].track_count = h.read.track_count + 1
               /\ idents'[i].first_seen = idents[i].first_seen
               /\ idents'[i].last_seen = IF h.last_seen > h.read.last_seen THEN h.last_seen
                                         ELSE idents[i].last_seen
<1>. DEFINE h == reid[l]  i == reid[l].best
<1>. USE DEF IInv, HandlerTypes
<1>1. h \in [pc : {"link"}, row : Track, last_seen : Times, identity : Track \cup {NoIdentity},
             best : Track, read : IdentityType]
  BY DEF ReidLink, ReidHandler
<1>2. i \in DOMAIN idents
  BY DEF ReidLink, HandlersInv, Relies
<1>3. idents[i] \in IdentityType
  BY <1>2 DEF TypeOK
<1>4. idents' = [idents EXCEPT ![i] = Linked(h)]
  BY DEF ReidLink
<1>. DEFINE seen == IF h.last_seen > h.read.last_seen THEN h.last_seen ELSE idents[i].last_seen
            n    == h.read.track_count + 1
<1>5. Linked(h) = [idents[i] EXCEPT !.last_seen = seen, !.track_count = n]
  BY DEF Linked
<1>. HIDE DEF seen, n
<1>6. /\ Linked(h).track_count = n /\ Linked(h).last_seen = seen
      /\ Linked(h).first_seen = idents[i].first_seen
  BY <1>3, <1>5 DEF IdentityType
<1>. HIDE DEF h, i
<1>7. idents'[i] = Linked(h) /\ DOMAIN idents' = DOMAIN idents
      /\ \A j \in DOMAIN idents : j # i => idents'[j] = idents[j]
  BY <1>2, <1>4
<1>. QED  BY <1>1, <1>2, <1>6, <1>7 DEF h, i, seen, n

LEMMA CountLink ==
    ASSUME IInv, OnceInv, CountInv, [Next]_vars, NEW l \in Track, ReidLink(l)
    PROVE  CountInv'
<1>. SUFFICES ASSUME NEW h, h = reid[l], NEW i, i = reid[l].best PROVE CountInv'
  OBVIOUS
<1>. USE DEF IInv, HandlerTypes
<1>1. /\ i \in DOMAIN idents /\ i \in Track /\ h.read \in IdentityType /\ h.last_seen \in Times
      /\ DOMAIN idents' = DOMAIN idents
      /\ \A j \in DOMAIN idents : j # i => idents'[j] = idents[j]
      /\ idents'[i].track_count = h.read.track_count + 1
  BY LinkWrites
<1>2. h.pc = "link" /\ links' = links \cup {<<l, i>>} /\ contended' = contended
      /\ reid' = [reid EXCEPT ![l] = [pc |-> "200"]]
  BY DEF ReidLink, Become
<1>3. <<l, i>> \notin links /\ IsFiniteSet(links)
  BY <1>2 DEF OnceInv
<1>4. /\ Counted(i) \in Nat /\ Counted(i)' = Counted(i) + 1
      /\ \A j : j # i => Counted(j)' = Counted(j)
  BY <1>2, <1>3, Counts
<1>5. /\ h.read.track_count \in Nat /\ h.read.track_count <= Counted(i)
      /\ i \notin contended => h.read.track_count = idents[i].track_count
                               /\ \A k \in Track \ {l} : ~Linking(k, i)
  BY <1>1, <1>2 DEF CountInv, ReadsRight, IdentityType
<1>6. \A j \in DOMAIN idents : /\ idents[j].track_count <= Counted(j)
                               /\ j \notin contended => idents[j].track_count = Counted(j)
  BY DEF CountInv, TrackCountExactUnlessContended, Counted
<1>7. TrackCountExactUnlessContended'
  <2>1. \A j \in DOMAIN idents' : /\ idents'[j].track_count <= Counted(j)'
                                  /\ j \notin contended' => idents'[j].track_count = Counted(j)'
    BY <1>1, <1>2, <1>4, <1>5, <1>6
  <2>. QED  BY <2>1 DEF TrackCountExactUnlessContended, Counted
<1>8. ASSUME NEW k \in Track PROVE ReadsRight(k)'
  <2>1. CASE k = l
    BY <1>2, <2>1 DEF ReadsRight
  <2>2. CASE k # l /\ reid[k].pc = "link"
    <3>1. reid'[k] = reid[k] /\ \A q \in Track : \A j : Linking(q, j)' => Linking(q, j)
      BY <1>2, <2>2 DEF Linking
    <3>2. ReadsRight(k)
      BY DEF CountInv
    <3>3. reid[k].best \in DOMAIN idents /\ reid[k].read \in IdentityType
      BY <2>2 DEF HandlersInv, Relies, ReidHandler
    <3>4. CASE reid[k].best # i
      BY <1>1, <1>2, <1>4, <2>2, <3>1, <3>2, <3>3, <3>4 DEF ReadsRight
    <3>5. CASE reid[k].best = i
      <4>1. Linking(k, i)
        BY <2>2, <3>5 DEF Linking
      <4>2. i \in contended
        BY <1>5, <2>2, <4>1
      <4>3. reid[k].read.track_count <= Counted(i) + 1
        BY <1>4, <2>2, <3>2, <3>3, <3>5 DEF ReadsRight, IdentityType
      <4>. QED  BY <1>2, <1>4, <3>1, <3>5, <4>2, <4>3 DEF ReadsRight
    <3>. QED  BY <3>4, <3>5
  <2>3. CASE k # l /\ reid[k].pc # "link"
    BY <1>2, <2>3 DEF ReadsRight
  <2>. QED  BY <2>1, <2>2, <2>3
<1>. QED  BY <1>7, <1>8 DEF CountInv

LEMMA CountCreate ==
    ASSUME IInv, OnceInv, CountInv, [Next]_vars, NEW l \in Track, ReidCreate(l)
    PROVE  CountInv'
<1>. USE DEF IInv, HandlerTypes
<1>1. /\ reid[l].pc = "create" /\ links' = links \cup {<<l, l>>} /\ contended' = contended
      /\ DOMAIN idents' = DOMAIN idents \cup {l}
      /\ \A j \in DOMAIN idents : j # l => idents'[j] = idents[j]
      /\ idents'[l].track_count = 1
  BY DEF ReidCreate, NewIdentity
<1>2. <<l, l>> \notin links /\ IsFiniteSet(links) /\ l \notin DOMAIN idents
  BY <1>1 DEF OnceInv
<1>3. Counted(l) = 0
  <2>1. {p \in links : p[2] = l} = {}
    BY <1>2 DEF SeedsInv
  <2>. QED  BY <2>1, FS_EmptySet DEF Counted
<1>4. Counted(l)' = 1 /\ \A j : j # l => Counted(j)' = Counted(j)
  <2>1. Counted(l)' = 0 + 1 /\ \A j : j # l => Counted(j)' = Counted(j)
    BY <1>1, <1>2, <1>3, Counts
  <2>. QED  BY <2>1
<1>5. TrackCountExactUnlessContended'
  <2>1. \A j \in DOMAIN idents : /\ idents[j].track_count <= Counted(j)
                                 /\ j \notin contended => idents[j].track_count = Counted(j)
    BY DEF CountInv, TrackCountExactUnlessContended, Counted
  <2>2. \A j \in DOMAIN idents' : /\ idents'[j].track_count <= Counted(j)'
                                  /\ j \notin contended' => idents'[j].track_count = Counted(j)'
    BY <1>1, <1>2, <1>4, <2>1
  <2>. QED  BY <2>2 DEF TrackCountExactUnlessContended, Counted
<1>6. ASSUME NEW k \in Track PROVE ReadsRight(k)'
  <2>1. reid'[l].pc = "attach" /\ \A q \in Track : q # l => reid'[q] = reid[q]
    <3>1. reid[l] \in [pc : {"match", "create", "attach"}, row : Track, last_seen : Times,
                       identity : Track \cup {NoIdentity}]
      BY <1>1 DEF ReidHandler
    <3>. QED  BY <3>1 DEF ReidCreate, Become
  <2>2. CASE k # l /\ reid[k].pc = "link"
    <3>1. reid'[k] = reid[k] /\ \A q \in Track : \A j : Linking(q, j)' => Linking(q, j)
      BY <2>1, <2>2 DEF Linking
    <3>2. reid[k].best \in DOMAIN idents /\ reid[k].best # l /\ ReadsRight(k)
      BY <1>2, <2>2 DEF HandlersInv, Relies, CountInv
    <3>. QED  BY <1>1, <1>4, <2>2, <3>1, <3>2 DEF ReadsRight
  <2>. QED  BY <2>1, <2>2 DEF ReadsRight
<1>. QED  BY <1>5, <1>6 DEF CountInv

LEMMA CountMatch ==
    ASSUME IInv, CountInv, [Next]_vars, NEW l \in Track, ReidMatch(l)
    PROVE  CountInv'
<1>. USE DEF IInv, HandlerTypes
<1>1. UNCHANGED <<idents, links>> /\ contended \subseteq contended' /\ reid[l].pc = "match"
  BY DEF ReidMatch, tables
<1>2. \A i : Counted(i)' = Counted(i)
  BY <1>1 DEF Counted
<1>3. TrackCountExactUnlessContended'
  BY <1>1 DEF CountInv, TrackCountExactUnlessContended
<1>4. \A q \in Track : q # l => reid'[q] = reid[q]
  BY DEF ReidMatch, Become
<1>5. CASE Become(l, [reid[l] EXCEPT !.pc = "create"])
  <2>1. reid'[l].pc = "create"
    <3>1. reid[l] \in [pc : {"match", "create", "attach"}, row : Track, last_seen : Times,
                       identity : Track \cup {NoIdentity}]
      BY <1>1 DEF ReidHandler
    <3>. QED  BY <1>5, <3>1 DEF Become
  <2>2. \A q \in Track : \A j : Linking(q, j)' => Linking(q, j)
    BY <1>4, <2>1 DEF Linking
  <2>. QED  BY <1>1, <1>2, <1>3, <1>4, <2>1, <2>2 DEF CountInv, ReadsRight
<1>6. ASSUME NEW i \in Best(l, reid[l]),
             Become(l, [pc |-> "link", row |-> reid[l].row, last_seen |-> reid[l].last_seen,
                        identity |-> reid[l].identity, best |-> i, read |-> idents[i]]),
             contended' = contended \cup {j \in {i} : \E k \in Others(l, "link") : reid[k].best = i}
      PROVE  CountInv'
  <2>1. reid'[l].pc = "link" /\ reid'[l].best = i /\ reid'[l].read = idents[i]
    BY <1>6 DEF Become
  <2>2. i \in DOMAIN idents
    BY DEF Best, Gallery
  <2>3. i \notin contended' => \A k \in Track \ {l} : ~Linking(k, i)
    BY <1>6 DEF Linking, Others
  <2>4. \A q \in Track : \A j : Linking(q, j)' => Linking(q, j) \/ (q = l /\ j = i)
    BY <1>4, <2>1 DEF Linking
  <2>5. ReadsRight(l)'
    <3>1. idents[i].track_count <= Counted(i)
      BY <2>2 DEF CountInv, TrackCountExactUnlessContended, Counted
    <3>. QED  BY <1>1, <1>2, <2>1, <2>3, <2>4, <3>1 DEF ReadsRight
  <2>6. ASSUME NEW k \in Track, k # l PROVE ReadsRight(k)'
    <3>1. reid'[k] = reid[k] /\ ReadsRight(k)
      BY <1>4, <2>6 DEF CountInv
    <3>2. CASE reid[k].pc = "link" /\ reid[k].best = i
      <4>1. i \in contended'
        BY <2>3, <2>6, <3>2 DEF Linking
      <4>. QED  BY <1>2, <3>1, <3>2, <4>1 DEF ReadsRight
    <3>3. CASE ~(reid[k].pc = "link" /\ reid[k].best = i)
      BY <1>1, <1>2, <2>4, <3>1, <3>3 DEF ReadsRight
    <3>. QED  BY <3>2, <3>3
  <2>. QED  BY <1>3, <2>5, <2>6 DEF CountInv
<1>. QED  BY <1>5, <1>6 DEF ReidMatch

LEMMA CountStep == IInv /\ OnceInv /\ CountInv /\ [Next]_vars => CountInv'
<1>. SUFFICES ASSUME IInv, OnceInv, CountInv, [Next]_vars PROVE CountInv'
  OBVIOUS
<1>1. CASE ~\E l \in Track : ReidMatch(l) \/ ReidLink(l) \/ ReidCreate(l)
  <2>1. UNCHANGED <<idents, links, contended>>
    BY <1>1, Quiet DEF history
  <2>2. \A l \in Track : reid'[l].pc = "link" => reid'[l] = reid[l]
    BY <1>1, Moves
  <2>3. \A q \in Track : \A j : Linking(q, j)' => Linking(q, j)
    BY <2>2 DEF Linking
  <2>4. \A i : Counted(i)' = Counted(i)
    BY <2>1 DEF Counted
  <2>5. TrackCountExactUnlessContended'
    BY <2>1 DEF CountInv, TrackCountExactUnlessContended
  <2>6. ASSUME NEW l \in Track, reid'[l].pc = "link" PROVE ReadsRight(l)'
    <3>1. reid'[l] = reid[l] /\ ReadsRight(l)
      BY <2>2, <2>6 DEF CountInv
    <3>. QED  BY <2>1, <2>3, <2>4, <2>6, <3>1 DEF ReadsRight
  <2>7. \A l \in Track : reid'[l].pc # "link" => ReadsRight(l)'
    BY DEF ReadsRight
  <2>. QED  BY <2>5, <2>6, <2>7 DEF CountInv
<1>. QED  BY <1>1, CountMatch, CountLink, CountCreate

LEMMA CountsHold == Spec => [](IInv /\ OnceInv /\ CountInv)
<1>1. Init => CountInv
  BY DEF Init, CountInv, TrackCountExactUnlessContended, ReadsRight, Idle
<1>. QED  BY <1>1, CountStep, Once, PTL DEF Spec

\* An identity's track_count never exceeds the tracks linked to it, and is their number
\* unless two handlers were linking to it at the same time.
THEOREM CountsAreExact == Spec => []TrackCountExactUnlessContended
<1>1. CountInv => TrackCountExactUnlessContended
  BY DEF CountInv
<1>. QED  BY <1>1, CountsHold, PTL

\* An identity's last_seen never goes back unless two handlers were linking to it.
THEOREM ClocksAdvance == Spec => LastSeenAdvances
<1>1. IInv /\ OnceInv /\ CountInv /\ [Next]_vars =>
          [\A i \in DOMAIN idents : i \notin contended =>
               idents'[i].last_seen >= idents[i].last_seen]_vars
  <2>. SUFFICES ASSUME IInv, OnceInv, CountInv, [Next]_vars, NEW i \in DOMAIN idents, i \notin contended
                PROVE  idents'[i].last_seen >= idents[i].last_seen
    OBVIOUS
  <2>1. idents[i].last_seen \in Nat
    BY TimesAreNumbers DEF IInv, HandlerTypes, TypeOK, IdentityType
  <2>2. CASE idents'[i] = idents[i]
    BY <2>1, <2>2
  <2>3. ASSUME NEW l \in Track, ReidLink(l) PROVE idents'[i].last_seen >= idents[i].last_seen
    <3>1. CASE reid[l].best # i
      BY <2>2, <2>3, <3>1, LinkWrites
    <3>2. CASE reid[l].best = i
      <4>1. /\ reid[l].pc = "link" /\ reid[l].last_seen \in Nat
            /\ idents'[i].last_seen = IF reid[l].last_seen > reid[l].read.last_seen
                                      THEN reid[l].last_seen ELSE idents[i].last_seen
        BY <2>3, <3>2, LinkWrites, TimesAreNumbers DEF ReidLink
      <4>2. reid[l].read.last_seen = idents[i].last_seen
        BY <3>2, <4>1 DEF CountInv, ReadsRight
      <4>. QED  BY <2>1, <4>1, <4>2
    <3>. QED  BY <3>1, <3>2
  <2>4. ASSUME NEW l \in Track, ReidCreate(l) PROVE idents'[i] = idents[i]
    <3>1. l \notin DOMAIN idents
      BY <2>4 DEF ReidCreate, OnceInv
    <3>. QED  BY <2>4, <3>1 DEF ReidCreate
  <2>5. CASE idents' = idents
    BY <2>2, <2>5
  <2>6. idents' = idents \/ \E l \in Track : ReidLink(l) \/ ReidCreate(l)
    BY Quiet DEF ReidMatch, tables
  <2>. QED  BY <2>2, <2>3, <2>4, <2>5, <2>6
<1>. QED  BY <1>1, CountsHold, PTL DEF LastSeenAdvances, Spec

-----------------------------------------------------------------------------
(* A row for each track, in its own journey                                *)

\* No camera gives a track_id twice, as while no worker restarts.
DistinctKeys == \A k, l \in Track : Key(k) = Key(l) => k = l

OwnRow(l) ==
    /\ track[l].pc = "commit" => track[l].row = l
    /\ track[l].pc = "200" => l \in DOMAIN rows
    /\ reid[l].pc \in {"match", "create", "attach", "link"} => reid[l].row = l
    /\ reid[l].pc = "attach" => <<l, l>> \in links

\* Every row is that of the track it was inserted for, and is in no other's journey.
RowsInv ==
    /\ \A r \in DOMAIN rows :
          /\ rows[r].key = Key(r) /\ rows[r].holds = r
          /\ rows[r].identity # NoIdentity => <<r, rows[r].identity>> \in links
    /\ \A l \in Track : OwnRow(l)

LEMMA RowsOfOne ==
    ASSUME DistinctKeys, HandlerTypes, RowsInv, NEW l \in Track, NEW r \in RowsOf(l)
    PROVE  r = l /\ l \in DOMAIN rows
<1>1. r \in DOMAIN rows /\ r \in Track /\ rows[r].key = Key(l) /\ rows[r].key = Key(r)
  BY DEF HandlerTypes, TypeOK, RowsOf, RowsInv
<1>. QED  BY <1>1 DEF DistinctKeys

\* A step that writes no row, and moves no handler to one that is not its own.
LEMMA RowsKept ==
    ASSUME RowsInv, rows' = rows, links \subseteq links',
           \A l \in Track : OwnRow(l) => OwnRow(l)'
    PROVE  RowsInv'
BY DEF RowsInv

\* One that writes the row of one track.
LEMMA RowWritten ==
    ASSUME RowsInv, NEW l \in Track, links \subseteq links',
           DOMAIN rows' = DOMAIN rows \cup {l}, \A r \in DOMAIN rows : r # l => rows'[r] = rows[r],
           rows'[l].key = Key(l), rows'[l].holds = l,
           rows'[l].identity # NoIdentity => <<l, rows'[l].identity>> \in links',
           \A k \in Track : OwnRow(k) => OwnRow(k)'
    PROVE  RowsInv'
BY DEF RowsInv

LEMMA RowsStep == ASSUME DistinctKeys PROVE IInv /\ RowsInv /\ [Next]_vars => RowsInv'
<1>. SUFFICES ASSUME IInv, RowsInv, [Next]_vars PROVE RowsInv'
  OBVIOUS
<1>. USE DEF IInv, HandlerTypes
<1>1. CASE UNCHANGED vars
  BY <1>1, RowsKept DEF vars, tables, history, OwnRow
<1>2. CASE BackendCrash
  <2>1. /\ UNCHANGED <<rows, links>>
        /\ \A l \in Track : /\ track'[l] = track[l] \/ track'[l].pc = "dead"
                            /\ reid'[l] = reid[l] \/ reid'[l].pc = "dead"
    BY <1>2 DEF BackendCrash, tables, history
  <2>. QED  BY <2>1, RowsKept DEF OwnRow
<1>3. ASSUME NEW c \in Cameras, Worker(c) \/ Failure(c) PROVE RowsInv'
  <2>1. /\ UNCHANGED <<rows, links>>
        /\ \A l \in Track : /\ track'[l] = track[l] \/ track'[l].pc = "select"
                            /\ reid'[l] = reid[l] \/ reid'[l].pc = "store"
    BY <1>3 DEF Worker, Failure, PostTrack, TrackAnswered, NothingToMatch, PostReid, ReidAnswered,
                TrackPostFails, ReidPostFails, tables, history
  <2>. QED  BY <2>1, RowsKept DEF OwnRow
<1>4. ASSUME NEW l \in Track, TrackSelect(l) PROVE RowsInv'
  <2>1. /\ UNCHANGED <<rows, links, reid>>
        /\ \A k \in Track \ {l} : track'[k] = track[k]
        /\ \E r \in RowsOf(l) \cup {l} : track'[l] = [pc |-> "commit", row |-> r]
    BY <1>4 DEF TrackSelect, tables, history
  <2>2. track'[l].pc = "commit" /\ track'[l].row = l
    BY <2>1, RowsOfOne
  <2>. QED  BY <2>1, <2>2, RowsKept DEF OwnRow
<1>5. ASSUME NEW l \in Track, TrackCommit(l) PROVE RowsInv'
  <2>. DEFINE insert == [key |-> Key(l), holds |-> l, embedding |-> None, identity |-> NoIdentity]
  <2>1. track[l].row = l
    BY <1>5 DEF TrackCommit, RowsInv, OwnRow
  <2>2. rows' = [q \in DOMAIN rows \cup {l} |->
                    IF q # l THEN rows[q]
                    ELSE IF l \in DOMAIN rows THEN [rows[l] EXCEPT !.holds = l] ELSE insert]
    BY <1>5, <2>1 DEF TrackCommit
  <2>3. l \in DOMAIN rows => /\ rows[l] \in RowType /\ rows[l].key = Key(l)
                             /\ rows[l].identity # NoIdentity => <<l, rows[l].identity>> \in links
    BY DEF TypeOK, RowsInv
  <2>4. \A w \in RowType : /\ [w EXCEPT !.holds = l].key = w.key /\ [w EXCEPT !.holds = l].holds = l
                           /\ [w EXCEPT !.holds = l].identity = w.identity
    BY DEF RowType
  <2>5. insert.key = Key(l) /\ insert.holds = l /\ insert.identity = NoIdentity
    OBVIOUS
  <2>. HIDE DEF insert
  <2>6. /\ DOMAIN rows' = DOMAIN rows \cup {l} /\ \A r \in DOMAIN rows : r # l => rows'[r] = rows[r]
        /\ rows'[l] = IF l \in DOMAIN rows THEN [rows[l] EXCEPT !.holds = l] ELSE insert
    BY <2>2
  <2>7. /\ rows'[l].key = Key(l) /\ rows'[l].holds = l
        /\ rows'[l].identity # NoIdentity => <<l, rows'[l].identity>> \in links
    BY <2>3, <2>4, <2>5, <2>6
  <2>8. UNCHANGED <<links, reid>> /\ track' = [track EXCEPT ![l] = [pc |-> "200"]]
    BY <1>5 DEF TrackCommit, history
  <2>9. \A k \in Track : OwnRow(k) => OwnRow(k)'
    BY <2>6, <2>8 DEF OwnRow
  <2>. QED  BY <2>6, <2>7, <2>8, <2>9, RowWritten
<1>6. ASSUME NEW l \in Track, ReidStore(l) PROVE RowsInv'
  <2>1. UNCHANGED <<track, links>>
    BY <1>6 DEF ReidStore, history
  <2>2. CASE Become(l, [pc |-> "404"]) /\ UNCHANGED rows
    <3>1. \A k \in Track : OwnRow(k) => OwnRow(k)'
      BY <2>1, <2>2 DEF Become, OwnRow
    <3>. QED  BY <2>1, <2>2, <3>1, RowsKept
  <2>3. ASSUME NEW r \in RowsOf(l), rows' = WithEmbedding(r, l),
               Become(l, [pc |-> "match", row |-> r, last_seen |-> LastSeen(r),
                          identity |-> rows[r].identity])
        PROVE  RowsInv'
    <3>1. r = l /\ l \in DOMAIN rows /\ rows[l] \in RowType
      BY RowsOfOne DEF TypeOK
    <3>2. reid'[l].pc = "match" /\ reid'[l].row = l /\ \A k \in Track \ {l} : reid'[k] = reid[k]
      BY <2>3, <3>1 DEF Become
    <3>3. rows' = [rows EXCEPT ![l] = [rows[l] EXCEPT !.embedding = Of(l).look]]
      BY <2>3, <3>1 DEF WithEmbedding
    <3>4. \A w \in RowType : \A e : LET v == [w EXCEPT !.embedding = e]
                                    IN  v.key = w.key /\ v.holds = w.holds /\ v.identity = w.identity
      BY DEF RowType
    <3>5. /\ DOMAIN rows' = DOMAIN rows \cup {l} /\ \A q \in DOMAIN rows : q # l => rows'[q] = rows[q]
          /\ rows'[l].key = rows[l].key /\ rows'[l].holds = rows[l].holds
          /\ rows'[l].identity = rows[l].identity
      BY <3>1, <3>3, <3>4
    <3>6. \A k \in Track : OwnRow(k) => OwnRow(k)'
      BY <2>1, <3>2, <3>5 DEF OwnRow
    <3>7. rows[l].key = Key(l) /\ rows[l].holds = l
          /\ (rows[l].identity # NoIdentity => <<l, rows[l].identity>> \in links)
      BY <3>1 DEF RowsInv
    <3>. QED  BY <2>1, <3>5, <3>6, <3>7, RowWritten
  <2>. QED  BY <1>6, <2>2, <2>3 DEF ReidStore
<1>7. ASSUME NEW l \in Track, ReidMatch(l) PROVE RowsInv'
  <2>1. UNCHANGED <<rows, track, links>> /\ reid[l].row = l /\ \A k \in Track \ {l} : reid'[k] = reid[k]
    BY <1>7 DEF ReidMatch, tables, Become, RowsInv, OwnRow
  <2>2. reid'[l].pc \in {"create", "link"} /\ reid'[l].row = l
    <3>1. reid[l] \in [pc : {"match", "create", "attach"}, row : Track, last_seen : Times,
                       identity : Track \cup {NoIdentity}]
      BY <1>7 DEF ReidMatch, ReidHandler
    <3>2. CASE Become(l, [reid[l] EXCEPT !.pc = "create"])
      BY <2>1, <3>1, <3>2 DEF Become
    <3>3. ASSUME NEW i, Become(l, [pc |-> "link", row |-> reid[l].row, last_seen |-> reid[l].last_seen,
                        identity |-> reid[l].identity, best |-> i, read |-> idents[i]])
          PROVE  reid'[l].pc \in {"create", "link"} /\ reid'[l].row = l
      BY <2>1, <3>3 DEF Become
    <3>. QED  BY <1>7, <3>2, <3>3 DEF ReidMatch
  <2>. QED  BY <2>1, <2>2, RowsKept DEF OwnRow
<1>8. ASSUME NEW l \in Track, ReidLink(l) PROVE RowsInv'
  <2>1. /\ reid[l].pc = "link" /\ reid[l].row = l /\ l \in DOMAIN rows
        /\ links' = links \cup {<<l, reid[l].best>>} /\ UNCHANGED track
        /\ reid' = [reid EXCEPT ![l] = [pc |-> "200"]]
    BY <1>8 DEF ReidLink, Become, RowsInv, OwnRow, HandlersInv, Relies
  <2>2. \A k \in Track : OwnRow(k) => (DOMAIN rows' = DOMAIN rows => OwnRow(k)')
    BY <2>1 DEF OwnRow
  <2>3. CASE rows' = rows
    BY <2>1, <2>2, <2>3, RowsKept
  <2>4. CASE rows' = [rows EXCEPT ![l].identity = reid[l].best]
    <3>1. rows[l] \in RowType
      BY <2>1 DEF TypeOK
    <3>2. \A w \in RowType : \A i : LET v == [w EXCEPT !.identity = i]
                                    IN  v.key = w.key /\ v.holds = w.holds /\ v.identity = i
      BY DEF RowType
    <3>3. /\ DOMAIN rows' = DOMAIN rows /\ \A q \in DOMAIN rows : q # l => rows'[q] = rows[q]
          /\ rows'[l] = [rows[l] EXCEPT !.identity = reid[l].best]
      BY <2>1, <2>4
    <3>4. /\ rows'[l].key = rows[l].key /\ rows'[l].holds = rows[l].holds
          /\ rows'[l].identity = reid[l].best
      BY <3>1, <3>2, <3>3
    <3>5. rows[l].key = Key(l) /\ rows[l].holds = l
      BY <2>1 DEF RowsInv
    <3>6. DOMAIN rows' = DOMAIN rows \cup {l} /\ <<l, rows'[l].identity>> \in links'
      BY <2>1, <3>3, <3>4
    <3>. QED  BY <2>1, <2>2, <3>3, <3>4, <3>5, <3>6, RowWritten
  <2>. QED  BY <1>8, <2>1, <2>3, <2>4 DEF ReidLink
<1>9. ASSUME NEW l \in Track, ReidCreate(l) PROVE RowsInv'
  <2>1. UNCHANGED <<rows, track>> /\ links' = links \cup {<<l, l>>} /\ reid[l].row = l
    BY <1>9 DEF ReidCreate, RowsInv, OwnRow
  <2>2. reid'[l].pc = "attach" /\ reid'[l].row = l /\ \A k \in Track \ {l} : reid'[k] = reid[k]
    <3>1. reid[l] \in [pc : {"match", "create", "attach"}, row : Track, last_seen : Times,
                       identity : Track \cup {NoIdentity}]
      BY <1>9 DEF ReidCreate, ReidHandler
    <3>. QED  BY <1>9, <2>1, <3>1 DEF ReidCreate, Become
  <2>3. \A k \in Track : OwnRow(k) => OwnRow(k)'
    BY <2>1, <2>2 DEF OwnRow
  <2>. QED  BY <2>1, <2>3, RowsKept
<1>10. ASSUME NEW l \in Track, ReidAttach(l) PROVE RowsInv'
  <2>1. /\ reid[l].pc = "attach" /\ reid[l].row = l /\ l \in DOMAIN rows /\ <<l, l>> \in links
        /\ UNCHANGED <<links, track>> /\ reid' = [reid EXCEPT ![l] = [pc |-> "200"]]
    BY <1>10 DEF ReidAttach, Become, RowsInv, OwnRow, HandlersInv, Relies, history
  <2>2. rows[l] \in RowType /\ rows[l].key = Key(l) /\ rows[l].holds = l
    BY <2>1 DEF TypeOK, RowsInv
  <2>3. rows' = [rows EXCEPT ![l] = [rows[l] EXCEPT !.identity = l]]
    BY <1>10, <2>1 DEF ReidAttach
  <2>4. /\ DOMAIN rows' = DOMAIN rows /\ \A q \in DOMAIN rows : q # l => rows'[q] = rows[q]
        /\ rows'[l] = [rows[l] EXCEPT !.identity = l]
    BY <2>1, <2>3
  <2>5. rows'[l].key = Key(l) /\ rows'[l].holds = l /\ rows'[l].identity = l
    <3>1. \A w \in RowType : LET v == [w EXCEPT !.identity = l]
                             IN  v.key = w.key /\ v.holds = w.holds /\ v.identity = l
      BY DEF RowType
    <3>. QED  BY <2>2, <2>4, <3>1
  <2>6. \A k \in Track : OwnRow(k) => OwnRow(k)'
    BY <2>1, <2>4 DEF OwnRow
  <2>7. DOMAIN rows' = DOMAIN rows \cup {l} /\ <<l, rows'[l].identity>> \in links'
    BY <2>1, <2>4, <2>5
  <2>. QED  BY <2>1, <2>2, <2>4, <2>5, <2>6, <2>7, RowWritten
<1>. QED  BY <1>1, <1>2, <1>3, <1>4, <1>5, <1>6, <1>7, <1>8, <1>9, <1>10 DEF Next, Handlers

\* The two tables, each track and each identity for itself: a stored track has exactly one
\* row, a journey shows only tracks matched to it, the counts are exact and the clocks
\* advance, except where two handlers linked to one identity at once.
THEOREM TablesExact ==
    ASSUME DistinctKeys
    PROVE  Spec => TablesExactUnlessContended
<1>1. Init => RowsInv
  BY DEF Init, RowsInv, OwnRow, Idle
<1>2. Spec => []RowsInv
  BY <1>1, RowsStep, Invariant, PTL DEF Spec
<1>3. RowsInv => JourneyShowsOwnTracks
  <2>1. \A i \in Track : i # NoIdentity
    BY DEF Track, NoIdentity
  <2>. QED  BY <2>1 DEF RowsInv, JourneyShowsOwnTracks, get_identity_journey
<1>4. RowsInv => OneRowPerTrack
  <2>. SUFFICES ASSUME RowsInv, NEW l \in Track, track[l].pc = "200"
                PROVE  Cardinality({r \in DOMAIN rows : rows[r].holds = l}) = 1
    BY DEF OneRowPerTrack
  <2>1. {r \in DOMAIN rows : rows[r].holds = l} = {l}
    BY DEF RowsInv, OwnRow
  <2>. QED  BY <2>1, FS_Singleton
<1>. QED  BY <1>2, <1>3, <1>4, CountsAreExact, ClocksAdvance, PTL DEF TablesExactUnlessContended

-----------------------------------------------------------------------------
(* Two identities for one appearance                                       *)

\* A finite set has a member of the highest value: the best match is found.
LEMMA HighestExists ==
    ASSUME NEW S, IsFiniteSet(S), S # {}, NEW f \in [S -> Int]
    PROVE  \E x \in S : \A y \in S : f[x] >= f[y]
<1>. DEFINE Has(T) == \E x \in T : \A y \in T : f[x] >= f[y]
            Bad    == {T \in SUBSET S : T # {} /\ ~Has(T)}
            Sizes  == {Cardinality(T) : T \in Bad}
<1>. SUFFICES ASSUME S \in Bad PROVE FALSE
  OBVIOUS
<1>1. \A T \in Bad : IsFiniteSet(T) /\ Cardinality(T) \in Nat
  BY FS_Subset, FS_CardinalityType
<1>2. PICK T \in Bad : \A U \in Bad : Cardinality(T) <= Cardinality(U)
  <2>. DEFINE Below == {p \in Nat \X Nat : p[1] < p[2]}
  <2>1. IsWellFoundedOn(Below, Nat)
    BY NatLessThanWellFounded DEF OpToRel
  <2>2. Sizes \in SUBSET Nat /\ Sizes # {}
    BY <1>1
  <2>3. \E n \in Sizes : \A m \in Sizes : <<m, n>> \notin Below
    <3>. HIDE DEF Below, Sizes
    <3>. QED  BY <2>1, <2>2, WFMin
  <2>4. \A m, n \in Nat : <<m, n>> \notin Below => n <= m
    OBVIOUS
  <2>. HIDE DEF Below, Bad
  <2>. QED  BY <2>2, <2>3, <2>4
<1>3. PICK x \in T : TRUE
  OBVIOUS
<1>. DEFINE R == T \ {x}
<1>4. Cardinality(R) = Cardinality(T) - 1
  BY <1>1, FS_RemoveElement
<1>5. R \notin Bad
  <2>. HIDE DEF Bad, R
  <2>. QED  BY <1>1, <1>2, <1>4
<1>6. CASE R = {}
  <2>1. \A y \in T : y = x /\ f[x] \in Int
    BY <1>6
  <2>. QED  BY <2>1
<1>7. CASE R # {}
  <2>1. PICK m \in R : \A y \in R : f[m] >= f[y]
    BY <1>5, <1>7
  <2>2. \A y \in T : (y = x \/ y \in R) /\ f[y] \in Int
    OBVIOUS
  <2>3. CASE f[m] >= f[x]
    <3>1. \A y \in T : f[m] >= f[y]
      BY <2>1, <2>2, <2>3
    <3>. QED  BY <3>1
  <2>4. CASE ~(f[m] >= f[x])
    <3>1. m \in T /\ \A y \in T : f[x] >= f[y]
      BY <2>1, <2>2, <2>4
    <3>. QED  BY <3>1
  <2>. QED  BY <2>3, <2>4
<1>. QED  BY <1>6, <1>7

\* An identity is inserted, or about to be, for l; and when l was last seen.
Decided(l) == l \in DOMAIN idents \/ reid[l].pc = "create"
When(l)    == IF l \in DOMAIN idents THEN idents[l].first_seen ELSE reid[l].last_seen

Alike(i, j)  == Score(Of(i).look, Of(j).look) >= Threshold
Missed(i, j) == i \in blind[j] \/ j \in blind[i]

\* An identity stays in the gallery at least as long as its first track would keep it.
SeenFrom ==
    /\ \A i \in DOMAIN idents : idents[i].first_seen <= idents[i].last_seen
    /\ \A l \in Track : reid[l].pc = "link" =>
           idents[reid[l].best].first_seen <= reid[l].read.last_seen

DuplicatesInv ==
    /\ blind \in [Track -> SUBSET Track]
    /\ SeenFrom
    /\ \A i, j \in Track :
          (/\ i # j /\ Decided(i) /\ Decided(j) /\ Alike(i, j)
           /\ When(j) - When(i) \in -Ttl+1 .. Ttl-1) => Missed(i, j)

LEMMA WhenIsTime ==
    ASSUME IInv, NEW l \in Track, Decided(l)
    PROVE  When(l) \in Nat
<1>. USE DEF IInv, HandlerTypes
<1>1. CASE l \in DOMAIN idents
  BY <1>1, TimesAreNumbers DEF When, TypeOK, IdentityType
<1>2. CASE l \notin DOMAIN idents /\ reid[l].pc = "create"
  BY <1>2, TimesAreNumbers DEF When, ReidHandler
<1>. QED  BY <1>1, <1>2 DEF Decided

\* A handler that finds no match: every identity that looks like its track was last seen
\* too long before.
LEMMA NoMatch ==
    ASSUME IInv, OnceInv, NEW l \in Track, Best(l, reid[l]) = {}, NEW i \in DOMAIN idents,
           Alike(l, i), reid[l].last_seen \in Nat
    PROVE  idents[i].last_seen <= reid[l].last_seen - Ttl
<1>. USE DEF IInv, HandlerTypes
<1>. DEFINE h == reid[l]
            G == Gallery(h)
<1>1. idents[i].last_seen \in Nat /\ Ttl \in Nat /\ h.last_seen \in Nat
  BY TimesAreNumbers, ReidAssumption DEF TypeOK, IdentityType
<1>2. SUFFICES ASSUME i \in G PROVE FALSE
  BY <1>1 DEF Gallery
<1>3. IsFiniteSet(G) /\ G # {}
  BY <1>2, FS_Subset DEF OnceInv, Gallery
<1>. DEFINE f == [j \in G |-> Scored(l, j)]
<1>4. f \in [G -> Int]
  <2>1. \A j \in G : idents[j].embedding \in Looks
    BY DEF Gallery, TypeOK, IdentityType
  <2>. QED  BY <2>1, TrackFields, ReidAssumption DEF Scored
<1>5. PICK b \in G : \A j \in G : f[b] >= f[j]
  <2>. HIDE DEF G, f
  <2>. QED  BY <1>3, <1>4, HighestExists
<1>6. \A j \in G : Scored(l, b) >= Scored(l, j)
  BY <1>5
<1>7. Scored(l, i) >= Threshold
  BY DEF Scored, SeedsInv, Alike
<1>8. Scored(l, b) \in Int /\ Scored(l, i) \in Int /\ Threshold \in Int
  BY <1>2, <1>4, ReidAssumption
<1>9. Scored(l, b) >= Threshold
  BY <1>2, <1>6, <1>7, <1>8
<1>. QED  BY <1>6, <1>9 DEF Best

LEMMA SeenFromStep == IInv /\ OnceInv /\ SeenFrom /\ [Next]_vars => SeenFrom'
<1>. SUFFICES ASSUME IInv, OnceInv, SeenFrom, [Next]_vars PROVE SeenFrom'
  OBVIOUS
<1>. USE DEF IInv, HandlerTypes
<1>1. CASE ~\E l \in Track : ReidMatch(l) \/ ReidLink(l) \/ ReidCreate(l)
  <2>1. idents' = idents /\ \A l \in Track : reid'[l].pc = "link" => reid'[l] = reid[l]
    BY <1>1, Quiet, Moves
  <2>. QED  BY <2>1 DEF SeenFrom
<1>2. ASSUME NEW l \in Track, ReidMatch(l) PROVE SeenFrom'
  <2>1. idents' = idents /\ reid[l].pc = "match" /\ \A k \in Track \ {l} : reid'[k] = reid[k]
    BY <1>2 DEF ReidMatch, tables, Become
  <2>2. reid'[l].pc = "create" \/ \E i \in DOMAIN idents : reid'[l].best = i /\ reid'[l].read = idents[i]
    <3>1. CASE Become(l, [reid[l] EXCEPT !.pc = "create"])
      <4>1. reid[l] \in [pc : {"match", "create", "attach"}, row : Track, last_seen : Times,
                         identity : Track \cup {NoIdentity}]
        BY <2>1 DEF ReidHandler
      <4>. QED  BY <3>1, <4>1 DEF Become
    <3>2. ASSUME NEW i \in Best(l, reid[l]), Become(l, [pc |-> "link", row |-> reid[l].row,
                        last_seen |-> reid[l].last_seen, identity |-> reid[l].identity,
                        best |-> i, read |-> idents[i]])
          PROVE  \E j \in DOMAIN idents : reid'[l].best = j /\ reid'[l].read = idents[j]
      BY <3>2 DEF Become, Best, Gallery
    <3>. QED  BY <1>2, <3>1, <3>2 DEF ReidMatch
  <2>. QED  BY <2>1, <2>2 DEF SeenFrom
<1>3. ASSUME NEW l \in Track, ReidLink(l) PROVE SeenFrom'
  <2>. SUFFICES ASSUME NEW h, h = reid[l], NEW i, i = reid[l].best PROVE SeenFrom'
    OBVIOUS
  <2>1. /\ h.pc = "link" /\ i \in DOMAIN idents /\ DOMAIN idents' = DOMAIN idents
        /\ \A j \in DOMAIN idents : j # i => idents'[j] = idents[j]
        /\ idents'[i].first_seen = idents[i].first_seen
        /\ idents'[i].last_seen = IF h.last_seen > h.read.last_seen THEN h.last_seen
                                  ELSE idents[i].last_seen
        /\ h.last_seen \in Nat /\ h.read.last_seen \in Nat
        /\ idents[i].first_seen \in Nat /\ idents[i].last_seen \in Nat
    BY <1>3, LinkWrites, TimesAreNumbers DEF ReidLink, TypeOK, IdentityType
  <2>2. idents[i].first_seen <= idents[i].last_seen /\ idents[i].first_seen <= h.read.last_seen
    BY <2>1 DEF SeenFrom
  <2>3. \A j \in DOMAIN idents' : /\ idents'[j].first_seen = idents[j].first_seen
                                  /\ idents'[j].first_seen <= idents'[j].last_seen
    BY <2>1, <2>2 DEF SeenFrom
  <2>4. \A k \in Track : reid'[k].pc = "link" =>
            reid'[k] = reid[k] /\ reid[k].best \in DOMAIN idents'
    BY <1>3, <2>1 DEF ReidLink, Become, HandlersInv, Relies
  <2>. QED  BY <2>3, <2>4 DEF SeenFrom
<1>4. ASSUME NEW l \in Track, ReidCreate(l) PROVE SeenFrom'
  <2>1. /\ l \notin DOMAIN idents /\ DOMAIN idents' = DOMAIN idents \cup {l}
        /\ \A i \in DOMAIN idents : idents'[i] = idents[i]
        /\ idents'[l].first_seen = reid[l].last_seen /\ idents'[l].last_seen = reid[l].last_seen
    BY <1>4 DEF ReidCreate, OnceInv, NewIdentity
  <2>2. reid[l].last_seen \in Nat
    BY <1>4, TimesAreNumbers DEF ReidCreate, ReidHandler
  <2>3. \A k \in Track : reid'[k].pc = "link" => reid'[k] = reid[k] /\ reid[k].best \in DOMAIN idents
    <3>1. \A k \in Track : reid'[k].pc = "link" => reid'[k] = reid[k]
      <4>1. reid[l] \in [pc : {"match", "create", "attach"}, row : Track, last_seen : Times,
                         identity : Track \cup {NoIdentity}]
        BY <1>4 DEF ReidCreate, ReidHandler
      <4>. QED  BY <1>4, <4>1 DEF ReidCreate, Become
    <3>. QED  BY <3>1 DEF HandlersInv, Relies
  <2>. QED  BY <2>1, <2>2, <2>3 DEF SeenFrom
<1>. QED  BY <1>1, <1>2, <1>3, <1>4

\* A step that decides no new identity.
LEMMA NoneDecided ==
    ASSUME DuplicatesInv, SeenFrom', blind' = blind,
           \A l \in Track : Decided(l)' => Decided(l) /\ When(l)' = When(l)
    PROVE  DuplicatesInv'
BY DEF DuplicatesInv, Missed

LEMMA Deciding ==
    ASSUME IInv, OnceInv, DuplicatesInv, [Next]_vars, NEW l \in Track, ReidMatch(l),
           Best(l, reid[l]) = {}, Become(l, [reid[l] EXCEPT !.pc = "create"]),
           blind' = [blind EXCEPT ![l] = Others(l, "create")], SeenFrom'
    PROVE  DuplicatesInv'
<1>. USE DEF IInv, HandlerTypes
<1>1. /\ idents' = idents /\ reid[l].pc = "match" /\ \A k \in Track \ {l} : reid'[k] = reid[k]
      /\ l \notin DOMAIN idents
  BY DEF ReidMatch, tables, Become, OnceInv
<1>2. reid'[l].pc = "create" /\ reid'[l].last_seen = reid[l].last_seen /\ reid[l].last_seen \in Nat
  <2>1. reid[l] \in [pc : {"match", "create", "attach"}, row : Track, last_seen : Times,
                     identity : Track \cup {NoIdentity}]
    BY <1>1 DEF ReidHandler
  <2>. QED  BY <2>1, TimesAreNumbers DEF Become
<1>3. /\ blind' \in [Track -> SUBSET Track] /\ blind'[l] = Others(l, "create")
      /\ \A k \in Track \ {l} : blind'[k] = blind[k]
  BY DEF DuplicatesInv, Others
<1>4. /\ Decided(l)' /\ When(l)' = reid[l].last_seen
      /\ \A k \in Track \ {l} : Decided(k)' = Decided(k) /\ When(k)' = When(k)
  BY <1>1, <1>2 DEF Decided, When
\* Whoever decided before is seen by l, is too old for it, or is still inserting.
<1>5. ASSUME NEW i \in Track \ {l}, Decided(i), Alike(l, i),
             reid[l].last_seen - When(i) \in -Ttl+1 .. Ttl-1
      PROVE  i \in blind'[l]
  <2>1. CASE i \in DOMAIN idents
    <3>1. idents[i].last_seen <= reid[l].last_seen - Ttl
      BY <1>2, <1>5, <2>1, NoMatch
    <3>2. When(i) <= idents[i].last_seen
      BY <2>1 DEF When, DuplicatesInv, SeenFrom
    <3>3. When(i) \in Nat /\ idents[i].last_seen \in Nat /\ Ttl \in Nat
      BY <1>5, <2>1, WhenIsTime, TimesAreNumbers, ReidAssumption DEF TypeOK, IdentityType
    <3>. QED  BY <1>2, <1>5, <3>1, <3>2, <3>3
  <2>2. CASE i \notin DOMAIN idents
    BY <1>3, <1>5, <2>2 DEF Decided, Others
  <2>. QED  BY <2>1, <2>2
<1>6. \A i, j \in Track : Alike(i, j) => Alike(j, i)
  BY TrackFields, ReidAssumption DEF Alike
<1>7. ASSUME NEW i \in Track, NEW j \in Track, i # j, Decided(i)', Decided(j)', Alike(i, j),
             When(j)' - When(i)' \in -Ttl+1 .. Ttl-1
      PROVE  Missed(i, j)'
  <2>1. CASE j = l
    <3>1. Decided(i) /\ Alike(l, i) /\ reid[l].last_seen - When(i) \in -Ttl+1 .. Ttl-1
      BY <1>4, <1>6, <1>7, <2>1
    <3>. QED  BY <1>5, <1>7, <2>1, <3>1 DEF Missed
  <2>2. CASE i = l
    <3>1. Decided(j) /\ Alike(l, j) /\ When(j) \in Nat
      BY <1>4, <1>7, <2>2, WhenIsTime
    <3>2. When(j) - reid[l].last_seen \in -Ttl+1 .. Ttl-1
      BY <1>4, <1>7, <2>2
    <3>3. reid[l].last_seen - When(j) \in -Ttl+1 .. Ttl-1
      BY <1>2, <3>1, <3>2, ReidAssumption
    <3>. QED  BY <1>5, <1>7, <2>2, <3>1, <3>3 DEF Missed
  <2>3. CASE i # l /\ j # l
    <3>1. Missed(i, j)
      BY <1>4, <1>7, <2>3 DEF DuplicatesInv
    <3>. QED  BY <1>3, <2>3, <3>1 DEF Missed
  <2>. QED  BY <2>1, <2>2, <2>3
<1>. QED  BY <1>3, <1>7 DEF DuplicatesInv, Alike

LEMMA DuplicatesStep == IInv /\ OnceInv /\ DuplicatesInv /\ [Next]_vars => DuplicatesInv'
<1>. SUFFICES ASSUME IInv, OnceInv, DuplicatesInv, [Next]_vars PROVE DuplicatesInv'
  OBVIOUS
<1>. USE DEF IInv, HandlerTypes
<1>1. SeenFrom'
  BY SeenFromStep DEF DuplicatesInv
<1>2. CASE ~\E l \in Track : ReidMatch(l) \/ ReidLink(l) \/ ReidCreate(l)
  <2>1. /\ UNCHANGED <<idents, blind>>
        /\ \A l \in Track : reid'[l].pc = "create" => reid'[l] = reid[l]
    BY <1>2, Quiet, Moves DEF history
  <2>. QED  BY <1>1, <2>1, NoneDecided DEF Decided, When
<1>3. ASSUME NEW l \in Track, ReidMatch(l) PROVE DuplicatesInv'
  <2>1. ASSUME NEW i, Become(l, [pc |-> "link", row |-> reid[l].row, last_seen |-> reid[l].last_seen,
                        identity |-> reid[l].identity, best |-> i, read |-> idents[i]]),
               blind' = blind
        PROVE  DuplicatesInv'
    <3>1. /\ idents' = idents /\ reid'[l].pc = "link" /\ \A k \in Track \ {l} : reid'[k] = reid[k]
      BY <1>3, <2>1 DEF ReidMatch, tables, Become
    <3>. QED  BY <1>1, <2>1, <3>1, NoneDecided DEF Decided, When
  <2>. QED  BY <1>1, <1>3, <2>1, Deciding DEF ReidMatch
<1>4. ASSUME NEW l \in Track, ReidLink(l) PROVE DuplicatesInv'
  <2>1. /\ DOMAIN idents' = DOMAIN idents /\ blind' = blind
        /\ \A k \in Track : reid'[k] = reid[k] \/ reid'[k].pc = "200"
    BY <1>4, LinkWrites DEF ReidLink, Become
  <2>2. \A i \in DOMAIN idents : idents'[i].first_seen = idents[i].first_seen
    BY <1>4, LinkWrites
  <2>. QED  BY <1>1, <2>1, <2>2, NoneDecided DEF Decided, When
<1>5. ASSUME NEW l \in Track, ReidCreate(l) PROVE DuplicatesInv'
  <2>1. /\ l \notin DOMAIN idents /\ DOMAIN idents' = DOMAIN idents \cup {l} /\ blind' = blind
        /\ \A i \in DOMAIN idents : idents'[i] = idents[i]
        /\ idents'[l].first_seen = reid[l].last_seen /\ reid[l].pc = "create"
        /\ \A k \in Track \ {l} : reid'[k] = reid[k]
    BY <1>5 DEF ReidCreate, OnceInv, NewIdentity, Become
  <2>. QED  BY <1>1, <2>1, NoneDecided DEF Decided, When
<1>. QED  BY <1>2, <1>3, <1>4, <1>5

\* Two identities for one appearance within the TTL come only from two handlers that each
\* missed the identity the other was about to insert.
THEOREM DuplicatesFromOverlap == Spec => []DuplicatesOnlyFromOverlap
<1>1. Init => DuplicatesInv
  BY DEF Init, DuplicatesInv, SeenFrom, Decided, Idle
<1>2. IInv /\ DuplicatesInv => DuplicatesOnlyFromOverlap
  <2>. SUFFICES ASSUME IInv, DuplicatesInv, NEW i \in DOMAIN idents, NEW j \in DOMAIN idents, i # j,
                       Score(idents[i].embedding, idents[j].embedding) >= Threshold,
                       idents[j].first_seen - idents[i].first_seen \in -Ttl+1 .. Ttl-1
                PROVE  i \in blind[j] \/ j \in blind[i]
    BY DEF DuplicatesOnlyFromOverlap
  <2>1. i \in Track /\ j \in Track /\ Alike(i, j)
    BY DEF IInv, HandlerTypes, TypeOK, SeedsInv, Alike
  <2>. QED  BY <2>1 DEF DuplicatesInv, Decided, When, Missed
<1>. QED  BY <1>1, <1>2, DuplicatesStep, Once, PTL DEF Spec
=============================================================================
