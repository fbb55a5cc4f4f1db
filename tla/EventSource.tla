---------------------------- MODULE EventSource -----------------------------
(***************************************************************************)
(* The live ranking: RankingWebServer sends what changes as a stream of    *)
(* events (cmscommon/eventsource.py, DataWatcher in RankingWebServer.py),  *)
(* and a page (cmsranking/static/DataStore.js) loads the users and the     *)
(* scores once and then follows the stream, across lost connections, with  *)
(* the identifier of the last event it has seen.                           *)
(*                                                                         *)
(* The key of an event is the time it was put; the clock counts them.      *)
(* Contests, tasks and teams are as in the first answer. What is on the    *)
(* connection is in stream; it is lost with the connection.                *)
(***************************************************************************)
EXTENDS Naturals, Sequences, FiniteSets

CONSTANTS
    Viewed,         \* the users
    MaxPoints,      \* scores are 0 .. MaxPoints
    CacheSize,      \* buffer_size
    MaxPuts,        \* bounds the events
    MaxDrops        \* bounds lost connections and restarts of the server

ASSUME EventSourceAssumption ==
    /\ IsFiniteSet(Viewed)
    /\ CacheSize \in Nat \ {0} /\ {MaxPoints, MaxPuts, MaxDrops} \subseteq Nat

VARIABLES
    present, points,    \* the users of the server and their scores
    clock,
    cached,             \* _cache of the publisher
    phase,              \* of the page: "users", "scores", "live", "broken"
    user_init_time, score_init_time,
    known, shown, rank, \* the users of the page, their scores and ranks
    es,                 \* "connecting", "open", "closed", "error"
    url_id,             \* the identifier in the URL of the EventSource
    seen_id,            \* the one the browser has seen last, or 0
    last_event_id,      \* the one the listeners have noted
    stream,
    fetching,           \* requests for a new user: <<user, answer>>
    drops,
    missed,             \* reinit was sent (of no use to the code)
    raised,             \* a listener raised an exception (of no use to the code)
    reborn              \* a user of the page was created again before the scores came
                        \* (of no use to the code)

serverVars == <<present, points, clock, cached>>
shownVars == <<known, shown, rank>>
initVars == <<phase, user_init_time, score_init_time>>
idVars == <<url_id, seen_id, last_event_id>>
sourceVars == <<serverVars, shownVars, initVars, idVars, es, stream, fetching, drops, missed, raised, reborn>>

SourceInit ==
    /\ present \in SUBSET Viewed /\ points \in [Viewed -> 0 .. MaxPoints]
    /\ \A u \in Viewed \ present : points[u] = 0
    /\ clock = 0 /\ cached = <<>>
    /\ phase = "users" /\ user_init_time = 0 /\ score_init_time = 0
    /\ known = {} /\ shown = [u \in Viewed |-> 0] /\ rank = [u \in Viewed |-> 0]
    /\ es = "connecting"
    /\ url_id = 0 /\ seen_id = 0 /\ last_event_id = 0
    /\ stream = <<>> /\ fetching = {} /\ drops = 0
    /\ missed = FALSE /\ raised = FALSE /\ reborn = FALSE

-----------------------------------------------------------------------------
(* Publisher.put, for one or two events after each other.                  *)

Newest(s) == IF Len(s) <= CacheSize THEN s ELSE SubSeq(s, Len(s) - CacheSize + 1, Len(s))

Put(events) ==
    LET keyed == [i \in DOMAIN events |-> [events[i] EXCEPT !.key = clock + i]]
    IN  /\ clock + Len(events) <= MaxPuts
        /\ clock' = clock + Len(events)
        /\ cached' = Newest(cached \o keyed)
        /\ stream' = IF es = "open" THEN stream \o keyed ELSE stream

ScoreEvent(u, v) == [type |-> "score", user |-> u, value |-> v, key |-> 0]
UserEvent(t, u) == [type |-> t, user |-> u, value |-> 0, key |-> 0]

UserCreated(u) ==
    /\ u \notin present /\ present' = present \cup {u}
    /\ Put(<<UserEvent("create", u)>>)
    /\ reborn' = (reborn \/ (phase = "scores" /\ u \in known))
    /\ UNCHANGED <<points, shownVars, initVars, idVars, es, fetching, drops, missed, raised>>

ScoreChanged(u, v) ==
    /\ u \in present /\ points[u] # v
    /\ points' = [points EXCEPT ![u] = v]
    /\ Put(<<ScoreEvent(u, v)>>)
    /\ UNCHANGED <<present, shownVars, initVars, idVars, es, fetching, drops, missed, raised, reborn>>

(* The submissions of the user are deleted before the user.                *)
DeletionEvents(u) ==
    IF points[u] = 0 THEN <<UserEvent("delete", u)>>
    ELSE <<ScoreEvent(u, 0), UserEvent("delete", u)>>

UserDeleted(u) ==
    /\ u \in present /\ present' = present \ {u}
    /\ points' = [points EXCEPT ![u] = 0]
    /\ Put(DeletionEvents(u))
    /\ UNCHANGED <<shownVars, initVars, idVars, es, fetching, drops, missed, raised, reborn>>

-----------------------------------------------------------------------------
(* The page loads: init_teams and init_users, init_scores, init_ranks and  *)
(* create_event_source.                                                    *)

RankBy(score, u) == 1 + Cardinality({v \in known : score[v] > score[u]})

InitUsers ==
    /\ phase = "users"
    /\ known' = present /\ user_init_time' = clock
    /\ phase' = "scores"
    /\ UNCHANGED <<serverVars, shown, rank, score_init_time, idVars, es, stream, fetching,
                   drops, missed, raised, reborn>>

(* Mutation: the events between the two answers are not asked for.         *)
FirstEventLate == clock

(* The first of the times of the answers.                                  *)
FirstEvent == user_init_time

(* A user who was created and has scored since the users were loaded makes *)
(* set_score raise, and the rest of the page is not set up.                *)
InitScores ==
    /\ phase = "scores"
    /\ score_init_time' = clock
    /\ IF {u \in present : points[u] > 0} \subseteq known
         THEN /\ shown' = [u \in Viewed |-> IF u \in known THEN points[u] ELSE 0]
              /\ rank' = [u \in Viewed |-> IF u \in known THEN RankBy(points, u) ELSE 0]
              /\ phase' = "live" /\ url_id' = FirstEvent /\ last_event_id' = FirstEvent
         ELSE phase' = "broken" /\ UNCHANGED <<shown, rank, url_id, last_event_id>>
    /\ UNCHANGED <<serverVars, known, user_init_time, seen_id, es, stream, fetching, drops,
                   missed, raised, reborn>>

-----------------------------------------------------------------------------
(* The connection.                                                         *)

Reinit == [type |-> "reinit", key |-> 0]

(* get_subscriber. Keys increase: those after id are the end of the cache. *)
MissedEvents(id) ==
    LET new == {i \in DOMAIN cached : cached[i].key > id}
    IN  IF cached # <<>> /\ id >= cached[1].key
        THEN SubSeq(cached, Len(cached) - Cardinality(new) + 1, Len(cached))
        ELSE <<Reinit>>

(* The browser connects again by itself, or a visitor makes it, with a new *)
(* EventSource, when it has given up. The header is preferred to the URL.  *)
Connects ==
    /\ phase = "live" /\ es \in {"connecting", "closed"}
    /\ IF es = "connecting" THEN UNCHANGED idVars
       ELSE url_id' = last_event_id /\ seen_id' = 0 /\ UNCHANGED last_event_id
    /\ stream' = MissedEvents(IF seen_id' # 0 THEN seen_id' ELSE url_id')
    /\ es' = "open"
    /\ UNCHANGED <<serverVars, shownVars, initVars, fetching, drops, missed, raised, reborn>>

(* wsgi_app ends (_GLOBAL_TIMEOUT, a write that fails, one_shot), or the   *)
(* network loses the connection.                                           *)
ConnectionLost ==
    /\ es = "open" /\ drops < MaxDrops
    /\ drops' = drops + 1
    /\ es' \in {"connecting", "closed"} /\ stream' = <<>>
    /\ UNCHANGED <<serverVars, shownVars, initVars, idVars, fetching, missed, raised, reborn>>

(* The data are loaded from the files; the cache is empty.                 *)
ServerRestarts ==
    /\ phase = "live" /\ drops < MaxDrops
    /\ drops' = drops + 1
    /\ cached' = <<>> /\ stream' = <<>>
    /\ es' = IF fetching # {} THEN "error" ELSE IF es = "open" THEN "connecting" ELSE es
    /\ fetching' = {}
    /\ UNCHANGED <<present, points, clock, shownVars, initVars, idVars, missed, raised, reborn>>

-----------------------------------------------------------------------------
(* The listeners. An exception keeps last_event_id as it was.              *)

Noted(e) == seen_id' = e.key /\ last_event_id' = e.key
Raises(e) == raised' = TRUE /\ seen_id' = e.key /\ UNCHANGED last_event_id

(* There is a listener for "reload", and none for "reinit".                *)
ReceiveReinit ==
    /\ stream # <<>> /\ Head(stream).type = "reinit" /\ es = "open"
    /\ stream' = Tail(stream) /\ missed' = TRUE
    /\ UNCHANGED <<serverVars, shownVars, initVars, idVars, es, fetching, drops, raised, reborn>>

ReceiveCreate ==
    /\ stream # <<>> /\ Head(stream).type = "create" /\ es = "open"
    /\ LET e == Head(stream)
       IN  /\ fetching' = IF e.key > user_init_time THEN fetching \cup {<<e.user, "asked">>}
                                                    ELSE fetching
           /\ Noted(e)
    /\ stream' = Tail(stream)
    /\ UNCHANGED <<serverVars, shownVars, initVars, url_id, es, drops, missed, raised, reborn>>

(* delete_user raises when there is no such user.                          *)
ReceiveDelete ==
    /\ stream # <<>> /\ Head(stream).type = "delete" /\ es = "open"
    /\ LET e == Head(stream)
       IN  \/ e.key <= user_init_time /\ Noted(e) /\ UNCHANGED <<known, raised>>
           \/ /\ e.key > user_init_time /\ e.user \in known
              /\ known' = known \ {e.user} /\ Noted(e) /\ UNCHANGED raised
           \/ e.key > user_init_time /\ e.user \notin known /\ Raises(e) /\ UNCHANGED known
    /\ stream' = Tail(stream)
    /\ UNCHANGED <<serverVars, shown, rank, initVars, url_id, es, fetching, drops, missed, reborn>>

(* update_rank, without the old score.                                     *)
UpdatedRank(u, v) ==
    LET score == [shown EXCEPT ![u] = v]
    IN  [w \in Viewed |->
           IF w = u THEN RankBy(score, u)
           ELSE IF w \in known /\ rank[u] >= rank[w] /\ score[w] < v THEN rank[w] + 1
           ELSE IF w \in known /\ rank[w] > rank[u] /\ score[w] >= v THEN rank[w] - 1
           ELSE rank[w]]

(* score_listener and set_score, which raises for a user the page does not *)
(* have (yet).                                                             *)
ReceiveScore ==
    /\ stream # <<>> /\ Head(stream).type = "score" /\ es = "open"
    /\ LET e == Head(stream)
       IN  \/ e.key <= score_init_time /\ Noted(e) /\ UNCHANGED <<shown, rank, raised>>
           \/ /\ e.key > score_init_time /\ e.user \in known
              /\ shown' = [shown EXCEPT ![e.user] = e.value]
              /\ rank' = UpdatedRank(e.user, e.value)
              /\ Noted(e) /\ UNCHANGED raised
           \/ /\ e.key > score_init_time /\ e.user \notin known
              /\ Raises(e) /\ UNCHANGED <<shown, rank>>
    /\ stream' = Tail(stream)
    /\ UNCHANGED <<serverVars, known, initVars, url_id, es, fetching, drops, missed, reborn>>

(* The request for a user is answered; the answer is on its way.           *)
ServeUser(f) ==
    /\ f \in fetching /\ f[2] = "asked"
    /\ fetching' = (fetching \ {f}) \cup {<<f[1], IF f[1] \in present THEN "found" ELSE "gone">>}
    /\ UNCHANGED <<serverVars, shownVars, initVars, idVars, es, stream, drops, missed, raised, reborn>>

(* create_user.                                                            *)
CreateUser(u) ==
    /\ <<u, "found">> \in fetching /\ fetching' = fetching \ {<<u, "found">>}
    /\ known' = known \cup {u}
    /\ shown' = [shown EXCEPT ![u] = 0]
    /\ rank' = [rank EXCEPT ![u] = RankBy(shown', u)]
    /\ UNCHANGED <<serverVars, initVars, idVars, es, stream, drops, missed, raised, reborn>>

FetchFails(u) ==
    /\ <<u, "gone">> \in fetching /\ fetching' = fetching \ {<<u, "gone">>}
    /\ es' = "error" /\ stream' = <<>>
    /\ UNCHANGED <<serverVars, shownVars, initVars, idVars, drops, missed, raised, reborn>>

SourceNext ==
    \/ \E u \in Viewed : \/ UserCreated(u) \/ UserDeleted(u) \/ CreateUser(u) \/ FetchFails(u)
                         \/ \E v \in 0 .. MaxPoints : ScoreChanged(u, v)
    \/ InitUsers \/ InitScores \/ Connects \/ ConnectionLost \/ ServerRestarts
    \/ ReceiveReinit \/ ReceiveCreate \/ ReceiveDelete \/ ReceiveScore
    \/ \E f \in fetching : ServeUser(f)

SourceSpec == SourceInit /\ [][SourceNext]_sourceVars

-----------------------------------------------------------------------------
UpToDate == known = present /\ \A u \in known : shown[u] = points[u]
Quiet == phase = "live" /\ es = "open" /\ stream = <<>> /\ fetching = {}

(* When everything that was sent has arrived, the page shows what the      *)
(* server has: the two answers, taken at different times, the events that  *)
(* were missed and those that are sent a second time add up to it, however *)
(* often the connection was lost. Excepted are a cache that was too short, *)
(* events that overtook the answer to a request they caused, and a user    *)
(* deleted and created again between the two answers.                      *)
Follows == phase = "live" /\ ~missed /\ ~raised /\ ~reborn

PageCatchesUp == Quiet /\ Follows => UpToDate

(* What the page tells its reader while it is connected.                   *)
ReceivingLiveUpdates == Quiet /\ ~raised => UpToDate

(* The ranks, which are corrected by one place at a time, are those of the *)
(* definition, also after a user was created or deleted.                   *)
RanksByScore == Follows => \A u \in known : rank[u] = RankBy(shown, u)

(* What the page shows, for every loss of the connection and every event.  *)
PageSound == PageCatchesUp /\ RanksByScore
=============================================================================
