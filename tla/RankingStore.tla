---------------------------- MODULE RankingStore ----------------------------
(***************************************************************************)
(* The data of RankingWebServer (cmsranking/Store.py, Scoring.py and the   *)
(* entities): stores of contests, teams, users, tasks, submissions and     *)
(* subchanges, whose entities refer to each other and are kept in files,   *)
(* and, in memory only, the Score of each user, with its history, brought  *)
(* up to date by the callbacks of the stores. There is one contest, one    *)
(* team and one task.                                                      *)
(*                                                                         *)
(* A submission and a subchange have the time that belongs to their key,   *)
(* as ProxyService makes them. Memory and files agree but for a crash.     *)
(***************************************************************************)
EXTENDS RankingScore, Sequences, SequencesExt

CONSTANTS
    RankedUsers,
    NoUser,
    Keys,               \* of submissions
    ChangeKeys,         \* of subchanges, numbers
    SubmissionTime, ChangeTime,     \* the times that belong to the keys
    Values,             \* what a subchange can say: [score, extra] or Token
    Token

(* score_mode of a task.                                                   *)
Modes == {"max", "max_subtask", "max_tokened_last"}

ASSUME RankingAssumption ==
    /\ ChangeKeys \subseteq Nat /\ NoUser \notin RankedUsers /\ 0 \notin Keys
    /\ IsFiniteSet(RankedUsers) /\ IsFiniteSet(Keys) /\ IsFiniteSet(ChangeKeys)
    /\ SubmissionTime \in [Keys -> Nat] /\ ChangeTime \in [ChangeKeys -> Nat]
    /\ \A v \in Values \ {Token} : DOMAIN v = {"score", "extra"} /\ v.score \in Nat
                                   /\ v.extra \in Seq(Nat)

VARIABLES
    contest, team,  \* whether they are there
    task,           \* its score_mode, or "none"
    user,           \* per user: "none", "alone", or in the "team"
    submission,     \* per key: its user, or NoUser
    subchange,      \* per key: [submission, value], or none: [submission |-> 0]
    scores,         \* per user: the Score object
    moved,          \* a submission was given to another user
    remoded         \* the task's mode changed while there were Scores

storeVars == <<contest, team, task, user, submission, subchange>>
storesVars == <<storeVars, scores, moved, remoded>>

(* A bound: after a submission was moved or the mode changed, only what    *)
(* removes something, and a restart, is explored.                          *)
Settled == ~moved /\ ~remoded

NoChange == [submission |-> 0, value |-> Token]

-----------------------------------------------------------------------------
(* A Score.                                                                *)

Blank == [score |-> 0, token |-> FALSE, extra |-> <<>>]

Fresh(mode, keys, changes) ==
    [mode |-> mode, submissions |-> [k \in keys |-> Blank], changes |-> changes,
     last |-> 0, history |-> <<>>]

NewScore(mode) == Fresh(mode, {}, <<>>)

GetScore(sc) == IF sc.history = <<>> THEN 0 ELSE sc.history[Len(sc.history)][2]

(* What a change makes of its submission, and of the last one.             *)
Changed(sub, v) ==
    IF v = Token THEN [score |-> sub.score, token |-> TRUE, extra |-> sub.extra]
    ELSE [score |-> v.score, token |-> sub.token, extra |-> v.extra]

LastOf(last, c) ==
    IF c.value # Token /\ (last = 0 \/ SubmissionTime[c.submission] > SubmissionTime[last])
    THEN c.submission ELSE last

(* append_change; _released is the scores of the submissions with a token. *)
AppendChange(sc, c) ==
    LET subs == [sc.submissions EXCEPT ![c.submission] = Changed(@, c.value)]
        last == LastOf(sc.last, c)
        now == ScoreNow(subs, last, sc.mode)
    IN  [mode |-> sc.mode, submissions |-> subs, changes |-> sc.changes, last |-> last,
         history |-> IF now = GetScore(sc) THEN sc.history
                     ELSE Append(sc.history, <<ChangeTime[c.key], now>>)]

(* The changes, one at a time, from submissions as they are at first.      *)
Replay(mode, keys, changes) ==
    LET appended[n \in 0 .. Len(changes)] ==
            IF n = 0 THEN Fresh(mode, keys, changes)
            ELSE AppendChange(appended[n - 1], changes[n])
    IN  appended[Len(changes)]

ResetHistory(sc) == Replay(sc.mode, DOMAIN sc.submissions, sc.changes)

WithChanges(sc, changes) ==
    [mode |-> sc.mode, submissions |-> sc.submissions, changes |-> changes,
     last |-> sc.last, history |-> sc.history]

Before(j, k) == ChangeTime[j] < ChangeTime[k] \/ (ChangeTime[j] = ChangeTime[k] /\ j < k)

(* The elements of a list at some places, in order.                        *)
Selected(list, at) ==
    LET chosen[n \in 0 .. Len(list)] ==
            IF n = 0 THEN <<>>
            ELSE IF n \in at THEN Append(chosen[n - 1], list[n]) ELSE chosen[n - 1]
    IN  chosen[Len(list)]

(* Where a subchange is inserted: before the first later one.              *)
Place(changes, k) ==
    LET later == {i \in DOMAIN changes : Before(k, changes[i].key)}
    IN  IF later = {} THEN 0 ELSE Min(later)

Inserted(changes, p, c) ==
    [i \in 1 .. (Len(changes) + 1) |->
        IF i < p THEN changes[i] ELSE IF i = p THEN c ELSE changes[i - 1]]

Change(k, c) == [key |-> k, submission |-> c.submission, value |-> c.value]

CreateChange(sc, k, c) ==
    LET p == Place(sc.changes, k)
    IN  IF p = 0 THEN AppendChange(WithChanges(sc, Append(sc.changes, Change(k, c))), Change(k, c))
        ELSE ResetHistory(WithChanges(sc, Inserted(sc.changes, p, Change(k, c))))

UpdateChange(sc, k, c) ==
    ResetHistory(WithChanges(sc,
        [i \in DOMAIN sc.changes |-> IF sc.changes[i].key = k THEN Change(k, c) ELSE sc.changes[i]]))

DeleteChange(sc, k) ==
    ResetHistory(WithChanges(sc,
        Selected(sc.changes, {i \in DOMAIN sc.changes : sc.changes[i].key # k})))

(* Mutation: the history is not made anew.                                 *)
DeleteSubmissionKept(sc, s) ==
    [sc EXCEPT !.submissions = [k \in DOMAIN @ \ {s} |-> @[k]],
               !.changes = Selected(@, {i \in DOMAIN @ : @[i].submission # s})]

DeleteSubmission(sc, s) ==
    ResetHistory([mode |-> sc.mode, last |-> sc.last, history |-> sc.history,
        submissions |-> [k \in DOMAIN sc.submissions \ {s} |-> sc.submissions[k]],
        changes |-> Selected(sc.changes, {i \in DOMAIN sc.changes : sc.changes[i].submission # s})])

AddSubmission(sc, s) ==
    [mode |-> sc.mode, changes |-> sc.changes, last |-> sc.last, history |-> sc.history,
     submissions |-> [k \in DOMAIN sc.submissions \cup {s} |->
                        IF k = s THEN Blank ELSE sc.submissions[k]]]

-----------------------------------------------------------------------------
(* What the Scores are after a restart: load_from_disk and init_store.     *)

SubmissionsOf(u, sub) == {s \in Keys : sub[s] = u}

ChangesOf(u, sub, chg) == {k \in ChangeKeys : chg[k].submission \in SubmissionsOf(u, sub)}

(* The subchanges are created in the order of their keys.                  *)
RebuiltScore(u, mode, sub, chg) ==
    LET mine == ChangesOf(u, sub, chg)
        created[n \in 0 .. (Greatest(ChangeKeys) + 1)] ==
            IF n = 0 THEN Fresh(mode, SubmissionsOf(u, sub), <<>>)
            ELSE IF n - 1 \in mine THEN CreateChange(created[n - 1], n - 1, chg[n - 1])
            ELSE created[n - 1]
    IN  created[Greatest(ChangeKeys) + 1]

Rebuilt(mode, sub, chg) ==
    [u \in RankedUsers |-> IF SubmissionsOf(u, sub) = {} THEN NewScore("none")
                           ELSE RebuiltScore(u, mode, sub, chg)]

StoresInit ==
    /\ contest = FALSE /\ team = FALSE /\ task = "none"
    /\ user = [u \in RankedUsers |-> "none"]
    /\ submission = [s \in Keys |-> NoUser]
    /\ subchange = [k \in ChangeKeys |-> NoChange]
    /\ scores = [u \in RankedUsers |-> NewScore("none")]
    /\ moved = FALSE /\ remoded = FALSE

-----------------------------------------------------------------------------
(* Store.create, update and merge_list (entity by entity), with the        *)
(* callbacks of ScoringStore. Inconsistent data are refused.               *)

PutContest ==
    /\ Settled
    /\ ~contest /\ contest' = TRUE
    /\ UNCHANGED <<team, task, user, submission, subchange, scores, moved, remoded>>

PutTeam ==
    /\ Settled
    /\ ~team /\ team' = TRUE
    /\ UNCHANGED <<contest, task, user, submission, subchange, scores, moved, remoded>>

(* No callback tells the Scores.                                           *)
PutTask(m) ==
    /\ Settled
    /\ contest /\ task # m
    /\ task' = m
    /\ remoded' = (remoded \/ \E s \in Keys : submission[s] # NoUser)
    /\ UNCHANGED <<contest, team, user, submission, subchange, scores, moved>>

PutUser(u, where) ==
    /\ Settled
    /\ where = "team" => team
    /\ user[u] # where
    /\ user' = [user EXCEPT ![u] = where]
    /\ UNCHANGED <<contest, team, task, submission, subchange, scores, moved, remoded>>

(* The Score of a user is made with the first submission, and dropped with *)
(* the last.                                                               *)
Added(sc, s) == AddSubmission(IF sc.mode = "none" THEN NewScore(task) ELSE sc, s)
Dropped(sc, s) ==
    LET rest == DeleteSubmission(sc, s)
    IN  IF DOMAIN rest.submissions = {} THEN NewScore("none") ELSE rest

(* One after the other.                                                    *)
AnyOf(g) == CHOOSE x \in g : TRUE

DroppedAll(sc, gone) ==
    LET dropped[g \in SUBSET gone] ==
            IF g = {} THEN sc
            ELSE Dropped(dropped[g \ {AnyOf(g)}], AnyOf(g))
    IN  dropped[gone]

PutSubmission(s, u) ==
    /\ Settled
    /\ task # "none" /\ user[u] # "none"
    /\ submission' = [submission EXCEPT ![s] = u]
    /\ LET old == submission[s]
       IN  scores' = [v \in RankedUsers |->
             CASE u = old /\ v = u -> [ResetHistory(scores[u]) EXCEPT !.mode = task]
               [] u # old /\ v = u -> Added(scores[u], s)
               [] u # old /\ v = old -> Dropped(scores[v], s)
               [] OTHER -> scores[v]]
    /\ moved' = (moved \/ submission[s] \notin {NoUser, u})
    /\ UNCHANGED <<contest, team, task, user, subchange, remoded>>

PutSubchange(k, s, v) ==
    /\ Settled
    /\ submission[s] # NoUser
    /\ subchange' = [subchange EXCEPT ![k] = [submission |-> s, value |-> v]]
    /\ LET old == subchange[k].submission
           new == subchange'[k]
           taken == IF old \in Keys \ {s}
                    THEN [scores EXCEPT ![submission[old]] = DeleteChange(@, k)] ELSE scores
           u == submission[s]
       IN  scores' = [taken EXCEPT ![u] = IF old = s THEN UpdateChange(@, k, new)
                                                     ELSE CreateChange(@, k, new)]
    /\ UNCHANGED <<contest, team, task, user, submission, moved, remoded>>

-----------------------------------------------------------------------------
(* Store.delete: what is no longer consistent is deleted too, store by     *)
(* store, before the callbacks are called and the file is removed.         *)

DeleteSubchange(k) ==
    /\ subchange[k] # NoChange
    /\ subchange' = [subchange EXCEPT ![k] = NoChange]
    /\ scores' = [scores EXCEPT ![submission[subchange[k].submission]] = DeleteChange(@, k)]
    /\ UNCHANGED <<contest, team, task, user, submission, moved, remoded>>

(* submission's depends.                                                   *)
WithoutOrphans(gone) ==
    [k \in ChangeKeys |-> IF subchange[k].submission \in gone THEN NoChange ELSE subchange[k]]

DropSubmissions(gone) ==
    /\ submission' = [s \in Keys |-> IF s \in gone THEN NoUser ELSE submission[s]]
    /\ subchange' = WithoutOrphans(gone)
    /\ scores' = [u \in RankedUsers |-> DroppedAll(scores[u], gone \cap SubmissionsOf(u, submission))]

RemoveSubmission(s) ==
    /\ submission[s] # NoUser
    /\ DropSubmissions({s})
    /\ UNCHANGED <<contest, team, task, user, moved, remoded>>

RemoveUsers(us) ==
    /\ user' = [u \in RankedUsers |-> IF u \in us THEN "none" ELSE user[u]]
    /\ DropSubmissions({s \in Keys : submission[s] \in us})

RemoveUser(u) ==
    /\ user[u] # "none"
    /\ RemoveUsers({u})
    /\ UNCHANGED <<contest, team, task, moved, remoded>>

RemoveTeam ==
    /\ team /\ team' = FALSE
    /\ RemoveUsers({u \in RankedUsers : user[u] = "team"})
    /\ UNCHANGED <<contest, task, moved, remoded>>

RemoveTask ==
    /\ task # "none" /\ task' = "none"
    /\ DropSubmissions({s \in Keys : submission[s] # NoUser})
    /\ UNCHANGED <<contest, team, user, moved, remoded>>

RemoveContest ==
    /\ contest /\ contest' = FALSE
    /\ task' = "none"
    /\ DropSubmissions({s \in Keys : submission[s] # NoUser})
    /\ UNCHANGED <<team, user, moved, remoded>>

-----------------------------------------------------------------------------
(* The server is restarted, or killed while it deletes a user: the files   *)
(* of the subchanges go first, then those of their submissions, at last    *)
(* his own.                                                                *)

Reload(us, sub, chg) ==
    /\ user' = us /\ submission' = sub /\ subchange' = chg
    /\ scores' = Rebuilt(task, sub, chg)
    /\ moved' = FALSE /\ remoded' = FALSE
    /\ UNCHANGED <<contest, team, task>>

RestartRanking == Reload(user, submission, subchange)

KilledWhileRemoving(u) ==
    /\ user[u] # "none"
    /\ \E gone \in SUBSET SubmissionsOf(u, submission) :
       \E lost \in SUBSET {k \in ChangeKeys : subchange[k].submission \in Keys
                                              /\ submission[subchange[k].submission] = u} :
          /\ {k \in ChangeKeys : subchange[k].submission \in gone} \subseteq lost
          /\ Reload(user, [s \in Keys |-> IF s \in gone THEN NoUser ELSE submission[s]],
                    [k \in ChangeKeys |-> IF k \in lost THEN NoChange ELSE subchange[k]])

StoresNext ==
    \/ PutContest \/ PutTeam \/ RemoveContest \/ RemoveTeam \/ RemoveTask \/ RestartRanking
    \/ \E m \in Modes : PutTask(m)
    \/ \E u \in RankedUsers : \/ PutUser(u, "alone") \/ PutUser(u, "team")
                              \/ RemoveUser(u) \/ KilledWhileRemoving(u)
    \/ \E s \in Keys : RemoveSubmission(s) \/ \E u \in RankedUsers : PutSubmission(s, u)
    \/ \E k \in ChangeKeys : DeleteSubchange(k)
                             \/ \E s \in Keys, v \in Values : PutSubchange(k, s, v)

StoresSpec == StoresInit /\ [][StoresNext]_storesVars

-----------------------------------------------------------------------------
(***************************************************************************)
(* What the page of a ranking computes from the history of all scores      *)
(* (cmsranking/static/HistoryStore.js): the charts of scores and ranks of  *)
(* a user, and how long the users took.                                    *)
(*                                                                         *)
(* A change is a record [user, task, time, score], in the order of the     *)
(* server's answer. The page knows users (a set), tasks (the contest of    *)
(* each) and contests (the begin of each).                                 *)
(***************************************************************************)

(* The task whose scores come without a time.                              *)
Untimed == {"plane"}

EmptyHistory(users, tasks) ==
    [d |-> [u \in users |-> [t \in DOMAIN tasks |-> 0]],
     max_score |-> [u \in users |-> [t \in DOMAIN tasks |-> 0]],
     solve_time_t |-> [u \in users |-> [t \in DOMAIN tasks |-> 0]],
     history_t |-> <<>>, history_c |-> <<>>, history_g |-> <<>>]

(* The sum of a user's scores in some tasks.                               *)
ScoreIn(row, ts) ==
    LET sum[s \in SUBSET ts] == IF s = {} THEN 0 ELSE row[AnyOf(s)] + sum[s \ {AnyOf(s)}]
    IN  sum[ts]

SameContest(t, tasks) == {s \in DOMAIN tasks : tasks[s] = tasks[t]}

Event(c, score) == [user |-> c.user, time |-> c.time, score |-> score]

(* One round of the loop of perform_update. Each list has the score as it  *)
(* is after the change: in the task, the contest and altogether.           *)
TakeChange(h, c, tasks, begin) ==
    LET row == [h.d[c.user] EXCEPT ![c.task] = c.score]
        its == tasks[c.task]
        better == c.task \notin Untimed /\ c.score > h.max_score[c.user][c.task]
    IN  [d |-> [h.d EXCEPT ![c.user] = row],
         max_score |-> IF ~better THEN h.max_score
                       ELSE [h.max_score EXCEPT ![c.user][c.task] = c.score],
         solve_time_t |-> IF ~better THEN h.solve_time_t
                          ELSE [h.solve_time_t EXCEPT ![c.user][c.task] = c.time - begin[its]],
         history_t |-> Append(h.history_t, <<c.task, Event(c, c.score)>>),
         history_c |-> Append(h.history_c, <<its, Event(c, ScoreIn(row, SameContest(c.task, tasks)))>>),
         history_g |-> Append(h.history_g, <<"", Event(c, ScoreIn(row, DOMAIN tasks))>>)]

(* Changes of users the page does not know are skipped.                    *)
PerformUpdate(data, users, tasks, begin) ==
    LET known == Selected(data, {i \in DOMAIN data : data[i].user \in users})
        taken[n \in 0 .. Len(known)] ==
            IF n = 0 THEN EmptyHistory(users, tasks)
            ELSE TakeChange(taken[n - 1], known[n], tasks, begin)
    IN  taken[Len(known)]

(* solve_time_c and solve_time_g, which are corrected by the difference,   *)
(* are the sums over the tasks.                                            *)
SolveTimeOf(h, u, ts) == ScoreIn(h.solve_time_t[u], ts)

-----------------------------------------------------------------------------
(* The events of a task, of a contest, or all of them ("").                *)
EventsFor(list, scope) ==
    LET chosen == Selected(list, {i \in DOMAIN list : list[i][1] = scope})
    IN  [i \in DOMAIN chosen |-> chosen[i][2]]

(* get_score_history and its two variants.                                 *)
ScoreHistory(events, u) == Selected(events, {i \in DOMAIN events : events[i].user = u})

If(condition, n) == IF condition THEN n ELSE 0

Higher(d, score) == Cardinality({v \in DOMAIN d : d[v] > score})
Equal(d, score) == Cardinality({v \in DOMAIN d : d[v] = score})

(* One round of the loop of get_rank_history and its two variants, for the *)
(* user u: his own change has the others counted again, a change of        *)
(* another moves the counters.                                             *)
RankStep(r, e, u) ==
    LET mine == r.d[u]
        old == r.d[e.user]
        d == [r.d EXCEPT ![e.user] = e.score]
        above == IF e.user = u THEN Higher(d, e.score)
                 ELSE r.above + If(old <= mine /\ e.score > mine, 1)
                              - If(old > mine /\ e.score <= mine, 1)
        equal == IF e.user = u THEN Equal(d, e.score)
                 ELSE r.equal - If(old = mine, 1)
                              + If(old # mine /\ e.score = mine, 1)
    IN  [d |-> d, above |-> above, equal |-> equal,
         result |-> IF above = r.above /\ equal = r.equal THEN r.result
                    ELSE Append(r.result, <<e.time, above + 1, equal - 1>>)]

RankHistory(events, u, users) ==
    LET ranked[n \in 0 .. Len(events)] ==
            IF n = 0 THEN [d |-> [v \in users |-> 0], above |-> 0, equal |-> Cardinality(users),
                           result |-> <<>>]
            ELSE RankStep(ranked[n - 1], events[n], u)
    IN  ranked[Len(events)].result

-----------------------------------------------------------------------------
(* get_global_history: the histories of the users are merged; the heads    *)
(* are compared by time, then by score.                                    *)

HistoryLength == Cardinality(UNION {{u} \X DOMAIN scores[u].history : u \in RankedUsers})

Earlier(x, y) == x[1] < y[1] \/ (x[1] = y[1] /\ x[2] <= y[2])

(* The users of whom something is left, and what comes next.               *)
NextOf(list, u) == Len(ScoreHistory(list, u)) + 1
Left(list) == {u \in RankedUsers : NextOf(list, u) <= Len(scores[u].history)}
HeadOf(list, u) == scores[u].history[NextOf(list, u)]
EarliestOf(list) ==
    CHOOSE v \in Left(list) : \A w \in Left(list) : Earlier(HeadOf(list, v), HeadOf(list, w))

Popped(u, head) == [user |-> u, task |-> "task", time |-> head[1], score |-> head[2]]

GetGlobalHistory ==
    LET merged[n \in 0 .. HistoryLength] ==
            IF n = 0 THEN <<>>
            ELSE LET list == merged[n - 1]
                 IN  Append(list, Popped(EarliestOf(list), HeadOf(list, EarliestOf(list))))
    IN  merged[HistoryLength]

-----------------------------------------------------------------------------
(* The histories the callbacks keep up to date are those a restart would   *)
(* compute from the files: whatever the order in which scores and tokens   *)
(* arrive, are corrected and deleted. It does not hold once a submission   *)
(* was given to another user (the TODO of update_submission), and after a  *)
(* change of the score mode, which reaches a Score too late.               *)
HistoryAsRebuilt ==
    Settled =>
        \A u \in RankedUsers :
            LET r == Rebuilt(task, submission, subchange)[u]
            IN  scores[u].history = r.history /\ scores[u].changes = r.changes

(* Whatever is deleted, and if the server is killed on the way, no entity  *)
(* refers to one that is not there: load_from_disk does not check it, and  *)
(* init_store would raise.                                                 *)
StoresConsistent ==
    /\ task # "none" => contest
    /\ \A u \in RankedUsers : user[u] = "team" => team
    /\ \A s \in Keys : submission[s] # NoUser => task # "none" /\ user[submission[s]] # "none"
    /\ \A k \in ChangeKeys : subchange[k] # NoChange => submission[subchange[k].submission] # NoUser

(* The rank of a user by the definition, and how many share it with him.   *)
RankByScore(u, us) ==
    <<1 + Cardinality({v \in us : GetScore(scores[v]) > GetScore(scores[u])}),
      Cardinality({v \in us : GetScore(scores[v]) = GetScore(scores[u])}) - 1>>

(* The charts of a page end where the scoreboard is: whatever was          *)
(* corrected, reordered or deleted, the history of /history, which the     *)
(* page adds up change by change, leads to the score and to the rank that  *)
(* the scores have now, and the time a user took is when he first had his  *)
(* best score.                                                             *)
ChartsEndAtScores ==
    LET us == {u \in RankedUsers : user[u] # "none"}
        h == PerformUpdate(GetGlobalHistory, us, [t \in {"task"} |-> "contest"],
                           [c \in {"contest"} |-> 0])
    IN  \A list \in {EventsFor(h.history_t, "task"), EventsFor(h.history_c, "contest"),
                     EventsFor(h.history_g, "")}, u \in us :
          LET mine == ScoreHistory(list, u)
              ranks == RankHistory(list, u, us)
              best == {i \in DOMAIN mine : \A j \in DOMAIN mine : mine[j].score <= mine[i].score}
          IN  /\ GetScore(scores[u]) = IF mine = <<>> THEN 0 ELSE Last(mine).score
              /\ RankByScore(u, us) = IF ranks = <<>> THEN <<1, Cardinality(us) - 1>>
                                      ELSE <<Last(ranks)[2], Last(ranks)[3]>>
              /\ best # {} => SolveTimeOf(h, u, {"task"}) = mine[Min(best)].time

(* All of it, for every order in which the entities are put and deleted.   *)
StoresSound == HistoryAsRebuilt /\ StoresConsistent /\ ChartsEndAtScores
=============================================================================
