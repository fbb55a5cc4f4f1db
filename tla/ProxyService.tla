---------------------------- MODULE ProxyService ----------------------------
(***************************************************************************)
(* ProxyService (cms/service/ProxyService.py) together with the service    *)
(* that feeds it: it sends the contest, its users and tasks, and the       *)
(* scores and tokens of the submissions to the rankings, with one queue    *)
(* and one executor for each. What the queue holds is combined before it   *)
(* is sent, later data replacing earlier data, so pending is the combined  *)
(* data. A ranking accepts what refers to things it knows.                 *)
(*                                                                         *)
(* The handlers wait for the database after they have read the score, and  *)
(* send what they have read.                                               *)
(***************************************************************************)
EXTENDS Naturals, FiniteSets

CONSTANTS
    Submissions,
    Rankings,
    MaxScores,      \* bounds the scores each submission is given
    MaxEvents,      \* bounds lost calls, failed requests, restarts and calls of
                    \* dataset_updated together
    MaxHandlers     \* bounds the handlers that work at the same time

ASSUME ProxyAssumption ==
    {MaxScores, MaxEvents, MaxHandlers} \subseteq Nat

VARIABLES
    score,          \* per submission: the number of its score, or 0
    scored,         \* per submission: how many scores it was given
    calls,          \* calls of the RPC methods on their way: <<method, submission>>
    hidden,         \* submissions of hidden participations, or not official
    tokened,        \* submissions with a token
    reading,        \* handlers: <<kind, submission, what they read>>
    scores_sent_to_rankings, tokens_sent_to_rankings,
    pending,        \* per ranking: the queue, combined
    sending,        \* per ranking: the data execute still has to send
    stage,          \* per ranking: what execute sends next
    ranking,        \* per ranking: what it holds
    failed,         \* rankings a request to which failed since ProxyService
                    \* was started
    rejected,       \* the rankings that refused something
    reordered,      \* a score was sent that had changed since it was read
    overwritten,    \* a submission lost the score it had
    lost,           \* a call was lost
    events          \* how many of the events there were

database == <<score, scored, tokened, hidden>>
sentVars == <<scores_sent_to_rankings, tokens_sent_to_rankings>>
history == <<reordered, overwritten, lost, events>>
rankingVars == <<pending, sending, stage, ranking, failed, rejected>>
proxyVars == <<database, calls, reading, sentVars, rankingVars, history>>

(* base: contest, teams, users and tasks; submissions; the subchanges for  *)
(* scores (0: none) and for tokens.                                        *)
Nothing == [base |-> FALSE, submissions |-> {},
            scores |-> [s \in Submissions |-> 0], tokens |-> {}]

InitialData == [Nothing EXCEPT !.base = TRUE]

ProxyInit ==
    /\ score = [s \in Submissions |-> 0] /\ scored = [s \in Submissions |-> 0]
    /\ calls = {}
    /\ hidden \in SUBSET Submissions 
    /\ tokened = {} /\ reading = {}
    /\ scores_sent_to_rankings = {} /\ tokens_sent_to_rankings = {}
    /\ pending = [r \in Rankings |-> InitialData]
    /\ sending = [r \in Rankings |-> Nothing]
    /\ stage = [r \in Rankings |-> "idle"]
    /\ ranking = [r \in Rankings |-> Nothing]
    /\ failed = {} /\ rejected = {}
    /\ reordered = FALSE /\ overwritten = FALSE /\ lost = FALSE /\ events = 0

(* The data of execute: dict.update, entry by entry.                       *)
Combined(old, new) ==
    [base |-> old.base \/ new.base,
     submissions |-> old.submissions \cup new.submissions,
     scores |-> [s \in Submissions |-> IF new.scores[s] # 0 THEN new.scores[s]
                                                           ELSE old.scores[s]],
     tokens |-> old.tokens \cup new.tokens]

EnqueueData(new) == pending' = [r \in Rankings |-> Combined(pending[r], new)]

-----------------------------------------------------------------------------
(* Whose results are sent: submission_scored, submission_tokened,          *)
(* _missing_operations and dataset_updated ask the same.                   *)

IsShown(s) == s \notin hidden

Reads(s, kind) ==
    /\ Cardinality(reading) < MaxHandlers
    /\ reading' = reading \cup {<<kind, s, IF kind = "score" THEN score[s] ELSE 0>>}

(* ScoringService commits a score and calls submission_scored.             *)
ScoreCommitted(s) ==
    /\ score[s] = 0 /\ scored[s] < MaxScores
    /\ scored' = [scored EXCEPT ![s] = @ + 1]
    /\ score' = [score EXCEPT ![s] = scored[s] + 1]
    /\ calls' = calls \cup {<<"submission_scored", s>>}
    /\ UNCHANGED <<tokened, hidden, reading, sentVars, rankingVars, history>>

(* The result is invalidated, by ScoringService or EvaluationService.      *)
ScoreInvalidated(s) ==
    /\ score[s] # 0 /\ scored[s] < MaxScores
    /\ score' = [score EXCEPT ![s] = 0]
    /\ overwritten' = TRUE
    /\ UNCHANGED <<scored, tokened, hidden, calls, reading, sentVars, rankingVars,
                   reordered, lost, events>>

(* A contestant uses a token, and ContestWebServer calls submission_tokened. *)
TokenUsed(s) ==
    /\ s \notin tokened
    /\ tokened' = tokened \cup {s}
    /\ calls' = calls \cup {<<"submission_tokened", s>>}
    /\ UNCHANGED <<score, scored, hidden, reading, sentVars, rankingVars, history>>

SubmissionScored(s) ==
    /\ <<"submission_scored", s>> \in calls
    /\ calls' = calls \ {<<"submission_scored", s>>}
    /\ IF IsShown(s) THEN Reads(s, "score") ELSE UNCHANGED reading
    /\ UNCHANGED <<database, sentVars, rankingVars, history>>

SubmissionTokened(s) ==
    /\ <<"submission_tokened", s>> \in calls
    /\ calls' = calls \ {<<"submission_tokened", s>>}
    /\ IF IsShown(s) THEN Reads(s, "token") ELSE UNCHANGED reading
    /\ UNCHANGED <<database, sentVars, rankingVars, history>>

CallLost(c) ==
    /\ c \in calls /\ events < MaxEvents
    /\ calls' = calls \ {c}
    /\ lost' = TRUE /\ events' = events + 1
    /\ UNCHANGED <<database, reading, sentVars, rankingVars, reordered, overwritten>>

(* _missing_operations looks at one submission after the other.            *)
ProxySweeps(s) ==
    /\ IsShown(s)
    /\ \/ score[s] # 0 /\ s \notin scores_sent_to_rankings /\ Reads(s, "score")
       \/ s \in tokened /\ s \notin tokens_sent_to_rankings /\ Reads(s, "token")
    /\ UNCHANGED <<database, calls, sentVars, rankingVars, history>>

(* dataset_updated: the basic data, and the scores that are available.     *)
DatasetUpdated ==
    /\ events < MaxEvents
    /\ events' = events + 1
    /\ EnqueueData(InitialData)
    /\ reading' = reading \cup {<<"score", s, score[s]>> :
                                  s \in {t \in Submissions : IsShown(t) /\ score[t] # 0}}
    /\ Cardinality(reading') <= MaxHandlers
    /\ UNCHANGED <<database, calls, sentVars, sending, stage, ranking, failed, rejected,
                   reordered, overwritten, lost>>

(* operations_for_score and enqueue; a result that lost its score in the   *)
(* meantime is sent without one.                                           *)
SendScore(h) ==
    /\ h \in reading /\ h[1] = "score"
    /\ reading' = reading \ {h}
    /\ scores_sent_to_rankings' = scores_sent_to_rankings \cup {h[2]}
    /\ EnqueueData([Nothing EXCEPT !.submissions = {h[2]}, !.scores[h[2]] = h[3]])
    /\ reordered' = (reordered \/ h[3] # score[h[2]])
    /\ UNCHANGED <<database, calls, tokens_sent_to_rankings, sending, stage, ranking,
                   failed, rejected, overwritten, lost, events>>

SendToken(h) ==
    /\ h \in reading /\ h[1] = "token"
    /\ reading' = reading \ {h}
    /\ tokens_sent_to_rankings' = tokens_sent_to_rankings \cup {h[2]}
    /\ EnqueueData([Nothing EXCEPT !.submissions = {h[2]}, !.tokens = {h[2]}])
    /\ UNCHANGED <<database, calls, scores_sent_to_rankings, sending, stage, ranking,
                   failed, rejected, history>>

-----------------------------------------------------------------------------
(* ProxyExecutor.execute: one request for each type of entity that has     *)
(* data, in the order of the types.                                        *)

Following(t) ==
    CASE t = "base" -> "submissions" [] t = "submissions" -> "subchanges"
      [] OTHER -> "idle"

TakeBatch(r) ==
    /\ stage[r] = "idle" /\ pending[r] # Nothing
    /\ sending' = [sending EXCEPT ![r] = pending[r]]
    /\ pending' = [pending EXCEPT ![r] = Nothing]
    /\ stage' = [stage EXCEPT ![r] = "base"]
    /\ UNCHANGED <<database, calls, reading, sentVars, ranking, failed, rejected, history>>

PartFor(r, t) ==
    CASE t = "base" -> [Nothing EXCEPT !.base = sending[r].base]
      [] t = "submissions" -> [Nothing EXCEPT !.submissions = sending[r].submissions]
      [] OTHER -> [sending[r] EXCEPT !.base = FALSE, !.submissions = {}]

Without(d, t) ==
    CASE t = "base" -> [d EXCEPT !.base = FALSE]
      [] t = "submissions" -> [d EXCEPT !.submissions = {}]
      [] OTHER -> [Nothing EXCEPT !.base = d.base, !.submissions = d.submissions]

(* The ranking's check that the entities refer to ones it has. A user that *)
(* is hidden is not among those it was sent.                               *)
Accepts(r, part) ==
    /\ part.submissions # {} => ranking[r].base /\ part.submissions \cap hidden = {}
    /\ {s \in Submissions : part.scores[s] # 0} \cup part.tokens
           \subseteq ranking[r].submissions

PutData(r) ==
    /\ stage[r] # "idle"
    /\ Accepts(r, PartFor(r, stage[r]))
    /\ ranking' = [ranking EXCEPT ![r] = Combined(@, PartFor(r, stage[r]))]
    /\ stage' = [stage EXCEPT ![r] = Following(@)]
    /\ sending' = [sending EXCEPT ![r] = Without(@, stage[r])]
    /\ UNCHANGED <<database, calls, reading, sentVars, pending, failed, rejected, history>>

(* CannotSendError: the rest of the data is dropped.                       *)
Abandon(r) ==
    /\ stage' = [stage EXCEPT ![r] = "idle"]
    /\ sending' = [sending EXCEPT ![r] = Nothing]
    /\ UNCHANGED <<database, calls, reading, sentVars, pending, ranking>>

PutRejected(r) ==
    /\ stage[r] # "idle"
    /\ ~Accepts(r, PartFor(r, stage[r]))
    /\ rejected' = rejected \cup {r}
    /\ Abandon(r) /\ UNCHANGED <<history, failed>>

PutFails(r) ==
    /\ stage[r] # "idle" /\ PartFor(r, stage[r]) # Nothing
    /\ events < MaxEvents
    /\ events' = events + 1
    /\ failed' = failed \cup {r}
    /\ Abandon(r) /\ UNCHANGED <<reordered, overwritten, lost, rejected>>

(* Mutation: what was sent is remembered, what was queued is not.          *)
SentAtStartKept == scores_sent_to_rankings

SentAtStart == {}

(* A new ProxyService: initialize comes before the sweeper.                *)
ProxyRestarts ==
    /\ events < MaxEvents
    /\ events' = events + 1
    /\ reading' = {}
    /\ scores_sent_to_rankings' = SentAtStart /\ tokens_sent_to_rankings' = {}
    /\ pending' = [r \in Rankings |-> InitialData]
    /\ sending' = [r \in Rankings |-> Nothing]
    /\ stage' = [r \in Rankings |-> "idle"]
    /\ failed' = {} /\ rejected' = {}
    /\ UNCHANGED <<database, calls, ranking, reordered, overwritten, lost>>

ProxyNext ==
    \/ \E s \in Submissions : \/ ScoreCommitted(s) \/ ScoreInvalidated(s) \/ TokenUsed(s)
                              \/ SubmissionScored(s) \/ SubmissionTokened(s) \/ ProxySweeps(s)
    \/ \E c \in calls : CallLost(c)
    \/ DatasetUpdated
    \/ \E h \in reading : SendScore(h) \/ SendToken(h)
    \/ \E r \in Rankings : TakeBatch(r) \/ PutData(r) \/ PutRejected(r) \/ PutFails(r)
    \/ ProxyRestarts

-----------------------------------------------------------------------------
(* As long as no request to it has failed, a ranking never refuses what it *)
(* is sent: contest, users and tasks reach it before the submissions that  *)
(* refer to them, and these before their scores, after a restart and while *)
(* the sweeper and notifications overlap; nothing hidden is sent.          *)
NeverRejected == rejected \subseteq failed

Shows(r) ==
    \A s \in Submissions \ hidden :
        /\ score[s] # 0 => ranking[r].scores[s] = score[s]
        /\ s \in tokened => s \in ranking[r].tokens

(* Every ranking in the end shows the scores and the tokens, although      *)
(* calls are lost and the services are restarted, and refuses nothing. It  *)
(* may not once a request failed, a result changed while it was being      *)
(* sent, or the call that tells of a second score was lost.                *)
RankingsCatchUp ==
    /\ []NeverRejected
    /\ \A r \in Rankings :
        []<>(r \in failed \/ reordered \/ (overwritten /\ lost) \/ Shows(r))

(* What the documentation says of ProxyService.                            *)
RankingsUpdated == \A r \in Rankings : []<>(reordered \/ (overwritten /\ lost) \/ Shows(r))
=============================================================================
