--------------------------- MODULE ScoringService ---------------------------
(***************************************************************************)
(* ScoringService (cms/service/ScoringService.py, scoringoperations.py):   *)
(* results that are evaluated, or could not be compiled, get a score.      *)
(* EvaluationService announces them and may invalidate them again, an      *)
(* administrator may ask for new scores, and the sweeper finds what was    *)
(* not announced.                                                          *)
(*                                                                         *)
(* An evaluation is told apart by a number, and its score is that number:  *)
(* a score shows which evaluation it was computed from. Evaluation 1       *)
(* earns the maximum. Sessions are READ COMMITTED, and whatever waits for  *)
(* the database lets other greenlets and services go on.                   *)
(***************************************************************************)
EXTENDS Naturals, FiniteSets

CONSTANTS
    Results,            \* of submissions, on a dataset
    NoResult,
    MaxEvaluations,     \* bounds the evaluations of each submission
    MaxRescores,        \* bounds the calls of invalidate_submission
    MaxFaults           \* bounds lost calls and restarts together

ASSUME ScoringAssumption ==
    /\ NoResult \notin Results
    /\ MaxEvaluations \in Nat /\ MaxRescores \in Nat /\ MaxFaults \in Nat

VARIABLES
    data,           \* per submission: its evaluation in the database, or 0
    evaluations,    \* per submission: how many there were
    result_scores,         \* per submission: the evaluation its score is of, or 0
    solved,         \* task.solved
    firstbloods,    \* the announcements of a first blood
    scorer_queue,
    scoring,        \* the submission execute works on
    computed,       \* the evaluation it has read
    raced,          \* a result was invalidated while execute worked on it
    rescores,       \* how often invalidate_submission was called
    announced,      \* calls of new_evaluation on their way
    faults          \* how many faults there were

resultVars == <<data, evaluations, result_scores, solved, firstbloods>>
scorerVars == <<scorer_queue, scoring, computed>>
scoringVars == <<resultVars, scorerVars, raced, rescores, announced, faults>>

ScoringInit ==
    /\ data = [s \in Results |-> 0]
    /\ evaluations = [s \in Results |-> 0]
    /\ result_scores = [s \in Results |-> 0]
    /\ solved = FALSE /\ firstbloods = 0
    /\ scorer_queue = {} /\ scoring = NoResult /\ computed = 0
    /\ raced = FALSE /\ rescores = 0
    /\ announced = {}
    /\ faults = 0

(* FILTER_SUBMISSION_RESULTS_TO_SCORE, needs_scoring.                      *)
NeedsScoring(s) == data[s] # 0 /\ result_scores[s] = 0

(* EvaluationService ends the evaluation (or a compilation that failed)    *)
(* and calls new_evaluation.                                               *)
EvaluationEnds(s) ==
    /\ data[s] = 0 /\ evaluations[s] < MaxEvaluations
    /\ evaluations' = [evaluations EXCEPT ![s] = @ + 1]
    /\ data' = [data EXCEPT ![s] = evaluations[s] + 1]
    /\ announced' = announced \cup {s}
    /\ UNCHANGED <<result_scores, solved, firstbloods, scorerVars, raced, rescores, faults>>

(* invalidate_score.                                                       *)
WithoutScore(s) == [result_scores EXCEPT ![s] = 0]

(* invalidate_evaluation, by EvaluationService.                            *)
EvaluationInvalidated(s) ==
    /\ data[s] # 0 /\ evaluations[s] < MaxEvaluations
    /\ data' = [data EXCEPT ![s] = 0]
    /\ result_scores' = WithoutScore(s)
    /\ raced' = (raced \/ s = scoring)
    /\ UNCHANGED <<evaluations, solved, firstbloods, scorerVars, rescores, announced, faults>>

NewEvaluation(s) ==
    /\ s \in announced
    /\ announced' = announced \ {s}
    /\ scorer_queue' = scorer_queue \cup {s}
    /\ UNCHANGED <<resultVars, scoring, computed, raced, rescores, faults>>

(* Mutation: the sweeper passes over what was scored once.                 *)
MissingScoreOnce(s) == NeedsScoring(s) /\ evaluations[s] = 1

MissingScore(s) == NeedsScoring(s)

(* _missing_operations and get_operations.                                 *)
ScorerSweeps(s) ==
    /\ MissingScore(s)
    /\ scorer_queue' = scorer_queue \cup {s}
    /\ UNCHANGED <<resultVars, scoring, computed, raced, rescores, announced, faults>>

(* ScoringService.invalidate_submission.                                   *)
InvalidateScore(s) ==
    /\ result_scores[s] # 0 /\ rescores < MaxRescores
    /\ result_scores' = WithoutScore(s)
    /\ scorer_queue' = scorer_queue \cup {s}
    /\ rescores' = rescores + 1
    /\ UNCHANGED <<data, evaluations, solved, firstbloods, scoring, computed, raced, announced,
                   faults>>

(* execute, until the score is computed: it raises, or returns, when there *)
(* is nothing to score.                                                    *)
ExecuteReads(s) ==
    /\ scoring = NoResult /\ s \in scorer_queue
    /\ scorer_queue' = scorer_queue \ {s}
    /\ IF NeedsScoring(s) THEN scoring' = s /\ computed' = data[s]
                          ELSE UNCHANGED <<scoring, computed>>
    /\ UNCHANGED <<resultVars, raced, rescores, announced, faults>>

MaxScoreEvaluation == 1

(* Mutation: every full score is announced.                                *)
IsFirstBloodAlways == computed = MaxScoreEvaluation

IsFirstBlood == computed = MaxScoreEvaluation /\ ~solved

(* The commit; then submission_scored is called (see ProxyService).        *)
ExecuteCommits ==
    /\ scoring # NoResult
    /\ result_scores' = [result_scores EXCEPT ![scoring] = computed]
    /\ firstbloods' = firstbloods + (IF IsFirstBlood THEN 1 ELSE 0)
    /\ solved' = (solved \/ computed = MaxScoreEvaluation)
    /\ scoring' = NoResult /\ computed' = 0
    /\ UNCHANGED <<data, evaluations, scorer_queue, raced, rescores, announced, faults>>

AnnouncementLost(c) ==
    /\ c \in announced /\ faults < MaxFaults
    /\ announced' = announced \ {c}
    /\ faults' = faults + 1
    /\ UNCHANGED <<resultVars, scorerVars, raced, rescores>>

ScorerRestarts ==
    /\ faults < MaxFaults
    /\ faults' = faults + 1
    /\ scorer_queue' = {} /\ scoring' = NoResult /\ computed' = 0
    /\ UNCHANGED <<resultVars, raced, rescores, announced>>

ScoringNext ==
    \/ \E s \in Results : \/ EvaluationEnds(s) \/ EvaluationInvalidated(s)
                              \/ NewEvaluation(s) \/ ScorerSweeps(s)
                              \/ InvalidateScore(s) \/ ExecuteReads(s)
    \/ ExecuteCommits
    \/ \E c \in announced : AnnouncementLost(c)
    \/ ScorerRestarts

ScoringSpec == ScoringInit /\ [][ScoringNext]_scoringVars

-----------------------------------------------------------------------------
(* The first blood of a task is announced once, whatever is rejudged,      *)
(* rescored or restarted in between.                                       *)
FirstBloodOnce == firstbloods <= 1

(* A result that is evaluated and stays so gets a score, announced or not.  *)
EventuallyScored == \A s \in Results : []<>~NeedsScoring(s)

(* The score of a result is that of its present evaluation: execute does   *)
(* not look again at the result before it commits, so it holds as long as  *)
(* no result was invalidated under execute's hands.                        *)
ScoreIsCurrent == raced \/ \A s \in Results : result_scores[s] \in {0, data[s]}

(* Both, under rejudging, rescoring, lost calls and restarts.              *)
ScoringSound == FirstBloodOnce /\ ScoreIsCurrent
=============================================================================
