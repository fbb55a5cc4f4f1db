--------------------------- MODULE PvPSubmissions ---------------------------
(***************************************************************************)
(* The submissions of one contestant to a PvP task, from batch to batch:   *)
(* EvaluationService compiles them and gives them dummy evaluations        *)
(* (prepare_pvp_evaluation), PvPService marks the last one that compiles   *)
(* for the batch that starts, copies it for the next batch and stores what *)
(* it earned, ScoringService scores it. Three services work on the same    *)
(* rows; a step is a transaction.                                          *)
(*                                                                         *)
(* The task has one testcase. Whom the contestant meets is module Elo's;   *)
(* here a round has a match for the contestant, or none.                   *)
(***************************************************************************)
EXTENDS Integers, Sequences, FiniteSets

CONSTANTS
    MaxCodes,       \* bounds what the contestant submits
    MaxStarted,     \* bounds the batches that start
    MaxTries        \* bounds the compilations that fail for our fault

ASSUME SubmissionsAssumption ==
    MaxCodes \in Nat /\ MaxStarted \in Nat /\ MaxTries \in Nat

VARIABLES
    submissions,    \* by timestamp: the rows of Submission and of its result
    compiling,      \* the compilations EvaluationService knows of
    ended,          \* written, and compilation_ended has not run
    swept,          \* evaluations the sweeper found and has not prepared
    tries,          \* compilations that failed for our fault
    task_batch,     \* Task.pvp_batch
    stage,          \* where the batch is
    player          \* participations: the submission that plays, or 0

submissionVars == <<submissions, compiling, ended, swept, tries, task_batch, stage, player>>

service == <<compiling, ended, swept, tries>>
batch == <<task_batch, stage, player>>

(* A new row: `code` is which of the contestant's programs it has, `good`  *)
(* whether that compiles, `outcome` "missing" while there is no result and *)
(* "none" when the compilation failed for our fault.                       *)
NewSubmission(code, good) ==
    [code |-> code, good |-> good, outcome |-> "missing", discarded |-> FALSE,
     batch |-> 0, evaluation |-> "none", evaluated |-> FALSE, score |-> "none"]

SubmissionsInit ==
    /\ submissions = <<>>
    /\ compiling = {} /\ ended = {} /\ swept = {} /\ tries = 0
    /\ task_batch = 0 /\ stage = "idle" /\ player = 0

Ids == DOMAIN submissions

-----------------------------------------------------------------------------
(* The predicates of SubmissionResult, and the filters that stand for them *)
(* in queries; discarded() looks at the compilation too, the filters only  *)
(* at the flag.                                                            *)

Discarded(s) == submissions[s].outcome = "fail" /\ submissions[s].discarded

FilterPending(s) ==
    ~submissions[s].discarded /\ submissions[s].outcome = "ok" /\ submissions[s].batch = 0

FilterEvaluated(s) == ~submissions[s].discarded /\ submissions[s].evaluated

IsScored(s) == ~Discarded(s) /\ submissions[s].score # "none"

NeedsScoring(s) ==
    (submissions[s].outcome = "fail" \/ submissions[s].evaluated) /\ ~IsScored(s)

(* One failure of ours is enough: MAX_COMPILATION_TRIES is 1.              *)
ToCompile(s) == submissions[s].outcome = "missing"

ToEvaluate(s) == submissions[s].outcome = "ok" /\ ~submissions[s].evaluated

SetDiscarded(r) == [r EXCEPT !.outcome = "fail", !.score = "zero", !.discarded = TRUE]

InvalidateEvaluation(r) ==
    [r EXCEPT !.score = "none", !.evaluated = FALSE, !.evaluation = "none"]

(* The last submission that compiled, and the one that plays a batch; 0    *)
(* for none.                                                               *)
GetLastSubmission ==
    LET ok == {s \in Ids : submissions[s].outcome = "ok"} IN
    IF ok = {} THEN 0 ELSE CHOOSE s \in ok : \A t \in ok : t <= s

GetMatchSubmission ==
    LET mine == {s \in Ids : submissions[s].batch = task_batch} IN
    IF mine = {} THEN 0 ELSE CHOOSE s \in mine : TRUE

-----------------------------------------------------------------------------
(* prepare_pvp_evaluation for an evaluation: a dummy evaluation if there   *)
(* is none; older submissions that wait for a batch are discarded, and the *)
(* submission itself if a newer one waits.                                 *)

WaitsForBatch(t) == FilterPending(t) \/ submissions[t].outcome = "none"

Overtaken(s) == \E t \in Ids : t > s /\ WaitsForBatch(t)

(* Mutation: only the older ones are looked at.                            *)
PreparedOlder(s) ==
    [t \in Ids |->
        IF t = s
        THEN [submissions[s] EXCEPT !.evaluation = IF @ = "none" THEN "dummy" ELSE @]
        ELSE IF t < s /\ WaitsForBatch(t) THEN SetDiscarded(submissions[t])
        ELSE submissions[t]]

Prepared(s) ==
    LET mine == [submissions[s] EXCEPT !.evaluation = IF @ = "none" THEN "dummy" ELSE @]
    IN  [t \in Ids |->
            IF t = s THEN IF Overtaken(s) THEN SetDiscarded(mine) ELSE mine
            ELSE IF t < s /\ WaitsForBatch(t) /\ ~Discarded(t) THEN SetDiscarded(submissions[t])
            ELSE submissions[t]]

-----------------------------------------------------------------------------
(* The contestant.                                                         *)

Codes == {submissions[s].code : s \in Ids}

SubmitCode(good) ==
    LET code == Cardinality(Codes) + 1 IN
    /\ code <= MaxCodes
    /\ submissions' = Append(submissions, NewSubmission(code, good))
    /\ UNCHANGED service /\ UNCHANGED batch

-----------------------------------------------------------------------------
(* EvaluationService. It compiles what it is told of, or finds.            *)
EnqueueCompilation(s) ==
    /\ ToCompile(s) /\ s \notin compiling \cup ended
    /\ compiling' = compiling \cup {s}
    /\ UNCHANGED <<submissions, ended, swept, tries>> /\ UNCHANGED batch

(* The row of the result is made and written. The lock keeps the sweeper   *)
(* away.                                                                   *)
CompilationWritten(s) ==
    /\ s \in compiling /\ swept = {}
    /\ \/ /\ submissions' = [submissions EXCEPT ![s].outcome =
                                IF submissions[s].good THEN "ok" ELSE "fail"]
          /\ UNCHANGED tries
       \/ /\ tries < MaxTries /\ tries' = tries + 1
          /\ submissions' = [submissions EXCEPT ![s].outcome = "none"]
    /\ compiling' = compiling \ {s}
    /\ ended' = ended \cup {s}
    /\ UNCHANGED swept /\ UNCHANGED batch

(* compilation_ended and submission_enqueue_operations: evaluations of a   *)
(* PvP task are prepared instead of enqueued, and a result that has them   *)
(* all is finalized.                                                       *)
CompilationEnded(s) ==
    /\ s \in ended
    /\ ended' = ended \ {s}
    /\ submissions' =
          IF ~ToEvaluate(s) THEN submissions
          ELSE IF submissions[s].evaluation = "none" THEN Prepared(s)
          ELSE [submissions EXCEPT ![s].evaluated = TRUE]
    /\ UNCHANGED <<compiling, swept, tries>> /\ UNCHANGED batch

(* The sweeper finds the results without an evaluation, and prepares them  *)
(* one by one, without looking again at why.                               *)
SweepEvaluations ==
    /\ ended = {} /\ swept = {}
    /\ swept' = {s \in Ids : /\ submissions[s].outcome = "ok"
                             /\ ~FilterEvaluated(s)
                             /\ submissions[s].evaluation = "none"}
    /\ UNCHANGED <<submissions, compiling, ended, tries>> /\ UNCHANGED batch

PrepareSwept(s) ==
    /\ s \in swept
    /\ swept' = swept \ {s}
    /\ submissions' = Prepared(s)
    /\ UNCHANGED <<compiling, ended, tries>> /\ UNCHANGED batch

-----------------------------------------------------------------------------
(* PvPService: the start of a batch, a commit after each step. There are   *)
(* other players; without a submission that compiles, the contestant does  *)
(* not play.                                                               *)
NextBatch ==
    /\ stage = "idle" /\ task_batch < MaxStarted
    /\ task_batch' = task_batch + 1
    /\ stage' = "mark"
    /\ UNCHANGED submissions /\ UNCHANGED service /\ UNCHANGED player

MarkMatchSubmissions ==
    LET s == GetLastSubmission IN
    /\ stage = "mark"
    /\ submissions' =
          IF s = 0 THEN submissions
          ELSE [submissions EXCEPT ![s] = [InvalidateEvaluation(@) EXCEPT !.batch = task_batch]]
    /\ stage' = "copy"
    /\ UNCHANGED service /\ UNCHANGED <<task_batch, player>>

(* The copy is of the last submission, looked up again; nobody is told of  *)
(* it. Then the submission that was marked is read back.                   *)
CopySubmissions ==
    LET s == GetLastSubmission IN
    /\ stage = "copy"
    /\ submissions' =
          IF s = 0 THEN submissions
          ELSE Append(submissions, NewSubmission(submissions[s].code, submissions[s].good))
    /\ player' = GetMatchSubmission
    /\ stage' = "rounds"
    /\ UNCHANGED service /\ UNCHANGED task_batch

(* A round with a match for the contestant: EvaluationService makes the    *)
(* dummy evaluation when it enqueues the match, and discards nothing.      *)
PlayMatch ==
    /\ stage = "rounds" /\ player # 0
    /\ submissions[player].evaluation = "none"
    /\ submissions' = [submissions EXCEPT ![player].evaluation = "dummy"]
    /\ UNCHANGED service /\ UNCHANGED batch

ScoredAnew(r) == [r EXCEPT !.score = "none", !.evaluated = TRUE]

(* batch_ended: update_single_score needs the evaluation, and raises an    *)
(* AttributeError without it, which leaves the batch as it is.             *)
UpdateSingleScore ==
    /\ stage = "rounds"
    /\ IF player = 0 THEN stage' = "idle" /\ UNCHANGED submissions
       ELSE IF submissions[player].evaluation = "none"
       THEN stage' = "raised" /\ UNCHANGED submissions
       ELSE /\ stage' = "update"
            /\ submissions' = [submissions EXCEPT ![player].evaluation = "earned"]
    /\ UNCHANGED service /\ UNCHANGED <<task_batch, player>>

UpdateScore ==
    /\ stage = "update"
    /\ submissions' = [submissions EXCEPT ![player] = ScoredAnew(@)]
    /\ stage' = "idle"
    /\ player' = 0
    /\ UNCHANGED service /\ UNCHANGED task_batch

(* The batch that raised stays as it is; an administrator starts another.  *)
StartAnother ==
    /\ stage = "raised" /\ stage' = "idle" /\ player' = 0
    /\ UNCHANGED submissions /\ UNCHANGED service /\ UNCHANGED task_batch

-----------------------------------------------------------------------------
(* ScoringService, told or by its sweeper: a score of zero for what is not *)
(* evaluated.                                                              *)
ScoreSubmission(s) ==
    /\ NeedsScoring(s)
    /\ submissions' = [submissions EXCEPT ![s].score =
          IF submissions[s].evaluated /\ submissions[s].evaluation = "earned"
          THEN "earned" ELSE "zero"]
    /\ UNCHANGED service /\ UNCHANGED batch

SubmissionsNext ==
    \/ \E good \in BOOLEAN : SubmitCode(good)
    \/ \E s \in Ids : EnqueueCompilation(s)
    \/ \E s \in Ids : CompilationWritten(s)
    \/ \E s \in Ids : CompilationEnded(s)
    \/ SweepEvaluations
    \/ \E s \in Ids : PrepareSwept(s)
    \/ NextBatch
    \/ MarkMatchSubmissions
    \/ CopySubmissions
    \/ PlayMatch
    \/ UpdateSingleScore
    \/ UpdateScore
    \/ StartAnother
    \/ \E s \in Ids : ScoreSubmission(s)

SubmissionsSpec == SubmissionsInit /\ [][SubmissionsNext]_submissionVars

-----------------------------------------------------------------------------
(* EvaluationService has nothing to compile and nothing to prepare.        *)
NothingToJudge ==
    /\ compiling = {} /\ ended = {} /\ swept = {}
    /\ \A s \in Ids : ~ToCompile(s)

(* However compilations, sweeps, batches and copies interleave, when       *)
(* nothing is left to compile at most one submission of the contestant     *)
(* waits for a batch: prepare_pvp_evaluation discards all the others.      *)
OneWaits == NothingToJudge => Cardinality({s \in Ids : FilterPending(s)}) <= 1

(* One submission plays a batch, and it is the one that was marked.        *)
OnePlays ==
    /\ \A s, t \in Ids :
          submissions[s].batch = submissions[t].batch /\ submissions[s].batch # 0 => s = t
    /\ stage = "rounds" /\ player # 0 => submissions[player].batch = task_batch

(* A score of before the batch does not survive it: update_score           *)
(* invalidates it after the evaluation was changed, and ScoringService     *)
(* may score the submission at any moment.                                 *)
EarnedIsShown ==
    \A s \in Ids :
        /\ submissions[s].evaluation = "earned" /\ submissions[s].evaluated
        /\ ~Discarded(s) /\ stage # "update"
        => submissions[s].score \in {"none", "earned"}

PlayersSound == OneWaits /\ OnePlays /\ EarnedIsShown

(* "Discarded because of newer submission." (set_discarded): there is one  *)
(* with a program of the contestant's that is at least as new. TLC finds   *)
(* it violated: the copy of an old program is a newer submission.          *)
DiscardedForNewer ==
    \A s \in Ids : Discarded(s) =>
        \E t \in Ids : t > s /\ submissions[t].code >= submissions[s].code

(* batch_ended does not raise. TLC finds it violated: a contestant who met *)
(* nobody has no evaluation before the sweeper comes by.                   *)
BatchEndedReturns == stage # "raised"
=============================================================================
