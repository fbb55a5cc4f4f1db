----------------------------- MODULE TaskScore ------------------------------
(***************************************************************************)
(* The scores of submissions and of a user in a task, what a user is shown *)
(* of them, and what the ranking makes of them (cms/grading/scoretypes,    *)
(* cms/grading/scoring.py).                                                *)
(*                                                                         *)
(* An outcome counts halves of a point and a score fraction quarters, so   *)
(* that the product of two outcomes is a number; longer ones are rounded.  *)
(***************************************************************************)
EXTENDS RankingScore, SequencesExt

CONSTANTS
    Public,         \* the testcases 1, 2, ... and whether they are public
    Parameters,     \* of a group score type, for each subtask: its maximum and
                    \* how many testcases it takes, [max, count], or the
                    \* testcases whose names match, [max, matching]
    Threshold,      \* of GroupThreshold, an outcome
    NumSubmissions,
    Missing, Unscored, Uncompiled   \* for a submission that has no outcomes

Testcases == DOMAIN Public
Outcomes == 0 .. 2
ScoreTypes == {"Sum", "GroupMin", "GroupMul", "GroupThreshold"}

SumSeq(s) == SumTo(s, Len(s))

(* retrieve_target_testcases.                                              *)
Targets ==
    IF \A st \in DOMAIN Parameters : "count" \in DOMAIN Parameters[st]
    THEN [st \in DOMAIN Parameters |->
            LET before == SumSeq([i \in 1 .. (st - 1) |-> Parameters[i].count])
            IN  SubSeq([t \in Testcases |-> t], before + 1, before + Parameters[st].count)]
    ELSE [st \in DOMAIN Parameters |-> SetToSortSeq(Parameters[st].matching, <)]

ASSUME TaskScoreAssumption ==
    /\ Public \in Seq(BOOLEAN) /\ NumSubmissions \in Nat
    /\ DOMAIN Parameters = 1 .. Len(Parameters) /\ Len(Parameters) \in Nat
    /\ \A st \in DOMAIN Parameters :
          /\ Parameters[st].max \in Nat \ {0}
          /\ Targets[st] \in Seq(Testcases) /\ Targets[st] # <<>>
    /\ Threshold \in Outcomes \ {0}
    /\ Missing \notin {Unscored, Uncompiled} /\ Unscored # Uncompiled
    /\ \A x \in {Missing, Unscored, Uncompiled} : x \notin [Testcases -> Outcomes]

VARIABLES
    score_type, score_mode,
    results,    \* per submission, by time: Missing before it is made,
                \* Unscored, Uncompiled, or the outcomes of its evaluations
    tokened,    \* the submissions with a token
    ranked      \* per submission: the result last sent to the ranking

taskVars == <<score_type, score_mode, results, tokened, ranked>>

Ids == 1 .. NumSubmissions
Evaluated(r) == r \notin {Missing, Unscored, Uncompiled}
Scored(r) == r \notin {Missing, Unscored}

-----------------------------------------------------------------------------
(* The score types.                                                        *)

(* get_public_outcome of the group score types.                            *)
IsCorrect(o, type) ==
    IF type = "GroupThreshold" THEN 0 < o /\ o <= Threshold ELSE o >= 2

PublicOutcome(o, type) ==
    CASE IsCorrect(o, type) -> "Correct"
      [] ~IsCorrect(o, type) /\ (o = 0 \/ type = "GroupThreshold") -> "Not correct"
      [] OTHER -> "Partially correct"

(* reduce of the group score types.                                        *)
ReduceMin(os) == 2 * Min(Range(os))

ReduceMul(os) ==
    LET product[i \in 0 .. Len(os)] == IF i = 0 THEN 4 ELSE (product[i - 1] * os[i]) \div 2
    IN  product[Len(os)]

ReduceThreshold(os) ==
    IF \A o \in Range(os) : 0 < o /\ o <= Threshold THEN 4 ELSE 0

Reduce(os, type) ==
    CASE type = "GroupMin" -> ReduceMin(os)
      [] type = "GroupMul" -> ReduceMul(os)
      [] OTHER -> ReduceThreshold(os)

(* Mutation: any testcase before it that is not correct hides a testcase.  *)
ShownInRestrictedAny(r, targets, i, type) ==
    \A j \in 1 .. (i - 1) : IsCorrect(r[targets[j]], type)

(* show_in_restricted_feedback: only public testcases hide later ones.     *)
ShownInRestricted(r, targets, i, type) ==
    \A j \in 1 .. (i - 1) : Public[targets[j]] => IsCorrect(r[targets[j]], type)

(* The details of the i-th testcase of a subtask.                          *)
TestcaseDetails(r, targets, i, type) ==
    [idx |-> targets[i], outcome |-> PublicOutcome(r[targets[i]], type),
     shown |-> ShownInRestricted(r, targets, i, type)]

AllPublic(targets) == \A t \in Range(targets) : Public[t]

SubtaskDetails(r, st, type) ==
    LET targets == Targets[st]
    IN  [fraction |-> Reduce([i \in DOMAIN targets |-> r[targets[i]]], type),
         max_score |-> Parameters[st].max,
         testcases |-> [i \in DOMAIN targets |-> TestcaseDetails(r, targets, i, type)]]

(* compute_score of a group: full or, for users without a token, public.   *)
PublicSubtask(r, st, type) ==
    LET d == SubtaskDetails(r, st, type)
    IN  IF AllPublic(Targets[st]) THEN d
        ELSE [testcases |->
               [i \in DOMAIN d.testcases |->
                  IF Public[d.testcases[i].idx] THEN d.testcases[i]
                  ELSE [idx |-> d.testcases[i].idx]]]

GroupScore(r, type) ==
    LET details == [st \in DOMAIN Parameters |-> SubtaskDetails(r, st, type)]
        score == [st \in DOMAIN details |-> details[st].fraction * details[st].max_score]
    IN  [score |-> SumSeq(score), details |-> details,
         public_score |-> SumSeq([st \in DOMAIN details |->
             IF AllPublic(Targets[st]) THEN score[st] ELSE 0]),
         public_details |-> [st \in DOMAIN Parameters |-> PublicSubtask(r, st, type)],
         extra |-> score]

(* compute_score of Sum; a testcase is worth one point.                    *)
SumScore(r) ==
    LET details == [t \in Testcases |-> [idx |-> t, outcome |-> PublicOutcome(r[t], "Sum")]]
    IN  [score |-> SumSeq([t \in Testcases |-> 2 * r[t]]), details |-> details,
         public_score |-> SumSeq([t \in Testcases |-> IF Public[t] THEN 2 * r[t] ELSE 0]),
         public_details |-> [t \in Testcases |->
             IF Public[t] THEN details[t] ELSE [idx |-> t]],
         extra |-> <<>>]

Zero(type) ==
    [score |-> 0, details |-> <<>>, public_score |-> 0, public_details |-> <<>>,
     extra |-> IF type = "Sum" THEN <<>> ELSE [st \in DOMAIN Parameters |-> 0]]

(* A score type computes the same for the same outcomes.                   *)
ScoreTable ==
    [type \in ScoreTypes |-> [r \in [Testcases -> Outcomes] |->
        IF type = "Sum" THEN SumScore(r) ELSE GroupScore(r, type)]]

ComputeScore(r, type) == IF Evaluated(r) THEN ScoreTable[type][r] ELSE Zero(type)

(* max_scores: the maximum of the score and of the public score.           *)
SumMaxScores ==
    <<SumSeq([t \in Testcases |-> 4]), SumSeq([t \in Testcases |-> IF Public[t] THEN 4 ELSE 0])>>

GroupMaxScores ==
    <<SumSeq([st \in DOMAIN Parameters |-> 4 * Parameters[st].max]),
      SumSeq([st \in DOMAIN Parameters |->
                IF AllPublic(Targets[st]) THEN 4 * Parameters[st].max ELSE 0])>>

MaxScores(type) == IF type = "Sum" THEN SumMaxScores ELSE GroupMaxScores

(* get_html_details: the testcases a user sees, the others are "N/A".      *)
GroupTemplate(details, level) ==
    [st \in DOMAIN details |->
        [details[st] EXCEPT !.testcases =
            [i \in DOMAIN @ |->
                IF "outcome" \in DOMAIN @[i] /\ (level = "full" \/ @[i].shown)
                THEN @[i].outcome ELSE "N/A"]]]

SumTemplate(details) ==
    [t \in DOMAIN details |->
        IF "outcome" \in DOMAIN details[t] THEN details[t].outcome ELSE "N/A"]

GetHtmlDetails(details, type, level) ==
    IF type = "Sum" THEN SumTemplate(details) ELSE GroupTemplate(details, level)

-----------------------------------------------------------------------------
(* task_score.                                                             *)

(* Nothing for what did not compile; details without "score_fraction", or  *)
(* of nothing, count as one subtask.                                       *)
SubtaskScores(score, details) ==
    CASE details = <<>> /\ score = 0 -> <<>>
      [] details # <<>> /\ (\A st \in DOMAIN details : "fraction" \in DOMAIN details[st]) ->
           [st \in DOMAIN details |-> details[st].fraction * details[st].max_score]
      [] OTHER -> <<score>>

(* The submissions, by time, are numbers.                                  *)
TaskScoreMax(es) == Greatest({es[s].score : s \in DOMAIN es})

TaskScoreMaxTokenedLast(es) ==
    Greatest({es[s].score : s \in {t \in DOMAIN es : t = Max(DOMAIN es) \/ es[t].tokened}})

(* Mutation: the best submission as a whole.                               *)
TaskScoreMaxSubtaskWhole(es) == Greatest({SumSeq(es[s].subtasks) : s \in DOMAIN es})

TaskScoreMaxSubtask(es) ==
    LET max_scores(idx) ==
            Greatest({es[s].subtasks[idx] : s \in {t \in DOMAIN es : idx \in DOMAIN es[t].subtasks}})
        last == Greatest(UNION {DOMAIN es[s].subtasks : s \in DOMAIN es})
    IN  SumTo([idx \in 1 .. last |-> max_scores(idx)], last)

(* Scores that only_tokened hides are as if they were not there yet.       *)
Hidden(s, only_tokened) == only_tokened /\ s \notin tokened

Entry(s, c, public, only_tokened) ==
    [tokened |-> s \in tokened,
     score |-> CASE Hidden(s, only_tokened) -> 0
                 [] ~Hidden(s, only_tokened) /\ public -> c.public_score
                 [] OTHER -> c.score,
     subtasks |-> CASE Hidden(s, only_tokened) -> SubtaskScores(0, <<>>)
                    [] ~Hidden(s, only_tokened) /\ public ->
                         SubtaskScores(c.public_score, c.public_details)
                    [] OTHER -> SubtaskScores(c.score, c.details)]

(* Only what is scored is looked at, also for the last submission.         *)
Entries(rs, public, only_tokened) ==
    [s \in {t \in Ids : Scored(rs[t])} |->
        Entry(s, ComputeScore(rs[s], score_type), public, only_tokened)]

TaskScoreOf(es) ==
    CASE DOMAIN es = {} -> 0
      [] DOMAIN es # {} /\ score_mode = "max" -> TaskScoreMax(es)
      [] DOMAIN es # {} /\ score_mode = "max_subtask" -> TaskScoreMaxSubtask(es)
      [] OTHER -> TaskScoreMaxTokenedLast(es)

ScoreOf(rs, public, only_tokened) == TaskScoreOf(Entries(rs, public, only_tokened))

-----------------------------------------------------------------------------

TaskInit ==
    /\ score_type \in ScoreTypes
    /\ score_mode \in {"max", "max_subtask", "max_tokened_last"}
    /\ results = [s \in Ids |-> Missing]
    /\ tokened = {}
    /\ ranked = [s \in Ids |-> Missing]

Submit(s) ==
    /\ results[s] = Missing
    /\ s > 1 => results[s - 1] # Missing
    /\ results' = [results EXCEPT ![s] = Unscored]
    /\ UNCHANGED <<score_type, score_mode, tokened, ranked>>

(* ScoringService, and at once ProxyService.                               *)
Score(s, r) ==
    /\ results[s] = Unscored
    /\ results' = [results EXCEPT ![s] = r]
    /\ ranked' = [ranked EXCEPT ![s] = r]
    /\ UNCHANGED <<score_type, score_mode, tokened>>

(* The ranking keeps the score it has.                                     *)
Invalidate(s) ==
    /\ Scored(results[s])
    /\ results' = [results EXCEPT ![s] = Unscored]
    /\ UNCHANGED <<score_type, score_mode, tokened, ranked>>

PlayToken(s) ==
    /\ results[s] # Missing /\ s \notin tokened
    /\ tokened' = tokened \cup {s}
    /\ UNCHANGED <<score_type, score_mode, results, ranked>>

TaskNext ==
    \E s \in Ids :
        \/ Submit(s) \/ Invalidate(s) \/ PlayToken(s) \/ Score(s, Uncompiled)
        \/ \E r \in [Testcases -> Outcomes] : Score(s, r)

TaskSpec == TaskInit /\ [][TaskNext]_taskVars

-----------------------------------------------------------------------------
(* What RankingWebServer computes from the score and extra ProxyService    *)
(* sent of each submission.                                                *)
RankingScore ==
    LET known == {s \in Ids : ranked[s] # Missing}
        subs == [s \in Ids |->
                   LET c == ComputeScore(ranked[s], score_type)
                   IN  [score |-> c.score, extra |-> c.extra, token |-> s \in tokened]]
    IN  ScoreNow([s \in known |-> subs[s]], IF known = {} THEN 0 ELSE Max(known), score_mode)

(* The administrators' ranking and the scoreboard agree on every user, in  *)
(* every score mode and for every score type, also while submissions wait  *)
(* for their first score.                                                  *)
RankingAgrees ==
    (\A s \in Ids : Scored(ranked[s]) => Scored(results[s])) =>
        RankingScore = ScoreOf(results, FALSE, FALSE)

(* A user who played no token learns nothing of the private testcases: his *)
(* public score and the details he is shown, restricted or not, are the    *)
(* same whatever their outcomes ("otherwise we might be leaking info on    *)
(* private testcases").                                                    *)
NothingLeaks ==
    \A s \in Ids \ tokened : Evaluated(results[s]) =>
        \A r \in [Testcases -> Outcomes] :
            (\A t \in Testcases : Public[t] => r[t] = results[s][t]) =>
                LET mine == ComputeScore(results[s], score_type)
                    other == ComputeScore(r, score_type)
                IN  /\ mine.public_score = other.public_score
                    /\ \A level \in {"full", "restricted"} :
                         GetHtmlDetails(mine.public_details, score_type, level)
                         = GetHtmlDetails(other.public_details, score_type, level)

(* The tokened score of a task is what the user would have if the other    *)
(* submissions had scored nothing (the docstring of task_score).           *)
OnlyTokenedCounts ==
    LET zeroed == [s \in Ids |-> IF Scored(results[s]) /\ s \notin tokened
                                 THEN Uncompiled ELSE results[s]]
    IN  ScoreOf(results, FALSE, TRUE) = ScoreOf(zeroed, FALSE, FALSE)

(* Scores stay within the maxima shown for the task, and reach them just   *)
(* when every testcase that counts is shown as correct.                    *)
FullMarks ==
    \A s \in Ids : Evaluated(results[s]) =>
        LET c == ComputeScore(results[s], score_type)
            max == MaxScores(score_type)
            counts == IF score_type = "Sum" THEN Testcases
                      ELSE UNION {Range(Targets[st]) : st \in DOMAIN Parameters}
            public == IF score_type = "Sum" THEN {t \in Testcases : Public[t]}
                      ELSE UNION {Range(Targets[st]) : st \in
                                    {i \in DOMAIN Parameters : AllPublic(Targets[i])}}
            correct(ts) == \A t \in ts : PublicOutcome(results[s][t], score_type) = "Correct"
        IN  /\ c.score <= max[1] /\ c.public_score <= max[2]
            /\ (c.score = max[1]) <=> correct(counts)
            /\ (c.public_score = max[2]) <=> correct(public)

(* What users are shown of their submissions, and what it is worth.        *)
ScoresSound == NothingLeaks /\ OnlyTokenedCounts /\ FullMarks
=============================================================================
