---------------------------- MODULE ESOperations ----------------------------
(***************************************************************************)
(* Which operations the database asks for (cms/service/esoperations.py),   *)
(* and what the results of operations do to it (cms/grading/Job.py, the    *)
(* result classes of cms/db). There is one dataset, so a result is         *)
(* identified by its object: a submission of a task judged by testcases, a *)
(* match of a PvP task (played on one testcase), or a user test.           *)
(***************************************************************************)
EXTENDS Naturals, FiniteSets

CONSTANTS
    Submissions, Matches, UserTests,
    Testcases,
    NoTestcase      \* the testcase of an operation that has none

ASSUME ObjectsAssumption ==
    /\ Submissions \cap Matches = {}
    /\ Submissions \cap UserTests = {}
    /\ Matches \cap UserTests = {}
    /\ NoTestcase \notin Testcases
    /\ Testcases # {}

Objects == Submissions \cup Matches \cup UserTests

MAX_COMPILATION_TRIES == 1
MAX_EVALUATION_TRIES == 1
MAX_USER_TEST_COMPILATION_TRIES == 3
MAX_USER_TEST_EVALUATION_TRIES == 3

(* An ESOperation. COMPILATION and USER_TEST_COMPILATION are told apart by *)
(* the object; "evaluate" stands for EVALUATION, MATCH and                 *)
(* USER_TEST_EVALUATION in the same way.                                   *)
Compilation(x) == <<"compile", x, NoTestcase>>

Evaluations(x) ==
    {<<"evaluate", x, t>> : t \in IF x \in Submissions THEN Testcases
                                                       ELSE {NoTestcase}}

Compilations(x) == IF x \in Matches THEN {} ELSE {Compilation(x)}

OperationsOf(x) == Compilations(x) \cup Evaluations(x)

ESOperation == UNION {OperationsOf(x) : x \in Objects}

ObjectOf(op) == op[2]

IsCompilation(op) == op[1] = "compile"

(***************************************************************************)
(* The rows of SubmissionResult, MatchResult and UserTestResult. outcome   *)
(* is the compilation outcome, or whether the Evaluation or Matching of    *)
(* the operation exists; evaluated is evaluation_outcome; version is the   *)
(* version of the sources' judgement (see epoch in EvaluationService) that *)
(* the stored outcome was computed for. A result that does not exist reads *)
(* as a blank one: the code treats the two alike.                          *)
(***************************************************************************)
BlankDB ==
    [outcome |-> [op \in ESOperation |-> "none"],
     version |-> [op \in ESOperation |-> 0],
     evaluated |-> [x \in Objects |-> FALSE],
     compilation_tries |-> [x \in Objects |-> 0],
     evaluation_tries |-> [x \in Objects |-> 0]]

(* compilation_succeeded; a match has nothing to compile.                  *)
CompilationSucceeded(db, x) ==
    x \in Matches \/ db.outcome[Compilation(x)] = "ok"

CompilationFailed(db, x) ==
    x \notin Matches /\ db.outcome[Compilation(x)] = "fail"

(* submission_to_compile and user_test_to_compile.                         *)
ToCompile(db, x, maxTries) ==
    /\ x \notin Matches
    /\ db.outcome[Compilation(x)] = "none"
    /\ db.compilation_tries[x] < maxTries

(* submission_to_evaluate, user_test_to_evaluate and match_to_evaluate.    *)
ToEvaluate(db, x, maxTries) ==
    /\ CompilationSucceeded(db, x)
    /\ ~db.evaluated[x]
    /\ db.evaluation_tries[x] < maxTries

Unevaluated(db, x) == {op \in Evaluations(x) : db.outcome[op] = "none"}

(* submission_get_operations and user_test_get_operations, with the        *)
(* numbers of tries they allow.                                            *)
WithTries(db, x, maxCompilations, maxEvaluations) ==
    IF ToCompile(db, x, maxCompilations) THEN {Compilation(x)}
    ELSE IF ToEvaluate(db, x, maxEvaluations) THEN Unevaluated(db, x)
    ELSE {}

(* What new_submission, new_user_test, new_match and the end of an         *)
(* operation enqueue. match_get_operations looks at no number of tries.    *)
GetOperations(db, x) ==
    IF x \in Submissions
    THEN WithTries(db, x, MAX_COMPILATION_TRIES, MAX_EVALUATION_TRIES)
    ELSE IF x \in UserTests
    THEN WithTries(db, x, MAX_USER_TEST_COMPILATION_TRIES,
                          MAX_USER_TEST_EVALUATION_TRIES)
    ELSE Unevaluated(db, x)

(* Mutation: the sweeper only looks for missing compilations.              *)
SweptCompilations(db, x) ==
    IF ToCompile(db, x, MAX_COMPILATION_TRIES) THEN {Compilation(x)} ELSE {}

(* What the sweeper enqueues: get_submissions_operations,                  *)
(* get_user_tests_operations and get_match_operations. The filters of the  *)
(* user tests allow as many tries as those of the submissions.             *)
SweptOperations(db, x) ==
    WithTries(db, x, MAX_COMPILATION_TRIES, MAX_EVALUATION_TRIES)

(* get_relevant_operations for one submission.                             *)
RelevantOperations(level, x) ==
    IF level = "compilation" THEN OperationsOf(x) ELSE Evaluations(x)

-----------------------------------------------------------------------------
(* Mutation: evaluation_outcome is not reset.                              *)
BlankedRows(db, x, ops) ==
    [db EXCEPT
        !.outcome = [op \in ESOperation |-> IF op \in ops THEN "none" ELSE @[op]],
        !.evaluation_tries[x] = 0,
        !.compilation_tries[x] = IF Compilations(x) \cap ops = {} THEN @ ELSE 0]

(* invalidate_evaluation and invalidate_compilation, given the operations  *)
(* whose data they blank.                                                  *)
Blanked(db, x, ops) ==
    [db EXCEPT
        !.outcome = [op \in ESOperation |-> IF op \in ops THEN "none" ELSE @[op]],
        !.evaluated[x] = FALSE,
        !.evaluation_tries[x] = 0,
        !.compilation_tries[x] = IF Compilations(x) \cap ops = {} THEN @ ELSE 0]

InvalidateEvaluation(db, x) == Blanked(db, x, Evaluations(x))

InvalidateCompilation(db, x) == Blanked(db, x, OperationsOf(x))

(* The outcomes a worker can report for an operation: a compilation that   *)
(* produced executables or not, an evaluation, a job that failed, and one  *)
(* that found an executable deleted, which counts as a failure unless it   *)
(* evaluates a submission or a match.                                      *)
Outcomes(op) ==
    IF IsCompilation(op) THEN {"ok", "fail", "error"}
    ELSE IF ObjectOf(op) \in UserTests THEN {"ok", "error"}
    ELSE {"ok", "error", "tombstone"}

(* write_results_one_row: CompilationJob.to_submission and to_user_test    *)
(* blank everything first; inserting an Evaluation or a Matching that is   *)
(* there already violates a uniqueness constraint and changes nothing; a   *)
(* user test has no such row, its new outcome replaces the old one.        *)
WriteRow(db, op, result, v) ==
    LET x == ObjectOf(op) IN
    CASE result = "error" /\ IsCompilation(op) ->
           [db EXCEPT !.compilation_tries[x] = @ + 1]
      [] result = "error" /\ ~IsCompilation(op) ->
           [db EXCEPT !.evaluation_tries[x] = @ + 1]
      [] result = "tombstone" ->
           IF x \in Submissions /\ CompilationSucceeded(db, x)
           THEN InvalidateCompilation(db, x) ELSE db
      [] result \in {"ok", "fail"} /\ IsCompilation(op) ->
           [InvalidateCompilation(db, x) EXCEPT
               !.outcome[op] = result, !.version[op] = v]
      [] result = "ok" /\ ~IsCompilation(op) /\ x \in UserTests ->
           [InvalidateEvaluation(db, x) EXCEPT
               !.outcome[op] = "ok", !.version[op] = v, !.evaluated[x] = TRUE]
      [] OTHER ->
           IF db.outcome[op] # "none" THEN db
           ELSE [db EXCEPT !.outcome[op] = "ok", !.version[op] = v]

(* The second pass of write_results: evaluation_outcome is set once the    *)
(* number of Evaluations or Matchings is the number expected.              *)
AllEvaluated(db, x) == x \notin UserTests /\ Unevaluated(db, x) = {}

SetEvaluationOutcome(db, X) ==
    [db EXCEPT !.evaluated =
        [x \in Objects |-> @[x] \/ (x \in X /\ AllEvaluated(db, x))]]

=============================================================================
