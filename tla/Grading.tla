------------------------------ MODULE Grading -------------------------------
(* A worker grading the jobs of a group: sandboxes, the programs running in  *)
(* them, and what the task types make of it.                                *)
(* src/cms/service/Worker.py, src/cms/grading/tasktypes, steps, Sandbox.py  *)
(*                                                                         *)
(* Time passes in ticks.  A program computes or waits during a tick, ends    *)
(* when it likes, and is killed when it has used more than its time or its   *)
(* wall clock time.  The manager of Communication and PvP is the task's own: *)
(* a sound one does no more work than the programs it talks to.             *)
EXTENDS Naturals, Sequences, FiniteSetsExt

CONSTANTS
    None,
    NumProcesses,       \* processes of a Communication submission
    TimeLimit,          \* time limit of the dataset, in ticks
    TrustedTime,        \* time allowed to trusted programs
    BoxesPerWorker,     \* numbers of isolate boxes that a worker uses
    MaxCommands,        \* commands of a compilation
    MaxJobs             \* jobs of the group

-----------------------------------------------------------------------------
(* What the worker makes of the programs it ran in sandboxes.  A log is the  *)
(* set of what isolate reports of a run: the statuses "XX", "TO", "SG",      *)
(* "RE", and "wall" for a message on the wall clock.                        *)

Logs == {{}, {"RE"}, {"SG"}, {"TO"}, {"TO", "wall"}, {"XX"}}

GetExitStatus(log) ==
    CASE "XX" \in log -> "sandbox error"
      [] "TO" \in log /\ "wall" \in log -> "wall timeout"
      [] "TO" \in log /\ "wall" \notin log -> "timeout"
      [] "SG" \in log -> "signal"
      [] "RE" \in log -> "nonzero return"
      [] OTHER -> "ok"

(* isolate ends with 2 if it failed itself.                                 *)
ExitCode(log) == IF "XX" \in log THEN 2 ELSE IF log = {} THEN 0 ELSE 1

TranslateBoxExitcode(code) == code \in {0, 1}

(* The exit statuses that are the program's own doing.                      *)
ProgramErrors == {"timeout", "wall timeout", "nonzero return", "signal"}

Result(success, ran, stats) ==
    [success |-> success, ran |-> ran, stats |-> stats]

Failed == Result(FALSE, None, None)

EvaluationStepAfterRun(log) ==
    LET status == GetExitStatus(log)
    IN CASE status = "ok" -> Result(TRUE, TRUE, status)
         [] status \in ProgramErrors -> Result(TRUE, FALSE, status)
         [] OTHER -> Failed

(* With wait, the exit code of the sandbox is looked at first.              *)
EvaluationStep(log) ==
    IF TranslateBoxExitcode(ExitCode(log)) THEN EvaluationStepAfterRun(log)
    ELSE Failed

(* No message for a program that ended well or for a sandbox that failed.   *)
HumanEvaluationMessage(stats) == IF stats \in ProgramErrors THEN stats
                                 ELSE None

(* The status of the first of two runs that is not OK.  "raises": the       *)
(* second run has no stats.                                                 *)
MergeExecutionStats(first, second) ==
    CASE second = None -> "raises"
      [] second # None /\ first \in {None, "ok"} -> second
      [] OTHER -> first

(* The commands of a step run one after the other, up to the first that is   *)
(* not OK; None if the sandbox failed.                                      *)
GenericStep(logs) ==
    LET bad == {i \in DOMAIN logs : logs[i] # {}}
        log == IF bad = {} THEN {}
               ELSE logs[CHOOSE i \in bad : \A j \in bad : i <= j]
    IN IF TranslateBoxExitcode(ExitCode(log)) THEN GetExitStatus(log)
       ELSE None

(* Success, whether there is an executable, the text.                       *)
CompilationStep(logs) ==
    LET stats == GenericStep(logs)
    IN CASE stats = None -> Failed
         [] stats = "ok" -> Result(TRUE, TRUE, stats)
         [] stats \in ProgramErrors -> Result(TRUE, FALSE, stats)
         [] OTHER -> Failed

TrustedStep(logs) ==
    LET stats == GenericStep(logs)
    IN CASE stats = None -> Failed
         [] stats = "ok" -> Result(TRUE, TRUE, stats)
         [] stats \in ProgramErrors -> Result(TRUE, FALSE, stats)
         [] OTHER -> Failed

(* What a manager or a checker printed: an outcome, or something that is not *)
(* one, for which extract_outcome_and_text raises.                          *)
Printed == {"0", "1", "nonsense"}

(* The checker ran well and printed an outcome: Null otherwise.             *)
CheckerStep(log, printed) ==
    LET trusted == TrustedStep(<<log>>)
    IN IF trusted.success /\ trusted.ran = TRUE /\ printed # "nonsense"
       THEN printed ELSE None

(* What the fields of a job may say.                                        *)
Answers ==
    {"0", "1", "1 0", "0 1", "0.5 0.5", "ok", "empty", "tombstone", "compiled",
     "none needed", "no output", "not submitted", "completed", "compared",
     "checked", "manager", "failed"} \cup ProgramErrors

ASSUME GradingAssumption ==
    /\ BoxesPerWorker \in Nat /\ BoxesPerWorker > 2
    /\ NumProcesses \in 1..(BoxesPerWorker - 1)
    /\ TimeLimit \in Nat \ {0} /\ TrustedTime \in Nat
    /\ None \notin BOOLEAN /\ None \notin Answers \cup {"raises"}

-----------------------------------------------------------------------------
VARIABLES
    phase,      \* what the worker is doing: "idle", "start", "run", "check",
                \* "returned" or "raised"
    job,        \* the job
    programs,   \* the programs started for it
    boxes,      \* its sandboxes: the box number, and what became of it
    next_id,    \* the number of sandboxes made so far
    fifos,      \* whether its directories of fifos exist
    ours,       \* whether something of ours went wrong in this job
    finished    \* the jobs done

gradingVars == <<phase, job, programs, boxes, next_id, fifos, ours, finished>>

-----------------------------------------------------------------------------
(* The jobs.                                                                *)

TaskTypes == {"Batch", "Communication", "PvP", "TwoSteps", "OutputOnly"}

(* keep_sandbox stands for the job's and for the configuration's; a user     *)
(* test is only executed, and its output kept.                              *)
NewJob(type, task_type, user_test) ==
    [type : {type}, task_type : {task_type}, user_test : {user_test},
     keep_sandbox : BOOLEAN, success : {None}, outcome : {None},
     text : {None}, plus : {None}]

(* CompilationJob.from_submission, from_user_test, the same of EvaluationJob *)
(* and MatchJob.from_match.  The evaluations of PvP submissions are never    *)
(* given to workers; OutputOnly tasks are not testable, PvP tasks are.       *)
CompilationOfSubmission(t) == NewJob("compilation", t, FALSE)

CompilationOfUserTest(t) ==
    IF t = "OutputOnly" THEN {} ELSE NewJob("compilation", t, TRUE)

EvaluationOfSubmission(t) ==
    IF t = "PvP" THEN {} ELSE NewJob("evaluation", t, FALSE)

EvaluationOfUserTest(t) ==
    IF t = "OutputOnly" THEN {} ELSE NewJob("evaluation", t, TRUE)

MatchOfSubmissions(t) == IF t = "PvP" THEN NewJob("match", t, FALSE) ELSE {}

FromOperation(t) ==
    CompilationOfSubmission(t) \cup CompilationOfUserTest(t)
    \cup EvaluationOfSubmission(t) \cup EvaluationOfUserTest(t)
    \cup MatchOfSubmissions(t)

(* PvP inherits the evaluate that does nothing.                             *)
NoOp(j) == j.type = "evaluation" /\ j.task_type = "PvP"

(* Who runs, in the order in which the sandboxes are made: the manager, and  *)
(* the programs of contestants from 1; compilation has one sandbox.         *)
Manager == 0

Roles(j) ==
    CASE j.type = "compilation" \/ j.task_type = "Batch" -> <<1>>
      [] j.type # "compilation" /\ j.task_type = "TwoSteps" -> <<1, 2>>
      [] j.type # "compilation" /\ j.task_type = "PvP" -> <<Manager, 1, 2>>
      [] j.type # "compilation" /\ j.task_type = "Communication" ->
             <<Manager>> \o [i \in 1..NumProcesses |-> i]
      [] OTHER -> <<>>

(* The programs of contestants.                                             *)
Processes(j) ==
    IF j.type = "compilation" THEN {}
    ELSE {Roles(j)[i] : i \in DOMAIN Roles(j)} \ {Manager}

(* The limits.  The manager may be no slower than the others together.      *)
TwoOf(m, n) == IF m > n THEN m ELSE n

(* The manager gets the time of one process.                                *)
ManagerTimeLimitOne(n) == TwoOf(TimeLimit + 1, TrustedTime)

ManagerTimeLimit(n) == TwoOf((n + 1) * (TimeLimit + 1), TrustedTime)

Timeout(p) ==
    IF p = Manager THEN ManagerTimeLimit(Cardinality(Processes(job)))
    ELSE TimeLimit

WallclockTimeout(p) == Timeout(p) + 1

BoxId(n) == n % BoxesPerWorker

GradingInit ==
    /\ phase = "idle"
    /\ job = None
    /\ programs = <<>>
    /\ boxes = <<>>
    /\ next_id = 0
    /\ fifos = FALSE
    /\ ours = FALSE
    /\ finished = <<>>

-----------------------------------------------------------------------------
(* The end of a job, and of the group.                                      *)

(* delete_sandbox on each of them.                                          *)
Cleaned(bs, j) ==
    [r \in DOMAIN bs |->
        [bs[r] EXCEPT !.state =
            IF j.success = TRUE /\ ~j.keep_sandbox THEN "deleted"
            ELSE "kept"]]

(* The fields of the job are filled.  Communication and PvP remove their     *)
(* fifos, TwoSteps does not.                                                *)
Finish(success, outcome, text, plus) ==
    LET j == [job EXCEPT !.success = success, !.outcome = outcome,
                         !.text = text, !.plus = plus]
    IN /\ job' = j
       /\ boxes' = Cleaned(boxes, j)
       /\ fifos' = (fifos /\ ~(/\ success = TRUE /\ ~job.keep_sandbox
                               /\ job.task_type # "TwoSteps"))
       /\ finished' = Append(finished, success)
       /\ phase' = "done"
       /\ programs' = <<>>
       /\ UNCHANGED next_id

(* TombstoneError: a file is no longer kept.  Nothing is cleaned up.        *)
Tombstone ==
    /\ job' = [job EXCEPT !.success = FALSE, !.plus = "tombstone"]
    /\ finished' = Append(finished, FALSE)
    /\ phase' = "done"
    /\ programs' = <<>>
    /\ UNCHANGED <<boxes, fifos, next_id>>

(* Any other exception ends the whole group.                                *)
Raise ==
    /\ phase' = "raised"
    /\ UNCHANGED <<job, programs, boxes, next_id, fifos, finished>>

(* The next job of the group, or the answer.                                *)
NextJob ==
    /\ phase \in {"idle", "done"}
    /\ Len(finished) < MaxJobs
    /\ job' \in UNION {FromOperation(t) : t \in TaskTypes}
    /\ phase' = "start"
    /\ boxes' = <<>>
    /\ fifos' = FALSE
    /\ ours' = FALSE
    /\ UNCHANGED <<programs, next_id, finished>>

ReturnGroup ==
    /\ phase = "done"
    /\ Len(finished) = MaxJobs
    /\ phase' = "returned"
    /\ UNCHANGED <<job, programs, boxes, next_id, fifos, ours, finished>>

-----------------------------------------------------------------------------
(* Starting.                                                                *)

(* evaluate of a user test of PvP: the job's success stays None.            *)
Evaluate ==
    /\ phase = "start"
    /\ NoOp(job)
    /\ finished' = Append(finished, None)
    /\ phase' = "done"
    /\ UNCHANGED <<job, programs, boxes, next_id, fifos, ours>>

(* A file or a manager that the task type needs is missing: the job fails,   *)
(* but set_configuration_error does not know matches.                       *)
ConfigurationError ==
    /\ phase = "start"
    /\ job.task_type # "OutputOnly" /\ ~NoOp(job)
    /\ ours' = TRUE
    /\ IF job.type = "match" THEN Raise ELSE Finish(FALSE, None, None, None)

Made(n) ==
    [r \in {Roles(job)[i] : i \in 1..n} |->
        [id |-> BoxId(next_id + (CHOOSE i \in 1..n : Roles(job)[i] = r)),
         state |-> "made"]]

Started == [ended |-> FALSE, cpu |-> 0, wall |-> 0, log |-> {}]

(* The sandboxes are made and the files put there.  Making one may raise,    *)
(* and so may getting a file that is a tombstone.                           *)
CreateSandboxes ==
    /\ phase = "start"
    /\ job.task_type # "OutputOnly" /\ ~NoOp(job)
    /\ \E n \in 0..Len(Roles(job)) :
          /\ boxes' = Made(n)
          /\ next_id' = (next_id + n) % BoxesPerWorker
          /\ fifos' = (job.type # "compilation" /\ job.task_type # "Batch")
          /\ IF n < Len(Roles(job))
             THEN /\ phase' = "raised"
                  /\ ours' = TRUE
                  /\ UNCHANGED <<job, programs, finished>>
             ELSE \/ /\ phase' = "run"
                     /\ programs' =
                            [p \in Processes(job) \cup
                                   ({Manager} \cap DOMAIN Made(n)) |->
                                Started]
                     /\ UNCHANGED <<job, ours, finished>>
                  \/ /\ phase' = "done"
                     /\ ours' = TRUE
                     /\ job' = [job EXCEPT !.success = FALSE,
                                           !.plus = "tombstone"]
                     /\ finished' = Append(finished, FALSE)
                     /\ UNCHANGED programs

-----------------------------------------------------------------------------
(* The programs.                                                            *)

Running == {p \in DOMAIN programs : ~programs[p].ended}

(* Killed for waiting is left out.                                          *)
OverLimitCpu(p) == programs[p].cpu > Timeout(p)

OverLimit(p) ==
    \/ programs[p].cpu > Timeout(p)
    \/ programs[p].wall > WallclockTimeout(p)

(* The work of the users' programs.                                         *)
Work(ps) == MapThenSumSet(LAMBDA p : programs[p].cpu, ps)

(* A sound manager waits only for programs that still run.                  *)
SoundManager(computing) ==
    (Manager \in Running) =>
        /\ Manager \in computing =>
               programs[Manager].cpu < Work(Processes(job))
        /\ Running = {Manager} => Manager \in computing

(* Time passes; a counter beyond every limit goes back and forth there.     *)
Longest == ManagerTimeLimit(TwoOf(NumProcesses, 2)) + 3

Later(n) == IF n = Longest THEN n - 1 ELSE n + 1

Tick ==
    /\ phase = "run"
    /\ Running # {}
    /\ \A p \in Running : ~OverLimit(p)
    /\ \E computing \in SUBSET Running :
          /\ SoundManager(computing)
          /\ programs' =
                 [p \in DOMAIN programs |->
                     IF programs[p].ended THEN programs[p]
                     ELSE [programs[p] EXCEPT
                              !.wall = Later(@),
                              !.cpu = IF p \in computing THEN Later(@)
                                      ELSE @]]
    /\ UNCHANGED <<phase, job, boxes, next_id, fifos, ours, finished>>

(* The wall clock time of a program that ended no longer matters.           *)
End(p, log) ==
    /\ programs' = [programs EXCEPT ![p].ended = TRUE, ![p].log = log,
                                    ![p].wall = 0]
    /\ UNCHANGED <<phase, job, boxes, next_id, fifos, finished>>

Killed ==
    /\ phase = "run"
    /\ \E p \in Running :
          /\ OverLimit(p)
          /\ End(p, IF programs[p].cpu > Timeout(p) THEN {"TO"}
                    ELSE {"TO", "wall"})
    /\ UNCHANGED ours

(* A program ends by itself; for the manager anything but a success is ours. *)
Ends ==
    /\ phase = "run"
    /\ \E p \in Running, log \in {{}, {"RE"}, {"SG"}} :
          /\ End(p, log)
          /\ ours' = (ours \/ (p = Manager /\ log # {}))

(* A sound manager that is left alone and has done its work ends.           *)
ManagerDone ==
    /\ phase = "run"
    /\ Running = {Manager}
    /\ programs[Manager].cpu >= Work(Processes(job))
    /\ End(Manager, {})
    /\ UNCHANGED ours

SandboxFails ==
    /\ phase = "run"
    /\ \E p \in Running : End(p, {"XX"})
    /\ ours' = TRUE

(* A manager that works more than the others, or never ends.                *)
ManagerMisbehaves ==
    /\ phase = "run"
    /\ Manager \in Running
    /\ End(Manager, {"TO"})
    /\ ours' = TRUE

-----------------------------------------------------------------------------
(* The results.                                                             *)

AllEnded == phase = "run" /\ programs # <<>> /\ Running = {}

RunOf(p) == EvaluationStepAfterRun(programs[p].log)

(* compile: what the commands leave decides whether there is an executable.  *)
CompiledBy(commands) ==
    \E n \in commands : \E logs \in [1..n -> Logs] :
       LET step == CompilationStep(logs)
       IN /\ ours' = (ours \/ ~step.success)
          /\ Finish(step.success, step.ran,
                    IF step.success THEN "compiled" ELSE None, step.stats)

Compiling(task_type) ==
    phase = "run" /\ job.type = "compilation" /\ job.task_type = task_type

CompileBatch == Compiling("Batch") /\ CompiledBy(1..MaxCommands)

CompileCommunication == Compiling("Communication") /\ CompiledBy(1..MaxCommands)

CompilePvP == Compiling("PvP") /\ CompiledBy(1..MaxCommands)

CompileTwoSteps == Compiling("TwoSteps") /\ CompiledBy(1..MaxCommands)

CompileOutputOnly ==
    /\ phase = "start"
    /\ job.type = "compilation" /\ job.task_type = "OutputOnly"
    /\ Finish(TRUE, TRUE, "none needed", "empty")
    /\ UNCHANGED ours

(* The output of the program, if there is one, is shown for a user test or   *)
(* else compared, by white diff or by a checker.                            *)
OutputChecked(stats) ==
    \/ /\ Finish(TRUE, "0", "no output", stats)
       /\ UNCHANGED ours
    \/ /\ job.user_test
       /\ Finish(TRUE, "0", "completed", stats)
       /\ UNCHANGED ours
    \/ /\ ~job.user_test
       /\ \E equal \in {"0", "1"} : Finish(TRUE, equal, "compared", stats)
       /\ UNCHANGED ours
    \/ /\ ~job.user_test
       /\ phase' = "check"
       /\ UNCHANGED <<job, programs, boxes, next_id, fifos, ours, finished>>

BatchEvaluated ==
    /\ AllEnded
    /\ job.task_type = "Batch"
    /\ LET step == EvaluationStep(programs[1].log)
       IN CASE ~step.success ->
                   Finish(FALSE, None, None, None) /\ UNCHANGED ours
            [] step.success /\ ~step.ran ->
                   /\ Finish(TRUE, "0", HumanEvaluationMessage(step.stats),
                             step.stats)
                   /\ UNCHANGED ours
            [] OTHER -> OutputChecked(step.stats)

(* Merging the stats raises if the second sandbox failed.                   *)
TwoStepsEvaluated ==
    /\ AllEnded
    /\ job.task_type = "TwoSteps"
    /\ LET first == RunOf(1)
           second == RunOf(2)
           stats == MergeExecutionStats(first.stats, second.stats)
       IN CASE stats = "raises" -> Raise /\ UNCHANGED ours
            [] stats # "raises" /\ ~(first.success /\ second.success) ->
                   Finish(FALSE, None, None, stats) /\ UNCHANGED ours
            [] stats # "raises" /\ first.success /\ second.success
               /\ ~(first.ran /\ second.ran) ->
                   /\ Finish(TRUE, "0", HumanEvaluationMessage(stats), stats)
                   /\ UNCHANGED ours
            [] OTHER -> OutputChecked(stats)

(* The stats of all processes: reduce(merge_execution_stats).               *)
MergedTo[i \in 1..NumProcesses] ==
    IF i = 1 THEN RunOf(1).stats
    ELSE IF RunOf(i).stats = None \/ MergedTo[i - 1] = "raises" THEN "raises"
    ELSE MergeExecutionStats(MergedTo[i - 1], RunOf(i).stats)

(* A submission that used more than its time in all its processes together   *)
(* is over its limit.                                                       *)
CommunicationEvaluated ==
    /\ AllEnded
    /\ job.task_type = "Communication"
    /\ LET merged == MergedTo[NumProcesses]
           box == \A p \in Processes(job) : RunOf(p).success
           ran == \A p \in Processes(job) : RunOf(p).ran = TRUE
           tooLong == box /\ ran /\ Work(Processes(job)) >= TimeLimit
           stats == IF tooLong THEN "timeout" ELSE merged
           success == box /\ RunOf(Manager).ran = TRUE
       IN CASE merged = "raises" -> Raise /\ UNCHANGED ours
            [] merged # "raises" /\ ~success ->
                   Finish(FALSE, None, None, None) /\ UNCHANGED ours
            [] merged # "raises" /\ success /\ job.user_test ->
                   /\ Finish(TRUE, "0", "completed", stats)
                   /\ UNCHANGED ours
            [] merged # "raises" /\ success /\ ~job.user_test
               /\ ~(ran /\ ~tooLong) ->
                   /\ Finish(TRUE, "0", HumanEvaluationMessage(stats), stats)
                   /\ UNCHANGED ours
            [] OTHER ->
                   \E printed \in Printed :
                      IF printed = "nonsense"
                      THEN ours' = TRUE /\ Raise
                      ELSE /\ Finish(TRUE, printed, "manager", stats)
                           /\ UNCHANGED ours

(* A player whose program failed loses to one whose program did not.        *)
MatchOutcome(first, second) ==
    CASE first /\ ~second -> "1 0"
      [] ~first /\ second -> "0 1"
      [] ~first /\ ~second -> "0.5 0.5"
      [] OTHER -> None

MatchEvaluated ==
    /\ AllEnded
    /\ job.type = "match"
    /\ LET first == RunOf(1)
           second == RunOf(2)
           success == /\ first.success /\ second.success
                      /\ RunOf(Manager).ran = TRUE
       IN CASE ~success -> Finish(FALSE, None, None, None) /\ UNCHANGED ours
            [] success /\ ~(first.ran /\ second.ran) ->
                   /\ Finish(TRUE, MatchOutcome(first.ran, second.ran),
                             "failed", first.stats)
                   /\ UNCHANGED ours
            [] OTHER ->
                   \E printed \in Printed :
                      IF printed = "nonsense"
                      THEN ours' = TRUE /\ Raise
                      ELSE /\ Finish(TRUE, printed, "manager", first.stats)
                           /\ UNCHANGED ours

(* The file for the testcase may not have been submitted.                   *)
OutputOnlyEvaluated ==
    /\ phase = "start"
    /\ job.type = "evaluation" /\ job.task_type = "OutputOnly"
    /\ \/ /\ Finish(TRUE, "0", "not submitted", "empty")
          /\ UNCHANGED ours
       \/ /\ \E equal \in {"0", "1"} :
                Finish(TRUE, equal, "compared", "empty")
          /\ UNCHANGED ours
       \/ /\ phase' = "check"
          /\ UNCHANGED <<job, programs, boxes, next_id, fifos, ours, finished>>

(* eval_output with a checker, in a sandbox of its own, which it cleans up.  *)
StatsSoFar ==
    CASE job.task_type = "Batch" -> EvaluationStep(programs[1].log).stats
      [] job.task_type = "TwoSteps" ->
             MergeExecutionStats(RunOf(1).stats, RunOf(2).stats)
      [] OTHER -> "empty"

CheckedBy ==
    /\ phase = "check"
    /\ \E log \in Logs, printed \in Printed :
          LET outcome == CheckerStep(log, printed)
          IN /\ ours' = (ours \/ outcome = None)
             /\ IF outcome = None
                THEN Finish(FALSE, None, None,
                            IF job.task_type = "OutputOnly" THEN None
                            ELSE StatsSoFar)
                ELSE Finish(TRUE, outcome, "checked", StatsSoFar)

(* The checker is missing; its sandbox cannot be made; or it is a tombstone. *)
CheckerMissing ==
    /\ phase = "check"
    /\ ours' = TRUE
    /\ \/ Finish(FALSE, None, None,
                 IF job.task_type = "OutputOnly" THEN None ELSE StatsSoFar)
       \/ Raise
       \/ Tombstone

-----------------------------------------------------------------------------

WorkerSteps ==
    NextJob \/ ReturnGroup \/ Evaluate \/ ConfigurationError \/ CreateSandboxes
    \/ CompileBatch \/ CompileCommunication \/ CompilePvP \/ CompileTwoSteps
    \/ CompileOutputOnly \/ BatchEvaluated \/ TwoStepsEvaluated
    \/ CommunicationEvaluated \/ MatchEvaluated \/ OutputOnlyEvaluated
    \/ CheckedBy \/ CheckerMissing

ProgramSteps ==
    Tick \/ Killed \/ Ends \/ ManagerDone \/ SandboxFails \/ ManagerMisbehaves

GradingNext == WorkerSteps \/ ProgramSteps

GradingSpec == GradingInit /\ [][GradingNext]_gradingVars

-----------------------------------------------------------------------------
(* Properties.                                                              *)

JobEnded == phase \in {"done", "returned", "raised"}

(* A job is reported as failed, or takes its group with it, exactly when     *)
(* something of ours went wrong: whatever the programs of contestants do,    *)
(* also to the manager's time, they get an outcome ("Set job.success to True *)
(* when *our infrastracture* is successful").  The user tests of PvP tasks    *)
(* are the exception: no worker ever evaluates them.                        *)
OursToBlame ==
    JobEnded /\ ~NoOp(job) => ((phase = "raised" \/ job.success # TRUE) <=> ours)

(* What a successful job reports can be written to the database: to_submission *)
(* and to_user_test need the outcome, a text and the statistics; and a job    *)
(* that failed reports no outcome.                                          *)
ResultsComplete ==
    JobEnded =>
        IF job.success = TRUE
        THEN None \notin {job.outcome, job.text, job.plus}
        ELSE job.outcome = None /\ job.text = None

(* Sandboxes that are in use at the same time are in different boxes.       *)
BoxesDiffer ==
    \A r, s \in DOMAIN boxes : r # s => boxes[r].id # boxes[s].id

(* A successful job leaves no sandbox and no fifo behind, except for the     *)
(* directory of TwoSteps and when asked to keep them; a failed one keeps all *)
(* of them to be looked at.                                                 *)
SandboxesGone ==
    JobEnded /\ job.success = TRUE /\ ~job.keep_sandbox =>
        /\ \A r \in DOMAIN boxes : boxes[r].state = "deleted"
        /\ fifos => job.task_type = "TwoSteps"

(* Programs that wait for each other do not hold the worker for ever: the    *)
(* wall clock ends every group.                                             *)
GroupAnswered == job # None ~> phase \in {"returned", "raised"}

(* Whatever the programs of contestants, the checker, the manager and the    *)
(* sandboxes do.                                                            *)
GradingSound == OursToBlame /\ ResultsComplete /\ BoxesDiffer /\ SandboxesGone

=============================================================================
