----------------------------- MODULE MCGrading ------------------------------
(* From the programs of contestants to the score of a task, side by side:  *)
(* the worker that executes a group of jobs, the comparison of an output   *)
(* with the correct one, and the scores computed from the outcomes. One of *)
(* them runs in a behaviour and the others stay as they are.               *)
EXTENDS Grading, TaskScore, WhiteDiff

VARIABLE component

vars == <<component, gradingVars, taskVars, diffVars>>

(* Two subtasks of a task with three testcases, the first one private.     *)
TwoSubtasks == <<[max |-> 1, count |-> 2], [max |-> 2, count |-> 1]>>
PublicTestcases == <<FALSE, TRUE, TRUE>>

Init ==
    /\ component \in {"worker", "diff", "scores"}
    /\ GradingInit
    /\ TaskInit
    /\ component # "scores" => score_type = "Sum" /\ score_mode = "max"
    /\ DiffInit
    /\ component # "diff" => original = <<<<>>, <<>>>>

Next ==
    \/ /\ component = "worker" /\ GradingNext
       /\ UNCHANGED <<component, taskVars, diffVars>>
    \/ /\ component = "scores" /\ TaskNext
       /\ UNCHANGED <<component, gradingVars, diffVars>>
    \/ /\ component = "diff" /\ DiffNext
       /\ UNCHANGED <<component, gradingVars, taskVars>>

(* Time passes, isolate kills and the worker goes on; the programs of      *)
(* contestants need not end.                                               *)
WorkerGoesOn ==
    /\ WF_gradingVars(component = "worker" /\ WorkerSteps)
    /\ WF_gradingVars(component = "worker" /\ (Tick \/ Killed \/ ManagerDone))

Spec == Init /\ [][Next]_vars /\ WorkerGoesOn
=============================================================================
