------------------------ MODULE MCEvaluationService ------------------------
(* Small instances of EvaluationService: how often each kind of external   *)
(* event happens in each run.                                              *)
EXTENDS EvaluationService, TLC

Once(E) == [e \in Events |-> IF e \in E THEN 1 ELSE 0]

(* The passing runs.                                                       *)
Rejudged == Once({"invalidate", "notify", "tombstone"})
Faults == Once({"disconnect", "disable", "expire", "crash", "dberror"})
Matched == [Once({"workerfail", "tombstone", "delete", "notify"}) EXCEPT
               !["jobfail"] = 2]
Recovering == Once({"disconnect", "workerfail", "jobfail"})

(* The run that finds a violation.                                         *)
Invalidated == Once({"invalidate"})

Symmetric == Permutations(Workers) \cup Permutations(Testcases)

=============================================================================
