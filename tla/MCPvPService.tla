---------------------------- MODULE MCPvPService ----------------------------
(* Small instances of what a PvP task adds to a contest, side by side: the *)
(* batches and their rounds, the submissions of a contestant from batch to *)
(* batch, and the pairing and the ratings. One of them runs in a behaviour *)
(* and the others stay as they are.                                        *)
EXTENDS PvPService, PvPSubmissions, Elo

CONSTANT Components

VARIABLE component

Once(E) == [e \in Events |-> IF e \in E THEN 1 ELSE 0]

Anything == [e \in Events |-> 1]
Restarted == Once({"crash"})

MCInit ==
    /\ component \in Components
    /\ Init
    /\ SubmissionsInit
    /\ EloInit
    /\ component # "ratings" => Players = Contestants

MCNext ==
    \/ /\ component = "batches" /\ Next
       /\ UNCHANGED <<component, submissionVars, eloVars>>
    \/ /\ component = "submissions" /\ SubmissionsNext
       /\ UNCHANGED <<component, vars, eloVars>>
    \/ /\ component = "ratings" /\ EloNext
       /\ UNCHANGED <<component, vars, submissionVars>>

(* Fairness of PvPService, when it is what runs.                           *)
BatchesGoOn ==
    /\ WF_vars(component = "batches" /\ MissingOperations)
    /\ \A b \in Batches : SF_vars(component = "batches" /\ (FirstRound(b) \/ LaterRound(b)))
    /\ WF_vars(component = "batches" /\ (Pair \/ PairRaises \/ Count \/ Publish))
    /\ \A b \in Batches : SF_vars(component = "batches" /\ MatchEnded(b))
    /\ WF_vars(component = "batches" /\ MatchScored)

MCSpec == MCInit /\ [][MCNext]_<<component, vars, submissionVars, eloVars>> /\ BatchesGoOn
=============================================================================
