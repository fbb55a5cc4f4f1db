----------------------------- MODULE PvPService -----------------------------
(***************************************************************************)
(* PvPService (cms/service/PvPService.py, cms/service/pvpoperations.py):   *)
(* batches of matches between all the contestants of one PvP task. A batch *)
(* has rounds; a round is over when EvaluationService has reported the end *)
(* of each of its matches, which rest_matches counts down.                 *)
(*                                                                         *)
(* The executor runs start_round without post_finish_lock, in four steps   *)
(* that end at its commits; match_ended holds the lock and has two. Here a *)
(* round is a number of matches; who plays whom is in module Elo, with     *)
(* which submission in module PvPSubmissions.                              *)
(***************************************************************************)
EXTENDS Integers, FiniteSets

CONSTANTS
    MaxBatches,     \* bounds the batches that are created
    MaxMatches,     \* bounds the matches of a round
    TaskRounds,     \* the rounds parameter of the task type
    ManualRounds,   \* the numbers of rounds an administrator may ask for
    Budget          \* bounds how often each kind of external event happens

Batches == 1 .. MaxBatches

(* What the environment does a bounded number of times: an administrator   *)
(* starts a batch; a match ends and is never reported (its job failed, or  *)
(* a service was down); one is reported twice; both players of a match     *)
(* score zero; a task has fewer than two players; a round has no matches;  *)
(* PvPService is restarted.                                                *)
Events == {"manual", "lost", "duplicate", "zero", "fewplayers", "nomatch", "crash"}

ASSUME PvPAssumption ==
    /\ MaxBatches \in Nat /\ MaxMatches \in Nat \ {0} /\ TaskRounds \in Nat
    /\ ManualRounds \subseteq Nat
    /\ Budget \in [Events -> Nat]

VARIABLES
    created,        \* how many rows of Batch exist; ids grow with timestamps
    status, rounds_id, rounds, rest_matches,        \* their columns
    pvp_batch,      \* Task.pvp_batch
    playing,        \* per batch: matches EvaluationService has not finished
    played,         \* per batch: matches it has
    memory,         \* batches in participations and competition_sys
    queue,          \* the executor's queue
    step, current, matches,     \* where start_round is in the executor, for
                    \* which batch and with how many matches
    ending,         \* the batch match_ended works for after its commit, or 0
    spent           \* per event: how often it happened

rows == <<created, status, rounds_id, rounds, rest_matches>>
executor == <<step, current, matches>>
vars == <<rows, pvp_batch, playing, played, memory, queue, executor, ending, spent>>

Init ==
    /\ created = 0
    /\ status = [b \in Batches |-> "pending"]
    /\ rounds_id = [b \in Batches |-> 0]
    /\ rounds = [b \in Batches |-> 0]
    /\ rest_matches = [b \in Batches |-> 0]
    /\ pvp_batch = 0
    /\ playing = [b \in Batches |-> 0]
    /\ played = [b \in Batches |-> 0]
    /\ memory = {}
    /\ queue = {}
    /\ step = "idle" /\ current = 0 /\ matches = 0
    /\ ending = 0
    /\ spent = [e \in Events |-> 0]

Spend(e) == spent[e] < Budget[e] /\ spent' = [spent EXCEPT ![e] = @ + 1]

-----------------------------------------------------------------------------
(* Batch(...), commit and new_batch.                                       *)
CreateBatch(n) ==
    /\ created < MaxBatches
    /\ created' = created + 1
    /\ rounds' = [rounds EXCEPT ![created + 1] = n]
    /\ queue' = queue \cup {created + 1}
    /\ UNCHANGED <<status, rounds_id, rest_matches, pvp_batch, playing, played,
                   memory, executor, ending>>

(* The sweeper: get_operations starts a batch when the interval is over    *)
(* and the last batch is not being evaluated. That one may still be        *)
(* pending; before the first next_batch no last batch is looked for.       *)
MissingOperations ==
    /\ pvp_batch = 0 \/ (created > 0 /\ status[created] # "evaluating")
    /\ CreateBatch(TaskRounds)
    /\ UNCHANGED spent

ManuallyStartMatch(n) == Spend("manual") /\ CreateBatch(n)

-----------------------------------------------------------------------------
(* start_round.                                                            *)

Goto(place, b, n) == step' = place /\ current' = b /\ matches' = n

Return == Goto("idle", 0, 0)

Popped(b) == step = "idle" /\ b \in queue /\ queue' = queue \ {b}

(* The initialization: next_batch commits before anything is checked.      *)
FirstRound(b) ==
    /\ Popped(b)
    /\ rounds_id[b] = 0
    /\ pvp_batch' = pvp_batch + 1
    /\ \/ /\ Spend("fewplayers")
          /\ UNCHANGED memory /\ UNCHANGED executor
       \/ /\ IF rounds[b] = 0
             THEN UNCHANGED memory /\ UNCHANGED executor
             ELSE /\ memory' = memory \cup {b}
                  /\ Goto("pairing", b, 0)
          /\ UNCHANGED spent
    /\ UNCHANGED rows /\ UNCHANGED <<playing, played, ending>>

(* The later rounds. Nothing happens if there are none left, or if the     *)
(* batch is not in memory (a KeyError).                                    *)
LaterRound(b) ==
    /\ Popped(b)
    /\ rounds_id[b] > 0
    /\ IF rounds_id[b] < rounds[b] /\ b \in memory
       THEN Goto("pairing", b, 0)
       ELSE UNCHANGED executor
    /\ UNCHANGED rows /\ UNCHANGED <<pvp_batch, playing, played, memory, ending, spent>>

(* The matches are made and committed. A round without matches ends here.  *)
Pair ==
    LET b == current IN
    /\ step = "pairing"
    /\ rest_matches[b] = 0
    /\ status' = [status EXCEPT ![b] = "evaluating"]
    /\ rounds_id' = [rounds_id EXCEPT ![b] = @ + 1]
    /\ \/ /\ \E n \in 1 .. MaxMatches : Goto("paired", b, n)
          /\ UNCHANGED spent
       \/ Return /\ Spend("nomatch")
    /\ UNCHANGED <<created, rounds, rest_matches, pvp_batch, playing, played,
                   memory, queue, ending>>

(* The assertion on rest_matches fails: nothing is committed.              *)
PairRaises ==
    /\ step = "pairing"
    /\ rest_matches[current] # 0
    /\ Return
    /\ UNCHANGED rows /\ UNCHANGED <<pvp_batch, playing, played, memory, queue, ending, spent>>

(* rest_matches is committed.                                              *)
Count ==
    /\ step = "paired"
    /\ rest_matches' = [rest_matches EXCEPT ![current] = matches]
    /\ Goto("counted", current, matches)
    /\ UNCHANGED <<created, status, rounds_id, rounds, pvp_batch, playing, played,
                   memory, queue, ending, spent>>

(* The MatchResults are committed, from which EvaluationService's sweeper  *)
(* finds the matches if new_match does not reach it.                       *)
Publish ==
    /\ step = "counted"
    /\ playing' = [playing EXCEPT ![current] = @ + matches]
    /\ Return
    /\ UNCHANGED rows /\ UNCHANGED <<pvp_batch, played, memory, queue, ending, spent>>

-----------------------------------------------------------------------------
(* match_ended up to its commit. Only start_round writes rest_matches too. *)
Decrement(b) ==
    /\ ending = 0
    /\ rest_matches' = [rest_matches EXCEPT ![b] = @ - 1]
    /\ ending' = b
    /\ UNCHANGED <<created, status, rounds_id, rounds, pvp_batch, memory, queue, executor>>

MatchEnded(b) ==
    /\ playing[b] > 0
    /\ Decrement(b)
    /\ playing' = [playing EXCEPT ![b] = @ - 1]
    /\ played' = [played EXCEPT ![b] = @ + 1]
    /\ UNCHANGED spent

MatchEndedAgain(b) ==
    /\ played[b] > 0
    /\ Spend("duplicate")
    /\ Decrement(b)
    /\ UNCHANGED <<playing, played>>

MatchLost(b) ==
    /\ playing[b] > 0
    /\ Spend("lost")
    /\ playing' = [playing EXCEPT ![b] = @ - 1]
    /\ UNCHANGED rows /\ UNCHANGED <<pvp_batch, played, memory, queue, executor, ending>>

(* Mutations: one match too early, one too late.                           *)
RoundOverEarly(b) == rest_matches[b] <= 1
RoundOverLate(b) == rest_matches[b] < 0

RoundOver(b) == rest_matches[b] = 0

(* Mutation: the last round is left out.                                   *)
LastRoundEarly(b) == rounds_id[b] + 1 >= rounds[b]

LastRound(b) == rounds_id[b] = rounds[b]

(* The rest of match_ended: the ratings are updated, then batch_ended or   *)
(* new_batch. competition_sys raises a KeyError for a batch of before a    *)
(* restart, update_scores a ZeroDivisionError for a match without points.  *)
MatchScored ==
    LET b == ending IN
    /\ ending # 0
    /\ ending' = 0
    /\ \/ /\ b \in memory /\ RoundOver(b) /\ LastRound(b)
          /\ status' = [status EXCEPT ![b] = "evaluated"]
          /\ UNCHANGED <<queue, spent>>
       \/ /\ b \in memory /\ RoundOver(b) /\ ~LastRound(b)
          /\ queue' = queue \cup {b}
          /\ UNCHANGED <<status, spent>>
       \/ /\ b \notin memory \/ ~RoundOver(b)
          /\ UNCHANGED <<status, queue, spent>>
       \/ /\ b \in memory
          /\ Spend("zero")
          /\ UNCHANGED <<status, queue>>
    /\ UNCHANGED <<created, rounds_id, rounds, rest_matches, pvp_batch, playing,
                   played, memory, executor>>

(* PvPService is killed and restarted.                                     *)
Crash ==
    /\ Spend("crash")
    /\ memory' = {} /\ queue' = {} /\ Return /\ ending' = 0
    /\ UNCHANGED rows /\ UNCHANGED <<pvp_batch, playing, played>>

Next ==
    \/ MissingOperations
    \/ \E n \in ManualRounds : ManuallyStartMatch(n)
    \/ \E b \in Batches : FirstRound(b)
    \/ \E b \in Batches : LaterRound(b)
    \/ Pair
    \/ PairRaises
    \/ Count
    \/ Publish
    \/ \E b \in Batches : MatchEnded(b)
    \/ \E b \in Batches : MatchEndedAgain(b)
    \/ \E b \in Batches : MatchLost(b)
    \/ MatchScored
    \/ Crash

Spec == Init /\ [][Next]_vars

(* The sweeper, the executor and the RPC handler run on, and               *)
(* EvaluationService finishes the matches it knows of. The queue is        *)
(* ordered by timestamp: no batch waits for ever.                          *)
Fairness ==
    /\ WF_vars(MissingOperations)
    /\ \A b \in Batches : SF_vars(FirstRound(b) \/ LaterRound(b))
    /\ WF_vars(Pair \/ PairRaises \/ Count \/ Publish)
    /\ \A b \in Batches : SF_vars(MatchEnded(b))
    /\ WF_vars(MatchScored)

FairSpec == Spec /\ Fairness

-----------------------------------------------------------------------------
(* Batches, counters and the executor keep their types.                    *)
RowsTypeOK ==
    /\ created \in 0 .. MaxBatches
    /\ status \in [Batches -> {"pending", "evaluating", "evaluated"}]
    /\ rounds_id \in [Batches -> Nat] /\ rounds \in [Batches -> Nat]
    /\ rest_matches \in [Batches -> Int]

MatchesTypeOK ==
    /\ pvp_batch \in Nat
    /\ playing \in [Batches -> Nat] /\ played \in [Batches -> Nat]

ExecutorTypeOK ==
    /\ memory \subseteq Batches /\ queue \subseteq Batches
    /\ step \in {"idle", "pairing", "paired", "counted"}
    /\ current \in 0 .. MaxBatches /\ matches \in 0 .. MaxMatches
    /\ step # "idle" => current \in Batches
    /\ ending \in 0 .. MaxBatches

PvPTypeOK == RowsTypeOK /\ MatchesTypeOK /\ ExecutorTypeOK

(* So far EvaluationService reported no match twice.                       *)
NoneTwice == spent["duplicate"] = 0

(* As long as no match was reported twice, no round of a batch begins, and *)
(* no batch is declared evaluated, while a match of the batch is still     *)
(* being played, though the matches of a round end at any time, in any     *)
(* order and while start_round commits.                                    *)
RoundsDoNotOverlap ==
    [][NoneTwice => \A b \in Batches :
          \/ rounds_id'[b] # rounds_id[b]
          \/ status'[b] = "evaluated" /\ status[b] # "evaluated"
          => playing[b] = 0]_vars

(* Whatever is lost, reported twice or restarted, a batch never has more   *)
(* rounds than it was made for, and has had all of them when evaluated.    *)
EvaluatedAfterAllRounds ==
    \A b \in Batches :
        /\ rounds_id[b] <= rounds[b]
        /\ status[b] = "evaluated" => rounds_id[b] = rounds[b]

(* The assertion at the beginning of a round, that the matches of the      *)
(* previous round are all accounted for, holds as long as no match was     *)
(* reported twice.                                                         *)
RestMatchesZero ==
    NoneTwice /\ step = "pairing" => rest_matches[current] = 0

(* So far nothing failed: an administrator may have started batches.       *)
Untroubled == \A e \in Events \ {"manual"} : spent[e] = 0

(* If nothing ever fails, every batch with rounds to play is evaluated in  *)
(* the end, the one an administrator starts during another too.            *)
BatchesEnd ==
    []Untroubled => \A b \in Batches :
        created >= b /\ rounds[b] > 0 ~> status[b] = "evaluated"

(* The sweeper's promise to find the requests that are still unprocessed:  *)
(* no batch stays pending.                                                 *)
PendingBatchesStart ==
    \A b \in Batches : created >= b ~> status[b] # "pending"

=============================================================================
