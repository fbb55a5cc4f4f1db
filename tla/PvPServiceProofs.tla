-------------------------- MODULE PvPServiceProofs --------------------------
(***************************************************************************)
(* For any number of batches, rounds and matches, whatever is lost or      *)
(* restarted: the rounds of a batch do not overlap as long as no match is  *)
(* reported twice, and a batch has the rounds it was made for in any case. *)
(* And for any number of submissions and batches, what a contestant has    *)
(* waiting, playing and scored; and for any contestants and ratings, how   *)
(* they are paired and scored.                                             *)
(***************************************************************************)
EXTENDS PvPService, PvPSubmissions, Elo, TLAPS, SequenceTheorems, FiniteSetTheorems,
        WellFoundedInduction

SpentOK == spent \in [Events -> Nat]

(* rest_matches never falls behind the matches that are still played; it   *)
(* is zero for a batch that waits for a round or is about to have one.     *)
Counted ==
    /\ \A b \in Batches :
           /\ playing[b] <= rest_matches[b]
           /\ b \in queue \/ rounds_id[b] = 0 => rest_matches[b] = 0
    /\ step \in {"pairing", "paired"} => rest_matches[current] = 0
    /\ step = "counted" =>
           playing[current] = 0 /\ rest_matches[current] = matches

(* A batch is in one place: waiting for a round, with the executor, or     *)
(* with match_ended; and only batches that exist are anywhere.             *)
OnePlaceEach ==
    /\ queue \subseteq 1 .. created
    /\ current <= created
    /\ \A b \in Batches : b > created => rounds_id[b] = 0
    /\ step # "idle" => current \notin queue
    /\ step \in {"paired", "counted"} => rounds_id[current] > 0
    /\ ending # 0 => /\ ending \notin queue
                     /\ rounds_id[ending] > 0
                     /\ step # "idle" => current # ending

Sound == Counted /\ OnePlaceEach

PvPInv == SpentOK /\ PvPTypeOK /\ (NoneTwice => Sound)

-----------------------------------------------------------------------------
(* The inductive invariant holds initially.                                *)
LEMMA InitPvPInv == Init => PvPInv
<1> SUFFICES ASSUME Init PROVE PvPInv
  OBVIOUS
<1> USE PvPAssumption DEF Init, Batches
<1>1. PvPTypeOK
  BY DEF PvPTypeOK, RowsTypeOK, MatchesTypeOK, ExecutorTypeOK
<1>2. Counted /\ OnePlaceEach
  BY DEF Counted, OnePlaceEach
<1>3. SpentOK
  BY DEF SpentOK, Events
<1> QED BY <1>1, <1>2, <1>3 DEF PvPInv, Sound

(* Every step keeps the types.                                             *)
LEMMA NextTypes ==
  ASSUME PvPTypeOK, [Next]_vars
  PROVE  PvPTypeOK'
<1> USE PvPAssumption DEF PvPTypeOK, Batches, executor, rows
<1>1. ASSUME NEW n \in Nat, CreateBatch(n)  PROVE PvPTypeOK'
  <2>1. /\ created + 1 \in Batches /\ created' \in 0 .. MaxBatches
    BY <1>1 DEF CreateBatch, RowsTypeOK
  <2>2. RowsTypeOK'
    BY <1>1, <2>1 DEF CreateBatch, RowsTypeOK
  <2>3. MatchesTypeOK'
    BY <1>1, <2>1 DEF CreateBatch, MatchesTypeOK
  <2>4. ExecutorTypeOK'
    BY <1>1, <2>1 DEF CreateBatch, ExecutorTypeOK
  <2> QED BY <2>2, <2>3, <2>4
<1>2. ASSUME NEW b \in Batches, FirstRound(b)  PROVE PvPTypeOK'
  <2>2. RowsTypeOK'
    BY <1>2 DEF FirstRound, Popped, Goto, RowsTypeOK
  <2>3. MatchesTypeOK'
    BY <1>2 DEF FirstRound, Popped, Goto, MatchesTypeOK
  <2>4. ExecutorTypeOK'
    <3>1. \/ UNCHANGED memory /\ UNCHANGED executor
          \/ memory' = memory \cup {b} /\ Goto("pairing", b, 0)
      BY <1>2 DEF FirstRound
    <3>2. queue' \subseteq Batches /\ ending' = ending
      BY <1>2 DEF FirstRound, Popped, ExecutorTypeOK
    <3>3. CASE UNCHANGED memory /\ UNCHANGED executor
      BY <3>2, <3>3 DEF ExecutorTypeOK
    <3>4. CASE memory' = memory \cup {b} /\ Goto("pairing", b, 0)
      BY <3>2, <3>4 DEF ExecutorTypeOK, Goto
    <3> QED BY <3>1, <3>3, <3>4
  <2> QED BY <2>2, <2>3, <2>4
<1>3. ASSUME NEW b \in Batches, LaterRound(b)  PROVE PvPTypeOK'
  <2>2. RowsTypeOK'
    BY <1>3 DEF LaterRound, Popped, Goto, RowsTypeOK
  <2>3. MatchesTypeOK'
    BY <1>3 DEF LaterRound, Popped, Goto, MatchesTypeOK
  <2>4. ExecutorTypeOK'
    BY <1>3 DEF LaterRound, Popped, Goto, ExecutorTypeOK
  <2> QED BY <2>2, <2>3, <2>4
<1>4. ASSUME Pair  PROVE PvPTypeOK'
  <2>1. current \in Batches
    BY <1>4 DEF Pair, ExecutorTypeOK
  <2>2. RowsTypeOK'
    BY <1>4, <2>1 DEF Pair, Goto, Return, RowsTypeOK
  <2>3. MatchesTypeOK'
    BY <1>4, <2>1 DEF Pair, Goto, Return, MatchesTypeOK
  <2>4. ExecutorTypeOK'
    BY <1>4, <2>1 DEF Pair, Goto, Return, ExecutorTypeOK
  <2> QED BY <2>2, <2>3, <2>4
<1>5. ASSUME PairRaises  PROVE PvPTypeOK'
  <2>2. RowsTypeOK'
    BY <1>5 DEF PairRaises, Goto, Return, RowsTypeOK
  <2>3. MatchesTypeOK'
    BY <1>5 DEF PairRaises, Goto, Return, MatchesTypeOK
  <2>4. ExecutorTypeOK'
    BY <1>5 DEF PairRaises, Goto, Return, ExecutorTypeOK
  <2> QED BY <2>2, <2>3, <2>4
<1>6. ASSUME Count  PROVE PvPTypeOK'
  <2>1. current \in Batches /\ matches \in 0 .. MaxMatches
    BY <1>6 DEF Count, ExecutorTypeOK
  <2>2. RowsTypeOK'
    BY <1>6, <2>1 DEF Count, Goto, RowsTypeOK
  <2>3. MatchesTypeOK'
    BY <1>6, <2>1 DEF Count, Goto, MatchesTypeOK
  <2>4. ExecutorTypeOK'
    BY <1>6, <2>1 DEF Count, Goto, ExecutorTypeOK
  <2> QED BY <2>2, <2>3, <2>4
<1>7. ASSUME Publish  PROVE PvPTypeOK'
  <2>1. current \in Batches /\ matches \in 0 .. MaxMatches
    BY <1>7 DEF Publish, ExecutorTypeOK
  <2>2. RowsTypeOK'
    BY <1>7, <2>1 DEF Publish, Goto, Return, RowsTypeOK
  <2>3. MatchesTypeOK'
    BY <1>7, <2>1 DEF Publish, Goto, Return, MatchesTypeOK
  <2>4. ExecutorTypeOK'
    BY <1>7, <2>1 DEF Publish, Goto, Return, ExecutorTypeOK
  <2> QED BY <2>2, <2>3, <2>4
<1>8. ASSUME NEW b \in Batches, MatchEnded(b)  PROVE PvPTypeOK'
  <2>2. RowsTypeOK'
    BY <1>8 DEF MatchEnded, Decrement, RowsTypeOK
  <2>3. MatchesTypeOK'
    BY <1>8 DEF MatchEnded, Decrement, MatchesTypeOK
  <2>4. ExecutorTypeOK'
    BY <1>8 DEF MatchEnded, Decrement, ExecutorTypeOK
  <2> QED BY <2>2, <2>3, <2>4
<1>9. ASSUME NEW b \in Batches, MatchEndedAgain(b)  PROVE PvPTypeOK'
  <2>2. RowsTypeOK'
    BY <1>9 DEF MatchEndedAgain, Decrement, RowsTypeOK
  <2>3. MatchesTypeOK'
    BY <1>9 DEF MatchEndedAgain, Decrement, MatchesTypeOK
  <2>4. ExecutorTypeOK'
    BY <1>9 DEF MatchEndedAgain, Decrement, ExecutorTypeOK
  <2> QED BY <2>2, <2>3, <2>4
<1>10. ASSUME NEW b \in Batches, MatchLost(b)  PROVE PvPTypeOK'
  <2>2. RowsTypeOK'
    BY <1>10 DEF MatchLost, RowsTypeOK
  <2>3. MatchesTypeOK'
    BY <1>10 DEF MatchLost, MatchesTypeOK
  <2>4. ExecutorTypeOK'
    BY <1>10 DEF MatchLost, ExecutorTypeOK
  <2> QED BY <2>2, <2>3, <2>4
<1>11. ASSUME MatchScored  PROVE PvPTypeOK'
  <2>1. /\ ending \in Batches /\ ending' = 0
        /\ queue' = queue \/ queue' = queue \cup {ending}
        /\ status' \in [Batches -> {"pending", "evaluating", "evaluated"}]
    BY <1>11, SMTT(30) DEF MatchScored, RowsTypeOK, ExecutorTypeOK
  <2>2. /\ UNCHANGED <<created, rounds_id, rounds, rest_matches, pvp_batch>>
        /\ UNCHANGED <<playing, played, memory, step, current, matches>>
    BY <1>11 DEF MatchScored
  <2>3. RowsTypeOK'
    BY <2>1, <2>2 DEF RowsTypeOK
  <2>4. MatchesTypeOK'
    BY <2>2 DEF MatchesTypeOK
  <2>5. queue' \subseteq Batches
    BY <2>1 DEF ExecutorTypeOK
  <2>6. ExecutorTypeOK'
    BY <2>1, <2>2, <2>5 DEF ExecutorTypeOK
  <2> QED BY <2>3, <2>4, <2>6
<1>12. ASSUME Crash  PROVE PvPTypeOK'
  <2>2. RowsTypeOK'
    BY <1>12 DEF Crash, Goto, Return, RowsTypeOK
  <2>3. MatchesTypeOK'
    BY <1>12 DEF Crash, Goto, Return, MatchesTypeOK
  <2>4. ExecutorTypeOK'
    BY <1>12 DEF Crash, Goto, Return, ExecutorTypeOK
  <2> QED BY <2>2, <2>3, <2>4
<1>13. ASSUME UNCHANGED vars  PROVE PvPTypeOK'
  <2>2. RowsTypeOK'
    BY <1>13 DEF vars, RowsTypeOK
  <2>3. MatchesTypeOK'
    BY <1>13 DEF vars, MatchesTypeOK
  <2>4. ExecutorTypeOK'
    BY <1>13 DEF vars, ExecutorTypeOK
  <2> QED BY <2>2, <2>3, <2>4
<1> QED
  BY <1>1, <1>2, <1>3, <1>4, <1>5, <1>6, <1>7, <1>8, <1>9, <1>10, <1>11, <1>12, <1>13
     DEF Next, MissingOperations, ManuallyStartMatch

(* A new batch disturbs nothing.                                           *)
LEMMA CreateKeepsInv ==
  ASSUME PvPTypeOK, Sound, NEW n \in Nat, CreateBatch(n)
  PROVE  Sound'
<1> USE PvPAssumption DEF Sound, PvPTypeOK, Batches, executor, rows
<1>1. /\ created + 1 \in Batches /\ created' \in 0 .. MaxBatches
      /\ rest_matches[created + 1] = 0
  BY DEF CreateBatch, RowsTypeOK, OnePlaceEach, Counted
<1>5. Counted'
  BY <1>1 DEF CreateBatch, Counted, RowsTypeOK,
     MatchesTypeOK, ExecutorTypeOK
<1>6. OnePlaceEach'
  BY <1>1, SMTT(30) DEF CreateBatch, OnePlaceEach, RowsTypeOK,
     MatchesTypeOK, ExecutorTypeOK
<1> QED BY <1>5, <1>6

(* The first round of a batch only moves the executor.                     *)
LEMMA FirstRoundKeepsInv ==
  ASSUME PvPTypeOK, Sound, NEW b \in Batches, FirstRound(b)
  PROVE  Sound'
<1> USE PvPAssumption DEF Sound, PvPTypeOK, Batches, executor, rows
<1>5. Counted'
  BY DEF FirstRound, Popped, Goto, Counted, RowsTypeOK,
     MatchesTypeOK, ExecutorTypeOK
<1>6. OnePlaceEach'
  <2>1. \/ UNCHANGED executor
        \/ step' = "pairing" /\ current' = b
    BY DEF FirstRound, Goto
  <2>2. /\ step = "idle" /\ b \in queue /\ queue' = queue \ {b}
        /\ UNCHANGED rows /\ UNCHANGED ending
    BY DEF FirstRound, Popped
  <2>3. CASE UNCHANGED executor
    BY <2>2, <2>3 DEF OnePlaceEach
  <2>4. CASE step' = "pairing" /\ current' = b
    BY <2>2, <2>4 DEF OnePlaceEach
  <2> QED BY <2>1, <2>3, <2>4
<1> QED BY <1>5, <1>6

(* So does a later round.                                                  *)
LEMMA LaterRoundKeepsInv ==
  ASSUME PvPTypeOK, Sound, NEW b \in Batches, LaterRound(b)
  PROVE  Sound'
<1> USE PvPAssumption DEF Sound, PvPTypeOK, Batches, executor, rows
<1>5. Counted'
  BY DEF LaterRound, Popped, Goto, Counted, RowsTypeOK,
     MatchesTypeOK, ExecutorTypeOK
<1>6. OnePlaceEach'
  <2>1. \/ UNCHANGED executor
        \/ step' = "pairing" /\ current' = b
    BY DEF LaterRound, Goto
  <2>2. /\ step = "idle" /\ b \in queue /\ queue' = queue \ {b}
        /\ UNCHANGED rows /\ UNCHANGED ending
    BY DEF LaterRound, Popped
  <2>3. CASE UNCHANGED executor
    BY <2>2, <2>3 DEF OnePlaceEach
  <2>4. CASE step' = "pairing" /\ current' = b
    BY <2>2, <2>4 DEF OnePlaceEach
  <2> QED BY <2>1, <2>3, <2>4
<1> QED BY <1>5, <1>6

(* Once rest_matches is zero, no match is played.                          *)
LEMMA PairKeepsInv ==
  ASSUME PvPTypeOK, Sound, Pair
  PROVE  Sound'
<1> USE PvPAssumption DEF Sound, PvPTypeOK, Batches, executor, rows
<1>1. current \in Batches /\ rest_matches[current] = 0
  BY DEF Pair, ExecutorTypeOK
<1>5. Counted'
  BY <1>1 DEF Pair, Goto, Return, Counted, RowsTypeOK,
     MatchesTypeOK, ExecutorTypeOK
<1>6. OnePlaceEach'
  <2>1. \/ step' = "paired" /\ current' = current
        \/ step' = "idle" /\ current' = 0
    BY DEF Pair, Goto, Return
  <2>2. step = "pairing" /\ UNCHANGED <<created, queue, ending>>
    BY DEF Pair
  <2>3. /\ rounds_id'[current] > 0
        /\ \A b \in Batches : b # current => rounds_id'[b] = rounds_id[b]
    BY <1>1 DEF Pair, RowsTypeOK
  <2>4. CASE step' = "paired" /\ current' = current
    BY <1>1, <2>2, <2>3, <2>4, SMTT(30) DEF OnePlaceEach, RowsTypeOK, ExecutorTypeOK
  <2>5. CASE step' = "idle" /\ current' = 0
    BY <1>1, <2>2, <2>3, <2>5, SMTT(30) DEF OnePlaceEach, RowsTypeOK, ExecutorTypeOK
  <2> QED BY <2>1, <2>4, <2>5
<1> QED BY <1>5, <1>6

(* A round that fails its assertion changes nothing.                       *)
LEMMA PairRaisesKeepsInv ==
  ASSUME PvPTypeOK, Sound, PairRaises
  PROVE  Sound'
<1> USE PvPAssumption DEF Sound, PvPTypeOK, Batches, executor, rows
<1>5. Counted'
  BY DEF PairRaises, Goto, Return, Counted, RowsTypeOK,
     MatchesTypeOK, ExecutorTypeOK
<1>6. OnePlaceEach'
  BY SMTT(30) DEF PairRaises, Goto, Return, OnePlaceEach, RowsTypeOK,
     MatchesTypeOK, ExecutorTypeOK
<1> QED BY <1>5, <1>6

(* rest_matches becomes the number of matches before they are played.      *)
LEMMA CountKeepsInv ==
  ASSUME PvPTypeOK, Sound, Count
  PROVE  Sound'
<1> USE PvPAssumption DEF Sound, PvPTypeOK, Batches, executor, rows
<1>1. /\ current \in Batches /\ matches \in 0 .. MaxMatches
      /\ playing[current] = 0 /\ current \notin queue /\ rounds_id[current] > 0
  BY DEF Count, ExecutorTypeOK, RowsTypeOK, MatchesTypeOK, Counted, OnePlaceEach
<1>5. Counted'
  BY <1>1, SMTT(30) DEF Count, Goto, Counted, RowsTypeOK,
     MatchesTypeOK, ExecutorTypeOK
<1>6. OnePlaceEach'
  BY <1>1 DEF Count, Goto, OnePlaceEach, RowsTypeOK,
     MatchesTypeOK, ExecutorTypeOK
<1> QED BY <1>5, <1>6

(* The matches that are published have been counted.                       *)
LEMMA PublishKeepsInv ==
  ASSUME PvPTypeOK, Sound, Publish
  PROVE  Sound'
<1> USE PvPAssumption DEF Sound, PvPTypeOK, Batches, executor, rows
<1>1. current \in Batches /\ matches \in 0 .. MaxMatches
  BY DEF Publish, ExecutorTypeOK
<1>5. Counted'
  BY <1>1, SMTT(30) DEF Publish, Goto, Return, Counted, RowsTypeOK,
     MatchesTypeOK, ExecutorTypeOK
<1>6. OnePlaceEach'
  BY <1>1, SMTT(30) DEF Publish, Goto, Return, OnePlaceEach, RowsTypeOK,
     MatchesTypeOK, ExecutorTypeOK
<1> QED BY <1>5, <1>6

(* Each match that ends is counted once.                                   *)
LEMMA MatchEndedKeepsInv ==
  ASSUME PvPTypeOK, Sound, NEW b \in Batches, MatchEnded(b)
  PROVE  Sound'
<1> USE PvPAssumption DEF Sound, PvPTypeOK, Batches, executor, rows
<1>1. /\ rest_matches[b] > 0 /\ b \notin queue /\ rounds_id[b] > 0
      /\ step # "idle" => current # b
  BY DEF MatchEnded, Counted, RowsTypeOK, MatchesTypeOK, ExecutorTypeOK
<1>5. Counted'
  BY <1>1 DEF MatchEnded, Decrement, Counted, RowsTypeOK,
     MatchesTypeOK, ExecutorTypeOK
<1>6. OnePlaceEach'
  BY <1>1 DEF MatchEnded, Decrement, OnePlaceEach, RowsTypeOK,
     MatchesTypeOK, ExecutorTypeOK
<1> QED BY <1>5, <1>6

(* A match that is lost leaves rest_matches too high, never too low.       *)
LEMMA MatchLostKeepsInv ==
  ASSUME PvPTypeOK, Sound, NEW b \in Batches, MatchLost(b)
  PROVE  Sound'
<1> USE PvPAssumption DEF Sound, PvPTypeOK, Batches, executor, rows
<1>5. Counted'
  <2>1. \A c \in Batches : playing'[c] \in Nat /\ playing'[c] <= playing[c]
    BY DEF MatchLost, MatchesTypeOK
  <2>2. UNCHANGED <<rest_matches, rounds_id, queue, step, current, matches>>
    BY DEF MatchLost
  <2>3. \A c \in Batches : playing'[c] <= rest_matches[c]
    BY <2>1 DEF Counted, RowsTypeOK, MatchesTypeOK
  <2>4. step = "counted" => playing'[current] = 0
    BY <2>1 DEF Counted, MatchesTypeOK, ExecutorTypeOK
  <2> QED BY <2>2, <2>3, <2>4 DEF Counted
<1>6. OnePlaceEach'
  BY DEF MatchLost, OnePlaceEach, RowsTypeOK,
     MatchesTypeOK, ExecutorTypeOK
<1> QED BY <1>5, <1>6

(* What match_ended does after its commit leaves the counters alone.       *)
LEMMA ScoredKeepsInv ==
  ASSUME PvPTypeOK, Sound, MatchScored
  PROVE  Sound'
<1> USE PvPAssumption DEF Sound, PvPTypeOK, Batches, executor, rows
<1>1. /\ ending \in Batches /\ ending # 0 /\ ending' = 0
      /\ \/ queue' = queue
         \/ queue' = queue \cup {ending} /\ rest_matches[ending] = 0
      /\ status' \in [Batches -> {"pending", "evaluating", "evaluated"}]
  BY SMTT(30) DEF MatchScored, RoundOver, RowsTypeOK, ExecutorTypeOK
<1>2. /\ UNCHANGED <<created, rounds_id, rounds, rest_matches, pvp_batch>>
      /\ UNCHANGED <<playing, played, memory, step, current, matches>>
  BY DEF MatchScored
<1>4. Counted'
  BY <1>1, <1>2 DEF Counted
<1>5. ending <= created
  BY <1>1 DEF OnePlaceEach, RowsTypeOK
<1>6. OnePlaceEach'
  <2>1. queue' \subseteq 1 .. created
    <3>1. queue \subseteq 1 .. created /\ ending \in 1 .. created
      BY <1>1, <1>5 DEF OnePlaceEach, RowsTypeOK
    <3> QED BY <1>1, <3>1
  <2>2. step # "idle" => current \notin queue /\ current # ending
    BY <1>1 DEF OnePlaceEach
  <2>3. step # "idle" => current \notin queue'
    BY <1>1, <2>2
  <2> QED BY <1>1, <1>2, <2>1, <2>3 DEF OnePlaceEach
<1> QED BY <1>4, <1>6

(* A restart empties the memory of the service and keeps the database.     *)
LEMMA CrashKeepsInv ==
  ASSUME PvPTypeOK, Sound, Crash
  PROVE  Sound'
<1> USE PvPAssumption DEF Sound, PvPTypeOK, Batches, executor, rows
<1>5. Counted'
  BY DEF Crash, Goto, Return, Counted, RowsTypeOK,
     MatchesTypeOK, ExecutorTypeOK
<1>6. OnePlaceEach'
  BY DEF Crash, Goto, Return, OnePlaceEach, RowsTypeOK,
     MatchesTypeOK, ExecutorTypeOK
<1> QED BY <1>5, <1>6

(* So do steps of the rest of the system.                                  *)
LEMMA StutterKeepsInv ==
  ASSUME PvPTypeOK, Sound, UNCHANGED vars
  PROVE  Sound'
<1> USE PvPAssumption DEF Sound, PvPTypeOK, Batches, executor, rows
<1>5. Counted'
  BY DEF vars, Counted, RowsTypeOK,
     MatchesTypeOK, ExecutorTypeOK
<1>6. OnePlaceEach'
  BY DEF vars, OnePlaceEach, RowsTypeOK,
     MatchesTypeOK, ExecutorTypeOK
<1> QED BY <1>5, <1>6

(* The events that happened are counted in natural numbers, upwards.       *)
LEMMA NextSpent ==
  ASSUME SpentOK, [Next]_vars
  PROVE  SpentOK' /\ (NoneTwice' => NoneTwice)
<1>1. UNCHANGED spent \/ \E e \in Events : Spend(e)
  BY DEF Next, vars, MissingOperations, ManuallyStartMatch, FirstRound, LaterRound,
     Pair, PairRaises, Count, Publish, MatchEnded, MatchEndedAgain, MatchLost,
     MatchScored, Crash, Events
<1>2. "duplicate" \in Events
  BY DEF Events
<1> QED BY <1>1, <1>2 DEF SpentOK, Spend, NoneTwice

(* Every step but a duplicated report keeps the counters in order.         *)
LEMMA NextSound ==
  ASSUME PvPInv, [Next]_vars, NoneTwice'
  PROVE  Sound'
<1>0. PvPTypeOK /\ Sound /\ SpentOK
  BY NextSpent DEF PvPInv
<1>1. CASE MissingOperations
  BY <1>0, <1>1, CreateKeepsInv, PvPAssumption DEF MissingOperations
<1>2. CASE \E n \in ManualRounds : ManuallyStartMatch(n)
  BY <1>0, <1>2, CreateKeepsInv, PvPAssumption DEF ManuallyStartMatch
<1>3. CASE \E b \in Batches : FirstRound(b)
  BY <1>0, <1>3, FirstRoundKeepsInv
<1>4. CASE \E b \in Batches : LaterRound(b)
  BY <1>0, <1>4, LaterRoundKeepsInv
<1>5. CASE Pair
  BY <1>0, <1>5, PairKeepsInv
<1>6. CASE PairRaises
  BY <1>0, <1>6, PairRaisesKeepsInv
<1>7. CASE Count
  BY <1>0, <1>7, CountKeepsInv
<1>8. CASE Publish
  BY <1>0, <1>8, PublishKeepsInv
<1>9. CASE \E b \in Batches : MatchEnded(b)
  BY <1>0, <1>9, MatchEndedKeepsInv
<1>10. CASE \E b \in Batches : MatchEndedAgain(b)
  <2>1. "duplicate" \in Events
    BY DEF Events
  <2>2. spent'["duplicate"] = spent["duplicate"] + 1 /\ spent["duplicate"] \in Nat
    BY <1>0, <1>10, <2>1 DEF MatchEndedAgain, Spend, SpentOK
  <2> QED BY <2>2 DEF NoneTwice
<1>11. CASE \E b \in Batches : MatchLost(b)
  BY <1>0, <1>11, MatchLostKeepsInv
<1>12. CASE MatchScored
  BY <1>0, <1>12, ScoredKeepsInv
<1>13. CASE Crash
  BY <1>0, <1>13, CrashKeepsInv
<1>14. CASE UNCHANGED vars
  BY <1>0, <1>14, StutterKeepsInv
<1> QED
  BY <1>1, <1>2, <1>3, <1>4, <1>5, <1>6, <1>7, <1>8, <1>9, <1>10, <1>11,
     <1>12, <1>13, <1>14 DEF Next

(* A step from a sound state begins a round or ends a batch only if no     *)
(* match of the batch is played.                                           *)
LEMMA StepDoesNotOverlap ==
  ASSUME PvPInv, NoneTwice, [Next]_vars, NEW b \in Batches,
         \/ rounds_id'[b] # rounds_id[b]
         \/ status'[b] = "evaluated" /\ status[b] # "evaluated"
  PROVE  playing[b] = 0
<1> USE DEF PvPInv, Sound, PvPTypeOK, RowsTypeOK, MatchesTypeOK, ExecutorTypeOK
<1>1. (Pair /\ current = b) \/ (MatchScored /\ ending = b /\ rest_matches[b] = 0)
  BY DEF Next, vars, rows, MissingOperations, ManuallyStartMatch, CreateBatch,
     FirstRound, LaterRound, Pair, PairRaises, Count, Publish, MatchEnded,
     MatchEndedAgain, Decrement, MatchLost, MatchScored, RoundOver, Crash
<1>2. rest_matches[b] = 0
  BY <1>1 DEF Pair
<1> QED BY <1>2 DEF Counted

-----------------------------------------------------------------------------
(* What holds whether or not a match is reported twice. Only batches that  *)
(* were created are anywhere, and the others are blank.                    *)
OnlyCreated ==
    /\ queue \subseteq 1 .. created
    /\ current <= created /\ ending <= created
    /\ \A b \in Batches : b > created =>
           /\ rounds_id[b] = 0 /\ status[b] = "pending"
           /\ playing[b] = 0 /\ played[b] = 0

(* The executor only works on a batch that has rounds left.                *)
RoundsLeft == step = "pairing" => rounds_id[current] < rounds[current]

RoundsInv == PvPTypeOK /\ OnlyCreated /\ RoundsLeft /\ EvaluatedAfterAllRounds

(* Every step keeps to the batches that were created.                      *)
LEMMA NextOnlyCreated ==
  ASSUME RoundsInv, [Next]_vars
  PROVE  OnlyCreated'
<1> USE PvPAssumption DEF RoundsInv, OnlyCreated, PvPTypeOK, RowsTypeOK,
        MatchesTypeOK, ExecutorTypeOK, Batches, executor, rows
<1>1. ASSUME NEW n \in Nat, CreateBatch(n)  PROVE OnlyCreated'
  BY <1>1 DEF CreateBatch
<1>2. ASSUME NEW b \in Batches, FirstRound(b) \/ LaterRound(b)  PROVE OnlyCreated'
  <2>1. /\ b \in 1 .. created /\ queue' \subseteq queue
        /\ UNCHANGED rows /\ UNCHANGED <<playing, played, ending>>
        /\ current' = current \/ current' = b
    BY <1>2 DEF FirstRound, LaterRound, Popped, Goto
  <2> QED BY <2>1
<1>3. ASSUME Pair \/ PairRaises \/ Count \/ Publish  PROVE OnlyCreated'
  <2>1. current \in 1 .. created
    BY <1>3 DEF Pair, PairRaises, Count, Publish
  <2>2. /\ current' = current \/ current' = 0
        /\ UNCHANGED <<created, queue, ending, played>>
    BY <1>3 DEF Pair, PairRaises, Count, Publish, Goto, Return
  <2>3. \A b \in Batches : b # current =>
           /\ rounds_id'[b] = rounds_id[b] /\ status'[b] = status[b]
           /\ playing'[b] = playing[b]
    BY <1>3 DEF Pair, PairRaises, Count, Publish
  <2>4. current' <= created'
    BY <2>1, <2>2
  <2>5. ASSUME NEW b \in Batches, b > created'
        PROVE  /\ rounds_id'[b] = 0 /\ status'[b] = "pending"
               /\ playing'[b] = 0 /\ played'[b] = 0
    <3>1. b # current /\ b > created
      BY <2>1, <2>2, <2>5
    <3> QED BY <2>2, <2>3, <3>1
  <2> QED BY <2>2, <2>4, <2>5
<1>4. ASSUME NEW b \in Batches, MatchEnded(b) \/ MatchEndedAgain(b) \/ MatchLost(b)
      PROVE  OnlyCreated'
  <2>1. b \in 1 .. created
    BY <1>4 DEF MatchEnded, MatchEndedAgain, MatchLost
  <2>2. /\ ending' = ending \/ ending' = b
        /\ UNCHANGED <<created, queue, current, rounds_id, status>>
    BY <1>4 DEF MatchEnded, MatchEndedAgain, MatchLost, Decrement
  <2>3. \A c \in Batches : c # b =>
           playing'[c] = playing[c] /\ played'[c] = played[c]
    BY <1>4 DEF MatchEnded, MatchEndedAgain, MatchLost
  <2> QED BY <2>1, <2>2, <2>3
<1>5. ASSUME MatchScored  PROVE OnlyCreated'
  <2>1. /\ ending' = 0 /\ ending \in 1 .. created
        /\ queue' = queue \/ queue' = queue \cup {ending}
        /\ UNCHANGED <<created, rounds_id, playing, played, current>>
    BY <1>5 DEF MatchScored
  <2>2. \A b \in Batches : b # ending => status'[b] = status[b]
    BY <1>5 DEF MatchScored
  <2>3. queue' \subseteq 1 .. created
    BY <2>1
  <2> QED BY <2>1, <2>2, <2>3
<1>6. CASE Crash
  BY <1>6 DEF Crash, Return, Goto
<1>7. CASE UNCHANGED vars
  BY <1>7 DEF vars
<1> QED
  BY <1>1, <1>2, <1>3, <1>4, <1>5, <1>6, <1>7
     DEF Next, MissingOperations, ManuallyStartMatch

(* No step begins a round too many or ends a batch before its last.        *)
LEMMA NextRounds ==
  ASSUME RoundsInv, [Next]_vars
  PROVE  RoundsLeft' /\ EvaluatedAfterAllRounds'
<1> USE PvPAssumption DEF RoundsInv, RoundsLeft, EvaluatedAfterAllRounds, PvPTypeOK,
        RowsTypeOK, ExecutorTypeOK, Batches, executor, rows
<1> DEFINE Goal == RoundsLeft' /\ EvaluatedAfterAllRounds'
<1>1. ASSUME NEW n \in Nat, CreateBatch(n)  PROVE Goal
  <2>1. /\ created + 1 \in Batches /\ rounds_id[created + 1] = 0
        /\ status[created + 1] = "pending" /\ current # created + 1
    BY <1>1 DEF CreateBatch, OnlyCreated
  <2> QED BY <1>1, <2>1 DEF CreateBatch
<1>2. ASSUME NEW b \in Batches, FirstRound(b) \/ LaterRound(b)  PROVE Goal
  <2>1. /\ UNCHANGED rows
        /\ \/ UNCHANGED executor
           \/ step' = "pairing" /\ current' = b /\ rounds_id[b] < rounds[b]
    BY <1>2 DEF FirstRound, LaterRound, Goto
  <2> QED BY <2>1
<1>3. ASSUME Pair  PROVE Goal
  <2>1. /\ current \in Batches /\ rounds_id[current] < rounds[current]
        /\ step' # "pairing" /\ UNCHANGED rounds
    BY <1>3 DEF Pair, Goto, Return
  <2>2. \A b \in Batches :
           IF b = current
           THEN rounds_id'[b] = rounds_id[b] + 1 /\ status'[b] = "evaluating"
           ELSE rounds_id'[b] = rounds_id[b] /\ status'[b] = status[b]
    BY <1>3 DEF Pair
  <2>3. ASSUME NEW b \in Batches
        PROVE  /\ rounds_id'[b] <= rounds'[b]
               /\ status'[b] = "evaluated" => rounds_id'[b] = rounds'[b]
    <3>1. rounds_id[b] \in Nat /\ rounds[b] \in Nat /\ rounds'[b] = rounds[b]
      BY <2>1
    <3>2. CASE b = current
      BY <2>1, <2>2, <3>1, <3>2
    <3>3. CASE b # current
      BY <2>2, <3>1, <3>3
    <3> QED BY <3>2, <3>3
  <2> QED BY <2>1, <2>3
<1>4. ASSUME PairRaises \/ Count \/ Publish  PROVE Goal
  <2>1. step' # "pairing" /\ UNCHANGED <<rounds_id, rounds, status>>
    BY <1>4 DEF PairRaises, Count, Publish, Goto, Return
  <2> QED BY <2>1
<1>5. ASSUME NEW b \in Batches, MatchEnded(b) \/ MatchEndedAgain(b) \/ MatchLost(b)
      PROVE  Goal
  BY <1>5 DEF MatchEnded, MatchEndedAgain, MatchLost, Decrement
<1>6. ASSUME MatchScored  PROVE Goal
  BY <1>6 DEF MatchScored, LastRound
<1>7. ASSUME Crash \/ UNCHANGED vars  PROVE Goal
  BY <1>7 DEF Crash, Return, Goto, vars
<1> QED
  BY <1>1, <1>2, <1>3, <1>4, <1>5, <1>6, <1>7
     DEF Next, MissingOperations, ManuallyStartMatch

(* The second invariant is inductive.                                      *)
LEMMA RoundsInvHolds == Spec => []RoundsInv
<1>1. Init => RoundsInv
  <2> SUFFICES ASSUME Init PROVE RoundsInv
    OBVIOUS
  <2> USE PvPAssumption DEF Init, Batches
  <2>1. PvPTypeOK
    BY DEF PvPTypeOK, RowsTypeOK, MatchesTypeOK, ExecutorTypeOK
  <2>2. OnlyCreated /\ RoundsLeft /\ EvaluatedAfterAllRounds
    BY DEF OnlyCreated, RoundsLeft, EvaluatedAfterAllRounds
  <2> QED BY <2>1, <2>2 DEF RoundsInv
<1>2. RoundsInv /\ [Next]_vars => RoundsInv'
  BY NextTypes, NextOnlyCreated, NextRounds DEF RoundsInv
<1> QED BY <1>1, <1>2, PTL DEF Spec

-----------------------------------------------------------------------------
(* PvPService keeps the types of its rows and of its memory.               *)
THEOREM PvPTypeCorrect == Spec => []PvPTypeOK
<1>1. RoundsInv => PvPTypeOK
  BY DEF RoundsInv
<1> QED BY RoundsInvHolds, <1>1, PTL

(* A batch has no more rounds than it was made for, and all of them when   *)
(* it is declared evaluated, even if matches are reported twice.           *)
THEOREM EvaluatedHasAllRounds == Spec => []EvaluatedAfterAllRounds
<1>1. RoundsInv => EvaluatedAfterAllRounds
  BY DEF RoundsInv
<1> QED BY RoundsInvHolds, <1>1, PTL

(* The assertion of start_round that rest_matches is zero does not fail    *)
(* before a match is reported twice.                                       *)
THEOREM RoundAssertionHolds == Spec => []RestMatchesZero
<1>1. PvPInv /\ [Next]_vars => PvPInv'
  BY NextTypes, NextSound, NextSpent DEF PvPInv
<1>2. PvPInv => RestMatchesZero
  BY DEF PvPInv, Sound, Counted, RestMatchesZero
<1> QED BY InitPvPInv, <1>1, <1>2, PTL DEF Spec

(* No round begins and no batch ends while a match of it is played, before *)
(* a match is reported twice.                                              *)
THEOREM RoundsNeverOverlap == Spec => RoundsDoNotOverlap
<1>1. PvPInv /\ [Next]_vars => PvPInv'
  BY NextTypes, NextSound, NextSpent DEF PvPInv
<1>2. PvPInv /\ [Next]_vars =>
        [NoneTwice => \A b \in Batches :
          \/ rounds_id'[b] # rounds_id[b]
          \/ status'[b] = "evaluated" /\ status[b] # "evaluated"
          => playing[b] = 0]_vars
  BY StepDoesNotOverlap
<1> QED BY InitPvPInv, <1>1, <1>2, PTL DEF Spec, RoundsDoNotOverlap

-----------------------------------------------------------------------------
(* The submissions of a contestant.                                        *)

Row == [code : Nat, good : BOOLEAN, outcome : {"missing", "none", "ok", "fail"},
        discarded : BOOLEAN, batch : Nat, evaluation : {"none", "dummy", "earned"},
        evaluated : BOOLEAN, score : {"none", "zero", "earned"}]

SubmissionsTypeOK ==
    /\ submissions \in Seq(Row)
    /\ compiling \subseteq Ids /\ ended \subseteq Ids /\ swept \subseteq Ids
    /\ task_batch \in Nat /\ player \in Nat
    /\ stage \in {"idle", "mark", "copy", "rounds", "update", "raised"}

(* Nothing is known of a submission that is not compiled, and whoever is   *)
(* about to prepare it has it to himself.                                  *)
Judging ==
    /\ \A s \in Ids : submissions[s].outcome = "missing" =>
          /\ submissions[s].evaluation = "none" /\ ~submissions[s].evaluated
          /\ submissions[s].batch = 0
    /\ \A s \in compiling : submissions[s].outcome = "missing"
    /\ \A s \in ended \cup swept : submissions[s].outcome # "missing"
    /\ ended = {} \/ swept = {}
    /\ \A s \in ended : FilterPending(s) =>
          submissions[s].evaluation = "none" /\ ~submissions[s].evaluated

(* Of two submissions that wait for a batch, one is yet to be prepared.    *)
Waiting ==
    \A s, t \in Ids : FilterPending(s) /\ FilterPending(t) /\ s # t
                      => s \in ended \/ t \in ended

(* No two submissions play the same batch.                                 *)
Playing ==
    /\ \A s \in Ids : /\ submissions[s].batch <= task_batch
                      /\ stage = "mark" => submissions[s].batch < task_batch
    /\ \A s, t \in Ids :
          submissions[s].batch = submissions[t].batch /\ submissions[s].batch # 0 => s = t
    /\ stage \in {"mark", "copy", "rounds", "update"} => task_batch > 0
    /\ stage \in {"rounds", "update"} /\ player # 0 =>
          player \in Ids /\ submissions[player].batch = task_batch
    /\ stage = "update" => player # 0

(* Only the submission whose batch just ended may have an old score.       *)
Updating(s) == stage = "update" /\ s = player

Earning ==
    \A s \in Ids : submissions[s].evaluation = "earned" /\ ~Updating(s) =>
        /\ submissions[s].evaluated
        /\ ~Discarded(s) => submissions[s].score \in {"none", "earned"}

SubmissionsInv == SubmissionsTypeOK /\ Judging /\ Waiting /\ Playing /\ Earning

-----------------------------------------------------------------------------
(* What a step does to the rows.                                           *)

LEMMA RowChanged ==
    ASSUME SubmissionsTypeOK, NEW s \in Ids, NEW r \in Row,
           submissions' = [submissions EXCEPT ![s] = r]
    PROVE  /\ submissions' \in Seq(Row) /\ Ids' = Ids
           /\ submissions'[s] = r
           /\ \A t \in Ids : t # s => submissions'[t] = submissions[t]
  BY DEF SubmissionsTypeOK, Ids

LEMMA RowAdded ==
    ASSUME SubmissionsTypeOK, NEW r \in Row, submissions' = Append(submissions, r)
    PROVE  /\ submissions' \in Seq(Row) /\ Ids' = Ids \cup {Len(submissions) + 1}
           /\ Len(submissions) + 1 \notin Ids
           /\ submissions'[Len(submissions) + 1] = r
           /\ \A t \in Ids : submissions'[t] = submissions[t]
  BY DEF SubmissionsTypeOK, Ids

LEMMA NewRow ==
    ASSUME NEW c \in Nat, NEW g \in BOOLEAN
    PROVE  /\ NewSubmission(c, g) \in Row
           /\ NewSubmission(c, g).outcome = "missing" /\ NewSubmission(c, g).batch = 0
           /\ NewSubmission(c, g).evaluation = "none" /\ ~NewSubmission(c, g).evaluated
  BY DEF NewSubmission, Row

(* Preparing s leaves s, or the others that wait, without a batch to wait  *)
(* for.                                                                    *)
LEMMA RowsPrepared ==
    ASSUME SubmissionsTypeOK, NEW s \in Ids, submissions' = Prepared(s)
    PROVE  /\ submissions' \in Seq(Row) /\ Ids' = Ids
           /\ \A t \in Ids \ {s} : /\ submissions'[t].evaluation = submissions[t].evaluation
                                   /\ \/ submissions'[t] = submissions[t]
                                      \/ submissions'[t] = SetDiscarded(submissions[t])
           /\ submissions'[s].evaluation =
                 IF submissions[s].evaluation = "none" THEN "dummy" ELSE submissions[s].evaluation
           /\ submissions'[s].batch = submissions[s].batch
           /\ submissions'[s].evaluated = submissions[s].evaluated
           /\ \A t \in Ids \ {s} : FilterPending(t) =>
                 IF t < s THEN submissions'[t] = SetDiscarded(submissions[t])
                 ELSE submissions'[s].discarded /\ submissions'[s].outcome = "fail"
           /\ \/ submissions'[s].discarded /\ submissions'[s].outcome = "fail"
              \/ /\ submissions'[s].discarded = submissions[s].discarded
                 /\ submissions'[s].outcome = submissions[s].outcome
                 /\ submissions'[s].score = submissions[s].score
  <1> DEFINE mine == [submissions[s] EXCEPT !.evaluation = IF @ = "none" THEN "dummy" ELSE @]
  <1>1. Ids = 1 .. Len(submissions) /\ Len(submissions) \in Nat /\ \A t \in Ids : submissions[t] \in Row
    BY DEF SubmissionsTypeOK, Ids
  <1>2. mine \in Row /\ \A r \in Row : SetDiscarded(r) \in Row
    BY <1>1 DEF Row, SetDiscarded
  <1>3. submissions' = [t \in Ids |-> IF t = s THEN IF Overtaken(s) THEN SetDiscarded(mine) ELSE mine
            ELSE IF t < s /\ WaitsForBatch(t) /\ ~Discarded(t) THEN SetDiscarded(submissions[t])
            ELSE submissions[t]]
    BY DEF Prepared
  <1>4. submissions' \in [1 .. Len(submissions) -> Row]
    BY <1>1, <1>2, <1>3
  <1>5. submissions' \in Seq(Row) /\ Ids' = Ids
    BY <1>1, <1>4 DEF Ids
  <1>6. \A t \in Ids \ {s} : \/ submissions'[t] = submissions[t]
                             \/ submissions'[t] = SetDiscarded(submissions[t])
    BY <1>3
  <1>7. \A r \in Row : /\ SetDiscarded(r).evaluation = r.evaluation
                       /\ SetDiscarded(r).batch = r.batch /\ SetDiscarded(r).evaluated = r.evaluated
                       /\ SetDiscarded(r).discarded /\ SetDiscarded(r).outcome = "fail"
    BY DEF Row, SetDiscarded
  <1>8. /\ mine.evaluation = IF submissions[s].evaluation = "none" THEN "dummy" ELSE submissions[s].evaluation
        /\ mine.batch = submissions[s].batch /\ mine.evaluated = submissions[s].evaluated
        /\ mine.discarded = submissions[s].discarded /\ mine.outcome = submissions[s].outcome
        /\ mine.score = submissions[s].score
    BY <1>1 DEF Row
  <1>9. submissions'[s] = IF Overtaken(s) THEN SetDiscarded(mine) ELSE mine
    BY <1>3
  <1>10. ASSUME NEW t \in Ids \ {s}, FilterPending(t)
         PROVE  IF t < s THEN submissions'[t] = SetDiscarded(submissions[t])
                ELSE submissions'[s].discarded /\ submissions'[s].outcome = "fail"
    <2>1. CASE t < s
      <3>1. WaitsForBatch(t) /\ ~Discarded(t)
        BY <1>10 DEF WaitsForBatch, Discarded, FilterPending
      <3> QED BY <1>3, <2>1, <3>1
    <2>2. CASE ~(t < s)
      <3>1. Overtaken(s)
        BY <1>1, <1>10, <2>2 DEF Overtaken, WaitsForBatch
      <3> QED BY <1>2, <1>7, <1>9, <2>2, <3>1
    <2> QED BY <2>1, <2>2
  <1> HIDE DEF mine
  <1>11. \A t \in Ids \ {s} : submissions'[t].evaluation = submissions[t].evaluation
    BY <1>1, <1>6, <1>7
  <1> QED BY <1>2, <1>5, <1>6, <1>7, <1>8, <1>9, <1>10, <1>11

-----------------------------------------------------------------------------
(* One lemma per step.                                                     *)

LEMMA SubmissionAdded ==
    ASSUME SubmissionsInv, NEW c \in Nat, NEW g \in BOOLEAN,
           submissions' = Append(submissions, NewSubmission(c, g)), UNCHANGED service,
           task_batch' = task_batch,
           \/ stage' = stage /\ player' = player
           \/ stage = "copy" /\ stage' = "rounds" /\ player' = GetMatchSubmission
    PROVE  SubmissionsInv'
  <1>0. PICK n : n = Len(submissions) + 1
    OBVIOUS
  <1>1. SubmissionsTypeOK /\ Judging /\ Waiting /\ Playing /\ Earning
    BY DEF SubmissionsInv
  <1>2. /\ submissions' \in Seq(Row) /\ Ids' = Ids \cup {n} /\ n \notin Ids
        /\ \A t \in Ids : submissions'[t] = submissions[t]
    BY <1>0, <1>1, NewRow, RowAdded
  <1>3. /\ submissions'[n].outcome = "missing" /\ submissions'[n].batch = 0
        /\ submissions'[n].evaluation = "none" /\ ~submissions'[n].evaluated
    BY <1>0, <1>1, NewRow, RowAdded
  <1>4. compiling' = compiling /\ ended' = ended /\ swept' = swept
    BY DEF service
  <1>5. (stage' = stage /\ player' = player) \/ (stage' = "rounds" /\ stage = "copy")
    OBVIOUS
  <1>6. GetMatchSubmission = 0 \/ (GetMatchSubmission \in Ids
                                   /\ submissions[GetMatchSubmission].batch = task_batch)
    BY DEF GetMatchSubmission
  <1>7. Ids \subseteq Nat /\ \A t \in Ids : submissions[t] \in Row
    BY <1>1 DEF SubmissionsTypeOK, Ids
  <1>8. SubmissionsTypeOK'
    <2>1. player' \in Nat
      <3>1. GetMatchSubmission \in Nat
        <4>1. CASE GetMatchSubmission = 0
          BY <4>1
        <4>2. CASE GetMatchSubmission \in Ids
          BY <1>7, <4>2
        <4> QED BY <1>6, <4>1, <4>2
      <3> QED BY <1>1, <3>1 DEF SubmissionsTypeOK
    <2>2. stage' \in {"idle", "mark", "copy", "rounds", "update", "raised"}
      BY <1>1, <1>5 DEF SubmissionsTypeOK
    <2> QED BY <1>1, <1>2, <1>4, <2>1, <2>2 DEF SubmissionsTypeOK
  <1>9. Judging'
    BY <1>1, <1>2, <1>3, <1>4, ZenonT(60) DEF Judging, SubmissionsTypeOK, FilterPending
  <1>10. Waiting'
    <2>1. ~FilterPending(n)' /\ \A t \in Ids : FilterPending(t)' <=> FilterPending(t)
      BY <1>2, <1>3 DEF FilterPending
    <2> QED BY <1>1, <1>2, <1>4, <2>1 DEF Waiting
  <1>11. Playing'
    <2>1. \A t \in Ids : submissions'[t].batch <= task_batch
                         /\ (stage' = "mark" => submissions'[t].batch < task_batch)
      BY <1>1, <1>2, <1>5 DEF Playing
    <2>2. 0 <= task_batch /\ (stage' = "mark" => 0 < task_batch)
      BY <1>1, <1>5 DEF Playing, SubmissionsTypeOK
    <2>3. \A t, u \in Ids' : submissions'[t].batch = submissions'[u].batch
                             /\ submissions'[t].batch # 0 => t = u
      <3> SUFFICES ASSUME NEW t \in Ids', NEW u \in Ids', submissions'[t].batch # 0,
                          submissions'[t].batch = submissions'[u].batch
                   PROVE  t = u
        OBVIOUS
      <3>1. t \in Ids /\ u \in Ids
        BY <1>2, <1>3
      <3> QED BY <1>1, <1>2, <3>1 DEF Playing
    <2>4. stage' \in {"mark", "copy", "rounds", "update"} => task_batch > 0
      BY <1>1, <1>5 DEF Playing
    <2>5. stage' \in {"rounds", "update"} /\ player' # 0 =>
             player' \in Ids' /\ submissions'[player'].batch = task_batch
      <3>1. CASE stage' = stage /\ player' = player
        BY <1>1, <1>2, <3>1 DEF Playing
      <3>2. CASE player' = GetMatchSubmission
        BY <1>2, <1>6, <3>2
      <3> QED BY <3>1, <3>2
    <2>6. stage' = "update" => player' # 0
      BY <1>1 DEF Playing
    <2> QED BY <1>2, <1>3, <2>1, <2>2, <2>3, <2>4, <2>5, <2>6 DEF Playing
  <1>12. Earning'
    <2>1. \A t \in Ids : Updating(t)' <=> Updating(t)
      BY DEF Updating
    <2> QED BY <1>1, <1>2, <1>3, <2>1 DEF Earning, Discarded
  <1> QED BY <1>8, <1>9, <1>10, <1>11, <1>12 DEF SubmissionsInv

LEMMA SubmitKeepsInv ==
    ASSUME SubmissionsInv, NEW good \in BOOLEAN, SubmitCode(good)  PROVE SubmissionsInv'
  <1>1. IsFiniteSet(Codes)
    <2>1. Ids = 1 .. Len(submissions) /\ Len(submissions) \in Nat
      BY DEF SubmissionsInv, SubmissionsTypeOK, Ids
    <2>2. IsFiniteSet(Ids)
      BY <2>1, FS_Interval
    <2> DEFINE f == [t \in Ids |-> submissions[t].code]
    <2>3. f \in Surjection(Ids, Codes)
      BY DEF Surjection, Codes
    <2> QED BY <2>2, <2>3, FS_Surjection
  <1>2. Cardinality(Codes) + 1 \in Nat
    BY <1>1, FS_CardinalityType
  <1> QED BY <1>2, SubmissionAdded DEF SubmitCode, batch

(* The enqueued compilation, a batch that starts, one that raised.         *)
LEMMA RowsKept ==
    ASSUME SubmissionsInv,
           \/ \E s \in Ids : EnqueueCompilation(s)
           \/ SweepEvaluations \/ NextBatch \/ StartAnother \/ UNCHANGED submissionVars
    PROVE  SubmissionsInv'
  <1>1. SubmissionsTypeOK /\ Judging /\ Waiting /\ Playing /\ Earning
    BY DEF SubmissionsInv
  <1>2. \A t \in Ids : submissions[t] \in Row
    BY <1>1 DEF SubmissionsTypeOK, Ids
  <1>3. ASSUME NEW s \in Ids, EnqueueCompilation(s)  PROVE SubmissionsInv'
    BY <1>1, <1>3 DEF EnqueueCompilation, ToCompile, batch, SubmissionsInv, SubmissionsTypeOK,
          Judging, Waiting, Playing, Earning, Ids, FilterPending, Updating, Discarded
  <1>4. CASE SweepEvaluations
    <2>1. ended = {} /\ \A s \in swept' : s \in Ids /\ submissions[s].outcome = "ok"
      BY <1>4 DEF SweepEvaluations
    <2> QED BY <1>1, <1>4, <2>1 DEF SweepEvaluations, batch, SubmissionsInv, SubmissionsTypeOK,
          Judging, Waiting, Playing, Earning, Ids, FilterPending, Updating, Discarded
  <1>5. CASE NextBatch
    <2>1. \A s \in Ids : submissions[s].batch < task_batch + 1 /\ submissions[s].batch \in Nat
      BY <1>1, <1>2 DEF Playing, SubmissionsTypeOK, Row
    <2>2. Playing'
      BY <1>1, <1>5, <2>1 DEF NextBatch, Playing, SubmissionsTypeOK, Ids
    <2> QED BY <1>1, <1>5, <2>2 DEF NextBatch, service, SubmissionsInv, SubmissionsTypeOK,
          Judging, Waiting, Earning, Ids, FilterPending, Updating, Discarded
  <1>6. CASE StartAnother
    BY <1>1, <1>6 DEF StartAnother, service, SubmissionsInv, SubmissionsTypeOK,
          Judging, Waiting, Playing, Earning, Ids, FilterPending, Updating, Discarded
  <1>7. CASE UNCHANGED submissionVars
    BY <1>1, <1>7 DEF submissionVars, SubmissionsInv, SubmissionsTypeOK,
          Judging, Waiting, Playing, Earning, Ids, FilterPending, Updating, Discarded
  <1> QED BY <1>3, <1>4, <1>5, <1>6, <1>7

LEMMA PlayingKept ==
    ASSUME Playing, Ids' = Ids, \A t \in Ids : submissions'[t].batch = submissions[t].batch,
           task_batch' = task_batch, player' = player,
           stage' = stage \/ (stage = "rounds" /\ (stage' = "idle" \/ stage' = "raised"
                                                   \/ (stage' = "update" /\ player # 0)))
    PROVE  Playing'
  <1>1. ASSUME NEW t \in Ids, NEW u \in Ids, submissions'[t].batch # 0,
               submissions'[t].batch = submissions'[u].batch
        PROVE  t = u
    BY <1>1 DEF Playing
  <1>2. \A t \in Ids : /\ submissions'[t].batch <= task_batch
                       /\ stage' = "mark" => submissions'[t].batch < task_batch
    BY DEF Playing
  <1>3. stage' \in {"rounds", "update"} /\ player # 0 =>
             player \in Ids /\ submissions'[player].batch = task_batch
    BY DEF Playing
  <1>4. /\ stage' \in {"mark", "copy", "rounds", "update"} => task_batch > 0
        /\ stage' = "update" => player # 0
    BY DEF Playing
  <1> QED BY <1>1, <1>2, <1>3, <1>4 DEF Playing

(* A row of which only the fields named differ.                            *)
LEMMA OutcomeWritten ==
    ASSUME NEW r \in Row, NEW o \in {"missing", "none", "ok", "fail"},
           NEW q, q = [r EXCEPT !.outcome = o]
    PROVE  /\ q \in Row /\ q.outcome = o /\ q.batch = r.batch /\ q.discarded = r.discarded
           /\ q.evaluation = r.evaluation /\ q.evaluated = r.evaluated
  BY DEF Row

(* A compilation that is written is a new submission that waits, and is    *)
(* yet to be prepared.                                                     *)
LEMMA WrittenKeepsInv ==
    ASSUME SubmissionsInv, NEW s \in Ids, CompilationWritten(s)  PROVE SubmissionsInv'
  <1>1. SubmissionsTypeOK /\ Judging /\ Waiting /\ Playing /\ Earning
    BY DEF SubmissionsInv
  <1>2. submissions[s] \in Row /\ Ids \subseteq Nat
    BY <1>1 DEF SubmissionsTypeOK, Ids
  <1>3. PICK o \in {"none", "ok", "fail"} : \E q :
           q = [submissions[s] EXCEPT !.outcome = o] /\ submissions' = [submissions EXCEPT ![s] = q]
    BY <1>2 DEF CompilationWritten
  <1>q. PICK q :
           q = [submissions[s] EXCEPT !.outcome = o] /\ submissions' = [submissions EXCEPT ![s] = q]
    BY <1>3
  <1>4. /\ submissions[s].outcome = "missing" /\ submissions[s].batch = 0
        /\ submissions[s].evaluation = "none" /\ ~submissions[s].evaluated
    BY <1>1 DEF CompilationWritten, Judging
  <1>5. /\ submissions' \in Seq(Row) /\ Ids' = Ids
        /\ \A t \in Ids : t # s => submissions'[t] = submissions[t]
        /\ submissions'[s] = q
    BY <1>1, <1>2, <1>q, OutcomeWritten, RowChanged, ZenonT(60)
  <1>6. /\ submissions'[s].outcome = o /\ submissions'[s].batch = 0
        /\ submissions'[s].evaluation = "none" /\ ~submissions'[s].evaluated
    BY <1>2, <1>q, <1>4, <1>5, OutcomeWritten
  <1>7. /\ compiling' = compiling \ {s} /\ ended' = ended \cup {s}
        /\ swept' = swept /\ swept = {}
        /\ task_batch' = task_batch /\ stage' = stage /\ player' = player
    BY DEF CompilationWritten, batch
  <1>8. SubmissionsTypeOK'
    BY <1>1, <1>5, <1>7 DEF SubmissionsTypeOK
  <1>9. Judging'
    <2>1. \A t \in Ids : submissions'[t].outcome = "missing" =>
             /\ submissions'[t].evaluation = "none" /\ ~submissions'[t].evaluated
             /\ submissions'[t].batch = 0
      BY <1>1, <1>5, <1>6 DEF Judging
    <2>2. \A t \in compiling' : submissions'[t].outcome = "missing"
      BY <1>1, <1>5, <1>7 DEF Judging, SubmissionsTypeOK
    <2>3. \A t \in ended' \cup swept' : submissions'[t].outcome # "missing"
      BY <1>1, <1>5, <1>6, <1>7 DEF Judging, SubmissionsTypeOK
    <2>4. \A t \in ended' : FilterPending(t)' =>
             submissions'[t].evaluation = "none" /\ ~submissions'[t].evaluated
      BY <1>1, <1>5, <1>6, <1>7 DEF Judging, SubmissionsTypeOK, FilterPending
    <2> QED BY <1>5, <1>7, <2>1, <2>2, <2>3, <2>4 DEF Judging
  <1>10. Waiting'
    BY <1>1, <1>5, <1>7 DEF Waiting, FilterPending
  <1>11. \A t \in Ids : submissions'[t].batch = submissions[t].batch
    BY <1>4, <1>5, <1>6
  <1>12. Playing'
    BY <1>1, <1>5, <1>7, <1>11, PlayingKept
  <1>13. Earning'
    BY <1>1, <1>5, <1>6, <1>7 DEF Earning, Discarded, Updating
  <1> QED BY <1>8, <1>9, <1>10, <1>12, <1>13 DEF SubmissionsInv

(* Preparing: afterwards s does not wait, or waits alone but for those     *)
(* that are yet to be prepared.                                            *)
LEMMA PreparedKeepsInv ==
    ASSUME SubmissionsInv, NEW s \in Ids, submissions' = Prepared(s),
           submissions[s].outcome # "missing", s \in swept \/ s \in ended,
           ended' = ended \ {s}, swept' \subseteq swept,
           compiling' = compiling, UNCHANGED batch
    PROVE  SubmissionsInv'
  <1>1. SubmissionsTypeOK /\ Judging /\ Waiting /\ Playing /\ Earning
    BY DEF SubmissionsInv
  <1>2. task_batch' = task_batch /\ stage' = stage /\ player' = player
    BY DEF batch
  <1>3. /\ submissions' \in Seq(Row) /\ Ids' = Ids /\ Ids \subseteq Nat
        /\ \A t \in Ids : submissions[t] \in Row
    BY <1>1, RowsPrepared DEF SubmissionsTypeOK, Ids
  <1>4. \A r \in Row : /\ SetDiscarded(r).evaluation = r.evaluation
                       /\ SetDiscarded(r).batch = r.batch /\ SetDiscarded(r).evaluated = r.evaluated
                       /\ SetDiscarded(r).discarded /\ SetDiscarded(r).outcome = "fail"
    BY DEF Row, SetDiscarded
  <1>5. \A t \in Ids : /\ submissions'[t].batch = submissions[t].batch
                       /\ submissions'[t].evaluated = submissions[t].evaluated
    BY <1>1, <1>3, <1>4, RowsPrepared
  <1>6. \A t \in Ids : \/ submissions'[t].discarded /\ submissions'[t].outcome = "fail"
                       \/ /\ submissions'[t].discarded = submissions[t].discarded
                          /\ submissions'[t].outcome = submissions[t].outcome
                          /\ submissions'[t].score = submissions[t].score
    BY <1>1, <1>3, <1>4, RowsPrepared
  <1>7. \A t \in Ids \ {s} : submissions'[t].evaluation = submissions[t].evaluation
    BY <1>1, RowsPrepared
  <1>8. submissions'[s].evaluation = "earned" => submissions[s].evaluation = "earned"
    BY <1>1, RowsPrepared
  <1>9. \A t \in Ids : FilterPending(t)' => FilterPending(t)
    BY <1>5, <1>6 DEF FilterPending
  <1>10. ASSUME NEW t \in Ids \ {s}, FilterPending(t)  PROVE ~FilterPending(t)' \/ ~FilterPending(s)'
    <2>1. IF t < s THEN submissions'[t] = SetDiscarded(submissions[t])
          ELSE submissions'[s].discarded
      BY <1>1, <1>10, RowsPrepared
    <2> QED BY <1>3, <1>4, <2>1 DEF FilterPending
  <1>11. SubmissionsTypeOK'
    BY <1>1, <1>2, <1>3 DEF SubmissionsTypeOK
  <1>12. Judging'
    <2>1. \A t \in Ids : submissions'[t].outcome = "missing" =>
             t # s /\ submissions[t].outcome = "missing"
      BY <1>6
    <2>2. \A t \in Ids : submissions[t].outcome = "missing" => submissions'[t].outcome = "missing"
      <3>1. \A t \in Ids : submissions[t].outcome = "missing" => ~WaitsForBatch(t)
        BY DEF WaitsForBatch, FilterPending
      <3>2. \A t \in Ids : submissions[t].outcome = "missing" => submissions'[t] = submissions[t]
        BY <3>1 DEF Prepared
      <3> QED BY <3>2
    <2>3. \A t \in Ids : submissions'[t].outcome = "missing" =>
             /\ submissions'[t].evaluation = "none" /\ ~submissions'[t].evaluated
             /\ submissions'[t].batch = 0
      BY <1>1, <1>5, <1>7, <2>1 DEF Judging
    <2>4. \A t \in compiling' : submissions'[t].outcome = "missing"
      BY <1>1, <2>2 DEF Judging, SubmissionsTypeOK
    <2>5. \A t \in ended' \cup swept' : submissions'[t].outcome # "missing"
      BY <1>1, <2>1 DEF Judging, SubmissionsTypeOK
    <2>6. \A t \in ended' : FilterPending(t)' =>
             submissions'[t].evaluation = "none" /\ ~submissions'[t].evaluated
      BY <1>1, <1>5, <1>7, <1>9 DEF Judging, SubmissionsTypeOK
    <2> QED BY <1>1, <1>3, <2>3, <2>4, <2>5, <2>6 DEF Judging
  <1>13. Waiting'
    BY <1>1, <1>3, <1>9, <1>10 DEF Waiting
  <1>14. Playing'
    BY <1>1, <1>2, <1>3, <1>5, PlayingKept
  <1>15. Earning'
    BY <1>1, <1>2, <1>3, <1>5, <1>6, <1>7, <1>8 DEF Earning, Discarded, Updating
  <1> QED BY <1>11, <1>12, <1>13, <1>14, <1>15 DEF SubmissionsInv

(* A step that changes one row that is compiled, but neither its outcome   *)
(* nor, while it is yet to be prepared, its evaluation.                    *)
LEMMA RowEdited ==
    ASSUME SubmissionsInv, NEW s \in Ids, NEW r \in Row,
           submissions' = [submissions EXCEPT ![s] = r],
           r.outcome = submissions[s].outcome, r.outcome # "missing",
           r.discarded = submissions[s].discarded,
           r.batch = submissions[s].batch \/ r.batch # 0,
           s \in ended' /\ r.batch = 0 =>
               r.evaluation = submissions[s].evaluation /\ r.evaluated = submissions[s].evaluated,
           compiling' = compiling, swept' = swept, ended' \subseteq ended,
           \A t \in ended : t \in ended' \/ ~FilterPending(t)
    PROVE  /\ submissions' \in Seq(Row) /\ Ids' = Ids /\ submissions'[s] = r
           /\ \A t \in Ids : t # s => submissions'[t] = submissions[t]
           /\ Judging' /\ Waiting'
  <1>1. SubmissionsTypeOK /\ Judging /\ Waiting
    BY DEF SubmissionsInv
  <1>2. /\ submissions' \in Seq(Row) /\ Ids' = Ids /\ submissions'[s] = r
        /\ \A t \in Ids : t # s => submissions'[t] = submissions[t]
    BY <1>1, RowChanged
  <1>3. \A t \in Ids : submissions'[t].outcome = submissions[t].outcome
    BY <1>2
  <1>4. \A t \in Ids : FilterPending(t)' => FilterPending(t)
    BY <1>2 DEF FilterPending
  <1>5. Judging'
    <2>1. \A t \in Ids : submissions'[t].outcome = "missing" =>
             /\ submissions'[t].evaluation = "none" /\ ~submissions'[t].evaluated
             /\ submissions'[t].batch = 0
      BY <1>1, <1>2 DEF Judging
    <2>2. \A t \in compiling' : submissions'[t].outcome = "missing"
      BY <1>1, <1>3 DEF Judging, SubmissionsTypeOK
    <2>3. \A t \in ended' \cup swept' : submissions'[t].outcome # "missing"
      BY <1>1, <1>3 DEF Judging, SubmissionsTypeOK
    <2>4. ASSUME NEW t \in ended', FilterPending(t)'
          PROVE  submissions'[t].evaluation = "none" /\ ~submissions'[t].evaluated
      <3>1. t \in Ids /\ FilterPending(t) /\ t \in ended /\ submissions'[t].batch = 0
        BY <1>1, <1>4, <2>4 DEF SubmissionsTypeOK, FilterPending
      <3>2. submissions[t].evaluation = "none" /\ ~submissions[t].evaluated
        BY <1>1, <3>1 DEF Judging
      <3> QED BY <1>2, <2>4, <3>1, <3>2
    <2>5. ended' = {} \/ swept' = {}
      BY <1>1 DEF Judging
    <2> QED BY <1>2, <2>1, <2>2, <2>3, <2>4, <2>5 DEF Judging
  <1>6. Waiting'
    BY <1>1, <1>2, <1>4 DEF Waiting
  <1> QED BY <1>2, <1>5, <1>6

(* compilation_ended: a submission that waits and was written just now is  *)
(* prepared; one that is not has been marked for a batch meanwhile.        *)
LEMMA EndedKeepsInv ==
    ASSUME SubmissionsInv, NEW s \in Ids, CompilationEnded(s)  PROVE SubmissionsInv'
  <1>1. SubmissionsTypeOK /\ Judging /\ Waiting /\ Playing /\ Earning
    BY DEF SubmissionsInv
  <1>2. /\ s \in ended /\ ended' = ended \ {s} /\ compiling' = compiling /\ swept' = swept
        /\ task_batch' = task_batch /\ stage' = stage /\ player' = player
    BY DEF CompilationEnded, batch
  <1>3. submissions[s].outcome # "missing" /\ submissions[s] \in Row
    BY <1>1, <1>2 DEF Judging, SubmissionsTypeOK, Ids
  <1>4. FilterPending(s) => ToEvaluate(s) /\ submissions[s].evaluation = "none"
    BY <1>1, <1>2 DEF Judging, FilterPending, ToEvaluate
  <1>5. CASE ~ToEvaluate(s)
    <2>1. submissions' = submissions /\ ~FilterPending(s)
      BY <1>4, <1>5 DEF CompilationEnded
    <2>2. Ids' = Ids /\ \A t \in Ids : FilterPending(t)' <=> FilterPending(t)
      BY <2>1 DEF Ids, FilterPending
    <2>3. SubmissionsTypeOK' /\ Judging'
      BY <1>1, <1>2, <2>1, <2>2 DEF SubmissionsTypeOK, Judging
    <2>4. Waiting'
      BY <1>1, <1>2, <2>1, <2>2 DEF Waiting
    <2>5. Playing'
      BY <1>1, <1>2, <2>1, <2>2, PlayingKept
    <2>6. Earning'
      BY <1>1, <1>2, <2>1, <2>2 DEF Earning, Updating, Discarded
    <2> QED BY <2>3, <2>4, <2>5, <2>6 DEF SubmissionsInv
  <1>6. CASE ToEvaluate(s) /\ submissions[s].evaluation = "none"
    <2>1. submissions' = Prepared(s)
      BY <1>6 DEF CompilationEnded
    <2> QED BY <1>2, <1>3, <2>1, PreparedKeepsInv DEF CompilationEnded
  <1>7. CASE ToEvaluate(s) /\ submissions[s].evaluation # "none"
    <2>1. PICK r : r = [submissions[s] EXCEPT !.evaluated = TRUE]
      OBVIOUS
    <2>2. /\ r \in Row /\ r.outcome = submissions[s].outcome /\ r.batch = submissions[s].batch
          /\ r.discarded = submissions[s].discarded /\ r.evaluation = submissions[s].evaluation
          /\ r.evaluated /\ r.score = submissions[s].score
      BY <1>3, <2>1 DEF Row
    <2>3. submissions' = [submissions EXCEPT ![s] = r]
      BY <1>3, <1>7, <2>1 DEF CompilationEnded
    <2>4. ~FilterPending(s) /\ s \notin ended'
      BY <1>2, <1>4, <1>7
    <2>5. /\ submissions' \in Seq(Row) /\ Ids' = Ids /\ submissions'[s] = r
          /\ \A t \in Ids : t # s => submissions'[t] = submissions[t]
          /\ Judging' /\ Waiting'
      BY <1>2, <1>3, <2>2, <2>3, <2>4, RowEdited
    <2>6. SubmissionsTypeOK'
      BY <1>1, <1>2, <2>5 DEF SubmissionsTypeOK
    <2>7. Playing'
      BY <1>1, <1>2, <2>2, <2>5, PlayingKept
    <2>8. submissions[s].evaluation = "earned" => Updating(s)
      BY <1>1, <1>7 DEF Earning, ToEvaluate
    <2>9. Earning'
      BY <1>1, <1>2, <2>2, <2>5, <2>8 DEF Earning, Updating, Discarded
    <2> QED BY <2>5, <2>6, <2>7, <2>9 DEF SubmissionsInv
  <1> QED BY <1>5, <1>6, <1>7

LEMMA SweptKeepsInv ==
    ASSUME SubmissionsInv, NEW s \in Ids, PrepareSwept(s)  PROVE SubmissionsInv'
  <1>1. s \in swept /\ ended = {} /\ submissions[s].outcome # "missing"
    BY DEF PrepareSwept, SubmissionsInv, Judging
  <1>2. ended' = ended \ {s} /\ swept' \subseteq swept /\ compiling' = compiling
    BY <1>1 DEF PrepareSwept
  <1> QED BY <1>1, <1>2, PreparedKeepsInv DEF PrepareSwept

(* The last of a set of timestamps.                                        *)
LEMMA LastExists ==
    ASSUME NEW n \in Nat, NEW S \in SUBSET (1 .. n), S # {}
    PROVE  \E s \in S : \A t \in S : t <= s
  <1> DEFINE T == {n - s : s \in S}
             Below == {ss \in Nat \X Nat : ss[1] < ss[2]}
  <1>1. T \subseteq Nat /\ T # {}
    <2>1. \A s \in S : n - s \in Nat
      OBVIOUS
    <2>2. PICK s \in S : TRUE
      OBVIOUS
    <2>3. n - s \in T
      OBVIOUS
    <2> QED BY <2>1, <2>3
  <1>2. IsWellFoundedOn(Below, Nat)
    BY NatLessThanWellFounded DEF OpToRel
  <1> HIDE DEF Below
  <1>3. PICK m \in T : \A k \in T : <<k, m>> \notin Below
    <2> HIDE DEF T
    <2> QED BY <1>1, <1>2, WFMin
  <1>4. PICK s \in S : m = n - s
    OBVIOUS
  <1>5. ASSUME NEW t \in S  PROVE t <= s
    <2>1. n - t \in T /\ n - t \in Nat /\ m \in Nat
      BY <1>1
    <2>2. ~(n - t < m)
      BY <1>3, <2>1 DEF Below
    <2> QED BY <1>4, <2>1, <2>2
  <1> QED BY <1>5

LEMMA LastSubmission ==
    ASSUME SubmissionsTypeOK, GetLastSubmission # 0
    PROVE  GetLastSubmission \in Ids /\ submissions[GetLastSubmission].outcome = "ok"
  <1> DEFINE ok == {s \in Ids : submissions[s].outcome = "ok"}
  <1>1. Ids = 1 .. Len(submissions) /\ Len(submissions) \in Nat
    BY DEF SubmissionsTypeOK, Ids
  <1>2. ok # {} /\ GetLastSubmission = CHOOSE s \in ok : \A t \in ok : t <= s
    BY DEF GetLastSubmission
  <1>3. ok \in SUBSET (1 .. Len(submissions))
    BY <1>1
  <1> HIDE DEF ok
  <1>4. \E s \in ok : \A t \in ok : t <= s
    BY <1>1, <1>2, <1>3, LastExists
  <1>5. GetLastSubmission \in ok
    BY <1>2, <1>4
  <1> QED BY <1>5 DEF ok

(* The submission that is marked has no evaluation and waits no more.      *)
LEMMA MarkKeepsInv ==
    ASSUME SubmissionsInv, MarkMatchSubmissions  PROVE SubmissionsInv'
  <1>1. SubmissionsTypeOK /\ Judging /\ Waiting /\ Playing /\ Earning
    BY DEF SubmissionsInv
  <1>2. /\ stage = "mark" /\ stage' = "copy" /\ task_batch' = task_batch /\ player' = player
        /\ compiling' = compiling /\ ended' = ended /\ swept' = swept
        /\ task_batch \in Nat /\ task_batch # 0
    BY <1>1 DEF MarkMatchSubmissions, service, Playing, SubmissionsTypeOK
  <1>3. CASE GetLastSubmission = 0
    <2>1. submissions' = submissions
      BY <1>3 DEF MarkMatchSubmissions
    <2> QED BY <1>1, <1>2, <2>1 DEF SubmissionsInv, SubmissionsTypeOK, Judging, Waiting, Playing,
               Earning, Ids, FilterPending, Updating, Discarded
  <1>4. CASE GetLastSubmission # 0
    <2>1. PICK s : s = GetLastSubmission
      OBVIOUS
    <2>2. s \in Ids /\ submissions[s].outcome = "ok"
      BY <1>1, <1>4, <2>1, LastSubmission
    <2>3. PICK r : r = [InvalidateEvaluation(submissions[s]) EXCEPT !.batch = task_batch]
      OBVIOUS
    <2>4. submissions[s] \in Row
      BY <1>1, <2>2 DEF SubmissionsTypeOK, Ids
    <2>5. /\ r \in Row /\ r.outcome = submissions[s].outcome /\ r.batch = task_batch
          /\ r.discarded = submissions[s].discarded /\ r.evaluation = "none"
      BY <1>2, <2>3, <2>4 DEF Row, InvalidateEvaluation
    <2>6. submissions' = [submissions EXCEPT ![s] = r]
      BY <1>4, <2>1, <2>2, <2>3 DEF MarkMatchSubmissions
    <2>7. /\ submissions' \in Seq(Row) /\ Ids' = Ids /\ submissions'[s] = r
          /\ \A t \in Ids : t # s => submissions'[t] = submissions[t]
          /\ Judging' /\ Waiting'
      BY <1>2, <2>2, <2>5, <2>6, RowEdited
    <2>8. SubmissionsTypeOK'
      BY <1>1, <1>2, <2>7 DEF SubmissionsTypeOK
    <2>9. \A t \in Ids : /\ submissions[t].batch \in Nat
                         /\ submissions[t].batch < task_batch
      <3>1. \A t \in Ids : submissions[t] \in Row
        BY <1>1 DEF SubmissionsTypeOK, Ids
      <3> QED BY <1>1, <1>2, <3>1 DEF Playing, Row
    <2>10. \A t, u \in Ids : submissions'[t].batch = submissions'[u].batch
                             /\ submissions'[t].batch # 0 => t = u
      <3> SUFFICES ASSUME NEW t \in Ids, NEW u \in Ids, submissions'[t].batch # 0,
                          submissions'[t].batch = submissions'[u].batch, t # u
                   PROVE  FALSE
        OBVIOUS
      <3>1. CASE t = s \/ u = s
        BY <1>2, <2>5, <2>7, <2>9, <3>1
      <3>2. CASE t # s /\ u # s
        BY <1>1, <2>7, <3>2 DEF Playing
      <3> QED BY <3>1, <3>2
    <2>11. Playing'
      BY <1>2, <2>5, <2>7, <2>9, <2>10 DEF Playing
    <2>12. Earning'
      BY <1>1, <1>2, <2>5, <2>7 DEF Earning, Updating, Discarded
    <2> QED BY <2>7, <2>8, <2>11, <2>12 DEF SubmissionsInv
  <1> QED BY <1>3, <1>4

LEMMA CopyKeepsInv ==
    ASSUME SubmissionsInv, CopySubmissions  PROVE SubmissionsInv'
  <1>1. SubmissionsTypeOK /\ Judging /\ Waiting /\ Playing /\ Earning
    BY DEF SubmissionsInv
  <1>2. CASE GetLastSubmission # 0
    <2>1. submissions[GetLastSubmission] \in Row
      BY <1>1, <1>2, LastSubmission DEF SubmissionsTypeOK, Ids
    <2>2. PICK c \in Nat, g \in BOOLEAN :
             c = submissions[GetLastSubmission].code /\ g = submissions[GetLastSubmission].good
      BY <2>1 DEF Row
    <2>3. submissions' = Append(submissions, NewSubmission(c, g))
      BY <1>2, <2>2 DEF CopySubmissions
    <2> QED BY <2>3, SubmissionAdded DEF CopySubmissions
  <1>3. CASE GetLastSubmission = 0
    <2>1. submissions' = submissions /\ Ids' = Ids
      BY <1>3 DEF CopySubmissions, Ids
    <2>2. GetMatchSubmission = 0 \/ (GetMatchSubmission \in Ids
                                     /\ submissions[GetMatchSubmission].batch = task_batch)
      BY DEF GetMatchSubmission
    <2>3. /\ stage = "copy" /\ stage' = "rounds" /\ task_batch' = task_batch
          /\ player' = GetMatchSubmission
          /\ compiling' = compiling /\ ended' = ended /\ swept' = swept
      BY DEF CopySubmissions, service
    <2>4. player' \in Nat
      <3>1. Ids \subseteq Nat
        BY <1>1 DEF SubmissionsTypeOK, Ids
      <3>2. CASE GetMatchSubmission = 0
        BY <2>3, <3>2
      <3>3. CASE GetMatchSubmission \in Ids
        BY <2>3, <3>1, <3>3
      <3> QED BY <2>2, <3>2, <3>3
    <2>5. SubmissionsTypeOK'
      BY <1>1, <2>1, <2>3, <2>4 DEF SubmissionsTypeOK
    <2>6. Judging' /\ Waiting'
      BY <1>1, <2>1, <2>3 DEF Judging, Waiting, FilterPending
    <2>7. player' # 0 => player' \in Ids /\ submissions[player'].batch = task_batch
      BY <2>2, <2>3
    <2>8. Playing'
      BY <1>1, <2>1, <2>3, <2>7 DEF Playing
    <2>9. Earning'
      BY <1>1, <2>1, <2>3 DEF Earning, Updating, Discarded
    <2> QED BY <2>5, <2>6, <2>8, <2>9 DEF SubmissionsInv
  <1> QED BY <1>2, <1>3

(* The batch ends: the submission that plays is edited.                    *)
LEMMA PlayKeepsInv ==
    ASSUME SubmissionsInv, PlayMatch \/ UpdateSingleScore \/ UpdateScore
    PROVE  SubmissionsInv'
  <1>1. SubmissionsTypeOK /\ Judging /\ Waiting /\ Playing /\ Earning
    BY DEF SubmissionsInv
  <1>2. /\ task_batch' = task_batch
        /\ compiling' = compiling /\ ended' = ended /\ swept' = swept
        /\ stage \in {"rounds", "update"}
    BY DEF PlayMatch, UpdateSingleScore, UpdateScore, service, batch
  <1>3. player # 0 => /\ player \in Ids /\ submissions[player] \in Row
                      /\ submissions[player].batch = task_batch /\ task_batch # 0
                      /\ submissions[player].outcome # "missing"
    <2> SUFFICES ASSUME player # 0
                 PROVE  /\ player \in Ids /\ submissions[player] \in Row
                        /\ submissions[player].batch = task_batch /\ task_batch # 0
                        /\ submissions[player].outcome # "missing"
      OBVIOUS
    <2>1. /\ player \in Ids /\ submissions[player].batch = task_batch /\ task_batch # 0
      BY <1>1, <1>2 DEF Playing, SubmissionsTypeOK
    <2>2. submissions[player] \in Row
      BY <1>1, <2>1 DEF SubmissionsTypeOK, Ids
    <2> QED BY <1>1, <2>1, <2>2 DEF Judging
  <1>4. ASSUME submissions' = submissions, player = 0, player' = player,
               stage = "rounds", stage' = "idle"
        PROVE  SubmissionsInv'
    <2>1. Ids' = Ids
      BY <1>4 DEF Ids
    <2>2. SubmissionsTypeOK' /\ Judging' /\ Waiting'
      BY <1>1, <1>2, <1>4, <2>1 DEF SubmissionsTypeOK, Judging, Waiting, FilterPending
    <2>3. Playing'
      BY <1>1, <1>2, <1>4, <2>1, PlayingKept
    <2>4. Earning'
      BY <1>1, <1>2, <1>4, <2>1 DEF Earning, Updating, Discarded
    <2> QED BY <2>2, <2>3, <2>4 DEF SubmissionsInv
  <1>5. ASSUME submissions' = submissions, player' = player,
               stage = "rounds", stage' = "raised"
        PROVE  SubmissionsInv'
    <2>1. Ids' = Ids
      BY <1>5 DEF Ids
    <2>2. SubmissionsTypeOK' /\ Judging' /\ Waiting'
      BY <1>1, <1>2, <1>5, <2>1 DEF SubmissionsTypeOK, Judging, Waiting, FilterPending
    <2>3. Playing'
      BY <1>1, <1>2, <1>5, <2>1, PlayingKept
    <2>4. Earning'
      BY <1>1, <1>2, <1>5, <2>1 DEF Earning, Updating, Discarded
    <2> QED BY <2>2, <2>3, <2>4 DEF SubmissionsInv
  <1>6. ASSUME NEW r \in Row, player # 0, submissions' = [submissions EXCEPT ![player] = r],
               r.outcome = submissions[player].outcome, r.batch = submissions[player].batch,
               r.discarded = submissions[player].discarded
        PROVE  /\ submissions' \in Seq(Row) /\ Ids' = Ids /\ submissions'[player] = r
               /\ \A t \in Ids : t # player => submissions'[t] = submissions[t]
               /\ \A t \in Ids : submissions'[t].batch = submissions[t].batch
               /\ Judging' /\ Waiting'
    <2>1. PICK s \in Ids : s = player
      BY <1>3, <1>6
    <2>2. /\ submissions' \in Seq(Row) /\ Ids' = Ids /\ submissions'[s] = r
          /\ \A t \in Ids : t # s => submissions'[t] = submissions[t]
          /\ Judging' /\ Waiting'
      BY <1>2, <1>3, <1>6, <2>1, RowEdited
    <2> QED BY <1>6, <2>1, <2>2
  <1>7. CASE PlayMatch
    <2>1. PICK r : r = [submissions[player] EXCEPT !.evaluation = "dummy"]
      OBVIOUS
    <2>2. /\ player # 0 /\ submissions[player].evaluation = "none"
          /\ stage = "rounds" /\ stage' = stage /\ player' = player
      BY <1>7 DEF PlayMatch, batch
    <2>3. submissions' = [submissions EXCEPT ![player] = r]
      BY <1>3, <1>7, <2>1, <2>2 DEF PlayMatch
    <2>4. /\ r \in Row /\ r.outcome = submissions[player].outcome
          /\ r.batch = submissions[player].batch
          /\ r.discarded = submissions[player].discarded /\ r.evaluation = "dummy"
      BY <1>3, <2>1, <2>2 DEF Row
    <2>5. SubmissionsTypeOK'
      BY <1>1, <1>2, <1>6, <2>2, <2>3, <2>4 DEF SubmissionsTypeOK
    <2>6. Playing'
      BY <1>1, <1>2, <1>6, <2>2, <2>3, <2>4, PlayingKept
    <2>7. Earning'
      <3>1. /\ Ids' = Ids /\ submissions'[player].evaluation = "dummy"
            /\ \A t \in Ids : t # player => submissions'[t] = submissions[t]
        BY <1>6, <2>2, <2>3, <2>4
      <3> QED BY <1>1, <2>2, <3>1 DEF Earning, Updating, Discarded
    <2> QED BY <1>6, <2>2, <2>3, <2>4, <2>5, <2>6, <2>7 DEF SubmissionsInv
  <1>8. CASE UpdateSingleScore /\ player # 0 /\ submissions[player].evaluation # "none"
    <2>1. PICK r : r = [submissions[player] EXCEPT !.evaluation = "earned"]
      OBVIOUS
    <2>2. stage = "rounds" /\ stage' = "update" /\ player' = player
      BY <1>8 DEF UpdateSingleScore
    <2>3. submissions' = [submissions EXCEPT ![player] = r]
      BY <1>3, <1>8, <2>1 DEF UpdateSingleScore
    <2>4. /\ r \in Row /\ r.outcome = submissions[player].outcome
          /\ r.batch = submissions[player].batch
          /\ r.discarded = submissions[player].discarded
      BY <1>3, <1>8, <2>1 DEF Row
    <2>5. SubmissionsTypeOK'
      BY <1>1, <1>2, <1>6, <1>8, <2>2, <2>3, <2>4 DEF SubmissionsTypeOK
    <2>6. Playing'
      BY <1>1, <1>2, <1>6, <1>8, <2>2, <2>3, <2>4, PlayingKept
    <2>7. Earning'
      BY <1>1, <1>2, <1>6, <1>8, <2>2, <2>3, <2>4 DEF Earning, Updating, Discarded
    <2> QED BY <1>6, <1>8, <2>3, <2>4, <2>5, <2>6, <2>7 DEF SubmissionsInv
  <1>9. CASE UpdateScore
    <2>1. PICK r : r = ScoredAnew(submissions[player])
      OBVIOUS
    <2>2. stage = "update" /\ stage' = "idle" /\ player' = 0 /\ player # 0
      BY <1>1, <1>9 DEF UpdateScore, Playing
    <2>3. submissions' = [submissions EXCEPT ![player] = r]
      BY <1>3, <1>9, <2>1, <2>2 DEF UpdateScore
    <2>4. /\ r \in Row /\ r.outcome = submissions[player].outcome
          /\ r.batch = submissions[player].batch
          /\ r.discarded = submissions[player].discarded
          /\ r.evaluated /\ r.score = "none"
      BY <1>3, <2>1, <2>2 DEF Row, ScoredAnew
    <2>5. SubmissionsTypeOK'
      BY <1>1, <1>2, <1>6, <2>2, <2>3, <2>4 DEF SubmissionsTypeOK
    <2>6. Playing'
      <3>1. /\ Ids' = Ids
            /\ \A t \in Ids : submissions'[t].batch = submissions[t].batch
        BY <1>6, <2>2, <2>3, <2>4
      <3>2. ASSUME NEW t \in Ids, NEW u \in Ids, submissions'[t].batch # 0,
                   submissions'[t].batch = submissions'[u].batch
            PROVE  t = u
        BY <1>1, <3>1, <3>2 DEF Playing
      <3> QED BY <1>1, <1>2, <2>2, <3>1, <3>2 DEF Playing
    <2>7. Earning'
      BY <1>1, <1>2, <1>6, <2>2, <2>3, <2>4, ZenonT(60) DEF Earning, Updating, Discarded
    <2> QED BY <1>6, <2>2, <2>3, <2>4, <2>5, <2>6, <2>7 DEF SubmissionsInv
  <1>10. CASE UpdateSingleScore /\ (player = 0 \/ submissions[player].evaluation = "none")
    BY <1>4, <1>5, <1>10 DEF UpdateSingleScore
  <1> QED BY <1>7, <1>8, <1>9, <1>10

(* ScoringService: what is evaluated and earned is scored as earned.       *)
LEMMA ScoreKeepsInv ==
    ASSUME SubmissionsInv, NEW s \in Ids, ScoreSubmission(s)  PROVE SubmissionsInv'
  <1>1. SubmissionsTypeOK /\ Judging /\ Waiting /\ Playing /\ Earning
    BY DEF SubmissionsInv
  <1>2. /\ task_batch' = task_batch /\ stage' = stage /\ player' = player
        /\ compiling' = compiling /\ ended' = ended /\ swept' = swept
    BY DEF ScoreSubmission, service, batch
  <1>3. submissions[s] \in Row /\ submissions[s].outcome # "missing"
    BY <1>1 DEF SubmissionsTypeOK, Ids, Judging, ScoreSubmission, NeedsScoring
  <1>v. PICK v \in {"zero", "earned"} :
           /\ v = "zero" => ~(submissions[s].evaluated /\ submissions[s].evaluation = "earned")
           /\ \E r : /\ r = [submissions[s] EXCEPT !.score = v]
                     /\ submissions' = [submissions EXCEPT ![s] = r]
    BY <1>3 DEF ScoreSubmission
  <1>4. PICK r : /\ r = [submissions[s] EXCEPT !.score = v]
                 /\ submissions' = [submissions EXCEPT ![s] = r]
    BY <1>v
  <1>5. /\ r \in Row /\ r.outcome = submissions[s].outcome /\ r.batch = submissions[s].batch
        /\ r.discarded = submissions[s].discarded /\ r.evaluation = submissions[s].evaluation
        /\ r.evaluated = submissions[s].evaluated /\ r.score = v
    BY <1>3, <1>4 DEF Row
  <1>6. /\ submissions' \in Seq(Row) /\ Ids' = Ids /\ submissions'[s] = r
        /\ \A t \in Ids : t # s => submissions'[t] = submissions[t]
        /\ Judging' /\ Waiting'
    BY <1>2, <1>3, <1>4, <1>5, RowEdited
  <1>7. SubmissionsTypeOK'
    BY <1>1, <1>2, <1>6 DEF SubmissionsTypeOK
  <1>8. Playing'
    BY <1>1, <1>2, <1>5, <1>6, PlayingKept
  <1>9. Earning'
    BY <1>1, <1>2, <1>v, <1>5, <1>6 DEF Earning, Updating, Discarded
  <1> QED BY <1>6, <1>7, <1>8, <1>9 DEF SubmissionsInv

LEMMA InitSubmissions == SubmissionsInit => SubmissionsInv
  BY DEF SubmissionsInit, SubmissionsInv, SubmissionsTypeOK, Judging, Waiting, Playing, Earning,
         Ids, Updating

(* The submissions of a contestant, however compilations, sweeps, batches, *)
(* copies and scores interleave: at most one waits for a batch when        *)
(* nothing is left to compile or prepare, one plays each batch, and a      *)
(* score from before a batch does not survive it.                          *)
THEOREM PlayersStaySound == SubmissionsSpec => []PlayersSound
  <1>1. SubmissionsInv /\ [SubmissionsNext]_submissionVars => SubmissionsInv'
    BY SubmitKeepsInv, RowsKept, WrittenKeepsInv, EndedKeepsInv, SweptKeepsInv, MarkKeepsInv,
       CopyKeepsInv, PlayKeepsInv, ScoreKeepsInv DEF SubmissionsNext
  <1>2. SubmissionsInv => PlayersSound
    <2> SUFFICES ASSUME SubmissionsInv  PROVE PlayersSound
      OBVIOUS
    <2>1. ASSUME NothingToJudge  PROVE Cardinality({s \in Ids : FilterPending(s)}) <= 1
      <3> DEFINE W == {s \in Ids : FilterPending(s)}
      <3>1. \A s, t \in W : s = t
        BY <2>1 DEF NothingToJudge, SubmissionsInv, Waiting
      <3> HIDE DEF W
      <3>2. ASSUME W = {}  PROVE Cardinality(W) = 0
        BY <3>2, FS_EmptySet
      <3>3. ASSUME NEW s \in W  PROVE Cardinality(W) = 1
        <4>1. W = {s}
          BY <3>1, <3>3
        <4> QED BY <4>1, FS_Singleton
      <3>4. Cardinality(W) <= 1
        BY <3>2, <3>3
      <3> QED BY <3>4 DEF W
    <2>2. OnePlays
      BY DEF SubmissionsInv, Playing, OnePlays
    <2>3. EarnedIsShown
      BY DEF SubmissionsInv, Earning, Updating, EarnedIsShown
    <2> QED BY <2>1, <2>2, <2>3 DEF PlayersSound, OneWaits
  <1> QED BY <1>1, <1>2, InitSubmissions, PTL DEF SubmissionsSpec

-----------------------------------------------------------------------------
(* The pairing of a round. Whoever is still free is too far away for those *)
(* who have a bye, and not much nearer than the opponent to those who have *)
(* one.                                                                    *)

NearEnough(i, q) ==
    \/ Gap(fights[i][1], fights[i][2]) <= InitialWindow
    \/ Gap(fights[i][1], fights[i][2]) < Gap(fights[i][1], q) + WindowStep

EloTypes ==
    /\ ratings \in [Contestants -> Int]
    /\ pairing \in BOOLEAN
    /\ fights \in Seq(Contestants \X Contestants)
    /\ open \subseteq DOMAIN fights
    /\ pairing => open = {}
    /\ scores # <<>> => open = {} /\ ~pairing

OneFightEach ==
    /\ unseen \subseteq Players /\ Players \ unseen \subseteq paired /\ paired \subseteq Players
    /\ \A p \in Players : p \in paired <=> p \in byes \/ \E i \in DOMAIN fights : p \in Fighters(i)
    /\ byes \subseteq Players
    /\ \A i \in DOMAIN fights : /\ Fighters(i) \subseteq Players
                                /\ fights[i][1] # fights[i][2]
    /\ \A i, j \in DOMAIN fights : i # j => Fighters(i) \cap Fighters(j) = {}

ByesApart ==
    \A p \in byes, q \in Players :
        p # q /\ (q \in byes \/ q \notin paired) => Gap(p, q) > MaxWindow

NearestFirst ==
    \A i \in DOMAIN fights :
        /\ \A q \in Players \ paired : NearEnough(i, q)
        /\ \A j \in DOMAIN fights : i < j => \A q \in Fighters(j) : NearEnough(i, q)

PairingInv == pairing => OneFightEach /\ ByesApart /\ NearestFirst

-----------------------------------------------------------------------------

LEMMA EloConstants ==
    /\ NumRounds \in Nat /\ K \in Nat /\ InitialWindow \in Nat
    /\ WindowStep \in Nat /\ WindowStep > 0 /\ MaxWindow \in Nat
    /\ InitialWindow <= MaxWindow /\ Contestants \subseteq Nat /\ IsFiniteSet(Contestants)
    /\ InitialWindow \in Windows /\ MaxWindow \in Windows
  <1>1. /\ NumRounds \in Nat /\ K \in Nat /\ InitialWindow \in Nat
        /\ WindowStep \in Nat /\ WindowStep > 0 /\ MaxWindow \in Nat
        /\ InitialWindow <= MaxWindow /\ Contestants \subseteq Nat /\ IsFiniteSet(Contestants)
    BY EloAssumption
  <1>2. MaxWindow \in Windows
    BY <1>1, EloAssumption DEF Windows
  <1>3. (InitialWindow - InitialWindow) % WindowStep = 0
    BY <1>1
  <1>4. InitialWindow \in Windows
    BY <1>1, <1>3 DEF Windows
  <1> QED  BY <1>1, <1>2, <1>4

LEMMA PreviousWindow ==
    ASSUME NEW v \in Windows, v # InitialWindow
    PROVE  v - WindowStep \in Windows /\ v - WindowStep < v /\ v \in Nat
  <1>1. /\ v \in Nat /\ v > InitialWindow /\ v <= MaxWindow /\ (v - InitialWindow) % WindowStep = 0
    BY EloConstants DEF Windows
  <1> DEFINE d == v - InitialWindow
  <1>2. d \in Nat /\ d > 0 /\ d % WindowStep = 0
    BY <1>1, EloConstants
  <1>3. d = (WindowStep * (d \div WindowStep)) + (d % WindowStep)
    BY <1>2, EloConstants
  <1>4. d >= WindowStep
    BY <1>2, <1>3, EloConstants
  <1>5. (d - WindowStep) % WindowStep = 0
    <2> DEFINE k == d \div WindowStep
               x == d - WindowStep
               q == x \div WindowStep
               r == x % WindowStep
    <2>1. k \in Int /\ x \in Nat /\ x = WindowStep * (k - 1)
      BY <1>2, <1>3, <1>4, EloConstants
    <2>2. q \in Int /\ r \in 0 .. WindowStep - 1 /\ x = (WindowStep * q) + r
      BY <2>1, EloConstants
    <2> HIDE DEF k, x, q, r
    <2>3. r = WindowStep * (k - 1 - q)
      BY <2>1, <2>2, EloConstants
    <2>4. CASE k - 1 - q >= 1
      <3>1. WindowStep * (k - 1 - q) >= WindowStep
        BY <2>1, <2>2, <2>4, EloConstants
      <3> QED  BY <3>1, <2>2, <2>3, EloConstants
    <2>5. CASE k - 1 - q <= -1
      <3>1. WindowStep * (k - 1 - q) <= -WindowStep
        BY <2>1, <2>2, <2>5, EloConstants
      <3> QED  BY <3>1, <2>2, <2>3, EloConstants
    <2>6. CASE k - 1 - q = 0
      BY <2>3, <2>6, EloConstants DEF r, x
    <2> QED  BY <2>1, <2>2, <2>4, <2>5, <2>6 DEF r, x
  <1>6. (v - WindowStep) - InitialWindow = d - WindowStep
    BY <1>1, EloConstants
  <1> QED  BY <1>1, <1>4, <1>5, <1>6, EloConstants DEF Windows

LEMMA GapProps ==
    ASSUME EloTypes, NEW p \in Contestants, NEW q \in Contestants
    PROVE  Gap(p, q) \in Nat /\ Gap(p, q) = Gap(q, p)
  BY DEF EloTypes, Gap

-----------------------------------------------------------------------------
(* What is chosen: the first window with anybody in it.                    *)

LEMMA PlayersContestants == Players \subseteq Contestants
  BY DEF Players

LEMMA LeastExists ==
    ASSUME NEW S \in SUBSET Nat, S # {}
    PROVE  \E s \in S : \A t \in S : s <= t
  <1> DEFINE Below == {ss \in Nat \X Nat : ss[1] < ss[2]}
  <1>1. IsWellFoundedOn(Below, Nat)
    BY NatLessThanWellFounded DEF OpToRel
  <1> HIDE DEF Below
  <1>2. PICK m \in S : \A k \in S : <<k, m>> \notin Below
    BY <1>1, WFMin
  <1>3. ASSUME NEW t \in S  PROVE m <= t
    <2>1. ~(t < m) /\ t \in Nat /\ m \in Nat
      BY <1>2 DEF Below
    <2> QED  BY <2>1
  <1> QED  BY <1>3

\* The while loop ends without candidates only after the widest window.
LEMMA NobodyInReach ==
    ASSUME EloTypes, NEW p \in Players, Candidates(p) = {}
    PROVE  \A q \in Players : q \notin paired \cup {p} => Gap(p, q) > MaxWindow
  <1> DEFINE W == {w \in Windows : InWindow(p, w) # {}}
  <1>1. W = {}
    <2> SUFFICES ASSUME W # {}  PROVE FALSE
      OBVIOUS
    <2>1. W \in SUBSET Nat
      BY EloConstants DEF Windows
    <2>2. PICK v \in W : \A u \in W : v <= u
      <3> HIDE DEF W
      <3> QED  BY <2>1, LeastExists
    <2>3. v \in Windows /\ InWindow(p, v) # {} /\ v \in Nat
      BY <2>1
    <2>4. \A u \in Windows : u < v => InWindow(p, u) = {}
      BY <2>1, <2>2, EloConstants DEF Windows
    <2> QED  BY <2>3, <2>4 DEF Candidates
  <1>2. InWindow(p, MaxWindow) = {}
    BY <1>1, EloConstants
  <1> SUFFICES ASSUME NEW q \in Players, q \notin paired \cup {p}  PROVE Gap(p, q) > MaxWindow
    OBVIOUS
  <1>3. ~(Gap(p, q) <= MaxWindow)
    BY <1>2 DEF InWindow
  <1> QED  BY <1>3, GapProps, PlayersContestants, EloConstants

\* An opponent is free, and nobody free is nearer by more than a step.
LEMMA NearestInReach ==
    ASSUME EloTypes, NEW p \in Players, NEW q \in Candidates(p)
    PROVE  /\ q \in Players /\ q \notin paired \cup {p}
           /\ \/ Gap(p, q) <= InitialWindow
              \/ \A r \in Players : r \notin paired \cup {p} => Gap(p, q) < Gap(p, r) + WindowStep
  <1>1. PICK v \in Windows : q \in InWindow(p, v) /\ \A u \in Windows : u < v => InWindow(p, u) = {}
    BY DEF Candidates
  <1>2. q \in Players /\ q \notin paired \cup {p} /\ Gap(p, q) <= v
    BY <1>1 DEF InWindow
  <1>3. CASE v = InitialWindow
    BY <1>2, <1>3
  <1>4. CASE v # InitialWindow
    <2>1. InWindow(p, v - WindowStep) = {} /\ v \in Nat
      BY <1>1, <1>4, PreviousWindow
    <2>2. ASSUME NEW r \in Players, r \notin paired \cup {p}
          PROVE  Gap(p, q) < Gap(p, r) + WindowStep
      <3>1. ~(Gap(p, r) <= v - WindowStep)
        BY <2>1, <2>2 DEF InWindow
      <3>2. Gap(p, r) \in Nat /\ Gap(p, q) \in Nat
        BY GapProps, PlayersContestants, <1>2
      <3> QED  BY <3>1, <3>2, <1>2, <2>1, EloConstants
    <2> QED  BY <1>2, <2>2
  <1> QED  BY <1>2, <1>3, <1>4

-----------------------------------------------------------------------------
(* The steps of start_round.                                               *)

LEMMA StartRoundKeeps ==
    ASSUME EloTypes, StartRound  PROVE EloTypes' /\ PairingInv'
  <1>1. EloTypes'
    BY DEF EloTypes, StartRound
  <1>2. Players' = Players
    BY DEF StartRound, Players
  <1>3. unseen' = Players' /\ paired' = {} /\ fights' = <<>> /\ byes' = {} /\ DOMAIN fights' = {}
    BY <1>2 DEF StartRound
  <1> QED  BY <1>1, <1>3 DEF PairingInv, OneFightEach, ByesApart, NearestFirst

LEMMA PairedBefore ==
    ASSUME EloTypes, PairingInv, NEW p \in Contestants, PairPlayer(p), p \in paired
    PROVE  EloTypes' /\ PairingInv'
  <1>1. /\ unseen' = unseen \ {p}
        /\ UNCHANGED <<paired, fights, byes, ratings, round_id, pairing, open, scores>>
    BY DEF PairPlayer
  <1>2. EloTypes' /\ (pairing' => OneFightEach /\ ByesApart /\ NearestFirst)
    BY <1>1 DEF EloTypes, PairingInv
  <1>3. Players' = Players /\ \A i : Fighters(i)' = Fighters(i)
    BY <1>1 DEF Players, Fighters
  <1>4. \A q, r : Gap(q, r)' = Gap(q, r)
    BY <1>1 DEF Gap
  <1>5. OneFightEach => OneFightEach'
    BY <1>1, <1>3 DEF OneFightEach
  <1>6. ByesApart => ByesApart'
    BY <1>1, <1>3, <1>4 DEF ByesApart
  <1>7. NearestFirst => NearestFirst'
    BY <1>1, <1>3, <1>4 DEF NearestFirst, NearEnough
  <1> QED  BY <1>2, <1>5, <1>6, <1>7 DEF PairingInv

LEMMA ByeGiven ==
    ASSUME EloTypes, PairingInv, NEW p \in Contestants, PairPlayer(p), p \notin paired,
           Candidates(p) = {}
    PROVE  EloTypes' /\ PairingInv'
  <1>1. /\ pairing /\ p \in unseen /\ unseen' = unseen \ {p}
        /\ paired' = paired \cup {p} /\ byes' = byes \cup {p}
        /\ UNCHANGED <<fights, ratings, round_id, pairing, open, scores>>
    BY DEF PairPlayer
  <1>2. EloTypes' /\ OneFightEach /\ ByesApart /\ NearestFirst /\ p \in Players
    BY <1>1 DEF EloTypes, PairingInv, OneFightEach
  <1>3. Players' = Players /\ \A i : Fighters(i)' = Fighters(i)
    BY <1>1 DEF Players, Fighters
  <1>4. \A q, r : Gap(q, r)' = Gap(q, r)
    BY <1>1 DEF Gap
  <1>5. OneFightEach'
    BY <1>1, <1>2, <1>3 DEF OneFightEach
  <1>6. ByesApart'
    <2>1. \A q \in Players : q \notin paired \cup {p} => Gap(p, q) > MaxWindow
      BY <1>2, NobodyInReach
    <2>2. \A q \in byes : q # p => Gap(q, p) > MaxWindow /\ Gap(q, p) = Gap(p, q)
      BY <1>2, GapProps, PlayersContestants DEF ByesApart, OneFightEach
    <2>3. \A q \in Players : q # p /\ (q \in byes' \/ q \notin paired') => Gap(p, q) > MaxWindow
      BY <1>1, <2>1, <2>2
    <2>4. \A r \in byes, q \in Players : r # q /\ (q \in byes' \/ q \notin paired')
                => Gap(r, q) > MaxWindow
      BY <1>1, <1>2, <2>2 DEF ByesApart
    <2> QED  BY <1>1, <1>3, <1>4, <2>3, <2>4 DEF ByesApart
  <1>7. NearestFirst'
    BY <1>1, <1>2, <1>3, <1>4 DEF NearestFirst, NearEnough
  <1> QED  BY <1>2, <1>5, <1>6, <1>7 DEF PairingInv

LEMMA MatchMade ==
    ASSUME EloTypes, PairingInv, NEW p \in Contestants, PairPlayer(p), p \notin paired,
           NEW q \in Candidates(p), paired' = paired \cup {p, q},
           fights' = Append(fights, <<p, q>>), byes' = byes
    PROVE  EloTypes' /\ PairingInv'
  <1>1. /\ pairing /\ p \in unseen /\ unseen' = unseen \ {p}
        /\ UNCHANGED <<ratings, round_id, pairing, open, scores>>
    BY DEF PairPlayer
  <1>2. OneFightEach /\ ByesApart /\ NearestFirst /\ p \in Players
    BY <1>1 DEF PairingInv, OneFightEach
  <1>3. /\ q \in Players /\ q \notin paired \cup {p}
        /\ \/ Gap(p, q) <= InitialWindow
           \/ \A r \in Players : r \notin paired \cup {p} => Gap(p, q) < Gap(p, r) + WindowStep
    BY <1>2, NearestInReach
  <1>n. PICK n \in Nat : n = Len(fights)
    BY DEF EloTypes
  <1>4. /\ n \in Nat /\ DOMAIN fights = 1 .. n /\ DOMAIN fights' = 1 .. n + 1
        /\ fights' \in Seq(Contestants \X Contestants)
        /\ fights'[n + 1] = <<p, q>> /\ \A i \in 1 .. n : fights'[i] = fights[i]
    BY <1>2, <1>3, <1>n, PlayersContestants DEF EloTypes
  <1>5. Players' = Players /\ \A q1, r : Gap(q1, r)' = Gap(q1, r)
    BY <1>1 DEF Players, Gap
  <1>6. Fighters(n + 1)' = {p, q} /\ \A i \in 1 .. n : Fighters(i)' = Fighters(i)
    BY <1>4 DEF Fighters
  <1>7. EloTypes'
    BY <1>1, <1>4 DEF EloTypes
  <1>8. \A i \in 1 .. n : Fighters(i) \subseteq paired
    BY <1>2, <1>4 DEF OneFightEach
  <1>9. OneFightEach'
    <2>1. /\ unseen' \subseteq Players' /\ Players' \ unseen' \subseteq paired'
          /\ paired' \subseteq Players' /\ byes' \subseteq Players'
      BY <1>1, <1>2, <1>3, <1>5 DEF OneFightEach
    <2>2. ASSUME NEW r \in Players
          PROVE  r \in paired' <=> r \in byes' \/ \E i \in DOMAIN fights' : r \in Fighters(i)'
      <3>1. r \in paired <=> r \in byes \/ \E i \in 1 .. n : r \in Fighters(i)
        BY <1>2, <1>4 DEF OneFightEach
      <3>2. (\E i \in 1 .. n + 1 : r \in Fighters(i)')
              <=> (\E i \in 1 .. n : r \in Fighters(i)) \/ r \in {p, q}
        BY <1>4, <1>6
      <3> QED  BY <1>4, <3>1, <3>2
    <2>3. \A i \in DOMAIN fights' : /\ Fighters(i)' \subseteq Players'
                                    /\ fights'[i][1] # fights'[i][2]
      BY <1>2, <1>3, <1>4, <1>5, <1>6 DEF OneFightEach
    <2>4. ASSUME NEW i \in 1 .. n + 1, NEW j \in 1 .. n + 1, i # j
          PROVE  Fighters(i)' \cap Fighters(j)' = {}
      <3>1. CASE i = n + 1
        <4>1. j \in 1 .. n
          BY <1>4, <2>4, <3>1
        <4>2. Fighters(i)' = {p, q} /\ Fighters(j)' \subseteq paired
          BY <1>6, <1>8, <3>1, <4>1
        <4> QED  BY <1>3, <4>2
      <3>2. CASE j = n + 1
        <4>1. i \in 1 .. n
          BY <1>4, <2>4, <3>2
        <4>2. Fighters(j)' = {p, q} /\ Fighters(i)' \subseteq paired
          BY <1>6, <1>8, <3>2, <4>1
        <4> QED  BY <1>3, <4>2
      <3>3. CASE i \in 1 .. n /\ j \in 1 .. n
        <4>1. Fighters(i) \cap Fighters(j) = {}
          BY <1>2, <1>4, <2>4, <3>3 DEF OneFightEach
        <4>2. Fighters(i)' = Fighters(i) /\ Fighters(j)' = Fighters(j)
          BY <1>6, <3>3
        <4> QED  BY <4>1, <4>2
      <3> QED  BY <1>4, <3>1, <3>2, <3>3
    <2> QED  BY <1>4, <1>5, <2>1, <2>2, <2>3, <2>4 DEF OneFightEach
  <1>10. ByesApart'
    BY <1>2, <1>5 DEF ByesApart
  <1>11. NearestFirst'
    <2>1. \A i \in 1 .. n : \A r : NearEnough(i, r)' <=> NearEnough(i, r)
      BY <1>4, <1>5 DEF NearEnough
    <2>2. \A r \in Players \ paired' : NearEnough(n + 1, r)'
      BY <1>3, <1>4, <1>5 DEF NearEnough
    <2>3. \A i \in 1 .. n : NearEnough(i, p) /\ NearEnough(i, q)
      BY <1>2, <1>3, <1>4 DEF NearestFirst
    <2>4. \A i \in 1 .. n + 1 : \A r \in Players \ paired' : NearEnough(i, r)'
      BY <1>2, <1>4, <2>1, <2>2 DEF NearestFirst
    <2>5. ASSUME NEW i \in 1 .. n + 1, NEW j \in 1 .. n + 1, i < j, NEW r \in Fighters(j)'
          PROVE  NearEnough(i, r)'
      <3>1. i \in 1 .. n
        BY <1>4, <2>5
      <3>2. CASE j = n + 1
        BY <1>6, <2>1, <2>3, <2>5, <3>1, <3>2
      <3>3. CASE j \in 1 .. n
        <4>1. r \in Fighters(j)
          BY <1>6, <2>5, <3>3
        <4>2. NearEnough(i, r)
          BY <1>2, <1>4, <2>5, <3>1, <3>3, <4>1 DEF NearestFirst
        <4> QED  BY <2>1, <3>1, <4>2
      <3> QED  BY <1>4, <3>2, <3>3
    <2> QED  BY <1>4, <1>5, <2>4, <2>5 DEF NearestFirst
  <1> QED  BY <1>7, <1>9, <1>10, <1>11 DEF PairingInv

LEMMA PairPlayerKeeps ==
    ASSUME EloTypes, PairingInv, NEW p \in Contestants, PairPlayer(p)
    PROVE  EloTypes' /\ PairingInv'
  <1>1. CASE p \in paired
    BY <1>1, PairedBefore
  <1>2. CASE p \notin paired /\ Candidates(p) = {}
    BY <1>2, ByeGiven
  <1>3. CASE p \notin paired /\ Candidates(p) # {}
    <2>1. PICK q \in Candidates(p) : paired' = paired \cup {p, q}
                /\ fights' = Append(fights, <<p, q>>) /\ byes' = byes
      BY <1>3 DEF PairPlayer
    <2> QED  BY <1>3, <2>1, MatchMade
  <1> QED  BY <1>1, <1>2, <1>3

-----------------------------------------------------------------------------
(* The ranks of contestants: players come first, in the order of their     *)
(* ratings.                                                                *)

Ahead(p) == {q \in Contestants : Before(q, p)}

LEMMA RankType ==
    ASSUME NEW p \in Contestants
    PROVE  /\ IsFiniteSet(Ahead(p)) /\ Cardinality(Ahead(p)) \in Nat
           /\ Rank(p) = 1 + Cardinality(Ahead(p)) /\ Rank(p) \in Nat /\ Rank(p) >= 1
  <1>1. Ahead(p) \in SUBSET Contestants
    BY DEF Ahead
  <1>2. IsFiniteSet(Ahead(p)) /\ Cardinality(Ahead(p)) \in Nat
    BY <1>1, FS_Subset, FS_CardinalityType, EloConstants
  <1>3. Rank(p) = 1 + Cardinality(Ahead(p))
    BY DEF Rank, Ahead
  <1> QED  BY <1>2, <1>3

LEMMA RankFollowsOrder ==
    ASSUME EloTypes, NEW p \in Contestants, NEW q \in Contestants, Before(p, q)
    PROVE  Rank(p) < Rank(q)
  <1>1. Ahead(p) \subseteq Ahead(q) /\ p \in Ahead(q) /\ p \notin Ahead(p)
    <2>1. \A r \in Contestants : Before(r, p) => Before(r, q)
      <3> SUFFICES ASSUME NEW r \in Contestants, Before(r, p)  PROVE Before(r, q)
        OBVIOUS
      <3>1. /\ p \in Nat /\ q \in Nat /\ r \in Nat
            /\ ratings[p] \in Int /\ ratings[q] \in Int /\ ratings[r] \in Int
        BY EloConstants DEF EloTypes
      <3> QED  BY <3>1 DEF Before
    <2>2. ~Before(p, p)
      <3>1. p \in Nat /\ ratings[p] \in Int
        BY EloConstants DEF EloTypes
      <3> QED  BY <3>1 DEF Before
    <2> QED  BY <2>1, <2>2 DEF Ahead
  <1>2. Cardinality(Ahead(p)) <= Cardinality(Ahead(q)) /\ Cardinality(Ahead(p)) # Cardinality(Ahead(q))
    BY <1>1, RankType, FS_Subset
  <1> QED  BY <1>2, RankType

LEMMA PlayersCount == IsFiniteSet(Players) /\ Cardinality(Players) \in Nat
  BY PlayersContestants, FS_Subset, FS_CardinalityType, EloConstants

LEMMA PlayersRankFirst ==
    ASSUME EloTypes, NEW p \in Contestants
    PROVE  p \in Players <=> Rank(p) <= Cardinality(Players)
  <1>1. CASE p \in Players
    <2>1. Ahead(p) \subseteq Players \ {p}
      <3> SUFFICES ASSUME NEW q \in Contestants, Before(q, p)  PROVE ratings[q] > 0 /\ q # p
        BY DEF Ahead, Players
      <3>1. p \in Nat /\ q \in Nat /\ ratings[p] \in Int /\ ratings[q] \in Int /\ ratings[p] > 0
        BY <1>1, EloConstants DEF EloTypes, Players
      <3> QED  BY <3>1 DEF Before
    <2>2. IsFiniteSet(Players \ {p}) /\ Cardinality(Players \ {p}) = Cardinality(Players) - 1
      BY <1>1, PlayersCount, FS_RemoveElement
    <2>3. Cardinality(Ahead(p)) <= Cardinality(Players) - 1
      BY <2>1, <2>2, FS_Subset
    <2> QED  BY <1>1, <2>3, RankType, PlayersCount
  <1>2. CASE p \notin Players
    <2>1. Players \subseteq Ahead(p)
      <3> SUFFICES ASSUME NEW q \in Contestants, ratings[q] > 0  PROVE Before(q, p)
        BY DEF Ahead, Players
      <3>1. ratings[p] \in Int /\ ratings[q] \in Int /\ ~(ratings[p] > 0)
        BY <1>2 DEF EloTypes, Players
      <3> QED  BY <3>1 DEF Before
    <2>2. Cardinality(Players) <= Cardinality(Ahead(p))
      BY <2>1, RankType, FS_Subset
    <2> QED  BY <1>2, <2>2, RankType, PlayersCount
  <1> QED  BY <1>1, <1>2

-----------------------------------------------------------------------------
(* The divisions share the players out.                                    *)

LEMMA DivisionTable ==
    /\ DOMAIN Divisions = 1 .. 5
    /\ Divisions[1].upto = 10 /\ Divisions[1].low = 85 /\ Divisions[1].high = 100
    /\ Divisions[2].upto = 40 /\ Divisions[2].low = 60 /\ Divisions[2].high = 85
    /\ Divisions[3].upto = 70 /\ Divisions[3].low = 35 /\ Divisions[3].high = 60
    /\ Divisions[4].upto = 90 /\ Divisions[4].low = 20 /\ Divisions[4].high = 35
    /\ Divisions[5].upto = 100 /\ Divisions[5].low = 5 /\ Divisions[5].high = 20
  BY DEF Divisions

LEMMA DivisionEnds ==
    /\ \A d \in 0 .. 5 : EndOf(d) \in Nat
    /\ EndOf(0) = 0 /\ EndOf(5) = Cardinality(Players)
    /\ EndOf(0) <= EndOf(1) /\ EndOf(1) <= EndOf(2) /\ EndOf(2) <= EndOf(3)
    /\ EndOf(3) <= EndOf(4) /\ EndOf(4) <= EndOf(5)
  <1>1. PICK n \in Nat : n = Cardinality(Players)
    BY PlayersCount
  <1>2. /\ EndOf(0) = 0 /\ EndOf(1) = (n * 10 + 99) \div 100
        /\ EndOf(2) = (n * 40 + 99) \div 100 /\ EndOf(3) = (n * 70 + 99) \div 100
        /\ EndOf(4) = (n * 90 + 99) \div 100 /\ EndOf(5) = (n * 100 + 99) \div 100
    BY <1>1, DivisionTable DEF EndOf
  <1>3. /\ (n * 10 + 99) \div 100 \in Nat /\ (n * 40 + 99) \div 100 \in Nat
        /\ (n * 70 + 99) \div 100 \in Nat /\ (n * 90 + 99) \div 100 \in Nat
        /\ (n * 10 + 99) \div 100 <= (n * 40 + 99) \div 100
        /\ (n * 40 + 99) \div 100 <= (n * 70 + 99) \div 100
        /\ (n * 70 + 99) \div 100 <= (n * 90 + 99) \div 100
        /\ (n * 90 + 99) \div 100 <= (n * 100 + 99) \div 100
        /\ (n * 100 + 99) \div 100 = n
    OBVIOUS
  <1> QED  BY <1>1, <1>2, <1>3

LEMMA DivisionsGrow ==
    ASSUME NEW d \in 1 .. 5, NEW e \in 1 .. 5, d < e
    PROVE  EndOf(d) <= EndOf(e - 1)
  <1>1. e - 1 \in 1 .. 4 /\ d <= e - 1
    OBVIOUS
  <1>2. EndOf(1) \in Nat /\ EndOf(2) \in Nat /\ EndOf(3) \in Nat /\ EndOf(4) \in Nat
    BY DivisionEnds
  <1> QED  BY <1>1, <1>2, DivisionEnds

LEMMA MembersPlay ==
    ASSUME EloTypes, NEW d \in 1 .. 5, NEW p \in Members(d)
    PROVE  p \in Players /\ p \in Contestants /\ Rank(p) <= EndOf(d)
  <1>1. p \in Contestants /\ Rank(p) <= EndOf(d)
    BY DEF Members
  <1>2. EndOf(d) <= EndOf(5) /\ EndOf(d) \in Nat
    BY DivisionEnds
  <1> QED  BY <1>1, <1>2, PlayersRankFirst, RankType, DivisionEnds, PlayersCount

LEMMA EveryPlayerDivided ==
    ASSUME EloTypes, NEW p \in Players
    PROVE  \E d \in 1 .. 5 : p \in Members(d)
  <1>1. p \in Contestants /\ Rank(p) \in Nat /\ Rank(p) >= 1 /\ Rank(p) <= EndOf(5)
    BY PlayersContestants, RankType, PlayersRankFirst, DivisionEnds
  <1>2. EndOf(1) \in Nat /\ EndOf(2) \in Nat /\ EndOf(3) \in Nat /\ EndOf(4) \in Nat
    BY DivisionEnds
  <1>3. \E d \in 1 .. 5 : EndOf(d - 1) < Rank(p) /\ Rank(p) <= EndOf(d)
    <2>1. CASE Rank(p) <= EndOf(1)
      BY <1>1, <2>1, DivisionEnds
    <2>2. CASE EndOf(1) < Rank(p) /\ Rank(p) <= EndOf(2)
      BY <1>1, <2>2
    <2>3. CASE EndOf(2) < Rank(p) /\ Rank(p) <= EndOf(3)
      BY <1>1, <2>3
    <2>4. CASE EndOf(3) < Rank(p) /\ Rank(p) <= EndOf(4)
      BY <1>1, <2>4
    <2>5. CASE EndOf(4) < Rank(p)
      BY <1>1, <2>5
    <2> QED  BY <1>1, <1>2, <2>1, <2>2, <2>3, <2>4, <2>5
  <1> QED  BY <1>1, <1>3 DEF Members

\* A better rank is in the same division or a better one.
LEMMA DivisionsInOrder ==
    ASSUME EloTypes, NEW d \in 1 .. 5, NEW e \in 1 .. 5, NEW p \in Members(d), NEW q \in Members(e),
           Rank(q) <= Rank(p)
    PROVE  e <= d
  <1> SUFFICES ASSUME d < e  PROVE FALSE
    OBVIOUS
  <1>1. EndOf(d) <= EndOf(e - 1) /\ EndOf(d) \in Nat /\ EndOf(e - 1) \in Nat
    BY DivisionsGrow, DivisionEnds
  <1>2. Rank(p) <= EndOf(d) /\ EndOf(e - 1) < Rank(q) /\ Rank(p) \in Nat /\ Rank(q) \in Nat
    BY RankType DEF Members
  <1> QED  BY <1>1, <1>2

-----------------------------------------------------------------------------
(* The scores of a division.                                               *)

Best(d) == CHOOSE r \in {ratings[q] : q \in Members(d)} : \A q \in Members(d) : ratings[q] <= r
Worst(d) == CHOOSE r \in {ratings[q] : q \in Members(d)} : \A q \in Members(d) : ratings[q] >= r

LEMMA CalcScoreIs ==
    ASSUME NEW p, NEW d
    PROVE  CalcScore(p, d) =
              IF Best(d) = Worst(d) THEN <<Divisions[d].high, 1>>
              ELSE <<(Divisions[d].high - Divisions[d].low) * (ratings[p] - Worst(d))
                        + Divisions[d].low * (Best(d) - Worst(d)), Best(d) - Worst(d)>>
  BY DEF CalcScore, Best, Worst

\* The best has the first rank of the division, the worst the least rating.
LEMMA BestAndWorst ==
    ASSUME EloTypes, NEW d \in 1 .. 5, NEW p \in Members(d)
    PROVE  /\ ratings[p] \in Int /\ Best(d) \in Int /\ Worst(d) \in Int
           /\ Worst(d) <= ratings[p] /\ ratings[p] <= Best(d)
  <1> DEFINE R == {ratings[q] : q \in Members(d)}
             N == {Rank(q) : q \in Members(d)}
  <1>1. \A q \in Members(d) : /\ q \in Contestants /\ ratings[q] \in Int /\ ratings[q] > 0
                              /\ Rank(q) \in Nat
    BY MembersPlay, RankType DEF EloTypes, Players
  <1>2. \E r \in R : \A q \in Members(d) : ratings[q] >= r
    <2>1. R \in SUBSET Nat /\ R # {}
      BY <1>1
    <2>2. PICK r \in R : \A t \in R : r <= t
      <3> HIDE DEF R
      <3> QED  BY <2>1, LeastExists
    <2> QED  BY <1>1, <2>1, <2>2
  <1>3. \E r \in R : \A q \in Members(d) : ratings[q] <= r
    <2>1. N \in SUBSET Nat /\ N # {}
      BY <1>1
    <2>2. PICK k \in N : \A t \in N : k <= t
      <3> HIDE DEF N
      <3> QED  BY <2>1, LeastExists
    <2>3. PICK b \in Members(d) : k = Rank(b)
      OBVIOUS
    <2>4. ASSUME NEW q \in Members(d)  PROVE ratings[q] <= ratings[b]
      <3>1. Rank(b) <= Rank(q)
        BY <2>2, <2>3
      <3>2. ~(ratings[q] > ratings[b])
        <4> SUFFICES ASSUME ratings[q] > ratings[b]  PROVE FALSE
          OBVIOUS
        <4>1. Rank(q) < Rank(b)
          BY <1>1, RankFollowsOrder DEF Before
        <4> QED  BY <1>1, <3>1, <4>1
      <3> QED  BY <1>1, <3>2
    <2> QED  BY <2>4
  <1>4. Worst(d) \in R /\ \A q \in Members(d) : ratings[q] >= Worst(d)
    BY <1>2 DEF Worst
  <1>5. Best(d) \in R /\ \A q \in Members(d) : ratings[q] <= Best(d)
    BY <1>3 DEF Best
  <1> QED  BY <1>1, <1>4, <1>5

LEMMA ProductGrows ==
    ASSUME NEW a \in Nat, NEW x \in Int, NEW y \in Int, x <= y
    PROVE  a * x <= a * y
  OBVIOUS

\* A score of a division lies between its lowest and its highest.
LEMMA ScoreInDivision ==
    ASSUME EloTypes, NEW d \in 1 .. 5, NEW p \in Members(d)
    PROVE  LET s == CalcScore(p, d)
           IN  /\ s[1] \in Int /\ s[2] \in Int /\ s[2] > 0
               /\ Divisions[d].low * s[2] <= s[1] /\ s[1] <= Divisions[d].high * s[2]
  <1>1. PICK r \in Int, b \in Int, w \in Int :
            r = ratings[p] /\ b = Best(d) /\ w = Worst(d) /\ w <= r /\ r <= b
    BY BestAndWorst
  <1>2. PICK l \in Nat, h \in Nat : l = Divisions[d].low /\ h = Divisions[d].high /\ l <= h
    BY DivisionTable
  <1>3. CASE b = w
    <2>1. CalcScore(p, d) = <<h, 1>>
      BY <1>1, <1>2, <1>3, CalcScoreIs
    <2> QED  BY <1>2, <2>1
  <1>4. CASE b # w
    <2>1. CalcScore(p, d) = <<(h - l) * (r - w) + l * (b - w), b - w>>
      BY <1>1, <1>2, <1>4, CalcScoreIs
    <2>2. (h - l) * (r - w) \in Int /\ l * (b - w) \in Int /\ (h - l) * (r - w) >= 0
      BY <1>1, <1>2
    <2>3. (h - l) * (r - w) <= (h - l) * (b - w)
      BY <1>1, <1>2
    <2>4. (h - l) * (b - w) + l * (b - w) = h * (b - w)
      BY <1>1, <1>2
    <2>5. PICK x \in Int, y \in Int, z \in Int, n \in Int :
              /\ CalcScore(p, d) = <<x + y, n>> /\ n > 0
              /\ y = l * n /\ z = h * n /\ 0 <= x /\ x + y <= z
      <3>1. b - w \in Int /\ b - w > 0 /\ h * (b - w) \in Int
        BY <1>1, <1>2, <1>4
      <3>2. (h - l) * (b - w) \in Int
        BY <1>1, <1>2
      <3>3. (h - l) * (r - w) + l * (b - w) <= h * (b - w)
        BY <2>2, <2>3, <2>4, <3>1, <3>2
      <3> QED  BY <2>1, <2>2, <3>1, <3>3
    <2> QED  BY <1>2, <2>5
  <1> QED  BY <1>3, <1>4

\* Within a division a higher rating has no lower score.
LEMMA ScoresWithinDivision ==
    ASSUME EloTypes, NEW d \in 1 .. 5, NEW p \in Members(d), NEW q \in Members(d),
           ratings[p] <= ratings[q]
    PROVE  AtMost(CalcScore(p, d), CalcScore(q, d))
  <1>1. PICK r \in Int, t \in Int, b \in Int, w \in Int :
            /\ r = ratings[p] /\ t = ratings[q] /\ b = Best(d) /\ w = Worst(d)
            /\ w <= r /\ r <= t /\ t <= b
    BY BestAndWorst
  <1>2. PICK l \in Nat, h \in Nat : l = Divisions[d].low /\ h = Divisions[d].high /\ l <= h
    BY DivisionTable
  <1>3. CASE b = w
    <2>1. CalcScore(p, d) = <<h, 1>> /\ CalcScore(q, d) = <<h, 1>>
      BY <1>1, <1>2, <1>3, CalcScoreIs
    <2> QED  BY <1>2, <2>1 DEF AtMost
  <1>4. CASE b # w
    <2> DEFINE x == (h - l) * (r - w) + l * (b - w)
               y == (h - l) * (t - w) + l * (b - w)
    <2>1. CalcScore(p, d) = <<x, b - w>> /\ CalcScore(q, d) = <<y, b - w>>
      BY <1>1, <1>2, <1>4, CalcScoreIs
    <2>2. x \in Int /\ y \in Int /\ x <= y
      <3>1. (h - l) * (r - w) <= (h - l) * (t - w)
        <4>1. h - l \in Nat /\ r - w \in Int /\ t - w \in Int /\ r - w <= t - w
          BY <1>1, <1>2
        <4> QED  BY <4>1, ProductGrows
      <3>2. (h - l) * (r - w) \in Int /\ (h - l) * (t - w) \in Int /\ l * (b - w) \in Int
        BY <1>1, <1>2
      <3> QED  BY <3>1, <3>2
    <2>3. b - w \in Nat
      BY <1>1
    <2> HIDE DEF x, y
    <2>4. x * (b - w) <= y * (b - w)
      BY <2>2, <2>3
    <2> QED  BY <2>1, <2>4 DEF AtMost
  <1> QED  BY <1>3, <1>4

\* Across a border the fractions are on the two sides of a whole number.
LEMMA FractionsApart ==
    ASSUME NEW a \in Int, NEW b \in Int, NEW c \in Int, NEW e \in Int, NEW h \in Int, NEW l \in Int,
           b > 0, e > 0, a <= h * b, h <= l, l * e <= c
    PROVE  a * e <= c * b
  <1>1. a * e <= (h * b) * e
    OBVIOUS
  <1>2. (h * b) * e = h * (b * e) /\ b * e \in Nat
    OBVIOUS
  <1>3. h * (b * e) <= l * (b * e)
    BY <1>2
  <1>4. l * (b * e) = (l * e) * b
    OBVIOUS
  <1>5. (l * e) * b <= c * b
    OBVIOUS
  <1>6. /\ a * e \in Int /\ (h * b) * e \in Int /\ h * (b * e) \in Int /\ l * (b * e) \in Int
        /\ (l * e) * b \in Int /\ c * b \in Int
    OBVIOUS
  <1> QED  BY <1>1, <1>2, <1>3, <1>4, <1>5, <1>6

LEMMA ScoresAcrossDivisions ==
    ASSUME EloTypes, NEW d \in 1 .. 5, NEW e \in 1 .. 5, e < d, NEW p \in Members(d),
           NEW q \in Members(e)
    PROVE  AtMost(CalcScore(p, d), CalcScore(q, e))
  <1>1. Divisions[d].high \in Nat /\ Divisions[e].low \in Nat /\ Divisions[d].high <= Divisions[e].low
    BY DivisionTable
  <1>2. PICK a \in Int, b \in Int : /\ a = CalcScore(p, d)[1] /\ b = CalcScore(p, d)[2]
                                    /\ b > 0 /\ a <= Divisions[d].high * b
    BY ScoreInDivision
  <1>3. PICK c \in Int, f \in Int : /\ c = CalcScore(q, e)[1] /\ f = CalcScore(q, e)[2]
                                    /\ f > 0 /\ Divisions[e].low * f <= c
    BY ScoreInDivision
  <1>4. a * f <= c * b
    BY <1>1, <1>2, <1>3, FractionsApart
  <1> QED  BY <1>2, <1>3, <1>4 DEF AtMost

-----------------------------------------------------------------------------
(* to_scores.                                                              *)

ScoresGood(f) ==
    /\ DOMAIN f = Players
    /\ \A p \in Players : AtMost(<<5, 1>>, f[p]) /\ AtMost(f[p], <<100, 1>>)
    /\ \A p, q \in Players : ratings[p] < ratings[q] => AtMost(f[p], f[q])

LEMMA ToScoresGood ==
    ASSUME EloTypes  PROVE ScoresGood(ToScores)
  <1> DEFINE Div(p) == CHOOSE d \in DOMAIN Divisions : p \in Members(d)
  <1>1. UNION {Members(d) : d \in DOMAIN Divisions} = Players
    <2>1. \A p \in Players : \E d \in DOMAIN Divisions : p \in Members(d)
      BY EveryPlayerDivided, DivisionTable
    <2>2. \A d \in DOMAIN Divisions : Members(d) \subseteq Players
      BY MembersPlay, DivisionTable
    <2> QED  BY <2>1, <2>2
  <1>2. ToScores = [p \in Players |-> CalcScore(p, Div(p))]
    BY <1>1 DEF ToScores
  <1>3. \A p \in Players : Div(p) \in 1 .. 5 /\ p \in Members(Div(p))
    <2> SUFFICES ASSUME NEW p \in Players  PROVE Div(p) \in 1 .. 5 /\ p \in Members(Div(p))
      OBVIOUS
    <2>1. \E d \in DOMAIN Divisions : p \in Members(d)
      BY EveryPlayerDivided, DivisionTable
    <2> QED  BY <2>1, DivisionTable
  <1> HIDE DEF Div
  <1>4. ASSUME NEW p \in Players
        PROVE  AtMost(<<5, 1>>, ToScores[p]) /\ AtMost(ToScores[p], <<100, 1>>)
    <2>1. PICK d \in 1 .. 5 : d = Div(p) /\ p \in Members(d) /\ ToScores[p] = CalcScore(p, d)
      BY <1>2, <1>3
    <2>2. PICK a \in Int, b \in Int :
              /\ a = ToScores[p][1] /\ b = ToScores[p][2] /\ b > 0
              /\ Divisions[d].low * b <= a /\ a <= Divisions[d].high * b
      BY <2>1, ScoreInDivision
    <2>3. 5 * b <= a /\ a <= 100 * b
      BY <2>2, DivisionTable
    <2> QED  BY <2>2, <2>3 DEF AtMost
  <1>5. ASSUME NEW p \in Players, NEW q \in Players, ratings[p] < ratings[q]
        PROVE  AtMost(ToScores[p], ToScores[q])
    <2>1. PICK d \in 1 .. 5 : d = Div(p) /\ p \in Members(d) /\ ToScores[p] = CalcScore(p, d)
      BY <1>2, <1>3
    <2>2. PICK e \in 1 .. 5 : e = Div(q) /\ q \in Members(e) /\ ToScores[q] = CalcScore(q, e)
      BY <1>2, <1>3
    <2>3. p \in Contestants /\ q \in Contestants /\ ratings[p] \in Int /\ ratings[q] \in Int
      BY PlayersContestants DEF EloTypes
    <2>4. Rank(q) <= Rank(p)
      BY <1>5, <2>3, RankFollowsOrder, RankType DEF Before
    <2>5. e <= d
      BY <2>1, <2>2, <2>4, DivisionsInOrder
    <2>6. CASE e = d
      BY <1>5, <2>1, <2>2, <2>3, <2>6, ScoresWithinDivision
    <2>7. CASE e < d
      BY <2>1, <2>2, <2>7, ScoresAcrossDivisions
    <2> QED  BY <2>5, <2>6, <2>7
  <1>6. DOMAIN ToScores = Players
    BY <1>2
  <1> QED  BY <1>4, <1>5, <1>6 DEF ScoresGood

EloInv == EloTypes /\ PairingInv /\ (scores # <<>> => ScoresGood(scores))

LEMMA EloStep == EloInv /\ [EloNext]_eloVars => EloInv'
  <1> SUFFICES ASSUME EloInv, [EloNext]_eloVars  PROVE EloInv'
    OBVIOUS
  <1> USE DEF EloInv
  <1>1. CASE StartRound
    BY <1>1, StartRoundKeeps DEF StartRound
  <1>2. ASSUME NEW p \in Contestants, PairPlayer(p)  PROVE EloInv'
    <2>1. scores' = <<>>
      BY <1>2 DEF PairPlayer, EloTypes
    <2> QED  BY <1>2, <2>1, PairPlayerKeeps
  <1>3. CASE AddMatches
    <2>1. scores' = <<>> /\ pairing' = FALSE
      BY <1>3 DEF AddMatches, EloTypes
    <2>2. EloTypes'
      BY <1>3, <2>1 DEF AddMatches, EloTypes
    <2> QED  BY <2>1, <2>2 DEF PairingInv
  <1>4. ASSUME NEW i \in open, NEW change \in -K .. K, UpdateRatings(i, change)  PROVE EloInv'
    <2>1. scores' = <<>> /\ pairing' = FALSE
      BY <1>4 DEF UpdateRatings, EloTypes
    <2>2. i \in DOMAIN fights /\ fights[i] \in Contestants \X Contestants
      BY DEF EloTypes
    <2>3. ratings' \in [Contestants -> Int]
      <3>1. PICK a \in Contestants, b \in Contestants : a = fights[i][1] /\ b = fights[i][2]
        BY <2>2
      <3>2. ratings' = [ratings EXCEPT ![a] = @ + change, ![b] = @ - change]
        BY <1>4, <3>1 DEF UpdateRatings
      <3>3. change \in Int
        BY EloConstants
      <3>4. [ratings EXCEPT ![a] = @ + change] \in [Contestants -> Int]
        BY <3>3 DEF EloTypes
      <3> QED  BY <3>2, <3>3, <3>4
    <2>4. EloTypes'
      BY <1>4, <2>1, <2>3 DEF UpdateRatings, EloTypes
    <2> QED  BY <2>1, <2>4 DEF PairingInv
  <1>5. CASE RateBatch
    <2>1. EloTypes' /\ pairing' = FALSE /\ scores' = ToScores
      BY <1>5 DEF RateBatch, EloTypes
    <2>2. ScoresGood(scores')
      BY <2>1, ToScoresGood
    <2>3. Players' = Players /\ ratings' = ratings
      BY <1>5 DEF RateBatch, Players
    <2>4. ScoresGood(scores)'
      BY <2>2, <2>3 DEF ScoresGood
    <2> QED  BY <2>1, <2>4 DEF PairingInv
  <1>6. CASE UNCHANGED eloVars
    <2>1. EloTypes'
      BY <1>6 DEF eloVars, EloTypes
    <2>2. PairingInv'
      BY <1>6 DEF eloVars, PairingInv, OneFightEach, ByesApart, NearestFirst, NearEnough,
                  Players, Gap, Fighters
    <2>3. ScoresGood(scores)' <=> ScoresGood(scores)
      BY <1>6 DEF eloVars, ScoresGood, Players, AtMost
    <2> QED  BY <1>6, <2>1, <2>2, <2>3 DEF eloVars
  <1> QED  BY <1>1, <1>2, <1>3, <1>4, <1>5, <1>6 DEF EloNext

LEMMA EloStarts == EloInit => EloInv
  <1> SUFFICES ASSUME EloInit  PROVE EloInv
    OBVIOUS
  <1>1. S_RATING \in Int
    BY EloAssumption
  <1>2. ratings \in [Contestants -> Int]
    BY <1>1 DEF EloInit
  <1>3. /\ pairing = FALSE /\ fights = <<>> /\ open = {} /\ scores = <<>>
    BY DEF EloInit
  <1>4. EloTypes
    <2>1. pairing \in BOOLEAN
      BY <1>3
    <2>2. fights \in Seq(Contestants \X Contestants)
      <3>1. <<>> \in Seq(Contestants \X Contestants)
        OBVIOUS
      <3> QED  BY <1>3, <3>1, Zenon
    <2>3. open \subseteq DOMAIN fights /\ (pairing => open = {})
      BY <1>3
    <2>4. scores # <<>> => open = {} /\ ~pairing
      BY <1>3, Zenon
    <2> QED  BY <1>2, <2>1, <2>2, <2>3, <2>4 DEF EloTypes
  <1>5. PairingInv
    BY <1>3 DEF PairingInv
  <1> QED  BY <1>3, <1>4, <1>5 DEF EloInv

LEMMA EloImplies == EloInv => CompetitionSound
  <1> SUFFICES ASSUME EloInv  PROVE PairingFair /\ ScoresFollowRatings
    BY DEF CompetitionSound
  <1>1. ScoresFollowRatings
    BY DEF EloInv, ScoresFollowRatings, ScoresGood
  <1>2. CASE pairing /\ unseen = {}
    <2>1. OneFightEach /\ ByesApart /\ NearestFirst
      BY <1>2 DEF EloInv, PairingInv
    <2>2. \A i \in DOMAIN fights : Cardinality(Fighters(i)) = 2
      <3> SUFFICES ASSUME NEW i \in DOMAIN fights  PROVE Cardinality(Fighters(i)) = 2
        OBVIOUS
      <3>1. fights[i][1] # fights[i][2]
        BY <2>1 DEF OneFightEach
      <3>2. Fighters(i) = {fights[i][1]} \cup {fights[i][2]}
        BY DEF Fighters
      <3>3. IsFiniteSet({fights[i][1]}) /\ Cardinality({fights[i][1]}) = 1
        BY FS_Singleton
      <3>4. fights[i][2] \notin {fights[i][1]}
        BY <3>1
      <3>5. Cardinality({fights[i][1]} \cup {fights[i][2]}) = 1 + 1
        BY <3>3, <3>4, FS_AddElement
      <3> QED  BY <3>2, <3>5
    <2>3. Players = byes \cup UNION {Fighters(i) : i \in DOMAIN fights}
      BY <1>2, <2>1 DEF OneFightEach
    <2>4. \A i, j \in DOMAIN fights : i # j => Fighters(i) \cap Fighters(j) = {}
      BY <2>1 DEF OneFightEach
    <2>5. \A p, q \in byes : p # q => Gap(p, q) > MaxWindow
      BY <2>1 DEF OneFightEach, ByesApart
    <2>6. \A i, j \in DOMAIN fights : i < j => \A q \in Fighters(j) : NearEnough(i, q)
      BY <2>1 DEF NearestFirst
    <2>7. PairingFair
      BY <2>2, <2>3, <2>4, <2>5, <2>6 DEF PairingFair, NearEnough
    <2> QED  BY <1>1, <2>7
  <1>3. CASE ~(pairing /\ unseen = {})
    BY <1>1, <1>3 DEF PairingFair
  <1> QED  BY <1>2, <1>3

(* For any contestants, rounds, windows and ratings that matches may give: *)
(* start_round pairs everybody once, leaves two without a match only if    *)
(* they are too far apart, and never prefers an opponent who is further    *)
(* away by more than a step of the window; and to_scores gives each player *)
(* a score between 5% and 100% that never falls as the rating grows.       *)
THEOREM CompetitionStaysSound == EloSpec => []CompetitionSound
  <1>1. EloSpec => []EloInv
    BY EloStarts, EloStep, PTL DEF EloSpec
  <1> QED  BY <1>1, EloImplies, PTL

=============================================================================
