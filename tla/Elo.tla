-------------------------------- MODULE Elo ---------------------------------
(***************************************************************************)
(* The rounds of a batch on one testcase: PvPService pairs contestants     *)
(* with similar ratings, the matches change the ratings, and the last      *)
(* ratings become scores (cms/service/PvPService.py, start_round and class *)
(* Elo).                                                                   *)
(*                                                                         *)
(* What the expected score takes from a rating is a real number; here a    *)
(* match moves up to K whole points from one player to the other, which is *)
(* all the pairing and the scores depend on. The code has an initial       *)
(* rating of 1500, windows of 100, 150, ... 600, and a K of at most 40.    *)
(***************************************************************************)
EXTENDS Integers, Sequences, FiniteSets

CONSTANTS
    Contestants,                \* numbered in the order of participations
    NumRounds,                  \* how many rounds the batch has
    S_RATING, K,
    InitialWindow, WindowStep, MaxWindow

(* No contestant can lose all points, so that ratings of zero are those of *)
(* contestants without a submission.                                       *)
ASSUME EloAssumption ==
    /\ Contestants \subseteq Nat /\ IsFiniteSet(Contestants)
    /\ {NumRounds, S_RATING, K, InitialWindow, WindowStep, MaxWindow} \subseteq Nat \ {0}
    /\ S_RATING > K * NumRounds
    /\ InitialWindow <= MaxWindow /\ (MaxWindow - InitialWindow) % WindowStep = 0

VARIABLES
    ratings,        \* competition_sys[tc].players
    round_id,       \* rounds that began
    pairing,        \* whether start_round is at the pairing
    unseen,         \* players the loop has not come to
    paired,         \* the set `matched` of the loop
    fights, byes,   \* matches made, in order, and players without one
    open,           \* matches that have not ended
    scores          \* to_scores: pairs of a player and a fraction, or <<>>

eloVars == <<ratings, round_id, pairing, unseen, paired, fights, byes, open, scores>>

Players == {p \in Contestants : ratings[p] > 0}

(* Contestants without a submission for the batch have no rating.          *)
EloInit ==
    /\ \E present \in SUBSET Contestants :
          /\ Cardinality(present) >= 2
          /\ ratings = [p \in Contestants |-> IF p \in present THEN S_RATING ELSE 0]
    /\ round_id = 0 /\ pairing = FALSE
    /\ unseen = {} /\ paired = {} /\ fights = <<>> /\ byes = {} /\ open = {}
    /\ scores = <<>>

-----------------------------------------------------------------------------
(* start_round. The players are shuffled: the loop takes them in any       *)
(* order.                                                                  *)

Gap(p, q) == IF ratings[p] >= ratings[q] THEN ratings[p] - ratings[q] ELSE ratings[q] - ratings[p]

(* The windows that are tried, and the opponents in one of them.           *)
Windows == {w \in InitialWindow .. MaxWindow : (w - InitialWindow) % WindowStep = 0}

InWindow(p, w) == {q \in Players : Gap(p, q) <= w /\ q \notin paired \cup {p}}

(* Mutation: a player already paired may be chosen again.                  *)
CandidatesAgain(p) == {q \in Players \ {p} : Gap(p, q) <= InitialWindow}

(* Those in the first window that has any.                                 *)
Candidates(p) ==
    UNION {InWindow(p, w) : w \in {v \in Windows :
        \A u \in Windows : u < v => InWindow(p, u) = {}}}

StartRound ==
    /\ ~pairing /\ open = {} /\ scores = <<>>
    /\ round_id < NumRounds
    /\ round_id = 0 \/ fights # <<>>
    /\ round_id' = round_id + 1
    /\ pairing' = TRUE
    /\ unseen' = Players /\ paired' = {} /\ fights' = <<>> /\ byes' = {}
    /\ UNCHANGED <<ratings, open, scores>>

PairPlayer(p) ==
    /\ pairing /\ p \in unseen
    /\ unseen' = unseen \ {p}
    /\ \/ /\ p \in paired
          /\ UNCHANGED <<paired, fights, byes>>
       \/ /\ p \notin paired
          /\ Candidates(p) = {}
          /\ paired' = paired \cup {p}
          /\ byes' = byes \cup {p}
          /\ UNCHANGED fights
       \/ /\ p \notin paired
          /\ \E q \in Candidates(p) :
                /\ paired' = paired \cup {p, q}
                /\ fights' = Append(fights, <<p, q>>)
          /\ UNCHANGED byes
    /\ UNCHANGED <<ratings, round_id, pairing, open, scores>>

(* The matches are stored and announced. Without any the batch stops here. *)
AddMatches ==
    /\ pairing /\ unseen = {}
    /\ pairing' = FALSE
    /\ open' = DOMAIN fights
    /\ UNCHANGED <<ratings, round_id, unseen, paired, fights, byes, scores>>

-----------------------------------------------------------------------------
(* update_scores: what one player gains the other loses.                   *)
UpdateRatings(i, change) ==
    /\ i \in open
    /\ open' = open \ {i}
    /\ ratings' = [ratings EXCEPT ![fights[i][1]] = @ + change, ![fights[i][2]] = @ - change]
    /\ UNCHANGED <<round_id, pairing, unseen, paired, fights, byes, scores>>

-----------------------------------------------------------------------------
(* to_scores. Five divisions, with the share of players up to their end    *)
(* and their lowest and highest score, in percent.                         *)
Divisions ==
    <<[upto |-> 10, low |-> 85, high |-> 100], [upto |-> 40, low |-> 60, high |-> 85],
      [upto |-> 70, low |-> 35, high |-> 60], [upto |-> 90, low |-> 20, high |-> 35],
      [upto |-> 100, low |-> 5, high |-> 20]>>

(* sorted by rating; the sort is stable.                                   *)
Before(p, q) == ratings[p] > ratings[q] \/ (ratings[p] = ratings[q] /\ p < q)

Rank(p) == 1 + Cardinality({q \in Contestants : Before(q, p)})

(* int(ceil(total_number * sum_percent / 100)), 0 before the first.        *)
EndOf(d) ==
    IF d = 0 THEN 0 ELSE (Cardinality(Players) * Divisions[d].upto + 99) \div 100

Members(d) == {p \in Contestants : EndOf(d - 1) < Rank(p) /\ Rank(p) <= EndOf(d)}

(* calc_score, as a numerator and a denominator; the best and the worst of *)
(* the division get its highest and lowest score.                          *)
CalcScore(p, d) ==
    LET best == CHOOSE r \in {ratings[q] : q \in Members(d)} :
                    \A q \in Members(d) : ratings[q] <= r
        worst == CHOOSE r \in {ratings[q] : q \in Members(d)} :
                    \A q \in Members(d) : ratings[q] >= r
        low == Divisions[d].low
        high == Divisions[d].high
    IN  IF best = worst THEN <<high, 1>>
        ELSE <<(high - low) * (ratings[p] - worst) + low * (best - worst), best - worst>>

ToScores ==
    [p \in UNION {Members(d) : d \in DOMAIN Divisions} |->
        CalcScore(p, CHOOSE d \in DOMAIN Divisions : p \in Members(d))]

(* batch_ended, when the last match of the last round has.                 *)
RateBatch ==
    /\ ~pairing /\ open = {} /\ fights # <<>> /\ scores = <<>>
    /\ round_id = NumRounds
    /\ scores' = ToScores
    /\ UNCHANGED <<ratings, round_id, pairing, unseen, paired, fights, byes, open>>

EloNext ==
    \/ StartRound
    \/ \E p \in Contestants : PairPlayer(p)
    \/ AddMatches
    \/ \E i \in open, change \in -K .. K : UpdateRatings(i, change)
    \/ RateBatch

EloSpec == EloInit /\ [][EloNext]_eloVars

-----------------------------------------------------------------------------
Fighters(i) == {fights[i][1], fights[i][2]}

(* When start_round has come to all players, whatever the order: everybody *)
(* has one match or none, two without a match are too far apart for the    *)
(* widest window, and nobody was given an opponent while a nearer one, by  *)
(* more than the step of the windows, was free.                            *)
PairingFair ==
    pairing /\ unseen = {} =>
        /\ \A i \in DOMAIN fights : Cardinality(Fighters(i)) = 2
        /\ \A i, j \in DOMAIN fights : i # j => Fighters(i) \cap Fighters(j) = {}
        /\ Players = byes \cup UNION {Fighters(i) : i \in DOMAIN fights}
        /\ \A p, q \in byes : p # q => Gap(p, q) > MaxWindow
        /\ \A i, j \in DOMAIN fights : i < j => \A q \in Fighters(j) :
              \/ Gap(fights[i][1], fights[i][2]) <= InitialWindow
              \/ Gap(fights[i][1], fights[i][2]) < Gap(fights[i][1], q) + WindowStep

AtMost(x, y) == x[1] * y[2] <= y[1] * x[2]

(* to_scores gives a score to every contestant who plays and to no other,  *)
(* between 5% and 100%, and never less to a higher rating, within a        *)
(* division and across their borders.                                      *)
ScoresFollowRatings ==
    scores # <<>> =>
        /\ DOMAIN scores = Players
        /\ \A p \in Players : AtMost(<<5, 1>>, scores[p]) /\ AtMost(scores[p], <<100, 1>>)
        /\ \A p, q \in Players : ratings[p] < ratings[q] => AtMost(scores[p], scores[q])

CompetitionSound == PairingFair /\ ScoresFollowRatings

(* Contestants with the same rating get the same score. TLC finds it       *)
(* violated: the border of a division may separate them.                   *)
SameRatingSameScore ==
    scores # <<>> => \A p, q \in Players :
        ratings[p] = ratings[q] => AtMost(scores[p], scores[q])
=============================================================================
