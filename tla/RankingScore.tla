---------------------------- MODULE RankingScore ----------------------------
(***************************************************************************)
(* The score of a user in a task, as RankingWebServer computes it from the *)
(* scores, tokens and extras of his submissions (cmsranking/Scoring.py).   *)
(***************************************************************************)
EXTENDS Integers, Sequences, FiniteSetsExt

Greatest(S) == Max(S \cup {0})

SumTo(f, n) ==
    LET sum[i \in 0 .. n] == IF i = 0 THEN 0 ELSE sum[i - 1] + f[i]
    IN  sum[n]

(* The scores of a submission in the subtasks.                             *)
Extra(s) == IF s.extra = <<>> THEN <<s.score>> ELSE s.extra

(* zip_longest with 0.                                                     *)
Zipped(es, i) == {IF i \in DOMAIN e THEN e[i] ELSE 0 : e \in es}
LongestExtra(es) == Greatest({Len(e) : e \in es})

SumOfMaxima(es) ==
    SumTo([i \in 1 .. LongestExtra(es) |-> Greatest(Zipped(es, i))], LongestExtra(es))

ScoreNow(subs, last, mode) ==
    CASE mode = "max" -> Greatest({subs[k].score : k \in DOMAIN subs})
      [] mode = "max_subtask" -> SumOfMaxima({Extra(subs[k]) : k \in DOMAIN subs})
      [] OTHER -> Greatest({subs[k].score : k \in {j \in DOMAIN subs : subs[j].token \/ j = last}})
=============================================================================
