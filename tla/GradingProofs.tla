--------------------------- MODULE GradingProofs ----------------------------
(***************************************************************************)
(* Proofs about a worker grading the jobs of a group, for any number of    *)
(* jobs, of compilation commands, of processes and of boxes, and for all   *)
(* limits; about the scores of a task, for any testcases, subtasks and     *)
(* number of submissions; and about the ranking made of them, for any      *)
(* users, submissions and changes. What sums, products, replays and merged *)
(* lists are is found by induction over a set of numbers.                  *)
(***************************************************************************)
EXTENDS Grading, TaskScore, RankingStore, TLAPS, FiniteSetTheorems, WellFoundedInduction

LEMMA SetInduction ==
    ASSUME NEW S, 0 \in S, \A n \in Nat : n \in S => n + 1 \in S
    PROVE  Nat \subseteq S
  <1> DEFINE T == Nat \ S
             Below == {ss \in Nat \X Nat : ss[1] < ss[2]}
  <1> SUFFICES ASSUME T # {} PROVE FALSE
    OBVIOUS
  <1>1. T \subseteq Nat
    OBVIOUS
  <1>2. IsWellFoundedOn(Below, Nat)
    BY NatLessThanWellFounded DEF OpToRel
  <1> HIDE DEF T, Below
  <1>3. PICK n \in T : \A m \in T : <<m, n>> \notin Below
    BY <1>1, <1>2, WFMin
  <1>4. n # 0 /\ n - 1 \in Nat
    BY <1>1, <1>3 DEF T
  <1>5. <<n - 1, n>> \in Below
    BY <1>1, <1>4 DEF Below
  <1> QED BY <1>3, <1>4, <1>5 DEF T

-----------------------------------------------------------------------------
(* The work of programs: a sum over a set, as a function of its subsets.   *)

SumOver(sum, c, D) ==
    sum = [s \in D |-> IF s = {} THEN 0
                       ELSE c[CHOOSE x \in s : TRUE] + sum[s \ {CHOOSE x \in s : TRUE}]]

(* There is such a function, for the subsets with at most n elements.      *)
LEMMA SumExists ==
    ASSUME NEW S, IsFiniteSet(S), NEW c \in [S -> Nat]
    PROVE  \E sum : SumOver(sum, c, SUBSET S)
  <1> DEFINE Small(n) == {s \in SUBSET S : Cardinality(s) <= n}
             first(s) == CHOOSE x \in s : TRUE
             T == {n \in Nat : \E sum : SumOver(sum, c, Small(n))}
  <1>1. \A s \in SUBSET S : IsFiniteSet(s) /\ Cardinality(s) \in Nat
    BY FS_Subset, FS_CardinalityType
  <1>2. \A s \in SUBSET S : s # {} =>
           /\ first(s) \in s /\ s \ {first(s)} \in SUBSET S
           /\ Cardinality(s \ {first(s)}) = Cardinality(s) - 1
    <2> SUFFICES ASSUME NEW s \in SUBSET S, s # {}
                 PROVE  /\ first(s) \in s /\ s \ {first(s)} \in SUBSET S
                        /\ Cardinality(s \ {first(s)}) = Cardinality(s) - 1
      OBVIOUS
    <2>1. first(s) \in s
      OBVIOUS
    <2> QED  BY <2>1, <1>1, FS_RemoveElement
  <1>3. 0 \in T
    <2>1. \A s \in Small(0) : s = {}
      BY <1>1, FS_EmptySet
    <2>2. SumOver([s \in Small(0) |-> 0], c, Small(0))
      BY <2>1 DEF SumOver
    <2> QED  BY <2>2
  <1>4. ASSUME NEW n \in Nat, n \in T  PROVE n + 1 \in T
    <2>1. PICK g : SumOver(g, c, Small(n))
      BY <1>4
    <2> DEFINE h == [s \in Small(n + 1) |-> IF s = {} THEN 0 ELSE c[first(s)] + g[s \ {first(s)}]]
    <2>2. \A s \in Small(n) : h[s] = g[s]
      <3>1. \A s \in Small(n) : s \in Small(n + 1)
        BY <1>1
      <3>2. \A s \in Small(n) : g[s] = IF s = {} THEN 0 ELSE c[first(s)] + g[s \ {first(s)}]
        BY <2>1 DEF SumOver
      <3> QED  BY <3>1, <3>2
    <2>3. \A s \in Small(n + 1) : s # {} => s \ {first(s)} \in Small(n)
      BY <1>1, <1>2
    <2>4. h = [s \in Small(n + 1) |-> IF s = {} THEN 0 ELSE c[first(s)] + h[s \ {first(s)}]]
      <3> HIDE DEF Small, first
      <3> QED  BY <2>2, <2>3
    <2>5. SumOver(h, c, Small(n + 1))
      BY <2>4 DEF SumOver
    <2>6. \E sum : SumOver(sum, c, Small(n + 1))
      <3> HIDE DEF h, Small
      <3> QED  BY <2>5
    <2>7. n + 1 \in Nat
      OBVIOUS
    <2> HIDE DEF Small
    <2> QED  BY <2>6, <2>7, Zenon
  <1>5. Cardinality(S) \in T
    <2> HIDE DEF T
    <2>1. Nat \subseteq T
      BY <1>3, <1>4, SetInduction
    <2> QED  BY <2>1, FS_CardinalityType
  <1>6. Small(Cardinality(S)) = SUBSET S
    BY FS_Subset
  <1> QED  BY <1>5, <1>6

(* A sum of numbers of at most m is at most m times how many there are.    *)
LEMMA SumBounded ==
    ASSUME NEW S, IsFiniteSet(S), NEW m \in Nat, NEW c \in [S -> 0 .. m],
           NEW sum, SumOver(sum, c, SUBSET S)
    PROVE  sum[S] \in Nat /\ sum[S] <= Cardinality(S) * m
  <1> DEFINE first(s) == CHOOSE x \in s : TRUE
             T == {n \in Nat : \A s \in SUBSET S : Cardinality(s) = n => sum[s] \in Nat /\ sum[s] <= n * m}
  <1>1. \A s \in SUBSET S : IsFiniteSet(s) /\ Cardinality(s) \in Nat
    BY FS_Subset, FS_CardinalityType
  <1>2. 0 \in T
    <2>1. \A s \in SUBSET S : Cardinality(s) = 0 => s = {}
      BY <1>1, FS_EmptySet
    <2>2. sum[{}] = 0
      BY DEF SumOver
    <2>3. 0 \in Nat /\ 0 <= 0 * m
      OBVIOUS
    <2>4. \A s \in SUBSET S : Cardinality(s) = 0 => sum[s] \in Nat /\ sum[s] <= 0 * m
      <3> TAKE s \in SUBSET S
      <3> HAVE Cardinality(s) = 0
      <3>1. sum[s] = 0
        BY <2>1, <2>2
      <3> QED  BY <3>1, <2>3, Zenon
    <2> QED  BY <2>4
  <1>3. ASSUME NEW n \in Nat, n \in T  PROVE n + 1 \in T
    <2> SUFFICES ASSUME NEW s \in SUBSET S, Cardinality(s) = n + 1
                 PROVE  sum[s] \in Nat /\ sum[s] <= (n + 1) * m
      OBVIOUS
    <2>1. s # {}
      BY FS_EmptySet
    <2>2. first(s) \in s /\ s \ {first(s)} \in SUBSET S
      BY <2>1
    <2>3. Cardinality(s \ {first(s)}) = n
      <3>1. IsFiniteSet(s)
        BY <1>1
      <3>2. Cardinality(s \ {first(s)}) = Cardinality(s) - 1
        BY <3>1, <2>2, FS_RemoveElement
      <3> HIDE DEF first
      <3> QED  BY <3>2
    <2>4. sum[s] = c[first(s)] + sum[s \ {first(s)}]
      BY <2>1 DEF SumOver
    <2>5. sum[s \ {first(s)}] \in Nat /\ sum[s \ {first(s)}] <= n * m
      BY <1>3, <2>2, <2>3
    <2>6. c[first(s)] \in Nat /\ c[first(s)] <= m
      BY <2>2
    <2>7. (n + 1) * m = n * m + m /\ n * m \in Nat
      OBVIOUS
    <2> HIDE DEF first
    <2> QED  BY <2>4, <2>5, <2>6, <2>7
  <1>4. Nat \subseteq T
    <2> HIDE DEF T
    <2> QED  BY <1>2, <1>3, SetInduction
  <1> QED  BY <1>4, FS_CardinalityType

LEMMA WorkBounded ==
    ASSUME NEW S, IsFiniteSet(S), NEW m \in Nat, \A p \in S : programs[p].cpu \in 0 .. m
    PROVE  Work(S) \in Nat /\ Work(S) <= Cardinality(S) * m
  <1> DEFINE c == [p \in S |-> programs[p].cpu]
             Body(iter) == [s \in SUBSET S |->
                IF s = {} THEN 0
                ELSE programs[CHOOSE x \in s : TRUE].cpu + iter[s \ {CHOOSE x \in s : TRUE}]]
  <1>1. Work(S) = (CHOOSE iter : iter = Body(iter))[S]
    BY DEF Work, MapThenSumSet, MapThenFoldSet
  <1>2. c \in [S -> 0 .. m] /\ c \in [S -> Nat]
    OBVIOUS
  <1>3. \A s \in SUBSET S : s # {} => c[CHOOSE x \in s : TRUE] = programs[CHOOSE x \in s : TRUE].cpu
    <2>1. \A s \in SUBSET S : s # {} => (CHOOSE x \in s : TRUE) \in S
      OBVIOUS
    <2> QED  BY <2>1
  <1>4. \A sum : SumOver(sum, c, SUBSET S) <=> sum = Body(sum)
    <2> HIDE DEF c
    <2> QED  BY <1>3 DEF SumOver
  <1> HIDE DEF c, Body
  <1>5. PICK sum : SumOver(sum, c, SUBSET S) /\ Work(S) = sum[S]
    <2>1. \E sum : sum = Body(sum)
      BY <1>2, <1>4, SumExists
    <2> QED  BY <1>1, <1>4, <2>1
  <1> QED  BY <1>2, <1>5, SumBounded

-----------------------------------------------------------------------------
(* What a program's run leaves.                                            *)

LEMMA NoneDiffers ==
    /\ None \notin Answers /\ None # "raises" /\ None # TRUE /\ None # FALSE
    /\ {"ok"} \cup ProgramErrors \subseteq Answers
  BY GradingAssumption DEF Answers

LEMMA RunCases ==
    ASSUME NEW log \in Logs
    PROVE  LET r == EvaluationStepAfterRun(log) IN
           /\ log = {} => r = [success |-> TRUE, ran |-> TRUE, stats |-> "ok"]
           /\ log # {} /\ "XX" \notin log => \E status \in ProgramErrors :
                 r = [success |-> TRUE, ran |-> FALSE, stats |-> status]
           /\ "XX" \in log => r = [success |-> FALSE, ran |-> None, stats |-> None]
           /\ EvaluationStep(log) = r
  <1>1. CASE log = {}
    <2>1. GetExitStatus(log) = "ok"
      BY <1>1 DEF GetExitStatus
    <2>2. "XX" \notin log /\ ExitCode(log) = 0
      BY <1>1 DEF ExitCode
    <2>3. EvaluationStep(log) = EvaluationStepAfterRun(log)
      BY <2>2 DEF EvaluationStep, TranslateBoxExitcode
    <2>4. EvaluationStepAfterRun(log) = [success |-> TRUE, ran |-> TRUE, stats |-> "ok"]
      <3> DEFINE status == GetExitStatus(log)
      <3> HIDE DEF status
      <3>1. EvaluationStepAfterRun(log) = CASE status = "ok" -> Result(TRUE, TRUE, status)
                                          [] status \in ProgramErrors -> Result(TRUE, FALSE, status)
                                          [] OTHER -> Failed
        BY DEF EvaluationStepAfterRun, status
      <3>2. status = "ok" /\ "ok" \notin ProgramErrors
        BY <2>1 DEF status, ProgramErrors
      <3>3. EvaluationStepAfterRun(log) = Result(TRUE, TRUE, status)
        BY <3>1, <3>2
      <3> QED  BY <3>2, <3>3 DEF Result
    <2> QED  BY <1>1, <2>2, <2>3, <2>4
  <1>2. CASE log \in {{"RE"}, {"SG"}, {"TO"}, {"TO", "wall"}}
    <2>1. GetExitStatus(log) \in ProgramErrors /\ GetExitStatus(log) # "ok"
      BY <1>2 DEF GetExitStatus, ProgramErrors
    <2>2. log # {} /\ "XX" \notin log /\ ExitCode(log) = 1
      BY <1>2 DEF ExitCode
    <2> HIDE DEF ProgramErrors
    <2>3. EvaluationStep(log) = EvaluationStepAfterRun(log)
      BY <2>2 DEF EvaluationStep, TranslateBoxExitcode
    <2>4. EvaluationStepAfterRun(log)
             = [success |-> TRUE, ran |-> FALSE, stats |-> GetExitStatus(log)]
      <3> DEFINE status == GetExitStatus(log)
      <3>1. status \in ProgramErrors /\ status # "ok"
        BY <2>1
      <3> HIDE DEF status
      <3>2. EvaluationStepAfterRun(log) = CASE status = "ok" -> Result(TRUE, TRUE, status)
                                          [] status \in ProgramErrors -> Result(TRUE, FALSE, status)
                                          [] OTHER -> Failed
        BY DEF EvaluationStepAfterRun, status
      <3>3. EvaluationStepAfterRun(log) = Result(TRUE, FALSE, status)
        BY <3>1, <3>2
      <3> QED  BY <3>3 DEF Result, status
    <2> QED  BY <2>1, <2>2, <2>3, <2>4
  <1>3. CASE log = {"XX"}
    <2>1. GetExitStatus(log) = "sandbox error" /\ ExitCode(log) = 2
      BY <1>3 DEF GetExitStatus, ExitCode
    <2> QED  BY <1>3, <2>1 DEF EvaluationStepAfterRun, EvaluationStep, Result, Failed,
                TranslateBoxExitcode, ProgramErrors
  <1> QED  BY <1>1, <1>2, <1>3 DEF Logs

\* The sandbox did its work.
RanWell(r, log) ==
    \/ log = {} /\ r.success = TRUE /\ r.ran = TRUE /\ r.stats = "ok"
    \/ log # {} /\ r.success = TRUE /\ r.ran = FALSE /\ r.stats \in ProgramErrors

LEMMA NotFailed ==
    ASSUME NEW log \in Logs, "XX" \notin log
    PROVE  RanWell(EvaluationStepAfterRun(log), log)
  <1>1. CASE log = {}
    BY <1>1, RunCases DEF RanWell
  <1>2. CASE log # {}
    BY <1>2, RunCases DEF RanWell
  <1> QED  BY <1>1, <1>2

LEMMA RanIff ==
    ASSUME NEW log \in Logs
    PROVE  EvaluationStepAfterRun(log).ran = TRUE <=> log = {}
  <1> DEFINE r == EvaluationStepAfterRun(log)
  <1>1. CASE "XX" \in log
    <2>1. r.ran = None
      BY <1>1, RunCases
    <2>2. log # {}
      BY <1>1
    <2> HIDE DEF r
    <2>3. ~(r.ran = TRUE)
      BY <2>1, NoneDiffers, Zenon
    <2> QED  BY <2>2, <2>3, Zenon DEF r
  <1>2. CASE "XX" \notin log
    BY <1>2, NotFailed DEF RanWell
  <1> QED  BY <1>1, <1>2

-----------------------------------------------------------------------------
(* The statistics of all processes are those of the first that failed.     *)

Stats == {None, "ok"} \cup ProgramErrors

Merges(g, st, n) ==
    g = [i \in 1 .. n |-> IF i = 1 THEN st[1]
                          ELSE IF st[i] = None \/ g[i - 1] = "raises" THEN "raises"
                          ELSE MergeExecutionStats(g[i - 1], st[i])]

LEMMA MergeExists ==
    ASSUME NEW N \in Nat, NEW st \in [1 .. N -> Stats]
    PROVE  \E g : Merges(g, st, N)
  <1> DEFINE T == {n \in Nat : \E g : Merges(g, st, n)}
  <1>1. 0 \in T
    <2>1. Merges([i \in 1 .. 0 |-> None], st, 0)
      BY DEF Merges
    <2>2. \E g : Merges(g, st, 0)
      BY <2>1
    <2> QED  BY <2>2
  <1>2. ASSUME NEW n \in Nat, n \in T  PROVE n + 1 \in T
    <2>1. PICK g : Merges(g, st, n)
      BY <1>2
    <2> DEFINE next(i) == IF i = 1 THEN st[1]
                          ELSE IF st[i] = None \/ g[i - 1] = "raises" THEN "raises"
                          ELSE MergeExecutionStats(g[i - 1], st[i])
               h == [i \in 1 .. n + 1 |-> next(i)]
    <2>2. \A i \in 1 .. n : h[i] = g[i]
      <3>1. \A i \in 1 .. n : i \in 1 .. n + 1
        OBVIOUS
      <3>2. \A i \in 1 .. n : g[i] = next(i)
        BY <2>1 DEF Merges
      <3> HIDE DEF next
      <3> QED  BY <3>1, <3>2
    <2>3. \A i \in 1 .. n + 1 : i # 1 => i - 1 \in 1 .. n
      OBVIOUS
    <2>4. \A i \in 1 .. n + 1 : i # 1 => g[i - 1] = h[i - 1]
      <3> HIDE DEF h
      <3> QED  BY <2>2, <2>3
    <2>5. \A i \in 1 .. n + 1 : next(i) =
             IF i = 1 THEN st[1] ELSE IF st[i] = None \/ h[i - 1] = "raises" THEN "raises"
             ELSE MergeExecutionStats(h[i - 1], st[i])
      <3> HIDE DEF h
      <3> QED  BY <2>4
    <2>6. h = [i \in 1 .. n + 1 |->
             IF i = 1 THEN st[1] ELSE IF st[i] = None \/ h[i - 1] = "raises" THEN "raises"
             ELSE MergeExecutionStats(h[i - 1], st[i])]
      <3>1. h = [i \in 1 .. n + 1 |-> next(i)]
        OBVIOUS
      <3> HIDE DEF h, next
      <3> QED  BY <2>5, <3>1
    <2>7. Merges(h, st, n + 1)
      BY <2>6 DEF Merges
    <2>8. \E f : Merges(f, st, n + 1)
      <3> HIDE DEF h
      <3> QED  BY <2>7
    <2> QED  BY <2>8
  <1> HIDE DEF T
  <1>3. N \in T
    BY <1>1, <1>2, SetInduction
  <1> QED  BY <1>3 DEF T

LEMMA MergeIs ==
    ASSUME NEW N \in Nat, NEW st \in [1 .. N -> Stats], NEW g, Merges(g, st, N), N > 0
    PROVE  /\ g[N] = "raises" => \E i \in 1 .. N : st[i] = None
           /\ (\A i \in 1 .. N : st[i] # None) =>
                 /\ g[N] \in {"ok"} \cup ProgramErrors
                 /\ g[N] = "ok" <=> \A i \in 1 .. N : st[i] = "ok"
  <1> DEFINE Good(n) == /\ g[n] = "raises" => \E i \in 1 .. n : st[i] = None
                        /\ (\A i \in 1 .. n : st[i] # None) =>
                              /\ g[n] \in {"ok"} \cup ProgramErrors
                              /\ g[n] = "ok" <=> \A i \in 1 .. n : st[i] = "ok"
             T == {n \in Nat : n \in 1 .. N => Good(n)}
  <1>1. 0 \in T
    OBVIOUS
  <1>2. ASSUME NEW n \in Nat, n \in T, n + 1 \in 1 .. N  PROVE Good(n + 1)
    <2>1. CASE n = 0
      <3>1. g[1] = st[1] /\ st[1] \in Stats
        BY <1>2, <2>1 DEF Merges
      <3>2. \A i \in 1 .. 1 : i = 1
        OBVIOUS
      <3>3. Good(1)
        <4>1. g[1] # "raises"
          BY <3>1, NoneDiffers DEF Stats, ProgramErrors
        <4>2. st[1] # None => g[1] \in {"ok"} \cup ProgramErrors
          BY <3>1 DEF Stats
        <4> QED  BY <4>1, <4>2, <3>1, <3>2
      <3> QED  BY <2>1, <3>3
    <2>2. CASE n # 0
      <3>1. Good(n) /\ n \in 1 .. N
        BY <1>2, <2>2
      <3>2. g[n + 1] = IF st[n + 1] = None \/ g[n] = "raises" THEN "raises"
                       ELSE MergeExecutionStats(g[n], st[n + 1])
        BY <1>2, <2>2 DEF Merges
      <3>3. st[n + 1] \in Stats
        BY <1>2
      <3>4. \A i \in 1 .. n + 1 : i \in 1 .. n \/ i = n + 1
        OBVIOUS
      <3>5. 1 .. n \subseteq 1 .. n + 1 /\ n + 1 \in 1 .. n + 1
        OBVIOUS
      <3>6. CASE st[n + 1] = None \/ g[n] = "raises"
        <4>1. \E i \in 1 .. n + 1 : st[i] = None
          BY <3>1, <3>5, <3>6
        <4> QED  BY <4>1, <3>2, <3>6
      <3>7. CASE ~(st[n + 1] = None \/ g[n] = "raises")
        <4>1. g[n + 1] = IF g[n] \in {None, "ok"} THEN st[n + 1] ELSE g[n]
          BY <3>2, <3>7 DEF MergeExecutionStats
        <4>2. g[n + 1] # "raises"
          BY <4>1, <3>3, <3>7 DEF Stats, ProgramErrors
        <4>3. ASSUME \A i \in 1 .. n + 1 : st[i] # None
              PROVE  /\ g[n + 1] \in {"ok"} \cup ProgramErrors
                     /\ g[n + 1] = "ok" <=> \A i \in 1 .. n + 1 : st[i] = "ok"
          <5>1. /\ g[n] \in {"ok"} \cup ProgramErrors
                /\ g[n] = "ok" <=> \A i \in 1 .. n : st[i] = "ok"
            BY <4>3, <3>1, <3>5
          <5>2. g[n] # None
            BY <5>1, NoneDiffers
          <5> HIDE DEF Good
          <5>3. CASE g[n] = "ok"
            <6>1. g[n + 1] = st[n + 1]
              BY <5>3, <4>1
            <6> QED  BY <6>1, <5>1, <5>3, <3>3, <3>4, <3>5, <3>7 DEF Stats
          <5>4. CASE g[n] # "ok"
            <6>1. g[n + 1] = g[n]
              BY <5>2, <5>4, <4>1
            <6> QED  BY <6>1, <5>1, <5>4, <3>5
          <5> QED  BY <5>3, <5>4
        <4> QED  BY <4>2, <4>3
      <3> QED  BY <3>6, <3>7
    <2> QED  BY <2>1, <2>2
  <1> HIDE DEF Good
  <1>3. \A n \in Nat : n \in T => n + 1 \in T
    BY <1>2
  <1> HIDE DEF T
  <1>4. N \in T
    BY <1>1, <1>3, SetInduction
  <1> QED  BY <1>4 DEF T, Good

LEMMA StatsMerged ==
    ASSUME \A i \in 1 .. NumProcesses : programs[i].log \in Logs
    PROVE  LET g == MergedTo[NumProcesses] IN
           /\ g = "raises" => \E i \in 1 .. NumProcesses : "XX" \in programs[i].log
           /\ (\A i \in 1 .. NumProcesses : "XX" \notin programs[i].log) =>
                 /\ g \in {"ok"} \cup ProgramErrors
                 /\ g = "ok" <=> \A i \in 1 .. NumProcesses : programs[i].log = {}
  <1> DEFINE st == [i \in 1 .. NumProcesses |-> RunOf(i).stats]
             Body(g) == [i \in 1 .. NumProcesses |->
                 IF i = 1 THEN RunOf(1).stats
                 ELSE IF RunOf(i).stats = None \/ g[i - 1] = "raises" THEN "raises"
                 ELSE MergeExecutionStats(g[i - 1], RunOf(i).stats)]
  <1>1. NumProcesses \in Nat /\ NumProcesses > 0 /\ 1 \in 1 .. NumProcesses
    BY GradingAssumption
  <1>2. ASSUME NEW i \in 1 .. NumProcesses
        PROVE  /\ st[i] \in Stats
               /\ st[i] = None <=> "XX" \in programs[i].log
               /\ st[i] = "ok" <=> programs[i].log = {}
    <2>1. programs[i].log \in Logs /\ st[i] = EvaluationStepAfterRun(programs[i].log).stats
      BY DEF RunOf
    <2>2. "ok" \notin ProgramErrors /\ "ok" # None /\ None \notin ProgramErrors
      BY NoneDiffers DEF ProgramErrors
    <2> HIDE DEF st
    <2> QED  BY <2>1, <2>2, RunCases DEF Stats
  <1>3. st \in [1 .. NumProcesses -> Stats]
    <2>1. \A i \in 1 .. NumProcesses : RunOf(i).stats \in Stats
      BY <1>2
    <2> QED  BY <2>1
  <1>4. \A g : Merges(g, st, NumProcesses) <=> g = Body(g)
    BY <1>1 DEF Merges
  <1>5. MergedTo = CHOOSE g : g = Body(g)
    BY DEF MergedTo
  <1> HIDE DEF st, Body
  <1>6. Merges(MergedTo, st, NumProcesses)
    <2>1. \E g : g = Body(g)
      BY <1>1, <1>3, <1>4, MergeExists
    <2> QED  BY <1>4, <1>5, <2>1
  <1>7. /\ MergedTo[NumProcesses] = "raises" => \E i \in 1 .. NumProcesses : st[i] = None
        /\ (\A i \in 1 .. NumProcesses : st[i] # None) =>
              /\ MergedTo[NumProcesses] \in {"ok"} \cup ProgramErrors
              /\ MergedTo[NumProcesses] = "ok" <=> \A i \in 1 .. NumProcesses : st[i] = "ok"
    BY <1>1, <1>3, <1>6, MergeIs
  <1> QED  BY <1>2, <1>7, Zenon

-----------------------------------------------------------------------------
(* The worker. While a job is being graded nothing is in its fields yet,   *)
(* and ours is to blame exactly if a sandbox failed or the manager did not *)
(* end well. The manager is never killed: its time is at most the work of  *)
(* the others, and it waits only as long as they run.                      *)

Phases == {"idle", "start", "run", "check", "done", "returned", "raised"}

JobTypes == {"compilation", "evaluation", "match"}

JobValues == Answers \cup BOOLEAN \cup {None}

Jobs == [type : JobTypes, task_type : TaskTypes, user_test : BOOLEAN, keep_sandbox : BOOLEAN,
         success : BOOLEAN \cup {None}, outcome : JobValues, text : JobValues, plus : JobValues]

Players(j) == Processes(j) \cup (IF j.type # "compilation" /\ j.task_type \in {"PvP", "Communication"}
                                 THEN {Manager} ELSE {})

Programs == [ended : BOOLEAN, cpu : Nat, wall : Nat, log : Logs]

InJob == phase \in {"start", "run", "check"}

BoxesMade == \A r \in DOMAIN boxes : boxes[r] \in [id : Nat, state : {"made", "deleted", "kept"}]

GradingTypes ==
    /\ phase \in Phases
    /\ phase # "idle" => job \in Jobs
    /\ next_id \in Nat
    /\ fifos \in BOOLEAN /\ ours \in BOOLEAN
    /\ BoxesMade
    /\ phase = "run" => programs \in [Players(job) -> Programs]

JobFresh ==
    InJob =>
        /\ job.success = None /\ job.outcome = None /\ job.text = None
        /\ job.type = "match" => job.task_type = "PvP"
        /\ phase = "start" => ~ours
        /\ phase = "run" => ~NoOp(job)
        /\ phase = "check" => ~ours /\ StatsSoFar \in Answers /\ ~NoOp(job)

Blamed(p) == "XX" \in programs[p].log \/ (p = Manager /\ programs[p].log # {})

OursInRun ==
    phase = "run" =>
        /\ ours <=> \E p \in Players(job) : Blamed(p)
        /\ \A p \in Players(job) : ~programs[p].ended => programs[p].log = {}

Slow == Cardinality(Processes(job)) * (TimeLimit + 1)

InTime ==
    phase = "run" =>
        /\ \A p \in Processes(job) :
              /\ programs[p].cpu <= TimeLimit + 1
              /\ ~programs[p].ended => programs[p].wall <= TimeLimit + 2
        /\ Manager \in Players(job) =>
              /\ programs[Manager].cpu <= Slow
              /\ ~programs[Manager].ended =>
                    /\ programs[Manager].wall <= programs[Manager].cpu + TimeLimit + 2
                    /\ \A p \in Processes(job) :
                          ~programs[p].ended => programs[p].wall = programs[Manager].wall

GradingInv ==
    /\ GradingTypes /\ JobFresh /\ OursInRun /\ InTime
    /\ OursToBlame /\ ResultsComplete /\ BoxesDiffer /\ SandboxesGone

-----------------------------------------------------------------------------
(* Who runs.                                                               *)

LEMMA RolesAre ==
    ASSUME NEW j \in Jobs
    PROVE  /\ j.type = "compilation" => Roles(j) = <<1>> /\ Processes(j) = {}
           /\ j.type # "compilation" =>
                 /\ j.task_type = "Batch" => Roles(j) = <<1>> /\ Processes(j) = {1}
                 /\ j.task_type = "TwoSteps" => Roles(j) = <<1, 2>> /\ Processes(j) = {1, 2}
                 /\ j.task_type = "PvP" => Roles(j) = <<Manager, 1, 2>> /\ Processes(j) = {1, 2}
                 /\ j.task_type = "Communication" =>
                       /\ Roles(j) = <<Manager>> \o [i \in 1 .. NumProcesses |-> i]
                       /\ Processes(j) = 1 .. NumProcesses
                 /\ j.task_type = "OutputOnly" => Roles(j) = <<>> /\ Processes(j) = {}
  <1>1. CASE j.type = "compilation"
    BY <1>1 DEF Roles, Processes
  <1>2. CASE j.type # "compilation" /\ j.task_type = "Batch"
    <2>1. Roles(j) = <<1>>
      BY <1>2 DEF Roles
    <2>2. {Roles(j)[i] : i \in DOMAIN Roles(j)} = {1}
      BY <2>1
    <2> QED  BY <1>2, <2>1, <2>2 DEF Processes, Manager
  <1>3. CASE j.type # "compilation" /\ j.task_type = "TwoSteps"
    <2>1. Roles(j) = <<1, 2>>
      BY <1>3 DEF Roles
    <2>2. {Roles(j)[i] : i \in DOMAIN Roles(j)} = {1, 2}
      BY <2>1
    <2> QED  BY <1>3, <2>1, <2>2 DEF Processes, Manager
  <1>4. CASE j.type # "compilation" /\ j.task_type = "PvP"
    <2>1. Roles(j) = <<Manager, 1, 2>>
      BY <1>4 DEF Roles
    <2>2. {Roles(j)[i] : i \in DOMAIN Roles(j)} = {Manager, 1, 2}
      BY <2>1
    <2> QED  BY <1>4, <2>1, <2>2 DEF Processes, Manager
  <1>5. CASE j.type # "compilation" /\ j.task_type = "Communication"
    <2> DEFINE id == [i \in 1 .. NumProcesses |-> i]
    <2>1. Roles(j) = <<Manager>> \o id
      BY <1>5 DEF Roles
    <2>2. NumProcesses \in Nat /\ id \in Seq(Nat) /\ Len(id) = NumProcesses
      BY GradingAssumption
    <2>3. /\ DOMAIN Roles(j) = 1 .. NumProcesses + 1 /\ Roles(j)[1] = Manager
          /\ \A i \in 1 .. NumProcesses : Roles(j)[i + 1] = i
      BY <2>1, <2>2 DEF Manager
    <2>4. \A i \in DOMAIN Roles(j) : i = 1 \/ (i - 1 \in 1 .. NumProcesses /\ i = (i - 1) + 1)
      BY <2>2, <2>3
    <2>5. \A i \in 1 .. NumProcesses : i + 1 \in DOMAIN Roles(j)
      BY <2>2, <2>3
    <2>6. {Roles(j)[i] : i \in DOMAIN Roles(j)} \ {Manager} = 1 .. NumProcesses
      <3>1. \A i \in 1 .. NumProcesses : i # Manager
        BY DEF Manager
      <3> QED  BY <2>2, <2>3, <2>4, <2>5, <3>1
    <2> QED  BY <1>5, <2>1, <2>6 DEF Processes
  <1>6. CASE j.type # "compilation" /\ j.task_type = "OutputOnly"
    BY <1>6 DEF Roles, Processes
  <1> QED  BY <1>1, <1>2, <1>3, <1>4, <1>5, <1>6

-----------------------------------------------------------------------------
(* The ways a job ends.                                                    *)

LEMMA EndKeeps ==
    ASSUME GradingInv, InJob, phase' = "done", next_id' = next_id, ours' \in BOOLEAN,
           job' \in Jobs, job'.keep_sandbox = job.keep_sandbox, job'.task_type = job.task_type,
           boxes' = Cleaned(boxes, job'),
           fifos' = (fifos /\ ~(job'.success = TRUE /\ ~job.keep_sandbox
                                /\ job.task_type # "TwoSteps")),
           IF job'.success = TRUE THEN None \notin {job'.outcome, job'.text, job'.plus} /\ ~ours'
           ELSE job'.outcome = None /\ job'.text = None /\ ours'
    PROVE  GradingInv'
  <1>1. job \in Jobs /\ next_id \in Nat /\ fifos \in BOOLEAN /\ BoxesMade
    BY DEF GradingInv, GradingTypes, InJob
  <1>2. /\ DOMAIN boxes' = DOMAIN boxes
        /\ \A r \in DOMAIN boxes : boxes'[r] = [boxes[r] EXCEPT !.state =
              IF job'.success = TRUE /\ ~job'.keep_sandbox THEN "deleted" ELSE "kept"]
    BY DEF Cleaned
  <1>3. /\ BoxesMade' /\ \A r \in DOMAIN boxes : boxes'[r].id = boxes[r].id
        /\ job'.success = TRUE /\ ~job'.keep_sandbox =>
              \A r \in DOMAIN boxes : boxes'[r].state = "deleted"
    BY <1>1, <1>2 DEF BoxesMade
  <1>4. GradingTypes'
    BY <1>1, <1>3 DEF GradingTypes, Phases
  <1>5. JobFresh' /\ OursInRun' /\ InTime'
    BY DEF JobFresh, OursInRun, InTime, InJob
  <1>6. OursToBlame'
    BY DEF OursToBlame
  <1>7. ResultsComplete'
    BY DEF ResultsComplete
  <1>8. BoxesDiffer'
    BY <1>2, <1>3 DEF GradingInv, BoxesDiffer
  <1>9. SandboxesGone'
    BY <1>2, <1>3 DEF SandboxesGone
  <1> QED  BY <1>4, <1>5, <1>6, <1>7, <1>8, <1>9 DEF GradingInv

LEMMA SuccessKeeps ==
    ASSUME GradingInv, InJob, NEW o \in JobValues \ {None}, NEW t \in JobValues \ {None},
           NEW plus \in JobValues \ {None}, Finish(TRUE, o, t, plus), ours' = FALSE
    PROVE  GradingInv'
  <1> DEFINE j == [job EXCEPT !.success = TRUE, !.outcome = o, !.text = t, !.plus = plus]
  <1>1. job \in Jobs
    BY DEF GradingInv, GradingTypes, InJob
  <1>2. /\ j \in Jobs /\ j.success = TRUE /\ j.outcome = o /\ j.text = t /\ j.plus = plus
        /\ j.keep_sandbox = job.keep_sandbox /\ j.task_type = job.task_type
    BY <1>1 DEF Jobs
  <1>3. /\ job' = j /\ boxes' = Cleaned(boxes, j) /\ phase' = "done" /\ next_id' = next_id
        /\ fifos' = (fifos /\ ~(TRUE = TRUE /\ ~job.keep_sandbox /\ job.task_type # "TwoSteps"))
    BY DEF Finish
  <1> HIDE DEF j
  <1> QED  BY <1>2, <1>3, EndKeeps

LEMMA FailureKeeps ==
    ASSUME GradingInv, InJob, NEW plus \in JobValues, Finish(FALSE, None, None, plus), ours' = TRUE
    PROVE  GradingInv'
  <1> DEFINE j == [job EXCEPT !.success = FALSE, !.outcome = None, !.text = None, !.plus = plus]
  <1>1. job \in Jobs
    BY DEF GradingInv, GradingTypes, InJob
  <1>2. /\ j \in Jobs /\ j.success = FALSE /\ j.outcome = None /\ j.text = None
        /\ j.keep_sandbox = job.keep_sandbox /\ j.task_type = job.task_type
    BY <1>1 DEF Jobs, JobValues
  <1>3. /\ job' = j /\ boxes' = Cleaned(boxes, j) /\ phase' = "done" /\ next_id' = next_id
        /\ fifos' = (fifos /\ ~(FALSE = TRUE /\ ~job.keep_sandbox /\ job.task_type # "TwoSteps"))
    BY DEF Finish
  <1> HIDE DEF j
  <1> QED  BY <1>2, <1>3, EndKeeps

(* A job that something of ours ended.                                     *)
LEMMA BlameKeeps ==
    ASSUME phase' \in {"done", "raised"}, ours' = TRUE, job' \in Jobs, job'.success # TRUE,
           job'.outcome = None, job'.text = None, BoxesDiffer', BoxesMade', fifos' \in BOOLEAN, next_id' \in Nat
    PROVE  GradingInv'
  <1>1. GradingTypes'
    BY DEF GradingTypes, Phases
  <1>2. JobFresh' /\ OursInRun' /\ InTime'
    BY DEF JobFresh, OursInRun, InTime, InJob
  <1>3. OursToBlame'
    BY DEF OursToBlame
  <1>4. ResultsComplete' /\ SandboxesGone'
    BY DEF ResultsComplete, SandboxesGone
  <1> QED  BY <1>1, <1>2, <1>3, <1>4 DEF GradingInv

LEMMA RaiseKeeps ==
    ASSUME GradingInv, InJob, Raise, ours' = TRUE
    PROVE  GradingInv'
  <1>1. /\ job \in Jobs /\ next_id \in Nat /\ fifos \in BOOLEAN /\ BoxesDiffer /\ BoxesMade
        /\ job.success = None /\ job.outcome = None /\ job.text = None
    BY DEF GradingInv, GradingTypes, InJob, JobFresh
  <1>2. phase' = "raised" /\ UNCHANGED <<job, boxes, next_id, fifos>>
    BY DEF Raise
  <1>3. BoxesDiffer' /\ BoxesMade'
    BY <1>1, <1>2 DEF BoxesDiffer, BoxesMade
  <1> QED  BY <1>1, <1>2, <1>3, NoneDiffers, BlameKeeps

LEMMA TombstoneKeeps ==
    ASSUME GradingInv, InJob, ours' = TRUE, phase' = "done", BoxesDiffer', BoxesMade',
           job' = [job EXCEPT !.success = FALSE, !.plus = "tombstone"],
           fifos' \in BOOLEAN, next_id' \in Nat
    PROVE  GradingInv'
  <1>1. /\ job \in Jobs
        /\ job.success = None /\ job.outcome = None /\ job.text = None
    BY DEF GradingInv, GradingTypes, InJob, JobFresh
  <1>2. job' \in Jobs /\ job'.success = FALSE /\ job'.outcome = None /\ job'.text = None
    BY <1>1 DEF Jobs, JobValues, Answers
  <1> QED  BY <1>2, BlameKeeps

LEMMA CheckKeeps ==
    ASSUME GradingInv, InJob, ~NoOp(job), ~ours, StatsSoFar \in Answers, phase' = "check",
           UNCHANGED <<job, programs, boxes, next_id, fifos, ours>>
    PROVE  GradingInv'
  <1>1. /\ job \in Jobs /\ next_id \in Nat /\ fifos \in BOOLEAN /\ ours \in BOOLEAN
        /\ job.success = None /\ job.outcome = None /\ job.text = None
        /\ job.type = "match" => job.task_type = "PvP"
        /\ BoxesMade
    BY DEF GradingInv, GradingTypes, InJob, JobFresh
  <1>2. GradingTypes'
    BY <1>1 DEF GradingTypes, Phases, BoxesMade
  <1>3. StatsSoFar' = StatsSoFar
    BY DEF StatsSoFar, RunOf
  <1>4. JobFresh' /\ OursInRun' /\ InTime'
    BY <1>1, <1>3 DEF JobFresh, OursInRun, InTime, InJob, NoOp
  <1>5. OursToBlame' /\ ResultsComplete' /\ SandboxesGone'
    BY DEF OursToBlame, ResultsComplete, SandboxesGone, JobEnded
  <1>6. BoxesDiffer'
    BY DEF BoxesDiffer, GradingInv
  <1> QED  BY <1>2, <1>4, <1>5, <1>6 DEF GradingInv

LEMMA OutputCheckedKeeps ==
    ASSUME GradingInv, InJob, ~NoOp(job), ~ours, StatsSoFar \in Answers, OutputChecked(StatsSoFar)
    PROVE  GradingInv'
  <1>1. StatsSoFar \in JobValues /\ StatsSoFar # None
    BY NoneDiffers DEF JobValues
  <1>2. {"0", "1", "no output", "completed", "compared"} \subseteq Answers
    BY DEF Answers
  <1>3. ASSUME NEW o \in {"0", "1"}, NEW t \in {"no output", "completed", "compared"},
               Finish(TRUE, o, t, StatsSoFar), ours' = ours
        PROVE  GradingInv'
    <2>1. o \in JobValues \ {None} /\ t \in JobValues \ {None} /\ StatsSoFar \in JobValues \ {None}
      BY <1>1, <1>2, NoneDiffers DEF JobValues
    <2>2. ours' = FALSE
      BY <1>3 DEF GradingInv, GradingTypes
    <2> QED  BY <1>3, <2>1, <2>2, SuccessKeeps
  <1>4. ASSUME phase' = "check", UNCHANGED <<job, programs, boxes, next_id, fifos, ours>>
        PROVE  GradingInv'
    BY <1>4, CheckKeeps
  <1> QED  BY <1>3, <1>4 DEF OutputChecked

-----------------------------------------------------------------------------
(* The programs have ended.                                                *)

LEMMA EndedFacts ==
    ASSUME GradingInv, AllEnded
    PROVE  /\ InJob /\ job \in Jobs /\ job.type # "compilation" /\ ~NoOp(job)
           /\ job.type = "match" => job.task_type = "PvP"
           /\ \A p \in Players(job) : programs[p].log \in Logs
           /\ ours \in BOOLEAN
           /\ ours <=> \E p \in Players(job) : Blamed(p)
  <1>1. /\ InJob /\ job \in Jobs /\ ~NoOp(job) /\ (job.type = "match" => job.task_type = "PvP")
        /\ programs \in [Players(job) -> Programs] /\ programs # <<>> /\ ours \in BOOLEAN
        /\ ours <=> \E p \in Players(job) : Blamed(p)
    BY DEF GradingInv, GradingTypes, JobFresh, OursInRun, InJob, AllEnded
  <1>2. job.type # "compilation"
    <2> SUFFICES ASSUME job.type = "compilation" PROVE FALSE
      OBVIOUS
    <2>1. Players(job) = {}
      BY <1>1, RolesAre DEF Players
    <2> QED  BY <1>1, <2>1
  <1>3. \A p \in Players(job) : programs[p].log \in Logs
    BY <1>1 DEF Programs
  <1> QED  BY <1>1, <1>2, <1>3

\* The message for a program that failed.
LEMMA MessageIs ==
    ASSUME NEW status \in ProgramErrors
    PROVE  /\ HumanEvaluationMessage(status) = status
           /\ status \in JobValues \ {None} /\ status \in Answers
  BY NoneDiffers DEF HumanEvaluationMessage, JobValues

LEMMA OutcomesAre ==
    /\ {"0", "1", "1 0", "0 1", "0.5 0.5"} \subseteq JobValues \ {None}
    /\ {"completed", "failed", "manager", "checked", "compiled", "none needed", "empty", "ok",
        "not submitted", "compared"} \subseteq JobValues \ {None}
    /\ TRUE \in JobValues \ {None} /\ FALSE \in JobValues \ {None} /\ None \in JobValues
  <1>1. /\ {"0", "1", "1 0", "0 1", "0.5 0.5"} \subseteq Answers
        /\ {"completed", "failed", "manager", "checked", "compiled", "none needed", "empty", "ok",
            "not submitted", "compared"} \subseteq Answers
    BY DEF Answers
  <1> QED  BY <1>1, NoneDiffers DEF JobValues

LEMMA BatchKeeps ==
    ASSUME GradingInv, BatchEvaluated
    PROVE  GradingInv'
  <1> DEFINE step == EvaluationStep(programs[1].log)
  <1>1. /\ InJob /\ job \in Jobs /\ ~NoOp(job) /\ job.task_type = "Batch" /\ ours \in BOOLEAN
        /\ programs[1].log \in Logs /\ (ours <=> "XX" \in programs[1].log)
    <2>1. AllEnded /\ job.task_type = "Batch"
      BY DEF BatchEvaluated
    <2>2. Players(job) = {1}
      BY <2>1, EndedFacts, RolesAre DEF Players
    <2> QED  BY <2>1, <2>2, EndedFacts DEF Blamed, Manager
  <1>2. (CASE ~step.success -> Finish(FALSE, None, None, None) /\ UNCHANGED ours
          [] step.success /\ ~step.ran ->
                /\ Finish(TRUE, "0", HumanEvaluationMessage(step.stats), step.stats)
                /\ UNCHANGED ours
          [] OTHER -> OutputChecked(step.stats))
    BY DEF BatchEvaluated
  <1>3. StatsSoFar = step.stats
    BY <1>1 DEF StatsSoFar
  <1> HIDE DEF step
  <1>4. CASE "XX" \in programs[1].log
    <2>1. step.success = FALSE
      BY <1>1, <1>4, RunCases DEF step
    <2>2. Finish(FALSE, None, None, None) /\ ours' = TRUE
      BY <1>1, <1>2, <1>4, <2>1
    <2> QED  BY <1>1, <2>2, OutcomesAre, FailureKeeps
  <1>5. CASE "XX" \notin programs[1].log /\ programs[1].log # {}
    <2>1. step.success = TRUE /\ step.ran = FALSE /\ step.stats \in ProgramErrors
      BY <1>1, <1>5, RunCases DEF step
    <2>2. Finish(TRUE, "0", step.stats, step.stats) /\ ours' = FALSE
      BY <1>1, <1>2, <1>5, <2>1, MessageIs
    <2> QED  BY <1>1, <2>1, <2>2, MessageIs, OutcomesAre, SuccessKeeps
  <1>6. CASE programs[1].log = {}
    <2>1. step.success = TRUE /\ step.ran = TRUE /\ step.stats = "ok"
      BY <1>1, <1>6, RunCases DEF step
    <2>2. OutputChecked("ok") /\ ~ours
      BY <1>1, <1>2, <1>6, <2>1
    <2>3. StatsSoFar = "ok" /\ "ok" \in Answers
      BY <1>3, <2>1 DEF Answers
    <2> QED  BY <1>1, <2>2, <2>3, OutputCheckedKeeps
  <1> QED  BY <1>4, <1>5, <1>6

LEMMA TwoStepsKeeps ==
    ASSUME GradingInv, TwoStepsEvaluated
    PROVE  GradingInv'
  <1> DEFINE first == RunOf(1)
             second == RunOf(2)
             stats == MergeExecutionStats(first.stats, second.stats)
  <1>1. /\ InJob /\ job \in Jobs /\ ~NoOp(job) /\ job.task_type = "TwoSteps" /\ ours \in BOOLEAN
        /\ programs[1].log \in Logs /\ programs[2].log \in Logs
        /\ ours <=> "XX" \in programs[1].log \/ "XX" \in programs[2].log
    <2>1. AllEnded /\ job.task_type = "TwoSteps"
      BY DEF TwoStepsEvaluated
    <2>2. Players(job) = {1, 2}
      BY <2>1, EndedFacts, RolesAre DEF Players
    <2> QED  BY <2>1, <2>2, EndedFacts DEF Blamed, Manager
  <1>2. (CASE stats = "raises" -> Raise /\ UNCHANGED ours
          [] stats # "raises" /\ ~(first.success /\ second.success) ->
                Finish(FALSE, None, None, stats) /\ UNCHANGED ours
          [] stats # "raises" /\ first.success /\ second.success /\ ~(first.ran /\ second.ran) ->
                /\ Finish(TRUE, "0", HumanEvaluationMessage(stats), stats)
                /\ UNCHANGED ours
          [] OTHER -> OutputChecked(stats))
    BY DEF TwoStepsEvaluated
  <1>3. StatsSoFar = stats
    BY <1>1 DEF StatsSoFar
  <1>4. stats = IF second.stats = None THEN "raises"
                ELSE IF first.stats \in {None, "ok"} THEN second.stats ELSE first.stats
    BY DEF MergeExecutionStats
  <1>5. /\ "ok" \notin ProgramErrors /\ "raises" \notin ProgramErrors
        /\ None \notin ProgramErrors /\ None # "ok" /\ None # "raises"
    BY NoneDiffers DEF ProgramErrors, Answers
  <1>6. first = EvaluationStepAfterRun(programs[1].log) /\ second = EvaluationStepAfterRun(programs[2].log)
    BY DEF RunOf
  <1> HIDE DEF first, second, stats
  <1>7. CASE "XX" \in programs[2].log
    <2>1. second.stats = None
      BY <1>1, <1>6, <1>7, RunCases
    <2>2. stats = "raises"
      BY <1>4, <2>1
    <2>3. Raise /\ ours' = TRUE
      BY <1>1, <1>2, <1>7, <2>2
    <2> QED  BY <1>1, <2>3, RaiseKeeps
  <1>8. CASE "XX" \in programs[1].log /\ "XX" \notin programs[2].log
    <2>1. first.success = FALSE /\ first.stats = None
      BY <1>1, <1>6, <1>8, RunCases
    <2>2. second.success = TRUE /\ second.stats \in {"ok"} \cup ProgramErrors
      BY <1>1, <1>6, <1>8, RunCases
    <2>3. stats = second.stats /\ stats # "raises"
      BY <1>4, <1>5, <2>1, <2>2
    <2>4. Finish(FALSE, None, None, stats) /\ ours' = TRUE
      BY <1>1, <1>2, <1>8, <2>1, <2>2, <2>3
    <2>5. stats \in JobValues
      BY <2>2, <2>3, OutcomesAre, MessageIs
    <2> QED  BY <1>1, <2>4, <2>5, FailureKeeps
  <1>9. CASE /\ "XX" \notin programs[1].log /\ "XX" \notin programs[2].log
             /\ ~(programs[1].log = {} /\ programs[2].log = {})
    <2>1. RanWell(first, programs[1].log)
      BY <1>1, <1>6, <1>9, NotFailed
    <2>2. RanWell(second, programs[2].log)
      BY <1>1, <1>6, <1>9, NotFailed
    <2>3. stats \in ProgramErrors /\ stats # "raises" /\ ~(first.ran /\ second.ran)
      BY <1>4, <1>5, <1>9, <2>1, <2>2 DEF RanWell
    <2>4. first.success = TRUE /\ second.success = TRUE
      BY <2>1, <2>2 DEF RanWell
    <2>5. Finish(TRUE, "0", HumanEvaluationMessage(stats), stats) /\ ours' = ours
      BY <1>2, <2>3, <2>4
    <2>6. Finish(TRUE, "0", stats, stats) /\ ours' = FALSE
      BY <1>1, <1>9, <2>3, <2>5, MessageIs
    <2> QED  BY <1>1, <2>3, <2>6, MessageIs, OutcomesAre, SuccessKeeps
  <1>10. CASE programs[1].log = {} /\ programs[2].log = {}
    <2>1. first.success = TRUE /\ first.ran = TRUE /\ first.stats = "ok"
      BY <1>1, <1>6, <1>10, RunCases
    <2>2. second.success = TRUE /\ second.ran = TRUE /\ second.stats = "ok"
      BY <1>1, <1>6, <1>10, RunCases
    <2>3. stats = "ok"
      BY <1>4, <1>5, <2>1, <2>2
    <2>4. OutputChecked("ok") /\ ~ours
      BY <1>1, <1>2, <1>10, <2>1, <2>2, <2>3
    <2>5. StatsSoFar = "ok" /\ "ok" \in Answers
      BY <1>3, <2>3 DEF Answers
    <2> QED  BY <1>1, <2>4, <2>5, OutputCheckedKeeps
  <1> QED  BY <1>7, <1>8, <1>9, <1>10

\* What a manager or a checker printed is an outcome or nonsense.
LEMMA PrintedIs ==
    ASSUME NEW printed \in Printed, printed # "nonsense"
    PROVE  printed \in JobValues \ {None}
  BY OutcomesAre DEF Printed

LEMMA CommunicationKeeps ==
    ASSUME GradingInv, CommunicationEvaluated
    PROVE  GradingInv'
  <1> DEFINE merged == MergedTo[NumProcesses]
             box == \A p \in Processes(job) : RunOf(p).success
             ran == \A p \in Processes(job) : RunOf(p).ran = TRUE
             tooLong == box /\ ran /\ Work(Processes(job)) >= TimeLimit
             stats == IF tooLong THEN "timeout" ELSE merged
             success == box /\ RunOf(Manager).ran = TRUE
             alright == \A i \in 1 .. NumProcesses : "XX" \notin programs[i].log
  <1>1. /\ InJob /\ job \in Jobs /\ ~NoOp(job) /\ ours \in BOOLEAN
        /\ Processes(job) = 1 .. NumProcesses
        /\ \A i \in 1 .. NumProcesses : programs[i].log \in Logs
        /\ programs[Manager].log \in Logs
        /\ ours <=> ~alright \/ programs[Manager].log # {}
    <2>1. AllEnded /\ job.task_type = "Communication"
      BY DEF CommunicationEvaluated
    <2>2. Players(job) = (1 .. NumProcesses) \cup {Manager} /\ Processes(job) = 1 .. NumProcesses
      BY <2>1, EndedFacts, RolesAre DEF Players
    <2>3. \A i \in 1 .. NumProcesses : i # Manager
      BY GradingAssumption DEF Manager
    <2>4. (\E p \in Players(job) : Blamed(p)) <=> (~alright \/ programs[Manager].log # {})
      BY <2>2, <2>3 DEF Blamed
    <2> QED  BY <2>1, <2>2, <2>4, EndedFacts
  <1>2. (CASE merged = "raises" -> Raise /\ UNCHANGED ours
          [] merged # "raises" /\ ~success -> Finish(FALSE, None, None, None) /\ UNCHANGED ours
          [] merged # "raises" /\ success /\ job.user_test ->
                Finish(TRUE, "0", "completed", stats) /\ UNCHANGED ours
          [] merged # "raises" /\ success /\ ~job.user_test /\ ~(ran /\ ~tooLong) ->
                Finish(TRUE, "0", HumanEvaluationMessage(stats), stats) /\ UNCHANGED ours
          [] OTHER -> \E printed \in Printed :
                IF printed = "nonsense" THEN ours' = TRUE /\ Raise
                ELSE Finish(TRUE, printed, "manager", stats) /\ UNCHANGED ours)
    BY DEF CommunicationEvaluated
  <1>3. /\ merged = "raises" => ~alright
        /\ alright => /\ merged \in {"ok"} \cup ProgramErrors
                      /\ merged = "ok" <=> \A i \in 1 .. NumProcesses : programs[i].log = {}
    BY <1>1, StatsMerged
  <1>4. box <=> alright
    <2>1. ASSUME NEW i \in 1 .. NumProcesses
          PROVE  RunOf(i).success <=> "XX" \notin programs[i].log
      BY <1>1, RunCases DEF RunOf
    <2> QED  BY <1>1, <2>1
  <1>5. alright => (ran <=> \A i \in 1 .. NumProcesses : programs[i].log = {})
    <2>1. ASSUME NEW i \in 1 .. NumProcesses, "XX" \notin programs[i].log
          PROVE  RunOf(i).ran = TRUE <=> programs[i].log = {}
      BY <1>1, <2>1, NotFailed DEF RunOf, RanWell
    <2> QED  BY <1>1, <2>1
  <1>6. RunOf(Manager).ran = TRUE <=> programs[Manager].log = {}
    BY <1>1, RanIff DEF RunOf
  <1>7. success <=> ~ours
    BY <1>1, <1>4, <1>6
  <1>8. success => /\ stats \in {"ok"} \cup ProgramErrors
                   /\ ~(ran /\ ~tooLong) => stats \in ProgramErrors
    <2>1. "timeout" \in ProgramErrors
      BY DEF ProgramErrors
    <2> QED  BY <2>1, <1>3, <1>4, <1>5
  <1>9. success => alright
    BY <1>4
  <1> HIDE DEF merged, box, ran, tooLong, stats, success, alright
  <1>10. ours = FALSE \/ ours = TRUE
    BY <1>1
  <1>11. CASE merged = "raises"
    <2>1. Raise /\ ours' = ours
      BY <1>2, <1>11
    <2>2. ours' = TRUE
      BY <1>3, <1>7, <1>9, <1>10, <1>11, <2>1
    <2> QED  BY <1>1, <2>1, <2>2, RaiseKeeps
  <1>12. CASE merged # "raises" /\ ~success
    <2>1. Finish(FALSE, None, None, None) /\ ours' = ours
      BY <1>2, <1>12
    <2>2. ours' = TRUE
      BY <1>7, <1>10, <1>12, <2>1
    <2> QED  BY <1>1, <2>1, <2>2, OutcomesAre, FailureKeeps
  <1>13. CASE merged # "raises" /\ success
    <2>1. ours = FALSE
      BY <1>7, <1>10, <1>13
    <2>2. stats \in JobValues \ {None}
      BY <1>8, <1>13, OutcomesAre, MessageIs
    <2>3. CASE job.user_test
      <3>1. Finish(TRUE, "0", "completed", stats) /\ ours' = ours
        BY <1>2, <1>13, <2>3
      <3> QED  BY <1>1, <2>1, <2>2, <3>1, OutcomesAre, SuccessKeeps
    <2>4. CASE ~job.user_test /\ ~(ran /\ ~tooLong)
      <3>1. Finish(TRUE, "0", HumanEvaluationMessage(stats), stats) /\ ours' = ours
        BY <1>2, <1>13, <2>4
      <3>2. HumanEvaluationMessage(stats) = stats
        BY <1>8, <1>13, <2>4, MessageIs
      <3> QED  BY <1>1, <2>1, <2>2, <3>1, <3>2, OutcomesAre, SuccessKeeps
    <2>5. CASE ~job.user_test /\ ran /\ ~tooLong
      <3>1. PICK printed \in Printed :
                IF printed = "nonsense" THEN ours' = TRUE /\ Raise
                ELSE Finish(TRUE, printed, "manager", stats) /\ UNCHANGED ours
        BY <1>2, <1>13, <2>5
      <3>2. CASE printed = "nonsense"
        BY <1>1, <3>1, <3>2, RaiseKeeps
      <3>3. CASE printed # "nonsense"
        <4>1. Finish(TRUE, printed, "manager", stats) /\ ours' = FALSE
          BY <2>1, <3>1, <3>3
        <4> QED  BY <1>1, <2>2, <3>3, <4>1, PrintedIs, OutcomesAre, SuccessKeeps
      <3> QED  BY <3>2, <3>3
    <2> QED  BY <2>3, <2>4, <2>5
  <1> QED  BY <1>11, <1>12, <1>13

LEMMA MatchKeeps ==
    ASSUME GradingInv, MatchEvaluated
    PROVE  GradingInv'
  <1> DEFINE first == RunOf(1)
             second == RunOf(2)
             success == first.success /\ second.success /\ RunOf(Manager).ran = TRUE
  <1>1. /\ InJob /\ job \in Jobs /\ ours \in BOOLEAN
        /\ programs[1].log \in Logs /\ programs[2].log \in Logs /\ programs[Manager].log \in Logs
        /\ ours <=> \/ "XX" \in programs[1].log \/ "XX" \in programs[2].log
                    \/ programs[Manager].log # {}
    <2>1. AllEnded /\ job.type = "match"
      BY DEF MatchEvaluated
    <2>2. Players(job) = {1, 2} \cup {Manager}
      BY <2>1, EndedFacts, RolesAre DEF Players
    <2> QED  BY <2>1, <2>2, EndedFacts DEF Blamed, Manager
  <1>2. (CASE ~success -> Finish(FALSE, None, None, None) /\ UNCHANGED ours
          [] success /\ ~(first.ran /\ second.ran) ->
                /\ Finish(TRUE, MatchOutcome(first.ran, second.ran), "failed", first.stats)
                /\ UNCHANGED ours
          [] OTHER -> \E printed \in Printed :
                IF printed = "nonsense" THEN ours' = TRUE /\ Raise
                ELSE Finish(TRUE, printed, "manager", first.stats) /\ UNCHANGED ours)
    BY DEF MatchEvaluated
  <1>3. RunOf(Manager).ran = TRUE <=> programs[Manager].log = {}
    BY <1>1, RanIff DEF RunOf
  <1>4. first.success <=> "XX" \notin programs[1].log
    BY <1>1, RunCases DEF RunOf
  <1>5. second.success <=> "XX" \notin programs[2].log
    BY <1>1, RunCases DEF RunOf
  <1>6. success <=> ~ours
    BY <1>1, <1>3, <1>4, <1>5
  <1>7. ours = FALSE \/ ours = TRUE
    BY <1>1
  <1>8. CASE ~success
    <2>1. Finish(FALSE, None, None, None) /\ ours' = ours
      BY <1>2, <1>8
    <2>2. ours' = TRUE
      BY <1>6, <1>7, <1>8, <2>1
    <2> QED  BY <1>1, <2>1, <2>2, OutcomesAre, FailureKeeps
  <1>9. CASE success
    <2>1. ours = FALSE
      BY <1>6, <1>7, <1>9
    <2>2. RanWell(first, programs[1].log) /\ RanWell(second, programs[2].log)
      BY <1>1, <1>4, <1>5, <1>9, NotFailed DEF RunOf
    <2> HIDE DEF first, second, success
    <2>3. first.stats \in JobValues \ {None}
      BY <2>2, OutcomesAre, MessageIs DEF RanWell
    <2>4. CASE ~(first.ran /\ second.ran)
      <3>1. Finish(TRUE, MatchOutcome(first.ran, second.ran), "failed", first.stats) /\ ours' = ours
        BY <1>2, <1>9, <2>4
      <3>2. MatchOutcome(first.ran, second.ran) \in {"1 0", "0 1", "0.5 0.5"}
        BY <2>2, <2>4 DEF RanWell, MatchOutcome
      <3> QED  BY <1>1, <2>1, <2>3, <3>1, <3>2, OutcomesAre, SuccessKeeps
    <2>5. CASE first.ran /\ second.ran
      <3>1. PICK printed \in Printed :
                IF printed = "nonsense" THEN ours' = TRUE /\ Raise
                ELSE Finish(TRUE, printed, "manager", first.stats) /\ UNCHANGED ours
        BY <1>2, <1>9, <2>5
      <3>2. CASE printed = "nonsense"
        BY <1>1, <3>1, <3>2, RaiseKeeps
      <3>3. CASE printed # "nonsense"
        <4>1. Finish(TRUE, printed, "manager", first.stats) /\ ours' = FALSE
          BY <2>1, <3>1, <3>3
        <4> QED  BY <1>1, <2>3, <3>3, <4>1, PrintedIs, OutcomesAre, SuccessKeeps
      <3> QED  BY <3>2, <3>3
    <2> QED  BY <2>4, <2>5
  <1> QED  BY <1>8, <1>9

-----------------------------------------------------------------------------
(* The checker, OutputOnly and compilations.                               *)

LEMMA CheckFacts ==
    ASSUME GradingInv, phase = "check"
    PROVE  /\ InJob /\ ours = FALSE
           /\ StatsSoFar \in JobValues \ {None}
           /\ (IF job.task_type = "OutputOnly" THEN None ELSE StatsSoFar) \in JobValues
           /\ BoxesDiffer /\ BoxesMade /\ fifos \in BOOLEAN /\ next_id \in Nat
  <1>1. /\ InJob /\ ours = FALSE /\ StatsSoFar \in Answers
        /\ BoxesDiffer /\ BoxesMade /\ fifos \in BOOLEAN /\ next_id \in Nat
    BY DEF GradingInv, GradingTypes, JobFresh, InJob
  <1> QED  BY <1>1, NoneDiffers DEF JobValues

LEMMA CheckedKeeps ==
    ASSUME GradingInv, CheckedBy
    PROVE  GradingInv'
  <1>1. phase = "check"
    BY DEF CheckedBy
  <1>2. PICK log \in Logs, printed \in Printed :
          LET outcome == CheckerStep(log, printed)
          IN /\ ours' = (ours \/ outcome = None)
             /\ IF outcome = None
                THEN Finish(FALSE, None, None,
                            IF job.task_type = "OutputOnly" THEN None ELSE StatsSoFar)
                ELSE Finish(TRUE, outcome, "checked", StatsSoFar)
    BY DEF CheckedBy
  <1> DEFINE outcome == CheckerStep(log, printed)
  <1>3. outcome = None \/ (outcome = printed /\ printed # "nonsense")
    BY DEF CheckerStep
  <1> HIDE DEF outcome
  <1>4. CASE outcome = None
    <2>1. ours' = TRUE /\ Finish(FALSE, None, None,
                                 IF job.task_type = "OutputOnly" THEN None ELSE StatsSoFar)
      BY <1>2, <1>4 DEF outcome
    <2> QED  BY <1>1, <2>1, CheckFacts, FailureKeeps
  <1>5. CASE outcome # None
    <2>1. ours' = FALSE /\ Finish(TRUE, outcome, "checked", StatsSoFar)
      BY <1>1, <1>2, <1>5, CheckFacts DEF outcome
    <2>2. outcome \in JobValues \ {None}
      BY <1>3, <1>5, PrintedIs
    <2> QED  BY <1>1, <2>1, <2>2, CheckFacts, OutcomesAre, SuccessKeeps
  <1> QED  BY <1>4, <1>5

LEMMA CheckerMissingKeeps ==
    ASSUME GradingInv, CheckerMissing
    PROVE  GradingInv'
  <1>1. phase = "check" /\ ours' = TRUE
    BY DEF CheckerMissing
  <1>2. CASE Finish(FALSE, None, None, IF job.task_type = "OutputOnly" THEN None ELSE StatsSoFar)
    BY <1>1, <1>2, CheckFacts, FailureKeeps
  <1>3. CASE Raise
    BY <1>1, <1>3, CheckFacts, RaiseKeeps
  <1>4. CASE Tombstone
    <2>1. BoxesDiffer' /\ BoxesMade' /\ fifos' \in BOOLEAN /\ next_id' \in Nat
      BY <1>1, <1>4, CheckFacts DEF Tombstone, BoxesDiffer, BoxesMade
    <2> QED  BY <1>1, <1>4, <2>1, CheckFacts, TombstoneKeeps DEF Tombstone
  <1> QED  BY <1>2, <1>3, <1>4 DEF CheckerMissing

LEMMA OutputOnlyKeeps ==
    ASSUME GradingInv, OutputOnlyEvaluated \/ CompileOutputOnly
    PROVE  GradingInv'
  <1>1. InJob /\ ours = FALSE /\ job.task_type = "OutputOnly"
    BY DEF GradingInv, GradingTypes, JobFresh, InJob, OutputOnlyEvaluated, CompileOutputOnly
  <1>2. ASSUME NEW o \in {"0", "1"}, NEW t \in {"not submitted", "compared"},
               Finish(TRUE, o, t, "empty"), ours' = ours
        PROVE  GradingInv'
    BY <1>1, <1>2, OutcomesAre, SuccessKeeps
  <1>3. ASSUME Finish(TRUE, TRUE, "none needed", "empty"), ours' = ours  PROVE GradingInv'
    BY <1>1, <1>3, OutcomesAre, SuccessKeeps
  <1>4. ASSUME phase' = "check", UNCHANGED <<job, programs, boxes, next_id, fifos, ours>>
        PROVE  GradingInv'
    <2>1. StatsSoFar \in Answers
      BY <1>1 DEF StatsSoFar, Answers
    <2>2. ~NoOp(job)
      BY <1>1 DEF NoOp
    <2> QED  BY <1>1, <1>4, <2>1, <2>2, CheckKeeps
  <1> QED  BY <1>2, <1>3, <1>4 DEF OutputOnlyEvaluated, CompileOutputOnly

LEMMA CompilationIs ==
    ASSUME NEW logs
    PROVE  LET step == CompilationStep(logs) IN
           \/ step = [success |-> FALSE, ran |-> None, stats |-> None]
           \/ step = [success |-> TRUE, ran |-> TRUE, stats |-> "ok"]
           \/ \E status \in ProgramErrors : step = [success |-> TRUE, ran |-> FALSE, stats |-> status]
  <1> DEFINE stats == GenericStep(logs)
  <1>1. CompilationStep(logs) = CASE stats = None -> Failed
                                  [] stats = "ok" -> Result(TRUE, TRUE, stats)
                                  [] stats \in ProgramErrors -> Result(TRUE, FALSE, stats)
                                  [] OTHER -> Failed
    BY DEF CompilationStep
  <1>2. None # "ok" /\ None \notin ProgramErrors /\ "ok" \notin ProgramErrors
    BY NoneDiffers DEF ProgramErrors, Answers
  <1> HIDE DEF stats
  <1>3. CASE stats = None
    BY <1>1, <1>2, <1>3 DEF Failed, Result
  <1>4. CASE stats = "ok"
    <2>1. CompilationStep(logs) = Result(TRUE, TRUE, stats)
      BY <1>1, <1>2, <1>4
    <2> QED  BY <1>4, <2>1 DEF Result
  <1>5. CASE stats \in ProgramErrors
    <2>1. CompilationStep(logs) = Result(TRUE, FALSE, stats)
      BY <1>1, <1>2, <1>5
    <2> QED  BY <1>5, <2>1 DEF Result
  <1>6. CASE stats # None /\ stats # "ok" /\ stats \notin ProgramErrors
    <2>1. CompilationStep(logs) = Failed
      BY <1>1, <1>6
    <2> QED  BY <2>1 DEF Failed, Result
  <1> QED  BY <1>3, <1>4, <1>5, <1>6

LEMMA CompiledKeeps ==
    ASSUME GradingInv, phase = "run", job.type = "compilation", NEW commands, CompiledBy(commands)
    PROVE  GradingInv'
  <1>1. InJob /\ job \in Jobs /\ ours = FALSE
    <2>1. /\ InJob /\ job \in Jobs /\ ours \in BOOLEAN
          /\ ours <=> \E p \in Players(job) : Blamed(p)
      BY DEF GradingInv, GradingTypes, OursInRun, InJob
    <2>2. Players(job) = {}
      BY <2>1, RolesAre DEF Players
    <2> QED  BY <2>1, <2>2
  <1>2. PICK n \in commands : \E logs \in [1 .. n -> Logs] :
           LET step == CompilationStep(logs)
           IN /\ ours' = (ours \/ ~step.success)
              /\ Finish(step.success, step.ran, IF step.success THEN "compiled" ELSE None, step.stats)
    BY DEF CompiledBy
  <1>3. PICK logs \in [1 .. n -> Logs] :
           LET step == CompilationStep(logs)
           IN /\ ours' = (ours \/ ~step.success)
              /\ Finish(step.success, step.ran, IF step.success THEN "compiled" ELSE None, step.stats)
    BY <1>2
  <1> DEFINE step == CompilationStep(logs)
  <1>4. /\ ours' = (ours \/ ~step.success)
        /\ Finish(step.success, step.ran, IF step.success THEN "compiled" ELSE None, step.stats)
    BY <1>3
  <1>5. \/ step = [success |-> FALSE, ran |-> None, stats |-> None]
        \/ step = [success |-> TRUE, ran |-> TRUE, stats |-> "ok"]
        \/ \E status \in ProgramErrors : step = [success |-> TRUE, ran |-> FALSE, stats |-> status]
    BY CompilationIs
  <1> HIDE DEF step
  <1>6. CASE step = [success |-> FALSE, ran |-> None, stats |-> None]
    <2>1. Finish(FALSE, None, None, None) /\ ours' = TRUE
      BY <1>1, <1>4, <1>6
    <2> QED  BY <1>1, <2>1, OutcomesAre, FailureKeeps
  <1>7. CASE step = [success |-> TRUE, ran |-> TRUE, stats |-> "ok"]
    <2>1. Finish(TRUE, TRUE, "compiled", "ok") /\ ours' = FALSE
      BY <1>1, <1>4, <1>7
    <2> QED  BY <1>1, <2>1, OutcomesAre, SuccessKeeps
  <1>8. ASSUME NEW status \in ProgramErrors, step = [success |-> TRUE, ran |-> FALSE, stats |-> status]
        PROVE  GradingInv'
    <2>1. Finish(TRUE, FALSE, "compiled", status) /\ ours' = FALSE
      BY <1>1, <1>4, <1>8
    <2> QED  BY <1>1, <2>1, OutcomesAre, MessageIs, SuccessKeeps
  <1> QED  BY <1>5, <1>6, <1>7, <1>8

-----------------------------------------------------------------------------
(* The beginning of a job.                                                 *)

LEMMA NextJobKeeps ==
    ASSUME GradingInv, NextJob
    PROVE  GradingInv'
  <1>1. PICK t \in TaskTypes : job' \in FromOperation(t)
    BY DEF NextJob
  <1>2. PICK ty \in JobTypes, u \in BOOLEAN :
           job' \in NewJob(ty, t, u) /\ (ty = "match" => t = "PvP")
    <2>1. {"compilation", "evaluation", "match"} \subseteq JobTypes /\ TRUE \in BOOLEAN /\ FALSE \in BOOLEAN
      BY DEF JobTypes
    <2>2. CASE job' \in CompilationOfSubmission(t)
      BY <2>1, <2>2 DEF CompilationOfSubmission
    <2>3. CASE job' \in CompilationOfUserTest(t)
      BY <2>1, <2>3 DEF CompilationOfUserTest
    <2>4. CASE job' \in EvaluationOfSubmission(t)
      BY <2>1, <2>4 DEF EvaluationOfSubmission
    <2>5. CASE job' \in EvaluationOfUserTest(t)
      BY <2>1, <2>5 DEF EvaluationOfUserTest
    <2>6. CASE job' \in MatchOfSubmissions(t)
      BY <2>1, <2>6 DEF MatchOfSubmissions
    <2> QED  BY <1>1, <2>2, <2>3, <2>4, <2>5, <2>6 DEF FromOperation
  <1>3. /\ job' \in Jobs /\ job'.success = None /\ job'.outcome = None /\ job'.text = None
        /\ job'.type = "match" => job'.task_type = "PvP"
    BY <1>2 DEF NewJob, Jobs, JobValues
  <1>4. /\ phase' = "start" /\ boxes' = <<>> /\ fifos' = FALSE /\ ours' = FALSE
        /\ next_id' = next_id /\ next_id \in Nat
    BY DEF NextJob, GradingInv, GradingTypes
  <1>5. BoxesMade' /\ BoxesDiffer'
    BY <1>4 DEF BoxesMade, BoxesDiffer
  <1>6. GradingTypes'
    BY <1>3, <1>4, <1>5 DEF GradingTypes, Phases
  <1>7. JobFresh' /\ OursInRun' /\ InTime'
    BY <1>3, <1>4 DEF JobFresh, OursInRun, InTime, InJob
  <1>8. OursToBlame' /\ ResultsComplete' /\ SandboxesGone'
    BY <1>4 DEF OursToBlame, ResultsComplete, SandboxesGone, JobEnded
  <1> QED  BY <1>5, <1>6, <1>7, <1>8 DEF GradingInv

LEMMA ReturnKeeps ==
    ASSUME GradingInv, ReturnGroup
    PROVE  GradingInv'
  <1>1. /\ phase = "done" /\ phase' = "returned"
        /\ UNCHANGED <<job, programs, boxes, next_id, fifos, ours>>
    BY DEF ReturnGroup
  <1>2. GradingTypes'
    BY <1>1 DEF GradingInv, GradingTypes, Phases, BoxesMade
  <1>3. JobFresh' /\ OursInRun' /\ InTime'
    BY <1>1 DEF JobFresh, OursInRun, InTime, InJob
  <1>4. OursToBlame'
    BY <1>1 DEF GradingInv, OursToBlame, JobEnded, NoOp
  <1>5. ResultsComplete' /\ BoxesDiffer' /\ SandboxesGone'
    BY <1>1 DEF GradingInv, ResultsComplete, BoxesDiffer, SandboxesGone, JobEnded
  <1> QED  BY <1>2, <1>3, <1>4, <1>5 DEF GradingInv

LEMMA EvaluateKeeps ==
    ASSUME GradingInv, Evaluate
    PROVE  GradingInv'
  <1>1. /\ phase' = "done" /\ UNCHANGED <<job, programs, boxes, next_id, fifos, ours>>
        /\ NoOp(job) /\ job.success = None /\ job.outcome = None /\ job.text = None
    BY DEF Evaluate, GradingInv, JobFresh, InJob
  <1>2. GradingTypes'
    BY <1>1 DEF GradingInv, GradingTypes, Phases, BoxesMade, Evaluate
  <1>3. JobFresh' /\ OursInRun' /\ InTime' /\ BoxesDiffer'
    BY <1>1 DEF GradingInv, JobFresh, OursInRun, InTime, InJob, BoxesDiffer
  <1>4. OursToBlame'
    BY <1>1 DEF OursToBlame, NoOp
  <1>5. job'.success # TRUE
    BY <1>1, NoneDiffers
  <1>6. ResultsComplete' /\ SandboxesGone'
    BY <1>1, <1>5 DEF ResultsComplete, SandboxesGone
  <1> QED  BY <1>2, <1>3, <1>4, <1>6 DEF GradingInv

LEMMA ConfigurationKeeps ==
    ASSUME GradingInv, ConfigurationError
    PROVE  GradingInv'
  <1>1. InJob /\ ours' = TRUE
    BY DEF ConfigurationError, InJob
  <1>2. CASE Raise
    BY <1>1, <1>2, RaiseKeeps
  <1>3. CASE Finish(FALSE, None, None, None)
    BY <1>1, <1>3, OutcomesAre, FailureKeeps
  <1> QED  BY <1>2, <1>3 DEF ConfigurationError

-----------------------------------------------------------------------------
(* The sandboxes of a job are never more than the numbers of boxes.        *)

LEMMA RemaindersDiffer ==
    ASSUME NEW n \in Nat, n > 0, NEW a \in Nat, NEW b \in Nat, a < b, b < a + n
    PROVE  a % n # b % n
  <1> SUFFICES ASSUME a % n = b % n PROVE FALSE
    OBVIOUS
  <1>1. a = n * (a \div n) + (a % n) /\ b = n * (b \div n) + (b % n)
    OBVIOUS
  <1> DEFINE q == b \div n - a \div n
  <1>2. q \in Int /\ b - a = n * q
    BY <1>1
  <1> HIDE DEF q
  <1>3. q > 0 /\ q < 1
    <2>1. CASE q <= 0
      <3>1. n * q <= 0
        BY <1>2, <2>1
      <3> QED  BY <1>2, <3>1
    <2>2. CASE q >= 1
      <3>1. n * q >= n
        BY <1>2, <2>2
      <3> QED  BY <1>2, <3>1
    <2> QED  BY <1>2, <2>1, <2>2
  <1> QED  BY <1>2, <1>3

LEMMA RolesFacts ==
    ASSUME NEW j \in Jobs
    PROVE  /\ Len(Roles(j)) \in Nat /\ Len(Roles(j)) <= BoxesPerWorker
           /\ DOMAIN Roles(j) = 1 .. Len(Roles(j))
           /\ \A i, k \in DOMAIN Roles(j) : Roles(j)[i] = Roles(j)[k] => i = k
           /\ {Roles(j)[i] : i \in DOMAIN Roles(j)} = 
                 IF j.type = "compilation" THEN {1} ELSE Players(j)
  <1>1. CASE Roles(j) = <<>> /\ j.type # "compilation" /\ Players(j) = {}
    BY <1>1, GradingAssumption
  <1>2. CASE Roles(j) = <<1>> /\ (j.type = "compilation" \/ Players(j) = {1})
    BY <1>2, GradingAssumption
  <1>3. CASE Roles(j) = <<1, 2>> /\ j.type # "compilation" /\ Players(j) = {1, 2}
    BY <1>3, GradingAssumption
  <1>4. CASE Roles(j) = <<Manager, 1, 2>> /\ j.type # "compilation" /\ Players(j) = {1, 2} \cup {Manager}
    BY <1>4, GradingAssumption DEF Manager
  <1>5. CASE /\ Roles(j) = <<Manager>> \o [i \in 1 .. NumProcesses |-> i]
             /\ j.type # "compilation" /\ Players(j) = (1 .. NumProcesses) \cup {Manager}
    <2> DEFINE id == [i \in 1 .. NumProcesses |-> i]
    <2>1. Roles(j) = <<Manager>> \o id
      BY <1>5
    <2>2. NumProcesses \in Nat /\ id \in Seq(Nat) /\ Len(id) = NumProcesses
      BY GradingAssumption
    <2>3. /\ DOMAIN Roles(j) = 1 .. NumProcesses + 1 /\ Len(Roles(j)) = NumProcesses + 1
          /\ \A i \in 1 .. NumProcesses + 1 : Roles(j)[i] = i - 1
      BY <2>1, <2>2 DEF Manager
    <2>4. NumProcesses + 1 <= BoxesPerWorker
      BY GradingAssumption
    <2>5. {Roles(j)[i] : i \in DOMAIN Roles(j)} = 0 .. NumProcesses
      <3>1. \A i \in 0 .. NumProcesses : i + 1 \in DOMAIN Roles(j) /\ Roles(j)[i + 1] = i
        BY <2>2, <2>3
      <3>2. \A i \in DOMAIN Roles(j) : Roles(j)[i] \in 0 .. NumProcesses
        BY <2>2, <2>3
      <3> QED  BY <3>1, <3>2
    <2>6. Players(j) = 0 .. NumProcesses
      BY <1>5, <2>2 DEF Manager
    <2>7. \A i, k \in DOMAIN Roles(j) : Roles(j)[i] = Roles(j)[k] => i = k
      BY <2>2, <2>3
    <2>8. Len(Roles(j)) \in Nat /\ Len(Roles(j)) <= BoxesPerWorker /\ DOMAIN Roles(j) = 1 .. Len(Roles(j))
      BY <2>2, <2>3, <2>4
    <2>9. {Roles(j)[i] : i \in DOMAIN Roles(j)} = Players(j)
      BY <2>5, <2>6
    <2> QED  BY <1>5, <2>7, <2>8, <2>9
  <1>6. j.task_type \in TaskTypes
    BY DEF Jobs
  <1>7. CASE j.type = "compilation" \/ j.task_type = "Batch"
    <2>1. Roles(j) = <<1>>
      BY <1>7, RolesAre
    <2>2. j.type # "compilation" => Players(j) = {1}
      BY <1>7, RolesAre DEF Players
    <2> QED  BY <1>2, <2>1, <2>2
  <1>8. CASE j.type # "compilation" /\ j.task_type = "TwoSteps"
    BY <1>3, <1>8, RolesAre DEF Players
  <1>9. CASE j.type # "compilation" /\ j.task_type = "PvP"
    BY <1>4, <1>9, RolesAre DEF Players
  <1>10. CASE j.type # "compilation" /\ j.task_type = "Communication"
    BY <1>5, <1>10, RolesAre DEF Players
  <1>11. CASE j.type # "compilation" /\ j.task_type = "OutputOnly"
    BY <1>1, <1>11, RolesAre DEF Players
  <1> QED  BY <1>6, <1>7, <1>8, <1>9, <1>10, <1>11 DEF TaskTypes

LEMMA MadeIs ==
    ASSUME GradingInv, job \in Jobs, NEW n \in 0 .. Len(Roles(job)), boxes' = Made(n)
    PROVE  BoxesDiffer' /\ BoxesMade'
  <1> DEFINE roles == Roles(job)
             idx(r) == CHOOSE i \in 1 .. n : roles[i] = r
  <1>1. /\ Len(roles) \in Nat /\ Len(roles) <= BoxesPerWorker /\ n <= BoxesPerWorker /\ n \in Nat
        /\ BoxesPerWorker \in Nat /\ BoxesPerWorker > 0 /\ next_id \in Nat
    BY RolesFacts, GradingAssumption DEF GradingInv, GradingTypes
  <1>2. boxes' = [r \in {roles[i] : i \in 1 .. n} |->
                    [id |-> BoxId(next_id + idx(r)), state |-> "made"]]
    BY DEF Made
  <1>3. \A r \in DOMAIN boxes' : idx(r) \in 1 .. n /\ roles[idx(r)] = r
    BY <1>2
  <1> HIDE DEF idx, roles
  <1>4. \A r \in DOMAIN boxes' : boxes'[r] = [id |-> (next_id + idx(r)) % BoxesPerWorker, state |-> "made"]
    BY <1>2 DEF BoxId
  <1>5. BoxesMade'
    <2>1. ASSUME NEW r \in DOMAIN boxes'  PROVE (next_id + idx(r)) % BoxesPerWorker \in Nat
      <3>1. next_id + idx(r) \in Nat
        BY <1>1, <1>3
      <3> QED  BY <1>1, <3>1
    <2> QED  BY <1>4, <2>1 DEF BoxesMade
  <1>6. ASSUME NEW r \in DOMAIN boxes', NEW s \in DOMAIN boxes', idx(r) < idx(s)
        PROVE  boxes'[r].id # boxes'[s].id
    <2>1. /\ next_id + idx(r) \in Nat /\ next_id + idx(s) \in Nat
          /\ next_id + idx(r) < next_id + idx(s)
          /\ next_id + idx(s) < next_id + idx(r) + BoxesPerWorker
      BY <1>1, <1>3, <1>6
    <2>2. (next_id + idx(r)) % BoxesPerWorker # (next_id + idx(s)) % BoxesPerWorker
      BY <1>1, <2>1, RemaindersDiffer
    <2> QED  BY <1>4, <2>2
  <1>7. \A r, s \in DOMAIN boxes' : r # s => idx(r) < idx(s) \/ idx(s) < idx(r)
    BY <1>3
  <1> QED  BY <1>5, <1>6, <1>7 DEF BoxesDiffer

LEMMA ProcessesFinite ==
    ASSUME NEW j \in Jobs
    PROVE  /\ IsFiniteSet(Processes(j)) /\ Cardinality(Processes(j)) \in Nat
           /\ Cardinality(Processes(j)) <= TwoOf(NumProcesses, 2)
           /\ Manager \notin Processes(j)
  <1>1. NumProcesses \in Nat
    BY GradingAssumption
  <1>2. /\ Cardinality({1}) = 1 /\ IsFiniteSet({1}) /\ Cardinality({1, 2}) = 2 /\ IsFiniteSet({1, 2})
        /\ Cardinality({}) = 0 /\ IsFiniteSet({})
    <2>1. {1, 2} = {1} \cup {2} /\ 2 \notin {1}
      OBVIOUS
    <2>2. Cardinality({1}) = 1 /\ IsFiniteSet({1})
      BY FS_Singleton
    <2> QED  BY <2>1, <2>2, FS_AddElement, FS_EmptySet
  <1>3. IsFiniteSet(1 .. NumProcesses) /\ Cardinality(1 .. NumProcesses) = NumProcesses
    BY <1>1, FS_Interval
  <1>4. Processes(j) \in {{}, {1}, {1, 2}, 1 .. NumProcesses}
    BY RolesAre DEF Jobs, TaskTypes
  <1>5. /\ TwoOf(NumProcesses, 2) \in Nat /\ TwoOf(NumProcesses, 2) >= 2
        /\ TwoOf(NumProcesses, 2) >= NumProcesses
    BY <1>1 DEF TwoOf
  <1> HIDE DEF TwoOf
  <1>6. \A i \in 1 .. NumProcesses : i # 0
    BY <1>1
  <1>7. \A S \in {{}, {1}, {1, 2}, 1 .. NumProcesses} :
           /\ IsFiniteSet(S) /\ Cardinality(S) \in {0, 1, 2, NumProcesses} /\ 0 \notin S
    <2> TAKE S \in {{}, {1}, {1, 2}, 1 .. NumProcesses}
    <2>1. CASE S = {}
      BY <1>2, <2>1, Zenon
    <2>2. CASE S = {1}
      <3>1. 0 \notin {1}
        OBVIOUS
      <3> QED  BY <1>2, <2>2, <3>1, Zenon
    <2>3. CASE S = {1, 2}
      <3>1. 0 \notin {1, 2}
        OBVIOUS
      <3> QED  BY <1>2, <2>3, <3>1, Zenon
    <2>4. CASE S = 1 .. NumProcesses
      BY <1>3, <1>6, <2>4, Zenon
    <2> QED  BY <2>1, <2>2, <2>3, <2>4, Zenon
  <1>8. \A c \in {0, 1, 2, NumProcesses} : c \in Nat /\ c <= TwoOf(NumProcesses, 2)
    BY <1>1, <1>5
  <1> QED  BY <1>4, <1>7, <1>8 DEF Manager

LEMMA SandboxesKeep ==
    ASSUME GradingInv, CreateSandboxes
    PROVE  GradingInv'
  <1>1. /\ InJob /\ job \in Jobs /\ ~NoOp(job) /\ ours = FALSE /\ next_id \in Nat
        /\ job.success = None /\ job.outcome = None /\ job.text = None
        /\ job.type = "match" => job.task_type = "PvP"
    BY DEF CreateSandboxes, GradingInv, GradingTypes, JobFresh, InJob
  <1>2. PICK n \in 0 .. Len(Roles(job)) :
          /\ boxes' = Made(n)
          /\ next_id' = (next_id + n) % BoxesPerWorker
          /\ fifos' = (job.type # "compilation" /\ job.task_type # "Batch")
          /\ IF n < Len(Roles(job))
             THEN phase' = "raised" /\ ours' = TRUE /\ UNCHANGED <<job, programs, finished>>
             ELSE \/ /\ phase' = "run"
                     /\ programs' = [p \in Processes(job) \cup ({Manager} \cap DOMAIN Made(n)) |-> Started]
                     /\ UNCHANGED <<job, ours, finished>>
                  \/ /\ phase' = "done" /\ ours' = TRUE
                     /\ job' = [job EXCEPT !.success = FALSE, !.plus = "tombstone"]
                     /\ finished' = Append(finished, FALSE) /\ UNCHANGED programs
    BY DEF CreateSandboxes
  <1>3. BoxesDiffer' /\ BoxesMade'
    BY <1>1, <1>2, MadeIs
  <1>4. next_id' \in Nat /\ fifos' \in BOOLEAN /\ n \in Nat
    <2>1. BoxesPerWorker \in Nat /\ BoxesPerWorker > 0 /\ n \in Nat
      BY <1>1, RolesFacts, GradingAssumption
    <2>2. (next_id + n) % BoxesPerWorker \in Nat
      BY <1>1, <2>1
    <2> QED  BY <1>2, <2>1, <2>2
  <1>5. CASE n < Len(Roles(job))
    <2>1. phase' = "raised" /\ ours' = TRUE /\ job' = job
      BY <1>2, <1>5
    <2>2. job'.success # TRUE
      BY <1>1, <2>1, NoneDiffers
    <2> QED  BY <1>1, <1>3, <1>4, <2>1, <2>2, BlameKeeps
  <1>6. CASE /\ phase' = "done" /\ ours' = TRUE
             /\ job' = [job EXCEPT !.success = FALSE, !.plus = "tombstone"]
    BY <1>1, <1>3, <1>4, <1>6, TombstoneKeeps
  <1>7. CASE /\ n = Len(Roles(job)) /\ phase' = "run"
             /\ programs' = [p \in Processes(job) \cup ({Manager} \cap DOMAIN Made(n)) |-> Started]
             /\ UNCHANGED <<job, ours, finished>>
    <2>1. Processes(job) \cup ({Manager} \cap DOMAIN Made(n)) = Players(job)
      <3>1. DOMAIN Made(n) = IF job.type = "compilation" THEN {1} ELSE Players(job)
        BY <1>1, <1>7, RolesFacts DEF Made
      <3>2. CASE job.type = "compilation"
        BY <3>1, <3>2 DEF Players, Manager
      <3>3. CASE job.type # "compilation"
        BY <3>1, <3>3, <1>1, ProcessesFinite DEF Players
      <3> QED  BY <3>2, <3>3
    <2>2. /\ Started \in Programs /\ Started.ended = FALSE /\ Started.log = {}
          /\ Started.cpu = 0 /\ Started.wall = 0
      BY DEF Started, Programs, Logs
    <2>3. /\ programs' \in [Players(job) -> Programs] /\ job' = job /\ ours' = ours
          /\ \A p \in Players(job) : programs'[p] = Started
      BY <1>7, <2>1, <2>2
    <2>4. Players(job)' = Players(job) /\ Processes(job)' = Processes(job)
      BY <2>3 DEF Players, Processes, Roles
    <2>5. GradingTypes'
      BY <1>1, <1>3, <1>4, <1>7, <2>3, <2>4 DEF GradingTypes, Phases
    <2>6. JobFresh'
      BY <1>1, <1>7, <2>3 DEF JobFresh, NoOp
    <2>7. OursInRun'
      BY <1>1, <2>2, <2>3, <2>4 DEF OursInRun, Blamed
    <2>8. InTime'
      <3>1. Slow' \in Nat
        <4>1. Cardinality(Processes(job)) \in Nat /\ TimeLimit + 1 \in Nat
          BY <1>1, ProcessesFinite, GradingAssumption
        <4>2. Slow' = Cardinality(Processes(job)) * (TimeLimit + 1)
          BY <2>4 DEF Slow
        <4> QED  BY <4>1, <4>2
      <3>2. Processes(job) \subseteq Players(job)
        BY DEF Players
      <3> QED  BY <2>2, <2>3, <2>4, <3>1, <3>2, GradingAssumption DEF InTime
    <2>9. OursToBlame' /\ ResultsComplete' /\ SandboxesGone'
      BY <1>7 DEF OursToBlame, ResultsComplete, SandboxesGone, JobEnded
    <2> QED  BY <1>3, <2>5, <2>6, <2>7, <2>8, <2>9 DEF GradingInv
  <1>8. n < Len(Roles(job)) \/ n = Len(Roles(job))
    BY <1>1, RolesFacts
  <1> QED  BY <1>2, <1>5, <1>6, <1>7, <1>8

-----------------------------------------------------------------------------
(* The programs.                                                           *)

LEMMA RunFacts ==
    ASSUME GradingInv, phase = "run"
    PROVE  /\ InJob /\ job \in Jobs /\ programs \in [Players(job) -> Programs]
           /\ ours \in BOOLEAN
           /\ Processes(job) \subseteq Players(job) /\ Players(job) \subseteq Processes(job) \cup {Manager}
           /\ Manager \notin Processes(job) /\ IsFiniteSet(Processes(job))
           /\ Cardinality(Processes(job)) \in Nat /\ Slow \in Nat
           /\ TimeLimit \in Nat /\ TrustedTime \in Nat
           /\ DOMAIN programs = Players(job) /\ Running \subseteq Players(job)
  <1>1. InJob /\ job \in Jobs /\ programs \in [Players(job) -> Programs] /\ ours \in BOOLEAN
    BY DEF GradingInv, GradingTypes, InJob
  <1>2. /\ Manager \notin Processes(job) /\ IsFiniteSet(Processes(job))
        /\ Cardinality(Processes(job)) \in Nat
    BY <1>1, ProcessesFinite
  <1>3. TimeLimit \in Nat /\ TrustedTime \in Nat
    BY GradingAssumption
  <1>4. Slow \in Nat
    BY <1>2, <1>3 DEF Slow
  <1> QED  BY <1>1, <1>2, <1>3, <1>4 DEF Players, Running

\* Steps of programs leave the rest alone.
LEMMA RunKeeps ==
    ASSUME GradingInv, phase = "run", UNCHANGED <<phase, job, boxes, next_id, fifos>>,
           ours' \in BOOLEAN, programs' \in [Players(job) -> Programs],
           OursInRun', InTime'
    PROVE  GradingInv'
  <1>1. Players(job)' = Players(job)
    BY DEF Players, Processes, Roles
  <1>2. GradingTypes'
    BY <1>1 DEF GradingInv, GradingTypes, BoxesMade
  <1>3. JobFresh'
    BY DEF GradingInv, JobFresh, InJob, NoOp
  <1>4. OursToBlame' /\ ResultsComplete' /\ SandboxesGone'
    BY DEF OursToBlame, ResultsComplete, SandboxesGone, JobEnded
  <1>5. BoxesDiffer'
    BY DEF GradingInv, BoxesDiffer
  <1> QED  BY <1>2, <1>3, <1>4, <1>5 DEF GradingInv

LEMMA EndsKeep ==
    ASSUME GradingInv, phase = "run", NEW p \in Running, NEW log \in Logs, End(p, log),
           ours' \in BOOLEAN, ours' <=> (ours \/ "XX" \in log \/ (p = Manager /\ log # {}))
    PROVE  GradingInv'
  <1>1. /\ job \in Jobs /\ programs \in [Players(job) -> Programs] /\ p \in Players(job)
        /\ Processes(job) \subseteq Players(job) /\ ~programs[p].ended
    BY RunFacts DEF Running
  <1>2. /\ programs' = [programs EXCEPT ![p].ended = TRUE, ![p].log = log, ![p].wall = 0]
        /\ UNCHANGED <<phase, job, boxes, next_id, fifos, finished>>
    BY DEF End
  <1>3. /\ programs' \in [Players(job) -> Programs]
        /\ programs'[p].ended = TRUE /\ programs'[p].log = log /\ programs'[p].cpu = programs[p].cpu
        /\ \A q \in Players(job) : q # p => programs'[q] = programs[q]
    BY <1>1, <1>2 DEF Programs
  <1>4. Players(job)' = Players(job) /\ Processes(job)' = Processes(job) /\ Slow' = Slow
    BY <1>2 DEF Players, Processes, Roles, Slow
  <1>5. OursInRun'
    <2>1. /\ ours <=> \E q \in Players(job) : Blamed(q)
          /\ \A q \in Players(job) : ~programs[q].ended => programs[q].log = {}
      BY DEF GradingInv, OursInRun
    <2>2. ~Blamed(p) /\ (Blamed(p)' <=> "XX" \in log \/ (p = Manager /\ log # {}))
      BY <1>1, <1>3, <2>1 DEF Blamed, Manager
    <2>3. \A q \in Players(job) : q # p => (Blamed(q)' <=> Blamed(q))
      BY <1>3 DEF Blamed, Manager
    <2>4. ours' <=> \E q \in Players(job) : Blamed(q)'
      BY <1>1, <2>1, <2>2, <2>3
    <2>5. \A q \in Players(job) : ~programs'[q].ended => programs'[q].log = {}
      BY <1>3, <2>1
    <2> QED  BY <1>4, <2>4, <2>5 DEF OursInRun
  <1>6. InTime'
    <2>1. InTime
      BY DEF GradingInv
    <2> QED  BY <1>1, <1>3, <1>4, <2>1 DEF InTime, Manager
  <1> QED  BY <1>2, <1>3, <1>5, <1>6, RunKeeps

(* The manager is never over its limits.                                   *)
LEMMA ManagerInTime ==
    ASSUME GradingInv, phase = "run", Manager \in Running
    PROVE  ~OverLimit(Manager)
  <1> DEFINE n == Cardinality(Processes(job))
             most == ManagerTimeLimit(n)
  <1>1. /\ n \in Nat /\ TimeLimit \in Nat /\ TrustedTime \in Nat /\ Slow = n * (TimeLimit + 1)
        /\ Slow \in Nat
        /\ programs[Manager].cpu \in Nat /\ programs[Manager].wall \in Nat
        /\ programs[Manager].cpu <= Slow
        /\ programs[Manager].wall <= programs[Manager].cpu + TimeLimit + 2
    BY RunFacts DEF GradingInv, InTime, Running, Programs, Slow
  <1>2. (n + 1) * (TimeLimit + 1) = Slow + TimeLimit + 1
    <2> HIDE DEF n
    <2> QED  BY <1>1
  <1>3. most >= (n + 1) * (TimeLimit + 1) /\ most \in Int
    <2>1. (n + 1) * (TimeLimit + 1) \in Int
      BY <1>1, <1>2
    <2> QED  BY <1>1, <2>1 DEF ManagerTimeLimit, TwoOf
  <1>4. Timeout(Manager) = most /\ WallclockTimeout(Manager) = most + 1
    BY DEF Timeout, WallclockTimeout
  <1> HIDE DEF n, most
  <1> QED  BY <1>1, <1>2, <1>3, <1>4 DEF OverLimit

LEMMA EndingsKeep ==
    ASSUME GradingInv, Killed \/ Ends \/ ManagerDone \/ SandboxFails \/ ManagerMisbehaves
    PROVE  GradingInv'
  <1>1. phase = "run" /\ ours \in BOOLEAN
    BY RunFacts DEF Killed, Ends, ManagerDone, SandboxFails, ManagerMisbehaves
  <1>2. CASE Killed
    <2>1. PICK p \in Running :
             /\ OverLimit(p)
             /\ End(p, IF programs[p].cpu > Timeout(p) THEN {"TO"} ELSE {"TO", "wall"})
      BY <1>2 DEF Killed
    <2>2. p # Manager
      BY <1>1, <2>1, ManagerInTime
    <2>3. ASSUME NEW log \in {{"TO"}, {"TO", "wall"}}, End(p, log)  PROVE GradingInv'
      <3>1. log \in Logs /\ "XX" \notin log /\ ours' = ours
        BY <1>2, <2>3 DEF Logs, Killed
      <3> QED  BY <1>1, <2>2, <2>3, <3>1, EndsKeep
    <2> QED  BY <2>1, <2>3
  <1>3. CASE Ends
    <2>1. PICK p \in Running, log \in {{}, {"RE"}, {"SG"}} :
             End(p, log) /\ ours' = (ours \/ (p = Manager /\ log # {}))
      BY <1>3 DEF Ends
    <2>2. log \in Logs /\ "XX" \notin log
      BY DEF Logs
    <2> QED  BY <1>1, <2>1, <2>2, EndsKeep
  <1>4. CASE ManagerDone
    <2>1. {} \in Logs /\ Manager \in Running /\ End(Manager, {}) /\ ours' = ours
      BY <1>4 DEF ManagerDone, Logs
    <2> QED  BY <1>1, <2>1, EndsKeep
  <1>5. CASE SandboxFails
    <2>1. PICK p \in Running : End(p, {"XX"})
      BY <1>5 DEF SandboxFails
    <2>2. {"XX"} \in Logs /\ ours' = TRUE
      BY <1>5 DEF SandboxFails, Logs
    <2> QED  BY <1>1, <2>1, <2>2, EndsKeep
  <1>6. CASE ManagerMisbehaves
    <2>1. {"TO"} \in Logs /\ Manager \in Running /\ End(Manager, {"TO"}) /\ ours' = TRUE
      BY <1>6 DEF ManagerMisbehaves, Logs
    <2> QED  BY <1>1, <2>1, EndsKeep
  <1> QED  BY <1>2, <1>3, <1>4, <1>5, <1>6
\* What a counter that has not reached the longest time does in a tick.
LEMMA LaterIs ==
    ASSUME GradingInv, phase = "run"
    PROVE  /\ Slow + TimeLimit + 3 < Longest
           /\ \A n \in Nat : Later(n) \in Nat /\ Later(n) <= n + 1
           /\ \A n \in Nat : n <= Slow + TimeLimit + 3 => Later(n) = n + 1
  <1> DEFINE n == Cardinality(Processes(job))
             most == TwoOf(NumProcesses, 2)
  <1>1. /\ n \in Nat /\ TimeLimit \in Nat /\ TrustedTime \in Nat /\ Slow = n * (TimeLimit + 1)
        /\ Slow \in Nat
    BY RunFacts DEF Slow
  <1>2. n <= most /\ most \in Nat
    <2>1. NumProcesses \in Nat
      BY GradingAssumption
    <2> QED  BY <2>1, RunFacts, ProcessesFinite DEF TwoOf
  <1> HIDE DEF n, most
  <1>3. /\ (most + 1) * (TimeLimit + 1) = most * (TimeLimit + 1) + TimeLimit + 1
        /\ most * (TimeLimit + 1) \in Nat
    BY <1>1, <1>2
  <1>4. n * (TimeLimit + 1) <= most * (TimeLimit + 1)
    <2>1. PICK d \in Nat : most = n + d
      <3>1. most - n \in Nat /\ most = n + (most - n)
        BY <1>1, <1>2
      <3> QED  BY <3>1
    <2>2. (n + d) * (TimeLimit + 1) = n * (TimeLimit + 1) + d * (TimeLimit + 1)
      BY <1>1
    <2>3. d * (TimeLimit + 1) \in Nat /\ n * (TimeLimit + 1) \in Nat
      BY <1>1
    <2> QED  BY <2>1, <2>2, <2>3
  <1>5. Longest = ManagerTimeLimit(most) + 3
    BY DEF Longest, most
  <1>6. ManagerTimeLimit(most) >= (most + 1) * (TimeLimit + 1) /\ ManagerTimeLimit(most) \in Nat
    <2>1. (most + 1) * (TimeLimit + 1) \in Nat
      BY <1>1, <1>3
    <2> QED  BY <1>1, <2>1 DEF ManagerTimeLimit, TwoOf
  <1>7. Slow + TimeLimit + 3 < Longest /\ Longest \in Nat /\ Longest > 0
    BY <1>1, <1>3, <1>4, <1>5, <1>6
  <1>8. \A k \in Nat : Later(k) = IF k = Longest THEN k - 1 ELSE k + 1
    BY DEF Later
  <1>9. \A k \in Nat : Later(k) \in Nat /\ Later(k) <= k + 1
    BY <1>7, <1>8
  <1>10. \A k \in Nat : k <= Slow + TimeLimit + 3 => Later(k) = k + 1
    BY <1>1, <1>7, <1>8
  <1> QED  BY <1>7, <1>9, <1>10

(* A tick. While a process runs the manager's wall clock is that of the    *)
(* process, and left alone the manager computes.                           *)
LEMMA TickKeeps ==
    ASSUME GradingInv, Tick
    PROVE  GradingInv'
  <1>0. phase = "run"
    BY DEF Tick
  <1>1. /\ job \in Jobs /\ programs \in [Players(job) -> Programs] /\ ours \in BOOLEAN
        /\ Processes(job) \subseteq Players(job) /\ Players(job) \subseteq Processes(job) \cup {Manager}
        /\ Manager \notin Processes(job) /\ IsFiniteSet(Processes(job)) /\ Slow \in Nat
        /\ TimeLimit \in Nat /\ DOMAIN programs = Players(job)
    BY <1>0, RunFacts
  <1>2. PICK computing \in SUBSET Running :
          /\ SoundManager(computing)
          /\ programs' = [p \in DOMAIN programs |->
                 IF programs[p].ended THEN programs[p]
                 ELSE [programs[p] EXCEPT !.wall = Later(@),
                                          !.cpu = IF p \in computing THEN Later(@) ELSE @]]
    BY DEF Tick
  <1>3. /\ UNCHANGED <<phase, job, boxes, next_id, fifos, ours>>
        /\ Running # {} /\ \A p \in Running : ~OverLimit(p)
    BY DEF Tick
  <1>4. InTime /\ OursInRun
    BY DEF GradingInv
  <1>5. \A p \in Players(job) : /\ programs[p].cpu \in Nat /\ programs[p].wall \in Nat
                                /\ programs[p] \in Programs
    BY <1>1 DEF Programs
  <1>6. /\ \A n \in Nat : Later(n) \in Nat /\ Later(n) <= n + 1
        /\ \A n \in Nat : n <= Slow + TimeLimit + 3 => Later(n) = n + 1
    BY <1>0, LaterIs
  <1>7. \A p \in Players(job) :
          IF programs[p].ended THEN programs'[p] = programs[p]
          ELSE /\ programs'[p].ended = FALSE /\ programs'[p].log = programs[p].log
               /\ programs'[p].wall = Later(programs[p].wall)
               /\ programs'[p].cpu = IF p \in computing THEN Later(programs[p].cpu) ELSE programs[p].cpu
    BY <1>1, <1>2, <1>5 DEF Programs
  <1>8. programs' \in [Players(job) -> Programs]
    <2>1. ASSUME NEW p \in Players(job)
          PROVE  (IF programs[p].ended THEN programs[p]
                  ELSE [programs[p] EXCEPT !.wall = Later(@),
                                           !.cpu = IF p \in computing THEN Later(@) ELSE @]) \in Programs
      BY <1>5, <1>6 DEF Programs
    <2> QED  BY <1>1, <1>2, <2>1
  <1>9. /\ Players(job)' = Players(job) /\ Processes(job)' = Processes(job) /\ Slow' = Slow
        /\ phase' = "run" /\ ours' = ours
    BY <1>0, <1>3 DEF Players, Processes, Roles, Slow
  <1>10. OursInRun'
    <2>1. \A p \in Players(job) : programs'[p].log = programs[p].log /\ programs'[p].ended = programs[p].ended
      BY <1>5, <1>7 DEF Programs
    <2>2. \A p \in Players(job) : Blamed(p)' <=> Blamed(p)
      BY <2>1 DEF Blamed, Manager
    <2>3. /\ ours <=> \E p \in Players(job) : Blamed(p)
          /\ \A p \in Players(job) : ~programs[p].ended => programs[p].log = {}
      BY <1>0, <1>4 DEF OursInRun
    <2> QED  BY <1>9, <2>1, <2>2, <2>3 DEF OursInRun
  <1>11. ASSUME NEW p \in Processes(job)
         PROVE  /\ programs'[p].cpu <= TimeLimit + 1
                /\ ~programs'[p].ended => /\ programs'[p].wall <= TimeLimit + 2
                                          /\ programs'[p].wall = programs[p].wall + 1
    <2>1. CASE programs[p].ended
      BY <1>0, <1>1, <1>4, <1>7, <2>1 DEF InTime
    <2>2. CASE ~programs[p].ended
      <3>1. p \in Running /\ p # Manager
        BY <1>1, <2>2 DEF Running
      <3>2. ~(programs[p].cpu > TimeLimit) /\ ~(programs[p].wall > TimeLimit + 1)
        BY <1>3, <3>1 DEF OverLimit, Timeout, WallclockTimeout
      <3>3. programs[p].cpu \in Nat /\ programs[p].wall \in Nat
        BY <1>1, <1>5
      <3>4. /\ programs[p].wall <= Slow + TimeLimit + 3
            /\ programs[p].cpu <= TimeLimit /\ programs[p].wall <= TimeLimit + 1
        BY <1>1, <3>2, <3>3
      <3>5. /\ Later(programs[p].cpu) \in Nat /\ Later(programs[p].cpu) <= programs[p].cpu + 1
            /\ Later(programs[p].wall) = programs[p].wall + 1
        BY <1>6, <3>3, <3>4
      <3>6. /\ programs'[p].wall = programs[p].wall + 1
            /\ programs'[p].cpu \in {Later(programs[p].cpu), programs[p].cpu}
        BY <1>1, <1>7, <2>2, <3>5
      <3> QED  BY <1>1, <3>3, <3>4, <3>5, <3>6
    <2> QED  BY <2>1, <2>2
  <1>12. ASSUME Manager \in Players(job)
         PROVE  /\ programs'[Manager].cpu <= Slow
                /\ ~programs'[Manager].ended =>
                      /\ programs'[Manager].wall <= programs'[Manager].cpu + TimeLimit + 2
                      /\ \A p \in Processes(job) :
                            ~programs'[p].ended => programs'[p].wall = programs'[Manager].wall
    <2>1. CASE programs[Manager].ended
      <3>1. programs'[Manager] = programs[Manager]
        BY <1>7, <1>12, <2>1
      <3> QED  BY <1>0, <1>4, <1>12, <2>1, <3>1 DEF InTime
    <2>2. CASE ~programs[Manager].ended
      <3> DEFINE cpu == programs[Manager].cpu
                 wall == programs[Manager].wall
      <3>1. Manager \in Running
        BY <1>1, <1>12, <2>2 DEF Running
      <3>2. /\ cpu \in Nat /\ wall \in Nat /\ cpu <= Slow /\ wall <= cpu + TimeLimit + 2
            /\ \A p \in Processes(job) : ~programs[p].ended => programs[p].wall = wall
        BY <1>0, <1>4, <1>5, <1>12, <2>2 DEF InTime
      <3>3. Work(Processes(job)) \in Nat /\ Work(Processes(job)) <= Slow
        <4>1. \A p \in Processes(job) : programs[p].cpu \in 0 .. (TimeLimit + 1)
          BY <1>0, <1>1, <1>4, <1>5 DEF InTime
        <4>2. TimeLimit + 1 \in Nat
          BY <1>1
        <4> QED  BY <1>1, <4>1, <4>2, WorkBounded DEF Slow
      <3>4. /\ Manager \in computing => cpu < Work(Processes(job))
            /\ Running = {Manager} => Manager \in computing
        BY <1>2, <3>1 DEF SoundManager
      <3>5. /\ programs'[Manager].wall = Later(wall)
            /\ programs'[Manager].cpu = IF Manager \in computing THEN Later(cpu) ELSE cpu
            /\ ~programs'[Manager].ended
        BY <1>7, <1>12, <2>2
      <3> HIDE DEF cpu, wall
      <3>6. Later(wall) = wall + 1 /\ Later(cpu) = cpu + 1
        <4>1. wall <= Slow + TimeLimit + 3 /\ cpu <= Slow + TimeLimit + 3
          BY <1>1, <3>2
        <4> QED  BY <1>6, <3>2, <4>1
      <3>7. /\ programs'[Manager].cpu \in {cpu, cpu + 1} /\ programs'[Manager].cpu <= Slow
            /\ Manager \in computing => programs'[Manager].cpu = cpu + 1
            /\ programs'[Manager].wall = wall + 1
        BY <1>1, <3>2, <3>3, <3>4, <3>5, <3>6
      <3>8. \A p \in Processes(job) :
               ~programs'[p].ended => ~programs[p].ended /\ programs'[p].wall = wall + 1
        <4> SUFFICES ASSUME NEW p \in Processes(job), ~programs'[p].ended
                     PROVE  ~programs[p].ended /\ programs'[p].wall = wall + 1
          OBVIOUS
        <4>1. ~programs[p].ended
          BY <1>1, <1>7
        <4> QED  BY <1>11, <3>2, <4>1
      <3>9. programs'[Manager].wall <= programs'[Manager].cpu + TimeLimit + 2
        <4>1. CASE Running = {Manager}
          BY <1>1, <3>2, <3>4, <3>7, <4>1
        <4>2. CASE Running # {Manager}
          <5>1. PICK p \in Running : p # Manager
            BY <3>1, <4>2
          <5>2. p \in Processes(job) /\ ~programs[p].ended /\ ~programs'[p].ended
            BY <1>1, <1>7, <5>1 DEF Running
          <5>3. wall + 1 <= TimeLimit + 2
            BY <1>11, <3>8, <5>2
          <5> QED  BY <1>1, <3>2, <3>7, <5>3
        <4> QED  BY <4>1, <4>2
      <3> QED  BY <3>7, <3>8, <3>9
    <2> QED  BY <2>1, <2>2
  <1>13. InTime'
    BY <1>9, <1>11, <1>12 DEF InTime, Manager
  <1> QED  BY <1>0, <1>1, <1>3, <1>8, <1>10, <1>13, RunKeeps

-----------------------------------------------------------------------------

LEMMA InitGradingInv == GradingInit => GradingInv
  <1> SUFFICES ASSUME GradingInit  PROVE GradingInv
    OBVIOUS
  <1>1. phase = "idle" /\ next_id = 0 /\ fifos = FALSE /\ ours = FALSE /\ DOMAIN boxes = {}
    BY DEF GradingInit
  <1>2. GradingTypes
    BY <1>1 DEF GradingTypes, Phases, BoxesMade
  <1>3. JobFresh /\ OursInRun /\ InTime
    BY <1>1 DEF JobFresh, InJob, OursInRun, InTime
  <1>4. OursToBlame /\ ResultsComplete /\ BoxesDiffer /\ SandboxesGone
    BY <1>1 DEF OursToBlame, ResultsComplete, BoxesDiffer, SandboxesGone, JobEnded
  <1> QED  BY <1>2, <1>3, <1>4 DEF GradingInv

LEMMA StutterKeeps ==
    ASSUME GradingInv, UNCHANGED gradingVars
    PROVE  GradingInv'
  <1>1. UNCHANGED <<phase, job, programs, boxes, next_id, fifos, ours, finished>>
    BY DEF gradingVars
  <1>2. Players(job)' = Players(job) /\ Processes(job)' = Processes(job) /\ Slow' = Slow
    BY <1>1 DEF Players, Processes, Roles, Slow
  <1>3. GradingTypes' /\ JobFresh'
    <2>1. StatsSoFar' = StatsSoFar
      BY <1>1 DEF StatsSoFar, RunOf
    <2> QED  BY <1>1, <1>2, <2>1 DEF GradingInv, GradingTypes, BoxesMade, JobFresh, InJob, NoOp
  <1>4. OursInRun' /\ InTime'
    BY <1>1, <1>2 DEF GradingInv, OursInRun, Blamed, InTime, Manager
  <1>5. OursToBlame' /\ ResultsComplete' /\ BoxesDiffer' /\ SandboxesGone'
    BY <1>1 DEF GradingInv, OursToBlame, ResultsComplete, BoxesDiffer, SandboxesGone, JobEnded, NoOp
  <1> QED  BY <1>3, <1>4, <1>5 DEF GradingInv
LEMMA NextGradingInv == GradingInv /\ [GradingNext]_gradingVars => GradingInv'
  <1> SUFFICES ASSUME GradingInv, [GradingNext]_gradingVars  PROVE GradingInv'
    OBVIOUS
  <1>1. CASE NextJob \/ ReturnGroup \/ Evaluate \/ ConfigurationError \/ CreateSandboxes
    BY <1>1, NextJobKeeps, ReturnKeeps, EvaluateKeeps, ConfigurationKeeps, SandboxesKeep
  <1>2. CASE CompileBatch \/ CompileCommunication \/ CompilePvP \/ CompileTwoSteps
    <2>1. phase = "run" /\ job.type = "compilation" /\ CompiledBy(1 .. MaxCommands)
      BY <1>2 DEF CompileBatch, CompileCommunication, CompilePvP, CompileTwoSteps, Compiling
    <2> QED  BY <2>1, CompiledKeeps
  <1>3. CASE BatchEvaluated \/ TwoStepsEvaluated \/ CommunicationEvaluated \/ MatchEvaluated
             \/ OutputOnlyEvaluated \/ CompileOutputOnly
    BY <1>3, BatchKeeps, TwoStepsKeeps, CommunicationKeeps, MatchKeeps, OutputOnlyKeeps
  <1>4. CASE CheckedBy \/ CheckerMissing
    BY <1>4, CheckedKeeps, CheckerMissingKeeps
  <1>5. CASE Tick \/ Killed \/ Ends \/ ManagerDone \/ SandboxFails \/ ManagerMisbehaves
    BY <1>5, TickKeeps, EndingsKeep
  <1>6. CASE UNCHANGED gradingVars
    BY <1>6, StutterKeeps
  <1> QED  BY <1>1, <1>2, <1>3, <1>4, <1>5, <1>6 DEF GradingNext, WorkerSteps, ProgramSteps

(* GradingSound for any number of jobs, of commands, of processes and of   *)
(* boxes and for all limits: whatever the programs do, a job is reported   *)
(* as failed exactly when something of ours went wrong, what a successful  *)
(* one reports is complete, sandboxes in use at the same time are in       *)
(* different boxes, and a successful job leaves none behind.               *)
THEOREM JobsStaySound == GradingSpec => []GradingSound
  <1>1. GradingInv => GradingSound
    BY DEF GradingInv, GradingSound
  <1> QED  BY <1>1, InitGradingInv, NextGradingInv, PTL DEF GradingSpec


-----------------------------------------------------------------------------
(* Sums.                                                                   *)

Sums(sum, f, n) ==
    /\ sum[0] = 0
    /\ \A i \in 1 .. n : sum[i] = sum[i - 1] + f[i]
    /\ \A i \in 0 .. n : sum[i] \in Int

LEMMA SumToIs ==
    ASSUME NEW n \in Nat, NEW f, \A i \in 1 .. n : f[i] \in Int
    PROVE  \E sum : Sums(sum, f, n) /\ SumTo(f, n) = sum[n]
  <1> DEFINE Body(s, m) == [i \in 0 .. m |-> IF i = 0 THEN 0 ELSE s[i - 1] + f[i]]
             T == {m \in Nat : \E s : s = Body(s, m)}
  <1>1. 0 \in T
    <2> DEFINE s == [k \in 0 .. 0 |-> 0]
    <2>1. s = Body(s, 0)
      OBVIOUS
    <2> HIDE DEF s, Body
    <2> QED  BY <2>1
  <1>2. ASSUME NEW m \in Nat, m \in T PROVE m + 1 \in T
    <2>1. PICK g : g = Body(g, m)
      BY <1>2
    <2> DEFINE s == Body(g, m + 1)
    <2>2. \A k \in 0 .. m : s[k] = g[k]
      <3>1. \A k \in 0 .. m : g[k] = IF k = 0 THEN 0 ELSE g[k - 1] + f[k]
        BY <2>1
      <3> QED  BY <3>1
    <2>3. s = Body(s, m + 1)
      <3>1. \A k \in 0 .. (m + 1) : k # 0 => k - 1 \in 0 .. m
        OBVIOUS
      <3>2. \A k \in 0 .. (m + 1) : k # 0 => g[k - 1] + f[k] = s[k - 1] + f[k]
        <4> HIDE DEF s
        <4> QED  BY <2>2, <3>1
      <3> QED  BY <3>2, Zenon
    <2> HIDE DEF s, Body
    <2> QED  BY <2>3
  <1>3. n \in T
    <2> HIDE DEF T
    <2>1. Nat \subseteq T
      BY <1>1, <1>2, SetInduction
    <2> QED  BY <2>1
  <1> DEFINE sum == CHOOSE s : s = Body(s, n)
  <1>4. sum = Body(sum, n)
    <2> HIDE DEF Body
    <2> QED  BY <1>3, Zenon
  <1>5. SumTo(f, n) = sum[n]
    BY DEF SumTo
  <1>6. \A i \in 0 .. n : sum[i] = IF i = 0 THEN 0 ELSE sum[i - 1] + f[i]
    <2> HIDE DEF sum
    <2> QED  BY <1>4
  <1> HIDE DEF sum
  <1>7. sum[0] = 0 /\ \A i \in 1 .. n : sum[i] = sum[i - 1] + f[i]
    BY <1>6
  <1> DEFINE U == {i \in Nat : i <= n => sum[i] \in Int}
  <1>8. 0 \in U
    BY <1>7
  <1>9. ASSUME NEW i \in Nat, i \in U  PROVE i + 1 \in U
    <2> SUFFICES ASSUME i + 1 <= n  PROVE sum[i + 1] \in Int
      OBVIOUS
    <2>1. sum[i] \in Int /\ f[i + 1] \in Int /\ i + 1 \in 1 .. n /\ (i + 1) - 1 = i
      BY <1>9
    <2>2. sum[i + 1] = sum[i] + f[i + 1]
      BY <1>7, <2>1
    <2> QED  BY <2>1, <2>2
  <1>10. Nat \subseteq U
    <2> HIDE DEF U
    <2> QED  BY <1>8, <1>9, SetInduction
  <1>11. \A i \in 0 .. n : sum[i] \in Int
    BY <1>10
  <1> QED  BY <1>5, <1>7, <1>11 DEF Sums

Compared(f, g, n) ==
    n \in Nat /\ \A i \in 1 .. n : f[i] \in Int /\ g[i] \in Int /\ f[i] <= g[i]

SumsCompared(f, g, n) ==
    /\ SumTo(f, n) \in Int /\ SumTo(g, n) \in Int /\ SumTo(f, n) <= SumTo(g, n)
    /\ SumTo(f, n) = SumTo(g, n) <=> \A i \in 1 .. n : f[i] = g[i]

(* A sum of smaller terms is smaller, and equal only if all terms are.     *)
LEMMA SumsCompare ==
    ASSUME NEW n, NEW f, NEW g, Compared(f, g, n)
    PROVE  SumsCompared(f, g, n)
  <1> n \in Nat /\ \A i \in 1 .. n : f[i] \in Int /\ g[i] \in Int /\ f[i] <= g[i]
    BY DEF Compared
  <1>1. PICK a : Sums(a, f, n) /\ SumTo(f, n) = a[n]
    BY SumToIs
  <1>2. PICK b : Sums(b, g, n) /\ SumTo(g, n) = b[n]
    BY SumToIs
  <1> DEFINE U == {i \in Nat : i <= n => /\ a[i] <= b[i]
                                         /\ a[i] = b[i] <=> \A j \in 1 .. i : f[j] = g[j]}
  <1>3. 0 \in U
    BY <1>1, <1>2 DEF Sums
  <1>4. ASSUME NEW i \in Nat, i \in U  PROVE i + 1 \in U
    <2> SUFFICES ASSUME i + 1 <= n
                 PROVE  /\ a[i + 1] <= b[i + 1]
                        /\ a[i + 1] = b[i + 1] <=> \A j \in 1 .. (i + 1) : f[j] = g[j]
      OBVIOUS
    <2>1. i + 1 \in 1 .. n /\ (i + 1) - 1 = i /\ i \in 0 .. n
      OBVIOUS
    <2>2. a[i + 1] = a[i] + f[i + 1] /\ b[i + 1] = b[i] + g[i + 1]
      BY <1>1, <1>2, <2>1 DEF Sums
    <2>3. a[i] \in Int /\ b[i] \in Int /\ f[i + 1] \in Int /\ g[i + 1] \in Int /\ f[i + 1] <= g[i + 1]
      BY <1>1, <1>2, <2>1 DEF Sums
    <2>4. a[i] <= b[i] /\ (a[i] = b[i] <=> \A j \in 1 .. i : f[j] = g[j])
      BY <1>4
    <2>5. a[i + 1] = b[i + 1] <=> a[i] = b[i] /\ f[i + 1] = g[i + 1]
      BY <2>2, <2>3, <2>4
    <2>6. (\A j \in 1 .. (i + 1) : f[j] = g[j])
              <=> (\A j \in 1 .. i : f[j] = g[j]) /\ f[i + 1] = g[i + 1]
      <3>1. \A j \in 1 .. (i + 1) : j \in 1 .. i \/ j = i + 1
        OBVIOUS
      <3>2. (\A j \in 1 .. i : j \in 1 .. (i + 1)) /\ i + 1 \in 1 .. (i + 1)
        OBVIOUS
      <3> QED  BY <3>1, <3>2
    <2> QED  BY <2>2, <2>3, <2>4, <2>5, <2>6
  <1>5. n \in U
    <2>1. Nat \subseteq U
      <3> HIDE DEF U
      <3> QED  BY <1>3, <1>4, SetInduction
    <2> QED  BY <2>1
  <1>6. n \in 0 .. n
    OBVIOUS
  <1> QED  BY <1>1, <1>2, <1>5, <1>6 DEF Sums, SumsCompared

(* Terms of zero at the end do not count.                                  *)
Padded(f, n, g, m) ==
    /\ n \in Nat /\ m \in Nat /\ n <= m
    /\ \A i \in 1 .. m : g[i] \in Int
    /\ \A i \in 1 .. n : f[i] = g[i]
    /\ \A i \in (n + 1) .. m : g[i] = 0

LEMMA SumsPadded ==
    ASSUME NEW n, NEW m, NEW f, NEW g, Padded(f, n, g, m)
    PROVE  SumTo(f, n) = SumTo(g, m)
  <1> n \in Nat /\ m \in Nat /\ n <= m
    BY DEF Padded
  <1> /\ \A i \in 1 .. m : g[i] \in Int
      /\ \A i \in 1 .. n : f[i] = g[i]
      /\ \A i \in (n + 1) .. m : g[i] = 0
    BY DEF Padded
  <1>0. \A i \in 1 .. n : f[i] \in Int
    OBVIOUS
  <1>1. PICK a : Sums(a, f, n) /\ SumTo(f, n) = a[n]
    BY <1>0, SumToIs
  <1>2. PICK b : Sums(b, g, m) /\ SumTo(g, m) = b[m]
    BY SumToIs
  <1> DEFINE U == {i \in Nat : i <= m => b[i] = IF i <= n THEN a[i] ELSE a[n]}
  <1>3. 0 \in U
    BY <1>1, <1>2 DEF Sums
  <1>4. ASSUME NEW i \in Nat, i \in U  PROVE i + 1 \in U
    <2> SUFFICES ASSUME i + 1 <= m
                 PROVE  b[i + 1] = IF i + 1 <= n THEN a[i + 1] ELSE a[n]
      OBVIOUS
    <2>1. i + 1 \in 1 .. m /\ (i + 1) - 1 = i /\ i \in 0 .. m
      OBVIOUS
    <2>2. b[i + 1] = b[i] + g[i + 1] /\ b[i] \in Int
      BY <1>2, <2>1 DEF Sums
    <2>3. CASE i + 1 <= n
      <3>1. i + 1 \in 1 .. n /\ i <= n
        BY <2>3
      <3>2. a[i + 1] = a[i] + f[i + 1] /\ f[i + 1] = g[i + 1]
        BY <1>1, <2>1, <3>1 DEF Sums
      <3> QED  BY <1>4, <2>2, <2>3, <3>1, <3>2
    <2>4. CASE ~(i + 1 <= n)
      <3>1. i + 1 \in (n + 1) .. m
        BY <2>4
      <3>2. g[i + 1] = 0
        BY <3>1
      <3>3. b[i] = a[n]
        BY <1>4, <2>4
      <3> QED  BY <2>2, <2>4, <3>2, <3>3
    <2> QED  BY <2>3, <2>4
  <1>5. m \in U
    <2>1. Nat \subseteq U
      <3> HIDE DEF U
      <3> QED  BY <1>3, <1>4, SetInduction
    <2> QED  BY <2>1
  <1>6. b[m] = a[n]
    BY <1>5
  <1> QED  BY <1>1, <1>2, <1>6

-----------------------------------------------------------------------------
(* The greatest and the least of some numbers.                             *)

LEMMA GreatestIs ==
    ASSUME NEW B \in Nat, NEW S \in SUBSET (0 .. B)
    PROVE  /\ Greatest(S) \in S \cup {0} /\ Greatest(S) \in 0 .. B
           /\ \A y \in S : y <= Greatest(S)
  <1> DEFINE T == {b \in Nat : \A X \in SUBSET (0 .. b) : X # {} => \E x \in X : \A y \in X : x >= y}
  <1>1. 0 \in T
    <2> SUFFICES ASSUME NEW X \in SUBSET (0 .. 0), X # {}
                 PROVE  \E x \in X : \A y \in X : x >= y
      OBVIOUS
    <2>1. PICK x : x \in X
      OBVIOUS
    <2>2. \A y \in X : y = 0 /\ 0 >= 0
      OBVIOUS
    <2> QED  BY <2>1, <2>2
  <1>2. ASSUME NEW b \in Nat, b \in T  PROVE b + 1 \in T
    <2> SUFFICES ASSUME NEW X \in SUBSET (0 .. (b + 1)), X # {}
                 PROVE  \E x \in X : \A y \in X : x >= y
      OBVIOUS
    <2>1. CASE b + 1 \in X
      BY <2>1
    <2>2. CASE b + 1 \notin X
      <3>1. X \in SUBSET (0 .. b)
        BY <2>2
      <3> QED  BY <1>2, <3>1
    <2> QED  BY <2>1, <2>2
  <1>3. B \in T
    <2>1. Nat \subseteq T
      <3> HIDE DEF T
      <3> QED  BY <1>1, <1>2, SetInduction
    <2> QED  BY <2>1
  <1> DEFINE X == S \cup {0}
  <1>4. X \in SUBSET (0 .. B) /\ X # {}
    OBVIOUS
  <1>5. \E x \in X : \A y \in X : x >= y
    BY <1>3, <1>4
  <1>6. Max(X) \in X /\ \A y \in X : Max(X) >= y
    <2> HIDE DEF X
    <2> QED  BY <1>5, Zenon DEF Max
  <1>7. Greatest(S) = Max(X)
    BY DEF Greatest
  <1> HIDE DEF X
  <1>8. Greatest(S) \in X /\ \A y \in X : Greatest(S) >= y
    BY <1>6, <1>7
  <1>9. Greatest(S) \in 0 .. B
    BY <1>4, <1>8
  <1> QED  BY <1>4, <1>8, <1>9 DEF X

LEMMA GreatestOfZeros ==
    ASSUME NEW S, \A x \in S : x = 0
    PROVE  Greatest(S) = 0
  <1>1. S \in SUBSET (0 .. 0)
    OBVIOUS
  <1> QED  BY <1>1, GreatestIs

LEMMA MinIs ==
    ASSUME NEW S \in SUBSET Outcomes, S # {}
    PROVE  Min(S) \in S /\ \A y \in S : Min(S) <= y
  <1>1. \E x \in S : \A y \in S : x =< y
    <2>1. CASE 0 \in S
      BY <2>1 DEF Outcomes
    <2>2. CASE 0 \notin S /\ 1 \in S
      BY <2>2 DEF Outcomes
    <2>3. CASE 0 \notin S /\ 1 \notin S
      <3>1. \A x \in S : x = 2
        BY <2>3 DEF Outcomes
      <3> QED  BY <3>1
    <2> QED  BY <2>1, <2>2, <2>3
  <1> QED  BY <1>1, Zenon DEF Min

-----------------------------------------------------------------------------
(* The score types: a fraction is full just when all is correct.           *)

LEMMA HalvedIs ==
    ASSUME NEW p \in 0 .. 4, NEW o \in Outcomes
    PROVE  /\ (p * o) \div 2 \in 0 .. 4
           /\ (p * o) \div 2 = 4 <=> p = 4 /\ o = 2
  <1>1. CASE o = 0
    <2>1. p * o = 0
      BY <1>1
    <2> QED  BY <1>1, <2>1
  <1>2. CASE o = 1
    <2>1. p * o = p
      BY <1>2
    <2> QED  BY <1>2, <2>1
  <1>3. CASE o = 2
    <2>1. p * o = 2 * p
      BY <1>3
    <2>2. (2 * p) \div 2 = p
      OBVIOUS
    <2> QED  BY <1>3, <2>1, <2>2
  <1> QED  BY <1>1, <1>2, <1>3 DEF Outcomes

LEMMA ReduceMulIs ==
    ASSUME NEW os \in Seq(Outcomes)
    PROVE  /\ ReduceMul(os) \in 0 .. 4
           /\ ReduceMul(os) = 4 <=> \A i \in 1 .. Len(os) : os[i] = 2
  <1> DEFINE n == Len(os)
             Halved(p, i) == (p * os[i]) \div 2
             Body(s, m) == [i \in 0 .. m |-> IF i = 0 THEN 4 ELSE Halved(s[i - 1], i)]
             T == {m \in Nat : \E s : s = Body(s, m)}
  <1>0. n \in Nat /\ \A i \in 1 .. n : os[i] \in Outcomes
    OBVIOUS
  <1>1. 0 \in T
    <2> DEFINE s == [k \in 0 .. 0 |-> 4]
    <2>1. s = Body(s, 0)
      OBVIOUS
    <2> HIDE DEF s, Body
    <2> QED  BY <2>1
  <1>2. ASSUME NEW m \in Nat, m \in T PROVE m + 1 \in T
    <2>1. PICK g : g = Body(g, m)
      BY <1>2
    <2> DEFINE s == Body(g, m + 1)
    <2> HIDE DEF Halved
    <2>2. \A k \in 0 .. m : s[k] = g[k]
      <3>1. \A k \in 0 .. m : g[k] = IF k = 0 THEN 4 ELSE Halved(g[k - 1], k)
        BY <2>1
      <3> QED  BY <3>1
    <2>3. s = Body(s, m + 1)
      <3>1. \A k \in 0 .. (m + 1) : k # 0 => k - 1 \in 0 .. m
        OBVIOUS
      <3>2. \A k \in 0 .. (m + 1) : k # 0 => Halved(g[k - 1], k) = Halved(s[k - 1], k)
        <4> HIDE DEF s
        <4> QED  BY <2>2, <3>1
      <3> QED  BY <3>2, Zenon
    <2> HIDE DEF s, Body
    <2> QED  BY <2>3
  <1>3. n \in T
    <2> HIDE DEF T
    <2>1. Nat \subseteq T
      BY <1>1, <1>2, SetInduction
    <2> QED  BY <1>0, <2>1
  <1> DEFINE prod == CHOOSE s : s = Body(s, n)
  <1>4. prod = Body(prod, n)
    <2> HIDE DEF Body
    <2> QED  BY <1>3, Zenon
  <1>5. ReduceMul(os) = prod[n]
    BY DEF ReduceMul
  <1> HIDE DEF Halved
  <1>6. \A i \in 0 .. n : prod[i] = IF i = 0 THEN 4 ELSE Halved(prod[i - 1], i)
    <2> HIDE DEF prod
    <2> QED  BY <1>0, <1>4
  <1> HIDE DEF prod, n
  <1> DEFINE U == {i \in Nat : i <= n => /\ prod[i] \in 0 .. 4
                                         /\ prod[i] = 4 <=> \A j \in 1 .. i : os[j] = 2}
  <1>7. 0 \in U
    BY <1>0, <1>6
  <1>8. ASSUME NEW i \in Nat, i \in U  PROVE i + 1 \in U
    <2> SUFFICES ASSUME i + 1 <= n
                 PROVE  /\ prod[i + 1] \in 0 .. 4
                        /\ prod[i + 1] = 4 <=> \A j \in 1 .. (i + 1) : os[j] = 2
      OBVIOUS
    <2>1. i + 1 \in 0 .. n /\ i + 1 # 0 /\ (i + 1) - 1 = i /\ os[i + 1] \in Outcomes
      BY <1>0
    <2>2. prod[i + 1] = Halved(prod[i], i + 1)
      BY <1>6, <2>1
    <2>3. prod[i] \in 0 .. 4 /\ (prod[i] = 4 <=> \A j \in 1 .. i : os[j] = 2)
      BY <1>0, <1>8
    <2>4. /\ Halved(prod[i], i + 1) \in 0 .. 4
          /\ Halved(prod[i], i + 1) = 4 <=> prod[i] = 4 /\ os[i + 1] = 2
      BY <2>1, <2>3, HalvedIs DEF Halved
    <2>6. (\A j \in 1 .. (i + 1) : os[j] = 2) <=> (\A j \in 1 .. i : os[j] = 2) /\ os[i + 1] = 2
      <3>1. \A j \in 1 .. (i + 1) : j \in 1 .. i \/ j = i + 1
        OBVIOUS
      <3>2. (\A j \in 1 .. i : j \in 1 .. (i + 1)) /\ i + 1 \in 1 .. (i + 1)
        OBVIOUS
      <3> QED  BY <3>1, <3>2
    <2> QED  BY <2>2, <2>3, <2>4, <2>6
  <1>9. n \in U
    <2>1. Nat \subseteq U
      <3> HIDE DEF U
      <3> QED  BY <1>7, <1>8, SetInduction
    <2> QED  BY <1>0, <2>1
  <1> QED  BY <1>0, <1>5, <1>9 DEF n

LEMMA ReduceIs ==
    ASSUME NEW type \in ScoreTypes, type # "Sum", NEW os \in Seq(Outcomes), os # <<>>
    PROVE  /\ Reduce(os, type) \in 0 .. 4
           /\ Reduce(os, type) = 4 <=> \A i \in 1 .. Len(os) : IsCorrect(os[i], type)
  <1>0. Len(os) \in Nat /\ DOMAIN os = 1 .. Len(os) /\ \A i \in 1 .. Len(os) : os[i] \in Outcomes
    OBVIOUS
  <1>1. CASE type = "GroupMin"
    <2>1. Range(os) \in SUBSET Outcomes /\ Range(os) # {}
      BY <1>0 DEF Range
    <2>2. Min(Range(os)) \in Range(os) /\ \A y \in Range(os) : Min(Range(os)) <= y
      BY <2>1, MinIs
    <2>3. Min(Range(os)) \in Outcomes
      BY <2>1, <2>2
    <2>4. Reduce(os, type) = 2 * Min(Range(os))
      BY <1>1 DEF Reduce, ReduceMin
    <2>5. (Min(Range(os)) = 2) <=> \A y \in Range(os) : y >= 2
      BY <2>1, <2>2, <2>3 DEF Outcomes
    <2>6. (\A y \in Range(os) : y >= 2) <=> \A i \in 1 .. Len(os) : os[i] >= 2
      BY <1>0 DEF Range
    <2>7. \A i \in 1 .. Len(os) : IsCorrect(os[i], type) <=> os[i] >= 2
      BY <1>1 DEF IsCorrect
    <2> HIDE DEF Outcomes
    <2>8. 2 * Min(Range(os)) \in 0 .. 4 /\ (2 * Min(Range(os)) = 4 <=> Min(Range(os)) = 2)
      BY <2>3 DEF Outcomes
    <2> QED  BY <2>4, <2>5, <2>6, <2>7, <2>8
  <1>2. CASE type = "GroupMul"
    <2>1. Reduce(os, type) = ReduceMul(os)
      BY <1>2 DEF Reduce
    <2>2. \A i \in 1 .. Len(os) : IsCorrect(os[i], type) <=> os[i] = 2
      BY <1>0, <1>2 DEF IsCorrect, Outcomes
    <2> QED  BY <2>1, <2>2, ReduceMulIs
  <1>3. CASE type = "GroupThreshold"
    <2>1. Reduce(os, type) = ReduceThreshold(os)
      BY <1>3 DEF Reduce
    <2>2. \A i \in 1 .. Len(os) : IsCorrect(os[i], type) <=> 0 < os[i] /\ os[i] <= Threshold
      BY <1>3 DEF IsCorrect
    <2>3. (\A o \in Range(os) : 0 < o /\ o <= Threshold)
            <=> \A i \in 1 .. Len(os) : 0 < os[i] /\ os[i] <= Threshold
      BY <1>0 DEF Range
    <2> QED  BY <2>1, <2>2, <2>3 DEF ReduceThreshold
  <1> QED  BY <1>1, <1>2, <1>3 DEF ScoreTypes

(* What is shown as correct is correct.                                    *)
LEMMA PublicOutcomeIs ==
    ASSUME NEW o, NEW type
    PROVE  PublicOutcome(o, type) = "Correct" <=> IsCorrect(o, type)
  <1>1. CASE IsCorrect(o, type)
    BY <1>1, Zenon DEF PublicOutcome
  <1>2. CASE ~IsCorrect(o, type)
    BY <1>2, Zenon DEF PublicOutcome
  <1> QED  BY <1>1, <1>2

-----------------------------------------------------------------------------
(* The scores of a submission.                                             *)

LEMMA TestcasesAre ==
    /\ Len(Public) \in Nat /\ Testcases = 1 .. Len(Public)
    /\ \A t \in Testcases : Public[t] \in BOOLEAN
    /\ Len(Parameters) \in Nat /\ DOMAIN Parameters = 1 .. Len(Parameters)
  BY TaskScoreAssumption DEF Testcases

LEMMA TargetsAre ==
    ASSUME NEW st \in DOMAIN Parameters
    PROVE  /\ Parameters[st].max \in Nat \ {0}
           /\ Len(Targets[st]) \in Nat \ {0} /\ DOMAIN Targets[st] = 1 .. Len(Targets[st])
           /\ \A i \in 1 .. Len(Targets[st]) : Targets[st][i] \in Testcases
  <1>1. Parameters[st].max \in Nat \ {0} /\ Targets[st] \in Seq(Testcases) /\ Targets[st] # <<>>
    BY TaskScoreAssumption
  <1> HIDE DEF Targets
  <1> QED  BY <1>1

LEMMA LengthIs ==
    ASSUME NEW n \in Nat, NEW S, NEW f \in [1 .. n -> S]
    PROVE  Len(f) = n
  OBVIOUS

(* The fraction of a subtask.                                              *)
Fraction(r, st, type) == Reduce([i \in DOMAIN Targets[st] |-> r[Targets[st][i]]], type)

LEMMA FractionIs ==
    ASSUME NEW r \in [Testcases -> Outcomes], NEW st \in DOMAIN Parameters,
           NEW type \in ScoreTypes, type # "Sum"
    PROVE  /\ Fraction(r, st, type) \in 0 .. 4
           /\ Fraction(r, st, type) = 4 <=> \A t \in Range(Targets[st]) : IsCorrect(r[t], type)
  <1> DEFINE n == Len(Targets[st])
             os == [i \in DOMAIN Targets[st] |-> r[Targets[st][i]]]
  <1>1. /\ n \in Nat \ {0} /\ DOMAIN Targets[st] = 1 .. n
        /\ \A i \in 1 .. n : Targets[st][i] \in Testcases
    BY TargetsAre
  <1> HIDE DEF n
  <1>2. os \in [1 .. n -> Outcomes]
    BY <1>1
  <1>3. os \in Seq(Outcomes) /\ Len(os) = n /\ os # <<>>
    <2> HIDE DEF os
    <2> QED  BY <1>1, <1>2
  <1>4. \A i \in 1 .. n : os[i] = r[Targets[st][i]]
    BY <1>1
  <1> HIDE DEF os
  <1>5. /\ Reduce(os, type) \in 0 .. 4
        /\ Reduce(os, type) = 4 <=> \A i \in 1 .. n : IsCorrect(os[i], type)
    BY <1>3, ReduceIs
  <1>6. (\A i \in 1 .. n : IsCorrect(os[i], type))
            <=> \A t \in Range(Targets[st]) : IsCorrect(r[t], type)
    BY <1>1, <1>4 DEF Range
  <1> QED  BY <1>5, <1>6 DEF Fraction, os

(* What the subtasks of a submission count.                                *)
SubtaskPoints(r, type) == [st \in DOMAIN Parameters |-> Fraction(r, st, type) * Parameters[st].max]

LEMMA PointsAre ==
    ASSUME NEW r \in [Testcases -> Outcomes], NEW type \in ScoreTypes, type # "Sum",
           NEW st \in DOMAIN Parameters
    PROVE  /\ SubtaskPoints(r, type)[st] \in Nat
           /\ SubtaskPoints(r, type)[st] <= 4 * Parameters[st].max
           /\ SubtaskPoints(r, type)[st] = 4 * Parameters[st].max
                <=> \A t \in Range(Targets[st]) : IsCorrect(r[t], type)
  <1> DEFINE m == Parameters[st].max
             f == Fraction(r, st, type)
  <1>1. m \in Nat \ {0}
    BY TargetsAre
  <1>2. f \in 0 .. 4 /\ (f = 4 <=> \A t \in Range(Targets[st]) : IsCorrect(r[t], type))
    BY FractionIs
  <1>3. SubtaskPoints(r, type)[st] = f * m
    BY DEF SubtaskPoints
  <1> HIDE DEF f, m
  <1>4. f * m \in Nat /\ f * m <= 4 * m /\ (f * m = 4 * m <=> f = 4)
    <2>1. CASE f = 0
      BY <1>1, <2>1
    <2>2. CASE f = 1
      BY <1>1, <2>2
    <2>3. CASE f = 2
      BY <1>1, <2>3
    <2>4. CASE f = 3
      BY <1>1, <2>4
    <2>5. CASE f = 4
      BY <1>1, <2>5
    <2> QED  BY <1>2, <2>1, <2>2, <2>3, <2>4, <2>5
  <1> QED  BY <1>2, <1>3, <1>4 DEF m

PublicPoints(r, type) ==
    [st \in DOMAIN Parameters |-> IF AllPublic(Targets[st]) THEN SubtaskPoints(r, type)[st] ELSE 0]
FullDetails(r, type) == [st \in DOMAIN Parameters |-> SubtaskDetails(r, st, type)]
PublicDetails(r, type) == [st \in DOMAIN Parameters |-> PublicSubtask(r, st, type)]

(* The parts of a group score.                                             *)
LEMMA GroupScoreIs ==
    ASSUME NEW r, NEW type
    PROVE  /\ GroupScore(r, type).score = SumSeq(SubtaskPoints(r, type))
           /\ GroupScore(r, type).extra = SubtaskPoints(r, type)
           /\ GroupScore(r, type).details = FullDetails(r, type)
           /\ GroupScore(r, type).public_score = SumSeq(PublicPoints(r, type))
           /\ GroupScore(r, type).public_details = PublicDetails(r, type)
  <1> DEFINE details == FullDetails(r, type)
             score == [st \in DOMAIN details |-> details[st].fraction * details[st].max_score]
             pub == [st \in DOMAIN details |-> IF AllPublic(Targets[st]) THEN score[st] ELSE 0]
  <1>1. \A st \in DOMAIN Parameters : /\ SubtaskDetails(r, st, type).fraction = Fraction(r, st, type)
                                      /\ SubtaskDetails(r, st, type).max_score = Parameters[st].max
    BY DEF SubtaskDetails, Fraction
  <1>2. score = SubtaskPoints(r, type)
    BY <1>1 DEF SubtaskPoints, FullDetails
  <1>3. pub = PublicPoints(r, type)
    <2> HIDE DEF score
    <2> QED  BY <1>2 DEF FullDetails, PublicPoints
  <1>4. GroupScore(r, type) =
          [score |-> SumSeq(score), details |-> details, public_score |-> SumSeq(pub),
           public_details |-> PublicDetails(r, type), extra |-> score]
    BY DEF GroupScore, FullDetails, PublicDetails
  <1> HIDE DEF score, pub, details
  <1>5. /\ GroupScore(r, type).score = SumSeq(score) /\ GroupScore(r, type).extra = score
        /\ GroupScore(r, type).details = details
        /\ GroupScore(r, type).public_score = SumSeq(pub)
        /\ GroupScore(r, type).public_details = PublicDetails(r, type)
    BY <1>4
  <1> QED  BY <1>2, <1>3, <1>5 DEF details

LEMMA ComputeScoreIs ==
    ASSUME NEW r \in [Testcases -> Outcomes], NEW type \in ScoreTypes
    PROVE  /\ Evaluated(r)
           /\ ComputeScore(r, type) = IF type = "Sum" THEN SumScore(r) ELSE GroupScore(r, type)
  <1>1. Evaluated(r)
    BY TaskScoreAssumption DEF Evaluated
  <1>2. ScoreTable[type][r] = IF type = "Sum" THEN SumScore(r) ELSE GroupScore(r, type)
    BY DEF ScoreTable
  <1> QED  BY <1>1, <1>2 DEF ComputeScore

LEMMA SumScoreIs ==
    ASSUME NEW r
    PROVE  /\ SumScore(r).score = SumSeq([t \in Testcases |-> 2 * r[t]])
           /\ SumScore(r).extra = <<>>
           /\ SumScore(r).details =
                [t \in Testcases |-> [idx |-> t, outcome |-> PublicOutcome(r[t], "Sum")]]
           /\ SumScore(r).public_score =
                SumSeq([t \in Testcases |-> IF Public[t] THEN 2 * r[t] ELSE 0])
           /\ SumScore(r).public_details =
                [t \in Testcases |-> IF Public[t]
                                     THEN [idx |-> t, outcome |-> PublicOutcome(r[t], "Sum")]
                                     ELSE [idx |-> t]]
  <1> DEFINE details == [t \in Testcases |-> [idx |-> t, outcome |-> PublicOutcome(r[t], "Sum")]]
             pub == [t \in Testcases |-> IF Public[t] THEN details[t] ELSE [idx |-> t]]
             score == SumSeq([t \in Testcases |-> 2 * r[t]])
             public == SumSeq([t \in Testcases |-> IF Public[t] THEN 2 * r[t] ELSE 0])
  <1>1. SumScore(r) = [score |-> score, details |-> details, public_score |-> public,
                       public_details |-> pub, extra |-> <<>>]
    BY DEF SumScore
  <1>2. pub = [t \in Testcases |-> IF Public[t]
                                   THEN [idx |-> t, outcome |-> PublicOutcome(r[t], "Sum")]
                                   ELSE [idx |-> t]]
    OBVIOUS
  <1> HIDE DEF score, public, pub, details
  <1>3. /\ SumScore(r).score = score /\ SumScore(r).extra = <<>>
        /\ SumScore(r).details = details
        /\ SumScore(r).public_score = public
        /\ SumScore(r).public_details = pub
    BY <1>1
  <1> QED  BY <1>2, <1>3 DEF details, score, public

-----------------------------------------------------------------------------
(* Full marks.                                                             *)

(* Sums over the subtasks, or over the testcases, of terms within bounds.  *)
LEMMA SumSeqCompare ==
    ASSUME NEW n \in Nat, NEW f \in [1 .. n -> Int], NEW g \in [1 .. n -> Int],
           \A i \in 1 .. n : f[i] <= g[i]
    PROVE  /\ SumSeq(f) \in Int /\ SumSeq(g) \in Int /\ SumSeq(f) <= SumSeq(g)
           /\ SumSeq(f) = SumSeq(g) <=> \A i \in 1 .. n : f[i] = g[i]
  <1>1. Len(f) = n /\ Len(g) = n
    BY LengthIs
  <1>2. Compared(f, g, n)
    BY DEF Compared
  <1>3. /\ SumTo(f, n) \in Int /\ SumTo(g, n) \in Int /\ SumTo(f, n) <= SumTo(g, n)
        /\ SumTo(f, n) = SumTo(g, n) <=> \A i \in 1 .. n : f[i] = g[i]
    <2>1. SumsCompared(f, g, n)
      BY <1>2, SumsCompare
    <2> QED  BY <2>1, Zenon DEF SumsCompared
  <1>4. SumSeq(f) = SumTo(f, n) /\ SumSeq(g) = SumTo(g, n)
    BY <1>1 DEF SumSeq
  <1> QED  BY <1>3, <1>4

Full(c, max, counts, public, r, type) ==
    /\ c.score <= max[1] /\ c.public_score <= max[2]
    /\ (c.score = max[1]) <=> \A t \in counts : IsCorrect(r[t], type)
    /\ (c.public_score = max[2]) <=> \A t \in public : IsCorrect(r[t], type)

LEMMA SumFull ==
    ASSUME NEW r \in [Testcases -> Outcomes]
    PROVE  Full(SumScore(r), SumMaxScores, Testcases, {t \in Testcases : Public[t]}, r, "Sum")
  <1> DEFINE n == Len(Public)
             f1 == [t \in Testcases |-> 2 * r[t]]
             g1 == [t \in Testcases |-> 4]
             f2 == [t \in Testcases |-> IF Public[t] THEN 2 * r[t] ELSE 0]
             g2 == [t \in Testcases |-> IF Public[t] THEN 4 ELSE 0]
             public == {t \in Testcases : Public[t]}
  <1>1. n \in Nat /\ Testcases = 1 .. n
    BY TestcasesAre
  <1>2. \A t \in Testcases : 2 * r[t] \in Int /\ 2 * r[t] <= 4 /\ 0 <= 2 * r[t] /\ (2 * r[t] = 4 <=> IsCorrect(r[t], "Sum"))
    BY DEF Outcomes, IsCorrect
  <1>3. f1 \in [1 .. n -> Int] /\ g1 \in [1 .. n -> Int] /\ f2 \in [1 .. n -> Int] /\ g2 \in [1 .. n -> Int]
    BY <1>1, <1>2
  <1>4. \A i \in 1 .. n : f1[i] <= g1[i] /\ f2[i] <= g2[i]
    BY <1>1, <1>2
  <1>5. (\A i \in 1 .. n : f1[i] = g1[i]) <=> \A t \in Testcases : IsCorrect(r[t], "Sum")
    BY <1>1, <1>2
  <1>6. (\A i \in 1 .. n : f2[i] = g2[i]) <=> \A t \in public : IsCorrect(r[t], "Sum")
    BY <1>1, <1>2
  <1>7. SumMaxScores = <<SumSeq(g1), SumSeq(g2)>>
    BY DEF SumMaxScores
  <1>8. SumScore(r).score = SumSeq(f1) /\ SumScore(r).public_score = SumSeq(f2)
    BY SumScoreIs
  <1> HIDE DEF f1, f2, g1, g2, n
  <1>9. /\ SumSeq(f1) <= SumSeq(g1) /\ (SumSeq(f1) = SumSeq(g1) <=> \A i \in 1 .. n : f1[i] = g1[i])
        /\ SumSeq(f2) <= SumSeq(g2) /\ (SumSeq(f2) = SumSeq(g2) <=> \A i \in 1 .. n : f2[i] = g2[i])
    BY <1>1, <1>3, <1>4, SumSeqCompare
  <1>10. SumMaxScores[1] = SumSeq(g1) /\ SumMaxScores[2] = SumSeq(g2)
    BY <1>7
  <1> HIDE DEF public
  <1>11. Full(SumScore(r), SumMaxScores, Testcases, public, r, "Sum")
    BY <1>5, <1>6, <1>8, <1>9, <1>10 DEF Full
  <1> QED  BY <1>11 DEF public

LEMMA GroupFull ==
    ASSUME NEW r \in [Testcases -> Outcomes], NEW type \in ScoreTypes, type # "Sum"
    PROVE  Full(GroupScore(r, type), GroupMaxScores,
                UNION {Range(Targets[st]) : st \in DOMAIN Parameters},
                UNION {Range(Targets[st]) : st \in {i \in DOMAIN Parameters : AllPublic(Targets[i])}},
                r, type)
  <1> DEFINE n == Len(Parameters)
             points == SubtaskPoints(r, type)
             g1 == [st \in DOMAIN Parameters |-> 4 * Parameters[st].max]
             f2 == [st \in DOMAIN Parameters |-> IF AllPublic(Targets[st]) THEN points[st] ELSE 0]
             g2 == [st \in DOMAIN Parameters |->
                      IF AllPublic(Targets[st]) THEN 4 * Parameters[st].max ELSE 0]
             counts == UNION {Range(Targets[st]) : st \in DOMAIN Parameters}
             public == UNION {Range(Targets[st]) :
                                st \in {i \in DOMAIN Parameters : AllPublic(Targets[i])}}
  <1>1. n \in Nat /\ DOMAIN Parameters = 1 .. n
    BY TestcasesAre
  <1>2. \A st \in DOMAIN Parameters :
           /\ points[st] \in Nat /\ 4 * Parameters[st].max \in Nat
           /\ points[st] <= 4 * Parameters[st].max
           /\ points[st] = 4 * Parameters[st].max
                <=> \A t \in Range(Targets[st]) : IsCorrect(r[t], type)
    <2> TAKE st \in DOMAIN Parameters
    <2>1. 4 * Parameters[st].max \in Nat
      BY TargetsAre
    <2> QED  BY <2>1, PointsAre
  <1>3. points = [st \in DOMAIN Parameters |-> points[st]]
    BY DEF SubtaskPoints
  <1>9. GroupScore(r, type).score = SumSeq(points) /\ GroupScore(r, type).public_score = SumSeq(f2)
    BY GroupScoreIs DEF PublicPoints
  <1> HIDE DEF points
  <1>4. points \in [1 .. n -> Int] /\ g1 \in [1 .. n -> Int] /\ f2 \in [1 .. n -> Int] /\ g2 \in [1 .. n -> Int]
    BY <1>1, <1>2, <1>3
  <1>5. \A i \in 1 .. n : points[i] <= g1[i] /\ f2[i] <= g2[i]
    BY <1>1, <1>2
  <1>6. (\A i \in 1 .. n : points[i] = g1[i]) <=> \A t \in counts : IsCorrect(r[t], type)
    <2>1. \A i \in 1 .. n : points[i] = g1[i] <=> \A t \in Range(Targets[i]) : IsCorrect(r[t], type)
      BY <1>1, <1>2
    <2>2. (\A t \in counts : IsCorrect(r[t], type))
            <=> \A i \in 1 .. n : \A t \in Range(Targets[i]) : IsCorrect(r[t], type)
      BY <1>1, Zenon
    <2> QED  BY <2>1, <2>2
  <1>7. (\A i \in 1 .. n : f2[i] = g2[i]) <=> \A t \in public : IsCorrect(r[t], type)
    <2>1. \A i \in 1 .. n : f2[i] = g2[i] <=>
             (AllPublic(Targets[i]) => \A t \in Range(Targets[i]) : IsCorrect(r[t], type))
      BY <1>1, <1>2
    <2>2. (\A t \in public : IsCorrect(r[t], type))
            <=> \A i \in 1 .. n :
                  AllPublic(Targets[i]) => \A t \in Range(Targets[i]) : IsCorrect(r[t], type)
      BY <1>1, Zenon
    <2> QED  BY <2>1, <2>2
  <1>8. GroupMaxScores = <<SumSeq(g1), SumSeq(g2)>>
    BY DEF GroupMaxScores
  <1> HIDE DEF f2, g1, g2, n, counts, public
  <1>10. /\ SumSeq(points) <= SumSeq(g1)
         /\ SumSeq(points) = SumSeq(g1) <=> \A i \in 1 .. n : points[i] = g1[i]
         /\ SumSeq(f2) <= SumSeq(g2) /\ (SumSeq(f2) = SumSeq(g2) <=> \A i \in 1 .. n : f2[i] = g2[i])
    BY <1>1, <1>4, <1>5, SumSeqCompare
  <1>11. GroupMaxScores[1] = SumSeq(g1) /\ GroupMaxScores[2] = SumSeq(g2)
    BY <1>8
  <1>12. Full(GroupScore(r, type), GroupMaxScores, counts, public, r, type)
    BY <1>6, <1>7, <1>9, <1>10, <1>11 DEF Full
  <1> QED  BY <1>12 DEF counts, public

TaskTyped ==
    /\ score_type \in ScoreTypes
    /\ score_mode \in {"max", "max_subtask", "max_tokened_last"}
    /\ results \in [Ids -> {Missing, Unscored, Uncompiled} \cup [Testcases -> Outcomes]]
    /\ ranked \in [Ids -> {Missing, Uncompiled} \cup [Testcases -> Outcomes]]
    /\ \A s \in Ids : Scored(results[s]) => ranked[s] = results[s]

LEMMA EvaluatedIs ==
    ASSUME TaskTyped, NEW s \in Ids, Evaluated(results[s])
    PROVE  results[s] \in [Testcases -> Outcomes]
  BY DEF TaskTyped, Evaluated

LEMMA MarksAreFull ==
    ASSUME TaskTyped
    PROVE  FullMarks
  <1> SUFFICES ASSUME NEW s \in Ids, Evaluated(results[s])
               PROVE  LET c == ComputeScore(results[s], score_type)
                          max == MaxScores(score_type)
                          counts == IF score_type = "Sum" THEN Testcases
                                    ELSE UNION {Range(Targets[st]) : st \in DOMAIN Parameters}
                          public == IF score_type = "Sum" THEN {t \in Testcases : Public[t]}
                                    ELSE UNION {Range(Targets[st]) : st \in
                                                  {i \in DOMAIN Parameters : AllPublic(Targets[i])}}
                          correct(ts) == \A t \in ts :
                              PublicOutcome(results[s][t], score_type) = "Correct"
                      IN  /\ c.score <= max[1] /\ c.public_score <= max[2]
                          /\ (c.score = max[1]) <=> correct(counts)
                          /\ (c.public_score = max[2]) <=> correct(public)
    BY DEF FullMarks
  <1> DEFINE r == results[s]
             c == ComputeScore(r, score_type)
             max == MaxScores(score_type)
             counts == IF score_type = "Sum" THEN Testcases
                       ELSE UNION {Range(Targets[st]) : st \in DOMAIN Parameters}
             public == IF score_type = "Sum" THEN {t \in Testcases : Public[t]}
                       ELSE UNION {Range(Targets[st]) : st \in
                                     {i \in DOMAIN Parameters : AllPublic(Targets[i])}}
  <1>1. r \in [Testcases -> Outcomes] /\ score_type \in ScoreTypes
    BY EvaluatedIs DEF TaskTyped
  <1> HIDE DEF r
  <1>2. Full(c, max, counts, public, r, score_type)
    <2>1. CASE score_type = "Sum"
      BY <1>1, <2>1, SumFull, ComputeScoreIs DEF MaxScores
    <2>2. CASE score_type # "Sum"
      BY <1>1, <2>2, GroupFull, ComputeScoreIs DEF MaxScores
    <2> QED  BY <2>1, <2>2
  <1> HIDE DEF c, max, counts, public
  <1>3. \A t : PublicOutcome(r[t], score_type) = "Correct" <=> IsCorrect(r[t], score_type)
    BY PublicOutcomeIs
  <1>4. /\ c.score <= max[1] /\ c.public_score <= max[2]
        /\ (c.score = max[1]) <=> \A t \in counts : PublicOutcome(r[t], score_type) = "Correct"
        /\ (c.public_score = max[2]) <=> \A t \in public : PublicOutcome(r[t], score_type) = "Correct"
    BY <1>2, <1>3 DEF Full
  <1> QED  BY <1>4, Zenon DEF r, c, max, counts, public

-----------------------------------------------------------------------------
(* What is shown of the private testcases.                                 *)

(* The same outcomes on the public testcases.                              *)
SamePublic(r, q) == \A t \in Testcases : Public[t] => r[t] = q[t]

LEMMA SumPublic ==
    ASSUME NEW r, NEW q, SamePublic(r, q)
    PROVE  /\ SumScore(r).public_score = SumScore(q).public_score
           /\ SumScore(r).public_details = SumScore(q).public_details
  <1>1. [t \in Testcases |-> IF Public[t] THEN 2 * r[t] ELSE 0]
          = [t \in Testcases |-> IF Public[t] THEN 2 * q[t] ELSE 0]
    BY DEF SamePublic
  <1>2. \A t \in Testcases : Public[t] => PublicOutcome(r[t], "Sum") = PublicOutcome(q[t], "Sum")
    BY DEF SamePublic
  <1>3. [t \in Testcases |-> IF Public[t] THEN [idx |-> t, outcome |-> PublicOutcome(r[t], "Sum")]
                             ELSE [idx |-> t]]
          = [t \in Testcases |-> IF Public[t] THEN [idx |-> t, outcome |-> PublicOutcome(q[t], "Sum")]
                                 ELSE [idx |-> t]]
    BY <1>2, Zenon
  <1>4. /\ SumScore(r).public_score = SumSeq([t \in Testcases |-> IF Public[t] THEN 2 * r[t] ELSE 0])
        /\ SumScore(r).public_details = [t \in Testcases |->
              IF Public[t] THEN [idx |-> t, outcome |-> PublicOutcome(r[t], "Sum")] ELSE [idx |-> t]]
    BY SumScoreIs, Zenon
  <1>5. /\ SumScore(q).public_score = SumSeq([t \in Testcases |-> IF Public[t] THEN 2 * q[t] ELSE 0])
        /\ SumScore(q).public_details = [t \in Testcases |->
              IF Public[t] THEN [idx |-> t, outcome |-> PublicOutcome(q[t], "Sum")] ELSE [idx |-> t]]
    BY SumScoreIs, Zenon
  <1> QED  BY <1>1, <1>3, <1>4, <1>5, Zenon

LEMMA DetailsPublic ==
    ASSUME NEW r, NEW q, SamePublic(r, q), NEW st \in DOMAIN Parameters, NEW type,
           NEW i \in DOMAIN Targets[st], Public[Targets[st][i]]
    PROVE  TestcaseDetails(r, Targets[st], i, type) = TestcaseDetails(q, Targets[st], i, type)
  <1>1. /\ DOMAIN Targets[st] = 1 .. Len(Targets[st]) /\ Len(Targets[st]) \in Nat
        /\ \A j \in 1 .. Len(Targets[st]) : Targets[st][j] \in Testcases
    BY TargetsAre
  <1>2. r[Targets[st][i]] = q[Targets[st][i]]
    BY <1>1 DEF SamePublic
  <1>3. ASSUME NEW j \in 1 .. (i - 1), Public[Targets[st][j]]
        PROVE  r[Targets[st][j]] = q[Targets[st][j]]
    <2>1. j \in 1 .. Len(Targets[st])
      BY <1>1
    <2> QED  BY <1>1, <1>3, <2>1 DEF SamePublic
  <1>4. ShownInRestricted(r, Targets[st], i, type) = ShownInRestricted(q, Targets[st], i, type)
    BY <1>3 DEF ShownInRestricted
  <1> QED  BY <1>2, <1>4 DEF TestcaseDetails

LEMMA SubtaskPublic ==
    ASSUME NEW r, NEW q, SamePublic(r, q), NEW st \in DOMAIN Parameters, NEW type
    PROVE  /\ PublicSubtask(r, st, type) = PublicSubtask(q, st, type)
           /\ AllPublic(Targets[st]) => Fraction(r, st, type) = Fraction(q, st, type)
  <1> DEFINE targets == Targets[st]
             tr == [i \in DOMAIN targets |-> TestcaseDetails(r, targets, i, type)]
             tq == [i \in DOMAIN targets |-> TestcaseDetails(q, targets, i, type)]
             pr == [i \in DOMAIN tr |-> IF Public[tr[i].idx] THEN tr[i] ELSE [idx |-> tr[i].idx]]
             pq == [i \in DOMAIN tq |-> IF Public[tq[i].idx] THEN tq[i] ELSE [idx |-> tq[i].idx]]
  <1>1. /\ SubtaskDetails(r, st, type).testcases = tr
        /\ SubtaskDetails(q, st, type).testcases = tq
    BY DEF SubtaskDetails
  <1>2. \A i \in DOMAIN targets : Public[targets[i]] => tr[i] = tq[i]
    BY DetailsPublic
  <1>3. \A i \in DOMAIN targets : tr[i].idx = targets[i] /\ tq[i].idx = targets[i]
    BY DEF TestcaseDetails
  <1>4. DOMAIN tr = DOMAIN targets /\ DOMAIN tq = DOMAIN targets
    OBVIOUS
  <1>5. CASE AllPublic(targets)
    <2>1. \A i \in DOMAIN targets : Public[targets[i]] /\ targets[i] \in Testcases
      BY <1>5, TargetsAre DEF AllPublic, Range
    <2>2. tr = tq
      BY <1>2, <2>1
    <2>3. [i \in DOMAIN targets |-> r[targets[i]]] = [i \in DOMAIN targets |-> q[targets[i]]]
      BY <2>1 DEF SamePublic
    <2>4. SubtaskDetails(r, st, type) = SubtaskDetails(q, st, type)
      BY <2>2, <2>3, Zenon DEF SubtaskDetails
    <2> QED  BY <1>5, <2>3, <2>4, Zenon DEF PublicSubtask, Fraction
  <1>6. CASE ~AllPublic(targets)
    <2>1. PublicSubtask(r, st, type) = [testcases |-> pr]
      <3> HIDE DEF tr
      <3> QED  BY <1>1, <1>6, Zenon DEF PublicSubtask
    <2>2. PublicSubtask(q, st, type) = [testcases |-> pq]
      <3> HIDE DEF tq
      <3> QED  BY <1>1, <1>6, Zenon DEF PublicSubtask
    <2>3. pr = pq
      <3> HIDE DEF tr, tq
      <3>1. \A i \in DOMAIN targets :
               (IF Public[tr[i].idx] THEN tr[i] ELSE [idx |-> tr[i].idx])
               = (IF Public[tq[i].idx] THEN tq[i] ELSE [idx |-> tq[i].idx])
        BY <1>2, <1>3, Zenon
      <3> QED  BY <1>4, <3>1, Zenon
    <2> HIDE DEF pr, pq
    <2> QED  BY <1>6, <2>1, <2>2, <2>3
  <1> QED  BY <1>5, <1>6

LEMMA GroupPublic ==
    ASSUME NEW r, NEW q, SamePublic(r, q), NEW type
    PROVE  /\ GroupScore(r, type).public_score = GroupScore(q, type).public_score
           /\ GroupScore(r, type).public_details = GroupScore(q, type).public_details
  <1>1. \A st \in DOMAIN Parameters :
           (IF AllPublic(Targets[st]) THEN SubtaskPoints(r, type)[st] ELSE 0)
           = (IF AllPublic(Targets[st]) THEN SubtaskPoints(q, type)[st] ELSE 0)
    <2> TAKE st \in DOMAIN Parameters
    <2>1. AllPublic(Targets[st]) => Fraction(r, st, type) = Fraction(q, st, type)
      BY SubtaskPublic
    <2>2. AllPublic(Targets[st]) => SubtaskPoints(r, type)[st] = SubtaskPoints(q, type)[st]
      BY <2>1, Zenon DEF SubtaskPoints
    <2> QED  BY <2>2, Zenon
  <1>2. PublicPoints(r, type) = PublicPoints(q, type)
    BY <1>1, Zenon DEF PublicPoints
  <1>3. PublicDetails(r, type) = PublicDetails(q, type)
    <2>1. \A st \in DOMAIN Parameters : PublicSubtask(r, st, type) = PublicSubtask(q, st, type)
      BY SubtaskPublic
    <2> QED  BY <2>1, Zenon DEF PublicDetails
  <1> QED  BY <1>2, <1>3, GroupScoreIs

LEMMA NoLeak ==
    ASSUME TaskTyped
    PROVE  NothingLeaks
  <1> SUFFICES ASSUME NEW s \in Ids \ tokened, Evaluated(results[s]),
                      NEW r \in [Testcases -> Outcomes],
                      \A t \in Testcases : Public[t] => r[t] = results[s][t]
               PROVE  LET mine == ComputeScore(results[s], score_type)
                          other == ComputeScore(r, score_type)
                      IN  /\ mine.public_score = other.public_score
                          /\ \A level \in {"full", "restricted"} :
                               GetHtmlDetails(mine.public_details, score_type, level)
                               = GetHtmlDetails(other.public_details, score_type, level)
    BY DEF NothingLeaks
  <1>1. /\ results[s] \in [Testcases -> Outcomes] /\ score_type \in ScoreTypes
        /\ SamePublic(results[s], r)
    BY EvaluatedIs DEF TaskTyped, SamePublic
  <1>2. /\ ComputeScore(results[s], score_type).public_score = ComputeScore(r, score_type).public_score
        /\ ComputeScore(results[s], score_type).public_details
             = ComputeScore(r, score_type).public_details
    <2>1. CASE score_type = "Sum"
      BY <1>1, <2>1, ComputeScoreIs, SumPublic
    <2>2. CASE score_type # "Sum"
      BY <1>1, <2>2, ComputeScoreIs, GroupPublic
    <2> QED  BY <2>1, <2>2
  <1> QED  BY <1>2, Zenon

-----------------------------------------------------------------------------
(* Submissions without a token count as if they had scored nothing.        *)

LEMMA UncompiledIs ==
    ASSUME NEW type
    PROVE  /\ Scored(Uncompiled) /\ ~Evaluated(Uncompiled)
           /\ ComputeScore(Uncompiled, type) = Zero(type)
           /\ Zero(type).score = 0 /\ Zero(type).details = <<>>
  <1>1. Scored(Uncompiled) /\ ~Evaluated(Uncompiled)
    BY TaskScoreAssumption DEF Scored, Evaluated
  <1>2. Zero(type).score = 0 /\ Zero(type).details = <<>>
    BY DEF Zero
  <1> QED  BY <1>1, <1>2 DEF ComputeScore

LEMMA TokensCount ==
    ASSUME TaskTyped
    PROVE  OnlyTokenedCounts
  <1> DEFINE zeroed == [s \in Ids |-> IF Scored(results[s]) /\ s \notin tokened
                                      THEN Uncompiled ELSE results[s]]
             a == Entries(results, FALSE, TRUE)
             b == Entries(zeroed, FALSE, FALSE)
             K == {t \in Ids : Scored(results[t])}
             KZ == {t \in Ids : Scored(zeroed[t])}
             ea(s) == Entry(s, ComputeScore(results[s], score_type), FALSE, TRUE)
             eb(s) == Entry(s, ComputeScore(zeroed[s], score_type), FALSE, FALSE)
  <1>1. \A t \in Ids : zeroed[t] = IF Scored(results[t]) /\ t \notin tokened
                                   THEN Uncompiled ELSE results[t]
    OBVIOUS
  <1> HIDE DEF zeroed
  <1>2. K = KZ
    BY <1>1, UncompiledIs
  <1>3. ASSUME NEW s \in K  PROVE ea(s) = eb(s)
    <2>1. CASE s \in tokened
      <3>1. zeroed[s] = results[s]
        BY <1>1, <2>1
      <3>2. Hidden(s, TRUE) = FALSE /\ Hidden(s, FALSE) = FALSE
        BY <2>1 DEF Hidden
      <3> QED  BY <3>1, <3>2, Zenon DEF Entry
    <2>2. CASE s \notin tokened
      <3>1. zeroed[s] = Uncompiled
        BY <1>1, <2>2
      <3>2. Hidden(s, TRUE) /\ ~Hidden(s, FALSE)
        BY <2>2 DEF Hidden
      <3>3. /\ ComputeScore(zeroed[s], score_type).score = 0
            /\ ComputeScore(zeroed[s], score_type).details = <<>>
        BY <3>1, UncompiledIs
      <3> DEFINE c == ComputeScore(zeroed[s], score_type)
                 d == ComputeScore(results[s], score_type)
      <3>4. Entry(s, d, FALSE, TRUE) =
              [tokened |-> s \in tokened, score |-> 0, subtasks |-> SubtaskScores(0, <<>>)]
        <4> HIDE DEF d
        <4> QED  BY <3>2, Zenon DEF Entry
      <3>5. Entry(s, c, FALSE, FALSE) =
              [tokened |-> s \in tokened, score |-> c.score, subtasks |-> SubtaskScores(c.score, c.details)]
        <4> HIDE DEF c
        <4> QED  BY <3>2, Zenon DEF Entry
      <3> QED  BY <3>3, <3>4, <3>5, Zenon
    <2> QED  BY <2>1, <2>2
  <1>4. a = [s \in K |-> ea(s)] /\ b = [s \in KZ |-> eb(s)]
    BY Zenon DEF Entries
  <1> HIDE DEF a, b, ea, eb, K, KZ
  <1>5. a = b
    BY <1>2, <1>3, <1>4, Zenon
  <1>6. TaskScoreOf(a) = TaskScoreOf(b)
    BY <1>5
  <1> QED  BY <1>6, Zenon DEF OnlyTokenedCounts, ScoreOf, a, b, zeroed

-----------------------------------------------------------------------------
(* The invariant.                                                          *)

LEMMA TaskInitTyped == TaskInit => TaskTyped
  BY TaskScoreAssumption DEF TaskInit, TaskTyped, Scored

LEMMA TaskNextTyped == TaskTyped /\ [TaskNext]_taskVars => TaskTyped'
  <1> SUFFICES ASSUME TaskTyped, [TaskNext]_taskVars PROVE TaskTyped'
    OBVIOUS
  <1> DEFINE R == {Missing, Unscored, Uncompiled} \cup [Testcases -> Outcomes]
             Q == {Missing, Uncompiled} \cup [Testcases -> Outcomes]
  <1>0. /\ results \in [Ids -> R] /\ ranked \in [Ids -> Q]
        /\ \A s \in Ids : Scored(results[s]) => ranked[s] = results[s]
    BY DEF TaskTyped
  <1>1. ASSUME NEW s \in Ids, Submit(s) \/ Invalidate(s)  PROVE TaskTyped'
    <2>1. results' = [results EXCEPT ![s] = Unscored] /\ UNCHANGED <<score_type, score_mode, ranked>>
      BY <1>1 DEF Submit, Invalidate
    <2>2. results' \in [Ids -> R]
      BY <1>0, <2>1
    <2>3. \A t \in Ids : Scored(results'[t]) => ranked'[t] = results'[t]
      BY <1>0, <2>1 DEF Scored
    <2> QED  BY <1>0, <2>1, <2>2, <2>3 DEF TaskTyped
  <1>2. ASSUME NEW s \in Ids, NEW r \in {Uncompiled} \cup [Testcases -> Outcomes], Score(s, r)
        PROVE  TaskTyped'
    <2>1. /\ results' = [results EXCEPT ![s] = r] /\ ranked' = [ranked EXCEPT ![s] = r]
          /\ UNCHANGED <<score_type, score_mode>>
      BY <1>2 DEF Score
    <2>2. results' \in [Ids -> R] /\ ranked' \in [Ids -> Q]
      BY <1>0, <2>1
    <2>3. \A t \in Ids : Scored(results'[t]) => ranked'[t] = results'[t]
      BY <1>0, <2>1
    <2> QED  BY <1>0, <2>1, <2>2, <2>3 DEF TaskTyped
  <1>3. ASSUME NEW s \in Ids, PlayToken(s)  PROVE TaskTyped'
    BY <1>3 DEF PlayToken, TaskTyped, Scored
  <1>4. CASE UNCHANGED taskVars
    BY <1>4 DEF taskVars, TaskTyped, Scored
  <1> QED  BY <1>1, <1>2, <1>3, <1>4 DEF TaskNext

(* For any testcases, subtasks, outcomes and number of submissions, in any *)
(* order of scores, invalidations and tokens: a user without a token is    *)
(* shown nothing of the private testcases, his tokened score is what those *)
(* submissions alone are worth, and full marks mean that everything that   *)
(* counts is shown as correct (cms/grading/scoretypes, task_score).        *)
THEOREM ScoresStaySound == TaskSpec => []ScoresSound
  <1>1. TaskTyped => ScoresSound
    BY NoLeak, TokensCount, MarksAreFull DEF ScoresSound
  <1> QED  BY <1>1, TaskInitTyped, TaskNextTyped, PTL DEF TaskSpec

-----------------------------------------------------------------------------
(* The administrators' ranking and the scoreboard.                         *)

At(e, i) == IF i \in DOMAIN e THEN e[i] ELSE 0

(* The scores in the subtasks that are sent, e, and the ones that are      *)
(* computed, d: at most n of them, none over max, the same but for zeros.  *)
Shaped(e, d, n) ==
    /\ \E k \in 0 .. n : DOMAIN e = 1 .. k /\ Len(e) = k
    /\ \E k \in 0 .. n : DOMAIN d = 1 .. k
    /\ DOMAIN d \subseteq DOMAIN e

Within(x, max, i) == x \in 0 .. max[i]

SameSubtasks(e, d, n, max) ==
    /\ Shaped(e, d, n)
    /\ \A i \in DOMAIN e : Within(e[i], max, i) /\ e[i] = At(d, i)

LEMMA ZeroWithin ==
    ASSUME NEW max \in [Nat -> Nat], NEW i \in Nat
    PROVE  Within(0, max, i)
  BY DEF Within

(* Zeros are as good as nothing.                                           *)
LEMMA NothingComputed ==
    ASSUME NEW n \in Nat, NEW max \in [Nat -> Nat], NEW e, NEW k \in 0 .. n,
           DOMAIN e = 1 .. k, Len(e) = k, \A i \in 1 .. k : e[i] = 0
    PROVE  SameSubtasks(e, <<>>, n, max)
  <1> DEFINE d == <<>>
  <1>1. DOMAIN d = {} /\ {} = 1 .. 0 /\ 0 \in 0 .. n
    OBVIOUS
  <1> HIDE DEF d
  <1>2. Shaped(e, d, n)
    <2>1. \E j \in 0 .. n : DOMAIN d = 1 .. j
      BY <1>1, Zenon
    <2>2. DOMAIN d \subseteq DOMAIN e
      BY <1>1
    <2> QED  BY <2>1, <2>2, Zenon DEF Shaped
  <1>3. \A i \in DOMAIN e : Within(e[i], max, i) /\ e[i] = At(d, i)
    <2> TAKE i \in DOMAIN e
    <2>1. e[i] = 0 /\ i \in Nat
      OBVIOUS
    <2>2. At(d, i) = 0
      BY <1>1 DEF At
    <2> QED  BY <2>1, <2>2, ZeroWithin
  <1>4. SameSubtasks(e, d, n, max)
    BY <1>2, <1>3 DEF SameSubtasks
  <1> QED  BY <1>4 DEF d

LEMMA OneZero ==
    ASSUME NEW n \in Nat, 1 <= n, NEW max \in [Nat -> Nat]
    PROVE  SameSubtasks(<<0>>, <<>>, n, max)
  <1> DEFINE one == 1
             e == <<0>>
  <1>1. one \in 0 .. n /\ DOMAIN e = 1 .. one /\ Len(e) = one /\ \A i \in 1 .. one : e[i] = 0
    OBVIOUS
  <1> HIDE DEF one, e
  <1>2. SameSubtasks(e, <<>>, n, max)
    BY <1>1, NothingComputed
  <1> QED  BY <1>2 DEF e

LEMMA ZeroSum ==
    ASSUME NEW n \in Nat, NEW g, \A i \in 1 .. n : g[i] = 0
    PROVE  SumTo(g, n) = 0
  <1> DEFINE zero == 0
  <1>1. zero \in Nat /\ zero <= n /\ 1 .. zero = {} /\ (zero + 1) .. n = 1 .. n
    OBVIOUS
  <1> HIDE DEF zero
  <1>2. Padded(g, zero, g, n)
    BY <1>1 DEF Padded
  <1>3. SumTo(g, zero) = SumTo(g, n)
    BY <1>2, SumsPadded
  <1>4. PICK sum : Sums(sum, g, zero) /\ SumTo(g, zero) = sum[zero]
    BY <1>1, SumToIs
  <1>5. sum[0] = 0
    BY <1>4 DEF Sums
  <1> QED  BY <1>3, <1>4, <1>5 DEF zero

Computed(c) == SubtaskScores(c.score, c.details)
Sent(c) == Extra([score |-> c.score, extra |-> c.extra, token |-> FALSE])

MaximaOf(K, d) ==
    LET last == Greatest(UNION {DOMAIN d[s] : s \in K})
    IN  SumTo([idx \in 1 .. last |->
                Greatest({d[s][idx] : s \in {t \in K : idx \in DOMAIN d[t]}})], last)

(* Sums of the greatest agree.                                             *)
LEMMA SameMaxima ==
    ASSUME NEW K, NEW e, NEW d, NEW n \in Nat, NEW max \in [Nat -> Nat],
           \A s \in K : SameSubtasks(e[s], d[s], n, max)
    PROVE  SumOfMaxima({e[s] : s \in K}) = MaximaOf(K, d)
  <1> DEFINE es == {e[s] : s \in K}
             lens == {Len(x) : x \in es}
             idxs == UNION {DOMAIN d[s] : s \in K}
             m == LongestExtra(es)
             last == Greatest(idxs)
             g == [i \in 1 .. m |-> Greatest(Zipped(es, i))]
             ds(i) == {d[s][i] : s \in {t \in K : i \in DOMAIN d[t]}}
             f == [i \in 1 .. last |-> Greatest(ds(i))]
  <1>1. lens \in SUBSET (0 .. n) /\ idxs \in SUBSET (0 .. n)
    <2>1. \A s \in K : Shaped(e[s], d[s], n)
      BY DEF SameSubtasks
    <2>2. ASSUME NEW s \in K  PROVE Len(e[s]) \in 0 .. n /\ DOMAIN d[s] \in SUBSET (0 .. n)
      <3>1. PICK k \in 0 .. n : Len(e[s]) = k
        BY <2>1 DEF Shaped
      <3>2. PICK j \in 0 .. n : DOMAIN d[s] = 1 .. j
        BY <2>1 DEF Shaped
      <3>3. 1 .. j \in SUBSET (0 .. n)
        OBVIOUS
      <3> QED  BY <3>1, <3>2, <3>3
    <2> QED  BY <2>2
  <1>2. m = Greatest(lens)
    BY DEF LongestExtra
  <1>3. /\ m \in Nat /\ \A x \in lens : x <= m
        /\ last \in idxs \cup {0} /\ last \in Nat /\ \A x \in idxs : x <= last
    <2> HIDE DEF lens, idxs, m
    <2> QED  BY <1>1, <1>2, GreatestIs
  <1>4. last <= m
    <2>1. CASE last \in idxs
      <3>1. PICK s \in K : last \in DOMAIN d[s]
        BY <2>1, Zenon
      <3>2. Len(e[s]) \in lens
        OBVIOUS
      <3>3. last \in DOMAIN e[s] /\ last <= Len(e[s]) /\ Len(e[s]) \in Nat
        <4> HIDE DEF last
        <4>1. Shaped(e[s], d[s], n)
          BY DEF SameSubtasks
        <4> QED  BY <3>1, <4>1 DEF Shaped
      <3> HIDE DEF m, last, lens
      <3> QED  BY <1>3, <3>2, <3>3
    <2>2. CASE last = 0
      <3> HIDE DEF m, last
      <3> QED  BY <1>3, <2>2
    <2> QED  BY <1>3, <2>1, <2>2
  <1>5. ASSUME NEW i \in Nat \ {0}
        PROVE  /\ Zipped(es, i) = {At(e[s], i) : s \in K}
               /\ Zipped(es, i) \in SUBSET (0 .. max[i])
               /\ Zipped(es, i) \cup {0} = ds(i) \cup {0}
               /\ i > last => \A x \in Zipped(es, i) : x = 0
    <2>1. Zipped(es, i) = {At(e[s], i) : s \in K}
      BY DEF Zipped, At
    <2>2. \A s \in K : At(e[s], i) \in 0 .. max[i] /\ At(e[s], i) = At(d[s], i)
      <3> TAKE s \in K
      <3>1. /\ DOMAIN d[s] \subseteq DOMAIN e[s]
            /\ i \in DOMAIN e[s] => Within(e[s][i], max, i) /\ e[s][i] = At(d[s], i)
        BY DEF SameSubtasks, Shaped
      <3>2. CASE i \in DOMAIN e[s]
        BY <3>1, <3>2 DEF Within, At
      <3>3. CASE i \notin DOMAIN e[s]
        <4>1. At(e[s], i) = 0 /\ At(d[s], i) = 0
          BY <3>1, <3>3 DEF At
        <4> QED  BY <4>1
      <3> QED  BY <3>2, <3>3
    <2>3. \A s \in K : i \in DOMAIN d[s] => At(e[s], i) = d[s][i]
      BY <2>2 DEF At
    <2>4. \A s \in K : i \notin DOMAIN d[s] => At(e[s], i) = 0
      BY <2>2 DEF At
    <2>5. Zipped(es, i) \cup {0} = ds(i) \cup {0}
      <3>1. ASSUME NEW x \in Zipped(es, i), x # 0  PROVE x \in ds(i)
        <4>1. PICK s \in K : x = At(e[s], i)
          BY <2>1, Zenon
        <4>2. i \in DOMAIN d[s] /\ x = d[s][i]
          BY <2>3, <2>4, <3>1, <4>1
        <4> QED  BY <4>2
      <3>2. ASSUME NEW x \in ds(i)  PROVE x \in Zipped(es, i)
        <4>1. PICK s \in K : i \in DOMAIN d[s] /\ x = d[s][i]
          BY <3>2
        <4> QED  BY <2>1, <2>3, <4>1
      <3> HIDE DEF ds, es
      <3> QED  BY <3>1, <3>2
    <2>6. i > last => \A s \in K : i \notin DOMAIN d[s]
      <3>1. \A s \in K : i \in DOMAIN d[s] => i \in idxs
        BY Zenon
      <3> HIDE DEF idxs, last, m, lens
      <3> QED  BY <1>3, <3>1
    <2> HIDE DEF es, ds, last
    <2> QED  BY <2>1, <2>2, <2>4, <2>5, <2>6
  <1>6. \A i \in 1 .. m : g[i] \in Int
    <2> TAKE i \in 1 .. m
    <2>0. i \in Nat \ {0}
      <3> HIDE DEF m
      <3> QED  BY <1>3
    <2>1. Zipped(es, i) \in SUBSET (0 .. max[i])
      BY <1>5, <2>0
    <2>2. Greatest(Zipped(es, i)) \in 0 .. max[i]
      BY <2>0, <2>1, GreatestIs
    <2> QED  BY <2>2
  <1>7. \A i \in 1 .. last : f[i] = g[i]
    <2> TAKE i \in 1 .. last
    <2>1. i \in Nat \ {0} /\ i \in 1 .. m
      <3> HIDE DEF last, m
      <3> QED  BY <1>3, <1>4
    <2>2. Zipped(es, i) \cup {0} = ds(i) \cup {0}
      BY <1>5, <2>1
    <2>3. Greatest(Zipped(es, i)) = Greatest(ds(i))
      BY <2>2, Zenon DEF Greatest
    <2> HIDE DEF ds, es
    <2>4. f[i] = Greatest(ds(i)) /\ g[i] = Greatest(Zipped(es, i))
      BY <2>1
    <2> QED  BY <2>3, <2>4
  <1>8. \A i \in (last + 1) .. m : g[i] = 0
    <2> TAKE i \in (last + 1) .. m
    <2>1. i \in Nat \ {0} /\ i > last /\ i \in 1 .. m
      <3> HIDE DEF last, m
      <3> QED  BY <1>3, <1>4
    <2>2. \A x \in Zipped(es, i) : x = 0
      BY <1>5, <2>1
    <2>3. Greatest(Zipped(es, i)) = 0
      BY <2>2, GreatestOfZeros
    <2> QED  BY <2>1, <2>3
  <1>9. SumOfMaxima(es) = SumTo(g, m)
    BY DEF SumOfMaxima
  <1> HIDE DEF f, g, m, last, es, ds
  <1>10. SumTo(f, last) = SumTo(g, m)
    <2>1. Padded(f, last, g, m)
      BY <1>3, <1>4, <1>6, <1>7, <1>8 DEF Padded
    <2> QED  BY <2>1, SumsPadded
  <1>11. SumOfMaxima(es) = SumTo(f, last)
    BY <1>9, <1>10
  <1> QED  BY <1>11, Zenon DEF es, f, ds, last, MaximaOf

(* What is sent and computed of a submission.                              *)
LEMMA SentIs ==
    ASSUME NEW c
    PROVE  Sent(c) = IF c.extra = <<>> THEN <<c.score>> ELSE c.extra
  <1> DEFINE x == [score |-> c.score, extra |-> c.extra, token |-> FALSE]
  <1>1. x.score = c.score /\ x.extra = c.extra
    OBVIOUS
  <1> HIDE DEF x
  <1>2. Extra(x) = IF c.extra = <<>> THEN <<c.score>> ELSE c.extra
    BY <1>1 DEF Extra
  <1> QED  BY <1>2 DEF Sent, x

LEMMA UncompiledAgrees ==
    ASSUME NEW type \in ScoreTypes, NEW n \in Nat, NEW max \in [Nat -> Nat], 1 <= n, Len(Parameters) <= n
    PROVE  LET c == Zero(type) IN SameSubtasks(Sent(c), Computed(c), n, max)
  <1> DEFINE c == Zero(type)
             k == Len(Parameters)
  <1>1. /\ c.score = 0 /\ c.details = <<>>
        /\ c.extra = IF type = "Sum" THEN <<>> ELSE [st \in DOMAIN Parameters |-> 0]
    BY DEF Zero
  <1>2. k \in Nat /\ DOMAIN Parameters = 1 .. k
    BY TestcasesAre
  <1> HIDE DEF c, k
  <1>3. Computed(c) = <<>>
    BY <1>1 DEF Computed, SubtaskScores
  <1>4. \/ Sent(c) = <<0>>
        \/ Sent(c) = [st \in 1 .. k |-> 0]
    BY <1>1, <1>2, SentIs
  <1> DEFINE e == Sent(c)
  <1> HIDE DEF e
  <1>5. e = <<0>> => SameSubtasks(e, Computed(c), n, max)
    BY <1>3, OneZero
  <1>6. ASSUME e = [st \in 1 .. k |-> 0]  PROVE SameSubtasks(e, Computed(c), n, max)
    <2>1. DOMAIN e = 1 .. k /\ Len(e) = k /\ k \in 0 .. n /\ \A i \in DOMAIN e : e[i] = 0
      BY <1>2, <1>6 DEF k
    <2> QED  BY <1>3, <2>1, NothingComputed
  <1> QED  BY <1>4, <1>5, <1>6 DEF e, c

LEMMA SumAgrees ==
    ASSUME NEW r \in [Testcases -> Outcomes], NEW n \in Nat, 1 <= n,
           NEW max \in [Nat -> Nat], max[1] = SumMaxScores[1]
    PROVE  SameSubtasks(Sent(SumScore(r)), Computed(SumScore(r)), n, max)
  <1> DEFINE c == SumScore(r)
             score == [t \in Testcases |-> 2 * r[t]]
             zeros == [t \in Testcases |-> 0]
  <1>1. c.extra = <<>> /\ c.score = SumSeq(score)
    BY SumScoreIs
  <1>2. c.details = [t \in Testcases |-> [idx |-> t, outcome |-> PublicOutcome(r[t], "Sum")]]
    BY SumScoreIs, Zenon
  <1>3. c.score <= max[1]
    BY SumFull DEF Full
  <1>4. c.score \in Nat /\ (Testcases = {} => c.score = 0)
    <2>1. Len(Public) \in Nat /\ Testcases = 1 .. Len(Public)
      BY TestcasesAre
    <2>a. \A t \in Testcases : 2 * r[t] \in Int /\ 0 <= 2 * r[t]
      BY DEF Outcomes
    <2>2. score \in [1 .. Len(Public) -> Int] /\ zeros \in [1 .. Len(Public) -> Int]
      BY <2>1, <2>a
    <2>3. \A i \in 1 .. Len(Public) : zeros[i] <= score[i] /\ zeros[i] = 0
      BY <2>1, <2>a
    <2> HIDE DEF zeros, score
    <2>4. /\ SumSeq(zeros) \in Int /\ SumSeq(score) \in Int /\ SumSeq(zeros) <= SumSeq(score)
          /\ SumSeq(zeros) = SumSeq(score) <=> \A i \in 1 .. Len(Public) : zeros[i] = score[i]
      BY <2>1, <2>2, <2>3, SumSeqCompare
    <2>5. SumSeq(zeros) = 0
      <3>1. Len(zeros) = Len(Public)
        BY <2>1, <2>2, LengthIs
      <3> QED  BY <2>1, <2>3, <3>1, ZeroSum DEF SumSeq
    <2>6. Testcases = {} => \A i \in 1 .. Len(Public) : zeros[i] = score[i]
      BY <2>1
    <2>7. SumSeq(score) \in Nat /\ (Testcases = {} => SumSeq(score) = 0)
      <3> DEFINE z == SumSeq(zeros)
                 w == SumSeq(score)
      <3>1. z = 0 /\ w \in Int /\ z <= w
        BY <2>4, <2>5
      <3>2. Testcases = {} => z = w
        BY <2>4, <2>6
      <3> HIDE DEF z, w
      <3>3. w \in Nat /\ (Testcases = {} => w = 0)
        BY <3>1, <3>2
      <3> QED  BY <3>3 DEF w
    <2> HIDE DEF c
    <2> QED  BY <1>1, <2>7
  <1> HIDE DEF c
  <1>5. Sent(c) = <<c.score>>
    BY <1>1, SentIs
  <1>6. \/ Computed(c) = <<>> /\ c.score = 0
        \/ Computed(c) = <<c.score>>
    <2>1. CASE Testcases = {}
      <3>1. c.details = <<>>
        BY <1>2, <2>1
      <3> QED  BY <1>4, <2>1, <3>1 DEF Computed, SubtaskScores
    <2>2. CASE Testcases # {}
      <3>1. PICK t : t \in Testcases
        BY <2>2
      <3>2. DOMAIN c.details = Testcases /\ "fraction" \notin DOMAIN c.details[t]
        BY <1>2, <3>1
      <3>3. c.details # <<>>
        BY <3>1, <3>2
      <3>4. SubtaskScores(c.score, c.details) = <<c.score>>
        BY <3>1, <3>2, <3>3, Zenon DEF SubtaskScores
      <3> QED  BY <3>4 DEF Computed
    <2> QED  BY <2>1, <2>2
  <1>7. SameSubtasks(Sent(c), Computed(c), n, max)
    <2> DEFINE e == Sent(c)
               d == Computed(c)
    <2>1. DOMAIN e = 1 .. 1 /\ Len(e) = 1 /\ e[1] = c.score /\ 1 \in 0 .. n
      BY <1>5
    <2>2. DOMAIN <<>> = 1 .. 0 /\ 0 \in 0 .. n
      OBVIOUS
    <2>3. Within(e[1], max, 1)
      BY <1>3, <1>4, <2>1 DEF Within
    <2> HIDE DEF e, d
    <2>4. ASSUME d = <<>>, c.score = 0  PROVE SameSubtasks(e, d, n, max)
      BY <1>5, <2>4, OneZero DEF e
    <2>5. ASSUME d = <<c.score>>  PROVE SameSubtasks(e, d, n, max)
      <3>1. DOMAIN d = 1 .. 1 /\ d[1] = c.score
        BY <2>5
      <3> QED  BY <2>1, <2>3, <3>1 DEF SameSubtasks, Shaped, At
    <2> QED  BY <1>6, <2>4, <2>5 DEF d, e
  <1> QED  BY <1>7 DEF c

LEMMA GroupAgrees ==
    ASSUME NEW r \in [Testcases -> Outcomes], NEW type \in ScoreTypes, type # "Sum",
           NEW n \in Nat, 1 <= n, Len(Parameters) <= n, NEW max \in [Nat -> Nat],
           \A st \in DOMAIN Parameters : max[st] = 4 * Parameters[st].max
    PROVE  SameSubtasks(Sent(GroupScore(r, type)), Computed(GroupScore(r, type)), n, max)
  <1> DEFINE c == GroupScore(r, type)
             p == SubtaskPoints(r, type)
             k == Len(Parameters)
  <1>1. c.extra = p /\ c.score = SumSeq(p) /\ c.details = FullDetails(r, type)
    BY GroupScoreIs
  <1>2. k \in Nat /\ DOMAIN Parameters = 1 .. k
    BY TestcasesAre
  <1>3. DOMAIN p = 1 .. k /\ p = [st \in 1 .. k |-> p[st]]
    BY <1>2 DEF SubtaskPoints
  <1>4. \A st \in 1 .. k : Within(p[st], max, st)
    <2> TAKE st \in 1 .. k
    <2>1. st \in DOMAIN Parameters /\ max[st] = 4 * Parameters[st].max
      BY <1>2
    <2>2. p[st] \in Nat /\ p[st] <= 4 * Parameters[st].max
      BY <2>1, PointsAre
    <2>3. Parameters[st].max \in Nat
      BY <2>1, TargetsAre
    <2> HIDE DEF p
    <2> QED  BY <2>1, <2>2, <2>3 DEF Within
  <1>5. \A st \in 1 .. k : p[st] = FullDetails(r, type)[st].fraction * FullDetails(r, type)[st].max_score
    BY <1>2 DEF SubtaskPoints, FullDetails, SubtaskDetails, Fraction
  <1>6. /\ DOMAIN FullDetails(r, type) = 1 .. k
        /\ \A st \in 1 .. k : "fraction" \in DOMAIN FullDetails(r, type)[st]
    BY <1>2 DEF FullDetails, SubtaskDetails
  <1> HIDE DEF c, p, k
  <1>7. CASE k = 0
    <2>1. p = <<>> /\ FullDetails(r, type) = <<>>
      BY <1>3, <1>6, <1>7 DEF FullDetails
    <2>2. c.score = 0
      <3>1. Len(p) \in Nat /\ \A i \in 1 .. Len(p) : p[i] = 0
        BY <2>1
      <3> QED  BY <1>1, <3>1, ZeroSum DEF SumSeq
    <2>3. Sent(c) = <<0>> /\ Computed(c) = <<>>
      BY <1>1, <2>1, <2>2, SentIs DEF Computed, SubtaskScores
    <2>6. SameSubtasks(Sent(c), Computed(c), n, max)
      BY <2>3, OneZero
    <2> QED  BY <2>6 DEF c
  <1>8. CASE k # 0
    <2>1. p # <<>> /\ FullDetails(r, type) # <<>>
      <3>1. 1 \in DOMAIN p /\ 1 \in DOMAIN FullDetails(r, type)
        BY <1>2, <1>3, <1>6, <1>8
      <3>2. 1 \notin DOMAIN <<>>
        OBVIOUS
      <3> QED  BY <3>1, <3>2, Zenon
    <2>2. Sent(c) = p
      BY <1>1, <2>1, SentIs
    <2>3. Computed(c) = [st \in 1 .. k |-> FullDetails(r, type)[st].fraction
                                           * FullDetails(r, type)[st].max_score]
      BY <1>1, <1>6, <2>1, Zenon DEF Computed, SubtaskScores
    <2>4. Computed(c) = p
      BY <1>3, <1>5, <2>3
    <2>5. Len(p) = k /\ k \in 0 .. n
      BY <1>2, <1>3 DEF k
    <2>6. SameSubtasks(p, p, n, max)
      BY <1>3, <1>4, <2>5 DEF SameSubtasks, Shaped, At
    <2> QED  BY <2>2, <2>4, <2>6 DEF c
  <1> QED  BY <1>7, <1>8

(* The same for every submission that is scored.                           *)
LEMMA SubmissionAgrees ==
    ASSUME NEW type \in ScoreTypes, NEW r \in {Uncompiled} \cup [Testcases -> Outcomes],
           NEW n \in Nat, 1 <= n, Len(Parameters) <= n, NEW max \in [Nat -> Nat],
           type = "Sum" => max[1] = SumMaxScores[1],
           type # "Sum" => \A st \in DOMAIN Parameters : max[st] = 4 * Parameters[st].max
    PROVE  SameSubtasks(Sent(ComputeScore(r, type)), Computed(ComputeScore(r, type)), n, max)
  <1>1. CASE r = Uncompiled
    <2>1. ComputeScore(r, type) = Zero(type)
      BY <1>1, UncompiledIs
    <2>2. SameSubtasks(Sent(Zero(type)), Computed(Zero(type)), n, max)
      BY UncompiledAgrees
    <2> QED  BY <2>1, <2>2
  <1>2. CASE r \in [Testcases -> Outcomes] /\ type = "Sum"
    <2>1. ComputeScore(r, type) = SumScore(r)
      BY <1>2, ComputeScoreIs
    <2>2. SameSubtasks(Sent(SumScore(r)), Computed(SumScore(r)), n, max)
      BY <1>2, SumAgrees
    <2> QED  BY <2>1, <2>2
  <1>3. CASE r \in [Testcases -> Outcomes] /\ type # "Sum"
    <2>1. ComputeScore(r, type) = GroupScore(r, type)
      BY <1>3, ComputeScoreIs
    <2>2. SameSubtasks(Sent(GroupScore(r, type)), Computed(GroupScore(r, type)), n, max)
      BY <1>3, GroupAgrees
    <2> QED  BY <2>1, <2>2
  <1> QED  BY <1>1, <1>2, <1>3

(* There are such bounds.                                                  *)
Bounds(type, n, max) ==
    /\ n \in Nat /\ 1 <= n /\ Len(Parameters) <= n
    /\ max \in [Nat -> Nat]
    /\ type = "Sum" => max[1] = SumMaxScores[1]
    /\ type # "Sum" => \A st \in DOMAIN Parameters : max[st] = 4 * Parameters[st].max

LEMMA BoundsExist ==
    ASSUME NEW type
    PROVE  \E n, max : Bounds(type, n, max)
  <1> DEFINE n == Len(Parameters) + 1
             bound(i) == IF type = "Sum" THEN SumMaxScores[1]
                         ELSE IF i \in DOMAIN Parameters THEN 4 * Parameters[i].max ELSE 0
             max == [i \in Nat |-> bound(i)]
  <1>1. Len(Parameters) \in Nat /\ DOMAIN Parameters \subseteq Nat
    BY TestcasesAre
  <1>2. n \in Nat /\ 1 <= n /\ Len(Parameters) <= n
    BY <1>1
  <1>3. SumMaxScores[1] \in Nat
    <2> DEFINE fours == [t \in Testcases |-> 4]
               zeros == [t \in Testcases |-> 0]
    <2>1. Len(Public) \in Nat /\ Testcases = 1 .. Len(Public)
      BY TestcasesAre
    <2>2. fours \in [1 .. Len(Public) -> Int] /\ zeros \in [1 .. Len(Public) -> Int]
      BY <2>1
    <2>3. \A i \in 1 .. Len(Public) : zeros[i] <= fours[i] /\ zeros[i] = 0
      BY <2>1
    <2>4. SumMaxScores[1] = SumSeq(fours)
      BY DEF SumMaxScores
    <2> HIDE DEF fours, zeros
    <2>5. SumSeq(zeros) <= SumSeq(fours) /\ SumSeq(fours) \in Int
      BY <2>1, <2>2, <2>3, SumSeqCompare
    <2>6. Len(zeros) = Len(Public)
      BY <2>1, <2>2, LengthIs
    <2>7. SumSeq(zeros) = 0
      BY <2>1, <2>3, <2>6, ZeroSum DEF SumSeq
    <2> QED  BY <2>4, <2>5, <2>7
  <1>4. \A i \in DOMAIN Parameters : 4 * Parameters[i].max \in Nat
    <2> TAKE i \in DOMAIN Parameters
    <2>1. Parameters[i].max \in Nat
      BY TargetsAre
    <2> QED  BY <2>1
  <1>5. \A i \in Nat : bound(i) \in Nat
    BY <1>3, <1>4
  <1>6. max \in [Nat -> Nat] /\ \A i \in Nat : max[i] = bound(i)
    <2> HIDE DEF bound
    <2> QED  BY <1>5
  <1> HIDE DEF max, n
  <1>7. type = "Sum" => max[1] = SumMaxScores[1]
    BY <1>6
  <1>8. type # "Sum" => \A st \in DOMAIN Parameters : max[st] = 4 * Parameters[st].max
    BY <1>1, <1>6
  <1>9. Bounds(type, n, max)
    BY <1>2, <1>6, <1>7, <1>8 DEF Bounds
  <1> QED  BY <1>9

LEMMA RankingsAgree ==
    ASSUME TaskTyped
    PROVE  RankingAgrees
  <1> SUFFICES ASSUME \A s \in Ids : Scored(ranked[s]) => Scored(results[s])
               PROVE  RankingScore = ScoreOf(results, FALSE, FALSE)
    BY DEF RankingAgrees
  <1> DEFINE K == {s \in Ids : ranked[s] # Missing}
             C(s) == ComputeScore(results[s], score_type)
             a == [s \in K |-> [score |-> C(s).score, extra |-> C(s).extra, token |-> s \in tokened]]
             es == [s \in K |-> [tokened |-> s \in tokened, score |-> C(s).score,
                                 subtasks |-> Computed(C(s))]]
             e == [s \in K |-> Sent(C(s))]
             d == [s \in K |-> Computed(C(s))]
             last == IF K = {} THEN 0 ELSE Max(K)
  <1>1. \A s \in Ids : ranked[s] # Missing <=> Scored(results[s])
    BY TaskScoreAssumption DEF TaskTyped, Scored
  <1>2. \A s \in K : /\ ranked[s] = results[s]
                     /\ results[s] \in {Uncompiled} \cup [Testcases -> Outcomes]
    BY <1>1 DEF TaskTyped
  <1>3. RankingScore = ScoreNow(a, last, score_mode)
    <2> DEFINE subs == [s \in Ids |->
                          LET c == ComputeScore(ranked[s], score_type)
                          IN  [score |-> c.score, extra |-> c.extra, token |-> s \in tokened]]
    <2>1. RankingScore = ScoreNow([s \in K |-> subs[s]], last, score_mode)
      BY Zenon DEF RankingScore
    <2>2. \A s \in K : subs[s] = [score |-> C(s).score, extra |-> C(s).extra, token |-> s \in tokened]
      <3>1. \A s \in K : s \in Ids /\ ComputeScore(ranked[s], score_type) = C(s)
        BY <1>2, Zenon
      <3> QED  BY <3>1, Zenon
    <2>3. [s \in K |-> subs[s]] = a
      <3> HIDE DEF subs, C
      <3> QED  BY <2>2, Zenon
    <2> QED  BY <2>1, <2>3, Zenon
  <1>4. Entries(results, FALSE, FALSE) = es
    <2>1. {t \in Ids : Scored(results[t])} = K
      BY <1>1
    <2>2. \A s : Entry(s, C(s), FALSE, FALSE) =
             [tokened |-> s \in tokened, score |-> C(s).score, subtasks |-> Computed(C(s))]
      <3> HIDE DEF C
      <3> QED  BY Zenon DEF Entry, Hidden, Computed
    <2>3. Entries(results, FALSE, FALSE) = [s \in K |-> Entry(s, C(s), FALSE, FALSE)]
      BY <2>1, Zenon DEF Entries
    <2> HIDE DEF C, K
    <2> QED  BY <2>2, <2>3, Zenon
  <1>5. ScoreOf(results, FALSE, FALSE) = TaskScoreOf(es)
    BY <1>4, Zenon DEF ScoreOf
  <1> HIDE DEF C, K
  <1>6. /\ DOMAIN a = K /\ DOMAIN es = K
        /\ \A s \in K : /\ a[s].score = es[s].score /\ a[s].token = es[s].tokened
                        /\ Extra(a[s]) = e[s] /\ es[s].subtasks = d[s]
    <2>1. DOMAIN a = K /\ DOMAIN es = K
      OBVIOUS
    <2>2. ASSUME NEW s \in K
          PROVE  /\ a[s].score = es[s].score /\ a[s].token = es[s].tokened
                 /\ Extra(a[s]) = e[s] /\ es[s].subtasks = d[s]
      <3>1. a[s] = [score |-> C(s).score, extra |-> C(s).extra, token |-> s \in tokened]
        OBVIOUS
      <3>2. es[s] = [tokened |-> s \in tokened, score |-> C(s).score, subtasks |-> Computed(C(s))]
        OBVIOUS
      <3>3. a[s].score = C(s).score /\ a[s].extra = C(s).extra /\ a[s].token = (s \in tokened)
        BY <3>1
      <3>4. /\ es[s].score = C(s).score /\ es[s].tokened = (s \in tokened)
            /\ es[s].subtasks = Computed(C(s))
        BY <3>2
      <3> HIDE DEF a, es
      <3>5. Extra(a[s]) = Sent(C(s))
        BY <3>3, SentIs DEF Extra
      <3> QED  BY <3>3, <3>4, <3>5
    <2> QED  BY <2>1, <2>2
  <1> HIDE DEF a, es
  <1>7. CASE score_mode = "max"
    <2>1. {a[k].score : k \in DOMAIN a} = {es[s].score : s \in DOMAIN es}
      BY <1>6
    <2>2. ScoreNow(a, last, score_mode) = Greatest({a[k].score : k \in DOMAIN a})
      BY <1>7 DEF ScoreNow
    <2>3. CASE K = {}
      <3>1. \A x \in {a[k].score : k \in DOMAIN a} : x = 0
        BY <1>6, <2>3
      <3>2. TaskScoreOf(es) = 0
        BY <1>6, <2>3 DEF TaskScoreOf
      <3> QED  BY <1>3, <1>5, <2>2, <3>1, <3>2, GreatestOfZeros
    <2>4. CASE K # {}
      <3>1. TaskScoreOf(es) = Greatest({es[s].score : s \in DOMAIN es})
        BY <1>6, <1>7, <2>4 DEF TaskScoreOf, TaskScoreMax
      <3> QED  BY <1>3, <1>5, <2>1, <2>2, <3>1
    <2> QED  BY <2>3, <2>4
  <1>8. CASE score_mode = "max_tokened_last"
    <2> DEFINE ka == {j \in DOMAIN a : a[j].token \/ j = last}
               ke == {t \in DOMAIN es : t = Max(DOMAIN es) \/ es[t].tokened}
    <2>2. ScoreNow(a, last, score_mode) = Greatest({a[k].score : k \in ka})
      BY <1>8 DEF ScoreNow
    <2>3. CASE K = {}
      <3>1. \A x \in {a[k].score : k \in ka} : x = 0
        BY <1>6, <2>3
      <3>2. TaskScoreOf(es) = 0
        BY <1>6, <2>3 DEF TaskScoreOf
      <3> QED  BY <1>3, <1>5, <2>2, <3>1, <3>2, GreatestOfZeros
    <2>4. CASE K # {}
      <3>1. TaskScoreOf(es) = Greatest({es[s].score : s \in ke})
        BY <1>6, <1>8, <2>4 DEF TaskScoreOf, TaskScoreMaxTokenedLast
      <3>2. ka = ke
        <4>1. last = Max(K) /\ DOMAIN es = K /\ DOMAIN a = K
          BY <1>6, <2>4
        <4> HIDE DEF last
        <4> QED  BY <1>6, <4>1
      <3>3. {a[k].score : k \in ka} = {es[s].score : s \in ke}
        <4>1. \A k \in ka : a[k].score = es[k].score
          BY <1>6
        <4> HIDE DEF ka, ke
        <4> QED  BY <3>2, <4>1
      <3> QED  BY <1>3, <1>5, <2>2, <3>1, <3>3
    <2> QED  BY <2>3, <2>4
  <1>9. CASE score_mode = "max_subtask"
    <2> DEFINE top == Greatest(UNION {DOMAIN d[s] : s \in K})
               f == [idx \in 1 .. top |->
                       Greatest({d[s][idx] : s \in {t \in K : idx \in DOMAIN d[t]}})]
    <2>0. PICK n, max : Bounds(score_type, n, max)
      BY BoundsExist
    <2>1. /\ n \in Nat /\ 1 <= n /\ Len(Parameters) <= n /\ max \in [Nat -> Nat]
          /\ score_type = "Sum" => max[1] = SumMaxScores[1]
          /\ score_type # "Sum" =>
               \A st \in DOMAIN Parameters : max[st] = 4 * Parameters[st].max
      BY <2>0 DEF Bounds
    <2>2. \A s \in K : SameSubtasks(e[s], d[s], n, max)
      <3> TAKE s \in K
      <3>1. score_type \in ScoreTypes /\ results[s] \in {Uncompiled} \cup [Testcases -> Outcomes]
        BY <1>2 DEF TaskTyped
      <3>2. SameSubtasks(Sent(C(s)), Computed(C(s)), n, max)
        BY <2>1, <3>1, SubmissionAgrees DEF C
      <3> QED  BY <3>2
    <2> HIDE DEF e, d
    <2>3. SumOfMaxima({e[s] : s \in K}) = SumTo(f, top)
      <3>1. SumOfMaxima({e[s] : s \in K}) = MaximaOf(K, d)
        BY <2>1, <2>2, SameMaxima
      <3> QED  BY <3>1, Zenon DEF MaximaOf
    <2>4. ScoreNow(a, last, score_mode) = SumOfMaxima({e[s] : s \in K})
      <3>1. {Extra(a[k]) : k \in DOMAIN a} = {e[s] : s \in K}
        BY <1>6
      <3> QED  BY <1>9, <3>1 DEF ScoreNow
    <2>5. CASE K = {}
      <3>1. top = 0
        <4>1. \A x \in UNION {DOMAIN d[s] : s \in K} : x = 0
          BY <2>5
        <4> QED  BY <4>1, GreatestOfZeros
      <3>2. top \in Nat /\ \A i \in 1 .. top : f[i] = 0
        <4> HIDE DEF top, f
        <4> QED  BY <3>1
      <3>3. SumTo(f, top) = 0
        <4> HIDE DEF top, f
        <4> QED  BY <3>2, ZeroSum
      <3>4. TaskScoreOf(es) = 0
        BY <1>6, <2>5 DEF TaskScoreOf
      <3> QED  BY <1>3, <1>5, <2>3, <2>4, <3>3, <3>4
    <2>6. CASE K # {}
      <3>1. TaskScoreOf(es) = TaskScoreMaxSubtask(es)
        BY <1>6, <1>9, <2>6 DEF TaskScoreOf
      <3> DEFINE dom == {DOMAIN es[s].subtasks : s \in DOMAIN es}
                 with(idx) == {es[s].subtasks[idx] : s \in {t \in DOMAIN es : idx \in DOMAIN es[t].subtasks}}
                 top2 == Greatest(UNION dom)
      <3>2. TaskScoreMaxSubtask(es) = SumTo([idx \in 1 .. top2 |-> Greatest(with(idx))], top2)
        BY Zenon DEF TaskScoreMaxSubtask
      <3>3. dom = {DOMAIN d[s] : s \in K}
        BY <1>6
      <3>4. top2 = top
        BY <3>3, Zenon
      <3>5. \A idx : with(idx) = {d[s][idx] : s \in {t \in K : idx \in DOMAIN d[t]}}
        BY <1>6
      <3>6. [idx \in 1 .. top2 |-> Greatest(with(idx))] = f
        <4> HIDE DEF with, top, top2
        <4> QED  BY <3>4, <3>5, Zenon
      <3> HIDE DEF f, top, top2, with
      <3> QED  BY <1>3, <1>5, <2>3, <2>4, <3>1, <3>2, <3>4, <3>6
    <2> QED  BY <2>5, <2>6
  <1> QED  BY <1>7, <1>8, <1>9 DEF TaskTyped

(* While everything that was sent is still scored, the administrators'     *)
(* ranking (task_score) and the scoreboard (Score.append_change) give a    *)
(* user the same score, in every score mode, for every score type, any     *)
(* subtasks and number of submissions.                                     *)
THEOREM RankingsStayEqual == TaskSpec => []RankingAgrees
  <1> QED  BY RankingsAgree, TaskInitTyped, TaskNextTyped, PTL DEF TaskSpec

-----------------------------------------------------------------------------
(***************************************************************************)
(* RankingWebServer: the histories of the scores and the charts made of    *)
(* them. A Score is the replay of its list of changes, sorted by time and  *)
(* key, whatever the order in which they came (the inductive invariant,    *)
(* StoresInv); its history starts with a score that is not 0 and never     *)
(* repeats one (ScoresWell), which is what the ranks of the page rely on.  *)
(***************************************************************************)

LEMMA ImageFinite ==
    ASSUME NEW S, IsFiniteSet(S), NEW f
    PROVE  IsFiniteSet({f[x] : x \in S})
  <1> DEFINE T == {f[x] : x \in S}
             g == [x \in S |-> f[x]]
  <1>1. g \in Surjection(S, T)
    BY DEF Surjection
  <1> HIDE DEF g, T
  <1>2. IsFiniteSet(T)
    BY <1>1, FS_Surjection
  <1> QED  BY <1>2 DEF T

LEMMA GreatestOfFinite ==
    ASSUME NEW S, S \subseteq Nat, IsFiniteSet(S)
    PROVE  /\ Greatest(S) \in S \cup {0} /\ Greatest(S) \in Nat
           /\ \A y \in S : y <= Greatest(S)
  <1> DEFINE HasGreatest(X) == \E x \in X : \A y \in X : x >= y
             T == {n \in Nat : \A X \in SUBSET Nat :
                     IsFiniteSet(X) /\ X # {} /\ Cardinality(X) = n => HasGreatest(X)}
  <1>1. 0 \in T
    BY FS_EmptySet
  <1>2. ASSUME NEW n \in Nat, n \in T  PROVE n + 1 \in T
    <2> SUFFICES ASSUME NEW X \in SUBSET Nat, IsFiniteSet(X), X # {}, Cardinality(X) = n + 1
                 PROVE  HasGreatest(X)
      OBVIOUS
    <2>1. PICK a : a \in X
      OBVIOUS
    <2>2. IsFiniteSet(X \ {a}) /\ Cardinality(X \ {a}) = n
      <3>1. IsFiniteSet(X \ {a}) /\ Cardinality(X \ {a}) = Cardinality(X) - 1
        BY <2>1, FS_RemoveElement
      <3> QED  BY <3>1
    <2>3. CASE X \ {a} = {}
      BY <2>1, <2>3
    <2>4. CASE X \ {a} # {}
      <3>1. PICK b \in X \ {a} : \A y \in X \ {a} : b >= y
        BY <1>2, <2>2, <2>4
      <3>2. CASE a >= b
        BY <2>1, <3>1, <3>2
      <3>3. CASE ~(a >= b)
        BY <2>1, <3>1, <3>3
      <3> QED  BY <3>2, <3>3
    <2> QED  BY <2>3, <2>4
  <1>3. Nat \subseteq T
    <2> HIDE DEF T
    <2> QED  BY <1>1, <1>2, SetInduction
  <1> DEFINE X == S \cup {0}
  <1>4. X \in SUBSET Nat /\ X # {} /\ IsFiniteSet(X)
    BY FS_AddElement
  <1>5. Cardinality(X) \in Nat
    <2> HIDE DEF X
    <2> QED  BY <1>4, FS_CardinalityType
  <1>6. \E x \in X : \A y \in X : x >= y
    <2> HIDE DEF X
    <2> QED  BY <1>3, <1>4, <1>5
  <1>7. Max(X) \in X /\ \A y \in X : Max(X) >= y
    <2> HIDE DEF X
    <2> QED  BY <1>6, Zenon DEF Max
  <1>8. Greatest(S) = Max(X)
    BY DEF Greatest
  <1> HIDE DEF X
  <1>9. Greatest(S) \in X /\ \A y \in X : Greatest(S) >= y
    BY <1>7, <1>8
  <1>10. Greatest(S) \in Nat
    BY <1>4, <1>9
  <1> QED  BY <1>4, <1>9, <1>10 DEF X

LEMMA GreatestWithZero ==
    ASSUME NEW S
    PROVE  Greatest(S \cup {0}) = Greatest(S)
  <1>1. (S \cup {0}) \cup {0} = S \cup {0}
    OBVIOUS
  <1> QED  BY <1>1, Zenon DEF Greatest

LEMMA SumToNat ==
    ASSUME NEW n \in Nat, NEW f, \A i \in 1 .. n : f[i] \in Nat
    PROVE  SumTo(f, n) \in Nat
  <1> DEFINE Body(s, m) == [i \in 0 .. m |-> IF i = 0 THEN 0 ELSE s[i - 1] + f[i]]
             T == {m \in Nat : \E s : s = Body(s, m)}
  <1>1. 0 \in T
    <2> DEFINE s == [k \in 0 .. 0 |-> 0]
    <2>1. s = Body(s, 0)
      OBVIOUS
    <2> HIDE DEF s, Body
    <2> QED  BY <2>1
  <1>2. ASSUME NEW m \in Nat, m \in T PROVE m + 1 \in T
    <2>1. PICK g : g = Body(g, m)
      BY <1>2
    <2> DEFINE s == Body(g, m + 1)
    <2>2. \A k \in 0 .. m : s[k] = g[k]
      <3>1. \A k \in 0 .. m : g[k] = IF k = 0 THEN 0 ELSE g[k - 1] + f[k]
        BY <2>1
      <3> QED  BY <3>1
    <2>3. s = Body(s, m + 1)
      <3>1. \A k \in 0 .. (m + 1) : k # 0 => k - 1 \in 0 .. m
        OBVIOUS
      <3>2. \A k \in 0 .. (m + 1) : k # 0 => g[k - 1] + f[k] = s[k - 1] + f[k]
        <4> HIDE DEF s
        <4> QED  BY <2>2, <3>1
      <3> QED  BY <3>2, Zenon
    <2> HIDE DEF s, Body
    <2> QED  BY <2>3
  <1>3. n \in T
    <2> HIDE DEF T
    <2>1. Nat \subseteq T
      BY <1>1, <1>2, SetInduction
    <2> QED  BY <2>1
  <1> DEFINE sum == CHOOSE s : s = Body(s, n)
  <1>4. sum = Body(sum, n)
    <2> HIDE DEF Body
    <2> QED  BY <1>3, Zenon
  <1>5. SumTo(f, n) = sum[n]
    BY DEF SumTo
  <1>6. \A i \in 0 .. n : sum[i] = IF i = 0 THEN 0 ELSE sum[i - 1] + f[i]
    <2> HIDE DEF sum
    <2> QED  BY <1>4
  <1> HIDE DEF sum
  <1> DEFINE U == {i \in Nat : i <= n => sum[i] \in Nat}
  <1>7. 0 \in U
    BY <1>6
  <1>8. ASSUME NEW i \in Nat, i \in U  PROVE i + 1 \in U
    <2> SUFFICES ASSUME i + 1 <= n  PROVE sum[i + 1] \in Nat
      OBVIOUS
    <2>1. sum[i] \in Nat /\ f[i + 1] \in Nat /\ i + 1 \in 0 .. n /\ i + 1 # 0 /\ (i + 1) - 1 = i
      BY <1>8
    <2>2. sum[i + 1] = sum[i] + f[i + 1]
      BY <1>6, <2>1
    <2> QED  BY <2>1, <2>2
  <1>9. Nat \subseteq U
    <2> HIDE DEF U
    <2> QED  BY <1>7, <1>8, SetInduction
  <1> QED  BY <1>5, <1>9

-----------------------------------------------------------------------------
(* The Score that a list of changes leads to.                              *)

SubState == [score : Nat, token : BOOLEAN, extra : Seq(Nat)]
ChangeRec == [key : ChangeKeys, submission : Keys, value : Values]

LastScore(h) == IF h = <<>> THEN 0 ELSE h[Len(h)][2]

(* Every entry is a change of the score, which is 0 at first.              *)
HistoryFits(h) ==
    /\ h \in Seq(Nat \X Nat)
    /\ \A i \in 1 .. Len(h) : h[i][2] # IF i = 1 THEN 0 ELSE h[i - 1][2]

LEMMA FitsAppend ==
    ASSUME NEW h \in Seq(Nat \X Nat), NEW e \in Nat \X Nat
    PROVE  HistoryFits(Append(h, e)) <=> HistoryFits(h) /\ e[2] # LastScore(h)
  <1> DEFINE g == Append(h, e)
             Previous(l, i) == IF i = 1 THEN 0 ELSE l[i - 1][2]
  <1>1. PICK n \in Nat : n = Len(h)
    OBVIOUS
  <1>2. g \in Seq(Nat \X Nat) /\ Len(g) = n + 1 /\ g[n + 1] = e /\ \A i \in 1 .. n : g[i] = h[i]
    BY <1>1
  <1>3. h = <<>> <=> n = 0
    BY <1>1
  <1> HIDE DEF g
  <1>4. \A i \in 1 .. n : g[i][2] = h[i][2] /\ Previous(g, i) = Previous(h, i)
    <2> SUFFICES ASSUME NEW i \in 1 .. n  PROVE g[i][2] = h[i][2] /\ Previous(g, i) = Previous(h, i)
      OBVIOUS
    <2>1. i # 1 => i - 1 \in 1 .. n
      OBVIOUS
    <2> QED  BY <1>2, <2>1
  <1>5. Previous(g, n + 1) = LastScore(h)
    <2>1. CASE n = 0
      BY <1>3, <2>1 DEF LastScore
    <2>2. CASE n # 0
      <3>1. n \in 1 .. n /\ n + 1 # 1 /\ (n + 1) - 1 = n
        BY <2>2
      <3> QED  BY <1>1, <1>2, <1>3, <2>2, <3>1 DEF LastScore
    <2> QED  BY <2>1, <2>2
  <1>6. HistoryFits(g) <=> \A i \in 1 .. (n + 1) : g[i][2] # Previous(g, i)
    BY <1>2 DEF HistoryFits
  <1>7. HistoryFits(h) <=> \A i \in 1 .. n : h[i][2] # Previous(h, i)
    BY <1>1 DEF HistoryFits
  <1> HIDE DEF Previous
  <1>8. HistoryFits(g) <=> HistoryFits(h) /\ e[2] # LastScore(h)
    <2>1. \A i \in 1 .. (n + 1) : i \in 1 .. n \/ i = n + 1
      OBVIOUS
    <2>2. n + 1 \in 1 .. (n + 1) /\ \A i \in 1 .. n : i \in 1 .. (n + 1)
      OBVIOUS
    <2> QED  BY <1>2, <1>4, <1>5, <1>6, <1>7, <2>1, <2>2
  <1> QED  BY <1>8 DEF g

ScoreIs(sc, mode, D, ch) ==
    /\ sc = [mode |-> mode, submissions |-> sc.submissions, changes |-> ch,
             last |-> sc.last, history |-> sc.history]
    /\ sc.submissions \in [D -> SubState]
    /\ sc.last \in Keys \cup {0}
    /\ HistoryFits(sc.history)

(* A list of changes of the submissions D.                                 *)
ListOf(ch, D) == ch \in Seq(ChangeRec) /\ \A i \in 1 .. Len(ch) : ch[i].submission \in D

Replays(f, mode, D, ch) ==
    /\ f[0] = Fresh(mode, D, ch)
    /\ \A i \in 1 .. Len(ch) : f[i] = AppendChange(f[i - 1], ch[i])
    /\ \A i \in 0 .. Len(ch) : ScoreIs(f[i], mode, D, ch)

LEMMA ChangedTyped ==
    ASSUME NEW sub \in SubState, NEW v \in Values
    PROVE  Changed(sub, v) \in SubState
  <1>1. CASE v = Token
    BY <1>1 DEF Changed, SubState
  <1>2. CASE v # Token
    <2>1. v.score \in Nat /\ v.extra \in Seq(Nat)
      BY <1>2, RankingAssumption
    <2> QED  BY <1>2, <2>1 DEF Changed, SubState
  <1> QED  BY <1>1, <1>2

LEMMA ScoreTyped ==
    ASSUME NEW D, D \subseteq Keys, NEW subs \in [D -> SubState], NEW last, NEW mode
    PROVE  ScoreNow(subs, last, mode) \in Nat
  <1>1. IsFiniteSet(D)
    BY RankingAssumption, FS_Subset
  <1>2. \A k \in D : subs[k].score \in Nat /\ Extra(subs[k]) \in Seq(Nat)
    <2> SUFFICES ASSUME NEW k \in D  PROVE subs[k].score \in Nat /\ Extra(subs[k]) \in Seq(Nat)
      OBVIOUS
    <2>1. subs[k].score \in Nat /\ subs[k].extra \in Seq(Nat)
      BY DEF SubState
    <2> QED  BY <2>1 DEF Extra
  <1> DEFINE score == [k \in D |-> subs[k].score]
  <1>3. ASSUME NEW E, E \subseteq D  PROVE Greatest({subs[k].score : k \in E}) \in Nat
    <2>1. {subs[k].score : k \in E} = {score[k] : k \in E}
      BY <1>3
    <2>2. IsFiniteSet(E)
      BY <1>1, <1>3, FS_Subset
    <2>3. {subs[k].score : k \in E} \subseteq Nat
      BY <1>2, <1>3
    <2> HIDE DEF score
    <2>4. IsFiniteSet({subs[k].score : k \in E})
      BY <2>1, <2>2, ImageFinite
    <2> QED  BY <2>3, <2>4, GreatestOfFinite
  <1>4. CASE mode = "max"
    BY <1>3, <1>4 DEF ScoreNow
  <1>5. CASE mode = "max_subtask"
    <2> DEFINE es == {Extra(subs[k]) : k \in DOMAIN subs}
               extra == [k \in D |-> Extra(subs[k])]
               L == {Len(e) : e \in es}
               len == [e \in es |-> Len(e)]
    <2>1. es = {extra[k] : k \in D}
      OBVIOUS
    <2>2. IsFiniteSet(es)
      <3> HIDE DEF es, extra
      <3> QED  BY <1>1, <2>1, ImageFinite
    <2>3. \A e \in es : e \in Seq(Nat)
      BY <1>2
    <2> HIDE DEF es, extra
    <2>4. L = {len[e] : e \in es}
      OBVIOUS
    <2>5. IsFiniteSet(L) /\ L \subseteq Nat
      <3>1. L \subseteq Nat
        BY <2>3
      <3> HIDE DEF L, len
      <3> QED  BY <2>2, <2>4, <3>1, ImageFinite
    <2> HIDE DEF L, len
    <2>6. Greatest(L) \in Nat
      BY <2>5, GreatestOfFinite
    <2>7. PICK n \in Nat : n = LongestExtra(es)
      BY <2>6 DEF LongestExtra, L
    <2>8. ASSUME NEW i \in 1 .. n  PROVE Greatest(Zipped(es, i)) \in Nat
      <3> DEFINE z == [e \in es |-> IF i \in DOMAIN e THEN e[i] ELSE 0]
      <3>1. Zipped(es, i) = {z[e] : e \in es}
        BY DEF Zipped
      <3>2. Zipped(es, i) \subseteq Nat
        <4>1. ASSUME NEW e \in es  PROVE (IF i \in DOMAIN e THEN e[i] ELSE 0) \in Nat
          <5>1. e \in Seq(Nat)
            BY <2>3
          <5> QED  BY <5>1
        <4> QED  BY <4>1 DEF Zipped
      <3> HIDE DEF z
      <3>3. IsFiniteSet(Zipped(es, i))
        BY <2>2, <3>1, ImageFinite
      <3> QED  BY <3>2, <3>3, GreatestOfFinite
    <2> DEFINE best == [i \in 1 .. n |-> Greatest(Zipped(es, i))]
    <2>9. \A i \in 1 .. n : best[i] \in Nat
      BY <2>8
    <2>10. SumOfMaxima(es) = SumTo(best, n)
      BY <2>7, Zenon DEF SumOfMaxima
    <2> HIDE DEF best
    <2>11. SumTo(best, n) \in Nat
      BY <2>9, SumToNat
    <2>12. ScoreNow(subs, last, mode) = SumOfMaxima(es)
      BY <1>5 DEF ScoreNow, es
    <2> QED  BY <2>10, <2>11, <2>12
  <1>6. CASE mode # "max" /\ mode # "max_subtask"
    <2> DEFINE E == {j \in DOMAIN subs : subs[j].token \/ j = last}
    <2>1. E \subseteq D
      OBVIOUS
    <2>2. ScoreNow(subs, last, mode) = Greatest({subs[k].score : k \in E})
      BY <1>6 DEF ScoreNow
    <2> HIDE DEF E
    <2> QED  BY <1>3, <2>1, <2>2
  <1> QED  BY <1>4, <1>5, <1>6

LEMMA AppendTyped ==
    ASSUME NEW sc, NEW mode, NEW D, D \subseteq Keys, NEW ch, ScoreIs(sc, mode, D, ch),
           NEW c \in ChangeRec
    PROVE  ScoreIs(AppendChange(sc, c), mode, D, ch)
  <1> DEFINE s == c.submission
             subs == [sc.submissions EXCEPT ![s] = Changed(@, c.value)]
             last == LastOf(sc.last, c)
             now == ScoreNow(subs, last, sc.mode)
             hist == IF now = GetScore(sc) THEN sc.history
                     ELSE Append(sc.history, <<ChangeTime[c.key], now>>)
             new == AppendChange(sc, c)
  <1>1. sc.mode = mode /\ sc.changes = ch /\ sc.submissions \in [D -> SubState]
        /\ sc.last \in Keys \cup {0} /\ HistoryFits(sc.history)
    BY DEF ScoreIs
  <1>2. c.value \in Values /\ s \in Keys /\ c.key \in ChangeKeys
    BY DEF ChangeRec
  <1>3. s \in D => Changed(sc.submissions[s], c.value) \in SubState
    BY <1>1, <1>2, ChangedTyped
  <1>4. subs \in [D -> SubState]
    BY <1>1, <1>3
  <1>5. last \in Keys \cup {0}
    BY <1>1, <1>2 DEF LastOf
  <1>6. new = [mode |-> sc.mode, submissions |-> subs, changes |-> sc.changes, last |-> last,
               history |-> hist]
    BY DEF AppendChange
  <1>7. HistoryFits(hist)
    <2> HIDE DEF subs, last
    <2>1. now \in Nat
      BY <1>4, ScoreTyped
    <2>2. ChangeTime[c.key] \in Nat
      BY <1>2, RankingAssumption
    <2>3. CASE now = GetScore(sc)
      BY <1>1, <2>3
    <2>4. CASE now # GetScore(sc)
      <3> DEFINE e == <<ChangeTime[c.key], now>>
      <3>1. e \in Nat \X Nat /\ e[2] = now
        BY <2>1, <2>2
      <3>2. sc.history \in Seq(Nat \X Nat)
        BY <1>1 DEF HistoryFits
      <3>3. hist = Append(sc.history, e)
        BY <2>4
      <3> HIDE DEF hist, e, now
      <3>4. now # LastScore(sc.history)
        BY <2>4 DEF GetScore, LastScore
      <3>5. HistoryFits(Append(sc.history, e))
        BY <1>1, <3>1, <3>2, <3>4, FitsAppend
      <3> QED  BY <3>3, <3>5
    <2> QED  BY <2>3, <2>4
  <1> HIDE DEF subs, last, hist, new, s
  <1>8. ScoreIs(new, mode, D, ch)
    BY <1>1, <1>4, <1>5, <1>6, <1>7 DEF ScoreIs
  <1> QED  BY <1>8 DEF new

LEMMA FreshTyped ==
    ASSUME NEW mode, NEW D, NEW ch
    PROVE  ScoreIs(Fresh(mode, D, ch), mode, D, ch)
  <1>1. Blank \in SubState
    BY DEF Blank, SubState
  <1> QED  BY <1>1 DEF Fresh, ScoreIs, HistoryFits

LEMMA ReplayIs ==
    ASSUME NEW mode, NEW D, D \subseteq Keys, NEW ch \in Seq(ChangeRec)
    PROVE  \E f : Replays(f, mode, D, ch) /\ Replay(mode, D, ch) = f[Len(ch)]
  <1> DEFINE first == Fresh(mode, D, ch)
             Body(f, m) == [i \in 0 .. m |-> IF i = 0 THEN first ELSE AppendChange(f[i - 1], ch[i])]
             T == {m \in Nat : \E f : f = Body(f, m)}
  <1>0. PICK n \in Nat : n = Len(ch)
    OBVIOUS
  <1>1. 0 \in T
    <2> DEFINE f == [k \in 0 .. 0 |-> first]
    <2>1. f = Body(f, 0)
      OBVIOUS
    <2> HIDE DEF f, Body
    <2> QED  BY <2>1
  <1>2. ASSUME NEW m \in Nat, m \in T PROVE m + 1 \in T
    <2>1. PICK g : g = Body(g, m)
      BY <1>2
    <2> DEFINE f == Body(g, m + 1)
    <2>2. \A k \in 0 .. m : f[k] = g[k]
      <3>1. \A k \in 0 .. m : g[k] = IF k = 0 THEN first ELSE AppendChange(g[k - 1], ch[k])
        BY <2>1
      <3> HIDE DEF first
      <3> QED  BY <3>1
    <2>3. f = Body(f, m + 1)
      <3>1. \A k \in 0 .. (m + 1) : k # 0 => k - 1 \in 0 .. m
        OBVIOUS
      <3>2. \A k \in 0 .. (m + 1) : k # 0 => AppendChange(g[k - 1], ch[k]) = AppendChange(f[k - 1], ch[k])
        <4> HIDE DEF f
        <4> QED  BY <2>2, <3>1
      <3> QED  BY <3>2, Zenon
    <2> HIDE DEF f, Body
    <2> QED  BY <2>3
  <1>3. n \in T
    <2> HIDE DEF T
    <2>1. Nat \subseteq T
      BY <1>1, <1>2, SetInduction
    <2> QED  BY <2>1
  <1> DEFINE after == CHOOSE f : f = Body(f, n)
  <1>4. after = Body(after, n)
    <2> HIDE DEF Body
    <2> QED  BY <1>3, Zenon
  <1>5. Replay(mode, D, ch) = after[n]
    BY <1>0 DEF Replay
  <1>6. \A i \in 0 .. n : after[i] = IF i = 0 THEN first ELSE AppendChange(after[i - 1], ch[i])
    <2> HIDE DEF after, first
    <2> QED  BY <1>4
  <1> HIDE DEF after
  <1>7. after[0] = first /\ \A i \in 1 .. n : after[i] = AppendChange(after[i - 1], ch[i])
    <2> HIDE DEF first
    <2> QED  BY <1>6
  <1> DEFINE U == {i \in Nat : i <= n => ScoreIs(after[i], mode, D, ch)}
  <1>8. 0 \in U
    <2>1. ScoreIs(first, mode, D, ch)
      BY FreshTyped
    <2> QED  BY <1>7, <2>1
  <1>9. ASSUME NEW i \in Nat, i \in U  PROVE i + 1 \in U
    <2> SUFFICES ASSUME i + 1 <= n  PROVE ScoreIs(after[i + 1], mode, D, ch)
      OBVIOUS
    <2>1. ScoreIs(after[i], mode, D, ch) /\ i + 1 \in 1 .. n /\ (i + 1) - 1 = i
      BY <1>9
    <2>2. ch[i + 1] \in ChangeRec
      BY <1>0, <2>1
    <2>3. after[i + 1] = AppendChange(after[i], ch[i + 1])
      BY <1>7, <2>1
    <2> QED  BY <2>1, <2>2, <2>3, AppendTyped
  <1>10. \A i \in 0 .. n : ScoreIs(after[i], mode, D, ch)
    <2>1. Nat \subseteq U
      <3> HIDE DEF U
      <3> QED  BY <1>8, <1>9, SetInduction
    <2> QED  BY <2>1
  <1> QED  BY <1>0, <1>5, <1>7, <1>10 DEF Replays

LEMMA ReplayIsScore ==
    ASSUME NEW mode, NEW D, D \subseteq Keys, NEW ch \in Seq(ChangeRec)
    PROVE  ScoreIs(Replay(mode, D, ch), mode, D, ch)
  <1>1. PICK f : Replays(f, mode, D, ch) /\ Replay(mode, D, ch) = f[Len(ch)]
    BY ReplayIs
  <1>2. Len(ch) \in 0 .. Len(ch)
    OBVIOUS
  <1> QED  BY <1>1, <1>2 DEF Replays

LEMMA ResetReplay ==
    ASSUME NEW sc, NEW mode, NEW D, NEW ch, ScoreIs(sc, mode, D, ch)
    PROVE  ResetHistory(sc) = Replay(mode, D, ch)
  <1>1. sc.mode = mode /\ sc.changes = ch /\ sc.submissions \in [D -> SubState]
    BY DEF ScoreIs
  <1>2. DOMAIN sc.submissions = D
    BY <1>1
  <1> QED  BY <1>1, <1>2 DEF ResetHistory

LEMMA ResetWith ==
    ASSUME NEW sc, NEW mode, NEW D, NEW ch, ScoreIs(sc, mode, D, ch), NEW new
    PROVE  ResetHistory(WithChanges(sc, new)) = Replay(mode, D, new)
  <1> DEFINE w == WithChanges(sc, new)
  <1>1. sc.mode = mode /\ sc.submissions \in [D -> SubState]
    BY DEF ScoreIs
  <1>2. DOMAIN sc.submissions = D
    BY <1>1
  <1>3. w.mode = mode /\ w.submissions = sc.submissions /\ w.changes = new
    BY <1>1 DEF WithChanges
  <1> HIDE DEF w
  <1>4. ResetHistory(w) = Replay(mode, D, new)
    BY <1>2, <1>3 DEF ResetHistory
  <1> QED  BY <1>4 DEF w

LEMMA AppendWith ==
    ASSUME NEW sc, NEW mode, NEW D, NEW ch, ScoreIs(sc, mode, D, ch), NEW new, NEW c
    PROVE  AppendChange(WithChanges(sc, new), c) = WithChanges(AppendChange(sc, c), new)
  <1> DEFINE w == WithChanges(sc, new)
             a == AppendChange(sc, c)
             subs == [sc.submissions EXCEPT ![c.submission] = Changed(@, c.value)]
             last == LastOf(sc.last, c)
             now == ScoreNow(subs, last, sc.mode)
             hist == IF now = GetScore(sc) THEN sc.history
                     ELSE Append(sc.history, <<ChangeTime[c.key], now>>)
             result == [mode |-> sc.mode, submissions |-> subs, changes |-> new, last |-> last,
                        history |-> hist]
  <1>1. /\ w.mode = sc.mode /\ w.submissions = sc.submissions /\ w.changes = new
        /\ w.last = sc.last /\ w.history = sc.history
    BY DEF WithChanges
  <1>2. GetScore(w) = GetScore(sc)
    BY <1>1 DEF GetScore
  <1> HIDE DEF w
  <1>3. AppendChange(w, c) = result
    BY <1>1, <1>2 DEF AppendChange
  <1>4. a = [mode |-> sc.mode, submissions |-> subs, changes |-> sc.changes, last |-> last,
             history |-> hist]
    BY DEF AppendChange
  <1> HIDE DEF subs, last, hist, a
  <1>5. WithChanges(a, new) = result
    BY <1>4 DEF WithChanges
  <1> QED  BY <1>3, <1>5 DEF w, a

(* A change at the end need not have the history made anew.                *)
LEMMA ReplayAppend ==
    ASSUME NEW mode, NEW D, D \subseteq Keys, NEW ch, ListOf(ch, D),
           NEW c \in ChangeRec, c.submission \in D
    PROVE  /\ ListOf(Append(ch, c), D)
           /\ AppendChange(WithChanges(Replay(mode, D, ch), Append(ch, c)), c)
                = Replay(mode, D, Append(ch, c))
  <1> DEFINE new == Append(ch, c)
  <1>0. PICK n \in Nat : n = Len(ch) /\ ch \in Seq(ChangeRec)
    BY DEF ListOf
  <1>1. new \in Seq(ChangeRec) /\ Len(new) = n + 1 /\ new[n + 1] = c
        /\ \A i \in 1 .. n : new[i] = ch[i]
    BY <1>0
  <1>2. ListOf(new, D)
    <2>1. \A i \in 1 .. (n + 1) : i = n + 1 \/ i \in 1 .. n
      BY <1>0
    <2> HIDE DEF new
    <2> QED  BY <1>0, <1>1, <2>1 DEF ListOf
  <1> HIDE DEF new
  <1>3. PICK f : Replays(f, mode, D, ch) /\ Replay(mode, D, ch) = f[n]
    BY <1>0, ReplayIs
  <1>4. PICK g : Replays(g, mode, D, new) /\ Replay(mode, D, new) = g[n + 1]
    BY <1>1, <1>2, ReplayIs
  <1> DEFINE U == {i \in Nat : i <= n => g[i] = WithChanges(f[i], new)}
  <1>5. 0 \in U
    <2>1. f[0] = Fresh(mode, D, ch) /\ g[0] = Fresh(mode, D, new)
      BY <1>3, <1>4 DEF Replays
    <2>2. g[0] = WithChanges(f[0], new)
      BY <2>1 DEF Fresh, WithChanges
    <2> QED  BY <2>2
  <1>6. ASSUME NEW i \in Nat, i \in U  PROVE i + 1 \in U
    <2> SUFFICES ASSUME i + 1 <= n  PROVE g[i + 1] = WithChanges(f[i + 1], new)
      OBVIOUS
    <2>1. i + 1 \in 1 .. n /\ i + 1 \in 1 .. (n + 1) /\ (i + 1) - 1 = i /\ i \in 0 .. n
      OBVIOUS
    <2>2. f[i + 1] = AppendChange(f[i], ch[i + 1]) /\ g[i + 1] = AppendChange(g[i], new[i + 1])
      BY <1>0, <1>1, <1>3, <1>4, <2>1 DEF Replays
    <2>3. new[i + 1] = ch[i + 1] /\ g[i] = WithChanges(f[i], new) /\ ScoreIs(f[i], mode, D, ch)
      BY <1>0, <1>1, <1>3, <1>6, <2>1 DEF Replays
    <2> QED  BY <2>2, <2>3, AppendWith
  <1>7. g[n] = WithChanges(f[n], new)
    <2>1. Nat \subseteq U
      <3> HIDE DEF U
      <3> QED  BY <1>5, <1>6, SetInduction
    <2> QED  BY <2>1
  <1>8. g[n + 1] = AppendChange(g[n], c)
    <2>1. n + 1 \in 1 .. Len(new) /\ (n + 1) - 1 = n
      BY <1>1
    <2> QED  BY <1>1, <1>4, <2>1 DEF Replays
  <1>9. AppendChange(WithChanges(Replay(mode, D, ch), new), c) = Replay(mode, D, new)
    BY <1>3, <1>4, <1>7, <1>8
  <1> QED  BY <1>2, <1>9 DEF new

-----------------------------------------------------------------------------
(* A submission that has no score yet changes no score of the task.        *)

(* What a submission without a score adds to the maxima: nothing.          *)
ZeroExtra == <<0>>

LEMMA BlankInMaxima ==
    ASSUME NEW es, es # {}, IsFiniteSet(es), \A e \in es : e \in Seq(Nat) /\ e # <<>>
    PROVE  SumOfMaxima(es \cup {ZeroExtra}) = SumOfMaxima(es)
  <1> DEFINE zero == ZeroExtra
             more == es \cup {zero}
             L == {Len(e) : e \in es}
             M == {Len(e) : e \in more}
  <1>1. zero \in Seq(Nat) /\ Len(zero) = 1 /\ zero[1] = 0 /\ DOMAIN zero = {1}
    BY DEF ZeroExtra
  <1> HIDE DEF zero
  <1>2. IsFiniteSet(more)
    BY FS_AddElement
  <1>3. IsFiniteSet(L) /\ IsFiniteSet(M)
    <2> DEFINE len == [e \in more |-> Len(e)]
    <2>1. L = {len[e] : e \in es} /\ M = {len[e] : e \in more}
      OBVIOUS
    <2> HIDE DEF L, M, len, more
    <2> QED  BY <1>2, <2>1, ImageFinite
  <1>4. (\A l \in L : l \in Nat /\ l >= 1) /\ L # {} /\ M = L \cup {1}
    <2>1. \A e \in es : Len(e) \in Nat /\ Len(e) >= 1
      <3> SUFFICES ASSUME NEW e \in es  PROVE Len(e) \in Nat /\ Len(e) >= 1
        OBVIOUS
      <3>1. e \in Seq(Nat) /\ e # <<>>
        OBVIOUS
      <3> QED  BY <3>1
    <2>2. \A l \in M : l \in L \/ l = 1
      BY <1>1
    <2>3. 1 \in M
      BY <1>1
    <2>4. L \subseteq M
      OBVIOUS
    <2>5. L # {} /\ \A l \in L : l \in Nat /\ l >= 1
      BY <2>1
    <2> QED  BY <2>2, <2>3, <2>4, <2>5
  <1>5. LongestExtra(es) = Greatest(L) /\ LongestExtra(more) = Greatest(M)
    BY DEF LongestExtra
  <1> HIDE DEF L, M
  <1>6. Greatest(L) = Greatest(M)
    <2>1. L \subseteq Nat /\ M \subseteq Nat
      BY <1>4
    <2>2. Greatest(L) \in L \cup {0} /\ Greatest(L) \in Nat /\ \A y \in L : y <= Greatest(L)
      BY <1>3, <2>1, GreatestOfFinite
    <2>3. Greatest(M) \in M \cup {0} /\ Greatest(M) \in Nat /\ \A y \in M : y <= Greatest(M)
      BY <1>3, <2>1, GreatestOfFinite
    <2>4. Greatest(L) >= 1
      BY <1>4, <2>2
    <2>5. Greatest(L) \in L /\ Greatest(L) \in M
      BY <1>4, <2>2, <2>4
    <2>6. Greatest(M) \in L \/ Greatest(M) <= 1
      BY <1>4, <2>3
    <2> QED  BY <2>2, <2>3, <2>4, <2>5, <2>6
  <1>7. ASSUME NEW i \in Nat \ {0}  PROVE Greatest(Zipped(more, i)) = Greatest(Zipped(es, i))
    <2>1. (IF i \in DOMAIN zero THEN zero[i] ELSE 0) = 0
      BY <1>1
    <2>2. Zipped(more, i) = Zipped(es, i) \cup {0}
      BY <2>1 DEF Zipped
    <2> QED  BY <2>2, GreatestWithZero
  <1>8. PICK n : n = LongestExtra(es) /\ n = LongestExtra(more)
    BY <1>5, <1>6
  <1>9. [i \in 1 .. n |-> Greatest(Zipped(more, i))] = [i \in 1 .. n |-> Greatest(Zipped(es, i))]
    <2>1. \A i \in 1 .. n : i \in Nat \ {0}
      <3>1. n \in Nat
        <4>1. L \subseteq Nat
          BY <1>4
        <4> QED  BY <1>3, <1>5, <1>8, <4>1, GreatestOfFinite
      <3> QED  BY <3>1
    <2> QED  BY <1>7, <2>1
  <1>10. SumOfMaxima(more) = SumOfMaxima(es)
    BY <1>8, <1>9, Zenon DEF SumOfMaxima
  <1> QED  BY <1>10 DEF zero

WithBlank(subs, s) == [k \in DOMAIN subs \cup {s} |-> IF k = s THEN Blank ELSE subs[k]]

LEMMA BlankInScore ==
    ASSUME NEW D, D \subseteq Keys, D # {}, NEW subs \in [D -> SubState], NEW s, s \notin D,
           NEW last, NEW mode
    PROVE  ScoreNow(WithBlank(subs, s), last, mode) = ScoreNow(subs, last, mode)
  <1> DEFINE more == WithBlank(subs, s)
  <1>1. DOMAIN more = D \cup {s} /\ more[s] = Blank /\ \A k \in D : more[k] = subs[k]
    BY DEF WithBlank
  <1>2. Blank.score = 0 /\ Blank.token = FALSE /\ Extra(Blank) = ZeroExtra
    BY DEF Blank, Extra, ZeroExtra
  <1> HIDE DEF more
  <1>3. CASE mode = "max"
    <2>1. {more[k].score : k \in DOMAIN more} = {subs[k].score : k \in DOMAIN subs} \cup {0}
      BY <1>1, <1>2
    <2> QED  BY <1>3, <2>1, GreatestWithZero DEF ScoreNow, more
  <1>4. CASE mode = "max_subtask"
    <2> DEFINE es == {Extra(subs[k]) : k \in DOMAIN subs}
    <2>1. {Extra(more[k]) : k \in DOMAIN more} = es \cup {ZeroExtra}
      BY <1>1, <1>2
    <2>2. \A k \in D : Extra(subs[k]) \in Seq(Nat) /\ Extra(subs[k]) # <<>>
      <3> SUFFICES ASSUME NEW k \in D  PROVE Extra(subs[k]) \in Seq(Nat) /\ Extra(subs[k]) # <<>>
        OBVIOUS
      <3>1. subs[k].score \in Nat /\ subs[k].extra \in Seq(Nat)
        BY DEF SubState
      <3> QED  BY <3>1 DEF Extra
    <2>3. IsFiniteSet(D)
      BY RankingAssumption, FS_Subset
    <2>4. IsFiniteSet(es) /\ es # {} /\ \A e \in es : e \in Seq(Nat) /\ e # <<>>
      <3> DEFINE extra == [k \in D |-> Extra(subs[k])]
      <3>1. es = {extra[k] : k \in D}
        OBVIOUS
      <3>2. IsFiniteSet({extra[k] : k \in D})
        <4> HIDE DEF extra
        <4> QED  BY <2>3, ImageFinite
      <3>3. es # {} /\ \A e \in es : e \in Seq(Nat) /\ e # <<>>
        BY <2>2
      <3> QED  BY <3>1, <3>2, <3>3
    <2>5. SumOfMaxima(es \cup {ZeroExtra}) = SumOfMaxima(es)
      <3> HIDE DEF es
      <3> QED  BY <2>4, BlankInMaxima
    <2> QED  BY <1>4, <2>1, <2>5 DEF ScoreNow, more
  <1>5. CASE mode # "max" /\ mode # "max_subtask"
    <2> DEFINE A == {subs[k].score : k \in {j \in DOMAIN subs : subs[j].token \/ j = last}}
               B == {more[k].score : k \in {j \in DOMAIN more : more[j].token \/ j = last}}
    <2>1. B = A \/ B = A \cup {0}
      <3>1. A \subseteq B
        BY <1>1
      <3>2. \A x \in B : x \in A \/ x = 0
        BY <1>1, <1>2
      <3> QED  BY <3>1, <3>2
    <2>2. ScoreNow(subs, last, mode) = Greatest(A) /\ ScoreNow(more, last, mode) = Greatest(B)
      BY <1>5 DEF ScoreNow
    <2> HIDE DEF A, B
    <2> QED  BY <2>1, <2>2, GreatestWithZero DEF more
  <1> QED  BY <1>3, <1>4, <1>5

LEMMA AppendAdd ==
    ASSUME NEW sc, NEW mode, NEW D, NEW ch, ScoreIs(sc, mode, D, ch), D \subseteq Keys,
           NEW s, s \notin D, NEW c \in ChangeRec, c.submission \in D
    PROVE  AppendChange(AddSubmission(sc, s), c) = AddSubmission(AppendChange(sc, c), s)
  <1> DEFINE w == AddSubmission(sc, s)
             a == AppendChange(sc, c)
             t == c.submission
             subs == [sc.submissions EXCEPT ![t] = Changed(@, c.value)]
             more == [w.submissions EXCEPT ![t] = Changed(@, c.value)]
             last == LastOf(sc.last, c)
             now == ScoreNow(subs, last, sc.mode)
             hist == IF now = GetScore(sc) THEN sc.history
                     ELSE Append(sc.history, <<ChangeTime[c.key], now>>)
  <1>1. /\ w.mode = sc.mode /\ w.submissions = WithBlank(sc.submissions, s)
        /\ w.changes = sc.changes /\ w.last = sc.last /\ w.history = sc.history
    BY DEF AddSubmission, WithBlank
  <1>2. GetScore(w) = GetScore(sc)
    BY <1>1 DEF GetScore
  <1> HIDE DEF w
  <1>3. sc.submissions \in [D -> SubState] /\ t \in D /\ c.value \in Values
    BY DEF ScoreIs, ChangeRec
  <1>4. Changed(sc.submissions[t], c.value) \in SubState
    BY <1>3, ChangedTyped
  <1>5. subs \in [D -> SubState]
    BY <1>3, <1>4
  <1>6. more = WithBlank(subs, s)
    BY <1>1, <1>3 DEF WithBlank
  <1>7. AppendChange(w, c) =
           [mode |-> w.mode, submissions |-> more, changes |-> w.changes, last |-> LastOf(w.last, c),
            history |-> IF ScoreNow(more, LastOf(w.last, c), w.mode) = GetScore(w) THEN w.history
                        ELSE Append(w.history, <<ChangeTime[c.key],
                                                 ScoreNow(more, LastOf(w.last, c), w.mode)>>)]
    BY DEF AppendChange
  <1>8. ScoreNow(more, last, sc.mode) = now
    <2>1. D # {}
      BY <1>3
    <2> HIDE DEF subs, more, last
    <2> QED  BY <1>5, <1>6, <2>1, BlankInScore
  <1>9. a = [mode |-> sc.mode, submissions |-> subs, changes |-> sc.changes, last |-> last,
             history |-> hist]
    BY DEF AppendChange
  <1> HIDE DEF subs, more, a
  <1>10. AppendChange(w, c) = [mode |-> sc.mode, submissions |-> more, changes |-> sc.changes,
                               last |-> last, history |-> hist]
    BY <1>1, <1>2, <1>7, <1>8, Zenon
  <1> HIDE DEF hist, last
  <1>11. AddSubmission(a, s) = [mode |-> sc.mode, submissions |-> more, changes |-> sc.changes,
                                last |-> last, history |-> hist]
    BY <1>6, <1>9 DEF AddSubmission, WithBlank
  <1> QED  BY <1>10, <1>11 DEF w, a

LEMMA ReplayAdd ==
    ASSUME NEW mode, NEW D, D \subseteq Keys, NEW ch, ListOf(ch, D), NEW s \in Keys, s \notin D
    PROVE  /\ ListOf(ch, D \cup {s})
           /\ AddSubmission(Replay(mode, D, ch), s) = Replay(mode, D \cup {s}, ch)
  <1> DEFINE E == D \cup {s}
  <1>0. PICK n \in Nat : n = Len(ch) /\ ch \in Seq(ChangeRec)
    BY DEF ListOf
  <1>1. ListOf(ch, E) /\ E \subseteq Keys
    BY DEF ListOf
  <1>2. PICK f : Replays(f, mode, D, ch) /\ Replay(mode, D, ch) = f[n]
    BY <1>0, ReplayIs
  <1>3. PICK g : Replays(g, mode, E, ch) /\ Replay(mode, E, ch) = g[n]
    <2> HIDE DEF E
    <2> QED  BY <1>0, <1>1, ReplayIs
  <1> DEFINE U == {i \in Nat : i <= n => g[i] = AddSubmission(f[i], s)}
  <1>4. 0 \in U
    <2>1. f[0] = Fresh(mode, D, ch) /\ g[0] = Fresh(mode, E, ch)
      BY <1>2, <1>3 DEF Replays
    <2>2. g[0] = AddSubmission(f[0], s)
      <3> DEFINE old == [k \in D |-> Blank]
      <3>1. [k \in E |-> Blank] = [k \in DOMAIN old \cup {s} |-> IF k = s THEN Blank ELSE old[k]]
        OBVIOUS
      <3>2. f[0] = [mode |-> mode, submissions |-> old, changes |-> ch, last |-> 0, history |-> <<>>]
        BY <2>1 DEF Fresh
      <3> HIDE DEF old
      <3> QED  BY <2>1, <3>1, <3>2 DEF Fresh, AddSubmission
    <2> QED  BY <2>2
  <1>5. ASSUME NEW i \in Nat, i \in U  PROVE i + 1 \in U
    <2> SUFFICES ASSUME i + 1 <= n  PROVE g[i + 1] = AddSubmission(f[i + 1], s)
      OBVIOUS
    <2>1. i + 1 \in 1 .. n /\ (i + 1) - 1 = i /\ i \in 0 .. n
      OBVIOUS
    <2>2. f[i + 1] = AppendChange(f[i], ch[i + 1]) /\ g[i + 1] = AppendChange(g[i], ch[i + 1])
      BY <1>0, <1>2, <1>3, <2>1 DEF Replays
    <2>3. g[i] = AddSubmission(f[i], s) /\ ScoreIs(f[i], mode, D, ch)
      BY <1>0, <1>2, <1>5, <2>1 DEF Replays
    <2>4. ch[i + 1] \in ChangeRec /\ ch[i + 1].submission \in D
      BY <1>0, <2>1 DEF ListOf
    <2> QED  BY <2>2, <2>3, <2>4, AppendAdd
  <1>6. g[n] = AddSubmission(f[n], s)
    <2>1. Nat \subseteq U
      <3> HIDE DEF U
      <3> QED  BY <1>4, <1>5, SetInduction
    <2> QED  BY <2>1
  <1> QED  BY <1>1, <1>2, <1>3, <1>6

-----------------------------------------------------------------------------
(* The lists of changes, in order of time and key.                         *)

LEMMA BeforeOrder ==
    ASSUME NEW i \in ChangeKeys, NEW j \in ChangeKeys, NEW k \in ChangeKeys
    PROVE  /\ ~Before(i, i)
           /\ Before(i, j) => ~Before(j, i)
           /\ Before(i, j) /\ Before(j, k) => Before(i, k)
           /\ i = j \/ Before(i, j) \/ Before(j, i)
  <1>1. i \in Nat /\ j \in Nat /\ k \in Nat
    BY RankingAssumption
  <1>2. ChangeTime[i] \in Nat /\ ChangeTime[j] \in Nat /\ ChangeTime[k] \in Nat
    BY RankingAssumption
  <1> QED  BY <1>1, <1>2 DEF Before

Elements(ch) == {ch[i] : i \in 1 .. Len(ch)}

Lists(ch, M) ==
    /\ ch \in Seq(ChangeRec) /\ Elements(ch) = M
    /\ \A i, j \in 1 .. Len(ch) : i < j => Before(ch[i].key, ch[j].key)

LEMMA ListsFacts ==
    ASSUME NEW ch, NEW M, Lists(ch, M)
    PROVE  /\ Len(ch) \in Nat /\ ch = [i \in 1 .. Len(ch) |-> ch[i]]
           /\ \A i \in 1 .. Len(ch) : ch[i] \in ChangeRec /\ ch[i] \in M /\ ch[i].key \in ChangeKeys
           /\ \A c \in M : c \in ChangeRec /\ \E i \in 1 .. Len(ch) : ch[i] = c
  <1>1. ch \in Seq(ChangeRec) /\ M = {ch[i] : i \in 1 .. Len(ch)}
    BY DEF Lists, Elements
  <1>2. \A i \in 1 .. Len(ch) : ch[i] \in ChangeRec
    BY <1>1
  <1>3. \A c \in ChangeRec : c.key \in ChangeKeys
    BY DEF ChangeRec
  <1>4. Len(ch) \in Nat /\ ch = [i \in 1 .. Len(ch) |-> ch[i]]
    BY <1>1
  <1>5. \A i \in 1 .. Len(ch) : ch[i] \in M
    BY <1>1
  <1>6. \A c \in M : \E i \in 1 .. Len(ch) : ch[i] = c
    BY <1>1
  <1> QED  BY <1>2, <1>3, <1>4, <1>5, <1>6

(* There is one such list of a set of changes.                             *)
LEMMA SameLists ==
    ASSUME NEW M, NEW a, NEW b, Lists(a, M), Lists(b, M)
    PROVE  a = b
  <1>1. \A i, j \in 1 .. Len(a) : i < j => Before(a[i].key, a[j].key)
    BY DEF Lists
  <1>2. \A i, j \in 1 .. Len(b) : i < j => Before(b[i].key, b[j].key)
    BY DEF Lists
  <1>3. /\ Len(a) \in Nat /\ a = [i \in 1 .. Len(a) |-> a[i]]
        /\ \A i \in 1 .. Len(a) : a[i] \in M /\ a[i].key \in ChangeKeys
        /\ \A c \in M : \E i \in 1 .. Len(a) : a[i] = c
    BY ListsFacts
  <1>4. /\ Len(b) \in Nat /\ b = [i \in 1 .. Len(b) |-> b[i]]
        /\ \A i \in 1 .. Len(b) : b[i] \in M /\ b[i].key \in ChangeKeys
        /\ \A c \in M : \E i \in 1 .. Len(b) : b[i] = c
    BY ListsFacts
  <1> DEFINE Agree(n) == \A i \in 1 .. n : /\ i \in 1 .. Len(a) <=> i \in 1 .. Len(b)
                                           /\ i \in 1 .. Len(a) => a[i] = b[i]
             U == {n \in Nat : Agree(n)}
  <1>5. 0 \in U
    OBVIOUS
  <1>6. ASSUME NEW n \in Nat, n \in U  PROVE n + 1 \in U
    <2> DEFINE m == n + 1
    <2>0. m \in Nat /\ m >= 1 /\ \A i \in 1 .. m : i = m \/ i \in 1 .. n
      OBVIOUS
    <2>00. \A i \in 1 .. Len(a) : i < m => i \in 1 .. n
      BY <1>3
    <2>01. \A i \in 1 .. Len(b) : i < m => i \in 1 .. n
      BY <1>4
    <2>1. \A i \in 1 .. n : /\ i \in 1 .. Len(a) <=> i \in 1 .. Len(b)
                            /\ i \in 1 .. Len(a) => a[i] = b[i]
      <3>1. Agree(n)
        <4> HIDE DEF Agree
        <4> QED  BY <1>6
      <3> QED  BY <3>1
    <2> HIDE DEF m
    <2>2. ASSUME m \in 1 .. Len(a)  PROVE \E j \in 1 .. Len(b) : j >= m /\ a[m] = b[j]
      <3>1. PICK j \in 1 .. Len(b) : b[j] = a[m]
        BY <1>3, <1>4, <2>2
      <3>2. CASE j < m
        <4>1. j \in 1 .. n /\ j \in 1 .. Len(a) /\ a[j] = b[j]
          BY <2>1, <2>01, <3>2
        <4>2. Before(a[j].key, a[m].key) /\ a[m].key \in ChangeKeys
          BY <1>1, <1>3, <2>2, <3>2, <4>1
        <4> QED  BY <3>1, <4>1, <4>2, BeforeOrder
      <3> QED  BY <1>4, <2>0, <3>1, <3>2
    <2>3. ASSUME m \in 1 .. Len(b)  PROVE \E j \in 1 .. Len(a) : j >= m /\ b[m] = a[j]
      <3>1. PICK j \in 1 .. Len(a) : a[j] = b[m]
        BY <1>3, <1>4, <2>3
      <3>2. CASE j < m
        <4>1. j \in 1 .. n /\ j \in 1 .. Len(b) /\ a[j] = b[j]
          BY <2>1, <2>00, <3>2
        <4>2. Before(b[j].key, b[m].key) /\ b[m].key \in ChangeKeys
          BY <1>2, <1>4, <2>3, <3>2, <4>1
        <4> QED  BY <3>1, <4>1, <4>2, BeforeOrder
      <3> QED  BY <1>3, <2>0, <3>1, <3>2
    <2>4. m \in 1 .. Len(a) <=> m \in 1 .. Len(b)
      <3>1. m \in 1 .. Len(a) => m \in 1 .. Len(b)
        BY <1>4, <2>0, <2>2
      <3>2. m \in 1 .. Len(b) => m \in 1 .. Len(a)
        BY <1>3, <2>0, <2>3
      <3> QED  BY <3>1, <3>2
    <2>5. ASSUME m \in 1 .. Len(a)  PROVE a[m] = b[m]
      <3>1. PICK j \in 1 .. Len(b) : j >= m /\ a[m] = b[j]
        BY <2>2, <2>5
      <3>2. PICK l \in 1 .. Len(a) : l >= m /\ b[m] = a[l]
        BY <2>3, <2>4, <2>5
      <3>3. CASE j = m
        BY <3>1, <3>3
      <3>4. CASE l = m
        BY <3>2, <3>4
      <3>5. CASE j # m /\ l # m
        <4>1. m < j /\ m < l
          BY <1>3, <1>4, <2>0, <3>1, <3>2, <3>5
        <4>2. Before(b[m].key, a[m].key) /\ Before(a[m].key, b[m].key)
          BY <1>1, <1>2, <2>4, <2>5, <3>1, <3>2, <4>1
        <4>3. a[m].key \in ChangeKeys /\ b[m].key \in ChangeKeys
          BY <1>3, <1>4, <2>4, <2>5
        <4> QED  BY <4>2, <4>3, BeforeOrder
      <3> QED  BY <3>3, <3>4, <3>5
    <2>6. m \in U
      <3>1. Agree(m)
        BY <2>0, <2>1, <2>4, <2>5
      <3> HIDE DEF Agree
      <3> QED  BY <2>0, <3>1
    <2> QED  BY <2>6 DEF m
  <1>7. Nat \subseteq U
    <2> HIDE DEF U
    <2> QED  BY <1>5, <1>6, SetInduction
  <1>8. \A i \in 1 .. Len(a) : i \in 1 .. Len(b) /\ a[i] = b[i]
    <2>1. Agree(Len(a))
      <3> HIDE DEF Agree
      <3> QED  BY <1>3, <1>7
    <2> QED  BY <2>1
  <1>9. \A i \in 1 .. Len(b) : i \in 1 .. Len(a)
    <2>1. Agree(Len(b))
      <3> HIDE DEF Agree
      <3> QED  BY <1>4, <1>7
    <2> QED  BY <2>1
  <1>10. Len(a) = Len(b)
    <2>1. Len(a) <= Len(b)
      <3>1. CASE Len(a) = 0
        BY <1>4, <3>1
      <3>2. CASE Len(a) # 0
        BY <1>3, <1>4, <1>8, <3>2
      <3> QED  BY <3>1, <3>2
    <2>2. Len(b) <= Len(a)
      <3>1. CASE Len(b) = 0
        BY <1>3, <3>1
      <3>2. CASE Len(b) # 0
        BY <1>3, <1>4, <1>9, <3>2
      <3> QED  BY <3>1, <3>2
    <2>3. Len(a) \in Nat /\ Len(b) \in Nat
      BY <1>3, <1>4
    <2> QED  BY <2>1, <2>2, <2>3
  <1> QED  BY <1>3, <1>4, <1>8, <1>10

LEMMA ListsEmpty == Lists(<<>>, {})
  <1>1. <<>> \in Seq(ChangeRec) /\ Len(<<>>) = 0 /\ \A i \in 1 .. 0 : FALSE
    OBVIOUS
  <1>2. Elements(<<>>) = {}
    BY <1>1 DEF Elements
  <1> QED  BY <1>1, <1>2 DEF Lists

LEMMA ListsAppend ==
    ASSUME NEW ch, NEW M, Lists(ch, M), NEW c \in ChangeRec, \A x \in M : Before(x.key, c.key)
    PROVE  Lists(Append(ch, c), M \cup {c})
  <1> DEFINE new == Append(ch, c)
  <1>1. PICK n \in Nat : n = Len(ch) /\ ch \in Seq(ChangeRec)
    BY DEF Lists
  <1>2. new \in Seq(ChangeRec) /\ Len(new) = n + 1 /\ new[n + 1] = c
        /\ \A i \in 1 .. n : new[i] = ch[i]
    BY <1>1
  <1>3. \A i \in 1 .. (n + 1) : i = n + 1 \/ i \in 1 .. n
    OBVIOUS
  <1>4. n + 1 \in 1 .. (n + 1) /\ \A i \in 1 .. n : i \in 1 .. (n + 1)
    OBVIOUS
  <1> HIDE DEF new
  <1>5. M = {ch[i] : i \in 1 .. n}
    BY <1>1 DEF Lists, Elements
  <1>6. Elements(new) = M \cup {c}
    BY <1>2, <1>3, <1>4, <1>5 DEF Elements
  <1>7. ASSUME NEW i \in 1 .. (n + 1), NEW j \in 1 .. (n + 1), i < j
        PROVE  Before(new[i].key, new[j].key)
    <2>1. i \in 1 .. n
      BY <1>7
    <2>2. CASE j \in 1 .. n
      BY <1>1, <1>2, <1>7, <2>1, <2>2 DEF Lists
    <2>3. CASE j = n + 1
      BY <1>2, <1>5, <2>1, <2>3
    <2> QED  BY <1>3, <2>2, <2>3
  <1>8. Lists(new, M \cup {c})
    BY <1>2, <1>6, <1>7 DEF Lists
  <1> QED  BY <1>8 DEF new

Selects(f, list, at) ==
    /\ f[0] = <<>>
    /\ \A i \in 1 .. Len(list) : f[i] = IF i \in at THEN Append(f[i - 1], list[i]) ELSE f[i - 1]

LEMMA SelectedIs ==
    ASSUME NEW list, Len(list) \in Nat, NEW at
    PROVE  \E f : Selects(f, list, at) /\ Selected(list, at) = f[Len(list)]
  <1> DEFINE Body(f, m) == [i \in 0 .. m |->
                              IF i = 0 THEN <<>>
                              ELSE IF i \in at THEN Append(f[i - 1], list[i]) ELSE f[i - 1]]
             T == {m \in Nat : \E f : f = Body(f, m)}
  <1>0. PICK n \in Nat : n = Len(list)
    OBVIOUS
  <1>1. 0 \in T
    <2> DEFINE f == [k \in 0 .. 0 |-> <<>>]
    <2>1. f = Body(f, 0)
      OBVIOUS
    <2> HIDE DEF f, Body
    <2> QED  BY <2>1
  <1>2. ASSUME NEW m \in Nat, m \in T PROVE m + 1 \in T
    <2>1. PICK g : g = Body(g, m)
      BY <1>2
    <2> DEFINE f == Body(g, m + 1)
    <2>2. \A k \in 0 .. m : f[k] = g[k]
      <3>1. \A k \in 0 .. m : g[k] = IF k = 0 THEN <<>>
                                     ELSE IF k \in at THEN Append(g[k - 1], list[k]) ELSE g[k - 1]
        BY <2>1
      <3> QED  BY <3>1
    <2>3. f = Body(f, m + 1)
      <3>1. \A k \in 0 .. (m + 1) : k # 0 => k - 1 \in 0 .. m
        OBVIOUS
      <3>2. \A k \in 0 .. (m + 1) : k # 0 =>
               (IF k \in at THEN Append(g[k - 1], list[k]) ELSE g[k - 1])
                 = (IF k \in at THEN Append(f[k - 1], list[k]) ELSE f[k - 1])
        <4> HIDE DEF f
        <4> QED  BY <2>2, <3>1
      <3> QED  BY <3>2, Zenon
    <2> HIDE DEF f, Body
    <2> QED  BY <2>3
  <1>3. n \in T
    <2> HIDE DEF T
    <2>1. Nat \subseteq T
      BY <1>1, <1>2, SetInduction
    <2> QED  BY <2>1
  <1> DEFINE after == CHOOSE f : f = Body(f, n)
  <1>4. after = Body(after, n)
    <2> HIDE DEF Body
    <2> QED  BY <1>3, Zenon
  <1>5. Selected(list, at) = after[n]
    BY <1>0 DEF Selected
  <1>6. \A i \in 0 .. n : after[i] = IF i = 0 THEN <<>>
                                     ELSE IF i \in at THEN Append(after[i - 1], list[i]) ELSE after[i - 1]
    <2> HIDE DEF after
    <2> QED  BY <1>4
  <1> HIDE DEF after
  <1>7. after[0] = <<>> /\ \A i \in 1 .. n : after[i] = IF i \in at THEN Append(after[i - 1], list[i])
                                                       ELSE after[i - 1]
    BY <1>6
  <1> QED  BY <1>0, <1>5, <1>7 DEF Selects

LEMMA SelectedLists ==
    ASSUME NEW ch, NEW M, Lists(ch, M), NEW at
    PROVE  Lists(Selected(ch, at), {ch[i] : i \in {j \in 1 .. Len(ch) : j \in at}})
  <1>1. PICK n \in Nat : n = Len(ch)
    BY ListsFacts
  <1>2. PICK f : Selects(f, ch, at) /\ Selected(ch, at) = f[n]
    BY <1>1, SelectedIs
  <1> DEFINE M1(m) == {ch[i] : i \in {j \in 1 .. m : j \in at}}
             U == {m \in Nat : m <= n => Lists(f[m], M1(m))}
  <1>3. 0 \in U
    <2>1. M1(0) = {}
      OBVIOUS
    <2>2. f[0] = <<>>
      BY <1>2 DEF Selects
    <2> QED  BY <2>1, <2>2, ListsEmpty
  <1>4. ASSUME NEW m \in Nat, m \in U  PROVE m + 1 \in U
    <2> SUFFICES ASSUME m + 1 <= n  PROVE Lists(f[m + 1], M1(m + 1))
      OBVIOUS
    <2>1. Lists(f[m], M1(m))
      BY <1>4
    <2>2. m + 1 \in 1 .. n /\ (m + 1) - 1 = m
      OBVIOUS
    <2>3. f[m + 1] = IF m + 1 \in at THEN Append(f[m], ch[m + 1]) ELSE f[m]
      BY <1>1, <1>2, <2>2 DEF Selects
    <2>4. \A i : i \in 1 .. (m + 1) <=> i \in 1 .. m \/ i = m + 1
      OBVIOUS
    <2>5. CASE m + 1 \in at
      <3>1. ch[m + 1] \in ChangeRec
        BY <1>1, <2>2, ListsFacts
      <3>2. ASSUME NEW x \in M1(m)  PROVE Before(x.key, ch[m + 1].key)
        <4>1. PICK i \in 1 .. m : x = ch[i]
          BY <3>2
        <4>2. i \in 1 .. n /\ i < m + 1
          OBVIOUS
        <4> QED  BY <1>1, <2>2, <4>1, <4>2 DEF Lists
      <3>3. Lists(Append(f[m], ch[m + 1]), M1(m) \cup {ch[m + 1]})
        <4> HIDE DEF M1
        <4> QED  BY <2>1, <3>1, <3>2, ListsAppend
      <3>4. M1(m + 1) = M1(m) \cup {ch[m + 1]}
        BY <2>4, <2>5
      <3> HIDE DEF M1
      <3> QED  BY <2>3, <2>5, <3>3, <3>4
    <2>6. CASE m + 1 \notin at
      <3>1. M1(m + 1) = M1(m)
        BY <2>4, <2>6
      <3> HIDE DEF M1
      <3> QED  BY <2>1, <2>3, <2>6, <3>1
    <2> QED  BY <2>5, <2>6
  <1>5. Lists(f[n], M1(n))
    <2>1. Nat \subseteq U
      <3> HIDE DEF U
      <3> QED  BY <1>3, <1>4, SetInduction
    <2> HIDE DEF M1
    <2> QED  BY <2>1
  <1> QED  BY <1>1, <1>2, <1>5

LEMMA LeastIs ==
    ASSUME NEW S, S \subseteq Nat, S # {}
    PROVE  Min(S) \in S /\ \A y \in S : Min(S) <= y
  <1> DEFINE T == {n \in Nat : (\E x \in S : x <= n) => \E x \in S : \A y \in S : x =< y}
  <1>1. 0 \in T
    OBVIOUS
  <1>2. ASSUME NEW n \in Nat, n \in T  PROVE n + 1 \in T
    <2> SUFFICES ASSUME NEW x \in S, x <= n + 1  PROVE \E z \in S : \A y \in S : z =< y
      OBVIOUS
    <2>1. CASE \E z \in S : z <= n
      BY <1>2, <2>1
    <2>2. CASE ~ \E z \in S : z <= n
      BY <2>2
    <2> QED  BY <2>1, <2>2
  <1>3. Nat \subseteq T
    <2> HIDE DEF T
    <2> QED  BY <1>1, <1>2, SetInduction
  <1>4. \E x \in S : \A y \in S : x =< y
    <2>1. PICK x : x \in S
      OBVIOUS
    <2>2. x \in T /\ x <= x
      BY <1>3, <2>1
    <2> QED  BY <2>1, <2>2
  <1> QED  BY <1>4, Zenon DEF Min

LEMMA PlaceIs ==
    ASSUME NEW ch, NEW M, Lists(ch, M), NEW k \in ChangeKeys, \A x \in M : x.key # k
    PROVE  LET p == Place(ch, k) IN
           \/ p = 0 /\ \A x \in M : Before(x.key, k)
           \/ /\ p \in 1 .. Len(ch)
              /\ \A i \in 1 .. Len(ch) : IF i < p THEN Before(ch[i].key, k) ELSE Before(k, ch[i].key)
  <1> DEFINE later == {i \in DOMAIN ch : Before(k, ch[i].key)}
             p == Place(ch, k)
  <1>1. PICK n \in Nat : n = Len(ch) /\ DOMAIN ch = 1 .. n
    BY ListsFacts DEF Lists
  <1>2. \A i \in 1 .. n : ch[i].key \in ChangeKeys /\ ch[i] \in M /\ ch[i].key # k
    BY <1>1, ListsFacts
  <1>3. \A i \in 1 .. n : ~Before(k, ch[i].key) => Before(ch[i].key, k)
    BY <1>2, BeforeOrder
  <1>4. CASE later = {}
    <2>1. p = 0
      BY <1>4 DEF Place
    <2>2. \A x \in M : \E i \in 1 .. n : ch[i] = x
      BY <1>1, ListsFacts
    <2>3. \A i \in 1 .. n : ~Before(k, ch[i].key)
      BY <1>1, <1>4
    <2> HIDE DEF p
    <2>4. p = 0 /\ \A x \in M : Before(x.key, k)
      BY <1>3, <2>1, <2>2, <2>3
    <2> QED  BY <2>4 DEF p
  <1>5. CASE later # {}
    <2>1. p = Min(later)
      BY <1>5 DEF Place
    <2>2. later \subseteq Nat
      BY <1>1
    <2>3. p \in later /\ \A y \in later : p <= y
      <3> HIDE DEF later, p
      <3> QED  BY <1>5, <2>1, <2>2, LeastIs
    <2> HIDE DEF p
    <2>4. p \in 1 .. n /\ Before(k, ch[p].key)
      BY <1>1, <2>3
    <2>5. ASSUME NEW i \in 1 .. n
          PROVE  IF i < p THEN Before(ch[i].key, k) ELSE Before(k, ch[i].key)
      <3>1. CASE i < p
        <4>1. i \notin later
          BY <2>3, <2>4, <3>1
        <4> QED  BY <1>1, <1>3, <3>1, <4>1
      <3>2. CASE i = p
        BY <2>4, <3>2
      <3>3. CASE i > p
        <4>1. Before(ch[p].key, ch[i].key)
          BY <1>1, <2>4, <3>3 DEF Lists
        <4>2. ch[p].key \in ChangeKeys /\ ch[i].key \in ChangeKeys
          BY <1>2, <2>4
        <4>3. Before(k, ch[i].key)
          BY <2>4, <4>1, <4>2, BeforeOrder
        <4> QED  BY <2>4, <3>3, <4>3
      <3> QED  BY <2>4, <3>1, <3>2, <3>3
    <2> QED  BY <1>1, <2>4, <2>5 DEF p
  <1> QED  BY <1>4, <1>5

LEMMA InsertedLists ==
    ASSUME NEW ch, NEW M, Lists(ch, M), NEW c \in ChangeRec, NEW p \in 1 .. Len(ch),
           \A i \in 1 .. Len(ch) : IF i < p THEN Before(ch[i].key, c.key) ELSE Before(c.key, ch[i].key)
    PROVE  Lists(Inserted(ch, p, c), M \cup {c})
  <1> DEFINE new == Inserted(ch, p, c)
  <1>1. PICK n \in Nat : n = Len(ch)
    BY ListsFacts
  <1>2. \A i \in 1 .. n : ch[i] \in ChangeRec /\ ch[i] \in M
    BY <1>1, ListsFacts
  <1>3. new = [i \in 1 .. (n + 1) |-> IF i < p THEN ch[i] ELSE IF i = p THEN c ELSE ch[i - 1]]
    BY <1>1 DEF Inserted
  <1>4. p \in 1 .. n /\ p \in Nat
    BY <1>1
  <1> HIDE DEF new
  <1>5. \A i \in 1 .. (n + 1) : \/ i < p /\ i \in 1 .. n /\ new[i] = ch[i]
                                \/ i = p /\ new[i] = c
                                \/ i > p /\ i - 1 \in 1 .. n /\ new[i] = ch[i - 1]
    BY <1>3, <1>4
  <1>6. new \in Seq(ChangeRec) /\ Len(new) = n + 1
    <2>1. new \in [1 .. (n + 1) -> ChangeRec]
      BY <1>2, <1>3, <1>5
    <2>2. n + 1 \in Nat
      OBVIOUS
    <2> QED  BY <2>1, <2>2
  <1>7. Elements(new) = M \cup {c}
    <2>1. \A i \in 1 .. (n + 1) : new[i] \in M \cup {c}
      BY <1>2, <1>5
    <2>2. ASSUME NEW x \in M  PROVE \E i \in 1 .. (n + 1) : new[i] = x
      <3>1. PICK j \in 1 .. n : ch[j] = x
        BY <1>1, ListsFacts
      <3>2. CASE j < p
        <4>1. j \in 1 .. (n + 1) /\ new[j] = ch[j]
          BY <1>3, <3>2
        <4> QED  BY <3>1, <4>1
      <3>3. CASE ~(j < p)
        <4>1. j + 1 \in 1 .. (n + 1) /\ ~(j + 1 < p) /\ j + 1 # p /\ (j + 1) - 1 = j
          BY <1>4, <3>3
        <4>2. new[j + 1] = ch[j]
          BY <1>3, <4>1
        <4> QED  BY <3>1, <4>1, <4>2
      <3> QED  BY <3>2, <3>3
    <2>3. p \in 1 .. (n + 1) /\ new[p] = c
      BY <1>3, <1>4
    <2> QED  BY <1>6, <2>1, <2>2, <2>3 DEF Elements
  <1>8. ASSUME NEW i \in 1 .. (n + 1), NEW j \in 1 .. (n + 1), i < j
        PROVE  Before(new[i].key, new[j].key)
    <2>1. \A a, b \in 1 .. n : a < b => Before(ch[a].key, ch[b].key)
      BY <1>1 DEF Lists
    <2>2. \A a \in 1 .. n : IF a < p THEN Before(ch[a].key, c.key) ELSE Before(c.key, ch[a].key)
      BY <1>1
    <2>3. CASE i < p /\ j < p
      BY <1>3, <1>4, <1>8, <2>1, <2>3
    <2>4. CASE i < p /\ j = p
      BY <1>3, <1>4, <1>8, <2>2, <2>4
    <2>5. CASE i < p /\ j > p
      <3>1. new[i] = ch[i] /\ new[j] = ch[j - 1] /\ j - 1 \in 1 .. n /\ i \in 1 .. n /\ i < j - 1
        BY <1>3, <1>4, <2>5
      <3> QED  BY <2>1, <3>1
    <2>6. CASE i = p
      <3>1. new[i] = c /\ new[j] = ch[j - 1] /\ j - 1 \in 1 .. n /\ ~(j - 1 < p)
        BY <1>3, <1>4, <1>8, <2>6
      <3> QED  BY <2>2, <3>1
    <2>7. CASE i > p
      <3>1. new[i] = ch[i - 1] /\ new[j] = ch[j - 1] /\ j - 1 \in 1 .. n /\ i - 1 \in 1 .. n
            /\ i - 1 < j - 1
        BY <1>3, <1>4, <1>8, <2>7
      <3> QED  BY <2>1, <3>1
    <2> QED  BY <1>4, <1>8, <2>3, <2>4, <2>5, <2>6, <2>7
  <1>9. Lists(new, M \cup {c})
    BY <1>6, <1>7, <1>8 DEF Lists
  <1> QED  BY <1>9 DEF new

LEMMA ReplacedLists ==
    ASSUME NEW ch, NEW M, Lists(ch, M), NEW c \in ChangeRec, \E x \in M : x.key = c.key
    PROVE  Lists([i \in DOMAIN ch |-> IF ch[i].key = c.key THEN c ELSE ch[i]],
                 {x \in M : x.key # c.key} \cup {c})
  <1> DEFINE new == [i \in DOMAIN ch |-> IF ch[i].key = c.key THEN c ELSE ch[i]]
             N == {x \in M : x.key # c.key} \cup {c}
  <1>1. PICK n \in Nat : n = Len(ch) /\ DOMAIN ch = 1 .. n
    BY ListsFacts DEF Lists
  <1>2. \A i \in 1 .. n : ch[i] \in ChangeRec /\ ch[i] \in M
    BY <1>1, ListsFacts
  <1>3. \A x \in M : \E i \in 1 .. n : ch[i] = x
    BY <1>1, ListsFacts
  <1>4. new = [i \in 1 .. n |-> IF ch[i].key = c.key THEN c ELSE ch[i]]
    BY <1>1
  <1> HIDE DEF new
  <1>5. \A i \in 1 .. n : /\ new[i].key = ch[i].key
                          /\ new[i] = IF ch[i].key = c.key THEN c ELSE ch[i]
    BY <1>4
  <1>6. new \in Seq(ChangeRec) /\ Len(new) = n
    <2>1. new \in [1 .. n -> ChangeRec]
      BY <1>2, <1>4
    <2> QED  BY <2>1
  <1>7. Elements(new) = N
    <2>1. \A i \in 1 .. n : new[i] \in N
      BY <1>2, <1>5
    <2>2. ASSUME NEW x \in N  PROVE \E i \in 1 .. n : new[i] = x
      <3>1. CASE x = c
        <4>1. PICK y \in M : y.key = c.key
          OBVIOUS
        <4> QED  BY <1>3, <1>5, <3>1, <4>1
      <3>2. CASE x # c
        BY <1>3, <1>5, <3>2
      <3> QED  BY <3>1, <3>2
    <2> HIDE DEF N
    <2> QED  BY <1>6, <2>1, <2>2 DEF Elements
  <1>8. \A i, j \in 1 .. n : i < j => Before(new[i].key, new[j].key)
    BY <1>1, <1>5 DEF Lists
  <1> HIDE DEF N
  <1>9. Lists(new, N)
    BY <1>6, <1>7, <1>8 DEF Lists
  <1> QED  BY <1>9 DEF new, N

-----------------------------------------------------------------------------
(* The Score of a user who has the submissions D with the changes M.       *)

Good(sc, mode, D, M) ==
    /\ D \subseteq Keys /\ \A c \in M : c.submission \in D
    /\ \E ch : Lists(ch, M) /\ sc = Replay(mode, D, ch)

Kept(sc, mode, D, M) ==
    IF D = {} THEN sc = NewScore("none") ELSE Good(sc, mode, D, M)

LEMMA GoodList ==
    ASSUME NEW sc, NEW mode, NEW D, NEW M, Good(sc, mode, D, M)
    PROVE  \E ch : /\ Lists(ch, M) /\ ListOf(ch, D) /\ sc = Replay(mode, D, ch)
                   /\ ScoreIs(sc, mode, D, ch)
  <1>1. PICK ch : Lists(ch, M) /\ sc = Replay(mode, D, ch)
    BY DEF Good
  <1>2. \A i \in 1 .. Len(ch) : ch[i] \in M
    BY <1>1, ListsFacts
  <1>3. ListOf(ch, D)
    BY <1>1, <1>2 DEF ListOf, Good, Lists
  <1>4. ScoreIs(sc, mode, D, ch)
    BY <1>1, <1>3, ReplayIsScore DEF Good, Lists
  <1> QED  BY <1>1, <1>3, <1>4

LEMMA GoodOnce ==
    ASSUME NEW mode, NEW D, NEW M, NEW a, NEW b, Good(a, mode, D, M), Good(b, mode, D, M)
    PROVE  a = b
  <1>1. PICK x : Lists(x, M) /\ a = Replay(mode, D, x)
    BY DEF Good
  <1>2. PICK y : Lists(y, M) /\ b = Replay(mode, D, y)
    BY DEF Good
  <1>3. x = y
    BY <1>1, <1>2, SameLists
  <1> QED  BY <1>1, <1>2, <1>3

LEMMA ChangeIs ==
    ASSUME NEW k \in ChangeKeys, NEW c, c.submission \in Keys, c.value \in Values
    PROVE  /\ Change(k, c) \in ChangeRec /\ Change(k, c).key = k
           /\ Change(k, c).submission = c.submission
  BY DEF Change, ChangeRec

LEMMA FreshGood ==
    ASSUME NEW mode, NEW D, D \subseteq Keys
    PROVE  Good(Fresh(mode, D, <<>>), mode, D, {})
  <1> DEFINE ch == <<>>
  <1>1. Lists(ch, {}) /\ ch \in Seq(ChangeRec) /\ Len(ch) = 0
    BY ListsEmpty
  <1>2. ListOf(ch, D)
    BY <1>1 DEF ListOf
  <1> HIDE DEF ch
  <1>3. PICK f : Replays(f, mode, D, ch) /\ Replay(mode, D, ch) = f[0]
    BY <1>1, <1>2, ReplayIs
  <1>4. Fresh(mode, D, ch) = Replay(mode, D, ch)
    BY <1>3 DEF Replays
  <1>5. Good(Fresh(mode, D, ch), mode, D, {})
    BY <1>1, <1>4 DEF Good
  <1> QED  BY <1>5 DEF ch

LEMMA CreateGood ==
    ASSUME NEW sc, NEW mode, NEW D, NEW M, Good(sc, mode, D, M), NEW k \in ChangeKeys, NEW c,
           c.submission \in D, c.value \in Values, \A x \in M : x.key # k
    PROVE  Good(CreateChange(sc, k, c), mode, D, M \cup {Change(k, c)})
  <1>0. D \subseteq Keys /\ \A x \in M : x.submission \in D
    BY DEF Good
  <1> DEFINE new == Change(k, c)
             N == M \cup {new}
             p == Place(sc.changes, k)
  <1>1. new \in ChangeRec /\ new.key = k /\ new.submission \in D
    BY <1>0, ChangeIs
  <1> HIDE DEF new
  <1>2. PICK ch : Lists(ch, M) /\ ListOf(ch, D) /\ sc = Replay(mode, D, ch) /\ ScoreIs(sc, mode, D, ch)
    BY GoodList
  <1>3. sc.changes = ch
    BY <1>2 DEF ScoreIs
  <1>4. \/ p = 0 /\ \A x \in M : Before(x.key, k)
        \/ /\ p \in 1 .. Len(ch)
           /\ \A i \in 1 .. Len(ch) : IF i < p THEN Before(ch[i].key, k) ELSE Before(k, ch[i].key)
    BY <1>2, <1>3, PlaceIs
  <1>5. CreateChange(sc, k, c) =
           IF p = 0 THEN AppendChange(WithChanges(sc, Append(ch, new)), new)
           ELSE ResetHistory(WithChanges(sc, Inserted(ch, p, new)))
    BY <1>3 DEF CreateChange, new
  <1> HIDE DEF p
  <1>6. \E l : Lists(l, N) /\ CreateChange(sc, k, c) = Replay(mode, D, l)
    <2>1. CASE p = 0 /\ \A x \in M : Before(x.key, k)
      <3>1. Lists(Append(ch, new), N)
        BY <1>1, <1>2, <2>1, ListsAppend
      <3>2. AppendChange(WithChanges(sc, Append(ch, new)), new) = Replay(mode, D, Append(ch, new))
        BY <1>0, <1>1, <1>2, ReplayAppend
      <3> HIDE DEF N
      <3> QED  BY <1>5, <2>1, <3>1, <3>2
    <2>2. CASE /\ p \in 1 .. Len(ch)
               /\ \A i \in 1 .. Len(ch) : IF i < p THEN Before(ch[i].key, k) ELSE Before(k, ch[i].key)
      <3>1. Lists(Inserted(ch, p, new), N)
        BY <1>1, <1>2, <2>2, InsertedLists
      <3>2. ResetHistory(WithChanges(sc, Inserted(ch, p, new))) = Replay(mode, D, Inserted(ch, p, new))
        BY <1>2, ResetWith
      <3>3. p # 0
        BY <1>2, <2>2, ListsFacts
      <3> HIDE DEF N
      <3> QED  BY <1>5, <3>1, <3>2, <3>3
    <2> QED  BY <1>4, <2>1, <2>2
  <1>7. \A x \in N : x.submission \in D
    BY <1>0, <1>1
  <1> HIDE DEF N
  <1>8. Good(CreateChange(sc, k, c), mode, D, N)
    BY <1>0, <1>6, <1>7 DEF Good
  <1> QED  BY <1>8 DEF N, new

LEMMA UpdateGood ==
    ASSUME NEW sc, NEW mode, NEW D, NEW M, Good(sc, mode, D, M), NEW k \in ChangeKeys, NEW c,
           c.submission \in D, c.value \in Values, \E x \in M : x.key = k
    PROVE  Good(UpdateChange(sc, k, c), mode, D, {x \in M : x.key # k} \cup {Change(k, c)})
  <1>0. D \subseteq Keys /\ \A x \in M : x.submission \in D
    BY DEF Good
  <1> DEFINE new == Change(k, c)
             N == {x \in M : x.key # k} \cup {new}
  <1>1. new \in ChangeRec /\ new.key = k /\ new.submission \in D
    BY <1>0, ChangeIs
  <1> HIDE DEF new
  <1>2. PICK ch : Lists(ch, M) /\ ListOf(ch, D) /\ sc = Replay(mode, D, ch) /\ ScoreIs(sc, mode, D, ch)
    BY GoodList
  <1>3. sc.changes = ch
    BY <1>2 DEF ScoreIs
  <1> DEFINE l == [i \in DOMAIN ch |-> IF ch[i].key = k THEN new ELSE ch[i]]
  <1>4. UpdateChange(sc, k, c) = ResetHistory(WithChanges(sc, l))
    BY <1>3 DEF UpdateChange, new
  <1>5. Lists(l, N)
    BY <1>1, <1>2, ReplacedLists
  <1> HIDE DEF l, N
  <1>6. UpdateChange(sc, k, c) = Replay(mode, D, l)
    BY <1>2, <1>4, ResetWith
  <1>7. \A x \in N : x.submission \in D
    BY <1>0, <1>1 DEF N
  <1>8. Good(UpdateChange(sc, k, c), mode, D, N)
    BY <1>0, <1>5, <1>6, <1>7 DEF Good
  <1> QED  BY <1>8 DEF N, new

LEMMA DeleteGood ==
    ASSUME NEW sc, NEW mode, NEW D, NEW M, Good(sc, mode, D, M), NEW k
    PROVE  Good(DeleteChange(sc, k), mode, D, {x \in M : x.key # k})
  <1> DEFINE N == {x \in M : x.key # k}
  <1>0. D \subseteq Keys /\ \A x \in M : x.submission \in D
    BY DEF Good
  <1>2. PICK ch : Lists(ch, M) /\ ListOf(ch, D) /\ sc = Replay(mode, D, ch) /\ ScoreIs(sc, mode, D, ch)
    BY GoodList
  <1>3. sc.changes = ch
    BY <1>2 DEF ScoreIs
  <1> DEFINE at == {i \in DOMAIN ch : ch[i].key # k}
             l == Selected(ch, at)
  <1>4. DeleteChange(sc, k) = ResetHistory(WithChanges(sc, l))
    BY <1>3 DEF DeleteChange
  <1>5. Lists(l, {ch[i] : i \in {j \in 1 .. Len(ch) : j \in at}})
    <2> HIDE DEF at
    <2> QED  BY <1>2, SelectedLists
  <1>6. {ch[i] : i \in {j \in 1 .. Len(ch) : j \in at}} = N
    <2>1. DOMAIN ch = 1 .. Len(ch) /\ M = {ch[i] : i \in 1 .. Len(ch)}
      BY <1>2 DEF Lists, Elements
    <2> QED  BY <2>1
  <1> HIDE DEF l
  <1>7. DeleteChange(sc, k) = Replay(mode, D, l)
    BY <1>2, <1>4, ResetWith
  <1>8. Good(DeleteChange(sc, k), mode, D, N)
    <2>1. \A x \in N : x.submission \in D
      BY <1>0
    <2>2. Lists(l, N)
      BY <1>5, <1>6
    <2> HIDE DEF N
    <2> QED  BY <1>0, <1>7, <2>1, <2>2 DEF Good
  <1> QED  BY <1>8

LEMMA DropGood ==
    ASSUME NEW sc, NEW mode, NEW D, NEW M, Good(sc, mode, D, M), NEW s
    PROVE  Kept(Dropped(sc, s), mode, D \ {s}, {x \in M : x.submission # s})
  <1> DEFINE N == {x \in M : x.submission # s}
             E == D \ {s}
  <1>0. E \subseteq Keys /\ \A x \in N : x.submission \in E
    BY DEF Good
  <1>2. PICK ch : Lists(ch, M) /\ ListOf(ch, D) /\ sc = Replay(mode, D, ch) /\ ScoreIs(sc, mode, D, ch)
    BY GoodList
  <1>3. sc.changes = ch /\ DOMAIN sc.submissions = D /\ sc.mode = mode
    BY <1>2 DEF ScoreIs
  <1> DEFINE at == {i \in DOMAIN ch : ch[i].submission # s}
             l == Selected(ch, at)
             rest == [mode |-> sc.mode, last |-> sc.last, history |-> sc.history,
                      submissions |-> [k \in E |-> sc.submissions[k]], changes |-> l]
  <1>4. DeleteSubmission(sc, s) = ResetHistory(rest)
    BY <1>3 DEF DeleteSubmission
  <1>5. Lists(l, {ch[i] : i \in {j \in 1 .. Len(ch) : j \in at}})
    <2> HIDE DEF at
    <2> QED  BY <1>2, SelectedLists
  <1>6. {ch[i] : i \in {j \in 1 .. Len(ch) : j \in at}} = N
    <2>1. DOMAIN ch = 1 .. Len(ch) /\ M = {ch[i] : i \in 1 .. Len(ch)}
      BY <1>2 DEF Lists, Elements
    <2> QED  BY <2>1
  <1>7. Lists(l, N)
    BY <1>5, <1>6
  <1> HIDE DEF l
  <1>8. rest.mode = mode /\ DOMAIN rest.submissions = E /\ rest.changes = l
    BY <1>3
  <1> HIDE DEF rest
  <1>9. DeleteSubmission(sc, s) = Replay(mode, E, l)
    BY <1>4, <1>8 DEF ResetHistory
  <1> HIDE DEF N, E
  <1>10. Good(DeleteSubmission(sc, s), mode, E, N)
    BY <1>0, <1>7, <1>9 DEF Good
  <1>11. DOMAIN DeleteSubmission(sc, s).submissions = E
    <2>1. PICK l2 : ScoreIs(DeleteSubmission(sc, s), mode, E, l2)
      BY <1>10, GoodList
    <2> QED  BY <2>1 DEF ScoreIs
  <1>12. Dropped(sc, s) = IF E = {} THEN NewScore("none") ELSE DeleteSubmission(sc, s)
    BY <1>11 DEF Dropped
  <1>13. Kept(Dropped(sc, s), mode, E, N)
    BY <1>10, <1>12 DEF Kept
  <1> QED  BY <1>13 DEF E, N

LEMMA AddGood ==
    ASSUME NEW sc, NEW mode, NEW D, NEW M, Good(sc, mode, D, M), NEW s \in Keys, s \notin D
    PROVE  Good(AddSubmission(sc, s), mode, D \cup {s}, M)
  <1>1. PICK ch : Lists(ch, M) /\ ListOf(ch, D) /\ sc = Replay(mode, D, ch)
    BY GoodList
  <1>2. D \subseteq Keys /\ \A x \in M : x.submission \in D
    BY DEF Good
  <1>3. AddSubmission(sc, s) = Replay(mode, D \cup {s}, ch)
    BY <1>1, <1>2, ReplayAdd
  <1>4. D \cup {s} \subseteq Keys /\ \A x \in M : x.submission \in D \cup {s}
    BY <1>2
  <1> QED  BY <1>1, <1>3, <1>4 DEF Good

LEMMA AddKept ==
    ASSUME NEW sc, NEW D, NEW M, Kept(sc, task, D, M), NEW s \in Keys, s \notin D,
           D = {} => M = {}, task # "none"
    PROVE  Good(Added(sc, s), task, D \cup {s}, M)
  <1>1. CASE D = {}
    <2>1. sc = NewScore("none")
      BY <1>1 DEF Kept
    <2>2. sc.mode = "none"
      BY <2>1 DEF NewScore, Fresh
    <2>3. Added(sc, s) = AddSubmission(NewScore(task), s)
      BY <2>2 DEF Added
    <2>4. Good(NewScore(task), task, {}, {})
      BY FreshGood DEF NewScore
    <2>5. Good(AddSubmission(NewScore(task), s), task, {} \cup {s}, {})
      BY <2>4, AddGood
    <2> QED  BY <1>1, <2>3, <2>5
  <1>2. CASE D # {}
    <2>1. Good(sc, task, D, M)
      BY <1>2 DEF Kept
    <2>2. PICK ch : ScoreIs(sc, task, D, ch)
      BY <2>1, GoodList
    <2>3. sc.mode = task
      BY <2>2 DEF ScoreIs
    <2>4. Added(sc, s) = AddSubmission(sc, s)
      BY <2>3 DEF Added
    <2> QED  BY <2>1, <2>4, AddGood
  <1> QED  BY <1>1, <1>2

LEMMA ResetGood ==
    ASSUME NEW sc, NEW mode, NEW D, NEW M, Good(sc, mode, D, M)
    PROVE  [ResetHistory(sc) EXCEPT !.mode = mode] = sc
  <1>1. PICK ch : sc = Replay(mode, D, ch) /\ ScoreIs(sc, mode, D, ch)
    BY GoodList
  <1>2. ResetHistory(sc) = sc
    BY <1>1, ResetReplay
  <1>3. [sc EXCEPT !.mode = mode] = sc
    BY <1>1 DEF ScoreIs
  <1> QED  BY <1>2, <1>3

-----------------------------------------------------------------------------
(* Several submissions dropped, one after the other.                       *)

DropsAll(f, sc, S) ==
    f = [g \in S |-> IF g = {} THEN sc ELSE Dropped(f[g \ {AnyOf(g)}], AnyOf(g))]

LEMMA AnyOfIs ==
    ASSUME NEW g, g # {}, IsFiniteSet(g)
    PROVE  /\ AnyOf(g) \in g /\ IsFiniteSet(g \ {AnyOf(g)})
           /\ Cardinality(g \ {AnyOf(g)}) = Cardinality(g) - 1
  <1>1. AnyOf(g) \in g
    BY DEF AnyOf
  <1> QED  BY <1>1, FS_RemoveElement

LEMMA DroppedAllIs ==
    ASSUME NEW gone, IsFiniteSet(gone), NEW sc
    PROVE  \E f : DropsAll(f, sc, SUBSET gone) /\ DroppedAll(sc, gone) = f[gone]
  <1> DEFINE Small(n) == {s \in SUBSET gone : Cardinality(s) <= n}
             T == {n \in Nat : \E f : DropsAll(f, sc, Small(n))}
  <1>1. \A s \in SUBSET gone : IsFiniteSet(s) /\ Cardinality(s) \in Nat
    BY FS_Subset, FS_CardinalityType
  <1>2. \A s \in SUBSET gone : s # {} =>
           /\ AnyOf(s) \in s /\ s \ {AnyOf(s)} \in SUBSET gone
           /\ Cardinality(s \ {AnyOf(s)}) = Cardinality(s) - 1
    BY <1>1, AnyOfIs
  <1>3. 0 \in T
    <2>1. \A s \in Small(0) : s = {}
      BY <1>1, FS_EmptySet
    <2>2. DropsAll([s \in Small(0) |-> sc], sc, Small(0))
      BY <2>1 DEF DropsAll
    <2> QED  BY <2>2
  <1>4. ASSUME NEW n \in Nat, n \in T  PROVE n + 1 \in T
    <2>1. PICK f : DropsAll(f, sc, Small(n))
      BY <1>4
    <2> DEFINE h == [g \in Small(n + 1) |-> IF g = {} THEN sc ELSE Dropped(f[g \ {AnyOf(g)}], AnyOf(g))]
    <2>2. \A g \in Small(n) : h[g] = f[g]
      <3>1. \A g \in Small(n) : g \in Small(n + 1)
        BY <1>1
      <3>2. \A g \in Small(n) : f[g] = IF g = {} THEN sc ELSE Dropped(f[g \ {AnyOf(g)}], AnyOf(g))
        BY <2>1 DEF DropsAll
      <3> QED  BY <3>1, <3>2
    <2>3. \A g \in Small(n + 1) : g # {} => g \ {AnyOf(g)} \in Small(n)
      BY <1>1, <1>2
    <2>4. h = [g \in Small(n + 1) |-> IF g = {} THEN sc ELSE Dropped(h[g \ {AnyOf(g)}], AnyOf(g))]
      <3> HIDE DEF Small
      <3> QED  BY <2>2, <2>3
    <2>5. DropsAll(h, sc, Small(n + 1))
      BY <2>4 DEF DropsAll
    <2>6. \E f2 : DropsAll(f2, sc, Small(n + 1))
      <3> HIDE DEF h, Small
      <3> QED  BY <2>5
    <2>7. n + 1 \in Nat
      OBVIOUS
    <2> HIDE DEF Small
    <2> QED  BY <2>6, <2>7, Zenon
  <1>5. Cardinality(gone) \in T
    <2> HIDE DEF T
    <2>1. Nat \subseteq T
      BY <1>3, <1>4, SetInduction
    <2> QED  BY <2>1, FS_CardinalityType
  <1>6. Small(Cardinality(gone)) = SUBSET gone
    BY FS_Subset
  <1>7. \E f : DropsAll(f, sc, SUBSET gone)
    BY <1>5, <1>6
  <1> DEFINE after == CHOOSE f : DropsAll(f, sc, SUBSET gone)
  <1>8. DropsAll(after, sc, SUBSET gone)
    BY <1>7, Zenon
  <1>9. DroppedAll(sc, gone) = after[gone]
    BY DEF DroppedAll, DropsAll
  <1> HIDE DEF after
  <1> QED  BY <1>8, <1>9

LEMMA DroppedAllKept ==
    ASSUME NEW sc, NEW mode, NEW D, NEW M, Kept(sc, mode, D, M), D \subseteq Keys,
           NEW gone, gone \subseteq D
    PROVE  Kept(DroppedAll(sc, gone), mode, D \ gone, {x \in M : x.submission \notin gone})
  <1>0. IsFiniteSet(gone)
    <2>1. gone \subseteq Keys
      OBVIOUS
    <2> QED  BY <2>1, RankingAssumption, FS_Subset
  <1>1. PICK f : DropsAll(f, sc, SUBSET gone) /\ DroppedAll(sc, gone) = f[gone]
    BY <1>0, DroppedAllIs
  <1> DEFINE Remaining(g) == {x \in M : x.submission \notin g}
             T == {n \in Nat : \A g \in SUBSET gone :
                     Cardinality(g) = n => Kept(f[g], mode, D \ g, Remaining(g))}
  <1>2. \A s \in SUBSET gone : IsFiniteSet(s) /\ Cardinality(s) \in Nat
    BY <1>0, FS_Subset, FS_CardinalityType
  <1>3. 0 \in T
    <2> SUFFICES ASSUME NEW g \in SUBSET gone, Cardinality(g) = 0
                 PROVE  Kept(f[g], mode, D \ g, Remaining(g))
      OBVIOUS
    <2>1. g = {}
      BY <1>2, FS_EmptySet
    <2>2. f[g] = sc
      BY <1>1, <2>1 DEF DropsAll
    <2>3. D \ g = D /\ Remaining(g) = M
      BY <2>1
    <2> HIDE DEF Left
    <2> QED  BY <2>2, <2>3
  <1>4. ASSUME NEW n \in Nat, n \in T  PROVE n + 1 \in T
    <2> SUFFICES ASSUME NEW g \in SUBSET gone, Cardinality(g) = n + 1
                 PROVE  Kept(f[g], mode, D \ g, Remaining(g))
      OBVIOUS
    <2>1. g # {}
      BY FS_EmptySet
    <2>2. PICK x : x = AnyOf(g)
      OBVIOUS
    <2>3. x \in g /\ Cardinality(g \ {x}) = Cardinality(g) - 1
      BY <1>2, <2>1, <2>2, AnyOfIs
    <2>4. PICK h : h = g \ {x}
      OBVIOUS
    <2>5. h \in SUBSET gone /\ Cardinality(h) = n
      BY <2>3, <2>4
    <2>6. Kept(f[h], mode, D \ h, Remaining(h))
      BY <1>4, <2>5
    <2>7. f[g] = Dropped(f[h], x)
      BY <1>1, <2>1, <2>2, <2>4 DEF DropsAll
    <2>8. D \ h # {} /\ (D \ h) \ {x} = D \ g
      BY <2>3, <2>4
    <2>9. {y \in Remaining(h) : y.submission # x} = Remaining(g)
      BY <2>3, <2>4
    <2> HIDE DEF Left
    <2>10. Good(f[h], mode, D \ h, Remaining(h))
      BY <2>6, <2>8 DEF Kept
    <2>11. Kept(Dropped(f[h], x), mode, (D \ h) \ {x}, {y \in Remaining(h) : y.submission # x})
      BY <2>10, DropGood
    <2> QED  BY <2>7, <2>8, <2>9, <2>11
  <1>5. Nat \subseteq T
    <2> HIDE DEF T
    <2> QED  BY <1>3, <1>4, SetInduction
  <1>6. gone \in SUBSET gone /\ Cardinality(gone) \in Nat
    BY <1>2
  <1>7. Kept(f[gone], mode, D \ gone, Remaining(gone))
    <2> HIDE DEF Left
    <2> QED  BY <1>5, <1>6
  <1> QED  BY <1>1, <1>7

-----------------------------------------------------------------------------
(* The Scores after a restart.                                             *)

SubsTyped(sub) == sub \in [Keys -> RankedUsers \cup {NoUser}]
ChangesTyped(chg) == chg \in [ChangeKeys -> [submission : Keys, value : Values] \cup {NoChange}]

Mine(u, sub, chg) == {Change(k, chg[k]) : k \in ChangesOf(u, sub, chg)}

LEMMA ChangesOfAre ==
    ASSUME NEW u, NEW sub, NEW chg, ChangesTyped(chg), NEW k \in ChangesOf(u, sub, chg)
    PROVE  /\ k \in ChangeKeys /\ k \in Nat /\ chg[k] # NoChange
           /\ chg[k].submission \in Keys /\ chg[k].value \in Values
           /\ chg[k].submission \in SubmissionsOf(u, sub) /\ sub[chg[k].submission] = u
           /\ Change(k, chg[k]) \in ChangeRec
           /\ Change(k, chg[k]).key = k /\ Change(k, chg[k]).submission = chg[k].submission
  <1>1. k \in ChangeKeys /\ chg[k].submission \in SubmissionsOf(u, sub)
    BY DEF ChangesOf
  <1>2. chg[k].submission \in Keys /\ sub[chg[k].submission] = u
    BY <1>1 DEF SubmissionsOf
  <1>3. NoChange.submission = 0 /\ 0 \notin Keys /\ ChangeKeys \subseteq Nat
    BY RankingAssumption DEF NoChange
  <1>4. chg[k] # NoChange
    BY <1>2, <1>3
  <1>5. chg[k] \in [submission : Keys, value : Values]
    BY <1>1, <1>4 DEF ChangesTyped
  <1>6. chg[k].value \in Values
    BY <1>5
  <1> QED  BY <1>1, <1>2, <1>3, <1>4, <1>6, ChangeIs

Creates(f, u, mode, sub, chg, n) ==
    /\ f[0] = Fresh(mode, SubmissionsOf(u, sub), <<>>)
    /\ \A i \in 1 .. n : f[i] = IF i - 1 \in ChangesOf(u, sub, chg)
                                THEN CreateChange(f[i - 1], i - 1, chg[i - 1]) ELSE f[i - 1]

LEMMA RebuiltScoreIs ==
    ASSUME NEW u, NEW mode, NEW sub, NEW chg
    PROVE  LET n == Greatest(ChangeKeys) + 1 IN
           n \in Nat /\ \E f : Creates(f, u, mode, sub, chg, n) /\ RebuiltScore(u, mode, sub, chg) = f[n]
  <1> DEFINE first == Fresh(mode, SubmissionsOf(u, sub), <<>>)
             mine == ChangesOf(u, sub, chg)
             Body(f, m) == [i \in 0 .. m |->
                              IF i = 0 THEN first
                              ELSE IF i - 1 \in mine THEN CreateChange(f[i - 1], i - 1, chg[i - 1])
                              ELSE f[i - 1]]
             T == {m \in Nat : \E f : f = Body(f, m)}
             g1 == Greatest(ChangeKeys)
  <1>0. g1 \in Nat
    BY RankingAssumption, GreatestOfFinite
  <1>00. PICK n \in Nat : n = g1 + 1
    <2> HIDE DEF g1
    <2> QED  BY <1>0
  <1>1. 0 \in T
    <2> DEFINE f == [k \in 0 .. 0 |-> first]
    <2>1. f = Body(f, 0)
      <3> HIDE DEF first, mine
      <3> QED  OBVIOUS
    <2> HIDE DEF f, Body
    <2> QED  BY <2>1
  <1>2. ASSUME NEW m \in Nat, m \in T PROVE m + 1 \in T
    <2>1. PICK g : g = Body(g, m)
      BY <1>2
    <2> DEFINE f == Body(g, m + 1)
    <2> HIDE DEF first, mine
    <2>2. \A k \in 0 .. m : f[k] = g[k]
      <3>1. \A k \in 0 .. m : g[k] = IF k = 0 THEN first
                                     ELSE IF k - 1 \in mine THEN CreateChange(g[k - 1], k - 1, chg[k - 1])
                                     ELSE g[k - 1]
        BY <2>1
      <3> QED  BY <3>1
    <2>3. f = Body(f, m + 1)
      <3>1. \A k \in 0 .. (m + 1) : k # 0 => k - 1 \in 0 .. m
        OBVIOUS
      <3>2. \A k \in 0 .. (m + 1) : k # 0 =>
               (IF k - 1 \in mine THEN CreateChange(g[k - 1], k - 1, chg[k - 1]) ELSE g[k - 1])
                 = (IF k - 1 \in mine THEN CreateChange(f[k - 1], k - 1, chg[k - 1]) ELSE f[k - 1])
        <4> HIDE DEF f
        <4> QED  BY <2>2, <3>1
      <3> QED  BY <3>2, Zenon
    <2> HIDE DEF f, Body
    <2> QED  BY <2>3
  <1>3. n \in T
    <2> HIDE DEF T
    <2>1. Nat \subseteq T
      BY <1>1, <1>2, SetInduction
    <2> QED  BY <2>1
  <1> DEFINE after == CHOOSE f : f = Body(f, n)
  <1>4. after = Body(after, n)
    <2> HIDE DEF Body
    <2> QED  BY <1>3, Zenon
  <1>5. RebuiltScore(u, mode, sub, chg) = after[n]
    BY <1>00 DEF RebuiltScore
  <1>6. \A i \in 0 .. n : after[i] = IF i = 0 THEN first
                                     ELSE IF i - 1 \in mine THEN CreateChange(after[i - 1], i - 1, chg[i - 1])
                                     ELSE after[i - 1]
    <2> HIDE DEF after, first, mine
    <2> QED  BY <1>4
  <1> HIDE DEF after
  <1>7. /\ after[0] = first
        /\ \A i \in 1 .. n : after[i] = IF i - 1 \in mine THEN CreateChange(after[i - 1], i - 1, chg[i - 1])
                                        ELSE after[i - 1]
    <2> HIDE DEF first, mine
    <2> QED  BY <1>6
  <1>8. Creates(after, u, mode, sub, chg, n)
    BY <1>7 DEF Creates
  <1> QED  BY <1>00, <1>5, <1>8

LEMMA RebuiltKept ==
    ASSUME NEW u \in RankedUsers, NEW mode, NEW sub, NEW chg, ChangesTyped(chg)
    PROVE  Kept(Rebuilt(mode, sub, chg)[u], mode, SubmissionsOf(u, sub), Mine(u, sub, chg))
  <1> DEFINE D == SubmissionsOf(u, sub)
             mine == ChangesOf(u, sub, chg)
  <1>1. D \subseteq Keys
    BY DEF SubmissionsOf
  <1>2. Rebuilt(mode, sub, chg)[u] = IF D = {} THEN NewScore("none") ELSE RebuiltScore(u, mode, sub, chg)
    BY DEF Rebuilt
  <1>3. PICK n \in Nat : n = Greatest(ChangeKeys) + 1
    BY RebuiltScoreIs
  <1>4. PICK f : Creates(f, u, mode, sub, chg, n) /\ RebuiltScore(u, mode, sub, chg) = f[n]
    BY <1>3, RebuiltScoreIs
  <1> DEFINE M(i) == {Change(k, chg[k]) : k \in {j \in mine : j < i}}
             U == {i \in Nat : i <= n => Good(f[i], mode, D, M(i))}
  <1>5. \A k \in mine : /\ k \in ChangeKeys /\ k \in Nat /\ chg[k].submission \in D
                        /\ chg[k].value \in Values /\ Change(k, chg[k]).key = k
    BY ChangesOfAre
  <1>6. 0 \in U
    <2>1. M(0) = {}
      BY <1>5
    <2>2. f[0] = Fresh(mode, D, <<>>)
      BY <1>4 DEF Creates
    <2>3. Good(Fresh(mode, D, <<>>), mode, D, {})
      BY <1>1, FreshGood
    <2> QED  BY <2>1, <2>2, <2>3
  <1>7. ASSUME NEW i \in Nat, i \in U  PROVE i + 1 \in U
    <2> SUFFICES ASSUME i + 1 <= n  PROVE Good(f[i + 1], mode, D, M(i + 1))
      OBVIOUS
    <2>1. Good(f[i], mode, D, M(i))
      BY <1>7
    <2>2. i + 1 \in 1 .. n /\ (i + 1) - 1 = i
      OBVIOUS
    <2>3. f[i + 1] = IF i \in mine THEN CreateChange(f[i], i, chg[i]) ELSE f[i]
      BY <1>4, <2>2 DEF Creates
    <2>4. \A j \in mine : j < i + 1 <=> j < i \/ j = i
      BY <1>5
    <2>5. CASE i \in mine
      <3>1. \A x \in M(i) : x.key # i
        BY <1>5
      <3>2. M(i + 1) = M(i) \cup {Change(i, chg[i])}
        BY <2>4, <2>5
      <3>3. i \in ChangeKeys /\ chg[i].submission \in D /\ chg[i].value \in Values
        BY <1>5, <2>5
      <3> HIDE DEF M, D
      <3>4. Good(CreateChange(f[i], i, chg[i]), mode, D, M(i) \cup {Change(i, chg[i])})
        BY <2>1, <3>1, <3>3, CreateGood
      <3> HIDE DEF mine
      <3> QED  BY <2>3, <2>5, <3>2, <3>4
    <2>6. CASE i \notin mine
      <3>1. M(i + 1) = M(i)
        BY <2>4, <2>6
      <3> HIDE DEF M, D, mine
      <3> QED  BY <2>1, <2>3, <2>6, <3>1
    <2> QED  BY <2>5, <2>6
  <1>8. Good(f[n], mode, D, M(n))
    <2>1. Nat \subseteq U
      <3> HIDE DEF U
      <3> QED  BY <1>6, <1>7, SetInduction
    <2> HIDE DEF M, D
    <2> QED  BY <2>1
  <1>9. M(n) = Mine(u, sub, chg)
    <2>1. ASSUME NEW k \in mine  PROVE k < n
      <3>1. k \in ChangeKeys /\ k \in Nat
        BY <1>5
      <3>2. k <= Greatest(ChangeKeys) /\ Greatest(ChangeKeys) \in Nat
        BY <3>1, RankingAssumption, GreatestOfFinite
      <3> QED  BY <1>3, <3>1, <3>2
    <2>2. {j \in mine : j < n} = mine
      BY <2>1
    <2> HIDE DEF mine
    <2>3. M(n) = {Change(k, chg[k]) : k \in mine}
      BY <2>2
    <2> QED  BY <2>3 DEF Mine, mine
  <1> HIDE DEF M, D
  <1>10. Kept(Rebuilt(mode, sub, chg)[u], mode, D, Mine(u, sub, chg))
    BY <1>2, <1>4, <1>8, <1>9 DEF Kept
  <1> QED  BY <1>10 DEF D

-----------------------------------------------------------------------------
(* The invariant of the stores.                                            *)

StoresTyped ==
    /\ contest \in BOOLEAN /\ team \in BOOLEAN /\ task \in Modes \cup {"none"}
    /\ user \in [RankedUsers -> {"none", "alone", "team"}]
    /\ SubsTyped(submission) /\ ChangesTyped(subchange)
    /\ scores = [u \in RankedUsers |-> scores[u]]
    /\ moved \in BOOLEAN /\ remoded \in BOOLEAN

KeptFor(u) ==
    Kept(scores[u], task, SubmissionsOf(u, submission), Mine(u, submission, subchange))

ScoresKept == Settled => \A u \in RankedUsers : KeptFor(u)

StoresInv == StoresTyped /\ StoresConsistent /\ ScoresKept

LEMMA NoMines ==
    ASSUME NEW u, NEW sub, NEW chg, SubmissionsOf(u, sub) = {}
    PROVE  Mine(u, sub, chg) = {}
  BY DEF Mine, ChangesOf

LEMMA MineFacts ==
    ASSUME NEW u, NEW sub, NEW chg, ChangesTyped(chg), NEW x \in Mine(u, sub, chg)
    PROVE  /\ x \in ChangeRec /\ x.submission \in SubmissionsOf(u, sub) /\ x.key \in ChangesOf(u, sub, chg)
           /\ x.submission = chg[x.key].submission
  <1>1. PICK k \in ChangesOf(u, sub, chg) : x = Change(k, chg[k])
    BY DEF Mine
  <1> QED  BY <1>1, ChangesOfAre

(* What DropSubmissions leaves.                                            *)
LEMMA DropStep ==
    ASSUME StoresInv, NEW gone, gone \subseteq {s \in Keys : submission[s] # NoUser},
           DropSubmissions(gone)
    PROVE  /\ SubsTyped(submission') /\ ChangesTyped(subchange')
           /\ scores' = [u \in RankedUsers |-> scores'[u]]
           /\ \A s \in Keys : submission'[s] # NoUser => s \notin gone /\ submission'[s] = submission[s]
           /\ \A k \in ChangeKeys : subchange'[k] # NoChange => submission'[subchange'[k].submission] # NoUser
           /\ \A u \in RankedUsers : SubmissionsOf(u, submission') = SubmissionsOf(u, submission) \ gone
           /\ Settled => \A u \in RankedUsers :
                Kept(scores'[u], task, SubmissionsOf(u, submission'), Mine(u, submission', subchange'))
  <1>1. /\ submission' = [s \in Keys |-> IF s \in gone THEN NoUser ELSE submission[s]]
        /\ subchange' = [k \in ChangeKeys |-> IF subchange[k].submission \in gone THEN NoChange
                                              ELSE subchange[k]]
        /\ scores' = [u \in RankedUsers |->
                        DroppedAll(scores[u], gone \cap SubmissionsOf(u, submission))]
    BY DEF DropSubmissions, WithoutOrphans
  <1>2. SubsTyped(submission) /\ ChangesTyped(subchange) /\ StoresConsistent
    BY DEF StoresInv, StoresTyped
  <1>3. NoChange.submission = 0 /\ 0 \notin Keys /\ NoUser \notin RankedUsers
    BY RankingAssumption DEF NoChange
  <1>4. SubsTyped(submission')
    BY <1>1, <1>2 DEF SubsTyped
  <1>5. ChangesTyped(subchange')
    BY <1>1, <1>2 DEF ChangesTyped
  <1>6. scores' = [u \in RankedUsers |-> scores'[u]]
    BY <1>1
  <1>7. \A s \in Keys : submission'[s] # NoUser => s \notin gone /\ submission'[s] = submission[s]
    BY <1>1
  <1>8. ASSUME NEW k \in ChangeKeys, subchange'[k] # NoChange
        PROVE  submission'[subchange'[k].submission] # NoUser
    <2>1. subchange'[k] = subchange[k] /\ subchange[k].submission \notin gone
      BY <1>1, <1>8
    <2>2. subchange[k].submission \in Keys /\ submission[subchange[k].submission] # NoUser
      BY <1>2, <1>8, <2>1 DEF ChangesTyped, StoresConsistent
    <2> QED  BY <1>1, <2>1, <2>2
  <1>9. ASSUME NEW u \in RankedUsers
        PROVE  SubmissionsOf(u, submission') = SubmissionsOf(u, submission) \ gone
    BY <1>1, <1>3 DEF SubmissionsOf
  <1>10. ASSUME Settled, NEW u \in RankedUsers
         PROVE  Kept(scores'[u], task, SubmissionsOf(u, submission'), Mine(u, submission', subchange'))
    <2> DEFINE D == SubmissionsOf(u, submission)
               M == Mine(u, submission, subchange)
               lost == gone \cap D
    <2>1. Kept(scores[u], task, D, M)
      BY <1>10 DEF StoresInv, ScoresKept, KeptFor
    <2>2. D \subseteq Keys /\ lost \subseteq D
      BY DEF SubmissionsOf
    <2>3. Kept(DroppedAll(scores[u], lost), task, D \ lost, {x \in M : x.submission \notin lost})
      <3> HIDE DEF D, M, lost
      <3> QED  BY <2>1, <2>2, DroppedAllKept
    <2>4. scores'[u] = DroppedAll(scores[u], lost)
      BY <1>1
    <2>5. SubmissionsOf(u, submission') = D \ lost
      BY <1>9
    <2>6. ChangesOf(u, submission', subchange')
             = {k \in ChangesOf(u, submission, subchange) : subchange[k].submission \notin gone}
      <3>1. ASSUME NEW k \in ChangeKeys
            PROVE  subchange'[k].submission \in D \ gone
                     <=> subchange[k].submission \in D /\ subchange[k].submission \notin gone
        <4>1. CASE subchange[k].submission \in gone
          <5>1. subchange'[k].submission \notin Keys
            BY <1>1, <1>3, <4>1
          <5> QED  BY <2>2, <4>1, <5>1
        <4>2. CASE subchange[k].submission \notin gone
          BY <1>1, <4>2
        <4> QED  BY <4>1, <4>2
      <3>2. SubmissionsOf(u, submission') = D \ gone
        BY <1>9
      <3> HIDE DEF D
      <3>3. ChangesOf(u, submission', subchange') = {k \in ChangeKeys : subchange'[k].submission \in D \ gone}
        BY <3>2 DEF ChangesOf
      <3>4. ChangesOf(u, submission, subchange) = {k \in ChangeKeys : subchange[k].submission \in D}
        BY DEF ChangesOf, D
      <3> QED  BY <3>1, <3>3, <3>4
    <2>7. \A k \in ChangesOf(u, submission', subchange') : k \in ChangeKeys /\ subchange'[k] = subchange[k]
      BY <1>1, <2>6 DEF ChangesOf
    <2>8. \A k \in ChangesOf(u, submission, subchange) :
             /\ Change(k, subchange[k]).submission = subchange[k].submission
             /\ subchange[k].submission \in D
      BY <1>2, ChangesOfAre
    <2>9. Mine(u, submission', subchange') = {x \in M : x.submission \notin lost}
      <3>1. Mine(u, submission', subchange')
               = {Change(k, subchange[k]) : k \in ChangesOf(u, submission', subchange')}
        BY <2>7 DEF Mine
      <3>2. M = {Change(k, subchange[k]) : k \in ChangesOf(u, submission, subchange)}
        BY DEF Mine
      <3> HIDE DEF M, D
      <3> QED  BY <2>6, <2>8, <3>1, <3>2
    <2> HIDE DEF D, M, lost
    <2> QED  BY <2>3, <2>4, <2>5, <2>9
  <1> QED  BY <1>4, <1>5, <1>6, <1>7, <1>8, <1>9, <1>10

(* Some submissions are removed, and maybe users; who has one left stays.  *)
Removal(gone) ==
    /\ gone \subseteq {x \in Keys : submission[x] # NoUser}
    /\ DropSubmissions(gone)
    /\ contest' = contest /\ task' = task /\ moved' = moved /\ remoded' = remoded
    /\ team' \in BOOLEAN
    /\ user' \in [RankedUsers -> {"none", "alone", "team"}]
    /\ \A u \in RankedUsers : user'[u] = "team" => team'
    /\ \A x \in Keys : submission[x] # NoUser /\ x \notin gone => user'[submission[x]] # "none"

LEMMA RemoveStep ==
    ASSUME StoresInv,
           \/ \E s \in Keys : RemoveSubmission(s)
           \/ \E u \in RankedUsers : RemoveUser(u)
           \/ RemoveTeam
    PROVE  StoresInv'
  <1>0. NoUser \notin RankedUsers
    BY RankingAssumption
  <1>1. PICK gone : Removal(gone)
    <2>1. ASSUME NEW s \in Keys, RemoveSubmission(s)
          PROVE  \E gone : Removal(gone)
      <3>1. /\ {s} \subseteq {x \in Keys : submission[x] # NoUser} /\ DropSubmissions({s})
            /\ contest' = contest /\ task' = task /\ moved' = moved /\ remoded' = remoded
            /\ team' = team /\ user' = user
        BY <2>1 DEF RemoveSubmission
      <3>2. /\ team' \in BOOLEAN /\ user' \in [RankedUsers -> {"none", "alone", "team"}]
            /\ \A u \in RankedUsers : user'[u] = "team" => team'
            /\ \A x \in Keys : submission[x] # NoUser /\ x \notin {s} => user'[submission[x]] # "none"
        BY <3>1 DEF StoresInv, StoresTyped, StoresConsistent
      <3> QED  BY <3>1, <3>2 DEF Removal
    <2>2. ASSUME NEW us, us \subseteq RankedUsers, RemoveUsers(us),
                 contest' = contest, task' = task, moved' = moved, remoded' = remoded,
                 team' = team \/ (team' = FALSE /\ us = {u \in RankedUsers : user[u] = "team"})
          PROVE  \E gone : Removal(gone)
      <3> DEFINE gone == {s \in Keys : submission[s] \in us}
      <3>1. gone \subseteq {x \in Keys : submission[x] # NoUser}
        BY <1>0, <2>2
      <3>2. user' = [u \in RankedUsers |-> IF u \in us THEN "none" ELSE user[u]] /\ DropSubmissions(gone)
        BY <2>2 DEF RemoveUsers
      <3>3. user \in [RankedUsers -> {"none", "alone", "team"}] /\ team \in BOOLEAN
            /\ \A u \in RankedUsers : user[u] = "team" => team
        BY DEF StoresInv, StoresTyped, StoresConsistent
      <3>4. team' \in BOOLEAN /\ user' \in [RankedUsers -> {"none", "alone", "team"}]
            /\ \A u \in RankedUsers : user'[u] = "team" => team'
        BY <2>2, <3>2, <3>3
      <3>5. \A x \in Keys : submission[x] # NoUser /\ x \notin gone => user'[submission[x]] # "none"
        <4>1. \A x \in Keys : submission[x] # NoUser => submission[x] \in RankedUsers /\ user[submission[x]] # "none"
          BY DEF StoresInv, StoresTyped, StoresConsistent, SubsTyped
        <4> QED  BY <3>2, <4>1
      <3> HIDE DEF gone
      <3> QED  BY <2>2, <3>1, <3>2, <3>4, <3>5 DEF Removal
    <2>3. ASSUME NEW u \in RankedUsers, RemoveUser(u)
          PROVE  /\ {u} \subseteq RankedUsers /\ RemoveUsers({u}) /\ contest' = contest /\ task' = task
                 /\ moved' = moved /\ remoded' = remoded /\ team' = team
      BY <2>3 DEF RemoveUser
    <2>4. ASSUME RemoveTeam
          PROVE  /\ RemoveUsers({u \in RankedUsers : user[u] = "team"}) /\ contest' = contest
                 /\ task' = task /\ moved' = moved /\ remoded' = remoded /\ team' = FALSE
                 /\ {u \in RankedUsers : user[u] = "team"} \subseteq RankedUsers
      BY <2>4 DEF RemoveTeam
    <2>5. CASE \E s \in Keys : RemoveSubmission(s)
      BY <2>1, <2>5
    <2>6. CASE \E u \in RankedUsers : RemoveUser(u)
      BY <2>2, <2>3, <2>6
    <2>7. CASE RemoveTeam
      BY <2>2, <2>4, <2>7
    <2> QED  BY <2>5, <2>6, <2>7
  <1>2. /\ SubsTyped(submission') /\ ChangesTyped(subchange')
        /\ scores' = [u \in RankedUsers |-> scores'[u]]
        /\ \A s \in Keys : submission'[s] # NoUser => s \notin gone /\ submission'[s] = submission[s]
        /\ \A k \in ChangeKeys : subchange'[k] # NoChange => submission'[subchange'[k].submission] # NoUser
        /\ Settled => \A u \in RankedUsers :
             Kept(scores'[u], task, SubmissionsOf(u, submission'), Mine(u, submission', subchange'))
    BY <1>1, DropStep DEF Removal
  <1>3. StoresTyped'
    BY <1>1, <1>2 DEF StoresInv, StoresTyped, Removal
  <1>4. StoresConsistent'
    <2>1. task' # "none" => contest'
      BY <1>1 DEF StoresInv, StoresConsistent, Removal
    <2>2. \A s \in Keys : submission'[s] # NoUser => task' # "none" /\ user'[submission'[s]] # "none"
      BY <1>1, <1>2 DEF StoresInv, StoresConsistent, Removal
    <2> QED  BY <1>1, <1>2, <2>1, <2>2 DEF StoresConsistent, Removal
  <1>5. ScoresKept'
    BY <1>1, <1>2 DEF ScoresKept, KeptFor, Settled, Removal
  <1> QED  BY <1>3, <1>4, <1>5 DEF StoresInv

LEMMA RemoveAllStep ==
    ASSUME StoresInv, RemoveTask \/ RemoveContest
    PROVE  StoresInv'
  <1> DEFINE gone == {s \in Keys : submission[s] # NoUser}
  <1>1. /\ DropSubmissions(gone) /\ task' = "none" /\ contest' \in BOOLEAN
        /\ team' = team /\ user' = user /\ moved' = moved /\ remoded' = remoded
    BY DEF RemoveTask, RemoveContest, StoresInv, StoresTyped
  <1>2. /\ SubsTyped(submission') /\ ChangesTyped(subchange')
        /\ scores' = [u \in RankedUsers |-> scores'[u]]
        /\ \A s \in Keys : submission'[s] # NoUser => s \notin gone /\ submission'[s] = submission[s]
        /\ \A k \in ChangeKeys : subchange'[k] # NoChange => submission'[subchange'[k].submission] # NoUser
        /\ \A u \in RankedUsers : SubmissionsOf(u, submission') = SubmissionsOf(u, submission) \ gone
        /\ Settled => \A u \in RankedUsers :
             Kept(scores'[u], task, SubmissionsOf(u, submission'), Mine(u, submission', subchange'))
    <2>1. gone \subseteq {s \in Keys : submission[s] # NoUser}
      OBVIOUS
    <2> HIDE DEF gone
    <2> QED  BY <1>1, <2>1, DropStep
  <1>3. \A s \in Keys : submission'[s] = NoUser
    BY <1>2
  <1>4. \A u \in RankedUsers : SubmissionsOf(u, submission') = {}
    <2>1. NoUser \notin RankedUsers
      BY RankingAssumption
    <2> QED  BY <1>3, <2>1 DEF SubmissionsOf
  <1>5. StoresTyped'
    BY <1>1, <1>2 DEF StoresInv, StoresTyped
  <1>6. StoresConsistent'
    BY <1>1, <1>2, <1>3 DEF StoresInv, StoresConsistent
  <1>7. ScoresKept'
    BY <1>1, <1>2, <1>4 DEF ScoresKept, KeptFor, Settled, Kept
  <1> QED  BY <1>5, <1>6, <1>7 DEF StoresInv

LEMMA ReloadStep ==
    ASSUME StoresInv, NEW sub, NEW chg, Reload(user, sub, chg), SubsTyped(sub), ChangesTyped(chg),
           \A s \in Keys : sub[s] # NoUser => sub[s] = submission[s],
           \A k \in ChangeKeys : chg[k] # NoChange => sub[chg[k].submission] # NoUser
    PROVE  StoresInv'
  <1>1. /\ user' = user /\ submission' = sub /\ subchange' = chg /\ scores' = Rebuilt(task, sub, chg)
        /\ moved' = FALSE /\ remoded' = FALSE /\ contest' = contest /\ team' = team /\ task' = task
    BY DEF Reload
  <1>2. scores' = [u \in RankedUsers |-> scores'[u]]
    BY <1>1 DEF Rebuilt
  <1>3. StoresTyped'
    BY <1>1, <1>2 DEF StoresInv, StoresTyped
  <1>4. StoresConsistent'
    BY <1>1 DEF StoresInv, StoresConsistent
  <1>5. ScoresKept'
    BY <1>1, RebuiltKept DEF ScoresKept, KeptFor
  <1> QED  BY <1>3, <1>4, <1>5 DEF StoresInv

LEMMA RestartStep ==
    ASSUME StoresInv, RestartRanking \/ \E u \in RankedUsers : KilledWhileRemoving(u)
    PROVE  StoresInv'
  <1>1. SubsTyped(submission) /\ ChangesTyped(subchange) /\ StoresConsistent
    BY DEF StoresInv, StoresTyped
  <1>2. CASE RestartRanking
    BY <1>1, <1>2, ReloadStep DEF RestartRanking, StoresConsistent
  <1>3. ASSUME NEW u \in RankedUsers, KilledWhileRemoving(u)  PROVE StoresInv'
    <2>1. PICK gone \in SUBSET SubmissionsOf(u, submission) :
          \E lost \in SUBSET {k \in ChangeKeys : subchange[k].submission \in Keys
                                                  /\ submission[subchange[k].submission] = u} :
             /\ {k \in ChangeKeys : subchange[k].submission \in gone} \subseteq lost
             /\ Reload(user, [s \in Keys |-> IF s \in gone THEN NoUser ELSE submission[s]],
                       [k \in ChangeKeys |-> IF k \in lost THEN NoChange ELSE subchange[k]])
      BY <1>3 DEF KilledWhileRemoving
    <2>2. PICK lost :
             /\ {k \in ChangeKeys : subchange[k].submission \in gone} \subseteq lost
             /\ Reload(user, [s \in Keys |-> IF s \in gone THEN NoUser ELSE submission[s]],
                       [k \in ChangeKeys |-> IF k \in lost THEN NoChange ELSE subchange[k]])
      BY <2>1
    <2> DEFINE sub == [s \in Keys |-> IF s \in gone THEN NoUser ELSE submission[s]]
               chg == [k \in ChangeKeys |-> IF k \in lost THEN NoChange ELSE subchange[k]]
    <2>3. SubsTyped(sub)
      BY <1>1 DEF SubsTyped
    <2>4. ChangesTyped(chg)
      BY <1>1 DEF ChangesTyped
    <2>5. \A s \in Keys : sub[s] # NoUser => sub[s] = submission[s]
      OBVIOUS
    <2>6. ASSUME NEW k \in ChangeKeys, chg[k] # NoChange  PROVE sub[chg[k].submission] # NoUser
      <3>1. chg[k] = subchange[k] /\ k \notin lost
        BY <2>6
      <3>2. subchange[k].submission \in Keys /\ submission[subchange[k].submission] # NoUser
        BY <1>1, <2>6, <3>1 DEF ChangesTyped, StoresConsistent
      <3>3. subchange[k].submission \notin gone
        BY <2>2, <3>1
      <3> HIDE DEF chg
      <3> QED  BY <3>1, <3>2, <3>3
    <2>7. Reload(user, sub, chg)
      BY <2>2
    <2> HIDE DEF sub, chg
    <2> QED  BY <2>3, <2>4, <2>5, <2>6, <2>7, ReloadStep
  <1> QED  BY <1>2, <1>3

LEMMA PutStep ==
    ASSUME StoresInv,
           \/ PutContest \/ PutTeam \/ \E m \in Modes : PutTask(m)
           \/ \E u \in RankedUsers : PutUser(u, "alone") \/ PutUser(u, "team")
    PROVE  StoresInv'
  <1>1. /\ submission' = submission /\ subchange' = subchange /\ scores' = scores
        /\ moved' = moved
    BY DEF PutContest, PutTeam, PutTask, PutUser
  <1>2. CASE PutContest \/ PutTeam
    <2>1. /\ contest' \in BOOLEAN /\ team' \in BOOLEAN /\ (contest => contest') /\ (team => team')
          /\ task' = task /\ user' = user /\ remoded' = remoded
      BY <1>2 DEF PutContest, PutTeam, StoresInv, StoresTyped
    <2>2. StoresTyped'
      BY <1>1, <2>1 DEF StoresInv, StoresTyped
    <2>3. StoresConsistent'
      BY <1>1, <2>1 DEF StoresInv, StoresConsistent
    <2>4. ScoresKept'
      BY <1>1, <2>1 DEF StoresInv, ScoresKept, KeptFor, Settled
    <2> QED  BY <2>2, <2>3, <2>4 DEF StoresInv
  <1>3. ASSUME NEW u \in RankedUsers, PutUser(u, "alone") \/ PutUser(u, "team")  PROVE StoresInv'
    <2>1. PICK where \in {"alone", "team"} : user' = [user EXCEPT ![u] = where] /\ (where = "team" => team)
      BY <1>3 DEF PutUser
    <2>2. contest' = contest /\ team' = team /\ task' = task /\ remoded' = remoded
      BY <1>3 DEF PutUser
    <2>3. user \in [RankedUsers -> {"none", "alone", "team"}]
      BY DEF StoresInv, StoresTyped
    <2>4. StoresTyped'
      BY <1>1, <2>1, <2>2, <2>3 DEF StoresInv, StoresTyped
    <2>5. StoresConsistent'
      <3>1. \A v \in RankedUsers : user'[v] = "team" => team'
        BY <2>1, <2>2, <2>3 DEF StoresInv, StoresConsistent
      <3>2. \A v \in RankedUsers : user[v] # "none" => user'[v] # "none"
        BY <2>1, <2>3
      <3>3. \A s \in Keys : submission[s] # NoUser => submission[s] \in RankedUsers
        BY DEF StoresInv, StoresTyped, SubsTyped
      <3> QED  BY <1>1, <2>2, <3>1, <3>2, <3>3 DEF StoresInv, StoresConsistent
    <2>6. ScoresKept'
      BY <1>1, <2>2 DEF StoresInv, ScoresKept, KeptFor, Settled
    <2> QED  BY <2>4, <2>5, <2>6 DEF StoresInv
  <1>4. ASSUME NEW m \in Modes, PutTask(m)  PROVE StoresInv'
    <2>1. /\ contest /\ task' = m /\ contest' = contest /\ team' = team /\ user' = user
          /\ remoded' = (remoded \/ \E s \in Keys : submission[s] # NoUser) /\ Settled
      BY <1>4 DEF PutTask
    <2>2. m # "none"
      BY DEF Modes
    <2>3. StoresTyped'
      BY <1>1, <2>1 DEF StoresInv, StoresTyped
    <2>4. StoresConsistent'
      BY <1>1, <2>1, <2>2 DEF StoresInv, StoresConsistent
    <2>5. ScoresKept'
      <3> SUFFICES ASSUME Settled', NEW u \in RankedUsers  PROVE KeptFor(u)'
        BY DEF ScoresKept
      <3>1. \A s \in Keys : submission[s] = NoUser
        BY <2>1 DEF Settled
      <3>2. SubmissionsOf(u, submission) = {}
        BY <3>1, RankingAssumption DEF SubmissionsOf
      <3>3. KeptFor(u)
        BY <2>1 DEF StoresInv, ScoresKept
      <3> QED  BY <1>1, <3>2, <3>3 DEF KeptFor, Kept
    <2> QED  BY <2>3, <2>4, <2>5 DEF StoresInv
  <1> QED  BY <1>2, <1>3, <1>4

LEMMA PutSubmissionStep ==
    ASSUME StoresInv, NEW s \in Keys, NEW u \in RankedUsers, PutSubmission(s, u)
    PROVE  StoresInv'
  <1> DEFINE old == submission[s]
  <1>1. /\ Settled /\ task # "none" /\ user[u] # "none"
        /\ submission' = [submission EXCEPT ![s] = u]
        /\ scores' = [v \in RankedUsers |->
             CASE u = old /\ v = u -> [ResetHistory(scores[u]) EXCEPT !.mode = task]
               [] u # old /\ v = u -> Added(scores[u], s)
               [] u # old /\ v = old -> Dropped(scores[v], s)
               [] OTHER -> scores[v]]
        /\ moved' = (moved \/ submission[s] \notin {NoUser, u})
        /\ contest' = contest /\ team' = team /\ task' = task /\ user' = user
        /\ subchange' = subchange /\ remoded' = remoded
    BY DEF PutSubmission
  <1>2. SubsTyped(submission) /\ ChangesTyped(subchange) /\ NoUser \notin RankedUsers
    BY RankingAssumption DEF StoresInv, StoresTyped
  <1>3. StoresTyped'
    <2>1. SubsTyped(submission')
      BY <1>1, <1>2 DEF SubsTyped
    <2>2. scores' = [v \in RankedUsers |-> scores'[v]]
      BY <1>1
    <2>3. moved' \in BOOLEAN
      BY <1>1
    <2> QED  BY <1>1, <2>1, <2>2, <2>3 DEF StoresInv, StoresTyped
  <1>4. StoresConsistent'
    <2>1. \A x \in Keys : submission'[x] = submission[x] \/ submission'[x] = u
      BY <1>1, <1>2 DEF SubsTyped
    <2>2. \A x \in Keys : submission[x] # NoUser => submission'[x] # NoUser
      BY <1>1, <1>2 DEF SubsTyped
    <2>3. \A k \in ChangeKeys : subchange[k] # NoChange => subchange[k].submission \in Keys
      BY <1>2 DEF ChangesTyped
    <2> QED  BY <1>1, <2>1, <2>2, <2>3 DEF StoresInv, StoresConsistent
  <1>5. ScoresKept'
    <2> SUFFICES ASSUME Settled', NEW v \in RankedUsers  PROVE KeptFor(v)'
      BY DEF ScoresKept
    <2> DEFINE D == SubmissionsOf(v, submission)
               M == Mine(v, submission, subchange)
    <2>1. old = NoUser \/ old = u
      BY <1>1 DEF Settled
    <2>2. Kept(scores[v], task, D, M)
      BY <1>1 DEF StoresInv, ScoresKept, KeptFor
    <2>3. CASE old = u
      <3>1. submission' = submission
        BY <1>1, <1>2, <2>3 DEF SubsTyped
      <3>2. CASE v = u
        <4>1. scores'[v] = [ResetHistory(scores[v]) EXCEPT !.mode = task]
          BY <1>1, <2>3, <3>2
        <4>2. D # {}
          BY <2>3, <3>2 DEF SubmissionsOf
        <4> HIDE DEF D, M
        <4>3. Good(scores[v], task, D, M)
          BY <2>2, <4>2 DEF Kept
        <4>4. scores'[v] = scores[v]
          BY <4>1, <4>3, ResetGood
        <4> QED  BY <1>1, <2>2, <3>1, <4>4 DEF KeptFor, D, M
      <3>3. CASE v # u
        <4>1. scores'[v] = scores[v]
          BY <1>1, <2>3, <3>3
        <4> QED  BY <1>1, <2>2, <3>1, <4>1 DEF KeptFor
      <3> QED  BY <3>2, <3>3
    <2>4. CASE old = NoUser
      <3>1. \A k \in ChangeKeys : subchange[k].submission # s
        <4>1. 0 \notin Keys /\ NoChange.submission = 0
          BY RankingAssumption DEF NoChange
        <4> QED  BY <2>4, <4>1 DEF StoresInv, StoresConsistent
      <3>2. SubmissionsOf(v, submission') = IF v = u THEN D \cup {s} ELSE D
        BY <1>1, <1>2, <2>4 DEF SubmissionsOf, SubsTyped
      <3>3. ChangesOf(v, submission', subchange) = ChangesOf(v, submission, subchange)
        BY <3>1, <3>2 DEF ChangesOf
      <3>4. Mine(v, submission', subchange) = M
        BY <3>3 DEF Mine
      <3>5. CASE v = u
        <4>1. scores'[v] = Added(scores[v], s)
          BY <1>1, <1>2, <2>4, <3>5
        <4>2. s \notin D
          BY <1>2, <2>4 DEF SubmissionsOf
        <4>3. D = {} => M = {}
          BY NoMines
        <4> HIDE DEF D, M
        <4>4. Good(Added(scores[v], s), task, D \cup {s}, M)
          BY <1>1, <2>2, <4>2, <4>3, AddKept
        <4>5. D \cup {s} # {}
          OBVIOUS
        <4> QED  BY <1>1, <3>2, <3>4, <3>5, <4>1, <4>4, <4>5 DEF KeptFor, Kept
      <3>6. CASE v # u
        <4>1. scores'[v] = scores[v]
          BY <1>1, <1>2, <2>4, <3>6
        <4> QED  BY <1>1, <2>2, <3>2, <3>4, <3>6, <4>1 DEF KeptFor
      <3> QED  BY <3>5, <3>6
    <2> QED  BY <2>1, <2>3, <2>4
  <1> QED  BY <1>3, <1>4, <1>5 DEF StoresInv

LEMMA MineBut ==
    ASSUME NEW v, NEW sub, NEW chg, ChangesTyped(chg), NEW k \in ChangeKeys,
           NEW c \in [submission : Keys, value : Values] \cup {NoChange}
    PROVE  /\ Mine(v, sub, [chg EXCEPT ![k] = c])
                = {x \in Mine(v, sub, chg) : x.key # k}
                    \cup (IF c.submission \in SubmissionsOf(v, sub) THEN {Change(k, c)} ELSE {})
           /\ k \notin ChangesOf(v, sub, chg) => {x \in Mine(v, sub, chg) : x.key # k} = Mine(v, sub, chg)
           /\ k \in ChangesOf(v, sub, chg) => \E x \in Mine(v, sub, chg) : x.key = k
  <1> DEFINE new == [chg EXCEPT ![k] = c]
             D == SubmissionsOf(v, sub)
             before == ChangesOf(v, sub, chg)
             after == ChangesOf(v, sub, new)
  <1>1. new[k] = c /\ \A j \in ChangeKeys \ {k} : new[j] = chg[j]
    BY DEF ChangesTyped
  <1> HIDE DEF new
  <1>2. before = {j \in ChangeKeys : chg[j].submission \in D}
    BY DEF ChangesOf
  <1>3. after = {j \in ChangeKeys : new[j].submission \in D}
    BY DEF ChangesOf
  <1>4. Mine(v, sub, chg) = {Change(j, chg[j]) : j \in before}
        /\ Mine(v, sub, new) = {Change(j, new[j]) : j \in after}
    BY DEF Mine
  <1>5. \A j \in before : Change(j, chg[j]).key = j
    BY ChangesOfAre
  <1> HIDE DEF D, before, after
  <1>6. after = (before \ {k}) \cup (IF c.submission \in D THEN {k} ELSE {})
    BY <1>1, <1>2, <1>3
  <1>7. Mine(v, sub, new) = {x \in Mine(v, sub, chg) : x.key # k}
                              \cup (IF c.submission \in D THEN {Change(k, c)} ELSE {})
    <2>1. \A j \in before \ {k} : Change(j, new[j]) = Change(j, chg[j])
      BY <1>1, <1>2
    <2>2. {x \in Mine(v, sub, chg) : x.key # k} = {Change(j, new[j]) : j \in before \ {k}}
      BY <1>4, <1>5, <2>1
    <2>3. CASE c.submission \in D
      BY <1>1, <1>4, <1>6, <2>2, <2>3
    <2>4. CASE c.submission \notin D
      BY <1>4, <1>6, <2>2, <2>4
    <2> QED  BY <2>3, <2>4
  <1>8. k \notin before => {x \in Mine(v, sub, chg) : x.key # k} = Mine(v, sub, chg)
    BY <1>4, <1>5
  <1>9. k \in before => \E x \in Mine(v, sub, chg) : x.key = k
    BY <1>4, <1>5
  <1> QED  BY <1>7, <1>8, <1>9 DEF new, D, before

LEMMA DeleteSubchangeStep ==
    ASSUME StoresInv, NEW k \in ChangeKeys, DeleteSubchange(k)
    PROVE  StoresInv'
  <1> DEFINE s == subchange[k].submission
             w == submission[s]
  <1>1. /\ subchange[k] # NoChange /\ subchange' = [subchange EXCEPT ![k] = NoChange]
        /\ scores' = [scores EXCEPT ![w] = DeleteChange(@, k)]
        /\ contest' = contest /\ team' = team /\ task' = task /\ user' = user
        /\ submission' = submission /\ moved' = moved /\ remoded' = remoded
    BY DEF DeleteSubchange
  <1>2. SubsTyped(submission) /\ ChangesTyped(subchange) /\ scores = [u \in RankedUsers |-> scores[u]]
    BY DEF StoresInv, StoresTyped
  <1>3. s \in Keys /\ w # NoUser
    BY <1>1, <1>2 DEF StoresInv, StoresConsistent, ChangesTyped
  <1>4. w \in RankedUsers
    BY <1>2, <1>3 DEF SubsTyped
  <1>5. StoresTyped'
    <2>1. ChangesTyped(subchange')
      BY <1>1, <1>2 DEF ChangesTyped
    <2>2. scores' = [u \in RankedUsers |-> scores'[u]]
      BY <1>1, <1>2
    <2> QED  BY <1>1, <2>1, <2>2 DEF StoresInv, StoresTyped
  <1>6. StoresConsistent'
    <2>1. \A j \in ChangeKeys : subchange'[j] # NoChange => subchange'[j] = subchange[j]
      BY <1>1, <1>2 DEF ChangesTyped
    <2> QED  BY <1>1, <2>1 DEF StoresInv, StoresConsistent
  <1>7. ScoresKept'
    <2> SUFFICES ASSUME Settled, NEW v \in RankedUsers  PROVE KeptFor(v)'
      BY <1>1 DEF ScoresKept, Settled
    <2> DEFINE D == SubmissionsOf(v, submission)
               M == Mine(v, submission, subchange)
    <2>1. Kept(scores[v], task, D, M)
      BY DEF StoresInv, ScoresKept, KeptFor
    <2>2. NoChange.submission \notin D
      BY RankingAssumption DEF NoChange, SubmissionsOf
    <2>3. /\ Mine(v, submission, subchange') = {x \in M : x.key # k}
          /\ k \notin ChangesOf(v, submission, subchange) => {x \in M : x.key # k} = M
      <3>1. /\ Mine(v, submission, [subchange EXCEPT ![k] = NoChange])
                 = {x \in M : x.key # k}
                     \cup (IF NoChange.submission \in D THEN {Change(k, NoChange)} ELSE {})
            /\ k \notin ChangesOf(v, submission, subchange) => {x \in M : x.key # k} = M
        BY <1>2, MineBut
      <3> HIDE DEF D, M
      <3> QED  BY <1>1, <2>2, <3>1
    <2>4. CASE v = w
      <3>1. scores'[v] = DeleteChange(scores[v], k)
        BY <1>1, <1>2, <1>4, <2>4
      <3>2. D # {}
        BY <1>3, <2>4 DEF SubmissionsOf
      <3> HIDE DEF D, M
      <3>3. Good(DeleteChange(scores[v], k), task, D, {x \in M : x.key # k})
        BY <2>1, <3>2, DeleteGood DEF Kept
      <3>4. Kept(scores'[v], task, D, {x \in M : x.key # k})
        BY <3>1, <3>2, <3>3 DEF Kept
      <3> QED  BY <1>1, <2>3, <3>4 DEF KeptFor, D
    <2>5. CASE v # w
      <3>1. scores'[v] = scores[v]
        BY <1>1, <1>2, <2>5
      <3>2. k \notin ChangesOf(v, submission, subchange)
        BY <2>5 DEF ChangesOf, SubmissionsOf
      <3>3. {x \in M : x.key # k} = M
        BY <2>3, <3>2
      <3> HIDE DEF D, M
      <3>4. Kept(scores'[v], task, D, {x \in M : x.key # k})
        BY <2>1, <3>1, <3>3
      <3> QED  BY <1>1, <2>3, <3>4 DEF KeptFor, D
    <2> QED  BY <2>4, <2>5
  <1> QED  BY <1>5, <1>6, <1>7 DEF StoresInv

LEMMA PutSubchangeStep ==
    ASSUME StoresInv, NEW k \in ChangeKeys, NEW s \in Keys, NEW value \in Values,
           PutSubchange(k, s, value)
    PROVE  StoresInv'
  <1> DEFINE old == subchange[k].submission
             new == [submission |-> s, value |-> value]
             u == submission[s]
             w == submission[old]
             taken == IF old \in Keys \ {s} THEN [scores EXCEPT ![w] = DeleteChange(@, k)] ELSE scores
  <1>1. SubsTyped(submission) /\ ChangesTyped(subchange) /\ scores = [v \in RankedUsers |-> scores[v]]
    BY DEF StoresInv, StoresTyped
  <1>2. /\ Settled /\ u # NoUser /\ subchange' = [subchange EXCEPT ![k] = new]
        /\ scores' = [taken EXCEPT ![u] = IF old = s THEN UpdateChange(@, k, subchange'[k])
                                          ELSE CreateChange(@, k, subchange'[k])]
        /\ contest' = contest /\ team' = team /\ task' = task /\ user' = user
        /\ submission' = submission /\ moved' = moved /\ remoded' = remoded
    BY DEF PutSubchange
  <1>3. subchange'[k] = new
    BY <1>1, <1>2 DEF ChangesTyped
  <1>4. new \in [submission : Keys, value : Values] /\ new.submission = s /\ new.value = value
    OBVIOUS
  <1>5. u \in RankedUsers
    BY <1>1, <1>2 DEF SubsTyped
  <1>6. old \in Keys => w \in RankedUsers
    <2>1. NoChange.submission = 0 /\ 0 \notin Keys
      BY RankingAssumption DEF NoChange
    <2>2. old \in Keys => submission[old] # NoUser
      BY <2>1 DEF StoresInv, StoresConsistent
    <2> QED  BY <1>1, <2>2 DEF SubsTyped
  <1> HIDE DEF new
  <1>7. taken = [v \in RankedUsers |-> taken[v]]
    BY <1>1, <1>6
  <1>8. StoresTyped'
    <2>1. ChangesTyped(subchange')
      BY <1>1, <1>2, <1>4 DEF ChangesTyped
    <2>2. scores' = [v \in RankedUsers |-> scores'[v]]
      <3> HIDE DEF taken
      <3> QED  BY <1>2, <1>7
    <2> QED  BY <1>2, <2>1, <2>2 DEF StoresInv, StoresTyped
  <1>9. StoresConsistent'
    <2>1. \A j \in ChangeKeys : subchange'[j] = IF j = k THEN new ELSE subchange[j]
      BY <1>1, <1>2 DEF ChangesTyped
    <2> QED  BY <1>2, <1>4, <2>1 DEF StoresInv, StoresConsistent
  <1>10. ScoresKept'
    <2> SUFFICES ASSUME NEW v \in RankedUsers  PROVE KeptFor(v)'
      BY DEF ScoresKept
    <2> DEFINE D == SubmissionsOf(v, submission)
               M == Mine(v, submission, subchange)
               N == {x \in M : x.key # k}
    <2>1. Kept(scores[v], task, D, M)
      BY <1>2 DEF StoresInv, ScoresKept, KeptFor
    <2>2. s \in D <=> v = u
      BY DEF SubmissionsOf
    <2>3. old \in D <=> old \in Keys /\ v = w
      BY DEF SubmissionsOf
    <2>4. k \in ChangesOf(v, submission, subchange) <=> old \in D
      BY DEF ChangesOf
    <2>5. /\ Mine(v, submission, subchange') = N \cup (IF new.submission \in D THEN {Change(k, new)} ELSE {})
          /\ old \notin D => N = M
          /\ old \in D => \E x \in M : x.key = k
      <3>1. /\ Mine(v, submission, [subchange EXCEPT ![k] = new])
                 = N \cup (IF new.submission \in D THEN {Change(k, new)} ELSE {})
            /\ k \notin ChangesOf(v, submission, subchange) => N = M
            /\ k \in ChangesOf(v, submission, subchange) => \E x \in M : x.key = k
        <4>1. new \in [submission : Keys, value : Values] \cup {NoChange}
          BY <1>4
        <4> QED  BY <1>1, <4>1, MineBut
      <3> HIDE DEF D, M, N
      <3> QED  BY <1>2, <2>4, <3>1
    <2>6. \A x \in N : x.key # k
      OBVIOUS
    <2>7. D # {} => Good(scores[v], task, D, M)
      BY <2>1 DEF Kept
    <2>8. Mine(v, submission, subchange') = IF v = u THEN N \cup {Change(k, new)} ELSE N
      <3> HIDE DEF D, M, N
      <3> QED  BY <1>4, <2>2, <2>5
    <2>9. old # s => Kept(taken[v], task, D, N)
      <3> SUFFICES ASSUME old # s  PROVE Kept(taken[v], task, D, N)
        OBVIOUS
      <3>1. CASE old \in D
        <4>1. old \in Keys /\ v = w
          BY <2>3, <3>1
        <4>2. taken[v] = DeleteChange(scores[v], k)
          BY <1>1, <1>6, <4>1
        <4>3. Good(DeleteChange(scores[v], k), task, D, N)
          BY <2>7, <3>1, DeleteGood
        <4> HIDE DEF D, M, N, taken
        <4> QED  BY <3>1, <4>2, <4>3 DEF Kept
      <3>2. CASE old \notin D
        <4>1. taken[v] = scores[v]
          BY <1>1, <1>6, <2>3, <3>2
        <4>2. N = M
          BY <2>5, <3>2
        <4> HIDE DEF D, M, N, taken
        <4> QED  BY <2>1, <4>1, <4>2
      <3> QED  BY <3>1, <3>2
    <2>10. CASE v # u
      <3>1. scores'[v] = taken[v]
        <4> HIDE DEF taken
        <4> QED  BY <1>2, <1>7, <2>10
      <3>2. Kept(taken[v], task, D, N)
        <4>1. CASE old = s
          <5>1. taken[v] = scores[v]
            BY <4>1
          <5>2. old \notin D
            BY <2>2, <2>10, <4>1
          <5>3. N = M
            BY <2>5, <5>2
          <5> HIDE DEF D, M, N, taken
          <5> QED  BY <2>1, <5>1, <5>3
        <4> QED  BY <2>9, <4>1
      <3> HIDE DEF N, taken
      <3> QED  BY <1>2, <2>8, <2>10, <3>1, <3>2 DEF KeptFor
    <2>11. CASE v = u
      <3>1. s \in D /\ D # {}
        BY <2>2, <2>11
      <3>2. Good(scores'[v], task, D, N \cup {Change(k, new)})
        <4>1. CASE old = s
          <5>1. taken = scores
            BY <4>1
          <5>2. scores'[v] = UpdateChange(scores[v], k, new)
            <6> HIDE DEF taken
            <6> QED  BY <1>1, <1>2, <1>3, <2>11, <4>1, <5>1
          <5>3. \E x \in M : x.key = k
            BY <2>5, <3>1, <4>1
          <5> HIDE DEF D, M
          <5>4. Good(UpdateChange(scores[v], k, new), task, D, N \cup {Change(k, new)})
            BY <1>4, <2>7, <3>1, <5>3, UpdateGood
          <5> QED  BY <5>2, <5>4
        <4>2. CASE old # s
          <5>1. scores'[v] = CreateChange(taken[v], k, new)
            <6> HIDE DEF taken
            <6> QED  BY <1>2, <1>3, <1>7, <2>11, <4>2
          <5> HIDE DEF D, M, N, taken
          <5>2. Good(taken[v], task, D, N)
            BY <2>9, <3>1, <4>2 DEF Kept
          <5>3. Good(CreateChange(taken[v], k, new), task, D, N \cup {Change(k, new)})
            BY <1>4, <2>6, <3>1, <5>2, CreateGood
          <5> QED  BY <5>1, <5>3
        <4> QED  BY <4>1, <4>2
      <3> HIDE DEF N
      <3>3. Kept(scores'[v], task, D, N \cup {Change(k, new)})
        BY <3>1, <3>2 DEF Kept
      <3> QED  BY <1>2, <2>8, <2>11, <3>3 DEF KeptFor
    <2> QED  BY <2>10, <2>11
  <1> QED  BY <1>8, <1>9, <1>10 DEF StoresInv

LEMMA StoresStart == StoresInit => StoresInv
  <1> SUFFICES ASSUME StoresInit  PROVE StoresInv
    OBVIOUS
  <1> USE DEF StoresInit
  <1>1. StoresTyped
    BY DEF StoresTyped, SubsTyped, ChangesTyped
  <1>2. StoresConsistent
    BY DEF StoresConsistent
  <1>3. ASSUME NEW u \in RankedUsers  PROVE KeptFor(u)
    <2>1. SubmissionsOf(u, submission) = {}
      BY RankingAssumption DEF SubmissionsOf
    <2> QED  BY <2>1 DEF KeptFor, Kept
  <1> QED  BY <1>1, <1>2, <1>3 DEF StoresInv, ScoresKept

LEMMA StoresStep == StoresInv /\ [StoresNext]_storesVars => StoresInv'
  <1> SUFFICES ASSUME StoresInv, [StoresNext]_storesVars  PROVE StoresInv'
    OBVIOUS
  <1>1. CASE UNCHANGED storesVars
    BY <1>1 DEF storesVars, storeVars, StoresInv, StoresTyped, StoresConsistent, ScoresKept, KeptFor, Settled
  <1>2. ASSUME NEW s \in Keys, NEW u \in RankedUsers, PutSubmission(s, u)  PROVE StoresInv'
    BY <1>2, PutSubmissionStep
  <1>3. ASSUME NEW k \in ChangeKeys, DeleteSubchange(k)  PROVE StoresInv'
    BY <1>3, DeleteSubchangeStep
  <1>4. ASSUME NEW k \in ChangeKeys, NEW s \in Keys, NEW v \in Values, PutSubchange(k, s, v)
        PROVE  StoresInv'
    BY <1>4, PutSubchangeStep
  <1>5. CASE \/ PutContest \/ PutTeam \/ \E m \in Modes : PutTask(m)
             \/ \E u \in RankedUsers : PutUser(u, "alone") \/ PutUser(u, "team")
    BY <1>5, PutStep
  <1>6. CASE \/ \E s \in Keys : RemoveSubmission(s)
             \/ \E u \in RankedUsers : RemoveUser(u)
             \/ RemoveTeam
    BY <1>6, RemoveStep
  <1>7. CASE RemoveTask \/ RemoveContest
    BY <1>7, RemoveAllStep
  <1>8. CASE RestartRanking \/ \E u \in RankedUsers : KilledWhileRemoving(u)
    BY <1>8, RestartStep
  <1> QED  BY <1>1, <1>2, <1>3, <1>4, <1>5, <1>6, <1>7, <1>8 DEF StoresNext

LEMMA HistoriesRebuilt == StoresInv => HistoryAsRebuilt
  <1> SUFFICES ASSUME StoresInv, Settled, NEW u \in RankedUsers
               PROVE  scores[u] = Rebuilt(task, submission, subchange)[u]
    BY DEF HistoryAsRebuilt
  <1> DEFINE D == SubmissionsOf(u, submission)
             M == Mine(u, submission, subchange)
             r == Rebuilt(task, submission, subchange)[u]
  <1>1. Kept(scores[u], task, D, M)
    BY DEF StoresInv, ScoresKept, KeptFor
  <1>2. Kept(r, task, D, M)
    BY RebuiltKept DEF StoresInv, StoresTyped
  <1> HIDE DEF D, M, r
  <1>3. scores[u] = r
    <2>1. CASE D = {}
      BY <1>1, <1>2, <2>1 DEF Kept
    <2>2. CASE D # {}
      BY <1>1, <1>2, <2>2, GoodOnce DEF Kept
    <2> QED  BY <2>1, <2>2
  <1> QED  BY <1>3 DEF r

-----------------------------------------------------------------------------
(* Whatever was moved, a Score has a list of changes and a history.        *)

WellFormed(sc) ==
    \E mode, D, ch : D \subseteq Keys /\ ch \in Seq(ChangeRec) /\ ScoreIs(sc, mode, D, ch)

LEMMA ReplayWell ==
    ASSUME NEW mode, NEW D, D \subseteq Keys, NEW ch \in Seq(ChangeRec)
    PROVE  WellFormed(Replay(mode, D, ch))
  BY ReplayIsScore DEF WellFormed

LEMMA KeptWell ==
    ASSUME NEW sc, NEW mode, NEW D, NEW M, Kept(sc, mode, D, M)
    PROVE  WellFormed(sc)
  <1>1. CASE D = {}
    <2> DEFINE none == <<>>
    <2>1. none \in Seq(ChangeRec)
      OBVIOUS
    <2>2. sc = Fresh("none", {}, none)
      BY <1>1 DEF Kept, NewScore
    <2> HIDE DEF none
    <2>3. ScoreIs(sc, "none", {}, none)
      BY <2>2, FreshTyped
    <2> QED  BY <2>1, <2>3 DEF WellFormed
  <1>2. CASE D # {}
    <2>1. Good(sc, mode, D, M)
      BY <1>2 DEF Kept
    <2>2. PICK ch : Lists(ch, M) /\ ScoreIs(sc, mode, D, ch)
      BY <2>1, GoodList
    <2> QED  BY <2>1, <2>2 DEF WellFormed, Good, Lists
  <1> QED  BY <1>1, <1>2

LEMMA SelectedSeq ==
    ASSUME NEW S, NEW list \in Seq(S), NEW at
    PROVE  Selected(list, at) \in Seq(S)
  <1>1. PICK n \in Nat : n = Len(list)
    OBVIOUS
  <1>2. PICK f : Selects(f, list, at) /\ Selected(list, at) = f[n]
    BY <1>1, SelectedIs
  <1> DEFINE U == {m \in Nat : m <= n => f[m] \in Seq(S)}
  <1>3. 0 \in U
    <2>1. f[0] = <<>>
      BY <1>2 DEF Selects
    <2>2. f[0] \in Seq(S)
      BY <2>1
    <2> QED  BY <2>2
  <1>4. ASSUME NEW m \in Nat, m \in U  PROVE m + 1 \in U
    <2> SUFFICES ASSUME m + 1 <= n  PROVE f[m + 1] \in Seq(S)
      OBVIOUS
    <2>1. f[m] \in Seq(S) /\ m + 1 \in 1 .. n /\ (m + 1) - 1 = m /\ list[m + 1] \in S
      BY <1>1, <1>4
    <2>2. f[m + 1] = IF m + 1 \in at THEN Append(f[m], list[m + 1]) ELSE f[m]
      BY <1>1, <1>2, <2>1 DEF Selects
    <2> QED  BY <2>1, <2>2
  <1>5. Nat \subseteq U
    <2> HIDE DEF U
    <2> QED  BY <1>3, <1>4, SetInduction
  <1> QED  BY <1>2, <1>5

LEMMA ResetWell ==
    ASSUME NEW sc, WellFormed(sc), NEW new \in Seq(ChangeRec)
    PROVE  WellFormed(ResetHistory(WithChanges(sc, new)))
  <1>1. PICK mode, D, ch : D \subseteq Keys /\ ScoreIs(sc, mode, D, ch)
    BY DEF WellFormed
  <1>2. ResetHistory(WithChanges(sc, new)) = Replay(mode, D, new)
    BY <1>1, ResetWith
  <1> QED  BY <1>1, <1>2, ReplayWell

LEMMA ListWell ==
    ASSUME NEW sc, WellFormed(sc)
    PROVE  sc.changes \in Seq(ChangeRec)
  BY DEF WellFormed, ScoreIs

LEMMA CreateWell ==
    ASSUME NEW sc, WellFormed(sc), NEW k, NEW c, Change(k, c) \in ChangeRec
    PROVE  WellFormed(CreateChange(sc, k, c))
  <1> DEFINE p == Place(sc.changes, k)
             later == {i \in DOMAIN sc.changes : Before(k, sc.changes[i].key)}
  <1>1. PICK new : new = Change(k, c)
    OBVIOUS
  <1>2. PICK mode, D, ch : D \subseteq Keys /\ ch \in Seq(ChangeRec) /\ ScoreIs(sc, mode, D, ch)
    BY DEF WellFormed
  <1>3. sc.changes = ch
    BY <1>2 DEF ScoreIs
  <1>4. CreateChange(sc, k, c) =
           IF p = 0 THEN AppendChange(WithChanges(sc, Append(ch, new)), new)
           ELSE ResetHistory(WithChanges(sc, Inserted(ch, p, new)))
    BY <1>1, <1>3 DEF CreateChange
  <1>5. CASE p = 0
    <2> DEFINE l == Append(ch, new)
    <2>1. l \in Seq(ChangeRec)
      BY <1>1, <1>2
    <2> HIDE DEF l
    <2>2. ScoreIs(WithChanges(sc, l), mode, D, l)
      BY <1>2 DEF ScoreIs, WithChanges
    <2>3. ScoreIs(AppendChange(WithChanges(sc, l), new), mode, D, l)
      BY <1>1, <1>2, <2>2, AppendTyped
    <2>4. WellFormed(AppendChange(WithChanges(sc, l), new))
      BY <1>2, <2>1, <2>3 DEF WellFormed
    <2> HIDE DEF p
    <2> QED  BY <1>4, <1>5, <2>4 DEF l
  <1>6. CASE p # 0
    <2>1. later # {} /\ p = Min(later)
      BY <1>6 DEF Place
    <2>2. later \subseteq 1 .. Len(ch) /\ later \subseteq Nat
      BY <1>2, <1>3
    <2>3. p \in 1 .. Len(ch)
      <3> HIDE DEF later, p
      <3> QED  BY <2>1, <2>2, LeastIs
    <2> HIDE DEF later, p
    <2>4. Inserted(ch, p, new) \in Seq(ChangeRec)
      <3>1. PICK n \in Nat : n = Len(ch) /\ \A i \in 1 .. n : ch[i] \in ChangeRec
        BY <1>2
      <3>2. \A i \in 1 .. (n + 1) : \/ i < p /\ i \in 1 .. n
                                    \/ i = p
                                    \/ ~(i < p) /\ i # p /\ i - 1 \in 1 .. n
        BY <2>3, <3>1
      <3>3. Inserted(ch, p, new) \in [1 .. (n + 1) -> ChangeRec]
        BY <1>1, <3>1, <3>2 DEF Inserted
      <3>4. n + 1 \in Nat
        OBVIOUS
      <3> QED  BY <3>3, <3>4
    <2> QED  BY <1>4, <1>6, <2>4, ResetWell
  <1> QED  BY <1>5, <1>6

LEMMA UpdateWell ==
    ASSUME NEW sc, WellFormed(sc), NEW k, NEW c, Change(k, c) \in ChangeRec
    PROVE  WellFormed(UpdateChange(sc, k, c)) /\ WellFormed(DeleteChange(sc, k))
  <1> DEFINE l == [i \in DOMAIN sc.changes |-> IF sc.changes[i].key = k THEN Change(k, c) ELSE sc.changes[i]]
             m == Selected(sc.changes, {i \in DOMAIN sc.changes : sc.changes[i].key # k})
  <1>1. PICK ch : ch \in Seq(ChangeRec) /\ ch = sc.changes
    BY ListWell
  <1>2. l \in Seq(ChangeRec)
    <2>1. PICK n \in Nat : n = Len(ch) /\ DOMAIN ch = 1 .. n /\ \A i \in 1 .. n : ch[i] \in ChangeRec
      BY <1>1
    <2>2. l \in [1 .. n -> ChangeRec]
      BY <1>1, <2>1
    <2> QED  BY <2>2
  <1>3. m \in Seq(ChangeRec)
    BY <1>1, SelectedSeq
  <1>4. UpdateChange(sc, k, c) = ResetHistory(WithChanges(sc, l))
    BY DEF UpdateChange
  <1>5. DeleteChange(sc, k) = ResetHistory(WithChanges(sc, m))
    BY DEF DeleteChange
  <1> HIDE DEF l, m
  <1> QED  BY <1>2, <1>3, <1>4, <1>5, ResetWell

LEMMA AddWell ==
    ASSUME NEW sc, WellFormed(sc), NEW s \in Keys
    PROVE  WellFormed(Added(sc, s))
  <1>1. WellFormed(NewScore(task))
    <2> DEFINE none == <<>>
    <2>1. none \in Seq(ChangeRec)
      OBVIOUS
    <2>2. NewScore(task) = Fresh(task, {}, none)
      BY DEF NewScore
    <2> HIDE DEF none
    <2>3. ScoreIs(NewScore(task), task, {}, none)
      BY <2>2, FreshTyped
    <2> QED  BY <2>1, <2>3 DEF WellFormed
  <1>2. PICK x : WellFormed(x) /\ Added(sc, s) = AddSubmission(x, s)
    BY <1>1 DEF Added
  <1>3. PICK mode, D, ch : D \subseteq Keys /\ ch \in Seq(ChangeRec) /\ ScoreIs(x, mode, D, ch)
    BY <1>2 DEF WellFormed
  <1>4. Blank \in SubState
    BY DEF Blank, SubState
  <1>5. ScoreIs(AddSubmission(x, s), mode, D \cup {s}, ch)
    <2> DEFINE subs == [k \in DOMAIN x.submissions \cup {s} |-> IF k = s THEN Blank ELSE x.submissions[k]]
    <2>1. subs \in [D \cup {s} -> SubState]
      BY <1>3, <1>4 DEF ScoreIs
    <2>2. AddSubmission(x, s) = [mode |-> x.mode, changes |-> x.changes, last |-> x.last,
                                 history |-> x.history, submissions |-> subs]
      BY DEF AddSubmission
    <2> HIDE DEF subs
    <2> QED  BY <1>3, <2>1, <2>2 DEF ScoreIs
  <1> QED  BY <1>2, <1>3, <1>5 DEF WellFormed

LEMMA ModeWell ==
    ASSUME NEW sc, WellFormed(sc), NEW m
    PROVE  WellFormed([ResetHistory(sc) EXCEPT !.mode = m])
  <1>1. PICK mode, D, ch : D \subseteq Keys /\ ch \in Seq(ChangeRec) /\ ScoreIs(sc, mode, D, ch)
    BY DEF WellFormed
  <1>2. ResetHistory(sc) = Replay(mode, D, ch)
    BY <1>1, ResetReplay
  <1>3. PICK r : r = ResetHistory(sc) /\ ScoreIs(r, mode, D, ch)
    BY <1>1, <1>2, ReplayIsScore
  <1>4. ScoreIs([r EXCEPT !.mode = m], m, D, ch)
    <2>1. [r EXCEPT !.mode = m] = [mode |-> m, submissions |-> r.submissions, changes |-> ch,
                                   last |-> r.last, history |-> r.history]
      BY <1>3 DEF ScoreIs
    <2> QED  BY <1>3, <2>1 DEF ScoreIs
  <1> QED  BY <1>1, <1>3, <1>4 DEF WellFormed

LEMMA DropWell ==
    ASSUME NEW sc, WellFormed(sc), NEW s
    PROVE  WellFormed(Dropped(sc, s))
  <1>1. PICK mode, D, ch : D \subseteq Keys /\ ch \in Seq(ChangeRec) /\ ScoreIs(sc, mode, D, ch)
    BY DEF WellFormed
  <1>2. sc.changes = ch /\ sc.mode = mode /\ DOMAIN sc.submissions = D
    BY <1>1 DEF ScoreIs
  <1> DEFINE l == Selected(ch, {i \in DOMAIN ch : ch[i].submission # s})
             rest == [mode |-> sc.mode, last |-> sc.last, history |-> sc.history,
                      submissions |-> [k \in D \ {s} |-> sc.submissions[k]], changes |-> l]
  <1>3. l \in Seq(ChangeRec)
    BY <1>1, SelectedSeq
  <1>4. DeleteSubmission(sc, s) = ResetHistory(rest)
    BY <1>2 DEF DeleteSubmission
  <1> HIDE DEF l
  <1>5. rest.mode = mode /\ DOMAIN rest.submissions = D \ {s} /\ rest.changes = l
    BY <1>2
  <1> HIDE DEF rest
  <1>6. DeleteSubmission(sc, s) = Replay(mode, D \ {s}, l)
    BY <1>4, <1>5 DEF ResetHistory
  <1>7. WellFormed(DeleteSubmission(sc, s))
    BY <1>1, <1>3, <1>6, ReplayWell
  <1>8. WellFormed(NewScore("none"))
    BY KeptWell DEF Kept
  <1> QED  BY <1>7, <1>8 DEF Dropped

LEMMA DroppedAllWell ==
    ASSUME NEW sc, WellFormed(sc), NEW gone, IsFiniteSet(gone)
    PROVE  WellFormed(DroppedAll(sc, gone))
  <1>1. PICK f : DropsAll(f, sc, SUBSET gone) /\ DroppedAll(sc, gone) = f[gone]
    BY DroppedAllIs
  <1> DEFINE T == {n \in Nat : \A g \in SUBSET gone : Cardinality(g) = n => WellFormed(f[g])}
  <1>2. \A s \in SUBSET gone : IsFiniteSet(s) /\ Cardinality(s) \in Nat
    BY FS_Subset, FS_CardinalityType
  <1>3. 0 \in T
    <2> SUFFICES ASSUME NEW g \in SUBSET gone, Cardinality(g) = 0  PROVE WellFormed(f[g])
      OBVIOUS
    <2>1. g = {}
      BY <1>2, FS_EmptySet
    <2>2. f[g] = sc
      BY <1>1, <2>1 DEF DropsAll
    <2> QED  BY <2>2
  <1>4. ASSUME NEW n \in Nat, n \in T  PROVE n + 1 \in T
    <2> SUFFICES ASSUME NEW g \in SUBSET gone, Cardinality(g) = n + 1  PROVE WellFormed(f[g])
      OBVIOUS
    <2>1. g # {}
      BY FS_EmptySet
    <2>2. PICK x : x = AnyOf(g)
      OBVIOUS
    <2>3. x \in g /\ Cardinality(g \ {x}) = Cardinality(g) - 1
      BY <1>2, <2>1, <2>2, AnyOfIs
    <2>4. PICK h : h = g \ {x}
      OBVIOUS
    <2>5. h \in SUBSET gone /\ Cardinality(h) = n
      BY <2>3, <2>4
    <2>6. WellFormed(f[h])
      BY <1>4, <2>5
    <2>7. f[g] = Dropped(f[h], x)
      BY <1>1, <2>1, <2>2, <2>4 DEF DropsAll
    <2> QED  BY <2>6, <2>7, DropWell
  <1>5. Nat \subseteq T
    <2> HIDE DEF T
    <2> QED  BY <1>3, <1>4, SetInduction
  <1> QED  BY <1>1, <1>2, <1>5

ScoresWell == \A u \in RankedUsers : WellFormed(scores[u])

LEMMA WellStart == StoresInit => ScoresWell
  BY KeptWell DEF StoresInit, ScoresWell, Kept

LEMMA WellStep == StoresInv /\ ScoresWell /\ [StoresNext]_storesVars => ScoresWell'
  <1> SUFFICES ASSUME StoresInv, ScoresWell, [StoresNext]_storesVars  PROVE ScoresWell'
    OBVIOUS
  <1>0. /\ SubsTyped(submission) /\ ChangesTyped(subchange) /\ scores = [v \in RankedUsers |-> scores[v]]
        /\ StoresConsistent
    BY DEF StoresInv, StoresTyped
  <1>1. ASSUME scores' = scores  PROVE ScoresWell'
    BY <1>1 DEF ScoresWell
  <1>2. ASSUME NEW gone, gone \subseteq Keys, DropSubmissions(gone)  PROVE ScoresWell'
    <2> SUFFICES ASSUME NEW u \in RankedUsers  PROVE WellFormed(scores'[u])
      BY DEF ScoresWell
    <2>1. scores'[u] = DroppedAll(scores[u], gone \cap SubmissionsOf(u, submission))
      BY <1>2 DEF DropSubmissions
    <2>2. IsFiniteSet(gone \cap SubmissionsOf(u, submission))
      <3>1. gone \cap SubmissionsOf(u, submission) \subseteq Keys
        BY <1>2
      <3> QED  BY <3>1, RankingAssumption, FS_Subset
    <2> QED  BY <2>1, <2>2, DroppedAllWell DEF ScoresWell
  <1>3. ASSUME RestartRanking \/ \E u \in RankedUsers : KilledWhileRemoving(u)  PROVE ScoresWell'
    <2>1. StoresInv' /\ Settled'
      BY <1>3, RestartStep DEF RestartRanking, KilledWhileRemoving, Reload, Settled
    <2> QED  BY <2>1, KeptWell DEF StoresInv, ScoresKept, KeptFor, ScoresWell
  <1>4. ASSUME NEW s \in Keys, NEW u \in RankedUsers, PutSubmission(s, u)  PROVE ScoresWell'
    <2> SUFFICES ASSUME NEW v \in RankedUsers  PROVE WellFormed(scores'[v])
      BY DEF ScoresWell
    <2>1. \/ scores'[v] = [ResetHistory(scores[v]) EXCEPT !.mode = task]
          \/ scores'[v] = Added(scores[v], s)
          \/ scores'[v] = Dropped(scores[v], s)
          \/ scores'[v] = scores[v]
      BY <1>4 DEF PutSubmission
    <2>2. WellFormed(scores[v])
      BY DEF ScoresWell
    <2> QED  BY <2>1, <2>2, ModeWell, AddWell, DropWell
  <1>5. ASSUME NEW k \in ChangeKeys, DeleteSubchange(k)  PROVE ScoresWell'
    <2> SUFFICES ASSUME NEW v \in RankedUsers  PROVE WellFormed(scores'[v])
      BY DEF ScoresWell
    <2>1. scores'[v] = DeleteChange(scores[v], k) \/ scores'[v] = scores[v]
      BY <1>0, <1>5 DEF DeleteSubchange
    <2>2. subchange[k] # NoChange
      BY <1>5 DEF DeleteSubchange
    <2>3. Change(k, subchange[k]) \in ChangeRec
      BY <1>0, <2>2, ChangeIs DEF ChangesTyped
    <2> QED  BY <2>1, <2>3, UpdateWell DEF ScoresWell
  <1>6. ASSUME NEW k \in ChangeKeys, NEW s \in Keys, NEW value \in Values, PutSubchange(k, s, value)
        PROVE  ScoresWell'
    <2> SUFFICES ASSUME NEW v \in RankedUsers  PROVE WellFormed(scores'[v])
      BY DEF ScoresWell
    <2> DEFINE old == subchange[k].submission
               new == [submission |-> s, value |-> value]
               taken == IF old \in Keys \ {s} THEN [scores EXCEPT ![submission[old]] = DeleteChange(@, k)]
                        ELSE scores
    <2>1. /\ subchange' = [subchange EXCEPT ![k] = new]
          /\ scores' = [taken EXCEPT ![submission[s]] = IF old = s THEN UpdateChange(@, k, subchange'[k])
                                                        ELSE CreateChange(@, k, subchange'[k])]
      BY <1>6 DEF PutSubchange
    <2>2. subchange'[k] = new
      BY <1>0, <2>1 DEF ChangesTyped
    <2>3. Change(k, new) \in ChangeRec
      BY ChangeIs
    <2> HIDE DEF new
    <2>4. DOMAIN taken = RankedUsers /\ (taken[v] = scores[v] \/ taken[v] = DeleteChange(scores[v], k))
      BY <1>0
    <2> HIDE DEF taken
    <2>5. WellFormed(taken[v])
      BY <2>3, <2>4, UpdateWell DEF ScoresWell
    <2>6. \/ scores'[v] = taken[v]
          \/ scores'[v] = UpdateChange(taken[v], k, new)
          \/ scores'[v] = CreateChange(taken[v], k, new)
      BY <2>1, <2>2, <2>4
    <2> QED  BY <2>3, <2>5, <2>6, UpdateWell, CreateWell
  <1>7. CASE UNCHANGED storesVars
    BY <1>1, <1>7 DEF storesVars
  <1>8. CASE \/ PutContest \/ PutTeam \/ \E m \in Modes : PutTask(m)
             \/ \E u \in RankedUsers : PutUser(u, "alone") \/ PutUser(u, "team")
    BY <1>1, <1>8 DEF PutContest, PutTeam, PutTask, PutUser
  <1>9. CASE \/ \E s \in Keys : RemoveSubmission(s)
             \/ \E u \in RankedUsers : RemoveUser(u)
             \/ RemoveTeam \/ RemoveTask \/ RemoveContest
    <2>1. \E gone : gone \subseteq Keys /\ DropSubmissions(gone)
      <3>1. ASSUME NEW s \in Keys, RemoveSubmission(s)  PROVE {s} \subseteq Keys /\ DropSubmissions({s})
        BY <3>1 DEF RemoveSubmission
      <3>2. ASSUME NEW us, RemoveUsers(us)
            PROVE  \E gone : gone \subseteq Keys /\ DropSubmissions(gone)
        <4>1. DropSubmissions({s \in Keys : submission[s] \in us})
          BY <3>2 DEF RemoveUsers
        <4>2. {s \in Keys : submission[s] \in us} \subseteq Keys
          OBVIOUS
        <4> QED  BY <4>1, <4>2
      <3>3. CASE \E s \in Keys : RemoveSubmission(s)
        BY <3>1, <3>3
      <3>4. CASE (\E u \in RankedUsers : RemoveUser(u)) \/ RemoveTeam
        BY <3>2, <3>4 DEF RemoveUser, RemoveTeam
      <3>5. CASE RemoveTask \/ RemoveContest
        <4>1. DropSubmissions({s \in Keys : submission[s] # NoUser})
          BY <3>5 DEF RemoveTask, RemoveContest
        <4>2. {s \in Keys : submission[s] # NoUser} \subseteq Keys
          OBVIOUS
        <4> QED  BY <4>1, <4>2
      <3> QED  BY <1>9, <3>3, <3>4, <3>5
    <2> QED  BY <1>2, <2>1
  <1> QED  BY <1>3, <1>4, <1>5, <1>6, <1>7, <1>8, <1>9 DEF StoresNext

-----------------------------------------------------------------------------
(* The history of one user in a list of all users' changes.                *)

(* Selecting from a list and from the list with one more.                  *)
LEMMA SelectedAppend ==
    ASSUME NEW S, NEW list \in Seq(S), NEW e \in S, NEW at, NEW at2,
           \A i \in 1 .. Len(list) : i \in at2 <=> i \in at
    PROVE  Selected(Append(list, e), at2) =
             IF Len(list) + 1 \in at2 THEN Append(Selected(list, at), e) ELSE Selected(list, at)
  <1> DEFINE more == Append(list, e)
  <1>1. PICK n \in Nat : n = Len(list)
    OBVIOUS
  <1>2. Len(more) = n + 1 /\ more[n + 1] = e /\ \A i \in 1 .. n : more[i] = list[i]
    BY <1>1
  <1> HIDE DEF more
  <1>3. PICK f : Selects(f, list, at) /\ Selected(list, at) = f[n]
    BY <1>1, SelectedIs
  <1>4. Len(more) \in Nat
    BY <1>2
  <1>5. PICK g : Selects(g, more, at2) /\ Selected(more, at2) = g[n + 1]
    BY <1>2, <1>4, SelectedIs
  <1> DEFINE U == {m \in Nat : m <= n => f[m] = g[m]}
  <1>6. 0 \in U
    BY <1>3, <1>5 DEF Selects
  <1>7. ASSUME NEW m \in Nat, m \in U  PROVE m + 1 \in U
    <2> SUFFICES ASSUME m + 1 <= n  PROVE f[m + 1] = g[m + 1]
      OBVIOUS
    <2>1. f[m] = g[m] /\ m + 1 \in 1 .. n /\ m + 1 \in 1 .. (n + 1) /\ (m + 1) - 1 = m
      BY <1>7
    <2>2. f[m + 1] = IF m + 1 \in at THEN Append(f[m], list[m + 1]) ELSE f[m]
      BY <1>1, <1>3, <2>1 DEF Selects
    <2>3. g[m + 1] = IF m + 1 \in at2 THEN Append(g[m], more[m + 1]) ELSE g[m]
      BY <1>2, <1>5, <2>1 DEF Selects
    <2> QED  BY <1>1, <1>2, <2>1, <2>2, <2>3
  <1>8. f[n] = g[n]
    <2>1. Nat \subseteq U
      <3> HIDE DEF U
      <3> QED  BY <1>6, <1>7, SetInduction
    <2> QED  BY <2>1
  <1>9. n + 1 \in 1 .. (n + 1) /\ (n + 1) - 1 = n
    OBVIOUS
  <1>10. g[n + 1] = IF n + 1 \in at2 THEN Append(g[n], more[n + 1]) ELSE g[n]
    BY <1>2, <1>5, <1>9 DEF Selects
  <1>11. Selected(more, at2) = IF n + 1 \in at2 THEN Append(Selected(list, at), e) ELSE Selected(list, at)
    BY <1>2, <1>3, <1>5, <1>8, <1>10
  <1> QED  BY <1>1, <1>11 DEF more

LEMMA SelectedNone ==
    ASSUME NEW at
    PROVE  Selected(<<>>, at) = <<>>
  <1>1. Len(<<>>) = 0 /\ Len(<<>>) \in Nat
    OBVIOUS
  <1>2. PICK f : Selects(f, <<>>, at) /\ Selected(<<>>, at) = f[0]
    BY <1>1, SelectedIs
  <1> QED  BY <1>2 DEF Selects

LEMMA HistoryAppend ==
    ASSUME NEW S, NEW list \in Seq(S), NEW e \in S, NEW u
    PROVE  ScoreHistory(Append(list, e), u) =
             IF e.user = u THEN Append(ScoreHistory(list, u), e) ELSE ScoreHistory(list, u)
  <1> DEFINE more == Append(list, e)
             at == {i \in DOMAIN list : list[i].user = u}
             at2 == {i \in DOMAIN more : more[i].user = u}
  <1>1. PICK n \in Nat : n = Len(list)
    OBVIOUS
  <1>2. DOMAIN list = 1 .. n /\ DOMAIN more = 1 .. (n + 1) /\ more[n + 1] = e
        /\ \A i \in 1 .. n : more[i] = list[i] /\ i \in 1 .. (n + 1)
    BY <1>1
  <1>3. \A i \in 1 .. Len(list) : i \in at2 <=> i \in at
    BY <1>1, <1>2
  <1>4. n + 1 \in at2 <=> e.user = u
    BY <1>2
  <1> HIDE DEF at, at2
  <1>5. Selected(Append(list, e), at2) =
             IF Len(list) + 1 \in at2 THEN Append(Selected(list, at), e) ELSE Selected(list, at)
    BY <1>3, SelectedAppend
  <1>6. Selected(Append(list, e), at2) =
             IF e.user = u THEN Append(Selected(list, at), e) ELSE Selected(list, at)
    BY <1>1, <1>4, <1>5
  <1> QED  BY <1>6 DEF ScoreHistory, at, at2

LEMMA HistoryNone ==
    ASSUME NEW u
    PROVE  ScoreHistory(<<>>, u) = <<>>
  BY SelectedNone DEF ScoreHistory

(* Times and scores only.                                                  *)
Mark(e) == <<e.time, e.score>>
Hist(list, u) == [i \in 1 .. Len(ScoreHistory(list, u)) |-> Mark(ScoreHistory(list, u)[i])]

Marked(S) == \A e \in S : e.time \in Nat /\ e.score \in Nat

LEMMA HistIs ==
    ASSUME NEW S, Marked(S), NEW list \in Seq(S), NEW u
    PROVE  /\ ScoreHistory(list, u) \in Seq(S) /\ Hist(list, u) \in Seq(Nat \X Nat)
           /\ Len(Hist(list, u)) = Len(ScoreHistory(list, u))
           /\ \A i \in 1 .. Len(Hist(list, u)) : Hist(list, u)[i] = Mark(ScoreHistory(list, u)[i])
  <1>1. ScoreHistory(list, u) \in Seq(S)
    BY SelectedSeq DEF ScoreHistory
  <1>2. PICK n \in Nat : n = Len(ScoreHistory(list, u))
    BY <1>1
  <1>3. \A i \in 1 .. n : Mark(ScoreHistory(list, u)[i]) \in Nat \X Nat
    BY <1>1, <1>2 DEF Mark, Marked
  <1>4. Hist(list, u) = [i \in 1 .. n |-> Mark(ScoreHistory(list, u)[i])]
    BY <1>2 DEF Hist
  <1> HIDE DEF Mark
  <1> QED  BY <1>1, <1>2, <1>3, <1>4

LEMMA AppendIs ==
    ASSUME NEW S, NEW s \in Seq(S), NEW x \in S
    PROVE  Append(s, x) = [i \in 1 .. (Len(s) + 1) |-> IF i = Len(s) + 1 THEN x ELSE s[i]]
  <1>1. PICK n \in Nat : n = Len(s)
    OBVIOUS
  <1> DEFINE q == Append(s, x)
  <1>2. q \in Seq(S) /\ Len(q) = n + 1 /\ q[n + 1] = x /\ \A i \in 1 .. n : q[i] = s[i]
    BY <1>1
  <1> HIDE DEF q
  <1>3. q = [i \in 1 .. Len(q) |-> q[i]]
    BY <1>2
  <1>4. \A i \in 1 .. (n + 1) : q[i] = IF i = n + 1 THEN x ELSE s[i]
    BY <1>2
  <1>5. q = [i \in 1 .. (n + 1) |-> IF i = n + 1 THEN x ELSE s[i]]
    BY <1>2, <1>3, <1>4
  <1> QED  BY <1>1, <1>5 DEF q

LEMMA AppendLast ==
    ASSUME NEW S, NEW s \in Seq(S), NEW x \in S
    PROVE  Append(s, x) \in Seq(S) /\ Append(s, x) # <<>> /\ Append(s, x)[Len(Append(s, x))] = x
  <1>1. PICK n \in Nat : n = Len(s)
    OBVIOUS
  <1> DEFINE q == Append(s, x)
  <1>2. q \in Seq(S) /\ Len(q) = n + 1 /\ q[n + 1] = x
    BY <1>1
  <1> HIDE DEF q
  <1>3. Len(<<>>) = 0
    OBVIOUS
  <1>4. q # <<>> /\ q[Len(q)] = x
    BY <1>2, <1>3
  <1> QED  BY <1>2, <1>4 DEF q

LEMMA HistAppend ==
    ASSUME NEW S, Marked(S), NEW list \in Seq(S), NEW e \in S, NEW u
    PROVE  Hist(Append(list, e), u) = IF e.user = u THEN Append(Hist(list, u), Mark(e)) ELSE Hist(list, u)
  <1> DEFINE old == ScoreHistory(list, u)
             new == ScoreHistory(Append(list, e), u)
  <1>1. old \in Seq(S)
    BY HistIs
  <1>2. new = IF e.user = u THEN Append(old, e) ELSE old
    BY HistoryAppend
  <1>3. Hist(list, u) = [i \in 1 .. Len(old) |-> Mark(old[i])]
        /\ Hist(Append(list, e), u) = [i \in 1 .. Len(new) |-> Mark(new[i])]
    BY DEF Hist
  <1> HIDE DEF old, new
  <1>4. CASE e.user # u
    BY <1>2, <1>3, <1>4
  <1>5. CASE e.user = u
    <2>1. PICK n \in Nat : n = Len(old)
      BY <1>1
    <2>2. Len(new) = n + 1 /\ new[n + 1] = e /\ \A i \in 1 .. n : new[i] = old[i]
      BY <1>1, <1>2, <1>5, <2>1
    <2>3. \A i \in 1 .. n : Mark(old[i]) \in Nat \X Nat
      BY <1>1, <2>1 DEF Mark, Marked
    <2>4. Mark(e) \in Nat \X Nat
      BY DEF Mark, Marked
    <2> DEFINE h == [i \in 1 .. n |-> Mark(old[i])]
    <2>5. h \in Seq(Nat \X Nat) /\ Len(h) = n /\ \A i \in 1 .. n : h[i] = Mark(old[i])
      BY <2>3
    <2> HIDE DEF h
    <2>6. Append(h, Mark(e)) = [i \in 1 .. (n + 1) |-> IF i = n + 1 THEN Mark(e) ELSE h[i]]
      <3>1. Append(h, Mark(e)) = [i \in 1 .. (Len(h) + 1) |-> IF i = Len(h) + 1 THEN Mark(e) ELSE h[i]]
        <4> DEFINE T == Nat \X Nat
                   x == Mark(e)
        <4>1. h \in Seq(T) /\ x \in T
          BY <2>4, <2>5
        <4> HIDE DEF T, x
        <4>2. Append(h, x) = [i \in 1 .. (Len(h) + 1) |-> IF i = Len(h) + 1 THEN x ELSE h[i]]
          BY <4>1, AppendIs
        <4> QED  BY <4>2 DEF x
      <3> QED  BY <2>5, <3>1
    <2>7. \A i \in 1 .. (n + 1) : (IF i = n + 1 THEN Mark(e) ELSE h[i]) = Mark(new[i])
      BY <2>2, <2>5
    <2>8. Append(h, Mark(e)) = [i \in 1 .. (n + 1) |-> Mark(new[i])]
      BY <2>6, <2>7
    <2>9. Hist(list, u) = h
      BY <1>3, <2>1 DEF h
    <2> QED  BY <1>3, <1>5, <2>2, <2>8, <2>9
  <1> QED  BY <1>4, <1>5

LEMMA HistNone ==
    ASSUME NEW u
    PROVE  Hist(<<>>, u) = <<>>
  BY HistoryNone DEF Hist

(* The first n of a list.                                                  *)
Pre(list, n) == [i \in 1 .. n |-> list[i]]

LEMMA PreIs ==
    ASSUME NEW S, NEW list \in Seq(S)
    PROVE  /\ Pre(list, 0) = <<>> /\ Pre(list, Len(list)) = list
           /\ \A n \in 0 .. Len(list) : Pre(list, n) \in Seq(S) /\ Len(Pre(list, n)) = n
           /\ \A n \in Nat : n + 1 <= Len(list) =>
                /\ Pre(list, n + 1) = Append(Pre(list, n), list[n + 1])
                /\ list[n + 1] \in S /\ n \in 0 .. Len(list)
  <1>1. Pre(list, 0) = <<>>
    BY DEF Pre
  <1>2. Pre(list, Len(list)) = list
    BY DEF Pre
  <1>3. ASSUME NEW n \in 0 .. Len(list)  PROVE Pre(list, n) \in Seq(S) /\ Len(Pre(list, n)) = n
    <2>1. n \in Nat /\ \A i \in 1 .. n : list[i] \in S
      OBVIOUS
    <2> QED  BY <2>1 DEF Pre
  <1>4. ASSUME NEW n \in Nat, n + 1 <= Len(list)
        PROVE  Pre(list, n + 1) = Append(Pre(list, n), list[n + 1])
    <2>1. n \in 0 .. Len(list)
      BY <1>4
    <2> DEFINE p == Pre(list, n)
               x == list[n + 1]
    <2>2. p \in Seq(S) /\ Len(p) = n /\ \A i \in 1 .. n : p[i] = list[i]
      BY <1>3, <2>1 DEF Pre
    <2> HIDE DEF p
    <2>3. Append(p, x) = [i \in 1 .. (n + 1) |-> IF i = n + 1 THEN x ELSE p[i]]
      BY <1>4, <2>2
    <2>4. Append(p, x) = [i \in 1 .. (n + 1) |-> list[i]]
      BY <2>2, <2>3
    <2> QED  BY <2>4 DEF Pre, p
  <1>5. ASSUME NEW n \in Nat, n + 1 <= Len(list)  PROVE list[n + 1] \in S /\ n \in 0 .. Len(list)
    BY <1>5
  <1> QED  BY <1>1, <1>2, <1>3, <1>4, <1>5

-----------------------------------------------------------------------------
(* The histories of the users are merged: nothing is lost or out of order. *)

NextPopped(list) == Popped(EarliestOf(list), HeadOf(list, EarliestOf(list)))

PopsAll(f, n) == f[0] = <<>> /\ \A i \in 1 .. n : f[i] = Append(f[i - 1], NextPopped(f[i - 1]))

LEMMA MergedIs ==
    ASSUME HistoryLength \in Nat
    PROVE  \E f : PopsAll(f, HistoryLength) /\ GetGlobalHistory = f[HistoryLength]
  <1> DEFINE Body(f, m) == [i \in 0 .. m |->
                              IF i = 0 THEN <<>> ELSE Append(f[i - 1], NextPopped(f[i - 1]))]
             T == {m \in Nat : \E f : f = Body(f, m)}
  <1>0. PICK n \in Nat : n = HistoryLength
    OBVIOUS
  <1>1. 0 \in T
    <2> DEFINE f == [k \in 0 .. 0 |-> <<>>]
    <2>1. f = Body(f, 0)
      OBVIOUS
    <2> HIDE DEF f, Body
    <2> QED  BY <2>1
  <1>2. ASSUME NEW m \in Nat, m \in T PROVE m + 1 \in T
    <2>1. PICK g : g = Body(g, m)
      BY <1>2
    <2> DEFINE f == Body(g, m + 1)
    <2>2. \A k \in 0 .. m : f[k] = g[k]
      <3>1. \A k \in 0 .. m : g[k] = IF k = 0 THEN <<>> ELSE Append(g[k - 1], NextPopped(g[k - 1]))
        BY <2>1
      <3> QED  BY <3>1
    <2>3. f = Body(f, m + 1)
      <3>1. \A k \in 0 .. (m + 1) : k # 0 => k - 1 \in 0 .. m
        OBVIOUS
      <3>2. \A k \in 0 .. (m + 1) : k # 0 =>
               Append(g[k - 1], NextPopped(g[k - 1])) = Append(f[k - 1], NextPopped(f[k - 1]))
        <4> HIDE DEF f
        <4> QED  BY <2>2, <3>1
      <3> QED  BY <3>2, Zenon
    <2> HIDE DEF f, Body
    <2> QED  BY <2>3
  <1>3. n \in T
    <2> HIDE DEF T
    <2>1. Nat \subseteq T
      BY <1>1, <1>2, SetInduction
    <2> QED  BY <2>1
  <1> DEFINE after == CHOOSE f : f = Body(f, n)
  <1>4. after = Body(after, n)
    <2> HIDE DEF Body
    <2> QED  BY <1>3, Zenon
  <1>5. GetGlobalHistory = after[n]
    BY <1>0 DEF GetGlobalHistory, NextPopped
  <1>6. \A i \in 0 .. n : after[i] = IF i = 0 THEN <<>> ELSE Append(after[i - 1], NextPopped(after[i - 1]))
    <2> HIDE DEF after
    <2> QED  BY <1>4
  <1> HIDE DEF after
  <1>7. after[0] = <<>> /\ \A i \in 1 .. n : after[i] = Append(after[i - 1], NextPopped(after[i - 1]))
    <2>1. 0 \in 0 .. n /\ \A i \in 1 .. n : i \in 0 .. n /\ i # 0
      OBVIOUS
    <2> QED  BY <1>6, <2>1, Zenon
  <1> QED  BY <1>0, <1>5, <1>7 DEF PopsAll

(* Of some heads, one is the earliest.                                     *)
LEMMA EarliestIs ==
    ASSUME NEW S, IsFiniteSet(S), S # {}, NEW head \in [S -> Nat \X Nat]
    PROVE  \E v \in S : \A w \in S : Earlier(head[v], head[w])
  <1> DEFINE times == {head[w][1] : w \in S}
  <1>1. \A w \in S : head[w][1] \in Nat /\ head[w][2] \in Nat
    OBVIOUS
  <1>2. times \subseteq Nat /\ times # {}
    BY <1>1
  <1> DEFINE first == Min(times)
             early == {w \in S : head[w][1] = first}
             values == {head[w][2] : w \in early}
  <1>3. first \in times /\ \A y \in times : first <= y
    <2> HIDE DEF times
    <2> QED  BY <1>2, LeastIs
  <1>4. PICK t \in Nat : t = first
    BY <1>2, <1>3
  <1>5. early # {} /\ early \subseteq S
    BY <1>3
  <1>6. values \subseteq Nat /\ values # {}
    BY <1>1, <1>5
  <1> HIDE DEF first
  <1>7. Min(values) \in values /\ \A y \in values : Min(values) <= y
    <2> HIDE DEF values
    <2> QED  BY <1>6, LeastIs
  <1>8. PICK v \in early : head[v][2] = Min(values)
    BY <1>7
  <1>9. v \in S /\ head[v][1] = t
    BY <1>4, <1>8
  <1>10. ASSUME NEW w \in S  PROVE Earlier(head[v], head[w])
    <2>1. t <= head[w][1]
      BY <1>3, <1>4
    <2>2. head[w][1] = t => head[v][2] <= head[w][2]
      BY <1>4, <1>7, <1>8
    <2> QED  BY <1>1, <1>9, <2>1, <2>2 DEF Earlier
  <1> QED  BY <1>9, <1>10

LEMMA EarliestLeft ==
    ASSUME NEW list, Left(list) # {}, ScoresWell, \A u \in RankedUsers : NextOf(list, u) \in Nat \ {0}
    PROVE  EarliestOf(list) \in Left(list)
  <1>1. \A u \in RankedUsers : scores[u].history \in Seq(Nat \X Nat)
    BY DEF ScoresWell, WellFormed, ScoreIs, HistoryFits
  <1>2. \A u \in Left(list) : HeadOf(list, u) \in Nat \X Nat
    <2> SUFFICES ASSUME NEW u \in Left(list)  PROVE HeadOf(list, u) \in Nat \X Nat
      OBVIOUS
    <2>1. u \in RankedUsers /\ NextOf(list, u) <= Len(scores[u].history) /\ NextOf(list, u) \in Nat \ {0}
      BY DEF Left
    <2>2. NextOf(list, u) \in 1 .. Len(scores[u].history)
      BY <1>1, <2>1
    <2> QED  BY <1>1, <2>1, <2>2 DEF HeadOf
  <1>3. IsFiniteSet(Left(list))
    BY RankingAssumption, FS_Subset DEF Left
  <1> DEFINE head == [u \in Left(list) |-> HeadOf(list, u)]
  <1>4. head \in [Left(list) -> Nat \X Nat]
    BY <1>2
  <1>5. \A u \in Left(list) : head[u] = HeadOf(list, u)
    OBVIOUS
  <1> HIDE DEF head
  <1>6. \E v \in Left(list) : \A w \in Left(list) : Earlier(head[v], head[w])
    BY <1>3, <1>4, EarliestIs
  <1>7. \E v \in Left(list) : \A w \in Left(list) : Earlier(HeadOf(list, v), HeadOf(list, w))
    BY <1>5, <1>6
  <1> QED  BY <1>7, Zenon DEF EarliestOf

MergedRec == [user : RankedUsers, task : {"task"}, time : Nat, score : Nat]

LEMMA MergedMarked == Marked(MergedRec)
  BY DEF Marked, MergedRec

AllEntries == UNION {{u} \X DOMAIN scores[u].history : u \in RankedUsers}
Consumed(list) == {x \in AllEntries : x[2] <= Len(Hist(list, x[1]))}

(* A list of the first entries of each history, n altogether.              *)
PoppedTo(list, n) ==
    /\ list \in Seq(MergedRec)
    /\ \A v \in RankedUsers : /\ Len(Hist(list, v)) <= Len(scores[v].history)
                              /\ \A i \in 1 .. Len(Hist(list, v)) : Hist(list, v)[i] = scores[v].history[i]
    /\ Cardinality(Consumed(list)) = n

LEMMA AllEntriesAre ==
    ASSUME ScoresWell
    PROVE  /\ IsFiniteSet(AllEntries) /\ HistoryLength \in Nat /\ HistoryLength = Cardinality(AllEntries)
           /\ \A v \in RankedUsers : \A i \in 1 .. Len(scores[v].history) : <<v, i>> \in AllEntries
           /\ \A x \in AllEntries : /\ x[1] \in RankedUsers /\ x[2] \in 1 .. Len(scores[x[1]].history)
                                 /\ x = <<x[1], x[2]>>
  <1>1. \A u \in RankedUsers : scores[u].history \in Seq(Nat \X Nat)
    BY DEF ScoresWell, WellFormed, ScoreIs, HistoryFits
  <1>2. \A u \in RankedUsers : Len(scores[u].history) \in Nat
                               /\ DOMAIN scores[u].history = 1 .. Len(scores[u].history)
    BY <1>1
  <1> DEFINE of == [u \in RankedUsers |-> {u} \X DOMAIN scores[u].history]
             all == {of[u] : u \in RankedUsers}
  <1>3. \A u \in RankedUsers : IsFiniteSet(of[u])
    <2> SUFFICES ASSUME NEW u \in RankedUsers  PROVE IsFiniteSet(of[u])
      OBVIOUS
    <2>1. of[u] = {u} \X (1 .. Len(scores[u].history))
      BY <1>2
    <2>2. IsFiniteSet({u}) /\ IsFiniteSet(1 .. Len(scores[u].history))
      <3>1. PICK n \in Nat : n = Len(scores[u].history)
        BY <1>2
      <3>2. IsFiniteSet(1 .. n)
        BY FS_Interval
      <3>3. IsFiniteSet({u})
        BY FS_Singleton
      <3> QED  BY <3>1, <3>2, <3>3
    <2> QED  BY <2>1, <2>2, FS_Product
  <1>4. IsFiniteSet(all)
    <2> HIDE DEF of
    <2> QED  BY RankingAssumption, ImageFinite
  <1>5. \A x \in all : IsFiniteSet(x)
    BY <1>3
  <1>6. IsFiniteSet(UNION all)
    <2> HIDE DEF all
    <2> QED  BY <1>4, <1>5, FS_UNION
  <1>7. AllEntries = UNION all
    BY DEF AllEntries
  <1>8. HistoryLength = Cardinality(AllEntries)
    BY DEF HistoryLength, AllEntries
  <1>9. HistoryLength \in Nat
    BY <1>6, <1>7, <1>8, FS_CardinalityType
  <1>10. \A v \in RankedUsers : \A i \in 1 .. Len(scores[v].history) : <<v, i>> \in AllEntries
    BY <1>2 DEF AllEntries
  <1>11. ASSUME NEW x \in AllEntries
         PROVE  x[1] \in RankedUsers /\ x[2] \in 1 .. Len(scores[x[1]].history) /\ x = <<x[1], x[2]>>
    <2>1. PICK u \in RankedUsers : x \in {u} \X DOMAIN scores[u].history
      BY DEF AllEntries
    <2> QED  BY <1>2, <2>1
  <1> QED  BY <1>6, <1>7, <1>8, <1>9, <1>10, <1>11

LEMMA MergedStart ==
    ASSUME ScoresWell
    PROVE  PoppedTo(<<>>, 0)
  <1>1. \A u \in RankedUsers : scores[u].history \in Seq(Nat \X Nat)
    BY DEF ScoresWell, WellFormed, ScoreIs, HistoryFits
  <1>2. \A v \in RankedUsers : Hist(<<>>, v) = <<>> /\ Len(Hist(<<>>, v)) = 0
    BY HistNone
  <1>3. Consumed(<<>>) = {}
    BY <1>2, AllEntriesAre DEF Consumed
  <1>4. Cardinality(Consumed(<<>>)) = 0
    BY <1>3, FS_EmptySet
  <1>5. <<>> \in Seq(MergedRec)
    OBVIOUS
  <1> QED  BY <1>1, <1>2, <1>4, <1>5 DEF PoppedTo

LEMMA MergedOne ==
    ASSUME ScoresWell, NEW list, NEW n \in Nat, PoppedTo(list, n), n < HistoryLength
    PROVE  PoppedTo(Append(list, NextPopped(list)), n + 1)
  <1> DEFINE e == NextPopped(list)
             v == EarliestOf(list)
             next == Append(list, e)
  <1>1. \A u \in RankedUsers : scores[u].history \in Seq(Nat \X Nat)
    BY DEF ScoresWell, WellFormed, ScoreIs, HistoryFits
  <1>2. list \in Seq(MergedRec)
    BY DEF PoppedTo
  <1>3. \A u \in RankedUsers : /\ Hist(list, u) \in Seq(Nat \X Nat) /\ Len(Hist(list, u)) \in Nat
                               /\ NextOf(list, u) = Len(Hist(list, u)) + 1
    <2> SUFFICES ASSUME NEW u \in RankedUsers
                 PROVE  /\ Hist(list, u) \in Seq(Nat \X Nat) /\ Len(Hist(list, u)) \in Nat
                        /\ NextOf(list, u) = Len(Hist(list, u)) + 1
      OBVIOUS
    <2>1. Hist(list, u) \in Seq(Nat \X Nat) /\ Len(Hist(list, u)) = Len(ScoreHistory(list, u))
      BY <1>2, MergedMarked, HistIs
    <2> QED  BY <2>1 DEF NextOf
  <1>4. IsFiniteSet(Consumed(list)) /\ Consumed(list) \subseteq AllEntries
    BY AllEntriesAre, FS_Subset DEF Consumed
  <1>5. Left(list) # {}
    <2>1. Consumed(list) # AllEntries
      BY AllEntriesAre DEF PoppedTo
    <2>2. PICK x \in AllEntries : ~ (x[2] <= Len(Hist(list, x[1])))
      BY <2>1 DEF Consumed
    <2>3. x[1] \in RankedUsers /\ x[2] \in 1 .. Len(scores[x[1]].history)
      BY AllEntriesAre
    <2>4. NextOf(list, x[1]) <= Len(scores[x[1]].history)
      BY <1>1, <1>3, <2>2, <2>3
    <2> QED  BY <2>3, <2>4 DEF Left
  <1>6. v \in Left(list)
    BY <1>3, <1>5, EarliestLeft
  <1>7. PICK k \in Nat : k = Len(Hist(list, v))
    BY <1>3, <1>6 DEF Left
  <1>8. v \in RankedUsers /\ k + 1 \in 1 .. Len(scores[v].history) /\ HeadOf(list, v) = scores[v].history[k + 1]
    BY <1>1, <1>3, <1>6, <1>7 DEF Left, HeadOf
  <1>9. scores[v].history[k + 1] \in Nat \X Nat
    BY <1>1, <1>8
  <1>10. e \in MergedRec /\ e.user = v /\ Mark(e) = scores[v].history[k + 1]
    BY <1>8, <1>9 DEF NextPopped, Popped, MergedRec, Mark
  <1> HIDE DEF e, v
  <1>11. next \in Seq(MergedRec)
    BY <1>2, <1>10
  <1>12. \A u \in RankedUsers : Hist(next, u) = IF u = v THEN Append(Hist(list, u), Mark(e)) ELSE Hist(list, u)
    BY <1>2, <1>10, MergedMarked, HistAppend
  <1> HIDE DEF next
  <1>13. Len(Hist(next, v)) = k + 1 /\ Hist(next, v)[k + 1] = scores[v].history[k + 1]
         /\ \A i \in 1 .. k : Hist(next, v)[i] = Hist(list, v)[i]
    <2> DEFINE x == Mark(e)
               h == Hist(list, v)
    <2>1. h \in Seq(Nat \X Nat) /\ Len(h) = k /\ x \in Nat \X Nat /\ Hist(next, v) = Append(h, x)
      BY <1>3, <1>7, <1>8, <1>9, <1>10, <1>12
    <2>2. x = scores[v].history[k + 1]
      BY <1>10
    <2> HIDE DEF x, h
    <2>3. Len(Hist(next, v)) = k + 1 /\ Hist(next, v)[k + 1] = x /\ \A i \in 1 .. k : Hist(next, v)[i] = h[i]
      BY <2>1
    <2> QED  BY <2>2, <2>3 DEF h
  <1>14. ASSUME NEW u \in RankedUsers
         PROVE  /\ Len(Hist(next, u)) <= Len(scores[u].history)
                /\ \A i \in 1 .. Len(Hist(next, u)) : Hist(next, u)[i] = scores[u].history[i]
    <2>1. CASE u # v
      BY <1>12, <2>1 DEF PoppedTo
    <2>2. CASE u = v
      <3>1. k + 1 <= Len(scores[v].history)
        BY <1>1, <1>8
      <3>2. \A i \in 1 .. k : Hist(list, v)[i] = scores[v].history[i]
        BY <1>7, <1>8 DEF PoppedTo
      <3>3. \A i \in 1 .. (k + 1) : i \in 1 .. k \/ i = k + 1
        OBVIOUS
      <3> QED  BY <1>13, <2>2, <3>1, <3>2, <3>3
    <2> QED  BY <2>1, <2>2
  <1>15. Consumed(next) = Consumed(list) \cup {<<v, k + 1>>} /\ <<v, k + 1>> \notin Consumed(list)
    <2> DEFINE y == <<v, k + 1>>
    <2>1. y \in AllEntries /\ y[1] = v /\ y[2] = k + 1
      BY <1>8, AllEntriesAre
    <2>2. \A x \in AllEntries : /\ x[1] \in RankedUsers /\ x[2] \in Nat /\ x = <<x[1], x[2]>>
      BY <1>1, AllEntriesAre
    <2>3. \A x \in AllEntries : x[1] # v => Len(Hist(next, x[1])) = Len(Hist(list, x[1]))
      BY <1>12, <2>2
    <2>4. \A x \in AllEntries : x[1] = v => (x[2] <= k + 1 <=> (x[2] <= k \/ x = y))
      BY <2>2
    <2> HIDE DEF y
    <2>5. y \notin Consumed(list)
      BY <1>7, <2>1 DEF Consumed
    <2>6. \A x \in AllEntries : x \in Consumed(next) <=> x \in Consumed(list) \/ x = y
      <3> SUFFICES ASSUME NEW x \in AllEntries
                   PROVE  x \in Consumed(next) <=> x \in Consumed(list) \/ x = y
        OBVIOUS
      <3>1. CASE x[1] = v
        BY <1>7, <1>13, <2>4, <3>1 DEF Consumed
      <3>2. CASE x[1] # v
        BY <2>1, <2>3, <3>2 DEF Consumed
      <3> QED  BY <3>1, <3>2
    <2>7. Consumed(next) \subseteq AllEntries /\ Consumed(list) \subseteq AllEntries
      BY DEF Consumed
    <2>8. Consumed(next) = Consumed(list) \cup {y}
      BY <2>1, <2>6, <2>7
    <2> QED  BY <2>5, <2>8 DEF y
  <1>16. Cardinality(Consumed(next)) = n + 1
    <2>1. Cardinality(Consumed(list)) = n
      BY DEF PoppedTo
    <2> DEFINE y == <<v, k + 1>>
    <2>2. Consumed(next) = Consumed(list) \cup {y} /\ y \notin Consumed(list)
      BY <1>15
    <2> HIDE DEF y
    <2> QED  BY <1>4, <2>1, <2>2, FS_AddElement
  <1>17. PoppedTo(next, n + 1)
    BY <1>11, <1>14, <1>16 DEF PoppedTo
  <1> QED  BY <1>17 DEF next, e

(* In the merged history, every user's is as his Score has it.             *)
LEMMA HistoryMerged ==
    ASSUME ScoresWell
    PROVE  /\ GetGlobalHistory \in Seq(MergedRec)
           /\ \A v \in RankedUsers : Hist(GetGlobalHistory, v) = scores[v].history
  <1>1. PICK n \in Nat : n = HistoryLength
    BY AllEntriesAre
  <1>2. PICK f : PopsAll(f, n) /\ GetGlobalHistory = f[n]
    BY <1>1, MergedIs
  <1> DEFINE U == {m \in Nat : m <= n => PoppedTo(f[m], m)}
  <1>3. 0 \in U
    BY <1>2, MergedStart DEF PopsAll
  <1>4. ASSUME NEW m \in Nat, m \in U  PROVE m + 1 \in U
    <2> SUFFICES ASSUME m + 1 <= n  PROVE PoppedTo(f[m + 1], m + 1)
      OBVIOUS
    <2>1. m + 1 \in 1 .. n /\ (m + 1) - 1 = m /\ m < HistoryLength /\ PoppedTo(f[m], m)
      BY <1>1, <1>4
    <2>2. f[m + 1] = Append(f[m], NextPopped(f[m]))
      BY <1>2, <2>1 DEF PopsAll
    <2> QED  BY <2>1, <2>2, MergedOne
  <1>5. PoppedTo(f[n], n)
    <2>1. Nat \subseteq U
      <3> HIDE DEF U
      <3> QED  BY <1>3, <1>4, SetInduction
    <2> QED  BY <2>1
  <1> DEFINE g == f[n]
  <1>6. g \in Seq(MergedRec) /\ Cardinality(Consumed(g)) = Cardinality(AllEntries)
    BY <1>1, <1>5, AllEntriesAre DEF PoppedTo
  <1>7. PoppedTo(g, n)
    BY <1>5
  <1> HIDE DEF g
  <1>8. Consumed(g) = AllEntries
    <2>1. Consumed(g) \subseteq AllEntries
      BY DEF Consumed
    <2> QED  BY <1>6, <2>1, AllEntriesAre, FS_Subset
  <1>9. ASSUME NEW v \in RankedUsers  PROVE Hist(g, v) = scores[v].history
    <2> DEFINE h == Hist(g, v)
               full == scores[v].history
    <2>1. h \in Seq(Nat \X Nat)
      BY <1>6, MergedMarked, HistIs
    <2>2. full \in Seq(Nat \X Nat)
      BY DEF ScoresWell, WellFormed, ScoreIs, HistoryFits
    <2>3. Len(h) <= Len(full) /\ \A i \in 1 .. Len(h) : h[i] = full[i]
      BY <1>7 DEF PoppedTo
    <2>4. Len(full) <= Len(h)
      <3>1. CASE Len(full) = 0
        BY <2>1, <3>1
      <3>2. CASE Len(full) # 0
        <4>1. Len(full) \in 1 .. Len(full)
          BY <2>2, <3>2
        <4>2. <<v, Len(full)>> \in Consumed(g)
          BY <1>8, <4>1, AllEntriesAre
        <4> QED  BY <4>2 DEF Consumed
      <3> QED  BY <3>1, <3>2
    <2> HIDE DEF h, full
    <2>5. Len(h) = Len(full)
      BY <2>1, <2>2, <2>3, <2>4
    <2>6. h = full
      <3>1. h = [i \in 1 .. Len(h) |-> h[i]] /\ full = [i \in 1 .. Len(full) |-> full[i]]
        BY <2>1, <2>2
      <3> QED  BY <2>3, <2>5, <3>1
    <2> QED  BY <2>6 DEF h, full
  <1> QED  BY <1>2, <1>6, <1>9 DEF g

-----------------------------------------------------------------------------
(* What the page makes of it: the changes of the users it knows.           *)

KnownRec(us) == [user : us, task : {"task"}, time : Nat, score : Nat]
KnownOf(data, users) == Selected(data, {i \in DOMAIN data : data[i].user \in users})

LEMMA KnownMarked ==
    ASSUME NEW us
    PROVE  Marked(KnownRec(us))
  BY DEF Marked, KnownRec

LEMMA KnownIs ==
    ASSUME NEW us, NEW data \in Seq(MergedRec)
    PROVE  /\ KnownOf(data, us) \in Seq(KnownRec(us))
           /\ \A v \in us : Hist(KnownOf(data, us), v) = Hist(data, v)
  <1> DEFINE at == {i \in DOMAIN data : data[i].user \in us}
  <1>1. PICK n \in Nat : n = Len(data)
    OBVIOUS
  <1>2. PICK f : Selects(f, data, at) /\ Selected(data, at) = f[n]
    BY <1>1, SelectedIs
  <1>3. \A i \in 1 .. n : data[i] \in MergedRec /\ (i \in at <=> data[i].user \in us)
    BY <1>1
  <1> HIDE DEF at
  <1> DEFINE Same(m) == \A v \in us : Hist(f[m], v) = Hist(Pre(data, m), v)
             U == {m \in Nat : m <= n => f[m] \in Seq(KnownRec(us)) /\ Same(m)}
  <1>4. 0 \in U
    <2>1. f[0] = <<>> /\ Pre(data, 0) = <<>>
      BY <1>2, PreIs DEF Selects
    <2>2. f[0] \in Seq(KnownRec(us))
      BY <2>1
    <2>3. Same(0)
      BY <2>1
    <2> QED  BY <2>2, <2>3
  <1>5. ASSUME NEW m \in Nat, m \in U  PROVE m + 1 \in U
    <2> SUFFICES ASSUME m + 1 <= n  PROVE f[m + 1] \in Seq(KnownRec(us)) /\ Same(m + 1)
      OBVIOUS
    <2> DEFINE e == data[m + 1]
    <2>1. f[m] \in Seq(KnownRec(us)) /\ Same(m) /\ m + 1 \in 1 .. n /\ (m + 1) - 1 = m
      BY <1>5
    <2>2. f[m + 1] = IF m + 1 \in at THEN Append(f[m], e) ELSE f[m]
      BY <1>1, <1>2, <2>1 DEF Selects
    <2>3. Pre(data, m + 1) = Append(Pre(data, m), e) /\ e \in MergedRec
          /\ Pre(data, m) \in Seq(MergedRec)
      BY <1>1, <2>1, PreIs
    <2>4. m + 1 \in at <=> e.user \in us
      BY <1>3, <2>1
    <2> HIDE DEF e
    <2>5. \A v \in us : Hist(Pre(data, m + 1), v) =
             IF e.user = v THEN Append(Hist(Pre(data, m), v), Mark(e)) ELSE Hist(Pre(data, m), v)
      <3> DEFINE p == Pre(data, m)
      <3>1. p \in Seq(MergedRec)
        BY <2>3
      <3> HIDE DEF p
      <3>2. \A v \in us : Hist(Append(p, e), v) = IF e.user = v THEN Append(Hist(p, v), Mark(e)) ELSE Hist(p, v)
        BY <2>3, <3>1, MergedMarked, HistAppend
      <3> QED  BY <2>3, <3>2 DEF p
    <2>6. CASE e.user \notin us
      BY <2>1, <2>2, <2>4, <2>5, <2>6
    <2>7. CASE e.user \in us
      <3>1. e \in KnownRec(us)
        BY <2>3, <2>7 DEF KnownRec, MergedRec
      <3>2. f[m + 1] = Append(f[m], e)
        BY <2>2, <2>4, <2>7
      <3>3. f[m + 1] \in Seq(KnownRec(us))
        BY <2>1, <3>1, <3>2
      <3>4. \A v \in us : Hist(Append(f[m], e), v) =
               IF e.user = v THEN Append(Hist(f[m], v), Mark(e)) ELSE Hist(f[m], v)
        <4> DEFINE p == f[m]
        <4>1. p \in Seq(KnownRec(us))
          BY <2>1
        <4> HIDE DEF p
        <4>2. \A v \in us : Hist(Append(p, e), v) = IF e.user = v THEN Append(Hist(p, v), Mark(e)) ELSE Hist(p, v)
          BY <3>1, <4>1, KnownMarked, HistAppend
        <4> QED  BY <4>2 DEF p
      <3> QED  BY <2>1, <2>5, <3>2, <3>3, <3>4
    <2> QED  BY <2>6, <2>7
  <1>6. f[n] \in Seq(KnownRec(us)) /\ Same(n)
    <2>1. Nat \subseteq U
      <3> HIDE DEF U
      <3> QED  BY <1>4, <1>5, SetInduction
    <2> QED  BY <2>1
  <1>7. KnownOf(data, us) = f[n] /\ Pre(data, n) = data
    BY <1>1, <1>2, PreIs DEF KnownOf, at
  <1> QED  BY <1>6, <1>7

LEMMA SelectedAll ==
    ASSUME NEW S, NEW list \in Seq(S), NEW at, \A i \in 1 .. Len(list) : i \in at
    PROVE  Selected(list, at) = list
  <1>1. PICK n \in Nat : n = Len(list)
    OBVIOUS
  <1>2. PICK f : Selects(f, list, at) /\ Selected(list, at) = f[n]
    BY <1>1, SelectedIs
  <1> DEFINE U == {m \in Nat : m <= n => f[m] = Pre(list, m)}
  <1>3. 0 \in U
    BY <1>2, PreIs DEF Selects
  <1>4. ASSUME NEW m \in Nat, m \in U  PROVE m + 1 \in U
    <2> SUFFICES ASSUME m + 1 <= n  PROVE f[m + 1] = Pre(list, m + 1)
      OBVIOUS
    <2>1. f[m] = Pre(list, m) /\ m + 1 \in 1 .. n /\ (m + 1) - 1 = m
      BY <1>4
    <2>2. f[m + 1] = Append(f[m], list[m + 1])
      BY <1>1, <1>2, <2>1 DEF Selects
    <2>3. Pre(list, m + 1) = Append(Pre(list, m), list[m + 1])
      BY <1>1, <2>1, PreIs
    <2> QED  BY <2>1, <2>2, <2>3
  <1>5. f[n] = Pre(list, n)
    <2>1. Nat \subseteq U
      <3> HIDE DEF U
      <3> QED  BY <1>3, <1>4, SetInduction
    <2> QED  BY <2>1
  <1>6. Pre(list, n) = list
    BY <1>1, PreIs
  <1> QED  BY <1>2, <1>5, <1>6

(* The sum over one task.                                                  *)
LEMMA ScoreInOne ==
    ASSUME NEW x, NEW row, row[x] \in Nat
    PROVE  ScoreIn(row, {x}) = row[x]
  <1> DEFINE Body(f) == [s \in SUBSET {x} |-> IF s = {} THEN 0 ELSE row[AnyOf(s)] + f[s \ {AnyOf(s)}]]
             g == [s \in SUBSET {x} |-> IF s = {} THEN 0 ELSE row[x]]
  <1>1. \A s \in SUBSET {x} : s = {} \/ (s = {x} /\ AnyOf(s) = x /\ s \ {AnyOf(s)} = {})
    BY DEF AnyOf
  <1>2. {} \in SUBSET {x} /\ {x} \in SUBSET {x} /\ {x} # {}
    OBVIOUS
  <1>3. g[{}] = 0
    BY <1>2
  <1>4. \A s \in SUBSET {x} : g[s] = IF s = {} THEN 0 ELSE row[AnyOf(s)] + g[s \ {AnyOf(s)}]
    <2> SUFFICES ASSUME NEW s \in SUBSET {x}
                 PROVE  g[s] = IF s = {} THEN 0 ELSE row[AnyOf(s)] + g[s \ {AnyOf(s)}]
      OBVIOUS
    <2>1. CASE s = {}
      BY <1>3, <2>1
    <2>2. CASE s # {}
      <3>1. AnyOf(s) = x /\ s \ {AnyOf(s)} = {} /\ g[s] = row[x]
        BY <1>1, <2>2
      <3> HIDE DEF g
      <3> QED  BY <1>3, <2>2, <3>1
    <2> QED  BY <2>1, <2>2
  <1>5. g = Body(g)
    <2>1. g = [s \in SUBSET {x} |-> g[s]]
      OBVIOUS
    <2> HIDE DEF g
    <2> QED  BY <1>4, <2>1
  <1> DEFINE after == CHOOSE f : f = Body(f)
  <1>6. after = Body(after)
    <2>1. \E f : f = Body(f)
      <3> HIDE DEF g, Body
      <3> QED  BY <1>5
    <2> HIDE DEF Body
    <2> QED  BY <2>1, Zenon
  <1>7. ScoreIn(row, {x}) = after[{x}]
    BY DEF ScoreIn
  <1> HIDE DEF after
  <1>8. after[{}] = 0
    BY <1>2, <1>6
  <1>9. after[{x}] = row[AnyOf({x})] + after[{x} \ {AnyOf({x})}]
    BY <1>2, <1>6
  <1>10. AnyOf({x}) = x /\ {x} \ {AnyOf({x})} = {}
    BY <1>1, <1>2
  <1> QED  BY <1>7, <1>8, <1>9, <1>10

(* The page knows one task and one contest, which begins at 0.             *)
TheTasks == [t \in {"task"} |-> "contest"]
TheBegin == [c \in {"contest"} |-> 0]

Takes(f, known, us) ==
    /\ f[0] = EmptyHistory(us, TheTasks)
    /\ \A i \in 1 .. Len(known) : f[i] = TakeChange(f[i - 1], known[i], TheTasks, TheBegin)

LEMMA UpdateIs ==
    ASSUME NEW us, NEW data, Len(KnownOf(data, us)) \in Nat
    PROVE  \E f : /\ Takes(f, KnownOf(data, us), us)
                  /\ PerformUpdate(data, us, TheTasks, TheBegin) = f[Len(KnownOf(data, us))]
  <1> DEFINE known == KnownOf(data, us)
             Start == EmptyHistory(us, TheTasks)
             Body(f, m) == [i \in 0 .. m |-> IF i = 0 THEN Start
                                             ELSE TakeChange(f[i - 1], known[i], TheTasks, TheBegin)]
             T == {m \in Nat : \E f : f = Body(f, m)}
  <1>0. PICK n \in Nat : n = Len(known)
    OBVIOUS
  <1>1. 0 \in T
    <2> DEFINE f == [k \in 0 .. 0 |-> Start]
    <2>1. f = Body(f, 0)
      OBVIOUS
    <2> HIDE DEF f, Body
    <2> QED  BY <2>1
  <1>2. ASSUME NEW m \in Nat, m \in T PROVE m + 1 \in T
    <2>1. PICK g : g = Body(g, m)
      BY <1>2
    <2> DEFINE f == Body(g, m + 1)
    <2>2. \A k \in 0 .. m : f[k] = g[k]
      <3>1. \A k \in 0 .. m : g[k] = IF k = 0 THEN Start ELSE TakeChange(g[k - 1], known[k], TheTasks, TheBegin)
        BY <2>1
      <3> HIDE DEF Start, known
      <3> QED  BY <3>1
    <2>3. f = Body(f, m + 1)
      <3>1. \A k \in 0 .. (m + 1) : k # 0 => k - 1 \in 0 .. m
        OBVIOUS
      <3>2. \A k \in 0 .. (m + 1) : k # 0 =>
               TakeChange(g[k - 1], known[k], TheTasks, TheBegin) = TakeChange(f[k - 1], known[k], TheTasks, TheBegin)
        <4> HIDE DEF f, known
        <4> QED  BY <2>2, <3>1
      <3> HIDE DEF Start, known
      <3> QED  BY <3>2, Zenon
    <2> HIDE DEF f, Body
    <2> QED  BY <2>3
  <1>3. n \in T
    <2> HIDE DEF T
    <2>1. Nat \subseteq T
      BY <1>1, <1>2, SetInduction
    <2> QED  BY <2>1
  <1> DEFINE after == CHOOSE f : f = Body(f, n)
  <1>4. after = Body(after, n)
    <2> HIDE DEF Body
    <2> QED  BY <1>3, Zenon
  <1>5. PerformUpdate(data, us, TheTasks, TheBegin) = after[n]
    BY <1>0, Zenon DEF PerformUpdate, KnownOf
  <1>6. \A i \in 0 .. n : after[i] = IF i = 0 THEN Start
                                     ELSE TakeChange(after[i - 1], known[i], TheTasks, TheBegin)
    <2> HIDE DEF after, Start, known
    <2> QED  BY <1>4
  <1> HIDE DEF after
  <1>7. after[0] = Start /\ \A i \in 1 .. n : after[i] = TakeChange(after[i - 1], known[i], TheTasks, TheBegin)
    <2>1. 0 \in 0 .. n /\ \A i \in 1 .. n : i \in 0 .. n /\ i # 0
      OBVIOUS
    <2> HIDE DEF Start, known
    <2> QED  BY <1>6, <2>1, Zenon
  <1> QED  BY <1>0, <1>5, <1>7 DEF Takes

(* When the greatest score so far was reached for the first time.          *)
Best(hist, m, s) ==
    /\ \A j \in 1 .. Len(hist) : hist[j][2] <= m
    /\ m # 0 => \E i \in 1 .. Len(hist) : hist[i] = <<s, m>> /\ \A j \in 1 .. (i - 1) : hist[j][2] < m

LEMMA BestAppend ==
    ASSUME NEW h \in Seq(Nat \X Nat), NEW m \in Nat, NEW s \in Nat, Best(h, m, s),
           NEW time \in Nat, NEW score \in Nat
    PROVE  /\ score > m => Best(Append(h, <<time, score>>), score, time)
           /\ score <= m => Best(Append(h, <<time, score>>), m, s)
  <1> DEFINE e == <<time, score>>
             g == Append(h, e)
  <1>1. PICK n \in Nat : n = Len(h)
    OBVIOUS
  <1>2. e \in Nat \X Nat /\ e[2] = score
    OBVIOUS
  <1> HIDE DEF e
  <1>3. Len(g) = n + 1 /\ g[n + 1] = e /\ \A i \in 1 .. n : g[i] = h[i]
    BY <1>1, <1>2
  <1> HIDE DEF g
  <1>4. \A i \in 1 .. n : h[i] \in Nat \X Nat /\ h[i][2] \in Nat /\ h[i][2] <= m
    BY <1>1 DEF Best
  <1>5. \A i \in 1 .. (n + 1) : i \in 1 .. n \/ i = n + 1
    OBVIOUS
  <1>6. ASSUME score > m  PROVE Best(g, score, time)
    <2>1. \A j \in 1 .. (n + 1) : g[j][2] <= score
      <3>1. \A j \in 1 .. n : g[j][2] <= score
        BY <1>3, <1>4, <1>6
      <3>2. g[n + 1][2] <= score
        BY <1>2, <1>3
      <3> QED  BY <1>5, <3>1, <3>2
    <2>2. n + 1 \in 1 .. (n + 1) /\ (n + 1) - 1 = n
      OBVIOUS
    <2>3. \A j \in 1 .. n : g[j][2] < score
      BY <1>3, <1>4, <1>6
    <2>4. g[n + 1] = <<time, score>>
      BY <1>3 DEF e
    <2> QED  BY <1>3, <2>1, <2>2, <2>3, <2>4 DEF Best
  <1>7. ASSUME score <= m  PROVE Best(g, m, s)
    <2>1. \A j \in 1 .. (n + 1) : g[j][2] <= m
      BY <1>2, <1>3, <1>4, <1>5, <1>7
    <2>2. ASSUME m # 0
          PROVE  \E i \in 1 .. (n + 1) : g[i] = <<s, m>> /\ \A j \in 1 .. (i - 1) : g[j][2] < m
      <3>1. PICK i \in 1 .. n : h[i] = <<s, m>> /\ \A j \in 1 .. (i - 1) : h[j][2] < m
        BY <1>1, <2>2 DEF Best
      <3>2. i \in 1 .. (n + 1) /\ \A j \in 1 .. (i - 1) : j \in 1 .. n
        OBVIOUS
      <3>3. g[i] = <<s, m>> /\ \A j \in 1 .. (i - 1) : g[j][2] < m
        BY <1>3, <3>1, <3>2
      <3> QED  BY <3>2, <3>3
    <2> QED  BY <1>3, <2>1, <2>2 DEF Best
  <1> QED  BY <1>6, <1>7 DEF g, e

EventRec(us) == [user : us, time : Nat, score : Nat]
Tagged(tag, c) == <<tag, Event(c, c.score)>>
Tags(tag, known, n) == [i \in 1 .. n |-> Tagged(tag, known[i])]

LEMMA TagsAre ==
    ASSUME NEW us, NEW known \in Seq(KnownRec(us)), NEW tag
    PROVE  /\ Tags(tag, known, 0) = <<>>
           /\ \A n \in 0 .. Len(known) : Tags(tag, known, n) \in Seq({tag} \X EventRec(us))
           /\ \A n \in Nat : n + 1 <= Len(known) =>
                Append(Tags(tag, known, n), Tagged(tag, known[n + 1])) = Tags(tag, known, n + 1)
  <1>1. Tags(tag, known, 0) = <<>>
    BY DEF Tags
  <1>2. \A i \in 1 .. Len(known) : Tagged(tag, known[i]) \in {tag} \X EventRec(us)
    <2> SUFFICES ASSUME NEW i \in 1 .. Len(known)  PROVE Tagged(tag, known[i]) \in {tag} \X EventRec(us)
      OBVIOUS
    <2>1. known[i] \in KnownRec(us)
      OBVIOUS
    <2>2. Event(known[i], known[i].score) \in EventRec(us)
      BY <2>1 DEF KnownRec, EventRec, Event
    <2> QED  BY <2>2 DEF Tagged
  <1>3. ASSUME NEW n \in 0 .. Len(known)
        PROVE  Tags(tag, known, n) \in Seq({tag} \X EventRec(us)) /\ Len(Tags(tag, known, n)) = n
    <2>1. n \in Nat /\ \A i \in 1 .. n : i \in 1 .. Len(known)
      OBVIOUS
    <2>2. \A i \in 1 .. n : Tagged(tag, known[i]) \in {tag} \X EventRec(us)
      BY <1>2, <2>1
    <2> DEFINE S == {tag} \X EventRec(us)
    <2> HIDE DEF S
    <2>3. [i \in 1 .. n |-> Tagged(tag, known[i])] \in Seq(S)
      BY <2>1, <2>2 DEF S
    <2>4. Len([i \in 1 .. n |-> Tagged(tag, known[i])]) = n
      BY <2>1
    <2> QED  BY <2>3, <2>4 DEF Tags, S
  <1>4. ASSUME NEW n \in Nat, n + 1 <= Len(known)
        PROVE  Append(Tags(tag, known, n), Tagged(tag, known[n + 1])) = Tags(tag, known, n + 1)
    <2> DEFINE S == {tag} \X EventRec(us)
               p == Tags(tag, known, n)
               x == Tagged(tag, known[n + 1])
    <2>1. p \in Seq(S) /\ Len(p) = n
      BY <1>3, <1>4
    <2>2. x \in S
      BY <1>2, <1>4
    <2>3. \A i \in 1 .. (n + 1) : (IF i = n + 1 THEN x ELSE p[i]) = Tagged(tag, known[i])
      BY DEF Tags
    <2> HIDE DEF S, p, x
    <2>4. Append(p, x) = [i \in 1 .. (n + 1) |-> IF i = n + 1 THEN x ELSE p[i]]
      BY <2>1, <2>2, AppendIs
    <2>5. Append(p, x) = [i \in 1 .. (n + 1) |-> Tagged(tag, known[i])]
      BY <2>3, <2>4
    <2> QED  BY <2>5 DEF Tags, p, x
  <1> QED  BY <1>1, <1>3, <1>4

Table(us) == [us -> [{"task"} -> Nat]]

(* The page after n changes.                                               *)
PageAt(h, known, n, us) ==
    /\ h.d \in Table(us) /\ h.max_score \in Table(us) /\ h.solve_time_t \in Table(us)
    /\ h.history_t = Tags("task", known, n)
    /\ h.history_c = Tags("contest", known, n)
    /\ h.history_g = Tags("", known, n)
    /\ \A v \in us : Best(Hist(Pre(known, n), v), h.max_score[v]["task"], h.solve_time_t[v]["task"])

LEMMA PageStart ==
    ASSUME NEW us, NEW known \in Seq(KnownRec(us))
    PROVE  PageAt(EmptyHistory(us, TheTasks), known, 0, us)
  <1> DEFINE h == EmptyHistory(us, TheTasks)
             zero == [u \in us |-> [t \in {"task"} |-> 0]]
  <1>1. DOMAIN TheTasks = {"task"}
    BY DEF TheTasks
  <1>2. h = [d |-> zero, max_score |-> zero, solve_time_t |-> zero,
             history_t |-> <<>>, history_c |-> <<>>, history_g |-> <<>>]
    BY <1>1 DEF EmptyHistory
  <1>3. zero \in Table(us) /\ \A v \in us : zero[v]["task"] = 0
    BY DEF Table
  <1> HIDE DEF zero
  <1>4. \A v \in us : Best(Hist(Pre(known, 0), v), 0, 0)
    <2> SUFFICES ASSUME NEW v \in us  PROVE Best(Hist(Pre(known, 0), v), 0, 0)
      OBVIOUS
    <2>1. Hist(Pre(known, 0), v) = <<>>
      BY PreIs, HistNone
    <2> QED  BY <2>1 DEF Best
  <1>5. Tags("task", known, 0) = <<>> /\ Tags("contest", known, 0) = <<>> /\ Tags("", known, 0) = <<>>
    BY TagsAre
  <1> HIDE DEF h
  <1>6. h.d = zero /\ h.max_score = zero /\ h.solve_time_t = zero
        /\ h.history_t = <<>> /\ h.history_c = <<>> /\ h.history_g = <<>>
    BY <1>2
  <1>7. PageAt(h, known, 0, us)
    BY <1>3, <1>4, <1>5, <1>6 DEF PageAt
  <1> QED  BY <1>7 DEF h

LEMMA PageStep ==
    ASSUME NEW us, NEW known \in Seq(KnownRec(us)), NEW n \in Nat, n + 1 <= Len(known),
           NEW h, PageAt(h, known, n, us)
    PROVE  PageAt(TakeChange(h, known[n + 1], TheTasks, TheBegin), known, n + 1, us)
  <1> DEFINE c == known[n + 1]
             u == c.user
             next == TakeChange(h, c, TheTasks, TheBegin)
             row == [h.d[u] EXCEPT !["task"] = c.score]
             better == c.score > h.max_score[u]["task"]
             max == IF ~better THEN h.max_score ELSE [h.max_score EXCEPT ![u]["task"] = c.score]
             solve == IF ~better THEN h.solve_time_t ELSE [h.solve_time_t EXCEPT ![u]["task"] = c.time]
             d == [h.d EXCEPT ![u] = row]
  <1>1. c \in KnownRec(us)
    OBVIOUS
  <1>2. u \in us /\ c.task = "task" /\ c.time \in Nat /\ c.score \in Nat
    BY <1>1 DEF KnownRec
  <1>3. h.d \in Table(us) /\ h.max_score \in Table(us) /\ h.solve_time_t \in Table(us)
    BY DEF PageAt
  <1> HIDE DEF c
  <1>4. TheTasks[c.task] = "contest" /\ TheBegin["contest"] = 0 /\ DOMAIN TheTasks = {"task"}
        /\ SameContest(c.task, TheTasks) = {"task"} /\ c.task \notin Untimed
    BY <1>2 DEF TheTasks, TheBegin, SameContest, Untimed
  <1>5. row["task"] = c.score /\ d \in Table(us)
    BY <1>2, <1>3 DEF Table
  <1>6. ScoreIn(row, {"task"}) = c.score
    <2> DEFINE x == "task"
    <2>1. row[x] \in Nat /\ row[x] = c.score
      BY <1>2, <1>5
    <2> HIDE DEF x, row
    <2>2. ScoreIn(row, {x}) = row[x]
      BY <2>1, ScoreInOne
    <2> QED  BY <2>1, <2>2 DEF x
  <1>7. c.time - 0 = c.time
    BY <1>2
  <1>8. next = [d |-> d, max_score |-> max, solve_time_t |-> solve,
                history_t |-> Append(h.history_t, Tagged("task", c)),
                history_c |-> Append(h.history_c, Tagged("contest", c)),
                history_g |-> Append(h.history_g, Tagged("", c))]
    <2>1. row = [h.d[c.user] EXCEPT ![c.task] = c.score]
      BY <1>2
    <2>2. better <=> (c.task \notin Untimed /\ c.score > h.max_score[c.user][c.task])
      BY <1>2, <1>4
    <2> QED  BY <1>2, <1>4, <1>6, <1>7, <2>1, <2>2 DEF TakeChange, Tagged
  <1>9. max \in Table(us) /\ solve \in Table(us)
    BY <1>2, <1>3 DEF Table
  <1>10. Append(h.history_t, Tagged("task", c)) = Tags("task", known, n + 1)
    BY TagsAre DEF PageAt, c
  <1>11. Append(h.history_c, Tagged("contest", c)) = Tags("contest", known, n + 1)
    BY TagsAre DEF PageAt, c
  <1>12. Append(h.history_g, Tagged("", c)) = Tags("", known, n + 1)
    BY TagsAre DEF PageAt, c
  <1>13. ASSUME NEW v \in us
         PROVE  Best(Hist(Pre(known, n + 1), v), max[v]["task"], solve[v]["task"])
    <2> DEFINE p == Pre(known, n)
               hist == Hist(p, v)
               m == h.max_score[v]["task"]
               s == h.solve_time_t[v]["task"]
    <2>1. Pre(known, n + 1) = Append(p, c) /\ p \in Seq(KnownRec(us))
      BY PreIs DEF c
    <2>2. m \in Nat /\ s \in Nat /\ Best(hist, m, s)
      BY <1>3 DEF PageAt, Table
    <2> HIDE DEF p
    <2>3. hist \in Seq(Nat \X Nat)
      BY <2>1, KnownMarked, HistIs
    <2>4. Hist(Append(p, c), v) = IF u = v THEN Append(hist, Mark(c)) ELSE hist
      BY <1>1, <2>1, KnownMarked, HistAppend
    <2>5. CASE u # v
      <3>1. max[v]["task"] = m /\ solve[v]["task"] = s
        BY <1>2, <1>3, <2>5 DEF Table
      <3> HIDE DEF max, solve, m, s, hist
      <3> QED  BY <2>1, <2>2, <2>4, <2>5, <3>1
    <2>6. CASE u = v
      <3>1. max[v]["task"] = (IF better THEN c.score ELSE m) /\ solve[v]["task"] = (IF better THEN c.time ELSE s)
        BY <1>2, <1>3, <2>6 DEF Table
      <3>2. better <=> c.score > m
        BY <2>6
      <3>3. Mark(c) = <<c.time, c.score>>
        BY DEF Mark
      <3> HIDE DEF max, solve, m, s, hist, better
      <3>4. /\ c.score > m => Best(Append(hist, <<c.time, c.score>>), c.score, c.time)
            /\ c.score <= m => Best(Append(hist, <<c.time, c.score>>), m, s)
        BY <1>2, <2>2, <2>3, BestAppend
      <3>5. better \/ c.score <= m
        BY <1>2, <2>2, <3>2
      <3>6. Hist(Pre(known, n + 1), v) = Append(hist, <<c.time, c.score>>)
        BY <2>1, <2>4, <2>6, <3>3
      <3>7. CASE better
        BY <3>1, <3>2, <3>4, <3>6, <3>7
      <3>8. CASE ~better
        BY <3>1, <3>4, <3>5, <3>6, <3>8
      <3> QED  BY <3>7, <3>8
    <2> QED  BY <2>5, <2>6
  <1> HIDE DEF d, max, solve, next
  <1>14. PageAt(next, known, n + 1, us)
    BY <1>5, <1>8, <1>9, <1>10, <1>11, <1>12, <1>13 DEF PageAt
  <1> QED  BY <1>14 DEF next, c

LEMMA PageIs ==
    ASSUME NEW us, NEW data \in Seq(MergedRec)
    PROVE  PageAt(PerformUpdate(data, us, TheTasks, TheBegin), KnownOf(data, us),
                  Len(KnownOf(data, us)), us)
  <1> DEFINE known == KnownOf(data, us)
  <1>1. known \in Seq(KnownRec(us))
    BY KnownIs
  <1>2. PICK n \in Nat : n = Len(known)
    BY <1>1
  <1>3. PICK f : Takes(f, known, us) /\ PerformUpdate(data, us, TheTasks, TheBegin) = f[n]
    BY <1>2, UpdateIs
  <1> HIDE DEF known
  <1> DEFINE U == {m \in Nat : m <= n => PageAt(f[m], known, m, us)}
  <1>4. 0 \in U
    BY <1>1, <1>3, PageStart DEF Takes
  <1>5. ASSUME NEW m \in Nat, m \in U  PROVE m + 1 \in U
    <2> SUFFICES ASSUME m + 1 <= n  PROVE PageAt(f[m + 1], known, m + 1, us)
      OBVIOUS
    <2>1. PageAt(f[m], known, m, us) /\ m + 1 \in 1 .. n /\ (m + 1) - 1 = m
      BY <1>5
    <2>2. f[m + 1] = TakeChange(f[m], known[m + 1], TheTasks, TheBegin)
      BY <1>2, <1>3, <2>1 DEF Takes
    <2>3. PageAt(TakeChange(f[m], known[m + 1], TheTasks, TheBegin), known, m + 1, us)
      BY <1>1, <1>2, <2>1, PageStep
    <2> QED  BY <2>2, <2>3
  <1>6. PageAt(f[n], known, n, us)
    <2>1. Nat \subseteq U
      <3> HIDE DEF U
      <3> QED  BY <1>4, <1>5, SetInduction
    <2> QED  BY <2>1
  <1> QED  BY <1>2, <1>3, <1>6 DEF known

(* The three lists of events are the same, as there is one task.           *)
Events(known) == [i \in 1 .. Len(known) |-> Event(known[i], known[i].score)]

LEMMA EventsAre ==
    ASSUME NEW us, NEW known \in Seq(KnownRec(us)), NEW tag
    PROVE  EventsFor(Tags(tag, known, Len(known)), tag) = Events(known)
  <1> DEFINE list == Tags(tag, known, Len(known))
             S == {tag} \X EventRec(us)
             at == {i \in DOMAIN list : list[i][1] = tag}
  <1>1. PICK n \in Nat : n = Len(known)
    OBVIOUS
  <1>2. n \in 0 .. Len(known)
    BY <1>1
  <1>3. list \in Seq(S)
    BY <1>1, <1>2, TagsAre
  <1>4. list = [i \in 1 .. n |-> Tagged(tag, known[i])]
    BY <1>1 DEF Tags
  <1> HIDE DEF list
  <1>5. DOMAIN list = 1 .. n /\ Len(list) = n /\ \A i \in 1 .. n : list[i] = Tagged(tag, known[i])
    BY <1>4
  <1>6. \A i \in 1 .. n : list[i][1] = tag /\ list[i][2] = Event(known[i], known[i].score)
    BY <1>5 DEF Tagged
  <1>7. \A i \in 1 .. Len(list) : i \in at
    BY <1>5, <1>6
  <1> HIDE DEF S, at
  <1>8. Selected(list, at) = list
    BY <1>3, <1>7, SelectedAll
  <1>9. EventsFor(list, tag) = [i \in DOMAIN list |-> list[i][2]]
    BY <1>8 DEF EventsFor, at
  <1>10. EventsFor(list, tag) = [i \in 1 .. n |-> Event(known[i], known[i].score)]
    BY <1>5, <1>6, <1>9
  <1> QED  BY <1>1, <1>10 DEF Events, list

LEMMA EventMarked ==
    ASSUME NEW us
    PROVE  Marked(EventRec(us))
  BY DEF Marked, EventRec

LEMMA EventsHist ==
    ASSUME NEW us, NEW known \in Seq(KnownRec(us))
    PROVE  Events(known) \in Seq(EventRec(us)) /\ \A v \in us : Hist(Events(known), v) = Hist(known, v)
  <1> DEFINE list == Events(known)
  <1>1. PICK n \in Nat : n = Len(known)
    OBVIOUS
  <1>2. \A i \in 1 .. n : known[i] \in KnownRec(us)
    BY <1>1
  <1>3. \A i \in 1 .. n : Event(known[i], known[i].score) \in EventRec(us)
    BY <1>2 DEF KnownRec, EventRec, Event
  <1>4. list = [i \in 1 .. n |-> Event(known[i], known[i].score)]
    BY <1>1 DEF Events
  <1> HIDE DEF list
  <1>5. list \in Seq(EventRec(us)) /\ Len(list) = n
        /\ \A i \in 1 .. n : list[i] = Event(known[i], known[i].score)
    <2> DEFINE S == EventRec(us)
               E(i) == Event(known[i], known[i].score)
    <2>1. \A i \in 1 .. n : E(i) \in S
      BY <1>3
    <2>2. list = [i \in 1 .. n |-> E(i)]
      BY <1>4
    <2> HIDE DEF S, E
    <2>3. list \in Seq(S) /\ Len(list) = n /\ \A i \in 1 .. n : list[i] = E(i)
      BY <2>1, <2>2
    <2> QED  BY <2>3 DEF S, E
  <1>6. \A i \in 1 .. n : list[i].user = known[i].user /\ Mark(list[i]) = Mark(known[i])
    BY <1>5 DEF Event, Mark
  <1> DEFINE Same(m) == \A v \in us : Hist(Pre(list, m), v) = Hist(Pre(known, m), v)
             U == {m \in Nat : m <= n => Same(m)}
  <1>7. 0 \in U
    <2>1. Pre(list, 0) = <<>> /\ Pre(known, 0) = <<>>
      BY DEF Pre
    <2> QED  BY <2>1
  <1>8. ASSUME NEW m \in Nat, m \in U  PROVE m + 1 \in U
    <2> SUFFICES ASSUME m + 1 <= n, NEW v \in us
                 PROVE  Hist(Pre(list, m + 1), v) = Hist(Pre(known, m + 1), v)
      OBVIOUS
    <2> DEFINE p == Pre(list, m)
               q == Pre(known, m)
               e == list[m + 1]
               c == known[m + 1]
    <2>1. m + 1 \in 1 .. n /\ Hist(p, v) = Hist(q, v)
      BY <1>8
    <2>2. Pre(list, m + 1) = Append(p, e) /\ p \in Seq(EventRec(us)) /\ e \in EventRec(us)
      BY <1>5, <2>1, PreIs
    <2>3. Pre(known, m + 1) = Append(q, c) /\ q \in Seq(KnownRec(us)) /\ c \in KnownRec(us)
      BY <1>1, <2>1, PreIs
    <2>4. e.user = c.user /\ Mark(e) = Mark(c)
      BY <1>6, <2>1
    <2> HIDE DEF p, q, e, c
    <2>5. Hist(Append(p, e), v) = IF e.user = v THEN Append(Hist(p, v), Mark(e)) ELSE Hist(p, v)
      BY <2>2, EventMarked, HistAppend
    <2>6. Hist(Append(q, c), v) = IF c.user = v THEN Append(Hist(q, v), Mark(c)) ELSE Hist(q, v)
      BY <2>3, KnownMarked, HistAppend
    <2> QED  BY <2>1, <2>2, <2>3, <2>4, <2>5, <2>6
  <1>9. Same(n)
    <2>1. Nat \subseteq U
      <3> HIDE DEF U
      <3> QED  BY <1>7, <1>8, SetInduction
    <2> QED  BY <2>1
  <1>10. Pre(list, n) = list /\ Pre(known, n) = known
    BY <1>1, <1>5, PreIs
  <1> QED  BY <1>5, <1>9, <1>10 DEF list

-----------------------------------------------------------------------------
(* The ranks: the counters are what counting anew would give.              *)

LEMMA SetMove ==
    ASSUME NEW D, IsFiniteSet(D), NEW A, A \subseteq D, NEW B, B \subseteq D, NEW w,
           A \ {w} = B \ {w}
    PROVE  /\ Cardinality(A) \in Nat /\ Cardinality(B) \in Nat
           /\ Cardinality(B) = Cardinality(A) + If(w \notin A /\ w \in B, 1) - If(w \in A /\ w \notin B, 1)
  <1>1. IsFiniteSet(A) /\ IsFiniteSet(B)
    BY FS_Subset
  <1>2. Cardinality(A) \in Nat /\ Cardinality(B) \in Nat
    BY <1>1, FS_CardinalityType
  <1>3. CASE w \in A <=> w \in B
    <2>1. A = B
      BY <1>3
    <2> QED  BY <1>2, <1>3, <2>1 DEF If
  <1>4. CASE w \notin A /\ w \in B
    <2>1. B = A \cup {w}
      BY <1>4
    <2>2. Cardinality(B) = Cardinality(A) + 1
      BY <1>1, <1>4, <2>1, FS_AddElement
    <2> QED  BY <1>2, <1>4, <2>2 DEF If
  <1>5. CASE w \in A /\ w \notin B
    <2>1. A = B \cup {w}
      BY <1>5
    <2>2. Cardinality(A) = Cardinality(B) + 1
      BY <1>1, <1>5, <2>1, FS_AddElement
    <2> QED  BY <1>2, <1>5, <2>2 DEF If
  <1> QED  BY <1>3, <1>4, <1>5

(* A score x among the scores d, and among d2, where that of w is s.       *)
Moves(d, d2, w, s, x) ==
    /\ Higher(d, x) \in Nat /\ Equal(d, x) \in Nat
    /\ Higher(d2, x) \in Nat /\ Equal(d2, x) \in Nat
    /\ Higher(d2, x) = Higher(d, x) + If(d[w] <= x /\ s > x, 1) - If(d[w] > x /\ s <= x, 1)
    /\ s # d[w] => Equal(d2, x) = Equal(d, x) - If(d[w] = x, 1) + If(d[w] # x /\ s = x, 1)

LEMMA CountMove ==
    ASSUME NEW D, IsFiniteSet(D), NEW d \in [D -> Nat], NEW w \in D, NEW s \in Nat, NEW x \in Nat,
           NEW d2, d2 = [d EXCEPT ![w] = s]
    PROVE  Moves(d, d2, w, s, x)
  <1> DEFINE A == {v \in DOMAIN d : d[v] > x}
             B == {v \in DOMAIN d2 : d2[v] > x}
             E == {v \in DOMAIN d : d[v] = x}
             F == {v \in DOMAIN d2 : d2[v] = x}
  <1>1. DOMAIN d = D /\ DOMAIN d2 = D /\ d2[w] = s /\ (\A v \in D \ {w} : d2[v] = d[v]) /\ d[w] \in Nat
    OBVIOUS
  <1>2. A \subseteq D /\ B \subseteq D /\ A \ {w} = B \ {w} /\ (w \in A <=> d[w] > x) /\ (w \in B <=> s > x)
    BY <1>1
  <1>3. E \subseteq D /\ F \subseteq D /\ E \ {w} = F \ {w} /\ (w \in E <=> d[w] = x) /\ (w \in F <=> s = x)
    BY <1>1
  <1>4. Higher(d, x) = Cardinality(A) /\ Higher(d2, x) = Cardinality(B)
        /\ Equal(d, x) = Cardinality(E) /\ Equal(d2, x) = Cardinality(F)
    BY DEF Higher, Equal
  <1> HIDE DEF A, B, E, F
  <1>5. /\ Cardinality(A) \in Nat /\ Cardinality(B) \in Nat
        /\ Cardinality(B) = Cardinality(A) + If(w \notin A /\ w \in B, 1) - If(w \in A /\ w \notin B, 1)
    BY <1>2, SetMove
  <1>6. /\ Cardinality(E) \in Nat /\ Cardinality(F) \in Nat
        /\ Cardinality(F) = Cardinality(E) + If(w \notin E /\ w \in F, 1) - If(w \in E /\ w \notin F, 1)
    BY <1>3, SetMove
  <1>7. Higher(d2, x) = Higher(d, x) + If(d[w] <= x /\ s > x, 1) - If(d[w] > x /\ s <= x, 1)
    <2>1. d[w] <= x <=> w \notin A
      BY <1>1, <1>2
    <2>2. s <= x <=> w \notin B
      BY <1>2
    <2>3. (d[w] <= x /\ s > x) <=> (w \notin A /\ w \in B)
      BY <1>2, <2>1, <2>2
    <2>4. (d[w] > x /\ s <= x) <=> (w \in A /\ w \notin B)
      BY <1>2, <2>1, <2>2
    <2> QED  BY <1>4, <1>5, <2>3, <2>4 DEF If
  <1>8. s # d[w] => Equal(d2, x) = Equal(d, x) - If(d[w] = x, 1) + If(d[w] # x /\ s = x, 1)
    <2> SUFFICES ASSUME s # d[w]
                 PROVE  Equal(d2, x) = Equal(d, x) - If(d[w] = x, 1) + If(d[w] # x /\ s = x, 1)
      OBVIOUS
    <2> QED  BY <1>3, <1>4, <1>6 DEF If
  <1> QED  BY <1>4, <1>5, <1>6, <1>7, <1>8 DEF Moves

RankStart(us) == [d |-> [v \in us |-> 0], above |-> 0, equal |-> Cardinality(us), result |-> <<>>]

Ranks(f, events, u, us) ==
    f[0] = RankStart(us) /\ \A i \in 1 .. Len(events) : f[i] = RankStep(f[i - 1], events[i], u)

LEMMA RanksAre ==
    ASSUME NEW us, NEW u, NEW events, Len(events) \in Nat
    PROVE  \E f : Ranks(f, events, u, us) /\ RankHistory(events, u, us) = f[Len(events)].result
  <1> DEFINE Body(f, m) == [i \in 0 .. m |-> IF i = 0 THEN RankStart(us)
                                             ELSE RankStep(f[i - 1], events[i], u)]
             T == {m \in Nat : \E f : f = Body(f, m)}
  <1>0. PICK n \in Nat : n = Len(events)
    OBVIOUS
  <1>1. 0 \in T
    <2> DEFINE f == [k \in 0 .. 0 |-> RankStart(us)]
    <2>1. f = Body(f, 0)
      OBVIOUS
    <2> HIDE DEF f, Body
    <2> QED  BY <2>1
  <1>2. ASSUME NEW m \in Nat, m \in T PROVE m + 1 \in T
    <2>1. PICK g : g = Body(g, m)
      BY <1>2
    <2> DEFINE f == Body(g, m + 1)
    <2>2. \A k \in 0 .. m : f[k] = g[k]
      <3>1. \A k \in 0 .. m : g[k] = IF k = 0 THEN RankStart(us) ELSE RankStep(g[k - 1], events[k], u)
        BY <2>1
      <3> QED  BY <3>1
    <2>3. f = Body(f, m + 1)
      <3>1. \A k \in 0 .. (m + 1) : k # 0 => k - 1 \in 0 .. m
        OBVIOUS
      <3>2. \A k \in 0 .. (m + 1) : k # 0 =>
               RankStep(g[k - 1], events[k], u) = RankStep(f[k - 1], events[k], u)
        <4> HIDE DEF f
        <4> QED  BY <2>2, <3>1
      <3> QED  BY <3>2, Zenon
    <2> HIDE DEF f, Body
    <2> QED  BY <2>3
  <1>3. n \in T
    <2> HIDE DEF T
    <2>1. Nat \subseteq T
      BY <1>1, <1>2, SetInduction
    <2> QED  BY <2>1
  <1> DEFINE after == CHOOSE f : f = Body(f, n)
  <1>4. after = Body(after, n)
    <2> HIDE DEF Body
    <2> QED  BY <1>3, Zenon
  <1>5. RankHistory(events, u, us) = after[n].result
    BY <1>0, Zenon DEF RankHistory, RankStart
  <1>6. \A i \in 0 .. n : after[i] = IF i = 0 THEN RankStart(us) ELSE RankStep(after[i - 1], events[i], u)
    <2> HIDE DEF after
    <2> QED  BY <1>4
  <1> HIDE DEF after
  <1>7. after[0] = RankStart(us) /\ \A i \in 1 .. n : after[i] = RankStep(after[i - 1], events[i], u)
    <2>1. 0 \in 0 .. n /\ \A i \in 1 .. n : i \in 0 .. n /\ i # 0
      OBVIOUS
    <2> QED  BY <1>6, <2>1, Zenon
  <1> QED  BY <1>0, <1>5, <1>7 DEF Ranks

(* Every event changes its user's score, at any point of the list.         *)
FitsAll(list, us) == \A v \in us : HistoryFits(Hist(list, v))

LEMMA FitsDown ==
    ASSUME NEW us, NEW list \in Seq(EventRec(us)), NEW e \in EventRec(us), FitsAll(Append(list, e), us)
    PROVE  FitsAll(list, us) /\ e.score # LastScore(Hist(list, e.user))
  <1>1. \A v \in us : Hist(list, v) \in Seq(Nat \X Nat)
    BY EventMarked, HistIs
  <1>2. \A v \in us : Hist(Append(list, e), v) = IF e.user = v THEN Append(Hist(list, v), Mark(e)) ELSE Hist(list, v)
    BY EventMarked, HistAppend
  <1>3. e.user \in us /\ Mark(e) \in Nat \X Nat /\ Mark(e)[2] = e.score
    BY DEF EventRec, Mark
  <1>4. HistoryFits(Append(Hist(list, e.user), Mark(e)))
    BY <1>2, <1>3 DEF FitsAll
  <1>5. HistoryFits(Hist(list, e.user)) /\ Mark(e)[2] # LastScore(Hist(list, e.user))
    <2> DEFINE h == Hist(list, e.user)
               x == Mark(e)
    <2>1. h \in Seq(Nat \X Nat) /\ x \in Nat \X Nat /\ HistoryFits(Append(h, x))
      BY <1>1, <1>3, <1>4
    <2> HIDE DEF h, x
    <2>2. HistoryFits(h) /\ x[2] # LastScore(h)
      BY <2>1, FitsAppend
    <2> QED  BY <2>2 DEF h, x
  <1>6. \A v \in us : HistoryFits(Hist(list, v))
    <2> SUFFICES ASSUME NEW v \in us  PROVE HistoryFits(Hist(list, v))
      OBVIOUS
    <2>1. CASE v = e.user
      BY <1>5, <2>1
    <2>2. CASE v # e.user
      BY <1>2, <2>2 DEF FitsAll
    <2> QED  BY <2>1, <2>2
  <1> QED  BY <1>3, <1>5, <1>6 DEF FitsAll

LEMMA PrefixesFit ==
    ASSUME NEW us, NEW list \in Seq(EventRec(us)), FitsAll(list, us)
    PROVE  \A m \in 0 .. Len(list) : FitsAll(Pre(list, m), us)
  <1>1. PICK n \in Nat : n = Len(list)
    OBVIOUS
  <1> DEFINE U == {m \in Nat : m <= n => FitsAll(Pre(list, n - m), us)}
  <1>2. 0 \in U
    <2>1. Pre(list, n) = list /\ n - 0 = n
      BY <1>1, PreIs
    <2> QED  BY <2>1
  <1>3. ASSUME NEW m \in Nat, m \in U  PROVE m + 1 \in U
    <2> SUFFICES ASSUME m + 1 <= n  PROVE FitsAll(Pre(list, n - (m + 1)), us)
      OBVIOUS
    <2>1. PICK k \in Nat : k = n - (m + 1) /\ k + 1 <= n
      OBVIOUS
    <2>2. n - m = k + 1 /\ FitsAll(Pre(list, n - m), us)
      BY <1>3, <2>1
    <2> DEFINE p == Pre(list, k)
               e == list[k + 1]
    <2>3. Pre(list, k + 1) = Append(p, e) /\ p \in Seq(EventRec(us)) /\ e \in EventRec(us)
      <3>1. k + 1 <= Len(list) /\ k \in 0 .. Len(list)
        BY <1>1, <2>1
      <3> QED  BY <3>1, PreIs
    <2> HIDE DEF p, e
    <2>4. FitsAll(Append(p, e), us)
      BY <2>2, <2>3
    <2>5. FitsAll(p, us)
      BY <2>3, <2>4, FitsDown
    <2> QED  BY <2>1, <2>5 DEF p
  <1>4. Nat \subseteq U
    <2> HIDE DEF U
    <2> QED  BY <1>2, <1>3, SetInduction
  <1>5. ASSUME NEW m \in 0 .. n  PROVE FitsAll(Pre(list, m), us)
    <2>1. n - m \in Nat /\ n - m <= n /\ n - (n - m) = m
      OBVIOUS
    <2>2. n - m \in U
      BY <1>4, <2>1
    <2>3. FitsAll(Pre(list, n - (n - m)), us)
      BY <2>1, <2>2
    <2> QED  BY <2>1, <2>3
  <1> QED  BY <1>1, <1>5

(* The last entry has the rank and how many share it.                      *)
Ranked(result, above, equal, us) ==
    /\ result \in Seq(Nat \X Int \X Int)
    /\ IF result = <<>> THEN above = 0 /\ equal = Cardinality(us)
       ELSE result[Len(result)][2] = above + 1 /\ result[Len(result)][3] = equal - 1

RankAt(r, list, u, us) ==
    /\ r.d \in [us -> Nat] /\ \A v \in us : r.d[v] = LastScore(Hist(list, v))
    /\ r.above = Higher(r.d, r.d[u]) /\ r.equal = Equal(r.d, r.d[u])
    /\ Ranked(r.result, r.above, r.equal, us)

LEMMA RankAtStart ==
    ASSUME NEW us, IsFiniteSet(us), NEW u \in us
    PROVE  RankAt(RankStart(us), <<>>, u, us)
  <1> DEFINE r == RankStart(us)
             d == [v \in us |-> 0]
  <1>1. r.d = d /\ r.above = 0 /\ r.equal = Cardinality(us) /\ r.result = <<>>
    BY DEF RankStart
  <1>2. d \in [us -> Nat] /\ DOMAIN d = us /\ \A v \in us : d[v] = 0
    OBVIOUS
  <1> HIDE DEF d, r
  <1>3. {v \in DOMAIN d : d[v] > 0} = {} /\ {v \in DOMAIN d : d[v] = 0} = us
    BY <1>2
  <1>4. Higher(d, 0) = 0 /\ Equal(d, 0) = Cardinality(us)
    BY <1>3, FS_EmptySet DEF Higher, Equal
  <1>5. \A v \in us : LastScore(Hist(<<>>, v)) = 0
    BY HistNone DEF LastScore
  <1>6. Ranked(<<>>, 0, Cardinality(us), us)
    BY DEF Ranked
  <1>7. RankAt(r, <<>>, u, us)
    BY <1>1, <1>2, <1>4, <1>5, <1>6 DEF RankAt
  <1> QED  BY <1>7 DEF r

LEMMA RankedAppend ==
    ASSUME NEW us, NEW result \in Seq(Nat \X Int \X Int), NEW time \in Nat, NEW above \in Int, NEW equal \in Int
    PROVE  Ranked(Append(result, <<time, above + 1, equal - 1>>), above, equal, us)
  <1> DEFINE S == Nat \X Int \X Int
             x == <<time, above + 1, equal - 1>>
             q == Append(result, x)
  <1>1. x \in S /\ x[2] = above + 1 /\ x[3] = equal - 1
    OBVIOUS
  <1>2. result \in Seq(S)
    OBVIOUS
  <1> HIDE DEF S, x
  <1>3. q \in Seq(S) /\ q # <<>> /\ q[Len(q)] = x
    BY <1>1, <1>2, AppendLast
  <1> HIDE DEF q
  <1>4. Ranked(q, above, equal, us)
    BY <1>1, <1>3 DEF Ranked, S
  <1> QED  BY <1>4 DEF q, x

LEMMA RankAtStep ==
    ASSUME NEW us, IsFiniteSet(us), NEW u \in us, NEW list \in Seq(EventRec(us)),
           NEW e \in EventRec(us), NEW r, RankAt(r, list, u, us), e.score # LastScore(Hist(list, e.user))
    PROVE  RankAt(RankStep(r, e, u), Append(list, e), u, us)
  <1> DEFINE w == e.user
             s == e.score
             mine == r.d[u]
             old == r.d[w]
             d == [r.d EXCEPT ![w] = s]
             above == IF w = u THEN Higher(d, s)
                      ELSE r.above + If(old <= mine /\ s > mine, 1) - If(old > mine /\ s <= mine, 1)
             equal == IF w = u THEN Equal(d, s)
                      ELSE r.equal - If(old = mine, 1) + If(old # mine /\ s = mine, 1)
             result == IF above = r.above /\ equal = r.equal THEN r.result
                       ELSE Append(r.result, <<e.time, above + 1, equal - 1>>)
             next == RankStep(r, e, u)
  <1>1. w \in us /\ s \in Nat /\ e.time \in Nat
    BY DEF EventRec
  <1>2. r.d \in [us -> Nat] /\ mine \in Nat /\ old \in Nat /\ \A v \in us : r.d[v] = LastScore(Hist(list, v))
    BY <1>1 DEF RankAt
  <1>3. next = [d |-> d, above |-> above, equal |-> equal, result |-> result]
    BY DEF RankStep
  <1>4. s # old
    BY <1>1, <1>2
  <1>5. d \in [us -> Nat] /\ d[w] = s /\ \A v \in us \ {w} : d[v] = r.d[v]
    BY <1>1, <1>2
  <1>6. \A x \in Nat : Moves(r.d, d, w, s, x)
    <2> DEFINE rd == r.d
               to == d
    <2>1. rd \in [us -> Nat] /\ to = [rd EXCEPT ![w] = s]
      BY <1>2
    <2> HIDE DEF rd, to
    <2>2. \A x \in Nat : Moves(rd, to, w, s, x)
      BY <1>1, <2>1, CountMove
    <2> QED  BY <2>2 DEF rd, to
  <1> HIDE DEF d
  <1>7. above = Higher(d, d[u]) /\ equal = Equal(d, d[u]) /\ above \in Nat /\ equal \in Nat
    <2>1. CASE w = u
      <3>1. Moves(r.d, d, w, s, s)
        BY <1>1, <1>6
      <3>2. Higher(d, s) \in Nat /\ Equal(d, s) \in Nat
        BY <3>1 DEF Moves
      <3> QED  BY <1>5, <2>1, <3>2
    <2>2. CASE w # u
      <3>1. d[u] = mine
        BY <1>5, <2>2
      <3>2. r.above = Higher(r.d, mine) /\ r.equal = Equal(r.d, mine)
        BY DEF RankAt
      <3>3. Moves(r.d, d, w, s, mine)
        BY <1>2, <1>6
      <3>4. above = Higher(d, mine) /\ Higher(d, mine) \in Nat
        BY <2>2, <3>2, <3>3 DEF Moves
      <3>5. equal = Equal(d, mine) /\ Equal(d, mine) \in Nat
        BY <1>4, <2>2, <3>2, <3>3 DEF Moves
      <3> QED  BY <3>1, <3>4, <3>5
    <2> QED  BY <2>1, <2>2
  <1> HIDE DEF above, equal
  <1>8. Ranked(result, above, equal, us)
    <2>1. Ranked(r.result, r.above, r.equal, us)
      BY DEF RankAt
    <2>2. CASE above = r.above /\ equal = r.equal
      BY <2>1, <2>2
    <2>3. CASE ~ (above = r.above /\ equal = r.equal)
      <3>1. r.result \in Seq(Nat \X Int \X Int)
        BY <2>1 DEF Ranked
      <3>2. Ranked(Append(r.result, <<e.time, above + 1, equal - 1>>), above, equal, us)
        BY <1>1, <1>7, <3>1, RankedAppend
      <3> QED  BY <2>3, <3>2
    <2> QED  BY <2>2, <2>3
  <1>9. ASSUME NEW v \in us  PROVE d[v] = LastScore(Hist(Append(list, e), v))
    <2>1. Hist(list, v) \in Seq(Nat \X Nat)
      BY EventMarked, HistIs
    <2>2. Hist(Append(list, e), v) = IF e.user = v THEN Append(Hist(list, v), Mark(e)) ELSE Hist(list, v)
      BY EventMarked, HistAppend
    <2>3. CASE v # w
      BY <1>2, <1>5, <2>2, <2>3
    <2>4. CASE v = w
      <3> DEFINE h == Hist(list, v)
                 x == Mark(e)
      <3>1. x \in Nat \X Nat /\ x[2] = s
        BY <1>1 DEF Mark
      <3>2. Hist(Append(list, e), v) = Append(h, x)
        BY <2>2, <2>4
      <3> HIDE DEF h, x
      <3>3. h \in Seq(Nat \X Nat)
        BY <2>1 DEF h
      <3>4. Append(h, x) # <<>> /\ Append(h, x)[Len(Append(h, x))] = x
        <4> DEFINE S == Nat \X Nat
        <4>1. h \in Seq(S) /\ x \in S
          BY <3>1, <3>3
        <4> HIDE DEF S
        <4> QED  BY <4>1, AppendLast
      <3>5. LastScore(Append(h, x)) = s
        BY <3>1, <3>4 DEF LastScore
      <3> QED  BY <1>5, <2>4, <3>2, <3>5
    <2> QED  BY <2>3, <2>4
  <1> HIDE DEF next, result
  <1>10. RankAt(next, Append(list, e), u, us)
    BY <1>3, <1>5, <1>7, <1>8, <1>9 DEF RankAt
  <1> QED  BY <1>10 DEF next

LEMMA RanksEnd ==
    ASSUME NEW us, IsFiniteSet(us), NEW u \in us, NEW list \in Seq(EventRec(us)), FitsAll(list, us)
    PROVE  \E r : RankAt(r, list, u, us) /\ RankHistory(list, u, us) = r.result
  <1>1. PICK n \in Nat : n = Len(list)
    OBVIOUS
  <1>2. PICK f : Ranks(f, list, u, us) /\ RankHistory(list, u, us) = f[n].result
    BY <1>1, RanksAre
  <1>3. \A m \in 0 .. n : FitsAll(Pre(list, m), us)
    BY <1>1, PrefixesFit
  <1> DEFINE U == {m \in Nat : m <= n => RankAt(f[m], Pre(list, m), u, us)}
  <1>4. 0 \in U
    <2>1. f[0] = RankStart(us) /\ Pre(list, 0) = <<>>
      BY <1>2, PreIs DEF Ranks
    <2> QED  BY <2>1, RankAtStart
  <1>5. ASSUME NEW m \in Nat, m \in U  PROVE m + 1 \in U
    <2> SUFFICES ASSUME m + 1 <= n  PROVE RankAt(f[m + 1], Pre(list, m + 1), u, us)
      OBVIOUS
    <2> DEFINE p == Pre(list, m)
               e == list[m + 1]
               r == f[m]
    <2>1. RankAt(r, p, u, us) /\ m + 1 \in 1 .. n /\ (m + 1) - 1 = m /\ m + 1 \in 0 .. n
      BY <1>5
    <2>2. f[m + 1] = RankStep(r, e, u)
      BY <1>1, <1>2, <2>1 DEF Ranks
    <2>3. m + 1 <= Len(list) /\ m \in 0 .. Len(list)
      BY <1>1
    <2>4. Pre(list, m + 1) = Append(p, e) /\ p \in Seq(EventRec(us)) /\ e \in EventRec(us)
      BY <2>3, PreIs
    <2>5. FitsAll(Pre(list, m + 1), us)
      BY <1>3, <2>1
    <2> HIDE DEF p, e, r
    <2>6. e.score # LastScore(Hist(p, e.user))
      BY <2>4, <2>5, FitsDown
    <2>7. RankAt(RankStep(r, e, u), Append(p, e), u, us)
      BY <2>1, <2>4, <2>6, RankAtStep
    <2> QED  BY <2>2, <2>4, <2>7
  <1>6. RankAt(f[n], Pre(list, n), u, us)
    <2>1. Nat \subseteq U
      <3> HIDE DEF U
      <3> QED  BY <1>4, <1>5, SetInduction
    <2> QED  BY <2>1
  <1>7. Pre(list, n) = list
    BY <1>1, PreIs
  <1> QED  BY <1>2, <1>6, <1>7

-----------------------------------------------------------------------------
(* The charts of one user.                                                 *)

(* A list of events and the history it is of.                              *)
Marks(mine, hist) ==
    Len(mine) = Len(hist) /\ \A i \in 1 .. Len(hist) : hist[i] = <<mine[i].time, mine[i].score>>

LEMMA ChartScore ==
    ASSUME NEW S, NEW mine \in Seq(S), NEW hist \in Seq(Nat \X Nat), Marks(mine, hist)
    PROVE  LastScore(hist) = IF mine = <<>> THEN 0 ELSE Last(mine).score
  <1>1. PICK n \in Nat : n = Len(hist) /\ n = Len(mine)
    BY DEF Marks
  <1>2. (mine = <<>> <=> n = 0) /\ (hist = <<>> <=> n = 0)
    <2>1. mine = <<>> <=> Len(mine) = 0
      OBVIOUS
    <2>2. hist = <<>> <=> Len(hist) = 0
      OBVIOUS
    <2> QED  BY <1>1, <2>1, <2>2
  <1>3. CASE n = 0
    BY <1>2, <1>3 DEF LastScore
  <1>4. CASE n # 0
    <2>1. n \in 1 .. Len(hist)
      BY <1>1, <1>4
    <2>2. hist[n] = <<mine[n].time, mine[n].score>>
      BY <2>1 DEF Marks
    <2>3. hist[n][2] = mine[n].score
      BY <2>2
    <2> QED  BY <1>1, <1>2, <1>4, <2>3 DEF LastScore, Last
  <1> QED  BY <1>3, <1>4

LEMMA ChartTime ==
    ASSUME NEW S, NEW mine \in Seq(S), NEW hist, HistoryFits(hist), Marks(mine, hist),
           NEW m \in Nat, NEW s \in Nat, Best(hist, m, s),
           NEW best, best = {i \in DOMAIN mine : \A j \in DOMAIN mine : mine[j].score <= mine[i].score},
           best # {}
    PROVE  s = mine[Min(best)].time
  <1>1. PICK n \in Nat : n = Len(hist) /\ n = Len(mine) /\ DOMAIN mine = 1 .. n
    BY DEF Marks, HistoryFits
  <1>2. \A i \in 1 .. n : hist[i] \in Nat \X Nat /\ hist[i] = <<mine[i].time, mine[i].score>>
    BY <1>1 DEF Marks, HistoryFits
  <1>3. \A i \in 1 .. n : hist[i][2] = mine[i].score /\ hist[i][1] = mine[i].time /\ mine[i].score \in Nat
    BY <1>2
  <1>4. best \subseteq 1 .. n /\ n # 0 /\ 1 \in 1 .. n
    BY <1>1
  <1>5. \A i \in 1 .. n : mine[i].score <= m
    BY <1>1, <1>3 DEF Best
  <1>6. m # 0
    <2>1. hist[1][2] # 0
      BY <1>1, <1>4 DEF HistoryFits
    <2> QED  BY <1>3, <1>4, <1>5, <2>1
  <1>7. PICK i \in 1 .. n : hist[i] = <<s, m>> /\ \A j \in 1 .. (i - 1) : hist[j][2] < m
    BY <1>1, <1>6 DEF Best
  <1>8. mine[i].score = m /\ mine[i].time = s
    <2>1. hist[i][1] = s /\ hist[i][2] = m
      BY <1>7
    <2> QED  BY <1>3, <2>1
  <1>9. i \in best
    BY <1>1, <1>5, <1>8
  <1>10. \A k \in best : i <= k
    <2> SUFFICES ASSUME NEW k \in best, k < i  PROVE FALSE
      BY <1>4
    <2>1. k \in 1 .. (i - 1) /\ k \in 1 .. n
      BY <1>4
    <2>2. mine[k].score < m
      BY <1>3, <1>7, <2>1
    <2>3. mine[i].score <= mine[k].score
      BY <1>1
    <2> QED  BY <1>3, <1>8, <2>1, <2>2, <2>3
  <1>11. Min(best) \in best /\ \A y \in best : Min(best) <= y
    <2>1. best \subseteq Nat
      BY <1>4
    <2> QED  BY <2>1, LeastIs
  <1>12. Min(best) = i
    <2> DEFINE low == Min(best)
    <2>1. low \in best /\ \A y \in best : low <= y
      BY <1>11
    <2> HIDE DEF low
    <2>2. low <= i /\ i <= low
      BY <1>9, <1>10, <2>1
    <2>3. low \in Nat /\ i \in Nat
      BY <1>4, <2>1
    <2>4. low = i
      BY <2>2, <2>3
    <2> QED  BY <2>4 DEF low
  <1> QED  BY <1>8, <1>12

LEMMA ChartRank ==
    ASSUME NEW us, IsFiniteSet(us), NEW u \in us, NEW r, NEW list, RankAt(r, list, u, us),
           \A v \in us : GetScore(scores[v]) = LastScore(Hist(list, v)),
           NEW ranks, ranks = r.result
    PROVE  RankByScore(u, us) = IF ranks = <<>> THEN <<1, Cardinality(us) - 1>>
                                ELSE <<Last(ranks)[2], Last(ranks)[3]>>
  <1>1. r.d \in [us -> Nat] /\ DOMAIN r.d = us /\ \A v \in us : r.d[v] = GetScore(scores[v])
    BY DEF RankAt
  <1> DEFINE A == {v \in us : GetScore(scores[v]) > GetScore(scores[u])}
             E == {v \in us : GetScore(scores[v]) = GetScore(scores[u])}
  <1>2. {v \in DOMAIN r.d : r.d[v] > r.d[u]} = A /\ {v \in DOMAIN r.d : r.d[v] = r.d[u]} = E
    BY <1>1
  <1>3. r.above = Cardinality(A) /\ r.equal = Cardinality(E)
    BY <1>2 DEF RankAt, Higher, Equal
  <1>4. RankByScore(u, us) = <<1 + Cardinality(A), Cardinality(E) - 1>>
    BY DEF RankByScore
  <1>5. Cardinality(A) \in Nat /\ Cardinality(E) \in Nat
    <2>1. IsFiniteSet(A) /\ IsFiniteSet(E)
      BY FS_Subset
    <2> QED  BY <2>1, FS_CardinalityType
  <1> HIDE DEF A, E
  <1>6. Ranked(ranks, Cardinality(A), Cardinality(E), us)
    BY <1>3 DEF RankAt
  <1>7. CASE ranks = <<>>
    <2>1. Cardinality(A) = 0 /\ Cardinality(E) = Cardinality(us)
      BY <1>6, <1>7 DEF Ranked
    <2>2. 1 + Cardinality(A) = 1
      BY <2>1
    <2> QED  BY <1>4, <1>7, <2>1, <2>2
  <1>8. CASE ranks # <<>>
    <2>1. Last(ranks)[2] = Cardinality(A) + 1 /\ Last(ranks)[3] = Cardinality(E) - 1
      BY <1>6, <1>8 DEF Ranked, Last
    <2>2. 1 + Cardinality(A) = Cardinality(A) + 1
      BY <1>5
    <2> QED  BY <1>4, <1>8, <2>1, <2>2
  <1> QED  BY <1>7, <1>8

(* What ChartsEndAtScores says of a list and a user.                       *)
ChartEnds(h, list, u, us) ==
    LET mine == ScoreHistory(list, u)
        ranks == RankHistory(list, u, us)
        best == {i \in DOMAIN mine : \A j \in DOMAIN mine : mine[j].score <= mine[i].score}
    IN  /\ GetScore(scores[u]) = IF mine = <<>> THEN 0 ELSE Last(mine).score
        /\ RankByScore(u, us) = IF ranks = <<>> THEN <<1, Cardinality(us) - 1>>
                                ELSE <<Last(ranks)[2], Last(ranks)[3]>>
        /\ best # {} => SolveTimeOf(h, u, {"task"}) = mine[Min(best)].time

LEMMA ChartsEnd ==
    ASSUME ScoresWell
    PROVE  ChartsEndAtScores
  <1> DEFINE us == {u \in RankedUsers : user[u] # "none"}
             data == GetGlobalHistory
             known == KnownOf(data, us)
             h == PerformUpdate(data, us, TheTasks, TheBegin)
             list == Events(known)
  <1>1. us \subseteq RankedUsers /\ IsFiniteSet(us)
    BY RankingAssumption, FS_Subset
  <1>2. data \in Seq(MergedRec) /\ \A v \in RankedUsers : Hist(data, v) = scores[v].history
    BY HistoryMerged
  <1> HIDE DEF us, data
  <1>4. known \in Seq(KnownRec(us)) /\ \A v \in us : Hist(known, v) = Hist(data, v)
    BY <1>2, KnownIs
  <1>5. PageAt(h, known, Len(known), us)
    BY <1>2, PageIs
  <1> HIDE DEF known, h
  <1>6. list \in Seq(EventRec(us)) /\ \A v \in us : Hist(list, v) = Hist(known, v)
    BY <1>4, EventsHist
  <1>7. EventsFor(h.history_t, "task") = list /\ EventsFor(h.history_c, "contest") = list
        /\ EventsFor(h.history_g, "") = list
    <2>1. EventsFor(Tags("task", known, Len(known)), "task") = list
      BY <1>4, EventsAre
    <2>2. EventsFor(Tags("contest", known, Len(known)), "contest") = list
      BY <1>4, EventsAre
    <2>3. EventsFor(Tags("", known, Len(known)), "") = list
      BY <1>4, EventsAre
    <2> QED  BY <1>5, <2>1, <2>2, <2>3 DEF PageAt
  <1> HIDE DEF list
  <1>8. \A v \in us : Hist(list, v) = scores[v].history /\ HistoryFits(scores[v].history)
    <2>1. \A v \in us : Hist(list, v) = scores[v].history
      BY <1>1, <1>2, <1>4, <1>6
    <2>2. \A v \in us : HistoryFits(scores[v].history)
      BY <1>1 DEF ScoresWell, WellFormed, ScoreIs
    <2> QED  BY <2>1, <2>2
  <1>9. FitsAll(list, us)
    BY <1>8 DEF FitsAll
  <1>10. \A v \in us : GetScore(scores[v]) = LastScore(Hist(list, v))
    BY <1>8 DEF GetScore, LastScore
  <1>11. ASSUME NEW u \in us  PROVE ChartEnds(h, list, u, us)
    <2> DEFINE mine == ScoreHistory(list, u)
               hist == scores[u].history
               ranks == RankHistory(list, u, us)
               best == {i \in DOMAIN mine : \A j \in DOMAIN mine : mine[j].score <= mine[i].score}
               m == h.max_score[u]["task"]
               s == h.solve_time_t[u]["task"]
    <2>1. mine \in Seq(EventRec(us)) /\ Hist(list, u) = hist /\ HistoryFits(hist) /\ hist \in Seq(Nat \X Nat)
      BY <1>6, <1>8, EventMarked, HistIs DEF HistoryFits
    <2>2. Marks(mine, hist)
      <3>1. /\ Len(Hist(list, u)) = Len(ScoreHistory(list, u))
            /\ \A i \in 1 .. Len(Hist(list, u)) : Hist(list, u)[i] = Mark(ScoreHistory(list, u)[i])
        BY <1>6, EventMarked, HistIs
      <3> QED  BY <2>1, <3>1 DEF Marks, Mark
    <2>3. PICK r : RankAt(r, list, u, us) /\ ranks = r.result
      BY <1>1, <1>6, <1>9, RanksEnd
    <2>4. m \in Nat /\ s \in Nat /\ Best(hist, m, s)
      <3>1. m \in Nat /\ s \in Nat
        BY <1>5 DEF PageAt, Table
      <3>2. Pre(known, Len(known)) = known
        BY <1>4, PreIs
      <3>3. Hist(known, u) = hist
        BY <1>6, <2>1
      <3> QED  BY <1>5, <3>1, <3>2, <3>3 DEF PageAt
    <2>5. SolveTimeOf(h, u, {"task"}) = s
      <3> DEFINE x == "task"
                 row == h.solve_time_t[u]
      <3>1. row[x] \in Nat /\ row[x] = s
        BY <2>4
      <3> HIDE DEF x, row
      <3>2. ScoreIn(row, {x}) = row[x]
        BY <3>1, ScoreInOne
      <3> QED  BY <3>1, <3>2 DEF SolveTimeOf, x, row
    <2> HIDE DEF mine, hist, ranks, m, s
    <2>6. GetScore(scores[u]) = IF mine = <<>> THEN 0 ELSE Last(mine).score
      <3>1. LastScore(hist) = IF mine = <<>> THEN 0 ELSE Last(mine).score
        BY <2>1, <2>2, ChartScore
      <3> QED  BY <1>10, <2>1, <3>1
    <2>7. RankByScore(u, us) = IF ranks = <<>> THEN <<1, Cardinality(us) - 1>>
                               ELSE <<Last(ranks)[2], Last(ranks)[3]>>
      BY <1>1, <1>10, <2>3, ChartRank
    <2>8. ASSUME best # {}  PROVE s = mine[Min(best)].time
      <3> DEFINE b == best
      <3>1. b = {i \in DOMAIN mine : \A j \in DOMAIN mine : mine[j].score <= mine[i].score} /\ b # {}
        BY <2>8
      <3> HIDE DEF b
      <3>2. s = mine[Min(b)].time
        BY <2>1, <2>2, <2>4, <3>1, ChartTime
      <3> QED  BY <3>2 DEF b
    <2>9. best # {} => SolveTimeOf(h, u, {"task"}) = mine[Min(best)].time
      BY <2>5, <2>8
    <2> QED  BY <2>6, <2>7, <2>9 DEF ChartEnds, mine, ranks
  <1>12. ChartsEndAtScores <=>
           \A l \in {EventsFor(h.history_t, "task"), EventsFor(h.history_c, "contest"),
                     EventsFor(h.history_g, "")}, u \in us : ChartEnds(h, l, u, us)
    BY Zenon DEF ChartsEndAtScores, ChartEnds, h, us, data, TheTasks, TheBegin
  <1> QED  BY <1>7, <1>11, <1>12

(* What RankingWebServer keeps and shows is sound: the histories are those *)
(* a restart would compute from the files (cmsranking/Scoring.py), no      *)
(* entity refers to one that is not there (Store.py), and the charts that  *)
(* the page adds up from /history end at the scores and ranks there are    *)
(* (HistoryStore.js), for any number of users, submissions and subchanges  *)
(* put, changed and deleted in any order, with restarts and kills between. *)
THEOREM StoresStaySound == StoresSpec => []StoresSound
  <1> DEFINE Inv == StoresInv /\ ScoresWell
  <1>1. StoresInit => Inv
    BY StoresStart, WellStart
  <1>2. Inv /\ [StoresNext]_storesVars => Inv'
    BY StoresStep, WellStep
  <1>3. Inv => StoresSound
    BY HistoriesRebuilt, ChartsEnd DEF StoresSound, StoresInv
  <1> QED  BY <1>1, <1>2, <1>3, PTL DEF StoresSpec

=============================================================================
