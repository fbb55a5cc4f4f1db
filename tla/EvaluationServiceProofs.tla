---------------------- MODULE EvaluationServiceProofs ----------------------
(***************************************************************************)
(* Proofs about EvaluationService, for every set of workers, objects and   *)
(* testcases, whatever happens how often.                                  *)
(***************************************************************************)
EXTENDS EvaluationService, WorkerPoolProofs, WellFoundedInduction,
        FiniteSetTheorems, SequenceTheorems

-----------------------------------------------------------------------------
(* Where an operation can be. The lists of the pool are in the reverse     *)
(* lookup; the converse is lost when a list that the pool shares with the  *)
(* executor is shortened, and is not needed here.                          *)
ListsInReverse ==
    \A o \in Operations, w \in Workers : o \in pool[w].ops => reverse[o] = w

PlaceTypeOK ==
    /\ queue \subseteq Operations /\ executing \subseteq Operations
    /\ waiting \subseteq Operations
    /\ executor \in {"idle", "waiting", "building"}
    /\ target \in Workers \cup {NoWorker} /\ alias \in Workers \cup {NoWorker}
    /\ executor = "building" => target \in Workers
    /\ executor # "idle" => alias = NoWorker

NotQueuedTwice ==
    \A o \in Operations : o \in queue => o \notin executing /\ ~InPool(o)

(* An extracted operation that is in the pool is so by the batch that is   *)
(* being sent, or that could not be sent.                                  *)
ExtractedInPool ==
    \A o \in executing : InPool(o) =>
       IF executor = "building"
       THEN reverse[o] = target /\ o \in pool[target].ops
       ELSE alias = reverse[o]

PlacesInv ==
    /\ PoolTypeOK
    /\ IdleHoldsNothing
    /\ ListsInReverse
    /\ PlaceTypeOK
    /\ NotQueuedTwice
    /\ ExtractedInPool

-----------------------------------------------------------------------------
(* What the database asks for are operations.                              *)
LEMMA OperationsAsked ==
    ASSUME NEW data, NEW x \in Objects
    PROVE  /\ GetOperations(data, x) \subseteq Operations
           /\ SweptOperations(data, x) \subseteq Operations
  <1>1. Unevaluated(data, x) \subseteq OperationsOf(x)
    BY DEF Unevaluated, OperationsOf
  <1>2. \A m, n : WithTries(data, x, m, n) \subseteq OperationsOf(x)
    BY <1>1 DEF WithTries, ToCompile, OperationsOf, Compilations
  <1>3. OperationsOf(x) \subseteq Operations
    BY ServiceAssumption DEF ESOperation
  <1> QED BY <1>1, <1>2, <1>3 DEF GetOperations, SweptOperations

(* What every action of the pool does but for acquire_worker and           *)
(* ignore_operation: it empties some of the lists and forgets what they    *)
(* held.                                                                   *)
OnlyReleases ==
    /\ PoolTypeOK'
    /\ IdleHoldsNothing'
    /\ \A w \in Workers : pool'[w].ops \in {pool[w].ops, {}}
    /\ \A o \in Operations : reverse'[o] \in {reverse[o], NoWorker}
    /\ \A o \in Operations, w \in Workers :
          o \in pool[w].ops => (o \in pool'[w].ops <=> reverse'[o] # NoWorker)

(* Emptying lists and forgetting them is such a step.                      *)
LEMMA ReleasedOnly ==
    ASSUME PoolTypeOK, IdleHoldsNothing, ListsInReverse,
           NEW S \in SUBSET Workers,
           pool' \in [Workers -> Slot],
           \A w \in Workers : IF w \in S THEN pool'[w].ops = {}
                                         ELSE pool'[w] = pool[w],
           reverse' = Forget(S),
           event' \in BOOLEAN, connected' \in [Workers -> BOOLEAN],
           greeting' \subseteq Workers
    PROVE  OnlyReleases
  <1>1. PoolTypeOK'
    BY DEF PoolTypeOK, Forget
  <1>2. IdleHoldsNothing'
    BY DEF IdleHoldsNothing, Busy
  <1>3. \A o \in Operations : reverse'[o] \in {reverse[o], NoWorker}
    BY DEF Forget
  <1>4. ASSUME NEW o \in Operations, NEW w \in Workers, o \in pool[w].ops
        PROVE  o \in pool'[w].ops <=> reverse'[o] # NoWorker
    <2>1. reverse[o] = w /\ w # NoWorker
      BY <1>4, NoWorkerAssumption DEF ListsInReverse
    <2>2. \A v \in S : o \in pool[v].ops => v = w
      BY <2>1 DEF ListsInReverse
    <2>3. CASE w \in S
      BY <1>4, <2>3 DEF Forget
    <2>4. CASE w \notin S
      BY <1>4, <2>1, <2>2, <2>4 DEF Forget
    <2> QED BY <2>3, <2>4
  <1> QED BY <1>1, <1>2, <1>3, <1>4 DEF OnlyReleases

(* The actions of the pool that release workers, and those that touch      *)
(* neither lists nor lookup.                                               *)
LEMMA PoolActionsRelease ==
    ASSUME PoolTypeOK, IdleHoldsNothing, ListsInReverse,
           \/ \E w \in Workers : ReleaseBusy(w)
           \/ CheckTimeouts
           \/ CheckConnections
           \/ \E w \in Workers : DisableWorker(w)
           \/ AcquireNone
           \/ \E w \in Workers : EnableWorker(w)
           \/ \E w \in Workers : Connect(w)
           \/ \E w \in Workers : Disconnect(w)
           \/ \E w \in Workers : OnWorkerConnected(w)
           \/ \E w \in Workers : Expire(w)
           \/ Restart
           \/ UNCHANGED poolVars
    PROVE  OnlyReleases
  <1> USE DEF PoolTypeOK, Slot, Status, Clock
  <1>1. ASSUME NEW w \in Workers, ReleaseBusy(w)  PROVE OnlyReleases
    <2>1. /\ pool' \in [Workers -> Slot]
          /\ \A v \in Workers : IF v \in {w} THEN pool'[v].ops = {}
                                             ELSE pool'[v] = pool[v]
      BY <1>1, ReleasedSlot DEF ReleaseBusy
    <2>2. /\ reverse' = Forget({w}) /\ event' \in BOOLEAN
          /\ connected' \in [Workers -> BOOLEAN] /\ greeting' \subseteq Workers
      BY <1>1 DEF ReleaseBusy
    <2> QED BY <2>1, <2>2, ReleasedOnly, ZenonT(60)
  <1>2. ASSUME CheckTimeouts  PROVE OnlyReleases
    <2> DEFINE Marked(w) == [pool[w] EXCEPT !.scheduleDisabling = TRUE,
                                            !.ignore = TRUE]
    <2>1. \A w \in Workers : Marked(w) \in Slot
      OBVIOUS
    <2>2. /\ pool' = [w \in Workers |-> IF w \in TimedOut THEN Released(Marked(w))
                                                          ELSE pool[w]]
          /\ reverse' = Forget(TimedOut) /\ TimedOut \in SUBSET Workers
      BY <1>2 DEF CheckTimeouts, TimedOut
    <2>3. event' \in BOOLEAN /\ connected' \in [Workers -> BOOLEAN]
          /\ greeting' \subseteq Workers
      BY <1>2 DEF CheckTimeouts
    <2> HIDE DEF Marked
    <2>4. /\ pool' \in [Workers -> Slot]
          /\ \A v \in Workers : IF v \in TimedOut THEN pool'[v].ops = {}
                                                  ELSE pool'[v] = pool[v]
      BY <2>1, <2>2, ReleasedSlot
    <2> QED BY <2>2, <2>3, <2>4, ReleasedOnly
  <1>3. ASSUME CheckConnections  PROVE OnlyReleases
    <2>1. /\ pool' \in [Workers -> Slot]
          /\ \A v \in Workers : IF v \in Unreachable THEN pool'[v].ops = {}
                                                     ELSE pool'[v] = pool[v]
      BY <1>3, ReleasedSlot DEF CheckConnections
    <2>2. /\ reverse' = Forget(Unreachable) /\ Unreachable \in SUBSET Workers
          /\ event' \in BOOLEAN
          /\ connected' \in [Workers -> BOOLEAN] /\ greeting' \subseteq Workers
      BY <1>3 DEF CheckConnections, Unreachable
    <2> QED BY <2>1, <2>2, ReleasedOnly
  <1>4. ASSUME NEW w \in Workers, DisableWorker(w)  PROVE OnlyReleases
    <2> DEFINE Marked == [pool[w] EXCEPT !.scheduleDisabling = TRUE,
                                         !.toIgnore = {}, !.ignore = TRUE]
               Disabled == IF pool[w].status = "inactive"
                           THEN [pool[w] EXCEPT !.status = "disabled"]
                           ELSE Released(Marked)
    <2>1. Disabled \in Slot /\ Disabled.ops = {}
      <3>1. CASE pool[w].status = "inactive"
        BY <3>1 DEF IdleHoldsNothing, Busy
      <3>2. CASE pool[w].status # "inactive"
        <4>1. Marked \in Slot
          OBVIOUS
        <4> QED BY <3>2, <4>1, ReleasedSlot
      <3> QED BY <3>1, <3>2
    <2>2. pool' = [pool EXCEPT ![w] = Disabled]
      BY <1>4 DEF DisableWorker
    <2> HIDE DEF Disabled
    <2>3. /\ pool' \in [Workers -> Slot]
          /\ \A v \in Workers : IF v \in {w} THEN pool'[v].ops = {}
                                             ELSE pool'[v] = pool[v]
      BY <2>1, <2>2
    <2>4. /\ reverse' = Forget({w}) /\ event' \in BOOLEAN
          /\ connected' \in [Workers -> BOOLEAN] /\ greeting' \subseteq Workers
      BY <1>4 DEF DisableWorker
    <2> QED BY <2>3, <2>4, ReleasedOnly, ZenonT(60)
  <1>5. ASSUME NEW w \in Workers, EnableWorker(w)  PROVE OnlyReleases
    <2> DEFINE new == [pool[w] EXCEPT !.status = "inactive", !.toIgnore = {}]
    <2>1. new \in Slot /\ new.ops = pool[w].ops /\ new.ops = {}
      BY <1>5 DEF EnableWorker, IdleHoldsNothing, Busy
    <2>2. /\ pool' = [pool EXCEPT ![w] = new] /\ event' = TRUE
          /\ UNCHANGED <<reverse, connected, greeting>>
      BY <1>5 DEF EnableWorker
    <2> HIDE DEF new
    <2> QED BY <2>1, <2>2, NoWorkerAssumption
            DEF OnlyReleases, IdleHoldsNothing, Busy, ListsInReverse
  <1>6. ASSUME NEW w \in Workers, Expire(w)  PROVE OnlyReleases
    <2>1. /\ pool' \in [Workers -> Slot]
          /\ \A v \in Workers : pool'[v].ops = pool[v].ops /\ pool'[v].status = pool[v].status
      BY <1>6 DEF Expire
    <2> QED BY <1>6, <2>1, NoWorkerAssumption
            DEF Expire, OnlyReleases, IdleHoldsNothing, Busy, ListsInReverse
  <1>7. ASSUME Restart  PROVE OnlyReleases
    <2>1. EmptySlot \in Slot /\ EmptySlot.ops = {}
      BY DEF EmptySlot
    <2> QED BY <1>7, <2>1 DEF Restart, OnlyReleases, IdleHoldsNothing
  <1>8. ASSUME \/ AcquireNone
               \/ \E w \in Workers : Connect(w)
               \/ \E w \in Workers : Disconnect(w)
               \/ \E w \in Workers : OnWorkerConnected(w)
               \/ UNCHANGED poolVars
        PROVE  OnlyReleases
    <2>1. UNCHANGED <<pool, reverse>>
      BY <1>8 DEF AcquireNone, Connect, Disconnect, OnWorkerConnected, poolVars
    <2>2. event' \in BOOLEAN /\ connected' \in [Workers -> BOOLEAN]
          /\ greeting' \subseteq Workers
      BY <1>8 DEF AcquireNone, Connect, Disconnect, OnWorkerConnected, poolVars
    <2> QED BY <2>1, <2>2, NoWorkerAssumption
            DEF OnlyReleases, IdleHoldsNothing, Busy, ListsInReverse
  <1> QED BY <1>1, <1>2, <1>3, <1>4, <1>5, <1>6, <1>7, <1>8

(* Such a step of the pool disturbs no place but the pool.                 *)
LEMMA ReleasesKeepPlaces ==
    ASSUME PlacesInv, OnlyReleases, waiting' \subseteq Operations,
           UNCHANGED <<queue, executing, executor, target, alias>>
    PROVE  PlacesInv'
  <1> USE DEF PlacesInv, PlaceTypeOK
  <1>1. PoolTypeOK' /\ IdleHoldsNothing' /\ PlaceTypeOK'
    BY DEF OnlyReleases
  <1>2. ListsInReverse'
    <2> SUFFICES ASSUME NEW o \in Operations, NEW w \in Workers, o \in pool'[w].ops
                 PROVE  reverse'[o] = w
      BY DEF ListsInReverse
    <2>1. o \in pool[w].ops /\ reverse[o] = w
      BY DEF OnlyReleases, ListsInReverse
    <2> QED BY <2>1 DEF OnlyReleases
  <1>3. NotQueuedTwice'
    BY DEF NotQueuedTwice, InPool, OnlyReleases
  <1>4. ExtractedInPool'
    <2> SUFFICES ASSUME NEW o \in executing, reverse'[o] # NoWorker
                 PROVE  IF executor = "building"
                        THEN reverse'[o] = target /\ o \in pool'[target].ops
                        ELSE alias = reverse'[o]
      BY DEF ExtractedInPool, InPool
    <2>1. reverse'[o] = reverse[o] /\ InPool(o)
      BY DEF OnlyReleases, InPool
    <2> QED BY <2>1 DEF ExtractedInPool, OnlyReleases
  <1> QED BY <1>1, <1>2, <1>3, <1>4

(* Neither does putting what enqueue does not know in the queue.           *)
LEMMA EnqueuingKeepsPlaces ==
    ASSUME PlacesInv, NEW S \in SUBSET Operations, queue' = Enqueued(S),
           waiting' \subseteq Operations,
           UNCHANGED <<poolVars, executing, executor, target, alias>>
    PROVE  PlacesInv'
  <1>1. queue' \subseteq Operations
    BY DEF PlacesInv, PlaceTypeOK, Enqueued
  <1>2. NotQueuedTwice'
    BY DEF PlacesInv, NotQueuedTwice, Enqueued, Known, InPool, poolVars
  <1> QED BY <1>1, <1>2 DEF PlacesInv, PlaceTypeOK, PoolTypeOK, IdleHoldsNothing,
             Busy, ListsInReverse, ExtractedInPool, InPool, poolVars

-----------------------------------------------------------------------------
(* The database. Every way of writing it keeps its types and keeps a       *)
(* result that is marked as evaluated complete; and what it does to the    *)
(* rows of matches is only to add the ones just played.                    *)
DB == [outcome : [ESOperation -> {"none", "ok", "fail"}],
       version : [ESOperation -> Nat],
       evaluated : [Objects -> BOOLEAN],
       compilation_tries : [Objects -> Nat],
       evaluation_tries : [Objects -> Nat]]

Complete(data) == \A x \in Objects : data.evaluated[x] => Unevaluated(data, x) = {}

GoodDB == {data \in DB : Complete(data)}

(* The operations of different objects are different.                      *)
LEMMA OwnOperations ==
    ASSUME NEW x \in Objects, NEW op \in OperationsOf(x)
    PROVE  op \in ESOperation /\ ObjectOf(op) = x
  BY DEF OperationsOf, Compilations, Compilation, Evaluations, ObjectOf, ESOperation

(* Every operation belongs to its object.                                  *)
LEMMA ObjectsOperation ==
    ASSUME NEW op \in ESOperation
    PROVE  /\ ObjectOf(op) \in Objects /\ op \in OperationsOf(ObjectOf(op))
           /\ IsCompilation(op) => op = Compilation(ObjectOf(op))
           /\ ~IsCompilation(op) => op \in Evaluations(ObjectOf(op))
  <1>1. PICK x \in Objects : op \in OperationsOf(x)
    BY DEF ESOperation
  <1>2. ObjectOf(op) = x
    BY <1>1, OwnOperations
  <1>3. IsCompilation(op) => op = Compilation(x)
    BY <1>1 DEF OperationsOf, Compilations, Evaluations, IsCompilation
  <1>4. ~IsCompilation(op) => op \in Evaluations(x)
    BY <1>1 DEF OperationsOf, Compilations, Compilation, IsCompilation
  <1> QED BY <1>1, <1>2, <1>3, <1>4

(* Blanking operations of one object.                                      *)
LEMMA BlankedIsGood ==
    ASSUME NEW data \in GoodDB, NEW x \in Objects, NEW ops \in SUBSET OperationsOf(x)
    PROVE  /\ Blanked(data, x, ops) \in GoodDB
           /\ Blanked(data, x, ops).outcome =
                 [op \in ESOperation |-> IF op \in ops THEN "none" ELSE data.outcome[op]]
           /\ Blanked(data, x, ops).evaluated = [data.evaluated EXCEPT ![x] = FALSE]
  <1> DEFINE new == Blanked(data, x, ops)
  <1>1. /\ new \in DB
        /\ new.outcome = [op \in ESOperation |-> IF op \in ops THEN "none" ELSE data.outcome[op]]
        /\ new.evaluated = [data.evaluated EXCEPT ![x] = FALSE]
    BY DEF Blanked, DB, GoodDB
  <1> HIDE DEF new
  <1>2. ASSUME NEW y \in Objects, new.evaluated[y]
        PROVE  Unevaluated(new, y) = {}
    <2>1. y # x /\ data.evaluated[y]
      BY <1>1, <1>2 DEF DB, GoodDB
    <2>2. \A op \in Evaluations(y) : op \in ESOperation /\ op \notin ops
      BY <2>1, OwnOperations DEF OperationsOf
    <2> QED BY <1>1, <2>1, <2>2 DEF GoodDB, Complete, Unevaluated
  <1> QED BY <1>1, <1>2 DEF GoodDB, Complete, new

(* Marking as evaluated what has all its rows.                             *)
LEMMA OutcomeIsGood ==
    ASSUME NEW data \in GoodDB, NEW X
    PROVE  /\ SetEvaluationOutcome(data, X) \in GoodDB
           /\ SetEvaluationOutcome(data, X).outcome = data.outcome
           /\ SetEvaluationOutcome(data, X).evaluated =
                 [x \in Objects |-> data.evaluated[x] \/ (x \in X /\ AllEvaluated(data, x))]
  <1> DEFINE new == SetEvaluationOutcome(data, X)
  <1>1. /\ new \in DB /\ new.outcome = data.outcome
        /\ new.evaluated =
              [x \in Objects |-> data.evaluated[x] \/ (x \in X /\ AllEvaluated(data, x))]
    <2>1. \A x \in Objects : AllEvaluated(data, x) \in BOOLEAN
      BY DEF AllEvaluated
    <2> QED BY <2>1 DEF SetEvaluationOutcome, DB, GoodDB
  <1> HIDE DEF new
  <1>2. Complete(new)
    BY <1>1 DEF GoodDB, Complete, Unevaluated, AllEvaluated
  <1> QED BY <1>1, <1>2 DEF GoodDB, new

(* What happens to the rows of matches while results of the operations in  *)
(* ops are written: none is taken away or marked.                          *)
OnlyAdds(data, new, ops) ==
    \A m \in Matches :
       /\ new.evaluated[m] = data.evaluated[m]
       /\ \A op \in Evaluations(m) :
             /\ data.outcome[op] # "none" => new.outcome[op] # "none"
             /\ op \notin ops => new.outcome[op] = data.outcome[op]

(* A match has nothing to compile.                                         *)
LEMMA MatchesAreNotCompiled ==
    ASSUME NEW op \in ESOperation, IsCompilation(op)
    PROVE  ObjectOf(op) \notin Matches
  BY ObjectsOperation DEF OperationsOf, Compilations, Evaluations, IsCompilation

RowOutcomes == {"ok", "fail"}

Stored(data, op, result, v) ==
    [data EXCEPT !.outcome[op] = result, !.version[op] = v]

(* Storing an outcome changes the one row.                                 *)
LEMMA RowStored ==
    ASSUME NEW data \in DB, NEW op \in ESOperation, NEW v \in Nat,
           NEW result \in RowOutcomes
    PROVE  /\ Stored(data, op, result, v) \in DB
           /\ Stored(data, op, result, v).evaluated = data.evaluated
           /\ \A o \in ESOperation : Stored(data, op, result, v).outcome[o] =
                 IF o = op THEN result ELSE data.outcome[o]
  <1> DEFINE new == Stored(data, op, result, v)
             outcome == [o \in ESOperation |-> IF o = op THEN result ELSE data.outcome[o]]
             version == [data.version EXCEPT ![op] = v]
  <1>1. outcome \in [ESOperation -> {"none", "ok", "fail"}] /\ version \in [ESOperation -> Nat]
    BY DEF DB, RowOutcomes
  <1>2. new = [data EXCEPT !.outcome = outcome, !.version = version]
    BY DEF DB, Stored
  <1> HIDE DEF outcome, version, new
  <1>3. new \in DB /\ new.evaluated = data.evaluated /\ new.outcome = outcome
    BY <1>1, <1>2 DEF DB
  <1> QED BY <1>3 DEF outcome, new

(* Writing the result of one operation.                                    *)
LEMMA WriteRowIsGood ==
    ASSUME NEW data \in GoodDB, NEW op \in ESOperation, NEW v \in Nat,
           NEW result \in Outcomes(op)
    PROVE  /\ WriteRow(data, op, result, v) \in GoodDB
           /\ OnlyAdds(data, WriteRow(data, op, result, v), {op})
  <1> DEFINE x == ObjectOf(op)
             new == WriteRow(data, op, result, v)
  <1>0. \A y \in Objects : Evaluations(y) \subseteq ESOperation
    BY OwnOperations DEF OperationsOf
  <1>1. /\ x \in Objects /\ op \in OperationsOf(x)
        /\ IsCompilation(op) => x \notin Matches
        /\ ~IsCompilation(op) => op \in Evaluations(x)
    BY ObjectsOperation, MatchesAreNotCompiled
  <1>2. \A m \in Matches : m \in Objects /\ \A o \in Evaluations(m) :
           /\ o \in ESOperation
           /\ m # x => o # op /\ o \notin OperationsOf(x)
    BY <1>1, OwnOperations DEF Objects, OperationsOf
  <1>3. /\ result \in {"ok", "fail", "error", "tombstone"}
        /\ ~IsCompilation(op) /\ x \in UserTests => result \in {"ok", "error"}
    BY DEF Outcomes
  <1>4. CASE result = "error"
    <2>1. new = IF IsCompilation(op) THEN [data EXCEPT !.compilation_tries[x] = @ + 1]
                                     ELSE [data EXCEPT !.evaluation_tries[x] = @ + 1]
      BY <1>4 DEF WriteRow
    <2>2. new \in DB /\ new.outcome = data.outcome /\ new.evaluated = data.evaluated
      BY <1>1, <2>1, SMTT(30) DEF DB, GoodDB
    <2> HIDE DEF new
    <2>3. Complete(new) /\ OnlyAdds(data, new, {op})
      BY <2>2 DEF GoodDB, Complete, Unevaluated, OnlyAdds
    <2> QED BY <2>2, <2>3 DEF GoodDB, new
  <1>5. CASE result = "tombstone"
    <2>1. new = IF x \in Submissions /\ CompilationSucceeded(data, x)
                THEN Blanked(data, x, OperationsOf(x)) ELSE data
      BY <1>5 DEF WriteRow, InvalidateCompilation
    <2>2. CASE x \in Submissions /\ CompilationSucceeded(data, x)
      <3>1. x \notin Matches
        BY <2>2, ObjectsAssumption
      <3>2. /\ new \in GoodDB
            /\ new.outcome = [o \in ESOperation |-> IF o \in OperationsOf(x) THEN "none"
                                                    ELSE data.outcome[o]]
            /\ new.evaluated = [data.evaluated EXCEPT ![x] = FALSE]
        BY <1>1, <2>1, <2>2, BlankedIsGood
      <3> HIDE DEF new
      <3>3. OnlyAdds(data, new, {op})
        BY <1>1, <1>2, <3>1, <3>2 DEF OnlyAdds, GoodDB, DB
      <3> QED BY <3>2, <3>3 DEF new
    <2>3. CASE ~(x \in Submissions /\ CompilationSucceeded(data, x))
      BY <2>1, <2>3 DEF OnlyAdds
    <2> QED BY <2>2, <2>3
  <1>6. CASE result \in {"ok", "fail"} /\ IsCompilation(op)
    <2> DEFINE blank == Blanked(data, x, OperationsOf(x))
    <2>1. new = Stored(blank, op, result, v)
      BY <1>6 DEF WriteRow, InvalidateCompilation, Stored
    <2>2. /\ blank \in GoodDB
          /\ blank.outcome = [o \in ESOperation |-> IF o \in OperationsOf(x) THEN "none"
                                                    ELSE data.outcome[o]]
          /\ blank.evaluated = [data.evaluated EXCEPT ![x] = FALSE]
      BY <1>1, BlankedIsGood
    <2> HIDE DEF blank
    <2>3. /\ new \in DB /\ new.evaluated = blank.evaluated
          /\ \A o \in ESOperation : new.outcome[o] = IF o = op THEN result ELSE blank.outcome[o]
      <3>1. result \in RowOutcomes /\ blank \in DB
        BY <1>6, <2>2 DEF GoodDB, RowOutcomes
      <3> DEFINE row == Stored(blank, op, result, v)
      <3> HIDE DEF new
      <3>2. /\ row \in DB /\ row.evaluated = blank.evaluated
            /\ \A o \in ESOperation : row.outcome[o] = IF o = op THEN result ELSE blank.outcome[o]
        BY <3>1, RowStored
      <3> QED BY <2>1, <3>2
    <2> HIDE DEF new
    <2>4. Complete(new)
      BY <1>0, <1>6, <2>2, <2>3 DEF GoodDB, DB, Complete, Unevaluated
    <2>5. OnlyAdds(data, new, {op})
      BY <1>1, <1>2, <1>6, <2>2, <2>3 DEF OnlyAdds, GoodDB, DB
    <2> QED BY <2>3, <2>4, <2>5 DEF GoodDB, new
  <1>7. CASE result = "ok" /\ ~IsCompilation(op) /\ x \in UserTests
    <2> DEFINE blank == Blanked(data, x, Evaluations(x))
    <2>1. new = [blank EXCEPT !.outcome[op] = "ok", !.version[op] = v, !.evaluated[x] = TRUE]
      BY <1>7 DEF WriteRow, InvalidateEvaluation
    <2>2. /\ blank \in GoodDB
          /\ blank.outcome = [o \in ESOperation |-> IF o \in Evaluations(x) THEN "none"
                                                    ELSE data.outcome[o]]
          /\ blank.evaluated = [data.evaluated EXCEPT ![x] = FALSE]
      BY <1>1, BlankedIsGood DEF OperationsOf
    <2> HIDE DEF blank
    <2>3. /\ new \in DB /\ new.evaluated = [blank.evaluated EXCEPT ![x] = TRUE]
          /\ \A o \in ESOperation : new.outcome[o] = IF o = op THEN "ok" ELSE blank.outcome[o]
      <3> DEFINE row == Stored(blank, op, "ok", v)
      <3>1. /\ row \in DB /\ row.evaluated = blank.evaluated
            /\ \A o \in ESOperation : row.outcome[o] = IF o = op THEN "ok" ELSE blank.outcome[o]
        <4>1. blank \in DB /\ "ok" \in RowOutcomes
          BY <2>2 DEF GoodDB, RowOutcomes
        <4> HIDE DEF new
        <4> QED BY <4>1, RowStored
      <3>2. new = [row EXCEPT !.evaluated[x] = TRUE]
        BY <2>1 DEF Stored
      <3> HIDE DEF row, new
      <3> QED BY <1>1, <3>1, <3>2 DEF DB
    <2>4. Evaluations(x) = {op} /\ x \notin Matches
      BY <1>1, <1>7, ObjectsAssumption DEF Evaluations
    <2> HIDE DEF new
    <2>5. Complete(new)
      <3> SUFFICES ASSUME NEW y \in Objects, new.evaluated[y], NEW o \in Evaluations(y)
                   PROVE  new.outcome[o] # "none"
        BY DEF Complete, Unevaluated
      <3>1. o \in ESOperation /\ ObjectOf(o) = y
        BY OwnOperations DEF OperationsOf
      <3>2. CASE y = x
        BY <2>2, <2>3, <2>4, <3>1, <3>2 DEF GoodDB, DB
      <3>3. CASE y # x
        <4>1. blank.evaluated[y] /\ o # op
          BY <2>2, <2>3, <3>1, <3>3 DEF GoodDB, DB
        <4> QED BY <2>2, <2>3, <3>1, <4>1 DEF GoodDB, DB, Complete, Unevaluated
      <3> QED BY <3>2, <3>3
    <2>6. OnlyAdds(data, new, {op})
      BY <1>1, <1>2, <2>2, <2>3, <2>4 DEF OnlyAdds, GoodDB, DB
    <2> QED BY <2>3, <2>5, <2>6 DEF GoodDB, new
  <1>8. CASE result \in {"ok", "fail"} /\ ~IsCompilation(op) /\ x \notin UserTests
    <2>1. new = IF data.outcome[op] # "none" THEN data
                ELSE Stored(data, op, "ok", v)
      BY <1>8 DEF WriteRow, Stored
    <2>2. CASE data.outcome[op] # "none"
      BY <2>1, <2>2 DEF OnlyAdds
    <2>3. CASE data.outcome[op] = "none"
      <3>1. /\ new \in DB /\ new.evaluated = data.evaluated
            /\ \A o \in ESOperation : new.outcome[o] = IF o = op THEN "ok" ELSE data.outcome[o]
        <4>1. data \in DB /\ new = Stored(data, op, "ok", v) /\ "ok" \in RowOutcomes
          BY <2>1, <2>3 DEF GoodDB, RowOutcomes
        <4> HIDE DEF new
        <4> QED BY <4>1, RowStored
      <3> HIDE DEF new
      <3>2. Complete(new)
        BY <1>0, <3>1 DEF GoodDB, DB, Complete, Unevaluated
      <3>3. OnlyAdds(data, new, {op})
        BY <1>2, <3>1 DEF OnlyAdds, GoodDB, DB
      <3> QED BY <3>1, <3>2, <3>3 DEF GoodDB, new
    <2> QED BY <2>2, <2>3
  <1> QED BY <1>3, <1>4, <1>5, <1>6, <1>7, <1>8

(* Induction over the natural numbers, for a set instead of a predicate.   *)
LEMMA SetInduction ==
    ASSUME NEW S, 0 \in S, \A n \in Nat : n \in S => n + 1 \in S
    PROVE  Nat \subseteq S
  <1> DEFINE T == Nat \ S
             Below == {ss \in Nat \X Nat : ss[1] < ss[2]}
  <1> SUFFICES ASSUME T # {} PROVE FALSE
    OBVIOUS
  <1>1. T \subseteq Nat
    OBVIOUS
  <1>2. IsWellFoundedOn(Below, Nat)
    BY NatLessThanWellFounded DEF OpToRel
  <1> HIDE DEF T, Below
  <1>3. PICK n \in T : \A m \in T : <<m, n>> \notin Below
    BY <1>1, <1>2, WFMin
  <1>4. n # 0 /\ n - 1 \in Nat
    BY <1>1, <1>3 DEF T
  <1>5. <<n - 1, n>> \in Below
    BY <1>1, <1>4 DEF Below
  <1> QED BY <1>3, <1>4, <1>5 DEF T

(* The database after all the results of a flush.                          *)
LEMMA WrittenIsGood ==
    ASSUME db \in GoodDB, DOMAIN fd \subseteq ESOperation, fd \in [DOMAIN fd -> Nat],
           NEW results, \A op \in DOMAIN fd : results[op] \in Outcomes(op),
           NEW W \in SUBSET DOMAIN fd, NEW order \in Seq(W)
    PROVE  /\ Written(results, order) \in GoodDB
           /\ OnlyAdds(db, Written(results, order), W)
  <1> DEFINE N == Len(order)
             Row(data, n) == WriteRow(data, order[n], results[order[n]], fd[order[n]])
             Follows(g, n) == g[0] = db /\ \A k \in 1 .. n : g[k] = Row(g[k - 1], k)
             Good == {data \in GoodDB : OnlyAdds(db, data, W)}
  <1>1. N \in Nat /\ \A n \in 1 .. N : order[n] \in W
    OBVIOUS
  <1>2. db \in Good
    BY DEF OnlyAdds
  <1>3. ASSUME NEW data \in Good, NEW n \in 1 .. N
        PROVE  Row(data, n) \in Good
    <2> DEFINE new == Row(data, n)
    <2>1. data \in GoodDB /\ OnlyAdds(db, data, W)
      OBVIOUS
    <2>2. new \in GoodDB /\ OnlyAdds(data, new, {order[n]}) /\ order[n] \in W
      BY <1>1, <2>1, WriteRowIsGood
    <2> HIDE DEF new
    <2>3. OnlyAdds(db, new, W)
      BY <2>1, <2>2 DEF OnlyAdds
    <2> QED BY <2>2, <2>3 DEF new
  <1> HIDE DEF N, Row, Good
  <1>4. \E g \in [0 .. N -> Good] : Follows(g, N)
    <2> DEFINE S == {n \in Nat : n <= N => \E g \in [0 .. n -> Good] : Follows(g, n)}
    <2>1. 0 \in S
      <3>1. [n \in 0 .. 0 |-> db] \in [0 .. 0 -> Good]
        BY <1>2
      <3>2. Follows([n \in 0 .. 0 |-> db], 0)
        OBVIOUS
      <3> QED BY <3>1, <3>2
    <2>2. ASSUME NEW n \in Nat, n \in S  PROVE n + 1 \in S
      <3> SUFFICES ASSUME n + 1 <= N
                   PROVE  \E g \in [0 .. n + 1 -> Good] : Follows(g, n + 1)
        OBVIOUS
      <3>1. PICK g \in [0 .. n -> Good] : Follows(g, n)
        BY <1>1, <2>2
      <3> DEFINE h == [k \in 0 .. n + 1 |-> IF k = n + 1 THEN Row(g[n], n + 1) ELSE g[k]]
      <3>2. Row(g[n], n + 1) \in Good
        BY <1>1, <1>3
      <3>3. h \in [0 .. n + 1 -> Good]
        BY <3>2
      <3>4. h[0] = db
        BY <3>1
      <3>5. ASSUME NEW k \in 1 .. n + 1  PROVE h[k] = Row(h[k - 1], k)
        BY <3>1
      <3> QED BY <3>3, <3>4, <3>5
    <2> HIDE DEF S
    <2>3. N \in S
      BY <1>1, <2>1, <2>2, SetInduction
    <2> QED BY <1>1, <2>3 DEF S
  <1> DEFINE F(g) == [n \in 0 .. N |-> IF n = 0 THEN db ELSE Row(g[n - 1], n)]
             after == CHOOSE g : g = F(g)
  <1>5. after = F(after)
    <2>1. PICK g \in [0 .. N -> Good] : Follows(g, N)
      BY <1>4
    <2>2. g = F(g)
      BY <1>1, <2>1
    <2> QED BY <2>2
  <1>6. \A n \in 0 .. N : after[n] \in Good
    <2> DEFINE S == {n \in Nat : n <= N => after[n] \in Good}
    <2> HIDE DEF after
    <2>1. 0 \in S
      BY <1>1, <1>2, <1>5
    <2>2. ASSUME NEW n \in Nat, n \in S  PROVE n + 1 \in S
      <3> SUFFICES ASSUME n + 1 <= N  PROVE after[n + 1] \in Good
        OBVIOUS
      <3>1. after[n] \in Good
        BY <1>1, <2>2
      <3>2. n + 1 \in 0 .. N /\ n + 1 # 0 /\ (n + 1) - 1 = n
        BY <1>1
      <3>3. F(after)[n + 1] = Row(after[n], n + 1)
        BY <3>2
      <3>4. Row(after[n], n + 1) \in Good
        BY <1>1, <1>3, <3>1
      <3> HIDE DEF F
      <3> QED BY <1>5, <3>3, <3>4
    <2> HIDE DEF S
    <2>3. Nat \subseteq S
      BY <2>1, <2>2, SetInduction
    <2> QED BY <1>1, <2>3 DEF S
  <1>7. Written(results, order) = after[N]
    BY DEF Written, Row, N
  <1> QED BY <1>1, <1>6, <1>7 DEF Good

-----------------------------------------------------------------------------
(* The steps of the executor.                                              *)
LEMMA ExecutorKeepsPlaces ==
    ASSUME PlacesInv,
           \/ \E batch \in SUBSET queue : Pop(batch)
           \/ \E w \in Workers : Acquire(w)
           \/ AcquireFails \/ NothingLeft \/ Send \/ SendRaises
    PROVE  PlacesInv'
  <1> USE DEF PlacesInv, PlaceTypeOK
  <1>1. ASSUME NEW batch \in SUBSET queue, Pop(batch)  PROVE PlacesInv'
    <2>1. \A o \in batch : ~InPool(o) /\ o \in Operations
      BY DEF NotQueuedTwice
    <2> QED BY <1>1, <2>1 DEF Pop, poolVars, PoolTypeOK, IdleHoldsNothing, Busy,
               ListsInReverse, NotQueuedTwice, ExtractedInPool, InPool
  <1>2. ASSUME NEW w \in Workers, Acquire(w)  PROVE PlacesInv'
    <2>1. \A o \in executing : ~InPool(o) /\ o \in Operations
      BY <1>2 DEF Acquire, ExtractedInPool, InPool
    <2> DEFINE slot == [pool[w] EXCEPT !.status = "busy", !.ops = executing,
                                       !.start = "running"]
    <2>2. slot \in Slot /\ slot.ops = executing /\ slot.status = "busy"
      BY ZenonT(60) DEF PoolTypeOK, Slot, Status, Clock
    <2>3. /\ pool' = [pool EXCEPT ![w] = slot]
          /\ reverse' = [o \in Operations |-> IF o \in executing THEN w ELSE reverse[o]]
          /\ UNCHANGED <<event, connected, greeting>>
          /\ executor' = "building" /\ target' = w
          /\ executor = "waiting" /\ alias = NoWorker
          /\ UNCHANGED <<queue, executing, waiting, alias>>
          /\ pool[w].ops = {}
      BY <1>2 DEF Acquire, AcquireWorker, AvailableWorkers, IdleHoldsNothing, Busy
    <2> HIDE DEF slot
    <2>4. PoolTypeOK'
      BY <2>2, <2>3 DEF PoolTypeOK
    <2>5. IdleHoldsNothing'
      BY <2>2, <2>3 DEF PoolTypeOK, IdleHoldsNothing, Busy
    <2>6. ListsInReverse'
      <3> SUFFICES ASSUME NEW o \in Operations, NEW v \in Workers, o \in pool'[v].ops
                   PROVE  reverse'[o] = v
        BY DEF ListsInReverse
      <3>1. CASE v = w
        BY <2>2, <2>3, <3>1 DEF PoolTypeOK
      <3>2. CASE v # w
        <4>1. reverse[o] = v /\ v # NoWorker
          BY <2>3, <3>2, NoWorkerAssumption DEF PoolTypeOK, ListsInReverse
        <4> QED BY <2>1, <2>3, <4>1 DEF InPool
      <3> QED BY <3>1, <3>2
    <2>7. NotQueuedTwice'
      BY <2>3 DEF NotQueuedTwice, InPool
    <2>8. ExtractedInPool'
      BY <2>1, <2>2, <2>3 DEF ExtractedInPool, PoolTypeOK
    <2> QED BY <2>3, <2>4, <2>5, <2>6, <2>7, <2>8
  <1>3. ASSUME AcquireFails  PROVE PlacesInv'
    BY <1>3, PoolActionsRelease, ReleasesKeepPlaces DEF AcquireFails, esVars
  <1>4. ASSUME NothingLeft  PROVE PlacesInv'
    BY <1>4 DEF NothingLeft, poolVars, PoolTypeOK, IdleHoldsNothing, Busy,
       ListsInReverse, NotQueuedTwice, ExtractedInPool, InPool
  <1>5. ASSUME Send  PROVE PlacesInv'
    BY <1>5 DEF Send, poolVars, PoolTypeOK, IdleHoldsNothing, Busy,
       ListsInReverse, NotQueuedTwice, ExtractedInPool, InPool
  <1>6. ASSUME SendRaises  PROVE PlacesInv'
    <2>1. \A o \in executing : InPool(o) => Busy(target) /\ reverse[o] = target
      BY <1>6 DEF SendRaises, ExtractedInPool, IdleHoldsNothing
    <2>2. /\ executor' = "idle" /\ target' = NoWorker
          /\ alias' = IF Busy(target) THEN target ELSE NoWorker
          /\ UNCHANGED <<poolVars, queue, executing, waiting>>
      BY <1>6 DEF SendRaises
    <2> QED BY <2>1, <2>2 DEF poolVars, PoolTypeOK, IdleHoldsNothing, Busy,
               ListsInReverse, NotQueuedTwice, ExtractedInPool, InPool
  <1> QED BY <1>1, <1>2, <1>3, <1>4, <1>5, <1>6

(* The steps that change lists and lookup, and nothing but waiting besides.*)
LEMMA PoolStepsKeepPlaces ==
    ASSUME PlacesInv,
           \/ \E w \in Workers : WorkerConnects(w) \/ WorkerGreeted(w)
                                 \/ WorkerDisconnects(w) \/ WorkerExpires(w)
                                 \/ DisableWorkerRPC(w) \/ EnableWorkerRPC(w)
           \/ \E i \in CallIds : ActionFinished(i) /\ calls[i].worker \in Workers
           \/ CheckWorkersTimeout \/ CheckWorkersConnection
    PROVE  PlacesInv'
  <1> USE DEF PlacesInv, PlaceTypeOK
  <1>1. OnlyReleases
    <2>1. ASSUME NEW i \in CallIds, ActionFinished(i), calls[i].worker \in Workers
          PROVE  OnlyReleases
      BY <2>1, PoolActionsRelease DEF ActionFinished, ReleaseIdle
    <2> QED BY <2>1, PoolActionsRelease
            DEF WorkerConnects, WorkerGreeted, WorkerDisconnects, WorkerExpires,
                DisableWorkerRPC, EnableWorkerRPC, CheckWorkersTimeout,
                CheckWorkersConnection
  <1>2. \A w \in Workers : pool[w].ops \subseteq Operations
    BY DEF PoolTypeOK, Slot
  <1>3. /\ LostToTimeouts \subseteq Operations
        /\ LostToDisconnections \subseteq Operations
        /\ \A w \in Workers : LostOn(w) \subseteq Operations
    BY <1>2 DEF LostToTimeouts, LostToDisconnections, LostOn, TimedOut, Unreachable
  <1>4. waiting' \subseteq Operations
    BY <1>3 DEF WorkerConnects, WorkerGreeted, WorkerDisconnects, WorkerExpires,
           DisableWorkerRPC, EnableWorkerRPC, CheckWorkersTimeout,
           CheckWorkersConnection, ActionFinished, esVars
  <1>5. UNCHANGED <<queue, executing, executor, target, alias>>
    BY DEF WorkerConnects, WorkerGreeted, WorkerDisconnects, WorkerExpires,
           DisableWorkerRPC, EnableWorkerRPC, CheckWorkersTimeout,
           CheckWorkersConnection, ActionFinished, esVars
  <1> QED BY <1>1, <1>4, <1>5, ReleasesKeepPlaces

-----------------------------------------------------------------------------
(* The types of the rest of the state.                                     *)
Cached == UNION {[S -> Nat] : S \in SUBSET Operations}

Call == [worker : Workers, state : {"running", "done", "error"}, jobs : Cached]

ServiceTypeOK ==
    /\ calls \in [CallIds -> Call \cup {NoCall}]
    /\ d \in Cached /\ fd \in Cached
    /\ flusher \in {"checking", "flushing", "rows", "outcomes", "dead"}
    /\ status \in [Objects -> {"absent", "present", "deleted"}]
    /\ epoch \in [Operations -> Nat]
    /\ ended \in [Matches -> Nat]

(* What is in a cache.                                                     *)
LEMMA CachedFunctions ==
    /\ \A f \in Cached : f \in [DOMAIN f -> Nat] /\ DOMAIN f \subseteq Operations
    /\ \A S \in SUBSET Operations : [S -> Nat] \subseteq Cached
    /\ <<>> \in Cached /\ DOMAIN <<>> = {}
  <1>1. \A f \in Cached : f \in [DOMAIN f -> Nat] /\ DOMAIN f \subseteq Operations
    BY DEF Cached
  <1>2. \A S \in SUBSET Operations : [S -> Nat] \subseteq Cached
    BY DEF Cached
  <1>3. <<>> \in [{} -> Nat] /\ DOMAIN <<>> = {}
    OBVIOUS
  <1> QED BY <1>1, <1>2, <1>3

(* Merging results into the cache.                                         *)
LEMMA MergedCache ==
    ASSUME NEW jobs \in Cached, NEW S \in SUBSET DOMAIN jobs, NEW f \in Cached
    PROVE  [op \in S \cup DOMAIN f |-> IF op \in S THEN jobs[op] ELSE f[op]] \in Cached
  <1> DEFINE T == S \cup DOMAIN f
             h == [op \in T |-> IF op \in S THEN jobs[op] ELSE f[op]]
  <1>1. /\ f \in [DOMAIN f -> Nat] /\ jobs \in [DOMAIN jobs -> Nat]
        /\ T \in SUBSET Operations
    BY CachedFunctions
  <1>2. h \in [T -> Nat]
    BY <1>1
  <1> QED BY <1>1, <1>2, CachedFunctions

(* The steps that run, answer and collect calls keep the types.            *)
LEMMA CallsKeepTypes ==
    ASSUME PlacesInv, ServiceTypeOK,
           \/ Send
           \/ \E i \in CallIds : WorkerAnswers(i) \/ ActionFinished(i)
           \/ \E w \in Workers : WorkerDisconnects(w)
    PROVE  ServiceTypeOK'
  <1> USE DEF ServiceTypeOK
  <1>1. ASSUME Send  PROVE ServiceTypeOK'
    <2> DEFINE jobs == [op \in executing |-> epoch[op]]
               call == [worker |-> target,
                        state |-> IF connected[target] /\ RunningOn(target) = {}
                                  THEN "running" ELSE "error",
                        jobs |-> jobs]
    <2>1. jobs \in Cached
      <3>1. executing \in SUBSET Operations
        BY DEF PlacesInv, PlaceTypeOK
      <3>2. jobs \in [executing -> Nat]
        BY <3>1
      <3> QED BY <3>1, <3>2, CachedFunctions
    <2> HIDE DEF jobs
    <2>2. call \in Call
      BY <1>1, <2>1 DEF Call, Send, PlacesInv, PlaceTypeOK
    <2>3. /\ calls' = [calls EXCEPT ![CHOOSE i \in FreeCall : TRUE] = call]
          /\ UNCHANGED <<d, fd, flusher, status, epoch, ended>>
      BY <1>1 DEF Send, jobs
    <2> HIDE DEF call
    <2> QED BY <2>2, <2>3
  <1>2. ASSUME NEW i \in CallIds, WorkerAnswers(i)  PROVE ServiceTypeOK'
    <2>1. calls[i] \in Call
      BY <1>2 DEF WorkerAnswers
    <2>2. \A s \in {"done", "error"} : [calls[i] EXCEPT !.state = s] \in Call
      BY <2>1 DEF Call
    <2>3. \A s \in {"done", "error"} : [calls EXCEPT ![i].state = s] \in [CallIds -> Call \cup {NoCall}]
      BY <2>2
    <2> QED BY <1>2, <2>3 DEF WorkerAnswers
  <1>3. ASSUME NEW i \in CallIds, ActionFinished(i)  PROVE ServiceTypeOK'
    <2> DEFINE jobs == calls[i].jobs
               results == IF calls[i].state = "error" THEN {}
                          ELSE Kept(calls[i].worker, DOMAIN jobs)
    <2>1. calls[i] \in Call /\ jobs \in Cached
      BY <1>3 DEF ActionFinished, Call
    <2>2. results \in SUBSET DOMAIN jobs
      BY DEF Kept
    <2>3. \/ UNCHANGED d
          \/ d' = [op \in results \cup DOMAIN d |-> IF op \in results THEN jobs[op] ELSE d[op]]
      BY <1>3 DEF ActionFinished
    <2> HIDE DEF jobs, results
    <2>4. d' \in Cached
      BY <2>1, <2>2, <2>3, MergedCache, ZenonT(60)
    <2> QED BY <1>3, <2>4 DEF ActionFinished
  <1>4. ASSUME NEW w \in Workers, WorkerDisconnects(w)  PROVE ServiceTypeOK'
    <2>1. \A i \in RunningOn(w) : [calls[i] EXCEPT !.state = "error"] \in Call
      BY DEF RunningOn, Call
    <2> QED BY <1>4, <2>1 DEF WorkerDisconnects
  <1> QED BY <1>1, <1>2, <1>3, <1>4

(* So do all the other steps.                                              *)
LEMMA OthersKeepTypes ==
    ASSUME ServiceTypeOK,
           \/ \E batch \in SUBSET queue : Pop(batch)
           \/ \E w \in Workers : Acquire(w) \/ WorkerConnects(w) \/ WorkerGreeted(w)
                  \/ WorkerExpires(w) \/ DisableWorkerRPC(w) \/ EnableWorkerRPC(w)
           \/ AcquireFails \/ NothingLeft \/ SendRaises
           \/ CheckWorkersTimeout \/ CheckWorkersConnection
           \/ \E op \in Operations : EnqueueWaiting(op)
           \/ \E x \in Objects : Create(x) \/ NewObject(x) \/ Delete(x)
           \/ Sweep
           \/ \E x \in Submissions, level \in {"compilation", "evaluation"} :
                 InvalidateSubmission(x, level)
           \/ Flush \/ WriteRows \/ WriteOutcomes \/ WriteEnds \/ FlusherDies \/ Crash
           \/ UNCHANGED vars
    PROVE  ServiceTypeOK'
  <1> USE DEF ServiceTypeOK
  <1>1. ASSUME \/ \E batch \in SUBSET queue : Pop(batch)
               \/ \E w \in Workers : Acquire(w) \/ WorkerConnects(w) \/ WorkerGreeted(w)
                      \/ WorkerExpires(w) \/ DisableWorkerRPC(w) \/ EnableWorkerRPC(w)
               \/ AcquireFails \/ NothingLeft \/ SendRaises
               \/ CheckWorkersTimeout \/ CheckWorkersConnection
               \/ \E op \in Operations : EnqueueWaiting(op)
               \/ Sweep \/ UNCHANGED vars
        PROVE  ServiceTypeOK'
    BY <1>1 DEF Pop, Acquire, WorkerConnects, WorkerGreeted, WorkerExpires,
       DisableWorkerRPC, EnableWorkerRPC, AcquireFails, NothingLeft, SendRaises,
       CheckWorkersTimeout, CheckWorkersConnection, EnqueueWaiting, Sweep, vars, esVars
  <1>2. \A X : [m \in Matches |-> IF m \in X THEN ended[m] + 1 ELSE ended[m]] \in [Matches -> Nat]
    OBVIOUS
  <1>3. ASSUME \E x \in Objects : Create(x) \/ NewObject(x) \/ Delete(x)
        PROVE  ServiceTypeOK'
    BY <1>2, <1>3 DEF Create, NewObject, Notified, Delete
  <1>4. ASSUME NEW x \in Submissions, NEW level, InvalidateSubmission(x, level)
        PROVE  ServiceTypeOK'
    <2>1. \A S : [op \in Operations |-> IF op \in S THEN epoch[op] + 1 ELSE epoch[op]]
                    \in [Operations -> Nat]
      OBVIOUS
    <2> QED BY <1>4, <2>1 DEF InvalidateSubmission
  <1>5. ASSUME Flush \/ WriteRows \/ WriteOutcomes \/ WriteEnds \/ FlusherDies \/ Crash
        PROVE  ServiceTypeOK'
    <2>1. CASE Flush \/ WriteRows \/ WriteOutcomes
      BY <2>1, CachedFunctions DEF Flush, WriteRows, WriteOutcomes
    <2>2. CASE WriteEnds
      <3>1. ended' \in [Matches -> Nat]
        BY <1>2, <2>2 DEF WriteEnds, EndOperations, Notified
      <3> QED BY <2>2, <3>1, CachedFunctions DEF WriteEnds
    <2>3. CASE FlusherDies
      <3>1. ended' = ended \/ \E X : ended' = Notified(X)
        BY <2>3 DEF FlusherDies, EndOperations
      <3> QED BY <1>2, <2>3, <3>1 DEF FlusherDies, Notified
    <2>4. CASE Crash
      BY <2>4, CachedFunctions DEF Crash
    <2> QED BY <1>5, <2>1, <2>2, <2>3, <2>4
  <1> QED BY <1>1, <1>3, <1>4, <1>5

(* The first pass of write_results writes the results of what exists.      *)
LEMMA RowsWritten ==
    ASSUME db \in GoodDB, ServiceTypeOK, WriteRows
    PROVE  /\ db' \in GoodDB
           /\ OnlyAdds(db, db', {op \in DOMAIN fd : status[ObjectOf(op)] = "present"})
  <1> DEFINE S == {op \in DOMAIN fd : status[ObjectOf(op)] = "present"}
  <1>1. PICK results \in [DOMAIN fd -> {"ok", "fail", "error", "tombstone"}],
             order \in Orders(S) :
           /\ \A op \in DOMAIN fd : results[op] \in Outcomes(op)
           /\ db' = Written(results, order)
    BY DEF WriteRows
  <1>2. fd \in [DOMAIN fd -> Nat] /\ DOMAIN fd \subseteq Operations
    BY CachedFunctions DEF ServiceTypeOK
  <1>3. order \in Seq(S)
    <2>1. Cardinality(S) \in Nat
      BY <1>2, ServiceAssumption, FS_Subset, FS_CardinalityType
    <2>2. order \in [1 .. Cardinality(S) -> S]
      BY DEF Orders, SetToSeqs
    <2>3. order \in UNION {[1 .. n -> S] : n \in Nat}
      BY <2>1, <2>2
    <2> HIDE DEF S
    <2> QED BY <2>3, SeqDef, Zenon
  <1>4. S \in SUBSET DOMAIN fd
    OBVIOUS
  <1> HIDE DEF S
  <1>5. db' \in GoodDB /\ OnlyAdds(db, db', S)
    BY <1>1, <1>2, <1>3, <1>4, WrittenIsGood, ServiceAssumption
  <1> QED BY <1>5 DEF S

(* Every write of the database keeps it good.                              *)
LEMMA StaysGood ==
    ASSUME db \in GoodDB, ServiceTypeOK, [Next]_vars
    PROVE  db' \in GoodDB
  <1>1. ASSUME NEW x \in Objects, NewObject(x)  PROVE db' \in GoodDB
    BY <1>1, OutcomeIsGood DEF NewObject
  <1>2. ASSUME NEW x \in Objects, Delete(x)  PROVE db' \in GoodDB
    BY <1>2, BlankedIsGood DEF Delete
  <1>3. ASSUME NEW x \in Submissions, NEW level \in {"compilation", "evaluation"},
               InvalidateSubmission(x, level)
        PROVE  db' \in GoodDB
    <2>1. x \in Objects /\ RelevantOperations(level, x) \in SUBSET OperationsOf(x)
      BY DEF Objects, RelevantOperations, OperationsOf
    <2>2. db' = Blanked(db, x, RelevantOperations(level, x))
      BY <1>3 DEF InvalidateSubmission
    <2> QED BY <2>1, <2>2, BlankedIsGood
  <1>4. ASSUME WriteRows  PROVE db' \in GoodDB
    BY <1>4, RowsWritten
  <1>5. ASSUME WriteOutcomes \/ WriteEnds \/ FlusherDies  PROVE db' \in GoodDB
    <2>1. \/ \E X : db' = SetEvaluationOutcome(db, X)
          \/ db' = db
      BY <1>5 DEF WriteOutcomes, WriteEnds, FlusherDies, EndOperations
    <2> QED BY <2>1, OutcomeIsGood
  <1>6. CASE \/ \E batch \in SUBSET queue : Pop(batch)
             \/ \E w \in Workers : Acquire(w) \/ WorkerConnects(w) \/ WorkerGreeted(w)
                    \/ WorkerExpires(w) \/ DisableWorkerRPC(w) \/ EnableWorkerRPC(w)
                    \/ WorkerDisconnects(w)
             \/ AcquireFails \/ NothingLeft \/ SendRaises \/ Send
             \/ \E i \in CallIds : WorkerAnswers(i) \/ ActionFinished(i)
             \/ CheckWorkersTimeout \/ CheckWorkersConnection
             \/ \E op \in Operations : EnqueueWaiting(op)
             \/ \E x \in Objects : Create(x)
             \/ Sweep \/ Flush \/ Crash \/ UNCHANGED vars
    BY <1>6 DEF Pop, Acquire, WorkerConnects, WorkerGreeted, WorkerExpires,
       DisableWorkerRPC, EnableWorkerRPC, AcquireFails, NothingLeft, SendRaises, Send,
       WorkerAnswers, ActionFinished, WorkerDisconnects, CheckWorkersTimeout,
       CheckWorkersConnection, EnqueueWaiting, Create, Sweep, Flush, Crash, vars, esVars
  <1> QED BY <1>1, <1>2, <1>3, <1>4, <1>5, <1>6 DEF Next

-----------------------------------------------------------------------------
(* The objects of the results being flushed.                               *)
LEMMA FlushedObjects ==
    ASSUME ServiceTypeOK, NEW isCompilation
    PROVE  Flushed(isCompilation) \subseteq Objects
  <1>1. DOMAIN fd \subseteq ESOperation
    BY CachedFunctions, ServiceAssumption DEF ServiceTypeOK
  <1> QED BY <1>1, ObjectsOperation DEF Flushed

(* The steps that touch no place, and those that only enqueue.             *)
LEMMA EnqueuesKeepPlaces ==
    ASSUME PlacesInv, ServiceTypeOK,
           \/ \E i \in CallIds : WorkerAnswers(i)
           \/ \E x \in Objects : Create(x) \/ NewObject(x) \/ Delete(x)
           \/ \E op \in Operations : EnqueueWaiting(op)
           \/ Sweep \/ Flush \/ WriteRows \/ WriteOutcomes \/ WriteEnds \/ FlusherDies
           \/ UNCHANGED vars
    PROVE  PlacesInv'
  <1>1. \A data : \A X \in SUBSET Objects :
           /\ UNION {GetOperations(data, x) : x \in X} \in SUBSET Operations
           /\ UNION {SweptOperations(data, x) : x \in X} \in SUBSET Operations
    BY OperationsAsked
  <1>2. /\ waiting \subseteq Operations
        /\ queue = Enqueued({}) /\ {} \in SUBSET Operations
    BY DEF PlacesInv, PlaceTypeOK, Enqueued
  <1>3. \A S \in SUBSET Operations : waiting \cup S \subseteq Operations
                                     /\ waiting \ S \subseteq Operations
    BY <1>2
  <1>4. ASSUME \/ \E i \in CallIds : WorkerAnswers(i)
               \/ \E x \in Objects : Create(x) \/ Delete(x)
               \/ Flush \/ WriteOutcomes \/ UNCHANGED vars
        PROVE  PlacesInv'
    <2>1. UNCHANGED <<poolVars, queue, executing, executor, target, alias, waiting>>
      BY <1>4 DEF WorkerAnswers, Create, Delete, Flush, WriteOutcomes, vars, esVars
    <2> QED BY <1>2, <2>1, EnqueuingKeepsPlaces
  <1>5. ASSUME NEW x \in Objects, NewObject(x)  PROVE PlacesInv'
    <2>1. GetOperations(db, x) \in SUBSET Operations
      BY OperationsAsked
    <2>2. \/ queue' = queue /\ waiting' = waiting \cup GetOperations(db, x)
          \/ queue' = Enqueued(GetOperations(db, x)) /\ waiting' = waiting
      BY <1>5 DEF NewObject
    <2>3. UNCHANGED <<poolVars, executing, executor, target, alias>>
      BY <1>5 DEF NewObject
    <2> QED BY <1>2, <1>3, <2>1, <2>2, <2>3, EnqueuingKeepsPlaces
  <1>6. ASSUME NEW op \in Operations, EnqueueWaiting(op)  PROVE PlacesInv'
    <2>1. /\ queue' = Enqueued({op}) /\ waiting' = waiting \ {op} /\ {op} \in SUBSET Operations
          /\ UNCHANGED <<poolVars, executing, executor, target, alias>>
      BY <1>6 DEF EnqueueWaiting
    <2> QED BY <1>3, <2>1, EnqueuingKeepsPlaces
  <1>7. ASSUME Sweep  PROVE PlacesInv'
    <2>1. Existing(Objects) \in SUBSET Objects
      BY DEF Existing
    <2>2. /\ queue' = Enqueued(UNION {SweptOperations(db, x) : x \in Existing(Objects)})
          /\ UNCHANGED <<poolVars, executing, executor, target, alias, waiting>>
      BY <1>7 DEF Sweep
    <2> QED BY <1>1, <1>2, <2>1, <2>2, EnqueuingKeepsPlaces
  <1>8. ASSUME WriteRows  PROVE PlacesInv'
    <2>1. PICK X \in SUBSET Objects : queue' = Enqueued(UNION {GetOperations(db', x) : x \in X})
      BY <1>8 DEF WriteRows, Existing, Objects
    <2>2. UNCHANGED <<poolVars, executing, executor, target, alias, waiting>>
      BY <1>8 DEF WriteRows
    <2> QED BY <1>1, <1>2, <2>1, <2>2, EnqueuingKeepsPlaces
  <1>9. ASSUME WriteEnds \/ FlusherDies  PROVE PlacesInv'
    <2>1. UNCHANGED <<poolVars, executing, executor, target, alias, waiting>>
      BY <1>9 DEF WriteEnds, FlusherDies
    <2>2. queue' = queue \/ \E X \in SUBSET Objects :
                               queue' = Enqueued(UNION {GetOperations(db, x) : x \in X})
      <3>1. \A X \in SUBSET Objects : EndOperations(X) =>
               \E Y \in SUBSET Objects : queue' = Enqueued(UNION {GetOperations(db, x) : x \in Y})
        BY DEF EndOperations
      <3>2. queue' = queue \/ \E X \in SUBSET (Flushed(TRUE) \cup Flushed(FALSE)) : EndOperations(X)
        BY <1>9 DEF WriteEnds, FlusherDies, Existing
      <3> QED BY <3>1, <3>2, FlushedObjects
    <2> QED BY <1>1, <1>2, <2>1, <2>2, EnqueuingKeepsPlaces
  <1> QED BY <1>4, <1>5, <1>6, <1>7, <1>8, <1>9

(* An invalidation takes operations out of the queue and out of what is    *)
(* extracted, marks those with workers and queues what is nowhere.         *)
LEMMA InvalidationKeepsPlaces ==
    ASSUME PlacesInv, NEW x \in Submissions, NEW level \in {"compilation", "evaluation"},
           InvalidateSubmission(x, level)
    PROVE  PlacesInv'
  <1> USE DEF PlacesInv, PlaceTypeOK
  <1> DEFINE ops == RelevantOperations(level, x)
             stay == executing \ (ops \ queue)
             again == {op \in GetOperations(Blanked(db, x, ops), x) :
                          op \notin stay \cup DOMAIN d \cup DOMAIN fd /\ ~InPool(op)}
  <1>1. again \subseteq Operations /\ \A op \in again : op \notin stay /\ ~InPool(op)
    BY OperationsAsked DEF Objects
  <1>2. /\ queue' = (queue \ ops) \cup again
        /\ executing' = stay
        /\ executor # "building" \/ ops \subseteq queue
        /\ pool' = [w \in Workers |-> [pool[w] EXCEPT
              !.ops = IF w = alias THEN @ \ (executing \ stay) ELSE @,
              !.toIgnore = @ \cup {op \in ops : reverse[op] = w}]]
        /\ UNCHANGED <<reverse, event, connected, greeting, executor, target, alias, waiting>>
    BY DEF InvalidateSubmission
  <1>3. ops \subseteq Operations
    BY ServiceAssumption, OwnOperations
       DEF RelevantOperations, OperationsOf, Objects
  <1> HIDE DEF again, ops
  <1>4. \A w \in Workers : /\ pool'[w] \in Slot /\ pool'[w].status = pool[w].status
                           /\ pool'[w].ops \subseteq pool[w].ops
                           /\ w # alias => pool'[w].ops = pool[w].ops
    BY <1>2, <1>3, ZenonT(60) DEF PoolTypeOK, Slot
  <1>5. PoolTypeOK'
    BY <1>2, <1>4 DEF PoolTypeOK
  <1>6. IdleHoldsNothing' /\ ListsInReverse'
    BY <1>2, <1>4, ZenonT(60) DEF IdleHoldsNothing, Busy, ListsInReverse
  <1>7. PlaceTypeOK'
    BY <1>1, <1>2
  <1>8. NotQueuedTwice'
    BY <1>1, <1>2 DEF NotQueuedTwice, InPool
  <1>9. ExtractedInPool'
    <2>1. CASE executor = "building"
      BY <1>2, <1>4, <2>1, NoWorkerAssumption DEF ExtractedInPool, InPool
    <2>2. CASE executor # "building"
      BY <1>2, <2>2 DEF ExtractedInPool, InPool
    <2> QED BY <2>1, <2>2
  <1> QED BY <1>5, <1>6, <1>7, <1>8, <1>9

(* The inductive invariant behind the theorems that need no hypothesis.    *)
ServiceInv == PlacesInv /\ ServiceTypeOK /\ db \in GoodDB

LEMMA InitServiceInv == Init => ServiceInv
  <1> SUFFICES ASSUME Init PROVE ServiceInv
    OBVIOUS
  <1>1. PlacesInv
    <2>1. PoolInv
      BY InitPoolInv DEF Init
    <2> QED BY <2>1 DEF Init, PoolInit, PoolInv, PlacesInv, PlaceTypeOK, NotQueuedTwice,
            ExtractedInPool, ListsInReverse, EmptySlot
  <1>2. ServiceTypeOK
    BY CachedFunctions DEF Init, ServiceTypeOK
  <1>3. db \in GoodDB
    <2>1. db \in DB /\ \A x \in Objects : ~db.evaluated[x]
      BY DEF Init, BlankDB, DB
    <2> QED BY <2>1 DEF GoodDB, Complete
  <1> QED BY <1>1, <1>2, <1>3 DEF ServiceInv

LEMMA NextServiceInv == ServiceInv /\ [Next]_vars => ServiceInv'
  <1> SUFFICES ASSUME ServiceInv, [Next]_vars  PROVE ServiceInv'
    OBVIOUS
  <1> USE DEF ServiceInv
  <1>1. ServiceTypeOK'
    BY CallsKeepTypes, OthersKeepTypes DEF Next
  <1>2. ASSUME Crash  PROVE PlacesInv'
    <2>1. OnlyReleases
      BY <1>2, PoolActionsRelease DEF Crash, PlacesInv
    <2> QED BY <1>2, <2>1 DEF Crash, Restart, OnlyReleases, PlacesInv, PlaceTypeOK,
            NotQueuedTwice, ExtractedInPool, ListsInReverse, EmptySlot
  <1>3. ASSUME NEW i \in CallIds, ActionFinished(i)  PROVE calls[i].worker \in Workers
    BY <1>3 DEF ActionFinished, ServiceTypeOK, Call
  <1>4. PlacesInv'
    BY <1>2, <1>3, ExecutorKeepsPlaces, PoolStepsKeepPlaces, EnqueuesKeepPlaces,
       InvalidationKeepsPlaces DEF Next
  <1> QED BY <1>1, <1>4, StaysGood

(* No operation is queued while it is extracted or with a worker, and it   *)
(* is both extracted and with a worker only in the window that             *)
(* acquire_worker opens: whatever is lost, invalidated, disabled or        *)
(* restarted, enqueue and dequeue keep the first three states of the       *)
(* comment on post_finish_lock apart.                                      *)
THEOREM NeverQueuedTwice == Spec => []QueuedOnce
  <1>1. ServiceInv => QueuedOnce
    BY DEF ServiceInv, PlacesInv, NotQueuedTwice, ExtractedInPool, QueuedOnce
  <1> QED BY <1>1, InitServiceInv, NextServiceInv, PTL DEF Spec

(* write_results, invalidate_submission and the requests that finalize a   *)
(* result never leave one marked as evaluated that lacks an evaluation,    *)
(* in whatever order they write and wherever they are interrupted.         *)
THEOREM EvaluatedResultsAreComplete == Spec => []EvaluatedIsComplete
  <1>1. ServiceInv => EvaluatedIsComplete
    BY DEF ServiceInv, GoodDB, Complete, EvaluatedIsComplete
  <1> QED BY <1>1, InitServiceInv, NextServiceInv, PTL DEF Spec

-----------------------------------------------------------------------------
(* The service as a user of the pool. After a dispatch that failed, the    *)
(* list of the worker in the pool is the executor's own list; an           *)
(* invalidation that deletes from it changes the pool behind its back, and *)
(* is no step of PoolSpec. The hypothesis says that this does not happen:  *)
(* nothing is deleted from a list while the two share it.                  *)
SharedListKept ==
    [][alias # NoWorker /\ alias' = alias => executing' = executing]_vars

(* An invalidation that leaves a shared list alone is ignore_operation on  *)
(* each of its operations.                                                 *)
LEMMA InvalidationIgnores ==
    ASSUME PlacesInv, NEW x \in Submissions, NEW level \in {"compilation", "evaluation"},
           InvalidateSubmission(x, level),
           alias # NoWorker => executing' = executing
    PROVE  IgnoreOperations(RelevantOperations(level, x))
  <1> DEFINE ops == RelevantOperations(level, x)
             stay == executing \ (ops \ queue)
  <1>1. /\ executing' = stay
        /\ pool' = [w \in Workers |-> [pool[w] EXCEPT
              !.ops = IF w = alias THEN @ \ (executing \ stay) ELSE @,
              !.toIgnore = @ \cup {op \in ops : reverse[op] = w}]]
        /\ UNCHANGED <<reverse, event, connected, greeting>>
    BY DEF InvalidateSubmission
  <1> HIDE DEF ops
  <1>2. \A w \in Workers : w = alias => executing \ stay = {}
    BY <1>1, NoWorkerAssumption
  <1>3. ASSUME NEW w \in Workers
        PROVE  [pool[w] EXCEPT
                  !.ops = IF w = alias THEN @ \ (executing \ stay) ELSE @,
                  !.toIgnore = @ \cup {op \in ops : reverse[op] = w}]
               = [pool[w] EXCEPT !.toIgnore = @ \cup {op \in ops : reverse[op] = w}]
    BY <1>2 DEF PlacesInv, PoolTypeOK, Slot
  <1> QED BY <1>1, <1>3 DEF IgnoreOperations, ops

(* A step of the service is a step of the pool, or leaves it alone.        *)
LEMMA PoolSteps ==
    ASSUME ServiceInv, [Next]_vars,
           [alias # NoWorker /\ alias' = alias => executing' = executing]_vars
    PROVE  [PoolNext]_poolVars
  <1> USE DEF ServiceInv
  <1>1. ASSUME NEW w \in Workers, Acquire(w)  PROVE PoolNext
    <2>1. /\ executing \in SUBSET Operations /\ executing # {}
          /\ \A o \in executing : ~InPool(o)
      BY <1>1 DEF Acquire, PlacesInv, PlaceTypeOK, ExtractedInPool, InPool
    <2>2. AcquireWorker(w, executing)
      BY <1>1 DEF Acquire
    <2> QED BY <2>1, <2>2 DEF PoolNext
  <1>2. ASSUME NEW i \in CallIds, ActionFinished(i)  PROVE [PoolNext]_poolVars
    <2>1. calls[i].worker \in Workers
      BY <1>2 DEF ActionFinished, ServiceTypeOK, Call
    <2>2. ReleaseBusy(calls[i].worker) \/ UNCHANGED poolVars
      BY <1>2 DEF ActionFinished, ReleaseIdle
    <2> QED BY <2>1, <2>2 DEF PoolNext
  <1>3. ASSUME NEW x \in Submissions, NEW level \in {"compilation", "evaluation"},
               InvalidateSubmission(x, level)
        PROVE  [PoolNext]_poolVars
    <2>1. alias' = alias
      BY <1>3 DEF InvalidateSubmission
    <2>2. alias # NoWorker => executing' = executing
      BY <2>1 DEF vars, esVars
    <2>3. IgnoreOperations(RelevantOperations(level, x))
      BY <1>3, <2>2, InvalidationIgnores
    <2>4. RelevantOperations(level, x) \in SUBSET Operations
      BY ServiceAssumption, OwnOperations DEF RelevantOperations, OperationsOf, Objects
    <2> QED BY <2>3, <2>4 DEF PoolNext
  <1>4. CASE \/ \E w \in Workers : WorkerConnects(w) \/ WorkerGreeted(w)
                    \/ WorkerExpires(w) \/ DisableWorkerRPC(w) \/ EnableWorkerRPC(w)
                    \/ WorkerDisconnects(w)
             \/ AcquireFails \/ CheckWorkersTimeout \/ CheckWorkersConnection \/ Crash
    BY <1>4 DEF PoolNext, WorkerConnects, WorkerGreeted, WorkerExpires,
       DisableWorkerRPC, EnableWorkerRPC, WorkerDisconnects, AcquireFails,
       CheckWorkersTimeout, CheckWorkersConnection, Crash
  <1>5. CASE \/ \E batch \in SUBSET queue : Pop(batch)
             \/ NothingLeft \/ SendRaises \/ Send
             \/ \E i \in CallIds : WorkerAnswers(i)
             \/ \E op \in Operations : EnqueueWaiting(op)
             \/ \E x \in Objects : Create(x) \/ NewObject(x) \/ Delete(x)
             \/ Sweep \/ Flush \/ WriteRows \/ WriteOutcomes \/ WriteEnds \/ FlusherDies
             \/ UNCHANGED vars
    BY <1>5 DEF Pop, NothingLeft, SendRaises, Send, WorkerAnswers, EnqueueWaiting,
       Create, NewObject, Delete, Sweep, Flush, WriteRows, WriteOutcomes, WriteEnds,
       FlusherDies, vars
  <1> QED BY <1>1, <1>2, <1>3, <1>4, <1>5 DEF Next

(* EvaluationService implements what the pool expects of its user: it      *)
(* never hands out an operation that a worker has already, in whatever     *)
(* order the executor, the callbacks and the timers touch the pool.        *)
THEOREM ServiceUsesPool == Spec /\ SharedListKept => PoolRefined
  <1>1. Init => PoolInit
    BY DEF Init
  <1>2. ServiceInv /\ [Next]_vars
           /\ [alias # NoWorker /\ alias' = alias => executing' = executing]_vars
        => [PoolNext]_poolVars
    BY PoolSteps
  <1> QED BY <1>1, <1>2, InitServiceInv, NextServiceInv, PTL
          DEF Spec, SharedListKept, PoolRefined, PoolSpec

(* So what is proved of the pool alone holds of the pool in the service.   *)
THEOREM PoolConsistentInService == Spec /\ SharedListKept => []PoolConsistent
  BY ServiceUsesPool, PoolStaysConsistent, PTL DEF PoolRefined

-----------------------------------------------------------------------------
(* The calls. check_timeouts, check_connections and disable_worker take a  *)
(* batch from a worker whose call is still open; its operations are queued *)
(* again, and when the late answer arrives the worker may already have     *)
(* another batch, so the answer is taken for that one's. What follows is   *)
(* about the behaviours in which this does not happen: no worker is        *)
(* disabled, overdue or disconnected.                                      *)
NotReleasedEarly ==
    spent["disable"] = 0 /\ spent["expire"] = 0 /\ spent["disconnect"] = 0

Open == {i \in CallIds : calls[i] # NoCall}

NoneLost == \A w \in Workers : pool[w].start # "expired" /\ (Busy(w) => connected[w])

(* A worker with an open call is busy with its operations, and an          *)
(* operation invalidated since the call was sent is marked.                *)
CallsOwned ==
    \A i \in Open :
       /\ Busy(calls[i].worker) /\ calls[i].worker # alias
       /\ executor = "building" => calls[i].worker # target
       /\ \A op \in DOMAIN calls[i].jobs :
             /\ op \in pool[calls[i].worker].ops
             /\ \/ calls[i].jobs[op] = epoch[op]
                \/ op \in pool[calls[i].worker].toIgnore

OneCallEach == \A i, j \in Open : i # j => calls[i].worker # calls[j].worker

BatchRecorded ==
    executor = "building" => Busy(target) /\ executing \subseteq pool[target].ops

CallsInv ==
    /\ DOMAIN spent = Events
    /\ NoneLost
    /\ CallsOwned
    /\ OneCallEach
    /\ BatchRecorded
    /\ CachedOnce

(* Counting an event changes its count.                                    *)
LEMMA Spending ==
    ASSUME DOMAIN spent = Events, NEW e \in Events, Spend(e)
    PROVE  DOMAIN spent' = Events /\ spent'[e] = spent[e] + 1
  BY DEF Spend

(* Only pool, queue and caches matter to the calls.                        *)
LEMMA EnqueuingKeepsCalls ==
    ASSUME CallsInv, DOMAIN spent' = Events,
           \A op \in queue' : op \in queue \/ ~Known(op),
           UNCHANGED <<poolVars, executing, executor, target, alias, calls, d, epoch>>,
           fd' \in {fd, <<>>}
    PROVE  CallsInv'
  <1>1. DOMAIN fd' \subseteq DOMAIN fd
    BY CachedFunctions
  <1>2. CachedOnce'
    BY <1>1 DEF CallsInv, CachedOnce, Known, InPool, poolVars
  <1> QED BY <1>2 DEF CallsInv, NoneLost, CallsOwned, OneCallEach, BatchRecorded,
             Busy, Open, poolVars

(* The steps that only enqueue, write or count.                            *)
LEMMA EnqueuesKeepCalls ==
    ASSUME CallsInv,
           \/ \E x \in Objects : Create(x) \/ NewObject(x) \/ Delete(x)
           \/ \E op \in Operations : EnqueueWaiting(op)
           \/ Sweep \/ WriteRows \/ WriteOutcomes \/ WriteEnds \/ FlusherDies
           \/ UNCHANGED vars
    PROVE  CallsInv'
  <1>1. DOMAIN spent' = Events
    <2>1. DOMAIN spent = Events
      BY DEF CallsInv
    <2>2. "notify" \in Events /\ "delete" \in Events /\ "dberror" \in Events
      BY DEF Events
    <2>3. CASE WriteRows
      BY <2>1, <2>3 DEF WriteRows
    <2>4. CASE FlusherDies
      BY <2>1, <2>2, <2>4, Spending DEF FlusherDies
    <2>5. CASE ~WriteRows /\ ~FlusherDies
      BY <2>1, <2>2, <2>5, Spending DEF Create, NewObject, Delete, EnqueueWaiting, Sweep,
         WriteOutcomes, WriteEnds, vars, esVars
    <2> QED BY <2>3, <2>4, <2>5
  <1>2. queue' = queue \/ \E S : queue' = Enqueued(S)
    BY DEF Create, NewObject, Delete, EnqueueWaiting, Sweep, WriteRows, WriteOutcomes,
       WriteEnds, FlusherDies, EndOperations, vars, esVars
  <1>3. \A op \in queue' : op \in queue \/ ~Known(op)
    BY <1>2 DEF Enqueued
  <1>4. /\ UNCHANGED <<poolVars, executing, executor, target, alias, calls, d, epoch>>
        /\ fd' \in {fd, <<>>}
    BY DEF Create, NewObject, Delete, EnqueueWaiting, Sweep, WriteRows, WriteOutcomes,
       WriteEnds, FlusherDies, vars, esVars
  <1> QED BY <1>1, <1>3, <1>4, EnqueuingKeepsCalls

(* The executor.                                                           *)
LEMMA ExecutorKeepsCalls ==
    ASSUME ServiceInv, CallsInv,
           \/ \E batch \in SUBSET queue : Pop(batch)
           \/ \E w \in Workers : Acquire(w)
           \/ AcquireFails \/ NothingLeft \/ Send \/ SendRaises
    PROVE  CallsInv'
  <1>1. ASSUME NEW batch \in SUBSET queue, Pop(batch)  PROVE CallsInv'
    <2>1. \A i \in Open : calls[i].worker # NoWorker
      BY NoWorkerAssumption DEF Open, ServiceInv, ServiceTypeOK, Call
    <2> QED BY <1>1, <2>1 DEF Pop, CallsInv, NoneLost, CallsOwned, OneCallEach,
            BatchRecorded, CachedOnce, Busy, Open, InPool, poolVars
  <1>2. ASSUME NEW w \in Workers, Acquire(w)  PROVE CallsInv'
    <2> DEFINE slot == [pool[w] EXCEPT !.status = "busy", !.ops = executing,
                                       !.start = "running"]
    <2>1. slot.ops = executing /\ slot.status = "busy" /\ slot.start = "running"
      BY DEF ServiceInv, PlacesInv, PoolTypeOK, Slot
    <2>2. /\ pool' = [pool EXCEPT ![w] = slot] /\ pool \in [Workers -> Slot]
          /\ reverse' = [o \in Operations |-> IF o \in executing THEN w ELSE reverse[o]]
          /\ UNCHANGED <<event, connected, greeting>>
          /\ executor' = "building" /\ target' = w
          /\ UNCHANGED <<queue, executing, alias, calls, d, fd, epoch, spent>>
          /\ ~Busy(w) /\ connected[w]
      BY <1>2 DEF Acquire, AcquireWorker, AvailableWorkers, Busy,
         ServiceInv, PlacesInv, PoolTypeOK
    <2> HIDE DEF slot
    <2>3. \A i \in Open : calls[i].worker # w /\ calls[i].worker \in Workers
      BY <2>2 DEF Open, ServiceInv, ServiceTypeOK, Call, CallsInv, CallsOwned
    <2>4. NoneLost' /\ BatchRecorded'
      BY <2>1, <2>2 DEF CallsInv, NoneLost, BatchRecorded, Busy
    <2>5. CallsOwned' /\ OneCallEach'
      BY <2>2, <2>3 DEF CallsInv, CallsOwned, OneCallEach, Busy, Open
    <2>6. CachedOnce'
      BY <2>2, CachedFunctions
         DEF CallsInv, CachedOnce, InPool, ServiceInv, ServiceTypeOK
    <2> QED BY <2>2, <2>4, <2>5, <2>6 DEF CallsInv
  <1>3. ASSUME AcquireFails \/ NothingLeft  PROVE CallsInv'
    BY <1>3 DEF AcquireFails, NothingLeft, AcquireNone, CallsInv, NoneLost, CallsOwned,
       OneCallEach, BatchRecorded, CachedOnce, Busy, Open, InPool, poolVars, esVars
  <1>4. ASSUME Send  PROVE CallsInv'
    <2> DEFINE k == CHOOSE i \in FreeCall : TRUE
               jobs == [op \in executing |-> epoch[op]]
               call == [worker |-> target,
                        state |-> IF connected[target] /\ RunningOn(target) = {}
                                  THEN "running" ELSE "error",
                        jobs |-> jobs]
    <2>1. k \in CallIds /\ k \notin Open
      BY <1>4 DEF Send, FreeCall, Open
    <2>2. call.worker = target /\ call.jobs = jobs
      OBVIOUS
    <2>3. /\ calls' = [calls EXCEPT ![k] = call] /\ executor = "building"
          /\ executing' = {} /\ executor' = "idle"
          /\ UNCHANGED <<poolVars, queue, alias, d, fd, epoch, spent>>
      BY <1>4 DEF Send
    <2> HIDE DEF k, call
    <2>4. Open' \subseteq Open \cup {k} /\ \A i \in Open' : i # k => calls'[i] = calls[i]
      BY <2>1, <2>3 DEF Open, ServiceInv, ServiceTypeOK
    <2>5. calls'[k] = call
      BY <2>1, <2>3 DEF ServiceInv, ServiceTypeOK
    <2>6. alias = NoWorker /\ target \in Workers
      BY <2>3 DEF ServiceInv, PlacesInv, PlaceTypeOK
    <2>7. CallsOwned'
      <3> SUFFICES ASSUME NEW i \in Open'  PROVE
             /\ pool'[calls'[i].worker].status = "busy" /\ calls'[i].worker # alias'
             /\ \A op \in DOMAIN calls'[i].jobs :
                   /\ op \in pool'[calls'[i].worker].ops
                   /\ \/ calls'[i].jobs[op] = epoch'[op]
                      \/ op \in pool'[calls'[i].worker].toIgnore
        BY <2>3 DEF CallsOwned, Busy
      <3>1. CASE i = k
        BY <2>2, <2>3, <2>5, <2>6, <3>1, NoWorkerAssumption
           DEF CallsInv, BatchRecorded, Busy, poolVars
      <3>2. CASE i # k
        BY <2>3, <2>4, <3>2 DEF CallsInv, CallsOwned, Busy, poolVars
      <3> QED BY <3>1, <3>2
    <2>8. OneCallEach'
      BY <2>2, <2>3, <2>4, <2>5 DEF CallsInv, CallsOwned, OneCallEach
    <2> QED BY <2>3, <2>7, <2>8 DEF CallsInv, NoneLost, BatchRecorded, CachedOnce,
            Busy, InPool, poolVars
  <1>5. ASSUME SendRaises  PROVE CallsInv'
    <2>1. /\ executor = "building" /\ executor' = "idle"
          /\ alias' = IF Busy(target) THEN target ELSE NoWorker
          /\ UNCHANGED <<poolVars, queue, executing, calls, d, fd, epoch>>
      BY <1>5 DEF SendRaises
    <2>2. DOMAIN spent' = Events
      BY <1>5, Spending DEF SendRaises, CallsInv, Events
    <2>3. \A i \in Open : calls[i].worker # NoWorker
      BY NoWorkerAssumption DEF Open, ServiceInv, ServiceTypeOK, Call
    <2> QED BY <2>1, <2>2, <2>3 DEF CallsInv, NoneLost, CallsOwned, OneCallEach,
            BatchRecorded, CachedOnce, Busy, Open, InPool, poolVars
  <1> QED BY <1>1, <1>2, <1>3, <1>4, <1>5

(* What action_finished puts in the cache is what its worker had, and was  *)
(* not invalidated since.                                                  *)
LEMMA Collected ==
    ASSUME ServiceInv, CallsInv, NEW i \in CallIds, ActionFinished(i)
    PROVE  LET w == calls[i].worker
               jobs == calls[i].jobs
           IN  /\ i \in Open /\ w \in Workers /\ ReleaseBusy(w)
               /\ \E S \in SUBSET (pool[w].ops \cap DOMAIN jobs) :
                     /\ d' = [op \in S \cup DOMAIN d |-> IF op \in S THEN jobs[op] ELSE d[op]]
                     /\ \A op \in S : jobs[op] = epoch[op]
  <1> DEFINE w == calls[i].worker
             jobs == calls[i].jobs
             S == IF calls[i].state = "error" THEN {} ELSE Kept(w, DOMAIN jobs)
  <1>1. i \in Open /\ w \in Workers
    BY DEF ActionFinished, Open, ServiceInv, ServiceTypeOK, Call
  <1>2. Busy(w) /\ DOMAIN jobs \subseteq pool[w].ops
        /\ \A op \in DOMAIN jobs : jobs[op] = epoch[op] \/ op \in pool[w].toIgnore
    BY <1>1 DEF CallsInv, CallsOwned
  <1>3. /\ ReleaseBusy(w)
        /\ d' = [op \in S \cup DOMAIN d |-> IF op \in S THEN jobs[op] ELSE d[op]]
    BY <1>2 DEF ActionFinished, ReleaseIdle
  <1>4. S \subseteq DOMAIN jobs /\ \A op \in S : op \notin pool[w].toIgnore
    BY DEF Kept
  <1> HIDE DEF S
  <1>5. /\ S \in SUBSET (pool[w].ops \cap DOMAIN jobs)
        /\ \A op \in S : jobs[op] = epoch[op]
    BY <1>2, <1>4
  <1> QED BY <1>1, <1>3, <1>5

(* The callback of a call.                                                 *)
LEMMA CallbackKeepsCalls ==
    ASSUME ServiceInv, CallsInv, NEW i \in CallIds, ActionFinished(i)
    PROVE  CallsInv'
  <1> DEFINE w == calls[i].worker
             jobs == calls[i].jobs
  <1>1. i \in Open /\ w \in Workers /\ ReleaseBusy(w)
    BY Collected
  <1>2. PICK S \in SUBSET (pool[w].ops \cap DOMAIN jobs) :
           d' = [op \in S \cup DOMAIN d |-> IF op \in S THEN jobs[op] ELSE d[op]]
    BY Collected
  <1>3. w # alias /\ (executor = "building" => w # target)
    BY <1>1 DEF CallsInv, CallsOwned
  <1>4. \A j \in Open : j # i => calls[j].worker # w /\ calls[j].worker \in Workers
    BY <1>1 DEF CallsInv, OneCallEach, Open, ServiceInv, ServiceTypeOK, Call
  <1>5. /\ calls' = [calls EXCEPT ![i] = NoCall]
        /\ UNCHANGED <<queue, executing, executor, target, alias, fd, epoch, spent>>
    BY DEF ActionFinished
  <1>6. Open' = Open \ {i} /\ \A j \in Open' : calls'[j] = calls[j]
    BY <1>5 DEF Open, ServiceInv, ServiceTypeOK
  <1>7. /\ pool' = [pool EXCEPT ![w] = Released(@)] /\ pool \in [Workers -> Slot]
        /\ Released(pool[w]).start = "unset" /\ Released(pool[w]).status # "busy"
        /\ reverse' = Forget({w}) /\ UNCHANGED connected
    BY <1>1 DEF ReleaseBusy, Released, EmptySlot, ServiceInv, PlacesInv, PoolTypeOK
  <1>8. \A op \in pool[w].ops : /\ op \in Operations /\ reverse[op] = w /\ w # NoWorker
                                /\ reverse'[op] = NoWorker
    BY <1>1, <1>7, NoWorkerAssumption
       DEF ServiceInv, PlacesInv, ListsInReverse, PoolTypeOK, Slot, Forget
  <1>9. \A op \in Operations : reverse[op] = NoWorker => reverse'[op] = NoWorker
    BY <1>7 DEF Forget
  <1> HIDE DEF w
  <1>10. NoneLost'
    BY <1>1, <1>7 DEF CallsInv, NoneLost, Busy
  <1>11. CallsOwned' /\ OneCallEach'
    BY <1>4, <1>5, <1>6, <1>7 DEF CallsInv, CallsOwned, OneCallEach, Busy
  <1>12. BatchRecorded'
    BY <1>3, <1>5, <1>7 DEF CallsInv, BatchRecorded, Busy, ServiceInv, PlacesInv, PlaceTypeOK
  <1>13. CachedOnce'
    <2>1. DOMAIN d' = S \cup DOMAIN d
      BY <1>2
    <2>2. \A op \in S : op \notin queue /\ op \notin executing
      BY <1>3, <1>8 DEF ServiceInv, PlacesInv, NotQueuedTwice, ExtractedInPool, InPool
    <2>3. DOMAIN d \subseteq Operations /\ DOMAIN fd \subseteq Operations
      BY CachedFunctions DEF ServiceInv, ServiceTypeOK
    <2> QED BY <1>5, <1>8, <1>9, <2>1, <2>2, <2>3 DEF CallsInv, CachedOnce, InPool
  <1> QED BY <1>5, <1>10, <1>11, <1>12, <1>13 DEF CallsInv

(* An invalidation marks what is with workers.                             *)
LEMMA InvalidationKeepsCalls ==
    ASSUME ServiceInv, CallsInv, NEW x \in Submissions,
           NEW level \in {"compilation", "evaluation"}, InvalidateSubmission(x, level)
    PROVE  CallsInv'
  <1> DEFINE ops == RelevantOperations(level, x)
             stay == executing \ (ops \ queue)
             again == {op \in GetOperations(Blanked(db, x, ops), x) :
                          op \notin stay \cup DOMAIN d \cup DOMAIN fd /\ ~InPool(op)}
  <1>1. /\ queue' = (queue \ ops) \cup again
        /\ executing' = stay
        /\ executor # "building" \/ ops \subseteq queue
        /\ pool' = [w \in Workers |-> [pool[w] EXCEPT
              !.ops = IF w = alias THEN @ \ (executing \ stay) ELSE @,
              !.toIgnore = @ \cup {op \in ops : reverse[op] = w}]]
        /\ epoch' = [op \in Operations |-> IF op \in ops THEN epoch[op] + 1 ELSE epoch[op]]
        /\ UNCHANGED <<reverse, event, connected, greeting, executor, target, alias,
                       calls, d, fd>>
    BY DEF InvalidateSubmission
  <1>2. DOMAIN spent' = Events
    BY Spending DEF InvalidateSubmission, CallsInv, Events
  <1>3. \A op \in again : op \notin DOMAIN d \cup DOMAIN fd
    OBVIOUS
  <1> HIDE DEF ops, again
  <1>4. \A w \in Workers : /\ pool'[w].status = pool[w].status
                           /\ pool'[w].start = pool[w].start
                           /\ w # alias => pool'[w].ops = pool[w].ops
                           /\ pool'[w].toIgnore = pool[w].toIgnore \cup {op \in ops : reverse[op] = w}
    BY <1>1 DEF ServiceInv, PlacesInv, PoolTypeOK, Slot
  <1>5. NoneLost'
    BY <1>1, <1>4 DEF CallsInv, NoneLost, Busy
  <1>6. CallsOwned'
    <2> SUFFICES ASSUME NEW i \in Open  PROVE
           /\ pool'[calls[i].worker].status = "busy" /\ calls[i].worker # alias
           /\ executor = "building" => calls[i].worker # target
           /\ \A op \in DOMAIN calls[i].jobs :
                 /\ op \in pool'[calls[i].worker].ops
                 /\ \/ calls[i].jobs[op] = epoch'[op]
                    \/ op \in pool'[calls[i].worker].toIgnore
      BY <1>1 DEF CallsOwned, Open, Busy
    <2> DEFINE w == calls[i].worker
    <2>1. w \in Workers /\ Busy(w) /\ w # alias /\ (executor = "building" => w # target)
      BY DEF Open, ServiceInv, ServiceTypeOK, Call, CallsInv, CallsOwned
    <2>2. ASSUME NEW op \in DOMAIN calls[i].jobs
          PROVE  /\ op \in pool'[w].ops
                 /\ calls[i].jobs[op] = epoch'[op] \/ op \in pool'[w].toIgnore
      <3>1. op \in pool[w].ops /\ (calls[i].jobs[op] = epoch[op] \/ op \in pool[w].toIgnore)
        BY DEF CallsInv, CallsOwned
      <3>2. op \in Operations /\ reverse[op] = w
        BY <2>1, <3>1 DEF ServiceInv, PlacesInv, PoolTypeOK, Slot, ListsInReverse
      <3> QED BY <1>1, <1>4, <2>1, <3>1, <3>2
    <2> QED BY <1>4, <2>1, <2>2 DEF Busy
  <1>7. OneCallEach'
    BY <1>1 DEF CallsInv, OneCallEach, Open
  <1>8. BatchRecorded'
    BY <1>1, <1>4, NoWorkerAssumption
       DEF CallsInv, BatchRecorded, Busy, ServiceInv, PlacesInv, PlaceTypeOK
  <1>9. CachedOnce'
    BY <1>1, <1>3 DEF CallsInv, CachedOnce, InPool
  <1> QED BY <1>2, <1>5, <1>6, <1>7, <1>8, <1>9 DEF CallsInv

(* The other steps.                                                        *)
LEMMA OthersKeepCalls ==
    ASSUME ServiceInv, CallsInv, NotReleasedEarly, NotReleasedEarly',
           \/ \E i \in CallIds : WorkerAnswers(i)
           \/ \E w \in Workers : WorkerConnects(w) \/ WorkerGreeted(w)
                  \/ WorkerDisconnects(w) \/ WorkerExpires(w)
                  \/ DisableWorkerRPC(w) \/ EnableWorkerRPC(w)
           \/ CheckWorkersTimeout \/ CheckWorkersConnection \/ Flush \/ Crash
    PROVE  CallsInv'
  <1>1. ASSUME NEW i \in CallIds, WorkerAnswers(i)  PROVE CallsInv'
    <2>1. DOMAIN spent' = Events
      BY <1>1, Spending DEF WorkerAnswers, CallsInv, Events
    <2>2. UNCHANGED <<poolVars, queue, executing, executor, target, alias, d, fd, epoch>>
      BY <1>1 DEF WorkerAnswers
    <2>3. \E s : calls' = [calls EXCEPT ![i].state = s]
      BY <1>1 DEF WorkerAnswers
    <2>4. i \in Open /\ calls[i] \in Call
      BY <1>1 DEF WorkerAnswers, Open, ServiceInv, ServiceTypeOK
    <2>5. /\ calls'[i].worker = calls[i].worker /\ calls'[i].jobs = calls[i].jobs
          /\ \A j \in CallIds : j # i => calls'[j] = calls[j]
      BY <2>3, <2>4 DEF Call, ServiceInv, ServiceTypeOK
    <2>6. /\ Open' \subseteq Open
          /\ \A j \in Open' : calls'[j].worker = calls[j].worker /\ calls'[j].jobs = calls[j].jobs
      BY <2>4, <2>5 DEF Open
    <2>7. CallsOwned' /\ OneCallEach'
      BY <2>2, <2>6 DEF CallsInv, CallsOwned, OneCallEach, Busy, poolVars
    <2> QED BY <2>1, <2>2, <2>7 DEF CallsInv, NoneLost, BatchRecorded, CachedOnce,
            Busy, InPool, poolVars
  <1>2. ASSUME NEW w \in Workers, WorkerDisconnects(w) \/ WorkerExpires(w) \/ DisableWorkerRPC(w)
        PROVE  FALSE
    BY <1>2, Spending DEF WorkerDisconnects, WorkerExpires, DisableWorkerRPC,
       NotReleasedEarly, CallsInv, Events
  <1>3. ASSUME CheckWorkersTimeout \/ CheckWorkersConnection  PROVE FALSE
    BY <1>3 DEF CheckWorkersTimeout, CheckWorkersConnection, TimedOut, Unreachable,
       CallsInv, NoneLost, PoolTypeOK
  <1>4. ASSUME NEW w \in Workers, WorkerConnects(w) \/ WorkerGreeted(w)  PROVE CallsInv'
    <2>1. /\ UNCHANGED <<pool, reverse, esVars>>
          /\ \A v \in Workers : connected[v] => connected'[v]
      BY <1>4 DEF WorkerConnects, WorkerGreeted, Connect, OnWorkerConnected, ServiceInv,
         PlacesInv, PoolTypeOK
    <2> QED BY <2>1 DEF CallsInv, NoneLost, CallsOwned, OneCallEach, BatchRecorded,
            CachedOnce, Busy, Open, InPool, esVars
  <1>5. ASSUME NEW w \in Workers, EnableWorkerRPC(w)  PROVE CallsInv'
    <2>1. /\ ~Busy(w) /\ ~Busy(w)' /\ UNCHANGED <<reverse, connected, esVars>>
          /\ \A v \in Workers : v # w => pool'[v] = pool[v]
          /\ pool'[w].start = pool[w].start
      BY <1>5 DEF EnableWorkerRPC, EnableWorker, Busy, ServiceInv, PlacesInv, PoolTypeOK, Slot
    <2>2. \A i \in Open : calls[i].worker \in Workers \ {w}
      BY <2>1 DEF Open, CallsInv, CallsOwned, ServiceInv, ServiceTypeOK, Call
    <2>3. executor = "building" => target \in Workers \ {w}
      BY <2>1 DEF CallsInv, BatchRecorded, ServiceInv, PlacesInv, PlaceTypeOK
    <2>4. NoneLost'
      BY <2>1 DEF CallsInv, NoneLost, Busy
    <2>5. CallsOwned' /\ OneCallEach' /\ BatchRecorded'
      BY <2>1, <2>2, <2>3 DEF CallsInv, CallsOwned, OneCallEach, BatchRecorded, Busy, Open, esVars
    <2> QED BY <2>1, <2>4, <2>5 DEF CallsInv, CachedOnce, InPool, esVars
  <1>6. ASSUME Flush  PROVE CallsInv'
    BY <1>6, CachedFunctions DEF Flush, CallsInv, NoneLost, CallsOwned, OneCallEach,
       BatchRecorded, CachedOnce, Busy, Open, InPool, poolVars
  <1>7. ASSUME Crash  PROVE CallsInv'
    <2>1. DOMAIN spent' = Events
      BY <1>7, Spending DEF Crash, CallsInv, Events
    <2>2. Open' = {}
      BY <1>7 DEF Crash, Open
    <2> QED BY <1>7, <2>1, <2>2, CachedFunctions DEF Crash, Restart, EmptySlot, CallsInv,
            NoneLost, CallsOwned, OneCallEach, BatchRecorded, CachedOnce, Busy
  <1> QED BY <1>1, <1>2, <1>3, <1>4, <1>5, <1>6, <1>7

LEMMA InitCallsInv == Init => CallsInv
  BY CachedFunctions DEF Init, PoolInit, EmptySlot, CallsInv, NoneLost, CallsOwned,
     OneCallEach, BatchRecorded, CachedOnce, Busy, Open

LEMMA NextCallsInv ==
    ServiceInv /\ CallsInv /\ NotReleasedEarly /\ NotReleasedEarly' /\ [Next]_vars => CallsInv'
  BY EnqueuesKeepCalls, ExecutorKeepsCalls, CallbackKeepsCalls, InvalidationKeepsCalls,
     OthersKeepCalls DEF Next

(* The four states of the comment on post_finish_lock exclude each other.  *)
(* action_finished moves an operation from the pool to the cache in one    *)
(* step, enqueue and invalidate_submission look in all four places, and    *)
(* the executor, which takes no lock, only moves what nobody else has.     *)
THEOREM OperationsHaveOnePlace == Spec /\ []NotReleasedEarly => []OnePlace
  <1>1. ServiceInv /\ CallsInv => OnePlace
    BY DEF ServiceInv, PlacesInv, NotQueuedTwice, ExtractedInPool, QueuedOnce, CallsInv,
       OnePlace
  <1> QED BY <1>1, InitServiceInv, NextServiceInv, InitCallsInv, NextCallsInv, PTL DEF Spec

(* A result of before an invalidation never enters the cache: either the   *)
(* operation was marked in the pool, or it was built again since.          *)
THEOREM OutdatedResultsAreDropped ==
    Spec /\ []NotReleasedEarly => NoOutdatedResultAccepted
  <1>1. ServiceInv /\ CallsInv /\ NotReleasedEarly /\ NotReleasedEarly' /\ [Next]_vars
        => [\A op \in DOMAIN d' : op \notin DOMAIN d => d'[op] = epoch[op]]_vars
    <2> SUFFICES ASSUME ServiceInv, CallsInv, Next
                 PROVE  \A op \in DOMAIN d' : op \notin DOMAIN d => d'[op] = epoch[op]
      OBVIOUS
    <2>1. ASSUME NEW i \in CallIds, ActionFinished(i)
          PROVE  \A op \in DOMAIN d' : op \notin DOMAIN d => d'[op] = epoch[op]
      BY <2>1, Collected
    <2>2. CASE ~\E i \in CallIds : ActionFinished(i)
      <3>1. d' \in {d, <<>>}
        BY <2>2 DEF Next, Pop, Acquire, WorkerConnects, WorkerGreeted, WorkerExpires,
           DisableWorkerRPC, EnableWorkerRPC, AcquireFails, NothingLeft, SendRaises, Send,
           WorkerAnswers, WorkerDisconnects, CheckWorkersTimeout,
           CheckWorkersConnection, EnqueueWaiting, Create, NewObject, Delete, Sweep,
           InvalidateSubmission, Flush, WriteRows, WriteOutcomes, WriteEnds, FlusherDies,
           Crash, esVars
      <3> QED BY <3>1, CachedFunctions
    <2> QED BY <2>1, <2>2
  <1> QED BY <1>1, InitServiceInv, NextServiceInv, InitCallsInv, NextCallsInv, PTL
          DEF Spec, NoOutdatedResultAccepted

-----------------------------------------------------------------------------
(* The end of a match. PvPService hears of it when write_results finds the *)
(* match complete, or when new_match does; that they do not both find it   *)
(* rests on a match whose game is stored being nowhere but, until the      *)
(* flush ends, in the flushed part of the cache.                           *)
MatchOp(m) == <<"evaluate", m, NoTestcase>>

Elsewhere(op) == op \notin queue \cup executing \cup DOMAIN d /\ ~InPool(op)

MatchOK(m) ==
    /\ ended[m] \in {0, 1}
    /\ status[m] = "absent" =>
          ended[m] = 0 /\ db.outcome[MatchOp(m)] = "none" /\ ~db.evaluated[m]
    /\ status[m] = "present" =>
          /\ ended[m] = 1 => db.evaluated[m]
          /\ db.outcome[MatchOp(m)] # "none" =>
                /\ Elsewhere(MatchOp(m))
                /\ MatchOp(m) \in DOMAIN fd => flusher \in {"rows", "outcomes", "dead"}
          /\ ended[m] = 1 /\ MatchOp(m) \in DOMAIN fd => flusher = "dead"

MatchInv ==
    /\ \A m \in Matches : MatchOK(m)
    /\ \A m \in Matches : MatchOp(m) \notin waiting
    /\ DOMAIN d \cap DOMAIN fd = {}

(* A match has one operation, and no other object has it.                  *)
LEMMA MatchOperation ==
    ASSUME NEW m \in Matches
    PROVE  /\ m \in Objects /\ m \notin Submissions /\ m \notin UserTests
           /\ Evaluations(m) = {MatchOp(m)} /\ OperationsOf(m) = {MatchOp(m)}
           /\ MatchOp(m) \in Operations /\ ObjectOf(MatchOp(m)) = m
           /\ ~IsCompilation(MatchOp(m))
           /\ \A x \in Objects : MatchOp(m) \in OperationsOf(x) => x = m
           /\ \A op \in Operations : ObjectOf(op) = m => op = MatchOp(m)
  <1>1. m \in Objects /\ m \notin Submissions /\ m \notin UserTests
    BY ObjectsAssumption DEF Objects
  <1>2. Evaluations(m) = {MatchOp(m)} /\ OperationsOf(m) = {MatchOp(m)}
    BY <1>1 DEF Evaluations, OperationsOf, Compilations, MatchOp
  <1>3. MatchOp(m) \in Operations /\ ObjectOf(MatchOp(m)) = m
    BY <1>1, <1>2, OwnOperations, ServiceAssumption
  <1>4. ~IsCompilation(MatchOp(m))
    BY DEF MatchOp, IsCompilation
  <1>5. \A x \in Objects : MatchOp(m) \in OperationsOf(x) => x = m
    BY <1>3, OwnOperations
  <1>6. \A op \in Operations : ObjectOf(op) = m => op = MatchOp(m)
    BY <1>2, ObjectsOperation, ServiceAssumption
  <1> QED BY <1>1, <1>2, <1>3, <1>4, <1>5, <1>6

(* An object asks for its own operations only, and a match only for one    *)
(* that is not stored.                                                     *)
LEMMA AskedOperations ==
    ASSUME NEW data, NEW x \in Objects, NEW m \in Matches,
           \/ MatchOp(m) \in GetOperations(data, x)
           \/ MatchOp(m) \in SweptOperations(data, x)
    PROVE  x = m /\ data.outcome[MatchOp(m)] = "none"
  <1>1. \A y \in Objects : Unevaluated(data, y) \subseteq OperationsOf(y)
    BY DEF Unevaluated, OperationsOf
  <1>2. \A k, n : \A y \in Objects : WithTries(data, y, k, n) \subseteq OperationsOf(y)
    BY <1>1 DEF WithTries, ToCompile, OperationsOf, Compilations
  <1>3. x = m
    BY <1>1, <1>2, MatchOperation DEF GetOperations, SweptOperations
  <1>4. MatchOp(m) \in Unevaluated(data, m)
    BY <1>3, MatchOperation DEF GetOperations, SweptOperations, WithTries, ToCompile
  <1> QED BY <1>3, <1>4 DEF Unevaluated

(* What blanking another object and marking objects do to a match.         *)
LEMMA BlankedMatches ==
    ASSUME NEW data \in GoodDB, NEW x \in Objects, NEW ops \in SUBSET OperationsOf(x),
           NEW m \in Matches, m # x
    PROVE  /\ Blanked(data, x, ops).outcome[MatchOp(m)] = data.outcome[MatchOp(m)]
           /\ Blanked(data, x, ops).evaluated[m] = data.evaluated[m]
  <1> DEFINE new == Blanked(data, x, ops)
  <1>1. /\ new.outcome =
              [op \in ESOperation |-> IF op \in ops THEN "none" ELSE data.outcome[op]]
        /\ new.evaluated = [data.evaluated EXCEPT ![x] = FALSE]
    BY BlankedIsGood
  <1>2. MatchOp(m) \in ESOperation /\ MatchOp(m) \notin ops /\ m \in Objects
    BY MatchOperation, ServiceAssumption
  <1> HIDE DEF new
  <1>3. new.outcome[MatchOp(m)] = data.outcome[MatchOp(m)] /\ new.evaluated[m] = data.evaluated[m]
    BY <1>1, <1>2 DEF GoodDB, DB
  <1> QED BY <1>3 DEF new

LEMMA MarkedMatches ==
    ASSUME NEW data \in GoodDB, NEW X, NEW m \in Matches
    PROVE  /\ SetEvaluationOutcome(data, X).outcome[MatchOp(m)] = data.outcome[MatchOp(m)]
           /\ SetEvaluationOutcome(data, X).evaluated[m]
                 <=> data.evaluated[m] \/ (m \in X /\ data.outcome[MatchOp(m)] # "none")
  <1> DEFINE new == SetEvaluationOutcome(data, X)
  <1>1. /\ new.outcome = data.outcome
        /\ new.evaluated =
              [x \in Objects |-> data.evaluated[x] \/ (x \in X /\ AllEvaluated(data, x))]
    BY OutcomeIsGood
  <1>2. m \in Objects /\ (AllEvaluated(data, m) <=> data.outcome[MatchOp(m)] # "none")
    BY MatchOperation DEF AllEvaluated, Unevaluated
  <1> HIDE DEF new
  <1>3. /\ new.outcome[MatchOp(m)] = data.outcome[MatchOp(m)]
        /\ new.evaluated[m] <=> data.evaluated[m] \/ (m \in X /\ data.outcome[MatchOp(m)] # "none")
    BY <1>1, <1>2
  <1> QED BY <1>3 DEF new

(* What is stored of a match moves when nothing but its places can.        *)
LEMMA StoredMatchesRest ==
    ASSUME MatchInv, UNCHANGED <<db, status, ended, fd, flusher>>,
           \A m \in Matches : db.outcome[MatchOp(m)] # "none" /\ status[m] = "present"
                              /\ Elsewhere(MatchOp(m)) => Elsewhere(MatchOp(m))',
           \A m \in Matches : MatchOp(m) \notin waiting',
           DOMAIN d' \cap DOMAIN fd = {}
    PROVE  MatchInv'
  BY DEF MatchInv, MatchOK, MatchOp

(* The executor, the workers and the callbacks.                            *)
LEMMA MovesKeepMatches ==
    ASSUME ServiceInv, CallsInv, NotReleasedEarly, NotReleasedEarly', MatchInv,
           \/ \E batch \in SUBSET queue : Pop(batch)
           \/ \E w \in Workers : Acquire(w)
           \/ AcquireFails \/ NothingLeft \/ Send \/ SendRaises
           \/ \E i \in CallIds : WorkerAnswers(i) \/ ActionFinished(i)
           \/ \E w \in Workers : WorkerConnects(w) \/ WorkerGreeted(w)
                  \/ WorkerDisconnects(w) \/ WorkerExpires(w)
                  \/ DisableWorkerRPC(w) \/ EnableWorkerRPC(w)
           \/ CheckWorkersTimeout \/ CheckWorkersConnection
           \/ UNCHANGED vars
    PROVE  MatchInv'
  <1> DEFINE Rests == /\ UNCHANGED <<db, status, ended, fd, flusher, waiting>>
                      /\ \A op \in Operations : Elsewhere(op) => Elsewhere(op)'
                      /\ DOMAIN d' \cap DOMAIN fd = {}
  <1>1. SUFFICES Rests
    BY StoredMatchesRest, MatchOperation DEF MatchInv
  <1>2. DOMAIN d \cap DOMAIN fd = {}
    BY DEF MatchInv
  <1>3. ASSUME NEW batch \in SUBSET queue, Pop(batch)  PROVE Rests
    BY <1>2, <1>3 DEF Pop, Elsewhere, InPool, poolVars
  <1>4. ASSUME NEW w \in Workers, Acquire(w)  PROVE Rests
    BY <1>2, <1>4 DEF Acquire, AcquireWorker, Elsewhere, InPool
  <1>5. ASSUME AcquireFails \/ NothingLeft \/ Send \/ SendRaises  PROVE Rests
    BY <1>2, <1>5 DEF AcquireFails, AcquireNone, NothingLeft, Send, SendRaises, Elsewhere,
       InPool, poolVars, esVars
  <1>6. ASSUME NEW i \in CallIds, WorkerAnswers(i)  PROVE Rests
    BY <1>2, <1>6 DEF WorkerAnswers, Elsewhere, InPool, poolVars
  <1>7. ASSUME NEW i \in CallIds, ActionFinished(i)  PROVE Rests
    <2> DEFINE w == calls[i].worker
    <2>1. w \in Workers /\ reverse' = Forget({w})
      BY <1>7, Collected DEF ReleaseBusy
    <2>2. PICK S \in SUBSET pool[w].ops : DOMAIN d' = S \cup DOMAIN d
      BY <1>7, Collected
    <2>3. \A op \in S : InPool(op)
      BY <2>1, NoWorkerAssumption
         DEF ServiceInv, PlacesInv, PoolTypeOK, Slot, ListsInReverse, InPool
    <2>4. DOMAIN d' \cap DOMAIN fd = {}
      BY <1>2, <2>2, <2>3 DEF CallsInv, CachedOnce
    <2>5. \A op \in Operations : ~InPool(op) => ~InPool(op)'
      BY <2>1 DEF InPool, Forget
    <2>6. UNCHANGED <<db, status, ended, fd, flusher, waiting, queue, executing>>
      BY <1>7 DEF ActionFinished
    <2> QED BY <2>2, <2>3, <2>4, <2>5, <2>6 DEF Elsewhere
  <1>8. ASSUME NEW w \in Workers,
               WorkerConnects(w) \/ WorkerGreeted(w) \/ EnableWorkerRPC(w)
        PROVE  Rests
    BY <1>2, <1>8 DEF WorkerConnects, WorkerGreeted, EnableWorkerRPC, Connect,
       OnWorkerConnected, EnableWorker, Elsewhere, InPool, esVars
  <1>9. ASSUME NEW w \in Workers, WorkerDisconnects(w) \/ WorkerExpires(w) \/ DisableWorkerRPC(w)
        PROVE  FALSE
    BY <1>9, Spending DEF WorkerDisconnects, WorkerExpires, DisableWorkerRPC,
       NotReleasedEarly, CallsInv, Events
  <1>10. ASSUME CheckWorkersTimeout \/ CheckWorkersConnection  PROVE FALSE
    BY <1>10 DEF CheckWorkersTimeout, CheckWorkersConnection, TimedOut, Unreachable,
       CallsInv, NoneLost
  <1>11. ASSUME UNCHANGED vars  PROVE Rests
    BY <1>2, <1>11 DEF vars, poolVars, esVars, Elsewhere, InPool
  <1> QED BY <1>3, <1>4, <1>5, <1>6, <1>7, <1>8, <1>9, <1>10, <1>11

(* The requests, the sweeper and a restart.                                *)
LEMMA RequestsKeepMatches ==
    ASSUME ServiceInv, MatchInv,
           \/ \E op \in Operations : EnqueueWaiting(op)
           \/ \E x \in Objects : Create(x) \/ NewObject(x) \/ Delete(x)
           \/ Sweep
           \/ \E x \in Submissions, level \in {"compilation", "evaluation"} :
                 InvalidateSubmission(x, level)
           \/ Crash
    PROVE  MatchInv'
  <1> USE DEF ServiceInv
  <1>1. ASSUME NEW op \in Operations, EnqueueWaiting(op)  PROVE MatchInv'
    <2>1. \A m \in Matches : op # MatchOp(m)
      BY <1>1 DEF EnqueueWaiting, MatchInv
    <2>2. \A m \in Matches : Elsewhere(MatchOp(m)) => Elsewhere(MatchOp(m))'
      BY <1>1, <2>1 DEF EnqueueWaiting, Enqueued, Elsewhere, InPool, poolVars, MatchOp
    <2> QED BY <1>1, <2>2, StoredMatchesRest DEF EnqueueWaiting, MatchInv
  <1>2. ASSUME Sweep  PROVE MatchInv'
    <2>1. ASSUME NEW m \in Matches, db.outcome[MatchOp(m)] # "none", Elsewhere(MatchOp(m))
          PROVE  Elsewhere(MatchOp(m))'
      <3>1. MatchOp(m) \notin UNION {SweptOperations(db, x) : x \in Existing(Objects)}
        BY <2>1, AskedOperations DEF Existing
      <3> QED BY <1>2, <2>1, <3>1 DEF Sweep, Enqueued, Elsewhere, InPool, poolVars, MatchOp
    <2> QED BY <1>2, <2>1, StoredMatchesRest DEF Sweep, MatchInv
  <1>3. ASSUME NEW x \in Objects, Create(x)  PROVE MatchInv'
    <2>1. /\ status' = [status EXCEPT ![x] = "present"] /\ status[x] = "absent"
          /\ UNCHANGED <<db, ended, fd, flusher, queue, executing, d, reverse, waiting>>
      BY <1>3 DEF Create, poolVars
    <2>2. \A m \in Matches : m \in Objects
      BY MatchOperation
    <2> QED BY <2>1, <2>2 DEF MatchInv, MatchOK, Elsewhere, InPool, ServiceTypeOK, MatchOp
  <1>4. ASSUME NEW x \in Objects, Delete(x)  PROVE MatchInv'
    <2>1. /\ status' = [status EXCEPT ![x] = "deleted"]
          /\ db' = Blanked(db, x, OperationsOf(x))
          /\ UNCHANGED <<ended, fd, flusher, queue, executing, d, reverse, waiting>>
      BY <1>4 DEF Delete, poolVars
    <2>2. ASSUME NEW m \in Matches, m # x
          PROVE  /\ db'.outcome[MatchOp(m)] = db.outcome[MatchOp(m)]
                 /\ db'.evaluated[m] = db.evaluated[m]
      BY <2>1, <2>2, BlankedMatches
    <2>3. \A m \in Matches : m \in Objects
      BY MatchOperation
    <2> QED BY <2>1, <2>2, <2>3 DEF MatchInv, MatchOK, Elsewhere, InPool, ServiceTypeOK, MatchOp
  <1>5. ASSUME NEW x \in Submissions, NEW level \in {"compilation", "evaluation"},
               InvalidateSubmission(x, level)
        PROVE  MatchInv'
    <2> DEFINE ops == RelevantOperations(level, x)
    <2>1. x \in Objects /\ ops \in SUBSET OperationsOf(x) /\ x \notin Matches
      BY ObjectsAssumption DEF Objects, RelevantOperations, OperationsOf
    <2>2. /\ db' = Blanked(db, x, ops)
          /\ queue' \subseteq queue \cup GetOperations(db', x)
          /\ executing' \subseteq executing
          /\ UNCHANGED <<reverse, d, fd, flusher, waiting, status, ended>>
      BY <1>5 DEF InvalidateSubmission
    <2> HIDE DEF ops
    <2>3. ASSUME NEW m \in Matches
          PROVE  /\ db'.outcome[MatchOp(m)] = db.outcome[MatchOp(m)]
                 /\ db'.evaluated[m] = db.evaluated[m]
                 /\ MatchOp(m) \notin GetOperations(db', x)
      BY <2>1, <2>2, BlankedMatches, AskedOperations
    <2>4. \A m \in Matches : Elsewhere(MatchOp(m)) => Elsewhere(MatchOp(m))'
      BY <2>2, <2>3 DEF Elsewhere, InPool, MatchOp
    <2> QED BY <2>2, <2>3, <2>4 DEF MatchInv, MatchOK, MatchOp
  <1>6. ASSUME NEW x \in Objects, NewObject(x)  PROVE MatchInv'
    <2>1. /\ db' = SetEvaluationOutcome(db, ToFinalize(db, {x}))
          /\ ended' = Notified(ToFinalize(db, {x}))
          /\ status[x] = "present"
          /\ x \in Matches => LockFree
          /\ UNCHANGED <<reverse, executing, d, fd, flusher, status>>
      BY <1>6 DEF NewObject, poolVars
    <2>2. ASSUME NEW m \in Matches
          PROVE  /\ db'.outcome[MatchOp(m)] = db.outcome[MatchOp(m)]
                 /\ db'.evaluated[m] <=> db.evaluated[m] \/ (m \in ToFinalize(db, {x})
                                            /\ db.outcome[MatchOp(m)] # "none")
                 /\ ended'[m] = IF m \in ToFinalize(db, {x}) THEN ended[m] + 1 ELSE ended[m]
                 /\ m \in ToFinalize(db, {x}) => m = x /\ ~db.evaluated[m]
                                                 /\ db.outcome[MatchOp(m)] # "none"
      <3>1. m \in ToFinalize(db, {x}) => m = x /\ ~db.evaluated[m] /\ Unevaluated(db, m) = {}
        BY MatchOperation DEF ToFinalize, ToEvaluate, GetOperations
      <3>2. m \in ToFinalize(db, {x}) => db.outcome[MatchOp(m)] # "none"
        BY <3>1, MatchOperation DEF Unevaluated
      <3> QED BY <2>1, <3>1, <3>2, MarkedMatches DEF Notified
    <2>3. queue' \subseteq queue \cup GetOperations(db, x)
      BY <1>6 DEF NewObject, Enqueued
    <2>4. ASSUME NEW m \in Matches, db.outcome[MatchOp(m)] # "none", Elsewhere(MatchOp(m))
          PROVE  Elsewhere(MatchOp(m))'
      BY <2>1, <2>3, <2>4, AskedOperations DEF Elsewhere, InPool, MatchOp
    <2>5. ASSUME NEW m \in Matches  PROVE MatchOp(m) \notin waiting'
      BY <1>6, <2>5, AskedOperations DEF NewObject, MatchInv
    <2>6. ASSUME NEW m \in Matches  PROVE MatchOK(m)'
      <3>1. CASE m \notin ToFinalize(db, {x})
        BY <2>1, <2>2, <2>4, <3>1 DEF MatchInv, MatchOK, MatchOp
      <3>2. CASE m \in ToFinalize(db, {x})
        <4>1. /\ m = x /\ ~db.evaluated[m] /\ db'.evaluated[m]
              /\ db.outcome[MatchOp(m)] # "none" /\ ended'[m] = ended[m] + 1
          BY <2>2, <3>2
        <4>2. ended[m] = 0 /\ ended'[m] = 1
          BY <2>1, <4>1 DEF MatchInv, MatchOK
        <4> QED BY <2>1, <2>2, <2>4, <4>1, <4>2 DEF MatchInv, MatchOK, MatchOp, LockFree
      <3> QED BY <3>1, <3>2
    <2> QED BY <2>1, <2>5, <2>6 DEF MatchInv
  <1>7. ASSUME Crash  PROVE MatchInv'
    <2>1. /\ UNCHANGED <<db, status, ended>> /\ waiting' = {}
          /\ DOMAIN fd' = {} /\ DOMAIN d' = {}
          /\ \A m \in Matches : Elsewhere(MatchOp(m))'
      BY <1>7, CachedFunctions, MatchOperation
         DEF Crash, Restart, Elsewhere, InPool, MatchOp
    <2> QED BY <2>1 DEF MatchInv, MatchOK, MatchOp
  <1> QED BY <1>1, <1>2, <1>3, <1>4, <1>5, <1>6, <1>7

(* The flushing of the cache.                                              *)
LEMMA FlushKeepsMatches ==
    ASSUME ServiceInv, CallsInv, MatchInv,
           Flush \/ WriteRows \/ WriteOutcomes
    PROVE  MatchInv'
  <1> USE DEF ServiceInv
  <1>1. ASSUME Flush  PROVE MatchInv'
    <2>1. /\ fd' = d /\ DOMAIN d' = {} /\ flusher' = "flushing"
          /\ UNCHANGED <<reverse, queue, executing, waiting, db, status, ended>>
      BY <1>1, CachedFunctions DEF Flush, poolVars
    <2>2. ASSUME NEW m \in Matches  PROVE MatchOK(m)'
      <3>1. db.evaluated[m] => db.outcome[MatchOp(m)] # "none"
        BY MatchOperation DEF GoodDB, Complete, Unevaluated
      <3>2. Elsewhere(MatchOp(m)) => Elsewhere(MatchOp(m))' /\ MatchOp(m) \notin DOMAIN fd'
        BY <2>1 DEF Elsewhere, InPool, MatchOp
      <3> QED BY <2>1, <3>1, <3>2 DEF MatchInv, MatchOK, MatchOp
    <2> QED BY <2>1, <2>2 DEF MatchInv
  <1>2. ASSUME WriteRows  PROVE MatchInv'
    <2> DEFINE S == {op \in DOMAIN fd : status[ObjectOf(op)] = "present"}
    <2>1. db' \in GoodDB /\ OnlyAdds(db, db', S)
      BY <1>2, RowsWritten
    <2>2. /\ flusher = "flushing" /\ flusher' = "rows"
          /\ UNCHANGED <<reverse, executing, d, fd, waiting, status, ended>>
      BY <1>2 DEF WriteRows, poolVars
    <2>3. \E X \in SUBSET Submissions :
             queue' = Enqueued(UNION {GetOperations(db', x) : x \in X})
      BY <1>2 DEF WriteRows, Existing
    <2>4. ASSUME NEW m \in Matches  PROVE MatchOp(m) \in queue' => MatchOp(m) \in queue
      BY <2>3, AskedOperations, MatchOperation DEF Enqueued, Objects
    <2>5. ASSUME NEW m \in Matches
          PROVE  /\ db'.evaluated[m] = db.evaluated[m]
                 /\ MatchOp(m) \notin S => db'.outcome[MatchOp(m)] = db.outcome[MatchOp(m)]
                 /\ MatchOp(m) \in S => status[m] = "present" /\ MatchOp(m) \in DOMAIN fd
      BY <2>1, <2>5, MatchOperation DEF OnlyAdds
    <2> HIDE DEF S
    <2>6. ASSUME NEW m \in Matches  PROVE MatchOK(m)'
      <3>1. CASE MatchOp(m) \notin S
        <4>1. Elsewhere(MatchOp(m)) => Elsewhere(MatchOp(m))'
          BY <2>2, <2>4 DEF Elsewhere, InPool, MatchOp
        <4> QED BY <2>2, <2>5, <3>1, <4>1 DEF MatchInv, MatchOK, MatchOp
      <3>2. CASE MatchOp(m) \in S
        <4>1. /\ status[m] = "present" /\ MatchOp(m) \in DOMAIN fd
              /\ MatchOp(m) \notin DOMAIN d
          BY <2>5, <3>2 DEF MatchInv
        <4>2. MatchOp(m) \notin queue \cup executing /\ ~InPool(MatchOp(m))
          BY <4>1 DEF CallsInv, CachedOnce
        <4>3. Elsewhere(MatchOp(m))'
          BY <2>2, <2>4, <4>1, <4>2 DEF Elsewhere, InPool, MatchOp
        <4> QED BY <2>2, <2>5, <4>1, <4>3 DEF MatchInv, MatchOK, MatchOp
      <3> QED BY <3>1, <3>2
    <2> QED BY <2>2, <2>6 DEF MatchInv
  <1>3. ASSUME WriteOutcomes  PROVE MatchInv'
    <2>1. /\ db' = SetEvaluationOutcome(db, Existing(Flushed(FALSE)))
          /\ flusher = "rows" /\ flusher' = "outcomes"
          /\ UNCHANGED <<reverse, queue, executing, d, fd, waiting, status, ended>>
      BY <1>3 DEF WriteOutcomes, poolVars
    <2>2. ASSUME NEW m \in Matches  PROVE MatchOK(m)'
      <3>1. /\ db'.outcome[MatchOp(m)] = db.outcome[MatchOp(m)]
            /\ db'.evaluated[m] <=> db.evaluated[m] \/ (m \in Existing(Flushed(FALSE))
                                       /\ db.outcome[MatchOp(m)] # "none")
        BY <2>1, MarkedMatches
      <3>2. Elsewhere(MatchOp(m)) => Elsewhere(MatchOp(m))'
        BY <2>1 DEF Elsewhere, InPool, MatchOp
      <3> QED BY <2>1, <3>1, <3>2 DEF MatchInv, MatchOK, MatchOp, Existing
    <2> QED BY <2>1, <2>2 DEF MatchInv
  <1> QED BY <1>1, <1>2, <1>3

(* The last pass: the matches it ends are in the flushed results, and were *)
(* not ended before.                                                       *)
LEMMA EndsKeepMatches ==
    ASSUME ServiceInv, MatchInv, WriteEnds \/ FlusherDies
    PROVE  MatchInv'
  <1> USE DEF ServiceInv
  <1> DEFINE objects == Flushed(TRUE) \cup Flushed(FALSE)
  <1>1. ASSUME flusher = "outcomes", NEW X \in SUBSET Existing(objects), EndOperations(X),
               UNCHANGED <<reverse, executing, d, waiting, status>>,
               \/ DOMAIN fd' = {}
               \/ fd' = fd /\ flusher' = "dead"
        PROVE  MatchInv'
    <2> DEFINE over == {x \in X : x \in Flushed(TRUE) \cup UserTests \/ db.evaluated[x]}
               E == {m \in over \cap Matches : db.evaluated[m]}
    <2>1. /\ queue' = Enqueued(UNION {GetOperations(db, x) : x \in over})
          /\ ended' = Notified(E)
          /\ db' = SetEvaluationOutcome(db, ToFinalize(db, over))
      BY <1>1 DEF EndOperations
    <2>2. over \subseteq objects /\ over \subseteq Objects
          /\ \A x \in over : status[x] = "present"
      BY FlushedObjects DEF Existing
    <2>3. E \subseteq over /\ \A m \in E : db.evaluated[m]
      OBVIOUS
    <2> HIDE DEF over, E
    <2>4. ASSUME NEW m \in Matches
          PROVE  /\ db'.outcome[MatchOp(m)] = db.outcome[MatchOp(m)]
                 /\ db'.evaluated[m] => db.evaluated[m] \/ m \in over
                 /\ db.evaluated[m] => db'.evaluated[m]
                 /\ ended'[m] = IF m \in E THEN ended[m] + 1 ELSE ended[m]
      <3>1. ToFinalize(db, over) \subseteq over
        BY DEF ToFinalize
      <3> QED BY <2>1, <3>1, MarkedMatches DEF Notified
    <2>5. ASSUME NEW m \in Matches, db.outcome[MatchOp(m)] # "none", Elsewhere(MatchOp(m))
          PROVE  Elsewhere(MatchOp(m))'
      <3>1. MatchOp(m) \notin UNION {GetOperations(db, x) : x \in over}
        BY <2>2, <2>5, AskedOperations
      <3> QED BY <1>1, <2>1, <2>5, <3>1 DEF Elsewhere, InPool, Enqueued, MatchOp
    <2>6. ASSUME NEW m \in Matches, m \in over  PROVE MatchOp(m) \in DOMAIN fd
      <3>1. DOMAIN fd \subseteq Operations
        BY CachedFunctions DEF ServiceTypeOK
      <3>2. PICK op \in DOMAIN fd : ObjectOf(op) = m
        BY <2>2, <2>6 DEF Flushed
      <3> QED BY <3>1, <3>2, MatchOperation
    <2>7. ASSUME NEW m \in Matches  PROVE MatchOK(m)'
      <3>1. CASE m \in E
        <4>1. status[m] = "present" /\ db.evaluated[m] /\ MatchOp(m) \in DOMAIN fd
          BY <2>2, <2>3, <2>6, <3>1
        <4>2. ended[m] = 0 /\ ended'[m] = 1
          BY <1>1, <2>4, <3>1, <4>1 DEF MatchInv, MatchOK
        <4> QED BY <1>1, <2>4, <2>5, <4>1, <4>2 DEF MatchInv, MatchOK, MatchOp
      <3>2. CASE m \notin E
        BY <1>1, <2>2, <2>4, <2>5, <3>2 DEF MatchInv, MatchOK, MatchOp
      <3> QED BY <3>1, <3>2
    <2> QED BY <1>1, <2>7 DEF MatchInv
  <1>2. ASSUME WriteEnds  PROVE MatchInv'
    <2>1. /\ flusher = "outcomes" /\ DOMAIN fd' = {}
          /\ objects = Existing(objects) /\ EndOperations(objects)
          /\ UNCHANGED <<reverse, executing, d, waiting, status>>
      BY <1>2, CachedFunctions DEF WriteEnds, Existing, poolVars
    <2> QED BY <1>1, <2>1
  <1>3. ASSUME FlusherDies  PROVE MatchInv'
    <2>1. fd' = fd /\ flusher' = "dead" /\ UNCHANGED <<reverse, executing, d, waiting, status>>
      BY <1>3 DEF FlusherDies, poolVars
    <2>2. CASE flusher = "outcomes" /\ \E X \in SUBSET Existing(objects) : EndOperations(X)
      BY <1>1, <2>1, <2>2
    <2>3. CASE UNCHANGED <<queue, ended, db>>
      <3>1. \A m \in Matches : Elsewhere(MatchOp(m)) => Elsewhere(MatchOp(m))'
        BY <2>1, <2>3 DEF Elsewhere, InPool, MatchOp
      <3> QED BY <2>1, <2>3, <3>1 DEF MatchInv, MatchOK, MatchOp
    <2> QED BY <1>3, <2>2, <2>3 DEF FlusherDies
  <1> QED BY <1>2, <1>3

LEMMA InitMatchInv == Init => MatchInv
  <1> SUFFICES ASSUME Init PROVE MatchInv
    OBVIOUS
  <1>1. \A m \in Matches : m \in Objects /\ MatchOp(m) \in ESOperation
    BY MatchOperation, ServiceAssumption
  <1> QED BY <1>1, CachedFunctions DEF Init, BlankDB, MatchInv, MatchOK

LEMMA NextMatchInv ==
    ServiceInv /\ CallsInv /\ NotReleasedEarly /\ NotReleasedEarly' /\ MatchInv /\ [Next]_vars
    => MatchInv'
  BY MovesKeepMatches, RequestsKeepMatches, FlushKeepsMatches, EndsKeepMatches DEF Next

(* match_ended of PvPService is called at most once for a match: when      *)
(* new_match, the sweeper, a crash and write_results race to find it       *)
(* complete, at most one of them does.                                     *)
THEOREM MatchesEndOnce == Spec /\ []NotReleasedEarly => []MatchEndedOnce
  <1>1. MatchInv => MatchEndedOnce
    BY DEF MatchInv, MatchOK, MatchEndedOnce
  <1> QED BY <1>1, InitServiceInv, NextServiceInv, InitCallsInv, NextCallsInv,
             InitMatchInv, NextMatchInv, PTL DEF Spec

=============================================================================
