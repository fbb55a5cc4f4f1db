-------------------------- MODULE WorkerPoolProofs --------------------------
(***************************************************************************)
(* Proofs about the worker pool, for every set of workers and operations.  *)
(***************************************************************************)
EXTENDS WorkerPool, TLAPS

(* The inductive invariant. ReverseInSync alone is not inductive: the      *)
(* release of a worker forgets what its list holds, so the list of a       *)
(* worker that is not busy has to be empty; and StartTimeIffBusy speaks    *)
(* of the status only.                                                     *)
IdleHoldsNothing == \A w \in Workers : ~Busy(w) => pool[w].ops = {}

PoolInv ==
    /\ PoolTypeOK
    /\ IdleHoldsNothing
    /\ ReverseInSync
    /\ StartTimeIffBusy
    /\ IgnoreOnlyCurrentBatch
    /\ WakeUpNotLost

USE DEF Slot, Status, Clock

-----------------------------------------------------------------------------
(* What release_worker leaves in a slot is a slot that holds nothing.      *)
LEMMA ReleasedSlot ==
    ASSUME NEW slot \in Slot
    PROVE  /\ Released(slot) \in Slot
           /\ Released(slot).ops = {}
           /\ Released(slot).toIgnore = {}
           /\ Released(slot).start = "unset"
           /\ Released(slot).status # "busy"
           /\ slot.scheduleDisabling => Released(slot).status = "disabled"
  BY DEF Released, EmptySlot

(* The inductive invariant holds of a pool nobody has used.                *)
LEMMA InitPoolInv == PoolInit => PoolInv
  BY NoWorkerAssumption DEF PoolInit, PoolInv, PoolTypeOK, IdleHoldsNothing,
     ReverseInSync, StartTimeIffBusy, IgnoreOnlyCurrentBatch, WakeUpNotLost,
     EmptySlot, Busy

-----------------------------------------------------------------------------
(* Releasing the workers of a set S, each from a slot that differs from    *)
(* its present one in nothing but flags, keeps the lists, the reverse      *)
(* lookup, the start times and the requests to ignore consistent.          *)
ReleasedFrom(S) ==
    /\ pool' \in [Workers -> Slot]
    /\ \A w \in Workers : IF w \in S
           THEN /\ pool'[w].ops = {} /\ pool'[w].toIgnore = {}
                /\ pool'[w].start = "unset" /\ pool'[w].status # "busy"
           ELSE pool'[w] = pool[w]
    /\ reverse' = Forget(S)

(* The lemma itself, about any such set of workers.                        *)
LEMMA ReleaseKeepsSync ==
    ASSUME PoolInv, NEW S \in SUBSET Workers, ReleasedFrom(S)
    PROVE  /\ reverse' \in [Operations -> Workers \cup {NoWorker}]
           /\ IdleHoldsNothing'
           /\ ReverseInSync'
           /\ StartTimeIffBusy'
           /\ IgnoreOnlyCurrentBatch'
  <1> USE DEF PoolInv, PoolTypeOK, ReleasedFrom
  <1>1. reverse' \in [Operations -> Workers \cup {NoWorker}]
    BY DEF Forget
  <1>2. IdleHoldsNothing'
    BY DEF IdleHoldsNothing, Busy
  <1>3. ReverseInSync'
    <2> SUFFICES ASSUME NEW o \in Operations, NEW w \in Workers
                 PROVE  reverse'[o] = w <=> o \in pool'[w].ops
      BY DEF ReverseInSync
    <2>1. CASE \E v \in S : o \in pool[v].ops
      <3>1. PICK v \in S : o \in pool[v].ops
        BY <2>1
      <3>2. reverse'[o] = NoWorker
        BY <2>1 DEF Forget
      <3>3. w \notin S => w # v /\ reverse[o] = v
        BY <3>1 DEF ReverseInSync
      <3> QED BY <3>2, <3>3, NoWorkerAssumption DEF ReverseInSync
    <2>2. CASE ~\E v \in S : o \in pool[v].ops
      <3>1. reverse'[o] = reverse[o]
        BY <2>2 DEF Forget
      <3> QED BY <3>1, <2>2 DEF ReverseInSync
    <2> QED BY <2>1, <2>2
  <1>4. StartTimeIffBusy'
    BY DEF StartTimeIffBusy, Busy
  <1>5. IgnoreOnlyCurrentBatch'
    BY DEF IgnoreOnlyCurrentBatch
  <1> QED BY <1>1, <1>2, <1>3, <1>4, <1>5

-----------------------------------------------------------------------------
(* The actions that release workers, by the lemma above.                   *)
LEMMA ReleasingActions ==
    ASSUME PoolInv,
           \/ \E w \in Workers : ReleaseBusy(w)
           \/ CheckTimeouts
           \/ CheckConnections
           \/ \E w \in Workers : DisableWorker(w)
    PROVE  PoolInv'
  <1> USE DEF PoolInv, PoolTypeOK
  <1>1. ASSUME NEW w \in Workers, ReleaseBusy(w)  PROVE PoolInv'
    <2>1. ReleasedFrom({w})
      BY <1>1, ReleasedSlot DEF ReleaseBusy, ReleasedFrom
    <2>2. WakeUpNotLost'
      BY <1>1, ReleasedSlot DEF ReleaseBusy, WakeUpNotLost, AvailableWorkers
    <2>3. /\ event' \in BOOLEAN /\ connected' \in [Workers -> BOOLEAN]
          /\ greeting' \subseteq Workers
      BY <1>1 DEF ReleaseBusy
    <2> QED BY <2>1, <2>2, <2>3, ReleaseKeepsSync, ZenonT(60) DEF ReleasedFrom
  <1>2. ASSUME CheckTimeouts  PROVE PoolInv'
    <2> DEFINE Marked(w) == [pool[w] EXCEPT !.scheduleDisabling = TRUE,
                                            !.ignore = TRUE]
    <2>1. \A w \in Workers : Marked(w) \in Slot /\ Marked(w).scheduleDisabling
      OBVIOUS
    <2>2. \A w \in Workers : pool'[w] = IF w \in TimedOut
                                        THEN Released(Marked(w)) ELSE pool[w]
      BY <1>2 DEF CheckTimeouts
    <2> HIDE DEF Marked
    <2>3. /\ pool' \in [Workers -> Slot]
          /\ TimedOut \in SUBSET Workers
      <3>1. \A w \in Workers : pool'[w] \in Slot
        BY <2>1, <2>2, ReleasedSlot
      <3>2. pool' = [w \in Workers |-> pool'[w]]
        BY <1>2 DEF CheckTimeouts
      <3> QED BY <3>1, <3>2 DEF TimedOut
    <2>4. ReleasedFrom(TimedOut)
      <3>1. ASSUME NEW w \in TimedOut
            PROVE  /\ pool'[w].ops = {} /\ pool'[w].toIgnore = {}
                   /\ pool'[w].start = "unset" /\ pool'[w].status # "busy"
        <4>1. pool'[w] = Released(Marked(w)) /\ Marked(w) \in Slot
          BY <2>1, <2>2, <2>3
        <4> QED BY <4>1, ReleasedSlot
      <3>2. reverse' = Forget(TimedOut)
        BY <1>2 DEF CheckTimeouts
      <3> QED BY <2>2, <2>3, <3>1, <3>2 DEF ReleasedFrom
    <2>5. WakeUpNotLost'
      <3>1. \A w \in TimedOut : pool'[w].status = "disabled"
        BY <2>1, <2>2, <2>3, ReleasedSlot
      <3>2. UNCHANGED <<event, connected, greeting>>
        BY <1>2 DEF CheckTimeouts
      <3> QED BY <2>2, <3>1, <3>2 DEF WakeUpNotLost, AvailableWorkers
    <2>6. /\ event' \in BOOLEAN /\ connected' \in [Workers -> BOOLEAN]
          /\ greeting' \subseteq Workers
      BY <1>2 DEF CheckTimeouts
    <2> QED BY <2>3, <2>4, <2>5, <2>6, ReleaseKeepsSync
  <1>3. ASSUME CheckConnections  PROVE PoolInv'
    <2>1. \A w \in Workers : pool'[w] = IF w \in Unreachable
                                        THEN Released(pool[w]) ELSE pool[w]
      BY <1>3 DEF CheckConnections
    <2>2. /\ pool' \in [Workers -> Slot]
          /\ Unreachable \in SUBSET Workers
      <3>1. \A w \in Workers : pool'[w] \in Slot
        BY <2>1, ReleasedSlot
      <3>2. pool' = [w \in Workers |-> pool'[w]]
        BY <1>3 DEF CheckConnections
      <3> QED BY <3>1, <3>2 DEF Unreachable
    <2>3. ReleasedFrom(Unreachable)
      BY <1>3, <2>1, <2>2, ReleasedSlot DEF CheckConnections, ReleasedFrom
    <2>4. WakeUpNotLost'
      BY <1>3, <2>1 DEF CheckConnections, WakeUpNotLost, AvailableWorkers,
                        Unreachable
    <2>5. /\ event' \in BOOLEAN /\ connected' \in [Workers -> BOOLEAN]
          /\ greeting' \subseteq Workers
      BY <1>3 DEF CheckConnections
    <2> QED BY <2>2, <2>3, <2>4, <2>5, ReleaseKeepsSync
  <1>4. ASSUME NEW w \in Workers, DisableWorker(w)  PROVE PoolInv'
    <2> DEFINE Marked == [pool[w] EXCEPT !.scheduleDisabling = TRUE,
                                         !.toIgnore = {}, !.ignore = TRUE]
               Disabled == IF pool[w].status = "inactive"
                           THEN [pool[w] EXCEPT !.status = "disabled"]
                           ELSE Released(Marked)
    <2>1. /\ Disabled \in Slot
          /\ Disabled.ops = {} /\ Disabled.toIgnore = {}
          /\ Disabled.start = "unset" /\ Disabled.status = "disabled"
      <3>1. CASE pool[w].status = "inactive"
        BY <3>1 DEF IdleHoldsNothing, StartTimeIffBusy,
                    IgnoreOnlyCurrentBatch, Busy
      <3>2. CASE pool[w].status # "inactive"
        <4>1. Marked \in Slot /\ Marked.scheduleDisabling
          OBVIOUS
        <4> QED BY <3>2, <4>1, ReleasedSlot
      <3> QED BY <3>1, <3>2
    <2>2. pool' = [pool EXCEPT ![w] = Disabled]
      BY <1>4 DEF DisableWorker
    <2> HIDE DEF Disabled
    <2>3. ReleasedFrom({w})
      <3>1. pool' \in [Workers -> Slot]
        BY <2>1, <2>2
      <3>2. pool'[w] = Disabled /\ \A v \in Workers \ {w} : pool'[v] = pool[v]
        BY <2>2
      <3>3. reverse' = Forget({w})
        BY <1>4 DEF DisableWorker
      <3> QED BY <2>1, <3>1, <3>2, <3>3 DEF ReleasedFrom
    <2>4. WakeUpNotLost'
      BY <1>4, <2>1, <2>2 DEF DisableWorker, WakeUpNotLost, AvailableWorkers
    <2>5. /\ event' \in BOOLEAN /\ connected' \in [Workers -> BOOLEAN]
          /\ greeting' \subseteq Workers
      BY <1>4 DEF DisableWorker
    <2> QED BY <2>3, <2>4, <2>5, ReleaseKeepsSync, ZenonT(60) DEF ReleasedFrom
  <1> QED BY <1>1, <1>2, <1>3, <1>4

(* acquire_worker, called with operations that are not in the pool.        *)
LEMMA AcquireKeepsInv ==
    ASSUME PoolInv, NEW w \in Workers, NEW ops \in SUBSET Operations,
           \A o \in ops : ~InPool(o), AcquireWorker(w, ops)
    PROVE  PoolInv'
  <1> USE DEF PoolInv, PoolTypeOK
  <1>1. /\ pool[w].status = "inactive" /\ pool[w].ops = {}
        /\ pool[w].toIgnore = {}
    BY DEF AcquireWorker, AvailableWorkers, IdleHoldsNothing, Busy,
           IgnoreOnlyCurrentBatch
  <1>2. PICK slot \in Slot :
           /\ pool' = [pool EXCEPT ![w] = slot]
           /\ slot.status = "busy" /\ slot.ops = ops /\ slot.toIgnore = {}
           /\ slot.start = "running"
    <2> DEFINE new == [pool[w] EXCEPT !.status = "busy", !.ops = ops,
                                      !.start = "running"]
    <2>1. new \in Slot
      OBVIOUS
    <2>2. /\ new.status = "busy" /\ new.ops = ops /\ new.toIgnore = {}
          /\ new.start = "running"
      BY <1>1
    <2>3. pool' = [pool EXCEPT ![w] = new]
      BY DEF AcquireWorker
    <2> QED BY <2>1, <2>2, <2>3
  <1>3. /\ reverse' = [o \in Operations |-> IF o \in ops THEN w ELSE reverse[o]]
        /\ UNCHANGED <<event, connected, greeting>>
    BY DEF AcquireWorker
  <1>4. PoolTypeOK'
    BY <1>2, <1>3
  <1>5. IdleHoldsNothing'
    BY <1>2 DEF IdleHoldsNothing, Busy
  <1>6. ReverseInSync'
    BY <1>1, <1>2, <1>3, NoWorkerAssumption DEF ReverseInSync, InPool
  <1>7. StartTimeIffBusy'
    BY <1>2 DEF StartTimeIffBusy, Busy
  <1>8. IgnoreOnlyCurrentBatch'
    BY <1>2 DEF IgnoreOnlyCurrentBatch
  <1>9. WakeUpNotLost'
    BY <1>2, <1>3 DEF WakeUpNotLost, AvailableWorkers
  <1> QED BY <1>4, <1>5, <1>6, <1>7, <1>8, <1>9

(* ignore_operation, for any set of operations.                            *)
LEMMA IgnoreKeepsInv ==
    ASSUME PoolInv, NEW S \in SUBSET Operations, IgnoreOperations(S)
    PROVE  PoolInv'
  <1> USE DEF PoolInv, PoolTypeOK
  <1>1. ASSUME NEW w \in Workers
        PROVE  /\ pool'[w] \in Slot
               /\ pool'[w].ops = pool[w].ops
               /\ pool'[w].status = pool[w].status
               /\ pool'[w].start = pool[w].start
               /\ pool'[w].toIgnore = pool[w].toIgnore \cup {o \in S : reverse[o] = w}
    <2> DEFINE new == pool[w].toIgnore \cup {o \in S : reverse[o] = w}
    <2>1. pool'[w] = [pool[w] EXCEPT !.toIgnore = new]
      BY DEF IgnoreOperations
    <2>2. pool[w] \in Slot /\ new \in SUBSET Operations
      OBVIOUS
    <2> HIDE DEF new
    <2>3. /\ pool'[w] \in Slot
          /\ pool'[w].ops = pool[w].ops
          /\ pool'[w].status = pool[w].status
          /\ pool'[w].start = pool[w].start
          /\ pool'[w].toIgnore = new
      BY <2>1, <2>2
    <2> QED BY <2>3 DEF new
  <1>2. /\ pool' = [w \in Workers |-> pool'[w]]
        /\ UNCHANGED <<reverse, event, connected, greeting>>
    BY DEF IgnoreOperations
  <1>3. PoolTypeOK'
    BY <1>1, <1>2
  <1>4. IdleHoldsNothing' /\ ReverseInSync' /\ StartTimeIffBusy'
    BY <1>1, <1>2 DEF IdleHoldsNothing, ReverseInSync, StartTimeIffBusy, Busy
  <1>5. IgnoreOnlyCurrentBatch'
    BY <1>1, <1>2 DEF IgnoreOnlyCurrentBatch, ReverseInSync
  <1>6. WakeUpNotLost'
    BY <1>1, <1>2 DEF WakeUpNotLost, AvailableWorkers
  <1> QED BY <1>3, <1>4, <1>5, <1>6

(* The event, the connections, the clock, a restart, and stuttering.       *)
LEMMA OtherActions ==
    ASSUME PoolInv,
           \/ AcquireNone
           \/ \E w \in Workers : EnableWorker(w)
           \/ \E w \in Workers : Connect(w)
           \/ \E w \in Workers : Disconnect(w)
           \/ \E w \in Workers : OnWorkerConnected(w)
           \/ \E w \in Workers : Expire(w)
           \/ Restart
           \/ UNCHANGED poolVars
    PROVE  PoolInv'
  <1> USE DEF PoolInv, PoolTypeOK, IdleHoldsNothing, ReverseInSync,
              StartTimeIffBusy, IgnoreOnlyCurrentBatch, WakeUpNotLost,
              AvailableWorkers, Busy
  <1>1. ASSUME AcquireNone  PROVE PoolInv'
    BY <1>1 DEF AcquireNone
  <1>2. ASSUME NEW w \in Workers, EnableWorker(w)  PROVE PoolInv'
    <2> DEFINE new == [pool[w] EXCEPT !.status = "inactive", !.toIgnore = {}]
    <2>1. /\ pool[w].status = "disabled" /\ pool[w].ops = {}
          /\ pool[w].start = "unset"
      BY <1>2 DEF EnableWorker
    <2>2. /\ new \in Slot /\ new.ops = {} /\ new.toIgnore = {}
          /\ new.start = "unset" /\ new.status = "inactive"
      <3>1. pool[w] \in Slot
        OBVIOUS
      <3> QED BY ONLY <2>1, <3>1
    <2>3. /\ pool' = [pool EXCEPT ![w] = new] /\ event' = TRUE
          /\ UNCHANGED <<reverse, connected, greeting>>
      BY <1>2 DEF EnableWorker
    <2> HIDE DEF new
    <2> QED BY <2>1, <2>2, <2>3
  <1>3. ASSUME NEW w \in Workers, Connect(w)  PROVE PoolInv'
    BY <1>3 DEF Connect
  <1>4. ASSUME NEW w \in Workers, Disconnect(w)  PROVE PoolInv'
    BY <1>4 DEF Disconnect
  <1>5. ASSUME NEW w \in Workers, OnWorkerConnected(w)  PROVE PoolInv'
    BY <1>5 DEF OnWorkerConnected
  <1>6. ASSUME NEW w \in Workers, Expire(w)  PROVE PoolInv'
    BY <1>6, SMTT(30) DEF Expire
  <1>7. ASSUME Restart  PROVE PoolInv'
    <2>1. EmptySlot \in Slot
      BY DEF EmptySlot, Slot, Status, Clock
    <2>2. PoolTypeOK'
      BY <1>7, <2>1 DEF Restart
    <2> QED BY <1>7, <2>2, NoWorkerAssumption DEF Restart, EmptySlot
  <1>8. ASSUME UNCHANGED poolVars  PROVE PoolInv'
    BY <1>8 DEF poolVars
  <1> QED BY <1>1, <1>2, <1>3, <1>4, <1>5, <1>6, <1>7, <1>8

(* Every step of the pool keeps the inductive invariant.                   *)
LEMMA NextPoolInv == PoolInv /\ [PoolNext]_poolVars => PoolInv'
  BY ReleasingActions, AcquireKeepsInv, IgnoreKeepsInv, OtherActions DEF PoolNext

-----------------------------------------------------------------------------
(* Whatever the caller does and however many workers and operations there  *)
(* are, the pool's variables keep their types.                             *)
THEOREM PoolTypeCorrect == PoolSpec => []PoolTypeOK
  <1>1. PoolInv => PoolTypeOK
    BY DEF PoolInv
  <1> QED BY <1>1, InitPoolInv, NextPoolInv, PTL DEF PoolSpec

(* The reverse lookup stays in sync with the lists, so no operation is     *)
(* ever assigned to two workers.                                           *)
THEOREM PoolStaysInSync == PoolSpec => []ReverseInSync
  <1>1. PoolInv => ReverseInSync
    BY DEF PoolInv
  <1> QED BY <1>1, InitPoolInv, NextPoolInv, PTL DEF PoolSpec

(* The assertion in check_timeouts never fails.                            *)
THEOREM TimeoutAssertionHolds == PoolSpec => []StartTimeIffBusy
  <1>1. PoolInv => StartTimeIffBusy
    BY DEF PoolInv
  <1> QED BY <1>1, InitPoolInv, NextPoolInv, PTL DEF PoolSpec

(* A request to ignore an operation never reaches a later batch.           *)
THEOREM IgnoreNeverLeaks == PoolSpec => []IgnoreOnlyCurrentBatch
  <1>1. PoolInv => IgnoreOnlyCurrentBatch
    BY DEF PoolInv
  <1> QED BY <1>1, InitPoolInv, NextPoolInv, PTL DEF PoolSpec

(* The executor is never left asleep next to an idle, connected worker.    *)
THEOREM WakeUpsAreNotLost == PoolSpec => []WakeUpNotLost
  <1>1. PoolInv => WakeUpNotLost
    BY DEF PoolInv
  <1> QED BY <1>1, InitPoolInv, NextPoolInv, PTL DEF PoolSpec

(* All of it at once: the fields of the pool stay consistent with each     *)
(* other for any number of workers and operations, whatever is disabled,   *)
(* disconnected, timed out or restarted.                                   *)
THEOREM PoolStaysConsistent == PoolSpec => []PoolConsistent
  <1>1. PoolInv => PoolConsistent
    BY DEF PoolInv, PoolConsistent
  <1> QED BY <1>1, InitPoolInv, NextPoolInv, PTL DEF PoolSpec

=============================================================================
