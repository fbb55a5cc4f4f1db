----------------------------- MODULE WorkerPool -----------------------------
(***************************************************************************)
(* The worker pool of EvaluationService (cms/service/workerpool.py): which  *)
(* operations each worker is running, which of their results are to be     *)
(* ignored, and the event that wakes up the executor.                      *)
(*                                                                         *)
(* Every method runs without switching greenlet, except acquire_worker,    *)
(* which reads the database between recording the operations and sending   *)
(* them; this module has the recording, EvaluationService the sending.     *)
(***************************************************************************)
EXTENDS Naturals, FiniteSets

CONSTANTS
    Workers,        \* the shards of the Worker service
    Operations,     \* the ESOperations that can be handed to a worker
    NoWorker        \* stands for a missing key of _operations_reverse

ASSUME NoWorkerAssumption == NoWorker \notin Workers

VARIABLES
    pool,           \* per shard: _operations, _operations_to_ignore,
                    \* _start_time, _schedule_disabling and _ignore
    reverse,        \* _operations_reverse
    event,          \* _workers_available_event
    connected,      \* per shard: the connected flag of its RPC client
    greeting        \* shards whose on_connect callback has not ended yet

poolVars == <<pool, reverse, event, connected, greeting>>

(* _operations[shard] is None ("inactive"), "disabled" or a list ("busy"). *)
Status == {"inactive", "disabled", "busy"}

(* _start_time, by the only thing asked of it: whether it is set, and      *)
(* whether WORKER_TIMEOUT has passed since.                                *)
Clock == {"unset", "running", "expired"}

Slot == [status : Status, ops : SUBSET Operations,
         toIgnore : SUBSET Operations, start : Clock,
         scheduleDisabling : BOOLEAN, ignore : BOOLEAN]

PoolTypeOK ==
    /\ pool \in [Workers -> Slot]
    /\ reverse \in [Operations -> Workers \cup {NoWorker}]
    /\ event \in BOOLEAN
    /\ connected \in [Workers -> BOOLEAN]
    /\ greeting \subseteq Workers

-----------------------------------------------------------------------------
(* add_worker, called for every shard by EvaluationExecutor.__init__.      *)
EmptySlot == [status |-> "inactive", ops |-> {}, toIgnore |-> {},
              start |-> "unset", scheduleDisabling |-> FALSE,
              ignore |-> FALSE]

PoolInit ==
    /\ pool = [w \in Workers |-> EmptySlot]
    /\ reverse = [o \in Operations |-> NoWorker]
    /\ event = TRUE
    /\ connected = [w \in Workers |-> FALSE]
    /\ greeting = {}

InPool(o) == reverse[o] # NoWorker

Busy(w) == pool[w].status = "busy"

(* find_worker(WORKER_INACTIVE, require_connection=True): the candidates   *)
(* among which random.choice picks.                                        *)
AvailableWorkers == {w \in Workers : pool[w].status = "inactive" /\ connected[w]}

(* _remove_operations, for the operations of every shard in S.             *)
Forget(S) == [o \in Operations |->
    IF \E w \in S : o \in pool[w].ops THEN NoWorker ELSE reverse[o]]

(* Mutation: the requests to ignore operations are not cleared.            *)
ReleasedIgnoring(slot) ==
    [EmptySlot EXCEPT
        !.status = IF slot.scheduleDisabling THEN "disabled" ELSE "inactive",
        !.toIgnore = slot.toIgnore]

(* What release_worker leaves in a busy slot.                              *)
Released(slot) ==
    [EmptySlot EXCEPT
        !.status = IF slot.scheduleDisabling THEN "disabled" ELSE "inactive"]

-----------------------------------------------------------------------------
(* acquire_worker up to the database session.                              *)
AcquireWorker(w, ops) ==
    /\ w \in AvailableWorkers
    /\ pool' = [pool EXCEPT ![w] = [@ EXCEPT !.status = "busy", !.ops = ops,
                                             !.start = "running"]]
    /\ reverse' = [o \in Operations |-> IF o \in ops THEN w ELSE reverse[o]]
    /\ UNCHANGED <<event, connected, greeting>>

(* acquire_worker when find_worker raises LookupError.                     *)
AcquireNone ==
    /\ AvailableWorkers = {}
    /\ event' = FALSE
    /\ UNCHANGED <<pool, reverse, connected, greeting>>

(* release_worker on a busy shard.                                         *)
ReleaseBusy(w) ==
    /\ Busy(w)
    /\ pool' = [pool EXCEPT ![w] = Released(@)]
    /\ reverse' = Forget({w})
    /\ event' = (event \/ ~pool[w].scheduleDisabling)
    /\ UNCHANGED <<connected, greeting>>

(* Mutation: only whole job groups are ignored.                            *)
KeptAll(w, ops) == IF pool[w].ignore THEN {} ELSE ops

(* The value release_worker returns on a busy shard, as the set of its     *)
(* operations whose results count.                                         *)
Kept(w, ops) == IF pool[w].ignore THEN {} ELSE ops \ pool[w].toIgnore

(* release_worker on a disabled shard returns True and changes nothing; on *)
(* an inactive one it raises.                                              *)
ReleaseIdle(w) == ~Busy(w) /\ UNCHANGED poolVars

(* ignore_operation, for every operation in S that is in the pool.         *)
IgnoreOperations(S) ==
    /\ pool' = [w \in Workers |-> [pool[w] EXCEPT
           !.toIgnore = @ \cup {o \in S : reverse[o] = w}]]
    /\ UNCHANGED <<reverse, event, connected, greeting>>

(* The operations check_timeouts and disable_worker hand back.             *)
LostOn(w) == IF pool[w].ignore THEN {} ELSE pool[w].ops \ pool[w].toIgnore

(* The shards whose loop iteration in check_timeouts does something. The   *)
(* code asserts that they are busy.                                        *)
TimedOut == {w \in Workers : pool[w].start = "expired"}

CheckTimeouts ==
    /\ pool' = [w \in Workers |-> IF w \in TimedOut
           THEN Released([pool[w] EXCEPT !.scheduleDisabling = TRUE,
                                         !.ignore = TRUE])
           ELSE pool[w]]
    /\ reverse' = Forget(TimedOut)
    /\ UNCHANGED <<event, connected, greeting>>

LostToTimeouts == UNION {LostOn(w) : w \in TimedOut}

(* disable_worker on a shard that is not disabled; on a disabled one it    *)
(* raises.                                                                 *)
DisableWorker(w) ==
    /\ pool[w].status # "disabled"
    /\ pool' = [pool EXCEPT ![w] =
           IF @.status = "inactive"
           THEN [@ EXCEPT !.status = "disabled"]
           ELSE Released([@ EXCEPT !.scheduleDisabling = TRUE,
                                   !.toIgnore = {}, !.ignore = TRUE])]
    /\ reverse' = Forget({w})
    /\ UNCHANGED <<event, connected, greeting>>

(* Mutation: the executor is not woken up.                                 *)
EnableWorkerSilently(w) ==
    /\ pool[w].status = "disabled"
    /\ pool' = [pool EXCEPT ![w] = [@ EXCEPT !.status = "inactive",
                                             !.toIgnore = {}]]
    /\ UNCHANGED <<reverse, event, connected, greeting>>

(* enable_worker on a disabled shard; on another one it raises.            *)
EnableWorker(w) ==
    /\ pool[w].status = "disabled"
    /\ pool' = [pool EXCEPT ![w] = [@ EXCEPT !.status = "inactive",
                                             !.toIgnore = {}]]
    /\ event' = TRUE
    /\ UNCHANGED <<reverse, connected, greeting>>

(* The shards check_connections releases.                                  *)
Unreachable == {w \in Workers : Busy(w) /\ ~connected[w]}

CheckConnections ==
    /\ pool' = [w \in Workers |->
           IF w \in Unreachable THEN Released(pool[w]) ELSE pool[w]]
    /\ reverse' = Forget(Unreachable)
    /\ event' = (event \/ \E w \in Unreachable : ~pool[w].scheduleDisabling)
    /\ UNCHANGED <<connected, greeting>>

(* Unlike the other two, check_connections also hands back the operations  *)
(* that were to be ignored.                                                *)
LostToDisconnections == UNION {IF pool[w].ignore THEN {} ELSE pool[w].ops :
                               w \in Unreachable}

-----------------------------------------------------------------------------
(* The RPC client of a shard: initialize() marks it connected and spawns   *)
(* the on_connect handlers, finalize() marks it disconnected.              *)
Connect(w) ==
    /\ ~connected[w]
    /\ connected' = [connected EXCEPT ![w] = TRUE]
    /\ greeting' = greeting \cup {w}
    /\ UNCHANGED <<pool, reverse, event>>

Disconnect(w) ==
    /\ connected[w]
    /\ connected' = [connected EXCEPT ![w] = FALSE]
    /\ UNCHANGED <<pool, reverse, event, greeting>>

(* on_worker_connected: asks the worker to precache the files, which may   *)
(* switch greenlet, and sets the event.                                    *)
OnWorkerConnected(w) ==
    /\ w \in greeting
    /\ greeting' = greeting \ {w}
    /\ event' = TRUE
    /\ UNCHANGED <<pool, reverse, connected>>

(* WORKER_TIMEOUT passes since the shard's _start_time.                    *)
Expire(w) ==
    /\ pool[w].start = "running"
    /\ pool' = [pool EXCEPT ![w].start = "expired"]
    /\ UNCHANGED <<reverse, event, connected, greeting>>

(* EvaluationService is restarted.                                         *)
Restart ==
    /\ pool' = [w \in Workers |-> EmptySlot]
    /\ reverse' = [o \in Operations |-> NoWorker]
    /\ event' = TRUE
    /\ connected' = [w \in Workers |-> FALSE]
    /\ greeting' = {}

-----------------------------------------------------------------------------
(* The pool used by any caller that, like EvaluationService.enqueue, never *)
(* hands out an operation that is already in the pool.                     *)
PoolNext ==
    \/ \E w \in Workers, ops \in SUBSET Operations :
           /\ ops # {}
           /\ \A o \in ops : ~InPool(o)
           /\ AcquireWorker(w, ops)
    \/ AcquireNone
    \/ \E w \in Workers : ReleaseBusy(w)
    \/ \E S \in SUBSET Operations : IgnoreOperations(S)
    \/ CheckTimeouts
    \/ \E w \in Workers : DisableWorker(w)
    \/ \E w \in Workers : EnableWorker(w)
    \/ CheckConnections
    \/ \E w \in Workers : Connect(w)
    \/ \E w \in Workers : Disconnect(w)
    \/ \E w \in Workers : OnWorkerConnected(w)
    \/ \E w \in Workers : Expire(w)
    \/ Restart

PoolSpec == PoolInit /\ [][PoolNext]_poolVars

-----------------------------------------------------------------------------
(* "A lock to ensure that the reverse lookup stays in sync with the        *)
(* operations lists": an operation maps to a shard exactly when it is in   *)
(* that shard's list, so no operation is ever held by two workers.         *)
ReverseInSync ==
    \A o \in Operations, w \in Workers : reverse[o] = w <=> o \in pool[w].ops

(* The assertion is_busy in check_timeouts cannot fail, and a busy worker  *)
(* always has a start time, so it cannot escape the timeout.               *)
StartTimeIffBusy ==
    \A w \in Workers : (pool[w].start # "unset") <=> Busy(w)

(* A request to ignore an operation concerns the batch the worker is       *)
(* running and never leaks into the results of a later batch.              *)
IgnoreOnlyCurrentBatch ==
    \A w \in Workers : pool[w].toIgnore \subseteq pool[w].ops

(* No wake-up of the executor is lost: a connected worker is idle while    *)
(* the event is cleared only if its own on_worker_connected callback,      *)
(* which will set the event, is still running.                             *)
WakeUpNotLost == ~event => AvailableWorkers \subseteq greeting

(* What the fields of WorkerPool promise each other whatever EvaluationService *)
(* and the network do: the lookups agree, no busy worker escapes the       *)
(* timeout, no request to ignore outlives its batch, no wake-up is lost.   *)
PoolConsistent ==
    /\ PoolTypeOK
    /\ ReverseInSync
    /\ StartTimeIffBusy
    /\ IgnoreOnlyCurrentBatch
    /\ WakeUpNotLost

=============================================================================
