-------------------------- MODULE TriggeredService --------------------------
(***************************************************************************)
(* A service that performs operations (cms/io/triggeredservice.py): RPC    *)
(* methods and a sweeper put them in the queue of an executor, which pops  *)
(* them and executes them, one by one or in batches. The items stand for   *)
(* operations; needed is what the sweeper of the subclass would find in    *)
(* the database. An operation that is executed may fail, and is then still *)
(* needed.                                                                 *)
(***************************************************************************)
EXTENDS PriorityQueue

CONSTANTS
    BatchSize,      \* 1, or what max_operations_per_batch returns for an
                    \* executor with batch_executions
    MaxPushes,      \* bounds next_index
    MaxRequests,    \* bounds the calls of search_operations_not_done
    MaxFailures     \* bounds the operations whose execution raises

ASSUME TriggeredAssumption ==
    /\ BatchSize \in Nat /\ MaxPushes \in Nat
    /\ MaxRequests \in Nat /\ MaxFailures \in Nat

VARIABLES
    needed,         \* the operations the database asks for
    executing,      \* the batch given to execute
    sweeper,        \* "waiting" on _sweeper_event, or "sweeping"
    sweeper_event,
    requested,      \* search_operations_not_done was called, and no sweep has
                    \* started since
    requests, failures      \* how often these happened

sweeperVars == <<sweeper, sweeper_event, requested, requests>>
triggeredVars == <<queueVars, needed, executing, sweeperVars, failures>>

TriggeredInit ==
    /\ PQInit
    /\ needed = Items
    /\ executing = <<>>
    /\ sweeper = "sweeping" /\ sweeper_event = FALSE /\ requested = FALSE
    /\ requests = 0 /\ failures = 0

MayPush == next_index < MaxPushes

(* enqueue, from a notification.                                           *)
Enqueue(i, p, t) ==
    /\ MayPush
    /\ Push(i, p, t)
    /\ UNCHANGED <<needed, executing, sweeperVars, failures>>

(* dequeue; it raises when the item is not in the queue.                   *)
Dequeue(i) ==
    /\ Remove(i)
    /\ UNCHANGED <<needed, executing, sweeperVars, failures>>

ChangePriority(i, p) ==
    /\ SetPriority(i, p)
    /\ UNCHANGED <<needed, executing, sweeperVars, failures>>

Smaller(a, b) == IF a < b THEN a ELSE b

BatchLength == IF BatchSize = 0 THEN Len(heap) ELSE Smaller(BatchSize, Len(heap))

(* The loop of run: pop(wait=True) returns once the event is set, and the  *)
(* rest of the batch is popped at once.                                    *)
Run ==
    /\ executing = <<>>
    /\ event
    /\ Pop(BatchLength)
    /\ executing' = FirstN(Heap(heap, reverse), BatchLength)
    /\ UNCHANGED <<needed, sweeperVars, failures>>

Executed ==
    /\ executing # <<>>
    /\ needed' = needed \ {executing[n].item : n \in DOMAIN executing}
    /\ executing' = <<>>
    /\ UNCHANGED <<queueVars, sweeperVars, failures>>

(* The exception is logged and suppressed.                                 *)
ExecutionRaises ==
    /\ failures < MaxFailures
    /\ executing # <<>>
    /\ executing' = <<>>
    /\ failures' = failures + 1
    /\ UNCHANGED <<queueVars, needed, sweeperVars>>

-----------------------------------------------------------------------------
(* The sweeper enqueues one operation after the other; between two of them *)
(* the database is read, and other greenlets run.                          *)
SweepOne(i, p, t) ==
    /\ sweeper = "sweeping"
    /\ i \in needed
    /\ MayPush
    /\ Push(i, p, t)
    /\ UNCHANGED <<needed, executing, sweeperVars, failures>>

(* Mutation: the event is cleared when a sweep ends.                       *)
SweepEndsClearing ==
    /\ sweeper = "sweeping"
    /\ sweeper' = "waiting" /\ sweeper_event' = FALSE
    /\ UNCHANGED <<queueVars, needed, executing, requested, requests, failures>>

SweepEnds ==
    /\ sweeper = "sweeping"
    /\ sweeper' = "waiting"
    /\ UNCHANGED <<queueVars, needed, executing, sweeper_event, requested, requests, failures>>

(* The event is set, or the timeout has passed.                            *)
SweepStarts ==
    /\ sweeper = "waiting"
    /\ sweeper' = "sweeping" /\ sweeper_event' = FALSE /\ requested' = FALSE
    /\ UNCHANGED <<queueVars, needed, executing, requests, failures>>

SearchOperationsNotDone ==
    /\ requests < MaxRequests
    /\ requests' = requests + 1
    /\ sweeper_event' = TRUE /\ requested' = TRUE
    /\ UNCHANGED <<queueVars, needed, executing, sweeper, failures>>

-----------------------------------------------------------------------------
TriggeredNext ==
    \/ \E i \in Items, p \in Priorities, t \in Timestamps :
          Enqueue(i, p, t) \/ SweepOne(i, p, t)
    \/ \E i \in Items : Dequeue(i)
    \/ \E i \in Items, p \in Priorities : ChangePriority(i, p)
    \/ Run \/ Executed \/ ExecutionRaises
    \/ SweepStarts \/ SweepEnds \/ SearchOperationsNotDone

TriggeredSpec == TriggeredInit /\ [][TriggeredNext]_triggeredVars

(* A batch is in the order of the queue, and no longer than the limit.     *)
BatchSorted ==
    /\ \A m, n \in DOMAIN executing : m < n => Less(executing[m], executing[n])
    /\ BatchSize # 0 => Len(executing) <= BatchSize

(* A call of search_operations_not_done during a sweep, which may have     *)
(* passed the operation in question, is not forgotten: the next wait ends  *)
(* at once.                                                                *)
RequestNotLost == requested => sweeper_event

(* The heap, its index, the batch being executed and the sweeper's event,  *)
(* whatever is enqueued, dequeued or given another priority during a       *)
(* sweep or an execution.                                                  *)
TriggeredSound == Verified /\ HeapOrder /\ BatchSorted /\ RequestNotLost
=============================================================================
