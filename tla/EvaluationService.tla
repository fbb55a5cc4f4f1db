------------------------- MODULE EvaluationService -------------------------
(***************************************************************************)
(* EvaluationService (cms/service/EvaluationService.py): the executor that *)
(* takes operations from the queue and hands them to workers, the callback *)
(* that collects the results, the cache that writes them to the database   *)
(* in batches, and everything that puts operations in the queue.           *)
(*                                                                         *)
(* Greenlets switch only where the code blocks. Methods under              *)
(* post_finish_lock are single steps, except write_results, whose two      *)
(* commits and final pass are three: the lock is held between them.        *)
(***************************************************************************)
EXTENDS WorkerPool, ESOperations, SequencesExt

CONSTANTS
    MAX_OPERATIONS_PER_BATCH,
    CallIds,        \* bounds the execute_job_group calls not answered yet
    Budget,         \* bounds how often each kind of external event happens
    MaxEvents,      \* bounds how often any of them does
    NoCall

ASSUME ServiceAssumption ==
    /\ Operations = ESOperation /\ IsFiniteSet(Operations)
    /\ MAX_OPERATIONS_PER_BATCH \in Nat \ {0}

(* What the environment does a bounded number of times.                    *)
Events == {"invalidate", "disable", "expire", "disconnect", "crash",
           "dberror", "delete", "workerfail", "jobfail", "tombstone", "notify"}

ASSUME BudgetAssumption == Budget \in [Events -> Nat] /\ MaxEvents \in Nat

VARIABLES
    queue,          \* the operations in the executor's PriorityQueue
    executing,      \* _currently_executing
    executor,       \* "idle": blocked on the queue or between two batches;
                    \* "waiting": in execute, until a worker is free;
                    \* "building": in acquire_worker, reading the jobs from
                    \* the database, with _current_execution_lock held
    target,         \* the worker acquired for the batch being sent
    alias,          \* the worker whose list in the pool is the very list
                    \* object _currently_executing, after a failed dispatch
    calls,          \* the execute_job_group calls in progress: a call is
                    \* "running" on its worker, or it ended ("done" with
                    \* results or "error") and its callback has not run;
                    \* it has the epoch at which each job was built
    d, fd,          \* the result cache: results not flushed, being flushed
    flusher,        \* where the FlushingDict's greenlet is: "checking" d;
                    \* "flushing": fd taken, write_results waiting for the
                    \* lock; "rows", "outcomes": after its first and second
                    \* commit; "dead": killed by an exception
    waiting,        \* operations some greenlet is about to enqueue
    db,             \* the committed database
    status,         \* whether each object exists
    epoch,          \* per operation: how many times it was invalidated
    ended,          \* per match: how often PvPService heard of its end
    spent           \* per event: how often it happened

esVars == <<queue, executing, executor, target, alias, calls, d, fd, flusher,
            waiting, db, status, epoch, ended, spent>>
vars == <<poolVars, esVars>>

-----------------------------------------------------------------------------
Init ==
    /\ PoolInit
    /\ queue = {} /\ executing = {} /\ executor = "idle"
    /\ target = NoWorker /\ alias = NoWorker
    /\ calls = [i \in CallIds |-> NoCall]
    /\ d = <<>> /\ fd = <<>> /\ flusher = "checking"
    /\ waiting = {}
    /\ db = BlankDB
    /\ status = [x \in Objects |-> "absent"]
    /\ epoch = [op \in Operations |-> 0]
    /\ ended = [m \in Matches |-> 0]
    /\ spent = [e \in Events |-> 0]

(* The events that have happened after a step are within the bounds.       *)
Within ==
    /\ \A e \in Events : spent'[e] <= Budget[e]
    /\ MapThenSumSet(LAMBDA e : spent'[e], Events) <= MaxEvents

Spend(e) == spent' = [spent EXCEPT ![e] = @ + 1] /\ Within

LockFree == flusher \notin {"rows", "outcomes"}

Existing(X) == {x \in X : status[x] = "present"}

(* Mutation: one of the places where an operation can be is forgotten.     *)
KnownNotCached(op) == op \in queue \cup executing \/ InPool(op)

(* EvaluationExecutor.__contains__ and FlushingDict.__contains__, the test *)
(* at the top of enqueue.                                                  *)
Known(op) ==
    \/ op \in queue \cup executing \cup DOMAIN d \cup DOMAIN fd
    \/ InPool(op)

(* EvaluationService.enqueue on every operation of a set.                  *)
Enqueued(S) == queue \cup {op \in S : ~Known(op)}

-----------------------------------------------------------------------------
(* The executor.                                                           *)

max_operations_per_batch(n) ==
    LET ratio == n \div Cardinality(Workers) + 1
    IN  IF ratio < MAX_OPERATIONS_PER_BATCH THEN ratio
                                            ELSE MAX_OPERATIONS_PER_BATCH

(* Executor.run up to execute. The first operation is popped before the    *)
(* size of the batch is computed. Which operations come first depends on   *)
(* priorities and timestamps, which are left open.                         *)
Pop(batch) ==
    /\ executor = "idle"
    /\ batch # {}
    /\ LET n == Cardinality(queue)
           size == max_operations_per_batch(n - 1)
       IN  Cardinality(batch) = IF n < size THEN n ELSE size
    /\ queue' = queue \ batch
    /\ executing' = batch
    /\ executor' = "waiting"
    /\ alias' = NoWorker
    /\ UNCHANGED <<poolVars, target, calls, d, fd, flusher, waiting, db,
                   status, epoch, ended, spent>>

(* execute, once wait_for_workers returned.                                *)
Acquire(w) ==
    /\ executor = "waiting" /\ event /\ executing # {}
    /\ AcquireWorker(w, executing)
    /\ executor' = "building"
    /\ target' = w
    /\ UNCHANGED <<queue, executing, alias, calls, d, fd, flusher, waiting, db,
                   status, epoch, ended, spent>>

AcquireFails ==
    /\ executor = "waiting" /\ event /\ executing # {}
    /\ AcquireNone
    /\ UNCHANGED esVars

(* Everything was dequeued while execute was waiting.                      *)
NothingLeft ==
    /\ executor = "waiting" /\ event /\ executing = {}
    /\ executor' = "idle"
    /\ UNCHANGED <<poolVars, queue, executing, target, alias, calls, d, fd,
                   flusher, waiting, db, status, epoch, ended, spent>>

RunningOn(w) == {i \in CallIds : calls[i] # NoCall /\ calls[i].worker = w
                                 /\ calls[i].state = "running"}

FreeCall == {i \in CallIds : calls[i] = NoCall}

(* The rest of acquire_worker and of execute. The call fails at once when  *)
(* the worker is not connected, or declines because it still works on an   *)
(* earlier call.                                                           *)
Send ==
    /\ executor = "building"
    /\ \A op \in executing : status[ObjectOf(op)] = "present"
    /\ FreeCall # {}
    /\ calls' = [calls EXCEPT ![CHOOSE i \in FreeCall : TRUE] =
           [worker |-> target,
            state |-> IF connected[target] /\ RunningOn(target) = {}
                      THEN "running" ELSE "error",
            jobs |-> [op \in executing |-> epoch[op]]]]
    /\ executing' = {} /\ executor' = "idle" /\ target' = NoWorker
    /\ UNCHANGED <<poolVars, queue, alias, d, fd, flusher, waiting, db, status,
                   epoch, ended, spent>>

(* JobGroup.from_operations raises, because the database fails or because  *)
(* an object was deleted. Executor.run logs the exception and goes on; the *)
(* batch stays in _currently_executing until the next call of execute, and *)
(* in the pool, in the same list.                                          *)
SendRaises ==
    /\ executor = "building"
    /\ \/ Spend("dberror")
       \/ /\ \E op \in executing : status[ObjectOf(op)] = "deleted"
          /\ UNCHANGED spent
    /\ executor' = "idle" /\ target' = NoWorker
    /\ alias' = IF Busy(target) THEN target ELSE NoWorker
    /\ UNCHANGED <<poolVars, queue, executing, calls, d, fd, flusher, waiting,
                   db, status, epoch, ended>>

-----------------------------------------------------------------------------
(* The workers and the connections to them.                                *)

(* Worker.execute_job_group returns, or fails as a whole.                  *)
WorkerAnswers(i) ==
    /\ calls[i] # NoCall /\ calls[i].state = "running"
    /\ \/ calls' = [calls EXCEPT ![i].state = "done"] /\ UNCHANGED spent
       \/ calls' = [calls EXCEPT ![i].state = "error"] /\ Spend("workerfail")
    /\ UNCHANGED <<poolVars, queue, executing, executor, target, alias, d, fd,
                   flusher, waiting, db, status, epoch, ended>>

WorkerConnects(w) == Connect(w) /\ UNCHANGED esVars

WorkerGreeted(w) == OnWorkerConnected(w) /\ UNCHANGED esVars

(* The client fails its pending requests, the server kills their threads.  *)
WorkerDisconnects(w) ==
    /\ Disconnect(w)
    /\ Spend("disconnect")
    /\ calls' = [i \in CallIds |-> IF i \in RunningOn(w)
           THEN [calls[i] EXCEPT !.state = "error"] ELSE calls[i]]
    /\ UNCHANGED <<queue, executing, executor, target, alias, d, fd, flusher,
                   waiting, db, status, epoch, ended>>

(* A worker takes longer than WORKER_TIMEOUT. check_timeouts also asks it  *)
(* to quit: if it does, what follows is WorkerDisconnects.                 *)
WorkerExpires(w) ==
    /\ Expire(w)
    /\ Spend("expire")
    /\ UNCHANGED <<queue, executing, executor, target, alias, calls, d, fd,
                   flusher, waiting, db, status, epoch, ended>>

(* action_finished. release_worker raises on an inactive worker and        *)
(* returns True on a disabled one: the results are dropped.                *)
ActionFinished(i) ==
    /\ LockFree
    /\ calls[i] # NoCall /\ calls[i].state # "running"
    /\ LET w == calls[i].worker
           jobs == calls[i].jobs
           results == IF calls[i].state = "error" THEN {}
                      ELSE Kept(w, DOMAIN jobs)
       IN  \/ /\ ReleaseBusy(w)
              /\ d' = [op \in results \cup DOMAIN d |->
                       IF op \in results THEN jobs[op] ELSE d[op]]
           \/ /\ ReleaseIdle(w)
              /\ UNCHANGED d
    /\ calls' = [calls EXCEPT ![i] = NoCall]
    /\ UNCHANGED <<queue, executing, executor, target, alias, fd, flusher,
                   waiting, db, status, epoch, ended, spent>>

(* check_workers_timeout, check_workers_connection and disable_worker, up  *)
(* to the first call of enqueue, which waits for the lock.                 *)
CheckWorkersTimeout ==
    /\ TimedOut # {}
    /\ CheckTimeouts
    /\ waiting' = waiting \cup LostToTimeouts
    /\ UNCHANGED <<queue, executing, executor, target, alias, calls, d, fd,
                   flusher, db, status, epoch, ended, spent>>

CheckWorkersConnection ==
    /\ Unreachable # {}
    /\ CheckConnections
    /\ waiting' = waiting \cup LostToDisconnections
    /\ UNCHANGED <<queue, executing, executor, target, alias, calls, d, fd,
                   flusher, db, status, epoch, ended, spent>>

DisableWorkerRPC(w) ==
    /\ DisableWorker(w)
    /\ Spend("disable")
    /\ waiting' = waiting \cup (IF Busy(w) THEN LostOn(w) ELSE {})
    /\ UNCHANGED <<queue, executing, executor, target, alias, calls, d, fd,
                   flusher, db, status, epoch, ended>>

(* Mutation: the executor is not woken up.                                 *)
EnableWorkerRPCSilently(w) == EnableWorkerSilently(w) /\ UNCHANGED esVars

EnableWorkerRPC(w) == EnableWorker(w) /\ UNCHANGED esVars

(* The call of enqueue such a greenlet was about to make.                  *)
EnqueueWaiting(op) ==
    /\ LockFree
    /\ op \in waiting
    /\ queue' = Enqueued({op})
    /\ waiting' = waiting \ {op}
    /\ UNCHANGED <<poolVars, executing, executor, target, alias, calls, d, fd,
                   flusher, db, status, epoch, ended, spent>>

-----------------------------------------------------------------------------
(* Requests.                                                               *)

(* ContestWebServer or PvPService stores a new object.                     *)
Create(x) ==
    /\ status[x] = "absent"
    /\ status' = [status EXCEPT ![x] = "present"]
    /\ UNCHANGED <<poolVars, queue, executing, executor, target, alias, calls,
                   d, fd, flusher, waiting, db, epoch, ended, spent>>

(* Mutation: a result is finalized whenever nothing is left to do.         *)
ToFinalizeAgain(data, X) ==
    {x \in X \ UserTests : GetOperations(data, x) = {} /\ CompilationSucceeded(data, x)}

(* submission_enqueue_operations and match_enqueue_operations finalize a   *)
(* result that has all its rows and no evaluation_outcome; a user test has *)
(* no such step.                                                           *)
ToFinalize(data, X) ==
    {x \in X \ UserTests : GetOperations(data, x) = {}
                           /\ ToEvaluate(data, x, MAX_EVALUATION_TRIES)}

Notified(X) == [m \in Matches |-> IF m \in X THEN ended[m] + 1 ELSE ended[m]]

(* new_submission and new_user_test read the database without the lock,    *)
(* and then enqueue; new_match does all of it under the lock. The request  *)
(* can be lost, and it can be served at any later time.                    *)
NewObject(x) ==
    /\ status[x] = "present"
    /\ Spend("notify")
    /\ \/ /\ x \notin Matches
          /\ waiting' = waiting \cup GetOperations(db, x)
          /\ UNCHANGED queue
       \/ /\ x \in Matches /\ LockFree
          /\ queue' = Enqueued(GetOperations(db, x))
          /\ UNCHANGED waiting
    /\ db' = SetEvaluationOutcome(db, ToFinalize(db, {x}))
    /\ ended' = Notified(ToFinalize(db, {x}))
    /\ UNCHANGED <<poolVars, executing, executor, target, alias, calls, d, fd,
                   flusher, status, epoch>>

(* _missing_operations, the sweeper.                                       *)
Sweep ==
    /\ LockFree
    /\ queue' = Enqueued(UNION {SweptOperations(db, x) : x \in Existing(Objects)})
    /\ UNCHANGED <<poolVars, executing, executor, target, alias, calls, d, fd,
                   flusher, waiting, db, status, epoch, ended, spent>>

(* invalidate_submission. dequeue needs _current_execution_lock for an     *)
(* operation that is not in the queue; deleting one from                   *)
(* _currently_executing deletes it from the pool's list when the two are   *)
(* the same.                                                               *)
InvalidateSubmission(x, level) ==
    LET ops == RelevantOperations(level, x)
        blank == Blanked(db, x, ops)
        stay == executing \ (ops \ queue)
        again == {op \in GetOperations(blank, x) :
                     /\ op \notin stay \cup DOMAIN d \cup DOMAIN fd
                     /\ ~InPool(op)}
    IN
    /\ LockFree
    /\ status[x] = "present"
    /\ executor # "building" \/ ops \subseteq queue
    /\ Spend("invalidate")
    /\ queue' = (queue \ ops) \cup again
    /\ executing' = stay
    /\ pool' = [w \in Workers |-> [pool[w] EXCEPT
           !.ops = IF w = alias THEN @ \ (executing \ stay) ELSE @,
           !.toIgnore = @ \cup {op \in ops : reverse[op] = w}]]
    /\ db' = blank
    /\ epoch' = [op \in Operations |->
           IF op \in ops THEN epoch[op] + 1 ELSE epoch[op]]
    /\ UNCHANGED <<reverse, event, connected, greeting, executor, target, alias,
                   calls, d, fd, flusher, waiting, status, ended>>

(* AdminWebServer deletes an object and, by cascade, its results.          *)
Delete(x) ==
    /\ status[x] = "present"
    /\ Spend("delete")
    /\ status' = [status EXCEPT ![x] = "deleted"]
    /\ db' = Blanked(db, x, OperationsOf(x))
    /\ UNCHANGED <<poolVars, queue, executing, executor, target, alias, calls,
                   d, fd, flusher, waiting, epoch, ended>>

-----------------------------------------------------------------------------
(* The FlushingDict and write_results.                                     *)

Flush ==
    /\ flusher = "checking"
    /\ d # <<>>
    /\ fd' = d /\ d' = <<>> /\ flusher' = "flushing"
    /\ UNCHANGED <<poolVars, queue, executing, executor, target, alias, calls,
                   waiting, db, status, epoch, ended, spent>>

(* The orders in which write_results takes the results: any order the      *)
(* results came in, with those of one object and type together.            *)
Orders(ops) ==
    {order \in SetToSeqs(ops) : \A i, j, k \in DOMAIN order :
        LET group(n) == <<IsCompilation(order[n]), ObjectOf(order[n])>>
        IN  i < j /\ j < k /\ group(i) = group(k) => group(i) = group(j)}

Written(results, order) ==
    LET after[n \in 0 .. Len(order)] ==
            IF n = 0 THEN db
            ELSE WriteRow(after[n - 1], order[n], results[order[n]], fd[order[n]])
    IN  after[Len(order)]

Reported(results, kind) ==
    Cardinality({op \in DOMAIN results : results[op] = kind})

(* The first pass and its commit. What each job reported is chosen here,   *)
(* where it is first looked at. Results of objects that are gone are       *)
(* skipped; a tombstone enqueues the compilation again at once.            *)
WriteRows ==
    /\ flusher = "flushing"
    /\ \E results \in [DOMAIN fd -> {"ok", "fail", "error", "tombstone"}],
          order \in Orders({op \in DOMAIN fd : status[ObjectOf(op)] = "present"}) :
          /\ \A op \in DOMAIN fd : results[op] \in Outcomes(op)
          /\ spent' = [spent EXCEPT
                 !["jobfail"] = @ + Reported(results, "error"),
                 !["tombstone"] = @ + Reported(results, "tombstone")]
          /\ Within
          /\ db' = Written(results, order)
          /\ queue' = Enqueued(UNION {GetOperations(db', x) :
                 x \in {y \in Existing(Submissions) :
                           /\ CompilationSucceeded(db, y)
                           /\ \E op \in DOMAIN fd : ObjectOf(op) = y
                                                    /\ results[op] = "tombstone"}})
    /\ flusher' = "rows"
    /\ UNCHANGED <<poolVars, executing, executor, target, alias, calls, d, fd,
                   waiting, status, epoch, ended>>

Flushed(isCompilation) ==
    {ObjectOf(op) : op \in {o \in DOMAIN fd : IsCompilation(o) = isCompilation}}

(* The second pass and its commit; it fails on a match that is gone.       *)
WriteOutcomes ==
    /\ flusher = "rows"
    /\ \A m \in Matches \cap Flushed(FALSE) : status[m] = "present"
    /\ db' = SetEvaluationOutcome(db, Existing(Flushed(FALSE)))
    /\ flusher' = "outcomes"
    /\ UNCHANGED <<poolVars, queue, executing, executor, target, alias, calls,
                   d, fd, waiting, status, epoch, ended, spent>>

(* The last pass, over the objects in X: compilation_ended,                *)
(* user_test_compilation_ended, user_test_evaluation_ended and, if the     *)
(* evaluation is complete, evaluation_ended and match_ended. Each enqueues *)
(* what its object needs next, while fd is still part of the cache.        *)
EndOperations(X) ==
    LET over == {x \in X : \/ x \in Flushed(TRUE) \cup UserTests
                           \/ db.evaluated[x]}
    IN  /\ queue' = Enqueued(UNION {GetOperations(db, x) : x \in over})
        /\ ended' = Notified({m \in over \cap Matches : db.evaluated[m]})
        /\ db' = SetEvaluationOutcome(db, ToFinalize(db, over))

WriteEnds ==
    /\ flusher = "outcomes"
    /\ LET objects == Flushed(TRUE) \cup Flushed(FALSE) IN
       /\ \A x \in objects : status[x] = "present"
       /\ EndOperations(objects)
    /\ flusher' = "checking"
    /\ fd' = <<>>
    /\ UNCHANGED <<poolVars, executing, executor, target, alias, calls, d,
                   waiting, status, epoch, spent>>

(* An exception in write_results ends the only greenlet that flushes: the  *)
(* database fails, or an object is gone (in the last pass, the objects     *)
(* before the exception are ended). fd keeps its contents, the lock is     *)
(* released.                                                               *)
FlusherDies ==
    /\ \/ /\ flusher \in {"flushing", "rows"}
          /\ Spend("dberror")
          /\ UNCHANGED <<queue, ended, db>>
       \/ /\ flusher = "rows"
          /\ \E m \in Matches \cap Flushed(FALSE) : status[m] = "deleted"
          /\ UNCHANGED <<queue, ended, db, spent>>
       \/ /\ flusher = "outcomes"
          /\ LET objects == Flushed(TRUE) \cup Flushed(FALSE) IN
             /\ \/ \E x \in objects : status[x] = "deleted" /\ UNCHANGED spent
                \/ Spend("dberror")
             /\ \E X \in SUBSET Existing(objects) : EndOperations(X)
    /\ flusher' = "dead"
    /\ UNCHANGED <<poolVars, executing, executor, target, alias, calls, d, fd,
                   waiting, status, epoch>>

-----------------------------------------------------------------------------
(* EvaluationService is killed and restarted: only the database survives,  *)
(* and the workers drop the jobs of the connection that was closed.        *)
Crash ==
    /\ Spend("crash")
    /\ Restart
    /\ queue' = {} /\ executing' = {} /\ executor' = "idle"
    /\ target' = NoWorker /\ alias' = NoWorker
    /\ calls' = [i \in CallIds |-> NoCall]
    /\ d' = <<>> /\ fd' = <<>> /\ flusher' = "checking"
    /\ waiting' = {}
    /\ UNCHANGED <<db, status, epoch, ended>>

Next ==
    \/ \E batch \in SUBSET queue : Pop(batch)
    \/ \E w \in Workers : Acquire(w)
    \/ AcquireFails
    \/ NothingLeft
    \/ Send
    \/ SendRaises
    \/ \E i \in CallIds : WorkerAnswers(i)
    \/ \E w \in Workers : WorkerConnects(w)
    \/ \E w \in Workers : WorkerGreeted(w)
    \/ \E w \in Workers : WorkerDisconnects(w)
    \/ \E w \in Workers : WorkerExpires(w)
    \/ \E i \in CallIds : ActionFinished(i)
    \/ CheckWorkersTimeout
    \/ CheckWorkersConnection
    \/ \E w \in Workers : DisableWorkerRPC(w)
    \/ \E w \in Workers : EnableWorkerRPC(w)
    \/ \E op \in Operations : EnqueueWaiting(op)
    \/ \E x \in Objects : Create(x)
    \/ \E x \in Objects : NewObject(x)
    \/ Sweep
    \/ \E x \in Submissions, level \in {"compilation", "evaluation"} :
          InvalidateSubmission(x, level)
    \/ \E x \in Objects : Delete(x)
    \/ Flush
    \/ WriteRows
    \/ WriteOutcomes
    \/ WriteEnds
    \/ FlusherDies
    \/ Crash

Spec == Init /\ [][Next]_vars

(* The greenlets of EvaluationService run on, the timers fire, workers     *)
(* answer and connections that were lost are tried again. Nothing obliges  *)
(* an administrator to do anything, or a notification to arrive.           *)
Fairness ==
    /\ WF_vars(\E batch \in SUBSET queue : Pop(batch))
    /\ WF_vars((\E w \in Workers : Acquire(w)) \/ AcquireFails \/ NothingLeft)
    /\ WF_vars(Send \/ SendRaises)
    /\ \A i \in CallIds : WF_vars(WorkerAnswers(i)) /\ WF_vars(ActionFinished(i))
    /\ \A w \in Workers : WF_vars(WorkerConnects(w)) /\ WF_vars(WorkerGreeted(w))
    /\ WF_vars(CheckWorkersTimeout)
    /\ WF_vars(CheckWorkersConnection)
    /\ \A op \in Operations : WF_vars(EnqueueWaiting(op))
    /\ WF_vars(Sweep)
    /\ WF_vars(Flush)
    /\ WF_vars(WriteRows \/ WriteOutcomes \/ WriteEnds \/ FlusherDies)

FairSpec == Spec /\ Fairness

-----------------------------------------------------------------------------
(* The service uses the pool as the pool expects: every step, the          *)
(* interleavings of acquire_worker with everything else included, is a     *)
(* step PoolSpec allows, and no operation is acquired that is in the pool  *)
(* already. What is proved of PoolSpec then holds of the service.          *)
PoolRefined == PoolSpec

(* An operation is not queued while it is extracted or with a worker. It   *)
(* is extracted and with a worker only while its jobs are read from the    *)
(* database, or after that failed.                                         *)
QueuedOnce ==
    \A op \in Operations :
       /\ op \in queue => op \notin executing /\ ~InPool(op)
       /\ op \in executing /\ InPool(op) =>
              executor = "building" \/ alias = reverse[op]

CachedOnce ==
    \A op \in DOMAIN d \cup DOMAIN fd :
       op \notin queue \cup executing /\ ~InPool(op)

(* The four states of the comment on post_finish_lock exclude each other:  *)
(* an operation is not queued while it is extracted or with a worker, and  *)
(* neither again while its result waits in the cache, whatever the         *)
(* interleaving of the executor, which does not take the lock, with the    *)
(* greenlets that enqueue.                                                 *)
OnePlace == QueuedOnce /\ CachedOnce

(* A result that comes back for operations assigned before an invalidation *)
(* never enters the cache: what action_finished adds was computed for the  *)
(* current epoch.                                                          *)
NoOutdatedResultAccepted ==
    [][\A op \in DOMAIN d' : op \notin DOMAIN d => d'[op] = epoch[op]]_vars

(* No data of before an invalidation is stored after it.                   *)
NoOutdatedData ==
    \A op \in Operations : db.outcome[op] # "none" => db.version[op] = epoch[op]

(* evaluation_outcome says the truth, whatever was rejudged, written twice *)
(* or interrupted between the two commits of write_results: a result that  *)
(* is marked as evaluated has all its evaluations.                         *)
EvaluatedIsComplete ==
    \A x \in Objects : db.evaluated[x] => Unevaluated(db, x) = {}

(* A result to which nothing more has to happen: the sources do not        *)
(* compile, everything is evaluated, or the tries are used up.             *)
Judged(x) ==
    \/ CompilationFailed(db, x)
    \/ db.evaluated[x]
    \/ db.compilation_tries[x] >= IF x \in UserTests
           THEN MAX_USER_TEST_COMPILATION_TRIES ELSE MAX_COMPILATION_TRIES
    \/ db.evaluation_tries[x] >= IF x \in UserTests
           THEN MAX_USER_TEST_EVALUATION_TRIES ELSE MAX_EVALUATION_TRIES

(* The sweeper's promise to "look in the database for submissions that     *)
(* have not been compiled or evaluated for no good reasons": whatever is   *)
(* stored is judged in the end, though the notification, the job group and *)
(* the connection can be lost.                                             *)
EventuallyJudged ==
    \A x \in Objects : status[x] = "present" ~> (Judged(x) \/ status[x] = "deleted")

(* PvPService hears of the end of each match at most once.                 *)
MatchEndedOnce == \A m \in Matches : ended[m] <= 1

=============================================================================
