----------------------------- MODULE WorkerPool -----------------------------
(***************************************************************************)
(* IO::Event::WorkerPool (ext/io/event/worker_pool.c): fibers hand blocking *)
(* operations to a pool of threads that run them without the GVL.           *)
(*                                                                          *)
(* Granularity.  Code that holds the GVL is atomic up to the next call that *)
(* can switch threads; a critical section of pool->mutex is atomic; the     *)
(* condition variable is the set of workers at "wait".  A fiber has at most *)
(* one call in progress, so the Work structure on its stack is named by the *)
(* fiber: `queue` and `work` hold pointers to such frames.                  *)
(*                                                                          *)
(* The environment interrupts fibers (Fiber#raise through the scheduler)    *)
(* and worker threads (Thread#wakeup, Thread#kill, VM termination).         *)
(***************************************************************************)
EXTENDS Naturals, Sequences, FiniteSets

CONSTANTS
    Workers,          \* the threads initialize tries to create (maximum_worker_count)
    Fibers,           \* fibers that submit blocking operations
    None,             \* the NULL pointer
    MinimumCreated,   \* bound: at least this many worker threads are created
    MaxCalls,         \* bound: worker_pool_call is entered this often
    MaxRaises,        \* bound: exceptions sent to fibers
    MaxInterrupts,    \* bound: interrupts sent to worker threads
    MayKill,          \* worker threads may be killed, not only woken
    MayClose          \* the pool may be closed or garbage collected

ASSUME WorkersAssumption == IsFiniteSet(Workers) /\ None \notin Workers
ASSUME FibersAssumption == IsFiniteSet(Fibers) /\ None \notin Fibers
ASSUME BoundsAssumption ==
    /\ MinimumCreated \in Nat /\ MaxCalls \in Nat
    /\ MaxRaises \in Nat /\ MaxInterrupts \in Nat
    /\ MayKill \in BOOLEAN /\ MayClose \in BOOLEAN

VARIABLES
    phase,            \* life of the pool object and of the thread that closes it
    mutex,            \* pool->mutex: usable or destroyed
    misused,          \* a destroyed mutex was locked
    shutdown,         \* pool->shutdown
    queue,            \* pool->work_queue: frames, oldest first
    callCount,        \* pool->call_count
    completedCount,   \* pool->completed_count
    wpc,              \* where each worker thread is
    work,             \* the frame a worker has dequeued
    interrupted,      \* worker->interrupted
    ubf,              \* worker_unblock_func is between its unlock and its return
    killed,           \* a kill or an exception is pending for the worker thread
    target,           \* the fiber a worker is about to unblock
    fpc,              \* fiber: outside a call, or blocked in one
    completed,        \* work->completed
    state,            \* `state` of worker_pool_call: an exception is to be re-raised
    result,           \* how the fiber's last call ended
    op,               \* status of the fiber's blocking operation
    wakes,            \* entries of the fiber in its scheduler's ready list
    raises,           \* exceptions in that ready list for the fiber
    sentRaises,       \* exceptions sent so far
    sentInterrupts    \* interrupts sent so far

poolVars   == <<phase, mutex, misused, shutdown>>
countVars  == <<callCount, completedCount>>
workerVars == <<wpc, work, interrupted, ubf, killed, target>>
fiberVars  == <<fpc, completed, state, result>>
readyVars  == <<wakes, raises>>
sentVars   == <<sentRaises, sentInterrupts>>
vars == <<poolVars, queue, countVars, workerVars, fiberVars, op, readyVars, sentVars>>

Phases == {"allocated", "open", "joining", "closed", "aborted", "collected"}

\* Worker threads: not created, holding the GVL before the blocking region,
\* about to take the mutex, asleep on work_available, with dequeued work, with
\* current_blocking_operation set, running the operation, about to leave the
\* blocking region, about to unblock the fiber, finished.
WorkerStates == {"none", "gvl", "lock", "wait", "got", "start", "run", "leave", "unblock", "dead"}

OpStates == {"none", "queued", "executing", "completed", "cancelled"}

TypeOK ==
    /\ phase \in Phases
    /\ mutex \in {"live", "destroyed"}
    /\ misused \in BOOLEAN
    /\ shutdown \in BOOLEAN
    /\ queue \in Seq(Fibers)
    /\ callCount \in Nat
    /\ completedCount \in Nat
    /\ wpc \in [Workers -> WorkerStates]
    /\ work \in [Workers -> Fibers \cup {None}]
    /\ interrupted \in [Workers -> BOOLEAN]
    /\ ubf \in [Workers -> BOOLEAN]
    /\ killed \in [Workers -> BOOLEAN]
    /\ target \in [Workers -> Fibers \cup {None}]
    /\ fpc \in [Fibers -> {"idle", "blocked"}]
    /\ completed \in [Fibers -> BOOLEAN]
    /\ state \in [Fibers -> BOOLEAN]
    /\ result \in [Fibers -> {"none", "true", "raised"}]
    /\ op \in [Fibers -> OpStates]
    /\ wakes \in [Fibers -> Nat]
    /\ raises \in [Fibers -> Nat]
    /\ sentRaises \in Nat
    /\ sentInterrupts \in Nat

-----------------------------------------------------------------------------
(***************************************************************************)
(* The condition variable and the blocking operation                        *)
(***************************************************************************)

Waiting == {w \in Workers : wpc[w] = "wait"}

\* pthread_cond_broadcast: every waiter goes back to acquiring the mutex.
Broadcast == [w \in Workers |-> IF wpc[w] = "wait" THEN "lock" ELSE wpc[w]]

\* pthread_cond_signal: one waiter, if there is one.
Signal ==
    IF Waiting = {} THEN wpc' = wpc
    ELSE \E w \in Waiting : wpc' = [wpc EXCEPT ![w] = "lock"]

\* rb_fiber_scheduler_blocking_operation_cancel: an operation that has not
\* finished becomes cancelled (a running one is told to stop).
Cancelled(s) == IF s \in {"queued", "executing"} THEN "cancelled" ELSE s

-----------------------------------------------------------------------------
(***************************************************************************)
(* Creation, close and collection of the pool                               *)
(***************************************************************************)

Init ==
    /\ phase = "allocated"
    /\ mutex = "live"
    /\ misused = FALSE
    /\ shutdown = FALSE
    /\ queue = <<>>
    /\ callCount = 0
    /\ completedCount = 0
    /\ wpc = [w \in Workers |-> "none"]
    /\ work = [w \in Workers |-> None]
    /\ interrupted = [w \in Workers |-> FALSE]
    /\ ubf = [w \in Workers |-> FALSE]
    /\ killed = [w \in Workers |-> FALSE]
    /\ target = [w \in Workers |-> None]
    /\ fpc = [f \in Fibers |-> "idle"]
    /\ completed = [f \in Fibers |-> FALSE]
    /\ state = [f \in Fibers |-> FALSE]
    /\ result = [f \in Fibers |-> "none"]
    /\ op = [f \in Fibers |-> "none"]
    /\ wakes = [f \in Fibers |-> 0]
    /\ raises = [f \in Fibers |-> 0]
    /\ sentRaises = 0
    /\ sentInterrupts = 0

\* worker_pool_initialize: creation stops at the first thread that cannot be
\* created, and the pool is usable all the same.
Initialize ==
    /\ phase = "allocated"
    /\ phase' = "open"
    /\ \E created \in SUBSET Workers :
          /\ Cardinality(created) >= MinimumCreated
          /\ wpc' = [w \in Workers |-> IF w \in created THEN "gvl" ELSE "none"]
    /\ UNCHANGED <<mutex, misused, shutdown, queue, countVars, work, interrupted, ubf, killed,
                   target, fiberVars, op, readyVars, sentVars>>

\* Mutant: the sleeping workers are not told of the shutdown.
CloseBeginSilently ==
    /\ MayClose
    /\ phase = "open"
    /\ phase' = "joining"
    /\ shutdown' = TRUE
    /\ wpc' = wpc
    /\ UNCHANGED <<mutex, misused, queue, countVars, work, interrupted, ubf, killed, target,
                   fiberVars, op, readyVars, sentVars>>

\* worker_pool_close up to the first join.  A second close returns at once.
CloseBegin ==
    /\ MayClose
    /\ phase = "open"
    /\ phase' = "joining"
    /\ shutdown' = TRUE
    /\ wpc' = Broadcast
    /\ UNCHANGED <<mutex, misused, queue, countVars, work, interrupted, ubf, killed, target,
                   fiberVars, op, readyVars, sentVars>>

\* Mutant: the mutex is destroyed without joining the threads.
CloseEndUnjoined ==
    /\ phase = "joining"
    /\ phase' = "closed"
    /\ mutex' = "destroyed"
    /\ UNCHANGED <<misused, shutdown, queue, countVars, workerVars, fiberVars, op, readyVars,
                   sentVars>>

\* worker_pool_close once every thread has been joined: the worker structures
\* are freed and the mutex is destroyed.
CloseEnd ==
    /\ phase = "joining"
    /\ \A w \in Workers : wpc[w] \in {"none", "dead"}
    /\ phase' = "closed"
    /\ mutex' = "destroyed"
    /\ UNCHANGED <<misused, shutdown, queue, countVars, workerVars, fiberVars, op, readyVars,
                   sentVars>>

\* An exception in the closing thread leaves Thread#join and worker_pool_close;
\* a later close sees shutdown and does nothing.
CloseAborted ==
    /\ phase = "joining"
    /\ phase' = "aborted"
    /\ UNCHANGED <<mutex, misused, shutdown, queue, countVars, workerVars, fiberVars, op,
                   readyVars, sentVars>>

\* worker_pool_free, run by the collector: a fiber in a call keeps the pool
\* reachable through its stack.
Free ==
    /\ MayClose
    /\ phase = "open"
    /\ \A f \in Fibers : fpc[f] = "idle"
    /\ phase' = "collected"
    /\ shutdown' = TRUE
    /\ wpc' = Broadcast
    /\ UNCHANGED <<mutex, misused, queue, countVars, work, interrupted, ubf, killed, target,
                   fiberVars, op, readyVars, sentVars>>

\* worker_pool_statistics locks the mutex of every pool that was initialized.
Statistics ==
    /\ phase \in {"open", "joining", "closed", "aborted"}
    /\ misused' = (misused \/ mutex = "destroyed")
    /\ UNCHANGED <<phase, mutex, shutdown, queue, countVars, workerVars, fiberVars, op,
                   readyVars, sentVars>>

-----------------------------------------------------------------------------
(***************************************************************************)
(* worker_pool_call, run by a fiber                                         *)
(***************************************************************************)

\* enqueue_work
Enqueue(f) == queue' = Append(queue, f)

\* Mutant: the work is queued and no worker is signalled.
CallSilently(f) ==
    /\ phase \in {"open", "joining", "closed", "aborted"}
    /\ fpc[f] = "idle"
    /\ ~shutdown
    /\ callCount < MaxCalls
    /\ callCount' = callCount + 1
    /\ Enqueue(f)
    /\ wpc' = wpc
    /\ fpc' = [fpc EXCEPT ![f] = "blocked"]
    /\ completed' = [completed EXCEPT ![f] = FALSE]
    /\ state' = [state EXCEPT ![f] = FALSE]
    /\ result' = [result EXCEPT ![f] = "none"]
    /\ op' = [op EXCEPT ![f] = "queued"]
    /\ UNCHANGED <<poolVars, completedCount, work, interrupted, ubf, killed, target, readyVars,
                   sentVars>>

\* From entry to rb_fiber_scheduler_block: the frame is queued, one worker is
\* signalled, the fiber blocks.
Call(f) ==
    /\ phase \in {"open", "joining", "closed", "aborted"}
    /\ fpc[f] = "idle"
    /\ ~shutdown
    /\ callCount < MaxCalls
    /\ callCount' = callCount + 1
    /\ Enqueue(f)
    /\ Signal
    /\ fpc' = [fpc EXCEPT ![f] = "blocked"]
    /\ completed' = [completed EXCEPT ![f] = FALSE]
    /\ state' = [state EXCEPT ![f] = FALSE]
    /\ result' = [result EXCEPT ![f] = "none"]
    /\ op' = [op EXCEPT ![f] = "queued"]
    /\ UNCHANGED <<poolVars, completedCount, work, interrupted, ubf, killed, target, readyVars,
                   sentVars>>

\* No scheduler, or not a blocking operation: the call was already counted.
CallRejected(f) ==
    /\ phase \in {"open", "joining", "closed", "aborted"}
    /\ fpc[f] = "idle"
    /\ ~shutdown
    /\ callCount < MaxCalls
    /\ callCount' = callCount + 1
    /\ result' = [result EXCEPT ![f] = "raised"]
    /\ UNCHANGED <<poolVars, queue, completedCount, workerVars, fpc, completed, state, op,
                   readyVars, sentVars>>

\* Mutant: the call cancels its operation and does not wait for the worker.
AfterBlockReturns(f, raised) ==
    /\ state' = [state EXCEPT ![f] = @ \/ raised]
    /\ fpc' = [fpc EXCEPT ![f] = "idle"]
    /\ result' = [result EXCEPT ![f] = IF state'[f] THEN "raised" ELSE "true"]
    /\ op' = [op EXCEPT ![f] = Cancelled(@)]
    /\ UNCHANGED <<poolVars, queue, countVars, workerVars, completed, sentVars>>

\* Mutant: every wakeup overwrites `state`.
AfterBlockForgets(f, raised) ==
    /\ state' = [state EXCEPT ![f] = raised]
    /\ IF completed[f]
       THEN /\ fpc' = [fpc EXCEPT ![f] = "idle"]
            /\ result' = [result EXCEPT ![f] = IF state'[f] THEN "raised" ELSE "true"]
            /\ UNCHANGED op
       ELSE /\ op' = [op EXCEPT ![f] = Cancelled(@)]
            /\ UNCHANGED <<fpc, result>>
    /\ UNCHANGED <<poolVars, queue, countVars, workerVars, completed, sentVars>>

\* rb_fiber_scheduler_block returned, by an exception when `raised`: the call
\* returns if the work is completed, else cancels the operation and blocks again.
AfterBlock(f, raised) ==
    /\ state' = [state EXCEPT ![f] = @ \/ raised]
    /\ IF completed[f]
       THEN /\ fpc' = [fpc EXCEPT ![f] = "idle"]
            /\ result' = [result EXCEPT ![f] = IF state'[f] THEN "raised" ELSE "true"]
            /\ UNCHANGED op
       ELSE /\ op' = [op EXCEPT ![f] = Cancelled(@)]
            /\ UNCHANGED <<fpc, result>>
    /\ UNCHANGED <<poolVars, queue, countVars, workerVars, completed, sentVars>>

\* Mutant: an entry is taken from a ready list that has none.
ResumeUnready(f) ==
    /\ fpc[f] = "blocked"
    /\ wakes' = [wakes EXCEPT ![f] = @ - 1]
    /\ UNCHANGED raises
    /\ AfterBlock(f, FALSE)

\* The scheduler transfers to a blocked fiber because of a ready-list entry.
Resume(f) ==
    /\ fpc[f] = "blocked"
    /\ wakes[f] > 0
    /\ wakes' = [wakes EXCEPT ![f] = @ - 1]
    /\ UNCHANGED raises
    /\ AfterBlock(f, FALSE)

\* The scheduler raises in a blocked fiber.
Raise(f) ==
    /\ fpc[f] = "blocked"
    /\ raises[f] > 0
    /\ raises' = [raises EXCEPT ![f] = @ - 1]
    /\ UNCHANGED wakes
    /\ AfterBlock(f, TRUE)

\* Ready-list entries that meet the fiber while it waits for something else.
ResumeElsewhere(f) ==
    /\ fpc[f] = "idle"
    /\ \/ wakes[f] > 0 /\ wakes' = [wakes EXCEPT ![f] = @ - 1] /\ UNCHANGED raises
       \/ raises[f] > 0 /\ raises' = [raises EXCEPT ![f] = @ - 1] /\ UNCHANGED wakes
    /\ UNCHANGED <<poolVars, queue, countVars, workerVars, fiberVars, op, sentVars>>

\* Another fiber or thread asks the scheduler to raise in f (fiber_interrupt).
Interrupt(f) ==
    /\ sentRaises < MaxRaises
    /\ sentRaises' = sentRaises + 1
    /\ raises' = [raises EXCEPT ![f] = @ + 1]
    /\ UNCHANGED <<poolVars, queue, countVars, workerVars, fiberVars, op, wakes, sentInterrupts>>

-----------------------------------------------------------------------------
(***************************************************************************)
(* worker_thread_func and worker_wait_and_execute                           *)
(***************************************************************************)

\* rb_thread_call_without_gvl handles pending interrupts, then releases the GVL.
EnterRegion(w) ==
    /\ wpc[w] = "gvl"
    /\ wpc' = [wpc EXCEPT ![w] = IF killed[w] THEN "dead" ELSE "lock"]
    /\ UNCHANGED <<poolVars, queue, countVars, work, interrupted, ubf, killed, target,
                   fiberVars, op, readyVars, sentVars>>

\* Mutant: the work stays in the queue.
DequeueKeeps(w) ==
    /\ work' = [work EXCEPT ![w] = Head(queue)]
    /\ UNCHANGED queue

\* dequeue_work
Dequeue(w) ==
    /\ work' = [work EXCEPT ![w] = Head(queue)]
    /\ queue' = Tail(queue)

\* With the mutex: wait, leave on shutdown or interruption, or dequeue.
Acquire(w) ==
    /\ wpc[w] = "lock"
    /\ \/ /\ queue = <<>> /\ ~shutdown /\ ~interrupted[w]
          /\ wpc' = [wpc EXCEPT ![w] = "wait"]
          /\ UNCHANGED <<queue, work>>
       \/ /\ shutdown \/ interrupted[w]
          /\ wpc' = [wpc EXCEPT ![w] = "leave"]
          /\ UNCHANGED <<queue, work>>
       \/ /\ queue # <<>> /\ ~shutdown /\ ~interrupted[w]
          /\ wpc' = [wpc EXCEPT ![w] = "got"]
          /\ Dequeue(w)
    /\ UNCHANGED <<poolVars, countVars, interrupted, ubf, killed, target, fiberVars, op,
                   readyVars, sentVars>>

\* pthread_cond_wait may return without a signal.
SpuriousWakeup(w) ==
    /\ wpc[w] = "wait"
    /\ wpc' = [wpc EXCEPT ![w] = "lock"]
    /\ UNCHANGED <<poolVars, queue, countVars, work, interrupted, ubf, killed, target,
                   fiberVars, op, readyVars, sentVars>>

\* worker->current_blocking_operation = work->blocking_operation
SetCurrent(w) ==
    /\ wpc[w] = "got"
    /\ wpc' = [wpc EXCEPT ![w] = "start"]
    /\ UNCHANGED <<poolVars, queue, countVars, work, interrupted, ubf, killed, target,
                   fiberVars, op, readyVars, sentVars>>

\* rb_fiber_scheduler_blocking_operation_execute runs only a queued operation.
Start(w) ==
    /\ wpc[w] = "start"
    /\ LET f == work[w]
       IN  IF op[f] = "queued"
           THEN /\ op' = [op EXCEPT ![f] = "executing"]
                /\ wpc' = [wpc EXCEPT ![w] = "run"]
           ELSE /\ wpc' = [wpc EXCEPT ![w] = "leave"]
                /\ UNCHANGED op
    /\ UNCHANGED <<poolVars, queue, countVars, work, interrupted, ubf, killed, target,
                   fiberVars, readyVars, sentVars>>

\* The operation ends; current_blocking_operation is reset.
Finish(w) ==
    /\ wpc[w] = "run"
    /\ op' = [op EXCEPT ![work[w]] = IF @ = "executing" THEN "completed" ELSE @]
    /\ wpc' = [wpc EXCEPT ![w] = "leave"]
    /\ UNCHANGED <<poolVars, queue, countVars, work, interrupted, ubf, killed, target,
                   fiberVars, readyVars, sentVars>>

\* The region ends (not while the unblock function runs: CRuby holds the
\* thread's interrupt lock around it), pending interrupts are handled, and the
\* thread ends without work or completes its work.
LeaveRegion(w) ==
    /\ wpc[w] = "leave"
    /\ ~ubf[w]
    /\ IF killed[w] \/ work[w] = None
       THEN /\ wpc' = [wpc EXCEPT ![w] = "dead"]
            /\ UNCHANGED <<completed, completedCount, target>>
       ELSE /\ wpc' = [wpc EXCEPT ![w] = "unblock"]
            /\ completed' = [completed EXCEPT ![work[w]] = TRUE]
            /\ completedCount' = completedCount + 1
            /\ target' = [target EXCEPT ![w] = work[w]]
    /\ work' = [work EXCEPT ![w] = None]
    /\ UNCHANGED <<poolVars, queue, callCount, interrupted, ubf, killed, fpc, state, result,
                   op, readyVars, sentVars>>

\* rb_fiber_scheduler_unblock: the scheduler's unblock hook appends the fiber to
\* its ready list.  The hook is Ruby code: a pending kill may end it early.
Unblock(w) ==
    /\ wpc[w] = "unblock"
    /\ \/ /\ killed[w]
          /\ wpc' = [wpc EXCEPT ![w] = "dead"]
          /\ UNCHANGED wakes
       \/ /\ wpc' = [wpc EXCEPT ![w] = "gvl"]
          /\ wakes' = [wakes EXCEPT ![target[w]] = @ + 1]
    /\ target' = [target EXCEPT ![w] = None]
    /\ UNCHANGED <<poolVars, queue, countVars, work, interrupted, ubf, killed, fiberVars, op,
                   raises, sentVars>>

-----------------------------------------------------------------------------
(***************************************************************************)
(* Interrupts of a worker thread, worker_unblock_func                       *)
(***************************************************************************)

InRegion == {"lock", "wait", "got", "start", "run", "leave"}

\* Mutant: worker_unblock_func wakes one worker, which may be another one.
InterruptSignals(w, kill) ==
    /\ sentInterrupts < MaxInterrupts
    /\ wpc[w] \in InRegion
    /\ ~ubf[w]
    /\ sentInterrupts' = sentInterrupts + 1
    /\ killed' = [killed EXCEPT ![w] = @ \/ kill]
    /\ interrupted' = [interrupted EXCEPT ![w] = TRUE]
    /\ Signal
    /\ ubf' = [ubf EXCEPT ![w] = TRUE]
    /\ UNCHANGED <<poolVars, queue, countVars, work, target, fiberVars, op, readyVars,
                   sentRaises>>

\* The interrupt reaches a thread in its blocking region, where CRuby calls
\* worker_unblock_func: the critical section.
InterruptInRegion(w, kill) ==
    /\ sentInterrupts < MaxInterrupts
    /\ wpc[w] \in InRegion
    /\ ~ubf[w]
    /\ sentInterrupts' = sentInterrupts + 1
    /\ killed' = [killed EXCEPT ![w] = @ \/ kill]
    /\ interrupted' = [interrupted EXCEPT ![w] = TRUE]
    /\ wpc' = Broadcast
    /\ ubf' = [ubf EXCEPT ![w] = TRUE]
    /\ UNCHANGED <<poolVars, queue, countVars, work, target, fiberVars, op, readyVars,
                   sentRaises>>

\* worker_unblock_func after its unlock: the current operation is read without
\* the mutex and cancelled.
CancelCurrent(w) ==
    /\ ubf[w]
    /\ ubf' = [ubf EXCEPT ![w] = FALSE]
    /\ IF wpc[w] \in {"start", "run"}
       THEN op' = [op EXCEPT ![work[w]] = Cancelled(@)]
       ELSE UNCHANGED op
    /\ UNCHANGED <<poolVars, queue, countVars, wpc, work, interrupted, killed, target,
                   fiberVars, readyVars, sentVars>>

\* A kill that meets the thread outside its region stays pending.
KillOutsideRegion(w) ==
    /\ sentInterrupts < MaxInterrupts
    /\ wpc[w] \in {"gvl", "unblock"}
    /\ sentInterrupts' = sentInterrupts + 1
    /\ killed' = [killed EXCEPT ![w] = TRUE]
    /\ UNCHANGED <<poolVars, queue, countVars, wpc, work, interrupted, ubf, target, fiberVars,
                   op, readyVars, sentRaises>>

-----------------------------------------------------------------------------

Pool == Initialize \/ CloseBegin \/ CloseEnd \/ CloseAborted \/ Free \/ Statistics

Fiber(f) ==
    \/ Call(f) \/ CallRejected(f)
    \/ Resume(f) \/ Raise(f) \/ ResumeElsewhere(f) \/ Interrupt(f)

Run(w) ==
    EnterRegion(w) \/ Acquire(w) \/ SetCurrent(w) \/ Start(w) \/ Finish(w) \/ LeaveRegion(w)
                   \/ Unblock(w) \/ CancelCurrent(w)

Worker(w) ==
    \/ Run(w)
    \/ SpuriousWakeup(w)
    \/ InterruptInRegion(w, FALSE)
    \/ MayKill /\ (InterruptInRegion(w, TRUE) \/ KillOutsideRegion(w))

Next == Pool \/ (\E f \in Fibers : Fiber(f)) \/ (\E w \in Workers : Worker(w))

Spec == Init /\ [][Next]_vars

\* Threads are scheduled by the operating system and operations end; a scheduler
\* resumes what is in its ready list; Thread#join returns once the thread ended.
Fairness ==
    /\ WF_vars(Initialize)
    /\ WF_vars(CloseEnd)
    /\ \A w \in Workers : WF_vars(Run(w))
    /\ \A f \in Fibers : WF_vars(Resume(f) \/ Raise(f))

FairSpec == Spec /\ Fairness

-----------------------------------------------------------------------------
(***************************************************************************)
(* Properties                                                               *)
(***************************************************************************)

Queued == {queue[i] : i \in 1..Len(queue)}

Held == {f \in Fibers : \E w \in Workers : work[w] = f}

\* A frame in the queue or in a worker's hands belongs to a call that has not
\* returned: worker_pool_call never leaves a pointer to its stack behind.
NoDanglingWork ==
    \A f \in Queued \cup Held : fpc[f] = "blocked" /\ ~completed[f]

\* Work is in one place only: never queued twice, never held by two workers,
\* never held while queued.
SingleOwner ==
    /\ \A i, j \in 1..Len(queue) : queue[i] = queue[j] => i = j
    /\ \A v, w \in Workers : work[v] # None /\ work[v] = work[w] => v = w
    /\ Queued \cap Held = {}

\* When a call has returned its operation is over: it has been completed or cancelled,
\* and no worker runs it, not even one that was cancelled while it was executed, or is
\* about to.
SettledOnReturn ==
    \A f \in Fibers : fpc[f] = "idle" =>
        /\ op[f] \notin {"queued", "executing"}
        /\ f \notin Queued
        /\ \A w \in Workers : wpc[w] \in {"got", "start", "run"} => work[w] # f

Takers == {w \in Workers : wpc[w] = "lock" /\ ~interrupted[w]}

\* Work does not wait for a sleeping worker: while a worker sleeps on
\* work_available, enough others that will take work are on their way to the
\* mutex for every queued item, whoever consumed the signals.
NoIdleWorker ==
    Waiting # {} => Cardinality(Takers) >= Len(queue)

\* worker_pool_close destroys the mutex only when no worker thread can use it again.
ClosedMeansStopped ==
    mutex = "destroyed" => \A w \in Workers : wpc[w] \in {"none", "dead"} /\ ~ubf[w]

\* The mutex is only locked between its initialization and its destruction.
MutexLive == ~misused

\* A call that returns true has had its operation executed to completion.
TrueMeansExecuted == \A f \in Fibers : result[f] = "true" => op[f] = "completed"

\* Nobody is left for a queued call: the pool is shut down, a worker thread was
\* killed, or every worker thread has ended or will end without taking work.
Deserted ==
    \/ shutdown
    \/ \E w \in Workers : killed[w]
    \/ \A w \in Workers : wpc[w] \in {"none", "dead"} \/ interrupted[w]

\* Every call returns, though it blocks again after each wakeup that is not its
\* completion, unless the workers are gone.
CallReturns == \A f \in Fibers : fpc[f] = "blocked" ~> fpc[f] = "idle" \/ Deserted

\* An exception delivered to a fiber inside a call is raised when the call ends,
\* whatever wakeups come in between.
ExceptionSurfaces ==
    \A f \in Fibers : state[f] /\ fpc[f] = "blocked" ~> result[f] = "raised" \/ Deserted

\* "If the work is still in the queue, we must wait for a worker to complete it"
\* (worker_pool.c:372): a call that was accepted returns.
AcceptedReturns == \A f \in Fibers : fpc[f] = "blocked" ~> fpc[f] = "idle"

\* worker_pool_close does not wait for ever.
CloseReturns == phase = "joining" ~> phase \in {"closed", "aborted"}

=============================================================================
