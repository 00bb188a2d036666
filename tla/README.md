# A TLA+ model of io-event

io-event gives Ruby fiber schedulers an event loop: selectors that wait for descriptors,
processes and wakeups (EPoll, URing, KQueue and a pure-Ruby `Select`), timers, and a pool
of threads for blocking operations. This directory models its core, checks it with TLC
and proves its safety with TLAPS.

Paths below are relative to the repository; `PROJECT.json` maps every definition to the
lines it models.

## Inventory

| Component | State | Operations | What is hard | What makes it correct |
|---|---|---|---|---|
| WorkerPool (`ext/io/event/worker_pool.c`) | work queue, shutdown, mutex and condition variable, counters; per worker: position, current operation, interrupted; per call: a `Work` structure on the fiber's stack | `initialize`, `call`, `close`, `free`, `statistics`; the worker loop; `worker_unblock_func` | threads without the GVL; interrupts of fibers and of threads at any point; pointers to stack frames | no pointer outlives its frame; one worker per work; no signal is lost; calls and `close` return; exceptions surface |
| Ready queue (`selector/selector.c`, `.h`, `fiber.c`) | doubly linked list of nodes, on stacks or on the heap | `resume`, `raise`, `yield`, `push`, `ready_flush` | any fiber removes its own node at any time; nodes are freed and their addresses reused during a flush | only live nodes are linked; a flush runs what was ready and ends |
| EPoll (`selector/epoll.c`, `pidfd.c`) | per descriptor: IO, waiting and registered events, list of waiting fibers; the kernel's interest set | `io_wait`, `process_wait`, `select`, `handle` | fibers register, cancel, close and reuse descriptors while `handle` walks the list; exceptions leave it | the kernel is armed for what fibers wait for; no list holds a dead frame; waiters are resumed |
| Wakeup (`selector.c` `blocking_operation`, `interrupt.c`, `epoll.c`, `lib/io/event/selector/select.rb`) | `blocked`, the ready list, the interrupt descriptor | `push`, `wakeup`, `select` | other threads between the decision to block and the wait | no wakeup is lost |
| Ruby `Select` (`lib/io/event/selector/select.rb`) | `@waiting` chains of `Waiter`s, `@ready` with `Optional` references, `@blocked` | `io_wait`, `select`, `dispatch`, `pop_ready`, `resume`, `raise`, `yield`, `push` | fibers wait, cancel and close while a chain is dispatched and its waiters are put back | no waiter is lost or in two chains; a fiber is resumed only by what belongs to its current call, with events it asked for |
| URing (`selector/uring.c`) | ring, completions and a free list, `wakeup_registered`; per operation: a `Waiting` structure on the fiber's stack | `io_wait`, `io_read`, `io_write`, `process_wait`, `io_close`, `select`, `wakeup` | completions in flight after their fiber has left; submissions that yield to the loop in the middle of an operation or of its cancellation | a completion is not reused while in flight nor lost; a cancellation ends its own operation; nobody waits for a completion that has been seen; one read of the interrupt descriptor |
| KQueue (`selector/kqueue.c`) | as EPoll, with one-shot filters | as EPoll | as EPoll | as EPoll |
| Timers, PriorityHeap (`lib/io/event/timers.rb`, `priority_heap.rb`) | heap, scheduled handles, count of cancelled ones | `schedule`, `cancel`, `wait_interval`, `fire`, compaction | the count against the heap over long sequences | timers fire once, in order, never after cancellation; the heap is one; cancelled timers do not pile up |
| List, Array (`list.h`, `array.h`) | links; lazily allocated elements | append, prepend, pop, free; lookup, resize | lists that change while they are walked | links of a sequence |
| Selector factory, nonblock, Time, debug selector, extension glue | none, or one flag | | | |

How they interact. The event loop fiber calls `select`, which flushes the ready queue,
collects events and transfers to the fibers that wait for them. Fibers give control back
by `yield` (they stay in the ready queue) or by waiting for an event. Other threads reach
the loop only through `push` and `wakeup`. A `WorkerPool` call blocks its fiber through
the scheduler, and a worker thread unblocks it, which ends in a `push` and a `wakeup`.
Shared state is protected by Ruby's global lock (GVL), except for what worker threads do
without it, which the pool's mutex protects.

## Modules

| Module | Models | Form |
|---|---|---|
| `WorkerPool` | `worker_pool.c` | one action per section of code that is atomic under the GVL or under the mutex |
| `ReadyQueue` | `selector.c`: nodes, transfers and the flush | control passes between fibers; the queue is a sequence |
| `SelectorQueue` | `selector.c`: `queue_push`, `queue_pop` | the same queue as links, beside the sequence `ReadyQueue` works with |
| `EPoll` | `epoll.c`: `io_wait`, `process_wait`, `select`, `handle` | the loop, user fibers, the kernel and child processes |
| `Wakeup` | `select` from the flush to the wait, and `wakeup`; `native` is EPoll, otherwise the Ruby selector | the loop and other threads |
| `URing` | `uring.c`: completions, submission, cancellation, `select`, `wakeup` | the loop, fibers inside operations, and the kernel |
| `Select` | `select.rb`: waiters, dispatch, ready list | control passes between the loop and fibers |
| `IOWait` | what `io_wait` promises | abstract; `Select` implements it |
| `PriorityHeap` | `priority_heap.rb` | operators on the contents of a heap |
| `Timers` | `timers.rb` | extends `PriorityHeap`; one action per method, `fire` in steps between the blocks it calls |
| `TimerSet` | what `Timers` promises | abstract; `Timers` implements it |
| `MC_WorkerPool`, `MC_ReadyQueue`, `MC_EPoll` | | symmetry sets for TLC |
| `WorkerPoolProofs`, `ReadyQueueProofs`, `SelectorQueueProofs`, `EPollProofs`, `WakeupProofs`, `URingProofs`, `SelectProofs`, `TimersProofs` | | theorems |

### WorkerPool

`queue`, `work` and `target` hold fibers: a fiber has at most one call in progress, so its
name stands for the address of the `Work` structure on its stack. `wpc` is the position of
a worker: `gvl` before `rb_thread_call_without_gvl`, `lock` on its way to the mutex,
`wait` in `pthread_cond_wait`, `got`, `start` and `run` with dequeued work, `leave` at the
end of the region, `unblock` before `rb_fiber_scheduler_unblock`. `worker_unblock_func` is
two steps, `InterruptInRegion` (its critical section and broadcast) and `CancelCurrent`
(the read of `current_blocking_operation` after the unlock). `wakes` and `raises` are the
entries a scheduler's ready list has for a fiber; this scheduler is external and modelled
from how `worker_pool.c` uses it. `pthread_cond_wait` may wake spuriously.

Memory and formatting of `statistics` are left out; what remains of it is that it locks
the mutex.

### ReadyQueue and SelectorQueue

A node is `<<fiber, slot>>` when it is on the stack of a fiber inside `resume`, `raise` or
`yield`, or a heap node allocated by `push`. Slots and heap nodes are addresses, which are
reused: the flush compares addresses to find its end. `SwitchTo` is a transfer of control;
the fiber that gets it runs its ensure clause and removes its frame. A fiber that ends
returns to the loop; one that ends with an exception (`Fail`) also ends the flush.

### EPoll

`entry` is `IO_Event_Selector_EPoll_Descriptor`; `list` its list with the newest waiter
first, and `Saved` the node `handle` leaves in it while a fiber runs. `interest` and
`condition` are the kernel's: an event is reported when both name it, hang ups always
(level triggered). `object` is what a descriptor number is open on; `Close` takes it out
of the interest set without telling the selector, and numbers are reused. The phase is
`user` when fibers run outside `select`, `handling` inside it, and `resumed` while a fiber
runs that `handle` has transferred to; in `user` and `resumed` fibers may wait, be
cancelled (`Cancel`: resumed or raised by somebody else), open and close. `epoll_ctl`
refuses files (`EPERM`) and descriptors that are closed (`EBADF`), see `Refused`. Priority
events are left out: they are treated like the other two.

Flags give the environment some freedom. With `MayRetry`, `MayReopen`, `MayAbandon`,
`MayEscape` and `MayReuse` all on, the structural properties and `NoStuckWaiter` hold
(`epoll_live`); `Covered`, which is about the kernel's interest set, needs the first four
off, see below.

### Wakeup

`signals` counts what is in the interrupt descriptor, which is bounded by `Capacity`:
`EAGAIN` drops the signal. When `native` the GVL is held from the check of the ready list
until `blocked` is set, so this is one step (`CheckBlocks`). In the Ruby selector threads
can be switched between any two lines, and the decision (`CheckDuration`) and
`@blocked = true` (`Enter`) are two.

### URing

A completion is a number; `slot` and `owner` are the two pointers between it and the
`Waiting` structure on the stack of a fiber, and `free` is the free list. The ring is one
record: the submission queue, the state of the operation that has each completion as user
data, and the reads of the interrupt descriptor. The kernel is external: it takes any
number of entries in order and refuses the rest (`EBUSY`, `EAGAIN`), completes in any
order, and completes an operation that is being cancelled as cancelled or by itself. A
fiber's `pc` says where it is inside an operation. It gives control to the loop not only
when it waits but wherever `io_uring_submit_all` yields: in `io_get_sqe` (`drain`), after
the operation was queued (`post`), and in the same two places of the cancellation. What
`io_read` and `io_write` share with `io_wait` is one action for all; they differ in
`Prepare` (`io_read` and `io_close` submit at once), in `Leave` (`process_wait` does not
cancel) and in `Raise` (what is inside `rb_ensure`).

Left out: results and flags of operations, and completions without user data, which only
make `select` return. User code between operations is one actor, `User`.

### Select

`waiter` holds the `Waiter` structures that something refers to; `IoWait` takes a number
nothing refers to, which is garbage collection; a `Waiter` keeps its tail alive (`Chain`,
the smallest set with the tail of each of its members). `cursor` and `current` are the frame of
the recursive `dispatch`. `value` is what `io_wait` has just returned, for `IOWait`. A
block of `select` is left by an exception in `Escape`; during `dispatch` only with
`MayEscape`. `IO.select` raises when one of its IOs is closed by another thread
(`Poll`). Other errors, which `select` raises again in its thread, end it in the same way
and are not told apart.

### Timers and PriorityHeap

A handle is a record of its time, whether it has its block and whether it knows its
`Timers`; it is identified by its place. The blocks that `fire` calls are user code:
after `FireCall` any method may be called, `fire` too up to `MaxDepth`, until
`BlockReturns` or `BlockRaises`. `out` is the handle that is outside the heap, whose
`cancel!` must not count. The heap's loops are recursive functions
of the number of turns; the state stops changing after at most as many turns as there are
elements, so that many are taken.

### Abstract specifications

`IOWait` says that a wait ends with a non-empty part of the events that were asked for or,
when somebody else resumes the fiber, with false, and that nothing else changes it.
`Select` implements it with `wait` read off the `Waiter` of each fiber.

`TimerSet` is a bag of times: timers are scheduled, become known when `fire`,
`wait_interval` or `size` look, are cancelled one at a time, and fire when they are due and
fire knows of no earlier one. Its variable `event` shows what has just been done to a timer,
so that a timer that fires, one that is cancelled and one that would be lost are different
steps, and a block that is called needs a timer that waits. `Timers` implements it with the
live handles of `@scheduled` and of the heap; its own `event` is a history variable, which
no action reads, set by `schedule`, by `cancel!` of a timer that waits and by the call of a
block. Every other step is `Look` or `Rest`: compaction, clearing and skipping take no timer
away.

## Runs

| Run | Configuration | Properties | Distinct states |
|---|---|---|---|
| `worker_pool` | 2 workers, 2 fibers, 2 calls, 1 exception, 1 interrupt or kill, close and collection | `TypeOK`, `NoDanglingWork`, `SingleOwner`, `SettledOnReturn`, `NoIdleWorker`, `ClosedMeansStopped`, `CallReturns`, `ExceptionSurfaces`, `CloseReturns` | 289,000 |
| `worker_pool_statistics` | violation | `MutexLive` | |
| `ready_queue` | the loop, 2 fibers with 2 frame addresses each, 2 heap nodes | `TypeOK`, `NodesLive`, `FlushComplete`, `FlushReturns`, `QueuedRuns` | 50,929 |
| `selector_queue` | 5 nodes | `LinksExact` | 326 |
| `epoll` | 2 descriptors, 2 fibers, 3 IOs, 1 process | `Covered` | 1,042,579 |
| `epoll_live` | 1 descriptor, 3 fibers, 2 IOs (one refused by epoll), 1 process, hang ups, every flag on | `TypeOK`, `ListsSound`, `NoStuckWaiter` | 183,554 |
| `epoll_retry` | violation | `Armed` | |
| `wakeup` | both selectors, 3 threads, a ready list of 4, a descriptor that holds 2 signals | `TypeOK`, `NativeWakeup`, `PushedRuns` | 2,087 |
| `wakeup_ruby` | violation | `NoLostWakeup` | |
| `uring` | 2 fibers, 3 completions, a submission queue of 2 entries, all operations, refused submissions, exceptions out of `select` | `TypeOK`, `Exclusive`, `LinksLive`, `CancelsOwn`, `WakeupRead`, `NoMissedCompletion` | 3,518,504 |
| `select` | 2 fibers, 1 IO with 2 events, 3 waiters, a ready list of 2 | `TypeOK`, `ReferencesCurrent`, `NoLostWaiter`, `ChainsDisjoint`, `ImplementsIOWait`, `NoStuckWaiter` | 343,964 |
| `timers` | 2 times, 6 handles, compaction from 2 cancelled ones on | `TypeOK`, `CancelledCounted`, `DeletesExactly`, `RetentionBounded`, `EarliestFound`, `ImplementsTimerSet` | 858,420 |

Why the bounds are enough. Two workers are the least for a signal to reach the wrong one,
and two calls are by two fibers at once or by one fiber again, after an interruption. Two
heap nodes and two slots let the node a flush ends at be freed, its address be reused by
another fiber, and a fiber queue itself again at the same and at another address. In
EPoll two descriptors make a batch of two events in which handling the first changes the
second; three fibers on one descriptor let the fiber resumed in the middle of a walk
cancel the next one. There must be one IO more than descriptors, because an entry keeps
the IO it was used for last. Five nodes are enough for a removal with two neighbours on
each side. Three threads fill a descriptor of two signals. In URing a queue of two entries
is full when one fiber has queued its operation and a cancellation or another operation
comes; three completions let two be in flight for fibers that have left while the third is
acquired, and make the free list one and two long. In Select three waiters make a chain
with one that has been invalidated between two live ones, and a ready list of two holds an
`Optional` that is outlived; three fibers (`SelectFibers.cfg`, 726,820 states) and two IOs
in one batch (`SelectIOs.cfg`) pass the same properties with one of the other bounds
smaller. Six handles are the least at which `delete` has to move the replacement up
instead of down, and two cancelled ones of six do not compact the heap while four do; a
block that calls `fire` itself is in `TimersNested.cfg` (depth 2, five handles, 484,130
states), which passes the same properties.

`CHECK_DEADLOCK FALSE` is set for the pool, whose runs end when the bounded calls are
used up and the pool is closed, and for two configurations in which every process has
been waited for.

Symmetry is used for safety only, in `epoll` and two of the pool's configurations. It
permutes threads, fibers, descriptors and IOs, which no definition tells apart; the IOs
that epoll refuses are left out.

### Fairness

- WorkerPool: threads are scheduled and blocking operations end (`WF` of each worker's
  own steps); a scheduler resumes what is in its ready list (`WF` of `Resume` or `Raise`);
  `Thread#join` returns when the thread has ended (`WF` of `CloseEnd`). Nothing is assumed
  of spurious wakeups, interrupts, calls or `close`.
- ReadyQueue: the loop calls `select` again and again (`SF` of `FlushBegin`, which is
  disabled while a fiber runs) and a fiber that runs gives control back.
- EPoll: `select`, the steps of `handle` and the return of a resumed fiber.
- Wakeup: the loop's steps, and a thread that has pushed calls `wakeup`. That a wait ends
  by itself is assumed of the Ruby selector only (`PushedRuns` fails for it otherwise).
- Select: the loop goes on when it has control (`WF` of the steps of `select`). That it
  gets control back is not assumed: `NoStuckWaiter` is conditional on `select` polling
  again and again.
- URing: `select` is called again and again, a flush ends (`FlushReturns` of ReadyQueue),
  the kernel completes what it has taken, operations go on and user code gives control
  back. No listed run needs it; `URingLive.cfg` checks with it that a fiber that waits for
  a completion is resumed (`WaitReturns`; 2 completions, no exception out of `select`).

## What the violations show

1. `worker_pool_statistics`. `worker_pool_statistics` locks the mutex of a pool that has
   been closed, which `worker_pool_close` has destroyed; the comment promises the opposite.
2. `epoll_retry`. A `process_wait` that was cancelled leaves its entry behind. A second
   one for the same process that gets the same descriptor number is taken for registered,
   and is not: the exit is not noticed by epoll.
3. `wakeup_ruby`. In the Ruby selector a `push` and `wakeup` after the ready list was
   looked at and before `@blocked` is set are lost; `select(nil)` then waits for another
   event.

### Limits found on the way

The passing properties exclude these behaviours of the code, by a flag or in the property.
Each has a configuration that reproduces it and is not one of the runs above.

| Configuration | Property | Behaviour |
|---|---|---|
| `WorkerPoolCloseDrops` | `AcceptedReturns` | work that is queued when the pool is closed is never taken, its call does not return; `CallReturns` excludes it with `Deserted` |
| `WorkerPoolStaleWake` | `TrueMeansExecuted` | a ready-list entry left by an interrupted call cancels the fiber's next operation, whose call still returns true |
| `ReadyQueueOvertake` | `FlushAlwaysReturns` | when the last node of a flush is removed by somebody else, the flush goes on as long as fibers queue themselves; `FlushReturns` excludes it with `Overtaken` |
| `EPollHangup` | `HangupNoted` | a hang up or error is reported as readable only, a fiber that waits for writable is not resumed |
| `EPollReopen` (`MayReopen`) | `Armed` | `IO#reopen` after a cancelled wait: the entry is taken for registered |
| `EPollEscape` (`MayEscape`) | `WaitingCovered` | an exception that leaves `handle` leaves `waiting_events` without the fibers it had not reached |
| `SelectEscape` (`MayEscape`) | `NoLostWaiter` | an exception that leaves `dispatch` forgets the waiters of the IO it had not reached |
| `URingCancelled` | `NotCancelled` | the `assert` of `select_process_completions` fails when the cancellation is taken and completes while its fiber still yields in `io_uring_submit_now` |
| `URingRead` | `NoMissedRead` | `io_read` is resumed by its completion inside `io_uring_submit_now` and then waits for nothing, until somebody resumes it |
| `URingUnwind` (`MayUnwind`) | `LinksLive` | an exception raised in a fiber that yields in `io_get_sqe` leaves a completion that points to its frame |
| `URingSiginfo` | `SiginfoLive` | a `process_wait` that is left does not cancel its operation, which with `waitid` writes into the frame |
| `EPollReuse` (`MayReuse`) | `ReapKnown` | an event of a closed pidfd, later in the same batch, resumes the `process_wait` that got its number, which returns nil |

`MayAbandon` (an IO is closed while a fiber waits) needs the scheduler to interrupt the
fiber, as Ruby 4 does; until then the fiber waits on a descriptor the kernel no longer
watches.

## Proofs

Every safety invariant, action property and refinement of the passing runs is a theorem:
it holds for every value of the constants that satisfies the modules' assumptions. These
are: `None` and the loop are outside the sets they are told apart from, stack addresses are
none of the heap, bounds are natural numbers (positive where the code has at least one),
times are natural numbers, flags are Boolean; WorkerPool's workers and fibers are finite
sets. `ArmedWhenWaiting`, `WaitersKept` and four theorems of URing assume flags: what a flag
excludes is described with the violations and limits above.

WorkerPool

- `TypeCorrect`: `TypeOK` is inductive.
- `DanglingFree` and `OwnerUnique`. `NoDanglingWork` and `SingleOwner` are not inductive by
  themselves: they do not say in which positions a worker holds work. `Owned` adds that a
  worker at `got`, `start` or `run` holds a frame, that only workers from `got` to `leave`
  do, and that the queue has no frame twice; `Fresh` says that no worker exists before
  `initialize`.
- `ReturnSettled`. An operation that is cancelled while a worker executes it has the status
  cancelled and is still executed, so `SettledOnReturn` speaks of the workers too. That part
  follows from `Owned`; `Settled` adds what the status of the operation is at each position
  of the worker that holds it.
- `NoStarvation`. `Roused` adds to `NoIdleWorker` that a sleeping worker is not interrupted
  and that nobody sleeps after shutdown: this is what the broadcasts of
  `worker_unblock_func` and of `close` are for. The counting argument uses the cardinality
  theorems for the workers on their way to the mutex.
- `MutexSafe`: a destroyed mutex means that no worker thread runs. The strengthening
  `Joined` orders the phases of the pool.

ReadyQueue, SelectorQueue

- `ReadyQueueProofs!TypeCorrect`, `QueueSafe` (`NodesLive`) and `FlushProcessesAll`
  (`FlushComplete`). The invariant has three parts. `Shape`: the nodes of the queue, none of
  them twice, are the frames of the fibers that are queued and the allocated heap nodes.
  `Control`: the fiber that runs is not queued, nor is the loop while it flushes. `Marked`:
  what is left of the nodes that were there when the flush began stands before everything
  that came later, and ends with the mark if the mark is among it. The last is the argument
  that a flush which compares addresses does not end too early, although the address of the
  mark may be freed and used again.
- `SelectorQueueProofs!LinksCorrect`: the links are those of the sequence, for any set of
  nodes. The inductive invariant is `TypeOK` and `LinksExact`; the lemmas `PushLinked` and
  `PopLinked` treat the ends and the middle of the queue separately.

EPoll

- `TypeCorrect` and `ListsSafe` (`ListsSound`), for every value of the flags. The invariant
  adds `Phases`, where `handle` is in each phase: the saved node is in a list only while a
  fiber runs that `handle` has transferred to.
- `ArmedWhenWaiting` (`Covered`), with `MayRetry`, `MayEscape`, `MayReopen` and `MayAbandon`
  off; hang ups, refused descriptors and `MayReuse` are included. `EntryTrue`: an entry made
  for what its descriptor is open on tells what the kernel is asked for. `WaitsTrue`: a
  fiber waits for what its descriptor is open on, and a process has one fiber only.
  `EntryCovers`: an entry holds the events of every fiber in its list, and during `handle`,
  which has cleared it, those of the fibers `handle` has passed.

Wakeup

- `TypeCorrect`, and `WakeupSafe`: the native select loses no wakeup, for any number of
  threads and any capacity. The strengthening `Marked` says that `blocked` is set whenever
  the loop waits.

URing

- `TypeCorrect`, and, as long as no exception is raised where the code has no ensure
  function (`MayUnwind = FALSE`), `LinksSafe`, `CompletionsExclusive`, `CancellationsOwn`
  and `CompletionsAwaited`, for any number of fibers and completions and any size of the
  queue. None of the four is inductive; together with the following they are (`PoolInv`):
  free and unused completions have no owner and are unknown to the ring (`Unowned`), who
  has a completion at which place (`Unslotted`, `Slotted`, `Posting`), and `CancelsLate`: a
  cancellation that is queued names the completion of the fiber that queued it or, if it
  has been acquired again, stands before the new operation, so the kernel, which takes
  entries in order, does not find it. `AcceptedTaken` describes a submission once for all
  actions that submit.
- `WakeupReadSafe`: `WakeupRead` with `LoopSleeps` (the loop has control while it sleeps) is
  inductive, without the restriction on exceptions.

Select

- `TypeCorrect`, `ReferencesSafe` (`ReferencesCurrent`) and `ChainsSafe` (`ChainsDisjoint`).
  The invariant speaks of single links instead of chains: `Owned`, the `Waiter` of a call
  and its fiber name each other; `OptionalsCurrent`, an `Optional` that holds a fiber
  belongs to the call the fiber is in; `Links`, a `Waiter` is the tail of one other at most
  and the first of a chain of none; `Ranked`, there is a rank that falls along the tails.
  That chains are then disjoint and without a cycle follows from their being the smallest
  closed sets: two chains that meet do so at a first `Waiter`, which has two predecessors.
- `WaitersKept` (`NoLostWaiter`), with `MayEscape` off: a waiting fiber is in the chain of
  its IO or in what `dispatch` still has to visit.
- `WaitRefined` (`ImplementsIOWait`): every step of `Select` is, for the waits read off the
  `Waiter`s, a step of `IOWait` or leaves them alone.

Timers and PriorityHeap

- The heap first. `BubbleUpFacts`, `BubbleDownFacts`, `HeapifyFacts`, `PushFacts`,
  `ConcatFacts`, `PopFacts`, `DeleteFacts` and `DeleteIfFacts` say of each method that it
  returns a heap with the contents it should have, for heaps of any size; `RootMin`, that
  the root is the least. Contents are compared by `Tally`, the number of places whose
  element is in a given set. A loop has an invariant over its turns and a measure that falls
  until it stops, and the value after the last turn is found by induction over the turns,
  carried out on sets of numbers with the least-element theorem of the library (`UpTo`,
  `Stays`, `Iterated`): a set, unlike an operator, can be instantiated.
- `TypeCorrect`, `CountedRight` (`CancelledCounted`), `DeletesRight` (`DeletesExactly`),
  `RetentionIsBounded` and `EarliestIsFound`. The invariant: the heap is a heap whose
  handles know their `Timers` exactly as long as they have their block, handles outside it
  do not (`HandlesInv`); `@cancelled` is the number of handles of the heap without block
  (`CountInv`); a call of `fire` in its loop exists (`FiresInv`). `EarliestFound` includes that
  the root `wait_interval` leaves is not a cancelled handle.
- `SetRefined` (`ImplementsTimerSet`): every step of `Timers` is one of `TimerSet` for the
  number of live handles of each time. `FireCallStep` shows for the call of a block that the
  handle is live, due and the least of the heap, and that exactly one timer of its time goes
  (`Loses`); `CancelStep` the last for `cancel!`; all other steps keep the numbers, or move
  the scheduled ones into the heap (`Looked`).

The inductive invariants of ReadyQueue, EPoll, Select and Timers also pass on the instances
of the runs, except for `Ranked`, whose rank TLC cannot enumerate.

Only model-checked, because liveness under fairness is out of the prover's reach:
`CallReturns`, `ExceptionSurfaces` and `CloseReturns` of the pool, `FlushReturns` and
`QueuedRuns`, `NoStuckWaiter` of EPoll and of Select, `PushedRuns`, `WaitReturns` of URing;
and everything about the configurations that show limits.

## Not modelled

- `io_read`, `io_write` and their `pread`/`pwrite` forms as loops: they repeat a system
  call, or in URing one operation, around `io_wait` and keep no state in the selector. One
  turn of them in URing is modelled.
- `io_select` of the Ruby selector, which runs `IO.select` in a thread.
- KQueue. Its lists of waiters and its `handle` are EPoll's; what differs is which filters
  the kernel keeps, replaces and forgets (one-shot filters, process filters, `EV_ERROR`),
  and the repository does not say enough of it to model it faithfully. Two things a model
  would have to look at: descriptors and process ids share one array, and events that were
  reported one-shot are lost when an exception leaves `handle`.
- List as links, Array (allocation, lookup): the other modules use them as sequences, sets
  and counters.
- Delivery of thread interrupts inside a blocking system call: CRuby's.
- The selector factory, nonblocking mode, Time, the debug selector and the extension glue
  have no protocol of their own. Idle durations, logging and memory sizes are left out.

## Plan

1. `List` as links, implementing the sequences `EPoll` uses, with the refinement proved as
   for `SelectorQueue`.
2. `IOWait` as what EPoll and URing promise too.
3. `ReadyQueue` shown to implement a queue of fibers.

## Running

    tlc -workers 2 -config WorkerPool.cfg MC_WorkerPool
    tlapm WorkerPoolProofs.tla
