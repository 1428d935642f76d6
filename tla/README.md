# cc_coroutine in TLA+

Specifications of the C++20 coroutine library in this repository
(`include/`, `src/`), small instances that TLC checks, and theorems that TLAPS
proves.  Paths below are relative to the repository's root.

## 1. The system

| Component | State | Operations | Talks to |
|---|---|---|---|
| **Scheduler** (`scheduler.h/.cpp`) | one queue per worker, `next_queue_`, `stop_flag_`, `active_coroutines_`, the process-wide `thread_id_counter`, a thread-local current scheduler | `start`, `stop`, two `schedule`s, `worker_thread`, `YieldAwaiter` | owns a Timer; resumes coroutines; is called by timers, I/O threads, awaiters |
| **Timer** (`timer.h/.cpp`) | heap of events, mutex and condition variable, `stop_flag_`, `started_`, one thread | `start`, `stop`, `add_timer`, `TimerAwaiter` | resumes a coroutine itself or through `Scheduler::schedule` |
| **WorkStealingScheduler** (`work_stealing_scheduler.h/.cpp`) | a deque per worker, the map from thread to index | hides `schedule`, overrides `worker_thread` | inherits queues, `stop()` and timer of Scheduler |
| **AdvancedScheduler** (`advanced_scheduler.h/.cpp`) | a heap of prioritised tasks per worker, back-off | `schedule_with_priority`, stealing | inherits from Scheduler |
| **Task / coroutine frames** (`coroutine.h`) | promise (continuation, scheduler pointer, `counted_`), shared state | `initial_suspend`, `final_suspend`, awaiting, `get` | counts itself on the scheduler; submits continuations |
| **AsyncTask** (`async_task.h`) | shared state: value, exception, continuation, mutex | `set_value`, `set_exception`, registration, `from_*` | dispatches continuations through the scheduler |
| **Cancellation** (`coroutine_cancellation.h`) | cancelled flag, callbacks, registrations | `cancel`, `register_callback`, `unregister`, awaiters | resumes coroutines, cancels timers |
| **Lifecycle / safety** (`coroutine_safety.h/.cpp`) | registries of live coroutines, statistics, fd guards | register, unregister, leak check | called from promises |
| **IOManager** (`io_manager.h/.cpp`) | epoll threads, per-thread descriptor contexts, `fd_to_thread_` | async read/write/accept/connect, `add_event`, `del_event`, `io_worker` | resumes coroutines on I/O threads |
| **FdManager, hook** (`fd_manager.*`, `hook.*`) | a table of descriptor contexts | `get`, `del`, wrapped system calls | used by hooked system calls |
| **Memory pool** (`memory_pool.h`) | free lists, chunks, counters; stack pool | `allocate`, `deallocate`, `shrink` | allocators |
| **Logger** | none that matters | output | everybody |

The threads are the workers of each scheduler, one timer thread per scheduler,
the I/O threads, and application threads, of which the one that owns a
scheduler calls `start()` and `stop()`.  They share the queues (one mutex
each), a few atomics, and coroutine handles, which may be resumed by one thread
at a time only.  A coroutine that suspends is in the hands of a timer, a
descriptor or another coroutine, which later hand a function that resumes it to
`schedule()`.

What makes it hard: submissions race with each step of `stop()`; a coroutine
is resubmitted before the worker that suspended it has returned; conditions are
notified without the mutex; loads and updates of one atomic are separate steps;
indices are derived from counters shared by everybody; derived classes hide
what the base class calls.  `PROJECT.json` lists these places, line by line,
under `hazards`.

What makes each component correct:

* Scheduler: a task is never executed twice at once, never lost between two
  places, never left behind by `stop()` if it was queued in time; `stop()`
  returns; every queue has a worker of its own; the active count is exact.
* Timer: a sleep ends once, not early, and not late because nobody woke the
  thread; `stop()` returns and leaves nothing in the air.
* WorkStealingScheduler: owner and thief never take the same task; every deque
  is served; what is submitted runs.
* AdvancedScheduler: higher priorities first, and as for work stealing.
* Task, AsyncTask: an awaiter is resumed exactly once, whoever of producer and
  consumer comes first, and finds a result.
* Lifecycle registries: a shutdown that reports success leaves no coroutine that
  waits or runs its body, and the totals agree.
* Cancellation: a callback taken back in time never runs, any other runs once;
  no call hangs.
* IOManager: an event resumes a coroutine that waits for it, once; no
  interest is lost unnoticed; no wait on a lock the thread holds.
* Memory pool: a block is never handed out twice; counters are exact.

## 2. Modules

| Module | Models | Built on |
|---|---|---|
| `TaskPool` | the abstract promise of a scheduler to those who submit tasks | |
| `Future` | the abstract promise of a task to those who await it | |
| `Scheduler` | Scheduler, the part of a Task's promise that counts, YieldAwaiter | refines `TaskPool` |
| `SchedulerProofs` | types; one place for a task; the active count, the idle wait, the length of queues; private queues, draining, refinement of `TaskPool`, with and without other schedulers (proofs) | extends `Scheduler` |
| `Timer` | Timer and TimerAwaiter | |
| `TimerProofs` | all four safety invariants of `Timer` (proofs) | extends `Timer` |
| `WorkStealing` | WorkStealingScheduler on top of the inherited Scheduler | refines `TaskPool` |
| `AsyncTask` | AsyncTask: the shared state, its producers, the coroutines that await it | refines `Future` |
| `AsyncTaskProofs` | one resumption, one outcome, refinement of `Future` (proofs) | extends `AsyncTask` |
| `Coroutine` | Task and its promise, the final awaiter, both lifecycle registries | |
| `CoroutineProofs` | one resumption, a result, the answer of `graceful_shutdown()` (proofs) | extends `Coroutine` |
| `Cancellation` | CancellationSource, registrations, TimeoutCancellationSource | |
| `CancellationProofs` | types, and what becomes of each callback (proofs) | extends `Cancellation` |
| `IOManager` | IOManager in both modes, with the kernel's epoll | |
| `IOManagerProofs` | types, resumption, registration, no self-lock (proofs) | extends `IOManager` |
| `MemoryPool` | MemoryPool, PoolAllocator, CoroutineStackPool | |
| `MemoryPoolProofs` | the accounting, and what damages the heap (proofs) | extends `MemoryPool` |
| `Advanced` | AdvancedScheduler on top of the inherited Scheduler | refines `TaskPool` |
| `StealingProofs` | one taker for a task in both schedulers that steal, the index of each worker, refinement of `TaskPool` by both (proofs) | extends `WorkStealing`, instantiates `Advanced` |
| `MCScheduler`, `MCTimer`, ... (`MC` and the module's name) | model values and small sets for TLC | |

A step of a model is what the code does under one lock or in one atomic access.
Operators carry the name of the function or of the part of it that they model;
the `map` of `PROJECT.json` gives the lines.  Next to the actions some modules
have *faulty variants*: an action with a slip that the code could have had.
They are not part of any specification; they document which property would
notice the slip, and `PROJECT.json` lists them as mutants.

### TaskPool

A task is pending, running, done, lost or outside.  When the pool closes, what
is pending at that moment is *promised*: it must still be executed.  What slips
in later may be discarded.  Liveness: while the pool serves, or once a task is
promised, it is begun.  A pool with `Drains = FALSE` promises nothing when it
closes; what else it says remains: a task is begun once per submission, by one
worker, only if it was accepted, and nothing is discarded before it closes.

Four refinements share this module.  `Scheduler` drains if no other scheduler
starts with it (`PoolSafe`, `PoolLive`) and need not otherwise (`LooseSafe`);
`WorkStealing` and `Advanced` do not drain: their workers leave on the flag.

### Future

A task is settled once.  A waiter is away, waiting, answered or lost; it is
answered only after the task is settled, once for each time it asks, and reads
what the task was settled with.

### Scheduler

* `main`, `index` follow the owner through `start()` and `stop()`: the idle
  wait (`ScanQueue`, `ScanActive`, `Rescan`, `GiveUp`), `SetFlag`, `Join`,
  `ClearQueue`, and again from the destructor.
* `call[th]` follows each thread through `schedule()`: `admit` (flag and
  round-robin index), `size` (the limit), `push`.  `schedule(Task&&)` is
  `SubmitCoro`, which goes straight to `push` and, on a registered thread,
  counts the coroutine.
* `pc[w]`, `cur[w]`, `ticket[w]` follow each worker: `Boot` draws from the
  static counter, `Pop`, `PopNothing`, `Wake` are the loop; `FinishFunc`,
  `FinalSuspend`, `Decrement`, `Park`, `Yield` are what the body of a task may
  do that matters here.  A worker may submit tasks from a body.
* `ForeignBoot` is a worker of another scheduler drawing from the same counter.
* `promised`, `awaited`, `gaveUp` are history, read by properties only.

Abstracted: the contents of tasks, the statistics, the condition variables (a
wait is limited to 10 ms, so a worker may look again at any time), exceptions
(caught around a function; see the hazards for a coroutine's callback), and
coroutines that are awaited but never passed to `schedule`, which are part of
the body of the one that awaits them.  `timer_->stop()`, the first thing
`stop()` does, is in `Timer`; here it is assumed to return.

### Timer

`pc` follows the timer thread, `Locked` being where it holds `timer_mutex_`.
The predicate of the wait and the wait itself are two steps (`TestPredicate`,
`Block`): the mutex keeps `add_timer()` out between them, but not `stop()`.
The clock is `now`; a wait may end for no reason (`Spurious`).

### WorkStealing

The deques, the index each worker finds for itself in the unsynchronised map
(two workers may find the same one, and an insertion may get lost), owner and
thief, the wait that only its timeout ends when the flag goes up, and the
inherited `stop()`, which waits for and clears the base queues.  Functions
submitted through the class go to the deques, continuations submitted through
a `Scheduler*` to the base queues, in two steps: a look at the flag
(`ScheduleOnBase`), then a push or, at the limit, nothing (`PushOnBase`).  The
base queues are cleared one by one, and a late push may stay in one.  As a `TaskPool` (`PoolSafe`), pending is what
is in a deque or in the base queues; only the latter are ever cleared.

### AsyncTask

`source` says which of `from_sync`, `from_callback`, `from_future` made the
task.  Two producers may complete it: the *maker*, inside `from_callback`, when
the function it calls invokes the callback or throws (or both), and the
*helper*, a detached thread or whoever the callback was handed to.  Completing
is two steps, the part under the mutex (`Complete`) and the dispatch of the
continuation it took (`Dispatch`).  A coroutine reads `completed` without the
mutex (`Await`), registers under it (`Register`) and, refused because the task
was completed in between, posts its own resumption (`PostSelf`).  A resumption
handed to a scheduler may be refused, as `Scheduler` shows, so `Post` may drop
it; one handed to a new thread may not.  The contract assumed of the function
given to `from_callback` is that it uses its callback once at most, and at
least once if it does not throw.

The state may be completed twice, with a value and then with an exception, so
as a `Future` (`FutureSafe`) the task is settled when it is completed and has
left its `from_` function: nobody can await it before.  A value that the first
awaiter moves out counts as the same outcome for the next.

### Coroutine

`pc[c]` follows a coroutine through `initial_suspend` (`Create` enters
`CoroutineLifecycleManager`, `RegisterInfo` the advanced registry, under two
different locks), its body, and `final_suspend` with the final awaiter
(`Unregister`, `UnregisterInfo`, `FinalSuspend`, `FinalAwait`).  The frame is
`Done` only after `FinalSuspend`, the rest of `final_suspend()`, which still
uses the promise of a coroutine that both registries have lost.  `Await` is
`Task::await_suspend`: the continuation is set and the awaited coroutine handed
to a scheduler or a new thread, which may finish it before the awaiter's thread
has returned.  `FinalAwait` posts the continuation when the promise or the
thread has a scheduler and resumes it in place when neither has.  What resumes
a coroutine is a function in a queue or a new thread (`posted`; `inQueue` if it
is in a queue), a timer or descriptor (`external`), or the end of another
coroutine (`continuation`).  `schedule(func)` may return without such a function,
because the flag is up or because the queue it drew has reached its limit, which
other functions of the application may cause at any time (`Drop`); what is left in the
queues when `stop()` has joined the workers is thrown away (`Discard`), and a
function pushed after that stays where it is.  `refused` names the coroutines
whose resumption was dropped or thrown away: nobody will resume them.
`HeldOnce` says that any other suspended coroutine is in just one place.
`schedule(Task&&)` looks neither at the flag nor at the limit.  `Collect` and `ForceCleanup` are
`force_cleanup_all()`, which destroys frames after it released the lock, so the
coroutine may have ended in between; `CheckLeaks` destroys under the lock.  A
frame destroyed while it runs, or that is resumed after, is the end of defined
behaviour: its body takes no further step in the model.

### Cancellation

`Request` is the critical section of `cancel()`: the first caller takes the
callbacks over and runs them one by one without the lock (`Call`, `Called`,
`Finish`); a second returns at once, before they have run.  `Register` on a
source that was cancelled runs the callback under the lock, where a reentrant
callback locks its own thread out (`SelfLocked`).  `place` says what became of
each registration; an `Unregister` between `Request` and `Call` is "released":
the callback still runs.  `MoveAssign` overwrites the id without unregistering.
The timer's thread is one more caller; the destructor cancels and joins it.

### IOManager

`mode` follows the constructor (`StartThread`, `PushContext`, or `InitFails`,
which leaves the synchronous mode) and the destructor.  An I/O thread starts
before its context is in the vector; `Boot` finds it, or leaves for good.
`known`, `handle` and `fdToThread` are the tables; `interest`, `queued` and
`ready` what the kernel knows, edge triggered.  `WouldBlock` and `AddEvent` are
the two halves of an awaiter; `Registers` is the choice between
`EPOLL_CTL_ADD` and `EPOLL_CTL_MOD`, and whether it succeeds.  `TestFlag`,
`EpollWait` (which may also return events after the flag has gone up),
`WaitFails` (after which the thread leaves for good), `TakeEvent`, `Deliver`, `EndEvent` are `io_worker`: the coroutine is resumed with
`fd_mutex` locked, makes its call once more, and ends its operation; whoever
awaits it is posted, since the thread registered itself with a scheduler first.
Three ways to be forgotten are part of the code and so of the model, where
history variables name them: an overwritten or deleted handle (`lost`), an
interest replaced by the other direction's (`muted`), a descriptor closed under
its registration (`dead`).  `WaitersRegistered` says there is no fourth.
A batch may also outlive the registration it was for; what it then resumes is
a later operation of the same kind on the same descriptor, which finds nothing
and ends with EAGAIN.  The handle is in its place and the coroutine waits for
just that event, so no property here is violated.

### MemoryPool

Every operation is one critical section, so an action is a whole operation.
A block is its chunk and its index.  A full list sends the address to `free()`,
which may damage the heap: the model stops there (`broken`), and `BrokenByPeak`
says how much must have been in use at once for it: for the built-in numbers,
258 blocks.  `ShrinkToFit` forgets blocks that no one can use any more.

### Advanced

`Schedule`, `Compare` and `Push` read the loads of the queues one by one and push
without a look at the stop flag.  A worker takes the best of its own queue, and
otherwise collects queues with more than one task (`PopOwn`) and tries them in
any order (`Steal`, `GiveUp`).  Ids come from a counter that workers of other
schedulers also draw from (`ForeignDraw`), so two workers may serve one queue
and none another; thieves do not touch a single task there, and `QueuedRuns`
exempts just this.  As a `TaskPool` (`PoolSafe`) it never refuses or discards a
function given to `schedule_with_priority`.  What comes through a `Scheduler*` is
looked at in two steps as in `WorkStealing` (`ScheduleOnBase`, `PushOnBase`), and
no worker ever takes it.

## 3. Runs

| Run | Instance | Shows |
|---|---|---|
| `scheduler_safety` | 2 workers, 1 unregistered client, 1 function, 2 coroutines, queue limit 1, one worker of another scheduler starting | `TypeOK`, `OwnedOnce`, `ActiveExact`, `WaitedForCounted`, `NothingLeftBehind` |
| `scheduler_live` | 2 workers, 1 registered client, 1 function, 1 coroutine, no other scheduler starting | `PrivateQueues`, `Drained`; `stop()` returns; the promises of `TaskPool`, safety and liveness |
| `timer` | 3 sleeps, one without a scheduler, clock to 2, 2 starts | `EndsOnceNotEarly`, `WakeupUnderWay`, `QuietWhenStopped`, `DueSleepEnds`, `StopReturnsIfArmed` |
| `timer_stop` | smaller | `stop()` may hang: flag and notification fall between the predicate and the wait (README.md:276 says safe stop) |
| `work_stealing` | 2 workers, 1 client, 2 functions, 1 continuation | `TakenOnce`, `NobodyTurnedAway`, `PoolSafe`, `QueuedIsTaken`, `StopReturns` |
| `work_stealing_base` | the same | what is submitted through a `Scheduler*` never runs (README.md:271 says it goes to the right thread) |
| `async_task` | each source, with and without a scheduler; 2 coroutines that await the same task twice each | `HeldOnce`, `OutcomeReady`, `SameOutcome`, `FutureSafe`, `Resumes` |
| `coroutine` | 3 coroutines, 1 wait elsewhere, full queues, `stop()`, shutdown and leak check at any time | `HeldOnce`, `ResultReady`, `GracefulIsComplete`, `AwaitEnds` |
| `cancellation` | 2 threads and the timer's, 3 callbacks of which 1 is reentrant | `TypeOK`, `EachAsPromised`, `Returns` |
| `io_manager` | 2 I/O threads, 2 coroutines (1 created on a scheduler), 1 descriptor, 2 operations, 1 `close()`, 1 `del_event()` | `ResumesTheWaiting`, `WaitersRegistered`, `RegistersUnlocked`, `ReadyIsServed` |
| `memory_pool` | up to 3 chunks of 2 blocks, a list of 4, 1 larger block; 2 stacks, requests below, between and above the limits | `Accounting`, `BrokenByPeak` |
| `advanced` | 2 workers, 1 client, 3 functions of 2 priorities, 1 continuation, 1 id drawn elsewhere | `InOnePlace`, `PoolSafe`, `QueuedRuns` |

Four more promises of the documentation do not hold.  They are definitions
without a run of their own; added to a cfg, TLC refutes them:
`NoDanglingTask` of `Scheduler` (README.md:286 says no task dangles; a call that
saw the flag down pushes after the queues were cleared), `AllCoroutinesFinished` (scheduler.cpp:73
says `stop()` waits for all coroutines; it does not wait for one created on an
unregistered thread) and `PrivateQueues` with `ForeignStarts = 1` (README.md:146
says each worker has its own queue; two schedulers that start at the same time
draw from one counter), and `CompletedWhenTrue` of `Coroutine`
(coroutine_cancellation.h:340 says that all coroutines have completed; one that
has left the registry may still be inside `final_suspend()`, which leaves it
first).

Bounds.  Two workers are enough for two of them to meet at a queue, at the
counter, at the map; two coroutines for one to overtake another in the count;
a queue limit of 1 makes the limit bite with a second task.  One worker of another scheduler is enough to make two workers
share a queue and leave another without any.  A task is
submitted once and a coroutine any number of times, as it parks and yields
freely, so the state spaces are finite without further bounds;
`ForeignStarts`, `MaxForeign`, `MaxTime`, `MaxStarts`, `MaxAwaits`, `MaxWaits`, `MaxOps`,
`MaxCloses`, `MaxDeletes`, `MaxChunks`, `MaxLarge` and the number of stacks bound the only
counters that would grow; two awaits are one before and one after any event.
Three coroutines are a chain of awaits and one besides, or one that awaits two
others; two operations on one descriptor are two in the same direction (one
overwrites the other), in different directions (one mutes the other), or one
after the other (a stale batch); three chunks are one more than the list has
room for; three functions let one queue hold two while the other holds one.
`CounterAtStart = 1` starts the static counter off zero.  The safety run
uses symmetry (workers, coroutines and functions are interchangeable); runs
with liveness use none.  `Timer.cfg` switches the deadlock check off: the timer
hangs in `stop()` as `timer_stop` shows, and the bounded clock and the bounded
number of starts run out; so do `AsyncTask.cfg`, `Coroutine.cfg`, `IOManager.cfg`,
`Cancellation.cfg` and `Advanced.cfg`, where everybody is done in the end (or a thread has locked
itself out), and `MemoryPool.cfg`, where nothing follows a damaged heap.

Fairness.  Threads that can run do (weak fairness of each thread's steps);
nothing in the code makes a thread wait for something that others may withdraw
for ever, with these exceptions: a task's body returns although it may submit
other tasks first, and ten seconds pass although the idle scan succeeds and
fails in between (strong fairness of `BodyEnds`, `GiveUp`); a thief draws each
victim again and again (strong fairness of `Steal`, a uniform distribution).
I/O threads run, the coroutines of `Coroutine` that have a function to resume
them do, unless it is in a queue of a stopped scheduler, where it may be thrown
away or stay; bodies end.  Nobody is obliged to begin an operation, to close, to
cancel or to stop, and `epoll_wait` need never fail.  A thief of `Advanced` gets each lock it tries now and then
(strong fairness of `Steal`).  The function behind a task ends.  The timer's
clock advances.  Spurious wake-ups are allowed and never relied on.

## 4. Proofs

All theorems are about the `SafeSpec` of a module (initial state and steps, no
fairness); `Timer`, `WorkStealing` and `MemoryPool` have only a `Spec`, of which
the proofs use the same part.
Those about `Scheduler` hold for any number of workers, clients, functions and
coroutines, any queue limit and any initial value of the static counter.  They assume what
`Scheduler.tla` assumes of its constants: finite sets of threads and tasks,
workers that are not clients, functions that are not coroutines, as many
workers as `thread_count_`, which is not zero (`ThreadsAssumption`,
`TasksAssumption`, `NumbersAssumption`).

| Theorem | Module | Establishes |
|---|---|---|
| `Typing` | `SchedulerProofs` | `[]TypeOK` |
| `Ownership` | `SchedulerProofs` | `[]OwnedOnce` |
| `Counting` | `SchedulerProofs` | `[]ActiveExact` |
| `Waiting` | `SchedulerProofs` | `[]WaitedForCounted` |
| `Backlog` | `SchedulerProofs` | `[]BacklogBounded` |
| `Leaving` | `SchedulerProofs` | `[]NothingLeftBehind` |
| `Privacy` | `SchedulerProofs` | `ForeignStarts = 0` implies `[]PrivateQueues` |
| `Draining` | `SchedulerProofs` | `ForeignStarts = 0` implies `[]Drained` |
| `Refinement` | `SchedulerProofs` | `ForeignStarts = 0` implies `PoolSafe`, i.e. `TaskPool!SafeSpec` |
| `LooseRefinement` | `SchedulerProofs` | `LooseSafe`, the same of a pool that need not drain |
| `Typing` | `AsyncTaskProofs` | `[]TypeOK` of `AsyncTask` |
| `OneResumption` | `AsyncTaskProofs` | `[]HeldOnce` |
| `OutcomeFound` | `AsyncTaskProofs` | `[]OutcomeReady` |
| `OneOutcome` | `AsyncTaskProofs` | `[]SameOutcome` |
| `Refinement` | `AsyncTaskProofs` | `FutureSafe`, i.e. `Future!SafeSpec` |
| `Typing` | `TimerProofs` | `[]TypeOK` of `Timer` |
| `Punctuality` | `TimerProofs` | `[]EndsOnceNotEarly` |
| `Notification` | `TimerProofs` | `[]WakeupUnderWay` |
| `Quiescence` | `TimerProofs` | `[]QuietWhenStopped` |
| `Typing` | `CancellationProofs` | `[]TypeOK` of `Cancellation` |
| `Promises` | `CancellationProofs` | `[]EachAsPromised` |
| `Typing` | `IOManagerProofs` | `[]TypeOK` of `IOManager` |
| `Resumption` | `IOManagerProofs` | `[]ResumesTheWaiting` |
| `Registration` | `IOManagerProofs` | `[]WaitersRegistered` |
| `NoSelfLock` | `IOManagerProofs` | `[]RegistersUnlocked` |
| `Typing` | `CoroutineProofs` | `[]TypeOK` of `Coroutine` |
| `OneResumption` | `CoroutineProofs` | `[]HeldOnce` |
| `ResultThere` | `CoroutineProofs` | `[]ResultReady` |
| `Completeness` | `CoroutineProofs` | `GracefulIsComplete`, an action property |
| `Typing` | `StealingProofs` | `[]TypeOK` of `WorkStealing` |
| `SingleTaker` | `StealingProofs` | `[]TakenOnce` of `WorkStealing` |
| `Admission` | `StealingProofs` | `[]NobodyTurnedAway` |
| `Refinement` | `StealingProofs` | `PoolSafe` of `WorkStealing` |
| `AdvSingleTaker` | `StealingProofs` | `[]InOnePlace` of `Advanced` |
| `AdvRefinement` | `StealingProofs` | `PoolSafe` of `Advanced` |
| `Bookkeeping` | `MemoryPoolProofs` | `[]Accounting` |
| `Breakage` | `MemoryPoolProofs` | `[]BrokenByPeak` |

The theorems about `AsyncTask` hold for any finite set of awaiters and any
bound on their awaits (`AwaitersAssumption`), those about `Timer` for any
finite set of sleeps, any clock and any number of rounds (`SleepsAssumption`,
`BoundsAssumption`), those about `Cancellation` for any threads and callbacks
(`CancellationAssumption`), those about `IOManager` for any number of I/O
threads, descriptors and coroutines and any bounds (`IOAssumption`), those
about `Coroutine` for any finite set of coroutines and any number of waits
(`CoroutineAssumption`), those about `WorkStealing` for any workers, clients and
tasks (`ThreadsAssumption`), and those about `MemoryPool` for any sizes of chunk,
list, cache and stack (`MemoryPoolAssumption`: a chunk fits into the list, as it
does in the code with 256 and 512).  `StealingProofs` instantiates `Advanced`, so
what `Advanced` assumes of `Funcs` and `Priority` is written out there as
`AdvAssumed`, a hypothesis of its theorems; what else it assumes of the constants
both have is what `WorkStealing` assumes of them.

`ForeignStarts = 0` says that no worker of another scheduler draws from
`thread_id_counter` while this one starts.  Without it these three are
false: two workers may share a queue (section 3), and a queue without a worker
is not drained.  What remains is proved without that hypothesis: each worker
drains the queue it listens on, alone or not (`Leaving`), and whatever the
queues' owners are the scheduler is a `TaskPool` that need not drain
(`LooseRefinement`), so that another scheduler costs tasks only at the end.

How the proofs go; each inductive invariant is preserved by lemmas for the
steps of a call, of a worker and of the owner:

* `TypeOK` is inductive as it stands: besides types it says that a worker
  holds a task only while it runs it and is inside `schedule()` only then.
* `OwnedOnce` is inductive together with `TypeOK`.  It is stated with its parts
  (`SubmittedByOne`, `ExecutedByOne`, `QueuedOnce`, `InOnePlace`,
  `NothingForgotten`) because none of them is inductive alone: a push keeps the
  queues free of duplicates only because what is in a call is not queued, a
  pop hands over a task nobody runs only because what is queued is not running.
  Lemmas say how the three collections (queued, inside calls, running) change
  with a push, a pop, a clear, an entry, a return, a begin and an end.
* `ActiveExact` needs `counted \subseteq begun`: a coroutine is not counted
  twice because it is submitted by `schedule(Task&&)` once.
* `WaitedForCounted` needs what holds when the scan has found the counter at
  zero: nothing was counted then (by `ActiveExact`), and what is counted later
  was submitted after `stop()` began.
* `BacklogBounded` needs the number of calls between the size check and the
  push to be part of the bound.
* `PrivateQueues` follows from `TicketInv`: the workers that have drawn a number
  have drawn different ones from an interval no longer than `thread_count_`,
  and such numbers differ modulo `thread_count_` (`ModDistinct`).
* `NothingLeftBehind` needs `StopInv`: `PhaseInv` ties the flag to the owner's and
  the workers' phases, so that nobody has left when the flag goes up and fixes
  what is promised; `PromiseInv` says that what is promised is queued or was
  thrown away, so that a later push, by `OwnedOnce`, adds nothing promised to
  the queue of a worker that left.  Nothing of this depends on the numbers the
  workers draw.
* `Drained` follows from `DrainInv`, which is `StopInv`, `TicketInv` and `JoinInv`
  (something is promised only until the join is over, and all of it is queued):
  a worker that left owes its queue nothing, and by `EveryQueueServed` (a
  one-to-one map between finite sets of one size is onto) every queue is
  somebody's.
* `Refinement` maps phase, pending and running of `TaskPool` to the flag, the
  union of the queues and what the workers hold.  A push accepts, an early
  return refuses, a pop begins, `Park` and `Yield` suspend, clearing a queue
  discards -- only what was not promised, by `DrainInv`.
* `LooseRefinement` takes the same steps: one that a pool that drains can take, a
  pool that need not drain can take too (`Loosens`).  Only a cleared queue needs
  an argument of its own, since it may have had no worker: the flag is up.
* `HeldOnce` of `AsyncTask` needs `HeldInv`: a coroutine whose resumption was
  refused or replaced stays suspended, so it cannot register a second time.
  Each step moves a resumption from one holder to the next.
* `OutcomeReady` needs `ReadyInv`: whatever leads to a resumption (a post, a
  continuation taken, a registration refused) comes after `completed`, which is
  set under the same lock as the outcome.
* `SameOutcome` needs `SameInv`: nobody awaits before the maker is through, and
  after that a helper sets an exception only where there was no outcome before.
* `FutureSafe` maps a completion to `Settle` only once the maker is through, so a
  second write, which only the maker can cause, falls before it.  `SameInv` makes
  each `Read` read what the task was settled with.  A dispatch leaves its awaiter
  waiting or loses it, and a resumption answers it; that who is dispatched is
  suspended and not lost already is `HeldIsSuspended`.
* The four invariants of `Timer` are preserved together, with two more:
  `HandsFit` (the thread holds an event only while it delivers it) and
  `BlockOnEmpty` (the predicate of the wait is still false when the thread
  blocks, because `add_timer()` needs the mutex).  That `stop()` does not take the
  mutex is why nothing of the kind holds for its notification.
* `EachAsPromised` needs what becomes of a callback before the request (`Before`:
  it is in the map just if it was registered and not taken back) and after it
  (`After`: the map is empty, and what was in it has run, or is in the list or
  the hands of the one thread in `cancel()`, `OneCanceller`), and that nothing
  about to run has run (`NotYet`).
* `ResumesTheWaiting` is inductive with `TypeOK`: `add_event` puts a handle in
  when its coroutine is neither running nor in another table.
  `WaitersRegistered` needs `HandlesKnown` (who has a handle has a key) and
  `KnownOrDead` (a key without an interest belongs to a closed descriptor), so
  that the choice between ADD and MOD fails only where `dead` says so.
  `RegistersUnlocked` needs that no coroutine stays with the I/O thread.
* `HeldOnce` of `Coroutine` sums three kinds of holder.  `Places` says the same
  without the sum (`NoHolder`, `OneHolder`); it needs `Refusals` (whose
  resumption the scheduler dropped stays suspended, held by nobody) and `Links` (a coroutine
  has its awaiter as continuation, and has none before it is awaited).
  `ResultReady` follows: a posted coroutine cannot also be the continuation of
  one that has not ended.
* `GracefulIsComplete` needs `CountInv`: `created` counts the coroutines that
  passed both registrations, `ended` those that passed both removals (and may
  still be in the rest of `final_suspend()`), and while
  `graceful_shutdown()` waits the advanced registry holds just the difference.
* `TakenOnce` and `NobodyTurnedAway` of `WorkStealing` need `IndexInv`: who is in
  the map inserted itself after it had looked, so one that looks finds fewer
  entries than there are workers, and the first to look finds none.  `TakeInv` is
  one place for a task; `QueuedAfterPush` and `QueuedAfterTake` say how a deque
  changes at either end.
* `Refinement` of `WorkStealing` reads these lemmas as equalities: a push adds the
  task to what is pending, a pop at the back and a steal at the front take away
  just what the worker then runs.  It needs `ServeInv`: a worker with a task in
  hand runs it and takes no other, and the base queues are cleared with the
  flag up.
* `InOnePlace` of `Advanced` needs that `top()` has a task to return in a queue
  that is not empty (`AdvTopIsThere`).  The order of `PriorityTask` has a first
  element because priorities and submission times are numbers, which have a
  least one (`Least`), and because no two tasks have the same time
  (`AdvOrdered`).  The sum of the property is taken apart as for `Coroutine`.
  `AdvRefinement` needs no more than this invariant: what `top()` returns was
  queued in one place, so removing it there begins just that task.
* `Accounting` needs that the caches stay within `MaxCached`.  The sums of sizes
  are cardinalities of sets of pairs (`Total`), so that what a stack adds or
  takes away is proved with the theorems on finite sets (`TotalAdds`,
  `CacheGrows`, `UseGrows`) and without induction over the stacks.
* `BrokenByPeak` needs `Bounded`: a chunk is added only when the list is empty,
  when all that is left of the pool's blocks is held, so that list and held
  blocks together stay below the peak and one chunk.

Only model-checked, and why: everything about liveness (`StopTerminates`,
`PoolLive`, `DueSleepEnds`, `StopReturnsIfArmed`, `QueuedIsTaken`, `StopReturns`,
`Resumes`, `AwaitEnds`, `Returns`, `ReadyIsServed`, `QueuedRuns`), because TLAPS has no
rules for fairness and `ENABLED` here.  Every safety property that a passing run
checks has a theorem.

Only proved: the type invariants, except those of `Scheduler` and `Cancellation`,
which say more than types and are checked as well; `BacklogBounded`, which takes
four functions and a single queue to come near, so that an instance for it could
show nothing else; and `LooseSafe`, whose steps `scheduler_live` checks as part of
`PoolLive`, without a second scheduler.

## 5. What is not modelled, and the plan

* FdManager and the syscall hook: a table of descriptor contexts and wrappers
  around calls of the C library.  The I/O threads do not use them; each
  operation is one critical section that reads or sets one context.
* Logger: output only.
* The cancellable sleep of `coroutine.h`: on every path past `start_wait` the
  sleep thread joins itself or the awaiter is destroyed with its thread
  joinable, and the process ends in `std::terminate`.  There is no behaviour
  after it to specify.
* AdvancedScheduler: its queues are destroyed before the base class's destructor
  stops the workers, and from there on behaviour is undefined unless `stop()`
  was called; the model ends with `stop()`.  Switching stealing off, the time
  slice and the statistics are left out.  NestedCoroutineManager is a
  counter of each thread by itself.
* Task: values and exceptions, moved-from tasks, a task awaited twice.
  `AsyncTask` covers outcomes.
* WorkStealingScheduler's `schedule(Task&&)`, which throws on any task it is
  given before the task has ended.
* SafeTask, RAII guards, `safe_syscall`: wrappers without shared state.
* IOManager: `add_event` with a handle of the user's own, EPOLLHUP, EPOLLERR.

What is left: how much of `Draining` survives with another scheduler starting
beyond `Leaving` (which queues are without a worker depends on how many numbers
the other one drew in between), FdManager's table, and the destruction of the
schedulers' own members.  The order in which an `AdvancedScheduler` hands tasks
out has no property of its own: a worker takes what `Top` returns, which is the
comparison in the code, and a property of the order would repeat it.

Build files, examples and tests are not modelled; the tests were read for the
intended behaviour.
