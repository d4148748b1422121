# A TLA+ model of the wss scheduler library

`wss` is a C++20 library with four task schedulers behind one interface. This
directory holds TLA+ modules that model the schedulers and the concurrent data
structures under them, the handles, counters and tokens on top of them, the TLC
instances that check them, and TLAPS proofs of the safety properties and the
refinements of all four schedulers, of the deque and of the handles. Paths below are
relative to the repository.

## The system

| Component | State | Operations | Talks to |
|---|---|---|---|
| `Scheduler`, `spawn` (`include/wss/scheduler.hpp`) | none of its own | `spawn` wraps a body, so that its result or exception reaches the handle, and calls `submit` | every backend, `JoinHandle` |
| `JoinHandle` (`join_handle.hpp`) | an optional result under a mutex, a condition variable | `set`, `join` (takes the result out), `is_finished` | tasks and their clients |
| `WorkStealingScheduler` | per worker and priority a Chase-Lev deque; per priority an injector; `pending`; `shutdown_flag`; doorbell | `submit`, `find_task`, `run_worker`, `shutdown` | `Injector`, `ChaseLevDeque`, `IdleSignal` |
| `Injector` | a queue under a mutex | `push`, `pop_batch_into` (one job for the caller, the rest of the batch into its deque) | `ChaseLevDeque` of the caller |
| `ChaseLevDeque` | `top_`, `bottom_`, a circular buffer, the buffers retired by growth | `push`, `pop` (owner), `steal` (anyone) | lock-free, by memory order |
| `IdleSignal` | a generation counter | `current`, `wait`, `notify` | both pools that use it |
| `GlobalQueueScheduler` | one queue, mutex, condition variable, `shutdown_flag_` | `submit`, `worker_loop`, `shutdown` | |
| `ThreadPerCoreScheduler` | per core a queue for each priority, a mutex, a condition variable; `next_`; `shutdown_flag_` | the same, with placement by hint or round robin | affinity |
| `FairScheduler` | classes (weight, vruntime, queue, `has_entry`, counters), the multimap `ready_`, `min_vruntime_`, `pending_`, `shutdown_flag_`, doorbell | `register_class`, `submit`, `worker_loop`, `shutdown`, `fairness_snapshot` | `IdleSignal` |
| `Metrics` | four relaxed counters | `record_*`, `snapshot` | every backend |
| Cancellation, `Result`, `Job`, affinity | a flag; value types; a system call | | task bodies |

Threads: the clients, which call `spawn`, `join` and `shutdown`; the workers,
which run task bodies; and bodies themselves call `spawn` and `join`.

What is hard here:

- **Sleeping.** A worker decides to sleep after a search that is several steps
  long, while jobs arrive, batches move between queues, and the pool becomes
  eligible to stop. The doorbell pools take a snapshot of the generation before
  the search; the two pools with a condition variable rely on the mutex.
- **Stopping.** `shutdown()` may come at any moment, and running tasks may still
  spawn. The doorbell pools count jobs in `pending`; the other two look only at
  their queues.
- **Stealing.** The owner of a deque and several thieves race for its items, over
  a buffer that grows, with stores that become visible late.
- **Fork-join.** A body that joins another task keeps its worker. The pool then
  depends on the others noticing every job.
- **Handing over results.** A result, the counters and the waiting callers are
  updated one after the other while others read them; handles are copied, moves
  throw, and `join()` leaves the handle empty.
- **Fairness.** A class pays for a task only after it has run, and is dispatched
  again before that, so entries of `ready_` are stale by design.

What makes each part correct:

- a pool: each submitted job is run once, by one worker; `shutdown()` returns
  after every covered job, children included, has run, and it does return; no
  worker sleeps while there is something for it to do;
- the deque: `push`, `pop` and `steal` are linearizable; nothing is duplicated or
  dropped;
- thread-per-core: a task stays on its core;
- a handle: a result that was set reaches exactly one `join()`, unchanged, and
  `metrics()` after `join()` counts the task;
- the fair pool: one entry per runnable class, never below the floor; bounded
  staleness; complete accounting.

The hazards behind these are listed, line by line, in `PROJECT.json`.

## Modules

    Workload                 tasks, who submits them, what they join, the workers
     |- TaskPool             what a scheduler promises (abstract)
     |- TaskHandle           spawn, join, metrics, cancellation on top of a TaskPool
     |- IdleSignal           the doorbell
     |   `- DoorbellPool     submit / worker loop / shutdown around the doorbell
     |       |- WorkStealingScheduler    + deques, injectors, find_task
     |       `- FairScheduler            + classes and vruntime
     `- CondVarPool          submit / worker loop / shutdown around a mutex
         |- GlobalQueueScheduler         one queue
         `- ThreadPerCoreScheduler       + placement
    WorkDeque                what a deque promises (abstract)
    ChaseLevDeque            the deque, with the owner's store buffer
    MC_*                     instances for TLC
    DoorbellPool_proofs      lemmas on the steps both doorbell pools share
     |- WorkStealing_proofs  theorems on the work-stealing scheduler
     `- Fair_proofs          theorems on the fair scheduler
    CondVarPool_proofs       lemmas on the steps both condition-variable pools share
     |- GlobalQueue_proofs   theorems on the global queue
     `- ThreadPerCore_proofs theorems on thread-per-core
    TaskHandle_proofs        theorems on spawn, join and metrics
    ChaseLevDeque_proofs     theorems on the deque

**Workload.** A body is an opaque closure. Three facts about it suffice: who
submits it (`Submitter`, a client or another task), which tasks it joins
(`Awaits`), and that it ends if its joins do. Whether it returns or throws makes
no difference to a scheduler, because `spawn` catches; `TaskHandle` tells the two
apart.

**TaskPool.** The contract of `submit` and `shutdown` as the headers state it. A
task goes from unsubmitted to waiting, running and finished. `shutdown()` may
return only when all tasks are finished except *late* ones: those a client
submitted after `shutdown()` was called, and their descendants. Every scheduler
module defines `Refines`, the refinement of `TaskPool`.

**IdleSignal.** `gen_` is only ever compared with an earlier value of itself and,
at 64 bits, does not wrap. So the model keeps the set `fresh` of workers whose
snapshot is still current, instead of numbers. `notify()` is two steps,
`IdleBump` and `IdleRing`. `wait()` compares and blocks in one step (the futex)
and compares again after a wake-up.

**DoorbellPool.** `src/work_stealing_scheduler.cpp` and `src/fair_scheduler.cpp`
spell the same protocol out separately; this module states it once. A `submit()`
call is `SubmitCount` (`pending.fetch_add`), `SubmitQueued` (made precise by the
scheduler), `SubmitBump`, `SubmitRing`. A worker does `Snapshot`, the scheduler's
search, then `Found` or `StopOrWait`; after the body, `FinishBody` (the result is
published), `Settle` (`pending.fetch_sub`), `Bump`, `Ring`. `shutdown()` is
`ShutdownFlag`, `ShutdownBump`, `ShutdownRing`, `ShutdownJoin`. `pc` and `job` are
a worker's program counter and local variable; `sub` and `down` are the program
counters of the calls; `stage` and `late` follow the tasks.

**WorkStealingScheduler.** `find_task` step by step: `PopLocal`/`LocalEmpty`, then
for each priority `PopBatchInto`/`InjectorEmpty`, then for each priority and peer
`StealEmpty`/`StealLoad`/`StealWin`/`StealLose`, then `NoneFound`. A deque is a
sequence next to the index of its front. `ChaseLevDeque` justifies that for stores that
become visible in program order, and only for these: what is checked and proved of the
work-stealing pool holds on x86, and `deque_weak` shows why it need not elsewhere.

**ChaseLevDeque.** The owner's stores wait in a buffer until they become visible:
in program order with `StoreOrder = "tso"` (x86), and with `"weak"` in any order
that the `memory_order` arguments allow. Fences and compare-and-swaps wait for the
buffer. One action per shared access of `steal()`; `pop()` is split at its fence
and its compare-and-swap; `push()`, `grow()` included, is one action that puts its
stores into the buffer, so that thieves see each of them separately.
`Linearizes` is the refinement of `WorkDeque`.

**CondVarPool.** `src/global_queue_scheduler.cpp` and
`src/thread_per_core_scheduler.cpp` are the same loop around a mutex and a condition
variable. The module has a set of queues; `Home` says which of them a worker serves.
A step is a critical section or an access outside one. The test of `shutdown_flag_`
(`GoOn`) and the wait after it (`Block`) are two steps, with the mutex held in between,
because `shutdown()` does not take the mutex. `Unlocked` is the mutex. `notify_one`
picks any waiter. Spurious wake-ups are steps, but no property may rely on them.

**GlobalQueueScheduler, ThreadPerCoreScheduler.** The first is a `CondVarPool` with one
queue and one priority. The second has a queue per worker and adds `Place`, which
chooses the core (`Wrapped`) before the core's mutex is taken.

**FairScheduler.** The two critical sections of `worker_loop` are `Dispatch` and
`Account`, that of `submit()` is `SubmitEnqueue`. `ready_` is the sorted sequence of
entries.

**TaskHandle.** What `scheduler.hpp` builds around any scheduler, which appears as its
contract `TaskPool` (`Pool!Submit`, `Start`, `Finish`, `Shutdown`, `Return` are
conjuncts of the actions). `submit()` counts (`RecordSubmitted`) and queues
(`Enqueue`). The wrapper around a body is straight-line code: `todo[t]` is the list of
its remaining calls, `Wrapper(o)` the list for a body that returned and for one that
threw. `SetThrows` is a value whose move constructor throws inside the `try` block;
the catch block then runs as well. `set()` is `SetResult`, under the handle's mutex,
and `NotifyJoiners`. `join()` is `JoinCall`, `JoinWait`, and `JoinTake` or `JoinThrows`;
a `Call` is one caller and one task, so two calls on a task are two copies of its
handle. `IsFinished` remembers a call that was preceded by a positive `is_finished()`.
`Load` is one of the loads of a `snapshot()`. A task in `Polling` ends after `Cancel`.

An operator `Bug_X` is the definition that follows it with one plausible mistake in
it. No specification uses them. They document what each property notices:
`PROJECT.json` pairs every property with one, which TLC refutes.

### Abstractions

- Outside `ChaseLevDeque` memory is sequentially consistent: all other shared state
  is under a mutex or accessed by read-modify-writes, the flag (set once) and the
  doorbell, whose release and acquire operations order what depends on them.
- `ShouldStop` reads the flag and `pending` in one step. The code reads the flag
  first; since it is never reset, this equals a step at the second read.
- `PopLocal` and `LocalEmpty` look at all own deques at once. Only the owner fills
  them, so one that was found empty stays so. A thief that reads `bottom_` in the
  middle of the owner's last `pop()` sees "empty" a moment early; in
  `WorkStealingScheduler` it sees this a moment later.
- `PopBatchInto` moves the batch in one step. In the code a thief could steal the
  first items while the others are still being moved; it sees no others either way
  until they are in the deque.
- `record_stolen()` is part of the won steal.
- Times are whole ticks; rounding of `double` is left out. `total_busy_seconds` is
  not modelled.
- `TaskHandle` has one `snapshot()` and one `cancel()` call. The critical section of
  `join()` is one step from its test to the reset; the wait inside it is a step of its
  own. The relaxed counters are ordered for a caller by the handle's mutex.
- One `shutdown()` call per pool; the destructor is such a call. Jobs that throw out
  of a raw `submit()` terminate the program and are left out.

## Runs

Passing:

| Run | Instance | Shows |
|---|---|---|
| `ws_safety` | 2 workers, 3 tasks (one nested, of higher priority), 2 priorities, batch 2, 2 clients | `Conservation`, `PendingExact`, `DrainBeforeExit`, `NoMissedWakeup`, `IdleOwnerIsDry`, and `Refines`: the pool implements `TaskPool`, with `shutdown()` at any moment |
| `ws_fork_join` | 2 workers, 3 tasks of which two fit into one batch, so that there is something to steal, and one joins its child | the liveness properties `TasksFinish` and `ShutdownReturns` |
| `deque_tso` | capacity 1, two growths, 4 items, 2 thieves, x86 | `NeverDuplicateOrDropItems`, `ThiefHoldsFront`, `EmptyMeansEmpty`, `Linearizes` |
| `gq_drain` | 3 workers, 3 tasks, one nested | `NoLostNotify`, `Refines`, `TasksFinish`, `ReturnsOutsideWindow` |
| `tpc_drain` | 2 cores, 3 tasks, a hint to wrap, two priorities | `NeverMigrates`, `NoLostNotify`, `Refines`, `TasksFinish`, `ReturnsOutsideWindow` |
| `fair_classes` | 2 workers, 2 classes of different weight, registered or created by use, 5 tasks in a tree, four of them of one class and one of which joins its child | `OneEntryPerClass`, `NothingBelowFloor`, `BoundedStaleness`, `BoundedLag`; `NoMissedWakeup`, `DrainBeforeExit`, `AccountedAtReturn`, `Refines`, `TasksFinish`, `ShutdownReturns` |
| `handle` | a parent that spawns and joins a child; clients join the parent and, with a copy of the handle, the child; the child polls the token and its value may throw when moved | `ResultConserved`, `MetricsAfterJoin`, `MetricsAtReturn`, `JoinReturns` |

`NoLostNotify` of the global queue counts: while a worker waits, there are at most as many
queued jobs as notifications to come and workers on their way to the queue. A worker that
runs a body does not count, since the body may be joining the very job that is queued. So
one notification for two jobs is already too few, which is the mutant of that property.
`TasksFinish` of the doorbell pools says in one formula that there is always a later moment
at which every submitted task that is not late is done. Submission, lateness and
completion of a task are final, so this is the same as a `~>` for each task.

A module's `TypeOK` is an invariant of one run (`CondVarPool`'s through `ThreadPerCoreScheduler`).

Refuted, each a disagreement between the code and what the repository says of it:

| Run | Property | What happens |
|---|---|---|
| `gq_shutdown` | `ShutdownReturns` | flag and `notify_all` fall between a worker's test of the flag and its wait; the worker sleeps for ever and `shutdown()` hangs |
| `tpc_orphan` | `DrainsEveryQueue` | a child is placed on a core whose worker has left; `shutdown()` returns without it |
| `ws_lost_steal` | `NoJobLeftBehind` | a thief loses one race, takes the deque for empty and sleeps; the remaining job waits for a worker that joins it |
| `deque_weak` | `NeverDuplicateOrDropItems` | `bottom_` overtakes the slot on a weakly ordered machine, and a thief wins an item it cannot see |
| `fair_snapshot` | `SnapshotAfterJoin` | `join()` returns before the worker has counted the task for its class, and `fairness_snapshot()` misses it |

`ws_lost_steal` needs two thieves for one deque. With one, nobody can lose a race to
another thief, and in `ws_fork_join` every task finishes.

The first two concern both condition-variable pools. `src/thread_per_core_scheduler.cpp`
sets its flag outside the mutex like the global queue does. `ReturnsOutsideWindow`, which
holds in both, says that for bodies that do not join this window is the only way for
`shutdown()` to hang. And the workers of
`src/global_queue_scheduler.cpp` leave under the same condition as those of a core, so
a body that joins a child it spawned after the others have left waits for ever. In
`gq_drain` and `tpc_drain` no body joins, and in `tpc_drain` the child stays on its
parent's core; under these conditions the drain is complete.

Two smaller matters need no run. `find_task` goes to the injectors before the peers, as
`README.md` 123 says and `include/wss/injector.hpp` 16-18 denies. And a task whose value
cannot be moved into its handle is counted twice in `tasks_completed`;
`MetricsAtReturn` states exactly that, and that nothing else is miscounted.

### Bounds

Each bound is the smallest with the interesting case in it. Two workers are needed
for a steal from a batch, for a worker that stops while another runs, and for two tasks of one
class in flight. Three are needed for two thieves in the pool (`ws_lost_steal`) and for
a `notify_one` that has a choice next to a running body (`gq_drain`). Three tasks make a nested spawn
next to an unrelated job and a batch with a rest. Two priorities make a scan
with an order. Capacity 1 makes the deque grow twice and reuse slots within four
pushes. Of the five tasks in the fair pool four are of one class: it drains and comes back
below the floor, has two tasks in flight next to an entry, and is queued again after it has
paid for a task. `BoundedStaleness` and `BoundedLag` are reached with equality, and exceeded
if an entry is re-queued at its old key, or if the floor is not raised. Two tasks and three calls of `join()` are
enough for a nested join, a contended handle and a task that is joined and panics.
Symmetry is used where the workload treats the tasks, or the code the thieves, alike,
and only with safety properties. Deadlock is checked except where workers really may
come to rest: with a joining workload, or with no client obliged to call `shutdown()`
in the two pools without a final step.

### Fairness

Weak fairness of each worker, of a `submit()` or `shutdown()` call under way, and of
the nested `submit()` calls a body makes: a thread that can run runs. No client has to
submit or to call `shutdown()`. In the condition-variable pools, strong fairness of
taking a mutex: a thread that asks again and again gets it. No fairness for spurious
wake-ups. In `TaskHandle` the pool starts every task that is not late, which is the
`TasksFinish` of the pools, and a `join()` call goes on when it can; `JoinReturns` promises
one answer per handle, since a `join()` on a second copy waits for ever.
`ShutdownReturns` of the doorbell pools excludes late jobs: a late job that joins its
own child can find only one worker left.

## Proofs

A run shows a property on one small instance; a theorem shows it for any number of
workers, thieves, classes, priorities and calls, any finite set of tasks and any
workload. Runs and theorems are about the same definitions.

| Module | Theorem | States |
|---|---|---|
| `WorkStealing_proofs` | `TypeCorrect` | `[]TypeOK`; in particular `pending` never wraps |
| | `JobsConserved` | `[]Conservation` |
| | `PendingCounts` | `[]PendingExact` |
| | `ShutdownDrains` | `[]DrainBeforeExit` |
| | `WakeupsKept` | `[]NoMissedWakeup` |
| | `OwnersDry` | `[]IdleOwnerIsDry` |
| | `KeepsContract` | `Refines`: the pool implements `TaskPool` |
| `Fair_proofs` | `TypeCorrect` | `[]TypeOK` |
| | `OneEntry`, `FloorHolds` | `[]OneEntryPerClass`, `[]NothingBelowFloor` |
| | `StalenessBounded`, `LagBounded` | `[]BoundedStaleness`, `[]BoundedLag` |
| | `ShutdownDrains`, `WakeupsKept` | `[]DrainBeforeExit`, `[]NoMissedWakeup` |
| | `AccountsComplete` | `[]AccountedAtReturn` |
| | `KeepsContract` | `Refines` |
| `GlobalQueue_proofs` | `NotifyKept` | `[]NoLostNotify` |
| | `KeepsContract` | `Refines` |
| `ThreadPerCore_proofs` | `TypeCorrect` | `[]TypeOK` |
| | `StaysHome`, `NotifyKept` | `[]NeverMigrates`, `[]NoLostNotify` |
| | `KeepsContract` | `Refines`, if `ChildrenStay` |
| `TaskHandle_proofs` | `TypeCorrect` | `[]TypeOK` |
| | `ResultsConserved` | `[]ResultConserved` |
| | `CountsAfterJoin`, `CountsAtReturn` | `[]MetricsAfterJoin`, `[]MetricsAtReturn` |
| `ChaseLevDeque_proofs` | `TypeCorrect` | `[]TypeOK` |
| | `ItemsConserved` | `[]NeverDuplicateOrDropItems` |
| | `FrontHeld` | `[]ThiefHoldsFront` |
| | `EmptyIsEmpty` | `EmptyMeansEmpty` |
| | `Linearizable` | `Linearizes`: the deque implements `WorkDeque` |

### What is assumed

The constants have the named assumptions of their modules and no others: at least one
worker, finitely many tasks, functions with the right domains (`Workload`), at least one
priority and a positive batch size (`WorkStealingScheduler`), weights that are natural numbers and a
longest time the clock can measure (`FairScheduler`), a queue for every worker
(`CondVarPool` and its two instances), who calls `join()` (`TaskHandle`), a positive
capacity (`ChaseLevDeque`). `CapacityAssumption` is not a restriction but a fact of
arithmetic, that capacities are positive and double. It follows from the definition by
induction on the exponent, which the provers cannot do. TLC evaluates it on the deque's
instances.

Two sets of theorems have a hypothesis of their own, and in both cases a run refutes the
statement without it:

- the deque's theorems assume `StoreOrder = "tso"`; `deque_weak` is the other case;
- `KeepsContract` of thread-per-core assumes `ChildrenStay`: a nested task has a hint
  that wraps to the core its parent was hinted to. The workload of `tpc_drain` is like
  that; `tpc_orphan` shows what happens to others.

### The inductive invariants

`IInv` and `DequeInv`, the two largest, were checked with TLC on the instances of
`ws_safety` and `deque_tso` before they were proved.

**Doorbell pools.** `DoorbellPool_proofs` shows, one lemma per action, that the steps of
the shared protocol preserve `PoolInv` and `WakeInv`, whatever the scheduler's queues are.
Both schedulers use it and add one lemma per step of their own search.

- `PoolInv`: the call in `sub` and the task in `stage` go together (`SubStage`),
  `HeldOnce`, `PendingExact` and `DrainBeforeExit`. `PendingExact` is what makes
  `DrainBeforeExit` inductive: a worker that reads `pending = 0` knows that no task is
  counted, and a new task can be counted only if it is late or its parent is counted.
- `WakeInv`: the flag and the call of `shutdown()` go together, and a worker that is
  asleep with something to wake it for has a bump or a ring still to come.

**Work stealing.** `IInv` adds `ScanOK` (where a worker is in its scan is within the range
its loop allows, so that the victim is a peer), `ThiefOK` (a thief whose expected index is
still the deque's index holds the front of a non-empty deque; without this, `StealWin`
could remove one job and run another), `QueuedOnce` and `NothingLost`. `TakeOne` and
`BatchMoves` are the facts on sequences: removing an end of a queue, and moving a batch,
preserve the last two. The second layer, `SleepInv`, needs one idea: `Looked`. While a
worker's snapshot is the present generation, a job in an injector the worker has already
passed was pushed after it looked, and its `submit()` has not rung the bell. So the
worker's wait will not block, or the ring will end it.

**Fair.** `FInv` adds `QueuesOK`, that `ready_` is sorted and has a class once, `FlagsOK`
(`has_entry` says whether a class is in it), `KeysOK` (a key is not below the floor and not above its class's `vruntime`) and
`HandsOK` (what a worker is accounting for). `AccountsOK` counts: for each class, the
completed tasks and the workers that still have to account for one are the finished
tasks. `DebtsOK` is behind the two bounds: `Debt` is what a class's `vruntime` would be if
every task it has in flight took the longest time, and it exceeds the key of the class's
entry by at most one longest share per worker. The bounds are not inductive without the
conjunct for classes that are idle, since a class comes back with the `vruntime` it left
with; `BoundedLag` states it for them too.

**Condition-variable pools.** `CondVarPool_proofs` has `QueueInv`: types, `SubStage`,
`HeldOnce`, what the queues hold (`QueuesOK`), that one worker at most holds a mutex and blocks on empty queues only (`MutexOK`),
and what the flag and `shutdown()` imply (`DownOK`). The global queue adds `Balanced`, the count behind
`NoLostNotify` (a push adds a job and an announcement, a notification turns an announcement
into a worker on its way, and a worker that goes to wait has seen the queue empty), and
`LastDrains`: a job that
is not late is not left to a pool without workers. That is the refinement's core,
since here the workers look at the queue only: the last worker to leave has seen it
empty, and whoever could fill it again is a body on another worker, or late.
Thread-per-core adds `PlaceInv` (`NeverMigrates`, `NoLostNotify`, and that a nested call's
parent is running) and, under `ChildrenStay`, `ServeInv`: the worker of a task's core has
not left.

**Handles.** `HInv` is `WrapperOK` (what is left of a wrapper fits the stage of its task),
`CountersOK` (what each counter is, from the wrappers' progress), `HandlesOK` (a result
is unset, in its handle, or taken by one call) and `SnapOK` (what the loads of a snapshot have
seen). The pool below is its contract, so the theorems hold over every scheduler that
refines `TaskPool`.

**Deque.** `DequeInv` speaks of what a location *shows* after the first `m` of the owner's
pending stores have been committed (`Sees`). `Kept`: a slot that shows the item of an
index still in the deque goes on showing it, whatever is committed next. `Published`:
whenever a `bottom_` that covers an index shows, the item of the index is in place in the
buffer that shows, and stays. These two are where program order is used. `ThiefOK` says what a
thief's local values are worth while `top_` is what it read; `Partition`, that the
window from `top_` to `bottom_` and what was taken make up what was pushed;
`BoundsOK` and `ValuesOK` are ranges. `ModApart`, that two indices less than a capacity
apart have different slots, is the arithmetic behind reusing slots and copying on growth.

### Only model-checked

- Liveness: `TasksFinish`, `ShutdownReturns`, `ReturnsOutsideWindow`, `JoinReturns`. Fairness
  and `ENABLED` are out of the prover's reach.
- The five refuted properties, by their counterexamples.
- The deque with weakly ordered stores, where the properties do not hold.
- `RoundUpPow2` and the doubling of capacities, through `CapacityAssumption`.

## Not modelled

`Job` is a value type without shared state, and of `Result` only the alternative it
holds is modelled; pinning is a hint to the operating system; `total_busy_seconds` and
the printing of metrics are only reported; benchmarks, examples and tests are clients.
Concurrent calls of `shutdown()` are outside what `std::jthread` defines. Weights that
are not numbers have no counterpart among whole ticks.

## Plan

The models are complete for the components listed above: the contract, the doorbell and
condition-variable protocols, the four schedulers, the deque, spawn with its handles,
counters and tokens. Every invariant, every safety action property and every refinement
that a passing run checks has a theorem. What could still be added:

1. for the deque with weakly ordered stores, a theorem on the repaired code (a release
   store of `bottom_`), should the repository adopt one;
2. for the global queue, a theorem that names the window of `gq_shutdown` as a safety
   property, which would leave only the fairness argument of `ReturnsOutsideWindow` to
   TLC.
