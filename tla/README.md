# The concurrency runtime of Valk, in TLA+

Valk is a compiled language whose programs run coroutines on OS threads. The compiler
(`src/src`) turns a program into LLVM IR; what happens when the program *runs* is decided by
the runtime and standard library, written in Valk itself, under `lib/src`. That runtime is
where the hard behaviour is: lock-free words next to spin-guarded queues, waiters that are
coroutines of one thread and wakers that run on another, deadlines that race wakes, threads
that end while others still point at what they own, and a collector that has to stop them all.
This directory models that part. The line numbers quoted here and in the modules are those of
the files under `lib/src`.

## The system and its parts

| part | files | state it keeps | operations |
|---|---|---|---|
| Mutex, Lock | core/mutex, core/lock | an atomic word (HELD, QUEUED), a spin guard, a queue of parks, `held_locks` per thread | lock, unlock, Lock.acquire, Lock.release |
| Parks and homes | coro/park | Park (state bits, refs, deadline), Home (inbox, doorbell, polling, alive, refs), `timed_parks` | park_new, park_wait, wake_park, deliver, expire_parks, drain_home, poll_home, home_close |
| Waker | sync/waker | spin guard, `signaled`, waiting park, refs | wait, wake, clear, take/release |
| Channel, select | sync/channel, sync/select | a lock, the ring buffer, queues of sender and receiver wakers, hand-over slots | send, try_send, recv, try_recv, close, select |
| Semaphore, WaitGroup, CancelToken | sync/* | counters and waker queues | acquire, release, add, done, wait, cancel, watch |
| Timer, Ticker, ConcurrentMap | sync/timer, time, sync/concurrent-map | deadlines, shards of locks | after, tick, get/set |
| Coroutine scheduler | coro/coro, coro/stack, coro/coro-linux | run queue, `follow_up` links, kernel events and their generations, stack cache | co, await, yield, loop, run_scheduled, dispatch_completion |
| Tasks and threads | thread/* | task list, idle and running counts, suspend gates, thread list, `mutex_done` | task, runner loop, ThreadGroup, Thread.start/await, ThreadSuspend |
| Garbage collector | gc/* | per-thread heaps, the shared heap, gc states, stop flags | alloc, mark, sweep, collect_shared, safepoint |
| I/O, net, http, process, time | io, net, http, core/process, time | rings, descriptors, connections | event waits around the coroutine scheduler |
| Compiler, LSP, docs, toolchain | src/src | AST, IR, packages | a sequential batch program |

A waiter of the first four rows always ends in `park_wait`; whatever it waits for (a mutex, a
waker) keeps the park in a queue, takes it out, and calls `wake_park`, which puts it in the run
queue of its own thread or the inbox of another one. A `Channel` is a critical section of a
`Lock` around a buffer and two queues of `Waker`s; the wakes go out after the section.

## Properties that make each part correct

* Mutex: one owner; a free mutex with waiters always has somebody on the way to it; a lock
  block never outlives its thread; waiters of a quiet mutex are served in order.
* Parks, wakers: no wake is lost between the flag and the sleep; a park is freed once, after
  its last user; a sleeping thread with something in its inbox was rung; a wake that raced a
  timeout is either taken or left to the next waiter, never both.
* Channel: first in, first out, nothing duplicated or invented; a value whose `recv` threw is
  still there; a slot or value that becomes available goes to somebody who waits; a rendezvous
  send returns only when its value was taken; after `close` everybody who waits returns.
* Semaphore: permits are never created; a permit that is free is not ignored by those waiting.
* Select: a wake that came for a channel it does not take goes to the next receiver there; it
  leaves no queue with its waker behind.
* WaitGroup: a wait returns only when everything its caller counted is done, also when others
  count on meanwhile; nobody is left asleep with nothing to wait for.
* Tasks: a queued task is run; at most 8 runners; no runner sleeps beside a queued task that
  nobody was signalled for.
* GC: what a thread can still reach is not freed; what it cannot reach is found and freed once; a
  block is touched by its own thread, or with that stopped; a round of marking ends when
  everything reachable is marked, whoever helped, and the marks of two rounds are not mixed up.

## Modules

| module | models |
|---|---|
| `Mutex` | core/mutex.valk and core/lock.valk, with what they use of coro/park.valk and coro/coro.valk |
| `MutexProofs` | the inductive invariant of `Mutex`, its lemmas and theorems |
| `Parking` | coro/park.valk, sync/waker.valk, and the scheduler loop of coro/coro.valk around them |
| `WakeSignal` | what a Waker promises; `Parking` is shown to implement it |
| `ParkingProofs` | the inductive invariants of `Parking`, and that it implements `WakeSignal` |
| `Channel` | sync/channel.valk and sync/select.valk, with the cancel token of sync/cancel.valk as they use it |
| `Fifo` | what a channel promises; `Channel` is shown to implement it |
| `ChannelProofs` | the inductive invariant of what `Channel` does with values, and that it implements `Fifo` |
| `ChannelWakeProofs` | the inductive invariant of its queues and wakes |
| `Wakers` | what the waiting calls of lib/src/sync share: the waker, the deadline, the token |
| `Semaphore`, `WaitGroup` | sync/semaphore.valk, sync/waitgroup.valk, over `Wakers` |
| `SuspendGate` | thread/suspend-gate.valk |
| `TaskPool` | thread/task.valk, over `SuspendGate` |
| `Workers` | the composition of `TaskPool`, `Semaphore` and `WaitGroup`: clients, runners, handlers |
| `WorkersProofs` | the inductive invariant of `Workers` and of the five modules it is composed of |
| `SharedGC` | gc/gc-shared.valk, with gc-thread.valk, shared-dump.valk and the sweeps of gc-local.valk |
| `SharedGCProofs` | the inductive invariant of `SharedGC` |
| `ParallelMark` | gc/shared-mark.valk, the step of `SharedGC` in which everything reachable is marked |
| `Marking` | what a round of marking promises; `ParallelMark` is shown to implement it |
| `ParallelMarkProofs` | the inductive invariant of `ParallelMark`, and that it implements `Marking` |
| `SequenceFacts` | what Append, Tail, RemoveAt, RemoveFirst and \o do to a queue, in particular one in which everybody stands once; the proofs use it |
| `MCMutex`, `MCParking`, `MCChannel`, `MCWorkers`, `MCSharedGC`, `MCParallelMark` | the instances TLC checks; values in the `.cfg` files |

The modules are layers. `Parking` shows how a wait sleeps and how a wake
gets to it across threads. `Mutex` sits on parks: it keeps of them only what decides whether a
wake arrives (the bits of the park, whether its thread is alive). `Channel` sits on both: a
`lock this.state` block is one step, because `Mutex` excludes others, and a waker is a pending
wake, because `WakeSignal` says that is what a Waker amounts to. `Semaphore` and `WaitGroup` sit
where `Channel` does, and `Workers` puts both on a pool of threads. The collector stands on its
own: `SharedGC` marks in one step what `ParallelMark` shows is marked when `pmark_run` returns.

Operators that start with the comment "Mutant" are variants of an action with a plausible bug
(a forgotten wake, a check left out). No specification uses them. For every property that is
checked, one of them in place of the real action makes TLC find the property violated, so a
property that holds is known to say something.

### Mutex

One process is one locker: a coroutine of a thread, or a thread outside coroutines (`Native`),
which polls its park instead of yielding.

| code | model |
|---|---|
| `Mutex.state` bits HELD, QUEUED | `held`, `queued`; one atomic operation per step |
| `guard`, `first`..`last` | `guard`, `queue`; a section under the guard with one atomic operation is one step, the one with two is `EnqueueFree` and `ClearQueued` |
| `lock`, `lock_slow` | `Lock`, `SpinTake`, `SpinEnd`, `EnqueueHeld`, `EnqueueFree`, `ClearQueued`, `Suspend`, `Resume`, `Retry` |
| `unlock`, `wake_next`, `wake_park` | `Unlock`, `WakeNone`, `WakePop`, `WakePark`, `Deliver` |
| `Lock.acquire`, `Lock.release`, `held_locks` | `Acquired`, `Released`, `heldLocks` |
| `drain_locks`, `home_close` | `ThreadEnd` |

Coroutines are cooperative, so `At` lets a coroutine step only while the others of its thread
stand at a yield. Lock blocks may contain a yield, since the program may do anything in them.
`locks` and `earlier` are history: how often a locker locked, and who waited before it.

### Parking and WakeSignal

A process waits on its own waker and wakes the wakers of others. A thread's loop is the cycle
of `phase`: `Schedule` takes the run queue, `Resume` and the calls of the coroutine run, `LoopOn`
decides whether the inbox is polled, `PollEnd`, `DrainHome`, `ExpireParks`, and `WaitForEvents`
sleeps until the doorbell, a deadline or a runnable coroutine ends it.

| code | model |
|---|---|
| `Waker.wait` | `BeginWait`, `Sleep`, `Leave`, `Withdraw`, `Release` |
| `Waker.wake`, `wake_park` | `BeginWake`, `WakePark`, `Enqueue`, `Keep` |
| Park: refs, WOKEN, LEFT, owner | `parks`; a park with no references is free memory and is used again |
| Home: inbox, rung, polling, alive | `inbox`, `rung`, `polling`, `alive`; `bell` is the eventfd of Linux |
| `deliver`, `drain_home`, `poll_home`, `expire_parks`, `home_close` | `Deliver`, `DrainHome`, `PollEnd`, `ExpireParks`, `HomeClose` |

`WakeSignal` has the waiters inside a wait, the number of wakes that are `due` for each, and two
counters, the calls of `wake` (`sent`) and the waits that returned true (`woke`). A call of `wake`
makes a wake due, or joins one that is; two that are due may become one (`Merge`); but the last
one goes only with a wait that returns true (`Woken`, `AtOnce`) or with the waiter's thread
(`End`), and a wait returns true only with one that is due. So no wake is lost in the gap between
two waits, and a `wake` that finds nobody and does nothing is no step of `WakeSignal`. The
refinement maps a wait in progress to `waiting`, and to `due` the count (`Due`) of the places a
wake can be in: the waker's flag, the park of a wait that has not left it, and each process that
carries one. `sent` and `woke` are history variables of `Parking`; coroutines of a thread that
ended wait for nothing (`Gone`).

### Channel and Fifo

A process is one caller and has one waker. Send blocks, reserve and push, hand over and
withdraw, receive, and the common waiting part (`Check`, `Register`, `Wait`, `Forget*`,
`CancelForget`, `IsCancelled`, `PassOn`) follow the blocks of the source in their order; the
wakers a block took out are woken one by one in steps of their own (`Wake`), before the caller
goes on. A wake that comes late stays in the waker (`pending`) until `take_waker` drops it.

Who selects (`Selecting`) waits on this channel and on another one, which is first in the list and
only ever closes, the usual `quit` channel. `Select` watches that one, `Watch` this one; whatever
ends the wait, `select_forget` is `Unwatch` and then `ForgetWatch`, two lock sections, and after
each round the list is watched again. When this channel is ready `select` returns and its caller
calls `try_recv` (`Ready`), which may find that another receiver was quicker.

`Fifo` is a closable queue whose sends are reported truly. The refinement keeps `items`,
`closed` and the histories `taken`, `accepted` and `refused`, and hides reservations, queues of
waiters, wakers, timeouts and cancellation.

### Wakers, Semaphore, WaitGroup

`acquire` and `wait` are the same loop around different counters. `Wakers` has the steps that are
the same and the wakers themselves; the other two modules add their lock sections and queues.

| code | model |
|---|---|
| `take_waker`, `release_waker`, `Waker.wait`, `Waker.wake` | `TakeWaker`, `Leave`, `Wait`, `Wake` |
| `CancelToken.register`, `forget`, `is_cancelled`, `cancel` | `Register`, `CancelForget`, `IsCancelled`, `Cancel` |
| `Semaphore.acquire`, `try_acquire`, `release`, `pass_on`, `forget` | `Acquire`, `TryAcquire`, `Release`, `PassOn`, `Forget`, `ForgetTimeout`, `ForgetCancelled` |
| `WaitGroup.add`, `done`, `wait`, `forget` | `Add`, `GroupDone`, `GroupWait`, `GroupForget` |

`dropped` is history: how many wakes of a release ended with an acquirer that timed out.

### SuspendGate and TaskPool

`ThreadSuspendGate.wait` reads `generation`, evaluates the condition, and sleeps under its mutex
only if the generation is still the same. Of the numbers only that comparison matters, so `current`
holds the threads whose copy equals the gate's. A POSIX wait may return for no reason, which
`GateTimeout` includes.

| code | model |
|---|---|
| `wait`, `signal` | `GateNote`, `GateCheck`, `GateSleep`, `GateTimeout`, `GateWoken`, `GateSignal` |
| `task`, `start_taskrunner` | `Queue`, `StartFails`, and `GateSignal` after it |
| `taskrunner_next`, `taskrunner_run_next` | `NextTask`, `GateStep`, `Idles`, `Take`, `Finish` |

### Workers

Clients count a task in the group, start it, may wait for the group, and await their tasks. A
handler acquires a permit, releases it, and marks itself done. The handler of task `t` is the
process `t`: it steps only while a runner has it. All of the steps of the five modules below it
are steps of this one.

### SharedGC

A thread holds the lock of its own gc while it runs. `pc` says where it is: running, blocked (its
gc unlocked), at a safepoint, or somewhere in `collect_shared_native`, `thread_init` or
`thread_stop`. Shared items are slots with an owner (the thread whose block they are in), a mark
(none or one of the two flags that take turns) and a place in a list.

| code | model |
|---|---|
| `collect_shared_native` | `Begin`, `TakeShared`, `CheckCount`, `Announce`, `StopGc`, `Collect`, `ResumeGc`, `Release`, `SweepOther`, `SweepDone`, `LeaveShared`, `Relock` |
| `shared_safepoint` | `Safepoint`, `SafepointOver`, `SafepointLeave` |
| `sweep_shared`, with `sweep_end` | `Sweep`, with `old`, the items before the boundary |
| `foreign_dead`, `shared_dump` | `foreign`, `dump` |
| `thread_init`, `thread_stop`, `shutdown`, `thread_free` | `ThreadInit`, `WantStop`, `StopTakeShared`, `Shutdown`, `ThreadFree` |
| a program that shares, passes on and forgets references | `Share`, `Pass`, `Drop` |

`Collect` is one step because the collector holds every gc and everybody else waits or helps
mark. The roots of a thread stand for what its stacks and local objects lead to.

### ParallelMark and Marking

Each marker has a stack (`local`), a unit or item it is working through (`claims`), and a place in
`pmark_drain`. Every atomic and every unlocked read that a decision is taken on is a step of its
own; `EndLock` and `EndCheck` are the two halves of the last look, with the spin lock held between
them. `Marking` is a round: a heap is found, items that can be reached are marked one by one, and
the round returns when all are, with their number. `ParallelMark` implements it with
`flags[now]` for the marks and `live` for the result.

## What is checked

| run | instance | what it shows |
|---|---|---|
| mutex_race | two coroutines of a thread that may end, a coroutine of a second thread, a third thread outside coroutines; fair | `TypeOK`, `MutualExclusion`, `NoLostWakeUnlessDropped`, `QueueSound`, `LockNeverOutlivesThread`, `FreshInOrder`, `EveryWaiterLocks` |
| parking_remote | two waiting coroutines of one thread, woken by another thread and by a native thread, two calls each; fair | `TypeOK`, `BellRung`, `WakeArrives` |
| parking_end | a coroutine and a native thread wait with deadlines, woken from their own and another thread; the coroutine's thread may end | `RefsExact`, `RunOnce`, `SleeperKnown`, `WakesKept` |
| channel_buffered | two senders, one of which sends twice and may use try_send, a receiver, and a select on this and another channel; capacity 1; a sender and the receiver cancellable; closes; fair | `TypeOK`, `ValuesAttended`, `SlotsAttended`, `SleepersFindable`, `ImplementsFifo`, `EveryCallServed` |
| channel_rendezvous | two senders, a receiver, a cancellable select, capacity 0; a sender and the receiver time out, the other sender is cancellable; try_recv, closes | `SleepersFindable`, `SendHonest`, `WithinCapacity`, `ImplementsFifo` |
| workers | two clients, two tasks, two runners, a semaphore with no permit at first; one handler times out and is cancellable, the other tries; one client waits with a timeout; runners retire and fail to start; fair | `TypeOK`, `PoolCountsExact`, `NoTaskStranded`, `PermitsAttended`, `GroupWaits`, `WaitersFindable`, `WorkEnds` |
| shared_gc | the main thread and one that starts, blocks and ends, both of which collect; two items; fair | `TypeOK`, `ReachableKept`, `ListedOnce`, `MarksTrue`, `BlocksLeftAlone`, `RoundsEnd` |
| parallel_mark | a collector and two helpers, four items, three heaps that change from round to round; fair | `TypeOK`, `ImplementsMarking`, `MarkingEnds` |
| mutex_drop, parking_kept, channel_recv_timeout, permit_dropped | | each finds a counterexample, see below |

**Bounds.** `MaxLocks`, `MaxCalls`, `Parks`, `MaxTasks`, `MaxGiven` and the sets of processes,
items and heaps are the only ones.

* Mutex: a woken waiter that loses the race needs a waiter, an unlocker and a third locker; a
  wake that must go past an ended thread needs two waiters besides the unlocker. Four lockers
  with one lock each have both.
* Parking: the hard cases are a wait and the next one of the same waiter against a wake that
  belongs to the first, hence two calls. `Parks` has to be at least the waits that can be alive
  at once for a liveness check, or a waiter stops at the bound; four are enough there, and three
  in parking_end, where a waiter that finds none simply does not wait.
* Channel: to pass a wake on takes a cancelled waiter and another of its kind, and for senders
  also a value that fills the slot; a sender that sends twice and a second one have that. A
  receiver and a select are what a wake handed to the wrong one needs. Values are named by sender
  and call, so order, loss and duplication all show.
* Workers: two tasks let a runner be idle, retire or be started while the other task is queued,
  and let a handler lose its permit's wake to the other. Two clients let the group's count rise
  again before a woken client looks. Two cases do not occur: a runner that comes from the gate
  and finds that another took the last of its tasks (`Take`, third disjunct) needs a third task, and a
  `done` too many (`GroupDone`, first disjunct) a faulty program. With `MaxTasks = 3` and a third
  handler that acquires nothing the invariants hold as well (7.0 million states); the liveness
  property takes too long there to be a run.
* SharedGC: two threads are a collector and the one it stops, in both roles; while one waits for
  `shared_lock` the other may collect or end. Two items are one that waits for its sweep and one
  that was shared after the boundary, in one block or two. Rounds are not bounded.
* ParallelMark: `ShareMin` is 2 and `TakeMax` is 1, so that a stack of two is worth sharing and a
  queue of two is taken in two turns. Two helpers are the one that leaves late and the one that
  joins late. Rounds are not bounded either.

**Deadlock** is checked in the channel and collector runs: in the former every caller can always
finish (`Done` says when it has), in the latter something can always go on. It is off where
the system really may stop: in mutex_race after all lockers are done or lost with the thread that
ended; in the parking instances, where a process may wait with nobody left to wake it and all threads
in their event wait; in workers, where after the last task the runners sleep at the gate or have
retired (`WorkEnds` says that nothing is left undone then); and in the runs that look for a
counterexample, which leave a waiter behind by what they show.

**Fairness.** Weak fairness of every step of a locker or caller once it is in a call, of the
wakes it still has to give, and of every step of a thread's loop: the operating system runs each
thread, the loop resumes each coroutine in its run queue once per turn, and a spin-guarded
section is short. It says that lock blocks end and callers make their calls. Nothing is assumed
of deadlines, cancellation, close, the ends of threads, try_send and try_recv: these happen or
not. In `Workers` the steps of runners, handlers and of clients in a call are weakly fair and the
permits are given; whether tasks are started, waits time out or runners retire is left open. In
`ParallelMark` who marks runs on, but nobody has to help.

Strong fairness is used in one place, the waits for a mutex in `SharedGC` (`Waits`): a thread that
wants `shared_lock` or a gc gets it if it is free again and again. The operating system's mutexes
do not promise that in theory; without it a second collector could keep a thread out
for ever, and what `RoundsEnd` is about is whether a collection waits for somebody who does
not come. A running thread comes to a safepoint (`Safepoint` is weakly fair once `stop` is set) as long as it
allocates; a loop that neither allocates nor blocks holds collections up in the code as well.
Lockers of `Mutex` stop after `MaxLocks`, so that a waiter which loses races forever, which the
code allows, does not appear; `EveryWaiterLocks` is about wakes that get lost.

## What the code does differently from what it says

1. **A wake dropped with an ending thread** (run mutex_drop, coro/park.valk:356). `wake_next`
   takes the next waiter when `wake_park` answers that the thread of the first one ended. But a
   wake already accepted into the inbox of a thread that then ends was answered with true, and
   `home_close` throws the inbox away. The mutex is free, a waiter sleeps, and nobody is on the
   way until somebody else locks and unlocks it. `NoLostWakeUnlessDropped` says this is the only
   way, and is proved.
2. **A wake kept too late** (run parking_kept, sync/waker.valk:44). A wake that met a waiter
   which just timed out is kept for its next wait, but the flag is set without looking whether
   that wait began already: it sleeps with the flag set. Only waits with a deadline are exposed;
   without one no wake comes too late.
3. **A timed-out receiver keeps the wake of a value** (run channel_recv_timeout,
   sync/channel.valk:269). A cancelled waiter passes on the wake it may have taken; one that
   times out between the try and the wait does not, and another receiver sleeps with the value
   queued. `reserve_slot` (:207-211) has the same gap for free slots. Channels without timeouts
   have neither (`EveryCallServed`).
4. **A timed-out acquirer keeps the wake of a permit** (run permit_dropped,
   sync/semaphore.valk:57). The same gap in `acquire`: a cancelled acquirer passes the wake on,
   one that finds its deadline passed does not, and another one sleeps with a permit free.
   `PermitsAttended` says this is the only way: while somebody waits, free permits without an
   acquirer on its way are not more than the wakes dropped like this.

Also seen, and not counted as a disagreement: an idle runner that was signalled for one task still counts as
idle when the next task is queued, so that no runner is started for that although fewer than 8 exist
(thread/task.valk:64). The comment at :22 says a runner is started "when none is idle"; the task
runs when a runner is done (`WorkEnds`).

## What is proved

For every set of processes, threads, items and tasks and every bound, from no assumptions but
those the modules name (`MutexAssumption`, `ParkingAssumption`, `ChannelAssumption`, `WorkersAssumption` and those of its parts,
`SharedGCAssumption`, `ParallelMarkAssumption`):

| module | theorems |
|---|---|
| `MutexProofs` | `TypeOK`, `MutualExclusion`, `LockNeverOutlivesThread`, `QueueSound`, `FreshInOrder`, `NoLostWakeUnlessDropped`; `NoLostWake` if no thread ends early |
| `ParkingProofs` | `TypeOK`, `RefsExact`, `RunOnce`, `BellRung`, `SleeperKnown`, `WakesKept` |
| `ChannelProofs` | `TypeOK`, `WithinCapacity`, `SendHonest`; `ImplementsFifo` unless try_send is used on a rendezvous channel |
| `ChannelWakeProofs` | `SleepersFindable`; `ValuesAttended` if only selects receive with a timeout, `SlotsAttended` if no send has one |
| `WorkersProofs` | `TypeOK`, `PoolCountsExact`, `NoTaskStranded`, `GroupWaits`, `WaitersFindable`, `PermitsAttended` |
| `SharedGCProofs` | `TypeOK`, `ReachableKept`, `MarksTrue`, `ListedOnce`, `BlocksLeftAlone` |
| `ParallelMarkProofs` | `TypeOK`, `ImplementsMarking` |

The inductive invariants are `IInv`, `DInv` for the values of a channel, three for parking: a lemma
per part shows that a step keeps it, and the theorems follow from the parts. None of the properties is inductive alone; what had to be
added says why the code is right, so it is worth reading.

### Mutex

* Types: `held_locks` stays a natural number only because it counts lockers that are inside or
  still unlocking (`HeldLocksExact`), so the one that counts down is one of them.
* The queue is sound only if a waker that took a park out is the only one to set its bit, and
  the owner still waits until then. That is `WakersSound`, the part of `IInv` no run checks as
  such: until the bit is set nobody else wakes the park, and afterwards the owner waits unless the
  waker knows it left.
* No wake is lost because of all of them: when the mutex becomes free, QUEUED is set if anybody
  is queued, the unlocker then carries the wake; when the one who carries it loses its hold on it,
  it took the mutex, took a park out, or delivered the wake to a coroutine that will try again.
  The carrier is alive, since a thread does not end with a lock held (`HoldersAlive`), and a
  native thread does not end inside the mutex (`NativeAlive`).

* The order of the queue (`FreshInOrder`) needs `Precede`: who was waiting when another locker joined
  is waiting still, since it stops only by taking the mutex and is then struck out of `earlier`. So
  a locker that joins at the back was there before nobody in the queue, and one that joins in front
  was woken before. It is proved on top of `IInv`, which says that who is woken is not queued.

### Parking

The invariant comes in three layers, each proved with the help of the ones before.

* `HInv`, who holds what, follows a park around. A wait has it as its own (`mine`); at most one
  place of the queue side has it, a waker, a wake that took it out or an inbox (`OneQueue`); its
  references are these two (`Counted`), so that a release frees it exactly when it is the
  last, and `RefsExact` is read off. Memory of a park is used again only when nobody names
  it any more, hence whoever names one still finds the owner it was made for (`Owned`). `Marked`
  says which parks on the queue side have their wake on them already, `Findable` that a park
  of a wait which has none yet is in its waker or with a wake. `TypeOK` needs all of this: a release
  takes a reference off only where there is one.
* `RInv`, where the coroutines are: each is in one place of its own thread (`OnePlace`, `AtHome`),
  and one that sleeps does so in the park of its wait (`Sleeping`), which is why `deliver` may
  compare `coro.park`. A delivery takes parks in the order of the inbox, in which each
  stands once, so whom it makes runnable was asleep and is appended once. `Sought` keeps the park of a
  sleeper of a live thread on the queue side: only its own thread takes it out of the inbox
  without delivering it, by closing. `RunOnce` and `SleeperKnown` follow.
* `BInv`, the doorbell: an inbox that is not empty was rung for or is polled, and who rang is heard
  unless the thread is about to drain.

`WakesKept` needs `HInv` and `LInv`, that a thread that ended runs nobody. Every step is a step of
`WakeSignal` or none, and the lemmas count for one waiter at a time (`DueIs`, `CarrierNew`,
`CarrierGone`, `SignalStep`): `BeginWake` adds one, or sets a flag that was set; `WakePark` moves a
wake from the process that carries it to the park of a wait that did not leave, and leaves it with
that process when the wait did, so that the count stays the same; `Keep` moves it to the flag, or
merges it with the wake kept there; `BeginWait` takes the flag and `Leave` the mark of its park,
one each, and a `Leave` that times out finds its park unmarked; `Enqueue` finds the home closed only for
a coroutine that is gone, and `HomeClose` is `End`.

### Channel

Some twenty actions touch the values in nine ways only (`Stored`, `Offered`, `Confirmed`,
`Withdrawn`, `Refused`, `Slotted`, `Received`, `Thrown`, `Goes`); `DataSteps` shows that, and the
rest of `ChannelProofs` is about those nine.

* Capacity: `reserved` is the number of senders between reserving and pushing (`SlotsCounted`),
  so that a push gives back what its own sender took.
* Rendezvous: `HandsPaired` says that position by position the hand-over queue names the sender
  whose value is there, once, and that this sender is still in `hand_over`. Hence `withdraw` removes
  its own value, and a sender that is no longer in the queue had its value received (`HandedTaken`).
* `ValuesPlaced`: a value is queued or received, never both and never twice, and only from the
  time its call makes it so; what a call reported agrees with where its value is. `SendHonest`
  and the refinement of `Fifo` are read off from this. The refinement has a hypothesis: a
  try_send on a rendezvous channel returns before its value is received, which `Fifo` does not
  allow a channel without buffer.

For the wakes, `QueuesSound` says who may stand in which queue, once, and that queues are empty
after their close or cancellation.

* `Findable` is `SleepersFindable` from the moment a caller is queued, not only when it sleeps: who
  has no wake on its way is in its queue as long as the channel is open, and so at the token and at
  the other channel. A wake is consumed or dropped only by the caller it is for, which looks
  again or leaves (`WakeUsed`); others that are taken out of a queue have their wake on its way
  (`Bystanders`, `HandoffKept`).
* `ReadersCalled` counts the receivers that were called out of the queue and still are in their
  call (`Called`): while others wait in it, they are at least as many as the values. A send that adds a
  value calls one more; one that takes a value, or hands its wake on, is called no longer; and
  who is called and finds nothing leaves an empty channel behind. `WritersCalled` is the same for
  senders and free slots. `forgetTimeout` is where a called receiver ends without either, so
  timeouts are excluded there: the run channel_recv_timeout shows what happens with one. A select
  may have a timeout, since `forget_watch` hands its wake on.

### Workers

`Placed` and `Roles` say which places a client, a handler and a helper may be in; they keep the
modules that are composed from getting into each other's loops.

* Pool: `taskrunners` and `threads_waiting` are the numbers of runners there are and of those at
  the gate (`RunnersCounted`, `AtGate`), a task is in the queue once or in one frame
  (`TasksPlaced`). No task is stranded because of `TasksAttended`: while all runners sit at the
  gate, tasks in the queue are not more than the runners that will look again, having a stale
  generation or not having looked yet, and the clients that still have to signal. A task that is
  queued brings its own client; a signal makes every sleeper look; a runner that looks takes a
  task with it.
* Group: the count is the number of clients that counted a task and did not start it yet, and of
  tasks started and not marked done (`GroupCounted`), so a wait that saw 0 saw everything its
  caller counted. `WaitersListed` keeps whoever waits in the queue or a wake on its way to it: a
  wake that is consumed belongs to the caller that consumes it, which looks again.
* Semaphore: `PermitsCounted` is the books; `PermitsCalled` says that while the queue is not empty,
  free permits are not more than those called out of it and still in their call (`Called`) plus
  the wakes dropped by timeouts. A release calls one more; who takes a permit, or throws after
  passing on, is called no longer, and only a timeout takes one off without either.

### SharedGC

`LocksSound` is the protocol: one thread inside `shared_lock`, who collects has the gc of every
thread in the list, who runs has its own. From it `Collect` marks from the roots of all
(`RootsListed`). What it does not mark is out of reach for good: `DeadUnreachable` says that no
root leads to an item that waits for a sweep, is in `foreign_dead` or in the dump, and
`MarksSound` that an item with the mark of the round before does wait there, so that the flag
can be used again. `ListsDisjoint` is `ListedOnce` without the counting; it keeps an item
from being swept twice, once by its thread and once by one that ends.
`BlocksLeftAlone` says who may touch what belongs to a gc, its lists and the items in its blocks: the
thread that takes the step has that gc's lock (`TouchedHeld`), not just somebody, and it is the
thread itself while that runs, since a thread that runs has its own lock. A collector that swept for
a thread without `try_lock` (gc-shared.valk:121), or freed in another's block where the sweep sets the
item aside (gc-local.valk:794), breaks it. `BlocksListed` says that a block is a listed thread's or nobody's, so
that a collector that stopped all has the gc of every block it marks in.

### ParallelMark

`CountsExact` says that `pmark_idle` counts the idle markers as long as the marking runs, and
`WorkPlaced` who may hold items where. Then nobody has work when all count as idle (`EndSound`): the
unit counter was seen past the end first, the queue is looked at under the lock, and an idle
marker has nothing in its stack. `MarkingSound` is the usual one of tracing: a marked item is in
a stack or in the queue, or what it leads to is marked or about to be. `LiveCounted`
says that there are sets of traced items, one of each marker and one of those added up, as large
as `found` and `pmark_live`, which with the stacks and the queue share out the marked items; hence
the result is their number. With these every step is a step of `Marking` or none: `Claim`
marks, `EndCheck` that clears `active` returns, `Run` starts the next round.

### Only model-checked

Every safety property the passing runs check is proved, some under the hypotheses named above. What
stays with TLC is liveness (`EveryWaiterLocks`, `WakeArrives`, `EveryCallServed`, `WorkEnds`,
`RoundsEnd`, `MarkingEnds`), which is beyond the proof system. That marking reaches
what the roots lead to uses the definition of `Reachable` in `Marking` as the least closed set,
because an induction over paths would be out of reach too.

## What is left out, and why

* In these modules: addresses, the ring buffer, timing other than that a deadline passes or not,
  memory orders (the atomics of the language are sequentially consistent), allocation failure
  and kernel errors. The doorbell is that of Linux; kqueue and Windows ring theirs at the same
  places. A home is kept while parks name it, which the reference count of homes does.
* In `Channel`: callers whose thread ends in a call, and a select on more than two channels or on
  channels that both carry values. `TrySend` on a rendezvous channel is in the model and in the
  proofs of `WithinCapacity`, `SendHonest` and the wakes, but in no run: it counts the receivers that
  wait when it reserves, and such a receiver may take another sender's value, so that its own
  stays queued although a capacity of 0 "holds no values" (sync/channel.valk:33).
* In `Semaphore`, `WaitGroup` and `CancelToken`: child tokens, callbacks and watched descriptors
  of a token, `add` of more than one at a time, and waiters whose thread ends.
* In `TaskPool`: the numbers of the generation, which could only matter after 2^64 signals; more than
  two runners (`Limit` is a parameter, 8 in the code); tasks started by handlers, eight of which
  could wait for each other in a pool that is full; the collector, though a sleeping runner lets
  go of its gc as any blocked thread does.
* In `SharedGC`: the triggers and the accounting of bytes; a gc that is disabled or already
  collecting, which makes `collect_shared_native` return at once; the panic of `dont_stop`, which
  says the compiler never shares in a call that may collect; the adoption of unused blocks by
  other threads and the tagging of fresh slots for conservative stack scans, which are about
  addresses. Items of `foreign_dead` that move to the dump when a thread ends may bear the mark
  of an earlier round, and are freed a round later for it; `MarksTrue` leaves the dump out.
* In `ParallelMark`: sizes, the order of a stack, items outside blocks (offset 0).
* Not modelled at all: the compiler, the language server and the documentation tool (sequential,
  over syntax trees); containers and text; the thread-local collector (sequential); protocols and
  operating system calls; the macOS and Windows backends.

## Plan

Done: `Mutex`; `Parking` and `WakeSignal`; `Channel`, with select, and `Fifo`;
`Semaphore`, `WaitGroup`, `SuspendGate` and `TaskPool`, composed in `Workers`; `SharedGC`;
`ParallelMark` and `Marking`.

To model, in this order:

| module | models | properties worth having |
|---|---|---|
| ThreadLife | thread/thread, thread-group | each end is seen once; no entry waits for a coroutine that cannot run any more |
| Scheduler | coro/coro, coro/coro-linux | completions reach only the wait they belong to; each awaiting coroutine is resumed once |
| Channel with threads that end | sync/channel over `Mutex`'s `ThreadEnd` | a reserved slot or a wake is not lost with its thread, or exactly when |
| Timer, ConcurrentMap, child tokens | sync/timer, sync/concurrent-map, sync/cancel | last |

Proofs to come: what holds of the abstract specifications, and so of what implements them; and
what the new modules above bring.
