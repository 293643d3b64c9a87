------------------------------- MODULE Mutex -------------------------------
(***************************************************************************)
(* core.Mutex (lib/src/core/mutex.valk) and the held-lock count of         *)
(* core.Lock (lib/src/core/lock.valk), with the part of coro/park.valk and *)
(* coro/coro.valk they stand on: a waiter parks, a wake reaches it unless  *)
(* its thread has ended, and a thread ends only while its coroutines hold  *)
(* no lock (Coro.drain_locks).                                             *)
(*                                                                         *)
(* A process is one locker: a coroutine of a thread, or (Native) the       *)
(* thread itself outside coroutines.  `held` and `queued` are the bits     *)
(* MUTEX_HELD and MUTEX_QUEUED of Mutex.state; every step performs at most *)
(* one atomic operation on that word.  The wait queue is only touched      *)
(* under `guard`, so a guarded section with a single operation on the word *)
(* is one step; the one section with two (EnqueueFree, ClearQueued) keeps  *)
(* the guard in between.                                                   *)
(***************************************************************************)
EXTENDS Naturals, Sequences, FiniteSets

CONSTANTS
    Procs,      \* the lockers
    Threads,    \* the OS threads
    ThreadOf,   \* the thread each locker runs on
    Native,     \* lockers that wait outside coroutines (Park.home is null)
    MayEnd,     \* threads whose entry function may return while others run
    MaxLocks,   \* bound: how often one locker takes the mutex
    NoProc      \* nobody

ASSUME MutexAssumption ==
    /\ IsFiniteSet(Procs)
    /\ ThreadOf \in [Procs -> Threads]
    /\ Native \subseteq Procs
    /\ MayEnd \subseteq Threads
    /\ MaxLocks \in Nat
    /\ NoProc \notin Procs

VARIABLES
    held, queued,   \* Mutex.state
    guard,          \* Mutex.guard: who is inside a guarded section across steps
    queue,          \* Mutex.first .. Mutex.last, each park named by its locker
    pc,             \* where each locker is
    retried,        \* the local `woken` of lock_slow
    woken,          \* PARK_WOKEN of each locker's park
    runnable,       \* deliver() or the inbox made the waiting coroutine run again
    target,         \* the park wake_next took out of the queue
    left,           \* PARK_LEFT of that park: its locker returned from park_wait
    heldLocks,      \* core.held_locks of each thread
    gone,           \* threads that ran home_close
    locks,          \* history: locks taken by each locker, for MaxLocks
    earlier         \* history: who was waiting already when a locker joined them

vars == <<held, queued, guard, queue, pc, retried, woken, runnable, target, left,
          heldLocks, gone, locks, earlier>>

PCs == {"idle", "spin", "enqueue", "clearQueued", "parking", "parked",
        "retry", "cs", "wakeNext", "wakePark", "deliver"}

TypeOK ==
    /\ held \in BOOLEAN
    /\ queued \in BOOLEAN
    /\ guard \in Procs \cup {NoProc}
    /\ queue \in Seq(Procs)
    /\ pc \in [Procs -> PCs]
    /\ retried \in SUBSET Procs
    /\ woken \in SUBSET Procs
    /\ runnable \in SUBSET Procs
    /\ target \in [Procs -> Procs \cup {NoProc}]
    /\ heldLocks \in [Threads -> Nat]
    /\ gone \in SUBSET Threads
    /\ locks \in [Procs -> Nat]
    /\ left \in SUBSET Procs
    /\ earlier \in [Procs -> SUBSET Procs]

Init ==
    /\ held = FALSE
    /\ queued = FALSE
    /\ guard = NoProc
    /\ queue = <<>>
    /\ pc = [p \in Procs |-> "idle"]
    /\ retried = {}
    /\ woken = {}
    /\ runnable = {}
    /\ target = [p \in Procs |-> NoProc]
    /\ heldLocks = [t \in Threads |-> 0]
    /\ gone = {}
    /\ locks = [p \in Procs |-> 0]
    /\ left = {}
    /\ earlier = [p \in Procs |-> {}]

Goto(p, label) == pc' = [pc EXCEPT ![p] = label]

Alive(p) == ThreadOf[p] \notin gone

(* Where another coroutine of the thread may run: p is outside the mutex,  *)
(* in its lock block (the program may yield there), or it yielded in       *)
(* park_wait.  A native locker never yields.                               *)
Yields(p) == IF p \in Native THEN pc[p] = "idle" ELSE pc[p] \in {"idle", "parked", "cs"}

(* Coroutines are cooperative: p takes a step while the others of its      *)
(* thread stand where they yielded.                                        *)
At(p, label) ==
    /\ pc[p] = label
    /\ Alive(p)
    /\ \A q \in Procs \ {p} : ThreadOf[q] = ThreadOf[p] => Yields(q)

(* Lockers that queued once and have not got the mutex since.              *)
Waiting == {q \in Procs : \/ pc[q] \in {"parking", "parked", "retry"}
                          \/ pc[q] \in {"enqueue", "clearQueued"} /\ q \in retried}

\* Mutant: the held lock is not counted.
AcquiredUncounted(p) ==
    /\ Goto(p, "cs")
    /\ heldLocks' = heldLocks
    /\ earlier' = [q \in Procs |-> IF q = p THEN {} ELSE earlier[q] \ {p}]

(* lock() returned: Lock.acquire counts it before anything else of the    *)
(* thread can run.                                                        *)
Acquired(p) ==
    /\ Goto(p, "cs")
    /\ heldLocks' = [heldLocks EXCEPT ![ThreadOf[p]] = @ + 1]
    /\ earlier' = [q \in Procs |-> IF q = p THEN {} ELSE earlier[q] \ {p}]

(* unlock() returned: Lock.release no longer counts it.                   *)
Released(p) ==
    /\ Goto(p, "idle")
    /\ heldLocks' = [heldLocks EXCEPT ![ThreadOf[p]] = @ - 1]

-----------------------------------------------------------------------------
(* Taking the mutex                                                        *)

(* lock(): one atomic or; its old value says who took it.                  *)
Lock(p) ==
    /\ At(p, "idle") /\ locks[p] < MaxLocks
    /\ locks' = [locks EXCEPT ![p] = @ + 1]
    /\ retried' = retried \ {p}
    /\ held' = TRUE
    /\ \/ held /\ Goto(p, "spin") /\ UNCHANGED <<heldLocks, earlier>>
       \/ ~held /\ Acquired(p)
    /\ UNCHANGED <<queued, guard, queue, woken, runnable, target, left, gone>>

(* One of the tries before parking sees the mutex free and takes it.       *)
SpinTake(p) ==
    /\ At(p, "spin") /\ ~held
    /\ held' = TRUE
    /\ Acquired(p)
    /\ UNCHANGED <<queued, guard, queue, retried, woken, runnable, target, left, gone, locks>>

(* The tries run out.                                                      *)
SpinEnd(p) ==
    /\ At(p, "spin")
    /\ Goto(p, "enqueue")
    /\ UNCHANGED <<held, queued, guard, queue, retried, woken, runnable, target, left,
                   heldLocks, gone, locks, earlier>>

\* Mutant: a waiter that lost the race goes to the back.
PushBack(p) == queue' = Append(queue, p)

(* push_front for a locker that was woken before, push_back for the rest.  *)
Push(p) == queue' = IF p \in retried THEN <<p>> \o queue ELSE Append(queue, p)

\* Mutant: the word is not looked at again under the guard.
EnqueueBlind(p) ==
    /\ At(p, "enqueue") /\ guard = NoProc
    /\ queued' = TRUE
    /\ Push(p)
    /\ earlier' = [earlier EXCEPT ![p] = IF p \in retried THEN @ ELSE Waiting]
    /\ woken' = woken \ {p}
    /\ runnable' = runnable \ {p}
    /\ Goto(p, "parking")
    /\ UNCHANGED <<held, guard, retried, target, left, heldLocks, gone, locks>>

(* Guarded: the word is marked held and queued; it was held already, so    *)
(* the new park joins the queue, in front when its owner was woken before. *)
EnqueueHeld(p) ==
    /\ At(p, "enqueue") /\ guard = NoProc /\ held
    /\ queued' = TRUE
    /\ Push(p)
    /\ earlier' = [earlier EXCEPT ![p] = IF p \in retried THEN @ ELSE Waiting]
    /\ woken' = woken \ {p}
    /\ runnable' = runnable \ {p}
    /\ Goto(p, "parking")
    /\ UNCHANGED <<held, guard, retried, target, left, heldLocks, gone, locks>>

(* Guarded: the same operation finds the mutex free, and so takes it.      *)
EnqueueFree(p) ==
    /\ At(p, "enqueue") /\ guard = NoProc /\ ~held
    /\ held' = TRUE
    /\ queued' = TRUE
    /\ guard' = p
    /\ Goto(p, "clearQueued")
    /\ UNCHANGED <<queue, retried, woken, runnable, target, left, heldLocks, gone, locks, earlier>>

(* Still guarded: without waiters the queued mark is taken back.           *)
ClearQueued(p) ==
    /\ At(p, "clearQueued")
    /\ queued' = (queued /\ queue # <<>>)
    /\ guard' = NoProc
    /\ Acquired(p)
    /\ UNCHANGED <<held, queue, retried, woken, runnable, target, left, gone, locks>>

(* park_wait: a coroutine that sees no wake yields; a native locker keeps  *)
(* polling.                                                                *)
Suspend(p) ==
    /\ At(p, "parking") /\ p \notin woken /\ p \notin Native
    /\ Goto(p, "parked")
    /\ UNCHANGED <<held, queued, guard, queue, retried, woken, runnable, target, left,
                   heldLocks, gone, locks, earlier>>

(* park_wait returns: the bit was seen before yielding (or by a native     *)
(* poll), or the coroutine was run again.                                  *)
Resume(p) ==
    /\ \/ At(p, "parking") /\ p \in woken
       \/ At(p, "parked") /\ p \in woken /\ p \in runnable
    /\ retried' = retried \cup {p}
    /\ left' = left \cup {q \in Procs : target[q] = p}
    /\ Goto(p, "retry")
    /\ UNCHANGED <<held, queued, guard, queue, woken, runnable, target,
                   heldLocks, gone, locks, earlier>>

\* Mutant: a woken waiter takes the mutex for handed over.
RetryTakes(p) ==
    /\ At(p, "retry")
    /\ held' = TRUE
    /\ Acquired(p)
    /\ UNCHANGED <<queued, guard, queue, retried, woken, runnable, target, left, gone, locks>>

(* The woken waiter tries again; another locker may have been quicker.     *)
Retry(p) ==
    /\ At(p, "retry")
    /\ held' = TRUE
    /\ \/ held /\ Goto(p, "enqueue") /\ UNCHANGED <<heldLocks, earlier>>
       \/ ~held /\ Acquired(p)
    /\ UNCHANGED <<queued, guard, queue, retried, woken, runnable, target, left, gone, locks>>

-----------------------------------------------------------------------------
(* Releasing it                                                            *)

(* unlock(): one atomic and keeps only the queued mark.                    *)
Unlock(p) ==
    /\ At(p, "cs")
    /\ held' = FALSE
    /\ \/ queued /\ Goto(p, "wakeNext") /\ UNCHANGED heldLocks
       \/ ~queued /\ Released(p)
    /\ UNCHANGED <<queued, guard, queue, retried, woken, runnable, target, left,
                   gone, locks, earlier>>

(* wake_next, guarded: nobody waits.                                       *)
WakeNone(p) ==
    /\ At(p, "wakeNext") /\ guard = NoProc /\ queue = <<>>
    /\ queued' = FALSE
    /\ Released(p)
    /\ UNCHANGED <<held, guard, queue, retried, woken, runnable, target, left,
                   gone, locks, earlier>>

\* Mutant: the queued mark is cleared with waiters left.
WakePopClears(p) ==
    /\ At(p, "wakeNext") /\ guard = NoProc /\ queue # <<>>
    /\ target' = [target EXCEPT ![p] = Head(queue)]
    /\ left' = left \ {p}
    /\ queue' = Tail(queue)
    /\ queued' = FALSE
    /\ Goto(p, "wakePark")
    /\ UNCHANGED <<held, guard, retried, woken, runnable, heldLocks, gone, locks, earlier>>

(* wake_next, guarded: the first park leaves the queue.                    *)
WakePop(p) ==
    /\ At(p, "wakeNext") /\ guard = NoProc /\ queue # <<>>
    /\ target' = [target EXCEPT ![p] = Head(queue)]
    /\ left' = left \ {p}
    /\ queue' = Tail(queue)
    /\ queued' = (queued /\ Tail(queue) # <<>>)
    /\ Goto(p, "wakePark")
    /\ UNCHANGED <<held, guard, retried, woken, runnable, heldLocks, gone, locks, earlier>>

(* wake_park: the park is marked woken.                                    *)
WakePark(p) ==
    /\ At(p, "wakePark")
    /\ woken' = woken \cup {target[p]}
    /\ Goto(p, "deliver")
    /\ UNCHANGED <<held, queued, guard, queue, retried, runnable, target, left,
                   heldLocks, gone, locks, earlier>>

(* A wake can be left with w: outside coroutines it polls its park itself, *)
(* inside them its thread's home must be alive.                            *)
Reachable(w) == w \in Native \/ Alive(w)

\* Mutant: wake_park answers true for an ended thread.
DeliverBlind(p) ==
    /\ At(p, "deliver")
    /\ runnable' = runnable \cup
           {w \in {target[p]} : pc[w] = "parked" /\ p \notin left /\ Alive(w)}
    /\ Released(p)
    /\ target' = [target EXCEPT ![p] = NoProc]
    /\ UNCHANGED <<held, queued, guard, queue, retried, woken, left, gone, locks, earlier>>

(* wake_park goes on: a native locker polls its park, a coroutine of a     *)
(* live thread is made to run again unless it left the park already, and   *)
(* for an ended thread it answers false, so wake_next takes the next one.  *)
Deliver(p) ==
    /\ At(p, "deliver")
    /\ \/ /\ Reachable(target[p])
          /\ runnable' = runnable \cup {w \in {target[p]} : pc[w] = "parked" /\ p \notin left}
          /\ Released(p)
       \/ /\ ~Reachable(target[p])
          /\ Goto(p, "wakeNext")
          /\ UNCHANGED <<runnable, heldLocks>>
    /\ target' = [target EXCEPT ![p] = NoProc]
    /\ UNCHANGED <<held, queued, guard, queue, retried, woken, left, gone, locks, earlier>>

-----------------------------------------------------------------------------
\* Mutant: the thread ends without drain_locks.
ThreadEndUndrained(t) ==
    /\ t \in MayEnd \ gone
    /\ \A p \in Procs : ThreadOf[p] = t => Yields(p)
    /\ gone' = gone \cup {t}
    /\ UNCHANGED <<held, queued, guard, queue, pc, retried, woken, runnable, target, left,
                   heldLocks, locks, earlier>>

(* The entry function returned and drain_locks sees no lock held: the      *)
(* thread closes its home, what is in the inbox is dropped and suspended   *)
(* coroutines are abandoned.                                               *)
ThreadEnd(t) ==
    /\ t \in MayEnd \ gone
    /\ \A p \in Procs : ThreadOf[p] = t => Yields(p)
    /\ heldLocks[t] = 0
    /\ gone' = gone \cup {t}
    /\ UNCHANGED <<held, queued, guard, queue, pc, retried, woken, runnable, target, left,
                   heldLocks, locks, earlier>>

Step(p) ==
    \/ SpinTake(p) \/ SpinEnd(p) \/ EnqueueHeld(p) \/ EnqueueFree(p)
    \/ ClearQueued(p) \/ Suspend(p) \/ Resume(p) \/ Retry(p)
    \/ Unlock(p) \/ WakeNone(p) \/ WakePop(p) \/ WakePark(p) \/ Deliver(p)

Done ==
    /\ \A p \in Procs : Alive(p) => pc[p] = "idle" /\ locks[p] = MaxLocks
    /\ UNCHANGED vars

Next ==
    \/ \E p \in Procs : Lock(p) \/ Step(p)
    \/ \E t \in Threads : ThreadEnd(t)
    \/ Done

Spec == Init /\ [][Next]_vars

(* The OS runs every thread, its scheduler every coroutine that can run,   *)
(* and every lock block comes to its end.                                  *)
FairSpec == Spec /\ \A p \in Procs : WF_vars(Step(p))

-----------------------------------------------------------------------------
(* Properties                                                              *)

Owner(p) == pc[p] \in {"clearQueued", "cs"}

(* In Lock.release, between the atomic and and its return.                 *)
Releasing(p) == pc[p] \in {"wakeNext", "wakePark", "deliver"}

Queued == {queue[i] : i \in DOMAIN queue}

(* What held_locks has to count: lock blocks entered and not released.     *)
Counts(p) == pc[p] = "cs" \/ Releasing(p)

Counted(t) == {p \in Procs : ThreadOf[p] = t /\ Counts(p)}

HeldLocksExact == \A t \in Threads : heldLocks[t] = Cardinality(Counted(t))

HoldersAlive == \A p \in Procs : Owner(p) \/ Releasing(p) => Alive(p)

(* Mutual exclusion (mutex.valk: `lock`, `lock_slow`): at most one locker  *)
(* has the mutex, and MUTEX_HELD is set exactly while one has it.          *)
MutualExclusion ==
    /\ \A p, q \in Procs : Owner(p) /\ Owner(q) => p = q
    /\ held <=> \E p \in Procs : Owner(p)

(* A wake on its way to w's park reaches the coroutine: the bit is set     *)
(* before it yields, it was made to run, or a waker is about to do so.     *)
WakeReaches(w) ==
    \/ pc[w] = "parking" /\ w \in woken
    \/ /\ pc[w] = "parked" /\ w \in woken
       /\ w \in runnable \/ \E p \in Procs : pc[p] = "deliver" /\ target[p] = w /\ p \notin left

(* Somebody whose next steps take the mutex, or wake the next waiter.      *)
Carries(p) ==
    /\ Alive(p)
    /\ \/ pc[p] \in {"wakeNext", "wakePark", "retry"}
       \/ pc[p] = "deliver" /\ ~Reachable(target[p])
       \/ WakeReaches(p)

(* A wake that reached a coroutine of a thread that ended before running   *)
(* it (home_close drops the inbox, the run queue is abandoned).            *)
Dropped(w) == ~Alive(w) /\ pc[w] = "parked" /\ w \in woken /\ w \in runnable

(* No lost wake-up (mutex.valk, `unlock` and `wake_next`): while the mutex *)
(* is free and lockers wait in its queue, somebody is on the way to take   *)
(* it or to wake one of them.                                              *)
NoLostWake == ~held /\ queue # <<>> => \E p \in Procs : Carries(p)

(* The same where threads may end: only a wake that was given to a thread  *)
(* that ended before it ran can leave waiters behind.                      *)
NoLostWakeUnlessDropped ==
    ~held /\ queue # <<>> => \E p \in Procs : Carries(p) \/ Dropped(p)

(* An unlocker cannot miss the queue (mutex.valk, `unlock`): MUTEX_QUEUED  *)
(* is set as long as a park is in the queue, and every queued park belongs *)
(* to one locker that still waits on it unwoken, so the pointer that       *)
(* wake_next follows is never to a park its owner gave up.                 *)
QueueSound ==
    /\ queue # <<>> => queued
    /\ \A i, j \in DOMAIN queue : queue[i] = queue[j] => i = j
    /\ \A q \in Queued : pc[q] \in {"parking", "parked"} /\ q \notin woken

(* A lock never outlives the thread that holds it (lock.valk held_locks,   *)
(* coro.valk drain_locks): held_locks counts exactly the lockers of the    *)
(* thread in a lock block or still unlocking, and none of them is left     *)
(* when the thread has ended.                                              *)
LockNeverOutlivesThread == HeldLocksExact /\ HoldersAlive

(* Queue order (mutex.valk, push_back and push_front): lockers that were   *)
(* never woken stand in the order they came, behind all those that were.   *)
FreshInOrder ==
    \A i, j \in DOMAIN queue : i < j /\ queue[i] \notin retried =>
        queue[j] \notin retried /\ queue[j] \notin earlier[queue[i]]

(* Whoever waits for the mutex gets it (mutex.valk, `lock_slow`), when     *)
(* every lock block ends and nobody takes it forever, unless its thread    *)
(* ends first or a wake was dropped with a thread that ended.              *)
EveryWaiterLocks ==
    \A p \in Procs :
        pc[p] = "enqueue" ~> pc[p] = "cs" \/ ~Alive(p) \/ \E w \in Procs : Dropped(w)
=============================================================================
