------------------------------ MODULE Parking -------------------------------
(***************************************************************************)
(* How a wait sleeps and a wake reaches it: Waker.wait and Waker.wake      *)
(* (lib/src/sync/waker.valk), parks and homes (lib/src/coro/park.valk),    *)
(* and the scheduler loop of a thread (lib/src/coro/coro.valk) down to its *)
(* event wait (lib/src/coro/coro-linux.valk).                              *)
(*                                                                         *)
(* A process is a coroutine of a thread or a native thread outside         *)
(* coroutines.  It waits on its own waker and wakes those of others.  A    *)
(* section under a spin guard (Waker.guard, Home.guard) is one step; so is *)
(* what a thread does to its own run queue and its coroutines' `park`      *)
(* fields, which no other thread touches.  The doorbell is an eventfd:     *)
(* rung or not, read by one outstanding io_uring read.                     *)
(***************************************************************************)
EXTENDS Naturals, FiniteSets, SequencesExt

CONSTANTS
    Threads,
    Coros, Natives,     \* the processes
    HomeOf,             \* the thread of each coroutine
    Waiters, Wakers,    \* processes that wait, processes that wake others
    Timed,              \* waiters that pass a timeout
    MayEnd,             \* threads whose entry function may return
    Parks,              \* bound: memory for parks
    MaxCalls,           \* bound: waits or wakes of one process
    None

Procs == Coros \cup Natives

ASSUME ParkingAssumption ==
    /\ IsFiniteSet(Procs) /\ IsFiniteSet(Parks)
    /\ Coros \cap Natives = {}
    /\ HomeOf \in [Coros -> Threads]
    /\ Waiters \subseteq Procs /\ Wakers \subseteq Procs
    /\ Timed \subseteq Waiters
    /\ MayEnd \subseteq Threads
    /\ MaxCalls \in Nat
    /\ None \notin Procs \cup Parks

VARIABLES
    signaled,   \* Waker.signaled, of the wakers for which it is set
    waiting,    \* Waker.waiting
    parks,      \* the Park structs: refs, the bits of state, whose it is
    inbox,      \* Home.first .. Home.last
    rung,       \* Home.rung
    polling,    \* Home.polling
    alive,      \* Home.alive
    bell,       \* homes whose eventfd was written and not read
    homeWoken,  \* home_woken of each thread
    phase,      \* where each thread's scheduler loop is
    runCoros,   \* run_coros
    batch,      \* what run_scheduled has still to resume
    current,    \* current_coro
    park,       \* Coro.park
    pc,         \* where each process is
    mine,       \* the park of the wait a process is in
    late,       \* waiters whose deadline passed
    target,     \* whose waker a process wakes
    took,       \* the park a wake took out of the waker
    calls,      \* calls made by each process, for MaxCalls
    sent,       \* history: calls of wake for each waker
    woke        \* history: waits of each waiter that returned true

vars == <<signaled, waiting, parks, inbox, rung, polling, alive, bell, homeWoken, phase,
          runCoros, batch, current, park, pc, mine, late, target, took, calls, sent, woke>>

waker == <<signaled, waiting>>
home == <<inbox, rung, polling, alive, bell>>
sched == <<homeWoken, phase, runCoros, batch, current>>
wake == <<target, took>>
history == <<sent, woke>>

Free == [refs |-> 0, woken |-> FALSE, left |-> FALSE, owner |-> None]

PCs == {"idle", "look", "asleep", "withdraw", "release",
        "wakePark", "enqueue", "keep"}

Phases == {"schedule", "run", "poll", "pollDrain", "events", "wait", "drain", "ended"}

TypeOK ==
    /\ signaled \in SUBSET Waiters
    /\ waiting \in [Waiters -> Parks \cup {None}]
    /\ parks \in [Parks -> [refs : 0 .. 2, woken : BOOLEAN, left : BOOLEAN, owner : Waiters \cup {None}]]
    /\ inbox \in [Threads -> Seq(Parks)]
    /\ rung \in SUBSET Threads
    /\ polling \in SUBSET Threads
    /\ alive \in SUBSET Threads
    /\ bell \in SUBSET Threads
    /\ homeWoken \in SUBSET Threads
    /\ phase \in [Threads -> Phases]
    /\ runCoros \in [Threads -> Seq(Coros)]
    /\ batch \in [Threads -> Seq(Coros)]
    /\ current \in [Threads -> Coros \cup {None}]
    /\ park \in [Coros -> Parks \cup {None}]
    /\ pc \in [Procs -> PCs]
    /\ mine \in [Waiters -> Parks \cup {None}]
    /\ late \in SUBSET Timed
    /\ target \in [Procs -> Waiters \cup {None}]
    /\ took \in [Procs -> Parks \cup {None}]
    /\ calls \in [Procs -> 0 .. MaxCalls]
    /\ sent \in [Waiters -> Nat]
    /\ woke \in [Waiters -> Nat]

Init ==
    /\ signaled = {}
    /\ waiting = [w \in Waiters |-> None]
    /\ parks = [p \in Parks |-> Free]
    /\ inbox = [t \in Threads |-> <<>>]
    /\ rung = {} /\ polling = {} /\ alive = Threads /\ bell = {} /\ homeWoken = {}
    /\ phase = [t \in Threads |-> "schedule"]
    /\ runCoros = [t \in Threads |-> SetToSeq({c \in Coros : HomeOf[c] = t})]
    /\ batch = [t \in Threads |-> <<>>]
    /\ current = [t \in Threads |-> None]
    /\ park = [c \in Coros |-> None]
    /\ pc = [p \in Procs |-> "idle"]
    /\ mine = [w \in Waiters |-> None]
    /\ late = {}
    /\ target = [p \in Procs |-> None]
    /\ took = [p \in Procs |-> None]
    /\ calls = [p \in Procs |-> 0]
    /\ sent = [w \in Waiters |-> 0]
    /\ woke = [w \in Waiters |-> 0]

-----------------------------------------------------------------------------
(* A coroutine runs while its thread resumed it; a native thread runs.     *)
Running(x) == x \in Coros => current[HomeOf[x]] = x

(* park_release of one reference to each park of S.                        *)
Released(f, S) ==
    [p \in Parks |->
        IF p \notin S THEN f[p]
        ELSE IF f[p].refs = 1 THEN Free ELSE [f[p] EXCEPT !.refs = @ - 1]]

(* Mutant: where the coroutine waits now is not looked at.                 *)
WaitsAnywhere(p) == ~parks[p].left /\ parks[p].owner \in Coros

(* deliver: a coroutine that still waits in this park runs again.          *)
Waits(p) == ~parks[p].left /\ parks[p].owner \in Coros /\ park[parks[p].owner] = p

Owners(ps) == [i \in DOMAIN ps |-> parks[ps[i]].owner]

(* ps delivers what stands earlier in qs earlier.                          *)
InOrder(qs, ps) ==
    \A i, j \in DOMAIN qs : i < j =>
        \E k \in DOMAIN ps : ps[k] = qs[i] /\ \A l \in 1 .. k : ps[l] # qs[j]

(* Mutant: the coroutine is not made runnable.                             *)
DeliverNothing(t, ps) == UNCHANGED <<runCoros, park>>

(* The parks of ps one after the other: each coroutine that waits in one   *)
(* is made runnable, once.                                                 *)
Deliver(t, ps) ==
    \E qs \in SetToSeqs({p \in Range(ps) : Waits(p)}) :
        /\ InOrder(qs, ps)
        /\ runCoros' = [runCoros EXCEPT ![t] = @ \o Owners(qs)]
        /\ park' = [c \in Coros |-> IF c \in Range(Owners(qs)) THEN None ELSE park[c]]

Idle(x) == pc[x] = "idle" /\ Running(x) /\ calls[x] < MaxCalls

Goto(x, label) == pc' = [pc EXCEPT ![x] = label]

Count(x) == calls' = [calls EXCEPT ![x] = @ + 1]

(* A wait of w returns true.                                               *)
Woke(w) == woke' = [woke EXCEPT ![w] = @ + 1]

-----------------------------------------------------------------------------
(* Waker.wait and park_wait                                                *)
(* An earlier wake is consumed, or a park is put into the waker.           *)
BeginWait(w) ==
    /\ w \in Waiters /\ Idle(w)
    /\ \/ /\ w \in signaled
          /\ signaled' = signaled \ {w}
          /\ Woke(w)
          /\ Count(w)
          /\ UNCHANGED <<waiting, parks, mine, pc>>
       \/ /\ w \notin signaled
          /\ \E p \in Parks : parks[p].refs = 0
          /\ LET p == CHOOSE q \in Parks : parks[q].refs = 0 IN
             /\ parks' = [parks EXCEPT ![p] = [Free EXCEPT !.refs = 2, !.owner = w]]
             /\ waiting' = [waiting EXCEPT ![w] = p]
             /\ mine' = [mine EXCEPT ![w] = p]
          /\ Goto(w, "look")
          /\ UNCHANGED <<signaled, calls, woke>>
    /\ UNCHANGED <<home, sched, park, late, wake, sent>>

(* The coroutine yields; its thread goes on with others.                   *)
Sleep(c) ==
    /\ c \in Coros /\ pc[c] = "look" /\ Running(c)
    /\ ~parks[mine[c]].woken /\ c \notin late
    /\ park' = [park EXCEPT ![c] = mine[c]]
    /\ current' = [current EXCEPT ![HomeOf[c]] = None]
    /\ Goto(c, "asleep")
    /\ UNCHANGED <<waker, parks, home, homeWoken, phase, runCoros, batch, mine, late, wake,
                   calls, history>>

(* A wake that raced the timeout still counts.                             *)
Leave(w) ==
    /\ pc[w] = "look" /\ Running(w)
    /\ parks[mine[w]].woken \/ w \in late
    /\ parks' = [parks EXCEPT ![mine[w]].left = TRUE]
    /\ \/ parks[mine[w]].woken /\ Woke(w) /\ Goto(w, "release")
       \/ ~parks[mine[w]].woken /\ UNCHANGED woke /\ Goto(w, "withdraw")
    /\ UNCHANGED <<waker, home, sched, park, mine, late, wake, calls, sent>>

(* Timed out: the park is taken back unless a wake already took it.        *)
Withdraw(w) ==
    /\ pc[w] = "withdraw" /\ Running(w)
    /\ \/ /\ waiting[w] = mine[w]
          /\ waiting' = [waiting EXCEPT ![w] = None]
          /\ parks' = Released(parks, {mine[w]})
       \/ /\ waiting[w] # mine[w]
          /\ UNCHANGED <<waiting, parks>>
    /\ Goto(w, "release")
    /\ UNCHANGED <<signaled, home, sched, park, mine, late, wake, calls, history>>

Release(w) ==
    /\ pc[w] = "release" /\ Running(w)
    /\ parks' = Released(parks, {mine[w]})
    /\ mine' = [mine EXCEPT ![w] = None]
    /\ late' = late \ {w}
    /\ Goto(w, "idle")
    /\ Count(w)
    /\ UNCHANGED <<waker, home, sched, park, wake, history>>

TimePasses(w) ==
    /\ w \in Timed \ late /\ pc[w] \in {"look", "asleep"}
    /\ late' = late \cup {w}
    /\ UNCHANGED <<waker, parks, home, sched, park, pc, mine, wake, calls, history>>

-----------------------------------------------------------------------------
(* Waker.wake and wake_park                                                *)

WakeEnds(q) ==
    /\ Goto(q, "idle")
    /\ Count(q)
    /\ target' = [target EXCEPT ![q] = None]
    /\ took' = [took EXCEPT ![q] = None]

(* Nobody waits: the wake is kept.  Otherwise the park is taken out.       *)
BeginWake(q) ==
    /\ q \in Wakers /\ Idle(q)
    /\ \E w \in Waiters \ {q} :
        /\ sent' = [sent EXCEPT ![w] = @ + 1]
        /\ \/ /\ waiting[w] = None
              /\ signaled' = signaled \cup {w}
              /\ Count(q)
              /\ UNCHANGED <<waiting, pc, wake>>
           \/ /\ waiting[w] # None
              /\ waiting' = [waiting EXCEPT ![w] = None]
              /\ took' = [took EXCEPT ![q] = waiting[w]]
              /\ target' = [target EXCEPT ![q] = w]
              /\ Goto(q, "wakePark")
              /\ UNCHANGED <<signaled, calls>>
    /\ UNCHANGED <<parks, home, sched, park, mine, late, woke>>

(* The waiter left already: the wake is kept after all.                    *)
Keeps(q) ==
    /\ took' = [took EXCEPT ![q] = None]
    /\ Goto(q, "keep")
    /\ UNCHANGED <<target, calls>>

(* A waiter outside coroutines looks for itself; one of this thread is put *)
(* into the run queue; one of another thread goes to that thread's inbox.  *)
WakePark(q) ==
    /\ pc[q] = "wakePark" /\ Running(q)
    /\ LET p == took[q]
           w == parks[p].owner
           marked == [parks EXCEPT ![p].woken = TRUE]
           own == q \in Coros /\ w \in Coros /\ HomeOf[q] = HomeOf[w]
       IN \/ /\ parks[p].left
             /\ parks' = Released(marked, {p})
             /\ Keeps(q)
             /\ UNCHANGED <<runCoros, park>>
          \/ /\ ~parks[p].left /\ w \in Natives
             /\ parks' = Released(marked, {p})
             /\ WakeEnds(q)
             /\ UNCHANGED <<runCoros, park>>
          \/ /\ ~parks[p].left /\ own
             /\ parks' = Released(marked, {p})
             /\ Deliver(HomeOf[w], <<p>>)
             /\ WakeEnds(q)
          \/ /\ ~parks[p].left /\ w \in Coros /\ ~own
             /\ parks' = marked
             /\ Goto(q, "enqueue")
             /\ UNCHANGED <<runCoros, park, wake, calls>>
    /\ UNCHANGED <<waker, home, homeWoken, phase, batch, current, mine, late, history>>

(* Mutant: the reference the inbox took over is dropped too.               *)
EnqueueReleases(q) ==
    /\ pc[q] = "enqueue" /\ Running(q)
    /\ LET p == took[q]
           t == HomeOf[parks[p].owner]
       IN /\ t \in alive
          /\ inbox' = [inbox EXCEPT ![t] = Append(@, p)]
          /\ rung' = rung \cup {t} /\ bell' = bell \cup {t}
          /\ parks' = Released(parks, {p})
    /\ WakeEnds(q)
    /\ UNCHANGED <<waker, polling, alive, sched, park, mine, late, history>>

Enqueue(q) ==
    /\ pc[q] = "enqueue" /\ Running(q)
    /\ LET p == took[q]
           t == HomeOf[parks[p].owner]
       IN \/ /\ t \notin alive
             /\ parks' = Released(parks, {p})
             /\ Keeps(q)
             /\ UNCHANGED <<inbox, rung, bell>>
          \/ /\ t \in alive
             /\ inbox' = [inbox EXCEPT ![t] = Append(@, p)]
             /\ \/ t \in rung \cup polling /\ UNCHANGED <<rung, bell>>
                \/ t \notin rung \cup polling /\ rung' = rung \cup {t} /\ bell' = bell \cup {t}
             /\ WakeEnds(q)
             /\ UNCHANGED parks
    /\ UNCHANGED <<waker, polling, alive, sched, park, mine, late, history>>

(* Mutant: the wake is dropped.                                            *)
KeepNothing(q) ==
    /\ pc[q] = "keep" /\ Running(q)
    /\ WakeEnds(q)
    /\ UNCHANGED <<waker, parks, home, sched, park, mine, late, history>>

Keep(q) ==
    /\ pc[q] = "keep" /\ Running(q)
    /\ signaled' = signaled \cup {target[q]}
    /\ WakeEnds(q)
    /\ UNCHANGED <<waiting, parks, home, sched, park, mine, late, history>>

-----------------------------------------------------------------------------
(* The scheduler loop of a thread                                          *)

To(t, p) == phase' = [phase EXCEPT ![t] = p]

(* run_scheduled takes the run queue; what is woken meanwhile runs later.  *)
Schedule(t) ==
    /\ phase[t] = "schedule"
    /\ batch' = [batch EXCEPT ![t] = runCoros[t]]
    /\ runCoros' = [runCoros EXCEPT ![t] = <<>>]
    /\ To(t, "run")
    /\ UNCHANGED <<waker, parks, home, homeWoken, current, park, pc, mine, late, wake, calls,
                   history>>

Resume(t) ==
    /\ phase[t] = "run" /\ current[t] = None /\ batch[t] # <<>>
    /\ LET c == Head(batch[t]) IN
       /\ current' = [current EXCEPT ![t] = c]
       /\ park' = [park EXCEPT ![c] = None]
       /\ pc' = [pc EXCEPT ![c] = IF @ = "asleep" THEN "look" ELSE @]
    /\ batch' = [batch EXCEPT ![t] = Tail(@)]
    /\ UNCHANGED <<waker, parks, home, homeWoken, phase, runCoros, mine, late, wake, calls,
                   history>>

(* A coroutine that made its calls is complete.                            *)
Complete(c) ==
    /\ c \in Coros /\ pc[c] = "idle" /\ Running(c) /\ calls[c] = MaxCalls
    /\ current' = [current EXCEPT ![HomeOf[c]] = None]
    /\ UNCHANGED <<waker, parks, home, homeWoken, phase, runCoros, batch, park, pc, mine, late,
                   wake, calls, history>>

Ran(t) == phase[t] = "run" /\ current[t] = None /\ batch[t] = <<>>

(* Nothing to run, and the last wait ended through the inbox: poll it      *)
(* (drain_locks, in a thread that ends, does not).                         *)
LoopOn(t) ==
    /\ Ran(t)
    /\ \/ /\ runCoros[t] = <<>> /\ t \in homeWoken
          /\ homeWoken' = homeWoken \ {t}
          /\ polling' = polling \cup {t}
          /\ To(t, "poll")
       \/ /\ runCoros[t] # <<>> \/ t \notin homeWoken \/ t \in MayEnd
          /\ To(t, "events")
          /\ UNCHANGED <<homeWoken, polling>>
    /\ UNCHANGED <<waker, parks, inbox, rung, alive, bell, runCoros, batch, current, park, pc,
                   mine, late, wake, calls, history>>

(* Mutant: the inbox is not looked at again.                               *)
PollEndBlind(t) ==
    /\ phase[t] = "poll"
    /\ polling' = polling \ {t}
    /\ To(t, "events")
    /\ UNCHANGED <<waker, parks, inbox, rung, alive, bell, homeWoken, runCoros, batch, current,
                   park, pc, mine, late, wake, calls, history>>

(* Polling ends, found or not; the inbox is looked at once more.           *)
PollEnd(t) ==
    /\ phase[t] = "poll"
    /\ polling' = polling \ {t}
    /\ To(t, IF inbox[t] # <<>> THEN "pollDrain" ELSE "events")
    /\ UNCHANGED <<waker, parks, inbox, rung, alive, bell, homeWoken, runCoros, batch, current,
                   park, pc, mine, late, wake, calls, history>>

(* Mutant: later wakes believe the bell still rings.                       *)
DrainHomeRung(t) ==
    /\ phase[t] \in {"pollDrain", "drain"}
    /\ inbox' = [inbox EXCEPT ![t] = <<>>]
    /\ homeWoken' = IF inbox[t] # <<>> THEN homeWoken \cup {t} ELSE homeWoken
    /\ Deliver(t, inbox[t])
    /\ parks' = Released(parks, Range(inbox[t]))
    /\ To(t, IF phase[t] = "drain" THEN "wait" ELSE "events")
    /\ UNCHANGED <<waker, rung, polling, alive, bell, batch, current, pc, mine, late, wake,
                   calls, history>>

DrainHome(t) ==
    /\ phase[t] \in {"pollDrain", "drain"}
    /\ inbox' = [inbox EXCEPT ![t] = <<>>]
    /\ rung' = rung \ {t}
    /\ homeWoken' = IF inbox[t] # <<>> THEN homeWoken \cup {t} ELSE homeWoken
    /\ Deliver(t, inbox[t])
    /\ parks' = Released(parks, Range(inbox[t]))
    /\ To(t, IF phase[t] = "drain" THEN "wait" ELSE "events")
    /\ UNCHANGED <<waker, polling, alive, bell, batch, current, pc, mine, late, wake, calls,
                   history>>

(* Coroutines of t that wait past their deadline.                          *)
Expired(t) == {p \in Parks : Waits(p) /\ HomeOf[parks[p].owner] = t /\ parks[p].owner \in late}

(* expire_parks                                                            *)
ExpireParks(t) ==
    /\ phase[t] = "events"
    /\ \E ps \in SetToSeqs(Expired(t)) : Deliver(t, ps)
    /\ To(t, "wait")
    /\ UNCHANGED <<waker, parks, home, homeWoken, batch, current, pc, mine, late, wake, calls,
                   history>>

(* The event wait: the doorbell, or nothing to wait for, or a deadline.    *)
WaitForEvents(t) ==
    /\ phase[t] = "wait"
    /\ \/ t \in bell /\ bell' = bell \ {t} /\ To(t, "drain")
       \/ (runCoros[t] # <<>> \/ Expired(t) # {}) /\ To(t, "schedule") /\ UNCHANGED bell
    /\ UNCHANGED <<waker, parks, inbox, rung, polling, alive, homeWoken, runCoros, batch, current,
                   park, pc, mine, late, wake, calls, history>>

(* Mutant: the parks of the inbox are forgotten.                           *)
HomeCloseLeaks(t) ==
    /\ t \in MayEnd /\ Ran(t)
    /\ alive' = alive \ {t}
    /\ inbox' = [inbox EXCEPT ![t] = <<>>]
    /\ To(t, "ended")
    /\ UNCHANGED <<waker, parks, rung, polling, bell, homeWoken, runCoros, batch, current,
                   park, pc, mine, late, wake, calls, history>>

(* home_close: the entry function returned, the other coroutines are       *)
(* abandoned where they are.                                               *)
HomeClose(t) ==
    /\ t \in MayEnd /\ Ran(t)
    /\ alive' = alive \ {t}
    /\ inbox' = [inbox EXCEPT ![t] = <<>>]
    /\ parks' = Released(parks, Range(inbox[t]))
    /\ To(t, "ended")
    /\ UNCHANGED <<waker, rung, polling, bell, homeWoken, runCoros, batch, current,
                   park, pc, mine, late, wake, calls, history>>

-----------------------------------------------------------------------------
Call(x) ==
    \/ BeginWait(x) \/ Sleep(x) \/ (x \in Waiters /\ (Leave(x) \/ Withdraw(x) \/ Release(x)))
    \/ BeginWake(x) \/ WakePark(x) \/ Enqueue(x) \/ Keep(x)
    \/ Complete(x)

Loop(t) ==
    \/ Schedule(t) \/ Resume(t) \/ LoopOn(t) \/ PollEnd(t)
    \/ DrainHome(t) \/ ExpireParks(t) \/ WaitForEvents(t)

Next ==
    \/ \E x \in Procs : Call(x)
    \/ \E w \in Waiters : TimePasses(w)
    \/ \E t \in Threads : Loop(t) \/ HomeClose(t)

Spec == Init /\ [][Next]_vars

(* Threads run on; so does whoever is in a call.                           *)
FairSpec ==
    /\ Spec
    /\ \A x \in Procs : WF_vars(Call(x))
    /\ \A t \in Threads : WF_vars(Loop(t))

-----------------------------------------------------------------------------
(* Properties                                                              *)

Holders(p) ==
    Cardinality({w \in Waiters : mine[w] = p}) + Cardinality({w \in Waiters : waiting[w] = p})
        + Cardinality({q \in Procs : took[q] = p})
        + Cardinality(UNION {{t} \X {i \in DOMAIN inbox[t] : inbox[t][i] = p} : t \in Threads})

(* Parks are counted right (park.valk:12-13, 39-40): the references of a   *)
(* park are the waiter in its wait and the one place on the queue side     *)
(* that names it, so it is freed exactly when the last of them is done,    *)
(* and no coroutine sleeps in a park that is not its own.                  *)
RefsExact ==
    /\ \A p \in Parks : parks[p].refs = Holders(p)
    /\ \A c \in Coros : park[c] # None => c \in Waiters /\ mine[c] = park[c]

Times(c, s) == Cardinality({i \in DOMAIN s : s[i] = c})

(* A coroutine is resumed once per wake (park.valk `deliver`, `expire_parks`): *)
(* it never stands in the run queue twice, nor while it runs or still      *)
(* sleeps in a park.                                                       *)
RunOnce ==
    \A c \in Coros :
        LET t == HomeOf[c] IN
        Times(c, runCoros[t]) + Times(c, batch[t])
            + (IF current[t] = c THEN 1 ELSE 0) + (IF park[c] # None THEN 1 ELSE 0) <= 1

(* No missed doorbell (park.valk `wake_park`, `poll_home`, `drain_home`):  *)
(* a thread that goes into its event wait with woken coroutines in its     *)
(* inbox has the bell to hear.                                             *)
BellRung ==
    \A t \in Threads : phase[t] = "wait" /\ inbox[t] # <<>> => t \in bell

(* Nobody is forgotten (park.valk:146-163, waker.valk `wake`): a coroutine *)
(* of a live thread that sleeps is in its waker, or with the one who wakes *)
(* it, or in its thread's inbox.                                           *)
SleeperKnown ==
    \A c \in Coros : park[c] # None /\ HomeOf[c] \in alive =>
        \/ waiting[c] = park[c] /\ ~parks[park[c]].woken
        \/ \E q \in Procs : took[q] = park[c]
        \/ Contains(inbox[HomeOf[c]], park[c])

(* A wake that nobody waited for ends the next wait (waker.valk:12-14,     *)
(* 42): nobody sleeps in a waker that keeps a wake.                        *)
KeptForNext == \A w \in signaled : waiting[w] = None

(* Waiters whose thread ended: their coroutines never run again.           *)
Gone == {w \in Waiters \cap Coros : HomeOf[w] \notin alive}

(* w is to be told of the wake that its wait met.                          *)
Met(w) == mine[w] # None /\ parks[mine[w]].woken /\ ~parks[mine[w]].left

(* Who has a wake for w in its hands, to deliver or to keep.               *)
Carriers(w) == {q \in Procs : pc[q] \in {"wakePark", "keep"} /\ target[q] = w}

(* The wakes that w has still to be told of.                               *)
Due(w) ==
    (IF w \in signaled THEN 1 ELSE 0) + (IF Met(w) THEN 1 ELSE 0) + Cardinality(Carriers(w))

(* The waker as its users see it (waker.valk:12-17, 23-38, 42-44): every   *)
(* call of wake is followed by the true return of a wait that it met or    *)
(* that came next, which it may share with other wakes; a wait returns     *)
(* true for a wake only; and none is lost between a timeout and a wake, or *)
(* between two waits.                                                      *)
Signal ==
    INSTANCE WakeSignal WITH
        Waiter <- Waiters,
        waiting <- {w \in Waiters \ Gone : pc[w] \in {"look", "asleep"}},
        due <- [w \in Waiters |-> IF w \in Gone THEN 0 ELSE Due(w)],
        sent <- sent, woke <- woke,
        gone <- Gone

WakesKept == Signal!Spec

(* A wait with a wake on its way ends: no wake is lost in an inbox, under  *)
(* a poll or in a sleeping thread.                                         *)
WakeArrives == Signal!Ends
=============================================================================
