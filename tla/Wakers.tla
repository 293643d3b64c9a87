------------------------------- MODULE Wakers -------------------------------
(***************************************************************************)
(* What the waiting calls of lib/src/sync have in common: a caller takes a *)
(* waker from the cache, puts it in the queue of what it waits for and of  *)
(* its CancelToken, waits, leaves the queues and tries again.  Its place   *)
(* in that loop is `pc`; the queues and the labels of each facility belong *)
(* to the module that extends this one.  The wakers that a lock block took *)
(* out are woken after it, one by one, before the caller goes on.  Channel *)
(* has a loop of its own, with hand-over and close in it.                  *)
(***************************************************************************)
EXTENDS Naturals, FiniteSets, SequencesExt

CONSTANTS
    Procs,          \* everybody that waits or wakes
    Timed,          \* callers that pass a timeout
    Cancellable,    \* callers that pass the cancel token
    Canceller       \* who calls CancelToken.cancel

ASSUME WakersAssumption ==
    /\ IsFiniteSet(Procs)
    /\ Timed \subseteq Procs
    /\ Cancellable \subseteq Procs
    /\ Canceller \in Procs \ Cancellable

VARIABLES
    pc,         \* where each process is
    waker,      \* callers that took a waker from the cache
    pending,    \* wakers with a wake nobody consumed
    late,       \* callers whose deadline passed
    toWake,     \* wakers a process took out of a queue and has not woken yet
    cancelled,  \* CancelState.cancelled
    watchers    \* CancelState.waiters

token == <<cancelled, watchers>>
wakerVars == <<pc, waker, pending, late, toWake, token>>

WakersTypeOK ==
    /\ waker \in SUBSET Procs
    /\ pending \in SUBSET Procs
    /\ late \in SUBSET Timed
    /\ toWake \in [Procs -> Seq(Procs)]
    /\ cancelled \in BOOLEAN
    /\ watchers \in Seq(Cancellable)

WakersInit ==
    /\ waker = {} /\ pending = {} /\ late = {}
    /\ toWake = [p \in Procs |-> <<>>]
    /\ cancelled = FALSE
    /\ watchers = <<>>

Goto(p, label) == pc' = [pc EXCEPT ![p] = label]

(* A caller goes on once the wakes of its last block are out.              *)
At(p, label) == pc[p] = label /\ toWake[p] = <<>>

(* take_waker: a wake left over from an earlier use is dropped.            *)
TakeWaker(p) ==
    /\ waker' = waker \cup {p}
    /\ pending' = pending \ {p}
    /\ UNCHANGED <<pc, late, toWake>>

(* The call ends; its waker goes back to the cache.                        *)
Leave(p, label) ==
    /\ Goto(p, label)
    /\ waker' = waker \ {p}
    /\ late' = late \ {p}
    /\ UNCHANGED pending

(* A step of the loop that moves on and nothing else.                      *)
GoOn(p, label) == Goto(p, label) /\ UNCHANGED <<waker, pending, late, toWake>>

-----------------------------------------------------------------------------
TimePasses(p, top) ==
    /\ p \in Timed \ late
    /\ pc[p] \in {top, "check", "register", "wait"}
    /\ late' = late \cup {p}
    /\ UNCHANGED <<pc, waker, pending, toWake, token>>

(* The deadline is looked at after the waker was queued.                   *)
Check(p) ==
    /\ At(p, "check")
    /\ \/ p \in late /\ GoOn(p, "forgetTimeout")
       \/ p \notin late /\ p \in Cancellable /\ GoOn(p, "register")
       \/ p \notin late /\ p \notin Cancellable /\ GoOn(p, "wait")
    /\ UNCHANGED token

(* CancelToken.register                                                    *)
Register(p) ==
    /\ At(p, "register")
    /\ \/ cancelled /\ GoOn(p, "forgetCancelled") /\ UNCHANGED watchers
       \/ ~cancelled /\ GoOn(p, "wait") /\ watchers' = Append(watchers, p)
    /\ UNCHANGED cancelled

(* Waker.wait: a pending wake ends it, or the deadline; a wake that comes  *)
(* too late for a wait that timed out stays for the next one.              *)
Wait(p) ==
    /\ At(p, "wait")
    /\ \/ p \in pending /\ pending' = pending \ {p}
       \/ p \in late /\ UNCHANGED pending
    /\ Goto(p, "forget")
    /\ UNCHANGED <<waker, late, toWake, token>>

(* CancelToken.forget                                                      *)
CancelForget(p) ==
    /\ At(p, "cancelForget")
    /\ watchers' = RemoveFirst(watchers, p)
    /\ GoOn(p, "isCancelled")
    /\ UNCHANGED cancelled

(* Mutant: a cancelled waiter does not pass on the wake it may have taken. *)
IsCancelledThrow(p, top) ==
    /\ At(p, "isCancelled")
    /\ \/ cancelled /\ Leave(p, "thrown") /\ UNCHANGED toWake
       \/ ~cancelled /\ GoOn(p, top)
    /\ UNCHANGED token

(* CancelToken.is_cancelled, and the waiter throws or tries again.         *)
IsCancelled(p, top) ==
    /\ At(p, "isCancelled")
    /\ \/ cancelled /\ GoOn(p, "passOn")
       \/ ~cancelled /\ GoOn(p, top)
    /\ UNCHANGED token

(* CancelToken.cancel                                                      *)
Cancel ==
    /\ At(Canceller, "idle") /\ ~cancelled
    /\ cancelled' = TRUE
    /\ toWake' = [toWake EXCEPT ![Canceller] = watchers]
    /\ watchers' = <<>>
    /\ UNCHANGED <<pc, waker, pending, late>>

(* Waker.wake, outside the lock                                            *)
Wake(p) ==
    /\ toWake[p] # <<>>
    /\ pending' = pending \cup {Head(toWake[p])}
    /\ toWake' = [toWake EXCEPT ![p] = Tail(@)]
    /\ UNCHANGED <<pc, waker, late, token>>

-----------------------------------------------------------------------------
Asleep(p) == At(p, "wait") /\ p \notin pending \cup late

InFlight(p) == p \in pending \/ \E q \in Procs : Contains(toWake[q], p)
=============================================================================
