----------------------------- MODULE Semaphore ------------------------------
(***************************************************************************)
(* sync.Semaphore (lib/src/sync/semaphore.valk): acquire with a timeout    *)
(* and a CancelToken, try_acquire and release.  An acquirer is a process   *)
(* that acquires once, holds the permit and releases it.                   *)
(***************************************************************************)
EXTENDS Wakers

CONSTANTS
    Acquirers,  \* who acquires
    Trying,     \* those of them that may call try_acquire instead
    Permits     \* Semaphore.new(permits)

ASSUME SemaphoreAssumption ==
    /\ Acquirers \subseteq Procs /\ Trying \subseteq Acquirers
    /\ Permits \in Nat

VARIABLES
    available,  \* SemaphoreState.available
    acquiring,  \* SemaphoreState.waiters
    dropped     \* history: wakes of a release that acquirers timed out with

semVars == <<available, acquiring, dropped>>

SemaphoreTypeOK ==
    /\ available \in Nat
    /\ acquiring \in Seq(Acquirers)
    /\ dropped \in Nat

SemaphoreInit == available = Permits /\ acquiring = <<>> /\ dropped = 0

(* Takes the first waker out of the queue, to be woken after the block.    *)
PopAcquirer(p) ==
    \/ acquiring = <<>> /\ UNCHANGED <<acquiring, toWake>>
    \/ /\ acquiring # <<>>
       /\ acquiring' = Tail(acquiring)
       /\ toWake' = [toWake EXCEPT ![p] = <<Head(acquiring)>>]

(* The top of the loop: a permit, or the waker is queued once there is one.*)
Acquire(p) ==
    /\ At(p, "acquire")
    /\ \/ /\ available > 0
          /\ available' = available - 1
          /\ Leave(p, "held")
          /\ UNCHANGED <<toWake, acquiring>>
       \/ /\ available = 0 /\ p \in waker
          /\ acquiring' = Append(acquiring, p)
          /\ GoOn(p, "check")
          /\ UNCHANGED available
       \/ /\ available = 0 /\ p \notin waker
          /\ TakeWaker(p)
          /\ UNCHANGED <<available, acquiring>>
    /\ UNCHANGED <<dropped, token>>

TryAcquire(p) ==
    /\ At(p, "acquire") /\ p \in Trying \ waker
    /\ \/ available = 0 /\ Goto(p, "thrown") /\ UNCHANGED available
       \/ available > 0 /\ Goto(p, "held") /\ available' = available - 1
    /\ UNCHANGED <<acquiring, dropped, waker, pending, late, toWake, token>>

Release(p, from, to) ==
    /\ At(p, from)
    /\ available' = available + 1
    /\ PopAcquirer(p)
    /\ Goto(p, to)
    /\ UNCHANGED <<dropped, waker, pending, late, token>>

(* Semaphore.forget                                                        *)
Delist(p) == acquiring' = RemoveFirst(acquiring, p)

Forget(p) ==
    /\ At(p, "forget") /\ p \in Acquirers
    /\ Delist(p)
    /\ \/ p \in Cancellable /\ GoOn(p, "cancelForget")
       \/ p \notin Cancellable /\ GoOn(p, "acquire")
    /\ UNCHANGED <<available, dropped, token>>

(* Mutant: who was woken gives a permit back that it never took.           *)
ForgetTimeoutReturns(p) ==
    /\ At(p, "forgetTimeout") /\ p \in Acquirers
    /\ Delist(p)
    /\ available' = IF Contains(acquiring, p) THEN available ELSE available + 1
    /\ Leave(p, "thrown")
    /\ UNCHANGED <<dropped, toWake, token>>

(* Throws timeout.  Who is out of the queue by now was woken by a release, *)
(* and the wake ends here.                                                 *)
ForgetTimeout(p) ==
    /\ At(p, "forgetTimeout") /\ p \in Acquirers
    /\ Delist(p)
    /\ dropped' = IF Contains(acquiring, p) THEN dropped ELSE dropped + 1
    /\ Leave(p, "thrown")
    /\ UNCHANGED <<available, toWake, token>>

ForgetCancelled(p) ==
    /\ At(p, "forgetCancelled")
    /\ Delist(p)
    /\ GoOn(p, "passOn")
    /\ UNCHANGED <<available, dropped, token>>

(* pass_on, then throws cancelled: a permit that is still free goes to the *)
(* next waiter.                                                            *)
PassOn(p) ==
    /\ At(p, "passOn")
    /\ \/ available > 0 /\ PopAcquirer(p)
       \/ available = 0 /\ UNCHANGED <<acquiring, toWake>>
    /\ Leave(p, "thrown")
    /\ UNCHANGED <<available, dropped, token>>

AcquireStep(p) ==
    \/ Acquire(p) \/ TryAcquire(p) \/ Forget(p) \/ ForgetTimeout(p)
    \/ ForgetCancelled(p) \/ PassOn(p) \/ Release(p, "held", "released")

(* The steps that semaphore and token share                                *)
AcquireWait(p) ==
    /\ p \in Acquirers
    /\ Check(p) \/ Register(p) \/ Wait(p) \/ CancelForget(p) \/ IsCancelled(p, "acquire")
    /\ UNCHANGED semVars

-----------------------------------------------------------------------------
(* Properties                                                              *)

(* An acquirer out of the queue that will look at the permits again, hand  *)
(* its wake on, or drop it with its timeout.                               *)
Coming(p) ==
    /\ p \in waker
    /\ \/ pc[p] \in {"acquire", "forget", "cancelForget", "isCancelled", "forgetCancelled", "passOn"}
       \/ pc[p] \in {"check", "register", "wait", "forgetTimeout"} /\ ~Contains(acquiring, p)

(* No lost wake-up (semaphore.valk `release`, `pass_on`): while acquirers  *)
(* wait, every free permit has an acquirer on its way to it, but for those *)
(* whose wake was dropped by one that timed out with it.                   *)
PermitsAttended ==
    acquiring # <<>> => available <= Cardinality({p \in Acquirers : Coming(p)}) + dropped
=============================================================================
