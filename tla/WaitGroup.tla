------------------------------ MODULE WaitGroup ------------------------------
(***************************************************************************)
(* sync.WaitGroup (lib/src/sync/waitgroup.valk): add, done and wait with a *)
(* timeout.                                                                *)
(***************************************************************************)
EXTENDS Wakers

CONSTANTS Waiters   \* who calls wait

ASSUME WaitGroupAssumption == Waiters \subseteq Procs \ Cancellable

VARIABLES
    count,      \* WaitGroupState.count
    awaiting    \* WaitGroupState.waiters

groupVars == <<count, awaiting>>

WaitGroupTypeOK == count \in Nat /\ awaiting \in Seq(Waiters)

WaitGroupInit == count = 0 /\ awaiting = <<>>

Add(p, from, to) ==
    /\ At(p, from)
    /\ count' = count + 1
    /\ GoOn(p, to)
    /\ UNCHANGED <<awaiting, token>>

(* Mutant: the last one clears the queue without waking anybody.           *)
GroupDoneQuiet(p, from, to) ==
    /\ At(p, from)
    /\ \/ count = 0 /\ UNCHANGED <<count, awaiting>>
       \/ count > 1 /\ count' = count - 1 /\ UNCHANGED awaiting
       \/ count = 1 /\ count' = 0 /\ awaiting' = <<>>
    /\ GoOn(p, to)
    /\ UNCHANGED token

(* done: the last one wakes everybody that waits; one too many is ignored. *)
GroupDone(p, from, to) ==
    /\ At(p, from)
    /\ \/ count = 0 /\ UNCHANGED <<count, awaiting, toWake>>
       \/ count > 1 /\ count' = count - 1 /\ UNCHANGED <<awaiting, toWake>>
       \/ /\ count = 1 /\ count' = 0
          /\ toWake' = [toWake EXCEPT ![p] = awaiting]
          /\ awaiting' = <<>>
    /\ Goto(p, to)
    /\ UNCHANGED <<waker, pending, late, token>>

(* The top of wait's loop                                                  *)
GroupWait(p) ==
    /\ At(p, "count")
    /\ \/ count = 0 /\ Leave(p, "waited") /\ UNCHANGED <<toWake, awaiting>>
       \/ /\ count > 0 /\ p \in waker
          /\ awaiting' = Append(awaiting, p)
          /\ GoOn(p, "check")
       \/ count > 0 /\ p \notin waker /\ TakeWaker(p) /\ UNCHANGED awaiting
    /\ UNCHANGED <<count, token>>

(* Mutant: whatever ended the wait is taken for the end of the tasks.      *)
GroupForgetOnce(p) ==
    /\ p \in Waiters
    /\ \/ At(p, "forget") /\ Leave(p, "waited")
       \/ At(p, "forgetTimeout") /\ Leave(p, "thrown")
    /\ awaiting' = RemoveFirst(awaiting, p)
    /\ UNCHANGED <<count, toWake, token>>

(* WaitGroup.forget, before the next try and before wait throws timeout    *)
GroupForget(p) ==
    /\ p \in Waiters
    /\ \/ At(p, "forget") /\ GoOn(p, "count")
       \/ At(p, "forgetTimeout") /\ Leave(p, "thrown") /\ UNCHANGED toWake
    /\ awaiting' = RemoveFirst(awaiting, p)
    /\ UNCHANGED <<count, token>>

GroupLoop(p) ==
    /\ p \in Waiters
    /\ Check(p) \/ Wait(p)
    /\ UNCHANGED groupVars

-----------------------------------------------------------------------------
(* Properties                                                              *)

(* Nobody waits for nothing (waitgroup.valk:62-88): who sleeps in wait is  *)
(* in the queue while tasks are counted, or has a wake on its way, also    *)
(* when the count rose again before it looked.                             *)
WaitersFindable ==
    \A p \in Waiters : Asleep(p) /\ ~InFlight(p) => count > 0 /\ Contains(awaiting, p)
=============================================================================
