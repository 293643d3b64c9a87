------------------------------ MODULE Channel ------------------------------
(***************************************************************************)
(* sync.Channel (lib/src/sync/channel.valk): send, try_send, recv,         *)
(* try_recv and close of buffered, unbounded and rendezvous channels, with *)
(* timeouts and with a CancelToken (lib/src/sync/cancel.valk), and select  *)
(* (lib/src/sync/select.valk) on this channel and another one that comes   *)
(* first in the list, in which no values are sent and which may be closed. *)
(*                                                                         *)
(* A process is one caller, a coroutine or a thread, sending or receiving. *)
(* The bodies of `lock this.state` blocks are steps (Mutex says why they   *)
(* may be); everything between two of them interleaves.  The wakers that   *)
(* a block took out are woken after it, one by one, before the caller goes *)
(* on.  A Waker (lib/src/sync/waker.valk) is a pending wake: set by wake,  *)
(* consumed by wait, cleared when a call takes the waker from the cache.   *)
(***************************************************************************)
EXTENDS Naturals, FiniteSets, SequencesExt

CONSTANTS
    Senders, Receivers, \* the callers
    Closer, Canceller,  \* who calls close and CancelToken.cancel
    Capacity,           \* Channel.capacity, 0 for a rendezvous
    Timed,              \* callers that pass a timeout
    Cancellable,        \* callers that pass the cancel token
    Trying,             \* callers that also use try_send and try_recv
    Selecting,          \* receivers that select and then try_recv
    MayClose,           \* whether close is called
    MaxCalls,           \* bound: how many calls each caller makes
    Nobody

Callers == Senders \cup Receivers
Procs == Callers \cup {Closer, Canceller}

ASSUME ChannelAssumption ==
    /\ Senders \cap Receivers = {}
    /\ Closer \notin Callers /\ Canceller \notin Callers \cup {Closer}
    /\ IsFiniteSet(Callers)
    /\ Nobody \notin Procs
    /\ Capacity \in Nat
    /\ Timed \subseteq Callers /\ Cancellable \subseteq Callers /\ Trying \subseteq Callers
    /\ Selecting \subseteq Receivers
    /\ MayClose \in BOOLEAN
    /\ MaxCalls \in [Callers -> Nat]

VARIABLES
    items,      \* ChannelState.items
    handoff,    \* ChannelState.handoff: whose send waits for each item to be taken
    closed,     \* ChannelState.closed
    reserved,   \* ChannelState.reserved
    waiters,    \* ChannelState.readers and writers, and the readers of the other channel
    quit,       \* whether the other channel is closed
    cancelled,  \* CancelState.cancelled
    watchers,   \* CancelState.waiters
    pc,         \* where each caller is
    waker,      \* callers that took a waker from the cache
    pending,    \* wakers with a wake nobody consumed
    late,       \* callers whose deadline passed
    toWake,     \* wakers a process took out of a queue and has not woken yet
    calls,      \* calls made by each caller, for MaxCalls and to name values
    taken,      \* history: the values received, in order
    accepted,   \* history: the values whose send returned
    refused     \* history: the values whose send threw

vars == <<items, handoff, closed, reserved, waiters, quit, cancelled, watchers, pc, waker,
          pending, late, toWake, calls, taken, accepted, refused>>

chan == <<items, handoff, closed, reserved, waiters>>
token == <<cancelled, watchers, quit>>
hist == <<calls, taken, accepted, refused>>

Values == UNION {{s} \X (1 .. MaxCalls[s]) : s \in Senders}

Side == {"reader", "writer", "other"}

PCs == {"idle", "reserve", "push", "handOver", "taken", "recv", "check", "register", "wait",
        "forget", "forgetTimeout", "forgetCancelled", "cancelForget", "isCancelled",
        "passOn", "withdrawClosed", "withdrawTimeout", "withdrawCancelled",
        "select", "watch", "ready", "forgetWatch", "selectEnd", "watchEnd"}

TypeOK ==
    /\ items \in Seq(Values)
    /\ handoff \in Seq(Senders \cup {Nobody})
    /\ closed \in BOOLEAN
    /\ reserved \in Nat
    /\ waiters \in [Side -> Seq(Callers)]
    /\ quit \in BOOLEAN
    /\ cancelled \in BOOLEAN
    /\ watchers \in Seq(Callers)
    /\ pc \in [Procs -> PCs]
    /\ waker \in SUBSET Callers
    /\ pending \in SUBSET Callers
    /\ late \in SUBSET Timed
    /\ toWake \in [Procs -> Seq(Callers \cup {Nobody})]
    /\ calls \in [Callers -> Nat] /\ \A p \in Callers : calls[p] <= MaxCalls[p]
    /\ taken \in Seq(Values)
    /\ accepted \in SUBSET Values
    /\ refused \in SUBSET Values

Init ==
    /\ items = <<>>
    /\ handoff = <<>>
    /\ closed = FALSE
    /\ reserved = 0
    /\ waiters = [s \in Side |-> <<>>]
    /\ quit = FALSE
    /\ cancelled = FALSE
    /\ watchers = <<>>
    /\ pc = [p \in Procs |-> "idle"]
    /\ waker = {}
    /\ pending = {}
    /\ late = {}
    /\ toWake = [p \in Procs |-> <<>>]
    /\ calls = [p \in Callers |-> 0]
    /\ taken = <<>>
    /\ accepted = {}
    /\ refused = {}

-----------------------------------------------------------------------------
Goto(p, label) == pc' = [pc EXCEPT ![p] = label]

(* A caller goes on once the wakes of its last block are out.              *)
At(p, label) == pc[p] = label /\ toWake[p] = <<>>

side(p) == IF p \in Receivers THEN "reader" ELSE "writer"

(* The value of the call that p makes now.                                 *)
value(p) == <<p, calls[p] + 1>>

(* Mutant: slots handed to senders are forgotten.                          *)
RoomUnreserved == Len(items) < Capacity

(* Room for one more value, counting the slots handed to senders.          *)
Room == Len(items) + reserved < Capacity

(* Who sends on a rendezvous channel waits in hand_over.                   *)
Handing(p) == Capacity = 0 /\ p \in Senders

(* The block that a waiting caller tries again after a wake.               *)
Top(p) ==
    IF p \in Selecting THEN "select"
    ELSE IF p \in Receivers THEN "recv"
    ELSE IF Handing(p) THEN "taken"
    ELSE "reserve"

(* Takes the first waker of a queue out, to be woken after the block.      *)
PopWaker(p, s) ==
    IF waiters[s] = <<>>
    THEN UNCHANGED <<waiters, toWake>>
    ELSE /\ waiters' = [waiters EXCEPT ![s] = Tail(@)]
         /\ toWake' = [toWake EXCEPT ![p] = <<Head(waiters[s])>>]

(* Appends the caller's waker to its queue.                                *)
Enlist(p) == waiters' = [waiters EXCEPT ![side(p)] = Append(@, p)]

(* Removes the caller's waker from its queue, if it is still there.        *)
Delist(p) == waiters' = [waiters EXCEPT ![side(p)] = RemoveFirst(@, p)]

(* take_waker: a wake left over from an earlier use is dropped.            *)
TakeWaker(p) == waker' = waker \cup {p} /\ pending' = pending \ {p}

Idle(p) == At(p, "idle") /\ calls[p] < MaxCalls[p]

(* A call ends; its waker goes back to the cache.                          *)
End(p) ==
    /\ Goto(p, "idle")
    /\ waker' = waker \ {p}
    /\ late' = late \ {p}
    /\ calls' = [calls EXCEPT ![p] = @ + 1]

(* A send returns.                                                         *)
Return(p) == End(p) /\ accepted' = accepted \cup {value(p)} /\ UNCHANGED <<taken, refused>>

(* The call throws; a value that was to be sent is dropped.                *)
Throw(p) ==
    /\ End(p)
    /\ refused' = IF p \in Senders THEN refused \cup {value(p)} ELSE refused
    /\ UNCHANGED <<taken, accepted>>

(* The call goes on at another block.                                      *)
GoOn(p, label) == Goto(p, label) /\ UNCHANGED <<late, hist>>

-----------------------------------------------------------------------------
(* Sending to a channel that holds values                                  *)

(* send: room right away.                                                  *)
Send(p) ==
    /\ Idle(p) /\ p \in Senders /\ Capacity > 0
    /\ \/ closed /\ Throw(p) /\ UNCHANGED <<items, waiters, toWake>>
       \/ /\ ~closed /\ Room
          /\ items' = Append(items, value(p))
          /\ PopWaker(p, "reader")
          /\ Return(p)
       \/ /\ ~closed /\ ~Room
          /\ GoOn(p, "reserve")
          /\ UNCHANGED <<items, waiters, toWake, waker>>
    /\ UNCHANGED <<handoff, closed, reserved, token, pending>>

(* try_send reserves a slot, on a rendezvous channel for a receiver that   *)
(* waits and was not handed a value yet.                                   *)
TrySend(p) ==
    /\ Idle(p) /\ p \in Senders \cap Trying
    /\ LET room == IF Capacity = 0 THEN Len(waiters["reader"]) > reserved ELSE Room IN
       \/ (closed \/ ~room) /\ Throw(p) /\ UNCHANGED reserved
       \/ ~closed /\ room /\ reserved' = reserved + 1 /\ GoOn(p, "push") /\ UNCHANGED waker
    /\ UNCHANGED <<items, handoff, closed, waiters, token, pending, toWake>>

(* Mutant: the slot is not counted.                                        *)
ReserveUncounted(p) ==
    /\ At(p, "reserve") /\ ~closed /\ Room
    /\ waker' = waker \ {p}
    /\ GoOn(p, "push")
    /\ UNCHANGED <<items, handoff, closed, reserved, waiters, token, pending, toWake>>

(* reserve_slot: the waker is taken when the first try finds no room.      *)
Reserve(p) ==
    /\ At(p, "reserve")
    /\ \/ closed /\ Throw(p) /\ UNCHANGED <<reserved, waiters, pending>>
       \/ /\ ~closed /\ Room
          /\ reserved' = reserved + 1
          /\ waker' = waker \ {p}
          /\ GoOn(p, "push")
          /\ UNCHANGED <<waiters, pending>>
       \/ /\ ~closed /\ ~Room /\ p \in waker
          /\ Enlist(p)
          /\ GoOn(p, "check")
          /\ UNCHANGED <<reserved, waker, pending>>
       \/ /\ ~closed /\ ~Room /\ p \notin waker
          /\ TakeWaker(p)
          /\ GoOn(p, "reserve")
          /\ UNCHANGED <<reserved, waiters>>
    /\ UNCHANGED <<items, handoff, closed, token, toWake>>

(* Mutant: no receiver is woken.                                           *)
PushQuiet(p) ==
    /\ At(p, "push") /\ ~closed
    /\ reserved' = reserved - 1
    /\ items' = Append(items, value(p))
    /\ handoff' = IF Capacity = 0 THEN Append(handoff, Nobody) ELSE handoff
    /\ Return(p)
    /\ UNCHANGED <<closed, waiters, token, pending, toWake>>

(* push_reserved: a value from try_send has no sender waiting for it.      *)
Push(p) ==
    /\ At(p, "push")
    /\ reserved' = reserved - 1
    /\ \/ closed /\ Throw(p) /\ UNCHANGED <<items, handoff, waiters, toWake>>
       \/ /\ ~closed
          /\ items' = Append(items, value(p))
          /\ handoff' = IF Capacity = 0 THEN Append(handoff, Nobody) ELSE handoff
          /\ PopWaker(p, "reader")
          /\ Return(p)
    /\ UNCHANGED <<closed, token, pending>>

-----------------------------------------------------------------------------
(* Sending on a rendezvous channel                                         *)

(* hand_over queues the value with the waker of its sender.                *)
HandOver(p) ==
    /\ Idle(p) /\ Handing(p)
    /\ \/ closed /\ Throw(p) /\ UNCHANGED <<items, handoff, waiters, pending, toWake>>
       \/ /\ ~closed
          /\ TakeWaker(p)
          /\ items' = Append(items, value(p))
          /\ handoff' = Append(handoff, p)
          /\ PopWaker(p, "reader")
          /\ GoOn(p, "taken")
    /\ UNCHANGED <<closed, reserved, token>>

(* The value was taken when its sender is no longer in the hand-over queue.*)
Taken(p) ==
    /\ At(p, "taken")
    /\ \/ ~Contains(handoff, p) /\ Return(p)
       \/ Contains(handoff, p) /\ closed /\ GoOn(p, "withdrawClosed") /\ UNCHANGED waker
       \/ Contains(handoff, p) /\ ~closed /\ GoOn(p, "check") /\ UNCHANGED waker
    /\ UNCHANGED <<chan, token, pending, toWake>>

(* Mutant: the send fails although its value was taken in the meantime.    *)
WithdrawLate(p) ==
    /\ \E l \in {"withdrawClosed", "withdrawTimeout", "withdrawCancelled"} : At(p, l)
    /\ items' = SelectSeq(items, LAMBDA v : v # value(p))
    /\ handoff' = RemoveFirst(handoff, p)
    /\ Throw(p)
    /\ UNCHANGED <<closed, reserved, waiters, token, pending, toWake>>

(* withdraw: the send fails only if the value was still there.             *)
Withdraw(p) ==
    /\ \E l \in {"withdrawClosed", "withdrawTimeout", "withdrawCancelled"} : At(p, l)
    /\ \/ /\ Contains(handoff, p)
          /\ LET i == SelectInSeq(handoff, LAMBDA q : q = p) IN
             /\ items' = RemoveAt(items, i)
             /\ handoff' = RemoveAt(handoff, i)
          /\ Throw(p)
       \/ /\ ~Contains(handoff, p)
          /\ Return(p)
          /\ UNCHANGED <<items, handoff>>
    /\ UNCHANGED <<closed, reserved, waiters, token, pending, toWake>>

-----------------------------------------------------------------------------
(* Receiving                                                               *)

(* Mutant: the sender is not woken.                                        *)
TakeItemQuiet(p) ==
    /\ items' = Tail(items)
    /\ taken' = Append(taken, Head(items))
    /\ End(p)
    /\ UNCHANGED <<handoff, waiters, toWake, accepted, refused, pending>>

(* The first value leaves, and the sender that waits for it, or for the    *)
(* slot it frees, is to be woken.                                          *)
TakeItem(p) ==
    /\ items' = Tail(items)
    /\ taken' = Append(taken, Head(items))
    /\ IF Capacity = 0
       THEN /\ handoff' = Tail(handoff)
            /\ toWake' = [toWake EXCEPT ![p] = IF Head(handoff) = Nobody THEN <<>> ELSE <<Head(handoff)>>]
            /\ UNCHANGED waiters
       ELSE /\ PopWaker(p, "writer")
            /\ UNCHANGED handoff
    /\ End(p)
    /\ UNCHANGED <<accepted, refused, pending>>

(* recv: try_recv_locked without a waker first, then with one.             *)
Recv(p) ==
    /\ p \in Receivers \ Selecting
    /\ Idle(p) \/ At(p, "recv")
    /\ \/ items # <<>> /\ TakeItem(p)
       \/ items = <<>> /\ closed /\ Throw(p) /\ UNCHANGED <<items, handoff, waiters, pending, toWake>>
       \/ /\ items = <<>> /\ ~closed /\ p \in waker
          /\ Enlist(p)
          /\ GoOn(p, "check")
          /\ UNCHANGED <<items, handoff, waker, pending, toWake>>
       \/ /\ items = <<>> /\ ~closed /\ p \notin waker
          /\ TakeWaker(p)
          /\ GoOn(p, "recv")
          /\ UNCHANGED <<items, handoff, waiters, toWake>>
    /\ UNCHANGED <<closed, reserved, token>>

TryRecv(p) ==
    /\ p \in (Receivers \cap Trying) \ Selecting
    /\ Idle(p)
    /\ \/ items # <<>> /\ TakeItem(p)
       \/ items = <<>> /\ Throw(p) /\ UNCHANGED <<items, handoff, waiters, pending, toWake>>
    /\ UNCHANGED <<closed, reserved, token>>

-----------------------------------------------------------------------------
(* select                                                                  *)

Unwatch(p) == waiters' = [waiters EXCEPT !["other"] = RemoveFirst(@, p)]

(* The other channel is watched first: if it is closed, select returns.    *)
Select(p) ==
    /\ p \in Selecting
    /\ Idle(p) \/ At(p, "select")
    /\ \/ p \notin waker /\ TakeWaker(p) /\ GoOn(p, "select") /\ UNCHANGED waiters
       \/ p \in waker /\ quit /\ Throw(p) /\ UNCHANGED <<waiters, pending>>
       \/ /\ p \in waker /\ ~quit
          /\ waiters' = [waiters EXCEPT !["other"] = Append(@, p)]
          /\ GoOn(p, "watch")
          /\ UNCHANGED <<waker, pending>>
    /\ UNCHANGED <<items, handoff, closed, reserved, token, toWake>>

(* watch_reader: a receive would not wait, or the waker is queued.         *)
Watch(p) ==
    /\ At(p, "watch")
    /\ \/ (items # <<>> \/ closed) /\ GoOn(p, "ready") /\ UNCHANGED waiters
       \/ items = <<>> /\ ~closed /\ Enlist(p) /\ GoOn(p, "check")
    /\ UNCHANGED <<items, handoff, closed, reserved, token, waker, pending, toWake>>

(* select lets go of the other channel and returns, and its caller tries   *)
(* to receive; if another was quicker it selects again.                    *)
Ready(p) ==
    /\ At(p, "ready")
    /\ \/ /\ Contains(waiters["other"], p)
          /\ Unwatch(p)
          /\ UNCHANGED <<items, handoff, pc, waker, pending, late, toWake, hist>>
       \/ /\ ~Contains(waiters["other"], p)
          /\ \/ items # <<>> /\ TakeItem(p)
             \/ items = <<>> /\ closed /\ Throw(p) /\ UNCHANGED <<items, handoff, waiters, pending, toWake>>
             \/ /\ items = <<>> /\ ~closed
                /\ waker' = waker \ {p}
                /\ GoOn(p, "select")
                /\ UNCHANGED <<items, handoff, waiters, pending, toWake>>
    /\ UNCHANGED <<closed, reserved, token>>

(* select throws timeout or cancelled, and first lets go of both channels. *)
SelectEnds(p) ==
    /\ At(p, "selectEnd")
    /\ Unwatch(p)
    /\ GoOn(p, "watchEnd")
    /\ UNCHANGED <<items, handoff, closed, reserved, token, waker, pending, toWake>>

(* Mutant: the wake for a value is not handed on.                          *)
ForgetWatchQuiet(p) ==
    /\ \/ At(p, "forgetWatch") /\ GoOn(p, IF p \in Cancellable THEN "cancelForget" ELSE "select") /\ UNCHANGED waker
       \/ At(p, "watchEnd") /\ Throw(p)
    /\ Delist(p)
    /\ UNCHANGED <<items, handoff, closed, reserved, token, pending, toWake>>

(* forget_watch: a waker that a sender took out was meant for a receive,   *)
(* so that the wake goes to the next receiver while the value is there.    *)
ForgetWatch(p) ==
    /\ \/ At(p, "forgetWatch") /\ GoOn(p, IF p \in Cancellable THEN "cancelForget" ELSE "select") /\ UNCHANGED waker
       \/ At(p, "watchEnd") /\ Throw(p)
    /\ \/ Contains(waiters["reader"], p) /\ Delist(p) /\ UNCHANGED toWake
       \/ ~Contains(waiters["reader"], p) /\ items # <<>> /\ PopWaker(p, "reader")
       \/ ~Contains(waiters["reader"], p) /\ items = <<>> /\ UNCHANGED <<waiters, toWake>>
    /\ UNCHANGED <<items, handoff, closed, reserved, token, pending>>

-----------------------------------------------------------------------------
(* Waiting, the same in recv, reserve_slot, hand_over and select           *)

TimePasses(p) ==
    /\ p \in Timed \ late
    /\ pc[p] \in {"recv", "reserve", "taken", "select", "watch", "check", "register", "wait"}
    /\ late' = late \cup {p}
    /\ UNCHANGED <<chan, token, pc, waker, pending, toWake, hist>>

(* Where a caller goes that does not wait any more                         *)
GivesUp(p, withdraw, forget) ==
    IF Handing(p) THEN withdraw ELSE IF p \in Selecting THEN "selectEnd" ELSE forget

Check(p) ==
    /\ At(p, "check")
    /\ \/ p \in late /\ Goto(p, GivesUp(p, "withdrawTimeout", "forgetTimeout"))
       \/ p \notin late /\ Goto(p, IF p \in Cancellable THEN "register" ELSE "wait")
    /\ UNCHANGED <<chan, token, waker, pending, late, toWake, hist>>

(* Mutant: the token is not looked at.                                     *)
RegisterBlind(p) ==
    /\ At(p, "register")
    /\ watchers' = Append(watchers, p)
    /\ Goto(p, "wait")
    /\ UNCHANGED <<chan, cancelled, quit, waker, pending, late, toWake, hist>>

(* CancelToken.register                                                    *)
Register(p) ==
    /\ At(p, "register")
    /\ \/ /\ cancelled
          /\ Goto(p, GivesUp(p, "withdrawCancelled", "forgetCancelled"))
          /\ UNCHANGED watchers
       \/ /\ ~cancelled
          /\ watchers' = Append(watchers, p)
          /\ Goto(p, "wait")
    /\ UNCHANGED <<chan, cancelled, quit, waker, pending, late, toWake, hist>>

(* Waker.wait: a pending wake ends it, or the deadline; a wake that comes   *)
(* too late for a wait that timed out stays for the next one.              *)
Wait(p) ==
    /\ At(p, "wait")
    /\ \/ p \in pending /\ pending' = pending \ {p}
       \/ p \in late /\ UNCHANGED pending
    /\ Goto(p, IF ~Handing(p) THEN "forget"
               ELSE IF p \in Cancellable THEN "cancelForget" ELSE "taken")
    /\ UNCHANGED <<chan, token, waker, late, toWake, hist>>

Forget(p) ==
    /\ At(p, "forget")
    /\ \/ p \notin Selecting /\ Delist(p) /\ Goto(p, IF p \in Cancellable THEN "cancelForget" ELSE Top(p))
       \/ p \in Selecting /\ Unwatch(p) /\ Goto(p, "forgetWatch")
    /\ UNCHANGED <<items, handoff, closed, reserved, token, waker, pending, late, toWake, hist>>

ForgetTimeout(p) ==
    /\ At(p, "forgetTimeout")
    /\ Delist(p)
    /\ Throw(p)
    /\ UNCHANGED <<items, handoff, closed, reserved, token, pending, toWake>>

ForgetCancelled(p) ==
    /\ At(p, "forgetCancelled")
    /\ Delist(p)
    /\ GoOn(p, "passOn")
    /\ UNCHANGED <<items, handoff, closed, reserved, token, waker, pending, toWake>>

(* CancelToken.forget, then CancelToken.is_cancelled                       *)
CancelForget(p) ==
    /\ At(p, "cancelForget")
    /\ watchers' = RemoveFirst(watchers, p)
    /\ Goto(p, "isCancelled")
    /\ UNCHANGED <<chan, cancelled, quit, waker, pending, late, toWake, hist>>

IsCancelled(p) ==
    /\ At(p, "isCancelled")
    /\ \/ /\ cancelled /\ p \notin Selecting
          /\ GoOn(p, IF Handing(p) THEN "withdrawCancelled" ELSE "passOn")
          /\ UNCHANGED waker
       \/ cancelled /\ p \in Selecting /\ Throw(p)
       \/ ~cancelled /\ GoOn(p, Top(p)) /\ UNCHANGED waker
    /\ UNCHANGED <<chan, token, pending, toWake>>

(* Mutant: the wake dies with the call.                                    *)
PassOnNothing(p) ==
    /\ At(p, "passOn")
    /\ Throw(p)
    /\ UNCHANGED <<chan, token, pending, toWake>>

(* pass_on: the wake a cancelled waiter may have taken goes to the next.   *)
PassOn(p) ==
    /\ At(p, "passOn")
    /\ IF IF p \in Receivers THEN items # <<>> ELSE Room
       THEN PopWaker(p, side(p))
       ELSE UNCHANGED <<waiters, toWake>>
    /\ Throw(p)
    /\ UNCHANGED <<items, handoff, closed, reserved, token, pending>>

-----------------------------------------------------------------------------
(* Mutant: senders are not woken.                                          *)
CloseReaders ==
    /\ MayClose /\ At(Closer, "idle") /\ ~closed
    /\ closed' = TRUE
    /\ toWake' = [toWake EXCEPT ![Closer] = waiters["reader"]]
    /\ waiters' = [waiters EXCEPT !["reader"] = <<>>, !["writer"] = <<>>]
    /\ UNCHANGED <<items, handoff, reserved, token, pc, waker, pending, late, hist>>

(* close wakes every waiting receiver and sender, rendezvous senders too.  *)
(* The place of a value from try_send has no sender to wake.               *)
Close ==
    /\ MayClose /\ At(Closer, "idle") /\ ~closed
    /\ closed' = TRUE
    /\ toWake' = [toWake EXCEPT ![Closer] = waiters["reader"] \o waiters["writer"] \o handoff]
    /\ waiters' = [waiters EXCEPT !["reader"] = <<>>, !["writer"] = <<>>]
    /\ UNCHANGED <<items, handoff, reserved, token, pc, waker, pending, late, hist>>

(* The other channel of the selects is closed, before this one.            *)
CloseOther ==
    /\ Selecting # {} /\ At(Closer, "idle") /\ ~closed /\ ~quit
    /\ quit' = TRUE
    /\ toWake' = [toWake EXCEPT ![Closer] = waiters["other"]]
    /\ waiters' = [waiters EXCEPT !["other"] = <<>>]
    /\ UNCHANGED <<items, handoff, closed, reserved, cancelled, watchers, pc, waker, pending, late, hist>>

(* CancelToken.cancel                                                      *)
Cancel ==
    /\ Cancellable # {} /\ At(Canceller, "idle") /\ ~cancelled
    /\ cancelled' = TRUE
    /\ toWake' = [toWake EXCEPT ![Canceller] = watchers]
    /\ watchers' = <<>>
    /\ UNCHANGED <<chan, quit, pc, waker, pending, late, hist>>

(* Waker.wake, outside the lock, unless the place is Nobody's              *)
Wake(p) ==
    /\ toWake[p] # <<>>
    /\ pending' = pending \cup ({Head(toWake[p])} \ {Nobody})
    /\ toWake' = [toWake EXCEPT ![p] = Tail(@)]
    /\ UNCHANGED <<chan, token, pc, waker, late, hist>>

Step(p) ==
    \/ Send(p) \/ Reserve(p) \/ Push(p)
    \/ HandOver(p) \/ Taken(p) \/ Withdraw(p)
    \/ Recv(p) \/ Select(p) \/ Watch(p) \/ Ready(p) \/ SelectEnds(p) \/ ForgetWatch(p)
    \/ Check(p) \/ Register(p) \/ Wait(p) \/ Forget(p) \/ ForgetTimeout(p) \/ ForgetCancelled(p)
    \/ CancelForget(p) \/ IsCancelled(p) \/ PassOn(p)

Quiet == \A p \in Procs : pc[p] = "idle" /\ toWake[p] = <<>>

Done == Quiet /\ (\A p \in Callers : calls[p] = MaxCalls[p]) /\ UNCHANGED vars

Next ==
    \/ \E p \in Callers : Step(p) \/ TrySend(p) \/ TryRecv(p) \/ TimePasses(p)
    \/ \E p \in Procs : Wake(p)
    \/ Close
    \/ CloseOther
    \/ Cancel
    \/ Done

Spec == Init /\ [][Next]_vars

(* Callers run on: they make their calls, and the wakes of a block go out. *)
FairSpec ==
    /\ Spec
    /\ \A p \in Callers : WF_vars(Step(p))
    /\ \A p \in Procs : WF_vars(Wake(p))

-----------------------------------------------------------------------------
(* Properties                                                              *)

Asleep(p) == At(p, "wait") /\ p \notin pending \cup late

InFlight(p) == p \in pending \/ \E q \in Procs : Contains(toWake[q], p)

(* Where a select has handed its wake on already                           *)
GivenUp(p) == IF p \in Selecting THEN {"cancelForget", "isCancelled"} ELSE {}

(* A waiting receiver that is out of the queue and will look at the        *)
(* channel again, or hand its wake on: whatever a sender woke it for is in *)
(* good hands.                                                             *)
Coming(p) ==
    \/ pc[p] \in {"recv", "reserve", "forget", "cancelForget", "isCancelled", "passOn", "forgetCancelled",
                  "forgetWatch", "selectEnd", "watchEnd"} \ GivenUp(p)
    \/ pc[p] \in {"check", "register", "wait"} /\ ~Contains(waiters[side(p)], p)

(* No lost wake-up, receivers (channel.valk `push_reserved`, `hand_over`,  *)
(* `send`, `pass_on`): while receivers wait, every queued value has a      *)
(* receiver on its way to it.                                              *)
ValuesAttended ==
    waiters["reader"] # <<>> =>
        Len(items) <= Cardinality({p \in Receivers : Coming(p)})

(* No lost wake-up, senders (`try_recv_locked`, `pass_on`): while senders  *)
(* wait for room, every free slot has a sender on its way to it.           *)
SlotsAttended ==
    waiters["writer"] # <<>> =>
        Capacity - (Len(items) + reserved) <= Cardinality({p \in Senders : Coming(p)})

(* Nobody sleeps where no wake can find it (`recv`, `reserve_slot`,        *)
(* `hand_over`, `close`): an open channel's sleeper is in the queue of its *)
(* kind, and a closed channel has no sleeper without a wake on its way.    *)
SleepersFindable ==
    \A p \in Callers : Asleep(p) /\ ~InFlight(p) =>
        /\ ~closed
        /\ IF Handing(p) THEN Contains(handoff, p) ELSE Contains(waiters[side(p)], p)
        /\ p \in Cancellable => ~cancelled /\ Contains(watchers, p)
        /\ p \in Selecting => ~quit /\ Contains(waiters["other"], p)

Exists(v, s) == Cardinality({i \in DOMAIN s : s[i] = v})

(* What a send reports is what happened (channel.valk:52-57): the value of *)
(* a send that returned is queued or was received, exactly once, one of a  *)
(* rendezvous send was received; the value of a send that threw is         *)
(* nowhere.                                                                *)
SendHonest ==
    /\ \A v \in accepted : Exists(v, items) + Exists(v, taken) = 1
    /\ \A v \in refused : Exists(v, items) + Exists(v, taken) = 0
    /\ Capacity = 0 /\ Trying \cap Senders = {} => \A v \in accepted : Exists(v, taken) = 1

(* A buffered channel never promises more than its capacity; a rendezvous  *)
(* channel pairs every value with the sender that waits for it.            *)
WithinCapacity ==
    IF Capacity > 0
    THEN Len(items) + reserved <= Capacity
    ELSE /\ Len(handoff) = Len(items)
         /\ \A i \in DOMAIN handoff : handoff[i] # Nobody => items[i] = value(handoff[i])

(* Nobody has anything left to do but wait.                                *)
AtRest == \A p \in Procs : toWake[p] = <<>> /\ (pc[p] = "idle" \/ Asleep(p))

(* recv "returns the next value, waiting for one" (channel.valk:248): no   *)
(* receiver is left waiting while a value is queued.                       *)
ValuesReachReceivers ==
    AtRest /\ items # <<>> => ~\E p \in Receivers : Asleep(p)

(* send waits "while the channel is full" (channel.valk:52): no sender is  *)
(* left waiting while there is room.                                       *)
RoomReachesSenders ==
    AtRest /\ Room => ~\E p \in Senders : Asleep(p)

(* The channel as its callers see it: every block and every wait between   *)
(* them amounts to a step of Fifo, or to none (channel.valk:33-34, 52-57,  *)
(* 248, 328-330).                                                          *)
Fifo == INSTANCE Fifo WITH queue <- items, Value <- Values, Bound <- Capacity

ImplementsFifo == Fifo!Spec

(* Nobody waits in vain (channel.valk:52-57, 248, 328-330): in the end no  *)
(* receiver is left waiting while a value is queued and no sender while    *)
(* there is room, and once the channel is closed every call has returned.  *)
EveryCallServed ==
    <>[](/\ AtRest
         /\ closed => Quiet
         /\ ValuesReachReceivers
         /\ RoomReachesSenders)
=============================================================================
