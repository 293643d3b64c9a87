--------------------------- MODULE ChannelWakeProofs ---------------------------
(***************************************************************************)
(* Proofs about the wakes of Channel, for any capacity and any callers:    *)
(* whoever waits is where a wake finds it, and while callers wait, every   *)
(* value and every free slot has a caller on its way to it.                *)
(***************************************************************************)
EXTENDS ChannelProofs

(* Who is in which queue, and nobody when the channel is closed            *)
Queued == Waits \cup {"forget", "forgetTimeout", "forgetCancelled", "forgetWatch", "selectEnd", "watchEnd"}

QueuesSound ==
    /\ \A s \in {"reader", "writer"} : Once(waiters[s])
    /\ \A p \in Callers : Contains(waiters["reader"], p) => p \in Receivers /\ pc[p] \in Queued
    /\ \A p \in Callers : Contains(waiters["writer"], p) => p \in Senders /\ Capacity > 0 /\ pc[p] \in Queued
    /\ closed => waiters["reader"] = <<>> /\ waiters["writer"] = <<>>
    /\ quit => waiters["other"] = <<>>
    /\ cancelled => watchers = <<>>

(* Where a caller is that sleeps, or is about to                           *)
InQueue(p) == ~closed /\ IF Handing(p) THEN Contains(handoff, p) ELSE Contains(waiters[side(p)], p)
AtToken(p) == ~cancelled /\ Contains(watchers, p)
AtOther(p) == ~quit /\ Contains(waiters["other"], p)

(* Who has no wake on its way is where one finds it.                       *)
Findable ==
    \A p \in Callers : ~InFlight(p) =>
        /\ pc[p] \in Waits => InQueue(p)
        /\ pc[p] = "wait" /\ p \in Cancellable => AtToken(p)
        /\ p \in Selecting /\ pc[p] \in Waits \cup {"watch"} => AtOther(p)

(* Where a caller is that will look again, or hand its wake on             *)
Comes(p) ==
    (Queued \cup {"recv", "reserve", "cancelForget", "isCancelled", "passOn"}) \ (GivenUp(p) \cup {"forgetTimeout"})

(* Who was called out of a queue, or came without being called             *)
Called(s) == {p \in Callers : side(p) = s /\ pc[p] \in Comes(p) /\ ~Contains(waiters[s], p)}

(* Who waits on this side with a timeout is in a select, which hands its   *)
(* wake on.                                                                *)
Patient(s) == \A p \in Timed : side(p) = s => p \in Selecting

(* While callers wait, those who were called are as many as the values, or *)
(* as the free slots.                                                      *)
ReadersCalled ==
    Patient("reader") /\ waiters["reader"] # <<>> => Len(items) <= Cardinality(Called("reader"))

WritersCalled ==
    Patient("writer") /\ waiters["writer"] # <<>> =>
        Capacity <= Len(items) + reserved + Cardinality(Called("writer"))

(* Everything the wakes depend on                                          *)
WInv == TypeOK /\ DInv /\ QueuesSound /\ Findable
IInv == WInv /\ ReadersCalled /\ WritersCalled

-----------------------------------------------------------------------------
USE ChannelAssumption

(* Who waits on which side                                                 *)
LEMMA Sides ==
    /\ \A p \in Receivers : side(p) = "reader" /\ ~Handing(p)
    /\ \A p \in Senders : side(p) = "writer"
    /\ \A p \in Callers : side(p) \in {"reader", "writer"}
    /\ TypeOK => /\ waiters["reader"] \in Seq(Callers) /\ waiters["writer"] \in Seq(Callers)
                 /\ waiters["other"] \in Seq(Callers) /\ \A p \in Callers : waiters[side(p)] \in Seq(Callers)
                 /\ DOMAIN waiters = Side
  BY Names DEF side, Handing, TypeOK, Side

-----------------------------------------------------------------------------
(* What a step of p does with the queues of the channel                    *)

Same(s) == waiters'[s] = waiters[s]

(* recv, reserve_slot and watch_reader queue a waker.                      *)
Enlisted(p) ==
    /\ ~closed /\ ~Handing(p) /\ pc[p] \notin Queued /\ pc'[p] = "check"
    /\ Enlist(p) /\ toWake' = toWake

Delisted(p) == Delist(p) /\ toWake' = toWake

(* A waker is taken out, by a caller that waits in no queue.               *)
Popped(p) == ~Contains(waiters[side(p)], p) /\ \E s \in {"reader", "writer"} : Pops(p, s)

(* A waiting caller stays in its queue, others do not enter.               *)
Kept(p) ==
    /\ Same("reader") /\ Same("writer")
    /\ Contains(waiters[side(p)], p) => pc'[p] \in Queued

(* Callers that are not in Queued are in no queue.                         *)
LEMMA NotQueued ==
    ASSUME QueuesSound, NEW p \in Callers, pc[p] \notin Queued \/ Handing(p)
    PROVE  ~Contains(waiters["reader"], p) /\ ~Contains(waiters["writer"], p) /\ ~Contains(waiters[side(p)], p)
  BY Names, Sides DEF QueuesSound

(* Every step of a caller is one of these.                                 *)
LEMMA OwnKinds ==
    ASSUME TypeOK, DInv, QueuesSound, NEW p \in Callers, Moves(p)
    PROVE  Enlisted(p) \/ Delisted(p) \/ Popped(p) \/ Kept(p)
<1>. USE DEF Goto, GoOn, At, Idle, End, Return, Throw, hist, chan
<1>1. /\ pc[p] \in Places(p) /\ p \in Procs
      /\ \A l : pc' = [pc EXCEPT ![p] = l] => pc'[p] = l
  BY Names DEF TypeOK, DInv, Placed
<1>2. ASSUME pc[p] \notin Queued \/ Handing(p), Same("reader"), Same("writer")
      PROVE  Kept(p)
  BY <1>2, NotQueued DEF Kept
<1>3. ASSUME pc'[p] \in Queued, Same("reader"), Same("writer")
      PROVE  Kept(p)
  BY <1>3 DEF Kept
<1>4. ASSUME pc[p] \notin Queued, toWake[p] = <<>>, NEW s \in {"reader", "writer"}, PopWaker(p, s)
      PROVE  Popped(p) \/ Kept(p)
  <2>1. Stays \/ Pops(p, s)
    BY <1>4, PopShape
  <2>2. Stays => Kept(p)
    BY <1>2, <1>4 DEF Stays, Same
  <2>3. Pops(p, s) => Popped(p)
    BY <1>4, NotQueued DEF Popped
  <2>. QED
    BY <2>1, <2>2, <2>3
<1>5. ASSUME pc[p] \notin Queued, toWake[p] = <<>>, items # <<>>, TakeItem(p)
      PROVE  Popped(p) \/ Kept(p)
  <2>1. Stays \/ Pops(p, "writer") \/ CallsBack(p)
    BY <1>5, TakeShape
  <2>2. Stays \/ CallsBack(p) => Kept(p)
    BY <1>2, <1>5 DEF Stays, CallsBack, Same
  <2>3. Pops(p, "writer") => Popped(p)
    BY <1>5, NotQueued DEF Popped
  <2>. QED
    BY <2>1, <2>2, <2>3
<1>6. ASSUME waiters' = waiters
      PROVE  Same("reader") /\ Same("writer")
  BY <1>6 DEF Same
<1>7. CASE Send(p) \/ Push(p) \/ HandOver(p)
  <2>1. pc[p] \notin Queued /\ toWake[p] = <<>>
    BY <1>7 DEF Send, Push, HandOver, Queued, Waits
  <2>2. waiters' = waiters \/ PopWaker(p, "reader")
    BY <1>7 DEF Send, Push, HandOver
  <2>. QED
    BY <1>2, <1>4, <1>6, <2>1, <2>2
<1>8. CASE TrySend(p) \/ Taken(p) \/ Withdraw(p)
  <2>1. pc[p] \notin Queued /\ waiters' = waiters
    BY <1>8 DEF TrySend, Taken, Withdraw, Queued, Waits
  <2>. QED
    BY <1>2, <1>6, <2>1
<1>9. CASE Reserve(p)
  <2>1. pc[p] = "reserve" /\ pc[p] \notin Queued /\ p \in Senders /\ Capacity # 0
    <3>1. pc[p] = "reserve" /\ pc[p] \in Places(p)
      BY <1>1, <1>9 DEF Reserve
    <3>. QED
      BY <3>1, Names DEF Places, Hands, Waits, Tokens, Withdraws, Ends, Queued
  <2>2. \/ waiters' = waiters
        \/ ~closed /\ Enlist(p) /\ pc' = [pc EXCEPT ![p] = "check"] /\ toWake' = toWake
    BY <1>9 DEF Reserve
  <2>3. ~Handing(p)
    BY <2>1, Names
  <2>. QED
    BY <1>1, <1>2, <1>6, <2>1, <2>2, <2>3 DEF Enlisted
<1>10. CASE Recv(p) \/ TryRecv(p)
  <2>1. pc[p] \notin Queued /\ toWake[p] = <<>> /\ p \in Receivers
    BY <1>10 DEF Recv, TryRecv, Queued, Waits
  <2>2. \/ waiters' = waiters
        \/ items # <<>> /\ TakeItem(p)
        \/ ~closed /\ Enlist(p) /\ pc' = [pc EXCEPT ![p] = "check"] /\ toWake' = toWake
    BY <1>10 DEF Recv, TryRecv
  <2>3. ~Handing(p)
    BY <2>1, Sides
  <2>. QED
    BY <1>1, <1>2, <1>5, <1>6, <2>1, <2>2, <2>3 DEF Enlisted
<1>11. CASE Select(p) \/ Watch(p)
  <2>1. pc[p] \notin Queued /\ p \in Receivers
    <3>1. pc[p] \in {"idle", "select", "watch"} /\ (pc[p] = "watch" \/ p \in Selecting)
      BY <1>11 DEF Select, Watch
    <3>. QED
      BY <1>1, <3>1, Names DEF Places, Hands, Waits, Tokens, Withdraws, Ends, Queued
  <2>2. \/ waiters' = waiters \/ waiters' = [waiters EXCEPT !["other"] = Append(@, p)]
        \/ ~closed /\ Enlist(p) /\ pc' = [pc EXCEPT ![p] = "check"] /\ toWake' = toWake
    BY <1>11 DEF Select, Watch
  <2>3. ~Handing(p)
    BY <2>1, Sides
  <2>4. waiters' = [waiters EXCEPT !["other"] = Append(@, p)] => Same("reader") /\ Same("writer")
    BY Sides DEF Same
  <2>. QED
    BY <1>1, <1>2, <1>6, <2>1, <2>2, <2>3, <2>4 DEF Enlisted
<1>12. CASE Ready(p)
  <2>1. pc[p] \notin Queued /\ toWake[p] = <<>>
    BY <1>12 DEF Ready, Queued, Waits
  <2>2. waiters' = waiters \/ Unwatch(p) \/ (items # <<>> /\ TakeItem(p))
    BY <1>12 DEF Ready
  <2>3. Unwatch(p) => Same("reader") /\ Same("writer")
    BY Sides DEF Same, Unwatch
  <2>. QED
    BY <1>2, <1>5, <1>6, <2>1, <2>2, <2>3
<1>13. CASE SelectEnds(p)
  <2>1. pc' = [pc EXCEPT ![p] = "watchEnd"] /\ Unwatch(p)
    BY <1>13 DEF SelectEnds
  <2>2. Same("reader") /\ Same("writer")
    BY <2>1, Sides DEF Same, Unwatch
  <2>. QED
    BY <1>1, <1>3, <2>1, <2>2 DEF Queued
<1>14. CASE ForgetWatch(p)
  <2>1. toWake[p] = <<>> /\ side(p) = "reader"
    <3>1. toWake[p] = <<>> /\ pc[p] \in {"forgetWatch", "watchEnd"}
      BY <1>14 DEF ForgetWatch
    <3>2. p \in Receivers
      BY <1>1, <3>1, Names DEF Places, Hands, Waits, Tokens, Withdraws, Ends
    <3>. QED
      BY <3>1, <3>2, Sides
  <2>2. \/ Delist(p) /\ toWake' = toWake
        \/ ~Contains(waiters["reader"], p) /\ PopWaker(p, "reader")
        \/ ~Contains(waiters["reader"], p) /\ waiters' = waiters
    BY <1>14 DEF ForgetWatch
  <2>3. PopWaker(p, "reader") => Stays \/ Pops(p, "reader")
    BY <2>1, PopShape
  <2>. QED
    BY <2>1, <2>2, <2>3 DEF Delisted, Popped, Kept, Same, Stays
<1>15. CASE Check(p)
  <2>1. /\ waiters' = waiters
        /\ \E l \in {"register", "wait", GivesUp(p, "withdrawTimeout", "forgetTimeout")} : pc' = [pc EXCEPT ![p] = l]
    BY <1>15 DEF Check
  <2>2. ~Handing(p) => pc'[p] \in Queued
    BY <1>1, <2>1 DEF GivesUp, Queued, Waits
  <2>. QED
    BY <1>2, <1>3, <1>6, <2>1, <2>2
<1>16. CASE Register(p)
  <2>1. /\ waiters' = waiters
        /\ \E l \in {"wait", GivesUp(p, "withdrawCancelled", "forgetCancelled")} : pc' = [pc EXCEPT ![p] = l]
    BY <1>16 DEF Register
  <2>2. ~Handing(p) => pc'[p] \in Queued
    BY <1>1, <2>1 DEF GivesUp, Queued, Waits
  <2>. QED
    BY <1>2, <1>3, <1>6, <2>1, <2>2
<1>17. CASE Wait(p)
  <2>1. waiters' = waiters /\ (~Handing(p) => pc' = [pc EXCEPT ![p] = "forget"])
    BY <1>17 DEF Wait
  <2>2. ~Handing(p) => pc'[p] \in Queued
    BY <1>1, <2>1 DEF Queued
  <2>. QED
    BY <1>2, <1>3, <1>6, <2>1, <2>2
<1>18. CASE Forget(p)
  <2>1. \/ Delist(p) /\ toWake' = toWake
        \/ Unwatch(p) /\ pc' = [pc EXCEPT ![p] = "forgetWatch"]
    BY <1>18 DEF Forget
  <2>2. Unwatch(p) => Same("reader") /\ Same("writer")
    BY Sides DEF Same, Unwatch
  <2>. QED
    BY <1>1, <1>3, <2>1, <2>2 DEF Delisted, Queued
<1>19. CASE ForgetTimeout(p) \/ ForgetCancelled(p)
  BY <1>19 DEF ForgetTimeout, ForgetCancelled, Delisted
<1>20. CASE CancelForget(p) \/ IsCancelled(p)
  <2>1. pc[p] \notin Queued /\ waiters' = waiters
    BY <1>20 DEF CancelForget, IsCancelled, Queued, Waits
  <2>. QED
    BY <1>2, <1>6, <2>1
<1>21. CASE PassOn(p)
  <2>1. pc[p] \notin Queued /\ toWake[p] = <<>>
    BY <1>21 DEF PassOn, Queued, Waits
  <2>2. waiters' = waiters \/ PopWaker(p, side(p))
    BY <1>21 DEF PassOn
  <2>. QED
    BY <1>2, <1>4, <1>6, <2>1, <2>2, Sides
<1>. QED
  BY <1>7, <1>8, <1>9, <1>10, <1>11, <1>12, <1>13, <1>14, <1>15, <1>16, <1>17, <1>18, <1>19, <1>20, <1>21
     DEF Moves, Step

-----------------------------------------------------------------------------
(* What it means to the others                                             *)

(* Others stay in their queues, or are called.                             *)
LEMMA Bystanders ==
    ASSUME TypeOK, NEW p \in Callers, Moves(p), NEW x \in Callers, x # p, NEW s \in Side
    PROVE  /\ Contains(waiters'[s], x) => Contains(waiters[s], x)
           /\ Contains(waiters[s], x) => Contains(waiters'[s], x) \/ Contains(toWake'[p], x)
<1>1. Queueing(p) /\ toWake[p] = <<>> /\ p \in Procs
  BY QueueShapes, Names
<1>2. /\ waiters \in [Side -> Seq(Callers)] /\ waiters[s] \in Seq(Callers)
      /\ toWake \in [Procs -> Seq(Callers \cup {Nobody})]
  BY DEF TypeOK
<1>3. CASE Stays \/ CallsBack(p)
  BY <1>3 DEF Stays, CallsBack
<1>4. CASE Joins(p)
  <2>1. waiters'[s] = waiters[s] \/ waiters'[s] = Append(waiters[s], p)
    BY <1>2, <1>4 DEF Joins
  <2>2. Contains(Append(waiters[s], p), x) <=> Contains(waiters[s], x) \/ x = p
    BY <1>2, AppendFacts
  <2>. QED
    BY <2>1, <2>2
<1>5. CASE Leaves(p)
  <2>1. waiters'[s] = waiters[s] \/ waiters'[s] = RemoveFirst(waiters[s], p)
    BY <1>2, <1>5 DEF Leaves
  <2>. QED
    BY <1>2, <2>1, RemoveFacts
<1>6. ASSUME NEW t \in {"reader", "writer"}, Pops(p, t)
      PROVE  /\ Contains(waiters'[s], x) => Contains(waiters[s], x)
             /\ Contains(waiters[s], x) => Contains(waiters'[s], x) \/ Contains(toWake'[p], x)
  <2>1. CASE s # t
    BY <1>2, <1>6, <2>1 DEF Pops
  <2>2. CASE s = t
    <3>1. waiters[s] # <<>> /\ waiters'[s] = Tail(waiters[s]) /\ toWake'[p] = <<Head(waiters[s])>>
      BY <1>1, <1>2, <1>6, <2>2 DEF Pops
    <3>2. Contains(waiters[s], x) <=> Contains(Tail(waiters[s]), x) \/ x = Head(waiters[s])
      BY <1>2, <3>1, TailFacts
    <3>3. x = Head(waiters[s]) => Contains(toWake'[p], x)
      BY <3>1 DEF Contains
    <3>. QED
      BY <3>1, <3>2, <3>3
  <2>. QED
    BY <2>1, <2>2
<1>. QED
  BY <1>1, <1>3, <1>4, <1>5, <1>6 DEF Queueing

(* Wakes that are to go out stay so.                                       *)
LEMMA WakesStay ==
    ASSUME TypeOK, NEW p \in Callers, Moves(p), NEW q \in Procs, NEW x, Contains(toWake[q], x)
    PROVE  Contains(toWake'[q], x)
<1>1. Queueing(p) /\ toWake[p] = <<>> /\ toWake \in [Procs -> Seq(Callers \cup {Nobody})]
  BY QueueShapes DEF TypeOK
<1>2. q # p
  BY <1>1, EmptyFacts
<1>3. toWake'[q] = toWake[q]
  BY <1>1, <1>2 DEF Queueing, Stays, Joins, Leaves, Pops, CallsBack
<1>. QED
  BY <1>3

(* Where a caller keeps the wakes it gets                                  *)
Watching == Waits \cup {"watch"}

(* A wake is consumed or dropped only by a caller that looks again.        *)
LEMMA WakeUsed ==
    ASSUME TypeOK, NEW p \in Callers, Moves(p), pc'[p] \in Watching
    PROVE  pending' = pending
<1>1. p \in Procs /\ pc \in [Procs -> PCs]
  BY Names DEF TypeOK
<1>2. ASSUME NEW l \in {"reserve", "taken", "recv", "select", "forget", "cancelForget"}, pc' = [pc EXCEPT ![p] = l]
      PROVE  FALSE
  BY <1>1, <1>2 DEF Watching, Waits
<1>. USE DEF Goto, GoOn, TakeWaker
<1>3. Reserve(p) \/ HandOver(p) \/ Recv(p) \/ Select(p) \/ Wait(p) => pending' = pending
  <2>1. Reserve(p) => pending' = pending
    BY <1>2 DEF Reserve
  <2>2. HandOver(p) => pending' = pending
    BY <1>2 DEF HandOver, Throw
  <2>3. Recv(p) => pending' = pending
    BY <1>2 DEF Recv, TakeItem
  <2>4. Select(p) => pending' = pending
    BY <1>2 DEF Select
  <2>5. Wait(p) => pending' = pending
    BY <1>2 DEF Wait
  <2>. QED
    BY <2>1, <2>2, <2>3, <2>4, <2>5
<1>4. Send(p) \/ TrySend(p) \/ Push(p) \/ Taken(p) \/ Withdraw(p) \/ TryRecv(p) \/ Ready(p) => pending' = pending
  BY DEF Send, TrySend, Push, Taken, Withdraw, TryRecv, Ready, TakeItem
<1>5. Watch(p) \/ SelectEnds(p) \/ ForgetWatch(p) \/ Check(p) \/ Register(p) => pending' = pending
  BY DEF Watch, SelectEnds, ForgetWatch, Check, Register
<1>6. Forget(p) \/ ForgetTimeout(p) \/ ForgetCancelled(p) \/ CancelForget(p) \/ IsCancelled(p) \/ PassOn(p)
        => pending' = pending
  BY DEF Forget, ForgetTimeout, ForgetCancelled, CancelForget, IsCancelled, PassOn
<1>. QED
  BY <1>3, <1>4, <1>5, <1>6 DEF Moves, Step

(* A wake on its way stays on its way, until its caller looks again.       *)
LEMMA FlightKept ==
    ASSUME TypeOK, NEW p \in Callers, Moves(p), NEW x \in Callers, InFlight(x),
           x # p \/ pc'[p] \in Watching
    PROVE  InFlight(x)'
<1>1. CASE x \in pending
  <2>1. pending' \in {pending, pending \ {p}}
    BY TokenShapes
  <2>2. x \in pending'
    BY <1>1, <2>1, WakeUsed
  <2>. QED
    BY <2>2 DEF InFlight
<1>2. CASE x \notin pending
  <2>1. PICK q \in Procs : Contains(toWake[q], x)
    BY <1>2 DEF InFlight
  <2>2. Contains(toWake'[q], x)
    BY <2>1, WakesStay
  <2>. QED
    BY <2>2 DEF InFlight
<1>. QED
  BY <1>1, <1>2

(* A sender's place in the hand-over queue is its own, or it is called.    *)
LEMMA HandoffKept ==
    ASSUME TypeOK, DInv, NEW p \in Callers, Moves(p), NEW x \in Callers, x # p, Contains(handoff, x)
    PROVE  Contains(handoff', x) \/ Contains(toWake'[p], x)
<1>1. handoff \in Seq(Senders \cup {Nobody}) /\ x # Nobody /\ p \in Procs
  BY Names DEF TypeOK
<1>2. CASE TakeItem(p)
  <2>1. CASE Capacity # 0
    BY <1>2, <2>1 DEF TakeItem
  <2>2. CASE Capacity = 0
    <3>1. handoff # <<>>
      BY EmptyFacts
    <3>2. Contains(Tail(handoff), x) \/ x = Head(handoff)
      BY <1>1, <3>1, TailFacts
    <3>3. handoff' = Tail(handoff)
      BY <1>2, <2>2 DEF TakeItem
    <3>4. x = Head(handoff) => toWake'[p] = <<x>>
      BY <1>1, <1>2, <2>2 DEF TakeItem, TypeOK
    <3>5. Contains(<<x>>, x)
      BY DEF Contains
    <3>. QED
      BY <3>2, <3>3, <3>4, <3>5
  <2>. QED
    BY <2>1, <2>2
<1>3. CASE Withdraw(p)
  <2>1. Withdrawn(p) \/ Confirmed(p)
    BY <1>3, WithdrawData DEF DInv
  <2>2. handoff' = handoff \/ handoff' = RemoveFirst(handoff, p)
    BY <2>1, WithdrawnFacts DEF Confirmed
  <2>. QED
    BY <1>1, <2>2, RemoveFacts
<1>4. Contains(Append(handoff, Nobody), x) /\ (p \in Senders => Contains(Append(handoff, p), x))
  BY <1>1, AppendFacts
<1>. USE DEF chan
<1>5. CASE Push(p) \/ HandOver(p)
  <2>1. HandOver(p) => p \in Senders
    BY DEF HandOver, Handing
  <2>2. handoff' \in {handoff, Append(handoff, Nobody)} \/ (HandOver(p) /\ handoff' \in {handoff, Append(handoff, p)})
    BY <1>5 DEF Push, HandOver
  <2>. QED
    BY <1>4, <2>1, <2>2
<1>6. CASE Send(p) \/ TrySend(p) \/ Reserve(p) \/ Taken(p) \/ Select(p) \/ Watch(p) \/ SelectEnds(p) \/ ForgetWatch(p)
  BY <1>6 DEF Send, TrySend, Reserve, Taken, Select, Watch, SelectEnds, ForgetWatch
<1>7. CASE Check(p) \/ Register(p) \/ Wait(p) \/ Forget(p) \/ ForgetTimeout(p) \/ ForgetCancelled(p)
             \/ CancelForget(p) \/ IsCancelled(p) \/ PassOn(p)
  BY <1>7 DEF Check, Register, Wait, Forget, ForgetTimeout, ForgetCancelled, CancelForget, IsCancelled, PassOn
<1>8. CASE Recv(p) \/ TryRecv(p) \/ Ready(p)
  <2>1. TakeItem(p) \/ handoff' = handoff
    BY <1>8 DEF Recv, TryRecv, Ready
  <2>. QED
    BY <1>2, <2>1
<1>. QED
  BY <1>3, <1>5, <1>6, <1>7, <1>8 DEF Moves, Step

(* What a step of p does with its place at the other channel               *)
LEMMA OtherKinds ==
    ASSUME TypeOK, NEW p \in Callers, Moves(p)
    PROVE  \/ Same("other")
           \/ ~quit /\ pc'[p] = "watch" /\ waiters'["other"] = Append(waiters["other"], p)
           \/ pc'[p] \notin Watching /\ waiters'["other"] = RemoveFirst(waiters["other"], p)
<1>1. /\ DOMAIN waiters = Side /\ side(p) # "other" /\ "other" \in Side
      /\ \A l : pc' = [pc EXCEPT ![p] = l] => pc'[p] = l
  BY Names DEF TypeOK, side, Side
<1>2. Enlist(p) \/ Delist(p) \/ PopWaker(p, "reader") \/ PopWaker(p, "writer") \/ waiters' = waiters
        => Same("other")
  BY <1>1 DEF Enlist, Delist, PopWaker, Same
<1>3. TakeItem(p) => Same("other")
  BY <1>2 DEF TakeItem
<1>. USE DEF chan, Goto, GoOn
<1>4. CASE Send(p) \/ TrySend(p) \/ Reserve(p) \/ Push(p) \/ HandOver(p) \/ Taken(p) \/ Withdraw(p)
  BY <1>2, <1>4 DEF Send, TrySend, Reserve, Push, HandOver, Taken, Withdraw
<1>5. CASE Recv(p) \/ TryRecv(p)
  BY <1>2, <1>3, <1>5 DEF Recv, TryRecv
<1>6. CASE Select(p)
  <2>1. \/ waiters' = waiters
        \/ ~quit /\ pc' = [pc EXCEPT ![p] = "watch"] /\ waiters' = [waiters EXCEPT !["other"] = Append(@, p)]
    BY <1>6 DEF Select
  <2>. QED
    BY <1>1, <1>2, <2>1
<1>7. CASE Watch(p)
  BY <1>2, <1>7 DEF Watch
<1>8. CASE Ready(p)
  <2>1. \/ waiters' = waiters \/ TakeItem(p)
        \/ Unwatch(p) /\ pc[p] = "ready" /\ pc' = pc
    BY <1>8 DEF Ready, At
  <2>. QED
    BY <1>1, <1>2, <1>3, <2>1 DEF Unwatch, Watching, Waits
<1>9. CASE SelectEnds(p)
  BY <1>1, <1>9 DEF SelectEnds, Unwatch, Watching, Waits
<1>10. CASE ForgetWatch(p) \/ PassOn(p)
  <2>1. Delist(p) \/ PopWaker(p, "reader") \/ PopWaker(p, "writer") \/ waiters' = waiters
    BY <1>10 DEF ForgetWatch, PassOn, side
  <2>. QED
    BY <1>2, <2>1
<1>11. CASE Check(p) \/ Register(p) \/ Wait(p) \/ CancelForget(p) \/ IsCancelled(p)
  BY <1>2, <1>11 DEF Check, Register, Wait, CancelForget, IsCancelled
<1>12. CASE Forget(p)
  <2>1. Delist(p) \/ (Unwatch(p) /\ pc' = [pc EXCEPT ![p] = "forgetWatch"])
    BY <1>12 DEF Forget
  <2>. QED
    BY <1>1, <1>2, <2>1 DEF Unwatch, Watching, Waits
<1>13. CASE ForgetTimeout(p) \/ ForgetCancelled(p)
  BY <1>2, <1>13 DEF ForgetTimeout, ForgetCancelled
<1>. QED
  BY <1>4, <1>5, <1>6, <1>7, <1>8, <1>9, <1>10, <1>11, <1>12, <1>13 DEF Moves, Step

(* What a step of p does with its place at the token                       *)
LEMMA WatcherKinds ==
    ASSUME TypeOK, NEW p \in Callers, Moves(p)
    PROVE  \/ watchers' = watchers
           \/ ~cancelled /\ pc'[p] = "wait" /\ watchers' = Append(watchers, p)
           \/ pc'[p] \notin Watching /\ watchers' = RemoveFirst(watchers, p)
<1>1. \A l : pc' = [pc EXCEPT ![p] = l] => pc'[p] = l
  BY Names DEF TypeOK
<1>. USE DEF token, Goto
<1>2. CASE Register(p)
  BY <1>1, <1>2 DEF Register
<1>3. CASE CancelForget(p)
  BY <1>1, <1>3 DEF CancelForget, Watching, Waits
<1>4. CASE Send(p) \/ TrySend(p) \/ Reserve(p) \/ Push(p) \/ HandOver(p) \/ Taken(p) \/ Withdraw(p)
  BY <1>4 DEF Send, TrySend, Reserve, Push, HandOver, Taken, Withdraw
<1>5. CASE Recv(p) \/ TryRecv(p) \/ Select(p) \/ Watch(p) \/ Ready(p) \/ SelectEnds(p) \/ ForgetWatch(p)
  BY <1>5 DEF Recv, TryRecv, Select, Watch, Ready, SelectEnds, ForgetWatch
<1>6. CASE Check(p) \/ Wait(p) \/ Forget(p) \/ ForgetTimeout(p) \/ ForgetCancelled(p) \/ IsCancelled(p) \/ PassOn(p)
  BY <1>6 DEF Check, Wait, Forget, ForgetTimeout, ForgetCancelled, IsCancelled, PassOn
<1>. QED
  BY <1>2, <1>3, <1>4, <1>5, <1>6 DEF Moves, Step

-----------------------------------------------------------------------------
(* Queues stay sound                                                       *)

(* Lists that are empty                                                    *)
LEMMA NoneIn ==
    ASSUME NEW S, NEW s \in Seq(S)
    PROVE  s = <<>> <=> \A x \in S : ~Contains(s, x)
<1>1. s # <<>> => Head(s) \in S /\ Contains(s, Head(s))
  BY TailFacts
<1>. QED
  BY <1>1, EmptyFacts

(* Nobody leaves the empty list.                                           *)
LEMMA NoneRemoved == \A x : RemoveFirst(<<>>, x) = <<>>
<1>1. <<>> \in Seq({})
  OBVIOUS
<1>. QED
  BY <1>1, EmptyFacts, RemoveFacts

(* A step of a caller leaves the queues of the channel sound.              *)
LEMMA MoveSound ==
    ASSUME TypeOK, DInv, QueuesSound, NEW p \in Callers, Moves(p)
    PROVE  QueuesSound'
<1>1. Enlisted(p) \/ Delisted(p) \/ Popped(p) \/ Kept(p)
  BY OwnKinds
<1>2. /\ waiters \in [Side -> Seq(Callers)] /\ side(p) \in {"reader", "writer"} /\ {"reader", "writer"} \subseteq Side
      /\ \A s \in {"reader", "writer"} : waiters[s] \in Seq(Callers) /\ Once(waiters[s])
  BY Sides DEF TypeOK, QueuesSound, Side
<1>3. closed' = closed /\ quit' = quit /\ cancelled' = cancelled
  BY TokenShapes
<1>4. \A s \in {"reader", "writer"} : s # side(p) => ~Contains(waiters[s], p)
  BY Names, Sides DEF QueuesSound
<1>5. ASSUME NEW s \in {"reader", "writer"}
      PROVE  /\ Once(waiters'[s])
             /\ Contains(waiters'[s], p) => s = side(p) /\ ~Handing(p) /\ pc'[p] \in Queued
             /\ closed /\ waiters[s] = <<>> => waiters'[s] = <<>>
  <2>1. CASE Enlisted(p)
    <3>1. ~Contains(waiters[side(p)], p) /\ ~closed /\ ~Handing(p) /\ pc'[p] \in Queued
      BY <2>1, NotQueued DEF Enlisted, Queued, Waits
    <3>2. waiters'[s] = IF s = side(p) THEN Append(waiters[s], p) ELSE waiters[s]
      BY <1>2, <2>1 DEF Enlisted, Enlist
    <3>3. s = side(p) => Once(Append(waiters[s], p))
      BY <1>2, <3>1, AppendFacts
    <3>. QED
      BY <1>2, <1>4, <3>1, <3>2, <3>3
  <2>2. CASE Delisted(p)
    <3>1. waiters'[s] = IF s = side(p) THEN RemoveFirst(waiters[s], p) ELSE waiters[s]
      BY <1>2, <2>2 DEF Delisted, Delist
    <3>2. Once(RemoveFirst(waiters[s], p)) /\ ~Contains(RemoveFirst(waiters[s], p), p)
      BY <1>2, RemoveFacts
    <3>3. waiters[s] = <<>> => RemoveFirst(waiters[s], p) = <<>>
      BY <1>2, EmptyFacts, RemoveFacts
    <3>. QED
      BY <1>2, <1>4, <3>1, <3>2, <3>3
  <2>3. CASE Popped(p)
    <3>1. ~Contains(waiters[s], p)
      BY <1>4, <2>3 DEF Popped
    <3>2. waiters'[s] = waiters[s] \/ (waiters[s] # <<>> /\ waiters'[s] = Tail(waiters[s]))
      BY <1>2, <2>3 DEF Popped, Pops
    <3>3. waiters[s] # <<>> => Once(Tail(waiters[s])) /\ ~Contains(Tail(waiters[s]), p)
      BY <1>2, <3>1, TailFacts
    <3>. QED
      BY <1>2, <3>1, <3>2, <3>3
  <2>4. CASE Kept(p)
    <3>1. waiters'[s] = waiters[s]
      BY <2>4 DEF Kept, Same
    <3>2. Contains(waiters[s], p) => s = side(p) /\ ~Handing(p) /\ pc'[p] \in Queued
      BY <1>4, <2>4, NotQueued DEF Kept
    <3>. QED
      BY <1>2, <3>1, <3>2
  <2>. QED
    BY <1>1, <2>1, <2>2, <2>3, <2>4
<1>6. ASSUME NEW x \in Callers, x # p, NEW s \in {"reader", "writer"}, Contains(waiters'[s], x)
      PROVE  Contains(waiters[s], x) /\ pc'[x] = pc[x]
  <2>1. Contains(waiters[s], x)
    BY <1>2, <1>6, Bystanders
  <2>2. pc'[x] = pc[x]
    <3>1. Data(p) \/ Still
      BY SendData, ReceiveData, LoopData DEF Moves, Step, DInv
    <3>2. Still => pc'[x] = pc[x]
      BY DEF Still
    <3>. QED
      BY <1>6, <3>1, <3>2, Others DEF DInv
  <2>. QED
    BY <2>1, <2>2
<1>7. \A x \in Callers : Contains(waiters'["reader"], x) => x \in Receivers /\ pc'[x] \in Queued
  <2>. TAKE x \in Callers
  <2>1. CASE x = p
    BY <1>2, <1>5, <2>1, Names, Sides
  <2>2. CASE x # p
    BY <1>6, <2>2 DEF QueuesSound
  <2>. QED
    BY <2>1, <2>2
<1>8. \A x \in Callers : Contains(waiters'["writer"], x) => x \in Senders /\ Capacity > 0 /\ pc'[x] \in Queued
  <2>. TAKE x \in Callers
  <2>1. CASE x = p
    BY <1>2, <1>5, <2>1, Names, Sides
  <2>2. CASE x # p
    BY <1>6, <2>2 DEF QueuesSound
  <2>. QED
    BY <2>1, <2>2
<1>9. closed' => waiters'["reader"] = <<>> /\ waiters'["writer"] = <<>>
  BY <1>3, <1>5 DEF QueuesSound
<1>10. quit' => waiters'["other"] = <<>>
  <2>1. RemoveFirst(<<>>, p) = <<>>
    BY NoneRemoved
  <2>. QED
    BY <1>3, <2>1, OtherKinds DEF QueuesSound, Same
<1>11. cancelled' => watchers' = <<>>
  <2>1. RemoveFirst(<<>>, p) = <<>>
    BY NoneRemoved
  <2>. QED
    BY <1>3, <2>1, WatcherKinds DEF QueuesSound
<1>. QED
  BY <1>5, <1>7, <1>8, <1>9, <1>10, <1>11 DEF QueuesSound

(* A step of p leaves the others where they are.                           *)
LEMMA OthersStay ==
    ASSUME TypeOK, DInv, NEW p \in Callers, Moves(p), NEW x \in Callers, x # p
    PROVE  pc'[x] = pc[x]
<1>1. Data(p) \/ Still
  BY SendData, ReceiveData, LoopData DEF Moves, Step, DInv
<1>2. Still => pc'[x] = pc[x]
  BY DEF Still
<1>. QED
  BY <1>1, <1>2, Others DEF DInv

(* Queues stay sound, whatever happens.                                    *)
LEMMA SoundStep ==
    ASSUME TypeOK, DInv, QueuesSound, [Next]_vars
    PROVE  QueuesSound'
<1>1. CASE \E p \in Callers : Moves(p)
  BY <1>1, MoveSound
<1>2. CASE UNCHANGED <<waiters, pc, closed, quit, cancelled, watchers>>
  BY <1>2 DEF QueuesSound
<1>3. CASE Close
  <2>1. /\ waiters'["reader"] = <<>> /\ waiters'["writer"] = <<>> /\ waiters'["other"] = waiters["other"]
        /\ UNCHANGED <<pc, quit, cancelled, watchers>>
    BY <1>3 DEF Close, TypeOK, Side, token
  <2>. QED
    BY <2>1, EmptyFacts DEF QueuesSound
<1>4. CASE CloseOther
  <2>1. /\ waiters'["reader"] = waiters["reader"] /\ waiters'["writer"] = waiters["writer"]
        /\ waiters'["other"] = <<>>
        /\ UNCHANGED <<pc, closed, cancelled, watchers>>
    BY <1>4 DEF CloseOther, TypeOK, Side
  <2>. QED
    BY <2>1 DEF QueuesSound
<1>5. CASE Cancel
  <2>1. waiters' = waiters /\ watchers' = <<>> /\ UNCHANGED <<pc, closed, quit>>
    BY <1>5 DEF Cancel, chan
  <2>. QED
    BY <2>1 DEF QueuesSound
<1>6. ASSUME NEW p \in Callers, TimePasses(p)
      PROVE  UNCHANGED <<waiters, pc, closed, quit, cancelled, watchers>>
  BY <1>6 DEF TimePasses, chan, token
<1>7. ASSUME NEW p \in Procs, Wake(p)
      PROVE  UNCHANGED <<waiters, pc, closed, quit, cancelled, watchers>>
  BY <1>7 DEF Wake, chan, token
<1>8. Done \/ UNCHANGED vars => UNCHANGED <<waiters, pc, closed, quit, cancelled, watchers>>
  BY DEF Done, vars
<1>. QED
  BY <1>1, <1>2, <1>3, <1>4, <1>5, <1>6, <1>7, <1>8 DEF Next, Moves

-----------------------------------------------------------------------------
(* Who waits can be found                                                  *)

(* How a caller comes to wait                                              *)
LEMMA WaitEntries ==
    ASSUME TypeOK, DInv, NEW p \in Callers, Moves(p), pc'[p] \in Watching
    PROVE  \/ pc'[p] = "watch" /\ ~quit /\ waiters'["other"] = Append(waiters["other"], p)
           \/ /\ pc'[p] = "check" /\ ~closed /\ Enlist(p) /\ ~Handing(p)
              /\ p \in Selecting => pc[p] = "watch"
           \/ /\ pc'[p] = "check" /\ Handing(p) /\ Contains(handoff, p) /\ ~closed
              /\ UNCHANGED <<handoff, waiters>>
           \/ /\ pc[p] \in Waits /\ pc'[p] \in Waits /\ UNCHANGED <<handoff, waiters>>
              /\ pc'[p] = "wait" /\ p \in Cancellable => ~cancelled /\ watchers' = Append(watchers, p)
<1>1. /\ pc[p] \in Places(p) /\ DOMAIN waiters = Side
      /\ \A l : pc' = [pc EXCEPT ![p] = l] => pc'[p] = l
  BY Names DEF TypeOK, DInv, Placed
<1>2. ASSUME NEW l \in PCs \ Watching, pc' = [pc EXCEPT ![p] = l]
      PROVE  FALSE
  BY <1>1, <1>2
<1>. USE DEF chan, Goto, GoOn, At
<1>3. End(p) => FALSE
  BY <1>2 DEF End, PCs, Watching, Waits
<1>4. Throw(p) \/ Return(p) \/ TakeItem(p) => FALSE
  BY <1>3 DEF Throw, Return, TakeItem
<1>5. {"reserve", "push", "taken", "recv", "ready", "select", "watchEnd", "passOn", "isCancelled",
       "withdrawClosed", "withdrawCancelled", "withdrawTimeout", "forgetTimeout", "forgetCancelled", "selectEnd",
       "forget", "forgetWatch", "cancelForget"} \subseteq PCs \ Watching
  BY DEF PCs, Watching, Waits
<1>6. Top(p) \in {"select", "recv", "taken", "reserve"}
  BY DEF Top
<1>7. ~(Send(p) \/ TrySend(p) \/ Push(p) \/ HandOver(p) \/ Withdraw(p) \/ TryRecv(p))
  BY <1>2, <1>4, <1>5 DEF Send, TrySend, Push, HandOver, Withdraw, TryRecv
<1>8. CASE Reserve(p)
  <2>1. pc[p] = "reserve" /\ Enlist(p) /\ ~closed /\ pc' = [pc EXCEPT ![p] = "check"]
    BY <1>2, <1>4, <1>5, <1>8 DEF Reserve
  <2>2. ~Handing(p) /\ p \notin Selecting
    BY <1>1, <2>1, Names DEF Places, Hands, Waits, Tokens, Withdraws, Ends
  <2>. QED
    BY <1>1, <2>1, <2>2
<1>9. CASE Taken(p)
  <2>1. Contains(handoff, p) /\ ~closed /\ pc' = [pc EXCEPT ![p] = "check"] /\ pc[p] = "taken"
    BY <1>2, <1>4, <1>5, <1>9 DEF Taken
  <2>2. Handing(p)
    BY <1>1, <2>1, Names DEF Places, Hands, Waits, Tokens, Withdraws, Ends
  <2>. QED
    BY <1>1, <1>9, <2>1, <2>2 DEF Taken
<1>10. CASE Recv(p)
  <2>1. p \in Receivers \ Selecting /\ Enlist(p) /\ ~closed /\ pc' = [pc EXCEPT ![p] = "check"]
    BY <1>2, <1>4, <1>5, <1>10 DEF Recv
  <2>. QED
    BY <1>1, <2>1, Sides
<1>11. CASE Select(p)
  <2>1. ~quit /\ pc' = [pc EXCEPT ![p] = "watch"] /\ waiters' = [waiters EXCEPT !["other"] = Append(@, p)]
    BY <1>2, <1>4, <1>5, <1>11 DEF Select
  <2>. QED
    BY <1>1, <2>1 DEF Side
<1>12. CASE Watch(p)
  <2>1. pc[p] = "watch" /\ Enlist(p) /\ ~closed /\ pc' = [pc EXCEPT ![p] = "check"]
    BY <1>2, <1>5, <1>12 DEF Watch
  <2>2. ~Handing(p)
    BY <1>1, <2>1, Names DEF Places, Hands, Waits, Tokens, Withdraws, Ends
  <2>. QED
    BY <1>1, <2>1, <2>2
<1>13. CASE Ready(p)
  <2>1. pc' = pc /\ pc[p] = "ready"
    BY <1>2, <1>4, <1>5, <1>13 DEF Ready
  <2>. QED
    BY <1>5, <2>1
<1>14. ~(SelectEnds(p) \/ ForgetWatch(p) \/ Wait(p) \/ ForgetTimeout(p) \/ ForgetCancelled(p) \/ CancelForget(p)
          \/ PassOn(p))
  BY <1>2, <1>4, <1>5 DEF SelectEnds, ForgetWatch, Wait, ForgetTimeout, ForgetCancelled, CancelForget, PassOn
<1>15. ~(Forget(p) \/ IsCancelled(p))
  BY <1>2, <1>4, <1>5, <1>6 DEF Forget, IsCancelled
<1>16. CASE Check(p)
  <2>1. GivesUp(p, "withdrawTimeout", "forgetTimeout") \in PCs \ Watching
    BY <1>5 DEF GivesUp
  <2>2. pc' = [pc EXCEPT ![p] = IF p \in Cancellable THEN "register" ELSE "wait"]
    BY <1>2, <1>16, <2>1 DEF Check
  <2>. QED
    BY <1>1, <1>16, <2>2 DEF Check, Waits
<1>17. CASE Register(p)
  <2>1. GivesUp(p, "withdrawCancelled", "forgetCancelled") \in PCs \ Watching
    BY <1>5 DEF GivesUp
  <2>2. pc' = [pc EXCEPT ![p] = "wait"] /\ ~cancelled /\ watchers' = Append(watchers, p)
    BY <1>2, <1>17, <2>1 DEF Register
  <2>. QED
    BY <1>1, <1>17, <2>2 DEF Register, Waits
<1>. QED
  BY <1>7, <1>8, <1>9, <1>10, <1>11, <1>12, <1>13, <1>14, <1>15, <1>16, <1>17 DEF Moves, Step

(* Whoever else waits can be found after a step of p.                      *)
LEMMA OthersFound ==
    ASSUME TypeOK, DInv, QueuesSound, Findable, NEW p \in Callers, Moves(p),
           NEW x \in Callers, x # p, ~InFlight(x)'
    PROVE  /\ pc'[x] \in Waits => InQueue(x)'
           /\ pc'[x] = "wait" /\ x \in Cancellable => AtToken(x)'
           /\ x \in Selecting /\ pc'[x] \in Waits \cup {"watch"} => AtOther(x)'
<1>1. ~InFlight(x) /\ ~Contains(toWake'[p], x) /\ pc'[x] = pc[x]
  BY FlightKept, OthersStay, Names DEF InFlight
<1>2. closed' = closed /\ quit' = quit /\ cancelled' = cancelled
  BY TokenShapes
<1>3. /\ Contains(handoff, x) => Contains(handoff', x)
      /\ \A s \in Side : Contains(waiters[s], x) => Contains(waiters'[s], x)
  BY <1>1, HandoffKept, Bystanders
<1>4. Contains(watchers, x) => Contains(watchers', x)
  <2>1. watchers \in Seq(Callers)
    BY DEF TypeOK
  <2>2. /\ Contains(watchers, x) => Contains(Append(watchers, p), x)
        /\ Contains(watchers, x) => Contains(RemoveFirst(watchers, p), x)
    BY <2>1, AppendFacts, RemoveFacts
  <2>. QED
    BY <2>2, TokenShapes
<1>5. side(x) \in Side /\ "other" \in Side
  BY DEF side, Side
<1>6. InQueue(x) => InQueue(x)'
  BY <1>2, <1>3, <1>5 DEF InQueue
<1>7. AtToken(x) => AtToken(x)'
  BY <1>2, <1>4 DEF AtToken
<1>8. AtOther(x) => AtOther(x)'
  BY <1>2, <1>3, <1>5 DEF AtOther
<1>. QED
  BY <1>1, <1>6, <1>7, <1>8 DEF Findable

(* Who comes to wait can be found.                                         *)
LEMMA ItselfFound ==
    ASSUME TypeOK, DInv, QueuesSound, Findable, NEW p \in Callers, Moves(p), ~InFlight(p)'
    PROVE  /\ pc'[p] \in Waits => InQueue(p)'
           /\ pc'[p] = "wait" /\ p \in Cancellable => AtToken(p)'
           /\ p \in Selecting /\ pc'[p] \in Waits \cup {"watch"} => AtOther(p)'
<1>. SUFFICES ASSUME pc'[p] \in Watching
              PROVE  /\ pc'[p] \in Waits => InQueue(p)'
                     /\ pc'[p] = "wait" /\ p \in Cancellable => AtToken(p)'
                     /\ p \in Selecting /\ pc'[p] \in Waits \cup {"watch"} => AtOther(p)'
  BY DEF Watching, Waits
<1>1. ~InFlight(p)
  BY FlightKept
<1>2. closed' = closed /\ quit' = quit /\ cancelled' = cancelled
  BY TokenShapes
<1>3. /\ waiters \in [Side -> Seq(Callers)] /\ side(p) \in Side \ {"other"} /\ watchers \in Seq(Callers)
      /\ "other" \in Side
  BY DEF TypeOK, side, Side
<1>4. \A s \in Seq(Callers) : Contains(Append(s, p), p)
  BY AppendFacts
<1>5. Handing(p) => p \notin Selecting
  BY Names
<1>6. CASE pc'[p] = "watch" /\ ~quit /\ waiters'["other"] = Append(waiters["other"], p)
  <2>1. AtOther(p)'
    BY <1>2, <1>3, <1>4, <1>6 DEF AtOther
  <2>. QED
    BY <1>6, <2>1 DEF Waits
<1>7. CASE pc'[p] = "check" /\ ~closed /\ Enlist(p) /\ ~Handing(p) /\ (p \in Selecting => pc[p] = "watch")
  <2>1. waiters'[side(p)] = Append(waiters[side(p)], p) /\ waiters'["other"] = waiters["other"]
    BY <1>3, <1>7 DEF Enlist
  <2>2. InQueue(p)'
    BY <1>2, <1>3, <1>4, <1>7, <2>1 DEF InQueue, Handing
  <2>3. p \in Selecting => AtOther(p)'
    BY <1>1, <1>2, <1>7, <2>1 DEF Findable, AtOther
  <2>. QED
    BY <1>7, <2>2, <2>3
<1>8. CASE pc'[p] = "check" /\ Handing(p) /\ Contains(handoff, p) /\ ~closed /\ UNCHANGED <<handoff, waiters>>
  BY <1>2, <1>5, <1>8 DEF InQueue, Handing
<1>9. CASE /\ pc[p] \in Waits /\ pc'[p] \in Waits /\ UNCHANGED <<handoff, waiters>>
           /\ pc'[p] = "wait" /\ p \in Cancellable => ~cancelled /\ watchers' = Append(watchers, p)
  <2>1. InQueue(p)'
    BY <1>1, <1>2, <1>9 DEF Findable, InQueue, Handing
  <2>2. p \in Selecting => AtOther(p)'
    BY <1>1, <1>2, <1>9 DEF Findable, AtOther
  <2>3. pc'[p] = "wait" /\ p \in Cancellable => AtToken(p)'
    BY <1>2, <1>3, <1>4, <1>9 DEF AtToken
  <2>. QED
    BY <2>1, <2>2, <2>3
<1>. QED
  BY <1>6, <1>7, <1>8, <1>9, WaitEntries

(* What close and cancel take out of the queues is on its way.             *)
LEMMA EndFlight ==
    ASSUME TypeOK, Close \/ CloseOther \/ Cancel, NEW x \in Callers, InFlight(x)
    PROVE  InFlight(x)'
<1>1. CASE x \in pending
  <2>1. pending' = pending
    BY DEF Close, CloseOther, Cancel
  <2>. QED
    BY <1>1, <2>1 DEF InFlight
<1>2. CASE x \notin pending
  <2>1. PICK q \in Procs : Contains(toWake[q], x)
    BY <1>2 DEF InFlight
  <2>2. toWake'[q] = toWake[q]
    <3>1. toWake \in [Procs -> Seq(Callers \cup {Nobody})] /\ toWake[q] # <<>>
      BY <2>1, EmptyFacts DEF TypeOK
    <3>. QED
      BY <3>1 DEF Close, CloseOther, Cancel, At
  <2>. QED
    BY <2>1, <2>2 DEF InFlight
<1>. QED
  BY <1>1, <1>2

(* Whoever waits when the channel is closed is called.                     *)
LEMMA CloseFound ==
    ASSUME TypeOK, DInv, Findable, Close
    PROVE  Findable'
<1>. SUFFICES ASSUME NEW x \in Callers, ~InFlight(x)'
              PROVE  /\ pc'[x] \in Waits => InQueue(x)'
                     /\ pc'[x] = "wait" /\ x \in Cancellable => AtToken(x)'
                     /\ x \in Selecting /\ pc'[x] \in Waits \cup {"watch"} => AtOther(x)'
  BY DEF Findable
<1>1. ~InFlight(x)
  BY EndFlight
<1>2. /\ waiters \in [Side -> Seq(Callers)] /\ Closer \in Procs /\ x # Nobody
      /\ toWake \in [Procs -> Seq(Callers \cup {Nobody})]
      /\ waiters["reader"] \in Seq(Callers \cup {Nobody}) /\ waiters["writer"] \in Seq(Callers \cup {Nobody})
      /\ handoff \in Seq(Callers \cup {Nobody})
  BY Names, Sides, Widened DEF TypeOK
<1>3. /\ toWake'[Closer] = waiters["reader"] \o waiters["writer"] \o handoff
      /\ waiters'["other"] = waiters["other"] /\ pc' = pc /\ quit' = quit /\ cancelled' = cancelled
      /\ watchers' = watchers
  BY <1>2 DEF Close, token, Side
<1>4. \A y : Contains(toWake'[Closer], y) <=>
               Contains(waiters["reader"], y) \/ Contains(waiters["writer"], y) \/ Contains(handoff, y)
  <2>. DEFINE S == Callers \cup {Nobody}
              queues == waiters["reader"] \o waiters["writer"]
  <2>1. waiters["reader"] \in Seq(S) /\ waiters["writer"] \in Seq(S) /\ handoff \in Seq(S)
    BY <1>2
  <2>2. toWake'[Closer] = queues \o handoff
    BY <1>3
  <2>. HIDE DEF S
  <2>3. /\ queues \in Seq(S)
        /\ \A y : Contains(queues, y) <=> Contains(waiters["reader"], y) \/ Contains(waiters["writer"], y)
    BY <2>1, ConcatFacts
  <2>. HIDE DEF queues
  <2>4. \A y : Contains(queues \o handoff, y) <=> Contains(queues, y) \/ Contains(handoff, y)
    BY ONLY <2>1, <2>3, ConcatFacts
  <2>. QED
    BY <2>2, <2>3, <2>4
<1>5. ~Contains(toWake'[Closer], x)
  BY <1>2 DEF InFlight
<1>6. ~InQueue(x)
  BY <1>4, <1>5 DEF InQueue, side
<1>7. pc'[x] \notin Waits
  BY <1>1, <1>3, <1>6 DEF Findable
<1>. QED
  BY <1>1, <1>3, <1>7 DEF Findable, AtOther, AtToken, Waits

(* Whoever waits can be found, whatever happens.                           *)
LEMMA FoundStep ==
    ASSUME TypeOK, DInv, QueuesSound, Findable, [Next]_vars
    PROVE  Findable'
<1>1. CASE \E p \in Callers : Moves(p)
  BY <1>1, OthersFound, ItselfFound DEF Findable
<1>2. CASE Close
  BY <1>2, CloseFound
<1>3. CASE CloseOther
  <2>1. /\ waiters' = [waiters EXCEPT !["other"] = <<>>] /\ toWake'[Closer] = waiters["other"]
        /\ UNCHANGED <<handoff, closed, pc, cancelled, watchers>>
    BY <1>3, Names DEF CloseOther, TypeOK
  <2>2. ASSUME NEW x \in Callers, ~InFlight(x)'
        PROVE  /\ pc'[x] \in Waits => InQueue(x)'
               /\ pc'[x] = "wait" /\ x \in Cancellable => AtToken(x)'
               /\ x \in Selecting /\ pc'[x] \in Waits \cup {"watch"} => AtOther(x)'
    <3>1. ~InFlight(x) /\ ~Contains(waiters["other"], x)
      BY <1>3, <2>1, <2>2, EndFlight, Names DEF InFlight
    <3>2. waiters'[side(x)] = waiters[side(x)]
      BY <2>1 DEF TypeOK, side, Side
    <3>3. InQueue(x) => InQueue(x)'
      BY <2>1, <3>2 DEF InQueue, Handing
    <3>4. AtToken(x) => AtToken(x)'
      BY <2>1 DEF AtToken
    <3>5. ~AtOther(x)
      BY <3>1 DEF AtOther
    <3>. QED
      BY <2>1, <3>1, <3>3, <3>4, <3>5 DEF Findable
  <2>. QED
    BY <2>2 DEF Findable
<1>4. CASE Cancel
  <2>1. /\ toWake'[Canceller] = watchers
        /\ UNCHANGED <<handoff, closed, waiters, pc, quit>>
    BY <1>4, Names DEF Cancel, TypeOK, chan
  <2>2. ASSUME NEW x \in Callers, ~InFlight(x)'
        PROVE  /\ pc'[x] \in Waits => InQueue(x)'
               /\ pc'[x] = "wait" /\ x \in Cancellable => AtToken(x)'
               /\ x \in Selecting /\ pc'[x] \in Waits \cup {"watch"} => AtOther(x)'
    <3>1. ~InFlight(x) /\ ~Contains(watchers, x)
      BY <1>4, <2>1, <2>2, EndFlight, Names DEF InFlight
    <3>2. (InQueue(x) => InQueue(x)') /\ (AtOther(x) => AtOther(x)')
      BY <2>1 DEF InQueue, Handing, AtOther
    <3>3. ~AtToken(x)
      BY <3>1 DEF AtToken
    <3>. QED
      BY <2>1, <3>1, <3>2, <3>3 DEF Findable
  <2>. QED
    BY <2>2 DEF Findable
<1>5. ASSUME UNCHANGED <<handoff, closed, waiters, pc, quit, cancelled, watchers>>,
             \A x \in Callers : InFlight(x) => InFlight(x)'
      PROVE  Findable'
  BY <1>5 DEF Findable, InQueue, AtToken, AtOther, Handing
<1>6. CASE \E q \in Procs : Wake(q)
  <2>1. PICK q \in Procs : Wake(q)
    BY <1>6
  <2>2. /\ toWake \in [Procs -> Seq(Callers \cup {Nobody})]
        /\ toWake' = [toWake EXCEPT ![q] = Tail(toWake[q])] /\ toWake[q] # <<>>
        /\ toWake[q] \in Seq(Callers \cup {Nobody})
        /\ pending' = pending \cup ({Head(toWake[q])} \ {Nobody})
    BY <2>1 DEF Wake, TypeOK
  <2>3. ASSUME NEW x \in Callers, InFlight(x)
        PROVE  InFlight(x)'
    <3>1. CASE x \in pending
      BY <2>2, <3>1 DEF InFlight
    <3>2. CASE x \notin pending
      <4>1. PICK r \in Procs : Contains(toWake[r], x)
        BY <2>3, <3>2 DEF InFlight
      <4>2. CASE r # q
        <5>1. toWake'[r] = toWake[r]
          BY <2>2, <4>2
        <5>. QED
          BY <4>1, <5>1 DEF InFlight
      <4>3. CASE r = q
        <5>1. Contains(Tail(toWake[q]), x) \/ x = Head(toWake[q])
          BY <2>2, <4>1, <4>3, TailFacts
        <5>2. toWake'[q] = Tail(toWake[q]) /\ x # Nobody
          BY <2>2, Names
        <5>. QED
          BY <2>2, <5>1, <5>2 DEF InFlight
      <4>. QED
        BY <4>2, <4>3
    <3>. QED
      BY <3>1, <3>2
  <2>4. UNCHANGED <<handoff, closed, waiters, pc, quit, cancelled, watchers>>
    BY <2>1 DEF Wake, chan, token
  <2>. QED
    BY <1>5, <2>3, <2>4
<1>7. CASE (\E p \in Callers : TimePasses(p)) \/ Done \/ UNCHANGED vars
  <2>1. UNCHANGED <<handoff, closed, waiters, pc, quit, cancelled, watchers, pending, toWake>>
    BY <1>7 DEF TimePasses, Done, vars, chan, token
  <2>. QED
    BY <1>5, <2>1 DEF InFlight
<1>. QED
  BY <1>1, <1>2, <1>3, <1>4, <1>6, <1>7 DEF Next, Moves

-----------------------------------------------------------------------------
(* Queues are sound and callers found in every state.                      *)
LEMMA WakeInvariant == Spec => []WInv
<1>1. Init => QueuesSound /\ Findable
  <2>1. ASSUME Init
        PROVE  QueuesSound /\ Findable
    <3>1. /\ \A s \in Side : waiters[s] = <<>>
          /\ \A p \in Callers : pc[p] = "idle"
          /\ watchers = <<>>
      BY <2>1, Names DEF Init
    <3>2. QueuesSound
      BY <3>1, EmptyFacts DEF QueuesSound, Side
    <3>3. Findable
      BY <3>1 DEF Findable, Waits
    <3>. QED
      BY <3>2, <3>3
  <2>. QED
    BY <2>1
<1>2. TypeOK /\ DInv /\ QueuesSound /\ Findable /\ [Next]_vars => (QueuesSound /\ Findable)'
  BY SoundStep, FoundStep
<1>. QED
  BY <1>1, <1>2, DataInvariant, PTL DEF Spec, WInv

(* No caller sleeps where no wake finds it (`recv`, `reserve_slot`,        *)
(* `hand_over`, `select`, `close`, `cancel`), whatever the capacity and    *)
(* whoever calls.                                                          *)
THEOREM SleepersFound == Spec => []SleepersFindable
<1>1. WInv => SleepersFindable
  <2>1. ASSUME WInv, NEW p \in Callers, Asleep(p), ~InFlight(p)
        PROVE  InQueue(p) /\ (p \in Cancellable => AtToken(p)) /\ (p \in Selecting => AtOther(p))
    BY <2>1 DEF WInv, Findable, Asleep, At, Waits
  <2>. QED
    BY <2>1 DEF SleepersFindable, InQueue, AtToken, AtOther
<1>. QED
  BY <1>1, WakeInvariant, PTL

-----------------------------------------------------------------------------
(* Who was called                                                          *)

(* Sets of callers are finite.                                             *)
LEMMA CalledFinite ==
    ASSUME NEW S \in SUBSET Callers
    PROVE  IsFiniteSet(S) /\ Cardinality(S) \in Nat
  BY FS_Subset, FS_CardinalityType

(* Larger sets have more members.                                          *)
LEMMA CountMore ==
    ASSUME NEW S \in SUBSET Callers, NEW T \in SUBSET Callers, NEW p
    PROVE  /\ S \subseteq T => Cardinality(S) <= Cardinality(T)
           /\ S \ {p} \subseteq T => Cardinality(S) <= Cardinality(T) + 1
<1>1. /\ IsFiniteSet(S) /\ Cardinality(S) \in Nat /\ IsFiniteSet(T) /\ Cardinality(T) \in Nat
      /\ IsFiniteSet(S \ {p}) /\ Cardinality(S \ {p}) \in Nat
  BY CalledFinite
<1>2. S \subseteq T => Cardinality(S) <= Cardinality(T)
  BY <1>1, FS_Subset
<1>3. S \ {p} \subseteq T => Cardinality(S \ {p}) <= Cardinality(T)
  BY <1>1, FS_Subset
<1>4. Cardinality(S) <= Cardinality(S \ {p}) + 1
  <2>1. CASE p \in S
    BY <1>1, <2>1, OneLess
  <2>2. CASE p \notin S
    <3>1. S \ {p} = S
      BY <2>2
    <3>2. Cardinality(S \ {p}) = Cardinality(S)
      BY <3>1
    <3>. QED
      BY <1>1, <3>2
  <2>. QED
    BY <2>1, <2>2
<1>. QED
  BY <1>1, <1>2, <1>3, <1>4

(* A step of p leaves the others called.                                   *)
LEMMA OthersCalled ==
    ASSUME TypeOK, DInv, NEW p \in Callers, Moves(p), NEW s \in {"reader", "writer"}
    PROVE  Called(s) \ {p} \subseteq Called(s)'
<1>. SUFFICES ASSUME NEW x \in Called(s), x # p
              PROVE  x \in Called(s)'
  OBVIOUS
<1>1. x \in Callers /\ side(x) = s /\ pc[x] \in Comes(x) /\ ~Contains(waiters[s], x)
  BY DEF Called
<1>2. pc'[x] = pc[x] /\ (Contains(waiters'[s], x) => Contains(waiters[s], x))
  BY <1>1, OthersStay, Bystanders DEF Side
<1>. QED
  BY <1>1, <1>2 DEF Called

(* Who is taken out of a queue is called now, and was not.                 *)
LEMMA HeadCalled ==
    ASSUME TypeOK, DInv, QueuesSound, NEW p \in Callers, Moves(p), NEW s \in {"reader", "writer"},
           Patient(s), Pops(p, s), ~Contains(waiters[s], p)
    PROVE  \E h \in Callers \ {p} : h \notin Called(s) /\ h \in Called(s)'
<1>. DEFINE q == waiters[s]
            h == Head(q)
<1>1. q # <<>> /\ q \in Seq(Callers) /\ Once(q) /\ waiters'[s] = Tail(q)
  BY Sides DEF Pops, QueuesSound, TypeOK, Side
<1>2. h \in Callers /\ Contains(q, h) /\ ~Contains(Tail(q), h)
  BY <1>1, TailFacts
<1>3. h # p
  BY <1>2
<1>4. side(h) = s /\ pc[h] \in Queued
  BY <1>2, Sides DEF QueuesSound
<1>5. pc[h] # "forgetTimeout"
  <2>1. pc[h] \in Places(h)
    BY <1>2 DEF DInv, Placed
  <2>2. h \in Timed => h \in Selecting
    BY <1>4 DEF Patient
  <2>3. h \notin Timed => "forgetTimeout" \notin Places(h)
    BY DEF Places, Hands, Waits, Ends, Tokens, Withdraws
  <2>4. h \in Selecting => "forgetTimeout" \notin Places(h)
    BY DEF Places, Hands, Waits, Ends, Tokens, Withdraws
  <2>. QED
    BY <2>1, <2>2, <2>3, <2>4
<1>6. pc[h] \in Comes(h)
  BY <1>4, <1>5 DEF Comes, GivenUp, Queued, Waits
<1>7. h \notin Called(s)
  BY <1>2 DEF Called
<1>8. pc'[h] = pc[h]
  BY <1>2, <1>3, OthersStay
<1>9. h \in Called(s)'
  BY <1>1, <1>2, <1>4, <1>6, <1>8 DEF Called
<1>. QED
  BY <1>2, <1>3, <1>7, <1>9

(* How the number of the called changes                                    *)
LEMMA CalledCount ==
    ASSUME TypeOK, DInv, QueuesSound, NEW p \in Callers, Moves(p), NEW s \in {"reader", "writer"}
    PROVE  /\ Cardinality(Called(s)) \in Nat /\ Cardinality(Called(s)') \in Nat
           /\ Cardinality(Called(s)) <= Cardinality(Called(s)') + 1
           /\ (p \in Called(s) => p \in Called(s)')
                 => Cardinality(Called(s)) <= Cardinality(Called(s)')
           /\ Patient(s) /\ Pops(p, s) /\ ~Contains(waiters[s], p)
                 => /\ Cardinality(Called(s)) <= Cardinality(Called(s)')
                    /\ p \notin Called(s) => Cardinality(Called(s)) + 1 <= Cardinality(Called(s)')
<1>. DEFINE C == Called(s)
            D == Called(s)'
<1>1. C \in SUBSET Callers /\ D \in SUBSET Callers /\ C \ {p} \subseteq D
  BY OthersCalled DEF Called
<1>. HIDE DEF C, D
<1>2. IsFiniteSet(C) /\ Cardinality(C) \in Nat /\ IsFiniteSet(D) /\ Cardinality(D) \in Nat
  BY <1>1, CalledFinite
<1>3. Cardinality(C) <= Cardinality(D) + 1
  BY <1>1, CountMore
<1>4. ASSUME p \in C => p \in D
      PROVE  Cardinality(C) <= Cardinality(D)
  <2>1. C \subseteq D
    BY <1>1, <1>4
  <2>. QED
    BY <1>1, <2>1, CountMore
<1>5. ASSUME Patient(s), Pops(p, s), ~Contains(waiters[s], p)
      PROVE  Cardinality(C) <= Cardinality(D) /\ (p \notin C => Cardinality(C) + 1 <= Cardinality(D))
  <2>1. PICK h \in Callers \ {p} : h \notin C /\ h \in D
    BY <1>5, HeadCalled DEF C, D
  <2>2. /\ C \cup {h} \in SUBSET Callers /\ (C \cup {h}) \ {p} \subseteq D
        /\ Cardinality(C \cup {h}) = Cardinality(C) + 1
    BY <1>1, <1>2, <2>1, OneMore
  <2>. DEFINE E == C \cup {h}
  <2>3. E \in SUBSET Callers /\ E \ {p} \subseteq D /\ Cardinality(E) = Cardinality(C) + 1
    BY <2>2
  <2>. HIDE DEF E
  <2>4. Cardinality(E) <= Cardinality(D) + 1
    BY <1>1, <2>3, CountMore
  <2>5. ASSUME p \notin C
        PROVE  Cardinality(C) + 1 <= Cardinality(D)
    <3>1. E \subseteq D
      BY <1>1, <2>1, <2>5 DEF E
    <3>2. Cardinality(E) <= Cardinality(D)
      BY <1>1, <2>3, <3>1, CountMore
    <3>. QED
      BY <2>3, <3>2
  <2>. QED
    BY <1>2, <2>3, <2>4, <2>5
<1>. QED
  BY <1>2, <1>3, <1>4, <1>5 DEF C, D

-----------------------------------------------------------------------------
(* While receivers wait, every value has a receiver called for it          *)

(* What a step of a sender means to the receivers                          *)
LEMMA SenderKinds ==
    ASSUME TypeOK, DInv, NEW p \in Senders, Moves(p)
    PROVE  \/ Same("reader") /\ Len(items') <= Len(items)
           \/ PopWaker(p, "reader") /\ Len(items') = Len(items) + 1
<1>. USE DEF chan
<1>1. /\ p \in Callers /\ side(p) = "writer" /\ p \notin Receivers /\ pc[p] \in Places(p)
      /\ items \in Seq(Values) /\ Len(items) \in Nat
      /\ DOMAIN waiters = Side
  BY Names, Sides DEF DInv, Placed, TypeOK
<1>2. items' = items => Len(items') <= Len(items)
  BY <1>1
<1>3. waiters' = waiters \/ Enlist(p) \/ Delist(p) \/ PopWaker(p, "writer") => Same("reader")
  <2>1. \A e : [waiters EXCEPT !["writer"] = e]["reader"] = waiters["reader"]
    BY DEF TypeOK, Side
  <2>2. \A e : waiters' = [waiters EXCEPT !["writer"] = e] => Same("reader")
    BY <2>1 DEF Same
  <2>3. Enlist(p) => waiters' = [waiters EXCEPT !["writer"] = Append(waiters["writer"], p)]
    BY <1>1 DEF Enlist
  <2>4. Delist(p) => waiters' = [waiters EXCEPT !["writer"] = RemoveFirst(waiters["writer"], p)]
    BY <1>1 DEF Delist
  <2>5. PopWaker(p, "writer") => waiters' = waiters \/ waiters' = [waiters EXCEPT !["writer"] = Tail(waiters["writer"])]
    BY DEF PopWaker
  <2>. QED
    BY <2>2, <2>3, <2>4, <2>5 DEF Same
<1>4. items' = Append(items, value(p)) => Len(items') = Len(items) + 1
  BY <1>1
<1>5. CASE Send(p) \/ Push(p) \/ HandOver(p)
  <2>1. \/ items' = items /\ waiters' = waiters
        \/ items' = Append(items, value(p)) /\ PopWaker(p, "reader")
    BY <1>5 DEF Send, Push, HandOver
  <2>. QED
    BY <1>2, <1>3, <1>4, <2>1
<1>6. CASE TrySend(p) \/ Reserve(p) \/ Taken(p)
  <2>1. items' = items /\ (waiters' = waiters \/ Enlist(p))
    BY <1>6 DEF TrySend, Reserve, Taken
  <2>. QED
    BY <1>2, <1>3, <2>1
<1>7. CASE Withdraw(p)
  <2>1. waiters' = waiters
    BY <1>7 DEF Withdraw
  <2>2. Withdrawn(p) \/ Confirmed(p)
    BY <1>1, <1>7, WithdrawData DEF DInv
  <2>3. Confirmed(p) => items' = items
    BY DEF Confirmed
  <2>4. ASSUME Withdrawn(p)
        PROVE  Len(items') <= Len(items)
    <3>1. PICK i \in 1 .. Len(handoff) : i \in 1 .. Len(items) /\ items' = RemoveAt(items, i)
      BY <1>1, <2>4, WithdrawnFacts
    <3>2. Len(items') = Len(items) - 1
      BY <1>1, <3>1, RemovedAt
    <3>. QED
      BY <1>1, <3>2
  <2>. QED
    BY <1>2, <1>3, <2>1, <2>2, <2>3, <2>4
<1>8. CASE Recv(p) \/ TryRecv(p) \/ Select(p)
  BY <1>1, <1>8, Names DEF Recv, TryRecv, Select
<1>9. CASE Watch(p) \/ Ready(p) \/ SelectEnds(p) \/ ForgetWatch(p)
  <2>1. pc[p] \in {"watch", "ready", "selectEnd", "forgetWatch", "watchEnd"}
    BY <1>9 DEF Watch, Ready, SelectEnds, ForgetWatch, At
  <2>. QED
    BY <1>1, <2>1, Names DEF Places, Hands, Waits, Ends, Tokens, Withdraws
<1>10. CASE Check(p) \/ Register(p) \/ Wait(p) \/ ForgetTimeout(p) \/ ForgetCancelled(p) \/ CancelForget(p)
               \/ IsCancelled(p) \/ PassOn(p)
  <2>1. items' = items /\ (waiters' = waiters \/ Delist(p) \/ PopWaker(p, "writer"))
    BY <1>1, <1>10 DEF Check, Register, Wait, ForgetTimeout, ForgetCancelled, CancelForget, IsCancelled, PassOn
  <2>. QED
    BY <1>2, <1>3, <2>1
<1>11. CASE Forget(p)
  <2>1. items' = items /\ Delist(p)
    BY <1>1, <1>11, Names DEF Forget
  <2>. QED
    BY <1>2, <1>3, <2>1
<1>. QED
  BY <1>5, <1>6, <1>7, <1>8, <1>9, <1>10, <1>11 DEF Moves, Step

(* What a step of a receiver means to the receivers                        *)
LEMMA ReceiverKinds ==
    ASSUME TypeOK, DInv, QueuesSound, Patient("reader"), NEW p \in Receivers, Moves(p)
    PROVE  \/ items = <<>> /\ items' = items
           \/ closed
           \/ items # <<>> /\ TakeItem(p)
           \/ ~Contains(waiters["reader"], p) /\ PopWaker(p, "reader") /\ items' = items
           \/ /\ Same("reader") \/ Delist(p)
              /\ pc[p] \in Comes(p) /\ ~Contains(waiters["reader"], p) => pc'[p] \in Comes(p)
              /\ items' = items
<1>. USE DEF chan, Goto, GoOn, At, Idle
<1>1. /\ p \in Callers /\ side(p) = "reader" /\ p \notin Senders /\ pc[p] \in Places(p) /\ ~Handing(p)
      /\ DOMAIN waiters = Side
      /\ \A l : pc' = [pc EXCEPT ![p] = l] => pc'[p] = l
  BY Names, Sides DEF DInv, Placed, TypeOK
<1>2. waiters' = waiters \/ Unwatch(p) \/ waiters' = [waiters EXCEPT !["other"] = Append(@, p)] => Same("reader")
  BY <1>1 DEF Same, Unwatch, Side
<1>3. Comes(p) = {"check", "register", "wait", "forget", "forgetCancelled", "forgetWatch", "selectEnd", "watchEnd",
                  "recv", "reserve", "passOn"} \cup (IF p \in Selecting THEN {} ELSE {"cancelForget", "isCancelled"})
  BY DEF Comes, GivenUp, Queued, Waits
<1>4. CASE Recv(p) \/ TryRecv(p)
  <2>1. \/ items # <<>> /\ TakeItem(p)
        \/ items = <<>> /\ items' = items
    BY <1>4 DEF Recv, TryRecv
  <2>. QED
    BY <2>1
<1>5. CASE Select(p)
  <2>1. pc[p] \in {"idle", "select"} /\ items' = items /\ Same("reader")
    BY <1>2, <1>5 DEF Select
  <2>. QED
    BY <1>3, <2>1
<1>6. CASE Watch(p)
  <2>1. items' = items /\ (items = <<>> \/ (pc[p] = "watch" /\ Same("reader")))
    BY <1>2, <1>6 DEF Watch
  <2>. QED
    BY <1>3, <2>1
<1>7. CASE Ready(p)
  <2>1. \/ items # <<>> /\ TakeItem(p)
        \/ items = <<>> /\ items' = items
        \/ items' = items /\ Unwatch(p) /\ pc[p] = "ready"
    BY <1>7 DEF Ready
  <2>. QED
    BY <1>2, <1>3, <2>1
<1>8. CASE SelectEnds(p)
  <2>1. items' = items /\ Unwatch(p) /\ pc' = [pc EXCEPT ![p] = "watchEnd"]
    BY <1>8 DEF SelectEnds
  <2>. QED
    BY <1>1, <1>2, <1>3, <2>1
<1>9. CASE ForgetWatch(p)
  <2>1. /\ items' = items
        /\ \/ Contains(waiters["reader"], p) /\ Delist(p)
           \/ ~Contains(waiters["reader"], p) /\ PopWaker(p, "reader")
           \/ items = <<>>
    BY <1>9 DEF ForgetWatch
  <2>. QED
    BY <2>1
<1>10. CASE Check(p)
  <2>1. items' = items /\ waiters' = waiters
    BY <1>10 DEF Check
  <2>2. p \in late => p \in Selecting
    BY <1>1 DEF Patient, TypeOK
  <2>3. \E l \in {"selectEnd", "register", "wait"} : pc' = [pc EXCEPT ![p] = l]
    BY <1>1, <1>10, <2>2 DEF Check, GivesUp
  <2>. QED
    BY <1>1, <1>2, <1>3, <2>1, <2>3
<1>11. CASE Register(p)
  <2>1. items' = items /\ waiters' = waiters
    BY <1>11 DEF Register
  <2>2. \E l \in {"selectEnd", "forgetCancelled", "wait"} : pc' = [pc EXCEPT ![p] = l]
    BY <1>1, <1>11 DEF Register, GivesUp
  <2>. QED
    BY <1>1, <1>2, <1>3, <2>1, <2>2
<1>12. CASE Wait(p)
  <2>1. items' = items /\ waiters' = waiters /\ pc' = [pc EXCEPT ![p] = "forget"]
    BY <1>1, <1>12 DEF Wait
  <2>. QED
    BY <1>1, <1>2, <1>3, <2>1
<1>13. CASE Forget(p)
  <2>1. items' = items /\ (Delist(p) \/ Unwatch(p))
    BY <1>13 DEF Forget
  <2>2. \E l \in {"forgetWatch", "recv", "cancelForget"} : pc' = [pc EXCEPT ![p] = l] /\ (l = "cancelForget" => p \notin Selecting)
    BY <1>1, <1>13 DEF Forget, Top
  <2>. QED
    BY <1>1, <1>2, <1>3, <2>1, <2>2
<1>14. ~ForgetTimeout(p)
  <2>1. p \in Timed => p \in Selecting
    BY <1>1 DEF Patient
  <2>2. pc[p] # "forgetTimeout"
    BY <1>1, <2>1 DEF Places, Hands, Waits, Ends, Tokens, Withdraws
  <2>. QED
    BY <2>2 DEF ForgetTimeout
<1>15. CASE ForgetCancelled(p)
  <2>1. items' = items /\ Delist(p) /\ pc' = [pc EXCEPT ![p] = "passOn"]
    BY <1>15 DEF ForgetCancelled
  <2>. QED
    BY <1>1, <1>3, <2>1
<1>16. CASE CancelForget(p)
  <2>1. items' = items /\ waiters' = waiters /\ pc[p] = "cancelForget" /\ pc' = [pc EXCEPT ![p] = "isCancelled"]
    BY <1>16 DEF CancelForget
  <2>. QED
    BY <1>1, <1>2, <1>3, <2>1
<1>17. CASE IsCancelled(p)
  <2>1. items' = items /\ waiters' = waiters /\ pc[p] = "isCancelled"
    BY <1>17 DEF IsCancelled
  <2>2. p \notin Selecting => \E l \in {"passOn", "recv"} : pc' = [pc EXCEPT ![p] = l]
    BY <1>1, <1>17 DEF IsCancelled, Top
  <2>. QED
    BY <1>1, <1>2, <1>3, <2>1, <2>2
<1>18. CASE PassOn(p)
  <2>1. items' = items /\ (PopWaker(p, "reader") \/ items = <<>>) /\ pc[p] = "passOn"
    BY <1>1, <1>18 DEF PassOn
  <2>2. ~Contains(waiters["reader"], p)
    BY <1>1, <2>1, NotQueued DEF Queued, Waits
  <2>. QED
    BY <2>1, <2>2
<1>19. CASE Send(p) \/ TrySend(p) \/ HandOver(p)
  BY <1>1, <1>19 DEF Send, TrySend, HandOver
<1>20. CASE Reserve(p) \/ Push(p) \/ Taken(p) \/ Withdraw(p)
  <2>1. pc[p] \in {"reserve", "push", "taken", "withdrawClosed", "withdrawTimeout", "withdrawCancelled"}
    BY <1>20 DEF Reserve, Push, Taken, Withdraw
  <2>. QED
    BY <1>1, <2>1, Names DEF Places, Hands, Waits, Ends, Tokens, Withdraws
<1>. QED
  BY <1>4, <1>5, <1>6, <1>7, <1>8, <1>9, <1>10, <1>11, <1>12, <1>13, <1>14, <1>15, <1>16, <1>17, <1>18, <1>19, <1>20
     DEF Moves, Step

(* A step of a caller leaves enough receivers called.                      *)
LEMMA MoveReaders ==
    ASSUME TypeOK, DInv, QueuesSound, ReadersCalled, NEW p \in Callers, Moves(p), Patient("reader"),
           waiters'["reader"] # <<>>
    PROVE  Len(items') <= Cardinality(Called("reader")')
<1>. DEFINE q == waiters["reader"]
            c == Cardinality(Called("reader"))
            d == Cardinality(Called("reader")')
<1>1. /\ q \in Seq(Callers) /\ Once(q) /\ items \in Seq(Values) /\ Len(items) \in Nat
      /\ DOMAIN waiters = Side /\ toWake[p] = <<>> /\ closed' = closed
  <2>1. toWake[p] = <<>> /\ closed' = closed
    BY QueueShapes, TokenShapes
  <2>2. items \in Seq(Values) /\ Len(items) \in Nat
    BY DEF TypeOK
  <2>. QED
    BY <2>1, <2>2, Sides DEF QueuesSound
<1>2. /\ c \in Nat /\ d \in Nat /\ c <= d + 1
      /\ (p \in Called("reader") => p \in Called("reader")') => c <= d
      /\ Pops(p, "reader") /\ ~Contains(q, p) => c <= d /\ (p \notin Called("reader") => c + 1 <= d)
  BY CalledCount
<1>3. q # <<>> => Len(items) <= c
  BY DEF ReadersCalled
<1>4. ~closed
  BY <1>1, MoveSound DEF QueuesSound
<1>5. ASSUME PopWaker(p, "reader")
      PROVE  Pops(p, "reader") /\ q # <<>>
  BY <1>1, <1>5 DEF PopWaker, Pops
<1>. HIDE DEF c, d
<1>6. CASE p \in Senders
  <2>1. p \notin Called("reader") /\ ~Contains(q, p)
    BY <1>6, Names, Sides DEF Called, QueuesSound
  <2>2. CASE Same("reader") /\ Len(items') <= Len(items)
    <3>1. q # <<>> /\ Len(items') \in Nat
      BY <2>2, TypeStep DEF Same, TypeOK
    <3>. QED
      BY <1>1, <1>2, <1>3, <2>1, <2>2, <3>1 DEF d
  <2>3. CASE PopWaker(p, "reader") /\ Len(items') = Len(items) + 1
    BY <1>1, <1>2, <1>3, <1>5, <2>1, <2>3 DEF d
  <2>. QED
    BY <1>6, <2>2, <2>3, SenderKinds
<1>7. CASE p \in Receivers
  <2>1. p \in Callers /\ side(p) = "reader"
    BY <1>7, Sides
  <2>2. CASE items = <<>> /\ items' = items
    BY <1>2, <2>2 DEF d
  <2>3. CASE items # <<>> /\ TakeItem(p)
    <3>1. items' = Tail(items)
      BY <2>3 DEF TakeItem
    <3>2. Len(items') = Len(items) - 1
      BY <1>1, <2>3, <3>1, TailFacts
    <3>3. q # <<>>
      <4>1. Capacity = 0 => waiters' = waiters
        BY <2>3 DEF TakeItem
      <4>2. Capacity # 0 => PopWaker(p, "writer")
        BY <2>3 DEF TakeItem
      <4>3. PopWaker(p, "writer") => waiters'["reader"] = q
        BY DEF PopWaker, TypeOK, Side
      <4>. QED
        BY <4>1, <4>2, <4>3
    <3>. QED
      BY <1>1, <1>2, <1>3, <3>2, <3>3 DEF d
  <2>4. CASE ~Contains(waiters["reader"], p) /\ PopWaker(p, "reader") /\ items' = items
    BY <1>1, <1>2, <1>3, <1>5, <2>4 DEF d
  <2>5. CASE /\ Same("reader") \/ Delist(p)
             /\ pc[p] \in Comes(p) /\ ~Contains(waiters["reader"], p) => pc'[p] \in Comes(p)
             /\ items' = items
    <3>1. waiters'["reader"] \in {q, RemoveFirst(q, p)}
      BY <1>1, <2>1, <2>5 DEF Same, Delist, Side
    <3>2. Contains(waiters'["reader"], p) => Contains(q, p)
      BY <1>1, <3>1, RemoveFacts
    <3>3. q # <<>>
      BY <3>1, NoneRemoved
    <3>4. p \in Called("reader") => p \in Called("reader")'
      BY <2>1, <2>5, <3>2 DEF Called
    <3>. QED
      BY <1>1, <1>2, <1>3, <2>5, <3>3, <3>4 DEF d
  <2>. QED
    BY <1>4, <1>7, <2>2, <2>3, <2>4, <2>5, ReceiverKinds
<1>. QED
  BY <1>6, <1>7, Names

(* Nothing of this changes in other steps, except that queues are emptied. *)
LEMMA EndQueues ==
    ASSUME TypeOK, [Next]_vars, ~\E p \in Callers : Moves(p), NEW s \in {"reader", "writer"}, waiters'[s] # <<>>
    PROVE  waiters'[s] = waiters[s] /\ UNCHANGED <<items, reserved, pc>>
<1>1. ~Close
  BY DEF Close, TypeOK, Side
<1>2. CASE CloseOther
  BY <1>2 DEF CloseOther, TypeOK, Side
<1>3. CASE Cancel \/ (\E p \in Callers : TimePasses(p)) \/ (\E p \in Procs : Wake(p)) \/ Done \/ UNCHANGED vars
  BY <1>3 DEF Cancel, TimePasses, Wake, Done, vars, chan
<1>. QED
  BY <1>1, <1>2, <1>3 DEF Next, Moves

(* Enough receivers stay called.                                           *)
LEMMA ReadersStep ==
    ASSUME TypeOK, DInv, QueuesSound, ReadersCalled, [Next]_vars
    PROVE  ReadersCalled'
<1>. SUFFICES ASSUME Patient("reader"), waiters'["reader"] # <<>>
              PROVE  Len(items') <= Cardinality(Called("reader")')
  BY DEF ReadersCalled, Patient, side
<1>1. CASE \E p \in Callers : Moves(p)
  BY <1>1, MoveReaders
<1>2. CASE ~\E p \in Callers : Moves(p)
  <2>1. waiters'["reader"] = waiters["reader"] /\ items' = items /\ pc' = pc
    BY <1>2, EndQueues
  <2>2. Called("reader")' = Called("reader")
    BY <2>1 DEF Called
  <2>. QED
    BY <2>1, <2>2 DEF ReadersCalled
<1>. QED
  BY <1>1, <1>2

-----------------------------------------------------------------------------
(* While senders wait, every free slot has a sender called for it          *)

Load == Len(items) + reserved

(* What a step of a receiver means to the senders                          *)
LEMMA ReceiverRooms ==
    ASSUME TypeOK, DInv, NEW p \in Receivers, Moves(p), Capacity > 0
    PROVE  \/ Same("writer") /\ items' = items /\ reserved' = reserved
           \/ PopWaker(p, "writer") /\ Len(items') = Len(items) - 1 /\ reserved' = reserved
<1>. USE DEF chan
<1>1. /\ p \in Callers /\ side(p) = "reader" /\ p \notin Senders /\ pc[p] \in Places(p)
      /\ items \in Seq(Values) /\ Capacity # 0
  BY Names, Sides DEF DInv, Placed, TypeOK
<1>2. waiters' = waiters \/ Enlist(p) \/ Delist(p) \/ PopWaker(p, "reader") \/ Unwatch(p) => Same("writer")
  <2>1. \A s \in {"reader", "other"} : \A e : [waiters EXCEPT ![s] = e]["writer"] = waiters["writer"]
    BY DEF TypeOK, Side
  <2>2. \A s \in {"reader", "other"} : \A e : waiters' = [waiters EXCEPT ![s] = e] => Same("writer")
    BY <2>1 DEF Same
  <2>3. Enlist(p) => waiters' = [waiters EXCEPT !["reader"] = Append(waiters["reader"], p)]
    BY <1>1 DEF Enlist
  <2>4. Delist(p) => waiters' = [waiters EXCEPT !["reader"] = RemoveFirst(waiters["reader"], p)]
    BY <1>1 DEF Delist
  <2>5. PopWaker(p, "reader") => waiters' = waiters \/ waiters' = [waiters EXCEPT !["reader"] = Tail(waiters["reader"])]
    BY DEF PopWaker
  <2>6. Unwatch(p) => waiters' = [waiters EXCEPT !["other"] = RemoveFirst(waiters["other"], p)]
    BY DEF Unwatch
  <2>. QED
    BY <2>2, <2>3, <2>4, <2>5, <2>6 DEF Same
<1>3. ASSUME items # <<>>, TakeItem(p)
      PROVE  PopWaker(p, "writer") /\ Len(items') = Len(items) - 1
  <2>1. PopWaker(p, "writer") /\ items' = Tail(items)
    BY <1>1, <1>3 DEF TakeItem
  <2>. QED
    BY <1>1, <1>3, <2>1, TailFacts
<1>4. CASE Recv(p) \/ TryRecv(p) \/ Ready(p)
  <2>1. /\ reserved' = reserved
        /\ \/ items # <<>> /\ TakeItem(p)
           \/ items' = items /\ (waiters' = waiters \/ Enlist(p) \/ Unwatch(p))
    BY <1>4 DEF Recv, TryRecv, Ready
  <2>. QED
    BY <1>2, <1>3, <2>1
<1>5. CASE Select(p)
  <2>1. items' = items /\ reserved' = reserved
    BY <1>5 DEF Select
  <2>2. waiters' = waiters \/ waiters' = [waiters EXCEPT !["other"] = Append(@, p)]
    BY <1>5 DEF Select
  <2>. QED
    BY <2>1, <2>2 DEF Same, TypeOK, Side
<1>6. CASE Watch(p) \/ SelectEnds(p) \/ ForgetWatch(p)
  <2>1. /\ items' = items /\ reserved' = reserved
        /\ waiters' = waiters \/ Enlist(p) \/ Unwatch(p) \/ Delist(p) \/ PopWaker(p, "reader")
    BY <1>6 DEF Watch, SelectEnds, ForgetWatch
  <2>. QED
    BY <1>2, <2>1
<1>7. CASE Check(p) \/ Register(p) \/ Wait(p) \/ Forget(p) \/ ForgetTimeout(p) \/ ForgetCancelled(p)
              \/ CancelForget(p) \/ IsCancelled(p) \/ PassOn(p)
  <2>1. /\ items' = items /\ reserved' = reserved
        /\ waiters' = waiters \/ Delist(p) \/ Unwatch(p) \/ PopWaker(p, "reader")
    BY <1>1, <1>7
       DEF Check, Register, Wait, Forget, ForgetTimeout, ForgetCancelled, CancelForget, IsCancelled, PassOn
  <2>. QED
    BY <1>2, <2>1
<1>8. CASE Send(p) \/ TrySend(p) \/ HandOver(p)
  BY <1>1, <1>8 DEF Send, TrySend, HandOver, Handing
<1>9. CASE Reserve(p) \/ Push(p) \/ Taken(p) \/ Withdraw(p)
  <2>1. pc[p] \in {"reserve", "push", "taken", "withdrawClosed", "withdrawTimeout", "withdrawCancelled"}
    BY <1>9 DEF Reserve, Push, Taken, Withdraw, At
  <2>. QED
    BY <1>1, <2>1, Names DEF Places, Hands, Waits, Ends, Tokens, Withdraws
<1>. QED
  BY <1>4, <1>5, <1>6, <1>7, <1>8, <1>9 DEF Moves, Step

(* What a step of a sender means to the senders                            *)
LEMMA SenderRooms ==
    ASSUME TypeOK, DInv, QueuesSound, Patient("writer"), NEW p \in Senders, Moves(p), Capacity > 0
    PROVE  \/ closed
           \/ Load >= Capacity /\ Load' = Load
           \/ Load' = Load + 1 /\ Same("writer")
           \/ ~Contains(waiters["writer"], p) /\ PopWaker(p, "writer") /\ Load' = Load
           \/ /\ Same("writer") \/ Delist(p)
              /\ pc[p] \in Comes(p) /\ ~Contains(waiters["writer"], p) => pc'[p] \in Comes(p)
              /\ Load' = Load
<1>. USE DEF chan, Goto, GoOn, At, Idle
<1>1. /\ p \in Callers /\ side(p) = "writer" /\ p \notin Receivers /\ p \notin Selecting
      /\ pc[p] \in Places(p) /\ ~Handing(p) /\ Capacity # 0 /\ Capacity \in Nat
      /\ p \notin Timed /\ p \notin late
      /\ \A l : pc' = [pc EXCEPT ![p] = l] => pc'[p] = l
  <2>1. /\ p \in Callers /\ side(p) = "writer" /\ p \notin Receivers /\ p \notin Selecting
        /\ ~Handing(p) /\ Capacity # 0 /\ Capacity \in Nat
    BY Names, Sides
  <2>2. p \notin Timed /\ p \notin late
    BY <2>1 DEF Patient, TypeOK
  <2>. QED
    BY <2>1, <2>2, Names DEF DInv, Placed, TypeOK
<1>2. /\ items \in Seq(Values) /\ Len(items) \in Nat /\ reserved \in Nat
      /\ \A e : Len(Append(items, e)) = Len(items) + 1
  BY DEF TypeOK
<1>3. waiters' = waiters => Same("writer")
  BY DEF Same
<1>4. PopWaker(p, "reader") => Same("writer")
  BY DEF PopWaker, Same, TypeOK, Side
<1>5. Comes(p) = {"check", "register", "wait", "forget", "forgetCancelled", "forgetWatch", "selectEnd", "watchEnd",
                  "recv", "reserve", "passOn", "cancelForget", "isCancelled"}
  BY <1>1 DEF Comes, GivenUp, Queued, Waits
<1>6. ~Room => Load >= Capacity
  BY <1>1, <1>2 DEF Room, Load
<1>7. items' = items /\ reserved' = reserved => Load' = Load
  BY DEF Load
<1>8. CASE Send(p)
  <2>1. pc[p] = "idle"
    BY <1>8 DEF Send
  <2>2. \/ closed
        \/ items' = Append(items, value(p)) /\ reserved' = reserved /\ PopWaker(p, "reader")
        \/ items' = items /\ reserved' = reserved /\ waiters' = waiters
    BY <1>8 DEF Send
  <2>3. items' = Append(items, value(p)) /\ reserved' = reserved => Load' = Load + 1
    BY <1>2 DEF Load
  <2>. QED
    BY <1>3, <1>4, <1>5, <1>7, <2>1, <2>2, <2>3
<1>9. CASE TrySend(p)
  <2>1. pc[p] = "idle" /\ items' = items /\ waiters' = waiters
    BY <1>9 DEF TrySend
  <2>2. reserved' = reserved \/ reserved' = reserved + 1
    BY <1>9 DEF TrySend
  <2>3. items' = items /\ reserved' = reserved + 1 => Load' = Load + 1
    BY <1>2 DEF Load
  <2>. QED
    BY <1>3, <1>5, <1>7, <2>1, <2>2, <2>3
<1>10. CASE Reserve(p)
  <2>1. pc[p] = "reserve" /\ items' = items
    BY <1>10 DEF Reserve
  <2>2. \/ closed
        \/ reserved' = reserved + 1 /\ waiters' = waiters
        \/ ~Room /\ reserved' = reserved
    BY <1>10 DEF Reserve
  <2>3. items' = items /\ reserved' = reserved + 1 => Load' = Load + 1
    BY <1>2 DEF Load
  <2>. QED
    BY <1>3, <1>6, <1>7, <2>1, <2>2, <2>3
<1>11. CASE Push(p)
  <2>1. pc[p] = "push"
    BY <1>11 DEF Push
  <2>2. \/ closed
        \/ items' = Append(items, value(p)) /\ reserved' = reserved - 1 /\ PopWaker(p, "reader")
    BY <1>11 DEF Push
  <2>3. items' = Append(items, value(p)) /\ reserved' = reserved - 1 => Load' = Load
    BY <1>2 DEF Load
  <2>. QED
    BY <1>4, <1>5, <2>1, <2>2, <2>3
<1>12. CASE HandOver(p)
  BY <1>1, <1>12 DEF HandOver
<1>13. CASE Taken(p) \/ Withdraw(p)
  <2>1. pc[p] \in {"taken", "withdrawClosed", "withdrawTimeout", "withdrawCancelled"}
    BY <1>13 DEF Taken, Withdraw
  <2>. QED
    BY <1>1, <2>1, Names DEF Places, Hands, Waits, Ends, Tokens, Withdraws
<1>14. CASE Recv(p) \/ TryRecv(p) \/ Select(p)
  BY <1>1, <1>14, Names DEF Recv, TryRecv, Select
<1>15. CASE Watch(p) \/ Ready(p) \/ SelectEnds(p) \/ ForgetWatch(p) \/ ForgetTimeout(p)
  <2>1. pc[p] \in {"watch", "ready", "selectEnd", "forgetWatch", "watchEnd", "forgetTimeout"}
    BY <1>15 DEF Watch, Ready, SelectEnds, ForgetWatch, ForgetTimeout
  <2>. QED
    BY <1>1, <2>1, Names DEF Places, Hands, Waits, Ends, Tokens, Withdraws
<1>16. CASE Check(p)
  <2>1. items' = items /\ reserved' = reserved /\ waiters' = waiters
    BY <1>16 DEF Check
  <2>2. \E l \in {"register", "wait"} : pc' = [pc EXCEPT ![p] = l]
    BY <1>1, <1>16 DEF Check
  <2>. QED
    BY <1>1, <1>3, <1>5, <1>7, <2>1, <2>2
<1>17. CASE Register(p)
  <2>1. items' = items /\ reserved' = reserved /\ waiters' = waiters
    BY <1>17 DEF Register
  <2>2. \E l \in {"forgetCancelled", "wait"} : pc' = [pc EXCEPT ![p] = l]
    BY <1>1, <1>17 DEF Register, GivesUp
  <2>. QED
    BY <1>1, <1>3, <1>5, <1>7, <2>1, <2>2
<1>18. CASE Wait(p)
  <2>1. items' = items /\ reserved' = reserved /\ waiters' = waiters /\ pc' = [pc EXCEPT ![p] = "forget"]
    BY <1>1, <1>18 DEF Wait
  <2>. QED
    BY <1>1, <1>3, <1>5, <1>7, <2>1
<1>19. CASE Forget(p)
  <2>1. items' = items /\ reserved' = reserved /\ Delist(p)
    BY <1>1, <1>19 DEF Forget
  <2>2. \E l \in {"reserve", "cancelForget"} : pc' = [pc EXCEPT ![p] = l]
    BY <1>1, <1>19 DEF Forget, Top
  <2>. QED
    BY <1>1, <1>5, <1>7, <2>1, <2>2
<1>20. CASE ForgetCancelled(p)
  <2>1. items' = items /\ reserved' = reserved /\ Delist(p) /\ pc' = [pc EXCEPT ![p] = "passOn"]
    BY <1>20 DEF ForgetCancelled
  <2>. QED
    BY <1>1, <1>5, <1>7, <2>1
<1>21. CASE CancelForget(p)
  <2>1. items' = items /\ reserved' = reserved /\ waiters' = waiters /\ pc' = [pc EXCEPT ![p] = "isCancelled"]
    BY <1>21 DEF CancelForget
  <2>. QED
    BY <1>1, <1>3, <1>5, <1>7, <2>1
<1>22. CASE IsCancelled(p)
  <2>1. items' = items /\ reserved' = reserved /\ waiters' = waiters
    BY <1>22 DEF IsCancelled
  <2>2. \E l \in {"passOn", "reserve"} : pc' = [pc EXCEPT ![p] = l]
    BY <1>1, <1>22 DEF IsCancelled, Top
  <2>. QED
    BY <1>1, <1>3, <1>5, <1>7, <2>1, <2>2
<1>23. CASE PassOn(p)
  <2>1. items' = items /\ reserved' = reserved /\ (PopWaker(p, "writer") \/ ~Room) /\ pc[p] = "passOn"
    BY <1>1, <1>23 DEF PassOn
  <2>2. ~Contains(waiters["writer"], p)
    BY <1>1, <2>1, NotQueued DEF Queued, Waits
  <2>. QED
    BY <1>6, <1>7, <2>1, <2>2
<1>. QED
  BY <1>8, <1>9, <1>10, <1>11, <1>12, <1>13, <1>14, <1>15, <1>16, <1>17, <1>18, <1>19, <1>20, <1>21, <1>22, <1>23
     DEF Moves, Step

(* A step of a caller leaves enough senders called.                        *)
LEMMA MoveWriters ==
    ASSUME TypeOK, DInv, QueuesSound, WritersCalled, NEW p \in Callers, Moves(p), Patient("writer"),
           waiters'["writer"] # <<>>
    PROVE  Capacity <= Len(items') + reserved' + Cardinality(Called("writer")')
<1>. DEFINE q == waiters["writer"]
            c == Cardinality(Called("writer"))
            d == Cardinality(Called("writer")')
            n == Len(items) + reserved
            m == Len(items') + reserved'
<1>1. /\ q \in Seq(Callers) /\ items \in Seq(Values) /\ Len(items) \in Nat /\ reserved \in Nat
      /\ toWake[p] = <<>> /\ closed' = closed
  <2>1. toWake[p] = <<>> /\ closed' = closed
    BY QueueShapes, TokenShapes
  <2>2. items \in Seq(Values) /\ Len(items) \in Nat /\ reserved \in Nat
    BY DEF TypeOK
  <2>. QED
    BY <2>1, <2>2, Sides
<1>2. /\ c \in Nat /\ d \in Nat /\ c <= d + 1
      /\ (p \in Called("writer") => p \in Called("writer")') => c <= d
      /\ Pops(p, "writer") /\ ~Contains(q, p) => c <= d /\ (p \notin Called("writer") => c + 1 <= d)
  BY CalledCount
<1>3. q # <<>> => Capacity <= n + c
  BY DEF WritersCalled
<1>4. TypeOK' /\ QueuesSound'
  <2>1. Next
    BY DEF Next, Moves
  <2>. QED
    BY <2>1, TypeStep, MoveSound
<1>5. ~closed /\ Capacity > 0 /\ Capacity \in Nat
  <2>1. QueuesSound'
    BY <1>4
  <2>2. waiters'["writer"] \in Seq(Callers) /\ ~closed'
    BY <1>4 DEF QueuesSound, TypeOK, Side
  <2>3. PICK x \in Callers : Contains(waiters'["writer"], x)
    BY <2>2, NoneIn
  <2>4. Capacity > 0
    BY <2>1, <2>3 DEF QueuesSound
  <2>. QED
    BY <1>1, <2>2, <2>4, Names
<1>6. ASSUME PopWaker(p, "writer")
      PROVE  Pops(p, "writer") /\ q # <<>>
  BY <1>1, <1>6 DEF PopWaker, Pops
<1>7. n \in Nat /\ m \in Nat /\ n = Load /\ m = Load'
  <2>1. Len(items') \in Nat /\ reserved' \in Nat
    BY <1>4 DEF TypeOK
  <2>. QED
    BY <1>1, <2>1 DEF Load
<1>. HIDE DEF c, d
<1>8. CASE p \in Receivers
  <2>1. p \notin Called("writer") /\ ~Contains(q, p)
    BY <1>8, Names, Sides DEF Called, QueuesSound
  <2>2. CASE Same("writer") /\ items' = items /\ reserved' = reserved
    <3>1. q # <<>>
      BY <2>2 DEF Same
    <3>2. c <= d
      BY <1>2, <2>1
    <3>. QED
      BY <1>1, <1>2, <1>3, <1>5, <2>2, <3>1, <3>2 DEF d
  <2>3. CASE PopWaker(p, "writer") /\ Len(items') = Len(items) - 1 /\ reserved' = reserved
    <3>1. q # <<>> /\ c + 1 <= d
      BY <1>2, <1>6, <2>1, <2>3
    <3>2. m = n - 1
      BY <1>1, <2>3
    <3>. HIDE DEF n
    <3>3. Capacity <= n + c
      BY <1>3, <3>1 DEF n
    <3>. HIDE DEF m
    <3>4. Capacity <= m + d
      BY <1>2, <1>5, <1>7, <3>1, <3>2, <3>3
    <3>. QED
      BY <3>4 DEF d, m
  <2>. QED
    BY <1>5, <1>8, <2>2, <2>3, ReceiverRooms
<1>9. CASE p \in Senders
  <2>1. p \in Callers /\ side(p) = "writer"
    BY <1>9, Names, Sides
  <2>. HIDE DEF n, m
  <2>2. CASE Load >= Capacity /\ Load' = Load
    BY <1>2, <1>5, <1>7, <2>2 DEF d, m
  <2>3. CASE Load' = Load + 1 /\ Same("writer")
    <3>1. q # <<>>
      BY <2>3 DEF Same
    <3>. QED
      BY <1>2, <1>3, <1>5, <1>7, <2>3, <3>1 DEF d, m
  <2>4. CASE ~Contains(waiters["writer"], p) /\ PopWaker(p, "writer") /\ Load' = Load
    <3>1. q # <<>> /\ c <= d
      BY <1>2, <1>6, <2>4
    <3>. QED
      BY <1>2, <1>3, <1>5, <1>7, <2>4, <3>1 DEF d, m
  <2>5. CASE /\ Same("writer") \/ Delist(p)
             /\ pc[p] \in Comes(p) /\ ~Contains(waiters["writer"], p) => pc'[p] \in Comes(p)
             /\ Load' = Load
    <3>1. waiters'["writer"] \in {q, RemoveFirst(q, p)}
      BY <2>1, <2>5 DEF Same, Delist, TypeOK, Side
    <3>2. Contains(waiters'["writer"], p) => Contains(q, p)
      <4>1. Contains(RemoveFirst(q, p), p) => Contains(q, p)
        BY <1>1, RemoveFacts
      <4>. QED
        BY <3>1, <4>1
    <3>3. q # <<>>
      BY <3>1, NoneRemoved
    <3>4. p \in Called("writer") => p \in Called("writer")'
      BY <2>1, <2>5, <3>2 DEF Called
    <3>5. c <= d
      BY <1>2, <3>4
    <3>. QED
      BY <1>2, <1>3, <1>5, <1>7, <2>5, <3>3, <3>5 DEF d, m
  <2>. QED
    BY <1>5, <1>9, <2>2, <2>3, <2>4, <2>5, SenderRooms
<1>. QED
  BY <1>8, <1>9, Names

(* Enough senders stay called.                                             *)
LEMMA WritersStep ==
    ASSUME TypeOK, DInv, QueuesSound, WritersCalled, [Next]_vars
    PROVE  WritersCalled'
<1>. SUFFICES ASSUME Patient("writer"), waiters'["writer"] # <<>>
              PROVE  Capacity <= Len(items') + reserved' + Cardinality(Called("writer")')
  BY DEF WritersCalled, Patient, side
<1>1. CASE \E p \in Callers : Moves(p)
  BY <1>1, MoveWriters
<1>2. CASE ~\E p \in Callers : Moves(p)
  <2>1. waiters'["writer"] = waiters["writer"] /\ items' = items /\ reserved' = reserved /\ pc' = pc
    BY <1>2, EndQueues
  <2>2. Called("writer")' = Called("writer")
    BY <2>1 DEF Called
  <2>. QED
    BY <2>1, <2>2 DEF WritersCalled
<1>. QED
  BY <1>1, <1>2

(* The whole invariant holds in every state.                               *)
LEMMA CalledInvariant == Spec => []IInv
<1>1. Init => ReadersCalled /\ WritersCalled
  BY DEF Init, ReadersCalled, WritersCalled, Side
<1>2. WInv /\ ReadersCalled /\ WritersCalled /\ [Next]_vars => (ReadersCalled /\ WritersCalled)'
  BY ReadersStep, WritersStep DEF WInv
<1>. QED
  BY <1>1, <1>2, WakeInvariant, PTL DEF Spec, IInv

(* Who is called is coming.                                                *)
LEMMA CalledComing ==
    /\ Called("reader") \subseteq {p \in Receivers : Coming(p)}
    /\ Called("writer") \subseteq {p \in Senders : Coming(p)}
<1>1. ASSUME NEW s, NEW p \in Called(s)
      PROVE  Coming(p) /\ p \in Callers /\ side(p) = s
  <2>1. p \in Callers /\ side(p) = s /\ pc[p] \in Comes(p) /\ ~Contains(waiters[side(p)], p)
    BY <1>1 DEF Called
  <2>. QED
    BY <2>1 DEF Comes, Coming, Queued, Waits
<1>2. \A p \in Callers : (side(p) = "reader" => p \in Receivers) /\ (side(p) = "writer" => p \in Senders)
  BY Names, Sides
<1>. QED
  BY <1>1, <1>2

(* No wake-up is lost on the side of the receivers: while receivers wait,  *)
(* every queued value has a receiver on its way to it (`push_reserved`,    *)
(* `send`, `hand_over`, `pass_on`, `forget_watch`).  Receives with a       *)
(* timeout are ruled out, selects with one are not.                        *)
THEOREM ValuesLookedAfter ==
    ASSUME Timed \cap Receivers \subseteq Selecting
    PROVE  Spec => []ValuesAttended
<1>1. ASSUME IInv
      PROVE  ValuesAttended
  <2>. DEFINE C == Called("reader")
              R == {p \in Receivers : Coming(p)}
  <2>1. Patient("reader")
    BY Names, Sides DEF Patient, side
  <2>2. waiters["reader"] # <<>> => Len(items) <= Cardinality(C)
    BY <1>1, <2>1 DEF IInv, ReadersCalled
  <2>3. C \subseteq R /\ C \in SUBSET Callers /\ R \in SUBSET Callers
    BY CalledComing, Names
  <2>. HIDE DEF C, R
  <2>4. Cardinality(C) \in Nat /\ Cardinality(R) \in Nat /\ Cardinality(C) <= Cardinality(R)
    BY <2>3, CalledFinite, CountMore
  <2>5. Len(items) \in Nat
    BY <1>1 DEF IInv, WInv, TypeOK
  <2>6. waiters["reader"] # <<>> => Len(items) <= Cardinality(R)
    BY <2>2, <2>4, <2>5
  <2>. QED
    BY <2>6 DEF R, ValuesAttended
<1>. QED
  BY <1>1, CalledInvariant, PTL

(* Nor on the side of the senders: while senders wait for room, every free *)
(* slot has a sender on its way to it (`try_recv_locked`, `reserve_slot`,  *)
(* `pass_on`).  Sends with a timeout are ruled out.                        *)
THEOREM SlotsLookedAfter ==
    ASSUME Timed \cap Senders = {}
    PROVE  Spec => []SlotsAttended
<1>1. ASSUME IInv
      PROVE  SlotsAttended
  <2>. DEFINE C == Called("writer")
              W == {p \in Senders : Coming(p)}
  <2>1. Patient("writer")
    BY Names, Sides DEF Patient, side
  <2>2. waiters["writer"] # <<>> => Capacity <= Len(items) + reserved + Cardinality(C)
    BY <1>1, <2>1 DEF IInv, WritersCalled
  <2>3. C \subseteq W /\ C \in SUBSET Callers /\ W \in SUBSET Callers
    BY CalledComing, Names
  <2>. HIDE DEF C, W
  <2>4. Cardinality(C) \in Nat /\ Cardinality(W) \in Nat /\ Cardinality(C) <= Cardinality(W)
    BY <2>3, CalledFinite, CountMore
  <2>5. Len(items) \in Nat /\ reserved \in Nat /\ Capacity \in Nat
    BY <1>1, Names DEF IInv, WInv, TypeOK
  <2>6. waiters["writer"] # <<>> => Capacity - (Len(items) + reserved) <= Cardinality(W)
    BY <2>2, <2>4, <2>5
  <2>. QED
    BY <2>6 DEF W, SlotsAttended
<1>. QED
  BY <1>1, CalledInvariant, PTL
=============================================================================
