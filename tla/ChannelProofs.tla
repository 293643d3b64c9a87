---------------------------- MODULE ChannelProofs ----------------------------
(***************************************************************************)
(* Proofs about the values of Channel, for any capacity and any callers:   *)
(* a channel implements Fifo, keeps within its capacity and reports its    *)
(* sends truly.                                                            *)
(***************************************************************************)
EXTENDS Channel, SequenceFacts, FiniteSetTheorems

(* Where a caller may be, by what it does.                                 *)
Waits == {"check", "register", "wait"}
Ends(p) == {"forget", "forgetCancelled", "passOn"} \cup (IF p \in Timed THEN {"forgetTimeout"} ELSE {})
Tokens == {"cancelForget", "isCancelled"}
Withdraws == {"withdrawClosed", "withdrawTimeout", "withdrawCancelled"}
Hands == {"taken"} \cup Waits \cup Tokens \cup Withdraws

Places(p) ==
    IF p \in Selecting
    THEN {"idle", "select", "watch", "ready", "forget", "forgetWatch", "selectEnd", "watchEnd"} \cup Waits \cup Tokens
    ELSE IF p \in Receivers THEN {"idle", "recv"} \cup Waits \cup Ends(p) \cup Tokens
    ELSE IF Capacity = 0 THEN {"idle"} \cup (IF p \in Trying THEN {"push"} ELSE {}) \cup Hands
    ELSE {"idle", "reserve", "push"} \cup Waits \cup Ends(p) \cup Tokens

Placed ==
    /\ pc[Closer] = "idle" /\ pc[Canceller] = "idle"
    /\ \A p \in Callers : pc[p] \in Places(p) /\ (pc[p] # "idle" => calls[p] < MaxCalls[p])

(* Slots are reserved for those who push.                                  *)
Pushers == {s \in Senders : pc[s] = "push"}

SlotsCounted == reserved = Cardinality(Pushers)

(* Where the sender waits whose value was handed over                      *)
InHand(p) == Capacity = 0 /\ p \in Senders /\ pc[p] \in Hands

(* The hand-over queue, position by position                               *)
HandsPaired ==
    /\ Capacity > 0 => handoff = <<>>
    /\ Capacity = 0 => Len(handoff) = Len(items)
    /\ \A i \in 1 .. Len(handoff) : handoff[i] # Nobody => InHand(handoff[i]) /\ items[i] = value(handoff[i])
    /\ \A i, j \in 1 .. Len(handoff) : handoff[i] = handoff[j] /\ handoff[i] # Nobody => i = j
    /\ Senders \cap Trying = {} => \A i \in 1 .. Len(handoff) : handoff[i] # Nobody

RoomKept == Capacity > 0 => Len(items) + reserved <= Capacity

(* Every value is in one place once.                                       *)
PlacedOnce ==
    /\ Once(items) /\ Once(taken)
    /\ \A v \in Values : ~(Contains(items, v) /\ Contains(taken, v))

(* A value is somewhere only when its call is over or hands it over.       *)
PlacedInTime ==
    \A v \in Values : Contains(items, v) \/ Contains(taken, v) =>
        v[2] <= calls[v[1]] \/ (v = value(v[1]) /\ InHand(v[1]))

(* What became of a value is known when its call is over.                  *)
AcceptedPlaced == \A v \in accepted : v[2] <= calls[v[1]] /\ (Contains(items, v) \/ Contains(taken, v))
RefusedNowhere == \A v \in refused : v[2] <= calls[v[1]] /\ ~Contains(items, v) /\ ~Contains(taken, v)
Settled == \A v \in Values : v[2] <= calls[v[1]] => v \in accepted \cup refused

(* A value handed over is gone only when it was received.                  *)
HandedTaken == \A s \in Senders : InHand(s) /\ ~Contains(handoff, s) => Contains(taken, value(s))

ValuesPlaced == PlacedOnce /\ PlacedInTime /\ AcceptedPlaced /\ RefusedNowhere /\ Settled /\ HandedTaken

-----------------------------------------------------------------------------
USE ChannelAssumption

(* Who is who                                                              *)
LEMMA Names ==
    /\ Callers \subseteq Procs /\ Senders \subseteq Callers /\ Receivers \subseteq Callers
    /\ Senders \cap Receivers = {} /\ Selecting \subseteq Receivers
    /\ \A p \in Callers : p \in Senders \/ p \in Receivers
    /\ Closer \in Procs /\ Canceller \in Procs /\ Closer # Canceller
    /\ Closer \notin Callers /\ Canceller \notin Callers /\ Nobody \notin Procs
    /\ Capacity \in Nat
    /\ \A p \in Callers : Handing(p) <=> Capacity = 0 /\ p \in Senders
  BY DEF Callers, Procs, Handing

(* Sets of callers are finite.                                             *)
LEMMA FinitePeople ==
    /\ \A s \in SUBSET Senders : IsFiniteSet(s) /\ Cardinality(s) \in Nat
    /\ \A s \in SUBSET Receivers : IsFiniteSet(s) /\ Cardinality(s) \in Nat
<1>1. \A s \in SUBSET Callers : IsFiniteSet(s) /\ Cardinality(s) \in Nat
  BY FS_Subset, FS_CardinalityType
<1>. QED
  BY <1>1, Names

(* A finite set with one more                                              *)
LEMMA OneMore ==
    ASSUME NEW s, IsFiniteSet(s), NEW t, t \notin s
    PROVE  Cardinality(s \cup {t}) = Cardinality(s) + 1
  BY FS_AddElement

(* A finite set with one less                                              *)
LEMMA OneLess ==
    ASSUME NEW s, IsFiniteSet(s), NEW t \in s
    PROVE  Cardinality(s \ {t}) = Cardinality(s) - 1 /\ Cardinality(s) \in Nat \ {0}
  BY FS_RemoveElement, FS_CardinalityType, FS_EmptySet

(* Values are named by sender and call.                                    *)
LEMMA ValueNames ==
    /\ \A v \in Values : v[1] \in Senders /\ v[2] \in Nat /\ v = <<v[1], v[2]>>
    /\ \A s \in Senders : \A k \in 1 .. MaxCalls[s] : <<s, k>> \in Values
<1>1. ASSUME NEW v \in Values
       PROVE  v[1] \in Senders /\ v[2] \in Nat /\ v = <<v[1], v[2]>>
  <2>1. PICK s \in Senders : v \in {s} \X (1 .. MaxCalls[s])
    BY DEF Values
  <2>. QED
    BY <2>1
<1>2. ASSUME NEW s \in Senders, NEW k \in 1 .. MaxCalls[s]
       PROVE  <<s, k>> \in Values
  <2>1. <<s, k>> \in {s} \X (1 .. MaxCalls[s])
    OBVIOUS
  <2>. QED
    BY <2>1 DEF Values
<1>. QED
  BY <1>1, <1>2

(* The value of a call in progress                                         *)
LEMMA ValueNow ==
    ASSUME calls \in [Callers -> Nat], NEW s \in Senders, calls[s] < MaxCalls[s]
    PROVE  /\ value(s) \in Values
           /\ value(s)[1] = s /\ value(s)[2] = calls[s] + 1
<1>1. calls[s] + 1 \in 1 .. MaxCalls[s]
  BY Names
<1>. QED
  BY <1>1, ValueNames DEF value

-----------------------------------------------------------------------------
(* What a step does with values, slots and the calls of senders            *)

Ended(p) ==
    /\ pc' = [pc EXCEPT ![p] = "idle"]
    /\ calls' = [calls EXCEPT ![p] = @ + 1]

(* send, push_reserved                                                     *)
Stored(p) ==
    /\ p \in Senders /\ ~closed /\ Ended(p)
    /\ \/ pc[p] = "idle" /\ Capacity > 0 /\ Room /\ reserved' = reserved
       \/ pc[p] = "push" /\ reserved' = reserved - 1
    /\ items' = Append(items, value(p))
    /\ handoff' = IF Capacity = 0 THEN Append(handoff, Nobody) ELSE handoff
    /\ accepted' = accepted \cup {value(p)}
    /\ UNCHANGED <<closed, taken, refused>>

(* hand_over, and its three ends                                           *)
Offered(p) ==
    /\ p \in Senders /\ Capacity = 0 /\ ~closed /\ pc[p] = "idle"
    /\ pc' = [pc EXCEPT ![p] = "taken"]
    /\ items' = Append(items, value(p))
    /\ handoff' = Append(handoff, p)
    /\ UNCHANGED <<closed, reserved, calls, taken, accepted, refused>>

Confirmed(p) ==
    /\ InHand(p) /\ ~Contains(handoff, p) /\ Ended(p)
    /\ accepted' = accepted \cup {value(p)}
    /\ UNCHANGED <<items, handoff, closed, reserved, taken, refused>>

Withdrawn(p) ==
    /\ InHand(p) /\ Ended(p)
    /\ \E i \in 1 .. Len(handoff) :
          handoff[i] = p /\ items' = RemoveAt(items, i) /\ handoff' = RemoveAt(handoff, i)
    /\ refused' = refused \cup {value(p)}
    /\ UNCHANGED <<closed, reserved, taken, accepted>>

(* A send that throws without having queued its value                      *)
Refused(p) ==
    /\ p \in Senders /\ ~InHand(p) /\ Ended(p)
    /\ refused' = refused \cup {value(p)}
    /\ \/ pc[p] = "push" /\ closed /\ reserved' = reserved - 1
       \/ pc[p] # "push" /\ reserved' = reserved
    /\ UNCHANGED <<items, handoff, closed, taken, accepted>>

Slotted(p) ==
    /\ p \in Senders /\ pc[p] # "push" /\ ~InHand(p) /\ ~closed
    /\ Capacity > 0 => Room
    /\ Capacity = 0 => p \in Trying
    /\ reserved' = reserved + 1
    /\ pc' = [pc EXCEPT ![p] = "push"]
    /\ UNCHANGED <<items, handoff, closed, calls, taken, accepted, refused>>

(* try_recv_locked, and a receive that throws                              *)
Received(p) ==
    /\ p \in Receivers /\ Ended(p)
    /\ items # <<>> /\ items' = Tail(items)
    /\ taken' = Append(taken, Head(items))
    /\ handoff' = IF Capacity = 0 THEN Tail(handoff) ELSE handoff
    /\ UNCHANGED <<closed, reserved, accepted, refused>>

Thrown(p) ==
    /\ p \in Receivers /\ Ended(p)
    /\ UNCHANGED <<items, handoff, closed, reserved, taken, accepted, refused>>

(* A caller goes on in its call.                                           *)
Goes(p) ==
    /\ \E l \in Places(p) \ {"idle", "push"} :
          pc' = [pc EXCEPT ![p] = l] /\ (p \in Senders /\ Capacity = 0 => InHand(p) /\ l \in Hands)
    /\ pc[p] # "push"
    /\ UNCHANGED <<items, handoff, closed, reserved, calls, taken, accepted, refused>>

Data(p) ==
    /\ calls[p] < MaxCalls[p]
    /\ \/ Stored(p) \/ Offered(p) \/ Confirmed(p) \/ Withdrawn(p) \/ Refused(p) \/ Slotted(p)
       \/ Received(p) \/ Thrown(p) \/ Goes(p)

Still == UNCHANGED <<items, handoff, reserved, pc, calls, taken, accepted, refused>>

(* Sends                                                                   *)
LEMMA SendData ==
    ASSUME TypeOK, Placed, NEW p \in Callers,
           Send(p) \/ TrySend(p) \/ Reserve(p) \/ Push(p) \/ HandOver(p) \/ Taken(p)
    PROVE  Data(p)
<1>. USE Names DEF Placed, Goto, GoOn, At, Idle, End, Return, Throw, hist, chan
<1>1. CASE Send(p)
  <2>1. ~InHand(p)
    BY <1>1 DEF Send, InHand
  <2>2. \/ Refused(p) \/ Stored(p)
        \/ /\ pc' = [pc EXCEPT ![p] = "reserve"]
           /\ UNCHANGED <<items, handoff, closed, reserved, calls, taken, accepted, refused>>
    BY <1>1, <2>1 DEF Send, Refused, Stored, Ended
  <2>3. "reserve" \in Places(p) \ {"idle", "push"} /\ p \in Senders /\ Capacity > 0 /\ pc[p] = "idle"
    BY <1>1 DEF Send, Places
  <2>. QED
    BY <1>1, <2>2, <2>3 DEF Send, Data, Goes
<1>2. CASE TrySend(p)
  <2>1. ~InHand(p) /\ pc[p] # "push" /\ p \in Senders
    BY <1>2 DEF TrySend, InHand, Hands, Waits, Tokens, Withdraws
  <2>2. Refused(p) \/ Slotted(p)
    BY <1>2, <2>1 DEF TrySend, Refused, Slotted, Ended
  <2>. QED
    BY <1>2, <2>2 DEF TrySend, Data
<1>3. CASE Reserve(p)
  <2>1. p \in Senders /\ Capacity > 0 /\ ~InHand(p) /\ pc[p] = "reserve" /\ calls[p] < MaxCalls[p]
    <3>1. pc[p] = "reserve" /\ pc[p] \in Places(p) /\ calls[p] < MaxCalls[p]
      BY <1>3 DEF Reserve
    <3>2. p \in Senders /\ Capacity # 0
      BY <3>1 DEF Places, Hands, Waits, Tokens, Withdraws, Ends
    <3>. QED
      BY <3>1, <3>2 DEF InHand
  <2>2. \/ Refused(p) \/ Slotted(p)
        \/ /\ \E l \in {"check", "reserve"} : pc' = [pc EXCEPT ![p] = l]
           /\ UNCHANGED <<items, handoff, closed, reserved, calls, taken, accepted, refused>>
    BY <1>3, <2>1 DEF Reserve, Refused, Slotted, Ended
  <2>3. "reserve" \in Places(p) \ {"idle", "push"} /\ "check" \in Places(p) \ {"idle", "push"}
    BY <2>1 DEF Places, Waits
  <2>. QED
    BY <2>1, <2>2, <2>3 DEF Data, Goes
<1>4. CASE Push(p)
  <2>1. p \in Senders /\ ~InHand(p) /\ pc[p] = "push" /\ calls[p] < MaxCalls[p]
    BY <1>4 DEF Push, Places, InHand, Hands, Waits, Tokens, Withdraws, Ends
  <2>2. Refused(p) \/ Stored(p)
    BY <1>4, <2>1 DEF Push, Refused, Stored, Ended
  <2>. QED
    BY <2>1, <2>2 DEF Data
<1>5. CASE HandOver(p)
  <2>1. p \in Senders /\ Capacity = 0 /\ ~InHand(p) /\ pc[p] = "idle" /\ calls[p] < MaxCalls[p]
    BY <1>5 DEF HandOver, InHand, Hands, Waits, Tokens, Withdraws
  <2>2. Refused(p) \/ Offered(p)
    BY <1>5, <2>1 DEF HandOver, Refused, Offered, Ended
  <2>. QED
    BY <2>1, <2>2 DEF Data
<1>6. CASE Taken(p)
  <2>1. p \in Senders /\ Capacity = 0 /\ InHand(p) /\ pc[p] = "taken" /\ calls[p] < MaxCalls[p]
    BY <1>6 DEF Taken, Places, InHand, Hands, Waits, Tokens, Withdraws, Ends
  <2>2. \/ Confirmed(p)
        \/ /\ \E l \in {"check", "withdrawClosed"} : pc' = [pc EXCEPT ![p] = l]
           /\ UNCHANGED <<items, handoff, closed, reserved, calls, taken, accepted, refused>>
    BY <1>6, <2>1 DEF Taken, Confirmed, Ended
  <2>3. {"check", "withdrawClosed"} \subseteq (Places(p) \ {"idle", "push"}) \cap Hands
    BY <2>1 DEF Places, Hands, Waits, Withdraws
  <2>. QED
    BY <2>1, <2>2, <2>3 DEF Data, Goes
<1>. QED
  BY <1>1, <1>2, <1>3, <1>4, <1>5, <1>6

(* Withdrawals                                                             *)
LEMMA WithdrawData ==
    ASSUME TypeOK, Placed, NEW p \in Callers, Withdraw(p)
    PROVE  calls[p] < MaxCalls[p] /\ (Withdrawn(p) \/ Confirmed(p))
<1>. USE Names DEF Placed, At, End, Return, Throw, Goto
<1>1. p \in Senders /\ Capacity = 0 /\ InHand(p) /\ calls[p] < MaxCalls[p]
  BY DEF Withdraw, Places, InHand, Hands, Waits, Tokens, Withdraws, Ends
<1>2. CASE Contains(handoff, p)
  <2>. DEFINE i == Min({j \in 1 .. Len(handoff) : handoff[j] = p})
  <2>1. i \in 1 .. Len(handoff) /\ handoff[i] = p /\ {j \in 1 .. Len(handoff) : handoff[j] = p} # {}
    <3>1. Len(handoff) \in Nat
      BY LenProperties DEF TypeOK
    <3>. HIDE DEF i
    <3>2. /\ {j \in 1 .. Len(handoff) : handoff[j] = p} # {}
          /\ i \in {j \in 1 .. Len(handoff) : handoff[j] = p}
      BY ONLY <1>2, <3>1, FirstPlace DEF i
    <3>. QED
      BY ONLY <3>2
  <2>2. /\ items' = RemoveAt(items, i) /\ handoff' = RemoveAt(handoff, i)
        /\ Ended(p) /\ refused' = refused \cup {value(p)}
        /\ UNCHANGED <<closed, reserved, taken, accepted>>
    BY <1>1, <1>2, <2>1 DEF Withdraw, Ended, SelectInSeq
  <2>. HIDE DEF i
  <2>3. Withdrawn(p)
    BY <1>1, <2>1, <2>2 DEF Withdrawn
  <2>. QED
    BY <1>1, <2>3
<1>3. CASE ~Contains(handoff, p)
  <2>1. Confirmed(p)
    BY <1>1, <1>3 DEF Withdraw, Confirmed, Ended
  <2>. QED
    BY <1>1, <2>1
<1>. QED
  BY <1>2, <1>3

(* Withdrawals and receives                                                *)
LEMMA ReceiveData ==
    ASSUME TypeOK, Placed, NEW p \in Callers,
           Withdraw(p) \/ Recv(p) \/ TryRecv(p) \/ Ready(p)
    PROVE  Data(p) \/ Still
<1>. USE Names DEF Placed, Goto, GoOn, At, Idle, End, Return, Throw, hist, chan
<1>1. CASE Withdraw(p)
  BY <1>1, WithdrawData DEF Data
<1>2. CASE Recv(p)
  <2>1. p \in Receivers /\ p \notin Senders /\ p \notin Selecting /\ calls[p] < MaxCalls[p] /\ pc[p] # "push"
    BY <1>2 DEF Recv
  <2>2. \/ Received(p) \/ Thrown(p)
        \/ /\ \E l \in {"check", "recv"} : pc' = [pc EXCEPT ![p] = l]
           /\ UNCHANGED <<items, handoff, closed, reserved, calls, taken, accepted, refused>>
    BY <1>2, <2>1 DEF Recv, Received, Thrown, Ended, TakeItem, PopWaker
  <2>3. {"check", "recv"} \subseteq Places(p) \ {"idle", "push"}
    BY <2>1 DEF Places, Waits
  <2>. QED
    BY <2>1, <2>2, <2>3 DEF Data, Goes
<1>3. CASE TryRecv(p)
  <2>1. p \in Receivers /\ p \notin Senders /\ calls[p] < MaxCalls[p]
    BY <1>3 DEF TryRecv
  <2>2. Received(p) \/ Thrown(p)
    BY <1>3, <2>1 DEF TryRecv, Received, Thrown, Ended, TakeItem, PopWaker
  <2>. QED
    BY <2>1, <2>2 DEF Data
<1>4. CASE Ready(p)
  <2>1. /\ p \in Receivers /\ p \notin Senders /\ p \in Selecting /\ calls[p] < MaxCalls[p] /\ pc[p] # "push"
        /\ pc[p] = "ready"
    BY <1>4 DEF Ready, Places, Waits, Tokens, Ends, Hands, Withdraws
  <2>2. \/ Received(p) \/ Thrown(p) \/ Still
        \/ /\ pc' = [pc EXCEPT ![p] = "select"]
           /\ UNCHANGED <<items, handoff, closed, reserved, calls, taken, accepted, refused>>
    BY <1>4, <2>1 DEF Ready, Received, Thrown, Ended, TakeItem, PopWaker, Still
  <2>3. "select" \in Places(p) \ {"idle", "push"}
    BY <2>1 DEF Places
  <2>. QED
    BY <2>1, <2>2, <2>3 DEF Data, Goes
<1>. QED
  BY <1>1, <1>2, <1>3, <1>4

(* The waiting loop and select                                             *)
LEMMA LoopData ==
    ASSUME TypeOK, Placed, NEW p \in Callers,
           \/ Select(p) \/ Watch(p) \/ SelectEnds(p) \/ ForgetWatch(p)
           \/ Check(p) \/ Register(p) \/ Wait(p) \/ Forget(p) \/ ForgetTimeout(p) \/ ForgetCancelled(p)
           \/ CancelForget(p) \/ IsCancelled(p) \/ PassOn(p)
    PROVE  Data(p)
<1>. USE Names DEF Placed, Goto, GoOn, At, Idle, End, Throw, hist, chan, Top, GivesUp
<1>1. calls[p] < MaxCalls[p]
  BY DEF Select, Watch, SelectEnds, ForgetWatch, Check, Register, Wait, Forget, ForgetTimeout,
         ForgetCancelled, CancelForget, IsCancelled, PassOn
<1>2. ASSUME NEW l \in Places(p) \ {"idle", "push"}, pc' = [pc EXCEPT ![p] = l], pc[p] # "push",
             Handing(p) => pc[p] \in Hands /\ l \in Hands,
             UNCHANGED <<items, handoff, closed, reserved, calls, taken, accepted, refused>>
      PROVE  Data(p)
  BY <1>1, <1>2 DEF Data, Goes, InHand, Handing
<1>3. CASE Select(p) \/ Watch(p) \/ SelectEnds(p) \/ ForgetWatch(p)
  <2>1. p \in Selecting /\ p \in Receivers /\ p \notin Senders /\ ~Handing(p) /\ pc[p] # "push"
    BY <1>3 DEF Select, Watch, SelectEnds, ForgetWatch, Places, Waits, Tokens, Ends, Hands, Withdraws
  <2>2. \/ Thrown(p)
        \/ /\ \E l \in {"select", "watch", "ready", "check", "watchEnd", "cancelForget"} : pc' = [pc EXCEPT ![p] = l]
           /\ UNCHANGED <<items, handoff, closed, reserved, calls, taken, accepted, refused>>
    BY <1>3, <2>1 DEF Select, Watch, SelectEnds, ForgetWatch, Thrown, Ended
  <2>3. {"select", "watch", "ready", "check", "watchEnd", "cancelForget"} \subseteq Places(p) \ {"idle", "push"}
    BY <2>1 DEF Places, Waits, Tokens
  <2>. QED
    BY <1>1, <1>2, <2>1, <2>2, <2>3 DEF Data
<1>4. CASE Check(p)
  <2>1. pc[p] = "check" /\ (p \notin Selecting => "check" \in Places(p))
    BY <1>4 DEF Check
  <2>2. p \in late => p \in Timed
    BY DEF TypeOK
  <2>3. \E l \in {"withdrawTimeout", "selectEnd", "forgetTimeout", "register", "wait"} :
           /\ pc' = [pc EXCEPT ![p] = l] /\ l \in Places(p) \ {"idle", "push"}
           /\ Handing(p) => l \in Hands
    BY <1>4, <2>1, <2>2 DEF Check, Places, Waits, Tokens, Ends, Hands, Withdraws, Handing
  <2>4. UNCHANGED <<items, handoff, closed, reserved, calls, taken, accepted, refused>>
    BY <1>4 DEF Check
  <2>. QED
    BY <1>2, <2>1, <2>3, <2>4 DEF Hands, Waits
<1>5. CASE Register(p)
  <2>1. pc[p] = "register"
    BY <1>5 DEF Register
  <2>2. \E l \in {"withdrawCancelled", "selectEnd", "forgetCancelled", "wait"} :
           /\ pc' = [pc EXCEPT ![p] = l] /\ l \in Places(p) \ {"idle", "push"}
           /\ Handing(p) => l \in Hands
    BY <1>5, <2>1 DEF Register, Places, Waits, Tokens, Ends, Hands, Withdraws, Handing
  <2>3. UNCHANGED <<items, handoff, closed, reserved, calls, taken, accepted, refused>>
    BY <1>5 DEF Register
  <2>. QED
    BY <1>2, <2>1, <2>2, <2>3 DEF Hands, Waits
<1>6. CASE Wait(p)
  <2>1. pc[p] = "wait"
    BY <1>6 DEF Wait
  <2>2. \E l \in {"forget", "cancelForget", "taken"} :
           /\ pc' = [pc EXCEPT ![p] = l] /\ l \in Places(p) \ {"idle", "push"}
           /\ Handing(p) => l \in Hands
    BY <1>6, <2>1 DEF Wait, Places, Waits, Tokens, Ends, Hands, Withdraws, Handing
  <2>3. UNCHANGED <<items, handoff, closed, reserved, calls, taken, accepted, refused>>
    BY <1>6 DEF Wait
  <2>. QED
    BY <1>2, <2>1, <2>2, <2>3 DEF Hands, Waits
<1>7. CASE Forget(p) \/ ForgetCancelled(p)
  <2>1. pc[p] \in {"forget", "forgetCancelled"} /\ pc[p] \in Places(p) /\ ~Handing(p)
    BY <1>7 DEF Forget, ForgetCancelled, Places, Hands, Waits, Tokens, Withdraws, Handing
  <2>2. \E l \in {"cancelForget", "recv", "reserve", "forgetWatch", "passOn"} :
           /\ pc' = [pc EXCEPT ![p] = l] /\ l \in Places(p) \ {"idle", "push"}
    BY <1>7, <2>1 DEF Forget, ForgetCancelled, Places, Waits, Tokens, Ends, Hands, Withdraws, Handing
  <2>3. UNCHANGED <<items, handoff, closed, reserved, calls, taken, accepted, refused>>
    BY <1>7 DEF Forget, ForgetCancelled
  <2>. QED
    BY <1>2, <2>1, <2>2, <2>3
<1>8. CASE ForgetTimeout(p) \/ PassOn(p)
  <2>1. pc[p] \in {"forgetTimeout", "passOn"} /\ ~InHand(p) /\ p \notin Selecting
    BY <1>8 DEF ForgetTimeout, PassOn, Places, Hands, Waits, Tokens, Withdraws, InHand
  <2>2. p \in Senders => Refused(p)
    BY <1>8, <2>1 DEF ForgetTimeout, PassOn, Refused, Ended
  <2>3. p \in Receivers => Thrown(p)
    BY <1>8, <2>1 DEF ForgetTimeout, PassOn, Thrown, Ended
  <2>. QED
    BY <1>1, <2>2, <2>3 DEF Data
<1>9. CASE CancelForget(p)
  <2>1. pc[p] = "cancelForget" /\ pc' = [pc EXCEPT ![p] = "isCancelled"]
    BY <1>9 DEF CancelForget
  <2>2. "isCancelled" \in Places(p) \ {"idle", "push"} /\ pc[p] \in Hands /\ "isCancelled" \in Hands
    BY <2>1 DEF Places, Tokens, Hands
  <2>3. UNCHANGED <<items, handoff, closed, reserved, calls, taken, accepted, refused>>
    BY <1>9 DEF CancelForget
  <2>. QED
    BY <1>2, <2>1, <2>2, <2>3
<1>10. CASE IsCancelled(p)
  <2>1. pc[p] = "isCancelled" /\ UNCHANGED <<items, handoff, closed, reserved>>
    BY <1>10 DEF IsCancelled
  <2>2. \/ p \in Selecting /\ Thrown(p)
        \/ /\ \E l \in {"withdrawCancelled", "passOn", "select", "recv", "taken", "reserve"} :
                 /\ pc' = [pc EXCEPT ![p] = l] /\ l \in Places(p) \ {"idle", "push"}
                 /\ Handing(p) => l \in Hands
           /\ UNCHANGED <<calls, taken, accepted, refused>>
    BY <1>10, <2>1 DEF IsCancelled, Thrown, Ended, Places, Waits, Tokens, Ends, Hands, Withdraws, Handing
  <2>3. pc[p] \in Hands
    BY <2>1 DEF Hands, Tokens
  <2>. QED
    BY <1>1, <1>2, <2>1, <2>2, <2>3 DEF Data
<1>. QED
  BY <1>3, <1>4, <1>5, <1>6, <1>7, <1>8, <1>9, <1>10

(* Whatever happens is one of these, to values.                            *)
LEMMA DataSteps ==
    ASSUME TypeOK, Placed, [Next]_vars
    PROVE  (\E p \in Callers : Data(p)) \/ Still
<1>1. ASSUME NEW p \in Callers, Step(p) \/ TrySend(p) \/ TryRecv(p)
      PROVE  Data(p) \/ Still
  BY <1>1, SendData, ReceiveData, LoopData DEF Step
<1>2. ASSUME NEW p \in Callers, TimePasses(p)
      PROVE  Still
  BY <1>2 DEF TimePasses, Still, chan, hist
<1>3. ASSUME NEW p \in Procs, Wake(p)
      PROVE  Still
  BY <1>3 DEF Wake, Still, chan, hist
<1>4. Close \/ CloseOther \/ Cancel \/ Done => Still
  BY DEF Close, CloseOther, Cancel, Done, Still, chan, hist, vars
<1>5. UNCHANGED vars => Still
  BY DEF Still, vars
<1>. QED
  BY <1>1, <1>2, <1>3, <1>4, <1>5 DEF Next

-----------------------------------------------------------------------------
(* Values and slots                                                        *)

(* The part of TypeOK that is about values, slots and calls                *)
DataOK ==
    /\ items \in Seq(Values)
    /\ handoff \in Seq(Senders \cup {Nobody})
    /\ reserved \in Nat
    /\ pc \in [Procs -> PCs]
    /\ calls \in [Callers -> Nat] /\ \A p \in Callers : calls[p] <= MaxCalls[p]
    /\ taken \in Seq(Values)
    /\ accepted \in SUBSET Values
    /\ refused \in SUBSET Values

(* Everything the values depend on                                         *)
DInv == DataOK /\ Placed /\ SlotsCounted /\ HandsPaired /\ RoomKept /\ ValuesPlaced

(* Where a caller can be                                                   *)
LEMMA PlacesKnown ==
    ASSUME NEW p \in Callers
    PROVE  Places(p) \subseteq PCs
  BY Names DEF Places, PCs, Hands, Waits, Ends, Tokens, Withdraws

(* A caller moves on, or its call is over.                                 *)
LEMMA Moved ==
    ASSUME DataOK, Placed, NEW p \in Callers, Data(p)
    PROVE  \E l \in Places(p) :
              /\ pc' = [pc EXCEPT ![p] = l]
              /\ \/ l = "idle" /\ calls' = [calls EXCEPT ![p] = @ + 1]
                 \/ l # "idle" /\ calls' = calls
<1>1. "idle" \in Places(p)
  BY DEF Places
<1>2. Slotted(p) => "push" \in Places(p)
  BY Names DEF Slotted, Places
<1>3. Offered(p) => "taken" \in Places(p)
  BY Names DEF Offered, Places, Hands
<1>. QED
  BY <1>1, <1>2, <1>3 DEF Data, Stored, Offered, Confirmed, Withdrawn, Refused, Slotted, Received, Thrown, Goes, Ended

(* Callers stay where they may be.                                         *)
LEMMA PlacedStep ==
    ASSUME DataOK, Placed, NEW p \in Callers, Data(p)
    PROVE  /\ Placed'
           /\ pc' \in [Procs -> PCs]
           /\ calls' \in [Callers -> Nat] /\ \A q \in Callers : calls'[q] <= MaxCalls[q]
<1>1. PICK l \in Places(p) :
         /\ pc' = [pc EXCEPT ![p] = l]
         /\ \/ l = "idle" /\ calls' = [calls EXCEPT ![p] = @ + 1]
            \/ l # "idle" /\ calls' = calls
  BY Moved
<1>2. calls[p] < MaxCalls[p] /\ MaxCalls[p] \in Nat
  BY DEF Data
<1>3. pc' \in [Procs -> PCs]
  BY <1>1, PlacesKnown, Names DEF DataOK
<1>4. calls' \in [Callers -> Nat] /\ \A q \in Callers : calls'[q] <= MaxCalls[q]
  <2>1. calls \in [Callers -> Nat] /\ \A q \in Callers : calls[q] <= MaxCalls[q]
    BY DEF DataOK
  <2>2. calls[p] \in Nat /\ calls[p] + 1 \in Nat /\ calls[p] + 1 <= MaxCalls[p]
    BY <1>2, <2>1
  <2>3. calls' \in [Callers -> Nat]
    BY <1>1, <2>1, <2>2
  <2>4. ASSUME NEW q \in Callers
         PROVE  calls'[q] <= MaxCalls[q]
    BY <1>1, <2>1, <2>2
  <2>. QED
    BY <2>3, <2>4
<1>5. pc'[p] = l /\ \A q \in Procs : q # p => pc'[q] = pc[q]
  BY <1>1, Names DEF DataOK
<1>6. l # "idle" => calls'[p] = calls[p]
  BY <1>1
<1>7. \A q \in Callers : q # p => calls'[q] = calls[q]
  BY <1>1 DEF DataOK
<1>8. pc'[Closer] = "idle" /\ pc'[Canceller] = "idle"
  BY <1>5, Names DEF Placed
<1>9. \A q \in Callers : pc'[q] \in Places(q) /\ (pc'[q] # "idle" => calls'[q] < MaxCalls[q])
  BY <1>2, <1>5, <1>6, <1>7, Names DEF Placed
<1>. QED
  BY <1>3, <1>4, <1>8, <1>9 DEF Placed

(* Slots are counted.                                                      *)
LEMMA SlotsStep ==
    ASSUME DataOK, SlotsCounted, NEW p \in Callers, Data(p)
    PROVE  reserved' \in Nat /\ SlotsCounted'
<1>1. IsFiniteSet(Pushers) /\ reserved = Cardinality(Pushers) /\ Pushers' \subseteq Senders
  BY FinitePeople DEF Pushers, SlotsCounted
<1>2. p \in Procs /\ pc \in [Procs -> PCs] /\ Senders \subseteq Procs
  BY Names DEF DataOK
<1>3. CASE pc[p] = "push" /\ p \in Senders
  <2>1. reserved' = reserved - 1 /\ pc' = [pc EXCEPT ![p] = "idle"]
    BY <1>3, Names DEF Data, Stored, Offered, Confirmed, Withdrawn, Refused, Slotted, Received, Thrown, Goes, Ended,
                InHand, Hands, Waits, Tokens, Withdraws
  <2>2. Pushers' = Pushers \ {p} /\ p \in Pushers
    BY <1>2, <1>3, <2>1 DEF Pushers
  <2>3. Cardinality(Pushers') = Cardinality(Pushers) - 1 /\ Cardinality(Pushers) \in Nat \ {0}
    BY <1>1, <2>2, OneLess
  <2>. QED
    BY <1>1, <2>1, <2>3 DEF SlotsCounted
<1>4. CASE Slotted(p)
  <2>1. reserved' = reserved + 1 /\ pc' = [pc EXCEPT ![p] = "push"] /\ p \in Senders /\ pc[p] # "push"
    BY <1>4 DEF Slotted
  <2>2. Pushers' = Pushers \cup {p} /\ p \notin Pushers
    BY <1>2, <2>1 DEF Pushers
  <2>3. Cardinality(Pushers') = Cardinality(Pushers) + 1
    BY <1>1, <2>2, OneMore
  <2>. QED
    BY <1>1, <2>1, <2>3 DEF SlotsCounted, DataOK
<1>5. CASE ~(pc[p] = "push" /\ p \in Senders) /\ ~Slotted(p)
  <2>1. reserved' = reserved
    BY <1>5, Names DEF Data, Stored, Offered, Confirmed, Withdrawn, Refused, Received, Thrown, Goes
  <2>2. Goes(p) => \E l : pc' = [pc EXCEPT ![p] = l] /\ l # "push"
    BY DEF Goes
  <2>3. \E l : pc' = [pc EXCEPT ![p] = l] /\ (p \in Senders => l # "push")
    BY <1>5, <2>2 DEF Data, Stored, Offered, Confirmed, Withdrawn, Refused, Received, Thrown, Ended
  <2>4. Pushers' = Pushers
    BY <1>2, <1>5, <2>3 DEF Pushers
  <2>. QED
    BY <2>1, <2>4 DEF SlotsCounted, DataOK
<1>. QED
  BY <1>3, <1>4, <1>5

(* What a step of p means to the others                                    *)
LEMMA Others ==
    ASSUME DataOK, NEW p \in Callers, Data(p), NEW q \in Callers, q # p
    PROVE  /\ pc'[q] = pc[q] /\ calls'[q] = calls[q]
           /\ InHand(q)' <=> InHand(q)
           /\ value(q)' = value(q)
<1>1. \E l : pc' = [pc EXCEPT ![p] = l]
  BY DEF Data, Stored, Offered, Confirmed, Withdrawn, Refused, Slotted, Received, Thrown, Goes, Ended
<1>2. calls' = calls \/ calls' = [calls EXCEPT ![p] = @ + 1]
  BY DEF Data, Stored, Offered, Confirmed, Withdrawn, Refused, Slotted, Received, Thrown, Goes, Ended
<1>3. pc'[q] = pc[q] /\ calls'[q] = calls[q]
  BY <1>1, <1>2, Names DEF DataOK
<1>. QED
  BY <1>3 DEF InHand, value

(* What the end of a call means to its caller                              *)
LEMMA Itself ==
    ASSUME DataOK, NEW p \in Callers, Ended(p)
    PROVE  calls'[p] = calls[p] + 1 /\ ~InHand(p)' /\ pc'[p] = "idle"
<1>1. calls'[p] = calls[p] + 1 /\ pc'[p] = "idle"
  BY Names DEF DataOK, Ended
<1>2. "idle" \notin Hands
  BY DEF Hands, Waits, Tokens, Withdraws
<1>. QED
  BY <1>1, <1>2 DEF InHand

(* No call is ever undone.                                                 *)
LEMMA CallsGrow ==
    ASSUME DataOK, NEW p \in Callers, Data(p)
    PROVE  \A q \in Callers : calls[q] \in Nat /\ calls'[q] \in Nat /\ calls[q] <= calls'[q]
<1>1. calls' = calls \/ calls' = [calls EXCEPT ![p] = @ + 1]
  BY DEF Data, Stored, Offered, Confirmed, Withdrawn, Refused, Slotted, Received, Thrown, Goes, Ended
<1>. QED
  BY <1>1 DEF DataOK

(* A value withdrawn is the one its sender waits with.                     *)
LEMMA WithdrawnFacts ==
    ASSUME DInv, NEW p \in Callers, Withdrawn(p)
    PROVE  \E i \in 1 .. Len(handoff) :
              /\ i \in 1 .. Len(items) /\ handoff[i] = p /\ items[i] = value(p)
              /\ items' = RemoveAt(items, i) /\ handoff' = RemoveAt(handoff, i)
              /\ items' = RemoveFirst(items, value(p)) /\ handoff' = RemoveFirst(handoff, p)
<1>1. PICK i \in 1 .. Len(handoff) :
         handoff[i] = p /\ items' = RemoveAt(items, i) /\ handoff' = RemoveAt(handoff, i)
  BY DEF Withdrawn
<1>2. p # Nobody /\ Capacity = 0
  BY Names DEF Withdrawn, InHand
<1>3. /\ Len(handoff) = Len(items)
      /\ items[i] = value(p)
      /\ \A j \in 1 .. Len(handoff) : handoff[j] = handoff[i] => j = i
  BY <1>1, <1>2 DEF DInv, HandsPaired
<1>4. i \in 1 .. Len(items) /\ \A j \in 1 .. Len(items) : items[j] = items[i] => j = i
  BY <1>3 DEF DInv, ValuesPlaced, PlacedOnce, Once
<1>5. items \in Seq(Values) /\ handoff \in Seq(Senders \cup {Nobody})
  BY DEF DInv, DataOK
<1>6. RemoveAt(items, i) = RemoveFirst(items, items[i])
  BY <1>4, <1>5, OnlyPlace
<1>7. RemoveAt(handoff, i) = RemoveFirst(handoff, handoff[i])
  BY <1>3, <1>5, OnlyPlace
<1>. QED
  BY <1>1, <1>3, <1>4, <1>6, <1>7

(* What the lists hold                                                     *)
LEMMA ListsStep ==
    ASSUME DInv, NEW p \in Callers, Data(p)
    PROVE  /\ items' \in Seq(Values) /\ handoff' \in Seq(Senders \cup {Nobody})
           /\ taken' \in Seq(Values)
           /\ accepted' \in SUBSET Values /\ refused' \in SUBSET Values
<1>1. /\ items \in Seq(Values) /\ handoff \in Seq(Senders \cup {Nobody}) /\ taken \in Seq(Values)
      /\ accepted \in SUBSET Values /\ refused \in SUBSET Values
      /\ calls \in [Callers -> Nat]
  BY DEF DInv, DataOK
<1>2. p \in Senders => value(p) \in Values
  BY <1>1, ValueNow DEF Data
<1>3. CASE Stored(p) \/ Offered(p)
  <2>1. p \in Senders /\ items' = Append(items, value(p)) /\ taken' = taken /\ refused' = refused
        /\ accepted' \in {accepted, accepted \cup {value(p)}}
        /\ (handoff' = handoff \/ \E x \in Senders \cup {Nobody} : handoff' = Append(handoff, x))
    BY <1>3 DEF Stored, Offered
  <2>2. items' \in Seq(Values)
    BY <1>1, <1>2, <2>1, AppendFacts
  <2>3. handoff' \in Seq(Senders \cup {Nobody})
    <3>1. CASE handoff' = handoff
      BY <1>1, <3>1
    <3>2. ASSUME NEW x \in Senders \cup {Nobody}, handoff' = Append(handoff, x)
           PROVE  handoff' \in Seq(Senders \cup {Nobody})
      BY ONLY <1>1, <3>2, AppendFacts
    <3>. QED
      BY <2>1, <3>1, <3>2
  <2>. QED
    BY <1>1, <1>2, <2>1, <2>2, <2>3
<1>4. CASE Withdrawn(p)
  <2>1. PICK i \in 1 .. Len(handoff) :
              i \in 1 .. Len(items) /\ items' = RemoveAt(items, i) /\ handoff' = RemoveAt(handoff, i)
    BY <1>4, WithdrawnFacts
  <2>2. items' \in Seq(Values) /\ handoff' \in Seq(Senders \cup {Nobody})
    BY <1>1, <2>1, RemovedAt
  <2>3. p \in Senders /\ refused' = refused \cup {value(p)} /\ taken' = taken /\ accepted' = accepted
    BY <1>4 DEF Withdrawn, InHand
  <2>4. taken' \in Seq(Values) /\ accepted' \in SUBSET Values
    BY <1>1, <2>3
  <2>5. refused' \in SUBSET Values
    BY <1>1, <1>2, <2>3
  <2>. QED
    BY <2>2, <2>4, <2>5
<1>5. CASE Received(p)
  <2>1. items # <<>> /\ items' = Tail(items) /\ taken' = Append(taken, Head(items))
        /\ handoff' \in {handoff, Tail(handoff)} /\ (handoff' # handoff => Capacity = 0)
        /\ accepted' = accepted /\ refused' = refused
    BY <1>5 DEF Received
  <2>2. Head(items) \in Values /\ items' \in Seq(Values) /\ Len(items) > 0
    BY <1>1, <2>1, TailFacts
  <2>3. taken' \in Seq(Values)
    BY <1>1, <2>1, <2>2, AppendFacts
  <2>4. Capacity = 0 => handoff # <<>>
    BY <1>1, <2>2, EmptySeq DEF DInv, HandsPaired
  <2>5. handoff' \in Seq(Senders \cup {Nobody})
    <3>1. CASE handoff' = handoff
      BY <1>1, <3>1
    <3>2. CASE handoff' # handoff
      <4>1. handoff' = Tail(handoff) /\ handoff # <<>>
        BY <2>1, <2>4, <3>2
      <4>. QED
        BY ONLY <1>1, <4>1, TailFacts
    <3>. QED
      BY <3>1, <3>2
  <2>. QED
    BY <1>1, <2>1, <2>2, <2>3, <2>5
<1>6. CASE Confirmed(p) \/ Refused(p) \/ Slotted(p) \/ Thrown(p) \/ Goes(p)
  <2>1. /\ items' = items /\ handoff' = handoff /\ taken' = taken
        /\ accepted' = accepted \/ (accepted' = accepted \cup {value(p)} /\ p \in Senders)
        /\ refused' = refused \/ (refused' = refused \cup {value(p)} /\ p \in Senders)
    BY <1>6 DEF Confirmed, Refused, Slotted, Thrown, Goes, InHand
  <2>2. accepted' \in SUBSET Values
    BY <1>1, <1>2, <2>1
  <2>3. refused' \in SUBSET Values
    BY <1>1, <1>2, <2>1
  <2>. QED
    BY <1>1, <2>1, <2>2, <2>3
<1>. QED
  BY <1>3, <1>4, <1>5, <1>6 DEF Data

(* A channel that holds values has room for those that are on their way.   *)
LEMMA RoomStep ==
    ASSUME DInv, NEW p \in Callers, Data(p), Capacity > 0
    PROVE  Len(items') + reserved' <= Capacity
<1>1. /\ items \in Seq(Values) /\ Len(items) \in Nat /\ reserved \in Nat /\ Capacity \in Nat
      /\ Len(items) + reserved <= Capacity
  BY LenProperties DEF DInv, DataOK, RoomKept
<1>2. CASE Stored(p)
  <2>1. Len(items') = Len(items) + 1
    BY <1>1, <1>2, AppendFacts, ValueNow DEF Stored, Data, DInv, DataOK
  <2>2. reserved' = reserved - 1 \/ (reserved' = reserved /\ Len(items) + reserved < Capacity)
    BY <1>2 DEF Stored, Room
  <2>. QED
    BY <1>1, <2>1, <2>2
<1>3. CASE Received(p)
  BY <1>1, <1>3, TailFacts DEF Received
<1>4. CASE Slotted(p)
  BY <1>1, <1>4 DEF Slotted, Room
<1>5. CASE Refused(p)
  BY <1>1, <1>5 DEF Refused
<1>6. CASE Thrown(p) \/ Goes(p)
  BY <1>1, <1>6 DEF Thrown, Goes
<1>7. ~Offered(p) /\ ~Confirmed(p) /\ ~Withdrawn(p)
  BY DEF Offered, Confirmed, Withdrawn, InHand
<1>. QED
  BY <1>2, <1>3, <1>4, <1>5, <1>6, <1>7 DEF Data

(* The hand-over queue pairs values with their senders.                    *)
LEMMA HandsStep ==
    ASSUME DInv, NEW p \in Callers, Data(p)
    PROVE  HandsPaired'
<1>. DEFINE n == Len(items)
<1>1. /\ items \in Seq(Values) /\ handoff \in Seq(Senders \cup {Nobody}) /\ n \in Nat
      /\ Capacity \in Nat /\ Nobody \notin Callers /\ Senders \subseteq Callers
  BY Names, LenProperties DEF DInv, DataOK
<1>2. CASE Capacity > 0
  <2>1. handoff = <<>> /\ Capacity # 0
    BY <1>1, <1>2 DEF DInv, HandsPaired
  <2>2. handoff' = <<>>
    BY <2>1 DEF Data, Stored, Offered, Confirmed, Withdrawn, Refused, Slotted, Received, Thrown, Goes, InHand
  <2>3. Len(handoff') = 0
    BY <2>2
  <2>. QED
    BY <2>1, <2>2, <2>3 DEF HandsPaired
<1>3. CASE Capacity = 0
  <2>1. /\ Len(handoff) = n
        /\ \A i \in 1 .. n : handoff[i] # Nobody => InHand(handoff[i]) /\ items[i] = value(handoff[i])
        /\ \A i, j \in 1 .. n : handoff[i] = handoff[j] /\ handoff[i] # Nobody => i = j
        /\ Senders \cap Trying = {} => \A i \in 1 .. n : handoff[i] # Nobody
        /\ \A i \in 1 .. n : handoff[i] \in Senders \cup {Nobody}
    BY <1>1, <1>3, LenProperties DEF DInv, HandsPaired
  <2>. DEFINE Waiting(q, v) == q \in Senders /\ pc'[q] \in Hands /\ v = <<q, calls'[q] + 1>>
  <2>2. ASSUME NEW i \in 1 .. n, handoff[i] # Nobody, handoff[i] # p
         PROVE  Waiting(handoff[i], items[i])
    <3>1. InHand(handoff[i]) /\ items[i] = value(handoff[i]) /\ handoff[i] \in Callers
      BY <1>1, <2>1, <2>2
    <3>2. pc'[handoff[i]] = pc[handoff[i]] /\ calls'[handoff[i]] = calls[handoff[i]]
      BY <2>2, <3>1, Others DEF DInv
    <3>. QED
      BY <3>1, <3>2 DEF InHand, value
  <2>3. ~InHand(p) => \A i \in 1 .. n : handoff[i] # p
    BY <1>1, <2>1
  <2>4. CASE Stored(p)
    <3>1. /\ items' = Append(items, value(p)) /\ handoff' = Append(handoff, Nobody)
          /\ p \in Senders /\ pc[p] = "push" /\ ~InHand(p)
      BY <1>3, <2>4 DEF Stored, InHand, Hands, Waits, Tokens, Withdraws
    <3>2. p \in Trying
      BY <1>3, <3>1, Names DEF DInv, Placed, Places, Hands, Waits, Tokens, Withdraws
    <3>3. /\ Len(items') = n + 1 /\ Len(handoff') = n + 1
          /\ \A i \in 1 .. n : items'[i] = items[i] /\ handoff'[i] = handoff[i]
          /\ handoff'[n + 1] = Nobody
      BY <1>1, <2>1, <3>1, ValueNow, AppendProperties DEF Data, DInv, DataOK
    <3>4. ASSUME NEW i \in 1 .. Len(handoff'), handoff'[i] # Nobody
           PROVE  i \in 1 .. n /\ handoff'[i] = handoff[i] /\ items'[i] = items[i]
      BY <1>1, <3>3, <3>4
    <3>5. ASSUME NEW i \in 1 .. Len(handoff'), handoff'[i] # Nobody
           PROVE  Waiting(handoff'[i], items'[i])
      <4>1. i \in 1 .. n /\ handoff'[i] = handoff[i] /\ items'[i] = items[i] /\ handoff[i] # p
        BY <2>3, <3>1, <3>4, <3>5
      <4>2. Waiting(handoff[i], items[i])
        BY <2>2, <3>5, <4>1
      <4>. QED
        BY <4>1, <4>2
    <3>6. \A i, j \in 1 .. Len(handoff') : handoff'[i] = handoff'[j] /\ handoff'[i] # Nobody => i = j
      BY <2>1, <3>4
    <3>. QED
      BY <1>1, <1>3, <3>1, <3>2, <3>3, <3>5, <3>6 DEF HandsPaired, InHand, value
  <2>5. CASE Offered(p)
    <3>1. /\ items' = Append(items, value(p)) /\ handoff' = Append(handoff, p)
          /\ p \in Senders /\ ~InHand(p) /\ pc' = [pc EXCEPT ![p] = "taken"] /\ calls' = calls
      BY <2>5 DEF Offered, InHand, Hands, Waits, Tokens, Withdraws
    <3>2. pc'[p] \in Hands /\ p # Nobody
      BY <3>1, Names DEF DInv, DataOK, Hands
    <3>3. /\ Len(items') = n + 1 /\ Len(handoff') = n + 1
          /\ \A i \in 1 .. n : items'[i] = items[i] /\ handoff'[i] = handoff[i]
          /\ handoff'[n + 1] = p /\ items'[n + 1] = <<p, calls'[p] + 1>>
      BY <1>1, <2>1, <3>1, ValueNow, AppendProperties DEF Data, DInv, DataOK, value
    <3>4. ASSUME NEW i \in 1 .. Len(handoff')
           PROVE  \/ i \in 1 .. n /\ handoff'[i] = handoff[i] /\ items'[i] = items[i] /\ handoff[i] # p
                  \/ i = n + 1
      <4>1. i \in 1 .. n \/ i = n + 1
        BY <1>1, <3>3
      <4>. QED
        BY <2>3, <3>1, <3>3, <4>1
    <3>5. ASSUME NEW i \in 1 .. Len(handoff'), handoff'[i] # Nobody
           PROVE  Waiting(handoff'[i], items'[i])
      <4>1. CASE i \in 1 .. n /\ handoff'[i] = handoff[i] /\ items'[i] = items[i] /\ handoff[i] # p
        <5>1. Waiting(handoff[i], items[i])
          BY <2>2, <3>5, <4>1
        <5>. QED
          BY <4>1, <5>1
      <4>2. CASE i = n + 1
        BY <3>1, <3>2, <3>3, <4>2
      <4>. QED
        BY <3>4, <4>1, <4>2
    <3>6. \A i, j \in 1 .. Len(handoff') : handoff'[i] = handoff'[j] /\ handoff'[i] # Nobody => i = j
      BY <2>1, <3>3, <3>4
    <3>7. Senders \cap Trying = {} => \A i \in 1 .. Len(handoff') : handoff'[i] # Nobody
      BY <2>1, <3>2, <3>3, <3>4
    <3>. QED
      BY <1>1, <1>3, <3>3, <3>5, <3>6, <3>7 DEF HandsPaired, InHand, value
  <2>6. CASE Withdrawn(p)
    <3>1. PICK m \in 1 .. Len(handoff) :
             /\ m \in 1 .. Len(items) /\ handoff[m] = p
             /\ items' = RemoveAt(items, m) /\ handoff' = RemoveAt(handoff, m)
      BY <2>6, WithdrawnFacts
    <3>2. /\ Len(items') = n - 1 /\ Len(handoff') = n - 1 /\ m \in 1 .. n
          /\ \A i \in 1 .. n - 1 : items'[i] = IF i <= m - 1 THEN items[i] ELSE items[i + 1]
          /\ \A i \in 1 .. n - 1 : handoff'[i] = IF i <= m - 1 THEN handoff[i] ELSE handoff[i + 1]
      <4>1. /\ Len(RemoveAt(items, m)) = n - 1
            /\ \A i \in 1 .. n - 1 : RemoveAt(items, m)[i] = IF i <= m - 1 THEN items[i] ELSE items[i + 1]
        BY ONLY <1>1, <3>1, RemovedAt
      <4>2. Len(handoff) = n
        BY <2>1
      <4>3. /\ Len(RemoveAt(handoff, m)) = n - 1
            /\ \A i \in 1 .. n - 1 : RemoveAt(handoff, m)[i] = IF i <= m - 1 THEN handoff[i] ELSE handoff[i + 1]
        BY ONLY <1>1, <3>1, <4>2, RemovedAt
      <4>. QED
        BY <3>1, <4>1, <4>2, <4>3
    <3>. DEFINE old(i) == IF i <= m - 1 THEN i ELSE i + 1
    <3>3. ASSUME NEW i \in 1 .. n - 1
           PROVE  /\ old(i) \in 1 .. n /\ old(i) # m
                  /\ handoff'[i] = handoff[old(i)] /\ items'[i] = items[old(i)]
      BY <1>1, <3>2
    <3>4. \A i, j \in 1 .. n - 1 : old(i) = old(j) => i = j
      BY <1>1, <3>2
    <3>. HIDE DEF old
    <3>5. p # Nobody
      BY <1>1
    <3>6. ASSUME NEW i \in 1 .. Len(handoff'), handoff'[i] # Nobody
           PROVE  Waiting(handoff'[i], items'[i])
      <4>1. /\ old(i) \in 1 .. n /\ old(i) # m
            /\ handoff'[i] = handoff[old(i)] /\ items'[i] = items[old(i)]
        BY <3>2, <3>3
      <4>2. handoff[old(i)] # p
        BY <2>1, <3>1, <3>2, <3>5, <4>1
      <4>3. Waiting(handoff[old(i)], items[old(i)])
        BY <2>2, <3>6, <4>1, <4>2
      <4>. QED
        BY <4>1, <4>3
    <3>7. \A i, j \in 1 .. Len(handoff') : handoff'[i] = handoff'[j] /\ handoff'[i] # Nobody => i = j
      BY <2>1, <3>2, <3>3, <3>4
    <3>8. Senders \cap Trying = {} => \A i \in 1 .. Len(handoff') : handoff'[i] # Nobody
      BY <2>1, <3>2, <3>3
    <3>. QED
      BY <1>1, <1>3, <3>2, <3>6, <3>7, <3>8 DEF HandsPaired, InHand, value
  <2>7. CASE Received(p)
    <3>1. items # <<>> /\ items' = Tail(items) /\ handoff' = Tail(handoff) /\ p \notin Senders
      BY <1>3, <2>7, Names DEF Received
    <3>2. n > 0
      BY <1>1, <3>1, EmptySeq
    <3>3. handoff # <<>>
      BY <2>1, <3>2, EmptySeq
    <3>4. /\ Len(items') = n - 1 /\ Len(handoff') = n - 1
          /\ \A i \in 1 .. n - 1 : items'[i] = items[i + 1] /\ handoff'[i] = handoff[i + 1]
      BY <1>1, <2>1, <3>1, <3>3, HeadTailProperties
    <3>5. ASSUME NEW i \in 1 .. n - 1
           PROVE  i + 1 \in 1 .. n /\ handoff'[i] = handoff[i + 1] /\ items'[i] = items[i + 1]
      BY <1>1, <3>4
    <3>6. ASSUME NEW i \in 1 .. Len(handoff'), handoff'[i] # Nobody
           PROVE  Waiting(handoff'[i], items'[i])
      <4>1. i + 1 \in 1 .. n /\ handoff'[i] = handoff[i + 1] /\ items'[i] = items[i + 1]
        BY <3>4, <3>5
      <4>2. handoff[i + 1] # p
        BY <2>3, <3>1, <4>1 DEF InHand
      <4>3. Waiting(handoff[i + 1], items[i + 1])
        BY <2>2, <3>6, <4>1, <4>2
      <4>. QED
        BY <4>1, <4>3
    <3>7. \A i, j \in 1 .. Len(handoff') : handoff'[i] = handoff'[j] /\ handoff'[i] # Nobody => i = j
      <4>. SUFFICES ASSUME NEW i \in 1 .. n - 1, NEW j \in 1 .. n - 1, handoff'[i] = handoff'[j], handoff'[i] # Nobody
                    PROVE  i = j
        BY <3>4
      <4>1. i + 1 = j + 1
        BY <2>1, <3>5
      <4>. QED
        BY <1>1, <4>1
    <3>8. Senders \cap Trying = {} => \A i \in 1 .. Len(handoff') : handoff'[i] # Nobody
      BY <2>1, <3>4, <3>5
    <3>. QED
      BY <1>1, <1>3, <3>4, <3>6, <3>7, <3>8 DEF HandsPaired, InHand, value
  <2>8. CASE Confirmed(p) \/ Refused(p) \/ Slotted(p) \/ Thrown(p) \/ Goes(p)
    <3>1. items' = items /\ handoff' = handoff
      BY <2>8 DEF Confirmed, Refused, Slotted, Thrown, Goes
    <3>2. ASSUME NEW i \in 1 .. n, handoff[i] = p
           PROVE  Waiting(p, items[i])
      <4>1. InHand(p) /\ items[i] = value(p) /\ Contains(handoff, p)
        BY <1>1, <2>1, <3>2 DEF Contains
      <4>2. Goes(p)
        BY <2>8, <4>1, Names DEF Confirmed, Refused, Slotted, Thrown, InHand
      <4>3. p \in Senders /\ pc'[p] \in Hands /\ calls' = calls
        BY <1>3, <4>1, <4>2, Names DEF Goes, InHand, DInv, DataOK
      <4>. QED
        BY <4>1, <4>3 DEF value
    <3>3. ASSUME NEW i \in 1 .. n, handoff[i] # Nobody
           PROVE  Waiting(handoff[i], items[i])
      BY <2>2, <3>2, <3>3
    <3>. QED
      BY <1>1, <1>3, <2>1, <3>1, <3>3 DEF HandsPaired, InHand, value
  <2>. QED
    BY <2>4, <2>5, <2>6, <2>7, <2>8 DEF Data
<1>. QED
  BY <1>1, <1>2, <1>3

(* The fate of every value, when it is queued                              *)
LEMMA QueuedFate ==
    ASSUME DInv, NEW p \in Callers, Data(p), Stored(p) \/ Offered(p)
    PROVE  ValuesPlaced'
<1>. DEFINE w == value(p)
<1>1. /\ items \in Seq(Values) /\ handoff \in Seq(Senders \cup {Nobody})
      /\ calls \in [Callers -> Nat] /\ accepted \in SUBSET Values /\ refused \in SUBSET Values
      /\ Senders \subseteq Callers
  BY Names DEF DInv, DataOK
<1>2. p \in Senders /\ ~InHand(p)
  BY Names DEF Stored, Offered, InHand, Hands, Waits, Tokens, Withdraws
<1>3. w \in Values /\ w[1] = p /\ w[2] = calls[p] + 1 /\ calls[p] \in Nat
  BY <1>1, <1>2, ValueNow DEF Data
<1>4. ~(w[2] <= calls[w[1]])
  BY <1>3
<1>5. ~Contains(items, w) /\ ~Contains(taken, w)
  BY <1>2, <1>3, <1>4 DEF DInv, ValuesPlaced, PlacedInTime
<1>6. items' = Append(items, w) /\ taken' = taken /\ refused' = refused
  BY DEF Stored, Offered
<1>7. \A x : Contains(items', x) <=> Contains(items, x) \/ x = w
  BY <1>1, <1>3, <1>6, AppendFacts
<1>8. \A x : Contains(taken', x) <=> Contains(taken, x)
  BY <1>6
<1>9. \A x : Contains(handoff, x) => Contains(handoff', x)
  <2>1. \/ handoff' = handoff \/ handoff' = Append(handoff, Nobody) \/ handoff' = Append(handoff, p)
    BY DEF Stored, Offered
  <2>2. \A x : Contains(handoff, x) => Contains(Append(handoff, Nobody), x)
    BY ONLY <1>1, AppendFacts
  <2>3. \A x : Contains(handoff, x) => Contains(Append(handoff, p), x)
    BY ONLY <1>1, <1>2, AppendFacts
  <2>. QED
    BY <2>1, <2>2, <2>3
<1>10. \A v \in Values : v[1] \in Callers /\ v[2] \in Nat
  BY <1>1, ValueNames
<1>11. \A q \in Callers : calls[q] \in Nat /\ calls'[q] \in Nat /\ calls[q] <= calls'[q]
  BY CallsGrow DEF DInv
<1>12. \A v \in Values : v[2] <= calls[v[1]] => v[2] <= calls'[v[1]]
  BY <1>10, <1>11
<1>13. Stored(p) => calls'[p] = calls[p] + 1 /\ ~InHand(p)'
  BY Itself DEF Stored, DInv
<1>14. Offered(p) => InHand(p)' /\ calls'[p] = calls[p] /\ value(p)' = w /\ Contains(handoff', p)
  <2>1. ASSUME Offered(p)
         PROVE  pc' = [pc EXCEPT ![p] = "taken"] /\ calls' = calls /\ Capacity = 0 /\ handoff' = Append(handoff, p)
    BY <2>1 DEF Offered
  <2>2. ASSUME Offered(p)
         PROVE  pc'[p] \in Hands /\ calls'[p] = calls[p]
    BY <2>1, <2>2, Names DEF DInv, DataOK, Hands
  <2>3. ASSUME Offered(p)
         PROVE  Contains(handoff', p)
    <3>1. Contains(Append(handoff, p), p)
      BY ONLY <1>1, <1>2, AppendFacts
    <3>. QED
      BY <2>1, <2>3, <3>1
  <2>. QED
    BY <1>2, <2>1, <2>2, <2>3 DEF InHand, value
<1>. HIDE DEF w
<1>15. PlacedOnce'
  <2>1. Once(items') /\ Once(taken')
    BY <1>1, <1>3, <1>5, <1>6, AppendFacts DEF DInv, ValuesPlaced, PlacedOnce
  <2>2. \A v \in Values : ~(Contains(items', v) /\ Contains(taken', v))
    BY <1>5, <1>7, <1>8 DEF DInv, ValuesPlaced, PlacedOnce
  <2>. QED
    BY <2>1, <2>2 DEF PlacedOnce
<1>16. PlacedInTime'
  <2>. SUFFICES ASSUME NEW v \in Values, Contains(items', v) \/ Contains(taken', v)
                PROVE  v[2] <= calls'[v[1]] \/ (v = value(v[1])' /\ InHand(v[1])')
    BY DEF PlacedInTime
  <2>1. CASE v = w
    BY <1>3, <1>13, <1>14, <2>1
  <2>2. CASE v # w
    <3>1. v[2] <= calls[v[1]] \/ (v = value(v[1]) /\ InHand(v[1]))
      BY <1>7, <1>8, <2>2 DEF DInv, ValuesPlaced, PlacedInTime
    <3>2. v[1] # p => value(v[1])' = value(v[1]) /\ (InHand(v[1])' <=> InHand(v[1]))
      BY <1>10, Others DEF DInv
    <3>. QED
      BY <1>2, <1>12, <3>1, <3>2
  <2>. QED
    BY <2>1, <2>2
<1>17. AcceptedPlaced'
  <2>. SUFFICES ASSUME NEW v \in accepted'
                PROVE  v[2] <= calls'[v[1]] /\ (Contains(items', v) \/ Contains(taken', v))
    BY DEF AcceptedPlaced
  <2>1. v \in accepted \/ (v = w /\ Stored(p))
    BY DEF Stored, Offered, w
  <2>2. CASE v \in accepted
    BY <1>1, <1>7, <1>8, <1>12, <2>2 DEF DInv, ValuesPlaced, AcceptedPlaced
  <2>3. CASE v = w /\ Stored(p)
    BY <1>3, <1>7, <1>13, <2>3
  <2>. QED
    BY <2>1, <2>2, <2>3
<1>18. RefusedNowhere'
  <2>. SUFFICES ASSUME NEW v \in refused
                PROVE  v[2] <= calls'[v[1]] /\ ~Contains(items', v) /\ ~Contains(taken', v)
    BY <1>6 DEF RefusedNowhere
  <2>1. v[2] <= calls[v[1]] /\ ~Contains(items, v) /\ ~Contains(taken, v) /\ v \in Values
    BY <1>1 DEF DInv, ValuesPlaced, RefusedNowhere
  <2>2. v # w
    BY <1>4, <2>1
  <2>. QED
    BY <1>7, <1>8, <1>12, <2>1, <2>2
<1>19. Settled'
  <2>. SUFFICES ASSUME NEW v \in Values, v[2] <= calls'[v[1]]
                PROVE  v \in accepted' \cup refused'
    BY DEF Settled
  <2>1. accepted \subseteq accepted' /\ refused' = refused
    BY <1>6 DEF Stored, Offered
  <2>2. CASE v[2] <= calls[v[1]]
    BY <2>1, <2>2 DEF DInv, ValuesPlaced, Settled
  <2>3. CASE ~(v[2] <= calls[v[1]])
    <3>1. v[1] = p
      BY <1>10, <2>3, Others DEF DInv
    <3>2. Stored(p) /\ v[2] = calls[p] + 1
      BY <1>3, <1>10, <1>13, <1>14, <2>3, <3>1
    <3>3. v = w /\ w \in accepted'
      BY <3>1, <3>2, ValueNames DEF Stored, w, value
    <3>. QED
      BY <3>3
  <2>. QED
    BY <2>2, <2>3
<1>20. HandedTaken'
  <2>. SUFFICES ASSUME NEW s \in Senders, InHand(s)', ~Contains(handoff', s)
                PROVE  Contains(taken', value(s)')
    BY DEF HandedTaken
  <2>1. s # p
    BY <1>13, <1>14
  <2>2. InHand(s) /\ ~Contains(handoff, s) /\ value(s)' = value(s)
    BY <1>1, <1>9, <2>1, Others DEF DInv
  <2>3. Contains(taken, value(s))
    BY <2>2 DEF DInv, ValuesPlaced, HandedTaken
  <2>. QED
    BY <1>8, <2>2, <2>3
<1>. QED
  BY <1>15, <1>16, <1>17, <1>18, <1>19, <1>20 DEF ValuesPlaced

(* The fate of every value, when one is withdrawn                          *)
LEMMA WithdrawnFate ==
    ASSUME DInv, NEW p \in Callers, Data(p), Withdrawn(p)
    PROVE  ValuesPlaced'
<1>. DEFINE w == value(p)
<1>1. /\ items \in Seq(Values) /\ handoff \in Seq(Senders \cup {Nobody})
      /\ calls \in [Callers -> Nat] /\ accepted \in SUBSET Values /\ refused \in SUBSET Values
      /\ Senders \subseteq Callers
  BY Names DEF DInv, DataOK
<1>2. /\ p \in Senders /\ taken' = taken /\ accepted' = accepted /\ refused' = refused \cup {w}
      /\ Ended(p)
  BY DEF Withdrawn, InHand
<1>3. w \in Values /\ w[1] = p /\ w[2] = calls[p] + 1 /\ calls[p] \in Nat
  BY <1>1, <1>2, ValueNow DEF Data
<1>4. Contains(items, w) /\ items' = RemoveFirst(items, w) /\ handoff' = RemoveFirst(handoff, p)
  BY WithdrawnFacts DEF Contains
<1>5. calls'[p] = calls[p] + 1 /\ ~InHand(p)'
  BY <1>2, Itself DEF DInv
<1>. HIDE DEF w
<1>6. ~Contains(taken, w) /\ Once(items) /\ Once(taken)
  BY <1>3, <1>4 DEF DInv, ValuesPlaced, PlacedOnce
<1>7. Once(items') /\ \A x : Contains(items', x) <=> Contains(items, x) /\ x # w
  BY <1>1, <1>4, <1>6, RemoveFacts
<1>8. \A x : x # p => (Contains(handoff', x) <=> Contains(handoff, x))
  BY ONLY <1>1, <1>4, RemoveFacts
<1>9. \A v \in Values : v[1] \in Callers /\ v[2] \in Nat
  BY <1>1, ValueNames
<1>10. \A v \in Values : v[2] <= calls[v[1]] => v[2] <= calls'[v[1]]
  BY <1>9, CallsGrow DEF DInv
<1>11. ~(w[2] <= calls[w[1]])
  BY <1>3
<1>12. PlacedOnce'
  BY <1>2, <1>6, <1>7 DEF DInv, ValuesPlaced, PlacedOnce
<1>13. PlacedInTime'
  <2>. SUFFICES ASSUME NEW v \in Values, Contains(items', v) \/ Contains(taken', v)
                PROVE  v[2] <= calls'[v[1]] \/ (v = value(v[1])' /\ InHand(v[1])')
    BY DEF PlacedInTime
  <2>1. v # w /\ (Contains(items, v) \/ Contains(taken, v))
    BY <1>2, <1>6, <1>7
  <2>2. v[2] <= calls[v[1]] \/ (v = value(v[1]) /\ InHand(v[1]))
    BY <2>1 DEF DInv, ValuesPlaced, PlacedInTime
  <2>3. v[1] # p => value(v[1])' = value(v[1]) /\ (InHand(v[1])' <=> InHand(v[1]))
    BY <1>9, Others DEF DInv
  <2>4. v[1] = p => v # value(v[1])
    BY <2>1 DEF w
  <2>. QED
    BY <1>10, <2>2, <2>3, <2>4
<1>14. AcceptedPlaced'
  <2>. SUFFICES ASSUME NEW v \in accepted
                PROVE  v[2] <= calls'[v[1]] /\ (Contains(items', v) \/ Contains(taken', v))
    BY <1>2 DEF AcceptedPlaced
  <2>1. v[2] <= calls[v[1]] /\ (Contains(items, v) \/ Contains(taken, v)) /\ v \in Values
    BY <1>1 DEF DInv, ValuesPlaced, AcceptedPlaced
  <2>2. v # w
    BY <1>11, <2>1
  <2>. QED
    BY <1>2, <1>7, <1>10, <2>1, <2>2
<1>15. RefusedNowhere'
  <2>. SUFFICES ASSUME NEW v \in refused \cup {w}
                PROVE  v[2] <= calls'[v[1]] /\ ~Contains(items', v) /\ ~Contains(taken', v)
    BY <1>2 DEF RefusedNowhere
  <2>1. CASE v = w
    BY <1>2, <1>3, <1>5, <1>6, <1>7, <2>1
  <2>2. CASE v \in refused
    BY <1>1, <1>2, <1>7, <1>10, <2>2 DEF DInv, ValuesPlaced, RefusedNowhere
  <2>. QED
    BY <2>1, <2>2
<1>16. Settled'
  <2>. SUFFICES ASSUME NEW v \in Values, v[2] <= calls'[v[1]]
                PROVE  v \in accepted' \cup refused'
    BY DEF Settled
  <2>1. CASE v[2] <= calls[v[1]]
    BY <1>2, <2>1 DEF DInv, ValuesPlaced, Settled
  <2>2. CASE ~(v[2] <= calls[v[1]])
    <3>1. v[1] = p
      BY <1>9, <2>2, Others DEF DInv
    <3>2. v[2] = calls[p] + 1
      BY <1>3, <1>5, <1>9, <2>2, <3>1
    <3>3. v = w
      BY <3>1, <3>2, ValueNames DEF w, value
    <3>. QED
      BY <1>2, <3>3
  <2>. QED
    BY <2>1, <2>2
<1>17. HandedTaken'
  <2>. SUFFICES ASSUME NEW s \in Senders, InHand(s)', ~Contains(handoff', s)
                PROVE  Contains(taken', value(s)')
    BY DEF HandedTaken
  <2>1. s # p
    BY <1>5
  <2>2. InHand(s) /\ ~Contains(handoff, s) /\ value(s)' = value(s)
    BY <1>1, <1>8, <2>1, Others DEF DInv
  <2>3. Contains(taken, value(s))
    BY <2>2 DEF DInv, ValuesPlaced, HandedTaken
  <2>. QED
    BY <1>2, <2>2, <2>3
<1>. QED
  BY <1>12, <1>13, <1>14, <1>15, <1>16, <1>17 DEF ValuesPlaced

(* The fate of every value, when one is received                           *)
LEMMA ReceivedFate ==
    ASSUME DInv, NEW p \in Callers, Data(p), Received(p)
    PROVE  ValuesPlaced'
<1>. DEFINE w == Head(items)
<1>1. /\ items \in Seq(Values) /\ handoff \in Seq(Senders \cup {Nobody}) /\ taken \in Seq(Values)
      /\ accepted \in SUBSET Values /\ refused \in SUBSET Values
      /\ Senders \subseteq Callers
  BY Names DEF DInv, DataOK
<1>2. /\ p \notin Senders /\ items # <<>> /\ items' = Tail(items) /\ taken' = Append(taken, w)
      /\ handoff' = (IF Capacity = 0 THEN Tail(handoff) ELSE handoff)
      /\ accepted' = accepted /\ refused' = refused
  BY Names DEF Received
<1>3. /\ w \in Values /\ w = items[1] /\ Len(items) > 0
      /\ \A x : Contains(items, x) <=> Contains(items', x) \/ x = w
      /\ Once(items') /\ ~Contains(items', w)
  BY <1>1, <1>2, TailFacts DEF DInv, ValuesPlaced, PlacedOnce
<1>. HIDE DEF w
<1>4. Contains(items, w)
  BY <1>3
<1>5. ~Contains(taken, w) /\ Once(taken)
  BY <1>3, <1>4 DEF DInv, ValuesPlaced, PlacedOnce
<1>6. Once(taken') /\ \A x : Contains(taken', x) <=> Contains(taken, x) \/ x = w
  BY <1>1, <1>2, <1>3, <1>5, AppendFacts
<1>7. \A v \in Values : v[1] \in Senders /\ v[1] \in Callers /\ v[1] # p
  BY <1>1, <1>2, ValueNames
<1>8. \A v \in Values : calls'[v[1]] = calls[v[1]]
  BY <1>7, Others DEF DInv
<1>9. PlacedOnce'
  BY <1>3, <1>5, <1>6 DEF DInv, ValuesPlaced, PlacedOnce
<1>10. PlacedInTime'
  <2>. SUFFICES ASSUME NEW v \in Values, Contains(items', v) \/ Contains(taken', v)
                PROVE  v[2] <= calls'[v[1]] \/ (v = value(v[1])' /\ InHand(v[1])')
    BY DEF PlacedInTime
  <2>1. Contains(items, v) \/ Contains(taken, v)
    BY <1>3, <1>6
  <2>2. v[2] <= calls[v[1]] \/ (v = value(v[1]) /\ InHand(v[1]))
    BY <2>1 DEF DInv, ValuesPlaced, PlacedInTime
  <2>3. value(v[1])' = value(v[1]) /\ (InHand(v[1])' <=> InHand(v[1]))
    BY <1>7, Others DEF DInv
  <2>. QED
    BY <1>8, <2>2, <2>3
<1>11. AcceptedPlaced'
  <2>. SUFFICES ASSUME NEW v \in accepted
                PROVE  v[2] <= calls'[v[1]] /\ (Contains(items', v) \/ Contains(taken', v))
    BY <1>2 DEF AcceptedPlaced
  <2>1. v[2] <= calls[v[1]] /\ (Contains(items, v) \/ Contains(taken, v)) /\ v \in Values
    BY <1>1 DEF DInv, ValuesPlaced, AcceptedPlaced
  <2>. QED
    BY <1>3, <1>6, <1>8, <2>1
<1>12. RefusedNowhere'
  <2>. SUFFICES ASSUME NEW v \in refused
                PROVE  v[2] <= calls'[v[1]] /\ ~Contains(items', v) /\ ~Contains(taken', v)
    BY <1>2 DEF RefusedNowhere
  <2>1. v[2] <= calls[v[1]] /\ ~Contains(items, v) /\ ~Contains(taken, v) /\ v \in Values
    BY <1>1 DEF DInv, ValuesPlaced, RefusedNowhere
  <2>. QED
    BY <1>3, <1>4, <1>6, <1>8, <2>1
<1>13. Settled'
  BY <1>2, <1>8 DEF DInv, ValuesPlaced, Settled
<1>14. HandedTaken'
  <2>. SUFFICES ASSUME NEW s \in Senders, InHand(s)', ~Contains(handoff', s)
                PROVE  Contains(taken', value(s)')
    BY DEF HandedTaken
  <2>1. InHand(s) /\ value(s)' = value(s) /\ Capacity = 0 /\ s # Nobody
    BY <1>1, <1>2, Names, Others DEF DInv, InHand
  <2>2. CASE ~Contains(handoff, s)
    BY <1>6, <2>1, <2>2 DEF DInv, ValuesPlaced, HandedTaken
  <2>3. CASE Contains(handoff, s)
    <3>1. Len(handoff) = Len(items) /\ handoff # <<>> /\ handoff' = Tail(handoff)
      BY <1>1, <1>2, <1>3, <2>1, EmptySeq DEF DInv, HandsPaired
    <3>2. s = handoff[1] /\ 1 \in 1 .. Len(handoff)
      BY <1>1, <2>3, <3>1, TailFacts
    <3>3. items[1] = value(s)
      BY <2>1, <3>2 DEF DInv, HandsPaired
    <3>. QED
      BY <1>3, <1>6, <2>1, <3>3
  <2>. QED
    BY <2>2, <2>3
<1>. QED
  BY <1>9, <1>10, <1>11, <1>12, <1>13, <1>14 DEF ValuesPlaced

(* The fate of every value, when none moves                                *)
LEMMA RestingFate ==
    ASSUME DInv, NEW p \in Callers, Data(p),
           Confirmed(p) \/ Refused(p) \/ Slotted(p) \/ Thrown(p) \/ Goes(p)
    PROVE  ValuesPlaced'
<1>. DEFINE w == value(p)
<1>1. /\ calls \in [Callers -> Nat] /\ accepted \in SUBSET Values /\ refused \in SUBSET Values
      /\ Senders \subseteq Callers
  BY Names DEF DInv, DataOK
<1>2. items' = items /\ handoff' = handoff /\ taken' = taken
  BY DEF Confirmed, Refused, Slotted, Thrown, Goes
<1>3. /\ accepted' = accepted \/ (Confirmed(p) /\ accepted' = accepted \cup {w})
      /\ refused' = refused \/ (Refused(p) /\ refused' = refused \cup {w})
      /\ p \in Senders => Confirmed(p) \/ Refused(p) \/ Slotted(p) \/ Goes(p)
  BY Names DEF Confirmed, Refused, Slotted, Thrown, Goes
<1>4. p \in Senders => w \in Values /\ w[1] = p /\ w[2] = calls[p] + 1 /\ calls[p] \in Nat
  BY <1>1, ValueNow DEF Data
<1>5. Confirmed(p) \/ Refused(p) =>
         /\ p \in Senders /\ calls'[p] = calls[p] + 1 /\ ~InHand(p)'
         /\ w \in accepted' \cup refused'
  BY Itself DEF DInv, Confirmed, Refused, InHand
<1>6. (Slotted(p) \/ Goes(p)) /\ p \in Senders =>
         /\ calls'[p] = calls[p] /\ value(p)' = w
         /\ InHand(p)' <=> InHand(p)
  <2>1. Slotted(p) => calls' = calls /\ ~InHand(p) /\ ~InHand(p)'
    BY Names DEF Slotted, InHand, DInv, DataOK, Hands, Waits, Tokens, Withdraws
  <2>2. Goes(p) /\ p \in Senders => calls' = calls /\ (InHand(p)' <=> InHand(p))
    BY Names DEF Goes, InHand, DInv, DataOK
  <2>. QED
    BY <2>1, <2>2 DEF value
<1>7. \A v \in Values : v[1] \in Senders /\ v[1] \in Callers /\ v[2] \in Nat
  BY <1>1, ValueNames
<1>8. \A v \in Values : v[2] <= calls[v[1]] => v[2] <= calls'[v[1]]
  BY <1>7, CallsGrow DEF DInv
<1>9. Refused(p) => ~Contains(items, w) /\ ~Contains(taken, w)
  BY <1>4 DEF Refused, DInv, ValuesPlaced, PlacedInTime
<1>10. Confirmed(p) => Contains(taken, w)
  BY DEF Confirmed, InHand, DInv, ValuesPlaced, HandedTaken
<1>. HIDE DEF w
<1>11. PlacedOnce'
  BY <1>2 DEF DInv, ValuesPlaced, PlacedOnce
<1>12. PlacedInTime'
  <2>. SUFFICES ASSUME NEW v \in Values, Contains(items, v) \/ Contains(taken, v)
                PROVE  v[2] <= calls'[v[1]] \/ (v = value(v[1])' /\ InHand(v[1])')
    BY <1>2 DEF PlacedInTime
  <2>1. v[2] <= calls[v[1]] \/ (v = value(v[1]) /\ InHand(v[1]))
    BY DEF DInv, ValuesPlaced, PlacedInTime
  <2>2. CASE v[1] # p
    <3>1. value(v[1])' = value(v[1]) /\ (InHand(v[1])' <=> InHand(v[1]))
      BY <1>7, <2>2, Others DEF DInv
    <3>. QED
      BY <1>8, <2>1, <3>1
  <2>3. CASE v[1] = p
    <3>1. p \in Senders
      BY <1>7, <2>3
    <3>2. CASE v = w
      BY <1>3, <1>4, <1>5, <1>6, <2>1, <2>3, <3>1, <3>2
    <3>3. CASE v # w
      BY <1>8, <2>1, <2>3, <3>3 DEF w
    <3>. QED
      BY <3>2, <3>3
  <2>. QED
    BY <2>2, <2>3
<1>13. AcceptedPlaced'
  <2>. SUFFICES ASSUME NEW v \in accepted'
                PROVE  v[2] <= calls'[v[1]] /\ (Contains(items, v) \/ Contains(taken, v))
    BY <1>2 DEF AcceptedPlaced
  <2>1. v \in accepted \/ (Confirmed(p) /\ v = w)
    BY <1>3
  <2>2. CASE v \in accepted
    BY <1>1, <1>8, <2>2 DEF DInv, ValuesPlaced, AcceptedPlaced
  <2>3. CASE Confirmed(p) /\ v = w
    BY <1>4, <1>5, <1>10, <2>3
  <2>. QED
    BY <2>1, <2>2, <2>3
<1>14. RefusedNowhere'
  <2>. SUFFICES ASSUME NEW v \in refused'
                PROVE  v[2] <= calls'[v[1]] /\ ~Contains(items, v) /\ ~Contains(taken, v)
    BY <1>2 DEF RefusedNowhere
  <2>1. v \in refused \/ (Refused(p) /\ v = w)
    BY <1>3
  <2>2. CASE v \in refused
    BY <1>1, <1>8, <2>2 DEF DInv, ValuesPlaced, RefusedNowhere
  <2>3. CASE Refused(p) /\ v = w
    BY <1>4, <1>5, <1>9, <2>3
  <2>. QED
    BY <2>1, <2>2, <2>3
<1>15. Settled'
  <2>. SUFFICES ASSUME NEW v \in Values, v[2] <= calls'[v[1]]
                PROVE  v \in accepted' \cup refused'
    BY DEF Settled
  <2>1. CASE v[2] <= calls[v[1]]
    BY <1>3, <2>1 DEF DInv, ValuesPlaced, Settled
  <2>2. CASE ~(v[2] <= calls[v[1]])
    <3>1. v[1] = p /\ p \in Senders
      BY <1>7, <2>2, Others DEF DInv
    <3>2. Confirmed(p) \/ Refused(p)
      BY <1>3, <1>6, <2>2, <3>1
    <3>3. v[2] = calls[p] + 1
      BY <1>4, <1>5, <1>7, <2>2, <3>1, <3>2
    <3>4. v = w
      BY <3>1, <3>3, ValueNames DEF w, value
    <3>. QED
      BY <1>5, <3>2, <3>4
  <2>. QED
    BY <2>1, <2>2
<1>16. HandedTaken'
  <2>. SUFFICES ASSUME NEW s \in Senders, InHand(s)', ~Contains(handoff, s)
                PROVE  Contains(taken, value(s)')
    BY <1>2 DEF HandedTaken
  <2>1. InHand(s) /\ value(s)' = value(s)
    <3>1. CASE s # p
      BY <1>1, <3>1, Others DEF DInv
    <3>2. CASE s = p
      BY <1>3, <1>5, <1>6, <3>2 DEF w
    <3>. QED
      BY <3>1, <3>2
  <2>. QED
    BY <2>1 DEF DInv, ValuesPlaced, HandedTaken
<1>. QED
  BY <1>11, <1>12, <1>13, <1>14, <1>15, <1>16 DEF ValuesPlaced

(* Values, slots and calls stay sound.                                     *)
LEMMA DataStep ==
    ASSUME DInv, NEW p \in Callers, Data(p)
    PROVE  DInv'
<1>1. DataOK /\ Placed /\ SlotsCounted
  BY DEF DInv
<1>2. /\ Placed' /\ pc' \in [Procs -> PCs]
      /\ calls' \in [Callers -> Nat] /\ \A q \in Callers : calls'[q] <= MaxCalls[q]
  BY <1>1, PlacedStep
<1>3. reserved' \in Nat /\ SlotsCounted'
  BY <1>1, SlotsStep
<1>4. /\ items' \in Seq(Values) /\ handoff' \in Seq(Senders \cup {Nobody})
      /\ taken' \in Seq(Values)
      /\ accepted' \in SUBSET Values /\ refused' \in SUBSET Values
  BY ListsStep
<1>5. DataOK'
  BY <1>2, <1>3, <1>4 DEF DataOK
<1>6. HandsPaired'
  BY HandsStep
<1>7. RoomKept'
  BY RoomStep DEF RoomKept
<1>8. ValuesPlaced'
  BY QueuedFate, WithdrawnFate, ReceivedFate, RestingFate DEF Data
<1>. QED
  BY <1>2, <1>3, <1>5, <1>6, <1>7, <1>8 DEF DInv

(* Nothing happens to values.                                              *)
LEMMA StillStep ==
    ASSUME DInv, Still
    PROVE  DInv'
  BY DEF DInv, Still, DataOK, Placed, SlotsCounted, Pushers, HandsPaired, RoomKept, ValuesPlaced,
         PlacedOnce, PlacedInTime, AcceptedPlaced, RefusedNowhere, Settled, HandedTaken, InHand, value

(* Values, slots and calls stay sound, whatever happens.                   *)
LEMMA DataKept ==
    ASSUME TypeOK, DInv, [Next]_vars
    PROVE  DInv'
<1>1. Placed
  BY DEF DInv
<1>2. (\E p \in Callers : Data(p)) \/ Still
  BY <1>1, DataSteps
<1>. QED
  BY <1>2, DataStep, StillStep

-----------------------------------------------------------------------------
(* What a step does with queues and wakes                                  *)

Moves(p) == Step(p) \/ TrySend(p) \/ TryRecv(p)

Stays == waiters' = waiters /\ toWake' = toWake

Joins(p) ==
    /\ \E s \in {side(p), "other"} : waiters' = [waiters EXCEPT ![s] = Append(@, p)]
    /\ toWake' = toWake

Leaves(p) ==
    /\ \E s \in {side(p), "other"} : waiters' = [waiters EXCEPT ![s] = RemoveFirst(@, p)]
    /\ toWake' = toWake

(* PopWaker on a queue somebody is in                                      *)
Pops(p, s) ==
    /\ waiters[s] # <<>> /\ toWake[p] = <<>>
    /\ waiters' = [waiters EXCEPT ![s] = Tail(@)]
    /\ toWake' = [toWake EXCEPT ![p] = <<Head(waiters[s])>>]

(* The sender is called whose value is handed over.                        *)
CallsBack(p) ==
    /\ waiters' = waiters
    /\ toWake[p] = <<>> /\ toWake' = [toWake EXCEPT ![p] = <<Head(handoff)>>]
    /\ Capacity = 0 /\ items # <<>> /\ handoff' = Tail(handoff)
    /\ Head(handoff) # Nobody

Queueing(p) == Stays \/ Joins(p) \/ Leaves(p) \/ Pops(p, "reader") \/ Pops(p, "writer") \/ CallsBack(p)

(* Nobody is taken out of an empty queue.                                  *)
LEMMA PopShape ==
    ASSUME TypeOK, NEW p \in Callers, NEW s \in {"reader", "writer"}, PopWaker(p, s), toWake[p] = <<>>
    PROVE  Stays \/ Pops(p, s)
  BY DEF PopWaker, Stays, Pops

(* Taking a value calls a sender.                                          *)
LEMMA TakeShape ==
    ASSUME TypeOK, NEW p \in Callers, TakeItem(p), items # <<>>, toWake[p] = <<>>
    PROVE  Stays \/ Pops(p, "writer") \/ CallsBack(p)
<1>1. CASE Capacity # 0
  BY <1>1, PopShape DEF TakeItem
<1>2. CASE Capacity = 0 /\ Head(handoff) = Nobody
  <2>1. toWake' = [toWake EXCEPT ![p] = <<>>] /\ waiters' = waiters
    BY <1>2 DEF TakeItem
  <2>2. toWake' = toWake
    BY <2>1, Names DEF TypeOK
  <2>. QED
    BY <2>1, <2>2 DEF Stays
<1>3. CASE Capacity = 0 /\ Head(handoff) # Nobody
  BY <1>3 DEF TakeItem, CallsBack
<1>. QED
  BY <1>1, <1>2, <1>3

(* Every step of a caller is one of these.                                 *)
LEMMA QueueShapes ==
    ASSUME TypeOK, NEW p \in Callers, Moves(p)
    PROVE  Queueing(p) /\ toWake[p] = <<>>
<1>1. toWake[p] = <<>>
  BY DEF Moves, Step, Send, TrySend, TryRecv, Reserve, Push, HandOver, Taken, Withdraw, Recv, Select, Watch,
         Ready, SelectEnds, ForgetWatch, Check, Register, Wait, Forget, ForgetTimeout, ForgetCancelled,
         CancelForget, IsCancelled, PassOn, Idle, At
<1>2. side(p) \in {"reader", "writer"}
  BY DEF side
<1>3. PopWaker(p, "reader") \/ PopWaker(p, "writer") => Queueing(p)
  BY <1>1, PopShape DEF Queueing
<1>4. UNCHANGED <<waiters, toWake>> => Queueing(p)
  BY DEF Queueing, Stays
<1>5. (Enlist(p) \/ waiters' = [waiters EXCEPT !["other"] = Append(@, p)]) /\ UNCHANGED toWake => Queueing(p)
  BY DEF Queueing, Joins, Enlist
<1>6. (Delist(p) \/ Unwatch(p)) /\ UNCHANGED toWake => Queueing(p)
  BY DEF Queueing, Leaves, Delist, Unwatch
<1>7. TakeItem(p) /\ items # <<>> => Queueing(p)
  BY <1>1, TakeShape DEF Queueing
<1>. HIDE DEF Queueing
<1>8. Send(p) \/ TrySend(p) \/ Reserve(p) \/ Push(p) => Queueing(p)
  BY <1>3, <1>4, <1>5 DEF Send, TrySend, Reserve, Push
<1>9. HandOver(p) \/ Taken(p) \/ Withdraw(p) => Queueing(p)
  BY <1>3, <1>4 DEF HandOver, Taken, Withdraw, chan
<1>10. Recv(p) \/ TryRecv(p) \/ Ready(p) => Queueing(p)
  BY <1>4, <1>5, <1>6, <1>7 DEF Recv, TryRecv, Ready
<1>11. Select(p) \/ Watch(p) \/ SelectEnds(p) => Queueing(p)
  BY <1>4, <1>5, <1>6 DEF Select, Watch, SelectEnds
<1>12. ForgetWatch(p) \/ PassOn(p) => Queueing(p)
  BY <1>2, <1>3, <1>4, <1>6 DEF ForgetWatch, PassOn
<1>13. Check(p) \/ Register(p) \/ Wait(p) \/ CancelForget(p) \/ IsCancelled(p) => Queueing(p)
  BY <1>4 DEF Check, Register, Wait, CancelForget, IsCancelled, chan
<1>14. Forget(p) \/ ForgetTimeout(p) \/ ForgetCancelled(p) => Queueing(p)
  BY <1>6 DEF Forget, ForgetTimeout, ForgetCancelled
<1>. QED
  BY <1>1, <1>8, <1>9, <1>10, <1>11, <1>12, <1>13, <1>14 DEF Moves, Step

(* Queues stay queues of callers.                                          *)
LEMMA QueueTypes ==
    ASSUME TypeOK, DInv, NEW p \in Callers, Queueing(p)
    PROVE  waiters' \in [Side -> Seq(Callers)] /\ toWake' \in [Procs -> Seq(Callers \cup {Nobody})]
<1>1. /\ waiters \in [Side -> Seq(Callers)] /\ toWake \in [Procs -> Seq(Callers \cup {Nobody})]
      /\ side(p) \in Side /\ {"reader", "writer", "other"} \subseteq Side
      /\ handoff \in Seq(Senders \cup {Nobody}) /\ p \in Procs /\ Senders \subseteq Callers
  BY Names DEF TypeOK, Side, side
<1>2. CASE Stays
  BY <1>1, <1>2 DEF Stays
<1>3. ASSUME NEW s \in Side, NEW t \in Seq(Callers), waiters' = [waiters EXCEPT ![s] = t]
       PROVE  waiters' \in [Side -> Seq(Callers)]
  BY <1>1, <1>3
<1>4. ASSUME NEW t \in Seq(Callers \cup {Nobody}), toWake' = [toWake EXCEPT ![p] = t]
       PROVE  toWake' \in [Procs -> Seq(Callers \cup {Nobody})]
  BY <1>1, <1>4
<1>5. ASSUME NEW x \in Callers \cup {Nobody}
       PROVE  <<x>> \in Seq(Callers \cup {Nobody})
  BY <1>5
<1>6. CASE Joins(p)
  <2>1. PICK s \in Side : waiters' = [waiters EXCEPT ![s] = Append(waiters[s], p)]
    BY <1>1, <1>6 DEF Joins
  <2>2. waiters[s] \in Seq(Callers) /\ Append(waiters[s], p) \in Seq(Callers)
    BY <1>1, AppendFacts
  <2>. QED
    BY <1>1, <1>3, <1>6, <2>1, <2>2 DEF Joins
<1>7. CASE Leaves(p)
  <2>1. PICK s \in Side : waiters' = [waiters EXCEPT ![s] = RemoveFirst(waiters[s], p)]
    BY <1>1, <1>7 DEF Leaves
  <2>2. waiters[s] \in Seq(Callers) /\ RemoveFirst(waiters[s], p) \in Seq(Callers)
    BY <1>1, RemoveFacts
  <2>. QED
    BY <1>1, <1>3, <1>7, <2>1, <2>2 DEF Leaves
<1>8. ASSUME NEW s \in Side, Pops(p, s)
       PROVE  waiters' \in [Side -> Seq(Callers)] /\ toWake' \in [Procs -> Seq(Callers \cup {Nobody})]
  <2>1. /\ waiters[s] \in Seq(Callers) /\ waiters[s] # <<>>
        /\ waiters' = [waiters EXCEPT ![s] = Tail(waiters[s])]
        /\ toWake' = [toWake EXCEPT ![p] = <<Head(waiters[s])>>]
    BY <1>1, <1>8 DEF Pops
  <2>2. Tail(waiters[s]) \in Seq(Callers) /\ Head(waiters[s]) \in Callers
    BY <2>1, TailFacts
  <2>. QED
    BY <1>3, <1>4, <1>5, <2>1, <2>2
<1>9. CASE CallsBack(p)
  <2>1. handoff # <<>>
    BY <1>1, <1>9, EmptySeq DEF CallsBack, DInv, DataOK, HandsPaired
  <2>2. Head(handoff) \in Callers \cup {Nobody}
    BY <1>1, <2>1, TailFacts
  <2>. QED
    BY <1>1, <1>4, <1>5, <1>9, <2>2 DEF CallsBack
<1>. QED
  BY <1>1, <1>2, <1>6, <1>7, <1>8, <1>9 DEF Queueing

(* What a step of a caller does with tokens and wakers                     *)
LEMMA TokenShapes ==
    ASSUME NEW p \in Callers, Moves(p) \/ TimePasses(p)
    PROVE  /\ UNCHANGED <<closed, quit, cancelled>>
           /\ watchers' \in {watchers, Append(watchers, p), RemoveFirst(watchers, p)}
           /\ waker' \in {waker, waker \cup {p}, waker \ {p}}
           /\ pending' \in {pending, pending \ {p}}
           /\ late' \in {late, late \ {p}} \/ (late' = late \cup {p} /\ p \in Timed)
<1>. USE DEF chan, token, hist, Goto, GoOn, End, Return, Throw, TakeWaker
<1>1. CASE Send(p) \/ TrySend(p) \/ Reserve(p) \/ Push(p)
  BY <1>1 DEF Send, TrySend, Reserve, Push
<1>2. CASE HandOver(p) \/ Taken(p) \/ Withdraw(p)
  BY <1>2 DEF HandOver, Taken, Withdraw
<1>3. CASE Recv(p) \/ TryRecv(p) \/ Ready(p)
  BY <1>3 DEF Recv, TryRecv, Ready, TakeItem
<1>4. CASE Select(p) \/ Watch(p) \/ SelectEnds(p) \/ ForgetWatch(p) \/ PassOn(p)
  BY <1>4 DEF Select, Watch, SelectEnds, ForgetWatch, PassOn
<1>5. CASE Check(p) \/ Register(p) \/ Wait(p) \/ CancelForget(p) \/ IsCancelled(p)
  BY <1>5 DEF Check, Register, Wait, CancelForget, IsCancelled
<1>6. CASE Forget(p) \/ ForgetTimeout(p) \/ ForgetCancelled(p)
  BY <1>6 DEF Forget, ForgetTimeout, ForgetCancelled
<1>7. CASE TimePasses(p)
  BY <1>7 DEF TimePasses
<1>. QED
  BY <1>1, <1>2, <1>3, <1>4, <1>5, <1>6, <1>7 DEF Moves, Step

(* A wake that goes out                                                    *)
LEMMA WakeTypes ==
    ASSUME TypeOK, NEW p \in Procs, Wake(p)
    PROVE  /\ toWake' \in [Procs -> Seq(Callers \cup {Nobody})]
           /\ pending' \in SUBSET Callers
<1>1. /\ toWake[p] \in Seq(Callers \cup {Nobody}) /\ toWake[p] # <<>>
      /\ toWake \in [Procs -> Seq(Callers \cup {Nobody})]
      /\ toWake' = [toWake EXCEPT ![p] = Tail(toWake[p])]
      /\ pending \in SUBSET Callers /\ pending' = pending \cup ({Head(toWake[p])} \ {Nobody})
  BY DEF TypeOK, Wake
<1>2. Tail(toWake[p]) \in Seq(Callers \cup {Nobody}) /\ Head(toWake[p]) \in Callers \cup {Nobody}
  BY <1>1, TailFacts
<1>. QED
  BY <1>1, <1>2

(* Queues emptied into the hands of those who close and cancel             *)
LEMMA EndTypes ==
    ASSUME TypeOK, Close \/ CloseOther \/ Cancel
    PROVE  /\ toWake' \in [Procs -> Seq(Callers \cup {Nobody})]
           /\ waiters' \in [Side -> Seq(Callers)]
           /\ watchers' \in Seq(Callers)
           /\ closed' \in BOOLEAN /\ quit' \in BOOLEAN /\ cancelled' \in BOOLEAN
           /\ UNCHANGED <<waker, pending, late>>
<1>1. /\ waiters \in [Side -> Seq(Callers)] /\ toWake \in [Procs -> Seq(Callers \cup {Nobody})]
      /\ watchers \in Seq(Callers) /\ handoff \in Seq(Senders \cup {Nobody})
      /\ Closer \in Procs /\ Canceller \in Procs /\ Senders \subseteq Callers
  BY Names DEF TypeOK
<1>2. <<>> \in Seq(Callers)
  OBVIOUS
<1>3. /\ waiters["reader"] \in Seq(Callers) /\ waiters["writer"] \in Seq(Callers)
      /\ waiters["other"] \in Seq(Callers)
  BY <1>1 DEF Side
<1>4. \A t \in Seq(Callers) : t \in Seq(Callers \cup {Nobody})
  BY Widened
<1>5. handoff \in Seq(Callers \cup {Nobody})
  BY <1>1, Widened
<1>6. waiters["reader"] \o waiters["writer"] \o handoff \in Seq(Callers \cup {Nobody})
  <2>1. waiters["reader"] \o waiters["writer"] \in Seq(Callers \cup {Nobody})
    BY <1>3, <1>4, ConcatFacts
  <2>. QED
    BY <1>5, <2>1, ConcatFacts
<1>7. ASSUME NEW q \in {Closer, Canceller}, NEW t \in Seq(Callers \cup {Nobody}), toWake' = [toWake EXCEPT ![q] = t]
       PROVE  toWake' \in [Procs -> Seq(Callers \cup {Nobody})]
  BY <1>1, <1>7
<1>8. toWake' \in [Procs -> Seq(Callers \cup {Nobody})]
  BY <1>1, <1>3, <1>4, <1>6, <1>7 DEF Close, CloseOther, Cancel
<1>9. waiters' \in [Side -> Seq(Callers)]
  BY <1>1, <1>2 DEF Close, CloseOther, Cancel, chan
<1>10. watchers' \in Seq(Callers)
  BY <1>1, <1>2 DEF Close, CloseOther, Cancel, token
<1>11. closed' \in BOOLEAN /\ quit' \in BOOLEAN /\ cancelled' \in BOOLEAN
  BY DEF TypeOK, Close, CloseOther, Cancel, token, chan
<1>12. UNCHANGED <<waker, pending, late>>
  BY DEF Close, CloseOther, Cancel
<1>. QED
  BY <1>8, <1>9, <1>10, <1>11, <1>12

(* Variables keep their types.                                             *)
LEMMA TypeStep ==
    ASSUME TypeOK, DInv, [Next]_vars
    PROVE  TypeOK'
<1>1. DataOK'
  BY DataKept DEF DInv
<1>2. /\ waiters \in [Side -> Seq(Callers)] /\ toWake \in [Procs -> Seq(Callers \cup {Nobody})]
      /\ watchers \in Seq(Callers) /\ waker \in SUBSET Callers /\ pending \in SUBSET Callers
      /\ late \in SUBSET Timed /\ closed \in BOOLEAN /\ quit \in BOOLEAN /\ cancelled \in BOOLEAN
  BY DEF TypeOK
<1>. DEFINE Rest ==
       /\ waiters' \in [Side -> Seq(Callers)] /\ toWake' \in [Procs -> Seq(Callers \cup {Nobody})]
       /\ watchers' \in Seq(Callers) /\ waker' \in SUBSET Callers /\ pending' \in SUBSET Callers
       /\ late' \in SUBSET Timed /\ closed' \in BOOLEAN /\ quit' \in BOOLEAN /\ cancelled' \in BOOLEAN
<1>3. ASSUME NEW p \in Callers, Moves(p) \/ TimePasses(p)
       PROVE  Rest
  <2>1. Queueing(p)
    BY <1>3, QueueShapes DEF TimePasses, Queueing, Stays, chan
  <2>2. waiters' \in [Side -> Seq(Callers)] /\ toWake' \in [Procs -> Seq(Callers \cup {Nobody})]
    BY <2>1, QueueTypes
  <2>3. Append(watchers, p) \in Seq(Callers) /\ RemoveFirst(watchers, p) \in Seq(Callers)
    BY ONLY <1>2, <1>3, AppendFacts, RemoveFacts
  <2>4. /\ UNCHANGED <<closed, quit, cancelled>>
        /\ watchers' \in {watchers, Append(watchers, p), RemoveFirst(watchers, p)}
        /\ waker' \in {waker, waker \cup {p}, waker \ {p}}
        /\ pending' \in {pending, pending \ {p}}
        /\ late' \in {late, late \ {p}} \/ (late' = late \cup {p} /\ p \in Timed)
    BY <1>3, TokenShapes
  <2>5. watchers' \in Seq(Callers)
    BY <1>2, <2>3, <2>4
  <2>6. waker' \in SUBSET Callers /\ pending' \in SUBSET Callers /\ late' \in SUBSET Timed
    BY <1>2, <1>3, <2>4
  <2>. QED
    BY <1>2, <2>2, <2>4, <2>5, <2>6
<1>4. ASSUME NEW p \in Procs, Wake(p)
       PROVE  Rest
  <2>1. /\ waiters' = waiters /\ watchers' = watchers /\ waker' = waker /\ late' = late
        /\ closed' = closed /\ quit' = quit /\ cancelled' = cancelled
    BY <1>4 DEF Wake, chan, token
  <2>2. toWake' \in [Procs -> Seq(Callers \cup {Nobody})] /\ pending' \in SUBSET Callers
    BY <1>4, WakeTypes
  <2>. QED
    BY <1>2, <2>1, <2>2
<1>5. ASSUME Close \/ CloseOther \/ Cancel
       PROVE  Rest
  <2>1. /\ toWake' \in [Procs -> Seq(Callers \cup {Nobody})]
        /\ waiters' \in [Side -> Seq(Callers)]
        /\ watchers' \in Seq(Callers)
        /\ closed' \in BOOLEAN /\ quit' \in BOOLEAN /\ cancelled' \in BOOLEAN
        /\ waker' = waker /\ pending' = pending /\ late' = late
    BY <1>5, EndTypes
  <2>2. waker' \in SUBSET Callers /\ pending' \in SUBSET Callers /\ late' \in SUBSET Timed
    BY <1>2, <2>1
  <2>. QED
    BY <2>1, <2>2
<1>6. ASSUME Done \/ UNCHANGED vars
       PROVE  Rest
  <2>1. /\ waiters' = waiters /\ toWake' = toWake /\ watchers' = watchers /\ waker' = waker
        /\ pending' = pending /\ late' = late /\ closed' = closed /\ quit' = quit /\ cancelled' = cancelled
    BY <1>6 DEF Done, vars
  <2>2. /\ waiters' \in [Side -> Seq(Callers)] /\ toWake' \in [Procs -> Seq(Callers \cup {Nobody})]
        /\ watchers' \in Seq(Callers)
    BY <1>2, <2>1
  <2>3. /\ waker' \in SUBSET Callers /\ pending' \in SUBSET Callers /\ late' \in SUBSET Timed
        /\ closed' \in BOOLEAN /\ quit' \in BOOLEAN /\ cancelled' \in BOOLEAN
    BY <1>2, <2>1
  <2>. QED
    BY <2>2, <2>3
<1>. HIDE DEF Rest
<1>7. Rest
  BY <1>3, <1>4, <1>5, <1>6 DEF Next, Moves
<1>. QED
  BY <1>1, <1>7 DEF Rest, TypeOK, DataOK

-----------------------------------------------------------------------------
(* Theorems                                                                *)

(* Everything starts sound.                                                *)
LEMMA DataInit ==
    ASSUME Init
    PROVE  TypeOK /\ DInv
<1>. USE DEF Init
<1>1. <<>> \in Seq(Values) /\ <<>> \in Seq(Senders \cup {Nobody}) /\ <<>> \in Seq(Callers)
      /\ <<>> \in Seq(Callers \cup {Nobody})
  OBVIOUS
<1>2. pc \in [Procs -> PCs] /\ \A p \in Procs : pc[p] = "idle"
  BY DEF PCs
<1>3. TypeOK
  <2>1. /\ items \in Seq(Values) /\ handoff \in Seq(Senders \cup {Nobody}) /\ watchers \in Seq(Callers)
        /\ taken \in Seq(Values)
    BY <1>1
  <2>2. waiters \in [Side -> Seq(Callers)] /\ toWake \in [Procs -> Seq(Callers \cup {Nobody})]
    BY <1>1
  <2>3. calls \in [Callers -> Nat] /\ \A p \in Callers : calls[p] <= MaxCalls[p]
    OBVIOUS
  <2>. QED
    BY <1>2, <2>1, <2>2, <2>3 DEF TypeOK
<1>4. DataOK
  BY <1>3 DEF TypeOK, DataOK
<1>5. Placed
  BY <1>2, Names DEF Placed, Places
<1>6. Pushers = {}
  BY <1>2, Names DEF Pushers
<1>7. SlotsCounted
  BY <1>6, FS_EmptySet DEF SlotsCounted
<1>8. Len(items) = 0 /\ Len(handoff) = 0 /\ Len(taken) = 0
  OBVIOUS
<1>9. HandsPaired /\ RoomKept
  BY <1>8, Names DEF HandsPaired, RoomKept
<1>10. \A s \in Senders : ~InHand(s)
  BY <1>2, Names DEF InHand, Hands, Waits, Tokens, Withdraws
<1>11. \A v : ~Contains(items, v) /\ ~Contains(taken, v)
  BY EmptyFacts
<1>12. ASSUME NEW v \in Values
        PROVE  ~(v[2] <= calls[v[1]])
  <2>1. PICK s \in Senders : v \in {s} \X (1 .. MaxCalls[s])
    BY DEF Values
  <2>2. v[1] = s /\ v[2] \in 1 .. MaxCalls[s] /\ calls[s] = 0 /\ MaxCalls[s] \in Nat
    BY <2>1, Names
  <2>. QED
    BY <2>2
<1>13. ValuesPlaced
  BY <1>10, <1>11, <1>12, EmptyFacts
     DEF ValuesPlaced, PlacedOnce, PlacedInTime, AcceptedPlaced, RefusedNowhere, Settled, HandedTaken
<1>. QED
  BY <1>3, <1>4, <1>5, <1>7, <1>9, <1>13 DEF DInv

(* What the values rest on, always                                         *)
LEMMA DataInvariant == Spec => [](TypeOK /\ DInv)
<1>1. TypeOK /\ DInv /\ [Next]_vars => (TypeOK /\ DInv)'
  BY TypeStep, DataKept
<1>. QED
  BY <1>1, DataInit, PTL DEF Spec

(* Variables keep their types, for any capacity, any callers and any mix   *)
(* of timeouts, cancellation, try calls and selects.                       *)
THEOREM TypeCorrect == Spec => []TypeOK
  BY DataInvariant, PTL

(* A buffered channel never promises more than it holds, and a rendezvous  *)
(* channel pairs every value with its sender (`reserve_slot`,              *)
(* `push_reserved`, `hand_over`, `withdraw`).                              *)
THEOREM CapacityKept == Spec => []WithinCapacity
<1>1. ASSUME TypeOK, DInv
      PROVE  WithinCapacity
  <2>1. Capacity > 0 => Len(items) + reserved <= Capacity
    BY <1>1 DEF DInv, RoomKept
  <2>2. DOMAIN handoff = 1 .. Len(handoff)
    BY <1>1, LenProperties DEF TypeOK
  <2>3. ~(Capacity > 0) => Capacity = 0
    BY Names
  <2>. QED
    BY <1>1, <2>1, <2>2, <2>3 DEF DInv, HandsPaired, WithinCapacity
<1>. QED
  BY <1>1, DataInvariant, PTL

(* How often a list that names nobody twice names somebody                 *)
LEMMA ExistsOnce ==
    ASSUME NEW S, NEW s \in Seq(S), Once(s), NEW v
    PROVE  /\ Contains(s, v) => Exists(v, s) = 1
           /\ ~Contains(s, v) => Exists(v, s) = 0
<1>1. DOMAIN s = 1 .. Len(s)
  BY LenProperties
<1>2. ASSUME Contains(s, v)
      PROVE  Exists(v, s) = 1
  <2>1. PICK i \in 1 .. Len(s) : s[i] = v
    BY <1>2 DEF Contains
  <2>2. {j \in DOMAIN s : s[j] = v} = {i}
    BY <1>1, <2>1 DEF Once
  <2>. QED
    BY <2>2, FS_Singleton DEF Exists
<1>3. ASSUME ~Contains(s, v)
      PROVE  Exists(v, s) = 0
  <2>1. {j \in DOMAIN s : s[j] = v} = {}
    BY <1>1, <1>3 DEF Contains
  <2>. QED
    BY <2>1, FS_EmptySet DEF Exists
<1>. QED
  BY <1>2, <1>3

(* A rendezvous send that returned was received.                           *)
LEMMA AcceptedTaken ==
    ASSUME TypeOK, DInv, Capacity = 0, Trying \cap Senders = {}, NEW v \in accepted
    PROVE  ~Contains(items, v)
<1>1. v \in Values /\ v[2] <= calls[v[1]]
  BY DEF TypeOK, DInv, ValuesPlaced, AcceptedPlaced
<1>2. ASSUME NEW i \in 1 .. Len(items), items[i] = v
      PROVE  FALSE
  <2>1. i \in 1 .. Len(handoff) /\ handoff[i] # Nobody
    BY <1>2 DEF DInv, HandsPaired
  <2>2. InHand(handoff[i]) /\ v = value(handoff[i])
    BY <1>2, <2>1 DEF DInv, HandsPaired
  <2>3. v[1] \in Callers /\ v[2] = calls[v[1]] + 1
    BY <2>2, Names DEF value, InHand
  <2>4. calls[v[1]] \in Nat
    BY <2>3 DEF TypeOK
  <2>. QED
    BY <1>1, <2>3, <2>4
<1>. QED
  BY <1>2 DEF Contains

(* What a send reports is what happened: accepted values are queued or     *)
(* received exactly once, refused ones are nowhere (`withdraw` decides     *)
(* under the lock).                                                        *)
THEOREM SendsHonest == Spec => []SendHonest
<1>1. ASSUME TypeOK, DInv
      PROVE  SendHonest
  <2>1. items \in Seq(Values) /\ taken \in Seq(Values) /\ Once(items) /\ Once(taken)
    BY <1>1 DEF TypeOK, DInv, ValuesPlaced, PlacedOnce
  <2>2. /\ \A v : Contains(items, v) => Exists(v, items) = 1
        /\ \A v : ~Contains(items, v) => Exists(v, items) = 0
        /\ \A v : Contains(taken, v) => Exists(v, taken) = 1
        /\ \A v : ~Contains(taken, v) => Exists(v, taken) = 0
    BY <2>1, ExistsOnce
  <2>3. ASSUME NEW v \in accepted
        PROVE  Exists(v, items) + Exists(v, taken) = 1
    <3>1. Contains(items, v) \/ Contains(taken, v)
      BY <1>1 DEF DInv, ValuesPlaced, AcceptedPlaced
    <3>2. ~(Contains(items, v) /\ Contains(taken, v))
      BY <1>1 DEF TypeOK, DInv, ValuesPlaced, PlacedOnce
    <3>. QED
      BY <2>2, <3>1, <3>2
  <2>4. ASSUME NEW v \in refused
        PROVE  Exists(v, items) + Exists(v, taken) = 0
    BY <1>1, <2>2 DEF DInv, ValuesPlaced, RefusedNowhere
  <2>5. ASSUME Capacity = 0, Trying \cap Senders = {}, NEW v \in accepted
        PROVE  Exists(v, taken) = 1
    <3>1. ~Contains(items, v)
      BY <1>1, <2>5, AcceptedTaken
    <3>. QED
      BY <1>1, <2>2, <3>1 DEF DInv, ValuesPlaced, AcceptedPlaced
  <2>. QED
    BY <2>3, <2>4, <2>5 DEF SendHonest
<1>. QED
  BY <1>1, DataInvariant, PTL

(* What is in the range of a list                                          *)
LEMMA RangeFacts ==
    ASSUME NEW S, NEW s \in Seq(S)
    PROVE  \A x : x \in Fifo!Range(s) <=> Contains(s, x)
<1>1. DOMAIN s = 1 .. Len(s)
  BY LenProperties
<1>. QED
  BY <1>1 DEF Fifo!Range, Contains

(* Removing from a list means the same to Fifo.                            *)
LEMMA FifoRemoves ==
    ASSUME NEW s, NEW e
    PROVE  Fifo!RemoveFirst(s, e) = RemoveFirst(s, e)
  BY DEF Fifo!RemoveFirst, Fifo!RemoveAt, Fifo!SelectInSeq, Fifo!Min, RemoveFirst, RemoveAt, SelectInSeq, Min

(* What a step does with values is a step of Fifo, or none.                *)
LEMMA FifoData ==
    ASSUME DInv, Capacity > 0 \/ Senders \cap Trying = {}, NEW p \in Callers, Data(p)
    PROVE  Fifo!Next \/ UNCHANGED Fifo!vars
<1>1. /\ items \in Seq(Values) /\ taken \in Seq(Values) /\ calls \in [Callers -> Nat]
      /\ accepted \in SUBSET Values /\ refused \in SUBSET Values /\ reserved \in Nat /\ Len(items) \in Nat
  BY LenProperties DEF DInv, DataOK
<1>2. /\ \A x : x \in Fifo!Range(items) <=> Contains(items, x)
      /\ \A x : x \in Fifo!Range(taken) <=> Contains(taken, x)
  BY <1>1, RangeFacts
<1>3. p \in Senders => /\ value(p) \in Values /\ value(p)[1] = p /\ value(p)[2] = calls[p] + 1
                       /\ ~(value(p)[2] <= calls[value(p)[1]])
  BY <1>1, ValueNow DEF Data
<1>4. p \in Senders => value(p) \notin accepted \cup refused
  BY <1>3 DEF DInv, ValuesPlaced, AcceptedPlaced, RefusedNowhere
<1>5. p \in Senders /\ ~InHand(p) => ~Contains(items, value(p)) /\ ~Contains(taken, value(p))
  BY <1>3 DEF DInv, ValuesPlaced, PlacedInTime
<1>. DEFINE w == value(p)
<1>6. CASE Stored(p)
  <2>1. p \in Senders /\ ~InHand(p) /\ Capacity > 0
    <3>1. p \in Senders /\ pc[p] \in {"idle", "push"} /\ (pc[p] = "idle" => Capacity > 0)
      BY <1>6 DEF Stored
    <3>2. Capacity = 0 => pc[p] \in {"idle"} \cup Hands
      <4>1. pc[p] \in Places(p) /\ p \notin Receivers /\ p \notin Selecting
        BY <3>1, Names DEF DInv, Placed
      <4>2. Capacity = 0 => p \notin Trying
        BY <3>1, Names
      <4>. QED
        BY <4>1, <4>2 DEF Places
    <3>3. Capacity = 0 \/ Capacity > 0
      BY Names
    <3>. QED
      BY <3>1, <3>2, <3>3 DEF InHand, Hands, Waits, Tokens, Withdraws
  <2>2. w \notin Fifo!Range(items) \cup Fifo!Range(taken) \cup refused
    BY <1>2, <1>4, <1>5, <2>1
  <2>3. Len(items) < Capacity
    <3>1. pc[p] = "push" => reserved > 0
      <4>1. ASSUME pc[p] = "push"
            PROVE  Cardinality(Pushers) \in Nat \ {0}
        <5>1. p \in Pushers /\ IsFiniteSet(Pushers)
          BY <2>1, <4>1, FinitePeople DEF Pushers
        <5>. QED
          BY <5>1, OneLess
      <4>. QED
        BY <4>1 DEF DInv, SlotsCounted
    <3>2. Len(items) + reserved <= Capacity
      BY <2>1 DEF DInv, RoomKept
    <3>3. pc[p] = "push" \/ Len(items) + reserved < Capacity
      BY <1>6 DEF Stored, Room
    <3>. QED
      BY <1>1, <3>1, <3>2, <3>3, Names
  <2>4. Fifo!Put(w)
    BY <1>6, <2>1, <2>2, <2>3 DEF Stored, Fifo!Put, Fifo!Fresh
  <2>. QED
    BY <1>3, <2>1, <2>4 DEF Fifo!Next
<1>7. CASE Offered(p)
  <2>1. p \in Senders /\ Capacity = 0 /\ ~InHand(p)
    BY <1>7 DEF Offered, InHand, Hands, Waits, Tokens, Withdraws
  <2>2. w \notin Fifo!Range(items) \cup Fifo!Range(taken) \cup refused
    BY <1>2, <1>4, <1>5, <2>1
  <2>3. Fifo!Put(w)
    BY <1>7, <2>1, <2>2 DEF Offered, Fifo!Put, Fifo!Fresh
  <2>. QED
    BY <1>3, <2>1, <2>3 DEF Fifo!Next
<1>8. CASE Confirmed(p)
  <2>1. p \in Senders /\ Contains(taken, w)
    BY <1>8 DEF Confirmed, InHand, DInv, ValuesPlaced, HandedTaken
  <2>2. w \in Fifo!Range(taken) \ accepted
    BY <1>2, <1>4, <2>1
  <2>3. Fifo!Accept(w)
    BY <1>8, <2>2 DEF Confirmed, Fifo!Accept
  <2>. QED
    BY <1>3, <2>1, <2>3 DEF Fifo!Next
<1>9. CASE Withdrawn(p)
  <2>1. p \in Senders /\ Contains(items, w) /\ items' = RemoveFirst(items, w)
    BY <1>9, WithdrawnFacts DEF Contains, Withdrawn, InHand
  <2>2. ~Contains(taken, w)
    BY <1>3, <2>1 DEF DInv, ValuesPlaced, PlacedOnce
  <2>3. w \notin accepted \cup Fifo!Range(taken) \cup refused
    BY <1>2, <1>4, <2>1, <2>2
  <2>4. items' = Fifo!RemoveFirst(items, w)
    BY <2>1, FifoRemoves
  <2>5. Fifo!Refuse(w)
    BY <1>9, <2>3, <2>4 DEF Withdrawn, Fifo!Refuse
  <2>. QED
    BY <1>3, <2>1, <2>5 DEF Fifo!Next
<1>10. CASE Refused(p)
  <2>1. p \in Senders /\ ~InHand(p) /\ items' = items
    BY <1>10 DEF Refused
  <2>2. ~Contains(items, w) /\ ~Contains(taken, w)
    BY <1>5, <2>1
  <2>3. w \notin accepted \cup Fifo!Range(taken) \cup refused
    BY <1>2, <1>4, <2>1, <2>2
  <2>4. RemoveFirst(items, w) = items
    BY <1>1, <2>2, RemoveFacts
  <2>5. items' = Fifo!RemoveFirst(items, w)
    BY <2>1, <2>4, FifoRemoves
  <2>6. Fifo!Refuse(w)
    BY <1>10, <2>3, <2>5 DEF Refused, Fifo!Refuse
  <2>. QED
    BY <1>3, <2>1, <2>6 DEF Fifo!Next
<1>11. CASE Received(p)
  <2>1. Fifo!Get
    BY <1>11 DEF Received, Fifo!Get
  <2>. QED
    BY <2>1 DEF Fifo!Next
<1>12. CASE Slotted(p) \/ Thrown(p) \/ Goes(p)
  BY <1>12 DEF Slotted, Thrown, Goes, Fifo!vars
<1>. QED
  BY <1>6, <1>7, <1>8, <1>9, <1>10, <1>11, <1>12 DEF Data

(* Every step is one of Fifo, or none.                                     *)
LEMMA FifoStep ==
    ASSUME TypeOK, DInv, Capacity > 0 \/ Senders \cap Trying = {}, [Next]_vars
    PROVE  [Fifo!Next]_(Fifo!vars)
<1>1. ASSUME NEW p \in Callers, Moves(p)
      PROVE  Fifo!Next \/ UNCHANGED Fifo!vars
  <2>1. Data(p) \/ Still
    BY <1>1, SendData, ReceiveData, LoopData DEF Moves, Step, DInv
  <2>2. closed' = closed
    BY <1>1, TokenShapes
  <2>3. Still => UNCHANGED Fifo!vars
    BY <2>2 DEF Still, Fifo!vars
  <2>. QED
    BY <2>1, <2>3, FifoData
<1>2. ASSUME NEW p \in Callers, TimePasses(p)
      PROVE  UNCHANGED Fifo!vars
  BY <1>2 DEF TimePasses, chan, hist, Fifo!vars
<1>3. ASSUME NEW p \in Procs, Wake(p)
      PROVE  UNCHANGED Fifo!vars
  BY <1>3 DEF Wake, chan, hist, Fifo!vars
<1>4. Close => Fifo!Next
  BY DEF Close, hist, Fifo!Close, Fifo!Next
<1>5. CloseOther \/ Cancel \/ Done \/ UNCHANGED vars => UNCHANGED Fifo!vars
  BY DEF CloseOther, Cancel, Done, chan, hist, vars, Fifo!vars
<1>. QED
  BY <1>1, <1>2, <1>3, <1>4, <1>5 DEF Next, Moves

(* A channel is the closable queue its callers see, whose sends are        *)
(* reported truly, unless try_send is used on a rendezvous channel: such a *)
(* send returns before its value is received.                              *)
THEOREM FifoImplemented ==
    ASSUME Capacity > 0 \/ Senders \cap Trying = {}
    PROVE  Spec => ImplementsFifo
<1>1. Init => Fifo!Init
  BY DEF Init, Fifo!Init
<1>2. TypeOK /\ DInv /\ [Next]_vars => [Fifo!Next]_(Fifo!vars)
  BY FifoStep
<1>. QED
  BY <1>1, <1>2, DataInvariant, PTL DEF Spec, ImplementsFifo, Fifo!Spec
=============================================================================
