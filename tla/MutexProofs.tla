----------------------------- MODULE MutexProofs -----------------------------
(***************************************************************************)
(* What holds of Mutex for every set of lockers, threads and bounds: the   *)
(* types, mutual exclusion, the bookkeeping of held locks, the soundness   *)
(* of the wait queue, and that no wake-up is lost unless a thread ended    *)
(* with the wake still in its hands.                                       *)
(***************************************************************************)
EXTENDS Mutex, FiniteSetTheorems, SequenceTheorems, TLAPS

(* What a waker between taking a park out of the queue and delivering the  *)
(* wake can rely on: until the bit is set the park's owner still waits on  *)
(* it and nobody else wakes it; afterwards the owner still waits unless    *)
(* the park was left.                                                      *)
WakersSound ==
    /\ \A p \in Procs : pc[p] \in {"wakePark", "deliver"} <=> target[p] # NoProc
    /\ \A p \in Procs : pc[p] = "wakePark" =>
          /\ p \notin left
          /\ pc[target[p]] \in {"parking", "parked"} /\ target[p] \notin woken
          /\ target[p] \notin Queued
    /\ \A p, q \in Procs : pc[p] = "wakePark" /\ pc[q] = "wakePark" /\ target[p] = target[q] => p = q
    /\ \A p \in Procs : pc[p] = "deliver" /\ p \notin left =>
          pc[target[p]] \in {"parking", "parked"} /\ target[p] \in woken

(* A native locker that is inside the mutex keeps its thread from ending.  *)
NativeAlive == \A p \in Native : ~Alive(p) => pc[p] = "idle"

IInv ==
    /\ TypeOK
    /\ MutualExclusion
    /\ LockNeverOutlivesThread
    /\ QueueSound
    /\ WakersSound
    /\ NativeAlive
    /\ NoLostWakeUnlessDropped

-----------------------------------------------------------------------------
USE MutexAssumption DEF MutexAssumption

(* held_locks counts an unlocker, so counting it down stays a number.      *)
LEMMA ReleaseCounts ==
    ASSUME TypeOK, HeldLocksExact, NEW p \in Procs, Counts(p)
    PROVE  heldLocks[ThreadOf[p]] - 1 \in Nat
<1> DEFINE t == ThreadOf[p]
<1>1. Counted(t) \subseteq Procs
  BY DEF Counted
<1>2. p \in Counted(t) /\ IsFiniteSet(Counted(t))
  BY <1>1, FS_Subset DEF Counted
<1>3. Cardinality(Counted(t)) \in Nat /\ Cardinality(Counted(t)) # 0
  BY <1>2, FS_CardinalityType, FS_EmptySet
<1>4. heldLocks[t] = Cardinality(Counted(t))
  BY DEF HeldLocksExact
<1>. QED
  BY <1>3, <1>4

(* The types are kept by every step; only the end of an unlock needs more  *)
(* than the types: the count it takes down covers the unlocker.            *)
LEMMA TypeStep ==
    ASSUME TypeOK, HeldLocksExact, WakersSound, [Next]_vars
    PROVE  TypeOK'
<1> USE DEF TypeOK, PCs
<1>1. ASSUME NEW p \in Procs, Lock(p)
       PROVE  TypeOK'
  <2>1. CASE Goto(p, "spin") /\ UNCHANGED <<heldLocks, earlier>>
    BY <1>1, <2>1 DEF Lock, Goto
  <2>2. CASE Acquired(p)
    BY <1>1, <2>2 DEF Lock, Goto, Acquired
  <2>. QED
    BY <1>1, <2>1, <2>2 DEF Lock
<1>2. ASSUME NEW p \in Procs, SpinTake(p)
       PROVE  TypeOK'
  BY <1>2 DEF SpinTake, Goto, Acquired
<1>3. ASSUME NEW p \in Procs, SpinEnd(p)
       PROVE  TypeOK'
  BY <1>3 DEF SpinEnd, Goto
<1>4. ASSUME NEW p \in Procs, EnqueueHeld(p)
       PROVE  TypeOK'
  BY <1>4 DEF EnqueueHeld, Goto, Push, Waiting
<1>5. ASSUME NEW p \in Procs, EnqueueFree(p)
       PROVE  TypeOK'
  BY <1>5 DEF EnqueueFree, Goto
<1>6. ASSUME NEW p \in Procs, ClearQueued(p)
       PROVE  TypeOK'
  BY <1>6 DEF ClearQueued, Goto, Acquired
<1>7. ASSUME NEW p \in Procs, Suspend(p)
       PROVE  TypeOK'
  BY <1>7 DEF Suspend, Goto
<1>8. ASSUME NEW p \in Procs, Resume(p)
       PROVE  TypeOK'
  BY <1>8 DEF Resume, Goto
<1>9. ASSUME NEW p \in Procs, Retry(p)
       PROVE  TypeOK'
  <2>1. CASE Goto(p, "enqueue") /\ UNCHANGED <<heldLocks, earlier>>
    BY <1>9, <2>1 DEF Retry, Goto
  <2>2. CASE Acquired(p)
    BY <1>9, <2>2 DEF Retry, Goto, Acquired
  <2>. QED
    BY <1>9, <2>1, <2>2 DEF Retry
<1>10. ASSUME NEW p \in Procs, Unlock(p)
       PROVE  TypeOK'
  <2>1. CASE Goto(p, "wakeNext") /\ UNCHANGED heldLocks
    BY <1>10, <2>1 DEF Unlock, Goto
  <2>2. CASE Released(p)
    <3>1. heldLocks[ThreadOf[p]] - 1 \in Nat
      BY <1>10, ReleaseCounts DEF Unlock, At, Counts
    <3>. QED
      BY <1>10, <2>2, <3>1 DEF Unlock, Goto, Released
  <2>. QED
    BY <1>10, <2>1, <2>2 DEF Unlock
<1>11. ASSUME NEW p \in Procs, WakeNone(p)
       PROVE  TypeOK'
  <2>1. heldLocks[ThreadOf[p]] - 1 \in Nat
    BY <1>11, ReleaseCounts DEF WakeNone, At, Counts, Releasing
  <2>. QED
    BY <1>11, <2>1 DEF WakeNone, Goto, Released
<1>12. ASSUME NEW p \in Procs, WakePop(p)
       PROVE  TypeOK'
  <2>1. Head(queue) \in Procs /\ Tail(queue) \in Seq(Procs)
    BY <1>12, HeadTailProperties DEF WakePop
  <2>2. queued' \in BOOLEAN
    BY <1>12 DEF WakePop
  <2>. QED
    BY <1>12, <2>1, <2>2 DEF WakePop, Goto
<1>13. ASSUME NEW p \in Procs, WakePark(p)
       PROVE  TypeOK'
  <2>1. target[p] \in Procs
    BY <1>13 DEF WakePark, At, WakersSound
  <2>. QED
    BY <1>13, <2>1 DEF WakePark, Goto
<1>14. ASSUME NEW p \in Procs, Deliver(p)
       PROVE  TypeOK'
  <2>1. target[p] \in Procs
    BY <1>14 DEF Deliver, At, WakersSound
  <2>2. CASE Goto(p, "wakeNext") /\ UNCHANGED <<runnable, heldLocks>>
    BY <1>14, <2>2 DEF Deliver, Goto
  <2>3. CASE /\ runnable' = runnable \cup {w \in {target[p]} : pc[w] = "parked" /\ p \notin left}
             /\ Released(p)
    <3>1. heldLocks[ThreadOf[p]] - 1 \in Nat
      BY <1>14, ReleaseCounts DEF Deliver, At, Counts, Releasing
    <3>. QED
      BY <1>14, <2>1, <2>3, <3>1 DEF Deliver, Goto, Released
  <2>. QED
    BY <1>14, <2>2, <2>3 DEF Deliver
<1>15. ASSUME NEW t \in Threads, ThreadEnd(t)
       PROVE  TypeOK'
  BY <1>15 DEF ThreadEnd
<1>16. CASE UNCHANGED vars
  BY <1>16 DEF vars
<1>17. QED
  BY <1>1, <1>2, <1>3, <1>4, <1>5, <1>6, <1>7, <1>8, <1>9, <1>10, <1>11, <1>12,
     <1>13, <1>14, <1>15, <1>16 DEF Next, Step, Done

(* Where the owners are decides mutual exclusion; a step moves one locker, *)
(* and it becomes an owner only while nobody holds the mutex.              *)
LEMMA MutualExclusionStep ==
    ASSUME TypeOK, MutualExclusion, [Next]_vars
    PROVE  MutualExclusion'
<1> USE DEF TypeOK, MutualExclusion, Owner
<1>1. ASSUME NEW p \in Procs, ~held, held', NEW l \in {"clearQueued", "cs"},
             pc' = [pc EXCEPT ![p] = l]
       PROVE  MutualExclusion'
  BY <1>1
<1>2. ASSUME NEW p \in Procs, ~Owner(p), held' = held,
             NEW l \in PCs \ {"clearQueued", "cs"}, pc' = [pc EXCEPT ![p] = l]
       PROVE  MutualExclusion'
  BY <1>2
<1>3. ASSUME NEW p \in Procs, Lock(p)
       PROVE  MutualExclusion'
  BY <1>3, <1>1, <1>2 DEF Lock, At, Goto, Acquired, PCs
<1>4. ASSUME NEW p \in Procs, SpinTake(p)
       PROVE  MutualExclusion'
  BY <1>4, <1>1 DEF SpinTake, Goto, Acquired
<1>5. ASSUME NEW p \in Procs, SpinEnd(p)
       PROVE  MutualExclusion'
  BY <1>5, <1>2 DEF SpinEnd, At, Goto, PCs
<1>6. ASSUME NEW p \in Procs, EnqueueHeld(p)
       PROVE  MutualExclusion'
  BY <1>6, <1>2 DEF EnqueueHeld, At, Goto, PCs
<1>7. ASSUME NEW p \in Procs, EnqueueFree(p)
       PROVE  MutualExclusion'
  BY <1>7, <1>1 DEF EnqueueFree, Goto
<1>8. ASSUME NEW p \in Procs, ClearQueued(p)
       PROVE  MutualExclusion'
  BY <1>8 DEF ClearQueued, At, Goto, Acquired
<1>9. ASSUME NEW p \in Procs, Suspend(p)
       PROVE  MutualExclusion'
  BY <1>9, <1>2 DEF Suspend, At, Goto, PCs
<1>10. ASSUME NEW p \in Procs, Resume(p)
       PROVE  MutualExclusion'
  BY <1>10, <1>2 DEF Resume, At, Goto, PCs
<1>11. ASSUME NEW p \in Procs, Retry(p)
       PROVE  MutualExclusion'
  BY <1>11, <1>1, <1>2 DEF Retry, At, Goto, Acquired, PCs
<1>12. ASSUME NEW p \in Procs, Unlock(p)
       PROVE  MutualExclusion'
  <2>1. Owner(p) /\ ~held' /\ pc' \in {[pc EXCEPT ![p] = "wakeNext"], [pc EXCEPT ![p] = "idle"]}
    BY <1>12 DEF Unlock, At, Goto, Released
  <2>. QED
    BY <2>1
<1>13. ASSUME NEW p \in Procs, WakeNone(p)
       PROVE  MutualExclusion'
  BY <1>13, <1>2 DEF WakeNone, At, Goto, Released, PCs
<1>14. ASSUME NEW p \in Procs, WakePop(p)
       PROVE  MutualExclusion'
  BY <1>14, <1>2 DEF WakePop, At, Goto, PCs
<1>15. ASSUME NEW p \in Procs, WakePark(p)
       PROVE  MutualExclusion'
  BY <1>15, <1>2 DEF WakePark, At, Goto, PCs
<1>16. ASSUME NEW p \in Procs, Deliver(p)
       PROVE  MutualExclusion'
  BY <1>16, <1>2 DEF Deliver, At, Goto, Released, PCs
<1>17. ASSUME NEW t \in Threads, ThreadEnd(t)
       PROVE  MutualExclusion'
  BY <1>17 DEF ThreadEnd
<1>18. CASE UNCHANGED vars
  BY <1>18 DEF vars
<1>19. QED
  BY <1>3, <1>4, <1>5, <1>6, <1>7, <1>8, <1>9, <1>10, <1>11, <1>12, <1>13, <1>14,
     <1>15, <1>16, <1>17, <1>18 DEF Next, Step, Done

(* The count of a thread follows a locker that starts to count.            *)
LEMMA CountUp ==
    ASSUME TypeOK, HeldLocksExact, NEW p \in Procs, ~Counts(p), Acquired(p)
    PROVE  HeldLocksExact'
<1> DEFINE s == ThreadOf[p]
<1>1. \A q \in Procs : Counts(q)' <=> Counts(q) \/ q = p
  BY DEF TypeOK, Acquired, Goto, Counts, Releasing
<1>2. Counted(s)' = Counted(s) \cup {p} /\ p \notin Counted(s)
  BY <1>1 DEF Counted
<1>3. \A t \in Threads \ {s} : Counted(t)' = Counted(t)
  BY <1>1 DEF Counted
<1>4. IsFiniteSet(Counted(s))
  BY FS_Subset DEF Counted
<1>5. Cardinality(Counted(s)') = Cardinality(Counted(s)) + 1
  BY <1>2, <1>4, FS_AddElement
<1>. QED
  BY <1>3, <1>5 DEF HeldLocksExact, Acquired, TypeOK

(* ... and one that stops to count.                                        *)
LEMMA CountDown ==
    ASSUME TypeOK, HeldLocksExact, NEW p \in Procs, Counts(p), Released(p)
    PROVE  HeldLocksExact'
<1> DEFINE s == ThreadOf[p]
<1>1. \A q \in Procs : Counts(q)' <=> Counts(q) /\ q # p
  BY DEF TypeOK, Released, Goto, Counts, Releasing
<1>2. Counted(s)' = Counted(s) \ {p} /\ p \in Counted(s)
  BY <1>1 DEF Counted
<1>3. \A t \in Threads \ {s} : Counted(t)' = Counted(t)
  BY <1>1 DEF Counted
<1>4. IsFiniteSet(Counted(s))
  BY FS_Subset DEF Counted
<1>5. Cardinality(Counted(s)') = Cardinality(Counted(s)) - 1
  BY <1>2, <1>4, FS_RemoveElement
<1>. QED
  BY <1>3, <1>5 DEF HeldLocksExact, Released, TypeOK

(* ... and stays while every locker counts as before.                      *)
LEMMA CountKept ==
    ASSUME HeldLocksExact, heldLocks' = heldLocks,
           \A q \in Procs : Counts(q)' <=> Counts(q)
    PROVE  HeldLocksExact'
<1>1. \A t \in Threads : Counted(t)' = Counted(t)
  BY DEF Counted
<1>. QED
  BY <1>1 DEF HeldLocksExact

LEMMA HeldLocksStep ==
    ASSUME TypeOK, HeldLocksExact, [Next]_vars
    PROVE  HeldLocksExact'
<1> USE DEF TypeOK, PCs
<1>1. ASSUME NEW p \in Procs, NEW l \in PCs, Goto(p, l), heldLocks' = heldLocks,
             Counts(p) <=> l \in {"cs", "wakeNext", "wakePark", "deliver"}
       PROVE  HeldLocksExact'
  BY <1>1, CountKept DEF Goto, Counts, Releasing
<1> USE DEF At, Counts, Releasing
<1>2. ASSUME NEW p \in Procs, Lock(p)
       PROVE  HeldLocksExact'
  BY <1>2, <1>1, CountUp DEF Lock
<1>3. ASSUME NEW p \in Procs, SpinTake(p)
       PROVE  HeldLocksExact'
  BY <1>3, CountUp DEF SpinTake
<1>4. ASSUME NEW p \in Procs, SpinEnd(p)
       PROVE  HeldLocksExact'
  BY <1>4, <1>1 DEF SpinEnd
<1>5. ASSUME NEW p \in Procs, EnqueueHeld(p)
       PROVE  HeldLocksExact'
  BY <1>5, <1>1 DEF EnqueueHeld
<1>6. ASSUME NEW p \in Procs, EnqueueFree(p)
       PROVE  HeldLocksExact'
  BY <1>6, <1>1 DEF EnqueueFree
<1>7. ASSUME NEW p \in Procs, ClearQueued(p)
       PROVE  HeldLocksExact'
  BY <1>7, CountUp DEF ClearQueued
<1>8. ASSUME NEW p \in Procs, Suspend(p)
       PROVE  HeldLocksExact'
  BY <1>8, <1>1 DEF Suspend
<1>9. ASSUME NEW p \in Procs, Resume(p)
       PROVE  HeldLocksExact'
  BY <1>9, <1>1 DEF Resume
<1>10. ASSUME NEW p \in Procs, Retry(p)
       PROVE  HeldLocksExact'
  BY <1>10, <1>1, CountUp DEF Retry
<1>11. ASSUME NEW p \in Procs, Unlock(p)
       PROVE  HeldLocksExact'
  BY <1>11, <1>1, CountDown DEF Unlock
<1>12. ASSUME NEW p \in Procs, WakeNone(p)
       PROVE  HeldLocksExact'
  BY <1>12, CountDown DEF WakeNone
<1>13. ASSUME NEW p \in Procs, WakePop(p)
       PROVE  HeldLocksExact'
  BY <1>13, <1>1 DEF WakePop
<1>14. ASSUME NEW p \in Procs, WakePark(p)
       PROVE  HeldLocksExact'
  BY <1>14, <1>1 DEF WakePark
<1>15. ASSUME NEW p \in Procs, Deliver(p)
       PROVE  HeldLocksExact'
  BY <1>15, <1>1, CountDown DEF Deliver
<1>16. ASSUME NEW t \in Threads, ThreadEnd(t)
       PROVE  HeldLocksExact'
  BY <1>16, CountKept DEF ThreadEnd
<1>17. CASE UNCHANGED vars
  BY <1>17, CountKept DEF vars
<1>18. QED
  BY <1>2, <1>3, <1>4, <1>5, <1>6, <1>7, <1>8, <1>9, <1>10, <1>11, <1>12, <1>13,
     <1>14, <1>15, <1>16, <1>17 DEF Next, Step, Done

(* A thread that ends holds no lock: everyone of it stands where it may    *)
(* yield, and the count says that none of them is inside a lock block.     *)
LEMMA EndsEmpty ==
    ASSUME TypeOK, HeldLocksExact, NEW t \in Threads, ThreadEnd(t),
           NEW p \in Procs, ThreadOf[p] = t
    PROVE  pc[p] \in {"idle", "parked"} /\ (p \in Native => pc[p] = "idle")
<1>1. Cardinality(Counted(t)) = 0
  BY DEF ThreadEnd, HeldLocksExact
<1>2. IsFiniteSet(Counted(t))
  BY FS_Subset DEF Counted
<1>3. ~Counts(p)
  BY <1>1, <1>2, FS_EmptySet DEF Counted
<1>. QED
  BY <1>3 DEF ThreadEnd, Yields, Counts

LEMMA AliveStep ==
    ASSUME TypeOK, HeldLocksExact, HoldersAlive, NativeAlive, [Next]_vars
    PROVE  HoldersAlive' /\ NativeAlive'
<1> USE DEF TypeOK, HoldersAlive, NativeAlive
<1>1. ASSUME NEW p \in Procs, Alive(p), NEW l \in PCs, Goto(p, l), gone' = gone
       PROVE  HoldersAlive' /\ NativeAlive'
  BY <1>1 DEF Goto, Alive, Owner, Releasing
<1>2. ASSUME NEW p \in Procs, Lock(p) \/ Step(p)
       PROVE  HoldersAlive' /\ NativeAlive'
  <2>1. Alive(p) /\ gone' = gone
    BY <1>2 DEF Lock, Step, SpinTake, SpinEnd, EnqueueHeld, EnqueueFree, ClearQueued,
                Suspend, Resume, Retry, Unlock, WakeNone, WakePop, WakePark, Deliver, At
  <2>2. \E l \in PCs : Goto(p, l)
    BY <1>2 DEF Lock, Step, SpinTake, SpinEnd, EnqueueHeld, EnqueueFree, ClearQueued,
                Suspend, Resume, Retry, Unlock, WakeNone, WakePop, WakePark, Deliver,
                Acquired, Released, PCs
  <2>. QED
    BY <1>1, <2>1, <2>2
<1>3. ASSUME NEW t \in Threads, ThreadEnd(t)
       PROVE  HoldersAlive' /\ NativeAlive'
  BY <1>3, EndsEmpty DEF ThreadEnd, Alive, Owner, Releasing
<1>4. CASE UNCHANGED vars
  BY <1>4 DEF vars, Alive, Owner, Releasing
<1>. QED
  BY <1>2, <1>3, <1>4 DEF Next, Done

-----------------------------------------------------------------------------
(* The wait queue                                                          *)

Distinct(s) == \A i, j \in DOMAIN s : s[i] = s[j] => i = j

(* Pushing in front or at the back adds the locker and nothing else.       *)
LEMMA PushAdds ==
    ASSUME queue \in Seq(Procs), Distinct(queue), NEW p \in Procs, p \notin Queued, Push(p)
    PROVE  /\ Queued' = Queued \cup {p}
           /\ Distinct(queue')
           /\ queue' # <<>>
<1> USE DEF Queued, Distinct
<1>1. CASE p \in retried
  <2>1. queue' = <<p>> \o queue
    BY <1>1 DEF Push
  <2>2. /\ Len(queue') = Len(queue) + 1
        /\ DOMAIN queue' = 1 .. Len(queue) + 1
        /\ queue'[1] = p
        /\ \A i \in 1 .. Len(queue) : queue'[i + 1] = queue[i]
    BY <2>1
  <2>3. \A i \in DOMAIN queue' : i = 1 \/ (i - 1 \in DOMAIN queue /\ queue'[i] = queue[i - 1])
    BY <2>2
  <2>4. Queued' = Queued \cup {p}
    <3>1. \A i \in DOMAIN queue' : queue'[i] \in Queued \cup {p}
      BY <2>2, <2>3
    <3>2. \A i \in DOMAIN queue : queue[i] \in Queued'
      <4>1. \A i \in 1 .. Len(queue) : i + 1 \in DOMAIN queue' /\ queue'[i + 1] = queue[i]
        BY <2>2
      <4>2. DOMAIN queue = 1 .. Len(queue)
        OBVIOUS
      <4>. QED
        BY <4>1, <4>2
    <3>3. p \in Queued'
      BY <2>2
    <3>. QED
      BY <3>1, <3>2, <3>3
  <2>5. Distinct(queue')
    <3>1. \A i \in DOMAIN queue : queue[i] # p
      OBVIOUS
    <3>2. \A i \in DOMAIN queue' : i \in Nat
      BY <2>2
    <3>3. ASSUME NEW i \in DOMAIN queue', NEW j \in DOMAIN queue', queue'[i] = queue'[j], j # 1
          PROVE  i = j
      <4>1. i # 1
        BY ONLY <2>2, <2>3, <3>1, <3>3
      <4>2. i - 1 = j - 1
        BY <2>3, <3>3, <4>1
      <4>. QED
        BY ONLY <3>2, <4>2, i \in DOMAIN queue', j \in DOMAIN queue'
    <3>4. \A i \in DOMAIN queue' : queue'[i] = queue'[1] => i = 1
      BY ONLY <2>2, <2>3, <3>1
    <3>. QED
      BY ONLY <3>3, <3>4
  <2>6. queue' # <<>>
    BY <2>1
  <2>. QED
    BY <2>4, <2>5, <2>6
<1>2. CASE p \notin retried
  <2>1. queue' = Append(queue, p)
    BY <1>2 DEF Push
  <2>2. /\ DOMAIN queue' = 1 .. Len(queue) + 1
        /\ queue'[Len(queue) + 1] = p
        /\ \A i \in 1 .. Len(queue) : queue'[i] = queue[i]
    BY <2>1
  <2>3. Queued' = Queued \cup {p}
    BY <2>2
  <2>4. Distinct(queue')
    BY <2>2
  <2>. QED
    BY <2>2, <2>3, <2>4
<1>. QED
  BY <1>1, <1>2

(* Taking the first park out leaves the others.                            *)
LEMMA PopRemoves ==
    ASSUME queue \in Seq(Procs), queue # <<>>, Distinct(queue), queue' = Tail(queue)
    PROVE  /\ Queued' = Queued \ {Head(queue)}
           /\ Head(queue) \in Queued
           /\ Distinct(queue')
<1> USE DEF Queued, Distinct
<1>1. /\ Len(queue) \in Nat \ {0} /\ DOMAIN queue = 1 .. Len(queue)
      /\ Head(queue) = queue[1]
      /\ DOMAIN queue' = 1 .. Len(queue) - 1
      /\ \A i \in 1 .. Len(queue) - 1 : queue'[i] = queue[i + 1]
  BY HeadTailProperties
<1>2. \A i \in DOMAIN queue : i = 1 \/ (i - 1 \in DOMAIN queue' /\ queue[i] = queue'[i - 1])
  BY <1>1
<1>3. \A i \in DOMAIN queue' : queue'[i] \in Queued \ {Head(queue)}
  <2>1. \A i \in DOMAIN queue' : i + 1 \in DOMAIN queue /\ i + 1 # 1 /\ 1 \in DOMAIN queue
    BY <1>1
  <2>2. \A i \in DOMAIN queue' : queue'[i] = queue[i + 1] /\ queue[i + 1] # queue[1]
    BY <1>1, <2>1
  <2>. QED
    BY <1>1, <2>1, <2>2
<1>4. \A i \in DOMAIN queue : queue[i] = Head(queue) \/ queue[i] \in Queued'
  BY <1>1, <1>2
<1>5. Head(queue) \in Queued
  BY <1>1
<1>6. Distinct(queue')
  BY <1>1
<1>7. Queued' = Queued \ {Head(queue)}
  <2>1. ASSUME NEW x \in Queued'
         PROVE  x \in Queued \ {Head(queue)}
    BY <1>3, <2>1
  <2>2. ASSUME NEW x \in Queued, x # Head(queue)
         PROVE  x \in Queued'
    BY <1>4, <2>2
  <2>. QED
    BY <2>1, <2>2
<1>. QED
  BY <1>5, <1>6, <1>7

LEMMA QueueStep ==
    ASSUME TypeOK, QueueSound, WakersSound, [Next]_vars
    PROVE  QueueSound'
<1> USE DEF TypeOK, PCs
<1>0. QueueSound <=> /\ queue # <<>> => queued
                     /\ Distinct(queue)
                     /\ \A q \in Queued : pc[q] \in {"parking", "parked"} /\ q \notin woken
  BY DEF QueueSound, Distinct
<1>00. QueueSound' <=> /\ queue' # <<>> => queued'
                       /\ Distinct(queue')
                       /\ \A q \in Queued' : pc'[q] \in {"parking", "parked"} /\ q \notin woken'
  BY DEF QueueSound, Distinct
<1>1. ASSUME NEW p \in Procs, NEW l \in PCs, Goto(p, l), p \notin Queued \/ l \in {"parking", "parked"},
             queue' = queue, queued' \/ queued' = queued, woken' \cap Queued = {}
       PROVE  QueueSound'
  <2>1. Queued' = Queued /\ Queued \subseteq Procs
    BY <1>1 DEF Queued
  <2>. QED
    BY <1>1, <1>0, <1>00, <2>1 DEF Goto
<1>2. \A p \in Procs : pc[p] \notin {"parking", "parked"} \/ p \in woken => p \notin Queued
  BY <1>0
<1>3. woken \cap Queued = {}
  BY <1>0
<1>4. ASSUME NEW p \in Procs, Lock(p) \/ SpinTake(p) \/ SpinEnd(p) \/ EnqueueFree(p) \/ Suspend(p)
                                \/ Resume(p) \/ Retry(p) \/ Unlock(p) \/ Deliver(p)
       PROVE  QueueSound'
  <2>1. queue' = queue /\ (queued' \/ queued' = queued) /\ woken' = woken
    BY <1>4 DEF Lock, SpinTake, SpinEnd, EnqueueFree, Suspend, Resume, Retry, Unlock, Deliver
  <2>2. \E l \in PCs : Goto(p, l) /\ (p \notin Queued \/ l \in {"parking", "parked"})
    BY <1>4, <1>2 DEF Lock, SpinTake, SpinEnd, EnqueueFree, Suspend, Resume, Retry, Unlock,
                      Deliver, At, Acquired, Released
  <2>. QED
    BY <1>1, <1>3, <2>1, <2>2
<1>5. ASSUME NEW p \in Procs, EnqueueHeld(p)
       PROVE  QueueSound'
  <2>1. p \notin Queued
    BY <1>2, <1>5 DEF EnqueueHeld, At
  <2>2. Queued' = Queued \cup {p} /\ Distinct(queue')
    BY <1>0, <1>5, <2>1, PushAdds DEF EnqueueHeld
  <2>3. \A q \in Queued \cup {p} : pc'[q] \in {"parking", "parked"} /\ q \notin woken'
    BY <1>0, <1>5 DEF EnqueueHeld, Goto, Queued
  <2>. QED
    BY <1>00, <1>5, <2>2, <2>3 DEF EnqueueHeld
<1>6. ASSUME NEW p \in Procs, ClearQueued(p) \/ WakeNone(p)
       PROVE  QueueSound'
  <2>1. queue' = queue /\ woken' = woken /\ (queue # <<>> => queued' = queued)
    BY <1>6 DEF ClearQueued, WakeNone
  <2>2. \A q \in Procs \ {p} : pc'[q] = pc[q]
    BY <1>6 DEF ClearQueued, WakeNone, Acquired, Released, Goto
  <2>3. p \notin Queued
    BY <1>2, <1>6 DEF ClearQueued, WakeNone, At
  <2>4. Queued' = Queued /\ Queued \subseteq Procs
    BY <2>1 DEF Queued
  <2>. QED
    BY <1>0, <1>00, <2>1, <2>2, <2>3, <2>4
<1>7. ASSUME NEW p \in Procs, WakePop(p)
       PROVE  QueueSound'
  <2>1. p \notin Queued
    BY <1>2, <1>7 DEF WakePop, At
  <2>2. Queued' = Queued \ {Head(queue)} /\ Distinct(queue')
    BY <1>0, <1>7, PopRemoves DEF WakePop
  <2>3. \A q \in Queued : pc'[q] \in {"parking", "parked"} /\ q \notin woken'
    BY <1>0, <1>7, <2>1 DEF WakePop, Goto, Queued
  <2>. QED
    BY <1>0, <1>00, <1>7, <2>2, <2>3 DEF WakePop
<1>8. ASSUME NEW p \in Procs, WakePark(p)
       PROVE  QueueSound'
  <2>1. target[p] \notin Queued
    BY <1>8 DEF WakePark, At, WakersSound
  <2>2. Goto(p, "deliver") /\ queue' = queue /\ queued' = queued
    BY <1>8 DEF WakePark
  <2>3. woken' \cap Queued = {}
    BY <1>3, <1>8, <2>1 DEF WakePark
  <2>4. p \notin Queued
    BY <1>2, <1>8 DEF WakePark, At
  <2>. QED
    BY <1>1, <2>2, <2>3, <2>4
<1>9. ASSUME NEW t \in Threads, ThreadEnd(t)
       PROVE  QueueSound'
  BY <1>9 DEF ThreadEnd, QueueSound, Queued
<1>10. CASE UNCHANGED vars
  BY <1>10 DEF vars, QueueSound, Queued
<1>. QED
  BY <1>4, <1>5, <1>6, <1>7, <1>8, <1>9, <1>10 DEF Next, Step, Done

-----------------------------------------------------------------------------
(* Wakers and the wakes they carry                                         *)

LEMMA WakersStep ==
    ASSUME TypeOK, QueueSound, WakersSound, [Next]_vars
    PROVE  WakersSound'
<1> USE DEF TypeOK, PCs, WakersSound
<1>1. ASSUME NEW p \in Procs, pc[p] \notin {"parking", "parked", "wakePark", "deliver"},
             NEW l \in PCs \ {"wakePark", "deliver"}, Goto(p, l),
             target' = target, left' = left, woken' \subseteq woken, woken \subseteq woken' \cup {p},
             Queued' \subseteq Queued \cup {p}
       PROVE  WakersSound'
  BY <1>1 DEF Goto
<1>2. ASSUME NEW p \in Procs, Lock(p) \/ SpinTake(p) \/ SpinEnd(p) \/ EnqueueFree(p)
                                \/ ClearQueued(p) \/ Retry(p) \/ Unlock(p) \/ WakeNone(p)
       PROVE  WakersSound'
  <2>1. /\ pc[p] \notin {"parking", "parked", "wakePark", "deliver"}
        /\ target' = target /\ left' = left /\ woken' = woken /\ queue' = queue
    BY <1>2 DEF Lock, SpinTake, SpinEnd, EnqueueFree, ClearQueued, Retry, Unlock, WakeNone, At
  <2>2. \E l \in PCs \ {"wakePark", "deliver"} : Goto(p, l)
    BY <1>2 DEF Lock, SpinTake, SpinEnd, EnqueueFree, ClearQueued, Retry, Unlock, WakeNone,
                Acquired, Released
  <2>3. Queued' = Queued
    BY <2>1 DEF Queued
  <2>. QED
    BY <1>1, <2>1, <2>2, <2>3
<1>3. ASSUME NEW p \in Procs, EnqueueHeld(p)
       PROVE  WakersSound'
  <2>1. Queued' = Queued \cup {p}
    BY <1>3, PushAdds DEF EnqueueHeld, At, QueueSound, Distinct
  <2>. QED
    BY <1>1, <1>3, <2>1 DEF EnqueueHeld, At
<1>4. ASSUME NEW p \in Procs, Suspend(p)
       PROVE  WakersSound'
  BY <1>4 DEF Suspend, At, Goto, Queued
<1>5. ASSUME NEW p \in Procs, Resume(p)
       PROVE  WakersSound'
  <2>1. Queued' = Queued
    BY <1>5 DEF Resume, Queued
  <2>2. p \in woken /\ pc[p] \in {"parking", "parked"}
    BY <1>5 DEF Resume, At
  <2>. QED
    BY <1>5, <2>1, <2>2 DEF Resume, Goto
<1>6. ASSUME NEW p \in Procs, WakePop(p)
       PROVE  WakersSound'
  <2>1. Queued' = Queued \ {Head(queue)} /\ Head(queue) \in Queued
    BY <1>6, PopRemoves DEF WakePop, QueueSound, Distinct
  <2>2. pc[Head(queue)] \in {"parking", "parked"} /\ Head(queue) \notin woken /\ Head(queue) \in Procs
    BY <2>1 DEF QueueSound, Queued
  <2>3. \A q \in Procs : pc[q] = "wakePark" => target[q] # Head(queue)
    BY <2>1
  <2>4. /\ pc[p] = "wakeNext" /\ pc' = [pc EXCEPT ![p] = "wakePark"]
        /\ target' = [target EXCEPT ![p] = Head(queue)]
        /\ left' = left \ {p} /\ woken' = woken
    BY <1>6 DEF WakePop, At, Goto
  <2>. QED
    BY <2>1, <2>2, <2>3, <2>4
<1>7. ASSUME NEW p \in Procs, WakePark(p)
       PROVE  WakersSound'
  <2>1. Queued' = Queued
    BY <1>7 DEF WakePark, Queued
  <2>2. pc[p] = "wakePark"
    BY <1>7 DEF WakePark, At
  <2>. QED
    BY <1>7, <2>1, <2>2 DEF WakePark, Goto
<1>8. ASSUME NEW p \in Procs, Deliver(p)
       PROVE  WakersSound'
  <2>1. Queued' = Queued
    BY <1>8 DEF Deliver, Queued
  <2>2. /\ pc[p] = "deliver"
        /\ \E l \in {"idle", "wakeNext"} : pc' = [pc EXCEPT ![p] = l]
        /\ target' = [target EXCEPT ![p] = NoProc] /\ left' = left /\ woken' = woken
    BY <1>8 DEF Deliver, At, Goto, Released
  <2>. QED
    BY <2>1, <2>2
<1>9. ASSUME NEW t \in Threads, ThreadEnd(t)
       PROVE  WakersSound'
  BY <1>9 DEF ThreadEnd, Queued
<1>10. CASE UNCHANGED vars
  BY <1>10 DEF vars, Queued
<1>. QED
  BY <1>2, <1>3, <1>4, <1>5, <1>6, <1>7, <1>8, <1>9, <1>10 DEF Next, Step, Done

(* The heart: whoever carries a wake hands it on when he stops carrying it *)
(* -- to the mutex, to the next waiter, or to a coroutine that will run -- *)
(* or his thread ended.                                                    *)
LEMMA NoLostWakeStep ==
    ASSUME TypeOK, MutualExclusion, HeldLocksExact, HoldersAlive, NativeAlive, QueueSound,
           WakersSound, NoLostWakeUnlessDropped, [Next]_vars
    PROVE  NoLostWakeUnlessDropped'
<1> USE DEF TypeOK, PCs
<1> DEFINE Hope == \E c \in Procs : Carries(c) \/ Dropped(c)
<1>1. NoLostWakeUnlessDropped' <=> (~held' /\ queue' # <<>> => Hope')
  BY DEF NoLostWakeUnlessDropped
<1>2. ~held /\ queue # <<>> => Hope
  BY DEF NoLostWakeUnlessDropped
<1>3. ASSUME NEW p \in Procs, Lock(p) \/ SpinTake(p) \/ EnqueueHeld(p) \/ EnqueueFree(p)
                                \/ ClearQueued(p) \/ Retry(p)
       PROVE  held'
  BY <1>3 DEF Lock, SpinTake, EnqueueHeld, EnqueueFree, ClearQueued, Retry, At,
              MutualExclusion, Owner
<1>4. ASSUME NEW p \in Procs, SpinEnd(p) \/ Suspend(p)
       PROVE  NoLostWakeUnlessDropped'
  <2>1. /\ pc[p] = "spin" \/ (pc[p] = "parking" /\ p \notin woken)
        /\ \E l \in {"enqueue", "parked"} : pc' = [pc EXCEPT ![p] = l]
        /\ UNCHANGED <<held, queue, woken, runnable, target, left, gone>>
    BY <1>4 DEF SpinEnd, Suspend, At, Goto
  <2>2. ASSUME NEW c \in Procs, Carries(c) \/ Dropped(c)
         PROVE  Carries(c)' \/ Dropped(c)'
    BY <2>1, <2>2 DEF Carries, WakeReaches, Reachable, Dropped, Alive
  <2>. QED
    BY <1>1, <1>2, <2>1, <2>2
<1>5. ASSUME NEW p \in Procs, Resume(p) \/ WakePop(p)
       PROVE  NoLostWakeUnlessDropped'
  <2>1. Carries(p)'
    BY <1>5 DEF Resume, WakePop, At, Goto, Carries, Alive
  <2>. QED
    BY <1>1, <2>1
<1>6. ASSUME NEW p \in Procs, Unlock(p)
       PROVE  NoLostWakeUnlessDropped'
  <2>1. CASE queued
    <3>1. Carries(p)'
      BY <1>6, <2>1 DEF Unlock, At, Goto, Carries, Alive
    <3>. QED
      BY <1>1, <3>1
  <2>2. CASE ~queued
    BY <1>1, <1>6, <2>2 DEF Unlock, QueueSound
  <2>. QED
    BY <2>1, <2>2
<1>7. ASSUME NEW p \in Procs, WakeNone(p)
       PROVE  NoLostWakeUnlessDropped'
  BY <1>1, <1>7 DEF WakeNone
<1>8. ASSUME NEW p \in Procs, WakePark(p)
       PROVE  NoLostWakeUnlessDropped'
  <2>0. PICK w \in Procs : w = target[p]
    BY <1>8 DEF WakePark, At, WakersSound
  <2>1. /\ pc[p] = "wakePark" /\ Alive(p) /\ pc' = [pc EXCEPT ![p] = "deliver"]
        /\ woken' = woken \cup {w} /\ UNCHANGED <<target, left, runnable, gone>>
    BY <1>8, <2>0 DEF WakePark, At, Goto
  <2>2. p \notin left /\ pc[w] \in {"parking", "parked"}
    BY <2>0, <2>1 DEF WakersSound
  <2>3. CASE Alive(w)
    <3>1. Carries(w)'
      BY <2>0, <2>1, <2>2, <2>3 DEF Carries, WakeReaches, Alive
    <3>. QED
      BY <1>1, <3>1
  <2>4. CASE ~Alive(w)
    <3>1. ~Reachable(w)'
      BY <2>1, <2>2, <2>4 DEF NativeAlive, Reachable, Alive
    <3>2. Carries(p)'
      BY <2>0, <2>1, <3>1 DEF Carries, Alive
    <3>. QED
      BY <1>1, <3>2
  <2>. QED
    BY <2>3, <2>4
<1>9. ASSUME NEW p \in Procs, Deliver(p)
       PROVE  NoLostWakeUnlessDropped'
  <2>1. /\ pc[p] = "deliver" /\ Alive(p)
        /\ target' = [target EXCEPT ![p] = NoProc]
        /\ UNCHANGED <<held, queue, woken, left, gone>>
    BY <1>9 DEF Deliver, At
  <2>2. CASE ~Reachable(target[p])
    <3>1. Carries(p)'
      BY <1>9, <2>1, <2>2 DEF Deliver, Goto, Carries, Alive
    <3>. QED
      BY <1>1, <3>1
  <2>3. CASE Reachable(target[p])
    <3>1. /\ runnable' = runnable \cup {w \in {target[p]} : pc[w] = "parked" /\ p \notin left}
          /\ pc' = [pc EXCEPT ![p] = "idle"]
      BY <1>9, <2>3 DEF Deliver, Released, Goto
    <3>2. ASSUME NEW c \in Procs, Dropped(c)
           PROVE  Dropped(c)'
      BY <2>1, <3>1, <3>2 DEF Dropped, Alive
    <3>3. ASSUME NEW c \in Procs, Carries(c)
           PROVE  Carries(c)'
      <4>1. c # p /\ pc'[c] = pc[c] /\ target'[c] = target[c] /\ Alive(c)'
        BY <2>1, <2>3, <3>1, <3>3 DEF Carries, WakeReaches, Alive
      <4>2. WakeReaches(c) => WakeReaches(c)'
        BY <2>1, <3>1, <4>1 DEF WakeReaches
      <4>3. Reachable(target[c])' = Reachable(target[c])
        BY <2>1, <4>1 DEF Reachable, Alive
      <4>. QED
        BY <3>3, <4>1, <4>2, <4>3 DEF Carries
    <3>. QED
      BY <1>1, <1>2, <2>1, <3>2, <3>3
  <2>. QED
    BY <2>2, <2>3
<1>10. ASSUME NEW t \in Threads, ThreadEnd(t)
       PROVE  NoLostWakeUnlessDropped'
  <2>1. /\ gone' = gone \cup {t}
        /\ UNCHANGED <<held, queue, pc, woken, runnable, target, left>>
    BY <1>10 DEF ThreadEnd
  <2>2. ASSUME NEW c \in Procs, Dropped(c)
         PROVE  Dropped(c)'
    BY <2>1, <2>2 DEF Dropped, Alive
  <2>3. ASSUME NEW c \in Procs, Carries(c), ThreadOf[c] # t
         PROVE  Carries(c)'
    BY <2>1, <2>3 DEF Carries, WakeReaches, Reachable, Alive
  <2>4. ASSUME NEW c \in Procs, Carries(c), ThreadOf[c] = t
         PROVE  Hope'
    <3>1. pc[c] = "parked" /\ c \notin Native /\ c \in woken /\ ~Alive(c)'
      BY <1>10, <2>1, <2>4, EndsEmpty DEF Carries, WakeReaches, Alive
    <3>2. CASE c \in runnable
      BY <2>1, <3>1, <3>2 DEF Dropped
    <3>3. CASE c \notin runnable
      <4>1. PICK q \in Procs : pc[q] = "deliver" /\ target[q] = c
        BY <2>4, <3>1, <3>3 DEF Carries, WakeReaches
      <4>2. ThreadOf[q] # t /\ Alive(q)
        BY <1>10, <4>1, EndsEmpty DEF HoldersAlive, Releasing
      <4>3. Carries(q)'
        BY <2>1, <3>1, <4>1, <4>2 DEF Carries, Reachable, Alive
      <4>. QED
        BY <4>3
    <3>. QED
      BY <3>2, <3>3
  <2>. QED
    BY <1>1, <1>2, <2>1, <2>2, <2>3, <2>4
<1>11. CASE UNCHANGED vars
  BY <1>11 DEF vars, NoLostWakeUnlessDropped, Carries, WakeReaches, Reachable, Dropped, Alive
<1>. QED
  BY <1>1, <1>3, <1>4, <1>5, <1>6, <1>7, <1>8, <1>9, <1>10, <1>11 DEF Next, Step, Done

-----------------------------------------------------------------------------
(* The theorems                                                            *)

LEMMA InvInit == Init => IInv
<1>1. Init => TypeOK
  <2>. SUFFICES ASSUME Init
                PROVE  TypeOK
    OBVIOUS
  <2>1. queue \in Seq(Procs)
    BY DEF Init
  <2>2. pc \in [Procs -> PCs] /\ target \in [Procs -> Procs \cup {NoProc}]
    BY DEF Init, PCs
  <2>3. locks \in [Procs -> Nat] /\ heldLocks \in [Threads -> Nat]
    BY DEF Init
  <2>4. earlier \in [Procs -> SUBSET Procs]
    BY DEF Init
  <2>. QED
    BY <2>1, <2>2, <2>3, <2>4 DEF Init, TypeOK
<1>2. Init => HeldLocksExact
  <2> SUFFICES ASSUME Init, NEW t \in Threads
               PROVE  heldLocks[t] = Cardinality(Counted(t))
    BY DEF HeldLocksExact
  <2>1. Counted(t) = {}
    BY DEF Init, Counted, Counts, Releasing
  <2>. QED
    BY <2>1, FS_EmptySet DEF Init
<1>3. Init => MutualExclusion /\ HoldersAlive /\ NativeAlive
  BY DEF Init, MutualExclusion, HoldersAlive, NativeAlive, Owner, Releasing, Alive
<1>4. Init => QueueSound
  BY DEF Init, QueueSound, Queued
<1>5. Init => WakersSound
  BY DEF Init, WakersSound
<1>6. Init => NoLostWakeUnlessDropped
  BY DEF Init, NoLostWakeUnlessDropped
<1>. QED
  BY <1>1, <1>2, <1>3, <1>4, <1>5, <1>6 DEF IInv, LockNeverOutlivesThread

LEMMA InvStep == IInv /\ [Next]_vars => IInv'
<1> SUFFICES ASSUME IInv, [Next]_vars
             PROVE  IInv'
  OBVIOUS
<1> USE DEF IInv, LockNeverOutlivesThread
<1>1. TypeOK'
  BY TypeStep
<1>2. MutualExclusion'
  BY MutualExclusionStep
<1>3. HeldLocksExact'
  BY HeldLocksStep
<1>4. HoldersAlive' /\ NativeAlive'
  BY AliveStep
<1>5. QueueSound'
  BY QueueStep
<1>6. WakersSound'
  BY WakersStep
<1>7. NoLostWakeUnlessDropped'
  BY NoLostWakeStep
<1>. QED
  BY <1>1, <1>2, <1>3, <1>4, <1>5, <1>6, <1>7

(* Everything the later theorems conclude, as one invariant of every       *)
(* execution of lock and unlock.                                           *)
THEOREM Invariant == Spec => []IInv
  BY InvInit, InvStep, PTL DEF Spec

(* Every execution keeps the types; in particular held_locks never goes    *)
(* below zero.                                                             *)
THEOREM TypeCorrect == Spec => []TypeOK
<1>1. IInv => TypeOK
  BY DEF IInv
<1>. QED
  BY <1>1, Invariant, PTL

(* Two lockers never have the mutex at once (mutex.valk, `lock`), whatever *)
(* the threads, the barging and the wakes.                                 *)
THEOREM Exclusion == Spec => []MutualExclusion
<1>1. IInv => MutualExclusion
  BY DEF IInv
<1>. QED
  BY <1>1, Invariant, PTL

(* No thread ends while one of its coroutines is in a lock block or        *)
(* releases one (lock.valk held_locks, coro.valk drain_locks).             *)
THEOREM LocksDieWithNobody == Spec => []LockNeverOutlivesThread
<1>1. IInv => LockNeverOutlivesThread
  BY DEF IInv
<1>. QED
  BY <1>1, Invariant, PTL

(* The wait queue names every waiter once and only waiters that still wait *)
(* unwoken, and the word says so (mutex.valk, `push_*` and `wake_next`).   *)
THEOREM QueueIsSound == Spec => []QueueSound
<1>1. IInv => QueueSound
  BY DEF IInv
<1>. QED
  BY <1>1, Invariant, PTL

(* A free mutex with waiters has somebody on the way to it, or its wake    *)
(* was given to a coroutine whose thread then ended (mutex.valk, `unlock`).*)
THEOREM WakeKept == Spec => []NoLostWakeUnlessDropped
<1>1. IInv => NoLostWakeUnlessDropped
  BY DEF IInv
<1>. QED
  BY <1>1, Invariant, PTL

(* Where no thread can end, the exception is gone: no wake-up is lost.     *)
THEOREM NoWakeLost == Spec => [](MayEnd = {} => NoLostWake)
<1> DEFINE NobodyEnds == MayEnd = {} => gone = {}
<1>1. Init => NobodyEnds
  BY DEF Init
<1>2. NobodyEnds /\ [Next]_vars => NobodyEnds'
  <2>1. \A p \in Procs : Lock(p) \/ Step(p) => gone' = gone
    BY DEF Lock, Step, SpinTake, SpinEnd, EnqueueHeld, EnqueueFree, ClearQueued, Suspend,
           Resume, Retry, Unlock, WakeNone, WakePop, WakePark, Deliver
  <2>2. MayEnd = {} => \A t \in Threads : ~ThreadEnd(t)
    BY DEF ThreadEnd
  <2>. QED
    BY <2>1, <2>2 DEF Next, Done, vars
<1>3. IInv /\ NobodyEnds => (MayEnd = {} => NoLostWake)
  BY DEF IInv, NoLostWakeUnlessDropped, NoLostWake, Dropped, Alive
<1>. QED
  BY <1>1, <1>2, <1>3, Invariant, PTL DEF Spec

-----------------------------------------------------------------------------
(* The order of the queue                                                  *)

(* Who was waiting before is waiting still, since whoever gets the mutex   *)
(* is struck out; and who looks again after a wake counts as woken.        *)
Precede ==
    /\ \A q \in Procs : earlier[q] \subseteq Waiting
    /\ \A q \in Procs : pc[q] = "retry" => q \in retried

(* A step that leaves the queue alone keeps its order.                     *)
LEMMA OrderKept ==
    ASSUME FreshInOrder, queue' = queue,
           \A q \in Queued : (q \in retried' <=> q \in retried) /\ earlier'[q] \subseteq earlier[q]
    PROVE  FreshInOrder'
<1>1. \A i \in DOMAIN queue : /\ queue[i] \in retried' <=> queue[i] \in retried
                              /\ earlier'[queue[i]] \subseteq earlier[queue[i]]
  BY DEF Queued
<1>. QED
  BY ONLY <1>1, FreshInOrder, queue' = queue DEF FreshInOrder

(* Locker p moves on, and goes on waiting or is struck out.                *)
LEMMA PrecedeKept ==
    ASSUME TypeOK, Precede, NEW p \in Procs, NEW l \in PCs, Goto(p, l),
           retried' \ {p} = retried \ {p},
           \A q \in Procs : earlier'[q] \subseteq earlier[q] \cup Waiting,
           p \in Waiting => p \in Waiting' \/ \A q \in Procs : p \notin earlier'[q],
           l = "retry" => p \in retried'
    PROVE  Precede'
<1>1. \A q \in Procs : q # p => pc'[q] = pc[q] /\ (q \in retried' <=> q \in retried)
  BY DEF TypeOK, Goto
<1>2. pc'[p] = l
  BY DEF TypeOK, Goto
<1>3. \A q \in Procs : q # p => (q \in Waiting' <=> q \in Waiting)
  BY <1>1 DEF Waiting
<1>4. \A q \in Procs : earlier'[q] \subseteq Waiting
  BY DEF Precede
<1>5. \A q \in Procs : earlier'[q] \subseteq Waiting'
  <2>1. ASSUME NEW q \in Procs, NEW r \in earlier'[q]
        PROVE  r \in Waiting'
    <3>1. r \in Waiting /\ r \in Procs
      BY <1>4, <2>1 DEF Waiting
    <3>2. CASE r = p
      BY <2>1, <3>1, <3>2
    <3>3. CASE r # p
      BY <1>3, <3>1, <3>3
    <3>. QED
      BY <3>2, <3>3
  <2>. QED
    BY <2>1
<1>6. \A q \in Procs : pc'[q] = "retry" => q \in retried'
  BY <1>1, <1>2 DEF Precede
<1>. QED
  BY <1>5, <1>6 DEF Precede

(* A park that joins the queue: in front it was woken before, at the back  *)
(* nobody was there before who is behind it.                               *)
LEMMA OrderPush ==
    ASSUME TypeOK, FreshInOrder, NEW p \in Procs, p \notin Queued, Push(p),
           p \notin retried => \A q \in Procs : p \notin earlier[q],
           retried' = retried, \A q \in Queued : earlier'[q] = earlier[q]
    PROVE  FreshInOrder'
<1>1. \A i \in 1 .. Len(queue) : earlier'[queue[i]] = earlier[queue[i]] /\ queue[i] \in Procs
  <2>1. \A i \in 1 .. Len(queue) : i \in DOMAIN queue /\ queue[i] \in Procs
    BY DEF TypeOK
  <2>2. \A i \in 1 .. Len(queue) : queue[i] \in Queued
    BY <2>1 DEF Queued
  <2>. QED
    BY ONLY <2>1, <2>2, \A q \in Queued : earlier'[q] = earlier[q]
<1>2. /\ queue \in Seq(Procs) /\ Len(queue) \in Nat
      /\ \A i, j \in 1 .. Len(queue) : i < j /\ queue[i] \notin retried =>
            queue[j] \notin retried /\ queue[j] \notin earlier[queue[i]]
  BY DEF TypeOK, FreshInOrder
<1>3. CASE p \in retried
  <2>1. queue' = <<p>> \o queue
    BY <1>3 DEF Push
  <2>2. /\ DOMAIN queue' = 1 .. Len(queue) + 1
        /\ queue'[1] = p
        /\ \A i \in 1 .. Len(queue) : queue'[i + 1] = queue[i]
    BY ONLY <1>2, <2>1, p \in Procs
  <2>3. \A i \in 1 .. Len(queue) + 1 : i = 1 \/ (i - 1 \in 1 .. Len(queue) /\ queue'[i] = queue[i - 1])
    BY ONLY <1>2, <2>2
  <2>4. ASSUME NEW i \in 1 .. Len(queue) + 1, NEW j \in 1 .. Len(queue) + 1, i < j, queue'[i] \notin retried
        PROVE  queue'[j] \notin retried /\ queue'[j] \notin earlier'[queue'[i]]
    <3>1. i # 1 /\ j # 1
      BY <1>3, <2>2, <2>4
    <3>2. /\ i - 1 \in 1 .. Len(queue) /\ queue'[i] = queue[i - 1]
          /\ j - 1 \in 1 .. Len(queue) /\ queue'[j] = queue[j - 1]
          /\ i - 1 < j - 1
      BY ONLY <1>2, <2>3, <2>4, <3>1
    <3>. QED
      BY ONLY <1>1, <1>2, <2>4, <3>2
  <2>. QED
    BY ONLY <2>2, <2>4, retried' = retried DEF FreshInOrder
<1>4. CASE p \notin retried
  <2>1. queue' = Append(queue, p)
    BY <1>4 DEF Push
  <2>2. /\ DOMAIN queue' = 1 .. Len(queue) + 1
        /\ queue'[Len(queue) + 1] = p
        /\ \A i \in 1 .. Len(queue) : queue'[i] = queue[i]
    BY ONLY <1>2, <2>1, p \in Procs
  <2>3. ASSUME NEW i \in 1 .. Len(queue) + 1, NEW j \in 1 .. Len(queue) + 1, i < j, queue'[i] \notin retried
        PROVE  queue'[j] \notin retried /\ queue'[j] \notin earlier'[queue'[i]]
    <3>1. i \in 1 .. Len(queue) /\ queue'[i] = queue[i]
      BY ONLY <1>2, <2>2, <2>3
    <3>2. CASE j = Len(queue) + 1
      BY <1>1, <1>4, <2>2, <3>1, <3>2
    <3>3. CASE j # Len(queue) + 1
      <4>1. j \in 1 .. Len(queue) /\ queue'[j] = queue[j]
        BY ONLY <1>2, <2>2, <3>3, j \in 1 .. Len(queue) + 1
      <4>. QED
        BY ONLY <1>1, <1>2, <2>3, <3>1, <4>1
    <3>. QED
      BY <3>2, <3>3
  <2>. QED
    BY ONLY <2>2, <2>3, retried' = retried DEF FreshInOrder
<1>. QED
  BY <1>3, <1>4

LEMMA OrderPop ==
    ASSUME TypeOK, FreshInOrder, queue # <<>>, queue' = Tail(queue), retried' = retried, earlier' = earlier
    PROVE  FreshInOrder'
<1>1. /\ Len(queue) \in Nat \ {0} /\ DOMAIN queue = 1 .. Len(queue)
      /\ DOMAIN queue' = 1 .. Len(queue) - 1
      /\ \A i \in 1 .. Len(queue) - 1 : queue'[i] = queue[i + 1]
  BY HeadTailProperties DEF TypeOK
<1>2. \A i \in DOMAIN queue' : i + 1 \in DOMAIN queue
  BY ONLY <1>1
<1>3. \A i, j \in DOMAIN queue' : i < j => i + 1 < j + 1
  BY ONLY <1>1
<1>. QED
  BY ONLY <1>1, <1>2, <1>3, FreshInOrder, retried' = retried, earlier' = earlier DEF FreshInOrder

(* Each step for the order of the queue and for who waits.                 *)
LEMMA OrderStep ==
    ASSUME IInv, FreshInOrder, Precede, [Next]_vars
    PROVE  FreshInOrder' /\ Precede'
<1>1. /\ \A q \in Queued : q \in Procs /\ pc[q] \in {"parking", "parked"} /\ q \notin woken
      /\ TypeOK
  BY DEF IInv, QueueSound, TypeOK, Queued
<1>2. pc \in [Procs -> PCs] /\ earlier \in [Procs -> SUBSET Procs]
  BY <1>1 DEF TypeOK
<1>3. ASSUME NEW p \in Procs, Acquired(p), queue' = queue, retried' \ {p} = retried \ {p}, p \notin Queued
      PROVE  FreshInOrder' /\ Precede'
  <2>1. /\ Goto(p, "cs") /\ "cs" \in PCs
        /\ \A q \in Procs : earlier'[q] \subseteq earlier[q] /\ p \notin earlier'[q]
    BY <1>2, <1>3 DEF Acquired, PCs
  <2>2. FreshInOrder'
    BY <1>1, <1>3, <2>1, OrderKept
  <2>. QED
    BY <1>1, <1>3, <2>1, <2>2, PrecedeKept
<1>4. ASSUME NEW p \in Procs, NEW l \in PCs \ {"retry"}, Goto(p, l), queue' = queue,
             retried' = retried, earlier' = earlier, p \in Waiting => p \in Waiting'
      PROVE  FreshInOrder' /\ Precede'
  BY <1>1, <1>4, OrderKept, PrecedeKept
<1>5. ASSUME NEW p \in Procs, Lock(p)
      PROVE  FreshInOrder' /\ Precede'
  <2>1. pc[p] = "idle" /\ queue' = queue /\ retried' = retried \ {p} /\ p \notin Queued /\ p \notin Waiting
    BY <1>1, <1>5 DEF Lock, At, Waiting
  <2>2. CASE Acquired(p)
    BY <1>3, <2>1, <2>2
  <2>3. CASE Goto(p, "spin") /\ earlier' = earlier
    <3>1. FreshInOrder'
      BY <2>1, <2>3, OrderKept
    <3>2. "spin" \in PCs
      BY DEF PCs
    <3>. QED
      BY <1>1, <2>1, <2>3, <3>1, <3>2, PrecedeKept
  <2>. QED
    BY <1>5, <2>2, <2>3 DEF Lock
<1>6. ASSUME NEW p \in Procs, SpinTake(p) \/ ClearQueued(p) \/ (Retry(p) /\ ~held)
      PROVE  FreshInOrder' /\ Precede'
  <2>1. Acquired(p) /\ queue' = queue /\ retried' = retried /\ p \notin Queued
    BY <1>1, <1>6 DEF SpinTake, ClearQueued, Retry, At
  <2>. QED
    BY <1>3, <2>1
<1>7. ASSUME NEW p \in Procs, SpinEnd(p) \/ EnqueueFree(p) \/ Suspend(p) \/ (Retry(p) /\ held)
      PROVE  FreshInOrder' /\ Precede'
  <2>1. queue' = queue /\ retried' = retried /\ earlier' = earlier
    BY <1>7 DEF SpinEnd, EnqueueFree, Suspend, Retry
  <2>2. \E l \in PCs \ {"retry"} : Goto(p, l) /\ (p \in Waiting => p \in Waiting')
    BY <1>2, <1>7 DEF SpinEnd, EnqueueFree, Suspend, Retry, At, Goto, Waiting, PCs, Precede
  <2>. QED
    BY <1>4, <2>1, <2>2
<1>8. ASSUME NEW p \in Procs, Unlock(p) \/ WakeNone(p) \/ WakePark(p) \/ Deliver(p)
      PROVE  FreshInOrder' /\ Precede'
  <2>1. queue' = queue /\ retried' = retried /\ earlier' = earlier /\ p \notin Waiting
    BY <1>8 DEF Unlock, WakeNone, WakePark, Deliver, At, Waiting
  <2>2. \E l \in PCs \ {"retry"} : Goto(p, l)
    BY <1>8 DEF Unlock, WakeNone, WakePark, Deliver, Released, PCs
  <2>. QED
    BY <1>4, <2>1, <2>2
<1>9. ASSUME NEW p \in Procs, EnqueueHeld(p)
      PROVE  FreshInOrder' /\ Precede'
  <2>1. /\ pc[p] = "enqueue" /\ p \notin Queued /\ retried' = retried /\ Push(p)
        /\ Goto(p, "parking") /\ "parking" \in PCs
        /\ earlier' = [earlier EXCEPT ![p] = IF p \in retried THEN @ ELSE Waiting]
    BY <1>1, <1>9 DEF EnqueueHeld, At, PCs
  <2>2. \A q \in Procs : q # p => earlier'[q] = earlier[q]
    BY <1>2, <2>1
  <2>3. earlier'[p] = earlier[p] \/ earlier'[p] = Waiting
    BY <1>2, <2>1
  <2>4. p \notin retried => p \notin Waiting /\ \A q \in Procs : p \notin earlier[q]
    BY <2>1 DEF Precede, Waiting
  <2>5. FreshInOrder'
    BY <1>1, <2>1, <2>2, <2>4, OrderPush
  <2>6. p \in Waiting'
    BY <1>2, <2>1, <2>4 DEF Waiting, Goto
  <2>. QED
    BY <1>1, <2>1, <2>2, <2>3, <2>5, <2>6, PrecedeKept
<1>10. ASSUME NEW p \in Procs, Resume(p)
      PROVE  FreshInOrder' /\ Precede'
  <2>1. /\ pc[p] \in {"parking", "parked"} /\ p \in woken /\ p \notin Queued
        /\ queue' = queue /\ retried' = retried \cup {p} /\ earlier' = earlier
        /\ Goto(p, "retry") /\ "retry" \in PCs
    BY <1>1, <1>10 DEF Resume, At, PCs
  <2>2. FreshInOrder'
    BY <1>1, <2>1, OrderKept
  <2>3. p \in Waiting'
    BY <1>2, <2>1 DEF Waiting, Goto
  <2>. QED
    BY <1>1, <2>1, <2>2, <2>3, PrecedeKept
<1>11. ASSUME NEW p \in Procs, WakePop(p)
      PROVE  FreshInOrder' /\ Precede'
  <2>1. /\ queue # <<>> /\ queue' = Tail(queue) /\ retried' = retried /\ earlier' = earlier
        /\ p \notin Waiting /\ Goto(p, "wakePark") /\ "wakePark" \in PCs
    BY <1>11 DEF WakePop, At, Waiting, PCs
  <2>2. FreshInOrder'
    BY <1>1, <2>1, OrderPop
  <2>. QED
    BY <1>1, <2>1, <2>2, PrecedeKept
<1>12. ASSUME queue' = queue, retried' = retried, earlier' = earlier, pc' = pc
       PROVE  FreshInOrder' /\ Precede'
  BY ONLY <1>12, FreshInOrder, Precede DEF FreshInOrder, Precede, Waiting
<1>13. ASSUME NEW t \in Threads, ThreadEnd(t)
       PROVE  FreshInOrder' /\ Precede'
  BY <1>12, <1>13 DEF ThreadEnd
<1>14. CASE UNCHANGED vars
  BY <1>12, <1>14 DEF vars
<1>15. ASSUME NEW p \in Procs, Step(p)
       PROVE  FreshInOrder' /\ Precede'
  <2>1. CASE Retry(p)
    BY <1>6, <1>7, <2>1
  <2>2. CASE SpinTake(p) \/ ClearQueued(p)
    BY <1>6, <2>2
  <2>3. CASE SpinEnd(p) \/ EnqueueFree(p) \/ Suspend(p)
    BY <1>7, <2>3
  <2>4. CASE Unlock(p) \/ WakeNone(p) \/ WakePark(p) \/ Deliver(p)
    BY <1>8, <2>4
  <2>5. CASE EnqueueHeld(p)
    BY <1>9, <2>5
  <2>6. CASE Resume(p) \/ WakePop(p)
    BY <1>10, <1>11, <2>6
  <2>. QED
    BY <1>15, <2>1, <2>2, <2>3, <2>4, <2>5, <2>6 DEF Step
<1>. QED
  BY <1>5, <1>13, <1>14, <1>15 DEF Next, Done

(* Queue order (mutex.valk, push_back and push_front): in every state the  *)
(* lockers that were never woken stand in the queue in the order they      *)
(* came, behind all those that were; so nobody is overtaken by a locker    *)
(* that came later, except by one that finds the mutex free.               *)
THEOREM QueueInOrder == Spec => []FreshInOrder
<1>1. Init => FreshInOrder /\ Precede
  <2>1. ASSUME Init
        PROVE  queue = <<>> /\ \A q \in Procs : earlier[q] = {} /\ pc[q] = "idle"
    BY <2>1 DEF Init
  <2>. QED
    BY <2>1 DEF FreshInOrder, Precede
<1>2. IInv /\ FreshInOrder /\ Precede /\ [Next]_vars => FreshInOrder' /\ Precede'
  BY OrderStep
<1>. QED
  BY <1>1, <1>2, Invariant, PTL DEF Spec
=============================================================================
