---------------------------- MODULE SharedGCProofs ----------------------------
(***************************************************************************)
(* Proofs about SharedGC, for any number of threads and items: nothing in  *)
(* use is freed, every item is in one list, the marks are true when the    *)
(* threads go on, and blocks are left alone while their threads run.       *)
(***************************************************************************)
EXTENDS SharedGC, FiniteSetTheorems, TLAPS

(* Who is inside shared_lock.                                              *)
Sharing == {"check", "announce", "stopping", "collect", "resume", "release",
            "sweepOthers", "sweeping", "stopLock", "stopped"}

(* The locks: shared_lock is held by who is inside it; a running thread,   *)
(* and one about to be freed, holds its own gc; a collector holds what it  *)
(* stopped and did not let go yet; and the list is of the threads between  *)
(* their start and their end.                                              *)
LocksSound ==
    /\ \A t \in Threads : pc[t] \in Sharing => sharedLock = t
    /\ \A t \in Threads : pc[t] \in {"running", "stopped"} => lock[t] = t
    /\ \A t \in Threads : t \in listed <=> pc[t] \notin {"new", "stopped", "ended"}
    /\ \A t \in Threads : pc[t] = "stopping" => \A u \in listed \ todo[t] : lock[u] = t
    /\ \A t \in Threads : pc[t] = "collect" => \A u \in listed : lock[u] = t
    /\ \A t \in Threads : pc[t] = "resume" =>
          todo[t] \subseteq listed /\ \A u \in todo[t] : lock[u] = t

(* Only listed threads, and one that ends, have roots, and only listed     *)
(* threads have lists.                                                     *)
RootsListed ==
    \A t \in Threads :
        /\ t \notin listed => items[t] = {} /\ foreign[t] = {}
        /\ t \notin listed /\ pc[t] # "stopped" => refs[t] = {}

(* The blocks items are in are those of listed threads, or nobody's.       *)
BlocksListed == \A i \in Items : owner[i] \in listed \cup {Nobody}

(* What ListedOnce counts: the lists share no item and hold those in use.  *)
ListsDisjoint ==
    /\ \A t, u \in Threads : t # u => items[t] \cap items[u] = {} /\ foreign[t] \cap foreign[u] = {}
    /\ \A t, u \in Threads : items[t] \cap foreign[u] = {}
    /\ \A t \in Threads : items[t] \cap dump = {} /\ foreign[t] \cap dump = {}
    /\ \A i \in Items :
          i \in used <=> i \in dump \/ \E t \in Threads : i \in items[t] \/ i \in foreign[t]

(* Nobody's roots lead to what waits to be freed, and nobody can get at it *)
(* any more.                                                               *)
DeadUnreachable ==
    \A t, u \in Threads : \A i \in refs[t] :
        /\ i \in old[u] => mark[i] = now
        /\ i \notin foreign[u]

(* A free slot bears no mark, and an item that bears the mark of the round *)
(* before waits to be freed.                                               *)
MarksSound ==
    /\ \A i \in Items \ used : mark[i] = "none"
    /\ \A i \in used : mark[i] \notin {now, "none"} =>
          i \in dump \/ \E t \in Threads : i \in old[t] \/ i \in foreign[t]

(* What a thread does with its own gc or with shared_lock alone.           *)
Quiet(t) ==
    \/ Block(t) \/ Unblock(t) \/ Begin(t) \/ WantStop(t)
    \/ Safepoint(t) \/ SafepointOver(t) \/ CheckCount(t) \/ LeaveShared(t)
    \/ TakeShared(t) \/ Outrun(t) \/ SafepointLeave(t) \/ StopTakeShared(t)

IInv ==
    /\ TypeOK
    /\ LocksSound
    /\ RootsListed
    /\ BlocksListed
    /\ ListsDisjoint
    /\ DeadUnreachable
    /\ MarksSound
    /\ ReachableKept
    /\ MarksTrue

-----------------------------------------------------------------------------
USE SharedGCAssumption DEF SharedGCAssumption

(* A lock is taken while it is free and let go by who holds it, and who    *)
(* holds shared_lock is alone with the list.                               *)
LEMMA LocksStep ==
    ASSUME TypeOK, LocksSound, [Next]_vars
    PROVE  LocksSound'
<1> USE DEF TypeOK, LocksSound, PCs, Sharing, Goto, LockGc, UnlockGc, locks, control, heap, lists
<1>1. ASSUME NEW t \in Threads, ThreadInit(t)
       PROVE  LocksSound'
  BY <1>1 DEF ThreadInit, Running
<1>2. ASSUME NEW t \in Threads, Share(t)
       PROVE  LocksSound'
  BY <1>2 DEF Share, Running
<1>3. ASSUME NEW t \in Threads, Pass(t)
       PROVE  LocksSound'
  BY <1>3 DEF Pass, Running
<1>4. ASSUME NEW t \in Threads, Drop(t)
       PROVE  LocksSound'
  BY <1>4 DEF Drop, Running
<1>5. ASSUME NEW t \in Threads, Block(t)
       PROVE  LocksSound'
  BY <1>5 DEF Block, Running
<1>6. ASSUME NEW t \in Threads, Unblock(t)
       PROVE  LocksSound'
  BY <1>6 DEF Unblock, Running
<1>7. ASSUME NEW t \in Threads, CollectLocal(t)
       PROVE  LocksSound'
  BY <1>7 DEF CollectLocal, Running
<1>8. ASSUME NEW t \in Threads, Begin(t)
       PROVE  LocksSound'
  BY <1>8 DEF Begin, Running
<1>9. ASSUME NEW t \in Threads, WantStop(t)
       PROVE  LocksSound'
  BY <1>9 DEF WantStop, Running
<1>10. ASSUME NEW t \in Threads, Safepoint(t)
       PROVE  LocksSound'
  BY <1>10 DEF Safepoint, Running
<1>11. ASSUME NEW t \in Threads, SafepointOver(t)
       PROVE  LocksSound'
  BY <1>11 DEF SafepointOver, Running
<1>12. ASSUME NEW t \in Threads, CheckCount(t)
       PROVE  LocksSound'
  BY <1>12 DEF CheckCount, Running
<1>13. ASSUME NEW t \in Threads, Announce(t)
       PROVE  LocksSound'
  BY <1>13 DEF Announce, Running
<1>14. ASSUME NEW t \in Threads, Collect(t)
       PROVE  LocksSound'
  BY <1>14 DEF Collect, Running
<1>15. ASSUME NEW t \in Threads, ResumeGc(t)
       PROVE  LocksSound'
  BY <1>15 DEF ResumeGc, Running
<1>16. ASSUME NEW t \in Threads, Release(t)
       PROVE  LocksSound'
  BY <1>16 DEF Release, Running
<1>17. ASSUME NEW t \in Threads, SweepOther(t)
       PROVE  LocksSound'
  BY <1>17 DEF SweepOther, Running
<1>18. ASSUME NEW t \in Threads, SweepDone(t)
       PROVE  LocksSound'
  BY <1>18 DEF SweepDone, Running
<1>19. ASSUME NEW t \in Threads, LeaveShared(t)
       PROVE  LocksSound'
  BY <1>19 DEF LeaveShared, Running
<1>20. ASSUME NEW t \in Threads, ThreadFree(t)
       PROVE  LocksSound'
  BY <1>20 DEF ThreadFree, Running
<1>21. ASSUME NEW t \in Threads, TakeShared(t)
       PROVE  LocksSound'
  BY <1>21 DEF TakeShared, Running
<1>22. ASSUME NEW t \in Threads, Outrun(t)
       PROVE  LocksSound'
  BY <1>22 DEF Outrun, Running
<1>23. ASSUME NEW t \in Threads, StopGc(t)
       PROVE  LocksSound'
  BY <1>23 DEF StopGc, Running
<1>24. ASSUME NEW t \in Threads, SafepointLeave(t)
       PROVE  LocksSound'
  BY <1>24 DEF SafepointLeave, Running
<1>25. ASSUME NEW t \in Threads, Relock(t)
       PROVE  LocksSound'
  BY <1>25 DEF Relock, Running
<1>26. ASSUME NEW t \in Threads, StopTakeShared(t)
       PROVE  LocksSound'
  BY <1>26 DEF StopTakeShared, Running
<1>27. ASSUME NEW t \in Threads, Shutdown(t)
       PROVE  LocksSound'
  BY <1>27 DEF Shutdown, Running
<1>28. CASE UNCHANGED vars
  BY <1>28 DEF vars, locks, control, heap, lists
<1>. QED
  BY <1>1, <1>2, <1>3, <1>4, <1>5, <1>6, <1>7, <1>8, <1>9, <1>10, <1>11, <1>12, <1>13,
     <1>14, <1>15, <1>16, <1>17, <1>18, <1>19, <1>20, <1>21, <1>22, <1>23, <1>24, <1>25,
     <1>26, <1>27, <1>28
     DEF Next, Work, Call, Waits

(* The two marks take turns.                                               *)
LEMMA NextMark ==
    ASSUME TypeOK
    PROVE  LET next == CHOOSE m \in Marks \ {"none"} : m # now
           IN  next \in Marks \ {"none"} /\ next # now /\ Marks = {"none", now, next}
<1>. DEFINE P(m) == m \in Marks \ {"none"} /\ m # now
<1>1. P("shmark") \/ P("leak")
  BY DEF TypeOK, Marks
<1>. HIDE DEF P
<1>2. P(CHOOSE m : P(m))
  BY <1>1
<1>. QED
  BY <1>2 DEF P, TypeOK, Marks

(* A sweep keeps the types of what it touches.                             *)
LEMMA SweepTypes ==
    ASSUME TypeOK, NEW u \in Threads, Sweep(u)
    PROVE  /\ used' \in SUBSET Items
           /\ mark' \in [Items -> Marks]
           /\ items' \in [Threads -> SUBSET Items]
           /\ old' \in [Threads -> SUBSET Items]
           /\ foreign' \in [Threads -> SUBSET Items]
           /\ \A t \in Threads : old'[t] \subseteq items'[t]
  BY DEF TypeOK, Sweep, Free, Unmarked, Marks

(* Every step keeps the types.                                             *)
LEMMA TypeStep ==
    ASSUME TypeOK, [Next]_vars
    PROVE  TypeOK'
<1> USE DEF TypeOK, PCs, Goto, LockGc, UnlockGc, Running, locks, control, heap, lists
<1>1. ASSUME NEW t \in Threads, ThreadInit(t)
       PROVE  TypeOK'
  BY <1>1 DEF ThreadInit
<1>2. ASSUME NEW t \in Threads, Share(t)
       PROVE  TypeOK'
  BY <1>2 DEF Share
<1>3. ASSUME NEW t \in Threads, Pass(t)
       PROVE  TypeOK'
  BY <1>3 DEF Pass
<1>4. ASSUME NEW t \in Threads, Drop(t)
       PROVE  TypeOK'
  BY <1>4 DEF Drop
<1>5. ASSUME NEW t \in Threads, Block(t)
       PROVE  TypeOK'
  BY <1>5 DEF Block
<1>6. ASSUME NEW t \in Threads, Unblock(t)
       PROVE  TypeOK'
  BY <1>6 DEF Unblock
<1>7. ASSUME NEW t \in Threads, CollectLocal(t)
       PROVE  TypeOK'
  BY <1>7, SweepTypes DEF CollectLocal
<1>8. ASSUME NEW t \in Threads, Begin(t)
       PROVE  TypeOK'
  BY <1>8 DEF Begin
<1>9. ASSUME NEW t \in Threads, WantStop(t)
       PROVE  TypeOK'
  BY <1>9 DEF WantStop
<1>10. ASSUME NEW t \in Threads, Safepoint(t)
       PROVE  TypeOK'
  BY <1>10 DEF Safepoint
<1>11. ASSUME NEW t \in Threads, SafepointOver(t)
       PROVE  TypeOK'
  BY <1>11 DEF SafepointOver
<1>12. ASSUME NEW t \in Threads, CheckCount(t)
       PROVE  TypeOK'
  BY <1>12 DEF CheckCount
<1>13. ASSUME NEW t \in Threads, Announce(t)
       PROVE  TypeOK'
  BY <1>13 DEF Announce
<1>14. ASSUME NEW t \in Threads, Collect(t)
       PROVE  TypeOK'
  <2>. DEFINE next == CHOOSE m \in Marks \ {"none"} : m # now
  <2>1. next \in Marks \ {"none"}
    BY NextMark
  <2>2. mark' \in [Items -> Marks] /\ now' \in Marks \ {"none"}
    BY <1>14, <2>1 DEF Collect, Marks
  <2>. QED
    BY <1>14, <2>2 DEF Collect, Unmarked
<1>15. ASSUME NEW t \in Threads, ResumeGc(t)
       PROVE  TypeOK'
  BY <1>15 DEF ResumeGc
<1>16. ASSUME NEW t \in Threads, Release(t)
       PROVE  TypeOK'
  BY <1>16 DEF Release
<1>17. ASSUME NEW t \in Threads, SweepOther(t)
       PROVE  TypeOK'
  BY <1>17 DEF SweepOther
<1>18. ASSUME NEW t \in Threads, SweepDone(t)
       PROVE  TypeOK'
  BY <1>18, SweepTypes DEF SweepDone
<1>19. ASSUME NEW t \in Threads, LeaveShared(t)
       PROVE  TypeOK'
  BY <1>19 DEF LeaveShared
<1>20. ASSUME NEW t \in Threads, ThreadFree(t)
       PROVE  TypeOK'
  BY <1>20 DEF ThreadFree
<1>21. ASSUME NEW t \in Threads, TakeShared(t)
       PROVE  TypeOK'
  BY <1>21 DEF TakeShared
<1>22. ASSUME NEW t \in Threads, Outrun(t)
       PROVE  TypeOK'
  BY <1>22 DEF Outrun
<1>23. ASSUME NEW t \in Threads, StopGc(t)
       PROVE  TypeOK'
  BY <1>23 DEF StopGc
<1>24. ASSUME NEW t \in Threads, SafepointLeave(t)
       PROVE  TypeOK'
  BY <1>24 DEF SafepointLeave
<1>25. ASSUME NEW t \in Threads, Relock(t)
       PROVE  TypeOK'
  BY <1>25, SweepTypes DEF Relock
<1>26. ASSUME NEW t \in Threads, StopTakeShared(t)
       PROVE  TypeOK'
  BY <1>26 DEF StopTakeShared
<1>27. ASSUME NEW t \in Threads, Shutdown(t)
       PROVE  TypeOK'
  BY <1>27 DEF Shutdown, Free, Unmarked, Marks
<1>28. CASE UNCHANGED vars
  BY <1>28 DEF vars, locks, control, heap, lists
<1>. QED
  BY <1>1, <1>2, <1>3, <1>4, <1>5, <1>6, <1>7, <1>8, <1>9, <1>10, <1>11, <1>12, <1>13,
     <1>14, <1>15, <1>16, <1>17, <1>18, <1>19, <1>20, <1>21, <1>22, <1>23, <1>24, <1>25,
     <1>26, <1>27, <1>28
     DEF Next, Work, Call, Waits

-----------------------------------------------------------------------------
(* The heap                                                                *)

HeapSound == ListsDisjoint /\ DeadUnreachable /\ MarksSound /\ ReachableKept

(* Roots are those of all threads while a collector has every gc.          *)
LEMMA RootsOfAll ==
    ASSUME TypeOK, LocksSound, RootsListed, NEW t \in Threads, pc[t] = "collect"
    PROVE  \A u \in Threads : refs[u] \subseteq Roots
<1>1. \A u \in Threads : pc[u] # "stopped"
  BY DEF LocksSound, Sharing
<1>. QED
  BY <1>1 DEF RootsListed, Roots, TypeOK

(* A sweep leaves the lists of others alone, and puts nothing into an empty one. *)
LEMMA SweepRoots ==
    ASSUME TypeOK, NEW u \in Threads, Sweep(u), NEW v \in Threads, items[v] = {}, foreign[v] = {}
    PROVE  items'[v] = {} /\ foreign'[v] = {}
  BY DEF TypeOK, Sweep, Unmarked

(* Roots and lists come with the place in gc_list and go with the thread.  *)
LEMMA RootsStep ==
    ASSUME TypeOK, LocksSound, RootsListed, [Next]_vars
    PROVE  RootsListed'
<1>. USE DEF TypeOK, LocksSound, RootsListed, Sharing, Goto, locks, control, heap, lists
<1>1. ASSUME NEW t \in Threads, ThreadInit(t) \/ Share(t) \/ Pass(t) \/ Drop(t)
       PROVE  RootsListed'
  BY <1>1 DEF ThreadInit, Share, Pass, Drop, Running
<1>2. ASSUME NEW t \in Threads, CollectLocal(t) \/ SweepDone(t) \/ Relock(t)
       PROVE  RootsListed'
  BY <1>2, SweepRoots DEF CollectLocal, SweepDone, Relock, Running
<1>3. ASSUME NEW t \in Threads, Collect(t)
       PROVE  RootsListed'
  BY <1>3 DEF Collect
<1>4. ASSUME NEW t \in Threads, Shutdown(t)
       PROVE  RootsListed'
  BY <1>4 DEF Shutdown
<1>5. ASSUME NEW t \in Threads, ThreadFree(t)
       PROVE  RootsListed'
  BY <1>5 DEF ThreadFree
<1>6. ASSUME NEW t \in Threads,
             Announce(t) \/ StopGc(t) \/ ResumeGc(t) \/ Release(t) \/ SweepOther(t)
       PROVE  RootsListed'
  BY <1>6 DEF Announce, StopGc, ResumeGc, Release, SweepOther
<1>7. ASSUME NEW t \in Threads, Quiet(t)
       PROVE  RootsListed'
  BY <1>7 DEF Quiet, Block, Unblock, Begin, WantStop, Safepoint, SafepointOver, CheckCount,
              LeaveShared, TakeShared, Outrun, SafepointLeave, StopTakeShared, Running
<1>8. CASE UNCHANGED vars
  BY <1>8 DEF vars
<1>. QED
  BY <1>1, <1>2, <1>3, <1>4, <1>5, <1>6, <1>7, <1>8 DEF Next, Work, Call, Waits, Quiet

(* Blocks come with listed threads and are nobody's when they end.         *)
LEMMA BlocksStep ==
    ASSUME TypeOK, BlocksListed, [Next]_vars
    PROVE  BlocksListed'
<1>. USE DEF TypeOK, BlocksListed, locks, control, heap, lists
<1>1. ASSUME NEW t \in Threads, ThreadInit(t) \/ Share(t) \/ Shutdown(t)
       PROVE  BlocksListed'
  BY <1>1 DEF ThreadInit, Share, Shutdown
<1>2. ASSUME UNCHANGED <<listed, owner>>
       PROVE  BlocksListed'
  BY <1>2
<1>3. ASSUME NEW t \in Threads,
              \/ Pass(t) \/ Drop(t) \/ CollectLocal(t) \/ SweepDone(t) \/ Relock(t) \/ Collect(t)
              \/ Announce(t) \/ StopGc(t) \/ ResumeGc(t) \/ Release(t) \/ SweepOther(t) \/ ThreadFree(t)
       PROVE  UNCHANGED <<listed, owner>>
  BY <1>3 DEF Pass, Drop, CollectLocal, SweepDone, Relock, Collect, Announce, StopGc, ResumeGc,
              Release, SweepOther, ThreadFree
<1>4. ASSUME NEW t \in Threads, Quiet(t)
       PROVE  UNCHANGED <<listed, owner>>
  BY <1>4 DEF Quiet, Block, Unblock, Begin, WantStop, Safepoint, SafepointOver, CheckCount,
              LeaveShared, TakeShared, Outrun, SafepointLeave, StopTakeShared
<1>5. CASE UNCHANGED vars
  BY <1>2, <1>5 DEF vars
<1>. QED
  BY <1>1, <1>2, <1>3, <1>4, <1>5 DEF Next, Work, Call, Waits, Quiet

(* A sweep frees what nobody can reach, and from one list only.            *)
LEMMA SweepHeap ==
    ASSUME TypeOK, HeapSound, NEW u \in Threads, Sweep(u), UNCHANGED <<refs, now, dump>>
    PROVE  HeapSound'
<1>. USE DEF TypeOK, Sweep, Free, Unmarked
<1>1. ListsDisjoint'
  BY DEF HeapSound, ListsDisjoint
<1>2. DeadUnreachable'
  BY DEF HeapSound, ListsDisjoint, DeadUnreachable
<1>3. MarksSound'
  BY DEF HeapSound, ListsDisjoint, MarksSound
<1>4. ReachableKept'
  BY DEF HeapSound, DeadUnreachable, ReachableKept
<1>. QED
  BY <1>1, <1>2, <1>3, <1>4 DEF HeapSound

(* The last sweep of a thread that ends, and its items go to the dump.     *)
LEMMA ShutdownHeap ==
    ASSUME TypeOK, HeapSound, NEW t \in Threads, Shutdown(t)
    PROVE  HeapSound'
<1>. USE DEF TypeOK, Shutdown, Free, Unmarked
<1>1. ListsDisjoint'
  BY DEF HeapSound, ListsDisjoint
<1>2. DeadUnreachable'
  BY DEF HeapSound, ListsDisjoint, DeadUnreachable
<1>3. MarksSound'
  BY DEF HeapSound, ListsDisjoint, MarksSound
<1>4. ReachableKept'
  BY DEF HeapSound, DeadUnreachable, ReachableKept
<1>. QED
  BY <1>1, <1>2, <1>3, <1>4 DEF HeapSound

(* The collection itself.                                                  *)
LEMMA CollectHeap ==
    ASSUME TypeOK, LocksSound, RootsListed, HeapSound, NEW t \in Threads, Collect(t)
    PROVE  /\ HeapSound'
           /\ \A i \in used' \ dump' : mark'[i] = now' <=> i \in Roots'
<1>. DEFINE next == CHOOSE m \in Marks \ {"none"} : m # now
            unswept == UNION {Unmarked(old[u]) : u \in listed}
            dead == unswept \cup UNION {foreign[u] : u \in listed}
            dumped == {i \in dump : i \notin Roots /\ mark[i] # next}
<1>1. /\ now' = next
      /\ used' = used \ (dead \cup dumped)
      /\ mark' = [i \in Items |-> IF i \in Roots THEN next
                                  ELSE IF i \in dead \cup dumped THEN "none" ELSE mark[i]]
      /\ items' = [u \in Threads |-> items[u] \ unswept]
      /\ old' = [u \in Threads |-> IF u \in listed THEN items'[u] ELSE {}]
      /\ dump' = dump \ dumped
      /\ foreign' = [u \in Threads |-> {}]
      /\ UNCHANGED <<refs, listed>>
  BY DEF Collect, locks
<1>2. /\ next \in Marks \ {"none"} /\ next # now
      /\ \A m \in Marks : m \in {"none", now, next}
  BY NextMark
<1>3. \A u \in Threads : refs[u] \subseteq Roots
  BY RootsOfAll DEF Collect
<1>4. \A i \in dead : i \in used /\ i \notin Roots /\ i \notin dump
  BY DEF TypeOK, HeapSound, ListsDisjoint, DeadUnreachable, Roots, Unmarked
<1>5. Roots \subseteq used
  BY DEF TypeOK, HeapSound, ReachableKept, Roots
<1>6. \A i \in Items :
        i \in dead <=> \E u \in Threads : (i \in old[u] /\ mark[i] # now) \/ i \in foreign[u]
  BY DEF RootsListed, TypeOK, Unmarked
<1>7. \A u \in Threads : items[u] # {} => u \in listed
  BY DEF RootsListed
<1>8. \A i \in Items : i \in unswept <=> \E u \in Threads : i \in old[u] /\ mark[i] # now
  BY DEF RootsListed, TypeOK, Unmarked
<1>9. Roots' = Roots
  BY <1>1 DEF Roots
<1>. HIDE DEF next, dead, dumped, unswept
<1>10. ListsDisjoint'
  BY <1>1, <1>6, <1>8 DEF HeapSound, ListsDisjoint, TypeOK, dumped
<1>11. DeadUnreachable'
  BY <1>1, <1>3 DEF DeadUnreachable, TypeOK
<1>12. MarksSound'
  BY <1>1, <1>2, <1>4, <1>5, <1>6, <1>7, <1>8 DEF HeapSound, MarksSound, ListsDisjoint, TypeOK,
                                                  dumped
<1>13. ReachableKept'
  BY <1>1, <1>3, <1>4 DEF HeapSound, ReachableKept, TypeOK, dumped
<1>14. \A i \in used' \ dump' : mark'[i] = now' <=> i \in Roots'
  BY <1>1, <1>2, <1>4, <1>6, <1>9 DEF HeapSound, MarksSound, TypeOK, dumped
<1>. QED
  BY <1>10, <1>11, <1>12, <1>13, <1>14 DEF HeapSound

(* No other step takes an item out of a list, or finds a lost one.         *)
LEMMA HeapStep ==
    ASSUME TypeOK, LocksSound, RootsListed, HeapSound, [Next]_vars
    PROVE  HeapSound'
<1>1. ASSUME UNCHANGED <<refs, heap>>
       PROVE  HeapSound'
  <2>. USE <1>1 DEF heap, lists
  <2>1. ListsDisjoint'
    BY DEF HeapSound, ListsDisjoint
  <2>2. DeadUnreachable'
    BY DEF HeapSound, DeadUnreachable
  <2>3. MarksSound'
    BY DEF HeapSound, MarksSound
  <2>4. ReachableKept'
    BY DEF HeapSound, ReachableKept
  <2>. QED
    BY <2>1, <2>2, <2>3, <2>4 DEF HeapSound
<1>2. ASSUME NEW t \in Threads, Share(t)
       PROVE  HeapSound'
  <2>. USE DEF Share, TypeOK
  <2>1. ListsDisjoint'
    BY <1>2 DEF HeapSound, ListsDisjoint
  <2>2. DeadUnreachable'
    BY <1>2 DEF HeapSound, ListsDisjoint, DeadUnreachable
  <2>3. MarksSound'
    BY <1>2 DEF HeapSound, ListsDisjoint, MarksSound
  <2>4. ReachableKept'
    BY <1>2 DEF HeapSound, ListsDisjoint, ReachableKept
  <2>. QED
    BY <2>1, <2>2, <2>3, <2>4 DEF HeapSound
<1>3. ASSUME NEW t \in Threads, Pass(t) \/ Drop(t) \/ ThreadFree(t)
       PROVE  HeapSound'
  <2>1. UNCHANGED heap
        /\ \A u \in Threads : refs'[u] \subseteq UNION {refs[v] : v \in Threads}
    BY <1>3 DEF Pass, Drop, ThreadFree, TypeOK
  <2>. USE <2>1 DEF heap, lists, TypeOK
  <2>2. ListsDisjoint'
    BY DEF HeapSound, ListsDisjoint
  <2>3. DeadUnreachable'
    BY DEF HeapSound, DeadUnreachable
  <2>4. MarksSound'
    BY DEF HeapSound, MarksSound
  <2>5. ReachableKept'
    BY DEF HeapSound, ReachableKept
  <2>. QED
    BY <2>2, <2>3, <2>4, <2>5 DEF HeapSound
<1>4. ASSUME NEW t \in Threads, CollectLocal(t) \/ SweepDone(t) \/ Relock(t)
       PROVE  HeapSound'
  BY <1>4, SweepHeap DEF CollectLocal, SweepDone, Relock, TypeOK
<1>5. ASSUME NEW t \in Threads, Shutdown(t)
       PROVE  HeapSound'
  BY <1>5, ShutdownHeap
<1>6. ASSUME NEW t \in Threads, Collect(t)
       PROVE  HeapSound'
  BY <1>6, CollectHeap
<1>7. CASE UNCHANGED vars
  BY <1>1, <1>7 DEF vars
<1>. QED
  BY <1>1, <1>2, <1>3, <1>4, <1>5, <1>6, <1>7
     DEF Next, Work, Call, Waits, ThreadInit, Block, Unblock, Begin, WantStop, Safepoint,
         SafepointOver, CheckCount, Announce, ResumeGc, Release, SweepOther, LeaveShared,
         TakeShared, Outrun, StopGc, SafepointLeave, StopTakeShared

(* While a collector that has just marked holds every gc, nobody changes   *)
(* what the marks are about.                                               *)
LEMMA MarksTrueStep ==
    ASSUME TypeOK, LocksSound, RootsListed, HeapSound, MarksTrue, [Next]_vars
    PROVE  MarksTrue'
<1>. SUFFICES ASSUME NEW t \in Threads, pc'[t] = "resume", todo'[t] = listed'
              PROVE  \A i \in used' \ dump' : mark'[i] = now' <=> i \in Roots'
  BY DEF MarksTrue
<1>1. CASE \E u \in Threads : Collect(u)
  BY <1>1, CollectHeap
<1>2. ASSUME pc[t] = "resume", UNCHANGED <<listed, todo, refs, heap>>
       PROVE  \A i \in used' \ dump' : mark'[i] = now' <=> i \in Roots'
  BY <1>2 DEF MarksTrue, Roots, heap, lists
<1>3. ASSUME NEW u \in Threads, Work(u) \/ Call(u) \/ Waits(u), ~Collect(u)
       PROVE  pc[t] = "resume"
  BY <1>3 DEF TypeOK, Work, Call, Waits, Goto, ThreadInit, Share, Pass, Drop, Block, Unblock,
              CollectLocal, Begin, WantStop, Safepoint, SafepointOver, CheckCount, Announce,
              ResumeGc, Release, SweepOther, SweepDone, LeaveShared, ThreadFree, TakeShared,
              Outrun, StopGc, SafepointLeave, Relock, StopTakeShared, Shutdown
<1>4. ASSUME NEW u \in Threads, pc[t] = "resume",
              ThreadInit(u) \/ SweepDone(u) \/ Shutdown(u) \/ ThreadFree(u)
       PROVE  FALSE
  BY <1>4 DEF TypeOK, LocksSound, Sharing, ThreadInit, SweepDone, Shutdown, ThreadFree
<1>5. ASSUME NEW u \in Threads, pc[t] = "resume", ResumeGc(u)
       PROVE  FALSE
  <2>1. u = t
    BY <1>5 DEF LocksSound, Sharing, ResumeGc
  <2>2. PICK v \in todo[t] : todo'[t] = todo[t] \ {v}
    BY <1>5, <2>1 DEF ResumeGc, TypeOK
  <2>3. v \in listed' /\ v \notin todo'[t]
    BY <1>5, <2>2 DEF LocksSound, ResumeGc
  <2>. QED
    BY <2>3
<1>6. ASSUME NEW u \in Threads, pc[t] = "resume", UNCHANGED <<listed, todo>>,
              Share(u) \/ Pass(u) \/ Drop(u) \/ CollectLocal(u) \/ Relock(u)
       PROVE  FALSE
  <2>1. u \in listed /\ lock[u] = t
    BY <1>6 DEF LocksSound, Share, Pass, Drop, CollectLocal, Relock, Running
  <2>2. u # t
    BY <1>6 DEF Share, Pass, Drop, CollectLocal, Relock, Running
  <2>. QED
    BY <1>6, <2>1, <2>2 DEF LocksSound, Share, Pass, Drop, CollectLocal, Relock, Running, LockGc,
                            TypeOK
<1>7. CASE UNCHANGED vars
  BY <1>2, <1>7 DEF vars, locks, control
<1>8. ASSUME NEW u \in Threads, pc[t] = "resume",
              Announce(u) \/ StopGc(u) \/ Release(u) \/ SweepOther(u)
       PROVE  FALSE
  BY <1>8 DEF LocksSound, Sharing, Announce, StopGc, Release, SweepOther
<1>9. ASSUME NEW u \in Threads, pc[t] = "resume", Quiet(u)
       PROVE  \A i \in used' \ dump' : mark'[i] = now' <=> i \in Roots'
  BY <1>2, <1>9 DEF Quiet, locks, control, Block, Unblock, Begin, WantStop, Safepoint,
                    SafepointOver, CheckCount, LeaveShared, TakeShared, Outrun, SafepointLeave,
                    StopTakeShared
<1>10. ASSUME NEW u \in Threads, Work(u) \/ Call(u) \/ Waits(u), ~Collect(u)
       PROVE  \A i \in used' \ dump' : mark'[i] = now' <=> i \in Roots'
  <2>1. CASE Quiet(u)
    BY <1>3, <1>9, <1>10, <2>1
  <2>2. CASE Share(u) \/ Pass(u) \/ Drop(u) \/ CollectLocal(u) \/ Relock(u)
    <3>1. UNCHANGED <<listed, todo>>
      BY <2>2 DEF Share, Pass, Drop, CollectLocal, Relock, locks, control
    <3>. QED
      BY <1>3, <1>6, <1>10, <2>2, <3>1
  <2>. QED
    BY <1>3, <1>4, <1>5, <1>8, <1>10, <2>1, <2>2 DEF Work, Call, Waits, Quiet
<1>. QED
  BY <1>1, <1>7, <1>10 DEF Next

-----------------------------------------------------------------------------
(* The theorems                                                            *)

(* At first the main thread runs and nothing is shared.                    *)
LEMMA InvInit == Init => IInv
<1>. SUFFICES ASSUME Init
              PROVE  IInv
  OBVIOUS
<1>1. TypeOK
  BY DEF Init, TypeOK, PCs, Marks
<1>2. LocksSound /\ RootsListed /\ BlocksListed
  BY DEF Init, LocksSound, RootsListed, BlocksListed, Sharing
<1>3. ListsDisjoint /\ DeadUnreachable /\ MarksSound /\ ReachableKept /\ MarksTrue
  BY DEF Init, ListsDisjoint, DeadUnreachable, MarksSound, ReachableKept, MarksTrue
<1>. QED
  BY <1>1, <1>2, <1>3 DEF IInv

(* Every step keeps the invariant.                                         *)
LEMMA InvStep == IInv /\ [Next]_vars => IInv'
<1>. SUFFICES ASSUME IInv, [Next]_vars
              PROVE  IInv'
  OBVIOUS
<1>1. HeapSound
  BY DEF IInv, HeapSound
<1>2. TypeOK' /\ LocksSound' /\ RootsListed' /\ BlocksListed'
  BY TypeStep, LocksStep, RootsStep, BlocksStep DEF IInv
<1>3. HeapSound'
  BY <1>1, HeapStep DEF IInv
<1>4. MarksTrue'
  BY <1>1, MarksTrueStep DEF IInv
<1>. QED
  BY <1>2, <1>3, <1>4 DEF IInv, HeapSound

(* Everything the later theorems conclude, as one invariant of every       *)
(* execution.                                                              *)
THEOREM Invariant == Spec => []IInv
  BY InvInit, InvStep, PTL DEF Spec

(* Every execution keeps the types.                                        *)
THEOREM TypeCorrect == Spec => []TypeOK
<1>1. IInv => TypeOK
  BY DEF IInv
<1>. QED
  BY <1>1, Invariant, PTL

(* What the roots of a thread lead to is never freed (gc-shared.valk:97-   *)
(* 156, gc-local.valk:770-808): not by the thread's own sweep, nor by that *)
(* of a collector or of a thread that ends.                                *)
THEOREM NothingInUseFreed == Spec => []ReachableKept
<1>1. IInv => ReachableKept
  BY DEF IInv
<1>. QED
  BY <1>1, Invariant, PTL

(* When a collector lets the threads go, the items that bear the mark of   *)
(* the round are those in use (gc-shared.valk:60-86).                      *)
THEOREM MarksAreTrue == Spec => []MarksTrue
<1>1. IInv => MarksTrue
  BY DEF IInv
<1>. QED
  BY <1>1, Invariant, PTL

(* At most one of the lists holds an item, so they count one or none.      *)
LEMMA ListsCount ==
    ASSUME ListsDisjoint
    PROVE  ListedOnce
<1>. SUFFICES ASSUME NEW i \in Items
              PROVE  Cardinality({t \in Threads : i \in items[t]}) + Cardinality({t \in Threads : i \in foreign[t]})
                         + (IF i \in dump THEN 1 ELSE 0)
                         = (IF i \in used THEN 1 ELSE 0)
  BY DEF ListedOnce
<1>. DEFINE in == {t \in Threads : i \in items[t]}
            late == {t \in Threads : i \in foreign[t]}
<1>1. in = {} \/ \E t \in Threads : in = {t}
  BY DEF ListsDisjoint
<1>2. late = {} \/ \E t \in Threads : late = {t}
  BY DEF ListsDisjoint
<1>3. /\ in = {} \/ late = {}
      /\ i \in dump => in = {} /\ late = {}
      /\ i \in used <=> i \in dump \/ in # {} \/ late # {}
  BY DEF ListsDisjoint
<1>4. Cardinality(in) = (IF in = {} THEN 0 ELSE 1) /\ Cardinality(late) = (IF late = {} THEN 0 ELSE 1)
  BY <1>1, <1>2, FS_EmptySet, FS_Singleton
<1>. QED
  BY <1>3, <1>4

(* Every item in use is in one list and a free one in none (gc-local.valk: *)
(* 823-829, shared-dump.valk), so none is forgotten or freed twice.        *)
THEOREM ItemsListedOnce == Spec => []ListedOnce
<1>1. IInv => ListedOnce
  BY ListsCount DEF IInv
<1>. QED
  BY <1>1, Invariant, PTL

(* A thread's step moves that thread, unless it just runs.                 *)
LEMMA Stepping ==
    ASSUME TypeOK, NEW t \in Threads, Work(t) \/ Call(t) \/ Waits(t)
    PROVE  Steps(t)
<1>. USE DEF TypeOK, Steps, Goto, Running, control
<1>1. CASE Work(t)
  BY <1>1 DEF Work, ThreadInit, Share, Pass, Drop, Block, Unblock, CollectLocal, Begin, WantStop
<1>2. CASE StopGc(t) \/ ResumeGc(t) \/ SweepOther(t)
  <2>1. todo'[t] # todo[t] \/ pc'[t] # pc[t]
    BY <1>2 DEF StopGc, ResumeGc, SweepOther
  <2>. QED
    BY <2>1
<1>3. CASE \/ Safepoint(t) \/ SafepointOver(t) \/ CheckCount(t) \/ Announce(t) \/ Collect(t)
           \/ Release(t) \/ SweepDone(t) \/ LeaveShared(t) \/ ThreadFree(t)
  BY <1>3 DEF Safepoint, SafepointOver, CheckCount, Announce, Collect, Release, SweepDone,
              LeaveShared, ThreadFree
<1>4. CASE \/ TakeShared(t) \/ Outrun(t) \/ SafepointLeave(t) \/ Relock(t) \/ StopTakeShared(t)
           \/ Shutdown(t)
  BY <1>4 DEF TakeShared, Outrun, SafepointLeave, Relock, StopTakeShared, Shutdown
<1>. QED
  BY <1>1, <1>2, <1>3, <1>4 DEF Call, Waits

(* A sweep of u's list touches nothing of others.                          *)
LEMMA SweepTouches ==
    ASSUME TypeOK, NEW u \in Threads, Sweep(u), UNCHANGED owner, NEW v \in Threads, Touched(v)
    PROVE  v = u
<1>1. ASSUME v # u
       PROVE  FALSE
  <2>1. items'[v] = items[v] /\ old'[v] = old[v] /\ foreign'[v] = foreign[v]
    BY <1>1 DEF Sweep, TypeOK
  <2>2. ASSUME NEW i \in used, owner[i] = v
         PROVE  i \in used' /\ mark'[i] = mark[i] /\ owner'[i] = v
    BY <1>1, <2>2 DEF Sweep, Free, TypeOK
  <2>. QED
    BY <2>1, <2>2 DEF Touched
<1>. QED
  BY <1>1

(* What a step touches, the thread that takes it has the gc of.            *)
LEMMA TouchedHeld ==
    ASSUME IInv, NEW t \in Threads, Work(t) \/ Call(t) \/ Waits(t), NEW v \in Threads, Touched(v)
    PROVE  HasGc(t, v)
<1>. USE DEF IInv
<1>1. ASSUME UNCHANGED heap
       PROVE  FALSE
  BY <1>1 DEF Touched, heap, lists
<1>2. CASE Share(t)
  <2>1. v = t
    BY <1>2 DEF Share, Touched, TypeOK
  <2>. QED
    BY <1>2, <2>1 DEF Share, Running, LocksSound, HasGc
<1>3. CASE CollectLocal(t)
  <2>1. v = t
    BY <1>3, SweepTouches DEF CollectLocal
  <2>. QED
    BY <1>3, <2>1 DEF CollectLocal, Running, LocksSound, HasGc
<1>4. CASE SweepDone(t)
  <2>1. PICK u \in todo[t] : lock[u] = t /\ Sweep(u) /\ UNCHANGED owner
    BY <1>4 DEF SweepDone
  <2>2. v = u
    BY <2>1, SweepTouches DEF TypeOK
  <2>. QED
    BY <2>1, <2>2 DEF HasGc
<1>5. CASE Relock(t)
  <2>1. v = t
    BY <1>5, SweepTouches DEF Relock
  <2>. QED
    BY <1>5, <2>1 DEF Relock, LockGc, TypeOK, HasGc
<1>6. CASE Shutdown(t)
  <2>1. v = t
    BY <1>6 DEF Shutdown, Touched, Free, TypeOK
  <2>. QED
    BY <1>6, <2>1 DEF Shutdown, LockGc, TypeOK, HasGc
<1>7. CASE Collect(t)
  <2>1. v \in listed
    <3>1. CASE \E i \in used : owner[i] = v
      BY <3>1 DEF BlocksListed, TypeOK, SharedGCAssumption
    <3>2. CASE items[v] # {} \/ old[v] # {} \/ foreign[v] # {}
      BY <3>2 DEF RootsListed, TypeOK
    <3>3. CASE items[v] = {} /\ old[v] = {} /\ foreign[v] = {} /\ v \notin listed
      <4>1. items'[v] = {} /\ old'[v] = {} /\ foreign'[v] = {}
        BY <1>7, <3>3 DEF Collect, TypeOK
      <4>. QED
        BY <3>1, <3>3, <4>1 DEF Touched
    <3>. QED
      BY <3>2, <3>3
  <2>. QED
    BY <1>7, <2>1 DEF Collect, LocksSound, HasGc
<1>8. CASE \/ Quiet(t) \/ ThreadInit(t) \/ Pass(t) \/ Drop(t) \/ Announce(t) \/ StopGc(t)
           \/ ResumeGc(t) \/ Release(t) \/ SweepOther(t) \/ ThreadFree(t)
  <2>1. UNCHANGED heap
    BY <1>8 DEF Quiet, Block, Unblock, Begin, WantStop, Safepoint, SafepointOver, CheckCount,
                LeaveShared, TakeShared, Outrun, SafepointLeave, StopTakeShared, ThreadInit,
                Pass, Drop, Announce, StopGc, ResumeGc, Release, SweepOther, ThreadFree
  <2>. QED
    BY <1>1, <2>1
<1>. QED
  BY <1>2, <1>3, <1>4, <1>5, <1>6, <1>7, <1>8 DEF Work, Call, Waits, Quiet

(* Whoever touches what belongs to a gc (gc-local.valk:766-798,            *)
(* gc-shared.valk:121, 129) holds its lock; a running thread holds its     *)
(* own, so it is alone with what is its.                                   *)
THEOREM BlocksAlone == Spec => BlocksLeftAlone
<1>1. ASSUME IInv, Next
       PROVE  \E t \in Threads :
                 /\ Steps(t)
                 /\ \A u \in Threads : Touched(u) => HasGc(t, u) /\ (Running(u) => t = u)
  <2>1. PICK t \in Threads : Work(t) \/ Call(t) \/ Waits(t)
    BY <1>1 DEF Next
  <2>2. Steps(t)
    BY <1>1, <2>1, Stepping DEF IInv
  <2>3. ASSUME NEW u \in Threads, Touched(u)
         PROVE  HasGc(t, u) /\ (Running(u) => t = u)
    <3>1. HasGc(t, u)
      BY <1>1, <2>1, <2>3, TouchedHeld
    <3>2. Running(u) => lock[u] = u
      BY <1>1 DEF IInv, LocksSound, Running
    <3>. QED
      BY <3>1, <3>2 DEF HasGc
  <2>. QED
    BY <2>2, <2>3
<1>2. IInv /\ [Next]_vars
      => [\E t \in Threads :
                 /\ Steps(t)
                 /\ \A u \in Threads : Touched(u) => HasGc(t, u) /\ (Running(u) => t = u)]_vars
  BY <1>1
<1>. QED
  BY <1>2, Invariant, PTL DEF Spec, BlocksLeftAlone
=============================================================================
