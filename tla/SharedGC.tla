------------------------------ MODULE SharedGC ------------------------------
(***************************************************************************)
(* The collection of shared memory (lib/src/gc/gc-shared.valk), with the   *)
(* start and the end of threads (gc-thread.valk) and the sweeps that each  *)
(* thread does for itself (Gc.sweep_shared in gc-local.valk).              *)
(*                                                                         *)
(* A running thread holds the lock of its gc and lets go of it when it     *)
(* blocks, at a safepoint, or to collect or end.  The collector takes      *)
(* shared_lock and then every gc.  What it does while it holds them all is *)
(* one step; the marking, which the stopped threads help with, is the      *)
(* module ParallelMark.  The roots of a thread are the shared items its    *)
(* stacks and its own objects lead to.  The mark of a round is one of two  *)
(* flags that take turns.                                                  *)
(***************************************************************************)
EXTENDS Naturals, FiniteSets

CONSTANTS
    Threads,
    Main,           \* the thread that is there first and does not end
    Collectors,     \* threads that start shared collections
    MayEnd,         \* threads that may end
    Items,          \* slots for shared items
    Nobody

ASSUME SharedGCAssumption ==
    /\ Main \in Threads
    /\ Collectors \subseteq Threads
    /\ MayEnd \subseteq Threads \ {Main}
    /\ IsFiniteSet(Items)
    /\ Nobody \notin Threads

VARIABLES
    pc,         \* where each thread is
    lock,       \* Gc.mutex of each thread: who holds it
    sharedLock, \* shared_lock: who holds it
    stop,       \* shared_stop
    safe,       \* threads with at_safepoint
    listed,     \* gc_list
    todo,       \* the gcs a collector's loop has still to visit
    outrun,     \* threads that wait with a mark_count that is no longer the current
    now,        \* shmark_now
    refs,       \* the roots of each thread
    used,       \* the items that are not freed
    mark,       \* the mark in the flags of each item
    owner,      \* b_owner: the thread whose block an item is in
    items,      \* Gc.shared_items
    old,        \* those before sweep_end, which wait for a sweep
    foreign,    \* Gc.foreign_dead
    dump        \* shared_dump

locks == <<lock, sharedLock, listed>>
control == <<stop, safe, todo, outrun>>
lists == <<items, old, foreign, dump>>
heap == <<now, used, mark, owner, lists>>
vars == <<pc, locks, control, refs, heap>>

PCs == {"new", "running", "blocked", "safepoint", "safeRelock",
        "wantShared", "check", "outrun", "announce", "stopping", "collect", "resume", "release",
        "sweepOthers", "sweeping", "leave", "relock",
        "wantStop", "stopLock", "stopped", "ended"}

Marks == {"none", "shmark", "leak"}

TypeOK ==
    /\ pc \in [Threads -> PCs]
    /\ lock \in [Threads -> Threads \cup {Nobody}]
    /\ sharedLock \in Threads \cup {Nobody}
    /\ stop \in BOOLEAN
    /\ safe \in SUBSET Threads
    /\ listed \in SUBSET Threads
    /\ todo \in [Threads -> SUBSET Threads]
    /\ outrun \in SUBSET Threads
    /\ now \in Marks \ {"none"}
    /\ refs \in [Threads -> SUBSET Items]
    /\ used \in SUBSET Items
    /\ mark \in [Items -> Marks]
    /\ owner \in [Items -> Threads \cup {Nobody}]
    /\ items \in [Threads -> SUBSET Items]
    /\ old \in [Threads -> SUBSET Items]
    /\ foreign \in [Threads -> SUBSET Items]
    /\ dump \in SUBSET Items
    /\ \A t \in Threads : old[t] \subseteq items[t]

Init ==
    /\ pc = [t \in Threads |-> IF t = Main THEN "running" ELSE "new"]
    /\ lock = [t \in Threads |-> IF t = Main THEN t ELSE Nobody]
    /\ sharedLock = Nobody
    /\ stop = FALSE
    /\ safe = {}
    /\ listed = {Main}
    /\ todo = [t \in Threads |-> {}]
    /\ outrun = {}
    /\ now = "shmark"
    /\ refs = [t \in Threads |-> {}]
    /\ used = {}
    /\ mark = [i \in Items |-> "none"]
    /\ owner = [i \in Items |-> Nobody]
    /\ items = [t \in Threads |-> {}]
    /\ old = [t \in Threads |-> {}]
    /\ foreign = [t \in Threads |-> {}]
    /\ dump = {}

-----------------------------------------------------------------------------
Goto(t, label) == pc' = [pc EXCEPT ![t] = label]

(* gcx.lock() and its release, by t                                        *)
LockGc(t, u) == lock[u] = Nobody /\ lock' = [lock EXCEPT ![u] = t]
UnlockGc(u) == lock' = [lock EXCEPT ![u] = Nobody]

(* free_shared_item: the slot is free and its flags are clear.             *)
Free(dead) ==
    /\ used' = used \ dead
    /\ mark' = [i \in Items |-> IF i \in dead THEN "none" ELSE mark[i]]

Unmarked(s) == {i \in s : mark[i] # now}

-----------------------------------------------------------------------------
(* What running threads do                                                 *)

Running(t) == pc[t] = "running"

(* thread_init: its own gc first, then a place in the list.                *)
ThreadInit(t) ==
    /\ pc[t] = "new"
    /\ LockGc(t, t)
    /\ sharedLock = Nobody
    /\ listed' = listed \cup {t}
    /\ Goto(t, "running")
    /\ UNCHANGED <<sharedLock, control, refs, heap>>

(* share: the item may be in a block of another thread.                    *)
Share(t) ==
    /\ Running(t)
    /\ \E i \in Items \ used, u \in listed :
        /\ used' = used \cup {i}
        /\ owner' = [owner EXCEPT ![i] = u]
        /\ items' = [items EXCEPT ![t] = @ \cup {i}]
        /\ refs' = [refs EXCEPT ![t] = @ \cup {i}]
    /\ UNCHANGED <<pc, locks, control, now, mark, old, foreign, dump>>

(* A reference is stored where another thread can find it.                 *)
Pass(t) ==
    /\ Running(t)
    /\ \E i \in refs[t], u \in listed \ {t} : refs' = [refs EXCEPT ![u] = @ \cup {i}]
    /\ UNCHANGED <<pc, locks, control, heap>>

Drop(t) ==
    /\ Running(t)
    /\ \E i \in refs[t] : refs' = [refs EXCEPT ![t] = @ \ {i}]
    /\ UNCHANGED <<pc, locks, control, heap>>

(* gc.unlock() and gc.lock() around whatever blocks                        *)
Block(t) ==
    /\ Running(t)
    /\ UnlockGc(t)
    /\ Goto(t, "blocked")
    /\ UNCHANGED <<sharedLock, listed, control, refs, heap>>

Unblock(t) ==
    /\ pc[t] = "blocked"
    /\ LockGc(t, t)
    /\ Goto(t, "running")
    /\ UNCHANGED <<sharedLock, listed, control, refs, heap>>

(* shared_safepoint, where the allocator turns to another block.           *)
Safepoint(t) ==
    /\ Running(t) /\ stop
    /\ safe' = safe \cup {t}
    /\ UnlockGc(t)
    /\ Goto(t, "safepoint")
    /\ UNCHANGED <<sharedLock, listed, stop, todo, outrun, refs, heap>>

SafepointOver(t) ==
    /\ pc[t] = "safepoint" /\ ~stop
    /\ Goto(t, "safeRelock")
    /\ UNCHANGED <<locks, control, refs, heap>>

SafepointLeave(t) ==
    /\ pc[t] = "safeRelock"
    /\ LockGc(t, t)
    /\ safe' = safe \ {t}
    /\ Goto(t, "running")
    /\ UNCHANGED <<sharedLock, listed, stop, todo, outrun, refs, heap>>

(* Mutant: the boundary is not looked at.                                  *)
SweepAll(u) ==
    LET dead == Unmarked(items[u])
        own == {i \in dead : owner[i] = u}
    IN  /\ Free(own)
        /\ items' = [items EXCEPT ![u] = @ \ dead]
        /\ old' = [old EXCEPT ![u] = {}]
        /\ foreign' = [foreign EXCEPT ![u] = @ \cup (dead \ own)]

(* Mutant: the boundary stays where it was.                                *)
SweepKeepsEnd(u) ==
    LET dead == Unmarked(old[u])
        own == {i \in dead : owner[i] = u}
    IN  /\ Free(own)
        /\ items' = [items EXCEPT ![u] = @ \ dead]
        /\ foreign' = [foreign EXCEPT ![u] = @ \cup (dead \ own)]
        /\ UNCHANGED old

(* sweep_shared of u's gc: what the last round did not mark is freed, but  *)
(* for items in the blocks of others, which wait for the next round.       *)
Sweep(u) ==
    LET dead == Unmarked(old[u])
        own == {i \in dead : owner[i] = u}
    IN  /\ Free(own)
        /\ items' = [items EXCEPT ![u] = @ \ dead]
        /\ old' = [old EXCEPT ![u] = {}]
        /\ foreign' = [foreign EXCEPT ![u] = @ \cup (dead \ own)]

(* A local collection sweeps first.                                        *)
CollectLocal(t) ==
    /\ Running(t) /\ old[t] # {}
    /\ Sweep(t)
    /\ UNCHANGED <<pc, locks, control, refs, now, owner, dump>>

-----------------------------------------------------------------------------
(* collect_shared_native                                                   *)

Begin(t) ==
    /\ Running(t) /\ t \in Collectors
    /\ UnlockGc(t)
    /\ outrun' = outrun \ {t}
    /\ Goto(t, "wantShared")
    /\ UNCHANGED <<sharedLock, listed, stop, safe, todo, refs, heap>>

TakeShared(t) ==
    /\ pc[t] = "wantShared" /\ sharedLock = Nobody
    /\ sharedLock' = t
    /\ Goto(t, "check")
    /\ UNCHANGED <<lock, listed, control, refs, heap>>

(* Another thread ran a collection meanwhile: that will do.                *)
CheckCount(t) ==
    /\ pc[t] = "check"
    /\ \/ t \in outrun /\ sharedLock' = Nobody /\ Goto(t, "outrun")
       \/ t \notin outrun /\ UNCHANGED sharedLock /\ Goto(t, "announce")
    /\ UNCHANGED <<lock, listed, control, refs, heap>>

(* Mutant: nobody is told.                                                 *)
AnnounceNothing(t) ==
    /\ pc[t] = "announce"
    /\ todo' = [todo EXCEPT ![t] = listed]
    /\ Goto(t, "stopping")
    /\ UNCHANGED <<locks, stop, safe, outrun, refs, heap>>

Outrun(t) ==
    /\ pc[t] = "outrun"
    /\ LockGc(t, t)
    /\ Goto(t, "running")
    /\ UNCHANGED <<sharedLock, listed, control, refs, heap>>

(* gc_list and shared_stop                                                 *)
Announce(t) ==
    /\ pc[t] = "announce"
    /\ stop' = TRUE
    /\ todo' = [todo EXCEPT ![t] = listed]
    /\ Goto(t, "stopping")
    /\ UNCHANGED <<locks, safe, outrun, refs, heap>>

StopGc(t) ==
    /\ pc[t] = "stopping" /\ todo[t] # {}
    /\ \E u \in todo[t] :
        /\ LockGc(t, u)
        /\ todo' = [todo EXCEPT ![t] = @ \ {u}]
        /\ Goto(t, IF todo[t] = {u} THEN "collect" ELSE "stopping")
    /\ UNCHANGED <<sharedLock, listed, stop, safe, outrun, refs, heap>>

Roots == UNION {refs[u] : u \in listed}

(* Mutant: sweeps that threads did not get to are left to them.            *)
CollectUnswept(t) ==
    /\ pc[t] = "collect"
    /\ LET now2 == IF now = "shmark" THEN "leak" ELSE "shmark"
           dead1 == UNION {foreign[u] : u \in listed}
           live == [i \in Items |-> IF i \in Roots THEN now2 ELSE IF i \in dead1 THEN "none" ELSE mark[i]]
           dead2 == {i \in dump : live[i] # now2}
       IN  /\ now' = now2
           /\ used' = used \ (dead1 \cup dead2)
           /\ mark' = [i \in Items |-> IF i \in dead2 THEN "none" ELSE live[i]]
           /\ foreign' = [u \in Threads |-> {}]
           /\ dump' = dump \ dead2
           /\ items' = items
    /\ old' = [u \in Threads |-> IF u \in listed THEN items[u] ELSE {}]
    /\ outrun' = Threads
    /\ todo' = [todo EXCEPT ![t] = listed]
    /\ Goto(t, "resume")
    /\ UNCHANGED <<locks, stop, safe, refs, owner>>

(* With every gc in hand: the sweeps that were not done, and what they     *)
(* left in the blocks of others; then the marks change sides and what the  *)
(* roots lead to is marked; items of threads that ended are freed here,    *)
(* those of the others are theirs to sweep.                                *)
Collect(t) ==
    /\ pc[t] = "collect"
    /\ LET unswept == UNION {Unmarked(old[u]) : u \in listed}
           dead == unswept \cup UNION {foreign[u] : u \in listed}
           next == CHOOSE m \in Marks \ {"none"} : m # now
           dumped == {i \in dump : i \notin Roots /\ mark[i] # next}
       IN  /\ now' = next
           /\ used' = used \ (dead \cup dumped)
           /\ mark' = [i \in Items |-> IF i \in Roots THEN next
                                       ELSE IF i \in dead \cup dumped THEN "none" ELSE mark[i]]
           /\ items' = [u \in Threads |-> items[u] \ unswept]
           /\ old' = [u \in Threads |-> IF u \in listed THEN items'[u] ELSE {}]
           /\ dump' = dump \ dumped
    /\ foreign' = [u \in Threads |-> {}]
    /\ outrun' = Threads
    /\ todo' = [todo EXCEPT ![t] = listed]
    /\ Goto(t, "resume")
    /\ UNCHANGED <<locks, stop, safe, refs, owner>>

(* The gcs are let go one by one, and after that shared_stop is cleared.   *)
ResumeGc(t) ==
    /\ pc[t] = "resume" /\ todo[t] # {}
    /\ \E u \in todo[t] :
        /\ UnlockGc(u)
        /\ todo' = [todo EXCEPT ![t] = @ \ {u}]
        /\ Goto(t, IF todo[t] = {u} THEN "release" ELSE "resume")
    /\ UNCHANGED <<sharedLock, listed, stop, safe, outrun, refs, heap>>

Release(t) ==
    /\ pc[t] = "release"
    /\ stop' = FALSE
    /\ todo' = [todo EXCEPT ![t] = listed \ {t}]
    /\ Goto(t, "sweepOthers")
    /\ UNCHANGED <<locks, safe, outrun, refs, heap>>

(* Mutant: a thread is swept for whether its gc is free or not.            *)
SweepOtherUnlocked(t) ==
    /\ pc[t] = "sweepOthers" /\ todo[t] # {}
    /\ \E u \in todo[t] :
        /\ todo' = [todo EXCEPT ![t] = @ \ {u}]
        /\ \/ u \in safe /\ UNCHANGED heap
           \/ u \notin safe /\ Sweep(u) /\ UNCHANGED <<now, owner, dump>>
    /\ UNCHANGED <<pc, locks, stop, safe, outrun, refs>>

(* A thread that blocks elsewhere is swept for, if its gc is free.         *)
SweepOther(t) ==
    /\ pc[t] = "sweepOthers" /\ todo[t] # {}
    /\ \E u \in todo[t] :
        \/ /\ u \in safe \/ old[u] = {} \/ lock[u] # Nobody
           /\ todo' = [todo EXCEPT ![t] = @ \ {u}]
           /\ UNCHANGED <<lock, pc>>
        \/ /\ u \notin safe /\ old[u] # {}
           /\ LockGc(t, u)
           /\ Goto(t, "sweeping")
           /\ UNCHANGED todo
    /\ UNCHANGED <<sharedLock, listed, stop, safe, outrun, refs, heap>>

SweepDone(t) ==
    /\ pc[t] = "sweeping"
    /\ \E u \in todo[t] :
        /\ lock[u] = t
        /\ Sweep(u)
        /\ UnlockGc(u)
        /\ todo' = [todo EXCEPT ![t] = @ \ {u}]
    /\ Goto(t, "sweepOthers")
    /\ UNCHANGED <<sharedLock, listed, stop, safe, outrun, refs, now, owner, dump>>

LeaveShared(t) ==
    /\ pc[t] = "sweepOthers" /\ todo[t] = {}
    /\ sharedLock' = Nobody
    /\ Goto(t, "relock")
    /\ UNCHANGED <<lock, listed, control, refs, heap>>

(* Its own gc again, and its own sweep.                                    *)
Relock(t) ==
    /\ pc[t] = "relock"
    /\ LockGc(t, t)
    /\ Sweep(t)
    /\ Goto(t, "running")
    /\ UNCHANGED <<sharedLock, listed, control, refs, now, owner, dump>>

-----------------------------------------------------------------------------
(* thread_stop and thread_free                                             *)

WantStop(t) ==
    /\ Running(t) /\ t \in MayEnd
    /\ UnlockGc(t)
    /\ Goto(t, "wantStop")
    /\ UNCHANGED <<sharedLock, listed, control, refs, heap>>

StopTakeShared(t) ==
    /\ pc[t] = "wantStop" /\ sharedLock = Nobody
    /\ sharedLock' = t
    /\ Goto(t, "stopLock")
    /\ UNCHANGED <<lock, listed, control, refs, heap>>

(* Mutant: what waits for a sweep or for the next round is forgotten.      *)
ShutdownForgets(t) ==
    /\ pc[t] = "stopLock"
    /\ LockGc(t, t)
    /\ listed' = listed \ {t}
    /\ Sweep(t)
    /\ dump' = dump \cup items'[t]
    /\ owner' = [i \in Items |-> IF owner[i] = t THEN Nobody ELSE owner[i]]
    /\ Goto(t, "stopped")
    /\ UNCHANGED <<sharedLock, control, refs, now>>

(* Out of the list, the last sweep, and all items to the dump; its blocks  *)
(* are nobody's from now on.                                               *)
Shutdown(t) ==
    /\ pc[t] = "stopLock"
    /\ LockGc(t, t)
    /\ listed' = listed \ {t}
    /\ LET dead == Unmarked(old[t])
           own == {i \in dead : owner[i] = t}
       IN  /\ Free(own)
           /\ dump' = dump \cup (items[t] \ own) \cup foreign[t]
    /\ items' = [items EXCEPT ![t] = {}]
    /\ old' = [old EXCEPT ![t] = {}]
    /\ foreign' = [foreign EXCEPT ![t] = {}]
    /\ owner' = [i \in Items |-> IF owner[i] = t THEN Nobody ELSE owner[i]]
    /\ Goto(t, "stopped")
    /\ UNCHANGED <<sharedLock, control, refs, now>>

(* The waiters were told; the thread needs its roots up to here.           *)
ThreadFree(t) ==
    /\ pc[t] = "stopped"
    /\ sharedLock' = Nobody
    /\ UnlockGc(t)
    /\ refs' = [refs EXCEPT ![t] = {}]
    /\ Goto(t, "ended")
    /\ UNCHANGED <<listed, control, heap>>

-----------------------------------------------------------------------------
(* What a thread does if it likes                                          *)
Work(t) ==
    \/ ThreadInit(t) \/ Share(t) \/ Pass(t) \/ Drop(t) \/ Block(t) \/ Unblock(t)
    \/ CollectLocal(t) \/ Begin(t) \/ WantStop(t)

(* What a thread is inside of                                              *)
Call(t) ==
    \/ Safepoint(t) \/ SafepointOver(t) \/ CheckCount(t) \/ Announce(t) \/ Collect(t)
    \/ ResumeGc(t) \/ Release(t) \/ SweepOther(t) \/ SweepDone(t) \/ LeaveShared(t) \/ ThreadFree(t)

(* Its waits for a mutex                                                   *)
Waits(t) ==
    \/ TakeShared(t) \/ Outrun(t) \/ StopGc(t) \/ SafepointLeave(t) \/ Relock(t)
    \/ StopTakeShared(t) \/ Shutdown(t)

Next == \E t \in Threads : Work(t) \/ Call(t) \/ Waits(t)

Spec == Init /\ [][Next]_vars

(* Running threads come to a safepoint as long as they allocate, and those *)
(* that wait for a mutex get it if it is free again and again.             *)
FairSpec == Spec /\ \A t \in Threads : WF_vars(Call(t)) /\ SF_vars(Waits(t))

-----------------------------------------------------------------------------
(* Properties                                                              *)

(* Nothing in use is freed (gc-shared.valk:97-156, gc-local.valk:770-808): *)
(* an item that a thread's roots lead to, also those of a thread that is   *)
(* blocked, at a safepoint or ending, is not freed.                        *)
ReachableKept == \A t \in Threads : refs[t] \subseteq used

(* No item is forgotten or freed twice (gc-local.valk:823-829,             *)
(* shared-dump.valk): every item in use is in one list, and none is in two.*)
ListedOnce ==
    \A i \in Items :
        Cardinality({t \in Threads : i \in items[t]}) + Cardinality({t \in Threads : i \in foreign[t]})
            + (IF i \in dump THEN 1 ELSE 0)
            = (IF i \in used THEN 1 ELSE 0)

(* What belongs to u's gc changes: its lists, or an item in its blocks.    *)
Touched(u) ==
    \/ items'[u] # items[u] \/ old'[u] # old[u] \/ foreign'[u] # foreign[u]
    \/ \E i \in used : owner[i] = u /\ (i \notin used' \/ mark'[i] # mark[i] \/ owner'[i] # u)

(* t takes the step: its place in the code or in its loop over the gcs     *)
(* moves, or nobody's does and t is one that runs.                         *)
Steps(t) ==
    \/ pc'[t] # pc[t] \/ todo'[t] # todo[t]
    \/ Running(t) /\ UNCHANGED <<pc, todo>>

(* t holds u's gc as the step begins, or takes it while it is free.        *)
HasGc(t, u) == lock[u] = t \/ (lock[u] = Nobody /\ lock'[u] = t)

(* A running thread's gc is its own (gc-local.valk:766-798, gc-shared.valk:*)
(* 121, 129): whoever sweeps a list, changes what waits there, or marks or *)
(* frees an item in the blocks of a gc has the lock of that gc, be it the  *)
(* thread itself, one that sweeps for it or a collector; and it is nobody  *)
(* but the thread itself while that runs.                                  *)
BlocksLeftAlone ==
    [][\E t \in Threads :
        /\ Steps(t)
        /\ \A u \in Threads : Touched(u) => HasGc(t, u) /\ (Running(u) => t = u)]_vars

(* The marks of a round are those of that round only (gc-shared.valk:60-   *)
(* 86): once the collector is done marking, and before it lets go of a gc, *)
(* the items of threads that bear the current mark are those in use.       *)
MarksTrue ==
    \A t \in Threads :
        pc[t] = "resume" /\ todo[t] = listed
            => \A i \in used \ dump : mark[i] = now <=> i \in Roots

(* A collection is not held up by threads that run, block, end or collect  *)
(* as well (gc-shared.valk:140-154).                                       *)
RoundsEnd == \A t \in Collectors : pc[t] = "wantShared" ~> pc[t] = "running"
=============================================================================
