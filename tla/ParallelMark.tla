----------------------------- MODULE ParallelMark -----------------------------
(***************************************************************************)
(* The marking of shared memory (lib/src/gc/shared-mark.valk): the         *)
(* collector, and the threads at their safepoint that care to help, mark   *)
(* from lists of roots that are cut into units.  Each works on a stack of  *)
(* its own; one with much to do hands half of it to the queue when others  *)
(* are out of work, and who finds that all are ends the marking.           *)
(*                                                                         *)
(* Each atomic, each unlocked read that decides something, and each        *)
(* section under pmark_spin is a step; the last look at the end of the     *)
(* marking, which reads what others change without the lock, is two.  The  *)
(* order of a stack and the sizes of items are left out.                   *)
(***************************************************************************)
EXTENDS Naturals, FiniteSets, Sequences

CONSTANTS
    Helpers,        \* the threads at a safepoint
    Collector,
    Items,
    Heaps,          \* see Marking
    ShareMin,       \* pmark_share_min
    TakeMax,        \* pmark_take_max
    Nobody

Markers == Helpers \cup {Collector}

ASSUME ParallelMarkAssumption ==
    /\ IsFiniteSet(Items) /\ IsFiniteSet(Helpers)
    /\ Collector \notin Helpers /\ Nobody \notin Markers
    /\ ShareMin \in Nat /\ ShareMin >= 2 /\ TakeMax \in Nat \ {0}
    /\ \A h \in Heaps :
        /\ h.edges \in [Items -> SUBSET Items]
        /\ h.roots \in Seq(SUBSET Items)

VARIABLES
    pc,         \* where each marker is
    local,      \* pmark_local
    claims,     \* what each is about to claim: the rest of a unit, or of an item's references
    found,      \* `live` in pmark_drain
    queue,      \* pmark_queue
    spin,       \* pmark_spin: who holds it
    active,     \* pmark_active
    workers,    \* pmark_workers
    idle,       \* pmark_idle
    unit,       \* pmark_unit_next
    live,       \* pmark_live
    now,        \* shmark_now
    flags,      \* the items that bear each of the two marks
    heap        \* what this round finds

mine == <<local, claims, found>>
round == <<unit, live, now, heap>>
shared == <<queue, spin, active, workers, idle>>
vars == <<pc, mine, round, shared, flags>>

PCs == {"out", "join", "drain", "claim", "roots", "share", "unit", "take", "publish", "goIdle",
        "idle", "count", "back", "endLock", "endCheck"}

TypeOK ==
    /\ pc \in [Markers -> PCs]
    /\ local \in [Markers -> SUBSET Items]
    /\ claims \in [Markers -> SUBSET Items]
    /\ found \in [Markers -> 0 .. Cardinality(Items)]
    /\ queue \in SUBSET Items
    /\ spin \in Markers \cup {Nobody}
    /\ active \in BOOLEAN
    /\ workers \in 0 .. Cardinality(Markers)
    /\ idle \in 0 .. Cardinality(Markers)
    /\ unit \in Nat
    /\ live \in 0 .. Cardinality(Items)
    /\ now \in {0, 1}
    /\ flags \in [{0, 1} -> SUBSET Items]
    /\ heap \in Heaps

(* No round has begun and nothing bears a mark.                            *)
Init ==
    /\ pc = [t \in Markers |-> "out"]
    /\ local = [t \in Markers |-> {}]
    /\ claims = [t \in Markers |-> {}]
    /\ found = [t \in Markers |-> 0]
    /\ queue = {} /\ spin = Nobody
    /\ active = FALSE /\ workers = 0 /\ idle = 0
    /\ unit = 0 /\ live = 0 /\ now = 0
    /\ flags = [m \in {0, 1} |-> {}]
    /\ heap \in Heaps

Goto(t, label) == pc' = [pc EXCEPT ![t] = label]

Units == Len(heap.roots)

-----------------------------------------------------------------------------
(* Mutant: the helpers of the last round are not waited for.               *)
RunAtOnce ==
    /\ pc[Collector] = "out" /\ ~active
    /\ heap' \in Heaps
    /\ now' = 1 - now
    /\ flags' = [flags EXCEPT ![now'] = @ \cap flags[now]]
    /\ unit' = 0 /\ live' = 0 /\ idle' = 0 /\ workers' = 1
    /\ active' = TRUE
    /\ Goto(Collector, "drain")
    /\ UNCHANGED <<mine, queue, spin>>

(* pmark_run, up to pmark_active: it waits for the last helpers to leave.  *)
(* The items that were not marked in the last round are free by now, their *)
(* flags clear, and the marks change sides.                                *)
Run ==
    /\ pc[Collector] = "out" /\ workers = 0
    /\ heap' \in Heaps
    /\ now' = 1 - now
    /\ flags' = [flags EXCEPT ![now'] = @ \cap flags[now]]
    /\ unit' = 0 /\ live' = 0 /\ idle' = 0 /\ workers' = 1
    /\ active' = TRUE
    /\ Goto(Collector, "drain")
    /\ UNCHANGED <<mine, queue, spin>>

(* shared_safepoint sees pmark_active, without the lock.                   *)
Help(t) ==
    /\ t \in Helpers /\ pc[t] = "out" /\ active
    /\ Goto(t, "join")
    /\ UNCHANGED <<mine, round, shared, flags>>

(* pmark_help                                                              *)
Join(t) ==
    /\ pc[t] = "join" /\ spin = Nobody
    /\ \/ active /\ workers' = workers + 1 /\ Goto(t, "drain")
       \/ ~active /\ Goto(t, "out") /\ UNCHANGED workers
    /\ UNCHANGED <<mine, round, queue, spin, active, idle, flags>>

-----------------------------------------------------------------------------
(* pmark_drain                                                             *)

Trace(t) ==
    /\ pc[t] = "drain"
    /\ \E i \in local[t] :
        /\ local' = [local EXCEPT ![t] = @ \ {i}]
        /\ found' = [found EXCEPT ![t] = @ + 1]
        /\ claims' = [claims EXCEPT ![t] = heap.edges[i]]
    /\ Goto(t, "claim")
    /\ UNCHANGED <<round, shared, flags>>

(* Mutant: the mark of the last round stays.                               *)
ClaimOver(t) ==
    /\ pc[t] \in {"claim", "roots"}
    /\ \E i \in claims[t] :
        /\ claims' = [claims EXCEPT ![t] = @ \ {i}]
        /\ \/ i \in flags[now] /\ UNCHANGED <<local, flags>>
           \/ /\ i \notin flags[now]
              /\ flags' = [flags EXCEPT ![now] = @ \cup {i}]
              /\ local' = [local EXCEPT ![t] = @ \cup {i}]
    /\ UNCHANGED <<pc, found, round, shared>>

(* pmark_claim: who sets the mark has the item, and clears the last one.   *)
Claim(t) ==
    /\ pc[t] \in {"claim", "roots"}
    /\ \E i \in claims[t] :
        /\ claims' = [claims EXCEPT ![t] = @ \ {i}]
        /\ \/ i \in flags[now] /\ UNCHANGED <<local, flags>>
           \/ /\ i \notin flags[now]
              /\ flags' = [m \in {0, 1} |-> IF m = now THEN flags[m] \cup {i} ELSE flags[m] \ {i}]
              /\ local' = [local EXCEPT ![t] = @ \cup {i}]
    /\ UNCHANGED <<pc, found, round, shared>>

(* An item's references are claimed: threads wait for work?                *)
Traced(t) ==
    /\ pc[t] = "claim" /\ claims[t] = {}
    /\ \/ Cardinality(local[t]) >= ShareMin /\ idle > 0 /\ queue = {} /\ Goto(t, "share")
       \/ ~(Cardinality(local[t]) >= ShareMin /\ idle > 0 /\ queue = {}) /\ Goto(t, "drain")
    /\ UNCHANGED <<mine, round, shared, flags>>

(* Half of the stack is handed over.                                       *)
Share(t) ==
    /\ pc[t] = "share" /\ spin = Nobody
    /\ \E half \in SUBSET local[t] :
        /\ Cardinality(half) = Cardinality(local[t]) \div 2
        /\ queue' = queue \cup half
        /\ local' = [local EXCEPT ![t] = @ \ half]
    /\ Goto(t, "drain")
    /\ UNCHANGED <<claims, found, round, spin, active, workers, idle, flags>>

(* pmark_scan_unit: a look at what is left, and the atomic that claims.    *)
Drained(t) ==
    /\ pc[t] = "drain" /\ local[t] = {}
    /\ \/ unit < Units /\ Goto(t, "unit")
       \/ unit >= Units /\ queue # {} /\ Goto(t, "take")
       \/ unit >= Units /\ queue = {} /\ Goto(t, "publish")
    /\ UNCHANGED <<mine, round, shared, flags>>

ClaimUnit(t) ==
    /\ pc[t] = "unit"
    /\ unit' = unit + 1
    /\ \/ /\ unit < Units
          /\ claims' = [claims EXCEPT ![t] = heap.roots[unit + 1]]
          /\ Goto(t, "roots")
       \/ unit >= Units /\ queue # {} /\ Goto(t, "take") /\ UNCHANGED claims
       \/ unit >= Units /\ queue = {} /\ Goto(t, "publish") /\ UNCHANGED claims
    /\ UNCHANGED <<local, found, live, now, heap, shared, flags>>

UnitDone(t) ==
    /\ pc[t] = "roots" /\ claims[t] = {}
    /\ Goto(t, "drain")
    /\ UNCHANGED <<mine, round, shared, flags>>

(* pmark_take, under the lock: another may have been quicker.              *)
Take(t) ==
    /\ pc[t] = "take" /\ spin = Nobody
    /\ \/ queue = {} /\ Goto(t, "publish") /\ UNCHANGED <<local, queue>>
       \/ /\ queue # {}
          /\ \E took \in SUBSET queue :
                /\ Cardinality(took) = IF Cardinality(queue) > TakeMax THEN TakeMax ELSE Cardinality(queue)
                /\ local' = [local EXCEPT ![t] = @ \cup took]
                /\ queue' = queue \ took
          /\ Goto(t, "drain")
    /\ UNCHANGED <<claims, found, round, spin, active, workers, idle, flags>>

Publish(t) ==
    /\ pc[t] = "publish"
    /\ live' = live + found[t]
    /\ found' = [found EXCEPT ![t] = 0]
    /\ Goto(t, "goIdle")
    /\ UNCHANGED <<local, claims, unit, now, heap, shared, flags>>

GoIdle(t) ==
    /\ pc[t] = "goIdle"
    /\ idle' = idle + 1
    /\ Goto(t, "idle")
    /\ UNCHANGED <<mine, round, queue, spin, active, workers, flags>>

(* The marking is over: pmark_run returns, a helper goes back to its       *)
(* safepoint.                                                              *)
Leave(t) ==
    /\ pc[t] = "idle" /\ ~active
    /\ workers' = workers - 1
    /\ Goto(t, "out")
    /\ UNCHANGED <<mine, round, queue, spin, active, idle, flags>>

(* What an idle marker sees, first in the queue, then of the others        *)
Look(t) ==
    /\ pc[t] = "idle" /\ active
    /\ \/ (queue # {} \/ unit < Units) /\ Goto(t, "back")
       \/ queue = {} /\ unit >= Units /\ Goto(t, "count")
    /\ UNCHANGED <<mine, round, shared, flags>>

Count(t) ==
    /\ pc[t] = "count"
    /\ \/ idle = workers /\ Goto(t, "endLock")
       \/ idle # workers /\ Goto(t, "idle")
    /\ UNCHANGED <<mine, round, shared, flags>>

(* Mutant: who goes back to work counts as idle still.                     *)
BackUncounted(t) ==
    /\ pc[t] = "back"
    /\ Goto(t, "drain")
    /\ UNCHANGED <<mine, round, shared, flags>>

Back(t) ==
    /\ pc[t] = "back"
    /\ idle' = idle - 1
    /\ Goto(t, "drain")
    /\ UNCHANGED <<mine, round, queue, spin, active, workers, flags>>

(* The end, under the lock                                                 *)
EndLock(t) ==
    /\ pc[t] = "endLock" /\ spin = Nobody
    /\ \/ active /\ idle = workers /\ spin' = t /\ Goto(t, "endCheck")
       \/ ~(active /\ idle = workers) /\ UNCHANGED spin /\ Goto(t, "idle")
    /\ UNCHANGED <<mine, round, queue, active, workers, idle, flags>>

EndCheck(t) ==
    /\ pc[t] = "endCheck"
    /\ active' = ~(queue = {} /\ unit >= Units)
    /\ spin' = Nobody
    /\ Goto(t, "idle")
    /\ UNCHANGED <<mine, round, queue, workers, idle, flags>>

Drain(t) ==
    \/ Join(t) \/ Trace(t) \/ Claim(t) \/ Traced(t) \/ Share(t) \/ Drained(t) \/ ClaimUnit(t) \/ UnitDone(t)
    \/ Take(t) \/ Publish(t) \/ GoIdle(t) \/ Leave(t) \/ Look(t) \/ Count(t)
    \/ Back(t) \/ EndLock(t) \/ EndCheck(t)

Next == Run \/ \E t \in Markers : Help(t) \/ Drain(t)

Spec == Init /\ [][Next]_vars

(* Threads that mark run on.  Nobody has to help, and collections need not *)
(* come.                                                                   *)
FairSpec == Spec /\ \A t \in Markers : WF_vars(Drain(t))

-----------------------------------------------------------------------------
(* Properties                                                              *)

AsMarking == INSTANCE Marking WITH
    running <- pc[Collector] # "out",
    marks <- flags[now],
    result <- IF pc[Collector] = "out" THEN live ELSE 0

(* What pmark_run promises to collect_shared_native (gc-shared.valk:85,    *)
(* shared-mark.valk:72-94): it returns when all that the roots lead to is  *)
(* marked, nothing else is, and every marker counted what it found.        *)
ImplementsMarking == AsMarking!Spec

(* Nobody waits for a marker that is waiting itself (shared-mark.valk:181- *)
(* 202): the marking ends, and all helpers leave it.                       *)
MarkingEnds == active ~> (workers = 0)
=============================================================================
