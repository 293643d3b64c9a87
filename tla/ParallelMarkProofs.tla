-------------------------- MODULE ParallelMarkProofs --------------------------
(***************************************************************************)
(* Proofs about ParallelMark, for any number of helpers and any heap: the  *)
(* marking ends when nobody has work, and not before, so pmark_run keeps   *)
(* the promise of Marking.                                                 *)
(***************************************************************************)
EXTENDS ParallelMark, FiniteSetTheorems, TLAPS

marked == flags[now]

(* Who takes part, and who of them counts as out of work.                  *)
Inside == {t \in Markers : pc[t] \notin {"out", "join"}}
IdlePCs == {"idle", "count", "back", "endLock", "endCheck"}
Idlers == {t \in Markers : pc[t] \in IdlePCs}

(* The types without the bounds of the counters, which follow from what    *)
(* they count.                                                             *)
Typed ==
    /\ pc \in [Markers -> PCs]
    /\ local \in [Markers -> SUBSET Items]
    /\ claims \in [Markers -> SUBSET Items]
    /\ found \in [Markers -> Nat]
    /\ queue \in SUBSET Items
    /\ spin \in Markers \cup {Nobody}
    /\ active \in BOOLEAN
    /\ workers \in Nat /\ idle \in Nat /\ unit \in Nat /\ live \in Nat
    /\ now \in {0, 1}
    /\ flags \in [{0, 1} -> SUBSET Items]
    /\ heap \in Heaps

(* pmark_workers and pmark_idle count right.  Once the marking is over who *)
(* leaves is not taken off pmark_idle, which nobody looks at any more.     *)
CountsExact ==
    /\ workers = Cardinality(Inside)
    /\ idle >= Cardinality(Idlers)
    /\ idle <= Cardinality(Idlers \cup (Markers \ Inside))
    /\ active => idle = Cardinality(Idlers)
    /\ active => Collector \in Inside
    /\ pc[Collector] # "join"

(* Where a marker may have what.                                           *)
WorkPlaced ==
    \A t \in Markers :
        /\ claims[t] # {} => pc[t] \in {"claim", "roots"}
        /\ local[t] # {} => pc[t] \in {"drain", "claim", "roots", "share"}
        /\ found[t] # 0 => pc[t] \in {"drain", "claim", "roots", "share", "unit", "take", "publish"}

(* Nobody has work left or finds any in the units.                         *)
Finished ==
    /\ unit >= Units
    /\ \A t \in Markers :
        /\ local[t] = {} /\ claims[t] = {} /\ found[t] = 0
        /\ pc[t] \in {"out", "join", "drain", "take", "publish", "goIdle"} \cup IdlePCs

(* Who looks whether the marking is over saw the units claimed; while one  *)
(* of them has the lock and after the marking nobody works.                *)
EndSound ==
    /\ \A t \in Markers : pc[t] \in {"count", "endLock", "endCheck"} => unit >= Units
    /\ \A t \in Markers : pc[t] = "endCheck" <=> spin = t
    /\ spin # Nobody => active /\ Finished
    /\ ~active => queue = {} /\ (Inside # {} => Finished)

(* What is claimed or marked is led to by the roots, and what is not       *)
(* traced yet is in a stack or in the queue.                               *)
Claimed == UNION {claims[t] : t \in Markers}

MarkingSound ==
    /\ flags[0] \cap flags[1] = {}
    /\ marked \subseteq AsMarking!Reachable(heap)
    /\ Claimed \subseteq AsMarking!Reachable(heap)
    /\ \A i \in marked : \/ i \in queue \/ \E t \in Markers : i \in local[t]
                         \/ heap.edges[i] \subseteq marked \cup Claimed
    /\ \A u \in 1 .. Units : u <= unit => heap.roots[u] \subseteq marked \cup Claimed

(* Every item that is marked is in the queue or in one stack, was traced   *)
(* by one marker that counted it, or is counted in pmark_live.             *)
CountedOnce(done, counted) ==
    /\ \A t \in Markers : IsFiniteSet(done[t]) /\ Cardinality(done[t]) = found[t]
    /\ IsFiniteSet(counted) /\ Cardinality(counted) = live
    /\ \A t, u \in Markers : t # u => local[t] \cap local[u] = {} /\ done[t] \cap done[u] = {}
    /\ \A t, u \in Markers : local[t] \cap done[u] = {}
    /\ \A t \in Markers : /\ local[t] \cap queue = {} /\ local[t] \cap counted = {}
                          /\ done[t] \cap queue = {} /\ done[t] \cap counted = {}
    /\ queue \cap counted = {}
    /\ \A i \in Items : i \in marked <=>
          i \in queue \/ i \in counted \/ \E t \in Markers : i \in local[t] \/ i \in done[t]

LiveCounted == \E done \in [Markers -> SUBSET Items], counted \in SUBSET Items : CountedOnce(done, counted)

IInv ==
    /\ Typed
    /\ CountsExact
    /\ WorkPlaced
    /\ EndSound
    /\ MarkingSound
    /\ LiveCounted

-----------------------------------------------------------------------------
USE ParallelMarkAssumption DEF ParallelMarkAssumption

(* A heap's references and units are items.                                *)
LEMMA HeapTyped ==
    ASSUME heap \in Heaps
    PROVE  /\ heap.edges \in [Items -> SUBSET Items]
           /\ Units \in Nat
           /\ \A u \in 1 .. Units : heap.roots[u] \in SUBSET Items
<1>1. heap.edges \in [Items -> SUBSET Items] /\ heap.roots \in Seq(SUBSET Items)
  OBVIOUS
<1>. QED
  BY <1>1 DEF Units

(* The steps that move a marker between places that count alike.           *)
Works(t) ==
    \/ Trace(t) \/ Claim(t) \/ Traced(t) \/ Share(t) \/ Drained(t)
    \/ ClaimUnit(t) \/ UnitDone(t) \/ Take(t) \/ Publish(t)

Looks(t) == Look(t) \/ Count(t) \/ EndLock(t) \/ EndCheck(t)

(* Every step keeps the types, subtractions from the counters included.    *)
LEMMA TypedStep ==
    ASSUME Typed, CountsExact, [Next]_vars
    PROVE  Typed'
<1>. USE DEF Typed, PCs, Goto, mine, round, shared
<1>1. CASE Run
  <2>1. now' \in {0, 1} /\ flags' \in [{0, 1} -> SUBSET Items]
    BY <1>1 DEF Run
  <2>2. pc' \in [Markers -> PCs]
    BY <1>1 DEF Run
  <2>. QED
    BY <1>1, <2>1, <2>2 DEF Run
<1>2. ASSUME NEW t \in Markers, Help(t)
       PROVE  Typed'
  BY <1>2 DEF Help
<1>3. ASSUME NEW t \in Markers, Join(t)
       PROVE  Typed'
  <2>1. pc' \in [Markers -> PCs] /\ workers' \in Nat
    BY <1>3 DEF Join
  <2>. QED
    BY <1>3, <2>1 DEF Join
<1>4. ASSUME NEW t \in Markers, Trace(t)
       PROVE  Typed'
  BY <1>4, HeapTyped DEF Trace
<1>5. ASSUME NEW t \in Markers, Claim(t)
       PROVE  Typed'
  <2>1. /\ claims' \in [Markers -> SUBSET Items] /\ local' \in [Markers -> SUBSET Items]
        /\ flags' \in [{0, 1} -> SUBSET Items]
    BY <1>5 DEF Claim
  <2>. QED
    BY <1>5, <2>1 DEF Claim
<1>6. ASSUME NEW t \in Markers, Traced(t)
       PROVE  Typed'
  BY <1>6 DEF Traced
<1>7. ASSUME NEW t \in Markers, Share(t)
       PROVE  Typed'
  BY <1>7 DEF Share
<1>8. ASSUME NEW t \in Markers, Drained(t)
       PROVE  Typed'
  BY <1>8 DEF Drained
<1>9. ASSUME NEW t \in Markers, ClaimUnit(t)
       PROVE  Typed'
  <2>1. pc' \in [Markers -> PCs] /\ claims' \in [Markers -> SUBSET Items] /\ unit' \in Nat
    <3>1. CASE unit < Units /\ claims' = [claims EXCEPT ![t] = heap.roots[unit + 1]] /\ Goto(t, "roots")
      <4>1. unit + 1 \in 1 .. Units
        BY <3>1, HeapTyped
      <4>2. heap.roots[unit + 1] \in SUBSET Items
        BY <4>1, HeapTyped
      <4>3. claims' \in [Markers -> SUBSET Items]
        BY <3>1, <4>2
      <4>4. pc' \in [Markers -> PCs]
        BY <3>1
      <4>5. unit' \in Nat
        BY <1>9 DEF ClaimUnit
      <4>. QED
        BY <4>3, <4>4, <4>5
    <3>2. CASE claims' = claims /\ (Goto(t, "take") \/ Goto(t, "publish"))
      <4>1. pc' \in [Markers -> PCs]
        BY <3>2
      <4>2. unit' \in Nat
        BY <1>9 DEF ClaimUnit
      <4>. QED
        BY <3>2, <4>1, <4>2
    <3>. QED
      BY <1>9, <3>1, <3>2 DEF ClaimUnit
  <2>. QED
    BY <1>9, <2>1 DEF ClaimUnit
<1>10. ASSUME NEW t \in Markers, UnitDone(t)
       PROVE  Typed'
  BY <1>10 DEF UnitDone
<1>11. ASSUME NEW t \in Markers, Take(t)
       PROVE  Typed'
  <2>1. /\ pc' \in [Markers -> PCs] /\ local' \in [Markers -> SUBSET Items]
        /\ queue' \in SUBSET Items
    <3>1. CASE queue = {} /\ Goto(t, "publish") /\ UNCHANGED <<local, queue>>
      BY <3>1
    <3>2. ASSUME NEW took \in SUBSET queue, Goto(t, "drain"), queue' = queue \ took,
                 local' = [local EXCEPT ![t] = @ \cup took]
           PROVE  /\ pc' \in [Markers -> PCs] /\ local' \in [Markers -> SUBSET Items]
                  /\ queue' \in SUBSET Items
      BY <3>2
    <3>. QED
      BY <1>11, <3>1, <3>2 DEF Take
  <2>. QED
    BY <1>11, <2>1 DEF Take
<1>12. ASSUME NEW t \in Markers, Publish(t)
       PROVE  Typed'
  BY <1>12 DEF Publish
<1>13. ASSUME NEW t \in Markers, GoIdle(t)
       PROVE  Typed'
  BY <1>13 DEF GoIdle
<1>14. ASSUME NEW t \in Markers, Leave(t)
       PROVE  Typed'
  <2>1. t \in Inside /\ IsFiniteSet(Inside)
    BY <1>14, FS_Subset, FS_AddElement DEF Leave, Inside, Markers
  <2>2. workers # 0
    BY <2>1, FS_EmptySet DEF CountsExact
  <2>. QED
    BY <1>14, <2>2 DEF Leave
<1>15. ASSUME NEW t \in Markers, Looks(t)
       PROVE  Typed'
  BY <1>15 DEF Looks, Look, Count, EndLock, EndCheck
<1>16. ASSUME NEW t \in Markers, Back(t)
       PROVE  Typed'
  <2>1. t \in Idlers /\ IsFiniteSet(Idlers)
    BY <1>16, FS_Subset, FS_AddElement DEF Back, Idlers, IdlePCs, Markers
  <2>2. Cardinality(Idlers) \in Nat \ {0}
    BY <2>1, FS_EmptySet, FS_CardinalityType
  <2>3. idle # 0
    BY <2>2 DEF CountsExact
  <2>. QED
    BY <1>16, <2>3 DEF Back
<1>17. CASE UNCHANGED vars
  BY <1>17 DEF vars
<1>. QED
  BY <1>1, <1>2, <1>3, <1>4, <1>5, <1>6, <1>7, <1>8, <1>9, <1>10, <1>11, <1>12, <1>13, <1>14,
     <1>15, <1>16, <1>17 DEF Next, Drain, Looks

-----------------------------------------------------------------------------
(* The counters                                                            *)

(* There are finitely many markers, of whom the collector is one.          *)
LEMMA FiniteMarkers ==
    /\ Collector \in Markers
    /\ \A s \in SUBSET Markers : IsFiniteSet(s) /\ Cardinality(s) \in Nat
<1>1. IsFiniteSet(Markers)
  BY FS_AddElement DEF Markers
<1>. QED
  BY <1>1, FS_Subset, FS_CardinalityType DEF Markers

(* A set with a marker more                                                *)
LEMMA OneMore ==
    ASSUME NEW s \in SUBSET Markers, NEW t \in Markers, t \notin s
    PROVE  Cardinality(s \cup {t}) = Cardinality(s) + 1
  BY FiniteMarkers, FS_AddElement

(* ... and with one less                                                   *)
LEMMA OneLess ==
    ASSUME NEW s \in SUBSET Markers, NEW t \in s
    PROVE  Cardinality(s \ {t}) = Cardinality(s) - 1
  BY FiniteMarkers, FS_RemoveElement

(* The sets that the counters count are finite.                            *)
LEMMA SetsTyped ==
    /\ Inside \in SUBSET Markers /\ Idlers \in SUBSET Markers
    /\ Idlers \cup (Markers \ Inside) \in SUBSET Markers
    /\ Cardinality(Inside) \in Nat /\ Cardinality(Idlers) \in Nat
    /\ Cardinality(Idlers \cup (Markers \ Inside)) \in Nat
<1>1. /\ Inside \in SUBSET Markers /\ Idlers \in SUBSET Markers
      /\ Idlers \cup (Markers \ Inside) \in SUBSET Markers
  BY DEF Inside, Idlers
<1>. QED
  BY <1>1, FiniteMarkers

(* The counters stay with the sets.                                        *)
LEMMA CountsKept ==
    ASSUME CountsExact, Inside' = Inside, Idlers' = Idlers, UNCHANGED <<workers, idle>>,
           active' => active, pc'[Collector] # "join"
    PROVE  CountsExact'
  BY DEF CountsExact

(* Every step changes a counter as it changes what that counts.            *)
LEMMA CountsStep ==
    ASSUME Typed, CountsExact, EndSound, [Next]_vars
    PROVE  CountsExact'
<1>. USE FiniteMarkers, SetsTyped DEF Typed, Goto
<1>. DEFINE spare == Idlers \cup (Markers \ Inside)
<1>1. CASE Run
  <2>1. Inside = {}
    BY <1>1, FS_EmptySet DEF Run, CountsExact
  <2>2. Inside' = {Collector} /\ Idlers' = {}
    <3>1. \A t \in Markers : pc[t] \in {"out", "join"}
      BY <2>1 DEF Inside
    <3>2. \A t \in Markers : pc'[t] = IF t = Collector THEN "drain" ELSE pc[t]
      BY <1>1 DEF Run
    <3>. QED
      BY <3>1, <3>2 DEF Inside, Idlers, IdlePCs
  <2>3. Cardinality(Inside') = 1 /\ Cardinality(Idlers') = 0
    BY <2>2, FS_EmptySet, FS_Singleton
  <2>4. spare' \in SUBSET Markers
    BY DEF Inside, Idlers
  <2>5. Cardinality(spare') \in Nat
    BY <2>4
  <2>6. workers' = 1 /\ idle' = 0 /\ pc'[Collector] = "drain"
    BY <1>1 DEF Run
  <2>. QED
    BY <2>2, <2>3, <2>5, <2>6 DEF CountsExact
<1>2. ASSUME NEW t \in Markers, Help(t)
       PROVE  CountsExact'
  <2>1. Inside' = Inside /\ Idlers' = Idlers
    BY <1>2 DEF Help, Inside, Idlers, IdlePCs
  <2>2. pc'[Collector] # "join" /\ UNCHANGED shared
    BY <1>2 DEF Help, CountsExact
  <2>. QED
    BY <2>1, <2>2, CountsKept DEF shared
<1>3. ASSUME NEW t \in Markers, Join(t), ~active
       PROVE  CountsExact'
  <2>1. Inside' = Inside /\ Idlers' = Idlers
    BY <1>3 DEF Join, Inside, Idlers, IdlePCs
  <2>2. pc'[Collector] # "join" /\ UNCHANGED <<workers, idle, active>>
    BY <1>3 DEF Join, CountsExact
  <2>. QED
    BY <2>1, <2>2, CountsKept
<1>4. ASSUME NEW t \in Markers, Join(t), active
       PROVE  CountsExact'
  <2>1. Inside' = Inside \cup {t} /\ t \notin Inside /\ Idlers' = Idlers
    BY <1>4 DEF Join, Inside, Idlers, IdlePCs
  <2>2. Cardinality(Inside') = Cardinality(Inside) + 1
    BY <2>1, OneMore
  <2>3. spare' \in SUBSET Markers /\ Idlers' \in SUBSET spare'
    BY DEF Inside, Idlers
  <2>4. Cardinality(Idlers') <= Cardinality(spare')
    BY <2>3, FS_Subset
  <2>5. /\ workers' = workers + 1 /\ UNCHANGED <<idle, active>>
        /\ pc'[Collector] # "join"
    BY <1>4 DEF Join, CountsExact
  <2>. QED
    BY <1>4, <2>1, <2>2, <2>4, <2>5 DEF CountsExact
<1>5. ASSUME NEW t \in Markers, Works(t)
       PROVE  CountsExact'
  <2>1. \/ UNCHANGED pc
        \/ /\ pc[t] \notin {"out", "join"} \cup IdlePCs
           /\ \E l \in {"claim", "share", "drain", "unit", "roots", "take", "publish", "goIdle"} :
                 pc' = [pc EXCEPT ![t] = l]
    BY <1>5 DEF Works, Trace, Claim, Traced, Share, Drained, ClaimUnit, UnitDone, Take, Publish, IdlePCs
  <2>2. Inside' = Inside /\ Idlers' = Idlers /\ pc'[Collector] # "join"
    BY <2>1 DEF Inside, Idlers, IdlePCs, CountsExact
  <2>3. UNCHANGED <<workers, idle, active>>
    BY <1>5 DEF Works, Trace, Claim, Traced, Share, Drained, ClaimUnit, UnitDone, Take, Publish, shared
  <2>. QED
    BY <2>2, <2>3, CountsKept
<1>6. ASSUME NEW t \in Markers, Looks(t)
       PROVE  CountsExact'
  <2>1. /\ pc[t] \in IdlePCs
        /\ \E l \in IdlePCs : pc' = [pc EXCEPT ![t] = l]
    BY <1>6 DEF Looks, Look, Count, EndLock, EndCheck, IdlePCs
  <2>2. Inside' = Inside /\ Idlers' = Idlers /\ pc'[Collector] # "join"
    BY <2>1 DEF Inside, Idlers, IdlePCs, CountsExact
  <2>3. UNCHANGED <<workers, idle>> /\ (active' => active)
    BY <1>6 DEF EndSound, Looks, Look, Count, EndLock, EndCheck, shared
  <2>. QED
    BY <2>2, <2>3, CountsKept
<1>7. ASSUME NEW t \in Markers, GoIdle(t)
       PROVE  CountsExact'
  <2>1. Inside' = Inside /\ Idlers' = Idlers \cup {t} /\ t \in Inside \ Idlers
    BY <1>7 DEF GoIdle, Inside, Idlers, IdlePCs
  <2>2. spare' = spare \cup {t} /\ t \notin spare /\ spare \in SUBSET Markers
    BY <2>1
  <2>3. Cardinality(Idlers') = Cardinality(Idlers) + 1 /\ Cardinality(spare') = Cardinality(spare) + 1
    BY <2>1, <2>2, OneMore
  <2>4. idle' = idle + 1 /\ UNCHANGED <<workers, active>> /\ pc'[Collector] # "join"
    BY <1>7 DEF GoIdle, CountsExact
  <2>. QED
    BY <2>1, <2>3, <2>4 DEF CountsExact
<1>8. ASSUME NEW t \in Markers, Back(t)
       PROVE  CountsExact'
  <2>1. Inside' = Inside /\ Idlers' = Idlers \ {t} /\ t \in Inside \cap Idlers
    BY <1>8 DEF Back, Inside, Idlers, IdlePCs
  <2>2. spare' = spare \ {t} /\ t \in spare /\ spare \in SUBSET Markers
    BY <2>1
  <2>3. Cardinality(Idlers') = Cardinality(Idlers) - 1 /\ Cardinality(spare') = Cardinality(spare) - 1
    BY <2>1, <2>2, OneLess
  <2>4. idle' = idle - 1 /\ UNCHANGED <<workers, active>> /\ pc'[Collector] # "join"
    BY <1>8 DEF Back, CountsExact
  <2>. QED
    BY <2>1, <2>3, <2>4 DEF CountsExact
<1>9. ASSUME NEW t \in Markers, Leave(t)
       PROVE  CountsExact'
  <2>1. Inside' = Inside \ {t} /\ Idlers' = Idlers \ {t} /\ t \in Inside \cap Idlers
    BY <1>9 DEF Leave, Inside, Idlers, IdlePCs
  <2>2. spare' = spare
    BY <2>1
  <2>3. Cardinality(Idlers') = Cardinality(Idlers) - 1 /\ Cardinality(Inside') = Cardinality(Inside) - 1
    BY <2>1, OneLess
  <2>4. ~active' /\ workers' = workers - 1 /\ idle' = idle /\ pc'[Collector] # "join"
    BY <1>9 DEF Leave, CountsExact
  <2>5. Cardinality(Idlers') \in Nat /\ Cardinality(spare') = Cardinality(spare)
    BY <2>1, <2>2
  <2>6. idle' >= Cardinality(Idlers') /\ idle' <= Cardinality(spare')
    BY <2>3, <2>4, <2>5 DEF CountsExact
  <2>7. workers' = Cardinality(Inside')
    BY <2>3, <2>4 DEF CountsExact
  <2>. QED
    BY <2>4, <2>6, <2>7 DEF CountsExact
<1>10. CASE UNCHANGED vars
  <2>1. Inside' = Inside /\ Idlers' = Idlers
    BY <1>10 DEF vars, Inside, Idlers
  <2>. QED
    BY <1>10, <2>1, CountsKept DEF vars, shared, CountsExact
<1>. QED
  BY <1>1, <1>2, <1>3, <1>4, <1>5, <1>6, <1>7, <1>8, <1>9, <1>10 DEF Next, Drain, Works, Looks

-----------------------------------------------------------------------------
(* The end of the marking                                                  *)

(* A round begins when all markers of the last one have left.              *)
LEMMA NobodyInside ==
    ASSUME Typed, CountsExact, Run
    PROVE  /\ Inside = {} /\ ~active
           /\ \A t \in Markers : pc[t] \in {"out", "join"}
           /\ \A t \in Markers : pc'[t] = IF t = Collector THEN "drain" ELSE pc[t]
<1>1. Inside = {}
  BY FiniteMarkers, SetsTyped, FS_EmptySet DEF Run, CountsExact
<1>2. ~active
  BY <1>1 DEF CountsExact
<1>3. \A t \in Markers : pc[t] \in {"out", "join"}
  BY <1>1 DEF Inside
<1>4. \A t \in Markers : pc'[t] = IF t = Collector THEN "drain" ELSE pc[t]
  BY DEF Run, Typed, Goto
<1>. QED
  BY <1>1, <1>2, <1>3, <1>4

(* Work moves with its marker.                                             *)
LEMMA WorkPlacedStep ==
    ASSUME Typed, CountsExact, WorkPlaced, [Next]_vars
    PROVE  WorkPlaced'
<1>. USE DEF Typed, Goto, WorkPlaced, mine
<1>1. CASE Run
  BY <1>1, NobodyInside DEF Run
<1>2. ASSUME NEW t \in Markers, Help(t) \/ Join(t)
       PROVE  WorkPlaced'
  BY <1>2 DEF Help, Join
<1>3. ASSUME NEW t \in Markers, Trace(t)
       PROVE  WorkPlaced'
  BY <1>3 DEF Trace
<1>4. ASSUME NEW t \in Markers, Claim(t)
       PROVE  WorkPlaced'
  BY <1>4 DEF Claim
<1>5. ASSUME NEW t \in Markers, Traced(t) \/ UnitDone(t)
       PROVE  WorkPlaced'
  BY <1>5 DEF Traced, UnitDone
<1>6. ASSUME NEW t \in Markers, Share(t)
       PROVE  WorkPlaced'
  BY <1>6 DEF Share
<1>7. ASSUME NEW t \in Markers, Drained(t)
       PROVE  WorkPlaced'
  BY <1>7 DEF Drained
<1>8. ASSUME NEW t \in Markers, ClaimUnit(t)
       PROVE  WorkPlaced'
  BY <1>8 DEF ClaimUnit
<1>9. ASSUME NEW t \in Markers, Take(t)
       PROVE  WorkPlaced'
  BY <1>9 DEF Take
<1>10. ASSUME NEW t \in Markers, Publish(t)
       PROVE  WorkPlaced'
  BY <1>10 DEF Publish
<1>11. ASSUME NEW t \in Markers, GoIdle(t) \/ Leave(t) \/ Looks(t) \/ Back(t)
       PROVE  WorkPlaced'
  BY <1>11 DEF GoIdle, Leave, Looks, Look, Count, EndLock, EndCheck, Back
<1>12. CASE UNCHANGED vars
  BY <1>12 DEF vars
<1>. QED
  BY <1>1, <1>2, <1>3, <1>4, <1>5, <1>6, <1>7, <1>8, <1>9, <1>10, <1>11, <1>12 DEF Next, Drain, Looks

(* Who has no work left finds none, but in the queue.                      *)
LEMMA FinishedKept ==
    ASSUME Typed, Finished, NEW t \in Markers, Help(t) \/ Drain(t), Take(t) => queue = {}
    PROVE  Finished' /\ queue' = queue
<1>. USE DEF Typed, Finished, Goto, mine, shared, round, Units, IdlePCs
<1>1. CASE Help(t) \/ Join(t)
  BY <1>1 DEF Help, Join
<1>2. CASE Trace(t) \/ Claim(t) \/ Traced(t) \/ Share(t) \/ ClaimUnit(t) \/ UnitDone(t)
  BY <1>2 DEF Trace, Claim, Traced, Share, ClaimUnit, UnitDone
<1>3. CASE Drained(t)
  BY <1>3 DEF Drained
<1>4. CASE Take(t)
  BY <1>4 DEF Take
<1>5. CASE Publish(t)
  BY <1>5 DEF Publish
<1>6. CASE GoIdle(t) \/ Leave(t) \/ Back(t)
  BY <1>6 DEF GoIdle, Leave, Back
<1>7. CASE Look(t)
  BY <1>7 DEF Look
<1>8. CASE Count(t)
  BY <1>8 DEF Count
<1>9. CASE EndLock(t)
  BY <1>9 DEF EndLock
<1>10. CASE EndCheck(t)
  BY <1>10 DEF EndCheck
<1>. QED
  BY <1>1, <1>2, <1>3, <1>4, <1>5, <1>6, <1>7, <1>8, <1>9, <1>10 DEF Drain

(* All count as idle: nobody has work.                                     *)
LEMMA AllIdle ==
    ASSUME Typed, CountsExact, WorkPlaced, active, idle = workers, unit >= Units
    PROVE  Finished
<1>1. Idlers \subseteq Inside
  BY DEF Idlers, IdlePCs, Inside
<1>2. IsFiniteSet(Inside) /\ Cardinality(Idlers) = Cardinality(Inside)
  BY FiniteMarkers, SetsTyped DEF CountsExact
<1>3. Idlers = Inside
  BY <1>1, <1>2, FS_Subset
<1>4. \A t \in Markers : pc[t] \in {"out", "join"} \cup IdlePCs
  BY <1>3 DEF Idlers, Inside
<1>5. \A t \in Markers : local[t] = {} /\ claims[t] = {} /\ found[t] = 0
  BY <1>4 DEF WorkPlaced, IdlePCs
<1>. QED
  BY <1>4, <1>5 DEF Finished

(* Who ends the marking is right to, and nobody works after.               *)
LEMMA EndSoundStep ==
    ASSUME Typed, CountsExact, WorkPlaced, EndSound, [Next]_vars
    PROVE  EndSound'
<1>1. CASE Run
  <2>1. \A t \in Markers : pc'[t] \in {"out", "join", "drain"}
    BY <1>1, NobodyInside
  <2>2. active' /\ spin' = spin /\ spin = Nobody
    BY <1>1, NobodyInside DEF EndSound, Run, shared
  <2>. QED
    BY <2>1, <2>2, ParallelMarkAssumption DEF EndSound
<1>2. ASSUME NEW t \in Markers, Help(t) \/ Drain(t)
       PROVE  EndSound'
  <2>1. \A u \in Markers : pc'[u] \in {"count", "endLock", "endCheck"} => (unit >= Units)'
    BY <1>2 DEF EndSound, Typed, Help, Drain, Join, Trace, Claim, Traced, Share, Drained, ClaimUnit,
       UnitDone, Take, Publish, GoIdle, Leave, Look, Count, Back, EndLock, EndCheck, Goto, Units, round
  <2>2. \A u \in Markers : pc'[u] = "endCheck" <=> spin' = u
    BY <1>2 DEF EndSound, Typed, Help, Drain, Join, Trace, Claim, Traced, Share, Drained, ClaimUnit,
       UnitDone, Take, Publish, GoIdle, Leave, Look, Count, Back, EndLock, EndCheck, Goto, shared
  <2>3. (spin' # Nobody => active' /\ Finished') /\ (~active' => queue' = {} /\ (Inside' # {} => Finished'))
    <3>1. ~EndCheck(t) => active' = active
      BY <1>2 DEF Help, Drain, Join, Trace, Claim, Traced, Share, Drained, ClaimUnit, UnitDone,
         Take, Publish, GoIdle, Leave, Look, Count, Back, EndLock, EndCheck, shared
    <3>2. ~EndCheck(t) /\ ~EndLock(t) => spin' = spin
      BY <1>2 DEF Help, Drain, Join, Trace, Claim, Traced, Share, Drained, ClaimUnit, UnitDone,
         Take, Publish, GoIdle, Leave, Look, Count, Back, EndLock, EndCheck, shared
    <3>3. CASE EndCheck(t)
      <4>1. active /\ Finished
        BY <3>3, ParallelMarkAssumption DEF EndCheck, EndSound
      <4>2. Finished' /\ queue' = queue
        BY <1>2, <3>3, <4>1, FinishedKept DEF EndCheck, Take
      <4>. QED
        BY <3>3, <4>2 DEF EndCheck
    <3>4. CASE EndLock(t) /\ spin' # Nobody
      <4>1. active /\ idle = workers /\ unit >= Units
        BY <3>4, ParallelMarkAssumption DEF EndLock, EndSound
      <4>2. Finished
        BY <4>1, AllIdle
      <4>3. Finished'
        BY <1>2, <3>4, <4>2, FinishedKept DEF EndLock, Take
      <4>. QED
        BY <3>4, <4>1, <4>3 DEF EndLock
    <3>5. CASE ~EndCheck(t) /\ (EndLock(t) => spin' = Nobody) /\ active
      <4>1. spin' # Nobody => Finished'
        BY <1>2, <3>2, <3>5, FinishedKept DEF EndSound, Take
      <4>. QED
        BY <3>1, <3>5, <4>1 DEF EndSound
    <3>6. CASE ~EndCheck(t) /\ (EndLock(t) => spin' = Nobody) /\ ~active
      <4>1. spin' = Nobody /\ queue = {}
        BY <3>2, <3>6 DEF EndSound
      <4>2. queue' = queue
        <5>1. CASE Inside # {}
          BY <1>2, <3>6, <4>1, <5>1, FinishedKept DEF EndSound
        <5>2. CASE Inside = {}
          <6>1. pc[t] \in {"out", "join"}
            BY <5>2 DEF Inside
          <6>2. Help(t) \/ Join(t)
            BY <1>2, <6>1 DEF Drain, Trace, Claim, Traced, Share, Drained, ClaimUnit, UnitDone,
               Take, Publish, GoIdle, Leave, Look, Count, Back, EndLock, EndCheck
          <6>. QED
            BY <6>2 DEF Help, Join, shared
        <5>. QED
          BY <5>1, <5>2
      <4>3. Inside' # {} => Inside # {}
        <5>1. CASE pc[t] \in {"out", "join"}
          <6>1. Help(t) \/ Join(t)
            BY <1>2, <5>1 DEF Drain, Trace, Claim, Traced, Share, Drained, ClaimUnit, UnitDone,
               Take, Publish, GoIdle, Leave, Look, Count, Back, EndLock, EndCheck
          <6>. QED
            BY <3>6, <6>1 DEF Help, Join, Inside, Typed, Goto
        <5>. QED
          BY <5>1 DEF Inside
      <4>. QED
        BY <1>2, <3>1, <3>6, <4>1, <4>2, <4>3, FinishedKept DEF EndSound
    <3>. QED
      BY <3>3, <3>4, <3>5, <3>6
  <2>. QED
    BY <2>1, <2>2, <2>3 DEF EndSound
<1>3. CASE UNCHANGED vars
  BY <1>3 DEF vars, mine, round, shared, EndSound, Finished, Inside, Units
<1>. QED
  BY <1>1, <1>2, <1>3 DEF Next

-----------------------------------------------------------------------------
(* What the marks say                                                      *)

(* What the roots lead to is the least set with the roots in it that is    *)
(* closed under references.                                                *)
LEMMA LeadTo ==
    ASSUME heap \in Heaps
    PROVE  LET R == AsMarking!Reachable(heap)
           IN  /\ R \subseteq Items
               /\ \A u \in 1 .. Units : heap.roots[u] \subseteq R
               /\ \A i \in R : heap.edges[i] \subseteq R
               /\ \A s \in SUBSET Items :
                    /\ \A u \in 1 .. Units : heap.roots[u] \subseteq s
                    /\ \A i \in s : heap.edges[i] \subseteq s
                    => R \subseteq s
<1>. DEFINE R == AsMarking!Reachable(heap)
<1>1. heap.roots \in Seq(SUBSET Items)
  BY DEF ParallelMarkAssumption
<1>2. DOMAIN heap.roots = 1 .. Units
  BY <1>1 DEF Units
<1>3. R \subseteq Items
  BY DEF AsMarking!Reachable
<1>4. ASSUME NEW u \in 1 .. Units
       PROVE  heap.roots[u] \subseteq R
  BY <1>2, HeapTyped DEF AsMarking!Reachable
<1>5. ASSUME NEW i \in R
       PROVE  heap.edges[i] \subseteq R
  BY <1>3, HeapTyped DEF AsMarking!Reachable
<1>6. ASSUME NEW s \in SUBSET Items,
             \A u \in 1 .. Units : heap.roots[u] \subseteq s,
             \A i \in s : heap.edges[i] \subseteq s
       PROVE  R \subseteq s
  BY <1>2, <1>6 DEF AsMarking!Reachable
<1>. QED
  BY <1>3, <1>4, <1>5, <1>6

(* What is in a stack or in the queue is marked.                           *)
LEMMA WorkMarked ==
    ASSUME Typed, LiveCounted
    PROVE  queue \subseteq marked /\ \A t \in Markers : local[t] \subseteq marked
<1>1. PICK done \in [Markers -> SUBSET Items], counted \in SUBSET Items : CountedOnce(done, counted)
  BY DEF LiveCounted
<1>. QED
  BY <1>1 DEF CountedOnce, Typed

(* Work that moves is still somewhere, and so are claims.                  *)
LEMMA MarkingKept ==
    ASSUME Typed, MarkingSound, UNCHANGED <<flags, now, heap, unit>>, Claimed' = Claimed,
           \A i \in marked : (i \in queue \/ \E t \in Markers : i \in local[t])
                             => (i \in queue' \/ \E t \in Markers : i \in local'[t])
    PROVE  MarkingSound'
  BY DEF MarkingSound, Units, marked, AsMarking!Reachable

(* Every step keeps marks to what the roots lead to, and loses no work.    *)
LEMMA MarkingSoundStep ==
    ASSUME Typed, CountsExact, WorkPlaced, MarkingSound, LiveCounted, [Next]_vars
    PROVE  MarkingSound'
<1>. DEFINE R == AsMarking!Reachable(heap)
<1>1. CASE Run
  <2>1. Claimed' = {}
    BY <1>1, NobodyInside DEF Claimed, WorkPlaced, Run, mine
  <2>2. marked' = {} /\ (flags[0] \cap flags[1])' = {}
    BY <1>1 DEF Typed, Run, marked, MarkingSound
  <2>3. unit' = 0
    BY <1>1 DEF Run
  <2>. QED
    BY <2>1, <2>2, <2>3 DEF MarkingSound
<1>2. ASSUME NEW t \in Markers, Trace(t)
       PROVE  MarkingSound'
  <2>1. PICK i \in local[t] : /\ local' = [local EXCEPT ![t] = @ \ {i}]
                              /\ claims' = [claims EXCEPT ![t] = heap.edges[i]]
    BY <1>2 DEF Trace
  <2>2. i \in marked /\ i \in Items
    BY <2>1, WorkMarked DEF Typed
  <2>3. claims[t] = {}
    BY <1>2 DEF Trace, WorkPlaced
  <2>4. Claimed' = Claimed \cup heap.edges[i]
    BY <2>1, <2>3 DEF Claimed, Typed
  <2>5. heap.edges[i] \subseteq R
    BY <2>2, LeadTo DEF MarkingSound, Typed
  <2>6. UNCHANGED <<flags, now, heap, unit, queue>>
    BY <1>2 DEF Trace, round, shared
  <2>7. \A j \in Items \ {i} : (\E u \in Markers : j \in local[u]) => (\E u \in Markers : j \in local'[u])
    BY <2>1 DEF Typed
  <2>8. \A j \in marked : \/ j \in queue \/ \E u \in Markers : j \in local'[u]
                          \/ heap.edges[j] \subseteq marked \cup Claimed'
    BY <2>2, <2>4, <2>7 DEF MarkingSound, Typed, marked
  <2>. QED
    BY <2>4, <2>5, <2>6, <2>8 DEF MarkingSound, marked, Units, AsMarking!Reachable
<1>3. ASSUME NEW t \in Markers, Claim(t)
       PROVE  MarkingSound'
  <2>1. PICK i \in claims[t] :
           /\ claims' = [claims EXCEPT ![t] = @ \ {i}]
           /\ \/ i \in flags[now] /\ UNCHANGED <<local, flags>>
              \/ /\ i \notin flags[now]
                 /\ flags' = [m \in {0, 1} |-> IF m = now THEN flags[m] \cup {i} ELSE flags[m] \ {i}]
                 /\ local' = [local EXCEPT ![t] = @ \cup {i}]
    BY <1>3 DEF Claim
  <2>2. UNCHANGED <<now, heap, unit, queue>>
    BY <1>3 DEF Claim, round, shared
  <2>3. marked' = marked \cup {i}
    BY <2>1, <2>2 DEF marked, Typed
  <2>4. i \in Claimed /\ Claimed' \subseteq Claimed /\ Claimed \subseteq Claimed' \cup {i}
    BY <2>1 DEF Claimed, Typed
  <2>5. (flags[0] \cap flags[1])' = {}
    BY <2>1 DEF Typed, MarkingSound
  <2>6. i \notin marked => i \in local'[t]
    BY <2>1 DEF marked, Typed
  <2>7. \A u \in Markers : local[u] \subseteq local'[u]
    <3>1. local' = local \/ local' = [local EXCEPT ![t] = @ \cup {i}]
      BY <2>1
    <3>. QED
      BY <3>1 DEF Typed
  <2>8. marked \cup Claimed = marked' \cup Claimed'
    BY <2>3, <2>4
  <2>9. \A j \in marked' : \/ j \in queue \/ \E u \in Markers : j \in local'[u]
                           \/ heap.edges[j] \subseteq marked' \cup Claimed'
    BY <2>3, <2>6, <2>7, <2>8 DEF MarkingSound
  <2>10. marked' \subseteq R /\ Claimed' \subseteq R
    BY <2>3, <2>4 DEF MarkingSound
  <2>. QED
    BY <2>2, <2>5, <2>8, <2>9, <2>10 DEF MarkingSound, Units, AsMarking!Reachable
<1>4. ASSUME NEW t \in Markers, Share(t)
       PROVE  MarkingSound'
  <2>1. PICK half \in SUBSET local[t] : /\ queue' = queue \cup half
                                        /\ local' = [local EXCEPT ![t] = @ \ half]
    BY <1>4 DEF Share
  <2>2. \A i \in marked : (i \in queue \/ \E u \in Markers : i \in local[u])
                          => (i \in queue' \/ \E u \in Markers : i \in local'[u])
    BY <2>1 DEF Typed
  <2>. QED
    BY <1>4, <2>2, MarkingKept DEF Share, round, Claimed
<1>5. ASSUME NEW t \in Markers, Take(t)
       PROVE  MarkingSound'
  <2>1. \/ UNCHANGED <<local, queue>>
        \/ \E took \in SUBSET queue : /\ queue' = queue \ took
                                      /\ local' = [local EXCEPT ![t] = @ \cup took]
    BY <1>5 DEF Take
  <2>2. \A i \in marked : (i \in queue \/ \E u \in Markers : i \in local[u])
                          => (i \in queue' \/ \E u \in Markers : i \in local'[u])
    BY <2>1 DEF Typed
  <2>. QED
    BY <1>5, <2>2, MarkingKept DEF Take, round, Claimed
<1>6. ASSUME NEW t \in Markers, ClaimUnit(t)
       PROVE  MarkingSound'
  <2>1. UNCHANGED <<local, flags, now, heap, queue>> /\ unit' = unit + 1
    BY <1>6 DEF ClaimUnit, shared
  <2>2. CASE unit >= Units /\ claims' = claims
    <3>1. \A u \in 1 .. Units : u <= unit
      BY <2>2, HeapTyped DEF Typed
    <3>. QED
      BY <2>1, <2>2, <3>1 DEF MarkingSound, marked, Units, AsMarking!Reachable, Claimed
  <2>3. CASE unit < Units /\ claims' = [claims EXCEPT ![t] = heap.roots[unit + 1]]
    <3>1. unit + 1 \in 1 .. Units
      BY <2>3, HeapTyped DEF Typed
    <3>2. claims[t] = {}
      BY <1>6 DEF ClaimUnit, WorkPlaced
    <3>3. Claimed' = Claimed \cup heap.roots[unit + 1]
      BY <2>3, <3>2 DEF Claimed, Typed
    <3>4. heap.roots[unit + 1] \subseteq R
      BY <3>1, LeadTo DEF Typed
    <3>5. \A u \in 1 .. Units : u <= unit + 1 => u <= unit \/ u = unit + 1
      BY HeapTyped DEF Typed
    <3>6. \A u \in 1 .. Units : u <= unit + 1 => heap.roots[u] \subseteq marked \cup Claimed'
      BY <3>3, <3>5 DEF MarkingSound
    <3>. QED
      BY <2>1, <3>3, <3>4, <3>6 DEF MarkingSound, marked, Units, AsMarking!Reachable
  <2>. QED
    BY <1>6, <2>2, <2>3, HeapTyped DEF ClaimUnit, Typed
<1>7. ASSUME NEW t \in Markers,
             \/ Help(t) \/ Join(t) \/ Traced(t) \/ Drained(t) \/ UnitDone(t) \/ Publish(t)
             \/ GoIdle(t) \/ Leave(t) \/ Looks(t) \/ Back(t)
       PROVE  MarkingSound'
  <2>1. UNCHANGED <<flags, now, heap, unit, local, queue, claims>>
    BY <1>7 DEF Help, Join, Traced, Drained, UnitDone, Publish, GoIdle, Leave, Looks, Look, Count,
       EndLock, EndCheck, Back, mine, round, shared
  <2>. QED
    BY <2>1, MarkingKept DEF Claimed
<1>8. CASE UNCHANGED vars
  BY <1>8, MarkingKept DEF vars, mine, round, shared, Claimed
<1>. QED
  BY <1>1, <1>2, <1>3, <1>4, <1>5, <1>6, <1>7, <1>8 DEF Next, Drain, Looks

-----------------------------------------------------------------------------
(* What is counted                                                         *)

(* Every step counts each marked item once.                                *)
LEMMA LiveCountedStep ==
    ASSUME Typed, CountsExact, WorkPlaced, EndSound, MarkingSound, LiveCounted, [Next]_vars
    PROVE  LiveCounted'
<1>. PICK done \in [Markers -> SUBSET Items], counted \in SUBSET Items : CountedOnce(done, counted)
  BY DEF LiveCounted
<1>a. /\ \A t, u \in Markers : t # u => local[t] \cap local[u] = {} /\ done[t] \cap done[u] = {}
      /\ \A t, u \in Markers : local[t] \cap done[u] = {}
  BY DEF CountedOnce
<1>b. \A t \in Markers : /\ local[t] \cap queue = {} /\ local[t] \cap counted = {}
                         /\ done[t] \cap queue = {} /\ done[t] \cap counted = {}
  BY DEF CountedOnce
<1>1. CASE Run
  <2>. DEFINE none == [t \in Markers |-> {}]
  <2>1. /\ queue' = {} /\ live' = 0 /\ marked' = {}
        /\ \A t \in Markers : local'[t] = {} /\ found'[t] = 0
    <3>1. queue' = {} /\ live' = 0
      BY <1>1, NobodyInside DEF EndSound, Run
    <3>2. marked' = {}
      BY <1>1 DEF Typed, MarkingSound, Run, marked
    <3>3. \A t \in Markers : local'[t] = {} /\ found'[t] = 0
      BY <1>1, NobodyInside DEF WorkPlaced, Run, mine
    <3>. QED
      BY <3>1, <3>2, <3>3
  <2>2. CountedOnce(none, {})'
    BY <2>1, FS_EmptySet DEF CountedOnce
  <2>3. none \in [Markers -> SUBSET Items]
    OBVIOUS
  <2>. QED
    BY <2>2, <2>3 DEF LiveCounted
<1>2. ASSUME NEW t \in Markers, Trace(t)
       PROVE  LiveCounted'
  <2>1. PICK i \in local[t] : local' = [local EXCEPT ![t] = @ \ {i}]
    BY <1>2 DEF Trace
  <2>2. /\ found' = [found EXCEPT ![t] = @ + 1]
        /\ UNCHANGED <<queue, live, flags, now>>
    BY <1>2 DEF Trace, round, shared
  <2>. DEFINE more == [done EXCEPT ![t] = @ \cup {i}]
  <2>3. more \in [Markers -> SUBSET Items]
    BY <2>1 DEF Typed
  <2>4. i \notin done[t] /\ IsFiniteSet(done[t]) /\ Cardinality(done[t]) = found[t]
    BY <2>1 DEF CountedOnce
  <2>5. IsFiniteSet(more[t]) /\ Cardinality(more[t]) = found[t] + 1
    BY <2>4, FS_AddElement
  <2>6. \A u \in Markers : IsFiniteSet(more[u]) /\ Cardinality(more[u]) = found'[u]
    BY <2>2, <2>5 DEF CountedOnce, Typed
  <2>7. \A u \in Markers : /\ local'[u] = IF u = t THEN local[u] \ {i} ELSE local[u]
                           /\ more[u] = IF u = t THEN done[u] \cup {i} ELSE done[u]
    BY <2>1 DEF Typed
  <2>8. \A u, v \in Markers : u # v => local'[u] \cap local'[v] = {} /\ more[u] \cap more[v] = {}
    BY <1>a, <2>1, <2>7
  <2>9. \A u, v \in Markers : local'[u] \cap more[v] = {}
    <3>1. ASSUME NEW u \in Markers
           PROVE  local'[u] \subseteq local[u] \ {i}
      <4>1. u # t => i \notin local[u]
        BY <1>a, <2>1
      <4>. QED
        BY <2>7, <4>1
    <3>2. \A v \in Markers : more[v] \subseteq done[v] \cup {i}
      BY <2>7
    <3>3. ASSUME NEW u \in Markers, NEW v \in Markers
           PROVE  (local[u] \ {i}) \cap (done[v] \cup {i}) = {}
      BY <1>a
    <3>. QED
      BY <3>1, <3>2, <3>3
  <2>10. \A u \in Markers : /\ local'[u] \cap queue = {} /\ local'[u] \cap counted = {}
                            /\ more[u] \cap queue = {} /\ more[u] \cap counted = {}
    BY <2>1, <2>7 DEF CountedOnce
  <2>11. \A j \in Items : (\E u \in Markers : j \in local[u] \/ j \in done[u])
                          <=> (\E u \in Markers : j \in local'[u] \/ j \in more[u])
    BY <2>1, <2>7
  <2>12. CountedOnce(more, counted)'
    BY <2>2, <2>6, <2>8, <2>9, <2>10, <2>11 DEF CountedOnce, marked
  <2>. QED
    BY <2>3, <2>12 DEF LiveCounted
<1>3. ASSUME NEW t \in Markers, Claim(t)
       PROVE  LiveCounted'
  <2>1. PICK i \in claims[t] :
           \/ i \in flags[now] /\ UNCHANGED <<local, flags>>
           \/ /\ i \notin flags[now]
              /\ flags' = [m \in {0, 1} |-> IF m = now THEN flags[m] \cup {i} ELSE flags[m] \ {i}]
              /\ local' = [local EXCEPT ![t] = @ \cup {i}]
    BY <1>3 DEF Claim
  <2>2. UNCHANGED <<queue, live, now, found>>
    BY <1>3 DEF Claim, round, shared
  <2>3. CASE UNCHANGED <<local, flags>>
    BY <2>2, <2>3 DEF LiveCounted, CountedOnce, marked
  <2>4. CASE /\ i \notin marked
             /\ marked' = marked \cup {i}
             /\ local' = [local EXCEPT ![t] = @ \cup {i}]
    <3>1. i \in Items
      BY DEF Typed
    <3>2. /\ i \notin queue /\ i \notin counted
          /\ \A u \in Markers : i \notin local[u] /\ i \notin done[u]
      BY <2>4, <3>1 DEF CountedOnce
    <3>3. \A u \in Markers : local'[u] = IF u = t THEN local[u] \cup {i} ELSE local[u]
      BY <2>4 DEF Typed
    <3>4. \A u, v \in Markers : u # v => local'[u] \cap local'[v] = {}
      <4>1. ASSUME NEW u \in Markers, NEW v \in Markers, u # v, NEW j \in local'[u], j \in local'[v]
             PROVE  FALSE
        <5>1. local[u] \cap local[v] = {}
          BY <1>a, <4>1
        <5>2. CASE j = i
          <6>1. u = t /\ v = t
            BY <3>2, <3>3, <4>1, <5>2
          <6>. QED
            BY <4>1, <6>1
        <5>3. CASE j # i
          <6>1. j \in local[u] /\ j \in local[v]
            BY <3>3, <4>1, <5>3
          <6>. QED
            BY <5>1, <6>1
        <5>. QED
          BY <5>2, <5>3
      <4>. QED
        BY <4>1
    <3>5. \A u \in Markers : /\ local'[u] \cap queue = {} /\ local'[u] \cap counted = {}
                             /\ \A v \in Markers : local'[u] \cap done[v] = {}
      <4>1. ASSUME NEW u \in Markers
             PROVE  local'[u] \cap queue = {} /\ local'[u] \cap counted = {}
        <5>1. CASE u = t
          <6>1. local'[u] = local[u] \cup {i} /\ local[u] \cap queue = {} /\ local[u] \cap counted = {}
            BY <1>b, <3>3, <5>1
          <6>. QED
            BY <3>2, <6>1
        <5>2. CASE u # t
          BY <1>b, <3>3, <5>2
        <5>. QED
          BY <5>1, <5>2
      <4>2. ASSUME NEW u \in Markers, NEW v \in Markers
             PROVE  local'[u] \cap done[v] = {}
        <5>1. local[u] \cap done[v] = {} /\ i \notin done[v]
          BY <1>a, <3>2
        <5>2. local'[u] = local[u] \cup {i} \/ local'[u] = local[u]
          BY <3>3
        <5>. QED
          BY <5>1, <5>2
      <4>. QED
        BY <4>1, <4>2
    <3>6. \A j \in Items : (\E u \in Markers : j \in local'[u] \/ j \in done[u])
                           <=> j = i \/ \E u \in Markers : j \in local[u] \/ j \in done[u]
      BY <3>3
    <3>7. CountedOnce(done, counted)'
      BY <2>2, <2>4, <3>4, <3>5, <3>6 DEF CountedOnce
    <3>. QED
      BY <3>7 DEF LiveCounted
  <2>. QED
    BY <2>1, <2>2, <2>3, <2>4 DEF marked, Typed
<1>4. ASSUME NEW t \in Markers, Share(t)
       PROVE  LiveCounted'
  <2>1. PICK half \in SUBSET local[t] : /\ queue' = queue \cup half
                                        /\ local' = [local EXCEPT ![t] = @ \ half]
    BY <1>4 DEF Share
  <2>2. UNCHANGED <<live, flags, now, found>>
    BY <1>4 DEF Share, round
  <2>3. \A u \in Markers : local'[u] = IF u = t THEN local[u] \ half ELSE local[u]
    BY <2>1 DEF Typed
  <2>4. \A u, v \in Markers : u # v => local'[u] \cap local'[v] = {}
    BY <2>1, <2>3 DEF CountedOnce
  <2>5. \A u \in Markers : local'[u] \cap queue' = {} /\ done[u] \cap queue' = {}
    <3>1. \A u \in Markers : u # t => local[u] \cap half = {}
      BY <1>a, <2>1
    <3>2. \A u \in Markers : done[u] \cap half = {}
      BY <1>a, <2>1
    <3>. QED
      BY <1>b, <2>1, <2>3, <3>1, <3>2
  <2>6. \A u \in Markers : local'[u] \cap counted = {} /\ \A v \in Markers : local'[u] \cap done[v] = {}
    BY <2>1, <2>3 DEF CountedOnce
  <2>7. queue' \cap counted = {}
    BY <2>1 DEF CountedOnce
  <2>8. \A j \in Items : j \in queue \/ (\E u \in Markers : j \in local[u] \/ j \in done[u])
                         <=> j \in queue' \/ \E u \in Markers : j \in local'[u] \/ j \in done[u]
    BY <2>1, <2>3
  <2>9. CountedOnce(done, counted)'
    BY <2>2, <2>4, <2>5, <2>6, <2>7, <2>8 DEF CountedOnce, marked
  <2>. QED
    BY <2>9 DEF LiveCounted
<1>5. ASSUME NEW t \in Markers, Take(t)
       PROVE  LiveCounted'
  <2>1. UNCHANGED <<live, flags, now, found>>
    BY <1>5 DEF Take, round
  <2>2. CASE UNCHANGED <<local, queue>>
    BY <2>1, <2>2 DEF LiveCounted, CountedOnce, marked
  <2>3. ASSUME NEW took \in SUBSET queue, queue' = queue \ took,
               local' = [local EXCEPT ![t] = @ \cup took]
         PROVE  LiveCounted'
    <3>1. \A u \in Markers : local'[u] = IF u = t THEN local[u] \cup took ELSE local[u]
      BY <2>3 DEF Typed
    <3>2. \A u, v \in Markers : u # v => local'[u] \cap local'[v] = {}
      BY <3>1 DEF CountedOnce
    <3>3. \A u \in Markers : local'[u] \cap queue' = {} /\ done[u] \cap queue' = {}
      BY <2>3, <3>1 DEF CountedOnce
    <3>4. \A u \in Markers : local'[u] \cap counted = {} /\ \A v \in Markers : local'[u] \cap done[v] = {}
      BY <3>1 DEF CountedOnce
    <3>5. queue' \cap counted = {}
      BY <2>3 DEF CountedOnce
    <3>6. \A j \in Items : j \in queue \/ (\E u \in Markers : j \in local[u] \/ j \in done[u])
                           <=> j \in queue' \/ \E u \in Markers : j \in local'[u] \/ j \in done[u]
      <4>1. \A j \in Items : j \in queue <=> j \in queue' \/ j \in took
        BY <2>3
      <4>2. \A j \in Items : (\E u \in Markers : j \in local'[u])
                              <=> j \in took \/ \E u \in Markers : j \in local[u]
        BY <3>1
      <4>. QED
        BY <4>1, <4>2
    <3>7. CountedOnce(done, counted)'
      BY <2>1, <3>2, <3>3, <3>4, <3>5, <3>6 DEF CountedOnce, marked
    <3>. QED
      BY <3>7 DEF LiveCounted
  <2>. QED
    BY <1>5, <2>2, <2>3 DEF Take
<1>6. ASSUME NEW t \in Markers, Publish(t)
       PROVE  LiveCounted'
  <2>1. /\ live' = live + found[t] /\ found' = [found EXCEPT ![t] = 0]
        /\ UNCHANGED <<local, queue, flags, now>>
    BY <1>6 DEF Publish, shared
  <2>. DEFINE less == [done EXCEPT ![t] = {}]
              more == counted \cup done[t]
  <2>2. less \in [Markers -> SUBSET Items] /\ more \in SUBSET Items
    OBVIOUS
  <2>3. IsFiniteSet(counted) /\ IsFiniteSet(done[t]) /\ counted \cap done[t] = {}
    BY DEF CountedOnce
  <2>4. IsFiniteSet(more) /\ Cardinality(more) = Cardinality(counted) + Cardinality(done[t])
    <3>1. IsFiniteSet(more) /\ Cardinality(more) = Cardinality(counted) + Cardinality(done[t]) - 0
      BY <2>3, FS_Union, FS_EmptySet
    <3>2. Cardinality(counted) \in Nat /\ Cardinality(done[t]) \in Nat
      BY <2>3, FS_CardinalityType
    <3>. QED
      BY <3>1, <3>2
  <2>5. Cardinality(more) = live'
    BY <2>1, <2>4 DEF CountedOnce
  <2>6. \A u \in Markers : less[u] = IF u = t THEN {} ELSE done[u]
    OBVIOUS
  <2>7. \A u \in Markers : IsFiniteSet(less[u]) /\ Cardinality(less[u]) = found'[u]
    BY <2>1, <2>6, FS_EmptySet DEF CountedOnce, Typed
  <2>8. \A u, v \in Markers : /\ u # v => local[u] \cap local[v] = {} /\ less[u] \cap less[v] = {}
                              /\ local[u] \cap less[v] = {}
    BY <2>6 DEF CountedOnce
  <2>9. \A u \in Markers : /\ local[u] \cap queue = {} /\ local[u] \cap more = {}
                           /\ less[u] \cap queue = {} /\ less[u] \cap more = {}
    BY <2>6 DEF CountedOnce
  <2>10. queue \cap more = {}
    BY DEF CountedOnce
  <2>11. \A j \in Items : j \in counted \/ (\E u \in Markers : j \in local[u] \/ j \in done[u])
                          <=> j \in more \/ \E u \in Markers : j \in local[u] \/ j \in less[u]
    BY <2>6
  <2>12. CountedOnce(less, more)'
    BY <2>1, <2>4, <2>5, <2>7, <2>8, <2>9, <2>10, <2>11 DEF CountedOnce, marked
  <2>. QED
    BY <2>2, <2>12 DEF LiveCounted
<1>7. ASSUME NEW t \in Markers,
             \/ Help(t) \/ Join(t) \/ Traced(t) \/ Drained(t) \/ UnitDone(t) \/ ClaimUnit(t)
             \/ GoIdle(t) \/ Leave(t) \/ Looks(t) \/ Back(t)
       PROVE  LiveCounted'
  <2>1. UNCHANGED <<flags, now, live, found, local, queue>>
    BY <1>7 DEF Help, Join, Traced, Drained, UnitDone, ClaimUnit, GoIdle, Leave, Looks, Look, Count,
       EndLock, EndCheck, Back, mine, round, shared
  <2>. QED
    BY <2>1 DEF LiveCounted, CountedOnce, marked
<1>8. CASE UNCHANGED vars
  BY <1>8 DEF vars, mine, round, shared, LiveCounted, CountedOnce, marked
<1>. QED
  BY <1>1, <1>2, <1>3, <1>4, <1>5, <1>6, <1>7, <1>8 DEF Next, Drain, Looks

-----------------------------------------------------------------------------
(* The invariant, and what follows                                         *)

(* The invariant holds at first,                                           *)
LEMMA InitInv ==
    ASSUME Init
    PROVE  IInv
<1>. USE DEF Init
<1>1. Typed
  BY DEF Typed, PCs
<1>2. Inside = {} /\ Idlers = {} /\ pc[Collector] = "out"
  BY FiniteMarkers DEF Inside, Idlers, IdlePCs
<1>3. CountsExact
  BY <1>2, SetsTyped, FS_EmptySet DEF CountsExact
<1>4. WorkPlaced
  BY DEF WorkPlaced
<1>5. EndSound
  BY <1>2, ParallelMarkAssumption DEF EndSound
<1>6. MarkingSound
  <2>1. marked = {} /\ Claimed = {} /\ flags[0] \cap flags[1] = {}
    BY DEF marked, Claimed
  <2>. QED
    BY <2>1 DEF MarkingSound
<1>7. LiveCounted
  <2>. DEFINE none == [t \in Markers |-> {}]
  <2>1. none \in [Markers -> SUBSET Items] /\ marked = {}
    BY DEF marked
  <2>2. CountedOnce(none, {})
    BY <2>1, FS_EmptySet DEF CountedOnce
  <2>. QED
    BY <2>1, <2>2 DEF LiveCounted
<1>. QED
  BY <1>1, <1>3, <1>4, <1>5, <1>6, <1>7 DEF IInv

(* and every step keeps it.                                                *)
LEMMA StepInv ==
    ASSUME IInv, [Next]_vars
    PROVE  IInv'
<1>. USE DEF IInv
<1>1. Typed' /\ CountsExact'
  BY TypedStep, CountsStep
<1>2. WorkPlaced' /\ EndSound'
  BY WorkPlacedStep, EndSoundStep
<1>3. MarkingSound' /\ LiveCounted'
  BY MarkingSoundStep, LiveCountedStep
<1>. QED
  BY <1>1, <1>2, <1>3

(* The invariant holds in every state of every run of the marking          *)
(* (shared-mark.valk:55-204).                                              *)
THEOREM Invariant == Spec => []IInv
  BY InitInv, StepInv, PTL DEF Spec

(* The counters of the marking stay within what they count: no unlocked    *)
(* addition or subtraction is lost or made twice (shared-mark.valk:72-202, *)
(* pmark_workers, pmark_idle and pmark_live).                              *)
THEOREM TypeCorrect == Spec => []TypeOK
<1>1. ASSUME IInv
       PROVE  TypeOK
  <2>1. /\ Cardinality(Inside) <= Cardinality(Markers)
        /\ Cardinality(Idlers \cup (Markers \ Inside)) <= Cardinality(Markers)
        /\ Cardinality(Markers) \in Nat
    BY SetsTyped, FiniteMarkers, FS_Subset
  <2>2. workers \in 0 .. Cardinality(Markers) /\ idle \in 0 .. Cardinality(Markers)
    BY <1>1, <2>1, SetsTyped DEF IInv, Typed, CountsExact
  <2>3. PICK done \in [Markers -> SUBSET Items], counted \in SUBSET Items : CountedOnce(done, counted)
    BY <1>1 DEF IInv, LiveCounted
  <2>4. \A s \in SUBSET Items : Cardinality(s) \in 0 .. Cardinality(Items)
    BY ParallelMarkAssumption, FS_Subset, FS_CardinalityType DEF ParallelMarkAssumption
  <2>5. found \in [Markers -> 0 .. Cardinality(Items)]
    BY <1>1, <2>3, <2>4 DEF IInv, Typed, CountedOnce
  <2>6. live \in 0 .. Cardinality(Items)
    BY <2>3, <2>4 DEF CountedOnce
  <2>. QED
    BY <1>1, <2>2, <2>5, <2>6 DEF IInv, Typed, TypeOK
<1>. QED
  BY <1>1, Invariant, PTL

-----------------------------------------------------------------------------
(* What pmark_run promises                                                 *)

(* When nobody has work left all that the roots lead to is marked, and     *)
(* counted.                                                                *)
LEMMA AllMarked ==
    ASSUME IInv, Finished, queue = {}
    PROVE  marked = AsMarking!Reachable(heap) /\ live = Cardinality(marked)
<1>. USE DEF IInv
<1>1. Claimed = {}
  BY DEF Finished, Claimed
<1>2. \A i \in marked : heap.edges[i] \subseteq marked
  BY <1>1 DEF MarkingSound, Finished
<1>3. \A u \in 1 .. Units : heap.roots[u] \subseteq marked
  <2>1. \A u \in 1 .. Units : u <= unit
    BY HeapTyped DEF Finished, Typed
  <2>. QED
    BY <1>1, <2>1 DEF MarkingSound
<1>4. marked \in SUBSET Items
  BY DEF marked, Typed
<1>5. AsMarking!Reachable(heap) \subseteq marked
  BY <1>2, <1>3, <1>4, LeadTo DEF Typed
<1>6. marked = AsMarking!Reachable(heap)
  BY <1>5 DEF MarkingSound
<1>7. PICK done \in [Markers -> SUBSET Items], counted \in SUBSET Items : CountedOnce(done, counted)
  BY DEF LiveCounted
<1>8. \A t \in Markers : local[t] = {} /\ done[t] = {}
  BY <1>7, FS_EmptySet DEF CountedOnce, Finished
<1>9. marked = counted /\ live = Cardinality(counted)
  BY <1>4, <1>7, <1>8 DEF CountedOnce
<1>. QED
  BY <1>6, <1>9

(* Marking counts as this module does.                                     *)
LEMMA SameSize == \A s : AsMarking!Cardinality(s) = Cardinality(s)
  BY DEF AsMarking!Cardinality, Cardinality

(* Every step of the marking is one of Marking or changes nothing it sees. *)
LEMMA MarkingStep ==
    ASSUME IInv, [Next]_vars
    PROVE  [AsMarking!Next]_(AsMarking!vars)
<1>. USE FiniteMarkers DEF IInv, Typed, marked, AsMarking!vars
<1>1. CASE Run
  <2>1. /\ pc[Collector] = "out" /\ pc'[Collector] = "drain" /\ heap' \in Heaps
    BY <1>1, NobodyInside DEF Run
  <2>2. flags'[now'] = {}
    BY <1>1 DEF Run, MarkingSound
  <2>. QED
    BY <2>1, <2>2 DEF AsMarking!Next, AsMarking!Start
<1>2. ASSUME NEW t \in Markers, Claim(t)
       PROVE  [AsMarking!Next]_(AsMarking!vars)
  <2>1. PICK i \in claims[t] :
           \/ UNCHANGED flags
           \/ /\ i \notin flags[now]
              /\ flags' = [m \in {0, 1} |-> IF m = now THEN flags[m] \cup {i} ELSE flags[m] \ {i}]
    BY <1>2 DEF Claim
  <2>2. UNCHANGED <<pc, live, now, heap>>
    BY <1>2 DEF Claim, round
  <2>3. CASE UNCHANGED flags
    BY <2>2, <2>3
  <2>4. CASE i \notin flags[now] /\ flags'[now'] = flags[now] \cup {i}
    <3>1. i \in AsMarking!Reachable(heap)
      BY DEF Claimed, MarkingSound
    <3>2. active
      BY <1>2, <2>1 DEF Claim, EndSound, Finished, Inside
    <3>3. pc[Collector] # "out"
      BY <3>2 DEF CountsExact, Inside
    <3>. QED
      BY <2>2, <2>4, <3>1, <3>3 DEF AsMarking!Next, AsMarking!Mark
  <2>. QED
    BY <2>1, <2>2, <2>3, <2>4
<1>3. CASE Leave(Collector)
  <2>1. /\ pc[Collector] = "idle" /\ pc'[Collector] = "out"
        /\ UNCHANGED <<live, now, heap, flags>>
    BY <1>3 DEF Leave, Goto, round
  <2>2. Finished /\ queue = {}
    BY <1>3 DEF Leave, EndSound, Inside
  <2>3. marked = AsMarking!Reachable(heap) /\ live = Cardinality(marked)
    BY <2>2, AllMarked
  <2>4. flags'[now'] = flags[now] /\ live' = live /\ heap' = heap
    BY <2>1
  <2>5. AsMarking!Return
    BY <2>1, <2>3, <2>4, SameSize DEF AsMarking!Return
  <2>. QED
    BY <2>5 DEF AsMarking!Next
<1>4. ASSUME NEW t \in Markers, Publish(t)
       PROVE  [AsMarking!Next]_(AsMarking!vars)
  <2>1. /\ live' = live + found[t] /\ UNCHANGED <<now, heap, flags>>
        /\ pc' = [pc EXCEPT ![t] = "goIdle"] /\ pc[t] = "publish"
    BY <1>4 DEF Publish, Goto
  <2>2. (pc'[Collector] = "out") = (pc[Collector] = "out")
    BY <2>1
  <2>3. pc[Collector] = "out" => found[t] = 0
    <3>1. pc[Collector] = "out" => ~active
      BY DEF CountsExact, Inside
    <3>. QED
      BY <2>1, <3>1 DEF EndSound, Finished, Inside
  <2>. QED
    BY <2>1, <2>2, <2>3
<1>5. ASSUME NEW t \in Markers,
             \/ Help(t) \/ Join(t) \/ Trace(t) \/ Traced(t) \/ Share(t) \/ Drained(t) \/ UnitDone(t)
             \/ ClaimUnit(t) \/ Take(t) \/ GoIdle(t) \/ Looks(t) \/ Back(t) \/ (Leave(t) /\ t # Collector)
       PROVE  [AsMarking!Next]_(AsMarking!vars)
  <2>1. UNCHANGED <<flags, now, heap, live>>
    BY <1>5 DEF Help, Join, Trace, Traced, Share, Drained, UnitDone, ClaimUnit, Take, GoIdle, Leave,
       Looks, Look, Count, EndLock, EndCheck, Back, round
  <2>2. (pc'[Collector] = "out") = (pc[Collector] = "out")
    BY <1>5, ParallelMarkAssumption DEF Help, Join, Trace, Traced, Share, Drained, UnitDone, ClaimUnit,
       Take, GoIdle, Leave, Looks, Look, Count, EndLock, EndCheck, Back, Goto, CountsExact
  <2>. QED
    BY <2>1, <2>2
<1>6. CASE UNCHANGED vars
  BY <1>6 DEF vars, round
<1>. QED
  BY <1>1, <1>2, <1>3, <1>4, <1>5, <1>6 DEF Next, Drain, Looks

(* pmark_run returns when all that the roots lead to is marked, nothing    *)
(* else is, and its result counts each item once, however the threads      *)
(* share the work (shared-mark.valk:72-94, gc-shared.valk:85).             *)
THEOREM Implements == Spec => ImplementsMarking
<1>1. Init => AsMarking!Init
  BY FiniteMarkers DEF Init, AsMarking!Init
<1>2. IInv /\ [Next]_vars => [AsMarking!Next]_(AsMarking!vars)
  BY MarkingStep
<1>. QED
  BY <1>1, <1>2, Invariant, PTL DEF Spec, ImplementsMarking, AsMarking!Spec

=============================================================================
