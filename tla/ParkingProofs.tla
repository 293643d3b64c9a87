----------------------------- MODULE ParkingProofs -----------------------------
(***************************************************************************)
(* Theorems about Parking: how its references are counted, that nobody is  *)
(* resumed twice or forgotten in a park, that the doorbell is never        *)
(* missed, and that a waker keeps the promise of WakeSignal.               *)
(*                                                                         *)
(* The argument follows a park around.  At most one wait has it as its     *)
(* own (`mine`), and at most one place of the queue side has it: a waker,  *)
(* a wake that took it out, or an inbox.  Its references are these two.    *)
(***************************************************************************)
EXTENDS Parking, SequenceFacts, FiniteSetTheorems

-----------------------------------------------------------------------------
(* The inductive invariant                                                 *)

InWait == {"look", "asleep", "withdraw", "release"}
Carrying == {"wakePark", "enqueue"}

(* What a process holds follows from where it is.                          *)
Stages ==
    /\ \A w \in Waiters : mine[w] # None <=> pc[w] \in InWait
    /\ \A q \in Procs :
        /\ q \notin Waiters => pc[q] \notin InWait
        /\ took[q] # None <=> pc[q] \in Carrying
        /\ target[q] # None <=> pc[q] \in Carrying \cup {"keep"}
    /\ \A w \in Waiters : waiting[w] # None => waiting[w] = mine[w] /\ pc[w] # "release"

(* Who the parks belong to.                                                *)
Owned ==
    /\ \A w \in Waiters : mine[w] # None => parks[mine[w]].owner = w
    /\ \A q \in Procs : took[q] # None => parks[took[q]].owner = target[q]
    /\ \A t \in Threads, p \in Parks : Contains(inbox[t], p) =>
        parks[p].owner \in Coros /\ HomeOf[parks[p].owner] = t

(* Which parks a wake marked.                                              *)
Marked ==
    /\ \A w \in Waiters : waiting[w] # None => ~parks[waiting[w]].woken
    /\ \A q \in Procs : pc[q] = "wakePark" => ~parks[took[q]].woken
    /\ \A q \in Procs : pc[q] = "enqueue" =>
        parks[took[q]].woken /\ parks[took[q]].owner \in Coros
    /\ \A t \in Threads, p \in Parks : Contains(inbox[t], p) => parks[p].woken

(* A park is in one place of the queue side.                               *)
OneQueue ==
    /\ \A w \in Waiters, q \in Procs : waiting[w] # None => took[q] # waiting[w]
    /\ \A q, r \in Procs : took[q] # None /\ took[q] = took[r] => q = r
    /\ \A q \in Procs, t \in Threads : took[q] # None => ~Contains(inbox[t], took[q])
    /\ \A t \in Threads : Once(inbox[t])

InUse(p) == \E w \in Waiters : mine[w] = p

Queued(p) ==
    \/ \E w \in Waiters : waiting[w] = p
    \/ \E q \in Procs : took[q] = p
    \/ \E t \in Threads : Contains(inbox[t], p)

(* The references are the wait and the place of the queue side.            *)
Counted ==
    \A p \in Parks :
        /\ parks[p].refs = 0 <=> ~InUse(p) /\ ~Queued(p)
        /\ parks[p].refs = 2 <=> InUse(p) /\ Queued(p)

(* A park is left when its wait leaves it, and stays so.                   *)
LeftBehind ==
    /\ \A w \in Waiters : mine[w] # None =>
        (parks[mine[w]].left <=> pc[w] \in {"withdraw", "release"})
    /\ \A p \in Parks : parks[p].refs # 0 /\ ~parks[p].left => InUse(p)

(* Before its wake marks it, the park of a wait can be found.              *)
Findable ==
    \A w \in Waiters : pc[w] \in {"look", "asleep"} /\ ~parks[mine[w]].woken =>
        waiting[w] = mine[w] \/ \E q \in Procs : took[q] = mine[w]

(* Whoever is in a call has one left.                                      *)
Bounded == \A x \in Procs : pc[x] # "idle" => calls[x] < MaxCalls

HInv == Stages /\ Owned /\ Marked /\ OneQueue /\ Counted /\ LeftBehind /\ Findable

(* A coroutine that sleeps does so in the park of its wait.                *)
Sleeping ==
    \A c \in Coros : park[c] # None => c \in Waiters /\ pc[c] = "asleep" /\ mine[c] = park[c]

(* And as long as its thread lives, the queue side has that park.          *)
Sought ==
    \A c \in Coros : park[c] # None /\ HomeOf[c] \in alive => Queued(park[c])

(* Threads run their own coroutines.                                       *)
AtHome ==
    \A t \in Threads :
        /\ current[t] # None => HomeOf[current[t]] = t
        /\ \A c \in Coros : Contains(runCoros[t], c) \/ Contains(batch[t], c) => HomeOf[c] = t

(* Each coroutine is in one place of its thread.                           *)
OnePlace ==
    /\ \A t \in Threads : Once(runCoros[t]) /\ Once(batch[t])
    /\ \A c \in Coros :
        LET t == HomeOf[c]
            runs == current[t] = c
            queued == Contains(runCoros[t], c)
            next == Contains(batch[t], c)
            sleeps == park[c] # None
        IN /\ ~(runs /\ queued) /\ ~(runs /\ next) /\ ~(runs /\ sleeps)
           /\ ~(queued /\ next) /\ ~(queued /\ sleeps) /\ ~(next /\ sleeps)

RInv == Sleeping /\ Sought /\ AtHome /\ OnePlace

(* Whoever put a park into an inbox rang, unless the thread looks anyway.  *)
BInv ==
    \A t \in Threads :
        /\ t \in polling <=> phase[t] = "poll"
        /\ t \in rung => t \in bell \/ phase[t] = "drain"
        /\ inbox[t] # <<>> => t \in rung \/ phase[t] \in {"poll", "pollDrain"}

-----------------------------------------------------------------------------
(* Basic facts                                                             *)

ParkType == [refs : 0 .. 2, woken : BOOLEAN, left : BOOLEAN, owner : Waiters \cup {None}]

LEMMA Names ==
    /\ Coros \subseteq Procs /\ Natives \subseteq Procs /\ Waiters \subseteq Procs
    /\ Coros \cap Natives = {}
    /\ None \notin Procs /\ None \notin Parks /\ None \notin Waiters /\ None \notin Coros
    /\ \A c \in Coros : HomeOf[c] \in Threads
    /\ IsFiniteSet(Parks) /\ IsFiniteSet(Coros) /\ IsFiniteSet(Procs) /\ IsFiniteSet(Waiters)
<1>1. IsFiniteSet(Coros) /\ IsFiniteSet(Procs) /\ IsFiniteSet(Waiters)
  BY ParkingAssumption, FS_Subset DEF Procs
<1>. QED
  BY <1>1, ParkingAssumption DEF Procs

(* What is left of the parks after some references are released.           *)
LEMMA ReleasedFacts ==
    ASSUME NEW f \in [Parks -> ParkType], NEW S, \A p \in S : p \in Parks => f[p].refs # 0
    PROVE  /\ Released(f, S) \in [Parks -> ParkType]
           /\ \A p \in Parks :
                /\ p \notin S => Released(f, S)[p] = f[p]
                /\ p \in S /\ f[p].refs = 1 => Released(f, S)[p] = Free
                /\ p \in S /\ f[p].refs = 2 =>
                    /\ Released(f, S)[p].refs = 1
                    /\ Released(f, S)[p].woken = f[p].woken
                    /\ Released(f, S)[p].left = f[p].left
                    /\ Released(f, S)[p].owner = f[p].owner
<1>1. Free \in ParkType /\ Free.refs = 0 /\ ~Free.left /\ ~Free.woken /\ Free.owner = None
  BY DEF Free, ParkType
<1>2. ASSUME NEW p \in Parks
      PROVE  /\ p \notin S => Released(f, S)[p] = f[p]
             /\ p \in S /\ f[p].refs = 1 => Released(f, S)[p] = Free
             /\ p \in S /\ f[p].refs = 2 => Released(f, S)[p] = [f[p] EXCEPT !.refs = 1]
             /\ f[p] \in ParkType
             /\ p \in S => f[p].refs \in {1, 2}
  <2>1. f[p].refs \in 0 .. 2 /\ f[p] \in ParkType
    BY DEF ParkType
  <2>2. f[p].refs = 2 => [f[p] EXCEPT !.refs = @ - 1] = [f[p] EXCEPT !.refs = 1]
    BY <2>1 DEF ParkType
  <2>. QED
    BY <2>1, <2>2 DEF Released
<1>3. ASSUME NEW g \in ParkType
      PROVE  LET h == [g EXCEPT !.refs = 1] IN
             /\ h \in ParkType
             /\ h.refs = 1 /\ h.woken = g.woken /\ h.left = g.left /\ h.owner = g.owner
  BY DEF ParkType
<1>4. ASSUME NEW p \in Parks
      PROVE  Released(f, S)[p] \in ParkType
  <2>1. [f[p] EXCEPT !.refs = 1] \in ParkType
    BY <1>2, <1>3
  <2>. QED
    BY ONLY <1>1, <1>2, <2>1, p \in Parks
<1>5. Released(f, S) \in [Parks -> ParkType]
  BY <1>4 DEF Released
<1>6. ASSUME NEW p \in Parks, p \in S, f[p].refs = 2
      PROVE  /\ Released(f, S)[p].refs = 1
             /\ Released(f, S)[p].woken = f[p].woken
             /\ Released(f, S)[p].left = f[p].left
             /\ Released(f, S)[p].owner = f[p].owner
  <2>1. Released(f, S)[p] = [f[p] EXCEPT !.refs = 1] /\ f[p] \in ParkType
    BY <1>2, <1>6
  <2>. QED
    BY <1>3, <2>1
<1>. QED
  BY <1>2, <1>5, <1>6

(* Whom a delivery makes runnable: who waits in one of its parks, once.    *)
LEMMA Delivered ==
    ASSUME NEW t \in Threads, NEW ps \in Seq(Parks), Deliver(t, ps)
    PROVE  \E cs \in Seq(Coros) :
            /\ Once(cs)
            /\ \A c : Contains(cs, c) <=>
                \E p \in Parks : Contains(ps, p) /\ Waits(p) /\ parks[p].owner = c
            /\ runCoros' = [runCoros EXCEPT ![t] = @ \o cs]
            /\ park' = [c \in Coros |-> IF Contains(cs, c) THEN None ELSE park[c]]
<1>. DEFINE Now == {p \in Range(ps) : Waits(p)}
<1>1. PICK qs \in SetToSeqs(Now) :
        /\ runCoros' = [runCoros EXCEPT ![t] = @ \o Owners(qs)]
        /\ park' = [c \in Coros |-> IF c \in Range(Owners(qs)) THEN None ELSE park[c]]
  BY DEF Deliver
<1>2. \A p : p \in Range(ps) <=> Contains(ps, p)
  BY RangeMembers
<1>3. Range(ps) \subseteq Parks /\ IsFiniteSet(Now)
  <2>1. Range(ps) \subseteq Parks
    BY LenProperties DEF Range
  <2>. QED
    BY <2>1, Names, FS_Subset
<1>4. /\ qs \in Seq(Now) /\ Once(qs)
      /\ \A x : Contains(qs, x) <=> x \in Now
  BY <1>3, Enumerates
<1>. DEFINE cs == Owners(qs)
<1>5. /\ DOMAIN qs = 1 .. Len(qs) /\ Len(qs) \in Nat
      /\ \A i \in 1 .. Len(qs) : qs[i] \in Now
  BY <1>4, LenProperties
<1>6. \A i \in 1 .. Len(qs) : cs[i] = parks[qs[i]].owner /\ cs[i] \in Coros /\ park[cs[i]] = qs[i]
  BY <1>5 DEF Owners, Waits
<1>7. cs \in Seq(Coros) /\ Len(cs) = Len(qs)
  <2>1. cs \in [1 .. Len(qs) -> Coros]
    BY <1>5, <1>6 DEF Owners
  <2>. QED
    BY <1>5, <2>1, SeqDef, LenProperties
<1>8. Once(cs)
  BY <1>4, <1>6, <1>7 DEF Once
<1>9. \A c : Contains(cs, c) <=> \E p \in Parks : Contains(ps, p) /\ Waits(p) /\ parks[p].owner = c
  <2>1. ASSUME NEW c, Contains(cs, c)
        PROVE  \E p \in Parks : Contains(ps, p) /\ Waits(p) /\ parks[p].owner = c
    <3>1. PICK i \in 1 .. Len(qs) : cs[i] = c
      BY <1>7, <2>1 DEF Contains
    <3>. QED
      BY <1>2, <1>3, <1>5, <1>6, <3>1
  <2>2. ASSUME NEW p \in Parks, Contains(ps, p), Waits(p)
        PROVE  Contains(cs, parks[p].owner)
    <3>1. PICK i \in 1 .. Len(qs) : qs[i] = p
      BY <1>2, <1>4, <2>2 DEF Contains
    <3>. QED
      BY <1>6, <1>7, <3>1 DEF Contains
  <2>. QED
    BY <2>1, <2>2
<1>10. \A c : c \in Range(cs) <=> Contains(cs, c)
  BY <1>7, RangeMembers
<1>. HIDE DEF cs
<1>11. park' = [c \in Coros |-> IF Contains(cs, c) THEN None ELSE park[c]]
  BY <1>1, <1>10 DEF cs
<1>12. runCoros' = [runCoros EXCEPT ![t] = @ \o cs]
  BY <1>1 DEF cs
<1>. QED
  BY <1>7, <1>8, <1>9, <1>11, <1>12

-----------------------------------------------------------------------------
(* Who has which park                                                      *)

(* What is held is in use, and what is free nobody holds.                  *)
LEMMA HeldFacts ==
    ASSUME TypeOK, HInv
    PROVE  /\ parks \in [Parks -> ParkType]
           /\ \A p \in Parks : parks[p].refs \in {0, 1, 2}
           /\ \A w \in Waiters : mine[w] # None =>
                mine[w] \in Parks /\ parks[mine[w]].refs # 0 /\ InUse(mine[w])
           /\ \A w \in Waiters : waiting[w] # None =>
                waiting[w] \in Parks /\ parks[waiting[w]].refs = 2 /\ mine[w] = waiting[w]
           /\ \A q \in Procs : took[q] # None =>
                took[q] \in Parks /\ parks[took[q]].refs # 0 /\ Queued(took[q])
           /\ \A t \in Threads, p \in Parks : Contains(inbox[t], p) => parks[p].refs # 0 /\ Queued(p)
           /\ \A p \in Parks : parks[p].refs = 0 => ~InUse(p) /\ ~Queued(p)
           /\ \A p \in Parks : parks[p].refs # 0 => parks[p].owner \in Waiters
<1>1. parks \in [Parks -> ParkType] /\ \A p \in Parks : parks[p].refs \in {0, 1, 2}
  <2>1. parks \in [Parks -> ParkType]
    BY DEF TypeOK, ParkType
  <2>2. \A p \in Parks : parks[p].refs \in 0 .. 2
    BY <2>1 DEF ParkType
  <2>. QED
    BY <2>1, <2>2
<1>2. /\ mine \in [Waiters -> Parks \cup {None}] /\ waiting \in [Waiters -> Parks \cup {None}]
      /\ took \in [Procs -> Parks \cup {None}] /\ target \in [Procs -> Waiters \cup {None}]
  BY DEF TypeOK
<1>3. \A w \in Waiters : mine[w] # None => mine[w] \in Parks /\ InUse(mine[w])
  BY <1>2 DEF InUse
<1>4. \A q \in Procs : took[q] # None => took[q] \in Parks /\ Queued(took[q])
  BY <1>2 DEF Queued
<1>5. \A w \in Waiters : waiting[w] # None =>
        waiting[w] \in Parks /\ Queued(waiting[w]) /\ mine[w] = waiting[w]
  BY <1>2 DEF Queued, HInv, Stages
<1>6. \A t \in Threads, p \in Parks : Contains(inbox[t], p) => Queued(p)
  BY DEF Queued
<1>7. \A p \in Parks : /\ InUse(p) \/ Queued(p) => parks[p].refs # 0
                       /\ InUse(p) /\ Queued(p) => parks[p].refs = 2
                       /\ parks[p].refs # 0 => InUse(p) \/ Queued(p)
  BY DEF HInv, Counted
<1>8. ASSUME NEW p \in Parks, parks[p].refs # 0
      PROVE  parks[p].owner \in Waiters
  <2>1. CASE InUse(p)
    BY <2>1, <1>2, Names DEF InUse, HInv, Owned
  <2>2. CASE Queued(p)
    <3>1. CASE \E w \in Waiters : waiting[w] = p
      BY <3>1, <1>5, Names DEF HInv, Owned
    <3>2. CASE \E q \in Procs : took[q] = p
      <4>1. PICK q \in Procs : took[q] = p
        BY <3>2
      <4>2. target[q] # None /\ parks[p].owner = target[q]
        BY <4>1, Names DEF HInv, Owned, Stages, Carrying
      <4>. QED
        BY <4>2, <1>2
    <3>3. CASE \E t \in Threads : Contains(inbox[t], p)
      <4>1. parks[p].owner \in Coros /\ parks[p].owner \in Waiters \cup {None}
        BY <3>3, <1>1 DEF HInv, Owned, ParkType
      <4>. QED
        BY <4>1, Names
    <3>. QED
      BY <2>2, <3>1, <3>2, <3>3 DEF Queued
  <2>. QED
    BY <1>7, <1>8, <2>1, <2>2
<1>. QED
  BY <1>1, <1>3, <1>4, <1>5, <1>6, <1>7, <1>8

(* A wait begins with a free park.                                         *)
LEMMA HeldBegin ==
    ASSUME TypeOK, HInv, NEW w \in Waiters, NEW p \in Parks,
           pc[w] = "idle", parks[p].refs = 0,
           parks' = [parks EXCEPT ![p] = [Free EXCEPT !.refs = 2, !.owner = w]],
           waiting' = [waiting EXCEPT ![w] = p],
           mine' = [mine EXCEPT ![w] = p],
           pc' = [pc EXCEPT ![w] = "look"],
           inbox' = inbox, took' = took, target' = target
    PROVE  HInv'
<1>1. /\ mine \in [Waiters -> Parks \cup {None}] /\ waiting \in [Waiters -> Parks \cup {None}]
      /\ pc \in [Procs -> PCs] /\ parks \in [Parks -> ParkType] /\ w \in Procs /\ p # None
  BY Names DEF TypeOK, ParkType
<1>2. /\ ~InUse(p) /\ ~Queued(p)
      /\ mine[w] = None /\ took[w] = None /\ waiting[w] = None /\ target[w] = None
  BY HeldFacts, <1>1 DEF HInv, Stages, Carrying, InWait
<1>3. /\ parks'[p].refs = 2 /\ ~parks'[p].woken /\ ~parks'[p].left /\ parks'[p].owner = w
      /\ \A r \in Parks : r # p => parks'[r] = parks[r]
  BY <1>1 DEF Free
<1>4. /\ mine'[w] = p /\ \A v \in Waiters : v # w => mine'[v] = mine[v] /\ mine[v] # p
      /\ waiting'[w] = p /\ \A v \in Waiters : v # w => waiting'[v] = waiting[v] /\ waiting[v] # p
      /\ pc'[w] = "look" /\ \A v \in Procs : v # w => pc'[v] = pc[v]
      /\ \A q \in Procs : took[q] # p
      /\ \A t \in Threads : ~Contains(inbox[t], p)
  BY <1>1, <1>2 DEF InUse, Queued
<1>5. Stages'
  BY <1>1, <1>2, <1>4, Names DEF HInv, Stages, Carrying, InWait
<1>6. Owned'
  BY <1>1, <1>3, <1>4, HeldFacts DEF HInv, Owned
<1>7. Marked'
  BY <1>1, <1>2, <1>3, <1>4, HeldFacts DEF HInv, Marked, Stages, Carrying
<1>8. OneQueue'
  BY <1>1, <1>3, <1>4 DEF HInv, OneQueue
<1>9. Counted'
  <2>1. InUse(p)' /\ Queued(p)'
    BY <1>4 DEF InUse, Queued
  <2>2. ASSUME NEW r \in Parks, r # p
        PROVE  (InUse(r)' <=> InUse(r)) /\ (Queued(r)' <=> Queued(r)) /\ parks'[r] = parks[r]
    BY <1>2, <1>3, <1>4, <2>2, Names DEF InUse, Queued
  <2>. QED
    BY <1>3, <2>1, <2>2 DEF HInv, Counted
<1>10. LeftBehind'
  <2>1. \A v \in Waiters : mine'[v] # None =>
          (parks'[mine'[v]].left <=> pc'[v] \in {"withdraw", "release"})
    BY <1>1, <1>3, <1>4, HeldFacts, Names DEF HInv, LeftBehind
  <2>2. ASSUME NEW r \in Parks, parks'[r].refs # 0, ~parks'[r].left
        PROVE  InUse(r)'
    <3>1. CASE r = p
      BY <3>1, <1>4 DEF InUse
    <3>2. CASE r # p
      <4>1. InUse(r)
        BY <3>2, <2>2, <1>3 DEF HInv, LeftBehind
      <4>. QED
        BY <4>1, <1>2, <1>4, Names DEF InUse
    <3>. QED
      BY <3>1, <3>2
  <2>. QED
    BY <2>1, <2>2 DEF LeftBehind
<1>11. Findable'
  <2>1. ASSUME NEW v \in Waiters, pc'[v] \in {"look", "asleep"}, ~parks'[mine'[v]].woken
        PROVE  waiting'[v] = mine'[v] \/ \E q \in Procs : took'[q] = mine'[v]
    <3>1. CASE v = w
      BY <3>1, <1>4
    <3>2. CASE v # w
      <4>1. mine[v] # None /\ pc'[v] = pc[v]
        BY <3>2, <2>1, <1>4, Names DEF HInv, Stages, InWait
      <4>2. mine[v] \in Parks /\ parks'[mine[v]] = parks[mine[v]]
        BY <3>2, <4>1, <1>3, <1>4, HeldFacts
      <4>. QED
        BY <3>2, <2>1, <4>1, <4>2, <1>4 DEF HInv, Findable
    <3>. QED
      BY <3>1, <3>2
  <2>. QED
    BY <2>1 DEF Findable
<1>. QED
  BY <1>5, <1>6, <1>7, <1>8, <1>9, <1>10, <1>11 DEF HInv

(* A wait leaves: its park stays behind.                                   *)
LEMMA HeldLeave ==
    ASSUME TypeOK, HInv, NEW w \in Waiters, pc[w] = "look",
           parks' = [parks EXCEPT ![mine[w]].left = TRUE],
           pc' = [pc EXCEPT ![w] = IF parks[mine[w]].woken THEN "release" ELSE "withdraw"],
           waiting' = waiting, mine' = mine, inbox' = inbox, took' = took, target' = target
    PROVE  HInv'
<1>0. PICK p \in Parks : p = mine[w]
  BY HeldFacts DEF HInv, Stages, InWait
<1>1. /\ pc \in [Procs -> PCs] /\ parks \in [Parks -> ParkType] /\ w \in Procs
      /\ p = mine[w] /\ p # None /\ parks[p].owner = w /\ parks[p].refs # 0 /\ InUse(p)
  BY <1>0, Names, HeldFacts DEF TypeOK, ParkType, HInv, Stages, InWait, Owned
<1>2. /\ parks'[p].left
      /\ parks'[p].refs = parks[p].refs /\ parks'[p].woken = parks[p].woken
      /\ parks'[p].owner = parks[p].owner
      /\ \A r \in Parks : r # p => parks'[r] = parks[r]
  BY <1>1 DEF ParkType
<1>3. /\ pc'[w] = IF parks[p].woken THEN "release" ELSE "withdraw"
      /\ \A v \in Procs : v # w => pc'[v] = pc[v]
      /\ \A v \in Waiters : mine[v] = p => v = w
  BY <1>1 DEF HInv, Owned
<1>4. \A r \in Parks : /\ parks'[r].refs = parks[r].refs /\ parks'[r].woken = parks[r].woken
                       /\ parks'[r].owner = parks[r].owner
  BY <1>2
<1>5. Stages'
  <2>1. waiting[w] # None => ~parks[p].woken
    BY <1>1, HeldFacts DEF HInv, Marked
  <2>. QED
    BY <1>1, <1>3, <2>1, Names DEF HInv, Stages, Carrying, InWait
<1>6. Owned'
  BY <1>4, HeldFacts DEF HInv, Owned
<1>7. Marked'
  <2>1. \A q \in Procs : pc'[q] \in {"wakePark", "enqueue"} => pc'[q] = pc[q] /\ took[q] \in Parks
    BY <1>3, HeldFacts DEF HInv, Stages, Carrying
  <2>. QED
    BY <1>4, <2>1, HeldFacts DEF HInv, Marked
<1>8. OneQueue'
  BY DEF HInv, OneQueue
<1>9. Counted'
  BY <1>4 DEF HInv, Counted, InUse, Queued
<1>10. LeftBehind'
  BY <1>1, <1>2, <1>3, HeldFacts, Names DEF HInv, LeftBehind, InUse
<1>11. Findable'
  <2>1. \A v \in Waiters : pc'[v] \in {"look", "asleep"} => v # w /\ pc'[v] = pc[v] /\ mine[v] \in Parks
    BY <1>3, HeldFacts, Names DEF HInv, Stages, InWait
  <2>. QED
    BY <1>4, <2>1 DEF HInv, Findable
<1>. QED
  BY <1>5, <1>6, <1>7, <1>8, <1>9, <1>10, <1>11 DEF HInv

(* A wait that timed out takes its park back.                              *)
LEMMA HeldWithdraw ==
    ASSUME TypeOK, HInv, NEW w \in Waiters, pc[w] = "withdraw",
           \/ waiting[w] = mine[w] /\ waiting' = [waiting EXCEPT ![w] = None]
                /\ parks' = Released(parks, {mine[w]})
           \/ waiting[w] # mine[w] /\ waiting' = waiting /\ parks' = parks,
           pc' = [pc EXCEPT ![w] = "release"],
           mine' = mine, inbox' = inbox, took' = took, target' = target
    PROVE  HInv'
<1>0. PICK p \in Parks : p = mine[w]
  BY HeldFacts DEF HInv, Stages, InWait
<1>1. /\ pc \in [Procs -> PCs] /\ parks \in [Parks -> ParkType] /\ w \in Procs
      /\ waiting \in [Waiters -> Parks \cup {None}]
      /\ p = mine[w] /\ p # None /\ parks[p].owner = w /\ parks[p].refs # 0 /\ InUse(p) /\ parks[p].left
  BY <1>0, Names, HeldFacts DEF TypeOK, ParkType, HInv, Stages, InWait, Owned, LeftBehind
<1>2. /\ waiting'[w] = None /\ \A v \in Waiters : v # w => waiting'[v] = waiting[v]
      /\ pc'[w] = "release" /\ \A v \in Procs : v # w => pc'[v] = pc[v]
      /\ \A v \in Waiters : mine[v] = p => v = w
  BY <1>1 DEF HInv, Stages, Owned
<1>3. /\ \A r \in Parks : /\ parks'[r].woken = parks[r].woken /\ parks'[r].left = parks[r].left
                          /\ parks'[r].owner = parks[r].owner
      /\ \A r \in Parks : r # p => parks'[r].refs = parks[r].refs
      /\ parks'[p].refs = IF waiting[w] = p THEN 1 ELSE parks[p].refs
  <2>1. CASE waiting[w] = p
    <3>1. parks' = Released(parks, {p}) /\ parks[p].refs = 2
      BY <2>1, <1>1, HeldFacts
    <3>. QED
      BY <2>1, <3>1, <1>1, ReleasedFacts
  <2>2. CASE waiting[w] # p
    BY <2>2, <1>1
  <2>. QED
    BY <2>1, <2>2
<1>5. Stages'
  BY <1>1, <1>2, Names DEF HInv, Stages, Carrying, InWait
<1>6. Owned'
  BY <1>3, HeldFacts DEF HInv, Owned
<1>7. Marked'
  <2>1. \A q \in Procs : pc'[q] \in {"wakePark", "enqueue"} => pc'[q] = pc[q] /\ took[q] \in Parks
    BY <1>2, HeldFacts DEF HInv, Stages, Carrying
  <2>. QED
    BY <1>2, <1>3, <2>1, HeldFacts DEF HInv, Marked
<1>8. OneQueue'
  BY <1>2 DEF HInv, OneQueue
<1>9. Counted'
  <2>1. InUse(p)' /\ (Queued(p)' <=> Queued(p) /\ waiting[w] # p)
    <3>1. \A v \in Waiters : waiting[v] = p => v = w
      BY <1>1, <1>2, HeldFacts
    <3>2. waiting[w] = p => ~\E q \in Procs : took[q] = p
      BY <1>1 DEF HInv, OneQueue
    <3>3. waiting[w] = p => ~\E t \in Threads : Contains(inbox[t], p)
      BY <1>1 DEF HInv, Marked
    <3>4. InUse(p)'
      BY <1>1 DEF InUse
    <3>5. (\E v \in Waiters : waiting'[v] = p) <=> waiting[w] # p /\ \E v \in Waiters : waiting[v] = p
      BY <1>1, <1>2, <3>1
    <3>. QED
      BY <3>2, <3>3, <3>4, <3>5 DEF Queued
  <2>2. waiting[w] = p => Queued(p)
    BY DEF Queued
  <2>3. ASSUME NEW r \in Parks, r # p
        PROVE  (InUse(r)' <=> InUse(r)) /\ (Queued(r)' <=> Queued(r))
    <3>1. waiting[w] # r
      BY <1>1, <2>3, HeldFacts, <1>1, Names
    <3>. QED
      BY <1>2, <3>1, <2>3, Names DEF InUse, Queued
  <2>4. ASSUME NEW r \in Parks
        PROVE  /\ parks'[r].refs = 0 <=> ~InUse(r)' /\ ~Queued(r)'
               /\ parks'[r].refs = 2 <=> InUse(r)' /\ Queued(r)'
    <3>1. CASE r = p
      <4>1. Queued(p) <=> parks[p].refs = 2
        BY <1>1 DEF HInv, Counted
      <4>2. parks[p].refs \in {1, 2}
        BY <1>1, HeldFacts
      <4>. QED
        BY <3>1, <4>1, <4>2, <1>3, <2>1, <2>2
    <3>2. CASE r # p
      BY <3>2, <1>3, <2>3 DEF HInv, Counted
    <3>. QED
      BY <3>1, <3>2
  <2>. QED
    BY <2>4 DEF Counted
<1>10. LeftBehind'
  BY <1>1, <1>2, <1>3, HeldFacts, Names DEF HInv, LeftBehind, InUse
<1>11. Findable'
  <2>1. \A v \in Waiters : pc'[v] \in {"look", "asleep"} => v # w /\ pc'[v] = pc[v] /\ mine[v] \in Parks
    BY <1>2, HeldFacts, Names DEF HInv, Stages, InWait
  <2>. QED
    BY <1>2, <1>3, <2>1 DEF HInv, Findable
<1>. QED
  BY <1>5, <1>6, <1>7, <1>8, <1>9, <1>10, <1>11 DEF HInv

(* A wait returns.                                                         *)
LEMMA HeldRelease ==
    ASSUME TypeOK, HInv, NEW w \in Waiters, pc[w] = "release",
           parks' = Released(parks, {mine[w]}),
           mine' = [mine EXCEPT ![w] = None],
           pc' = [pc EXCEPT ![w] = "idle"],
           waiting' = waiting, inbox' = inbox, took' = took, target' = target
    PROVE  HInv'
<1>0. PICK p \in Parks : p = mine[w]
  BY HeldFacts DEF HInv, Stages, InWait
<1>1. /\ pc \in [Procs -> PCs] /\ parks \in [Parks -> ParkType] /\ w \in Procs
      /\ mine \in [Waiters -> Parks \cup {None}]
      /\ p = mine[w] /\ p # None /\ parks[p].owner = w /\ parks[p].refs \in {1, 2} /\ InUse(p) /\ parks[p].left
      /\ waiting[w] = None
  <2>1. /\ pc \in [Procs -> PCs] /\ parks \in [Parks -> ParkType] /\ w \in Procs
        /\ mine \in [Waiters -> Parks \cup {None}]
    BY Names, HeldFacts DEF TypeOK
  <2>2. p = mine[w] /\ p # None /\ InUse(p)
    BY <1>0, Names DEF InUse
  <2>3. parks[p].owner = w /\ parks[p].left
    BY ONLY HInv, <2>2, pc[w] = "release", w \in Waiters DEF HInv, Owned, LeftBehind
  <2>4. parks[p].refs \in {1, 2}
    BY <2>2, HeldFacts
  <2>5. waiting[w] = None
    BY ONLY HInv, pc[w] = "release", w \in Waiters DEF HInv, Stages, InWait
  <2>. QED
    BY ONLY <2>1, <2>2, <2>3, <2>4, <2>5
<1>2. /\ mine'[w] = None /\ \A v \in Waiters : v # w => mine'[v] = mine[v] /\ mine[v] # p
      /\ pc'[w] = "idle" /\ \A v \in Procs : v # w => pc'[v] = pc[v]
  BY <1>1 DEF HInv, Owned
<1>3. parks[p].refs = 1 <=> ~Queued(p)
  BY <1>1 DEF HInv, Counted
<1>4. /\ \A r \in Parks : r # p => parks'[r] = parks[r]
      /\ ~Queued(p) => parks'[p] = Free
      /\ Queued(p) => /\ parks'[p].refs = 1
                      /\ parks'[p].woken = parks[p].woken /\ parks'[p].left = parks[p].left
                      /\ parks'[p].owner = parks[p].owner
  <2>1. /\ \A r \in Parks : r \notin {p} => parks'[r] = parks[r]
        /\ parks[p].refs = 1 => parks'[p] = Free
        /\ parks[p].refs = 2 => /\ parks'[p].refs = 1
                                /\ parks'[p].woken = parks[p].woken /\ parks'[p].left = parks[p].left
                                /\ parks'[p].owner = parks[p].owner
    <3>1. parks' = Released(parks, {p}) /\ p \in {p} /\ \A r \in {p} : r \in Parks => parks[r].refs # 0
      BY <1>1
    <3>2. \A r \in Parks :
                /\ r \notin {p} => Released(parks, {p})[r] = parks[r]
                /\ r \in {p} /\ parks[r].refs = 1 => Released(parks, {p})[r] = Free
                /\ r \in {p} /\ parks[r].refs = 2 =>
                    /\ Released(parks, {p})[r].refs = 1
                    /\ Released(parks, {p})[r].woken = parks[r].woken
                    /\ Released(parks, {p})[r].left = parks[r].left
                    /\ Released(parks, {p})[r].owner = parks[r].owner
      BY ONLY <1>1, <3>1, ReleasedFacts, p \in Parks
    <3>. QED
      BY ONLY <3>1, <3>2, p \in Parks
  <2>. QED
    BY <1>1, <1>3, <2>1
<1>5. Stages'
  BY <1>1, <1>2, Names DEF HInv, Stages, Carrying, InWait
<1>6. /\ \A r \in Parks : r # p \/ Queued(r) =>
            /\ parks'[r].woken = parks[r].woken /\ parks'[r].left = parks[r].left
            /\ parks'[r].owner = parks[r].owner
      /\ \A v \in Waiters : v # w /\ mine[v] # None => mine[v] \in Parks /\ mine[v] # p /\ mine'[v] = mine[v]
      /\ \A v \in Waiters : waiting[v] # None => waiting[v] \in Parks /\ Queued(waiting[v])
      /\ \A q \in Procs : took[q] # None => took[q] \in Parks /\ Queued(took[q])
      /\ \A t \in Threads, r \in Parks : Contains(inbox[t], r) => Queued(r)
  <2>1. \A v \in Waiters : waiting[v] # None => Queued(waiting[v])
    BY DEF Queued
  <2>2. \A r \in Parks : r # p \/ Queued(r) =>
            /\ parks'[r].woken = parks[r].woken /\ parks'[r].left = parks[r].left
            /\ parks'[r].owner = parks[r].owner
    BY <1>1, <1>4
  <2>3. /\ \A v \in Waiters : mine[v] # None => mine[v] \in Parks
        /\ \A v \in Waiters : waiting[v] # None => waiting[v] \in Parks
        /\ \A q \in Procs : took[q] # None => took[q] \in Parks /\ Queued(took[q])
        /\ \A t \in Threads, r \in Parks : Contains(inbox[t], r) => Queued(r)
    BY HeldFacts
  <2>. QED
    BY <1>2, <2>1, <2>2, <2>3
<1>7. Owned'
  <2>1. \A v \in Waiters : mine'[v] # None => parks'[mine'[v]].owner = v
    BY ONLY <1>2, <1>6, HInv DEF HInv, Owned
  <2>2. \A q \in Procs : took[q] # None => parks'[took[q]].owner = parks[took[q]].owner
    BY <1>6
  <2>3. \A t \in Threads, r \in Parks : Contains(inbox[t], r) => parks'[r].owner = parks[r].owner
    BY <1>6
  <2>. QED
    BY ONLY <2>1, <2>2, <2>3, HInv, inbox' = inbox, took' = took, target' = target DEF HInv, Owned
<1>8. Marked'
  <2>1. \A q \in Procs : pc'[q] \in {"wakePark", "enqueue"} => pc'[q] = pc[q] /\ took[q] # None
    BY <1>2 DEF HInv, Stages, Carrying
  <2>. QED
    BY ONLY <2>1, <1>6, HInv, inbox' = inbox, took' = took, waiting' = waiting DEF HInv, Marked
<1>9. OneQueue'
  BY DEF HInv, OneQueue
<1>10. \A r \in Parks : Queued(r)' <=> Queued(r)
  BY DEF Queued
<1>11. Counted'
  <2>1. ~InUse(p)'
    <3>1. \A v \in Waiters : mine'[v] # p
      BY <1>1, <1>2
    <3>. QED
      BY <3>1 DEF InUse
  <2>2. ASSUME NEW r \in Parks, r # p
        PROVE  InUse(r)' <=> InUse(r)
    <3>1. \A v \in Waiters : mine'[v] = r <=> mine[v] = r
      BY <1>1, <1>2, <2>2, <1>1, Names
    <3>. QED
      BY <3>1 DEF InUse
  <2>3. Free.refs = 0
    BY DEF Free
  <2>4. ASSUME NEW r \in Parks
        PROVE  /\ parks'[r].refs = 0 <=> ~InUse(r)' /\ ~Queued(r)'
               /\ parks'[r].refs = 2 <=> InUse(r)' /\ Queued(r)'
    <3>1. CASE r = p
      BY <3>1, <1>4, <1>10, <2>1, <2>3
    <3>2. CASE r # p
      BY <3>2, <1>4, <1>10, <2>2 DEF HInv, Counted
    <3>. QED
      BY <3>1, <3>2
  <2>. QED
    BY <2>4 DEF Counted
<1>12. LeftBehind'
  <2>1. \A v \in Waiters : mine'[v] # None =>
          (parks'[mine'[v]].left <=> pc'[v] \in {"withdraw", "release"})
    BY ONLY <1>2, <1>6, HInv, Names DEF HInv, LeftBehind
  <2>2. ASSUME NEW r \in Parks, parks'[r].refs # 0, ~parks'[r].left
        PROVE  InUse(r)'
    <3>1. Free.refs = 0
      BY DEF Free
    <3>2. r # p
      BY ONLY <1>1, <2>2, <3>1, <1>4
    <3>3. InUse(r)
      BY <2>2, <3>2, <1>4 DEF HInv, LeftBehind
    <3>. QED
      BY ONLY <1>1, <3>2, <3>3, <1>2 DEF InUse
  <2>. QED
    BY <2>1, <2>2 DEF LeftBehind
<1>13. Findable'
  <2>1. \A v \in Waiters : pc'[v] \in {"look", "asleep"} =>
          v # w /\ pc'[v] = pc[v] /\ mine[v] # None
    BY <1>2, Names DEF HInv, Stages, InWait
  <2>. QED
    BY ONLY <1>2, <1>6, <2>1, HInv, waiting' = waiting, took' = took DEF HInv, Findable
<1>. QED
  BY <1>5, <1>7, <1>8, <1>9, <1>11, <1>12, <1>13 DEF HInv

(* A wake takes the park out of the waker.                                 *)
LEMMA HeldTake ==
    ASSUME TypeOK, HInv, NEW q \in Procs, NEW w \in Waiters, pc[q] = "idle", waiting[w] # None,
           waiting' = [waiting EXCEPT ![w] = None],
           took' = [took EXCEPT ![q] = waiting[w]],
           target' = [target EXCEPT ![q] = w],
           pc' = [pc EXCEPT ![q] = "wakePark"],
           parks' = parks, mine' = mine, inbox' = inbox
    PROVE  HInv'
<1>0. PICK p \in Parks : p = waiting[w]
  BY HeldFacts
<1>1. /\ took[q] = None /\ target[q] = None /\ (q \in Waiters => mine[q] = None /\ waiting[q] = None)
      /\ p # None /\ mine[w] = p /\ parks[p].refs = 2 /\ parks[p].owner = w /\ ~parks[p].woken
      /\ InUse(p) /\ Queued(p) /\ w \in Procs /\ w # q
  BY <1>0, HeldFacts, Names DEF HInv, Stages, Carrying, InWait, Owned, Marked, Queued
<1>2. /\ waiting'[w] = None /\ \A v \in Waiters : v # w => waiting'[v] = waiting[v]
      /\ took'[q] = p /\ \A r \in Procs : r # q => took'[r] = took[r]
      /\ target'[q] = w /\ \A r \in Procs : r # q => target'[r] = target[r]
      /\ pc'[q] = "wakePark" /\ \A r \in Procs : r # q => pc'[r] = pc[r]
  BY <1>0 DEF TypeOK
<1>3. /\ \A v \in Waiters : v # w => waiting[v] # p
      /\ \A r \in Procs : took[r] # p
      /\ \A t \in Threads : ~Contains(inbox[t], p)
  BY <1>0, <1>1, HeldFacts DEF HInv, Owned, OneQueue, Marked
<1>4. Stages'
  BY ONLY HInv, Names, mine' = mine, <1>1, <1>2 DEF HInv, Stages, Carrying, InWait
<1>5. Owned'
  BY ONLY HInv, Names, mine' = mine, parks' = parks, inbox' = inbox, <1>1, <1>2 DEF HInv, Owned
<1>6. Marked'
  BY ONLY HInv, Names, mine' = mine, parks' = parks, inbox' = inbox, <1>1, <1>2 DEF HInv, Marked
<1>7. OneQueue'
  BY ONLY HInv, Names, inbox' = inbox, <1>1, <1>2, <1>3 DEF HInv, OneQueue
<1>8. ASSUME NEW r \in Parks
      PROVE  (InUse(r)' <=> InUse(r)) /\ (Queued(r)' <=> Queued(r))
  <2>1. InUse(r)' <=> InUse(r)
    BY DEF InUse
  <2>2. CASE r = p
    <3>1. \E x \in Procs : took'[x] = r
      BY ONLY <2>2, <1>2, q \in Procs
    <3>. QED
      BY <1>1, <2>1, <2>2, <3>1 DEF Queued
  <2>3. CASE r # p
    <3>1. (\E v \in Waiters : waiting'[v] = r) <=> \E v \in Waiters : waiting[v] = r
      BY ONLY <2>3, <1>0, <1>2, Names, r \in Parks
    <3>2. (\E x \in Procs : took'[x] = r) <=> \E x \in Procs : took[x] = r
      BY ONLY <2>3, <1>1, <1>2, Names, r \in Parks
    <3>. QED
      BY <2>1, <3>1, <3>2 DEF Queued
  <2>. QED
    BY <2>1, <2>2, <2>3, <1>1
<1>9. Counted'
  BY ONLY HInv, parks' = parks, <1>8 DEF HInv, Counted
<1>10. LeftBehind'
  BY ONLY HInv, Names, mine' = mine, parks' = parks, <1>1, <1>2, <1>8 DEF HInv, LeftBehind
<1>11. Findable'
  <2>1. ASSUME NEW v \in Waiters, pc'[v] \in {"look", "asleep"}, ~parks'[mine'[v]].woken
        PROVE  waiting'[v] = mine'[v] \/ \E x \in Procs : took'[x] = mine'[v]
    <3>1. v # q /\ pc'[v] = pc[v] /\ mine[v] # None /\ ~parks[mine[v]].woken
      BY <2>1, <1>2, Names DEF HInv, Stages, InWait
    <3>2. CASE waiting[v] = mine[v]
      BY ONLY <3>2, <1>0, <1>1, <1>2, mine' = mine, v \in Waiters, q \in Procs
    <3>3. CASE \E x \in Procs : took[x] = mine[v]
      BY ONLY <3>1, <3>3, <1>1, <1>2, mine' = mine
    <3>. QED
      BY <2>1, <3>1, <3>2, <3>3 DEF HInv, Findable
  <2>. QED
    BY <2>1 DEF Findable
<1>. QED
  BY <1>4, <1>5, <1>6, <1>7, <1>9, <1>10, <1>11 DEF HInv

(* A wake gives its park up: it marked it and drops its reference.         *)
GivesUp(q) ==
    /\ pc[q] \in Carrying
    /\ parks' = Released([parks EXCEPT ![took[q]].woken = TRUE], {took[q]})
    /\ took' = [took EXCEPT ![q] = None]
    /\ \/ pc' = [pc EXCEPT ![q] = "keep"] /\ target' = target
       \/ pc' = [pc EXCEPT ![q] = "idle"] /\ target' = [target EXCEPT ![q] = None]
    /\ waiting' = waiting /\ inbox' = inbox /\ mine' = mine

(* What that does to the parks.                                            *)
LEMMA GivenUp ==
    ASSUME TypeOK, HInv, NEW q \in Procs, GivesUp(q)
    PROVE  \E p \in Parks :
            /\ p = took[q] /\ parks[p].refs \in {1, 2} /\ Queued(p)
            /\ parks' \in [Parks -> ParkType]
            /\ \A r \in Parks : r # p => parks'[r] = parks[r]
            /\ parks[p].refs = 1 => parks'[p] = Free
            /\ parks[p].refs = 2 =>
                /\ parks'[p].refs = 1 /\ parks'[p].woken
                /\ parks'[p].left = parks[p].left /\ parks'[p].owner = parks[p].owner
<1>1. PICK p \in Parks : p = took[q] /\ parks[p].refs \in {1, 2} /\ Queued(p) /\ parks \in [Parks -> ParkType]
  BY HeldFacts DEF GivesUp, HInv, Stages
<1>. DEFINE f == [parks EXCEPT ![p].woken = TRUE]
<1>2. /\ f \in [Parks -> ParkType]
      /\ f[p].refs = parks[p].refs /\ f[p].woken = TRUE /\ f[p].left = parks[p].left
      /\ f[p].owner = parks[p].owner
      /\ \A r \in Parks : r # p => f[r] = parks[r]
  BY <1>1 DEF ParkType
<1>3. parks' = Released(f, {p})
  BY <1>1 DEF GivesUp
<1>. HIDE DEF f
<1>4. \A r \in {p} : r \in Parks => f[r].refs # 0
  BY ONLY <1>1, <1>2
<1>5. /\ Released(f, {p}) \in [Parks -> ParkType]
      /\ \A r \in Parks :
            /\ r \notin {p} => Released(f, {p})[r] = f[r]
            /\ r \in {p} /\ f[r].refs = 1 => Released(f, {p})[r] = Free
            /\ r \in {p} /\ f[r].refs = 2 =>
                /\ Released(f, {p})[r].refs = 1
                /\ Released(f, {p})[r].woken = f[r].woken
                /\ Released(f, {p})[r].left = f[r].left
                /\ Released(f, {p})[r].owner = f[r].owner
  BY ONLY <1>2, <1>4, ReleasedFacts
<1>6. \A r \in Parks : r # p => parks'[r] = parks[r]
  BY ONLY <1>2, <1>3, <1>5
<1>7. parks[p].refs = 1 => parks'[p] = Free
  BY ONLY <1>2, <1>3, <1>5, p \in Parks
<1>8. parks[p].refs = 2 =>
        /\ parks'[p].refs = 1 /\ parks'[p].woken
        /\ parks'[p].left = parks[p].left /\ parks'[p].owner = parks[p].owner
  <2>1. parks[p].refs = 2 =>
            /\ parks'[p].refs = 1 /\ parks'[p].woken = f[p].woken
            /\ parks'[p].left = f[p].left /\ parks'[p].owner = f[p].owner
    BY ONLY <1>2, <1>3, <1>5, p \in Parks
  <2>. QED
    BY ONLY <1>2, <2>1
<1>9. parks' \in [Parks -> ParkType]
  BY ONLY <1>3, <1>5
<1>. QED
  BY ONLY <1>1, <1>6, <1>7, <1>8, <1>9, p \in Parks

LEMMA HeldGiveUp ==
    ASSUME TypeOK, HInv, NEW q \in Procs, GivesUp(q)
    PROVE  HInv'
<1>1. PICK p \in Parks :
            /\ p = took[q] /\ parks[p].refs \in {1, 2} /\ Queued(p)
            /\ parks' \in [Parks -> ParkType]
            /\ \A r \in Parks : r # p => parks'[r] = parks[r]
            /\ parks[p].refs = 1 => parks'[p] = Free
            /\ parks[p].refs = 2 =>
                /\ parks'[p].refs = 1 /\ parks'[p].woken
                /\ parks'[p].left = parks[p].left /\ parks'[p].owner = parks[p].owner
  BY GivenUp
<1>2. /\ took'[q] = None /\ \A r \in Procs : r # q => took'[r] = took[r]
      /\ \/ pc'[q] = "keep" /\ target'[q] = target[q] /\ target[q] # None
         \/ pc'[q] = "idle" /\ target'[q] = None
      /\ \A r \in Procs : r # q => target'[r] = target[r] /\ pc'[r] = pc[r]
      /\ waiting' = waiting /\ inbox' = inbox /\ mine' = mine
      /\ p # None /\ pc[q] \in Carrying
      /\ q \in Waiters => mine[q] = None /\ waiting[q] = None
  <2>1. pc[q] \in Carrying /\ target[q] # None /\ p # None /\ (q \in Waiters => mine[q] = None /\ waiting[q] = None)
    BY <1>1, Names DEF GivesUp, HInv, Stages, Carrying, InWait
  <2>2. pc \in [Procs -> PCs] /\ took \in [Procs -> Parks \cup {None}] /\ target \in [Procs -> Waiters \cup {None}]
    BY DEF TypeOK
  <2>3. took'[q] = None /\ \A r \in Procs : r # q => took'[r] = took[r]
    BY <2>2 DEF GivesUp
  <2>4. CASE pc' = [pc EXCEPT ![q] = "keep"] /\ target' = target
    BY <2>1, <2>2, <2>3, <2>4 DEF GivesUp
  <2>5. CASE pc' = [pc EXCEPT ![q] = "idle"] /\ target' = [target EXCEPT ![q] = None]
    BY <2>1, <2>2, <2>3, <2>5 DEF GivesUp
  <2>. QED
    BY <2>4, <2>5 DEF GivesUp
<1>3. /\ \A v \in Waiters : waiting[v] # p
      /\ \A r \in Procs : r # q => took[r] # p
      /\ \A t \in Threads : ~Contains(inbox[t], p)
  BY ONLY <1>1, <1>2, HInv, q \in Procs DEF HInv, OneQueue
<1>4. InUse(p) <=> parks[p].refs = 2
  BY ONLY <1>1, HInv, p \in Parks DEF HInv, Counted
<1>5. /\ \A v \in Waiters : mine[v] # None =>
            /\ mine[v] \in Parks /\ v # q
            /\ parks'[mine[v]].owner = parks[mine[v]].owner
            /\ parks'[mine[v]].left = parks[mine[v]].left
            /\ ~parks'[mine[v]].woken => ~parks[mine[v]].woken /\ mine[v] # p
      /\ \A v \in Waiters : waiting[v] # None => waiting[v] \in Parks /\ waiting[v] # p
      /\ \A r \in Procs : took'[r] # None => r # q /\ took[r] \in Parks /\ took[r] # p
  <2>1. /\ \A v \in Waiters : mine[v] # None => mine[v] \in Parks /\ (mine[v] = p => InUse(p))
        /\ \A v \in Waiters : waiting[v] # None => waiting[v] \in Parks
        /\ \A r \in Procs : took[r] # None => took[r] \in Parks
    BY HeldFacts
  <2>. QED
    BY ONLY <1>1, <1>2, <1>3, <1>4, <2>1
<1>6. Stages'
  BY ONLY HInv, Names, <1>2 DEF HInv, Stages, Carrying, InWait
<1>7. Owned'
  BY ONLY HInv, <1>1, <1>2, <1>3, <1>5 DEF HInv, Owned
<1>8. Marked'
  BY ONLY HInv, <1>1, <1>2, <1>3, <1>5 DEF HInv, Marked, Stages, Carrying
<1>9. OneQueue'
  BY ONLY HInv, <1>2 DEF HInv, OneQueue
<1>10. \A r \in Parks : InUse(r)' <=> InUse(r)
  BY ONLY <1>2 DEF InUse
<1>11. ~Queued(p)'
  BY ONLY <1>2, <1>3 DEF Queued
<1>12. \A r \in Parks : r # p => (Queued(r)' <=> Queued(r))
  BY ONLY <1>1, <1>2, Names, q \in Procs DEF Queued
<1>13. Counted'
  <2>1. Free.refs = 0
    BY DEF Free
  <2>. QED
    BY ONLY HInv, <1>1, <1>4, <1>10, <1>11, <1>12, <2>1 DEF HInv, Counted
<1>14. LeftBehind'
  <2>1. Free.refs = 0
    BY DEF Free
  <2>2. \A v \in Waiters : mine'[v] # None =>
          (parks'[mine'[v]].left <=> pc'[v] \in {"withdraw", "release"})
    BY ONLY HInv, Names, <1>2, <1>5 DEF HInv, LeftBehind
  <2>3. \A r \in Parks : parks'[r].refs # 0 /\ ~parks'[r].left => InUse(r)'
    BY ONLY HInv, <1>1, <1>4, <1>10, <2>1 DEF HInv, LeftBehind
  <2>. QED
    BY <2>2, <2>3 DEF LeftBehind
<1>15. Findable'
  BY ONLY HInv, Names, <1>1, <1>2, <1>5 DEF HInv, Findable, Stages, InWait
<1>. QED
  BY <1>6, <1>7, <1>8, <1>9, <1>13, <1>14, <1>15 DEF HInv

(* A wake marks the park of a coroutine of another thread.                 *)
LEMMA HeldMark ==
    ASSUME TypeOK, HInv, NEW q \in Procs, pc[q] = "wakePark", parks[took[q]].owner \in Coros,
           parks' = [parks EXCEPT ![took[q]].woken = TRUE],
           pc' = [pc EXCEPT ![q] = "enqueue"],
           waiting' = waiting, mine' = mine, inbox' = inbox, took' = took, target' = target
    PROVE  HInv'
<1>1. PICK p \in Parks : p = took[q] /\ p # None /\ parks \in [Parks -> ParkType]
  BY HeldFacts, Names DEF HInv, Stages, Carrying
<1>2. /\ parks'[p].woken
      /\ parks'[p].refs = parks[p].refs /\ parks'[p].left = parks[p].left
      /\ parks'[p].owner = parks[p].owner
      /\ \A r \in Parks : r # p => parks'[r] = parks[r]
  BY <1>1 DEF ParkType
<1>3. pc'[q] = "enqueue" /\ \A r \in Procs : r # q => pc'[r] = pc[r]
  BY DEF TypeOK
<1>4. /\ \A v \in Waiters : waiting[v] # None => waiting[v] \in Parks /\ waiting[v] # p
      /\ \A v \in Waiters : mine[v] # None => mine[v] \in Parks
      /\ \A r \in Procs : r # q => took[r] # p
      /\ \A r \in Procs : took[r] # None => took[r] \in Parks
  BY <1>1, HeldFacts DEF HInv, OneQueue
<1>5. \A r \in Parks : /\ parks'[r].refs = parks[r].refs /\ parks'[r].left = parks[r].left
                       /\ parks'[r].owner = parks[r].owner
                       /\ parks[r].woken => parks'[r].woken
  BY ONLY <1>2
<1>6. /\ \A r \in Parks : InUse(r)' <=> InUse(r)
      /\ \A r \in Parks : Queued(r)' <=> Queued(r)
  BY DEF InUse, Queued
<1>7. Stages'
  BY ONLY HInv, Names, <1>3, waiting' = waiting, mine' = mine, took' = took, target' = target, pc[q] = "wakePark"
     DEF HInv, Stages, Carrying, InWait
<1>8. Owned'
  BY ONLY HInv, <1>4, <1>5, mine' = mine, took' = took, target' = target, inbox' = inbox DEF HInv, Owned
<1>9. Marked'
  BY ONLY HInv, <1>1, <1>2, <1>3, <1>4, <1>5, waiting' = waiting, took' = took, inbox' = inbox,
          parks[took[q]].owner \in Coros
     DEF HInv, Marked, Stages, Carrying
<1>10. OneQueue'
  BY DEF HInv, OneQueue
<1>11. Counted'
  BY ONLY HInv, <1>5, <1>6 DEF HInv, Counted
<1>12. LeftBehind'
  <2>1. \A v \in Waiters : mine[v] # None => v # q
    BY DEF HInv, Stages, InWait
  <2>2. \A v \in Waiters : mine'[v] # None =>
          (parks'[mine'[v]].left <=> pc'[v] \in {"withdraw", "release"})
    BY ONLY HInv, Names, <1>3, <1>4, <1>5, <2>1, mine' = mine DEF HInv, LeftBehind
  <2>3. \A r \in Parks : parks'[r].refs # 0 /\ ~parks'[r].left => InUse(r)'
    BY ONLY HInv, <1>5, <1>6 DEF HInv, LeftBehind
  <2>. QED
    BY <2>2, <2>3 DEF LeftBehind
<1>13. Findable'
  <2>1. \A v \in Waiters : pc'[v] \in {"look", "asleep"} =>
          v # q /\ pc'[v] = pc[v] /\ mine[v] # None
    BY <1>3, Names DEF HInv, Stages, InWait
  <2>. QED
    BY ONLY HInv, <1>4, <1>5, <2>1, mine' = mine, waiting' = waiting, took' = took DEF HInv, Findable
<1>. QED
  BY <1>7, <1>8, <1>9, <1>10, <1>11, <1>12, <1>13 DEF HInv

(* A wake hands its park, reference and all, to the inbox of the thread.   *)
LEMMA HeldEnqueue ==
    ASSUME TypeOK, HInv, NEW q \in Procs, pc[q] = "enqueue",
           inbox' = [inbox EXCEPT ![HomeOf[parks[took[q]].owner]] = Append(@, took[q])],
           took' = [took EXCEPT ![q] = None], target' = [target EXCEPT ![q] = None],
           pc' = [pc EXCEPT ![q] = "idle"],
           waiting' = waiting, mine' = mine, parks' = parks
    PROVE  HInv'
<1>1. PICK p \in Parks : p = took[q] /\ p # None /\ parks[p].woken /\ parks[p].owner \in Coros
  BY HeldFacts, Names DEF HInv, Stages, Carrying, Marked
<1>2. PICK t \in Threads : t = HomeOf[parks[p].owner]
  BY <1>1, Names
<1>3. /\ took'[q] = None /\ \A r \in Procs : r # q => took'[r] = took[r] /\ took[r] # p
      /\ target'[q] = None /\ \A r \in Procs : r # q => target'[r] = target[r]
      /\ pc'[q] = "idle" /\ \A r \in Procs : r # q => pc'[r] = pc[r]
  BY <1>1 DEF TypeOK, HInv, OneQueue
<1>4. /\ inbox[t] \in Seq(Parks) /\ inbox'[t] = Append(inbox[t], p)
      /\ \A u \in Threads : u # t => inbox'[u] = inbox[u]
  BY <1>1, <1>2 DEF TypeOK
<1>5. /\ \A x : Contains(inbox'[t], x) <=> Contains(inbox[t], x) \/ x = p
      /\ Once(inbox[t]) /\ ~Contains(inbox[t], p) => Once(inbox'[t])
  BY ONLY <1>4, AppendFacts, p \in Parks
<1>6. /\ \A u \in Threads : ~Contains(inbox[u], p)
      /\ \A v \in Waiters : waiting[v] # p
      /\ q \in Waiters => mine[q] = None /\ waiting[q] = None
  BY <1>1 DEF HInv, OneQueue, Stages, InWait
<1>7. \A u \in Threads, r \in Parks : Contains(inbox'[u], r) <=> Contains(inbox[u], r) \/ (u = t /\ r = p)
  BY ONLY <1>4, <1>5
<1>8. Stages'
  BY ONLY HInv, Names, <1>3, <1>6, waiting' = waiting, mine' = mine DEF HInv, Stages, Carrying, InWait
<1>9. Owned'
  BY ONLY HInv, <1>1, <1>2, <1>3, <1>7, mine' = mine, parks' = parks DEF HInv, Owned
<1>10. Marked'
  BY ONLY HInv, <1>1, <1>3, <1>7, parks' = parks, waiting' = waiting DEF HInv, Marked
<1>11. OneQueue'
  <2>1. \A x \in Procs, u \in Threads : took'[x] # None => ~Contains(inbox'[u], took'[x])
    <3>1. \A x \in Procs : took[x] # None => took[x] \in Parks
      BY HeldFacts
    <3>. QED
      BY ONLY HInv, <1>3, <1>7, <3>1 DEF HInv, OneQueue
  <2>2. \A u \in Threads : Once(inbox'[u])
    BY ONLY HInv, <1>4, <1>5, <1>6, t \in Threads DEF HInv, OneQueue
  <2>3. \A v \in Waiters, x \in Procs : waiting'[v] # None => took'[x] # waiting'[v]
    BY ONLY HInv, <1>3, waiting' = waiting DEF HInv, OneQueue
  <2>4. \A x, y \in Procs : took'[x] # None /\ took'[x] = took'[y] => x = y
    BY ONLY HInv, <1>3 DEF HInv, OneQueue
  <2>. QED
    BY <2>1, <2>2, <2>3, <2>4 DEF OneQueue
<1>12. \A r \in Parks : Queued(r)' <=> Queued(r)
  <2>1. ASSUME NEW r \in Parks
        PROVE  Queued(r)' <=> Queued(r)
    <3>1. CASE r = p
      <4>1. Queued(r) /\ \E u \in Threads : Contains(inbox'[u], r)
        BY <3>1, <1>1, <1>7 DEF Queued
      <4>. QED
        BY <4>1 DEF Queued
    <3>2. CASE r # p
      <4>1. (\E x \in Procs : took'[x] = r) <=> \E x \in Procs : took[x] = r
        BY ONLY <3>2, <1>1, <1>3, Names, r \in Parks
      <4>2. (\E u \in Threads : Contains(inbox'[u], r)) <=> \E u \in Threads : Contains(inbox[u], r)
        BY ONLY <3>2, <1>7, r \in Parks
      <4>. QED
        BY <4>1, <4>2 DEF Queued
    <3>. QED
      BY <3>1, <3>2
  <2>. QED
    BY <2>1
<1>13. \A r \in Parks : InUse(r)' <=> InUse(r)
  BY DEF InUse
<1>14. Counted'
  BY ONLY HInv, <1>12, <1>13, parks' = parks DEF HInv, Counted
<1>15. LeftBehind'
  <2>1. \A v \in Waiters : mine[v] # None => v # q
    BY <1>6
  <2>. QED
    BY ONLY HInv, Names, <1>3, <1>13, <2>1, mine' = mine, parks' = parks DEF HInv, LeftBehind
<1>16. Findable'
  <2>1. \A v \in Waiters : pc'[v] \in {"look", "asleep"} => v # q /\ pc'[v] = pc[v]
    BY <1>3, Names
  <2>. QED
    BY ONLY HInv, <1>1, <1>3, <2>1, mine' = mine, waiting' = waiting, parks' = parks DEF HInv, Findable
<1>. QED
  BY <1>8, <1>9, <1>10, <1>11, <1>14, <1>15, <1>16 DEF HInv

(* A wake is kept: it holds nothing any more.                              *)
LEMMA HeldKeep ==
    ASSUME TypeOK, HInv, NEW q \in Procs, pc[q] = "keep",
           took' = [took EXCEPT ![q] = None], target' = [target EXCEPT ![q] = None],
           pc' = [pc EXCEPT ![q] = "idle"],
           waiting' = waiting, mine' = mine, parks' = parks, inbox' = inbox
    PROVE  HInv'
<1>1. /\ took' = took
      /\ target'[q] = None /\ \A r \in Procs : r # q => target'[r] = target[r]
      /\ pc'[q] = "idle" /\ \A r \in Procs : r # q => pc'[r] = pc[r]
      /\ took[q] = None
      /\ q \in Waiters => mine[q] = None
  BY DEF TypeOK, HInv, Stages, Carrying, InWait
<1>2. Stages'
  BY ONLY HInv, Names, <1>1, waiting' = waiting, mine' = mine, pc[q] = "keep" DEF HInv, Stages, Carrying, InWait
<1>3. Owned'
  BY ONLY HInv, <1>1, mine' = mine, parks' = parks, inbox' = inbox DEF HInv, Owned
<1>4. Marked'
  BY ONLY HInv, <1>1, waiting' = waiting, parks' = parks, inbox' = inbox DEF HInv, Marked
<1>5. OneQueue'
  BY ONLY HInv, <1>1, waiting' = waiting, inbox' = inbox DEF HInv, OneQueue
<1>6. Counted'
  BY ONLY HInv, <1>1, waiting' = waiting, mine' = mine, parks' = parks, inbox' = inbox
     DEF HInv, Counted, InUse, Queued
<1>7. LeftBehind'
  BY ONLY HInv, Names, <1>1, mine' = mine, parks' = parks DEF HInv, LeftBehind, InUse
<1>8. Findable'
  BY ONLY HInv, Names, <1>1, mine' = mine, parks' = parks, waiting' = waiting DEF HInv, Findable
<1>. QED
  BY <1>2, <1>3, <1>4, <1>5, <1>6, <1>7, <1>8 DEF HInv

(* A thread takes the parks of its inbox and drops their references.       *)
LEMMA HeldEmpty ==
    ASSUME TypeOK, HInv, NEW t \in Threads,
           inbox' = [inbox EXCEPT ![t] = <<>>],
           parks' = Released(parks, Range(inbox[t])),
           pc' = pc, waiting' = waiting, mine' = mine, took' = took, target' = target
    PROVE  HInv' /\ parks' \in [Parks -> ParkType]
<1>1. PICK D : D = Range(inbox[t])
  OBVIOUS
<1>2. /\ inbox[t] \in Seq(Parks) /\ inbox'[t] = <<>>
      /\ \A u \in Threads : u # t => inbox'[u] = inbox[u]
  BY DEF TypeOK
<1>3. \A p : p \in D <=> Contains(inbox[t], p)
  BY <1>1, <1>2, RangeMembers
<1>4. /\ \A u \in Threads, p \in Parks : Contains(inbox'[u], p) <=> Contains(inbox[u], p) /\ u # t
      /\ \A u \in Threads, p \in Parks : Contains(inbox'[u], p) => p \notin D
  <2>1. \A x : ~Contains(inbox'[t], x)
    BY <1>2, EmptyFacts
  <2>2. \A u \in Threads, p \in Parks : Contains(inbox[u], p) /\ Contains(inbox[t], p) => u = t
    BY DEF HInv, Owned
  <2>. QED
    BY ONLY <1>2, <1>3, <2>1, <2>2, t \in Threads
<1>5. /\ \A v \in Waiters : waiting[v] # None => waiting[v] \in Parks /\ waiting[v] \notin D
      /\ \A v \in Waiters : mine[v] # None => mine[v] \in Parks /\ InUse(mine[v])
      /\ \A r \in Procs : took[r] # None => took[r] \in Parks /\ took[r] \notin D
  <2>1. \A v \in Waiters : waiting[v] # None => ~Contains(inbox[t], waiting[v])
    BY HeldFacts DEF HInv, Marked
  <2>2. \A r \in Procs : took[r] # None => ~Contains(inbox[t], took[r])
    BY DEF HInv, OneQueue
  <2>. QED
    BY <1>3, <2>1, <2>2, HeldFacts
<1>6. \A p \in Parks : p \in D => Queued(p) /\ parks[p].refs \in {1, 2} /\ parks[p].woken
  BY <1>3, HeldFacts DEF HInv, Marked
<1>7. \A p \in Parks : p \in D => ~Queued(p)'
  BY ONLY <1>4, <1>5, Names, waiting' = waiting, took' = took DEF Queued
<1>8. \A p \in Parks : p \notin D => (Queued(p)' <=> Queued(p))
  <2>1. ASSUME NEW p \in Parks, p \notin D
        PROVE  (\E u \in Threads : Contains(inbox'[u], p)) <=> \E u \in Threads : Contains(inbox[u], p)
    BY ONLY <1>3, <1>4, <2>1
  <2>. QED
    BY <2>1 DEF Queued
<1>9. \A p \in Parks : InUse(p)' <=> InUse(p)
  BY DEF InUse
<1>10. \A p \in Parks : p \in D => (InUse(p) <=> parks[p].refs = 2)
  BY ONLY HInv, <1>6 DEF HInv, Counted
<1>11. /\ Released(parks, D) \in [Parks -> ParkType]
       /\ \A r \in Parks :
            /\ r \notin D => Released(parks, D)[r] = parks[r]
            /\ r \in D /\ parks[r].refs = 1 => Released(parks, D)[r] = Free
            /\ r \in D /\ parks[r].refs = 2 =>
                /\ Released(parks, D)[r].refs = 1
                /\ Released(parks, D)[r].woken = parks[r].woken
                /\ Released(parks, D)[r].left = parks[r].left
                /\ Released(parks, D)[r].owner = parks[r].owner
  <2>1. parks \in [Parks -> ParkType] /\ \A p \in D : p \in Parks => parks[p].refs # 0
    BY <1>6, HeldFacts
  <2>. QED
    BY ONLY <2>1, ReleasedFacts
<1>12. /\ parks' \in [Parks -> ParkType]
       /\ \A r \in Parks : r \notin D => parks'[r] = parks[r]
       /\ \A r \in Parks : r \in D /\ ~InUse(r) => parks'[r].refs = 0
       /\ \A r \in Parks : r \in D /\ InUse(r) => parks'[r].refs = 1
       /\ \A r \in Parks : r \notin D \/ InUse(r) =>
            /\ parks'[r].woken = parks[r].woken /\ parks'[r].left = parks[r].left
            /\ parks'[r].owner = parks[r].owner
  <2>1. parks' = Released(parks, D) /\ Free.refs = 0
    BY <1>1 DEF Free
  <2>. QED
    BY ONLY <2>1, <1>6, <1>10, <1>11
<1>13. Stages'
  BY DEF HInv, Stages
<1>14. Owned'
  BY ONLY HInv, <1>4, <1>5, <1>12, mine' = mine, took' = took, target' = target DEF HInv, Owned
<1>15. Marked'
  <2>1. \A q \in Procs : pc[q] \in {"wakePark", "enqueue"} => took[q] # None
    BY DEF HInv, Stages, Carrying
  <2>. QED
    BY ONLY HInv, <1>4, <1>5, <1>12, <2>1, pc' = pc, took' = took, waiting' = waiting DEF HInv, Marked
<1>16. OneQueue'
  <2>1. \A q \in Procs, u \in Threads : took'[q] # None => ~Contains(inbox'[u], took'[q])
    BY ONLY HInv, <1>4, <1>5, took' = took DEF HInv, OneQueue
  <2>2. \A u \in Threads : Once(inbox'[u])
    BY <1>2, EmptyFacts DEF HInv, OneQueue
  <2>. QED
    BY <2>1, <2>2 DEF HInv, OneQueue
<1>17. Counted'
  BY ONLY HInv, <1>7, <1>8, <1>9, <1>12 DEF HInv, Counted
<1>18. LeftBehind'
  <2>1. \A v \in Waiters : mine'[v] # None =>
          (parks'[mine'[v]].left <=> pc'[v] \in {"withdraw", "release"})
    BY ONLY HInv, <1>5, <1>12, mine' = mine, pc' = pc DEF HInv, LeftBehind
  <2>2. \A r \in Parks : parks'[r].refs # 0 /\ ~parks'[r].left => InUse(r)'
    BY ONLY HInv, <1>9, <1>12 DEF HInv, LeftBehind
  <2>. QED
    BY <2>1, <2>2 DEF LeftBehind
<1>19. Findable'
  <2>1. \A v \in Waiters : pc[v] \in {"look", "asleep"} => mine[v] # None
    BY DEF HInv, Stages, InWait
  <2>. QED
    BY ONLY HInv, <1>5, <1>12, <2>1, pc' = pc, mine' = mine, took' = took, waiting' = waiting
       DEF HInv, Findable
<1>. QED
  BY <1>12, <1>13, <1>14, <1>15, <1>16, <1>17, <1>18, <1>19 DEF HInv

(* A coroutine falls asleep, or wakes up and looks.                        *)
LEMMA HeldSleep ==
    ASSUME TypeOK, HInv, NEW c \in Procs, NEW x,
           (pc[c] = "look" /\ x = "asleep") \/ x = (IF pc[c] = "asleep" THEN "look" ELSE pc[c]),
           pc' = [pc EXCEPT ![c] = x],
           waiting' = waiting, mine' = mine, parks' = parks, inbox' = inbox, took' = took, target' = target
    PROVE  HInv'
<1>1. /\ pc'[c] = pc[c] \/ (pc[c] \in {"look", "asleep"} /\ pc'[c] \in {"look", "asleep"})
      /\ \A v \in Procs : v # c => pc'[v] = pc[v]
  BY DEF TypeOK
<1>2. \A v \in Procs : pc'[v] = pc[v] \/ (pc[v] \in {"look", "asleep"} /\ pc'[v] \in {"look", "asleep"})
  BY ONLY <1>1
<1>3. Stages'
  BY ONLY HInv, Names, <1>2, waiting' = waiting, mine' = mine, took' = took, target' = target
     DEF HInv, Stages, Carrying, InWait
<1>4. Owned' /\ OneQueue' /\ Counted'
  BY DEF HInv, Owned, OneQueue, Counted, InUse, Queued
<1>5. Marked'
  BY ONLY HInv, Names, <1>2, waiting' = waiting, parks' = parks, inbox' = inbox, took' = took DEF HInv, Marked
<1>6. LeftBehind'
  BY ONLY HInv, Names, <1>2, mine' = mine, parks' = parks DEF HInv, LeftBehind, InUse
<1>7. Findable'
  BY ONLY HInv, Names, <1>2, mine' = mine, parks' = parks, took' = took, waiting' = waiting DEF HInv, Findable
<1>. QED
  BY <1>3, <1>4, <1>5, <1>6, <1>7 DEF HInv

(* Most steps do not touch any of this.                                    *)
Unheld == UNCHANGED <<waiting, parks, inbox, pc, mine, target, took>>

LEMMA HeldSame ==
    ASSUME HInv, Unheld
    PROVE  HInv'
<1>1. Stages' /\ Owned' /\ Marked'
  BY DEF Unheld, HInv, Stages, Owned, Marked
<1>2. OneQueue' /\ Counted' /\ LeftBehind' /\ Findable'
  BY DEF Unheld, HInv, OneQueue, Counted, InUse, Queued, LeftBehind, Findable
<1>. QED
  BY <1>1, <1>2 DEF HInv

LEMMA HeldInit == Init => HInv
<1>. SUFFICES ASSUME Init PROVE HInv
  OBVIOUS
<1>1. /\ \A w \in Waiters : mine[w] = None /\ waiting[w] = None /\ w \in Procs
      /\ \A q \in Procs : took[q] = None /\ target[q] = None /\ pc[q] = "idle"
      /\ \A t \in Threads : inbox[t] = <<>>
      /\ \A p \in Parks : parks[p] = Free /\ p # None
  BY Names DEF Init
<1>2. \A t \in Threads : Once(inbox[t]) /\ \A p : ~Contains(inbox[t], p)
  BY <1>1, EmptyFacts
<1>3. Free.refs = 0
  BY DEF Free
<1>4. Stages /\ Owned /\ Marked /\ OneQueue
  BY <1>1, <1>2 DEF Stages, Owned, Marked, OneQueue, InWait, Carrying
<1>5. Counted /\ LeftBehind /\ Findable
  BY <1>1, <1>2, <1>3 DEF Counted, InUse, Queued, LeftBehind, Findable
<1>. QED
  BY <1>4, <1>5 DEF HInv

-----------------------------------------------------------------------------
(* Each action, for what is held                                           *)

LEMMA BeginWaitHeld ==
    ASSUME TypeOK, HInv, NEW w \in Procs, BeginWait(w)
    PROVE  HInv'
<1>1. CASE w \in signaled
  BY <1>1, HeldSame DEF BeginWait, Unheld, home, sched, wake
<1>2. CASE w \notin signaled
  <2>1. PICK p \in Parks : /\ parks[p].refs = 0
                           /\ parks' = [parks EXCEPT ![p] = [Free EXCEPT !.refs = 2, !.owner = w]]
                           /\ waiting' = [waiting EXCEPT ![w] = p]
                           /\ mine' = [mine EXCEPT ![w] = p]
    BY <1>2 DEF BeginWait
  <2>2. /\ w \in Waiters /\ pc[w] = "idle" /\ pc' = [pc EXCEPT ![w] = "look"]
        /\ inbox' = inbox /\ took' = took /\ target' = target
    BY <1>2 DEF BeginWait, Idle, Goto, home, wake
  <2>. QED
    BY <2>1, <2>2, HeldBegin
<1>. QED
  BY <1>1, <1>2

LEMMA WaitHeld ==
    ASSUME TypeOK, HInv, NEW w \in Waiters, Leave(w) \/ Withdraw(w) \/ Release(w)
    PROVE  HInv'
<1>1. CASE Leave(w)
  BY <1>1, HeldLeave DEF Leave, Goto, waker, home, wake
<1>2. CASE Withdraw(w)
  BY <1>2, HeldWithdraw DEF Withdraw, Goto, home, wake
<1>3. CASE Release(w)
  BY <1>3, HeldRelease DEF Release, Goto, waker, home, wake
<1>. QED
  BY <1>1, <1>2, <1>3

LEMMA BeginWakeHeld ==
    ASSUME TypeOK, HInv, NEW q \in Procs, BeginWake(q)
    PROVE  HInv'
<1>1. PICK w \in Waiters :
        \/ /\ waiting[w] = None
           /\ UNCHANGED <<waiting, pc, wake>>
        \/ /\ waiting[w] # None
           /\ waiting' = [waiting EXCEPT ![w] = None]
           /\ took' = [took EXCEPT ![q] = waiting[w]]
           /\ target' = [target EXCEPT ![q] = w]
           /\ Goto(q, "wakePark")
  BY DEF BeginWake
<1>2. pc[q] = "idle" /\ parks' = parks /\ mine' = mine /\ inbox' = inbox
  BY DEF BeginWake, Idle, home
<1>3. CASE waiting[w] = None
  BY <1>1, <1>2, <1>3, HeldSame DEF Unheld, wake
<1>4. CASE waiting[w] # None
  BY <1>1, <1>2, <1>4, HeldTake DEF Goto
<1>. QED
  BY <1>3, <1>4

(* Whom a wake_park does what for: it gives its park up, or marks it for   *)
(* a coroutine of another thread.                                          *)
LEMMA WakeParkShape ==
    ASSUME TypeOK, HInv, NEW q \in Procs, WakePark(q)
    PROVE  \/ GivesUp(q)
           \/ /\ pc[q] = "wakePark" /\ parks[took[q]].owner \in Coros
              /\ parks' = [parks EXCEPT ![took[q]].woken = TRUE]
              /\ pc' = [pc EXCEPT ![q] = "enqueue"]
              /\ waiting' = waiting /\ mine' = mine /\ inbox' = inbox /\ took' = took /\ target' = target
<1>. DEFINE p == took[q]
            w == parks[p].owner
            marked == [parks EXCEPT ![p].woken = TRUE]
            own == q \in Coros /\ w \in Coros /\ HomeOf[q] = HomeOf[w]
<1>1. pc[q] = "wakePark" /\ waiting' = waiting /\ mine' = mine /\ inbox' = inbox
  BY DEF WakePark, waker, home
<1>2. \/ parks' = Released(marked, {p}) /\ Keeps(q)
      \/ parks' = Released(marked, {p}) /\ WakeEnds(q)
      \/ w \in Coros /\ parks' = marked /\ Goto(q, "enqueue") /\ UNCHANGED <<wake, calls>>
  BY DEF WakePark
<1>. HIDE DEF own
<1>. QED
  BY <1>1, <1>2 DEF GivesUp, Carrying, Keeps, WakeEnds, Goto, wake

LEMMA EnqueueShape ==
    ASSUME TypeOK, HInv, NEW q \in Procs, Enqueue(q)
    PROVE  \/ GivesUp(q)
           \/ /\ pc[q] = "enqueue"
              /\ inbox' = [inbox EXCEPT ![HomeOf[parks[took[q]].owner]] = Append(@, took[q])]
              /\ took' = [took EXCEPT ![q] = None] /\ target' = [target EXCEPT ![q] = None]
              /\ pc' = [pc EXCEPT ![q] = "idle"]
              /\ waiting' = waiting /\ mine' = mine /\ parks' = parks
<1>1. pc[q] = "enqueue" /\ waiting' = waiting /\ mine' = mine
  BY DEF Enqueue, waker
<1>2. parks = [parks EXCEPT ![took[q]].woken = TRUE]
  <2>1. took[q] \in Parks /\ parks \in [Parks -> ParkType] /\ parks[took[q]].woken
    BY <1>1, HeldFacts DEF HInv, Stages, Carrying, Marked
  <2>2. parks[took[q]].woken = TRUE
    BY <2>1 DEF ParkType
  <2>3. [parks[took[q]] EXCEPT !.woken = TRUE] = parks[took[q]]
    BY <2>1, <2>2 DEF ParkType
  <2>. QED
    BY <2>1, <2>3
<1>3. \/ parks' = Released(parks, {took[q]}) /\ Keeps(q) /\ inbox' = inbox
      \/ /\ inbox' = [inbox EXCEPT ![HomeOf[parks[took[q]].owner]] = Append(@, took[q])]
         /\ WakeEnds(q) /\ parks' = parks
  BY DEF Enqueue
<1>. QED
  BY <1>1, <1>2, <1>3 DEF GivesUp, Carrying, Keeps, WakeEnds, Goto

LEMMA WakeHeld ==
    ASSUME TypeOK, HInv, NEW q \in Procs, WakePark(q) \/ Enqueue(q) \/ Keep(q)
    PROVE  HInv'
<1>1. CASE WakePark(q)
  BY <1>1, WakeParkShape, HeldGiveUp, HeldMark
<1>2. CASE Enqueue(q)
  BY <1>2, EnqueueShape, HeldGiveUp, HeldEnqueue
<1>3. CASE Keep(q)
  BY <1>3, HeldKeep DEF Keep, WakeEnds, Goto, home
<1>. QED
  BY <1>1, <1>2, <1>3

LEMMA HeldStep ==
    ASSUME TypeOK, HInv, [Next]_vars
    PROVE  HInv'
<1>1. ASSUME NEW x \in Procs, Call(x)
      PROVE  HInv'
  <2>1. CASE Sleep(x)
    <3>1. pc[x] = "look" /\ pc' = [pc EXCEPT ![x] = "asleep"]
      BY <2>1 DEF Sleep, Goto
    <3>2. /\ waiting' = waiting /\ mine' = mine /\ parks' = parks /\ inbox' = inbox
          /\ took' = took /\ target' = target
      BY <2>1 DEF Sleep, waker, home, wake
    <3>. QED
      BY <3>1, <3>2, HeldSleep
  <2>2. CASE Complete(x)
    BY <2>2, HeldSame DEF Complete, Unheld, waker, home, wake
  <2>. QED
    BY <1>1, <2>1, <2>2, BeginWaitHeld, WaitHeld, BeginWakeHeld, WakeHeld DEF Call
<1>2. ASSUME NEW w \in Waiters, TimePasses(w)
      PROVE  HInv'
  BY <1>2, HeldSame DEF TimePasses, Unheld, waker, home, wake
<1>3. ASSUME NEW t \in Threads, Resume(t)
      PROVE  HInv'
  <2>1. PICK c \in Coros : pc' = [pc EXCEPT ![c] = IF pc[c] = "asleep" THEN "look" ELSE pc[c]]
    <3>1. batch[t] \in Seq(Coros) /\ batch[t] # <<>>
      BY <1>3 DEF TypeOK, Resume
    <3>2. Head(batch[t]) \in Coros
      BY <3>1, HeadTailProperties, EmptySeq
    <3>. QED
      BY <1>3, <3>2 DEF Resume
  <2>2. c \in Procs
    BY Names
  <2>3. /\ waiting' = waiting /\ mine' = mine /\ parks' = parks /\ inbox' = inbox
        /\ took' = took /\ target' = target
    BY <1>3 DEF Resume, waker, home, wake
  <2>. QED
    BY <2>1, <2>2, <2>3, HeldSleep
<1>4. ASSUME NEW t \in Threads, DrainHome(t)
      PROVE  HInv'
  BY <1>4, HeldEmpty DEF DrainHome, waker, wake
<1>5. ASSUME NEW t \in Threads, HomeClose(t)
      PROVE  HInv'
  BY <1>5, HeldEmpty DEF HomeClose, waker, wake
<1>6. ASSUME NEW t \in Threads, Schedule(t) \/ LoopOn(t) \/ PollEnd(t)
      PROVE  HInv'
  <2>1. Unheld
    BY <1>6 DEF Schedule, LoopOn, PollEnd, Unheld, waker, home, wake
  <2>. QED
    BY <2>1, HeldSame
<1>7. ASSUME NEW t \in Threads, ExpireParks(t) \/ WaitForEvents(t)
      PROVE  HInv'
  <2>1. Unheld
    BY <1>7 DEF ExpireParks, WaitForEvents, Unheld, waker, home, wake
  <2>. QED
    BY <2>1, HeldSame
<1>8. CASE UNCHANGED vars
  BY <1>8, HeldSame DEF vars, Unheld
<1>. QED
  BY <1>1, <1>2, <1>3, <1>4, <1>5, <1>6, <1>7, <1>8 DEF Next, Loop

-----------------------------------------------------------------------------
(* Types                                                                   *)

LEMMA DeliverTypes ==
    ASSUME TypeOK, NEW t \in Threads, NEW ps \in Seq(Parks), Deliver(t, ps)
    PROVE  runCoros' \in [Threads -> Seq(Coros)] /\ park' \in [Coros -> Parks \cup {None}]
<1>1. PICK cs \in Seq(Coros) :
        /\ runCoros' = [runCoros EXCEPT ![t] = @ \o cs]
        /\ park' = [c \in Coros |-> IF Contains(cs, c) THEN None ELSE park[c]]
  BY Delivered
<1>2. runCoros \in [Threads -> Seq(Coros)] /\ park \in [Coros -> Parks \cup {None}]
  BY DEF TypeOK
<1>3. runCoros[t] \o cs \in Seq(Coros)
  BY <1>2, ConcatFacts
<1>. QED
  BY <1>1, <1>2, <1>3

(* The parks that expire_parks looks at.                                   *)
LEMMA ExpiredFacts ==
    ASSUME NEW t \in Threads, NEW ps \in SetToSeqs(Expired(t))
    PROVE  ps \in Seq(Parks) /\ \A p : Contains(ps, p) <=> p \in Expired(t)
<1>1. Expired(t) \subseteq Parks /\ IsFiniteSet(Expired(t))
  <2>1. Expired(t) \subseteq Parks
    BY DEF Expired
  <2>. QED
    BY <2>1, Names, FS_Subset
<1>2. ps \in Seq(Expired(t)) /\ \A p : Contains(ps, p) <=> p \in Expired(t)
  BY <1>1, Enumerates
<1>. QED
  BY <1>1, <1>2, Widened

LEMMA TypeInit == Init => TypeOK
<1>. SUFFICES ASSUME Init PROVE TypeOK
  OBVIOUS
<1>1. Free \in [refs : 0 .. 2, woken : BOOLEAN, left : BOOLEAN, owner : Waiters \cup {None}]
  BY DEF Free
<1>2. ASSUME NEW t \in Threads
      PROVE  SetToSeq({c \in Coros : HomeOf[c] = t}) \in Seq(Coros)
  <2>. DEFINE S == {c \in Coros : HomeOf[c] = t}
  <2>1. S \subseteq Coros /\ IsFiniteSet(S)
    BY Names, FS_Subset
  <2>2. SetToSeq(S) \in SetToSeqs(S)
    BY <2>1, SomeEnumeration
  <2>3. SetToSeq(S) \in Seq(S)
    BY <2>1, <2>2, Enumerates
  <2>. QED
    BY <2>1, <2>3, Widened
<1>3. runCoros \in [Threads -> Seq(Coros)] /\ batch \in [Threads -> Seq(Coros)] /\ inbox \in [Threads -> Seq(Parks)]
  BY <1>2 DEF Init
<1>4. /\ 0 \in 0 .. MaxCalls
      /\ calls \in [Procs -> 0 .. MaxCalls]
  BY ParkingAssumption DEF Init
<1>. QED
  BY <1>1, <1>3, <1>4 DEF Init, TypeOK, PCs, Phases

(* Each action, for what it changes                                        *)

LEMMA Counts ==
    ASSUME TypeOK, NEW x \in Procs, calls[x] < MaxCalls
    PROVE  [calls EXCEPT ![x] = @ + 1] \in [Procs -> 0 .. MaxCalls]
<1>1. calls[x] \in 0 .. MaxCalls /\ calls \in [Procs -> 0 .. MaxCalls] /\ MaxCalls \in Nat
  BY ParkingAssumption DEF TypeOK
<1>2. calls[x] + 1 \in 0 .. MaxCalls
  BY <1>1
<1>. QED
  BY <1>1, <1>2

LEMMA MoreWoken ==
    ASSUME TypeOK, NEW w \in Waiters, Woke(w)
    PROVE  woke' \in [Waiters -> Nat]
BY DEF TypeOK, Woke

LEMMA WaitTypes ==
    ASSUME TypeOK, HInv, NEW w \in Waiters,
           Bounded, BeginWait(w) \/ Leave(w) \/ Withdraw(w) \/ Release(w) \/ TimePasses(w)
    PROVE  TypeOK'
<1>1. CASE BeginWait(w)
  <2>2. CASE w \in signaled
    <3>1. calls' \in [Procs -> 0 .. MaxCalls]
      <4>1. calls[w] < MaxCalls /\ calls' = [calls EXCEPT ![w] = @ + 1] /\ w \in Procs
        BY <1>1, <2>2, Names DEF BeginWait, Idle, Count
      <4>. QED
        BY <4>1, Counts
    <3>2. woke' \in [Waiters -> Nat]
      BY <1>1, <2>2, MoreWoken DEF BeginWait
    <3>. QED
      BY <1>1, <2>2, <3>1, <3>2 DEF BeginWait, home, sched, wake, TypeOK
  <2>3. CASE w \notin signaled
    <3>1. PICK p \in Parks : /\ parks' = [parks EXCEPT ![p] = [Free EXCEPT !.refs = 2, !.owner = w]]
                             /\ waiting' = [waiting EXCEPT ![w] = p]
                             /\ mine' = [mine EXCEPT ![w] = p]
      BY <1>1, <2>3 DEF BeginWait
    <3>2. [Free EXCEPT !.refs = 2, !.owner = w] \in [refs : 0 .. 2, woken : BOOLEAN, left : BOOLEAN, owner : Waiters \cup {None}]
      <4>1. Free \in ParkType
        BY DEF Free, ParkType
      <4>2. [Free EXCEPT !.refs = 2] \in ParkType
        BY ONLY <4>1 DEF ParkType
      <4>. QED
        BY ONLY <4>2, w \in Waiters DEF ParkType
    <3>3. parks' \in [Parks -> [refs : 0 .. 2, woken : BOOLEAN, left : BOOLEAN, owner : Waiters \cup {None}]]
      BY <3>1, <3>2 DEF TypeOK
    <3>4. pc' \in [Procs -> PCs]
      BY <1>1, <2>3, Names DEF BeginWait, Goto, TypeOK, PCs
    <3>. QED
      BY <1>1, <2>3, <3>1, <3>3, <3>4 DEF BeginWait, home, sched, wake, history, TypeOK
  <2>. QED
    BY <2>2, <2>3
<1>2. CASE Leave(w)
  <2>1. mine[w] \in Parks
    BY <1>2, HeldFacts DEF Leave, HInv, Stages, InWait
  <2>2. parks' \in [Parks -> [refs : 0 .. 2, woken : BOOLEAN, left : BOOLEAN, owner : Waiters \cup {None}]]
    <3>1. parks \in [Parks -> ParkType] /\ parks' = [parks EXCEPT ![mine[w]].left = TRUE]
      BY <1>2, HeldFacts DEF Leave
    <3>2. [parks[mine[w]] EXCEPT !.left = TRUE] \in ParkType
      BY ONLY <2>1, <3>1 DEF ParkType
    <3>3. parks' \in [Parks -> ParkType]
      BY ONLY <2>1, <3>1, <3>2
    <3>. QED
      BY ONLY <3>3 DEF ParkType
  <2>3. pc' \in [Procs -> PCs] /\ woke' \in [Waiters -> Nat]
    <3>1. woke \in [Waiters -> Nat]
      BY DEF TypeOK
    <3>2. Woke(w) \/ woke' = woke
      BY ONLY <1>2 DEF Leave
    <3>3. woke' \in [Waiters -> Nat]
      BY ONLY TypeOK, w \in Waiters, <3>1, <3>2, MoreWoken
    <3>4. pc' \in [Procs -> PCs]
      <4>1. Goto(w, "release") \/ Goto(w, "withdraw")
        BY ONLY <1>2 DEF Leave
      <4>2. pc \in [Procs -> PCs] /\ {"release", "withdraw"} \subseteq PCs
        BY DEF TypeOK, PCs
      <4>. QED
        BY ONLY <4>1, <4>2 DEF Goto
    <3>. QED
      BY <3>3, <3>4
  <2>. QED
    BY <1>2, <2>2, <2>3 DEF Leave, waker, home, sched, wake, history, TypeOK
<1>3. CASE Withdraw(w)
  <2>1. parks' \in [Parks -> ParkType] /\ waiting' \in [Waiters -> Parks \cup {None}]
    <3>1. parks \in [Parks -> ParkType] /\ waiting \in [Waiters -> Parks \cup {None}]
      BY HeldFacts DEF TypeOK
    <3>2. mine[w] \in Parks /\ parks[mine[w]].refs # 0
      BY <1>3, HeldFacts DEF Withdraw, HInv, Stages, InWait
    <3>3. Released(parks, {mine[w]}) \in [Parks -> ParkType]
      <4>1. \A p \in {mine[w]} : p \in Parks => parks[p].refs # 0
        BY <3>2
      <4>. QED
        BY ONLY <3>1, <4>1, ReleasedFacts
    <3>. QED
      BY <1>3, <3>1, <3>3 DEF Withdraw
  <2>2. pc' \in [Procs -> PCs]
    BY <1>3, Names DEF Withdraw, Goto, TypeOK, PCs
  <2>. QED
    BY <1>3, <2>1, <2>2 DEF Withdraw, home, sched, wake, history, TypeOK, ParkType
<1>4. CASE Release(w)
  <2>1. parks' \in [Parks -> ParkType]
    <3>1. parks \in [Parks -> ParkType] /\ mine[w] \in Parks /\ parks[mine[w]].refs # 0
      BY <1>4, HeldFacts DEF Release, HInv, Stages, InWait
    <3>2. Released(parks, {mine[w]}) \in [Parks -> ParkType]
      <4>1. \A p \in {mine[w]} : p \in Parks => parks[p].refs # 0
        BY <3>1
      <4>. QED
        BY ONLY <3>1, <4>1, ReleasedFacts
    <3>. QED
      BY <1>4, <3>2 DEF Release
  <2>2. pc' \in [Procs -> PCs]
    BY <1>4, Names DEF Release, Goto, TypeOK, PCs
  <2>3. calls' \in [Procs -> 0 .. MaxCalls]
    <3>1. calls[w] < MaxCalls /\ calls' = [calls EXCEPT ![w] = @ + 1] /\ w \in Procs
      BY <1>4, Names DEF Release, Count, Bounded
    <3>. QED
      BY <3>1, Counts
  <2>. QED
    BY <1>4, <2>1, <2>2, <2>3 DEF Release, waker, home, sched, wake, history, TypeOK, ParkType
<1>5. CASE TimePasses(w)
  BY <1>5 DEF TimePasses, waker, home, sched, wake, history, TypeOK
<1>. QED
  BY <1>1, <1>2, <1>3, <1>4, <1>5

LEMMA WakeTypes ==
    ASSUME TypeOK, HInv, Bounded, NEW q \in Procs,
           Sleep(q) \/ BeginWake(q) \/ WakePark(q) \/ Enqueue(q) \/ Keep(q) \/ Complete(q)
    PROVE  TypeOK'
<1>0. ASSUME WakeEnds(q), pc[q] # "idle"
      PROVE  /\ pc' \in [Procs -> PCs] /\ calls' \in [Procs -> 0 .. MaxCalls]
             /\ target' \in [Procs -> Waiters \cup {None}] /\ took' \in [Procs -> Parks \cup {None}]
  <2>1. calls[q] < MaxCalls
    BY <1>0 DEF Bounded
  <2>2. calls' \in [Procs -> 0 .. MaxCalls]
    BY <1>0, <2>1, Counts DEF WakeEnds, Count
  <2>. QED
    BY <1>0, <2>2 DEF WakeEnds, Goto, TypeOK, PCs
<1>1. CASE Sleep(q)
  <2>1. q \in Coros /\ q \in Waiters /\ mine[q] \in Parks /\ HomeOf[q] \in Threads
    BY <1>1, HeldFacts, Names DEF Sleep, HInv, Stages, InWait
  <2>. QED
    BY <1>1, <2>1 DEF Sleep, Goto, waker, home, wake, history, TypeOK, PCs
<1>2. CASE BeginWake(q)
  <2>1. PICK w \in Waiters :
        \/ /\ waiting[w] = None
           /\ signaled' = signaled \cup {w}
           /\ Count(q)
           /\ UNCHANGED <<waiting, pc, wake>>
        \/ /\ waiting[w] # None
           /\ waiting' = [waiting EXCEPT ![w] = None]
           /\ took' = [took EXCEPT ![q] = waiting[w]]
           /\ target' = [target EXCEPT ![q] = w]
           /\ Goto(q, "wakePark")
           /\ UNCHANGED <<signaled, calls>>
    BY <1>2 DEF BeginWake
  <2>2. calls[q] < MaxCalls /\ sent' \in [Waiters -> Nat]
    BY <1>2 DEF BeginWake, Idle, TypeOK
  <2>3. CASE waiting[w] = None
    <3>1. calls' \in [Procs -> 0 .. MaxCalls] /\ signaled' \in SUBSET Waiters /\ UNCHANGED <<waiting, pc, wake>>
      BY <2>1, <2>2, <2>3, Counts DEF Count, TypeOK
    <3>. QED
      BY <1>2, <3>1 DEF BeginWake, home, sched, wake, history, TypeOK
  <2>4. CASE waiting[w] # None
    <3>1. /\ waiting' \in [Waiters -> Parks \cup {None}] /\ took' \in [Procs -> Parks \cup {None}]
          /\ target' \in [Procs -> Waiters \cup {None}] /\ pc' \in [Procs -> PCs]
          /\ UNCHANGED <<signaled, calls>>
      <4>1. /\ waiting \in [Waiters -> Parks \cup {None}] /\ took \in [Procs -> Parks \cup {None}]
            /\ target \in [Procs -> Waiters \cup {None}] /\ pc \in [Procs -> PCs]
            /\ "wakePark" \in PCs
        BY DEF TypeOK, PCs
      <4>2. waiting[w] \in Parks \cup {None}
        BY <4>1
      <4>. QED
        BY ONLY <2>1, <2>4, <4>1, <4>2, w \in Waiters DEF Goto
    <3>. QED
      BY <1>2, <2>2, <3>1 DEF BeginWake, home, sched, TypeOK
  <2>. QED
    BY <2>3, <2>4
<1>3. CASE WakePark(q)
  <2>1. took[q] \in Parks /\ pc[q] = "wakePark" /\ <<took[q]>> \in Seq(Parks)
    <3>1. took[q] \in Parks /\ pc[q] = "wakePark"
      BY <1>3, HeldFacts DEF WakePark, HInv, Stages, Carrying
    <3>. QED
      BY <3>1
  <2>2. parks' \in [Parks -> ParkType]
    <3>1. parks \in [Parks -> ParkType]
      BY HeldFacts
    <3>2. [parks EXCEPT ![took[q]].woken = TRUE] \in [Parks -> ParkType]
      BY <2>1, <3>1 DEF ParkType
    <3>. QED
      BY <1>3, <3>2, WakeParkShape, GivenUp
  <2>3. runCoros' \in [Threads -> Seq(Coros)] /\ park' \in [Coros -> Parks \cup {None}]
    <3>1. CASE UNCHANGED <<runCoros, park>>
      BY <3>1 DEF TypeOK
    <3>2. CASE parks[took[q]].owner \in Coros /\ Deliver(HomeOf[parks[took[q]].owner], <<took[q]>>)
      BY <2>1, <3>2, Names, DeliverTypes
    <3>. QED
      BY <1>3, <3>1, <3>2 DEF WakePark
  <2>4. /\ pc' \in [Procs -> PCs] /\ calls' \in [Procs -> 0 .. MaxCalls]
        /\ target' \in [Procs -> Waiters \cup {None}] /\ took' \in [Procs -> Parks \cup {None}]
    <3>1. CASE WakeEnds(q)
      BY <1>0, <2>1, <3>1
    <3>2. CASE Keeps(q)
      BY <3>2 DEF Keeps, Goto, TypeOK, PCs
    <3>3. CASE Goto(q, "enqueue") /\ UNCHANGED <<wake, calls>>
      BY <3>3 DEF Goto, wake, history, TypeOK, PCs
    <3>. QED
      BY <1>3, <3>1, <3>2, <3>3 DEF WakePark
  <2>. QED
    BY <1>3, <2>2, <2>3, <2>4 DEF WakePark, waker, home, history, TypeOK, ParkType
<1>4. CASE Enqueue(q)
  <2>1. /\ took[q] \in Parks /\ pc[q] = "enqueue" /\ parks \in [Parks -> ParkType]
        /\ HomeOf[parks[took[q]].owner] \in Threads
    BY <1>4, HeldFacts, Names DEF Enqueue, HInv, Stages, Carrying, Marked
  <2>2. PICK t \in Threads : t = HomeOf[parks[took[q]].owner]
    BY <2>1
  <2>3. parks' \in [Parks -> ParkType]
    BY <1>4, <2>1, EnqueueShape, GivenUp
  <2>4. /\ pc' \in [Procs -> PCs] /\ calls' \in [Procs -> 0 .. MaxCalls]
        /\ target' \in [Procs -> Waiters \cup {None}] /\ took' \in [Procs -> Parks \cup {None}]
    <3>1. CASE WakeEnds(q)
      BY <1>0, <2>1, <3>1
    <3>2. CASE Keeps(q)
      BY <3>2 DEF Keeps, Goto, TypeOK, PCs
    <3>. QED
      BY <1>4, <3>1, <3>2 DEF Enqueue
  <2>5. inbox' \in [Threads -> Seq(Parks)] /\ rung' \in SUBSET Threads /\ bell' \in SUBSET Threads
    <3>1. Append(inbox[t], took[q]) \in Seq(Parks)
      BY <2>1, AppendFacts DEF TypeOK
    <3>2. inbox' = inbox \/ inbox' = [inbox EXCEPT ![t] = Append(@, took[q])]
      BY <1>4, <2>2 DEF Enqueue
    <3>3. (rung' = rung /\ bell' = bell) \/ (rung' = rung \cup {t} /\ bell' = bell \cup {t})
      BY <1>4, <2>2 DEF Enqueue
    <3>. QED
      BY <3>1, <3>2, <3>3 DEF TypeOK
  <2>. QED
    BY <1>4, <2>3, <2>4, <2>5 DEF Enqueue, waker, sched, history, TypeOK, ParkType
<1>5. CASE Keep(q)
  <2>1. target[q] \in Waiters /\ pc[q] # "idle"
    BY <1>5 DEF Keep, TypeOK, HInv, Stages
  <2>. QED
    BY <1>0, <1>5, <2>1 DEF Keep, home, sched, history, TypeOK
<1>6. CASE Complete(q)
  BY <1>6, Names DEF Complete, waker, home, wake, history, TypeOK
<1>. QED
  BY <1>1, <1>2, <1>3, <1>4, <1>5, <1>6

LEMMA LoopTypes ==
    ASSUME TypeOK, HInv, NEW t \in Threads,
           \/ Schedule(t) \/ Resume(t) \/ LoopOn(t) \/ PollEnd(t)
           \/ DrainHome(t) \/ ExpireParks(t) \/ WaitForEvents(t) \/ HomeClose(t)
    PROVE  TypeOK'
<1>1. CASE Schedule(t)
  <2>1. <<>> \in Seq(Coros)
    OBVIOUS
  <2>. QED
    BY <1>1, <2>1 DEF Schedule, To, waker, home, wake, history, TypeOK, Phases
<1>2. CASE Resume(t)
  <2>1. batch[t] \in Seq(Coros) /\ batch[t] # <<>>
    BY <1>2 DEF TypeOK, Resume
  <2>2. Head(batch[t]) \in Coros /\ Tail(batch[t]) \in Seq(Coros)
    BY <2>1, TailFacts
  <2>3. PICK c \in Coros : c = Head(batch[t])
    BY <2>2
  <2>4. /\ current' = [current EXCEPT ![t] = c] /\ park' = [park EXCEPT ![c] = None]
        /\ pc' = [pc EXCEPT ![c] = IF pc[c] = "asleep" THEN "look" ELSE pc[c]]
        /\ batch' = [batch EXCEPT ![t] = Tail(batch[t])]
    BY <1>2, <2>3 DEF Resume
  <2>5. current' \in [Threads -> Coros \cup {None}] /\ park' \in [Coros -> Parks \cup {None}]
    BY <2>4 DEF TypeOK
  <2>6. pc' \in [Procs -> PCs] /\ batch' \in [Threads -> Seq(Coros)]
    BY <2>2, <2>4, Names DEF TypeOK, PCs
  <2>. QED
    BY <1>2, <2>5, <2>6 DEF Resume, waker, home, wake, history, TypeOK
<1>3. CASE LoopOn(t)
  BY <1>3 DEF LoopOn, To, waker, wake, history, TypeOK, Phases
<1>4. CASE PollEnd(t)
  BY <1>4 DEF PollEnd, To, waker, wake, history, TypeOK, Phases
<1>5. CASE DrainHome(t)
  <2>1. inbox[t] \in Seq(Parks)
    BY DEF TypeOK
  <2>2. runCoros' \in [Threads -> Seq(Coros)] /\ park' \in [Coros -> Parks \cup {None}]
    BY <1>5, <2>1, DeliverTypes DEF DrainHome
  <2>3. parks' \in [Parks -> ParkType]
    BY <1>5, HeldEmpty DEF DrainHome, waker, wake
  <2>4. inbox' \in [Threads -> Seq(Parks)]
    <3>1. <<>> \in Seq(Parks)
      OBVIOUS
    <3>. QED
      BY <1>5, <3>1 DEF DrainHome, TypeOK
  <2>5. homeWoken' \in SUBSET Threads /\ phase' \in [Threads -> Phases] /\ rung' \in SUBSET Threads
    BY <1>5 DEF DrainHome, To, TypeOK, Phases
  <2>. QED
    BY <1>5, <2>2, <2>3, <2>4, <2>5 DEF DrainHome, waker, wake, history, TypeOK, ParkType
<1>6. CASE ExpireParks(t)
  <2>1. PICK ps \in SetToSeqs(Expired(t)) : Deliver(t, ps)
    BY <1>6 DEF ExpireParks
  <2>2. ps \in Seq(Parks)
    BY ExpiredFacts
  <2>3. runCoros' \in [Threads -> Seq(Coros)] /\ park' \in [Coros -> Parks \cup {None}]
    BY <2>1, <2>2, DeliverTypes
  <2>. QED
    BY <1>6, <2>3 DEF ExpireParks, To, waker, home, wake, history, TypeOK, Phases
<1>7. CASE WaitForEvents(t)
  BY <1>7 DEF WaitForEvents, To, waker, wake, history, TypeOK, Phases
<1>8. CASE HomeClose(t)
  <2>1. parks' \in [Parks -> ParkType]
    BY <1>8, HeldEmpty DEF HomeClose, waker, wake
  <2>2. inbox' \in [Threads -> Seq(Parks)]
    <3>1. <<>> \in Seq(Parks)
      OBVIOUS
    <3>. QED
      BY <1>8, <3>1 DEF HomeClose, TypeOK
  <2>. QED
    BY <1>8, <2>1, <2>2 DEF HomeClose, To, waker, wake, history, TypeOK, ParkType, Phases
<1>. QED
  BY <1>1, <1>2, <1>3, <1>4, <1>5, <1>6, <1>7, <1>8

LEMMA TypeStep ==
    ASSUME TypeOK, HInv, Bounded, [Next]_vars
    PROVE  TypeOK'
<1>1. ASSUME NEW x \in Procs, Call(x)
      PROVE  TypeOK'
  <2>1. BeginWait(x) => x \in Waiters
    BY DEF BeginWait
  <2>. QED
    BY <1>1, <2>1, WaitTypes, WakeTypes DEF Call
<1>2. CASE UNCHANGED vars
  BY <1>2 DEF vars, TypeOK
<1>. QED
  BY <1>1, <1>2, WaitTypes, LoopTypes DEF Next, Loop

(* A call that goes on is still counted as going on.                       *)
LEMMA BoundedStep ==
    ASSUME TypeOK, HInv, Bounded, [Next]_vars
    PROVE  Bounded'
<1>0. /\ pc \in [Procs -> PCs] /\ calls \in [Procs -> 0 .. MaxCalls]
  BY DEF TypeOK
<1>1. ASSUME NEW x \in Procs, calls[x] < MaxCalls, NEW l, pc' = [pc EXCEPT ![x] = l], calls' = calls
      PROVE  Bounded'
  BY ONLY <1>0, <1>1, Bounded DEF Bounded
<1>2. ASSUME NEW x \in Procs, calls' = [calls EXCEPT ![x] = @ + 1], pc'[x] = "idle",
             \A y \in Procs : y # x => pc'[y] = pc[y]
      PROVE  Bounded'
  <2>1. \A y \in Procs : pc'[y] # "idle" => y # x /\ pc'[y] = pc[y] /\ calls'[y] = calls[y]
    BY <1>0, <1>2
  <2>. QED
    BY ONLY <2>1, Bounded DEF Bounded
<1>3. ASSUME pc' = pc, calls' = calls
      PROVE  Bounded'
  BY ONLY <1>3, Bounded DEF Bounded
<1>4. ASSUME NEW x \in Procs, Call(x)
      PROVE  Bounded'
  <2>1. CASE BeginWait(x)
    <3>1. calls[x] < MaxCalls /\ pc[x] = "idle"
      BY <2>1 DEF BeginWait, Idle
    <3>. QED
      BY <1>1, <1>2, <2>1, <3>1 DEF BeginWait, Goto, Count
  <2>2. CASE Sleep(x) \/ Leave(x) \/ Withdraw(x)
    <3>1. pc[x] # "idle" /\ calls' = calls
      BY <2>2 DEF Sleep, Leave, Withdraw
    <3>2. calls[x] < MaxCalls
      BY <3>1 DEF Bounded
    <3>3. \E l : pc' = [pc EXCEPT ![x] = l]
      BY <2>2 DEF Sleep, Leave, Withdraw, Goto
    <3>. QED
      BY <1>1, <3>1, <3>2, <3>3
  <2>3. CASE Release(x)
    BY <1>0, <1>2, <2>3 DEF Release, Goto, Count
  <2>4. CASE BeginWake(x)
    <3>1. calls[x] < MaxCalls /\ pc[x] = "idle"
      BY <2>4 DEF BeginWake, Idle
    <3>2. \/ calls' = [calls EXCEPT ![x] = @ + 1] /\ pc' = pc
          \/ calls' = calls /\ pc' = [pc EXCEPT ![x] = "wakePark"]
      BY <2>4 DEF BeginWake, Goto, Count
    <3>. QED
      BY <1>1, <1>2, <3>1, <3>2
  <2>5. CASE WakePark(x) \/ Enqueue(x) \/ Keep(x)
    <3>1. pc[x] # "idle"
      BY <2>5 DEF WakePark, Enqueue, Keep
    <3>2. calls[x] < MaxCalls
      BY <3>1 DEF Bounded
    <3>3. WakeEnds(x) \/ Keeps(x) \/ (Goto(x, "enqueue") /\ calls' = calls)
      BY <2>5 DEF WakePark, Enqueue, Keep
    <3>4. CASE WakeEnds(x)
      BY <1>0, <1>2, <3>4 DEF WakeEnds, Goto, Count
    <3>5. CASE Keeps(x) \/ (Goto(x, "enqueue") /\ calls' = calls)
      BY <1>1, <3>2, <3>5 DEF Keeps, Goto
    <3>. QED
      BY <3>3, <3>4, <3>5
  <2>6. CASE Complete(x)
    BY <1>3, <2>6 DEF Complete
  <2>. QED
    BY <1>4, <2>1, <2>2, <2>3, <2>4, <2>5, <2>6 DEF Call
<1>5. ASSUME NEW w \in Waiters, TimePasses(w)
      PROVE  Bounded'
  BY <1>3, <1>5 DEF TimePasses
<1>6. ASSUME NEW t \in Threads, Resume(t)
      PROVE  Bounded'
  <2>1. PICK c : c = Head(batch[t])
    OBVIOUS
  <2>2. calls' = calls /\ pc' = [pc EXCEPT ![c] = IF pc[c] = "asleep" THEN "look" ELSE pc[c]]
    BY <1>6, <2>1 DEF Resume
  <2>3. \A y \in Procs : pc'[y] # "idle" => pc[y] # "idle"
    BY ONLY <1>0, <2>2
  <2>. QED
    BY ONLY <2>2, <2>3, Bounded DEF Bounded
<1>7. ASSUME NEW t \in Threads,
             \/ Schedule(t) \/ LoopOn(t) \/ PollEnd(t)
             \/ DrainHome(t) \/ ExpireParks(t) \/ WaitForEvents(t) \/ HomeClose(t)
      PROVE  Bounded'
  BY <1>3, <1>7 DEF Schedule, LoopOn, PollEnd, DrainHome, ExpireParks, WaitForEvents, HomeClose
<1>8. CASE UNCHANGED vars
  BY <1>3, <1>8 DEF vars
<1>. QED
  BY <1>4, <1>5, <1>6, <1>7, <1>8 DEF Next, Loop

(* The types, and who holds which park, are kept.                          *)
LEMMA HeldInvariant == Spec => [](TypeOK /\ HInv /\ Bounded)
<1>1. Init => TypeOK /\ HInv /\ Bounded
  <2>1. Init => Bounded
    BY DEF Init, Bounded
  <2>. QED
    BY <2>1, TypeInit, HeldInit
<1>2. TypeOK /\ HInv /\ Bounded /\ [Next]_vars => TypeOK' /\ HInv' /\ Bounded'
  BY TypeStep, HeldStep, BoundedStep
<1>. QED
  BY <1>1, <1>2, PTL DEF Spec

(* Every variable keeps its type; above all a park never loses more        *)
(* references than it has (park.valk `park_release`).                      *)
THEOREM TypeCorrect == Spec => []TypeOK
  BY HeldInvariant, PTL

-----------------------------------------------------------------------------
(* The doorbell                                                            *)

(* BInv of one thread.                                                     *)
Heard(t) ==
    /\ t \in polling <=> phase[t] = "poll"
    /\ t \in rung => t \in bell \/ phase[t] = "drain"
    /\ inbox[t] # <<>> => t \in rung \/ phase[t] \in {"poll", "pollDrain"}

LEMMA BellInit == Init => BInv
<1>1. Init => \A t \in Threads : Heard(t)
  BY DEF Init, Heard
<1>. QED
  BY <1>1 DEF BInv, Heard

LEMMA BellStep ==
    ASSUME TypeOK, HInv, BInv, [Next]_vars
    PROVE  BInv'
<1>0. /\ \A t \in Threads : Heard(t)
      /\ phase \in [Threads -> Phases] /\ inbox \in [Threads -> Seq(Parks)]
  BY DEF BInv, Heard, TypeOK
<1>1. ASSUME \A t \in Threads : Heard(t)'
      PROVE  BInv'
  BY <1>1 DEF BInv, Heard
<1>2. ASSUME UNCHANGED <<polling, rung, bell, phase, inbox>>
      PROVE  BInv'
  BY <1>0, <1>1, <1>2 DEF Heard
<1>3. ASSUME NEW x \in Procs, Enqueue(x)
      PROVE  BInv'
  <2>1. PICK t \in Threads : t = HomeOf[parks[took[x]].owner]
    BY <1>3, HeldFacts, Names DEF Enqueue, HInv, Marked
  <2>2. /\ polling' = polling /\ phase' = phase
        /\ \/ inbox' = inbox /\ rung' = rung /\ bell' = bell
           \/ /\ \A u \in Threads : u # t => inbox'[u] = inbox[u]
              /\ \/ t \in rung \cup polling /\ rung' = rung /\ bell' = bell
                 \/ rung' = rung \cup {t} /\ bell' = bell \cup {t}
    BY <1>0, <1>3, <2>1 DEF Enqueue, sched
  <2>3. \A u \in Threads : Heard(u)'
    BY ONLY <1>0, <2>2, t \in Threads DEF Heard
  <2>. QED
    BY <1>1, <2>3
<1>4. ASSUME NEW x \in Procs, Call(x), ~Enqueue(x)
      PROVE  BInv'
  <2>1. UNCHANGED <<polling, rung, bell, phase, inbox>>
    BY <1>4 DEF Call, BeginWait, Sleep, Leave, Withdraw, Release, BeginWake, WakePark, Keep, Complete, home, sched
  <2>. QED
    BY <1>2, <2>1
<1>5. ASSUME NEW w \in Waiters, TimePasses(w)
      PROVE  BInv'
  BY <1>2, <1>5 DEF TimePasses, home, sched
<1>6. ASSUME NEW t \in Threads,
             \/ Schedule(t) \/ LoopOn(t) \/ PollEnd(t)
             \/ DrainHome(t) \/ ExpireParks(t) \/ WaitForEvents(t) \/ HomeClose(t)
      PROVE  BInv'
  <2>1. \/ /\ phase[t] \in {"schedule", "run", "events"} /\ phase'[t] \in {"run", "events", "wait"}
           /\ polling' = polling /\ rung' = rung /\ bell' = bell /\ inbox' = inbox
        \/ /\ phase[t] = "run" /\ phase'[t] = "poll" /\ polling' = polling \cup {t}
           /\ rung' = rung /\ bell' = bell /\ inbox' = inbox
        \/ /\ phase[t] = "poll" /\ polling' = polling \ {t}
           /\ phase'[t] = IF inbox[t] # <<>> THEN "pollDrain" ELSE "events"
           /\ rung' = rung /\ bell' = bell /\ inbox' = inbox
        \/ /\ phase[t] \in {"pollDrain", "drain"} /\ phase'[t] \in {"wait", "events"}
           /\ polling' = polling /\ rung' = rung \ {t} /\ bell' = bell
           /\ inbox'[t] = <<>>
        \/ /\ phase[t] = "wait" /\ phase'[t] = "drain" /\ bell' = bell \ {t}
           /\ polling' = polling /\ rung' = rung /\ inbox' = inbox
        \/ /\ phase[t] = "wait" /\ phase'[t] = "schedule"
           /\ polling' = polling /\ rung' = rung /\ bell' = bell /\ inbox' = inbox
        \/ /\ phase[t] = "run" /\ phase'[t] = "ended" /\ inbox'[t] = <<>>
           /\ polling' = polling /\ rung' = rung /\ bell' = bell
    <3>1. CASE Schedule(t)
      BY <1>0, <3>1 DEF Schedule, To, home
    <3>2. CASE LoopOn(t)
      BY <1>0, <3>2 DEF LoopOn, Ran, To
    <3>3. CASE PollEnd(t)
      BY <1>0, <3>3 DEF PollEnd, To
    <3>4. CASE DrainHome(t)
      BY <1>0, <3>4 DEF DrainHome, To
    <3>5. CASE ExpireParks(t)
      BY <1>0, <3>5 DEF ExpireParks, To, home
    <3>6. CASE WaitForEvents(t)
      BY <1>0, <3>6 DEF WaitForEvents, To
    <3>7. CASE HomeClose(t)
      BY <1>0, <3>7 DEF HomeClose, Ran, To
    <3>. QED
      BY <1>6, <3>1, <3>2, <3>3, <3>4, <3>5, <3>6, <3>7
  <2>2. \A u \in Threads : u # t => phase'[u] = phase[u] /\ inbox'[u] = inbox[u]
    BY <1>0, <1>6
       DEF Schedule, LoopOn, PollEnd, DrainHome, ExpireParks, WaitForEvents, HomeClose, To, home
  <2>3. Heard(t)'
    BY ONLY <1>0, <2>1, t \in Threads DEF Heard
  <2>4. \A u \in Threads : u # t => Heard(u)'
    BY ONLY <1>0, <2>1, <2>2, t \in Threads DEF Heard
  <2>. QED
    BY <1>1, <2>3, <2>4
<1>7. ASSUME NEW t \in Threads, Resume(t)
      PROVE  BInv'
  BY <1>2, <1>7 DEF Resume, home
<1>8. CASE UNCHANGED vars
  BY <1>2, <1>8 DEF vars
<1>. QED
  BY <1>3, <1>4, <1>5, <1>6, <1>7, <1>8 DEF Next, Loop

(* No missed doorbell: a thread goes into its event wait with an empty     *)
(* inbox or with its bell rung (park.valk `wake_park`, `poll_home`,        *)
(* `drain_home`), also when the wake found it polling.                     *)
THEOREM NeverMissed == Spec => []BellRung
<1>1. BInv => BellRung
  BY DEF BInv, BellRung
<1>2. TypeOK /\ HInv /\ BInv /\ [Next]_vars => BInv'
  BY BellStep
<1>. QED
  BY <1>1, <1>2, BellInit, HeldInvariant, PTL DEF Spec

-----------------------------------------------------------------------------
(* Where the coroutines are                                                *)

LEMMA RunsInit == Init => RInv
<1>. SUFFICES ASSUME Init PROVE RInv
  OBVIOUS
<1>1. \A c \in Coros : park[c] = None
  BY DEF Init
<1>2. \A t \in Threads : current[t] = None /\ batch[t] = <<>>
  BY DEF Init
<1>3. ASSUME NEW t \in Threads
      PROVE  Once(runCoros[t]) /\ \A c : Contains(runCoros[t], c) <=> c \in Coros /\ HomeOf[c] = t
  <2>. DEFINE S == {c \in Coros : HomeOf[c] = t}
  <2>1. S \subseteq Coros /\ IsFiniteSet(S)
    BY Names, FS_Subset
  <2>2. SetToSeq(S) \in SetToSeqs(S)
    BY <2>1, SomeEnumeration
  <2>3. Once(SetToSeq(S)) /\ \A c : Contains(SetToSeq(S), c) <=> c \in S
    BY <2>1, <2>2, Enumerates
  <2>4. runCoros[t] = SetToSeq(S)
    BY DEF Init
  <2>. QED
    BY <2>3, <2>4
<1>4. \A t \in Threads : Once(batch[t]) /\ \A c : ~Contains(batch[t], c)
  BY <1>2, EmptyFacts
<1>5. Sleeping /\ Sought
  BY <1>1 DEF Sleeping, Sought
<1>6. AtHome
  BY <1>2, <1>3, <1>4 DEF AtHome
<1>7. OnePlace
  <2>1. \A c \in Coros : current[HomeOf[c]] # c /\ ~Contains(batch[HomeOf[c]], c) /\ park[c] = None
    BY <1>1, <1>2, <1>4, Names
  <2>. QED
    BY <1>3, <1>4, <2>1 DEF OnePlace
<1>. QED
  BY <1>5, <1>6, <1>7 DEF RInv

(* A coroutine that is delivered moves from its park to the run queue.     *)
LEMMA DeliveredPlaces ==
    ASSUME TypeOK, AtHome, OnePlace, NEW t \in Threads, NEW ps \in Seq(Parks), Deliver(t, ps),
           \A p \in Parks : Contains(ps, p) /\ Waits(p) => HomeOf[parks[p].owner] = t,
           batch' = batch, current' = current
    PROVE  /\ AtHome' /\ OnePlace'
           /\ \A c \in Coros : park'[c] = park[c] \/ park'[c] = None
           /\ \A p \in Parks : Contains(ps, p) /\ Waits(p) => park'[parks[p].owner] = None
<1>1. PICK cs \in Seq(Coros) :
        /\ Once(cs)
        /\ \A c : Contains(cs, c) <=>
            \E p \in Parks : Contains(ps, p) /\ Waits(p) /\ parks[p].owner = c
        /\ runCoros' = [runCoros EXCEPT ![t] = @ \o cs]
        /\ park' = [c \in Coros |-> IF Contains(cs, c) THEN None ELSE park[c]]
  BY Delivered
<1>2. \A c : Contains(cs, c) => c \in Coros /\ park[c] # None /\ HomeOf[c] = t
  BY <1>1, Names DEF Waits
<1>3. \A c \in Coros : park'[c] = IF Contains(cs, c) THEN None ELSE park[c]
  BY <1>1
<1>4. /\ runCoros[t] \in Seq(Coros) /\ runCoros'[t] = runCoros[t] \o cs
      /\ \A u \in Threads : u # t => runCoros'[u] = runCoros[u]
  BY <1>1 DEF TypeOK
<1>5. \A c : Contains(runCoros'[t], c) <=> Contains(runCoros[t], c) \/ Contains(cs, c)
  BY <1>4, ConcatFacts
<1>6. \A c : ~(Contains(runCoros[t], c) /\ Contains(cs, c))
  BY ONLY <1>2, OnePlace DEF OnePlace
<1>7. Once(runCoros'[t])
  <2>1. Once(runCoros[t])
    BY DEF OnePlace
  <2>. QED
    BY <1>1, <1>4, <1>6, <2>1, ConcatOnce
<1>8. \A u \in Threads : Once(runCoros'[u])
  BY ONLY <1>4, <1>7, OnePlace DEF OnePlace
<1>9. \A u \in Threads : \A c : Contains(runCoros'[u], c) <=> Contains(runCoros[u], c) \/ (u = t /\ Contains(cs, c))
  BY ONLY <1>4, <1>5
<1>10. AtHome'
  BY ONLY <1>2, <1>9, AtHome, batch' = batch, current' = current DEF AtHome
<1>11. OnePlace'
  <2>1. ASSUME NEW c \in Coros
        PROVE  LET u == HomeOf[c]
                   runs == current'[u] = c
                   queued == Contains(runCoros'[u], c)
                   next == Contains(batch'[u], c)
                   sleeps == park'[c] # None
               IN /\ ~(runs /\ queued) /\ ~(runs /\ next) /\ ~(runs /\ sleeps)
                  /\ ~(queued /\ next) /\ ~(queued /\ sleeps) /\ ~(next /\ sleeps)
    <3>1. HomeOf[c] \in Threads
      BY Names
    <3>. QED
      BY ONLY <1>2, <1>3, <1>9, <3>1, c \in Coros, OnePlace, batch' = batch, current' = current DEF OnePlace
  <2>. QED
    BY ONLY <1>8, <2>1, OnePlace, batch' = batch DEF OnePlace
<1>12. \A p \in Parks : Contains(ps, p) /\ Waits(p) => park'[parks[p].owner] = None
  BY <1>1, <1>3 DEF Waits
<1>. QED
  BY <1>3, <1>10, <1>11, <1>12

(* What the three steps that deliver, deliver.                             *)
Delivers(t, ps) ==
    /\ t \in Threads /\ ps \in Seq(Parks) /\ Deliver(t, ps)
    /\ \A p \in Parks : Contains(ps, p) /\ Waits(p) => HomeOf[parks[p].owner] = t
    /\ batch' = batch /\ current' = current

LEMMA DrainDelivers ==
    ASSUME TypeOK, HInv, NEW t \in Threads, DrainHome(t)
    PROVE  Delivers(t, inbox[t])
<1>1. inbox[t] \in Seq(Parks)
  BY DEF TypeOK
<1>. QED
  BY <1>1 DEF Delivers, DrainHome, HInv, Owned

LEMMA ExpireDelivers ==
    ASSUME TypeOK, NEW t \in Threads, ExpireParks(t)
    PROVE  \E ps \in SetToSeqs(Expired(t)) : Delivers(t, ps)
<1>1. PICK ps \in SetToSeqs(Expired(t)) : Deliver(t, ps)
  BY DEF ExpireParks
<1>2. ps \in Seq(Parks) /\ \A p : Contains(ps, p) <=> p \in Expired(t)
  BY ExpiredFacts
<1>3. \A p \in Parks : p \in Expired(t) => HomeOf[parks[p].owner] = t
  BY DEF Expired
<1>4. batch' = batch /\ current' = current
  BY DEF ExpireParks
<1>. QED
  BY <1>1, <1>2, <1>3, <1>4 DEF Delivers

LEMMA WakeDelivers ==
    ASSUME TypeOK, HInv, NEW q \in Procs, WakePark(q)
    PROVE  \/ UNCHANGED <<runCoros, park, batch, current>>
           \/ \E t \in Threads : Delivers(t, <<took[q]>>)
<1>1. took[q] \in Parks /\ batch' = batch /\ current' = current
  BY HeldFacts DEF WakePark, HInv, Stages, Carrying
<1>2. \/ UNCHANGED <<runCoros, park>>
      \/ parks[took[q]].owner \in Coros /\ Deliver(HomeOf[parks[took[q]].owner], <<took[q]>>)
  BY DEF WakePark
<1>3. ASSUME parks[took[q]].owner \in Coros, Deliver(HomeOf[parks[took[q]].owner], <<took[q]>>)
      PROVE  \E t \in Threads : Delivers(t, <<took[q]>>)
  <2>1. PICK t \in Threads : t = HomeOf[parks[took[q]].owner]
    BY <1>3, Names
  <2>2. <<took[q]>> \in Seq(Parks) /\ \A p : Contains(<<took[q]>>, p) => p = took[q]
    BY <1>1 DEF Contains
  <2>. QED
    BY <1>1, <1>3, <2>1, <2>2 DEF Delivers
<1>. QED
  BY <1>1, <1>2, <1>3

LEMMA PlacesStep ==
    ASSUME TypeOK, HInv, Sleeping, AtHome, OnePlace, [Next]_vars
    PROVE  AtHome' /\ OnePlace'
<1>0. /\ current \in [Threads -> Coros \cup {None}] /\ park \in [Coros -> Parks \cup {None}]
      /\ \A t \in Threads : batch[t] \in Seq(Coros) /\ runCoros[t] \in Seq(Coros)
      /\ batch \in [Threads -> Seq(Coros)] /\ runCoros \in [Threads -> Seq(Coros)]
  BY DEF TypeOK
<1>1. ASSUME UNCHANGED <<runCoros, batch, current, park>>
      PROVE  AtHome' /\ OnePlace'
  BY <1>1 DEF AtHome, OnePlace
<1>2. ASSUME NEW t, NEW ps, Delivers(t, ps)
      PROVE  AtHome' /\ OnePlace'
  BY <1>2, DeliveredPlaces DEF Delivers
<1>3. ASSUME NEW x \in Procs, Call(x)
      PROVE  AtHome' /\ OnePlace'
  <2>1. CASE Sleep(x)
    <3>1. /\ x \in Coros /\ HomeOf[x] \in Threads /\ current[HomeOf[x]] = x /\ None \notin Coros
          /\ current' = [current EXCEPT ![HomeOf[x]] = None]
          /\ park' = [park EXCEPT ![x] = mine[x]]
          /\ runCoros' = runCoros /\ batch' = batch
      BY <2>1, Names DEF Sleep, Running
    <3>2. /\ current'[HomeOf[x]] = None /\ \A u \in Threads : u # HomeOf[x] => current'[u] = current[u]
          /\ \A c \in Coros : c # x => park'[c] = park[c]
      BY ONLY <1>0, <3>1
    <3>3. AtHome'
      BY ONLY <3>1, <3>2, AtHome DEF AtHome
    <3>4. OnePlace'
      BY ONLY <3>1, <3>2, OnePlace, Names DEF OnePlace
    <3>. QED
      BY <3>3, <3>4
  <2>2. CASE Complete(x)
    <3>1. /\ x \in Coros /\ HomeOf[x] \in Threads /\ None \notin Coros
          /\ current' = [current EXCEPT ![HomeOf[x]] = None]
          /\ runCoros' = runCoros /\ batch' = batch /\ park' = park
      BY <2>2, Names DEF Complete
    <3>2. current'[HomeOf[x]] = None /\ \A u \in Threads : u # HomeOf[x] => current'[u] = current[u]
      BY ONLY <1>0, <3>1
    <3>3. AtHome'
      BY ONLY <3>1, <3>2, AtHome DEF AtHome
    <3>4. OnePlace'
      BY ONLY <3>1, <3>2, OnePlace, Names DEF OnePlace
    <3>. QED
      BY <3>3, <3>4
  <2>3. CASE WakePark(x)
    BY <1>1, <1>2, <2>3, WakeDelivers
  <2>4. CASE BeginWait(x) \/ Leave(x) \/ Withdraw(x) \/ Release(x) \/ BeginWake(x) \/ Enqueue(x) \/ Keep(x)
    <3>1. UNCHANGED <<runCoros, batch, current, park>>
      BY <2>4 DEF BeginWait, Leave, Withdraw, Release, BeginWake, Enqueue, Keep, sched
    <3>. QED
      BY <1>1, <3>1
  <2>. QED
    BY <1>3, <2>1, <2>2, <2>3, <2>4 DEF Call
<1>4. ASSUME NEW w \in Waiters, TimePasses(w)
      PROVE  AtHome' /\ OnePlace'
  BY <1>1, <1>4 DEF TimePasses, sched
<1>5. ASSUME NEW t \in Threads, Schedule(t)
      PROVE  AtHome' /\ OnePlace'
  <2>1. /\ batch'[t] = runCoros[t] /\ runCoros'[t] = <<>>
        /\ \A u \in Threads : u # t => batch'[u] = batch[u] /\ runCoros'[u] = runCoros[u]
        /\ current' = current /\ park' = park
    BY <1>0, <1>5 DEF Schedule
  <2>2. Once(runCoros'[t]) /\ \A c : ~Contains(runCoros'[t], c)
    BY <2>1, EmptyFacts
  <2>3. AtHome'
    BY ONLY <2>1, <2>2, AtHome DEF AtHome
  <2>4. OnePlace'
    BY ONLY <2>1, <2>2, OnePlace, Names, t \in Threads DEF OnePlace
  <2>. QED
    BY <2>3, <2>4
<1>6. ASSUME NEW t \in Threads, Resume(t)
      PROVE  AtHome' /\ OnePlace'
  <2>1. batch[t] \in Seq(Coros) /\ batch[t] # <<>>
    BY <1>0, <1>6 DEF Resume
  <2>2. PICK c \in Coros : c = Head(batch[t])
    BY <2>1, TailFacts
  <2>3. /\ \A x : Contains(batch[t], x) <=> Contains(Tail(batch[t]), x) \/ x = c
        /\ Once(batch[t]) => Once(Tail(batch[t])) /\ ~Contains(Tail(batch[t]), c)
    BY <2>1, <2>2, TailFacts
  <2>4. /\ current'[t] = c /\ \A u \in Threads : u # t => current'[u] = current[u]
        /\ batch'[t] = Tail(batch[t]) /\ \A u \in Threads : u # t => batch'[u] = batch[u]
        /\ park'[c] = None /\ \A d \in Coros : d # c => park'[d] = park[d]
        /\ current[t] = None /\ runCoros' = runCoros
    BY <1>0, <1>6, <2>2 DEF Resume
  <2>5. HomeOf[c] = t
    BY <2>3 DEF AtHome
  <2>6. AtHome'
    BY ONLY <2>3, <2>4, <2>5, AtHome DEF AtHome
  <2>7. OnePlace'
    <3>1. \A u \in Threads : Once(runCoros'[u]) /\ Once(batch'[u])
      BY ONLY <2>3, <2>4, OnePlace, t \in Threads DEF OnePlace
    <3>2. ASSUME NEW d \in Coros
          PROVE  LET u == HomeOf[d]
                     runs == current'[u] = d
                     queued == Contains(runCoros'[u], d)
                     next == Contains(batch'[u], d)
                     sleeps == park'[d] # None
                 IN /\ ~(runs /\ queued) /\ ~(runs /\ next) /\ ~(runs /\ sleeps)
                    /\ ~(queued /\ next) /\ ~(queued /\ sleeps) /\ ~(next /\ sleeps)
      <4>1. HomeOf[d] \in Threads
        BY Names
      <4>2. CASE d = c
        BY ONLY <4>2, <2>3, <2>4, <2>5, OnePlace, d \in Coros, t \in Threads DEF OnePlace
      <4>3. CASE d # c
        BY ONLY <4>1, <4>3, <2>3, <2>4, OnePlace, d \in Coros, t \in Threads DEF OnePlace
      <4>. QED
        BY <4>2, <4>3
    <3>. QED
      BY ONLY <3>1, <3>2 DEF OnePlace
  <2>. QED
    BY <2>6, <2>7
<1>7. ASSUME NEW t \in Threads, DrainHome(t)
      PROVE  AtHome' /\ OnePlace'
  BY <1>2, <1>7, DrainDelivers
<1>8. ASSUME NEW t \in Threads, ExpireParks(t)
      PROVE  AtHome' /\ OnePlace'
  BY <1>2, <1>8, ExpireDelivers
<1>9. ASSUME NEW t \in Threads, LoopOn(t) \/ PollEnd(t) \/ WaitForEvents(t) \/ HomeClose(t)
      PROVE  AtHome' /\ OnePlace'
  BY <1>1, <1>9 DEF LoopOn, PollEnd, WaitForEvents, HomeClose
<1>10. CASE UNCHANGED vars
  BY <1>1, <1>10 DEF vars
<1>. QED
  BY <1>3, <1>4, <1>5, <1>6, <1>7, <1>8, <1>9, <1>10 DEF Next, Loop

(* What is known of a coroutine that sleeps.                               *)
LEMMA SleeperFacts ==
    ASSUME TypeOK, HInv, Sleeping, NEW c \in Coros, park[c] # None
    PROVE  /\ c \in Waiters /\ c \in Procs /\ pc[c] = "asleep" /\ mine[c] = park[c]
           /\ park[c] \in Parks /\ park[c] # None
           /\ parks[park[c]].owner = c /\ ~parks[park[c]].left
           /\ Waits(park[c])
<1>1. c \in Waiters /\ c \in Procs /\ pc[c] = "asleep" /\ mine[c] = park[c] /\ park[c] \in Parks
  BY Names DEF Sleeping, TypeOK
<1>2. parks[park[c]].owner = c /\ ~parks[park[c]].left
  BY <1>1 DEF HInv, Owned, LeftBehind
<1>. QED
  BY <1>1, <1>2 DEF Waits

(* A sleeper that is not woken goes on sleeping where it does.             *)
SleepsOn ==
    \A c \in Coros : park'[c] # None =>
        /\ park[c] # None /\ park'[c] = park[c]
        /\ pc'[c] = pc[c] /\ mine'[c] = mine[c]

(* And the queue side keeps its park.                                      *)
StaysQueued ==
    \A c \in Coros : park'[c] # None /\ HomeOf[c] \in alive' =>
        HomeOf[c] \in alive /\ (Queued(park[c]) => Queued(park[c])')

LEMMA SleepersKept ==
    ASSUME Sleeping, Sought, SleepsOn, StaysQueued
    PROVE  Sleeping' /\ Sought'
<1>1. Sleeping'
  BY DEF Sleeping, SleepsOn
<1>2. ASSUME NEW c \in Coros, park'[c] # None, HomeOf[c] \in alive'
      PROVE  Queued(park[c])'
  BY <1>2 DEF Sought, SleepsOn, StaysQueued
<1>3. ASSUME NEW c \in Coros, park'[c] # None
      PROVE  park'[c] = park[c]
  BY <1>3 DEF SleepsOn
<1>. QED
  BY <1>1, <1>2, <1>3 DEF Sought

(* A wait or a wake step of x, which does not sleep.                       *)
LEMMA CallSleepers ==
    ASSUME TypeOK, HInv, RInv, NEW x \in Procs, Call(x)
    PROVE  Sleeping' /\ Sought'
<1>0. \A c \in Coros : park[c] # None => c \in Procs /\ pc[c] = "asleep" /\ mine[c] = park[c] /\ park[c] \in Parks
  BY SleeperFacts DEF RInv
<1>1. /\ pc \in [Procs -> PCs] /\ mine \in [Waiters -> Parks \cup {None}]
      /\ waiting \in [Waiters -> Parks \cup {None}] /\ took \in [Procs -> Parks \cup {None}]
      /\ park \in [Coros -> Parks \cup {None}] /\ alive' = alive
  BY DEF TypeOK, Call, BeginWait, Sleep, Leave, Withdraw, Release, BeginWake, WakePark, Enqueue, Keep, Complete, home
<1>2. ASSUME SleepsOn, StaysQueued
      PROVE  Sleeping' /\ Sought'
  BY <1>2, SleepersKept DEF RInv
<1>3. CASE BeginWait(x)
  <2>1. park' = park /\ took' = took /\ inbox' = inbox /\ pc[x] = "idle" /\ x \in Waiters
    BY <1>3 DEF BeginWait, Idle, wake, home
  <2>2. \/ waiting' = waiting /\ mine' = mine /\ pc' = pc
        \/ \E p : waiting' = [waiting EXCEPT ![x] = p] /\ mine' = [mine EXCEPT ![x] = p] /\ pc' = [pc EXCEPT ![x] = "look"]
    BY <1>3 DEF BeginWait, Goto
  <2>3. waiting[x] = None
    BY <2>1 DEF HInv, Stages, InWait
  <2>4. \A w \in Waiters : waiting[w] # None => waiting'[w] = waiting[w]
    <3>1. ASSUME NEW p, waiting' = [waiting EXCEPT ![x] = p], NEW w \in Waiters, waiting[w] # None
          PROVE  waiting'[w] = waiting[w]
      BY ONLY <1>1, <2>3, <3>1
    <3>. QED
      BY ONLY <2>2, <3>1
  <2>5. SleepsOn
    <3>1. ASSUME NEW p, mine' = [mine EXCEPT ![x] = p], pc' = [pc EXCEPT ![x] = "look"],
                 NEW c \in Coros, park[c] # None
          PROVE  pc'[c] = pc[c] /\ mine'[c] = mine[c]
      BY ONLY <1>0, <1>1, <2>1, <3>1
    <3>. QED
      BY ONLY <2>1, <2>2, <3>1 DEF SleepsOn
  <2>6. StaysQueued
    <3>1. ASSUME NEW p \in Parks, Queued(p)
          PROVE  Queued(p)'
      BY ONLY <2>1, <2>4, <3>1, Names DEF Queued
    <3>. QED
      BY ONLY <1>0, <1>1, <2>1, <3>1 DEF StaysQueued
  <2>. QED
    BY <1>2, <2>5, <2>6
<1>4. CASE Sleep(x)
  <2>1. /\ x \in Coros /\ x \in Waiters /\ pc[x] = "look" /\ mine[x] \in Parks
        /\ ~parks[mine[x]].woken
        /\ park' = [park EXCEPT ![x] = mine[x]] /\ pc' = [pc EXCEPT ![x] = "asleep"]
        /\ mine' = mine /\ waiting' = waiting /\ took' = took /\ inbox' = inbox
    BY <1>4, HeldFacts DEF Sleep, Goto, HInv, Stages, InWait, waker, home, wake
  <2>2. \A p : Queued(p)' <=> Queued(p)
    BY <2>1 DEF Queued
  <2>3. Queued(mine[x])
    BY <2>1 DEF HInv, Findable, Queued
  <2>4. Sleeping'
    BY <1>0, <1>1, <2>1 DEF RInv, Sleeping
  <2>5. \A c \in Coros : park'[c] # None /\ HomeOf[c] \in alive' => Queued(park'[c])
    BY <1>0, <1>1, <2>1, <2>3 DEF RInv, Sought
  <2>6. Sought'
    BY <2>2, <2>5 DEF Sought
  <2>. QED
    BY <2>4, <2>6
<1>5. CASE x \in Waiters /\ (Leave(x) \/ Withdraw(x) \/ Release(x))
  <2>1. /\ pc[x] # "asleep" /\ park' = park /\ took' = took /\ inbox' = inbox
        /\ \A y \in Procs : y # x => pc'[y] = pc[y]
        /\ \A y \in Waiters : y # x => mine'[y] = mine[y]
        /\ \A y \in Waiters : y # x => waiting'[y] = waiting[y]
        /\ waiting'[x] = waiting[x] \/ waiting[x] = mine[x]
    BY <1>1, <1>5 DEF Leave, Withdraw, Release, Goto, waker, home, wake
  <2>2. SleepsOn
    BY <1>0, <1>1, <2>1 DEF SleepsOn, RInv, Sleeping
  <2>3. StaysQueued
    <3>1. ASSUME NEW c \in Coros, park[c] # None, Queued(park[c])
          PROVE  Queued(park[c])'
      <4>1. /\ c # x /\ mine[c] = park[c] /\ c \in Waiters /\ park[c] \in Parks
            /\ parks[park[c]].owner = c /\ park' = park
        BY <1>0, <2>1, <3>1, SleeperFacts DEF RInv
      <4>2. \A w \in Waiters : waiting[w] = park[c] => waiting'[w] = park[c]
        BY <2>1, <3>1, <4>1 DEF HInv, Stages, Owned
      <4>. QED
        BY ONLY <2>1, <3>1, <4>1, <4>2 DEF Queued
    <3>. QED
      BY <1>1, <2>1, <3>1 DEF StaysQueued
  <2>. QED
    BY <1>2, <2>2, <2>3
<1>6. CASE BeginWake(x)
  <2>1. PICK w \in Waiters :
        \/ /\ waiting[w] = None
           /\ UNCHANGED <<waiting, pc, wake>>
        \/ /\ waiting[w] # None
           /\ waiting' = [waiting EXCEPT ![w] = None]
           /\ took' = [took EXCEPT ![x] = waiting[w]]
           /\ Goto(x, "wakePark")
    BY <1>6 DEF BeginWake
  <2>2. pc[x] = "idle" /\ park' = park /\ mine' = mine /\ inbox' = inbox /\ took[x] = None
    BY <1>6 DEF BeginWake, Idle, home, HInv, Stages, Carrying
  <2>3. SleepsOn
    BY <1>0, <1>1, <2>1, <2>2 DEF SleepsOn, Goto
  <2>4. ASSUME NEW p \in Parks, Queued(p)
        PROVE  Queued(p)'
    <3>1. CASE waiting' = waiting /\ took' = took
      BY ONLY <2>2, <2>4, <3>1 DEF Queued
    <3>2. CASE waiting' = [waiting EXCEPT ![w] = None] /\ took' = [took EXCEPT ![x] = waiting[w]]
      <4>1. /\ waiting'[w] = None /\ \A v \in Waiters : v # w => waiting'[v] = waiting[v]
            /\ took'[x] = waiting[w] /\ \A y \in Procs : y # x => took'[y] = took[y]
        BY ONLY <1>1, <3>2, x \in Procs, w \in Waiters
      <4>. QED
        BY ONLY <2>2, <2>4, <4>1, Names, x \in Procs DEF Queued
    <3>. QED
      BY <2>1, <3>1, <3>2 DEF wake
  <2>5. StaysQueued
    BY <1>0, <1>1, <2>2, <2>4 DEF StaysQueued
  <2>. QED
    BY <1>2, <2>3, <2>5
<1>7. CASE Keep(x) \/ Complete(x)
  <2>1. /\ park' = park /\ waiting' = waiting /\ inbox' = inbox /\ mine' = mine /\ pc[x] # "asleep"
        /\ \A y \in Procs : y # x => pc'[y] = pc[y]
    BY <1>1, <1>7 DEF Keep, Complete, WakeEnds, Goto, waker, home, wake
  <2>2. took' = took
    BY <1>1, <1>7 DEF Keep, Complete, WakeEnds, wake, HInv, Stages, Carrying
  <2>3. SleepsOn
    BY <1>0, <2>1 DEF SleepsOn
  <2>4. StaysQueued
    BY <1>1, <2>1, <2>2 DEF StaysQueued, Queued
  <2>. QED
    BY <1>2, <2>3, <2>4
<1>8. CASE WakePark(x)
  <2>1. PICK p \in Parks : p = took[x] /\ pc[x] = "wakePark" /\ p # None
    BY <1>8, HeldFacts, Names DEF WakePark, HInv, Stages, Carrying
  <2>2. /\ mine' = mine /\ waiting' = waiting /\ inbox' = inbox
        /\ \A y \in Procs : y # x => pc'[y] = pc[y] /\ took'[y] = took[y]
    BY <1>1, <1>8, WakeParkShape DEF GivesUp
  <2>3. \A c \in Coros : park'[c] = park[c] \/ park'[c] = None
    BY <1>8, WakeDelivers, DeliveredPlaces DEF Delivers, RInv
  <2>4. SleepsOn
    BY <1>0, <2>1, <2>2, <2>3 DEF SleepsOn
  <2>5. ASSUME NEW c \in Coros, park'[c] # None, Queued(park[c])
        PROVE  Queued(park[c])'
    <3>1. park[c] # None /\ park'[c] = park[c] /\ park[c] \in Parks
      BY <1>0, <2>3, <2>5
    <3>2. CASE park[c] # p
      <4>1. \A y \in Procs : took[y] = park[c] => took'[y] = park[c]
        BY <2>1, <2>2, <3>2
      <4>2. PICK r \in Parks : r = park[c] /\ park'[c] = r
        BY <3>1
      <4>3. Queued(r)'
        BY ONLY <2>2, <2>5, <4>1, <4>2 DEF Queued
      <4>. QED
        BY <4>2, <4>3
    <3>3. CASE park[c] = p
      <4>1. parks[p].owner = c /\ ~parks[p].left /\ Waits(p) /\ c \notin Natives
        BY <3>1, <3>3, SleeperFacts, Names DEF RInv
      <4>2. ASSUME Deliver(HomeOf[c], <<p>>)
            PROVE  FALSE
        <5>1. <<p>> \in Seq(Parks) /\ Contains(<<p>>, p) /\ HomeOf[c] \in Threads
          BY Names DEF Contains
        <5>2. park'[c] = None
          <6>1. PICK cs \in Seq(Coros) :
                  /\ \A d : Contains(cs, d) <=>
                        \E r \in Parks : Contains(<<p>>, r) /\ Waits(r) /\ parks[r].owner = d
                  /\ park' = [d \in Coros |-> IF Contains(cs, d) THEN None ELSE park[d]]
            BY <4>2, <5>1, Delivered
          <6>. QED
            BY <4>1, <5>1, <6>1
        <5>. QED
          BY <2>5, <5>2
      <4>3. took' = took
        BY <1>8, <2>1, <4>1, <4>2 DEF WakePark, wake
      <4>. QED
        BY <2>1, <2>2, <3>1, <3>3, <4>3 DEF Queued
    <3>. QED
      BY <3>2, <3>3
  <2>6. StaysQueued
    BY <1>1, <2>5 DEF StaysQueued
  <2>. QED
    BY <1>2, <2>4, <2>6
<1>9. CASE Enqueue(x)
  <2>1. PICK p \in Parks : p = took[x] /\ pc[x] = "enqueue" /\ p # None /\ parks[p].owner \in Coros
    BY <1>9, HeldFacts, Names DEF Enqueue, HInv, Stages, Carrying, Marked
  <2>2. PICK t \in Threads : t = HomeOf[parks[p].owner]
    BY <2>1, Names
  <2>3. /\ mine' = mine /\ waiting' = waiting /\ park' = park
        /\ \A y \in Procs : y # x => pc'[y] = pc[y] /\ took'[y] = took[y]
    <3>1. mine' = mine /\ waiting' = waiting /\ park' = park
      BY <1>9 DEF Enqueue, waker
    <3>2. Keeps(x) \/ WakeEnds(x)
      BY <1>9 DEF Enqueue
    <3>3. /\ took' = [took EXCEPT ![x] = None]
          /\ \E l : pc' = [pc EXCEPT ![x] = l]
      BY ONLY <3>2 DEF Keeps, WakeEnds, Goto
    <3>. QED
      BY ONLY <1>1, <3>1, <3>3
  <2>4. \/ t \notin alive /\ inbox' = inbox
        \/ inbox' = [inbox EXCEPT ![t] = Append(@, p)]
    BY <1>9, <2>1, <2>2 DEF Enqueue
  <2>5. inbox[t] \in Seq(Parks) /\ inbox \in [Threads -> Seq(Parks)]
    BY DEF TypeOK
  <2>6. /\ \A u \in Threads : \A r : Contains(inbox[u], r) => Contains(inbox'[u], r)
        /\ t \in alive => Contains(inbox'[t], p)
    <3>1. \A r : Contains(Append(inbox[t], p), r) <=> Contains(inbox[t], r) \/ r = p
      BY <2>5, AppendFacts
    <3>. QED
      BY ONLY <2>4, <2>5, <3>1
  <2>7. SleepsOn
    BY <1>0, <2>1, <2>3 DEF SleepsOn
  <2>8. ASSUME NEW c \in Coros, park[c] # None, HomeOf[c] \in alive, Queued(park[c])
        PROVE  Queued(park[c])'
    <3>1. PICK r \in Parks : r = park[c] /\ park'[c] = r /\ parks[r].owner = c
      BY <2>3, <2>8, SleeperFacts DEF RInv
    <3>2. CASE r = p
      BY <2>2, <2>6, <2>8, <3>1, <3>2 DEF Queued
    <3>3. CASE r # p
      <4>1. \A y \in Procs : took[y] = r => took'[y] = r
        BY <2>1, <2>3, <3>3
      <4>2. Queued(r)'
        BY ONLY <2>3, <2>6, <2>8, <3>1, <4>1 DEF Queued
      <4>. QED
        BY <3>1, <4>2
    <3>. QED
      BY <3>2, <3>3
  <2>9. StaysQueued
    BY <1>1, <2>3, <2>8 DEF StaysQueued
  <2>. QED
    BY <1>2, <2>7, <2>9
<1>. QED
  BY <1>3, <1>4, <1>5, <1>6, <1>7, <1>8, <1>9 DEF Call

(* A step of a thread                                                      *)
LEMMA LoopSleepers ==
    ASSUME TypeOK, HInv, RInv, NEW t \in Threads, Loop(t) \/ HomeClose(t)
    PROVE  Sleeping' /\ Sought'
<1>0. \A c \in Coros : park[c] # None =>
        /\ c \in Procs /\ pc[c] = "asleep" /\ mine[c] = park[c] /\ park[c] \in Parks
        /\ parks[park[c]].owner = c /\ Waits(park[c])
  BY SleeperFacts DEF RInv
<1>1. mine' = mine /\ waiting' = waiting /\ took' = took
  BY DEF Loop, Schedule, Resume, LoopOn, PollEnd, DrainHome, ExpireParks, WaitForEvents, HomeClose, waker, wake
<1>2. ASSUME SleepsOn, StaysQueued
      PROVE  Sleeping' /\ Sought'
  BY <1>2, SleepersKept DEF RInv
<1>3. CASE Schedule(t) \/ LoopOn(t) \/ PollEnd(t) \/ WaitForEvents(t)
  <2>1. park' = park /\ pc' = pc /\ inbox' = inbox /\ alive' = alive
    BY <1>3 DEF Schedule, LoopOn, PollEnd, WaitForEvents, home
  <2>2. SleepsOn /\ StaysQueued
    BY <1>1, <2>1 DEF SleepsOn, StaysQueued, Queued
  <2>. QED
    BY <1>2, <2>2
<1>4. CASE Resume(t)
  <2>1. PICK c \in Coros : c = Head(batch[t])
    <3>1. batch[t] \in Seq(Coros) /\ batch[t] # <<>>
      BY <1>4 DEF TypeOK, Resume
    <3>. QED
      BY <3>1, TailFacts
  <2>2. /\ park' = [park EXCEPT ![c] = None] /\ inbox' = inbox /\ alive' = alive
        /\ pc' = [pc EXCEPT ![c] = IF pc[c] = "asleep" THEN "look" ELSE pc[c]]
    BY <1>4, <2>1 DEF Resume, home
  <2>3. \A d \in Coros : park'[d] # None => d # c /\ park'[d] = park[d] /\ pc'[d] = pc[d]
    BY <2>2, Names DEF TypeOK
  <2>4. SleepsOn /\ StaysQueued
    BY <1>1, <2>2, <2>3 DEF SleepsOn, StaysQueued, Queued
  <2>. QED
    BY <1>2, <2>4
<1>5. CASE ExpireParks(t)
  <2>1. pc' = pc /\ inbox' = inbox /\ alive' = alive
    BY <1>5 DEF ExpireParks, home
  <2>2. \A c \in Coros : park'[c] = park[c] \/ park'[c] = None
    BY <1>5, ExpireDelivers, DeliveredPlaces DEF Delivers, RInv
  <2>3. SleepsOn /\ StaysQueued
    BY <1>1, <2>1, <2>2 DEF SleepsOn, StaysQueued, Queued
  <2>. QED
    BY <1>2, <2>3
<1>6. CASE DrainHome(t)
  <2>1. /\ pc' = pc /\ alive' = alive /\ \A u \in Threads : u # t => inbox'[u] = inbox[u]
    BY <1>6 DEF DrainHome, TypeOK
  <2>2. /\ \A c \in Coros : park'[c] = park[c] \/ park'[c] = None
        /\ \A p \in Parks : Contains(inbox[t], p) /\ Waits(p) => park'[parks[p].owner] = None
    BY <1>6, DrainDelivers, DeliveredPlaces DEF Delivers, RInv
  <2>3. SleepsOn
    BY <1>1, <2>1, <2>2 DEF SleepsOn
  <2>4. ASSUME NEW c \in Coros, park'[c] # None, Queued(park[c])
        PROVE  Queued(park[c])'
    <3>1. PICK r \in Parks : r = park[c] /\ park'[c] = r /\ parks[r].owner = c /\ Waits(r)
      BY <1>0, <2>2, <2>4
    <3>2. ~Contains(inbox[t], r)
      BY <2>2, <2>4, <3>1
    <3>3. Queued(r)'
      BY ONLY <1>1, <2>1, <2>4, <3>1, <3>2 DEF Queued
    <3>. QED
      BY <3>1, <3>3
  <2>5. StaysQueued
    BY <2>1, <2>4 DEF StaysQueued
  <2>. QED
    BY <1>2, <2>3, <2>5
<1>7. CASE HomeClose(t)
  <2>1. /\ pc' = pc /\ park' = park /\ alive' = alive \ {t}
        /\ \A u \in Threads : u # t => inbox'[u] = inbox[u]
    BY <1>7 DEF HomeClose, TypeOK
  <2>2. SleepsOn
    BY <1>1, <2>1 DEF SleepsOn
  <2>3. ASSUME NEW c \in Coros, park[c] # None, HomeOf[c] # t, Queued(park[c])
        PROVE  Queued(park[c])'
    <3>1. PICK r \in Parks : r = park[c] /\ park'[c] = r /\ parks[r].owner = c
      BY <1>0, <2>1, <2>3
    <3>2. ~Contains(inbox[t], r)
      BY <2>3, <3>1 DEF HInv, Owned
    <3>3. Queued(r)'
      BY ONLY <1>1, <2>1, <2>3, <3>1, <3>2 DEF Queued
    <3>. QED
      BY <3>1, <3>3
  <2>4. StaysQueued
    BY <2>1, <2>3 DEF StaysQueued
  <2>. QED
    BY <1>2, <2>2, <2>4
<1>. QED
  BY <1>3, <1>4, <1>5, <1>6, <1>7 DEF Loop

LEMMA RunsStep ==
    ASSUME TypeOK, HInv, RInv, [Next]_vars
    PROVE  RInv'
<1>1. AtHome' /\ OnePlace'
  BY PlacesStep DEF RInv
<1>2. ASSUME NEW w \in Waiters, TimePasses(w)
      PROVE  Sleeping' /\ Sought'
  <2>1. /\ park' = park /\ pc' = pc /\ mine' = mine /\ alive' = alive
        /\ waiting' = waiting /\ took' = took /\ inbox' = inbox
    BY <1>2 DEF TimePasses, waker, home, wake
  <2>. QED
    BY ONLY RInv, <2>1 DEF RInv, Sleeping, Sought, Queued
<1>3. ASSUME UNCHANGED vars
      PROVE  Sleeping' /\ Sought'
  <2>1. /\ park' = park /\ pc' = pc /\ mine' = mine /\ alive' = alive
        /\ waiting' = waiting /\ took' = took /\ inbox' = inbox
    BY <1>3 DEF vars
  <2>. QED
    BY ONLY RInv, <2>1 DEF RInv, Sleeping, Sought, Queued
<1>4. Sleeping' /\ Sought'
  BY <1>2, <1>3, CallSleepers, LoopSleepers DEF Next
<1>. QED
  BY <1>1, <1>4 DEF RInv


LEMMA RunsInvariant == Spec => [](TypeOK /\ HInv /\ RInv)
<1>1. TypeOK /\ HInv /\ RInv /\ [Next]_vars => RInv'
  BY RunsStep
<1>. QED
  BY <1>1, RunsInit, HeldInvariant, PTL DEF Spec

-----------------------------------------------------------------------------
(* What follows from where everything is                                   *)

LEMMA OneOrNone ==
    ASSUME NEW S, \A x, y \in S : x = y
    PROVE  Cardinality(S) = IF S = {} THEN 0 ELSE 1
<1>1. CASE S = {}
  BY <1>1, FS_EmptySet
<1>2. CASE S # {}
  <2>1. PICK x : S = {x}
    BY <1>2
  <2>. QED
    BY <2>1, FS_Singleton
<1>. QED
  BY <1>1, <1>2

LEMMA HoldersCounted ==
    ASSUME TypeOK, HInv, NEW p \in Parks
    PROVE  parks[p].refs = Holders(p)
<1>. DEFINE M == {w \in Waiters : mine[w] = p}
            W == {w \in Waiters : waiting[w] = p}
            T == {q \in Procs : took[q] = p}
            B == UNION {{t} \X {i \in DOMAIN inbox[t] : inbox[t][i] = p} : t \in Threads}
<1>1. p # None /\ parks[p].refs \in {0, 1, 2}
  BY HeldFacts, Names
<1>2. Cardinality(M) = IF M = {} THEN 0 ELSE 1
  <2>1. \A w \in M : parks[p].owner = w
    BY <1>1 DEF HInv, Owned
  <2>. QED
    BY <2>1, OneOrNone
<1>3. Cardinality(W) = IF W = {} THEN 0 ELSE 1
  <2>1. \A w \in W : parks[p].owner = w
    BY <1>1 DEF HInv, Owned, Stages
  <2>. QED
    BY <2>1, OneOrNone
<1>4. Cardinality(T) = IF T = {} THEN 0 ELSE 1
  <2>1. \A q, r \in T : q = r
    BY <1>1 DEF HInv, OneQueue
  <2>. QED
    BY <2>1, OneOrNone
<1>5. \A t \in Threads : DOMAIN inbox[t] = 1 .. Len(inbox[t])
  BY LenProperties DEF TypeOK
<1>6. /\ \A b \in B : \E t \in Threads : \E i \in 1 .. Len(inbox[t]) : b = <<t, i>> /\ inbox[t][i] = p
      /\ \A t \in Threads : \A i \in 1 .. Len(inbox[t]) : inbox[t][i] = p => <<t, i>> \in B
  BY <1>5
<1>7. B # {} <=> \E t \in Threads : Contains(inbox[t], p)
  <2>. HIDE DEF B
  <2>. QED
    BY <1>6 DEF Contains
<1>8. Cardinality(B) = IF B = {} THEN 0 ELSE 1
  <2>1. ASSUME NEW b \in B, NEW d \in B
        PROVE  b = d
    <3>1. PICK t \in Threads : \E i \in 1 .. Len(inbox[t]) : b = <<t, i>> /\ inbox[t][i] = p
      BY <1>6
    <3>2. PICK u \in Threads : \E j \in 1 .. Len(inbox[u]) : d = <<u, j>> /\ inbox[u][j] = p
      BY <1>6
    <3>3. PICK i \in 1 .. Len(inbox[t]) : b = <<t, i>> /\ inbox[t][i] = p
      BY <3>1
    <3>4. PICK j \in 1 .. Len(inbox[u]) : d = <<u, j>> /\ inbox[u][j] = p
      BY <3>2
    <3>5. t = HomeOf[parks[p].owner] /\ u = HomeOf[parks[p].owner]
      BY <3>3, <3>4 DEF HInv, Owned, Contains
    <3>6. i = j
      BY <3>3, <3>4, <3>5 DEF HInv, OneQueue, Once
    <3>. QED
      BY <3>3, <3>4, <3>5, <3>6
  <2>. QED
    BY <2>1, OneOrNone
<1>9. M = {} <=> ~InUse(p)
  BY DEF InUse
<1>10. W # {} \/ T # {} \/ B # {} <=> Queued(p)
  BY <1>7 DEF Queued
<1>11. ~(W # {} /\ T # {}) /\ ~(W # {} /\ B # {}) /\ ~(T # {} /\ B # {})
  BY <1>1, <1>7 DEF HInv, OneQueue, Marked
<1>12. /\ parks[p].refs = 0 <=> M = {} /\ ~Queued(p)
       /\ parks[p].refs = 2 <=> M # {} /\ Queued(p)
  BY <1>9 DEF HInv, Counted
<1>13. Holders(p) = Cardinality(M) + Cardinality(W) + Cardinality(T) + Cardinality(B)
  BY DEF Holders
<1>. HIDE DEF M, W, T, B
<1>. QED
  BY ONLY <1>1, <1>2, <1>3, <1>4, <1>8, <1>10, <1>11, <1>12, <1>13

(* Parks are counted right (park.valk:12-13, 39-40; `park_wait`,           *)
(* `park_release`, `wake_park`): in every state the references of a park   *)
(* are the wait that has it and the one place of the queue side that names *)
(* it, and no coroutine sleeps in a park that is not that of its wait.     *)
THEOREM RefsCounted == Spec => []RefsExact
<1>1. TypeOK /\ HInv /\ RInv => RefsExact
  BY HoldersCounted DEF RefsExact, RInv, Sleeping
<1>. QED
  BY <1>1, RunsInvariant, PTL

LEMMA TimesOnce ==
    ASSUME NEW c, NEW s \in Seq(Coros), Once(s)
    PROVE  Times(c, s) = IF Contains(s, c) THEN 1 ELSE 0
<1>. DEFINE I == {i \in DOMAIN s : s[i] = c}
<1>1. DOMAIN s = 1 .. Len(s)
  BY LenProperties
<1>2. Cardinality(I) = IF I = {} THEN 0 ELSE 1
  <2>1. \A i, j \in I : i = j
    BY <1>1 DEF Once
  <2>. QED
    BY <2>1, OneOrNone
<1>3. I = {} <=> ~Contains(s, c)
  BY <1>1 DEF Contains
<1>. QED
  BY <1>2, <1>3 DEF Times

(* A wake makes its coroutine runnable once (park.valk `deliver`,          *)
(* `expire_parks`; coro.valk `run_scheduled`): in every state a coroutine  *)
(* is at most one of running, next to run, in the run queue, and asleep in *)
(* a park, however its wakes and its timeout meet.                         *)
THEOREM ResumedOnce == Spec => []RunOnce
<1>1. ASSUME TypeOK, RInv, NEW c \in Coros, NEW t, t = HomeOf[c]
      PROVE  Times(c, runCoros[t]) + Times(c, batch[t])
                 + (IF current[t] = c THEN 1 ELSE 0) + (IF park[c] # None THEN 1 ELSE 0) <= 1
  <2>1. t \in Threads /\ runCoros[t] \in Seq(Coros) /\ batch[t] \in Seq(Coros)
    BY <1>1, Names DEF TypeOK
  <2>2. /\ Times(c, runCoros[t]) = IF Contains(runCoros[t], c) THEN 1 ELSE 0
        /\ Times(c, batch[t]) = IF Contains(batch[t], c) THEN 1 ELSE 0
    BY <1>1, <2>1, TimesOnce DEF RInv, OnePlace
  <2>3. /\ ~(current[t] = c /\ Contains(runCoros[t], c)) /\ ~(current[t] = c /\ Contains(batch[t], c))
        /\ ~(current[t] = c /\ park[c] # None)
        /\ ~(Contains(runCoros[t], c) /\ Contains(batch[t], c))
        /\ ~(Contains(runCoros[t], c) /\ park[c] # None) /\ ~(Contains(batch[t], c) /\ park[c] # None)
    BY <1>1 DEF RInv, OnePlace
  <2>. QED
    BY ONLY <2>2, <2>3
<1>2. TypeOK /\ RInv => RunOnce
  BY <1>1 DEF RunOnce
<1>. QED
  BY <1>2, RunsInvariant, PTL

(* Nobody is forgotten (park.valk:146-163, waker.valk `wake`, `wait`): in  *)
(* every state a sleeping coroutine whose thread lives is in its waker,    *)
(* unmarked, or in the hands of a wake, or in its own thread's inbox.      *)
THEOREM SleepersKnown == Spec => []SleeperKnown
<1>1. ASSUME TypeOK, HInv, RInv, NEW c \in Coros, park[c] # None, HomeOf[c] \in alive
      PROVE  \/ waiting[c] = park[c] /\ ~parks[park[c]].woken
             \/ \E q \in Procs : took[q] = park[c]
             \/ Contains(inbox[HomeOf[c]], park[c])
  <2>1. /\ c \in Waiters /\ mine[c] = park[c] /\ park[c] \in Parks
        /\ parks[park[c]].owner = c /\ Queued(park[c])
    BY <1>1, SleeperFacts DEF RInv, Sought
  <2>2. CASE \E w \in Waiters : waiting[w] = park[c]
    <3>1. PICK p \in Parks : p = park[c]
      BY <2>1
    <3>2. PICK w \in Waiters : waiting[w] = p
      BY <2>2, <3>1
    <3>3. mine[w] = p /\ p # None
      BY <1>1, <3>1, <3>2 DEF HInv, Stages
    <3>4. w = c
      BY ONLY HInv, <2>1, <3>1, <3>3 DEF HInv, Owned
    <3>5. ~parks[p].woken
      BY ONLY HInv, <3>2, <3>3 DEF HInv, Marked
    <3>6. waiting[c] = park[c] /\ ~parks[park[c]].woken
      BY ONLY <3>1, <3>2, <3>4, <3>5
    <3>. QED
      BY <3>6
  <2>3. CASE \E t \in Threads : Contains(inbox[t], park[c])
    <3>1. PICK p \in Parks : p = park[c]
      BY <2>1
    <3>2. PICK t \in Threads : Contains(inbox[t], p)
      BY <2>3, <3>1
    <3>3. t = HomeOf[c]
      BY ONLY HInv, <2>1, <3>1, <3>2 DEF HInv, Owned
    <3>. QED
      BY <3>1, <3>2, <3>3
  <2>. QED
    BY <2>1, <2>2, <2>3 DEF Queued
<1>2. TypeOK /\ HInv /\ RInv => SleeperKnown
  BY <1>1 DEF SleeperKnown
<1>. QED
  BY <1>2, RunsInvariant, PTL

-----------------------------------------------------------------------------
(* The waker as WakeSignal has it                                          *)

Within(w) == pc[w] \in {"look", "asleep"}

(* A thread that ended runs nobody, so whoever acts is not gone.           *)
LInv == \A t \in Threads : t \notin alive => phase[t] = "ended" /\ current[t] = None

LEMMA LivingStep ==
    ASSUME TypeOK, LInv, [Next]_vars
    PROVE  LInv'
<1>1. /\ phase \in [Threads -> Phases] /\ current \in [Threads -> Coros \cup {None}]
      /\ HomeOf \in [Coros -> Threads]
  BY ParkingAssumption DEF TypeOK
<1>2. ASSUME alive' = alive, phase' = phase,
             \/ current' = current
             \/ \E t \in Threads : current' = [current EXCEPT ![t] = None]
      PROVE  LInv'
  BY ONLY LInv, <1>1, <1>2 DEF LInv
<1>3. ASSUME NEW x \in Procs, Call(x)
      PROVE  LInv'
  <2>1. CASE Sleep(x) \/ Complete(x)
    <3>1. PICK t \in Threads : current' = [current EXCEPT ![t] = None]
      BY <1>1, <2>1 DEF Sleep, Complete
    <3>. QED
      BY <1>2, <2>1, <3>1 DEF Sleep, Complete, home
  <2>2. CASE BeginWait(x) \/ BeginWake(x) \/ WakePark(x) \/ Enqueue(x) \/ Keep(x)
             \/ (x \in Waiters /\ (Leave(x) \/ Withdraw(x) \/ Release(x)))
    <3>1. alive' = alive /\ phase' = phase /\ current' = current
      BY <2>2 DEF BeginWait, Leave, Withdraw, Release, BeginWake, WakePark, Enqueue, Keep, home, sched
    <3>. QED
      BY <1>2, <3>1
  <2>. QED
    BY <1>3, <2>1, <2>2 DEF Call
<1>4. ASSUME NEW t \in Threads, Loop(t)
      PROVE  LInv'
  <2>1. /\ alive' = alive /\ phase[t] # "ended"
        /\ \A u \in Threads : u # t => phase'[u] = phase[u] /\ current'[u] = current[u]
    BY <1>1, <1>4 DEF Loop, Schedule, Resume, LoopOn, Ran, PollEnd, DrainHome, ExpireParks,
                      WaitForEvents, To, home
  <2>. QED
    BY ONLY LInv, <2>1 DEF LInv
<1>5. ASSUME NEW t \in Threads, HomeClose(t)
      PROVE  LInv'
  <2>1. alive' = alive \ {t} /\ current' = current /\ current[t] = None /\ phase' = [phase EXCEPT ![t] = "ended"]
    BY <1>5 DEF HomeClose, Ran, To
  <2>. QED
    BY ONLY LInv, <1>1, <2>1 DEF LInv
<1>6. ASSUME NEW w \in Waiters, TimePasses(w)
      PROVE  LInv'
  BY <1>2, <1>6 DEF TimePasses, home, sched
<1>7. CASE UNCHANGED vars
  BY <1>2, <1>7 DEF vars
<1>. QED
  BY <1>3, <1>4, <1>5, <1>6, <1>7 DEF Next

LEMMA RunningLives ==
    ASSUME LInv, NEW w \in Waiters, Running(w)
    PROVE  w \notin Gone
BY ParkingAssumption DEF LInv, Running, Gone

-----------------------------------------------------------------------------
(* The wakes that are due, counted                                         *)

LEMMA DueCounts ==
    \A w : /\ IsFiniteSet(Carriers(w)) /\ IsFiniteSet(Carriers(w)')
           /\ Due(w) \in Nat /\ Due(w)' \in Nat
<1>1. \A S \in SUBSET Procs : IsFiniteSet(S) /\ Cardinality(S) \in Nat
  BY Names, ParkingAssumption, FS_Subset, FS_CardinalityType
<1>2. \A w : Carriers(w) \in SUBSET Procs /\ Carriers(w)' \in SUBSET Procs
  BY DEF Carriers
<1>. QED
  BY <1>1, <1>2 DEF Due

SameFor(w) ==
    /\ Within(w)' <=> Within(w)
    /\ w \in signaled' <=> w \in signaled
    /\ Met(w)' <=> Met(w)
    /\ Carriers(w)' = Carriers(w)

LEMMA SameDue ==
    ASSUME NEW w \in Waiters, SameFor(w)
    PROVE  (Within(w)' <=> Within(w)) /\ Due(w)' = Due(w)
BY DEF SameFor, Due

(* What a wake that goes from one place to another does to the count.      *)
Value(b) == IF b THEN 1 ELSE 0

LEMMA DueIs ==
    ASSUME NEW w \in Waiters
    PROVE  /\ Due(w) = Value(w \in signaled) + Value(Met(w)) + Cardinality(Carriers(w))
           /\ Due(w)' = Value(w \in signaled') + Value(Met(w)') + Cardinality(Carriers(w)')
BY DEF Due, Value

LEMMA CarrierGone ==
    ASSUME NEW w, NEW q \in Carriers(w), Carriers(w)' = Carriers(w) \ {q}
    PROVE  /\ Cardinality(Carriers(w)) \in Nat /\ Cardinality(Carriers(w)') \in Nat
           /\ Cardinality(Carriers(w)) = Cardinality(Carriers(w)') + 1
<1>1. PICK S : S = Carriers(w) /\ IsFiniteSet(S)
  BY DueCounts
<1>2. Cardinality(S) \in Nat /\ Cardinality(S \ {q}) \in Nat /\ Cardinality(S \ {q}) = Cardinality(S) - 1
  BY <1>1, FS_RemoveElement, FS_CardinalityType
<1>. QED
  BY <1>1, <1>2

LEMMA CarrierNew ==
    ASSUME NEW w, NEW q, q \notin Carriers(w), Carriers(w)' = Carriers(w) \cup {q}
    PROVE  /\ Cardinality(Carriers(w)) \in Nat /\ Cardinality(Carriers(w)') \in Nat
           /\ Cardinality(Carriers(w)') = Cardinality(Carriers(w)) + 1
<1>1. PICK S : S = Carriers(w) /\ IsFiniteSet(S)
  BY DueCounts
<1>2. Cardinality(S) \in Nat /\ Cardinality(S \cup {q}) = Cardinality(S) + 1
  BY <1>1, FS_AddElement, FS_CardinalityType
<1>. QED
  BY <1>1, <1>2

-----------------------------------------------------------------------------
(* A step for one waiter                                                   *)

LEMMA SignalSame ==
    ASSUME alive' = alive, sent' = sent, woke' = woke,
           \A w \in Waiters : SameFor(w) \/ (w \in Gone /\ (Within(w)' <=> Within(w)))
    PROVE  UNCHANGED Signal!vars
<1>1. Gone' = Gone
  BY DEF Gone
<1>2. \A w \in Waiters : (Within(w)' <=> Within(w)) /\ (w \in Gone \/ Due(w)' = Due(w))
  BY SameDue
<1>3. {w \in Waiters \ Gone : pc[w] \in {"look", "asleep"}}'
        = {w \in Waiters \ Gone : pc[w] \in {"look", "asleep"}}
  BY ONLY <1>1, <1>2 DEF Within
<1>4. [w \in Waiters |-> IF w \in Gone THEN 0 ELSE Due(w)]'
        = [w \in Waiters |-> IF w \in Gone THEN 0 ELSE Due(w)]
  BY ONLY <1>1, <1>2
<1>. QED
  BY ONLY <1>1, <1>3, <1>4, sent' = sent, woke' = woke DEF Signal!vars

(* The steps of WakeSignal, for what changes of one waiter.                *)
StutterFor(w) ==
    /\ sent' = sent /\ woke' = woke
    /\ (Within(w)' <=> Within(w)) /\ Due(w)' = Due(w)

BeginFor(w) ==
    /\ sent' = sent /\ woke' = woke
    /\ w \notin Gone /\ ~Within(w) /\ Within(w)' /\ Due(w)' = Due(w)

WakeFor(w) ==
    /\ sent' = [sent EXCEPT ![w] = @ + 1] /\ woke' = woke
    /\ Within(w)' <=> Within(w)
    /\ Due(w)' = Due(w) + 1 \/ (Due(w)' = Due(w) /\ Due(w) > 0)

MergeFor(w) ==
    /\ sent' = sent /\ woke' = woke
    /\ Within(w)' <=> Within(w)
    /\ Due(w) > 1 /\ Due(w)' = Due(w) - 1

TrueFor(w) ==
    /\ sent' = sent /\ woke' = [woke EXCEPT ![w] = @ + 1]
    /\ w \notin Gone /\ ~Within(w)'
    /\ Due(w) > 0 /\ Due(w)' = Due(w) - 1

TimedOutFor(w) ==
    /\ sent' = sent /\ woke' = woke
    /\ w \notin Gone /\ Within(w) /\ ~Within(w)' /\ Due(w)' = Due(w)

LEMMA SignalStep ==
    ASSUME alive' = alive, NEW w \in Waiters,
           \A v \in Waiters : v # w => SameFor(v),
           \/ StutterFor(w) \/ BeginFor(w) \/ WakeFor(w) \/ MergeFor(w) \/ TrueFor(w) \/ TimedOutFor(w)
    PROVE  Signal!Next \/ UNCHANGED Signal!vars
<1>. DEFINE I == {v \in Waiters \ Gone : pc[v] \in {"look", "asleep"}}
            D == [v \in Waiters |-> IF v \in Gone THEN 0 ELSE Due(v)]
<1>1. Gone' = Gone
  BY DEF Gone
<1>2. /\ \A v : v \in I <=> v \in Waiters /\ v \notin Gone /\ Within(v)
      /\ \A v : v \in I' <=> v \in Waiters /\ v \notin Gone /\ Within(v)'
  BY <1>1 DEF Within
<1>3. /\ D = [v \in Waiters |-> IF v \in Gone THEN 0 ELSE Due(v)]
      /\ D' = [v \in Waiters |-> IF v \in Gone THEN 0 ELSE Due(v)']
  BY <1>1
<1>4. \A v \in Waiters : v # w => (Within(v)' <=> Within(v)) /\ Due(v)' = Due(v)
  BY SameDue
<1>. HIDE DEF I, D
<1>5. \A v \in Waiters : v # w => (v \in I' <=> v \in I) /\ D'[v] = D[v]
  BY ONLY <1>2, <1>3, <1>4
<1>6. Due(w) \in Nat /\ Due(w)' \in Nat
  BY DueCounts
<1>7. (Due(w)' = Due(w) \/ w \in Gone) => D' = D
  BY ONLY <1>3, <1>5
<1>8. w \notin Gone => D[w] = Due(w) /\ D' = [D EXCEPT ![w] = Due(w)']
  BY ONLY <1>3, <1>5, w \in Waiters
<1>9. ((Within(w)' <=> Within(w)) \/ w \in Gone) => I' = I
  BY ONLY <1>2, <1>5, w \in Waiters
<1>10. CASE StutterFor(w) \/ (MergeFor(w) /\ w \in Gone)
  <2>1. I' = I /\ D' = D /\ sent' = sent /\ woke' = woke
    BY ONLY <1>7, <1>9, <1>10 DEF StutterFor, MergeFor
  <2>. QED
    BY <1>1, <2>1 DEF I, D, Signal!vars
<1>11. CASE BeginFor(w)
  <2>1. /\ w \notin I /\ w \notin Gone /\ I' = I \cup {w} /\ D' = D /\ sent' = sent /\ woke' = woke
    BY ONLY <1>2, <1>5, <1>7, <1>11, w \in Waiters DEF BeginFor
  <2>2. Signal!Begin(w)
    BY <1>1, <2>1 DEF I, D, Signal!Begin
  <2>. QED
    BY <2>2 DEF Signal!Next
<1>12. CASE WakeFor(w)
  <2>1. /\ I' = I /\ sent' = [sent EXCEPT ![w] = @ + 1] /\ woke' = woke
        /\ \/ w \notin Gone /\ D' = [D EXCEPT ![w] = @ + 1]
           \/ (w \in Gone \/ D[w] > 0) /\ D' = D
    BY ONLY <1>6, <1>7, <1>8, <1>9, <1>12 DEF WakeFor
  <2>2. Signal!Wake(w)
    BY <1>1, <2>1 DEF I, D, Signal!Wake
  <2>. QED
    BY <2>2 DEF Signal!Next
<1>13. CASE MergeFor(w) /\ w \notin Gone
  <2>1. /\ I' = I /\ sent' = sent /\ woke' = woke
        /\ D[w] > 1 /\ D' = [D EXCEPT ![w] = @ - 1]
    BY ONLY <1>6, <1>8, <1>9, <1>13 DEF MergeFor
  <2>2. Signal!Merge(w)
    BY <1>1, <2>1 DEF I, D, Signal!Merge
  <2>. QED
    BY <2>2 DEF Signal!Next
<1>14. CASE TrueFor(w)
  <2>1. /\ w \notin I' /\ sent' = sent /\ woke' = [woke EXCEPT ![w] = @ + 1]
        /\ D[w] > 0 /\ D' = [D EXCEPT ![w] = @ - 1]
    BY ONLY <1>2, <1>6, <1>8, <1>14 DEF TrueFor
  <2>2. I' = I \ {w}
    BY ONLY <1>2, <1>5, <2>1
  <2>3. Signal!True(w)
    BY <1>1, <2>1 DEF D, Signal!True
  <2>4. CASE w \in I
    <3>1. Signal!Woken(w)
      BY <2>2, <2>3, <2>4 DEF I, Signal!Woken
    <3>. QED
      BY <3>1 DEF Signal!Next
  <2>5. CASE w \notin I
    <3>1. Signal!AtOnce(w)
      BY <2>2, <2>3, <2>5 DEF I, Signal!AtOnce
    <3>. QED
      BY <3>1 DEF Signal!Next
  <2>. QED
    BY <2>4, <2>5
<1>15. CASE TimedOutFor(w)
  <2>1. /\ w \in I /\ w \notin I' /\ D' = D /\ sent' = sent /\ woke' = woke
    BY ONLY <1>2, <1>7, <1>15, w \in Waiters DEF TimedOutFor
  <2>2. I' = I \ {w}
    BY ONLY <1>2, <1>5, <2>1
  <2>3. Signal!TimedOut(w)
    BY <1>1, <2>1, <2>2 DEF I, D, Signal!TimedOut
  <2>. QED
    BY <2>3 DEF Signal!Next
<1>. QED
  BY <1>10, <1>11, <1>12, <1>13, <1>14, <1>15

(* Of a waiter in a wait: no other waiter has its park.                    *)
LEMMA MineApart ==
    ASSUME TypeOK, HInv, NEW w \in Waiters, mine[w] # None
    PROVE  \A v \in Waiters : v # w => mine[v] # mine[w]
BY DEF HInv, Owned

LEMMA CarriersSame ==
    ASSUME NEW x \in Procs,
           \A y \in Procs : y # x => pc'[y] = pc[y], target' = target,
           pc[x] \notin {"wakePark", "keep"}, pc'[x] \notin {"wakePark", "keep"}
    PROVE  \A v \in Waiters : Carriers(v)' = Carriers(v)
BY DEF Carriers

(* A wait begins: with the wake that was kept, or by waiting.              *)
LEMMA BeginWaitSignal ==
    ASSUME TypeOK, TypeOK', HInv, LInv, NEW w \in Procs, BeginWait(w)
    PROVE  Signal!Next \/ UNCHANGED Signal!vars
<1>1. /\ w \in Waiters /\ pc[w] = "idle" /\ mine[w] = None /\ target' = target
      /\ pc \in [Procs -> PCs] /\ mine \in [Waiters -> Parks \cup {None}]
      /\ parks \in [Parks -> ParkType] /\ signaled \subseteq Waiters
      /\ alive' = alive /\ sent' = sent
  BY HeldFacts DEF BeginWait, Idle, wake, home, TypeOK, HInv, Stages, InWait
<1>2. w \notin Gone
  BY <1>1, RunningLives DEF BeginWait, Idle
<1>3. CASE w \in signaled
  <2>1. /\ signaled' = signaled \ {w} /\ parks' = parks /\ mine' = mine /\ pc' = pc
        /\ woke' = [woke EXCEPT ![w] = @ + 1]
    BY <1>3 DEF BeginWait, Woke
  <2>2. \A v \in Waiters : Carriers(v)' = Carriers(v)
    BY ONLY <1>1, <2>1 DEF Carriers
  <2>3. \A v \in Waiters : (Met(v)' <=> Met(v)) /\ (Within(v)' <=> Within(v))
    BY ONLY <2>1 DEF Met, Within
  <2>4. \A v \in Waiters : v # w => SameFor(v)
    BY ONLY <2>1, <2>2, <2>3 DEF SameFor
  <2>5. Due(w) \in Nat /\ Due(w)' \in Nat /\ Due(w) = Due(w)' + 1
    <3>1. Value(w \in signaled) = 1 /\ Value(w \in signaled') = 0
      BY ONLY <1>3, <2>1 DEF Value
    <3>2. Value(Met(w)') = Value(Met(w)) /\ Value(Met(w)) \in Nat
      BY ONLY <1>1, <2>3 DEF Value
    <3>3. Cardinality(Carriers(w)) \in Nat /\ Cardinality(Carriers(w)') = Cardinality(Carriers(w))
      BY <1>1, <2>2, DueCounts, FS_CardinalityType
    <3>. QED
      BY <1>1, <3>1, <3>2, <3>3, DueIs
  <2>6. TrueFor(w)
    BY ONLY <1>1, <1>2, <2>1, <2>3, <2>5 DEF TrueFor, Within
  <2>. QED
    BY <1>1, <2>4, <2>6, SignalStep
<1>4. CASE w \notin signaled
  <2>1. PICK p \in Parks : /\ parks[p].refs = 0
                           /\ parks' = [parks EXCEPT ![p] = [Free EXCEPT !.refs = 2, !.owner = w]]
                           /\ mine' = [mine EXCEPT ![w] = p]
    BY <1>4 DEF BeginWait
  <2>2. pc' = [pc EXCEPT ![w] = "look"] /\ signaled' = signaled /\ woke' = woke
    BY <1>4 DEF BeginWait, Goto
  <2>3. /\ pc'[w] = "look" /\ \A y \in Procs : y # w => pc'[y] = pc[y]
        /\ mine'[w] = p /\ \A v \in Waiters : v # w => mine'[v] = mine[v]
        /\ \A r \in Parks : r # p => parks'[r] = parks[r]
        /\ ~parks'[p].woken
    BY <1>1, <2>1, <2>2, Names DEF Free
  <2>4. \A v \in Waiters : mine[v] # p
    BY <2>1, HeldFacts DEF InUse
  <2>5. \A v \in Waiters : Carriers(v)' = Carriers(v)
    BY ONLY <1>1, <2>3, CarriersSame, w \in Procs
  <2>6. \A v \in Waiters : v # w => (Met(v)' <=> Met(v)) /\ (Within(v)' <=> Within(v))
    BY ONLY <1>1, <2>3, <2>4, Names DEF Met, Within
  <2>7. ~Met(w) /\ ~Met(w)' /\ ~Within(w) /\ Within(w)'
    BY ONLY <1>1, <2>3 DEF Met, Within
  <2>8. \A v \in Waiters : v # w => SameFor(v)
    BY ONLY <2>2, <2>5, <2>6 DEF SameFor
  <2>9. Due(w)' = Due(w)
    BY ONLY <1>1, <2>2, <2>5, <2>7 DEF Due
  <2>10. BeginFor(w)
    BY ONLY <1>1, <1>2, <2>2, <2>7, <2>9 DEF BeginFor
  <2>. QED
    BY <1>1, <2>8, <2>10, SignalStep
<1>. QED
  BY <1>3, <1>4

(* A wait ends by its wake, or by its timeout if none came.                *)
LEMMA LeaveSignal ==
    ASSUME TypeOK, TypeOK', HInv, LInv, NEW w \in Waiters, Leave(w)
    PROVE  Signal!Next \/ UNCHANGED Signal!vars
<1>1. /\ pc[w] = "look" /\ target' = target /\ mine' = mine /\ signaled' = signaled
      /\ pc' = [pc EXCEPT ![w] = IF parks[mine[w]].woken THEN "release" ELSE "withdraw"]
      /\ parks[mine[w]].woken => woke' = [woke EXCEPT ![w] = @ + 1]
      /\ ~parks[mine[w]].woken => woke' = woke
      /\ parks' = [parks EXCEPT ![mine[w]].left = TRUE]
      /\ pc \in [Procs -> PCs] /\ parks \in [Parks -> ParkType]
      /\ w \in Procs /\ alive' = alive /\ sent' = sent
  BY HeldFacts, Names DEF Leave, Goto, Woke, wake, waker, home, TypeOK
<1>2. PICK p \in Parks : /\ p = mine[w] /\ p # None /\ ~parks[p].left
                         /\ \A v \in Waiters : v # w => mine[v] # p
  BY <1>1, HeldFacts, MineApart DEF HInv, Stages, InWait, LeftBehind
<1>3. /\ pc'[w] \in {"release", "withdraw"} /\ \A y \in Procs : y # w => pc'[y] = pc[y]
      /\ parks'[p].left /\ \A r \in Parks : r # p => parks'[r] = parks[r]
  BY <1>1, <1>2 DEF ParkType
<1>4. \A v \in Waiters : Carriers(v)' = Carriers(v)
  BY ONLY <1>1, <1>3, CarriersSame
<1>5. \A v \in Waiters : v # w => (Met(v)' <=> Met(v)) /\ (Within(v)' <=> Within(v))
  <2>1. mine \in [Waiters -> Parks \cup {None}]
    BY DEF TypeOK
  <2>. QED
    BY ONLY <1>1, <1>2, <1>3, <2>1, Names DEF Met, Within
<1>6. ~Met(w)' /\ Within(w) /\ ~Within(w)'
  BY ONLY <1>1, <1>2, <1>3 DEF Met, Within
<1>7. \A v \in Waiters : v # w => SameFor(v)
  BY ONLY <1>1, <1>4, <1>5 DEF SameFor
<1>8. w \notin Gone
  BY RunningLives DEF Leave
<1>9. CASE parks[p].woken
  <2>1. Due(w) \in Nat /\ Due(w)' \in Nat /\ Due(w) = Due(w)' + 1
    <3>1. Value(Met(w)) = 1 /\ Value(Met(w)') = 0
      BY ONLY <1>2, <1>6, <1>9 DEF Value, Met
    <3>2. Value(w \in signaled') = Value(w \in signaled) /\ Value(w \in signaled) \in Nat
      BY ONLY <1>1 DEF Value
    <3>3. Cardinality(Carriers(w)) \in Nat /\ Cardinality(Carriers(w)') = Cardinality(Carriers(w))
      BY <1>4, DueCounts, FS_CardinalityType
    <3>. QED
      BY <3>1, <3>2, <3>3, DueIs
  <2>2. TrueFor(w)
    BY ONLY <1>1, <1>2, <1>6, <1>8, <1>9, <2>1 DEF TrueFor
  <2>. QED
    BY <1>1, <1>7, <2>2, SignalStep
<1>10. CASE ~parks[p].woken
  <2>1. ~Met(w)
    BY ONLY <1>2, <1>10 DEF Met
  <2>2. Due(w)' = Due(w)
    BY ONLY <1>1, <1>4, <1>6, <2>1, w \in Waiters DEF Due
  <2>3. TimedOutFor(w)
    BY ONLY <1>1, <1>2, <1>6, <1>8, <1>10, <2>2 DEF TimedOutFor
  <2>. QED
    BY <1>1, <1>7, <2>3, SignalStep
<1>. QED
  BY <1>9, <1>10

(* After that the waker does not see the waiter any more.                  *)
LEMMA ReleaseSignal ==
    ASSUME TypeOK, TypeOK', HInv, NEW w \in Waiters, Withdraw(w) \/ Release(w)
    PROVE  UNCHANGED Signal!vars
<1>1. /\ pc[w] \in {"withdraw", "release"} /\ target' = target /\ signaled' = signaled
      /\ pc'[w] \in {"release", "idle"} /\ \A y \in Procs : y # w => pc'[y] = pc[y]
      /\ mine'[w] \in {mine[w], None} /\ \A v \in Waiters : v # w => mine'[v] = mine[v]
      /\ parks' = parks \/ parks' = Released(parks, {mine[w]})
      /\ w \in Procs /\ alive' = alive /\ sent' = sent /\ woke' = woke
  BY Names DEF Withdraw, Release, Goto, wake, waker, home, history, TypeOK
<1>2. PICK p \in Parks : /\ p = mine[w] /\ p # None /\ parks[p].left /\ parks[p].refs \in {1, 2}
                         /\ \A v \in Waiters : v # w => mine[v] # p
  BY <1>1, HeldFacts, MineApart DEF HInv, Stages, InWait, LeftBehind
<1>3. parks \in [Parks -> ParkType] /\ \A r \in {p} : r \in Parks => parks[r].refs # 0
  BY <1>2, HeldFacts
<1>4. /\ \A r \in Parks : r # p => Released(parks, {p})[r] = parks[r]
      /\ parks[p].refs = 1 => Released(parks, {p})[p] = Free
      /\ parks[p].refs = 2 => Released(parks, {p})[p].left = parks[p].left
  BY ONLY <1>3, ReleasedFacts, p \in Parks
<1>5. /\ \A r \in Parks : r # p => parks'[r] = parks[r]
      /\ ~parks'[p].woken \/ parks'[p].left
  <2>1. CASE parks' = parks
    BY ONLY <1>2, <2>1
  <2>2. CASE parks' = Released(parks, {p})
    <3>1. ~Free.woken
      BY DEF Free
    <3>2. CASE parks[p].refs = 1
      BY ONLY <1>4, <2>2, <3>1, <3>2
    <3>3. CASE parks[p].refs = 2
      <4>1. parks'[p].left = parks[p].left
        BY ONLY <1>4, <2>2, <3>3
      <4>2. \A r \in Parks : r # p => parks'[r] = parks[r]
        BY ONLY <1>4, <2>2
      <4>. QED
        BY ONLY <1>2, <4>1, <4>2
    <3>. QED
      BY <1>2, <3>2, <3>3
  <2>. QED
    BY <1>1, <1>2, <2>1, <2>2
<1>6. \A v \in Waiters : Carriers(v)' = Carriers(v)
  BY ONLY <1>1, CarriersSame
<1>7. \A v \in Waiters : (Met(v)' <=> Met(v)) /\ (Within(v)' <=> Within(v))
  <2>1. mine \in [Waiters -> Parks \cup {None}]
    BY DEF TypeOK
  <2>2. \A v \in Waiters : v # w => (Met(v)' <=> Met(v)) /\ (Within(v)' <=> Within(v))
    BY ONLY <1>1, <1>2, <1>5, <2>1, Names DEF Met, Within
  <2>3. ~Met(w) /\ ~Met(w)' /\ ~Within(w) /\ ~Within(w)'
    BY ONLY <1>1, <1>2, <1>5 DEF Met, Within
  <2>. QED
    BY ONLY <2>2, <2>3
<1>8. \A v \in Waiters : SameFor(v)
  BY ONLY <1>1, <1>6, <1>7 DEF SameFor
<1>. QED
  BY <1>1, <1>8, SignalSame

(* A wake begins: kept for the next wait, or carried to this one.          *)
LEMMA BeginWakeSignal ==
    ASSUME TypeOK, TypeOK', HInv, NEW q \in Procs, BeginWake(q)
    PROVE  Signal!Next \/ UNCHANGED Signal!vars
<1>1. PICK w \in Waiters :
        /\ sent' = [sent EXCEPT ![w] = @ + 1]
        /\ \/ /\ signaled' = signaled \cup {w}
              /\ UNCHANGED <<waiting, pc, wake>>
           \/ /\ target' = [target EXCEPT ![q] = w]
              /\ Goto(q, "wakePark")
              /\ UNCHANGED <<signaled, calls>>
  BY DEF BeginWake
<1>2. /\ pc[q] = "idle" /\ parks' = parks /\ mine' = mine /\ alive' = alive /\ woke' = woke
      /\ pc \in [Procs -> PCs] /\ target \in [Procs -> Waiters \cup {None}]
  BY DEF BeginWake, Idle, home, TypeOK
<1>3. \A v \in Waiters : Met(v)' <=> Met(v)
  BY ONLY <1>2 DEF Met
<1>4. Cardinality(Carriers(w)) \in Nat /\ Value(Met(w)) \in Nat /\ Value(Met(w)') = Value(Met(w))
  BY <1>3, DueCounts, FS_CardinalityType DEF Value
<1>5. CASE signaled' = signaled \cup {w} /\ UNCHANGED <<waiting, pc, wake>>
  <2>1. pc' = pc /\ target' = target
    BY <1>5 DEF wake
  <2>2. \A v \in Waiters : Carriers(v)' = Carriers(v) /\ (Within(v)' <=> Within(v))
    BY ONLY <2>1 DEF Carriers, Within
  <2>3. \A v \in Waiters : v # w => SameFor(v)
    BY ONLY <1>3, <1>5, <2>2 DEF SameFor
  <2>4. /\ Value(w \in signaled') = 1
        /\ Value(w \in signaled) = 0 \/ Value(w \in signaled) = 1
    BY ONLY <1>5 DEF Value
  <2>5. Due(w)' = Due(w) + 1 \/ (Due(w)' = Due(w) /\ Due(w) > 0)
    BY <1>4, <2>2, <2>4, DueIs
  <2>6. WakeFor(w)
    BY ONLY <1>1, <1>2, <2>2, <2>5, w \in Waiters DEF WakeFor
  <2>. QED
    BY <1>2, <2>3, <2>6, SignalStep
<1>6. CASE target' = [target EXCEPT ![q] = w] /\ Goto(q, "wakePark") /\ UNCHANGED <<signaled, calls>>
  <2>1. /\ pc'[q] = "wakePark" /\ \A y \in Procs : y # q => pc'[y] = pc[y]
        /\ target'[q] = w /\ \A y \in Procs : y # q => target'[y] = target[y]
        /\ signaled' = signaled
    BY <1>2, <1>6 DEF Goto
  <2>2. \A v \in Waiters : Within(v)' <=> Within(v)
    BY ONLY <1>2, <2>1, Names DEF Within
  <2>3. \A v \in Waiters : v # w => Carriers(v)' = Carriers(v)
    BY ONLY <1>2, <2>1 DEF Carriers
  <2>4. q \notin Carriers(w) /\ Carriers(w)' = Carriers(w) \cup {q}
    BY ONLY <1>2, <2>1, q \in Procs DEF Carriers
  <2>5. \A v \in Waiters : v # w => SameFor(v)
    BY ONLY <1>3, <2>1, <2>2, <2>3 DEF SameFor
  <2>6. Value(w \in signaled') = Value(w \in signaled) /\ Value(w \in signaled) \in Nat
    BY ONLY <2>1 DEF Value
  <2>7. Due(w)' = Due(w) + 1
    BY <1>4, <2>4, <2>6, CarrierNew, DueIs
  <2>8. WakeFor(w)
    BY ONLY <1>1, <1>2, <2>2, <2>7, w \in Waiters DEF WakeFor
  <2>. QED
    BY <1>2, <2>5, <2>8, SignalStep
<1>. QED
  BY <1>1, <1>5, <1>6

(* The wake that is carried ends up on the park of a wait that still looks *)
(* at it, and else is kept: it is never in neither place.                  *)
LEMMA WakeParkSignal ==
    ASSUME TypeOK, TypeOK', HInv, NEW q \in Procs, WakePark(q)
    PROVE  Signal!Next \/ UNCHANGED Signal!vars
<1>1. PICK p \in Parks : /\ p = took[q] /\ p # None /\ pc[q] = "wakePark"
                         /\ parks[p].owner = target[q] /\ parks[p].refs # 0 /\ Queued(p)
  BY HeldFacts, Names DEF WakePark, HInv, Stages, Carrying, Owned
<1>2. PICK w \in Waiters : w = target[q]
  BY <1>1, HeldFacts
<1>3. /\ signaled' = signaled /\ mine' = mine /\ alive' = alive /\ sent' = sent /\ woke' = woke
      /\ pc \in [Procs -> PCs] /\ target \in [Procs -> Waiters \cup {None}]
      /\ mine \in [Waiters -> Parks \cup {None}] /\ parks \in [Parks -> ParkType]
  BY HeldFacts DEF WakePark, waker, home, history, TypeOK
<1>4. /\ \A r \in Parks : r # p => parks'[r] = parks[r]
      /\ parks[p].refs = 2 => parks'[p].woken /\ parks'[p].left = parks[p].left
      /\ parks[p].left => ~parks'[p].woken \/ parks'[p].left
  <2>1. CASE GivesUp(q)
    <3>1. /\ parks[p].refs \in {1, 2}
          /\ \A r \in Parks : r # p => parks'[r] = parks[r]
          /\ parks[p].refs = 1 => parks'[p] = Free
          /\ parks[p].refs = 2 => parks'[p].woken /\ parks'[p].left = parks[p].left
      BY <1>1, <2>1, GivenUp
    <3>2. ~Free.woken
      BY DEF Free
    <3>3. parks[p].left /\ parks[p].refs = 2 => parks'[p].left
      BY ONLY <3>1
    <3>4. parks[p].refs = 1 => ~parks'[p].woken
      BY ONLY <3>1, <3>2
    <3>. QED
      BY ONLY <3>1, <3>3, <3>4
  <2>2. CASE parks' = [parks EXCEPT ![p].woken = TRUE]
    <3>1. parks'[p].woken /\ parks'[p].left = parks[p].left /\ \A r \in Parks : r # p => parks'[r] = parks[r]
      BY ONLY <1>3, <2>2, p \in Parks DEF ParkType
    <3>. QED
      BY ONLY <3>1
  <2>. QED
    BY <1>1, <2>1, <2>2, WakeParkShape
<1>5. \A y \in Procs : y # q => pc'[y] = pc[y] /\ target'[y] = target[y]
  BY <1>3 DEF WakePark, Keeps, WakeEnds, Goto, wake
<1>6. CASE parks[p].left
  <2>1. pc'[q] = "keep" /\ target' = target
    BY <1>1, <1>3, <1>6 DEF WakePark, Keeps, Goto
  <2>2. \A v \in Waiters : Carriers(v)' = Carriers(v)
    BY ONLY <1>1, <1>5, <2>1 DEF Carriers
  <2>3. \A v \in Waiters : Within(v)' <=> Within(v)
    BY ONLY <1>1, <1>5, <2>1, Names DEF Within
  <2>4. ASSUME NEW v \in Waiters
        PROVE  Met(v)' <=> Met(v)
    <3>1. CASE mine[v] = p
      BY ONLY <1>3, <1>4, <1>6, <3>1 DEF Met
    <3>2. CASE mine[v] # p
      BY ONLY <1>3, <1>4, <3>2, v \in Waiters DEF Met
    <3>. QED
      BY <3>1, <3>2
  <2>5. \A v \in Waiters : SameFor(v)
    BY ONLY <1>3, <2>2, <2>3, <2>4 DEF SameFor
  <2>. QED
    BY <1>3, <2>5, SignalSame
<1>7. CASE ~parks[p].left
  <2>1. mine[w] = p /\ parks[p].refs = 2 /\ \A v \in Waiters : v # w => mine[v] # p
    <3>1. PICK v \in Waiters : mine[v] = p
      BY <1>1, <1>7 DEF HInv, LeftBehind, InUse
    <3>2. v = w
      BY <1>1, <1>2, <3>1 DEF HInv, Owned
    <3>3. InUse(p)
      BY <3>1 DEF InUse
    <3>4. parks[p].refs = 2
      BY ONLY HInv, <1>1, <3>3 DEF HInv, Counted
    <3>. QED
      BY <1>1, <3>1, <3>2, <3>4, MineApart
  <2>2. pc'[q] \in {"idle", "enqueue"}
    BY <1>1, <1>3, <1>7 DEF WakePark, WakeEnds, Goto
  <2>3. \A v \in Waiters : v # w => (Carriers(v)' = Carriers(v))
    BY ONLY <1>2, <1>5, <2>2 DEF Carriers
  <2>4. \A v \in Waiters : Within(v)' <=> Within(v)
    BY ONLY <1>1, <1>5, <2>2, Names DEF Within
  <2>5. \A v \in Waiters : v # w => (Met(v)' <=> Met(v))
    BY ONLY <1>3, <1>4, <2>1 DEF Met
  <2>6. ~Met(w) /\ Met(w)'
    <3>1. parks'[p].woken /\ ~parks'[p].left
      BY ONLY <1>4, <1>7, <2>1
    <3>2. ~parks[p].woken
      BY <1>1 DEF HInv, Marked
    <3>. QED
      BY ONLY <1>1, <1>3, <2>1, <3>1, <3>2 DEF Met
  <2>7. q \in Carriers(w) /\ Carriers(w)' = Carriers(w) \ {q}
    BY ONLY <1>1, <1>2, <1>5, <2>2, q \in Procs DEF Carriers
  <2>8. \A v \in Waiters : v # w => SameFor(v)
    BY ONLY <1>3, <2>3, <2>4, <2>5 DEF SameFor
  <2>9. Due(w)' = Due(w)
    <3>1. Value(Met(w)) = 0 /\ Value(Met(w)') = 1
      BY ONLY <2>6 DEF Value
    <3>2. Value(w \in signaled') = Value(w \in signaled) /\ Value(w \in signaled) \in Nat
      BY ONLY <1>3 DEF Value
    <3>. QED
      BY <2>7, <3>1, <3>2, CarrierGone, DueIs
  <2>10. StutterFor(w)
    BY ONLY <1>3, <2>4, <2>9, w \in Waiters DEF StutterFor
  <2>. QED
    BY <1>3, <2>8, <2>10, SignalStep
<1>. QED
  BY <1>6, <1>7

(* A home that is closed does not take the park, and its coroutine waits   *)
(* for nothing any more.                                                   *)
LEMMA EnqueueSignal ==
    ASSUME TypeOK, TypeOK', HInv, NEW q \in Procs, Enqueue(q)
    PROVE  UNCHANGED Signal!vars
<1>1. PICK p \in Parks : /\ p = took[q] /\ p # None /\ pc[q] = "enqueue" /\ parks[p].woken
                         /\ parks[p].owner = target[q] /\ parks[p].refs # 0 /\ Queued(p)
  BY HeldFacts, Names DEF Enqueue, HInv, Stages, Carrying, Owned, Marked
<1>2. PICK w \in Waiters : w = target[q]
  BY <1>1, HeldFacts
<1>3. /\ signaled' = signaled /\ mine' = mine /\ alive' = alive /\ sent' = sent /\ woke' = woke
      /\ pc \in [Procs -> PCs] /\ target \in [Procs -> Waiters \cup {None}]
      /\ mine \in [Waiters -> Parks \cup {None}]
  BY DEF Enqueue, waker, history, TypeOK
<1>4. \/ pc' = [pc EXCEPT ![q] = "keep"] /\ target' = target
      \/ pc' = [pc EXCEPT ![q] = "idle"] /\ target' = [target EXCEPT ![q] = None]
  BY DEF Enqueue, Keeps, WakeEnds, Goto
<1>5. /\ pc'[q] \in {"keep", "idle"}
      /\ \A y \in Procs : y # q => pc'[y] = pc[y] /\ target'[y] = target[y]
      /\ pc'[q] = "keep" => target'[q] = target[q]
  BY ONLY <1>3, <1>4, q \in Procs
<1>6. ASSUME NEW v \in Waiters
      PROVE  Met(v)' <=> Met(v)
  <2>1. CASE GivesUp(q)
    <3>1. /\ parks[p].refs \in {1, 2}
          /\ \A r \in Parks : r # p => parks'[r] = parks[r]
          /\ parks[p].refs = 2 => parks'[p].woken /\ parks'[p].left = parks[p].left
      BY <1>1, <2>1, GivenUp
    <3>2. CASE mine[v] = p
      <4>1. InUse(p)
        BY <3>2 DEF InUse
      <4>2. parks[p].refs = 2
        BY ONLY HInv, <1>1, <4>1 DEF HInv, Counted
      <4>. QED
        BY ONLY <1>1, <1>3, <3>1, <3>2, <4>2 DEF Met
    <3>3. CASE mine[v] # p
      BY ONLY <1>3, <3>1, <3>3, v \in Waiters DEF Met
    <3>. QED
      BY <3>2, <3>3
  <2>2. CASE parks' = parks
    BY ONLY <1>3, <2>2 DEF Met
  <2>. QED
    BY <2>1, <2>2, EnqueueShape
<1>7. \A v \in Waiters : Within(v)' <=> Within(v)
  BY ONLY <1>1, <1>5, Names DEF Within
<1>8. CASE pc'[q] = "idle"
  <2>1. \A v \in Waiters : Carriers(v)' = Carriers(v)
    BY ONLY <1>1, <1>5, <1>8 DEF Carriers
  <2>2. \A v \in Waiters : SameFor(v)
    BY ONLY <1>3, <1>6, <1>7, <2>1 DEF SameFor
  <2>. QED
    BY <1>3, <2>2, SignalSame
<1>9. CASE pc'[q] = "keep"
  <2>1. w \in Gone
    <3>1. HomeOf[w] \notin alive
      BY <1>1, <1>2, <1>3, <1>9 DEF Enqueue, WakeEnds, Goto
    <3>2. w \in Coros
      BY <1>1, <1>2 DEF HInv, Marked
    <3>. QED
      BY <3>1, <3>2 DEF Gone
  <2>2. \A v \in Waiters : v # w => Carriers(v)' = Carriers(v)
    BY ONLY <1>1, <1>2, <1>5 DEF Carriers
  <2>3. \A v \in Waiters : v # w => SameFor(v)
    BY ONLY <1>3, <1>6, <1>7, <2>2 DEF SameFor
  <2>. QED
    BY <1>3, <1>7, <2>1, <2>3, SignalSame
<1>. QED
  BY <1>5, <1>8, <1>9

(* The wake is kept, together with one that may be kept already.           *)
LEMMA KeepSignal ==
    ASSUME TypeOK, TypeOK', HInv, NEW q \in Procs, Keep(q)
    PROVE  Signal!Next \/ UNCHANGED Signal!vars
<1>1. PICK w \in Waiters : w = target[q]
  BY Names DEF Keep, HInv, Stages, TypeOK
<1>2. /\ pc[q] = "keep" /\ signaled' = signaled \cup {w} /\ mine' = mine /\ parks' = parks
      /\ pc'[q] = "idle" /\ \A y \in Procs : y # q => pc'[y] = pc[y] /\ target'[y] = target[y]
      /\ alive' = alive /\ sent' = sent /\ woke' = woke
  BY <1>1 DEF Keep, WakeEnds, Goto, home, history, TypeOK
<1>3. \A v \in Waiters : (Within(v)' <=> Within(v)) /\ (Met(v)' <=> Met(v))
  BY ONLY <1>2, Names DEF Within, Met
<1>4. \A v \in Waiters : v # w => Carriers(v)' = Carriers(v)
  BY ONLY <1>1, <1>2 DEF Carriers
<1>5. q \in Carriers(w) /\ Carriers(w)' = Carriers(w) \ {q}
  BY ONLY <1>1, <1>2, q \in Procs DEF Carriers
<1>6. \A v \in Waiters : v # w => SameFor(v)
  BY ONLY <1>2, <1>3, <1>4 DEF SameFor
<1>7. Value(Met(w)') = Value(Met(w)) /\ Value(Met(w)) \in Nat /\ Value(w \in signaled') = 1
  BY ONLY <1>2, <1>3, w \in Waiters DEF Value
<1>8. CASE w \in signaled
  <2>1. Value(w \in signaled) = 1
    BY ONLY <1>8 DEF Value
  <2>2. Due(w) > 1 /\ Due(w)' = Due(w) - 1
    BY <1>5, <1>7, <2>1, CarrierGone, DueIs
  <2>3. MergeFor(w)
    BY ONLY <1>2, <1>3, <2>2, w \in Waiters DEF MergeFor
  <2>. QED
    BY <1>2, <1>6, <2>3, SignalStep
<1>9. CASE w \notin signaled
  <2>1. Value(w \in signaled) = 0
    BY ONLY <1>9 DEF Value
  <2>2. Due(w)' = Due(w)
    BY <1>5, <1>7, <2>1, CarrierGone, DueIs
  <2>3. StutterFor(w)
    BY ONLY <1>2, <1>3, <2>2, w \in Waiters DEF StutterFor
  <2>. QED
    BY <1>2, <1>6, <2>3, SignalStep
<1>. QED
  BY <1>8, <1>9

(* Who releases parks of an inbox does not touch the wakes on them.        *)
LEMMA DrainSame ==
    ASSUME TypeOK, TypeOK', HInv, NEW t \in Threads,
           parks' = Released(parks, Range(inbox[t])),
           signaled' = signaled, mine' = mine, pc' = pc, target' = target
    PROVE  \A v \in Waiters : SameFor(v)
<1>. DEFINE S == Range(inbox[t])
<1>1. \A p : p \in S <=> Contains(inbox[t], p)
  BY RangeMembers DEF TypeOK
<1>. HIDE DEF S
<1>2. parks \in [Parks -> ParkType] /\ \A p \in S : p \in Parks => parks[p].refs # 0 /\ Queued(p)
  BY <1>1, HeldFacts
<1>3. \A p \in S : p \in Parks => parks[p].refs # 0
  BY <1>2
<1>4. \A p \in Parks :
        /\ p \notin S => Released(parks, S)[p] = parks[p]
        /\ p \in S /\ parks[p].refs = 2 =>
            /\ Released(parks, S)[p].woken = parks[p].woken
            /\ Released(parks, S)[p].left = parks[p].left
  BY ONLY <1>2, <1>3, ReleasedFacts
<1>5. parks' = Released(parks, S)
  BY DEF S
<1>6. ASSUME NEW v \in Waiters
      PROVE  Met(v)' <=> Met(v)
  <2>1. CASE mine[v] = None
    BY ONLY <2>1, mine' = mine DEF Met
  <2>2. CASE mine[v] # None
    <3>1. PICK p \in Parks : p = mine[v]
      BY <2>2 DEF TypeOK
    <3>2. InUse(p)
      BY <3>1 DEF InUse
    <3>3. p \in S => parks[p].refs = 2
      BY ONLY HInv, <1>2, <3>2, p \in Parks DEF HInv, Counted
    <3>4. parks'[p].woken = parks[p].woken /\ parks'[p].left = parks[p].left
      BY ONLY <1>4, <1>5, <3>3, p \in Parks
    <3>. QED
      BY ONLY <3>1, <3>4, mine' = mine DEF Met
  <2>. QED
    BY <2>1, <2>2
<1>7. \A v \in Waiters : Carriers(v)' = Carriers(v)
  BY ONLY pc' = pc, target' = target DEF Carriers
<1>. QED
  BY ONLY <1>6, <1>7, signaled' = signaled, pc' = pc DEF SameFor, Within

(* The waiters of a thread that ends go with it.                           *)
LEMMA HomeCloseSignal ==
    ASSUME TypeOK, TypeOK', HInv, NEW t \in Threads, HomeClose(t)
    PROVE  Signal!Next
<1>1. /\ parks' = Released(parks, Range(inbox[t])) /\ alive' = alive \ {t}
      /\ signaled' = signaled /\ mine' = mine /\ pc' = pc /\ target' = target
      /\ sent' = sent /\ woke' = woke
  BY DEF HomeClose, waker, wake, history
<1>2. \A v \in Waiters : Due(v)' = Due(v)
  BY <1>1, DrainSame, SameDue
<1>3. PICK W \in SUBSET Waiters : W = {w \in Waiters \cap Coros : HomeOf[w] = t}
  OBVIOUS
<1>4. Gone' = Gone \cup W
  BY ONLY <1>1, <1>3 DEF Gone
<1>5. {v \in Waiters \ Gone : pc[v] \in {"look", "asleep"}}'
        = {v \in Waiters \ Gone : pc[v] \in {"look", "asleep"}} \ W
  BY ONLY <1>1, <1>4
<1>6. [v \in Waiters |-> IF v \in Gone THEN 0 ELSE Due(v)]'
        = [v \in Waiters |-> IF v \in W THEN 0
                             ELSE [u \in Waiters |-> IF u \in Gone THEN 0 ELSE Due(u)][v]]
  BY ONLY <1>2, <1>4
<1>7. Signal!End(W)
  BY ONLY <1>1, <1>4, <1>5, <1>6 DEF Signal!End
<1>. QED
  BY <1>7 DEF Signal!Next

LEMMA SignalUntouched ==
    ASSUME signaled' = signaled, parks' = parks, mine' = mine, pc' = pc, target' = target,
           alive' = alive, sent' = sent, woke' = woke
    PROVE  UNCHANGED Signal!vars
<1>1. \A v \in Waiters : Carriers(v)' = Carriers(v)
  BY DEF Carriers
<1>2. \A v \in Waiters : SameFor(v)
  BY <1>1 DEF SameFor, Within, Met
<1>. QED
  BY <1>2, SignalSame

(* A coroutine that yields or is resumed is in its wait all the while.     *)
LEMMA MovesInWait ==
    ASSUME TypeOK, TypeOK', NEW c \in Coros,
           signaled' = signaled, parks' = parks, mine' = mine, target' = target,
           alive' = alive, sent' = sent, woke' = woke,
           \E l : /\ pc' = [pc EXCEPT ![c] = l]
                  /\ l = pc[c] \/ {l, pc[c]} \subseteq {"look", "asleep"}
    PROVE  UNCHANGED Signal!vars
<1>1. PICK l : pc' = [pc EXCEPT ![c] = l] /\ (l = pc[c] \/ {l, pc[c]} \subseteq {"look", "asleep"})
  OBVIOUS
<1>2. pc \in [Procs -> PCs] /\ c \in Procs
  BY Names DEF TypeOK
<1>3. pc'[c] = l /\ \A y \in Procs : y # c => pc'[y] = pc[y]
  BY ONLY <1>1, <1>2
<1>4. \A v \in Waiters : Carriers(v)' = Carriers(v)
  BY ONLY <1>1, <1>3, target' = target DEF Carriers
<1>5. \A v \in Waiters : SameFor(v)
  BY ONLY <1>1, <1>3, <1>4, Names, signaled' = signaled, parks' = parks, mine' = mine
     DEF SameFor, Within, Met
<1>. QED
  BY <1>5, SignalSame

LEMMA WakesStep ==
    ASSUME TypeOK, HInv, Bounded, LInv, [Next]_vars
    PROVE  [Signal!Next]_(Signal!vars)
<1>1. TypeOK'
  BY TypeStep
<1>2. ASSUME NEW x \in Procs, Call(x)
      PROVE  Signal!Next \/ UNCHANGED Signal!vars
  <2>1. CASE Sleep(x)
    BY <1>1, <2>1, MovesInWait DEF Sleep, Goto, waker, home, wake, history
  <2>2. CASE Complete(x)
    BY <2>2, SignalUntouched DEF Complete, waker, home, wake, history
  <2>. QED
    BY <1>1, <1>2, <2>1, <2>2, BeginWaitSignal, LeaveSignal, ReleaseSignal,
       BeginWakeSignal, WakeParkSignal, EnqueueSignal, KeepSignal DEF Call
<1>3. ASSUME NEW w \in Waiters, TimePasses(w)
      PROVE  UNCHANGED Signal!vars
  BY <1>3, SignalUntouched DEF TimePasses, waker, home, wake, history
<1>4. ASSUME NEW t \in Threads, Loop(t) \/ HomeClose(t)
      PROVE  Signal!Next \/ UNCHANGED Signal!vars
  <2>1. CASE Resume(t)
    <3>1. batch[t] \in Seq(Coros) /\ batch[t] # <<>>
      BY <2>1 DEF Resume, TypeOK
    <3>2. PICK c \in Coros : c = Head(batch[t])
      BY <3>1, TailFacts
    <3>3. /\ pc' = [pc EXCEPT ![c] = IF pc[c] = "asleep" THEN "look" ELSE pc[c]]
          /\ signaled' = signaled /\ parks' = parks /\ mine' = mine /\ target' = target
          /\ alive' = alive /\ sent' = sent /\ woke' = woke
      BY <2>1, <3>2 DEF Resume, waker, home, wake, history
    <3>. QED
      BY <1>1, <3>3, MovesInWait
  <2>2. CASE DrainHome(t)
    <3>1. /\ parks' = Released(parks, Range(inbox[t]))
          /\ signaled' = signaled /\ mine' = mine /\ pc' = pc /\ target' = target
          /\ alive' = alive /\ sent' = sent /\ woke' = woke
      BY <2>2 DEF DrainHome, waker, wake, history
    <3>. QED
      BY <1>1, <3>1, DrainSame, SignalSame
  <2>3. CASE Schedule(t) \/ LoopOn(t) \/ PollEnd(t) \/ ExpireParks(t) \/ WaitForEvents(t)
    BY <2>3, SignalUntouched DEF Schedule, LoopOn, PollEnd, ExpireParks, WaitForEvents, waker, home, wake, history
  <2>. QED
    BY <1>1, <1>4, <2>1, <2>2, <2>3, HomeCloseSignal DEF Loop
<1>5. UNCHANGED vars => UNCHANGED Signal!vars
  BY SignalUntouched DEF vars
<1>. QED
  BY <1>2, <1>3, <1>4, <1>5 DEF Next

(* The waker keeps its promise (waker.valk:12-17, 23-38, 42-44; park.valk  *)
(* `park_wait`, `wake_park`): whatever becomes of the waits, timeouts,     *)
(* wakes and threads, every call of wake makes a wake due, and what is due *)
(* stays so until a wait of that waiter returns true: the wait that the    *)
(* wake met or a later one, once for the wakes that were kept together.    *)
(* No wait returns true without a wake that was due.                       *)
THEOREM SignalImplemented == Spec => WakesKept
<1>1. Init => Signal!Init
  <2>1. ASSUME Init
        PROVE  /\ \A w \in Waiters : pc[w] = "idle"
               /\ \A w \in Waiters : w \notin signaled /\ ~Met(w) /\ Carriers(w) = {}
               /\ Gone = {}
               /\ sent = [w \in Waiters |-> 0] /\ woke = [w \in Waiters |-> 0]
    BY <2>1, Names DEF Init, Met, Carriers, Gone
  <2>2. ASSUME Init, NEW w \in Waiters
        PROVE  Due(w) = 0
    BY <2>1, <2>2, FS_EmptySet DEF Due
  <2>. QED
    BY ONLY <2>1, <2>2 DEF Signal!Init, Signal!Zero
<1>2. Init => LInv
  BY DEF Init, LInv
<1>3. TypeOK /\ LInv /\ [Next]_vars => LInv'
  BY LivingStep
<1>4. TypeOK /\ HInv /\ Bounded /\ LInv /\ [Next]_vars => [Signal!Next]_(Signal!vars)
  BY WakesStep
<1>. QED
  BY <1>1, <1>2, <1>3, <1>4, HeldInvariant, PTL DEF Spec, WakesKept, Signal!Spec
=============================================================================
