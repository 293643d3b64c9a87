---------------------------- MODULE WorkersProofs ----------------------------
(***************************************************************************)
(* Proofs about Workers, for any number of clients, tasks and runners: the *)
(* pool's books are right and no task is stranded, the group's count is    *)
(* exact and its wait waits, and permits and their wakes are not lost.     *)
(***************************************************************************)
EXTENDS Workers, SequenceFacts, FiniteSetTheorems

(* The places of everybody, and the types of the rest without the bounds   *)
(* of the counters, which follow from what they count.                     *)
Places == ClientStates \cup HandlerStates \cup {"idle"}

Placed ==
    /\ pc \in [Procs -> Places]
    /\ \A c \in Clients : pc[c] \in ClientStates
    /\ \A t \in Tasks : pc[t] \in HandlerStates
    /\ pc[Canceller] = "idle"
    /\ given \in 0 .. MaxGiven

(* A runner is at the gate while it waits for a task.                      *)
AtGate == \A r \in Runners : gate[r] # "out" <=> runner[r] = "wait"

(* A task is in the queue once, or in one frame, or in neither.            *)
TasksPlaced ==
    /\ Once(queue)
    /\ \A t \in Tasks : Contains(queue, t) <=> status[t] = "queued"
    /\ \A r \in Runners : task[r] # 0 <=> runner[r] = "run"
    /\ \A r \in Runners : task[r] # 0 => status[task[r]] = "running"
    /\ \A r, s \in Runners : task[r] = task[s] /\ task[r] # 0 => r = s
    /\ \A t \in Tasks : status[t] = "running" => \E r \in Runners : task[r] = t
    /\ \A t \in Tasks : status[t] = "new" <=> t > submitted

WaitingRunners == {r \in Runners : runner[r] = "wait"}
AllRunners == {r \in Runners : runner[r] # "none"}

RunnersCounted ==
    /\ waiting = Cardinality(WaitingRunners)
    /\ runners = Cardinality(AllRunners)
    /\ runners <= Limit

(* Who sees to queued tasks while others sleep, or are about to with no    *)
(* signal since they looked                                                *)
Lookers == {r \in Runners : Looking(r)}
Signallers == {c \in Clients : pc[c] = "signal"}
Dozing(r) == gate[r] = "asleep" \/ (gate[r] = "enter" /\ r \in current)

TasksAttended ==
    (\E r \in Runners : Dozing(r)) => Len(queue) <= Cardinality(Lookers) + Cardinality(Signallers)

(* Who still has to be marked done: tasks that were counted and not queued *)
(* yet or not started, and tasks whose handler has not come to its end     *)
PledgedClients == {c \in Clients : pc[c] \in {"added", "failed"}}
PledgedTasks == {t \in Tasks : status[t] \in {"queued", "running"} /\ pc[t] # "done"}

GroupCounted ==
    /\ count = Cardinality(PledgedClients) + Cardinality(PledgedTasks)
    /\ \A t \in Tasks : pc[t] = "done" => status[t] \in {"running", "done"}
    /\ \A t \in Tasks : status[t] = "done" => pc[t] = "done"
    /\ \A t \in Tasks : owner[t] = 0 <=> status[t] = "new"

(* Tasks are not counted beyond the bound.                                 *)
FailedClients == {c \in Clients : pc[c] = "failed"}
FailedTasks == {t \in Tasks : status[t] = "failed"}

CountBounded ==
    /\ submitted + Cardinality(Counting) <= MaxTasks
    /\ Cardinality(FailedClients) <= Cardinality(FailedTasks)

(* Only waiters wait, only acquirers acquire, and only they who pass the   *)
(* token register with it.                                                 *)
Roles ==
    /\ \A c \in Clients \ Waiters : pc[c] \in {"ready", "added", "signal", "failed"}
    /\ \A t \in Tasks \ Acquirers : pc[t] \in {"released", "done"}
    /\ \A t \in Tasks : pc[t] = "register" => t \in Cancellable

(* Permits that are free or held                                           *)
Holders == {t \in Tasks : pc[t] = "held"}

PermitsCounted == available + Cardinality(Holders) = Permits + given

(* Who may be in the queue for a permit, and who may have a waker.  For    *)
(* every free permit, while the queue is not empty, an acquirer was called *)
(* out of it that has not come to an end of its wait.                      *)
Enqueued == {"check", "register", "wait", "forget", "forgetTimeout", "forgetCancelled"}
Called == {p \in Acquirers : p \in waker /\ ~Contains(acquiring, p)}

AcquirersListed ==
    /\ Once(acquiring)
    /\ \A p \in Acquirers : Contains(acquiring, p) => p \in waker /\ pc[p] \in Enqueued
    /\ \A p \in Acquirers : p \in waker =>
            pc[p] \in Enqueued \cup {"acquire", "cancelForget", "isCancelled", "passOn"}

PermitsCalled == acquiring # <<>> => available <= Cardinality(Called) + dropped

(* Who waits for the group is in its queue, or was woken and has not gone  *)
(* on yet; the queue is empty while nothing is counted.                    *)
WaitersListed ==
    /\ Once(awaiting)
    /\ \A p \in Waiters : Contains(awaiting, p) => pc[p] \in {"check", "wait", "forget", "forgetTimeout"}
    /\ awaiting # <<>> => count > 0
    /\ \A p \in Waiters : pc[p] \in {"check", "wait"} => Contains(awaiting, p) \/ InFlight(p)

IInv ==
    /\ Placed /\ Roles
    /\ GateTypeOK /\ PoolTypeOK /\ WakersTypeOK /\ SemaphoreTypeOK /\ WaitGroupTypeOK
    /\ AtGate /\ TasksPlaced /\ RunnersCounted /\ TasksAttended
    /\ GroupCounted /\ CountBounded /\ GroupWaits /\ WaitersListed
    /\ PermitsCounted /\ AcquirersListed /\ PermitsCalled

-----------------------------------------------------------------------------
USE TaskPoolAssumption, WakersAssumption, SemaphoreAssumption, WaitGroupAssumption, WorkersAssumption

(* The numbers of tasks are numbers, and no client has one.                *)
LEMMA Names ==
    /\ MaxTasks \in Nat /\ Tasks = 1 .. MaxTasks /\ 0 \notin Tasks
    /\ Clients \subseteq Procs /\ Tasks \subseteq Procs /\ Canceller \in Procs
    /\ Clients \cap Tasks = {} /\ 0 \notin Clients
    /\ Canceller \notin Clients \cup Tasks
    /\ Acquirers \subseteq Tasks /\ Waiters \subseteq Clients /\ Trying \subseteq Acquirers
  BY DEF Tasks

(* Which steps touch the pool, and which clients signal.                   *)
LEMMA PoolFrame ==
    ASSUME Placed, [Next]_vars
    PROVE  \/ \E c \in Clients : QueueTask(c) \/ Signal(c)
           \/ \E r \in Runners : PoolStep(r) \/ Return(r)
           \/ \E r \in Runners : Idles(r) /\ UNCHANGED <<wakerVars, semVars, groupVars, given>>
           \/ UNCHANGED <<gateVars, poolVars>> /\ Signallers' = Signallers
<1>. USE Names DEF Placed, Signallers, Goto, GoOn, Leave
<1>1. ASSUME NEW c \in Clients, AddTask(c) \/ StartWait(c) \/ GiveUp(c) \/ Await(c)
       PROVE  UNCHANGED <<gateVars, poolVars>> /\ Signallers' = Signallers
  BY <1>1 DEF AddTask, StartWait, GiveUp, Await, Add, GroupDone, At
<1>2. ASSUME NEW c \in Clients, GroupWait(c) \/ GroupForget(c) \/ GroupLoop(c), UNCHANGED <<gateVars, poolVars>>
       PROVE  UNCHANGED <<gateVars, poolVars>> /\ Signallers' = Signallers
  BY <1>2 DEF GroupWait, GroupForget, GroupLoop, Check, Wait, TakeWaker, At
<1>3. ASSUME NEW t \in Tasks, HandlerStep(t)
       PROVE  UNCHANGED <<gateVars, poolVars>> /\ Signallers' = Signallers
  <2>1. UNCHANGED <<gateVars, poolVars>>
    BY <1>3 DEF HandlerStep
  <2>2. pc' = pc \/ \E l \in HandlerStates : pc' = [pc EXCEPT ![t] = l]
    BY <1>3 DEF HandlerStep, AcquireStep, AcquireWait, GroupDone, Acquire, TryAcquire, Forget, ForgetTimeout,
       ForgetCancelled, PassOn, Release, Check, Register, Wait, CancelForget, IsCancelled, TakeWaker, HandlerStates
  <2>3. \A c \in Clients : pc'[c] = pc[c]
    BY <2>2
  <2>. QED
    BY <2>1, <2>3
<1>4. ASSUME NEW p \in Procs, (Wake(p) /\ Others) \/ Late(p)
       PROVE  UNCHANGED <<gateVars, poolVars>> /\ Signallers' = Signallers
  BY <1>4 DEF Wake, Late, TimePasses, Others
<1>5. ASSUME Give \/ (Cancel /\ Others)
       PROVE  UNCHANGED <<gateVars, poolVars>> /\ Signallers' = Signallers
  BY <1>5 DEF Give, Release, Cancel, Others
<1>6. CASE UNCHANGED vars
  BY <1>6 DEF vars, wakerVars
<1>. QED
  BY <1>1, <1>2, <1>3, <1>4, <1>5, <1>6 DEF Next, ClientStep

-----------------------------------------------------------------------------
(* The pool                                                                *)

(* Sets of runners and of clients are finite.                              *)
LEMMA FinitePeople ==
    /\ IsFiniteSet(Runners) /\ IsFiniteSet(Clients) /\ IsFiniteSet(Tasks)
    /\ \A s \in SUBSET Runners : IsFiniteSet(s) /\ Cardinality(s) \in Nat
    /\ \A s \in SUBSET Clients : IsFiniteSet(s) /\ Cardinality(s) \in Nat
    /\ \A s \in SUBSET Tasks : IsFiniteSet(s) /\ Cardinality(s) \in Nat
<1>1. IsFiniteSet(Runners) /\ IsFiniteSet(Clients) /\ IsFiniteSet(Tasks)
  BY FS_Subset, Names
<1>. QED
  BY <1>1, FS_Subset, FS_CardinalityType

(* A finite set with one more                                              *)
LEMMA OneMore ==
    ASSUME NEW s, IsFiniteSet(s), NEW t, t \notin s
    PROVE  Cardinality(s \cup {t}) = Cardinality(s) + 1
  BY FS_AddElement

(* A finite set with one less                                              *)
LEMMA OneLess ==
    ASSUME NEW s, IsFiniteSet(s), NEW t \in s
    PROVE  Cardinality(s \ {t}) = Cardinality(s) - 1 /\ Cardinality(s) \in Nat \ {0}
  BY FS_RemoveElement, FS_CardinalityType, FS_EmptySet

(* Who takes the first task                                                *)
LEMMA TakenTask ==
    ASSUME PoolTypeOK, NEW r \in Runners, TakeTask(r)
    PROVE  /\ Head(queue) \in Tasks /\ Contains(queue, Head(queue))
           /\ queue' \in Seq(Tasks) /\ Len(queue') = Len(queue) - 1 /\ Len(queue) \in Nat \ {0}
           /\ \A t : Contains(queue, t) <=> Contains(queue', t) \/ t = Head(queue)
           /\ Once(queue) => Once(queue') /\ ~Contains(queue', Head(queue))
           /\ \A t \in Tasks : status'[t] = IF t = Head(queue) THEN "running" ELSE status[t]
           /\ \A q \in Runners : /\ task'[q] = IF q = r THEN Head(queue) ELSE task[q]
                                 /\ runner'[q] = IF q = r THEN "run" ELSE runner[q]
           /\ status' \in [Tasks -> Statuses] /\ task' \in [Runners -> Tasks \cup {0}]
           /\ runner' \in [Runners -> RunnerStates]
<1>1. queue \in Seq(Tasks) /\ queue # <<>> /\ queue' = Tail(queue)
  BY DEF PoolTypeOK, TakeTask
<1>2. /\ Head(queue) \in Tasks /\ Contains(queue, Head(queue))
      /\ queue' \in Seq(Tasks) /\ Len(queue') = Len(queue) - 1 /\ Len(queue) \in Nat \ {0}
      /\ \A t : Contains(queue, t) <=> Contains(queue', t) \/ t = Head(queue)
      /\ Once(queue) => Once(queue') /\ ~Contains(queue', Head(queue))
  BY <1>1, TailFacts, LenProperties
<1>. QED
  BY <1>2 DEF PoolTypeOK, TakeTask, Statuses, RunnerStates

(* Who leaves the gate was counted as waiting, and every runner that waits *)
(* is counted.                                                             *)
LEMMA Counted ==
    ASSUME PoolTypeOK, RunnersCounted, NEW r \in Runners, runner[r] = "wait"
    PROVE  /\ r \in WaitingRunners /\ r \in AllRunners
           /\ waiting - 1 \in Nat /\ runners - 1 \in Nat
<1>1. r \in WaitingRunners /\ r \in AllRunners
  BY DEF WaitingRunners, AllRunners
<1>2. IsFiniteSet(WaitingRunners) /\ IsFiniteSet(AllRunners)
  BY FinitePeople DEF WaitingRunners, AllRunners
<1>3. Cardinality(WaitingRunners) \in Nat \ {0} /\ Cardinality(AllRunners) \in Nat \ {0}
  BY <1>1, <1>2, OneLess
<1>. QED
  BY <1>1, <1>3 DEF RunnersCounted

(* Every step keeps the types of gate and pool, subtractions included.     *)
LEMMA PoolTypedStep ==
    ASSUME Placed, GateTypeOK, PoolTypeOK, AtGate, RunnersCounted, [Next]_vars
    PROVE  GateTypeOK' /\ PoolTypeOK' /\ AtGate'
<1>. USE Names DEF GateTypeOK, PoolTypeOK, AtGate, gateVars, GateStates
<1>1. ASSUME NEW c \in Clients, QueueTask(c)
       PROVE  GateTypeOK' /\ PoolTypeOK' /\ AtGate'
  <2>1. UNCHANGED <<gate, current, waiting, task>>
    BY <1>1 DEF QueueTask, Queue, StartFails
  <2>2. submitted + 1 \in Tasks /\ submitted' \in 0 .. MaxTasks /\ owner' \in [Tasks -> Clients \cup {0}]
    <3>1. /\ submitted < MaxTasks /\ submitted' = submitted + 1
          /\ owner' = [owner EXCEPT ![submitted + 1] = c]
      BY <1>1 DEF QueueTask, Queue, StartFails, Submit
    <3>2. submitted + 1 \in Tasks /\ submitted' \in 0 .. MaxTasks
      BY <3>1
    <3>3. owner' \in [Tasks -> Clients \cup {0}]
      BY <3>1
    <3>. QED
      BY <3>2, <3>3
  <2>3. queue' \in Seq(Tasks)
    <3>1. queue' = queue \/ queue' = Append(queue, submitted + 1)
      BY <1>1 DEF QueueTask, Queue, StartFails
    <3>2. Append(queue, submitted + 1) \in Seq(Tasks)
      BY <2>2, AppendProperties
    <3>. QED
      BY <3>1, <3>2
  <2>4. status' \in [Tasks -> Statuses]
    BY <1>1, <2>2 DEF QueueTask, Queue, StartFails, Statuses
  <2>5. /\ runners' \in Nat /\ runner' \in [Runners -> RunnerStates]
        /\ \A r \in Runners : runner'[r] = "wait" <=> runner[r] = "wait"
    <3>1. \/ UNCHANGED <<runners, runner>>
          \/ runners' = runners + 1 /\ \E r \in Runners : /\ runner[r] = "none"
                                                        /\ runner' = [runner EXCEPT ![r] = "next"]
      BY <1>1 DEF QueueTask, Queue, StartFails
    <3>. QED
      BY <3>1 DEF RunnerStates
  <2>. QED
    BY <2>1, <2>2, <2>3, <2>4, <2>5
<1>2. ASSUME NEW c \in Clients, Signal(c)
       PROVE  GateTypeOK' /\ PoolTypeOK' /\ AtGate'
  <2>1. /\ UNCHANGED poolVars /\ current' = {}
        /\ UNCHANGED gate \/ \E r \in Runners : gate[r] = "asleep" /\ gate' = [gate EXCEPT ![r] = "woken"]
    BY <1>2 DEF Signal, GateSignal, GateGo
  <2>. QED
    BY <2>1 DEF poolVars
<1>3. ASSUME NEW r \in Runners, NextTask(r)
       PROVE  GateTypeOK' /\ PoolTypeOK' /\ AtGate'
  <2>1. CASE TakeTask(r) /\ UNCHANGED <<waiting, gateVars>>
    <3>1. UNCHANGED <<gate, current, waiting, runners, submitted, owner>> /\ runner[r] = "next"
      BY <1>3, <2>1 DEF NextTask
    <3>. QED
      BY <2>1, <3>1, TakenTask
  <2>2. CASE /\ queue = <<>> /\ waiting' = waiting + 1
             /\ runner' = [runner EXCEPT ![r] = "wait"] /\ GateNote(r)
             /\ UNCHANGED <<queue, status, task>>
    BY <1>3, <2>2 DEF NextTask, GateNote, GateGo, RunnerStates
  <2>. QED
    BY <1>3, <2>1, <2>2 DEF NextTask
<1>4. ASSUME NEW r \in Runners, GateStep(r) \/ Idles(r)
       PROVE  GateTypeOK' /\ PoolTypeOK' /\ AtGate'
  <2>1. UNCHANGED poolVars /\ current' \in SUBSET Runners
    BY <1>4 DEF GateStep, Idles, GateCheck, GateSleep, GateWoken, GateTimeout, GateNote
  <2>2. gate[r] # "out" /\ \E l \in GateStates \ {"out"} : gate' = [gate EXCEPT ![r] = l]
    BY <1>4 DEF GateStep, Idles, GateCheck, GateSleep, GateWoken, GateTimeout, GateNote, GateGo
  <2>. QED
    BY <2>1, <2>2 DEF poolVars
<1>5. ASSUME NEW r \in Runners, Take(r)
       PROVE  GateTypeOK' /\ PoolTypeOK' /\ AtGate'
  <2>1. runner[r] = "wait" /\ UNCHANGED <<submitted, owner>>
    BY <1>5 DEF Take, Left
  <2>2. waiting - 1 \in Nat /\ runners - 1 \in Nat
    BY <2>1, Counted
  <2>3. CASE TakeTask(r) /\ waiting' = waiting - 1 /\ GateLeave(r) /\ UNCHANGED runners
    BY <2>1, <2>2, <2>3, TakenTask DEF GateLeave, GateGo
  <2>4. CASE /\ waiting' = waiting - 1 /\ runners' = runners - 1
             /\ runner' = [runner EXCEPT ![r] = "none"] /\ GateLeave(r)
             /\ UNCHANGED <<queue, status, task>>
    BY <2>1, <2>2, <2>4 DEF GateLeave, GateGo, RunnerStates
  <2>5. CASE GateNote(r) /\ UNCHANGED <<queue, status, task, runner, waiting, runners>>
    BY <2>1, <2>5 DEF GateNote, GateGo
  <2>. QED
    BY <1>5, <2>3, <2>4, <2>5 DEF Take
<1>6. ASSUME NEW r \in Runners, Return(r)
       PROVE  GateTypeOK' /\ PoolTypeOK' /\ AtGate'
  <2>1. UNCHANGED gateVars /\ \A s \in Runners : runner'[s] = "wait" <=> runner[s] = "wait"
    BY <1>6 DEF Return, Finish
  <2>2. PoolTypeOK'
    BY <1>6 DEF Return, Finish, Statuses, RunnerStates
  <2>. QED
    BY <2>1, <2>2
<1>7. CASE UNCHANGED <<gateVars, poolVars>>
  BY <1>7 DEF poolVars
<1>. QED
  BY <1>1, <1>2, <1>3, <1>4, <1>5, <1>6, <1>7, PoolFrame DEF PoolStep, RunnerStep

(* Every step leaves each task in the queue, in one frame, or in neither.  *)
LEMMA TasksPlacedStep ==
    ASSUME Placed, GateTypeOK, PoolTypeOK, AtGate, TasksPlaced, [Next]_vars
    PROVE  TasksPlaced'
<1>. USE Names DEF TasksPlaced
<1>1. ASSUME NEW c \in Clients, QueueTask(c)
       PROVE  TasksPlaced'
  <2>1. /\ submitted + 1 \in Tasks /\ submitted' = submitted + 1 /\ UNCHANGED task
        /\ status[submitted + 1] = "new"
    BY <1>1 DEF QueueTask, Queue, StartFails, Submit, PoolTypeOK
  <2>2. \A r \in Runners : runner'[r] = "run" <=> runner[r] = "run"
    BY <1>1 DEF QueueTask, Queue, StartFails, PoolTypeOK
  <2>3. CASE queue' = Append(queue, submitted + 1) /\ status' = [status EXCEPT ![submitted + 1] = "queued"]
    <3>1. ~Contains(queue, submitted + 1)
      BY <2>1
    <3>2. Once(queue') /\ \A t : Contains(queue', t) <=> Contains(queue, t) \/ t = submitted + 1
      BY <2>1, <2>3, <3>1, AppendFacts DEF PoolTypeOK
    <3>3. \A t \in Tasks : status'[t] = IF t = submitted + 1 THEN "queued" ELSE status[t]
      BY <2>3 DEF PoolTypeOK
    <3>4. \A r \in Runners : task[r] # submitted + 1
      BY <2>1
    <3>5. \A t \in Tasks : status'[t] = "new" <=> t > submitted'
      BY <2>1, <3>3 DEF PoolTypeOK
    <3>6. \A t \in Tasks : Contains(queue', t) <=> status'[t] = "queued"
      BY <3>2, <3>3
    <3>7. \A r \in Runners : task[r] # 0 => task[r] \in Tasks /\ status'[task[r]] = "running"
      BY <3>3, <3>4 DEF PoolTypeOK
    <3>8. \A t \in Tasks : status'[t] = "running" => \E r \in Runners : task[r] = t
      BY <3>3
    <3>. QED
      BY <2>1, <2>2, <3>2, <3>5, <3>6, <3>7, <3>8
  <2>4. CASE queue' = queue /\ status' = [status EXCEPT ![submitted + 1] = "failed"]
    <3>1. \A t \in Tasks : status'[t] = IF t = submitted + 1 THEN "failed" ELSE status[t]
      BY <2>4 DEF PoolTypeOK
    <3>2. \A t \in Tasks : status'[t] = "new" <=> t > submitted'
      BY <2>1, <3>1 DEF PoolTypeOK
    <3>3. \A t \in Tasks : Contains(queue', t) <=> status'[t] = "queued"
      BY <2>1, <2>4, <3>1
    <3>4. \A r \in Runners : task[r] # 0 => task[r] \in Tasks /\ status'[task[r]] = "running"
      BY <2>1, <3>1 DEF PoolTypeOK
    <3>5. \A t \in Tasks : status'[t] = "running" => \E r \in Runners : task[r] = t
      BY <3>1
    <3>. QED
      BY <2>1, <2>2, <2>4, <3>2, <3>3, <3>4, <3>5
  <2>. QED
    BY <1>1, <2>3, <2>4 DEF QueueTask, Queue, StartFails
<1>2. ASSUME NEW r \in Runners, TakeTask(r), runner[r] # "run", UNCHANGED submitted
       PROVE  TasksPlaced'
  <2>. DEFINE h == Head(queue)
  <2>1. /\ h \in Tasks /\ Contains(queue, h)
        /\ Once(queue') /\ ~Contains(queue', h)
        /\ \A t : Contains(queue, t) <=> Contains(queue', t) \/ t = h
    BY <1>2, TakenTask
  <2>2. \A t \in Tasks : status'[t] = IF t = h THEN "running" ELSE status[t]
    BY <1>2, TakenTask
  <2>3. \A q \in Runners : /\ task'[q] = IF q = r THEN h ELSE task[q]
                           /\ runner'[q] = IF q = r THEN "run" ELSE runner[q]
    BY <1>2, TakenTask
  <2>. HIDE DEF h
  <2>4. task[r] = 0 /\ h # 0 /\ status[h] = "queued"
    BY <1>2, <2>1
  <2>5. \A q \in Runners : task[q] # h
    BY <2>4
  <2>6. \A t \in Tasks : Contains(queue', t) <=> status'[t] = "queued"
    BY <2>1, <2>2
  <2>7. \A q \in Runners : task'[q] # 0 <=> runner'[q] = "run"
    BY <2>3, <2>4
  <2>8. \A q \in Runners : task'[q] # 0 => status'[task'[q]] = "running"
    BY <2>1, <2>2, <2>3, <2>5 DEF PoolTypeOK
  <2>9. \A q, u \in Runners : task'[q] = task'[u] /\ task'[q] # 0 => q = u
    BY <2>3, <2>5
  <2>10. \A t \in Tasks : status'[t] = "running" => \E q \in Runners : task'[q] = t
    <3>1. ASSUME NEW t \in Tasks, status'[t] = "running", t # h
           PROVE  \E q \in Runners : task'[q] = t
      <4>1. PICK q \in Runners : task[q] = t
        BY <2>2, <3>1
      <4>2. q # r
        BY <2>4, <4>1
      <4>. QED
        BY <2>3, <4>1, <4>2
    <3>. QED
      BY <2>3, <3>1
  <2>11. \A t \in Tasks : status'[t] = "new" <=> t > submitted'
    BY <1>2, <2>2, <2>4
  <2>. QED
    BY <2>1, <2>6, <2>7, <2>8, <2>9, <2>10, <2>11
<1>3. ASSUME NEW r \in Runners, NextTask(r)
       PROVE  TasksPlaced'
  <2>1. CASE TakeTask(r)
    BY <1>2, <1>3, <2>1 DEF NextTask
  <2>2. CASE UNCHANGED <<queue, status, task, submitted>> /\ runner' = [runner EXCEPT ![r] = "wait"]
    BY <1>3, <2>2 DEF NextTask, PoolTypeOK
  <2>. QED
    BY <1>3, <2>1, <2>2 DEF NextTask
<1>4. ASSUME NEW r \in Runners, Take(r)
       PROVE  TasksPlaced'
  <2>1. runner[r] = "wait" /\ UNCHANGED submitted
    BY <1>4 DEF Take, Left, AtGate
  <2>2. CASE TakeTask(r)
    BY <1>2, <2>1, <2>2
  <2>3. CASE UNCHANGED <<queue, status, task>> /\ (runner' = runner \/ runner' = [runner EXCEPT ![r] = "none"])
    BY <2>1, <2>3 DEF PoolTypeOK
  <2>. QED
    BY <1>4, <2>2, <2>3 DEF Take
<1>5. ASSUME NEW r \in Runners, Return(r)
       PROVE  TasksPlaced'
  <2>1. /\ status' = [status EXCEPT ![task[r]] = "done"] /\ task' = [task EXCEPT ![r] = 0]
        /\ runner' = [runner EXCEPT ![r] = "next"] /\ runner[r] = "run"
        /\ UNCHANGED <<queue, submitted>>
    BY <1>5 DEF Return, Finish
  <2>2. task[r] \in Tasks /\ status[task[r]] = "running"
    BY <2>1 DEF PoolTypeOK
  <2>3. /\ \A t \in Tasks : status'[t] = IF t = task[r] THEN "done" ELSE status[t]
        /\ \A q \in Runners : task'[q] = IF q = r THEN 0 ELSE task[q]
        /\ \A q \in Runners : runner'[q] = IF q = r THEN "next" ELSE runner[q]
    BY <2>1, <2>2 DEF PoolTypeOK
  <2>4. \A t \in Tasks : status'[t] = "running" => \E q \in Runners : task'[q] = t
    BY <2>2, <2>3
  <2>. QED
    BY <2>1, <2>2, <2>3, <2>4
<1>6. CASE UNCHANGED poolVars
  BY <1>6 DEF poolVars
<1>. QED
  BY <1>1, <1>3, <1>4, <1>5, <1>6, PoolFrame DEF PoolStep, RunnerStep, GateStep, Idles, Signal

-----------------------------------------------------------------------------
(* Every step changes threads_waiting and taskrunners as it changes what   *)
(* they count.                                                             *)
LEMMA RunnersCountedStep ==
    ASSUME Placed, GateTypeOK, PoolTypeOK, AtGate, RunnersCounted, [Next]_vars
    PROVE  RunnersCounted'
<1>1. IsFiniteSet(WaitingRunners) /\ IsFiniteSet(AllRunners)
  BY FinitePeople DEF WaitingRunners, AllRunners
<1>2. ASSUME UNCHANGED <<waiting, runners>>, WaitingRunners' = WaitingRunners, AllRunners' = AllRunners
       PROVE  RunnersCounted'
  BY <1>2 DEF RunnersCounted
<1>3. ASSUME NEW c \in Clients, QueueTask(c)
       PROVE  RunnersCounted'
  <2>1. CASE UNCHANGED <<runners, runner, waiting>>
    BY <1>2, <2>1 DEF WaitingRunners, AllRunners
  <2>2. ASSUME NEW r \in Runners, runner[r] = "none", runner' = [runner EXCEPT ![r] = "next"],
               runners' = runners + 1, runners < Limit, waiting' = waiting
         PROVE  RunnersCounted'
    <3>1. WaitingRunners' = WaitingRunners /\ AllRunners' = AllRunners \cup {r} /\ r \notin AllRunners
      BY <2>2 DEF WaitingRunners, AllRunners, PoolTypeOK
    <3>2. Cardinality(AllRunners') = Cardinality(AllRunners) + 1
      BY <1>1, <3>1, OneMore
    <3>. QED
      BY <2>2, <3>1, <3>2 DEF RunnersCounted, PoolTypeOK
  <2>. QED
    BY <1>3, <2>1, <2>2 DEF QueueTask, Queue, StartFails, NeedsRunner
<1>4. ASSUME NEW r \in Runners, NextTask(r)
       PROVE  RunnersCounted'
  <2>1. CASE runner' = [runner EXCEPT ![r] = "run"] /\ UNCHANGED <<waiting, runners>>
    <3>1. WaitingRunners' = WaitingRunners /\ AllRunners' = AllRunners
      BY <1>4, <2>1 DEF WaitingRunners, AllRunners, PoolTypeOK, NextTask
    <3>. QED
      BY <1>2, <2>1, <3>1
  <2>2. CASE runner' = [runner EXCEPT ![r] = "wait"] /\ waiting' = waiting + 1 /\ runners' = runners
    <3>1. /\ WaitingRunners' = WaitingRunners \cup {r} /\ r \notin WaitingRunners
          /\ AllRunners' = AllRunners
      BY <1>4, <2>2 DEF WaitingRunners, AllRunners, PoolTypeOK, NextTask
    <3>2. Cardinality(WaitingRunners') = Cardinality(WaitingRunners) + 1
      BY <1>1, <3>1, OneMore
    <3>. QED
      BY <2>2, <3>1, <3>2 DEF RunnersCounted
  <2>. QED
    BY <1>4, <2>1, <2>2 DEF NextTask, TakeTask
<1>5. ASSUME NEW r \in Runners, Take(r)
       PROVE  RunnersCounted'
  <2>1. runner[r] = "wait" /\ r \in WaitingRunners /\ r \in AllRunners
    BY <1>5 DEF Take, Left, AtGate, WaitingRunners, AllRunners
  <2>2. /\ Cardinality(WaitingRunners \ {r}) = Cardinality(WaitingRunners) - 1
        /\ Cardinality(AllRunners \ {r}) = Cardinality(AllRunners) - 1
    BY <1>1, <2>1, OneLess
  <2>3. CASE runner' = [runner EXCEPT ![r] = "run"] /\ waiting' = waiting - 1 /\ UNCHANGED runners
    <3>1. WaitingRunners' = WaitingRunners \ {r} /\ AllRunners' = AllRunners
      BY <2>1, <2>3 DEF WaitingRunners, AllRunners, PoolTypeOK
    <3>. QED
      BY <2>2, <2>3, <3>1 DEF RunnersCounted
  <2>4. CASE runner' = [runner EXCEPT ![r] = "none"] /\ waiting' = waiting - 1 /\ runners' = runners - 1
    <3>1. WaitingRunners' = WaitingRunners \ {r} /\ AllRunners' = AllRunners \ {r}
      BY <2>1, <2>4 DEF WaitingRunners, AllRunners, PoolTypeOK
    <3>. QED
      BY <2>2, <2>4, <3>1 DEF RunnersCounted, PoolTypeOK
  <2>5. CASE UNCHANGED <<runner, waiting, runners>>
    BY <1>2, <2>5 DEF WaitingRunners, AllRunners
  <2>. QED
    BY <1>5, <2>3, <2>4, <2>5 DEF Take, TakeTask
<1>6. ASSUME NEW r \in Runners, Return(r)
       PROVE  RunnersCounted'
  <2>1. WaitingRunners' = WaitingRunners /\ AllRunners' = AllRunners
    BY <1>6 DEF WaitingRunners, AllRunners, PoolTypeOK, Return, Finish
  <2>. QED
    BY <1>2, <1>6, <2>1 DEF Return, Finish
<1>7. CASE UNCHANGED poolVars
  BY <1>2, <1>7 DEF poolVars, WaitingRunners, AllRunners
<1>. QED
  BY <1>3, <1>4, <1>5, <1>6, <1>7, PoolFrame DEF PoolStep, RunnerStep, GateStep, Idles, Signal

(* A step that queues nothing and lets nobody stop looking or signalling   *)
LEMMA AttendedKept ==
    ASSUME TasksAttended, (\E r \in Runners : Dozing(r))' => \E r \in Runners : Dozing(r),
           queue' = queue, PoolTypeOK, Signallers' = Signallers, Lookers \subseteq Lookers'
    PROVE  TasksAttended'
<1>1. Lookers' \in SUBSET Runners /\ Signallers \in SUBSET Clients
  BY DEF Lookers, Signallers
<1>2. /\ Cardinality(Lookers) <= Cardinality(Lookers') /\ Cardinality(Signallers) \in Nat
      /\ Cardinality(Lookers) \in Nat /\ Cardinality(Lookers') \in Nat
  BY <1>1, FinitePeople, FS_Subset
<1>3. Len(queue) \in Nat
  BY LenProperties DEF PoolTypeOK
<1>. QED
  BY <1>2, <1>3 DEF TasksAttended

(* Who takes a task looked at the queue, and nobody else stops looking.    *)
LEMMA AttendedTaken ==
    ASSUME TasksAttended, PoolTypeOK, NEW r \in Runners, TakeTask(r), r \in Lookers,
           \A q \in Runners \ {r} : gate'[q] = gate[q] /\ (q \in current' <=> q \in current),
           gate'[r] = "out", Signallers' = Signallers
    PROVE  TasksAttended'
<1>1. Lookers' = Lookers \ {r}
  BY TakenTask DEF Lookers, Looking
<1>2. Lookers \in SUBSET Runners /\ Signallers \in SUBSET Clients
  BY DEF Lookers, Signallers
<1>3. Cardinality(Lookers') = Cardinality(Lookers) - 1
  BY <1>1, <1>2, FinitePeople, OneLess
<1>4. (\E q \in Runners : Dozing(q))' => \E q \in Runners : Dozing(q)
  BY DEF Dozing
<1>5. Cardinality(Lookers) \in Nat /\ Cardinality(Signallers) \in Nat
  BY <1>2, FinitePeople
<1>. QED
  BY <1>3, <1>4, <1>5, TakenTask DEF TasksAttended

(* Every step leaves somebody to look for each queued task.                *)
LEMMA TasksAttendedStep ==
    ASSUME Placed, GateTypeOK, PoolTypeOK, AtGate, TasksAttended, [Next]_vars
    PROVE  TasksAttended'
<1>. USE Names
<1>1. ASSUME NEW c \in Clients, QueueTask(c)
       PROVE  TasksAttended'
  <2>1. UNCHANGED <<gate, current>> /\ pc \in [Procs -> Places]
    BY <1>1 DEF QueueTask, gateVars, Placed
  <2>2. (\E r \in Runners : Dozing(r))' => \E r \in Runners : Dozing(r)
    BY <2>1 DEF Dozing
  <2>3. \A r \in Runners : runner[r] = "next" => runner'[r] = "next"
    BY <1>1 DEF QueueTask, Queue, StartFails, PoolTypeOK
  <2>4. Lookers \subseteq Lookers'
    BY <2>1, <2>3 DEF Lookers, Looking
  <2>5. CASE Queue(c) /\ GoOn(c, "signal")
    <3>1. Signallers' = Signallers \cup {c} /\ c \notin Signallers /\ Signallers \in SUBSET Clients
      BY <1>1, <2>1, <2>5 DEF Signallers, QueueTask, GoOn, Goto, At
    <3>2. Cardinality(Signallers') = Cardinality(Signallers) + 1
      BY <3>1, FinitePeople, OneMore
    <3>3. Lookers' \in SUBSET Runners
      BY DEF Lookers
    <3>4. /\ Cardinality(Lookers) <= Cardinality(Lookers') /\ Cardinality(Signallers) \in Nat
          /\ Cardinality(Lookers) \in Nat /\ Cardinality(Lookers') \in Nat
      BY <2>4, <3>1, <3>3, FinitePeople, FS_Subset
    <3>5. submitted + 1 \in Tasks /\ queue' = Append(queue, submitted + 1)
      BY <2>5 DEF Queue, Submit, PoolTypeOK
    <3>6. Len(queue') = Len(queue) + 1 /\ Len(queue) \in Nat
      BY <3>5, AppendFacts, LenProperties DEF PoolTypeOK
    <3>. QED
      BY <2>2, <3>2, <3>4, <3>6 DEF TasksAttended
  <2>6. CASE StartFails(c) /\ GoOn(c, "failed")
    <3>1. Signallers' = Signallers
      BY <1>1, <2>1, <2>6 DEF Signallers, QueueTask, GoOn, Goto, At
    <3>. QED
      BY <2>2, <2>4, <2>6, <3>1, AttendedKept DEF StartFails
  <2>. QED
    BY <1>1, <2>5, <2>6 DEF QueueTask
<1>2. ASSUME NEW c \in Clients, Signal(c)
       PROVE  TasksAttended'
  <2>1. /\ queue' = queue /\ runner' = runner /\ current' = {}
        /\ pc[c] = "signal" /\ pc' = [pc EXCEPT ![c] = "ready"] /\ pc \in [Procs -> Places]
    BY <1>2 DEF Signal, GateSignal, poolVars, At, GoOn, Goto, Placed
  <2>2. CASE UNCHANGED gate /\ ~\E r \in Runners : gate[r] = "asleep"
    BY <2>1, <2>2 DEF TasksAttended, Dozing
  <2>3. ASSUME NEW r \in Runners, gate[r] = "asleep", gate' = [gate EXCEPT ![r] = "woken"]
         PROVE  TasksAttended'
    <3>1. Signallers' = Signallers \ {c} /\ c \in Signallers /\ Signallers \in SUBSET Clients
      BY <2>1 DEF Signallers
    <3>2. Lookers \cup {r} \subseteq Lookers' /\ r \notin Lookers
      BY <2>1, <2>3 DEF Lookers, Looking, AtGate, GateTypeOK
    <3>3. Lookers \in SUBSET Runners /\ Lookers' \in SUBSET Runners
      BY DEF Lookers
    <3>4. Cardinality(Lookers \cup {r}) = Cardinality(Lookers) + 1
      BY <3>2, <3>3, FinitePeople, OneMore
    <3>5. Cardinality(Lookers) + 1 <= Cardinality(Lookers')
      BY <3>2, <3>3, <3>4, FinitePeople, FS_Subset
    <3>6. Cardinality(Signallers') = Cardinality(Signallers) - 1
      BY <3>1, FinitePeople, OneLess
    <3>7. /\ Cardinality(Lookers) \in Nat /\ Cardinality(Lookers') \in Nat
          /\ Cardinality(Signallers) \in Nat /\ Len(queue) \in Nat
      BY <3>1, <3>3, FinitePeople, LenProperties DEF PoolTypeOK
    <3>8. Dozing(r)
      BY <2>3 DEF Dozing
    <3>9. Len(queue) <= Cardinality(Lookers) + Cardinality(Signallers)
      BY <3>8 DEF TasksAttended
    <3>10. Len(queue') <= Cardinality(Lookers') + Cardinality(Signallers')
      BY <2>1, <3>5, <3>6, <3>7, <3>9
    <3>. QED
      BY <3>10 DEF TasksAttended
  <2>. QED
    BY <1>2, <2>2, <2>3 DEF Signal, GateSignal, GateGo
<1>3. ASSUME queue' = <<>>
       PROVE  TasksAttended'
  <2>1. Lookers' \in SUBSET Runners /\ Signallers' \in SUBSET Clients
    BY DEF Lookers, Signallers
  <2>2. Cardinality(Lookers') \in Nat /\ Cardinality(Signallers') \in Nat
    BY <2>1, FinitePeople
  <2>. QED
    BY <1>3, <2>2 DEF TasksAttended
<1>4. ASSUME NEW r \in Runners, PoolStep(r)
       PROVE  TasksAttended'
  <2>1. Signallers' = Signallers
    BY <1>4 DEF PoolStep, wakerVars, Signallers
  <2>2. CASE NextTask(r) /\ TakeTask(r)
    <3>1. UNCHANGED <<gate, current>> /\ runner[r] = "next" /\ gate[r] = "out"
      BY <2>2 DEF NextTask, TakeTask, gateVars, AtGate, PoolTypeOK
    <3>2. r \in Lookers
      BY <3>1 DEF Lookers, Looking
    <3>. QED
      BY <2>1, <2>2, <3>1, <3>2, AttendedTaken
  <2>3. CASE Take(r) /\ TakeTask(r)
    <3>1. /\ gate' = [gate EXCEPT ![r] = "out"] /\ current' = current \ {r}
          /\ gate[r] \in {"ready", "timedOut"}
      BY <2>3 DEF Take, TakeTask, GateLeave, GateGo, Left
    <3>2. r \in Lookers
      BY <3>1 DEF Lookers, Looking
    <3>. QED
      BY <2>1, <2>3, <3>1, <3>2, AttendedTaken DEF GateTypeOK
  <2>4. CASE (NextTask(r) \/ Take(r)) /\ ~TakeTask(r)
    BY <1>3, <2>4 DEF NextTask, Take
  <2>5. CASE GateCheck(r, queue = <<>>) /\ queue = <<>> /\ UNCHANGED poolVars
    BY <1>3, <2>5 DEF poolVars
  <2>6. CASE GateCheck(r, queue = <<>>) /\ queue # <<>> /\ UNCHANGED poolVars
    <3>1. gate[r] = "check" /\ gate' = [gate EXCEPT ![r] = "ready"] /\ UNCHANGED <<current, runner, queue>>
      BY <2>6 DEF GateCheck, GateGo, poolVars
    <3>2. Lookers \subseteq Lookers' /\ \A q \in Runners : Dozing(q)' => Dozing(q)
      BY <3>1 DEF Lookers, Looking, Dozing, GateTypeOK
    <3>. QED
      BY <2>1, <3>1, <3>2, AttendedKept
  <2>7. CASE GateSleep(r) /\ UNCHANGED poolVars
    <3>1. /\ gate[r] = "enter" /\ UNCHANGED <<current, runner, queue>>
          /\ gate' = [gate EXCEPT ![r] = IF r \in current THEN "asleep" ELSE "woken"]
      BY <2>7 DEF GateSleep, GateGo, poolVars
    <3>2. Lookers \subseteq Lookers' /\ \A q \in Runners : Dozing(q)' => Dozing(q)
      BY <3>1 DEF Lookers, Looking, Dozing, GateTypeOK
    <3>. QED
      BY <2>1, <3>1, <3>2, AttendedKept
  <2>8. CASE GateWoken(r) /\ UNCHANGED poolVars
    <3>1. /\ gate[r] = "woken" /\ current' = current \cup {r} /\ UNCHANGED <<runner, queue>>
          /\ gate' = [gate EXCEPT ![r] = "check"]
      BY <2>8 DEF GateWoken, GateNote, GateGo, poolVars
    <3>2. Lookers \subseteq Lookers' /\ \A q \in Runners : Dozing(q)' => Dozing(q)
      BY <3>1 DEF Lookers, Looking, Dozing, GateTypeOK
    <3>. QED
      BY <2>1, <3>1, <3>2, AttendedKept
  <2>. QED
    BY <1>4, <2>2, <2>3, <2>4, <2>5, <2>6, <2>7, <2>8 DEF PoolStep, RunnerStep, GateStep
<1>5. ASSUME NEW r \in Runners, Idles(r), UNCHANGED wakerVars
       PROVE  TasksAttended'
  <2>1. /\ gate[r] = "asleep" /\ UNCHANGED <<current, runner, queue, pc>>
        /\ \E l \in {"timedOut", "woken"} : gate' = [gate EXCEPT ![r] = l]
    BY <1>5 DEF Idles, GateTimeout, GateGo, poolVars, wakerVars
  <2>2. Lookers \subseteq Lookers' /\ \A q \in Runners : Dozing(q)' => Dozing(q)
    BY <2>1 DEF Lookers, Looking, Dozing, GateTypeOK
  <2>. QED
    BY <2>1, <2>2, AttendedKept DEF Signallers
<1>6. ASSUME NEW r \in Runners, Return(r)
       PROVE  TasksAttended'
  <2>1. UNCHANGED <<gate, current, pc, queue>> /\ runner' = [runner EXCEPT ![r] = "next"]
    BY <1>6 DEF Return, Finish, gateVars, wakerVars
  <2>2. Lookers \subseteq Lookers' /\ \A q \in Runners : Dozing(q)' => Dozing(q)
    BY <2>1 DEF Lookers, Looking, Dozing, PoolTypeOK
  <2>. QED
    BY <2>1, <2>2, AttendedKept DEF Signallers
<1>7. CASE UNCHANGED <<gateVars, poolVars>> /\ Signallers' = Signallers
  <2>1. Lookers' = Lookers /\ \A q \in Runners : Dozing(q)' => Dozing(q)
    BY <1>7 DEF Lookers, Looking, Dozing, gateVars, poolVars
  <2>. QED
    BY <1>7, <2>1, AttendedKept DEF poolVars
<1>. QED
  BY <1>1, <1>2, <1>4, <1>5, <1>6, <1>7, PoolFrame

-----------------------------------------------------------------------------
(* What the doc of the pool says follows from where tasks and runners are. *)
LEMMA PoolBooks ==
    ASSUME PoolTypeOK, TasksPlaced, RunnersCounted
    PROVE  PoolCountsExact
<1>1. ASSUME NEW t \in Tasks
       PROVE  Cardinality({i \in DOMAIN queue : queue[i] = t}) + Cardinality({r \in Runners : task[r] = t})
                  = (IF status[t] \in {"queued", "running"} THEN 1 ELSE 0)
  <2>. DEFINE I == {i \in DOMAIN queue : queue[i] = t}
              R == {r \in Runners : task[r] = t}
  <2>1. DOMAIN queue = 1 .. Len(queue)
    BY LenProperties DEF PoolTypeOK
  <2>2. status[t] # "queued" => I = {}
    BY <2>1 DEF TasksPlaced, Contains
  <2>3. status[t] # "running" => R = {}
    BY Names DEF TasksPlaced
  <2>4. ASSUME status[t] = "queued"
         PROVE  \E i : I = {i}
    <3>1. PICK i \in 1 .. Len(queue) : queue[i] = t
      BY <2>4 DEF TasksPlaced, Contains
    <3>2. I = {i}
      BY <2>1, <3>1 DEF TasksPlaced, Once
    <3>. QED
      BY <3>2
  <2>5. status[t] = "running" => \E r : R = {r}
    BY Names DEF TasksPlaced
  <2>. HIDE DEF I, R
  <2>6. Cardinality({}) = 0 /\ \A x : Cardinality({x}) = 1
    BY FS_EmptySet, FS_Singleton
  <2>7. Cardinality(I) + Cardinality(R) = IF status[t] \in {"queued", "running"} THEN 1 ELSE 0
    <3>1. CASE status[t] = "queued"
      <4>1. Cardinality(I) = 1 /\ Cardinality(R) = 0
        BY <2>3, <2>4, <2>6, <3>1
      <4>. QED
        BY <3>1, <4>1
    <3>2. CASE status[t] = "running"
      <4>1. Cardinality(I) = 0 /\ Cardinality(R) = 1
        BY <2>2, <2>5, <2>6, <3>2
      <4>. QED
        BY <3>2, <4>1
    <3>3. CASE status[t] \notin {"queued", "running"}
      <4>1. Cardinality(I) = 0 /\ Cardinality(R) = 0
        BY <2>2, <2>3, <2>6, <3>3
      <4>. QED
        BY <3>3, <4>1
    <3>. QED
      BY <3>1, <3>2, <3>3
  <2>. QED
    BY <2>7 DEF I, R
<1>. QED
  BY <1>1 DEF RunnersCounted, WaitingRunners, AllRunners, PoolCountsExact

(* So does that queued tasks are seen to.                                  *)
LEMMA Attention ==
    ASSUME TasksAttended
    PROVE  NoTaskStranded
  BY DEF TasksAttended, NoTaskStranded, Dozing, Lookers, Signallers

-----------------------------------------------------------------------------
(* The group                                                               *)

Marks(t) == \E l \in {"released", "thrown"} : GroupDone(t, l, "done")

(* The clients that are pledged, and the handlers that are at their end,   *)
(* but for the steps that are about it                                     *)
LEMMA GroupFrame ==
    ASSUME Placed, WakersTypeOK, [Next]_vars
    PROVE  \/ \E c \in Clients : AddTask(c) \/ QueueTask(c) \/ GiveUp(c)
           \/ \E t \in Tasks : status[t] = "running" /\ Marks(t) /\ UNCHANGED <<gateVars, poolVars, given>>
           \/ /\ count' = count
              /\ \A c \in Clients : /\ pc'[c] = "added" <=> pc[c] = "added"
                                    /\ pc'[c] = "failed" <=> pc[c] = "failed"
                                    /\ pc'[c] = "waited" => pc[c] = "waited" \/ count = 0
              /\ \A t \in Tasks : pc'[t] = "done" <=> pc[t] = "done"
              /\ \/ UNCHANGED poolVars
                 \/ \E r \in Runners : NextTask(r) \/ Take(r) \/ Return(r)
<1>. DEFINE Quiet == /\ count' = count
                     /\ \A c \in Clients : /\ pc'[c] = "added" <=> pc[c] = "added"
                                           /\ pc'[c] = "failed" <=> pc[c] = "failed"
                                           /\ pc'[c] = "waited" => pc[c] = "waited" \/ count = 0
                     /\ \A t \in Tasks : pc'[t] = "done" <=> pc[t] = "done"
<1>. USE Names DEF Placed, Goto, GoOn, Leave
<1>1. ASSUME NEW c \in Clients,
             Signal(c) \/ StartWait(c) \/ Await(c) \/ GroupWait(c) \/ GroupForget(c) \/ GroupLoop(c)
       PROVE  Quiet
  <2>1. count' = count
    BY <1>1 DEF Signal, StartWait, Await, GroupWait, GroupForget, GroupLoop, groupVars
  <2>2. pc[c] \notin {"added", "failed"}
    BY <1>1 DEF Signal, StartWait, Await, GroupWait, GroupForget, GroupLoop, Check, Wait, At
  <2>3. pc' = pc \/ \E l \in ClientStates \ {"added", "failed"} :
                        pc' = [pc EXCEPT ![c] = l] /\ (l = "waited" => count = 0)
    BY <1>1 DEF Signal, StartWait, Await, GroupWait, GroupForget, GroupLoop, Check, Wait, TakeWaker, ClientStates,
       At
  <2>4. \A t \in Tasks : pc'[t] = pc[t]
    BY <2>3
  <2>. QED
    BY <2>1, <2>2, <2>3, <2>4
<1>2. ASSUME NEW t \in Tasks, AcquireStep(t) \/ AcquireWait(t), UNCHANGED groupVars
       PROVE  Quiet
  <2>1. pc[t] # "done"
    BY <1>2 DEF AcquireStep, AcquireWait, Acquire, TryAcquire, Forget, ForgetTimeout,
       ForgetCancelled, PassOn, Release, Check, Register, Wait, CancelForget, IsCancelled, At
  <2>2. pc' = pc \/ \E l \in HandlerStates \ {"done"} : pc' = [pc EXCEPT ![t] = l]
    BY <1>2 DEF AcquireStep, AcquireWait, Acquire, TryAcquire, Forget, ForgetTimeout,
       ForgetCancelled, PassOn, Release, Check, Register, Wait, CancelForget, IsCancelled, TakeWaker, HandlerStates
  <2>3. \A c \in Clients : pc'[c] = pc[c]
    BY <2>2
  <2>4. \A u \in Tasks : pc'[u] = "done" <=> pc[u] = "done"
    BY <2>1, <2>2
  <2>. QED
    BY <1>2, <2>3, <2>4 DEF groupVars
<1>3. ASSUME NEW p \in Procs, (Wake(p) /\ Others) \/ Late(p)
       PROVE  Quiet /\ UNCHANGED poolVars
  BY <1>3 DEF Wake, Late, TimePasses, Others, groupVars
<1>4. ASSUME Give \/ (Cancel /\ Others)
       PROVE  Quiet /\ UNCHANGED poolVars
  <2>1. \A p \in Procs \ {Canceller} : pc'[p] = pc[p]
    BY <1>4 DEF Give, Release, Cancel
  <2>. QED
    BY <1>4, <2>1 DEF Give, Others, groupVars
<1>5. ASSUME UNCHANGED <<wakerVars, groupVars>>
       PROVE  Quiet
  BY <1>5 DEF wakerVars, groupVars
<1>6. ASSUME NEW t \in Tasks, HandlerStep(t)
       PROVE  \/ Quiet /\ UNCHANGED poolVars
              \/ status[t] = "running" /\ Marks(t) /\ UNCHANGED <<gateVars, poolVars, given>>
  BY <1>2, <1>6 DEF HandlerStep, Marks
<1>7. ASSUME NEW r \in Runners, PoolStep(r) \/ (Idles(r) /\ UNCHANGED <<wakerVars, semVars, groupVars, given>>)
       PROVE  /\ Quiet
              /\ UNCHANGED poolVars \/ \E q \in Runners : NextTask(q) \/ Take(q)
  BY <1>5, <1>7 DEF PoolStep, RunnerStep, GateStep, Idles
<1>8. ASSUME NEW r \in Runners, Return(r)
       PROVE  Quiet
  BY <1>5, <1>8 DEF Return
<1>9. ASSUME NEW c \in Clients, ClientStep(c) \/ AddTask(c) \/ StartWait(c)
       PROVE  \/ Quiet /\ UNCHANGED poolVars
              \/ AddTask(c) \/ QueueTask(c) \/ GiveUp(c)
  <2>1. CASE Signal(c) \/ StartWait(c) \/ Await(c)
    BY <1>1, <2>1 DEF Signal, StartWait, Await
  <2>. QED
    BY <1>1, <1>9, <2>1 DEF ClientStep
<1>10. ASSUME UNCHANGED vars
       PROVE  Quiet /\ UNCHANGED poolVars
  BY <1>5, <1>10 DEF vars
<1>. HIDE DEF Quiet
<1>11. \/ \E c \in Clients : AddTask(c) \/ QueueTask(c) \/ GiveUp(c)
       \/ \E t \in Tasks : status[t] = "running" /\ Marks(t) /\ UNCHANGED <<gateVars, poolVars, given>>
       \/ Quiet /\ (UNCHANGED poolVars \/ \E r \in Runners : NextTask(r) \/ Take(r) \/ Return(r))
  <2>1. CASE \E c \in Clients : AddTask(c) \/ StartWait(c) \/ ClientStep(c)
    BY <1>9, <2>1
  <2>2. CASE \E t \in Tasks : HandlerStep(t)
    BY <1>6, <2>2
  <2>3. CASE \E r \in Runners : \/ PoolStep(r) \/ Return(r)
                                \/ Idles(r) /\ UNCHANGED <<wakerVars, semVars, groupVars, given>>
    BY <1>7, <1>8, <2>3
  <2>4. CASE \/ \E p \in Procs : (Wake(p) /\ Others) \/ Late(p)
             \/ Give \/ (Cancel /\ Others)
    BY <1>3, <1>4, <2>4
  <2>5. CASE UNCHANGED vars
    BY <1>10, <2>5
  <2>. QED
    BY <2>1, <2>2, <2>3, <2>4, <2>5 DEF Next
<1>. QED
  BY <1>11 DEF Quiet

(* Nobody is pledged by a step that leaves those it is about alone.        *)
LEMMA GroupKept ==
    ASSUME GroupCounted, count' = count, PledgedClients' = PledgedClients, PledgedTasks' = PledgedTasks,
           \A t \in Tasks : pc'[t] = "done" => status'[t] \in {"running", "done"},
           \A t \in Tasks : status'[t] = "done" => pc'[t] = "done",
           \A t \in Tasks : owner'[t] = 0 <=> status'[t] = "new"
    PROVE  GroupCounted'
  BY DEF GroupCounted

(* The sets of those pledged are finite.                                  *)
LEMMA PledgedFinite ==
    /\ IsFiniteSet(PledgedClients) /\ Cardinality(PledgedClients) \in Nat
    /\ IsFiniteSet(PledgedTasks) /\ Cardinality(PledgedTasks) \in Nat
<1>1. PledgedClients \in SUBSET Clients /\ PledgedTasks \in SUBSET Tasks
  BY DEF PledgedClients, PledgedTasks
<1>. QED
  BY <1>1, FinitePeople

(* Where the tasks are after a runner's step                               *)
LEMMA RunnerMoves ==
    ASSUME PoolTypeOK, TasksPlaced, NEW r \in Runners, NextTask(r) \/ Take(r) \/ Return(r)
    PROVE  /\ owner' = owner /\ submitted' = submitted
           /\ \A t \in Tasks : \/ status'[t] = status[t]
                               \/ status[t] = "queued" /\ status'[t] = "running"
                               \/ status[t] = "running" /\ status'[t] = "done" /\ pc[t] = "done"
<1>1. owner' = owner /\ submitted' = submitted
  BY DEF NextTask, Take, Return, Finish
<1>2. CASE TakeTask(r)
  <2>1. status[Head(queue)] = "queued"
    BY <1>2, TakenTask DEF TasksPlaced
  <2>. QED
    BY <1>1, <1>2, <2>1, TakenTask
<1>3. CASE UNCHANGED status
  BY <1>1, <1>3
<1>4. CASE Return(r)
  <2>1. /\ runner[r] = "run" /\ status' = [status EXCEPT ![task[r]] = "done"]
        /\ pc[task[r]] = "done"
    BY <1>4 DEF Return, Finish, At
  <2>2. status[task[r]] = "running"
    BY <2>1 DEF TasksPlaced
  <2>. QED
    BY <1>1, <2>1, <2>2 DEF PoolTypeOK
<1>. QED
  BY <1>2, <1>3, <1>4 DEF NextTask, Take

(* Every step counts a task that is begun and counts down one that is done.*)
LEMMA GroupCountedStep ==
    ASSUME Placed, PoolTypeOK, WakersTypeOK, WaitGroupTypeOK, TasksPlaced, GroupCounted, [Next]_vars
    PROVE  GroupCounted'
<1>. USE Names, PledgedFinite DEF Placed, Goto, GoOn
<1>1. ASSUME NEW c \in Clients, AddTask(c)
       PROVE  GroupCounted'
  <2>1. /\ pc[c] = "ready" /\ pc' = [pc EXCEPT ![c] = "added"]
        /\ UNCHANGED poolVars /\ count' = count + 1
    BY <1>1 DEF AddTask, Add, At
  <2>2. PledgedClients' = PledgedClients \cup {c} /\ c \notin PledgedClients
    BY <2>1 DEF PledgedClients
  <2>3. PledgedTasks' = PledgedTasks /\ \A t \in Tasks : pc'[t] = pc[t]
    BY <2>1 DEF PledgedTasks, poolVars
  <2>4. Cardinality(PledgedClients') = Cardinality(PledgedClients) + 1
    BY <2>2, OneMore
  <2>. QED
    BY <2>1, <2>3, <2>4 DEF GroupCounted, poolVars
<1>2. ASSUME NEW c \in Clients, QueueTask(c)
       PROVE  GroupCounted'
  <2>. DEFINE t == submitted + 1
  <2>1. /\ t \in Tasks /\ count' = count /\ pc[c] = "added"
        /\ owner' = [owner EXCEPT ![t] = c]
        /\ status[t] = "new"
    BY <1>2 DEF QueueTask, Queue, StartFails, Submit, PoolTypeOK, TasksPlaced, groupVars, At
  <2>. HIDE DEF t
  <2>2. pc[t] # "done"
    BY <2>1 DEF GroupCounted
  <2>3. CASE status' = [status EXCEPT ![t] = "queued"] /\ pc' = [pc EXCEPT ![c] = "signal"]
    <3>1. PledgedClients' = PledgedClients \ {c} /\ c \in PledgedClients
      BY <2>1, <2>3 DEF PledgedClients
    <3>2. \A u \in Tasks : pc'[u] = pc[u]
      BY <2>3
    <3>3. PledgedTasks' = PledgedTasks \cup {t} /\ t \notin PledgedTasks
      BY <2>1, <2>2, <2>3, <3>2 DEF PledgedTasks, PoolTypeOK
    <3>4. /\ Cardinality(PledgedClients') = Cardinality(PledgedClients) - 1
          /\ Cardinality(PledgedTasks') = Cardinality(PledgedTasks) + 1
      BY <3>1, <3>3, OneMore, OneLess
    <3>5. \A u \in Tasks : /\ status'[u] = IF u = t THEN "queued" ELSE status[u]
                           /\ owner'[u] = IF u = t THEN c ELSE owner[u]
      BY <2>1, <2>3 DEF PoolTypeOK
    <3>6. count' = Cardinality(PledgedClients') + Cardinality(PledgedTasks')
      BY <2>1, <3>4 DEF GroupCounted
    <3>7. \A u \in Tasks : pc'[u] = "done" => status'[u] \in {"running", "done"}
      BY <2>2, <3>2, <3>5 DEF GroupCounted
    <3>8. \A u \in Tasks : status'[u] = "done" => pc'[u] = "done"
      BY <3>2, <3>5 DEF GroupCounted
    <3>9. \A u \in Tasks : owner'[u] = 0 <=> status'[u] = "new"
      BY <2>1, <3>5 DEF GroupCounted
    <3>. QED
      BY <3>6, <3>7, <3>8, <3>9 DEF GroupCounted
  <2>4. CASE status' = [status EXCEPT ![t] = "failed"] /\ pc' = [pc EXCEPT ![c] = "failed"]
    <3>1. PledgedClients' = PledgedClients
      BY <2>1, <2>4 DEF PledgedClients
    <3>2. \A u \in Tasks : pc'[u] = pc[u]
      BY <2>4
    <3>3. \A u \in Tasks : /\ status'[u] = IF u = t THEN "failed" ELSE status[u]
                           /\ owner'[u] = IF u = t THEN c ELSE owner[u]
      BY <2>1, <2>4 DEF PoolTypeOK
    <3>4. PledgedTasks' = PledgedTasks
      BY <2>1, <3>2, <3>3 DEF PledgedTasks
    <3>5. count' = Cardinality(PledgedClients') + Cardinality(PledgedTasks')
      BY <2>1, <3>1, <3>4 DEF GroupCounted
    <3>6. \A u \in Tasks : pc'[u] = "done" => status'[u] \in {"running", "done"}
      BY <2>2, <3>2, <3>3 DEF GroupCounted
    <3>7. \A u \in Tasks : status'[u] = "done" => pc'[u] = "done"
      BY <3>2, <3>3 DEF GroupCounted
    <3>8. \A u \in Tasks : owner'[u] = 0 <=> status'[u] = "new"
      BY <2>1, <3>3 DEF GroupCounted
    <3>. QED
      BY <3>5, <3>6, <3>7, <3>8 DEF GroupCounted
  <2>. QED
    BY <1>2, <2>3, <2>4 DEF QueueTask, Queue, StartFails, t
<1>3. ASSUME NEW c \in Clients, GiveUp(c)
       PROVE  GroupCounted'
  <2>1. /\ pc[c] = "failed" /\ pc' = [pc EXCEPT ![c] = "ready"] /\ UNCHANGED poolVars
        /\ (count = 0 /\ count' = 0) \/ (count > 0 /\ count' = count - 1)
    BY <1>3 DEF GiveUp, GroupDone, At, WaitGroupTypeOK
  <2>2. PledgedClients' = PledgedClients \ {c} /\ c \in PledgedClients
    BY <2>1 DEF PledgedClients
  <2>3. PledgedTasks' = PledgedTasks /\ \A t \in Tasks : pc'[t] = pc[t]
    BY <2>1 DEF PledgedTasks, poolVars
  <2>4. Cardinality(PledgedClients') = Cardinality(PledgedClients) - 1 /\ Cardinality(PledgedClients) # 0
    BY <2>2, OneLess
  <2>5. count # 0
    BY <2>4 DEF GroupCounted
  <2>6. count' = Cardinality(PledgedClients') + Cardinality(PledgedTasks')
    BY <2>1, <2>3, <2>4, <2>5 DEF GroupCounted
  <2>7. UNCHANGED <<status, owner>>
    BY <2>1 DEF poolVars
  <2>. QED
    BY <2>3, <2>6, <2>7 DEF GroupCounted
<1>4. ASSUME NEW t \in Tasks, status[t] = "running", Marks(t), UNCHANGED poolVars
       PROVE  GroupCounted'
  <2>1. /\ pc[t] # "done" /\ pc' = [pc EXCEPT ![t] = "done"]
        /\ (count = 0 /\ count' = 0) \/ (count > 0 /\ count' = count - 1)
    BY <1>4 DEF Marks, GroupDone, At, WaitGroupTypeOK
  <2>2. PledgedTasks' = PledgedTasks \ {t} /\ t \in PledgedTasks
    BY <1>4, <2>1 DEF PledgedTasks, poolVars
  <2>3. PledgedClients' = PledgedClients
    BY <2>1 DEF PledgedClients
  <2>4. Cardinality(PledgedTasks') = Cardinality(PledgedTasks) - 1 /\ Cardinality(PledgedTasks) # 0
    BY <2>2, OneLess
  <2>5. count # 0
    BY <2>4 DEF GroupCounted
  <2>6. \A u \in Tasks : pc'[u] = IF u = t THEN "done" ELSE pc[u]
    BY <2>1
  <2>7. count' = Cardinality(PledgedClients') + Cardinality(PledgedTasks')
    BY <2>1, <2>3, <2>4, <2>5 DEF GroupCounted
  <2>8. UNCHANGED <<status, owner>>
    BY <1>4 DEF poolVars
  <2>. QED
    BY <1>4, <2>6, <2>7, <2>8 DEF GroupCounted
<1>5. ASSUME count' = count,
             \A c \in Clients : /\ pc'[c] = "added" <=> pc[c] = "added"
                                /\ pc'[c] = "failed" <=> pc[c] = "failed",
             \A t \in Tasks : pc'[t] = "done" <=> pc[t] = "done",
             UNCHANGED poolVars \/ \E r \in Runners : NextTask(r) \/ Take(r) \/ Return(r)
       PROVE  GroupCounted'
  <2>1. PledgedClients' = PledgedClients
    BY <1>5 DEF PledgedClients
  <2>2. \A t \in Tasks : /\ owner'[t] = owner[t]
                         /\ \/ status'[t] = status[t]
                            \/ status[t] = "queued" /\ status'[t] = "running"
                            \/ status[t] = "running" /\ status'[t] = "done" /\ pc[t] = "done"
    BY <1>5, RunnerMoves DEF poolVars
  <2>3. PledgedTasks' = PledgedTasks
    BY <1>5, <2>2 DEF PledgedTasks
  <2>. QED
    BY <1>5, <2>1, <2>2, <2>3, GroupKept DEF GroupCounted
<1>. QED
  BY <1>1, <1>2, <1>3, <1>4, <1>5, GroupFrame

(* Tasks and clients that count are never more than the bound allows, and  *)
(* a client that has to give up has a task that failed.                    *)
LEMMA CountBoundedStep ==
    ASSUME Placed, PoolTypeOK, WakersTypeOK, WaitGroupTypeOK, TasksPlaced, CountBounded, [Next]_vars
    PROVE  CountBounded'
<1>. USE Names DEF Placed, Goto, GoOn
<1>1. /\ IsFiniteSet(Counting) /\ Cardinality(Counting) \in Nat
      /\ IsFiniteSet(FailedClients) /\ Cardinality(FailedClients) \in Nat
      /\ IsFiniteSet(FailedTasks) /\ Cardinality(FailedTasks) \in Nat
      /\ submitted \in Nat
  <2>1. Counting \in SUBSET Clients /\ FailedClients \in SUBSET Clients /\ FailedTasks \in SUBSET Tasks
    BY DEF Counting, FailedClients, FailedTasks
  <2>. QED
    BY <2>1, FinitePeople DEF PoolTypeOK
<1>2. ASSUME NEW c \in Clients, AddTask(c)
      PROVE  CountBounded'
  <2>1. /\ pc[c] = "ready" /\ pc' = [pc EXCEPT ![c] = "added"]
        /\ UNCHANGED poolVars /\ submitted + Cardinality(Counting) < MaxTasks
    BY <1>2 DEF AddTask, Add, At
  <2>2. Counting' = Counting \cup {c} /\ c \notin Counting /\ FailedClients' = FailedClients
    BY <2>1 DEF Counting, FailedClients
  <2>3. Cardinality(Counting') = Cardinality(Counting) + 1
    BY <1>1, <2>2, OneMore
  <2>. QED
    BY <1>1, <2>1, <2>2, <2>3 DEF CountBounded, FailedTasks, poolVars
<1>3. ASSUME NEW c \in Clients, QueueTask(c)
      PROVE  CountBounded'
  <2>. DEFINE t == submitted + 1
  <2>1. /\ t \in Tasks /\ pc[c] = "added" /\ submitted' = submitted + 1 /\ status[t] = "new"
    BY <1>3 DEF QueueTask, Queue, StartFails, Submit, PoolTypeOK, TasksPlaced, At
  <2>. HIDE DEF t
  <2>2. pc' = [pc EXCEPT ![c] = "signal"] \/ pc' = [pc EXCEPT ![c] = "failed"]
    BY <1>3 DEF QueueTask
  <2>3. Counting' = Counting \ {c} /\ c \in Counting
    BY <2>1, <2>2 DEF Counting
  <2>4. Cardinality(Counting') = Cardinality(Counting) - 1
    BY <1>1, <2>3, OneLess
  <2>5. CASE status' = [status EXCEPT ![t] = "queued"] /\ pc' = [pc EXCEPT ![c] = "signal"]
    <3>1. FailedClients' = FailedClients
      BY <2>1, <2>5 DEF FailedClients
    <3>2. FailedTasks' = FailedTasks
      BY <2>1, <2>5 DEF FailedTasks, PoolTypeOK
    <3>. QED
      BY <1>1, <2>1, <2>4, <3>1, <3>2 DEF CountBounded
  <2>6. CASE status' = [status EXCEPT ![t] = "failed"] /\ pc' = [pc EXCEPT ![c] = "failed"]
    <3>1. FailedClients' = FailedClients \cup {c} /\ c \notin FailedClients
      BY <2>1, <2>6 DEF FailedClients
    <3>2. FailedTasks' = FailedTasks \cup {t} /\ t \notin FailedTasks
      BY <2>1, <2>6 DEF FailedTasks, PoolTypeOK
    <3>3. /\ Cardinality(FailedClients') = Cardinality(FailedClients) + 1
          /\ Cardinality(FailedTasks') = Cardinality(FailedTasks) + 1
      BY <1>1, <3>1, <3>2, OneMore
    <3>. QED
      BY <1>1, <2>1, <2>4, <3>3 DEF CountBounded
  <2>. QED
    BY <1>3, <2>5, <2>6 DEF QueueTask, Queue, StartFails, t
<1>4. ASSUME NEW c \in Clients, GiveUp(c)
      PROVE  CountBounded'
  <2>1. pc[c] = "failed" /\ pc' = [pc EXCEPT ![c] = "ready"] /\ UNCHANGED poolVars
    BY <1>4 DEF GiveUp, GroupDone, At
  <2>2. FailedClients' = FailedClients \ {c} /\ c \in FailedClients /\ Counting' = Counting
    BY <2>1 DEF FailedClients, Counting
  <2>3. Cardinality(FailedClients') = Cardinality(FailedClients) - 1
    BY <1>1, <2>2, OneLess
  <2>. QED
    BY <1>1, <2>1, <2>2, <2>3 DEF CountBounded, FailedTasks, poolVars
<1>5. ASSUME NEW t \in Tasks, Marks(t), UNCHANGED poolVars
      PROVE  CountBounded'
  <2>1. pc' = [pc EXCEPT ![t] = "done"]
    BY <1>5 DEF Marks, GroupDone
  <2>2. Counting' = Counting /\ FailedClients' = FailedClients
    BY <2>1 DEF Counting, FailedClients
  <2>. QED
    BY <1>5, <2>2 DEF CountBounded, FailedTasks, poolVars
<1>6. ASSUME \A c \in Clients : /\ pc'[c] = "added" <=> pc[c] = "added"
                                /\ pc'[c] = "failed" <=> pc[c] = "failed",
             UNCHANGED poolVars \/ \E r \in Runners : NextTask(r) \/ Take(r) \/ Return(r)
      PROVE  CountBounded'
  <2>1. Counting' = Counting /\ FailedClients' = FailedClients
    BY <1>6 DEF Counting, FailedClients
  <2>2. submitted' = submitted /\ \A t \in Tasks : status'[t] = "failed" <=> status[t] = "failed"
    BY <1>6, RunnerMoves DEF poolVars
  <2>. QED
    BY <2>1, <2>2 DEF CountBounded, FailedTasks
<1>. QED
  BY <1>2, <1>3, <1>4, <1>5, <1>6, GroupFrame

(* The count is of tasks there may be.                                     *)
LEMMA CountInBounds ==
    ASSUME PoolTypeOK, TasksPlaced, GroupCounted, CountBounded
    PROVE  count \in Nat /\ count <= MaxTasks
<1>1. /\ PledgedTasks \in SUBSET Tasks /\ FailedTasks \in SUBSET Tasks
      /\ Counting \in SUBSET Clients /\ FailedClients \in SUBSET Clients
  BY DEF PledgedTasks, FailedTasks, Counting, FailedClients
<1>2. /\ \A s \in {PledgedTasks, FailedTasks, Counting, FailedClients} : IsFiniteSet(s) /\ Cardinality(s) \in Nat
      /\ submitted \in Nat /\ MaxTasks \in Nat
  BY <1>1, FinitePeople, Names DEF PoolTypeOK
<1>3. Cardinality(PledgedClients) = Cardinality(Counting) + Cardinality(FailedClients)
  <2>1. PledgedClients = Counting \cup FailedClients /\ Counting \cap FailedClients = {}
    BY DEF PledgedClients, Counting, FailedClients
  <2>2. IsFiniteSet(Counting) /\ IsFiniteSet(FailedClients) /\ Cardinality(Counting \cap FailedClients) = 0
    BY <1>2, <2>1, FS_EmptySet
  <2>3. Cardinality(Counting) \in Nat /\ Cardinality(FailedClients) \in Nat
    BY <1>2
  <2>4. Cardinality(Counting \cup FailedClients) =
            Cardinality(Counting) + Cardinality(FailedClients) - Cardinality(Counting \cap FailedClients)
    BY <2>2, FS_Union
  <2>. QED
    BY <2>1, <2>2, <2>3, <2>4
<1>4. Cardinality(PledgedTasks) + Cardinality(FailedTasks) <= submitted
  <2>1. PledgedTasks \cap FailedTasks = {}
    BY DEF PledgedTasks, FailedTasks
  <2>2. Cardinality(PledgedTasks \cup FailedTasks) = Cardinality(PledgedTasks) + Cardinality(FailedTasks)
    BY <1>2, <2>1, FS_Union, FS_EmptySet
  <2>3. PledgedTasks \cup FailedTasks \subseteq 1 .. submitted
    BY <1>2, Names DEF PledgedTasks, FailedTasks, TasksPlaced
  <2>4. IsFiniteSet(1 .. submitted) /\ Cardinality(1 .. submitted) = submitted
    <3>1. 1 \in Int /\ submitted \in Int /\ submitted >= 0
      BY <1>2
    <3>2. IsFiniteSet(1 .. submitted) /\ Cardinality(1 .. submitted) = IF 1 > submitted THEN 0 ELSE submitted - 1 + 1
      BY <3>1, FS_Interval, Zenon
    <3>. QED
      BY <3>1, <3>2
  <2>5. Cardinality(PledgedTasks \cup FailedTasks) <= Cardinality(1 .. submitted)
    BY <2>3, <2>4, FS_Subset
  <2>. QED
    BY <1>2, <2>2, <2>4, <2>5
<1>5. submitted + Cardinality(Counting) <= MaxTasks /\ Cardinality(FailedClients) <= Cardinality(FailedTasks)
  BY DEF CountBounded
<1>. QED
  BY <1>2, <1>3, <1>4, <1>5 DEF GroupCounted

(* When the count is 0 nothing is left of anybody's tasks, and a client    *)
(* that has returned from wait counts no task before it goes on.           *)
LEMMA GroupWaitsStep ==
    ASSUME Placed, PoolTypeOK, WakersTypeOK, WaitGroupTypeOK, TasksPlaced, GroupCounted, GroupWaits, [Next]_vars
    PROVE  GroupWaits'
<1>. USE Names DEF Placed, Goto, GoOn, Own
<1>1. ASSUME NEW c \in Clients, AddTask(c) \/ GiveUp(c)
      PROVE  GroupWaits'
  <2>1. pc' = [pc EXCEPT ![c] = "added"] \/ pc' = [pc EXCEPT ![c] = "ready"]
    BY <1>1 DEF AddTask, Add, GiveUp, GroupDone
  <2>2. UNCHANGED poolVars
    BY <1>1 DEF AddTask, GiveUp
  <2>. QED
    BY <2>1, <2>2 DEF GroupWaits, poolVars
<1>2. ASSUME NEW c \in Clients, QueueTask(c)
      PROVE  GroupWaits'
  <2>1. /\ owner' = [owner EXCEPT ![submitted + 1] = c] /\ submitted + 1 \in Tasks
        /\ status[submitted + 1] = "new"
        /\ pc' = [pc EXCEPT ![c] = "signal"] \/ pc' = [pc EXCEPT ![c] = "failed"]
        /\ \E s \in Statuses : status' = [status EXCEPT ![submitted + 1] = s]
    BY <1>2 DEF QueueTask, Queue, StartFails, Submit, PoolTypeOK, TasksPlaced, Statuses
  <2>2. \A t \in Tasks : pc'[t] = pc[t]
    BY <2>1
  <2>3. \A d \in Clients, t \in Tasks : pc'[d] = "waited" /\ owner'[t] = d =>
            pc[d] = "waited" /\ owner[t] = d /\ status'[t] = status[t]
    BY <2>1 DEF PoolTypeOK
  <2>. QED
    BY <2>2, <2>3 DEF GroupWaits
<1>3. ASSUME NEW t \in Tasks, Marks(t), UNCHANGED poolVars
      PROVE  GroupWaits'
  <2>1. pc' = [pc EXCEPT ![t] = "done"]
    BY <1>3 DEF Marks, GroupDone
  <2>2. (\A c \in Clients : pc'[c] = pc[c]) /\ \A u \in Tasks : pc[u] = "done" => pc'[u] = "done"
    BY <2>1
  <2>. QED
    BY <1>3, <2>2 DEF GroupWaits, poolVars
<1>4. ASSUME \A c \in Clients : pc'[c] = "waited" => pc[c] = "waited" \/ count = 0,
             \A t \in Tasks : pc'[t] = "done" <=> pc[t] = "done",
             UNCHANGED poolVars \/ \E r \in Runners : NextTask(r) \/ Take(r) \/ Return(r)
      PROVE  GroupWaits'
  <2>1. \A t \in Tasks : owner'[t] = owner[t] /\ (status[t] = "failed" => status'[t] = "failed")
    BY <1>4, RunnerMoves DEF poolVars
  <2>2. ASSUME count = 0, NEW t \in Tasks, owner[t] # 0
        PROVE  status[t] = "failed" \/ pc[t] = "done"
    <3>1. PledgedTasks = {}
      BY <2>2, PledgedFinite, FS_EmptySet DEF GroupCounted
    <3>2. status[t] \in Statuses /\ status[t] # "new"
      BY <2>2 DEF GroupCounted, PoolTypeOK
    <3>. QED
      BY <3>1, <3>2 DEF PledgedTasks, Statuses, GroupCounted
  <2>. QED
    BY <1>4, <2>1, <2>2 DEF GroupWaits
<1>. QED
  BY <1>1, <1>2, <1>3, <1>4, GroupFrame

-----------------------------------------------------------------------------
(* Wakers                                                                  *)

(* Where a step takes whom                                                 *)
LEMMA Moves ==
    ASSUME Placed, Roles, [Next]_vars
    PROVE  \/ pc' = pc
           \/ \E c \in Clients, l \in ClientStates :
                 /\ pc' = [pc EXCEPT ![c] = l]
                 /\ c \in Waiters \/ l \in {"ready", "added", "signal", "failed"}
           \/ \E t \in Tasks, l \in HandlerStates :
                 /\ pc' = [pc EXCEPT ![t] = l]
                 /\ t \in Acquirers \/ l = "done"
                 /\ l = "register" => t \in Cancellable
<1>. USE Names DEF Placed, Roles, Goto, GoOn, Leave
<1>1. ASSUME NEW c \in Clients,
             AddTask(c) \/ QueueTask(c) \/ Signal(c) \/ GiveUp(c)
      PROVE  \E l \in {"ready", "added", "signal", "failed"} : pc' = [pc EXCEPT ![c] = l]
  BY <1>1 DEF AddTask, QueueTask, Signal, GiveUp, Add, GroupDone
<1>2. ASSUME NEW c \in Clients,
             StartWait(c) \/ Await(c) \/ GroupWait(c) \/ GroupForget(c) \/ GroupLoop(c)
      PROVE  c \in Waiters /\ (pc' = pc \/ \E l \in ClientStates : pc' = [pc EXCEPT ![c] = l])
  <2>1. c \in Waiters
    BY <1>2 DEF StartWait, Await, GroupWait, GroupForget, GroupLoop, At
  <2>2. c \notin Cancellable
    BY <2>1
  <2>. QED
    BY <1>2, <2>1, <2>2 DEF StartWait, Await, GroupWait, GroupForget, GroupLoop, Check, Wait, TakeWaker, ClientStates
<1>3. ASSUME NEW t \in Tasks, AcquireStep(t) \/ AcquireWait(t)
      PROVE  /\ t \in Acquirers
             /\ \/ pc' = pc
                \/ \E l \in HandlerStates : pc' = [pc EXCEPT ![t] = l] /\ (l = "register" => t \in Cancellable)
  <2>1. pc[t] \notin {"released", "done"}
    BY <1>3 DEF AcquireStep, AcquireWait, Acquire, TryAcquire, Forget, ForgetTimeout,
       ForgetCancelled, PassOn, Release, Check, Register, Wait, CancelForget, IsCancelled, At
  <2>2. t \in Acquirers
    BY <2>1
  <2>3. \/ pc' = pc
        \/ \E l \in HandlerStates : pc' = [pc EXCEPT ![t] = l] /\ (l = "register" => t \in Cancellable)
    BY <1>3 DEF AcquireStep, AcquireWait, Acquire, TryAcquire, Forget, ForgetTimeout,
       ForgetCancelled, PassOn, Release, Check, Register, Wait, CancelForget, IsCancelled, TakeWaker, HandlerStates
  <2>. QED
    BY <2>2, <2>3
<1>4. ASSUME NEW t \in Tasks, HandlerStep(t)
      PROVE  \/ t \in Acquirers /\ pc' = pc
             \/ \E l \in HandlerStates :
                   /\ pc' = [pc EXCEPT ![t] = l]
                   /\ t \in Acquirers \/ l = "done"
                   /\ l = "register" => t \in Cancellable
  <2>1. CASE AcquireStep(t) \/ AcquireWait(t)
    BY <1>3, <2>1
  <2>2. CASE GroupDone(t, "released", "done") \/ GroupDone(t, "thrown", "done")
    BY <2>2 DEF GroupDone, HandlerStates
  <2>. QED
    BY <1>4, <2>1, <2>2 DEF HandlerStep
<1>5. ASSUME NEW p \in Procs, Wake(p) \/ Late(p)
      PROVE  pc' = pc
  BY <1>5 DEF Wake, Late, TimePasses
<1>6. ASSUME Give \/ Cancel
      PROVE  pc' = pc
  <2>1. pc' = pc \/ pc' = [pc EXCEPT ![Canceller] = "idle"]
    BY <1>6 DEF Give, Release, Cancel
  <2>2. pc \in [Procs -> Places] /\ pc[Canceller] = "idle" /\ Canceller \in Procs
    OBVIOUS
  <2>3. [pc EXCEPT ![Canceller] = "idle"] = pc
    BY <2>2, Zenon
  <2>. QED
    BY <2>1, <2>3
<1>7. ASSUME NEW r \in Runners,
             PoolStep(r) \/ Return(r) \/ (Idles(r) /\ UNCHANGED <<wakerVars, semVars, groupVars, given>>)
      PROVE  pc' = pc
  BY <1>7 DEF PoolStep, Return, wakerVars
<1>8. ASSUME NEW c \in Clients, AddTask(c) \/ StartWait(c) \/ ClientStep(c)
      PROVE  \/ pc' = pc
             \/ \E l \in ClientStates :
                 /\ pc' = [pc EXCEPT ![c] = l]
                 /\ c \in Waiters \/ l \in {"ready", "added", "signal", "failed"}
  <2>1. {"ready", "added", "signal", "failed"} \subseteq ClientStates
    BY DEF ClientStates
  <2>. QED
    BY <1>1, <1>2, <1>8, <2>1 DEF ClientStep
<1>9. UNCHANGED vars => pc' = pc
  BY DEF vars, wakerVars
<1>. QED
  BY <1>4, <1>5, <1>6, <1>7, <1>8, <1>9 DEF Next

(* Every step keeps everybody in a place of theirs.                        *)
LEMMA PlacedStep ==
    ASSUME Placed, Roles, [Next]_vars
    PROVE  Placed' /\ Roles'
<1>. USE Names
<1>1. given' \in 0 .. MaxGiven
  <2>1. CASE given' = given
    BY <2>1 DEF Placed
  <2>2. CASE Give
    BY <2>2 DEF Give, Placed
  <2>3. ASSUME NEW c \in Clients, AddTask(c) \/ StartWait(c) \/ ClientStep(c)
         PROVE  given' = given
    BY <2>3 DEF AddTask, StartWait, ClientStep, QueueTask, Signal, GiveUp, Await
  <2>4. ASSUME NEW r \in Runners,
                \/ PoolStep(r) \/ Return(r)
                \/ Idles(r) /\ UNCHANGED <<wakerVars, semVars, groupVars, given>>
         PROVE  given' = given
    BY <2>4 DEF PoolStep, Return
  <2>5. ASSUME NEW t \in Tasks, HandlerStep(t)
         PROVE  given' = given
    BY <2>5 DEF HandlerStep
  <2>6. Others \/ UNCHANGED vars => given' = given
    BY DEF Others, vars
  <2>. QED
    BY <2>1, <2>2, <2>3, <2>4, <2>5, <2>6 DEF Next, Late
<1>2. ClientStates \subseteq Places /\ HandlerStates \subseteq Places
  BY DEF Places
<1>3. CASE pc' = pc
  BY <1>1, <1>3 DEF Placed, Roles
<1>4. ASSUME NEW c \in Clients, NEW l \in ClientStates, pc' = [pc EXCEPT ![c] = l],
             c \in Waiters \/ l \in {"ready", "added", "signal", "failed"}
      PROVE  Placed' /\ Roles'
  <2>1. pc' \in [Procs -> Places] /\ \A p \in Procs : pc'[p] = IF p = c THEN l ELSE pc[p]
    BY <1>2, <1>4 DEF Placed
  <2>2. Placed'
    BY <1>1, <1>4, <2>1 DEF Placed
  <2>. QED
    BY <1>4, <2>1, <2>2 DEF Roles
<1>5. ASSUME NEW t \in Tasks, NEW l \in HandlerStates, pc' = [pc EXCEPT ![t] = l],
             t \in Acquirers \/ l = "done", l = "register" => t \in Cancellable
      PROVE  Placed' /\ Roles'
  <2>1. pc' \in [Procs -> Places] /\ \A p \in Procs : pc'[p] = IF p = t THEN l ELSE pc[p]
    BY <1>2, <1>5 DEF Placed
  <2>2. Placed'
    BY <1>1, <1>5, <2>1 DEF Placed
  <2>. QED
    BY <1>5, <2>1, <2>2 DEF Roles
<1>. QED
  BY <1>3, <1>4, <1>5, Moves

-----------------------------------------------------------------------------
(* The semaphore                                                           *)

(* A step is one of the semaphore's, or its callers only move on.          *)
MovesOn(t) ==
    \/ pc'[t] = pc[t]
    \/ pc[t] \in {"check", "register", "wait"} /\ pc'[t] \in Enqueued
    \/ pc[t] = "cancelForget" /\ pc'[t] = "isCancelled"
    \/ pc[t] = "isCancelled" /\ pc'[t] \in {"passOn", "acquire"}
    \/ pc[t] \in {"released", "thrown"} /\ pc'[t] = "done"

(* Which steps touch the semaphore's state                                 *)
LEMMA SemFrame ==
    ASSUME Placed, Roles, [Next]_vars
    PROVE  \/ \E t \in Acquirers : AcquireStep(t) /\ given' = given
           \/ Give
           \/ /\ UNCHANGED semVars /\ given' = given
              /\ \A t \in Acquirers : t \in waker' <=> t \in waker
              /\ \A t \in Tasks : MovesOn(t)
<1>. DEFINE Quiet == /\ UNCHANGED semVars /\ given' = given
                     /\ \A t \in Acquirers : t \in waker' <=> t \in waker
                     /\ \A t \in Tasks : MovesOn(t)
<1>. USE Names DEF Placed, Goto, GoOn, Leave
<1>1. ASSUME NEW c \in Clients, AddTask(c) \/ StartWait(c) \/ ClientStep(c)
      PROVE  Quiet
  <2>1. UNCHANGED semVars /\ given' = given
    BY <1>1 DEF AddTask, StartWait, ClientStep, QueueTask, Signal, GiveUp, Await
  <2>2. pc' = pc \/ \E l : pc' = [pc EXCEPT ![c] = l]
    BY <1>1 DEF AddTask, StartWait, ClientStep, QueueTask, Signal, GiveUp, Await, Add, GroupDone, GroupWait,
       GroupForget, GroupLoop, TakeWaker, Check, Wait
  <2>3. waker' = waker \/ waker' = waker \cup {c} \/ waker' = waker \ {c}
    BY <1>1 DEF AddTask, StartWait, ClientStep, QueueTask, Signal, GiveUp, Await, Add, GroupDone, GroupWait,
       GroupForget, GroupLoop, TakeWaker, Check, Wait
  <2>4. \A t \in Tasks : pc'[t] = pc[t]
    BY <2>2
  <2>. QED
    BY <2>1, <2>3, <2>4 DEF MovesOn
<1>2. ASSUME NEW t \in Tasks, HandlerStep(t)
      PROVE  Quiet \/ (t \in Acquirers /\ AcquireStep(t) /\ given' = given)
  <2>1. CASE AcquireStep(t)
    <3>1. pc[t] \notin {"released", "done"}
      BY <2>1 DEF AcquireStep, Acquire, TryAcquire, Forget, ForgetTimeout, ForgetCancelled, PassOn, Release, At
    <3>. QED
      BY <1>2, <2>1, <3>1 DEF HandlerStep, Roles
  <2>2. CASE AcquireWait(t)
    <3>1. \E l : pc' = [pc EXCEPT ![t] = l]
      BY <2>2 DEF AcquireWait, Check, Register, Wait, CancelForget, IsCancelled
    <3>2. MovesOn(t)
      BY <2>2, <3>1 DEF AcquireWait, Check, Register, Wait, CancelForget, IsCancelled, MovesOn, Enqueued, At
    <3>3. \A u \in Tasks : MovesOn(u)
      BY <3>1, <3>2 DEF MovesOn
    <3>4. waker' = waker
      BY <2>2 DEF AcquireWait, Check, Register, Wait, CancelForget, IsCancelled
    <3>. QED
      BY <1>2, <2>2, <3>3, <3>4 DEF HandlerStep, AcquireWait
  <2>3. CASE (GroupDone(t, "released", "done") \/ GroupDone(t, "thrown", "done")) /\ UNCHANGED semVars
    <3>1. pc[t] \in {"released", "thrown"} /\ pc' = [pc EXCEPT ![t] = "done"] /\ waker' = waker
      BY <2>3 DEF GroupDone, At
    <3>2. \A u \in Tasks : MovesOn(u)
      BY <3>1 DEF MovesOn
    <3>. QED
      BY <1>2, <2>3, <3>1, <3>2 DEF HandlerStep
  <2>. QED
    BY <1>2, <2>1, <2>2, <2>3 DEF HandlerStep
<1>3. ASSUME NEW r \in Runners,
             PoolStep(r) \/ Return(r) \/ (Idles(r) /\ UNCHANGED <<wakerVars, semVars, groupVars, given>>)
      PROVE  Quiet
  BY <1>3 DEF PoolStep, Return, wakerVars, MovesOn
<1>4. ASSUME NEW p \in Procs, (Wake(p) /\ Others) \/ Late(p)
      PROVE  Quiet
  BY <1>4 DEF Wake, Late, TimePasses, Others, MovesOn
<1>5. ASSUME Cancel /\ Others
      PROVE  Quiet
  BY <1>5 DEF Cancel, Others, MovesOn
<1>6. ASSUME UNCHANGED vars
      PROVE  Quiet
  BY <1>6 DEF vars, wakerVars, MovesOn
<1>. HIDE DEF Quiet
<1>7. Quiet \/ Give \/ \E t \in Acquirers : AcquireStep(t) /\ given' = given
  BY <1>1, <1>2, <1>3, <1>4, <1>5, <1>6 DEF Next
<1>. QED
  BY <1>7 DEF Quiet

Changes(t, from, to) == pc[t] = from /\ pc' = [pc EXCEPT ![t] = to]

(* What the steps of the semaphore do to it                                *)
LEMMA SemSteps ==
    ASSUME SemaphoreTypeOK, NEW t \in Acquirers, AcquireStep(t)
    PROVE  \/ /\ Changes(t, "acquire", "held") /\ available > 0 /\ available' = available - 1
              /\ waker' = waker \ {t} /\ UNCHANGED <<acquiring, dropped>>
           \/ /\ Changes(t, "acquire", "check") /\ available = 0 /\ t \in waker
              /\ acquiring' = Append(acquiring, t) /\ UNCHANGED <<available, waker, dropped>>
           \/ /\ pc[t] = "acquire" /\ available = 0 /\ t \notin waker
              /\ waker' = waker \cup {t} /\ UNCHANGED <<pc, available, acquiring, dropped>>
           \/ /\ Changes(t, "acquire", "thrown") /\ t \notin waker
              /\ UNCHANGED <<available, acquiring, waker, dropped>>
           \/ /\ Changes(t, "forget", "cancelForget") \/ Changes(t, "forget", "acquire")
                 \/ Changes(t, "forgetCancelled", "passOn")
              /\ acquiring' = RemoveFirst(acquiring, t) /\ UNCHANGED <<available, waker, dropped>>
           \/ /\ Changes(t, "forgetTimeout", "thrown")
              /\ acquiring' = RemoveFirst(acquiring, t) /\ waker' = waker \ {t} /\ UNCHANGED available
              /\ dropped' = IF Contains(acquiring, t) THEN dropped ELSE dropped + 1
           \/ /\ Changes(t, "passOn", "thrown") /\ waker' = waker \ {t} /\ UNCHANGED <<available, dropped>>
              /\ \/ (available = 0 \/ acquiring = <<>>) /\ acquiring' = acquiring
                 \/ acquiring # <<>> /\ acquiring' = Tail(acquiring)
           \/ /\ Changes(t, "held", "released") /\ available' = available + 1 /\ UNCHANGED <<waker, dropped>>
              /\ \/ acquiring = <<>> /\ acquiring' = acquiring
                 \/ acquiring # <<>> /\ acquiring' = Tail(acquiring)
<1>. USE DEF SemaphoreTypeOK, Goto, GoOn, Leave, At, Changes
<1>1. CASE Acquire(t)
  BY <1>1 DEF Acquire, TakeWaker
<1>2. CASE TryAcquire(t)
  <2>1. t \notin waker /\ waker' = waker
    BY <1>2 DEF TryAcquire
  <2>2. waker \ {t} = waker
    BY <2>1
  <2>. QED
    BY <1>2, <2>1, <2>2 DEF TryAcquire
<1>3. CASE Forget(t) \/ ForgetTimeout(t) \/ ForgetCancelled(t)
  BY <1>3 DEF Forget, ForgetTimeout, ForgetCancelled, Delist
<1>4. CASE PassOn(t)
  BY <1>4 DEF PassOn, PopAcquirer
<1>5. CASE Release(t, "held", "released")
  BY <1>5 DEF Release, PopAcquirer
<1>. QED
  BY <1>1, <1>2, <1>3, <1>4, <1>5 DEF AcquireStep

(* Give releases a permit nobody held.                                     *)
LEMMA GiveStep ==
    ASSUME Placed, Give
    PROVE  /\ available' = available + 1 /\ given' = given + 1
           /\ UNCHANGED <<pc, waker, dropped>>
           /\ \/ acquiring = <<>> /\ acquiring' = acquiring
              \/ acquiring # <<>> /\ acquiring' = Tail(acquiring)
<1>1. pc \in [Procs -> Places] /\ pc[Canceller] = "idle" /\ Canceller \in Procs
  BY Names DEF Placed
<1>2. [pc EXCEPT ![Canceller] = "idle"] = pc
  BY <1>1, Zenon
<1>. QED
  BY <1>2 DEF Give, Release, PopAcquirer, Goto

(* What becomes of the queue for a permit                                  *)
LEMMA SemQueue ==
    ASSUME SemaphoreTypeOK, NEW t \in Acquirers,
           \/ acquiring' = acquiring \/ acquiring' = Append(acquiring, t) \/ acquiring' = RemoveFirst(acquiring, t)
           \/ acquiring # <<>> /\ acquiring' = Tail(acquiring)
    PROVE  acquiring' \in Seq(Acquirers)
<1>1. acquiring \in Seq(Acquirers)
  BY DEF SemaphoreTypeOK
<1>2. Append(acquiring, t) \in Seq(Acquirers)
  BY <1>1, AppendFacts
<1>3. RemoveFirst(acquiring, t) \in Seq(Acquirers)
  BY <1>1, RemoveFacts
<1>4. acquiring # <<>> => Tail(acquiring) \in Seq(Acquirers)
  BY <1>1, TailFacts
<1>. QED
  BY <1>1, <1>2, <1>3, <1>4

(* Every step keeps the semaphore's types: no permit is taken when there   *)
(* is none.                                                                *)
LEMMA SemaphoreTypedStep ==
    ASSUME Placed, Roles, SemaphoreTypeOK, [Next]_vars
    PROVE  SemaphoreTypeOK'
<1>1. ASSUME NEW t \in Acquirers, AcquireStep(t)
      PROVE  SemaphoreTypeOK'
  <2>1. acquiring' \in Seq(Acquirers)
    BY <1>1, SemSteps, SemQueue
  <2>2. /\ \/ available' = available \/ available' = available + 1
           \/ available > 0 /\ available' = available - 1
        /\ dropped' = dropped \/ dropped' = dropped + 1
    BY <1>1, SemSteps
  <2>3. available' \in Nat /\ dropped' \in Nat
    BY <2>2 DEF SemaphoreTypeOK
  <2>. QED
    BY <2>1, <2>3 DEF SemaphoreTypeOK
<1>2. ASSUME Give
      PROVE  SemaphoreTypeOK'
  <2>1. acquiring' \in Seq(Acquirers)
    BY <1>2, GiveStep, TailFacts DEF SemaphoreTypeOK
  <2>. QED
    BY <1>2, <2>1, GiveStep DEF SemaphoreTypeOK
<1>3. UNCHANGED semVars => SemaphoreTypeOK'
  BY DEF semVars, SemaphoreTypeOK
<1>. QED
  BY <1>1, <1>2, <1>3, SemFrame

(* Every step keeps who is in the queue for a permit, and where.           *)
LEMMA AcquirersListedStep ==
    ASSUME Placed, Roles, SemaphoreTypeOK, AcquirersListed, [Next]_vars
    PROVE  AcquirersListed'
<1>. USE Names
<1>1. acquiring \in Seq(Acquirers) /\ Once(acquiring)
  BY DEF SemaphoreTypeOK, AcquirersListed
<1>2. /\ pc \in [Procs -> Places] /\ Acquirers \subseteq Procs
      /\ \A p \in Acquirers : Contains(acquiring, p) => p \in waker /\ pc[p] \in Enqueued
      /\ \A p \in Acquirers : p \in waker =>
            pc[p] \in Enqueued \cup {"acquire", "cancelForget", "isCancelled", "passOn"}
  BY DEF Placed, AcquirersListed
<1>3. acquiring # <<>> => Once(Tail(acquiring)) /\ \A p : Contains(Tail(acquiring), p) => Contains(acquiring, p)
  BY <1>1, TailFacts
<1>4. ASSUME NEW t \in Acquirers, AcquireStep(t)
      PROVE  AcquirersListed'
  <2>1. CASE Changes(t, "acquire", "check") /\ t \in waker /\ acquiring' = Append(acquiring, t) /\ waker' = waker
    <3>1. ~Contains(acquiring, t)
      BY <1>2, <2>1 DEF Changes, Enqueued
    <3>2. Once(acquiring') /\ \A p : Contains(acquiring', p) <=> Contains(acquiring, p) \/ p = t
      BY <1>1, <2>1, <3>1, AppendFacts
    <3>. QED
      BY <1>2, <2>1, <3>2 DEF AcquirersListed, Changes, Enqueued
  <2>2. CASE \/ Changes(t, "forget", "cancelForget") \/ Changes(t, "forget", "acquire")
             \/ Changes(t, "forgetCancelled", "passOn") \/ Changes(t, "forgetTimeout", "thrown")
    <3>1. acquiring' = RemoveFirst(acquiring, t) /\ (waker' = waker \/ waker' = waker \ {t})
          /\ (Changes(t, "forgetTimeout", "thrown") => waker' = waker \ {t})
      BY <1>4, <2>2, SemSteps DEF Changes
    <3>2. /\ Once(acquiring') /\ ~Contains(acquiring', t)
          /\ \A p : Contains(acquiring', p) => Contains(acquiring, p)
      BY <1>1, <3>1, RemoveFacts
    <3>. QED
      BY <1>2, <2>2, <3>1, <3>2 DEF AcquirersListed, Changes, Enqueued
  <2>3. CASE /\ \/ Changes(t, "acquire", "held") /\ waker' = waker \ {t}
                \/ pc[t] = "acquire" /\ pc' = pc /\ waker' = waker \cup {t}
                \/ Changes(t, "acquire", "thrown") /\ t \notin waker /\ waker' = waker
                \/ Changes(t, "passOn", "thrown") /\ waker' = waker \ {t}
                \/ Changes(t, "held", "released") /\ waker' = waker
             /\ acquiring' = acquiring \/ (acquiring # <<>> /\ acquiring' = Tail(acquiring))
    <3>1. Once(acquiring') /\ \A p : Contains(acquiring', p) => Contains(acquiring, p)
      BY <1>1, <1>3, <2>3
    <3>2. pc[t] \in {"acquire", "passOn", "held"} /\ ~Contains(acquiring, t)
      BY <1>2, <2>3 DEF Changes, Enqueued
    <3>. QED
      BY <1>2, <2>3, <3>1, <3>2 DEF AcquirersListed, Changes, Enqueued
  <2>. QED
    BY <1>4, <2>1, <2>2, <2>3, SemSteps
<1>5. ASSUME Give
      PROVE  AcquirersListed'
  <2>1. Once(acquiring') /\ \A p : Contains(acquiring', p) => Contains(acquiring, p)
    BY <1>1, <1>3, <1>5, GiveStep
  <2>. QED
    BY <1>2, <1>5, <2>1, GiveStep DEF AcquirersListed
<1>6. ASSUME UNCHANGED semVars, \A t \in Acquirers : t \in waker' <=> t \in waker, \A t \in Tasks : MovesOn(t)
      PROVE  AcquirersListed'
  BY <1>1, <1>2, <1>6 DEF AcquirersListed, semVars, MovesOn, Enqueued
<1>. QED
  BY <1>4, <1>5, <1>6, SemFrame

(* Every step keeps the sum of permits.                                    *)
LEMMA PermitsCountedStep ==
    ASSUME Placed, Roles, SemaphoreTypeOK, PermitsCounted, [Next]_vars
    PROVE  PermitsCounted'
<1>. USE Names
<1>1. IsFiniteSet(Holders) /\ Cardinality(Holders) \in Nat
  <2>1. Holders \in SUBSET Tasks
    BY DEF Holders
  <2>. QED
    BY <2>1, FinitePeople
<1>2. /\ pc \in [Procs -> Places] /\ available \in Nat /\ given \in Nat /\ Permits \in Nat
      /\ available + Cardinality(Holders) = Permits + given
  BY DEF Placed, SemaphoreTypeOK, PermitsCounted
<1>3. ASSUME NEW t \in Acquirers, AcquireStep(t), given' = given
      PROVE  PermitsCounted'
  <2>1. CASE Changes(t, "acquire", "held") /\ available' = available - 1
    <3>1. Holders' = Holders \cup {t} /\ t \notin Holders
      BY <1>2, <2>1 DEF Changes, Holders
    <3>2. Cardinality(Holders') = Cardinality(Holders) + 1
      BY <1>1, <3>1, OneMore
    <3>. QED
      BY <1>1, <1>2, <1>3, <2>1, <3>2 DEF PermitsCounted
  <2>2. CASE Changes(t, "held", "released") /\ available' = available + 1
    <3>1. Holders' = Holders \ {t} /\ t \in Holders
      BY <1>2, <2>2 DEF Changes, Holders
    <3>2. Cardinality(Holders') = Cardinality(Holders) - 1
      BY <1>1, <3>1, OneLess
    <3>. QED
      BY <1>1, <1>2, <1>3, <2>2, <3>2 DEF PermitsCounted
  <2>3. CASE available' = available /\ \A u \in Tasks : pc'[u] = "held" <=> pc[u] = "held"
    <3>1. Holders' = Holders
      BY <2>3 DEF Holders
    <3>. QED
      BY <1>2, <1>3, <2>3, <3>1 DEF PermitsCounted
  <2>4. \/ Changes(t, "acquire", "held") /\ available' = available - 1
        \/ Changes(t, "held", "released") /\ available' = available + 1
        \/ /\ available' = available
           /\ \/ pc' = pc
              \/ \E from, to : from # "held" /\ to # "held" /\ Changes(t, from, to)
    BY <1>3, SemSteps
  <2>5. ASSUME NEW from, NEW to, from # "held", to # "held", Changes(t, from, to)
        PROVE  \A u \in Tasks : pc'[u] = "held" <=> pc[u] = "held"
    BY <1>2, <2>5 DEF Changes
  <2>. QED
    BY <2>1, <2>2, <2>3, <2>4, <2>5
<1>4. ASSUME Give
      PROVE  PermitsCounted'
  <2>1. Holders' = Holders
    BY <1>4, GiveStep DEF Holders
  <2>2. available' = available + 1 /\ given' = given + 1
    BY <1>4, GiveStep
  <2>. QED
    BY <1>1, <1>2, <2>1, <2>2 DEF PermitsCounted
<1>5. ASSUME UNCHANGED semVars, given' = given, \A t \in Tasks : MovesOn(t)
      PROVE  PermitsCounted'
  <2>1. Holders' = Holders
    BY <1>5 DEF Holders, MovesOn, Enqueued
  <2>. QED
    BY <1>5, <2>1 DEF PermitsCounted, semVars
<1>. QED
  BY <1>3, <1>4, <1>5, SemFrame

(* A finite set without somebody who may be in it                          *)
LEMMA OneLessOrNone ==
    ASSUME NEW s, IsFiniteSet(s), NEW t
    PROVE  IsFiniteSet(s \ {t}) /\ Cardinality(s \ {t}) \in Nat /\ Cardinality(s \ {t}) >= Cardinality(s) - 1
<1>1. IsFiniteSet(s \ {t}) /\ Cardinality(s \ {t}) \in Nat
  BY FS_RemoveElement, FS_CardinalityType
<1>2. CASE t \in s
  BY <1>1, <1>2, OneLess
<1>3. CASE t \notin s
  <2>1. s \ {t} = s
    BY <1>3
  <2>. QED
    BY <1>1, <2>1
<1>. QED
  BY <1>2, <1>3

(* The first one in the queue, and the queue without it                    *)
LEMMA PoppedFacts ==
    ASSUME acquiring \in Seq(Acquirers), Once(acquiring), acquiring # <<>>, acquiring' = Tail(acquiring)
    PROVE  /\ Head(acquiring) \in Acquirers
           /\ \A p : Contains(acquiring, p) <=> Contains(acquiring', p) \/ p = Head(acquiring)
           /\ ~Contains(acquiring', Head(acquiring))
<1>1. /\ Head(acquiring) \in Acquirers
      /\ \A p : Contains(acquiring, p) <=> Contains(Tail(acquiring), p) \/ p = Head(acquiring)
  BY TailFacts
<1>2. ~Contains(Tail(acquiring), Head(acquiring))
  BY TailFacts
<1>. QED
  BY <1>1, <1>2

(* Every step keeps a caller called for every permit that is free: one that*)
(* takes a permit, or whose wake is dropped, is counted down, and a permit *)
(* that is released or handed on calls the first one that waits.           *)
LEMMA PermitsCalledStep ==
    ASSUME Placed, Roles, SemaphoreTypeOK, AcquirersListed, PermitsCalled, [Next]_vars
    PROVE  PermitsCalled'
<1>. USE Names
<1>1. /\ acquiring \in Seq(Acquirers) /\ Once(acquiring) /\ available \in Nat /\ dropped \in Nat
      /\ \A p \in Acquirers : Contains(acquiring, p) => p \in waker /\ pc[p] \in Enqueued
  BY DEF SemaphoreTypeOK, AcquirersListed
<1>2. /\ \A s \in SUBSET Acquirers : IsFiniteSet(s) /\ Cardinality(s) \in Nat
      /\ Called \in SUBSET Acquirers /\ Called' \in SUBSET Acquirers
  <2>1. \A s \in SUBSET Acquirers : s \in SUBSET Tasks
    OBVIOUS
  <2>. QED
    BY <2>1, FinitePeople DEF Called
<1>3. IsFiniteSet(Called) /\ Cardinality(Called) \in Nat /\ IsFiniteSet(Called') /\ Cardinality(Called') \in Nat
  BY <1>2
<1>4. acquiring # <<>> => available <= Cardinality(Called) + dropped
  BY DEF PermitsCalled
(* One more is called: the first, who was in the queue.                    *)
<1>5. ASSUME acquiring # <<>>, acquiring' = Tail(acquiring), waker' = waker
      PROVE  Cardinality(Called') = Cardinality(Called) + 1
  <2>1. /\ Head(acquiring) \in Acquirers
        /\ \A p : Contains(acquiring, p) <=> Contains(acquiring', p) \/ p = Head(acquiring)
        /\ ~Contains(acquiring', Head(acquiring))
    <3>1. acquiring \in Seq(Acquirers) /\ Once(acquiring)
      BY <1>1
    <3>. QED
      BY ONLY <3>1, <1>5, PoppedFacts
  <2>2. Called' = Called \cup {Head(acquiring)} /\ Head(acquiring) \notin Called
    <3>1. \A p \in Acquirers : p \in Called' <=> p \in Called \/ (p = Head(acquiring) /\ p \in waker)
      BY <1>5, <2>1 DEF Called
    <3>2. Contains(acquiring, Head(acquiring)) /\ Head(acquiring) \in waker
      BY <1>1, <2>1
    <3>3. Head(acquiring) \notin Called
      BY <3>2 DEF Called
    <3>4. Called \in SUBSET Acquirers /\ Called' \in SUBSET Acquirers
      BY <1>2
    <3>. QED
      BY ONLY <2>1, <3>1, <3>2, <3>3, <3>4
  <2>. QED
    BY <1>3, <2>2, OneMore
<1>6. ASSUME NEW t \in Acquirers, AcquireStep(t)
      PROVE  PermitsCalled'
  <2>1. CASE Changes(t, "acquire", "held") /\ available > 0 /\ available' = available - 1
             /\ waker' = waker \ {t} /\ UNCHANGED <<acquiring, dropped>>
    <3>1. ~Contains(acquiring, t)
      BY <1>1, <2>1 DEF Changes, Enqueued
    <3>2. CASE t \in waker
      <4>1. Called' = Called \ {t} /\ t \in Called
        BY <2>1, <3>1, <3>2 DEF Called
      <4>2. Cardinality(Called') = Cardinality(Called) - 1
        BY <1>3, <4>1, OneLess
      <4>. QED
        BY <1>1, <1>3, <1>4, <2>1, <4>2 DEF PermitsCalled
    <3>3. CASE t \notin waker
      <4>1. Called' = Called
        BY <2>1, <3>3 DEF Called
      <4>. QED
        BY <1>1, <1>3, <1>4, <2>1, <4>1 DEF PermitsCalled
    <3>. QED
      BY <3>2, <3>3
  <2>2. CASE available' = 0
    BY <1>1, <1>3, <2>2, SemaphoreTypedStep DEF PermitsCalled, SemaphoreTypeOK
  <2>3. CASE UNCHANGED <<available, acquiring, waker, dropped>>
    <3>1. Called' = Called
      BY <2>3 DEF Called
    <3>. QED
      BY <1>4, <2>3, <3>1 DEF PermitsCalled
  <2>4. CASE acquiring' = RemoveFirst(acquiring, t) /\ UNCHANGED <<available, waker, dropped>>
    <3>1. ~Contains(acquiring', t) /\ (acquiring = <<>> => acquiring' = <<>>)
          /\ \A p : p # t => (Contains(acquiring', p) <=> Contains(acquiring, p))
      BY <1>1, <2>4, RemoveFacts, EmptyFacts
    <3>2. Called \subseteq Called'
      BY <2>4, <3>1 DEF Called
    <3>3. Cardinality(Called) <= Cardinality(Called')
      BY <1>3, <3>2, FS_Subset
    <3>. QED
      BY <1>1, <1>3, <1>4, <2>4, <3>1, <3>3 DEF PermitsCalled
  <2>5. CASE /\ acquiring' = RemoveFirst(acquiring, t) /\ waker' = waker \ {t} /\ available' = available
             /\ dropped' = IF Contains(acquiring, t) THEN dropped ELSE dropped + 1
    <3>1. ~Contains(acquiring', t) /\ (acquiring = <<>> => acquiring' = <<>>)
          /\ \A p : p # t => (Contains(acquiring', p) <=> Contains(acquiring, p))
      BY <1>1, <2>5, RemoveFacts, EmptyFacts
    <3>2. Called' = Called \ {t}
      BY <2>5, <3>1 DEF Called
    <3>3. CASE Contains(acquiring, t)
      <4>1. Called' = Called
        BY <3>2, <3>3 DEF Called
      <4>. QED
        BY <1>4, <2>5, <3>1, <3>3, <4>1 DEF PermitsCalled
    <3>4. CASE ~Contains(acquiring, t)
      <4>1. Cardinality(Called') >= Cardinality(Called) - 1
        BY <1>3, <3>2, OneLessOrNone
      <4>. QED
        BY <1>1, <1>3, <1>4, <2>5, <3>1, <3>4, <4>1 DEF PermitsCalled
    <3>. QED
      BY <3>3, <3>4
  <2>6. CASE /\ Changes(t, "passOn", "thrown") /\ waker' = waker \ {t} /\ UNCHANGED <<available, dropped>>
             /\ acquiring # <<>> /\ acquiring' = Tail(acquiring)
    <3>1. ~Contains(acquiring, t)
      BY <1>1, <2>6 DEF Changes, Enqueued
    <3>2. /\ Head(acquiring) \in Acquirers
          /\ \A p : Contains(acquiring, p) <=> Contains(acquiring', p) \/ p = Head(acquiring)
          /\ ~Contains(acquiring', Head(acquiring))
      <4>1. acquiring \in Seq(Acquirers) /\ Once(acquiring)
        BY <1>1
      <4>. QED
        BY ONLY <4>1, <2>6, PoppedFacts
    <3>a. Head(acquiring) # t
      BY <3>1, <3>2
    <3>3. Called' = (Called \ {t}) \cup {Head(acquiring)} /\ Head(acquiring) \notin Called \ {t}
      BY <1>1, <2>6, <3>2, <3>a DEF Called
    <3>4. IsFiniteSet(Called \ {t}) /\ Cardinality(Called \ {t}) >= Cardinality(Called) - 1
      BY <1>3, OneLessOrNone
    <3>5. Cardinality(Called') = Cardinality(Called \ {t}) + 1
      BY <3>3, <3>4, OneMore
    <3>6. Cardinality(Called \ {t}) \in Nat
      BY <3>4, FS_CardinalityType
    <3>. QED
      BY <1>1, <1>3, <1>4, <2>6, <3>4, <3>5, <3>6 DEF PermitsCalled
  <2>7. CASE acquiring = <<>> /\ acquiring' = acquiring
    BY <2>7 DEF PermitsCalled
  <2>8. CASE /\ available' = available + 1 /\ UNCHANGED <<waker, dropped>>
             /\ acquiring # <<>> /\ acquiring' = Tail(acquiring)
    BY <1>1, <1>3, <1>4, <1>5, <2>8 DEF PermitsCalled
  <2>. QED
    BY <1>6, <2>1, <2>2, <2>3, <2>4, <2>5, <2>6, <2>7, <2>8, SemSteps
<1>7. ASSUME Give
      PROVE  PermitsCalled'
  <2>1. CASE acquiring = <<>> /\ acquiring' = acquiring
    BY <2>1 DEF PermitsCalled
  <2>2. CASE acquiring # <<>> /\ acquiring' = Tail(acquiring)
    BY <1>1, <1>3, <1>4, <1>5, <1>7, <2>2, GiveStep DEF PermitsCalled
  <2>. QED
    BY <1>7, <2>1, <2>2, GiveStep
<1>8. ASSUME UNCHANGED semVars, \A t \in Acquirers : t \in waker' <=> t \in waker
      PROVE  PermitsCalled'
  <2>1. Called' = Called
    BY <1>8 DEF Called, semVars
  <2>. QED
    BY <1>4, <1>8, <2>1 DEF PermitsCalled, semVars
<1>. QED
  BY <1>6, <1>7, <1>8, SemFrame

(* Who was called is on its way to the permits.                            *)
LEMMA CalledCome ==
    ASSUME AcquirersListed, PermitsCalled, SemaphoreTypeOK
    PROVE  PermitsAttended
<1>. DEFINE C == {p \in Acquirers : Coming(p)}
<1>1. Called \subseteq C
  BY DEF Called, AcquirersListed, Coming, Enqueued
<1>2. C \in SUBSET Tasks /\ Called \in SUBSET Tasks
  BY Names DEF Called
<1>3. IsFiniteSet(C) /\ Cardinality(C) \in Nat /\ Cardinality(Called) \in Nat
  BY <1>2, FinitePeople
<1>4. Cardinality(Called) <= Cardinality(C)
  BY <1>1, <1>3, FS_Subset
<1>. HIDE DEF C
<1>5. acquiring # <<>> => available <= Cardinality(C) + dropped
  BY <1>3, <1>4 DEF PermitsCalled, SemaphoreTypeOK
<1>. QED
  BY <1>5 DEF PermitsAttended, C

-----------------------------------------------------------------------------
(* Wakes on their way                                                      *)

(* Wakes are handed to whoever ends a lock block, who had none left, sent  *)
(* one by one, and consumed by the caller they are for.                    *)
HandedOut ==
    \E p \in Procs, s \in Seq(Procs) :
        toWake[p] = <<>> /\ toWake' = [toWake EXCEPT ![p] = s] /\ pending' = pending

Consumed ==
    \E p \in Procs : /\ toWake' = toWake /\ pending' = pending \ {p}
                     /\ p \in Waiters => pc[p] = "count" \/ pc'[p] = "forget"

(* What a step does with wakes                                             *)
LEMMA WakesMove ==
    ASSUME Placed, Roles, WakersTypeOK, SemaphoreTypeOK, WaitGroupTypeOK, [Next]_vars
    PROVE  UNCHANGED <<toWake, pending>> \/ HandedOut \/ Consumed \/ \E p \in Procs : Wake(p)
<1>. USE Names DEF Goto, GoOn, Leave
<1>0. /\ awaiting \in Seq(Procs) /\ watchers \in Seq(Procs)
      /\ acquiring # <<>> => <<Head(acquiring)>> \in Seq(Procs)
  <2>1. acquiring # <<>> => Head(acquiring) \in Procs
    BY TailFacts DEF SemaphoreTypeOK
  <2>2. awaiting \in Seq(Waiters) /\ Waiters \subseteq Procs /\ watchers \in Seq(Cancellable)
    BY DEF WakersTypeOK, WaitGroupTypeOK
  <2>3. Cancellable \subseteq Procs
    OBVIOUS
  <2>4. awaiting \in Seq(Procs)
    BY ONLY <2>2, Widened
  <2>5. watchers \in Seq(Procs)
    BY ONLY <2>2, <2>3, Widened
  <2>6. acquiring # <<>> => <<Head(acquiring)>> \in Seq(Procs)
    BY <2>1
  <2>. QED
    BY <2>4, <2>5, <2>6
<1>1. ASSUME NEW c \in Clients, AddTask(c) \/ StartWait(c) \/ QueueTask(c) \/ Signal(c) \/ Await(c)
      PROVE  UNCHANGED <<toWake, pending>>
  BY <1>1 DEF AddTask, Add, StartWait, QueueTask, Signal, Await
<1>2. ASSUME NEW p \in Procs, NEW from, NEW to, GroupDone(p, from, to)
      PROVE  UNCHANGED <<toWake, pending>> \/ HandedOut
  <2>1. UNCHANGED <<toWake, pending>> \/
        (toWake[p] = <<>> /\ toWake' = [toWake EXCEPT ![p] = awaiting] /\ pending' = pending)
    BY <1>2 DEF GroupDone, At
  <2>. QED
    BY <1>0, <2>1 DEF HandedOut
<1>3. ASSUME NEW c \in Clients, GroupWait(c) \/ GroupForget(c) \/ GroupLoop(c)
      PROVE  UNCHANGED <<toWake, pending>> \/ Consumed
  <2>1. \/ UNCHANGED <<toWake, pending>>
        \/ toWake' = toWake /\ pending' = pending \ {c} /\ (pc[c] = "count" \/ pc' = [pc EXCEPT ![c] = "forget"])
    BY <1>3 DEF GroupWait, GroupForget, GroupLoop, Check, Wait, TakeWaker, At
  <2>. QED
    BY <2>1 DEF Consumed, Placed
<1>4. ASSUME NEW t \in Tasks, AcquireWait(t)
      PROVE  UNCHANGED <<toWake, pending>> \/ Consumed
  <2>1. toWake' = toWake /\ (pending' = pending \/ pending' = pending \ {t})
    BY <1>4 DEF AcquireWait, Check, Register, Wait, CancelForget, IsCancelled
  <2>. QED
    BY <2>1 DEF Consumed
<1>5. ASSUME NEW p \in Procs, PopAcquirer(p), toWake[p] = <<>>, pending' = pending
      PROVE  UNCHANGED <<toWake, pending>> \/ HandedOut
  BY <1>0, <1>5 DEF PopAcquirer, HandedOut
<1>6. ASSUME NEW t \in Tasks, AcquireStep(t)
      PROVE  UNCHANGED <<toWake, pending>> \/ Consumed \/ HandedOut
  <2>1. CASE Acquire(t) \/ TryAcquire(t) \/ Forget(t) \/ ForgetTimeout(t) \/ ForgetCancelled(t)
    <3>1. toWake' = toWake /\ (pending' = pending \/ pending' = pending \ {t})
      BY <2>1 DEF Acquire, TryAcquire, Forget, ForgetTimeout, ForgetCancelled, TakeWaker
    <3>. QED
      BY <3>1 DEF Consumed
  <2>2. CASE PassOn(t)
    BY <1>5, <2>2 DEF PassOn, At
  <2>3. CASE Release(t, "held", "released")
    BY <1>5, <2>3 DEF Release, At
  <2>. QED
    BY <1>6, <2>1, <2>2, <2>3 DEF AcquireStep
<1>7. ASSUME NEW t \in Tasks, HandlerStep(t)
      PROVE  UNCHANGED <<toWake, pending>> \/ Consumed \/ HandedOut
  BY <1>2, <1>4, <1>6, <1>7 DEF HandlerStep
<1>8. ASSUME NEW c \in Clients, ClientStep(c)
      PROVE  UNCHANGED <<toWake, pending>> \/ Consumed \/ HandedOut
  BY <1>1, <1>2, <1>3, <1>8 DEF ClientStep, GiveUp
<1>9. Give => UNCHANGED <<toWake, pending>> \/ HandedOut
  BY <1>5 DEF Give, Release, At
<1>10. Cancel => HandedOut
  BY <1>0 DEF Cancel, HandedOut, At
<1>11. ASSUME NEW p \in Procs, Late(p)
       PROVE  UNCHANGED <<toWake, pending>>
  BY <1>11 DEF Late, TimePasses
<1>12. ASSUME NEW r \in Runners,
              PoolStep(r) \/ Return(r) \/ (Idles(r) /\ UNCHANGED <<wakerVars, semVars, groupVars, given>>)
       PROVE  UNCHANGED <<toWake, pending>>
  BY <1>12 DEF PoolStep, Return, wakerVars
<1>13. UNCHANGED vars => UNCHANGED <<toWake, pending>>
  BY DEF vars, wakerVars
<1>. QED
  BY <1>1, <1>7, <1>8, <1>9, <1>10, <1>11, <1>12, <1>13 DEF Next

(* A wake on its way to somebody in wait stays on its way until it ends    *)
(* that wait.                                                              *)
LEMMA InFlightKept ==
    ASSUME Placed, Roles, WakersTypeOK, SemaphoreTypeOK, WaitGroupTypeOK, [Next]_vars,
           NEW p \in Waiters, InFlight(p)
    PROVE  InFlight(p)' \/ pc[p] = "count" \/ pc'[p] = "forget"
<1>. USE Names
<1>1. toWake \in [Procs -> Seq(Procs)]
  BY DEF WakersTypeOK
<1>2. CASE UNCHANGED <<toWake, pending>>
  BY <1>2 DEF InFlight
<1>3. CASE HandedOut
  <2>1. PICK q \in Procs, s \in Seq(Procs) :
            toWake[q] = <<>> /\ toWake' = [toWake EXCEPT ![q] = s] /\ pending' = pending
    BY <1>3 DEF HandedOut
  <2>2. \A u \in Procs : Contains(toWake[u], p) => Contains(toWake'[u], p)
    BY <1>1, <2>1, EmptyFacts
  <2>. QED
    BY <2>1, <2>2 DEF InFlight
<1>4. CASE Consumed
  BY <1>4 DEF Consumed, InFlight
<1>5. ASSUME NEW q \in Procs, Wake(q)
      PROVE  InFlight(p)'
  <2>1. /\ toWake[q] # <<>> /\ toWake[q] \in Seq(Procs)
        /\ pending' = pending \cup {Head(toWake[q])} /\ toWake' = [toWake EXCEPT ![q] = Tail(toWake[q])]
    BY <1>1, <1>5 DEF Wake
  <2>2. Contains(toWake[q], p) => Contains(Tail(toWake[q]), p) \/ p = Head(toWake[q])
    BY <2>1, TailFacts
  <2>3. \A u \in Procs : Contains(toWake[u], p) => Contains(toWake'[u], p) \/ p \in pending'
    BY <1>1, <2>1, <2>2
  <2>. QED
    BY <2>1, <2>3 DEF InFlight
<1>. QED
  BY <1>2, <1>3, <1>4, <1>5, WakesMove

(* Every step keeps the types of wakers and token.                         *)
LEMMA WakersTypedStep ==
    ASSUME Placed, Roles, WakersTypeOK, SemaphoreTypeOK, WaitGroupTypeOK, [Next]_vars
    PROVE  WakersTypeOK'
<1>. USE Names
<1>1. /\ waker \in SUBSET Procs /\ pending \in SUBSET Procs /\ late \in SUBSET Timed
      /\ toWake \in [Procs -> Seq(Procs)] /\ cancelled \in BOOLEAN /\ watchers \in Seq(Cancellable)
  BY DEF WakersTypeOK
<1>2. toWake' \in [Procs -> Seq(Procs)] /\ pending' \in SUBSET Procs
  <2>1. ASSUME NEW p \in Procs, Wake(p)
        PROVE  toWake' \in [Procs -> Seq(Procs)] /\ pending' \in SUBSET Procs
    <3>1. /\ toWake[p] # <<>> /\ toWake[p] \in Seq(Procs)
          /\ pending' = pending \cup {Head(toWake[p])} /\ toWake' = [toWake EXCEPT ![p] = Tail(toWake[p])]
      BY <1>1, <2>1 DEF Wake
    <3>2. Head(toWake[p]) \in Procs /\ Tail(toWake[p]) \in Seq(Procs)
      BY <3>1, TailFacts
    <3>. QED
      BY <1>1, <3>1, <3>2
  <2>2. CASE HandedOut
    BY <1>1, <2>2 DEF HandedOut
  <2>3. CASE Consumed
    BY <1>1, <2>3 DEF Consumed
  <2>4. CASE UNCHANGED <<toWake, pending>>
    BY <1>1, <2>4
  <2>. QED
    BY <2>1, <2>2, <2>3, <2>4, WakesMove
<1>. DEFINE Kept(p) == /\ waker' \in {waker, waker \cup {p}, waker \ {p}}
                       /\ late' \in {late, late \ {p}} \/ (p \in Timed /\ late' = late \cup {p})
                       /\ cancelled' \in {cancelled, TRUE}
                       /\ \/ watchers' \in {watchers, <<>>, RemoveFirst(watchers, p)}
                          \/ p \in Cancellable /\ watchers' = Append(watchers, p)
<1>3. \E p \in Procs : Kept(p)
  <2>. USE DEF Goto, GoOn, Leave, token
  <2>1. ASSUME NEW c \in Clients, AddTask(c) \/ StartWait(c) \/ QueueTask(c) \/ Signal(c) \/ GiveUp(c) \/ Await(c)
        PROVE  Kept(c)
    BY <2>1 DEF AddTask, Add, StartWait, QueueTask, Signal, GiveUp, Await, GroupDone
  <2>2. ASSUME NEW c \in Clients, GroupWait(c) \/ GroupForget(c) \/ GroupLoop(c)
        PROVE  Kept(c)
    BY <2>2 DEF GroupWait, GroupForget, GroupLoop, Check, Wait, TakeWaker
  <2>3. ASSUME NEW t \in Tasks, HandlerStep(t)
        PROVE  Kept(t)
    <3>1. CASE AcquireStep(t)
      BY <3>1 DEF AcquireStep, Acquire, TryAcquire, Forget, ForgetTimeout, ForgetCancelled, PassOn, Release, TakeWaker
    <3>2. CASE AcquireWait(t)
      <4>1. pc[t] = "register" => t \in Cancellable
        BY DEF Roles
      <4>. QED
        BY <3>2, <4>1 DEF AcquireWait, Check, Register, Wait, CancelForget, IsCancelled, At
    <3>3. CASE GroupDone(t, "released", "done") \/ GroupDone(t, "thrown", "done")
      BY <3>3 DEF GroupDone
    <3>. QED
      BY <2>3, <3>1, <3>2, <3>3 DEF HandlerStep
  <2>4. ASSUME NEW p \in Procs, Wake(p) \/ Late(p)
        PROVE  Kept(p)
    BY <2>4 DEF Wake, Late, TimePasses
  <2>5. ASSUME Give \/ Cancel
        PROVE  Kept(Canceller)
    BY <2>5 DEF Give, Release, Cancel
  <2>6. ASSUME UNCHANGED wakerVars
        PROVE  Kept(Canceller)
    BY <2>6 DEF wakerVars
  <2>. HIDE DEF Kept
  <2>7. ASSUME NEW r \in Runners,
               PoolStep(r) \/ Return(r) \/ (Idles(r) /\ UNCHANGED <<wakerVars, semVars, groupVars, given>>)
        PROVE  Kept(Canceller)
    <3>1. UNCHANGED wakerVars
      BY <2>7 DEF PoolStep, Return
    <3>. QED
      BY <2>6, <3>1
  <2>8. UNCHANGED vars => Kept(Canceller)
    <3>1. UNCHANGED vars => UNCHANGED wakerVars
      BY DEF vars
    <3>. QED
      BY <2>6, <3>1
  <2>9. ASSUME NEW c \in Clients, AddTask(c) \/ StartWait(c) \/ ClientStep(c)
        PROVE  Kept(c)
    BY <2>1, <2>2, <2>9 DEF ClientStep
  <2>. QED
    BY <2>3, <2>4, <2>5, <2>7, <2>8, <2>9 DEF Next
<1>4. PICK p \in Procs : Kept(p)
  BY <1>3
<1>5. watchers' \in Seq(Cancellable)
  <2>1. RemoveFirst(watchers, p) \in Seq(Cancellable)
    BY <1>1, RemoveFacts
  <2>2. p \in Cancellable => Append(watchers, p) \in Seq(Cancellable)
    BY <1>1, AppendFacts
  <2>3. \/ watchers' = watchers \/ watchers' = <<>> \/ watchers' = RemoveFirst(watchers, p)
        \/ p \in Cancellable /\ watchers' = Append(watchers, p)
    BY <1>4
  <2>4. watchers \in Seq(Cancellable) /\ <<>> \in Seq(Cancellable)
    BY <1>1
  <2>. HIDE DEF Kept
  <2>. QED
    BY <2>1, <2>2, <2>3, <2>4
<1>6. waker' \in SUBSET Procs /\ late' \in SUBSET Timed /\ cancelled' \in BOOLEAN
  BY <1>1, <1>4
<1>. HIDE DEF Kept
<1>. QED
  BY <1>2, <1>5, <1>6 DEF WakersTypeOK

-----------------------------------------------------------------------------
(* The group's waiters                                                     *)

(* A step is one of the group's, or those in wait only move on.            *)
LEMMA GroupSteps ==
    ASSUME Placed, Roles, [Next]_vars
    PROVE  \/ \E p \in Procs, from, to \in Places :
                 /\ GroupDone(p, from, to)
                 /\ from \in {"failed", "released", "thrown"} /\ to \in {"ready", "done"}
           \/ \E c \in Waiters : GroupWait(c) \/ GroupForget(c) \/ GroupLoop(c)
           \/ /\ awaiting' = awaiting /\ count' \in {count, count + 1}
              /\ \A c \in Waiters : \/ pc'[c] = pc[c]
                                    \/ pc'[c] \notin {"check", "wait"}
                                       /\ pc[c] \notin {"check", "wait", "forget", "forgetTimeout"}
<1>. DEFINE Quiet == /\ awaiting' = awaiting /\ count' \in {count, count + 1}
                     /\ \A c \in Waiters : \/ pc'[c] = pc[c]
                                           \/ pc'[c] \notin {"check", "wait"}
                                              /\ pc[c] \notin {"check", "wait", "forget", "forgetTimeout"}
            Done == \E p \in Procs, from, to \in Places :
                       /\ GroupDone(p, from, to)
                       /\ from \in {"failed", "released", "thrown"} /\ to \in {"ready", "done"}
<1>. USE Names DEF Placed, Goto, GoOn
<1>1. ASSUME NEW c \in Clients, AddTask(c) \/ StartWait(c) \/ QueueTask(c) \/ Signal(c) \/ Await(c)
      PROVE  Quiet
  <2>1. awaiting' = awaiting /\ count' \in {count, count + 1}
    BY <1>1 DEF AddTask, Add, StartWait, QueueTask, Signal, Await, groupVars
  <2>2. /\ \E l \in Places \ {"check", "wait"} : pc' = [pc EXCEPT ![c] = l]
        /\ pc[c] \notin {"check", "wait", "forget", "forgetTimeout"}
    BY <1>1 DEF AddTask, Add, StartWait, QueueTask, Signal, Await, At, Places, ClientStates
  <2>. QED
    BY <2>1, <2>2
<1>2. ASSUME NEW t \in Tasks, AcquireStep(t) \/ AcquireWait(t), UNCHANGED groupVars
      PROVE  Quiet
  <2>1. pc' = pc \/ \E l : pc' = [pc EXCEPT ![t] = l]
    BY <1>2 DEF AcquireStep, AcquireWait, Acquire, TryAcquire, Forget, ForgetTimeout, Leave,
       ForgetCancelled, PassOn, Release, Check, Register, Wait, CancelForget, IsCancelled, TakeWaker
  <2>2. \A c \in Waiters : pc'[c] = pc[c]
    BY <2>1
  <2>. QED
    BY <1>2, <2>2 DEF groupVars
<1>3. ASSUME NEW p \in Procs, (Wake(p) /\ Others) \/ Late(p)
      PROVE  Quiet
  BY <1>3 DEF Wake, Late, TimePasses, Others, groupVars
<1>4. ASSUME Give \/ (Cancel /\ Others)
      PROVE  Quiet
  <2>1. \A c \in Waiters : pc'[c] = pc[c]
    BY <1>4, GiveStep DEF Cancel
  <2>. QED
    BY <1>4, <2>1 DEF Give, Others, groupVars
<1>5. ASSUME UNCHANGED wakerVars, UNCHANGED groupVars
      PROVE  Quiet
  BY <1>5 DEF wakerVars, groupVars
<1>6. ASSUME NEW c \in Clients, GroupWait(c) \/ GroupForget(c) \/ GroupLoop(c)
      PROVE  c \in Waiters
  BY <1>6 DEF GroupWait, GroupForget, GroupLoop, At, Roles
<1>7. ASSUME NEW c \in Clients, GiveUp(c)
      PROVE  Done
  BY <1>7 DEF GiveUp, Places, ClientStates
<1>8. ASSUME NEW t \in Tasks, HandlerStep(t)
      PROVE  Quiet \/ Done
  <2>1. CASE GroupDone(t, "released", "done") \/ GroupDone(t, "thrown", "done")
    BY <2>1 DEF Places, HandlerStates
  <2>. QED
    BY <1>2, <1>8, <2>1 DEF HandlerStep
<1>. HIDE DEF Quiet, Done
<1>9. ASSUME NEW r \in Runners,
             PoolStep(r) \/ Return(r) \/ (Idles(r) /\ UNCHANGED <<wakerVars, semVars, groupVars, given>>)
      PROVE  Quiet
  BY <1>5, <1>9 DEF PoolStep, Return
<1>10. UNCHANGED vars => Quiet
  BY <1>5 DEF vars
<1>11. Quiet \/ Done \/ \E c \in Waiters : GroupWait(c) \/ GroupForget(c) \/ GroupLoop(c)
  BY <1>1, <1>3, <1>4, <1>6, <1>7, <1>8, <1>9, <1>10 DEF Next, ClientStep
<1>. QED
  BY <1>11 DEF Quiet, Done

(* Every step keeps the types of the group.                                *)
LEMMA GroupTypedStep ==
    ASSUME Placed, Roles, WaitGroupTypeOK, [Next]_vars
    PROVE  WaitGroupTypeOK'
<1>1. count \in Nat /\ awaiting \in Seq(Waiters)
  BY DEF WaitGroupTypeOK
<1>2. ASSUME NEW p, NEW from, NEW to, GroupDone(p, from, to)
      PROVE  WaitGroupTypeOK'
  <2>1. count' \in Nat /\ (awaiting' = awaiting \/ awaiting' = <<>>)
    BY <1>1, <1>2 DEF GroupDone
  <2>2. <<>> \in Seq(Waiters)
    OBVIOUS
  <2>. QED
    BY <1>1, <2>1, <2>2 DEF WaitGroupTypeOK
<1>3. ASSUME NEW c \in Waiters, GroupWait(c) \/ GroupForget(c) \/ GroupLoop(c)
      PROVE  WaitGroupTypeOK'
  <2>1. /\ count' = count
        /\ awaiting' = awaiting \/ awaiting' = Append(awaiting, c) \/ awaiting' = RemoveFirst(awaiting, c)
    BY <1>3 DEF GroupWait, GroupForget, GroupLoop, groupVars
  <2>2. Append(awaiting, c) \in Seq(Waiters)
    BY <1>1, AppendFacts
  <2>3. RemoveFirst(awaiting, c) \in Seq(Waiters)
    BY <1>1, RemoveFacts
  <2>. QED
    BY <1>1, <2>1, <2>2, <2>3 DEF WaitGroupTypeOK
<1>4. awaiting' = awaiting /\ count' \in {count, count + 1} => WaitGroupTypeOK'
  BY <1>1 DEF WaitGroupTypeOK
<1>. QED
  BY <1>2, <1>3, <1>4, GroupSteps

(* Every step keeps who is in the group's queue, and that who is not there *)
(* and waits has been woken: the last one to be done wakes them all.       *)
LEMMA WaitersListedStep ==
    ASSUME Placed, Roles, WakersTypeOK, SemaphoreTypeOK, WaitGroupTypeOK, WaitersListed, [Next]_vars
    PROVE  WaitersListed'
<1>. USE Names DEF Goto, GoOn, Leave
<1>1. /\ count \in Nat /\ awaiting \in Seq(Waiters) /\ Once(awaiting) /\ (awaiting # <<>> => count > 0)
      /\ \A p \in Waiters : Contains(awaiting, p) => pc[p] \in {"check", "wait", "forget", "forgetTimeout"}
      /\ \A p \in Waiters : pc[p] \in {"check", "wait"} => Contains(awaiting, p) \/ InFlight(p)
      /\ pc \in [Procs -> Places]
  BY DEF WaitGroupTypeOK, WaitersListed, Placed
<1>2. \A p \in Waiters : InFlight(p) => InFlight(p)' \/ pc[p] = "count" \/ pc'[p] = "forget"
  BY InFlightKept
<1>3. ASSUME NEW q \in Procs, NEW from \in Places, NEW to \in Places, GroupDone(q, from, to),
             from \in {"failed", "released", "thrown"}, to \in {"ready", "done"}
      PROVE  WaitersListed'
  <2>1. pc[q] = from /\ toWake[q] = <<>> /\ pc' = [pc EXCEPT ![q] = to]
    BY <1>3 DEF GroupDone, At
  <2>2. \A p \in Waiters : pc'[p] \in {"check", "wait", "forget", "forgetTimeout", "count"} => pc'[p] = pc[p]
    BY <1>1, <1>3, <2>1
  <2>3. \A p \in Waiters : pc[p] \in {"check", "wait", "forget", "forgetTimeout"} => pc'[p] = pc[p]
    BY <1>1, <1>3, <2>1
  <2>4. CASE awaiting' = awaiting /\ (count' > 0 \/ count' = count)
    BY <1>1, <1>2, <2>2, <2>3, <2>4 DEF WaitersListed
  <2>5. CASE toWake' = [toWake EXCEPT ![q] = awaiting] /\ awaiting' = <<>>
    <3>1. \A p : Contains(awaiting, p) => InFlight(p)'
      BY <2>5 DEF InFlight, WakersTypeOK
    <3>2. Once(awaiting') /\ \A p : ~Contains(awaiting', p)
      BY <2>5, EmptyFacts
    <3>. QED
      BY <1>1, <1>2, <2>2, <2>5, <3>1, <3>2 DEF WaitersListed
  <2>. QED
    BY <1>1, <1>3, <2>4, <2>5 DEF GroupDone
<1>4. ASSUME NEW c \in Waiters, GroupWait(c)
      PROVE  WaitersListed'
  <2>1. CASE awaiting' = Append(awaiting, c) /\ pc' = [pc EXCEPT ![c] = "check"] /\ pc[c] = "count" /\ count' = count
             /\ count > 0
    <3>1. ~Contains(awaiting, c)
      BY <1>1, <2>1
    <3>2. Once(awaiting') /\ \A p : Contains(awaiting', p) <=> Contains(awaiting, p) \/ p = c
      BY <1>1, <2>1, <3>1, AppendFacts
    <3>3. \A p \in Waiters : p # c => pc'[p] = pc[p]
      BY <1>1, <2>1
    <3>4. pc'[c] = "check"
      BY <1>1, <2>1
    <3>. QED
      BY <1>1, <1>2, <2>1, <3>2, <3>3, <3>4 DEF WaitersListed
  <2>2. CASE awaiting' = awaiting /\ count' = count /\ pc[c] = "count" /\ (pc' = pc \/ pc' = [pc EXCEPT ![c] = "waited"])
    <3>1. \A p \in Waiters : pc'[p] = pc[p] \/ (pc[p] = "count" /\ pc'[p] = "waited")
      BY <1>1, <2>2
    <3>. QED
      BY <1>1, <1>2, <2>2, <3>1 DEF WaitersListed
  <2>. QED
    BY <1>4, <2>1, <2>2 DEF GroupWait, TakeWaker, At
<1>5. ASSUME NEW c \in Waiters, GroupForget(c)
      PROVE  WaitersListed'
  <2>1. /\ awaiting' = RemoveFirst(awaiting, c) /\ count' = count /\ pc[c] \in {"forget", "forgetTimeout"}
        /\ pc' = [pc EXCEPT ![c] = "count"] \/ pc' = [pc EXCEPT ![c] = "thrown"]
    BY <1>5 DEF GroupForget, At
  <2>2. /\ Once(awaiting') /\ ~Contains(awaiting', c)
        /\ \A p : p # c => (Contains(awaiting', p) <=> Contains(awaiting, p))
        /\ awaiting = <<>> => awaiting' = <<>>
    BY <1>1, <2>1, RemoveFacts, EmptyFacts
  <2>3. /\ \A p \in Waiters : p # c => pc'[p] = pc[p]
        /\ pc'[c] \in {"count", "thrown"}
    BY <1>1, <2>1
  <2>. QED
    BY <1>1, <1>2, <2>1, <2>2, <2>3 DEF WaitersListed
<1>6. ASSUME NEW c \in Waiters, GroupLoop(c)
      PROVE  WaitersListed'
  <2>1. /\ UNCHANGED <<awaiting, count>>
        /\ \/ pc[c] = "check" /\ pc' = [pc EXCEPT ![c] = "forgetTimeout"]
           \/ pc[c] = "check" /\ pc' = [pc EXCEPT ![c] = "wait"]
           \/ pc[c] = "wait" /\ pc' = [pc EXCEPT ![c] = "forget"]
    BY <1>6 DEF GroupLoop, Check, Wait, At, groupVars
  <2>2. /\ \A p \in Waiters : p # c => pc'[p] = pc[p]
        /\ \/ pc[c] = "check" /\ pc'[c] \in {"forgetTimeout", "wait"}
           \/ pc[c] = "wait" /\ pc'[c] = "forget"
    BY <1>1, <2>1
  <2>. QED
    BY <1>1, <1>2, <2>1, <2>2 DEF WaitersListed
<1>7. ASSUME awaiting' = awaiting, count' \in {count, count + 1},
             \A c \in Waiters : \/ pc'[c] = pc[c]
                                \/ pc'[c] \notin {"check", "wait"}
                                   /\ pc[c] \notin {"check", "wait", "forget", "forgetTimeout"}
      PROVE  WaitersListed'
  BY <1>1, <1>2, <1>7 DEF WaitersListed
<1>. QED
  BY <1>3, <1>4, <1>5, <1>6, <1>7, GroupSteps

(* Who sleeps in wait can be found.                                        *)
LEMMA ListedAreFound ==
    ASSUME Placed, WaitGroupTypeOK, WaitersListed
    PROVE  WaitersFindable
<1>1. ASSUME NEW p \in Waiters, Asleep(p), ~InFlight(p)
      PROVE  count > 0 /\ Contains(awaiting, p)
  <2>1. Contains(awaiting, p)
    BY <1>1 DEF Asleep, At, WaitersListed
  <2>2. awaiting # <<>>
    BY <2>1, EmptyFacts
  <2>. QED
    BY <2>1, <2>2 DEF WaitersListed
<1>. QED
  BY <1>1 DEF WaitersFindable

-----------------------------------------------------------------------------
(* The invariant                                                           *)

(* At first nobody waits and nothing is queued, counted or held.           *)
LEMMA InitInv == Init => IInv
<1>. SUFFICES ASSUME Init PROVE IInv
  OBVIOUS
<1>. USE Names
<1>1. /\ pc = [p \in Procs |-> IF p \in Clients THEN "ready" ELSE IF p \in Acquirers THEN "acquire"
                               ELSE IF p \in Tasks THEN "released" ELSE "idle"]
      /\ given = 0 /\ waker = {} /\ pending = {} /\ late = {} /\ toWake = [p \in Procs |-> <<>>]
      /\ cancelled = FALSE /\ watchers = <<>> /\ available = Permits /\ acquiring = <<>> /\ dropped = 0
      /\ count = 0 /\ awaiting = <<>> /\ gate = [r \in Runners |-> "out"] /\ current = {}
  BY DEF Init, WakersInit, SemaphoreInit, WaitGroupInit, GateInit
<1>2. /\ queue = <<>> /\ waiting = 0 /\ runners = 0 /\ submitted = 0
      /\ status = [t \in Tasks |-> "new"] /\ owner = [t \in Tasks |-> 0]
      /\ runner = [r \in Runners |-> "none"] /\ task = [r \in Runners |-> 0]
  BY DEF Init, PoolInit
<1>3. /\ \A c \in Clients : pc[c] = "ready"
      /\ \A t \in Tasks : pc[t] = IF t \in Acquirers THEN "acquire" ELSE "released"
      /\ pc[Canceller] = "idle"
  BY <1>1
<1>4. Placed /\ Roles
  <2>1. pc \in [Procs -> Places]
    BY <1>1 DEF Places, ClientStates, HandlerStates
  <2>. QED
    BY <1>1, <1>3, <2>1 DEF Placed, Roles, ClientStates, HandlerStates
<1>5. GateTypeOK /\ PoolTypeOK /\ AtGate
  BY <1>1, <1>2 DEF GateTypeOK, GateStates, PoolTypeOK, Statuses, RunnerStates, AtGate
<1>6. WakersTypeOK /\ SemaphoreTypeOK /\ WaitGroupTypeOK
  <2>1. /\ <<>> \in Seq(Procs) /\ <<>> \in Seq(Cancellable)
        /\ <<>> \in Seq(Acquirers) /\ <<>> \in Seq(Waiters)
    OBVIOUS
  <2>2. toWake \in [Procs -> Seq(Procs)]
    BY <1>1, <2>1
  <2>3. WakersTypeOK
    BY <1>1, <2>1, <2>2 DEF WakersTypeOK
  <2>. QED
    BY <1>1, <2>1, <2>3 DEF SemaphoreTypeOK, WaitGroupTypeOK
<1>7. TasksPlaced
  BY <1>2, EmptyFacts DEF TasksPlaced
<1>8. Cardinality({}) = 0
  BY FS_EmptySet
<1>9. RunnersCounted
  <2>1. WaitingRunners = {} /\ AllRunners = {}
    BY <1>2 DEF WaitingRunners, AllRunners
  <2>. QED
    BY <1>2, <1>8, <2>1 DEF RunnersCounted
<1>10. TasksAttended
  BY <1>1 DEF TasksAttended, Dozing
<1>11. GroupCounted /\ CountBounded /\ GroupWaits
  <2>1. PledgedClients = {} /\ PledgedTasks = {} /\ Counting = {} /\ FailedClients = {} /\ FailedTasks = {}
    BY <1>2, <1>3 DEF PledgedClients, PledgedTasks, Counting, FailedClients, FailedTasks
  <2>. QED
    BY <1>1, <1>2, <1>3, <1>8, <2>1 DEF GroupCounted, CountBounded, GroupWaits
<1>12. WaitersListed
  BY <1>1, <1>3, EmptyFacts DEF WaitersListed
<1>13. PermitsCounted
  <2>1. Holders = {}
    BY <1>3 DEF Holders
  <2>. QED
    BY <1>1, <1>8, <2>1 DEF PermitsCounted
<1>14. AcquirersListed /\ PermitsCalled
  BY <1>1, EmptyFacts DEF AcquirersListed, PermitsCalled
<1>. QED
  BY <1>4, <1>5, <1>6, <1>7, <1>9, <1>10, <1>11, <1>12, <1>13, <1>14 DEF IInv

(* Every step keeps the invariant.                                         *)
LEMMA StepInv == IInv /\ [Next]_vars => IInv'
<1>. SUFFICES ASSUME IInv, [Next]_vars PROVE IInv'
  OBVIOUS
<1>1. /\ Placed /\ Roles
      /\ GateTypeOK /\ PoolTypeOK /\ WakersTypeOK /\ SemaphoreTypeOK /\ WaitGroupTypeOK
      /\ AtGate /\ TasksPlaced /\ RunnersCounted /\ TasksAttended
      /\ GroupCounted /\ CountBounded /\ GroupWaits /\ WaitersListed
      /\ PermitsCounted /\ AcquirersListed /\ PermitsCalled
  BY DEF IInv
<1>2. Placed' /\ Roles'
  BY <1>1, PlacedStep
<1>3. GateTypeOK' /\ PoolTypeOK' /\ AtGate'
  BY <1>1, PoolTypedStep
<1>4. WakersTypeOK' /\ SemaphoreTypeOK' /\ WaitGroupTypeOK'
  BY <1>1, WakersTypedStep, SemaphoreTypedStep, GroupTypedStep
<1>5. TasksPlaced' /\ RunnersCounted' /\ TasksAttended'
  BY <1>1, TasksPlacedStep, RunnersCountedStep, TasksAttendedStep
<1>6. GroupCounted' /\ CountBounded' /\ GroupWaits' /\ WaitersListed'
  BY <1>1, GroupCountedStep, CountBoundedStep, GroupWaitsStep, WaitersListedStep
<1>7. PermitsCounted' /\ AcquirersListed' /\ PermitsCalled'
  BY <1>1, PermitsCountedStep, AcquirersListedStep, PermitsCalledStep
<1>. QED
  BY <1>2, <1>3, <1>4, <1>5, <1>6, <1>7 DEF IInv

(* The pool, the group and the semaphore keep the invariant.               *)
THEOREM Invariant == Spec => []IInv
  BY InitInv, StepInv, PTL DEF Spec

(* Every variable keeps its type: no counter goes below zero, the count is *)
(* never more than the tasks there may be, and there are never more        *)
(* permits free than there are at all (semaphore.valk:40-46).              *)
THEOREM TypeCorrect == Spec => []TypeOK
<1>1. IInv => TypeOK
  <2>. SUFFICES ASSUME IInv PROVE TypeOK
    OBVIOUS
  <2>1. count <= MaxTasks
    BY CountInBounds DEF IInv
  <2>2. available <= Permits + given
    <3>1. Holders \in SUBSET Tasks
      BY DEF Holders
    <3>2. Cardinality(Holders) \in Nat
      BY <3>1, FinitePeople
    <3>. QED
      BY <3>2 DEF IInv, PermitsCounted, Placed, SemaphoreTypeOK
  <2>. QED
    BY <2>1, <2>2 DEF IInv, TypeOK, Placed
<1>. QED
  BY <1>1, Invariant, PTL

(* threads_waiting counts the runners at the gate and taskrunners all      *)
(* there are, never more than the limit, and every task is in the queue or *)
(* in one runner's frame (task.valk:64, 106-131).                          *)
THEOREM PoolBooksRight == Spec => []PoolCountsExact
<1>1. IInv => PoolCountsExact
  BY PoolBooks DEF IInv
<1>. QED
  BY <1>1, Invariant, PTL

(* No task is left in the queue while runners sleep at the gate and nobody *)
(* is about to look or to signal (suspend-gate.valk:51-56, task.valk:47).  *)
THEOREM NoTaskIsStranded == Spec => []NoTaskStranded
<1>1. IInv => NoTaskStranded
  BY Attention DEF IInv
<1>. QED
  BY <1>1, Invariant, PTL

(* Who returned from wait finds its tasks marked done, also when the group *)
(* was used again meanwhile (waitgroup.valk:11).                           *)
THEOREM GroupWaitIsTrue == Spec => []GroupWaits
<1>1. IInv => GroupWaits
  BY DEF IInv
<1>. QED
  BY <1>1, Invariant, PTL

(* Who sleeps in wait is in the group's queue while tasks are counted, or  *)
(* has a wake on its way (waitgroup.valk:62-88).                           *)
THEOREM WaitersAreFindable == Spec => []WaitersFindable
<1>1. IInv => WaitersFindable
  BY ListedAreFound DEF IInv
<1>. QED
  BY <1>1, Invariant, PTL

(* While acquirers wait, every free permit has one on its way to it, but   *)
(* for those whose wake was dropped (semaphore.valk `release`, `pass_on`). *)
THEOREM PermitsAreAttended == Spec => []PermitsAttended
<1>1. IInv => PermitsAttended
  BY CalledCome DEF IInv
<1>. QED
  BY <1>1, Invariant, PTL

=============================================================================
