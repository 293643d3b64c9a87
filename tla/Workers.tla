------------------------------ MODULE Workers -------------------------------
(***************************************************************************)
(* The task pool at work, as the doc comments of WaitGroup and Semaphore   *)
(* use it (lib/src/sync/waitgroup.valk:11-22, semaphore.valk:9-16):        *)
(* clients count each task in a WaitGroup and start it with task(), then   *)
(* wait for the group and await their tasks; handlers acquire a permit of  *)
(* a Semaphore and release it, or need none, and mark themselves done.  A  *)
(* client may use the group again, so that its count rises while another   *)
(* client that was woken has not looked yet.  Whoever holds the cancel     *)
(* token also has permits at first, gives them to the handlers one by one, *)
(* and may cancel after that.  A handler is named by its task.             *)
(***************************************************************************)
EXTENDS TaskPool, Semaphore, WaitGroup

CONSTANTS MaxGiven  \* bound: the permits given later

ASSUME WorkersAssumption ==
    /\ Procs = Clients \cup Tasks \cup {Canceller}
    /\ Clients \cap (Tasks \cup {0}) = {}
    /\ Canceller \notin Clients \cup Tasks
    /\ Acquirers \subseteq Tasks
    /\ Waiters \subseteq Clients
    /\ MaxGiven \in Nat

VARIABLE given      \* how many permits were given, for MaxGiven

vars == <<gateVars, poolVars, wakerVars, semVars, groupVars, given>>

ClientStates == {"ready", "added", "signal", "failed", "count", "check", "wait", "forget",
                 "forgetTimeout", "waited", "thrown"}
HandlerStates == {"acquire", "check", "register", "wait", "forget", "forgetTimeout",
                  "forgetCancelled", "cancelForget", "isCancelled", "passOn",
                  "held", "released", "thrown", "done"}

TypeOK ==
    /\ GateTypeOK /\ PoolTypeOK /\ WakersTypeOK /\ SemaphoreTypeOK /\ WaitGroupTypeOK
    /\ \A c \in Clients : pc[c] \in ClientStates
    /\ \A t \in Tasks : pc[t] \in HandlerStates
    /\ given \in 0 .. MaxGiven
    /\ count <= MaxTasks /\ available <= Permits + given

Init ==
    /\ GateInit /\ PoolInit /\ WakersInit /\ SemaphoreInit /\ WaitGroupInit
    /\ given = 0
    /\ pc = [p \in Procs |->
                IF p \in Clients THEN "ready"
                ELSE IF p \in Acquirers THEN "acquire"
                ELSE IF p \in Tasks THEN "released"
                ELSE "idle"]

-----------------------------------------------------------------------------
(* A client                                                                *)

Own(c) == {t \in Tasks : owner[t] = c}

Counting == {c \in Clients : pc[c] = "added"}

AddTask(c) ==
    /\ submitted + Cardinality(Counting) < MaxTasks
    /\ Add(c, "ready", "added")
    /\ UNCHANGED <<gateVars, poolVars, semVars, given>>

(* task(): the block that queues, and after it the signal.                 *)
QueueTask(c) ==
    /\ At(c, "added")
    /\ \/ Queue(c) /\ GoOn(c, "signal")
       \/ StartFails(c) /\ GoOn(c, "failed")
    /\ UNCHANGED <<gateVars, token, semVars, groupVars, given>>

Signal(c) ==
    /\ At(c, "signal")
    /\ GateSignal
    /\ GoOn(c, "ready")
    /\ UNCHANGED <<poolVars, token, semVars, groupVars, given>>

(* A task that was not started is done at once.                            *)
GiveUp(c) ==
    /\ GroupDone(c, "failed", "ready")
    /\ UNCHANGED <<gateVars, poolVars, semVars, given>>

(* A client may wait while a task of its own is not over.                  *)
StartWait(c) ==
    /\ c \in Waiters /\ \E t \in Own(c) : ~Ended(t)
    /\ At(c, "ready")
    /\ GoOn(c, "count")
    /\ UNCHANGED <<gateVars, poolVars, token, semVars, groupVars, given>>

(* Task.await of each task: its mutex is unlocked when the handler is back.*)
Await(c) ==
    /\ At(c, "waited") \/ At(c, "thrown")
    /\ \A t \in Own(c) : Ended(t)
    /\ GoOn(c, "ready")
    /\ UNCHANGED <<gateVars, poolVars, token, semVars, groupVars, given>>

ClientStep(c) ==
    \/ QueueTask(c) \/ Signal(c) \/ GiveUp(c) \/ Await(c)
    \/ /\ GroupWait(c) \/ GroupForget(c) \/ GroupLoop(c)
       /\ UNCHANGED <<gateVars, poolVars, semVars, given>>

-----------------------------------------------------------------------------
(* A handler, and the runner around it                                     *)

HandlerStep(t) ==
    /\ status[t] = "running"
    /\ \/ AcquireStep(t) /\ UNCHANGED groupVars
       \/ AcquireWait(t) /\ UNCHANGED groupVars
       \/ GroupDone(t, "released", "done") /\ UNCHANGED semVars
       \/ GroupDone(t, "thrown", "done") /\ UNCHANGED semVars
    /\ UNCHANGED <<gateVars, poolVars, given>>

Return(r) ==
    /\ runner[r] = "run" /\ At(task[r], "done")
    /\ Finish(r)
    /\ UNCHANGED <<wakerVars, semVars, groupVars, given>>

PoolStep(r) == RunnerStep(r) /\ UNCHANGED <<wakerVars, semVars, groupVars, given>>

Others == UNCHANGED <<gateVars, poolVars, semVars, groupVars, given>>

Give ==
    /\ given < MaxGiven
    /\ given' = given + 1
    /\ Release(Canceller, "idle", "idle")
    /\ UNCHANGED <<gateVars, poolVars, groupVars>>

Late(p) == TimePasses(p, IF p \in Clients THEN "count" ELSE "acquire") /\ Others

Next ==
    \/ \E c \in Clients : AddTask(c) \/ StartWait(c) \/ ClientStep(c)
    \/ \E t \in Tasks : HandlerStep(t)
    \/ \E r \in Runners : PoolStep(r) \/ Return(r)
    \/ \E r \in Runners : Idles(r) /\ UNCHANGED <<wakerVars, semVars, groupVars, given>>
    \/ \E p \in Procs : (Wake(p) /\ Others) \/ Late(p)
    \/ Give
    \/ given = MaxGiven /\ Cancel /\ Others

Spec == Init /\ [][Next]_vars

(* Threads run on, and the permits are given.  Clients need not start      *)
(* anything, and neither timeouts nor cancellation have to come.           *)
FairSpec ==
    /\ Spec
    /\ \A c \in Clients : WF_vars(ClientStep(c))
    /\ \A t \in Tasks : WF_vars(HandlerStep(t))
    /\ \A r \in Runners : WF_vars(PoolStep(r) \/ Return(r))
    /\ \A p \in Procs : WF_vars(Wake(p) /\ Others)
    /\ WF_vars(Give)

-----------------------------------------------------------------------------
(* Properties                                                              *)

(* No lost signal (suspend-gate.valk:51-56, task.valk:47): while a runner  *)
(* sleeps at the gate, every queued task has a runner that will look at    *)
(* the queue before it sleeps, or a client that is about to signal.        *)
NoTaskStranded ==
    (\E r \in Runners : gate[r] = "asleep") =>
        Len(queue) <= Cardinality({r \in Runners : Looking(r)})
                        + Cardinality({c \in Clients : pc[c] = "signal"})

(* wait "returns once the count is back to 0" (waitgroup.valk:11): when it *)
(* returned, every task its caller counted has marked itself done, also    *)
(* when the group is used again meanwhile.                                 *)
GroupWaits ==
    \A c \in Clients : pc[c] = "waited" =>
        \A t \in Own(c) : status[t] = "failed" \/ pc[t] = "done"

(* All work comes to its end (task.valk:20-24, waitgroup.valk:58): again   *)
(* and again every task that was queued has returned and nobody waits for  *)
(* the group, unless an acquirer timed out with the wake of a permit.      *)
WorkEnds ==
    []<>(\/ /\ \A t \in Tasks : status[t] \in {"new", "done", "failed"}
           /\ \A c \in Clients : pc[c] = "ready"
         \/ dropped > 0)

(* acquire waits "while none is free" (semaphore.valk:31): nobody is left  *)
(* waiting for a permit that is free.                                      *)
PermitsReachWaiters ==
    (\A p \in Procs : toWake[p] = <<>>) /\ available > 0
        => \A t \in Tasks : Asleep(t) => \E u \in Tasks : status[u] = "running" /\ Coming(u)
=============================================================================
