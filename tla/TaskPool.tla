------------------------------ MODULE TaskPool ------------------------------
(***************************************************************************)
(* thread.task (lib/src/thread/task.valk): tasks are queued, and run by up *)
(* to Limit runner threads that wait at a gate when the queue is empty and *)
(* retire when nothing came for 5 seconds.  A `lock task_state` block is   *)
(* one step.  What a handler does is left to whoever composes this module: *)
(* it takes its time between Take or Next and Finish.                      *)
(***************************************************************************)
EXTENDS SuspendGate, Sequences, FiniteSets

CONSTANTS
    Clients,    \* who calls task()
    Limit,      \* TASKRUNNER_LIMIT
    MaxTasks    \* bound: calls of task()

Tasks == 1 .. MaxTasks

ASSUME TaskPoolAssumption ==
    /\ IsFiniteSet(Runners)
    /\ Runners \cap Clients = {}
    /\ Limit \in Nat \ {0} /\ Limit <= Cardinality(Runners)
    /\ MaxTasks \in Nat

VARIABLES
    queue,      \* TaskState.tasks
    waiting,    \* TaskState.threads_waiting
    runners,    \* TaskState.taskrunners
    submitted,  \* how many tasks there are, for MaxTasks and to name them
    status,     \* what became of each task; its mutex is locked until "done" or "failed"
    owner,      \* history: who called task()
    runner,     \* where each runner is
    task        \* the task in each runner's frame, 0 for none

poolVars == <<queue, waiting, runners, submitted, status, owner, runner, task>>

RunnerStates == {"none", "next", "wait", "run"}
Statuses == {"new", "queued", "running", "done", "failed"}

PoolTypeOK ==
    /\ queue \in Seq(Tasks)
    /\ waiting \in Nat
    /\ runners \in Nat
    /\ submitted \in 0 .. MaxTasks
    /\ status \in [Tasks -> Statuses]
    /\ owner \in [Tasks -> Clients \cup {0}]
    /\ runner \in [Runners -> RunnerStates]
    /\ task \in [Runners -> Tasks \cup {0}]

PoolInit ==
    /\ queue = <<>> /\ waiting = 0 /\ runners = 0 /\ submitted = 0
    /\ status = [t \in Tasks |-> "new"]
    /\ owner = [t \in Tasks |-> 0]
    /\ runner = [r \in Runners |-> "none"]
    /\ task = [r \in Runners |-> 0]

-----------------------------------------------------------------------------
(* task(): queued, with a new runner when none is idle and there may be    *)
(* one more; a runner that cannot be started takes its task back out.      *)
NeedsRunner == waiting = 0 /\ runners < Limit

Submit(c) ==
    /\ submitted < MaxTasks
    /\ submitted' = submitted + 1
    /\ owner' = [owner EXCEPT ![submitted + 1] = c]

Queue(c) ==
    /\ Submit(c)
    /\ queue' = Append(queue, submitted + 1)
    /\ status' = [status EXCEPT ![submitted + 1] = "queued"]
    /\ \/ ~NeedsRunner /\ UNCHANGED <<runners, runner>>
       \/ /\ NeedsRunner
          /\ runners' = runners + 1
          /\ \E r \in Runners :
                /\ runner[r] = "none"
                /\ runner' = [runner EXCEPT ![r] = "next"]
    /\ UNCHANGED <<waiting, task>>

StartFails(c) ==
    /\ Submit(c)
    /\ NeedsRunner
    /\ status' = [status EXCEPT ![submitted + 1] = "failed"]
    /\ UNCHANGED <<queue, waiting, runners, runner, task>>

(* pop_front                                                               *)
TakeTask(r) ==
    /\ queue # <<>>
    /\ queue' = Tail(queue)
    /\ task' = [task EXCEPT ![r] = Head(queue)]
    /\ status' = [status EXCEPT ![Head(queue)] = "running"]
    /\ runner' = [runner EXCEPT ![r] = "run"]

(* taskrunner_next: a task right away, or this runner is idle now and goes *)
(* to the gate.                                                            *)
NextTask(r) ==
    /\ runner[r] = "next"
    /\ \/ TakeTask(r) /\ UNCHANGED <<waiting, gateVars>>
       \/ /\ queue = <<>>
          /\ waiting' = waiting + 1
          /\ runner' = [runner EXCEPT ![r] = "wait"]
          /\ GateNote(r)
          /\ UNCHANGED <<queue, status, task>>
    /\ UNCHANGED <<runners, submitted, owner>>

(* Inside gate.wait                                                        *)
GateStep(r) ==
    /\ GateCheck(r, queue = <<>>) \/ GateSleep(r) \/ GateWoken(r)
    /\ UNCHANGED poolVars

Idles(r) == GateTimeout(r) /\ UNCHANGED poolVars

Left(r) == gate[r] \in {"ready", "timedOut"}

(* Mutant: a wait that timed out does not look at the queue again.         *)
TakeBlind(r) ==
    /\ Left(r)
    /\ \/ /\ gate[r] = "ready"
          /\ TakeTask(r)
          /\ waiting' = waiting - 1
          /\ GateLeave(r)
          /\ UNCHANGED runners
       \/ /\ gate[r] = "ready" /\ queue = <<>>
          /\ GateNote(r)
          /\ UNCHANGED <<queue, status, task, runner, waiting, runners>>
       \/ /\ gate[r] = "timedOut"
          /\ waiting' = waiting - 1
          /\ runners' = runners - 1
          /\ runner' = [runner EXCEPT ![r] = "none"]
          /\ GateLeave(r)
          /\ UNCHANGED <<queue, status, task>>
    /\ UNCHANGED <<submitted, owner>>

(* Mutant: a runner that takes a task counts as idle still.                *)
TakeUncounted(r) ==
    /\ Left(r)
    /\ TakeTask(r)
    /\ GateLeave(r)
    /\ UNCHANGED <<waiting, runners, submitted, owner>>

(* After the wait: a task, also when it timed out; no task and a timeout,  *)
(* and the runner retires; another runner was quicker, and it waits again. *)
Take(r) ==
    /\ Left(r)
    /\ \/ /\ TakeTask(r)
          /\ waiting' = waiting - 1
          /\ GateLeave(r)
          /\ UNCHANGED runners
       \/ /\ queue = <<>> /\ gate[r] = "timedOut"
          /\ waiting' = waiting - 1
          /\ runners' = runners - 1
          /\ runner' = [runner EXCEPT ![r] = "none"]
          /\ GateLeave(r)
          /\ UNCHANGED <<queue, status, task>>
       \/ /\ queue = <<>> /\ gate[r] = "ready"
          /\ GateNote(r)
          /\ UNCHANGED <<queue, status, task, runner, waiting, runners>>
    /\ UNCHANGED <<submitted, owner>>

(* The handler returned: whoever awaits the task goes on.                  *)
Finish(r) ==
    /\ runner[r] = "run"
    /\ status' = [status EXCEPT ![task[r]] = "done"]
    /\ task' = [task EXCEPT ![r] = 0]
    /\ runner' = [runner EXCEPT ![r] = "next"]
    /\ UNCHANGED <<queue, waiting, runners, submitted, owner, gateVars>>

RunnerStep(r) == NextTask(r) \/ GateStep(r) \/ Take(r)

-----------------------------------------------------------------------------
(* Properties                                                              *)

Ended(t) == status[t] \in {"done", "failed"}

(* A runner that looks at the queue before it sleeps again.                *)
Looking(r) ==
    \/ runner[r] = "next"
    \/ gate[r] \in {"check", "woken", "ready", "timedOut"}
    \/ gate[r] = "enter" /\ r \notin current

(* The pool's own books are right (task.valk:64, 106-131): threads_waiting *)
(* counts the runners at the gate and taskrunners all there are, never     *)
(* more than the limit, and every task is either queued or in one frame.   *)
PoolCountsExact ==
    /\ waiting = Cardinality({r \in Runners : runner[r] = "wait"})
    /\ runners = Cardinality({r \in Runners : runner[r] # "none"})
    /\ runners <= Limit
    /\ \A t \in Tasks :
          Cardinality({i \in DOMAIN queue : queue[i] = t}) + Cardinality({r \in Runners : task[r] = t})
              = (IF status[t] \in {"queued", "running"} THEN 1 ELSE 0)
=============================================================================
