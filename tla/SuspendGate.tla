----------------------------- MODULE SuspendGate -----------------------------
(***************************************************************************)
(* ThreadSuspendGate (lib/src/thread/suspend-gate.valk): a condition       *)
(* variable that blocks whole OS threads, with a generation that tells     *)
(* whether a signal came between the look at the condition and the sleep.  *)
(* The generation is read without the mutex, the sleep and the signal are  *)
(* under it.  Only whether a noted generation is still the gate's counts,  *)
(* so that is what the model keeps of it.  The condition belongs to the    *)
(* caller and is a parameter.                                              *)
(***************************************************************************)
EXTENDS Naturals

CONSTANTS Runners   \* the threads that wait at the gate

VARIABLES
    gate,       \* where each thread is in `wait`, and how it returned
    current     \* threads whose local `generation` equals ThreadSuspendGate.generation

gateVars == <<gate, current>>

GateStates == {"out", "check", "enter", "asleep", "woken", "ready", "timedOut"}

GateTypeOK ==
    /\ gate \in [Runners -> GateStates]
    /\ current \in SUBSET Runners

GateInit == gate = [r \in Runners |-> "out"] /\ current = {}

GateGo(r, label) == gate' = [gate EXCEPT ![r] = label]

(* The generation is noted before the condition is looked at, first when   *)
(* the wait begins and again after every sleep.                            *)
GateNote(r) == GateGo(r, "check") /\ current' = current \cup {r}

GateWoken(r) == gate[r] = "woken" /\ GateNote(r)

(* should_wait()                                                           *)
GateCheck(r, shouldWait) ==
    /\ gate[r] = "check"
    /\ \/ shouldWait /\ GateGo(r, "enter")
       \/ ~shouldWait /\ GateGo(r, "ready")
    /\ UNCHANGED current

(* Mutant: the generation is not compared.                                 *)
GateSleepBlind(r) ==
    /\ gate[r] = "enter"
    /\ GateGo(r, "asleep")
    /\ UNCHANGED current

(* Under the mutex: a signal since the note keeps the thread awake.        *)
GateSleep(r) ==
    /\ gate[r] = "enter"
    /\ \/ r \in current /\ GateGo(r, "asleep")
       \/ r \notin current /\ GateGo(r, "woken")
    /\ UNCHANGED current

(* The deadline passed; a POSIX wait may also return for no reason.        *)
GateTimeout(r) ==
    /\ gate[r] = "asleep"
    /\ \/ GateGo(r, "timedOut")
       \/ GateGo(r, "woken")
    /\ UNCHANGED current

(* The caller is done with the wait.                                       *)
GateLeave(r) == GateGo(r, "out") /\ current' = current \ {r}

(* signal() wakes one of those who sleep, if there are any.                *)
GateSignal ==
    /\ current' = {}
    /\ LET asleep == {r \in Runners : gate[r] = "asleep"} IN
       \/ asleep = {} /\ UNCHANGED gate
       \/ \E r \in asleep : GateGo(r, "woken")
=============================================================================
