----------------------------- MODULE WakeSignal -----------------------------
(***************************************************************************)
(* What a Waker promises (the doc comments of lib/src/sync/waker.valk): a  *)
(* wake that nobody waited for is kept and ends the next wait, several     *)
(* wakes may end just one wait, and a wake that raced a timeout is either  *)
(* what ended the wait or kept for the next one.                           *)
(*                                                                         *)
(* Every wake is counted when it is called, and every wait that returns    *)
(* true when it does.  Between the two the wake is due: it may be merged   *)
(* with another one that is due, but the last one that is due for a waiter *)
(* goes with a wait of it that returns true, or with its thread.           *)
(***************************************************************************)
EXTENDS Naturals

CONSTANT Waiter

VARIABLES
    waiting,    \* who is inside a wait
    due,        \* the wakes each waiter has not been told of
    sent,       \* the calls of wake for each waiter
    woke,       \* the waits of each that returned true
    gone        \* waiters whose thread ended

vars == <<waiting, due, sent, woke, gone>>

Zero == [w \in Waiter |-> 0]

Init == waiting = {} /\ due = Zero /\ sent = Zero /\ woke = Zero /\ gone = {}

Begin(w) ==
    /\ w \notin waiting \cup gone
    /\ waiting' = waiting \cup {w}
    /\ UNCHANGED <<due, sent, woke, gone>>

(* It is due from now on, together with one that is due already or not.    *)
Wake(w) ==
    /\ sent' = [sent EXCEPT ![w] = @ + 1]
    /\ \/ w \notin gone /\ due' = [due EXCEPT ![w] = @ + 1]
       \/ (w \in gone \/ due[w] > 0) /\ UNCHANGED due
    /\ UNCHANGED <<waiting, woke, gone>>

(* Two wakes that are due become one.                                      *)
Merge(w) ==
    /\ due[w] > 1
    /\ due' = [due EXCEPT ![w] = @ - 1]
    /\ UNCHANGED <<waiting, sent, woke, gone>>

(* A wait of w returns true.                                               *)
True(w) ==
    /\ due[w] > 0
    /\ due' = [due EXCEPT ![w] = @ - 1]
    /\ woke' = [woke EXCEPT ![w] = @ + 1]
    /\ UNCHANGED <<sent, gone>>

Woken(w) == w \in waiting /\ waiting' = waiting \ {w} /\ True(w)

(* A wait that finds a wake kept begins and ends at once.                  *)
AtOnce(w) == w \notin waiting /\ UNCHANGED waiting /\ True(w)

TimedOut(w) ==
    /\ w \in waiting
    /\ waiting' = waiting \ {w}
    /\ UNCHANGED <<due, sent, woke, gone>>

(* The threads of the waiters W end, and nothing reaches these any more.   *)
End(W) ==
    /\ gone' = gone \cup W
    /\ waiting' = waiting \ W
    /\ due' = [w \in Waiter |-> IF w \in W THEN 0 ELSE due[w]]
    /\ UNCHANGED <<sent, woke>>

Next ==
    \/ \E w \in Waiter : Begin(w) \/ Wake(w) \/ Merge(w) \/ Woken(w) \/ AtOnce(w) \/ TimedOut(w)
    \/ \E W \in SUBSET Waiter : End(W)

Spec == Init /\ [][Next]_vars

(* A wait with a wake due ends.                                            *)
Ends == \A w \in Waiter : w \in waiting /\ due[w] > 0 ~> w \notin waiting

FairSpec == Spec /\ Ends
=============================================================================
