----------------------------- MODULE MCWorkers ------------------------------
(***************************************************************************)
(* Instances of Workers for TLC: c1 starts tasks and waits with a timeout, *)
(* c2 only starts tasks.  One handler passes a timeout and the cancel      *)
(* token, the other may use try_acquire.                                   *)
(***************************************************************************)
EXTENDS Workers, TLC

CONSTANTS c1, c2, r1, r2, canceller

MCProcs == Clients \cup Tasks \cup {canceller}
MCTasks == {1, 2}
MCTimed == {c1, 1}
MCCancellable == {1}
MCTrying == {2}
=============================================================================
