----------------------------- MODULE MCChannel -----------------------------
(***************************************************************************)
(* Instances of Channel for TLC.                                           *)
(***************************************************************************)
EXTENDS Channel, TLC

CONSTANTS s1, s2, r1, r2, close, cancel

(* One call each                                                           *)
MCOnce == [p \in Callers |-> 1]

(* s1 sends twice: with two senders waiting, a wake has somewhere to go.   *)
MCTwice == [p \in Callers |-> IF p = s1 THEN 2 ELSE 1]
=============================================================================
