----------------------------- MODULE MCParking ------------------------------
(***************************************************************************)
(* Instances of Parking for TLC: coroutines a1, a2 on thread A, b1 on      *)
(* thread B, and a native thread n.                                        *)
(***************************************************************************)
EXTENDS Parking, TLC

CONSTANTS A, B, a1, a2, b1, n, k1, k2, k3, k4

HomeOfMC == [c \in Coros |-> IF c = b1 THEN B ELSE A]
=============================================================================
