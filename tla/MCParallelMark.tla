---------------------------- MODULE MCParallelMark ----------------------------
(***************************************************************************)
(* ParallelMark for TLC: a collector and two helpers.  In the first heap   *)
(* one unit leads into the other and to a cycle, and one root leads to     *)
(* items enough to share; in the second an item is in two units; the third *)
(* is empty.                                                               *)
(***************************************************************************)
EXTENDS ParallelMark, TLC

CONSTANTS c, h1, h2, i1, i2, i3, i4

Edges(e) == [i \in Items |-> IF i \in DOMAIN e THEN e[i] ELSE {}]

MCHeaps == {
    [roots |-> <<{i1}, {i2}>>, edges |-> Edges(i1 :> {i2, i3, i4} @@ i3 :> {i1})],
    [roots |-> <<{i2}, {i2, i3}>>, edges |-> Edges(i2 :> {i1, i3} @@ i3 :> {i1})],
    [roots |-> <<>>, edges |-> Edges(i1 :> {i2})]}
=============================================================================
