----------------------------- MODULE MCSharedGC -----------------------------
(* SharedGC for TLC: the main thread and one that comes and goes, both of  *)
(* which collect.  Two items, so that one may be new in a list while the   *)
(* other waits there for its sweep.                                        *)
EXTENDS SharedGC

CONSTANTS t1, t2, i1, i2
=============================================================================
