------------------------------ MODULE MCMutex ------------------------------
(***************************************************************************)
(* Instances of Mutex for TLC: four lockers on two or three threads, so    *)
(* that lockers share a thread, wait across threads, wait outside          *)
(* coroutines and lose races after they were woken.                        *)
(***************************************************************************)
EXTENDS Mutex, TLC

CONSTANTS p1, p2, p3, p4, t1, t2, t3

\* p1 and p2 share a thread, p3 and p4 have their own
Three == p1 :> t1 @@ p2 :> t1 @@ p3 :> t2 @@ p4 :> t3
\* p1 alone, the others share the other thread
Four == p1 :> t1 @@ p2 :> t2 @@ p3 :> t2 @@ p4 :> t1
=============================================================================
