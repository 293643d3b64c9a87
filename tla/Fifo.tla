-------------------------------- MODULE Fifo --------------------------------
(***************************************************************************)
(* What a Channel promises its callers (the doc comments of new, send,     *)
(* recv and close in lib/src/sync/channel.valk): a closable queue whose    *)
(* sends are reported truly.  A value has one of four fates: it is not     *)
(* offered yet, it is queued, it was received, or its send failed; and a   *)
(* send that returned is one whose value will be, or on a rendezvous       *)
(* channel was, received.                                                  *)
(***************************************************************************)
EXTENDS Naturals, SequencesExt

CONSTANTS
    Value,      \* what is sent; every value is sent once
    Bound       \* how many values the channel holds, 0 for a rendezvous

VARIABLES
    queue,      \* values offered and not received
    taken,      \* values received, in order
    closed,
    accepted,   \* values whose send returned
    refused     \* values whose send threw

vars == <<queue, taken, closed, accepted, refused>>

Init ==
    /\ queue = <<>> /\ taken = <<>>
    /\ closed = FALSE
    /\ accepted = {} /\ refused = {}

Fresh(v) == v \notin Range(queue) \cup Range(taken) \cup refused

(* A buffered send returns at once, or not yet.                            *)
Put(v) ==
    /\ ~closed /\ Fresh(v)
    /\ Bound > 0 => Len(queue) < Bound
    /\ queue' = Append(queue, v)
    /\ \/ Bound > 0 /\ accepted' = accepted \cup {v}
       \/ Bound = 0 /\ UNCHANGED accepted
    /\ UNCHANGED <<taken, closed, refused>>

Get ==
    /\ queue # <<>>
    /\ taken' = Append(taken, Head(queue))
    /\ queue' = Tail(queue)
    /\ UNCHANGED <<closed, accepted, refused>>

(* A rendezvous send returns after its value was received.                 *)
Accept(v) ==
    /\ v \in Range(taken) \ accepted
    /\ accepted' = accepted \cup {v}
    /\ UNCHANGED <<queue, taken, closed, refused>>

(* A send that throws takes its value back.                                *)
Refuse(v) ==
    /\ v \notin accepted \cup Range(taken) \cup refused
    /\ queue' = RemoveFirst(queue, v)
    /\ refused' = refused \cup {v}
    /\ UNCHANGED <<taken, closed, accepted>>

Close ==
    /\ ~closed
    /\ closed' = TRUE
    /\ UNCHANGED <<queue, taken, accepted, refused>>

Next ==
    \/ \E v \in Value : Put(v) \/ Accept(v) \/ Refuse(v)
    \/ Get
    \/ Close

Spec == Init /\ [][Next]_vars
=============================================================================
