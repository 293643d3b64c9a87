------------------------------- MODULE Marking -------------------------------
(***************************************************************************)
(* What a shared collection asks of its marking (pmark_run in              *)
(* lib/src/gc/shared-mark.valk): of the items, those the roots lead to are *)
(* marked and no others, and it returns how much they are.                 *)
(***************************************************************************)
EXTENDS Naturals, FiniteSets

CONSTANTS
    Items,
    Heaps       \* what rounds may find: [roots: a sequence of units, edges: the references]

VARIABLES
    heap,       \* what this round finds
    running,    \* the collector is in pmark_run
    marks,      \* what is marked in this round
    result      \* what pmark_run returned

vars == <<heap, running, marks, result>>

(* The items the roots of h lead to                                        *)
Reachable(h) ==
    LET Closed(s) ==
            /\ \A u \in DOMAIN h.roots : h.roots[u] \subseteq s
            /\ \A i \in s : h.edges[i] \subseteq s
    IN  {i \in Items : \A s \in SUBSET Items : Closed(s) => i \in s}

Init == heap \in Heaps /\ running = FALSE /\ marks = {} /\ result = 0

Start == ~running /\ running' = TRUE /\ heap' \in Heaps /\ marks' = {} /\ result' = 0

Mark ==
    /\ running
    /\ \E i \in Reachable(heap) \ marks : marks' = marks \cup {i}
    /\ UNCHANGED <<heap, running, result>>

Return ==
    /\ running /\ marks = Reachable(heap)
    /\ running' = FALSE
    /\ result' = Cardinality(marks)
    /\ UNCHANGED <<heap, marks>>

Next == Start \/ Mark \/ Return

Spec == Init /\ [][Next]_vars
=============================================================================
