------------------------------ MODULE HeapArena ------------------------------
(***************************************************************************)
(* What the heap of the boot loader does for its callers, without its      *)
(* list: blocks of an arena handed out and taken back, no two of which     *)
(* overlap.  A request takes the first gap that is wide enough, and every  *)
(* unit that lay open below it is lost until the next start.  It is        *)
(* refused, for good, when no gap is wide enough.  Implemented by Heap.    *)
(***************************************************************************)
EXTENDS Naturals

CONSTANTS Units, Requests

VARIABLES
    taken,   \* start of every block handed out |-> its length
    lost,    \* units that belong to nobody and are never handed out
    stuck    \* the heap has given up

Unit       == 1 .. Units
Span(s, n) == s .. s + n - 1
Held       == UNION {Span(s, taken[s]) : s \in DOMAIN taken}
Open       == Unit \ (Held \cup lost)
Gap(s, n)  == Span(s, n) \subseteq Open

NoBlocks == [s \in {} |-> 0]

Init == taken = NoBlocks /\ lost = {} /\ stuck = FALSE

Alloc(s, n) ==
    /\ ~stuck /\ UNCHANGED stuck
    /\ Gap(s, n) /\ \A r \in Unit : r < s => ~Gap(r, n)
    /\ taken' = [b \in DOMAIN taken \cup {s} |-> IF b = s THEN n ELSE taken[b]]
    /\ lost' = lost \cup {u \in Open : u < s}

Release(s) ==
    /\ ~stuck
    /\ taken' = [b \in DOMAIN taken \ {s} |-> taken[b]]
    /\ UNCHANGED <<lost, stuck>>

\* A request no gap is wide enough for, or a block back when nothing is open.
Refuse ==
    /\ ~stuck /\ stuck'
    /\ \/ \E n \in Requests : \A s \in Unit : ~Gap(s, n)
       \/ Open = {}
    /\ UNCHANGED <<taken, lost>>

Restart == taken' = NoBlocks /\ lost' = {} /\ stuck' = FALSE

Next ==
    \/ \E s \in Unit, n \in Requests : Alloc(s, n)
    \/ \E s \in DOMAIN taken : Release(s)
    \/ Refuse
    \/ Restart

Spec == Init /\ [][Next]_<<taken, lost, stuck>>
=============================================================================
