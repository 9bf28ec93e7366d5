------------------------------ MODULE IdPool ------------------------------
(***************************************************************************)
(* What LastIds promises for one keyname of one database: a counter, and   *)
(* ids that move between the counter, the processes that use them and the  *)
(* processes that keep them for later.                                     *)
(***************************************************************************)
EXTENDS Integers

CONSTANT Procs

VARIABLES
    last,   \* the last id counted
    held,   \* of each process: the ids it uses
    free    \* of each process: the ids it may hand out again

vars == <<last, held, free>>

Init == /\ last = 0
        /\ held = [p \in Procs |-> {}]
        /\ free = [p \in Procs |-> {}]

\* Only p changes.
Only(p) == /\ held' = [held EXCEPT ![p] = held'[p]]
           /\ free' = [free EXCEPT ![p] = free'[p]]

\* p gets free ids or new ones; the new ones that it does not use are free.
Request(p) ==
    LET new == (last + 1)..last'
    IN  /\ last' \in Nat /\ last' >= last
        /\ held[p] \subseteq held'[p]
        /\ held'[p] \subseteq held[p] \cup free[p] \cup new
        /\ free'[p] = (free[p] \cup new) \ held'[p]
        /\ Only(p)

Recycle(p) ==
    /\ held'[p] \subseteq held[p]
    /\ free'[p] = free[p] \cup (held[p] \ held'[p])
    /\ Only(p)
    /\ UNCHANGED last

\* A failed request or the end of the process: the ids are never used.
Lose(p) ==
    /\ free'[p] \subseteq free[p]
    /\ Only(p)
    /\ UNCHANGED <<last, held>>

Next == \E p \in Procs : Request(p) \/ Recycle(p) \/ Lose(p)

Spec == Init /\ [][Next]_vars

-----------------------------------------------------------------------------
\* An id is counted, and in one place.
OnePlace == \A p, q \in Procs :
    /\ p # q => held[p] \cap held[q] = {} /\ free[p] \cap free[q] = {}
    /\ held[p] \cap free[q] = {}
    /\ held[p] \cup free[p] \subseteq 1..last
===========================================================================
