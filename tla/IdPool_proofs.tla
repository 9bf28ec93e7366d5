--------------------------- MODULE IdPool_proofs ---------------------------
(* An id is in one place, whatever is requested, recycled and lost. *)
EXTENDS IdPool, TLAPS

\* The ids that p uses or keeps.
Own(p) == held[p] \cup free[p]

\* OnePlace, said with one set for each process, and the types it needs.
Inv ==
    /\ last \in Nat
    /\ held \in [Procs -> SUBSET Nat] /\ free \in [Procs -> SUBSET Nat]
    /\ \A p \in Procs : held[p] \cap free[p] = {}
    /\ \A p \in Procs : Own(p) \subseteq 1..last
    /\ \A p, q \in Procs : p # q => Own(p) \cap Own(q) = {}

\* What a step of p may do to the ids of p: they stay apart, and only the ids
\* that the counter passes are added.
Kept(p) ==
    /\ last' \in Nat /\ last' >= last
    /\ held'[p] \in SUBSET Nat /\ free'[p] \in SUBSET Nat
    /\ held'[p] \cap free'[p] = {}
    /\ held'[p] \cup free'[p] \subseteq Own(p) \cup (last + 1)..last'

\* Every action of p is such a step.
LEMMA RequestKept ==
    ASSUME Inv, NEW p \in Procs, Request(p) PROVE Kept(p)
<1>1. last \in Nat /\ last' \in Nat /\ last' >= last
  BY DEF Inv, Request
<1>2. (last + 1)..last' \subseteq Nat
  BY <1>1
<1>3. held[p] \in SUBSET Nat /\ free[p] \in SUBSET Nat /\ held[p] \cap free[p] = {}
  BY DEF Inv
<1>4. held'[p] \subseteq Own(p) \cup (last + 1)..last'
  BY DEF Request, Own
<1>5. free'[p] = (free[p] \cup (last + 1)..last') \ held'[p]
  BY DEF Request
<1> QED
  BY <1>1, <1>2, <1>3, <1>4, <1>5 DEF Kept, Own

\* Ids that are given back stay with their process.
LEMMA RecycleKept ==
    ASSUME Inv, NEW p \in Procs, Recycle(p) PROVE Kept(p)
<1>1. last \in Nat /\ last' = last
  BY DEF Inv, Recycle
<1>2. held[p] \in SUBSET Nat /\ free[p] \in SUBSET Nat /\ held[p] \cap free[p] = {}
  BY DEF Inv
<1>3. held'[p] \subseteq held[p] /\ free'[p] = free[p] \cup (held[p] \ held'[p])
  BY DEF Recycle
<1> QED
  BY <1>1, <1>2, <1>3 DEF Kept, Own

\* Ids that are lost go nowhere else.
LEMMA LoseKept ==
    ASSUME Inv, NEW p \in Procs, Lose(p) PROVE Kept(p)
<1>1. last \in Nat /\ last' = last
  BY DEF Inv, Lose
<1>2. held[p] \in SUBSET Nat /\ free[p] \in SUBSET Nat /\ held[p] \cap free[p] = {}
  BY DEF Inv
<1>3. held'[p] = held[p] /\ free'[p] \subseteq free[p]
  BY DEF Lose
<1> QED
  BY <1>1, <1>2, <1>3 DEF Kept, Own

\* A step of one process keeps the invariant: the new ids are beyond all the
\* ids of the others.
LEMMA OneProc ==
    ASSUME Inv, NEW p \in Procs, Kept(p), Only(p) PROVE Inv'
<1>1. last \in Nat /\ last' \in Nat /\ last' >= last
  BY DEF Inv, Kept
<1>2. held' \in [Procs -> SUBSET Nat] /\ free' \in [Procs -> SUBSET Nat]
  BY DEF Inv, Kept, Only
<1>3. ASSUME NEW q \in Procs, q # p
      PROVE held'[q] = held[q] /\ free'[q] = free[q] /\ Own(q)' = Own(q)
  BY <1>3 DEF Inv, Only, Own
<1>4. ASSUME NEW q \in Procs PROVE held'[q] \cap free'[q] = {}
  BY <1>3 DEF Inv, Kept
<1>5. Own(p)' \subseteq Own(p) \cup (last + 1)..last'
  BY DEF Kept, Own
<1>6. ASSUME NEW q \in Procs PROVE Own(q)' \subseteq 1..last'
  <2>1. Own(q) \subseteq 1..last
    BY DEF Inv
  <2>2. 1..last \subseteq 1..last' /\ (last + 1)..last' \subseteq 1..last'
    BY <1>1
  <2> QED
    BY <1>3, <1>5, <2>1, <2>2
<1>7. ASSUME NEW q \in Procs, q # p PROVE Own(p)' \cap Own(q)' = {}
  <2>1. Own(q) \subseteq 1..last /\ Own(p) \cap Own(q) = {}
    BY <1>7 DEF Inv
  <2>2. (last + 1)..last' \cap 1..last = {}
    BY <1>1
  <2> QED
    BY <1>3, <1>5, <1>7, <2>1, <2>2
<1>8. ASSUME NEW q \in Procs, NEW r \in Procs, q # r PROVE Own(q)' \cap Own(r)' = {}
  <2>1. CASE q = p
    BY <1>7, <1>8, <2>1
  <2>2. CASE r = p
    BY <1>7, <1>8, <2>2
  <2>3. CASE q # p /\ r # p
    <3>1. Own(q) \cap Own(r) = {}
      BY <1>8 DEF Inv
    <3> QED
      BY <1>3, <2>3, <3>1
  <2> QED
    BY <2>1, <2>2, <2>3
<1> QED
  BY <1>1, <1>2, <1>4, <1>6, <1>8 DEF Inv

\* The invariant holds in every state.
THEOREM Invariance == Spec => []Inv
<1>1. Init => Inv
  BY DEF Init, Inv, Own
<1>2. Inv /\ [Next]_vars => Inv'
  <2> SUFFICES ASSUME Inv, [Next]_vars PROVE Inv'
    OBVIOUS
  <2>1. ASSUME NEW p \in Procs, Request(p) PROVE Inv'
    BY <2>1, RequestKept, OneProc DEF Request
  <2>2. ASSUME NEW p \in Procs, Recycle(p) PROVE Inv'
    BY <2>2, RecycleKept, OneProc DEF Recycle
  <2>3. ASSUME NEW p \in Procs, Lose(p) PROVE Inv'
    BY <2>3, LoseKept, OneProc DEF Lose
  <2>4. CASE UNCHANGED vars
    BY <2>4 DEF vars, Inv, Own
  <2> QED
    BY <2>1, <2>2, <2>3, <2>4 DEF Next
<1> QED
  BY <1>1, <1>2, PTL DEF Spec

\* No id is used twice, nor used while it is free to be handed out, and every
\* id has been counted: for any processes and any order of their requests.
THEOREM NoIdTwice == Spec => []OnePlace
<1>1. Inv => OnePlace
  <2> SUFFICES ASSUME Inv, NEW p \in Procs, NEW q \in Procs
               PROVE /\ p # q => held[p] \cap held[q] = {} /\ free[p] \cap free[q] = {}
                     /\ held[p] \cap free[q] = {}
                     /\ held[p] \cup free[p] \subseteq 1..last
    BY DEF OnePlace
  <2>1. CASE p = q
    BY <2>1 DEF Inv, Own
  <2>2. CASE p # q
    <3>1. Own(p) \cap Own(q) = {} /\ Own(p) \subseteq 1..last
      BY <2>2 DEF Inv
    <3> QED
      BY <2>2, <3>1 DEF Own
  <2> QED
    BY <2>1, <2>2
<1> QED
  BY <1>1, Invariance, PTL
=============================================================================
