------------------------------ MODULE LastIds ------------------------------
(***************************************************************************)
(* Where ids (arid, orid, wfid ...) come from: the lastid tables of the    *)
(* databases, and the list of recycled ids that every geotool process      *)
(* keeps.  FFDatabase reads and rewrites a record of a lastid file; libgdb *)
(* does the same to a row of an SQL table that it has locked (rowLock).    *)
(***************************************************************************)
EXTENDS IdSegments

CONSTANTS
    Procs,          \* geotool processes that use the same lastid tables
    Tables,         \* the lastid tables, one for each database
    Keys,           \* keynames
    Increments,     \* what setRequestIdIncrement may be given
    Sizes,          \* how many ids may be requested at once
    Junk,           \* what may lie in memory behind the list
    NoProc,
    Setups          \* who uses the tables, and how: see Setup

ASSUME IncrementsAssumption == Increments \subseteq Nat \ {0} /\ 1 \in Increments
ASSUME SizesAssumption == Sizes \subseteq Nat \ {0}
ASSUME JunkAssumption == Junk \subseteq Nat
ASSUME NoProcAssumption == NoProc \notin Procs

ASSUME KeysAssumption == IsFiniteSet(Keys)

\* The processes and keynames in use; the values of the argument consecutive,
\* and how many ids may be requested at once; rowLock TRUE for libgdb ("select
\* ... for update"), FALSE for FFDatabase; and a bound: requests stop once a
\* keyvalue has reached max.
Setup == [procs : SUBSET Procs, keys : SUBSET Keys, modes : SUBSET BOOLEAN,
          sizes : SUBSET Sizes, rowLock : BOOLEAN, max : Nat]

ASSUME SetupsAssumption == Setups \subseteq Setup

VARIABLES
    setup,                  \* chosen once, for the whole life of the tables
    recycled, idIncrement,  \* of each process, for each keyname
    table,                  \* of each database: the records of its lastid table
    lock,                   \* of each database: who holds the lock of a row
    pc, op,                 \* of each process: its request in progress (<<>>: none)
    held                    \* of each process: the ids in use, by database and key

lists == <<recycled, idIncrement>>
vars  == <<setup, lists, table, lock, pc, op, held>>

Record == [keyname : Keys, keyvalue : Nat]
Op == [table : Tables, key : Keys, n : Nat, consecutive : BOOLEAN, got : Seq(Nat),
       tail : BOOLEAN, index : Nat, value : Nat]

\* The record of a key, 0 if there is none; its value, 0 if there is none.
RecordOf(t, k) == SelectInSeq(t, LAMBDA r : r.keyname = k)
Value(t, k)    == IF RecordOf(t, k) = 0 THEN 0 ELSE t[RecordOf(t, k)].keyvalue

Rec(k, v) == [keyname |-> k, keyvalue |-> v]

\* An SQL table has its rows; a lastid file may be empty.
Init ==
    /\ setup \in Setups
    /\ recycled = [p \in Procs |-> [k \in Keys |-> <<>>]]
    /\ idIncrement = [p \in Procs |-> [k \in Keys |-> 1]]
    /\ table \in [Tables -> {[i \in DOMAIN s |-> Rec(s[i], 0)] : s \in SetToSeqs(setup.keys)}
                            \cup IF setup.rowLock THEN {} ELSE {<<>>}]
    /\ lock = [t \in Tables |-> [k \in Keys |-> NoProc]]
    /\ pc = [p \in Procs |-> "idle"]
    /\ op = [p \in Procs |-> <<>>]
    /\ held = [p \in Procs |-> [t \in Tables |-> [k \in Keys |-> {}]]]

\* p is handed an array of ids.
Give(p, t, k, array) ==
    /\ pc' = [pc EXCEPT ![p] = "idle"] /\ op' = [op EXCEPT ![p] = <<>>]
    /\ held' = [held EXCEPT ![p][t][k] = @ \cup ToSet(array)]

-----------------------------------------------------------------------------
SetRequestIdIncrement(p, k, n) ==
    /\ pc[p] = "idle"
    /\ idIncrement' = [idIncrement EXCEPT ![p][k] = n]
    /\ UNCHANGED <<setup, recycled, table, lock, pc, op, held>>

\* Mutant: the ids taken stay in the list.
FromListKeep(p, t, k, n) ==
    /\ Len(TakeAny(recycled[p][k], n)) = n
    /\ Give(p, t, k, TakeAny(recycled[p][k], n))
    /\ UNCHANGED recycled

\* getRecycledIds finds all the ids asked for.
FromList(p, t, k, n) ==
    /\ Len(TakeAny(recycled[p][k], n)) = n
    /\ Give(p, t, k, TakeAny(recycled[p][k], n))
    /\ recycled' = [recycled EXCEPT ![p][k] = Without(@, n)]

FromSegment(p, t, k, n) ==
    LET i == FirstFit(recycled[p][k], n)
    IN  /\ i # 0
        /\ Give(p, t, k, SubSeq(IdSeq(recycled[p][k][i]), 1, n))
        /\ recycled' = [recycled EXCEPT ![p][k] = TakeRun(@, i, n)]

\* It does not, and getLastId is called for the others: for n ids that need
\* not be consecutive ...
ToTable(p, t, k, n) ==
    LET got == TakeAny(recycled[p][k], n)
    IN  /\ Len(got) < n
        /\ pc' = [pc EXCEPT ![p] = "read"]
        /\ op' = [op EXCEPT ![p] = [table |-> t, key |-> k, n |-> n, consecutive |-> FALSE,
                                    got |-> got, tail |-> FALSE, index |-> 0, value |-> 0]]
        /\ recycled' = [recycled EXCEPT ![p][k] = Without(@, n)]
        /\ UNCHANGED held

\* ... or for n consecutive ones, which may start in the last segment.
ToTail(p, t, k, n) ==
    /\ FirstFit(recycled[p][k], n) = 0
    /\ pc' = [pc EXCEPT ![p] = "read"]
    /\ op' = [op EXCEPT ![p] = [table |-> t, key |-> k, n |-> n, consecutive |-> TRUE,
                                got |-> <<>>, tail |-> recycled[p][k] # <<>>,
                                index |-> 0, value |-> 0]]
    /\ UNCHANGED <<recycled, held>>

\* requestIds (and getNextId, which asks for one id), up to getLastId.
RequestIds(p, t, k, n, consecutive) ==
    /\ pc[p] = "idle"
    /\ Value(table[t], k) < setup.max
    /\ IF consecutive
       THEN FromSegment(p, t, k, n) \/ ToTail(p, t, k, n)
       ELSE FromList(p, t, k, n) \/ ToTable(p, t, k, n)
    /\ UNCHANGED <<setup, idIncrement, table, lock>>

\* The ids wanted from the table, and the id that the last segment ends with.
Need(p) == IF op[p].tail
           THEN op[p].n - Last(recycled[p][op[p].key]).numValues
           ELSE op[p].n - Len(op[p].got)
TailEnd(p) == End(Last(recycled[p][op[p].key]))

\* Mutant: the row is read without a lock.
ReadNoLock(p) ==
    LET t == op[p].table
        k == op[p].key
        v == Value(table[t], k)
        i == RecordOf(table[t], k)
    IN  /\ pc[p] = "read"
        /\ \/ /\ op[p].tail => v = TailEnd(p)
              /\ pc' = [pc EXCEPT ![p] = "write"]
              /\ op' = [op EXCEPT ![p].value = v,
                                  ![p].index = IF i = 0 THEN Len(table[t]) + 1 ELSE i]
           \/ /\ op[p].tail /\ v # TailEnd(p)
              /\ op' = [op EXCEPT ![p].tail = FALSE]
              /\ UNCHANGED pc
    /\ UNCHANGED <<setup, lists, table, lock, held>>

\* The transactions of p in the databases T end: it holds no lock there.
Unlock(p, T) ==
    lock' = [t \in Tables |-> [k \in Keys |->
                IF t \in T /\ lock[t][k] = p THEN NoProc ELSE lock[t][k]]]

\* getLastId reads the record of the key, and locks it, unless p still has the lock.
\* An id list that does not end where the table goes on is of no use: the lock is
\* given up, and getLastId is called again for all the ids.
ReadLastId(p) ==
    LET t == op[p].table
        k == op[p].key
        v == Value(table[t], k)
        i == RecordOf(table[t], k)
    IN  /\ pc[p] = "read"
        /\ setup.rowLock => lock[t][k] \in {NoProc, p} /\ i # 0
        /\ \/ /\ op[p].tail => v = TailEnd(p)
              /\ pc' = [pc EXCEPT ![p] = "write"]
              /\ op' = [op EXCEPT ![p].value = v,
                                  ![p].index = IF i = 0 THEN Len(table[t]) + 1 ELSE i]
              /\ lock' = IF setup.rowLock THEN [lock EXCEPT ![t][k] = p] ELSE lock
           \/ /\ op[p].tail /\ v # TailEnd(p)
              /\ op' = [op EXCEPT ![p].tail = FALSE]
              /\ Unlock(p, {t})
              /\ UNCHANGED pc
    /\ UNCHANGED <<setup, lists, table, held>>

\* The table cannot be read, its lock is not granted in time, or the update of
\* the row is rolled back: requestIds returns -1, and the ids it took from the
\* list are lost.
RequestFails(p) ==
    /\ pc[p] = "read" \/ (setup.rowLock /\ pc[p] = "write")
    /\ pc' = [pc EXCEPT ![p] = "idle"] /\ op' = [op EXCEPT ![p] = <<>>]
    /\ Unlock(p, {op[p].table})
    /\ UNCHANGED <<setup, lists, table, held>>

\* libgdb fails before the select, or when it binds the keyvalue or fetches the
\* row, which it has locked: it returns -1 and does not end the transaction.
RequestFailsLocked(p) ==
    LET t == op[p].table
        k == op[p].key
    IN  /\ setup.rowLock /\ pc[p] = "read"
        /\ pc' = [pc EXCEPT ![p] = "idle"] /\ op' = [op EXCEPT ![p] = <<>>]
        /\ \/ UNCHANGED lock
           \/ lock[t][k] \in {NoProc, p} /\ lock' = [lock EXCEPT ![t][k] = p]
        /\ UNCHANGED <<setup, lists, table, held>>

\* How far the keyvalue moves: the ids needed, but at least idIncrement.
Step(p) == LET inc == idIncrement[p][op[p].key]
           IN  IF Need(p) >= inc THEN Need(p) ELSE inc

\* Mutant: the extra ids include the last of those that are needed.
ExtrasFrom(p, segs) ==
    IF Need(p) >= Step(p) THEN segs
    ELSE AddRecycleSegment(segs, op[p].value + Need(p), Step(p) - Need(p) + 1)

Extras(p, segs) ==
    IF Need(p) >= Step(p) THEN segs
    ELSE AddRecycleSegment(segs, op[p].value + Need(p) + 1, Step(p) - Need(p))

\* The record is written where it was read, or where the file ended.
Stored(p) ==
    LET t == table[op[p].table]
        r == Rec(op[p].key, op[p].value + Step(p))
    IN  IF op[p].index > Len(t) THEN Append(t, r) ELSE ReplaceAt(t, op[p].index, r)

\* getLastId writes the record, requestIds fills the array.  The result of
\* fclose, which does the writing, is ignored, and so is that of SQLEndTran, which
\* commits the update: the disk is assumed not full, and the commit to succeed.
WriteLastId(p) ==
    LET t == op[p].table
        k == op[p].key
        segs == Extras(p, recycled[p][k])
    IN  /\ pc[p] = "write"
        /\ table' = [table EXCEPT ![t] = Stored(p)]
        /\ Unlock(p, {t})
        /\ IF op[p].tail
           THEN \E junk \in Junk :
                  /\ Give(p, t, k, TakeTail(segs, op[p].n, junk))
                  /\ recycled' = [recycled EXCEPT ![p][k] = TailTaken(segs, op[p].n)]
           ELSE /\ Give(p, t, k, op[p].got \o [i \in 1..Need(p) |-> op[p].value + i])
                /\ recycled' = [recycled EXCEPT ![p][k] = segs]
        /\ UNCHANGED <<setup, idIncrement>>

\* The process gives back ids that it holds, in any order.
Recycle(p, t, k, array) ==
    /\ pc[p] = "idle"
    /\ recycled' = [recycled EXCEPT ![p][k] = RecycleIds(@, array)]
    /\ held' = [held EXCEPT ![p][t][k] = @ \ ToSet(array)]
    /\ UNCHANGED <<setup, idIncrement, table, lock, pc, op>>

\* The process ends or crashes, and is started again.  The ids it holds are in
\* rows of the database; its list is lost.
Restart(p) ==
    /\ pc' = [pc EXCEPT ![p] = "idle"] /\ op' = [op EXCEPT ![p] = <<>>]
    /\ recycled' = [recycled EXCEPT ![p] = [k \in Keys |-> <<>>]]
    /\ idIncrement' = [idIncrement EXCEPT ![p] = [k \in Keys |-> 1]]
    /\ Unlock(p, Tables)
    /\ UNCHANGED <<setup, table, held>>

\* Arrays of ids held; a bound, two at a time.
Arrays(S) == {<<i>> : i \in S} \cup {a \in S \X S : a[1] # a[2]}

Next == \E p \in setup.procs :
    \/ \E k \in setup.keys, n \in Increments : SetRequestIdIncrement(p, k, n)
    \/ \E t \in Tables, k \in setup.keys, n \in setup.sizes, c \in setup.modes :
           RequestIds(p, t, k, n, c)
    \/ ReadLastId(p) \/ RequestFails(p) \/ RequestFailsLocked(p) \/ WriteLastId(p)
    \/ \E t \in Tables, k \in setup.keys :
           \E array \in Arrays(held[p][t][k]) : Recycle(p, t, k, array)
    \/ Restart(p)

Spec == Init /\ [][Next]_vars

-----------------------------------------------------------------------------
(* What the ids promise *)

\* The ids that p may still be given without a look at the table.
Free(p, k) == Ids(recycled[p][k])
              \cup IF op[p] # <<>> /\ op[p].key = k THEN ToSet(op[p].got) ELSE {}

TypeOK ==
    /\ setup \in Setups
    /\ recycled \in [Procs -> [Keys -> Seq(Segment)]]
    /\ idIncrement \in [Procs -> [Keys -> Increments]]
    /\ table \in [Tables -> Seq(Record)]
    /\ lock \in [Tables -> [Keys -> Procs \cup {NoProc}]]
    /\ pc \in [Procs -> {"idle", "read", "write"}]
    /\ op \in [Procs -> Op \cup {<<>>}]
    /\ held \in [Procs -> [Tables -> [Keys -> SUBSET Nat]]]

\* No run of ids is asked for: TakeTail breaks what follows.
AnyIds == TRUE \notin setup.modes \/ setup.sizes \subseteq {1}

\* One process at a time reads and writes a record.
Serial == setup.rowLock \/ \A p, q \in setup.procs : p = q

\* The list of a keyname is shared by all the databases that a process has
\* open, so with two tables an id of one is given to the rows of the other.
OneTable == \A t, u \in Tables : t = u

\* An id of a database is in one place: with one process, which uses it or has
\* it in its list, or still to come from the table, where its keyname has one
\* record.  So no two rows get the same id, whatever was recycled, lost or
\* restarted before.
Unique == AnyIds /\ Serial /\ OneTable => \A t \in Tables :
    /\ \A k \in Keys, p, q \in Procs :
          /\ p # q => held[p][t][k] \cap held[q][t][k] = {} /\ Free(p, k) \cap Free(q, k) = {}
          /\ held[p][t][k] \cap Free(q, k) = {}
          /\ held[p][t][k] \cup Free(p, k) \subseteq 1..Value(table[t], k)
    /\ \A i, j \in DOMAIN table[t] : table[t][i].keyname = table[t][j].keyname => i = j

\* The list of recycled ids stays sorted, joined and without empty segments,
\* which the search for consecutive ids relies on.
ListCanonical == AnyIds /\ Serial /\ OneTable =>
    \A p \in Procs, k \in Keys : Canonical(recycled[p][k])

\* "The keyvalue of the lastid table is returned in keyvalue and incremented by
\* numRequested": the record moves on from what it holds, by the ids needed or
\* by idIncrement, and no other record changes.
NoLostUpdate == [][Serial => \A p \in Procs : WriteLastId(p) =>
    \A t \in Tables, k \in Keys :
        Value(table'[t], k) = Value(table[t], k)
                              + IF op[p].table = t /\ op[p].key = k THEN Step(p) ELSE 0]_vars

\* The ids of a keyname in one database are a pool.
Pool(t, k) == INSTANCE IdPool WITH
                  last <- Value(table[t], k),
                  held <- [p \in Procs |-> held[p][t][k]],
                  free <- [p \in Procs |-> Free(p, k)]

\* Segments, lists, reads and writes of the lastid table are, for each keyname,
\* moves of ids from one place to another.
PoolSpec ==
    /\ \A t \in Tables, k \in Keys : Pool(t, k)!Init
    /\ [][AnyIds /\ Serial /\ OneTable => \A t \in Tables, k \in Keys :
            Pool(t, k)!Next \/ UNCHANGED Pool(t, k)!vars]_vars

\* "Set to 1 to request consecutive ids."
ConsecutiveIds == [][\A p \in Procs, t \in Tables, k \in Keys, n \in Sizes :
    LET given == held'[p][t][k] \ held[p][t][k]
    IN  /\ given # {}
        /\ RequestIds(p, t, k, n, TRUE) \/ (WriteLastId(p) /\ op[p].consecutive /\ op[p].n = n)
        => \E i \in given : given = i..(i + n - 1)]_vars
=============================================================================
