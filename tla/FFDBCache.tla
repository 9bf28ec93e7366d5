----------------------------- MODULE FFDBCache -----------------------------
(***************************************************************************)
(* Table files of a flat-file database, and the copies of them that every  *)
(* open FFDatabase keeps in memory (mem_files).  An FFDatabase belongs to  *)
(* one process; several processes, or several FFDatabases of one process,  *)
(* use the same files without a lock.  A copy is checked against the       *)
(* modification time of its file whenever a query opens the file.          *)
(*                                                                         *)
(* One thread at a time runs inside an FFDatabase (see FFDBQuery), but its *)
(* queries stop between two rows, while other queries and inserts run.     *)
(***************************************************************************)
EXTENDS Integers, SequencesExt

CONSTANTS
    FFDBs,          \* the open FFDatabases
    Queries,        \* the queries of an FFDatabase
    Files,          \* table files
    MaxRecords,     \* max_mem_file_records
    Setups,         \* who writes, and how: see Setup
    MaxRows,        \* bound: rows written to the files
    MaxTime         \* bound: the clock

\* The FFDatabases that insert rows, those that rewrite them, and those with
\* queries; how many rows each file has at the start; whether st_mtime counts
\* seconds, or every write gets a time of its own; whether a row that cannot be
\* parsed may be written to a file by hand; whether stat, fopen and writes may fail.
Setup == [inserters : SUBSET FFDBs, updaters : SUBSET FFDBs, readers : SUBSET FFDBs,
          first : Nat, ticks : BOOLEAN, malformed : BOOLEAN, faults : BOOLEAN]

ASSUME SetupsAssumption == Setups \subseteq Setup
ASSUME MaxRecordsAssumption == MaxRecords \in Nat
ASSUME BoundsAssumption == MaxRows \in Nat /\ MaxTime \in Nat

\* A row of a file: which one, and its version; version 0 cannot be parsed.
Row == [id : Nat, ver : 0..2]
New(n) == [id |-> n, ver |-> 1]

VARIABLES
    setup,              \* chosen once
    rows, mtime,        \* of each file: its rows and its modification time
    now, written,       \* the clock; how many rows were written
    stat, records,      \* of each FFDatabase, for each file: file_stat (or Absent, or
                        \* Unread) and the records of its copy
    memRecords,         \* of each FFDatabase: mem_file_records
    busy,               \* of each FFDatabase: an insert or an openFile half done
    query,              \* of each FFDatabase: its queries (<<>>: no file open)
    failed              \* only for the properties: of each FFDatabase, the files whose
                        \* copy has met a failure since it was read last

disk == <<rows, mtime, now, written>>
mem  == <<stat, records, memRecords, failed>>
vars == <<setup, disk, mem, busy, query>>

Inserters == setup.inserters
Updaters  == setup.updaters
Readers   == setup.readers
Ticks     == setup.ticks
Malformed == setup.malformed
Faulty    == setup.faults

\* A file that is not in mem_files; and one whose file_stat was set to zeros "to
\* force another read attempt": no file has such a time.
Absent == 0
Unread == 1

\* busy: insertTable has looked for the end of the file, or written the row.
Inserting == [op : {"seek", "written"}, file : Files, id : Nat, pos : Nat]
\* busy: openFile has called stat, which counted num rows at time time.
Opening == [op : {"first", "again"}, query : Queries, file : Files, num : Nat, time : Nat]

\* An open file: from the copy in memory, from a copy that clearTables has
\* taken away, or row by row from the file; the number of rows read, of those
\* that openFile counted, and the id of the last row read.
Reading == [file : Files, src : {"mem", "own", "fp"}, own : Seq(Row),
            pos : Nat, num : Nat, last : Nat]

Cursor(f, s, n) == [file |-> f, src |-> s, own |-> <<>>, pos |-> 0, num |-> n, last |-> 0]

Init ==
    /\ setup \in Setups
    /\ rows = [f \in Files |-> [i \in 1..setup.first |-> New(i)]] /\ mtime = [f \in Files |-> 2]
    /\ now = 2 /\ written = setup.first
    /\ stat = [d \in FFDBs |-> [f \in Files |-> Absent]]
    /\ records = [d \in FFDBs |-> [f \in Files |-> <<>>]]
    /\ memRecords = [d \in FFDBs |-> 0]
    /\ busy = [d \in FFDBs |-> <<>>]
    /\ query = [d \in FFDBs |-> [q \in Queries |-> <<>>]]
    /\ failed = [d \in FFDBs |-> {}]

\* The copy of f in d has met a failure.
Fails(d, f) == failed' = [failed EXCEPT ![d] = @ \cup {f}]

\* The time that a write of f sets.
Stamp(f) == IF Ticks THEN now ELSE mtime[f] + 1

Tick == /\ Ticks /\ now < MaxTime
        /\ now' = now + 1
        /\ UNCHANGED <<rows, mtime, written, mem, busy, query>>

-----------------------------------------------------------------------------
(* Inserts and updates *)

\* insertTable, writeTable: the file is opened and its end looked for ...
InsertSeek(d, f) ==
    /\ busy[d] = <<>> /\ written < MaxRows
    /\ written' = written + 1
    /\ busy' = [busy EXCEPT ![d] = [op |-> "seek", file |-> f, id |-> written + 1,
                                    pos |-> Len(rows[f]) + 1]]
    /\ UNCHANGED <<rows, mtime, now, mem, query>>

\* ... the row is written there, when fclose empties the buffer ...
InsertWrite(d) ==
    /\ busy[d] # <<>> /\ busy[d].op = "seek"
    /\ LET f == busy[d].file
           r == New(busy[d].id)
       IN  /\ rows' = [rows EXCEPT ![f] = IF busy[d].pos > Len(@) THEN Append(@, r)
                                          ELSE ReplaceAt(@, busy[d].pos, r)]
           /\ mtime' = [mtime EXCEPT ![f] = Stamp(f)]
    /\ busy' = [busy EXCEPT ![d].op = "written"]
    /\ UNCHANGED <<now, written, mem, query>>

\* updateFile adds the row to the copy in memory, and asks for the time.
UpdateCopy(d) ==
    LET f == busy[d].file
    IN  IF stat[d][f] = Absent THEN UNCHANGED <<stat, records>>
        ELSE /\ records' = [records EXCEPT ![d][f] = Append(@, New(busy[d].id))]
             /\ stat' = [stat EXCEPT ![d][f] = mtime[f]]

\* Mutant: the copy gets the new time, but not the row.
UpdateFileStat(d) ==
    /\ busy[d] # <<>> /\ busy[d].op = "written"
    /\ LET f == busy[d].file
       IN  stat' = [stat EXCEPT ![d][f] = IF @ = Absent THEN Absent ELSE mtime[f]]
    /\ busy' = [busy EXCEPT ![d] = <<>>]
    /\ UNCHANGED <<disk, records, memRecords, query, failed>>

\* Mutant: the row goes in front of the copy, which keeps the old time.
UpdateFileRow(d) ==
    /\ busy[d] # <<>> /\ busy[d].op = "written"
    /\ LET f == busy[d].file
       IN  records' = [records EXCEPT ![d][f] =
                           IF stat[d][f] = Absent THEN @ ELSE <<New(busy[d].id)>> \o @]
    /\ busy' = [busy EXCEPT ![d] = <<>>]
    /\ UNCHANGED <<disk, stat, memRecords, query, failed>>

\* ... and updateFile is called.
UpdateFile(d) ==
    /\ busy[d] # <<>> /\ busy[d].op = "written"
    /\ UpdateCopy(d)
    /\ busy' = [busy EXCEPT ![d] = <<>>]
    /\ UNCHANGED <<disk, memRecords, query, failed>>

\* updateFile whose stat fails: the row is in the copy, which keeps the old time.
UpdateFileFails(d) ==
    /\ busy[d] # <<>> /\ busy[d].op = "written"
    /\ LET f == busy[d].file
       IN  /\ stat[d][f] # Absent
           /\ records' = [records EXCEPT ![d][f] = Append(@, New(busy[d].id))]
           /\ Fails(d, f)
    /\ busy' = [busy EXCEPT ![d] = <<>>]
    /\ UNCHANGED <<disk, stat, memRecords, query>>

\* The file cannot be written.  writeTable and writeStaticTable return; but
\* insertPrefixTable calls updateFile all the same, and so do all three when the
\* row is lost by fclose, whose result nobody reads.
InsertFails(d) ==
    /\ busy[d] # <<>> /\ busy[d].op = "seek"
    /\ \/ UNCHANGED <<stat, records, failed>>
       \/ UpdateCopy(d) /\ Fails(d, busy[d].file)
    /\ busy' = [busy EXCEPT ![d] = <<>>]
    /\ UNCHANGED <<disk, memRecords, query>>

\* update rewrites a row in place and leaves the copy alone.
Update(d, f, i) ==
    /\ busy[d] = <<>>
    /\ rows[f][i].ver = 1
    /\ rows' = [rows EXCEPT ![f][i].ver = 2]
    /\ mtime' = [mtime EXCEPT ![f] = Stamp(f)]
    /\ UNCHANGED <<now, written, mem, busy, query>>

\* A row of the wrong format reaches the file from outside the program.
EditByHand(f) ==
    /\ Malformed /\ written < MaxRows
    /\ written' = written + 1
    /\ rows' = [rows EXCEPT ![f] = Append(@, [id |-> written + 1, ver |-> 0])]
    /\ mtime' = [mtime EXCEPT ![f] = Stamp(f)]
    /\ UNCHANGED <<now, mem, busy, query>>

-----------------------------------------------------------------------------
(* Queries *)

\* The rows before the first malformed one: what readFile puts in records.
Parsed(s) == SelectInSeq(s, LAMBDA r : r.ver = 0)
Readable(s) == IF Parsed(s) = 0 THEN s ELSE SubSeq(s, 1, Parsed(s) - 1)

\* openFile of a file in memory whose time has not changed.
OpenHit(d, q, f) ==
    /\ busy[d] = <<>> /\ query[d][q] = <<>>
    /\ stat[d][f] # Absent /\ stat[d][f] = mtime[f]
    /\ query' = [query EXCEPT ![d][q] = Cursor(f, "mem", Len(rows[f]))]
    /\ UNCHANGED <<disk, mem, busy>>

\* openFile of a file in memory whose time has changed: readFile stores the new
\* time and empties the copy, before it tries to open the file.
OpenAgain(d, q, f) ==
    /\ busy[d] = <<>> /\ query[d][q] = <<>>
    /\ stat[d][f] # Absent /\ stat[d][f] # mtime[f]
    /\ stat' = [stat EXCEPT ![d][f] = mtime[f]]
    /\ records' = [records EXCEPT ![d][f] = <<>>]
    /\ busy' = [busy EXCEPT ![d] = [op |-> "again", query |-> q, file |-> f,
                                    num |-> Len(rows[f]), time |-> mtime[f]]]
    /\ UNCHANGED <<disk, memRecords, query, failed>>

\* openFile of a file in memory, and stat fails: the query fails, the copy is
\* emptied, and will be read again.  (A file that is not in memory, whose stat or
\* fopen fails, changes nothing.)
OpenFails(d, q, f) ==
    /\ busy[d] = <<>> /\ query[d][q] = <<>>
    /\ stat[d][f] # Absent
    /\ stat' = [stat EXCEPT ![d][f] = Unread]
    /\ records' = [records EXCEPT ![d][f] = <<>>]
    /\ Fails(d, f)
    /\ UNCHANGED <<disk, memRecords, busy, query>>

\* openFile of a file that is not in memory, and fits.
OpenFirst(d, q, f) ==
    /\ busy[d] = <<>> /\ query[d][q] = <<>> /\ stat[d][f] = Absent
    /\ memRecords[d] + Len(rows[f]) < MaxRecords
    /\ busy' = [busy EXCEPT ![d] = [op |-> "first", query |-> q, file |-> f,
                                    num |-> Len(rows[f]), time |-> mtime[f]]]
    /\ UNCHANGED <<disk, mem, query>>

\* openFile of one that does not fit: it is read row by row.
OpenStream(d, q, f) ==
    /\ busy[d] = <<>> /\ query[d][q] = <<>> /\ stat[d][f] = Absent
    /\ memRecords[d] + Len(rows[f]) >= MaxRecords
    /\ query' = [query EXCEPT ![d][q] = Cursor(f, "fp", Len(rows[f]))]
    /\ UNCHANGED <<disk, mem, busy>>

\* readFile reads as many rows as stat has counted.  After a malformed row the
\* query fails: a new copy is thrown away, an old one is kept as it is.
LoadAgain(d) ==
    /\ busy[d] # <<>> /\ busy[d].op = "again"
    /\ LET f == busy[d].file
           s == SubSeq(rows[f], 1, busy[d].num)
       IN  /\ records' = [records EXCEPT ![d][f] = Readable(s)]
           /\ IF Parsed(s) # 0 THEN UNCHANGED query /\ Fails(d, f)
              ELSE /\ query' = [query EXCEPT ![d][busy[d].query] = Cursor(f, "mem", busy[d].num)]
                   /\ failed' = [failed EXCEPT ![d] = @ \ {f}]
    /\ busy' = [busy EXCEPT ![d] = <<>>]
    /\ UNCHANGED <<disk, stat, memRecords>>

LoadFirst(d) ==
    /\ busy[d] # <<>> /\ busy[d].op = "first"
    /\ LET f == busy[d].file
       IN  IF Parsed(rows[f]) # 0 THEN UNCHANGED <<mem, query>>
           ELSE /\ records' = [records EXCEPT ![d][f] = rows[f]]
                /\ stat' = [stat EXCEPT ![d][f] = busy[d].time]
                /\ memRecords' = [memRecords EXCEPT ![d] = @ + busy[d].num]
                /\ query' = [query EXCEPT ![d][busy[d].query] = Cursor(f, "mem", busy[d].num)]
                /\ failed' = [failed EXCEPT ![d] = @ \ {f}]
    /\ busy' = [busy EXCEPT ![d] = <<>>]
    /\ UNCHANGED disk

\* fopen fails.  A new copy is thrown away; an old one stays empty, with the time
\* of the file: the next openFile takes it for current.
LoadFails(d) ==
    /\ busy[d] # <<>>
    /\ \/ busy[d].op = "first" /\ UNCHANGED failed
       \/ busy[d].op = "again" /\ Fails(d, busy[d].file)
    /\ busy' = [busy EXCEPT ![d] = <<>>]
    /\ UNCHANGED <<disk, stat, records, memRecords, query>>

\* What the query has before it.
Source(d, q) == LET c == query[d][q]
                IN  CASE c.src = "mem" -> records[d][c.file]
                      [] c.src = "own" -> c.own
                      [] c.src = "fp"  -> rows[c.file]

\* Mutant: pos belongs to the file, not to the query.
ReadShared(d, q) ==
    /\ busy[d] = <<>> /\ query[d][q] # <<>>
    /\ LET c == query[d][q]
       IN  /\ c.pos < Len(Source(d, q)) /\ Source(d, q)[c.pos + 1].ver # 0
           /\ query' = [query EXCEPT ![d] =
                 [p \in Queries |->
                    IF p = q THEN [c EXCEPT !.pos = @ + 1, !.last = Source(d, q)[c.pos + 1].id]
                    ELSE IF query[d][p] # <<>> /\ query[d][p].file = c.file
                    THEN [query[d][p] EXCEPT !.pos = c.pos + 1] ELSE query[d][p]]]
    /\ UNCHANGED <<disk, mem, busy>>

\* FFDBReadFile: the next row ...
ReadRow(d, q) ==
    /\ busy[d] = <<>> /\ query[d][q] # <<>>
    /\ LET c == query[d][q]
       IN  /\ c.pos < Len(Source(d, q)) /\ Source(d, q)[c.pos + 1].ver # 0
           /\ query' = [query EXCEPT ![d][q].pos = @ + 1,
                                     ![d][q].last = Source(d, q)[c.pos + 1].id]
    /\ UNCHANGED <<disk, mem, busy>>

\* ... or the end of the file.
ReadEnd(d, q) ==
    /\ busy[d] = <<>> /\ query[d][q] # <<>>
    /\ query[d][q].pos >= Len(Source(d, q))
    /\ query' = [query EXCEPT ![d][q] = <<>>]
    /\ UNCHANGED <<disk, mem, busy>>

\* A malformed row, or the query is deleted before the end.
ReadStop(d, q) ==
    /\ busy[d] = <<>> /\ query[d][q] # <<>>
    /\ query' = [query EXCEPT ![d][q] = <<>>]
    /\ UNCHANGED <<disk, mem, busy>>

\* Mutant: mem_file_records is reduced by what the copies hold now.
ClearCounted(d) ==
    /\ busy[d] = <<>>
    /\ stat' = [stat EXCEPT ![d] = [f \in Files |-> Absent]]
    /\ records' = [records EXCEPT ![d] = [f \in Files |-> <<>>]]
    /\ memRecords' = [memRecords EXCEPT ![d] =
                        @ - FoldLeft(LAMBDA n, f : n + Len(records[d][f]), 0, SetToSeq(Files))]
    /\ query' = [query EXCEPT ![d] = [q \in Queries |-> <<>>]]
    /\ UNCHANGED <<disk, busy, failed>>

\* Mutant: the records go although a query still reads them.
ClearShared(d) ==
    /\ busy[d] = <<>>
    /\ stat' = [stat EXCEPT ![d] = [f \in Files |-> Absent]]
    /\ records' = [records EXCEPT ![d] = [f \in Files |-> <<>>]]
    /\ UNCHANGED <<disk, memRecords, busy, query, failed>>

\* clearTables: the copies go, but a query keeps the one that it is reading.
\* mem_file_records still counts them.
Clear(d) ==
    /\ busy[d] = <<>>
    /\ stat' = [stat EXCEPT ![d] = [f \in Files |-> Absent]]
    /\ records' = [records EXCEPT ![d] = [f \in Files |-> <<>>]]
    /\ query' = [query EXCEPT ![d] = [q \in Queries |->
                    LET c == query[d][q]
                    IN  IF c # <<>> /\ c.src = "mem"
                        THEN [c EXCEPT !.src = "own", !.own = records[d][c.file]] ELSE c]]
    /\ failed' = [failed EXCEPT ![d] = {}]
    /\ UNCHANGED <<disk, memRecords, busy>>

-----------------------------------------------------------------------------
Insert(d) == \/ \E f \in Files : InsertSeek(d, f)
             \/ InsertWrite(d) \/ UpdateFile(d)

Open(d, q, f) == \/ OpenHit(d, q, f) \/ OpenAgain(d, q, f)
                 \/ OpenFirst(d, q, f) \/ OpenStream(d, q, f)

\* A call of the system fails.
Fault(d) == \/ UpdateFileFails(d) \/ InsertFails(d) \/ LoadFails(d)
            \/ d \in Readers /\ \E q \in Queries, f \in Files : OpenFails(d, q, f)

Step == \/ Tick
        \/ \E f \in Files : EditByHand(f)
        \/ \E d \in Inserters : Insert(d)
        \/ \E d \in Updaters, f \in Files : \E i \in DOMAIN rows[f] : Update(d, f, i)
        \/ \E d \in FFDBs :
              \/ d \in Readers /\ \E q \in Queries, f \in Files : Open(d, q, f)
              \/ LoadAgain(d) \/ LoadFirst(d) \/ Clear(d)
              \/ \E q \in Queries : ReadRow(d, q) \/ ReadEnd(d, q) \/ ReadStop(d, q)
              \/ Faulty /\ Fault(d)

Next == Step /\ UNCHANGED setup

Spec == Init /\ [][Next]_vars

-----------------------------------------------------------------------------
(* What a query sees *)

TypeOK ==
    /\ setup \in Setups
    /\ rows \in [Files -> Seq(Row)] /\ mtime \in [Files -> Nat]
    /\ now \in Nat /\ written \in Nat
    /\ stat \in [FFDBs -> [Files -> Nat]]
    /\ records \in [FFDBs -> [Files -> Seq(Row)]]
    /\ memRecords \in [FFDBs -> Nat]
    /\ busy \in [FFDBs -> Inserting \cup Opening \cup {<<>>}]
    /\ query \in [FFDBs -> [Queries -> Reading \cup {<<>>}]]
    /\ failed \in [FFDBs -> SUBSET Files]

\* The copy of f in d is not one that openFile would use as it is, or it holds
\* the rows of the file.
Current(d, f) ==
    busy[d] = <<>> /\ stat[d][f] # Absent /\ stat[d][f] = mtime[f] => records[d][f] = rows[f]

\* "Repeated calls with the same file will only read if the file stat structure
\* has changed (the file has been modifed)": a copy that is used as it is holds
\* the rows of the file, whoever has written to it meanwhile.
HitIsCurrent == \A d \in FFDBs, f \in Files : Current(d, f)

\* The condition under which the code keeps to it: every write has a time of its
\* own, no row is malformed, and either one FFDatabase inserts and none updates,
\* or none inserts.
Quiet == /\ ~Ticks /\ ~Malformed
         /\ \/ Updaters = {} /\ \A d, e \in Inserters : d = e
            \/ Inserters = {}

\* HitIsCurrent in a Quiet setup, whatever queries and clearTables do between
\* two steps of an insert, a load, or another query.  A copy that has met a
\* failure of stat, of fopen or of a write need not be current; but once it is
\* read again, or cleared, it is as good as any other.
Coherent == Quiet => \A d \in FFDBs, f \in Files : f \notin failed[d] => Current(d, f)

\* One FFDatabase inserts.  Two that look for the end of a file before either
\* writes would write one row over the other's, and updateFile would add a row
\* to a copy that does not have the row before it.
OneInserter == \A d, e \in Inserters : d = e

\* An insert shows in the time of the file, or no FFDatabase that has queries has
\* to learn of it: the only rows inserted are its own.
InsertsShow == Ticks => \A d \in Readers : Inserters \subseteq {d}

\* What the query reads has not met a failure: it is the file itself, or a copy
\* that was read, as a whole, after every failure.  (A copy that clearTables has
\* taken away may have met one before.)
Unharmed(d, q) == Faulty => \/ query[d][q].src = "fp"
                            \/ query[d][q].src = "mem" /\ query[d][q].file \notin failed[d]

\* A query that reaches the end of a file has read at least as many rows as the
\* file had when the query opened it, although between two rows other queries
\* read the file again, the copy is cleared, and rows are inserted (none of them
\* malformed); also when the file could not be opened for a while.
EndIsComplete == [][~Malformed /\ OneInserter /\ InsertsShow =>
    \A d \in FFDBs, q \in Queries :
        ReadEnd(d, q) /\ Unharmed(d, q) => query[d][q].pos >= query[d][q].num]_vars

\* No row of a file is read twice by a query, not even one that reads a stale
\* copy and then the one that replaces it.  Where fopen fails, an insert goes to
\* the front of an empty copy, and its row is read again behind the others.
NoRowAgain == [][~Faulty /\ OneInserter => \A d \in FFDBs, q \in Queries :
    ReadRow(d, q) => query'[d][q].last > query[d][q].last]_vars

\* Even where a copy can be stale (files of one second, malformed rows), it holds
\* rows of its file, each once, in the order of the file: no row was added to it
\* before it reached the file, and none twice, by a load and by updateFile.  Where
\* writes fail, updateFile adds rows that never reach it.
CopyInOrder == ~Faulty /\ OneInserter => \A d \in FFDBs, f \in Files :
    /\ \A i \in 2..Len(records[d][f]) : records[d][f][i - 1].id < records[d][f][i].id
    /\ \A i \in DOMAIN records[d][f] : \E j \in DOMAIN rows[f] : rows[f][j].id = records[d][f][i].id
=============================================================================
