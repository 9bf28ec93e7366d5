# geotool: a verification project

TLA+ models of geotool (C and C++, the waveform analysis program of the IDC and
its libraries), checked with TLC and, where the argument is about every size,
proved with TLAPS. Paths below are relative to the repository's root, `src/`
here. The sections are: what the system consists of, which module models which
part, what each run checks, what is proved, what was found, what is assumed or
left out, and the plan.

## 1. The system

geotool is one interactive program. Most of it runs in one thread, the Xt event
loop of Motif; two components start a second thread, and several processes of
several analysts share files and an SQL database. The parts with state and
control of their own are these.

| Part | Keeps | Operations | Talks to | What is hard |
|---|---|---|---|---|
| Flat-file database, queries (`geotool/libsrc/libgio/FFDatabase.cpp`) | an `FFDBQuery`: a search thread, two semaphores, the batch (`records`, `num_fetched`, `buffer_limit`) | `queryTable`, `getResults`, `~FFDBQuery`; the thread walks stations, directories, files, rows | the caller (GUI thread) through semaphores, files through the cache below | two threads without a lock; the batch limit; the end of a search told by a semaphore's value; deletion at any time; unreadable files |
| Flat-file database, table files | `mem_files`: copies of files with their `stat` structure, `mem_file_records` | `openFile`, `readFile`, `insertTable`, `updateFile`, `update`, `clearTables` | other FFDatabases of this and other processes through the files; queries that stop between two rows | stale copies; a copy that changes under a query that reads it; writes without a lock |
| Ids (`FFDatabase.cpp`, `geotool/libsrc/libgdb/ODBCRequestIds.cpp`) | the `lastid` table (a file, or an SQL row), a list of recycled segments per process, `idIncrement` | `getNextId`, `requestIds`, `recycleIds`, `setRequestIdIncrement` | other processes through the table | two processes that read the same value; off by one at the ends of a segment; failures between two steps; restarts |
| Script input (`geotool/libsrc/libmotif++/AppParse.cpp`, `Application.cpp`) | a reader thread, `parse_line`, `input_ready`, `sem_stdin`, `sem_work`, the Xt queue and timers | `readInput`, `parseCmdCallback`, the event loop of `parseCommand`, `parseWait`, `parseContinue`, `parseCallback` | the GUI's callbacks, which execute scripts too | two threads; event loops inside event loops; a dummy event that ends a wait |
| Script control structures (`AppParse.cpp`) | per file a stack of conditionals, a stack of loops, two counters | `parseCommand`, `conditionalCmd`, `foreachCmd`, `processForeach`, `parseFile` | components, through commands | no syntax tree: every line is classified by counters and modes; break, return and failure inside nested blocks |
| Script variables and commands (`AppParse.cpp`, `Application.cpp`) | variable tables | assignment, expressions, tables, aliases | components | parsing of strings |
| Waveforms, history (`geotool/libsrc/libgobject++/DataMethod.cpp`, `GTimeSeries.cpp`, `libgmethod++`, `libgx++/WaveformView.cpp`) | a `GTimeSeries` with its data, a copy of its raw data for beams, and a list of `DataMethod`s; the display's list of `UndoCut`s; a clipboard | apply, change, remove, rotate, cut, copy, paste, undo, clear; `reread` and replay | data sources, which read the files again | list and data change at different times; a replay that stops; methods bound to an object that a cut replaces |
| Waveforms, segments (`GTimeSeries.cpp`, `GSegment.cpp`, `libgx++/BasicSource.cpp`) | segments: begin, interval, samples | `addSegment`, `joinSegments`, `subseries`, `truncate`, `CutData` | the history, which cuts and copies | pieces that overlap in every way; rounding of times to indices |
| Ownership, message passing (`libgobject++/gobject.cpp`, `libgx++/IPC*.cpp`) | a list of owners; registered receivers | add and remove owner; connect, send | everything; other processes | a receiver or owner that has gone |
| Undo log of CSS files (`libgio/cssInput.cpp`) | a backup file of changed rows | write, `processBackup` | CSS files | a crash between two writes |
| Detection, masks (`gbase/libsrc/libgstalta`, `libgqc`, `cbase/libsrc/libaesir`) | recursive averages, triggers; masks of samples | per buffer of samples | plug-ins | a trigger across two buffers; intervals that touch |
| Numerical libraries (`libloc`, `libLP`, `libtau`, `libgeog`, `libmagnitude`, `libgamp`, `libcalib`, `libgCDF`, `libgbeam`, `libgmath`, `libgresp++`, ...) | floating-point data | travel times, inversion, filters | | numerical |
| Formats (`libcancomp`, `libidcseed`, most of `libgio`) | none | read, write | files | formats |
| SQL access (`libgdb`) | connections | statements | the server | external I/O |
| Interface (`libgx++`, `libmotif++`, `libgplot`, `libdrawx`, `libwgets`), plug-ins | widgets | callbacks | everything above | layout |

What makes each part correct, in a line each: a query hands over every row once,
in order, and never while its caller is not waiting; a copy in memory that is
used equals its file, and a change of a copy does not disturb a query that reads
it; an id is given once, by whichever process and whatever was recycled; each
line of input is executed once, in order, and the user gets a prompt again; a
script executes the lines that its blocks say; the list of methods of a waveform
tells what its data are, and what was cut can be brought back; a new piece of
data replaces old data where they overlap and nothing else is lost, moved or
doubled.

`PROJECT.json` lists every component with its files, and all hazards with the
line where each one bites.

## 2. The modules

| Module | Models | Kind |
|---|---|---|
| `RowStream` | what a query promises: a stream of rows with a cursor, from which each call takes the next ones | abstract specification |
| `FFDBQuery` | `getResults`, `~FFDBQuery`, `FFDBSearch`, `searchFlatDB`, `wfdiscSearch`, `searchFlatFileDB`, `doStaticPrimary`, `processFile` | detailed |
| `FFDBQueryStream` | the mapping from `FFDBQuery` to `RowStream` | refinement |
| `MCFFDBQuery` | the databases for TLC | model |
| `FFDBQuery_proofs` | theorems about `FFDBQuery`, which implements `RowStream` | proofs |
| `FFDBCache` | table files and their copies in every FFDatabase | detailed |
| `MCFFDBCache` | who writes and who reads, for TLC | model |
| `FFDBCache_proofs` | theorems about `FFDBCache` | proofs |
| `IdPool` | what the ids promise: every id is with one process, or not given yet | abstract specification |
| `IdSegments` | the list of recycled segments: take and give back, as pure operators | operators |
| `LastIds` | requests, recycling, the lastid table as a file or an SQL row, and the mapping to `IdPool` | detailed, refinement |
| `MCLastIds` | who requests, for TLC | model |
| `IdPool_proofs` | theorem about `IdPool` | proofs |
| `LastIds_proofs` | what the operations of `IdSegments` do, for lists of any length; theorems about `LastIds`, which implements `IdPool` | proofs |
| `ScriptInput` | the reader thread, the timer, waits, events, callbacks | detailed |
| `ScriptInput_proofs` | theorems about `ScriptInput` | proofs |
| `ScriptControl` | the control structures of scripts | detailed |
| `MCScriptControl` | what a script means, by recursion, and about 3400 scripts | reference and model |
| `ScriptControl_proofs` | theorems about `ScriptControl` | proofs |
| `DataMethod` | the processing history of waveforms, cut, copy, paste and undo | detailed |
| `MCDataMethod` | displays for TLC | model |
| `DataMethod_proofs` | theorems about `DataMethod` | proofs |
| `GTimeSeries` | segments: adding, joining, windows, cuts | pure operators and a machine that uses them |
| `MCGTimeSeries` | pieces of data and windows for TLC | model |
| `GTimeSeries_proofs` | theorems about `GTimeSeries` | proofs |

Operators named "Mutant: ..." are plausible bugs of the definition that follows
them; no specification uses them. Substituting one for that definition makes TLC
refute the property that `PROJECT.json` pairs with it, which shows that the
property depends on that code.

### FFDBQuery: two threads and two semaphores

`mpc` is the place of the calling thread (`idle` outside any call, `getvalue`,
`release`, `wait`, `collect` inside `getResults`, `dtor`, `join`, `gone` in the
destructor), `tpc` that of the search thread. The boundaries of actions are
the semaphore calls and the steps of the search loops, so that every
interleaving that can matter occurs: between two of them, a thread touches only
what the other one does not, which is what `Exclusive` says. `at` is the cursor
of the loops (station, directory, file, row, combination of secondary rows),
`bound` is the vector that the reference taken once in the search names, and
`dirRet` the return value of a directory, which decides whether an error stops
the search. Errors are part of the database: a root, directory or file that
cannot be opened, a file that breaks off. With a `directory_structure` of several
levels, a directory above the files that cannot be opened ends the search of its
root if it is in the root itself (`top`), and is passed over if it is deeper. What
a caller is told of an error is in `RowStream`: `Documented` is the comment at
`FFDatabase.cpp:756`, "the number of rows fetched or -1 for failure", `Returned`
what lines 789 to 793 do (section 6). `sem_getvalue` on `search_sem` is how
`getResults` sees that a search has ended, and it is an action of its own.

### FFDBCache: files and copies

Every FFDatabase keeps for each file the modification time it has seen (`stat`)
and the rows it holds (`records`); an insert and an opening are divided where
the code calls the operating system (`seek`, `written`; `first`, `again`
between `stat` and the reading). Queries keep a cursor between two rows, in the
shared copy (`mem`), in a copy that `clearTables` took away (`own`), or in the
file (`fp`). The variable `setup`, chosen in the initial state, says which
FFDatabases insert (`inserters`), rewrite rows (`updaters`) and have queries
(`readers`), how many rows a file has at first, and what the surroundings do:
with `ticks`, modification times are those of a clock that may stand still
between writes, as `st_mtime` counts seconds, and without it each write has a
time of its own; `malformed` lets rows that cannot be parsed into a file by
hand, and the reading then stops in the middle with part of the rows; with
`faults`, calls of the system fail. `readFile` stores the new time and empties the
copy before it calls `fopen` (`CssTableClass.cpp:2038`), so after `LoadFails` the
next `openFile` takes the empty copy for current; a `stat` that fails sets the time
to zeros, "to force another read attempt" (`OpenFails`, `Unread`). After an insert
the file may lack the row: `fclose`, whose result nobody reads, can lose it, and
`insertPrefixTable` calls `updateFile` whatever the write returned
(`InsertFails`); and `updateFile` keeps the old time if its own `stat` fails
(`UpdateFileFails`). `failed` is for the properties: the copies that have met one
of these failures since they were last read as a whole.

### LastIds: recycled ids and the lastid table

A request takes ids from the list of its process first, then reads the lastid
record and writes it back; between the two, with a file, the process has the
file open (`pc = "read"`, then `"write"`), and with SQL it holds the row's lock
(`setup.rowLock`). Requests can fail at each place (`RequestFails`). Where libgdb
fails before the select, or between it and the update, it returns without
`SQLEndTran` (`ODBCRequestIds.cpp:348` to `365`, `RequestFailsLocked`), and the
process keeps the lock, if it had come to it, until its next request ends or it
ends itself. A process can restart, which loses its list. `setup`, chosen in the initial state, has the processes,
the keynames, whether ids are asked for consecutively, how many at once, the
lock, and the bound `max` of the keyvalues. `IdSegments` has the list's own
operations, with their splits and joins.

What the ids promise has three conditions, each a way in which the code breaks
the promise. `AnyIds`: no run of two or more ids is asked for, since one that
reaches behind the last segment (`TakeTail`) leaves ids in the list that it gave
away, and empty segments (finding 2). `Serial`: one process at a time reads and
writes a record; the rows of SQL are locked, the file of an FFDatabase is not.
`OneTable`: the list of a keyname is shared by all databases that a process has
open, so that with two of them an id of one is given to a row of the other. The
runs have setups on both sides of the first condition; the other two are assumed
by the runs, and the theorems show that nothing else is needed.

### ScriptInput: input and event loops

`rpc` is the place of the reader thread in `readInput`, `gpc` that of the GUI
thread in `parseCmdCallback`; `stack` holds what the GUI thread is inside
of: a line, a callback's script, a wait, an event loop, each with what remains
to be done. `queue` holds waiting events and the dummy events that
`parseContinue` puts back, `waits` counts the timers of waits that run.
Commands are abstracted to four kinds by what they do to this state: `set`
(none of it), `component` (a component's command, after which `parseCommand`
dispatches the waiting events), `wait`, and `error`. The loop after a component's
command asks whether an event waits, and then calls `XtAppNextEvent`, which calls
timers too: the frames `drain` and `next`. It ends when no event waits or after
1000 of them, so `DrainEnds` is possible at each question. The program ends when no
component is left, seen at a line (`StopAtLine`) or in the event loop
(`StopAtEvents`); `stop_flag`, which would do the same, is set nowhere.

### ScriptControl: lines without a tree

`files` is the stack of files being read with the `FileState` of each: `cs` and
`foreach` are the program's two stacks, `foreach_blocks` and `if_blocks` its two
counters. A loop holds its lines, its mode, and the place `pos` in the round
that `processForeach` executes, which is a local variable of a recursive call in
the program. One action takes one line, in the order in which `parseCommand`
tries its branches. Conditions are constant, undefined (an error), or true in
the second round of the loop around them. A line "endif" followed by text ends a
conditional when it is executed (`AppParse.cpp:1423`), but is not counted while a
loop is collected (line 511), where on the other hand each line that begins with
"if" and a parenthesis is counted; the model's lines have the one form "endif", and
no command that looks like an if.

### DataMethod: a list and what was done

A waveform is a record: `list` is the queue of `DataMethod`s, `done` the methods
that its samples really went through, in order, since `raw` was read: its own
data, or, for a beam without a copy, those of its first element, to which its
wfdisc rows point, or, after a reading that broke off, the part that was read.
`disk` is what can be read, for all files alike: all, a part of each, or none.
`copy` is `makeCopy`'s copy of the raw data, `own` tells
whether the `RotateData` in the list was made for this very object, which
`doMethods` asks. `wrong` is for the properties: it says in which of five ways
the last replay missed the list. The actions are the display's commands, each
with all that it calls: `Apply` (mean, calibration, polarity), `ChangeFilter`
and `AddFilter` (`DataMethod::changeMethods` and `apply`), `RemoveMethods`
(`DataMethod::remove`), `Normal` (`removeMethod`), `RemoveRow` (a row of the window
History), `RemoveAllMethods`, `RotateWaveforms`, `Unrotate`, `CutWaveforms`,
`CopyWaveform`, `PasteData`, `UndoLast`, `Clear`; and `Mount`, by which files
become readable, in part or in whole, or unreadable. A replay is `Replay` (`reread`, then `doMethods`
on the object, in which a cut makes a new object) or `ReplayMember`
(`applyMethods`, where the object that a cut makes is lost). A sample is not
modelled here; which samples a window has is the next module's matter.

### GTimeSeries: segments

A segment has the time of its first sample, its interval and its samples, and a
sample is known by the piece of data it came from and the time it was measured
at, so that the properties can tell what a join, a cut or a copy did to it. The
operators are the member functions, with their indices and tolerances (99
hundredths of an interval where segments meet, one hundredth at the ends of a
window), on integers in place of floating-point numbers. The machine reads
pieces in any order (`ReadSegment`), takes the window asked for (`EndRead`), or
breaks off at a piece that cannot be read and keeps what has come, outside the
window too (`ReadFails`, `BasicSource.cpp:1335`); it cuts, copies and reads again. `newFirst` is the order that `qsort` gives to
segments with equal times, which the comparison leaves open.

## 3. What the runs show

Every run explores its state space completely. Runs marked with a cross are
expected to be refuted; they are the findings of section 5.

| Run | Properties | Distinct states |
|---|---|---|
| `query` | `Exclusive`, `PostsMatch`, `BatchBound`, `InOrder`, `NoRowLost`, `CallReturns`, `DeleteReturns`, `StreamSpec` | 76 500 |
| `static_delete` ✗ | `AnyDeleteReturns` | |
| `ids` | `Unique`, `ListCanonical`, `NoLostUpdate`, `PoolSpec` | 255 000 |
| `tail_ids` ✗ | `ConsecutiveIds` | |
| `cache` | `Coherent`, `CopyInOrder`, `EndIsComplete`, `NoRowAgain` | 332 500 |
| `update_insert` ✗ | `HitIsCurrent` | |
| `script_input` | `HandOver`, `GuiNotBlocked`, `WaitsMatch`, `PromptReturns` | 23 500 |
| `lost_wait` ✗ | `LineEnds` | |
| `script_control` | `Balanced`, `MeansWhatItSays`, `Terminates` | 87 000 |
| `history` | `HistoryTellsData`, `OwnData`, `RotateFirst`, `Recoverable`, `CutUndone`, `UndoneIsGone` | 409 000 |
| `segments` | `Drift`, `NothingTwice`, `NewDataOverrides`, `WindowExact` | 99 000 |
| `overlap` ✗ | `NoOverlap` | |

Each of the seven runs that pass also has the `TypeOK` of its module.

**Queries** (`query`). The databases have up to three station roots, two
directories in a root, two files in a directory and two rows in a file, a row
with secondary rows among them, and every combination of things that cannot be
read, a directory above the files among them; static tables have up to three rows. Batches have one or two rows, so that
a batch ends before, at and behind the end of a file, of a directory and of the
search, and a search is parked between any two rows. One vector is enough: the
search keeps the first one it is given (`bound`), and no caller in the
repository passes two. `StreamSpec` says that the two threads implement
`RowStream`, in which a call takes its rows in one step. Static tables run other
code, `doStaticPrimary` in place of the directory loops, with its own places to
park and to stop. `DeleteReturns` excepts a query on a static table that is
deleted before its first `getResults`, which blocks for ever (finding 1); both
threads then wait, hence `CHECK_DEADLOCK FALSE` in the two configurations.

**Ids** (`ids`). Four setups. One process with two keynames in one file, where
records must not be mixed up or doubled: with requests for one or two ids that
may have to be consecutive, which break the lists, so that this setup is about
`TypeOK` and `NoLostUpdate` only; and with requests for one id, consecutive or
not. One process with one keyname and any ids, and two processes and one row
with the lock that libgdb takes, where a request that fails may keep it. Increments of 1 and 3 with requests of 1 and 2
ids cover an increment below, at and above what a request needs. Requests stop
when a keyvalue has reached `setup.max`: by then lists of two segments have been
split, joined from both sides and emptied. `PoolSpec` says that `LastIds`
implements `IdPool` for every keyname.

**Cache** (`cache`). Two queries of one file and three rows written: enough for a
query that is parked in a copy while the other one opens the file again, an
insert appends to the copy, or `clearTables` takes it away; and for a second
FFDatabase, of this or another process, that writes the file meanwhile.
`MaxRecords = 4` is reached, so files are also read row by row. The nine setups
have the reader or the other one insert or update; with time in seconds and
rows that cannot be parsed, one that does both; and with calls of the system that
fail, the reader insert or the other one update. `Coherent` is about the setups
of `Quiet` (every write has a time of its own, no row is malformed, and either
one FFDatabase inserts and none updates, or none inserts), and of copies that have
met no failure since they were read: the empty copy that a failed `fopen` leaves is
used as if it were current, and it stays so until the file changes or
`clearTables` is called. The others show by
`CopyInOrder`, `EndIsComplete` and `NoRowAgain` what is left when copies are
stale. Where calls may fail, `EndIsComplete` asks that the query reads the file
itself or a copy read as a whole since the last failure (`Unharmed`); the other two are about setups in
which no call fails, since a row that never reaches the file stays in the copy, and
an insert goes to the front of an empty copy and is read again behind the others.
These three say that one FFDatabase inserts (`OneInserter`): two that
look for the end of a file at one time write over each other, and TLC refutes
all three then. `EndIsComplete` also asks that rows can be parsed and that
inserts show in the time of the file (`InsertsShow`): where another FFDatabase
inserts within the second in which a copy was read, the copy that the next query
uses lacks rows that it counted. The two queries are interchangeable, and the
properties of the run are safety properties, so the symmetry is sound.

**Script input** (`script_input`). One string on the command line, three lines in
all, two events whose callbacks execute scripts: enough for a wait inside a
callback inside an event loop inside a line, with another line waiting in the
reader. The bounds on lines and events stop the user and not the program, hence
`CHECK_DEADLOCK FALSE`, and so does the end of the program. `WaitsMatch` and
`PromptReturns` except the runs in
which a dummy event was swallowed (`lost`), which `lost_wait` shows to be a
fault of its own; `PromptReturns` also those in which the program ends.

**Control structures** (`script_control`). Each initial state is a script: loops
around two levels of blocks, conditionals with all branches around loops,
breaks, failing commands, a second file that returns, blocks with undefined
conditions behind a break, a return, a stray endfor. `MeansWhatItSays`
compares the commands executed, with the round each ran in, with `Does`, which
looks ahead for the end of a block as the program never does. `Balanced` is about
files whose lines match (`Matched`): every loop has its end, and there are as many
endifs as ifs in the file and in each loop; the scripts with a stray endfor do
not match, the others do. A script that is
over is over, hence `CHECK_DEADLOCK FALSE`.

**History** (`history`). Five displays, each for questions of its own: two
filters that replace each other, or come on top, in lists of up to six methods;
two components with rotation and two cuts; one waveform cut twice among a
filter, calibration and polarity; cut, copy, paste and undo; a beam. In all of
them files become unreadable, as a whole in three of the displays and in part in
the other two, and readable again at any time. Every kind of
replay meets every kind of list that it can miss, and an undo meets lists in
which later commands moved, removed or repeated its cut, and waveforms that were
pasted since. Waveforms do not act on each other but for rotation and cuts of
several, so two of them are enough.

**Segments** (`segments`). Up to four pieces of one, two or five samples at four
times: on one grid or between its times, that overlap at either end, in the
middle or in whole, touch, or leave gaps, one of them a gap of more than a
hundred units; in any order, since each piece may begin at each time. The fourth
piece makes two joins happen in one step, and leaves segments that would fit but
are not joined until they are copied. Three window times are on samples, between
them, in gaps and behind the end, as the pieces come; a reading may also break off
and leave no window. Two cuts in a row are the least after which a cut works on what
a cut left. `WindowExact` speaks of `Settled` segments: none overlap by more than
a sample time, which reading can leave (finding 5), none would fit, since the copy
that a window is would join them, and none is a sample alone, whose interval is
the distance to its neighbour (section 6). `NothingTwice` says nothing of cuts of
segments that overlap, or whose first one is a sample alone far from the next one,
which makes the tolerance of windows larger than a unit of time (`Fine`). All else
that `NothingTwice` says, and `Drift` and `NewDataOverrides`, hold for these too.

`Drift` grows with the joins: one moves a segment, and what was joined behind it
before, by less than an interval. A piece that is read adds itself and at most one
segment that is left behind it, so with `Len(s)` segments left there were at most
`2 * pieces - 1 - Len(s)` joins. A bound of one interval for each piece, which three
pieces at six times do not break, is too small: random behaviours with more and
longer pieces show samples that two joins of one step have moved. The same holds of
the bound in `NewDataOverrides`. Both are proved in this form (section 4).

### Fairness

- `FFDBQuery`: weak fairness of the steps inside calls and of the search thread.
  The threads are scheduled by the operating system, and a thread that has
  passed its semaphore stays able to go on. Nothing makes the caller call.
- `ScriptInput`: weak fairness of each step that stays possible until it is
  taken (giving access, taking a line, executing a command, dispatching an
  event). Strong fairness of three steps that come and go: the reader's wait for
  the access (the GUI thread gives and takes it at each timer), the timer
  (`Poll`) and the timer of a wait (`Continue`), which Xt calls only while an
  event loop runs. Xt calls a timer that is due before it returns to its queue,
  and the reader waits in a semaphore that is free for most of each period;
  weak fairness would let the loop end each time just before the timer is due.
- `ScriptControl`: weak fairness of the one thread.
- `LastIds`, `FFDBCache`, `DataMethod` and `GTimeSeries` are checked for safety
  only: nothing there waits, but for the SQL lock, whose holder is the server's
  affair.

## 4. What is proved

The theorems hold for every value of the constants, under the `ASSUME`s of the
modules, which TLC evaluates in the runs.

- **`FFDBQuery_proofs`**: `TypeCorrect`, `MutualExclusion` (`Exclusive`),
  `PostsAreClear` (`PostsMatch`), `BatchFits` (`BatchBound`), `NoDuplicates`
  (`InOrder`), `NothingLost` (`NoRowLost`), for databases of any shape and
  batches of any size. None is inductive by itself. `HandInv` tells, for every
  pair of places of the two threads, what the two semaphores hold: a request and
  an answer are never under way together, and after the search `search_sem` has
  the mark that ends it. `BatchInv` relates the batch of the call to the counters
  that the search uses, and the vector to the first call. For `InOrder`,
  `CursorInv` and `OrderInv` say that every row handed over lies before the
  cursor, strictly while the search holds a row. For `NoRowLost`, `Done` says
  which places the search has left behind, which the cursor alone does not tell:
  it still shows the last directory, file and row of the loops that have ended.
  `CompleteInv` says that all wanted places among them were handed over, unless
  there was an error, and needs `PlaceInv` (the loops stand inside the database,
  and a row that is held is a wanted one) and `ErrorInv` (a directory is given up
  only after an error). `Refinement` (`StreamSpec`): the two threads
  implement `RowStream`, for all databases and batches. `CallInv` says why a call
  that ends with fewer rows than it asked for has seen the end of the search;
  then `Collect` is the abstract fetch, the destructor's release is the abstract
  close, an error met is the abstract failure, and every other step of either
  thread leaves what the caller has been told as it is.
- **`FFDBCache_proofs`**: for any number of FFDatabases, files and queries, and
  any setups. `Coherence` (`Coherent`): where `Quiet` holds, a copy that
  `openFile` uses as it is equals its file. The invariant has `Copy` (a copy
  whose time is the file's has the file's rows, unless it has met a failure since
  it was read, and no copy is younger than its
  file), `Load` (what an `openFile` half done will store) and `Ahead` (the one
  that inserts is never behind its file, except between its write and its own
  bookkeeping). `update_insert` shows why `Quiet` is needed. `TypeInvariance`
  (`TypeOK`, with `Shape`: a load half done does not count more rows than the
  file has). `CopyOrdered` (`CopyInOrder`) and `NoneTwice` (`NoRowAgain`), where no
  call of the system fails, by `OrderInv`: each row of a copy stands in the file, not before its place in the
  copy, and at that place as long as the rows before can be parsed; what a query
  has before it, in the copy and in what the copy will hold when it is read
  again, comes behind what it has read; the copy of the one that inserts has
  every row that can be read (`Cover`), since `updateFile` appends to it. It
  cannot be weaker: `CopyInOrder` alone is not kept when `updateFile` appends to
  a copy that lacks rows, and `NoRowAgain` not when a copy is read again under a
  query. `EndComplete` (`EndIsComplete`), by `CountInv`: a query has before it as
  many rows as `openFile` counted, in each of the three places that it can read
  from (in a copy, if it has met no failure), and a copy whose time is the file's has
  as many rows as the file, with the same exception.
- **`LastIds_proofs`**, first half: what the list operations do, for lists of any length.
  `AddCanonical` and `RecycleCanonical`: adding a segment, or an array of ids in
  any order, adds these ids and no others, and leaves the list sorted, joined and
  without empty segments. `TakeAnyIds` and `TakeRunIds`: taking ids divides the
  list. `Joined`, `Runs`, `RecycleIds`, `Without` and `FlattenSeq` are folds, whose
  value the library defines by a choice of a function on sets of places;
  `LeftIter` and `RightIter` show that this function exists, and turn a fold into
  a sequence of intermediate results about which an invariant is proved by the
  least place at which it fails. `Sorted`, a choice as well, exists by
  `SortsExists`.
  Second half: for any number of processes, tables and keynames, and
  requests of any size. `TypeInvariance` (`TypeOK`), `IncrementsKept`
  (`NoLostUpdate`), `Refinement` (`PoolSpec`), `UniqueIds` (`Unique`),
  `ListsCanonical` (`ListCanonical`). The invariant has three parts. `Types` adds
  to `TypeOK` what is known of a request under way (`Asked`): it needs at least
  one id from the table, and a request for the end of a list has a list. `Reads`:
  under `Serial`, a process about to write has read the record as it is now, and
  has its lock; so the write adds to what the record holds, which is
  `NoLostUpdate`. `Pools`: under the three conditions, every keyname has one
  record, the ids that a process uses, has in its list or has taken for the
  request under way are disjoint from each other and from those of the other
  processes, all are below the counter, and the lists are canonical. None of
  these parts is kept alone: ids stay apart only because the lists are canonical
  (else taking `n` ids leaves some of them in the list) and because the record
  read is the one written. Every action is shown to be a move of the pool of its
  keyname and to leave the other pools alone, from which `PoolSpec` and the
  invariant follow together.
- **`IdPool_proofs`**: `NoIdTwice` (`OnePlace`), the same for the pool itself: any
  other implementation of `IdPool` inherits it.
- **`ScriptInput_proofs`**: `TypeCorrect`, `HandOverIsExclusive` (`HandOver`),
  `GuiGoesOn` (`GuiNotBlocked`), `InputOrder` (`LinesInOrder`: every step that
  takes a line takes the next one), `EveryWaitEnds` (`WaitsMatch`), for any
  commands, scripts and stacks of event loops. The invariant has `AccessInv` (one
  thread has the access, nobody before the first line), `WorkInv` (a line handed
  over is to be taken, executed, or reported as executed), `OneLine` and
  `CountInv` (the numbers of lines given and parsed differ by the one that is
  under way). `WaitsMatch` is inductive with the types: its proof counts the
  waits on the stack and the dummy events in the queue through each step.
- **`ScriptControl_proofs`**: `InterpreterTypes` (`TypeOK`), which holds of any
  scripts, `BlocksBalance` (`Balanced`), for any set of scripts, nested to any
  depth. The interpreter keeps two stacks and two counters and no syntax tree; the
  invariant says that they are what the lines say that it has read. `Counted`:
  only the last loop of a file collects, and the counter is that of the loops open
  in what it has collected. `Tracks`, for files that match: there is a place in
  the file for every loop of the stack and for the next line (`Placed`: the lines
  of a loop stand behind its foreach, those of an inner loop within those of the
  outer one), the loops on the stack and in the collected lines are those open at
  the place where the file is read, and the conditionals on the stack and the
  counter of those collected are the open ones (`Agrees`). `Balanced` is not kept
  without it: at the end of a round the place returns to the foreach, and the
  conditionals that are open are the right ones only because each loop has as
  many endifs as ifs, and because the line that ends the collection is the endfor
  that belongs to the foreach (`Closing`). The lemmas `...Tracks` say how each
  step moves the place, those named `...Keeps` that it keeps the invariant. TLC found no
  violation of the invariant on the instance of `script_control` before the proof.
- **`DataMethod_proofs`**: `TypeCorrect`, `DataIsHistory` (`HistoryTellsData`),
  `BeamStays` (`OwnData`), `RotationIsFirst` (`RotateFirst`), `NothingIsLost`
  (`Recoverable`), `UndoLeavesNothing` (`UndoneIsGone`), `CutIsUndone`
  (`CutUndone`), for any display, any filters and lists of any length. The
  properties speak of waveforms on the
  screen, to which waveforms return from the clipboard and from the actions to
  undo, so the invariant says of every `GTimeSeries` in these three places that
  it is `Good`: a `RotateData` is nowhere but at the head of its list and of
  what was done, and is for this object only if it is in the list; data and list
  agree but for the five named cases, and in two of them the methods done are
  still among those of the list (`Within`); only a beam
  has a copy; and its data without a copy are its own only behind a cut or as a
  copied part. `CutUndone` follows from this alone. The lemmas of its first half say what the operators on lists keep
  (`Patched`, `Added`, `RemovedLists`, `ReplaceLists`, `Unrotated`), those of its
  second half what each replay makes of a waveform whose list was changed, which
  is `Ready` (the list is in order, whatever the data are) and no more.
  `Recoverable` counts the places of a waveform; its invariant `OnePlace` names
  them (`Held`), and each step leaves them (`Stays`) or moves one. `UndoneIsGone`
  needs `CutsInv`: every list has each cut once, of those made so far, and the
  lists of what a cut took away have older cuts only. `removeMethod` takes one
  occurrence out, so without "once" a cut could remain; and what comes back was
  edited by nobody since. Each edit of a list is shown to bring no cut that was
  not there (`Fewer`), by a map from the places of the new list to those of the
  old one.

- **`GTimeSeries_proofs`**: `TypesHold` (`TypeOK`) and `NothingComesTwice`
  (`NothingTwice`), for any pieces of any length at any times, any windows, and
  both orders that `qsort` may give. The invariant is small (`IInv`: segments are
  not empty, have the channel's interval if they have several samples, are in the
  order of time, and have samples of pieces that were read, so that a new piece
  shares none with them); the work is in the operators. Each has a lemma that says
  which samples it gives (`All`) and that it gives each once if its arguments do
  (`Distinct`): `KeptIs` and `RestIs` that what is left before and behind a new
  segment in the middle of an old one are apart, by the arithmetic of the two
  quotients; `SortedIs`, `JoinSegmentsIs`, `AddSegmentIs`, `JoinIs` through the
  folds, one step at a time; `UpperIs` and `LowerIs` that the bounds of a window
  are places of samples, and on which side of its times. `HeadTailApart` is why a
  cut doubles nothing: the head ends at a place not behind the first time, the
  tail begins at one not before the second, and with segments one behind the other
  places and times have one order. It needs `Ordered` and `Fine`, without which
  TLC finds a cut with a sample on both sides. `OnceIsDistinct` turns the numbers
  that `Once` compares into this.

  `JoinsMoveLittle` (`Drift`) and `NewDataStay` (`NewDataOverrides`) speak of times.
  `Lies(h, g, n, d)` says that the samples of `h` are in `g` behind the first `n`,
  all of them `d` later; `From` and `Held` say of a segment that it is made of, or
  in one piece contained in, members of a set, moved by so much at most; `Moved`
  says both of two sets of segments and the joins between them, which are counted
  by the segments that have disappeared. `JoinMoves` follows these through the fold of `JoinSegments`,
  `AddMoves` through the whole of `AddSegment`: sorting moves nothing, and
  `KeptAndRest` and `TakenTimes` say that what is left of an old segment lacks only
  the places that the new one takes (`Taken`), which are less than an interval
  before it or two behind it. The invariant `DInv` is `Drift` with the bound on
  the joins for each segment; `Drift` alone is not inductive, since it does not say
  that the number of segments is at most twice that of the pieces, less one.

  `WindowsAreExact` (`WindowExact`) is about segments that are `Tidy`, which is
  what `Settled` says. The distances between their samples are of one kind (`Gap`):
  0, one interval, or more than 199 hundredths of it, which is outside of the
  tolerance of a join; sums of gaps are gaps (`GapAdds`), so the same holds of any
  two places (`PlacesGap`), and of the ends of any pieces cut out at places.
  `AddExact` says that a segment that begins a gap after all others end replaces
  nothing but segments of one sample, and that a join moves nothing, since
  what fits after a gap is one interval away (`FitsExact`); `JoinAllExact` takes
  this through `Join`, with `Exact` for what the old and the new segments have in
  common and `Chain` for what is kept. `UpperExact` and `LowerExact` say that the
  bounds of a window are its first and its last sample, and `PartsCover` that
  `subseries` takes what is between them; two joins, as in `truncate` and `CutData`,
  are then one after the other (`CoversExact`).

**Only model-checked**: all liveness (`CallReturns`, `DeleteReturns`,
`PromptReturns`, `Terminates`), which the prover does not reach under fairness;
and `MeansWhatItSays`, whose reference definition is recursive.

## 5. Findings

1. `static_delete`: a query on a static table that is deleted before the first
   `getResults` never ends. `doStaticPrimary` asks `num_fetched >= buffer_limit`
   before it asks whether `buffer_limit` is 0, so at the first row that passes
   it posts `results_sem` and waits for a call that will not come, while the
   destructor waits in `pthread_join` (`FFDatabase.cpp:2362`).
2. `tail_ids`: consecutive ids taken from the end of the recycled list are not
   consecutive: the loop uses its own counter as the index of the segment
   (`FFDatabase.cpp:4239`, and the same in `ODBCRequestIds.cpp:248`).
3. `update_insert`: `update` rewrites a row of a file and not the copy, and a
   later insert takes the new modification time, so the copy stays stale
   (`FFDatabase.cpp:3805`).
4. `lost_wait`: a callback that runs during a `wait` and executes a component's
   command takes the dummy event that ends the wait; the line never ends, and no
   further line is executed (`AppParse.cpp:863`).
5. `overlap`: a new segment that overlaps the end of an old one leaves the old
   sample at the time of the first new one (`GTimeSeries.cpp:339` keeps the
   samples 0 to the index of that time); and one that covers an old segment but
   for its last sample leaves the old one whole, since `truncate` with an index
   behind the end does nothing (lines 333 and 334).

## 6. What the code does not guarantee, and the runs assume

- One process or FFDatabase inserts into a file at a time: two of them seek and
  write without a lock. One process uses a lastid file at a time (a lock
  exists only in SQL). One lastid table per process: the recycled list has no
  database in its key.
- Writes of one modification second apart, and no malformed rows, where copies
  are to be current (`Quiet`).
- The write of a counter succeeds: neither `fclose` after it nor, with SQL, the
  result of the COMMIT (`ODBCRequestIds.cpp:397`) is tested. If one fails, ids are
  given twice.
- A process of SQL that fails between select and update keeps the row's lock until
  its next request ends or it ends itself; the others wait, or fail, meanwhile.
- A caller passes one vector to all calls of a query.
- Errors of a search are reported as documented, "the number of rows fetched or -1
  for failure" (`FFDatabase.cpp:756`), except where the call that fails brings no
  row. `getResults` then returns 0 (lines 789 to 793), as at the end of a search, and
  `queryTable` reports success. A caller is told of an unreadable root or file only
  if rows come in the same call, or in one after it. `RowStream` has the comment
  (`Documented`) and what the code does (`Returned`). In the same way
  `readStaticTable` returns false, which is 0, where its comment has -1 (line 3054),
  and its callers go on as if there were no static file.
- A copy is taken for current though it lacks all rows after an `fopen` that failed
  (`CssTableClass.cpp:2038`), or has a row that its file lacks after a write that
  failed (`FFDatabase.cpp:4025`). `failed` in the model marks these copies.
- Standard input does not end.
- Scripts do not return inside a loop: `return` clears the loops and
  `processForeach` then uses the last one (`AppParse.cpp:1371`). The model has
  the step, as `undefined`; no script of the run takes it. `for_index` is one
  variable for all loops of a file, so an inner loop changes it for the rest of
  the outer round; the model's conditions use the loop's own variable.
- The list of methods tells what the data are (`HistoryTellsData`) except when
  the last replay was one of these: it stopped at a `RotateData` made for an
  object that a cut or a paste has replaced; it was `removeMethod`'s, as an undo
  is, and another cut remains, at which `applyMethods` loses the object; it was
  `remove` for a group of rotated components whose lists differ, for which the
  list of the first one is replayed (`DataMethod.cpp:277`, `DataMethod.cpp:349`);
  or this replay failed to read the first component, and did not come to the
  second; or it was a replay of what a reading that broke off had brought
  (`BasicSource.cpp:1335`; only a reading without any data is a failure to
  `DataMethod`); or a replay for a group stopped at a cut that found no data in the
  second component (`CutData.cpp:76`). The class comment has no such exceptions: "A
  GTimeSeries object maintains an ordered list of all DataMethod instances that have
  been applied to its data" (`include/DataMethod.h:34`). The
  property says what the code does: list and data agree but for these cases.
- A beam that lost its copy, by a cut or as a pasted part, turns into its first
  element at the next replay (`GTimeSeries.cpp:664`, `:1150`, `:1660`).
- Of segments: a new segment that overlaps the beginning of an old one takes one
  sample too many from it; where one that overlaps an end left a sample too many,
  the two pieces are not joined, though they fit; a segment of one sample gets the
  distance to its neighbour for an interval (`GTimeSeries.cpp:404`), with which a
  later piece may replace it; a window whose ends lie in one gap has the samples
  on both sides (`GTimeSeries.cpp:1136`), which `Inside` leaves out by asking for
  a window with samples; a window that begins at the last sample or ends at the
  first one is empty; a copy of segments that overlap may differ from them; where
  the first segment is one sample and its neighbour a hundred units of time away,
  the tolerance at the ends of windows, a hundredth of that interval
  (`GTimeSeries.cpp:1125`), exceeds a unit, so that windows keep samples outside
  of them and a cut may double one; and every join may move
  what is joined, and what was joined behind it before, by up to an interval.

## 7. What is not modelled

In the modelled parts: the parser of query texts, which refuses more than four
tables, so that the search never meets them; the search of a `prefix`,
which runs in the calling thread; how a row finds its directory; `createAuthor`;
the lastid files of a prefix; loops over strings and components; loops typed at
the prompt; parse file arguments in braces; rotation of three components, methods
of plug-ins, undo of edited arrivals, the places of waveforms on the screen;
changes of the interval or the calibration inside a waveform; `fillGap` and
`GDataLoop`, which nothing calls.

Elsewhere: the numerical libraries (floating-point algorithms), formats and SQL
(input and output), widgets and drawing (layout), message passing between
processes, owners of objects (counts in one thread), and for now the parts of
the plan below. Most of the repository's lines are of these kinds: the widget
and plotting libraries, signal processing, travel times and tables of file
formats are far larger than the code that has state and control of its own, so
the mapped lines are a small share of all lines.

## 8. Plan

Modules that come next, in order:

1. `BackupLog`: the undo log of `cssInput.cpp`, with a crash between any two
   writes.
2. `Triggers`: the recursive sta/lta on small integers, with a trigger that spans
   two buffers, against a definition on the whole trace; masks as sets of
   intervals against sets of samples.
3. A return inside a loop, as a property of `ScriptControl` refuted by a script.
4. `Ownership`: `gobject` and `gvector`, objects that are deleted when their last
   owner lets go.

Of the modules that there are, `MeansWhatItSays` is the one safety property without
a theorem; the next theorems are those of the next modules.
