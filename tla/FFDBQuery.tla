----------------------------- MODULE FFDBQuery -----------------------------
(***************************************************************************)
(* One flat-file database query (class FFDBQuery of libgio): the calling   *)
(* thread, the search thread that FFDatabase::startQuery creates, and the  *)
(* two semaphores that hand the query object from one to the other.        *)
(*                                                                         *)
(* The caller runs getResults and the destructor; the search thread runs   *)
(* FFDBSearch, which walks the database and stops inside processFile or    *)
(* doStaticPrimary, holding its place, whenever a batch is full.           *)
(***************************************************************************)
EXTENDS Integers, Sequences

CONSTANTS
    DBs,        \* the databases a behaviour may start with (see DB)
    Vectors,    \* the vectors a caller may pass to getResults
    NoVector,   \* records before the first call: the constructor leaves it unset
    Limits      \* the values a caller may pass as numToFetch

\* What applyConstraints answers for a primary row against each combination
\* of secondary rows, in the order of the loops of processFile; a query on a
\* single table has one combination.  (parseQuery refuses a query on more than
\* four tables, so processFile never meets one.)
Row == Seq(BOOLEAN)

\* opens: openFile succeeds; bad: reading fails after the listed rows.  dirs are
\* the directories that the time constraints leave, in readdir order, and those
\* above them that cannot be opened: top says of one of these that it is in the
\* root itself, not deeper.
File == [opens : BOOLEAN, bad : BOOLEAN, rows : Seq(Row)]
Dir  == [opens : BOOLEAN, top : BOOLEAN, files : Seq(File)]
Root == [opens : BOOLEAN, dirs : Seq(Dir)]

\* kind: the primary table is a "static" table, one found under an "author"
\* (a single root), or "wfdisc" (a root per station).  global says whether the
\* static table file can be read, segRoot whether the segment root opens, and
\* oneLevel whether directory_structure is a single path level, as "%Y%m%d" is.
DB == [kind : {"static", "author", "wfdisc"}, global : BOOLEAN, segRoot : BOOLEAN,
       oneLevel : BOOLEAN, table : Seq(Row), tree : Seq(Root)]

ASSUME DBAssumption == DBs \subseteq DB
ASSUME VectorsAssumption == NoVector \notin Vectors
\* A limit of 0 is the order to stop; the callers ask for 100 or 1000 rows.
ASSUME LimitsAssumption == Limits \subseteq Nat \ {0}

\* Where the search stands: station, directory, file, row, combination.
Place == [s : Nat, d : Nat, f : Nat, r : Nat, c : Nat]
Spot(s, d, f, r, c) == [s |-> s, d |-> d, f |-> f, r |-> r, c |-> c]

VARIABLES
    mpc, want, had, ret,                        \* the calling thread
    tpc, at, dirRet, bound,                     \* the search thread
    buffer_limit, num_fetched, search_error, records,   \* fields of FFDBQuery
    search_sem, results_sem,                    \* its semaphores
    out,                                        \* contents of the vectors
    db                                          \* the database searched

caller == <<mpc, want, had, ret>>
search == <<tpc, at, dirRet, bound>>
fields == <<buffer_limit, num_fetched, search_error, records>>
sems   == <<search_sem, results_sem>>
vars   == <<caller, search, fields, sems, out, db>>

\* The search thread owns the query object, or has left it alone.
Running == {"station", "dir", "file", "row", "static", "match", "push", "end", "post"}
Parked  == {"start", "first", "turn", "exit"}

\* What the loops of the search are looking at.
CurRoot == db.tree[at.s]
CurDir  == CurRoot.dirs[at.d]
CurFile == CurDir.files[at.f]

\* The search of a static table that could be read is doStaticPrimary's.
InStatic == db.kind = "static" /\ db.global

\* As startQuery returns: the thread exists and has not run yet.
Init ==
    /\ mpc = "idle" /\ want = 0 /\ had = 0 /\ ret = 0
    /\ tpc = "start" /\ dirRet = TRUE /\ bound = NoVector
    /\ at = Spot(0, 0, 0, 0, 0)
    /\ buffer_limit = 1000 /\ num_fetched = 0
    /\ search_error = FALSE /\ records = NoVector
    /\ search_sem = 0 /\ results_sem = 0
    /\ out = [v \in Vectors |-> <<>>]
    /\ db \in DBs

-----------------------------------------------------------------------------
(* The calling thread *)

\* getResults(n, &numFetched, v), up to the call of sem_getvalue.
GetResults(n, v) ==
    /\ mpc = "idle"
    /\ mpc' = "getvalue"
    /\ want' = n /\ had' = Len(out[v])
    /\ num_fetched' = 0 /\ records' = v
    /\ UNCHANGED <<ret, search, buffer_limit, search_error, sems, out, db>>

\* Mutant: release the search thread without asking whether it has ended.
GetValueBlind ==
    /\ mpc = "getvalue"
    /\ buffer_limit' = want
    /\ mpc' = "release"
    /\ UNCHANGED <<want, had, ret, search, num_fetched, search_error, records,
                   sems, out, db>>

\* A nonzero search_sem says that the search is over: do not wait for it.
GetValue ==
    /\ mpc = "getvalue"
    /\ \/ /\ search_sem = 0
          /\ buffer_limit' = want
          /\ mpc' = "release"
       \/ /\ search_sem # 0
          /\ mpc' = "collect"
          /\ UNCHANGED buffer_limit
    /\ UNCHANGED <<want, had, ret, search, num_fetched, search_error, records,
                   sems, out, db>>

PostSearch ==
    /\ mpc = "release"
    /\ search_sem' = search_sem + 1
    /\ mpc' = "wait"
    /\ UNCHANGED <<want, had, ret, search, fields, results_sem, out, db>>

\* Mutant: sem_trywait, its failure ignored.
WaitResultsNoBlock ==
    /\ mpc = "wait"
    /\ results_sem' = results_sem - 1
    /\ mpc' = "collect"
    /\ UNCHANGED <<want, had, ret, search, fields, search_sem, out, db>>

WaitResults ==
    /\ mpc = "wait"
    /\ results_sem > 0
    /\ results_sem' = results_sem - 1
    /\ mpc' = "collect"
    /\ UNCHANGED <<want, had, ret, search, fields, search_sem, out, db>>

\* Mutant: the size asked for is returned, not the number of rows.
CollectWant ==
    /\ mpc = "collect"
    /\ ret' = IF num_fetched # 0 THEN want ELSE 0
    /\ mpc' = "idle"
    /\ UNCHANGED <<want, had, search, fields, sems, out, db>>

\* The return value is 0 whenever this call brought no row, also after an error,
\* for which the documentation of getResults says -1.
Collect ==
    /\ mpc = "collect"
    /\ ret' = IF num_fetched # 0 /\ search_error THEN -1 ELSE num_fetched
    /\ mpc' = "idle"
    /\ UNCHANGED <<want, had, search, fields, sems, out, db>>

\* Mutant: the search is not told to stop.
DeleteNoLimit ==
    /\ mpc = "idle"
    /\ mpc' = "dtor"
    /\ UNCHANGED <<want, had, ret, search, fields, sems, out, db>>

\* ~FFDBQuery: stop the search thread, ...
Delete ==
    /\ mpc = "idle"
    /\ buffer_limit' = 0
    /\ mpc' = "dtor"
    /\ UNCHANGED <<want, had, ret, search, num_fetched, search_error, records,
                   sems, out, db>>

DeletePost ==
    /\ mpc = "dtor"
    /\ search_sem' = search_sem + 1
    /\ mpc' = "join"
    /\ UNCHANGED <<want, had, ret, search, fields, results_sem, out, db>>

\* ... join it, and free the query.
Join ==
    /\ mpc = "join"
    /\ tpc = "exit"
    /\ mpc' = "gone"
    /\ UNCHANGED <<want, had, ret, search, fields, sems, out, db>>

-----------------------------------------------------------------------------
(* The search thread *)

SearchStart ==
    /\ tpc = "start"
    /\ tpc' = "first"
    /\ search_error' = FALSE
    /\ UNCHANGED <<caller, at, dirRet, bound, buffer_limit, num_fetched,
                   records, sems, out, db>>

\* Wait for the first request, then choose the search.  readStaticTable
\* answers 0 for a static file it could not read as for a table that is not
\* static, so both are searched for under an author.
SearchFirst ==
    /\ tpc = "first"
    /\ search_sem > 0
    /\ search_sem' = search_sem - 1
    /\ bound' = records
    /\ \/ /\ InStatic
          /\ tpc' = "static"
          /\ at' = Spot(0, 0, 0, 1, 0)
       \/ /\ ~InStatic
          /\ tpc' = IF db.kind = "wfdisc" /\ ~db.segRoot THEN "end" ELSE "station"
          /\ UNCHANGED at
    /\ UNCHANGED <<caller, dirRet, fields, results_sem, out, db>>

\* wfdiscSearch: the next station.  A table of an author has one root, which
\* is opened whatever buffer_limit is.  An unreadable root is an error, and
\* the search goes on with the next one.
NextStation ==
    /\ tpc = "station"
    /\ \/ /\ at.s < Len(db.tree)
          /\ db.kind = "wfdisc" => buffer_limit > 0
          /\ at' = Spot(at.s + 1, 0, 0, 0, 0)
          /\ IF db.tree[at.s + 1].opens
             THEN tpc' = "dir" /\ UNCHANGED search_error
             ELSE search_error' = TRUE /\ UNCHANGED tpc
       \/ /\ at.s >= Len(db.tree) \/ (db.kind = "wfdisc" /\ buffer_limit <= 0)
          /\ tpc' = "end"
          /\ UNCHANGED <<at, search_error>>
    /\ UNCHANGED <<caller, dirRet, bound, buffer_limit, num_fetched, records,
                   sems, out, db>>

\* searchFlatFileDB and searchFlatDB: the next directory of the root.  The loop
\* of the former breaks after one that cannot be opened and has directories of
\* its own; searchFlatDB drops the failure of one below, and getRecords' opendir
\* of a directory of files answers true.
NextDir ==
    /\ tpc = "dir"
    /\ \/ /\ buffer_limit > 0 /\ at.d < Len(CurRoot.dirs)
          /\ at' = Spot(at.s, at.d + 1, 0, 0, 0)
          /\ dirRet' = TRUE
          /\ IF CurRoot.dirs[at.d + 1].opens
             THEN tpc' = "file" /\ UNCHANGED search_error
             ELSE /\ search_error' = TRUE
                  /\ tpc' = IF CurRoot.dirs[at.d + 1].top THEN "station" ELSE tpc
       \/ /\ buffer_limit <= 0 \/ at.d >= Len(CurRoot.dirs)
          /\ tpc' = "station"
          /\ UNCHANGED <<at, dirRet, search_error>>
    /\ UNCHANGED <<caller, bound, buffer_limit, num_fetched, records,
                   sems, out, db>>

\* getRecords: the next file of the directory.  When one of its files failed,
\* the loop over the directories of a one-level structure breaks; searchFlatDB
\* drops the failure in a deeper one.
NextFile ==
    /\ tpc = "file"
    /\ \/ /\ buffer_limit > 0 /\ at.f < Len(CurDir.files)
          /\ at' = Spot(at.s, at.d, at.f + 1, 0, 0)
          /\ IF CurDir.files[at.f + 1].opens
             THEN tpc' = "row" /\ UNCHANGED <<search_error, dirRet>>
             ELSE search_error' = TRUE /\ dirRet' = FALSE /\ UNCHANGED tpc
       \/ /\ buffer_limit <= 0 \/ at.f >= Len(CurDir.files)
          /\ tpc' = IF db.oneLevel /\ ~dirRet THEN "station" ELSE "dir"
          /\ UNCHANGED <<at, search_error, dirRet>>
    /\ UNCHANGED <<caller, bound, buffer_limit, num_fetched, records,
                   sems, out, db>>

\* processFile: the next row of the file, wanted if a combination passes; and
\* readFile, which takes note of a read error once processFile returns it.
NextRow ==
    /\ tpc = "row"
    /\ \/ /\ buffer_limit > 0 /\ at.r < Len(CurFile.rows)
          /\ at' = Spot(at.s, at.d, at.f, at.r + 1, 0)
          /\ tpc' = IF \E c \in DOMAIN CurFile.rows[at.r + 1] :
                          CurFile.rows[at.r + 1][c]
                    THEN "match" ELSE "row"
          /\ UNCHANGED <<search_error, dirRet>>
       \/ /\ buffer_limit <= 0 \/ at.r >= Len(CurFile.rows)
          /\ tpc' = "file"
          /\ IF buffer_limit > 0 /\ CurFile.bad
             THEN search_error' = TRUE /\ dirRet' = FALSE
             ELSE UNCHANGED <<search_error, dirRet>>
          /\ UNCHANGED at
    /\ UNCHANGED <<caller, bound, buffer_limit, num_fetched, records,
                   sems, out, db>>

\* doStaticPrimary: the next combination of the row, or the next row.  A row
\* is wanted once for every combination that passes.
NextStatic ==
    /\ tpc = "static"
    /\ \/ /\ at.r > Len(db.table)
          /\ tpc' = "end"
          /\ UNCHANGED at
       \/ /\ at.r <= Len(db.table) /\ at.c = Len(db.table[at.r])
          /\ at' = Spot(0, 0, 0, at.r + 1, 0)
          /\ UNCHANGED tpc
       \/ /\ at.r <= Len(db.table) /\ at.c < Len(db.table[at.r])
          /\ at' = Spot(0, 0, 0, at.r, at.c + 1)
          /\ tpc' = IF db.table[at.r][at.c + 1] THEN "match"
                    ELSE IF buffer_limit = 0 THEN "end" ELSE "static"
    /\ UNCHANGED <<caller, dirRet, bound, fields, sems, out, db>>

\* Mutant: the batch may hold one row too many.
MatchLate ==
    /\ tpc = "match"
    /\ IF num_fetched > buffer_limit
       THEN tpc' = "turn" /\ results_sem' = results_sem + 1
       ELSE tpc' = "push" /\ UNCHANGED results_sem
    /\ UNCHANGED <<caller, at, dirRet, bound, fields, search_sem, out, db>>

\* Mutant: the caller is released, and the search goes on.
MatchNoPark ==
    /\ tpc = "match"
    /\ tpc' = "push"
    /\ results_sem' = IF num_fetched >= buffer_limit THEN results_sem + 1 ELSE results_sem
    /\ UNCHANGED <<caller, at, dirRet, bound, fields, search_sem, out, db>>

\* A wanted row when the batch is full: give the query back to the caller ...
Match ==
    /\ tpc = "match"
    /\ IF num_fetched >= buffer_limit
       THEN tpc' = "turn" /\ results_sem' = results_sem + 1
       ELSE tpc' = "push" /\ UNCHANGED results_sem
    /\ UNCHANGED <<caller, at, dirRet, bound, fields, search_sem, out, db>>

\* Mutant: the row in hand is dropped when the search resumes.
TurnDrop ==
    /\ tpc = "turn"
    /\ search_sem > 0
    /\ search_sem' = search_sem - 1
    /\ tpc' = IF InStatic THEN "static" ELSE "row"
    /\ UNCHANGED <<caller, at, dirRet, bound, fields, results_sem, out, db>>

\* ... and wait for the next request.
Turn ==
    /\ tpc = "turn"
    /\ search_sem > 0
    /\ search_sem' = search_sem - 1
    /\ tpc' = "push"
    /\ UNCHANGED <<caller, at, dirRet, bound, fields, results_sem, out, db>>

\* Mutant: css is not set to NULL, so the row is matched again.
PushAgain ==
    /\ tpc = "push"
    /\ \/ /\ buffer_limit > 0
          /\ out' = [out EXCEPT ![bound] = Append(@, at)]
          /\ num_fetched' = num_fetched + 1
          /\ tpc' = IF num_fetched = 0 THEN "match" ELSE IF InStatic THEN "static" ELSE "row"
       \/ /\ buffer_limit <= 0
          /\ tpc' = IF InStatic THEN "end" ELSE "file"
          /\ UNCHANGED <<out, num_fetched>>
    /\ UNCHANGED <<caller, at, dirRet, bound, buffer_limit, search_error,
                   records, sems, db>>

\* The row goes to the vector of the first request, which FFDBSearch passed
\* down by reference; a limit of 0 is the destructor's order to stop.
Push ==
    /\ tpc = "push"
    /\ \/ /\ buffer_limit > 0
          /\ out' = [out EXCEPT ![bound] = Append(@, at)]
          /\ num_fetched' = num_fetched + 1
          /\ tpc' = IF InStatic THEN "static" ELSE "row"
       \/ /\ buffer_limit <= 0
          /\ tpc' = IF InStatic THEN "end" ELSE "file"
          /\ UNCHANGED <<out, num_fetched>>
    /\ UNCHANGED <<caller, at, dirRet, bound, buffer_limit, search_error,
                   records, sems, db>>

\* Mutant: search_sem is not left set.
EndNoMark ==
    /\ tpc = "end"
    /\ tpc' = "post"
    /\ UNCHANGED <<caller, at, dirRet, bound, fields, sems, out, db>>

\* The search is over: leave search_sem set for GetValue, release the caller.
End ==
    /\ tpc = "end"
    /\ search_sem' = search_sem + 1
    /\ tpc' = "post"
    /\ UNCHANGED <<caller, at, dirRet, bound, fields, results_sem, out, db>>

EndResults ==
    /\ tpc = "post"
    /\ results_sem' = results_sem + 1
    /\ tpc' = "exit"
    /\ UNCHANGED <<caller, at, dirRet, bound, fields, search_sem, out, db>>

-----------------------------------------------------------------------------
Call   == \E n \in Limits, v \in Vectors : GetResults(n, v)
Caller == GetValue \/ PostSearch \/ WaitResults \/ Collect \/ DeletePost \/ Join
Search == \/ SearchStart \/ SearchFirst \/ NextStation \/ NextDir \/ NextFile
          \/ NextRow \/ NextStatic \/ Match \/ Turn \/ Push \/ End \/ EndResults

\* The query object is freed; nothing is left to do.
Freed == mpc = "gone" /\ UNCHANGED vars

Next == Call \/ Delete \/ Caller \/ Search \/ Freed

Spec == Init /\ [][Next]_vars

\* A call in progress and the search thread are scheduled again and again;
\* nobody has to call getResults or to delete the query.
FairSpec == Spec /\ WF_vars(Caller) /\ WF_vars(Search)

-----------------------------------------------------------------------------
(* What the query promises *)

\* The order in which the search meets the rows.
Before(p, q) ==
    \/ p.s < q.s
    \/ p.s = q.s /\ p.d < q.d
    \/ p.s = q.s /\ p.d = q.d /\ p.f < q.f
    \/ p.s = q.s /\ p.d = q.d /\ p.f = q.f /\ p.r < q.r
    \/ p.s = q.s /\ p.d = q.d /\ p.f = q.f /\ p.r = q.r /\ p.c < q.c

\* The rows of a query that passes its constraints, as places of the search.
TableWanted ==
    UNION {{Spot(0, 0, 0, n, k) :
            k \in {c \in DOMAIN db.table[n] : db.table[n][c]}} : n \in DOMAIN db.table}

FileWanted(file, i, j, k) ==
    {Spot(i, j, k, n, 0) :
        n \in {r \in DOMAIN file.rows : \E c \in DOMAIN file.rows[r] : file.rows[r][c]}}

TreeWanted ==
    UNION {UNION {UNION {FileWanted(db.tree[i].dirs[j].files[k], i, j, k) :
                         k \in DOMAIN db.tree[i].dirs[j].files} :
                  j \in DOMAIN db.tree[i].dirs} :
           i \in DOMAIN db.tree}

Wanted == IF InStatic THEN TableWanted ELSE TreeWanted

\* The rows handed over so far, in the order the search found them.
Given == IF bound = NoVector THEN <<>> ELSE out[bound]
GivenSet == {Given[i] : i \in DOMAIN Given}

Deleted == mpc \in {"dtor", "join", "gone"}

TypeOK ==
    /\ mpc \in {"idle", "getvalue", "release", "wait", "collect", "dtor", "join", "gone"}
    /\ tpc \in Running \cup Parked
    /\ want \in Nat /\ had \in Nat /\ ret \in Int
    /\ at \in Place /\ dirRet \in BOOLEAN
    /\ bound \in Vectors \cup {NoVector} /\ records \in Vectors \cup {NoVector}
    /\ buffer_limit \in Nat /\ num_fetched \in Nat /\ search_error \in BOOLEAN
    /\ search_sem \in Nat /\ results_sem \in Nat
    /\ out \in [Vectors -> Seq(Place)]
    /\ db \in DBs

\* The query object and the FFDatabase behind it have one user at a time: while
\* the caller is outside the two blocking calls, and may be reading a batch,
\* running another query or inserting rows, the search thread is parked.  The
\* code has no lock: only the order of its semaphore calls gives this.
Exclusive == mpc \notin {"wait", "join", "gone"} => tpc \in Parked

\* A call of getResults never finds a post of results_sem that an earlier call
\* left, so it never returns before its own batch is complete; and a search ends
\* with search_sem set and stays ended: from then on a call of getResults does
\* not wait, or it would wait for ever.
PostsMatch ==
    /\ mpc \in {"idle", "getvalue", "release", "dtor"} => results_sem = 0
    /\ tpc = "exit" /\ mpc \notin {"wait", "join", "gone"} => search_sem > 0

\* No batch is larger than the caller asked for; and as FFDBSearch takes the
\* reference *q->records once, and the constructor leaves records unset, no row
\* goes anywhere before a call has set it.
BatchBound ==
    /\ mpc \in {"wait", "collect"} => num_fetched <= want
    /\ tpc = "push" /\ buffer_limit > 0 => bound # NoVector

\* No row is handed over twice or out of order, whatever the sizes of the
\* batches and wherever the search was interrupted.
InOrder == \A i, j \in DOMAIN Given : i < j => Before(Given[i], Given[j])

\* A search that ran to its end without an error handed over every row.
NoRowLost ==
    tpc = "exit" /\ ~search_error /\ ~Deleted
       /\ (db.kind = "wfdisc" => db.segRoot) => Wanted \subseteq GivenSet

\* getResults returns: the search thread finds a batch or its end.
CallReturns ==
    mpc \in {"getvalue", "release", "wait", "collect"} ~> mpc = "idle"

\* The destructor returns wherever the search was parked, for static tables once
\* the query was asked for rows.
DeleteReturns ==
    mpc \in {"dtor", "join"} /\ (InStatic => records # NoVector) ~> mpc = "gone"

\* "This routine can be called anytime after FFDBQueryTableInit()": the
\* destructor returns, whether there was a call before or not.
AnyDeleteReturns == mpc \in {"dtor", "join"} ~> mpc = "gone"
=============================================================================
