----------------------------- MODULE RowStream -----------------------------
(***************************************************************************)
(* What a query promises its caller: a stream of the wanted rows, fetched  *)
(* in batches of a size chosen call by call, that may fail and may be      *)
(* closed at any time.  FFDBQuery implements it with a second thread.      *)
(***************************************************************************)
EXTENDS Integers, Sequences

CONSTANTS
    Limits,         \* the batch sizes a caller may ask for
    Before(_, _)    \* the order in which rows are found

VARIABLES
    wanted,     \* the rows of the query
    given,      \* the rows fetched so far
    failed,     \* has the search met an error?
    closed,     \* has the caller closed the query?
    count       \* what the last fetch returned

vars == <<wanted, given, failed, closed, count>>

Init == /\ given = <<>> /\ count = 0
        /\ failed = FALSE /\ closed = FALSE

\* s continues t with at most n rows.
Extends(s, t, n) ==
    /\ Len(s) \in Len(t)..(Len(t) + n)
    /\ SubSeq(s, 1, Len(t)) = t

Rows(s) == {s[i] : i \in DOMAIN s}

\* Wanted rows in their order, none of them twice.
InStream(s) ==
    /\ Rows(s) \subseteq wanted
    /\ \A i, j \in DOMAIN s : i < j => Before(s[i], s[j])

\* Every wanted row that s does not have comes later.
NoGap(s) == \A row \in wanted \ Rows(s), i \in DOMAIN s : Before(s[i], row)

\* "the number of rows fetched or -1 for failure" ...
Documented(k) == IF failed THEN -1 ELSE k

\* ... is what a caller gets, except for a failed fetch that brings no row: it is
\* told 0, as at the end of the stream, and never learns of the failure.
Returned(k) == IF k = 0 THEN 0 ELSE Documented(k)

\* Until an error is met a batch is the next rows, short only at the end; after
\* one, rows may be missing.
Fetch(n) ==
    /\ ~closed
    /\ Extends(given', given, n)
    /\ InStream(given')
    /\ LET k == Len(given') - Len(given)
       IN  /\ ~failed => /\ NoGap(given')
                         /\ k < n => Rows(given') = wanted
           /\ count' = Returned(k)
    /\ UNCHANGED <<wanted, failed, closed>>

\* A file or directory of the database cannot be read.
Fail == /\ failed' = TRUE
        /\ UNCHANGED <<wanted, given, closed, count>>

Close == /\ ~closed
         /\ closed' = TRUE
         /\ UNCHANGED <<wanted, given, failed, count>>

Next == (\E n \in Limits : Fetch(n)) \/ Fail \/ Close

Spec == Init /\ [][Next]_vars
=============================================================================
