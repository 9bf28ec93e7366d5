-------------------------- MODULE FFDBQueryStream --------------------------
(* FFDBQuery implements RowStream. *)
EXTENDS FFDBQuery

\* What the caller has been told: during a call of getResults, the rows of the
\* earlier calls.
InCall == mpc \in {"getvalue", "release", "wait", "collect"}
Seen   == IF InCall THEN SubSeq(Given, 1, Len(Given) - num_fetched) ELSE Given

\* The search has met an error.  FFDBSearch drops that of a segment root that
\* cannot be opened: search_error stays FALSE, but there is no row to return.
Failed == \/ search_error
          \/ db.kind = "wfdisc" /\ ~db.segRoot /\ tpc \notin {"start", "first"}

Stream == INSTANCE RowStream WITH
              wanted <- Wanted, given <- Seen, failed <- Failed,
              closed <- Deleted, count <- ret

\* The batches are those of a stream of rows, each call an atomic fetch: nothing
\* that the caller of getResults sees tells that a second thread searches.
StreamSpec == Stream!Spec
=============================================================================
