---------------------------- MODULE MCFFDBCache ----------------------------
(* Writers for FFDBCache. *)
EXTENDS FFDBCache

CONSTANTS d1, d2

MkSetup(i, u, r, n, ticks, malformed, faults) ==
    [inserters |-> i, updaters |-> u, readers |-> r, first |-> n,
     ticks |-> ticks, malformed |-> malformed, faults |-> faults]

Both == {MkSetup({d1}, {d1}, {d1}, 0, FALSE, FALSE, FALSE)}

\* Rows are inserted by the FFDatabase that reads, or by another one; rows are
\* updated, by this or that one; both while time is counted in seconds and rows
\* may be malformed; another one inserts while time is counted in seconds; rows
\* are inserted, or updated by another one, while calls of the system may fail.
Writers == {MkSetup({d1}, {}, {d1}, 0, FALSE, FALSE, FALSE), MkSetup({d2}, {}, {d1}, 0, FALSE, FALSE, FALSE),
            MkSetup({}, {d1}, {d1}, 2, FALSE, FALSE, FALSE), MkSetup({}, {d2}, {d1}, 1, FALSE, FALSE, FALSE),
            MkSetup({d1}, {d1}, {d1}, 1, TRUE, TRUE, FALSE), MkSetup({d1}, {d1}, {d1}, 1, TRUE, FALSE, FALSE),
            MkSetup({d2}, {}, {d1}, 0, TRUE, FALSE, FALSE),
            MkSetup({d1}, {}, {d1}, 1, FALSE, FALSE, TRUE),
            MkSetup({}, {d2}, {d1}, 1, FALSE, FALSE, TRUE)}

Symmetry == Permutations(Queries)
============================================================================
