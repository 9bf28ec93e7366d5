----------------------------- MODULE MCLastIds -----------------------------
(* Who uses the lastid tables, and how. *)
EXTENDS LastIds

MkSetup(ps, ks, ms, ns, lk, n) ==
    [procs |-> ps, keys |-> ks, modes |-> ms, sizes |-> ns, rowLock |-> lk, max |-> n]

CONSTANTS p1, p2, arid, orid

\* One process with a lastid file: of two keynames, with requests of one or two
\* ids that may have to be consecutive (the lists are then broken) and of one
\* id at a time; of one keyname, with any ids.  Two processes with an SQL row.
PoolSetups == {MkSetup({p1}, {arid, orid}, BOOLEAN, {1, 2}, FALSE, 2),
               MkSetup({p1}, {arid, orid}, BOOLEAN, {1}, FALSE, 2),
               MkSetup({p1}, {arid}, {FALSE}, {1, 2}, FALSE, 3),
               MkSetup({p1, p2}, {arid}, {FALSE}, {1, 2}, TRUE, 3)}
TailSetups == {MkSetup({p1}, {arid}, {TRUE}, {1, 2}, FALSE, 4)}
=============================================================================
