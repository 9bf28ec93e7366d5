---------------------------- MODULE MCDataMethod ----------------------------
(* Small displays for DataMethod. *)
EXTENDS DataMethod

CONSTANTS east, north, beam, pasted

MkSetup(ws, ts, bs, c, ds, l, n) ==
    [screen |-> ws, types |-> ts, bands |-> bs, pastes |-> c, disks |-> ds, list |-> l, cuts |-> n]

\* Filters on one waveform; two components; a waveform that is cut twice among
\* other methods; one that is cut, copied and pasted; a beam.
Displays == {MkSetup({east}, {"Demean"}, {1, 2}, FALSE, {"all", "none"}, 6, 1),
             MkSetup({east, north}, {"AmpData"}, {}, FALSE, {"all", "part"}, 3, 2),
             MkSetup({east}, {"CalibData", "AmpData"}, {1}, FALSE, {"all", "part"}, 5, 2),
             MkSetup({east}, {"AmpData"}, {}, TRUE, {"all", "none"}, 3, 1),
             MkSetup({beam}, {"CalibData"}, {}, TRUE, {"all", "none"}, 3, 1)}
=============================================================================
