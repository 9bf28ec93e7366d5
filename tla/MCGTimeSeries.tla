--------------------------- MODULE MCGTimeSeries ---------------------------
(* Small waveforms for GTimeSeries. *)
EXTENDS GTimeSeries

\* Up to four pieces in any order: they begin on the same grid or between its times
\* (3), overlap at both ends, in the middle and in whole, or leave gaps (the one
\* before 150 is longer than a hundred units).  With the fourth one two joins happen
\* in one step, and segments are left that would fit.
Begins == {0, 3, 8, 150}
Sizes  == {1, 2, 5}

\* Times on samples, between them, in gaps and behind the end.
Times == {1, 4, 10}
============================================================================
