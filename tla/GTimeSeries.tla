---------------------------- MODULE GTimeSeries ----------------------------
(***************************************************************************)
(* The data of a waveform: a GTimeSeries is a sequence of GSegments, each  *)
(* with samples at regular times.  Segments come from files that may       *)
(* overlap, begin between two samples or leave gaps; they are joined where *)
(* they fit, and windows are taken out of the whole.                       *)
(*                                                                         *)
(* Times are integers, in a unit finer than the sample interval, and the   *)
(* arithmetic is exact, where the code has floating-point numbers.         *)
(***************************************************************************)
EXTENDS Integers, FiniteSets, SequencesExt

CONSTANTS
    Interval,   \* the time between two samples of the channel
    Second,     \* what setTdel takes for an interval that is not positive
    Starts,     \* times at which a piece of data may begin
    Lengths,    \* numbers of samples it may have
    Windows,    \* times at which windows begin and end
    MaxPieces,  \* bound: pieces of data read
    MaxCuts     \* bound: windows cut out

ASSUME IntervalAssumption == Interval \in 2..99 /\ Second \in 1..99
ASSUME TimesAssumption == Starts \subseteq Int /\ Windows \subseteq Int
ASSUME LengthsAssumption == Lengths \subseteq Nat \ {0}
ASSUME BoundsAssumption == MaxPieces \in Nat /\ MaxCuts \in Nat

VARIABLES
    s,          \* the segments
    phase,      \* "reading" or "shown"
    pieces,     \* pieces of data read
    cuts,       \* windows cut out
    newFirst    \* the order qsort gives to segments that begin at one time,
                \* which sortSegments leaves open

vars == <<s, phase, pieces, cuts, newFirst>>

\* A sample, by the piece that it comes from and the time it was measured at.
Sample == [piece : 1..MaxPieces, time : Int]

\* A GSegment: the time of its first sample, its sample interval, its samples.
GSegment == [beg : Int, del : Nat \ {0}, data : Seq(Sample)]

Seg(beg, n, p) ==
    [beg |-> beg, del |-> Interval,
     data |-> [k \in 1..n |-> [piece |-> p, time |-> beg + (k - 1) * Interval]]]

Time(g, k) == g.beg + (k - 1) * g.del
End(g)     == Time(g, Len(g.data))

Init ==
    /\ s = <<>> /\ phase = "reading" /\ pieces = 0 /\ cuts = 0
    /\ newFirst \in BOOLEAN

-----------------------------------------------------------------------------
(* GSegment *)

\* Mutant: the indices are not looked at.
TruncateAny(g, i1, i2) ==
    [g EXCEPT !.beg = @ + i1 * g.del,
              !.data = SubSeq(@, i1 + 1, IF i2 < Len(@) THEN i2 + 1 ELSE Len(@))]

\* truncate: samples i1 to i2, counted from 0; nothing happens if there is no
\* such sample.
TruncateSegment(g, i1, i2) ==
    IF i1 >= Len(g.data) \/ i2 < 0 \/ i1 > i2 THEN g
    ELSE [g EXCEPT !.beg = @ + i1 * g.del,
                   !.data = SubSeq(@, i1 + 1, IF i2 < Len(@) THEN i2 + 1 ELSE Len(@))]

SetTdel(g, dt) == [g EXCEPT !.del = IF dt <= 0 THEN Second ELSE dt]

-----------------------------------------------------------------------------
(* Adding a segment *)

\* tdel_tolerance is 99 hundredths of an interval.
Overlaps(g, new) == g.beg <= End(new) /\ 100 * End(g) + 99 * g.del >= 100 * new.beg

\* The first sample of g that is not before new, and the first one behind it.
D1(g, new) == (new.beg - g.beg) \div g.del
D2(g, new) == (100 * (End(new) - g.beg) + 99 * g.del) \div (100 * g.del) + 1

InMiddle(g, new) == Overlaps(g, new) /\ D1(g, new) > 0 /\ D2(g, new) < Len(g.data)

\* Mutant: the second half begins where the first one ends.
RestAll(g, new) ==
    LET i2 == D1(g, new)
    IN  IF InMiddle(g, new) /\ i2 < Len(g.data)
        THEN <<TruncateSegment(g, i2, Len(g.data))>> ELSE <<>>

\* What is left of g behind new, if new is in the middle of g.
Rest(g, new) ==
    LET i2 == D2(g, new) + 1
    IN  IF InMiddle(g, new) /\ i2 < Len(g.data)
        THEN <<TruncateSegment(g, i2, Len(g.data))>> ELSE <<>>

\* Mutant: the overlap at the end of g is taken for one at its beginning.
KeptSwapped(g, new) ==
    LET d1 == D1(g, new)  d2 == D2(g, new)  n == Len(g.data)
    IN  CASE ~Overlaps(g, new)   -> <<g>>
          [] Overlaps(g, new) /\ d1 <= 0 /\ d2 >= n -> <<>>
          [] Overlaps(g, new) /\ d1 <= 0 /\ d2 < n  -> <<TruncateSegment(g, 0, d2)>>
          [] Overlaps(g, new) /\ d1 > 0  -> <<TruncateSegment(g, 0, d1)>>

\* What is left of g at its place: nothing, its end, or its beginning.
Kept(g, new) ==
    LET d1 == D1(g, new)  d2 == D2(g, new)  n == Len(g.data)
    IN  CASE ~Overlaps(g, new)   -> <<g>>
          [] Overlaps(g, new) /\ d1 <= 0 /\ d2 >= n -> <<>>
          [] Overlaps(g, new) /\ d1 <= 0 /\ d2 < n  -> <<TruncateSegment(g, d2 + 1, n - 1)>>
          [] Overlaps(g, new) /\ d1 > 0  -> <<TruncateSegment(g, 0, d1)>>

\* A segment at its place among others, before or behind those that begin with it.
Insert(segs, g) ==
    LET earlier == {i \in DOMAIN segs : \/ segs[i].beg < g.beg
                                        \/ segs[i].beg = g.beg /\ ~newFirst}
    IN  InsertAt(segs, Cardinality(earlier) + 1, g)

\* qsort with sortSegments.
Sorted(segs) == FoldLeft(Insert, <<>>, segs)

\* A segment of one sample gets the distance to its neighbour for an interval.
Spaced(segs) ==
    [j \in DOMAIN segs |->
        IF Len(segs[j].data) > 1 THEN segs[j]
        ELSE SetTdel(segs[j], IF j = 1 THEN segs[2].beg - segs[1].beg
                              ELSE segs[j].beg - End(segs[j - 1]))]

\* Mutant: single samples, with whatever interval they have, are joined too.
FitsShort(g, h) == LET gap == h.beg - End(g) - g.del
                   IN  100 * gap <= 99 * g.del /\ -100 * gap <= 99 * g.del

\* Does h follow g closely?  (Segments of several samples have one interval.)
Fits(g, h) ==
    LET gap == h.beg - End(g) - g.del
    IN  /\ Len(g.data) > 1 /\ Len(h.data) > 1
        /\ 100 * gap <= 99 * g.del /\ -100 * gap <= 99 * g.del

\* Runs of segments that fit become one, with the times that the first one gives.
JoinSegments(segs) ==
    LET sp == Spaced(segs)
        joined(done, j) ==
            IF j > 1 /\ Fits(sp[j - 1], sp[j])
            THEN [done EXCEPT ![Len(done)].data = @ \o sp[j].data]
            ELSE Append(done, sp[j])
    IN  IF Len(segs) <= 1 THEN segs
        ELSE FoldLeft(joined, <<>>, [j \in DOMAIN sp |-> j])

\* "New data overrides existing data": from the last segment to the first one,
\* or to one that new is in the middle of.
AddSegment(segs, new) ==
    LET middle == {i \in DOMAIN segs : InMiddle(segs[i], new)}
        old(i) == IF \E j \in middle : i < j THEN <<segs[i]>> ELSE Kept(segs[i], new)
        rest   == IF middle = {} THEN <<>>
                  ELSE Rest(segs[CHOOSE i \in middle : \A j \in middle : j <= i], new)
    IN  JoinSegments(Sorted(FlattenSeq([i \in DOMAIN segs |-> old(i)]) \o <<new>> \o rest))

\* join(ts), and the copy constructor with segs = <<>>.
Join(segs, others) == FoldLeft(AddSegment, segs, others)

-----------------------------------------------------------------------------
(* Windows *)

\* time_tolerance is a hundredth of the interval of the first segment.
Tol(segs)  == segs[1].del
TBeg(segs) == segs[1].beg
TEnd(segs) == End(segs[Len(segs)])

Clamp(i, n) == IF i < 0 THEN 0 ELSE IF i >= n THEN n - 1 ELSE i

\* upperBound(t - tolerance) and lowerBound(t + tolerance): a segment and an
\* index in it.
UpperBound(segs, t) ==
    LET e == 100 * t - Tol(segs)
        on == {i \in DOMAIN segs : e <= 100 * End(segs[i])}
        i == CHOOSE j \in on : \A k \in on : j <= k
        ndex == -((100 * segs[i].beg - e) \div (100 * segs[i].del))
    IN  IF e <= 100 * TBeg(segs) THEN <<1, 0>>
        ELSE IF on = {} THEN <<Len(segs), Len(segs[Len(segs)].data) - 1>>
        ELSE <<i, Clamp(ndex, Len(segs[i].data))>>

\* Mutant: the next sample.
LowerBoundNext(segs, t) ==
    LET e == 100 * t + Tol(segs)
        on == {i \in DOMAIN segs : e >= 100 * segs[i].beg}
        i == CHOOSE j \in on : \A k \in on : j >= k
    IN  IF on = {} THEN <<1, 0>>
        ELSE <<i, Clamp((e - 100 * segs[i].beg) \div (100 * segs[i].del) + 1, Len(segs[i].data))>>

LowerBound(segs, t) ==
    LET e == 100 * t + Tol(segs)
        on == {i \in DOMAIN segs : e >= 100 * segs[i].beg}
        i == CHOOSE j \in on : \A k \in on : j >= k
        ndex == (e - 100 * segs[i].beg) \div (100 * segs[i].del)
    IN  IF e >= 100 * TEnd(segs) THEN <<Len(segs), Len(segs[Len(segs)].data) - 1>>
        ELSE IF on = {} THEN <<1, 0>>
        ELSE <<i, Clamp(ndex, Len(segs[i].data))>>

\* subsegment: samples i to j of g, counted from 0.
Subsegment(g, i, j) ==
    [g EXCEPT !.beg = @ + i * g.del, !.data = SubSeq(@, i + 1, j + 1)]

\* Is all of segs between t1 and t2?
Whole(segs, t1, t2) ==
    100 * t1 < 100 * TBeg(segs) + Tol(segs) /\ 100 * t2 > 100 * TEnd(segs) - Tol(segs)

\* Is there nothing of it?
Outside(segs, t1, t2) ==
    \/ 100 * t2 < 100 * TBeg(segs) + Tol(segs)
    \/ 100 * t1 > 100 * t2 + Tol(segs)
    \/ 100 * t1 > 100 * TEnd(segs) - Tol(segs)

\* The samples between t1 and t2, or <<>> for NULL.  With both times in one gap
\* the first bound is behind the second one.
Subseries(segs, t1, t2) ==
    LET d1 == UpperBound(segs, t1)  d2 == LowerBound(segs, t2)
        i1 == d1[1]  i2 == d2[1]
        last(i) == Len(segs[i].data) - 1
        parts == IF i1 = i2 THEN <<Subsegment(segs[i1], d1[2], d2[2])>>
                 ELSE <<Subsegment(segs[i1], d1[2], last(i1))>>
                      \o SubSeq(segs, i1 + 1, i2 - 1)
                      \o <<Subsegment(segs[i2], 0, d2[2])>>
    IN  IF segs = <<>> \/ Outside(segs, t1, t2) THEN <<>>
        ELSE IF Whole(segs, t1, t2) THEN Join(<<>>, segs)
        ELSE IF i1 = i2 /\ d1[2] > d2[2] THEN <<>>
        ELSE Join(<<>>, parts)

\* truncate: nothing changes if there is no such data.
Truncate(segs, t1, t2) ==
    LET sub == Subseries(segs, t1, t2)
    IN  IF segs = <<>> \/ Whole(segs, t1, t2) \/ sub = <<>> THEN segs ELSE Join(<<>>, sub)

\* CutData: what is not between t1 and t2, or <<>> if that is nothing.
CutData(segs, t1, t2) ==
    LET head == Subseries(segs, TBeg(segs), t1)
        tail == Subseries(segs, t2, TEnd(segs))
    IN  IF head = <<>> THEN tail ELSE Join(head, tail)

-----------------------------------------------------------------------------
(* The life of a waveform *)

\* A source adds a segment for each row of the wfdisc table that it finds.
ReadSegment(beg, n) ==
    /\ phase = "reading" /\ pieces < MaxPieces
    /\ s' = AddSegment(s, Seg(beg, n, pieces + 1))
    /\ pieces' = pieces + 1
    /\ UNCHANGED <<phase, cuts, newFirst>>

\* ... and at the end takes the time window that was asked for.
EndRead(t1, t2) ==
    /\ phase = "reading" /\ s # <<>> /\ t1 < t2
    /\ s' = Truncate(s, t1, t2)
    /\ phase' = "shown"
    /\ UNCHANGED <<pieces, cuts, newFirst>>

\* ... unless a piece cannot be read, in whole or in part: reread returns at
\* once, and what has come so far stays, also outside the window.
ReadFails ==
    /\ phase = "reading"
    /\ phase' = "shown"
    /\ UNCHANGED <<s, pieces, cuts, newFirst>>

Cut(t1, t2) ==
    /\ phase = "shown" /\ cuts < MaxCuts /\ t1 < t2
    /\ LET rest == CutData(s, t1, t2) IN rest # <<>> /\ s' = rest
    /\ cuts' = cuts + 1
    /\ UNCHANGED <<phase, pieces, newFirst>>

\* The clipboard, a window or a method goes on with a copy.
Copy ==
    /\ phase = "shown"
    /\ s' = Join(<<>>, s)
    /\ UNCHANGED <<phase, pieces, cuts, newFirst>>

\* reread: removeAllSegments, and the pieces come again.
Reread ==
    /\ phase = "shown"
    /\ s' = <<>> /\ phase' = "reading" /\ pieces' = 0 /\ cuts' = 0
    /\ UNCHANGED newFirst

Next ==
    \/ \E beg \in Starts, n \in Lengths : ReadSegment(beg, n)
    \/ \E t1, t2 \in Windows : EndRead(t1, t2) \/ Cut(t1, t2)
    \/ ReadFails \/ Copy \/ Reread

Spec == Init /\ [][Next]_vars

-----------------------------------------------------------------------------
(* What is promised *)

\* No segment is empty, and those of several samples have the channel's interval.
TypeOK ==
    /\ s \in Seq(GSegment)
    /\ \A i \in DOMAIN s : s[i].data # <<>> /\ (Len(s[i].data) > 1 => s[i].del = Interval)
    /\ phase \in {"reading", "shown"}
    /\ pieces \in 0..MaxPieces /\ cuts \in 0..MaxCuts /\ newFirst \in BOOLEAN

\* The places of samples, the sample and the time at a place, and all samples.
Places(segs)  == UNION {{<<i, k>> : k \in DOMAIN segs[i].data} : i \in DOMAIN segs}
At(segs, p)   == segs[p[1]].data[p[2]]
When(segs, p) == Time(segs[p[1]], p[2])
Samples(segs) == {At(segs, p) : p \in Places(segs)}

\* No two segments overlap by more than one sample time.
Ordered == \A i \in 1..(Len(s) - 1) : End(s[i]) <= s[i + 1].beg

\* The tolerance at the ends of windows is less than a unit of time.  It is not if
\* the first segment is a sample alone, whose neighbour is a hundred units away.
Fine == s # <<>> => Tol(s) < 100

Once(segs) == Cardinality(Samples(segs)) = Cardinality(Places(segs))

\* Segments stay in the order of time, and nothing puts a sample in two places: no
\* piece that is read, no window, no copy; and no cut, unless segments overlap.
NothingTwice == [][
    /\ \A i \in 1..(Len(s') - 1) : s'[i].beg <= s'[i + 1].beg
    /\ Once(s) /\ (cuts' > cuts => Ordered /\ Fine) => Once(s')]_vars

\* A join gives samples new times: it moves a segment, and what is joined behind
\* it, by less than an interval.  A piece that is read adds at most two segments,
\* itself and what is left behind it, so Len(s) segments are the result of at most
\* 2 * pieces - 1 - Len(s) joins, and nothing has been moved further than they do.
Drift == phase = "reading" => \A p \in Places(s) :
    LET most == (2 * pieces - 1 - Len(s)) * (Interval - 1)
    IN  When(s, p) - At(s, p).time \in (-most)..most

\* "New data overrides existing data": all of it is there, in one segment and, for
\* each join, less than an interval from its place; and of the old data nothing is
\* lost that is more than two intervals away (but a segment of one sample, whose
\* interval setTdel has set, may be).
NewDataOverrides == [][pieces' > pieces => \A beg \in Starts, n \in Lengths : ReadSegment(beg, n) =>
    LET new  == Seg(beg, n, pieces + 1)
        most == (Len(s) + 2 - Len(s')) * (Interval - 1)
    IN  /\ \E p \in Places(s') :
              /\ When(s', p) - beg \in (-most)..most
              /\ \A k \in 1..n : /\ <<p[1], p[2] + k - 1>> \in Places(s')
                                 /\ At(s', <<p[1], p[2] + k - 1>>) = new.data[k]
        /\ \A p \in Places(s) : At(s, p) \notin Samples(s') =>
              \/ Len(s[p[1]].data) = 1
              \/ When(s, p) \in (beg - Interval + 1)..(End(new) + 2 * Interval)]_vars

\* Nothing is left to join or to replace: no two segments overlap by more than one
\* sample time or fit, and none is a sample alone, with the interval of its place.
Settled ==
    /\ Ordered /\ \A i \in DOMAIN s : Len(s[i].data) > 1
    /\ \A i \in 1..(Len(s) - 1) : ~Fits(s[i], s[i + 1])

\* The places between t1 and t2: none if t1 is not before the last sample, or t2
\* not behind the first one.
Inside(t1, t2) == {p \in Places(s) : /\ t1 < TEnd(s) /\ t2 > TBeg(s)
                                     /\ When(s, p) \in t1..t2}

\* Is the next sample in ps too?
Company(ps, p) == <<p[1], p[2] - 1>> \in ps \/ <<p[1], p[2] + 1>> \in ps

\* The samples at the places ps, with their times.
Timed(segs, ps) == {<<At(segs, p), When(segs, p)>> : p \in ps}

\* What s becomes is the samples of the windows in W and no others, each at its
\* time; but a sample that has no neighbour in its window may be taken for one
\* that the next segment replaces.
Becomes(W) ==
    /\ Timed(s', Places(s')) \subseteq Timed(s, UNION W)
    /\ \A ps \in W : \A p \in ps : Company(ps, p) => At(s, p) \in Samples(s')

\* "including only data between times t1 and t2": so it is with the window that
\* is read, with both sides of a cut, and with a copy, if nothing is left to join
\* or to replace and the window has samples.
WindowExact == [][Settled =>
    /\ \A t1, t2 \in Windows :
          /\ phase' # phase /\ EndRead(t1, t2) /\ Inside(t1, t2) # {} => Becomes({Inside(t1, t2)})
          /\ cuts' > cuts /\ Cut(t1, t2) => Becomes({Inside(TBeg(s), t1), Inside(t2, TEnd(s))})
    /\ Copy => Becomes({Places(s)})]_vars

\* "The data from a new GSegment object replaces any data that it overlaps": no
\* two segments have samples for one time.  (The code keeps one sample too many
\* before the new ones, or all of the old ones.)
NoOverlap == \A i \in 1..(Len(s) - 1) : End(s[i]) < s[i + 1].beg
=============================================================================
