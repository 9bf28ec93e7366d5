---------------------------- MODULE IdSegments ----------------------------
(***************************************************************************)
(* The recycled-id list of a keyname: ids that were taken from the lastid  *)
(* table and are free to be handed out again, kept as segments of          *)
(* consecutive ids.  libgio and libgdb have the same code.                 *)
(***************************************************************************)
EXTENDS Integers, SequencesExt

Segment == [startValue : Nat, numValues : Nat]

Seg(start, n) == [startValue |-> start, numValues |-> n]
End(s)        == s.startValue + s.numValues - 1
IdsOf(s)      == s.startValue .. End(s)
Ids(segs)     == UNION {IdsOf(segs[i]) : i \in DOMAIN segs}

\* A list is sorted, with a gap between two segments and none of them empty.
Canonical(segs) ==
    /\ \A i \in DOMAIN segs : segs[i].numValues > 0
    /\ \A i \in 1..(Len(segs) - 1) : End(segs[i]) + 1 < segs[i + 1].startValue

\* Join segments that are consecutive, from the last one down.
Joined(segs) ==
    LET join(s, done) ==
            IF done # <<>> /\ Head(done).startValue = End(s) + 1
            THEN <<Seg(s.startValue, s.numValues + Head(done).numValues)>> \o Tail(done)
            ELSE <<s>> \o done
    IN  FoldRight(join, segs, <<>>)

\* Mutant: the segments are not sorted before they are joined.
AddUnsorted(segs, start, n) == Joined(Append(segs, Seg(start, n)))

\* The segments by their first ids.
Sorted(segs) ==
    LET place == CHOOSE f \in Bijection(DOMAIN segs, DOMAIN segs) :
                    \A i, j \in DOMAIN segs :
                       i < j => segs[f[i]].startValue <= segs[f[j]].startValue
    IN  [i \in DOMAIN segs |-> segs[place[i]]]

AddRecycleSegment(segs, start, n) == Joined(Sorted(Append(segs, Seg(start, n))))

\* The runs of consecutive ids in ids, in the order of the array.
Runs(ids) ==
    LET grow(runs, id) ==
            IF runs # <<>> /\ End(Last(runs)) + 1 = id
            THEN Append(Front(runs), Seg(Last(runs).startValue, Last(runs).numValues + 1))
            ELSE Append(runs, Seg(id, 1))
    IN  FoldLeft(grow, <<>>, ids)

\* recycleIds: every run of the array is added as a segment.
RecycleIds(segs, ids) ==
    FoldLeft(LAMBDA done, s : AddRecycleSegment(done, s.startValue, s.numValues),
             segs, Runs(ids))

IdSeq(s) == [i \in 1..s.numValues |-> s.startValue + i - 1]

\* Any n ids, or all that there are: the smallest ones.
TakeAny(segs, n) == LET all == FlattenSeq([i \in DOMAIN segs |-> IdSeq(segs[i])])
                    IN  SubSeq(all, 1, IF n < Len(all) THEN n ELSE Len(all))

\* Mutant: more ids are taken from a segment than it has.
WithoutUncapped(segs, n) ==
    LET drop(acc, s) ==
            IF acc.n = 0 THEN [acc EXCEPT !.segs = Append(@, s)]
            ELSE [n |-> 0, segs |-> Append(acc.segs, Seg(s.startValue + acc.n, s.numValues - acc.n))]
    IN  FoldLeft(drop, [n |-> n, segs |-> <<>>], segs).segs

\* What is left of the list: segments lose their first ids, or go.
Without(segs, n) ==
    LET drop(acc, s) ==
            LET k == IF s.numValues < acc.n THEN s.numValues ELSE acc.n
                rest == Seg(s.startValue + k, s.numValues - k)
            IN  [n |-> acc.n - k,
                 segs |-> IF rest.numValues > 0 THEN Append(acc.segs, rest) ELSE acc.segs]
    IN  FoldLeft(drop, [n |-> n, segs |-> <<>>], segs).segs

\* The first segment with n ids or more, 0 if none has.
FirstFit(segs, n) == SelectInSeq(segs, LAMBDA s : s.numValues >= n)

\* n consecutive ids from segment i.
TakeRun(segs, i, n) ==
    LET rest == Seg(segs[i].startValue + n, segs[i].numValues - n)
    IN  IF rest.numValues = 0 THEN RemoveAt(segs, i) ELSE [segs EXCEPT ![i] = rest]

\* n ids meant to come from the last segment and the table behind it.  The
\* loop uses its counter to index the segments, so it takes one id from each
\* of the first n segments, whatever lies in memory (junk) behind the last
\* one, and counts no id as taken; then the last segment is dropped.
TakeTail(segs, n, junk) == [i \in 1..n |-> IF i <= Len(segs) THEN segs[i].startValue ELSE junk]
TailTaken(segs, n) ==
    Front([i \in DOMAIN segs |->
           IF i <= n THEN [segs[i] EXCEPT !.startValue = @ + 1] ELSE segs[i]])
===========================================================================
