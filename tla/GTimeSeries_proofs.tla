------------------------- MODULE GTimeSeries_proofs -------------------------
(***************************************************************************)
(* Theorems about the segments of a waveform: for any pieces, windows and  *)
(* intervals they have their types, are in the order of time, and no step  *)
(* puts a sample in two places; joins move no sample further than there    *)
(* were joins; new data override old ones; and a window, a cut or a copy   *)
(* of segments that nothing is left to join shows what is there, no more   *)
(* and no less.  Every operator of GTimeSeries has a lemma that says which *)
(* samples it gives and how often, and those that add a segment or take a  *)
(* window have lemmas that say where the samples go.                       *)
(***************************************************************************)
EXTENDS GTimeSeries, SequenceTheorems, FiniteSetTheorems, WellFoundedInduction, TLAPS

-----------------------------------------------------------------------------
(* Folds, as functions of the prefixes of a sequence *)

\* A set of natural numbers has a least one.
LEMMA Least ==
    ASSUME NEW T \in SUBSET Nat, T # {} PROVE \E m \in T : \A k \in T : m <= k
<1> DEFINE R == {ss \in Nat \X Nat : ss[1] < ss[2]}
<1>1. IsWellFoundedOn(R, Nat)
  BY NatLessThanWellFounded DEF OpToRel
<1> HIDE DEF R
<1>2. PICK m \in T : \A k \in T : ~(<<k, m>> \in R)
  BY <1>1, WFMin
<1>3. \A k \in T : ~(k < m)
  BY <1>2 DEF R
<1> QED
  BY <1>3

\* A set of natural numbers with 0, and with the successor of each of its
\* members below n, has all numbers up to n.
LEMMA UpTo ==
    ASSUME NEW n \in Nat, NEW T, 0 \in T, \A i \in 0..n : i \in T /\ i < n => i + 1 \in T
    PROVE  \A i \in 0..n : i \in T
<1> SUFFICES ASSUME NEW j \in 0..n, j \notin T PROVE FALSE
  OBVIOUS
<1> DEFINE U == {i \in 0..n : i \notin T}
<1>1. U \in SUBSET Nat /\ U # {}
  OBVIOUS
<1>2. PICK m \in U : \A k \in U : m <= k
  BY <1>1, Least
<1>3. m # 0 /\ m \in 0..n /\ m \notin T
  BY <1>2
<1>4. m - 1 \in 0..n /\ m - 1 \notin U
  BY <1>2, <1>3
<1>5. m - 1 \in T /\ m - 1 < n
  BY <1>3, <1>4
<1> QED
  BY <1>3, <1>4, <1>5

\* Max and Min of a set that has its bound.
LEMMA MaxIs ==
    ASSUME NEW S \in SUBSET Int, NEW m \in S, \A x \in S : x <= m PROVE Max(S) = m
<1>1. m \in S /\ \A y \in S : m >= y
  OBVIOUS
<1>2. \A x \in S : (\A y \in S : x >= y) => x = m
  OBVIOUS
<1> QED
  BY <1>1, <1>2 DEF Max

\* Max of a set of natural numbers is in it.
LEMMA GreatestIn ==
    ASSUME NEW n \in Nat, NEW S \in SUBSET (1..n), S # {} PROVE Max(S) \in S
<1> DEFINE T == {k \in 0..n : n - k \in S}
<1>1. T \in SUBSET Nat /\ T # {}
  <2>1. PICK x \in S : TRUE
    OBVIOUS
  <2>2. PICK d \in 0..n : d = n - x
    OBVIOUS
  <2>3. n - d = x
    BY <2>2
  <2>4. d \in T
    BY <2>3
  <2> QED
    BY <2>4
<1>2. PICK m \in T : \A k \in T : m <= k
  BY <1>1, Least
<1>3. n - m \in S
  BY <1>2
<1>4. \A x \in S : x <= n - m
  <2> SUFFICES ASSUME NEW x \in S PROVE x <= n - m
    OBVIOUS
  <2>1. n - x \in 0..n /\ n - (n - x) = x
    OBVIOUS
  <2>2. m <= n - x
    BY <1>2, <2>1
  <2> QED
    BY <2>2
<1>5. S \in SUBSET Int
  OBVIOUS
<1> QED
  BY <1>3, <1>4, <1>5, MaxIs

\* D is a step of a fold over n elements, with results in A.
StepOf(D, A, n) == D \in [A \X (1..n) -> A]

\* The function that a fold with D from the left is a value of.
IsLeft(it, n, b, D) == \A t \in SUBSET (1..n) :
    it[t] = IF t = {} THEN b ELSE D[<<it[t \ {Max(t)}], Max(t)>>]

\* It exists.
LEMMA LeftIter ==
    ASSUME NEW n \in Nat, NEW A, NEW b \in A, NEW D, StepOf(D, A, n)
    PROVE  \E it \in [SUBSET (1..n) -> A] : IsLeft(it, n, b, D)
<1> USE DEF StepOf
<1> DEFINE Is(m, it) == it = [t \in SUBSET (1..m) |->
                              IF t = {} THEN b ELSE D[<<it[t \ {Max(t)}], Max(t)>>]]
           T == {m \in 0..n : \E it \in [SUBSET (1..m) -> A] : Is(m, it)}
<1>1. 0 \in T
  <2> DEFINE it == [t \in SUBSET (1..0) |-> b]
  <2>1. \A t \in SUBSET (1..0) : t = {}
    OBVIOUS
  <2>2. Is(0, it)
    BY <2>1
  <2> QED
    BY <2>2
<1>2. ASSUME NEW m \in 0..n, m \in T, m < n PROVE m + 1 \in T
  <2>1. PICK it \in [SUBSET (1..m) -> A] : Is(m, it)
    BY <1>2
  <2> DEFINE next == [t \in SUBSET (1..(m + 1)) |->
                      IF m + 1 \in t THEN D[<<it[t \ {m + 1}], m + 1>>] ELSE it[t]]
  <2>2. ASSUME NEW t \in SUBSET (1..(m + 1))
        PROVE  next[t] \in A /\ next[t] = IF t = {} THEN b ELSE D[<<next[t \ {Max(t)}], Max(t)>>]
    <3>1. CASE m + 1 \in t
      <4>1. Max(t) = m + 1
        <5>1. t \in SUBSET Int /\ \A x \in t : x <= m + 1
          BY <1>2
        <5> QED
          BY <3>1, <5>1, MaxIs
      <4>2. t \ {m + 1} \in SUBSET (1..m) /\ t \ {m + 1} \in SUBSET (1..(m + 1))
        OBVIOUS
      <4>3. next[t] = D[<<it[t \ {m + 1}], m + 1>>] /\ next[t \ {m + 1}] = it[t \ {m + 1}]
        BY <3>1, <4>2
      <4>4. it[t \ {m + 1}] \in A
        BY <2>1, <4>2
      <4>5. m + 1 \in 1..n
        BY <1>2
      <4>6. next[t] \in A
        BY <4>3, <4>4, <4>5
      <4> HIDE DEF next
      <4> QED
        BY <3>1, <4>1, <4>3, <4>6
    <3>2. CASE m + 1 \notin t
      <4>1. t \in SUBSET (1..m)
        BY <3>2
      <4>2. next[t] = it[t] /\ it[t] \in A
        BY <2>1, <3>2, <4>1
      <4>3. it[t] = IF t = {} THEN b ELSE D[<<it[t \ {Max(t)}], Max(t)>>]
        BY <2>1, <4>1
      <4>4. next[t \ {Max(t)}] = it[t \ {Max(t)}]
        BY <3>2, <4>1
      <4> HIDE DEF next
      <4> QED
        BY <4>2, <4>3, <4>4
    <3> QED
      BY <3>1, <3>2
  <2>3. next \in [SUBSET (1..(m + 1)) -> A]
    BY <2>2
  <2>4. Is(m + 1, next)
    <3>1. next = [t \in SUBSET (1..(m + 1)) |-> next[t]]
      OBVIOUS
    <3> HIDE DEF next
    <3> QED
      BY <2>2, <3>1
  <2> HIDE DEF next, Is
  <2> QED
    BY <1>2, <2>3, <2>4
<1> HIDE DEF Is
<1>3. n \in T
  <2>1. \A i \in 0..n : i \in T /\ i < n => i + 1 \in T
    BY <1>2
  <2> HIDE DEF T
  <2>2. \A i \in 0..n : i \in T
    BY <1>1, <2>1, UpTo
  <2> QED
    BY <2>2
<1>4. PICK it \in [SUBSET (1..n) -> A] : Is(n, it)
  BY <1>3
<1>5. \A t \in SUBSET (1..n) :
          it[t] = IF t = {} THEN b ELSE D[<<it[t \ {Max(t)}], Max(t)>>]
  BY <1>4 DEF Is
<1> QED
  BY <1>5 DEF IsLeft


-----------------------------------------------------------------------------
(* Segments *)

\* The segments there are: not empty, and if they have several samples, with the
\* channel's interval.
Good == {g \in GSegment : g.data # <<>> /\ (Len(g.data) > 1 => g.del = Interval)}

\* The samples of a segment, and of several.
Data(g)   == {g.data[k] : k \in 1..Len(g.data)}
All(segs) == UNION {Data(segs[i]) : i \in 1..Len(segs)}

\* No sample is in two places.
Single(g) == \A k, l \in 1..Len(g.data) : g.data[k] = g.data[l] => k = l
Distinct(segs) ==
    /\ \A i \in 1..Len(segs) : Single(segs[i])
    /\ \A i, j \in 1..Len(segs) : i # j => Data(segs[i]) \cap Data(segs[j]) = {}

\* Segments are in the order of time.
InOrder(segs) == \A i, j \in 1..Len(segs) : i <= j => segs[i].beg <= segs[j].beg

\* What a quotient is.
LEMMA Quotient ==
    ASSUME NEW a \in Int, NEW b \in Nat \ {0}
    PROVE  /\ a \div b \in Int
           /\ b * (a \div b) <= a
           /\ a < b * (a \div b) + b
OBVIOUS

\* What a segment is made of.
LEMMA GoodFields ==
    ASSUME NEW g \in Good
    PROVE  /\ g \in GSegment /\ g.beg \in Int /\ g.del \in Nat \ {0}
           /\ g.data \in Seq(Sample) /\ Len(g.data) \in Nat \ {0}
           /\ DOMAIN g.data = 1..Len(g.data)
           /\ \A k \in 1..Len(g.data) : g.data[k] \in Sample
           /\ Len(g.data) > 1 => g.del = Interval
<1>1. g \in GSegment /\ g.data # <<>> /\ (Len(g.data) > 1 => g.del = Interval)
  BY DEF Good
<1>2. g.beg \in Int /\ g.del \in Nat \ {0} /\ g.data \in Seq(Sample)
  BY <1>1 DEF GSegment
<1>3. Len(g.data) \in Nat /\ Len(g.data) # 0
  BY <1>1, <1>2, EmptySeq
<1> QED
  BY <1>1, <1>2, <1>3, ElementOfSeq, LenProperties

\* A record of a time, an interval and samples is such a segment.
LEMMA GoodMade ==
    ASSUME NEW beg \in Int, NEW del \in Nat \ {0}, NEW data \in Seq(Sample), Len(data) # 0,
           Len(data) > 1 => del = Interval,
           NEW g, g = [beg |-> beg, del |-> del, data |-> data]
    PROVE  g \in Good /\ g.beg = beg /\ g.del = del /\ g.data = data
BY EmptySeq DEF Good, GSegment

\* Samples a to b of a segment, counted from 1.
Part(g, a, b) == [beg |-> g.beg + (a - 1) * g.del, del |-> g.del, data |-> SubSeq(g.data, a, b)]

\* Samples a to b of a segment are a segment.
LEMMA PartIs ==
    ASSUME NEW g \in Good, NEW a \in 1..Len(g.data), NEW b \in a..Len(g.data)
    PROVE  /\ Part(g, a, b) \in Good
           /\ Part(g, a, b).beg = g.beg + (a - 1) * g.del
           /\ Part(g, a, b).del = g.del
           /\ Len(Part(g, a, b).data) = b - a + 1
           /\ \A k \in 1..(b - a + 1) : Part(g, a, b).data[k] = g.data[k + a - 1]
<1>1. PICK d \in Seq(Sample) : d = g.data
  BY GoodFields
<1>2. PICK n \in Nat : n = Len(d) /\ a \in 1..n /\ b \in a..n
  BY <1>1, LenProperties
<1>3. PICK e : e = SubSeq(d, a, b)
  OBVIOUS
<1>4. e \in Seq(Sample) /\ Len(e) = b - a + 1 /\ \A k \in 1..(b - a + 1) : e[k] = d[a + k - 1]
  <2>1. a \in 1..(Len(d) + 1) /\ b \in (a - 1)..Len(d)
    BY <1>2
  <2> QED
    BY <1>3, <2>1, SubSeqProperties
<1>5. g.beg \in Int /\ g.del \in Nat \ {0} /\ (n > 1 => g.del = Interval)
  BY <1>1, <1>2, GoodFields
<1>6. g.beg + (a - 1) * g.del \in Int
  BY <1>2, <1>5
<1>7. Len(e) # 0 /\ (Len(e) > 1 => n > 1)
  BY <1>2, <1>4
<1>8. Part(g, a, b) = [beg |-> g.beg + (a - 1) * g.del, del |-> g.del, data |-> e]
  BY <1>1, <1>3 DEF Part
<1>9. /\ Part(g, a, b) \in Good /\ Part(g, a, b).beg = g.beg + (a - 1) * g.del
      /\ Part(g, a, b).del = g.del /\ Part(g, a, b).data = e
  BY <1>4, <1>5, <1>6, <1>7, <1>8, GoodMade
<1>10. \A k \in 1..(b - a + 1) : e[k] = d[k + a - 1]
  <2>1. \A k \in 1..(b - a + 1) : a + k - 1 = k + a - 1
    BY <1>2
  <2> QED
    BY <1>4, <2>1
<1> QED
  BY <1>1, <1>4, <1>9, <1>10

\* A part has samples of its segment, once if those are there once.
LEMMA PartData ==
    ASSUME NEW g \in Good, NEW a \in 1..Len(g.data), NEW b \in a..Len(g.data)
    PROVE  /\ Data(Part(g, a, b)) = {g.data[k] : k \in a..b}
           /\ Data(Part(g, a, b)) \subseteq Data(g)
           /\ Single(g) => Single(Part(g, a, b))
<1>1. PICK n \in Nat : n = Len(g.data) /\ a \in 1..n /\ b \in a..n
  BY GoodFields
<1>2. PICK p, m : p = Part(g, a, b) /\ m = b - a + 1
  OBVIOUS
<1>3. m \in Nat /\ Len(p.data) = m /\ \A k \in 1..m : p.data[k] = g.data[k + a - 1]
  <2>1. m \in Nat
    BY <1>1, <1>2
  <2>2. /\ Len(Part(g, a, b).data) = b - a + 1
        /\ \A k \in 1..(b - a + 1) : Part(g, a, b).data[k] = g.data[k + a - 1]
    BY PartIs
  <2> QED
    BY <1>2, <2>1, <2>2
<1>4. \A k \in 1..m : k + a - 1 \in a..b /\ k + a - 1 \in 1..n
  BY <1>1, <1>2
<1>5. \A k \in a..b : k - a + 1 \in 1..m /\ (k - a + 1) + a - 1 = k /\ k \in 1..n
  BY <1>1, <1>2
<1>6. Data(p) = {g.data[k] : k \in a..b}
  <2>1. \A x \in Data(p) : x \in {g.data[k] : k \in a..b}
    BY <1>3, <1>4 DEF Data
  <2>2. ASSUME NEW k \in a..b PROVE g.data[k] \in Data(p)
    <3>1. p.data[k - a + 1] = g.data[k]
      BY <1>3, <1>5
    <3> QED
      BY <1>3, <1>5, <3>1 DEF Data
  <2> QED
    BY <2>1, <2>2
<1>7. Data(p) \subseteq Data(g)
  BY <1>1, <1>5, <1>6 DEF Data
<1>8. ASSUME Single(g) PROVE Single(p)
  <2> SUFFICES ASSUME NEW k \in 1..m, NEW l \in 1..m, p.data[k] = p.data[l] PROVE k = l
    BY <1>3 DEF Single
  <2>1. g.data[k + a - 1] = g.data[l + a - 1]
    BY <1>3
  <2>2. k + a - 1 = l + a - 1
    BY <1>1, <1>4, <1>8, <2>1 DEF Single
  <2> QED
    BY <1>1, <2>2
<1> QED
  BY <1>2, <1>6, <1>7, <1>8

\* Two parts without a common place have no common sample.
LEMMA PartsApart ==
    ASSUME NEW g \in Good, Single(g), NEW a \in 1..Len(g.data), NEW b \in a..Len(g.data),
           NEW c \in 1..Len(g.data), NEW d \in c..Len(g.data), b < c
    PROVE  Data(Part(g, a, b)) \cap Data(Part(g, c, d)) = {}
<1>1. PICK n \in Nat : n = Len(g.data) /\ a \in 1..n /\ b \in a..n /\ c \in 1..n /\ d \in c..n
  BY GoodFields
<1>2. \A k \in a..b : \A l \in c..d : k \in 1..n /\ l \in 1..n /\ k # l
  BY <1>1
<1>3. \A k \in a..b : \A l \in c..d : g.data[k] # g.data[l]
  BY <1>1, <1>2 DEF Single
<1>4. /\ Data(Part(g, a, b)) = {g.data[k] : k \in a..b}
      /\ Data(Part(g, c, d)) = {g.data[k] : k \in c..d}
  BY PartData
<1> QED
  BY <1>3, <1>4

\* What truncate leaves is a part, or the segment.
LEMMA TruncateIs ==
    ASSUME NEW g \in Good, NEW i1 \in Nat, NEW i2 \in Int
    PROVE  \/ TruncateSegment(g, i1, i2) = g
           \/ /\ i1 < Len(g.data) /\ i1 <= i2
              /\ \E b \in (i1 + 1)..Len(g.data) :
                    /\ TruncateSegment(g, i1, i2) = Part(g, i1 + 1, b)
                    /\ b <= i2 + 1 /\ (b = i2 + 1 \/ b = Len(g.data))
<1>1. PICK n \in Nat : n = Len(g.data)
  BY GoodFields
<1>2. CASE i1 >= n \/ i2 < 0 \/ i1 > i2
  BY <1>1, <1>2 DEF TruncateSegment
<1>3. CASE ~(i1 >= n \/ i2 < 0 \/ i1 > i2)
  <2>1. PICK b \in Int : b = IF i2 < n THEN i2 + 1 ELSE n
    OBVIOUS
  <2>2. b \in (i1 + 1)..n /\ b <= i2 + 1 /\ (b = i2 + 1 \/ b = n)
    BY <1>3, <2>1
  <2>3. (i1 + 1) - 1 = i1
    OBVIOUS
  <2>4. g = [beg |-> g.beg, del |-> g.del, data |-> g.data]
    BY GoodFields DEF GSegment
  <2>5. TruncateSegment(g, i1, i2)
          = [beg |-> g.beg + i1 * g.del, del |-> g.del, data |-> SubSeq(g.data, i1 + 1, b)]
    BY <1>1, <1>3, <2>1, <2>4 DEF TruncateSegment
  <2>6. TruncateSegment(g, i1, i2) = Part(g, i1 + 1, b)
    BY <2>3, <2>5 DEF Part
  <2> QED
    BY <1>1, <1>3, <2>2, <2>6
<1> QED
  BY <1>2, <1>3

-----------------------------------------------------------------------------
(* Sequences of segments *)

\* Members of a sequence of segments.
LEMMA Places1 ==
    ASSUME NEW segs \in Seq(Good)
    PROVE  /\ Len(segs) \in Nat /\ DOMAIN segs = 1..Len(segs)
           /\ \A i \in 1..Len(segs) : segs[i] \in Good
           /\ segs # <<>> => Len(segs) > 0
BY LenProperties, ElementOfSeq, EmptySeq

\* A sample of several segments is one of some segment.
LEMMA InAll ==
    ASSUME NEW segs, NEW x
    PROVE  x \in All(segs) <=> \E i \in 1..Len(segs) : x \in Data(segs[i])
BY DEF All

\* No segments have no samples.
LEMMA None ==
    /\ <<>> \in Seq(Good) /\ Len(<<>>) = 0 /\ All(<<>>) = {} /\ Distinct(<<>>) /\ InOrder(<<>>)
<1>1. <<>> \in Seq(Good) /\ Len(<<>>) = 0 /\ 1..0 = {}
  BY EmptySeq
<1> QED
  BY <1>1 DEF All, Distinct, InOrder

\* One segment has its own.
LEMMA One ==
    ASSUME NEW g \in Good
    PROVE  /\ <<g>> \in Seq(Good) /\ Len(<<g>>) = 1 /\ <<g>>[1] = g
           /\ All(<<g>>) = Data(g)
           /\ Single(g) => Distinct(<<g>>)
           /\ InOrder(<<g>>)
<1>1. <<g>> \in Seq(Good) /\ Len(<<g>>) = 1 /\ <<g>>[1] = g
  OBVIOUS
<1>2. \A i \in 1..1 : i = 1
  OBVIOUS
<1>3. g.beg <= g.beg
  BY GoodFields
<1>4. All(<<g>>) = Data(g)
  BY <1>1, <1>2 DEF All
<1>5. Single(g) => Distinct(<<g>>)
  BY <1>1, <1>2 DEF Distinct
<1>6. InOrder(<<g>>)
  BY <1>1, <1>2, <1>3 DEF InOrder
<1> QED
  BY <1>1, <1>4, <1>5, <1>6

\* Where a segment of two sequences, one behind the other, comes from.
LEMMA Cat ==
    ASSUME NEW a \in Seq(Good), NEW b \in Seq(Good)
    PROVE  /\ a \o b \in Seq(Good) /\ Len(a \o b) = Len(a) + Len(b)
           /\ \A i \in 1..Len(a) : i \in 1..Len(a \o b) /\ (a \o b)[i] = a[i]
           /\ \A i \in 1..Len(b) : /\ Len(a) + i \in 1..Len(a \o b)
                                   /\ (a \o b)[Len(a) + i] = b[i]
           /\ \A i \in 1..Len(a \o b) :
                 \/ i \in 1..Len(a) /\ (a \o b)[i] = a[i]
                 \/ i - Len(a) \in 1..Len(b) /\ (a \o b)[i] = b[i - Len(a)] /\ i > Len(a)
<1>1. PICK c : c = a \o b
  OBVIOUS
<1>2. PICK m \in Nat, n \in Nat : m = Len(a) /\ n = Len(b)
  BY LenProperties
<1>3. /\ c \in Seq(Good) /\ Len(c) = m + n
      /\ \A i \in 1..(m + n) : c[i] = IF i <= m THEN a[i] ELSE b[i - m]
  BY <1>1, <1>2, ConcatProperties
<1>4. \A i \in 1..m : i \in 1..(m + n) /\ c[i] = a[i]
  BY <1>3
<1>5. \A i \in 1..n : m + i \in 1..(m + n) /\ c[m + i] = b[i]
  <2> SUFFICES ASSUME NEW i \in 1..n PROVE m + i \in 1..(m + n) /\ c[m + i] = b[i]
    OBVIOUS
  <2>1. m + i \in 1..(m + n) /\ ~(m + i <= m) /\ (m + i) - m = i
    OBVIOUS
  <2> QED
    BY <1>3, <2>1
<1>6. \A i \in 1..(m + n) : \/ i \in 1..m /\ c[i] = a[i]
                            \/ i - m \in 1..n /\ c[i] = b[i - m] /\ i > m
  BY <1>3
<1> QED
  BY <1>1, <1>2, <1>3, <1>4, <1>5, <1>6

\* c is a, of m rows, with b, of o rows, behind it.
Behind(c, a, m, b, o) ==
    /\ c \in Seq(Good) /\ Len(c) = m + o
    /\ \A i \in 1..m : c[i] = a[i]
    /\ \A i \in 1..o : c[m + i] = b[i]

\* So is a \o b, with the lengths under names of their own.
LEMMA CatOf ==
    ASSUME NEW a \in Seq(Good), NEW b \in Seq(Good), NEW c, c = a \o b,
           NEW m \in Nat, m = Len(a), NEW o \in Nat, o = Len(b)
    PROVE  Behind(c, a, m, b, o)
<1>1. /\ a \o b \in Seq(Good) /\ Len(a \o b) = Len(a) + Len(b)
      /\ \A i \in 1..Len(a) : (a \o b)[i] = a[i]
      /\ \A i \in 1..Len(b) : (a \o b)[Len(a) + i] = b[i]
  BY Cat
<1> QED
  BY <1>1 DEF Behind

\* Segments one after another have the samples of both,
LEMMA CatAll ==
    ASSUME NEW a \in Seq(Good), NEW b \in Seq(Good)
    PROVE  All(a \o b) = All(a) \cup All(b)
<1>1. ASSUME NEW x \in All(a \o b) PROVE x \in All(a) \cup All(b)
  <2>1. PICK i \in 1..Len(a \o b) : x \in Data((a \o b)[i])
    BY InAll
  <2>2. \/ i \in 1..Len(a) /\ (a \o b)[i] = a[i]
        \/ i - Len(a) \in 1..Len(b) /\ (a \o b)[i] = b[i - Len(a)]
    BY Cat
  <2> QED
    BY <2>1, <2>2, InAll
<1>2. ASSUME NEW x \in All(a) PROVE x \in All(a \o b)
  <2>1. PICK i \in 1..Len(a) : x \in Data(a[i])
    BY InAll
  <2>2. i \in 1..Len(a \o b) /\ (a \o b)[i] = a[i]
    BY Cat
  <2> QED
    BY <2>1, <2>2, InAll
<1>3. ASSUME NEW x \in All(b) PROVE x \in All(a \o b)
  <2>1. PICK i \in 1..Len(b) : x \in Data(b[i])
    BY InAll
  <2>2. Len(a) + i \in 1..Len(a \o b) /\ (a \o b)[Len(a) + i] = b[i]
    BY Cat
  <2> QED
    BY <2>1, <2>2, InAll
<1> QED
  BY <1>1, <1>2, <1>3

\* ... each in one place if both have, and none in common,
LEMMA CatDistinct ==
    ASSUME NEW a \in Seq(Good), NEW b \in Seq(Good),
           Distinct(a), Distinct(b), All(a) \cap All(b) = {}
    PROVE  Distinct(a \o b)
<1>1. PICK c : c = a \o b
  OBVIOUS
<1>2. PICK m \in Nat, n \in Nat : m = Len(a) /\ n = Len(b)
  BY LenProperties
<1>3. \A i \in 1..Len(c) : \/ i \in 1..m /\ c[i] = a[i]
                           \/ i - m \in 1..n /\ c[i] = b[i - m] /\ i > m
  BY <1>1, <1>2, Cat
<1>4. \A i \in 1..m : Single(a[i]) /\ Data(a[i]) \subseteq All(a)
  BY <1>2 DEF Distinct, All
<1>5. \A i \in 1..n : Single(b[i]) /\ Data(b[i]) \subseteq All(b)
  BY <1>2 DEF Distinct, All
<1>6. \A i \in 1..Len(c) : Single(c[i])
  BY <1>3, <1>4, <1>5
<1>7. ASSUME NEW i \in 1..Len(c), NEW j \in 1..Len(c), i # j
      PROVE  Data(c[i]) \cap Data(c[j]) = {}
  <2>0. Len(c) \in Nat
    BY <1>1, Cat, LenProperties
  <2>1. CASE i \in 1..m /\ j \in 1..m
    <3>1. c[i] = a[i] /\ c[j] = a[j]
      BY <1>3, <2>1
    <3> QED
      BY <1>2, <1>7, <2>1, <3>1 DEF Distinct
  <2>2. CASE i \in 1..m /\ j \notin 1..m
    <3>1. c[i] = a[i] /\ c[j] = b[j - m] /\ j - m \in 1..n
      BY <1>3, <2>2
    <3> QED
      BY <1>4, <1>5, <2>2, <3>1
  <2>3. CASE i \notin 1..m /\ j \in 1..m
    <3>1. c[j] = a[j] /\ c[i] = b[i - m] /\ i - m \in 1..n
      BY <1>3, <2>3
    <3> QED
      BY <1>4, <1>5, <2>3, <3>1
  <2>4. CASE i \notin 1..m /\ j \notin 1..m
    <3>1. c[j] = b[j - m] /\ j - m \in 1..n /\ c[i] = b[i - m] /\ i - m \in 1..n
      BY <1>3, <2>4
    <3>2. i - m # j - m
      BY <1>2, <1>7, <2>0
    <3> QED
      BY <1>2, <3>1, <3>2 DEF Distinct
  <2> QED
    BY <2>1, <2>2, <2>3, <2>4
<1> QED
  BY <1>1, <1>6, <1>7 DEF Distinct

\* ... and are in order if the second ones are not earlier than the first ones.
LEMMA CatInOrder ==
    ASSUME NEW a \in Seq(Good), NEW b \in Seq(Good), InOrder(a), InOrder(b),
           \A i \in 1..Len(a), j \in 1..Len(b) : a[i].beg <= b[j].beg
    PROVE  InOrder(a \o b)
<1>1. PICK c : c = a \o b
  OBVIOUS
<1>2. PICK m \in Nat, n \in Nat : m = Len(a) /\ n = Len(b)
  BY LenProperties
<1>3. Len(c) = m + n /\ \A i \in 1..Len(c) : \/ i \in 1..m /\ c[i] = a[i]
                                             \/ i - m \in 1..n /\ c[i] = b[i - m] /\ i > m
  BY <1>1, <1>2, Cat
<1> SUFFICES ASSUME NEW i \in 1..Len(c), NEW j \in 1..Len(c), i <= j PROVE c[i].beg <= c[j].beg
  BY <1>1 DEF InOrder
<1>4. CASE j \in 1..m
  <2>1. i \in 1..m /\ c[i] = a[i] /\ c[j] = a[j]
    BY <1>3, <1>4
  <2> QED
    BY <1>2, <1>4, <2>1 DEF InOrder
<1>5. CASE j \notin 1..m /\ i \in 1..m
  <2>1. c[i] = a[i] /\ c[j] = b[j - m] /\ j - m \in 1..n
    BY <1>3, <1>5
  <2> QED
    BY <1>2, <1>5, <2>1
<1>6. CASE j \notin 1..m /\ i \notin 1..m
  <2>1. c[j] = b[j - m] /\ j - m \in 1..n /\ c[i] = b[i - m] /\ i - m \in 1..n
    BY <1>3, <1>6
  <2>2. i - m <= j - m
    BY <1>3
  <2> QED
    BY <1>2, <2>1, <2>2 DEF InOrder
<1> QED
  BY <1>4, <1>5, <1>6

\* Some of the segments.
LEMMA Sub ==
    ASSUME NEW segs \in Seq(Good), NEW m \in Int, NEW n \in Int,
           m >= 1, n <= Len(segs)
    PROVE  /\ SubSeq(segs, m, n) \in Seq(Good)
           /\ Len(SubSeq(segs, m, n)) = IF m <= n THEN n - m + 1 ELSE 0
           /\ \A i \in 1..Len(SubSeq(segs, m, n)) :
                 /\ SubSeq(segs, m, n)[i] = segs[m + i - 1]
                 /\ m + i - 1 \in m..n /\ m + i - 1 \in 1..Len(segs)
           /\ All(SubSeq(segs, m, n)) \subseteq UNION {Data(segs[i]) : i \in m..n}
           /\ Distinct(segs) => Distinct(SubSeq(segs, m, n))
           /\ InOrder(segs) => InOrder(SubSeq(segs, m, n))
<1>1. PICK c : c = SubSeq(segs, m, n)
  OBVIOUS
<1>2. PICK l \in Nat : l = Len(segs) /\ n <= l /\ \A i \in 1..l : segs[i] \in Good
  BY Places1
<1>3. \A i \in m..n : segs[i] \in Good
  BY <1>2
<1>4. /\ c \in Seq(Good) /\ Len(c) = IF m <= n THEN n - m + 1 ELSE 0
      /\ \A i \in 1..(n - m + 1) : c[i] = segs[m + i - 1]
  BY <1>1, <1>3, SubSeqProperties
<1>5. PICK k \in Nat : k = IF m <= n THEN n - m + 1 ELSE 0
  <2>1. (IF m <= n THEN n - m + 1 ELSE 0) \in Nat
    OBVIOUS
  <2> QED
    BY <2>1
<1>6. \A i \in 1..k : c[i] = segs[m + i - 1] /\ m + i - 1 \in m..n /\ m + i - 1 \in 1..l
  BY <1>2, <1>4, <1>5
<1>7. Len(c) = k
  BY <1>4, <1>5
<1>8. All(c) \subseteq UNION {Data(segs[i]) : i \in m..n}
  <2> SUFFICES ASSUME NEW x \in All(c) PROVE x \in UNION {Data(segs[i]) : i \in m..n}
    OBVIOUS
  <2>1. PICK i \in 1..k : x \in Data(c[i])
    BY <1>7, InAll
  <2>2. x \in Data(segs[m + i - 1]) /\ m + i - 1 \in m..n
    BY <1>6, <2>1
  <2> QED
    BY <2>2
<1>9. ASSUME Distinct(segs) PROVE Distinct(c)
  <2>1. \A i \in 1..k : Single(c[i])
    BY <1>2, <1>6, <1>9 DEF Distinct
  <2>2. ASSUME NEW i \in 1..k, NEW j \in 1..k, i # j PROVE Data(c[i]) \cap Data(c[j]) = {}
    <3>1. m + i - 1 # m + j - 1
      BY <2>2
    <3> QED
      BY <1>2, <1>6, <1>9, <3>1 DEF Distinct
  <2> QED
    BY <1>7, <2>1, <2>2 DEF Distinct
<1>10. ASSUME InOrder(segs) PROVE InOrder(c)
  <2> SUFFICES ASSUME NEW i \in 1..k, NEW j \in 1..k, i <= j PROVE c[i].beg <= c[j].beg
    BY <1>7 DEF InOrder
  <2>1. m + i - 1 <= m + j - 1
    OBVIOUS
  <2> QED
    BY <1>2, <1>6, <1>10, <2>1 DEF InOrder
<1> QED
  BY <1>1, <1>2, <1>4, <1>6, <1>7, <1>8, <1>9, <1>10

\* The segments up to one, and those from one on.
LEMMA Halves ==
    ASSUME NEW segs \in Seq(Good), NEW k \in 0..Len(segs)
    PROVE  /\ segs = SubSeq(segs, 1, k) \o SubSeq(segs, k + 1, Len(segs))
           /\ All(segs) = All(SubSeq(segs, 1, k)) \cup All(SubSeq(segs, k + 1, Len(segs)))
<1>1. PICK n \in Nat : n = Len(segs) /\ k \in 0..n
  BY LenProperties
<1>2. SubSeq(segs, 1, n) = segs
  BY <1>1, SubSeqFull
<1>3. 1 \in 1..(n + 1) /\ k \in (1 - 1)..n /\ n \in k..n
  BY <1>1
<1>4. segs = SubSeq(segs, 1, k) \o SubSeq(segs, k + 1, n)
  BY <1>1, <1>2, <1>3, ConcatAdjacentSubSeq
<1>5. SubSeq(segs, 1, k) \in Seq(Good) /\ SubSeq(segs, k + 1, n) \in Seq(Good)
  <2>1. 1 \in Int /\ k \in Int /\ k <= Len(segs) /\ 1 >= 1
    BY <1>1
  <2>2. k + 1 \in Int /\ n \in Int /\ n <= Len(segs) /\ k + 1 >= 1
    BY <1>1
  <2>3. SubSeq(segs, 1, k) \in Seq(Good)
    BY <2>1, Sub
  <2> QED
    BY <2>2, <2>3, Sub
<1> QED
  BY <1>1, <1>4, <1>5, CatAll

-----------------------------------------------------------------------------
(* FlattenSeq *)

\* FlattenSeq, step by step.
LEMMA FlattenSteps ==
    ASSUME NEW n \in Nat, NEW q, \A i \in 1..n : q[i] \in Seq(Good), DOMAIN q = 1..n,
           q \in Seq(Seq(Good)), Len(q) = n
    PROVE  \E g : /\ g[0] = <<>>
                  /\ \A i \in 1..n : g[i] = g[i - 1] \o q[i]
                  /\ FlattenSeq(q) = g[n]
<1> DEFINE Is(f, m) == f = [i \in 1..m |-> IF i = 1 THEN q[i] ELSE f[i - 1] \o q[i]]
           T == {m \in 0..n : \E f : Is(f, m)}
<1>4. 0 \in T
  <2>1. 1..0 = {} /\ 0 \in 0..n
    OBVIOUS
  <2>2. Is([i \in 1..0 |-> i], 0)
    BY <2>1
  <2> QED
    BY <2>1, <2>2
<1>5. ASSUME NEW m \in 0..n, m \in T, m < n PROVE m + 1 \in T
  <2>1. PICK f : Is(f, m)
    BY <1>5
  <2> DEFINE h == [i \in 1..(m + 1) |->
                   IF i = m + 1 THEN IF i = 1 THEN q[i] ELSE f[i - 1] \o q[i] ELSE f[i]]
  <2>2. ASSUME NEW i \in 1..(m + 1) PROVE h[i] = IF i = 1 THEN q[i] ELSE h[i - 1] \o q[i]
    <3>1. i # 1 => i - 1 \in 1..m /\ h[i - 1] = f[i - 1]
      OBVIOUS
    <3>2. CASE i = m + 1
      <4>1. h[i] = IF i = 1 THEN q[i] ELSE f[i - 1] \o q[i]
        BY <3>2
      <4> HIDE DEF h
      <4> QED
        BY <3>1, <4>1
    <3>3. CASE i # m + 1
      <4>1. i \in 1..m /\ h[i] = f[i]
        BY <3>3
      <4>2. f[i] = IF i = 1 THEN q[i] ELSE f[i - 1] \o q[i]
        BY <2>1, <4>1
      <4> HIDE DEF h
      <4> QED
        BY <3>1, <4>1, <4>2
    <3> QED
      BY <3>2, <3>3
  <2>3. h = [i \in 1..(m + 1) |-> h[i]]
    OBVIOUS
  <2> HIDE DEF h
  <2>4. Is(h, m + 1)
    BY <2>2, <2>3
  <2>5. m + 1 \in 0..n
    BY <1>5
  <2> HIDE DEF Is
  <2> QED
    BY <2>4, <2>5
<1>6. \E f : Is(f, n)
  <2> HIDE DEF T
  <2>1. n \in T
    <3>1. \A i \in 0..n : i \in T
      BY <1>4, <1>5, UpTo
    <3> QED
      BY <3>1
  <2> QED
    BY <2>1 DEF T
<1>7. PICK f : Is(f, n) /\ (n # 0 => FlattenSeq(q) = f[n])
  <2>1. n # 0 => FlattenSeq(q) = (CHOOSE f : Is(f, n))[n]
    BY DEF FlattenSeq
  <2> HIDE DEF Is
  <2>2. Is(CHOOSE f : Is(f, n), n)
    BY <1>6
  <2> QED
    BY <2>1, <2>2
<1>8. n = 0 => FlattenSeq(q) = <<>>
  BY DEF FlattenSeq
<1>9. PICK g : g = [i \in 0..n |-> IF i = 0 THEN <<>> ELSE f[i]]
  OBVIOUS
<1>10. g[0] = <<>> /\ FlattenSeq(q) = g[n]
  BY <1>7, <1>8, <1>9
<1>11. ASSUME NEW i \in 1..n PROVE g[i] = g[i - 1] \o q[i]
  <2>1. g[i] = f[i] /\ q[i] \in Seq(Good)
    BY <1>9
  <2>2. f[i] = IF i = 1 THEN q[i] ELSE f[i - 1] \o q[i]
    BY <1>7
  <2>3. CASE i = 1
    <3>1. g[i - 1] = <<>> /\ <<>> \o q[i] = q[i]
      BY <1>9, <2>1, <2>3, ConcatEmptySeq
    <3> QED
      BY <2>1, <2>2, <2>3, <3>1
  <2>4. CASE i # 1
    <3>1. i - 1 \in 0..n /\ i - 1 # 0 /\ g[i - 1] = f[i - 1]
      BY <1>9, <2>4
    <3> QED
      BY <2>1, <2>2, <2>4, <3>1
  <2> QED
    BY <2>3, <2>4
<1> QED
  BY <1>10, <1>11

\* Sequences of segments, one behind the other: the same segments, and none of
\* their samples twice.
LEMMA Flatten ==
    ASSUME NEW n \in Nat, NEW q, \A i \in 1..n : q[i] \in Seq(Good), DOMAIN q = 1..n,
           q \in Seq(Seq(Good)), Len(q) = n
    PROVE  /\ FlattenSeq(q) \in Seq(Good)
           /\ All(FlattenSeq(q)) = UNION {All(q[i]) : i \in 1..n}
           /\ /\ \A i \in 1..n : Distinct(q[i])
              /\ \A i, j \in 1..n : i < j => All(q[i]) \cap All(q[j]) = {}
              => Distinct(FlattenSeq(q))
<1>1. PICK g : /\ g[0] = <<>>
               /\ \A i \in 1..n : g[i] = g[i - 1] \o q[i]
               /\ FlattenSeq(q) = g[n]
  BY FlattenSteps
<1> DEFINE Apart == /\ \A i \in 1..n : Distinct(q[i])
                    /\ \A i, j \in 1..n : i < j => All(q[i]) \cap All(q[j]) = {}
           Fits0(m) == /\ g[m] \in Seq(Good)
                       /\ All(g[m]) = UNION {All(q[i]) : i \in 1..m}
                       /\ Apart => Distinct(g[m])
           T == {m \in 0..n : Fits0(m)}
<1>2. 0 \in T
  <2>1. 1..0 = {} /\ 0 \in 0..n
    OBVIOUS
  <2> QED
    BY <1>1, <2>1, None
<1>3. ASSUME NEW m \in 0..n, m \in T, m < n PROVE m + 1 \in T
  <2>1. m + 1 \in 1..n /\ m + 1 \in 0..n /\ (m + 1) - 1 = m
    BY <1>3
  <2>2. PICK a \in Seq(Good), b \in Seq(Good) : a = g[m] /\ b = q[m + 1]
    BY <1>3, <2>1
  <2>3. g[m + 1] = a \o b
    BY <1>1, <2>1, <2>2
  <2>4. a \o b \in Seq(Good) /\ All(a \o b) = All(a) \cup All(b)
    BY Cat, CatAll
  <2>5. All(a) = UNION {All(q[i]) : i \in 1..m}
    BY <1>3, <2>2
  <2>6. 1..(m + 1) = (1..m) \cup {m + 1}
    BY <1>3
  <2>7. All(a \o b) = UNION {All(q[i]) : i \in 1..(m + 1)}
    BY <2>2, <2>4, <2>5, <2>6
  <2>8. ASSUME Apart PROVE Distinct(a \o b)
    <3>1. Distinct(a) /\ Distinct(b)
      BY <1>3, <2>1, <2>2, <2>8
    <3>2. \A i \in 1..m : i \in 1..n /\ i < m + 1
      BY <1>3
    <3>3. \A i \in 1..m : All(q[i]) \cap All(b) = {}
      BY <2>1, <2>2, <2>8, <3>2
    <3>4. All(a) \cap All(b) = {}
      BY <2>5, <3>3
    <3> QED
      BY <3>1, <3>4, CatDistinct
  <2> HIDE DEF Apart
  <2> QED
    BY <2>1, <2>3, <2>4, <2>7, <2>8
<1>4. Fits0(n)
  <2> HIDE DEF Fits0
  <2>1. \A i \in 0..n : i \in T /\ i < n => i + 1 \in T
    BY <1>3
  <2> HIDE DEF T
  <2>2. \A i \in 0..n : i \in T
    BY <1>2, <2>1, UpTo
  <2> QED
    BY <2>2 DEF T
<1> QED
  BY <1>1, <1>4

-----------------------------------------------------------------------------
(* Sorted *)

\* A set of numbers up to n that is not empty has a greatest one.
LEMMA Greatest ==
    ASSUME NEW n \in Nat, NEW S \in SUBSET (1..n), S # {}
    PROVE  \E m \in S : \A k \in S : k <= m
<1> DEFINE T == {k \in 0..n : n - k \in S}
<1>1. T \in SUBSET Nat /\ T # {}
  <2>1. PICK x \in S : TRUE
    OBVIOUS
  <2>2. PICK d \in 0..n : d = n - x
    OBVIOUS
  <2>3. n - d = x
    BY <2>2
  <2>4. d \in T
    BY <2>3
  <2> QED
    BY <2>4
<1>2. PICK m \in T : \A k \in T : m <= k
  BY <1>1, Least
<1>3. n - m \in S
  BY <1>2
<1>4. \A x \in S : x <= n - m
  <2> SUFFICES ASSUME NEW x \in S PROVE x <= n - m
    OBVIOUS
  <2>1. n - x \in 0..n /\ n - (n - x) = x
    OBVIOUS
  <2>2. m <= n - x
    BY <1>2, <2>1
  <2> QED
    BY <2>2
<1> QED
  BY <1>3, <1>4

\* The segments before a new one are the first ones.
LEMMA Earlier ==
    ASSUME NEW segs \in Seq(Good), NEW g \in Good, InOrder(segs)
    PROVE  \E c \in 0..Len(segs) :
              /\ Insert(segs, g) = SubSeq(segs, 1, c) \o <<g>> \o SubSeq(segs, c + 1, Len(segs))
              /\ \A i \in 1..c : segs[i].beg <= g.beg
              /\ \A i \in (c + 1)..Len(segs) : g.beg <= segs[i].beg
<1>1. PICK n \in Nat : n = Len(segs) /\ DOMAIN segs = 1..n /\ \A i \in 1..n : segs[i] \in Good
  BY Places1
<1>2. \A i \in 1..n : segs[i].beg \in Int /\ g.beg \in Int
  BY <1>1, GoodFields
<1> DEFINE earlier == {i \in DOMAIN segs : \/ segs[i].beg < g.beg
                                           \/ segs[i].beg = g.beg /\ ~newFirst}
<1>3. earlier \in SUBSET (1..n)
  BY <1>1
<1>4. \A j \in earlier : \A i \in 1..j : i \in earlier
  <2> SUFFICES ASSUME NEW j \in earlier, NEW i \in 1..j PROVE i \in earlier
    OBVIOUS
  <2>1. i \in 1..n /\ j \in 1..n /\ i <= j
    BY <1>1
  <2>2. segs[i].beg <= segs[j].beg
    BY <1>1, <2>1 DEF InOrder
  <2> QED
    BY <1>1, <1>2, <2>1, <2>2
<1>5. PICK c \in 0..n : earlier = 1..c
  <2>1. CASE earlier = {}
    <3>1. 1..0 = {} /\ 0 \in 0..n
      OBVIOUS
    <3> QED
      BY <2>1, <3>1
  <2>2. CASE earlier # {}
    <3> HIDE DEF earlier
    <3>1. PICK m \in earlier : \A k \in earlier : k <= m
      BY <1>3, <2>2, Greatest
    <3>2. m \in 1..n /\ \A k \in earlier : k \in 1..m
      BY <1>3, <3>1
    <3>3. earlier = 1..m
      BY <1>4, <3>1, <3>2
    <3> QED
      BY <3>2, <3>3
  <2> QED
    BY <2>1, <2>2
<1>6. Cardinality(earlier) = c
  <2>1. Cardinality(1..c) = c
    BY FS_Interval
  <2> HIDE DEF earlier
  <2> QED
    BY <1>5, <2>1
<1>7. Insert(segs, g) = SubSeq(segs, 1, c) \o <<g>> \o SubSeq(segs, c + 1, n)
  <2>1. Insert(segs, g) = InsertAt(segs, Cardinality(earlier) + 1, g)
    BY DEF Insert
  <2>2. (c + 1) - 1 = c
    OBVIOUS
  <2> HIDE DEF earlier
  <2>3. Insert(segs, g) = InsertAt(segs, c + 1, g)
    BY <1>6, <2>1
  <2> QED
    BY <1>1, <2>2, <2>3 DEF InsertAt
<1>8. \A i \in 1..c : segs[i].beg <= g.beg
  <2>1. \A i \in 1..c : i \in 1..n /\ i \in earlier
    BY <1>5
  <2> QED
    BY <1>2, <2>1
<1>9. \A i \in (c + 1)..n : g.beg <= segs[i].beg
  <2>1. \A i \in (c + 1)..n : i \in 1..n /\ i \notin 1..c
    OBVIOUS
  <2>2. \A i \in (c + 1)..n : i \in 1..n /\ i \notin earlier
    BY <1>5, <2>1
  <2> QED
    BY <1>1, <1>2, <2>2
<1> QED
  BY <1>1, <1>7, <1>8, <1>9

\* A sequence with a segment between two parts of it.
LEMMA Between ==
    ASSUME NEW segs \in Seq(Good), NEW g \in Good, NEW c \in 0..Len(segs)
    PROVE  LET new == SubSeq(segs, 1, c) \o <<g>> \o SubSeq(segs, c + 1, Len(segs))
           IN  /\ new \in Seq(Good)
               /\ All(new) = All(segs) \cup Data(g)
               /\ (Distinct(segs) /\ Single(g) /\ Data(g) \cap All(segs) = {}) => Distinct(new)
               /\ /\ InOrder(segs)
                  /\ \A i \in 1..c : segs[i].beg <= g.beg
                  /\ \A i \in (c + 1)..Len(segs) : g.beg <= segs[i].beg
                  => InOrder(new)
<1>1. PICK n \in Nat : n = Len(segs) /\ c \in 0..n /\ \A i \in 1..n : segs[i] \in Good
  BY Places1
<1>2. PICK a, b : a = SubSeq(segs, 1, c) /\ b = SubSeq(segs, c + 1, n)
  OBVIOUS
<1>3. /\ a \in Seq(Good) /\ Len(a) = c
      /\ \A i \in 1..Len(a) : a[i] = segs[i] /\ i \in 1..c
      /\ All(a) \subseteq UNION {Data(segs[i]) : i \in 1..c}
      /\ Distinct(segs) => Distinct(a)
      /\ InOrder(segs) => InOrder(a)
  <2>1. c \in Int /\ 1 \in Int /\ 1 >= 1 /\ c <= Len(segs)
    BY <1>1
  <2>2. /\ a \in Seq(Good) /\ Len(a) = (IF 1 <= c THEN c - 1 + 1 ELSE 0)
        /\ \A i \in 1..Len(a) : a[i] = segs[1 + i - 1] /\ 1 + i - 1 \in 1..c
        /\ All(a) \subseteq UNION {Data(segs[i]) : i \in 1..c}
        /\ Distinct(segs) => Distinct(a)
        /\ InOrder(segs) => InOrder(a)
    BY <1>2, <2>1, Sub
  <2>3. Len(a) = c
    BY <1>1, <2>2
  <2>4. \A i \in 1..c : 1 + i - 1 = i
    BY <1>1
  <2> QED
    BY <2>2, <2>3, <2>4
<1>4. /\ b \in Seq(Good)
      /\ \A i \in 1..Len(b) : \E j \in (c + 1)..n : b[i] = segs[j]
      /\ All(b) \subseteq UNION {Data(segs[i]) : i \in (c + 1)..n}
      /\ Distinct(segs) => Distinct(b)
      /\ InOrder(segs) => InOrder(b)
  <2>1. c + 1 \in Int /\ n \in Int /\ c + 1 >= 1 /\ n <= Len(segs)
    BY <1>1
  <2>2. /\ b \in Seq(Good)
        /\ \A i \in 1..Len(b) : b[i] = segs[(c + 1) + i - 1] /\ (c + 1) + i - 1 \in (c + 1)..n
        /\ All(b) \subseteq UNION {Data(segs[i]) : i \in (c + 1)..n}
        /\ Distinct(segs) => Distinct(b)
        /\ InOrder(segs) => InOrder(b)
    BY <1>2, <2>1, Sub
  <2> QED
    BY <2>2
<1>5. All(segs) = All(a) \cup All(b)
  BY <1>1, <1>2, Halves
<1>6. /\ <<g>> \in Seq(Good) /\ Len(<<g>>) = 1 /\ <<g>>[1] = g /\ All(<<g>>) = Data(g)
      /\ Single(g) => Distinct(<<g>>)
      /\ InOrder(<<g>>)
  BY One
<1>7. PICK ag : ag = a \o <<g>>
  OBVIOUS
<1>8. ag \in Seq(Good) /\ All(ag) = All(a) \cup Data(g)
  <2>1. a \in Seq(Good) /\ <<g>> \in Seq(Good) /\ All(<<g>>) = Data(g)
    BY <1>3, <1>6
  <2>2. a \o <<g>> \in Seq(Good)
    BY <2>1, Cat
  <2>3. All(a \o <<g>>) = All(a) \cup All(<<g>>)
    BY <2>1, CatAll
  <2> QED
    BY <1>7, <2>1, <2>2, <2>3
<1>9. ag \o b \in Seq(Good) /\ All(ag \o b) = All(segs) \cup Data(g)
  <2>1. ag \in Seq(Good) /\ b \in Seq(Good)
    BY <1>4, <1>8
  <2>2. ag \o b \in Seq(Good)
    BY <2>1, Cat
  <2>3. All(ag \o b) = All(ag) \cup All(b)
    BY <2>1, CatAll
  <2> QED
    BY <1>5, <1>8, <2>2, <2>3
<1>10. ASSUME Distinct(segs), Single(g), Data(g) \cap All(segs) = {} PROVE Distinct(ag \o b)
  <2>1. Distinct(a) /\ Distinct(b) /\ Distinct(<<g>>)
    BY <1>3, <1>4, <1>6, <1>10
  <2>2. All(a) \cap All(<<g>>) = {}
    BY <1>5, <1>6, <1>10
  <2>3. Distinct(ag)
    BY <1>3, <1>6, <1>7, <2>1, <2>2, CatDistinct
  <2>4. \A i \in 1..c : \A j \in (c + 1)..n : i \in 1..n /\ j \in 1..n /\ i # j
    BY <1>1
  <2>5. \A i \in 1..c : \A j \in (c + 1)..n : Data(segs[i]) \cap Data(segs[j]) = {}
    BY <1>1, <1>10, <2>4 DEF Distinct
  <2>6. All(a) \cap All(b) = {}
    <3> SUFFICES ASSUME NEW x \in All(a), x \in All(b) PROVE FALSE
      OBVIOUS
    <3>1. PICK i \in 1..c : x \in Data(segs[i])
      BY <1>3
    <3>2. PICK j \in (c + 1)..n : x \in Data(segs[j])
      BY <1>4
    <3> QED
      BY <2>5, <3>1, <3>2
  <2>7. All(ag) \cap All(b) = {}
    BY <1>5, <1>8, <1>10, <2>6
  <2> QED
    BY <1>4, <1>8, <2>1, <2>3, <2>7, CatDistinct
<1>11. ASSUME InOrder(segs), \A i \in 1..c : segs[i].beg <= g.beg,
              \A i \in (c + 1)..n : g.beg <= segs[i].beg
       PROVE  InOrder(ag \o b)
  <2>1. InOrder(a) /\ InOrder(b) /\ InOrder(<<g>>)
    BY <1>3, <1>4, <1>6, <1>11
  <2>2. \A i \in 1..Len(a) : a[i].beg <= g.beg
    BY <1>3, <1>11
  <2>3. \A i \in 1..Len(b) : g.beg <= b[i].beg
    BY <1>4, <1>11
  <2>4. \A j \in 1..1 : j = 1
    OBVIOUS
  <2>5. \A i \in 1..Len(a), j \in 1..Len(<<g>>) : a[i].beg <= <<g>>[j].beg
    BY <1>6, <2>2, <2>4
  <2>6. InOrder(ag)
    BY <1>3, <1>6, <1>7, <2>1, <2>5, CatInOrder
  <2>7. \A i \in 1..Len(ag) : ag[i] = g \/ \E k \in 1..Len(a) : ag[i] = a[k]
    <3> SUFFICES ASSUME NEW i \in 1..Len(ag) PROVE ag[i] = g \/ \E k \in 1..Len(a) : ag[i] = a[k]
      OBVIOUS
    <3>1. \/ i \in 1..Len(a) /\ ag[i] = a[i]
          \/ i - Len(a) \in 1..Len(<<g>>) /\ ag[i] = <<g>>[i - Len(a)]
      BY <1>3, <1>6, <1>7, Cat
    <3> QED
      BY <1>6, <2>4, <3>1
  <2>8. \A i \in 1..Len(ag), j \in 1..Len(b) : ag[i].beg <= b[j].beg
    <3> SUFFICES ASSUME NEW i \in 1..Len(ag), NEW j \in 1..Len(b) PROVE ag[i].beg <= b[j].beg
      OBVIOUS
    <3>1. ag[i].beg \in Int /\ b[j].beg \in Int /\ g.beg \in Int
      BY <1>4, <1>8, Places1, GoodFields
    <3>2. ag[i].beg <= g.beg
      BY <2>2, <2>7, <3>1
    <3> QED
      BY <2>3, <3>1, <3>2
  <2> QED
    BY <1>4, <1>8, <2>1, <2>6, <2>8, CatInOrder
<1> QED
  BY <1>1, <1>2, <1>7, <1>9, <1>10, <1>11

\* Insert puts a segment between those that are earlier and the others.
LEMMA InsertIs ==
    ASSUME NEW segs \in Seq(Good), NEW g \in Good, InOrder(segs)
    PROVE  /\ Insert(segs, g) \in Seq(Good) /\ InOrder(Insert(segs, g))
           /\ All(Insert(segs, g)) = All(segs) \cup Data(g)
           /\ (Distinct(segs) /\ Single(g) /\ Data(g) \cap All(segs) = {}) => Distinct(Insert(segs, g))
<1>1. PICK c \in 0..Len(segs) :
          /\ Insert(segs, g) = SubSeq(segs, 1, c) \o <<g>> \o SubSeq(segs, c + 1, Len(segs))
          /\ \A i \in 1..c : segs[i].beg <= g.beg
          /\ \A i \in (c + 1)..Len(segs) : g.beg <= segs[i].beg
  BY Earlier
<1>2. PICK new : new = SubSeq(segs, 1, c) \o <<g>> \o SubSeq(segs, c + 1, Len(segs))
  OBVIOUS
<1>3. /\ new \in Seq(Good)
      /\ All(new) = All(segs) \cup Data(g)
      /\ (Distinct(segs) /\ Single(g) /\ Data(g) \cap All(segs) = {}) => Distinct(new)
      /\ /\ InOrder(segs)
         /\ \A i \in 1..c : segs[i].beg <= g.beg
         /\ \A i \in (c + 1)..Len(segs) : g.beg <= segs[i].beg
         => InOrder(new)
  BY <1>2, Between
<1> QED
  BY <1>1, <1>2, <1>3

\* Sorted, step by step.
LEMMA SortedSteps ==
    ASSUME NEW segs \in Seq(Good)
    PROVE  \E g : /\ g[0] = <<>>
                  /\ \A i \in 1..Len(segs) : g[i] = Insert(g[i - 1], segs[i])
                  /\ Sorted(segs) = g[Len(segs)]
<1>1. PICK n \in Nat : n = Len(segs) /\ DOMAIN segs = 1..n /\ \A i \in 1..n : segs[i] \in Good
  BY Places1
<1> DEFINE A == {t \in Seq(Good) : InOrder(t)}
           D == [x \in A \X (1..n) |-> Insert(x[1], segs[x[2]])]
           Is(c) == c = [t \in SUBSET (1..n) |->
                         IF t = {} THEN <<>> ELSE Insert(c[t \ {Max(t)}], segs[Max(t)])]
<1>2. StepOf(D, A, n) /\ <<>> \in A
  <2>1. \A x \in A \X (1..n) : Insert(x[1], segs[x[2]]) \in A
    <3> SUFFICES ASSUME NEW x \in A \X (1..n) PROVE Insert(x[1], segs[x[2]]) \in A
      OBVIOUS
    <3>1. PICK done \in A, i \in 1..n : done = x[1] /\ i = x[2]
      OBVIOUS
    <3>2. Insert(done, segs[i]) \in A
      <4>1. segs[i] \in Good /\ done \in Seq(Good) /\ InOrder(done)
        BY <1>1
      <4> QED
        BY <4>1, InsertIs
    <3> HIDE DEF A
    <3> QED
      BY <3>1, <3>2
  <2>2. <<>> \in A
    BY None
  <2> HIDE DEF A
  <2> QED
    BY <2>1, <2>2 DEF StepOf
<1>3. PICK it \in [SUBSET (1..n) -> A] : IsLeft(it, n, <<>>, D)
  <2> HIDE DEF A, D
  <2> QED
    BY <1>2, LeftIter
<1>4. Is(it)
  <2>1. ASSUME NEW t \in SUBSET (1..n), t # {}
        PROVE  D[<<it[t \ {Max(t)}], Max(t)>>] = Insert(it[t \ {Max(t)}], segs[Max(t)])
    <3>1. Max(t) \in t
      BY <2>1, GreatestIn
    <3>2. it[t \ {Max(t)}] \in A /\ Max(t) \in 1..n
      BY <3>1
    <3> HIDE DEF A
    <3> QED
      BY <3>2
  <2>2. it = [t \in SUBSET (1..n) |-> it[t]]
    BY <1>3
  <2> HIDE DEF D, A
  <2> QED
    BY <1>3, <2>1, <2>2 DEF IsLeft
<1>5. PICK c : Is(c) /\ Sorted(segs) = c[1..n]
  <2>1. Sorted(segs) = (CHOOSE c : Is(c))[1..n]
    BY <1>1 DEF Sorted, FoldLeft, MapThenFoldSet
  <2> HIDE DEF Is
  <2>2. Is(CHOOSE c : Is(c))
    BY <1>4
  <2> QED
    BY <2>1, <2>2
<1> DEFINE g == [i \in 0..n |-> c[1..i]]
<1>6. g[0] = <<>>
  <2>1. 1..0 = {} /\ {} \in SUBSET (1..n) /\ 0 \in 0..n
    OBVIOUS
  <2>2. c[{}] = <<>>
    BY <1>5
  <2> QED
    BY <2>1, <2>2
<1>7. ASSUME NEW i \in 1..n PROVE g[i] = Insert(g[i - 1], segs[i])
  <2>1. 1..i \in SUBSET (1..n) /\ i \in 1..i
    OBVIOUS
  <2>2. (1..i) \ {i} = 1..(i - 1)
    OBVIOUS
  <2>3. Max(1..i) = i
    <3>1. 1..i \in SUBSET Int /\ \A x \in 1..i : x <= i
      OBVIOUS
    <3> QED
      BY <2>1, <3>1, MaxIs
  <2>4. 1..i # {}
    BY <2>1
  <2>5. c[1..i] = Insert(c[1..(i - 1)], segs[i])
    BY <1>5, <2>1, <2>2, <2>3, <2>4
  <2>6. g[i] = c[1..i] /\ g[i - 1] = c[1..(i - 1)]
    BY <1>1
  <2> QED
    BY <2>5, <2>6
<1>8. g[n] = c[1..n]
  BY <1>1
<1> HIDE DEF g
<1> QED
  BY <1>1, <1>5, <1>6, <1>7, <1>8

\* Sorting keeps the segments.
LEMMA SortedIs ==
    ASSUME NEW segs \in Seq(Good)
    PROVE  /\ Sorted(segs) \in Seq(Good) /\ InOrder(Sorted(segs))
           /\ All(Sorted(segs)) = All(segs)
           /\ Distinct(segs) => Distinct(Sorted(segs))
<1>1. PICK n \in Nat : n = Len(segs) /\ \A i \in 1..n : segs[i] \in Good
  BY Places1
<1>2. PICK g : /\ g[0] = <<>>
               /\ \A i \in 1..n : g[i] = Insert(g[i - 1], segs[i])
               /\ Sorted(segs) = g[n]
  BY <1>1, SortedSteps
<1> DEFINE Holds(m) == /\ g[m] \in Seq(Good) /\ InOrder(g[m])
                       /\ All(g[m]) = UNION {Data(segs[i]) : i \in 1..m}
                       /\ Distinct(segs) => Distinct(g[m])
           T == {m \in 0..n : Holds(m)}
<1>3. 0 \in T
  <2>1. 1..0 = {} /\ 0 \in 0..n
    OBVIOUS
  <2> QED
    BY <1>2, <2>1, None
<1>4. ASSUME NEW m \in 0..n, m \in T, m < n PROVE m + 1 \in T
  <2>1. m + 1 \in 1..n /\ m + 1 \in 0..n /\ (m + 1) - 1 = m
    BY <1>4
  <2>2. PICK a \in Seq(Good), h \in Good : a = g[m] /\ h = segs[m + 1]
    BY <1>1, <1>4, <2>1
  <2>3. g[m + 1] = Insert(a, h)
    BY <1>2, <2>1, <2>2
  <2>4. InOrder(a) /\ All(a) = UNION {Data(segs[i]) : i \in 1..m}
    BY <1>4, <2>2
  <2>5. /\ Insert(a, h) \in Seq(Good) /\ InOrder(Insert(a, h))
        /\ All(Insert(a, h)) = All(a) \cup Data(h)
        /\ (Distinct(a) /\ Single(h) /\ Data(h) \cap All(a) = {}) => Distinct(Insert(a, h))
    BY <2>4, InsertIs
  <2>6. 1..(m + 1) = (1..m) \cup {m + 1}
    BY <1>4
  <2>7. All(Insert(a, h)) = UNION {Data(segs[i]) : i \in 1..(m + 1)}
    BY <2>2, <2>4, <2>5, <2>6
  <2>8. ASSUME Distinct(segs) PROVE Distinct(Insert(a, h))
    <3>1. Distinct(a) /\ Single(h)
      BY <1>1, <1>4, <2>1, <2>2, <2>8 DEF Distinct
    <3>2. \A i \in 1..m : i \in 1..n /\ i # m + 1
      BY <1>4
    <3>3. \A i \in 1..m : Data(segs[i]) \cap Data(h) = {}
      BY <1>1, <2>1, <2>2, <2>8, <3>2 DEF Distinct
    <3>4. Data(h) \cap All(a) = {}
      BY <2>4, <3>3
    <3> QED
      BY <2>5, <3>1, <3>4
  <2> QED
    BY <2>1, <2>3, <2>5, <2>7, <2>8
<1>5. Holds(n)
  <2> HIDE DEF Holds
  <2>1. \A i \in 0..n : i \in T /\ i < n => i + 1 \in T
    BY <1>4
  <2> HIDE DEF T
  <2>2. \A i \in 0..n : i \in T
    BY <1>3, <2>1, UpTo
  <2> QED
    BY <2>2 DEF T
<1>6. All(segs) = UNION {Data(segs[i]) : i \in 1..n}
  BY <1>1 DEF All
<1> QED
  BY <1>2, <1>5, <1>6

-----------------------------------------------------------------------------
(* AddSegment *)

\* A product of natural numbers.
LEMMA Times ==
    ASSUME NEW x \in Nat, NEW y \in Nat PROVE x * y \in Nat
OBVIOUS

\* What is less after a multiplication was less before.
LEMMA Cancel ==
    ASSUME NEW b \in Nat \ {0}, NEW x \in Int, NEW y \in Int, b * x < b * y
    PROVE  x < y
OBVIOUS

\* The end of a segment is a time, not before its beginning.
LEMMA Ends ==
    ASSUME NEW g \in Good PROVE End(g) \in Int /\ g.beg <= End(g)
<1>1. PICK n \in Nat, d \in Nat, b \in Int : n = Len(g.data) /\ d = g.del /\ b = g.beg /\ n > 0
  BY GoodFields
<1>2. (n - 1) * d \in Nat
  BY <1>1, Times
<1>3. End(g) = b + (n - 1) * d
  BY <1>1 DEF End, Time
<1> QED
  BY <1>1, <1>2, <1>3

\* The first index that a new segment overlaps is less than the last one, and if
\* it overlaps the last one is behind the first sample.
LEMMA Overlapped ==
    ASSUME NEW g \in Good, NEW new \in Good
    PROVE  /\ D1(g, new) \in Int /\ D2(g, new) \in Int
           /\ D1(g, new) < D2(g, new)
           /\ Overlaps(g, new) => D2(g, new) >= 1
<1>1. PICK d \in Nat \ {0}, b \in Int, nb \in Int, e \in Int :
          d = g.del /\ b = g.beg /\ nb = new.beg /\ e = End(new) /\ nb <= e
  BY GoodFields, Ends
<1>2. PICK x \in Int, y \in Int : x = nb - b /\ y = 100 * (e - b) + 99 * d
  OBVIOUS
<1>3. PICK p \in Int : p = x \div d /\ d * p <= x
  BY Quotient
<1>4. 100 * d \in Nat \ {0}
  OBVIOUS
<1>5. PICK q \in Int : q = y \div (100 * d) /\ y < (100 * d) * q + 100 * d
  BY <1>4, Quotient
<1>6. D1(g, new) = p /\ D2(g, new) = q + 1
  BY <1>1, <1>2, <1>3, <1>5 DEF D1, D2
<1>7. p < q + 1
  <2>1. (100 * d) * p = 100 * (d * p) /\ (100 * d) * (q + 1) = (100 * d) * q + 100 * d
    OBVIOUS
  <2>2. 100 * (d * p) <= 100 * x /\ 100 * x <= y
    BY <1>1, <1>2, <1>3
  <2>3. d * p \in Int /\ (100 * d) * q \in Int
    OBVIOUS
  <2>4. (100 * d) * p < (100 * d) * (q + 1)
    BY <1>5, <2>1, <2>2, <2>3
  <2> QED
    BY <1>4, <2>4, Cancel
<1>8. ASSUME Overlaps(g, new) PROVE q + 1 >= 1
  <2>1. b <= e
    BY <1>1, <1>8 DEF Overlaps
  <2>2. y >= 0
    BY <1>2, <2>1
  <2>3. (100 * d) * (q + 1) = (100 * d) * q + 100 * d /\ (100 * d) * 0 = 0 /\ (100 * d) * q \in Int
    OBVIOUS
  <2>4. (100 * d) * 0 < (100 * d) * (q + 1)
    BY <1>5, <2>2, <2>3
  <2>5. 0 < q + 1
    BY <1>4, <2>4, Cancel
  <2> QED
    BY <2>5
<1> QED
  BY <1>6, <1>7, <1>8

\* What is left of a segment has samples of it, and is not twice.
Left(part, g) ==
    /\ part \in Seq(Good) /\ All(part) \subseteq Data(g)
    /\ Single(g) => Distinct(part)

\* What may be left of a segment: nothing,
LEMMA LeftNone == ASSUME NEW g PROVE Left(<<>>, g)
BY None DEF Left

\* ... all of it,
LEMMA LeftWhole == ASSUME NEW g \in Good PROVE Left(<<g>>, g)
BY One DEF Left

\* ... samples a to b,
LEMMA LeftPart ==
    ASSUME NEW g \in Good, NEW a \in 1..Len(g.data), NEW b \in a..Len(g.data)
    PROVE  Left(<<Part(g, a, b)>>, g)
<1>1. PICK p : p = Part(g, a, b)
  OBVIOUS
<1>2. p \in Good
  BY <1>1, PartIs
<1>3. Data(p) \subseteq Data(g) /\ (Single(g) => Single(p))
  BY <1>1, PartData
<1> QED
  BY <1>1, <1>2, <1>3, One DEF Left

\* ... and what truncate leaves.
LEMMA LeftTruncated ==
    ASSUME NEW g \in Good, NEW i1 \in Nat, NEW i2 \in Int
    PROVE  Left(<<TruncateSegment(g, i1, i2)>>, g)
<1>1. CASE TruncateSegment(g, i1, i2) = g
  BY <1>1, LeftWhole
<1>2. CASE TruncateSegment(g, i1, i2) # g
  <2>1. /\ i1 < Len(g.data)
        /\ \E b \in (i1 + 1)..Len(g.data) : TruncateSegment(g, i1, i2) = Part(g, i1 + 1, b)
    BY <1>2, TruncateIs
  <2>2. PICK b \in (i1 + 1)..Len(g.data) : TruncateSegment(g, i1, i2) = Part(g, i1 + 1, b)
    BY <2>1
  <2>3. i1 + 1 \in 1..Len(g.data)
    BY <2>1, GoodFields
  <2> QED
    BY <2>2, <2>3, LeftPart
<1> QED
  BY <1>1, <1>2

\* Kept gives a part of the segment.
LEMMA KeptIs ==
    ASSUME NEW g \in Good, NEW new \in Good
    PROVE  Left(Kept(g, new), g)
<1>1. PICK d1 \in Int, d2 \in Int, n \in Nat :
          /\ d1 = D1(g, new) /\ d2 = D2(g, new) /\ n = Len(g.data)
          /\ Overlaps(g, new) => d2 >= 1
  BY Overlapped, GoodFields
<1>2. CASE ~Overlaps(g, new)
  BY <1>2, LeftWhole DEF Kept
<1>3. CASE Overlaps(g, new) /\ d1 <= 0 /\ d2 >= n
  <2>1. Kept(g, new) = <<>>
    BY <1>1, <1>3 DEF Kept
  <2> QED
    BY <2>1, LeftNone
<1>4. CASE Overlaps(g, new) /\ d1 <= 0 /\ d2 < n
  <2>1. Kept(g, new) = <<TruncateSegment(g, d2 + 1, n - 1)>>
    BY <1>1, <1>4 DEF Kept
  <2>2. d2 + 1 \in Nat /\ n - 1 \in Int
    BY <1>1, <1>4
  <2> QED
    BY <2>1, <2>2, LeftTruncated
<1>5. CASE Overlaps(g, new) /\ d1 > 0
  <2>1. Kept(g, new) = <<TruncateSegment(g, 0, d1)>>
    BY <1>1, <1>5 DEF Kept
  <2>2. 0 \in Nat
    OBVIOUS
  <2> QED
    BY <2>1, <2>2, LeftTruncated
<1> QED
  BY <1>2, <1>3, <1>4, <1>5

\* The two halves of a segment that a new one is in the middle of.
LEMMA RestIs ==
    ASSUME NEW g \in Good, NEW new \in Good
    PROVE  /\ Left(Rest(g, new), g)
           /\ Single(g) => All(Kept(g, new)) \cap All(Rest(g, new)) = {}
<1>1. PICK d1 \in Int, d2 \in Int, n \in Nat :
          d1 = D1(g, new) /\ d2 = D2(g, new) /\ n = Len(g.data) /\ d1 < d2
  BY Overlapped, GoodFields
<1>2. CASE ~(InMiddle(g, new) /\ d2 + 1 < n)
  <2>1. Rest(g, new) = <<>>
    BY <1>1, <1>2 DEF Rest
  <2> QED
    BY <2>1, LeftNone, None
<1>3. CASE InMiddle(g, new) /\ d2 + 1 < n
  <2>1. Overlaps(g, new) /\ d1 > 0 /\ d2 < n
    BY <1>1, <1>3 DEF InMiddle
  <2>2. Rest(g, new) = <<TruncateSegment(g, d2 + 1, n)>> /\ d2 + 1 \in Nat /\ n \in Int
    BY <1>1, <1>3, <2>1 DEF Rest
  <2>3. Left(Rest(g, new), g)
    BY <2>2, LeftTruncated
  <2>4. Kept(g, new) = <<TruncateSegment(g, 0, d1)>>
    BY <1>1, <2>1 DEF Kept
  <2>5. g = [beg |-> g.beg, del |-> g.del, data |-> g.data] /\ g.beg \in Int /\ g.del \in Int
    BY GoodFields DEF GSegment
  <2>6. TruncateSegment(g, d2 + 1, n) = Part(g, d2 + 2, n)
    <3>1. (d2 + 2) - 1 = d2 + 1 /\ (d2 + 1) + 1 = d2 + 2
      OBVIOUS
    <3>2. ~(d2 + 1 >= n \/ n < 0 \/ d2 + 1 > n) /\ ~(n < n)
      BY <1>3
    <3>3. TruncateSegment(g, d2 + 1, n)
            = [beg |-> g.beg + (d2 + 1) * g.del, del |-> g.del, data |-> SubSeq(g.data, d2 + 2, n)]
      BY <1>1, <2>5, <3>1, <3>2 DEF TruncateSegment
    <3> QED
      BY <3>1, <3>3 DEF Part
  <2>7. TruncateSegment(g, 0, d1) = Part(g, 1, d1 + 1)
    <3>1. 1 - 1 = 0 /\ 0 + 1 = 1
      OBVIOUS
    <3>2. ~(0 >= n \/ d1 < 0 \/ 0 > d1) /\ d1 < n
      BY <1>1, <2>1
    <3>3. TruncateSegment(g, 0, d1)
            = [beg |-> g.beg + 0 * g.del, del |-> g.del, data |-> SubSeq(g.data, 1, d1 + 1)]
      BY <1>1, <2>5, <3>1, <3>2 DEF TruncateSegment
    <3> QED
      BY <3>1, <3>3 DEF Part
  <2>8. 1 \in 1..n /\ d1 + 1 \in 1..n /\ d2 + 2 \in 1..n /\ n \in (d2 + 2)..n /\ d1 + 1 < d2 + 2
    BY <1>1, <1>3, <2>1
  <2>9. Part(g, 1, d1 + 1) \in Good /\ Part(g, d2 + 2, n) \in Good
    BY <1>1, <2>8, PartIs
  <2>10. Single(g) => Data(Part(g, 1, d1 + 1)) \cap Data(Part(g, d2 + 2, n)) = {}
    BY <1>1, <2>8, PartsApart
  <2>11. /\ All(Kept(g, new)) = Data(Part(g, 1, d1 + 1))
         /\ All(Rest(g, new)) = Data(Part(g, d2 + 2, n))
    BY <2>2, <2>4, <2>6, <2>7, <2>9, One
  <2> QED
    BY <2>3, <2>10, <2>11
<1> QED
  BY <1>2, <1>3

-----------------------------------------------------------------------------
(* JoinSegments *)

\* Another interval for a segment of one sample.
LEMMA SetTdelIs ==
    ASSUME NEW g \in Good, ~(Len(g.data) > 1), NEW dt \in Int
    PROVE  /\ SetTdel(g, dt) \in Good
           /\ SetTdel(g, dt).data = g.data /\ SetTdel(g, dt).beg = g.beg
<1>1. PICK del \in Int : del = IF dt <= 0 THEN Second ELSE dt
  BY IntervalAssumption
<1>2. del \in Nat \ {0}
  BY <1>1, IntervalAssumption
<1>3. g = [beg |-> g.beg, del |-> g.del, data |-> g.data]
  BY GoodFields DEF GSegment
<1>4. SetTdel(g, dt) = [beg |-> g.beg, del |-> del, data |-> g.data]
  BY <1>1, <1>3 DEF SetTdel
<1>5. g.beg \in Int /\ g.data \in Seq(Sample) /\ Len(g.data) # 0
  BY GoodFields
<1> QED
  BY <1>2, <1>4, <1>5, GoodMade

\* Spaced changes intervals only.
LEMMA SpacedIs ==
    ASSUME NEW segs \in Seq(Good), Len(segs) > 1
    PROVE  /\ Spaced(segs) \in Seq(Good) /\ Len(Spaced(segs)) = Len(segs)
           /\ \A j \in 1..Len(segs) : /\ Spaced(segs)[j].data = segs[j].data
                                      /\ Spaced(segs)[j].beg = segs[j].beg
<1>1. PICK n \in Nat : n = Len(segs) /\ DOMAIN segs = 1..n /\ \A i \in 1..n : segs[i] \in Good
  BY Places1
<1>2. PICK sp : sp = Spaced(segs)
  OBVIOUS
<1>3. sp = [j \in 1..n |->
              IF Len(segs[j].data) > 1 THEN segs[j]
              ELSE SetTdel(segs[j], IF j = 1 THEN segs[2].beg - segs[1].beg
                                    ELSE segs[j].beg - End(segs[j - 1]))]
  BY <1>1, <1>2 DEF Spaced
<1>4. ASSUME NEW j \in 1..n
      PROVE  sp[j] \in Good /\ sp[j].data = segs[j].data /\ sp[j].beg = segs[j].beg
  <2>1. CASE Len(segs[j].data) > 1
    BY <1>1, <1>3, <2>1
  <2>2. CASE ~(Len(segs[j].data) > 1)
    <3>1. PICK dt : dt = IF j = 1 THEN segs[2].beg - segs[1].beg ELSE segs[j].beg - End(segs[j - 1])
      OBVIOUS
    <3>2. dt \in Int
      <4>1. CASE j = 1
        <5>1. 1 \in 1..n /\ 2 \in 1..n
          BY <1>1
        <5>2. segs[1] \in Good /\ segs[2] \in Good
          BY <1>1, <5>1
        <5>3. segs[1].beg \in Int /\ segs[2].beg \in Int
          BY <5>2, GoodFields
        <5> QED
          BY <3>1, <4>1, <5>3
      <4>2. CASE j # 1
        <5>1. j - 1 \in 1..n
          BY <4>2
        <5>2. segs[j] \in Good /\ segs[j - 1] \in Good
          BY <1>1, <5>1
        <5>3. segs[j].beg \in Int /\ End(segs[j - 1]) \in Int
          BY <5>2, GoodFields, Ends
        <5> QED
          BY <3>1, <4>2, <5>3
      <4> QED
        BY <4>1, <4>2
    <3>3. sp[j] = SetTdel(segs[j], dt)
      BY <1>3, <2>2, <3>1
    <3>4. segs[j] \in Good
      BY <1>1
    <3> QED
      BY <2>2, <3>2, <3>3, <3>4, SetTdelIs
  <2> QED
    BY <2>1, <2>2
<1>5. sp = [j \in 1..n |-> sp[j]]
  BY <1>3
<1>6. sp \in Seq(Good) /\ Len(sp) = n
  BY <1>1, <1>4, <1>5
<1> QED
  BY <1>1, <1>2, <1>4, <1>6

\* The step of joinSegments.
Joined(sp, done, j) ==
    IF j > 1 /\ Fits(sp[j - 1], sp[j])
    THEN [done EXCEPT ![Len(done)].data = @ \o sp[j].data]
    ELSE Append(done, sp[j])

\* One step of joinSegments leaves segments.
LEMMA JoinedType ==
    ASSUME NEW done \in Seq(GSegment), NEW g \in Good
    PROVE  /\ [done EXCEPT ![Len(done)].data = @ \o g.data] \in Seq(GSegment)
           /\ Append(done, g) \in Seq(GSegment)
<1>1. PICK n \in Nat : n = Len(done) /\ DOMAIN done = 1..n /\ \A i \in 1..n : done[i] \in GSegment
  BY LenProperties, ElementOfSeq
<1>2. PICK e : e = [done EXCEPT ![n].data = @ \o g.data]
  OBVIOUS
<1>3. g \in GSegment /\ g.data \in Seq(Sample)
  BY GoodFields
<1>4. done = [i \in 1..n |-> done[i]]
  BY <1>1, LenProperties
<1>5. e = [i \in 1..n |-> IF i = n THEN [done[i] EXCEPT !.data = @ \o g.data] ELSE done[i]]
  BY <1>2, <1>4
<1>6. ASSUME NEW i \in 1..n PROVE e[i] \in GSegment
  <2>1. PICK h \in GSegment : h = done[i]
    BY <1>1
  <2>2. h.data \o g.data \in Seq(Sample)
    BY <1>3, ConcatProperties DEF GSegment
  <2>3. [h EXCEPT !.data = @ \o g.data] \in GSegment
    BY <2>2 DEF GSegment
  <2> QED
    BY <1>5, <2>1, <2>3
<1>7. e = [i \in 1..n |-> e[i]]
  BY <1>5
<1>8. e \in Seq(GSegment)
  BY <1>6, <1>7
<1> QED
  BY <1>1, <1>2, <1>3, <1>8

\* joinSegments as a fold over given indices.
JoinedAll(sp, idx) == FoldLeft(LAMBDA done, j : Joined(sp, done, j), <<>>, idx)

\* joinSegments is a fold of such steps,
LEMMA JoinIsFold ==
    ASSUME NEW segs
    PROVE  JoinSegments(segs) = IF Len(segs) <= 1 THEN segs
                                ELSE JoinedAll(Spaced(segs), [j \in DOMAIN Spaced(segs) |-> j])
BY DEF JoinSegments, JoinedAll, Joined, FoldLeft, MapThenFoldSet

\* ... step by step.
LEMMA JoinedSteps ==
    ASSUME NEW sp \in Seq(Good), NEW idx, Len(idx) = Len(sp), DOMAIN idx = 1..Len(sp),
           \A i \in 1..Len(sp) : idx[i] = i
    PROVE  \E g : /\ g[0] = <<>>
                  /\ \A i \in 1..Len(sp) : g[i] = Joined(sp, g[i - 1], idx[i])
                  /\ JoinedAll(sp, idx) = g[Len(sp)]
<1>1. PICK n \in Nat : /\ n = Len(sp) /\ DOMAIN sp = 1..n /\ \A i \in 1..n : sp[i] \in Good
                       /\ DOMAIN idx = 1..n /\ \A i \in 1..n : idx[i] = i
  BY Places1
<1> DEFINE A == Seq(GSegment)
           D == [x \in A \X (1..n) |-> Joined(sp, x[1], idx[x[2]])]
           Is(c) == c = [t \in SUBSET (1..n) |->
                         IF t = {} THEN <<>> ELSE Joined(sp, c[t \ {Max(t)}], idx[Max(t)])]
<1>2. StepOf(D, A, n) /\ <<>> \in A
  <2>1. \A x \in A \X (1..n) : Joined(sp, x[1], idx[x[2]]) \in A
    <3> SUFFICES ASSUME NEW x \in A \X (1..n) PROVE Joined(sp, x[1], idx[x[2]]) \in A
      OBVIOUS
    <3>1. PICK done \in A, i \in 1..n : done = x[1] /\ i = x[2]
      OBVIOUS
    <3>2. Joined(sp, done, idx[i]) \in A
      <4>1. sp[idx[i]] \in Good /\ done \in Seq(GSegment)
        BY <1>1, <3>1
      <4> HIDE DEF A
      <4>2. PICK h \in Good : h = sp[idx[i]]
        BY <4>1
      <4>3. /\ [done EXCEPT ![Len(done)].data = @ \o h.data] \in Seq(GSegment)
            /\ Append(done, h) \in Seq(GSegment)
        BY <4>1, JoinedType
      <4> QED
        BY <4>2, <4>3 DEF Joined, A
    <3> HIDE DEF A
    <3> QED
      BY <3>1, <3>2
  <2>2. <<>> \in A
    BY None
  <2> HIDE DEF A
  <2> QED
    BY <2>1, <2>2 DEF StepOf
<1>3. PICK it \in [SUBSET (1..n) -> A] : IsLeft(it, n, <<>>, D)
  <2> HIDE DEF A, D
  <2> QED
    BY <1>2, LeftIter
<1>4. Is(it)
  <2>1. ASSUME NEW t \in SUBSET (1..n), t # {}
        PROVE  D[<<it[t \ {Max(t)}], Max(t)>>] = Joined(sp, it[t \ {Max(t)}], idx[Max(t)])
    <3>1. Max(t) \in t
      BY <2>1, GreatestIn
    <3>2. it[t \ {Max(t)}] \in A /\ Max(t) \in 1..n
      BY <3>1
    <3> HIDE DEF A
    <3> QED
      BY <3>2
  <2>2. it = [t \in SUBSET (1..n) |-> it[t]]
    BY <1>3
  <2> HIDE DEF D, A
  <2> QED
    BY <1>3, <2>1, <2>2 DEF IsLeft
<1>5. PICK c : Is(c) /\ JoinedAll(sp, idx) = c[1..n]
  <2>1. JoinedAll(sp, idx) = (CHOOSE c : Is(c))[1..n]
    BY <1>1 DEF JoinedAll, Joined, FoldLeft, MapThenFoldSet
  <2> HIDE DEF Is
  <2>2. Is(CHOOSE c : Is(c))
    BY <1>4
  <2> QED
    BY <2>1, <2>2
<1> DEFINE g == [i \in 0..n |-> c[1..i]]
<1>6. g[0] = <<>>
  <2>1. 1..0 = {} /\ {} \in SUBSET (1..n) /\ 0 \in 0..n
    OBVIOUS
  <2>2. c[{}] = <<>>
    BY <1>5
  <2> QED
    BY <2>1, <2>2
<1>7. ASSUME NEW i \in 1..n PROVE g[i] = Joined(sp, g[i - 1], idx[i])
  <2>1. 1..i \in SUBSET (1..n) /\ i \in 1..i
    OBVIOUS
  <2>2. (1..i) \ {i} = 1..(i - 1)
    OBVIOUS
  <2>3. Max(1..i) = i
    <3>1. 1..i \in SUBSET Int /\ \A x \in 1..i : x <= i
      OBVIOUS
    <3> QED
      BY <2>1, <3>1, MaxIs
  <2>4. 1..i # {}
    BY <2>1
  <2>5. c[1..i] = Joined(sp, c[1..(i - 1)], idx[i])
    BY <1>5, <2>1, <2>2, <2>3, <2>4
  <2>6. g[i] = c[1..i] /\ g[i - 1] = c[1..(i - 1)]
    BY <1>1
  <2> QED
    BY <2>5, <2>6
<1>8. g[n] = c[1..n]
  BY <1>1
<1> HIDE DEF g
<1> QED
  BY <1>1, <1>5, <1>6, <1>7, <1>8

\* A segment with the samples of two.
Merged(g, h) == [g EXCEPT !.data = @ \o h.data]

\* The last segment with samples of another one behind its own is a segment.
LEMMA MergedIs ==
    ASSUME NEW g \in Good, NEW h \in Good, Len(g.data) > 1
    PROVE  /\ Merged(g, h) \in Good /\ Merged(g, h).beg = g.beg /\ Len(Merged(g, h).data) > 1
           /\ Data(Merged(g, h)) = Data(g) \cup Data(h)
           /\ (Single(g) /\ Single(h) /\ Data(g) \cap Data(h) = {}) => Single(Merged(g, h))
<1>0. PICK m : m = Merged(g, h)
  OBVIOUS
<1>1. PICK a \in Seq(Sample), b \in Seq(Sample) : a = g.data /\ b = h.data
  BY GoodFields
<1>2. PICK k \in Nat, l \in Nat : k = Len(a) /\ l = Len(b) /\ k > 1 /\ l > 0
  BY <1>1, GoodFields
<1>3. PICK c : c = a \o b
  OBVIOUS
<1>4. /\ c \in Seq(Sample) /\ Len(c) = k + l
      /\ \A i \in 1..(k + l) : c[i] = IF i <= k THEN a[i] ELSE b[i - k]
  BY <1>2, <1>3, ConcatProperties
<1>5. g.beg \in Int /\ g.del \in Nat \ {0} /\ g.del = Interval /\ Len(c) # 0 /\ Len(c) > 1
  <2>1. g.beg \in Int /\ g.del \in Nat \ {0} /\ g.del = Interval
    BY GoodFields
  <2>2. Len(c) # 0 /\ Len(c) > 1
    BY <1>2, <1>4
  <2> QED
    BY <2>1, <2>2
<1>6. m \in Good /\ m.beg = g.beg /\ m.data = c
  <2>1. PICK beg \in Int, del \in Nat \ {0} : beg = g.beg /\ del = g.del
    BY <1>5
  <2>2. m = [beg |-> beg, del |-> del, data |-> c]
    <3>1. g = [beg |-> g.beg, del |-> g.del, data |-> g.data]
      BY GoodFields DEF GSegment
    <3>2. m = [g EXCEPT !.data = c]
      BY <1>0, <1>1, <1>3 DEF Merged
    <3> QED
      BY <2>1, <3>1, <3>2
  <2>3. c \in Seq(Sample) /\ Len(c) # 0 /\ (Len(c) > 1 => del = Interval)
    BY <1>4, <1>5, <2>1
  <2>4. m \in Good /\ m.beg = beg /\ m.data = c
    BY <2>2, <2>3, GoodMade
  <2> QED
    BY <2>1, <2>4
<1>7. \A i \in 1..(k + l) : \/ i \in 1..k /\ c[i] = a[i]
                            \/ i - k \in 1..l /\ c[i] = b[i - k] /\ i \notin 1..k
  BY <1>4
<1>8. \A i \in 1..k : i \in 1..(k + l) /\ c[i] = a[i]
  BY <1>4
<1>9. \A i \in 1..l : k + i \in 1..(k + l) /\ c[k + i] = b[i]
  <2> SUFFICES ASSUME NEW i \in 1..l PROVE k + i \in 1..(k + l) /\ c[k + i] = b[i]
    OBVIOUS
  <2>1. k + i \in 1..(k + l) /\ ~(k + i <= k) /\ (k + i) - k = i
    OBVIOUS
  <2> QED
    BY <1>4, <2>1
<1>10. /\ Data(m) = {c[i] : i \in 1..(k + l)}
       /\ Data(g) = {a[i] : i \in 1..k}
       /\ Data(h) = {b[i] : i \in 1..l}
  BY <1>1, <1>2, <1>4, <1>6 DEF Data
<1>11. Data(m) = Data(g) \cup Data(h)
  <2>1. ASSUME NEW x \in Data(m) PROVE x \in Data(g) \cup Data(h)
    <3>1. PICK i \in 1..(k + l) : x = c[i]
      BY <1>10
    <3>2. (i \in 1..k /\ c[i] = a[i]) \/ (i - k \in 1..l /\ c[i] = b[i - k])
      BY <1>7
    <3> QED
      BY <1>10, <3>1, <3>2
  <2>2. ASSUME NEW x \in Data(g) PROVE x \in Data(m)
    BY <1>8, <1>10
  <2>3. ASSUME NEW x \in Data(h) PROVE x \in Data(m)
    <3>1. PICK i \in 1..l : x = b[i]
      BY <1>10
    <3>2. k + i \in 1..(k + l) /\ c[k + i] = x
      BY <1>9, <3>1
    <3> QED
      BY <1>10, <3>2
  <2> QED
    BY <2>1, <2>2, <2>3
<1>12. ASSUME Single(g), Single(h), Data(g) \cap Data(h) = {} PROVE Single(m)
  <2> SUFFICES ASSUME NEW i \in 1..(k + l), NEW j \in 1..(k + l), c[i] = c[j] PROVE i = j
    BY <1>4, <1>6 DEF Single
  <2>1. CASE i \in 1..k /\ j \in 1..k
    <3>1. a[i] = a[j]
      BY <1>8, <2>1
    <3> QED
      BY <1>1, <1>2, <1>12, <2>1, <3>1 DEF Single
  <2>2. CASE i \in 1..k /\ j \notin 1..k
    <3>1. c[i] \in Data(g) /\ c[j] \in Data(h)
      BY <1>7, <1>10, <2>2
    <3> QED
      BY <1>12, <3>1
  <2>3. CASE i \notin 1..k /\ j \in 1..k
    <3>1. c[j] \in Data(g) /\ c[i] \in Data(h)
      BY <1>7, <1>10, <2>3
    <3> QED
      BY <1>12, <3>1
  <2>4. CASE i \notin 1..k /\ j \notin 1..k
    <3>1. b[i - k] = b[j - k] /\ i - k \in 1..l /\ j - k \in 1..l
      BY <1>7, <2>4
    <3>2. i - k = j - k
      BY <1>1, <1>2, <1>12, <3>1 DEF Single
    <3> QED
      BY <3>2
  <2> QED
    BY <2>1, <2>2, <2>3, <2>4
<1> QED
  BY <1>0, <1>5, <1>6, <1>11, <1>12

\* The last segment takes the samples of one that follows it.
Extended(done, h) == [done EXCEPT ![Len(done)].data = @ \o h.data]

\* A join into the last segment keeps the samples, their places and the order.
LEMMA MergeLast ==
    ASSUME NEW done \in Seq(Good), done # <<>>, NEW h \in Good, Len(done[Len(done)].data) > 1
    PROVE  \E new :
           /\ new = Extended(done, h)
           /\ new \in Seq(Good) /\ new # <<>>
           /\ new[Len(new)].beg = done[Len(done)].beg /\ Len(new[Len(new)].data) > 1
           /\ All(new) = All(done) \cup Data(h)
           /\ InOrder(done) => InOrder(new)
           /\ (Distinct(done) /\ Single(h) /\ Data(h) \cap All(done) = {}) => Distinct(new)
<1>0. PICK new : new = Extended(done, h)
  OBVIOUS
<1>1. PICK n \in Nat : /\ n = Len(done) /\ n > 0 /\ DOMAIN done = 1..n
                       /\ \A i \in 1..n : done[i] \in Good
  BY Places1
<1>2. PICK g \in Good : g = done[n] /\ Len(g.data) > 1
  BY <1>1
<1>3. PICK m : m = Merged(g, h)
  OBVIOUS
<1>4. /\ m \in Good /\ m.beg = g.beg /\ Len(m.data) > 1
      /\ Data(m) = Data(g) \cup Data(h)
      /\ (Single(g) /\ Single(h) /\ Data(g) \cap Data(h) = {}) => Single(m)
  <2>1. Len(g.data) > 1
    BY <1>2
  <2> QED
    BY <1>3, <2>1, MergedIs
<1>6. new = [done EXCEPT ![n] = m]
  <2>1. new = [done EXCEPT ![Len(done)] = Merged(done[Len(done)], h)]
    BY <1>0 DEF Extended, Merged
  <2> QED
    BY <1>1, <1>2, <1>3, <2>1
<1>7. /\ new \in Seq(Good) /\ Len(new) = n
      /\ \A i \in 1..n : new[i] = IF i = n THEN m ELSE done[i]
  <2>1. n \in 1..Len(done) /\ m \in Good
    BY <1>1, <1>4
  <2>2. /\ [done EXCEPT ![n] = m] \in Seq(Good)
        /\ Len([done EXCEPT ![n] = m]) = Len(done)
        /\ \A i \in 1..Len(done) : [done EXCEPT ![n] = m][i] = IF i = n THEN m ELSE done[i]
    BY <2>1, ExceptSeq
  <2> QED
    BY <1>1, <1>6, <2>2
<1>8. n \in 1..n /\ new[n] = m /\ \A i \in 1..n : i # n => new[i] = done[i]
  BY <1>1, <1>7
<1>9. All(new) = All(done) \cup Data(h)
  <2>1. ASSUME NEW x \in All(new) PROVE x \in All(done) \cup Data(h)
    <3>1. PICK i \in 1..n : x \in Data(new[i])
      BY <1>7, InAll
    <3>2. x \in Data(done[i]) \/ x \in Data(h)
      BY <1>2, <1>4, <1>8, <3>1
    <3> QED
      BY <1>1, <3>2, InAll
  <2>2. ASSUME NEW x \in All(done) PROVE x \in All(new)
    <3>1. PICK i \in 1..n : x \in Data(done[i])
      BY <1>1, InAll
    <3>2. x \in Data(new[i])
      BY <1>2, <1>4, <1>8, <3>1
    <3> QED
      BY <1>7, <3>2, InAll
  <2>3. ASSUME NEW x \in Data(h) PROVE x \in All(new)
    <3>1. x \in Data(new[n])
      BY <1>4, <1>8
    <3> QED
      BY <1>7, <1>8, <3>1, InAll
  <2> QED
    BY <2>1, <2>2, <2>3
<1>10. ASSUME InOrder(done) PROVE InOrder(new)
  <2>1. \A i \in 1..n : new[i].beg = done[i].beg
    BY <1>2, <1>4, <1>8
  <2> QED
    BY <1>1, <1>7, <1>10, <2>1 DEF InOrder
<1>11. ASSUME Distinct(done), Single(h), Data(h) \cap All(done) = {} PROVE Distinct(new)
  <2>1. \A i \in 1..n : Single(done[i]) /\ Data(done[i]) \cap Data(h) = {}
    BY <1>1, <1>11 DEF Distinct, All
  <2>2. Single(g) /\ Data(g) \cap Data(h) = {}
    BY <1>2, <1>8, <2>1
  <2>3. \A i \in 1..n : Single(new[i])
    BY <1>4, <1>8, <1>11, <2>1, <2>2
  <2>4. ASSUME NEW i \in 1..n, NEW j \in 1..n, i # j PROVE Data(new[i]) \cap Data(new[j]) = {}
    <3>1. Data(done[i]) \cap Data(done[j]) = {}
      BY <1>1, <1>11, <2>4 DEF Distinct
    <3>2. CASE i = n
      <4>1. new[i] = m /\ new[j] = done[j] /\ done[i] = g
        BY <1>2, <1>8, <2>4, <3>2
      <4>2. Data(m) = Data(done[i]) \cup Data(h) /\ Data(done[j]) \cap Data(h) = {}
        BY <1>4, <2>1, <4>1
      <4> QED
        BY <3>1, <4>1, <4>2
    <3>3. CASE j = n
      <4>1. new[j] = m /\ new[i] = done[i] /\ done[j] = g
        BY <1>2, <1>8, <2>4, <3>3
      <4>2. Data(m) = Data(done[j]) \cup Data(h) /\ Data(done[i]) \cap Data(h) = {}
        BY <1>4, <2>1, <4>1
      <4> QED
        BY <3>1, <4>1, <4>2
    <3>4. CASE i # n /\ j # n
      BY <1>8, <3>1, <3>4
    <3> QED
      BY <3>2, <3>3, <3>4
  <2> QED
    BY <1>7, <2>3, <2>4 DEF Distinct
<1>12. new # <<>>
  BY <1>1, <1>7, None
<1>13. new[Len(new)].beg = done[Len(done)].beg /\ Len(new[Len(new)].data) > 1
  BY <1>1, <1>2, <1>4, <1>7, <1>8
<1> QED
  BY <1>0, <1>7, <1>9, <1>10, <1>11, <1>12, <1>13

\* A segment that follows the others.
LEMMA AppendLast ==
    ASSUME NEW done \in Seq(Good), NEW h \in Good
    PROVE  /\ Append(done, h) \in Seq(Good) /\ Append(done, h) # <<>>
           /\ Append(done, h)[Len(Append(done, h))] = h
           /\ All(Append(done, h)) = All(done) \cup Data(h)
           /\ (InOrder(done) /\ \A i \in 1..Len(done) : done[i].beg <= h.beg) => InOrder(Append(done, h))
           /\ (Distinct(done) /\ Single(h) /\ Data(h) \cap All(done) = {}) => Distinct(Append(done, h))
<1>1. PICK new : new = Append(done, h)
  OBVIOUS
<1>2. new = done \o <<h>>
  BY <1>1, AppendIsConcat
<1>3. /\ <<h>> \in Seq(Good) /\ Len(<<h>>) = 1 /\ <<h>>[1] = h /\ All(<<h>>) = Data(h)
      /\ Single(h) => Distinct(<<h>>)
      /\ InOrder(<<h>>)
  BY One
<1>4. new \in Seq(Good) /\ new # <<>> /\ Len(new) = Len(done) + 1 /\ new[Len(done) + 1] = h
  BY <1>1, AppendProperties
<1>5. All(new) = All(done) \cup Data(h)
  BY <1>2, <1>3, CatAll
<1>6. ASSUME InOrder(done), \A i \in 1..Len(done) : done[i].beg <= h.beg PROVE InOrder(new)
  <2>1. \A j \in 1..1 : j = 1
    OBVIOUS
  <2>2. \A i \in 1..Len(done), j \in 1..Len(<<h>>) : done[i].beg <= <<h>>[j].beg
    BY <1>3, <1>6, <2>1
  <2> QED
    BY <1>2, <1>3, <1>6, <2>2, CatInOrder
<1>7. ASSUME Distinct(done), Single(h), Data(h) \cap All(done) = {} PROVE Distinct(new)
  <2>1. All(done) \cap All(<<h>>) = {} /\ Distinct(<<h>>)
    BY <1>3, <1>7
  <2> QED
    BY <1>2, <1>3, <1>7, <2>1, CatDistinct
<1> QED
  BY <1>1, <1>4, <1>5, <1>6, <1>7

\* joinSegments keeps the samples, and the order.
LEMMA JoinSegmentsIs ==
    ASSUME NEW segs \in Seq(Good), InOrder(segs)
    PROVE  /\ JoinSegments(segs) \in Seq(Good) /\ InOrder(JoinSegments(segs))
           /\ All(JoinSegments(segs)) = All(segs)
           /\ Distinct(segs) => Distinct(JoinSegments(segs))
<1>1. CASE Len(segs) <= 1
  <2>1. JoinSegments(segs) = segs
    BY <1>1, JoinIsFold
  <2> QED
    BY <2>1
<1>2. CASE ~(Len(segs) <= 1)
  <2>1. PICK n \in Nat : n = Len(segs) /\ n > 1 /\ \A i \in 1..n : segs[i] \in Good
    BY <1>2, Places1
  <2>2. PICK sp : sp = Spaced(segs)
    OBVIOUS
  <2>3. /\ sp \in Seq(Good) /\ Len(sp) = n
        /\ \A j \in 1..n : sp[j].data = segs[j].data /\ sp[j].beg = segs[j].beg
    BY <2>1, <2>2, SpacedIs
  <2>4. DOMAIN sp = 1..n /\ \A j \in 1..n : sp[j] \in Good
    BY <2>3, Places1
  <2>5. PICK idx : idx = [j \in 1..n |-> j]
    OBVIOUS
  <2>6. JoinSegments(segs) = JoinedAll(sp, idx)
    BY <1>2, <2>2, <2>4, <2>5, JoinIsFold
  <2>7. Len(idx) = n /\ DOMAIN idx = 1..n /\ \A i \in 1..n : idx[i] = i
    BY <2>5
  <2>8. PICK g : /\ g[0] = <<>>
                 /\ \A i \in 1..n : g[i] = Joined(sp, g[i - 1], idx[i])
                 /\ JoinedAll(sp, idx) = g[n]
    <3>1. /\ sp \in Seq(Good) /\ Len(idx) = Len(sp) /\ DOMAIN idx = 1..Len(sp)
          /\ \A i \in 1..Len(sp) : idx[i] = i
      BY <2>3, <2>7
    <3>2. \E g : /\ g[0] = <<>>
                 /\ \A i \in 1..Len(sp) : g[i] = Joined(sp, g[i - 1], idx[i])
                 /\ JoinedAll(sp, idx) = g[Len(sp)]
      BY <3>1, JoinedSteps
    <3>3. Len(sp) = n
      BY <2>3
    <3> QED
      BY <3>2, <3>3
  <2>9. \A i \in 1..n : g[i] = Joined(sp, g[i - 1], i)
    BY <2>7, <2>8
  <2>10. \A i \in 1..n : Data(sp[i]) = Data(segs[i]) /\ (Single(sp[i]) <=> Single(segs[i]))
    BY <2>3 DEF Data, Single
  <2> DEFINE Holds(m) == /\ g[m] \in Seq(Good) /\ InOrder(g[m])
                         /\ All(g[m]) = UNION {Data(segs[i]) : i \in 1..m}
                         /\ Distinct(segs) => Distinct(g[m])
                         /\ m > 0 => /\ g[m] # <<>> /\ g[m][Len(g[m])].beg <= sp[m].beg
                                     /\ Len(sp[m].data) > 1 => Len(g[m][Len(g[m])].data) > 1
             T == {m \in 0..n : Holds(m)}
  <2>11. 0 \in T
    <3>1. 1..0 = {} /\ 0 \in 0..n /\ ~(0 > 0)
      OBVIOUS
    <3> QED
      BY <2>8, <3>1, None
  <2>12. ASSUME NEW m \in 0..n, m \in T, m < n PROVE m + 1 \in T
    <3>1. m + 1 \in 1..n /\ m + 1 \in 0..n /\ (m + 1) - 1 = m /\ m + 1 > 0
      BY <2>12
    <3>2. PICK a \in Seq(Good), h \in Good : a = g[m] /\ h = sp[m + 1]
      BY <2>4, <2>12, <3>1
    <3>3. Holds(m)
      BY <2>12
    <3>4. PICK b : b = g[m + 1]
      OBVIOUS
    <3>5. b = Joined(sp, a, m + 1)
      BY <2>9, <3>1, <3>2, <3>4
    <3>6. InOrder(a) /\ All(a) = UNION {Data(segs[i]) : i \in 1..m}
      BY <3>2, <3>3
    <3>7. 1..(m + 1) = (1..m) \cup {m + 1}
      BY <2>12
    <3>8. All(a) \cup Data(h) = UNION {Data(segs[i]) : i \in 1..(m + 1)}
      BY <2>10, <3>1, <3>2, <3>6, <3>7
    <3>9. Distinct(segs) => Distinct(a) /\ Single(h) /\ Data(h) \cap All(a) = {}
      <4> SUFFICES ASSUME Distinct(segs) PROVE Distinct(a) /\ Single(h) /\ Data(h) \cap All(a) = {}
        OBVIOUS
      <4>1. Distinct(a) /\ Single(h)
        BY <2>1, <2>10, <3>1, <3>2, <3>3 DEF Distinct
      <4>2. \A i \in 1..m : i \in 1..n /\ i # m + 1
        BY <2>12
      <4>3. \A i \in 1..m : Data(segs[i]) \cap Data(segs[m + 1]) = {}
        BY <2>1, <3>1, <4>2 DEF Distinct
      <4> QED
        BY <2>10, <3>1, <3>2, <3>6, <4>1, <4>3
    <3>10. m > 0 => sp[m].beg <= h.beg /\ sp[m].beg \in Int /\ h.beg \in Int
      <4> SUFFICES ASSUME m > 0 PROVE sp[m].beg <= h.beg /\ sp[m].beg \in Int /\ h.beg \in Int
        OBVIOUS
      <4>1. m \in 1..n /\ m <= m + 1
        BY <2>12
      <4>2. segs[m].beg <= segs[m + 1].beg
        BY <2>1, <3>1, <4>1 DEF InOrder
      <4>3. sp[m] \in Good /\ sp[m + 1] \in Good
        BY <2>4, <3>1, <4>1
      <4> QED
        BY <2>3, <3>1, <3>2, <4>1, <4>2, <4>3, GoodFields
    <3>11. CASE m + 1 > 1 /\ Fits(sp[m], h)
      <4>1. Len(sp[m].data) > 1 /\ Len(h.data) > 1
        BY <3>11 DEF Fits
      <4>2. m > 0
        BY <3>11
      <4>3. /\ a # <<>> /\ a[Len(a)].beg <= sp[m].beg
            /\ Len(a[Len(a)].data) > 1
        BY <3>2, <3>3, <4>1, <4>2
      <4>4. b = Extended(a, h)
        BY <3>1, <3>2, <3>5, <3>11 DEF Joined, Extended
      <4>5. /\ b \in Seq(Good) /\ b # <<>>
            /\ b[Len(b)].beg = a[Len(a)].beg /\ Len(b[Len(b)].data) > 1
            /\ All(b) = All(a) \cup Data(h)
            /\ InOrder(a) => InOrder(b)
            /\ (Distinct(a) /\ Single(h) /\ Data(h) \cap All(a) = {}) => Distinct(b)
        BY <4>3, <4>4, MergeLast
      <4>6. a[Len(a)].beg \in Int
        <5>1. Len(a) \in 1..Len(a)
          BY <4>3, Places1
        <5>2. a[Len(a)] \in Good
          BY <5>1, Places1
        <5> QED
          BY <5>2, GoodFields
      <4>7. b[Len(b)].beg <= h.beg
        BY <3>10, <4>2, <4>3, <4>5, <4>6
      <4>8. InOrder(b) /\ (Distinct(segs) => Distinct(b))
        BY <3>6, <3>9, <4>5
      <4>9. Holds(m + 1)
        BY <3>2, <3>4, <3>8, <4>5, <4>7, <4>8
      <4> HIDE DEF Holds
      <4> QED
        BY <3>1, <4>9
    <3>12. CASE ~(m + 1 > 1 /\ Fits(sp[m], h))
      <4>1. b = Append(a, h)
        BY <3>1, <3>2, <3>5, <3>12 DEF Joined
      <4>2. /\ b \in Seq(Good) /\ b # <<>> /\ b[Len(b)] = h
            /\ All(b) = All(a) \cup Data(h)
            /\ (InOrder(a) /\ \A i \in 1..Len(a) : a[i].beg <= h.beg) => InOrder(b)
            /\ (Distinct(a) /\ Single(h) /\ Data(h) \cap All(a) = {}) => Distinct(b)
        BY <4>1, AppendLast
      <4>3. \A i \in 1..Len(a) : a[i].beg <= h.beg
        <5> SUFFICES ASSUME NEW i \in 1..Len(a) PROVE a[i].beg <= h.beg
          OBVIOUS
        <5>1. PICK l \in Nat : l = Len(a) /\ i \in 1..l /\ l \in 1..l /\ i <= l
          BY Places1
        <5>2. a # <<>>
          BY <5>1, None
        <5>3. m > 0
          <6>1. m = 0 => a = <<>>
            BY <2>8, <3>2
          <6> QED
            BY <2>12, <5>2, <6>1
        <5>4. a[l].beg <= sp[m].beg
          BY <3>2, <3>3, <5>1, <5>3
        <5>5. a[i].beg <= a[l].beg
          BY <3>6, <5>1 DEF InOrder
        <5>6. a[i] \in Good /\ a[l] \in Good
          BY <5>1, Places1
        <5>7. a[i].beg \in Int /\ a[l].beg \in Int
          BY <5>6, GoodFields
        <5> QED
          BY <3>10, <5>3, <5>4, <5>5, <5>7
      <4>4. InOrder(b) /\ (Distinct(segs) => Distinct(b))
        BY <3>6, <3>9, <4>2, <4>3
      <4>5. h.beg <= h.beg
        BY GoodFields
      <4>6. Holds(m + 1)
        BY <3>2, <3>4, <3>8, <4>2, <4>4, <4>5
      <4> HIDE DEF Holds
      <4> QED
        BY <3>1, <4>6
    <3> QED
      BY <3>11, <3>12
  <2>13. Holds(n)
    <3> HIDE DEF Holds
    <3>1. \A i \in 0..n : i \in T /\ i < n => i + 1 \in T
      BY <2>12
    <3> HIDE DEF T
    <3>2. \A i \in 0..n : i \in T
      BY <2>11, <3>1, UpTo
    <3> QED
      BY <3>2 DEF T
  <2>14. All(segs) = UNION {Data(segs[i]) : i \in 1..n}
    BY <2>1 DEF All
  <2> QED
    BY <2>6, <2>8, <2>13, <2>14
<1> QED
  BY <1>1, <1>2

-----------------------------------------------------------------------------
(* AddSegment and Join *)

\* A new segment takes nothing from elsewhere, and leaves no sample twice.
LEMMA AddSegmentIs ==
    ASSUME NEW segs \in Seq(Good), NEW new \in Good
    PROVE  /\ AddSegment(segs, new) \in Seq(Good) /\ InOrder(AddSegment(segs, new))
           /\ All(AddSegment(segs, new)) \subseteq All(segs) \cup Data(new)
           /\ (Distinct(segs) /\ Single(new) /\ Data(new) \cap All(segs) = {})
              => Distinct(AddSegment(segs, new))
<1>1. PICK n \in Nat : n = Len(segs) /\ DOMAIN segs = 1..n /\ \A i \in 1..n : segs[i] \in Good
  BY Places1
<1>2. PICK middle \in SUBSET (1..n) : middle = {i \in DOMAIN segs : InMiddle(segs[i], new)}
  <2>1. {i \in DOMAIN segs : InMiddle(segs[i], new)} \in SUBSET (1..n)
    BY <1>1
  <2> QED
    BY <2>1
<1>3. PICK m : m = CHOOSE i \in middle : \A j \in middle : j <= i
  OBVIOUS
<1>4. middle # {} => m \in middle /\ \A j \in middle : j <= m
  <2> SUFFICES ASSUME middle # {} PROVE m \in middle /\ \A j \in middle : j <= m
    OBVIOUS
  <2>1. \E i \in middle : \A j \in middle : j <= i
    BY Greatest
  <2> QED
    BY <1>3, <2>1
<1>5. PICK old : old = [i \in 1..n |-> IF \E j \in middle : i < j THEN <<segs[i]>>
                                       ELSE Kept(segs[i], new)]
  OBVIOUS
<1>6. PICK rest : rest = IF middle = {} THEN <<>> ELSE Rest(segs[m], new)
  OBVIOUS
<1>7. PICK flat : flat = FlattenSeq(old)
  OBVIOUS
<1>8. AddSegment(segs, new) = JoinSegments(Sorted(flat \o <<new>> \o rest))
  BY <1>1, <1>2, <1>3, <1>5, <1>6, <1>7 DEF AddSegment
<1>9. ASSUME NEW i \in 1..n PROVE Left(old[i], segs[i])
  <2>1. segs[i] \in Good
    BY <1>1
  <2>2. old[i] = <<segs[i]>> \/ old[i] = Kept(segs[i], new)
    BY <1>5
  <2> QED
    BY <2>1, <2>2, LeftWhole, KeptIs
<1>10. \A i \in 1..n : /\ old[i] \in Seq(Good) /\ All(old[i]) \subseteq Data(segs[i])
                       /\ Single(segs[i]) => Distinct(old[i])
  BY <1>9 DEF Left
<1>11. DOMAIN old = 1..n /\ old \in Seq(Seq(Good)) /\ Len(old) = n
  <2>1. old = [i \in 1..n |-> old[i]]
    BY <1>5
  <2> QED
    BY <1>10, <2>1
<1>12. /\ flat \in Seq(Good)
       /\ All(flat) = UNION {All(old[i]) : i \in 1..n}
       /\ /\ \A i \in 1..n : Distinct(old[i])
          /\ \A i, j \in 1..n : i < j => All(old[i]) \cap All(old[j]) = {}
          => Distinct(flat)
  BY <1>7, <1>10, <1>11, Flatten
<1>13. All(flat) \subseteq All(segs)
  <2> SUFFICES ASSUME NEW x \in All(flat) PROVE x \in All(segs)
    OBVIOUS
  <2>1. PICK i \in 1..n : x \in All(old[i])
    BY <1>12
  <2>2. x \in Data(segs[i])
    BY <1>10, <2>1
  <2> QED
    BY <1>1, <2>2, InAll
<1>14. rest \in Seq(Good) /\ All(rest) \subseteq All(segs)
  <2>1. CASE middle = {}
    BY <1>6, <2>1, None
  <2>2. CASE middle # {}
    <3>1. m \in 1..n /\ segs[m] \in Good
      BY <1>1, <1>4, <2>2
    <3>2. rest \in Seq(Good) /\ All(rest) \subseteq Data(segs[m])
      BY <1>6, <2>2, <3>1, RestIs DEF Left
    <3> QED
      BY <1>1, <3>1, <3>2 DEF All
  <2> QED
    BY <2>1, <2>2
<1>15. PICK all, fn : fn = flat \o <<new>> /\ all = fn \o rest
  OBVIOUS
<1>16. <<new>> \in Seq(Good) /\ All(<<new>>) = Data(new) /\ (Single(new) => Distinct(<<new>>))
  BY One
<1>17. fn \in Seq(Good) /\ All(fn) = All(flat) \cup Data(new)
  <2>1. PICK one \in Seq(Good) : one = <<new>> /\ All(one) = Data(new)
    BY <1>16
  <2>2. fn = flat \o one /\ flat \in Seq(Good)
    BY <1>12, <1>15, <2>1
  <2>3. flat \o one \in Seq(Good)
    BY <2>2, Cat
  <2>4. All(flat \o one) = All(flat) \cup All(one)
    BY <2>2, CatAll
  <2> QED
    BY <2>1, <2>2, <2>3, <2>4
<1>18. all \in Seq(Good) /\ All(all) = All(flat) \cup Data(new) \cup All(rest)
  BY <1>14, <1>15, <1>17, Cat, CatAll
<1>19. ASSUME Distinct(segs), Single(new), Data(new) \cap All(segs) = {} PROVE Distinct(all)
  <2>1. \A i \in 1..n : Single(segs[i])
    BY <1>1, <1>19 DEF Distinct
  <2>2. \A i, j \in 1..n : i # j => Data(segs[i]) \cap Data(segs[j]) = {}
    BY <1>1, <1>19 DEF Distinct
  <2>3. \A i, j \in 1..n : i < j => All(old[i]) \cap All(old[j]) = {}
    <3> SUFFICES ASSUME NEW i \in 1..n, NEW j \in 1..n, i < j PROVE All(old[i]) \cap All(old[j]) = {}
      OBVIOUS
    <3>1. i # j
      BY <1>1
    <3>2. Data(segs[i]) \cap Data(segs[j]) = {}
      BY <2>2, <3>1
    <3> QED
      BY <1>10, <3>2
  <2>4. Distinct(flat)
    BY <1>10, <1>12, <2>1, <2>3
  <2>5. All(flat) \cap All(<<new>>) = {}
    BY <1>13, <1>16, <1>19
  <2>6. Distinct(fn)
    BY <1>12, <1>15, <1>16, <1>19, <2>4, <2>5, CatDistinct
  <2>7. Distinct(rest) /\ All(flat) \cap All(rest) = {}
    <3>1. CASE middle = {}
      BY <1>6, <3>1, None
    <3>2. CASE middle # {}
      <4>1. m \in 1..n /\ segs[m] \in Good /\ m \in middle /\ \A j \in middle : j <= m
        BY <1>1, <1>4, <3>2
      <4>2. rest = Rest(segs[m], new)
        BY <1>6, <3>2
      <4>3. Left(rest, segs[m]) /\ All(Kept(segs[m], new)) \cap All(rest) = {}
        BY <2>1, <4>1, <4>2, RestIs
      <4>4. Distinct(rest) /\ All(rest) \subseteq Data(segs[m])
        BY <2>1, <4>1, <4>3 DEF Left
      <4>5. \A j \in middle : ~(m < j)
        BY <1>2, <4>1
      <4>6. old[m] = Kept(segs[m], new)
        BY <1>5, <4>1, <4>5
      <4>7. ASSUME NEW i \in 1..n PROVE All(old[i]) \cap All(rest) = {}
        <5>1. CASE i = m
          BY <4>3, <4>6, <5>1
        <5>2. CASE i # m
          <6>1. Data(segs[i]) \cap Data(segs[m]) = {}
            BY <2>2, <4>1, <5>2
          <6> QED
            BY <1>10, <4>4, <6>1
        <5> QED
          BY <5>1, <5>2
      <4>8. All(flat) \cap All(rest) = {}
        BY <1>12, <4>7
      <4> QED
        BY <4>4, <4>8
    <3> QED
      BY <3>1, <3>2
  <2>8. All(fn) \cap All(rest) = {}
    BY <1>14, <1>17, <1>19, <2>7
  <2> QED
    BY <1>14, <1>15, <1>17, <2>6, <2>7, <2>8, CatDistinct
<1>20. PICK sorted : sorted = Sorted(all)
  OBVIOUS
<1>21. /\ sorted \in Seq(Good) /\ InOrder(sorted) /\ All(sorted) = All(all)
       /\ Distinct(all) => Distinct(sorted)
  BY <1>18, <1>20, SortedIs
<1>22. /\ JoinSegments(sorted) \in Seq(Good) /\ InOrder(JoinSegments(sorted))
       /\ All(JoinSegments(sorted)) = All(sorted)
       /\ Distinct(sorted) => Distinct(JoinSegments(sorted))
  BY <1>21, JoinSegmentsIs
<1>23. AddSegment(segs, new) = JoinSegments(sorted)
  BY <1>8, <1>15, <1>20
<1> QED
  BY <1>13, <1>14, <1>18, <1>19, <1>21, <1>22, <1>23

\* Join, step by step.
LEMMA JoinSteps ==
    ASSUME NEW segs \in Seq(Good), NEW others \in Seq(Good)
    PROVE  \E g : /\ g[0] = segs
                  /\ \A i \in 1..Len(others) : g[i] = AddSegment(g[i - 1], others[i])
                  /\ Join(segs, others) = g[Len(others)]
<1>1. PICK n \in Nat : n = Len(others) /\ DOMAIN others = 1..n /\ \A i \in 1..n : others[i] \in Good
  BY Places1
<1> DEFINE A == Seq(Good)
           D == [x \in A \X (1..n) |-> AddSegment(x[1], others[x[2]])]
           Is(c) == c = [t \in SUBSET (1..n) |->
                         IF t = {} THEN segs ELSE AddSegment(c[t \ {Max(t)}], others[Max(t)])]
<1>2. StepOf(D, A, n) /\ segs \in A
  <2>1. \A x \in A \X (1..n) : AddSegment(x[1], others[x[2]]) \in A
    <3> SUFFICES ASSUME NEW x \in A \X (1..n) PROVE AddSegment(x[1], others[x[2]]) \in A
      OBVIOUS
    <3>1. PICK done \in A, i \in 1..n : done = x[1] /\ i = x[2]
      OBVIOUS
    <3>2. AddSegment(done, others[i]) \in A
      <4>1. others[i] \in Good /\ done \in Seq(Good)
        BY <1>1
      <4> QED
        BY <4>1, AddSegmentIs
    <3> HIDE DEF A
    <3> QED
      BY <3>1, <3>2
  <2>2. segs \in A
    BY None
  <2> HIDE DEF A
  <2> QED
    BY <2>1, <2>2 DEF StepOf
<1>3. PICK it \in [SUBSET (1..n) -> A] : IsLeft(it, n, segs, D)
  <2> HIDE DEF A, D
  <2> QED
    BY <1>2, LeftIter
<1>4. Is(it)
  <2>1. ASSUME NEW t \in SUBSET (1..n), t # {}
        PROVE  D[<<it[t \ {Max(t)}], Max(t)>>] = AddSegment(it[t \ {Max(t)}], others[Max(t)])
    <3>1. Max(t) \in t
      BY <2>1, GreatestIn
    <3>2. it[t \ {Max(t)}] \in A /\ Max(t) \in 1..n
      BY <3>1
    <3> HIDE DEF A
    <3> QED
      BY <3>2
  <2>2. it = [t \in SUBSET (1..n) |-> it[t]]
    BY <1>3
  <2> HIDE DEF D, A
  <2> QED
    BY <1>3, <2>1, <2>2 DEF IsLeft
<1>5. PICK c : Is(c) /\ Join(segs, others) = c[1..n]
  <2>1. Join(segs, others) = (CHOOSE c : Is(c))[1..n]
    BY <1>1 DEF Join, FoldLeft, MapThenFoldSet
  <2> HIDE DEF Is
  <2>2. Is(CHOOSE c : Is(c))
    BY <1>4
  <2> QED
    BY <2>1, <2>2
<1> DEFINE g == [i \in 0..n |-> c[1..i]]
<1>6. g[0] = segs
  <2>1. 1..0 = {} /\ {} \in SUBSET (1..n) /\ 0 \in 0..n
    OBVIOUS
  <2>2. c[{}] = segs
    BY <1>5
  <2> QED
    BY <2>1, <2>2
<1>7. ASSUME NEW i \in 1..n PROVE g[i] = AddSegment(g[i - 1], others[i])
  <2>1. 1..i \in SUBSET (1..n) /\ i \in 1..i
    OBVIOUS
  <2>2. (1..i) \ {i} = 1..(i - 1)
    OBVIOUS
  <2>3. Max(1..i) = i
    <3>1. 1..i \in SUBSET Int /\ \A x \in 1..i : x <= i
      OBVIOUS
    <3> QED
      BY <2>1, <3>1, MaxIs
  <2>4. 1..i # {}
    BY <2>1
  <2>5. c[1..i] = AddSegment(c[1..(i - 1)], others[i])
    BY <1>5, <2>1, <2>2, <2>3, <2>4
  <2>6. g[i] = c[1..i] /\ g[i - 1] = c[1..(i - 1)]
    BY <1>1
  <2> QED
    BY <2>5, <2>6
<1>8. g[n] = c[1..n]
  BY <1>1
<1> HIDE DEF g
<1> QED
  BY <1>1, <1>5, <1>6, <1>7, <1>8

\* Nor do several.
LEMMA JoinIs ==
    ASSUME NEW segs \in Seq(Good), NEW others \in Seq(Good), InOrder(segs)
    PROVE  /\ Join(segs, others) \in Seq(Good) /\ InOrder(Join(segs, others))
           /\ All(Join(segs, others)) \subseteq All(segs) \cup All(others)
           /\ (Distinct(segs) /\ Distinct(others) /\ All(segs) \cap All(others) = {})
              => Distinct(Join(segs, others))
<1>1. PICK n \in Nat : n = Len(others) /\ \A i \in 1..n : others[i] \in Good
  BY Places1
<1>2. PICK g : /\ g[0] = segs
               /\ \A i \in 1..n : g[i] = AddSegment(g[i - 1], others[i])
               /\ Join(segs, others) = g[n]
  BY <1>1, JoinSteps
<1> DEFINE Apart == Distinct(segs) /\ Distinct(others) /\ All(segs) \cap All(others) = {}
           Holds(m) == /\ g[m] \in Seq(Good) /\ InOrder(g[m])
                       /\ All(g[m]) \subseteq All(segs) \cup UNION {Data(others[i]) : i \in 1..m}
                       /\ Apart => Distinct(g[m])
           T == {m \in 0..n : Holds(m)}
<1>3. 0 \in T
  <2>1. 0 \in 0..n
    OBVIOUS
  <2> QED
    BY <1>2, <2>1
<1>4. ASSUME NEW m \in 0..n, m \in T, m < n PROVE m + 1 \in T
  <2>1. m + 1 \in 1..n /\ m + 1 \in 0..n /\ (m + 1) - 1 = m
    BY <1>4
  <2>2. PICK a \in Seq(Good), h \in Good : a = g[m] /\ h = others[m + 1]
    BY <1>1, <1>4, <2>1
  <2>3. PICK b : b = g[m + 1] /\ b = AddSegment(a, h)
    BY <1>2, <2>1, <2>2
  <2>4. All(a) \subseteq All(segs) \cup UNION {Data(others[i]) : i \in 1..m}
    BY <1>4, <2>2
  <2>5. /\ b \in Seq(Good) /\ InOrder(b)
        /\ All(b) \subseteq All(a) \cup Data(h)
        /\ (Distinct(a) /\ Single(h) /\ Data(h) \cap All(a) = {}) => Distinct(b)
    BY <2>3, AddSegmentIs
  <2>6. 1..(m + 1) = (1..m) \cup {m + 1}
    BY <1>4
  <2>7. All(b) \subseteq All(segs) \cup UNION {Data(others[i]) : i \in 1..(m + 1)}
    BY <2>2, <2>4, <2>5, <2>6
  <2>8. ASSUME Apart PROVE Distinct(b)
    <3>1. Distinct(a) /\ Single(h)
      BY <1>1, <1>4, <2>1, <2>2, <2>8 DEF Distinct
    <3>2. \A i \in 1..m : i \in 1..n /\ i # m + 1
      BY <1>4
    <3>3. \A i \in 1..m : Data(others[i]) \cap Data(h) = {}
      BY <1>1, <2>1, <2>2, <2>8, <3>2 DEF Distinct
    <3>4. Data(h) \subseteq All(others)
      BY <1>1, <2>1, <2>2 DEF All
    <3>5. Data(h) \cap All(a) = {}
      BY <2>4, <2>8, <3>3, <3>4
    <3> QED
      BY <2>5, <3>1, <3>5
  <2>9. Holds(m + 1)
    BY <2>3, <2>5, <2>7, <2>8
  <2> HIDE DEF Holds
  <2> QED
    BY <2>1, <2>9
<1>5. Holds(n)
  <2> HIDE DEF Holds
  <2>1. \A i \in 0..n : i \in T /\ i < n => i + 1 \in T
    BY <1>4
  <2> HIDE DEF T
  <2>2. \A i \in 0..n : i \in T
    BY <1>3, <2>1, UpTo
  <2> QED
    BY <2>2 DEF T
<1>6. All(others) = UNION {Data(others[i]) : i \in 1..n}
  BY <1>1 DEF All
<1> QED
  BY <1>2, <1>5, <1>6

-----------------------------------------------------------------------------
(* Windows *)

\* A multiplication keeps the order of numbers.
LEMMA Monotone ==
    ASSUME NEW x \in Int, NEW y \in Int, NEW d \in Nat, x <= y
    PROVE  x * d \in Int /\ y * d \in Int /\ x * d <= y * d
<1>1. PICK z \in Nat : y = x + z
  <2>1. y - x \in Nat /\ y = x + (y - x)
    OBVIOUS
  <2> QED
    BY <2>1
<1>2. z * d \in Nat /\ y * d = x * d + z * d
  BY <1>1
<1> QED
  BY <1>2

\* An index that is clamped is one of the samples.
LEMMA Clamped ==
    ASSUME NEW i \in Int, NEW n \in Nat \ {0}
    PROVE  /\ Clamp(i, n) \in 0..(n - 1)
           /\ i <= 0 => Clamp(i, n) = 0
           /\ i >= 0 => Clamp(i, n) <= i
           /\ Clamp(i, n) >= i \/ Clamp(i, n) = n - 1
BY DEF Clamp

\* The segments are there, the first and the last of them.
LEMMA Segments ==
    ASSUME NEW segs \in Seq(Good), segs # <<>>
    PROVE  \E n \in Nat \ {0} :
              /\ n = Len(segs) /\ DOMAIN segs = 1..n /\ 1 \in 1..n /\ n \in 1..n
              /\ \A i \in 1..n : segs[i] \in Good
              /\ Tol(segs) \in Nat \ {0} /\ TBeg(segs) = segs[1].beg /\ TBeg(segs) \in Int
              /\ TEnd(segs) = End(segs[n]) /\ TEnd(segs) \in Int
<1>1. PICK n \in Nat \ {0} : n = Len(segs) /\ DOMAIN segs = 1..n /\ \A i \in 1..n : segs[i] \in Good
  BY Places1
<1>2. 1 \in 1..n /\ n \in 1..n
  OBVIOUS
<1>3. segs[1] \in Good /\ segs[n] \in Good
  BY <1>1, <1>2
<1> QED
  BY <1>1, <1>2, <1>3, GoodFields, Ends DEF Tol, TBeg, TEnd

\* upperBound gives a place; if t is behind the first sample and not behind the
\* last one, the sample there is not before t.
LEMMA UpperIs ==
    ASSUME NEW segs \in Seq(Good), segs # <<>>, NEW t \in Int
    PROVE  \E i \in 1..Len(segs) : \E k \in 0..(Len(segs[i].data) - 1) :
              /\ UpperBound(segs, t) = <<i, k>>
              /\ 100 * t - Tol(segs) <= 100 * TBeg(segs) => i = 1 /\ k = 0
              /\ (Tol(segs) < 100 /\ TBeg(segs) < t /\ t <= TEnd(segs))
                 => t <= segs[i].beg + k * segs[i].del
<1>1. PICK n \in Nat \ {0} :
          /\ n = Len(segs) /\ DOMAIN segs = 1..n /\ 1 \in 1..n /\ n \in 1..n
          /\ \A i \in 1..n : segs[i] \in Good
          /\ Tol(segs) \in Nat \ {0} /\ TBeg(segs) = segs[1].beg /\ TBeg(segs) \in Int
          /\ TEnd(segs) = End(segs[n]) /\ TEnd(segs) \in Int
  BY Segments
<1>2. PICK e \in Int : e = 100 * t - Tol(segs)
  BY <1>1
<1>3. PICK on \in SUBSET (1..n) : on = {j \in DOMAIN segs : e <= 100 * End(segs[j])}
  <2>1. {j \in DOMAIN segs : e <= 100 * End(segs[j])} \in SUBSET (1..n)
    BY <1>1
  <2> QED
    BY <2>1
<1>4. CASE e <= 100 * TBeg(segs)
  <2>1. UpperBound(segs, t) = <<1, 0>>
    BY <1>2, <1>4 DEF UpperBound
  <2>2. 0 \in 0..(Len(segs[1].data) - 1)
    BY <1>1, GoodFields
  <2>3. ~(Tol(segs) < 100 /\ TBeg(segs) < t)
    BY <1>1, <1>2, <1>4
  <2> QED
    BY <1>1, <1>2, <1>4, <2>1, <2>2, <2>3
<1>5. CASE ~(e <= 100 * TBeg(segs)) /\ on = {}
  <2>1. UpperBound(segs, t) = <<n, Len(segs[n].data) - 1>>
    BY <1>1, <1>2, <1>3, <1>5 DEF UpperBound
  <2>2. Len(segs[n].data) - 1 \in 0..(Len(segs[n].data) - 1)
    BY <1>1, GoodFields
  <2>3. ~(e <= 100 * TEnd(segs))
    BY <1>1, <1>3, <1>5
  <2>4. ~(Tol(segs) < 100 /\ t <= TEnd(segs))
    BY <1>1, <1>2, <2>3
  <2> QED
    BY <1>1, <1>2, <1>5, <2>1, <2>2, <2>4
<1>6. CASE ~(e <= 100 * TBeg(segs)) /\ on # {}
  <2>1. PICK i : i = CHOOSE j \in on : \A k \in on : j <= k
    OBVIOUS
  <2>2. i \in on
    <3>1. on \in SUBSET Nat
      OBVIOUS
    <3>2. \E j \in on : \A k \in on : j <= k
      BY <1>6, <3>1, Least
    <3> QED
      BY <2>1, <3>2
  <2>3. i \in 1..n /\ e <= 100 * End(segs[i]) /\ segs[i] \in Good
    BY <1>1, <1>3, <2>2
  <2>4. PICK b \in Int, d \in Nat \ {0}, l \in Nat \ {0} :
            b = segs[i].beg /\ d = segs[i].del /\ l = Len(segs[i].data)
    BY <2>3, GoodFields
  <2>5. PICK x \in Int : x = 100 * b - e
    <3>1. 100 * b - e \in Int
      OBVIOUS
    <3> QED
      BY <3>1
  <2>6. 100 * d \in Nat \ {0}
    OBVIOUS
  <2>7. PICK q \in Int : q = x \div (100 * d) /\ (100 * d) * q <= x
    BY <2>6, Quotient
  <2>8. PICK k \in 0..(l - 1) : /\ k = Clamp(-q, l)
                                /\ k >= -q \/ k = l - 1
    <3>1. -q \in Int
      OBVIOUS
    <3>2. Clamp(-q, l) \in 0..(l - 1) /\ (Clamp(-q, l) >= -q \/ Clamp(-q, l) = l - 1)
      BY <3>1, Clamped
    <3> QED
      BY <3>2
  <2>9. UpperBound(segs, t) = <<i, k>>
    <3>1. -((100 * segs[i].beg - e) \div (100 * segs[i].del)) = -q
      BY <2>4, <2>5, <2>7
    <3> QED
      BY <1>2, <1>3, <1>6, <2>1, <2>4, <2>8, <3>1 DEF UpperBound
  <2>10. ASSUME Tol(segs) < 100 PROVE t <= b + k * d
    <3>1. 100 * t - e <= 99
      BY <1>1, <1>2, <2>10
    <3>2. PICK y \in Int : y = k * d
      OBVIOUS
    <3>3. e <= 100 * (b + y)
      <4>1. CASE k = l - 1
        <5>1. End(segs[i]) = b + (l - 1) * d
          BY <2>4 DEF End, Time
        <5> QED
          BY <2>3, <3>2, <4>1, <5>1
      <4>2. CASE k >= -q
        <5>1. (-q) * d \in Int /\ (-q) * d <= k * d
          BY <2>8, <4>2, Monotone
        <5>2. (100 * d) * q = 100 * (q * d) /\ (-q) * d = -(q * d) /\ q * d \in Int
          OBVIOUS
        <5>3. PICK z \in Int : z = q * d
          BY <5>2
        <5>4. 100 * z <= 100 * b - e /\ -z <= y
          BY <2>5, <2>7, <3>2, <5>1, <5>2, <5>3
        <5> QED
          BY <5>4
      <4> QED
        BY <2>8, <4>1, <4>2
    <3>4. t <= b + y
      BY <3>1, <3>3
    <3> QED
      BY <3>2, <3>4
  <2> QED
    BY <1>1, <1>2, <1>6, <2>3, <2>4, <2>9, <2>10
<1> QED
  BY <1>4, <1>5, <1>6

\* The segments that have begun by a time in hundredths, and the last of them.
Begun(segs, e) == {j \in DOMAIN segs : e >= 100 * segs[j].beg}
LastOf(on)     == CHOOSE j \in on : \A k \in on : j >= k

\* The place for a time in hundredths in segment i.
PlaceIn(segs, i, e) ==
    <<i, Clamp((e - 100 * segs[i].beg) \div (100 * segs[i].del), Len(segs[i].data))>>

\* lowerBound between the ends of the segments: the last segment that has begun.
LEMMA LowerInside ==
    ASSUME NEW segs, NEW t \in Int, NEW e \in Int, NEW on, NEW i,
           e = 100 * t + Tol(segs), on = Begun(segs, e),
           ~(e >= 100 * TEnd(segs)), on # {}, i = LastOf(on)
    PROVE  LowerBound(segs, t) = PlaceIn(segs, i, e)
<1> DEFINE ee == 100 * t + Tol(segs)
           ii == LastOf(Begun(segs, ee))
<1>1. ~(ee >= 100 * TEnd(segs)) /\ Begun(segs, ee) # {}
  OBVIOUS
<1>2. LowerBound(segs, t) = PlaceIn(segs, ii, ee)
  BY <1>1 DEF LowerBound, Begun, LastOf, PlaceIn
<1>3. ee = e /\ ii = i
  OBVIOUS
<1> QED
  BY <1>2, <1>3

\* lowerBound gives a place; if t is not before the first sample, the sample there
\* is not behind t.
LEMMA LowerIs ==
    ASSUME NEW segs \in Seq(Good), segs # <<>>, NEW t \in Int
    PROVE  \E i \in 1..Len(segs) : \E k \in 0..(Len(segs[i].data) - 1) :
              /\ LowerBound(segs, t) = <<i, k>>
              /\ 100 * t + Tol(segs) >= 100 * TEnd(segs)
                    => i = Len(segs) /\ k = Len(segs[i].data) - 1
              /\ (Tol(segs) < 100 /\ TBeg(segs) <= t)
                 => segs[i].beg + k * segs[i].del <= t
<1>1. PICK n \in Nat \ {0} :
          /\ n = Len(segs) /\ DOMAIN segs = 1..n /\ 1 \in 1..n /\ n \in 1..n
          /\ \A i \in 1..n : segs[i] \in Good
          /\ Tol(segs) \in Nat \ {0} /\ TBeg(segs) = segs[1].beg /\ TBeg(segs) \in Int
          /\ TEnd(segs) = End(segs[n]) /\ TEnd(segs) \in Int
  BY Segments
<1>2. PICK e \in Int : e = 100 * t + Tol(segs)
  BY <1>1
<1>3. PICK on \in SUBSET (1..n) : on = Begun(segs, e)
  <2>1. Begun(segs, e) \in SUBSET (1..n)
    BY <1>1 DEF Begun
  <2> QED
    BY <2>1
<1>4. CASE e >= 100 * TEnd(segs)
  <2>1. LowerBound(segs, t) = <<n, Len(segs[n].data) - 1>>
    BY <1>1, <1>2, <1>4 DEF LowerBound
  <2>2. Len(segs[n].data) - 1 \in 0..(Len(segs[n].data) - 1)
    BY <1>1, GoodFields
  <2>3. End(segs[n]) = segs[n].beg + (Len(segs[n].data) - 1) * segs[n].del
    BY DEF End, Time
  <2>4. Tol(segs) < 100 => End(segs[n]) <= t
    BY <1>1, <1>2, <1>4
  <2> QED
    BY <1>1, <1>2, <1>4, <2>1, <2>2, <2>3, <2>4
<1>5. CASE ~(e >= 100 * TEnd(segs)) /\ on = {}
  <2>1. LowerBound(segs, t) = <<1, 0>>
    BY <1>1, <1>2, <1>3, <1>5 DEF LowerBound, Begun
  <2>2. 0 \in 0..(Len(segs[1].data) - 1)
    BY <1>1, GoodFields
  <2>3. ~(e >= 100 * TBeg(segs))
    BY <1>1, <1>3, <1>5 DEF Begun
  <2>4. ~(TBeg(segs) <= t)
    BY <1>1, <1>2, <2>3
  <2> QED
    BY <1>1, <1>2, <1>5, <2>1, <2>2, <2>4
<1>6. CASE ~(e >= 100 * TEnd(segs)) /\ on # {}
  <2>1. PICK i : i = LastOf(on)
    OBVIOUS
  <2>2. i \in on
    <3>1. PICK j \in on : \A k \in on : k <= j
      BY <1>6, Greatest
    <3>2. \E jj \in on : \A k \in on : jj >= k
      BY <3>1
    <3> QED
      BY <2>1, <3>2 DEF LastOf
  <2>3. i \in 1..n /\ e >= 100 * segs[i].beg /\ segs[i] \in Good
    BY <1>1, <1>3, <2>2 DEF Begun
  <2>4. PICK b \in Int, d \in Nat \ {0}, l \in Nat \ {0} :
            b = segs[i].beg /\ d = segs[i].del /\ l = Len(segs[i].data)
    BY <2>3, GoodFields
  <2>5. PICK x \in Int : x = e - 100 * b
    OBVIOUS
  <2>6. 100 * d \in Nat \ {0}
    OBVIOUS
  <2>7. PICK q \in Int : q = x \div (100 * d) /\ (100 * d) * q <= x
    BY <2>6, Quotient
  <2>8. PICK k \in 0..(l - 1) : /\ k = Clamp(q, l)
                                /\ k = 0 \/ k <= q
    <3>1. Clamp(q, l) \in 0..(l - 1) /\ (q <= 0 => Clamp(q, l) = 0) /\ (q >= 0 => Clamp(q, l) <= q)
      BY Clamped
    <3>2. Clamp(q, l) = 0 \/ Clamp(q, l) <= q
      BY <3>1
    <3> QED
      BY <3>1, <3>2
  <2>9. LowerBound(segs, t) = <<i, k>>
    <3>1. (e - 100 * segs[i].beg) \div (100 * segs[i].del) = q
      BY <2>4, <2>5, <2>7
    <3>2. LowerBound(segs, t) =
              <<i, Clamp((e - 100 * segs[i].beg) \div (100 * segs[i].del), Len(segs[i].data))>>
      <4>1. /\ e = 100 * t + Tol(segs) /\ on = Begun(segs, e)
            /\ ~(e >= 100 * TEnd(segs)) /\ on # {} /\ i = LastOf(on)
        BY <1>2, <1>3, <1>6, <2>1
      <4>2. LowerBound(segs, t) = PlaceIn(segs, i, e)
        BY <4>1, LowerInside
      <4> QED
        BY <4>2 DEF PlaceIn
    <3>3. Clamp((e - 100 * segs[i].beg) \div (100 * segs[i].del), Len(segs[i].data)) = k
      BY <2>4, <2>8, <3>1
    <3> QED
      BY <3>2, <3>3
  <2>10. ASSUME Tol(segs) < 100 PROVE b + k * d <= t
    <3>1. e - 100 * t <= 99
      BY <1>1, <1>2, <2>10
    <3>2. PICK y \in Int : y = k * d
      OBVIOUS
    <3>3. 100 * (b + y) <= e
      <4>1. CASE k = 0
        <5>1. y = 0
          BY <3>2, <4>1
        <5>2. e >= 100 * b
          BY <2>3, <2>4
        <5> QED
          BY <5>1, <5>2
      <4>2. CASE k <= q
        <5>1. q * d \in Int /\ k * d <= q * d
          BY <2>8, <4>2, Monotone
        <5>2. (100 * d) * q = 100 * (q * d)
          OBVIOUS
        <5>3. PICK z \in Int : z = q * d
          BY <5>1
        <5>4. 100 * z <= e - 100 * b /\ y <= z
          BY <2>5, <2>7, <3>2, <5>1, <5>2, <5>3
        <5> QED
          BY <5>4
      <4> QED
        BY <2>8, <4>1, <4>2
    <3>4. b + y <= t
      BY <3>1, <3>3
    <3> QED
      BY <3>2, <3>4
  <2> QED
    BY <1>1, <1>2, <1>6, <2>3, <2>4, <2>9, <2>10
<1> QED
  BY <1>4, <1>5, <1>6

\* A subsegment is a part of its segment.
LEMMA SubsegmentIs ==
    ASSUME NEW g \in Good, NEW i \in 0..(Len(g.data) - 1), NEW j \in i..(Len(g.data) - 1)
    PROVE  /\ Subsegment(g, i, j) = Part(g, i + 1, j + 1)
           /\ i + 1 \in 1..Len(g.data) /\ j + 1 \in (i + 1)..Len(g.data)
<1>1. g = [beg |-> g.beg, del |-> g.del, data |-> g.data] /\ Len(g.data) \in Nat
  BY GoodFields DEF GSegment
<1>2. (i + 1) - 1 = i
  OBVIOUS
<1>3. Subsegment(g, i, j)
        = [beg |-> g.beg + i * g.del, del |-> g.del, data |-> SubSeq(g.data, i + 1, j + 1)]
  <2>1. PICK b, w : b = g.beg + i * g.del /\ w = SubSeq(g.data, i + 1, j + 1)
    OBVIOUS
  <2>2. PICK x, y, z : x = g.beg /\ y = g.del /\ z = g.data
    OBVIOUS
  <2>3. g = [beg |-> x, del |-> y, data |-> z]
    BY <1>1, <2>2
  <2>4. [[g EXCEPT !.beg = b] EXCEPT !.data = w] = [beg |-> b, del |-> y, data |-> w]
    <3>1. PICK h : h = [g EXCEPT !.beg = b]
      OBVIOUS
    <3>2. h = [beg |-> b, del |-> y, data |-> z]
      BY <2>3, <3>1
    <3>3. [h EXCEPT !.data = w] = [beg |-> b, del |-> y, data |-> w]
      BY <3>2
    <3> QED
      BY <3>1, <3>3
  <2>5. Subsegment(g, i, j) = [[g EXCEPT !.beg = b] EXCEPT !.data = w]
    BY <2>1 DEF Subsegment
  <2> QED
    BY <2>1, <2>2, <2>4, <2>5
<1>4. Subsegment(g, i, j) = Part(g, i + 1, j + 1)
  BY <1>2, <1>3 DEF Part
<1>5. i + 1 \in 1..Len(g.data) /\ j + 1 \in (i + 1)..Len(g.data)
  BY <1>1
<1> QED
  BY <1>4, <1>5

\* The parts that subseries joins, from index k1 of segment i1 to k2 of i2.
Parts(segs, i1, k1, i2, k2) ==
    IF i1 = i2 THEN <<Subsegment(segs[i1], k1, k2)>>
    ELSE <<Subsegment(segs[i1], k1, Len(segs[i1].data) - 1)>>
         \o SubSeq(segs, i1 + 1, i2 - 1)
         \o <<Subsegment(segs[i2], 0, k2)>>

\* x is the sample at place (i, k) of segs, with k from 1; it is not before index
\* k1 of segment i1, or not behind k2 of i2, and those count from 0.
SampleAt(segs, x, i, k) ==
    i \in 1..Len(segs) /\ k \in 1..Len(segs[i].data) /\ x = segs[i].data[k]
NotBefore(i, k, i1, k1) == i > i1 \/ (i = i1 /\ k >= k1 + 1)
NotBehind(i, k, i2, k2) == i < i2 \/ (i = i2 /\ k <= k2 + 1)

\* Between two places of one segment there are samples of that segment.
LEMMA PartsSame ==
    ASSUME NEW segs \in Seq(Good), NEW i1 \in 1..Len(segs),
           NEW k1 \in 0..(Len(segs[i1].data) - 1), NEW k2 \in 0..(Len(segs[i1].data) - 1),
           k1 <= k2
    PROVE  LET parts == Parts(segs, i1, k1, i1, k2)
           IN  /\ parts \in Seq(Good)
               /\ Distinct(segs) => Distinct(parts)
               /\ \A x \in All(parts) : \E i, k \in Int :
                     /\ SampleAt(segs, x, i, k)
                     /\ NotBefore(i, k, i1, k1) /\ NotBehind(i, k, i1, k2)
<1>1. PICK g \in Good : g = segs[i1]
  BY Places1
<1>2. PICK n \in Nat : n = Len(g.data) /\ k1 \in 0..(n - 1) /\ k2 \in k1..(n - 1)
  BY <1>1, GoodFields
<1>3. PICK parts : parts = Parts(segs, i1, k1, i1, k2)
  OBVIOUS
<1>4. PICK a \in 1..n, b \in 1..n : a = k1 + 1 /\ b = k2 + 1 /\ b \in a..n
  <2>1. k1 + 1 \in 1..n /\ k2 + 1 \in 1..n /\ k2 + 1 \in (k1 + 1)..n
    BY <1>2
  <2> QED
    BY <2>1
<1>5. parts = <<Part(g, a, b)>>
  BY <1>1, <1>2, <1>3, <1>4, SubsegmentIs DEF Parts
<1>6. PICK p \in Good : p = Part(g, a, b)
  BY <1>2, <1>4, PartIs
<1>7. /\ parts \in Seq(Good) /\ All(parts) = Data(p)
      /\ Single(p) => Distinct(parts)
  BY <1>5, <1>6, One
<1>8. Data(p) = {g.data[k] : k \in a..b} /\ (Single(g) => Single(p))
  BY <1>2, <1>4, <1>6, PartData
<1>9. Distinct(segs) => Distinct(parts)
  BY <1>1, <1>7, <1>8 DEF Distinct
<1>10. ASSUME NEW x \in All(parts)
       PROVE  \E i, k \in Int : /\ SampleAt(segs, x, i, k)
                                /\ NotBefore(i, k, i1, k1) /\ NotBehind(i, k, i1, k2)
  <2>1. PICK k \in a..b : x = g.data[k]
    BY <1>7, <1>8
  <2>2. k \in 1..n /\ k \in Int /\ i1 \in Int /\ k >= k1 + 1 /\ k <= k2 + 1
    BY <1>4
  <2>3. SampleAt(segs, x, i1, k)
    BY <1>1, <1>2, <2>1, <2>2 DEF SampleAt
  <2>4. NotBefore(i1, k, i1, k1) /\ NotBehind(i1, k, i1, k2)
    BY <2>2 DEF NotBefore, NotBehind
  <2> QED
    BY <2>2, <2>3, <2>4
<1> QED
  BY <1>3, <1>7, <1>9, <1>10

\* Between places of two segments there are samples of these and of those between.
LEMMA PartsSeveral ==
    ASSUME NEW segs \in Seq(Good), NEW i1 \in 1..Len(segs), NEW i2 \in 1..Len(segs), i1 # i2,
           NEW k1 \in 0..(Len(segs[i1].data) - 1), NEW k2 \in 0..(Len(segs[i2].data) - 1)
    PROVE  LET parts == Parts(segs, i1, k1, i2, k2)
           IN  /\ parts \in Seq(Good)
               /\ Distinct(segs) => Distinct(parts)
               /\ \A x \in All(parts) : \E i, k \in Int :
                     /\ SampleAt(segs, x, i, k)
                     /\ i1 < i2 => NotBefore(i, k, i1, k1) /\ NotBehind(i, k, i2, k2)
<1>1. PICK g \in Good, h \in Good, n \in Nat : g = segs[i1] /\ h = segs[i2] /\ n = Len(segs)
  BY Places1
<1>2. PICK l1 \in Nat, l2 \in Nat :
          /\ l1 = Len(g.data) /\ k1 \in 0..(l1 - 1)
          /\ l2 = Len(h.data) /\ k2 \in 0..(l2 - 1)
  BY <1>1, GoodFields
<1>3. PICK parts : parts = Parts(segs, i1, k1, i2, k2)
  OBVIOUS
<1>4. PICK a \in 1..l1, b \in 1..l2 : a = k1 + 1 /\ b = k2 + 1
  <2>1. k1 + 1 \in 1..l1 /\ k2 + 1 \in 1..l2
    BY <1>2
  <2> QED
    BY <2>1
<1>5. /\ 1 \in 1..l2 /\ b \in 1..l2 /\ a \in 1..l1 /\ l1 \in a..l1
      /\ l1 - 1 \in k1..(l1 - 1) /\ 0 \in 0..(l2 - 1) /\ k2 \in 0..(l2 - 1) /\ (l1 - 1) + 1 = l1
      /\ 0 + 1 = 1
  BY <1>2, <1>4
<1>6. PICK p \in Good : p = Part(g, a, l1) /\ Subsegment(g, k1, l1 - 1) = p
  <2>1. Part(g, a, l1) \in Good
    BY <1>2, <1>5, PartIs
  <2>2. Subsegment(g, k1, l1 - 1) = Part(g, k1 + 1, (l1 - 1) + 1)
    BY <1>2, <1>5, SubsegmentIs
  <2> QED
    BY <1>4, <1>5, <2>1, <2>2
<1>7. PICK q \in Good : q = Part(h, 1, b) /\ Subsegment(h, 0, k2) = q
  <2>1. Part(h, 1, b) \in Good
    BY <1>2, <1>5, PartIs
  <2>2. Subsegment(h, 0, k2) = Part(h, 0 + 1, k2 + 1)
    BY <1>2, <1>5, SubsegmentIs
  <2> QED
    BY <1>4, <1>5, <2>1, <2>2
<1>8. PICK mid : mid = SubSeq(segs, i1 + 1, i2 - 1)
  OBVIOUS
<1>9. /\ mid \in Seq(Good)
      /\ All(mid) \subseteq UNION {Data(segs[i]) : i \in (i1 + 1)..(i2 - 1)}
      /\ Distinct(segs) => Distinct(mid)
  <2>1. i1 + 1 \in Int /\ i2 - 1 \in Int /\ i1 + 1 >= 1 /\ i2 - 1 <= Len(segs)
    BY <1>1
  <2> QED
    BY <1>8, <2>1, Sub
<1>10. /\ Data(p) = {g.data[k] : k \in a..l1} /\ Data(p) \subseteq Data(g)
       /\ Single(g) => Single(p)
  <2>1. a \in 1..Len(g.data) /\ l1 \in a..Len(g.data)
    BY <1>2, <1>5
  <2>2. /\ Data(Part(g, a, l1)) = {g.data[k] : k \in a..l1}
        /\ Data(Part(g, a, l1)) \subseteq Data(g)
        /\ Single(g) => Single(Part(g, a, l1))
    BY <2>1, PartData
  <2> QED
    BY <1>6, <2>2
<1>11. /\ Data(q) = {h.data[k] : k \in 1..b} /\ Data(q) \subseteq Data(h)
       /\ Single(h) => Single(q)
  <2>1. 1 \in 1..Len(h.data) /\ b \in 1..Len(h.data)
    BY <1>2, <1>5
  <2>2. /\ Data(Part(h, 1, b)) = {h.data[k] : k \in 1..b}
        /\ Data(Part(h, 1, b)) \subseteq Data(h)
        /\ Single(h) => Single(Part(h, 1, b))
    BY <2>1, PartData
  <2> QED
    BY <1>7, <2>2
<1>12. PICK sp \in Seq(Good), sq \in Seq(Good) :
           /\ sp = <<p>> /\ All(sp) = Data(p) /\ (Single(p) => Distinct(sp))
           /\ sq = <<q>> /\ All(sq) = Data(q) /\ (Single(q) => Distinct(sq))
  BY One
<1>13. PICK pm : pm = sp \o mid
  OBVIOUS
<1>14. parts = pm \o sq
  BY <1>1, <1>2, <1>3, <1>6, <1>7, <1>8, <1>12, <1>13 DEF Parts
<1>15. pm \in Seq(Good) /\ All(pm) = All(sp) \cup All(mid)
  BY <1>9, <1>12, <1>13, Cat, CatAll
<1>16. parts \in Seq(Good) /\ All(parts) = All(pm) \cup All(sq)
  BY <1>12, <1>14, <1>15, Cat, CatAll
<1>17. ASSUME Distinct(segs) PROVE Distinct(parts)
  <2>1. Single(g) /\ Single(h)
    BY <1>1, <1>17 DEF Distinct
  <2>2. Data(g) \cap Data(h) = {}
    BY <1>1, <1>17 DEF Distinct
  <2>3. \A i \in (i1 + 1)..(i2 - 1) : i \in 1..n /\ i # i1 /\ i # i2
    BY <1>1
  <2>4. \A i \in (i1 + 1)..(i2 - 1) : Data(segs[i]) \cap Data(g) = {} /\ Data(segs[i]) \cap Data(h) = {}
    BY <1>1, <1>17, <2>3 DEF Distinct
  <2>5. ASSUME NEW x \in All(mid) PROVE x \notin Data(g) /\ x \notin Data(h)
    <3>1. PICK i \in (i1 + 1)..(i2 - 1) : x \in Data(segs[i])
      BY <1>9
    <3> QED
      BY <2>4, <3>1
  <2>6. All(sp) \cap All(mid) = {}
    BY <1>10, <1>12, <2>5
  <2>7. Distinct(pm)
    BY <1>9, <1>10, <1>12, <1>13, <1>17, <2>1, <2>6, CatDistinct
  <2>8. All(pm) \cap All(sq) = {}
    BY <1>10, <1>11, <1>12, <1>15, <2>2, <2>5
  <2>9. Distinct(sq)
    BY <1>11, <1>12, <2>1
  <2> QED
    BY <1>14, <1>15, <2>7, <2>8, <2>9, CatDistinct
<1>18. ASSUME NEW x \in All(parts)
       PROVE  \E i, k \in Int :
                 /\ SampleAt(segs, x, i, k)
                 /\ i1 < i2 => NotBefore(i, k, i1, k1) /\ NotBehind(i, k, i2, k2)
  <2>1. x \in Data(p) \/ x \in All(mid) \/ x \in Data(q)
    BY <1>12, <1>15, <1>16
  <2>2. CASE x \in Data(p)
    <3>1. PICK k \in a..l1 : x = g.data[k]
      BY <1>10, <2>2
    <3>2. k \in 1..l1 /\ k \in Int /\ i1 \in Int /\ k >= k1 + 1
      BY <1>4
    <3>3. SampleAt(segs, x, i1, k)
      BY <1>1, <1>2, <3>1, <3>2 DEF SampleAt
    <3>4. i1 < i2 => NotBefore(i1, k, i1, k1) /\ NotBehind(i1, k, i2, k2)
      BY <3>2 DEF NotBefore, NotBehind
    <3> QED
      BY <3>2, <3>3, <3>4
  <2>3. CASE x \in Data(q)
    <3>1. PICK k \in 1..b : x = h.data[k]
      BY <1>11, <2>3
    <3>2. k \in 1..l2 /\ k \in Int /\ i2 \in Int /\ k <= k2 + 1
      BY <1>4
    <3>3. SampleAt(segs, x, i2, k)
      BY <1>1, <1>2, <3>1, <3>2 DEF SampleAt
    <3>4. i1 < i2 => NotBefore(i2, k, i1, k1) /\ NotBehind(i2, k, i2, k2)
      BY <1>1, <3>2 DEF NotBefore, NotBehind
    <3> QED
      BY <3>2, <3>3, <3>4
  <2>4. CASE x \in All(mid)
    <3>1. PICK i \in (i1 + 1)..(i2 - 1) : x \in Data(segs[i])
      BY <1>9, <2>4
    <3>2. i \in 1..Len(segs) /\ i \in Int /\ i > i1 /\ i < i2
      BY <1>1
    <3>3. PICK k \in 1..Len(segs[i].data) : x = segs[i].data[k]
      BY <3>1 DEF Data
    <3>4. k \in Int
      OBVIOUS
    <3>5. SampleAt(segs, x, i, k)
      BY <3>2, <3>3 DEF SampleAt
    <3>6. NotBefore(i, k, i1, k1) /\ NotBehind(i, k, i2, k2)
      BY <3>2 DEF NotBefore, NotBehind
    <3> QED
      BY <3>2, <3>4, <3>5, <3>6
  <2> QED
    BY <2>1, <2>2, <2>3, <2>4
<1> QED
  BY <1>3, <1>16, <1>17, <1>18

\* What subseries does, with the places that the bounds are.
LEMMA SubseriesCases ==
    ASSUME NEW segs \in Seq(Good), segs # <<>>, NEW t1 \in Int, NEW t2 \in Int,
           NEW i1, NEW k1, NEW i2, NEW k2,
           UpperBound(segs, t1) = <<i1, k1>>, LowerBound(segs, t2) = <<i2, k2>>
    PROVE  Subseries(segs, t1, t2) =
               IF Outside(segs, t1, t2) THEN <<>>
               ELSE IF Whole(segs, t1, t2) THEN Join(<<>>, segs)
               ELSE IF i1 = i2 /\ k1 > k2 THEN <<>>
               ELSE Join(<<>>, Parts(segs, i1, k1, i2, k2))
<1>1. <<i1, k1>>[1] = i1 /\ <<i1, k1>>[2] = k1 /\ <<i2, k2>>[1] = i2 /\ <<i2, k2>>[2] = k2
  OBVIOUS
<1> QED
  BY <1>1 DEF Subseries, Parts

\* Samples of a window come from one place each, and from places between its bounds.
LEMMA SubseriesIs ==
    ASSUME NEW segs \in Seq(Good), NEW t1 \in Int, NEW t2 \in Int
    PROVE  /\ Subseries(segs, t1, t2) \in Seq(Good) /\ InOrder(Subseries(segs, t1, t2))
           /\ All(Subseries(segs, t1, t2)) \subseteq All(segs)
           /\ Distinct(segs) => Distinct(Subseries(segs, t1, t2))
<1>1. CASE segs = <<>>
  <2>1. Subseries(segs, t1, t2) = <<>>
    BY <1>1 DEF Subseries
  <2> QED
    BY <2>1, None
<1>2. CASE segs # <<>>
  <2>1. PICK i1 \in 1..Len(segs), k1 \in Int :
            UpperBound(segs, t1) = <<i1, k1>> /\ k1 \in 0..(Len(segs[i1].data) - 1)
    <3>1. \E i \in 1..Len(segs) : \E k \in 0..(Len(segs[i].data) - 1) : UpperBound(segs, t1) = <<i, k>>
      BY <1>2, UpperIs
    <3> QED
      BY <3>1
  <2>2. PICK i2 \in 1..Len(segs), k2 \in Int :
            LowerBound(segs, t2) = <<i2, k2>> /\ k2 \in 0..(Len(segs[i2].data) - 1)
    <3>1. \E i \in 1..Len(segs) : \E k \in 0..(Len(segs[i].data) - 1) : LowerBound(segs, t2) = <<i, k>>
      BY <1>2, LowerIs
    <3> QED
      BY <3>1
  <2>3. PICK sub : sub = Subseries(segs, t1, t2)
    OBVIOUS
  <2>4. \/ sub = <<>>
        \/ sub = Join(<<>>, segs)
        \/ sub = Join(<<>>, Parts(segs, i1, k1, i2, k2)) /\ ~(i1 = i2 /\ k1 > k2)
    BY <1>2, <2>1, <2>2, <2>3, SubseriesCases
  <2>5. <<>> \in Seq(Good) /\ InOrder(<<>>) /\ Distinct(<<>>) /\ All(<<>>) = {}
    BY None
  <2>6. CASE sub = <<>>
    BY <2>3, <2>5, <2>6
  <2>7. ASSUME NEW from \in Seq(Good), sub = Join(<<>>, from), All(from) \subseteq All(segs),
               Distinct(segs) => Distinct(from)
        PROVE  /\ sub \in Seq(Good) /\ InOrder(sub) /\ All(sub) \subseteq All(segs)
               /\ Distinct(segs) => Distinct(sub)
    <3>1. /\ Join(<<>>, from) \in Seq(Good) /\ InOrder(Join(<<>>, from))
          /\ All(Join(<<>>, from)) \subseteq All(<<>>) \cup All(from)
          /\ (Distinct(<<>>) /\ Distinct(from) /\ All(<<>>) \cap All(from) = {})
             => Distinct(Join(<<>>, from))
      BY <2>5, JoinIs
    <3> QED
      BY <2>5, <2>7, <3>1
  <2>8. CASE sub = Join(<<>>, segs)
    BY <2>3, <2>7, <2>8
  <2>9. CASE sub = Join(<<>>, Parts(segs, i1, k1, i2, k2)) /\ ~(i1 = i2 /\ k1 > k2)
    <3>1. PICK parts : parts = Parts(segs, i1, k1, i2, k2)
      OBVIOUS
    <3>2. /\ parts \in Seq(Good)
          /\ Distinct(segs) => Distinct(parts)
          /\ \A x \in All(parts) : \E i, k \in Int : SampleAt(segs, x, i, k)
      <4>1. CASE i1 = i2
        <5>1. k1 \in 0..(Len(segs[i1].data) - 1) /\ k2 \in 0..(Len(segs[i1].data) - 1) /\ k1 <= k2
          BY <2>1, <2>2, <2>9, <4>1
        <5>2. parts = Parts(segs, i1, k1, i1, k2)
          BY <3>1, <4>1
        <5> QED
          BY <5>1, <5>2, PartsSame
      <4>2. CASE i1 # i2
        <5>1. k1 \in 0..(Len(segs[i1].data) - 1) /\ k2 \in 0..(Len(segs[i2].data) - 1)
          BY <2>1, <2>2
        <5> QED
          BY <3>1, <4>2, <5>1, PartsSeveral
      <4> QED
        BY <4>1, <4>2
    <3>3. \A x, i, k : SampleAt(segs, x, i, k) => x \in All(segs)
      <4> SUFFICES ASSUME NEW x, NEW i, NEW k, SampleAt(segs, x, i, k) PROVE x \in All(segs)
        OBVIOUS
      <4>1. i \in 1..Len(segs) /\ x \in Data(segs[i])
        BY DEF SampleAt, Data
      <4> QED
        BY <4>1, InAll
    <3>4. All(parts) \subseteq All(segs)
      BY <3>2, <3>3
    <3>5. sub = Join(<<>>, parts)
      BY <2>9, <3>1
    <3> QED
      BY <2>3, <2>7, <3>2, <3>4, <3>5
  <2> QED
    BY <2>4, <2>6, <2>8, <2>9
<1> QED
  BY <1>1, <1>2

\* Segments one behind the other.
Following(segs) == \A i \in 1..(Len(segs) - 1) : End(segs[i]) <= segs[i + 1].beg

\* If each segment ends before the next one begins, then before any later one.
LEMMA FollowingAll ==
    ASSUME NEW segs \in Seq(Good), Following(segs), NEW i \in 1..Len(segs), NEW j \in 1..Len(segs), i < j
    PROVE  End(segs[i]) <= segs[j].beg
<1>1. PICK n \in Nat : n = Len(segs) /\ i \in 1..n /\ j \in 1..n /\ \A l \in 1..n : segs[l] \in Good
  BY Places1
<1>2. \A l \in 1..n : segs[l].beg \in Int /\ End(segs[l]) \in Int /\ segs[l].beg <= End(segs[l])
  BY <1>1, GoodFields, Ends
<1> DEFINE T == {m \in 0..(n - i - 1) : End(segs[i]) <= segs[i + m + 1].beg}
<1>3. n - i - 1 \in Nat /\ j - i - 1 \in 0..(n - i - 1) /\ i + (j - i - 1) + 1 = j
  BY <1>1
<1>4. 0 \in T
  <2>1. i \in 1..(n - 1) /\ i + 0 + 1 = i + 1 /\ 0 \in 0..(n - i - 1)
    BY <1>1, <1>3
  <2> QED
    BY <1>1, <2>1 DEF Following
<1>5. ASSUME NEW m \in 0..(n - i - 1), m \in T, m < n - i - 1 PROVE m + 1 \in T
  <2>1. PICK k \in 1..(n - 1) : k = i + m + 1 /\ k \in 1..n /\ k + 1 \in 1..n
    <3>1. i + m + 1 \in 1..(n - 1) /\ i + m + 1 \in 1..n /\ (i + m + 1) + 1 \in 1..n
      BY <1>1, <1>5
    <3> QED
      BY <3>1
  <2>2. End(segs[k]) <= segs[k + 1].beg
    BY <1>1, <2>1 DEF Following
  <2>3. End(segs[i]) <= segs[k].beg
    BY <1>5, <2>1
  <2>4. End(segs[i]) <= segs[k + 1].beg
    BY <1>1, <1>2, <2>1, <2>2, <2>3
  <2>5. k + 1 = i + (m + 1) + 1 /\ m + 1 \in 0..(n - i - 1)
    BY <1>1, <1>5, <2>1
  <2> QED
    BY <2>4, <2>5
<1>6. \A m \in 0..(n - i - 1) : m \in T
  <2>1. \A m \in 0..(n - i - 1) : m \in T /\ m < n - i - 1 => m + 1 \in T
    BY <1>5
  <2> HIDE DEF T
  <2>2. PICK top \in Nat : top = n - i - 1
    BY <1>3
  <2>3. \A m \in 0..top : m \in T /\ m < top => m + 1 \in T
    BY <2>1, <2>2
  <2>4. \A m \in 0..top : m \in T
    BY <1>4, <2>3, UpTo
  <2> QED
    BY <2>2, <2>4
<1>7. j - i - 1 \in T
  BY <1>3, <1>6
<1> QED
  BY <1>3, <1>7

\* Is (i, k) the place of a sample, with indices counted from 0, and its time.
IsPlace(segs, i, k)   == i \in 1..Len(segs) /\ k \in 0..(Len(segs[i].data) - 1)
PlaceTime(segs, i, k) == segs[i].beg + k * segs[i].del
Sooner(segs, i, k, j, l) == PlaceTime(segs, i, k) < PlaceTime(segs, j, l)

\* The numbers of a place: the beginning of its segment, its interval, its length,
\* and the distance from the beginning.
Numbers(segs, i, k, b, d, n, x) ==
    /\ segs[i] \in Good /\ segs[i].beg = b /\ segs[i].del = d /\ Len(segs[i].data) = n
    /\ k \in 0..(n - 1) /\ x = k * d /\ x >= 0 /\ PlaceTime(segs, i, k) = b + x

\* Every place has such numbers.
LEMMA PlaceNumbers ==
    ASSUME NEW segs \in Seq(Good), NEW i \in Int, NEW k \in Int, IsPlace(segs, i, k)
    PROVE  \E b \in Int, d \in Nat, n \in Nat \ {0}, x \in Int : Numbers(segs, i, k, b, d, n, x)
<1>1. PICK g \in Good : g = segs[i]
  BY Places1 DEF IsPlace
<1>2. PICK b \in Int, d \in Nat, n \in Nat \ {0} : b = g.beg /\ d = g.del /\ n = Len(g.data)
  BY GoodFields
<1>3. PICK m \in Nat : m = k /\ m \in 0..(n - 1)
  <2>1. k \in 0..(n - 1)
    BY <1>1, <1>2 DEF IsPlace
  <2> QED
    BY <1>2, <2>1
<1>4. PICK x \in Nat : x = m * d
  BY <1>2, <1>3, Times
<1>5. PlaceTime(segs, i, k) = b + x
  BY <1>1, <1>2, <1>3, <1>4 DEF PlaceTime
<1>6. x \in Int /\ x >= 0 /\ k \in 0..(n - 1) /\ x = k * d
  BY <1>3, <1>4
<1> QED
  BY <1>1, <1>2, <1>5, <1>6 DEF Numbers

\* With segments one behind the other, no place up to (i2, k2) is from (i1, k1) on
\* if the time of the second one is behind that of the first one.
LEMMA PlacesApart ==
    ASSUME NEW segs \in Seq(Good), Following(segs),
           NEW i1 \in Int, NEW k1 \in Int, NEW i2 \in Int, NEW k2 \in Int,
           IsPlace(segs, i1, k1), IsPlace(segs, i2, k2),
           Sooner(segs, i2, k2, i1, k1),
           NEW i \in Int, NEW k \in Int
    PROVE  ~(NotBefore(i, k, i1, k1) /\ NotBehind(i, k, i2, k2))
<1> SUFFICES ASSUME NotBefore(i, k, i1, k1), NotBehind(i, k, i2, k2) PROVE FALSE
  OBVIOUS
<1>10. PICK b1 \in Int, d1 \in Nat, n1 \in Nat \ {0}, x \in Int :
          Numbers(segs, i1, k1, b1, d1, n1, x)
  BY PlaceNumbers
<1>1. /\ segs[i1] \in Good /\ segs[i1].beg = b1 /\ segs[i1].del = d1 /\ Len(segs[i1].data) = n1
      /\ k1 \in 0..(n1 - 1) /\ x = k1 * d1 /\ x >= 0 /\ PlaceTime(segs, i1, k1) = b1 + x
  BY <1>10 DEF Numbers
<1>20. PICK b2 \in Int, d2 \in Nat, n2 \in Nat \ {0}, y \in Int :
          Numbers(segs, i2, k2, b2, d2, n2, y)
  BY PlaceNumbers
<1>2. /\ segs[i2] \in Good /\ segs[i2].beg = b2 /\ segs[i2].del = d2 /\ Len(segs[i2].data) = n2
      /\ k2 \in 0..(n2 - 1) /\ y = k2 * d2 /\ y >= 0 /\ PlaceTime(segs, i2, k2) = b2 + y
  BY <1>20 DEF Numbers
<1>3. b2 + y < b1 + x
  BY <1>1, <1>2 DEF Sooner
<1>4. CASE i1 < i2
  <2>1. End(segs[i1]) <= b2
    <3>1. i1 \in 1..Len(segs) /\ i2 \in 1..Len(segs)
      BY DEF IsPlace
    <3> QED
      BY <1>2, <1>4, <3>1, FollowingAll
  <2>2. k1 \in Int /\ n1 - 1 \in Int /\ k1 <= n1 - 1
    BY <1>1
  <2>3. k1 * d1 <= (n1 - 1) * d1 /\ (n1 - 1) * d1 \in Int
    BY <2>2, Monotone
  <2>4. PICK z \in Int : z = (n1 - 1) * d1
    BY <2>3
  <2>5. End(segs[i1]) = b1 + z
    BY <1>1, <2>4 DEF End, Time
  <2>6. x <= z
    BY <1>1, <2>3, <2>4
  <2>7. b1 + z <= b2 /\ y >= 0
    BY <1>2, <2>1, <2>5
  <2> QED
    BY <1>3, <2>6, <2>7
<1>5. CASE i1 = i2
  <2>1. d1 = d2 /\ b1 = b2
    BY <1>1, <1>2, <1>5
  <2>2. k1 <= k2
    BY <1>5 DEF NotBefore, NotBehind
  <2>3. k1 * d1 <= k2 * d1
    BY <2>2, Monotone
  <2>4. x <= y
    BY <1>1, <1>2, <2>1, <2>3
  <2> QED
    BY <1>3, <2>1, <2>4
<1>6. CASE i1 > i2
  BY <1>6 DEF NotBefore, NotBehind
<1> QED
  BY <1>4, <1>5, <1>6

\* What the place of a bound is, with the time it was computed from.
UpperPlace(segs, t, i, k) ==
    /\ UpperBound(segs, t) = <<i, k>> /\ IsPlace(segs, i, k)
    /\ t = TBeg(segs) => i = 1 /\ k = 0
    /\ (Tol(segs) < 100 /\ TBeg(segs) < t /\ t <= TEnd(segs)) => t <= PlaceTime(segs, i, k)
LowerPlace(segs, t, i, k) ==
    /\ LowerBound(segs, t) = <<i, k>> /\ IsPlace(segs, i, k)
    /\ t = TEnd(segs) => i = Len(segs) /\ k = Len(segs[i].data) - 1
    /\ (Tol(segs) < 100 /\ TBeg(segs) <= t) => PlaceTime(segs, i, k) <= t

\* The bounds are places at the right side of the times.
LEMMA UpperAt ==
    ASSUME NEW segs \in Seq(Good), segs # <<>>, NEW t \in Int
    PROVE  \E i \in Int, k \in Int : UpperPlace(segs, t, i, k)
<1>1. PICK i \in 1..Len(segs) : \E k \in 0..(Len(segs[i].data) - 1) :
              /\ UpperBound(segs, t) = <<i, k>>
              /\ 100 * t - Tol(segs) <= 100 * TBeg(segs) => i = 1 /\ k = 0
              /\ (Tol(segs) < 100 /\ TBeg(segs) < t /\ t <= TEnd(segs))
                 => t <= segs[i].beg + k * segs[i].del
  BY UpperIs
<1>4. PICK k \in 0..(Len(segs[i].data) - 1) :
              /\ UpperBound(segs, t) = <<i, k>>
              /\ 100 * t - Tol(segs) <= 100 * TBeg(segs) => i = 1 /\ k = 0
              /\ (Tol(segs) < 100 /\ TBeg(segs) < t /\ t <= TEnd(segs))
                 => t <= segs[i].beg + k * segs[i].del
  BY <1>1
<1>2. i \in Int /\ k \in Int /\ IsPlace(segs, i, k)
  BY Places1, GoodFields DEF IsPlace
<1>3. t = TBeg(segs) => 100 * t - Tol(segs) <= 100 * TBeg(segs)
  BY Segments
<1>5. UpperPlace(segs, t, i, k)
  BY <1>2, <1>3, <1>4 DEF UpperPlace, PlaceTime
<1> QED
  BY <1>2, <1>5

\* The same of the lower bound.
LEMMA LowerAt ==
    ASSUME NEW segs \in Seq(Good), segs # <<>>, NEW t \in Int
    PROVE  \E i \in Int, k \in Int : LowerPlace(segs, t, i, k)
<1>1. PICK i \in 1..Len(segs) : \E k \in 0..(Len(segs[i].data) - 1) :
              /\ LowerBound(segs, t) = <<i, k>>
              /\ 100 * t + Tol(segs) >= 100 * TEnd(segs)
                    => i = Len(segs) /\ k = Len(segs[i].data) - 1
              /\ (Tol(segs) < 100 /\ TBeg(segs) <= t)
                 => segs[i].beg + k * segs[i].del <= t
  BY LowerIs
<1>4. PICK k \in 0..(Len(segs[i].data) - 1) :
              /\ LowerBound(segs, t) = <<i, k>>
              /\ 100 * t + Tol(segs) >= 100 * TEnd(segs)
                    => i = Len(segs) /\ k = Len(segs[i].data) - 1
              /\ (Tol(segs) < 100 /\ TBeg(segs) <= t)
                 => segs[i].beg + k * segs[i].del <= t
  BY <1>1
<1>2. i \in Int /\ k \in Int /\ IsPlace(segs, i, k)
  BY Places1, GoodFields DEF IsPlace
<1>3. t = TEnd(segs) => 100 * t + Tol(segs) >= 100 * TEnd(segs)
  BY Segments
<1>5. LowerPlace(segs, t, i, k)
  BY <1>2, <1>3, <1>4 DEF LowerPlace, PlaceTime
<1> QED
  BY <1>2, <1>5

\* The samples of what is between two places.
LEMMA PartsBetween ==
    ASSUME NEW segs \in Seq(Good),
           NEW i1 \in Int, NEW k1 \in Int, NEW i2 \in Int, NEW k2 \in Int,
           IsPlace(segs, i1, k1), IsPlace(segs, i2, k2),
           i1 <= i2, i1 = i2 => k1 <= k2
    PROVE  /\ Parts(segs, i1, k1, i2, k2) \in Seq(Good)
           /\ \A x \in All(Parts(segs, i1, k1, i2, k2)) : \E i, k \in Int :
                 /\ SampleAt(segs, x, i, k)
                 /\ NotBefore(i, k, i1, k1) /\ NotBehind(i, k, i2, k2)
<1>1. /\ i1 \in 1..Len(segs) /\ k1 \in 0..(Len(segs[i1].data) - 1)
      /\ i2 \in 1..Len(segs) /\ k2 \in 0..(Len(segs[i2].data) - 1)
  BY DEF IsPlace
<1>2. CASE i1 = i2
  <2>1. k2 \in 0..(Len(segs[i1].data) - 1) /\ k1 <= k2
    BY <1>1, <1>2
  <2>2. /\ Parts(segs, i1, k1, i1, k2) \in Seq(Good)
        /\ \A x \in All(Parts(segs, i1, k1, i1, k2)) : \E i, k \in Int :
              /\ SampleAt(segs, x, i, k)
              /\ NotBefore(i, k, i1, k1) /\ NotBehind(i, k, i1, k2)
    BY <1>1, <2>1, PartsSame
  <2> QED
    BY <1>2, <2>2
<1>3. CASE i1 # i2
  <2>1. i1 < i2
    BY <1>3
  <2>2. /\ Parts(segs, i1, k1, i2, k2) \in Seq(Good)
        /\ \A x \in All(Parts(segs, i1, k1, i2, k2)) : \E i, k \in Int :
              /\ SampleAt(segs, x, i, k)
              /\ i1 < i2 => NotBefore(i, k, i1, k1) /\ NotBehind(i, k, i2, k2)
    BY <1>1, <1>3, PartsSeveral
  <2> QED
    BY <2>1, <2>2
<1> QED
  BY <1>2, <1>3

\* The head of a cut and its tail have no sample in common.
LEMMA HeadTailApart ==
    ASSUME NEW segs \in Seq(Good), segs # <<>>, Distinct(segs), Following(segs), Tol(segs) < 100,
           NEW t1 \in Int, NEW t2 \in Int, t1 < t2
    PROVE  All(Subseries(segs, TBeg(segs), t1)) \cap All(Subseries(segs, t2, TEnd(segs))) = {}
<1>1. PICK n \in Nat \ {0}, tb \in Int, te \in Int, tol \in Nat \ {0} :
          /\ n = Len(segs) /\ tb = TBeg(segs) /\ te = TEnd(segs) /\ tol = Tol(segs)
  BY Segments
<1>2. PICK head, tail : head = Subseries(segs, tb, t1) /\ tail = Subseries(segs, t2, te)
  OBVIOUS
<1>3. CASE head = <<>> \/ tail = <<>>
  BY <1>1, <1>2, <1>3, None
<1>4. CASE head # <<>> /\ tail # <<>>
  <2>30. PICK ih \in Int, kh \in Int : UpperPlace(segs, tb, ih, kh)
    BY <1>1, UpperAt
  <2>31. PICK i2 \in Int, k2 \in Int : LowerPlace(segs, t1, i2, k2)
    BY <1>1, LowerAt
  <2>32. PICK i1 \in Int, k1 \in Int : UpperPlace(segs, t2, i1, k1)
    BY <1>1, UpperAt
  <2>33. PICK it \in Int, kt \in Int : LowerPlace(segs, te, it, kt)
    BY <1>1, LowerAt
  <2>1. UpperBound(segs, tb) = <<ih, kh>> /\ IsPlace(segs, ih, kh) /\ ih = 1 /\ kh = 0
    BY <1>1, <2>30 DEF UpperPlace
  <2>2. /\ LowerBound(segs, t1) = <<i2, k2>> /\ IsPlace(segs, i2, k2)
        /\ tb <= t1 => PlaceTime(segs, i2, k2) <= t1
    BY <1>1, <2>31 DEF LowerPlace
  <2>3. /\ UpperBound(segs, t2) = <<i1, k1>> /\ IsPlace(segs, i1, k1)
        /\ tb < t2 /\ t2 <= te => t2 <= PlaceTime(segs, i1, k1)
    BY <1>1, <2>32 DEF UpperPlace
  <2>4. /\ LowerBound(segs, te) = <<it, kt>> /\ IsPlace(segs, it, kt)
        /\ it = n /\ kt = Len(segs[it].data) - 1
    BY <1>1, <2>33 DEF LowerPlace
  <2>5. /\ ~Outside(segs, tb, t1)
        /\ head = IF Whole(segs, tb, t1) THEN Join(<<>>, segs)
                  ELSE IF ih = i2 /\ kh > k2 THEN <<>>
                  ELSE Join(<<>>, Parts(segs, ih, kh, i2, k2))
    <3>1. UpperBound(segs, tb) = <<ih, kh>> /\ LowerBound(segs, t1) = <<i2, k2>>
      BY <2>1, <2>2
    <3>2. Subseries(segs, tb, t1) =
              IF Outside(segs, tb, t1) THEN <<>>
              ELSE IF Whole(segs, tb, t1) THEN Join(<<>>, segs)
              ELSE IF ih = i2 /\ kh > k2 THEN <<>>
              ELSE Join(<<>>, Parts(segs, ih, kh, i2, k2))
      BY <3>1, SubseriesCases
    <3> QED
      BY <1>2, <1>4, <3>2
  <2>6. /\ ~Outside(segs, t2, te)
        /\ tail = IF Whole(segs, t2, te) THEN Join(<<>>, segs)
                  ELSE IF i1 = it /\ k1 > kt THEN <<>>
                  ELSE Join(<<>>, Parts(segs, i1, k1, it, kt))
    <3>1. UpperBound(segs, t2) = <<i1, k1>> /\ LowerBound(segs, te) = <<it, kt>>
      BY <2>3, <2>4
    <3>2. Subseries(segs, t2, te) =
              IF Outside(segs, t2, te) THEN <<>>
              ELSE IF Whole(segs, t2, te) THEN Join(<<>>, segs)
              ELSE IF i1 = it /\ k1 > kt THEN <<>>
              ELSE Join(<<>>, Parts(segs, i1, k1, it, kt))
      BY <3>1, SubseriesCases
    <3> QED
      BY <1>2, <1>4, <3>2
  <2>7. ~(100 * t1 < 100 * tb + tol) /\ ~(100 * t2 > 100 * te - tol)
    <3>1. ~(100 * t1 < 100 * tb + tol)
      BY <1>1, <2>5 DEF Outside
    <3>2. ~(100 * t2 > 100 * te - tol)
      BY <1>1, <2>6 DEF Outside
    <3> QED
      BY <3>1, <3>2
  <2>8. tb < t1 /\ t2 < te /\ tb < t2 /\ ~(100 * t1 > 100 * te - tol) /\ ~(100 * t2 < 100 * tb + tol)
    BY <2>7
  <2>9. ~Whole(segs, tb, t1) /\ ~Whole(segs, t2, te)
    BY <1>1, <2>8 DEF Whole
  <2>10. Sooner(segs, i2, k2, i1, k1)
    <3>1. PICK a \in Int, b \in Int : a = PlaceTime(segs, i2, k2) /\ b = PlaceTime(segs, i1, k1)
      <4>1. PlaceTime(segs, i2, k2) \in Int
        <5>1. PICK b \in Int, d \in Nat, l \in Nat \ {0}, x \in Int : Numbers(segs, i2, k2, b, d, l, x)
          BY <2>2, PlaceNumbers
        <5> QED
          BY <5>1 DEF Numbers
      <4>2. PlaceTime(segs, i1, k1) \in Int
        <5>1. PICK b \in Int, d \in Nat, l \in Nat \ {0}, x \in Int : Numbers(segs, i1, k1, b, d, l, x)
          BY <2>3, PlaceNumbers
        <5> QED
          BY <5>1 DEF Numbers
      <4> QED
        BY <4>1, <4>2
    <3>2. a <= t1 /\ t2 <= b
      BY <2>2, <2>3, <2>8, <3>1
    <3>3. a < b
      BY <3>2
    <3> QED
      BY <3>1, <3>3 DEF Sooner
  <2>11. PICK hp, tp : hp = Parts(segs, ih, kh, i2, k2) /\ tp = Parts(segs, i1, k1, it, kt)
    OBVIOUS
  <2>12. head = Join(<<>>, hp) /\ tail = Join(<<>>, tp) /\ ~(ih = i2 /\ kh > k2) /\ ~(i1 = it /\ k1 > kt)
    BY <1>4, <2>5, <2>6, <2>9, <2>11
  <2>13. /\ hp \in Seq(Good)
         /\ \A x \in All(hp) : \E i, k \in Int : SampleAt(segs, x, i, k) /\ NotBehind(i, k, i2, k2)
    <3>1. i2 \in 1..n
      BY <1>1, <2>2 DEF IsPlace
    <3>2. ih <= i2 /\ (ih = i2 => kh <= k2)
      BY <2>1, <2>12, <3>1
    <3> QED
      BY <2>1, <2>2, <2>11, <3>2, PartsBetween
  <2>14. /\ tp \in Seq(Good)
         /\ \A x \in All(tp) : \E i, k \in Int : SampleAt(segs, x, i, k) /\ NotBefore(i, k, i1, k1)
    <3>1. i1 \in 1..n
      BY <1>1, <2>3 DEF IsPlace
    <3>2. i1 <= it /\ (i1 = it => k1 <= kt)
      BY <2>4, <2>12, <3>1
    <3> QED
      BY <2>3, <2>4, <2>11, <3>2, PartsBetween
  <2>15. All(hp) \cap All(tp) = {}
    <3> SUFFICES ASSUME NEW x \in All(hp), x \in All(tp) PROVE FALSE
      OBVIOUS
    <3>1. PICK i \in Int, k \in Int : SampleAt(segs, x, i, k) /\ NotBehind(i, k, i2, k2)
      BY <2>13
    <3>2. PICK j \in Int, l \in Int : SampleAt(segs, x, j, l) /\ NotBefore(j, l, i1, k1)
      BY <2>14
    <3>3. i = j /\ k = l
      <4>1. x \in Data(segs[i]) /\ x \in Data(segs[j]) /\ i \in 1..Len(segs) /\ j \in 1..Len(segs)
        BY <3>1, <3>2 DEF SampleAt, Data
      <4>2. i = j
        BY <4>1 DEF Distinct
      <4>3. Single(segs[i])
        BY <4>1 DEF Distinct
      <4> QED
        BY <3>1, <3>2, <4>2, <4>3 DEF SampleAt, Single
    <3>4. NotBefore(i, k, i1, k1) /\ NotBehind(i, k, i2, k2)
      BY <3>1, <3>2, <3>3
    <3> QED
      BY <2>2, <2>3, <2>10, <3>4, PlacesApart
  <2>16. All(Join(<<>>, hp)) \subseteq All(hp) /\ All(Join(<<>>, tp)) \subseteq All(tp)
    <3>1. <<>> \in Seq(Good) /\ InOrder(<<>>) /\ All(<<>>) = {}
      BY None
    <3>2. All(Join(<<>>, hp)) \subseteq All(<<>>) \cup All(hp)
      BY <2>13, <3>1, JoinIs
    <3>3. All(Join(<<>>, tp)) \subseteq All(<<>>) \cup All(tp)
      BY <2>14, <3>1, JoinIs
    <3> QED
      BY <3>1, <3>2, <3>3
  <2> QED
    BY <1>1, <1>2, <2>12, <2>15, <2>16
<1> QED
  BY <1>3, <1>4


\* join with no segments there, and the copy.
LEMMA CopyIs ==
    ASSUME NEW segs \in Seq(Good)
    PROVE  /\ Join(<<>>, segs) \in Seq(Good) /\ InOrder(Join(<<>>, segs))
           /\ All(Join(<<>>, segs)) \subseteq All(segs)
           /\ Distinct(segs) => Distinct(Join(<<>>, segs))
<1>1. <<>> \in Seq(Good) /\ InOrder(<<>>) /\ All(<<>>) = {} /\ Distinct(<<>>)
  BY None
<1>2. /\ Join(<<>>, segs) \in Seq(Good) /\ InOrder(Join(<<>>, segs))
      /\ All(Join(<<>>, segs)) \subseteq All(<<>>) \cup All(segs)
      /\ (Distinct(<<>>) /\ Distinct(segs) /\ All(<<>>) \cap All(segs) = {})
         => Distinct(Join(<<>>, segs))
  BY <1>1, JoinIs
<1> QED
  BY <1>1, <1>2

\* truncate gives samples of what there was, each from one place.
LEMMA WindowIs ==
    ASSUME NEW segs \in Seq(Good), InOrder(segs), NEW t1 \in Int, NEW t2 \in Int
    PROVE  /\ Truncate(segs, t1, t2) \in Seq(Good) /\ InOrder(Truncate(segs, t1, t2))
           /\ All(Truncate(segs, t1, t2)) \subseteq All(segs)
           /\ Distinct(segs) => Distinct(Truncate(segs, t1, t2))
<1>1. PICK sub : sub = Subseries(segs, t1, t2)
  OBVIOUS
<1>2. /\ sub \in Seq(Good) /\ InOrder(sub) /\ All(sub) \subseteq All(segs)
      /\ Distinct(segs) => Distinct(sub)
  BY <1>1, SubseriesIs
<1>3. Truncate(segs, t1, t2) = segs \/ Truncate(segs, t1, t2) = Join(<<>>, sub)
  BY <1>1 DEF Truncate
<1>4. CASE Truncate(segs, t1, t2) = segs
  BY <1>4
<1>5. CASE Truncate(segs, t1, t2) = Join(<<>>, sub)
  BY <1>2, <1>5, CopyIs
<1> QED
  BY <1>3, <1>4, <1>5

\* CutData gives samples of what there was, and each from one place if segments
\* are one behind the other.
LEMMA CutIs ==
    ASSUME NEW segs \in Seq(Good), InOrder(segs), NEW t1 \in Int, NEW t2 \in Int, t1 < t2
    PROVE  /\ CutData(segs, t1, t2) \in Seq(Good) /\ InOrder(CutData(segs, t1, t2))
           /\ All(CutData(segs, t1, t2)) \subseteq All(segs)
           /\ (Distinct(segs) /\ Following(segs) /\ (segs # <<>> => Tol(segs) < 100))
              => Distinct(CutData(segs, t1, t2))
<1>1. PICK head, tail : /\ head = Subseries(segs, TBeg(segs), t1)
                        /\ tail = Subseries(segs, t2, TEnd(segs))
  OBVIOUS
<1>2. /\ head \in Seq(Good) /\ InOrder(head) /\ All(head) \subseteq All(segs)
      /\ tail \in Seq(Good) /\ InOrder(tail) /\ All(tail) \subseteq All(segs)
      /\ Distinct(segs) => Distinct(head) /\ Distinct(tail)
  <2>1. CASE segs = <<>>
    <3>1. head = <<>> /\ tail = <<>>
      BY <1>1, <2>1 DEF Subseries
    <3> QED
      BY <3>1, None
  <2>2. CASE segs # <<>>
    <3>1. PICK tb \in Int, te \in Int : tb = TBeg(segs) /\ te = TEnd(segs)
      BY <2>2, Segments
    <3>2. head = Subseries(segs, tb, t1) /\ tail = Subseries(segs, t2, te)
      BY <1>1, <3>1
    <3> QED
      BY <3>2, SubseriesIs
  <2> QED
    BY <2>1, <2>2
<1>3. ASSUME Distinct(segs), Following(segs), segs # <<>> => Tol(segs) < 100
      PROVE  All(head) \cap All(tail) = {}
  <2>1. CASE segs = <<>>
    <3>1. head = <<>>
      BY <1>1, <2>1 DEF Subseries
    <3> QED
      BY <3>1, None
  <2>2. CASE segs # <<>>
    BY <1>1, <1>3, <2>2, HeadTailApart
  <2> QED
    BY <2>1, <2>2
<1>4. CutData(segs, t1, t2) = IF head = <<>> THEN tail ELSE Join(head, tail)
  BY <1>1 DEF CutData
<1>5. CASE head = <<>>
  BY <1>2, <1>4, <1>5
<1>6. CASE head # <<>>
  <2>1. CutData(segs, t1, t2) = Join(head, tail)
    BY <1>4, <1>6
  <2>2. /\ Join(head, tail) \in Seq(Good) /\ InOrder(Join(head, tail))
        /\ All(Join(head, tail)) \subseteq All(head) \cup All(tail)
        /\ (Distinct(head) /\ Distinct(tail) /\ All(head) \cap All(tail) = {})
           => Distinct(Join(head, tail))
    BY <1>2, JoinIs
  <2>3. All(Join(head, tail)) \subseteq All(segs)
    BY <1>2, <2>2
  <2>4. ASSUME Distinct(segs), Following(segs), segs # <<>> => Tol(segs) < 100
        PROVE  Distinct(Join(head, tail))
    BY <1>2, <1>3, <2>2, <2>4
  <2> QED
    BY <2>1, <2>2, <2>3, <2>4
<1> QED
  BY <1>5, <1>6

-----------------------------------------------------------------------------
(* The samples of a piece, and Once *)

\* Equal products of one factor have equal other factors.
LEMMA Proportional ==
    ASSUME NEW i \in Nat, NEW j \in Nat, NEW d \in Nat \ {0}, i * d = j * d PROVE i = j
<1>1. ASSUME NEW x \in Nat, NEW y \in Nat, x < y PROVE x * d # y * d
  <2>1. x + 1 <= y
    BY <1>1
  <2>2. (x + 1) * d <= y * d
    BY <2>1, Monotone
  <2>3. (x + 1) * d = x * d + d
    OBVIOUS
  <2>4. PICK u \in Nat, v \in Nat : u = x * d /\ v = y * d
    BY Times
  <2>5. u + d <= v
    BY <2>2, <2>3, <2>4
  <2> QED
    BY <2>4, <2>5
<1> QED
  BY <1>1

\* A piece that is read has samples of its own, each of them once.
LEMMA SegIs ==
    ASSUME NEW beg \in Starts, NEW n \in Lengths, NEW p \in 1..MaxPieces
    PROVE  /\ Seg(beg, n, p) \in Good /\ Single(Seg(beg, n, p))
           /\ \A x \in Data(Seg(beg, n, p)) : x.piece = p
<1>1. beg \in Int /\ n \in Nat \ {0} /\ Interval \in Nat \ {0}
  BY TimesAssumption, LengthsAssumption, IntervalAssumption
<1>2. PICK data : data = [k \in 1..n |-> [piece |-> p, time |-> beg + (k - 1) * Interval]]
  OBVIOUS
<1>3. \A k \in 1..n : /\ data[k] \in Sample
                      /\ data[k].piece = p /\ data[k].time = beg + (k - 1) * Interval
  <2> SUFFICES ASSUME NEW k \in 1..n
               PROVE  /\ data[k] \in Sample
                      /\ data[k].piece = p /\ data[k].time = beg + (k - 1) * Interval
    OBVIOUS
  <2>1. data[k] = [piece |-> p, time |-> beg + (k - 1) * Interval]
    BY <1>2
  <2>2. beg + (k - 1) * Interval \in Int
    BY <1>1
  <2>3. PICK t \in Int : t = beg + (k - 1) * Interval
    BY <2>2
  <2>4. data[k] = [piece |-> p, time |-> t]
    BY <2>1, <2>3
  <2> QED
    BY <2>3, <2>4 DEF Sample
<1>4. data \in Seq(Sample) /\ Len(data) = n
  <2>1. data \in [1..n -> Sample]
    BY <1>2, <1>3
  <2> QED
    BY <1>1, <2>1
<1>5. Seg(beg, n, p) = [beg |-> beg, del |-> Interval, data |-> data]
  BY <1>2 DEF Seg
<1>6. PICK g : g = [beg |-> beg, del |-> Interval, data |-> data]
  OBVIOUS
<1>7. g \in Good /\ g.data = data
  BY <1>1, <1>4, <1>6, GoodMade
<1>8. Single(g)
  <2>1. ASSUME NEW k \in 1..n, NEW l \in 1..n, data[k] = data[l] PROVE k = l
    <3>1. beg + (k - 1) * Interval = beg + (l - 1) * Interval
      BY <1>3, <2>1
    <3>2. PICK i \in Nat, j \in Nat, d \in Nat \ {0} : i = k - 1 /\ j = l - 1 /\ d = Interval
      BY <1>1
    <3>3. i * d = j * d
      BY <1>1, <3>1, <3>2
    <3>4. i = j
      BY <3>2, <3>3, Proportional
    <3> QED
      BY <1>1, <3>2, <3>4
  <2> QED
    BY <1>4, <1>7, <2>1 DEF Single
<1>9. \A x \in Data(g) : x.piece = p
  BY <1>3, <1>4, <1>7 DEF Data
<1> QED
  BY <1>5, <1>6, <1>7, <1>8, <1>9

\* An image is as large as its finite domain if and only if no two members have
\* one image.
LEMMA ImageSize ==
    ASSUME NEW S, IsFiniteSet(S), NEW T, NEW f \in [S -> T], T = {f[x] : x \in S}
    PROVE  /\ IsFiniteSet(T)
           /\ Cardinality(T) = Cardinality(S) <=> \A x, y \in S : f[x] = f[y] => x = y
<1>1. f \in Surjection(S, T)
  BY DEF Surjection
<1>2. f \in Injection(S, T) <=> \A x, y \in S : f[x] = f[y] => x = y
  BY DEF Injection, IsInjective
<1> QED
  BY <1>1, <1>2, FS_Surjection

\* The places in one segment are finitely many,
LEMMA RowFinite ==
    ASSUME NEW n \in Nat, NEW i PROVE IsFiniteSet({<<i, k>> : k \in 1..n})
<1> DEFINE g == [k \in 1..n |-> <<i, k>>]
           U == {<<i, k>> : k \in 1..n}
<1>1. g \in [1..n -> U] /\ U = {g[k] : k \in 1..n}
  OBVIOUS
<1>2. IsFiniteSet(1..n)
  <2>1. 1 \in Int /\ n \in Int
    OBVIOUS
  <2> QED
    BY <2>1, FS_Interval
<1>3. PICK S, T, h : S = 1..n /\ T = U /\ h = g
  OBVIOUS
<1> HIDE DEF g, U
<1>4. IsFiniteSet(S) /\ h \in [S -> T] /\ T = {h[x] : x \in S}
  BY <1>1, <1>2, <1>3
<1>5. IsFiniteSet(T)
  BY <1>4, ImageSize
<1> QED
  BY <1>3, <1>5 DEF U

\* ... and those in all segments.
LEMMA PlacesFinite ==
    ASSUME NEW segs \in Seq(Good)
    PROVE  /\ IsFiniteSet(Places(segs))
           /\ \A p : p \in Places(segs) <=>
                 \E i \in 1..Len(segs) : \E k \in 1..Len(segs[i].data) : p = <<i, k>>
<1>1. /\ Len(segs) \in Nat /\ DOMAIN segs = 1..Len(segs)
      /\ \A i \in 1..Len(segs) : /\ DOMAIN segs[i].data = 1..Len(segs[i].data)
                                 /\ Len(segs[i].data) \in Nat
  BY Places1, GoodFields
<1> DEFINE Row(i) == {<<i, k>> : k \in 1..Len(segs[i].data)}
           f == [i \in 1..Len(segs) |-> Row(i)]
           T == {f[i] : i \in 1..Len(segs)}
<1>2. Places(segs) = UNION T
  BY <1>1 DEF Places
<1>3. \A i \in 1..Len(segs) : IsFiniteSet(Row(i))
  BY <1>1, RowFinite
<1>4. f \in [1..Len(segs) -> T]
  OBVIOUS
<1>5. IsFiniteSet(1..Len(segs))
  BY <1>1, FS_Interval
<1>6. \A R \in T : IsFiniteSet(R)
  BY <1>3
<1>7. IsFiniteSet(T)
  <2> HIDE DEF f
  <2> QED
    BY <1>4, <1>5, ImageSize
<1>8. IsFiniteSet(Places(segs))
  <2> HIDE DEF T
  <2> QED
    BY <1>2, <1>6, <1>7, FS_UNION
<1> QED
  BY <1>1, <1>8 DEF Places

\* Once says of numbers of places what Distinct says of places.
LEMMA OnceIsDistinct ==
    ASSUME NEW segs \in Seq(Good) PROVE Once(segs) <=> Distinct(segs)
<1> DEFINE f == [p \in Places(segs) |-> At(segs, p)]
<1>1. /\ IsFiniteSet(Places(segs))
      /\ \A p : p \in Places(segs) <=>
            \E i \in 1..Len(segs) : \E k \in 1..Len(segs[i].data) : p = <<i, k>>
  BY PlacesFinite
<1>2. f \in [Places(segs) -> Samples(segs)] /\ Samples(segs) = {f[p] : p \in Places(segs)}
  BY DEF Samples
<1>3. Once(segs) <=> \A p, q \in Places(segs) : f[p] = f[q] => p = q
  <2> HIDE DEF f
  <2> QED
    BY <1>1, <1>2, ImageSize DEF Once
<1>4. ASSUME \A p, q \in Places(segs) : f[p] = f[q] => p = q PROVE Distinct(segs)
  <2>1. ASSUME NEW i \in 1..Len(segs), NEW j \in 1..Len(segs),
               NEW k \in 1..Len(segs[i].data), NEW l \in 1..Len(segs[j].data),
               segs[i].data[k] = segs[j].data[l]
        PROVE  i = j /\ k = l
    <3>1. <<i, k>> \in Places(segs) /\ <<j, l>> \in Places(segs)
      BY <1>1
    <3>2. f[<<i, k>>] = segs[i].data[k] /\ f[<<j, l>>] = segs[j].data[l]
      BY <3>1 DEF At
    <3>3. <<i, k>> = <<j, l>>
      BY <1>4, <2>1, <3>1, <3>2
    <3> QED
      BY <3>3
  <2> QED
    BY <2>1 DEF Distinct, Single, Data
<1>5. ASSUME Distinct(segs) PROVE \A p, q \in Places(segs) : f[p] = f[q] => p = q
  <2> SUFFICES ASSUME NEW p \in Places(segs), NEW q \in Places(segs), f[p] = f[q] PROVE p = q
    OBVIOUS
  <2>1. PICK i \in 1..Len(segs) : \E k \in 1..Len(segs[i].data) : p = <<i, k>>
    BY <1>1
  <2>2. PICK k \in 1..Len(segs[i].data) : p = <<i, k>>
    BY <2>1
  <2>3. PICK j \in 1..Len(segs) : \E l \in 1..Len(segs[j].data) : q = <<j, l>>
    BY <1>1
  <2>4. PICK l \in 1..Len(segs[j].data) : q = <<j, l>>
    BY <2>3
  <2>5. f[p] = segs[i].data[k] /\ f[q] = segs[j].data[l]
    BY <2>2, <2>4 DEF At
  <2>6. segs[i].data[k] \in Data(segs[i]) /\ segs[i].data[k] \in Data(segs[j])
    BY <2>5 DEF Data
  <2>7. i = j
    BY <1>5, <2>6 DEF Distinct
  <2>8. k = l
    BY <1>5, <2>5, <2>7 DEF Distinct, Single
  <2> QED
    BY <2>2, <2>4, <2>7, <2>8
<1> QED
  BY <1>3, <1>4, <1>5

-----------------------------------------------------------------------------
(* The invariant *)

\* All segments are not empty and have the channel's interval, they are in the
\* order of time, and their samples are of the pieces that were read.
IInv ==
    /\ s \in Seq(Good) /\ InOrder(s)
    /\ \A x \in All(s) : x.piece <= pieces
    /\ phase \in {"reading", "shown"}
    /\ pieces \in 0..MaxPieces /\ cuts \in 0..MaxCuts /\ newFirst \in BOOLEAN

\* What a step makes of the segments, if they are ss after it.
Follows(ss, p) ==
    /\ ss \in Seq(Good) /\ InOrder(ss)
    /\ \A x \in All(ss) : x.piece <= p

\* It holds at the beginning.
LEMMA InitIInv == Init => IInv
<1>1. 0 \in 0..MaxPieces /\ 0 \in 0..MaxCuts
  BY BoundsAssumption
<1> QED
  BY <1>1, None DEF Init, IInv

\* A piece that is read has no sample of another one.
LEMMA ReadSegmentIs ==
    ASSUME IInv, NEW beg \in Starts, NEW n \in Lengths, pieces < MaxPieces
    PROVE  LET ss == AddSegment(s, Seg(beg, n, pieces + 1))
           IN  /\ Follows(ss, pieces + 1)
               /\ Distinct(s) => Distinct(ss)
<1>1. PICK p \in Nat : p = pieces + 1 /\ p \in 1..MaxPieces /\ pieces \in Int /\ pieces < p
  <2>1. pieces \in Nat /\ MaxPieces \in Nat
    BY BoundsAssumption DEF IInv
  <2> QED
    BY <2>1
<1>2. PICK new : new = Seg(beg, n, p)
  OBVIOUS
<1>3. new \in Good /\ Single(new) /\ \A x \in Data(new) : x.piece = p
  BY <1>1, <1>2, SegIs
<1>4. s \in Seq(Good) /\ \A x \in All(s) : x.piece <= pieces
  BY DEF IInv
<1>5. Data(new) \cap All(s) = {}
  <2> SUFFICES ASSUME NEW x \in Data(new), x \in All(s) PROVE FALSE
    OBVIOUS
  <2>1. p <= pieces
    BY <1>3, <1>4
  <2> QED
    BY <1>1, <2>1
<1>6. PICK ss : ss = AddSegment(s, new)
  OBVIOUS
<1>7. /\ ss \in Seq(Good) /\ InOrder(ss) /\ All(ss) \subseteq All(s) \cup Data(new)
      /\ Distinct(s) => Distinct(ss)
  BY <1>3, <1>4, <1>5, <1>6, AddSegmentIs
<1>8. ASSUME NEW x \in All(ss) PROVE x.piece <= p
  <2>1. CASE x \in Data(new)
    <3>1. x.piece = p
      BY <1>3, <2>1
    <3> QED
      BY <1>1, <3>1
  <2>2. CASE x \in All(s)
    <3>1. x \in Sample
      <4>1. PICK i \in 1..Len(s) : x \in Data(s[i])
        BY <2>2, InAll
      <4>2. s[i] \in Good
        BY <1>4, Places1
      <4> QED
        BY <4>1, <4>2, GoodFields DEF Data
    <3>2. x.piece \in Int
      BY <3>1, BoundsAssumption DEF Sample
    <3>3. x.piece <= pieces
      BY <1>4, <2>2
    <3> QED
      BY <1>1, <3>2, <3>3
  <2> QED
    BY <1>7, <2>1, <2>2
<1> QED
  BY <1>1, <1>2, <1>6, <1>7, <1>8 DEF Follows

\* What samples of s make up has no later pieces than s.
LEMMA Fewer ==
    ASSUME IInv, NEW ss, ss \in Seq(Good), InOrder(ss), All(ss) \subseteq All(s)
    PROVE  Follows(ss, pieces)
BY DEF IInv, Follows

\* What a step gives: of s, that it is as the invariant says, and that it has each
\* sample once if s has.
Keeps(ss) ==
    /\ Follows(ss, pieces')
    /\ Distinct(s) /\ (cuts' > cuts => Ordered /\ Fine) => Distinct(ss)
    /\ phase' \in {"reading", "shown"}
    /\ pieces' \in 0..MaxPieces /\ cuts' \in 0..MaxCuts /\ newFirst' \in BOOLEAN

\* Every step keeps it, and puts no sample in two places.
LEMMA StepKeeps ==
    ASSUME IInv, [Next]_vars, NEW ss, ss = s' PROVE Keeps(ss)
<1>0. /\ s \in Seq(Good) /\ InOrder(s) /\ phase \in {"reading", "shown"}
      /\ pieces \in 0..MaxPieces /\ cuts \in 0..MaxCuts /\ newFirst \in BOOLEAN
      /\ MaxPieces \in Nat /\ MaxCuts \in Nat
  BY BoundsAssumption DEF IInv
<1>1. ASSUME NEW beg \in Starts, NEW n \in Lengths, ReadSegment(beg, n) PROVE Keeps(ss)
  <2>1. /\ pieces < MaxPieces /\ ss = AddSegment(s, Seg(beg, n, pieces + 1))
        /\ pieces' = pieces + 1 /\ phase' = phase /\ cuts' = cuts /\ newFirst' = newFirst
    BY <1>1 DEF ReadSegment
  <2>2. Follows(ss, pieces + 1) /\ (Distinct(s) => Distinct(ss))
    BY <2>1, ReadSegmentIs
  <2>3. pieces + 1 \in 0..MaxPieces
    BY <1>0, <2>1
  <2> QED
    BY <1>0, <2>1, <2>2, <2>3 DEF Keeps
<1>2. ASSUME NEW t1 \in Windows, NEW t2 \in Windows, EndRead(t1, t2) PROVE Keeps(ss)
  <2>1. /\ ss = Truncate(s, t1, t2) /\ phase' = "shown"
        /\ pieces' = pieces /\ cuts' = cuts /\ newFirst' = newFirst
    BY <1>2 DEF EndRead
  <2>2. t1 \in Int /\ t2 \in Int
    BY TimesAssumption
  <2>3. /\ ss \in Seq(Good) /\ InOrder(ss) /\ All(ss) \subseteq All(s)
        /\ Distinct(s) => Distinct(ss)
    BY <1>0, <2>1, <2>2, WindowIs
  <2>4. Follows(ss, pieces)
    BY <2>3, Fewer
  <2> QED
    BY <1>0, <2>1, <2>3, <2>4 DEF Keeps
<1>3. ASSUME NEW t1 \in Windows, NEW t2 \in Windows, Cut(t1, t2) PROVE Keeps(ss)
  <2>1. /\ cuts < MaxCuts /\ t1 < t2 /\ ss = CutData(s, t1, t2) /\ cuts' = cuts + 1
        /\ phase' = phase /\ pieces' = pieces /\ newFirst' = newFirst
    BY <1>3 DEF Cut
  <2>2. t1 \in Int /\ t2 \in Int
    BY TimesAssumption
  <2>3. /\ ss \in Seq(Good) /\ InOrder(ss) /\ All(ss) \subseteq All(s)
        /\ (Distinct(s) /\ Following(s) /\ (s # <<>> => Tol(s) < 100)) => Distinct(ss)
    BY <1>0, <2>1, <2>2, CutIs
  <2>4. Follows(ss, pieces)
    BY <2>3, Fewer
  <2>5. cuts + 1 \in 0..MaxCuts /\ cuts + 1 > cuts
    BY <1>0, <2>1
  <2>6. Distinct(s) /\ (cuts' > cuts => Ordered /\ Fine) => Distinct(ss)
    BY <2>1, <2>3, <2>5 DEF Ordered, Fine, Following
  <2> QED
    BY <1>0, <2>1, <2>4, <2>5, <2>6 DEF Keeps
<1>4. CASE Copy
  <2>1. /\ ss = Join(<<>>, s)
        /\ phase' = phase /\ pieces' = pieces /\ cuts' = cuts /\ newFirst' = newFirst
    BY <1>4 DEF Copy
  <2>2. /\ ss \in Seq(Good) /\ InOrder(ss) /\ All(ss) \subseteq All(s)
        /\ Distinct(s) => Distinct(ss)
    BY <1>0, <2>1, CopyIs
  <2>3. Follows(ss, pieces)
    BY <2>2, Fewer
  <2> QED
    BY <1>0, <2>1, <2>2, <2>3 DEF Keeps
<1>5. CASE Reread
  <2>1. ss = <<>> /\ phase' = "reading" /\ pieces' = 0 /\ cuts' = 0 /\ newFirst' = newFirst
    BY <1>5 DEF Reread
  <2>2. 0 \in 0..MaxPieces /\ 0 \in 0..MaxCuts
    BY <1>0
  <2>3. Follows(ss, 0) /\ Distinct(ss)
    BY <2>1, None DEF Follows
  <2> QED
    BY <1>0, <2>1, <2>2, <2>3 DEF Keeps
<1>6. CASE UNCHANGED vars
  <2>1. /\ ss = s
        /\ phase' = phase /\ pieces' = pieces /\ cuts' = cuts /\ newFirst' = newFirst
    BY <1>6 DEF vars
  <2>2. Follows(ss, pieces)
    BY <2>1 DEF IInv, Follows
  <2> QED
    BY <1>0, <2>1, <2>2 DEF Keeps
<1>7. CASE ReadFails
  <2>1. /\ ss = s /\ phase' = "shown"
        /\ pieces' = pieces /\ cuts' = cuts /\ newFirst' = newFirst
    BY <1>7 DEF ReadFails
  <2>2. Follows(ss, pieces)
    BY <2>1 DEF IInv, Follows
  <2> QED
    BY <1>0, <2>1, <2>2 DEF Keeps
<1> QED
  BY <1>1, <1>2, <1>3, <1>4, <1>5, <1>6, <1>7 DEF Next

\* It is inductive.
LEMMA NextIInv == IInv /\ [Next]_vars => IInv'
<1> SUFFICES ASSUME IInv, [Next]_vars PROVE IInv'
  OBVIOUS
<1>1. PICK ss : ss = s'
  OBVIOUS
<1>2. Keeps(ss)
  BY <1>1, StepKeeps
<1> QED
  BY <1>1, <1>2 DEF IInv, Keeps, Follows

\* No segment is empty, and those of several samples have the channel's interval.
THEOREM TypesHold == Spec => []TypeOK
<1>1. IInv => TypeOK
  <2> SUFFICES ASSUME IInv PROVE TypeOK
    OBVIOUS
  <2>1. s \in Seq(Good)
    BY DEF IInv
  <2>2. s \in Seq(GSegment)
    <3>1. \A i \in 1..Len(s) : s[i] \in GSegment
      BY <2>1, Places1, GoodFields
    <3>2. s \in [1..Len(s) -> GSegment]
      <4>1. s \in [1..Len(s) -> Good]
        BY <2>1, LenProperties
      <4> QED
        BY <3>1, <4>1
    <3> QED
      BY <2>1, <3>2, Places1
  <2>3. \A i \in DOMAIN s : s[i].data # <<>> /\ (Len(s[i].data) > 1 => s[i].del = Interval)
    BY <2>1, Places1 DEF Good
  <2> QED
    BY <2>2, <2>3 DEF IInv, TypeOK
<1> QED
  BY InitIInv, NextIInv, <1>1, PTL DEF Spec

\* Segments stay in the order of time, and neither a piece that is read nor a
\* window, a copy or a cut puts a sample in two places (a cut of segments that
\* overlap, or of one whose tolerance is too large, is left out).
THEOREM NothingComesTwice == Spec => NothingTwice
<1> DEFINE A == /\ \A i \in 1..(Len(s') - 1) : s'[i].beg <= s'[i + 1].beg
                /\ Once(s) /\ (cuts' > cuts => Ordered /\ Fine) => Once(s')
<1>1. IInv /\ [Next]_vars => [A]_vars
  <2> SUFFICES ASSUME IInv, [Next]_vars PROVE A
    OBVIOUS
  <2>1. PICK ss : ss = s'
    OBVIOUS
  <2>2. Keeps(ss)
    BY <2>1, StepKeeps
  <2>3. s \in Seq(Good) /\ ss \in Seq(Good) /\ InOrder(ss)
    BY <2>2 DEF IInv, Keeps, Follows
  <2>4. \A i \in 1..(Len(ss) - 1) : ss[i].beg <= ss[i + 1].beg
    <3>1. PICK n \in Nat : n = Len(ss)
      BY <2>3, Places1
    <3>2. \A i \in 1..(n - 1) : i \in 1..n /\ i + 1 \in 1..n /\ i <= i + 1
      OBVIOUS
    <3> QED
      BY <2>3, <3>1, <3>2 DEF InOrder
  <2>5. (Once(s) <=> Distinct(s)) /\ (Once(ss) <=> Distinct(ss))
    BY <2>3, OnceIsDistinct
  <2> QED
    BY <2>1, <2>2, <2>4, <2>5 DEF Keeps
<1> QED
  BY InitIInv, NextIInv, <1>1, PTL DEF Spec, NothingTwice

-----------------------------------------------------------------------------
(* How far joins move samples *)

\* A distance is at most m, in either direction.
Within(d, m) == d \in Int /\ -m <= d /\ d <= m

\* What c joins move at most.
Most(c) == c * (Interval - 1)

\* It is a number that grows by the move of one join.
LEMMA MostIs ==
    ASSUME NEW c \in Nat
    PROVE  /\ Most(c) \in Nat /\ Most(0) = 0
           /\ Most(c + 1) = Most(c) + (Interval - 1)
<1>1. PICK i \in Nat : i = Interval - 1
  BY IntervalAssumption
<1>2. c * i \in Nat /\ 0 * i = 0 /\ (c + 1) * i = c * i + i
  BY Times
<1> QED
  BY <1>1, <1>2 DEF Most

\* More joins may move more.
LEMMA MostGrows ==
    ASSUME NEW c \in Nat, NEW e \in Nat, c <= e PROVE Most(c) <= Most(e)
<1>1. PICK i \in Nat : i = Interval - 1
  BY IntervalAssumption
<1>2. c * i <= e * i
  BY Monotone
<1> QED
  BY <1>1, <1>2 DEF Most

\* Times are integers, and a number of intervals apart.
LEMMA TimeIs ==
    ASSUME NEW g \in Good, NEW k \in Int
    PROVE  /\ Time(g, k) \in Int /\ Time(g, 1) = g.beg
           /\ \A l \in Int : Time(g, k + l) = Time(g, k) + l * g.del
<1>1. PICK b \in Int, d \in Int : b = g.beg /\ d = g.del
  BY GoodFields
<1>2. (k - 1) * d \in Int /\ (1 - 1) * d = 0
  OBVIOUS
<1>3. \A l \in Int : (k + l - 1) * d = (k - 1) * d + l * d
  OBVIOUS
<1>4. Time(g, k) = b + (k - 1) * d /\ Time(g, 1) = b + (1 - 1) * d
  BY <1>1 DEF Time
<1>5. ASSUME NEW l \in Int PROVE Time(g, k + l) = Time(g, k) + l * g.del
  <2>1. Time(g, k + l) = b + (k + l - 1) * d
    BY <1>1 DEF Time
  <2>2. PICK x \in Int, y \in Int : x = (k - 1) * d /\ y = l * d
    BY <1>2
  <2>3. (k + l - 1) * d = x + y
    BY <1>3, <2>2
  <2> QED
    BY <1>1, <1>4, <2>1, <2>2, <2>3
<1> QED
  BY <1>1, <1>2, <1>4, <1>5

\* The sample at place k of g is the one at place l of h, d later.
Later(g, k, h, l, d) == g.data[k] = h.data[l] /\ Time(g, k) = Time(h, l) + d

\* h is in g behind its first n samples, d later.
Lies(h, g, n, d) ==
    n + Len(h.data) <= Len(g.data) /\ \A k \in 1..Len(h.data) : Later(g, n + k, h, k, d)

\* A segment is in itself.
LEMMA LiesSelf ==
    ASSUME NEW g \in Good PROVE Lies(g, g, 0, 0)
<1>1. Len(g.data) \in Nat
  BY GoodFields
<1>2. ASSUME NEW k \in 1..Len(g.data) PROVE Later(g, 0 + k, g, k, 0)
  <2>1. k \in Int /\ 0 + k = k
    BY <1>1
  <2>2. Time(g, k) \in Int
    BY <2>1, TimeIs
  <2> QED
    BY <2>1, <2>2 DEF Later
<1> QED
  BY <1>1, <1>2 DEF Lies

\* What a merged segment has at its places.
LEMMA MergedAt ==
    ASSUME NEW g \in Good, NEW h \in Good, Len(g.data) > 1, Len(h.data) > 1
    PROVE  /\ Merged(g, h) \in Good /\ Len(Merged(g, h).data) = Len(g.data) + Len(h.data)
           /\ \A k \in 1..Len(g.data) : Later(Merged(g, h), k, g, k, 0)
           /\ \A k \in 1..Len(h.data) :
                 Later(Merged(g, h), Len(g.data) + k, h, k, End(g) + Interval - h.beg)
<1>1. PICK m \in Good : m = Merged(g, h)
  BY MergedIs
<1>2. PICK a \in Seq(Sample), b \in Seq(Sample) : a = g.data /\ b = h.data
  BY GoodFields
<1>3. PICK k \in Nat, l \in Nat : k = Len(a) /\ l = Len(b)
  BY <1>2, LenProperties
<1>4. /\ Len(a \o b) = k + l
      /\ \A i \in 1..(k + l) : (a \o b)[i] = IF i <= k THEN a[i] ELSE b[i - k]
  BY <1>3, ConcatProperties
<1>5. m.data = a \o b /\ m.beg = g.beg /\ m.del = g.del
  BY <1>1, <1>2, GoodFields DEF Merged, GSegment
<1>6. g.del = Interval /\ h.del = Interval
  BY GoodFields
<1>7. ASSUME NEW i \in 1..k PROVE Later(m, i, g, i, 0)
  <2>1. m.data[i] = g.data[i]
    <3>1. i \in 1..(k + l) /\ i <= k
      OBVIOUS
    <3> QED
      BY <1>2, <1>4, <1>5, <3>1
  <2>2. Time(m, i) = Time(g, i)
    BY <1>5 DEF Time
  <2>3. Time(g, i) \in Int
    BY TimeIs
  <2> QED
    BY <2>1, <2>2, <2>3 DEF Later
<1>8. ASSUME NEW i \in 1..l PROVE Later(m, k + i, h, i, End(g) + Interval - h.beg)
  <2>1. m.data[k + i] = h.data[i]
    <3>1. k + i \in 1..(k + l) /\ ~(k + i <= k) /\ (k + i) - k = i
      OBVIOUS
    <3>2. (a \o b)[k + i] = b[i]
      BY <1>4, <3>1
    <3> QED
      BY <1>2, <1>5, <3>2
  <2>2. Time(m, k + i) = Time(g, k + i)
    BY <1>5 DEF Time
  <2>3. Time(g, k + i) = Time(g, k) + i * Interval
    <3>1. k \in Int /\ i \in Int
      OBVIOUS
    <3>2. Time(g, k + i) = Time(g, k) + i * g.del
      BY <3>1, TimeIs
    <3> QED
      BY <1>6, <3>2
  <2>4. Time(h, i) = h.beg + (i - 1) * Interval
    BY <1>6 DEF Time
  <2>5. PICK e \in Int, b1 \in Int, d \in Int : e = Time(g, k) /\ b1 = h.beg /\ d = Interval
    <3>1. k \in Int
      OBVIOUS
    <3>2. Time(g, k) \in Int
      BY <3>1, TimeIs
    <3>3. h.beg \in Int
      BY GoodFields
    <3>4. Interval \in Int
      BY IntervalAssumption
    <3> QED
      BY <3>2, <3>3, <3>4
  <2>6. PICK y \in Int : y = i * d
    OBVIOUS
  <2>7. (i - 1) * d = y - d
    <3>1. PICK x \in Int : x = i
      OBVIOUS
    <3>2. (x - 1) * d = x * d - d
      OBVIOUS
    <3> QED
      BY <2>6, <3>1, <3>2
  <2>8. End(g) = e
    BY <1>2, <1>3, <2>5 DEF End
  <2>9. Time(m, k + i) = e + y /\ Time(h, i) = b1 + (y - d)
    <3>1. i * Interval = y /\ (i - 1) * Interval = y - d
      BY <2>5, <2>6, <2>7
    <3>2. Time(m, k + i) = e + i * Interval /\ Time(h, i) = b1 + (i - 1) * Interval
      BY <2>2, <2>3, <2>4, <2>5
    <3> QED
      BY <3>1, <3>2
  <2>10. Time(m, k + i) = Time(h, i) + (e + d - b1)
    BY <2>9
  <2> QED
    BY <2>1, <2>5, <2>8, <2>10 DEF Later
<1> QED
  BY <1>1, <1>2, <1>3, <1>4, <1>5, <1>7, <1>8

\* Moves add up.
LEMMA MostAdds ==
    ASSUME NEW c \in Nat, NEW e \in Nat PROVE Most(c + e) = Most(c) + Most(e)
<1>1. PICK i \in Nat : i = Interval - 1
  BY IntervalAssumption
<1>2. (c + e) * i = c * i + e * i
  OBVIOUS
<1> QED
  BY <1>1, <1>2 DEF Most

\* Distances add up,
LEMMA WithinAdds ==
    ASSUME NEW c \in Nat, NEW e \in Nat, NEW d, NEW f, Within(d, Most(c)), Within(f, Most(e))
    PROVE  Within(d + f, Most(c + e))
<1>1. PICK x \in Nat, y \in Nat : x = Most(c) /\ y = Most(e)
  BY MostIs
<1>2. Most(c + e) = x + y
  BY <1>1, MostAdds
<1> QED
  BY <1>1, <1>2 DEF Within

\* ... and are within any greater bound.
LEMMA WithinGrows ==
    ASSUME NEW c \in Nat, NEW e \in Nat, c <= e, NEW d, Within(d, Most(c))
    PROVE  Within(d, Most(e))
<1>1. PICK x \in Nat, y \in Nat : x = Most(c) /\ y = Most(e) /\ x <= y
  BY MostIs, MostGrows
<1> QED
  BY <1>1 DEF Within

\* A distance of nothing is within every bound.
LEMMA WithinNone ==
    ASSUME NEW c \in Nat PROVE Within(0, Most(c))
<1>1. PICK x \in Nat : x = Most(c)
  BY MostIs
<1> QED
  BY <1>1 DEF Within

\* The gap between segments that fit is less than an interval.
LEMMA FitsGap ==
    ASSUME NEW g \in Good, NEW h \in Good, Fits(g, h)
    PROVE  Within(End(g) + Interval - h.beg, Interval - 1)
<1>1. PICK e \in Int, b \in Int, i \in 2..99 : e = End(g) /\ b = h.beg /\ i = Interval
  BY Ends, GoodFields, IntervalAssumption
<1>2. Len(g.data) > 1 /\ g.del = i
  BY <1>1, GoodFields DEF Fits
<1>3. 100 * (b - e - i) <= 99 * i /\ -100 * (b - e - i) <= 99 * i
  BY <1>1, <1>2 DEF Fits
<1>4. b - e - i <= i - 1 /\ -(b - e - i) <= i - 1
  BY <1>3
<1> QED
  BY <1>1, <1>4 DEF Within

\* The segments of a sequence.
Members(segs) == {segs[i] : i \in 1..Len(segs)}

\* Every sample of g is one of segments in S, moved by at most m.
From(g, S, m) == \A k \in 1..Len(g.data) :
    \E h \in S : \E l \in 1..Len(h.data), d \in Int : Within(d, m) /\ Later(g, k, h, l, d)

\* h is in a segment in S, moved by at most m.
Held(h, S, m) == \E g \in S, n \in Nat, d \in Int : Within(d, m) /\ Lies(h, g, n, d)

\* The segments in T are those in S, moved by what c joins move at most.
Moved(T, S, c) ==
    (\A g \in T : From(g, S, Most(c))) /\ (\A h \in S : Held(h, T, Most(c)))

\* What is one step later than what is later.
LEMMA LaterLater ==
    ASSUME NEW g \in Good, NEW h \in Good, NEW f \in Good, NEW k \in Int, NEW l \in Int, NEW j \in Int,
           NEW d \in Int, NEW e \in Int, Later(g, k, h, l, d), Later(h, l, f, j, e)
    PROVE  Later(g, k, f, j, d + e)
<1>1. PICK x \in Int, y \in Int, z \in Int : x = Time(g, k) /\ y = Time(h, l) /\ z = Time(f, j)
  BY TimeIs
<1>2. x = y + d /\ y = z + e
  BY <1>1 DEF Later
<1>3. x = z + (d + e)
  BY <1>2
<1> QED
  BY <1>1, <1>3 DEF Later

\* A segment that lies in one that lies in another.
LEMMA LiesLies ==
    ASSUME NEW g \in Good, NEW h \in Good, NEW f \in Good, NEW m \in Nat, NEW n \in Nat,
           NEW d \in Int, NEW e \in Int, Lies(h, g, m, d), Lies(f, h, n, e)
    PROVE  Lies(f, g, m + n, d + e)
<1>1. PICK a \in Nat, b \in Nat, c \in Nat : a = Len(g.data) /\ b = Len(h.data) /\ c = Len(f.data)
  BY GoodFields
<1>2. m + b <= a /\ n + c <= b
  BY <1>1 DEF Lies
<1>3. ASSUME NEW k \in 1..c PROVE Later(g, (m + n) + k, f, k, d + e)
  <2>1. n + k \in 1..b /\ n + k \in Int /\ k \in Int /\ m + (n + k) \in Int /\ (m + n) + k = m + (n + k)
    BY <1>2
  <2>2. Later(h, n + k, f, k, e) /\ Later(g, m + (n + k), h, n + k, d)
    BY <1>1, <2>1 DEF Lies
  <2> QED
    BY <2>1, <2>2, LaterLater
<1>4. (m + n) + c <= a
  BY <1>2
<1> QED
  BY <1>1, <1>3, <1>4 DEF Lies

\* The bound may be greater and the segments more.
LEMMA FromGrows ==
    ASSUME NEW g, NEW S, NEW T, S \subseteq T, NEW c \in Nat, NEW e \in Nat, c <= e,
           From(g, S, Most(c))
    PROVE  From(g, T, Most(e))
BY WithinGrows DEF From

LEMMA HeldGrows ==
    ASSUME NEW h, NEW S, NEW T, S \subseteq T, NEW c \in Nat, NEW e \in Nat, c <= e,
           Held(h, S, Most(c))
    PROVE  Held(h, T, Most(e))
BY WithinGrows DEF Held

\* A segment is itself.
LEMMA FromSelf ==
    ASSUME NEW g \in Good, NEW S, g \in S, NEW c \in Nat PROVE From(g, S, Most(c)) /\ Held(g, S, Most(c))
<1>1. Lies(g, g, 0, 0) /\ Within(0, Most(c)) /\ 0 \in Nat /\ 0 \in Int
  BY LiesSelf, WithinNone
<1>2. ASSUME NEW k \in 1..Len(g.data) PROVE Later(g, k, g, k, 0)
  <2>1. Time(g, k) \in Int
    BY TimeIs
  <2> QED
    BY <2>1 DEF Later
<1> QED
  BY <1>1, <1>2 DEF From, Held

\* The segments of a sequence that one follows.
LEMMA MembersAppend ==
    ASSUME NEW done \in Seq(Good), NEW h \in Good
    PROVE  Members(Append(done, h)) = Members(done) \cup {h}
<1>1. PICK n \in Nat : n = Len(done)
  BY Places1
<1>2. Len(Append(done, h)) = n + 1 /\ Append(done, h)[n + 1] = h
      /\ \A i \in 1..n : Append(done, h)[i] = done[i]
  BY <1>1, AppendProperties
<1>3. 1..(n + 1) = (1..n) \cup {n + 1}
  BY <1>1
<1> QED
  BY <1>1, <1>2, <1>3 DEF Members

\* A segment that follows is not moved.
LEMMA MovedAppend ==
    ASSUME NEW done \in Seq(Good), NEW h \in Good, NEW S \in SUBSET Good, NEW c \in Nat,
           Moved(Members(done), S, c)
    PROVE  Moved(Members(Append(done, h)), S \cup {h}, c)
<1>1. Members(Append(done, h)) = Members(done) \cup {h}
  BY MembersAppend
<1>2. PICK T : T = Members(done)
  OBVIOUS
<1>3. \A g \in T : From(g, S \cup {h}, Most(c))
  <2>1. S \subseteq S \cup {h} /\ c <= c
    OBVIOUS
  <2> QED
    BY <1>2, <2>1, FromGrows DEF Moved
<1>4. \A g \in S : Held(g, T \cup {h}, Most(c))
  <2>1. T \subseteq T \cup {h} /\ c <= c
    OBVIOUS
  <2> QED
    BY <1>2, <2>1, HeldGrows DEF Moved
<1>5. From(h, S \cup {h}, Most(c)) /\ Held(h, T \cup {h}, Most(c))
  BY FromSelf
<1> QED
  BY <1>1, <1>2, <1>3, <1>4, <1>5 DEF Moved

\* A join moves a segment by less than an interval more than the one before it.
LEMMA MovedMerge ==
    ASSUME NEW done \in Seq(Good), done # <<>>, NEW h \in Good, NEW S \in SUBSET Good, NEW c \in Nat,
           Moved(Members(done), S, c), NEW f \in S, Fits(f, h),
           Len(done[Len(done)].data) > 1, Within(End(done[Len(done)]) - End(f), Most(c))
    PROVE  \E new \in Seq(Good) :
              /\ new = Extended(done, h) /\ new # <<>> /\ Len(new) = Len(done)
              /\ Moved(Members(new), S \cup {h}, c + 1)
              /\ Len(new[Len(new)].data) > 1
              /\ Within(End(new[Len(new)]) - End(h), Most(c + 1))
<1>1. PICK n \in Nat : /\ n = Len(done) /\ n > 0 /\ DOMAIN done = 1..n
                       /\ \A i \in 1..n : done[i] \in Good
  BY Places1
<1>2. PICK g \in Good : g = done[n] /\ Len(g.data) > 1
  BY <1>1
<1>3. Len(h.data) > 1
  BY DEF Fits
<1>4. PICK m \in Good : m = Merged(g, h)
  BY <1>2, MergedIs
<1>5. PICK a \in Nat, b \in Nat : a = Len(g.data) /\ b = Len(h.data) /\ a > 1 /\ b > 1
  BY <1>2, <1>3, GoodFields
<1>s. a > 1 /\ b > 1
  BY <1>5
<1>t. 0 + a <= a + b /\ b \in 1..b /\ a + b > 1 /\ \A k \in 1..a : 0 + k = k
  BY <1>s
<1>6. PICK D \in Int : D = End(g) + Interval - h.beg
  <2>1. End(g) \in Int /\ h.beg \in Int /\ Interval \in Int
    BY Ends, GoodFields, IntervalAssumption
  <2> QED
    BY <2>1
<1>7. /\ Len(m.data) = a + b
      /\ \A k \in 1..a : Later(m, k, g, k, 0)
      /\ \A k \in 1..b : Later(m, a + k, h, k, D)
  BY <1>2, <1>3, <1>4, <1>5, <1>6, MergedAt
<1>8. Within(D, Most(c + 1))
  <2>1. PICK x \in Int, y \in Int, z \in Int, i \in Int :
            x = End(g) /\ y = End(f) /\ z = h.beg /\ i = Interval
    <3>1. f \in Good
      OBVIOUS
    <3>2. End(g) \in Int /\ End(f) \in Int
      BY <3>1, Ends
    <3>3. h.beg \in Int
      BY GoodFields
    <3>4. Interval \in Int
      BY IntervalAssumption
    <3> QED
      BY <3>2, <3>3, <3>4
  <2>2. f \in Good
    OBVIOUS
  <2>3. Within(y + i - z, i - 1) /\ Within(x - y, Most(c))
    BY <1>1, <1>2, <2>1, <2>2, FitsGap
  <2>4. Most(1) = i - 1
    <3>1. Most(0) = 0 /\ Most(0 + 1) = Most(0) + (Interval - 1)
      BY MostIs
    <3> QED
      BY <2>1, <3>1
  <2>5. PICK u \in Int, v \in Int : u = x - y /\ v = y + i - z
    OBVIOUS
  <2>6. Within(u, Most(c)) /\ Within(v, Most(1)) /\ 1 \in Nat
    BY <2>3, <2>4, <2>5
  <2>7. Within(u + v, Most(c + 1))
    BY <2>6, WithinAdds
  <2>8. D = x + i - z
    BY <1>6, <2>1
  <2>9. u + v = x + i - z
    BY <2>5
  <2>10. u + v = D
    BY <2>8, <2>9
  <2> QED
    BY <2>7, <2>10
<1>9. PICK new : new = Extended(done, h)
  OBVIOUS
<1>10. /\ new \in Seq(Good) /\ Len(new) = n
       /\ \A i \in 1..n : new[i] = IF i = n THEN m ELSE done[i]
  <2>1. n \in 1..Len(done) /\ m \in Good
    BY <1>1
  <2>2. new = [done EXCEPT ![n] = m]
    BY <1>1, <1>2, <1>4, <1>9 DEF Extended, Merged
  <2>3. /\ [done EXCEPT ![n] = m] \in Seq(Good)
        /\ Len([done EXCEPT ![n] = m]) = Len(done)
        /\ \A i \in 1..Len(done) : [done EXCEPT ![n] = m][i] = IF i = n THEN m ELSE done[i]
    BY <2>1, ExceptSeq
  <2> QED
    BY <1>1, <2>2, <2>3
<1>11. n \in 1..n /\ new[n] = m /\ \A i \in 1..n : i # n => new[i] = done[i]
  BY <1>1, <1>10
<1>12. new # <<>> /\ m \in Members(new) /\ g \in Members(done)
  BY <1>1, <1>2, <1>10, <1>11, None DEF Members
<1>13. c <= c + 1 /\ S \subseteq S \cup {h} /\ c + 1 \in Nat
  OBVIOUS
<1>14. ASSUME NEW e \in Members(new) PROVE From(e, S \cup {h}, Most(c + 1))
  <2>1. PICK i \in 1..n : e = new[i]
    BY <1>10 DEF Members
  <2>2. CASE i # n
    <3>1. e \in Members(done)
      BY <1>1, <1>11, <2>1, <2>2 DEF Members
    <3>2. From(e, S, Most(c))
      BY <3>1 DEF Moved
    <3> QED
      BY <1>13, <3>2, FromGrows
  <2>3. CASE i = n
    <3>1. e = m
      BY <1>11, <2>1, <2>3
    <3>2. ASSUME NEW k \in 1..(a + b)
          PROVE  \E r \in S \cup {h} : \E l \in 1..Len(r.data), d \in Int :
                    Within(d, Most(c + 1)) /\ Later(m, k, r, l, d)
      <4>1. CASE k <= a
        <5>1. k \in 1..a /\ k \in Int
          BY <4>1
        <5>2. From(g, S, Most(c))
          BY <1>12 DEF Moved
        <5>3. PICK r \in S : \E l \in 1..Len(r.data), d \in Int :
                  Within(d, Most(c)) /\ Later(g, k, r, l, d)
          BY <1>5, <5>1, <5>2 DEF From
        <5>4. PICK l \in 1..Len(r.data), d \in Int : Within(d, Most(c)) /\ Later(g, k, r, l, d)
          BY <5>3
        <5>5. Later(m, k, g, k, 0)
          BY <1>7, <5>1
        <5>6. r \in Good /\ l \in Int /\ 0 \in Int /\ 0 + d = d
          BY <5>4, GoodFields
        <5>7. Later(m, k, r, l, 0 + d)
          BY <5>1, <5>4, <5>5, <5>6, LaterLater
        <5>8. Within(d, Most(c + 1))
          BY <1>13, <5>4, WithinGrows
        <5> QED
          BY <5>4, <5>6, <5>7, <5>8
      <4>2. CASE ~(k <= a)
        <5>1. k - a \in 1..b /\ a + (k - a) = k
          BY <4>2
        <5>2. Later(m, k, h, k - a, D)
          BY <1>7, <5>1
        <5> QED
          BY <1>5, <1>8, <5>1, <5>2
      <4> QED
        BY <4>1, <4>2
    <3> QED
      BY <1>7, <3>1, <3>2 DEF From
  <2> QED
    BY <2>2, <2>3
<1>15. ASSUME NEW e \in S PROVE Held(e, Members(new), Most(c + 1))
  <2>1. Held(e, Members(done), Most(c))
    BY DEF Moved
  <2>2. PICK r \in Members(done), o \in Nat, d \in Int : Within(d, Most(c)) /\ Lies(e, r, o, d)
    BY <2>1 DEF Held
  <2>3. Within(d, Most(c + 1))
    BY <1>13, <2>2, WithinGrows
  <2>4. PICK i \in 1..n : r = done[i]
    BY <1>1 DEF Members
  <2>5. CASE i # n
    <3>1. r \in Members(new)
      BY <1>10, <1>11, <2>4, <2>5 DEF Members
    <3> QED
      BY <2>2, <2>3, <3>1 DEF Held
  <2>6. CASE i = n
    <3>1. r = g
      BY <1>2, <2>4, <2>6
    <3>2. Lies(g, m, 0, 0)
      <4>1. 0 + Len(g.data) <= Len(m.data)
        BY <1>5, <1>7, <1>t
      <4>2. \A k \in 1..Len(g.data) : Later(m, 0 + k, g, k, 0)
        BY <1>5, <1>7, <1>t
      <4> QED
        BY <4>1, <4>2 DEF Lies
    <3>3. e \in Good /\ 0 \in Nat /\ 0 \in Int /\ 0 + o = o /\ 0 + d = d
      OBVIOUS
    <3>4. Lies(e, m, 0 + o, 0 + d)
      BY <2>2, <3>1, <3>2, <3>3, LiesLies
    <3> QED
      BY <1>12, <2>3, <3>3, <3>4 DEF Held
  <2> QED
    BY <2>5, <2>6
<1>16. Held(h, Members(new), Most(c + 1))
  <2>1. Lies(h, m, a, D)
    BY <1>5, <1>7 DEF Lies
  <2> QED
    BY <1>8, <1>12, <2>1 DEF Held
<1>17. Moved(Members(new), S \cup {h}, c + 1)
  BY <1>14, <1>15, <1>16 DEF Moved
<1>18. End(m) - End(h) = D
  <2>1. Later(m, a + b, h, b, D)
    BY <1>7, <1>t
  <2>2. Time(m, a + b) = Time(h, b) + D /\ Time(h, b) \in Int
    BY <2>1, TimeIs DEF Later
  <2>3. End(m) = Time(m, a + b) /\ End(h) = Time(h, b)
    BY <1>5, <1>7 DEF End
  <2> QED
    BY <2>2, <2>3
<1>19. Len(m.data) > 1
  BY <1>7, <1>t
<1> QED
  BY <1>1, <1>8, <1>9, <1>10, <1>11, <1>12, <1>17, <1>18, <1>19

\* Two segments have the same samples at the same times.
Same(g, h) == /\ Len(g.data) = Len(h.data)
              /\ \A k \in 1..Len(g.data) : g.data[k] = h.data[k] /\ Time(g, k) = Time(h, k)

\* Another interval for a sample alone does not change its time.
LEMMA SpacedTimes ==
    ASSUME NEW segs \in Seq(Good), Len(segs) > 1, NEW j \in 1..Len(segs)
    PROVE  Same(Spaced(segs)[j], segs[j])
<1>1. segs[j] \in Good /\ j \in DOMAIN segs
  BY Places1
<1>2. /\ Spaced(segs) \in Seq(Good) /\ Len(Spaced(segs)) = Len(segs)
      /\ Spaced(segs)[j].data = segs[j].data /\ Spaced(segs)[j].beg = segs[j].beg
  BY SpacedIs
<1>3. PICK h \in Good, g \in Good : h = Spaced(segs)[j] /\ g = segs[j]
  BY <1>1, <1>2, Places1
<1>4. h.data = g.data /\ h.beg = g.beg
  BY <1>2, <1>3
<1>5. CASE Len(g.data) > 1
  <2>1. h = g
    BY <1>1, <1>3, <1>5 DEF Spaced
  <2> QED
    BY <1>3, <2>1 DEF Same
<1>6. CASE ~(Len(g.data) > 1)
  <2>1. \A k \in 1..Len(g.data) : k = 1
    BY <1>6, GoodFields
  <2>2. Time(h, 1) = h.beg /\ Time(g, 1) = g.beg
    BY TimeIs
  <2> QED
    BY <1>3, <1>4, <2>1, <2>2 DEF Same
<1> QED
  BY <1>5, <1>6

\* What is moved from segments is moved from others with the same samples.
LEMMA MovedSame ==
    ASSUME NEW T, NEW S, NEW R, NEW c, Moved(T, S, c),
           \A h \in S : \E r \in R : Same(h, r),
           \A r \in R : \E h \in S : Same(h, r)
    PROVE  Moved(T, R, c)
<1>1. ASSUME NEW g \in T PROVE From(g, R, Most(c))
  <2>1. From(g, S, Most(c))
    BY DEF Moved
  <2>2. ASSUME NEW k \in 1..Len(g.data)
        PROVE  \E h \in R : \E l \in 1..Len(h.data), d \in Int :
                  Within(d, Most(c)) /\ Later(g, k, h, l, d)
    <3>1. PICK h \in S : \E l \in 1..Len(h.data), d \in Int :
              Within(d, Most(c)) /\ Later(g, k, h, l, d)
      BY <2>1 DEF From
    <3>2. PICK l \in 1..Len(h.data), d \in Int : Within(d, Most(c)) /\ Later(g, k, h, l, d)
      BY <3>1
    <3>3. PICK r \in R : Same(h, r)
      OBVIOUS
    <3>4. l \in 1..Len(r.data) /\ h.data[l] = r.data[l] /\ Time(h, l) = Time(r, l)
      BY <3>3 DEF Same
    <3>5. Later(g, k, r, l, d)
      BY <3>2, <3>4 DEF Later
    <3> QED
      BY <3>2, <3>4, <3>5
  <2> QED
    BY <2>2 DEF From
<1>2. ASSUME NEW r \in R PROVE Held(r, T, Most(c))
  <2>1. PICK h \in S : Same(h, r)
    OBVIOUS
  <2>2. Held(h, T, Most(c))
    BY DEF Moved
  <2>3. PICK g \in T, n \in Nat, d \in Int : Within(d, Most(c)) /\ Lies(h, g, n, d)
    BY <2>2 DEF Held
  <2>4. n + Len(r.data) <= Len(g.data)
    BY <2>1, <2>3 DEF Lies, Same
  <2>5. ASSUME NEW k \in 1..Len(r.data) PROVE Later(g, n + k, r, k, d)
    <3>1. k \in 1..Len(h.data) /\ h.data[k] = r.data[k] /\ Time(h, k) = Time(r, k)
      BY <2>1 DEF Same
    <3>2. Later(g, n + k, h, k, d)
      BY <2>3, <3>1 DEF Lies
    <3> QED
      BY <3>1, <3>2 DEF Later
  <2>6. Lies(r, g, n, d)
    BY <2>4, <2>5 DEF Lies
  <2> QED
    BY <2>3, <2>6 DEF Held
<1> QED
  BY <1>1, <1>2 DEF Moved

\* How far joinSegments moves samples: each join, by less than an interval.
LEMMA JoinMoves ==
    ASSUME NEW segs \in Seq(Good)
    PROVE  \E c \in Nat : /\ Len(JoinSegments(segs)) \in Nat
                          /\ Len(JoinSegments(segs)) + c = Len(segs)
                          /\ Moved(Members(JoinSegments(segs)), Members(segs), c)
<1>1. CASE Len(segs) <= 1
  <2>1. JoinSegments(segs) = segs
    BY <1>1, JoinIsFold
  <2>2. 0 \in Nat /\ Len(segs) \in Nat /\ Len(segs) + 0 = Len(segs)
    BY Places1
  <2>3. Members(segs) \subseteq Good
    BY Places1 DEF Members
  <2>4. Moved(Members(segs), Members(segs), 0)
    BY <2>2, <2>3, FromSelf DEF Moved
  <2> QED
    BY <2>1, <2>2, <2>4
<1>2. CASE ~(Len(segs) <= 1)
  <2>1. PICK n \in Nat : n = Len(segs) /\ n > 1 /\ \A i \in 1..n : segs[i] \in Good
    BY <1>2, Places1
  <2>2. PICK sp : sp = Spaced(segs)
    OBVIOUS
  <2>3. /\ sp \in Seq(Good) /\ Len(sp) = n
        /\ \A j \in 1..n : Same(sp[j], segs[j])
    <3>1. Len(segs) > 1
      BY <2>1
    <3> QED
      BY <2>1, <2>2, <3>1, SpacedIs, SpacedTimes
  <2>4. DOMAIN sp = 1..n /\ \A j \in 1..n : sp[j] \in Good
    BY <2>3, Places1
  <2>5. PICK idx : idx = [j \in 1..n |-> j]
    OBVIOUS
  <2>6. JoinSegments(segs) = JoinedAll(sp, idx)
    BY <1>2, <2>2, <2>4, <2>5, JoinIsFold
  <2>7. Len(idx) = n /\ DOMAIN idx = 1..n /\ \A i \in 1..n : idx[i] = i
    BY <2>5
  <2>8. PICK g : /\ g[0] = <<>>
                 /\ \A i \in 1..n : g[i] = Joined(sp, g[i - 1], idx[i])
                 /\ JoinedAll(sp, idx) = g[n]
    <3>1. /\ sp \in Seq(Good) /\ Len(idx) = Len(sp) /\ DOMAIN idx = 1..Len(sp)
          /\ \A i \in 1..Len(sp) : idx[i] = i
      BY <2>3, <2>7
    <3>2. \E g : /\ g[0] = <<>>
                 /\ \A i \in 1..Len(sp) : g[i] = Joined(sp, g[i - 1], idx[i])
                 /\ JoinedAll(sp, idx) = g[Len(sp)]
      BY <3>1, JoinedSteps
    <3>3. Len(sp) = n
      BY <2>3
    <3> QED
      BY <3>2, <3>3
  <2>9. \A i \in 1..n : g[i] = Joined(sp, g[i - 1], i)
    BY <2>7, <2>8
  <2> DEFINE S(m) == {sp[i] : i \in 1..m}
             Ends0(m, c) == /\ g[m] # <<>> /\ Within(End(g[m][Len(g[m])]) - End(sp[m]), Most(c))
                            /\ Len(sp[m].data) > 1 => Len(g[m][Len(g[m])].data) > 1
             Holds(m) == /\ g[m] \in Seq(Good)
                         /\ \E c \in Nat : /\ Len(g[m]) + c = m
                                           /\ Moved(Members(g[m]), S(m), c)
                                           /\ m > 0 => Ends0(m, c)
             T == {m \in 0..n : Holds(m)}
  <2>11. 0 \in T
    <3>1. S(0) = {} /\ Members(<<>>) = {} /\ 0 \in 0..n /\ ~(0 > 0) /\ 0 + 0 = 0 /\ 0 \in Nat
      BY None DEF Members
    <3>2. Moved({}, {}, 0)
      BY DEF Moved
    <3>3. Len(<<>>) + 0 = 0
      BY None
    <3>4. Holds(0)
      BY <2>8, <3>1, <3>2, <3>3, None
    <3> HIDE DEF Holds
    <3> QED
      BY <3>1, <3>4
  <2>12. ASSUME NEW m \in 0..n, m \in T, m < n PROVE m + 1 \in T
    <3>1. m + 1 \in 1..n /\ m + 1 \in 0..n /\ (m + 1) - 1 = m /\ m + 1 > 0
      BY <2>12
    <3>2. PICK a \in Seq(Good), h \in Good : a = g[m] /\ h = sp[m + 1]
      BY <2>4, <2>12, <3>1
    <3>3. PICK c \in Nat : /\ Len(a) + c = m /\ Moved(Members(a), S(m), c)
                           /\ m > 0 => Ends0(m, c)
      BY <2>12, <3>2
    <3>4. PICK b : b = g[m + 1]
      OBVIOUS
    <3>5. b = Joined(sp, a, m + 1)
      BY <2>9, <3>1, <3>2, <3>4
    <3>6. PICK R \in SUBSET Good : R = S(m)
      <4>1. \A i \in 1..m : i \in 1..n
        BY <2>12
      <4>2. S(m) \in SUBSET Good
        BY <2>4, <4>1
      <4> QED
        BY <4>2
    <3>7. S(m + 1) = R \cup {h}
      <4>1. 1..(m + 1) = (1..m) \cup {m + 1}
        BY <2>12
      <4> QED
        BY <3>2, <3>6, <4>1
    <3>8. PICK o \in Nat : o = Len(a)
      BY Places1
    <3>9. m \in Nat /\ o + c = m
      BY <2>12, <3>3, <3>8
    <3>11. CASE m + 1 > 1 /\ Fits(sp[m], h)
      <4>1. Len(sp[m].data) > 1 /\ m > 0
        BY <3>9, <3>11 DEF Fits
      <4>2. /\ a # <<>> /\ Within(End(a[Len(a)]) - End(sp[m]), Most(c))
            /\ Len(a[Len(a)].data) > 1
        BY <3>2, <3>3, <4>1
      <4>3. b = Extended(a, h)
        BY <3>1, <3>2, <3>5, <3>11 DEF Joined, Extended
      <4>4. PICK f \in R : f = sp[m]
        <5>1. m \in 1..m
          BY <3>9, <4>1
        <5> QED
          BY <3>6, <5>1
      <4>5. /\ Moved(Members(a), R, c) /\ Fits(f, h)
            /\ Within(End(a[Len(a)]) - End(f), Most(c))
        BY <3>3, <3>6, <3>11, <4>2, <4>4
      <4>6. \E new \in Seq(Good) :
              /\ new = Extended(a, h) /\ new # <<>> /\ Len(new) = Len(a)
              /\ Moved(Members(new), R \cup {h}, c + 1)
              /\ Len(new[Len(new)].data) > 1
              /\ Within(End(new[Len(new)]) - End(h), Most(c + 1))
        BY <4>2, <4>5, MovedMerge
      <4>7. /\ b \in Seq(Good) /\ b # <<>> /\ Len(b) = o
            /\ Moved(Members(b), R \cup {h}, c + 1)
            /\ Len(b[Len(b)].data) > 1
            /\ Within(End(b[Len(b)]) - End(h), Most(c + 1))
        BY <3>8, <4>3, <4>6
      <4>8. c + 1 \in Nat /\ o + (c + 1) = m + 1
        BY <3>9
      <4>9. Ends0(m + 1, c + 1)
        BY <3>2, <3>4, <4>7
      <4>10. Moved(Members(b), S(m + 1), c + 1)
        BY <3>7, <4>7
      <4> HIDE DEF S, Ends0
      <4>11. Holds(m + 1)
        BY <3>4, <4>7, <4>8, <4>9, <4>10
      <4> HIDE DEF Holds
      <4> QED
        BY <3>1, <4>11
    <3>12. CASE ~(m + 1 > 1 /\ Fits(sp[m], h))
      <4>1. b = Append(a, h)
        BY <3>1, <3>2, <3>5, <3>12 DEF Joined
      <4>2. b \in Seq(Good) /\ b # <<>> /\ b[Len(b)] = h
        BY <4>1, AppendLast
      <4>3. Len(b) = o + 1
        BY <3>8, <4>1, AppendProperties
      <4>4. Moved(Members(a), R, c)
        BY <3>3, <3>6
      <4>5. Moved(Members(b), S(m + 1), c)
        BY <3>7, <4>1, <4>4, MovedAppend
      <4>6. Ends0(m + 1, c)
        <5>1. End(h) - End(h) = 0
          BY Ends
        <5>2. Within(End(h) - End(h), Most(c))
          BY <5>1, WithinNone
        <5> QED
          BY <3>2, <3>4, <4>2, <5>2
      <4>7. (o + 1) + c = m + 1
        BY <3>9
      <4> HIDE DEF S, Ends0
      <4>8. Holds(m + 1)
        BY <3>4, <4>2, <4>3, <4>5, <4>6, <4>7
      <4> HIDE DEF Holds
      <4> QED
        BY <3>1, <4>8
    <3> QED
      BY <3>11, <3>12
  <2>13. Holds(n)
    <3> HIDE DEF Holds
    <3>1. \A i \in 0..n : i \in T /\ i < n => i + 1 \in T
      BY <2>12
    <3> HIDE DEF T
    <3>2. \A i \in 0..n : i \in T
      BY <2>11, <3>1, UpTo
    <3> QED
      BY <3>2 DEF T
  <2>14. PICK J \in Seq(Good), c \in Nat :
            J = JoinSegments(segs) /\ Len(J) + c = n /\ Moved(Members(J), S(n), c)
    BY <2>6, <2>8, <2>13
  <2>15. \A h \in S(n) : \E r \in Members(segs) : Same(h, r)
    BY <2>1, <2>3 DEF Members
  <2>16. \A r \in Members(segs) : \E h \in S(n) : Same(h, r)
    BY <2>1, <2>3 DEF Members
  <2> HIDE DEF S
  <2>17. Moved(Members(J), Members(segs), c)
    BY <2>14, <2>15, <2>16, MovedSame
  <2>18. Len(J) \in Nat
    BY Places1
  <2> QED
    BY <2>1, <2>14, <2>17, <2>18
<1> QED
  BY <1>1, <1>2

-----------------------------------------------------------------------------
(* The segments that AddSegment joins *)

\* Segments one behind the other.
LEMMA MembersCat ==
    ASSUME NEW a \in Seq(Good), NEW b \in Seq(Good)
    PROVE  Members(a \o b) = Members(a) \cup Members(b)
<1>1. ASSUME NEW x \in Members(a \o b) PROVE x \in Members(a) \cup Members(b)
  <2>1. PICK i \in 1..Len(a \o b) : x = (a \o b)[i]
    BY DEF Members
  <2>2. \/ i \in 1..Len(a) /\ (a \o b)[i] = a[i]
        \/ i - Len(a) \in 1..Len(b) /\ (a \o b)[i] = b[i - Len(a)]
    BY Cat
  <2> QED
    BY <2>1, <2>2 DEF Members
<1>2. ASSUME NEW x \in Members(a) PROVE x \in Members(a \o b)
  <2>1. PICK i \in 1..Len(a) : x = a[i]
    BY DEF Members
  <2>2. i \in 1..Len(a \o b) /\ (a \o b)[i] = a[i]
    BY Cat
  <2> QED
    BY <2>1, <2>2 DEF Members
<1>3. ASSUME NEW x \in Members(b) PROVE x \in Members(a \o b)
  <2>1. PICK i \in 1..Len(b) : x = b[i]
    BY DEF Members
  <2>2. Len(a) + i \in 1..Len(a \o b) /\ (a \o b)[Len(a) + i] = b[i]
    BY Cat
  <2> QED
    BY <2>1, <2>2 DEF Members
<1> QED
  BY <1>1, <1>2, <1>3

\* One segment, and none.
LEMMA MembersOne ==
    ASSUME NEW g \in Good PROVE Members(<<g>>) = {g} /\ Members(<<>>) = {}
<1>1. Len(<<g>>) = 1 /\ <<g>>[1] = g /\ Len(<<>>) = 0
  BY One, None
<1>2. 1..1 = {1} /\ 1..0 = {}
  OBVIOUS
<1> QED
  BY <1>1, <1>2 DEF Members

\* Insert adds one segment.
LEMMA InsertMembers ==
    ASSUME NEW segs \in Seq(Good), NEW g \in Good, InOrder(segs)
    PROVE  /\ Members(Insert(segs, g)) = Members(segs) \cup {g}
           /\ Len(Insert(segs, g)) = Len(segs) + 1
<1>1. PICK c \in 0..Len(segs) :
          Insert(segs, g) = SubSeq(segs, 1, c) \o <<g>> \o SubSeq(segs, c + 1, Len(segs))
  BY Earlier
<1>2. PICK n \in Nat : n = Len(segs)
  BY Places1
<1>3. c \in 0..n /\ c \in Int /\ c + 1 \in Int /\ 1 \in Int /\ 1 >= 1 /\ c + 1 >= 1 /\ n <= n /\ c <= n /\ n \in Int
  BY <1>1, <1>2
<1>4. PICK a \in Seq(Good) : a = SubSeq(segs, 1, c) /\ Len(a) = c
  <2>1. /\ SubSeq(segs, 1, c) \in Seq(Good)
        /\ Len(SubSeq(segs, 1, c)) = IF 1 <= c THEN c - 1 + 1 ELSE 0
    BY <1>2, <1>3, Sub
  <2>2. Len(SubSeq(segs, 1, c)) = c
    BY <1>3, <2>1
  <2> QED
    BY <2>1, <2>2
<1>5. PICK b \in Seq(Good) : b = SubSeq(segs, c + 1, n) /\ Len(b) = n - c
  <2>1. /\ SubSeq(segs, c + 1, n) \in Seq(Good)
        /\ Len(SubSeq(segs, c + 1, n)) = IF c + 1 <= n THEN n - (c + 1) + 1 ELSE 0
    BY <1>2, <1>3, Sub
  <2>2. Len(SubSeq(segs, c + 1, n)) = n - c
    BY <1>3, <2>1
  <2> QED
    BY <2>1, <2>2
<1>6. segs = a \o b
  BY <1>2, <1>4, <1>5, Halves
<1>7. PICK one \in Seq(Good) : one = <<g>> /\ Len(one) = 1 /\ Members(one) = {g}
  BY One, MembersOne
<1>8. PICK ag \in Seq(Good) : ag = a \o one /\ Len(ag) = c + 1 /\ Members(ag) = Members(a) \cup {g}
  <2>1. a \o one \in Seq(Good) /\ Len(a \o one) = Len(a) + Len(one)
    BY Cat
  <2>2. Members(a \o one) = Members(a) \cup Members(one)
    BY MembersCat
  <2> QED
    BY <1>4, <1>7, <2>1, <2>2
<1>9. Insert(segs, g) = ag \o b
  BY <1>1, <1>2, <1>4, <1>5, <1>7, <1>8
<1>10. /\ Len(ag \o b) = Len(ag) + Len(b)
       /\ Members(ag \o b) = Members(ag) \cup Members(b)
       /\ Members(a \o b) = Members(a) \cup Members(b)
  BY Cat, MembersCat
<1>11. (c + 1) + (n - c) = n + 1
  BY <1>3
<1> QED
  BY <1>2, <1>5, <1>6, <1>8, <1>9, <1>10, <1>11

\* Sorting loses no segment.
LEMMA SortedMembers ==
    ASSUME NEW segs \in Seq(Good)
    PROVE  Members(Sorted(segs)) = Members(segs) /\ Len(Sorted(segs)) = Len(segs)
<1>1. PICK n \in Nat : n = Len(segs) /\ \A i \in 1..n : segs[i] \in Good
  BY Places1
<1>2. PICK g : /\ g[0] = <<>>
               /\ \A i \in 1..n : g[i] = Insert(g[i - 1], segs[i])
               /\ Sorted(segs) = g[n]
  BY <1>1, SortedSteps
<1> DEFINE S(m) == {segs[i] : i \in 1..m}
           Holds(m) == /\ g[m] \in Seq(Good) /\ InOrder(g[m])
                       /\ Members(g[m]) = S(m) /\ Len(g[m]) = m
           T == {m \in 0..n : Holds(m)}
<1>3. 0 \in T
  <2>1. S(0) = {} /\ Members(<<>>) = {} /\ 0 \in 0..n
    BY None DEF Members
  <2> QED
    BY <1>2, <2>1, None
<1>4. ASSUME NEW m \in 0..n, m \in T, m < n PROVE m + 1 \in T
  <2>1. m + 1 \in 1..n /\ m + 1 \in 0..n /\ (m + 1) - 1 = m
    BY <1>4
  <2>2. PICK a \in Seq(Good), h \in Good : a = g[m] /\ h = segs[m + 1]
    BY <1>1, <1>4, <2>1
  <2>3. InOrder(a) /\ Members(a) = S(m) /\ Len(a) = m
    BY <1>4, <2>2
  <2>4. PICK b : b = g[m + 1]
    OBVIOUS
  <2>5. b = Insert(a, h)
    BY <1>2, <2>1, <2>2, <2>4
  <2>6. b \in Seq(Good) /\ InOrder(b) /\ Members(b) = Members(a) \cup {h} /\ Len(b) = Len(a) + 1
    BY <2>3, <2>5, InsertIs, InsertMembers
  <2>7. S(m + 1) = S(m) \cup {h}
    <3>1. 1..(m + 1) = (1..m) \cup {m + 1}
      BY <1>4
    <3> QED
      BY <2>2, <3>1
  <2> HIDE DEF S
  <2>8. Holds(m + 1)
    BY <2>3, <2>4, <2>6, <2>7
  <2> HIDE DEF Holds
  <2> QED
    BY <2>1, <2>8
<1>5. Holds(n)
  <2> HIDE DEF Holds
  <2>1. \A i \in 0..n : i \in T /\ i < n => i + 1 \in T
    BY <1>4
  <2> HIDE DEF T
  <2>2. \A i \in 0..n : i \in T
    BY <1>3, <2>1, UpTo
  <2> QED
    BY <2>2 DEF T
<1>6. Members(segs) = S(n)
  BY <1>1 DEF Members
<1> HIDE DEF S
<1> QED
  BY <1>1, <1>2, <1>5, <1>6

\* Sequences of at most one segment, one behind the other.
LEMMA FlattenMembers ==
    ASSUME NEW n \in Nat, NEW q, \A i \in 1..n : q[i] \in Seq(Good) /\ Len(q[i]) <= 1,
           DOMAIN q = 1..n, q \in Seq(Seq(Good)), Len(q) = n
    PROVE  /\ FlattenSeq(q) \in Seq(Good) /\ Len(FlattenSeq(q)) <= n
           /\ Members(FlattenSeq(q)) = UNION {Members(q[i]) : i \in 1..n}
<1>1. PICK g : /\ g[0] = <<>>
               /\ \A i \in 1..n : g[i] = g[i - 1] \o q[i]
               /\ FlattenSeq(q) = g[n]
  BY FlattenSteps
<1> DEFINE S(m) == UNION {Members(q[i]) : i \in 1..m}
           Holds(m) == g[m] \in Seq(Good) /\ Len(g[m]) <= m /\ Members(g[m]) = S(m)
           T == {m \in 0..n : Holds(m)}
<1>3. 0 \in T
  <2>1. S(0) = {} /\ Members(<<>>) = {} /\ 0 \in 0..n
    BY None DEF Members
  <2>2. <<>> \in Seq(Good) /\ Len(<<>>) <= 0
    BY None
  <2> HIDE DEF S
  <2>3. Holds(0)
    BY <1>1, <2>1, <2>2
  <2> HIDE DEF Holds
  <2> QED
    BY <2>1, <2>3
<1>4. ASSUME NEW m \in 0..n, m \in T, m < n PROVE m + 1 \in T
  <2>1. m + 1 \in 1..n /\ m + 1 \in 0..n /\ (m + 1) - 1 = m
    BY <1>4
  <2>2. PICK a \in Seq(Good), h \in Seq(Good) : a = g[m] /\ h = q[m + 1] /\ Len(h) <= 1
    BY <1>4, <2>1
  <2>3. PICK k \in Nat, l \in Nat : k = Len(a) /\ l = Len(h) /\ k <= m /\ l <= 1 /\ Members(a) = S(m)
    BY <1>4, <2>2, Places1
  <2>4. PICK b : b = g[m + 1]
    OBVIOUS
  <2>5. b = a \o h
    BY <1>1, <2>1, <2>2, <2>4
  <2>6. b \in Seq(Good) /\ Len(b) = k + l /\ Members(b) = Members(a) \cup Members(h)
    BY <2>3, <2>5, Cat, MembersCat
  <2>7. S(m + 1) = S(m) \cup Members(h)
    <3>1. 1..(m + 1) = (1..m) \cup {m + 1}
      BY <1>4
    <3> QED
      BY <2>2, <3>1
  <2>8. k + l <= m + 1
    BY <2>3
  <2> HIDE DEF S
  <2>9. Holds(m + 1)
    BY <2>3, <2>4, <2>6, <2>7, <2>8
  <2> HIDE DEF Holds
  <2> QED
    BY <2>1, <2>9
<1>5. Holds(n)
  <2> HIDE DEF Holds
  <2>1. \A i \in 0..n : i \in T /\ i < n => i + 1 \in T
    BY <1>4
  <2> HIDE DEF T
  <2>2. \A i \in 0..n : i \in T
    BY <1>3, <2>1, UpTo
  <2> QED
    BY <2>2 DEF T
<1> QED
  BY <1>1, <1>5

\* A part has samples of its segment at their times.
LEMMA PartFrom ==
    ASSUME NEW g \in Good, NEW a \in 1..Len(g.data), NEW b \in a..Len(g.data)
    PROVE  /\ From(Part(g, a, b), {g}, Most(0))
           /\ \A l \in a..b : g.data[l] \in Data(Part(g, a, b))
<1>1. PICK p \in Good : /\ p = Part(g, a, b)
                        /\ p.beg = g.beg + (a - 1) * g.del /\ p.del = g.del
                        /\ Len(p.data) = b - a + 1
                        /\ \A k \in 1..(b - a + 1) : p.data[k] = g.data[k + a - 1]
  BY PartIs
<1>2. \A l \in a..b : g.data[l] \in Data(p)
  BY <1>1, PartData
<1>3. PICK n \in Nat : n = Len(g.data) /\ a \in 1..n /\ b \in a..n
  BY GoodFields
<1>4. ASSUME NEW k \in 1..(b - a + 1) PROVE k + a - 1 \in 1..n /\ Later(p, k, g, k + a - 1, 0)
  <2>1. k + a - 1 \in 1..n /\ k + a - 1 \in Int
    BY <1>3
  <2>2. PICK x \in Int, d \in Int : x = g.beg /\ d = g.del
    BY GoodFields
  <2>3. Time(p, k) = (x + (a - 1) * d) + (k - 1) * d /\ Time(g, k + a - 1) = x + (k + a - 1 - 1) * d
    BY <1>1, <2>2 DEF Time
  <2>4. (a - 1) * d + (k - 1) * d = (k + a - 1 - 1) * d
    <3>1. PICK y \in Int, z \in Int : y = a - 1 /\ z = k - 1
      BY <1>3
    <3>2. y * d + z * d = (y + z) * d
      OBVIOUS
    <3>3. k + a - 1 - 1 = y + z
      BY <1>3, <3>1
    <3> QED
      BY <3>1, <3>2, <3>3
  <2>5. PICK y \in Int, z \in Int, w \in Int :
            y = (a - 1) * d /\ z = (k - 1) * d /\ w = (k + a - 1 - 1) * d
    <3>1. a - 1 \in Int /\ k - 1 \in Int /\ k + a - 1 - 1 \in Int
      BY <1>3
    <3>2. (a - 1) * d \in Int /\ (k - 1) * d \in Int /\ (k + a - 1 - 1) * d \in Int
      BY <3>1
    <3> QED
      BY <3>2
  <2>6. Time(p, k) = Time(g, k + a - 1) + 0
    BY <2>3, <2>4, <2>5
  <2> QED
    BY <1>1, <2>1, <2>6 DEF Later
<1>5. Within(0, Most(0)) /\ 0 \in Int
  BY WithinNone
<1>6. From(p, {g}, Most(0))
  BY <1>1, <1>3, <1>4, <1>5 DEF From
<1> QED
  BY <1>1, <1>2, <1>6

\* What truncate leaves is the samples between its indices, at least, at their times.
LEMMA TruncateFrom ==
    ASSUME NEW g \in Good, NEW i1 \in Nat, NEW i2 \in Int
    PROVE  /\ TruncateSegment(g, i1, i2) \in Good
           /\ From(TruncateSegment(g, i1, i2), {g}, Most(0))
           /\ \A l \in 1..Len(g.data) :
                 i1 <= l - 1 /\ l - 1 <= i2 => g.data[l] \in Data(TruncateSegment(g, i1, i2))
<1>1. CASE TruncateSegment(g, i1, i2) = g
  <2>1. From(g, {g}, Most(0))
    BY FromSelf
  <2>2. \A l \in 1..Len(g.data) : g.data[l] \in Data(g)
    BY DEF Data
  <2> QED
    BY <1>1, <2>1, <2>2
<1>2. CASE TruncateSegment(g, i1, i2) # g
  <2>1. PICK n \in Nat : n = Len(g.data)
    BY GoodFields
  <2>2. /\ i1 < n
        /\ \E b \in (i1 + 1)..n :
              /\ TruncateSegment(g, i1, i2) = Part(g, i1 + 1, b)
              /\ b = i2 + 1 \/ b = n
    BY <1>2, <2>1, TruncateIs
  <2>3. PICK b \in (i1 + 1)..n : TruncateSegment(g, i1, i2) = Part(g, i1 + 1, b) /\ (b = i2 + 1 \/ b = n)
    BY <2>2
  <2>4. i1 + 1 \in 1..n
    BY <2>2
  <2>5. \A l \in 1..n : i1 <= l - 1 /\ l - 1 <= i2 => l \in (i1 + 1)..b
    BY <2>3
  <2>6. /\ Part(g, i1 + 1, b) \in Good /\ From(Part(g, i1 + 1, b), {g}, Most(0))
        /\ \A l \in (i1 + 1)..b : g.data[l] \in Data(Part(g, i1 + 1, b))
    BY <2>1, <2>4, PartIs, PartFrom
  <2> QED
    BY <2>1, <2>3, <2>5, <2>6
<1> QED
  BY <1>1, <1>2

\* At most one segment, with samples of g at their times.
Piece(part, g) ==
    part \in Seq(Good) /\ Len(part) <= 1 /\ \A p \in Members(part) : From(p, {g}, Most(0))

\* A place of g that new may take.
Taken(g, new, l) ==
    Overlaps(g, new) /\ l - 1 <= D2(g, new) /\ (D1(g, new) <= 0 \/ l - 1 > D1(g, new))

\* No segment and one segment of such a kind.
LEMMA PieceNone == ASSUME NEW g PROVE Piece(<<>>, g) /\ All(<<>>) = {}
<1>1. <<>> \in Seq(Good) /\ Len(<<>>) = 0 /\ All(<<>>) = {}
  BY None
<1>2. Members(<<>>) = {}
  BY <1>1 DEF Members
<1> QED
  BY <1>1, <1>2 DEF Piece

LEMMA PieceOne ==
    ASSUME NEW g, NEW p \in Good, From(p, {g}, Most(0))
    PROVE  Piece(<<p>>, g) /\ All(<<p>>) = Data(p)
<1>1. <<p>> \in Seq(Good) /\ Len(<<p>>) = 1 /\ All(<<p>>) = Data(p) /\ Members(<<p>>) = {p}
  BY One, MembersOne
<1> QED
  BY <1>1 DEF Piece

\* What is left of g at its place and behind new: all but the places that new takes.
LEMMA KeptAndRest ==
    ASSUME NEW g \in Good, NEW new \in Good
    PROVE  /\ Piece(Kept(g, new), g) /\ Piece(Rest(g, new), g)
           /\ ~InMiddle(g, new) => Rest(g, new) = <<>>
           /\ \A l \in 1..Len(g.data) :
                 ~Taken(g, new, l) => g.data[l] \in All(Kept(g, new)) \cup All(Rest(g, new))
<1>1. PICK d1 \in Int, d2 \in Int, n \in Nat :
          /\ d1 = D1(g, new) /\ d2 = D2(g, new) /\ n = Len(g.data) /\ d1 < d2
          /\ Overlaps(g, new) => d2 >= 1
  BY Overlapped, GoodFields
<1>2. Piece(Rest(g, new), g) /\ (~InMiddle(g, new) => Rest(g, new) = <<>>)
      /\ (InMiddle(g, new) => \A l \in 1..n : d2 + 1 <= l - 1 => g.data[l] \in All(Rest(g, new)))
  <2>1. CASE ~(InMiddle(g, new) /\ d2 + 1 < n)
    <3>1. Rest(g, new) = <<>>
      BY <1>1, <2>1 DEF Rest
    <3>2. InMiddle(g, new) => \A l \in 1..n : ~(d2 + 1 <= l - 1)
      BY <2>1
    <3> QED
      BY <3>1, <3>2, PieceNone
  <2>2. CASE InMiddle(g, new) /\ d2 + 1 < n
    <3>1. Overlaps(g, new)
      BY <2>2 DEF InMiddle
    <3>2. Rest(g, new) = <<TruncateSegment(g, d2 + 1, n)>> /\ d2 + 1 \in Nat /\ n \in Int
      BY <1>1, <2>2, <3>1 DEF Rest
    <3>3. PICK p \in Good : /\ p = TruncateSegment(g, d2 + 1, n) /\ From(p, {g}, Most(0))
                            /\ \A l \in 1..n : d2 + 1 <= l - 1 /\ l - 1 <= n => g.data[l] \in Data(p)
      BY <1>1, <3>2, TruncateFrom
    <3>4. Piece(<<p>>, g) /\ All(<<p>>) = Data(p)
      BY <3>3, PieceOne
    <3>5. \A l \in 1..n : l - 1 <= n
      OBVIOUS
    <3> QED
      BY <2>2, <3>2, <3>3, <3>4, <3>5
  <2> QED
    BY <2>1, <2>2
<1>3. /\ Piece(Kept(g, new), g)
      /\ \A l \in 1..n : \/ g.data[l] \in All(Kept(g, new))
                         \/ /\ Overlaps(g, new)
                            /\ d1 <= 0 => l - 1 <= d2
                            /\ d1 > 0 => l - 1 > d1
  <2>1. CASE ~Overlaps(g, new)
    <3>1. Kept(g, new) = <<g>>
      BY <2>1 DEF Kept
    <3>2. Piece(<<g>>, g) /\ All(<<g>>) = Data(g)
      BY FromSelf, PieceOne
    <3> QED
      BY <1>1, <3>1, <3>2 DEF Data
  <2>2. CASE Overlaps(g, new) /\ d1 <= 0 /\ d2 >= n
    <3>1. Kept(g, new) = <<>>
      BY <1>1, <2>2 DEF Kept
    <3>2. \A l \in 1..n : l - 1 <= d2
      BY <2>2
    <3>3. ~(d1 > 0)
      BY <2>2
    <3> QED
      BY <2>2, <3>1, <3>2, <3>3, PieceNone
  <2>3. CASE Overlaps(g, new) /\ d1 <= 0 /\ d2 < n
    <3>1. Kept(g, new) = <<TruncateSegment(g, d2 + 1, n - 1)>>
      BY <1>1, <2>3 DEF Kept
    <3>2. d2 + 1 \in Nat /\ n - 1 \in Int
      BY <1>1, <2>3
    <3>3. PICK p \in Good : /\ p = TruncateSegment(g, d2 + 1, n - 1) /\ From(p, {g}, Most(0))
                            /\ \A l \in 1..n : d2 + 1 <= l - 1 /\ l - 1 <= n - 1 => g.data[l] \in Data(p)
      BY <1>1, <3>2, TruncateFrom
    <3>4. Piece(<<p>>, g) /\ All(<<p>>) = Data(p)
      BY <3>3, PieceOne
    <3>5. \A l \in 1..n : l - 1 <= n - 1 /\ (d2 + 1 <= l - 1 \/ l - 1 <= d2)
      OBVIOUS
    <3>6. ~(d1 > 0)
      BY <2>3
    <3> QED
      BY <2>3, <3>1, <3>3, <3>4, <3>5, <3>6
  <2>4. CASE Overlaps(g, new) /\ d1 > 0
    <3>1. Kept(g, new) = <<TruncateSegment(g, 0, d1)>>
      BY <1>1, <2>4 DEF Kept
    <3>2. 0 \in Nat
      OBVIOUS
    <3>3. PICK p \in Good : /\ p = TruncateSegment(g, 0, d1) /\ From(p, {g}, Most(0))
                            /\ \A l \in 1..n : 0 <= l - 1 /\ l - 1 <= d1 => g.data[l] \in Data(p)
      BY <1>1, <3>2, TruncateFrom
    <3>4. Piece(<<p>>, g) /\ All(<<p>>) = Data(p)
      BY <3>3, PieceOne
    <3>5. \A l \in 1..n : 0 <= l - 1 /\ (l - 1 <= d1 \/ l - 1 > d1)
      OBVIOUS
    <3>6. ~(d1 <= 0)
      BY <2>4
    <3> QED
      BY <2>4, <3>1, <3>3, <3>4, <3>5, <3>6
  <2> QED
    BY <2>1, <2>2, <2>3, <2>4
<1>4. ASSUME NEW l \in 1..n, ~Taken(g, new, l)
      PROVE  g.data[l] \in All(Kept(g, new)) \cup All(Rest(g, new))
  <2>1. ~(Overlaps(g, new) /\ l - 1 <= d2 /\ (d1 <= 0 \/ l - 1 > d1))
    BY <1>1, <1>4 DEF Taken
  <2>2. CASE g.data[l] \in All(Kept(g, new))
    BY <2>2
  <2>3. CASE g.data[l] \notin All(Kept(g, new))
    <3>1. Overlaps(g, new) /\ (d1 <= 0 => l - 1 <= d2) /\ (d1 > 0 => l - 1 > d1)
      BY <1>3, <2>3
    <3>2. d1 > 0 /\ d2 + 1 <= l - 1 /\ d2 < n
      BY <2>1, <3>1
    <3>3. InMiddle(g, new)
      BY <1>1, <3>1, <3>2 DEF InMiddle
    <3> QED
      BY <1>2, <3>2, <3>3
  <2> QED
    BY <2>2, <2>3
<1> QED
  BY <1>1, <1>2, <1>3, <1>4

\* The places that new may take are less than two intervals behind it.
LEMMA TakenTimes ==
    ASSUME NEW g \in Good, NEW new \in Good, NEW l \in 1..Len(g.data), Len(g.data) > 1,
           Taken(g, new, l)
    PROVE  Time(g, l) \in (new.beg - Interval + 1)..(End(new) + 2 * Interval)
<1>1. PICK d \in Nat \ {0}, b \in Int, nb \in Int, e \in Int :
          d = Interval /\ b = g.beg /\ nb = new.beg /\ e = End(new)
  <2>1. Interval \in Nat \ {0} /\ g.beg \in Int /\ new.beg \in Int /\ End(new) \in Int
    BY GoodFields, Ends, IntervalAssumption
  <2> QED
    BY <2>1
<1>2. g.del = d
  BY <1>1, GoodFields
<1>3. PICK x \in Int, y \in Int : x = nb - b /\ y = 100 * (e - b) + 99 * d
  OBVIOUS
<1>4. PICK p \in Int : p = x \div d /\ x < d * p + d
  BY Quotient
<1>5. 100 * d \in Nat \ {0}
  OBVIOUS
<1>6. PICK q \in Int : q = y \div (100 * d) /\ (100 * d) * q <= y
  BY <1>5, Quotient
<1>7. D1(g, new) = p /\ D2(g, new) = q + 1
  BY <1>1, <1>2, <1>3, <1>4, <1>6 DEF D1, D2
<1>8. PICK j \in Nat : j = l - 1
  BY GoodFields
<1>9. j <= q + 1 /\ (p <= 0 \/ p + 1 <= j)
  <2>1. l - 1 <= D2(g, new) /\ (D1(g, new) <= 0 \/ l - 1 > D1(g, new))
    BY DEF Taken
  <2> QED
    BY <1>7, <1>8, <2>1
<1>10. PICK z \in Int, w \in Int, v \in Nat : z = q * d /\ w = p * d /\ v = j * d
  <2>1. q * d \in Int /\ p * d \in Int /\ j * d \in Nat
    BY Times
  <2> QED
    BY <2>1
<1>11. Time(g, l) = b + v
  BY <1>1, <1>2, <1>8, <1>10 DEF Time
<1>12. v <= e - b + 2 * d
  <2>1. v <= z + d
    <3>1. j * d <= (q + 1) * d
      BY <1>9, Monotone
    <3>2. (q + 1) * d = q * d + d
      OBVIOUS
    <3> QED
      BY <1>10, <3>1, <3>2
  <2>2. 100 * z <= 100 * (e - b) + 99 * d
    <3>1. (100 * d) * q = 100 * (q * d)
      OBVIOUS
    <3> QED
      BY <1>3, <1>6, <1>10, <3>1
  <2>3. z <= (e - b) + d
    BY <2>2
  <2> QED
    BY <2>1, <2>3
<1>13. b + v > nb - d
  <2>1. nb - b < w + d
    <3>1. d * p = p * d
      OBVIOUS
    <3> QED
      BY <1>3, <1>4, <1>10, <3>1
  <2>2. CASE p <= 0
    <3>1. p * d <= 0 * d /\ 0 * d = 0
      BY <2>2, Monotone
    <3>2. w <= 0
      BY <1>10, <3>1
    <3> QED
      BY <2>1, <3>2
  <2>3. CASE p + 1 <= j
    <3>1. (p + 1) * d <= j * d
      BY <2>3, Monotone
    <3>2. (p + 1) * d = p * d + d
      OBVIOUS
    <3>3. w + d <= v
      BY <1>10, <3>1, <3>2
    <3> QED
      BY <2>1, <3>3
  <2> QED
    BY <1>9, <2>2, <2>3
<1>14. b + v \in (nb - d + 1)..(e + 2 * d)
  BY <1>12, <1>13
<1> QED
  BY <1>1, <1>11, <1>14

\* Samples of segments, by segment.
LEMMA AllMembers ==
    ASSUME NEW segs, NEW x PROVE x \in All(segs) <=> \E p \in Members(segs) : x \in Data(p)
BY DEF All, Members

\* A new segment is joined to what is left of the others: at most two segments
\* more than there were, their samples at their times.
LEMMA AddMoves ==
    ASSUME NEW segs \in Seq(Good), NEW new \in Good
    PROVE  \E c \in Nat, S \in SUBSET Good :
              /\ Len(AddSegment(segs, new)) \in Nat
              /\ Len(AddSegment(segs, new)) + c <= Len(segs) + 2
              /\ segs = <<>> => Len(AddSegment(segs, new)) + c = 1
              /\ Moved(Members(AddSegment(segs, new)), S, c)
              /\ new \in S
              /\ \A p \in S : p = new \/ \E g \in Members(segs) : From(p, {g}, Most(0))
              /\ \A g \in Members(segs) : \A l \in 1..Len(g.data) :
                    Taken(g, new, l) \/ \E p \in S : g.data[l] \in Data(p)
<1>1. PICK n \in Nat : n = Len(segs) /\ DOMAIN segs = 1..n /\ \A i \in 1..n : segs[i] \in Good
  BY Places1
<1>2. PICK middle \in SUBSET (1..n) : middle = {i \in DOMAIN segs : InMiddle(segs[i], new)}
  <2>1. {i \in DOMAIN segs : InMiddle(segs[i], new)} \in SUBSET (1..n)
    BY <1>1
  <2> QED
    BY <2>1
<1>3. PICK m : m = CHOOSE i \in middle : \A j \in middle : j <= i
  OBVIOUS
<1>4. middle # {} => m \in middle /\ \A j \in middle : j <= m
  <2> SUFFICES ASSUME middle # {} PROVE m \in middle /\ \A j \in middle : j <= m
    OBVIOUS
  <2>1. \E i \in middle : \A j \in middle : j <= i
    BY Greatest
  <2> QED
    BY <1>3, <2>1
<1>5. PICK old : old = [i \in 1..n |-> IF \E j \in middle : i < j THEN <<segs[i]>>
                                       ELSE Kept(segs[i], new)]
  OBVIOUS
<1>6. PICK rest : rest = IF middle = {} THEN <<>> ELSE Rest(segs[m], new)
  OBVIOUS
<1>7. PICK flat : flat = FlattenSeq(old)
  OBVIOUS
<1>8. AddSegment(segs, new) = JoinSegments(Sorted(flat \o <<new>> \o rest))
  BY <1>1, <1>2, <1>3, <1>5, <1>6, <1>7 DEF AddSegment
<1>9. ASSUME NEW i \in 1..n PROVE Piece(old[i], segs[i])
  <2>1. PICK g \in Good : g = segs[i]
    BY <1>1
  <2>2. old[i] = <<g>> \/ old[i] = Kept(g, new)
    BY <1>5, <2>1
  <2>3. Piece(<<g>>, g)
    BY FromSelf, PieceOne
  <2> QED
    BY <2>1, <2>2, <2>3, KeptAndRest
<1>10. \A i \in 1..n : /\ old[i] \in Seq(Good) /\ Len(old[i]) <= 1
                       /\ \A p \in Members(old[i]) : From(p, {segs[i]}, Most(0))
  BY <1>9 DEF Piece
<1>11. DOMAIN old = 1..n /\ old \in Seq(Seq(Good)) /\ Len(old) = n
  <2>1. old = [i \in 1..n |-> old[i]]
    BY <1>5
  <2>2. \A i \in 1..n : old[i] \in Seq(Good)
    BY <1>10
  <2> QED
    BY <2>1, <2>2
<1>12. /\ flat \in Seq(Good) /\ Len(flat) <= n
       /\ Members(flat) = UNION {Members(old[i]) : i \in 1..n}
  BY <1>7, <1>10, <1>11, FlattenMembers
<1>13. /\ rest \in Seq(Good) /\ Len(rest) <= 1 /\ (n = 0 => Len(rest) = 0)
       /\ \A p \in Members(rest) : \E i \in 1..n : From(p, {segs[i]}, Most(0))
  <2>1. CASE middle = {}
    <3>1. rest = <<>>
      BY <1>6, <2>1
    <3> QED
      BY <3>1, None, MembersOne DEF Members
  <2>2. CASE middle # {}
    <3>1. m \in 1..n
      BY <1>4, <2>2
    <3>2. PICK g \in Good : g = segs[m]
      BY <1>1, <3>1
    <3>3. Piece(rest, g)
      BY <1>6, <2>2, <3>2, KeptAndRest
    <3>4. n # 0
      BY <3>1
    <3> QED
      BY <3>1, <3>2, <3>3, <3>4 DEF Piece
  <2> QED
    BY <2>1, <2>2
<1>14. PICK one \in Seq(Good) : one = <<new>> /\ Len(one) = 1 /\ Members(one) = {new}
  BY One, MembersOne
<1>15. PICK fn \in Seq(Good) : /\ fn = flat \o one /\ Len(fn) = Len(flat) + Len(one)
                               /\ Members(fn) = Members(flat) \cup Members(one)
  BY <1>12, Cat, MembersCat
<1>16. PICK all \in Seq(Good) : /\ all = fn \o rest /\ Len(all) = Len(fn) + Len(rest)
                                /\ Members(all) = Members(fn) \cup Members(rest)
  BY <1>13, Cat, MembersCat
<1>17. PICK S \in SUBSET Good : S = Members(all)
  <2>1. Members(all) \in SUBSET Good
    BY Places1 DEF Members
  <2> QED
    BY <2>1
<1>18. S = (UNION {Members(old[i]) : i \in 1..n}) \cup {new} \cup Members(rest)
  BY <1>12, <1>14, <1>15, <1>16, <1>17
<1>19. PICK k \in Nat : k = Len(all) /\ k <= n + 2 /\ (n = 0 => k = 1)
  <2>1. PICK x \in Nat, y \in Nat : x = Len(flat) /\ y = Len(rest) /\ x <= n /\ y <= 1 /\ (n = 0 => y = 0)
    BY <1>12, <1>13, Places1
  <2>2. Len(all) = x + 1 + y
    BY <1>14, <1>15, <1>16, <2>1
  <2>3. x + 1 + y \in Nat /\ x + 1 + y <= n + 2 /\ (n = 0 => x + 1 + y = 1)
    BY <2>1
  <2> QED
    BY <2>2, <2>3
<1>20. PICK sorted \in Seq(Good) : /\ sorted = Sorted(all)
                                   /\ Members(sorted) = S /\ Len(sorted) = k
  BY <1>17, <1>19, SortedIs, SortedMembers
<1>21. AddSegment(segs, new) = JoinSegments(sorted)
  BY <1>8, <1>14, <1>15, <1>16, <1>20
<1>22. PICK c \in Nat : /\ Len(JoinSegments(sorted)) \in Nat
                        /\ Len(JoinSegments(sorted)) + c = k
                        /\ Moved(Members(JoinSegments(sorted)), S, c)
  BY <1>20, JoinMoves
<1>23. segs = <<>> => n = 0
  BY <1>1
<1>24. ASSUME NEW p \in S, p # new PROVE \E g \in Members(segs) : From(p, {g}, Most(0))
  <2>1. \E i \in 1..n : From(p, {segs[i]}, Most(0))
    BY <1>10, <1>13, <1>18, <1>24
  <2> QED
    BY <1>1, <2>1 DEF Members
<1>25. ASSUME NEW g \in Members(segs), NEW l \in 1..Len(g.data), ~Taken(g, new, l)
       PROVE  \E p \in S : g.data[l] \in Data(p)
  <2>1. PICK i \in 1..n : g = segs[i]
    BY <1>1 DEF Members
  <2>2. g \in Good
    BY <1>1, <2>1
  <2>3. ASSUME g.data[l] \in All(old[i]) PROVE \E p \in S : g.data[l] \in Data(p)
    BY <1>18, <2>3, AllMembers
  <2>4. CASE \E j \in middle : i < j
    <3>1. old[i] = <<g>>
      BY <1>5, <2>1, <2>4
    <3>2. All(<<g>>) = Data(g) /\ g.data[l] \in Data(g)
      BY <2>2, One DEF Data
    <3> QED
      BY <2>3, <3>1, <3>2
  <2>5. CASE ~(\E j \in middle : i < j)
    <3>1. old[i] = Kept(g, new)
      BY <1>5, <2>1, <2>5
    <3>2. g.data[l] \in All(old[i]) \/ g.data[l] \in All(Rest(g, new))
      BY <1>25, <2>2, <3>1, KeptAndRest
    <3>3. CASE g.data[l] \in All(Rest(g, new))
      <4>1. InMiddle(g, new)
        BY <2>2, <3>3, KeptAndRest, None
      <4>2. i \in middle
        BY <1>1, <1>2, <2>1, <4>1
      <4>3. m \in 1..n /\ i <= m /\ ~(i < m)
        BY <1>4, <2>5, <4>2
      <4>4. i = m
        BY <4>3
      <4>5. rest = Rest(g, new)
        BY <1>6, <2>1, <4>2, <4>4
      <4> QED
        BY <1>18, <3>3, <4>5, AllMembers
    <3> QED
      BY <2>3, <3>2, <3>3
  <2> QED
    BY <2>4, <2>5
<1>26. new \in S
  BY <1>18
<1>27. PICK o \in Nat : o = Len(AddSegment(segs, new)) /\ o + c = k
  BY <1>21, <1>22
<1>28. /\ Len(AddSegment(segs, new)) \in Nat
       /\ Len(AddSegment(segs, new)) + c <= Len(segs) + 2
       /\ segs = <<>> => Len(AddSegment(segs, new)) + c = 1
  BY <1>1, <1>19, <1>23, <1>27
<1>29. Moved(Members(AddSegment(segs, new)), S, c)
  BY <1>21, <1>22
<1>30. \A p \in S : p = new \/ \E g \in Members(segs) : From(p, {g}, Most(0))
  BY <1>24
<1>31. \A g \in Members(segs) : \A l \in 1..Len(g.data) :
          Taken(g, new, l) \/ \E p \in S : g.data[l] \in Data(p)
  BY <1>25
<1> QED
  BY <1>26, <1>28, <1>29, <1>30, <1>31

-----------------------------------------------------------------------------
(* How far samples are from their times *)

\* The samples of g are at most m from the times they were measured at.
Near(g, m) == \A k \in 1..Len(g.data) : Within(Time(g, k) - g.data[k].time, m)

\* Distances add up.
LEMMA FromNear ==
    ASSUME NEW g \in Good, NEW S \in SUBSET Good, NEW c \in Nat, NEW e \in Nat,
           From(g, S, Most(c)), \A h \in S : Near(h, Most(e))
    PROVE  Near(g, Most(c + e))
<1> SUFFICES ASSUME NEW k \in 1..Len(g.data) PROVE Within(Time(g, k) - g.data[k].time, Most(c + e))
  BY DEF Near
<1>1. PICK h \in S : \E l \in 1..Len(h.data), d \in Int : Within(d, Most(c)) /\ Later(g, k, h, l, d)
  BY DEF From
<1>2. PICK l \in 1..Len(h.data), d \in Int : Within(d, Most(c)) /\ Later(g, k, h, l, d)
  BY <1>1
<1>3. h \in Good /\ k \in Int /\ l \in Int
  BY GoodFields
<1>4. PICK x \in Sample : x = h.data[l]
  BY <1>3, GoodFields
<1>5. g.data[k] = x /\ Time(g, k) = Time(h, l) + d
  BY <1>2, <1>4 DEF Later
<1>6. PICK u \in Int, v \in Int : u = Time(h, l) /\ v = x.time
  BY <1>3, TimeIs DEF Sample
<1>7. Within(u - v, Most(e))
  BY <1>4, <1>6 DEF Near
<1>8. Within(d + (u - v), Most(c + e))
  BY <1>2, <1>7, WithinAdds
<1>9. d + (u - v) = (u + d) - v
  OBVIOUS
<1> QED
  BY <1>5, <1>6, <1>8, <1>9

\* The bound may be greater.
LEMMA NearGrows ==
    ASSUME NEW g, NEW c \in Nat, NEW e \in Nat, c <= e, Near(g, Most(c)) PROVE Near(g, Most(e))
BY WithinGrows DEF Near

\* A piece is at its times.
LEMMA SegNear ==
    ASSUME NEW beg \in Starts, NEW n \in Lengths, NEW p \in 1..MaxPieces, NEW c \in Nat
    PROVE  Near(Seg(beg, n, p), Most(c))
<1>1. PICK g \in Good : g = Seg(beg, n, p)
  BY SegIs
<1>2. n \in Nat \ {0}
  BY LengthsAssumption
<1>3. /\ g.beg = beg /\ g.del = Interval
      /\ g.data = [k \in 1..n |-> [piece |-> p, time |-> beg + (k - 1) * Interval]]
  BY <1>1 DEF Seg
<1>4. Len(g.data) = n
  BY <1>2, <1>3
<1> SUFFICES ASSUME NEW k \in 1..n PROVE Within(Time(g, k) - g.data[k].time, Most(c))
  BY <1>1, <1>4 DEF Near
<1>5. g.data[k].time = Time(g, k)
  BY <1>3 DEF Time
<1>6. Time(g, k) \in Int
  BY TimeIs
<1>7. Time(g, k) - g.data[k].time = 0
  BY <1>5, <1>6
<1> QED
  BY <1>7, WithinNone

\* While pieces are read: each of them has added at most two segments, what is
\* missing to that was joined, and no sample is further from its time than so
\* many joins move it.
DInv == phase = "reading" =>
    /\ pieces = 0 => s = <<>>
    /\ pieces > 0 => Len(s) <= 2 * pieces - 1
    /\ \A g \in Members(s) : Near(g, Most(2 * pieces - 1 - Len(s)))

\* What DInv says of segments and a number of pieces.
Drifted(ss, p) ==
    /\ p = 0 => ss = <<>>
    /\ p > 0 => Len(ss) <= 2 * p - 1
    /\ \A g \in Members(ss) : Near(g, Most(2 * p - 1 - Len(ss)))

\* A piece that is read keeps it.
LEMMA ReadDrift ==
    ASSUME IInv, Drifted(s, pieces), NEW beg \in Starts, NEW n \in Lengths, pieces < MaxPieces
    PROVE  Drifted(AddSegment(s, Seg(beg, n, pieces + 1)), pieces + 1)
<1>1. PICK q \in Nat : q = pieces /\ q + 1 \in 1..MaxPieces
  <2>1. pieces \in Nat /\ MaxPieces \in Nat
    BY BoundsAssumption DEF IInv
  <2> QED
    BY <2>1
<1>2. PICK new \in Good : new = Seg(beg, n, q + 1)
  BY <1>1, SegIs
<1>3. s \in Seq(Good)
  BY DEF IInv
<1>4. PICK L \in Nat : L = Len(s)
  BY <1>3, Places1
<1>5. PICK ss \in Seq(Good) : ss = AddSegment(s, new)
  BY <1>3, AddSegmentIs
<1>6. PICK c \in Nat, S \in SUBSET Good :
          /\ Len(ss) \in Nat /\ Len(ss) + c <= Len(s) + 2
          /\ s = <<>> => Len(ss) + c = 1
          /\ Moved(Members(ss), S, c)
          /\ \A p \in S : p = new \/ \E g \in Members(s) : From(p, {g}, Most(0))
  BY <1>3, <1>5, AddMoves
<1>7. PICK M \in Nat : M = Len(ss)
  BY <1>6
<1>8. PICK w \in Nat : /\ \A g \in Members(s) : Near(g, Most(w))
                       /\ c + w <= 2 * (q + 1) - 1 - M
  <2>1. CASE q = 0
    <3>1. s = <<>>
      BY <1>1, <2>1 DEF Drifted
    <3>2. Members(s) = {}
      BY <3>1, None DEF Members
    <3>3. M + c = 1
      BY <1>6, <1>7, <3>1
    <3>4. c + 0 <= 2 * (q + 1) - 1 - M
      BY <2>1, <3>3
    <3> QED
      BY <3>2, <3>4
  <2>2. CASE q > 0
    <3>1. L <= 2 * q - 1 /\ \A g \in Members(s) : Near(g, Most(2 * q - 1 - L))
      BY <1>1, <1>4, <2>2 DEF Drifted
    <3>2. 2 * q - 1 - L \in Nat
      BY <3>1
    <3>3. M + c <= L + 2
      BY <1>4, <1>6, <1>7
    <3>4. c + (2 * q - 1 - L) <= 2 * (q + 1) - 1 - M
      BY <3>3
    <3> QED
      BY <3>1, <3>2, <3>4
  <2> QED
    BY <2>1, <2>2
<1>9. Members(s) \subseteq Good /\ Members(ss) \subseteq Good
  BY <1>3, Places1 DEF Members
<1>10. ASSUME NEW p \in S PROVE Near(p, Most(w))
  <2>1. CASE p = new
    BY <1>1, <1>2, <2>1, SegNear
  <2>2. CASE p # new
    <3>1. PICK g \in Members(s) : From(p, {g}, Most(0))
      BY <1>6, <2>2
    <3>2. {g} \in SUBSET Good /\ \A h \in {g} : Near(h, Most(w))
      BY <1>8, <1>9
    <3>3. 0 \in Nat /\ 0 + w = w /\ p \in Good
      OBVIOUS
    <3>4. Near(p, Most(0 + w))
      BY <3>1, <3>2, <3>3, FromNear
    <3> QED
      BY <3>3, <3>4
  <2> QED
    BY <2>1, <2>2
<1>11. PICK e \in Nat : e = 2 * (q + 1) - 1 - M /\ c + w <= e
  <2>1. 2 * (q + 1) - 1 - M \in Nat
    BY <1>8
  <2> QED
    BY <1>8, <2>1
<1>12. ASSUME NEW g \in Members(ss) PROVE Near(g, Most(e))
  <2>1. From(g, S, Most(c)) /\ g \in Good
    BY <1>6, <1>9 DEF Moved
  <2>2. Near(g, Most(c + w))
    BY <1>10, <2>1, FromNear
  <2>3. c + w \in Nat
    OBVIOUS
  <2> QED
    BY <1>11, <2>2, <2>3, NearGrows
<1>13. q + 1 # 0 /\ M <= 2 * (q + 1) - 1
  BY <1>11
<1>14. Drifted(ss, q + 1)
  BY <1>7, <1>11, <1>12, <1>13 DEF Drifted
<1> QED
  BY <1>1, <1>2, <1>5, <1>14

\* So do the other steps: after them nothing is read, or nothing was.
LEMMA NextDInv == IInv /\ DInv /\ [Next]_vars => DInv'
<1> SUFFICES ASSUME IInv, DInv, [Next]_vars, phase' = "reading" PROVE Drifted(s', pieces')
  BY DEF DInv, Drifted
<1>1. ASSUME NEW beg \in Starts, NEW n \in Lengths, ReadSegment(beg, n) PROVE Drifted(s', pieces')
  <2>1. /\ phase = "reading" /\ pieces < MaxPieces
        /\ s' = AddSegment(s, Seg(beg, n, pieces + 1)) /\ pieces' = pieces + 1
    BY <1>1 DEF ReadSegment
  <2>2. Drifted(s, pieces)
    BY <2>1 DEF DInv, Drifted
  <2> QED
    BY <2>1, <2>2, ReadDrift
<1>2. ASSUME NEW t1 \in Windows, NEW t2 \in Windows, EndRead(t1, t2) PROVE FALSE
  BY <1>2 DEF EndRead
<1>3. ASSUME NEW t1 \in Windows, NEW t2 \in Windows, Cut(t1, t2) PROVE FALSE
  BY <1>3 DEF Cut
<1>4. CASE Copy
  BY <1>4 DEF Copy
<1>5. CASE Reread
  <2>1. s' = <<>> /\ pieces' = 0
    BY <1>5 DEF Reread
  <2>2. Members(<<>>) = {} /\ ~(0 > 0)
    BY None DEF Members
  <2> QED
    BY <2>1, <2>2 DEF Drifted
<1>6. CASE UNCHANGED vars
  BY <1>6 DEF vars, DInv, Drifted
<1>7. CASE ReadFails
  BY <1>7 DEF ReadFails
<1> QED
  BY <1>1, <1>2, <1>3, <1>4, <1>5, <1>6, <1>7 DEF Next

\* A sample is no further from the time it was measured at than the joins that
\* led to the segments there are can have moved it.
THEOREM JoinsMoveLittle == Spec => []Drift
<1>1. Init => DInv
  <2>1. Members(<<>>) = {} /\ ~(0 > 0)
    BY None DEF Members
  <2> QED
    BY <2>1 DEF Init, DInv
<1>2. IInv /\ DInv => Drift
  <2> SUFFICES ASSUME IInv, DInv, phase = "reading", NEW p \in Places(s)
               PROVE  LET most == (2 * pieces - 1 - Len(s)) * (Interval - 1)
                      IN  When(s, p) - At(s, p).time \in (-most)..most
    BY DEF Drift
  <2>1. s \in Seq(Good) /\ pieces \in Nat
    BY BoundsAssumption DEF IInv
  <2>2. PICK i \in 1..Len(s) : \E k \in 1..Len(s[i].data) : p = <<i, k>>
    BY <2>1, PlacesFinite
  <2>3. PICK k \in 1..Len(s[i].data) : p = <<i, k>>
    BY <2>2
  <2>4. s # <<>>
    BY <2>2, None
  <2>5. PICK L \in Nat : L = Len(s)
    BY <2>1, Places1
  <2>6. 2 * pieces - 1 - L \in Nat
    <3>1. pieces # 0
      BY <2>4 DEF DInv
    <3>2. L <= 2 * pieces - 1
      BY <2>1, <2>5, <3>1 DEF DInv
    <3> QED
      BY <2>1, <3>2
  <2>7. Near(s[i], Most(2 * pieces - 1 - L))
    BY <2>5 DEF DInv, Members
  <2>8. PICK m \in Nat : m = Most(2 * pieces - 1 - L)
    BY <2>6, MostIs
  <2>9. Within(When(s, p) - At(s, p).time, m)
    BY <2>3, <2>7, <2>8 DEF Near, When, At
  <2>10. m = (2 * pieces - 1 - Len(s)) * (Interval - 1)
    BY <2>5, <2>8 DEF Most
  <2>11. When(s, p) - At(s, p).time \in (-m)..m
    BY <2>9 DEF Within
  <2> QED
    BY <2>10, <2>11
<1> QED
  BY InitIInv, NextIInv, NextDInv, <1>1, <1>2, PTL DEF Spec

\* A piece that is read is in the segments, in one of them and moved by no more
\* than the joins of this step move it, and of the others only samples that are not
\* more than two intervals from it are lost.
LEMMA Overrides ==
    ASSUME NEW segs \in Seq(Good), NEW new \in Good, NEW ss, ss = AddSegment(segs, new)
    PROVE  LET most == (Len(segs) + 2 - Len(ss)) * (Interval - 1)
           IN  /\ \E p \in Places(ss) :
                     /\ When(ss, p) - new.beg \in (-most)..most
                     /\ \A k \in 1..Len(new.data) :
                           /\ <<p[1], p[2] + k - 1>> \in Places(ss)
                           /\ At(ss, <<p[1], p[2] + k - 1>>) = new.data[k]
               /\ \A p \in Places(segs) : At(segs, p) \notin Samples(ss) =>
                     \/ Len(segs[p[1]].data) = 1
                     \/ When(segs, p) \in (new.beg - Interval + 1)..(End(new) + 2 * Interval)
<1>1. ss \in Seq(Good)
  BY AddSegmentIs
<1>2. PICK c \in Nat, S \in SUBSET Good :
          /\ Len(ss) \in Nat /\ Len(ss) + c <= Len(segs) + 2
          /\ Moved(Members(ss), S, c) /\ new \in S
          /\ \A g \in Members(segs) : \A l \in 1..Len(g.data) :
                Taken(g, new, l) \/ \E p \in S : g.data[l] \in Data(p)
  BY AddMoves
<1>3. PICK m \in Nat : m = Len(segs) + 2 - Len(ss) /\ c <= m
  <2>1. PICK L \in Nat, M \in Nat : L = Len(segs) /\ M = Len(ss) /\ M + c <= L + 2
    BY <1>2, Places1
  <2>2. L + 2 - M \in Nat /\ c <= L + 2 - M
    BY <2>1
  <2> QED
    BY <2>1, <2>2
<1>4. PICK most \in Nat : most = Most(m) /\ most = (Len(segs) + 2 - Len(ss)) * (Interval - 1)
  BY <1>3, MostIs DEF Most
<1>5. \E p \in Places(ss) :
         /\ When(ss, p) - new.beg \in (-most)..most
         /\ \A k \in 1..Len(new.data) : /\ <<p[1], p[2] + k - 1>> \in Places(ss)
                                        /\ At(ss, <<p[1], p[2] + k - 1>>) = new.data[k]
  <2>1. Held(new, Members(ss), Most(c))
    BY <1>2 DEF Moved
  <2>2. PICK g \in Members(ss), o \in Nat, d \in Int : Within(d, Most(c)) /\ Lies(new, g, o, d)
    BY <2>1 DEF Held
  <2>3. PICK i \in 1..Len(ss) : g = ss[i]
    BY DEF Members
  <2>4. PICK b \in Nat, n \in Nat : b = Len(g.data) /\ n = Len(new.data) /\ n > 0
    BY <1>1, <2>3, Places1, GoodFields
  <2>5. o + n <= b /\ \A k \in 1..n : Later(g, o + k, new, k, d)
    BY <2>2, <2>4 DEF Lies
  <2>6. PICK p : p = <<i, o + 1>>
    OBVIOUS
  <2>7. \A k \in 1..b : <<i, k>> \in Places(ss)
    BY <1>1, <2>3, <2>4, PlacesFinite
  <2>8. ASSUME NEW k \in 1..n
        PROVE  /\ <<p[1], p[2] + k - 1>> \in Places(ss)
               /\ At(ss, <<p[1], p[2] + k - 1>>) = new.data[k]
    <3>1. (o + 1) + k - 1 = o + k /\ o + k \in 1..b
      BY <2>5
    <3>2. <<p[1], p[2] + k - 1>> = <<i, o + k>>
      BY <2>6, <3>1
    <3>3. g.data[o + k] = new.data[k]
      BY <2>5 DEF Later
    <3> QED
      BY <2>3, <2>7, <3>1, <3>2, <3>3 DEF At
  <2>9. p \in Places(ss)
    <3>1. o + 1 \in 1..b
      BY <2>4, <2>5
    <3> QED
      BY <2>6, <2>7, <3>1
  <2>10. When(ss, p) - new.beg = d
    <3>1. 1 \in 1..n
      BY <2>4
    <3>2. Time(g, o + 1) = Time(new, 1) + d
      BY <2>5, <3>1 DEF Later
    <3>3. Time(new, 1) = new.beg /\ new.beg \in Int
      BY TimeIs, GoodFields
    <3>4. When(ss, p) = Time(g, o + 1)
      BY <2>3, <2>6 DEF When
    <3> QED
      BY <3>2, <3>3, <3>4
  <2>11. d \in (-most)..most
    <3>1. Within(d, most)
      BY <1>3, <1>4, <2>2, WithinGrows
    <3> QED
      BY <3>1 DEF Within
  <2> QED
    BY <2>4, <2>8, <2>9, <2>10, <2>11
<1>6. ASSUME NEW p \in Places(segs), At(segs, p) \notin Samples(ss), Len(segs[p[1]].data) # 1
      PROVE  When(segs, p) \in (new.beg - Interval + 1)..(End(new) + 2 * Interval)
  <2>1. PICK i \in 1..Len(segs) : \E l \in 1..Len(segs[i].data) : p = <<i, l>>
    BY PlacesFinite
  <2>2. PICK g \in Good : g = segs[i] /\ g \in Members(segs)
    BY Places1 DEF Members
  <2>3. PICK l \in 1..Len(g.data) : p = <<i, l>>
    BY <2>1, <2>2
  <2>4. Len(g.data) > 1
    <3>1. PICK x \in Nat \ {0} : x = Len(g.data)
      BY GoodFields
    <3>2. Len(segs[p[1]].data) = x
      BY <2>2, <2>3, <3>1
    <3>3. x # 1
      BY <1>6, <3>2
    <3>4. x > 1
      BY <3>3
    <3> QED
      BY <3>1, <3>4
  <2>5. At(segs, p) = g.data[l] /\ When(segs, p) = Time(g, l)
    BY <2>2, <2>3 DEF At, When
  <2>6. Taken(g, new, l)
    <3>1. ASSUME NEW h \in S, g.data[l] \in Data(h) PROVE FALSE
      <4>1. Held(h, Members(ss), Most(c))
        BY <1>2 DEF Moved
      <4>2. PICK f \in Members(ss), o \in Nat, d \in Int : Lies(h, f, o, d)
        BY <4>1 DEF Held
      <4>3. PICK k \in 1..Len(h.data) : g.data[l] = h.data[k]
        BY <3>1 DEF Data
      <4>4. PICK j \in 1..Len(ss) : f = ss[j]
        BY DEF Members
      <4>5. PICK a \in Nat, b \in Nat : a = Len(h.data) /\ b = Len(f.data)
        BY <1>1, <4>4, Places1, GoodFields
      <4>6. o + a <= b /\ f.data[o + k] = h.data[k]
        BY <4>2, <4>5 DEF Lies, Later
      <4>7. o + k \in 1..b
        BY <4>5, <4>6
      <4>8. <<j, o + k>> \in Places(ss)
        BY <1>1, <4>4, <4>5, <4>7, PlacesFinite
      <4>9. At(ss, <<j, o + k>>) = g.data[l]
        BY <4>3, <4>4, <4>6 DEF At
      <4> QED
        BY <1>6, <2>5, <4>8, <4>9 DEF Samples
    <3> QED
      BY <1>2, <2>2, <3>1
  <2> QED
    BY <2>4, <2>5, <2>6, TakenTimes
<1> QED
  BY <1>4, <1>5, <1>6

\* New data override old data: they are all there, and only old data near them go.
THEOREM NewDataStay == Spec => NewDataOverrides
<1> DEFINE Body(ss, beg, n) ==
               LET new  == Seg(beg, n, pieces + 1)
                   most == (Len(s) + 2 - Len(ss)) * (Interval - 1)
               IN  /\ \E p \in Places(ss) :
                         /\ When(ss, p) - beg \in (-most)..most
                         /\ \A k \in 1..n : /\ <<p[1], p[2] + k - 1>> \in Places(ss)
                                            /\ At(ss, <<p[1], p[2] + k - 1>>) = new.data[k]
                   /\ \A p \in Places(s) : At(s, p) \notin Samples(ss) =>
                         \/ Len(s[p[1]].data) = 1
                         \/ When(s, p) \in (beg - Interval + 1)..(End(new) + 2 * Interval)
           A == pieces' > pieces => \A beg \in Starts, n \in Lengths :
                    ReadSegment(beg, n) => Body(s', beg, n)
<1>1. IInv => A
  <2> SUFFICES ASSUME IInv, NEW beg \in Starts, NEW n \in Lengths, ReadSegment(beg, n)
               PROVE  Body(s', beg, n)
    OBVIOUS
  <2>1. pieces < MaxPieces /\ s' = AddSegment(s, Seg(beg, n, pieces + 1))
    BY DEF ReadSegment
  <2>2. s \in Seq(Good) /\ pieces + 1 \in 1..MaxPieces
    BY <2>1, BoundsAssumption DEF IInv
  <2>3. PICK new \in Good : new = Seg(beg, n, pieces + 1)
    BY <2>2, SegIs
  <2>4. new.beg = beg /\ Len(new.data) = n
    <3>1. n \in Nat
      BY LengthsAssumption
    <3>2. new.beg = beg /\ new.data = [k \in 1..n |-> [piece |-> pieces + 1, time |-> beg + (k - 1) * Interval]]
      BY <2>3 DEF Seg
    <3> QED
      BY <3>1, <3>2
  <2>5. PICK ss : ss = s' /\ ss = AddSegment(s, new)
    BY <2>1, <2>3
  <2>6. LET most == (Len(s) + 2 - Len(ss)) * (Interval - 1)
        IN  /\ \E p \in Places(ss) :
                  /\ When(ss, p) - new.beg \in (-most)..most
                  /\ \A k \in 1..Len(new.data) :
                        /\ <<p[1], p[2] + k - 1>> \in Places(ss)
                        /\ At(ss, <<p[1], p[2] + k - 1>>) = new.data[k]
            /\ \A p \in Places(s) : At(s, p) \notin Samples(ss) =>
                  \/ Len(s[p[1]].data) = 1
                  \/ When(s, p) \in (new.beg - Interval + 1)..(End(new) + 2 * Interval)
    BY <2>2, <2>5, Overrides
  <2>7. Body(ss, beg, n)
    BY <2>3, <2>4, <2>6
  <2> QED
    BY <2>5, <2>7
<1>2. IInv /\ [Next]_vars => [A]_vars
  BY <1>1
<1> QED
  BY InitIInv, NextIInv, <1>2, PTL DEF Spec, NewDataOverrides

-----------------------------------------------------------------------------
(* Segments that nothing is left to join *)

\* Two sample times that no join brings closer: the same, one interval apart, or
\* so far that the segments do not fit.
Gap(d) == d \in Int /\ (d = 0 \/ d = Interval \/ 100 * d > 199 * Interval)

\* It is so with what lies between three times, if with what lies between each two.
LEMMA GapAdds ==
    ASSUME NEW d, NEW e, Gap(d), Gap(e) PROVE Gap(d + e)
<1>1. PICK i \in Nat \ {0} : i = Interval
  BY IntervalAssumption
<1>2. d \in Int /\ e \in Int
  BY DEF Gap
<1>3. (d = 0 \/ d = i \/ 100 * d > 199 * i) /\ (e = 0 \/ e = i \/ 100 * e > 199 * i)
  BY <1>1 DEF Gap
<1>4. d + e \in Int /\ (d + e = 0 \/ d + e = i \/ 100 * (d + e) > 199 * i)
  BY <1>1, <1>2, <1>3
<1> QED
  BY <1>1, <1>4 DEF Gap

\* A number of intervals is a gap.
LEMMA GapTimes ==
    ASSUME NEW m \in Nat PROVE Gap(m * Interval)
<1>1. PICK i \in Nat \ {0} : i = Interval
  BY IntervalAssumption
<1>2. CASE m = 0
  BY <1>1, <1>2 DEF Gap
<1>3. CASE m = 1
  BY <1>1, <1>3 DEF Gap
<1>4. CASE m >= 2
  <2>1. 2 * i <= m * i
    BY <1>4, Monotone
  <2>2. PICK x \in Int : x = m * i
    OBVIOUS
  <2>3. 100 * x > 199 * i
    BY <1>1, <2>1, <2>2
  <2> QED
    BY <1>1, <2>2, <2>3 DEF Gap
<1> QED
  BY <1>2, <1>3, <1>4

\* Gaps are not negative, and what is in the tolerance of a join is an interval.
LEMMA GapIs ==
    ASSUME NEW d, Gap(d)
    PROVE  /\ d \in Int /\ d >= 0
           /\ 100 * (d - Interval) <= 99 * Interval /\ -100 * (d - Interval) <= 99 * Interval
              => d = Interval
           /\ 100 * d <= 99 * Interval => d = 0
<1>1. PICK i \in Nat \ {0} : i = Interval
  BY IntervalAssumption
<1>2. d \in Int /\ (d = 0 \/ d = i \/ 100 * d > 199 * i)
  BY <1>1 DEF Gap
<1>3. d >= 0 /\ (100 * d <= 99 * i => d = 0)
  BY <1>1, <1>2
<1>4. 100 * (d - i) <= 99 * i /\ -100 * (d - i) <= 99 * i => d = i
  BY <1>1, <1>2
<1> QED
  BY <1>1, <1>2, <1>3, <1>4

\* Distances outside of the tolerance of a join, that are not negative, are gaps.
LEMMA GapOutside ==
    ASSUME NEW d \in Int, d >= 0,
           ~(100 * (d - Interval) <= 99 * Interval /\ -100 * (d - Interval) <= 99 * Interval)
    PROVE  Gap(d)
<1>1. PICK i \in Nat \ {0} : i = Interval /\ i <= 99
  BY IntervalAssumption
<1>2. ~(100 * (d - i) <= 99 * i /\ -100 * (d - i) <= 99 * i)
  BY <1>1
<1>3. d = 0 \/ 100 * d > 199 * i
  BY <1>1, <1>2
<1> QED
  BY <1>1, <1>3 DEF Gap

\* y begins a gap after x ends.
Apart(x, y) == Gap(y.beg - End(x))

\* Segments in a row, each begins behind those before it, a gap after they end.
Chain(segs) == \A i, j \in 1..Len(segs) :
    i < j => segs[i].beg < segs[j].beg /\ Apart(segs[i], segs[j])

\* What Settled says, of any segments.
Tidy(segs) ==
    /\ Following(segs) /\ \A i \in 1..Len(segs) : Len(segs[i].data) > 1
    /\ \A i \in 1..(Len(segs) - 1) : ~Fits(segs[i], segs[i + 1])

\* Segments of several samples end intervals after they begin.
LEMMA EndIs ==
    ASSUME NEW g \in Good, Len(g.data) > 1
    PROVE  /\ End(g) = Time(g, Len(g.data)) /\ End(g) \in Int /\ g.beg \in Int
           /\ Gap(End(g) - g.beg) /\ g.beg < End(g)
<1>1. PICK n \in Nat : n = Len(g.data) /\ n > 1
  BY GoodFields
<1>2. PICK i \in Nat \ {0} : i = Interval /\ g.del = i
  BY GoodFields, IntervalAssumption
<1>3. PICK m \in Nat : m = n - 1 /\ m >= 1
  <2>1. n > 1
    BY <1>1
  <2>2. n - 1 \in Nat /\ n - 1 >= 1
    BY <2>1
  <2> QED
    BY <2>2
<1>4. PICK b \in Int, x \in Int : b = g.beg /\ x = m * i
  BY GoodFields
<1>5. End(g) = b + x
  BY <1>1, <1>2, <1>3, <1>4 DEF End, Time
<1>6. 1 * i <= m * i
  BY <1>3, Monotone
<1>7. x >= i
  BY <1>4, <1>6
<1>8. Gap(x)
  BY <1>2, <1>4, GapTimes
<1>9. End(g) - g.beg = x /\ g.beg < End(g) /\ End(g) \in Int
  BY <1>4, <1>5, <1>7
<1>10. End(g) = Time(g, Len(g.data))
  BY DEF End
<1> QED
  BY <1>4, <1>8, <1>9, <1>10

\* In segments that are tidy each ends a gap before any later one begins.
LEMMA TidyApart ==
    ASSUME NEW segs \in Seq(Good), Tidy(segs), NEW i \in 1..Len(segs), NEW j \in 1..Len(segs), i < j
    PROVE  Apart(segs[i], segs[j])
<1>1. PICK n \in Nat : n = Len(segs) /\ i \in 1..n /\ j \in 1..n /\ \A l \in 1..n : segs[l] \in Good
  BY Places1
<1>2. \A l \in 1..n : /\ segs[l].beg \in Int /\ End(segs[l]) \in Int
                      /\ Len(segs[l].data) > 1 /\ segs[l].del = Interval
                      /\ Gap(End(segs[l]) - segs[l].beg)
  BY <1>1, GoodFields, EndIs DEF Tidy
<1>3. ASSUME NEW l \in 1..(n - 1) PROVE Apart(segs[l], segs[l + 1])
  <2>1. l \in 1..n /\ l + 1 \in 1..n
    BY <1>1
  <2>2. PICK a \in Int, b \in Int, v \in Int : a = End(segs[l]) /\ b = segs[l + 1].beg /\ v = Interval
    <3>1. End(segs[l]) \in Int
      BY <1>2, <2>1
    <3>2. segs[l + 1].beg \in Int
      BY <1>2, <2>1
    <3>3. Interval \in Int
      BY IntervalAssumption
    <3> QED
      BY <3>1, <3>2, <3>3
  <2>3. a <= b
    BY <1>1, <2>2 DEF Tidy, Following
  <2>4. ~Fits(segs[l], segs[l + 1])
    BY <1>1 DEF Tidy
  <2>5. ~(100 * (b - a - v) <= 99 * v /\ -100 * (b - a - v) <= 99 * v)
    BY <1>2, <2>1, <2>2, <2>4 DEF Fits
  <2>6. PICK d \in Int : d = b - a
    OBVIOUS
  <2>7. ~(100 * (d - v) <= 99 * v /\ -100 * (d - v) <= 99 * v) /\ d >= 0
    BY <2>3, <2>5, <2>6
  <2>8. Gap(d)
    BY <2>2, <2>7, GapOutside
  <2> QED
    BY <2>2, <2>6, <2>8 DEF Apart
<1> DEFINE T == {m \in 0..(n - i - 1) : Apart(segs[i], segs[i + m + 1])}
<1>4. n - i - 1 \in Nat /\ j - i - 1 \in 0..(n - i - 1) /\ i + (j - i - 1) + 1 = j
  BY <1>1
<1>5. 0 \in T
  <2>1. i \in 1..(n - 1) /\ i + 0 + 1 = i + 1 /\ 0 \in 0..(n - i - 1)
    BY <1>1, <1>4
  <2> QED
    BY <1>3, <2>1
<1>6. ASSUME NEW m \in 0..(n - i - 1), m \in T, m < n - i - 1 PROVE m + 1 \in T
  <2>1. PICK k \in 1..(n - 1) : k = i + m + 1 /\ k \in 1..n /\ k + 1 \in 1..n
    <3>1. i + m + 1 \in 1..(n - 1) /\ i + m + 1 \in 1..n /\ (i + m + 1) + 1 \in 1..n
      BY <1>1, <1>6
    <3> QED
      BY <3>1
  <2>2. PICK a \in Int, b \in Int, c \in Int, d \in Int :
            a = End(segs[i]) /\ b = segs[k].beg /\ c = End(segs[k]) /\ d = segs[k + 1].beg
    BY <1>1, <1>2, <2>1
  <2>3. Gap(b - a) /\ Gap(c - b) /\ Gap(d - c)
    BY <1>2, <1>3, <1>6, <2>1, <2>2 DEF Apart
  <2>4. Gap((b - a) + (c - b))
    BY <2>3, GapAdds
  <2>8. (b - a) + (c - b) = c - a /\ (c - a) + (d - c) = d - a
    OBVIOUS
  <2>9. Gap(c - a)
    BY <2>4, <2>8
  <2>10. Gap((c - a) + (d - c))
    BY <2>3, <2>9, GapAdds
  <2>5. Gap(d - a)
    BY <2>8, <2>10
  <2>6. k + 1 = i + (m + 1) + 1 /\ m + 1 \in 0..(n - i - 1)
    BY <1>1, <1>6, <2>1
  <2>7. Apart(segs[i], segs[k + 1])
    BY <2>2, <2>5 DEF Apart
  <2> QED
    BY <2>6, <2>7
<1>7. \A m \in 0..(n - i - 1) : m \in T
  <2>1. \A m \in 0..(n - i - 1) : m \in T /\ m < n - i - 1 => m + 1 \in T
    BY <1>6
  <2> HIDE DEF T
  <2>2. PICK top \in Nat : top = n - i - 1
    BY <1>4
  <2>3. \A m \in 0..top : m \in T /\ m < top => m + 1 \in T
    BY <2>1, <2>2
  <2>4. \A m \in 0..top : m \in T
    BY <1>5, <2>3, UpTo
  <2> QED
    BY <2>2, <2>4
<1>8. j - i - 1 \in T
  BY <1>4, <1>7
<1> QED
  BY <1>4, <1>8

\* Between two samples of a segment there are intervals.
LEMMA RowGap ==
    ASSUME NEW g \in Good, Len(g.data) > 1,
           NEW k \in 1..Len(g.data), NEW l \in 1..Len(g.data), k <= l
    PROVE  Gap(Time(g, l) - Time(g, k))
<1>1. PICK n \in Nat : n = Len(g.data) /\ k \in 1..n /\ l \in 1..n
  BY GoodFields
<1>2. PICK m \in Nat : m = l - k
  <2>1. l - k \in Nat
    BY <1>1
  <2> QED
    BY <2>1
<1>3. k \in Int /\ m \in Int /\ k + m = l
  BY <1>1, <1>2
<1>4. Time(g, k + m) = Time(g, k) + m * g.del /\ Time(g, k) \in Int
  BY <1>3, TimeIs
<1>5. g.del = Interval /\ Interval \in Nat
  BY GoodFields, IntervalAssumption
<1>6. PICK x \in Int : x = m * Interval
  BY <1>5
<1>7. Time(g, l) - Time(g, k) = x
  BY <1>3, <1>4, <1>5, <1>6
<1> QED
  BY <1>6, <1>7, GapTimes

\* Between two samples of segments that are tidy there is a gap.
LEMMA PlacesGap ==
    ASSUME NEW segs \in Seq(Good), Tidy(segs),
           NEW i \in 1..Len(segs), NEW k \in 1..Len(segs[i].data),
           NEW j \in 1..Len(segs), NEW l \in 1..Len(segs[j].data),
           i < j \/ (i = j /\ k <= l)
    PROVE  /\ Time(segs[i], k) \in Int /\ Time(segs[j], l) \in Int
           /\ Gap(Time(segs[j], l) - Time(segs[i], k))
<1>1. PICK g \in Good, h \in Good : /\ g = segs[i] /\ h = segs[j]
                                    /\ Len(g.data) > 1 /\ Len(h.data) > 1
  BY Places1 DEF Tidy
<1>2. PICK n \in Nat, o \in Nat : /\ n = Len(g.data) /\ n \in 1..n /\ k \in 1..n
                                  /\ o = Len(h.data) /\ 1 \in 1..o /\ l \in 1..o
  <2>1. PICK n \in Nat, o \in Nat : n = Len(g.data) /\ o = Len(h.data)
    BY GoodFields
  <2>2. n > 1 /\ o > 1
    BY <1>1, <2>1
  <2>3. n \in 1..n /\ 1 \in 1..o
    BY <2>2
  <2> QED
    BY <1>1, <2>1, <2>3
<1>3. k \in Int /\ l \in Int
  BY <1>2
<1>4. Time(g, k) \in Int /\ Time(h, l) \in Int
  BY <1>3, TimeIs
<1>5. CASE i = j
  <2>1. g = h /\ k <= l
    BY <1>1, <1>5
  <2>2. Gap(Time(h, l) - Time(h, k))
    BY <1>1, <1>2, <2>1, RowGap
  <2> QED
    BY <1>1, <1>4, <2>1, <2>2
<1>6. CASE i < j
  <2>1. Gap(Time(g, n) - Time(g, k))
    <3>1. k <= n
      BY <1>2
    <3> QED
      BY <1>1, <1>2, <3>1, RowGap
  <2>2. Gap(Time(h, l) - Time(h, 1))
    <3>1. 1 <= l
      BY <1>2
    <3> QED
      BY <1>1, <1>2, <3>1, RowGap
  <2>3. Gap(h.beg - End(g))
    BY <1>1, <1>6, TidyApart DEF Apart
  <2>4. Time(g, n) = End(g) /\ Time(h, 1) = h.beg
    <3>1. Time(g, n) = End(g)
      BY <1>2 DEF End
    <3>2. 1 \in Int
      OBVIOUS
    <3>3. Time(h, 1) = h.beg
      BY <3>2, TimeIs
    <3> QED
      BY <3>1, <3>3
  <2>5. PICK a \in Int, b \in Int, c \in Int, d \in Int :
            a = Time(g, k) /\ b = End(g) /\ c = h.beg /\ d = Time(h, l)
    BY <1>4, Ends, GoodFields
  <2>6. Gap(b - a) /\ Gap(c - b) /\ Gap(d - c)
    BY <2>1, <2>2, <2>3, <2>4, <2>5
  <2>7. Gap((b - a) + (c - b))
    BY <2>6, GapAdds
  <2>8. (b - a) + (c - b) = c - a /\ (c - a) + (d - c) = d - a
    OBVIOUS
  <2>9. Gap(c - a)
    BY <2>7, <2>8
  <2>10. Gap((c - a) + (d - c))
    BY <2>6, <2>9, GapAdds
  <2>11. Gap(d - a)
    BY <2>8, <2>10
  <2> QED
    BY <1>1, <1>4, <2>5, <2>11
<1> QED
  BY <1>5, <1>6

\* The samples of a segment, of segments in a set, with their times.
Pairs(g) == {<<g.data[k], Time(g, k)>> : k \in 1..Len(g.data)}
Shown(S) == UNION {Pairs(g) : g \in S}

\* The segments of several samples.
Multi(S) == {g \in S : Len(g.data) > 1}

\* The segments in T have samples of those in S only, at the same times, and all
\* samples of those with several; and they begin and end where these do.
Exact(T, S) ==
    /\ Shown(T) \subseteq Shown(S) /\ Shown(Multi(S)) \subseteq Shown(Multi(T))
    /\ \A g \in T : (\E h \in S : g.beg = h.beg) /\ (\E h \in S : End(g) = End(h))

\* The same segments do.
LEMMA ExactSelf == ASSUME NEW S PROVE Exact(S, S)
BY DEF Exact

\* One after the other.
LEMMA ExactExact ==
    ASSUME NEW T, NEW S, NEW R, Exact(T, S), Exact(S, R) PROVE Exact(T, R)
<1>1. Shown(T) \subseteq Shown(R) /\ Shown(Multi(R)) \subseteq Shown(Multi(T))
  BY DEF Exact
<1>2. ASSUME NEW g \in T PROVE (\E h \in R : g.beg = h.beg) /\ (\E h \in R : End(g) = End(h))
  <2>1. PICK x \in S, y \in S : g.beg = x.beg /\ End(g) = End(y)
    BY DEF Exact
  <2> QED
    BY <2>1 DEF Exact
<1> QED
  BY <1>1, <1>2 DEF Exact

\* Both at a time.
LEMMA ExactUnion ==
    ASSUME NEW T, NEW S, NEW U, NEW R, Exact(T, S), Exact(U, R) PROVE Exact(T \cup U, S \cup R)
<1>1. /\ Shown(T \cup U) = Shown(T) \cup Shown(U) /\ Shown(S \cup R) = Shown(S) \cup Shown(R)
      /\ Multi(T \cup U) = Multi(T) \cup Multi(U) /\ Multi(S \cup R) = Multi(S) \cup Multi(R)
  BY DEF Shown, Multi
<1>3. ASSUME NEW A, NEW B PROVE Shown(A \cup B) = Shown(A) \cup Shown(B)
  BY DEF Shown
<1>2. /\ Shown(Multi(T \cup U)) = Shown(Multi(T)) \cup Shown(Multi(U))
      /\ Shown(Multi(S \cup R)) = Shown(Multi(S)) \cup Shown(Multi(R))
  <2>1. PICK A, B, C, D : A = Multi(T) /\ B = Multi(U) /\ C = Multi(S) /\ D = Multi(R)
    OBVIOUS
  <2>2. Shown(A \cup B) = Shown(A) \cup Shown(B) /\ Shown(C \cup D) = Shown(C) \cup Shown(D)
    BY <1>3
  <2>3. Multi(T \cup U) = A \cup B /\ Multi(S \cup R) = C \cup D
    BY <1>1, <2>1
  <2> QED
    BY <2>1, <2>2, <2>3
<1> QED
  BY <1>1, <1>2 DEF Exact

\* Segments of one sample may go.
LEMMA ExactSubset ==
    ASSUME NEW T, NEW S, T \subseteq S, Multi(S) \subseteq T PROVE Exact(T, S)
<1>1. Multi(S) \subseteq Multi(T)
  BY DEF Multi
<1> QED
  BY <1>1 DEF Exact, Shown

\* Segments with the same samples at the same times show the same.
LEMMA SamePairs ==
    ASSUME NEW g \in Good, NEW h \in Good, Same(g, h)
    PROVE  Pairs(g) = Pairs(h) /\ g.beg = h.beg /\ End(g) = End(h) /\ Len(g.data) = Len(h.data)
<1>1. Len(g.data) = Len(h.data) /\ \A k \in 1..Len(g.data) : g.data[k] = h.data[k] /\ Time(g, k) = Time(h, k)
  BY DEF Same
<1>2. Pairs(g) = Pairs(h)
  BY <1>1 DEF Pairs
<1>3. PICK n \in Nat \ {0} : n = Len(g.data)
  BY GoodFields
<1>4. 1 \in 1..n /\ n \in 1..n
  OBVIOUS
<1>5. g.beg = h.beg
  <2>1. Time(g, 1) = g.beg /\ Time(h, 1) = h.beg
    BY TimeIs
  <2> QED
    BY <1>1, <1>3, <1>4, <2>1
<1>6. End(g) = End(h)
  BY <1>1, <1>3, <1>4 DEF End
<1> QED
  BY <1>1, <1>2, <1>5, <1>6

\* What is exact of segments is so of others with the same samples and times.
LEMMA ExactSame ==
    ASSUME NEW S \in SUBSET Good, NEW R \in SUBSET Good,
           \A h \in S : \E r \in R : Same(h, r),
           \A r \in R : \E h \in S : Same(h, r)
    PROVE  Exact(S, R)
<1>1. ASSUME NEW h \in S
      PROVE  \E r \in R : Pairs(h) = Pairs(r) /\ h.beg = r.beg /\ End(h) = End(r)
  BY SamePairs
<1>2. Shown(S) \subseteq Shown(R)
  BY <1>1 DEF Shown
<1>3. ASSUME NEW r \in Multi(R) PROVE \E h \in Multi(S) : Pairs(h) = Pairs(r)
  <2>1. PICK h \in S : Same(h, r)
    BY DEF Multi
  <2>2. h \in Good /\ r \in Good /\ Len(r.data) > 1
    BY DEF Multi
  <2>3. Pairs(h) = Pairs(r) /\ Len(h.data) = Len(r.data)
    BY <2>1, <2>2, SamePairs
  <2> QED
    BY <2>2, <2>3 DEF Multi
<1>4. Shown(Multi(R)) \subseteq Shown(Multi(S))
  <2>1. PICK A, B : A = Multi(R) /\ B = Multi(S)
    OBVIOUS
  <2>2. \A r \in A : \E h \in B : Pairs(h) = Pairs(r)
    BY <1>3, <2>1
  <2>3. Shown(A) \subseteq Shown(B)
    BY <2>2 DEF Shown
  <2> QED
    BY <2>1, <2>3
<1> QED
  BY <1>1, <1>2, <1>4 DEF Exact

\* Segments that fit after a gap are one interval apart.
LEMMA FitsExact ==
    ASSUME NEW g \in Good, NEW h \in Good, Fits(g, h), Apart(g, h)
    PROVE  Len(g.data) > 1 /\ Len(h.data) > 1 /\ h.beg = End(g) + Interval
<1>1. Len(g.data) > 1 /\ Len(h.data) > 1
  BY DEF Fits
<1>2. g.del = Interval
  BY <1>1, GoodFields
<1>3. PICK a \in Int, b \in Int, v \in Int : a = End(g) /\ b = h.beg /\ v = Interval
  BY Ends, GoodFields, IntervalAssumption
<1>4. 100 * (b - a - v) <= 99 * v /\ -100 * (b - a - v) <= 99 * v
  BY <1>2, <1>3 DEF Fits
<1>5. PICK d \in Int : d = b - a
  OBVIOUS
<1>6. Gap(d) /\ 100 * (d - v) <= 99 * v /\ -100 * (d - v) <= 99 * v
  BY <1>3, <1>4, <1>5 DEF Apart
<1>7. d = v
  BY <1>3, <1>6, GapIs
<1>8. b = a + v
  BY <1>5, <1>7
<1> QED
  BY <1>1, <1>3, <1>8

\* Segments one interval apart keep their times when they become one.
LEMMA MergedPairs ==
    ASSUME NEW g \in Good, NEW h \in Good, Len(g.data) > 1, Len(h.data) > 1,
           h.beg = End(g) + Interval
    PROVE  /\ Merged(g, h) \in Good /\ Len(Merged(g, h).data) > 1
           /\ Pairs(Merged(g, h)) = Pairs(g) \cup Pairs(h)
           /\ Merged(g, h).beg = g.beg /\ End(Merged(g, h)) = End(h)
<1>1. PICK a \in Nat, b \in Nat : a = Len(g.data) /\ b = Len(h.data) /\ a > 1 /\ b > 1
  BY GoodFields
<1>2. a > 1 /\ b > 1
  BY <1>1
<1>3. PICK m \in Good : m = Merged(g, h) /\ m.beg = g.beg
  BY MergedIs
<1>4. End(g) + Interval - h.beg = 0
  <2>1. End(g) \in Int /\ Interval \in Int
    BY Ends, IntervalAssumption
  <2> QED
    BY <2>1
<1>5. /\ Len(m.data) = a + b
      /\ \A k \in 1..a : Later(m, k, g, k, 0)
      /\ \A k \in 1..b : Later(m, a + k, h, k, 0)
  BY <1>1, <1>3, <1>4, MergedAt
<1>6. ASSUME NEW k \in 1..a PROVE m.data[k] = g.data[k] /\ Time(m, k) = Time(g, k)
  <2>1. Time(g, k) \in Int
    BY TimeIs
  <2> QED
    BY <1>5, <2>1 DEF Later
<1>7. ASSUME NEW k \in 1..b PROVE m.data[a + k] = h.data[k] /\ Time(m, a + k) = Time(h, k)
  <2>1. Time(h, k) \in Int
    BY TimeIs
  <2> QED
    BY <1>5, <2>1 DEF Later
<1>8. /\ \A k \in 1..a : k \in 1..(a + b)
      /\ \A k \in 1..b : a + k \in 1..(a + b)
      /\ \A k \in 1..(a + b) : k \in 1..a \/ (k - a \in 1..b /\ a + (k - a) = k)
      /\ b \in 1..b /\ a + b > 1
  BY <1>2
<1>9. Pairs(m) = Pairs(g) \cup Pairs(h)
  <2>1. ASSUME NEW p \in Pairs(m) PROVE p \in Pairs(g) \cup Pairs(h)
    <3>1. PICK k \in 1..(a + b) : p = <<m.data[k], Time(m, k)>>
      BY <1>5 DEF Pairs
    <3>2. CASE k \in 1..a
      BY <1>1, <1>6, <3>1, <3>2 DEF Pairs
    <3>3. CASE k - a \in 1..b /\ a + (k - a) = k
      <4>1. p = <<h.data[k - a], Time(h, k - a)>>
        BY <1>7, <3>1, <3>3
      <4> QED
        BY <1>1, <3>3, <4>1 DEF Pairs
    <3> QED
      BY <1>8, <3>2, <3>3
  <2>2. ASSUME NEW p \in Pairs(g) PROVE p \in Pairs(m)
    <3>1. PICK k \in 1..a : p = <<g.data[k], Time(g, k)>>
      BY <1>1 DEF Pairs
    <3> QED
      BY <1>5, <1>6, <1>8, <3>1 DEF Pairs
  <2>3. ASSUME NEW p \in Pairs(h) PROVE p \in Pairs(m)
    <3>1. PICK k \in 1..b : p = <<h.data[k], Time(h, k)>>
      BY <1>1 DEF Pairs
    <3>2. p = <<m.data[a + k], Time(m, a + k)>>
      BY <1>7, <3>1
    <3> QED
      BY <1>5, <1>8, <3>2 DEF Pairs
  <2> QED
    BY <2>1, <2>2, <2>3
<1>10. End(m) = End(h)
  <2>1. Time(m, a + b) = Time(h, b)
    BY <1>7, <1>8
  <2> QED
    BY <1>1, <1>5, <2>1 DEF End
<1> QED
  BY <1>3, <1>5, <1>8, <1>9, <1>10

\* A segment that follows the others.
LEMMA ChainAppend ==
    ASSUME NEW done \in Seq(Good), NEW h \in Good, Chain(done),
           \A x \in Members(done) : x.beg < h.beg /\ Apart(x, h)
    PROVE  Append(done, h) \in Seq(Good) /\ Chain(Append(done, h))
<1>1. PICK n \in Nat : n = Len(done)
  BY Places1
<1>2. PICK new : new = Append(done, h)
  OBVIOUS
<1>3. Len(new) = n + 1 /\ new[n + 1] = h /\ \A i \in 1..n : new[i] = done[i]
  BY <1>1, <1>2, AppendProperties
<1>4. ASSUME NEW i \in 1..(n + 1), NEW j \in 1..(n + 1), i < j
      PROVE  new[i].beg < new[j].beg /\ Apart(new[i], new[j])
  <2>1. i \in 1..n /\ new[i] = done[i]
    BY <1>3, <1>4
  <2>2. CASE j \in 1..n
    BY <1>1, <1>3, <1>4, <2>1, <2>2 DEF Chain
  <2>3. CASE j = n + 1
    <3>1. done[i] \in Members(done)
      BY <1>1, <2>1 DEF Members
    <3> QED
      BY <1>3, <2>1, <2>3, <3>1
  <2>4. j \in 1..n \/ j = n + 1
    BY <1>4
  <2> QED
    BY <2>2, <2>3, <2>4
<1>5. Chain(new)
  BY <1>3, <1>4 DEF Chain
<1> QED
  BY <1>2, <1>5, AppendLast

\* A segment that joins the last one, one interval behind it.
LEMMA ChainMerge ==
    ASSUME NEW done \in Seq(Good), done # <<>>, NEW h \in Good, Chain(done),
           Len(done[Len(done)].data) > 1, Len(h.data) > 1,
           h.beg = End(done[Len(done)]) + Interval
    PROVE  \E new \in Seq(Good) :
              /\ new = Extended(done, h) /\ new # <<>>
              /\ Chain(new) /\ Exact(Members(new), Members(done) \cup {h})
              /\ Len(new[Len(new)].data) > 1 /\ End(new[Len(new)]) = End(h)
<1>1. PICK n \in Nat : /\ n = Len(done) /\ n > 0 /\ DOMAIN done = 1..n
                       /\ \A i \in 1..n : done[i] \in Good
  BY Places1
<1>2. PICK g \in Good : g = done[n] /\ Len(g.data) > 1 /\ h.beg = End(g) + Interval
  BY <1>1
<1>3. PICK m \in Good : /\ m = Merged(g, h) /\ Len(m.data) > 1
                        /\ Pairs(m) = Pairs(g) \cup Pairs(h)
                        /\ m.beg = g.beg /\ End(m) = End(h)
  BY <1>2, MergedPairs
<1>9. PICK new : new = Extended(done, h)
  OBVIOUS
<1>10. /\ new \in Seq(Good) /\ Len(new) = n
       /\ \A i \in 1..n : new[i] = IF i = n THEN m ELSE done[i]
  <2>1. n \in 1..Len(done) /\ m \in Good
    BY <1>1
  <2>2. new = [done EXCEPT ![n] = m]
    BY <1>1, <1>2, <1>3, <1>9 DEF Extended, Merged
  <2>3. /\ [done EXCEPT ![n] = m] \in Seq(Good)
        /\ Len([done EXCEPT ![n] = m]) = Len(done)
        /\ \A i \in 1..Len(done) : [done EXCEPT ![n] = m][i] = IF i = n THEN m ELSE done[i]
    BY <2>1, ExceptSeq
  <2> QED
    BY <1>1, <2>2, <2>3
<1>11. n \in 1..n /\ new[n] = m /\ \A i \in 1..n : i # n => new[i] = done[i]
  BY <1>1, <1>10
<1>12. new # <<>>
  BY <1>1, <1>10, None
<1>13. Chain(new)
  <2>1. ASSUME NEW i \in 1..n, NEW j \in 1..n, i < j
        PROVE  new[i].beg < new[j].beg /\ Apart(new[i], new[j])
    <3>1. new[i] = done[i]
      BY <1>11, <2>1
    <3>2. new[j].beg = done[j].beg
      BY <1>2, <1>3, <1>11
    <3>3. done[i].beg < done[j].beg /\ Apart(done[i], done[j])
      BY <1>1, <2>1 DEF Chain
    <3> QED
      BY <3>1, <3>2, <3>3 DEF Apart
  <2> QED
    BY <1>10, <2>1 DEF Chain
<1> DEFINE M == Members(new)
           D == Members(done)
<1>14. m \in M /\ g \in D /\ \A x \in M : x = m \/ x \in D
  BY <1>1, <1>2, <1>10, <1>11 DEF Members
<1>15. \A x \in D : x = g \/ x \in M
  <2>1. ASSUME NEW i \in 1..n PROVE done[i] = g \/ done[i] \in M
    BY <1>2, <1>10, <1>11 DEF Members
  <2> QED
    BY <1>1, <2>1 DEF Members
<1> HIDE DEF M, D
<1>16. Shown(M) \subseteq Shown(D \cup {h})
  BY <1>3, <1>14 DEF Shown
<1>17. Shown(Multi(D \cup {h})) \subseteq Shown(Multi(M))
  <2>1. ASSUME NEW x \in D \cup {h}, Len(x.data) > 1
        PROVE  \E y \in M : Len(y.data) > 1 /\ Pairs(x) \subseteq Pairs(y)
    <3>1. x = g \/ x = h \/ x \in M
      BY <1>15
    <3> QED
      BY <1>3, <1>14, <2>1, <3>1
  <2> QED
    BY <2>1 DEF Shown, Multi
<1>18. ASSUME NEW x \in M
       PROVE  (\E y \in D \cup {h} : x.beg = y.beg) /\ (\E y \in D \cup {h} : End(x) = End(y))
  <2>1. CASE x = m
    BY <1>3, <1>14, <2>1
  <2>2. CASE x \in D
    BY <2>2
  <2> QED
    BY <1>14, <2>1, <2>2
<1>19. Exact(M, D \cup {h})
  BY <1>16, <1>17, <1>18 DEF Exact
<1> QED
  BY <1>3, <1>9, <1>10, <1>11, <1>12, <1>13, <1>19 DEF M, D

\* joinSegments moves nothing in a row of segments that are gaps apart.
LEMMA JoinExact ==
    ASSUME NEW segs \in Seq(Good), Chain(segs)
    PROVE  /\ JoinSegments(segs) \in Seq(Good) /\ Chain(JoinSegments(segs))
           /\ Exact(Members(JoinSegments(segs)), Members(segs))
<1>1. CASE Len(segs) <= 1
  <2>1. JoinSegments(segs) = segs
    BY <1>1, JoinIsFold
  <2> QED
    BY <2>1, ExactSelf
<1>2. CASE ~(Len(segs) <= 1)
  <2>1. PICK n \in Nat : n = Len(segs) /\ n > 1 /\ \A i \in 1..n : segs[i] \in Good
    BY <1>2, Places1
  <2>2. PICK sp : sp = Spaced(segs)
    OBVIOUS
  <2>3. /\ sp \in Seq(Good) /\ Len(sp) = n
        /\ \A j \in 1..n : Same(sp[j], segs[j])
    <3>1. Len(segs) > 1
      BY <2>1
    <3> QED
      BY <2>1, <2>2, <3>1, SpacedIs, SpacedTimes
  <2>4. DOMAIN sp = 1..n /\ \A j \in 1..n : sp[j] \in Good
    BY <2>3, Places1
  <2>5. PICK idx : idx = [j \in 1..n |-> j]
    OBVIOUS
  <2>6. JoinSegments(segs) = JoinedAll(sp, idx)
    BY <1>2, <2>2, <2>4, <2>5, JoinIsFold
  <2>7. Len(idx) = n /\ DOMAIN idx = 1..n /\ \A i \in 1..n : idx[i] = i
    BY <2>5
  <2>8. PICK g : /\ g[0] = <<>>
                 /\ \A i \in 1..n : g[i] = Joined(sp, g[i - 1], idx[i])
                 /\ JoinedAll(sp, idx) = g[n]
    <3>1. /\ sp \in Seq(Good) /\ Len(idx) = Len(sp) /\ DOMAIN idx = 1..Len(sp)
          /\ \A i \in 1..Len(sp) : idx[i] = i
      BY <2>3, <2>7
    <3>2. \E g : /\ g[0] = <<>>
                 /\ \A i \in 1..Len(sp) : g[i] = Joined(sp, g[i - 1], idx[i])
                 /\ JoinedAll(sp, idx) = g[Len(sp)]
      BY <3>1, JoinedSteps
    <3>3. Len(sp) = n
      BY <2>3
    <3> QED
      BY <3>2, <3>3
  <2>9. \A i \in 1..n : g[i] = Joined(sp, g[i - 1], i)
    BY <2>7, <2>8
  <2>10. \A i, j \in 1..n : i < j => sp[i].beg < sp[j].beg /\ Apart(sp[i], sp[j])
    <3>1. \A i \in 1..n : sp[i].beg = segs[i].beg /\ End(sp[i]) = End(segs[i])
      BY <2>1, <2>3, <2>4, SamePairs
    <3>2. \A i, j \in 1..n : i < j => segs[i].beg < segs[j].beg /\ Apart(segs[i], segs[j])
      BY <2>1 DEF Chain
    <3> QED
      BY <3>1, <3>2 DEF Apart
  <2> DEFINE S(m) == {sp[i] : i \in 1..m}
             Ends0(m) == /\ g[m] # <<>> /\ End(g[m][Len(g[m])]) = End(sp[m])
                         /\ Len(sp[m].data) > 1 => Len(g[m][Len(g[m])].data) > 1
             Holds(m) == /\ g[m] \in Seq(Good) /\ Chain(g[m])
                         /\ Exact(Members(g[m]), S(m))
                         /\ m > 0 => Ends0(m)
             T == {m \in 0..n : Holds(m)}
  <2>11. 0 \in T
    <3>1. S(0) = {} /\ Members(<<>>) = {} /\ 0 \in 0..n /\ ~(0 > 0)
      BY None DEF Members
    <3>2. Exact({}, {})
      BY ExactSelf
    <3>3. Chain(<<>>)
      BY None DEF Chain
    <3>4. Holds(0)
      BY <2>8, <3>1, <3>2, <3>3, None
    <3> HIDE DEF Holds
    <3> QED
      BY <3>1, <3>4
  <2>12. ASSUME NEW m \in 0..n, m \in T, m < n PROVE m + 1 \in T
    <3>1. m + 1 \in 1..n /\ m + 1 \in 0..n /\ (m + 1) - 1 = m /\ m + 1 > 0
      BY <2>12
    <3>2. PICK a \in Seq(Good), h \in Good : a = g[m] /\ h = sp[m + 1]
      BY <2>4, <2>12, <3>1
    <3>3. /\ Chain(a) /\ Exact(Members(a), S(m))
          /\ m > 0 => Ends0(m)
      BY <2>12, <3>2
    <3>4. PICK b : b = g[m + 1]
      OBVIOUS
    <3>5. b = Joined(sp, a, m + 1)
      BY <2>9, <3>1, <3>2, <3>4
    <3>6. PICK R : R = S(m)
      OBVIOUS
    <3>7. S(m + 1) = R \cup {h}
      <4>1. 1..(m + 1) = (1..m) \cup {m + 1}
        BY <2>12
      <4> QED
        BY <3>2, <3>6, <4>1
    <3>8. \A x \in R : x.beg < h.beg /\ Apart(x, h)
      <4>1. ASSUME NEW i \in 1..m PROVE sp[i].beg < h.beg /\ Apart(sp[i], h)
        <5>1. i \in 1..n /\ i < m + 1
          BY <2>12
        <5> QED
          BY <2>10, <3>1, <3>2, <5>1
      <4> QED
        BY <3>6, <4>1
    <3>9. Exact(Members(a), R)
      BY <3>3, <3>6
    <3>10. Exact(Members(a) \cup {h}, R \cup {h})
      <4>1. Exact({h}, {h})
        BY ExactSelf
      <4> QED
        BY <3>9, <4>1, ExactUnion
    <3>11. CASE m + 1 > 1 /\ Fits(sp[m], h)
      <4>1. m \in 1..n /\ m > 0 /\ m < m + 1
        BY <2>12, <3>11
      <4>2. PICK f \in Good : f = sp[m]
        BY <2>4, <4>1
      <4>3. Fits(f, h) /\ Apart(f, h)
        BY <2>10, <3>1, <3>2, <3>11, <4>1, <4>2
      <4>4. Len(f.data) > 1 /\ Len(h.data) > 1 /\ h.beg = End(f) + Interval
        BY <4>3, FitsExact
      <4>5. /\ a # <<>> /\ End(a[Len(a)]) = End(f) /\ Len(a[Len(a)].data) > 1
        BY <3>2, <3>3, <4>1, <4>2, <4>4
      <4>6. b = Extended(a, h)
        BY <3>1, <3>2, <3>5, <3>11 DEF Joined, Extended
      <4>7. h.beg = End(a[Len(a)]) + Interval
        BY <4>4, <4>5
      <4>8. \E new \in Seq(Good) :
              /\ new = Extended(a, h) /\ new # <<>>
              /\ Chain(new) /\ Exact(Members(new), Members(a) \cup {h})
              /\ Len(new[Len(new)].data) > 1 /\ End(new[Len(new)]) = End(h)
        BY <3>3, <4>4, <4>5, <4>7, ChainMerge
      <4>9. /\ b \in Seq(Good) /\ b # <<>>
            /\ Chain(b) /\ Exact(Members(b), Members(a) \cup {h})
            /\ Len(b[Len(b)].data) > 1 /\ End(b[Len(b)]) = End(h)
        BY <4>6, <4>8
      <4>10. Exact(Members(b), S(m + 1))
        BY <3>7, <3>10, <4>9, ExactExact
      <4>11. Ends0(m + 1)
        BY <3>2, <3>4, <4>9
      <4> HIDE DEF S, Ends0
      <4>12. Holds(m + 1)
        BY <3>4, <4>9, <4>10, <4>11
      <4> HIDE DEF Holds
      <4> QED
        BY <3>1, <4>12
    <3>12. CASE ~(m + 1 > 1 /\ Fits(sp[m], h))
      <4>1. b = Append(a, h)
        BY <3>1, <3>2, <3>5, <3>12 DEF Joined
      <4>2. b \in Seq(Good) /\ b # <<>> /\ b[Len(b)] = h
        BY <4>1, AppendLast
      <4>3. \A x \in Members(a) : x.beg < h.beg /\ Apart(x, h)
        <5>1. ASSUME NEW x \in Members(a) PROVE x.beg < h.beg /\ Apart(x, h)
          <6>1. PICK y \in R, z \in R : x.beg = y.beg /\ End(x) = End(z)
            BY <3>9 DEF Exact
          <6> QED
            BY <3>8, <6>1 DEF Apart
        <5> QED
          BY <5>1
      <4>4. Chain(b)
        BY <3>3, <4>1, <4>3, ChainAppend
      <4>5. Exact(Members(b), S(m + 1))
        BY <3>7, <3>10, <4>1, MembersAppend
      <4>6. Ends0(m + 1)
        BY <3>2, <3>4, <4>2
      <4> HIDE DEF S, Ends0
      <4>8. Holds(m + 1)
        BY <3>4, <4>2, <4>4, <4>5, <4>6
      <4> HIDE DEF Holds
      <4> QED
        BY <3>1, <4>8
    <3> QED
      BY <3>11, <3>12
  <2>13. Holds(n)
    <3> HIDE DEF Holds
    <3>1. \A i \in 0..n : i \in T /\ i < n => i + 1 \in T
      BY <2>12
    <3> HIDE DEF T
    <3>2. \A i \in 0..n : i \in T
      BY <2>11, <3>1, UpTo
    <3> QED
      BY <3>2 DEF T
  <2>14. PICK J \in Seq(Good) : J = JoinSegments(segs) /\ Chain(J) /\ Exact(Members(J), S(n))
    BY <2>6, <2>8, <2>13
  <2>15. \A h \in S(n) : \E r \in Members(segs) : Same(h, r)
    BY <2>1, <2>3 DEF Members
  <2>16. \A r \in Members(segs) : \E h \in S(n) : Same(h, r)
    BY <2>1, <2>3 DEF Members
  <2>17. S(n) \in SUBSET Good /\ Members(segs) \in SUBSET Good
    BY <2>1, <2>4 DEF Members
  <2> HIDE DEF S
  <2>18. Exact(S(n), Members(segs))
    <3>1. PICK A \in SUBSET Good, B \in SUBSET Good : A = S(n) /\ B = Members(segs)
      BY <2>17
    <3>2. (\A h \in A : \E r \in B : Same(h, r)) /\ (\A r \in B : \E h \in A : Same(h, r))
      BY <2>15, <2>16, <3>1
    <3>3. Exact(A, B)
      BY <3>2, ExactSame
    <3> QED
      BY <3>1, <3>3
  <2>19. Exact(Members(J), Members(segs))
    BY <2>14, <2>18, ExactExact
  <2> QED
    BY <2>14, <2>19
<1> QED
  BY <1>1, <1>2

\* All samples of a segment are the segment.
LEMMA PartWhole ==
    ASSUME NEW g \in Good PROVE Part(g, 1, Len(g.data)) = g
<1>1. g \in GSegment /\ g.data \in Seq(Sample) /\ Len(g.data) \in Nat /\ g.beg \in Int /\ g.del \in Nat
  BY GoodFields
<1>2. PICK b \in Int, d \in Nat, w \in Seq(Sample) : b = g.beg /\ d = g.del /\ w = g.data
  BY <1>1
<1>3. g = [beg |-> b, del |-> d, data |-> w]
  BY <1>1, <1>2 DEF GSegment
<1>4. SubSeq(w, 1, Len(w)) = w
  OBVIOUS
<1>5. b + (1 - 1) * d = b
  OBVIOUS
<1> QED
  BY <1>2, <1>3, <1>4, <1>5 DEF Part

\* What a new segment that begins a gap behind the end of an old one leaves of it:
\* all, if it has several samples.
LEMMA KeptApart ==
    ASSUME NEW g \in Good, NEW new \in Good, Apart(g, new)
    PROVE  /\ ~InMiddle(g, new)
           /\ \/ Kept(g, new) = <<g>> /\ g.beg < new.beg
              \/ Kept(g, new) = <<>> /\ Len(g.data) = 1
<1>1. PICK d \in Nat \ {0}, b \in Int, nb \in Int, e \in Int, f \in Int, n \in Nat \ {0} :
          /\ d = g.del /\ b = g.beg /\ nb = new.beg /\ e = End(new) /\ f = End(g) /\ n = Len(g.data)
          /\ nb <= e /\ b <= f
  BY GoodFields, Ends
<1>2. PICK a \in Int : a = nb - f
  OBVIOUS
<1>3. Gap(a) /\ a >= 0
  <2>1. Gap(a)
    BY <1>1, <1>2 DEF Apart
  <2> QED
    BY <2>1, GapIs
<1>4. f <= nb
  BY <1>2, <1>3
<1>5. PICK x \in Int, y \in Int : x = nb - b /\ y = 100 * (e - b) + 99 * d
  OBVIOUS
<1>6. PICK p \in Int : p = x \div d /\ d * p <= x /\ x < d * p + d
  BY Quotient
<1>7. 100 * d \in Nat \ {0}
  OBVIOUS
<1>8. PICK q \in Int : q = y \div (100 * d) /\ y < (100 * d) * q + 100 * d
  BY <1>7, Quotient
<1>9. D1(g, new) = p /\ D2(g, new) = q + 1
  BY <1>1, <1>5, <1>6, <1>8 DEF D1, D2
<1>10. CASE ~Overlaps(g, new)
  <2>1. Kept(g, new) = <<g>> /\ ~InMiddle(g, new)
    BY <1>10 DEF Kept, InMiddle
  <2>2. b <= e
    BY <1>1, <1>4
  <2>3. ~(b <= e /\ 100 * f + 99 * d >= 100 * nb)
    BY <1>1, <1>10 DEF Overlaps
  <2>5. 100 * f + 99 * d < 100 * nb
    BY <2>2, <2>3
  <2>6. 100 * f < 100 * nb
    BY <2>5
  <2>4. b < nb
    BY <1>1, <2>6
  <2> QED
    BY <1>1, <2>1, <2>4
<1>11. CASE Overlaps(g, new) /\ n > 1
  <2>1. d = Interval /\ b < f
    BY <1>1, <1>11, GoodFields, EndIs
  <2>2. 100 * f + 99 * d >= 100 * nb
    BY <1>1, <1>11 DEF Overlaps
  <2>3. 100 * a <= 99 * d
    BY <1>2, <2>2
  <2>4. a = 0
    BY <1>3, <2>1, <2>3, GapIs
  <2>5. PICK m \in Nat : m = n - 1 /\ m >= 1
    <3>1. n > 1
      BY <1>11
    <3>2. n - 1 \in Nat /\ n - 1 >= 1
      BY <3>1
    <3> QED
      BY <3>2
  <2>6. PICK z \in Nat : z = d * m /\ z = m * d
    <3>1. d * m \in Nat /\ d * m = m * d
      BY Times
    <3> QED
      BY <3>1
  <2>7. f = b + z
    BY <1>1, <2>5, <2>6 DEF End, Time
  <2>8. x = z
    BY <1>2, <1>5, <2>4, <2>7
  <2>9. p = m
    <3>1. d * p \in Int /\ d * (p + 1) = d * p + d /\ d * (m + 1) = d * m + d
      OBVIOUS
    <3>2. d * m < d * (p + 1)
      BY <1>6, <2>6, <2>8, <3>1
    <3>3. d * p < d * (m + 1)
      BY <1>6, <2>6, <2>8, <3>1
    <3>4. m < p + 1 /\ p < m + 1
      BY <3>2, <3>3, Cancel
    <3> QED
      BY <3>4
  <2>10. q + 1 >= n
    <3>1. y >= 100 * z
      <4>1. z <= e - b
        BY <1>1, <1>4, <2>7
      <4>2. 100 * z <= 100 * (e - b) /\ 99 * d >= 0
        BY <4>1
      <4>3. 100 * z <= 100 * (e - b) + 99 * d
        BY <4>2
      <4> QED
        BY <1>5, <4>3
    <3>2. (100 * d) * q \in Int /\ (100 * d) * (q + 1) = (100 * d) * q + 100 * d /\ (100 * d) * m = 100 * (d * m)
      OBVIOUS
    <3>3. (100 * d) * m < (100 * d) * (q + 1)
      BY <1>8, <2>6, <3>1, <3>2
    <3>4. m < q + 1
      BY <1>7, <3>3, Cancel
    <3> QED
      BY <2>5, <3>4
  <2>11. D1(g, new) > 0 /\ ~(D1(g, new) <= 0) /\ ~(D2(g, new) < Len(g.data))
    BY <1>1, <1>9, <2>5, <2>9, <2>10
  <2>12. Kept(g, new) = <<TruncateSegment(g, 0, D1(g, new))>>
    BY <1>11, <2>11 DEF Kept
  <2>13. TruncateSegment(g, 0, m) = g
    <3>1. CASE TruncateSegment(g, 0, m) = g
      BY <3>1
    <3>2. CASE ~(TruncateSegment(g, 0, m) = g)
      <4>1. 0 \in Nat /\ m \in Int
        OBVIOUS
      <4>2. PICK w \in 1..Len(g.data) : /\ TruncateSegment(g, 0, m) = Part(g, 1, w)
                                       /\ (w = m + 1 \/ w = Len(g.data))
        <5>1. \E w \in (0 + 1)..Len(g.data) :
                 /\ TruncateSegment(g, 0, m) = Part(g, 0 + 1, w)
                 /\ w <= m + 1 /\ (w = m + 1 \/ w = Len(g.data))
          BY <3>2, <4>1, TruncateIs
        <5>2. 0 + 1 = 1
          OBVIOUS
        <5> QED
          BY <5>1, <5>2
      <4>3. w = Len(g.data)
        BY <1>1, <2>5, <4>2
      <4>4. TruncateSegment(g, 0, m) = Part(g, 1, Len(g.data))
        BY <4>2, <4>3
      <4> QED
        BY <4>4, PartWhole
    <3> QED
      BY <3>1, <3>2
  <2>14. Kept(g, new) = <<g>>
    BY <1>9, <2>9, <2>12, <2>13
  <2>15. b < nb
    BY <1>4, <2>1
  <2> QED
    BY <1>1, <2>11, <2>14, <2>15 DEF InMiddle
<1>12. CASE Overlaps(g, new) /\ ~(n > 1)
  <2>1. n = 1
    BY <1>12
  <2>2. f = b
    <3>1. End(g) = Time(g, 1) /\ Time(g, 1) = g.beg
      BY <1>1, <2>1, TimeIs DEF End
    <3> QED
      BY <1>1, <3>1
  <2>3. 100 * f + 99 * d >= 100 * nb
    BY <1>1, <1>12 DEF Overlaps
  <2>4. x < d
    BY <1>5, <2>2, <2>3
  <2>5. p < 1
    <3>1. d * p < d * 1
      BY <1>6, <2>4
    <3> QED
      BY <3>1, Cancel
  <2>6. D1(g, new) <= 0 /\ ~(D1(g, new) > 0)
    BY <1>9, <2>5
  <2>7. D2(g, new) >= Len(g.data)
    <3>1. D2(g, new) >= 1
      BY <1>12, Overlapped
    <3> QED
      BY <1>1, <2>1, <3>1
  <2>9. ~(D2(g, new) < Len(g.data))
    BY <1>1, <1>9, <2>7
  <2>8. Kept(g, new) = <<>>
    BY <1>12, <2>6, <2>7, <2>9 DEF Kept
  <2> QED
    BY <1>1, <2>1, <2>6, <2>8 DEF InMiddle
<1> QED
  BY <1>10, <1>11, <1>12

\* Segments that come in the order of time are sorted.
LEMMA SortedChain ==
    ASSUME NEW segs \in Seq(Good), Chain(segs)
    PROVE  Sorted(segs) \in Seq(Good) /\ Chain(Sorted(segs)) /\ Members(Sorted(segs)) = Members(segs)
<1>1. PICK n \in Nat : n = Len(segs) /\ \A i \in 1..n : segs[i] \in Good
  BY Places1
<1>2. PICK g : /\ g[0] = <<>>
               /\ \A i \in 1..n : g[i] = Insert(g[i - 1], segs[i])
               /\ Sorted(segs) = g[n]
  BY <1>1, SortedSteps
<1> DEFINE S(m) == {segs[i] : i \in 1..m}
           Holds(m) == g[m] \in Seq(Good) /\ Chain(g[m]) /\ Members(g[m]) = S(m)
           T == {m \in 0..n : Holds(m)}
<1>3. 0 \in T
  <2>1. S(0) = {} /\ Members(<<>>) = {} /\ 0 \in 0..n
    BY None DEF Members
  <2>2. Chain(<<>>)
    BY None DEF Chain
  <2> QED
    BY <1>2, <2>1, <2>2, None
<1>4. ASSUME NEW m \in 0..n, m \in T, m < n PROVE m + 1 \in T
  <2>1. m + 1 \in 1..n /\ m + 1 \in 0..n /\ (m + 1) - 1 = m
    BY <1>4
  <2>2. PICK a \in Seq(Good), h \in Good : a = g[m] /\ h = segs[m + 1]
    BY <1>1, <1>4, <2>1
  <2>3. Chain(a) /\ Members(a) = S(m)
    BY <1>4, <2>2
  <2>4. PICK b : b = g[m + 1]
    OBVIOUS
  <2>5. b = Insert(a, h)
    BY <1>2, <2>1, <2>2, <2>4
  <2>6. \A x \in Members(a) : x.beg < h.beg /\ Apart(x, h)
    <3>1. ASSUME NEW i \in 1..m PROVE segs[i].beg < h.beg /\ Apart(segs[i], h)
      <4>1. i \in 1..n /\ i < m + 1
        BY <1>4
      <4> QED
        BY <1>1, <2>1, <2>2, <4>1 DEF Chain
    <3> QED
      BY <2>3, <3>1
  <2>7. PICK k \in Nat : k = Len(a) /\ \A i \in 1..k : a[i] \in Good
    BY Places1
  <2>8. InOrder(a)
    <3>1. \A i, j \in 1..k : i <= j => i < j \/ i = j
      OBVIOUS
    <3>2. \A i \in 1..k : a[i].beg \in Int
      BY <2>7, GoodFields
    <3>3. \A i, j \in 1..k : i < j => a[i].beg < a[j].beg
      BY <2>3, <2>7 DEF Chain
    <3>4. \A i, j \in 1..k : i <= j => a[i].beg <= a[j].beg
      BY <3>1, <3>2, <3>3
    <3> QED
      BY <2>7, <3>4 DEF InOrder
  <2>9. PICK c \in 0..k : /\ b = SubSeq(a, 1, c) \o <<h>> \o SubSeq(a, c + 1, k)
                          /\ \A i \in (c + 1)..k : h.beg <= a[i].beg
    BY <2>5, <2>7, <2>8, Earlier
  <2>10. c = k
    <3>1. CASE c < k
      <4>1. c + 1 \in (c + 1)..k /\ c + 1 \in 1..k
        BY <3>1
      <4>2. h.beg <= a[c + 1].beg /\ a[c + 1].beg < h.beg
        BY <2>6, <2>7, <2>9, <4>1 DEF Members
      <4>3. h.beg \in Int /\ a[c + 1].beg \in Int
        BY <2>7, <4>1, GoodFields
      <4> QED
        BY <4>2, <4>3
    <3> QED
      BY <3>1
  <2>11. b = Append(a, h)
    <3>1. SubSeq(a, 1, k) = a /\ SubSeq(a, k + 1, k) = <<>>
      BY <2>7
    <3>2. b = a \o <<h>> \o <<>>
      BY <2>9, <2>10, <3>1
    <3>3. a \o <<h>> = Append(a, h) /\ (a \o <<h>>) \o <<>> = a \o <<h>>
      OBVIOUS
    <3> QED
      BY <3>2, <3>3
  <2>12. b \in Seq(Good) /\ Chain(b)
    BY <2>3, <2>6, <2>11, ChainAppend
  <2>13. Members(b) = S(m) \cup {h}
    BY <2>3, <2>11, MembersAppend
  <2>14. S(m + 1) = S(m) \cup {h}
    <3>1. 1..(m + 1) = (1..m) \cup {m + 1}
      BY <1>4
    <3> QED
      BY <2>2, <3>1
  <2> HIDE DEF S
  <2>15. Holds(m + 1)
    BY <2>4, <2>12, <2>13, <2>14
  <2> HIDE DEF Holds
  <2> QED
    BY <2>1, <2>15
<1>5. Holds(n)
  <2> HIDE DEF Holds
  <2>1. \A i \in 0..n : i \in T /\ i < n => i + 1 \in T
    BY <1>4
  <2> HIDE DEF T
  <2>2. \A i \in 0..n : i \in T
    BY <1>3, <2>1, UpTo
  <2> QED
    BY <2>2 DEF T
<1>6. Members(segs) = S(n)
  BY <1>1 DEF Members
<1> HIDE DEF S
<1> QED
  BY <1>2, <1>5, <1>6

\* A row of segments of which some are left out.
LEMMA FlattenChain ==
    ASSUME NEW segs \in Seq(Good), Chain(segs), NEW n \in Nat, n = Len(segs), NEW q,
           \A i \in 1..n : q[i] = <<>> \/ q[i] = <<segs[i]>>,
           DOMAIN q = 1..n, q \in Seq(Seq(Good)), Len(q) = n
    PROVE  Chain(FlattenSeq(q))
<1>1. \A i \in 1..n : segs[i] \in Good /\ q[i] \in Seq(Good)
  <2>1. \A i \in 1..n : segs[i] \in Good
    BY Places1
  <2> QED
    BY <2>1, None, One
<1>2. PICK g : /\ g[0] = <<>>
               /\ \A i \in 1..n : g[i] = g[i - 1] \o q[i]
               /\ FlattenSeq(q) = g[n]
  BY <1>1, FlattenSteps
<1> DEFINE S(m) == {segs[i] : i \in 1..m}
           Holds(m) == g[m] \in Seq(Good) /\ Chain(g[m]) /\ Members(g[m]) \subseteq S(m)
           T == {m \in 0..n : Holds(m)}
<1>3. 0 \in T
  <2>1. S(0) = {} /\ Members(<<>>) = {} /\ 0 \in 0..n
    BY None DEF Members
  <2>2. Chain(<<>>)
    BY None DEF Chain
  <2> QED
    BY <1>2, <2>1, <2>2, None
<1>4. ASSUME NEW m \in 0..n, m \in T, m < n PROVE m + 1 \in T
  <2>1. m + 1 \in 1..n /\ m + 1 \in 0..n /\ (m + 1) - 1 = m
    BY <1>4
  <2>2. PICK a \in Seq(Good), h \in Good : a = g[m] /\ h = segs[m + 1]
    BY <1>1, <1>4, <2>1
  <2>3. Chain(a) /\ Members(a) \subseteq S(m)
    BY <1>4, <2>2
  <2>4. PICK b : b = g[m + 1]
    OBVIOUS
  <2>5. b = a \o q[m + 1]
    BY <1>2, <2>1, <2>2, <2>4
  <2>6. S(m + 1) = S(m) \cup {h}
    <3>1. 1..(m + 1) = (1..m) \cup {m + 1}
      BY <1>4
    <3> QED
      BY <2>2, <3>1
  <2>7. \A x \in Members(a) : x.beg < h.beg /\ Apart(x, h)
    <3>1. ASSUME NEW i \in 1..m PROVE segs[i].beg < h.beg /\ Apart(segs[i], h)
      <4>1. i \in 1..n /\ i < m + 1
        BY <1>4
      <4> QED
        BY <2>1, <2>2, <4>1 DEF Chain
    <3> QED
      BY <2>3, <3>1
  <2> HIDE DEF S
  <2>8. b \in Seq(Good) /\ Chain(b) /\ Members(b) \subseteq S(m + 1)
    <3>1. CASE q[m + 1] = <<>>
      <4>1. b = a
        BY <2>5, <3>1
      <4> QED
        BY <2>3, <2>6, <4>1
    <3>2. CASE q[m + 1] = <<segs[m + 1]>>
      <4>1. b = a \o <<h>>
        BY <2>2, <2>5, <3>2
      <4>2. a \o <<h>> = Append(a, h)
        OBVIOUS
      <4>3. b = Append(a, h)
        BY <4>1, <4>2
      <4>4. Members(b) = Members(a) \cup {h}
        BY <4>3, MembersAppend
      <4> QED
        BY <2>3, <2>6, <2>7, <4>3, <4>4, ChainAppend
    <3> QED
      BY <2>1, <3>1, <3>2
  <2>9. Holds(m + 1)
    BY <2>4, <2>8
  <2> HIDE DEF Holds
  <2> QED
    BY <2>1, <2>9
<1>5. Holds(n)
  <2> HIDE DEF Holds
  <2>1. \A i \in 0..n : i \in T /\ i < n => i + 1 \in T
    BY <1>4
  <2> HIDE DEF T
  <2>2. \A i \in 0..n : i \in T
    BY <1>3, <2>1, UpTo
  <2> QED
    BY <2>2 DEF T
<1> QED
  BY <1>2, <1>5

\* A segment that comes a gap behind the others leaves them as they are, but for
\* some of one sample.
LEMMA AddExact ==
    ASSUME NEW segs \in Seq(Good), Chain(segs), NEW new \in Good,
           \A x \in Members(segs) : Apart(x, new)
    PROVE  /\ AddSegment(segs, new) \in Seq(Good) /\ AddSegment(segs, new) # <<>>
           /\ Chain(AddSegment(segs, new))
           /\ Exact(Members(AddSegment(segs, new)), Members(segs) \cup {new})
<1>1. PICK n \in Nat : n = Len(segs) /\ DOMAIN segs = 1..n /\ \A i \in 1..n : segs[i] \in Good
  BY Places1
<1>2. ASSUME NEW i \in 1..n
      PROVE  /\ ~InMiddle(segs[i], new)
             /\ \/ Kept(segs[i], new) = <<segs[i]>> /\ segs[i].beg < new.beg
                \/ Kept(segs[i], new) = <<>> /\ Len(segs[i].data) = 1
  <2>1. segs[i] \in Good /\ segs[i] \in Members(segs)
    BY <1>1 DEF Members
  <2>2. PICK g \in Good : g = segs[i] /\ Apart(g, new)
    BY <2>1
  <2> QED
    BY <2>2, KeptApart
<1>3. {i \in DOMAIN segs : InMiddle(segs[i], new)} = {}
  BY <1>1, <1>2
<1>4. PICK old : old = [i \in 1..n |-> Kept(segs[i], new)]
  OBVIOUS
<1>5. PICK flat : flat = FlattenSeq(old)
  OBVIOUS
<1>6. AddSegment(segs, new) = JoinSegments(Sorted(flat \o <<new>>))
  <2>1. PICK middle : middle = {i \in DOMAIN segs : InMiddle(segs[i], new)}
    OBVIOUS
  <2>2. middle = {}
    BY <1>3, <2>1
  <2>3. PICK k : k = CHOOSE i \in middle : \A j \in middle : j <= i
    OBVIOUS
  <2>4. PICK old2 : old2 = [i \in DOMAIN segs |-> IF \E j \in middle : i < j THEN <<segs[i]>>
                                                 ELSE Kept(segs[i], new)]
    OBVIOUS
  <2>5. old2 = old
    BY <1>1, <1>4, <2>2, <2>4
  <2>6. PICK rest : rest = IF middle = {} THEN <<>> ELSE Rest(segs[k], new)
    OBVIOUS
  <2>7. rest = <<>>
    BY <2>2, <2>6
  <2>8. AddSegment(segs, new) = JoinSegments(Sorted(FlattenSeq(old2) \o <<new>> \o rest))
    BY <2>1, <2>3, <2>4, <2>6 DEF AddSegment
  <2>9. PICK fn : fn = flat \o <<new>>
    OBVIOUS
  <2>10. fn \o <<>> = fn
    <3>1. \A i \in 1..n : old[i] \in Seq(Good)
      BY <1>1, <1>2, <1>4, None, One
    <3>2. old \in Seq(Seq(Good)) /\ DOMAIN old = 1..n /\ Len(old) = n
      BY <1>4, <3>1
    <3>3. flat \in Seq(Good)
      BY <1>5, <3>1, <3>2, Flatten
    <3>4. fn \in Seq(Good)
      BY <2>9, <3>3, One, Cat
    <3> QED
      BY <3>4
  <2> QED
    BY <1>5, <2>5, <2>7, <2>8, <2>9, <2>10
<1>7. \A i \in 1..n : old[i] = <<>> \/ old[i] = <<segs[i]>>
  BY <1>2, <1>4
<1>8. \A i \in 1..n : old[i] \in Seq(Good) /\ Len(old[i]) <= 1
  <2>1. ASSUME NEW i \in 1..n PROVE old[i] \in Seq(Good) /\ Len(old[i]) <= 1
    <3>1. CASE old[i] = <<>>
      BY <3>1, None
    <3>2. CASE old[i] = <<segs[i]>>
      <4>1. <<segs[i]>> \in Seq(Good) /\ Len(<<segs[i]>>) = 1
        BY <1>1, One
      <4> QED
        BY <3>2, <4>1
    <3> QED
      BY <1>7, <3>1, <3>2
  <2> QED
    BY <2>1
<1>9. old \in Seq(Seq(Good)) /\ DOMAIN old = 1..n /\ Len(old) = n
  BY <1>4, <1>8
<1>10. PICK F \in Seq(Good) : /\ F = flat /\ Chain(F)
                              /\ Members(F) = UNION {Members(old[i]) : i \in 1..n}
  <2>1. flat \in Seq(Good) /\ Members(flat) = UNION {Members(old[i]) : i \in 1..n}
    BY <1>5, <1>8, <1>9, FlattenMembers
  <2>2. Chain(flat)
    BY <1>1, <1>5, <1>7, <1>9, FlattenChain
  <2> QED
    BY <2>1, <2>2
<1>11. \A x \in Members(F) : x \in Members(segs) /\ x.beg < new.beg
  <2>1. ASSUME NEW i \in 1..n, NEW x \in Members(old[i]) PROVE x \in Members(segs) /\ x.beg < new.beg
    <3>1. old[i] # <<>>
      BY <2>1, <1>1, MembersOne
    <3>2. old[i] = <<segs[i]>> /\ segs[i].beg < new.beg
      BY <1>2, <1>4, <3>1
    <3>3. x = segs[i]
      BY <1>1, <2>1, <3>2, MembersOne
    <3> QED
      BY <1>1, <3>2, <3>3 DEF Members
  <2> QED
    BY <1>10, <2>1
<1>12. \A x \in Multi(Members(segs)) : x \in Members(F)
  <2>1. ASSUME NEW i \in 1..n, Len(segs[i].data) > 1 PROVE segs[i] \in Members(F)
    <3>4. segs[i] \in Good
      BY <1>1
    <3>5. Len(segs[i].data) \in Nat
      BY <3>4, GoodFields
    <3>6. PICK k \in Nat : k = Len(segs[i].data)
      BY <3>5
    <3>7. k > 1
      BY <2>1, <3>6
    <3>8. k # 1
      BY <3>7
    <3>3. Len(segs[i].data) # 1
      BY <3>6, <3>8
    <3>1. old[i] = <<segs[i]>>
      BY <1>2, <1>4, <3>3
    <3>2. segs[i] \in Members(old[i])
      BY <1>1, <3>1, MembersOne
    <3> QED
      BY <1>10, <3>2
  <2> QED
    BY <1>1, <2>1 DEF Multi, Members
<1>13. Exact(Members(F), Members(segs))
  BY <1>11, <1>12, ExactSubset
<1>14. PICK all \in Seq(Good) : all = F \o <<new>> /\ Chain(all) /\ Members(all) = Members(F) \cup {new}
  <2>1. F \o <<new>> = Append(F, new)
    OBVIOUS
  <2>2. \A x \in Members(F) : x.beg < new.beg /\ Apart(x, new)
    BY <1>11
  <2> QED
    BY <1>10, <2>1, <2>2, ChainAppend, MembersAppend
<1>15. Exact(Members(all), Members(segs) \cup {new})
  <2>1. PICK A, B, C : A = Members(F) /\ B = {new} /\ C = Members(segs)
    OBVIOUS
  <2>2. Exact(A, C) /\ Exact(B, B)
    BY <1>13, <2>1, ExactSelf
  <2>3. Exact(A \cup B, C \cup B)
    BY <2>2, ExactUnion
  <2>4. Members(all) = A \cup B
    BY <1>14, <2>1
  <2> QED
    BY <2>1, <2>3, <2>4
<1>16. PICK sorted \in Seq(Good) : sorted = Sorted(all) /\ Chain(sorted) /\ Members(sorted) = Members(all)
  BY <1>14, SortedChain
<1>17. PICK ss \in Seq(Good) : /\ ss = JoinSegments(sorted) /\ Chain(ss)
                               /\ Exact(Members(ss), Members(sorted))
  BY <1>16, JoinExact
<1>18. ss = AddSegment(segs, new)
  BY <1>6, <1>10, <1>14, <1>16, <1>17
<1>19. Exact(Members(ss), Members(segs) \cup {new})
  BY <1>15, <1>16, <1>17, ExactExact
<1>20. ss # <<>>
  <2>1. PICK c \in Nat : Moved(Members(ss), Members(sorted), c)
    BY <1>17, JoinMoves
  <2>2. new \in Members(sorted)
    BY <1>14, <1>16
  <2>3. \E g \in Members(ss) : TRUE
    BY <2>1, <2>2 DEF Moved, Held
  <2>4. Members(<<>>) = {}
    BY MembersOne
  <2> QED
    BY <2>3, <2>4
<1> QED
  BY <1>17, <1>18, <1>19, <1>20

\* Segments that come one after the other, gaps apart.
LEMMA JoinAllExact ==
    ASSUME NEW head \in Seq(Good), Chain(head), NEW others \in Seq(Good),
           \A x \in Members(head) : \A y \in Members(others) : Apart(x, y),
           \A i, j \in 1..Len(others) : i < j => Apart(others[i], others[j])
    PROVE  /\ Join(head, others) \in Seq(Good) /\ Chain(Join(head, others))
           /\ Exact(Members(Join(head, others)), Members(head) \cup Members(others))
           /\ others # <<>> \/ head # <<>> => Join(head, others) # <<>>
<1>1. PICK n \in Nat : n = Len(others) /\ (others # <<>> => n > 0) /\ \A i \in 1..n : others[i] \in Good
  BY Places1
<1>2. PICK g : /\ g[0] = head
               /\ \A i \in 1..n : g[i] = AddSegment(g[i - 1], others[i])
               /\ Join(head, others) = g[n]
  <2>1. PICK f : /\ f[0] = head
                 /\ \A i \in 1..Len(others) : f[i] = AddSegment(f[i - 1], others[i])
                 /\ Join(head, others) = f[Len(others)]
    BY JoinSteps
  <2> QED
    BY <1>1, <2>1
<1>3. PICK H : H = Members(head)
  OBVIOUS
<1> DEFINE S(m) == {others[i] : i \in 1..m}
           Holds(m) == /\ g[m] \in Seq(Good) /\ Chain(g[m])
                       /\ Exact(Members(g[m]), H \cup S(m))
                       /\ m > 0 \/ head # <<>> => g[m] # <<>>
           T == {m \in 0..n : Holds(m)}
<1>4. 0 \in T
  <2>1. H \cup S(0) = H /\ 0 \in 0..n /\ ~(0 > 0)
    OBVIOUS
  <2>2. Exact(H, H)
    BY ExactSelf
  <2> HIDE DEF S
  <2>3. Holds(0)
    BY <1>2, <1>3, <2>1, <2>2
  <2> HIDE DEF Holds
  <2> QED
    BY <2>1, <2>3
<1>5. ASSUME NEW m \in 0..n, m \in T, m < n PROVE m + 1 \in T
  <2>1. m + 1 \in 1..n /\ m + 1 \in 0..n /\ (m + 1) - 1 = m
    BY <1>5
  <2>2. PICK a \in Seq(Good), h \in Good : a = g[m] /\ h = others[m + 1]
    BY <1>1, <1>5, <2>1
  <2>3. Chain(a) /\ Exact(Members(a), H \cup S(m))
    BY <1>5, <2>2
  <2>4. PICK b : b = g[m + 1]
    OBVIOUS
  <2>5. b = AddSegment(a, h)
    BY <1>2, <2>1, <2>2, <2>4
  <2>6. S(m + 1) = S(m) \cup {h}
    <3>1. 1..(m + 1) = (1..m) \cup {m + 1}
      BY <1>5
    <3> QED
      BY <2>2, <3>1
  <2>7. \A y \in H \cup S(m) : Apart(y, h)
    <3>1. ASSUME NEW i \in 1..m PROVE Apart(others[i], h)
      <4>1. i \in 1..n /\ i < m + 1
        BY <1>5
      <4> QED
        BY <1>1, <2>1, <2>2, <4>1
    <3>2. ASSUME NEW y \in H PROVE Apart(y, h)
      <4>1. h \in Members(others)
        BY <1>1, <2>1, <2>2 DEF Members
      <4> QED
        BY <1>3, <4>1
    <3> QED
      BY <3>1, <3>2
  <2> HIDE DEF S
  <2>8. \A x \in Members(a) : Apart(x, h)
    <3>1. ASSUME NEW x \in Members(a) PROVE Apart(x, h)
      <4>1. PICK y \in H \cup S(m) : End(x) = End(y)
        BY <2>3 DEF Exact
      <4> QED
        BY <2>7, <4>1 DEF Apart
    <3> QED
      BY <3>1
  <2>9. b \in Seq(Good) /\ b # <<>> /\ Chain(b) /\ Exact(Members(b), Members(a) \cup {h})
    BY <2>3, <2>5, <2>8, AddExact
  <2>10. Exact(Members(a) \cup {h}, (H \cup S(m)) \cup {h})
    <3>1. Exact({h}, {h})
      BY ExactSelf
    <3> QED
      BY <2>3, <3>1, ExactUnion
  <2>11. (H \cup S(m)) \cup {h} = H \cup S(m + 1)
    BY <2>6
  <2>12. Exact(Members(b), H \cup S(m + 1))
    BY <2>9, <2>10, <2>11, ExactExact
  <2>13. Holds(m + 1)
    BY <2>4, <2>9, <2>12
  <2> HIDE DEF Holds
  <2> QED
    BY <2>1, <2>13
<1>6. Holds(n)
  <2> HIDE DEF Holds
  <2>1. \A i \in 0..n : i \in T /\ i < n => i + 1 \in T
    BY <1>5
  <2> HIDE DEF T
  <2>2. \A i \in 0..n : i \in T
    BY <1>4, <2>1, UpTo
  <2> QED
    BY <2>2 DEF T
<1>7. Members(others) = S(n)
  BY <1>1 DEF Members
<1> HIDE DEF S
<1> QED
  BY <1>1, <1>2, <1>3, <1>6, <1>7

-----------------------------------------------------------------------------
(* Windows of segments that nothing is left to join *)

\* What a place of segments that are tidy is: its number in the segment, which has
\* the channel's interval, and its time, between the first and the last one.
LEMMA TidyPlace ==
    ASSUME NEW segs \in Seq(Good), Tidy(segs),
           NEW j \in 1..Len(segs), NEW l \in 1..Len(segs[j].data)
    PROVE  /\ segs # <<>> /\ l \in Nat \ {0}
           /\ Tol(segs) = Interval /\ segs[j].del = Interval
           /\ Time(segs[j], l) \in Int /\ Time(segs[j], l) = segs[j].beg + (l - 1) * Interval
           /\ segs[j].beg \in Int /\ End(segs[j]) \in Int
           /\ segs[j].beg <= Time(segs[j], l) /\ Time(segs[j], l) <= End(segs[j])
           /\ TBeg(segs) <= Time(segs[j], l) /\ Time(segs[j], l) <= TEnd(segs)
<1>1. segs # <<>>
  BY None
<1>2. PICK n \in Nat \ {0} :
          /\ n = Len(segs) /\ 1 \in 1..n /\ n \in 1..n /\ j \in 1..n
          /\ \A i \in 1..n : segs[i] \in Good /\ Len(segs[i].data) > 1
          /\ TBeg(segs) = segs[1].beg /\ TEnd(segs) = End(segs[n])
  BY <1>1, Segments DEF Tidy
<1>3. \A i \in 1..n : /\ segs[i].del = Interval /\ segs[i].beg \in Int /\ End(segs[i]) \in Int
                      /\ Len(segs[i].data) \in Nat
  BY <1>2, GoodFields, Ends
<1>4. \A i \in 1..n : 1 \in 1..Len(segs[i].data) /\ Len(segs[i].data) \in 1..Len(segs[i].data)
  BY <1>2, <1>3
<1>5. ASSUME NEW i \in 1..n
      PROVE  Time(segs[i], 1) = segs[i].beg /\ End(segs[i]) = Time(segs[i], Len(segs[i].data))
  <2>1. 1 \in Int /\ segs[i] \in Good
    BY <1>2
  <2>2. Time(segs[i], 1) = segs[i].beg
    BY <2>1, TimeIs
  <2> QED
    BY <2>2 DEF End
<1>6. PICK k \in Nat \ {0} : k = l /\ 1 <= l /\ l <= Len(segs[j].data)
  BY <1>2, <1>3
<1>7. Time(segs[j], l) = segs[j].beg + (l - 1) * Interval
  BY <1>2, <1>3 DEF Time
<1>8. ASSUME NEW a \in Int, NEW b \in Int, Gap(b - a) PROVE a <= b
  <2>1. b - a >= 0
    BY <1>8, GapIs
  <2> QED
    BY <2>1
<1>9. segs[j].beg <= Time(segs[j], l) /\ Time(segs[j], l) \in Int
  <2>1. /\ Time(segs[j], 1) \in Int /\ Time(segs[j], l) \in Int
        /\ Gap(Time(segs[j], l) - Time(segs[j], 1))
    BY <1>2, <1>4, <1>6, PlacesGap
  <2> QED
    BY <1>2, <1>5, <1>8, <2>1
<1>10. Time(segs[j], l) <= End(segs[j])
  <2>1. /\ Time(segs[j], Len(segs[j].data)) \in Int /\ Time(segs[j], l) \in Int
        /\ Gap(Time(segs[j], Len(segs[j].data)) - Time(segs[j], l))
    BY <1>2, <1>4, <1>6, PlacesGap
  <2> QED
    BY <1>2, <1>5, <1>8, <2>1
<1>11. TBeg(segs) <= Time(segs[j], l)
  <2>1. 1 < j \/ (1 = j /\ 1 <= l)
    BY <1>2, <1>6
  <2>2. /\ Time(segs[1], 1) \in Int /\ Time(segs[j], l) \in Int
        /\ Gap(Time(segs[j], l) - Time(segs[1], 1))
    BY <1>2, <1>4, <2>1, PlacesGap
  <2> QED
    BY <1>2, <1>5, <1>8, <2>2
<1>12. Time(segs[j], l) <= TEnd(segs)
  <2>1. j < n \/ (j = n /\ l <= Len(segs[n].data))
    BY <1>2, <1>6
  <2>2. PICK o : o = Len(segs[n].data) /\ o \in 1..Len(segs[n].data)
    BY <1>2, <1>4
  <2>3. /\ Time(segs[n], o) \in Int /\ Time(segs[j], l) \in Int
        /\ Gap(Time(segs[n], o) - Time(segs[j], l))
    BY <1>2, <2>1, <2>2, PlacesGap
  <2> QED
    BY <1>2, <1>5, <1>8, <2>2, <2>3
<1>13. Tol(segs) = Interval
  BY <1>2, <1>3 DEF Tol
<1> QED
  BY <1>1, <1>2, <1>3, <1>6, <1>7, <1>9, <1>10, <1>11, <1>12, <1>13

\* Times do not decrease from place to place.
LEMMA PlacesOrder ==
    ASSUME NEW segs \in Seq(Good), Tidy(segs),
           NEW i \in 1..Len(segs), NEW k \in 1..Len(segs[i].data),
           NEW j \in 1..Len(segs), NEW l \in 1..Len(segs[j].data),
           i < j \/ (i = j /\ k <= l)
    PROVE  /\ Time(segs[i], k) \in Int /\ Time(segs[j], l) \in Int
           /\ Time(segs[i], k) <= Time(segs[j], l)
<1>1. /\ Time(segs[i], k) \in Int /\ Time(segs[j], l) \in Int
      /\ Gap(Time(segs[j], l) - Time(segs[i], k))
  BY PlacesGap
<1>2. Time(segs[j], l) - Time(segs[i], k) >= 0
  BY <1>1, GapIs
<1> QED
  BY <1>1, <1>2

\* upperBound gives the first place of a sample that is not before t.
LEMMA UpperExact ==
    ASSUME NEW segs \in Seq(Good), segs # <<>>, Tidy(segs), NEW t \in Int, t <= TEnd(segs)
    PROVE  \E i \in 1..Len(segs) : \E k \in 0..(Len(segs[i].data) - 1) :
              /\ UpperBound(segs, t) = <<i, k>>
              /\ \A j \in 1..Len(segs) : \A l \in 1..Len(segs[j].data) :
                    Time(segs[j], l) >= t <=> NotBefore(j, l, i, k)
<1>1. PICK n \in Nat \ {0} :
          /\ n = Len(segs) /\ DOMAIN segs = 1..n /\ 1 \in 1..n /\ n \in 1..n
          /\ \A i \in 1..n : segs[i] \in Good
          /\ Tol(segs) \in Nat \ {0} /\ TBeg(segs) = segs[1].beg /\ TBeg(segs) \in Int
          /\ TEnd(segs) = End(segs[n]) /\ TEnd(segs) \in Int
  BY Segments
<1>2. PICK d \in Nat \ {0} : d = Interval /\ d <= 99 /\ Tol(segs) = d
  <2>1. 1 \in 1..Len(segs[1].data)
    BY <1>1, GoodFields
  <2>2. Tol(segs) = Interval
    BY <1>1, <2>1, TidyPlace
  <2> QED
    BY <2>2, IntervalAssumption
<1>3. PICK e \in Int : e = 100 * t - d
  <2>1. 100 * t - d \in Int
    BY <1>2
  <2> QED
    BY <2>1
<1>40. PICK i \in 1..Len(segs) : \E k \in 0..(Len(segs[i].data) - 1) :
          /\ UpperBound(segs, t) = <<i, k>>
          /\ 100 * t - Tol(segs) <= 100 * TBeg(segs) => i = 1 /\ k = 0
          /\ (Tol(segs) < 100 /\ TBeg(segs) < t /\ t <= TEnd(segs))
             => t <= segs[i].beg + k * segs[i].del
  BY UpperIs
<1>4. PICK k \in 0..(Len(segs[i].data) - 1) :
          /\ UpperBound(segs, t) = <<i, k>>
          /\ 100 * t - Tol(segs) <= 100 * TBeg(segs) => i = 1 /\ k = 0
          /\ (Tol(segs) < 100 /\ TBeg(segs) < t /\ t <= TEnd(segs))
             => t <= segs[i].beg + k * segs[i].del
  BY <1>40
<1>5. PICK b \in Int, len \in Nat \ {0} :
          b = segs[i].beg /\ len = Len(segs[i].data) /\ segs[i].del = d /\ k \in 0..(len - 1)
  <2>1. 1 \in 1..Len(segs[i].data) /\ segs[i].beg \in Int /\ Len(segs[i].data) \in Nat \ {0}
    BY <1>1, GoodFields
  <2>2. segs[i].del = d
    BY <1>1, <1>2, <2>1, TidyPlace
  <2> QED
    BY <2>1, <2>2
<1>6. k \in Nat /\ k + 1 \in 1..len
  BY <1>5
<1>7. ASSUME NEW j \in 1..n, NEW l \in 1..Len(segs[j].data), NotBefore(j, l, i, k)
      PROVE  Time(segs[j], l) >= t
  <2>1. TBeg(segs) <= Time(segs[j], l) /\ Time(segs[j], l) \in Int /\ l \in Nat
    BY <1>1, TidyPlace
  <2>2. CASE t <= TBeg(segs)
    BY <1>1, <2>1, <2>2
  <2>3. CASE TBeg(segs) < t
    <3>1. i < j \/ (i = j /\ k + 1 <= l)
      BY <1>1, <1>5, <1>6, <2>1, <1>7 DEF NotBefore
    <3>2. Time(segs[i], k + 1) <= Time(segs[j], l) /\ Time(segs[i], k + 1) \in Int
      BY <1>1, <1>5, <1>6, <3>1, PlacesOrder
    <3>3. Time(segs[i], k + 1) = b + ((k + 1) - 1) * d
      BY <1>5 DEF Time
    <3>4. t <= b + k * d
      BY <1>1, <1>2, <1>4, <1>5, <2>3
    <3>5. (k + 1) - 1 = k
      BY <1>6
    <3>6. t <= Time(segs[i], k + 1)
      BY <3>3, <3>4, <3>5
    <3> QED
      BY <2>1, <3>2, <3>6
  <2> QED
    BY <1>1, <2>2, <2>3
<1>8. ASSUME NEW j \in 1..n, NEW l \in 1..Len(segs[j].data), ~NotBefore(j, l, i, k)
      PROVE  ~(Time(segs[j], l) >= t)
  <2>1. l \in Nat \ {0} /\ Time(segs[j], l) \in Int /\ Time(segs[j], l) <= End(segs[j]) /\ End(segs[j]) \in Int
        /\ Time(segs[j], l) = segs[j].beg + (l - 1) * d
    <3>1. j \in 1..Len(segs)
      BY <1>1
    <3>2. /\ l \in Nat \ {0} /\ Time(segs[j], l) \in Int /\ Time(segs[j], l) <= End(segs[j])
          /\ End(segs[j]) \in Int /\ Time(segs[j], l) = segs[j].beg + (l - 1) * Interval
      BY <3>1, TidyPlace
    <3> QED
      BY <1>2, <3>2
  <2>2. j < i \/ (j = i /\ l <= k)
    BY <1>1, <1>5, <1>6, <2>1, <1>8 DEF NotBefore
  <2>3. CASE e <= 100 * TBeg(segs)
    <3>1. i = 1 /\ k = 0
      BY <1>2, <1>3, <1>4, <2>3
    <3> QED
      BY <1>1, <2>1, <2>2, <3>1
  <2>4. CASE ~(e <= 100 * TBeg(segs))
    <3>1. PICK on \in SUBSET (1..n) : on = {m \in DOMAIN segs : e <= 100 * End(segs[m])}
      <4>1. {m \in DOMAIN segs : e <= 100 * End(segs[m])} \in SUBSET (1..n)
        BY <1>1
      <4> QED
        BY <4>1
    <3>2. n \in on
      <4>1. 100 * t - d <= 100 * TEnd(segs)
        BY <1>1
      <4> QED
        BY <1>1, <1>3, <3>1, <4>1
    <3>3. PICK c : c = CHOOSE m \in on : \A o \in on : m <= o
      OBVIOUS
    <3>4. c \in on /\ \A o \in on : c <= o
      <4>1. on \in SUBSET Nat
        OBVIOUS
      <4>2. \E m \in on : \A o \in on : m <= o
        BY <3>2, <4>1, Least
      <4> QED
        BY <3>3, <4>2
    <3>5. PICK ndex : ndex = -((100 * segs[c].beg - e) \div (100 * segs[c].del))
      OBVIOUS
    <3>6. UpperBound(segs, t) = <<c, Clamp(ndex, Len(segs[c].data))>>
      BY <1>2, <1>3, <2>4, <3>1, <3>2, <3>3, <3>5 DEF UpperBound
    <3>7. i = c /\ k = Clamp(ndex, Len(segs[c].data))
      BY <1>4, <3>6
    <3>8. CASE j < i
      <4>1. j \notin on
        BY <3>4, <3>7, <3>8
      <4>2. ~(e <= 100 * End(segs[j]))
        BY <1>1, <3>1, <4>1
      <4>3. End(segs[j]) < t
        BY <1>3, <2>1, <4>2
      <4> QED
        BY <2>1, <4>3
    <3>9. CASE j = i /\ l <= k
      <4>1. PICK x \in Int : x = 100 * b - e
        <5>1. 100 * b - e \in Int
          BY <1>3, <1>5
        <5> QED
          BY <5>1
      <4>2. 100 * d \in Nat \ {0}
        OBVIOUS
      <4>3. PICK q \in Int : q = x \div (100 * d) /\ x < (100 * d) * q + 100 * d
        BY <4>2, Quotient
      <4>4. ndex = -q /\ k = Clamp(-q, len)
        BY <1>5, <3>5, <3>7, <4>1, <4>3
      <4>5. k <= -q
        <5>1. -q \in Int /\ k # 0
          BY <1>6, <2>1, <3>9
        <5>2. (-q <= 0 => k = 0) /\ (-q >= 0 => k <= -q)
          BY <4>4, <5>1, Clamped
        <5> QED
          BY <5>1, <5>2
      <4>6. PICK a \in Nat : a = l - 1 /\ a <= -q - 1
        <5>1. l - 1 \in Nat
          BY <2>1
        <5>2. l - 1 <= -q - 1
          BY <1>6, <2>1, <3>9, <4>5
        <5> QED
          BY <5>1, <5>2
      <4>7. a * d \in Int /\ (-q - 1) * d \in Int /\ a * d <= (-q - 1) * d
        <5>1. -q - 1 \in Int /\ a \in Int
          OBVIOUS
        <5> QED
          BY <4>6, <5>1, Monotone
      <4>8. PICK y \in Int, z \in Int : y = a * d /\ z = q * d
        BY <4>7
      <4>9. (-q - 1) * d = -z - d /\ (100 * d) * q = 100 * z
        BY <4>8
      <4>10. y <= -z - d /\ 100 * b - e < 100 * z + 100 * d
        BY <4>1, <4>3, <4>7, <4>8, <4>9
      <4>11. 100 * (b + y) < e
        BY <4>10
      <4>12. b + y < t
        BY <1>3, <4>11
      <4>13. Time(segs[j], l) = b + y
        BY <1>5, <2>1, <3>9, <4>6, <4>8
      <4> QED
        BY <4>12, <4>13
    <3> QED
      BY <2>2, <3>8, <3>9
  <2> QED
    BY <2>3, <2>4
<1> QED
  BY <1>1, <1>4, <1>7, <1>8

\* lowerBound gives the last place of a sample that is not behind t.
LEMMA LowerExact ==
    ASSUME NEW segs \in Seq(Good), segs # <<>>, Tidy(segs), NEW t \in Int, TBeg(segs) <= t
    PROVE  \E i \in 1..Len(segs) : \E k \in 0..(Len(segs[i].data) - 1) :
              /\ LowerBound(segs, t) = <<i, k>>
              /\ \A j \in 1..Len(segs) : \A l \in 1..Len(segs[j].data) :
                    Time(segs[j], l) <= t <=> NotBehind(j, l, i, k)
<1>1. PICK n \in Nat \ {0} :
          /\ n = Len(segs) /\ DOMAIN segs = 1..n /\ 1 \in 1..n /\ n \in 1..n
          /\ \A i \in 1..n : segs[i] \in Good
          /\ Tol(segs) \in Nat \ {0} /\ TBeg(segs) = segs[1].beg /\ TBeg(segs) \in Int
          /\ TEnd(segs) = End(segs[n]) /\ TEnd(segs) \in Int
  BY Segments
<1>2. PICK d \in Nat \ {0} : d = Interval /\ d <= 99 /\ Tol(segs) = d
  <2>1. 1 \in 1..Len(segs[1].data)
    BY <1>1, GoodFields
  <2>2. Tol(segs) = Interval
    BY <1>1, <2>1, TidyPlace
  <2> QED
    BY <2>2, IntervalAssumption
<1>3. PICK e \in Int : e = 100 * t + d
  <2>1. 100 * t + d \in Int
    BY <1>2
  <2> QED
    BY <2>1
<1>40. PICK i \in 1..Len(segs) : \E k \in 0..(Len(segs[i].data) - 1) :
          /\ LowerBound(segs, t) = <<i, k>>
          /\ 100 * t + Tol(segs) >= 100 * TEnd(segs) => i = Len(segs) /\ k = Len(segs[i].data) - 1
          /\ (Tol(segs) < 100 /\ TBeg(segs) <= t) => segs[i].beg + k * segs[i].del <= t
  BY LowerIs
<1>4. PICK k \in 0..(Len(segs[i].data) - 1) :
          /\ LowerBound(segs, t) = <<i, k>>
          /\ 100 * t + Tol(segs) >= 100 * TEnd(segs) => i = Len(segs) /\ k = Len(segs[i].data) - 1
          /\ (Tol(segs) < 100 /\ TBeg(segs) <= t) => segs[i].beg + k * segs[i].del <= t
  BY <1>40
<1>5. PICK b \in Int, len \in Nat \ {0} :
          b = segs[i].beg /\ len = Len(segs[i].data) /\ segs[i].del = d /\ k \in 0..(len - 1)
  <2>1. 1 \in 1..Len(segs[i].data) /\ segs[i].beg \in Int /\ Len(segs[i].data) \in Nat \ {0}
    BY <1>1, GoodFields
  <2>2. segs[i].del = d
    BY <1>1, <1>2, <2>1, TidyPlace
  <2> QED
    BY <2>1, <2>2
<1>6. k \in Nat /\ k + 1 \in 1..len
  BY <1>5
<1>7. ASSUME NEW j \in 1..n, NEW l \in 1..Len(segs[j].data), NotBehind(j, l, i, k)
      PROVE  Time(segs[j], l) <= t
  <2>1. Time(segs[j], l) \in Int /\ l \in Nat
    BY <1>1, TidyPlace
  <2>2. j < i \/ (j = i /\ l <= k + 1)
    BY <1>7 DEF NotBehind
  <2>3. Time(segs[j], l) <= Time(segs[i], k + 1) /\ Time(segs[i], k + 1) \in Int
    BY <1>1, <1>5, <1>6, <2>2, PlacesOrder
  <2>4. Time(segs[i], k + 1) = b + ((k + 1) - 1) * d
    BY <1>5 DEF Time
  <2>5. b + k * d <= t
    BY <1>1, <1>2, <1>4, <1>5
  <2>6. (k + 1) - 1 = k
    BY <1>6
  <2>7. Time(segs[i], k + 1) <= t
    BY <2>4, <2>5, <2>6
  <2> QED
    BY <2>1, <2>3, <2>7
<1>8. ASSUME NEW j \in 1..n, NEW l \in 1..Len(segs[j].data), ~NotBehind(j, l, i, k)
      PROVE  ~(Time(segs[j], l) <= t)
  <2>1. l \in Nat \ {0} /\ Time(segs[j], l) \in Int /\ segs[j].beg <= Time(segs[j], l) /\ segs[j].beg \in Int
        /\ Time(segs[j], l) = segs[j].beg + (l - 1) * d
    <3>1. j \in 1..Len(segs)
      BY <1>1
    <3>2. /\ l \in Nat \ {0} /\ Time(segs[j], l) \in Int /\ segs[j].beg <= Time(segs[j], l)
          /\ segs[j].beg \in Int /\ Time(segs[j], l) = segs[j].beg + (l - 1) * Interval
      BY <3>1, TidyPlace
    <3> QED
      BY <1>2, <3>2
  <2>2. i < j \/ (j = i /\ k + 2 <= l /\ l <= len)
    BY <1>1, <1>5, <1>6, <2>1, <1>8 DEF NotBehind
  <2>3. ~(e >= 100 * TEnd(segs))
    <3> SUFFICES ASSUME e >= 100 * TEnd(segs) PROVE FALSE
      OBVIOUS
    <3>1. i = n /\ k = len - 1
      BY <1>1, <1>2, <1>3, <1>4, <1>5
    <3> QED
      BY <1>1, <1>6, <2>1, <2>2, <3>1
  <2>4. PICK on \in SUBSET (1..n) : on = Begun(segs, e)
    <3>1. Begun(segs, e) \in SUBSET (1..n)
      BY <1>1 DEF Begun
    <3> QED
      BY <3>1
  <2>5. 1 \in on
    <3>1. e >= 100 * segs[1].beg
      BY <1>1, <1>2, <1>3
    <3> QED
      BY <1>1, <2>4, <3>1 DEF Begun
  <2>6. PICK c : c = LastOf(on)
    OBVIOUS
  <2>7. c \in on /\ \A o \in on : o <= c
    <3>1. PICK m \in on : \A o \in on : o <= m
      BY <2>5, Greatest
    <3>2. \E x \in on : \A o \in on : x >= o
      BY <3>1
    <3>3. c \in on /\ \A o \in on : c >= o
      BY <2>6, <3>2 DEF LastOf
    <3> QED
      BY <3>3
  <2>8. PICK ndex : ndex = (e - 100 * segs[c].beg) \div (100 * segs[c].del)
    OBVIOUS
  <2>9. LowerBound(segs, t) = <<c, Clamp(ndex, Len(segs[c].data))>>
    <3>1. e = 100 * t + Tol(segs)
      BY <1>2, <1>3
    <3>2. on # {}
      BY <2>5
    <3>3. LowerBound(segs, t) =
              <<c, Clamp((e - 100 * segs[c].beg) \div (100 * segs[c].del), Len(segs[c].data))>>
      <4>1. /\ e = 100 * t + Tol(segs) /\ on = Begun(segs, e)
            /\ ~(e >= 100 * TEnd(segs)) /\ on # {} /\ c = LastOf(on)
        BY <2>3, <2>4, <2>6, <3>1, <3>2
      <4>2. LowerBound(segs, t) = PlaceIn(segs, c, e)
        BY <4>1, LowerInside
      <4> QED
        BY <4>2 DEF PlaceIn
    <3> QED
      BY <2>8, <3>3
  <2>10. i = c /\ k = Clamp(ndex, Len(segs[c].data))
    BY <1>4, <2>9
  <2>11. CASE i < j
    <3>1. j \notin on
      BY <2>7, <2>10, <2>11
    <3>2. ~(e >= 100 * segs[j].beg)
      BY <1>1, <2>4, <3>1 DEF Begun
    <3>3. t < segs[j].beg
      BY <1>2, <1>3, <2>1, <3>2
    <3> QED
      BY <2>1, <3>3
  <2>12. CASE j = i /\ k + 2 <= l /\ l <= len
    <3>1. PICK x \in Int : x = e - 100 * b
      <4>1. e - 100 * b \in Int
        BY <1>3, <1>5
      <4> QED
        BY <4>1
    <3>2. 100 * d \in Nat \ {0}
      OBVIOUS
    <3>3. PICK q \in Int : q = x \div (100 * d) /\ x < (100 * d) * q + 100 * d
      BY <3>2, Quotient
    <3>4. ndex = q /\ k = Clamp(q, len)
      BY <1>5, <2>8, <2>10, <3>1, <3>3
    <3>5. q <= k
      <4>1. k # len - 1
        BY <1>5, <1>6, <2>1, <2>12
      <4>2. Clamp(q, len) >= q \/ Clamp(q, len) = len - 1
        BY Clamped
      <4> QED
        BY <3>4, <4>1, <4>2
    <3>6. PICK a \in Nat : a = l - 1 /\ q + 1 <= a
      <4>1. l - 1 \in Nat
        BY <2>1
      <4>2. q + 1 <= l - 1
        BY <1>6, <2>1, <2>12, <3>5
      <4> QED
        BY <4>1, <4>2
    <3>7. a * d \in Int /\ (q + 1) * d \in Int /\ (q + 1) * d <= a * d
      <4>1. q + 1 \in Int /\ a \in Int
        OBVIOUS
      <4> QED
        BY <3>6, <4>1, Monotone
    <3>8. PICK y \in Int, z \in Int : y = a * d /\ z = q * d
      BY <3>7
    <3>9. (q + 1) * d = z + d /\ (100 * d) * q = 100 * z
      BY <3>8
    <3>10. z + d <= y /\ e - 100 * b < 100 * z + 100 * d
      BY <3>1, <3>3, <3>7, <3>8, <3>9
    <3>11. e < 100 * (b + y)
      BY <3>10
    <3>12. t < b + y
      BY <1>2, <1>3, <3>11
    <3>13. Time(segs[j], l) = b + y
      BY <1>5, <2>1, <2>12, <3>6, <3>8
    <3> QED
      BY <3>12, <3>13
  <2> QED
    BY <2>2, <2>11, <2>12
<1> QED
  BY <1>1, <1>4, <1>7, <1>8

\* What of h, which is segment i, lies between index k1 of segment i1 and k2 of i2.
PieceOf(p, h, i, i1, k1, i2, k2) ==
    \E a \in 1..Len(h.data) : \E b \in a..Len(h.data) :
       /\ p = Part(h, a, b)
       /\ \A k \in 1..Len(h.data) :
             k \in a..b <=> NotBefore(i, k, i1, k1) /\ NotBehind(i, k, i2, k2)

\* P is what of each segment lies between the bounds.
Pieces(P, segs, i1, k1, i2, k2) ==
    /\ P \in Seq(Good) /\ Len(P) = i2 - i1 + 1
    /\ \A m \in 1..Len(P) : /\ i1 + m - 1 \in 1..Len(segs)
                            /\ PieceOf(P[m], segs[i1 + m - 1], i1 + m - 1, i1, k1, i2, k2)

\* The parts that subseries joins are that.
LEMMA PartsRows ==
    ASSUME NEW segs \in Seq(Good), NEW i1 \in 1..Len(segs), NEW i2 \in 1..Len(segs),
           NEW k1 \in 0..(Len(segs[i1].data) - 1), NEW k2 \in 0..(Len(segs[i2].data) - 1),
           i1 < i2 \/ (i1 = i2 /\ k1 <= k2),
           NEW P, P = Parts(segs, i1, k1, i2, k2)
    PROVE  Pieces(P, segs, i1, k1, i2, k2)
<1>1. PICK g \in Good, h \in Good, n \in Nat :
          g = segs[i1] /\ h = segs[i2] /\ n = Len(segs) /\ \A i \in 1..n : segs[i] \in Good
  BY Places1
<1>2. PICK l1 \in Nat, l2 \in Nat :
          /\ l1 = Len(g.data) /\ k1 \in 0..(l1 - 1)
          /\ l2 = Len(h.data) /\ k2 \in 0..(l2 - 1)
  BY <1>1, GoodFields
<1>3. PICK a \in 1..l1 : a = k1 + 1
  <2>1. k1 + 1 \in 1..l1
    BY <1>2
  <2> QED
    BY <2>1
<1>4. PICK b \in 1..l2 : b = k2 + 1 /\ a = k1 + 1
  <2>1. k2 + 1 \in 1..l2
    BY <1>2
  <2> QED
    BY <1>3, <2>1
<1>5. CASE i1 = i2
  <2>1. g = h /\ l1 = l2 /\ k1 <= k2 /\ k2 \in k1..(l1 - 1) /\ b \in a..l1
    BY <1>1, <1>2, <1>4, <1>5
  <2>2. Subsegment(g, k1, k2) = Part(g, a, b) /\ Part(g, a, b) \in Good
    <3>1. k1 \in 0..(Len(g.data) - 1) /\ k2 \in k1..(Len(g.data) - 1)
      BY <1>2, <2>1
    <3>2. Subsegment(g, k1, k2) = Part(g, k1 + 1, k2 + 1)
      BY <3>1, SubsegmentIs
    <3>3. Part(g, a, b) \in Good
      BY <1>2, <1>4, <2>1, PartIs
    <3> QED
      BY <1>4, <3>2, <3>3
  <2>3. P = <<Part(g, a, b)>>
    BY <1>1, <1>5, <2>2 DEF Parts
  <2>4. P \in Seq(Good) /\ Len(P) = 1 /\ P[1] = Part(g, a, b)
    BY <2>2, <2>3, One
  <2>5. \A k \in 1..l1 : k \in a..b <=> NotBefore(i1, k, i1, k1) /\ NotBehind(i1, k, i1, k2)
    BY <1>1, <1>4, <2>1 DEF NotBefore, NotBehind
  <2>6. PieceOf(P[1], g, i1, i1, k1, i2, k2)
    BY <1>2, <1>5, <2>1, <2>4, <2>5 DEF PieceOf
  <2>7. i2 - i1 + 1 = 1 /\ i1 + 1 - 1 = i1
    BY <1>1, <1>5
  <2>8. \A m \in 1..1 : m = 1
    OBVIOUS
  <2> QED
    BY <1>1, <2>4, <2>6, <2>7, <2>8 DEF Pieces
<1>6. CASE i1 < i2
  <2>1. /\ 1 \in 1..l2 /\ b \in 1..l2 /\ a \in 1..l1 /\ l1 \in a..l1
        /\ l1 - 1 \in k1..(l1 - 1) /\ 0 \in 0..(l2 - 1) /\ k2 \in 0..(l2 - 1) /\ (l1 - 1) + 1 = l1
        /\ 0 + 1 = 1
    BY <1>2, <1>4
  <2>2. PICK p \in Good : p = Part(g, a, l1) /\ Subsegment(g, k1, l1 - 1) = p
    <3>1. Part(g, a, l1) \in Good
      BY <1>2, <2>1, PartIs
    <3>2. Subsegment(g, k1, l1 - 1) = Part(g, k1 + 1, (l1 - 1) + 1)
      BY <1>2, <2>1, SubsegmentIs
    <3> QED
      BY <1>4, <2>1, <3>1, <3>2
  <2>3. PICK q \in Good : q = Part(h, 1, b) /\ Subsegment(h, 0, k2) = q
    <3>1. Part(h, 1, b) \in Good
      BY <1>2, <2>1, PartIs
    <3>2. Subsegment(h, 0, k2) = Part(h, 0 + 1, k2 + 1)
      BY <1>2, <2>1, SubsegmentIs
    <3> QED
      BY <1>4, <2>1, <3>1, <3>2
  <2>4. PICK mid : mid = SubSeq(segs, i1 + 1, i2 - 1)
    OBVIOUS
  <2>5. PICK w \in Nat : w = i2 - i1 - 1
    <3>1. i2 - i1 - 1 \in Nat
      BY <1>1, <1>6
    <3> QED
      BY <3>1
  <2>6. /\ mid \in Seq(Good) /\ Len(mid) = w
        /\ \A m \in 1..w : mid[m] = segs[i1 + m]
    <3>1. i1 + 1 \in Int /\ i2 - 1 \in Int /\ i1 + 1 >= 1 /\ i2 - 1 <= Len(segs)
      BY <1>1
    <3>2. /\ mid \in Seq(Good)
          /\ Len(mid) = IF i1 + 1 <= i2 - 1 THEN (i2 - 1) - (i1 + 1) + 1 ELSE 0
          /\ \A m \in 1..Len(mid) : mid[m] = segs[(i1 + 1) + m - 1]
      BY <2>4, <3>1, Sub
    <3>3. Len(mid) = w
      BY <1>1, <1>6, <2>5, <3>2
    <3>4. \A m \in 1..w : (i1 + 1) + m - 1 = i1 + m
      BY <1>1
    <3> QED
      BY <3>2, <3>3, <3>4
  <2>7. PICK sp \in Seq(Good), sq \in Seq(Good) :
             /\ sp = <<p>> /\ Len(sp) = 1 /\ sp[1] = p
             /\ sq = <<q>> /\ Len(sq) = 1 /\ sq[1] = q
    BY One
  <2>8. PICK pm : pm = sp \o mid
    OBVIOUS
  <2>9. P = pm \o sq
    <3>1. i1 # i2
      BY <1>1, <1>6
    <3>2. P = <<Subsegment(segs[i1], k1, Len(segs[i1].data) - 1)>> \o mid
               \o <<Subsegment(segs[i2], 0, k2)>>
      BY <2>4, <3>1 DEF Parts
    <3>3. /\ Subsegment(segs[i1], k1, Len(segs[i1].data) - 1) = p
          /\ Subsegment(segs[i2], 0, k2) = q
      BY <1>1, <1>2, <2>2, <2>3
    <3> QED
      BY <2>7, <2>8, <3>2, <3>3
  <2>10. /\ pm \in Seq(Good) /\ Len(pm) = w + 1 /\ pm[1] = p
         /\ \A m \in 2..(w + 1) : pm[m] = mid[m - 1]
    <3>1. /\ pm \in Seq(Good) /\ Len(pm) = 1 + w
          /\ \A m \in 1..1 : pm[m] = sp[m]
          /\ \A m \in 1..w : pm[1 + m] = mid[m]
      <4>1. sp \in Seq(Good) /\ Len(sp) = 1
        BY <2>7
      <4>2. mid \in Seq(Good) /\ Len(mid) = w /\ w \in Nat /\ 1 \in Nat
        BY <2>6
      <4>3. Behind(pm, sp, 1, mid, w)
        BY <2>8, <4>1, <4>2, CatOf
      <4> QED
        BY <4>3 DEF Behind
    <3>2. \A m \in 2..(w + 1) : m - 1 \in 1..w /\ 1 + (m - 1) = m
      OBVIOUS
    <3>3. 1 \in 1..1
      OBVIOUS
    <3> QED
      BY <2>7, <3>1, <3>2, <3>3
  <2>11. /\ P \in Seq(Good) /\ Len(P) = w + 2 /\ P[w + 2] = q
         /\ \A m \in 1..(w + 1) : P[m] = pm[m]
    <3>1. /\ P \in Seq(Good) /\ Len(P) = (w + 1) + 1
          /\ \A m \in 1..(w + 1) : P[m] = pm[m]
          /\ \A m \in 1..1 : P[(w + 1) + m] = sq[m]
      <4>1. pm \in Seq(Good) /\ Len(pm) = w + 1
        BY <2>10
      <4>2. sq \in Seq(Good) /\ Len(sq) = 1
        BY <2>7
      <4>3. w + 1 \in Nat /\ 1 \in Nat
        BY <2>6
      <4>4. Behind(P, pm, w + 1, sq, 1)
        BY <2>9, <4>1, <4>2, <4>3, CatOf
      <4> QED
        BY <4>4 DEF Behind
    <3>2. 1 \in 1..1 /\ (w + 1) + 1 = w + 2
      OBVIOUS
    <3> QED
      BY <2>7, <3>1, <3>2
  <2>12. PieceOf(p, g, i1, i1, k1, i2, k2)
    <3>1. \A k \in 1..l1 : k \in a..l1 <=> NotBefore(i1, k, i1, k1) /\ NotBehind(i1, k, i2, k2)
      BY <1>1, <1>4, <1>6 DEF NotBefore, NotBehind
    <3> QED
      BY <1>2, <2>1, <2>2, <3>1 DEF PieceOf
  <2>13. PieceOf(q, h, i2, i1, k1, i2, k2)
    <3>1. \A k \in 1..l2 : k \in 1..b <=> NotBefore(i2, k, i1, k1) /\ NotBehind(i2, k, i2, k2)
      BY <1>1, <1>4, <1>6 DEF NotBefore, NotBehind
    <3>2. 1 \in 1..l2 /\ b \in 1..l2
      BY <2>1
    <3> QED
      BY <1>2, <2>3, <3>1, <3>2 DEF PieceOf
  <2>14. ASSUME NEW i \in 1..n, i1 < i, i < i2 PROVE PieceOf(segs[i], segs[i], i, i1, k1, i2, k2)
    <3>1. PICK l \in Nat \ {0} : l = Len(segs[i].data)
      BY <1>1, GoodFields
    <3>2. segs[i] = Part(segs[i], 1, l)
      BY <1>1, <3>1, PartWhole
    <3>3. 1 \in 1..l /\ l \in 1..l
      OBVIOUS
    <3>4. \A k \in 1..l : NotBefore(i, k, i1, k1) /\ NotBehind(i, k, i2, k2)
      BY <2>14 DEF NotBefore, NotBehind
    <3> QED
      BY <3>1, <3>2, <3>3, <3>4 DEF PieceOf
  <2>15. ASSUME NEW m \in 1..(w + 2)
         PROVE  /\ i1 + m - 1 \in 1..n
                /\ PieceOf(P[m], segs[i1 + m - 1], i1 + m - 1, i1, k1, i2, k2)
    <3>1. CASE m = 1
      <4>1. i1 + m - 1 = i1 /\ m \in 1..(w + 1)
        BY <1>1, <3>1
      <4>2. P[m] = p
        BY <2>10, <2>11, <3>1, <4>1
      <4> QED
        BY <1>1, <2>12, <4>1, <4>2
    <3>2. CASE m \in 2..(w + 1)
      <4>1. PICK i \in 1..n : i = i1 + m - 1 /\ i1 < i /\ i < i2
        <5>1. i1 + m - 1 \in 1..n /\ i1 < i1 + m - 1 /\ i1 + m - 1 < i2
          BY <1>1, <2>5, <3>2
        <5> QED
          BY <5>1
      <4>2. m \in 1..(w + 1) /\ m - 1 \in 1..w /\ i1 + (m - 1) = i1 + m - 1
        BY <1>1, <3>2
      <4>3. P[m] = segs[i]
        BY <2>6, <2>10, <2>11, <3>2, <4>1, <4>2
      <4> QED
        BY <2>14, <4>1, <4>3
    <3>3. CASE m = w + 2
      <4>1. i1 + m - 1 = i2
        BY <1>1, <2>5, <3>3
      <4> QED
        BY <1>1, <2>11, <2>13, <3>3, <4>1
    <3> QED
      BY <3>1, <3>2, <3>3
  <2>16. i2 - i1 + 1 = w + 2
    BY <1>1, <2>5
  <2> QED
    BY <1>1, <2>11, <2>15, <2>16 DEF Pieces
<1> QED
  BY <1>5, <1>6

\* Samples a to b of a segment keep their times.
LEMMA PartPairs ==
    ASSUME NEW g \in Good, NEW a \in 1..Len(g.data), NEW b \in a..Len(g.data)
    PROVE  /\ Part(g, a, b) \in Good /\ Len(Part(g, a, b).data) = b - a + 1
           /\ Part(g, a, b).beg = Time(g, a) /\ End(Part(g, a, b)) = Time(g, b)
           /\ Pairs(Part(g, a, b)) = {<<g.data[k], Time(g, k)>> : k \in a..b}
<1>1. PICK n \in Nat : n = Len(g.data) /\ a \in 1..n /\ b \in a..n
  BY GoodFields
<1>2. PICK p : p = Part(g, a, b)
  OBVIOUS
<1>3. PICK m \in Nat : m = b - a + 1 /\ m >= 1
  <2>1. b - a + 1 \in Nat /\ b - a + 1 >= 1
    BY <1>1
  <2> QED
    BY <2>1
<1>4. /\ p \in Good /\ p.beg = g.beg + (a - 1) * g.del /\ p.del = g.del
      /\ Len(p.data) = m /\ \A k \in 1..m : p.data[k] = g.data[k + a - 1]
  BY <1>2, <1>3, PartIs
<1>5. p.beg = Time(g, a)
  BY <1>4 DEF Time
<1>6. ASSUME NEW k \in 1..m PROVE Time(p, k) = Time(g, k + a - 1)
  <2>1. a \in Int /\ k - 1 \in Int /\ a + (k - 1) = k + a - 1
    BY <1>1
  <2>2. Time(g, a + (k - 1)) = Time(g, a) + (k - 1) * g.del
    BY <2>1, TimeIs
  <2>3. Time(p, k) = Time(g, a) + (k - 1) * g.del
    BY <1>4, <1>5 DEF Time
  <2> QED
    BY <2>1, <2>2, <2>3
<1>7. End(p) = Time(g, b)
  <2>1. m \in 1..m /\ m + a - 1 = b
    BY <1>1, <1>3
  <2> QED
    BY <1>4, <1>6, <2>1 DEF End
<1>8. \A k \in 1..m : k + a - 1 \in a..b
  BY <1>1, <1>3
<1>9. \A k \in a..b : k - a + 1 \in 1..m /\ (k - a + 1) + a - 1 = k
  BY <1>1, <1>3
<1>10. Pairs(p) = {<<p.data[k], Time(p, k)>> : k \in 1..m}
  BY <1>4 DEF Pairs
<1>11. Pairs(p) \subseteq {<<g.data[k], Time(g, k)>> : k \in a..b}
  <2>1. ASSUME NEW k \in 1..m
        PROVE  <<p.data[k], Time(p, k)>> \in {<<g.data[l], Time(g, l)>> : l \in a..b}
    <3>1. <<p.data[k], Time(p, k)>> = <<g.data[k + a - 1], Time(g, k + a - 1)>>
      BY <1>4, <1>6
    <3> QED
      BY <1>8, <3>1
  <2> QED
    BY <1>10, <2>1
<1>12. {<<g.data[k], Time(g, k)>> : k \in a..b} \subseteq Pairs(p)
  <2>1. ASSUME NEW k \in a..b PROVE <<g.data[k], Time(g, k)>> \in Pairs(p)
    <3>1. PICK l \in 1..m : l = k - a + 1 /\ l + a - 1 = k
      BY <1>9
    <3>2. <<p.data[l], Time(p, l)>> = <<g.data[k], Time(g, k)>>
      BY <1>4, <1>6, <3>1
    <3> QED
      BY <1>10, <3>2
  <2> QED
    BY <2>1
<1> QED
  BY <1>2, <1>3, <1>4, <1>5, <1>7, <1>11, <1>12

\* The segments in S are what segs has at the places W: they begin and end at those,
\* they have no other samples, and each of those that has its neighbour there too.
Covers(S, segs, W) ==
    /\ \A g \in S : (\E p \in W : g.beg = When(segs, p)) /\ (\E p \in W : End(g) = When(segs, p))
    /\ Shown(S) \subseteq Timed(segs, W)
    /\ \A p \in W : Company(W, p) => <<At(segs, p), When(segs, p)>> \in Shown(Multi(S))

\* What has the samples of segments that are so is so.
LEMMA CoversExact ==
    ASSUME NEW S, NEW T, NEW segs, NEW W, Covers(S, segs, W), Exact(T, S)
    PROVE  Covers(T, segs, W)
<1>1. Shown(T) \subseteq Timed(segs, W)
  BY DEF Covers, Exact
<1>2. \A p \in W : Company(W, p) => <<At(segs, p), When(segs, p)>> \in Shown(Multi(T))
  BY DEF Covers, Exact
<1>3. ASSUME NEW g \in T
      PROVE  (\E p \in W : g.beg = When(segs, p)) /\ (\E p \in W : End(g) = When(segs, p))
  <2>1. PICK x \in S, y \in S : g.beg = x.beg /\ End(g) = End(y)
    BY DEF Exact
  <2> QED
    BY <2>1 DEF Covers
<1> QED
  BY <1>1, <1>2, <1>3 DEF Covers

\* A place, and its sample and time.
LEMMA PlaceIs ==
    ASSUME NEW segs \in Seq(Good), NEW p
    PROVE  p \in Places(segs) <=> \E i \in 1..Len(segs) : \E k \in 1..Len(segs[i].data) :
              p = <<i, k>> /\ p[1] = i /\ p[2] = k
                /\ At(segs, p) = segs[i].data[k] /\ When(segs, p) = Time(segs[i], k)
<1>1. /\ DOMAIN segs = 1..Len(segs)
      /\ \A i \in 1..Len(segs) : DOMAIN segs[i].data = 1..Len(segs[i].data)
  BY Places1, GoodFields
<1>2. p \in Places(segs) <=> \E i \in 1..Len(segs) : \E k \in 1..Len(segs[i].data) : p = <<i, k>>
  BY <1>1 DEF Places
<1>3. ASSUME NEW i, NEW k, p = <<i, k>>
      PROVE  /\ p[1] = i /\ p[2] = k
             /\ At(segs, p) = segs[i].data[k] /\ When(segs, p) = Time(segs[i], k)
  BY <1>3 DEF At, When
<1> QED
  BY <1>2, <1>3

\* The places between two bounds.
Bounded(segs, i1, k1, i2, k2) ==
    {p \in Places(segs) : NotBefore(p[1], p[2], i1, k1) /\ NotBehind(p[1], p[2], i2, k2)}

\* The sample and the time at a place.
LEMMA PlaceAt ==
    ASSUME NEW segs \in Seq(Good), NEW i \in 1..Len(segs), NEW k \in 1..Len(segs[i].data)
    PROVE  /\ <<i, k>> \in Places(segs) /\ <<i, k>>[1] = i /\ <<i, k>>[2] = k
           /\ At(segs, <<i, k>>) = segs[i].data[k] /\ When(segs, <<i, k>>) = Time(segs[i], k)
<1>1. <<i, k>>[1] = i /\ <<i, k>>[2] = k
  OBVIOUS
<1>2. At(segs, <<i, k>>) = segs[i].data[k] /\ When(segs, <<i, k>>) = Time(segs[i], k)
  BY <1>1 DEF At, When
<1> QED
  BY <1>1, <1>2, PlaceIs

\* g is samples a to b of segment i, and those are the places in W of it.
PieceAt(segs, W, g, i, a, b) ==
    /\ g \in Good /\ Len(g.data) = b - a + 1
    /\ g.beg = Time(segs[i], a) /\ End(g) = Time(segs[i], b)
    /\ Pairs(g) = {<<segs[i].data[k], Time(segs[i], k)>> : k \in a..b}
    /\ \A k \in a..b : /\ k \in 1..Len(segs[i].data) /\ <<i, k>> \in W
                       /\ At(segs, <<i, k>>) = segs[i].data[k]
                       /\ When(segs, <<i, k>>) = Time(segs[i], k)
    /\ \A k \in Int : <<i, k>> \in W => k \in a..b

\* A piece has the samples of its segment between the bounds, with their times.
LEMMA PieceIs ==
    ASSUME NEW segs \in Seq(Good), NEW i \in 1..Len(segs), NEW i1, NEW k1, NEW i2, NEW k2,
           NEW g, PieceOf(g, segs[i], i, i1, k1, i2, k2),
           NEW W, W = Bounded(segs, i1, k1, i2, k2)
    PROVE  \E a \in 1..Len(segs[i].data) : \E b \in 1..Len(segs[i].data) :
              a <= b /\ PieceAt(segs, W, g, i, a, b)
<1>1. PICK h \in Good : h = segs[i]
  BY Places1
<1>2. PICK a \in 1..Len(h.data), n \in Nat :
          /\ n = Len(h.data)
          /\ \E b \in a..Len(h.data) :
                /\ g = Part(h, a, b)
                /\ \A k \in 1..Len(h.data) : k \in a..b <=> NotBefore(i, k, i1, k1) /\ NotBehind(i, k, i2, k2)
  BY <1>1, GoodFields DEF PieceOf
<1>3. PICK b \in a..Len(h.data) :
          /\ g = Part(h, a, b)
          /\ \A k \in 1..Len(h.data) : k \in a..b <=> NotBefore(i, k, i1, k1) /\ NotBehind(i, k, i2, k2)
  BY <1>2
<1>4. /\ g \in Good /\ Len(g.data) = b - a + 1
      /\ g.beg = Time(h, a) /\ End(g) = Time(h, b)
      /\ Pairs(g) = {<<h.data[k], Time(h, k)>> : k \in a..b}
  BY <1>3, PartPairs
<1>5. \A k \in a..b : k \in 1..n
  BY <1>2, <1>3
<1>6. ASSUME NEW k \in 1..n
      PROVE  /\ <<i, k>> \in W <=> k \in a..b
             /\ At(segs, <<i, k>>) = h.data[k] /\ When(segs, <<i, k>>) = Time(h, k)
  <2>1. k \in 1..Len(segs[i].data)
    BY <1>1, <1>2
  <2>2. /\ <<i, k>> \in Places(segs) /\ <<i, k>>[1] = i /\ <<i, k>>[2] = k
        /\ At(segs, <<i, k>>) = h.data[k] /\ When(segs, <<i, k>>) = Time(h, k)
    BY <1>1, <2>1, PlaceAt
  <2>3. <<i, k>> \in W <=> NotBefore(i, k, i1, k1) /\ NotBehind(i, k, i2, k2)
    BY <2>2 DEF Bounded
  <2> QED
    BY <1>2, <1>3, <2>2, <2>3
<1>7. ASSUME NEW k \in Int, <<i, k>> \in W PROVE k \in a..b
  <2>1. <<i, k>>[1] = i /\ <<i, k>>[2] = k
    OBVIOUS
  <2>2. <<i, k>> \in Places(segs)
    BY <1>7 DEF Bounded
  <2>3. k \in 1..n
    <3>1. PICK j \in 1..Len(segs) : \E l \in 1..Len(segs[j].data) : <<i, k>>[1] = j /\ <<i, k>>[2] = l
      BY <2>2, PlaceIs
    <3>2. PICK l \in 1..Len(segs[j].data) : <<i, k>>[1] = j /\ <<i, k>>[2] = l
      BY <3>1
    <3>3. i = j /\ k = l
      BY <2>1, <3>2
    <3> QED
      BY <1>1, <1>2, <3>3
  <2> QED
    BY <1>6, <1>7, <2>3
<1>8. \A k \in a..b : /\ k \in 1..n /\ <<i, k>> \in W
                      /\ At(segs, <<i, k>>) = h.data[k] /\ When(segs, <<i, k>>) = Time(h, k)
  BY <1>5, <1>6
<1>9. PieceAt(segs, W, g, i, a, b)
  BY <1>1, <1>2, <1>4, <1>7, <1>8 DEF PieceAt
<1>10. a \in 1..n /\ b \in 1..n /\ a <= b
  BY <1>2, <1>3
<1> QED
  BY <1>1, <1>2, <1>9, <1>10

\* The parts that subseries joins are what is there between the bounds, and if the
\* segments are tidy, gaps apart.
LEMMA PartsCover ==
    ASSUME NEW segs \in Seq(Good), NEW i1 \in 1..Len(segs), NEW i2 \in 1..Len(segs),
           NEW k1 \in 0..(Len(segs[i1].data) - 1), NEW k2 \in 0..(Len(segs[i2].data) - 1),
           i1 < i2 \/ (i1 = i2 /\ k1 <= k2), Tidy(segs),
           NEW P, P = Parts(segs, i1, k1, i2, k2)
    PROVE  /\ P \in Seq(Good) /\ P # <<>>
           /\ Covers(Members(P), segs, Bounded(segs, i1, k1, i2, k2))
           /\ \A m, o \in 1..Len(P) : m < o => Apart(P[m], P[o])
<1>1. PICK n \in Nat : n = Len(segs)
  BY Places1
<1>10. PICK W : W = Bounded(segs, i1, k1, i2, k2)
  OBVIOUS
<1>20. Pieces(P, segs, i1, k1, i2, k2)
  BY PartsRows
<1>2. PICK c \in Nat : /\ c = Len(P) /\ c = i2 - i1 + 1 /\ P \in Seq(Good) /\ c > 0
  <2>1. i2 - i1 + 1 \in Nat /\ i2 - i1 + 1 > 0
    BY <1>1
  <2> QED
    BY <1>20, <2>1 DEF Pieces
<1>3. P # <<>>
  <2>1. Len(<<>>) = 0
    BY None
  <2>2. Len(P) # 0
    BY <1>2
  <2> QED
    BY <2>1, <2>2
<1>4. ASSUME NEW m \in 1..c
      PROVE  \E i \in 1..n : /\ i = i1 + m - 1
                             /\ \E a \in 1..Len(segs[i].data) : \E b \in 1..Len(segs[i].data) :
                                   a <= b /\ PieceAt(segs, W, P[m], i, a, b)
  <2>1. PICK i \in 1..n : i = i1 + m - 1 /\ PieceOf(P[m], segs[i], i, i1, k1, i2, k2)
    BY <1>1, <1>10, <1>2, <1>20 DEF Pieces
  <2>2. i \in 1..Len(segs)
    BY <1>1
  <2>3. \E a \in 1..Len(segs[i].data) : \E b \in 1..Len(segs[i].data) :
            a <= b /\ PieceAt(segs, W, P[m], i, a, b)
    <3>1. PICK g : g = P[m]
      OBVIOUS
    <3>2. PieceOf(g, segs[i], i, i1, k1, i2, k2) /\ W = Bounded(segs, i1, k1, i2, k2)
      BY <1>1, <1>10, <2>1, <3>1
    <3>3. \E a \in 1..Len(segs[i].data) : \E b \in 1..Len(segs[i].data) :
              a <= b /\ PieceAt(segs, W, g, i, a, b)
      BY <2>2, <3>2, PieceIs
    <3> QED
      BY <3>1, <3>3
  <2> QED
    BY <2>1, <2>3
<1>5. ASSUME NEW g \in Members(P)
      PROVE  /\ (\E p \in W : g.beg = When(segs, p)) /\ (\E p \in W : End(g) = When(segs, p))
             /\ Pairs(g) \subseteq Timed(segs, W)
  <2>1. PICK m \in 1..c : g = P[m]
    BY <1>2 DEF Members
  <2>2. PICK i \in 1..n : \E a \in 1..Len(segs[i].data) : \E b \in 1..Len(segs[i].data) :
            a <= b /\ PieceAt(segs, W, g, i, a, b)
    BY <1>4, <2>1
  <2>3. PICK a \in 1..Len(segs[i].data), b \in 1..Len(segs[i].data) : a <= b /\ PieceAt(segs, W, g, i, a, b)
    BY <2>2
  <2>4. /\ g.beg = Time(segs[i], a) /\ End(g) = Time(segs[i], b)
        /\ Pairs(g) = {<<segs[i].data[k], Time(segs[i], k)>> : k \in a..b}
        /\ \A k \in a..b : /\ <<i, k>> \in W
                           /\ At(segs, <<i, k>>) = segs[i].data[k]
                           /\ When(segs, <<i, k>>) = Time(segs[i], k)
    BY <2>3 DEF PieceAt
  <2>5. a \in a..b /\ b \in a..b
    BY <2>3
  <2>6. Pairs(g) \subseteq Timed(segs, W)
    <3>1. ASSUME NEW k \in a..b PROVE <<segs[i].data[k], Time(segs[i], k)>> \in Timed(segs, W)
      <4>1. PICK p \in W : At(segs, p) = segs[i].data[k] /\ When(segs, p) = Time(segs[i], k)
        BY <2>4
      <4>2. <<At(segs, p), When(segs, p)>> \in Timed(segs, W)
        BY DEF Timed
      <4> QED
        BY <4>1, <4>2
    <3> QED
      BY <2>4, <3>1
  <2> QED
    BY <2>4, <2>5, <2>6
<1>6. Shown(Members(P)) \subseteq Timed(segs, W)
  BY <1>5 DEF Shown
<1>7. ASSUME NEW p \in W, Company(W, p)
      PROVE  <<At(segs, p), When(segs, p)>> \in Shown(Multi(Members(P)))
  <2>1. p \in Places(segs) /\ NotBefore(p[1], p[2], i1, k1) /\ NotBehind(p[1], p[2], i2, k2)
    BY <1>1, <1>10 DEF Bounded
  <2>2. PICK i \in 1..n : \E k \in 1..Len(segs[i].data) :
            /\ p = <<i, k>> /\ p[1] = i /\ p[2] = k
            /\ At(segs, p) = segs[i].data[k] /\ When(segs, p) = Time(segs[i], k)
    BY <1>1, <1>10, <2>1, PlaceIs
  <2>3. PICK k \in 1..Len(segs[i].data) :
            /\ p = <<i, k>> /\ p[1] = i /\ p[2] = k
            /\ At(segs, p) = segs[i].data[k] /\ When(segs, p) = Time(segs[i], k)
    BY <2>2
  <2>4. i1 <= i /\ i <= i2
    BY <1>1, <1>10, <2>1, <2>3 DEF NotBefore, NotBehind
  <2>5. PICK m \in 1..c : i1 + m - 1 = i
    <3>1. i - i1 + 1 \in 1..c /\ i1 + (i - i1 + 1) - 1 = i
      BY <1>1, <1>10, <1>2, <2>4
    <3> QED
      BY <3>1
  <2>6. PICK a \in 1..Len(segs[i].data), b \in 1..Len(segs[i].data) :
            a <= b /\ PieceAt(segs, W, P[m], i, a, b)
    BY <1>4, <2>5
  <2>7. /\ P[m] \in Good /\ Len(P[m].data) = b - a + 1
        /\ Pairs(P[m]) = {<<segs[i].data[l], Time(segs[i], l)>> : l \in a..b}
        /\ \A l \in Int : <<i, l>> \in W => l \in a..b
    BY <2>6 DEF PieceAt
  <2>8. k \in Int /\ a \in Int /\ b \in Int
    OBVIOUS
  <2>9. k \in a..b
    BY <2>3, <2>7, <2>8
  <2>10. k - 1 \in a..b \/ k + 1 \in a..b
    <3>1. k - 1 \in Int /\ k + 1 \in Int
      BY <2>8
    <3>2. <<i, k - 1>> \in W \/ <<i, k + 1>> \in W
      BY <1>7, <2>3 DEF Company
    <3> QED
      BY <2>7, <3>1, <3>2
  <2>11. Len(P[m].data) > 1
    <3>1. b - a + 1 > 1
      BY <2>8, <2>9, <2>10
    <3> QED
      BY <2>7, <3>1
  <2>12. P[m] \in Multi(Members(P))
    BY <1>2, <2>11 DEF Multi, Members
  <2>13. <<segs[i].data[k], Time(segs[i], k)>> \in Pairs(P[m])
    BY <2>7, <2>9
  <2> QED
    BY <2>3, <2>12, <2>13 DEF Shown
<1>8. Covers(Members(P), segs, W)
  BY <1>5, <1>6, <1>7 DEF Covers
<1>9. ASSUME NEW m \in 1..c, NEW o \in 1..c, m < o PROVE Apart(P[m], P[o])
  <2>1. PICK i \in 1..n : /\ i = i1 + m - 1
                          /\ \E a \in 1..Len(segs[i].data) : \E d \in 1..Len(segs[i].data) :
                                a <= d /\ PieceAt(segs, W, P[m], i, a, d)
    BY <1>4
  <2>2. PICK b \in 1..Len(segs[i].data) : End(P[m]) = Time(segs[i], b)
    BY <2>1 DEF PieceAt
  <2>3. PICK j \in 1..n : /\ j = i1 + o - 1
                          /\ \E a \in 1..Len(segs[j].data) : \E d \in 1..Len(segs[j].data) :
                                a <= d /\ PieceAt(segs, W, P[o], j, a, d)
    BY <1>4
  <2>4. PICK a \in 1..Len(segs[j].data) : P[o].beg = Time(segs[j], a)
    BY <2>3 DEF PieceAt
  <2>5. i < j
    BY <1>1, <1>10, <1>9, <2>1, <2>3
  <2>6. Gap(Time(segs[j], a) - Time(segs[i], b))
    BY <1>1, <1>10, <2>5, PlacesGap
  <2> QED
    BY <2>2, <2>4, <2>6 DEF Apart
<1> QED
  BY <1>1, <1>10, <1>2, <1>3, <1>8, <1>9

\* All that segments show is at their places.
LEMMA ShownIs ==
    ASSUME NEW ss \in Seq(Good)
    PROVE  /\ Timed(ss, Places(ss)) = Shown(Members(ss))
           /\ \A x, t : <<x, t>> \in Shown(Members(ss)) => x \in Samples(ss)
<1>1. ASSUME NEW i \in 1..Len(ss), NEW k \in 1..Len(ss[i].data)
      PROVE  /\ <<ss[i].data[k], Time(ss[i], k)>> \in Timed(ss, Places(ss))
             /\ ss[i].data[k] \in Samples(ss)
  <2>1. PICK p \in Places(ss) : At(ss, p) = ss[i].data[k] /\ When(ss, p) = Time(ss[i], k)
    BY PlaceAt
  <2>2. <<At(ss, p), When(ss, p)>> \in Timed(ss, Places(ss)) /\ At(ss, p) \in Samples(ss)
    BY DEF Timed, Samples
  <2> QED
    BY <2>1, <2>2
<1>2. ASSUME NEW z \in Shown(Members(ss))
      PROVE  z \in Timed(ss, Places(ss)) /\ \E y \in Samples(ss) : \E u : z = <<y, u>>
  <2>1. PICK i \in 1..Len(ss) : z \in Pairs(ss[i])
    BY DEF Shown, Members
  <2>2. PICK k \in 1..Len(ss[i].data) : z = <<ss[i].data[k], Time(ss[i], k)>>
    BY <2>1 DEF Pairs
  <2> QED
    BY <1>1, <2>2
<1>3. ASSUME NEW z \in Timed(ss, Places(ss)) PROVE z \in Shown(Members(ss))
  <2>1. PICK p \in Places(ss) : z = <<At(ss, p), When(ss, p)>>
    BY DEF Timed
  <2>2. PICK i \in 1..Len(ss) : \E k \in 1..Len(ss[i].data) :
            At(ss, p) = ss[i].data[k] /\ When(ss, p) = Time(ss[i], k)
    BY PlaceIs
  <2>3. z \in Pairs(ss[i])
    BY <2>1, <2>2 DEF Pairs
  <2> QED
    BY <2>3 DEF Shown, Members
<1>4. ASSUME NEW x, NEW t, <<x, t>> \in Shown(Members(ss)) PROVE x \in Samples(ss)
  <2>1. PICK y \in Samples(ss) : \E u : <<x, t>> = <<y, u>>
    BY <1>2, <1>4
  <2> QED
    BY <2>1
<1> QED
  BY <1>2, <1>3, <1>4

\* Segments that are tidy cover their places.
LEMMA WholeCovers ==
    ASSUME NEW segs \in Seq(Good), Tidy(segs)
    PROVE  Covers(Members(segs), segs, Places(segs))
<1>1. PICK n \in Nat : n = Len(segs) /\ \A i \in 1..n : segs[i] \in Good /\ Len(segs[i].data) > 1
  BY Places1 DEF Tidy
<1>2. ASSUME NEW i \in 1..n
      PROVE  /\ \E p \in Places(segs) : segs[i].beg = When(segs, p)
             /\ \E p \in Places(segs) : End(segs[i]) = When(segs, p)
  <2>1. PICK l \in Nat \ {0} : l = Len(segs[i].data)
    BY <1>1, GoodFields
  <2>2. 1 \in 1..l /\ l \in 1..l
    OBVIOUS
  <2>3. Time(segs[i], 1) = segs[i].beg
    <3>1. segs[i] \in Good /\ 1 \in Int
      BY <1>1
    <3> QED
      BY <3>1, TimeIs
  <2>4. Time(segs[i], l) = End(segs[i])
    BY <2>1 DEF End
  <2>5. /\ <<i, 1>> \in Places(segs) /\ When(segs, <<i, 1>>) = Time(segs[i], 1)
        /\ <<i, l>> \in Places(segs) /\ When(segs, <<i, l>>) = Time(segs[i], l)
    BY <1>1, <2>1, <2>2, PlaceAt
  <2> QED
    BY <2>3, <2>4, <2>5
<1>3. Members(segs) = Multi(Members(segs))
  BY <1>1 DEF Members, Multi
<1>4. Timed(segs, Places(segs)) = Shown(Members(segs))
  BY ShownIs
<1>5. \A p \in Places(segs) : <<At(segs, p), When(segs, p)>> \in Shown(Multi(Members(segs)))
  BY <1>3, <1>4 DEF Timed
<1>6. \A g \in Members(segs) : /\ \E p \in Places(segs) : g.beg = When(segs, p)
                               /\ \E p \in Places(segs) : End(g) = When(segs, p)
  BY <1>1, <1>2 DEF Members
<1> QED
  BY <1>4, <1>5, <1>6 DEF Covers

\* Segments gaps apart are joined to what shows the same.
LEMMA CopyExact ==
    ASSUME NEW others \in Seq(Good),
           \A i, j \in 1..Len(others) : i < j => Apart(others[i], others[j])
    PROVE  /\ Join(<<>>, others) \in Seq(Good) /\ Chain(Join(<<>>, others))
           /\ Exact(Members(Join(<<>>, others)), Members(others))
           /\ others # <<>> => Join(<<>>, others) # <<>>
<1>1. <<>> \in Seq(Good) /\ Len(<<>>) = 0 /\ 1..0 = {}
  BY None
<1>2. Chain(<<>>) /\ Members(<<>>) = {}
  BY <1>1 DEF Chain, Members
<1>3. \A x \in Members(<<>>) : \A y \in Members(others) : Apart(x, y)
  BY <1>2
<1>4. PICK head \in Seq(Good) : head = <<>>
  BY <1>1
<1>5. /\ Join(head, others) \in Seq(Good) /\ Chain(Join(head, others))
      /\ Exact(Members(Join(head, others)), Members(head) \cup Members(others))
      /\ others # <<>> \/ head # <<>> => Join(head, others) # <<>>
  BY <1>2, <1>3, <1>4, JoinAllExact
<1>6. Members(head) \cup Members(others) = Members(others)
  BY <1>2, <1>4
<1> QED
  BY <1>4, <1>5, <1>6

\* The places between two times: Inside, of any segments.
Windowed(segs, t1, t2) ==
    {p \in Places(segs) : t1 < TEnd(segs) /\ t2 > TBeg(segs) /\ When(segs, p) \in t1..t2}

\* The time of every place is between the ends.
LEMMA PlaceTimes ==
    ASSUME NEW segs \in Seq(Good), Tidy(segs), NEW p \in Places(segs)
    PROVE  When(segs, p) \in Int /\ TBeg(segs) <= When(segs, p) /\ When(segs, p) <= TEnd(segs)
<1>1. PICK i \in 1..Len(segs) : \E k \in 1..Len(segs[i].data) : When(segs, p) = Time(segs[i], k)
  BY PlaceIs
<1>2. PICK k \in 1..Len(segs[i].data) : When(segs, p) = Time(segs[i], k)
  BY <1>1
<1> QED
  BY <1>2, TidyPlace

\* The parts between two times are those between the bounds.
LEMMA WindowBounded ==
    ASSUME NEW segs \in Seq(Good), segs # <<>>, Tidy(segs), NEW t1 \in Int, NEW t2 \in Int,
           Windowed(segs, t1, t2) # {}
    PROVE  \E i1 \in 1..Len(segs), i2 \in 1..Len(segs) :
           \E k1 \in 0..(Len(segs[i1].data) - 1), k2 \in 0..(Len(segs[i2].data) - 1) :
              /\ UpperBound(segs, t1) = <<i1, k1>> /\ LowerBound(segs, t2) = <<i2, k2>>
              /\ i1 < i2 \/ (i1 = i2 /\ k1 <= k2)
              /\ Windowed(segs, t1, t2) = Bounded(segs, i1, k1, i2, k2)
<1>1. PICK tb \in Int, te \in Int : tb = TBeg(segs) /\ te = TEnd(segs)
  BY Segments
<1>2. PICK W : W = Windowed(segs, t1, t2)
  OBVIOUS
<1>3. t1 < te /\ t2 > tb
  BY <1>1, <1>2 DEF Windowed
<1>4. \A p \in Places(segs) : p \in W <=> (t1 <= When(segs, p) /\ When(segs, p) <= t2)
  <2>1. \A p \in Places(segs) : When(segs, p) \in Int
    BY PlaceTimes
  <2> QED
    BY <1>1, <1>2, <1>3, <2>1 DEF Windowed
<1>5. PICK i1 \in 1..Len(segs) : \E k \in 0..(Len(segs[i1].data) - 1) :
          /\ UpperBound(segs, t1) = <<i1, k>>
          /\ \A j \in 1..Len(segs) : \A l \in 1..Len(segs[j].data) :
                Time(segs[j], l) >= t1 <=> NotBefore(j, l, i1, k)
  <2>1. t1 <= TEnd(segs)
    BY <1>1, <1>3
  <2> QED
    BY <2>1, UpperExact
<1>6. PICK k1 \in 0..(Len(segs[i1].data) - 1) :
          /\ UpperBound(segs, t1) = <<i1, k1>>
          /\ \A j \in 1..Len(segs) : \A l \in 1..Len(segs[j].data) :
                Time(segs[j], l) >= t1 <=> NotBefore(j, l, i1, k1)
  BY <1>5
<1>7. PICK i2 \in 1..Len(segs) : \E k \in 0..(Len(segs[i2].data) - 1) :
          /\ LowerBound(segs, t2) = <<i2, k>>
          /\ \A j \in 1..Len(segs) : \A l \in 1..Len(segs[j].data) :
                Time(segs[j], l) <= t2 <=> NotBehind(j, l, i2, k)
  <2>1. TBeg(segs) <= t2
    BY <1>1, <1>3
  <2> QED
    BY <2>1, LowerExact
<1>8. PICK k2 \in 0..(Len(segs[i2].data) - 1) :
          /\ LowerBound(segs, t2) = <<i2, k2>>
          /\ \A j \in 1..Len(segs) : \A l \in 1..Len(segs[j].data) :
                Time(segs[j], l) <= t2 <=> NotBehind(j, l, i2, k2)
  BY <1>7
<1>9. ASSUME NEW p \in Places(segs)
      PROVE  p \in W <=> NotBefore(p[1], p[2], i1, k1) /\ NotBehind(p[1], p[2], i2, k2)
  <2>1. PICK i \in 1..Len(segs) : \E k \in 1..Len(segs[i].data) :
            p[1] = i /\ p[2] = k /\ When(segs, p) = Time(segs[i], k)
    BY PlaceIs
  <2>2. PICK k \in 1..Len(segs[i].data) : p[1] = i /\ p[2] = k /\ When(segs, p) = Time(segs[i], k)
    BY <2>1
  <2>3. When(segs, p) \in Int
    BY PlaceTimes
  <2>4. /\ Time(segs[i], k) >= t1 <=> NotBefore(i, k, i1, k1)
        /\ Time(segs[i], k) <= t2 <=> NotBehind(i, k, i2, k2)
    BY <1>6, <1>8
  <2>5. When(segs, p) >= t1 <=> t1 <= When(segs, p)
    BY <2>3
  <2> QED
    BY <1>4, <2>2, <2>4, <2>5
<1>10. W = Bounded(segs, i1, k1, i2, k2)
  <2>1. W \in SUBSET Places(segs)
    BY <1>2 DEF Windowed
  <2> QED
    BY <1>9, <2>1 DEF Bounded
<1>11. i1 < i2 \/ (i1 = i2 /\ k1 <= k2)
  <2>1. PICK p \in Places(segs) : NotBefore(p[1], p[2], i1, k1) /\ NotBehind(p[1], p[2], i2, k2)
    BY <1>2, <1>10 DEF Bounded
  <2>2. PICK i \in 1..Len(segs) : \E k \in 1..Len(segs[i].data) : p[1] = i /\ p[2] = k
    BY PlaceIs
  <2>3. PICK k \in 1..Len(segs[i].data) : p[1] = i /\ p[2] = k
    BY <2>2
  <2>4. i \in Int /\ k \in Int /\ i1 \in Int /\ i2 \in Int /\ k1 \in Int /\ k2 \in Int
    OBVIOUS
  <2>5. i > i1 \/ (i = i1 /\ k >= k1 + 1)
    BY <2>1, <2>3 DEF NotBefore
  <2>6. i < i2 \/ (i = i2 /\ k <= k2 + 1)
    BY <2>1, <2>3 DEF NotBehind
  <2> QED
    BY <2>4, <2>5, <2>6
<1> QED
  BY <1>2, <1>6, <1>8, <1>10, <1>11

\* What subseries gives if there are samples between the times.
LEMMA SubseriesExact ==
    ASSUME NEW segs \in Seq(Good), segs # <<>>, Tidy(segs), NEW t1 \in Int, NEW t2 \in Int,
           Windowed(segs, t1, t2) # {},
           NEW sub, sub = Subseries(segs, t1, t2)
    PROVE  /\ sub \in Seq(Good) /\ sub # <<>> /\ Chain(sub)
           /\ Covers(Members(sub), segs, Windowed(segs, t1, t2))
           /\ Whole(segs, t1, t2) => Windowed(segs, t1, t2) = Places(segs)
<1>1. PICK n \in Nat \ {0}, tb \in Int, te \in Int, tol \in Int :
          n = Len(segs) /\ tb = TBeg(segs) /\ te = TEnd(segs) /\ tol = Tol(segs)
  BY Segments
<1>2. 0 < tol /\ tol <= 99
  <2>1. 1 \in 1..Len(segs) /\ 1 \in 1..Len(segs[1].data)
    BY Segments, GoodFields
  <2>2. tol = Interval
    BY <1>1, <2>1, TidyPlace
  <2> QED
    BY <2>2, IntervalAssumption
<1>3. PICK W : W = Windowed(segs, t1, t2)
  OBVIOUS
<1>4. t1 < te /\ t2 > tb
  BY <1>1, <1>3 DEF Windowed
<1>5. t1 <= t2
  <2>1. PICK p \in Places(segs) : When(segs, p) \in t1..t2
    BY <1>3 DEF Windowed
  <2> QED
    BY <2>1
<1>6. ~Outside(segs, t1, t2)
  <2>1. ~(100 * t2 < 100 * tb + tol) /\ ~(100 * t1 > 100 * t2 + tol) /\ ~(100 * t1 > 100 * te - tol)
    BY <1>2, <1>4, <1>5
  <2> QED
    BY <1>1, <2>1 DEF Outside
<1>7. ASSUME Whole(segs, t1, t2) PROVE W = Places(segs)
  <2>1. 100 * t1 < 100 * tb + tol /\ 100 * t2 > 100 * te - tol
    BY <1>1, <1>7 DEF Whole
  <2>2. t1 <= tb /\ te <= t2
    BY <1>2, <2>1
  <2>3. \A p \in Places(segs) : When(segs, p) \in Int /\ tb <= When(segs, p) /\ When(segs, p) <= te
    BY <1>1, PlaceTimes
  <2>4. \A p \in Places(segs) : When(segs, p) \in t1..t2
    BY <2>2, <2>3
  <2> QED
    BY <1>1, <1>3, <1>4, <2>4 DEF Windowed
<1>8. ASSUME NEW P \in Seq(Good), P # <<>>, Covers(Members(P), segs, W),
             \A m, o \in 1..Len(P) : m < o => Apart(P[m], P[o]),
             sub = Join(<<>>, P)
      PROVE  sub \in Seq(Good) /\ sub # <<>> /\ Chain(sub) /\ Covers(Members(sub), segs, W)
  <2>1. sub \in Seq(Good) /\ Chain(sub) /\ Exact(Members(sub), Members(P)) /\ sub # <<>>
    BY <1>8, CopyExact
  <2>2. Covers(Members(sub), segs, W)
    BY <1>8, <2>1, CoversExact
  <2> QED
    BY <2>1, <2>2
<1>9. PICK i1 \in 1..Len(segs), i2 \in 1..Len(segs) :
          \E k1 \in 0..(Len(segs[i1].data) - 1), k2 \in 0..(Len(segs[i2].data) - 1) :
              /\ UpperBound(segs, t1) = <<i1, k1>> /\ LowerBound(segs, t2) = <<i2, k2>>
              /\ i1 < i2 \/ (i1 = i2 /\ k1 <= k2)
              /\ W = Bounded(segs, i1, k1, i2, k2)
  BY <1>3, WindowBounded
<1>10. PICK k1 \in 0..(Len(segs[i1].data) - 1), k2 \in 0..(Len(segs[i2].data) - 1) :
              /\ UpperBound(segs, t1) = <<i1, k1>> /\ LowerBound(segs, t2) = <<i2, k2>>
              /\ i1 < i2 \/ (i1 = i2 /\ k1 <= k2)
              /\ W = Bounded(segs, i1, k1, i2, k2)
  BY <1>9
<1>11. sub = IF Whole(segs, t1, t2) THEN Join(<<>>, segs)
             ELSE IF i1 = i2 /\ k1 > k2 THEN <<>>
             ELSE Join(<<>>, Parts(segs, i1, k1, i2, k2))
  BY <1>6, <1>10, SubseriesCases
<1>12. CASE Whole(segs, t1, t2)
  <2>1. sub = Join(<<>>, segs) /\ W = Places(segs)
    BY <1>7, <1>11, <1>12
  <2>2. Covers(Members(segs), segs, W)
    BY <2>1, WholeCovers
  <2>3. \A m, o \in 1..Len(segs) : m < o => Apart(segs[m], segs[o])
    BY TidyApart
  <2> QED
    BY <1>3, <1>8, <2>1, <2>2, <2>3
<1>13. CASE ~Whole(segs, t1, t2)
  <2>1. PICK P : P = Parts(segs, i1, k1, i2, k2)
    OBVIOUS
  <2>2. ~(i1 = i2 /\ k1 > k2)
    <3>1. i1 \in Int /\ i2 \in Int /\ k1 \in Int /\ k2 \in Int
      OBVIOUS
    <3> QED
      BY <1>10, <3>1
  <2>3. sub = Join(<<>>, P)
    BY <1>11, <1>13, <2>1, <2>2
  <2>4. /\ P \in Seq(Good) /\ P # <<>>
        /\ Covers(Members(P), segs, Bounded(segs, i1, k1, i2, k2))
        /\ \A m, o \in 1..Len(P) : m < o => Apart(P[m], P[o])
    BY <1>10, <2>1, PartsCover
  <2> QED
    BY <1>3, <1>8, <1>10, <1>13, <2>3, <2>4
<1> QED
  BY <1>3, <1>7, <1>12, <1>13

\* What Becomes says of s', of any segments.
Shows(ss, segs, WW) ==
    /\ Timed(ss, Places(ss)) \subseteq Timed(segs, UNION WW)
    /\ \A ps \in WW : \A p \in ps : Company(ps, p) => At(segs, p) \in Samples(ss)

\* Segments that cover one or two windows show them.
LEMMA CoversShows ==
    ASSUME NEW ss \in Seq(Good), NEW segs, NEW V, NEW W, NEW H, NEW T,
           Covers(H, segs, V), Covers(T, segs, W), Exact(Members(ss), H \cup T)
    PROVE  Shows(ss, segs, {V, W})
<1>1. Timed(ss, Places(ss)) \subseteq Shown(H \cup T) /\ Shown(Multi(H \cup T)) \subseteq Shown(Multi(Members(ss)))
  BY ShownIs DEF Exact
<1>2. Shown(H) \subseteq Timed(segs, V) /\ Shown(T) \subseteq Timed(segs, W)
  BY DEF Covers
<1>3. Shown(H \cup T) \subseteq Timed(segs, UNION {V, W})
  <2>1. Shown(H \cup T) \subseteq Shown(H) \cup Shown(T)
    BY DEF Shown
  <2>2. Timed(segs, V) \subseteq Timed(segs, UNION {V, W}) /\ Timed(segs, W) \subseteq Timed(segs, UNION {V, W})
    BY DEF Timed
  <2> QED
    BY <1>2, <2>1, <2>2
<1>4. Shown(Multi(H)) \subseteq Shown(Multi(H \cup T)) /\ Shown(Multi(T)) \subseteq Shown(Multi(H \cup T))
  <2>1. Multi(H) \subseteq Multi(H \cup T) /\ Multi(T) \subseteq Multi(H \cup T)
    BY DEF Multi
  <2>2. \A A, B : A \subseteq B => Shown(A) \subseteq Shown(B)
    BY DEF Shown
  <2> QED
    BY <2>1, <2>2
<1>5. Shown(Multi(Members(ss))) \subseteq Shown(Members(ss))
  BY DEF Shown, Multi
<1>6. ASSUME NEW p \in V, Company(V, p) PROVE At(segs, p) \in Samples(ss)
  <2>1. <<At(segs, p), When(segs, p)>> \in Shown(Multi(H))
    BY <1>6 DEF Covers
  <2>2. <<At(segs, p), When(segs, p)>> \in Shown(Members(ss))
    BY <1>1, <1>4, <1>5, <2>1
  <2> QED
    BY <2>2, ShownIs
<1>7. ASSUME NEW p \in W, Company(W, p) PROVE At(segs, p) \in Samples(ss)
  <2>1. <<At(segs, p), When(segs, p)>> \in Shown(Multi(T))
    BY <1>7 DEF Covers
  <2>2. <<At(segs, p), When(segs, p)>> \in Shown(Members(ss))
    BY <1>1, <1>4, <1>5, <2>1
  <2> QED
    BY <2>2, ShownIs
<1> QED
  BY <1>1, <1>3, <1>6, <1>7 DEF Shows

\* One window.
LEMMA CoversShowsOne ==
    ASSUME NEW ss \in Seq(Good), NEW segs, NEW W, Covers(Members(ss), segs, W)
    PROVE  Shows(ss, segs, {W})
<1>1. Exact(Members(ss), Members(ss) \cup Members(ss))
  <2>1. Members(ss) \cup Members(ss) = Members(ss)
    OBVIOUS
  <2> QED
    BY <2>1, ExactSelf
<1>2. Shows(ss, segs, {W, W})
  BY <1>1, CoversShows
<1>3. {W, W} = {W}
  OBVIOUS
<1> QED
  BY <1>2, <1>3

\* truncate to a window with samples shows it.
LEMMA TruncateExact ==
    ASSUME NEW segs \in Seq(Good), segs # <<>>, Tidy(segs), NEW t1 \in Int, NEW t2 \in Int,
           Windowed(segs, t1, t2) # {}
    PROVE  Shows(Truncate(segs, t1, t2), segs, {Windowed(segs, t1, t2)})
<1>1. PICK sub, W : sub = Subseries(segs, t1, t2) /\ W = Windowed(segs, t1, t2)
  OBVIOUS
<1>2. /\ sub \in Seq(Good) /\ sub # <<>> /\ Chain(sub) /\ Covers(Members(sub), segs, W)
      /\ Whole(segs, t1, t2) => W = Places(segs)
  BY <1>1, SubseriesExact
<1>3. Truncate(segs, t1, t2) = IF Whole(segs, t1, t2) THEN segs ELSE Join(<<>>, sub)
  BY <1>1, <1>2 DEF Truncate
<1>4. CASE Whole(segs, t1, t2)
  <2>1. Covers(Members(segs), segs, W)
    BY <1>2, <1>4, WholeCovers
  <2> QED
    BY <1>1, <1>3, <1>4, <2>1, CoversShowsOne
<1>5. CASE ~Whole(segs, t1, t2)
  <2>1. PICK ss : ss = Join(<<>>, sub)
    OBVIOUS
  <2>2. \A m, o \in 1..Len(sub) : m < o => Apart(sub[m], sub[o])
    BY <1>2 DEF Chain
  <2>3. ss \in Seq(Good) /\ Exact(Members(ss), Members(sub))
    BY <1>2, <2>1, <2>2, CopyExact
  <2>4. Covers(Members(ss), segs, W)
    BY <1>2, <2>3, CoversExact
  <2> QED
    BY <1>1, <1>3, <1>5, <2>1, <2>3, <2>4, CoversShowsOne
<1> QED
  BY <1>4, <1>5

\* Nothing has no places to cover.
LEMMA CoversNone == ASSUME NEW segs PROVE Covers(Members(<<>>), segs, {})
<1>1. Members(<<>>) = {}
  <2>1. Len(<<>>) = 0 /\ 1..0 = {}
    BY None
  <2> QED
    BY <2>1 DEF Members
<1>2. Shown({}) = {}
  BY DEF Shown
<1> QED
  BY <1>1, <1>2 DEF Covers

\* From the first sample on, or to the last one, subseries gives what is there.
LEMMA SideExact ==
    ASSUME NEW segs \in Seq(Good), segs # <<>>, Tidy(segs), NEW t1 \in Int, NEW t2 \in Int,
           t1 = TBeg(segs) \/ t2 = TEnd(segs),
           NEW sub, sub = Subseries(segs, t1, t2)
    PROVE  sub \in Seq(Good) /\ Chain(sub) /\ Covers(Members(sub), segs, Windowed(segs, t1, t2))
<1>1. CASE Windowed(segs, t1, t2) # {}
  BY <1>1, SubseriesExact
<1>2. CASE Windowed(segs, t1, t2) = {}
  <2>1. PICK n \in Nat \ {0}, tb \in Int, te \in Int, tol \in Int :
            /\ n = Len(segs) /\ tb = TBeg(segs) /\ te = TEnd(segs) /\ tol = Tol(segs) /\ 0 < tol
            /\ 1 \in 1..n /\ n \in 1..n /\ te = End(segs[n]) /\ tb = segs[1].beg
            /\ segs[1] \in Good /\ segs[n] \in Good
    BY Segments
  <2>2. PICK l \in Nat \ {0} : l = Len(segs[n].data) /\ 1 \in 1..l /\ l \in 1..l
    <3>1. PICK l \in Nat \ {0} : l = Len(segs[n].data)
      BY <2>1, GoodFields
    <3>2. 1 \in 1..l /\ l \in 1..l
      OBVIOUS
    <3> QED
      BY <3>1, <3>2
  <2>3. tb < te
    <3>1. segs[n].beg < End(segs[n]) /\ segs[n].beg \in Int
      <4>1. Len(segs[n].data) > 1
        BY <2>1 DEF Tidy
      <4> QED
        BY <2>1, <4>1, EndIs
    <3>2. TBeg(segs) <= segs[n].beg
      <4>1. Time(segs[n], 1) = segs[n].beg
        <5>1. 1 \in Int
          OBVIOUS
        <5> QED
          BY <2>1, <5>1, TimeIs
      <4>2. TBeg(segs) <= Time(segs[n], 1)
        BY <2>1, <2>2, TidyPlace
      <4> QED
        BY <4>1, <4>2
    <3> QED
      BY <2>1, <3>1, <3>2
  <2>4. \E p \in Places(segs) : When(segs, p) = tb
    <3>1. 1 \in 1..Len(segs[1].data)
      BY <2>1, GoodFields
    <3>2. Time(segs[1], 1) = segs[1].beg
      <4>1. 1 \in Int
        OBVIOUS
      <4> QED
        BY <2>1, <4>1, TimeIs
    <3>3. <<1, 1>> \in Places(segs) /\ When(segs, <<1, 1>>) = Time(segs[1], 1)
      BY <2>1, <3>1, PlaceAt
    <3> QED
      BY <2>1, <3>2, <3>3
  <2>5. \E p \in Places(segs) : When(segs, p) = te
    <3>1. <<n, l>> \in Places(segs) /\ When(segs, <<n, l>>) = Time(segs[n], l)
      BY <2>1, <2>2, PlaceAt
    <3>2. Time(segs[n], l) = End(segs[n])
      BY <2>2 DEF End
    <3> QED
      BY <2>1, <3>1, <3>2
  <2>6. Outside(segs, t1, t2)
    <3>1. CASE t1 = tb
      <4>1. ~(t2 > tb)
        <5> SUFFICES ASSUME t2 > tb PROVE FALSE
          OBVIOUS
        <5>1. PICK p \in Places(segs) : When(segs, p) = tb
          BY <2>4
        <5>2. tb \in t1..t2 /\ t1 < te
          BY <2>3, <3>1
        <5> QED
          BY <1>2, <2>1, <5>1, <5>2 DEF Windowed
      <4>2. 100 * t2 < 100 * tb + tol
        BY <2>1, <4>1
      <4> QED
        BY <2>1, <4>2 DEF Outside
    <3>2. CASE t2 = te
      <4>1. ~(t1 < te)
        <5> SUFFICES ASSUME t1 < te PROVE FALSE
          OBVIOUS
        <5>1. PICK p \in Places(segs) : When(segs, p) = te
          BY <2>5
        <5>2. te \in t1..t2 /\ t2 > tb
          BY <2>3, <3>2
        <5> QED
          BY <1>2, <2>1, <5>1, <5>2 DEF Windowed
      <4>2. 100 * t1 > 100 * te - tol
        BY <2>1, <4>1
      <4> QED
        BY <2>1, <4>2 DEF Outside
    <3> QED
      BY <2>1, <3>1, <3>2
  <2>7. sub = <<>>
    BY <2>6 DEF Subseries
  <2>8. <<>> \in Seq(Good) /\ Len(<<>>) = 0 /\ 1..0 = {}
    BY None
  <2>9. Chain(<<>>)
    BY <2>8 DEF Chain
  <2> QED
    BY <1>2, <2>7, <2>8, <2>9, CoversNone
<1> QED
  BY <1>1, <1>2

\* A cut shows what is on its two sides.
LEMMA CutExact ==
    ASSUME NEW segs \in Seq(Good), segs # <<>>, Tidy(segs), NEW t1 \in Int, NEW t2 \in Int, t1 < t2
    PROVE  Shows(CutData(segs, t1, t2), segs,
                 {Windowed(segs, TBeg(segs), t1), Windowed(segs, t2, TEnd(segs))})
<1>1. PICK tb \in Int, te \in Int : tb = TBeg(segs) /\ te = TEnd(segs)
  BY Segments
<1>2. PICK head, tail, V, W :
          /\ head = Subseries(segs, tb, t1) /\ tail = Subseries(segs, t2, te)
          /\ V = Windowed(segs, tb, t1) /\ W = Windowed(segs, t2, te)
  OBVIOUS
<1>3. head \in Seq(Good) /\ Chain(head) /\ Covers(Members(head), segs, V)
  BY <1>1, <1>2, SideExact
<1>4. tail \in Seq(Good) /\ Chain(tail) /\ Covers(Members(tail), segs, W)
  BY <1>1, <1>2, SideExact
<1>5. ASSUME NEW x \in Members(head), NEW y \in Members(tail) PROVE Apart(x, y)
  <2>1. PICK p \in V : End(x) = When(segs, p)
    BY <1>3 DEF Covers
  <2>2. PICK q \in W : y.beg = When(segs, q)
    BY <1>4 DEF Covers
  <2>3. p \in Places(segs) /\ When(segs, p) \in tb..t1 /\ q \in Places(segs) /\ When(segs, q) \in t2..te
    BY <1>2 DEF Windowed
  <2>4. PICK i \in 1..Len(segs) : \E k \in 1..Len(segs[i].data) : When(segs, p) = Time(segs[i], k)
    BY <2>3, PlaceIs
  <2>5. PICK k \in 1..Len(segs[i].data) : When(segs, p) = Time(segs[i], k)
    BY <2>4
  <2>6. PICK j \in 1..Len(segs) : \E l \in 1..Len(segs[j].data) : When(segs, q) = Time(segs[j], l)
    BY <2>3, PlaceIs
  <2>7. PICK l \in 1..Len(segs[j].data) : When(segs, q) = Time(segs[j], l)
    BY <2>6
  <2>8. ~(Time(segs[j], l) <= Time(segs[i], k))
    BY <2>3, <2>5, <2>7
  <2>9. ~(j < i \/ (j = i /\ l <= k))
    BY <2>8, PlacesOrder
  <2>10. i < j \/ (i = j /\ k <= l)
    <3>1. i \in Int /\ j \in Int /\ k \in Int /\ l \in Int
      OBVIOUS
    <3> QED
      BY <2>9, <3>1
  <2>11. Gap(Time(segs[j], l) - Time(segs[i], k))
    BY <2>10, PlacesGap
  <2> QED
    BY <2>1, <2>2, <2>5, <2>7, <2>11 DEF Apart
<1>6. PICK ss : ss = CutData(segs, t1, t2)
  OBVIOUS
<1>7. ss = IF head = <<>> THEN tail ELSE Join(head, tail)
  BY <1>1, <1>2, <1>6 DEF CutData
<1>8. ss \in Seq(Good) /\ Exact(Members(ss), Members(head) \cup Members(tail))
  <2>1. CASE head = <<>>
    <3>1. Members(head) = {}
      <4>1. Len(<<>>) = 0 /\ 1..0 = {}
        BY None
      <4> QED
        BY <2>1, <4>1 DEF Members
    <3>2. Members(head) \cup Members(tail) = Members(tail)
      BY <3>1
    <3> QED
      BY <1>4, <1>7, <2>1, <3>2, ExactSelf
  <2>2. CASE head # <<>>
    <3>1. \A i, j \in 1..Len(tail) : i < j => Apart(tail[i], tail[j])
      BY <1>4 DEF Chain
    <3>2. \A x \in Members(head) : \A y \in Members(tail) : Apart(x, y)
      BY <1>5
    <3>3. /\ Join(head, tail) \in Seq(Good)
          /\ Exact(Members(Join(head, tail)), Members(head) \cup Members(tail))
      BY <1>3, <1>4, <3>1, <3>2, JoinAllExact
    <3> QED
      BY <1>7, <2>2, <3>3
  <2> QED
    BY <2>1, <2>2
<1>9. Shows(ss, segs, {V, W})
  BY <1>3, <1>4, <1>8, CoversShows
<1> QED
  BY <1>1, <1>2, <1>6, <1>9

\* If nothing is left to join or to replace, a window that has samples, the two
\* sides of a cut, and a copy show the samples that are there, each at its time, and
\* no others; only samples without a neighbour in their window may be missing.
THEOREM WindowsAreExact == Spec => WindowExact
<1> DEFINE A == Settled =>
        /\ \A t1, t2 \in Windows :
              /\ phase' # phase /\ EndRead(t1, t2) /\ Inside(t1, t2) # {} => Becomes({Inside(t1, t2)})
              /\ cuts' > cuts /\ Cut(t1, t2) => Becomes({Inside(TBeg(s), t1), Inside(t2, TEnd(s))})
        /\ Copy => Becomes({Places(s)})
<1>1. IInv => A
  <2> SUFFICES ASSUME IInv, Settled PROVE A
    OBVIOUS
  <2>1. PICK ss, segs : ss = s' /\ segs = s
    OBVIOUS
  <2>2. segs \in Seq(Good) /\ Tidy(segs)
    <3>1. segs \in Seq(Good)
      BY <2>1 DEF IInv
    <3>2. DOMAIN segs = 1..Len(segs)
      BY <3>1, Places1
    <3> QED
      BY <2>1, <3>1, <3>2 DEF Settled, Ordered, Tidy, Following
  <2>3. ASSUME NEW W, Shows(ss, segs, W) PROVE Becomes(W)
    BY <2>1, <2>3 DEF Shows, Becomes
  <2>4. \A t1, t2 : Inside(t1, t2) = Windowed(segs, t1, t2)
    BY <2>1 DEF Inside, Windowed
  <2>5. ASSUME NEW t1 \in Windows, NEW t2 \in Windows, EndRead(t1, t2), Inside(t1, t2) # {}
        PROVE  Becomes({Inside(t1, t2)})
    <3>1. t1 \in Int /\ t2 \in Int /\ segs # <<>> /\ ss = Truncate(segs, t1, t2)
      BY <2>1, <2>5, TimesAssumption DEF EndRead
    <3>2. Shows(Truncate(segs, t1, t2), segs, {Windowed(segs, t1, t2)})
      BY <2>2, <2>4, <2>5, <3>1, TruncateExact
    <3> QED
      BY <2>3, <2>4, <3>1, <3>2
  <2>6. ASSUME NEW t1 \in Windows, NEW t2 \in Windows, Cut(t1, t2)
        PROVE  Becomes({Inside(TBeg(s), t1), Inside(t2, TEnd(s))})
    <3>1. t1 \in Int /\ t2 \in Int /\ t1 < t2 /\ ss = CutData(segs, t1, t2) /\ ss # <<>>
      BY <2>1, <2>6, TimesAssumption DEF Cut
    <3>2. segs # <<>>
      <4> SUFFICES ASSUME segs = <<>> PROVE FALSE
        OBVIOUS
      <4>1. \A u1, u2 : Subseries(<<>>, u1, u2) = <<>>
        BY DEF Subseries
      <4>2. CutData(segs, t1, t2) = <<>>
        BY <4>1 DEF CutData
      <4> QED
        BY <3>1, <4>2
    <3>3. Shows(CutData(segs, t1, t2), segs,
                {Windowed(segs, TBeg(segs), t1), Windowed(segs, t2, TEnd(segs))})
      BY <2>2, <3>1, <3>2, CutExact
    <3>4. /\ Inside(TBeg(s), t1) = Windowed(segs, TBeg(segs), t1)
          /\ Inside(t2, TEnd(s)) = Windowed(segs, t2, TEnd(segs))
      BY <2>1, <2>4
    <3>5. Shows(ss, segs, {Inside(TBeg(s), t1), Inside(t2, TEnd(s))})
      BY <3>1, <3>3, <3>4
    <3> QED
      BY <2>3, <3>5
  <2>7. ASSUME Copy PROVE Becomes({Places(s)})
    <3>1. ss = Join(<<>>, segs)
      BY <2>1, <2>7 DEF Copy
    <3>2. \A i, j \in 1..Len(segs) : i < j => Apart(segs[i], segs[j])
      BY <2>2, TidyApart
    <3>3. ss \in Seq(Good) /\ Exact(Members(ss), Members(segs))
      BY <2>2, <3>1, <3>2, CopyExact
    <3>4. Covers(Members(segs), segs, Places(segs))
      BY <2>2, WholeCovers
    <3>5. Covers(Members(ss), segs, Places(segs))
      BY <3>3, <3>4, CoversExact
    <3>6. Shows(ss, segs, {Places(segs)})
      BY <3>3, <3>5, CoversShowsOne
    <3> QED
      BY <2>1, <2>3, <3>6
  <2> QED
    BY <2>5, <2>6, <2>7
<1>2. IInv => [A]_vars
  BY <1>1
<1> QED
  BY InitIInv, NextIInv, <1>2, PTL DEF Spec, WindowExact
=============================================================================
