--------------------------- MODULE LastIds_proofs ---------------------------
(***************************************************************************)
(* The lastid tables and the lists of recycled ids: what the operations on *)
(* a list return for any list; types; no increment is lost; and the ids of *)
(* a keyname are a pool in which each is in one place.                     *)
(***************************************************************************)
EXTENDS LastIds, SequenceTheorems, NaturalsInduction, WellFoundedInduction, FiniteSetTheorems, TLAPS

-----------------------------------------------------------------------------
(* Folds, as functions of the prefixes of a sequence *)

\* A set of natural numbers has a least one.
LEMMA Least ==
    ASSUME NEW T \in SUBSET Nat, T # {} PROVE \E m \in T : \A k \in T : m <= k
<1> DEFINE R == {ss \in Nat \X Nat : ss[1] < ss[2]}
<1>1. IsWellFoundedOn(R, Nat)
  BY NatLessThanWellFounded DEF OpToRel
<1> HIDE DEF R
<1>2. PICK m \in T : \A k \in T : ~(<<k, m>> \in R)
  BY <1>1, WFMin
<1>3. \A k \in T : ~(k < m)
  BY <1>2 DEF R
<1> QED
  BY <1>3

\* A set of natural numbers with 0, and with the successor of each of its
\* members below n, has all numbers up to n.
LEMMA UpTo ==
    ASSUME NEW n \in Nat, NEW T, 0 \in T, \A i \in 0..n : i \in T /\ i < n => i + 1 \in T
    PROVE  \A i \in 0..n : i \in T
<1> SUFFICES ASSUME NEW j \in 0..n, j \notin T PROVE FALSE
  OBVIOUS
<1> DEFINE U == {i \in 0..n : i \notin T}
<1>1. U \in SUBSET Nat /\ U # {}
  OBVIOUS
<1>2. PICK m \in U : \A k \in U : m <= k
  BY <1>1, Least
<1>3. m # 0 /\ m \in 0..n /\ m \notin T
  BY <1>2
<1>4. m - 1 \in 0..n /\ m - 1 \notin U
  BY <1>2, <1>3
<1>5. m - 1 \in T /\ m - 1 < n
  BY <1>3, <1>4
<1> QED
  BY <1>3, <1>4, <1>5

\* The k numbers from a on, cut after the first w.
LEMMA SplitEnd == \A a, k, w \in Nat : a + w + (k - w) - 1 = a + k - 1
  OBVIOUS

LEMMA SplitFirst == \A a, k, w \in Nat : w <= k => a..(a + w - 1) \subseteq a..(a + k - 1)
  OBVIOUS

LEMMA SplitRest ==
    \A a, k, w \in Nat : w <= k =>
        \A x : x \in (a + w)..(a + k - 1) <=> x \in a..(a + k - 1) /\ x \notin a..(a + w - 1)
  OBVIOUS

\* Max and Min of a set that has its bound.
LEMMA MaxIs ==
    ASSUME NEW S \in SUBSET Int, NEW m \in S, \A x \in S : x <= m PROVE Max(S) = m
<1>1. m \in S /\ \A y \in S : m >= y
  OBVIOUS
<1>2. \A x \in S : (\A y \in S : x >= y) => x = m
  OBVIOUS
<1> QED
  BY <1>1, <1>2 DEF Max

LEMMA MinIs ==
    ASSUME NEW S \in SUBSET Int, NEW m \in S, \A x \in S : m <= x PROVE Min(S) = m
<1>1. m \in S /\ \A y \in S : m =< y
  OBVIOUS
<1>2. \A x \in S : (\A y \in S : x =< y) => x = m
  OBVIOUS
<1> QED
  BY <1>1, <1>2 DEF Min

LEMMA LeastIn ==
    ASSUME NEW n \in Nat, NEW S \in SUBSET (1..n), S # {} PROVE Min(S) \in S
<1>1. S \in SUBSET Nat
  OBVIOUS
<1>2. PICK m \in S : \A k \in S : m <= k
  BY <1>1, Least
<1> QED
  BY <1>1, <1>2, MinIs
LEMMA GreatestIn ==
    ASSUME NEW n \in Nat, NEW S \in SUBSET (1..n), S # {} PROVE Max(S) \in S
<1> DEFINE T == {k \in 0..n : n - k \in S}
<1>1. T \in SUBSET Nat /\ T # {}
  <2>1. PICK x \in S : TRUE
    OBVIOUS
  <2>2. PICK d \in 0..n : d = n - x
    OBVIOUS
  <2>3. n - d = x
    BY <2>2
  <2>4. d \in T
    BY <2>3
  <2> QED
    BY <2>4
<1>2. PICK m \in T : \A k \in T : m <= k
  BY <1>1, Least
<1>3. n - m \in S
  BY <1>2
<1>4. \A x \in S : x <= n - m
  <2> SUFFICES ASSUME NEW x \in S PROVE x <= n - m
    OBVIOUS
  <2>1. n - x \in 0..n /\ n - (n - x) = x
    OBVIOUS
  <2>2. m <= n - x
    BY <1>2, <2>1
  <2> QED
    BY <2>2
<1>5. S \in SUBSET Int
  OBVIOUS
<1> QED
  BY <1>3, <1>4, <1>5, MaxIs

\* D is a step of a fold over n elements, with results in A.
StepOf(D, A, n) == D \in [A \X (1..n) -> A]

\* The function that a fold with D from the left, or from the right, is a value of.
IsLeft(it, n, b, D)  == \A s \in SUBSET (1..n) :
    it[s] = IF s = {} THEN b ELSE D[<<it[s \ {Max(s)}], Max(s)>>]
IsRight(it, n, b, D) == \A s \in SUBSET (1..n) :
    it[s] = IF s = {} THEN b ELSE D[<<it[s \ {Min(s)}], Min(s)>>]

\* It exists.
LEMMA LeftIter ==
    ASSUME NEW n \in Nat, NEW A, NEW b \in A, NEW D, StepOf(D, A, n)
    PROVE  \E it \in [SUBSET (1..n) -> A] : IsLeft(it, n, b, D)
<1> USE DEF StepOf
<1> DEFINE Is(m, it) == it = [s \in SUBSET (1..m) |->
                              IF s = {} THEN b ELSE D[<<it[s \ {Max(s)}], Max(s)>>]]
           T == {m \in 0..n : \E it \in [SUBSET (1..m) -> A] : Is(m, it)}
<1>1. 0 \in T
  <2> DEFINE it == [s \in SUBSET (1..0) |-> b]
  <2>1. \A s \in SUBSET (1..0) : s = {}
    OBVIOUS
  <2>2. Is(0, it)
    BY <2>1
  <2> QED
    BY <2>2
<1>2. ASSUME NEW m \in 0..n, m \in T, m < n PROVE m + 1 \in T
  <2>1. PICK it \in [SUBSET (1..m) -> A] : Is(m, it)
    BY <1>2
  <2> DEFINE next == [s \in SUBSET (1..(m + 1)) |->
                      IF m + 1 \in s THEN D[<<it[s \ {m + 1}], m + 1>>] ELSE it[s]]
  <2>2. ASSUME NEW s \in SUBSET (1..(m + 1))
        PROVE  next[s] \in A /\ next[s] = IF s = {} THEN b ELSE D[<<next[s \ {Max(s)}], Max(s)>>]
    <3>1. CASE m + 1 \in s
      <4>1. Max(s) = m + 1
        <5>1. s \in SUBSET Int /\ \A x \in s : x <= m + 1
          BY <1>2
        <5> QED
          BY <3>1, <5>1, MaxIs
      <4>2. s \ {m + 1} \in SUBSET (1..m) /\ s \ {m + 1} \in SUBSET (1..(m + 1))
        OBVIOUS
      <4>3. next[s] = D[<<it[s \ {m + 1}], m + 1>>] /\ next[s \ {m + 1}] = it[s \ {m + 1}]
        BY <3>1, <4>2
      <4>4. it[s \ {m + 1}] \in A
        BY <2>1, <4>2
      <4>5. m + 1 \in 1..n
        BY <1>2
      <4>6. next[s] \in A
        BY <4>3, <4>4, <4>5
      <4> HIDE DEF next
      <4> QED
        BY <3>1, <4>1, <4>3, <4>6
    <3>2. CASE m + 1 \notin s
      <4>1. s \in SUBSET (1..m)
        BY <3>2
      <4>2. next[s] = it[s] /\ it[s] \in A
        BY <2>1, <3>2, <4>1
      <4>3. it[s] = IF s = {} THEN b ELSE D[<<it[s \ {Max(s)}], Max(s)>>]
        BY <2>1, <4>1
      <4>4. next[s \ {Max(s)}] = it[s \ {Max(s)}]
        BY <3>2, <4>1
      <4> HIDE DEF next
      <4> QED
        BY <4>2, <4>3, <4>4
    <3> QED
      BY <3>1, <3>2
  <2>3. next \in [SUBSET (1..(m + 1)) -> A]
    BY <2>2
  <2>4. Is(m + 1, next)
    <3>1. next = [s \in SUBSET (1..(m + 1)) |-> next[s]]
      OBVIOUS
    <3> HIDE DEF next
    <3> QED
      BY <2>2, <3>1
  <2> HIDE DEF next, Is
  <2> QED
    BY <1>2, <2>3, <2>4
<1> HIDE DEF Is
<1>3. n \in T
  <2>1. \A i \in 0..n : i \in T /\ i < n => i + 1 \in T
    BY <1>2
  <2> HIDE DEF T
  <2>2. \A i \in 0..n : i \in T
    BY <1>1, <2>1, UpTo
  <2> QED
    BY <2>2
<1>4. PICK it \in [SUBSET (1..n) -> A] : Is(n, it)
  BY <1>3
<1>5. \A s \in SUBSET (1..n) :
          it[s] = IF s = {} THEN b ELSE D[<<it[s \ {Max(s)}], Max(s)>>]
  BY <1>4 DEF Is
<1> QED
  BY <1>5 DEF IsLeft

LEMMA RightIter ==
    ASSUME NEW n \in Nat, NEW A, NEW b \in A, NEW D, StepOf(D, A, n)
    PROVE  \E it \in [SUBSET (1..n) -> A] : IsRight(it, n, b, D)
<1> USE DEF StepOf
<1> DEFINE Is(m, it) == it = [s \in SUBSET ((n - m + 1)..n) |->
                              IF s = {} THEN b ELSE D[<<it[s \ {Min(s)}], Min(s)>>]]
           T == {m \in 0..n : \E it \in [SUBSET ((n - m + 1)..n) -> A] : Is(m, it)}
<1>1. 0 \in T
  <2> DEFINE it == [s \in SUBSET ((n - 0 + 1)..n) |-> b]
  <2>1. \A s \in SUBSET ((n - 0 + 1)..n) : s = {}
    OBVIOUS
  <2>2. Is(0, it)
    BY <2>1
  <2>3. it \in [SUBSET ((n - 0 + 1)..n) -> A] /\ 0 \in 0..n
    OBVIOUS
  <2> HIDE DEF Is, it
  <2> QED
    BY <2>2, <2>3
<1>2. ASSUME NEW m \in 0..n, m \in T, m < n PROVE m + 1 \in T
  <2>1. PICK it \in [SUBSET ((n - m + 1)..n) -> A] : Is(m, it)
    BY <1>2
  <2>k. PICK k \in 1..n : k = n - m
    BY <1>2
  <2>l. n - m + 1 = k + 1 /\ n - (m + 1) + 1 = k
    BY <1>2, <2>k
  <2> DEFINE next == [s \in SUBSET (k..n) |->
                      IF k \in s THEN D[<<it[s \ {k}], k>>] ELSE it[s]]
  <2>2. ASSUME NEW s \in SUBSET (k..n)
        PROVE  next[s] \in A /\ next[s] = IF s = {} THEN b ELSE D[<<next[s \ {Min(s)}], Min(s)>>]
    <3>1. CASE k \in s
      <4>1. Min(s) = k
        <5>1. s \in SUBSET Int /\ \A x \in s : k <= x
          BY <1>2
        <5> QED
          BY <3>1, <5>1, MinIs
      <4>2. s \ {k} \in SUBSET ((k + 1)..n) /\ s \ {k} \in SUBSET (k..n)
        OBVIOUS
      <4>3. next[s] = D[<<it[s \ {k}], k>>] /\ next[s \ {k}] = it[s \ {k}]
        BY <3>1, <4>2
      <4>4. it[s \ {k}] \in A
        BY <2>1, <2>l, <4>2
      <4>5. next[s] \in A
        BY <4>3, <4>4
      <4> HIDE DEF next
      <4> QED
        BY <3>1, <4>1, <4>3, <4>5
    <3>2. CASE k \notin s
      <4>1. s \in SUBSET ((k + 1)..n)
        BY <3>2
      <4>2. next[s] = it[s] /\ it[s] \in A
        BY <2>1, <2>l, <3>2, <4>1
      <4>3. it[s] = IF s = {} THEN b ELSE D[<<it[s \ {Min(s)}], Min(s)>>]
        BY <2>1, <2>l, <4>1
      <4>4. next[s \ {Min(s)}] = it[s \ {Min(s)}]
        BY <3>2, <4>1
      <4> HIDE DEF next
      <4> QED
        BY <4>2, <4>3, <4>4
    <3> QED
      BY <3>1, <3>2
  <2>3. next \in [SUBSET ((n - (m + 1) + 1)..n) -> A]
    BY <2>2, <2>l
  <2>4. Is(m + 1, next)
    <3>1. next = [s \in SUBSET (k..n) |-> next[s]]
      OBVIOUS
    <3> HIDE DEF next
    <3> QED
      BY <2>2, <2>l, <3>1
  <2> HIDE DEF next, Is
  <2>5. m + 1 \in 0..n
    BY <1>2
  <2>6. \E f \in [SUBSET ((n - (m + 1) + 1)..n) -> A] : Is(m + 1, f)
    BY <2>3, <2>4
  <2> QED
    BY <2>5, <2>6
<1> HIDE DEF Is
<1>3. n \in T
  <2>1. \A i \in 0..n : i \in T /\ i < n => i + 1 \in T
    BY <1>2
  <2> HIDE DEF T
  <2>2. \A i \in 0..n : i \in T
    BY <1>1, <2>1, UpTo
  <2> QED
    BY <2>2
<1>4. \E it \in [SUBSET ((n - n + 1)..n) -> A] : Is(n, it)
  BY <1>3
<1>5. n - n + 1 = 1
  OBVIOUS
<1>6. PICK it \in [SUBSET (1..n) -> A] : Is(n, it)
  BY <1>4, <1>5
<1>7. \A s \in SUBSET (1..n) :
          it[s] = IF s = {} THEN b ELSE D[<<it[s \ {Min(s)}], Min(s)>>]
  BY <1>5, <1>6 DEF Is
<1> QED
  BY <1>7 DEF IsRight

-----------------------------------------------------------------------------
(* Joining *)

\* Joined is a fold of this operation.
Join(s, done) ==
    IF done # <<>> /\ Head(done).startValue = End(s) + 1
    THEN <<Seg(s.startValue, s.numValues + Head(done).numValues)>> \o Tail(done)
    ELSE <<s>> \o done

LEMMA SegType == ASSUME NEW a \in Nat, NEW n \in Nat
                 PROVE  /\ Seg(a, n) \in Segment
                        /\ Seg(a, n).startValue = a /\ Seg(a, n).numValues = n
BY DEF Seg, Segment

LEMMA SegFields == ASSUME NEW s \in Segment
                   PROVE  s.startValue \in Nat /\ s.numValues \in Nat /\ End(s) \in Int
BY DEF Segment, End

LEMMA JoinType == ASSUME NEW s \in Segment, NEW done \in Seq(Segment)
                  PROVE  Join(s, done) \in Seq(Segment)
<1>1. CASE done # <<>> /\ Head(done).startValue = End(s) + 1
  <2>1. Head(done) \in Segment /\ Tail(done) \in Seq(Segment)
    BY <1>1, HeadTailProperties
  <2>2. PICK h \in Nat : h = Head(done).numValues
    BY <2>1, SegFields
  <2>6. s.startValue \in Nat /\ s.numValues + h \in Nat
    BY SegFields
  <2>3. Seg(s.startValue, s.numValues + h) \in Segment
    BY <2>6, SegType
  <2>4. <<Seg(s.startValue, s.numValues + h)>> \in Seq(Segment)
    BY <2>3
  <2>5. <<Seg(s.startValue, s.numValues + h)>> \o Tail(done) \in Seq(Segment)
    BY <2>1, <2>4, ConcatProperties
  <2> QED
    BY <1>1, <2>2, <2>5 DEF Join
<1>2. CASE ~(done # <<>> /\ Head(done).startValue = End(s) + 1)
  <2>1. <<s>> \in Seq(Segment)
    OBVIOUS
  <2>2. <<s>> \o done \in Seq(Segment)
    BY <2>1, ConcatProperties
  <2> QED
    BY <1>2, <2>2 DEF Join
<1> QED
  BY <1>1, <1>2

LEMMA JoinedSteps ==
    ASSUME NEW segs \in Seq(Segment)
    PROVE  \E g : /\ g[Len(segs) + 1] = <<>>
                  /\ \A i \in 1..Len(segs) : g[i] = Join(segs[i], g[i + 1])
                  /\ Joined(segs) = g[1]
<1>1. PICK n \in Nat : n = Len(segs) /\ DOMAIN segs = 1..n /\ \A i \in 1..n : segs[i] \in Segment
  BY LenProperties, ElementOfSeq
<1> DEFINE A == Seq(Segment)
           D == [x \in A \X (1..n) |-> Join(segs[x[2]], x[1])]
           Is(c) == c = [s \in SUBSET (1..n) |->
                         IF s = {} THEN <<>> ELSE Join(segs[Min(s)], c[s \ {Min(s)}])]
<1>2. StepOf(D, A, n) /\ <<>> \in A
  <2>1. \A x \in A \X (1..n) : Join(segs[x[2]], x[1]) \in A
    BY <1>1, JoinType
  <2> QED
    BY <2>1 DEF StepOf
<1>3. PICK it \in [SUBSET (1..n) -> A] : IsRight(it, n, <<>>, D)
  <2> HIDE DEF A, D
  <2> QED
    BY <1>2, RightIter
<1>4. Is(it)
  <2>1. ASSUME NEW s \in SUBSET (1..n), s # {}
        PROVE  D[<<it[s \ {Min(s)}], Min(s)>>] = Join(segs[Min(s)], it[s \ {Min(s)}])
    <3>1. Min(s) \in s
      BY <2>1, LeastIn
    <3>2. it[s \ {Min(s)}] \in A /\ Min(s) \in 1..n
      BY <3>1
    <3> HIDE DEF A
    <3> QED
      BY <3>2
  <2>2. it = [s \in SUBSET (1..n) |-> it[s]]
    BY <1>3
  <2> HIDE DEF D, A
  <2> QED
    BY <1>3, <2>1, <2>2 DEF IsRight
<1>5. PICK c : Is(c) /\ Joined(segs) = c[1..n]
  <2>1. Joined(segs) = (CHOOSE c : Is(c))[1..n]
    BY <1>1 DEF Joined, FoldRight, MapThenFoldSet, Join
  <2> HIDE DEF Is
  <2>2. Is(CHOOSE c : Is(c))
    BY <1>4
  <2> QED
    BY <2>1, <2>2
<1> DEFINE g == [i \in 1..(n + 1) |-> c[i..n]]
<1>6. g[n + 1] = <<>>
  <2>1. (n + 1)..n = {} /\ {} \in SUBSET (1..n) /\ n + 1 \in 1..(n + 1)
    OBVIOUS
  <2>2. c[{}] = <<>>
    BY <1>5
  <2> QED
    BY <2>1, <2>2
<1>7. ASSUME NEW i \in 1..n PROVE g[i] = Join(segs[i], g[i + 1])
  <2>5. i..n \in SUBSET (1..n) /\ i \in i..n
    OBVIOUS
  <2>6. (i..n) \ {i} = (i + 1)..n
    OBVIOUS
  <2>1. i..n \in SUBSET (1..n) /\ i \in i..n /\ i..n # {} /\ (i..n) \ {i} = (i + 1)..n
    BY <2>5, <2>6
  <2>2. Min(i..n) = i
    <3>1. i..n \in SUBSET Int /\ \A x \in i..n : i <= x
      OBVIOUS
    <3> QED
      BY <2>1, <3>1, MinIs
  <2>3. c[i..n] = Join(segs[i], c[(i + 1)..n])
    BY <1>5, <2>1, <2>2
  <2>4. g[i] = c[i..n] /\ g[i + 1] = c[(i + 1)..n]
    BY <1>1
  <2> QED
    BY <2>3, <2>4
<1>8. g[1] = c[1..n]
  BY <1>1
<1> HIDE DEF g
<1> QED
  BY <1>1, <1>5, <1>6, <1>7, <1>8

\* The type of what a list of segments is joined to.
LEMMA JoinedType ==
    ASSUME NEW segs \in Seq(Segment) PROVE Joined(segs) \in Seq(Segment)
<1>1. PICK n \in Nat : n = Len(segs) /\ \A i \in 1..n : segs[i] \in Segment
  BY LenProperties, ElementOfSeq
<1>2. PICK g : /\ g[n + 1] = <<>> /\ Joined(segs) = g[1]
               /\ \A i \in 1..n : g[i] = Join(segs[i], g[i + 1])
  BY <1>1, JoinedSteps
<1> DEFINE T == {k \in 0..n : g[n + 1 - k] \in Seq(Segment)}
<1>3. 0 \in T
  <2>1. n + 1 - 0 = n + 1 /\ 0 \in 0..n /\ <<>> \in Seq(Segment)
    OBVIOUS
  <2>2. g[n + 1 - 0] \in Seq(Segment)
    BY <1>2, <2>1
  <2> QED
    BY <2>1, <2>2
<1>4. ASSUME NEW k \in 0..n, k \in T, k < n PROVE k + 1 \in T
  <2>1. PICK i \in 1..n : i = n - k
    BY <1>4
  <2>2. n + 1 - k = i + 1 /\ n + 1 - (k + 1) = i /\ k + 1 \in 0..n
    BY <1>4, <2>1
  <2>3. g[i + 1] \in Seq(Segment)
    BY <1>4, <2>2
  <2>4. g[i] \in Seq(Segment)
    BY <1>1, <1>2, <2>3, JoinType
  <2> QED
    BY <2>2, <2>4
<1> HIDE DEF T
<1>5. n \in T
  <2>1. \A i \in 0..n : i \in T
    BY <1>3, <1>4, UpTo
  <2> QED
    BY <2>1
<1>6. n + 1 - n = 1
  OBVIOUS
<1> QED
  BY <1>2, <1>5, <1>6 DEF T

\* What is joined, member by member.
LEMMA JoinFirst ==
    ASSUME NEW s \in Segment, NEW done \in Seq(Segment), done # <<>>,
           Head(done).startValue = End(s) + 1
    PROVE  /\ Len(Join(s, done)) = Len(done) /\ Len(done) \in Nat \ {0}
           /\ Join(s, done)[1] = Seg(s.startValue, s.numValues + done[1].numValues)
           /\ \A i \in 2..Len(done) : Join(s, done)[i] = done[i]
<1>1. Head(done) = done[1] /\ Tail(done) \in Seq(Segment) /\ Len(Tail(done)) = Len(done) - 1
      /\ \A i \in 1..Len(Tail(done)) : Tail(done)[i] = done[i + 1]
  BY HeadTailProperties
<1>2. PICK n \in Nat \ {0} : n = Len(done) /\ done[1] \in Segment
  BY LenProperties, EmptySeq, ElementOfSeq
<1>3. PICK h : h = Seg(s.startValue, s.numValues + done[1].numValues)
  OBVIOUS
<1>4. h \in Segment
  <2>1. s.startValue \in Nat /\ s.numValues \in Nat /\ done[1].numValues \in Nat
    BY <1>2, SegFields
  <2> QED
    BY <1>3, <2>1, SegType
<1>5. Join(s, done) = <<h>> \o Tail(done)
  BY <1>1, <1>3 DEF Join
<1>6. <<h>> \in Seq(Segment) /\ Len(<<h>>) = 1 /\ <<h>>[1] = h
  BY <1>4
<1>7. /\ Len(<<h>> \o Tail(done)) = Len(<<h>>) + Len(Tail(done))
      /\ \A i \in 1 .. Len(<<h>>) + Len(Tail(done)) : (<<h>> \o Tail(done))[i] =
             IF i <= Len(<<h>>) THEN <<h>>[i] ELSE Tail(done)[i - Len(<<h>>)]
  BY <1>1, <1>6, ConcatProperties
<1>8. Len(Join(s, done)) = n /\ Join(s, done)[1] = h
  BY <1>1, <1>2, <1>5, <1>6, <1>7
<1>9. ASSUME NEW i \in 2..n PROVE Join(s, done)[i] = done[i]
  <2>1. Join(s, done)[i] = Tail(done)[i - 1]
    BY <1>1, <1>2, <1>5, <1>6, <1>7
  <2>2. i - 1 \in 1..Len(Tail(done)) /\ i - 1 + 1 = i
    BY <1>1, <1>2
  <2> QED
    BY <1>1, <2>1, <2>2
<1> QED
  BY <1>2, <1>3, <1>8, <1>9

LEMMA JoinApart ==
    ASSUME NEW s \in Segment, NEW done \in Seq(Segment),
           ~(done # <<>> /\ Head(done).startValue = End(s) + 1)
    PROVE  /\ Len(Join(s, done)) = Len(done) + 1 /\ Len(done) \in Nat
           /\ Join(s, done)[1] = s
           /\ \A i \in 1..Len(done) : Join(s, done)[i + 1] = done[i]
<1>1. PICK n \in Nat : n = Len(done)
  BY LenProperties
<1>2. <<s>> \in Seq(Segment) /\ Len(<<s>>) = 1 /\ <<s>>[1] = s
  OBVIOUS
<1>3. /\ Len(<<s>> \o done) = Len(<<s>>) + Len(done)
      /\ \A i \in 1 .. Len(<<s>>) + Len(done) : (<<s>> \o done)[i] =
             IF i <= Len(<<s>>) THEN <<s>>[i] ELSE done[i - Len(<<s>>)]
  BY <1>2, ConcatProperties
<1>4. Join(s, done) = <<s>> \o done
  BY DEF Join
<1>5. Len(Join(s, done)) = n + 1 /\ Join(s, done)[1] = s
  BY <1>1, <1>2, <1>3, <1>4
<1>6. ASSUME NEW i \in 1..n PROVE Join(s, done)[i + 1] = done[i]
  <2>1. i + 1 \in 1..(n + 1) /\ ~(i + 1 <= 1) /\ i + 1 - 1 = i
    OBVIOUS
  <2> QED
    BY <1>1, <1>2, <1>3, <1>4, <2>1
<1> QED
  BY <1>1, <1>5, <1>6

\* A segment in front of a list that is sorted and joined.
LEMMA JoinCanonical ==
    ASSUME NEW s \in Segment, s.numValues > 0, NEW done \in Seq(Segment), Canonical(done),
           done # <<>> => End(s) < Head(done).startValue
    PROVE  /\ Canonical(Join(s, done)) /\ Ids(Join(s, done)) = IdsOf(s) \cup Ids(done)
           /\ Join(s, done) \in Seq(Segment) /\ Join(s, done) # <<>>
           /\ Head(Join(s, done)).startValue = s.startValue
<1> DEFINE t == Join(s, done)
<1>1. t \in Seq(Segment)
  BY JoinType
<1>2. PICK a \in Nat, k \in Nat : a = s.startValue /\ k = s.numValues
  BY SegFields
<1>3. End(s) = a + k - 1 /\ IdsOf(s) = a..(a + k - 1) /\ k > 0
  BY <1>2 DEF End, IdsOf
<1>4. CASE done # <<>> /\ Head(done).startValue = End(s) + 1
  <2>1. PICK n \in Nat \ {0} : n = Len(done)
    BY <1>4, JoinFirst
  <2>2. DOMAIN done = 1..n /\ DOMAIN t = 1..n /\ Len(t) = n
    BY <1>1, <1>4, <2>1, JoinFirst, LenProperties
  <2>3. done[1] \in Segment /\ done[1] = Head(done)
    BY <1>4, <2>1, ElementOfSeq
  <2>4. PICK h \in Nat : h = done[1].numValues
    BY <2>3, SegFields
  <2>5. done[1].startValue = a + k
    BY <1>2, <1>3, <1>4, <2>3
  <2>6. t[1] = Seg(a, k + h)
    BY <1>2, <1>4, <2>1, <2>4, JoinFirst
  <2>7. \A i \in 2..n : t[i] = done[i]
    BY <1>4, <2>1, JoinFirst
  <2> HIDE DEF t
  <2>8. t[1].startValue = a /\ t[1].numValues = k + h
    <3>1. k + h \in Nat
      OBVIOUS
    <3> QED
      BY <2>6, <3>1, SegType
  <2>9. End(t[1]) = End(done[1])
    <3>1. End(t[1]) = a + (k + h) - 1
      BY <2>8 DEF End
    <3>2. End(done[1]) = (a + k) + h - 1
      BY <2>4, <2>5 DEF End
    <3> QED
      BY <2>4, <3>1, <3>2
  <2>10. ASSUME NEW i \in 1..n PROVE t[i].numValues > 0
    <3>1. CASE i = 1
      BY <1>3, <2>8, <3>1
    <3>2. CASE i # 1
      <4>1. i \in 2..n /\ done[i].numValues > 0
        BY <2>2, <3>2 DEF Canonical
      <4> QED
        BY <2>7, <4>1
    <3> QED
      BY <3>1, <3>2
  <2>11. ASSUME NEW i \in 1..(n - 1) PROVE End(t[i]) + 1 < t[i + 1].startValue
    <3>1. i + 1 \in 2..n
      BY <2>1
    <3>2. t[i + 1] = done[i + 1]
      BY <2>7, <3>1
    <3>3. End(done[i]) + 1 < done[i + 1].startValue
      BY <2>1 DEF Canonical
    <3>4. End(t[i]) = End(done[i])
      <4>1. CASE i = 1
        BY <2>9, <4>1
      <4>2. CASE i # 1
        <5>1. i \in 2..n
          BY <2>1, <4>2
        <5> QED
          BY <2>7, <5>1
      <4> QED
        BY <4>1, <4>2
    <3> QED
      BY <3>2, <3>3, <3>4
  <2>12. Canonical(t)
    BY <2>2, <2>10, <2>11 DEF Canonical
  <2>13. IdsOf(t[1]) = IdsOf(s) \cup IdsOf(done[1])
    <3>1. IdsOf(t[1]) = a..(a + (k + h) - 1)
      BY <2>8 DEF IdsOf, End
    <3>2. IdsOf(done[1]) = (a + k)..(a + k + h - 1)
      BY <2>4, <2>5 DEF IdsOf, End
    <3>3. a..(a + (k + h) - 1) = (a..(a + k - 1)) \cup ((a + k)..(a + k + h - 1))
      OBVIOUS
    <3> QED
      BY <1>3, <3>1, <3>2, <3>3
  <2>14. Ids(t) = IdsOf(s) \cup Ids(done)
    <3>1. \A x : x \in Ids(t) <=> \E i \in 1..n : x \in IdsOf(t[i])
      BY <2>2 DEF Ids
    <3>2. \A x : x \in Ids(done) <=> \E i \in 1..n : x \in IdsOf(done[i])
      BY <2>2 DEF Ids
    <3>3. \A i \in 1..n : i = 1 \/ i \in 2..n
      OBVIOUS
    <3>4. 1 \in 1..n /\ \A i \in 2..n : i \in 1..n
      BY <2>1
    <3>5. ASSUME NEW x \in Ids(t) PROVE x \in IdsOf(s) \cup Ids(done)
      <4>1. PICK i \in 1..n : x \in IdsOf(t[i])
        BY <3>1
      <4>2. CASE i = 1
        BY <2>13, <3>2, <3>4, <4>1, <4>2
      <4>3. CASE i \in 2..n
        BY <2>7, <3>2, <4>1, <4>3
      <4> QED
        BY <3>3, <4>2, <4>3
    <3>6. ASSUME NEW x \in IdsOf(s) PROVE x \in Ids(t)
      BY <2>13, <3>1, <3>4
    <3>7. ASSUME NEW x \in Ids(done) PROVE x \in Ids(t)
      <4>1. PICK i \in 1..n : x \in IdsOf(done[i])
        BY <3>2
      <4>2. CASE i = 1
        BY <2>13, <3>1, <3>4, <4>1, <4>2
      <4>3. CASE i \in 2..n
        BY <2>7, <3>1, <4>1, <4>3
      <4> QED
        BY <3>3, <4>2, <4>3
    <3> QED
      BY <3>5, <3>6, <3>7
  <2>15. t # <<>> /\ Head(t).startValue = s.startValue
    BY <1>1, <1>2, <2>1, <2>2, <2>8
  <2> QED
    BY <1>1, <2>12, <2>14, <2>15 DEF t
<1>5. CASE ~(done # <<>> /\ Head(done).startValue = End(s) + 1)
  <2>1. PICK n \in Nat : n = Len(done)
    BY LenProperties
  <2>2. DOMAIN done = 1..n /\ DOMAIN t = 1..(n + 1) /\ Len(t) = n + 1
    BY <1>1, <1>5, <2>1, JoinApart, LenProperties
  <2>3. t[1] = s /\ \A i \in 1..n : t[i + 1] = done[i]
    BY <1>5, <2>1, JoinApart
  <2> HIDE DEF t
  <2>4. n # 0 => End(s) + 1 < done[1].startValue
    <3>1. SUFFICES ASSUME n # 0 PROVE End(s) + 1 < done[1].startValue
      OBVIOUS
    <3>2. done # <<>>
      BY <2>1, <3>1
    <3>3. Head(done) = done[1] /\ done[1] \in Segment
      BY <2>1, <3>1, ElementOfSeq
    <3>4. PICK b \in Nat : b = done[1].startValue
      BY <3>3, SegFields
    <3> QED
      BY <1>3, <1>5, <3>2, <3>3, <3>4
  <2>5. ASSUME NEW i \in 1..(n + 1) PROVE t[i].numValues > 0
    <3>1. CASE i = 1
      BY <1>2, <1>3, <2>3, <3>1
    <3>2. CASE i # 1
      <4>1. PICK j \in 1..n : j + 1 = i
        <5>1. i - 1 \in 1..n /\ (i - 1) + 1 = i
          BY <3>2
        <5> QED
          BY <5>1
      <4>2. done[j].numValues > 0
        BY <2>2 DEF Canonical
      <4> QED
        BY <2>3, <4>1, <4>2
    <3> QED
      BY <3>1, <3>2
  <2>6. ASSUME NEW i \in 1..(n + 1 - 1) PROVE End(t[i]) + 1 < t[i + 1].startValue
    <3>1. i \in 1..n /\ t[i + 1] = done[i]
      BY <2>3
    <3>2. CASE i = 1
      BY <2>3, <2>4, <3>1, <3>2
    <3>3. CASE i # 1
      <4>1. PICK j \in 1..(n - 1) : j + 1 = i
        <5>1. i - 1 \in 1..(n - 1) /\ (i - 1) + 1 = i
          BY <3>1, <3>3
        <5> QED
          BY <5>1
      <4>2. End(done[j]) + 1 < done[j + 1].startValue
        BY <2>1 DEF Canonical
      <4>3. t[j + 1] = done[j]
        BY <2>3
      <4> QED
        BY <3>1, <4>1, <4>2, <4>3
    <3> QED
      BY <3>2, <3>3
  <2>7. Canonical(t)
    BY <2>2, <2>5, <2>6 DEF Canonical
  <2>8. Ids(t) = IdsOf(s) \cup Ids(done)
    <3>1. \A x : x \in Ids(t) <=> \E i \in 1..(n + 1) : x \in IdsOf(t[i])
      BY <2>2 DEF Ids
    <3>2. \A x : x \in Ids(done) <=> \E i \in 1..n : x \in IdsOf(done[i])
      BY <2>2 DEF Ids
    <3>3. \A i \in 1..(n + 1) : i = 1 \/ (i - 1 \in 1..n /\ (i - 1) + 1 = i)
      OBVIOUS
    <3>4. 1 \in 1..(n + 1) /\ \A i \in 1..n : i + 1 \in 1..(n + 1)
      OBVIOUS
    <3>5. ASSUME NEW x \in Ids(t) PROVE x \in IdsOf(s) \cup Ids(done)
      <4>1. PICK i \in 1..(n + 1) : x \in IdsOf(t[i])
        BY <3>1
      <4>2. CASE i = 1
        BY <2>3, <4>1, <4>2
      <4>3. CASE i - 1 \in 1..n /\ (i - 1) + 1 = i
        BY <2>3, <3>2, <4>1, <4>3
      <4> QED
        BY <3>3, <4>2, <4>3
    <3>6. ASSUME NEW x \in IdsOf(s) PROVE x \in Ids(t)
      BY <2>3, <3>1, <3>4
    <3>7. ASSUME NEW x \in Ids(done) PROVE x \in Ids(t)
      <4>1. PICK i \in 1..n : x \in IdsOf(done[i])
        BY <3>2
      <4> QED
        BY <2>3, <3>1, <3>4, <4>1
    <3> QED
      BY <3>5, <3>6, <3>7
  <2>9. t # <<>> /\ Head(t).startValue = s.startValue
    BY <1>1, <2>2, <2>3
  <2> QED
    BY <1>1, <2>7, <2>8, <2>9 DEF t
<1> QED
  BY <1>4, <1>5

\* A list before it is joined: segments that are sorted and have no common ids.
Ordered(segs) ==
    /\ \A i \in DOMAIN segs : segs[i].numValues > 0
    /\ \A i \in 1..(Len(segs) - 1) : End(segs[i]) < segs[i + 1].startValue

LEMMA JoinedCanonical ==
    ASSUME NEW segs \in Seq(Segment), Ordered(segs)
    PROVE  Canonical(Joined(segs)) /\ Ids(Joined(segs)) = Ids(segs)
<1>1. PICK n \in Nat : n = Len(segs) /\ DOMAIN segs = 1..n /\ \A i \in 1..n : segs[i] \in Segment
  BY LenProperties, ElementOfSeq
<1>2. PICK g : /\ g[n + 1] = <<>> /\ Joined(segs) = g[1]
               /\ \A i \in 1..n : g[i] = Join(segs[i], g[i + 1])
  BY <1>1, JoinedSteps
<1> DEFINE Good(i) == /\ g[i] \in Seq(Segment) /\ Canonical(g[i])
                      /\ Ids(g[i]) = UNION {IdsOf(segs[j]) : j \in i..n}
                      /\ IF i = n + 1 THEN g[i] = <<>>
                         ELSE g[i] # <<>> /\ Head(g[i]).startValue = segs[i].startValue
<1> DEFINE T == {k \in 0..n : Good(n + 1 - k)}
<1>3. 0 \in T
  <2>1. n + 1 - 0 = n + 1 /\ 0 \in 0..n /\ <<>> \in Seq(Segment)
    OBVIOUS
  <2>2. Canonical(<<>>) /\ Ids(<<>>) = {}
    BY DEF Canonical, Ids
  <2>3. UNION {IdsOf(segs[j]) : j \in (n + 1)..n} = {}
    <3>1. (n + 1)..n = {}
      OBVIOUS
    <3> QED
      BY <3>1
  <2>4. Good(n + 1)
    BY <1>2, <2>1, <2>2, <2>3
  <2> HIDE DEF Good
  <2> QED
    BY <2>1, <2>4
<1>4. ASSUME NEW k \in 0..n, k \in T, k < n PROVE k + 1 \in T
  <2>1. PICK i \in 1..n : i = n - k
    BY <1>4
  <2>2. n + 1 - k = i + 1 /\ n + 1 - (k + 1) = i /\ k + 1 \in 0..n
    BY <1>4, <2>1
  <2> HIDE DEF Good
  <2>3. Good(i + 1)
    BY <1>4, <2>2
  <2>4. g[i + 1] # <<>> => i + 1 \in 2..n /\ Head(g[i + 1]).startValue = segs[i + 1].startValue
    BY <2>3 DEF Good
  <2>5. segs[i] \in Segment /\ segs[i].numValues > 0
    BY <1>1 DEF Ordered
  <2>6. g[i + 1] # <<>> => End(segs[i]) < Head(g[i + 1]).startValue
    <3>1. SUFFICES ASSUME g[i + 1] # <<>> PROVE End(segs[i]) < Head(g[i + 1]).startValue
      OBVIOUS
    <3>2. i \in 1..(n - 1) /\ Head(g[i + 1]).startValue = segs[i + 1].startValue
      BY <2>4, <3>1
    <3>3. End(segs[i]) < segs[i + 1].startValue
      BY <1>1, <3>2 DEF Ordered
    <3> QED
      BY <3>2, <3>3
  <2>7. g[i + 1] \in Seq(Segment) /\ Canonical(g[i + 1])
    BY <2>3 DEF Good
  <2>8. /\ Canonical(g[i]) /\ Ids(g[i]) = IdsOf(segs[i]) \cup Ids(g[i + 1])
        /\ g[i] \in Seq(Segment) /\ g[i] # <<>>
        /\ Head(g[i]).startValue = segs[i].startValue
    <3>1. g[i] = Join(segs[i], g[i + 1])
      BY <1>2
    <3> QED
      BY <2>5, <2>6, <2>7, <3>1, JoinCanonical
  <2>9. Ids(g[i]) = UNION {IdsOf(segs[j]) : j \in i..n}
    <3>1. Ids(g[i + 1]) = UNION {IdsOf(segs[j]) : j \in (i + 1)..n}
      BY <2>3 DEF Good
    <3>2. \A j : j \in i..n <=> j = i \/ j \in (i + 1)..n
      OBVIOUS
    <3> QED
      BY <2>8, <3>1, <3>2
  <2>10. Good(i)
    BY <2>8, <2>9 DEF Good
  <2> QED
    BY <2>2, <2>10
<1> HIDE DEF T
<1>5. n \in T
  <2>1. \A i \in 0..n : i \in T
    BY <1>3, <1>4, UpTo
  <2> QED
    BY <2>1
<1>6. n + 1 - n = 1
  OBVIOUS
<1>7. Good(1)
  BY <1>5, <1>6 DEF T
<1>8. Ids(segs) = UNION {IdsOf(segs[j]) : j \in 1..n}
  BY <1>1 DEF Ids
<1> QED
  BY <1>2, <1>7, <1>8

\* The segments of a canonical list, or of an ordered one, are apart.
LEMMA OrderedApart ==
    ASSUME NEW segs \in Seq(Segment), Ordered(segs),
           NEW i \in DOMAIN segs, NEW j \in DOMAIN segs, i < j
    PROVE  End(segs[i]) < segs[j].startValue
<1>1. PICK n \in Nat : n = Len(segs) /\ DOMAIN segs = 1..n /\ \A m \in 1..n : segs[m] \in Segment
  BY LenProperties, ElementOfSeq
<1> DEFINE T == {k \in 0..n : i + k \in (i + 1)..n => End(segs[i]) < segs[i + k].startValue}
<1>2. 0 \in T
  BY <1>1
<1>3. ASSUME NEW k \in 0..n, k \in T, k < n PROVE k + 1 \in T
  <2> SUFFICES ASSUME i + (k + 1) \in (i + 1)..n
               PROVE  End(segs[i]) < segs[i + (k + 1)].startValue
    BY <1>3
  <2>1. PICK m \in 1..(n - 1) : m = i + k
    BY <1>1, <1>3
  <2>2. End(segs[m]) < segs[m + 1].startValue
    BY <1>1, <2>1 DEF Ordered
  <2>3. m + 1 = i + (k + 1)
    BY <2>1
  <2>4. CASE k = 0
    BY <1>1, <2>1, <2>2, <2>3, <2>4
  <2>5. CASE k # 0
    <3>1. m \in (i + 1)..n
      BY <1>1, <2>1, <2>5
    <3>2. End(segs[i]) < segs[m].startValue
      BY <1>3, <2>1, <3>1
    <3>3. segs[m].numValues > 0 /\ segs[m] \in Segment /\ segs[m + 1] \in Segment /\ segs[i] \in Segment
      BY <1>1, <2>1 DEF Ordered
    <3>4. PICK a \in Nat, c \in Nat, d \in Nat :
               a = segs[m].startValue /\ c = segs[m].numValues /\ d = segs[m + 1].startValue
      BY <3>3, SegFields
    <3>5. PICK e \in Int : e = End(segs[i])
      BY <3>3, SegFields
    <3>6. a + c - 1 < d /\ e < a /\ c > 0
      BY <2>2, <3>2, <3>3, <3>4, <3>5 DEF End
    <3>7. e < d
      BY <3>6
    <3> QED
      BY <2>3, <3>4, <3>5, <3>7
  <2> QED
    BY <2>4, <2>5
<1> HIDE DEF T
<1>4. \A k \in 0..n : k \in T
  BY <1>2, <1>3, UpTo
<1>5. PICK k \in 0..n : j = i + k /\ i + k \in (i + 1)..n
  <2>1. j - i \in 0..n /\ j = i + (j - i) /\ j \in (i + 1)..n
    BY <1>1
  <2> QED
    BY <2>1
<1> QED
  BY <1>4, <1>5 DEF T

LEMMA CanonicalOrdered ==
    ASSUME NEW segs \in Seq(Segment), Canonical(segs) PROVE Ordered(segs)
<1>1. ASSUME NEW i \in 1..(Len(segs) - 1) PROVE End(segs[i]) < segs[i + 1].startValue
  <2>1. PICK n \in Nat : n = Len(segs) /\ \A m \in 1..n : segs[m] \in Segment
    BY LenProperties, ElementOfSeq
  <2>2. i \in 1..n /\ i + 1 \in 1..n
    BY <2>1
  <2>3. PICK e \in Int, d \in Nat : e = End(segs[i]) /\ d = segs[i + 1].startValue
    BY <2>1, <2>2, SegFields
  <2>4. e + 1 < d
    BY <2>3 DEF Canonical
  <2> QED
    BY <2>3, <2>4
<1> QED
  BY <1>1 DEF Canonical, Ordered

-----------------------------------------------------------------------------
(* Sorting *)

\* f puts the values v[1], ..., v[m] in order.
Sorts(f, m, v) ==
    /\ f \in [1..m -> 1..m]
    /\ \A i, j \in 1..m : f[i] = f[j] => i = j
    /\ \A x \in 1..m : \E i \in 1..m : f[i] = x
    /\ \A i, j \in 1..m : i < j => v[f[i]] <= v[f[j]]

\* One more value is put in its place.
LEMMA SortMore ==
    ASSUME NEW n \in Nat, NEW v \in [1..n -> Nat], NEW m \in 0..n, m < n,
           NEW f, Sorts(f, m, v)
    PROVE  \E g : Sorts(g, m + 1, v)
<1> DEFINE U == {i \in 1..m : v[m + 1] < v[f[i]]}
<1>0. m + 1 \in 1..n /\ m \in Nat /\ \A i \in 1..m : i \in 1..n /\ f[i] \in 1..m /\ f[i] \in 1..n
  <2>1. m + 1 \in 1..n /\ m \in Nat /\ \A i \in 1..m : i \in 1..n
    OBVIOUS
  <2>2. f \in [1..m -> 1..m]
    BY DEF Sorts
  <2> QED
    BY <2>1, <2>2
<1>v. /\ v[m + 1] \in Nat /\ \A i \in 1..m : v[f[i]] \in Nat
  BY <1>0
<1>1. PICK p \in 1..(m + 1) : /\ \A i \in 1..m : i < p => v[f[i]] <= v[m + 1]
                              /\ \A i \in 1..m : p <= i => v[m + 1] <= v[f[i]]
  <2>1. CASE U = {}
    <3>1. ASSUME NEW i \in 1..m PROVE v[f[i]] <= v[m + 1] /\ ~(m + 1 <= i)
      <4>1. ~(v[m + 1] < v[f[i]])
        BY <2>1
      <4> QED
        BY <1>v, <4>1
    <3> QED
      BY <3>1
  <2>2. CASE U # {}
    <3>1. U \in SUBSET Nat
      OBVIOUS
    <3>2. PICK p \in U : \A k \in U : p <= k
      BY <2>2, <3>1, Least
    <3>3. ASSUME NEW i \in 1..m, i < p PROVE v[f[i]] <= v[m + 1]
      <4>1. i \notin U
        BY <3>2, <3>3
      <4> QED
        BY <1>v, <4>1
    <3>4. ASSUME NEW i \in 1..m, p <= i PROVE v[m + 1] <= v[f[i]]
      <4>1. v[m + 1] < v[f[p]] /\ p \in 1..m
        BY <3>2
      <4>2. v[f[p]] <= v[f[i]]
        <5>1. CASE p = i
          BY <1>v, <4>1, <5>1
        <5>2. CASE p # i
          <6>1. \A a, b \in 1..m : a < b => v[f[a]] <= v[f[b]]
            BY DEF Sorts
          <6>2. p < i
            BY <3>4, <4>1, <5>2
          <6> QED
            BY <4>1, <6>1, <6>2
        <5> QED
          BY <5>1, <5>2
      <4> QED
        BY <1>v, <4>1, <4>2
    <3>5. p \in 1..(m + 1)
      BY <3>2
    <3> QED
      BY <3>3, <3>4, <3>5
  <2> QED
    BY <2>1, <2>2
<1> DEFINE g == [i \in 1..(m + 1) |-> IF i < p THEN f[i] ELSE IF i = p THEN m + 1 ELSE f[i - 1]]
<1>2. ASSUME NEW i \in 1..(m + 1)
      PROVE  \/ i < p /\ i \in 1..m /\ g[i] = f[i]
             \/ i = p /\ g[i] = m + 1
             \/ p < i /\ i - 1 \in 1..m /\ p <= i - 1 /\ g[i] = f[i - 1]
  <2>1. CASE i < p
    BY <2>1
  <2>2. CASE i = p
    BY <2>2
  <2>3. CASE p < i
    BY <2>3
  <2> QED
    BY <2>1, <2>2, <2>3
<1> HIDE DEF g
<1>3. g \in [1..(m + 1) -> 1..(m + 1)]
  <2>1. ASSUME NEW i \in 1..(m + 1) PROVE g[i] \in 1..(m + 1)
    <3>1. m + 1 \in 1..(m + 1) /\ \A j \in 1..m : f[j] \in 1..(m + 1)
      BY <1>0
    <3> QED
      BY <1>2, <3>1
  <2>2. g = [i \in 1..(m + 1) |-> g[i]]
    BY DEF g
  <2> QED
    BY <2>1, <2>2
<1>4. ASSUME NEW i \in 1..(m + 1), NEW j \in 1..(m + 1), g[i] = g[j] PROVE i = j
  <2>1. \A a, b \in 1..m : f[a] = f[b] => a = b
    BY DEF Sorts
  <2>2. \A a \in 1..m : f[a] # m + 1
    BY <1>0
  <2> QED
    BY <1>2, <1>4, <2>1, <2>2
<1>5. ASSUME NEW x \in 1..(m + 1) PROVE \E i \in 1..(m + 1) : g[i] = x
  <2>1. CASE x = m + 1
    <3>1. g[p] = m + 1
      BY <1>2
    <3> QED
      BY <2>1, <3>1
  <2>2. CASE x # m + 1
    <3>1. PICK i \in 1..m : f[i] = x
      BY <2>2 DEF Sorts
    <3>2. CASE i < p
      <4>1. i \in 1..(m + 1) /\ g[i] = f[i]
        BY <1>2, <3>2
      <4> QED
        BY <3>1, <4>1
    <3>3. CASE p <= i
      <4>1. i + 1 \in 1..(m + 1) /\ p < i + 1 /\ (i + 1) - 1 = i
        BY <3>3
      <4>2. g[i + 1] = f[i]
        BY <1>2, <4>1
      <4> QED
        BY <3>1, <4>1, <4>2
    <3> QED
      BY <3>2, <3>3
  <2> QED
    BY <2>1, <2>2
<1>6. ASSUME NEW i \in 1..(m + 1), NEW j \in 1..(m + 1), i < j PROVE v[g[i]] <= v[g[j]]
  <2>1. \A a, b \in 1..m : a < b => v[f[a]] <= v[f[b]]
    BY DEF Sorts
  <2>2. CASE i < p /\ i \in 1..m /\ g[i] = f[i]
    <3>1. CASE j < p /\ j \in 1..m /\ g[j] = f[j]
      BY <1>6, <2>1, <2>2, <3>1
    <3>2. CASE j = p /\ g[j] = m + 1
      BY <1>1, <2>2, <3>2
    <3>3. CASE p < j /\ j - 1 \in 1..m /\ p <= j - 1 /\ g[j] = f[j - 1]
      <4>1. i < j - 1
        BY <2>2, <3>3
      <4> QED
        BY <2>1, <2>2, <3>3, <4>1
    <3> QED
      BY <1>2, <3>1, <3>2, <3>3
  <2>3. CASE i = p /\ g[i] = m + 1
    <3>1. p < j /\ j - 1 \in 1..m /\ p <= j - 1 /\ g[j] = f[j - 1]
      BY <1>2, <1>6, <2>3
    <3> QED
      BY <1>1, <2>3, <3>1
  <2>4. CASE p < i /\ i - 1 \in 1..m /\ p <= i - 1 /\ g[i] = f[i - 1]
    <3>1. p < j /\ j - 1 \in 1..m /\ p <= j - 1 /\ g[j] = f[j - 1]
      BY <1>2, <1>6, <2>4
    <3>2. i - 1 < j - 1
      BY <1>6
    <3> QED
      BY <2>1, <2>4, <3>1, <3>2
  <2> QED
    BY <1>2, <2>2, <2>3, <2>4
<1>7. Sorts(g, m + 1, v)
  BY <1>3, <1>4, <1>5, <1>6 DEF Sorts
<1> QED
  BY <1>7

\* So any sequence of segments can be sorted.
LEMMA SortsExists ==
    ASSUME NEW n \in Nat, NEW v \in [1..n -> Nat] PROVE \E f : Sorts(f, n, v)
<1> DEFINE T == {m \in 0..n : \E f : Sorts(f, m, v)}
<1>1. 0 \in T
  <2>1. 1..0 = {} /\ 0 \in 0..n
    OBVIOUS
  <2>2. Sorts([i \in 1..0 |-> i], 0, v)
    BY <2>1 DEF Sorts
  <2> QED
    BY <2>1, <2>2
<1>2. ASSUME NEW m \in 0..n, m \in T, m < n PROVE m + 1 \in T
  <2>1. PICK f : Sorts(f, m, v)
    BY <1>2
  <2>2. \E g : Sorts(g, m + 1, v)
    BY <1>2, <2>1, SortMore
  <2> QED
    BY <1>2, <2>2
<1> HIDE DEF T
<1>3. n \in T
  <2>1. \A i \in 0..n : i \in T
    BY <1>1, <1>2, UpTo
  <2> QED
    BY <2>1
<1> QED
  BY <1>3 DEF T

\* f tells from where in segs the segments of t come, if they are sorted.
Places(f, segs, t) ==
    /\ \A i \in DOMAIN segs : f[i] \in DOMAIN segs
    /\ \A i, j \in DOMAIN segs : f[i] = f[j] => i = j
    /\ \A x \in DOMAIN segs : \E i \in DOMAIN segs : f[i] = x
    /\ \A i, j \in DOMAIN segs : i < j => segs[f[i]].startValue <= segs[f[j]].startValue
    /\ \A i \in DOMAIN segs : t[i] = segs[f[i]]

LEMMA SortedPlaces ==
    ASSUME NEW segs \in Seq(Segment)
    PROVE  /\ Sorted(segs) \in Seq(Segment) /\ Len(Sorted(segs)) = Len(segs)
           /\ \E f : Places(f, segs, Sorted(segs))
<1>1. PICK n \in Nat : n = Len(segs) /\ DOMAIN segs = 1..n /\ \A i \in 1..n : segs[i] \in Segment
  BY LenProperties, ElementOfSeq
<1> DEFINE Is(f) == f \in Bijection(1..n, 1..n) /\ \A i, j \in 1..n :
                       i < j => segs[f[i]].startValue <= segs[f[j]].startValue
           v == [i \in 1..n |-> segs[i].startValue]
<1>2. \E f : Is(f)
  <2>1. v \in [1..n -> Nat]
    BY <1>1, SegFields
  <2>2. PICK f : Sorts(f, n, v)
    <3> HIDE DEF v
    <3> QED
      BY <2>1, SortsExists
  <2>3. f \in Bijection(1..n, 1..n)
    BY <2>2 DEF Sorts, Bijection, Injection, Surjection, IsInjective
  <2>4. ASSUME NEW i \in 1..n, NEW j \in 1..n, i < j
        PROVE  segs[f[i]].startValue <= segs[f[j]].startValue
    <3>1. f[i] \in 1..n /\ f[j] \in 1..n /\ v[f[i]] <= v[f[j]]
      BY <2>2, <2>4 DEF Sorts
    <3> QED
      BY <3>1
  <2> QED
    BY <2>3, <2>4
<1>3. PICK f : Is(f) /\ Sorted(segs) = [i \in 1..n |-> segs[f[i]]]
  <2>1. \E h \in Bijection(1..n, 1..n) : \A i, j \in 1..n :
            i < j => segs[h[i]].startValue <= segs[h[j]].startValue
    BY <1>2
  <2>2. PICK h : h = CHOOSE f \in Bijection(1..n, 1..n) : \A i, j \in 1..n :
                        i < j => segs[f[i]].startValue <= segs[f[j]].startValue
    OBVIOUS
  <2>3. Is(h)
    BY <2>1, <2>2
  <2>4. Sorted(segs) = [i \in 1..n |-> segs[h[i]]]
    BY <1>1, <2>2 DEF Sorted
  <2> QED
    BY <2>3, <2>4
<1>4. /\ f \in [1..n -> 1..n]
      /\ \A i, j \in 1..n : f[i] = f[j] => i = j
      /\ \A x \in 1..n : \E i \in 1..n : f[i] = x
  BY <1>3 DEF Bijection, Injection, Surjection, IsInjective
<1>5. \A i, j \in 1..n : i < j => segs[f[i]].startValue <= segs[f[j]].startValue
  BY <1>3
<1>6. \A i \in 1..n : f[i] \in 1..n /\ Sorted(segs)[i] = segs[f[i]]
  BY <1>3, <1>4
<1>7. Sorted(segs) \in Seq(Segment) /\ Len(Sorted(segs)) = n
  <2>1. \A i \in 1..n : segs[f[i]] \in Segment
    BY <1>1, <1>6
  <2> HIDE DEF Is
  <2> QED
    BY <1>3, <2>1
<1>8. Places(f, segs, Sorted(segs))
  <2> HIDE DEF Is
  <2> QED
    BY <1>1, <1>4, <1>5, <1>6 DEF Places
<1> QED
  BY <1>1, <1>7, <1>8

\* No two segments have a common id, and none is empty.
Apart(segs) ==
    /\ \A i \in DOMAIN segs : segs[i].numValues > 0
    /\ \A i, j \in DOMAIN segs : i # j => IdsOf(segs[i]) \cap IdsOf(segs[j]) = {}

\* Sorting keeps the segments, and orders those that are apart.
LEMMA SortedOrdered ==
    ASSUME NEW segs \in Seq(Segment)
    PROVE  /\ Sorted(segs) \in Seq(Segment) /\ Ids(Sorted(segs)) = Ids(segs)
           /\ Apart(segs) => Ordered(Sorted(segs))
<1>1. PICK n \in Nat : n = Len(segs) /\ DOMAIN segs = 1..n /\ \A i \in 1..n : segs[i] \in Segment
  BY LenProperties, ElementOfSeq
<1>p. PICK f : Places(f, segs, Sorted(segs))
  BY SortedPlaces
<1>2. /\ \A i \in 1..n : f[i] \in 1..n
      /\ \A i, j \in 1..n : f[i] = f[j] => i = j
      /\ \A x \in 1..n : \E i \in 1..n : f[i] = x
      /\ \A i, j \in 1..n : i < j => segs[f[i]].startValue <= segs[f[j]].startValue
      /\ \A i \in 1..n : Sorted(segs)[i] = segs[f[i]]
  BY <1>1, <1>p DEF Places
<1>3. PICK t : t = Sorted(segs)
  OBVIOUS
<1>4. \A i \in 1..n : f[i] \in 1..n /\ t[i] = segs[f[i]] /\ t[i] \in Segment
  <2>1. \A i \in 1..n : f[i] \in 1..n
    BY <1>2
  <2>2. \A i \in 1..n : t[i] = segs[f[i]]
    BY <1>2, <1>3
  <2>3. \A j \in 1..n : segs[j] \in Segment
    BY <1>1
  <2> QED
    BY <2>1, <2>2, <2>3
<1>5. t \in Seq(Segment) /\ Len(t) = n /\ DOMAIN t = 1..n
  BY <1>1, <1>3, SortedPlaces, LenProperties
<1>6. Ids(t) = Ids(segs)
  <2>1. \A x : x \in Ids(t) <=> \E i \in 1..n : x \in IdsOf(t[i])
    BY <1>5 DEF Ids
  <2>2. \A x : x \in Ids(segs) <=> \E i \in 1..n : x \in IdsOf(segs[i])
    BY <1>1 DEF Ids
  <2>3. ASSUME NEW x \in Ids(t) PROVE x \in Ids(segs)
    BY <1>4, <2>1, <2>2
  <2>4. ASSUME NEW x \in Ids(segs) PROVE x \in Ids(t)
    <3>1. PICK i \in 1..n : x \in IdsOf(segs[i])
      BY <2>2
    <3>2. PICK j \in 1..n : f[j] = i
      BY <1>2
    <3> QED
      BY <1>4, <2>1, <3>1, <3>2
  <2> QED
    BY <2>3, <2>4
<1>7. ASSUME Apart(segs) PROVE Ordered(t)
  <2>1. ASSUME NEW i \in 1..n PROVE t[i].numValues > 0
    BY <1>1, <1>4, <1>7 DEF Apart
  <2>2. ASSUME NEW i \in 1..(n - 1) PROVE End(t[i]) < t[i + 1].startValue
    <3>1. i \in 1..n /\ i + 1 \in 1..n /\ i < i + 1
      OBVIOUS
    <3>2. t[i].startValue <= t[i + 1].startValue
      <4>1. \A j \in 1..n : i < j => segs[f[i]].startValue <= segs[f[j]].startValue
        BY <1>2, <3>1
      <4>2. segs[f[i]].startValue <= segs[f[i + 1]].startValue
        BY <3>1, <4>1
      <4> QED
        BY <1>4, <3>1, <4>2
    <3>3. IdsOf(t[i]) \cap IdsOf(t[i + 1]) = {}
      <4>1. f[i] # f[i + 1]
        <5>1. \A j \in 1..n : f[i] = f[j] => i = j
          BY <1>2, <3>1
        <5>2. i # i + 1
          OBVIOUS
        <5> QED
          BY <3>1, <5>1, <5>2
      <4>2. IdsOf(segs[f[i]]) \cap IdsOf(segs[f[i + 1]]) = {}
        BY <1>1, <1>4, <1>7, <3>1, <4>1 DEF Apart
      <4> QED
        BY <1>4, <3>1, <4>2
    <3>4. PICK a \in Nat, k \in Nat : a = t[i].startValue /\ k = t[i].numValues
      BY <1>4, <3>1, SegFields
    <3>5. PICK b \in Nat, l \in Nat : b = t[i + 1].startValue /\ l = t[i + 1].numValues
      BY <1>4, <3>1, SegFields
    <3>6. k > 0 /\ l > 0
      BY <2>1, <3>1, <3>4, <3>5
    <3>7. b \notin a..(a + k - 1)
      <4>1. IdsOf(t[i]) = a..(a + k - 1) /\ IdsOf(t[i + 1]) = b..(b + l - 1)
        BY <3>4, <3>5 DEF IdsOf, End
      <4>2. b \in b..(b + l - 1)
        BY <3>6
      <4> QED
        BY <3>3, <4>1, <4>2
    <3>8. a + k - 1 < b
      BY <3>2, <3>4, <3>5, <3>7
    <3> QED
      BY <3>4, <3>5, <3>8 DEF End
  <2> QED
    BY <1>5, <2>1, <2>2 DEF Ordered
<1> QED
  BY <1>3, <1>5, <1>6, <1>7

LEMMA OrderedIsApart ==
    ASSUME NEW segs \in Seq(Segment), Ordered(segs) PROVE Apart(segs)
<1>1. ASSUME NEW i \in DOMAIN segs, NEW j \in DOMAIN segs, i # j
      PROVE  IdsOf(segs[i]) \cap IdsOf(segs[j]) = {}
  <2>1. PICK n \in Nat : n = Len(segs) /\ DOMAIN segs = 1..n
    BY LenProperties
  <2>2. segs[i] \in Segment /\ segs[j] \in Segment
    BY <2>1, ElementOfSeq
  <2>3. PICK a \in Nat, e \in Int : a = segs[i].startValue /\ e = End(segs[i])
    BY <2>2, SegFields
  <2>4. PICK b \in Nat, h \in Int : b = segs[j].startValue /\ h = End(segs[j])
    BY <2>2, SegFields
  <2>5. IdsOf(segs[i]) = a..e /\ IdsOf(segs[j]) = b..h
    BY <2>3, <2>4 DEF IdsOf
  <2>6. e < b \/ h < a
    <3>1. CASE i < j
      BY <2>3, <2>4, <3>1, OrderedApart
    <3>2. CASE j < i
      BY <2>3, <2>4, <3>2, OrderedApart
    <3> QED
      BY <1>1, <2>1, <3>1, <3>2
  <2> QED
    BY <2>5, <2>6
<1> QED
  BY <1>1 DEF Apart, Ordered

\* A segment is added to the list.
LEMMA AddType ==
    ASSUME NEW segs \in Seq(Segment), NEW a \in Nat, NEW k \in Nat
    PROVE  AddRecycleSegment(segs, a, k) \in Seq(Segment)
<1>1. Append(segs, Seg(a, k)) \in Seq(Segment)
  BY SegType
<1> QED
  BY <1>1, SortedOrdered, JoinedType DEF AddRecycleSegment

\* A segment is added to the list: its ids are then in it, and it stays sorted,
\* joined and without empty segments.
THEOREM AddCanonical ==
    ASSUME NEW segs \in Seq(Segment), Canonical(segs), NEW a \in Nat, NEW k \in Nat, k > 0,
           (a..(a + k - 1)) \cap Ids(segs) = {}
    PROVE  /\ Canonical(AddRecycleSegment(segs, a, k))
           /\ Ids(AddRecycleSegment(segs, a, k)) = Ids(segs) \cup a..(a + k - 1)
<1>1. PICK s : s = Seg(a, k)
  OBVIOUS
<1>2. s \in Segment /\ s.numValues = k /\ IdsOf(s) = a..(a + k - 1)
  BY <1>1, SegType DEF IdsOf, End
<1>3. PICK n \in Nat : n = Len(segs) /\ DOMAIN segs = 1..n
  BY LenProperties
<1>4. PICK t : t = Append(segs, s)
  OBVIOUS
<1>5. /\ t \in Seq(Segment) /\ DOMAIN t = 1..(n + 1) /\ t[n + 1] = s
      /\ \A i \in 1..n : t[i] = segs[i]
  BY <1>2, <1>3, <1>4
<1>6. Apart(segs)
  BY CanonicalOrdered, OrderedIsApart
<1>7. \A i \in 1..(n + 1) : i \in 1..n \/ i = n + 1
  OBVIOUS
<1>8. \A i \in 1..n : IdsOf(segs[i]) \subseteq Ids(segs)
  BY <1>3 DEF Ids
<1>9. Apart(t)
  <2>1. ASSUME NEW i \in 1..(n + 1) PROVE t[i].numValues > 0
    <3>1. \A m \in 1..n : segs[m].numValues > 0
      BY <1>3, <1>6 DEF Apart
    <3> QED
      BY <1>2, <1>5, <1>7, <3>1
  <2>2. ASSUME NEW i \in 1..(n + 1), NEW j \in 1..(n + 1), i # j
        PROVE  IdsOf(t[i]) \cap IdsOf(t[j]) = {}
    <3>1. CASE i \in 1..n /\ j \in 1..n
      BY <1>3, <1>5, <1>6, <2>2, <3>1 DEF Apart
    <3>2. CASE i = n + 1 /\ j \in 1..n
      BY <1>2, <1>5, <1>8, <3>2
    <3>3. CASE j = n + 1 /\ i \in 1..n
      BY <1>2, <1>5, <1>8, <3>3
    <3> QED
      BY <1>7, <2>2, <3>1, <3>2, <3>3
  <2> QED
    BY <1>5, <2>1, <2>2 DEF Apart
<1>10. Ids(t) = Ids(segs) \cup a..(a + k - 1)
  <2>1. \A x : x \in Ids(t) <=> \E i \in 1..(n + 1) : x \in IdsOf(t[i])
    BY <1>5 DEF Ids
  <2>2. \A x : x \in Ids(segs) <=> \E i \in 1..n : x \in IdsOf(segs[i])
    BY <1>3 DEF Ids
  <2>3. n + 1 \in 1..(n + 1) /\ \A i \in 1..n : i \in 1..(n + 1)
    OBVIOUS
  <2>4. ASSUME NEW x \in Ids(t) PROVE x \in Ids(segs) \cup a..(a + k - 1)
    BY <1>2, <1>5, <1>7, <2>1, <2>2
  <2>5. ASSUME NEW x \in Ids(segs) \cup a..(a + k - 1) PROVE x \in Ids(t)
    BY <1>2, <1>5, <2>1, <2>2, <2>3
  <2> QED
    BY <2>4, <2>5
<1>11. Sorted(t) \in Seq(Segment) /\ Ids(Sorted(t)) = Ids(t) /\ Ordered(Sorted(t))
  BY <1>5, <1>9, SortedOrdered
<1>12. AddRecycleSegment(segs, a, k) = Joined(Sorted(t))
  BY <1>1, <1>4 DEF AddRecycleSegment
<1> QED
  BY <1>10, <1>11, <1>12, JoinedCanonical

-----------------------------------------------------------------------------
(* The runs of an array *)

\* Runs is a fold of this operation.
Grow(runs, id) ==
    IF runs # <<>> /\ End(Last(runs)) + 1 = id
    THEN Append(Front(runs), Seg(Last(runs).startValue, Last(runs).numValues + 1))
    ELSE Append(runs, Seg(id, 1))

LEMMA GrowType == ASSUME NEW runs \in Seq(Segment), NEW id \in Nat
                  PROVE  Grow(runs, id) \in Seq(Segment)
<1>1. CASE runs # <<>> /\ End(Last(runs)) + 1 = id
  <2>1. PICK n \in Nat \ {0} : n = Len(runs) /\ \A i \in 1..n : runs[i] \in Segment
    BY <1>1, EmptySeq, ElementOfSeq
  <2>2. Front(runs) \in Seq(Segment)
    <3>1. \A i \in 1..(n - 1) : runs[i] \in Segment
      BY <2>1
    <3> QED
      BY <2>1, <3>1, SubSeqProperties DEF Front
  <2>3. Last(runs) \in Segment
    BY <2>1 DEF Last
  <2>4. Last(runs).startValue \in Nat /\ Last(runs).numValues + 1 \in Nat
    BY <2>3, SegFields
  <2>5. Seg(Last(runs).startValue, Last(runs).numValues + 1) \in Segment
    BY <2>4, SegType
  <2> QED
    BY <1>1, <2>2, <2>5 DEF Grow
<1>2. CASE ~(runs # <<>> /\ End(Last(runs)) + 1 = id)
  <2>1. Seg(id, 1) \in Segment
    BY SegType
  <2> QED
    BY <1>2, <2>1 DEF Grow
<1> QED
  BY <1>1, <1>2

LEMMA RunsSteps ==
    ASSUME NEW ids \in Seq(Nat)
    PROVE  \E g : /\ g[0] = <<>>
                  /\ \A i \in 1..Len(ids) : g[i] = Grow(g[i - 1], ids[i])
                  /\ Runs(ids) = g[Len(ids)]
<1>1. PICK n \in Nat : n = Len(ids) /\ DOMAIN ids = 1..n /\ \A i \in 1..n : ids[i] \in Nat
  BY LenProperties, ElementOfSeq
<1> DEFINE A == Seq(Segment)
           D == [x \in A \X (1..n) |-> Grow(x[1], ids[x[2]])]
           Is(c) == c = [s \in SUBSET (1..n) |->
                         IF s = {} THEN <<>> ELSE Grow(c[s \ {Max(s)}], ids[Max(s)])]
<1>2. StepOf(D, A, n) /\ <<>> \in A
  <2>1. \A x \in A \X (1..n) : Grow(x[1], ids[x[2]]) \in A
    BY <1>1, GrowType
  <2> QED
    BY <2>1 DEF StepOf
<1>3. PICK it \in [SUBSET (1..n) -> A] : IsLeft(it, n, <<>>, D)
  <2> HIDE DEF A, D
  <2> QED
    BY <1>2, LeftIter
<1>4. Is(it)
  <2>1. ASSUME NEW s \in SUBSET (1..n), s # {}
        PROVE  D[<<it[s \ {Max(s)}], Max(s)>>] = Grow(it[s \ {Max(s)}], ids[Max(s)])
    <3>1. Max(s) \in s
      BY <2>1, GreatestIn
    <3>2. it[s \ {Max(s)}] \in A /\ Max(s) \in 1..n
      BY <3>1
    <3> HIDE DEF A
    <3> QED
      BY <3>2
  <2>2. it = [s \in SUBSET (1..n) |-> it[s]]
    BY <1>3
  <2> HIDE DEF D, A
  <2> QED
    BY <1>3, <2>1, <2>2 DEF IsLeft
<1>5. PICK c : Is(c) /\ Runs(ids) = c[1..n]
  <2>1. Runs(ids) = (CHOOSE c : Is(c))[1..n]
    BY <1>1 DEF Runs, FoldLeft, MapThenFoldSet, Grow
  <2> HIDE DEF Is
  <2>2. Is(CHOOSE c : Is(c))
    BY <1>4
  <2> QED
    BY <2>1, <2>2
<1> DEFINE g == [i \in 0..n |-> c[1..i]]
<1>6. g[0] = <<>>
  <2>1. 1..0 = {} /\ {} \in SUBSET (1..n) /\ 0 \in 0..n
    OBVIOUS
  <2>2. c[{}] = <<>>
    BY <1>5
  <2> QED
    BY <2>1, <2>2
<1>7. ASSUME NEW i \in 1..n PROVE g[i] = Grow(g[i - 1], ids[i])
  <2>1. 1..i \in SUBSET (1..n) /\ i \in 1..i
    OBVIOUS
  <2>2. (1..i) \ {i} = 1..(i - 1)
    OBVIOUS
  <2>3. Max(1..i) = i
    <3>1. 1..i \in SUBSET Int /\ \A x \in 1..i : x <= i
      OBVIOUS
    <3> QED
      BY <2>1, <3>1, MaxIs
  <2>4. 1..i # {}
    BY <2>1
  <2>5. c[1..i] = Grow(c[1..(i - 1)], ids[i])
    BY <1>5, <2>1, <2>2, <2>3, <2>4
  <2>6. g[i] = c[1..i] /\ g[i - 1] = c[1..(i - 1)]
    BY <1>1
  <2> QED
    BY <2>5, <2>6
<1>8. g[n] = c[1..n]
  BY <1>1
<1> HIDE DEF g
<1> QED
  BY <1>1, <1>5, <1>6, <1>7, <1>8

\* recycleIds is a fold of this operation.
AddSeg(done, s) == AddRecycleSegment(done, s.startValue, s.numValues)

LEMMA AddSegType == ASSUME NEW done \in Seq(Segment), NEW s \in Segment
                    PROVE  AddSeg(done, s) \in Seq(Segment)
BY SegFields, AddType DEF AddSeg

\* g has the lists in which recycleIds adds the runs, one after the other.
RecycleLists(g, segs, ids, runs) ==
    /\ g[0] = segs
    /\ \A i \in 1..Len(runs) : g[i] = AddSeg(g[i - 1], runs[i])
    /\ RecycleIds(segs, ids) = g[Len(runs)]

LEMMA RecycleSteps ==
    ASSUME NEW segs \in Seq(Segment), NEW ids, NEW runs \in Seq(Segment), runs = Runs(ids)
    PROVE  \E g : RecycleLists(g, segs, ids, runs)
<1>1. PICK n \in Nat : n = Len(runs) /\ DOMAIN runs = 1..n /\ \A i \in 1..n : runs[i] \in Segment
  BY LenProperties, ElementOfSeq
<1> DEFINE A == Seq(Segment)
           D == [x \in A \X (1..n) |-> AddSeg(x[1], runs[x[2]])]
           Is(c) == c = [s \in SUBSET (1..n) |->
                         IF s = {} THEN segs ELSE AddSeg(c[s \ {Max(s)}], runs[Max(s)])]
<1>2. StepOf(D, A, n) /\ segs \in A
  <2>1. \A x \in A \X (1..n) : AddSeg(x[1], runs[x[2]]) \in A
    BY <1>1, AddSegType
  <2> QED
    BY <2>1 DEF StepOf
<1>3. PICK it \in [SUBSET (1..n) -> A] : IsLeft(it, n, segs, D)
  <2> HIDE DEF A, D
  <2> QED
    BY <1>2, LeftIter
<1>4. Is(it)
  <2>1. ASSUME NEW s \in SUBSET (1..n), s # {}
        PROVE  D[<<it[s \ {Max(s)}], Max(s)>>] = AddSeg(it[s \ {Max(s)}], runs[Max(s)])
    <3>1. Max(s) \in s
      BY <2>1, GreatestIn
    <3>2. it[s \ {Max(s)}] \in A /\ Max(s) \in 1..n
      BY <3>1
    <3> HIDE DEF A
    <3> QED
      BY <3>2
  <2>2. it = [s \in SUBSET (1..n) |-> it[s]]
    BY <1>3
  <2> HIDE DEF D, A
  <2> QED
    BY <1>3, <2>1, <2>2 DEF IsLeft
<1>5. PICK c : Is(c) /\ RecycleIds(segs, ids) = c[1..n]
  <2>1. RecycleIds(segs, ids) = (CHOOSE c : Is(c))[1..n]
    BY <1>1 DEF RecycleIds, FoldLeft, MapThenFoldSet, AddSeg
  <2> HIDE DEF Is
  <2>2. Is(CHOOSE c : Is(c))
    BY <1>4
  <2> QED
    BY <2>1, <2>2
<1> DEFINE g == [i \in 0..n |-> c[1..i]]
<1>6. g[0] = segs
  <2>1. 1..0 = {} /\ {} \in SUBSET (1..n) /\ 0 \in 0..n
    OBVIOUS
  <2>2. c[{}] = segs
    BY <1>5
  <2> QED
    BY <2>1, <2>2
<1>7. ASSUME NEW i \in 1..n PROVE g[i] = AddSeg(g[i - 1], runs[i])
  <2>1. 1..i \in SUBSET (1..n) /\ i \in 1..i
    OBVIOUS
  <2>2. (1..i) \ {i} = 1..(i - 1)
    OBVIOUS
  <2>3. Max(1..i) = i
    <3>1. 1..i \in SUBSET Int /\ \A x \in 1..i : x <= i
      OBVIOUS
    <3> QED
      BY <2>1, <3>1, MaxIs
  <2>4. 1..i # {}
    BY <2>1
  <2>5. c[1..i] = AddSeg(c[1..(i - 1)], runs[i])
    BY <1>5, <2>1, <2>2, <2>3, <2>4
  <2>6. g[i] = c[1..i] /\ g[i - 1] = c[1..(i - 1)]
    BY <1>1
  <2> QED
    BY <2>5, <2>6
<1>8. g[n] = c[1..n]
  BY <1>1
<1> HIDE DEF g
<1> QED
  BY <1>1, <1>5, <1>6, <1>7, <1>8 DEF RecycleLists

LEMMA RunsType == ASSUME NEW ids \in Seq(Nat) PROVE Runs(ids) \in Seq(Segment)
<1>1. PICK n \in Nat : n = Len(ids) /\ \A i \in 1..n : ids[i] \in Nat
  BY LenProperties, ElementOfSeq
<1>2. PICK g : g[0] = <<>> /\ (\A i \in 1..n : g[i] = Grow(g[i - 1], ids[i])) /\ Runs(ids) = g[n]
  BY <1>1, RunsSteps
<1> DEFINE T == {i \in 0..n : g[i] \in Seq(Segment)}
<1>3. 0 \in T
  <2>1. <<>> \in Seq(Segment) /\ 0 \in 0..n
    OBVIOUS
  <2> QED
    BY <1>2, <2>1
<1>4. ASSUME NEW i \in 0..n, i \in T, i < n PROVE i + 1 \in T
  <2>1. i + 1 \in 1..n /\ (i + 1) - 1 = i
    BY <1>4
  <2>2. g[i + 1] = Grow(g[i], ids[i + 1])
    BY <1>2, <2>1
  <2>3. g[i + 1] \in Seq(Segment)
    BY <1>1, <1>4, <2>1, <2>2, GrowType
  <2> QED
    BY <2>1, <2>3
<1> HIDE DEF T
<1>5. n \in T
  <2>1. \A i \in 0..n : i \in T
    BY <1>3, <1>4, UpTo
  <2> QED
    BY <2>1
<1> QED
  BY <1>2, <1>5 DEF T

LEMMA RecycleType ==
    ASSUME NEW segs \in Seq(Segment), NEW ids \in Seq(Nat)
    PROVE  RecycleIds(segs, ids) \in Seq(Segment)
<1>0. PICK runs \in Seq(Segment) : runs = Runs(ids)
  BY RunsType
<1>1. PICK n \in Nat : n = Len(runs) /\ \A i \in 1..n : runs[i] \in Segment
  BY LenProperties, ElementOfSeq
<1>2. PICK g : g[0] = segs /\ (\A i \in 1..n : g[i] = AddSeg(g[i - 1], runs[i]))
               /\ RecycleIds(segs, ids) = g[n]
  <2>1. PICK g : RecycleLists(g, segs, ids, runs)
    BY <1>0, RecycleSteps
  <2> QED
    BY <1>1, <2>1 DEF RecycleLists
<1> DEFINE T == {i \in 0..n : g[i] \in Seq(Segment)}
<1>3. 0 \in T
  BY <1>2
<1>4. ASSUME NEW i \in 0..n, i \in T, i < n PROVE i + 1 \in T
  <2>1. i + 1 \in 1..n /\ (i + 1) - 1 = i
    BY <1>4
  <2>2. g[i + 1] = AddSeg(g[i], runs[i + 1])
    BY <1>2, <2>1
  <2>3. g[i + 1] \in Seq(Segment)
    BY <1>1, <1>4, <2>1, <2>2, AddSegType
  <2> QED
    BY <2>1, <2>3
<1> HIDE DEF T
<1>5. n \in T
  <2>1. \A i \in 0..n : i \in T
    BY <1>3, <1>4, UpTo
  <2> QED
    BY <2>1
<1> QED
  BY <1>2, <1>5 DEF T

\* A segment at the end of a list.
LEMMA AppendIds ==
    ASSUME NEW segs \in Seq(Segment), NEW s \in Segment
    PROVE  Ids(Append(segs, s)) = Ids(segs) \cup IdsOf(s)
<1>1. PICK n \in Nat, t \in Seq(Segment) : n = Len(segs) /\ t = Append(segs, s)
  BY LenProperties, Append(segs, s) \in Seq(Segment)
<1>2. DOMAIN segs = 1..n /\ DOMAIN t = 1..(n + 1) /\ t[n + 1] = s /\ \A i \in 1..n : t[i] = segs[i]
  BY <1>1
<1>3. \A x : x \in Ids(t) <=> \E i \in 1..(n + 1) : x \in IdsOf(t[i])
  BY <1>2 DEF Ids
<1>4. \A x : x \in Ids(segs) <=> \E i \in 1..n : x \in IdsOf(segs[i])
  BY <1>2 DEF Ids
<1>5. n + 1 \in 1..(n + 1) /\ (\A i \in 1..n : i \in 1..(n + 1))
      /\ \A i \in 1..(n + 1) : i \in 1..n \/ i = n + 1
  OBVIOUS
<1>6. ASSUME NEW x \in Ids(t) PROVE x \in Ids(segs) \cup IdsOf(s)
  BY <1>2, <1>3, <1>4, <1>5
<1>7. ASSUME NEW x \in Ids(segs) \cup IdsOf(s) PROVE x \in Ids(t)
  BY <1>2, <1>3, <1>4, <1>5
<1> QED
  BY <1>1, <1>6, <1>7

LEMMA AppendCanonical ==
    ASSUME NEW segs \in Seq(Segment), Canonical(segs), NEW s \in Segment, s.numValues > 0,
           segs # <<>> => End(Last(segs)) + 1 < s.startValue
    PROVE  Canonical(Append(segs, s))
<1>1. PICK n \in Nat, t \in Seq(Segment) : n = Len(segs) /\ t = Append(segs, s)
  BY LenProperties, Append(segs, s) \in Seq(Segment)
<1>2. /\ DOMAIN segs = 1..n /\ DOMAIN t = 1..(n + 1) /\ Len(t) = n + 1
      /\ t[n + 1] = s /\ \A i \in 1..n : t[i] = segs[i]
  BY <1>1
<1>3. ASSUME NEW i \in 1..(n + 1) PROVE t[i].numValues > 0
  <2>1. CASE i \in 1..n
    BY <1>2, <2>1 DEF Canonical
  <2>2. CASE i = n + 1
    BY <1>2, <2>2
  <2> QED
    BY <2>1, <2>2
<1>4. ASSUME NEW i \in 1..(n + 1 - 1) PROVE End(t[i]) + 1 < t[i + 1].startValue
  <2>1. CASE i = n
    <3>1. segs # <<>> /\ Last(segs) = segs[n]
      BY <1>1, <2>1 DEF Last
    <3>2. t[i] = segs[n] /\ t[i + 1] = s
      BY <1>2, <2>1
    <3> QED
      BY <3>1, <3>2
  <2>2. CASE i # n
    <3>1. i \in 1..(n - 1) /\ i \in 1..n /\ i + 1 \in 1..n
      BY <2>2
    <3>2. End(segs[i]) + 1 < segs[i + 1].startValue
      BY <1>1, <3>1 DEF Canonical
    <3> QED
      BY <1>2, <3>1, <3>2
  <2> QED
    BY <2>1, <2>2
<1> QED
  BY <1>1, <1>2, <1>3, <1>4 DEF Canonical

LEMMA AppendApart ==
    ASSUME NEW segs \in Seq(Segment), Apart(segs), NEW s \in Segment, s.numValues > 0,
           IdsOf(s) \cap Ids(segs) = {}
    PROVE  Apart(Append(segs, s))
<1>1. PICK n \in Nat, t \in Seq(Segment) : n = Len(segs) /\ t = Append(segs, s)
  BY LenProperties, Append(segs, s) \in Seq(Segment)
<1>2. /\ DOMAIN segs = 1..n /\ DOMAIN t = 1..(n + 1) /\ Len(t) = n + 1
      /\ t[n + 1] = s /\ \A i \in 1..n : t[i] = segs[i]
  BY <1>1
<1>3. \A i \in 1..(n + 1) : i \in 1..n \/ i = n + 1
  OBVIOUS
<1>4. \A i \in 1..n : IdsOf(segs[i]) \subseteq Ids(segs) /\ segs[i].numValues > 0
  BY <1>2 DEF Ids, Apart
<1>5. ASSUME NEW i \in 1..(n + 1) PROVE t[i].numValues > 0
  BY <1>2, <1>3, <1>4
<1>6. ASSUME NEW i \in 1..(n + 1), NEW j \in 1..(n + 1), i # j
      PROVE  IdsOf(t[i]) \cap IdsOf(t[j]) = {}
  <2>1. CASE i \in 1..n /\ j \in 1..n
    BY <1>2, <1>6, <2>1 DEF Apart
  <2>2. CASE i = n + 1 /\ j \in 1..n
    BY <1>2, <1>4, <2>2
  <2>3. CASE j = n + 1 /\ i \in 1..n
    BY <1>2, <1>4, <2>3
  <2> QED
    BY <1>3, <1>6, <2>1, <2>2, <2>3
<1> QED
  BY <1>1, <1>2, <1>5, <1>6 DEF Apart

LEMMA FrontApart ==
    ASSUME NEW runs \in Seq(Segment), runs # <<>>, Apart(runs)
    PROVE  /\ Front(runs) \in Seq(Segment) /\ Apart(Front(runs)) /\ Last(runs) \in Segment
           /\ Ids(runs) = Ids(Front(runs)) \cup IdsOf(Last(runs))
           /\ Ids(Front(runs)) \cap IdsOf(Last(runs)) = {} /\ Last(runs).numValues > 0
<1>1. PICK n \in Nat \ {0} : n = Len(runs) /\ DOMAIN runs = 1..n /\ \A i \in 1..n : runs[i] \in Segment
  BY EmptySeq, LenProperties, ElementOfSeq
<1>2. PICK t, s : t = Front(runs) /\ s = Last(runs)
  OBVIOUS
<1>3. /\ t \in Seq(Segment) /\ Len(t) = n - 1 /\ DOMAIN t = 1..(n - 1)
      /\ \A i \in 1..(n - 1) : t[i] = runs[i]
  <2>1. \A i \in 1..(n - 1) : runs[i] \in Segment
    BY <1>1
  <2>2. t = SubSeq(runs, 1, n - 1)
    BY <1>1, <1>2 DEF Front
  <2>3. /\ t \in Seq(Segment) /\ Len(t) = IF 1 <= n - 1 THEN n - 1 - 1 + 1 ELSE 0
        /\ \A i \in 1..(n - 1 - 1 + 1) : t[i] = runs[1 + i - 1]
    <3>1. 1 \in Int /\ n - 1 \in Int
      OBVIOUS
    <3> QED
      BY <2>1, <2>2, <3>1, SubSeqProperties
  <2>4. Len(t) = n - 1 /\ DOMAIN t = 1..(n - 1)
    BY <2>3, LenProperties
  <2>5. ASSUME NEW i \in 1..(n - 1) PROVE t[i] = runs[i]
    <3>1. i \in 1..(n - 1 - 1 + 1) /\ 1 + i - 1 = i
      OBVIOUS
    <3> QED
      BY <2>3, <3>1
  <2> QED
    BY <2>3, <2>4, <2>5
<1>4. s = runs[n] /\ s \in Segment
  BY <1>1, <1>2 DEF Last
<1>5. \A i \in 1..n : i \in 1..(n - 1) \/ i = n
  OBVIOUS
<1>6. n \in 1..n /\ \A i \in 1..(n - 1) : i \in 1..n /\ i # n
  OBVIOUS
<1>7. \A i, j \in 1..n : i # j => IdsOf(runs[i]) \cap IdsOf(runs[j]) = {}
  BY <1>1 DEF Apart
<1>8. \A i \in 1..n : runs[i].numValues > 0
  BY <1>1 DEF Apart
<1>9. Apart(t)
  BY <1>3, <1>6, <1>7, <1>8 DEF Apart
<1>10. \A x : x \in Ids(t) <=> \E i \in 1..(n - 1) : x \in IdsOf(runs[i])
  BY <1>3 DEF Ids
<1>11. \A x : x \in Ids(runs) <=> \E i \in 1..n : x \in IdsOf(runs[i])
  BY <1>1 DEF Ids
<1>12. Ids(runs) = Ids(t) \cup IdsOf(s)
  <2>1. ASSUME NEW x \in Ids(runs) PROVE x \in Ids(t) \cup IdsOf(s)
    BY <1>4, <1>5, <1>10, <1>11
  <2>2. ASSUME NEW x \in Ids(t) \cup IdsOf(s) PROVE x \in Ids(runs)
    BY <1>4, <1>6, <1>10, <1>11
  <2> QED
    BY <2>1, <2>2
<1>13. Ids(t) \cap IdsOf(s) = {}
  <2>1. ASSUME NEW i \in 1..(n - 1) PROVE IdsOf(runs[i]) \cap IdsOf(s) = {}
    BY <1>4, <1>6, <1>7
  <2> QED
    BY <1>10, <2>1
<1>14. s.numValues > 0
  BY <1>4, <1>6, <1>8
<1> QED
  BY <1>2, <1>3, <1>4, <1>9, <1>12, <1>13, <1>14

\* An id of the array goes on with the last run or starts one.
LEMMA GrowApart ==
    ASSUME NEW runs \in Seq(Segment), Apart(runs), NEW id \in Nat, id \notin Ids(runs)
    PROVE  Apart(Grow(runs, id)) /\ Ids(Grow(runs, id)) = Ids(runs) \cup {id}
<1>1. CASE runs # <<>> /\ End(Last(runs)) + 1 = id
  <2>1. /\ Front(runs) \in Seq(Segment) /\ Apart(Front(runs)) /\ Last(runs) \in Segment
        /\ Ids(runs) = Ids(Front(runs)) \cup IdsOf(Last(runs))
        /\ Ids(Front(runs)) \cap IdsOf(Last(runs)) = {} /\ Last(runs).numValues > 0
    BY <1>1, FrontApart
  <2>2. PICK a \in Nat, k \in Nat : a = Last(runs).startValue /\ k = Last(runs).numValues
    BY <2>1, SegFields
  <2>3. PICK s : s = Seg(a, k + 1)
    OBVIOUS
  <2>4. s \in Segment /\ s.startValue = a /\ s.numValues = k + 1
    <3>1. k + 1 \in Nat
      OBVIOUS
    <3> QED
      BY <2>3, <3>1, SegType
  <2>5. IdsOf(s) = IdsOf(Last(runs)) \cup {id}
    <3>1. IdsOf(s) = a..(a + (k + 1) - 1)
      BY <2>4 DEF IdsOf, End
    <3>2. IdsOf(Last(runs)) = a..(a + k - 1) /\ id = a + k
      BY <1>1, <2>2 DEF IdsOf, End
    <3>3. a..(a + (k + 1) - 1) = (a..(a + k - 1)) \cup {a + k}
      OBVIOUS
    <3> QED
      BY <3>1, <3>2, <3>3
  <2>6. s.numValues > 0
    BY <2>4
  <2>7. IdsOf(s) \cap Ids(Front(runs)) = {}
    BY <2>1, <2>5
  <2>8. Grow(runs, id) = Append(Front(runs), s)
    BY <1>1, <2>2, <2>3 DEF Grow
  <2>9. Apart(Append(Front(runs), s)) /\ Ids(Append(Front(runs), s)) = Ids(Front(runs)) \cup IdsOf(s)
    BY <2>1, <2>4, <2>6, <2>7, AppendApart, AppendIds
  <2> QED
    BY <2>1, <2>5, <2>8, <2>9
<1>2. CASE ~(runs # <<>> /\ End(Last(runs)) + 1 = id)
  <2>1. PICK s : s = Seg(id, 1)
    OBVIOUS
  <2>2. s \in Segment /\ s.startValue = id /\ s.numValues = 1
    BY <2>1, SegType
  <2>3. IdsOf(s) = {id}
    <3>1. IdsOf(s) = id..(id + 1 - 1)
      BY <2>2 DEF IdsOf, End
    <3>2. id..(id + 1 - 1) = {id}
      OBVIOUS
    <3> QED
      BY <3>1, <3>2
  <2>4. Grow(runs, id) = Append(runs, s)
    BY <1>2, <2>1 DEF Grow
  <2>5. s.numValues > 0 /\ IdsOf(s) \cap Ids(runs) = {}
    BY <2>2, <2>3
  <2> QED
    BY <2>2, <2>3, <2>4, <2>5, AppendApart, AppendIds
<1> QED
  BY <1>1, <1>2

\* The runs of an array without repetitions are apart and have its ids.
LEMMA RunsApart ==
    ASSUME NEW ids \in Seq(Nat), \A i, j \in DOMAIN ids : ids[i] = ids[j] => i = j
    PROVE  Apart(Runs(ids)) /\ Ids(Runs(ids)) = ToSet(ids)
<1>1. PICK n \in Nat : n = Len(ids) /\ DOMAIN ids = 1..n /\ \A i \in 1..n : ids[i] \in Nat
  BY LenProperties, ElementOfSeq
<1>2. PICK g : g[0] = <<>> /\ (\A i \in 1..n : g[i] = Grow(g[i - 1], ids[i])) /\ Runs(ids) = g[n]
  BY <1>1, RunsSteps
<1> DEFINE Good(i) == /\ g[i] \in Seq(Segment) /\ Apart(g[i])
                      /\ Ids(g[i]) = {ids[j] : j \in 1..i}
           T == {i \in 0..n : Good(i)}
<1>3. 0 \in T
  <2>1. <<>> \in Seq(Segment) /\ 0 \in 0..n /\ Apart(<<>>) /\ Ids(<<>>) = {}
    BY DEF Apart, Ids
  <2>2. {ids[j] : j \in 1..0} = {}
    OBVIOUS
  <2> QED
    BY <1>2, <2>1, <2>2
<1>4. ASSUME NEW i \in 0..n, i \in T, i < n PROVE i + 1 \in T
  <2>1. i + 1 \in 1..n /\ (i + 1) - 1 = i /\ i + 1 \in 0..n
    BY <1>4
  <2>2. g[i + 1] = Grow(g[i], ids[i + 1])
    BY <1>2, <2>1
  <2>3. g[i] \in Seq(Segment) /\ Apart(g[i]) /\ Ids(g[i]) = {ids[j] : j \in 1..i}
    BY <1>4
  <2>4. ids[i + 1] \in Nat
    BY <1>1, <2>1
  <2>5. ids[i + 1] \notin Ids(g[i])
    <3>1. SUFFICES ASSUME NEW j \in 1..i PROVE ids[j] # ids[i + 1]
      BY <2>3
    <3>2. j \in 1..n /\ j # i + 1
      BY <2>1
    <3>3. \A m \in 1..n : ids[j] = ids[m] => j = m
      BY <1>1, <3>2
    <3> QED
      BY <2>1, <3>2, <3>3
  <2>6. g[i + 1] \in Seq(Segment) /\ Apart(g[i + 1]) /\ Ids(g[i + 1]) = Ids(g[i]) \cup {ids[i + 1]}
    <3>1. PICK d \in Seq(Segment), id \in Nat : d = g[i] /\ id = ids[i + 1]
      BY <2>3, <2>4
    <3>2. Apart(d) /\ id \notin Ids(d)
      BY <2>3, <2>5, <3>1
    <3>3. Apart(Grow(d, id)) /\ Ids(Grow(d, id)) = Ids(d) \cup {id}
      BY <3>2, GrowApart
    <3>4. Grow(d, id) \in Seq(Segment)
      BY GrowType
    <3> QED
      BY <2>2, <3>1, <3>3, <3>4
  <2>7. Ids(g[i + 1]) = {ids[j] : j \in 1..(i + 1)}
    <3>1. \A j : j \in 1..(i + 1) <=> j \in 1..i \/ j = i + 1
      BY <2>1
    <3> QED
      BY <2>3, <2>6, <3>1
  <2>8. Good(i + 1)
    BY <2>6, <2>7
  <2> HIDE DEF Good
  <2> QED
    BY <2>1, <2>8
<1> HIDE DEF T
<1>5. n \in T
  <2>1. \A i \in 0..n : i \in T
    BY <1>3, <1>4, UpTo
  <2> QED
    BY <2>1
<1>6. Good(n)
  BY <1>5 DEF T
<1> QED
  BY <1>1, <1>2, <1>6 DEF ToSet

\* Ids that are given back are in the list, which stays as it should be.
THEOREM RecycleCanonical ==
    ASSUME NEW segs \in Seq(Segment), Canonical(segs), NEW ids \in Seq(Nat),
           \A i, j \in DOMAIN ids : ids[i] = ids[j] => i = j, ToSet(ids) \cap Ids(segs) = {}
    PROVE  /\ Canonical(RecycleIds(segs, ids))
           /\ Ids(RecycleIds(segs, ids)) = Ids(segs) \cup ToSet(ids)
<1>0. PICK runs \in Seq(Segment) : runs = Runs(ids)
  BY RunsType
<1>1. PICK n \in Nat : n = Len(runs) /\ DOMAIN runs = 1..n /\ \A i \in 1..n : runs[i] \in Segment
  BY LenProperties, ElementOfSeq
<1>2. PICK g : g[0] = segs /\ (\A i \in 1..n : g[i] = AddSeg(g[i - 1], runs[i]))
               /\ RecycleIds(segs, ids) = g[n]
  <2>1. PICK g : RecycleLists(g, segs, ids, runs)
    BY <1>0, RecycleSteps
  <2> QED
    BY <1>1, <2>1 DEF RecycleLists
<1>r. Apart(runs) /\ Ids(runs) = ToSet(ids)
  BY <1>0, RunsApart
<1>s. \A i \in 1..n : IdsOf(runs[i]) \subseteq ToSet(ids)
  BY <1>1, <1>r DEF Ids
<1> DEFINE Good(i) == /\ g[i] \in Seq(Segment) /\ Canonical(g[i])
                      /\ Ids(g[i]) = Ids(segs) \cup UNION {IdsOf(runs[j]) : j \in 1..i}
           T == {i \in 0..n : Good(i)}
<1>3. 0 \in T
  <2>1. UNION {IdsOf(runs[j]) : j \in 1..0} = {} /\ 0 \in 0..n
    OBVIOUS
  <2> QED
    BY <1>2, <2>1
<1>4. ASSUME NEW i \in 0..n, i \in T, i < n PROVE i + 1 \in T
  <2>1. i + 1 \in 1..n /\ (i + 1) - 1 = i /\ i + 1 \in 0..n
    BY <1>4
  <2>2. g[i + 1] = AddSeg(g[i], runs[i + 1])
    BY <1>2, <2>1
  <2>3. /\ g[i] \in Seq(Segment) /\ Canonical(g[i])
        /\ Ids(g[i]) = Ids(segs) \cup UNION {IdsOf(runs[j]) : j \in 1..i}
    BY <1>4
  <2>4. PICK s \in Segment : s = runs[i + 1]
    BY <1>1, <2>1
  <2>5. PICK a \in Nat, k \in Nat : a = s.startValue /\ k = s.numValues
    BY SegFields
  <2>6. k > 0 /\ IdsOf(s) = a..(a + k - 1)
    BY <1>1, <1>r, <2>1, <2>4, <2>5 DEF Apart, IdsOf, End
  <2>7. IdsOf(s) \cap Ids(g[i]) = {}
    <3>1. IdsOf(s) \cap Ids(segs) = {}
      BY <1>s, <2>1, <2>4
    <3>2. ASSUME NEW j \in 1..i PROVE IdsOf(s) \cap IdsOf(runs[j]) = {}
      <4>1. j \in 1..n /\ j # i + 1
        BY <2>1
      <4> QED
        BY <1>1, <1>r, <2>1, <2>4, <4>1 DEF Apart
    <3> QED
      BY <2>3, <3>1, <3>2
  <2>8. /\ g[i + 1] = AddRecycleSegment(g[i], a, k)
    BY <2>2, <2>4, <2>5 DEF AddSeg
  <2>9. /\ g[i + 1] \in Seq(Segment) /\ Canonical(g[i + 1])
        /\ Ids(g[i + 1]) = Ids(g[i]) \cup IdsOf(s)
    <3>1. PICK d \in Seq(Segment) : d = g[i]
      BY <2>3
    <3>2. Canonical(d) /\ (a..(a + k - 1)) \cap Ids(d) = {} /\ k > 0
      BY <2>3, <2>6, <2>7, <3>1
    <3>3. /\ Canonical(AddRecycleSegment(d, a, k))
          /\ Ids(AddRecycleSegment(d, a, k)) = Ids(d) \cup a..(a + k - 1)
      BY <3>2, AddCanonical
    <3>4. AddRecycleSegment(d, a, k) \in Seq(Segment)
      BY AddType
    <3> QED
      BY <2>6, <2>8, <3>1, <3>3, <3>4
  <2>10. Ids(g[i + 1]) = Ids(segs) \cup UNION {IdsOf(runs[j]) : j \in 1..(i + 1)}
    <3>1. \A j : j \in 1..(i + 1) <=> j \in 1..i \/ j = i + 1
      BY <2>1
    <3> QED
      BY <2>3, <2>4, <2>9, <3>1
  <2>11. Good(i + 1)
    BY <2>9, <2>10
  <2> HIDE DEF Good
  <2> QED
    BY <2>1, <2>11
<1> HIDE DEF T
<1>5. n \in T
  <2>1. \A i \in 0..n : i \in T
    BY <1>3, <1>4, UpTo
  <2> QED
    BY <2>1
<1>6. Good(n)
  BY <1>5 DEF T
<1>7. UNION {IdsOf(runs[j]) : j \in 1..n} = Ids(runs)
  BY <1>1 DEF Ids
<1> QED
  BY <1>2, <1>6, <1>7, <1>r

-----------------------------------------------------------------------------
(* Taking ids from the list *)

Acc == [n : Nat, segs : Seq(Segment)]

\* Without is a fold of this operation.
Drop(acc, s) ==
    LET k == IF s.numValues < acc.n THEN s.numValues ELSE acc.n
        rest == Seg(s.startValue + k, s.numValues - k)
    IN  [n |-> acc.n - k,
         segs |-> IF rest.numValues > 0 THEN Append(acc.segs, rest) ELSE acc.segs]

\* It takes all the ids of the segment, or as many as are still wanted.
LEMMA DropAll ==
    ASSUME NEW acc \in Acc, NEW s \in Segment, s.numValues <= acc.n
    PROVE  Drop(acc, s) \in Acc /\ Drop(acc, s).n = acc.n - s.numValues
           /\ Drop(acc, s).segs = acc.segs
<1>1. PICK m \in Nat, t \in Seq(Segment) : m = acc.n /\ t = acc.segs
  BY DEF Acc
<1>2. PICK a \in Nat, k \in Nat : a = s.startValue /\ k = s.numValues
  BY SegFields
<1>3. (IF k < m THEN k ELSE m) = k /\ a + k \in Nat /\ k - k = 0 /\ m - k \in Nat
  BY <1>1, <1>2
<1>4. Seg(a + k, k - k).numValues = 0
  BY <1>3, SegType
<1>5. Drop(acc, s) = [n |-> m - k, segs |-> t]
  BY <1>1, <1>2, <1>3, <1>4 DEF Drop
<1>6. [n |-> m - k, segs |-> t] \in Acc
  BY <1>3 DEF Acc
<1> QED
  BY <1>1, <1>2, <1>5, <1>6

LEMMA DropSome ==
    ASSUME NEW acc \in Acc, NEW s \in Segment, acc.n < s.numValues
    PROVE  /\ Drop(acc, s) \in Acc /\ Drop(acc, s).n = 0
           /\ Drop(acc, s).segs = Append(acc.segs, Seg(s.startValue + acc.n, s.numValues - acc.n))
           /\ Seg(s.startValue + acc.n, s.numValues - acc.n) \in Segment
<1>1. PICK m \in Nat, t \in Seq(Segment) : m = acc.n /\ t = acc.segs
  BY DEF Acc
<1>2. PICK a \in Nat, k \in Nat : a = s.startValue /\ k = s.numValues
  BY SegFields
<1>3. (IF k < m THEN k ELSE m) = m /\ a + m \in Nat /\ k - m \in Nat /\ m - m = 0 /\ k - m > 0
  BY <1>1, <1>2
<1>4. Seg(a + m, k - m).numValues = k - m /\ Seg(a + m, k - m) \in Segment
  BY <1>3, SegType
<1>5. Drop(acc, s) = [n |-> 0, segs |-> Append(t, Seg(a + m, k - m))]
  BY <1>1, <1>2, <1>3, <1>4 DEF Drop
<1>6. [n |-> 0, segs |-> Append(t, Seg(a + m, k - m))] \in Acc
  BY <1>4 DEF Acc
<1> QED
  BY <1>1, <1>2, <1>4, <1>5, <1>6

LEMMA DropType == ASSUME NEW acc \in Acc, NEW s \in Segment PROVE Drop(acc, s) \in Acc
<1>1. s.numValues <= acc.n \/ acc.n < s.numValues
  BY SegFields DEF Acc
<1> QED
  BY <1>1, DropAll, DropSome

LEMMA DropSteps ==
    ASSUME NEW segs \in Seq(Segment), NEW want \in Nat
    PROVE  \E g : /\ g[0] = [n |-> want, segs |-> <<>>]
                  /\ \A i \in 1..Len(segs) : g[i] = Drop(g[i - 1], segs[i])
                  /\ Without(segs, want) = g[Len(segs)].segs
<1>1. PICK n \in Nat : n = Len(segs) /\ DOMAIN segs = 1..n /\ \A i \in 1..n : segs[i] \in Segment
  BY LenProperties, ElementOfSeq
<1> DEFINE A == Acc
           D == [x \in A \X (1..n) |-> Drop(x[1], segs[x[2]])]
           Is(c) == c = [s \in SUBSET (1..n) |->
                         IF s = {} THEN [n |-> want, segs |-> <<>>] ELSE Drop(c[s \ {Max(s)}], segs[Max(s)])]
<1>2. StepOf(D, A, n) /\ [n |-> want, segs |-> <<>>] \in A
  <2>1. \A x \in A \X (1..n) : Drop(x[1], segs[x[2]]) \in A
    BY <1>1, DropType
  <2>2. [n |-> want, segs |-> <<>>] \in Acc
    BY DEF Acc
  <2> QED
    BY <2>1, <2>2 DEF StepOf
<1>3. PICK it \in [SUBSET (1..n) -> A] : IsLeft(it, n, [n |-> want, segs |-> <<>>], D)
  <2> HIDE DEF A, D
  <2> QED
    BY <1>2, LeftIter
<1>4. Is(it)
  <2>1. ASSUME NEW s \in SUBSET (1..n), s # {}
        PROVE  D[<<it[s \ {Max(s)}], Max(s)>>] = Drop(it[s \ {Max(s)}], segs[Max(s)])
    <3>1. Max(s) \in s
      BY <2>1, GreatestIn
    <3>2. it[s \ {Max(s)}] \in A /\ Max(s) \in 1..n
      BY <3>1
    <3> HIDE DEF A
    <3> QED
      BY <3>2
  <2>2. it = [s \in SUBSET (1..n) |-> it[s]]
    BY <1>3
  <2> HIDE DEF D, A
  <2> QED
    BY <1>3, <2>1, <2>2 DEF IsLeft
<1>5. PICK c : Is(c) /\ Without(segs, want) = c[1..n].segs
  <2>1. Without(segs, want) = (CHOOSE c : Is(c))[1..n].segs
    BY <1>1 DEF Without, FoldLeft, MapThenFoldSet, Drop
  <2> HIDE DEF Is
  <2>2. Is(CHOOSE c : Is(c))
    BY <1>4
  <2> QED
    BY <2>1, <2>2
<1> DEFINE g == [i \in 0..n |-> c[1..i]]
<1>6. g[0] = [n |-> want, segs |-> <<>>]
  <2>1. 1..0 = {} /\ {} \in SUBSET (1..n) /\ 0 \in 0..n
    OBVIOUS
  <2>2. c[{}] = [n |-> want, segs |-> <<>>]
    BY <1>5
  <2> QED
    BY <2>1, <2>2
<1>7. ASSUME NEW i \in 1..n PROVE g[i] = Drop(g[i - 1], segs[i])
  <2>1. 1..i \in SUBSET (1..n) /\ i \in 1..i
    OBVIOUS
  <2>2. (1..i) \ {i} = 1..(i - 1)
    OBVIOUS
  <2>3. Max(1..i) = i
    <3>1. 1..i \in SUBSET Int /\ \A x \in 1..i : x <= i
      OBVIOUS
    <3> QED
      BY <2>1, <3>1, MaxIs
  <2>4. 1..i # {}
    BY <2>1
  <2>5. c[1..i] = Drop(c[1..(i - 1)], segs[i])
    BY <1>5, <2>1, <2>2, <2>3, <2>4
  <2>6. g[i] = c[1..i] /\ g[i - 1] = c[1..(i - 1)]
    BY <1>1
  <2> QED
    BY <2>5, <2>6
<1>8. g[n] = c[1..n]
  BY <1>1
<1> HIDE DEF g
<1> QED
  BY <1>1, <1>5, <1>6, <1>7, <1>8

LEMMA WithoutType ==
    ASSUME NEW segs \in Seq(Segment), NEW want \in Nat
    PROVE  Without(segs, want) \in Seq(Segment)
<1>1. PICK n \in Nat : n = Len(segs) /\ \A i \in 1..n : segs[i] \in Segment
  BY LenProperties, ElementOfSeq
<1>2. PICK g : /\ g[0] = [n |-> want, segs |-> <<>>] /\ Without(segs, want) = g[n].segs
               /\ \A i \in 1..n : g[i] = Drop(g[i - 1], segs[i])
  BY <1>1, DropSteps
<1> DEFINE T == {i \in 0..n : g[i] \in Acc}
<1>3. 0 \in T
  <2>1. [n |-> want, segs |-> <<>>] \in Acc /\ 0 \in 0..n
    BY DEF Acc
  <2> QED
    BY <1>2, <2>1
<1>4. ASSUME NEW i \in 0..n, i \in T, i < n PROVE i + 1 \in T
  <2>1. i + 1 \in 1..n /\ (i + 1) - 1 = i
    BY <1>4
  <2>2. g[i + 1] = Drop(g[i], segs[i + 1])
    BY <1>2, <2>1
  <2>3. g[i + 1] \in Acc
    BY <1>1, <1>4, <2>1, <2>2, DropType
  <2> QED
    BY <2>1, <2>3
<1> HIDE DEF T
<1>5. n \in T
  <2>1. \A i \in 0..n : i \in T
    BY <1>3, <1>4, UpTo
  <2> QED
    BY <2>1
<1>6. g[n] \in Acc
  BY <1>5 DEF T
<1> QED
  BY <1>2, <1>6 DEF Acc

LEMMA IdSeqIs ==
    ASSUME NEW s \in Segment
    PROVE  /\ IdSeq(s) \in Seq(Nat) /\ Len(IdSeq(s)) = s.numValues
           /\ \A j \in 1..s.numValues : IdSeq(s)[j] = s.startValue + j - 1
<1>1. PICK a \in Nat, k \in Nat : a = s.startValue /\ k = s.numValues
  BY SegFields
<1>2. \A j \in 1..k : a + j - 1 \in Nat
  OBVIOUS
<1>3. IdSeq(s) = [j \in 1..k |-> a + j - 1]
  BY <1>1 DEF IdSeq
<1>4. IdSeq(s) \in Seq(Nat) /\ Len(IdSeq(s)) = k
  BY <1>2, <1>3
<1>5. \A j \in 1..k : IdSeq(s)[j] = a + j - 1
  BY <1>3
<1> QED
  BY <1>1, <1>4, <1>5

\* The ids of a list, one segment behind the other.
LEMMA FlattenSteps ==
    ASSUME NEW segs \in Seq(Segment)
    PROVE  \E g : /\ g[0] = <<>>
                  /\ \A i \in 1..Len(segs) : g[i] = g[i - 1] \o IdSeq(segs[i])
                  /\ FlattenSeq([i \in DOMAIN segs |-> IdSeq(segs[i])]) = g[Len(segs)]
<1>1. PICK n \in Nat : n = Len(segs) /\ DOMAIN segs = 1..n /\ \A i \in 1..n : segs[i] \in Segment
  BY LenProperties, ElementOfSeq
<1>2. PICK q : q = [i \in 1..n |-> IdSeq(segs[i])]
  OBVIOUS
<1>3. q \in Seq(Seq(Nat)) /\ Len(q) = n
  <2>1. \A i \in 1..n : IdSeq(segs[i]) \in Seq(Nat)
    BY <1>1, IdSeqIs
  <2> QED
    BY <1>2, <2>1
<1>q. \A i \in 1..n : q[i] = IdSeq(segs[i]) /\ q[i] \in Seq(Nat)
  BY <1>1, <1>2, IdSeqIs
<1> DEFINE Is(f, m) == f = [i \in 1..m |-> IF i = 1 THEN q[i] ELSE f[i - 1] \o q[i]]
           T == {m \in 0..n : \E f : Is(f, m)}
<1>4. 0 \in T
  <2>1. 1..0 = {} /\ 0 \in 0..n
    OBVIOUS
  <2>2. Is([i \in 1..0 |-> i], 0)
    BY <2>1
  <2> QED
    BY <2>1, <2>2
<1>5. ASSUME NEW m \in 0..n, m \in T, m < n PROVE m + 1 \in T
  <2>1. PICK f : Is(f, m)
    BY <1>5
  <2> DEFINE h == [i \in 1..(m + 1) |->
                   IF i = m + 1 THEN IF i = 1 THEN q[i] ELSE f[i - 1] \o q[i] ELSE f[i]]
  <2>2. ASSUME NEW i \in 1..(m + 1) PROVE h[i] = IF i = 1 THEN q[i] ELSE h[i - 1] \o q[i]
    <3>1. i # 1 => i - 1 \in 1..m /\ h[i - 1] = f[i - 1]
      OBVIOUS
    <3>2. CASE i = m + 1
      <4>1. h[i] = IF i = 1 THEN q[i] ELSE f[i - 1] \o q[i]
        BY <3>2
      <4> HIDE DEF h
      <4> QED
        BY <3>1, <4>1
    <3>3. CASE i # m + 1
      <4>1. i \in 1..m /\ h[i] = f[i]
        BY <3>3
      <4>2. f[i] = IF i = 1 THEN q[i] ELSE f[i - 1] \o q[i]
        BY <2>1, <4>1
      <4> HIDE DEF h
      <4> QED
        BY <3>1, <4>1, <4>2
    <3> QED
      BY <3>2, <3>3
  <2>3. h = [i \in 1..(m + 1) |-> h[i]]
    OBVIOUS
  <2> HIDE DEF h
  <2>4. Is(h, m + 1)
    BY <2>2, <2>3
  <2>5. m + 1 \in 0..n
    BY <1>5
  <2> HIDE DEF Is
  <2> QED
    BY <2>4, <2>5
<1>6. \E f : Is(f, n)
  <2> HIDE DEF T
  <2>1. n \in T
    <3>1. \A i \in 0..n : i \in T
      BY <1>4, <1>5, UpTo
    <3> QED
      BY <3>1
  <2> QED
    BY <2>1 DEF T
<1>7. PICK f : Is(f, n) /\ (n # 0 => FlattenSeq(q) = f[n])
  <2>1. n # 0 => FlattenSeq(q) = (CHOOSE f : Is(f, n))[n]
    BY <1>3 DEF FlattenSeq
  <2> HIDE DEF Is
  <2>2. Is(CHOOSE f : Is(f, n), n)
    BY <1>6
  <2> QED
    BY <2>1, <2>2
<1>8. n = 0 => FlattenSeq(q) = <<>>
  BY <1>3 DEF FlattenSeq
<1> DEFINE g == [i \in 0..n |-> IF i = 0 THEN <<>> ELSE f[i]]
<1>9. ASSUME NEW i \in 1..n PROVE g[i] = g[i - 1] \o IdSeq(segs[i])
  <2>1. f[i] = IF i = 1 THEN q[i] ELSE f[i - 1] \o q[i]
    BY <1>7
  <2>2. g[i] = f[i] /\ i - 1 \in 0..n
    OBVIOUS
  <2>3. CASE i = 1
    <3>1. g[i - 1] = <<>>
      BY <2>2, <2>3
    <3>2. <<>> \o q[i] = q[i]
      BY <1>q, ConcatEmptySeq
    <3> QED
      BY <1>q, <2>1, <2>2, <2>3, <3>1, <3>2
  <2>4. CASE i # 1
    <3>1. g[i - 1] = f[i - 1]
      BY <2>2, <2>4
    <3> QED
      BY <1>q, <2>1, <2>2, <2>4, <3>1
  <2> QED
    BY <2>3, <2>4
<1>10. g[0] = <<>> /\ FlattenSeq(q) = g[n]
  <2>1. 0 \in 0..n /\ n \in 0..n
    OBVIOUS
  <2>2. g[0] = <<>> /\ g[n] = IF n = 0 THEN <<>> ELSE f[n]
    BY <2>1
  <2> HIDE DEF g
  <2> QED
    BY <1>7, <1>8, <2>2
<1>11. q = [i \in DOMAIN segs |-> IdSeq(segs[i])]
  BY <1>1, <1>2
<1> HIDE DEF g
<1> QED
  BY <1>1, <1>9, <1>10, <1>11

\* The ids of a list as one sequence, and what is left of the list when the
\* first ids of it are taken.
LEMMA TakePlaces ==
    ASSUME NEW segs \in Seq(Segment), Canonical(segs), NEW want \in Nat
    PROVE  \E all \in Seq(Nat) :
              /\ TakeAny(segs, want) = SubSeq(all, 1, IF want < Len(all) THEN want ELSE Len(all))
              /\ \A i, j \in DOMAIN all : all[i] = all[j] => i = j
              /\ Ids(segs) = ToSet(all)
              /\ Canonical(Without(segs, want))
              /\ Ids(Without(segs, want)) = {all[j] : j \in (want + 1)..Len(all)}
              /\ Len(all) <= want => Without(segs, want) = <<>>
<1>1. PICK n \in Nat : n = Len(segs) /\ DOMAIN segs = 1..n /\ \A i \in 1..n : segs[i] \in Segment
  BY LenProperties, ElementOfSeq
<1>2. PICK g : /\ g[0] = [n |-> want, segs |-> <<>>] /\ Without(segs, want) = g[n].segs
               /\ \A i \in 1..n : g[i] = Drop(g[i - 1], segs[i])
  BY <1>1, DropSteps
<1>3. PICK f : /\ f[0] = <<>>
               /\ \A i \in 1..n : f[i] = f[i - 1] \o IdSeq(segs[i])
               /\ FlattenSeq([i \in DOMAIN segs |-> IdSeq(segs[i])]) = f[n]
  BY <1>1, FlattenSteps
<1>o. Ordered(segs)
  BY CanonicalOrdered
\* How the ids taken and the list left stand after i segments.
<1> DEFINE Good(i) ==
        /\ f[i] \in Seq(Nat) /\ g[i] \in Acc
        /\ \A j, k \in 1..Len(f[i]) : f[i][j] = f[i][k] => j = k
        /\ {f[i][j] : j \in 1..Len(f[i])} = UNION {IdsOf(segs[j]) : j \in 1..i}
        /\ Canonical(g[i].segs)
        /\ Ids(g[i].segs) = {f[i][j] : j \in (want + 1)..Len(f[i])}
        /\ Len(f[i]) <= want => g[i].n = want - Len(f[i]) /\ g[i].segs = <<>>
        /\ want < Len(f[i]) => g[i].n = 0 /\ g[i].segs # <<>> /\ i # 0
                               /\ End(Last(g[i].segs)) = End(segs[i])
<1>4. Good(0)
  <2>1. f[0] \in Seq(Nat) /\ Len(f[0]) = 0
    BY <1>3
  <2>2. g[0] \in Acc /\ g[0].n = want /\ g[0].segs = <<>>
    BY <1>2 DEF Acc
  <2>3. 1..0 = {} /\ (want + 1)..0 = {} /\ ~(want < 0) /\ want - 0 = want
    OBVIOUS
  <2>4. Canonical(<<>>) /\ Ids(<<>>) = {}
    BY DEF Canonical, Ids
  <2>5. {f[0][j] : j \in 1..Len(f[0])} = UNION {IdsOf(segs[j]) : j \in 1..0}
    BY <2>1, <2>3
  <2>6. Ids(g[0].segs) = {f[0][j] : j \in (want + 1)..Len(f[0])}
    BY <2>1, <2>2, <2>3, <2>4
  <2> QED
    BY <2>1, <2>2, <2>3, <2>4, <2>5, <2>6
<1> DEFINE T == {i \in 0..n : Good(i)}
<1>5. ASSUME NEW i \in 0..n, i \in T, i < n PROVE i + 1 \in T
  <2> HIDE DEF Good
  <2>1. i + 1 \in 1..n /\ (i + 1) - 1 = i /\ i + 1 \in 0..n /\ Good(i)
    BY <1>5
  <2>2. PICK F \in Seq(Nat), acc \in Acc, s \in Segment : F = f[i] /\ acc = g[i] /\ s = segs[i + 1]
    BY <1>1, <2>1 DEF Good
  <2>3. PICK H, new : H = F \o IdSeq(s) /\ new = Drop(acc, s)
    OBVIOUS
  <2>4. f[i + 1] = H /\ g[i + 1] = new
    BY <1>2, <1>3, <2>1, <2>2, <2>3
  <2>5. PICK a \in Nat, m \in Nat : a = s.startValue /\ m = s.numValues
    BY SegFields
  <2>6. m > 0 /\ IdsOf(s) = a..(a + m - 1) /\ End(s) = a + m - 1
    BY <1>1, <2>1, <2>2, <2>5 DEF Canonical, IdsOf, End
  <2>7. PICK L \in Nat, w \in Nat, t \in Seq(Segment) : L = Len(F) /\ w = acc.n /\ t = acc.segs
    BY LenProperties DEF Acc
  <2>8. /\ H \in Seq(Nat) /\ Len(H) = L + m
        /\ \A j \in 1..L : H[j] = F[j] /\ H[j] \in Nat
        /\ \A j \in (L + 1)..(L + m) : H[j] = a + (j - L) - 1
    <3>1. IdSeq(s) \in Seq(Nat) /\ Len(IdSeq(s)) = m /\ \A j \in 1..m : IdSeq(s)[j] = a + j - 1
      BY <2>5, IdSeqIs
    <3>2. /\ H \in Seq(Nat) /\ Len(H) = L + m
          /\ \A j \in 1..(L + m) : H[j] = IF j <= L THEN F[j] ELSE IdSeq(s)[j - L]
      BY <2>3, <2>7, <3>1, ConcatProperties
    <3>3. ASSUME NEW j \in 1..L PROVE H[j] = F[j] /\ H[j] \in Nat
      <4>1. j \in 1..(L + m) /\ j <= L
        OBVIOUS
      <4>2. F[j] \in Nat
        BY <2>7, ElementOfSeq
      <4> QED
        BY <3>2, <4>1, <4>2
    <3>4. ASSUME NEW j \in (L + 1)..(L + m) PROVE H[j] = a + (j - L) - 1
      <4>1. j \in 1..(L + m) /\ ~(j <= L) /\ j - L \in 1..m
        OBVIOUS
      <4> QED
        BY <3>1, <3>2, <4>1
    <3> QED
      BY <3>2, <3>3, <3>4
  \* What is known of the segments up to i.
  <2>9. /\ \A j, k \in 1..L : F[j] = F[k] => j = k
        /\ {F[j] : j \in 1..L} = UNION {IdsOf(segs[j]) : j \in 1..i}
        /\ Canonical(t) /\ Ids(t) = {F[j] : j \in (want + 1)..L}
        /\ L <= want => w = want - L /\ t = <<>>
        /\ want < L => w = 0 /\ t # <<>> /\ i # 0 /\ End(Last(t)) = End(segs[i])
    <3>1. \A j, k \in 1..L : F[j] = F[k] => j = k
      BY <2>1, <2>2, <2>7 DEF Good
    <3>2. {F[j] : j \in 1..L} = UNION {IdsOf(segs[j]) : j \in 1..i}
      BY <2>1, <2>2, <2>7 DEF Good
    <3>3. Canonical(t)
      BY <2>1, <2>2, <2>7 DEF Good
    <3>4. Ids(t) = {F[j] : j \in (want + 1)..L}
      BY <2>1, <2>2, <2>7 DEF Good
    <3>5. /\ L <= want => w = want - L /\ t = <<>>
          /\ want < L => w = 0 /\ t # <<>> /\ i # 0 /\ End(Last(t)) = End(segs[i])
      BY <2>1, <2>2, <2>7 DEF Good
    <3> QED
      BY <3>1, <3>2, <3>3, <3>4, <3>5
  \* The ids of s are new.
  <2>10. ASSUME NEW j \in 1..L PROVE F[j] < a
    <3>0. F[j] \in UNION {IdsOf(segs[k]) : k \in 1..i}
      <4>1. F[j] \in {F[k] : k \in 1..L}
        OBVIOUS
      <4> QED
        BY <2>9, <4>1
    <3>1. PICK k \in 1..i : F[j] \in IdsOf(segs[k])
      BY <3>0
    <3>2. k \in 1..n /\ k < i + 1
      BY <2>1
    <3>3. End(segs[k]) < a
      BY <1>1, <1>o, <2>1, <2>2, <2>5, <3>2, OrderedApart
    <3>4. segs[k] \in Segment
      BY <1>1, <3>2
    <3>5. PICK b \in Nat, e \in Int : b = segs[k].startValue /\ e = End(segs[k])
      BY <3>4, SegFields
    <3>6. F[j] \in b..e
      BY <3>1, <3>5 DEF IdsOf
    <3> QED
      BY <3>3, <3>5, <3>6
  <2>11. \A j \in 1..(L + m) : j \in 1..L \/ j \in (L + 1)..(L + m)
    OBVIOUS
  <2>12. ASSUME NEW j \in 1..(L + m), NEW k \in 1..(L + m), H[j] = H[k] PROVE j = k
    <3>1. CASE j \in 1..L /\ k \in 1..L
      BY <2>8, <2>9, <2>12, <3>1
    <3>2. CASE j \in 1..L /\ k \in (L + 1)..(L + m)
      <4>1. H[j] < a /\ H[j] \in Nat
        BY <2>8, <2>10, <3>2
      <4>2. H[k] = a + (k - L) - 1
        BY <2>8, <3>2
      <4> QED
        BY <2>12, <3>2, <4>1, <4>2
    <3>3. CASE k \in 1..L /\ j \in (L + 1)..(L + m)
      <4>1. H[k] < a /\ H[k] \in Nat
        BY <2>8, <2>10, <3>3
      <4>2. H[j] = a + (j - L) - 1
        BY <2>8, <3>3
      <4> QED
        BY <2>12, <3>3, <4>1, <4>2
    <3>4. CASE j \in (L + 1)..(L + m) /\ k \in (L + 1)..(L + m)
      <4>1. H[j] = a + (j - L) - 1 /\ H[k] = a + (k - L) - 1
        BY <2>8, <3>4
      <4>2. a + (j - L) - 1 = a + (k - L) - 1
        BY <2>12, <4>1
      <4> QED
        BY <4>2
    <3> QED
      BY <2>11, <3>1, <3>2, <3>3, <3>4
  \* The ids of s are the last m ones of H.
  <2>13. ASSUME NEW lo \in (L + 1)..(L + m + 1)
         PROVE  {H[j] : j \in lo..(L + m)} = (a + (lo - L) - 1)..(a + m - 1)
    <3>1. ASSUME NEW j \in lo..(L + m) PROVE H[j] \in (a + (lo - L) - 1)..(a + m - 1)
      <4>1. j \in (L + 1)..(L + m)
        OBVIOUS
      <4>2. H[j] = a + (j - L) - 1
        BY <2>8, <4>1
      <4> QED
        BY <4>2
    <3>2. ASSUME NEW x \in (a + (lo - L) - 1)..(a + m - 1) PROVE \E j \in lo..(L + m) : H[j] = x
      <4>1. PICK j \in Int : j = x - a + L + 1
        OBVIOUS
      <4>2. j \in lo..(L + m) /\ j \in (L + 1)..(L + m) /\ a + (j - L) - 1 = x
        BY <4>1
      <4>3. H[j] = x
        BY <2>8, <4>2
      <4> QED
        BY <4>2, <4>3
    <3> QED
      BY <3>1, <3>2
  <2>14. {H[j] : j \in 1..L} = {F[j] : j \in 1..L}
    BY <2>8
  <2>15. {H[j] : j \in (L + 1)..(L + m)} = IdsOf(s)
    <3>1. L + 1 \in (L + 1)..(L + m + 1) /\ a + (L + 1 - L) - 1 = a
      OBVIOUS
    <3>2. PICK lo \in (L + 1)..(L + m + 1) : lo = L + 1
      BY <3>1
    <3>3. {H[j] : j \in lo..(L + m)} = (a + (lo - L) - 1)..(a + m - 1)
      BY <2>13
    <3> QED
      BY <2>6, <3>1, <3>2, <3>3
  <2>16. {H[j] : j \in 1..(L + m)} = UNION {IdsOf(segs[j]) : j \in 1..(i + 1)}
    <3>1. {H[j] : j \in 1..(L + m)} = {H[j] : j \in 1..L} \cup {H[j] : j \in (L + 1)..(L + m)}
      <4>1. \A j : j \in 1..(L + m) <=> j \in 1..L \/ j \in (L + 1)..(L + m)
        OBVIOUS
      <4> QED
        BY <4>1
    <3>2. \A j : j \in 1..(i + 1) <=> j \in 1..i \/ j = i + 1
      BY <2>1
    <3>3. UNION {IdsOf(segs[j]) : j \in 1..(i + 1)}
          = (UNION {IdsOf(segs[j]) : j \in 1..i}) \cup IdsOf(s)
      BY <2>2, <3>2
    <3> QED
      BY <2>9, <2>14, <2>15, <3>1, <3>3
  <2>17. /\ new \in Acc /\ Canonical(new.segs)
         /\ Ids(new.segs) = {H[j] : j \in (want + 1)..(L + m)}
         /\ L + m <= want => new.n = want - (L + m) /\ new.segs = <<>>
         /\ want < L + m => new.n = 0 /\ new.segs # <<>> /\ End(Last(new.segs)) = End(s)
    <3>1. CASE L + m <= want
      <4>1. L <= want /\ m <= want - L /\ (want - L) - m = want - (L + m) /\ ~(want < L + m)
            /\ (want + 1)..(L + m) = {}
        BY <3>1
      <4>2. w = want - L /\ t = <<>>
        BY <2>9, <4>1
      <4>3. s.numValues <= acc.n
        BY <2>5, <2>7, <4>1, <4>2
      <4>4. new \in Acc /\ new.n = acc.n - s.numValues /\ new.segs = acc.segs
        BY <2>3, <4>3, DropAll
      <4>5. new.n = want - (L + m) /\ new.segs = <<>>
        BY <2>5, <2>7, <4>1, <4>2, <4>4
      <4>6. Canonical(<<>>) /\ Ids(<<>>) = {}
        BY DEF Canonical, Ids
      <4>7. {H[j] : j \in (want + 1)..(L + m)} = {}
        BY <4>1
      <4> QED
        BY <3>1, <4>1, <4>4, <4>5, <4>6, <4>7
    <3>2. CASE want < L + m
      <4>1. w < m
        <5>1. CASE L <= want
          BY <2>9, <3>2, <5>1
        <5>2. CASE want < L
          BY <2>6, <2>9, <5>2
        <5> QED
          BY <5>1, <5>2
      <4>2. PICK r : r = Seg(a + w, m - w)
        OBVIOUS
      <4>3. new \in Acc /\ new.n = 0 /\ new.segs = Append(t, r)
        <5>1. acc.n < s.numValues
          BY <2>5, <2>7, <4>1
        <5>2. /\ new \in Acc /\ new.n = 0
              /\ new.segs = Append(acc.segs, Seg(s.startValue + acc.n, s.numValues - acc.n))
          BY <2>3, <5>1, DropSome
        <5> QED
          BY <2>5, <2>7, <4>2, <5>2
      <4>4. r \in Segment /\ r.startValue = a + w /\ r.numValues = m - w /\ r.numValues > 0
        <5>1. a + w \in Nat /\ m - w \in Nat /\ m - w > 0
          BY <4>1
        <5> QED
          BY <4>2, <5>1, SegType
      <4>5. End(r) = a + m - 1 /\ IdsOf(r) = (a + w)..(a + m - 1)
        <5>1. (a + w) + (m - w) - 1 = a + m - 1
          OBVIOUS
        <5> QED
          BY <4>4, <5>1 DEF IdsOf, End
      <4>6. Append(t, r) # <<>> /\ Last(Append(t, r)) = r
        <5>1. PICK q \in Nat : q = Len(t)
          BY LenProperties
        <5>2. Len(Append(t, r)) = q + 1 /\ Append(t, r)[q + 1] = r
          BY <4>4, <5>1
        <5>3. Last(Append(t, r)) = r
          BY <5>2 DEF Last
        <5>4. Append(t, r) # <<>>
          BY <5>1, <5>2
        <5> QED
          BY <5>3, <5>4
      <4>7. Canonical(Append(t, r))
        <5>1. t # <<>> => End(Last(t)) + 1 < r.startValue
          <6>1. SUFFICES ASSUME t # <<>> PROVE End(Last(t)) + 1 < r.startValue
            OBVIOUS
          <6>2. want < L
            BY <2>9, <6>1
          <6>3. w = 0 /\ i # 0 /\ End(Last(t)) = End(segs[i])
            BY <2>9, <6>2
          <6>4. i \in 1..(n - 1)
            BY <2>1, <6>3
          <6>5. End(segs[i]) + 1 < segs[i + 1].startValue
            BY <1>1, <6>4 DEF Canonical
          <6>6. a + w = a
            BY <6>3
          <6> QED
            BY <2>2, <2>5, <4>4, <6>3, <6>5, <6>6
        <5>2. Canonical(t)
          BY <2>9
        <5> QED
          BY <4>4, <5>1, <5>2, AppendCanonical
      <4>8. Ids(Append(t, r)) = {H[j] : j \in (want + 1)..(L + m)}
        <5>1. Ids(Append(t, r)) = Ids(t) \cup IdsOf(r)
          BY <4>4, AppendIds
        <5>2. CASE L <= want
          <6>1. w = want - L /\ t = <<>>
            BY <2>9, <5>2
          <6>2. want + 1 \in (L + 1)..(L + m + 1) /\ a + ((want + 1) - L) - 1 = a + w
            BY <3>2, <5>2, <6>1
          <6>3. {H[j] : j \in (want + 1)..(L + m)} = (a + ((want + 1) - L) - 1)..(a + m - 1)
            BY <2>13, <6>2
          <6>4. Ids(t) = {}
            BY <6>1 DEF Ids
          <6> QED
            BY <4>5, <5>1, <6>2, <6>3, <6>4
        <5>3. CASE want < L
          <6>1. w = 0 /\ a + w = a
            BY <2>9, <5>3
          <6>2. IdsOf(r) = {H[j] : j \in (L + 1)..(L + m)}
            BY <2>6, <2>15, <4>5, <6>1
          <6>3. Ids(t) = {H[j] : j \in (want + 1)..L}
            <7>1. \A j \in (want + 1)..L : H[j] = F[j]
              BY <2>8
            <7>2. {H[j] : j \in (want + 1)..L} = {F[j] : j \in (want + 1)..L}
              BY <7>1
            <7>3. Ids(t) = {F[j] : j \in (want + 1)..L}
              BY <2>9
            <7> QED
              BY <7>2, <7>3
          <6>4. \A j : j \in (want + 1)..(L + m)
                       <=> j \in (want + 1)..L \/ j \in (L + 1)..(L + m)
            BY <5>3
          <6> QED
            BY <5>1, <6>2, <6>3, <6>4
        <5> QED
          BY <5>2, <5>3
      <4>9. ~(L + m <= want)
        BY <3>2
      <4>10. Ids(new.segs) = {H[j] : j \in (want + 1)..(L + m)}
        BY <4>3, <4>8
      <4>11. new \in Acc /\ Canonical(new.segs) /\ new.n = 0 /\ new.segs # <<>>
        BY <4>3, <4>6, <4>7
      <4>12. End(Last(new.segs)) = End(s)
        BY <2>6, <4>3, <4>5, <4>6
      <4> QED
        BY <4>9, <4>10, <4>11, <4>12
    <3>3. L + m <= want \/ want < L + m
      OBVIOUS
    <3> QED
      BY <3>1, <3>2, <3>3
  <2>18. /\ f[i + 1] \in Seq(Nat) /\ g[i + 1] \in Acc /\ Len(f[i + 1]) = L + m /\ i + 1 # 0
         /\ Canonical(g[i + 1].segs)
    BY <2>1, <2>4, <2>8, <2>17
  <2>19. \A j, k \in 1..(L + m) : f[i + 1][j] = f[i + 1][k] => j = k
    BY <2>4, <2>12
  <2>20. {f[i + 1][j] : j \in 1..(L + m)} = UNION {IdsOf(segs[j]) : j \in 1..(i + 1)}
    BY <2>4, <2>16
  <2>21. Ids(g[i + 1].segs) = {f[i + 1][j] : j \in (want + 1)..(L + m)}
    BY <2>4, <2>17
  <2>22. /\ L + m <= want => g[i + 1].n = want - (L + m) /\ g[i + 1].segs = <<>>
         /\ want < L + m => g[i + 1].n = 0 /\ g[i + 1].segs # <<>>
                            /\ End(Last(g[i + 1].segs)) = End(segs[i + 1])
    BY <2>2, <2>4, <2>17
  <2>23. Good(i + 1)
    BY <2>18, <2>19, <2>20, <2>21, <2>22 DEF Good
  <2> QED
    BY <2>1, <2>23
<1> HIDE DEF T
<1>6. Good(n)
  <2> HIDE DEF Good
  <2>1. 0 \in T
    BY <1>4 DEF T
  <2>2. \A i \in 0..n : i \in T
    BY <1>5, <2>1, UpTo
  <2> QED
    BY <2>2 DEF T
<1>7. PICK all \in Seq(Nat) : all = f[n]
  BY <1>6
<1>8. DOMAIN all = 1..Len(all) /\ Len(all) \in Nat
  BY LenProperties
<1>9. TakeAny(segs, want) = SubSeq(all, 1, IF want < Len(all) THEN want ELSE Len(all))
  BY <1>3, <1>7 DEF TakeAny
<1>10. Ids(segs) = ToSet(all)
  <2>1. ToSet(all) = {f[n][j] : j \in 1..Len(f[n])}
    BY <1>7, <1>8 DEF ToSet
  <2>2. Ids(segs) = UNION {IdsOf(segs[j]) : j \in 1..n}
    BY <1>1 DEF Ids
  <2> QED
    BY <1>6, <2>1, <2>2
<1>11. \A i, j \in DOMAIN all : all[i] = all[j] => i = j
  BY <1>6, <1>7, <1>8
<1>12. /\ Canonical(Without(segs, want))
       /\ Ids(Without(segs, want)) = {all[j] : j \in (want + 1)..Len(all)}
       /\ Len(all) <= want => Without(segs, want) = <<>>
  BY <1>2, <1>6, <1>7
<1> HIDE DEF Good
<1> QED
  BY <1>9, <1>10, <1>11, <1>12

LEMMA TakeAnyType ==
    ASSUME NEW segs \in Seq(Segment), NEW want \in Nat
    PROVE  TakeAny(segs, want) \in Seq(Nat) /\ Len(TakeAny(segs, want)) <= want
<1>1. PICK n \in Nat : n = Len(segs) /\ \A i \in 1..n : segs[i] \in Segment
  BY LenProperties, ElementOfSeq
<1>2. PICK f : /\ f[0] = <<>> /\ \A i \in 1..n : f[i] = f[i - 1] \o IdSeq(segs[i])
               /\ FlattenSeq([i \in DOMAIN segs |-> IdSeq(segs[i])]) = f[n]
  BY <1>1, FlattenSteps
<1> DEFINE T == {i \in 0..n : f[i] \in Seq(Nat)}
<1>3. 0 \in T
  <2>1. <<>> \in Seq(Nat) /\ 0 \in 0..n
    OBVIOUS
  <2> QED
    BY <1>2, <2>1
<1>4. ASSUME NEW i \in 0..n, i \in T, i < n PROVE i + 1 \in T
  <2>1. i + 1 \in 1..n /\ (i + 1) - 1 = i
    BY <1>4
  <2>2. f[i + 1] = f[i] \o IdSeq(segs[i + 1])
    BY <1>2, <2>1
  <2>3. IdSeq(segs[i + 1]) \in Seq(Nat) /\ f[i] \in Seq(Nat)
    BY <1>1, <1>4, <2>1, IdSeqIs
  <2>4. f[i + 1] \in Seq(Nat)
    BY <2>2, <2>3, ConcatProperties
  <2> QED
    BY <2>1, <2>4
<1> HIDE DEF T
<1>5. n \in T
  <2>1. \A i \in 0..n : i \in T
    BY <1>3, <1>4, UpTo
  <2> QED
    BY <2>1
<1>6. PICK all \in Seq(Nat) : all = f[n]
  BY <1>5 DEF T
<1>7. PICK m \in Nat : /\ m = IF want < Len(all) THEN want ELSE Len(all)
                       /\ m <= want /\ m <= Len(all)
  BY LenProperties
<1>8. TakeAny(segs, want) = SubSeq(all, 1, m)
  BY <1>2, <1>6, <1>7 DEF TakeAny
<1>9. \A i \in 1..m : all[i] \in Nat
  BY <1>7, LenProperties, ElementOfSeq
<1>10. SubSeq(all, 1, m) \in Seq(Nat) /\ Len(SubSeq(all, 1, m)) = IF 1 <= m THEN m - 1 + 1 ELSE 0
  BY <1>9, SubSeqProperties
<1> QED
  BY <1>7, <1>8, <1>10

\* The ids taken and the ids left are the ids of the list.
THEOREM TakeAnyIds ==
    ASSUME NEW segs \in Seq(Segment), Canonical(segs), NEW want \in Nat
    PROVE  /\ Canonical(Without(segs, want))
           /\ Ids(segs) = ToSet(TakeAny(segs, want)) \cup Ids(Without(segs, want))
           /\ ToSet(TakeAny(segs, want)) \cap Ids(Without(segs, want)) = {}
<1>1. PICK all \in Seq(Nat) :
              /\ TakeAny(segs, want) = SubSeq(all, 1, IF want < Len(all) THEN want ELSE Len(all))
              /\ \A i, j \in DOMAIN all : all[i] = all[j] => i = j
              /\ Ids(segs) = ToSet(all)
              /\ Canonical(Without(segs, want))
              /\ Ids(Without(segs, want)) = {all[j] : j \in (want + 1)..Len(all)}
              /\ Len(all) <= want => Without(segs, want) = <<>>
  BY TakePlaces
<1>2. PICK L \in Nat, m \in Nat : /\ L = Len(all) /\ DOMAIN all = 1..L
                                  /\ m = IF want < Len(all) THEN want ELSE Len(all)
                                  /\ \A i \in 1..L : all[i] \in Nat
  BY LenProperties, ElementOfSeq
<1>3. m <= L /\ m <= want /\ (\A j \in 1..L : j \in 1..m \/ j \in (want + 1)..L)
      /\ (\A j \in 1..m : j \in 1..L /\ j \notin (want + 1)..L)
      /\ (\A j \in (want + 1)..L : j \in 1..L)
  BY <1>2
<1>4. ToSet(TakeAny(segs, want)) = {all[j] : j \in 1..m}
  <2>1. \A i \in 1..m : all[i] \in Nat
    BY <1>2, <1>3
  <2>2. PICK t : t = SubSeq(all, 1, m)
    OBVIOUS
  <2>3. /\ t \in Seq(Nat) /\ Len(t) = IF 1 <= m THEN m - 1 + 1 ELSE 0
        /\ \A i \in 1..(m - 1 + 1) : t[i] = all[1 + i - 1]
    BY <2>1, <2>2, SubSeqProperties
  <2>4. DOMAIN t = 1..m
    BY <2>3, LenProperties
  <2>5. ASSUME NEW i \in 1..m PROVE t[i] = all[i]
    <3>1. i \in 1..(m - 1 + 1) /\ 1 + i - 1 = i
      OBVIOUS
    <3> QED
      BY <2>3, <3>1
  <2>6. TakeAny(segs, want) = t
    BY <1>1, <1>2, <2>2
  <2> QED
    BY <2>4, <2>5, <2>6 DEF ToSet
<1>5. ToSet(all) = {all[j] : j \in 1..L}
  BY <1>2 DEF ToSet
<1>6. Ids(Without(segs, want)) = {all[j] : j \in (want + 1)..L}
  BY <1>1, <1>2
<1>7. Ids(segs) = ToSet(TakeAny(segs, want)) \cup Ids(Without(segs, want))
  BY <1>1, <1>3, <1>4, <1>5, <1>6
<1>8. ToSet(TakeAny(segs, want)) \cap Ids(Without(segs, want)) = {}
  <2>1. \A i, j \in 1..L : all[i] = all[j] => i = j
    BY <1>1, <1>2
  <2>2. ASSUME NEW i \in 1..m, NEW j \in (want + 1)..L PROVE all[i] # all[j]
    BY <1>3, <2>1, <2>2
  <2> QED
    BY <1>4, <1>6, <2>2
<1> QED
  BY <1>1, <1>7, <1>8

LEMMA FirstFitIs ==
    ASSUME NEW segs \in Seq(Segment), NEW want \in Nat
    PROVE  \/ FirstFit(segs, want) = 0 /\ \A i \in DOMAIN segs : segs[i].numValues < want
           \/ /\ FirstFit(segs, want) \in DOMAIN segs
              /\ segs[FirstFit(segs, want)].numValues >= want
<1>1. PICK n \in Nat : n = Len(segs) /\ DOMAIN segs = 1..n /\ \A i \in 1..n : segs[i].numValues \in Nat
  BY LenProperties, ElementOfSeq, SegFields
<1> DEFINE I == {i \in 1..n : segs[i].numValues >= want}
<1>2. FirstFit(segs, want) = IF I # {} THEN Min(I) ELSE 0
  BY <1>1 DEF FirstFit, SelectInSeq
<1>3. CASE I = {}
  <2>1. \A i \in 1..n : segs[i].numValues < want
    BY <1>1, <1>3
  <2> QED
    BY <1>1, <1>2, <1>3, <2>1
<1>4. CASE I # {}
  <2>1. I \in SUBSET (1..n)
    OBVIOUS
  <2>2. Min(I) \in I
    <3> HIDE DEF I
    <3> QED
      BY <1>4, <2>1, LeastIn
  <2>3. FirstFit(segs, want) \in I
    BY <1>2, <1>4, <2>2
  <2> QED
    BY <1>1, <2>3
<1> QED
  BY <1>3, <1>4

\* The ids of a run that is taken from segment i.
LEMMA RunIds ==
    ASSUME NEW s \in Segment, NEW want \in Nat, want > 0, want <= s.numValues
    PROVE  /\ SubSeq(IdSeq(s), 1, want) \in Seq(Nat)
           /\ ToSet(SubSeq(IdSeq(s), 1, want)) = s.startValue..(s.startValue + want - 1)
           /\ s.startValue..(s.startValue + want - 1) \subseteq IdsOf(s)
<1>1. PICK a \in Nat, k \in Nat : a = s.startValue /\ k = s.numValues
  BY SegFields
<1>2. \A j \in 1..want : IdSeq(s)[j] = a + j - 1 /\ IdSeq(s)[j] \in Nat
  <2>1. \A j \in 1..k : IdSeq(s)[j] = a + j - 1
    BY <1>1, IdSeqIs
  <2>2. \A j \in 1..want : j \in 1..k /\ a + j - 1 \in Nat
    BY <1>1
  <2> QED
    BY <2>1, <2>2
<1>3. PICK t : t = SubSeq(IdSeq(s), 1, want)
  OBVIOUS
<1>4. /\ t \in Seq(Nat) /\ Len(t) = IF 1 <= want THEN want - 1 + 1 ELSE 0
      /\ \A i \in 1..(want - 1 + 1) : t[i] = IdSeq(s)[1 + i - 1]
  BY <1>2, <1>3, SubSeqProperties
<1>5. DOMAIN t = 1..want
  BY <1>4, LenProperties
<1>6. ASSUME NEW i \in 1..want PROVE t[i] = a + i - 1
  <2>1. i \in 1..(want - 1 + 1) /\ 1 + i - 1 = i
    OBVIOUS
  <2> QED
    BY <1>2, <1>4, <2>1
<1>7. ToSet(t) = a..(a + want - 1)
  <2>1. ASSUME NEW x \in ToSet(t) PROVE x \in a..(a + want - 1)
    <3>1. PICK i \in 1..want : x = t[i]
      BY <1>5 DEF ToSet
    <3> QED
      BY <1>6, <3>1
  <2>2. ASSUME NEW x \in a..(a + want - 1) PROVE x \in ToSet(t)
    <3>1. PICK i \in 1..want : i = x - a + 1
      OBVIOUS
    <3>2. a + i - 1 = x
      BY <3>1
    <3>3. t[i] = x
      BY <1>6, <3>2
    <3> QED
      BY <1>5, <3>3 DEF ToSet
  <2> QED
    BY <2>1, <2>2
<1>8. a..(a + want - 1) \subseteq a..(a + k - 1)
  BY <1>1
<1>9. IdsOf(s) = a..(a + k - 1)
  BY <1>1 DEF IdsOf, End
<1> QED
  BY <1>1, <1>3, <1>4, <1>7, <1>8, <1>9

\* The rest of the list without segment i.
LEMMA RemoveIs ==
    ASSUME NEW segs \in Seq(Segment), NEW i \in DOMAIN segs
    PROVE  /\ RemoveAt(segs, i) \in Seq(Segment) /\ Len(RemoveAt(segs, i)) = Len(segs) - 1
           /\ \A j \in 1..(Len(segs) - 1) :
                 RemoveAt(segs, i)[j] = IF j < i THEN segs[j] ELSE segs[j + 1]
<1>1. PICK n \in Nat : n = Len(segs) /\ DOMAIN segs = 1..n /\ \A j \in 1..n : segs[j] \in Segment
  BY LenProperties, ElementOfSeq
<1>2. PICK t, u : t = SubSeq(segs, 1, i - 1) /\ u = SubSeq(segs, i + 1, n)
  OBVIOUS
<1>3. RemoveAt(segs, i) = t \o u
  BY <1>1, <1>2 DEF RemoveAt
<1>i. i \in 1..n
  BY <1>1
<1>4. /\ t \in Seq(Segment) /\ Len(t) = i - 1
      /\ \A j \in 1..(i - 1) : t[j] = segs[j]
  <2>1. \A j \in 1..(i - 1) : segs[j] \in Segment
    BY <1>1, <1>i
  <2>2. /\ t \in Seq(Segment) /\ Len(t) = IF 1 <= i - 1 THEN i - 1 - 1 + 1 ELSE 0
        /\ \A j \in 1..(i - 1 - 1 + 1) : t[j] = segs[1 + j - 1]
    <3>1. 1 \in Int /\ i - 1 \in Int
      BY <1>i
    <3>2. t = SubSeq(segs, 1, i - 1)
      BY <1>2
    <3> QED
      BY <2>1, <3>1, <3>2, SubSeqProperties
  <2>3. Len(t) = i - 1
    BY <1>i, <2>2
  <2>4. ASSUME NEW j \in 1..(i - 1) PROVE t[j] = segs[j]
    <3>1. j \in 1..(i - 1 - 1 + 1) /\ 1 + j - 1 = j
      BY <1>i
    <3> QED
      BY <2>2, <3>1
  <2> QED
    BY <2>2, <2>3, <2>4
<1>5. /\ u \in Seq(Segment) /\ Len(u) = n - i
      /\ \A j \in 1..(n - i) : u[j] = segs[i + j]
  <2>1. \A j \in (i + 1)..n : segs[j] \in Segment
    BY <1>1, <1>i
  <2>2. /\ u \in Seq(Segment) /\ Len(u) = IF i + 1 <= n THEN n - (i + 1) + 1 ELSE 0
        /\ \A j \in 1..(n - (i + 1) + 1) : u[j] = segs[i + 1 + j - 1]
    BY <1>2, <1>i, <2>1, SubSeqProperties
  <2>3. Len(u) = n - i
    BY <1>i, <2>2
  <2>4. ASSUME NEW j \in 1..(n - i) PROVE u[j] = segs[i + j]
    <3>1. j \in 1..(n - (i + 1) + 1) /\ i + 1 + j - 1 = i + j
      BY <1>i
    <3> QED
      BY <2>2, <3>1
  <2> QED
    BY <2>2, <2>3, <2>4
<1>6. /\ t \o u \in Seq(Segment) /\ Len(t \o u) = Len(t) + Len(u)
      /\ \A j \in 1..(Len(t) + Len(u)) : (t \o u)[j] = IF j <= Len(t) THEN t[j] ELSE u[j - Len(t)]
  BY <1>4, <1>5, ConcatProperties
<1>7. Len(t) + Len(u) = n - 1
  BY <1>4, <1>5, <1>i
<1>8. ASSUME NEW j \in 1..(n - 1) PROVE (t \o u)[j] = IF j < i THEN segs[j] ELSE segs[j + 1]
  <2>1. (t \o u)[j] = IF j <= i - 1 THEN t[j] ELSE u[j - (i - 1)]
    BY <1>4, <1>6, <1>7
  <2>2. CASE j < i
    <3>1. j \in 1..(i - 1) /\ j <= i - 1
      BY <1>i, <2>2
    <3> QED
      BY <1>4, <2>1, <2>2, <3>1
  <2>3. CASE ~(j < i)
    <3>1. ~(j <= i - 1) /\ j - (i - 1) \in 1..(n - i) /\ i + (j - (i - 1)) = j + 1
      BY <1>i, <2>3
    <3>2. u[j - (i - 1)] = segs[i + (j - (i - 1))]
      BY <1>5, <3>1
    <3> QED
      BY <2>1, <2>3, <3>1, <3>2
  <2> QED
    BY <2>2, <2>3
<1> QED
  BY <1>1, <1>3, <1>6, <1>7, <1>8

\* The list with rest in the place of segment i.
LEMMA ReplaceIs ==
    ASSUME NEW segs \in Seq(Segment), NEW i \in DOMAIN segs, NEW rest \in Segment
    PROVE  /\ [segs EXCEPT ![i] = rest] \in Seq(Segment)
           /\ Len([segs EXCEPT ![i] = rest]) = Len(segs)
           /\ \A j \in DOMAIN segs : [segs EXCEPT ![i] = rest][j] = IF j = i THEN rest ELSE segs[j]
<1>1. PICK n \in Nat : n = Len(segs) /\ DOMAIN segs = 1..n /\ \A j \in 1..n : segs[j] \in Segment
  BY LenProperties, ElementOfSeq
<1>2. segs \in [1..n -> Segment]
  BY <1>1, LenProperties
<1>3. PICK t : t = [segs EXCEPT ![i] = rest]
  OBVIOUS
<1>4. t \in [1..n -> Segment] /\ \A j \in 1..n : t[j] = IF j = i THEN rest ELSE segs[j]
  BY <1>2, <1>3
<1>5. t \in Seq(Segment)
  BY <1>4, IsASeq
<1>6. Len(t) = n
  BY <1>4, <1>5, LenProperties
<1> QED
  BY <1>1, <1>3, <1>4, <1>5, <1>6

\* The first ids of a segment are taken from a list.
LEMMA TakeRunType ==
    ASSUME NEW segs \in Seq(Segment), NEW i \in DOMAIN segs, NEW want \in Nat,
           want <= segs[i].numValues
    PROVE  TakeRun(segs, i, want) \in Seq(Segment)
<1>1. PICK a \in Nat, k \in Nat : a = segs[i].startValue /\ k = segs[i].numValues
  BY ElementOfSeq, SegFields, LenProperties
<1>2. PICK rest : rest = Seg(a + want, k - want)
  OBVIOUS
<1>3. TakeRun(segs, i, want) = IF rest.numValues = 0 THEN RemoveAt(segs, i)
                               ELSE [segs EXCEPT ![i] = rest]
  BY <1>1, <1>2 DEF TakeRun
<1>4. rest \in Segment
  <2>1. a + want \in Nat /\ k - want \in Nat
    BY <1>1
  <2> QED
    BY <1>2, <2>1, SegType
<1> QED
  BY <1>3, <1>4, RemoveIs, ReplaceIs

\* n consecutive ids are taken from one segment, and no others.
THEOREM TakeRunIds ==
    ASSUME NEW segs \in Seq(Segment), Canonical(segs), NEW i \in DOMAIN segs, NEW want \in Nat,
           want > 0, want <= segs[i].numValues,
           NEW a, a = segs[i].startValue
    PROVE  /\ Canonical(TakeRun(segs, i, want))
           /\ Ids(TakeRun(segs, i, want)) = Ids(segs) \ a..(a + want - 1)
<1>1. PICK n \in Nat : n = Len(segs) /\ DOMAIN segs = 1..n /\ \A j \in 1..n : segs[j] \in Segment
  BY LenProperties, ElementOfSeq
<1>2. PICK k \in Nat : k = segs[i].numValues /\ a \in Nat /\ i \in 1..n
  BY <1>1, SegFields
<1>3. PICK rest : rest = Seg(a + want, k - want)
  OBVIOUS
<1>4. PICK t : t = TakeRun(segs, i, want)
  OBVIOUS
<1>5. t = IF rest.numValues = 0 THEN RemoveAt(segs, i) ELSE [segs EXCEPT ![i] = rest]
  BY <1>2, <1>3, <1>4 DEF TakeRun
<1>6. rest \in Segment /\ rest.startValue = a + want /\ rest.numValues = k - want
  <2>1. a + want \in Nat /\ k - want \in Nat
    BY <1>2
  <2> QED
    BY <1>3, <2>1, SegType
<1>7. \A j \in 1..n : segs[j].startValue \in Nat /\ End(segs[j]) \in Int /\ segs[j].numValues \in Nat
  BY <1>1, SegFields
<1>8. /\ \A j \in 1..n : segs[j].numValues > 0
      /\ \A j \in 1..(n - 1) : End(segs[j]) + 1 < segs[j + 1].startValue
  BY <1>1 DEF Canonical
<1>9. End(segs[i]) = a + k - 1 /\ IdsOf(segs[i]) = a..(a + k - 1)
  BY <1>2 DEF End, IdsOf
<1>10. \A j \in 1..n : j # i => IdsOf(segs[j]) \cap a..(a + k - 1) = {}
  <2>1. Apart(segs)
    BY CanonicalOrdered, OrderedIsApart
  <2> QED
    BY <1>1, <1>2, <1>9, <2>1 DEF Apart
<1>11. \A x : x \in Ids(segs) <=> \E j \in 1..n : x \in IdsOf(segs[j])
  BY <1>1 DEF Ids
<1>12. ASSUME k = want
       PROVE  Canonical(t) /\ Ids(t) = Ids(segs) \ a..(a + want - 1)
  <2>1. t = RemoveAt(segs, i)
    BY <1>5, <1>6, <1>12
  <2>2. /\ t \in Seq(Segment) /\ Len(t) = n - 1
        /\ \A j \in 1..(n - 1) : t[j] = IF j < i THEN segs[j] ELSE segs[j + 1]
    BY <1>1, <2>1, RemoveIs
  <2>3. DOMAIN t = 1..(n - 1)
    BY <2>2, LenProperties
  <2>4. ASSUME NEW j \in 1..(n - 1) PROVE t[j].numValues > 0
    <3>1. j \in 1..n /\ j + 1 \in 1..n
      BY <1>1
    <3> QED
      BY <1>8, <2>2, <3>1
  <2>5. ASSUME NEW j \in 1..((n - 1) - 1) PROVE End(t[j]) + 1 < t[j + 1].startValue
    <3>1. /\ j \in 1..(n - 1) /\ j + 1 \in 1..(n - 1) /\ j \in 1..n /\ j + 1 \in 1..n
          /\ j + 1 + 1 \in 1..n
      BY <1>1
    <3>2. /\ t[j] = IF j < i THEN segs[j] ELSE segs[j + 1]
          /\ t[j + 1] = IF j + 1 < i THEN segs[j + 1] ELSE segs[j + 1 + 1]
      BY <2>2, <3>1
    <3>3. End(segs[j]) + 1 < segs[j + 1].startValue
      BY <1>8, <3>1
    <3>4. End(segs[j + 1]) + 1 < segs[j + 1 + 1].startValue
      BY <1>8, <3>1
    <3>5. CASE j + 1 < i
      <4>1. j < i
        BY <1>2, <3>1, <3>5
      <4> QED
        BY <3>2, <3>3, <3>5, <4>1
    <3>6. CASE j + 1 = i
      <4>1. j < i
        BY <1>2, <3>1, <3>6
      <4>2. t[j] = segs[j] /\ t[j + 1] = segs[j + 1 + 1]
        BY <3>2, <3>6, <4>1
      <4>3. segs[j + 1].startValue <= End(segs[j + 1])
        <5>1. PICK b \in Nat, h \in Nat : b = segs[j + 1].startValue /\ h = segs[j + 1].numValues
          BY <1>7, <3>1
        <5>2. h > 0
          BY <1>8, <3>1, <5>1
        <5> QED
          BY <5>1, <5>2 DEF End
      <4>4. PICK e \in Int, b \in Nat, h \in Int, c \in Nat :
               /\ e = End(segs[j]) /\ b = segs[j + 1].startValue
               /\ h = End(segs[j + 1]) /\ c = segs[j + 1 + 1].startValue
        BY <1>7, <3>1
      <4>5. e + 1 < c
        <5>1. e + 1 < b /\ b <= h /\ h + 1 < c
          BY <3>3, <3>4, <4>3, <4>4
        <5> QED
          BY <5>1
      <4> QED
        BY <4>2, <4>4, <4>5
    <3>7. CASE j + 1 > i
      <4>1. ~(j < i) /\ ~(j + 1 < i)
        BY <1>2, <3>1, <3>7
      <4> QED
        BY <3>2, <3>4, <4>1
    <3> QED
      BY <1>2, <3>1, <3>5, <3>6, <3>7
  <2>6. Canonical(t)
    BY <2>2, <2>3, <2>4, <2>5 DEF Canonical
  <2>7. \A x : x \in Ids(t) <=> \E j \in 1..(n - 1) : x \in IdsOf(t[j])
    BY <2>3 DEF Ids
  <2>8. ASSUME NEW x \in Ids(t) PROVE x \in Ids(segs) /\ x \notin a..(a + k - 1)
    <3>1. PICK j \in 1..(n - 1) : x \in IdsOf(t[j])
      BY <2>7
    <3>2. PICK m \in 1..n : m # i /\ t[j] = segs[m]
      <4>1. CASE j < i
        <5>1. j \in 1..n /\ j # i
          BY <1>2, <3>1, <4>1
        <5> QED
          BY <2>2, <4>1, <5>1
      <4>2. CASE ~(j < i)
        <5>1. j + 1 \in 1..n /\ j + 1 # i
          BY <1>2, <3>1, <4>2
        <5> QED
          BY <2>2, <4>2, <5>1
      <4> QED
        BY <4>1, <4>2
    <3> QED
      BY <1>10, <1>11, <3>1, <3>2
  <2>9. ASSUME NEW x \in Ids(segs), x \notin a..(a + k - 1) PROVE x \in Ids(t)
    <3>1. PICK m \in 1..n : x \in IdsOf(segs[m])
      BY <1>11
    <3>2. m # i
      BY <1>9, <2>9, <3>1
    <3>3. PICK j \in 1..(n - 1) : t[j] = segs[m]
      <4>1. CASE m < i
        <5>1. m \in 1..(n - 1)
          BY <1>2, <3>1, <4>1
        <5> QED
          BY <2>2, <4>1, <5>1
      <4>2. CASE i < m
        <5>1. m - 1 \in 1..(n - 1) /\ ~(m - 1 < i) /\ m - 1 + 1 = m
          BY <1>2, <3>1, <4>2
        <5>2. t[m - 1] = segs[m - 1 + 1]
          BY <2>2, <5>1
        <5> QED
          BY <5>1, <5>2
      <4> QED
        BY <1>2, <3>1, <3>2, <4>1, <4>2
    <3> QED
      BY <2>7, <3>1, <3>3
  <2> QED
    BY <1>12, <2>6, <2>8, <2>9
<1>13. ASSUME k # want
       PROVE  Canonical(t) /\ Ids(t) = Ids(segs) \ a..(a + want - 1)
  <2>1. want < k /\ k - want \in Nat \ {0}
    BY <1>2, <1>13
  <2>2. t = [segs EXCEPT ![i] = rest]
    BY <1>5, <1>6, <2>1
  <2>3. /\ t \in Seq(Segment) /\ Len(t) = n
        /\ \A j \in 1..n : t[j] = IF j = i THEN rest ELSE segs[j]
    BY <1>1, <1>6, <2>2, ReplaceIs
  <2>4. DOMAIN t = 1..n
    BY <2>3, LenProperties
  <2>5. End(rest) = a + k - 1 /\ IdsOf(rest) = (a + want)..(a + k - 1)
    <3>1. a + want + (k - want) - 1 = a + k - 1
      <4>1. a \in Nat /\ k \in Nat /\ want \in Nat
        BY <1>2
      <4> QED
        BY <4>1, SplitEnd
    <3> QED
      BY <1>6, <3>1 DEF End, IdsOf
  <2>6. ASSUME NEW j \in 1..n PROVE t[j].numValues > 0
    <3>1. rest.numValues > 0
      BY <1>6, <2>1
    <3> QED
      BY <1>8, <2>3, <3>1
  <2>7. \A j \in 1..n : End(t[j]) = End(segs[j])
    BY <1>9, <2>3, <2>5
  <2>8. \A j \in 1..n : t[j].startValue >= segs[j].startValue /\ t[j].startValue \in Nat
    <3> SUFFICES ASSUME NEW j \in 1..n
                 PROVE  t[j].startValue >= segs[j].startValue /\ t[j].startValue \in Nat
      OBVIOUS
    <3>1. rest.startValue >= a /\ rest.startValue \in Nat
      BY <1>2, <1>6
    <3>2. CASE j = i
      BY <2>3, <3>1, <3>2
    <3>3. CASE j # i
      BY <1>7, <2>3, <3>3
    <3> QED
      BY <3>2, <3>3
  <2>9. ASSUME NEW j \in 1..(n - 1) PROVE End(t[j]) + 1 < t[j + 1].startValue
    <3>1. j \in 1..n /\ j + 1 \in 1..n
      BY <1>1
    <3>2. PICK e \in Int, b \in Nat, c \in Nat :
             e = End(segs[j]) /\ b = segs[j + 1].startValue /\ c = t[j + 1].startValue
      BY <1>7, <2>8, <3>1
    <3>3. e + 1 < b /\ c >= b
      BY <1>8, <2>8, <3>1, <3>2
    <3>4. e + 1 < c
      BY <3>2, <3>3
    <3> QED
      BY <2>7, <3>1, <3>2, <3>4
  <2>10. Canonical(t)
    BY <2>3, <2>4, <2>6, <2>9 DEF Canonical
  <2>11. \A x : x \in Ids(t) <=> \E j \in 1..n : x \in IdsOf(t[j])
    BY <2>4 DEF Ids
  <2>12. \A x : x \in IdsOf(rest) <=> x \in a..(a + k - 1) /\ x \notin a..(a + want - 1)
    <3>1. want <= k
      BY <2>1
    <3>2. a \in Nat /\ k \in Nat /\ want \in Nat
      BY <1>2
    <3>3. \A x : x \in (a + want)..(a + k - 1)
                   <=> x \in a..(a + k - 1) /\ x \notin a..(a + want - 1)
      BY <3>1, <3>2, SplitRest, Zenon
    <3> QED
      BY <2>5, <3>3
  <2>13. a..(a + want - 1) \subseteq a..(a + k - 1)
    <3>1. want <= k
      BY <2>1
    <3>2. a \in Nat /\ k \in Nat /\ want \in Nat
      BY <1>2
    <3> QED
      BY <3>1, <3>2, SplitFirst, Zenon
  <2>14. ASSUME NEW x \in Ids(t) PROVE x \in Ids(segs) /\ x \notin a..(a + want - 1)
    <3>1. PICK j \in 1..n : x \in IdsOf(t[j])
      BY <2>11
    <3>2. CASE j = i
      BY <1>9, <1>11, <2>3, <2>12, <3>1, <3>2
    <3>3. CASE j # i
      BY <1>10, <1>11, <2>3, <2>13, <3>1, <3>3
    <3> QED
      BY <3>2, <3>3
  <2>15. ASSUME NEW x \in Ids(segs), x \notin a..(a + want - 1) PROVE x \in Ids(t)
    <3>1. PICK j \in 1..n : x \in IdsOf(segs[j])
      BY <1>11
    <3>2. CASE j = i
      BY <1>9, <2>3, <2>11, <2>12, <2>15, <3>1, <3>2
    <3>3. CASE j # i
      BY <2>3, <2>11, <3>1, <3>3
    <3> QED
      BY <3>2, <3>3
  <2> QED
    BY <2>10, <2>14, <2>15
<1> QED
  BY <1>4, <1>12, <1>13

-----------------------------------------------------------------------------
(* Ids that are taken from the end of the list *)

LEMMA TakeTailType ==
    ASSUME NEW segs \in Seq(Segment), NEW want \in Nat, NEW junk \in Nat
    PROVE  TakeTail(segs, want, junk) \in Seq(Nat)
<1>1. PICK n \in Nat : n = Len(segs) /\ \A i \in 1..n : segs[i].startValue \in Nat
  BY LenProperties, ElementOfSeq, SegFields
<1>2. TakeTail(segs, want, junk) \in [1..want -> Nat]
  BY <1>1 DEF TakeTail
<1> QED
  BY <1>2, IsASeq

LEMMA TailTakenType ==
    ASSUME NEW segs \in Seq(Segment), NEW want \in Nat
    PROVE  TailTaken(segs, want) \in Seq(Segment)
<1>1. PICK n \in Nat : n = Len(segs) /\ DOMAIN segs = 1..n /\ \A i \in 1..n : segs[i] \in Segment
  BY LenProperties, ElementOfSeq
<1>2. \A i \in 1..n : [segs[i] EXCEPT !.startValue = @ + 1] \in Segment
  <2>1. ASSUME NEW s \in Segment PROVE [s EXCEPT !.startValue = @ + 1] \in Segment
    <3>1. PICK v \in Nat : v = s.startValue + 1
      BY DEF Segment
    <3>2. [s EXCEPT !.startValue = v] \in Segment
      BY DEF Segment
    <3> QED
      BY <3>1, <3>2
  <2> QED
    BY <1>1, <2>1
<1>3. PICK t : t = [i \in DOMAIN segs |->
                    IF i <= want THEN [segs[i] EXCEPT !.startValue = @ + 1] ELSE segs[i]]
  OBVIOUS
<1>4. t \in [1..n -> Segment]
  BY <1>1, <1>2, <1>3
<1>5. t \in Seq(Segment) /\ Len(t) = n
  BY <1>4, IsASeq, LenProperties
<1>6. TailTaken(segs, want) = SubSeq(t, 1, n - 1)
  BY <1>3, <1>5 DEF TailTaken, Front
<1>7. \A i \in 1..(n - 1) : t[i] \in Segment
  BY <1>4
<1> QED
  BY <1>1, <1>6, <1>7, SubSeqProperties

-----------------------------------------------------------------------------
(* Records of a lastid table *)

LEMMA RecType == ASSUME NEW k \in Keys, NEW v \in Nat
                 PROVE  Rec(k, v) \in Record /\ Rec(k, v).keyname = k /\ Rec(k, v).keyvalue = v
BY DEF Rec, Record

\* The record of a keyname is the first one with it.
LEMMA RecordOfIs ==
    ASSUME NEW t \in Seq(Record), NEW k
    PROVE  /\ RecordOf(t, k) \in 0..Len(t)
           /\ RecordOf(t, k) = 0 => \A i \in 1..Len(t) : t[i].keyname # k
           /\ RecordOf(t, k) # 0 =>
                 /\ t[RecordOf(t, k)].keyname = k
                 /\ \A i \in 1..Len(t) : i < RecordOf(t, k) => t[i].keyname # k
<1>1. PICK n \in Nat : n = Len(t)
  BY LenProperties
<1> DEFINE I == {i \in 1..n : t[i].keyname = k}
<1>2. RecordOf(t, k) = IF I # {} THEN Min(I) ELSE 0
  BY <1>1 DEF RecordOf, SelectInSeq
<1>3. CASE I = {}
  <2>1. \A i \in 1..n : t[i].keyname # k
    BY <1>1, <1>3
  <2>2. 0 \in 0..n
    OBVIOUS
  <2> QED
    BY <1>1, <1>2, <1>3, <2>1, <2>2
<1>4. CASE I # {}
  <2>1. I \in SUBSET (1..n)
    OBVIOUS
  <2>2. PICK m \in I : \A i \in I : m <= i
    <3>1. I \in SUBSET Nat
      OBVIOUS
    <3> HIDE DEF I
    <3> QED
      BY <1>4, <3>1, Least
  <2>3. Min(I) = m
    <3>1. I \in SUBSET Int
      OBVIOUS
    <3> HIDE DEF I
    <3> QED
      BY <2>2, <3>1, MinIs
  <2>4. RecordOf(t, k) = m /\ m \in 1..n /\ t[m].keyname = k
    BY <1>2, <1>4, <2>3
  <2>5. \A i \in 1..n : i < m => t[i].keyname # k
    <3> SUFFICES ASSUME NEW i \in 1..n, i < m, t[i].keyname = k PROVE FALSE
      OBVIOUS
    <3>1. i \in I
      OBVIOUS
    <3>2. m <= i
      BY <2>2, <3>1
    <3> QED
      BY <2>4, <3>2
  <2> QED
    BY <1>1, <2>4, <2>5
<1> QED
  BY <1>3, <1>4

LEMMA RecordIs ==
    ASSUME NEW t \in Seq(Record), NEW k, NEW m \in 1..Len(t), t[m].keyname = k,
           \A i \in 1..Len(t) : i < m => t[i].keyname # k
    PROVE  RecordOf(t, k) = m
<1>1. PICK n \in Nat : n = Len(t)
  BY LenProperties
<1>2. RecordOf(t, k) \in 0..n /\ RecordOf(t, k) # 0
  BY <1>1, RecordOfIs
<1>3. RecordOf(t, k) \in 1..n
  BY <1>2
<1>4. ~(m < RecordOf(t, k)) /\ ~(RecordOf(t, k) < m)
  BY <1>1, <1>3, RecordOfIs
<1> QED
  BY <1>1, <1>3, <1>4

LEMMA NoRecord ==
    ASSUME NEW t \in Seq(Record), NEW k, \A i \in 1..Len(t) : t[i].keyname # k
    PROVE  RecordOf(t, k) = 0
<1>1. PICK n \in Nat : n = Len(t)
  BY LenProperties
<1>2. RecordOf(t, k) \in 0..n
  BY <1>1, RecordOfIs
<1>3. RecordOf(t, k) \in 1..n => FALSE
  BY <1>1, RecordOfIs
<1> QED
  BY <1>2, <1>3

LEMMA ValueType == ASSUME NEW t \in Seq(Record), NEW k PROVE Value(t, k) \in Nat
<1>1. PICK n \in Nat : n = Len(t) /\ \A i \in 1..n : t[i] \in Record
  BY LenProperties, ElementOfSeq
<1>2. RecordOf(t, k) \in 0..n
  BY <1>1, RecordOfIs
<1>3. \A i \in 1..n : t[i].keyvalue \in Nat
  BY <1>1 DEF Record
<1>4. CASE RecordOf(t, k) = 0
  BY <1>4 DEF Value
<1>5. CASE RecordOf(t, k) # 0
  <2>1. RecordOf(t, k) \in 1..n
    BY <1>2, <1>5
  <2> QED
    BY <1>3, <1>5, <2>1 DEF Value
<1> QED
  BY <1>4, <1>5

\* A keyname has one record.
OneRecord(t) == \A i, j \in DOMAIN t : t[i].keyname = t[j].keyname => i = j

\* The place of a record that is read or that will be added.
Place(t, k) == IF RecordOf(t, k) = 0 THEN Len(t) + 1 ELSE RecordOf(t, k)

\* The table with a value for a keyname.
Store(t, k, v) == IF Place(t, k) > Len(t) THEN Append(t, Rec(k, v))
                  ELSE ReplaceAt(t, Place(t, k), Rec(k, v))

\* No other record changes.
LEMMA StoreIs ==
    ASSUME NEW t \in Seq(Record), NEW k \in Keys, NEW v \in Nat
    PROVE  /\ Store(t, k, v) \in Seq(Record)
           /\ Value(Store(t, k, v), k) = v /\ RecordOf(Store(t, k, v), k) = Place(t, k)
           /\ \A j \in Keys : j # k => /\ Value(Store(t, k, v), j) = Value(t, j)
                                     /\ RecordOf(Store(t, k, v), j) = RecordOf(t, j)
           /\ RecordOf(t, k) # 0 => Len(Store(t, k, v)) = Len(t)
           /\ OneRecord(t) => OneRecord(Store(t, k, v))
<1> PICK u : u = Store(t, k, v)
  OBVIOUS
<1>1. PICK n \in Nat : n = Len(t) /\ DOMAIN t = 1..n /\ \A i \in 1..n : t[i] \in Record
  BY LenProperties, ElementOfSeq
<1>2. PICK i \in 1..(n + 1) : i = Place(t, k) /\ (RecordOf(t, k) # 0 => i = RecordOf(t, k) /\ i \in 1..n)
  <2>1. RecordOf(t, k) \in 0..n
    BY <1>1, RecordOfIs
  <2> QED
    BY <1>1, <2>1 DEF Place
<1>3. PICK r \in Record : r = Rec(k, v) /\ r.keyname = k /\ r.keyvalue = v
  BY RecType
<1>4. PICK m \in Nat :
         /\ u \in Seq(Record) /\ Len(u) = m /\ i \in 1..m /\ m >= n /\ m <= n + 1
         /\ \A j \in 1..m : j # i => j \in 1..n /\ u[j] = t[j]
         /\ u[i] = r
         /\ RecordOf(t, k) # 0 => m = n
  <2>1. CASE i > n
    <3>1. i = n + 1 /\ RecordOf(t, k) = 0
      BY <1>2, <2>1
    <3>2. u = Append(t, r)
      BY <1>1, <1>2, <1>3, <2>1 DEF Store
    <3>3. /\ u \in Seq(Record) /\ Len(u) = n + 1
          /\ \A j \in 1..(n + 1) : j # n + 1 => u[j] = t[j]
          /\ u[n + 1] = r
      BY <1>1, <3>2, AppendProperties
    <3>4. \A j \in 1..(n + 1) : j # n + 1 => j \in 1..n
      OBVIOUS
    <3>5. n + 1 \in Nat /\ n + 1 >= n /\ n + 1 <= n + 1 /\ i \in 1..(n + 1)
      BY <3>1
    <3> QED
      BY <3>1, <3>3, <3>4, <3>5
  <2>2. CASE ~(i > n)
    <3>1. i \in 1..n /\ i <= n
      BY <2>2
    <3>2. u = [t EXCEPT ![i] = r]
      BY <1>1, <1>2, <1>3, <2>2 DEF ReplaceAt, Store
    <3>3. t \in [1..n -> Record]
      BY <1>1, LenProperties
    <3>4. u \in [1..n -> Record] /\ u[i] = r /\ \A j \in 1..n : j # i => u[j] = t[j]
      BY <3>1, <3>2, <3>3
    <3>5. u \in Seq(Record)
      <4>1. u \in [1..n -> Record]
        BY <3>4
      <4> QED
        BY <4>1, IsASeq
    <3>6. Len(u) = n
      BY <3>4, <3>5, LenProperties
    <3>7. n >= n /\ n <= n + 1
      OBVIOUS
    <3> QED
      BY <3>1, <3>4, <3>5, <3>6, <3>7
  <2> QED
    BY <2>1, <2>2
<1>5. \A j \in 1..n : t[j].keyname = k => i <= j
  <2>1. CASE RecordOf(t, k) = 0
    BY <1>1, <2>1, RecordOfIs
  <2>2. CASE RecordOf(t, k) # 0
    <3>1. i = RecordOf(t, k) /\ \A j \in 1..n : j < i => t[j].keyname # k
      BY <1>1, <1>2, <2>2, RecordOfIs
    <3> QED
      BY <3>1
  <2> QED
    BY <2>1, <2>2
<1>6. RecordOf(u, k) = i
  <2>1. i \in 1..Len(u) /\ u[i].keyname = k
    BY <1>3, <1>4
  <2>2. ASSUME NEW j \in 1..Len(u), j < i PROVE u[j].keyname # k
    <3>1. j # i /\ j \in 1..n /\ u[j] = t[j]
      BY <1>4, <2>2
    <3>2. ~(i <= j)
      BY <2>2, <3>1
    <3> QED
      BY <1>5, <3>1, <3>2
  <2> QED
    BY <1>4, <2>1, <2>2, RecordIs
<1>7. Value(u, k) = v
  <2>1. RecordOf(u, k) # 0
    BY <1>6
  <2> QED
    BY <1>3, <1>4, <1>6, <2>1 DEF Value
<1>8. \A l \in 1..n : t[l].keyname # k => l # i
  <2>1. RecordOf(t, k) # 0 => t[i].keyname = k
    BY <1>2, RecordOfIs
  <2>2. RecordOf(t, k) = 0 => i = n + 1
    BY <1>1, <1>2 DEF Place
  <2> QED
    BY <2>1, <2>2
<1>9. ASSUME NEW j \in Keys, j # k PROVE RecordOf(u, j) = RecordOf(t, j) /\ Value(u, j) = Value(t, j)
  <2>1. CASE RecordOf(t, j) = 0
    <3>1. \A l \in 1..Len(u) : u[l].keyname # j
      <4>1. \A l \in 1..n : t[l].keyname # j
        BY <1>1, <2>1, RecordOfIs
      <4> QED
        BY <1>3, <1>4, <1>9, <4>1
    <3>2. RecordOf(u, j) = 0
      BY <1>4, <3>1, NoRecord
    <3> QED
      BY <2>1, <3>2 DEF Value
  <2>2. CASE RecordOf(t, j) # 0
    <3>1. PICK l \in 1..n : l = RecordOf(t, j)
      <4>1. RecordOf(t, j) \in 0..n
        BY <1>1, RecordOfIs
      <4> QED
        BY <2>2, <4>1
    <3>2. t[l].keyname = j /\ \A h \in 1..n : h < l => t[h].keyname # j
      BY <1>1, <2>2, <3>1, RecordOfIs
    <3>3. l # i
      BY <1>8, <1>9, <3>2
    <3>4. l \in 1..m /\ u[l] = t[l]
      <4>1. l \in 1..m
        BY <1>4
      <4> QED
        BY <1>4, <3>3, <4>1
    <3>5. \A h \in 1..m : h < l => u[h].keyname # j
      BY <1>3, <1>4, <1>9, <3>2
    <3>6. RecordOf(u, j) = l
      <4>1. l \in 1..Len(u) /\ u[l].keyname = j /\ u \in Seq(Record)
        BY <1>4, <3>2, <3>4
      <4>2. \A h \in 1..Len(u) : h < l => u[h].keyname # j
        BY <1>4, <3>5
      <4> QED
        BY <4>1, <4>2, RecordIs
    <3> QED
      BY <3>1, <3>4, <3>6 DEF Value
  <2> QED
    BY <2>1, <2>2
<1>10. ASSUME OneRecord(t) PROVE OneRecord(u)
  <2>1. DOMAIN u = 1..m
    BY <1>4, LenProperties
  <2>2. \A l \in 1..n : t[l].keyname = k => l = i
    <3>1. RecordOf(t, k) = 0 => \A l \in 1..n : t[l].keyname # k
      BY <1>1, RecordOfIs
    <3>2. RecordOf(t, k) # 0 => t[i].keyname = k /\ i \in 1..n
      BY <1>2, RecordOfIs
    <3> QED
      BY <1>1, <1>10, <3>1, <3>2 DEF OneRecord
  <2>3. ASSUME NEW j \in 1..m, NEW l \in 1..m, u[j].keyname = u[l].keyname PROVE j = l
    <3>1. CASE j = i /\ l # i
      BY <1>3, <1>4, <2>2, <2>3, <3>1
    <3>2. CASE j # i /\ l = i
      BY <1>3, <1>4, <2>2, <2>3, <3>2
    <3>3. CASE j # i /\ l # i
      BY <1>1, <1>4, <1>10, <2>3, <3>3 DEF OneRecord
    <3> QED
      BY <3>1, <3>2, <3>3
  <2> QED
    BY <2>1, <2>3 DEF OneRecord
<1> QED
  BY <1>1, <1>2, <1>4, <1>6, <1>7, <1>9, <1>10

-----------------------------------------------------------------------------
(* Types *)

\* A request in progress: what it still wants is more than it has.
Asked(p) ==
    IF pc[p] = "idle" THEN op[p] = <<>>
    ELSE /\ p \in setup.procs /\ op[p] \in Op
         /\ Len(op[p].got) < op[p].n
         /\ op[p].tail => /\ op[p].got = <<>> /\ recycled[p][op[p].key] # <<>>
                          /\ Last(recycled[p][op[p].key]).numValues < op[p].n

Types == TypeOK /\ \A p \in Procs : Asked(p)

\* What the parameters allow.
LEMMA SetupIs ==
    ASSUME setup \in Setups
    PROVE  /\ setup.procs \subseteq Procs /\ setup.keys \subseteq Keys
           /\ setup.sizes \subseteq Sizes /\ setup.sizes \subseteq Nat \ {0}
           /\ setup.rowLock \in BOOLEAN /\ setup.max \in Nat /\ setup.modes \subseteq BOOLEAN
<1>1. setup \in Setup
  BY SetupsAssumption
<1> QED
  BY <1>1, SizesAssumption DEF Setup

\* An array of ids in use.
LEMMA ArrayIs ==
    ASSUME NEW S \in SUBSET Nat, NEW array \in Arrays(S)
    PROVE  /\ array \in Seq(Nat) /\ ToSet(array) \subseteq S
           /\ \A i, j \in DOMAIN array : array[i] = array[j] => i = j
<1>1. CASE \E i \in S : array = <<i>>
  <2>1. PICK x \in S : array = <<x>>
    BY <1>1
  <2>2. array \in Seq(Nat) /\ DOMAIN array = {1} /\ array[1] = x
    BY <2>1
  <2> QED
    BY <2>2 DEF ToSet
<1>2. CASE array \in S \X S /\ array[1] # array[2]
  <2>0. ASSUME NEW z \in S \X S PROVE z = <<z[1], z[2]>> /\ z[1] \in S /\ z[2] \in S
    OBVIOUS
  <2>1. PICK x \in S, y \in S : array = <<x, y>> /\ x # y
    BY <1>2, <2>0
  <2>2. array \in Seq(Nat) /\ DOMAIN array = {1, 2} /\ array[1] = x /\ array[2] = y
    BY <2>1
  <2> QED
    BY <2>1, <2>2 DEF ToSet
<1> QED
  BY <1>1, <1>2 DEF Arrays

\* The numbers of a request.
LEMMA RequestIs ==
    ASSUME Types, NEW p \in Procs, pc[p] # "idle"
    PROVE  /\ p \in setup.procs /\ op[p] \in Op
           /\ op[p].table \in Tables /\ op[p].key \in Keys
           /\ recycled[p][op[p].key] \in Seq(Segment)
           /\ Need(p) \in Nat /\ Need(p) > 0
           /\ Step(p) \in Nat /\ Step(p) >= Need(p)
           /\ op[p].value \in Nat /\ op[p].index \in Nat /\ op[p].got \in Seq(Nat)
           /\ op[p].n \in Nat /\ op[p].tail \in BOOLEAN
           /\ table[op[p].table] \in Seq(Record)
           /\ ~op[p].tail => Need(p) = op[p].n - Len(op[p].got)
<1>1. Asked(p) /\ TypeOK
  BY DEF Types
<1>2. /\ p \in setup.procs /\ op[p] \in Op /\ Len(op[p].got) < op[p].n
      /\ op[p].tail => /\ recycled[p][op[p].key] # <<>>
                       /\ Last(recycled[p][op[p].key]).numValues < op[p].n
  BY <1>1 DEF Asked
<1>3. /\ op[p].table \in Tables /\ op[p].key \in Keys /\ op[p].value \in Nat
      /\ op[p].index \in Nat /\ op[p].got \in Seq(Nat) /\ op[p].n \in Nat /\ op[p].tail \in BOOLEAN
  BY <1>2 DEF Op
<1>4. /\ recycled[p][op[p].key] \in Seq(Segment) /\ table[op[p].table] \in Seq(Record)
      /\ idIncrement[p][op[p].key] \in Increments
  BY <1>1, <1>3 DEF TypeOK
<1>5. idIncrement[p][op[p].key] \in Nat
  BY <1>4, IncrementsAssumption
<1>6. Need(p) \in Nat /\ Need(p) > 0
  <2>1. CASE op[p].tail
    <3>1. PICK segs \in Seq(Segment) : segs = recycled[p][op[p].key]
      BY <1>4
    <3>2. Last(segs) \in Segment
      <4>1. PICK l \in Nat \ {0} : l = Len(segs) /\ \A i \in 1..l : segs[i] \in Segment
        BY <1>2, <2>1, <3>1, EmptySeq, ElementOfSeq, LenProperties
      <4> QED
        BY <4>1 DEF Last
    <3>3. PICK b \in Nat, n \in Nat : b = Last(segs).numValues /\ n = op[p].n
      BY <1>3, <3>2, SegFields
    <3>4. Need(p) = n - b /\ b < n
      BY <1>2, <2>1, <3>1, <3>3 DEF Need
    <3> QED
      BY <3>3, <3>4
  <2>2. CASE ~op[p].tail
    <3>1. PICK b \in Nat, n \in Nat : b = Len(op[p].got) /\ n = op[p].n
      BY <1>3, LenProperties
    <3>2. Need(p) = n - b /\ b < n
      BY <1>2, <2>2, <3>1 DEF Need
    <3> QED
      BY <3>1, <3>2
  <2> QED
    BY <2>1, <2>2
<1>7. Step(p) \in Nat /\ Step(p) >= Need(p)
  <2>1. PICK d \in Nat, n \in Nat : d = idIncrement[p][op[p].key] /\ n = Need(p)
    BY <1>5, <1>6
  <2>2. Step(p) = IF n >= d THEN n ELSE d
    BY <2>1 DEF Step
  <2> QED
    BY <2>1, <2>2
<1>8. ~op[p].tail => Need(p) = op[p].n - Len(op[p].got)
  BY DEF Need
<1> QED
  BY <1>2, <1>3, <1>4, <1>6, <1>7, <1>8

\* The other processes' requests go on.
LEMMA OthersAsked ==
    ASSUME Types, NEW p \in Procs, Asked(p)', UNCHANGED setup,
           \A q \in Procs : q # p => /\ pc'[q] = pc[q] /\ op'[q] = op[q]
                                     /\ recycled'[q] = recycled[q]
    PROVE  \A q \in Procs : Asked(q)'
<1>1. ASSUME NEW q \in Procs, q # p PROVE Asked(q)'
  <2>1. Asked(q)
    BY DEF Types
  <2> QED
    BY <1>1, <2>1 DEF Asked
<1> QED
  BY <1>1

\* A request ends, or a process starts again.
LEMMA IdleTypes ==
    ASSUME Types, NEW p \in Procs, UNCHANGED setup,
           pc' = [pc EXCEPT ![p] = "idle"], op' = [op EXCEPT ![p] = <<>>],
           recycled' \in [Procs -> [Keys -> Seq(Segment)]],
           \A q \in Procs : q # p => recycled'[q] = recycled[q],
           idIncrement' \in [Procs -> [Keys -> Increments]],
           table' \in [Tables -> Seq(Record)],
           lock' \in [Tables -> [Keys -> Procs \cup {NoProc}]],
           held' \in [Procs -> [Tables -> [Keys -> SUBSET Nat]]]
    PROVE  Types'
<1>1. /\ setup \in Setups /\ pc \in [Procs -> {"idle", "read", "write"}]
      /\ op \in [Procs -> Op \cup {<<>>}]
  BY DEF Types, TypeOK
<1>2. /\ pc' \in [Procs -> {"idle", "read", "write"}] /\ op' \in [Procs -> Op \cup {<<>>}]
      /\ pc'[p] = "idle" /\ op'[p] = <<>>
  BY <1>1
<1>3. \A q \in Procs : q # p => pc'[q] = pc[q] /\ op'[q] = op[q]
  BY <1>1
<1>4. Asked(p)'
  BY <1>2 DEF Asked
<1>5. \A q \in Procs : Asked(q)'
  BY <1>3, <1>4, OthersAsked
<1>6. TypeOK'
  BY <1>1, <1>2 DEF TypeOK
<1> QED
  BY <1>5, <1>6 DEF Types

\* A process is handed ids, and keeps a list.
LEMMA GiveTypes ==
    ASSUME Types, NEW p \in Procs, NEW t \in Tables, NEW k \in Keys, NEW array \in Seq(Nat),
           Give(p, t, k, array), NEW segs \in Seq(Segment),
           recycled' = [recycled EXCEPT ![p][k] = segs], UNCHANGED <<setup, idIncrement>>,
           table' \in [Tables -> Seq(Record)],
           lock' \in [Tables -> [Keys -> Procs \cup {NoProc}]]
    PROVE  Types'
<1>1. /\ recycled \in [Procs -> [Keys -> Seq(Segment)]]
      /\ idIncrement \in [Procs -> [Keys -> Increments]]
      /\ held \in [Procs -> [Tables -> [Keys -> SUBSET Nat]]]
  BY DEF Types, TypeOK
<1>2. /\ recycled' \in [Procs -> [Keys -> Seq(Segment)]]
      /\ \A q \in Procs : q # p => recycled'[q] = recycled[q]
  BY <1>1
<1>3. ToSet(array) \in SUBSET Nat
  <2>1. PICK n \in Nat : n = Len(array) /\ DOMAIN array = 1..n /\ \A i \in 1..n : array[i] \in Nat
    BY LenProperties, ElementOfSeq
  <2> QED
    BY <2>1 DEF ToSet
<1>4. held' \in [Procs -> [Tables -> [Keys -> SUBSET Nat]]]
  <2>1. held' = [held EXCEPT ![p][t][k] = @ \cup ToSet(array)]
    BY DEF Give
  <2>2. held[p][t][k] \cup ToSet(array) \in SUBSET Nat
    BY <1>1, <1>3
  <2> QED
    BY <1>1, <2>1, <2>2
<1>5. pc' = [pc EXCEPT ![p] = "idle"] /\ op' = [op EXCEPT ![p] = <<>>]
  BY DEF Give
<1>6. idIncrement' \in [Procs -> [Keys -> Increments]]
  BY <1>1
<1> QED
  BY <1>2, <1>4, <1>5, <1>6, IdleTypes

\* A request goes on to the table.
LEMMA ReadTypes ==
    ASSUME Types, NEW p \in Procs, NEW k \in Keys, NEW o \in Op, o.key = k, p \in setup.procs,
           NEW segs \in Seq(Segment), recycled' = [recycled EXCEPT ![p][k] = segs],
           Len(o.got) < o.n,
           o.tail => o.got = <<>> /\ segs # <<>> /\ Last(segs).numValues < o.n,
           NEW s \in {"read", "write"}, pc' = [pc EXCEPT ![p] = s],
           op' = [op EXCEPT ![p] = o], UNCHANGED <<setup, idIncrement, table, held>>,
           lock' \in [Tables -> [Keys -> Procs \cup {NoProc}]]
    PROVE  Types'
<1>1. /\ recycled \in [Procs -> [Keys -> Seq(Segment)]]
      /\ setup \in Setups /\ pc \in [Procs -> {"idle", "read", "write"}]
      /\ op \in [Procs -> Op \cup {<<>>}]
      /\ idIncrement \in [Procs -> [Keys -> Increments]] /\ table \in [Tables -> Seq(Record)]
      /\ held \in [Procs -> [Tables -> [Keys -> SUBSET Nat]]]
  BY DEF Types, TypeOK
<1>2. /\ recycled' \in [Procs -> [Keys -> Seq(Segment)]] /\ recycled'[p][k] = segs
      /\ \A q \in Procs : q # p => recycled'[q] = recycled[q]
  BY <1>1
<1>3. /\ pc' \in [Procs -> {"idle", "read", "write"}] /\ pc'[p] = s
      /\ \A q \in Procs : q # p => pc'[q] = pc[q]
  BY <1>1
<1>4. /\ op' \in [Procs -> Op \cup {<<>>}] /\ op'[p] = o
      /\ \A q \in Procs : q # p => op'[q] = op[q]
  BY <1>1
<1>5. Asked(p)'
  BY <1>2, <1>3, <1>4 DEF Asked
<1>6. \A q \in Procs : Asked(q)'
  BY <1>2, <1>3, <1>4, <1>5, OthersAsked
<1>7. TypeOK'
  BY <1>1, <1>2, <1>3, <1>4 DEF TypeOK
<1> QED
  BY <1>6, <1>7 DEF Types

\* Ids are taken from the list, or the table is asked.
LEMMA RequestTypes ==
    ASSUME Types, NEW p \in setup.procs, NEW t \in Tables, NEW k \in setup.keys,
           NEW n \in setup.sizes, NEW c, RequestIds(p, t, k, n, c)
    PROVE  Types'
<1>1. /\ recycled \in [Procs -> [Keys -> Seq(Segment)]] /\ setup \in Setups
      /\ idIncrement \in [Procs -> [Keys -> Increments]] /\ table \in [Tables -> Seq(Record)]
      /\ lock \in [Tables -> [Keys -> Procs \cup {NoProc}]]
  BY DEF Types, TypeOK
<1>2. p \in Procs /\ k \in Keys /\ n \in Nat /\ n > 0
  BY <1>1, SetupIs
<1>3. PICK segs \in Seq(Segment) : segs = recycled[p][k]
  BY <1>1, <1>2
<1>4. /\ UNCHANGED <<setup, idIncrement, table, lock>>
      /\ \/ FromSegment(p, t, k, n) \/ ToTail(p, t, k, n)
         \/ FromList(p, t, k, n) \/ ToTable(p, t, k, n)
  BY DEF RequestIds
<1>5. /\ table' \in [Tables -> Seq(Record)]
      /\ lock' \in [Tables -> [Keys -> Procs \cup {NoProc}]]
  BY <1>1, <1>4
<1>6. CASE FromList(p, t, k, n)
  <2>1. Give(p, t, k, TakeAny(segs, n)) /\ recycled' = [recycled EXCEPT ![p][k] = Without(segs, n)]
    BY <1>3, <1>6 DEF FromList
  <2>2. TakeAny(segs, n) \in Seq(Nat) /\ Without(segs, n) \in Seq(Segment)
    BY <1>2, TakeAnyType, WithoutType
  <2> QED
    BY <1>2, <1>4, <1>5, <2>1, <2>2, GiveTypes
<1>7. CASE FromSegment(p, t, k, n)
  <2>1. PICK i : i = FirstFit(segs, n)
    OBVIOUS
  <2>2. /\ i # 0 /\ Give(p, t, k, SubSeq(IdSeq(segs[i]), 1, n))
        /\ recycled' = [recycled EXCEPT ![p][k] = TakeRun(segs, i, n)]
    BY <1>3, <1>7, <2>1 DEF FromSegment
  <2>3. i \in DOMAIN segs /\ segs[i].numValues >= n
    BY <1>2, <2>1, <2>2, FirstFitIs
  <2>4. segs[i] \in Segment
    BY <2>3, ElementOfSeq, LenProperties
  <2>5. PICK s \in Segment : s = segs[i]
    BY <2>4
  <2>6. n <= s.numValues
    BY <1>2, <2>3, <2>5, SegFields
  <2>7. SubSeq(IdSeq(s), 1, n) \in Seq(Nat)
    BY <1>2, <2>6, RunIds
  <2>8. TakeRun(segs, i, n) \in Seq(Segment)
    BY <1>2, <2>3, <2>5, <2>6, TakeRunType
  <2> QED
    BY <1>2, <1>4, <1>5, <2>2, <2>5, <2>7, <2>8, GiveTypes
<1>8. CASE ToTable(p, t, k, n)
  <2>1. PICK got : got = TakeAny(segs, n)
    OBVIOUS
  <2>2. PICK o : o = [table |-> t, key |-> k, n |-> n, consecutive |-> FALSE, got |-> got,
                      tail |-> FALSE, index |-> 0, value |-> 0]
    OBVIOUS
  <2>3. /\ Len(got) < n /\ pc' = [pc EXCEPT ![p] = "read"] /\ op' = [op EXCEPT ![p] = o]
        /\ recycled' = [recycled EXCEPT ![p][k] = Without(segs, n)] /\ UNCHANGED held
    BY <1>3, <1>8, <2>1, <2>2 DEF ToTable
  <2>4. got \in Seq(Nat) /\ Without(segs, n) \in Seq(Segment)
    BY <1>2, <2>1, TakeAnyType, WithoutType
  <2>5. o \in Op /\ o.key = k /\ o.got = got /\ o.n = n /\ o.tail = FALSE
    BY <1>2, <2>2, <2>4 DEF Op
  <2>6. Len(o.got) < o.n
    BY <2>3, <2>5
  <2> QED
    BY <1>2, <1>4, <1>5, <2>3, <2>4, <2>5, <2>6, ReadTypes
<1>9. CASE ToTail(p, t, k, n)
  <2>1. PICK o : o = [table |-> t, key |-> k, n |-> n, consecutive |-> TRUE, got |-> <<>>,
                      tail |-> segs # <<>>, index |-> 0, value |-> 0]
    OBVIOUS
  <2>2. /\ FirstFit(segs, n) = 0 /\ pc' = [pc EXCEPT ![p] = "read"]
        /\ op' = [op EXCEPT ![p] = o] /\ UNCHANGED <<recycled, held>>
    BY <1>3, <1>9, <2>1 DEF ToTail
  <2>3. <<>> \in Seq(Nat) /\ Len(<<>>) = 0
    OBVIOUS
  <2>4. o \in Op /\ o.key = k /\ o.got = <<>> /\ o.n = n /\ (o.tail <=> segs # <<>>)
    BY <1>2, <2>1, <2>3 DEF Op
  <2>5. Len(o.got) < o.n
    BY <1>2, <2>3, <2>4
  <2>6. recycled' = [recycled EXCEPT ![p][k] = segs]
    BY <1>1, <1>2, <1>3, <2>2
  <2>7. o.tail => o.got = <<>> /\ segs # <<>> /\ Last(segs).numValues < o.n
    <3> SUFFICES ASSUME segs # <<>> PROVE Last(segs).numValues < n
      BY <2>4
    <3>1. PICK l \in Nat \ {0} : l = Len(segs) /\ DOMAIN segs = 1..l
      BY EmptySeq, LenProperties
    <3>2. l \in DOMAIN segs /\ Last(segs) = segs[l]
      BY <3>1 DEF Last
    <3>3. \A i \in DOMAIN segs : segs[i].numValues < n
      <4>1. 0 \notin DOMAIN segs
        BY <3>1
      <4> QED
        BY <1>2, <2>2, <4>1, FirstFitIs
    <3> QED
      BY <3>2, <3>3
  <2> QED
    BY <1>2, <1>4, <1>5, <2>2, <2>4, <2>5, <2>6, <2>7, ReadTypes
<1> QED
  BY <1>4, <1>6, <1>7, <1>8, <1>9

\* p takes locks that are free, and gives up its own.
OwnLocks(p) ==
    /\ lock' \in [Tables -> [Keys -> Procs \cup {NoProc}]]
    /\ \A t \in Tables, k \in Keys : lock[t][k] \notin {NoProc, p} => lock'[t][k] = lock[t][k]

LEMMA LocksMove ==
    ASSUME Types, NEW p \in setup.procs,
           \/ ReadLastId(p) \/ WriteLastId(p)
           \/ RequestFails(p) \/ RequestFailsLocked(p) \/ Restart(p)
    PROVE  OwnLocks(p)
<1>1. p \in Procs /\ lock \in [Tables -> [Keys -> Procs \cup {NoProc}]]
  BY SetupIs DEF Types, TypeOK
<1>2. CASE UNCHANGED lock
  BY <1>1, <1>2 DEF OwnLocks
<1>3. ASSUME NEW T, Unlock(p, T) PROVE OwnLocks(p)
  <2>1. lock' \in [Tables -> [Keys -> Procs \cup {NoProc}]]
    BY <1>1, <1>3 DEF Unlock
  <2>2. ASSUME NEW t \in Tables, NEW k \in Keys, lock[t][k] # p PROVE lock'[t][k] = lock[t][k]
    BY <1>3, <2>2 DEF Unlock
  <2> QED
    BY <2>1, <2>2 DEF OwnLocks
<1>4. ASSUME NEW t \in Tables, NEW k \in Keys, lock[t][k] \in {NoProc, p},
             lock' = [lock EXCEPT ![t][k] = p]
      PROVE  OwnLocks(p)
  <2>1. lock' \in [Tables -> [Keys -> Procs \cup {NoProc}]]
    <3>1. lock[t] \in [Keys -> Procs \cup {NoProc}] /\ p \in Procs \cup {NoProc}
      BY <1>1
    <3>2. [lock[t] EXCEPT ![k] = p] \in [Keys -> Procs \cup {NoProc}]
      BY <3>1
    <3> QED
      BY <1>1, <1>4, <3>2
  <2>2. ASSUME NEW s \in Tables, NEW j \in Keys, lock[s][j] \notin {NoProc, p}
        PROVE  lock'[s][j] = lock[s][j]
    <3>1. ~(s = t /\ j = k)
      BY <1>4, <2>2
    <3> QED
      BY <1>1, <1>4, <3>1
  <2> QED
    BY <2>1, <2>2 DEF OwnLocks
<1>5. CASE ReadLastId(p)
  <2>1. pc[p] = "read"
    BY <1>5 DEF ReadLastId
  <2>2. PICK t \in Tables, k \in Keys : t = op[p].table /\ k = op[p].key
    BY <1>1, <2>1, RequestIs
  <2>3. /\ setup.rowLock => lock[t][k] \in {NoProc, p}
        /\ \/ lock' = IF setup.rowLock THEN [lock EXCEPT ![t][k] = p] ELSE lock
           \/ Unlock(p, {t})
    BY <1>5, <2>2 DEF ReadLastId
  <2> QED
    BY <1>2, <1>3, <1>4, <2>3
<1>6. CASE WriteLastId(p)
  <2>1. \E T : Unlock(p, T)
    BY <1>6 DEF WriteLastId
  <2> QED
    BY <1>3, <2>1
<1>7. CASE RequestFails(p)
  <2>1. \E T : Unlock(p, T)
    BY <1>7 DEF RequestFails
  <2> QED
    BY <1>3, <2>1
<1>8. CASE RequestFailsLocked(p)
  <2>1. pc[p] = "read"
    BY <1>8 DEF RequestFailsLocked
  <2>2. PICK t \in Tables, k \in Keys : t = op[p].table /\ k = op[p].key
    BY <1>1, <2>1, RequestIs
  <2>3. \/ UNCHANGED lock
        \/ lock[t][k] \in {NoProc, p} /\ lock' = [lock EXCEPT ![t][k] = p]
    BY <1>8, <2>2 DEF RequestFailsLocked
  <2> QED
    BY <1>2, <1>4, <2>3
<1>9. CASE Restart(p)
  <2>1. \E T : Unlock(p, T)
    BY <1>9 DEF Restart
  <2> QED
    BY <1>3, <2>1
<1> QED
  BY <1>5, <1>6, <1>7, <1>8, <1>9

\* The record is read.
LEMMA ReadLastIdTypes ==
    ASSUME Types, NEW p \in setup.procs, ReadLastId(p)
    PROVE  Types'
<1>1. /\ recycled \in [Procs -> [Keys -> Seq(Segment)]] /\ setup \in Setups
      /\ lock \in [Tables -> [Keys -> Procs \cup {NoProc}]]
      /\ op \in [Procs -> Op \cup {<<>>}] /\ pc \in [Procs -> {"idle", "read", "write"}]
  BY DEF Types, TypeOK
<1>2. p \in Procs /\ pc[p] = "read"
  BY <1>1, SetupIs DEF ReadLastId
<1>3. PICK t \in Tables, k \in Keys, o \in Op, segs \in Seq(Segment) :
         /\ t = op[p].table /\ k = op[p].key /\ o = op[p] /\ segs = recycled[p][k]
         /\ table[t] \in Seq(Record)
  BY <1>2, RequestIs
<1>4. PICK v \in Nat, i \in Nat : v = Value(table[t], k) /\ i = Place(table[t], k)
  <2>1. RecordOf(table[t], k) \in 0..Len(table[t]) /\ Len(table[t]) \in Nat
    BY <1>3, RecordOfIs, LenProperties
  <2>2. Place(table[t], k) \in Nat
    BY <2>1 DEF Place
  <2> QED
    BY <1>3, <2>2, ValueType
<1>5. recycled' = [recycled EXCEPT ![p][k] = segs] /\ UNCHANGED <<setup, idIncrement, table, held>>
  BY <1>1, <1>2, <1>3 DEF ReadLastId, lists
<1>6. /\ Len(o.got) < o.n
      /\ o.tail => o.got = <<>> /\ segs # <<>> /\ Last(segs).numValues < o.n
  BY <1>2, <1>3 DEF Types, Asked
<1>7. \/ /\ pc' = [pc EXCEPT ![p] = "write"]
         /\ op' = [op EXCEPT ![p].value = v, ![p].index = i]
      \/ op' = [op EXCEPT ![p].tail = FALSE] /\ UNCHANGED pc
  BY <1>3, <1>4 DEF ReadLastId, Place
<1>8. lock' \in [Tables -> [Keys -> Procs \cup {NoProc}]]
  BY LocksMove DEF OwnLocks
<1>9. CASE /\ pc' = [pc EXCEPT ![p] = "write"]
           /\ op' = [op EXCEPT ![p].value = v, ![p].index = i]
  <2>1. PICK u : u = [o EXCEPT !.value = v, !.index = i]
    OBVIOUS
  <2>2. /\ u \in Op /\ u.key = k /\ u.got = o.got /\ u.n = o.n /\ u.tail = o.tail
    BY <1>3, <2>1 DEF Op
  <2>3. op' = [op EXCEPT ![p] = u]
    BY <1>1, <1>2, <1>3, <1>9, <2>1
  <2>4. /\ Len(u.got) < u.n
        /\ u.tail => u.got = <<>> /\ segs # <<>> /\ Last(segs).numValues < u.n
    BY <1>6, <2>2
  <2> QED
    BY <1>2, <1>5, <1>8, <1>9, <2>2, <2>3, <2>4, ReadTypes
<1>10. CASE op' = [op EXCEPT ![p].tail = FALSE] /\ UNCHANGED pc
  <2>1. PICK u : u = [o EXCEPT !.tail = FALSE]
    OBVIOUS
  <2>2. /\ u \in Op /\ u.key = k /\ u.got = o.got /\ u.n = o.n /\ u.tail = FALSE
    BY <1>3, <2>1 DEF Op
  <2>3. op' = [op EXCEPT ![p] = u]
    BY <1>1, <1>2, <1>3, <1>10, <2>1
  <2>4. Len(u.got) < u.n /\ ~u.tail
    BY <1>6, <2>2
  <2>5. pc' = [pc EXCEPT ![p] = "read"]
    BY <1>1, <1>2, <1>10
  <2> QED
    BY <1>2, <1>5, <1>8, <2>2, <2>3, <2>4, <2>5, ReadTypes
<1> QED
  BY <1>7, <1>9, <1>10

\* What the write leaves in the list, and in the table.
LEMMA WriteIs ==
    ASSUME Types, NEW p \in Procs, pc[p] # "idle"
    PROVE  /\ Extras(p, recycled[p][op[p].key]) \in Seq(Segment)
           /\ Stored(p) \in Seq(Record)
<1>1. PICK k \in Keys, v \in Nat, i \in Nat, segs \in Seq(Segment), t \in Seq(Record) :
         /\ k = op[p].key /\ v = op[p].value /\ i = op[p].index /\ segs = recycled[p][k]
         /\ t = table[op[p].table]
  BY RequestIs
<1>2. PICK need \in Nat, step \in Nat : need = Need(p) /\ step = Step(p) /\ step >= need
  BY RequestIs
<1>3. Extras(p, segs) \in Seq(Segment)
  <2>1. CASE need >= step
    BY <1>2, <2>1 DEF Extras
  <2>2. CASE ~(need >= step)
    <3>1. v + need + 1 \in Nat /\ step - need \in Nat
      BY <1>2
    <3>2. Extras(p, segs) = AddRecycleSegment(segs, v + need + 1, step - need)
      BY <1>1, <1>2, <2>2 DEF Extras
    <3> QED
      BY <3>1, <3>2, AddType
  <2> QED
    BY <2>1, <2>2
<1>4. Stored(p) \in Seq(Record)
  <2>1. PICK r \in Record : r = Rec(k, v + step)
    <3>1. v + step \in Nat
      BY <1>2
    <3> QED
      BY <3>1, RecType
  <2>2. Stored(p) = IF i > Len(t) THEN Append(t, r) ELSE ReplaceAt(t, i, r)
    BY <1>1, <1>2, <2>1 DEF Stored
  <2>3. PICK n \in Nat : n = Len(t) /\ t \in [1..n -> Record]
    BY LenProperties
  <2>4. [t EXCEPT ![i] = r] \in [1..n -> Record]
    <3>1. [t EXCEPT ![i] = r] = [j \in 1..n |-> IF j = i THEN r ELSE t[j]]
      BY <2>3
    <3> QED
      BY <2>3, <3>1
  <2>5. [t EXCEPT ![i] = r] \in Seq(Record)
    <3> PICK u : u = [t EXCEPT ![i] = r]
      OBVIOUS
    <3>1. u \in [1..n -> Record]
      BY <2>4
    <3>2. \A j \in 1..n : u[j] \in Record
      BY <3>1
    <3>3. [j \in 1..n |-> u[j]] \in Seq(Record)
      BY <3>2, IsASeq
    <3>4. u = [j \in 1..n |-> u[j]]
      BY <3>1
    <3> QED
      BY <3>3, <3>4
  <2>6. Append(t, r) \in Seq(Record)
    BY AppendProperties
  <2> QED
    BY <2>2, <2>5, <2>6 DEF ReplaceAt
<1> QED
  BY <1>1, <1>3, <1>4

\* The record is written.
LEMMA WriteLastIdTypes ==
    ASSUME Types, NEW p \in setup.procs, WriteLastId(p)
    PROVE  Types'
<1>1. /\ recycled \in [Procs -> [Keys -> Seq(Segment)]] /\ setup \in Setups
      /\ lock \in [Tables -> [Keys -> Procs \cup {NoProc}]] /\ table \in [Tables -> Seq(Record)]
  BY DEF Types, TypeOK
<1>2. p \in Procs /\ pc[p] = "write"
  BY <1>1, SetupIs DEF WriteLastId
<1>3. PICK t \in Tables, k \in Keys, segs \in Seq(Segment) :
         t = op[p].table /\ k = op[p].key /\ segs = Extras(p, recycled[p][op[p].key])
  BY <1>2, RequestIs, WriteIs
<1>4. /\ table' = [table EXCEPT ![t] = Stored(p)] /\ UNCHANGED <<setup, idIncrement>>
      /\ IF op[p].tail
         THEN \E junk \in Junk :
                /\ Give(p, t, k, TakeTail(segs, op[p].n, junk))
                /\ recycled' = [recycled EXCEPT ![p][k] = TailTaken(segs, op[p].n)]
         ELSE /\ Give(p, t, k, op[p].got \o [i \in 1..Need(p) |-> op[p].value + i])
              /\ recycled' = [recycled EXCEPT ![p][k] = segs]
  BY <1>3 DEF WriteLastId
<1>5. table' \in [Tables -> Seq(Record)]
  <2>1. Stored(p) \in Seq(Record)
    BY <1>2, WriteIs
  <2> QED
    BY <1>1, <1>4, <2>1
<1>6. lock' \in [Tables -> [Keys -> Procs \cup {NoProc}]]
  BY LocksMove DEF OwnLocks
<1>7. CASE op[p].tail
  <2>1. PICK junk \in Junk :
          /\ Give(p, t, k, TakeTail(segs, op[p].n, junk))
          /\ recycled' = [recycled EXCEPT ![p][k] = TailTaken(segs, op[p].n)]
    BY <1>4, <1>7
  <2>2. op[p].n \in Nat /\ junk \in Nat
    BY <1>2, RequestIs, JunkAssumption
  <2>3. TakeTail(segs, op[p].n, junk) \in Seq(Nat) /\ TailTaken(segs, op[p].n) \in Seq(Segment)
    BY <2>2, TakeTailType, TailTakenType
  <2> QED
    BY <1>2, <1>4, <1>5, <1>6, <2>1, <2>3, GiveTypes
<1>8. CASE ~op[p].tail
  <2>1. PICK v \in Nat, need \in Nat, got \in Seq(Nat) :
           v = op[p].value /\ need = Need(p) /\ got = op[p].got
    BY <1>2, RequestIs
  <2>2. PICK new : new = [i \in 1..need |-> v + i]
    OBVIOUS
  <2>3. new \in Seq(Nat)
    <3>1. \A i \in 1..need : v + i \in Nat
      OBVIOUS
    <3> QED
      BY <2>2, <3>1, IsASeq
  <2>4. got \o new \in Seq(Nat)
    BY <2>3, ConcatProperties
  <2>5. /\ Give(p, t, k, got \o new)
        /\ recycled' = [recycled EXCEPT ![p][k] = segs]
    BY <1>4, <1>8, <2>1, <2>2
  <2> QED
    BY <1>2, <1>4, <1>5, <1>6, <2>4, <2>5, GiveTypes
<1> QED
  BY <1>7, <1>8

LEMMA NextTypes == ASSUME Types, Next PROVE Types'
<1>1. /\ recycled \in [Procs -> [Keys -> Seq(Segment)]] /\ setup \in Setups
      /\ lock \in [Tables -> [Keys -> Procs \cup {NoProc}]] /\ table \in [Tables -> Seq(Record)]
      /\ idIncrement \in [Procs -> [Keys -> Increments]]
      /\ held \in [Procs -> [Tables -> [Keys -> SUBSET Nat]]]
      /\ pc \in [Procs -> {"idle", "read", "write"}] /\ op \in [Procs -> Op \cup {<<>>}]
  BY DEF Types, TypeOK
<1>2. setup.procs \subseteq Procs /\ setup.keys \subseteq Keys
  BY <1>1, SetupIs
<1>3. ASSUME NEW p \in setup.procs, NEW k \in setup.keys, NEW n \in Increments,
             SetRequestIdIncrement(p, k, n)
      PROVE  Types'
  <2>1. p \in Procs /\ k \in Keys /\ pc[p] = "idle" /\ op[p] = <<>>
    BY <1>2, <1>3 DEF SetRequestIdIncrement, Types, Asked
  <2>2. /\ idIncrement' = [idIncrement EXCEPT ![p][k] = n]
        /\ UNCHANGED <<setup, recycled, table, lock, pc, op, held>>
    BY <1>3 DEF SetRequestIdIncrement
  <2>3. idIncrement' \in [Procs -> [Keys -> Increments]]
    BY <1>1, <2>1, <2>2
  <2>4. pc' = [pc EXCEPT ![p] = "idle"] /\ op' = [op EXCEPT ![p] = <<>>]
    BY <1>1, <2>1, <2>2
  <2> QED
    BY <1>1, <2>1, <2>2, <2>3, <2>4, IdleTypes
<1>4. ASSUME NEW p \in setup.procs, RequestFails(p) \/ RequestFailsLocked(p) PROVE Types'
  <2>1. p \in Procs /\ lock' \in [Tables -> [Keys -> Procs \cup {NoProc}]]
    BY <1>2, <1>4, LocksMove DEF OwnLocks
  <2>2. /\ pc' = [pc EXCEPT ![p] = "idle"] /\ op' = [op EXCEPT ![p] = <<>>]
        /\ UNCHANGED <<setup, recycled, idIncrement, table, held>>
    BY <1>4 DEF RequestFails, RequestFailsLocked, lists
  <2> QED
    BY <1>1, <2>1, <2>2, IdleTypes
<1>5. ASSUME NEW p \in setup.procs, NEW t \in Tables, NEW k \in setup.keys,
             NEW array \in Arrays(held[p][t][k]), Recycle(p, t, k, array)
      PROVE  Types'
  <2>1. p \in Procs /\ k \in Keys /\ pc[p] = "idle" /\ op[p] = <<>>
    BY <1>2, <1>5 DEF Recycle, Types, Asked
  <2>2. /\ recycled' = [recycled EXCEPT ![p][k] = RecycleIds(@, array)]
        /\ held' = [held EXCEPT ![p][t][k] = @ \ ToSet(array)]
        /\ UNCHANGED <<setup, idIncrement, table, lock, pc, op>>
    BY <1>5 DEF Recycle
  <2>3. PICK segs \in Seq(Segment) : segs = RecycleIds(recycled[p][k], array)
    <3>1. array \in Seq(Nat)
      <4>1. held[p][t][k] \in SUBSET Nat
        BY <1>1, <2>1
      <4> QED
        BY <4>1, ArrayIs
    <3>2. recycled[p][k] \in Seq(Segment)
      BY <1>1, <2>1
    <3> QED
      BY <3>1, <3>2, RecycleType
  <2>4. /\ recycled' \in [Procs -> [Keys -> Seq(Segment)]]
        /\ \A q \in Procs : q # p => recycled'[q] = recycled[q]
    BY <1>1, <2>1, <2>2, <2>3
  <2>5. held' \in [Procs -> [Tables -> [Keys -> SUBSET Nat]]]
    <3>1. held[p][t][k] \ ToSet(array) \in SUBSET Nat
      BY <1>1, <2>1
    <3> QED
      BY <1>1, <2>1, <2>2, <3>1
  <2>6. pc' = [pc EXCEPT ![p] = "idle"] /\ op' = [op EXCEPT ![p] = <<>>]
    BY <1>1, <2>1, <2>2
  <2> QED
    BY <1>1, <2>1, <2>2, <2>4, <2>5, <2>6, IdleTypes
<1>6. ASSUME NEW p \in setup.procs, Restart(p) PROVE Types'
  <2>1. p \in Procs /\ lock' \in [Tables -> [Keys -> Procs \cup {NoProc}]]
    BY <1>2, <1>6, LocksMove DEF OwnLocks
  <2>2. /\ pc' = [pc EXCEPT ![p] = "idle"] /\ op' = [op EXCEPT ![p] = <<>>]
        /\ recycled' = [recycled EXCEPT ![p] = [k \in Keys |-> <<>>]]
        /\ idIncrement' = [idIncrement EXCEPT ![p] = [k \in Keys |-> 1]]
        /\ UNCHANGED <<setup, table, held>>
    BY <1>6 DEF Restart
  <2>3. <<>> \in Seq(Segment) /\ 1 \in Increments
    BY IncrementsAssumption
  <2>4. /\ recycled' \in [Procs -> [Keys -> Seq(Segment)]]
        /\ \A q \in Procs : q # p => recycled'[q] = recycled[q]
    BY <1>1, <2>1, <2>2, <2>3
  <2>5. idIncrement' \in [Procs -> [Keys -> Increments]]
    BY <1>1, <2>1, <2>2, <2>3
  <2> QED
    BY <1>1, <2>1, <2>2, <2>4, <2>5, IdleTypes
<1> QED
  BY <1>3, <1>4, <1>5, <1>6, RequestTypes, ReadLastIdTypes, WriteLastIdTypes DEF Next

\* A table at the start: at most one record for each keyname, with the value 0.
LEMMA InitTable ==
    ASSUME Init, NEW t \in Tables
    PROVE  /\ table[t] \in Seq(Record) /\ OneRecord(table[t])
           /\ \A k \in Keys : Value(table[t], k) = 0
<1>1. setup.keys \subseteq Keys
  BY SetupIs DEF Init
<1>2. \/ \E s \in SetToSeqs(setup.keys) : table[t] = [i \in DOMAIN s |-> Rec(s[i], 0)]
      \/ table[t] = <<>>
  BY DEF Init
<1>3. CASE table[t] = <<>>
  <2>1. /\ table[t] \in Seq(Record) /\ Len(table[t]) = 0 /\ DOMAIN table[t] = {}
    BY <1>3
  <2>2. OneRecord(table[t])
    BY <2>1 DEF OneRecord
  <2>3. \A k \in Keys : RecordOf(table[t], k) = 0
    <3>1. \A k \in Keys : RecordOf(table[t], k) \in 0..0
      BY <2>1, RecordOfIs
    <3> QED
      BY <3>1
  <2> QED
    BY <2>1, <2>2, <2>3 DEF Value
<1>4. CASE \E s \in SetToSeqs(setup.keys) : table[t] = [i \in DOMAIN s |-> Rec(s[i], 0)]
  <2>1. PICK s \in SetToSeqs(setup.keys) : table[t] = [i \in DOMAIN s |-> Rec(s[i], 0)]
    BY <1>4
  <2>2. PICK n \in Nat : n = Cardinality(setup.keys)
    BY <1>1, KeysAssumption, FS_Subset, FS_CardinalityType
  <2>3. s \in [1..n -> setup.keys] /\ \A i, j \in 1..n : i # j => s[i] # s[j]
    BY <2>2 DEF SetToSeqs
  <2>4. PICK u : u = table[t]
    OBVIOUS
  <2>5. u = [i \in 1..n |-> Rec(s[i], 0)] /\ \A i \in 1..n : s[i] \in Keys
    BY <1>1, <2>1, <2>3, <2>4
  <2>6. \A i \in 1..n : /\ u[i] = Rec(s[i], 0) /\ u[i] \in Record
                        /\ u[i].keyname = s[i] /\ u[i].keyvalue = 0
    BY <2>5, RecType
  <2>7. u \in Seq(Record) /\ Len(u) = n /\ DOMAIN u = 1..n
    <3>1. u \in [1..n -> Record]
      BY <2>5, <2>6
    <3>2. \A i \in 1..n : u[i] \in Record
      BY <2>6
    <3>3. [i \in 1..n |-> u[i]] \in Seq(Record)
      BY <3>2, IsASeq
    <3>4. u = [i \in 1..n |-> u[i]]
      BY <3>1
    <3>5. u \in Seq(Record) /\ DOMAIN u = 1..n
      BY <3>1, <3>3, <3>4
    <3> QED
      BY <3>5, LenProperties
  <2>8. OneRecord(u)
    BY <2>3, <2>6, <2>7 DEF OneRecord
  <2>9. \A k \in Keys : Value(u, k) = 0
    <3> TAKE k \in Keys
    <3>1. RecordOf(u, k) \in 0..n
      BY <2>7, RecordOfIs
    <3>2. RecordOf(u, k) # 0 => RecordOf(u, k) \in 1..n
      BY <3>1
    <3> QED
      BY <2>6, <3>2 DEF Value
  <2> QED
    BY <2>4, <2>7, <2>8, <2>9
<1> QED
  BY <1>2, <1>3, <1>4

LEMMA InitTypes == Init => Types
<1> SUFFICES ASSUME Init PROVE Types
  OBVIOUS
<1>1. table \in [Tables -> Seq(Record)]
  <2>1. \A t \in Tables : table[t] \in Seq(Record)
    BY InitTable
  <2>2. table = [t \in Tables |-> table[t]]
    BY DEF Init
  <2> QED
    BY <2>1, <2>2
<1>2. <<>> \in Seq(Segment) /\ 1 \in Increments
  BY IncrementsAssumption
<1>3. TypeOK
  BY <1>1, <1>2 DEF Init, TypeOK
<1>4. \A p \in Procs : Asked(p)
  BY DEF Init, Asked
<1> QED
  BY <1>3, <1>4 DEF Types

\* Requests, failures and restarts in any order leave lists of segments,
\* tables of records and requests of a known form.
THEOREM TypeInvariance == Spec => []TypeOK
<1>1. Types /\ [Next]_vars => Types'
  <2>1. ASSUME Types, UNCHANGED vars PROVE Types'
    BY <2>1 DEF Types, TypeOK, Asked, vars, lists
  <2> QED
    BY <2>1, NextTypes
<1>2. Types => TypeOK
  BY DEF Types
<1> QED
  BY <1>1, <1>2, InitTypes, PTL DEF Spec

-----------------------------------------------------------------------------
(* Reads and writes of a record *)

\* What p has read of the table is what the table holds, and p has its lock.
Current(p) ==
    /\ op[p].value = Value(table[op[p].table], op[p].key)
    /\ op[p].index = Place(table[op[p].table], op[p].key)
    /\ setup.rowLock => /\ lock[op[p].table][op[p].key] = p
                        /\ RecordOf(table[op[p].table], op[p].key) # 0

\* A process that writes has seen the record as it is.
Reads == Serial => \A p \in Procs : pc[p] = "write" => Current(p)

\* The write of p adds to the record of its keyname.
LEMMA WriteMoves ==
    ASSUME Types, NEW p \in setup.procs, WriteLastId(p), Current(p)
    PROVE  /\ \A t \in Tables, k \in Keys : Value(table'[t], k) =
                 Value(table[t], k) + IF op[p].table = t /\ op[p].key = k THEN Step(p) ELSE 0
           /\ \A t \in Tables, k \in Keys : ~(op[p].table = t /\ op[p].key = k) =>
                 RecordOf(table'[t], k) = RecordOf(table[t], k)
           /\ setup.rowLock => \A t \in Tables : Len(table'[t]) = Len(table[t])
           /\ \A t \in Tables : OneRecord(table[t]) => OneRecord(table'[t])
<1>1. p \in Procs /\ pc[p] = "write" /\ table \in [Tables -> Seq(Record)]
  BY SetupIs DEF WriteLastId, Types, TypeOK
<1>2. PICK t \in Tables, k \in Keys, u \in Seq(Record), v \in Nat, n \in Nat :
         /\ t = op[p].table /\ k = op[p].key /\ u = table[t] /\ v = op[p].value /\ n = Step(p)
  BY <1>1, RequestIs
<1>3. v = Value(u, k) /\ op[p].index = Place(u, k) /\ (setup.rowLock => RecordOf(u, k) # 0)
  BY <1>2 DEF Current
<1>4. v + n \in Nat
  BY <1>2
<1>5. Stored(p) = Store(u, k, v + n)
  BY <1>2, <1>3 DEF Stored, Store
<1>6. table' = [table EXCEPT ![t] = Store(u, k, v + n)]
  BY <1>2, <1>5 DEF WriteLastId
<1>7. table'[t] = Store(u, k, v + n) /\ \A s \in Tables : s # t => table'[s] = table[s]
  BY <1>1, <1>6
<1>8. ASSUME NEW s \in Tables, NEW j \in Keys
      PROVE  /\ Value(table'[s], j) =
                   Value(table[s], j) + IF op[p].table = s /\ op[p].key = j THEN Step(p) ELSE 0
             /\ ~(op[p].table = s /\ op[p].key = j) => RecordOf(table'[s], j) = RecordOf(table[s], j)
  <2>1. Value(table[s], j) \in Nat
    BY <1>1, ValueType
  <2>2. CASE s # t
    <3>1. table'[s] = table[s] /\ ~(op[p].table = s /\ op[p].key = j)
      BY <1>2, <1>7, <2>2
    <3> QED
      BY <2>1, <3>1
  <2>3. CASE s = t /\ j # k
    <3>1. Value(table'[s], j) = Value(u, j) /\ RecordOf(table'[s], j) = RecordOf(u, j)
      BY <1>4, <1>7, <2>3, StoreIs
    <3>2. ~(op[p].table = s /\ op[p].key = j) /\ table[s] = u
      BY <1>2, <2>3
    <3> QED
      BY <2>1, <3>1, <3>2
  <2>4. CASE s = t /\ j = k
    <3>1. Value(table'[s], j) = v + n
      BY <1>4, <1>7, <2>4, StoreIs
    <3>2. op[p].table = s /\ op[p].key = j /\ Value(table[s], j) = v
      BY <1>2, <1>3, <2>4
    <3> QED
      BY <1>2, <3>1, <3>2
  <2> QED
    BY <2>2, <2>3, <2>4
<1>9. ASSUME NEW s \in Tables
      PROVE  /\ setup.rowLock => Len(table'[s]) = Len(table[s])
             /\ OneRecord(table[s]) => OneRecord(table'[s])
  <2>1. CASE s # t
    BY <1>7, <2>1
  <2>2. CASE s = t
    BY <1>2, <1>3, <1>4, <1>7, <2>2, StoreIs
  <2> QED
    BY <2>1, <2>2
<1> QED
  BY <1>8, <1>9

\* What another process has read stays true while the table is as it was, and
\* its lock is kept.
LEMMA CurrentStays ==
    ASSUME NEW q \in Procs, Current(q), UNCHANGED <<setup, table>>, op'[q] = op[q],
           lock[op[q].table][op[q].key] = q => lock'[op[q].table][op[q].key] = q
    PROVE  Current(q)'
BY DEF Current

\* No step of p takes the record away from another process.
LEMMA OthersRead ==
    ASSUME Types, Serial, Reads, NEW p \in setup.procs, NEW q \in Procs, q # p, pc[q] = "write",
           UNCHANGED setup, op'[q] = op[q], OwnLocks(p), UNCHANGED table \/ WriteLastId(p)
    PROVE  Current(q)'
<1>1. p \in Procs /\ q \in setup.procs /\ Current(q)
  BY RequestIs, SetupIs DEF Types, TypeOK, Reads
<1>2. setup.rowLock
  BY <1>1 DEF Serial
<1>3. PICK t \in Tables, k \in Keys : t = op[q].table /\ k = op[q].key
  BY RequestIs
<1>4. lock[t][k] = q /\ RecordOf(table[t], k) # 0
  BY <1>1, <1>2, <1>3 DEF Current
<1>5. lock'[t][k] = q
  BY <1>1, <1>4, NoProcAssumption DEF OwnLocks
<1>6. CASE UNCHANGED table
  BY <1>1, <1>3, <1>5, <1>6, CurrentStays
<1>7. CASE WriteLastId(p)
  <2>1. pc[p] = "write" /\ Current(p)
    BY <1>1, <1>7 DEF WriteLastId, Reads
  <2>2. PICK s \in Tables, j \in Keys : s = op[p].table /\ j = op[p].key
    BY <1>1, <2>1, RequestIs
  <2>3. lock[s][j] = p
    BY <1>2, <2>1, <2>2 DEF Current
  <2>4. ~(s = t /\ j = k)
    BY <1>4, <2>3
  <2>5. /\ Value(table'[t], k) = Value(table[t], k) + 0
        /\ RecordOf(table'[t], k) = RecordOf(table[t], k)
    BY <1>7, <2>1, <2>2, <2>4, WriteMoves
  <2>6. Value(table'[t], k) = Value(table[t], k)
    <3>1. Value(table[t], k) \in Nat
      BY ValueType DEF Types, TypeOK
    <3> QED
      BY <2>5, <3>1
  <2>7. Place(table'[t], k) = Place(table[t], k)
    BY <1>4, <2>5 DEF Place
  <2>8. /\ op'[q].value = Value(table[t], k) /\ op'[q].index = Place(table[t], k)
        /\ op'[q].table = t /\ op'[q].key = k
    BY <1>1, <1>3 DEF Current
  <2> QED
    BY <1>4, <1>5, <2>5, <2>6, <2>7, <2>8 DEF Current
<1> QED
  BY <1>6, <1>7

\* What every step of p has in common.
Moves(p) ==
    /\ UNCHANGED setup
    /\ \A q \in Procs : q # p => pc'[q] = pc[q] /\ op'[q] = op[q]
    /\ OwnLocks(p)
    /\ UNCHANGED table \/ WriteLastId(p)
    /\ pc'[p] = "write" => ReadLastId(p) /\ pc' = [pc EXCEPT ![p] = "write"]

\* A step of p.
Acts(p) ==
    \/ \E k \in setup.keys, n \in Increments : SetRequestIdIncrement(p, k, n)
    \/ \E t \in Tables, k \in setup.keys, n \in setup.sizes, c \in setup.modes :
           RequestIds(p, t, k, n, c)
    \/ ReadLastId(p) \/ RequestFails(p) \/ RequestFailsLocked(p) \/ WriteLastId(p)
    \/ \E t \in Tables, k \in setup.keys :
           \E array \in Arrays(held[p][t][k]) : Recycle(p, t, k, array)
    \/ Restart(p)

LEMMA NextMoves == ASSUME Types, Next PROVE \E p \in setup.procs : Acts(p) /\ Moves(p)
<1>1. /\ pc \in [Procs -> {"idle", "read", "write"}] /\ op \in [Procs -> Op \cup {<<>>}]
      /\ setup.procs \subseteq Procs
  BY SetupIs DEF Types, TypeOK
<1>2. UNCHANGED lock => \A p \in Procs : OwnLocks(p)
  BY DEF Types, TypeOK, OwnLocks
<1>3. ASSUME NEW p \in setup.procs, NEW k \in setup.keys, NEW n \in Increments,
             SetRequestIdIncrement(p, k, n)
      PROVE  Moves(p)
  BY <1>1, <1>3, <1>2 DEF SetRequestIdIncrement, Moves
<1>4. ASSUME NEW p \in setup.procs, NEW t \in Tables, NEW k \in setup.keys,
             NEW array, pc[p] = "idle", Give(p, t, k, array), UNCHANGED <<setup, table, lock>>
      PROVE  Moves(p)
  <2>1. p \in Procs /\ pc' = [pc EXCEPT ![p] = "idle"] /\ op' = [op EXCEPT ![p] = <<>>]
    BY <1>1, <1>4 DEF Give
  <2> QED
    BY <1>1, <1>4, <1>2, <2>1 DEF Moves
<1>5. ASSUME NEW p \in setup.procs, NEW t \in Tables, NEW k \in setup.keys,
             NEW n \in setup.sizes, NEW c \in setup.modes, RequestIds(p, t, k, n, c)
      PROVE  Moves(p)
  <2>1. /\ p \in Procs /\ pc[p] = "idle" /\ UNCHANGED <<setup, table, lock>>
        /\ \/ FromSegment(p, t, k, n) \/ FromList(p, t, k, n)
           \/ ToTail(p, t, k, n) \/ ToTable(p, t, k, n)
    BY <1>1, <1>5 DEF RequestIds
  <2>2. CASE FromSegment(p, t, k, n) \/ FromList(p, t, k, n)
    BY <1>4, <2>1, <2>2 DEF FromSegment, FromList
  <2>3. ASSUME NEW o, pc' = [pc EXCEPT ![p] = "read"], op' = [op EXCEPT ![p] = o] PROVE Moves(p)
    BY <1>1, <1>2, <2>1, <2>3 DEF Moves
  <2>4. CASE ToTail(p, t, k, n)
    BY <2>3, <2>4 DEF ToTail
  <2>5. CASE ToTable(p, t, k, n)
    BY <2>3, <2>5 DEF ToTable
  <2> QED
    BY <2>1, <2>2, <2>4, <2>5
<1>6. ASSUME NEW p \in setup.procs, ReadLastId(p) PROVE Moves(p)
  <2>1. p \in Procs /\ UNCHANGED <<setup, table>> /\ pc[p] = "read" /\ OwnLocks(p)
    BY <1>1, <1>6, LocksMove DEF ReadLastId
  <2>2. \/ pc' = [pc EXCEPT ![p] = "write"] \/ pc' = pc
    BY <1>6 DEF ReadLastId
  <2>3. \A q \in Procs : q # p => pc'[q] = pc[q]
    BY <1>1, <2>2
  <2>4. \A q \in Procs : q # p => op'[q] = op[q]
    <3> DEFINE j == RecordOf(table[op[p].table], op[p].key)
               v == Value(table[op[p].table], op[p].key)
               i == IF j = 0 THEN Len(table[op[p].table]) + 1 ELSE j
    <3>1. \/ op' = [op EXCEPT ![p].value = v, ![p].index = i]
          \/ op' = [op EXCEPT ![p].tail = FALSE]
      BY <1>6 DEF ReadLastId
    <3> HIDE DEF v, i
    <3>2. CASE op' = [op EXCEPT ![p].tail = FALSE]
      BY <1>1, <3>2
    <3>3. CASE op' = [op EXCEPT ![p].value = v, ![p].index = i]
      BY <1>1, <3>3
    <3> QED
      BY <3>1, <3>2, <3>3
  <2>5. pc'[p] = "write" => pc' = [pc EXCEPT ![p] = "write"]
    BY <2>1, <2>2
  <2> QED
    BY <1>6, <2>1, <2>3, <2>4, <2>5 DEF Moves
<1>7. ASSUME NEW p \in setup.procs, RequestFails(p) \/ RequestFailsLocked(p) PROVE Moves(p)
  <2>1. /\ p \in Procs /\ pc' = [pc EXCEPT ![p] = "idle"] /\ op' = [op EXCEPT ![p] = <<>>]
        /\ OwnLocks(p) /\ UNCHANGED <<setup, table>>
    BY <1>1, <1>7, LocksMove DEF RequestFails, RequestFailsLocked
  <2> QED
    BY <1>1, <2>1 DEF Moves
<1>8. ASSUME NEW p \in setup.procs, WriteLastId(p) PROVE Moves(p)
  <2>1. p \in Procs /\ UNCHANGED setup /\ OwnLocks(p)
    BY <1>1, <1>8, LocksMove DEF WriteLastId
  <2>2. pc' = [pc EXCEPT ![p] = "idle"] /\ op' = [op EXCEPT ![p] = <<>>]
    BY <1>8 DEF WriteLastId, Give
  <2> QED
    BY <1>1, <1>8, <2>1, <2>2 DEF Moves
<1>9. ASSUME NEW p \in setup.procs, NEW t \in Tables, NEW k \in setup.keys,
             NEW array, Recycle(p, t, k, array)
      PROVE  Moves(p)
  BY <1>1, <1>9, <1>2 DEF Recycle, Moves
<1>10. ASSUME NEW p \in setup.procs, Restart(p) PROVE Moves(p)
  <2>1. /\ p \in Procs /\ pc' = [pc EXCEPT ![p] = "idle"] /\ op' = [op EXCEPT ![p] = <<>>]
        /\ OwnLocks(p) /\ UNCHANGED <<setup, table>>
    BY <1>1, <1>10, LocksMove DEF Restart
  <2> QED
    BY <1>1, <2>1 DEF Moves
<1>11. PICK p \in setup.procs : Acts(p)
  BY DEF Next, Acts
<1>12. Moves(p)
  BY <1>3, <1>5, <1>6, <1>7, <1>8, <1>9, <1>10, <1>11 DEF Acts
<1> QED
  BY <1>11, <1>12

\* After a read, p has seen the record.
LEMMA ReadCurrent ==
    ASSUME Types, NEW p \in setup.procs, ReadLastId(p), pc'[p] = "write"
    PROVE  Current(p)'
<1>1. /\ p \in Procs /\ pc[p] = "read" /\ UNCHANGED <<setup, table>>
      /\ op \in [Procs -> Op \cup {<<>>}] /\ lock \in [Tables -> [Keys -> Procs \cup {NoProc}]]
  BY SetupIs DEF ReadLastId, Types, TypeOK
<1>2. PICK t \in Tables, k \in Keys, o \in Op : t = op[p].table /\ k = op[p].key /\ o = op[p]
  BY <1>1, RequestIs
<1>3. PICK v, i : v = Value(table[t], k) /\ i = Place(table[t], k)
  OBVIOUS
<1>4. /\ op' = [op EXCEPT ![p].value = v, ![p].index = i]
      /\ setup.rowLock => RecordOf(table[t], k) # 0
      /\ lock' = IF setup.rowLock THEN [lock EXCEPT ![t][k] = p] ELSE lock
  BY <1>1, <1>2, <1>3 DEF ReadLastId, Place
<1>5. op'[p] = [o EXCEPT !.value = v, !.index = i]
  BY <1>1, <1>2, <1>4
<1>6. op'[p].value = v /\ op'[p].index = i /\ op'[p].table = t /\ op'[p].key = k
  BY <1>2, <1>5 DEF Op
<1>7. setup.rowLock => lock'[t][k] = p
  BY <1>1, <1>4
<1> QED
  BY <1>1, <1>3, <1>4, <1>6, <1>7 DEF Current

LEMMA NextReads == ASSUME Types, Reads, [Next]_vars PROVE Reads'
<1>1. CASE UNCHANGED vars
  BY <1>1 DEF vars, Reads, Serial, Current
<1>2. CASE Next
  <2>1. PICK p \in setup.procs : Moves(p)
    BY <1>2, NextMoves
  <2>2. UNCHANGED setup
    BY <2>1 DEF Moves
  <2> SUFFICES ASSUME Serial, NEW q \in Procs, pc'[q] = "write" PROVE Current(q)'
    BY <2>2 DEF Reads, Serial
  <2>3. CASE q = p
    BY <2>1, <2>3, ReadCurrent DEF Moves
  <2>4. CASE q # p
    <3>1. pc[q] = "write" /\ op'[q] = op[q]
      BY <2>1, <2>4 DEF Moves
    <3> QED
      BY <2>1, <2>4, <3>1, OthersRead DEF Moves
  <2> QED
    BY <2>3, <2>4
<1> QED
  BY <1>1, <1>2

\* The types and the reads, as one invariant.
LEMMA ReadsInvariance == Spec => [](Types /\ Reads)
<1>1. Init => Types /\ Reads
  <2>1. ASSUME Init PROVE Reads
    BY <2>1 DEF Init, Reads
  <2> QED
    BY <2>1, InitTypes
<1>2. Types /\ Reads /\ [Next]_vars => (Types /\ Reads)'
  <2>1. ASSUME Types, UNCHANGED vars PROVE Types'
    BY <2>1 DEF Types, TypeOK, Asked, vars, lists
  <2> QED
    BY <2>1, NextTypes, NextReads
<1> QED
  BY <1>1, <1>2, PTL DEF Spec

\* Whoever writes a record of the lastid table adds to what it holds at that
\* moment, by the ids needed or by idIncrement, and changes no other record: if
\* the rows are locked, or a single process uses the file.
THEOREM IncrementsKept == Spec => NoLostUpdate
<1> DEFINE Added == Serial => \A p \in Procs : WriteLastId(p) =>
       \A t \in Tables, k \in Keys :
           Value(table'[t], k) = Value(table[t], k)
                                 + IF op[p].table = t /\ op[p].key = k THEN Step(p) ELSE 0
<1>1. ASSUME Types, Reads, [Next]_vars PROVE Added
  <2> SUFFICES ASSUME Serial, NEW p \in Procs, WriteLastId(p)
               PROVE  \A t \in Tables, k \in Keys :
                         Value(table'[t], k) = Value(table[t], k)
                            + IF op[p].table = t /\ op[p].key = k THEN Step(p) ELSE 0
    OBVIOUS
  <2>1. pc[p] = "write"
    BY DEF WriteLastId
  <2>2. Current(p) /\ p \in setup.procs
    BY <1>1, <2>1, RequestIs DEF Reads
  <2> QED
    BY <1>1, <2>2, WriteMoves
<1>2. Types /\ Reads /\ [Next]_vars => [Added]_vars
  BY <1>1
<1> QED
  BY <1>2, ReadsInvariance, PTL DEF Spec, NoLostUpdate

-----------------------------------------------------------------------------
(* The ids of a keyname as a pool *)

LEMMA OpNotEmpty == ASSUME NEW o \in Op PROVE o # <<>>
<1>1. "table" \in DOMAIN o
  BY DEF Op
<1>2. "table" \notin DOMAIN <<>>
  OBVIOUS
<1> QED
  BY <1>1, <1>2

\* The ids that p uses or may still be given.
Own(p, t, k) == held[p][t][k] \cup Free(p, k)

InPool(t, k) ==
    /\ \A p \in Procs : held[p][t][k] \cap Free(p, k) = {}
    /\ \A p \in Procs : Own(p, t, k) \subseteq 1..Value(table[t], k)
    /\ \A p, q \in Procs : p # q => Own(p, t, k) \cap Own(q, t, k) = {}

\* The lists of p are in order, and what its request took is out of the list.
Listed(p) ==
    /\ \A k \in Keys : Canonical(recycled[p][k])
    /\ pc[p] # "idle" => /\ ~op[p].tail
                         /\ ToSet(op[p].got) \cap Ids(recycled[p][op[p].key]) = {}

Pools == AnyIds /\ Serial /\ OneTable =>
    /\ \A t \in Tables : OneRecord(table[t]) /\ \A k \in Keys : InPool(t, k)
    /\ \A p \in Procs : Listed(p)

PoolStep(t, k) == Pool(t, k)!Next \/ UNCHANGED Pool(t, k)!vars

\* Only the ids of p change.
OnlyOf(p, t, k) == \A q \in Procs : q # p =>
    held'[q][t][k] = held[q][t][k] /\ Free(q, k)' = Free(q, k)

LEMMA OnlyIs ==
    ASSUME NEW p \in Procs, NEW t \in Tables, NEW k \in Keys
    PROVE  OnlyOf(p, t, k) <=> Pool(t, k)!Only(p)
<1> DEFINE h == [q \in Procs |-> held[q][t][k]]
<1> DEFINE f == [q \in Procs |-> Free(q, k)]
<1>1. Pool(t, k)!Only(p) <=> h' = [h EXCEPT ![p] = h'[p]] /\ f' = [f EXCEPT ![p] = f'[p]]
  BY DEF Pool!Only
<1>2. /\ h = [q \in Procs |-> held[q][t][k]] /\ h' = [q \in Procs |-> held'[q][t][k]]
      /\ f = [q \in Procs |-> Free(q, k)] /\ f' = [q \in Procs |-> Free(q, k)']
  OBVIOUS
<1>3. h' = [h EXCEPT ![p] = h'[p]] <=> \A q \in Procs : q # p => held'[q][t][k] = held[q][t][k]
  BY <1>2
<1>4. f' = [f EXCEPT ![p] = f'[p]] <=> \A q \in Procs : q # p => Free(q, k)' = Free(q, k)
  BY <1>2
<1> QED
  BY <1>1, <1>3, <1>4 DEF OnlyOf

\* The moves of the pool, in terms of lists and tables.
LEMMA RequestIsMove ==
    ASSUME NEW p \in Procs, NEW t \in Tables, NEW k \in Keys, OnlyOf(p, t, k),
           NEW v \in Nat, NEW w \in Nat, v = Value(table[t], k), w = Value(table'[t], k), w >= v,
           held[p][t][k] \subseteq held'[p][t][k],
           held'[p][t][k] \subseteq held[p][t][k] \cup Free(p, k) \cup (v + 1)..w,
           Free(p, k)' = (Free(p, k) \cup (v + 1)..w) \ held'[p][t][k]
    PROVE  PoolStep(t, k)
<1>1. Pool(t, k)!Only(p)
  BY OnlyIs
<1>2. Pool(t, k)!Request(p)
  BY <1>1 DEF Pool!Request
<1> QED
  BY <1>2 DEF PoolStep, Pool!Next

LEMMA RecycleIsMove ==
    ASSUME NEW p \in Procs, NEW t \in Tables, NEW k \in Keys, OnlyOf(p, t, k),
           Value(table'[t], k) = Value(table[t], k),
           held'[p][t][k] \subseteq held[p][t][k],
           Free(p, k)' = Free(p, k) \cup (held[p][t][k] \ held'[p][t][k])
    PROVE  PoolStep(t, k)
<1>1. Pool(t, k)!Only(p)
  BY OnlyIs
<1>2. Pool(t, k)!Recycle(p)
  BY <1>1 DEF Pool!Recycle
<1> QED
  BY <1>2 DEF PoolStep, Pool!Next

LEMMA LoseIsMove ==
    ASSUME NEW p \in Procs, NEW t \in Tables, NEW k \in Keys, OnlyOf(p, t, k),
           Value(table'[t], k) = Value(table[t], k), held'[p][t][k] = held[p][t][k],
           Free(p, k)' \subseteq Free(p, k)
    PROVE  PoolStep(t, k)
<1>1. Pool(t, k)!Only(p)
  BY OnlyIs
<1>2. [q \in Procs |-> held'[q][t][k]] = [q \in Procs |-> held[q][t][k]]
  BY DEF OnlyOf
<1>3. Pool(t, k)!Lose(p)
  BY <1>1, <1>2 DEF Pool!Lose
<1> QED
  BY <1>3 DEF PoolStep, Pool!Next

LEMMA NothingMoves ==
    ASSUME NEW t \in Tables, NEW k \in Keys, Value(table'[t], k) = Value(table[t], k),
           \A q \in Procs : held'[q][t][k] = held[q][t][k] /\ Free(q, k)' = Free(q, k)
    PROVE  PoolStep(t, k)
<1>1. [q \in Procs |-> held'[q][t][k]] = [q \in Procs |-> held[q][t][k]]
  OBVIOUS
<1>2. [q \in Procs |-> Free(q, k)'] = [q \in Procs |-> Free(q, k)]
  OBVIOUS
<1>3. UNCHANGED Pool(t, k)!vars
  BY <1>1, <1>2 DEF Pool!vars
<1> QED
  BY <1>3 DEF PoolStep

\* A move of p keeps the ids apart, and adds only ids that the counter passes.
LEMMA MoveKeeps ==
    ASSUME NEW t \in Tables, NEW k \in Keys, InPool(t, k), PoolStep(t, k),
           Value(table[t], k) \in Nat, Value(table'[t], k) \in Nat
    PROVE  InPool(t, k)'
<1>1. PICK v \in Nat, w \in Nat : v = Value(table[t], k) /\ w = Value(table'[t], k)
  OBVIOUS
<1>2. CASE UNCHANGED Pool(t, k)!vars
  <2>1. /\ w = v
        /\ [q \in Procs |-> held'[q][t][k]] = [q \in Procs |-> held[q][t][k]]
        /\ [q \in Procs |-> Free(q, k)'] = [q \in Procs |-> Free(q, k)]
    BY <1>1, <1>2 DEF Pool!vars
  <2>2. \A q \in Procs : held'[q][t][k] = held[q][t][k] /\ Free(q, k)' = Free(q, k)
    <3> SUFFICES ASSUME NEW q \in Procs
                 PROVE  held'[q][t][k] = held[q][t][k] /\ Free(q, k)' = Free(q, k)
      OBVIOUS
    <3>1. [r \in Procs |-> held'[r][t][k]][q] = [r \in Procs |-> held[r][t][k]][q]
      BY <2>1
    <3>2. [r \in Procs |-> Free(r, k)'][q] = [r \in Procs |-> Free(r, k)][q]
      BY <2>1
    <3> QED
      BY <3>1, <3>2
  <2>3. \A q \in Procs : Own(q, t, k)' = Own(q, t, k)
    BY <2>2 DEF Own
  <2> QED
    BY <1>1, <2>1, <2>2, <2>3 DEF InPool
<1>3. ASSUME NEW p \in Procs, Pool(t, k)!Only(p), w >= v,
             held'[p][t][k] \cap Free(p, k)' = {},
             held'[p][t][k] \cup Free(p, k)' \subseteq Own(p, t, k) \cup (v + 1)..w
      PROVE  InPool(t, k)'
  <2>1. \A q \in Procs : q # p =>
           held'[q][t][k] = held[q][t][k] /\ Free(q, k)' = Free(q, k) /\ Own(q, t, k)' = Own(q, t, k)
    BY <1>3, OnlyIs DEF OnlyOf, Own
  <2>2. Own(p, t, k)' \subseteq Own(p, t, k) \cup (v + 1)..w
    BY <1>3 DEF Own
  <2>3. 1..v \subseteq 1..w /\ (v + 1)..w \subseteq 1..w /\ (v + 1)..w \cap 1..v = {}
    BY <1>3
  <2>4. \A q \in Procs : Own(q, t, k) \subseteq 1..v
    BY <1>1 DEF InPool
  <2>5. \A q \in Procs : Own(q, t, k)' \subseteq 1..w
    BY <2>1, <2>2, <2>3, <2>4
  <2>6. \A q \in Procs : held'[q][t][k] \cap Free(q, k)' = {}
    BY <1>3, <2>1 DEF InPool
  <2>7. ASSUME NEW q \in Procs, q # p PROVE Own(p, t, k)' \cap Own(q, t, k)' = {}
    <3>1. Own(p, t, k) \cap Own(q, t, k) = {}
      BY <2>7 DEF InPool
    <3> QED
      BY <2>1, <2>2, <2>3, <2>4, <2>7, <3>1
  <2>8. ASSUME NEW q \in Procs, NEW r \in Procs, q # r PROVE Own(q, t, k)' \cap Own(r, t, k)' = {}
    <3>1. CASE q # p /\ r # p
      <4>1. Own(q, t, k) \cap Own(r, t, k) = {}
        BY <2>8 DEF InPool
      <4> QED
        BY <2>1, <3>1, <4>1
    <3> QED
      BY <2>7, <2>8, <3>1
  <2> QED
    BY <1>1, <2>5, <2>6, <2>8 DEF InPool
<1>4. ASSUME NEW p \in Procs PROVE held[p][t][k] \cap Free(p, k) = {}
  BY DEF InPool
<1>5. ASSUME NEW p \in Procs, Pool(t, k)!Request(p) PROVE InPool(t, k)'
  <2>1. /\ w >= v /\ Pool(t, k)!Only(p)
        /\ held'[p][t][k] \subseteq held[p][t][k] \cup Free(p, k) \cup (v + 1)..w
        /\ Free(p, k)' = (Free(p, k) \cup (v + 1)..w) \ held'[p][t][k]
    BY <1>1, <1>5 DEF Pool!Request
  <2> QED
    BY <1>3, <2>1 DEF Own
<1>6. ASSUME NEW p \in Procs, Pool(t, k)!Recycle(p) PROVE InPool(t, k)'
  <2>1. /\ w = v /\ Pool(t, k)!Only(p)
        /\ held'[p][t][k] \subseteq held[p][t][k]
        /\ Free(p, k)' = Free(p, k) \cup (held[p][t][k] \ held'[p][t][k])
    BY <1>1, <1>6 DEF Pool!Recycle
  <2>2. w >= v
    BY <2>1
  <2> QED
    BY <1>3, <1>4, <2>1, <2>2 DEF Own
<1>7. ASSUME NEW p \in Procs, Pool(t, k)!Lose(p) PROVE InPool(t, k)'
  <2>1. /\ w = v /\ Pool(t, k)!Only(p)
        /\ [q \in Procs |-> held'[q][t][k]] = [q \in Procs |-> held[q][t][k]]
        /\ Free(p, k)' \subseteq Free(p, k)
    BY <1>1, <1>7 DEF Pool!Lose
  <2>2. w >= v
    BY <2>1
  <2>3. held'[p][t][k] = held[p][t][k]
    <3>1. [r \in Procs |-> held'[r][t][k]][p] = [r \in Procs |-> held[r][t][k]][p]
      BY <2>1
    <3> QED
      BY <3>1
  <2> QED
    BY <1>3, <1>4, <2>1, <2>2, <2>3 DEF Own
<1> QED
  BY <1>2, <1>5, <1>6, <1>7 DEF PoolStep, Pool!Next

\* A step of p is about keyname k of table t.
About(p, t, k) ==
    /\ \A q \in Procs : q # p => /\ recycled'[q] = recycled[q] /\ op'[q] = op[q]
                                 /\ held'[q] = held[q]
    /\ \A j \in Keys : j # k => /\ recycled'[p][j] = recycled[p][j]
                                /\ held'[p][t][j] = held[p][t][j]
                                /\ Value(table'[t], j) = Value(table[t], j)
    /\ op[p] = <<>> \/ op[p].key = k
    /\ op'[p] = <<>> \/ op'[p].key = k

LEMMA AboutOnly == ASSUME NEW p \in Procs, NEW t \in Tables, NEW k \in Keys, About(p, t, k)
                   PROVE  OnlyOf(p, t, k)
BY DEF About, OnlyOf, Free

\* It moves no ids of another keyname.
LEMMA Focus ==
    ASSUME OneTable, NEW p \in Procs, NEW t \in Tables, NEW k \in Keys, About(p, t, k),
           PoolStep(t, k)
    PROVE  \A s \in Tables, j \in Keys : PoolStep(s, j)
<1>1. ASSUME NEW j \in Keys, j # k PROVE PoolStep(t, j)
  <2>1. Value(table'[t], j) = Value(table[t], j)
    BY <1>1 DEF About
  <2>2. ASSUME NEW q \in Procs
        PROVE  held'[q][t][j] = held[q][t][j] /\ Free(q, j)' = Free(q, j)
    <3>1. CASE q # p
      BY <3>1 DEF About, Free
    <3>2. CASE q = p
      <4>1. /\ recycled'[p][j] = recycled[p][j] /\ held'[p][t][j] = held[p][t][j]
            /\ op[p] = <<>> \/ op[p].key # j
            /\ op'[p] = <<>> \/ op'[p].key # j
        BY <1>1 DEF About
      <4> QED
        BY <3>2, <4>1 DEF Free
    <3> QED
      BY <3>1, <3>2
  <2> QED
    BY <2>1, <2>2, NothingMoves
<1>2. \A s \in Tables : s = t
  BY DEF OneTable
<1> QED
  BY <1>1, <1>2

\* Ids of the list are given.
LEMMA GiveMoves ==
    ASSUME Types, OneTable, NEW p \in Procs, NEW t \in Tables, NEW k \in Keys, pc[p] = "idle",
           InPool(t, k), Listed(p),
           NEW array \in Seq(Nat), NEW segs \in Seq(Segment), Give(p, t, k, array),
           recycled' = [recycled EXCEPT ![p][k] = segs], UNCHANGED table, Canonical(segs),
           Ids(recycled[p][k]) = ToSet(array) \cup Ids(segs), ToSet(array) \cap Ids(segs) = {}
    PROVE  Listed(p)' /\ \A s \in Tables, j \in Keys : PoolStep(s, j)
<1>1. /\ recycled \in [Procs -> [Keys -> Seq(Segment)]] /\ table \in [Tables -> Seq(Record)]
      /\ held \in [Procs -> [Tables -> [Keys -> SUBSET Nat]]]
      /\ pc \in [Procs -> {"idle", "read", "write"}] /\ op \in [Procs -> Op \cup {<<>>}]
  BY DEF Types, TypeOK
<1>2. op[p] = <<>>
  BY DEF Types, Asked
<1>3. /\ pc'[p] = "idle" /\ op'[p] = <<>> /\ \A q \in Procs : q # p => op'[q] = op[q]
      /\ held' = [held EXCEPT ![p][t][k] = @ \cup ToSet(array)]
  BY <1>1 DEF Give
<1>4. /\ held'[p][t][k] = held[p][t][k] \cup ToSet(array)
      /\ \A j \in Keys : j # k => held'[p][t][j] = held[p][t][j]
      /\ \A q \in Procs : q # p => held'[q] = held[q]
  BY <1>1, <1>3
<1>5. /\ recycled'[p][k] = segs
      /\ \A j \in Keys : j # k => recycled'[p][j] = recycled[p][j]
      /\ \A q \in Procs : q # p => recycled'[q] = recycled[q]
  BY <1>1
<1>6. About(p, t, k)
  BY <1>2, <1>3, <1>4, <1>5 DEF About
<1>7. Free(p, k) = Ids(recycled[p][k]) /\ Free(p, k)' = Ids(segs)
  BY <1>2, <1>3, <1>5 DEF Free
<1>8. PoolStep(t, k)
  <2>1. PICK v \in Nat : v = Value(table[t], k) /\ v = Value(table'[t], k)
    BY <1>1, ValueType
  <2>2. (v + 1)..v = {} /\ v >= v
    BY <2>1
  <2>3. held[p][t][k] \cap Free(p, k) = {}
    BY DEF InPool
  <2>4. OnlyOf(p, t, k)
    BY <1>6, AboutOnly
  <2>5. /\ held[p][t][k] \subseteq held'[p][t][k]
        /\ held'[p][t][k] \subseteq held[p][t][k] \cup Free(p, k) \cup (v + 1)..v
        /\ Free(p, k)' = (Free(p, k) \cup (v + 1)..v) \ held'[p][t][k]
    BY <1>4, <1>7, <2>2, <2>3
  <2> QED
    BY <2>1, <2>2, <2>4, <2>5, RequestIsMove
<1>9. Listed(p)'
  <2>1. \A j \in Keys : Canonical(recycled'[p][j])
    BY <1>5 DEF Listed
  <2> QED
    BY <1>3, <2>1 DEF Listed
<1> QED
  BY <1>6, <1>8, <1>9, Focus

\* The table is asked for what the list does not have.
LEMMA AskMoves ==
    ASSUME Types, OneTable, NEW p \in Procs, NEW t \in Tables, NEW k \in Keys, pc[p] = "idle",
           Listed(p), NEW o \in Op, o.key = k, ~o.tail, op' = [op EXCEPT ![p] = o],
           NEW segs \in Seq(Segment), recycled' = [recycled EXCEPT ![p][k] = segs],
           UNCHANGED <<table, held>>, Canonical(segs),
           Ids(recycled[p][k]) = ToSet(o.got) \cup Ids(segs), ToSet(o.got) \cap Ids(segs) = {}
    PROVE  Listed(p)' /\ \A s \in Tables, j \in Keys : PoolStep(s, j)
<1>1. /\ recycled \in [Procs -> [Keys -> Seq(Segment)]] /\ op \in [Procs -> Op \cup {<<>>}]
  BY DEF Types, TypeOK
<1>2. op[p] = <<>>
  BY DEF Types, Asked
<1>3. op'[p] = o /\ o # <<>> /\ \A q \in Procs : q # p => op'[q] = op[q]
  BY <1>1, OpNotEmpty
<1>4. /\ recycled'[p][k] = segs
      /\ \A j \in Keys : j # k => recycled'[p][j] = recycled[p][j]
      /\ \A q \in Procs : q # p => recycled'[q] = recycled[q]
  BY <1>1
<1>5. About(p, t, k)
  BY <1>2, <1>3, <1>4 DEF About
<1>6. Free(p, k)' = Free(p, k)
  BY <1>2, <1>3, <1>4 DEF Free
<1>7. PoolStep(t, k)
  <2>1. \A q \in Procs : held'[q][t][k] = held[q][t][k] /\ Free(q, k)' = Free(q, k)
    BY <1>5, <1>6, AboutOnly DEF OnlyOf
  <2> QED
    BY <2>1, NothingMoves
<1>8. Listed(p)'
  <2>1. \A j \in Keys : Canonical(recycled'[p][j])
    BY <1>4 DEF Listed
  <2>2. ~op'[p].tail /\ ToSet(op'[p].got) \cap Ids(recycled'[p][op'[p].key]) = {}
    BY <1>3, <1>4
  <2> QED
    BY <2>1, <2>2 DEF Listed
<1> QED
  BY <1>5, <1>7, <1>8, Focus

\* What a step of p does to lists and pools.
PoolMoves(p) ==
    /\ Listed(p)' /\ \A q \in Procs : q # p => recycled'[q] = recycled[q]
    /\ \A s \in Tables, j \in Keys : PoolStep(s, j)

\* What the invariants say when no run of ids is asked for, a record is not
\* written by two processes at once, and there is one table.
InOrder ==
    /\ Types /\ Reads /\ AnyIds /\ Serial /\ OneTable
    /\ \A t \in Tables : OneRecord(table[t]) /\ \A k \in Keys : InPool(t, k)
    /\ \A p \in Procs : Listed(p)

LEMMA RequestMoves ==
    ASSUME InOrder, NEW p \in setup.procs, NEW t \in Tables, NEW k \in setup.keys,
           NEW n \in setup.sizes, NEW c \in setup.modes, RequestIds(p, t, k, n, c)
    PROVE  PoolMoves(p)
<1>1. /\ recycled \in [Procs -> [Keys -> Seq(Segment)]] /\ setup \in Setups
      /\ Types /\ OneTable
  BY DEF InOrder, Types, TypeOK
<1>2. p \in Procs /\ k \in Keys /\ n \in Nat /\ n > 0 /\ c \in BOOLEAN
  BY <1>1, SetupIs
<1>3. PICK segs \in Seq(Segment) : segs = recycled[p][k]
  BY <1>1, <1>2
<1>4. /\ pc[p] = "idle" /\ UNCHANGED table
      /\ c => FromSegment(p, t, k, n) \/ ToTail(p, t, k, n)
      /\ ~c => FromList(p, t, k, n) \/ ToTable(p, t, k, n)
  BY DEF RequestIds
<1>5. InPool(t, k) /\ Listed(p) /\ Canonical(segs)
  BY <1>2, <1>3 DEF InOrder, Listed
<1>6. ASSUME NEW u, recycled' = [recycled EXCEPT ![p][k] = u]
      PROVE  \A q \in Procs : q # p => recycled'[q] = recycled[q]
  BY <1>1, <1>6
<1>7. CASE FromList(p, t, k, n)
  <2>1. PICK array, rest : array = TakeAny(segs, n) /\ rest = Without(segs, n)
    OBVIOUS
  <2>2. Give(p, t, k, array) /\ recycled' = [recycled EXCEPT ![p][k] = rest]
    BY <1>3, <1>7, <2>1 DEF FromList
  <2>3. /\ array \in Seq(Nat) /\ rest \in Seq(Segment) /\ Canonical(rest)
        /\ Ids(segs) = ToSet(array) \cup Ids(rest) /\ ToSet(array) \cap Ids(rest) = {}
    BY <1>2, <1>5, <2>1, TakeAnyType, WithoutType, TakeAnyIds
  <2> QED
    BY <1>1, <1>2, <1>3, <1>4, <1>5, <1>6, <2>2, <2>3, GiveMoves DEF PoolMoves
<1>8. CASE ToTable(p, t, k, n)
  <2>1. PICK got, rest : got = TakeAny(segs, n) /\ rest = Without(segs, n)
    OBVIOUS
  <2>2. PICK o : o = [table |-> t, key |-> k, n |-> n, consecutive |-> FALSE, got |-> got,
                      tail |-> FALSE, index |-> 0, value |-> 0]
    OBVIOUS
  <2>3. op' = [op EXCEPT ![p] = o] /\ recycled' = [recycled EXCEPT ![p][k] = rest] /\ UNCHANGED held
    BY <1>3, <1>8, <2>1, <2>2 DEF ToTable
  <2>4. /\ got \in Seq(Nat) /\ rest \in Seq(Segment) /\ Canonical(rest)
        /\ Ids(segs) = ToSet(got) \cup Ids(rest) /\ ToSet(got) \cap Ids(rest) = {}
    BY <1>2, <1>5, <2>1, TakeAnyType, WithoutType, TakeAnyIds
  <2>5. o \in Op /\ o.key = k /\ o.got = got /\ ~o.tail
    BY <1>2, <2>2, <2>4 DEF Op
  <2>6. Ids(segs) = ToSet(o.got) \cup Ids(rest) /\ ToSet(o.got) \cap Ids(rest) = {}
    BY <2>4, <2>5
  <2> QED
    BY <1>1, <1>2, <1>3, <1>4, <1>5, <1>6, <2>3, <2>4, <2>5, <2>6, AskMoves DEF PoolMoves
<1>9. CASE FromSegment(p, t, k, n)
  <2>1. PICK i : i = FirstFit(segs, n)
    OBVIOUS
  <2>2. PICK array, rest : array = SubSeq(IdSeq(segs[i]), 1, n) /\ rest = TakeRun(segs, i, n)
    OBVIOUS
  <2>3. i # 0 /\ Give(p, t, k, array) /\ recycled' = [recycled EXCEPT ![p][k] = rest]
    BY <1>3, <1>9, <2>1, <2>2 DEF FromSegment
  <2>4. i \in DOMAIN segs /\ segs[i].numValues >= n
    BY <1>2, <2>1, <2>3, FirstFitIs
  <2>5. PICK s \in Segment : s = segs[i]
    BY <2>4, ElementOfSeq, LenProperties
  <2>6. n <= s.numValues
    BY <1>2, <2>4, <2>5, SegFields
  <2>7. PICK a : a = segs[i].startValue
    OBVIOUS
  <2>8. /\ array \in Seq(Nat) /\ ToSet(array) = a..(a + n - 1)
        /\ a..(a + n - 1) \subseteq IdsOf(s)
    BY <1>2, <2>2, <2>5, <2>6, <2>7, RunIds
  <2>9. rest \in Seq(Segment) /\ Canonical(rest) /\ Ids(rest) = Ids(segs) \ a..(a + n - 1)
    BY <1>2, <1>5, <2>2, <2>4, <2>5, <2>6, <2>7, TakeRunType, TakeRunIds
  <2>10. IdsOf(s) \subseteq Ids(segs)
    BY <2>4, <2>5 DEF Ids
  <2>11. Ids(segs) = ToSet(array) \cup Ids(rest) /\ ToSet(array) \cap Ids(rest) = {}
    BY <2>8, <2>9, <2>10
  <2> QED
    BY <1>1, <1>2, <1>3, <1>4, <1>5, <1>6, <2>3, <2>8, <2>9, <2>11, GiveMoves DEF PoolMoves
<1>10. CASE ToTail(p, t, k, n) /\ c
  <2>1. n = 1
    BY <1>2, <1>10 DEF InOrder, AnyIds
  <2>2. FirstFit(segs, n) = 0
    BY <1>3, <1>10 DEF ToTail
  <2>3. segs = <<>>
    <3> SUFFICES ASSUME segs # <<>> PROVE FALSE
      OBVIOUS
    <3>1. PICK l \in Nat \ {0} : l = Len(segs) /\ DOMAIN segs = 1..l
      BY EmptySeq, LenProperties
    <3>2. segs[l].numValues < 1
      <4>1. 0 \notin DOMAIN segs /\ l \in DOMAIN segs
        BY <3>1
      <4> QED
        BY <1>2, <2>1, <2>2, <4>1, FirstFitIs
    <3>3. segs[l].numValues > 0 /\ segs[l].numValues \in Nat
      <4>1. l \in DOMAIN segs /\ segs[l] \in Segment
        BY <3>1, ElementOfSeq
      <4> QED
        BY <1>5, <4>1, SegFields DEF Canonical
    <3> QED
      BY <3>2, <3>3
  <2>4. PICK o : o = [table |-> t, key |-> k, n |-> n, consecutive |-> TRUE, got |-> <<>>,
                      tail |-> segs # <<>>, index |-> 0, value |-> 0]
    OBVIOUS
  <2>5. op' = [op EXCEPT ![p] = o] /\ UNCHANGED <<recycled, held>>
    BY <1>3, <1>10, <2>4 DEF ToTail
  <2>6. <<>> \in Seq(Nat) /\ ToSet(<<>>) = {}
    BY DEF ToSet
  <2>7. o \in Op /\ o.key = k /\ o.got = <<>> /\ ~o.tail
    BY <1>2, <2>3, <2>4, <2>6 DEF Op
  <2>8. recycled' = [recycled EXCEPT ![p][k] = segs]
    BY <1>1, <1>2, <1>3, <2>5
  <2>9. Ids(segs) = ToSet(o.got) \cup Ids(segs) /\ ToSet(o.got) \cap Ids(segs) = {}
    BY <2>6, <2>7
  <2> QED
    <3>1. UNCHANGED <<table, held>> /\ op' = [op EXCEPT ![p] = o]
      BY <1>4, <2>5
    <3>2. Ids(recycled[p][k]) = ToSet(o.got) \cup Ids(segs)
      BY <1>3, <2>9
    <3>3. Listed(p)' /\ \A s \in Tables, j \in Keys : PoolStep(s, j)
      BY <1>1, <1>2, <1>4, <1>5, <2>7, <2>8, <2>9, <3>1, <3>2, AskMoves
    <3> QED
      BY <1>6, <2>8, <3>3 DEF PoolMoves
<1> QED
  BY <1>2, <1>4, <1>7, <1>8, <1>9, <1>10

LEMMA ReadMoves ==
    ASSUME InOrder, NEW p \in setup.procs, ReadLastId(p) PROVE PoolMoves(p)
<1>1. /\ p \in Procs /\ pc[p] = "read" /\ Types /\ Listed(p) /\ UNCHANGED <<setup, recycled, table, held>>
      /\ op \in [Procs -> Op \cup {<<>>}]
  BY SetupIs DEF InOrder, Types, TypeOK, ReadLastId, lists
<1>2. PICK t \in Tables, k \in Keys, o \in Op : t = op[p].table /\ k = op[p].key /\ o = op[p] /\ ~o.tail
  BY <1>1, RequestIs DEF Listed
<1>3. PICK v, i : op' = [op EXCEPT ![p].value = v, ![p].index = i]
  BY <1>2 DEF ReadLastId
<1>4. op'[p] = [o EXCEPT !.value = v, !.index = i] /\ \A q \in Procs : q # p => op'[q] = op[q]
  BY <1>1, <1>2, <1>3
<1>5. PICK u : u = op'[p] /\ u.key = k /\ u.got = o.got /\ u.tail = o.tail /\ u # <<>>
  <2>1. PICK u : u = [o EXCEPT !.value = v, !.index = i]
    OBVIOUS
  <2>2. u.key = k /\ u.got = o.got /\ u.tail = o.tail /\ DOMAIN u = DOMAIN o
    BY <1>2, <2>1 DEF Op
  <2>3. "table" \in DOMAIN o /\ "table" \notin DOMAIN <<>>
    BY DEF Op
  <2> QED
    BY <1>4, <2>1, <2>2, <2>3
<1>6. o # <<>>
  BY OpNotEmpty
<1>7. ASSUME NEW q \in Procs, NEW j \in Keys PROVE Free(q, j)' = Free(q, j)
  <2>1. CASE q = p
    BY <1>1, <1>2, <1>5, <1>6, <2>1 DEF Free
  <2>2. CASE q # p
    BY <1>1, <1>4, <2>2 DEF Free
  <2> QED
    BY <2>1, <2>2
<1>8. \A s \in Tables, j \in Keys : PoolStep(s, j)
  BY <1>1, <1>7, NothingMoves
<1>9. Listed(p)'
  <2>1. \A j \in Keys : Canonical(recycled'[p][j])
    BY <1>1 DEF Listed
  <2>2. ToSet(o.got) \cap Ids(recycled[p][k]) = {}
    BY <1>1, <1>2 DEF Listed
  <2> QED
    BY <1>1, <1>2, <1>5, <2>1, <2>2 DEF Listed
<1> QED
  BY <1>1, <1>8, <1>9 DEF PoolMoves

\* The record moves on by the ids that the array still needs, and by extra ones
\* for the list.
LEMMA WriteMovesIds ==
    ASSUME InOrder, NEW p \in setup.procs, WriteLastId(p) PROVE PoolMoves(p)
<1>1. /\ p \in Procs /\ pc[p] = "write" /\ Types /\ Listed(p) /\ Current(p) /\ OneTable
      /\ op \in [Procs -> Op \cup {<<>>}] /\ pc \in [Procs -> {"idle", "read", "write"}]
      /\ recycled \in [Procs -> [Keys -> Seq(Segment)]]
      /\ held \in [Procs -> [Tables -> [Keys -> SUBSET Nat]]]
  BY SetupIs DEF InOrder, Types, TypeOK, Reads, WriteLastId
<1>2. PICK t \in Tables, k \in Keys, v \in Nat, need \in Nat, step \in Nat, got \in Seq(Nat) :
         /\ t = op[p].table /\ k = op[p].key /\ v = op[p].value /\ need = Need(p)
         /\ step = Step(p) /\ got = op[p].got /\ need > 0 /\ step >= need
         /\ op[p] # <<>>
  BY <1>1, RequestIs, OpNotEmpty
<1>3. PICK segs \in Seq(Segment) : segs = recycled[p][k]
  BY <1>1
<1>4. /\ v = Value(table[t], k) /\ Value(table'[t], k) = v + step
      /\ \A j \in Keys : j # k => Value(table'[t], j) = Value(table[t], j) + 0
  <2>1. v = Value(table[t], k)
    BY <1>1, <1>2 DEF Current
  <2>2. \A j \in Keys : Value(table'[t], j) =
           Value(table[t], j) + IF op[p].table = t /\ op[p].key = j THEN Step(p) ELSE 0
    BY <1>1, WriteMoves
  <2> QED
    BY <1>2, <2>1, <2>2
<1>5. /\ Canonical(segs) /\ ToSet(got) \cap Ids(segs) = {} /\ ~op[p].tail /\ InPool(t, k)
  BY <1>1, <1>2, <1>3 DEF Listed, InOrder
<1>6. PICK rest : rest = Extras(p, segs)
  OBVIOUS
<1>7. /\ Give(p, t, k, got \o [i \in 1..need |-> v + i])
      /\ recycled' = [recycled EXCEPT ![p][k] = rest]
  BY <1>2, <1>3, <1>5, <1>6 DEF WriteLastId
<1>8. Free(p, k) = Ids(segs) \cup ToSet(got)
  BY <1>2, <1>3 DEF Free
<1>9. Free(p, k) \subseteq 1..v /\ held[p][t][k] \subseteq 1..v /\ held[p][t][k] \cap Free(p, k) = {}
  BY <1>1, <1>4, <1>5 DEF InPool, Own
<1>10. /\ rest \in Seq(Segment) /\ Canonical(rest)
       /\ Ids(rest) = Ids(segs) \cup (v + need + 1)..(v + step)
  <2>1. CASE need >= step
    <3>1. rest = segs /\ (v + need + 1)..(v + step) = {}
      BY <1>2, <1>6, <2>1 DEF Extras
    <3> QED
      BY <1>5, <3>1
  <2>2. CASE ~(need >= step)
    <3>1. PICK a \in Nat, n \in Nat : a = v + need + 1 /\ n = step - need /\ n > 0
      <4>1. step > need
        BY <2>2
      <4>2. v + need + 1 \in Nat /\ step - need \in Nat /\ step - need > 0
        BY <4>1
      <4> QED
        BY <4>2
    <3>2. rest = AddRecycleSegment(segs, a, n)
      BY <1>2, <1>6, <2>2, <3>1 DEF Extras
    <3>3. a + n - 1 = v + step
      BY <3>1
    <3>4. (a..(a + n - 1)) \cap Ids(segs) = {}
      <4>1. Ids(segs) \subseteq 1..v
        BY <1>8, <1>9
      <4>2. (a..(a + n - 1)) \cap 1..v = {}
        BY <3>1
      <4> QED
        BY <4>1, <4>2
    <3> QED
      <4>1. /\ Canonical(AddRecycleSegment(segs, a, n))
            /\ Ids(AddRecycleSegment(segs, a, n)) = Ids(segs) \cup a..(a + n - 1)
        BY <1>5, <3>1, <3>4, AddCanonical
      <4>2. AddRecycleSegment(segs, a, n) \in Seq(Segment)
        BY AddType
      <4> QED
        BY <3>1, <3>2, <3>3, <4>1, <4>2
  <2> QED
    BY <2>1, <2>2
<1>11. PICK new : new = [i \in 1..need |-> v + i]
  OBVIOUS
<1>12. new \in Seq(Nat) /\ Len(new) = need /\ ToSet(new) = (v + 1)..(v + need)
  <2>1. \A i \in 1..need : v + i \in Nat
    OBVIOUS
  <2>2. new \in Seq(Nat)
    BY <1>11, <2>1
  <2>3. DOMAIN new = 1..need /\ \A i \in 1..need : new[i] = v + i
    BY <1>11
  <2>4. Len(new) = need
    BY <2>2, <2>3, LenProperties
  <2>5. ASSUME NEW x \in (v + 1)..(v + need) PROVE x \in ToSet(new)
    <3>1. x - v \in 1..need /\ v + (x - v) = x
      OBVIOUS
    <3>2. new[x - v] = x
      BY <2>3, <3>1
    <3> QED
      BY <2>3, <3>1, <3>2 DEF ToSet
  <2>6. ASSUME NEW x \in ToSet(new) PROVE x \in (v + 1)..(v + need)
    <3>1. PICK i \in 1..need : x = new[i]
      BY <2>3 DEF ToSet
    <3>2. v + i \in (v + 1)..(v + need)
      OBVIOUS
    <3> QED
      BY <2>3, <3>1, <3>2
  <2> QED
    BY <2>2, <2>4, <2>5, <2>6
<1>13. ToSet(got \o new) = ToSet(got) \cup (v + 1)..(v + need)
  <2>1. ToSet(got \o new) = ToSet(got) \cup ToSet(new)
    <3>1. Range(got \o new) = Range(got) \cup Range(new)
      BY <1>12, RangeConcatenation
    <3> QED
      BY <3>1 DEF ToSet, Range
  <2> QED
    BY <1>12, <2>1
<1>14. /\ pc'[p] = "idle" /\ op'[p] = <<>> /\ \A q \in Procs : q # p => op'[q] = op[q]
       /\ held' = [held EXCEPT ![p][t][k] = @ \cup ToSet(got \o new)]
  BY <1>1, <1>7, <1>11 DEF Give
<1>15. /\ held'[p][t][k] = held[p][t][k] \cup ToSet(got) \cup (v + 1)..(v + need)
       /\ \A j \in Keys : j # k => held'[p][t][j] = held[p][t][j]
       /\ \A q \in Procs : q # p => held'[q] = held[q]
  <2>1. /\ held'[p][t][k] = held[p][t][k] \cup ToSet(got \o new)
        /\ \A j \in Keys : j # k => held'[p][t][j] = held[p][t][j]
        /\ \A q \in Procs : q # p => held'[q] = held[q]
    BY <1>1, <1>14
  <2> QED
    BY <1>13, <2>1
<1>16. /\ recycled'[p][k] = rest
       /\ \A j \in Keys : j # k => recycled'[p][j] = recycled[p][j]
       /\ \A q \in Procs : q # p => recycled'[q] = recycled[q]
  BY <1>1, <1>7
<1>17. About(p, t, k)
  <2>1. \A j \in Keys : Value(table[t], j) \in Nat
    BY <1>1, ValueType DEF Types, TypeOK
  <2>2. \A j \in Keys : j # k => Value(table'[t], j) = Value(table[t], j)
    BY <1>4, <2>1
  <2> QED
    BY <1>2, <1>14, <1>15, <1>16, <2>2 DEF About
<1>18. Free(p, k)' = Ids(segs) \cup (v + need + 1)..(v + step)
  BY <1>10, <1>14, <1>16 DEF Free
<1>19. PoolStep(t, k)
  <2>1. PICK w \in Nat : w = v + step /\ w >= v
    BY <1>2
  <2>2. OnlyOf(p, t, k)
    BY <1>1, <1>17, AboutOnly
  <2>3. /\ \A x : x \in (v + 1)..w <=> x \in (v + 1)..(v + need) \/ x \in (v + need + 1)..(v + step)
        /\ (v + 1)..(v + need) \cap (v + need + 1)..(v + step) = {}
        /\ (v + 1)..w \cap 1..v = {}
    <3>1. ASSUME NEW x \in (v + 1)..w
          PROVE  x \in (v + 1)..(v + need) \/ x \in (v + need + 1)..(v + step)
      BY <2>1
    <3>2. ASSUME NEW x, x \in (v + 1)..(v + need) \/ x \in (v + need + 1)..(v + step)
          PROVE  x \in (v + 1)..w
      <4>1. step >= need
        BY <1>2
      <4> QED
        BY <2>1, <3>2, <4>1
    <3>3. (v + 1)..(v + need) \cap (v + need + 1)..(v + step) = {}
      OBVIOUS
    <3>4. (v + 1)..w \cap 1..v = {}
      OBVIOUS
    <3> QED
      BY <3>1, <3>2, <3>3, <3>4
  <2>4. held[p][t][k] \subseteq held'[p][t][k]
    BY <1>15
  <2>5. held'[p][t][k] \subseteq held[p][t][k] \cup Free(p, k) \cup (v + 1)..w
    BY <1>8, <1>15, <2>3
  <2>6. Free(p, k)' = (Free(p, k) \cup (v + 1)..w) \ held'[p][t][k]
    <3>1. Ids(segs) \cap (held[p][t][k] \cup ToSet(got) \cup (v + 1)..(v + need)) = {}
      BY <1>5, <1>8, <1>9, <2>3
    <3>2. (v + need + 1)..(v + step)
             \cap (held[p][t][k] \cup ToSet(got) \cup (v + 1)..(v + need)) = {}
      BY <1>8, <1>9, <2>3
    <3> QED
      BY <1>8, <1>15, <1>18, <2>3, <3>1, <3>2
  <2>7. v = Value(table[t], k) /\ w = Value(table'[t], k)
    BY <1>4, <2>1
  <2> QED
    BY <1>1, <2>1, <2>2, <2>4, <2>5, <2>6, <2>7, RequestIsMove
<1>20. Listed(p)'
  <2>1. \A j \in Keys : Canonical(recycled'[p][j])
    BY <1>1, <1>10, <1>16 DEF Listed
  <2> QED
    BY <1>14, <2>1 DEF Listed
<1> QED
  BY <1>1, <1>16, <1>17, <1>19, <1>20, Focus DEF PoolMoves

\* Ids are given back to the list.
LEMMA RecycleMoves ==
    ASSUME InOrder, NEW p \in setup.procs, NEW t \in Tables, NEW k \in setup.keys,
           NEW array \in Arrays(held[p][t][k]), Recycle(p, t, k, array)
    PROVE  PoolMoves(p)
<1>1. /\ p \in Procs /\ k \in Keys /\ Types /\ Listed(p) /\ OneTable /\ InPool(t, k)
      /\ recycled \in [Procs -> [Keys -> Seq(Segment)]]
      /\ held \in [Procs -> [Tables -> [Keys -> SUBSET Nat]]]
  BY SetupIs DEF InOrder, Types, TypeOK
<1>2. /\ pc[p] = "idle" /\ UNCHANGED <<setup, idIncrement, table, lock, pc, op>>
      /\ held' = [held EXCEPT ![p][t][k] = @ \ ToSet(array)]
      /\ recycled' = [recycled EXCEPT ![p][k] = RecycleIds(@, array)]
  BY DEF Recycle
<1>3. op[p] = <<>> /\ op'[p] = <<>>
  BY <1>1, <1>2 DEF Types, Asked
<1>4. PICK segs, rest : segs \in Seq(Segment) /\ segs = recycled[p][k] /\ rest = RecycleIds(segs, array)
  BY <1>1
<1>5. /\ array \in Seq(Nat) /\ ToSet(array) \subseteq held[p][t][k]
      /\ \A i, j \in DOMAIN array : array[i] = array[j] => i = j
  <2>1. held[p][t][k] \in SUBSET Nat
    BY <1>1
  <2> QED
    BY <2>1, ArrayIs
<1>6. Free(p, k) = Ids(segs) /\ held[p][t][k] \cap Free(p, k) = {}
  BY <1>1, <1>3, <1>4 DEF Free, InPool
<1>7. rest \in Seq(Segment) /\ Canonical(rest) /\ Ids(rest) = Ids(segs) \cup ToSet(array)
  <2>1. ToSet(array) \cap Ids(segs) = {} /\ Canonical(segs)
    BY <1>1, <1>4, <1>5, <1>6 DEF Listed
  <2> QED
    BY <1>4, <1>5, <2>1, RecycleType, RecycleCanonical
<1>8. /\ recycled'[p][k] = rest
      /\ \A j \in Keys : j # k => recycled'[p][j] = recycled[p][j]
      /\ \A q \in Procs : q # p => recycled'[q] = recycled[q]
  BY <1>1, <1>2, <1>4
<1>9. /\ held'[p][t][k] = held[p][t][k] \ ToSet(array)
      /\ \A j \in Keys : j # k => held'[p][t][j] = held[p][t][j]
      /\ \A q \in Procs : q # p => held'[q] = held[q]
  BY <1>1, <1>2
<1>10. About(p, t, k)
  BY <1>2, <1>3, <1>8, <1>9 DEF About
<1>11. Free(p, k)' = Ids(rest)
  BY <1>3, <1>8 DEF Free
<1>12. PoolStep(t, k)
  <2>1. OnlyOf(p, t, k)
    BY <1>1, <1>10, AboutOnly
  <2>2. held'[p][t][k] \subseteq held[p][t][k]
    BY <1>9
  <2>3. Free(p, k)' = Free(p, k) \cup (held[p][t][k] \ held'[p][t][k])
    BY <1>5, <1>6, <1>7, <1>9, <1>11
  <2>4. Value(table'[t], k) = Value(table[t], k)
    BY <1>2
  <2> QED
    BY <1>1, <2>1, <2>2, <2>3, <2>4, RecycleIsMove
<1>13. Listed(p)'
  <2>1. \A j \in Keys : Canonical(recycled'[p][j])
    BY <1>1, <1>7, <1>8 DEF Listed
  <2> QED
    BY <1>2, <2>1 DEF Listed
<1> QED
  BY <1>1, <1>8, <1>10, <1>12, <1>13, Focus DEF PoolMoves

\* A request fails: what it took from the list is lost.
LEMMA FailMoves ==
    ASSUME InOrder, NEW p \in setup.procs, RequestFails(p) \/ RequestFailsLocked(p)
    PROVE  PoolMoves(p)
<1>1. /\ p \in Procs /\ Types /\ Listed(p)
      /\ op \in [Procs -> Op \cup {<<>>}] /\ pc \in [Procs -> {"idle", "read", "write"}]
  BY SetupIs DEF InOrder, Types, TypeOK
<1>2. /\ pc' = [pc EXCEPT ![p] = "idle"] /\ op' = [op EXCEPT ![p] = <<>>]
      /\ UNCHANGED <<recycled, table, held>>
  BY DEF RequestFails, RequestFailsLocked, lists
<1>3. pc'[p] = "idle" /\ op'[p] = <<>> /\ \A q \in Procs : q # p => op'[q] = op[q]
  BY <1>1, <1>2
<1>4. ASSUME NEW s \in Tables, NEW j \in Keys PROVE PoolStep(s, j)
  <2>1. OnlyOf(p, s, j)
    BY <1>2, <1>3 DEF OnlyOf, Free
  <2>2. Free(p, j)' \subseteq Free(p, j)
    BY <1>2, <1>3 DEF Free
  <2> QED
    BY <1>1, <1>2, <2>1, <2>2, LoseIsMove
<1>5. Listed(p)'
  BY <1>1, <1>2, <1>3 DEF Listed
<1> QED
  BY <1>2, <1>4, <1>5 DEF PoolMoves

\* A process starts again: its lists are lost.
LEMMA RestartMoves ==
    ASSUME InOrder, NEW p \in setup.procs, Restart(p) PROVE PoolMoves(p)
<1>1. /\ p \in Procs /\ recycled \in [Procs -> [Keys -> Seq(Segment)]]
      /\ op \in [Procs -> Op \cup {<<>>}] /\ pc \in [Procs -> {"idle", "read", "write"}]
  BY SetupIs DEF InOrder, Types, TypeOK
<1>2. /\ pc' = [pc EXCEPT ![p] = "idle"] /\ op' = [op EXCEPT ![p] = <<>>]
      /\ recycled' = [recycled EXCEPT ![p] = [k \in Keys |-> <<>>]]
      /\ UNCHANGED <<table, held>>
  BY DEF Restart
<1>3. /\ pc'[p] = "idle" /\ op'[p] = <<>> /\ \A j \in Keys : recycled'[p][j] = <<>>
      /\ \A q \in Procs : q # p => op'[q] = op[q] /\ recycled'[q] = recycled[q]
  BY <1>1, <1>2
<1>4. Ids(<<>>) = {} /\ Canonical(<<>>)
  <2>1. DOMAIN <<>> = {} /\ Len(<<>>) = 0
    OBVIOUS
  <2>2. \A i \in 1..(0 - 1) : FALSE
    OBVIOUS
  <2> QED
    BY <2>1, <2>2 DEF Ids, Canonical
<1>5. ASSUME NEW s \in Tables, NEW j \in Keys PROVE PoolStep(s, j)
  <2>1. OnlyOf(p, s, j)
    BY <1>2, <1>3 DEF OnlyOf, Free
  <2>2. Free(p, j)' \subseteq Free(p, j)
    BY <1>3, <1>4 DEF Free
  <2> QED
    BY <1>1, <1>2, <2>1, <2>2, LoseIsMove
<1>6. Listed(p)'
  BY <1>3, <1>4 DEF Listed
<1> QED
  BY <1>3, <1>5, <1>6 DEF PoolMoves

\* Nothing that the pools are about changes.
LEMMA SameIds ==
    ASSUME NEW p \in Procs, Listed(p), UNCHANGED <<recycled, table, pc, op, held>>
    PROVE  PoolMoves(p)
<1>1. Listed(p)'
  BY DEF Listed
<1>2. \A q \in Procs, j \in Keys : Free(q, j)' = Free(q, j)
  BY DEF Free
<1> QED
  BY <1>1, <1>2, NothingMoves DEF PoolMoves

LEMMA ActPools == ASSUME InOrder, NEW p \in setup.procs, Acts(p) PROVE PoolMoves(p)
<1>1. p \in Procs /\ Listed(p)
  BY SetupIs DEF InOrder, Types, TypeOK
<1>2. CASE \E k \in setup.keys, n \in Increments : SetRequestIdIncrement(p, k, n)
  BY <1>1, <1>2, SameIds DEF SetRequestIdIncrement
<1> QED
  BY <1>2, RequestMoves, ReadMoves, WriteMovesIds, FailMoves, RestartMoves, RecycleMoves DEF Acts

\* A step keeps lists and pools in order, and is a move of every pool.
LEMMA NextPools ==
    ASSUME Types, Reads, Pools, [Next]_vars, Types'
    PROVE  /\ Pools'
           /\ AnyIds /\ Serial /\ OneTable => \A t \in Tables, k \in Keys : PoolStep(t, k)
<1>1. CASE UNCHANGED vars
  <2>1. UNCHANGED <<setup, recycled, table, pc, op, held>>
    BY <1>1 DEF vars, lists
  <2>2. \A q \in Procs, j \in Keys : Free(q, j)' = Free(q, j)
    BY <2>1 DEF Free
  <2>3. \A t \in Tables, k \in Keys : PoolStep(t, k)
    BY <2>1, <2>2, NothingMoves
  <2>4. Pools'
    <3>1. ASSUME NEW t \in Tables, NEW k \in Keys, InPool(t, k) PROVE InPool(t, k)'
      <4>1. \A q \in Procs : held'[q][t][k] = held[q][t][k] /\ Own(q, t, k)' = Own(q, t, k)
        BY <2>1, <2>2 DEF Own
      <4> QED
        BY <2>1, <2>2, <3>1, <4>1 DEF InPool
    <3>2. ASSUME NEW q \in Procs, Listed(q) PROVE Listed(q)'
      BY <2>1, <3>2 DEF Listed
    <3>3. (AnyIds <=> AnyIds') /\ (Serial <=> Serial')
      BY <2>1 DEF AnyIds, Serial
    <3> QED
      BY <2>1, <3>1, <3>2, <3>3 DEF Pools
  <2> QED
    BY <2>3, <2>4
<1>2. CASE Next
  <2>1. PICK p \in setup.procs : Acts(p) /\ Moves(p)
    BY <1>2, NextMoves
  <2>2. UNCHANGED setup /\ p \in Procs
    BY <2>1, SetupIs DEF Moves, Types, TypeOK
  <2> SUFFICES ASSUME AnyIds, Serial, OneTable
               PROVE  /\ \A t \in Tables, k \in Keys : PoolStep(t, k)
                      /\ \A t \in Tables : OneRecord(table'[t]) /\ \A k \in Keys : InPool(t, k)'
                      /\ \A q \in Procs : Listed(q)'
    BY <2>2 DEF Pools, AnyIds, Serial
  <2>3. InOrder
    BY DEF InOrder, Pools
  <2>4. PoolMoves(p)
    BY <2>1, <2>3, ActPools
  <2>5. \A t \in Tables, k \in Keys : PoolStep(t, k)
    BY <2>4 DEF PoolMoves
  <2>6. ASSUME NEW t \in Tables, NEW k \in Keys PROVE InPool(t, k)'
    <3>1. Value(table[t], k) \in Nat /\ Value(table'[t], k) \in Nat
      BY ValueType DEF Types, TypeOK
    <3>2. InPool(t, k)
      BY <2>3 DEF InOrder
    <3> QED
      BY <2>5, <3>1, <3>2, MoveKeeps
  <2>7. ASSUME NEW t \in Tables PROVE OneRecord(table'[t])
    <3>1. OneRecord(table[t])
      BY <2>3 DEF InOrder
    <3>2. CASE WriteLastId(p)
      <4>1. Current(p)
        BY <2>2, <3>2 DEF Reads, WriteLastId
      <4> QED
        BY <3>1, <3>2, <4>1, WriteMoves
    <3>3. CASE UNCHANGED table
      BY <3>1, <3>3
    <3>4. UNCHANGED table \/ WriteLastId(p)
      BY <2>1 DEF Moves
    <3> QED
      BY <3>2, <3>3, <3>4
  <2>8. ASSUME NEW q \in Procs PROVE Listed(q)'
    <3>1. CASE q = p
      BY <2>4, <3>1 DEF PoolMoves
    <3>2. CASE q # p
      <4>1. recycled'[q] = recycled[q] /\ pc'[q] = pc[q] /\ op'[q] = op[q]
        BY <2>1, <2>4, <3>2 DEF PoolMoves, Moves
      <4>2. Listed(q)
        BY <2>3 DEF InOrder
      <4> QED
        BY <4>1, <4>2 DEF Listed
    <3> QED
      BY <3>1, <3>2
  <2> QED
    BY <2>5, <2>6, <2>7, <2>8
<1> QED
  BY <1>1, <1>2

\* At the start, no id has been counted.
LEMMA InitPools == ASSUME Init PROVE Pools /\ \A t \in Tables, k \in Keys : Pool(t, k)!Init
<1>1. Ids(<<>>) = {} /\ Canonical(<<>>)
  <2>1. DOMAIN <<>> = {} /\ Len(<<>>) = 0
    OBVIOUS
  <2>2. \A i \in 1..(0 - 1) : FALSE
    OBVIOUS
  <2> QED
    BY <2>1, <2>2 DEF Ids, Canonical
<1>2. \A p \in Procs, k \in Keys : recycled[p][k] = <<>> /\ op[p] = <<>> /\ pc[p] = "idle"
  BY DEF Init
<1>3. \A p \in Procs, k \in Keys : Free(p, k) = {}
  BY <1>1, <1>2 DEF Free
<1>4. \A p \in Procs, t \in Tables, k \in Keys : held[p][t][k] = {}
  BY DEF Init
<1>5. \A p \in Procs, t \in Tables, k \in Keys : Own(p, t, k) = {}
  BY <1>3, <1>4 DEF Own
<1>6. \A p \in Procs : Listed(p)
  <2>1. \A p \in Procs : pc[p] = "idle"
    BY DEF Init
  <2> QED
    BY <1>1, <1>2, <2>1 DEF Listed
<1>7. \A t \in Tables, k \in Keys : InPool(t, k)
  BY <1>3, <1>4, <1>5 DEF InPool
<1>8. \A t \in Tables : OneRecord(table[t]) /\ \A k \in Keys : Value(table[t], k) = 0
  BY InitTable
<1>9. Pools
  BY <1>6, <1>7, <1>8 DEF Pools
<1>10. ASSUME NEW t \in Tables, NEW k \in Keys PROVE Pool(t, k)!Init
  <2>1. [p \in Procs |-> held[p][t][k]] = [p \in Procs |-> {}]
    BY <1>4
  <2>2. [p \in Procs |-> Free(p, k)] = [p \in Procs |-> {}]
    BY <1>3
  <2> QED
    BY <1>8, <2>1, <2>2 DEF Pool!Init
<1> QED
  BY <1>9, <1>10

\* The inductive invariant.
LEMMA PoolsInvariance == Spec => [](Types /\ Reads /\ Pools)
<1>1. Init => Types /\ Reads /\ Pools
  <2>1. ASSUME Init PROVE Reads
    BY <2>1 DEF Init, Reads
  <2> QED
    BY <2>1, InitTypes, InitPools
<1>2. Types /\ Reads /\ Pools /\ [Next]_vars => (Types /\ Reads /\ Pools)'
  <2>1. ASSUME Types, UNCHANGED vars PROVE Types'
    BY <2>1 DEF Types, TypeOK, Asked, vars, lists
  <2>2. ASSUME Types, [Next]_vars PROVE Types'
    BY <2>1, <2>2, NextTypes
  <2> QED
    BY <2>2, NextReads, NextPools
<1> QED
  BY <1>1, <1>2, PTL DEF Spec

\* For every keyname, requests, reads and writes of the lastid table, recycled
\* ids, failures and restarts are moves of a pool of ids.
THEOREM Refinement == Spec => PoolSpec
<1> DEFINE PoolMove == AnyIds /\ Serial /\ OneTable => \A t \in Tables, k \in Keys :
              Pool(t, k)!Next \/ UNCHANGED Pool(t, k)!vars
<1>1. Init => \A t \in Tables, k \in Keys : Pool(t, k)!Init
  BY InitPools
<1>2. Types /\ Reads /\ Pools /\ [Next]_vars /\ Types' => [PoolMove]_vars
  <2>1. ASSUME Types, Reads, Pools, [Next]_vars, Types' PROVE PoolMove
    BY <2>1, NextPools DEF PoolStep
  <2> QED
    BY <2>1
<1> QED
  BY <1>1, <1>2, PoolsInvariance, PTL DEF Spec, PoolSpec

\* No id of a keyname is used twice, nor used while a list may still give it,
\* and each has been counted in the one record of the keyname: for any number
\* of processes that lock the record, and for one that does not.
THEOREM UniqueIds == Spec => []Unique
<1>1. Types /\ Reads /\ Pools => Unique
  <2> SUFFICES ASSUME Types, Reads, Pools, AnyIds, Serial, OneTable, NEW t \in Tables
               PROVE  /\ \A k \in Keys, p, q \in Procs :
                            /\ p # q => /\ held[p][t][k] \cap held[q][t][k] = {}
                                        /\ Free(p, k) \cap Free(q, k) = {}
                            /\ held[p][t][k] \cap Free(q, k) = {}
                            /\ held[p][t][k] \cup Free(p, k) \subseteq 1..Value(table[t], k)
                      /\ \A i, j \in DOMAIN table[t] :
                            table[t][i].keyname = table[t][j].keyname => i = j
    BY DEF Unique
  <2>1. OneRecord(table[t]) /\ \A k \in Keys : InPool(t, k)
    BY DEF Pools
  <2>2. ASSUME NEW k \in Keys, NEW p \in Procs, NEW q \in Procs
        PROVE  /\ p # q => /\ held[p][t][k] \cap held[q][t][k] = {}
                           /\ Free(p, k) \cap Free(q, k) = {}
               /\ held[p][t][k] \cap Free(q, k) = {}
               /\ held[p][t][k] \cup Free(p, k) \subseteq 1..Value(table[t], k)
    <3>1. InPool(t, k)
      BY <2>1
    <3>2. CASE p = q
      BY <3>1, <3>2 DEF InPool, Own
    <3>3. CASE p # q
      <4>1. Own(p, t, k) \cap Own(q, t, k) = {} /\ Own(p, t, k) \subseteq 1..Value(table[t], k)
        BY <3>1, <3>3 DEF InPool
      <4> QED
        BY <3>3, <4>1 DEF Own
    <3> QED
      BY <3>2, <3>3
  <2> QED
    BY <2>1, <2>2 DEF OneRecord
<1> QED
  BY <1>1, PoolsInvariance, PTL

\* The list of recycled ids stays sorted and joined, without empty segments.
THEOREM ListsCanonical == Spec => []ListCanonical
<1>1. Types /\ Reads /\ Pools => ListCanonical
  BY DEF Pools, ListCanonical, Listed
<1> QED
  BY <1>1, PoolsInvariance, PTL
=============================================================================
