-------------------------- MODULE DataMethod_proofs --------------------------
(***************************************************************************)
(* Theorems about DataMethod: for any display, filters and lists of any    *)
(* length, the list of methods tells what the data are, the rotation stays *)
(* the first operation, a beam stays a beam, and no waveform is lost.      *)
(*                                                                         *)
(* Most say something of one waveform, but a waveform is also on the       *)
(* clipboard and in the actions to undo, from where it comes back: the     *)
(* invariant is that every GTimeSeries, wherever it is, is Good.  The      *)
(* others need to know where a waveform is (OnePlace), and which cuts its  *)
(* list can have (CutsInv).                                                *)
(***************************************************************************)
EXTENDS DataMethod, SequenceTheorems, FiniteSetTheorems, TLAPS

\* Methods that are no rotation, and lists in which none but the first one is.
Plain == {m \in Methods : m.type # "RotateData"}
Lists == {list \in Seq(Methods) : \A i \in 2..Len(list) : list[i] \in Plain}

\* What can be replayed: whatever the data, the list is in order, only beams have
\* a copy, and a RotateData for this object is in the list.
Ready(v) == /\ v \in TimeSeries /\ v.list \in Lists /\ (v.copy => v.derived)
            /\ v.own => Rotated(v.list)

\* The methods done are in the list.
Within(done, list) == \A i \in 1..Len(done) : \E j \in 1..Len(list) : done[i] = list[j]

\* Data and list agree, but for the cases that HistoryTellsData names, two of
\* which leave methods done that are not in the list; and the data of a beam
\* without a copy are its own only behind a cut.
Good(v) ==
    /\ Ready(v)
    /\ v.done \in Lists
    /\ v.raw # "none" /\ v.wrong = "no" => v.done = v.list
    /\ v.raw = "none" => v.done = <<>>
    /\ v.wrong = "stuck" => Rotated(v.list) /\ ~v.own
    /\ v.wrong = "torn" => Has(v.list, "CutData")
    /\ v.wrong = "unread" => v.raw = "part"
    /\ v.wrong \notin {"mixed", "left"} => Within(v.done, v.list)
    /\ v.raw = "element" => v.derived /\ ~v.copy
    /\ v.raw = "own" /\ v.derived /\ ~v.copy =>
           Has(v.list, "CutData") \/ Has(v.list, "CopyData")

\* At the places that can be rotated there is no beam.
GoodAt(w, v) == Good(v) /\ (w \in {East, North} => ~v.derived)

Shows(d) == d \in [Waveforms -> TimeSeries \cup {Absent}]
            /\ \A w \in Waveforms : d[w] # Absent => GoodAt(w, d[w])

Inv ==
    /\ setup \in Setups /\ disk \in {"all", "part", "none"} /\ shown \subseteq Waveforms
    /\ cuts \in 0..MaxCuts
    /\ Shows(wave)
    /\ clipboard = Absent \/ Good(clipboard)
    /\ undo \in Seq(UndoCut)
    /\ \A i \in 1..Len(undo) : Shows(undo[i].cut_ts)

\* A step after which the same places display a waveform, and the same actions
\* can be undone.
Stays == On' = On /\ UNCHANGED <<undo, shown>>

-----------------------------------------------------------------------------
(* Lists *)

\* The classes of the methods; a RotateData is the only one that is not plain.
LEMMA MethodTypes ==
    /\ Rotate \in Methods /\ Copied \in Plain /\ Calib \in Plain
    /\ Demean \in Plain /\ Taper \in Plain /\ Polarity \in Plain
    /\ \A b \in Bands : Filter(b) \in Plain
    /\ \A n \in 1..MaxCuts : Cut(n) \in Plain
    /\ Copied.type = "CopyData" /\ Rotate.type = "RotateData"
    /\ \A n : Cut(n).type = "CutData"
  BY DEF Methods, Plain, Rotate, Copied, Calib, Demean, Taper, Polarity, Filter, Cut, Method

\* The cuts in a list are numbered up to n, and each is there once.
CutsTo(list, n) == \A i \in 1..Len(list) : list[i].type = "CutData" =>
    /\ list[i].id <= n
    /\ \A j \in 1..Len(list) : list[j] = list[i] => j = i

\* A list made from another one without a new cut.
Fewer(new, old) == \A n \in Nat : CutsTo(old, n) => CutsTo(new, n)

NoCuts(dm) == \A i \in 1..Len(dm) : dm[i].type # "CutData"

\* The cuts of such a list come from different places of the other one.
From(new, old, f) ==
    /\ \A i \in 1..Len(new) : new[i].type = "CutData" =>
           f[i] \in 1..Len(old) /\ new[i] = old[f[i]]
    /\ \A i, j \in 1..Len(new) :
           new[i].type = "CutData" /\ new[j].type = "CutData" /\ f[i] = f[j] => i = j

LEMMA FewerBy == ASSUME NEW new, NEW old, NEW f, From(new, old, f) PROVE Fewer(new, old)
<1> SUFFICES ASSUME NEW n \in Nat, CutsTo(old, n),
                    NEW i \in 1..Len(new), new[i].type = "CutData"
             PROVE  new[i].id <= n /\ \A j \in 1..Len(new) : new[j] = new[i] => j = i
  BY DEF Fewer, CutsTo
<1>1. f[i] \in 1..Len(old) /\ new[i] = old[f[i]]
  BY DEF From
<1>2. old[f[i]].id <= n /\ \A j \in 1..Len(old) : old[j] = old[f[i]] => j = f[i]
  BY <1>1 DEF CutsTo
<1>3. ASSUME NEW j \in 1..Len(new), new[j] = new[i] PROVE j = i
  <2>1. f[j] \in 1..Len(old) /\ new[j] = old[f[j]]
    BY <1>3 DEF From
  <2>2. f[j] = f[i]
    BY <1>1, <1>2, <1>3, <2>1
  <2> QED
    BY <1>3, <2>2 DEF From
<1> QED
  BY <1>1, <1>2, <1>3

\* A place of a list that is made from the parts of another one, and where its
\* method comes from.
LEMMA PatchPlace ==
    ASSUME NEW n \in Nat, NEW m \in Nat, NEW a \in 0..n, NEW b \in 1..(n + 1), a < b,
           NEW i \in 1..(a + m + (n - b + 1))
    PROVE  /\ i <= a => i \in 1..n
           /\ i > a /\ i <= a + m => i - a \in 1..m
           /\ i > a + m => /\ b + (i - a - m) - 1 \in b..n
                           /\ i - (a + m) \in 1..(n - b + 1)
                           /\ b + (i - (a + m)) - 1 = b + (i - a - m) - 1
                           /\ i >= 2 /\ (m = 0 \/ b >= 2) => b + (i - a - m) - 1 >= 2
  OBVIOUS

\* A list from which a part is taken, and methods put in its place.
Patch(list, dm, a, b) == SubSeq(list, 1, a) \o dm \o SubSeq(list, b, Len(list))

IsPatch(s, list, dm, a, b) ==
    /\ Len(s) = a + Len(dm) + (Len(list) - b + 1)
    /\ \A i \in 1..Len(s) : s[i] = IF i <= a THEN list[i]
                                   ELSE IF i <= a + Len(dm) THEN dm[i - a]
                                   ELSE list[b + (i - a - Len(dm)) - 1]

LEMMA PatchedAt ==
    ASSUME NEW list \in Lists, NEW dm \in Seq(Methods),
           NEW a \in 0..Len(list), NEW b \in 1..(Len(list) + 1), a < b
    PROVE  /\ Patch(list, dm, a, b) \in Seq(Methods)
           /\ IsPatch(Patch(list, dm, a, b), list, dm, a, b)
<1> DEFINE p == SubSeq(list, 1, a)
           q == SubSeq(list, b, Len(list))
           n == Len(list)
<1>1. n \in Nat /\ list \in Seq(Methods) /\ (\A i \in 1..n : list[i] \in Methods)
  BY DEF Lists
<1>2. p \in Seq(Methods) /\ Len(p) = a /\ \A i \in 1..a : p[i] = list[i]
  BY <1>1, SubSeqProperties, 1 \in Int
<1>3. q \in Seq(Methods) /\ Len(q) = n - b + 1 /\ \A i \in 1..(n - b + 1) : q[i] = list[b + i - 1]
  <2>1. \A i \in b..n : list[i] \in Methods
    BY <1>1
  <2>2. b \in Int /\ n \in Int
    BY <1>1
  <2> QED
    BY <2>1, <2>2, <1>1, SubSeqProperties
<1> HIDE DEF p, q
<1> HIDE DEF n
<1>4. PICK m \in Nat : m = Len(dm)
  OBVIOUS
<1>5. PICK r \in Seq(Methods) :
          /\ r = p \o dm /\ Len(r) = a + m
          /\ \A i \in 1..(a + m) : r[i] = IF i <= a THEN p[i] ELSE dm[i - a]
  <2>1. /\ p \o dm \in Seq(Methods) /\ Len(p \o dm) = Len(p) + Len(dm)
        /\ \A i \in 1..(Len(p) + Len(dm)) :
              (p \o dm)[i] = IF i <= Len(p) THEN p[i] ELSE dm[i - Len(p)]
    BY <1>2, ConcatProperties
  <2> QED
    BY <1>2, <1>4, <2>1
<1>6. PICK s \in Seq(Methods) :
          /\ s = r \o q /\ Len(s) = Len(r) + Len(q)
          /\ \A i \in 1..(Len(r) + Len(q)) : s[i] = IF i <= Len(r) THEN r[i] ELSE q[i - Len(r)]
  <2>1. /\ r \o q \in Seq(Methods) /\ Len(r \o q) = Len(r) + Len(q)
        /\ \A i \in 1..(Len(r) + Len(q)) :
              (r \o q)[i] = IF i <= Len(r) THEN r[i] ELSE q[i - Len(r)]
    BY <1>3, ConcatProperties
  <2> QED
    BY <2>1
<1>9. Len(s) = a + m + (n - b + 1) /\ a \in 0..n /\ b \in 1..(n + 1)
  BY <1>3, <1>5, <1>6 DEF n
<1>7. ASSUME NEW i \in 1..Len(s)
      PROVE  s[i] = IF i <= a THEN list[i]
                    ELSE IF i <= a + m THEN dm[i - a]
                    ELSE list[b + (i - a - m) - 1]
  <2>0. i \in 1..(a + m + (n - b + 1)) /\ i \in Int /\ a \in Int
    BY <1>9
  <2>1. s[i] = IF i <= a + m THEN r[i] ELSE q[i - (a + m)]
    BY <1>3, <1>5, <1>6, <2>0
  <2>2. i <= a + m => r[i] = IF i <= a THEN p[i] ELSE dm[i - a]
    <3>1. i <= a + m => i \in 1..(a + m)
      BY <2>0
    <3> QED
      BY <1>5, <3>1
  <2>3. i <= a => i <= a + m /\ i \in 1..a
    BY <2>0
  <2>4. i > a + m => q[i - (a + m)] = list[b + (i - (a + m)) - 1]
    BY <1>1, <1>3, <1>9, <2>0, PatchPlace
  <2>5. i > a + m => b + (i - (a + m)) - 1 = b + (i - a - m) - 1
    BY <1>1, <1>9, <2>0, PatchPlace
  <2>6. CASE i <= a
    BY <1>2, <2>1, <2>2, <2>3, <2>6
  <2>7. CASE ~(i <= a) /\ i <= a + m
    BY <2>1, <2>2, <2>7
  <2>8. CASE ~(i <= a) /\ ~(i <= a + m)
    <3>1. i > a + m
      BY <2>0, <2>8
    <3> QED
      BY <2>1, <2>4, <2>5, <2>8, <3>1
  <2> QED BY <2>6, <2>7, <2>8
<1>8. Patch(list, dm, a, b) = s
  BY <1>5, <1>6 DEF Patch, p, q
<1>10. IsPatch(s, list, dm, a, b)
  BY <1>4, <1>7, <1>9 DEF n, IsPatch
<1> QED
  BY <1>8, <1>10

\* If the methods are plain, and no cuts, the list stays in order, with no cut
\* that it did not have.
LEMMA Patched ==
    ASSUME NEW list \in Lists, NEW dm \in Seq(Plain),
           NEW a \in 0..Len(list), NEW b \in 1..(Len(list) + 1), a < b
    PROVE  /\ dm = <<>> \/ b >= 2 => Patch(list, dm, a, b) \in Lists
           /\ NoCuts(dm) => Fewer(Patch(list, dm, a, b), list)
<1>1. dm \in Seq(Methods) /\ \A i \in 1..Len(dm) : dm[i] \in Plain
  BY DEF Plain
<1>2. PICK n \in Nat, m \in Nat, r \in Seq(Methods) :
          /\ n = Len(list) /\ m = Len(dm) /\ r = Patch(list, dm, a, b)
          /\ Len(r) = a + m + (n - b + 1)
          /\ \A i \in 1..Len(r) : r[i] = IF i <= a THEN list[i]
                                        ELSE IF i <= a + m THEN dm[i - a]
                                        ELSE list[b + (i - a - m) - 1]
  <2>1. Len(list) \in Nat /\ Len(dm) \in Nat
    BY DEF Lists
  <2>2. Patch(list, dm, a, b) \in Seq(Methods) /\ IsPatch(Patch(list, dm, a, b), list, dm, a, b)
    BY <1>1, PatchedAt
  <2> QED
    BY <2>1, <2>2 DEF IsPatch
<1>3. a \in 0..n /\ b \in 1..(n + 1) /\ \A i \in 2..n : list[i] \in Plain
  BY <1>2 DEF Lists
<1>4. ASSUME dm = <<>> \/ b >= 2, NEW i \in 2..Len(r) PROVE r[i] \in Plain
  <2>0. i \in 1..(a + m + (n - b + 1)) /\ i >= 2 /\ i \in 1..Len(r)
    BY <1>2, <1>3
  <2>1. CASE i <= a
    <3>1. r[i] = list[i] /\ i \in 2..n
      BY <2>0, <2>1, <1>2, <1>3
    <3> QED BY <3>1, <1>3
  <2>2. CASE a < i /\ i <= a + m
    <3>1. i - a \in 1..Len(dm)
      BY <2>0, <2>2, <1>2, <1>3, PatchPlace
    <3>2. r[i] = dm[i - a]
      BY <2>0, <2>2, <1>2, <1>3
    <3> QED BY <3>1, <3>2, <1>1
  <2>3. CASE i > a + m
    <3>1. r[i] = list[b + (i - a - m) - 1]
      BY <2>3, <1>2, <1>3
    <3>2. m = 0 \/ b >= 2
      BY <1>2, <1>4
    <3>3. b + (i - a - m) - 1 \in b..n /\ b + (i - a - m) - 1 >= 2
      BY <2>0, <2>3, <3>2, <1>3, PatchPlace
    <3> QED BY <3>1, <3>3, <1>3
  <2> QED BY <2>1, <2>2, <2>3, <1>3
<1>5. dm = <<>> \/ b >= 2 => r \in Lists
  BY <1>2, <1>4 DEF Lists
<1>6. ASSUME NoCuts(dm) PROVE Fewer(r, list)
  <2>0. PICK f : f = [i \in 1..Len(r) |-> IF i <= a THEN i ELSE b + (i - a - m) - 1]
    OBVIOUS
  <2>1. ASSUME NEW i \in 1..Len(r), r[i].type = "CutData"
        PROVE  (i <= a \/ i > a + m) /\ f[i] \in 1..Len(list) /\ r[i] = list[f[i]]
    <3>0. i \in 1..(a + m + (n - b + 1)) /\ f[i] = IF i <= a THEN i ELSE b + (i - a - m) - 1
      BY <2>0, <1>2
    <3>1. CASE i <= a
      BY <3>0, <3>1, <1>2, <1>3, PatchPlace
    <3>2. CASE a < i /\ i <= a + m
      <4>1. i - a \in 1..Len(dm)
        BY <3>0, <3>2, <1>2, <1>3, PatchPlace
      <4>2. r[i] = dm[i - a]
        BY <3>0, <3>2, <1>2, <1>3
      <4> QED
        BY <4>1, <4>2, <1>6, <2>1 DEF NoCuts
    <3>3. CASE i > a + m
      <4>1. b + (i - a - m) - 1 \in b..n
        BY <3>0, <3>3, <1>3, PatchPlace
      <4>2. f[i] = b + (i - a - m) - 1 /\ r[i] = list[b + (i - a - m) - 1]
        BY <3>0, <3>3, <1>2, <1>3
      <4> QED
        BY <3>3, <4>1, <4>2, <1>2, <1>3
    <3> QED BY <3>1, <3>2, <3>3, <1>3
  <2>2. ASSUME NEW i \in 1..Len(r), NEW j \in 1..Len(r), r[i].type = "CutData",
               r[j].type = "CutData", f[i] = f[j]
        PROVE  i = j
    <3>1. (i <= a \/ i > a + m) /\ (j <= a \/ j > a + m)
      BY <2>1, <2>2
    <3>2. /\ f[i] = IF i <= a THEN i ELSE b + (i - a - m) - 1
          /\ f[j] = IF j <= a THEN j ELSE b + (j - a - m) - 1
      BY <2>0
    <3>3. i \in Nat /\ j \in Nat
      BY <1>2
    <3>4. i \in 1..(a + m + (n - b + 1)) /\ j \in 1..(a + m + (n - b + 1))
      BY <1>2
    <3>5. CASE i <= a /\ j <= a
      BY <2>2, <3>2, <3>5
    <3>6. CASE i <= a /\ ~(j <= a)
      <4>1. f[i] = i /\ f[j] \in b..n
        BY <1>3, <3>1, <3>2, <3>3, <3>4, <3>6, PatchPlace
      <4> QED
        BY <1>3, <2>2, <3>6, <4>1
    <3>7. CASE ~(i <= a) /\ j <= a
      <4>1. f[j] = j /\ f[i] \in b..n
        BY <1>3, <3>1, <3>2, <3>3, <3>4, <3>7, PatchPlace
      <4> QED
        BY <1>3, <2>2, <3>7, <4>1
    <3>8. CASE ~(i <= a) /\ ~(j <= a)
      <4>1. b + (i - a - m) - 1 = b + (j - a - m) - 1
        BY <2>2, <3>2, <3>8
      <4> QED
        BY <1>3, <3>3, <4>1
    <3> QED
      BY <3>5, <3>6, <3>7, <3>8
  <2>3. From(r, list, f)
    BY <2>1, <2>2 DEF From
  <2> QED
    BY <2>3, FewerBy
<1> QED
  BY <1>2, <1>5, <1>6

\* A list without a part.
CutOut(list, a, b) == SubSeq(list, 1, a) \o SubSeq(list, b, Len(list))

LEMMA Shortened ==
    ASSUME NEW list \in Lists, NEW a \in 0..Len(list), NEW b \in 1..(Len(list) + 1), a < b
    PROVE  LET r == CutOut(list, a, b) IN
           /\ r \in Lists /\ Fewer(r, list)
           /\ \A i \in 1..Len(r) : \E j \in 1..Len(list) : (j <= a \/ j >= b) /\ r[i] = list[j]
<1>1. SubSeq(list, 1, a) \in Seq(Methods)
  <2>1. \A i \in 1..a : list[i] \in Methods
    BY DEF Lists
  <2> QED
    BY <2>1, SubSeqProperties, 1 \in Int
<1>2. SubSeq(list, 1, a) \o <<>> = SubSeq(list, 1, a)
  BY <1>1, ConcatEmptySeq
<1>3. <<>> \in Seq(Plain) /\ <<>> \in Seq(Methods) /\ Len(<<>>) = 0 /\ NoCuts(<<>>)
  BY DEF NoCuts
<1>4. PICK r : r = SubSeq(list, 1, a) \o SubSeq(list, b, Len(list)) /\ r = CutOut(list, a, b)
  BY DEF CutOut
<1>5. PICK e \in Seq(Methods) : e = <<>> /\ Len(e) = 0 /\ r = Patch(list, e, a, b)
  BY <1>2, <1>3, <1>4 DEF Patch
<1>8. IsPatch(r, list, e, a, b)
  BY <1>5, PatchedAt
<1>6. r \in Lists /\ Fewer(r, list)
  BY <1>3, <1>5, Patched
<1>7. ASSUME NEW i \in 1..Len(r)
      PROVE  \E j \in 1..Len(list) : (j <= a \/ j >= b) /\ r[i] = list[j]
  <2>1. /\ Len(r) = a + 0 + (Len(list) - b + 1)
        /\ r[i] = IF i <= a THEN list[i] ELSE IF i <= a + 0 THEN e[i - a]
                  ELSE list[b + (i - a - 0) - 1]
    BY <1>5, <1>8 DEF IsPatch
  <2>2. Len(list) \in Nat
    BY DEF Lists
  <2>3. CASE i <= a
    BY <2>1, <2>2, <2>3
  <2>4. CASE i > a
    <3>1. r[i] = list[b + (i - a) - 1] /\ b + (i - a) - 1 \in 1..Len(list) /\ b + (i - a) - 1 >= b
      BY <2>1, <2>2, <2>4
    <3> QED
      BY <3>1
  <2> QED
    BY <2>3, <2>4, <2>2, <2>1
<1> QED
  BY <1>4, <1>6, <1>7

\* A list with plain methods added: it begins as before.
LEMMA Added ==
    ASSUME NEW list \in Lists, NEW dm \in Seq(Plain)
    PROVE  /\ list \o dm \in Lists
           /\ Rotated(list) => Rotated(list \o dm)
           /\ \A t : Has(list, t) \/ Has(dm, t) => Has(list \o dm, t)
           /\ \A done \in Lists : Within(done, list) => Within(done \o dm, list \o dm)
           /\ NoCuts(dm) => Fewer(list \o dm, list)
<1>1. list \in Seq(Methods) /\ dm \in Seq(Methods) /\ Len(list) \in Nat /\ Len(dm) \in Nat
  BY DEF Lists, Plain
<1>2. /\ list \o dm \in Seq(Methods) /\ Len(list \o dm) = Len(list) + Len(dm)
      /\ \A i \in 1..(Len(list) + Len(dm)) :
            (list \o dm)[i] = IF i <= Len(list) THEN list[i] ELSE dm[i - Len(list)]
  BY <1>1, ConcatProperties
<1>3. ASSUME NEW i \in 2..Len(list \o dm) PROVE (list \o dm)[i] \in Plain
  <2>1. CASE i <= Len(list)
    BY <2>1, <1>1, <1>2 DEF Lists
  <2>2. CASE i > Len(list)
    <3>1. i - Len(list) \in 1..Len(dm) /\ (list \o dm)[i] = dm[i - Len(list)]
      BY <2>2, <1>1, <1>2
    <3> QED BY <3>1
  <2> QED BY <2>1, <2>2, <1>1
<1>4. list \o dm \in Lists
  BY <1>2, <1>3 DEF Lists
<1>5. Rotated(list) => Rotated(list \o dm)
  <2> SUFFICES ASSUME Rotated(list) PROVE Rotated(list \o dm)
    OBVIOUS
  <2>1. Len(list) > 0 /\ list[1].type = "RotateData"
    BY <1>1 DEF Rotated
  <2>2. (list \o dm)[1] = list[1] /\ list \o dm # <<>>
    BY <2>1, <1>1, <1>2
  <2> QED BY <2>1, <2>2 DEF Rotated
<1>6. ASSUME NEW t, Has(list, t) PROVE Has(list \o dm, t)
  <2>1. PICK i \in 1..Len(list) : list[i].type = t
    BY <1>6, <1>1 DEF Has
  <2>2. i \in 1..Len(list \o dm) /\ (list \o dm)[i] = list[i]
    BY <2>1, <1>1, <1>2
  <2> QED BY <2>1, <2>2, <1>2 DEF Has
<1>7. ASSUME NEW t, Has(dm, t) PROVE Has(list \o dm, t)
  <2>1. PICK i \in 1..Len(dm) : dm[i].type = t
    BY <1>7, <1>1 DEF Has
  <2>2. Len(list) + i \in 1..Len(list \o dm) /\ (list \o dm)[Len(list) + i] = dm[i]
    BY <2>1, <1>1, <1>2
  <2> QED BY <2>1, <2>2, <1>2 DEF Has
<1>8. ASSUME NEW done \in Lists, Within(done, list) PROVE Within(done \o dm, list \o dm)
  <2>1. done \in Seq(Methods) /\ Len(done) \in Nat
    BY DEF Lists
  <2>2. /\ Len(done \o dm) = Len(done) + Len(dm)
        /\ \A i \in 1..(Len(done) + Len(dm)) :
              (done \o dm)[i] = IF i <= Len(done) THEN done[i] ELSE dm[i - Len(done)]
    BY <1>1, <2>1, ConcatProperties
  <2>3. ASSUME NEW i \in 1..Len(done \o dm), i <= Len(done)
        PROVE  \E j \in 1..Len(list \o dm) : (done \o dm)[i] = (list \o dm)[j]
    <3>1. PICK j \in 1..Len(list) : done[i] = list[j]
      BY <1>8, <2>1, <2>2, <2>3 DEF Within
    <3>2. j \in 1..Len(list \o dm) /\ (list \o dm)[j] = list[j] /\ (done \o dm)[i] = done[i]
      BY <1>1, <1>2, <2>1, <2>2, <2>3
    <3> QED
      BY <3>1, <3>2
  <2>4. ASSUME NEW i \in 1..Len(done \o dm), i > Len(done)
        PROVE  \E j \in 1..Len(list \o dm) : (done \o dm)[i] = (list \o dm)[j]
    <3>1. PICK k \in 1..Len(dm) : k = i - Len(done)
      BY <1>1, <2>1, <2>2, <2>4
    <3>2. (done \o dm)[i] = dm[k]
      BY <2>1, <2>2, <2>4, <3>1
    <3>3. Len(list) + k \in 1..Len(list \o dm) /\ (list \o dm)[Len(list) + k] = dm[k]
      BY <1>1, <1>2
    <3> QED
      BY <3>2, <3>3
  <2>5. \A i \in 1..Len(done \o dm) :
            \E j \in 1..Len(list \o dm) : (done \o dm)[i] = (list \o dm)[j]
    <3>1. \A i \in 1..Len(done \o dm) : i <= Len(done) \/ i > Len(done)
      BY <1>1, <2>1, <2>2
    <3> QED
      BY <2>3, <2>4, <3>1
  <2> QED
    BY <2>5 DEF Within
<1>9. ASSUME NoCuts(dm) PROVE Fewer(list \o dm, list)
  <2>0. PICK f : f = [i \in 1..Len(list \o dm) |-> i]
    OBVIOUS
  <2>1. ASSUME NEW i \in 1..Len(list \o dm), (list \o dm)[i].type = "CutData"
        PROVE  f[i] \in 1..Len(list) /\ (list \o dm)[i] = list[f[i]]
    <3>1. CASE i <= Len(list)
      BY <2>0, <1>1, <1>2, <3>1
    <3>2. CASE i > Len(list)
      <4>1. i - Len(list) \in 1..Len(dm) /\ (list \o dm)[i] = dm[i - Len(list)]
        BY <1>1, <1>2, <3>2
      <4> QED
        BY <1>9, <2>1, <4>1 DEF NoCuts
    <3> QED
      BY <1>1, <3>1, <3>2
  <2>2. PICK r : r = list \o dm
    OBVIOUS
  <2>3. From(r, list, f)
    BY <2>0, <2>1, <2>2 DEF From
  <2> QED
    BY <2>2, <2>3, FewerBy
<1> QED
  BY <1>4, <1>5, <1>6, <1>7, <1>8, <1>9

\* The operators of DataMethod on lists, which all patch, shorten or add.
LEMMA RemoveAtLists ==
    ASSUME NEW list \in Lists, NEW i \in 1..Len(list)
    PROVE  /\ RemoveAt(list, i) \in Lists /\ Fewer(RemoveAt(list, i), list)
           /\ \A k \in 1..Len(RemoveAt(list, i)) :
                 \E j \in 1..Len(list) : j # i /\ RemoveAt(list, i)[k] = list[j]
<1>1. Len(list) \in Nat
  BY DEF Lists
<1>2. i - 1 \in 0..Len(list) /\ i + 1 \in 1..(Len(list) + 1) /\ i - 1 < i + 1
  BY <1>1
<1>3. PICK a \in 0..Len(list), b \in 1..(Len(list) + 1) : a = i - 1 /\ b = i + 1 /\ a < b
  BY <1>2
<1>4. PICK r : r = SubSeq(list, 1, a) \o SubSeq(list, b, Len(list))
  OBVIOUS
<1>5. /\ r \in Lists /\ Fewer(r, list)
      /\ \A k \in 1..Len(r) : \E j \in 1..Len(list) : (j <= a \/ j >= b) /\ r[k] = list[j]
  <2>1. CutOut(list, a, b) = r
    BY <1>4 DEF CutOut
  <2> QED
    BY <1>3, <2>1, Shortened
<1>6. \A j \in 1..Len(list) : j <= a \/ j >= b => j # i
  BY <1>1, <1>3
<1>7. RemoveAt(list, i) = r
  BY <1>3, <1>4 DEF RemoveAt
<1> QED
  BY <1>5, <1>6, <1>7

\* A set of numbers from 1 to n has at most n of them.
LEMMA Counted ==
    ASSUME NEW n \in Nat, NEW S \in SUBSET (1..n)
    PROVE  /\ Cardinality(S) \in 0..n
           /\ S = 1..n => Cardinality(S) = n
<1>1. IsFiniteSet(1..n) /\ Cardinality(1..n) = n
  BY FS_Interval
<1>2. IsFiniteSet(S) /\ Cardinality(S) <= n
  BY <1>1, FS_Subset
<1>3. Cardinality(S) \in Nat
  BY <1>2, FS_CardinalityType
<1> QED
  BY <1>1, <1>2, <1>3

\* The methods before the first cut: all of them if there is no cut.
LEMMA BeforeCutLists ==
    ASSUME NEW list \in Lists
    PROVE  /\ BeforeCut(list) \in Lists /\ Within(BeforeCut(list), list)
           /\ ~Has(list, "CutData") => BeforeCut(list) = list
<1> DEFINE S == {i \in DOMAIN list : \A j \in 1..i : list[j].type # "CutData"}
           n == Len(list)
           c == Cardinality(S)
<1>1. n \in Nat /\ DOMAIN list = 1..n /\ list \in Seq(Methods) /\ \A i \in 2..n : list[i] \in Plain
  BY DEF Lists
<1>2. S \in SUBSET (1..n)
  BY <1>1
<1>3. c \in 0..n
  BY <1>1, <1>2, Counted
<1>4. BeforeCut(list) = SubSeq(list, 1, c)
  BY DEF BeforeCut
<1> HIDE DEF c
<1>5. /\ SubSeq(list, 1, c) \in Seq(Methods) /\ Len(SubSeq(list, 1, c)) = c
      /\ \A i \in 1..c : SubSeq(list, 1, c)[i] = list[i]
  <2>1. \A i \in 1..c : list[i] \in Methods
    BY <1>1, <1>3
  <2> QED
    BY <1>1, <1>3, <2>1, SubSeqProperties
<1>6. SubSeq(list, 1, c) \in Lists
  <2>1. \A i \in 2..c : SubSeq(list, 1, c)[i] \in Plain
    BY <1>1, <1>3, <1>5
  <2> QED
    BY <1>5, <2>1 DEF Lists
<1>7. ASSUME ~Has(list, "CutData") PROVE BeforeCut(list) = list
  <2>1. S = 1..n
    BY <1>1, <1>7 DEF Has
  <2>2. c = n
    BY <1>1, <1>2, <2>1, Counted DEF c
  <2>3. SubSeq(list, 1, n) = list
    BY <1>1, SubSeqFull
  <2> QED
    BY <1>4, <2>2, <2>3
<1>8. Within(BeforeCut(list), list)
  <2>1. \A i \in 1..c : i \in 1..n
    BY <1>1, <1>3
  <2> QED
    BY <1>4, <1>5, <2>1 DEF Within
<1> QED
  BY <1>4, <1>6, <1>7, <1>8

\* remove takes an end of the list's beginning.
LEMMA RemovedLists ==
    ASSUME NEW list \in Lists, NEW types
    PROVE  Removed(list, types) \in Lists /\ Fewer(Removed(list, types), list)
<1> DEFINE n == Len(types)
           S == {j \in DOMAIN list : list[j].type = types[n]}
           last == Greatest(S)
           j == CHOOSE i \in last : TRUE
           K == {k \in 1..j : k <= n /\ \A i \in 0..(k - 1) : list[j - i].type = types[n - i]}
           c == Cardinality(K)
<1>1. Len(list) \in Nat /\ DOMAIN list = 1..Len(list)
  BY DEF Lists
<1>2. CASE last = {}
  BY <1>2 DEF Removed, Fewer
<1>3. CASE last # {}
  <2>1. j \in last /\ last \subseteq 1..Len(list)
    BY <1>1, <1>3 DEF Greatest
  <2> HIDE DEF j
  <2>2. j \in 1..Len(list)
    BY <2>1
  <2>3. K \in SUBSET (1..j) /\ j \in Nat
    BY <2>2
  <2>4. c \in 0..j
    BY <2>3, Counted
  <2>5. Removed(list, types) = CutOut(list, j - c, j + 1)
    BY <1>3 DEF Removed, CutOut, j
  <2> HIDE DEF c
  <2>6. j - c \in 0..Len(list) /\ j + 1 \in 1..(Len(list) + 1) /\ j - c < j + 1
    BY <1>1, <2>2, <2>4
  <2> QED
    BY <2>5, <2>6, Shortened
<1> QED
  BY <1>2, <1>3

\* changeMethods replaces the triple of a filter, or adds it.
LEMMA ReplaceLists ==
    ASSUME NEW list \in Lists, NEW dm \in Seq(Plain), dm # <<>>
    PROVE  Replace(list, dm) \in Lists /\ (NoCuts(dm) => Fewer(Replace(list, dm), list))
<1> DEFINE S == {j \in DOMAIN list : At(list, Types(dm), j)}
           last == Greatest(S)
           j == CHOOSE i \in last : TRUE
<1>1. Len(list) \in Nat /\ DOMAIN list = 1..Len(list) /\ Len(dm) \in Nat /\ Len(dm) >= 1
  BY DEF Lists
<1>2. Len(Types(dm)) = Len(dm)
  BY <1>1 DEF Types
<1>3. CASE last = {}
  BY <1>3, Added DEF Replace
<1>4. CASE last # {}
  <2>1. j \in last /\ last \subseteq S
    BY <1>4 DEF Greatest
  <2>2. j \in 1..Len(list) /\ At(list, Types(dm), j)
    BY <1>1, <2>1
  <2>3. Replace(list, dm) = SubSeq(list, 1, j - 1) \o dm \o SubSeq(list, j + Len(dm), Len(list))
    BY <1>4 DEF Replace
  <2> HIDE DEF j
  <2>4. j + Len(dm) - 1 <= Len(list)
    BY <1>2, <2>2 DEF At
  <2>5. /\ j - 1 \in 0..Len(list) /\ j + Len(dm) \in 1..(Len(list) + 1)
        /\ j - 1 < j + Len(dm) /\ j + Len(dm) >= 2
    BY <1>1, <2>2, <2>4
  <2>6. Replace(list, dm) = Patch(list, dm, j - 1, j + Len(dm))
    BY <2>3 DEF Patch
  <2> QED
    BY <2>5, <2>6, Patched
<1> QED
  BY <1>3, <1>4

\* remove of the rotation takes it away, as it is the first method.
LEMMA Unrotated ==
    ASSUME NEW list \in Lists PROVE ~Rotated(Removed(list, <<"RotateData">>))
<1> DEFINE types == <<"RotateData">>
           S == {j \in DOMAIN list : list[j].type = types[Len(types)]}
           last == Greatest(S)
           j == CHOOSE i \in last : TRUE
           K == {k \in 1..j : k <= Len(types) /\ \A i \in 0..(k - 1) : list[j - i].type = types[Len(types) - i]}
           n == Len(list)
<1>1. n \in Nat /\ DOMAIN list = 1..n /\ list \in Seq(Methods)
      /\ (\A i \in 1..n : list[i] \in Methods) /\ \A i \in 2..n : list[i].type # "RotateData"
  BY DEF Lists, Plain
<1>2. Len(types) = 1 /\ types[1] = "RotateData"
  OBVIOUS
<1>3. S \subseteq {1}
  BY <1>1, <1>2
<1>4. CASE last = {}
  <2>1. Removed(list, types) = list
    BY <1>4 DEF Removed
  <2>2. 1 \notin S
    BY <1>3, <1>4 DEF Greatest
  <2>3. ~Rotated(list)
    BY <1>1, <1>2, <2>2 DEF Rotated
  <2> QED
    BY <2>1, <2>3
<1>5. CASE last # {}
  <2>1. last \subseteq {1}
    BY <1>3 DEF Greatest
  <2>2. j = 1 /\ 1 \in S
    BY <1>5, <2>1 DEF Greatest
  <2>3. Removed(list, types) = SubSeq(list, 1, j - Cardinality(K)) \o SubSeq(list, j + 1, n)
    BY <1>5 DEF Removed
  <2>4. 1 \in 1..n /\ list[1].type = "RotateData"
    BY <1>1, <1>2, <2>2
  <2> HIDE DEF j
  <2>5. K = {1}
    <3>1. \A k \in K : k = 1
      BY <1>2
    <3>2. 1 \in K
      <4>1. 0..(1 - 1) = {0}
        OBVIOUS
      <4>2. list[j - 0].type = types[Len(types) - 0]
        BY <1>2, <2>2, <2>4
      <4> QED
        BY <1>2, <2>2, <4>1, <4>2
    <3> QED
      BY <3>1, <3>2
  <2>6. Cardinality(K) = 1
    BY <2>5, FS_Singleton
  <2> HIDE DEF K
  <2>7. Removed(list, types) = SubSeq(list, 1, 0) \o SubSeq(list, 2, n)
    BY <2>2, <2>3, <2>6
  <2>8. /\ SubSeq(list, 2, n) \in Seq(Methods) /\ Len(SubSeq(list, 2, n)) = n - 1
        /\ \A i \in 1..(n - 1) : SubSeq(list, 2, n)[i] = list[i + 1]
    <3>1. \A i \in 2..n : list[i] \in Methods
      BY <1>1
    <3>2. \A i \in 1..(n - 2 + 1) : SubSeq(list, 2, n)[i] = list[2 + i - 1]
      BY <3>1, <1>1, SubSeqProperties
    <3>3. SubSeq(list, 2, n) \in Seq(Methods) /\ Len(SubSeq(list, 2, n)) = IF 2 <= n THEN n - 2 + 1 ELSE 0
      BY <3>1, <1>1, SubSeqProperties
    <3> QED
      BY <1>1, <2>4, <3>2, <3>3
  <2>9. SubSeq(list, 1, 0) = <<>>
    BY <1>1, SubSeqEmpty
  <2>10. Removed(list, types) = SubSeq(list, 2, n)
    BY <2>7, <2>8, <2>9, ConcatEmptySeq
  <2> HIDE DEF types, S, last, j, K
  <2>11. ASSUME Rotated(SubSeq(list, 2, n)) PROVE FALSE
    <3>1. 1 \in 1..(n - 1)
      BY <2>8, <2>11, <1>1 DEF Rotated
    <3>2. SubSeq(list, 2, n)[1] = list[2]
      BY <2>8, <3>1
    <3>3. list[2].type # "RotateData"
      BY <1>1, <3>1
    <3> QED
      BY <2>11, <3>2, <3>3 DEF Rotated
  <2> QED
    BY <2>10, <2>11 DEF types
<1> QED
  BY <1>4, <1>5

-----------------------------------------------------------------------------
(* Operations on one waveform *)

\* Nothing was done, and no list is the shortest one.
LEMMA EmptyList ==
    /\ <<>> \in Lists /\ ~Rotated(<<>>) /\ \A t : ~Has(<<>>, t)
    /\ \A list : Within(<<>>, list) /\ Within(list, list)
  BY DEF Lists, Rotated, Has, Within

\* A waveform that is Good can be replayed.
LEMMA WithListReady ==
    ASSUME NEW v, Ready(v), NEW list \in Lists
    PROVE  /\ Ready(WithList(v, list)) /\ WithList(v, list).list = list
           /\ WithList(v, list).derived = v.derived
  BY DEF Ready, WithList, TimeSeries, Lists

\* What reread leaves: raw data of some kind, and nothing done.
LEMMA RereadFacts ==
    ASSUME Inv, NEW v, Ready(v)
    PROVE  LET r == Reread(v) IN
           /\ r \in TimeSeries /\ r.list = v.list /\ r.done = <<>> /\ r.wrong = "no"
           /\ r.copy = v.copy /\ r.derived = v.derived /\ r.own = v.own
           /\ r.raw \in {"none", "part"} => ~v.copy /\ disk # "all"
           /\ ~CanReread(v) => disk # "all" /\ r.raw = disk
           /\ r.raw = "element" => v.derived /\ ~v.copy
           /\ r.raw = "own" => v.copy \/ ~v.derived
  BY EmptyList DEF Ready, Reread, CanReread, TimeSeries, Lists, Inv

\* A waveform read again, whose list is empty.
LEMMA RereadGood ==
    ASSUME Inv, NEW v, Ready(v), v.list = <<>>
    PROVE  Good(Reread(v)) /\ Reread(v).derived = v.derived /\ Reread(v).list = v.list
<1> DEFINE r == Reread(v)
<1> HIDE DEF r
<1>1. /\ r \in TimeSeries /\ r.list = v.list /\ r.done = <<>> /\ r.wrong = "no"
      /\ r.copy = v.copy /\ r.derived = v.derived /\ r.own = v.own
      /\ r.raw = "element" => v.derived /\ ~v.copy
      /\ r.raw = "own" => v.copy \/ ~v.derived
  BY RereadFacts DEF r
<1> QED
  BY <1>1, EmptyList DEF Good, Ready, r

\* A waveform that cannot be read again.
LEMMA UnreadGood ==
    ASSUME Inv, NEW v, Ready(v), ~CanReread(v)
    PROVE  Good(Unread(v)) /\ Unread(v).derived = v.derived /\ Unread(v).list = v.list
<1> DEFINE r == Reread(v)
           u == Unread(v)
<1> HIDE DEF r
<1>1. /\ r \in TimeSeries /\ r.list = v.list /\ r.done = <<>>
      /\ r.copy = v.copy /\ r.derived = v.derived /\ r.own = v.own
      /\ r.raw = disk /\ disk \in {"part", "none"}
  BY RereadFacts DEF r, Inv
<1>2. PICK c \in {"unread", "no"} : c = IF disk = "part" THEN "unread" ELSE "no"
  OBVIOUS
<1>3. u = [r EXCEPT !.wrong = c]
  BY <1>2 DEF Unread, r
<1> HIDE DEF u
<1>4. /\ u \in TimeSeries /\ u.list = v.list /\ u.done = <<>> /\ u.wrong = c
      /\ u.copy = v.copy /\ u.derived = v.derived /\ u.own = v.own /\ u.raw = disk
  BY <1>1, <1>3 DEF TimeSeries
<1>5. Good(u)
  BY <1>1, <1>2, <1>4, EmptyList DEF Good, Ready
<1> QED
  BY <1>4, <1>5 DEF u

\* doMethods after reread, with the list of the waveform.
LEMMA ReplayGood ==
    ASSUME Inv, NEW v, Ready(v)
    PROVE  Good(Replay(v)) /\ Replay(v).derived = v.derived /\ Replay(v).list = v.list
<1> DEFINE r == Reread(v)
           d == DoMethods(r, v.list)
<1> HIDE DEF r
<1>1. CASE ~CanReread(v)
  BY <1>1, UnreadGood DEF Replay
<1>2. CASE CanReread(v)
  <2>1. /\ r \in TimeSeries /\ r.list = v.list
        /\ r.copy = v.copy /\ r.derived = v.derived /\ r.own = v.own
        /\ r.raw = "element" => v.derived /\ ~v.copy
        /\ r.raw = "own" => v.copy \/ ~v.derived
    BY RereadFacts DEF r
  <2>2. v.list \in Lists /\ v.list \in Seq(Methods) /\ (v.copy => v.derived)
    BY DEF Ready, Lists
  <2>3. /\ d \in TimeSeries /\ d.list = v.list /\ d.raw = r.raw /\ d.derived = v.derived
        /\ d.done = IF r.raw = "none" \/ Stuck(r, v.list) THEN <<>> ELSE v.list
        /\ d.wrong = IF Stuck(r, v.list) THEN "stuck" ELSE "no"
        /\ d.copy => v.copy
        /\ v.copy /\ ~d.copy => Has(v.list, "CutData")
        /\ d.own => v.own
    <3> DEFINE new == CanDo(r, v.list) /\ Has(v.list, "CutData")
               stuck == Stuck(r, v.list)
    <3>1. d = [r EXCEPT !.done = IF r.raw = "none" \/ stuck THEN <<>> ELSE v.list,
                        !.own = r.own /\ ~new, !.copy = r.copy /\ ~new,
                        !.wrong = IF stuck THEN "stuck" ELSE "no"]
      BY <2>1 DEF DoMethods, TimeSeries
    <3>2. <<>> \in Seq(Methods) /\ (new => Has(v.list, "CutData"))
      OBVIOUS
    <3>3. new \in BOOLEAN /\ stuck \in BOOLEAN /\ (stuck <=> Stuck(r, v.list))
      BY DEF Stuck, CanDo, Has
    <3> HIDE DEF new, stuck, d
    <3>4. r.own \in BOOLEAN /\ r.copy \in BOOLEAN
      BY <2>1 DEF TimeSeries
    <3>5. PICK done \in Seq(Methods) : done = IF r.raw = "none" \/ stuck THEN <<>> ELSE v.list
      <4>1. (IF r.raw = "none" \/ stuck THEN <<>> ELSE v.list) \in Seq(Methods)
        BY <2>2, <3>2
      <4> QED BY <4>1
    <3>6. PICK wrong \in {"no", "stuck"} : wrong = IF stuck THEN "stuck" ELSE "no"
      OBVIOUS
    <3>7. d = [r EXCEPT !.done = done, !.own = r.own /\ ~new, !.copy = r.copy /\ ~new,
                        !.wrong = wrong]
      BY <3>1, <3>5, <3>6
    <3>8. /\ d.list = r.list /\ d.raw = r.raw /\ d.derived = r.derived
          /\ d.done = done /\ d.wrong = wrong
          /\ d.own = (r.own /\ ~new) /\ d.copy = (r.copy /\ ~new)
      BY <2>1, <3>7 DEF TimeSeries
    <3>9. d \in TimeSeries
      BY <2>1, <3>3, <3>4, <3>7 DEF TimeSeries
    <3> QED
      BY <2>1, <3>2, <3>3, <3>4, <3>5, <3>6, <3>8, <3>9
  <2>4. Stuck(r, v.list) => Rotated(v.list) /\ ~d.own
    BY <2>1, <2>3 DEF Stuck
  <2> HIDE DEF d
  <2>5. Good(d)
    BY <2>1, <2>2, <2>3, <2>4, EmptyList DEF Good, Ready
  <2> QED
    BY <1>2, <2>3, <2>5 DEF Replay, d, r
<1> QED
  BY <1>1, <1>2

\* applyMethods after reread, which stops at a cut.
LEMMA ReplayMemberGood ==
    ASSUME Inv, NEW v, Ready(v)
    PROVE  /\ Good(ReplayMember(v)) /\ ReplayMember(v).derived = v.derived
           /\ ReplayMember(v).list = v.list
<1> DEFINE r == Reread(v)
           d == ReplayMember(v)
<1>1. /\ r \in TimeSeries /\ r.list = v.list
      /\ r.copy = v.copy /\ r.derived = v.derived /\ r.own = v.own
      /\ r.raw = "element" => v.derived /\ ~v.copy
      /\ r.raw = "own" => v.copy \/ ~v.derived
  BY RereadFacts
<1>2. v.list \in Lists /\ (v.copy => v.derived)
  BY DEF Ready
<1>3. /\ BeforeCut(v.list) \in Lists /\ Within(BeforeCut(v.list), v.list)
      /\ ~Has(v.list, "CutData") => BeforeCut(v.list) = v.list
  BY <1>2, BeforeCutLists
<1>4. /\ d \in TimeSeries /\ d.list = v.list /\ d.raw = r.raw
      /\ d.derived = v.derived /\ d.copy = v.copy /\ d.own = v.own
      /\ d.done = IF r.raw = "none" \/ Stuck(v, v.list) THEN <<>> ELSE BeforeCut(v.list)
      /\ d.wrong = IF Stuck(v, v.list) THEN "stuck"
                   ELSE IF Has(v.list, "CutData") THEN "torn" ELSE "no"
  <2> HIDE DEF r
  <2>1. BeforeCut(v.list) \in Seq(Methods) /\ <<>> \in Seq(Methods)
    BY <1>3 DEF Lists
  <2>2. d = [r EXCEPT
            !.done = IF r.raw = "none" \/ Stuck(v, v.list) THEN <<>> ELSE BeforeCut(v.list),
            !.wrong = IF Stuck(v, v.list) THEN "stuck"
                      ELSE IF Has(v.list, "CutData") THEN "torn" ELSE "no"]
    BY DEF ReplayMember, r
  <2> QED
    BY <1>1, <2>1, <2>2 DEF TimeSeries
<1>5. Stuck(v, v.list) => Rotated(v.list) /\ ~v.own
  BY DEF Stuck
<1> HIDE DEF r, d
<1>6. Good(d)
  BY <1>1, <1>2, <1>3, <1>4, <1>5, EmptyList DEF Good, Ready
<1> QED
  BY <1>4, <1>6 DEF d

\* Methods applied to what is there.
LEMMA AppliedGood ==
    ASSUME NEW v, Good(v), NEW dm \in Seq(Plain)
    PROVE  /\ Good(Applied(v, dm)) /\ Applied(v, dm).derived = v.derived
           /\ Applied(v, dm).list = v.list \o dm
<1> DEFINE d == Applied(v, dm)
<1>1. v \in TimeSeries /\ v.list \in Lists /\ v.done \in Lists
  BY DEF Good, Ready
<1>2. /\ v.list \o dm \in Lists /\ (Rotated(v.list) => Rotated(v.list \o dm))
      /\ (\A t : Has(v.list, t) => Has(v.list \o dm, t))
      /\ v.done \o dm \in Lists
      /\ Within(v.done, v.list) => Within(v.done \o dm, v.list \o dm)
  BY <1>1, Added
<1>3. v.list \o dm \in Seq(Methods) /\ v.done \o dm \in Seq(Methods)
  BY <1>2 DEF Lists
<1>4. /\ d \in TimeSeries /\ d.list = v.list \o dm
      /\ d.done = IF v.raw = "none" THEN v.done ELSE v.done \o dm
      /\ d.raw = v.raw /\ d.copy = v.copy /\ d.derived = v.derived
      /\ d.own = v.own /\ d.wrong = v.wrong
  BY <1>1, <1>3 DEF Applied, TimeSeries
<1> HIDE DEF d
<1>5. Good(d)
  BY <1>1, <1>2, <1>4, EmptyList DEF Good, Ready
<1> QED
  BY <1>4, <1>5 DEF d

\* A part of the data, by CutData or CopyData.
LEMMA WindowGood ==
    ASSUME NEW v, Good(v), NEW m \in Plain, m.type \in {"CutData", "CopyData"}
    PROVE  /\ Good(Window(v, m)) /\ Window(v, m).derived = v.derived
           /\ Window(v, m).list = v.list \o <<m>>
<1> DEFINE a == Applied(v, <<m>>)
           d == Window(v, m)
<1>1. <<m>> \in Seq(Plain)
  OBVIOUS
<1>2. Good(a) /\ a.derived = v.derived
  BY <1>1, AppliedGood
<1>3. a.list = v.list \o <<m>>
  BY DEF Good, Ready, Applied, TimeSeries
<1>4. Has(a.list, "CutData") \/ Has(a.list, "CopyData")
  <2>1. Has(<<m>>, m.type)
    BY DEF Has
  <2>2. Has(v.list \o <<m>>, m.type)
    BY <1>1, <2>1, Added DEF Good, Ready
  <2> QED
    BY <1>3, <2>2
<1> HIDE DEF a
<1>5. /\ d \in TimeSeries /\ d.list = a.list /\ d.done = a.done /\ d.raw = a.raw
      /\ ~d.copy /\ d.derived = a.derived /\ ~d.own /\ d.wrong = a.wrong
  BY <1>2 DEF Window, Good, Ready, TimeSeries, a
<1> HIDE DEF d
<1>6. Good(d)
  BY <1>2, <1>4, <1>5 DEF Good, Ready
<1> QED
  BY <1>2, <1>3, <1>5, <1>6 DEF d

\* A copy of the object.
LEMMA CopyGood ==
    ASSUME NEW v, Good(v)
    PROVE  /\ Good(CopyOf(v)) /\ CopyOf(v).derived = v.derived
           /\ CopyOf(v).list = v.list /\ CopyOf(v).done = v.done /\ CopyOf(v).wrong = v.wrong
<1> DEFINE d == CopyOf(v)
<1>1. /\ d \in TimeSeries /\ d.list = v.list /\ d.done = v.done /\ d.raw = v.raw
      /\ d.copy = v.copy /\ d.derived = v.derived /\ ~d.own /\ d.wrong = v.wrong
  BY DEF CopyOf, Good, Ready, TimeSeries
<1> HIDE DEF d
<1> QED
  BY <1>1 DEF Good, Ready, d

\* A RotateData in front, if there is none.
LEMMA WithRotateReady ==
    ASSUME NEW v, Ready(v)
    PROVE  /\ Ready(WithRotate(v)) /\ WithRotate(v).derived = v.derived
           /\ Fewer(WithRotate(v).list, v.list)
<1> DEFINE list == IF Rotated(v.list) THEN v.list ELSE <<Rotate>> \o v.list
<1>1. v.list \in Seq(Methods) /\ v.list \in Lists /\ v \in TimeSeries /\ Len(v.list) \in Nat
      /\ \A i \in 1..Len(v.list) : v.list[i] \in Methods
  BY DEF Ready, Lists
<1>2. ASSUME ~Rotated(v.list)
      PROVE  /\ <<Rotate>> \o v.list \in Lists /\ Rotated(<<Rotate>> \o v.list)
             /\ Fewer(<<Rotate>> \o v.list, v.list)
  <2>1. <<Rotate>> \in Seq(Methods) /\ Len(<<Rotate>>) = 1
    BY MethodTypes
  <2>2. /\ <<Rotate>> \o v.list \in Seq(Methods)
        /\ Len(<<Rotate>> \o v.list) = 1 + Len(v.list)
        /\ \A i \in 1..(1 + Len(v.list)) :
              (<<Rotate>> \o v.list)[i] = IF i <= 1 THEN <<Rotate>>[i] ELSE v.list[i - 1]
    BY <1>1, <2>1, ConcatProperties
  <2>3. \A i \in 1..Len(v.list) : v.list[i] \in Plain
    <3>1. \A i \in 2..Len(v.list) : v.list[i] \in Plain
      BY <1>1 DEF Lists
    <3>2. 1 \in 1..Len(v.list) => v.list[1] \in Plain
      BY <1>1, <1>2 DEF Rotated, Plain
    <3> QED
      BY <1>1, <3>1, <3>2
  <2>4. ASSUME NEW i \in 2..Len(<<Rotate>> \o v.list) PROVE (<<Rotate>> \o v.list)[i] \in Plain
    <3>1. (<<Rotate>> \o v.list)[i] = v.list[i - 1] /\ i - 1 \in 1..Len(v.list)
      BY <1>1, <2>2
    <3> QED
      BY <2>3, <3>1
  <2>5. (<<Rotate>> \o v.list)[1] = Rotate /\ <<Rotate>> \o v.list # <<>>
    BY <1>1, <2>2
  <2>6. PICK r, f : r = <<Rotate>> \o v.list /\ f = [i \in 1..Len(r) |-> i - 1]
    OBVIOUS
  <2>7. ASSUME NEW i \in 1..Len(r), r[i].type = "CutData"
        PROVE  f[i] \in 1..Len(v.list) /\ r[i] = v.list[f[i]]
    <3>1. i # 1
      BY <2>5, <2>6, <2>7, MethodTypes
    <3> QED
      BY <1>1, <2>2, <2>6, <3>1
  <2>8. From(r, v.list, f)
    <3>1. \A i, j \in 1..Len(r) : f[i] = f[j] => i = j
      BY <1>1, <2>2, <2>6
    <3> QED
      BY <2>7, <3>1 DEF From
  <2>9. Fewer(r, v.list)
    BY <2>8, FewerBy
  <2> QED
    BY <2>2, <2>4, <2>5, <2>6, <2>9, MethodTypes DEF Lists, Rotated
<1>3. list \in Lists /\ list \in Seq(Methods) /\ Rotated(list) /\ Fewer(list, v.list)
  BY <1>1, <1>2 DEF Lists, Fewer
<1>4. WithRotate(v) = [v EXCEPT !.list = list, !.own = TRUE]
  BY <1>1 DEF WithRotate, TimeSeries
<1> HIDE DEF list
<1> QED
  BY <1>1, <1>3, <1>4 DEF Ready, TimeSeries

-----------------------------------------------------------------------------
(* The steps *)

\* What the invariant says of a waveform that is displayed.
LEMMA OnGood ==
    ASSUME Inv, NEW w \in On
    PROVE  /\ w \in Waveforms /\ GoodAt(w, wave[w]) /\ Good(wave[w]) /\ Ready(wave[w])
           /\ wave[w] \in TimeSeries /\ wave[w].list \in Lists /\ wave[w].list \in Seq(Methods)
  BY DEF Inv, Shows, On, GoodAt, Good, Ready, Lists

\* At the start nothing is applied, and only beams have copies.
LEMMA InitInv == ASSUME Init PROVE Inv
<1>1. ASSUME NEW w \in Waveforms PROVE Fresh(w) \in TimeSeries /\ GoodAt(w, Fresh(w))
  <2>1. Fresh(w) \in TimeSeries
    BY DEF Fresh, TimeSeries
  <2>2. w \in {East, North} => ~Fresh(w).derived
    BY WaveformsAssumption DEF Fresh
  <2>3. Good(Fresh(w))
    BY <2>1, EmptyList DEF Good, Ready, Fresh
  <2> QED
    BY <2>1, <2>2, <2>3 DEF GoodAt
<1>2. Shows(wave)
  BY <1>1 DEF Init, Shows
<1> QED
  BY <1>2, MaxCutsAssumption DEF Init, Inv, On

\* One waveform is replaced by one that is Good and no beam if it was none.
LEMMA SetInv ==
    ASSUME Inv, NEW w \in On, NEW v, Good(v), v.derived = wave[w].derived, Set(w, v)
    PROVE  Inv' /\ Stays
<1>1. GoodAt(w, v) /\ v \in TimeSeries /\ v # Absent
  BY OnGood, AbsentAssumption DEF GoodAt, Good, Ready
<1>2. wave' = [wave EXCEPT ![w] = v]
  BY DEF Set
<1>3. Shows(wave')
  BY <1>1, <1>2 DEF Inv, Shows
<1>4. On' = On
  BY <1>1, <1>2 DEF Inv, Shows, On
<1> QED
  BY <1>3, <1>4 DEF Inv, Set, Stays

\* Methods are applied to one waveform.
LEMMA ApplyInv == ASSUME Inv, NEW w \in On, Apply(w) PROVE Inv' /\ Stays
<1>1. PICK m \in Plain : Set(w, Applied(wave[w], <<m>>))
  BY MethodTypes DEF Apply
<1>2. <<m>> \in Seq(Plain)
  OBVIOUS
<1> QED
  BY <1>1, <1>2, OnGood, AppliedGood, SetInv

\* The methods of a filter.
LEMMA FilterPlain ==
    ASSUME Inv, NEW b \in setup.bands
    PROVE  <<Demean, Taper, Filter(b)>> \in Seq(Plain) /\ <<Demean, Taper, Filter(b)>> # <<>>
<1>1. b \in Bands
  BY SetupsAssumption DEF Inv, Setup
<1>2. Demean \in Plain /\ Taper \in Plain /\ Filter(b) \in Plain
  BY <1>1, MethodTypes
<1> QED
  BY <1>2

\* A filter on one waveform.
LEMMA FilterInv ==
    ASSUME Inv, NEW w \in On, NEW b \in setup.bands, ChangeFilter(w, b) \/ AddFilter(w, b)
    PROVE  Inv' /\ Stays
<1> DEFINE dm == <<Demean, Taper, Filter(b)>>
<1>1. dm \in Seq(Plain) /\ dm # <<>>
  BY FilterPlain
<1> HIDE DEF dm
<1>2. CASE ChangeFilter(w, b)
  <2> DEFINE v == WithList(wave[w], Replace(wave[w].list, dm))
  <2>1. Set(w, Replay(v))
    BY <1>2 DEF ChangeFilter, dm
  <2>2. Ready(v) /\ v.derived = wave[w].derived
    BY <1>1, OnGood, ReplaceLists, WithListReady
  <2> HIDE DEF v
  <2> QED
    BY <2>1, <2>2, ReplayGood, SetInv
<1>3. CASE AddFilter(w, b)
  <2>1. Set(w, Applied(wave[w], dm))
    BY <1>3 DEF AddFilter, dm
  <2> QED
    BY <1>1, <2>1, OnGood, AppliedGood, SetInv
<1> QED
  BY <1>2, <1>3

\* Methods are removed from one waveform.
LEMMA RemoveInv ==
    ASSUME Inv, NEW w \in On,
           RemoveMethods(w) \/ Normal(w) \/ RemoveRow(w) \/ RemoveAllMethods(w)
    PROVE  Inv' /\ Stays
<1>1. ASSUME NEW list \in Lists, Set(w, Replay(WithList(wave[w], list))) PROVE Inv' /\ Stays
  <2> DEFINE v == WithList(wave[w], list)
  <2>1. Ready(v) /\ v.derived = wave[w].derived
    BY OnGood, WithListReady
  <2> HIDE DEF v
  <2> QED
    BY <1>1, <2>1, ReplayGood, SetInv DEF v
<1>2. CASE RemoveMethods(w)
  <2>1. PICK types \in {Triple, <<"Demean">>, <<"CalibData">>} :
            Set(w, Replay(WithList(wave[w], Removed(wave[w].list, types))))
    BY <1>2 DEF RemoveMethods
  <2> QED
    BY <1>1, <2>1, OnGood, RemovedLists
<1>3. CASE Normal(w)
  <2>1. PICK i \in DOMAIN wave[w].list :
            Set(w, ReplayMember(WithList(wave[w], RemoveAt(wave[w].list, i))))
    BY <1>3 DEF Normal
  <2> DEFINE v == WithList(wave[w], RemoveAt(wave[w].list, i))
  <2>2. i \in 1..Len(wave[w].list)
    BY <2>1, OnGood
  <2>3. Ready(v) /\ v.derived = wave[w].derived
    BY <2>2, OnGood, RemoveAtLists, WithListReady
  <2>4. Set(w, ReplayMember(v))
    BY <2>1
  <2> HIDE DEF v
  <2> QED
    BY <2>3, <2>4, ReplayMemberGood, SetInv
<1>4. CASE RemoveRow(w)
  <2>1. PICK i \in DOMAIN wave[w].list :
            Set(w, Replay(WithList(wave[w], RemoveAt(wave[w].list, i))))
    BY <1>4 DEF RemoveRow
  <2>2. i \in 1..Len(wave[w].list)
    BY <2>1, OnGood
  <2> QED
    BY <1>1, <2>1, <2>2, OnGood, RemoveAtLists
<1>5. CASE RemoveAllMethods(w)
  <2> DEFINE v == WithList(wave[w], <<>>)
  <2>1. Ready(v) /\ v.list = <<>> /\ v.derived = wave[w].derived
    BY OnGood, EmptyList, WithListReady
  <2>2. Set(w, Reread(v))
    BY <1>5 DEF RemoveAllMethods
  <2> HIDE DEF v
  <2> QED
    BY <2>1, <2>2, RereadGood, SetInv
<1> QED
  BY <1>2, <1>3, <1>4, <1>5

\* Two components are rotated.
LEMMA RotateInv == ASSUME Inv, RotateWaveforms PROVE Inv' /\ Stays
<1> DEFINE new(w) == IF w \in {East, North} THEN Replay(WithRotate(wave[w])) ELSE wave[w]
<1>1. wave' = [w \in Waveforms |-> new(w)] /\ East \in On /\ North \in On
      /\ UNCHANGED <<setup, disk, clipboard, undo, cuts, shown>>
  BY DEF RotateWaveforms
<1>2. ASSUME NEW w \in {East, North}
      PROVE  GoodAt(w, new(w)) /\ new(w) \in TimeSeries
  <2> DEFINE v == WithRotate(wave[w])
  <2>1. w \in On /\ ~wave[w].derived
    BY <1>1, OnGood DEF GoodAt
  <2>2. Ready(v) /\ v.derived = wave[w].derived
    BY <2>1, OnGood, WithRotateReady
  <2> HIDE DEF v
  <2>3. Good(Replay(v)) /\ Replay(v).derived = v.derived
    BY <2>2, ReplayGood
  <2> QED
    BY <2>1, <2>2, <2>3 DEF GoodAt, Good, Ready, v
<1>3. ASSUME NEW w \in Waveforms, w \notin {East, North}
      PROVE  new(w) \in TimeSeries \cup {Absent} /\ (new(w) # Absent => GoodAt(w, new(w)))
  BY <1>3 DEF Inv, Shows
<1> HIDE DEF new
<1>4. Shows(wave')
  BY <1>1, <1>2, <1>3 DEF Shows
<1>5. ASSUME NEW w \in Waveforms PROVE w \in On' <=> w \in On
  <2>1. CASE w \in {East, North}
    BY <1>1, <1>2, <2>1, AbsentAssumption DEF On
  <2>2. CASE w \notin {East, North}
    BY <1>1, <2>2 DEF On, new
  <2> QED
    BY <2>1, <2>2
<1>6. On' = On
  BY <1>5 DEF On
<1> QED
  BY <1>1, <1>4, <1>6 DEF Inv, Stays

\* Neither of the two components stays as a rotation made it.
LEMMA UnrotateInv == ASSUME Inv, Unrotate PROVE Inv' /\ Stays
<1> DEFINE rest(w) == WithList(wave[w], Removed(wave[w].list, <<"RotateData">>))
           list == rest(East).list
           done(w) == [DoMethods(Reread(rest(w)), list) EXCEPT
                           !.wrong = IF rest(w).list = list THEN "no" ELSE "mixed"]
           kept(w) == IF rest(w).list = wave[w].list THEN wave[w]
                      ELSE [rest(w) EXCEPT !.wrong = "left"]
           torn(w) == [Reread(rest(w)) EXCEPT !.done = BeforeCut(list),
                                              !.wrong = IF w = East THEN "torn" ELSE "mixed"]
           left(w) == IF w = East THEN Unread(rest(w)) ELSE kept(w)
<1>0. PICK cut \in BOOLEAN :
        /\ cut \/ (rest(North).list # list /\ Has(list, "CutData"))
        /\ wave' = [w \in Waveforms |->
                      IF w \in {East, North}
                      THEN IF disk # "all" THEN left(w) ELSE IF cut THEN done(w) ELSE torn(w)
                      ELSE wave[w]]
  BY DEF Unrotate
<1> DEFINE new(w) == IF disk # "all" THEN left(w) ELSE IF cut THEN done(w) ELSE torn(w)
           all(w) == IF w \in {East, North} THEN new(w) ELSE wave[w]
<1>1. wave' = [w \in Waveforms |-> all(w)] /\ East \in On /\ North \in On
      /\ UNCHANGED <<setup, disk, clipboard, undo, cuts, shown>>
  BY <1>0 DEF Unrotate
<1>2. ASSUME NEW w \in {East, North}
      PROVE  /\ Ready(rest(w)) /\ ~rest(w).derived /\ ~rest(w).copy /\ ~Rotated(rest(w).list)
             /\ rest(w).list \in Lists
  <2>1. w \in On /\ ~wave[w].derived
    BY <1>1, OnGood DEF GoodAt
  <2> DEFINE l == Removed(wave[w].list, <<"RotateData">>)
  <2>3. l \in Lists /\ ~Rotated(l)
    BY <2>1, OnGood, RemovedLists, Unrotated
  <2> HIDE DEF l
  <2>4. Ready(WithList(wave[w], l)) /\ WithList(wave[w], l).list = l
        /\ WithList(wave[w], l).derived = wave[w].derived
    BY <2>1, <2>3, OnGood, WithListReady
  <2> QED
    BY <2>1, <2>3, <2>4 DEF Ready, l
<1>3. ASSUME NEW w \in {East, North}, disk = "all"
      PROVE  /\ Good(done(w)) /\ ~done(w).derived
             /\ ~cut => Good(torn(w)) /\ ~torn(w).derived
  <2> DEFINE v == rest(w)
             r == Reread(v)
             b == BeforeCut(list)
             t == [r EXCEPT !.done = b, !.wrong = IF w = East THEN "torn" ELSE "mixed"]
  <2>1. Ready(v) /\ ~v.derived /\ ~v.copy
    BY <1>2
  <2>2. list \in Lists /\ ~Rotated(list) /\ list \in Seq(Methods)
    BY <1>2 DEF Lists
  <2>20. /\ b \in Lists /\ Within(b, list)
         /\ (w = East => v.list = list) /\ (~cut => Has(list, "CutData"))
    BY <1>0, <2>2, BeforeCutLists
  <2>21. t = torn(w)
    OBVIOUS
  <2> HIDE DEF t, b, torn
  <2> HIDE DEF v, list
  <2> HIDE DEF r
  <2>3. /\ r \in TimeSeries /\ r.list = v.list /\ ~r.copy /\ ~r.derived /\ r.own = v.own
        /\ r.raw = "own"
    <3>1. /\ r \in TimeSeries /\ r.list = v.list /\ r.copy = v.copy
          /\ r.derived = v.derived /\ r.own = v.own
          /\ r.raw \in {"none", "part"} => disk # "all"
          /\ r.raw = "element" => v.derived
      BY <2>1, RereadFacts DEF r
    <3>2. r.raw \in {"own", "element", "part", "none"}
      BY <3>1 DEF TimeSeries
    <3> QED
      BY <1>3, <2>1, <3>1, <3>2
  <2>4. ~Stuck(r, list)
    BY <2>2 DEF Stuck
  <2> DEFINE d == [DoMethods(r, list) EXCEPT !.wrong = IF v.list = list THEN "no" ELSE "mixed"]
  <2>5. /\ d \in TimeSeries /\ d.list = v.list /\ d.raw = "own" /\ ~d.copy /\ ~d.derived
        /\ d.done = list /\ d.wrong = IF v.list = list THEN "no" ELSE "mixed"
        /\ d.own => v.own
    <3> DEFINE e == CanDo(r, list) /\ Has(list, "CutData")
    <3>1. d = [r EXCEPT !.done = list, !.own = r.own /\ ~e, !.copy = r.copy /\ ~e,
                        !.wrong = IF v.list = list THEN "no" ELSE "mixed"]
      BY <2>3, <2>4 DEF DoMethods, TimeSeries
    <3>2. r.own \in BOOLEAN /\ r.copy \in BOOLEAN
      BY <2>3 DEF TimeSeries
    <3> HIDE DEF e, d
    <3> QED
      BY <2>2, <2>3, <3>1, <3>2 DEF TimeSeries
  <2>6. d = done(w)
    BY DEF r, v
  <2> HIDE DEF d, done
  <2>7. Good(d)
    BY <2>1, <2>2, <2>5, EmptyList DEF Good, Ready
  <2>8. /\ t \in TimeSeries /\ t.list = v.list /\ t.raw = "own" /\ ~t.copy /\ ~t.derived
        /\ t.done = b /\ t.wrong = IF w = East THEN "torn" ELSE "mixed"
        /\ t.own => v.own
    <3>1. PICK c \in {"torn", "mixed"} : c = IF w = East THEN "torn" ELSE "mixed"
      OBVIOUS
    <3>2. t = [r EXCEPT !.done = b, !.wrong = c]
      BY <3>1 DEF t
    <3>3. b \in Seq(Methods)
      BY <2>20 DEF Lists
    <3> QED
      BY <2>3, <3>1, <3>2, <3>3 DEF TimeSeries
  <2>9. ~cut => Good(t)
    <3>1. t.wrong \in {"torn", "mixed"} /\ (t.wrong = "torn" => v.list = list)
      BY <2>8, <2>20
    <3> QED
      BY <2>1, <2>8, <2>20, <3>1 DEF Good, Ready
  <2> QED
    BY <2>5, <2>6, <2>7, <2>8, <2>9, <2>21
<1>4. ASSUME NEW w \in {East, North}, disk # "all"
      PROVE  Good(Unread(rest(w))) /\ ~Unread(rest(w)).derived
  <2> DEFINE v == rest(w)
  <2>1. Ready(v) /\ ~v.derived /\ ~v.copy
    BY <1>2
  <2> HIDE DEF v
  <2>2. Good(Unread(v)) /\ Unread(v).derived = v.derived
    BY <1>4, <2>1, UnreadGood DEF CanReread
  <2> QED
    BY <2>1, <2>2 DEF v
<1>5. ASSUME NEW w \in {East, North} PROVE Good(kept(w)) /\ ~kept(w).derived
  <2>1. Good(wave[w]) /\ ~wave[w].derived
    BY <1>1, OnGood DEF GoodAt
  <2> DEFINE v == rest(w)
             d == [v EXCEPT !.wrong = "left"]
  <2>2. Ready(v) /\ ~v.derived /\ ~v.copy /\ v.list \in Lists
    BY <1>2
  <2>3. v.raw = wave[w].raw /\ v.done = wave[w].done
    BY <2>1 DEF WithList, Good, Ready, TimeSeries
  <2> HIDE DEF v
  <2>4. /\ d \in TimeSeries /\ d.list = v.list /\ d.done = v.done /\ d.raw = v.raw
        /\ ~d.copy /\ ~d.derived /\ d.wrong = "left" /\ d.own = v.own
    BY <2>2 DEF Ready, TimeSeries
  <2>5. kept(w) = wave[w] \/ kept(w) = d
    BY DEF v
  <2> HIDE DEF d
  <2>6. Good(d)
    BY <2>1, <2>2, <2>3, <2>4 DEF Good, Ready
  <2> HIDE DEF kept
  <2> QED
    BY <2>1, <2>4, <2>5, <2>6
<1>6. ASSUME NEW w \in {East, North} PROVE GoodAt(w, new(w)) /\ new(w) \in TimeSeries
  <2> HIDE DEF done, torn, kept, rest
  <2>1. Good(new(w)) /\ ~new(w).derived
    BY <1>3, <1>4, <1>5
  <2> QED
    BY <2>1 DEF GoodAt, Good, Ready
<1> HIDE DEF new
<1>7. ASSUME NEW w \in Waveforms
      PROVE  all(w) \in TimeSeries \cup {Absent} /\ (all(w) # Absent => GoodAt(w, all(w)))
  BY <1>6 DEF Inv, Shows
<1> HIDE DEF all
<1>8. Shows(wave')
  BY <1>1, <1>7 DEF Shows
<1>9. ASSUME NEW w \in Waveforms PROVE w \in On' <=> w \in On
  <2>1. CASE w \in {East, North}
    BY <1>1, <1>6, <2>1, AbsentAssumption DEF On, all
  <2>2. CASE w \notin {East, North}
    BY <1>1, <2>2 DEF On, all
  <2> QED
    BY <2>1, <2>2
<1>10. On' = On
  BY <1>9 DEF On
<1> QED
  BY <1>1, <1>8, <1>10 DEF Inv, Stays

\* A cut, a copy or the waveform itself goes to the clipboard; the waveforms
\* taken away are kept to be undone.
LEMMA CutInv ==
    ASSUME Inv, NEW P \in SUBSET On, NEW D \in SUBSET On, CutWaveforms(P, D) PROVE Inv'
<1> DEFINE n == cuts + 1
           new(w) == IF w \in D THEN Absent
                     ELSE IF w \in P THEN Window(wave[w], Cut(n)) ELSE wave[w]
<1>1. n \in 1..MaxCuts
  BY SetupsAssumption, MaxCutsAssumption DEF Inv, Setup, CutWaveforms
<1> HIDE DEF n
<1>2. Cut(n) \in Plain /\ Cut(n).type = "CutData" /\ Copied \in Plain /\ Copied.type = "CopyData"
  BY <1>1, MethodTypes
<1>3. ASSUME NEW w \in On, NEW m \in Plain, m.type \in {"CutData", "CopyData"}
      PROVE  /\ GoodAt(w, Window(wave[w], m)) /\ Good(Window(wave[w], m))
             /\ Window(wave[w], m) \in TimeSeries
  <2> DEFINE v == Window(wave[w], m)
  <2>1. Good(v) /\ v.derived = wave[w].derived
    BY <1>3, OnGood, WindowGood
  <2> HIDE DEF v
  <2> QED
    BY <2>1, OnGood DEF GoodAt, Good, Ready, v
<1>4. ASSUME NEW w \in Waveforms
      PROVE  new(w) \in TimeSeries \cup {Absent} /\ (new(w) # Absent => GoodAt(w, new(w)))
  <2>1. CASE w \in D
    BY <2>1
  <2>2. CASE w \in P /\ w \notin D
    BY <1>2, <1>3, <2>2
  <2>3. CASE w \notin P /\ w \notin D
    BY <2>3 DEF Inv, Shows
  <2> QED
    BY <2>1, <2>2, <2>3
<1>5. wave' = [w \in Waveforms |-> new(w)]
  BY DEF CutWaveforms, n
<1> HIDE DEF new
<1>6. Shows(wave')
  BY <1>4, <1>5 DEF Shows
<1>7. clipboard' = Absent \/ Good(clipboard')
  <2>1. CASE Cardinality(P \cup D) # 1 \/ ~setup.pastes
    BY <2>1 DEF CutWaveforms
  <2>2. CASE ~(Cardinality(P \cup D) # 1 \/ ~setup.pastes)
    <3> DEFINE w == CHOOSE x \in P \cup D : TRUE
    <3>1. w \in P \cup D /\ w \in On
      BY DEF CutWaveforms
    <3>2. clipboard' = IF w \in D THEN CopyOf(wave[w]) ELSE Window(wave[w], Copied)
      BY <2>2 DEF CutWaveforms
    <3> HIDE DEF w
    <3>3. Good(CopyOf(wave[w])) /\ Good(Window(wave[w], Copied))
      BY <1>2, <1>3, <3>1, OnGood, CopyGood
    <3> QED
      BY <3>2, <3>3
  <2> QED
    BY <2>1, <2>2
<1>8. undo' \in Seq(UndoCut) /\ \A i \in 1..Len(undo') : Shows(undo'[i].cut_ts)
  <2> DEFINE u == NewUndo(D)
  <2>1. undo' = Append(undo, u)
    BY DEF CutWaveforms
  <2>2. u.cut = n /\ u.cut_ts = Taken(D) /\ u = [cut |-> n, cut_ts |-> Taken(D)]
    BY DEF NewUndo, n
  <2>3. Shows(Taken(D))
    BY DEF Taken, Shows, Inv
  <2>4. u \in UndoCut
    BY <1>1, <2>2, <2>3 DEF UndoCut, Shows
  <2> HIDE DEF u
  <2>5. undo \in Seq(UndoCut) /\ \A i \in 1..Len(undo) : Shows(undo[i].cut_ts)
    BY DEF Inv
  <2> QED
    BY <2>1, <2>2, <2>3, <2>4, <2>5
<1>9. cuts' \in 0..MaxCuts
  BY <1>1, MaxCutsAssumption DEF CutWaveforms, n
<1> QED
  BY <1>6, <1>7, <1>8, <1>9 DEF Inv, CutWaveforms

\* What is copied is Good, and so is what is pasted.
LEMMA CopyPasteInv ==
    ASSUME Inv, (\E w \in On : CopyWaveform(w)) \/ PasteData PROVE Inv'
<1>1. ASSUME NEW w \in On, CopyWaveform(w) PROVE Inv'
  <2>1. Good(CopyOf(wave[w])) /\ Good(Window(wave[w], Copied))
    BY MethodTypes, OnGood, CopyGood, WindowGood
  <2>2. Good(clipboard')
    BY <1>1, <2>1 DEF CopyWaveform
  <2> QED
    BY <1>1, <2>2 DEF Inv, CopyWaveform
<1>2. CASE PasteData
  <2>1. Good(CopyOf(clipboard))
    BY <1>2, CopyGood DEF Inv, PasteData
  <2>2. wave' = [wave EXCEPT ![Spare] = CopyOf(clipboard)]
    BY <1>2 DEF PasteData
  <2>3. GoodAt(Spare, CopyOf(clipboard)) /\ CopyOf(clipboard) \in TimeSeries
    BY <2>1, WaveformsAssumption DEF GoodAt, Good, Ready
  <2>4. Shows(wave')
    BY <2>2, <2>3 DEF Inv, Shows
  <2> QED
    BY <1>2, <2>4, WaveformsAssumption DEF Inv, PasteData
<1> QED
  BY <1>1, <1>2

\* A list without its last element.
LEMMA FrontOf ==
    ASSUME NEW S, NEW s \in Seq(S), s # <<>>
    PROVE  LET f == SubSeq(s, 1, Len(s) - 1)
           IN  f \in Seq(S) /\ Len(f) \in Nat /\ Len(f) <= Len(s) /\ \A i \in 1..Len(f) : f[i] = s[i]
<1> DEFINE n == Len(s) - 1
<1>1. n \in Nat /\ (\A i \in 1..n : s[i] \in S) /\ n <= Len(s)
  OBVIOUS
<1> HIDE DEF n
<1>2. SubSeq(s, 1, n) \in Seq(S)
  BY <1>1, SubSeqProperties
<1>3. Len(SubSeq(s, 1, n)) = n
  BY <1>1, SubSeqProperties
<1>4. \A i \in 1..n : SubSeq(s, 1, n)[i] = s[i]
  BY <1>1, SubSeqProperties
<1> QED
  BY <1>1, <1>2, <1>3, <1>4 DEF n

\* A waveform without a cut.
LEMMA UncutGood ==
    ASSUME Inv, NEW w \in On, NEW n
    PROVE  GoodAt(w, Uncut(wave[w], n)) /\ Good(Uncut(wave[w], n))
<1>1. CASE \A j \in DOMAIN wave[w].list : wave[w].list[j] # Cut(n)
  BY <1>1, OnGood DEF Uncut
<1>2. CASE \E j \in DOMAIN wave[w].list : wave[w].list[j] = Cut(n)
  <2> DEFINE i == CHOOSE j \in DOMAIN wave[w].list : wave[w].list[j] = Cut(n)
             v == WithList(wave[w], RemoveAt(wave[w].list, i))
  <2>1. i \in 1..Len(wave[w].list)
    BY <1>2, OnGood
  <2>2. Uncut(wave[w], n) = ReplayMember(v)
    BY <1>2 DEF Uncut
  <2> HIDE DEF i
  <2>3. Ready(v) /\ v.derived = wave[w].derived
    BY <2>1, OnGood, RemoveAtLists, WithListReady
  <2> HIDE DEF v
  <2>4. Good(ReplayMember(v)) /\ ReplayMember(v).derived = wave[w].derived
    BY <2>3, ReplayMemberGood
  <2> QED
    BY <2>2, <2>4, OnGood DEF GoodAt, Good, Ready
<1> QED
  BY <1>1, <1>2

\* What was taken away comes back; a cut is removed from the other lists.
LEMMA UndoInv == ASSUME Inv, UndoLast PROVE Inv'
<1> DEFINE top == Last(undo)
           new(w) == IF top.cut_ts[w] # Absent THEN CopyOf(top.cut_ts[w])
                     ELSE IF w \in On THEN Uncut(wave[w], top.cut) ELSE Absent
<1>1. undo \in Seq(UndoCut) /\ Len(undo) \in Nat /\ undo # <<>>
      /\ \A i \in 1..Len(undo) : Shows(undo[i].cut_ts)
  BY DEF Inv, UndoLast
<1>2. Shows(top.cut_ts)
  <2>1. Len(undo) \in 1..Len(undo)
    BY <1>1
  <2> QED
    BY <1>1, <2>1 DEF Last
<1>3. wave' = [w \in Waveforms |-> new(w)]
      /\ undo' = Front(undo) /\ UNCHANGED <<setup, disk, clipboard, cuts, shown>>
  BY DEF UndoLast
<1> HIDE DEF top
<1>4. ASSUME NEW w \in On, NEW n
      PROVE  GoodAt(w, Uncut(wave[w], n)) /\ Uncut(wave[w], n) \in TimeSeries
  BY UncutGood DEF Good, Ready
<1>5. ASSUME NEW w \in Waveforms
      PROVE  new(w) \in TimeSeries \cup {Absent} /\ (new(w) # Absent => GoodAt(w, new(w)))
  <2>1. CASE top.cut_ts[w] # Absent
    <3> DEFINE v == top.cut_ts[w]
    <3>1. GoodAt(w, v) /\ new(w) = CopyOf(v)
      BY <1>2, <2>1 DEF Shows
    <3> HIDE DEF v, new
    <3>2. Good(CopyOf(v)) /\ CopyOf(v).derived = v.derived
      BY <3>1, CopyGood DEF GoodAt
    <3> QED
      BY <3>1, <3>2 DEF GoodAt, Good, Ready
  <2>2. CASE top.cut_ts[w] = Absent
    BY <1>4, <2>2
  <2> QED
    BY <2>1, <2>2
<1> HIDE DEF new
<1>6. Shows(wave')
  BY <1>3, <1>5 DEF Shows
<1>7. undo' \in Seq(UndoCut) /\ \A i \in 1..Len(undo') : Shows(undo'[i].cut_ts)
  <2>1. undo' \in Seq(UndoCut) /\ Len(undo') <= Len(undo) /\ Len(undo') \in Nat
        /\ \A i \in 1..Len(undo') : undo'[i] = undo[i]
    BY <1>1, <1>3, FrontOf DEF Front
  <2> QED
    BY <1>1, <2>1
<1> QED
  BY <1>3, <1>6, <1>7 DEF Inv

\* Nothing is displayed, or the files come and go.
LEMMA OtherInv == ASSUME Inv, Clear \/ Mount PROVE Inv'
<1>1. CASE Clear
  <2>1. wave' = Nobody /\ undo' = <<>> /\ shown' = {}
        /\ UNCHANGED <<setup, disk, clipboard, cuts>>
    BY <1>1 DEF Clear
  <2>2. Shows(wave')
    BY <2>1 DEF Nobody, Shows
  <2>3. undo' \in Seq(UndoCut) /\ Len(undo') = 0
    BY <2>1
  <2> QED
    BY <2>1, <2>2, <2>3 DEF Inv
<1>2. CASE Mount
  <2>1. setup.disks \subseteq {"all", "part", "none"}
    BY SetupsAssumption DEF Inv, Setup
  <2> QED
    BY <1>2, <2>1 DEF Mount, Inv
<1> QED
  BY <1>1, <1>2

-----------------------------------------------------------------------------
(* The theorems *)

\* Every GTimeSeries is Good, on the screen, on the clipboard and in the actions
\* to undo.
THEOREM Invariant == Spec => []Inv
<1>1. Init => Inv
  BY InitInv
<1>2. Inv /\ [Next]_vars => Inv'
  <2> SUFFICES ASSUME Inv, [Next]_vars PROVE Inv'
    OBVIOUS
  <2>1. CASE UNCHANGED vars
    BY <2>1 DEF vars, Inv
  <2>2. ASSUME NEW w \in On, Apply(w) PROVE Inv'
    BY <2>2, ApplyInv
  <2>3. ASSUME NEW w \in On, RemoveMethods(w) \/ Normal(w) \/ RemoveRow(w) \/ RemoveAllMethods(w)
        PROVE  Inv'
    BY <2>3, RemoveInv
  <2>4. ASSUME NEW w \in On, CopyWaveform(w) PROVE Inv'
    BY <2>4, CopyPasteInv
  <2>5. ASSUME NEW w \in On, NEW b \in setup.bands, ChangeFilter(w, b) \/ AddFilter(w, b) PROVE Inv'
    BY <2>5, FilterInv
  <2>6. CASE RotateWaveforms
    BY <2>6, RotateInv
  <2>7. CASE Unrotate
    BY <2>7, UnrotateInv
  <2>8. ASSUME NEW P \in SUBSET On, NEW D \in SUBSET On, CutWaveforms(P, D) PROVE Inv'
    BY <2>8, CutInv
  <2>9. CASE PasteData
    BY <2>9, CopyPasteInv
  <2>10. CASE UndoLast
    BY <2>10, UndoInv
  <2>11. CASE Clear \/ Mount
    BY <2>11, OtherInv
  <2> QED
    BY <2>1, <2>2, <2>3, <2>4, <2>5, <2>6, <2>7, <2>8, <2>9, <2>10, <2>11 DEF Next
<1> QED
  BY <1>1, <1>2, PTL DEF Spec

\* The display, the clipboard and the actions to undo have their types.
THEOREM TypeCorrect == Spec => []TypeOK
<1>1. Inv => TypeOK
  BY DEF Inv, TypeOK, Shows, Good, Ready
<1> QED
  BY <1>1, Invariant, PTL

\* The data displayed are the raw data with the methods of the list, in their
\* order, whatever was applied, removed, cut, pasted and undone, but for the
\* four cases that HistoryTellsData names.
THEOREM DataIsHistory == Spec => []HistoryTellsData
<1>1. Inv => HistoryTellsData
  <2> SUFFICES ASSUME Inv PROVE HistoryTellsData
    OBVIOUS
  <2>1. \A w \in On : Good(wave[w])
    BY OnGood
  <2> QED
    BY <2>1 DEF HistoryTellsData, Good
<1> QED
  BY <1>1, Invariant, PTL

\* A beam turns into its first element only behind a cut or a copied part.
THEOREM BeamStays == Spec => []OwnData
<1>1. Inv => OwnData
  <2> SUFFICES ASSUME Inv PROVE OwnData
    OBVIOUS
  <2>1. \A w \in On : Good(wave[w])
    BY OnGood
  <2> QED
    BY <2>1 DEF OwnData, Good
<1> QED
  BY <1>1, Invariant, PTL

\* The rotation is the first operation, in the list as in the data.
THEOREM RotationIsFirst == Spec => []RotateFirst
<1>1. Inv => RotateFirst
  <2> SUFFICES ASSUME Inv, NEW w \in On, NEW list \in {wave[w].list, wave[w].done},
                      NEW i \in 2..Len(list)
               PROVE  list[i].type # "RotateData"
    BY DEF RotateFirst
  <2>1. list \in Lists
    BY OnGood DEF Good
  <2> QED
    BY <2>1 DEF Lists, Plain
<1> QED
  BY <1>1, Invariant, PTL

-----------------------------------------------------------------------------
(* What is taken away *)

\* Where a waveform is: in actions to undo, or on the screen (0).
Held(w) == {i \in DOMAIN undo : undo[i].cut_ts[w] # Absent} \cup IF w \in On THEN {0} ELSE {}

\* A waveform that was displayed is in one place; Recoverable counts the places.
OnePlace == \A w \in Waveforms : IF w \in shown THEN \E x : Held(w) = {x} ELSE Held(w) = {}

\* Nothing moves if the same places display a waveform.
LEMMA StaysOnePlace == ASSUME OnePlace, Stays PROVE OnePlace'
<1>1. ASSUME NEW w \in Waveforms PROVE Held(w)' = Held(w)
  BY DEF Stays, Held
<1> QED
  BY <1>1 DEF OnePlace, Stays

\* A cut moves waveforms from the screen to the actions to undo.
LEMMA CutOnePlace ==
    ASSUME Inv, OnePlace, NEW P \in SUBSET On, NEW D \in SUBSET On, CutWaveforms(P, D)
    PROVE  OnePlace'
<1> DEFINE n == Len(undo)
<1>1. n \in Nat /\ DOMAIN undo = 1..n /\ undo \in Seq(UndoCut)
  BY DEF Inv
<1>2. shown' = shown /\ undo' = Append(undo, NewUndo(D))
  BY DEF CutWaveforms
<1>3. /\ DOMAIN undo' = 1..(n + 1) /\ undo'[n + 1].cut_ts = Taken(D)
      /\ \A i \in 1..n : undo'[i] = undo[i]
  BY <1>1, <1>2 DEF NewUndo
<1>4. ASSUME NEW w \in Waveforms, w \in D PROVE Held(w) = {0} /\ Held(w)' = {n + 1} /\ w \in shown
  <2>1. w \in On /\ wave[w] # Absent
    BY <1>4 DEF On
  <2>2. 0 \in Held(w)
    BY <2>1 DEF Held
  <2>3. Held(w) = {0} /\ w \in shown
    BY <2>2 DEF OnePlace
  <2>4. \A i \in 1..n : undo[i].cut_ts[w] = Absent
    BY <1>1, <2>3 DEF Held
  <2>5. wave'[w] = Absent /\ w \notin On'
    BY <1>4 DEF CutWaveforms, On
  <2>6. Taken(D)[w] # Absent
    BY <1>4, <2>1 DEF Taken
  <2>7. {i \in 1..(n + 1) : undo'[i].cut_ts[w] # Absent} = {n + 1}
    BY <1>1, <1>3, <2>4, <2>6
  <2> QED
    BY <1>3, <2>3, <2>5, <2>7 DEF Held
<1>5. ASSUME NEW w \in Waveforms, w \notin D PROVE Held(w)' = Held(w)
  <2>1. w \in On' <=> w \in On
    <3>1. CASE w \in P
      <4>1. wave'[w] = Window(wave[w], Cut(cuts + 1)) /\ w \in On
        BY <1>5, <3>1 DEF CutWaveforms
      <4>2. cuts + 1 \in 1..MaxCuts
        BY SetupsAssumption, MaxCutsAssumption DEF Inv, Setup, CutWaveforms
      <4>3. Good(Window(wave[w], Cut(cuts + 1)))
        BY <4>1, <4>2, MethodTypes, OnGood, WindowGood
      <4> QED
        BY <4>1, <4>3, AbsentAssumption DEF On, Good, Ready
    <3>2. CASE w \notin P
      BY <1>5, <3>2 DEF CutWaveforms, On
    <3> QED
      BY <3>1, <3>2
  <2>2. Taken(D)[w] = Absent
    BY <1>5 DEF Taken
  <2>3. {i \in 1..(n + 1) : undo'[i].cut_ts[w] # Absent} = {i \in 1..n : undo[i].cut_ts[w] # Absent}
    BY <1>1, <1>3, <2>2
  <2> QED
    BY <1>1, <1>3, <2>1, <2>3 DEF Held
<1> QED
  BY <1>2, <1>4, <1>5 DEF OnePlace

\* An undo moves them back.
LEMMA UndoOnePlace == ASSUME Inv, OnePlace, UndoLast PROVE OnePlace'
<1> DEFINE n == Len(undo)
           top == Last(undo)
<1>1. n \in Nat /\ n >= 1 /\ DOMAIN undo = 1..n /\ undo \in Seq(UndoCut) /\ top = undo[n]
      /\ Shows(top.cut_ts)
  BY DEF Inv, UndoLast, Last
<1>2. shown' = shown /\ undo' = Front(undo)
      /\ \A w \in Waveforms : wave'[w] = IF top.cut_ts[w] # Absent THEN CopyOf(top.cut_ts[w])
                                         ELSE IF w \in On THEN Uncut(wave[w], top.cut) ELSE Absent
  BY DEF UndoLast
<1>3. DOMAIN undo' = 1..(n - 1) /\ \A i \in 1..(n - 1) : undo'[i] = undo[i]
  <2>1. undo' \in Seq(UndoCut) /\ Len(undo') = n - 1 /\ \A i \in 1..Len(undo') : undo'[i] = undo[i]
    BY <1>1, <1>2, FrontOf DEF Front
  <2> QED
    BY <2>1
<1>4. ASSUME NEW w \in On, NEW m PROVE Uncut(wave[w], m) # Absent
  BY UncutGood, AbsentAssumption DEF Good, Ready
<1> HIDE DEF top
<1>5. ASSUME NEW w \in Waveforms, top.cut_ts[w] # Absent
      PROVE  Held(w) = {n} /\ Held(w)' = {0} /\ w \in shown
  <2>1. n \in Held(w)
    BY <1>1, <1>5 DEF Held
  <2>2. Held(w) = {n} /\ w \in shown
    BY <2>1 DEF OnePlace
  <2>3. \A i \in 1..(n - 1) : undo[i].cut_ts[w] = Absent
    BY <1>1, <2>2 DEF Held
  <2>4. CopyOf(top.cut_ts[w]) # Absent
    BY <1>1, <1>5, CopyGood, AbsentAssumption DEF Shows, GoodAt, Good, Ready
  <2>5. w \in On'
    BY <1>2, <1>5, <2>4 DEF On
  <2>6. {i \in 1..(n - 1) : undo'[i].cut_ts[w] # Absent} = {}
    BY <1>3, <2>3
  <2> QED
    BY <1>3, <2>2, <2>5, <2>6 DEF Held
<1>6. ASSUME NEW w \in Waveforms, top.cut_ts[w] = Absent PROVE Held(w)' = Held(w)
  <2>1. w \in On' <=> w \in On
    BY <1>2, <1>4, <1>6 DEF On
  <2>2. {i \in 1..(n - 1) : undo'[i].cut_ts[w] # Absent} = {i \in 1..n : undo[i].cut_ts[w] # Absent}
    BY <1>1, <1>3, <1>6
  <2> QED
    BY <1>1, <1>3, <2>1, <2>2 DEF Held
<1> QED
  BY <1>2, <1>5, <1>6 DEF OnePlace

\* Something is pasted at a free place, all is cleared, or nothing is displayed
\* that was not.
LEMMA OtherOnePlace ==
    ASSUME Inv, OnePlace, PasteData \/ Clear \/ Mount \/ \E w \in On : CopyWaveform(w)
    PROVE  OnePlace'
<1>1. CASE PasteData
  <2>1. wave' = [wave EXCEPT ![Spare] = CopyOf(clipboard)] /\ undo' = undo
        /\ shown' = shown \cup {Spare} /\ Spare \notin On
        /\ \A i \in DOMAIN undo : undo[i].cut_ts[Spare] = Absent
    BY <1>1 DEF PasteData
  <2>2. CopyOf(clipboard) # Absent
    BY <1>1, CopyGood, AbsentAssumption DEF PasteData, Inv, Good, Ready
  <2>3. Held(Spare)' = {0}
    <3>1. Spare \in On'
      BY <2>1, <2>2, WaveformsAssumption DEF On, Inv, Shows
    <3> QED
      BY <2>1, <3>1 DEF Held
  <2>4. ASSUME NEW w \in Waveforms, w # Spare PROVE Held(w)' = Held(w)
    <3>1. wave'[w] = wave[w]
      BY <2>1, <2>4 DEF Inv, Shows
    <3>2. w \in On' <=> w \in On
      BY <3>1, <2>4 DEF On
    <3> QED
      BY <2>1, <3>2 DEF Held
  <2> QED
    BY <2>1, <2>3, <2>4 DEF OnePlace
<1>2. CASE Clear
  <2>1. wave' = Nobody /\ undo' = <<>> /\ shown' = {}
    BY <1>2 DEF Clear
  <2>2. On' = {} /\ DOMAIN undo' = {}
    BY <2>1 DEF On, Nobody
  <2> QED
    BY <2>1, <2>2 DEF OnePlace, Held
<1>3. CASE Mount \/ \E w \in On : CopyWaveform(w)
  <2>1. Stays
    BY <1>3 DEF Mount, CopyWaveform, Stays, On
  <2> QED
    BY <2>1, StaysOnePlace
<1> QED
  BY <1>1, <1>2, <1>3

\* A waveform that was displayed since the last clear is on the screen or in one
\* action to undo: no cut, paste and undo in any order loses or doubles it.
THEOREM NothingIsLost == Spec => []Recoverable
<1>1. Init => OnePlace
  <2> SUFFICES ASSUME Init, NEW w \in Waveforms
               PROVE  IF w \in shown THEN \E x : Held(w) = {x} ELSE Held(w) = {}
    BY DEF OnePlace
  <2>1. DOMAIN undo = {} /\ shown = On
    BY DEF Init
  <2> QED
    BY <2>1 DEF Held
<1>2. Inv /\ OnePlace /\ [Next]_vars => OnePlace'
  <2> SUFFICES ASSUME Inv, OnePlace, [Next]_vars PROVE OnePlace'
    OBVIOUS
  <2>1. CASE UNCHANGED vars
    <3>1. Stays
      BY <2>1 DEF vars, Stays, On
    <3> QED
      BY <3>1, StaysOnePlace
  <2>2. ASSUME NEW w \in On, \/ Apply(w) \/ RemoveMethods(w) \/ Normal(w)
                             \/ RemoveRow(w) \/ RemoveAllMethods(w)
        PROVE  OnePlace'
    BY <2>2, ApplyInv, RemoveInv, StaysOnePlace
  <2>3. ASSUME NEW w \in On, NEW b \in setup.bands, ChangeFilter(w, b) \/ AddFilter(w, b)
        PROVE  OnePlace'
    BY <2>3, FilterInv, StaysOnePlace
  <2>4. CASE RotateWaveforms \/ Unrotate
    BY <2>4, RotateInv, UnrotateInv, StaysOnePlace
  <2>5. ASSUME NEW P \in SUBSET On, NEW D \in SUBSET On, CutWaveforms(P, D) PROVE OnePlace'
    BY <2>5, CutOnePlace
  <2>6. CASE UndoLast
    BY <2>6, UndoOnePlace
  <2>7. CASE PasteData \/ Clear \/ Mount \/ \E w \in On : CopyWaveform(w)
    BY <2>7, OtherOnePlace
  <2> QED
    BY <2>1, <2>2, <2>3, <2>4, <2>5, <2>6, <2>7 DEF Next
<1>3. OnePlace => Recoverable
  <2> SUFFICES ASSUME OnePlace, NEW w \in Waveforms
               PROVE  Cardinality(Held(w)) = IF w \in shown THEN 1 ELSE 0
    BY DEF Recoverable, Held
  <2>1. CASE w \in shown
    <3>1. PICK x : Held(w) = {x}
      BY <2>1 DEF OnePlace
    <3> QED
      BY <2>1, <3>1, FS_Singleton
  <2>2. CASE w \notin shown
    BY <2>2, FS_EmptySet DEF OnePlace
  <2> QED
    BY <2>1, <2>2
<1> QED
  BY <1>1, <1>2, <1>3, Invariant, PTL DEF Spec
-----------------------------------------------------------------------------
(* Cuts and their undoing *)

\* Every list has each cut once, from those made so far; the waveforms that a
\* cut took away have older ones only.
CutsInv ==
    /\ \A w \in On : CutsTo(wave[w].list, cuts)
    /\ clipboard # Absent => CutsTo(clipboard.list, cuts)
    /\ \A i \in 1..Len(undo), w \in Waveforms : undo[i].cut_ts[w] # Absent =>
           CutsTo(undo[i].cut_ts[w].list, undo[i].cut - 1)
    /\ \A i \in 1..Len(undo) : undo[i].cut <= cuts

\* The lists of what is displayed have no new cut.
Edits == \A w \in On : Fewer(wave'[w].list, wave[w].list)

\* A cut is added with a number of its own.
LEMMA CutAdded ==
    ASSUME NEW list \in Lists, NEW n \in Nat, CutsTo(list, n), n + 1 \in 1..MaxCuts
    PROVE  CutsTo(list \o <<Cut(n + 1)>>, n + 1)
<1>1. PICK k \in Nat, c \in Plain : k = Len(list) /\ c = Cut(n + 1)
  BY MethodTypes DEF Lists
<1>2. c.id = n + 1 /\ c.type = "CutData"
  BY <1>1 DEF Cut, Method
<1>3. PICK r : r = list \o <<c>>
  OBVIOUS
<1>4. Len(r) = k + 1 /\ r[k + 1] = c /\ \A i \in 1..k : r[i] = list[i]
  <2>1. list \in Seq(Methods) /\ <<c>> \in Seq(Methods) /\ Len(<<c>>) = 1
    BY DEF Lists, Plain
  <2>2. Len(r) = Len(list) + 1
        /\ \A i \in 1..(Len(list) + 1) : r[i] = IF i <= Len(list) THEN list[i] ELSE <<c>>[i - Len(list)]
    BY <1>3, <2>1, ConcatProperties
  <2> QED
    BY <1>1, <2>2
<1>5. \A i \in 1..k : list[i].type = "CutData" =>
          list[i].id <= n /\ \A j \in 1..k : list[j] = list[i] => j = i
  BY <1>1 DEF CutsTo
<1>6. \A i \in 1..k : list[i] \in Methods
  BY <1>1 DEF Lists
<1>7. \A i \in 1..k : list[i].type = "CutData" => list[i].id \in Nat
  BY <1>6, BandsAssumption, MaxCutsAssumption
     DEF Methods, Rotate, Copied, Calib, Demean, Taper, Polarity, Filter, Cut, Method
<1>8. \A i \in 1..k : list[i] # c
  <2> SUFFICES ASSUME NEW i \in 1..k, list[i] = c PROVE FALSE
    OBVIOUS
  <2>1. list[i].id = n + 1 /\ list[i].id <= n
    BY <1>2, <1>5
  <2> QED
    BY <2>1
<1>9. ASSUME NEW i \in 1..(k + 1), r[i].type = "CutData"
      PROVE  r[i].id <= n + 1 /\ \A j \in 1..(k + 1) : r[j] = r[i] => j = i
  <2>1. CASE i = k + 1
    <3>1. \A j \in 1..(k + 1) : j = k + 1 \/ j \in 1..k
      OBVIOUS
    <3> QED
      BY <1>2, <1>4, <1>8, <2>1, <3>1
  <2>2. CASE i \in 1..k
    <3>1. list[i].id \in Nat /\ list[i].id <= n /\ r[i] = list[i]
      BY <1>4, <1>5, <1>7, <1>9, <2>2
    <3>2. ASSUME NEW j \in 1..(k + 1), r[j] = r[i] PROVE j = i
      <4>1. j # k + 1
        BY <1>4, <1>8, <2>2, <3>1, <3>2
      <4>2. j \in 1..k
        BY <4>1
      <4> QED
        BY <1>4, <1>5, <1>9, <2>2, <3>1, <3>2, <4>2
    <3> QED
      BY <3>1, <3>2
  <2> QED
    BY <2>1, <2>2
<1>10. CutsTo(r, n + 1)
  BY <1>4, <1>9 DEF CutsTo
<1> QED
  BY <1>1, <1>3, <1>10

\* A list with the cuts made so far has no others later.
LEMMA CutsMore ==
    ASSUME NEW list \in Lists, NEW n \in Nat, NEW m \in Nat, n <= m, CutsTo(list, n)
    PROVE  CutsTo(list, m)
<1>1. ASSUME NEW i \in 1..Len(list), list[i].type = "CutData" PROVE list[i].id <= m
  <2>1. list[i] \in Methods
    BY DEF Lists
  <2>2. list[i].id \in Nat
    BY <1>1, <2>1, BandsAssumption, MaxCutsAssumption
       DEF Methods, Rotate, Copied, Calib, Demean, Taper, Polarity, Filter, Cut, Method
  <2>3. list[i].id <= n
    BY <1>1 DEF CutsTo
  <2> QED
    BY <2>2, <2>3
<1> QED
  BY <1>1 DEF CutsTo

\* Steps that edit lists, and put nothing away.
LEMMA EditsCuts ==
    ASSUME Inv, CutsInv, Stays, Edits, UNCHANGED <<cuts, clipboard>> PROVE CutsInv'
<1>1. cuts \in Nat
  BY MaxCutsAssumption DEF Inv
<1>2. \A w \in On' : CutsTo(wave'[w].list, cuts')
  BY <1>1 DEF CutsInv, Edits, Fewer, Stays
<1> QED
  BY <1>2 DEF CutsInv, Stays

LEMMA SetEdits ==
    ASSUME Inv, NEW w \in On, NEW v, Set(w, v), Fewer(v.list, wave[w].list)
    PROVE  Edits /\ UNCHANGED <<cuts, clipboard>>
<1>1. wave' = [wave EXCEPT ![w] = v] /\ UNCHANGED <<cuts, clipboard>>
  BY DEF Set
<1>2. \A u \in Waveforms : wave'[u] = IF u = w THEN v ELSE wave[u]
  BY <1>1 DEF Inv, Shows
<1>3. \A u \in On : u \in Waveforms
  BY DEF On
<1> QED
  BY <1>1, <1>2, <1>3 DEF Edits, Fewer

LEMMA ApplyEdits ==
    ASSUME Inv, NEW w \in On, Apply(w) PROVE Edits /\ UNCHANGED <<cuts, clipboard>>
<1>1. PICK m \in {Demean, Calib, Polarity} : Set(w, Applied(wave[w], <<m>>))
  BY DEF Apply
<1>2. <<m>> \in Seq(Plain) /\ NoCuts(<<m>>)
  BY MethodTypes DEF NoCuts, Demean, Calib, Polarity, Method
<1>3. PICK v : v = Applied(wave[w], <<m>>)
  OBVIOUS
<1>4. v.list = wave[w].list \o <<m>>
  BY <1>2, <1>3, OnGood, AppliedGood
<1>5. Fewer(v.list, wave[w].list)
  BY <1>2, <1>4, OnGood, Added
<1> QED
  BY <1>1, <1>3, <1>5, SetEdits

LEMMA FilterEdits ==
    ASSUME Inv, NEW w \in On, NEW b \in setup.bands, ChangeFilter(w, b) \/ AddFilter(w, b)
    PROVE  Edits /\ UNCHANGED <<cuts, clipboard>>
<1>1. PICK dm : dm = <<Demean, Taper, Filter(b)>>
  OBVIOUS
<1>2. dm \in Seq(Plain) /\ dm # <<>> /\ NoCuts(dm)
  BY <1>1, FilterPlain DEF NoCuts, Demean, Taper, Filter, Method
<1>3. CASE ChangeFilter(w, b)
  <2>1. PICK v : v = WithList(wave[w], Replace(wave[w].list, dm))
    OBVIOUS
  <2>2. Set(w, Replay(v))
    BY <1>1, <1>3, <2>1 DEF ChangeFilter
  <2>3. Ready(v) /\ v.list = Replace(wave[w].list, dm) /\ Fewer(v.list, wave[w].list)
    BY <1>2, <2>1, OnGood, ReplaceLists, WithListReady
  <2>4. Replay(v).list = v.list
    BY <2>3, ReplayGood
  <2> QED
    BY <2>2, <2>3, <2>4, SetEdits
<1>4. CASE AddFilter(w, b)
  <2>1. PICK v : v = Applied(wave[w], dm)
    OBVIOUS
  <2>2. Set(w, v)
    BY <1>1, <1>4, <2>1 DEF AddFilter
  <2>3. v.list = wave[w].list \o dm
    BY <1>2, <2>1, OnGood, AppliedGood
  <2>4. Fewer(v.list, wave[w].list)
    BY <1>2, <2>3, OnGood, Added
  <2> QED
    BY <2>2, <2>4, SetEdits
<1> QED
  BY <1>3, <1>4

LEMMA RemoveEdits ==
    ASSUME Inv, NEW w \in On,
           RemoveMethods(w) \/ Normal(w) \/ RemoveRow(w) \/ RemoveAllMethods(w)
    PROVE  Edits /\ UNCHANGED <<cuts, clipboard>>
<1>1. PICK list \in Lists : /\ Fewer(list, wave[w].list)
                            /\ \/ Set(w, Replay(WithList(wave[w], list)))
                               \/ Set(w, ReplayMember(WithList(wave[w], list)))
                               \/ list = <<>> /\ Set(w, Reread(WithList(wave[w], list)))
  <2>1. CASE RemoveMethods(w)
    BY <2>1, OnGood, RemovedLists DEF RemoveMethods
  <2>2. \A i \in DOMAIN wave[w].list : i \in 1..Len(wave[w].list)
    BY OnGood
  <2>3. CASE Normal(w)
    BY <2>2, <2>3, OnGood, RemoveAtLists DEF Normal
  <2>4. CASE RemoveRow(w)
    BY <2>2, <2>4, OnGood, RemoveAtLists DEF RemoveRow
  <2>5. CASE RemoveAllMethods(w)
    <3>1. Fewer(<<>>, wave[w].list)
      BY DEF Fewer, CutsTo
    <3> QED
      BY <2>5, <3>1, EmptyList DEF RemoveAllMethods
  <2> QED
    BY <2>1, <2>3, <2>4, <2>5
<1>2. PICK v : v = WithList(wave[w], list)
  OBVIOUS
<1>3. Ready(v) /\ v.list = list
  BY <1>2, OnGood, WithListReady
<1>4. Replay(v).list = list /\ ReplayMember(v).list = list /\ (list = <<>> => Reread(v).list = list)
  BY <1>3, ReplayGood, ReplayMemberGood, RereadGood
<1> QED
  BY <1>1, <1>2, <1>4, SetEdits

LEMMA RotateEdits ==
    ASSUME Inv, RotateWaveforms PROVE Edits /\ UNCHANGED <<cuts, clipboard>>
<1>1. /\ wave' = [w \in Waveforms |-> IF w \in {East, North} THEN Replay(WithRotate(wave[w]))
                                      ELSE wave[w]]
      /\ UNCHANGED <<cuts, clipboard>>
  BY DEF RotateWaveforms
<1>2. ASSUME NEW w \in On PROVE Fewer(wave'[w].list, wave[w].list)
  <2>1. CASE w \in {East, North}
    <3>1. PICK v : v = WithRotate(wave[w])
      OBVIOUS
    <3>2. Ready(v) /\ Fewer(v.list, wave[w].list)
      BY <3>1, OnGood, WithRotateReady
    <3>3. wave'[w] = Replay(v)
      BY <1>1, <2>1, <3>1, OnGood
    <3> QED
      BY <3>2, <3>3, ReplayGood
  <2>2. CASE w \notin {East, North}
    BY <1>1, <2>2, OnGood DEF Fewer
  <2> QED
    BY <2>1, <2>2
<1> QED
  BY <1>1, <1>2 DEF Edits

LEMMA UnrotateEdits ==
    ASSUME Inv, Unrotate PROVE Edits /\ UNCHANGED <<cuts, clipboard>>
<1> DEFINE rest(w) == WithList(wave[w], Removed(wave[w].list, <<"RotateData">>))
           list == rest(East).list
           done(w) == [DoMethods(Reread(rest(w)), list) EXCEPT
                           !.wrong = IF rest(w).list = list THEN "no" ELSE "mixed"]
           kept(w) == IF rest(w).list = wave[w].list THEN wave[w]
                      ELSE [rest(w) EXCEPT !.wrong = "left"]
           torn(w) == [Reread(rest(w)) EXCEPT !.done = BeforeCut(list),
                                              !.wrong = IF w = East THEN "torn" ELSE "mixed"]
           left(w) == IF w = East THEN Unread(rest(w)) ELSE kept(w)
<1>0. PICK cut \in BOOLEAN :
        wave' = [w \in Waveforms |->
                  IF w \in {East, North}
                  THEN IF disk # "all" THEN left(w) ELSE IF cut THEN done(w) ELSE torn(w)
                  ELSE wave[w]]
  BY DEF Unrotate
<1> DEFINE new(w) == IF disk # "all" THEN left(w) ELSE IF cut THEN done(w) ELSE torn(w)
<1>1. wave' = [w \in Waveforms |-> IF w \in {East, North} THEN new(w) ELSE wave[w]]
      /\ East \in On /\ North \in On /\ UNCHANGED <<cuts, clipboard>>
  BY <1>0 DEF Unrotate
<1>2. ASSUME NEW w \in {East, North} PROVE Fewer(new(w).list, wave[w].list)
  <2>1. w \in On
    BY <1>1
  <2>2. PICK v : v = rest(w)
    OBVIOUS
  <2>3. Ready(v) /\ Fewer(v.list, wave[w].list)
    BY <2>1, <2>2, OnGood, RemovedLists, WithListReady
  <2>4. PICK r : r = Reread(v)
    OBVIOUS
  <2>5. r \in TimeSeries /\ r.list = v.list
    BY <2>3, <2>4, RereadFacts
  <2>6. done(w).list = v.list
    <3>1. PICK l, c : l = list /\ c = IF rest(w).list = list THEN "no" ELSE "mixed"
      OBVIOUS
    <3>2. done(w) = [DoMethods(r, l) EXCEPT !.wrong = c]
      BY <2>2, <2>4, <3>1
    <3> HIDE DEF done
    <3> QED
      BY <2>5, <3>2 DEF DoMethods, TimeSeries
  <2>60. torn(w).list = v.list /\ Unread(v).list = v.list
    <3>1. PICK b, c : b = BeforeCut(list) /\ c = IF w = East THEN "torn" ELSE "mixed"
      OBVIOUS
    <3>2. torn(w) = [r EXCEPT !.done = b, !.wrong = c]
      BY <2>2, <2>4, <3>1
    <3>3. PICK u : u = IF disk = "part" THEN "unread" ELSE "no"
      OBVIOUS
    <3>4. Unread(v) = [r EXCEPT !.wrong = u]
      BY <2>4, <3>3 DEF Unread
    <3> HIDE DEF torn
    <3> QED
      BY <2>5, <3>2, <3>4 DEF TimeSeries
  <2>7. kept(w).list = v.list \/ kept(w).list = wave[w].list
    BY <2>2, <2>3 DEF Ready, TimeSeries
  <2>8. new(w).list = v.list \/ new(w).list = wave[w].list
    <3> HIDE DEF done, torn, kept, rest
    <3>1. Unread(rest(w)) = Unread(v)
      BY <2>2
    <3> QED
      BY <2>6, <2>60, <2>7, <3>1
  <2> HIDE DEF new
  <2> QED
    BY <2>3, <2>8 DEF Fewer
<1> HIDE DEF new
<1>3. ASSUME NEW w \in On PROVE Fewer(wave'[w].list, wave[w].list)
  <2>1. CASE w \in {East, North}
    BY <1>1, <1>2, <2>1, OnGood
  <2>2. CASE w \notin {East, North}
    BY <1>1, <2>2, OnGood DEF Fewer
  <2> QED
    BY <2>1, <2>2
<1> QED
  BY <1>1, <1>3 DEF Edits

\* A copied part of a waveform has its cuts.
LEMMA CopiedCuts ==
    ASSUME Inv, CutsInv, NEW w \in On
    PROVE  /\ CutsTo(CopyOf(wave[w]).list, cuts) /\ CutsTo(Window(wave[w], Copied).list, cuts)
           /\ CopyOf(wave[w]).list \in Lists /\ Window(wave[w], Copied).list \in Lists
<1>1. cuts \in Nat /\ CutsTo(wave[w].list, cuts) /\ wave[w].list \in Lists
  BY OnGood, MaxCutsAssumption DEF Inv, CutsInv
<1>2. CopyOf(wave[w]).list = wave[w].list
  BY OnGood, CopyGood
<1>3. Copied \in Plain /\ Copied.type = "CopyData"
  BY MethodTypes
<1>4. Window(wave[w], Copied).list = wave[w].list \o <<Copied>>
  BY <1>3, OnGood, WindowGood
<1>5. <<Copied>> \in Seq(Plain) /\ NoCuts(<<Copied>>)
  BY <1>3 DEF NoCuts
<1>6. PICK dm \in Seq(Plain) : dm = <<Copied>> /\ NoCuts(dm)
  BY <1>5
<1>7. wave[w].list \o dm \in Lists /\ Fewer(wave[w].list \o dm, wave[w].list)
  BY <1>1, <1>6, Added
<1> QED
  BY <1>1, <1>2, <1>4, <1>6, <1>7 DEF Fewer

\* The next cut is in the lists that it cuts, and in none of those put away.
LEMMA CutCuts ==
    ASSUME Inv, CutsInv, NEW P \in SUBSET On, NEW D \in SUBSET On, CutWaveforms(P, D)
    PROVE  CutsInv'
<1>1. cuts \in Nat /\ cuts + 1 \in 1..MaxCuts /\ cuts' = cuts + 1
  BY SetupsAssumption, MaxCutsAssumption DEF Inv, Setup, CutWaveforms
<1>2. Cut(cuts + 1) \in Plain /\ Cut(cuts + 1).type = "CutData"
  BY <1>1, MethodTypes
<1>3. ASSUME NEW w \in On' PROVE CutsTo(wave'[w].list, cuts + 1)
  <2>1. w \in Waveforms /\ wave'[w] # Absent
        /\ wave'[w] = IF w \in D THEN Absent
                      ELSE IF w \in P THEN Window(wave[w], Cut(cuts + 1)) ELSE wave[w]
    BY DEF CutWaveforms, On
  <2>2. w \in On
    BY <2>1 DEF On
  <2>3. CutsTo(wave[w].list, cuts) /\ wave[w].list \in Lists
    BY <2>2, OnGood DEF CutsInv
  <2>4. CASE w \in P
    <3>1. wave'[w].list = wave[w].list \o <<Cut(cuts + 1)>>
      BY <1>2, <2>1, <2>2, <2>4, OnGood, WindowGood
    <3> QED
      BY <1>1, <2>3, <3>1, CutAdded
  <2>5. CASE w \notin P
    <3>1. wave'[w].list = wave[w].list /\ cuts <= cuts + 1 /\ cuts + 1 \in Nat
      BY <1>1, <2>1, <2>5
    <3> QED
      BY <1>1, <2>3, <3>1, CutsMore
  <2> QED
    BY <2>4, <2>5
<1>4. ASSUME clipboard' # Absent PROVE CutsTo(clipboard'.list, cuts + 1)
  <2>1. PICK w \in On : clipboard' = CopyOf(wave[w]) \/ clipboard' = Window(wave[w], Copied)
    <3>1. PICK w : w = CHOOSE x \in P \cup D : TRUE
      OBVIOUS
    <3>2. w \in On
      BY <3>1 DEF CutWaveforms
    <3> QED
      BY <1>4, <3>1, <3>2 DEF CutWaveforms
  <2>2. CutsTo(clipboard'.list, cuts) /\ clipboard'.list \in Lists
    BY <2>1, CopiedCuts
  <2>3. cuts <= cuts + 1 /\ cuts + 1 \in Nat
    BY <1>1
  <2> QED
    BY <1>1, <2>2, <2>3, CutsMore
<1>5. PICK k \in Nat : k = Len(undo)
  BY DEF Inv
<1>6. /\ Len(undo') = k + 1 /\ undo'[k + 1] = NewUndo(D) /\ \A i \in 1..k : undo'[i] = undo[i]
      /\ \A i \in 1..k : undo[i].cut \in Nat
  <2>1. undo \in Seq(UndoCut) /\ undo' = Append(undo, NewUndo(D))
    BY DEF Inv, CutWaveforms
  <2>2. \A i \in 1..k : undo[i].cut \in 1..MaxCuts
    <3>1. \A i \in 1..k : undo[i] \in UndoCut
      BY <1>5, <2>1
    <3> QED
      BY <3>1 DEF UndoCut
  <2> QED
    BY <1>5, <2>1, <2>2, MaxCutsAssumption
<1>7. NewUndo(D).cut = cuts + 1 /\ NewUndo(D).cut_ts = Taken(D)
  BY DEF NewUndo
<1>8. ASSUME NEW i \in 1..Len(undo') PROVE i = k + 1 \/ i \in 1..k
  BY <1>6
<1>9. ASSUME NEW w \in Waveforms, Taken(D)[w] # Absent PROVE CutsTo(Taken(D)[w].list, cuts)
  <2>1. w \in On /\ Taken(D)[w] = wave[w]
    BY <1>9 DEF Taken
  <2> QED
    BY <2>1 DEF CutsInv
<1>10. ASSUME NEW i \in 1..Len(undo'), NEW w \in Waveforms, undo'[i].cut_ts[w] # Absent
       PROVE  CutsTo(undo'[i].cut_ts[w].list, undo'[i].cut - 1)
  <2>1. CASE i = k + 1
    <3>1. undo'[i].cut = cuts + 1 /\ undo'[i].cut_ts = Taken(D)
      BY <1>6, <1>7, <2>1
    <3>2. undo'[i].cut - 1 = cuts
      BY <1>1, <3>1
    <3>3. CutsTo(Taken(D)[w].list, cuts)
      BY <1>9, <1>10, <3>1
    <3> QED
      BY <3>1, <3>2, <3>3
  <2>2. CASE i \in 1..k
    BY <1>5, <1>6, <1>10, <2>2 DEF CutsInv
  <2> QED
    BY <1>8, <2>1, <2>2
<1>11. ASSUME NEW i \in 1..Len(undo') PROVE undo'[i].cut <= cuts + 1
  <2>1. CASE i = k + 1
    BY <1>1, <1>6, <1>7, <2>1
  <2>2. CASE i \in 1..k
    <3>1. undo[i].cut <= cuts /\ undo'[i] = undo[i] /\ undo[i].cut \in Nat
      BY <1>5, <1>6, <2>2 DEF CutsInv
    <3> QED
      BY <1>1, <3>1
  <2> QED
    BY <1>8, <2>1, <2>2
<1> QED
  BY <1>1, <1>3, <1>4, <1>10, <1>11 DEF CutsInv

\* What is copied or pasted has the cuts of what it was.
LEMMA CopyPasteCuts ==
    ASSUME Inv, CutsInv, (\E w \in On : CopyWaveform(w)) \/ PasteData PROVE CutsInv'
<1>1. ASSUME NEW w \in On, CopyWaveform(w) PROVE CutsInv'
  <2>1. CutsTo(clipboard'.list, cuts) /\ UNCHANGED <<wave, undo, cuts>>
    BY <1>1, CopiedCuts DEF CopyWaveform
  <2>2. On' = On
    BY <2>1 DEF On
  <2> QED
    BY <2>1, <2>2 DEF CutsInv
<1>2. CASE PasteData
  <2>1. wave' = [wave EXCEPT ![Spare] = CopyOf(clipboard)] /\ clipboard # Absent
        /\ UNCHANGED <<clipboard, undo, cuts>>
    BY <1>2 DEF PasteData
  <2>2. CopyOf(clipboard).list = clipboard.list
    BY <2>1, CopyGood DEF Inv
  <2>3. CutsTo(CopyOf(clipboard).list, cuts)
    BY <2>1, <2>2 DEF CutsInv
  <2>4. ASSUME NEW w \in On' PROVE CutsTo(wave'[w].list, cuts)
    <3>1. w \in Waveforms /\ wave'[w] # Absent
      BY DEF On
    <3>2. CASE w = Spare
      BY <2>1, <2>3, <3>1, <3>2 DEF Inv, Shows
    <3>3. CASE w # Spare
      <4>1. wave'[w] = wave[w]
        BY <2>1, <3>1, <3>3 DEF Inv, Shows
      <4>2. w \in On
        BY <3>1, <4>1 DEF On
      <4> QED
        BY <4>1, <4>2 DEF CutsInv
    <3> QED
      BY <3>2, <3>3
  <2> QED
    BY <2>1, <2>4 DEF CutsInv
<1> QED
  BY <1>1, <1>2

\* What undoing the last action displays at w: the waveform taken away has only
\* older cuts; a list from which the cut is removed has it no more.
LEMMA UndoneLists ==
    ASSUME Inv, CutsInv, UndoLast, NEW w \in Waveforms, wave'[w] # Absent
    PROVE  /\ CutsTo(wave'[w].list, cuts)
           /\ \A i \in 1..Len(wave'[w].list) : wave'[w].list[i] # Cut(Last(undo).cut)
           /\ wave'[w].wrong \notin {"mixed", "left"} => Within(wave'[w].done, wave'[w].list)
<1>1. PICK k \in 1..Len(undo) : Last(undo) = undo[k] /\ undo[k] \in UndoCut
  <2>1. undo \in Seq(UndoCut) /\ undo # <<>>
    BY DEF Inv, UndoLast
  <2>2. Len(undo) \in 1..Len(undo)
    BY <2>1
  <2> QED
    BY <2>1, <2>2 DEF Last
<1>2. PICK top : top = undo[k]
  OBVIOUS
<1>3. PICK n \in 1..MaxCuts : n = top.cut
  BY <1>1, <1>2 DEF UndoCut
<1>4. n <= cuts /\ cuts \in Nat /\ n \in Nat /\ n - 1 \in Nat /\ n - 1 <= cuts
  BY <1>1, <1>2, <1>3, MaxCutsAssumption DEF Inv, CutsInv
<1>5. wave'[w] = IF top.cut_ts[w] # Absent THEN CopyOf(top.cut_ts[w])
                 ELSE IF w \in On THEN Uncut(wave[w], n) ELSE Absent
  BY <1>1, <1>2, <1>3 DEF UndoLast
<1>6. Cut(n).type = "CutData" /\ Cut(n).id = n
  BY DEF Cut, Method
<1>7. CASE top.cut_ts[w] # Absent
  <2>1. PICK v : v = top.cut_ts[w]
    OBVIOUS
  <2>2. Good(v) /\ CutsTo(v.list, n - 1)
    BY <1>1, <1>2, <1>3, <1>7, <2>1 DEF Inv, CutsInv, Shows, GoodAt
  <2>3. Good(wave'[w]) /\ wave'[w].list = v.list
    BY <1>5, <1>7, <2>1, <2>2, CopyGood
  <2>4. CutsTo(v.list, cuts)
    BY <1>4, <2>2, CutsMore DEF Good, Ready
  <2>5. ASSUME NEW i \in 1..Len(v.list), v.list[i] = Cut(n) PROVE FALSE
    <3>1. n <= n - 1
      BY <1>6, <2>2, <2>5 DEF CutsTo
    <3> QED
      BY <1>4, <3>1
  <2> QED
    BY <1>1, <1>2, <1>3, <2>3, <2>4, <2>5 DEF Good
<1>8. CASE top.cut_ts[w] = Absent
  <2>1. PICK v, list : v = wave[w] /\ list = v.list
    OBVIOUS
  <2>2. w \in On /\ wave'[w] = Uncut(v, n)
    BY <1>5, <1>8, <2>1
  <2>3. Good(v) /\ Ready(v) /\ CutsTo(list, cuts) /\ list \in Lists /\ DOMAIN list = 1..Len(list)
    BY <2>1, <2>2, OnGood DEF CutsInv
  <2>4. CASE \A j \in DOMAIN list : list[j] # Cut(n)
    <3>1. wave'[w] = v
      BY <2>1, <2>2, <2>4 DEF Uncut
    <3> QED
      BY <1>1, <1>2, <1>3, <2>1, <2>3, <2>4, <3>1 DEF Good
  <2>5. CASE \E j \in DOMAIN list : list[j] = Cut(n)
    <3>1. PICK i \in 1..Len(list) : /\ i = CHOOSE j \in DOMAIN list : list[j] = Cut(n)
                                    /\ list[i] = Cut(n)
      BY <2>3, <2>5
    <3>2. PICK rest : rest = RemoveAt(list, i)
      OBVIOUS
    <3>3. /\ rest \in Lists /\ Fewer(rest, list)
          /\ \A m \in 1..Len(rest) : \E j \in 1..Len(list) : j # i /\ rest[m] = list[j]
      BY <2>3, <3>2, RemoveAtLists
    <3>4. wave'[w] = ReplayMember(WithList(v, rest))
      BY <2>1, <2>2, <2>5, <3>1, <3>2 DEF Uncut
    <3>5. PICK u : u = WithList(v, rest)
      OBVIOUS
    <3>6. Good(wave'[w]) /\ wave'[w].list = rest
      BY <2>3, <3>3, <3>4, <3>5, WithListReady, ReplayMemberGood
    <3>7. CutsTo(rest, cuts)
      BY <1>4, <2>3, <3>3 DEF Fewer
    <3>8. \A m \in 1..Len(rest) : rest[m] # Cut(n)
      BY <1>6, <2>3, <3>1, <3>3 DEF CutsTo
    <3> QED
      BY <1>1, <1>2, <1>3, <3>6, <3>7, <3>8 DEF Good
  <2> QED
    BY <2>4, <2>5
<1> QED
  BY <1>7, <1>8

LEMMA UndoCuts == ASSUME Inv, CutsInv, UndoLast PROVE CutsInv'
<1>1. undo \in Seq(UndoCut) /\ undo # <<>> /\ undo' = Front(undo) /\ UNCHANGED <<clipboard, cuts>>
  BY DEF Inv, UndoLast
<1>2. \A w \in On' : CutsTo(wave'[w].list, cuts')
  BY <1>1, UndoneLists DEF On
<1>3. Len(undo') \in Nat /\ Len(undo') <= Len(undo) /\ \A i \in 1..Len(undo') : undo'[i] = undo[i]
  BY <1>1, FrontOf DEF Front
<1>4. \A i \in 1..Len(undo') : i \in 1..Len(undo)
  BY <1>1, <1>3
<1> QED
  BY <1>1, <1>2, <1>3, <1>4 DEF CutsInv

LEMMA OtherCuts == ASSUME Inv, CutsInv, Clear \/ Mount PROVE CutsInv'
<1>1. CASE Clear
  <2>1. On' = {} /\ undo' = <<>> /\ UNCHANGED <<clipboard, cuts>>
    BY <1>1 DEF Clear, On, Nobody
  <2> QED
    BY <2>1 DEF CutsInv
<1>2. CASE Mount
  BY <1>2 DEF Mount, CutsInv, On
<1> QED
  BY <1>1, <1>2

\* Each cut is in a list once, and was made; what a cut took away has older ones.
THEOREM CutsInvariance == Spec => []CutsInv
<1>1. Init => CutsInv
  <2> SUFFICES ASSUME Init PROVE CutsInv
    OBVIOUS
  <2>1. clipboard = Absent /\ undo = <<>>
    BY DEF Init
  <2>2. ASSUME NEW w \in On PROVE Len(wave[w].list) = 0
    BY DEF Init, On, Fresh
  <2> QED
    BY <2>1, <2>2 DEF CutsInv, CutsTo
<1>2. Inv /\ CutsInv /\ [Next]_vars => CutsInv'
  <2> SUFFICES ASSUME Inv, CutsInv, [Next]_vars PROVE CutsInv'
    OBVIOUS
  <2>1. CASE UNCHANGED vars
    BY <2>1 DEF vars, CutsInv, On
  <2>2. ASSUME NEW w \in On, \/ Apply(w) \/ RemoveMethods(w) \/ Normal(w)
                             \/ RemoveRow(w) \/ RemoveAllMethods(w)
        PROVE  CutsInv'
    BY <2>2, ApplyInv, RemoveInv, ApplyEdits, RemoveEdits, EditsCuts
  <2>3. ASSUME NEW w \in On, NEW b \in setup.bands, ChangeFilter(w, b) \/ AddFilter(w, b)
        PROVE  CutsInv'
    BY <2>3, FilterInv, FilterEdits, EditsCuts
  <2>4. CASE RotateWaveforms \/ Unrotate
    BY <2>4, RotateInv, UnrotateInv, RotateEdits, UnrotateEdits, EditsCuts
  <2>5. ASSUME NEW P \in SUBSET On, NEW D \in SUBSET On, CutWaveforms(P, D) PROVE CutsInv'
    BY <2>5, CutCuts
  <2>6. CASE PasteData \/ \E w \in On : CopyWaveform(w)
    BY <2>6, CopyPasteCuts
  <2>7. CASE UndoLast
    BY <2>7, UndoCuts
  <2>8. CASE Clear \/ Mount
    BY <2>8, OtherCuts
  <2> QED
    BY <2>1, <2>2, <2>3, <2>4, <2>5, <2>6, <2>7, <2>8 DEF Next
<1> QED
  BY <1>1, <1>2, Invariant, PTL DEF Spec

\* An action undone leaves nothing of its cut: neither in what comes back, nor in
\* what was on the screen all the time, nor in the data of either.
THEOREM UndoLeavesNothing == Spec => UndoneIsGone
<1>1. Inv /\ CutsInv /\ [Next]_vars =>
      [UndoLast => \A w \in Waveforms : wave'[w] # Absent =>
          LET n == Last(undo).cut IN
          /\ \A i \in DOMAIN wave'[w].list : wave'[w].list[i] # Cut(n)
          /\ wave'[w].wrong \notin {"mixed", "left"} =>
                 \A i \in DOMAIN wave'[w].done : wave'[w].done[i] # Cut(n)]_vars
  <2> SUFFICES ASSUME Inv, CutsInv, UndoLast, NEW w \in Waveforms, wave'[w] # Absent
               PROVE  LET n == Last(undo).cut IN
                      /\ \A i \in DOMAIN wave'[w].list : wave'[w].list[i] # Cut(n)
                      /\ wave'[w].wrong \notin {"mixed", "left"} =>
                             \A i \in DOMAIN wave'[w].done : wave'[w].done[i] # Cut(n)
    OBVIOUS
  <2>1. PICK v, n : v = wave'[w] /\ n = Last(undo).cut
    OBVIOUS
  <2>2. /\ \A i \in 1..Len(v.list) : v.list[i] # Cut(n)
        /\ v.wrong \notin {"mixed", "left"} => Within(v.done, v.list)
    BY <2>1, UndoneLists
  <2>3. DOMAIN v.list = 1..Len(v.list) /\ DOMAIN v.done = 1..Len(v.done)
    <3>1. Shows(wave)'
      BY UndoInv DEF Inv
    <3>2. v \in TimeSeries
      BY <2>1, <3>1 DEF Shows
    <3>3. v.list \in Seq(Methods) /\ v.done \in Seq(Methods)
      BY <3>2 DEF TimeSeries
    <3> QED
      BY <3>3
  <2>4. v.wrong \notin {"mixed", "left"} => \A i \in 1..Len(v.done) : v.done[i] # Cut(n)
    BY <2>2 DEF Within
  <2> QED
    BY <2>1, <2>2, <2>3, <2>4
<1> QED
  BY <1>1, Invariant, CutsInvariance, PTL DEF Spec, UndoneIsGone

\* A list without one of its methods.
Without(list, m) == RemoveAt(list, CHOOSE j \in DOMAIN list : list[j] = m)

\* A method added at the end, which the list does not have, is found and removed
\* there.
LEMMA LastRemoved ==
    ASSUME NEW list \in Lists, NEW c, ~Has(list, c.type)
    PROVE  /\ \E j \in DOMAIN (list \o <<c>>) : (list \o <<c>>)[j] = c
           /\ Without(list \o <<c>>, c) = list
<1>0. PICK S, l : S = Methods \cup {c} /\ l = list \o <<c>>
  OBVIOUS
<1>1. PICK n \in Nat : n = Len(list)
  BY DEF Lists
<1>2. list \in Seq(S) /\ <<c>> \in Seq(S) /\ Len(<<c>>) = 1 /\ <<c>>[1] = c
  BY <1>0, <1>1 DEF Lists
<1>3. /\ l \in Seq(S) /\ Len(l) = n + 1
      /\ \A i \in 1..(n + 1) : l[i] = IF i <= n THEN list[i] ELSE <<c>>[i - n]
  BY <1>0, <1>1, <1>2, ConcatProperties
<1>4. DOMAIN l = 1..(n + 1) /\ l[n + 1] = c /\ \A i \in 1..n : l[i] = list[i]
  BY <1>1, <1>2, <1>3
<1>5. \A i \in 1..n : l[i] # c
  BY <1>1, <1>2, <1>4 DEF Has
<1>6. PICK k : k = CHOOSE j \in DOMAIN l : l[j] = c
  OBVIOUS
<1>7. k \in 1..(n + 1) /\ l[k] = c
  BY <1>1, <1>4, <1>6
<1>8. k = n + 1
  BY <1>1, <1>5, <1>7
<1>9. SubSeq(l, n + 1 + 1, n + 1) = <<>>
  BY <1>1, <1>3, SubSeqEmpty
<1>10. SubSeq(l, 1, n + 1 - 1) = list
  <2>1. n + 1 - 1 = n
    BY <1>1
  <2>2. \A i \in 1..n : l[i] \in S
    BY <1>1, <1>2, <1>4
  <2>3. SubSeq(l, 1, n) \in Seq(S) /\ Len(SubSeq(l, 1, n)) = n
        /\ \A i \in 1..n : SubSeq(l, 1, n)[i] = l[i]
    BY <1>1, <2>2, SubSeqProperties
  <2> QED
    BY <1>1, <1>2, <1>4, <2>1, <2>3, SeqEqual
<1>11. list \o <<>> = list
  BY <1>2, ConcatEmptySeq
<1>12. RemoveAt(l, n + 1) = list
  BY <1>1, <1>3, <1>9, <1>10, <1>11 DEF RemoveAt
<1> QED
  BY <1>0, <1>4, <1>6, <1>7, <1>8, <1>12 DEF Without

\* A cut of a waveform that is neither rotated nor a beam, and has no other cut,
\* can be undone: list and data are as before.
THEOREM CutIsUndone == Spec => []CutUndone
<1>1. Inv => CutUndone
  <2> SUFFICES ASSUME Inv, NEW w \in On, disk = "all", wave[w].raw = "own", wave[w].wrong = "no",
                      ~wave[w].derived, ~Has(wave[w].list, "CutData"), ~Rotated(wave[w].list)
               PROVE  Uncut(Window(wave[w], Cut(cuts + 1)), cuts + 1) = wave[w]
    BY DEF CutUndone
  <2>1. PICK v, list, n, c : v = wave[w] /\ list = v.list /\ n = cuts + 1 /\ c = Cut(n)
    OBVIOUS
  <2>2. /\ Good(v) /\ Ready(v) /\ v \in TimeSeries /\ list \in Lists /\ v.raw = "own"
        /\ v.wrong = "no" /\ ~v.derived /\ ~Has(list, "CutData") /\ ~Rotated(list)
    BY <2>1, OnGood
  <2>3. ~v.copy /\ ~v.own /\ v.done = list
    BY <2>1, <2>2 DEF Good, Ready
  <2>4. v = [list |-> list, done |-> list, raw |-> "own", copy |-> FALSE, derived |-> FALSE,
             own |-> FALSE, wrong |-> "no"]
    BY <2>1, <2>2, <2>3 DEF TimeSeries
  <2>5. PICK l : l = list \o <<c>>
    OBVIOUS
  <2>6. PICK u : u = Window(v, c)
    OBVIOUS
  <2>7. u = [list |-> l, done |-> l, raw |-> "own", copy |-> FALSE, derived |-> FALSE,
             own |-> FALSE, wrong |-> "no"]
    BY <2>4, <2>5, <2>6 DEF Window, Applied
  <2>8. c.type = "CutData" /\ ~Has(list, c.type)
    BY <2>1, <2>2 DEF Cut, Method
  <2>9. (\E j \in DOMAIN l : l[j] = c) /\ Without(l, c) = list
    BY <2>2, <2>5, <2>8, LastRemoved
  <2>10. Uncut(u, n) = ReplayMember(WithList(u, list))
    BY <2>1, <2>7, <2>9 DEF Uncut, Without
  <2>11. PICK x : x = WithList(u, list)
    OBVIOUS
  <2>12. x = [list |-> list, done |-> l, raw |-> "own", copy |-> FALSE, derived |-> FALSE,
              own |-> FALSE, wrong |-> "no"]
    BY <2>7, <2>11 DEF WithList
  <2>13. BeforeCut(list) = list
    BY <2>2, BeforeCutLists
  <2>14. PICK r : r = Reread(x)
    OBVIOUS
  <2>15. r = [list |-> list, done |-> <<>>, raw |-> "own", copy |-> FALSE, derived |-> FALSE,
              own |-> FALSE, wrong |-> "no"]
    BY <2>12, <2>14 DEF Reread
  <2>16. ~Stuck(x, x.list) /\ x.list = list
    BY <2>2, <2>12 DEF Stuck
  <2>17. ReplayMember(x) = [r EXCEPT !.done = list, !.wrong = "no"]
    BY <2>2, <2>13, <2>14, <2>15, <2>16 DEF ReplayMember
  <2>18. [r EXCEPT !.done = list, !.wrong = "no"] =
             [list |-> list, done |-> list, raw |-> "own", copy |-> FALSE, derived |-> FALSE,
              own |-> FALSE, wrong |-> "no"]
    <3>1. PICK q : q = [r EXCEPT !.done = list]
      OBVIOUS
    <3>2. q = [list |-> list, done |-> list, raw |-> "own", copy |-> FALSE, derived |-> FALSE,
               own |-> FALSE, wrong |-> "no"]
      BY <2>15, <3>1
    <3>3. q \in TimeSeries /\ q.wrong = "no"
      BY <2>2, <2>4, <3>2
    <3>4. [q EXCEPT !.wrong = "no"] = q
      BY <3>3 DEF TimeSeries
    <3> QED
      BY <3>1, <3>2, <3>4
  <2> QED
    BY <2>1, <2>4, <2>6, <2>10, <2>11, <2>17, <2>18
<1> QED
  BY <1>1, Invariant, PTL
=============================================================================
