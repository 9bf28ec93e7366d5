-------------------------- MODULE FFDBCache_proofs --------------------------
(***************************************************************************)
(* Theorems about FFDBCache, for any number of FFDatabases, queries and    *)
(* files.  The first part is about Quiet setups, in which a copy with the  *)
(* time of its file holds its rows (Inv).  The second part is about all    *)
(* setups: types (Shape), the places of a copy's rows in the file when one *)
(* FFDatabase inserts (OrderInv), and their number when its inserts show   *)
(* in the time of the file (CountInv).                                     *)
(***************************************************************************)
EXTENDS FFDBCache, SequenceTheorems, WellFoundedInduction, TLAPS

\* A row that was never edited by hand.
Good == [id : Nat, ver : {1, 2}]

\* What an FFDatabase has half done.
Doing(d, op) == busy[d] # <<>> /\ busy[d].op = op

Types ==
    /\ rows \in [Files -> Seq(Good)]
    /\ mtime \in [Files -> Nat] /\ \A f \in Files : mtime[f] > Unread
    /\ written \in Nat
    /\ stat \in [FFDBs -> [Files -> Nat]]
    /\ records \in [FFDBs -> [Files -> Seq(Good)]]
    /\ busy \in [FFDBs -> Inserting \cup Opening \cup {<<>>}]
    /\ failed \in [FFDBs -> SUBSET Files]

\* No copy is younger than its file; one that is as old as its file holds its
\* rows, unless it is being loaded or has met a failure.
Copy(d, f) ==
    /\ stat[d][f] <= mtime[f]
    /\ stat[d][f] = mtime[f] /\ f \notin failed[d] =>
          \/ Doing(d, "again") /\ busy[d].file = f
          \/ records[d][f] = rows[f]

\* A load knows a time at which the file had the rows that it will read.
Load(d) ==
    /\ Doing(d, "first") => busy[d].time <= mtime[busy[d].file]
    /\ Doing(d, "again") =>
          LET f == busy[d].file
          IN  /\ busy[d].num <= Len(rows[f])
              /\ stat[d][f] = mtime[f] => busy[d].num = Len(rows[f])

\* The copies of the FFDatabase that inserts are never behind, except between
\* the write and updateFile, or after a failure.
Ahead(d, f) ==
    /\ Doing(d, "seek") /\ busy[d].file = f => busy[d].pos = Len(rows[f]) + 1
    /\ Doing(d, "first") /\ busy[d].file = f => busy[d].time = mtime[f]
    /\ Doing(d, "again") /\ busy[d].file = f => stat[d][f] = mtime[f]
    /\ stat[d][f] # Absent /\ f \notin failed[d] =>
          IF Doing(d, "written") /\ busy[d].file = f
          THEN rows[f] = Append(records[d][f], New(busy[d].id))
          ELSE stat[d][f] = mtime[f]

Inv ==
    /\ Types
    /\ Inserters \subseteq FFDBs
    /\ \A d \in FFDBs, f \in Files : Copy(d, f)
    /\ \A d \in FFDBs : Load(d)
    /\ \A d \in Inserters, f \in Files : Ahead(d, f)

USE DEF Absent, Unread

\* What stands in busy, told by op.
LEMMA BusyKinds ==
    ASSUME Types, NEW d \in FFDBs
    PROVE  /\ Doing(d, "seek") \/ Doing(d, "written") => busy[d] \in Inserting
           /\ Doing(d, "first") \/ Doing(d, "again") => busy[d] \in Opening
           /\ busy[d] = <<>> => \A op : ~Doing(d, op)
  BY DEF Types, Doing, Inserting, Opening

\* readFile takes every row of a file that has no malformed row.
LEMMA ReadableGood ==
    ASSUME NEW s \in Seq(Good) PROVE Parsed(s) = 0 /\ Readable(s) = s
<1>1. \A i \in 1..Len(s) : s[i].ver # 0
  <2>1. \A i \in 1..Len(s) : s[i] \in Good
    OBVIOUS
  <2>2. \A r \in Good : r.ver # 0
    BY DEF Good
  <2> QED
    BY <2>1, <2>2
<1>2. Parsed(s) = 0
  <2>1. {i \in 1..Len(s) : s[i].ver = 0} = {}
    BY <1>1
  <2> QED
    BY <2>1 DEF Parsed, SelectInSeq
<1> QED
  BY <1>2 DEF Readable

\* One entry of a table of all copies, or of all queries, is set.
LEMMA PutAt ==
    ASSUME NEW F, NEW T, NEW m \in [FFDBs -> [F -> T]],
           NEW d \in FFDBs, NEW f \in F, NEW v \in T, NEW n, n = [m EXCEPT ![d][f] = v]
    PROVE  /\ n \in [FFDBs -> [F -> T]]
           /\ n[d][f] = v
           /\ \A e \in FFDBs : e # d => n[e] = m[e]
           /\ \A g \in F : g # f => n[d][g] = m[d][g]
<1> DEFINE x == [m[d] EXCEPT ![f] = v]
<1>1. x \in [F -> T] /\ x[f] = v /\ \A g \in F : g # f => x[g] = m[d][g]
  OBVIOUS
<1>2. n = [m EXCEPT ![d] = x]
  OBVIOUS
<1> HIDE DEF x
<1>3. n \in [FFDBs -> [F -> T]] /\ n[d] = x /\ \A e \in FFDBs : e # d => n[e] = m[e]
  BY <1>1, <1>2
<1> QED
  BY <1>1, <1>3

\* The first rows are well formed, and there are no copies yet.
LEMMA InitInv == Init => Inv
<1> SUFFICES ASSUME Init PROVE Inv
  OBVIOUS
<1> USE DEF Init
<1>0. setup \in Setup /\ setup.first \in Nat /\ Inserters \subseteq FFDBs
  BY SetupsAssumption DEF Setup, Inserters
<1>1. \A n \in Nat : [i \in 1..n |-> New(i)] \in Seq(Good)
  <2>1. \A n \in Nat : New(n) \in Good
    BY DEF New, Good
  <2> QED
    BY <2>1
<1>2. Types
  <2> DEFINE first == [i \in 1..setup.first |-> New(i)]
  <2>1. first \in Seq(Good)
    BY <1>0, <1>1
  <2>2. rows = [f \in Files |-> first]
    OBVIOUS
  <2> HIDE DEF first
  <2>3. rows \in [Files -> Seq(Good)]
    BY <2>1, <2>2
  <2>4. <<>> \in Seq(Good)
    OBVIOUS
  <2> QED
    BY <2>3, <2>4, <1>0 DEF Types
<1>3. \A d \in FFDBs : \A op : ~Doing(d, op)
  BY DEF Doing
<1>4. \A d \in FFDBs, f \in Files : stat[d][f] = 0 /\ mtime[f] = 2
  OBVIOUS
<1>5. \A d \in FFDBs, f \in Files : Copy(d, f) /\ Ahead(d, f)
  BY <1>3, <1>4 DEF Copy, Ahead
<1> QED
  BY <1>0, <1>2, <1>3, <1>5 DEF Inv, Load

\* Steps of the queries that touch neither the files nor the copies.
LEMMA QueryStep ==
    ASSUME Inv, UNCHANGED Inserters, UNCHANGED <<disk, mem, busy>> PROVE Inv'
  BY DEF Inv, Types, Copy, Load, Ahead, Doing, disk, mem

\* A step of d that leaves the files alone has to be looked at for d only.
LEMMA OthersKeep ==
    ASSUME Inv, UNCHANGED Inserters, NEW d \in FFDBs, UNCHANGED <<rows, mtime>>, Types',
           \A e \in FFDBs : e # d => /\ busy'[e] = busy[e]
                                     /\ stat'[e] = stat[e] /\ records'[e] = records[e]
                                     /\ failed'[e] = failed[e],
           \A f \in Files : Copy(d, f)',
           Load(d)',
           d \in Inserters => \A f \in Files : Ahead(d, f)'
    PROVE  Inv'
<1>1. ASSUME NEW e \in FFDBs, NEW g \in Files, e # d PROVE Copy(e, g)' /\ Load(e)'
  <2>1. Copy(e, g) /\ Load(e)
    BY DEF Inv
  <2> QED
    BY <2>1, <1>1 DEF Copy, Load, Doing
<1>2. ASSUME NEW e \in FFDBs, e # d PROVE Load(e)'
  <2>1. Load(e)
    BY DEF Inv
  <2> QED
    BY <2>1, <1>2 DEF Load, Doing
<1>3. ASSUME NEW e \in Inserters, NEW g \in Files, e # d
      PROVE  Ahead(e, g)'
  <2>1. Ahead(e, g) /\ e \in FFDBs
    BY DEF Inv
  <2> QED
    BY <2>1, <1>3 DEF Ahead, Doing
<1> QED
  BY <1>1, <1>2, <1>3 DEF Inv

\* The end that the insert has found is the end of the file.
LEMMA InsertSeekStep ==
    ASSUME Inv, UNCHANGED Inserters, NEW d \in Inserters, NEW f \in Files, InsertSeek(d, f) PROVE Inv'
<1> USE DEF InsertSeek, mem
<1>0. d \in FFDBs
  BY DEF Inv
<1>1. Types'
  BY <1>0 DEF Inv, Types, Inserting
<1>2. busy'[d] = [op |-> "seek", file |-> f, id |-> written + 1, pos |-> Len(rows[f]) + 1]
  BY <1>0 DEF Inv, Types
<1>3. \A op : Doing(d, op)' => op = "seek"
  BY <1>2 DEF Doing
<1>4. \A op : ~Doing(d, op)
  BY DEF Doing
<1>5. \A g \in Files : Copy(d, g)'
  BY <1>0, <1>4 DEF Inv, Copy
<1>6. Load(d)'
  BY <1>3 DEF Load
<1>7. \A g \in Files : Ahead(d, g)'
  BY <1>2, <1>3, <1>4 DEF Inv, Ahead
<1>8. \A e \in FFDBs : e # d => busy'[e] = busy[e]
  BY DEF Inv, Types
<1> QED
  BY <1>0, <1>1, <1>5, <1>6, <1>7, <1>8, OthersKeep

\* Quiet: the row is written at the end of the file, and every copy falls behind.
LEMMA InsertWriteStep ==
    ASSUME Quiet, Inv, UNCHANGED Inserters, NEW d \in Inserters, InsertWrite(d) PROVE Inv'
<1> USE DEF InsertWrite, mem
<1> DEFINE f == busy[d].file
           r == New(busy[d].id)
<1>0. d \in FFDBs /\ Doing(d, "seek")
  BY DEF Inv, Doing
<1>1. busy[d] \in Inserting /\ f \in Files /\ r \in Good
  BY <1>0, BusyKinds DEF Inv, Inserting, New, Good
<1>2. busy[d].pos = Len(rows[f]) + 1 /\ rows[f] \in Seq(Good) /\ Len(rows[f]) \in Nat
  <2>1. Ahead(d, f)
    BY <1>1 DEF Inv
  <2> QED
    BY <2>1, <1>0, <1>1 DEF Inv, Types, Ahead
<1>3. rows' = [rows EXCEPT ![f] = Append(@, r)]
  <2>1. busy[d].pos > Len(rows[f])
    BY <1>2
  <2> QED
    BY <2>1
<1>4. mtime' = [mtime EXCEPT ![f] = mtime[f] + 1] /\ mtime[f] \in Nat
  BY <1>1 DEF Quiet, Stamp, Inv, Types
<1>5. busy'[d] = [busy[d] EXCEPT !.op = "written"] /\ busy'[d] \in Inserting
  BY <1>0, <1>1 DEF Inv, Types, Inserting
<1>6. \A e \in FFDBs : e # d => busy'[e] = busy[e]
  BY DEF Inv, Types
<1>7. Types'
  <2>1. rows' \in [Files -> Seq(Good)]
    BY <1>1, <1>2, <1>3, AppendProperties DEF Inv, Types
  <2>2. mtime' \in [Files -> Nat] /\ \A g \in Files : mtime'[g] > Unread
    BY <1>1, <1>4 DEF Inv, Types
  <2>3. busy' \in [FFDBs -> Inserting \cup Opening \cup {<<>>}]
    BY <1>0, <1>5 DEF Inv, Types
  <2> QED
    BY <2>1, <2>2, <2>3 DEF Inv, Types
<1>8. rows'[f] = Append(rows[f], r) /\ Len(rows'[f]) = Len(rows[f]) + 1 /\ mtime'[f] = mtime[f] + 1
  BY <1>1, <1>2, <1>3, <1>4, AppendProperties DEF Inv, Types
<1>9. \A g \in Files : g # f => rows'[g] = rows[g] /\ mtime'[g] = mtime[g]
  BY <1>3, <1>4 DEF Inv, Types
<1>10. \A op : Doing(d, op)' => op = "written"
  BY <1>1, <1>5 DEF Doing, Inserting
<1>11. ASSUME NEW e \in FFDBs, NEW g \in Files PROVE Copy(e, g)'
  <2>1. Copy(e, g) /\ stat[e][g] \in Nat /\ mtime[g] \in Nat
    BY DEF Inv, Types
  <2>2. CASE g = f
    BY <2>1, <2>2, <1>8 DEF Copy
  <2>3. CASE g # f /\ e # d
    BY <2>1, <2>3, <1>6, <1>9 DEF Copy, Doing
  <2>4. CASE g # f /\ e = d
    BY <2>1, <2>4, <1>0, <1>9 DEF Copy, Doing
  <2> QED
    BY <2>2, <2>3, <2>4
<1>12. ASSUME NEW e \in FFDBs PROVE Load(e)'
  <2>1. CASE e = d
    BY <2>1, <1>10 DEF Load
  <2>2. CASE e # d /\ Doing(e, "first")
    <3>1. busy[e] \in Opening /\ Load(e) /\ busy'[e] = busy[e] /\ ~Doing(e, "again")'
      BY <2>2, <1>6, BusyKinds DEF Inv, Doing
    <3>2. busy[e].file \in Files /\ busy[e].time \in Nat /\ busy[e].time <= mtime[busy[e].file]
      BY <3>1, <2>2 DEF Opening, Load
    <3>3. \A g \in Files : mtime[g] \in Nat /\ mtime'[g] \in Nat /\ mtime'[g] >= mtime[g]
      <4>1. mtime \in [Files -> Nat] /\ mtime' \in [Files -> Nat]
        BY <1>7 DEF Inv, Types
      <4>2. mtime'[f] = mtime[f] + 1 /\ \A g \in Files : g # f => mtime'[g] = mtime[g]
        BY <1>8, <1>9
      <4> QED
        BY <4>1, <4>2
    <3>4. busy[e].time <= mtime'[busy[e].file]
      BY <3>2, <3>3
    <3> QED
      BY <3>1, <3>4 DEF Load
  <2>3. CASE e # d /\ Doing(e, "again")
    <3>1. busy[e] \in Opening /\ Load(e) /\ busy'[e] = busy[e] /\ ~Doing(e, "first")'
      BY <2>3, <1>6, BusyKinds DEF Inv, Doing
    <3>2. busy[e].file \in Files /\ busy[e].num \in Nat
      BY <3>1 DEF Opening
    <3>3. Copy(e, busy[e].file) /\ stat[e][busy[e].file] \in Nat
      BY <3>2 DEF Inv, Types
    <3> QED
      BY <3>1, <3>2, <3>3, <2>3, <1>2, <1>8, <1>9, <1>4 DEF Load, Copy
  <2>4. CASE e # d /\ ~Doing(e, "first") /\ ~Doing(e, "again")
    BY <2>4, <1>6 DEF Load, Doing
  <2> QED
    BY <2>1, <2>2, <2>3, <2>4
<1>13. ASSUME NEW e \in Inserters, NEW g \in Files PROVE Ahead(e, g)'
  <2>1. e = d
    BY DEF Quiet
  <2>2. Ahead(d, g) /\ Copy(d, g) /\ ~Doing(d, "written") /\ ~Doing(d, "again")
    BY <1>0 DEF Inv, Doing
  <2>3. busy'[d].file = f /\ busy'[d].id = busy[d].id /\ Doing(d, "written")'
    BY <1>1, <1>5 DEF Inserting, Doing
  <2>4. stat[d][g] # 0 /\ g \notin failed[d] => stat[d][g] = mtime[g]
    BY <2>2 DEF Ahead
  <2>5. ASSUME g = f PROVE Ahead(d, g)'
    <3>1. stat[d][f] # 0 /\ f \notin failed[d] => records[d][f] = rows[f]
      BY <2>2, <2>5, <2>4 DEF Copy
    <3>2. stat'[d][f] # 0 /\ f \notin failed'[d] => rows'[f] = Append(records'[d][f], New(busy'[d].id))
      BY <3>1, <2>3, <1>8
    <3> QED
      BY <3>2, <2>3, <2>5, <1>10 DEF Ahead
  <2>6. ASSUME g # f PROVE Ahead(d, g)'
    <3>1. stat'[d][g] # 0 /\ g \notin failed'[d] => stat'[d][g] = mtime'[g]
      BY <2>6, <2>4, <1>9
    <3> QED
      BY <3>1, <2>3, <2>6, <1>10 DEF Ahead
  <2> QED
    BY <2>1, <2>5, <2>6, <1>10
<1> QED
  BY <1>7, <1>11, <1>12, <1>13 DEF Inv

\* The copy of the FFDatabase that has inserted is as its file again.
LEMMA UpdateFileStep ==
    ASSUME Inv, UNCHANGED Inserters, NEW d \in Inserters, UpdateFile(d) PROVE Inv'
<1> DEFINE f == busy[d].file
           r == New(busy[d].id)
<1>1. d \in FFDBs /\ Doing(d, "written")
  BY DEF Inv, Doing, UpdateFile
<1>2. busy[d] \in Inserting /\ f \in Files /\ busy[d].id \in Nat
  BY <1>1, BusyKinds DEF Inv, Inserting
<1>3. r \in Good
  BY <1>2 DEF New, Good
<1>4. busy' = [busy EXCEPT ![d] = <<>>] /\ UNCHANGED <<rows, mtime, written, failed>>
  BY DEF UpdateFile, disk
<1>5. busy'[d] = <<>> /\ \A op : ~Doing(d, op)'
  BY <1>1, <1>4 DEF Inv, Types, Doing
<1>6. /\ stat \in [FFDBs -> [Files -> Nat]] /\ mtime \in [Files -> Nat]
      /\ records \in [FFDBs -> [Files -> Seq(Good)]]
  BY DEF Inv, Types
<1>7. stat[d][f] # 0 /\ f \notin failed[d] => rows[f] = Append(records[d][f], r)
  BY <1>1, <1>2 DEF Inv, Ahead
<1>8. Append(records[d][f], r) \in Seq(Good) /\ mtime[f] \in Nat
  BY <1>1, <1>2, <1>3, <1>6, AppendProperties
<1>9. /\ stat' \in [FFDBs -> [Files -> Nat]]
      /\ records' \in [FFDBs -> [Files -> Seq(Good)]]
      /\ \A e \in FFDBs : e # d => stat'[e] = stat[e] /\ records'[e] = records[e]
      /\ \A g \in Files : g # f => stat'[d][g] = stat[d][g] /\ records'[d][g] = records[d][g]
      /\ stat'[d][f] # 0 => /\ stat'[d][f] = mtime[f]
                            /\ f \notin failed[d] => records'[d][f] = rows[f]
  <2>1. CASE stat[d][f] = 0
    <3>1. UNCHANGED <<stat, records>>
      BY <2>1 DEF UpdateFile, UpdateCopy
    <3> QED
      BY <2>1, <3>1, <1>1, <1>2, <1>6
  <2>2. CASE stat[d][f] # 0
    <3>1. /\ stat' = [stat EXCEPT ![d][f] = mtime[f]]
          /\ records' = [records EXCEPT ![d][f] = Append(records[d][f], r)]
      BY <2>2 DEF UpdateFile, UpdateCopy
    <3>2. /\ stat' \in [FFDBs -> [Files -> Nat]] /\ stat'[d][f] = mtime[f]
          /\ \A e \in FFDBs : e # d => stat'[e] = stat[e]
          /\ \A g \in Files : g # f => stat'[d][g] = stat[d][g]
      BY <3>1, <1>1, <1>2, <1>6, <1>8, PutAt
    <3>3. /\ records' \in [FFDBs -> [Files -> Seq(Good)]]
          /\ records'[d][f] = Append(records[d][f], r)
          /\ \A e \in FFDBs : e # d => records'[e] = records[e]
          /\ \A g \in Files : g # f => records'[d][g] = records[d][g]
      BY <3>1, <1>1, <1>2, <1>6, <1>8, PutAt
    <3> QED
      BY <2>2, <3>2, <3>3, <1>7
  <2> QED
    BY <2>1, <2>2
<1>10. Types'
  BY <1>1, <1>4, <1>9 DEF Inv, Types
<1>11. ASSUME NEW g \in Files PROVE Copy(d, g)' /\ Ahead(d, g)'
  <2>1. Copy(d, g) /\ Ahead(d, g) /\ mtime[g] > Unread /\ mtime[g] \in Nat /\ stat'[d][g] \in Nat
    BY <1>1, <1>10 DEF Inv, Types
  <2>2. ~Doing(d, "again")
    BY <1>1 DEF Doing
  <2>3. CASE g = f
    BY <2>1, <2>3, <1>4, <1>5, <1>9 DEF Copy, Ahead
  <2>4. CASE g # f
    BY <2>1, <2>2, <2>4, <1>4, <1>5, <1>9 DEF Copy, Ahead
  <2> QED
    BY <2>3, <2>4
<1>12. Load(d)'
  BY <1>5 DEF Load
<1>13. \A e \in FFDBs : e # d => /\ busy'[e] = busy[e] /\ failed'[e] = failed[e]
                                 /\ stat'[e] = stat[e] /\ records'[e] = records[e]
  BY <1>1, <1>4, <1>9 DEF Inv, Types
<1> QED
  BY <1>1, <1>4, <1>5, <1>10, <1>11, <1>12, <1>13, OthersKeep

\* Quiet: nobody inserts where rows are updated; every copy falls behind.
LEMMA UpdateStep ==
    ASSUME Quiet, Inv, UNCHANGED Inserters, NEW d \in Updaters, NEW f \in Files, NEW i \in DOMAIN rows[f],
           Update(d, f, i)
    PROVE  Inv'
<1> USE DEF Update, mem
<1>1. Inserters = {}
  BY DEF Quiet
<1>2. rows[f] \in Seq(Good) /\ mtime[f] \in Nat /\ mtime' = [mtime EXCEPT ![f] = mtime[f] + 1]
  BY DEF Inv, Types, Quiet, Stamp
<1>3. [rows[f] EXCEPT ![i].ver = 2] \in Seq(Good) /\ Len([rows[f] EXCEPT ![i].ver = 2]) = Len(rows[f])
  <2>1. rows[f][i] \in Good
    BY <1>2
  <2>2. [rows[f][i] EXCEPT !.ver = 2] \in Good
    BY <2>1 DEF Good
  <2>3. [rows[f] EXCEPT ![i] = [rows[f][i] EXCEPT !.ver = 2]] \in Seq(Good)
    BY <1>2, <2>2, ExceptSeq
  <2> QED
    BY <1>2, <2>2, <2>3
<1>4. rows' = [rows EXCEPT ![f] = [rows[f] EXCEPT ![i].ver = 2]]
  OBVIOUS
<1>5. Types'
  BY <1>2, <1>3, <1>4 DEF Inv, Types
<1>6. ASSUME NEW e \in FFDBs, NEW g \in Files PROVE Copy(e, g)'
  <2>1. Copy(e, g) /\ stat[e][g] \in Nat /\ mtime[g] \in Nat
    BY DEF Inv, Types
  <2>2. CASE g = f
    BY <2>1, <2>2, <1>2 DEF Copy, Inv, Types
  <2>3. CASE g # f
    BY <2>1, <2>3, <1>2, <1>4 DEF Copy, Doing, Inv, Types
  <2> QED
    BY <2>2, <2>3
<1>7. \A g \in Files : Len(rows'[g]) = Len(rows[g]) /\ mtime'[g] >= mtime[g] /\ (g = f \/ mtime'[g] = mtime[g])
  BY <1>2, <1>3, <1>4 DEF Inv, Types
<1>8. ASSUME NEW e \in FFDBs PROVE Load(e)'
  <2>1. Load(e) /\ busy'[e] = busy[e] /\ stat'[e] = stat[e]
    BY DEF Inv
  <2>2. CASE Doing(e, "first")
    <3>1. busy[e].file \in Files /\ busy[e].time \in Nat /\ ~Doing(e, "again")
      BY <2>2, BusyKinds DEF Inv, Opening, Doing
    <3>2. \A g \in Files : mtime[g] \in Nat /\ mtime'[g] \in Nat
      BY <1>5 DEF Inv, Types
    <3>3. busy[e].time <= mtime'[busy[e].file]
      BY <2>1, <2>2, <3>1, <3>2, <1>7 DEF Load
    <3>4. ~Doing(e, "again")'
      BY <2>1, <3>1 DEF Doing
    <3> QED
      BY <2>1, <3>3, <3>4 DEF Load
  <2>3. CASE Doing(e, "again")
    <3>1. busy[e].file \in Files /\ busy[e].num \in Nat /\ ~Doing(e, "first")
      BY <2>3, BusyKinds DEF Inv, Opening, Doing
    <3>2. Copy(e, busy[e].file) /\ stat[e][busy[e].file] \in Nat
      BY <3>1 DEF Inv, Types
    <3> QED
      BY <2>1, <2>3, <3>1, <3>2, <1>2, <1>7 DEF Load, Doing, Copy
  <2>4. CASE ~Doing(e, "first") /\ ~Doing(e, "again")
    BY <2>4 DEF Load, Doing
  <2> QED
    BY <2>2, <2>3, <2>4
<1> QED
  BY <1>1, <1>5, <1>6, <1>8 DEF Inv

\* The old copy is emptied; the FFDatabase that inserts gets here only after a
\* failure.
LEMMA OpenAgainStep ==
    ASSUME Inv, UNCHANGED Inserters, NEW d \in FFDBs, NEW q \in Queries, NEW f \in Files, OpenAgain(d, q, f)
    PROVE  Inv'
<1> DEFINE b == [op |-> "again", query |-> q, file |-> f, num |-> Len(rows[f]), time |-> mtime[f]]
<1>1. /\ stat \in [FFDBs -> [Files -> Nat]] /\ mtime[f] \in Nat /\ rows[f] \in Seq(Good)
      /\ records \in [FFDBs -> [Files -> Seq(Good)]]
  BY DEF Inv, Types
<1>2. /\ busy' = [busy EXCEPT ![d] = b] /\ UNCHANGED <<rows, mtime, written, failed>>
      /\ stat' = [stat EXCEPT ![d][f] = mtime[f]] /\ records' = [records EXCEPT ![d][f] = <<>>]
      /\ stat[d][f] # 0 /\ stat[d][f] # mtime[f] /\ busy[d] = <<>>
  BY DEF OpenAgain, disk
<1>3. busy'[d] = b /\ \A e \in FFDBs : e # d => busy'[e] = busy[e]
  BY <1>2 DEF Inv, Types
<1>4. /\ stat' \in [FFDBs -> [Files -> Nat]] /\ stat'[d][f] = mtime[f]
      /\ \A e \in FFDBs : e # d => stat'[e] = stat[e]
      /\ \A g \in Files : g # f => stat'[d][g] = stat[d][g]
  BY <1>1, <1>2, PutAt
<1>5. /\ records' \in [FFDBs -> [Files -> Seq(Good)]]
      /\ \A e \in FFDBs : e # d => records'[e] = records[e]
      /\ \A g \in Files : g # f => records'[d][g] = records[d][g]
  <2>1. <<>> \in Seq(Good)
    OBVIOUS
  <2> QED
    BY <1>1, <1>2, <2>1, PutAt
<1>6. Types'
  <2>1. b \in Opening
    BY <1>1 DEF Opening
  <2> QED
    BY <2>1, <1>2, <1>4, <1>5 DEF Inv, Types
<1>7. \A op : Doing(d, op)' <=> op = "again"
  BY <1>3 DEF Doing
<1>8. \A op : ~Doing(d, op)
  BY <1>2 DEF Doing
<1>9. ASSUME NEW g \in Files PROVE Copy(d, g)'
  <2>1. Copy(d, g)
    BY DEF Inv
  <2>2. CASE g = f
    BY <2>2, <1>1, <1>2, <1>3, <1>4, <1>7 DEF Copy
  <2>3. CASE g # f
    BY <2>1, <2>3, <1>2, <1>4, <1>5, <1>8 DEF Copy
  <2> QED
    BY <2>2, <2>3
<1>10. Load(d)'
  BY <1>1, <1>2, <1>3, <1>7 DEF Load
<1>11. ASSUME d \in Inserters, NEW g \in Files PROVE Ahead(d, g)'
  <2>1. Ahead(d, g)
    BY <1>11 DEF Inv
  <2>2. CASE g = f
    BY <2>2, <1>2, <1>3, <1>4, <1>7 DEF Ahead
  <2>3. CASE g # f
    BY <2>1, <2>3, <1>2, <1>3, <1>4, <1>7, <1>8 DEF Ahead
  <2> QED
    BY <2>2, <2>3
<1> QED
  BY <1>2, <1>3, <1>4, <1>5, <1>6, <1>9, <1>10, <1>11, OthersKeep

\* The time and the number of rows are those of one moment.
LEMMA OpenFirstStep ==
    ASSUME Inv, UNCHANGED Inserters, NEW d \in FFDBs, NEW q \in Queries, NEW f \in Files, OpenFirst(d, q, f)
    PROVE  Inv'
<1> DEFINE b == [op |-> "first", query |-> q, file |-> f, num |-> Len(rows[f]), time |-> mtime[f]]
<1>1. /\ busy' = [busy EXCEPT ![d] = b] /\ UNCHANGED <<rows, mtime, written, stat, records, failed>>
      /\ busy[d] = <<>>
  BY DEF OpenFirst, disk, mem
<1>2. busy'[d] = b /\ \A e \in FFDBs : e # d => busy'[e] = busy[e]
  BY <1>1 DEF Inv, Types
<1>3. b \in Opening
  BY DEF Inv, Types, Opening
<1>4. Types'
  BY <1>1, <1>3 DEF Inv, Types
<1>5. \A op : Doing(d, op)' <=> op = "first"
  BY <1>2 DEF Doing
<1>6. \A op : ~Doing(d, op)
  BY <1>1 DEF Doing
<1>7. \A g \in Files : Copy(d, g)'
  BY <1>1, <1>6 DEF Inv, Copy
<1>8. Load(d)'
  BY <1>1, <1>2, <1>5 DEF Load, Inv, Types
<1>9. d \in Inserters => \A g \in Files : Ahead(d, g)'
  BY <1>1, <1>2, <1>5, <1>6 DEF Inv, Ahead
<1> QED
  BY <1>1, <1>2, <1>4, <1>7, <1>8, <1>9, OthersKeep

\* The rows that were counted are all rows, if the time is still that of the file.
LEMMA LoadAgainStep ==
    ASSUME Inv, UNCHANGED Inserters, NEW d \in FFDBs, LoadAgain(d) PROVE Inv'
<1> DEFINE f == busy[d].file
           s == SubSeq(rows[f], 1, busy[d].num)
<1>1. Doing(d, "again")
  BY DEF LoadAgain, Doing
<1>2. busy[d] \in Opening /\ f \in Files /\ busy[d].num \in Nat
  BY <1>1, BusyKinds DEF Inv, Opening
<1>3. rows[f] \in Seq(Good) /\ busy[d].num <= Len(rows[f])
  BY <1>1, <1>2 DEF Inv, Types, Load
<1>4. s \in Seq(Good) /\ (busy[d].num = Len(rows[f]) => s = rows[f])
  <2>1. \A i \in 1..busy[d].num : rows[f][i] \in Good
    BY <1>2, <1>3
  <2> QED
    BY <2>1, <1>2, <1>3, SubSeqProperties, SubSeqFull
<1>5. Readable(s) = s /\ Parsed(s) = 0
  BY <1>4, ReadableGood
<1>6. /\ records' = [records EXCEPT ![d][f] = s] /\ busy' = [busy EXCEPT ![d] = <<>>]
      /\ failed' = [failed EXCEPT ![d] = failed[d] \ {f}]
      /\ UNCHANGED <<rows, mtime, written, stat>>
  BY <1>5 DEF LoadAgain, disk
<1>7. busy'[d] = <<>> /\ (\A op : ~Doing(d, op)') /\ \A e \in FFDBs : e # d => busy'[e] = busy[e]
  BY <1>6 DEF Inv, Types, Doing
<1>8. /\ records' \in [FFDBs -> [Files -> Seq(Good)]] /\ records'[d][f] = s
      /\ \A e \in FFDBs : e # d => records'[e] = records[e]
      /\ \A g \in Files : g # f => records'[d][g] = records[d][g]
  BY <1>2, <1>4, <1>6, PutAt DEF Inv, Types
<1>8a. /\ failed' \in [FFDBs -> SUBSET Files] /\ failed'[d] = failed[d] \ {f}
       /\ \A e \in FFDBs : e # d => failed'[e] = failed[e]
  BY <1>6 DEF Inv, Types
<1>9. Types'
  BY <1>6, <1>8, <1>8a DEF Inv, Types
<1>10. ASSUME NEW g \in Files PROVE Copy(d, g)'
  <2>1. Copy(d, g) /\ Load(d)
    BY DEF Inv
  <2>2. CASE g = f
    BY <2>1, <2>2, <1>1, <1>4, <1>6, <1>8 DEF Copy, Load
  <2>3. CASE g # f
    BY <2>1, <2>3, <1>6, <1>8, <1>8a DEF Copy
  <2> QED
    BY <2>2, <2>3
<1>11. Load(d)'
  BY <1>7 DEF Load
<1>12. ASSUME d \in Inserters, NEW g \in Files PROVE Ahead(d, g)'
  <2>1. Ahead(d, g) /\ ~Doing(d, "written")
    BY <1>1, <1>12 DEF Inv, Doing
  <2>2. CASE g = f
    BY <2>1, <2>2, <1>1, <1>6, <1>7 DEF Ahead
  <2>3. CASE g # f
    BY <2>1, <2>3, <1>6, <1>7, <1>8a DEF Ahead
  <2> QED
    BY <2>2, <2>3
<1> QED
  BY <1>6, <1>7, <1>8, <1>8a, <1>9, <1>10, <1>11, <1>12, OthersKeep

\* A first copy may be newer than its time, never older.
LEMMA LoadFirstStep ==
    ASSUME Inv, UNCHANGED Inserters, NEW d \in FFDBs, LoadFirst(d) PROVE Inv'
<1> DEFINE f == busy[d].file
<1>1. Doing(d, "first") /\ ~Doing(d, "again") /\ ~Doing(d, "written")
  BY DEF LoadFirst, Doing
<1>2. busy[d] \in Opening /\ f \in Files /\ busy[d].time \in Nat
  BY <1>1, BusyKinds DEF Inv, Opening
<1>3. rows[f] \in Seq(Good) /\ busy[d].time <= mtime[f]
  BY <1>1, <1>2 DEF Inv, Types, Load
<1>4. Parsed(rows[f]) = 0
  BY <1>3, ReadableGood
<1>5. /\ records' = [records EXCEPT ![d][f] = rows[f]] /\ busy' = [busy EXCEPT ![d] = <<>>]
      /\ stat' = [stat EXCEPT ![d][f] = busy[d].time]
      /\ failed' = [failed EXCEPT ![d] = failed[d] \ {f}]
      /\ UNCHANGED <<rows, mtime, written>>
  BY <1>4 DEF LoadFirst, disk
<1>6. busy'[d] = <<>> /\ (\A op : ~Doing(d, op)') /\ \A e \in FFDBs : e # d => busy'[e] = busy[e]
  BY <1>5 DEF Inv, Types, Doing
<1>7. /\ records' \in [FFDBs -> [Files -> Seq(Good)]] /\ records'[d][f] = rows[f]
      /\ \A e \in FFDBs : e # d => records'[e] = records[e]
      /\ \A g \in Files : g # f => records'[d][g] = records[d][g]
  BY <1>2, <1>3, <1>5, PutAt DEF Inv, Types
<1>8. /\ stat' \in [FFDBs -> [Files -> Nat]] /\ stat'[d][f] = busy[d].time
      /\ \A e \in FFDBs : e # d => stat'[e] = stat[e]
      /\ \A g \in Files : g # f => stat'[d][g] = stat[d][g]
  BY <1>2, <1>5, PutAt DEF Inv, Types
<1>8a. /\ failed' \in [FFDBs -> SUBSET Files] /\ failed'[d] = failed[d] \ {f}
       /\ \A e \in FFDBs : e # d => failed'[e] = failed[e]
  BY <1>5 DEF Inv, Types
<1>9. Types'
  BY <1>5, <1>7, <1>8, <1>8a DEF Inv, Types
<1>10. ASSUME NEW g \in Files PROVE Copy(d, g)'
  <2>1. Copy(d, g)
    BY DEF Inv
  <2>2. CASE g = f
    BY <2>2, <1>3, <1>5, <1>7, <1>8 DEF Copy
  <2>3. CASE g # f
    BY <2>1, <2>3, <1>1, <1>5, <1>7, <1>8, <1>8a DEF Copy
  <2> QED
    BY <2>2, <2>3
<1>11. Load(d)'
  BY <1>6 DEF Load
<1>12. ASSUME d \in Inserters, NEW g \in Files PROVE Ahead(d, g)'
  <2>1. Ahead(d, g)
    BY <1>12 DEF Inv
  <2>2. CASE g = f
    BY <2>1, <2>2, <1>1, <1>5, <1>6, <1>8 DEF Ahead
  <2>3. CASE g # f
    BY <2>1, <2>3, <1>1, <1>5, <1>6, <1>8, <1>8a DEF Ahead
  <2> QED
    BY <2>2, <2>3
<1> QED
  BY <1>5, <1>6, <1>7, <1>8, <1>8a, <1>9, <1>10, <1>11, <1>12, OthersKeep

\* No copies are left.
LEMMA ClearStep ==
    ASSUME Inv, UNCHANGED Inserters, NEW d \in FFDBs, Clear(d) PROVE Inv'
<1>1. busy[d] = <<>> /\ UNCHANGED <<rows, mtime, written, busy>>
  BY DEF Clear, disk
<1>2. \A op : ~Doing(d, op) /\ ~Doing(d, op)'
  BY <1>1 DEF Doing
<1>3. /\ stat' = [stat EXCEPT ![d] = [f \in Files |-> 0]]
      /\ records' = [records EXCEPT ![d] = [f \in Files |-> <<>>]]
      /\ failed' = [failed EXCEPT ![d] = {}]
  BY DEF Clear
<1>4. /\ [f \in Files |-> 0] \in [Files -> Nat] /\ [f \in Files |-> <<>>] \in [Files -> Seq(Good)]
  OBVIOUS
<1>5. /\ stat' \in [FFDBs -> [Files -> Nat]] /\ \A g \in Files : stat'[d][g] = 0
      /\ \A e \in FFDBs : e # d => stat'[e] = stat[e]
  BY <1>3, <1>4 DEF Inv, Types
<1>6. /\ records' \in [FFDBs -> [Files -> Seq(Good)]]
      /\ \A e \in FFDBs : e # d => records'[e] = records[e]
  BY <1>3, <1>4 DEF Inv, Types
<1>6a. /\ failed' \in [FFDBs -> SUBSET Files]
       /\ \A e \in FFDBs : e # d => failed'[e] = failed[e]
  BY <1>3 DEF Inv, Types
<1>7. Types'
  BY <1>1, <1>5, <1>6, <1>6a DEF Inv, Types
<1>8. \A g \in Files : mtime[g] \in Nat /\ mtime[g] > Unread
  BY DEF Inv, Types
<1>9. \A g \in Files : Copy(d, g)' /\ Ahead(d, g)'
  BY <1>1, <1>2, <1>5, <1>8 DEF Copy, Ahead
<1>10. Load(d)'
  BY <1>2 DEF Load
<1> QED
  BY <1>1, <1>2, <1>5, <1>6, <1>6a, <1>7, <1>9, <1>10, OthersKeep

\* A failure leaves d idle: the copy that it was about need not be current, and
\* the others are as they were.
LEMMA FailedCopy ==
    ASSUME Inv, UNCHANGED <<Inserters, rows, mtime>>, Types', NEW d \in FFDBs, NEW f \in Files,
           busy[d] # <<>> => busy[d].file = f,
           busy'[d] = <<>>, failed'[d] = failed[d] \cup {f}, stat'[d][f] <= mtime[f],
           \A g \in Files : g # f => stat'[d][g] = stat[d][g] /\ records'[d][g] = records[d][g],
           \A e \in FFDBs : e # d => /\ busy'[e] = busy[e]
                                     /\ stat'[e] = stat[e] /\ records'[e] = records[e]
                                     /\ failed'[e] = failed[e]
    PROVE  Inv'
<1>1. \A op : ~Doing(d, op)'
  BY DEF Doing
<1>2. \A op : \A g : g # f => ~(Doing(d, op) /\ busy[d].file = g)
  BY DEF Doing
<1>3. ASSUME NEW g \in Files PROVE Copy(d, g)'
  <2>1. Copy(d, g)
    BY DEF Inv
  <2> QED
    BY <2>1, <1>2 DEF Copy
<1>4. Load(d)'
  BY <1>1 DEF Load
<1>5. ASSUME d \in Inserters, NEW g \in Files PROVE Ahead(d, g)'
  <2>1. Ahead(d, g)
    BY <1>5 DEF Inv
  <2> QED
    BY <2>1, <1>1, <1>2 DEF Ahead
<1> QED
  BY <1>3, <1>4, <1>5, OthersKeep

\* A failure that leaves all copies alone.
LEMMA FailedNothing ==
    ASSUME Inv, UNCHANGED <<Inserters, rows, mtime, written, mem>>, NEW d \in FFDBs,
           ~Doing(d, "written"), ~Doing(d, "again"), busy' = [busy EXCEPT ![d] = <<>>]
    PROVE  Inv'
<1>1. UNCHANGED <<stat, records, failed>>
  BY DEF mem
<1>2. Types' /\ busy'[d] = <<>> /\ \A e \in FFDBs : e # d => busy'[e] = busy[e]
  BY <1>1 DEF Inv, Types
<1>3. \A op : ~Doing(d, op)'
  BY <1>2 DEF Doing
<1>4. \A g \in Files : Copy(d, g)'
  BY <1>1, <1>3 DEF Inv, Copy
<1>5. Load(d)'
  BY <1>3 DEF Load
<1>6. d \in Inserters => \A g \in Files : Ahead(d, g)'
  BY <1>1, <1>3 DEF Inv, Ahead
<1> QED
  BY <1>1, <1>2, <1>4, <1>5, <1>6, OthersKeep

LEMMA FaultStep ==
    ASSUME Inv, UNCHANGED Inserters, NEW d \in FFDBs, Fault(d) PROVE Inv'
<1>0. /\ stat \in [FFDBs -> [Files -> Nat]] /\ mtime \in [Files -> Nat]
      /\ records \in [FFDBs -> [Files -> Seq(Good)]] /\ failed \in [FFDBs -> SUBSET Files]
      /\ busy \in [FFDBs -> Inserting \cup Opening \cup {<<>>}]
  BY DEF Inv, Types
<1>1. ASSUME NEW f \in Files, Fails(d, f)
      PROVE  /\ failed' \in [FFDBs -> SUBSET Files] /\ failed'[d] = failed[d] \cup {f}
             /\ \A e \in FFDBs : e # d => failed'[e] = failed[e]
  BY <1>0, <1>1 DEF Fails
<1>2. ASSUME busy' = [busy EXCEPT ![d] = <<>>]
      PROVE  /\ busy' \in [FFDBs -> Inserting \cup Opening \cup {<<>>}] /\ busy'[d] = <<>>
             /\ \A e \in FFDBs : e # d => busy'[e] = busy[e]
  BY <1>0, <1>2
<1>3. ASSUME NEW f \in Files, NEW r \in Good, records' = [records EXCEPT ![d][f] = Append(@, r)]
      PROVE  /\ records' \in [FFDBs -> [Files -> Seq(Good)]]
             /\ \A e \in FFDBs : e # d => records'[e] = records[e]
             /\ \A g \in Files : g # f => records'[d][g] = records[d][g]
  <2>1. Append(records[d][f], r) \in Seq(Good)
    BY <1>0, AppendProperties
  <2> QED
    BY <2>1, <1>0, <1>3, PutAt
<1>4. \A f \in Files : Copy(d, f) /\ mtime[f] \in Nat /\ mtime[f] > Unread
  BY DEF Inv, Types
<1>5. ASSUME Doing(d, "seek") \/ Doing(d, "written")
      PROVE  busy[d].file \in Files /\ New(busy[d].id) \in Good
  <2>1. busy[d] \in Inserting
    BY <1>5, BusyKinds DEF Inv
  <2> QED
    BY <2>1 DEF Inserting, New, Good
<1>6. CASE UpdateFileFails(d)
  <2>1. Doing(d, "written") /\ busy' = [busy EXCEPT ![d] = <<>>] /\ UNCHANGED <<rows, mtime, written, stat>>
    BY <1>6 DEF UpdateFileFails, Doing, disk
  <2>2. PICK f \in Files : f = busy[d].file
    BY <2>1, <1>5
  <2>3. PICK r \in Good : r = New(busy[d].id)
    BY <2>1, <1>5
  <2>4. records' = [records EXCEPT ![d][f] = Append(@, r)] /\ Fails(d, f)
    BY <1>6, <2>2, <2>3 DEF UpdateFileFails
  <2>5. Types'
    BY <2>1, <2>4, <1>1, <1>2, <1>3 DEF Inv, Types
  <2> QED
    BY <2>1, <2>2, <2>4, <2>5, <1>1, <1>2, <1>3, <1>4, FailedCopy DEF Copy
<1>7. CASE InsertFails(d)
  <2>1. Doing(d, "seek") /\ busy' = [busy EXCEPT ![d] = <<>>] /\ UNCHANGED <<rows, mtime, written, memRecords>>
    BY <1>7 DEF InsertFails, Doing, disk
  <2>2. CASE UNCHANGED <<stat, records, failed>>
    <3>1. UNCHANGED mem /\ ~Doing(d, "written") /\ ~Doing(d, "again")
      BY <2>1, <2>2 DEF mem, Doing
    <3> QED
      BY <2>1, <3>1, FailedNothing
  <2>3. CASE UpdateCopy(d) /\ Fails(d, busy[d].file)
    <3>2. PICK f \in Files : f = busy[d].file
      BY <2>1, <1>5
    <3>3. PICK r \in Good : r = New(busy[d].id)
      BY <2>1, <1>5
    <3>4. CASE stat[d][f] = Absent
      <4>1. UNCHANGED <<stat, records>>
        BY <2>3, <3>2, <3>4 DEF UpdateCopy
      <4>2. Types'
        BY <2>1, <2>3, <3>2, <4>1, <1>1, <1>2 DEF Inv, Types
      <4> QED
        BY <2>1, <2>3, <3>2, <4>1, <4>2, <1>1, <1>2, <1>4, FailedCopy DEF Copy
    <3>5. CASE stat[d][f] # Absent
      <4>1. records' = [records EXCEPT ![d][f] = Append(@, r)] /\ stat' = [stat EXCEPT ![d][f] = mtime[f]]
        BY <2>3, <3>2, <3>3, <3>5 DEF UpdateCopy
      <4>2. /\ stat' \in [FFDBs -> [Files -> Nat]] /\ stat'[d][f] = mtime[f]
            /\ \A e \in FFDBs : e # d => stat'[e] = stat[e]
            /\ \A g \in Files : g # f => stat'[d][g] = stat[d][g]
        BY <4>1, <1>0, <1>4, PutAt
      <4>3. Types'
        BY <2>1, <2>3, <3>2, <4>1, <4>2, <1>1, <1>2, <1>3 DEF Inv, Types
      <4> QED
        BY <2>1, <2>3, <3>2, <4>1, <4>2, <4>3, <1>1, <1>2, <1>3, <1>4, FailedCopy
    <3> QED
      BY <3>4, <3>5
  <2> QED
    BY <1>7, <2>2, <2>3 DEF InsertFails
<1>8. CASE LoadFails(d)
  <2>1. /\ busy[d] # <<>> /\ busy' = [busy EXCEPT ![d] = <<>>]
        /\ UNCHANGED <<rows, mtime, written, stat, records, memRecords>>
    BY <1>8 DEF LoadFails, disk
  <2>2. CASE busy[d].op = "first" /\ UNCHANGED failed
    <3>1. UNCHANGED mem /\ ~Doing(d, "written") /\ ~Doing(d, "again")
      BY <2>1, <2>2 DEF mem, Doing
    <3> QED
      BY <2>1, <3>1, FailedNothing
  <2>3. CASE busy[d].op = "again" /\ Fails(d, busy[d].file)
    <3>1. Doing(d, "again")
      BY <2>1, <2>3 DEF Doing
    <3>2. PICK f \in Files : f = busy[d].file
      BY <3>1, BusyKinds DEF Inv, Opening
    <3>3. Types'
      BY <2>1, <2>3, <3>2, <1>1, <1>2 DEF Inv, Types
    <3> QED
      BY <2>1, <2>3, <3>2, <3>3, <1>1, <1>2, <1>4, FailedCopy DEF Copy
  <2> QED
    BY <1>8, <2>2, <2>3 DEF LoadFails
<1>9. ASSUME NEW q \in Queries, NEW f \in Files, OpenFails(d, q, f) PROVE Inv'
  <2>1. /\ busy[d] = <<>> /\ UNCHANGED <<rows, mtime, written, busy>> /\ Fails(d, f)
        /\ stat' = [stat EXCEPT ![d][f] = Unread] /\ records' = [records EXCEPT ![d][f] = <<>>]
    BY <1>9 DEF OpenFails, disk
  <2>2. /\ stat' \in [FFDBs -> [Files -> Nat]] /\ stat'[d][f] = Unread
        /\ \A e \in FFDBs : e # d => stat'[e] = stat[e]
        /\ \A g \in Files : g # f => stat'[d][g] = stat[d][g]
    <3>1. Unread \in Nat
      OBVIOUS
    <3> QED
      BY <2>1, <3>1, <1>0, PutAt
  <2>3. /\ records' \in [FFDBs -> [Files -> Seq(Good)]]
        /\ \A e \in FFDBs : e # d => records'[e] = records[e]
        /\ \A g \in Files : g # f => records'[d][g] = records[d][g]
    <3>1. <<>> \in Seq(Good)
      OBVIOUS
    <3> QED
      BY <2>1, <3>1, <1>0, PutAt
  <2>4. Types'
    BY <2>1, <2>2, <2>3, <1>1 DEF Inv, Types
  <2>5. stat'[d][f] <= mtime[f]
    BY <2>2, <1>4
  <2> QED
    BY <2>1, <2>2, <2>3, <2>4, <2>5, <1>1, FailedCopy
<1> QED
  BY <1>6, <1>7, <1>8, <1>9 DEF Fault

\* Every step keeps the invariant.
LEMMA NextInv == ASSUME Quiet, Inv, [Next]_vars PROVE Quiet' /\ Inv'
<1>0. UNCHANGED setup
  BY DEF Next, vars
<1>0a. UNCHANGED Inserters /\ Quiet'
  BY <1>0 DEF Inserters, Quiet, Ticks, Malformed, Updaters
<1> USE <1>0a
<1>1. CASE UNCHANGED vars
  BY <1>1, QueryStep DEF vars
<1>2. CASE Tick
  BY <1>2 DEF Tick, Quiet
<1>3. ASSUME NEW f \in Files, EditByHand(f) PROVE Inv'
  BY <1>3 DEF EditByHand, Quiet
<1>4. ASSUME NEW d \in Inserters, Insert(d) PROVE Inv'
  BY <1>4, InsertSeekStep, InsertWriteStep, UpdateFileStep DEF Insert
<1>5. ASSUME NEW d \in Updaters, NEW f \in Files, NEW i \in DOMAIN rows[f], Update(d, f, i)
      PROVE  Inv'
  BY <1>5, UpdateStep
<1>6. ASSUME NEW d \in FFDBs, NEW q \in Queries, NEW f \in Files, Open(d, q, f) PROVE Inv'
  <2>1. CASE OpenHit(d, q, f) \/ OpenStream(d, q, f)
    BY <2>1, QueryStep DEF OpenHit, OpenStream
  <2> QED
    BY <1>6, <2>1, OpenAgainStep, OpenFirstStep DEF Open
<1>7. ASSUME NEW d \in FFDBs, NEW q \in Queries, ReadRow(d, q) \/ ReadEnd(d, q) \/ ReadStop(d, q)
      PROVE  Inv'
  BY <1>7, QueryStep DEF ReadRow, ReadEnd, ReadStop
<1>8. ASSUME NEW d \in FFDBs, LoadAgain(d) \/ LoadFirst(d) \/ Clear(d) PROVE Inv'
  BY <1>8, LoadAgainStep, LoadFirstStep, ClearStep
<1>9. ASSUME NEW d \in FFDBs, Fault(d) PROVE Inv'
  BY <1>9, FaultStep
<1> QED
  BY <1>1, <1>2, <1>3, <1>4, <1>5, <1>6, <1>7, <1>8, <1>9 DEF Next, Step

\* Coherent in every Quiet setup: openFile never uses a copy that differs from its
\* file, in any number of FFDatabases and queries, whatever they do between two
\* rows: the time that readFile compares (st_mtime) tells every write apart.
\* Where stat, fopen and writes fail, this is so for every copy that was read, or
\* made, after its last failure.
THEOREM Coherence == Spec => []Coherent
<1> DEFINE QInv == Quiet => Inv
<1>1. Init => QInv
  BY InitInv
<1>2. QInv /\ [Next]_vars => QInv'
  <2> SUFFICES ASSUME QInv, [Next]_vars, Quiet' PROVE Inv'
    OBVIOUS
  <2>1. UNCHANGED setup
    BY DEF Next, vars
  <2>2. Quiet
    BY <2>1 DEF Quiet, Inserters, Ticks, Malformed, Updaters
  <2> QED
    BY <2>2, NextInv
<1>3. QInv => Coherent
  BY DEF Inv, Copy, Current, Coherent, Doing
<1> QED
  BY <1>1, <1>2, <1>3, PTL DEF Spec

-----------------------------------------------------------------------------
(* Whatever the setup: types, the order of rows, and how many rows there are *)

\* The type invariant, and what keeps a load inside its file: files never get
\* shorter.
Shape ==
    /\ TypeOK
    /\ \A d \in FFDBs : Doing(d, "first") \/ Doing(d, "again") =>
                            busy[d].num <= Len(rows[busy[d].file])

\* The rows of a file that can be parsed, and that readFile would read i rows.
Valid(f) == {j \in DOMAIN rows[f] : rows[f][j].ver # 0}
Prefix(f, i) == 1..i \subseteq Valid(f)

\* The row with this id stands in the file, not before place i.
Stands(f, i, id) == \E j \in Valid(f) : i <= j /\ rows[f][j].id = id

\* Later rows have larger ids.
RowsOrder(f) ==
    /\ \A i, j \in Valid(f) : i < j => rows[f][i].id < rows[f][j].id
    /\ \A i \in Valid(f) : rows[f][i].id \in 1..written

\* The row of an insert goes behind all others; until updateFile is done, the
\* FFDatabase has not seen it.
InsertOrder(d) ==
    /\ Doing(d, "seek") \/ Doing(d, "written") => d \in Inserters /\ busy[d].id \in 1..written
    /\ Doing(d, "seek") =>
          LET f == busy[d].file
          IN  /\ busy[d].pos \in 1..Len(rows[f]) + 1
              /\ \A j \in Valid(f) : j < busy[d].pos /\ rows[f][j].id < busy[d].id
    /\ Doing(d, "written") =>
          LET f == busy[d].file
          IN  /\ busy[d].pos \in Valid(f) /\ rows[f][busy[d].pos].id = busy[d].id
              /\ \A j \in Valid(f) : j <= busy[d].pos
              /\ \A i \in DOMAIN records[d][f] : records[d][f][i].id < busy[d].id
              /\ \A q \in Queries : query[d][q] # <<>> /\ query[d][q].file = f =>
                                        query[d][q].last < busy[d].id

\* A copy has the rows of its file, though not always all; as far as the file
\* can be parsed, they stand at the same places.
CopyOrder(d, f) ==
    /\ \A i, j \in DOMAIN records[d][f] : i < j => records[d][f][i].id < records[d][f][j].id
    /\ \A i \in DOMAIN records[d][f] :
          /\ Stands(f, i, records[d][f][i].id)
          /\ Prefix(f, i) => rows[f][i].id = records[d][f][i].id

\* The FFDatabase that inserts has all rows up to the first malformed one in its
\* copy, or will have read them: the next row that it adds is the next of the file.
Cover(d, f) == d \in Inserters /\ stat[d][f] # 0 =>
    \A i \in Valid(f) : Prefix(f, i) =>
        IF Doing(d, "again") /\ busy[d].file = f THEN i <= busy[d].num
        ELSE \/ i <= Len(records[d][f])
             \/ Doing(d, "written") /\ busy[d].file = f /\ i = busy[d].pos

\* What a query has before it comes behind what it has read, also in the rows
\* that the copy will have when the file is read again.
CursorOrder(d, c) ==
    /\ c.last # 0 => Stands(c.file, 1, c.last)
    /\ c.src = "fp" => \A i \in Valid(c.file) : i > c.pos => rows[c.file][i].id > c.last
    /\ c.src = "own" =>
          /\ \A i \in DOMAIN c.own : i > c.pos => c.own[i].id > c.last
          /\ \A i, j \in DOMAIN c.own : i < j => c.own[i].id < c.own[j].id
          /\ \A i \in DOMAIN c.own : Stands(c.file, i, c.own[i].id)
    /\ c.src = "mem" =>
          /\ \A i \in Valid(c.file) :
                i > c.pos /\ Prefix(c.file, i) => rows[c.file][i].id > c.last
          /\ \A i \in DOMAIN records[d][c.file] :
                i > c.pos => records[d][c.file][i].id > c.last

QueryOrder(d, q) == query[d][q] # <<>> => CursorOrder(d, query[d][q])

OrderInv ==
    /\ \A f \in Files : RowsOrder(f)
    /\ \A d \in FFDBs : InsertOrder(d)
    /\ \A d \in FFDBs, f \in Files : CopyOrder(d, f) /\ Cover(d, f)
    /\ \A d \in FFDBs, q \in Queries : QueryOrder(d, q)

\* The rows that a copy has, or will have when it is read again.
Has(d, f) == IF Doing(d, "again") /\ busy[d].file = f THEN busy[d].num ELSE Len(records[d][f])

\* No failure has touched the copy, or the file is being read again.
Intact(d, f) == f \notin failed[d] \/ (Doing(d, "again") /\ busy[d].file = f)

\* A query has before it the rows that openFile counted.
Before(d, q) == query[d][q] # <<>> =>
    LET c == query[d][q]
    IN  /\ c.num <= Len(rows[c.file])
        /\ ~Faulty /\ c.src = "own" => c.num <= Len(c.own)
        /\ c.src = "mem" /\ Intact(d, c.file) => c.num <= Has(d, c.file)

\* A copy that is used as it is has all rows: it belongs to the only FFDatabase
\* that inserts, or its time would tell.
Complete(d, f) == stat[d][f] # 0 /\ Intact(d, f) =>
    /\ Inserters \subseteq {d} =>
          \/ Len(rows[f]) <= Has(d, f)
          \/ Doing(d, "written") /\ busy[d].file = f /\ Len(rows[f]) = Has(d, f) + 1
    /\ ~Ticks /\ d \notin Inserters =>
          stat[d][f] <= mtime[f] /\ (stat[d][f] = mtime[f] => Len(rows[f]) <= Has(d, f))

CountInv ==
    /\ \A f \in Files : Valid(f) = DOMAIN rows[f]
    /\ \A d \in FFDBs : ~Ticks /\ Doing(d, "first") => busy[d].time <= mtime[busy[d].file]
    /\ \A d \in FFDBs, f \in Files : Complete(d, f)
    /\ \A d \in FFDBs, q \in Queries : Before(d, q)
    /\ ~Faulty => \A d \in FFDBs : failed[d] = {}

CacheInv == /\ Shape
            /\ ~Faulty /\ OneInserter => OrderInv
            /\ ~Malformed /\ OneInserter /\ InsertsShow => CountInv

-----------------------------------------------------------------------------
(* What readFile takes from a file *)

\* A set of numbers that is not empty has a least one.
LEMMA Least ==
    ASSUME NEW T \in SUBSET Nat, T # {} PROVE \E m \in T : \A k \in T : m <= k
<1> DEFINE R == {ss \in Nat \X Nat : ss[1] < ss[2]}
<1>1. IsWellFoundedOn(R, Nat)
  BY NatLessThanWellFounded DEF OpToRel
<1> HIDE DEF R
<1>2. PICK m \in T : \A k \in T : ~(<<k, m>> \in R)
  BY <1>1, WFMin
<1>3. \A k \in T : ~(k < m)
  BY <1>2 DEF R
<1> QED
  BY <1>3

\* Parsed: the place of the first malformed row, 0 if there is none.
LEMMA ParsedPlace ==
    ASSUME NEW s \in Seq(Row)
    PROVE  \/ Parsed(s) = 0 /\ \A i \in DOMAIN s : s[i].ver # 0
           \/ /\ Parsed(s) \in DOMAIN s /\ s[Parsed(s)].ver = 0
              /\ \A i \in 1..Parsed(s) - 1 : s[i].ver # 0
<1> DEFINE I == {i \in 1..Len(s) : s[i].ver = 0}
<1>1. CASE I = {}
  <2>1. Parsed(s) = 0
    BY <1>1 DEF Parsed, SelectInSeq
  <2> QED
    BY <1>1, <2>1
<1>2. CASE I # {}
  <2>1. I \in SUBSET Nat
    OBVIOUS
  <2>2. \E m \in I : \A k \in I : m <= k
    BY <1>2, <2>1, Least
  <2>3. Parsed(s) = CHOOSE x \in I : \A y \in I : x <= y
    BY <1>2 DEF Parsed, SelectInSeq, Min
  <2> HIDE DEF I
  <2>4. Parsed(s) \in I /\ \A k \in I : Parsed(s) <= k
    BY <2>2, <2>3
  <2> USE DEF I
  <2>5. Parsed(s) \in 1..Len(s) /\ s[Parsed(s)].ver = 0
    BY <2>4
  <2>6. ASSUME NEW i \in 1..Parsed(s) - 1 PROVE s[i].ver # 0
    <3>1. i \in 1..Len(s) /\ ~(Parsed(s) <= i)
      BY <2>5
    <3> QED
      BY <2>4, <3>1
  <2> QED
    BY <2>5, <2>6
<1> QED
  BY <1>1, <1>2

\* Readable: the longest part, from the first row on, without a malformed row.
LEMMA ReadableRows ==
    ASSUME NEW s \in Seq(Row)
    PROVE  /\ Readable(s) \in Seq(Row)
           /\ \A i \in DOMAIN Readable(s) : i \in DOMAIN s /\ Readable(s)[i] = s[i] /\ s[i].ver # 0
           /\ \A n \in DOMAIN s : (\A i \in 1..n : s[i].ver # 0) => n <= Len(Readable(s))
           /\ Parsed(s) = 0 => Readable(s) = s /\ \A i \in DOMAIN s : s[i].ver # 0
<1>1. CASE Parsed(s) = 0
  <2>1. Readable(s) = s /\ \A i \in DOMAIN s : s[i].ver # 0
    BY <1>1, ParsedPlace DEF Readable
  <2> QED
    BY <2>1
<1>2. CASE Parsed(s) # 0
  <2> DEFINE p == Parsed(s)
  <2>1. p \in 1..Len(s) /\ s[p].ver = 0 /\ \A i \in 1..p - 1 : s[i].ver # 0
    BY <1>2, ParsedPlace
  <2>2. Readable(s) = SubSeq(s, 1, p - 1)
    BY <1>2 DEF Readable
  <2> HIDE DEF p
  <2>3. \A i \in 1..p - 1 : s[i] \in Row
    BY <2>1
  <2>4. /\ SubSeq(s, 1, p - 1) \in Seq(Row) /\ Len(SubSeq(s, 1, p - 1)) = p - 1
        /\ \A i \in 1..p - 1 : SubSeq(s, 1, p - 1)[i] = s[i]
    <3>1. p - 1 \in Int /\ p \in Int
      BY <2>1
    <3> QED
      BY <2>1, <2>3, <3>1, SubSeqProperties
  <2>5. DOMAIN Readable(s) = 1..p - 1 /\ Len(Readable(s)) = p - 1
    BY <2>2, <2>4
  <2>6. ASSUME NEW n \in DOMAIN s, \A i \in 1..n : s[i].ver # 0 PROVE n <= p - 1
    BY <2>1, <2>6
  <2> QED
    BY <1>2, <2>1, <2>2, <2>4, <2>5, <2>6
<1> QED
  BY <1>1, <1>2

-----------------------------------------------------------------------------
(* Types *)

\* What a query has open, and what it has before it.
LEMMA CursorType ==
    ASSUME TypeOK, NEW d \in FFDBs, NEW q \in Queries, query[d][q] # <<>>
    PROVE  /\ query[d][q] \in Reading
           /\ Source(d, q) \in Seq(Row)
           /\ \A v \in Seq(Row) : [query[d][q] EXCEPT !.src = "own", !.own = v] \in Reading
           /\ \A n, m \in Nat : [query[d][q] EXCEPT !.pos = n, !.last = m] \in Reading
<1>1. query[d][q] \in Reading
  BY DEF TypeOK, Reading
<1>2. query[d][q].file \in Files /\ query[d][q].own \in Seq(Row) /\ query[d][q].src \in {"mem", "own", "fp"}
  BY <1>1 DEF Reading
<1>3. Source(d, q) \in Seq(Row)
  BY <1>2 DEF Source, TypeOK
<1> QED
  BY <1>1, <1>3 DEF Reading

\* What stands in busy.
LEMMA BusyType ==
    ASSUME TypeOK, NEW d \in FFDBs
    PROVE  /\ Doing(d, "seek") \/ Doing(d, "written") => busy[d] \in Inserting
           /\ Doing(d, "first") \/ Doing(d, "again") => busy[d] \in Opening
           /\ busy[d] = <<>> => \A op : ~Doing(d, op)
  BY DEF TypeOK, Doing, Inserting, Opening

\* A new cursor.
LEMMA CursorNew ==
    ASSUME NEW f \in Files, NEW s \in {"mem", "fp"}, NEW n \in Nat PROVE Cursor(f, s, n) \in Reading
  BY DEF Cursor, Reading

LEMMA ReadingIsOpen == ASSUME NEW c \in Reading PROVE c # <<>>
<1>1. "file" \in DOMAIN c
  BY DEF Reading
<1>2. DOMAIN <<>> = {}
  OBVIOUS
<1> QED
  BY <1>1, <1>2

\* The setup is one of those that the constant allows.
LEMMA SetupType ==
    ASSUME setup \in Setups
    PROVE  /\ Inserters \subseteq FFDBs /\ Updaters \subseteq FFDBs /\ Readers \subseteq FFDBs
           /\ Ticks \in BOOLEAN /\ Malformed \in BOOLEAN /\ Faulty \in BOOLEAN
           /\ setup.first \in Nat
  BY SetupsAssumption DEF Setup, Inserters, Updaters, Readers, Ticks, Malformed, Faulty

LEMMA ShapeInit == Init => Shape
<1> SUFFICES ASSUME Init PROVE Shape
  OBVIOUS
<1>1. setup.first \in Nat
  BY SetupType DEF Init
<1>2. \A i \in 1..setup.first : New(i) \in Row
  BY <1>1 DEF New, Row
<1> DEFINE s == [i \in 1..setup.first |-> New(i)]
<1>3. s \in Seq(Row)
  BY <1>1, <1>2
<1>4. rows = [f \in Files |-> s]
  BY DEF Init
<1> HIDE DEF s
<1>5. rows \in [Files -> Seq(Row)]
  BY <1>3, <1>4
<1>6. <<>> \in Seq(Row)
  OBVIOUS
<1>7. TypeOK
  BY <1>1, <1>5, <1>6 DEF Init, TypeOK
<1> QED
  BY <1>7 DEF Shape, Doing, Init

\* A write leaves every file as long as it was, or longer.
Longer == \A f \in Files : Len(rows'[f]) >= Len(rows[f])

\* The steps that write a row.
LEMMA WriteShape ==
    ASSUME Shape,
           \/ \E f \in Files : EditByHand(f)
           \/ \E d \in Inserters : InsertWrite(d)
           \/ \E d \in Updaters, f \in Files : \E i \in DOMAIN rows[f] : Update(d, f, i)
    PROVE  rows' \in [Files -> Seq(Row)] /\ mtime' \in [Files -> Nat] /\ Longer
<1>0. rows \in [Files -> Seq(Row)] /\ mtime \in [Files -> Nat] /\ now \in Nat /\ written \in Nat
  BY DEF Shape, TypeOK
<1>1. \A f \in Files : Stamp(f) \in Nat
  BY <1>0 DEF Stamp
<1>2. ASSUME NEW f \in Files, EditByHand(f) PROVE rows' \in [Files -> Seq(Row)] /\ mtime' \in [Files -> Nat] /\ Longer
  <2> DEFINE r == [id |-> written + 1, ver |-> 0]
  <2>1. r \in Row /\ rows[f] \in Seq(Row)
    BY <1>0 DEF Row
  <2>2. rows' = [rows EXCEPT ![f] = Append(rows[f], r)] /\ mtime' = [mtime EXCEPT ![f] = Stamp(f)]
    BY <1>2 DEF EditByHand
  <2>3. Append(rows[f], r) \in Seq(Row) /\ Len(Append(rows[f], r)) = Len(rows[f]) + 1
    BY <2>1, AppendProperties
  <2> QED
    BY <1>0, <1>1, <2>2, <2>3 DEF Longer
<1>3. ASSUME NEW d \in Inserters, InsertWrite(d) PROVE rows' \in [Files -> Seq(Row)] /\ mtime' \in [Files -> Nat] /\ Longer
  <2> DEFINE f == busy[d].file
             r == New(busy[d].id)
             p == busy[d].pos
             s == IF p > Len(rows[f]) THEN Append(rows[f], r) ELSE ReplaceAt(rows[f], p, r)
  <2>1. d \in FFDBs /\ Doing(d, "seek")
    BY <1>3, SetupType DEF InsertWrite, Doing, Shape, TypeOK
  <2>2. busy[d] \in Inserting
    BY <2>1, BusyType DEF Shape
  <2>3. f \in Files /\ r \in Row /\ p \in Nat
    BY <2>2 DEF Inserting, New, Row
  <2>4. rows' = [rows EXCEPT ![f] = s] /\ mtime' = [mtime EXCEPT ![f] = Stamp(f)]
    BY <1>3 DEF InsertWrite
  <2>5. s \in Seq(Row) /\ Len(s) >= Len(rows[f])
    <3>1. rows[f] \in Seq(Row) /\ Len(rows[f]) \in Nat
      BY <1>0, <2>3
    <3>2. Append(rows[f], r) \in Seq(Row) /\ Len(Append(rows[f], r)) = Len(rows[f]) + 1
      BY <2>3, <3>1, AppendProperties
    <3>3. ReplaceAt(rows[f], p, r) \in Seq(Row) /\ Len(ReplaceAt(rows[f], p, r)) = Len(rows[f])
      <4> DEFINE n == Len(rows[f])
                 x == [i \in 1..n |-> IF i = p THEN r ELSE rows[f][i]]
      <4>1. ReplaceAt(rows[f], p, r) = x
        BY <3>1 DEF ReplaceAt
      <4>2. \A i \in 1..n : (IF i = p THEN r ELSE rows[f][i]) \in Row
        BY <2>3, <3>1
      <4>3. x \in [1..n -> Row] /\ DOMAIN x = 1..n
        BY <4>2
      <4> QED
        BY <3>1, <4>1, <4>3
    <3> QED
      BY <3>1, <3>2, <3>3
  <2> HIDE DEF s
  <2> QED
    BY <1>0, <1>1, <2>3, <2>4, <2>5 DEF Longer
<1>4. ASSUME NEW d \in Updaters, NEW f \in Files, NEW i \in DOMAIN rows[f], Update(d, f, i)
      PROVE  rows' \in [Files -> Seq(Row)] /\ mtime' \in [Files -> Nat] /\ Longer
  <2> DEFINE r == [rows[f][i] EXCEPT !.ver = 2]
             s == [rows[f] EXCEPT ![i] = r]
  <2>1. r \in Row
    <3>1. rows[f][i] \in Row
      BY <1>0
    <3> QED
      BY <3>1 DEF Row
  <2>2. s \in Seq(Row) /\ Len(s) = Len(rows[f])
    BY <1>0, <2>1, ExceptSeq
  <2>3. rows' = [rows EXCEPT ![f] = s] /\ mtime' = [mtime EXCEPT ![f] = Stamp(f)]
    BY <1>4 DEF Update
  <2> HIDE DEF s
  <2> QED
    BY <1>0, <1>1, <2>2, <2>3 DEF Longer
<1> QED
  BY <1>2, <1>3, <1>4

\* A load that goes on, while files get longer, and one that begins.
LEMMA LoadKept ==
    ASSUME Shape, Longer, TypeOK',
           \A e \in FFDBs : \/ busy'[e] = busy[e]
                            \/ ~Doing(e, "first")' /\ ~Doing(e, "again")'
                            \/ busy'[e].num <= Len(rows'[busy'[e].file])
    PROVE  Shape'
<1> SUFFICES ASSUME NEW e \in FFDBs, Doing(e, "first")' \/ Doing(e, "again")', busy'[e] = busy[e]
             PROVE  busy'[e].num <= Len(rows'[busy'[e].file])
  BY DEF Shape
<1>1. Doing(e, "first") \/ Doing(e, "again")
  BY DEF Doing
<1>2. busy[e] \in Opening /\ busy[e].num <= Len(rows[busy[e].file])
  BY <1>1, BusyType DEF Shape
<1>3. busy[e].file \in Files /\ busy[e].num \in Nat
  BY <1>2 DEF Opening
<1>4. rows \in [Files -> Seq(Row)] /\ rows' \in [Files -> Seq(Row)]
  BY DEF Shape, TypeOK
<1> QED
  BY <1>1, <1>2, <1>3, <1>4 DEF Longer

\* What is remembered of failures is about files.
LEMMA FailedType ==
    ASSUME Shape, Step PROVE failed' \in [FFDBs -> SUBSET Files]
<1>1. failed \in [FFDBs -> SUBSET Files] /\ busy \in [FFDBs -> Inserting \cup Opening \cup {<<>>}]
  BY DEF Shape, TypeOK
<1>2. ASSUME NEW d \in FFDBs, NEW f \in Files, Fails(d, f) PROVE failed' \in [FFDBs -> SUBSET Files]
  BY <1>1, <1>2 DEF Fails
<1>3. ASSUME NEW d \in FFDBs, Fails(d, busy[d].file), busy[d] # <<>>
      PROVE  failed' \in [FFDBs -> SUBSET Files]
  <2>1. busy[d] \in Inserting \cup Opening
    BY <1>1, <1>3
  <2>2. busy[d].file \in Files
    BY <2>1 DEF Inserting, Opening
  <2> QED
    BY <1>2, <1>3, <2>2
<1>4. ASSUME NEW d \in FFDBs, NEW S, failed' = [failed EXCEPT ![d] = failed[d] \ S]
      PROVE  failed' \in [FFDBs -> SUBSET Files]
  BY <1>1, <1>4
<1>5. CASE Tick \/ \E f \in Files : EditByHand(f)
  BY <1>1, <1>5 DEF Tick, EditByHand, mem
<1>6. ASSUME NEW d \in Inserters, Insert(d) PROVE failed' \in [FFDBs -> SUBSET Files]
  BY <1>1, <1>6 DEF Insert, InsertSeek, InsertWrite, UpdateFile, mem
<1>7. ASSUME NEW d, NEW f, NEW i, Update(d, f, i) PROVE failed' \in [FFDBs -> SUBSET Files]
  BY <1>1, <1>7 DEF Update, mem
<1>8. ASSUME NEW d \in FFDBs, NEW q \in Queries, NEW f \in Files, Open(d, q, f)
      PROVE  failed' \in [FFDBs -> SUBSET Files]
  BY <1>1, <1>8 DEF Open, OpenHit, OpenAgain, OpenFirst, OpenStream, mem
<1>9. ASSUME NEW d \in FFDBs, LoadAgain(d) PROVE failed' \in [FFDBs -> SUBSET Files]
  BY <1>3, <1>4, <1>9 DEF LoadAgain
<1>10. ASSUME NEW d \in FFDBs, LoadFirst(d) PROVE failed' \in [FFDBs -> SUBSET Files]
  BY <1>1, <1>4, <1>10 DEF LoadFirst, mem
<1>11. ASSUME NEW d \in FFDBs, Clear(d) PROVE failed' \in [FFDBs -> SUBSET Files]
  <2>1. failed' = [failed EXCEPT ![d] = {}]
    BY <1>11 DEF Clear
  <2> QED
    BY <2>1, <1>1
<1>12. ASSUME NEW d, NEW q, ReadRow(d, q) \/ ReadEnd(d, q) \/ ReadStop(d, q)
       PROVE  failed' \in [FFDBs -> SUBSET Files]
  <2>1. UNCHANGED mem
    BY <1>12 DEF ReadRow, ReadEnd, ReadStop
  <2> QED
    BY <2>1, <1>1 DEF mem
<1>13. ASSUME NEW d \in FFDBs, Fault(d) PROVE failed' \in [FFDBs -> SUBSET Files]
  BY <1>1, <1>2, <1>3, <1>13 DEF Fault, UpdateFileFails, InsertFails, LoadFails, OpenFails
<1> QED
  BY <1>5, <1>6, <1>7, <1>8, <1>9, <1>10, <1>11, <1>12, <1>13 DEF Step

\* A call of the system fails: no file is changed.
LEMMA FaultShape ==
    ASSUME Shape, NEW d \in FFDBs, Fault(d), failed' \in [FFDBs -> SUBSET Files], UNCHANGED setup
    PROVE  TypeOK' /\ rows' = rows /\ (busy'[d] = busy[d] \/ busy'[d] = <<>>)
                  /\ \A e \in FFDBs : e # d => busy'[e] = busy[e]
<1>0. /\ setup' \in Setups
      /\ rows \in [Files -> Seq(Row)] /\ mtime \in [Files -> Nat] /\ now \in Nat /\ written \in Nat
      /\ stat \in [FFDBs -> [Files -> Nat]] /\ records \in [FFDBs -> [Files -> Seq(Row)]]
      /\ memRecords \in [FFDBs -> Nat]
      /\ busy \in [FFDBs -> Inserting \cup Opening \cup {<<>>}]
      /\ query \in [FFDBs -> [Queries -> Reading \cup {<<>>}]]
  BY DEF Shape, TypeOK
<1>1. UNCHANGED <<rows, mtime, now, written, memRecords, query>>
      /\ busy' \in {busy, [busy EXCEPT ![d] = <<>>]}
  BY DEF Fault, UpdateFileFails, InsertFails, LoadFails, OpenFails, disk
<1>2. /\ busy' \in [FFDBs -> Inserting \cup Opening \cup {<<>>}]
      /\ busy'[d] = busy[d] \/ busy'[d] = <<>>
      /\ \A e \in FFDBs : e # d => busy'[e] = busy[e]
  BY <1>0, <1>1
<1>3. ASSUME busy[d] # <<>>, busy[d].op \in {"seek", "written"}
      PROVE  busy[d].file \in Files /\ New(busy[d].id) \in Row
  <2>1. busy[d] \in Inserting
    BY <1>0, <1>3 DEF Opening
  <2> QED
    BY <2>1 DEF Inserting, New, Row
<1>4. ASSUME NEW f \in Files, NEW r \in Row, records' = [records EXCEPT ![d][f] = Append(@, r)]
      PROVE  records' \in [FFDBs -> [Files -> Seq(Row)]]
  <2>1. Append(records[d][f], r) \in Seq(Row)
    BY <1>0, AppendProperties
  <2> QED
    BY <2>1, <1>0, <1>4, PutAt
<1>5. ASSUME NEW f \in Files, NEW n \in Nat, stat' = [stat EXCEPT ![d][f] = n]
      PROVE  stat' \in [FFDBs -> [Files -> Nat]]
  BY <1>0, <1>5, PutAt
<1>6. stat' \in [FFDBs -> [Files -> Nat]] /\ records' \in [FFDBs -> [Files -> Seq(Row)]]
  <2>1. CASE UpdateFileFails(d)
    BY <2>1, <1>0, <1>3, <1>4 DEF UpdateFileFails
  <2>2. CASE InsertFails(d)
    <3>1. busy[d].file \in Files /\ New(busy[d].id) \in Row
      BY <2>2, <1>3 DEF InsertFails
    <3>2. mtime[busy[d].file] \in Nat
      BY <3>1, <1>0
    <3>3. CASE UNCHANGED <<stat, records>>
      BY <3>3, <1>0
    <3>4. CASE UpdateCopy(d)
      BY <3>1, <3>2, <3>4, <1>0, <1>4, <1>5 DEF UpdateCopy
    <3> QED
      BY <2>2, <3>3, <3>4 DEF InsertFails
  <2>3. CASE LoadFails(d)
    BY <2>3, <1>0 DEF LoadFails
  <2>4. ASSUME NEW q \in Queries, NEW f \in Files, OpenFails(d, q, f)
        PROVE  stat' \in [FFDBs -> [Files -> Nat]] /\ records' \in [FFDBs -> [Files -> Seq(Row)]]
    <3>1. /\ stat' = [stat EXCEPT ![d][f] = Unread] /\ Unread \in Nat
          /\ records' = [records EXCEPT ![d][f] = <<>>] /\ <<>> \in Seq(Row)
      BY <2>4 DEF OpenFails
    <3> QED
      BY <3>1, <1>0, <1>5, PutAt
  <2> QED
    BY <2>1, <2>2, <2>3, <2>4 DEF Fault
<1>7. TypeOK'
  BY <1>0, <1>1, <1>2, <1>6 DEF TypeOK
<1> QED
  BY <1>1, <1>2, <1>7

\* Every step keeps the types, and the files do not get shorter.
LEMMA ShapeStep == ASSUME Shape, [Next]_vars PROVE Shape' /\ Longer
<1>0. /\ UNCHANGED setup
      /\ setup' \in Setups
      /\ rows \in [Files -> Seq(Row)] /\ mtime \in [Files -> Nat] /\ now \in Nat /\ written \in Nat
      /\ stat \in [FFDBs -> [Files -> Nat]] /\ records \in [FFDBs -> [Files -> Seq(Row)]]
      /\ memRecords \in [FFDBs -> Nat]
      /\ busy \in [FFDBs -> Inserting \cup Opening \cup {<<>>}]
      /\ query \in [FFDBs -> [Queries -> Reading \cup {<<>>}]]
      /\ TypeOK
  BY DEF Shape, TypeOK, Next, vars
<1>0a. Inserters \subseteq FFDBs /\ Updaters \subseteq FFDBs
  BY SetupType DEF Shape, TypeOK
<1>0b. <<>> \in Seq(Row)
  OBVIOUS
<1>F. failed' \in [FFDBs -> SUBSET Files]
  BY FailedType DEF Next, vars, mem, Shape, TypeOK
<1>L. rows' = rows => Longer
  BY <1>0 DEF Longer
<1>1. CASE UNCHANGED vars
  BY <1>1, <1>L DEF vars, disk, mem, Shape, TypeOK, Doing
<1>2. CASE Tick
  BY <1>2, <1>0, <1>L DEF Tick, mem, Shape, TypeOK, Doing
<1>3. ASSUME NEW f \in Files, EditByHand(f) PROVE Shape' /\ Longer
  <2>1. /\ UNCHANGED <<now, stat, records, memRecords, busy, query>> /\ written' \in Nat
    BY <1>3, <1>0 DEF EditByHand, mem
  <2>2. rows' \in [Files -> Seq(Row)] /\ mtime' \in [Files -> Nat] /\ Longer
    BY <1>3, WriteShape
  <2>3. TypeOK'
    BY <2>1, <2>2, <1>0, <1>F DEF TypeOK
  <2> QED
    BY <2>1, <2>2, <2>3, <1>0, LoadKept
<1>4. ASSUME NEW d \in Updaters, NEW f \in Files, NEW i \in DOMAIN rows[f], Update(d, f, i) PROVE Shape' /\ Longer
  <2>1. /\ UNCHANGED <<now, written, stat, records, memRecords, busy, query>>
    BY <1>4 DEF Update, mem
  <2>2. rows' \in [Files -> Seq(Row)] /\ mtime' \in [Files -> Nat] /\ Longer
    BY <1>4, WriteShape
  <2>3. TypeOK'
    BY <2>1, <2>2, <1>0, <1>F DEF TypeOK
  <2> QED
    BY <2>1, <2>2, <2>3, <1>0, LoadKept
<1>5. ASSUME NEW d \in Inserters, NEW f \in Files, InsertSeek(d, f) PROVE Shape' /\ Longer
  <2> DEFINE b == [op |-> "seek", file |-> f, id |-> written + 1, pos |-> Len(rows[f]) + 1]
  <2>1. /\ UNCHANGED <<rows, mtime, now, stat, records, memRecords, query>> /\ written' = written + 1
        /\ busy' = [busy EXCEPT ![d] = b]
    BY <1>5 DEF InsertSeek, mem
  <2>2. b \in Inserting
    BY <1>0 DEF Inserting
  <2>3. TypeOK' /\ busy'[d] = b /\ \A e \in FFDBs : e # d => busy'[e] = busy[e]
    BY <2>1, <2>2, <1>0, <1>0a, <1>F DEF TypeOK
  <2>4. ~Doing(d, "first")' /\ ~Doing(d, "again")'
    BY <2>3 DEF Doing
  <2> HIDE DEF b
  <2> QED
    BY <2>1, <2>3, <2>4, <1>0, <1>0a, <1>L, LoadKept
<1>6. ASSUME NEW d \in Inserters, InsertWrite(d) PROVE Shape' /\ Longer
  <2>1. /\ UNCHANGED <<now, written, stat, records, memRecords, query>>
        /\ busy' = [busy EXCEPT ![d] = [busy[d] EXCEPT !.op = "written"]]
    BY <1>6 DEF InsertWrite, mem
  <2>2. rows' \in [Files -> Seq(Row)] /\ mtime' \in [Files -> Nat] /\ Longer
    BY <1>6, WriteShape
  <2>3. Doing(d, "seek") /\ d \in FFDBs
    BY <1>6, <1>0a DEF InsertWrite, Doing
  <2>4. busy[d] \in Inserting
    BY <2>3, <1>0, BusyType
  <2>5. [busy[d] EXCEPT !.op = "written"] \in Inserting /\ [busy[d] EXCEPT !.op = "written"].op = "written"
    BY <2>4 DEF Inserting
  <2>6. TypeOK' /\ busy'[d] = [busy[d] EXCEPT !.op = "written"] /\ \A e \in FFDBs : e # d => busy'[e] = busy[e]
    BY <2>1, <2>2, <2>3, <2>5, <1>0, <1>F DEF TypeOK
  <2>7. ~Doing(d, "first")' /\ ~Doing(d, "again")'
    BY <2>5, <2>6 DEF Doing
  <2> QED
    BY <2>2, <2>3, <2>6, <2>7, <1>0, LoadKept
<1>7. ASSUME NEW d \in FFDBs, \/ d \in Inserters /\ UpdateFile(d)
                              \/ LoadAgain(d) \/ LoadFirst(d)
      PROVE  Shape' /\ Longer
  <2>1. UNCHANGED <<rows, mtime, now, written>> /\ busy' = [busy EXCEPT ![d] = <<>>]
    BY <1>7 DEF UpdateFile, LoadAgain, LoadFirst, disk
  <2>2. busy' \in [FFDBs -> Inserting \cup Opening \cup {<<>>}]
    BY <2>1, <1>0
  <2>3. ~Doing(d, "first")' /\ ~Doing(d, "again")' /\ \A e \in FFDBs : e # d => busy'[e] = busy[e]
    BY <2>1, <1>0 DEF Doing
  <2>4. /\ stat' \in [FFDBs -> [Files -> Nat]] /\ records' \in [FFDBs -> [Files -> Seq(Row)]]
        /\ memRecords' \in [FFDBs -> Nat] /\ query' \in [FFDBs -> [Queries -> Reading \cup {<<>>}]]
    <3> DEFINE f == busy[d].file
               c == Cursor(f, "mem", busy[d].num)
    <3>1. CASE UpdateFile(d)
      <4>1. Doing(d, "written")
        BY <3>1 DEF UpdateFile, Doing
      <4>2. busy[d] \in Inserting
        BY <4>1, <1>0, BusyType
      <4>3. f \in Files /\ New(busy[d].id) \in Row
        BY <4>2 DEF Inserting, New, Row
      <4>4. Append(records[d][f], New(busy[d].id)) \in Seq(Row)
        BY <4>3, <1>0, AppendProperties
      <4>5. CASE stat[d][f] = 0
        BY <4>5, <3>1, <1>0 DEF UpdateFile, UpdateCopy
      <4>6. CASE stat[d][f] # 0
        <5>1. /\ records' = [records EXCEPT ![d][f] = Append(records[d][f], New(busy[d].id))]
              /\ stat' = [stat EXCEPT ![d][f] = mtime[f]] /\ UNCHANGED <<memRecords, query>>
          BY <4>6, <3>1 DEF UpdateFile, UpdateCopy
        <5>2. mtime[f] \in Nat
          BY <4>3, <1>0
        <5>3. stat' \in [FFDBs -> [Files -> Nat]]
          BY <5>1, <5>2, <4>3, <1>0, PutAt
        <5>4. records' \in [FFDBs -> [Files -> Seq(Row)]]
          BY <5>1, <4>3, <4>4, <1>0, PutAt
        <5> QED
          BY <5>1, <5>3, <5>4, <1>0
      <4> QED
        BY <4>5, <4>6
    <3>2. CASE LoadAgain(d)
      <4>1. Doing(d, "again")
        BY <3>2 DEF LoadAgain, Doing
      <4>2. busy[d] \in Opening /\ busy[d].num <= Len(rows[f])
        BY <4>1, <1>0, BusyType DEF Shape
      <4>3. f \in Files /\ busy[d].num \in Nat /\ busy[d].query \in Queries /\ rows[f] \in Seq(Row)
        BY <4>2, <1>0 DEF Opening
      <4> DEFINE s == SubSeq(rows[f], 1, busy[d].num)
      <4>4. s \in Seq(Row)
        BY <4>2, <4>3, SubSeqProperties
      <4>5. Readable(s) \in Seq(Row)
        BY <4>4, ReadableRows
      <4>6. records' = [records EXCEPT ![d][f] = Readable(s)] /\ UNCHANGED <<stat, memRecords>>
            /\ query' \in {query, [query EXCEPT ![d][busy[d].query] = c]}
        BY <3>2 DEF LoadAgain
      <4> HIDE DEF s
      <4>7. records' \in [FFDBs -> [Files -> Seq(Row)]]
        BY <4>3, <4>5, <4>6, <1>0, PutAt
      <4>8. c \in Reading \cup {<<>>}
        BY <4>3, CursorNew
      <4> HIDE DEF c
      <4>9. [query EXCEPT ![d][busy[d].query] = c] \in [FFDBs -> [Queries -> Reading \cup {<<>>}]]
        BY <4>3, <4>8, <1>0, PutAt
      <4> QED
        BY <4>6, <4>7, <4>9, <1>0
    <3>3. CASE LoadFirst(d)
      <4>1. Doing(d, "first")
        BY <3>3 DEF LoadFirst, Doing
      <4>2. busy[d] \in Opening
        BY <4>1, <1>0, BusyType
      <4>3. /\ f \in Files /\ busy[d].num \in Nat /\ busy[d].query \in Queries /\ rows[f] \in Seq(Row)
            /\ busy[d].time \in Nat
        BY <4>2, <1>0 DEF Opening
      <4>4. CASE Parsed(rows[f]) # 0
        BY <4>4, <3>3, <1>0 DEF LoadFirst, mem
      <4>5. CASE Parsed(rows[f]) = 0
        <5>1. /\ records' = [records EXCEPT ![d][f] = rows[f]]
              /\ stat' = [stat EXCEPT ![d][f] = busy[d].time]
              /\ memRecords' = [memRecords EXCEPT ![d] = memRecords[d] + busy[d].num]
              /\ query' = [query EXCEPT ![d][busy[d].query] = c]
          BY <4>5, <3>3 DEF LoadFirst
        <5>2. c \in Reading \cup {<<>>}
          BY <4>3, CursorNew
        <5> HIDE DEF c
        <5>3. query' \in [FFDBs -> [Queries -> Reading \cup {<<>>}]]
          BY <5>1, <5>2, <4>3, <1>0, PutAt
        <5>4. stat' \in [FFDBs -> [Files -> Nat]] /\ records' \in [FFDBs -> [Files -> Seq(Row)]]
          BY <5>1, <4>3, <1>0, PutAt
        <5>5. memRecords' \in [FFDBs -> Nat]
          BY <5>1, <4>3, <1>0
        <5> QED
          BY <5>3, <5>4, <5>5
      <4> QED
        BY <4>4, <4>5
    <3> QED
      BY <1>7, <3>1, <3>2, <3>3
  <2>5. TypeOK'
    BY <2>1, <2>2, <2>4, <1>0, <1>F DEF TypeOK
  <2> QED
    BY <2>1, <2>3, <2>5, <1>0, <1>L, LoadKept
<1>8. ASSUME NEW d \in FFDBs, NEW q \in Queries, NEW f \in Files,
             OpenHit(d, q, f) \/ OpenStream(d, q, f)
      PROVE  Shape' /\ Longer
  <2>1. /\ UNCHANGED <<rows, mtime, now, written, stat, records, memRecords, busy>>
        /\ \E s \in {"mem", "fp"} : query' = [query EXCEPT ![d][q] = Cursor(f, s, Len(rows[f]))]
    BY <1>8 DEF OpenHit, OpenStream, disk, mem
  <2>2. PICK s \in {"mem", "fp"} : query' = [query EXCEPT ![d][q] = Cursor(f, s, Len(rows[f]))]
    BY <2>1
  <2> DEFINE c == Cursor(f, s, Len(rows[f]))
  <2>2a. c \in Reading \cup {<<>>}
    BY <1>0, CursorNew
  <2> HIDE DEF c
  <2>3. query' \in [FFDBs -> [Queries -> Reading \cup {<<>>}]]
    BY <2>2, <2>2a, <1>0, PutAt DEF c
  <2>4. TypeOK'
    BY <2>1, <2>3, <1>0, <1>F DEF TypeOK
  <2> QED
    BY <2>1, <2>4, <1>L, LoadKept
<1>9. ASSUME NEW d \in FFDBs, NEW q \in Queries, NEW f \in Files,
             OpenAgain(d, q, f) \/ OpenFirst(d, q, f)
      PROVE  Shape' /\ Longer
  <2> DEFINE B(op) == [op |-> op, query |-> q, file |-> f, num |-> Len(rows[f]), time |-> mtime[f]]
  <2>1. /\ UNCHANGED <<rows, mtime, now, written, memRecords, query>>
        /\ \E op \in {"first", "again"} : busy' = [busy EXCEPT ![d] = B(op)]
        /\ stat' = stat \/ stat' = [stat EXCEPT ![d][f] = mtime[f]]
        /\ records' = records \/ records' = [records EXCEPT ![d][f] = <<>>]
    BY <1>9 DEF OpenAgain, OpenFirst, disk, mem
  <2>2. PICK op \in {"first", "again"} : busy' = [busy EXCEPT ![d] = B(op)]
    BY <2>1
  <2>3. B(op) \in Opening
    BY <1>0 DEF Opening
  <2>4. mtime[f] \in Nat
    BY <1>0
  <2>5. stat' \in [FFDBs -> [Files -> Nat]]
    <3>1. ASSUME stat' = [stat EXCEPT ![d][f] = mtime[f]] PROVE stat' \in [FFDBs -> [Files -> Nat]]
      BY <3>1, <2>4, <1>0, PutAt
    <3> QED
      BY <2>1, <3>1, <1>0
  <2>6. records' \in [FFDBs -> [Files -> Seq(Row)]]
    <3>1. ASSUME records' = [records EXCEPT ![d][f] = <<>>]
          PROVE  records' \in [FFDBs -> [Files -> Seq(Row)]]
      BY <3>1, <1>0, <1>0b, PutAt
    <3> QED
      BY <2>1, <3>1, <1>0
  <2>7. busy'[d] = B(op) /\ \A e \in FFDBs : e # d => busy'[e] = busy[e]
    BY <2>2, <1>0
  <2>8. busy' \in [FFDBs -> Inserting \cup Opening \cup {<<>>}]
    BY <2>2, <2>3, <1>0
  <2>9. TypeOK'
    BY <2>1, <2>5, <2>6, <2>8, <1>0, <1>F DEF TypeOK
  <2>10. busy'[d].num <= Len(rows'[busy'[d].file])
    BY <2>1, <2>7, <1>0
  <2> QED
    BY <2>1, <2>7, <2>9, <2>10, <1>0, <1>L, LoadKept
<1>10. ASSUME NEW d \in FFDBs, NEW q \in Queries, ReadRow(d, q) \/ ReadEnd(d, q) \/ ReadStop(d, q)
       PROVE  Shape' /\ Longer
  <2>1. UNCHANGED <<rows, mtime, now, written, stat, records, memRecords, busy>> /\ query[d][q] # <<>>
    BY <1>10 DEF ReadRow, ReadEnd, ReadStop, disk, mem
  <2>2. query' \in [FFDBs -> [Queries -> Reading \cup {<<>>}]]
    <3>1. CASE ReadRow(d, q)
      <4> DEFINE c == query[d][q]
                 n == c.pos + 1
                 m == Source(d, q)[c.pos + 1].id
                 x == [c EXCEPT !.pos = n, !.last = m]
      <4>1. c \in Reading /\ Source(d, q) \in Seq(Row)
        BY <2>1, <1>0, CursorType
      <4>2. c.pos \in Nat /\ c.pos < Len(Source(d, q))
        BY <4>1, <3>1 DEF Reading, ReadRow
      <4>3. Source(d, q)[n] \in Row
        BY <4>1, <4>2
      <4>4. m \in Nat /\ n \in Nat
        BY <4>2, <4>3 DEF Row
      <4>5. x \in Reading \cup {<<>>}
        BY <4>4, <2>1, <1>0, CursorType
      <4>6. query' = [query EXCEPT ![d][q] = x]
        BY <3>1, <4>1, <1>0 DEF ReadRow, Reading
      <4> HIDE DEF x
      <4> QED
        BY <4>5, <4>6, <1>0, PutAt
    <3>2. CASE ReadEnd(d, q) \/ ReadStop(d, q)
      <4>1. query' = [query EXCEPT ![d][q] = <<>>]
        BY <3>2 DEF ReadEnd, ReadStop
      <4> QED
        BY <4>1, <1>0, PutAt
    <3> QED
      BY <1>10, <3>1, <3>2
  <2>3. TypeOK'
    BY <2>1, <2>2, <1>0, <1>F DEF TypeOK
  <2> QED
    BY <2>1, <2>3, <1>L, LoadKept
<1>11. ASSUME NEW d \in FFDBs, Clear(d) PROVE Shape' /\ Longer
  <2> DEFINE C(q) == LET c == query[d][q]
                     IN  IF c # <<>> /\ c.src = "mem"
                         THEN [c EXCEPT !.src = "own", !.own = records[d][c.file]] ELSE c
  <2>1. /\ UNCHANGED <<rows, mtime, now, written, memRecords, busy>>
        /\ stat' = [stat EXCEPT ![d] = [f \in Files |-> 0]]
        /\ records' = [records EXCEPT ![d] = [f \in Files |-> <<>>]]
        /\ query' = [query EXCEPT ![d] = [q \in Queries |-> C(q)]]
    BY <1>11 DEF Clear, disk
  <2>2. [f \in Files |-> 0] \in [Files -> Nat] /\ [f \in Files |-> <<>>] \in [Files -> Seq(Row)]
    BY <1>0b
  <2>3. ASSUME NEW q \in Queries PROVE C(q) \in Reading \cup {<<>>}
    <3> DEFINE c == query[d][q]
    <3>1. CASE c # <<>> /\ c.src = "mem"
      <4>1. c \in Reading
        BY <3>1, <1>0, CursorType
      <4>2. records[d][c.file] \in Seq(Row)
        BY <4>1, <1>0 DEF Reading
      <4> QED
        BY <3>1, <4>2, <1>0, CursorType
    <3>2. CASE ~(c # <<>> /\ c.src = "mem")
      BY <3>2, <1>0
    <3> QED
      BY <3>1, <3>2
  <2> HIDE DEF C
  <2>4. [q \in Queries |-> C(q)] \in [Queries -> Reading \cup {<<>>}]
    BY <2>3
  <2>5. query' \in [FFDBs -> [Queries -> Reading \cup {<<>>}]]
    BY <2>1, <2>4, <1>0
  <2>6. stat' \in [FFDBs -> [Files -> Nat]] /\ records' \in [FFDBs -> [Files -> Seq(Row)]]
    BY <2>1, <2>2, <1>0
  <2>7. TypeOK'
    BY <2>1, <2>5, <2>6, <1>0, <1>F DEF TypeOK
  <2> QED
    BY <2>1, <2>7, <1>L, LoadKept
<1>12. ASSUME NEW d \in FFDBs, Fault(d) PROVE Shape' /\ Longer
  <2>1. /\ TypeOK' /\ rows' = rows /\ (busy'[d] = busy[d] \/ busy'[d] = <<>>)
        /\ \A e \in FFDBs : e # d => busy'[e] = busy[e]
    BY <1>12, <1>0, <1>F, FaultShape
  <2>2. busy'[d] = <<>> => ~Doing(d, "first")' /\ ~Doing(d, "again")'
    BY DEF Doing
  <2> QED
    BY <2>1, <2>2, <1>L, LoadKept
<1>13. CASE Step
  BY <1>2, <1>3, <1>4, <1>5, <1>6, <1>7, <1>8, <1>9, <1>10, <1>11, <1>12, <1>13, <1>0a DEF Step, Insert, Open
<1> QED
  BY <1>1, <1>13 DEF Next

\* TypeOK, whatever the setup: a load never counts more rows than its file has,
\* because no step of insertTable, update or a hand edit makes a file shorter.
THEOREM TypeInvariance == Spec => []TypeOK
<1>1. Shape /\ [Next]_vars => Shape'
  BY ShapeStep
<1>2. Shape => TypeOK
  BY DEF Shape
<1> QED
  BY ShapeInit, <1>1, <1>2, PTL DEF Spec

-----------------------------------------------------------------------------
(* Order: one FFDatabase inserts *)

\* The rows that can be parsed stay as they were, except for their versions.
Kept == /\ Longer /\ written' >= written
        /\ \A f \in Files : /\ Valid(f)' = Valid(f)
                            /\ \A j \in Valid(f) : rows'[f][j].id = rows[f][j].id

LEMMA RowTypes ==
    ASSUME Shape, NEW f \in Files
    PROVE  /\ rows[f] \in Seq(Row) /\ Len(rows[f]) \in Nat /\ DOMAIN rows[f] = 1..Len(rows[f])
           /\ written \in Nat /\ mtime[f] \in Nat
           /\ Valid(f) \subseteq 1..Len(rows[f])
           /\ \A j \in 1..Len(rows[f]) : rows[f][j] \in Row /\ rows[f][j].id \in Nat
<1>1. rows[f] \in Seq(Row) /\ written \in Nat /\ mtime[f] \in Nat
  BY DEF Shape, TypeOK
<1>2. \A j \in 1..Len(rows[f]) : rows[f][j] \in Row
  BY <1>1
<1>3. \A r \in Row : r.id \in Nat
  BY DEF Row
<1> QED
  BY <1>1, <1>2, <1>3 DEF Valid

LEMMA CopyTypes ==
    ASSUME Shape, NEW d \in FFDBs, NEW f \in Files
    PROVE  /\ records[d][f] \in Seq(Row) /\ Len(records[d][f]) \in Nat /\ stat[d][f] \in Nat
           /\ DOMAIN records[d][f] = 1..Len(records[d][f])
           /\ \A i \in 1..Len(records[d][f]) : records[d][f][i] \in Row /\ records[d][f][i].id \in Nat
<1>1. records[d][f] \in Seq(Row) /\ stat[d][f] \in Nat
  BY DEF Shape, TypeOK
<1>2. \A j \in 1..Len(records[d][f]) : records[d][f][j] \in Row
  BY <1>1
<1>3. \A r \in Row : r.id \in Nat
  BY DEF Row
<1> QED
  BY <1>1, <1>2, <1>3

LEMMA CursorFields ==
    ASSUME Shape, NEW d \in FFDBs, NEW q \in Queries, query[d][q] # <<>>
    PROVE  LET c == query[d][q]
           IN  /\ c.file \in Files /\ c.pos \in Nat /\ c.num \in Nat /\ c.last \in Nat
               /\ c.src \in {"mem", "own", "fp"}
               /\ c.own \in Seq(Row) /\ DOMAIN c.own = 1..Len(c.own) /\ Len(c.own) \in Nat
               /\ \A i \in 1..Len(c.own) : c.own[i].id \in Nat
<1>1. query[d][q] \in Reading
  BY CursorType DEF Shape
<1>2. query[d][q].own \in Seq(Row)
  BY <1>1 DEF Reading
<1>3. \A i \in 1..Len(query[d][q].own) : query[d][q].own[i] \in Row
  BY <1>2
<1>4. \A r \in Row : r.id \in Nat
  BY DEF Row
<1> QED
  BY <1>1, <1>2, <1>3, <1>4 DEF Reading

LEMMA KeptRows ==
    ASSUME Shape, Shape', Kept, NEW f \in Files
    PROVE  /\ RowsOrder(f) => RowsOrder(f)'
           /\ \A i, id : Stands(f, i, id)' <=> Stands(f, i, id)
           /\ \A i : Prefix(f, i)' <=> Prefix(f, i)
           /\ Valid(f)' = Valid(f) /\ \A j \in Valid(f) : rows'[f][j].id = rows[f][j].id
<1>1. Valid(f)' = Valid(f) /\ \A j \in Valid(f) : rows'[f][j].id = rows[f][j].id
  BY DEF Kept
<1>2. \A i : Prefix(f, i)' <=> Prefix(f, i)
  BY <1>1 DEF Prefix
<1>3. \A i, id : Stands(f, i, id)' <=> Stands(f, i, id)
  BY <1>1 DEF Stands
<1>4. ASSUME RowsOrder(f) PROVE RowsOrder(f)'
  <2>1. \A n : n \in 1..written => n \in 1..written'
    BY RowTypes DEF Kept, Shape, TypeOK
  <2> QED
    BY <1>1, <1>4, <2>1 DEF RowsOrder
<1> QED
  BY <1>1, <1>2, <1>3, <1>4

\* What an invariant says of one FFDatabase stays true as long as that leaves
\* its part alone.
LEMMA CopyKept ==
    ASSUME Shape, Shape', Kept, NEW d \in FFDBs, NEW f \in Files,
           CopyOrder(d, f), records'[d][f] = records[d][f]
    PROVE  CopyOrder(d, f)'
<1>1. \A i \in DOMAIN records[d][f] : Stands(f, i, records[d][f][i].id)'
  BY KeptRows DEF CopyOrder
<1>2. ASSUME NEW i \in DOMAIN records[d][f], Prefix(f, i)'
      PROVE  rows'[f][i].id = records[d][f][i].id
  <2>1. Prefix(f, i) /\ i \in 1..i
    BY <1>2, KeptRows, CopyTypes
  <2>2. i \in Valid(f)
    BY <2>1 DEF Prefix
  <2> QED
    BY <1>2, <2>1, <2>2, KeptRows DEF CopyOrder
<1> QED
  BY <1>1, <1>2 DEF CopyOrder

LEMMA CoverKept ==
    ASSUME Shape, Shape', Kept, UNCHANGED Inserters, NEW d \in FFDBs, NEW f \in Files,
           Cover(d, f), records'[d][f] = records[d][f], stat'[d][f] = stat[d][f],
           busy'[d] = busy[d]
    PROVE  Cover(d, f)'
  BY KeptRows DEF Cover, Doing

LEMMA QueryKept ==
    ASSUME Shape, Shape', Kept, NEW d \in FFDBs, NEW q \in Queries,
           QueryOrder(d, q), query'[d][q] = query[d][q],
           query[d][q] # <<>> /\ query[d][q].src = "mem" =>
               records'[d][query[d][q].file] = records[d][query[d][q].file]
    PROVE  QueryOrder(d, q)'
<1> SUFFICES ASSUME query[d][q] # <<>> PROVE QueryOrder(d, q)'
  BY DEF QueryOrder
<1>1. PICK c : c = query[d][q]
  OBVIOUS
<1>2. c.file \in Files
  BY <1>1, CursorFields
<1>3. CursorOrder(d, c)
  BY <1>1 DEF QueryOrder
<1>4. CursorOrder(d, c)'
  BY <1>1, <1>2, <1>3, KeptRows DEF CursorOrder
<1> QED
  BY <1>1, <1>4 DEF QueryOrder

LEMMA InsertKept ==
    ASSUME Shape, Shape', Kept, UNCHANGED Inserters, NEW d \in FFDBs, InsertOrder(d),
           busy'[d] = busy[d], records'[d] = records[d], query'[d] = query[d]
    PROVE  InsertOrder(d)'
<1>0. written \in Nat /\ written' \in Nat /\ written' >= written
  BY DEF Kept, Shape, TypeOK
<1>1. CASE Doing(d, "seek")
  <2>1. busy[d] \in Inserting
    BY <1>1, BusyType DEF Shape
  <2>2. busy[d].file \in Files /\ busy[d].id \in Nat /\ busy[d].pos \in Nat
    BY <2>1 DEF Inserting
  <2>3. Len(rows'[busy[d].file]) \in Nat /\ Len(rows[busy[d].file]) \in Nat
    BY <2>2, RowTypes
  <2>3a. Len(rows'[busy[d].file]) >= Len(rows[busy[d].file])
    BY <2>2 DEF Kept, Longer
  <2>3b. busy[d].pos \in 1..Len(rows[busy[d].file]) + 1 /\ busy[d].id \in 1..written
    BY <1>1 DEF InsertOrder
  <2>4. busy[d].pos \in 1..Len(rows'[busy[d].file]) + 1 /\ busy[d].id \in 1..written'
    <3>1. PICK x \in Nat, y \in Nat, p \in Nat :
             x = Len(rows[busy[d].file]) /\ y = Len(rows'[busy[d].file]) /\ p = busy[d].pos
      BY <2>2, <2>3
    <3>2. y >= x /\ p \in 1..x + 1
      BY <3>1, <2>3a, <2>3b
    <3>3. p \in 1..y + 1
      BY <3>2
    <3>4. PICK v \in Nat, w \in Nat, i \in Nat : v = written /\ w = written' /\ i = busy[d].id
      BY <1>0, <2>2
    <3>5. w >= v /\ i \in 1..v
      BY <1>0, <3>4, <2>3b
    <3>6. i \in 1..w
      BY <3>5
    <3> QED
      BY <3>1, <3>3, <3>4, <3>6
  <2> QED
    BY <1>1, <2>2, <2>4, KeptRows DEF InsertOrder, Doing
<1>2. CASE Doing(d, "written")
  <2>1. busy[d] \in Inserting
    BY <1>2, BusyType DEF Shape
  <2>2. busy[d].file \in Files /\ busy[d].id \in Nat
    BY <2>1 DEF Inserting
  <2>3. busy[d].id \in 1..written'
    <3>1. busy[d].id \in 1..written
      BY <1>2 DEF InsertOrder
    <3> QED
      BY <1>0, <3>1
  <2> QED
    BY <1>2, <2>2, <2>3, KeptRows DEF InsertOrder, Doing
<1>3. CASE ~Doing(d, "seek") /\ ~Doing(d, "written")
  BY <1>3 DEF InsertOrder, Doing
<1> QED
  BY <1>1, <1>2, <1>3

\* A step of d that writes no row has to be looked at for d only.
LEMMA OrderOthers ==
    ASSUME Shape, Shape', OrderInv, Kept, UNCHANGED Inserters, NEW d \in FFDBs,
           \A e \in FFDBs : e # d => /\ busy'[e] = busy[e] /\ query'[e] = query[e]
                                     /\ stat'[e] = stat[e] /\ records'[e] = records[e],
           InsertOrder(d)',
           \A f \in Files : CopyOrder(d, f)' /\ Cover(d, f)',
           \A q \in Queries : QueryOrder(d, q)'
    PROVE  OrderInv'
<1>1. \A f \in Files : RowsOrder(f)'
  BY KeptRows DEF OrderInv
<1>2. ASSUME NEW e \in FFDBs, e # d PROVE InsertOrder(e)'
  BY <1>2, InsertKept DEF OrderInv
<1>3. ASSUME NEW e \in FFDBs, e # d, NEW f \in Files PROVE CopyOrder(e, f)' /\ Cover(e, f)'
  BY <1>3, CopyKept, CoverKept DEF OrderInv
<1>4. ASSUME NEW e \in FFDBs, e # d, NEW q \in Queries PROVE QueryOrder(e, q)'
  <2>1. query'[e][q] = query[e][q] /\ records'[e] = records[e] /\ QueryOrder(e, q)
    BY <1>4 DEF OrderInv
  <2> QED
    BY <2>1, QueryKept
<1> QED
  BY <1>1, <1>2, <1>3, <1>4 DEF OrderInv

\* The steps that change nothing but the clock and rows, or rows' versions.
LEMMA OrderDisk ==
    ASSUME Shape, Shape', OrderInv, Kept, UNCHANGED Inserters, UNCHANGED <<mem, busy, query>>
    PROVE  OrderInv'
<1>1. UNCHANGED <<stat, records, busy, query>>
  BY DEF mem
<1>2. \A f \in Files : RowsOrder(f)'
  BY KeptRows DEF OrderInv
<1>3. \A e \in FFDBs : InsertOrder(e)'
  BY <1>1, InsertKept DEF OrderInv
<1>4. \A e \in FFDBs, f \in Files : CopyOrder(e, f)' /\ Cover(e, f)'
  BY <1>1, CopyKept, CoverKept DEF OrderInv
<1>5. \A e \in FFDBs, q \in Queries : QueryOrder(e, q)'
  BY <1>1, QueryKept DEF OrderInv
<1> QED
  BY <1>2, <1>3, <1>4, <1>5 DEF OrderInv

\* The first rows are numbered in the order of the file.
LEMMA OrderInit == Init => OrderInv
<1> SUFFICES ASSUME Init PROVE OrderInv
  OBVIOUS
<1>1. setup.first \in Nat
  BY SetupType DEF Init
<1>2. ASSUME NEW f \in Files PROVE RowsOrder(f)
  <2>1. rows[f] = [i \in 1..setup.first |-> New(i)] /\ written = setup.first
    BY DEF Init
  <2>2. \A i \in DOMAIN rows[f] : i \in 1..written /\ rows[f][i].id = i
    BY <2>1 DEF New
  <2> QED
    BY <2>2 DEF RowsOrder, Valid
<1>3. \A d \in FFDBs : \A op : ~Doing(d, op)
  BY DEF Init, Doing
<1>4. \A d \in FFDBs : InsertOrder(d)
  BY <1>3 DEF InsertOrder
<1>5. \A d \in FFDBs, f \in Files : CopyOrder(d, f) /\ Cover(d, f)
  BY DEF Init, CopyOrder, Cover
<1>6. \A d \in FFDBs, q \in Queries : QueryOrder(d, q)
  BY DEF Init, QueryOrder
<1> QED
  BY <1>2, <1>4, <1>5, <1>6 DEF OrderInv

\* A hand edit adds a row that cannot be parsed.
LEMMA EditKept == ASSUME Shape, NEW f \in Files, EditByHand(f), Longer PROVE Kept
<1> DEFINE r == [id |-> written + 1, ver |-> 0]
<1>1. rows' = [rows EXCEPT ![f] = Append(rows[f], r)] /\ written' = written + 1
  BY DEF EditByHand
<1>2. rows \in [Files -> Seq(Row)] /\ written \in Nat
  BY DEF Shape, TypeOK
<1>3. ASSUME NEW g \in Files
      PROVE  Valid(g)' = Valid(g) /\ \A j \in Valid(g) : rows'[g][j].id = rows[g][j].id
  <2>1. CASE g = f
    <3>1. r \in Row /\ rows[f] \in Seq(Row) /\ Len(rows[f]) \in Nat
      BY <1>2 DEF Row
    <3>2. rows'[f] = Append(rows[f], r)
      BY <1>1, <1>2
    <3>3. /\ Len(rows'[f]) = Len(rows[f]) + 1 /\ rows'[f][Len(rows[f]) + 1] = r
          /\ \A j \in 1..Len(rows[f]) : rows'[f][j] = rows[f][j]
          /\ DOMAIN rows'[f] = 1..Len(rows[f]) + 1
      BY <3>1, <3>2, AppendProperties
    <3>4. r.ver = 0
      OBVIOUS
    <3> HIDE DEF r
    <3>5. ASSUME NEW j PROVE j \in Valid(f)' <=> j \in Valid(f)
      <4>1. j \in Valid(f)' <=> j \in DOMAIN rows'[f] /\ rows'[f][j].ver # 0
        BY DEF Valid
      <4>2. j \in Valid(f) <=> j \in DOMAIN rows[f] /\ rows[f][j].ver # 0
        BY DEF Valid
      <4>3. DOMAIN rows[f] = 1..Len(rows[f])
        BY <3>1
      <4>4. j \in DOMAIN rows'[f] <=> j \in DOMAIN rows[f] \/ j = Len(rows[f]) + 1
        BY <3>1, <3>3, <4>3
      <4>5. j \in DOMAIN rows[f] => rows'[f][j] = rows[f][j] /\ j # Len(rows[f]) + 1
        BY <3>1, <3>3, <4>3
      <4>6. rows'[f][Len(rows[f]) + 1].ver = 0
        BY <3>3, <3>4
      <4> QED
        BY <4>1, <4>2, <4>4, <4>5, <4>6
    <3> QED
      BY <2>1, <3>1, <3>3, <3>5 DEF Valid
  <2>2. CASE g # f
    BY <2>2, <1>1, <1>2 DEF Valid
  <2> QED
    BY <2>1, <2>2
<1>4. written' >= written
  BY <1>1, <1>2
<1> QED
  BY <1>3, <1>4 DEF Kept

\* update writes the same row, with another version.
LEMMA UpdateKept ==
    ASSUME Shape, NEW d, NEW f \in Files, NEW i \in DOMAIN rows[f], Update(d, f, i), Longer
    PROVE  Kept
<1> DEFINE r == [rows[f][i] EXCEPT !.ver = 2]
<1>1. rows' = [rows EXCEPT ![f] = [rows[f] EXCEPT ![i] = r]] /\ written' = written
      /\ rows[f][i].ver = 1
  BY DEF Update
<1>2. rows \in [Files -> Seq(Row)] /\ written \in Nat
  BY DEF Shape, TypeOK
<1>2a. rows[f][i] \in Row
  BY <1>2
<1>3. ASSUME NEW g \in Files
      PROVE  Valid(g)' = Valid(g) /\ \A j \in Valid(g) : rows'[g][j].id = rows[g][j].id
  <2>1. CASE g = f
    <3>1. r.ver = 2 /\ r.id = rows[f][i].id
      BY <1>2a DEF Row
    <3> HIDE DEF r
    <3>2. rows'[f] = [rows[f] EXCEPT ![i] = r]
      BY <1>1, <1>2
    <3>3. /\ DOMAIN rows'[f] = DOMAIN rows[f] /\ rows'[f][i] = r
          /\ \A j \in DOMAIN rows[f] : j # i => rows'[f][j] = rows[f][j]
      BY <3>2, <1>2
    <3>4. ASSUME NEW j PROVE j \in Valid(f)' <=> j \in Valid(f)
      BY <1>1, <3>1, <3>3 DEF Valid
    <3> QED
      BY <2>1, <3>1, <3>3, <3>4 DEF Valid
  <2>2. CASE g # f
    BY <2>2, <1>1, <1>2 DEF Valid
  <2> QED
    BY <2>1, <2>2
<1> QED
  BY <1>1, <1>2, <1>3 DEF Kept

\* Steps that leave the files alone.
LEMMA SameKept == ASSUME Shape, UNCHANGED <<rows, written>> PROVE Kept
  BY DEF Kept, Longer, Valid, Shape, TypeOK

\* ReadRow: the next row comes behind the one before.
LEMMA ReadRowOrder ==
    ASSUME Shape, Shape', OrderInv, UNCHANGED Inserters, NEW d \in FFDBs, NEW q \in Queries, ReadRow(d, q)
    PROVE  OrderInv' /\ query'[d][q].last > query[d][q].last
<1>1. PICK c : c = query[d][q]
  OBVIOUS
<1>2. PICK s : s = Source(d, q)
  OBVIOUS
<1> DEFINE n == c.pos + 1
<1>3. PICK x : x = [c EXCEPT !.pos = n, !.last = s[n].id]
  OBVIOUS
<1>4. /\ busy[d] = <<>> /\ c # <<>> /\ c.pos < Len(s) /\ s[n].ver # 0
      /\ UNCHANGED <<rows, written, stat, records, busy>>
  BY <1>1, <1>2 DEF ReadRow, disk, mem
<1>5. c \in Reading /\ s \in Seq(Row)
  BY <1>1, <1>2, <1>4, CursorType DEF Shape
<1>6. query' = [query EXCEPT ![d][q] = x]
  BY <1>1, <1>2, <1>3, <1>5 DEF ReadRow, Reading
<1>7. /\ c.file \in Files /\ c.pos \in Nat /\ n \in Nat /\ n > c.pos /\ n \in 1..Len(s)
      /\ DOMAIN s = 1..Len(s) /\ c.src \in {"mem", "own", "fp"} /\ c.last \in Nat
  BY <1>4, <1>5 DEF Reading
<1>8. /\ x.file = c.file /\ x.src = c.src /\ x.own = c.own /\ x.pos = n /\ x.last = s[n].id
      /\ x \in Reading
  <2>1. s[n] \in Row
    BY <1>5, <1>7
  <2>2. s[n].id \in Nat
    BY <2>1 DEF Row
  <2> QED
    BY <2>2, <1>3, <1>5, <1>7 DEF Reading
<1>9. x # <<>>
  BY <1>8, ReadingIsOpen
<1>10. /\ query'[d][q] = x /\ (\A e \in FFDBs : e # d => query'[e] = query[e])
       /\ \A p \in Queries : p # q => query'[d][p] = query[d][p]
  <2>1. query \in [FFDBs -> [Queries -> Reading \cup {<<>>}]] /\ x \in Reading \cup {<<>>}
    BY <1>8 DEF Shape, TypeOK
  <2> QED
    BY <2>1, <1>6, PutAt
<1>11. Kept
  BY <1>4, SameKept
<1>12. CursorOrder(d, c) /\ RowsOrder(c.file) /\ CopyOrder(d, c.file)
  BY <1>1, <1>4, <1>7 DEF OrderInv, QueryOrder
<1>13. CursorOrder(d, x) /\ x.last > c.last
  <2>1. CASE c.src = "mem"
    <3>1. s = records[d][c.file]
      BY <1>1, <1>2, <2>1 DEF Source
    <3>2. Stands(c.file, n, s[n].id) /\ s[n].id > c.last
      BY <1>7, <1>12, <2>1, <3>1 DEF CursorOrder, CopyOrder
    <3>3. Stands(c.file, 1, s[n].id)
      BY <3>2, <1>7, RowTypes DEF Stands
    <3>4. ASSUME NEW i \in Valid(c.file), i > n, Prefix(c.file, i) PROVE rows[c.file][i].id > s[n].id
      <4>1. i \in Nat /\ 1..n \subseteq 1..i /\ n \in 1..i
        <5>1. i \in Nat
          BY <1>7, RowTypes
        <5> QED
          BY <5>1, <3>4, <1>7
      <4>2. Prefix(c.file, n) /\ n \in Valid(c.file)
        BY <3>4, <4>1 DEF Prefix
      <4>3. rows[c.file][n].id = s[n].id
        BY <4>2, <3>1, <1>7, <1>12 DEF CopyOrder
      <4>4. rows[c.file][n].id < rows[c.file][i].id
        BY <3>4, <4>1, <4>2, <1>7, <1>12 DEF RowsOrder
      <4>5. rows[c.file][n].id \in Nat /\ rows[c.file][i].id \in Nat
        BY <4>2, <1>7, RowTypes
      <4> QED
        BY <4>3, <4>4, <4>5
    <3>5. ASSUME NEW i \in DOMAIN s, i > n PROVE s[i].id > s[n].id
      <4>1. s[n].id < s[i].id
        BY <3>1, <3>5, <1>7, <1>12 DEF CopyOrder
      <4>2. s[n].id \in Nat /\ s[i].id \in Nat
        BY <3>1, <1>7, CopyTypes
      <4> QED
        BY <4>1, <4>2
    <3> QED
      BY <2>1, <3>1, <3>2, <3>3, <3>4, <3>5, <1>8 DEF CursorOrder
  <2>2. CASE c.src = "own"
    <3>1. s = c.own
      BY <1>1, <1>2, <2>2 DEF Source
    <3>2. Stands(c.file, n, s[n].id) /\ s[n].id > c.last
      BY <1>7, <1>12, <2>2, <3>1 DEF CursorOrder
    <3>3. Stands(c.file, 1, s[n].id)
      BY <3>2, <1>7, RowTypes DEF Stands
    <3>4. ASSUME NEW i \in DOMAIN s, i > n PROVE s[i].id > s[n].id
      <4>1. s[n].id < s[i].id
        BY <2>2, <3>1, <3>4, <1>7, <1>12 DEF CursorOrder
      <4>2. s[n].id \in Nat /\ s[i].id \in Nat
        BY <3>1, <1>1, <1>4, <1>7, CursorFields
      <4> QED
        BY <4>1, <4>2
    <3> QED
      BY <2>2, <3>1, <3>2, <3>3, <3>4, <1>8, <1>12 DEF CursorOrder
  <2>3. CASE c.src = "fp"
    <3>1. s = rows[c.file]
      BY <1>1, <1>2, <2>3 DEF Source
    <3>2. n \in Valid(c.file)
      BY <1>4, <1>7, <3>1 DEF Valid
    <3>3. s[n].id > c.last
      BY <1>7, <1>12, <2>3, <3>1, <3>2 DEF CursorOrder
    <3>4. Stands(c.file, 1, s[n].id)
      BY <3>1, <3>2, <1>7 DEF Stands
    <3>5. ASSUME NEW i \in Valid(c.file), i > n PROVE rows[c.file][i].id > s[n].id
      <4>1. s[n].id < rows[c.file][i].id
        BY <3>1, <3>2, <3>5, <1>12, <1>7 DEF RowsOrder
      <4>2. s[n].id \in Nat /\ rows[c.file][i].id \in Nat
        BY <3>1, <3>2, <1>7, RowTypes
      <4> QED
        BY <4>1, <4>2
    <3> QED
      BY <2>3, <3>3, <3>4, <3>5, <1>8 DEF CursorOrder
  <2> QED
    BY <1>7, <2>1, <2>2, <2>3
<1>14. CursorOrder(d, x)'
  BY <1>4, <1>7, <1>8, <1>11, <1>13, KeptRows DEF CursorOrder
<1>15. \A p \in Queries : QueryOrder(d, p)'
  <2>1. ASSUME NEW p \in Queries, p # q PROVE QueryOrder(d, p)'
    BY <2>1, <1>4, <1>10, <1>11, QueryKept DEF OrderInv
  <2> QED
    BY <2>1, <1>10, <1>14 DEF QueryOrder
<1>16. InsertOrder(d)'
  BY <1>4 DEF InsertOrder, Doing
<1>17. \A f \in Files : CopyOrder(d, f)' /\ Cover(d, f)'
  BY <1>4, <1>11, CopyKept, CoverKept DEF OrderInv
<1>18. OrderInv'
  BY <1>4, <1>10, <1>11, <1>15, <1>16, <1>17, OrderOthers
<1> QED
  BY <1>1, <1>10, <1>13, <1>18

\* A query that begins has all rows before it.
LEMMA NewCursor ==
    ASSUME Shape', NEW d \in FFDBs, NEW f \in Files, NEW s \in {"mem", "fp"}, NEW n \in Nat,
           RowsOrder(f)', CopyOrder(d, f)', NEW c, c = Cursor(f, s, n)
    PROVE  CursorOrder(d, c)'
<1>1. c.file = f /\ c.src = s /\ c.last = 0
  BY DEF Cursor
<1>2. \A i \in Valid(f)' : rows'[f][i].id > 0
  <2>1. \A i \in Valid(f)' : rows'[f][i].id \in 1..written'
    BY DEF RowsOrder
  <2>2. written' \in Nat
    BY DEF Shape, TypeOK
  <2> QED
    BY <2>1, <2>2
<1>3. \A i \in DOMAIN records'[d][f] : records'[d][f][i].id > 0
  BY <1>2 DEF CopyOrder, Stands
<1> QED
  BY <1>1, <1>2, <1>3 DEF CursorOrder

LEMMA QueryType ==
    ASSUME Shape
    PROVE  /\ query \in [FFDBs -> [Queries -> Reading \cup {<<>>}]]
           /\ \A c \in Reading : c \in Reading \cup {<<>>}
           /\ <<>> \in Reading \cup {<<>>}
  BY DEF Shape, TypeOK

LEMMA ReadEndOrder ==
    ASSUME Shape, Shape', OrderInv, UNCHANGED Inserters, NEW d \in FFDBs, NEW q \in Queries,
           ReadEnd(d, q) \/ ReadStop(d, q)
    PROVE  OrderInv'
<1>1. busy[d] = <<>> /\ UNCHANGED <<rows, written, stat, records, busy>>
  BY DEF ReadEnd, ReadStop, disk, mem
<1>2. query' = [query EXCEPT ![d][q] = <<>>]
  BY DEF ReadEnd, ReadStop
<1>3. Kept
  BY <1>1, SameKept
<1>4. /\ query'[d][q] = <<>> /\ \A e \in FFDBs : e # d => query'[e] = query[e]
      /\ \A p \in Queries : p # q => query'[d][p] = query[d][p]
  BY <1>2, QueryType, PutAt
<1>5. \A p \in Queries : QueryOrder(d, p)'
  <2>1. ASSUME NEW p \in Queries, p # q PROVE QueryOrder(d, p)'
    BY <2>1, <1>1, <1>3, <1>4, QueryKept DEF OrderInv
  <2>2. QueryOrder(d, q)'
    BY <1>4 DEF QueryOrder
  <2> QED
    BY <2>1, <2>2
<1>6. InsertOrder(d)'
  BY <1>1 DEF InsertOrder, Doing
<1>7. \A f \in Files : CopyOrder(d, f)' /\ Cover(d, f)'
  BY <1>1, <1>3, CopyKept, CoverKept DEF OrderInv
<1> QED
  BY <1>1, <1>3, <1>4, <1>5, <1>6, <1>7, OrderOthers

LEMMA OpenOrder ==
    ASSUME Shape, Shape', OrderInv, UNCHANGED Inserters, NEW d \in FFDBs, NEW q \in Queries,
           NEW f \in Files, OpenHit(d, q, f) \/ OpenStream(d, q, f)
    PROVE  OrderInv'
<1>1. busy[d] = <<>> /\ UNCHANGED <<rows, written, stat, records, busy>>
  BY DEF OpenHit, OpenStream, disk, mem
<1>2. PICK s \in {"mem", "fp"} : query' = [query EXCEPT ![d][q] = Cursor(f, s, Len(rows[f]))]
  BY DEF OpenHit, OpenStream
<1>3. PICK c : c = Cursor(f, s, Len(rows[f]))
  OBVIOUS
<1>4. c \in Reading
  BY <1>3, RowTypes, CursorNew
<1>5. Kept
  BY <1>1, SameKept
<1>6. /\ query'[d][q] = c /\ \A e \in FFDBs : e # d => query'[e] = query[e]
      /\ \A p \in Queries : p # q => query'[d][p] = query[d][p]
  <2>1. query' = [query EXCEPT ![d][q] = c]
    BY <1>2, <1>3
  <2> QED
    BY <2>1, <1>4, QueryType, PutAt
<1>7. \A g \in Files : RowsOrder(g)' /\ CopyOrder(d, g)' /\ Cover(d, g)'
  BY <1>1, <1>5, CopyKept, CoverKept, KeptRows DEF OrderInv
<1>8. CursorOrder(d, c)'
  BY <1>3, <1>7, RowTypes, NewCursor
<1>9. \A p \in Queries : QueryOrder(d, p)'
  <2>1. ASSUME NEW p \in Queries, p # q PROVE QueryOrder(d, p)'
    BY <2>1, <1>1, <1>5, <1>6, QueryKept DEF OrderInv
  <2>2. QueryOrder(d, q)'
    BY <1>6, <1>8 DEF QueryOrder
  <2> QED
    BY <2>1, <2>2
<1>10. InsertOrder(d)'
  BY <1>1 DEF InsertOrder, Doing
<1> QED
  BY <1>1, <1>5, <1>6, <1>7, <1>9, <1>10, OrderOthers

\* A step of d that is not about its copy of g.
LEMMA CoverMoved ==
    ASSUME Shape, Shape', Kept, UNCHANGED Inserters, NEW d \in FFDBs, NEW g \in Files,
           Cover(d, g), records'[d][g] = records[d][g], stat'[d][g] = stat[d][g],
           ~(Doing(d, "again") /\ busy[d].file = g), ~(Doing(d, "written") /\ busy[d].file = g),
           ~(Doing(d, "again")' /\ busy'[d].file = g)
    PROVE  Cover(d, g)'
  BY KeptRows DEF Cover

\* The copy is emptied; its queries will go on with the rows that are read now.
LEMMA OpenAgainOrder ==
    ASSUME Shape, Shape', OrderInv, UNCHANGED Inserters, NEW d \in FFDBs, NEW q \in Queries,
           NEW f \in Files, OpenAgain(d, q, f)
    PROVE  OrderInv'
<1>1. busy[d] = <<>> /\ UNCHANGED <<rows, written, query>> /\ \A op : ~Doing(d, op)
  BY DEF OpenAgain, disk, Doing
<1>2. PICK b : b = [op |-> "again", query |-> q, file |-> f, num |-> Len(rows[f]), time |-> mtime[f]]
  OBVIOUS
<1>3. /\ busy' = [busy EXCEPT ![d] = b]
      /\ stat' = [stat EXCEPT ![d][f] = mtime[f]] /\ records' = [records EXCEPT ![d][f] = <<>>]
  BY <1>2 DEF OpenAgain
<1>4. busy'[d] = b /\ \A e \in FFDBs : e # d => busy'[e] = busy[e]
  BY <1>3 DEF Shape, TypeOK
<1>5. /\ \A e \in FFDBs : e # d => stat'[e] = stat[e]
      /\ \A g \in Files : g # f => stat'[d][g] = stat[d][g]
  BY <1>3, RowTypes, PutAt DEF Shape, TypeOK
<1>6. /\ records'[d][f] = <<>> /\ \A e \in FFDBs : e # d => records'[e] = records[e]
      /\ \A g \in Files : g # f => records'[d][g] = records[d][g]
  <2>1. <<>> \in Seq(Row)
    OBVIOUS
  <2> QED
    BY <2>1, <1>3, PutAt DEF Shape, TypeOK
<1>7. Kept
  BY <1>1, SameKept
<1>8. \A op : Doing(d, op)' <=> op = "again"
  BY <1>2, <1>4 DEF Doing
<1>9. ASSUME NEW g \in Files PROVE CopyOrder(d, g)' /\ Cover(d, g)'
  <2>1. CASE g = f
    <3>1. CopyOrder(d, g)'
      BY <2>1, <1>6 DEF CopyOrder
    <3>2. \A i \in Valid(g)' : i <= Len(rows[f])
      BY <2>1, <1>1, RowTypes DEF Valid
    <3> QED
      BY <2>1, <3>1, <3>2, <1>2, <1>4, <1>8 DEF Cover
  <2>2. CASE g # f
    BY <2>2, <1>1, <1>2, <1>4, <1>5, <1>6, <1>7, CopyKept, CoverMoved DEF OrderInv
  <2> QED
    BY <2>1, <2>2
<1>10. ASSUME NEW p \in Queries PROVE QueryOrder(d, p)'
  <2>1. QueryOrder(d, p) /\ query'[d][p] = query[d][p]
    BY <1>1 DEF OrderInv
  <2>2. CASE query[d][p] # <<>> /\ query[d][p].src = "mem" /\ query[d][p].file = f
    <3>1. PICK c : c = query[d][p]
      OBVIOUS
    <3>2. CursorOrder(d, c)'
      BY <2>1, <2>2, <3>1, <1>6, <1>7, KeptRows DEF QueryOrder, CursorOrder
    <3> QED
      BY <2>1, <3>1, <3>2 DEF QueryOrder
  <2>3. CASE ~(query[d][p] # <<>> /\ query[d][p].src = "mem" /\ query[d][p].file = f)
    BY <2>1, <2>3, <1>6, <1>7, CursorFields, QueryKept
  <2> QED
    BY <2>2, <2>3
<1>11. InsertOrder(d)'
  BY <1>8 DEF InsertOrder
<1> QED
  BY <1>1, <1>4, <1>5, <1>6, <1>7, <1>9, <1>10, <1>11, OrderOthers

LEMMA OpenFirstOrder ==
    ASSUME Shape, Shape', OrderInv, UNCHANGED Inserters, NEW d \in FFDBs, NEW q \in Queries,
           NEW f \in Files, OpenFirst(d, q, f)
    PROVE  OrderInv'
<1>1. /\ busy[d] = <<>> /\ UNCHANGED <<rows, written, query, stat, records>> /\ \A op : ~Doing(d, op)
  BY DEF OpenFirst, disk, mem, Doing
<1>2. PICK b : b = [op |-> "first", query |-> q, file |-> f, num |-> Len(rows[f]), time |-> mtime[f]]
  OBVIOUS
<1>3. busy' = [busy EXCEPT ![d] = b]
  BY <1>2 DEF OpenFirst
<1>4. busy'[d] = b /\ \A e \in FFDBs : e # d => busy'[e] = busy[e]
  BY <1>3 DEF Shape, TypeOK
<1>5. Kept
  BY <1>1, SameKept
<1>6. \A op : Doing(d, op)' <=> op = "first"
  BY <1>2, <1>4 DEF Doing
<1>7. \A g \in Files : CopyOrder(d, g)' /\ Cover(d, g)'
  BY <1>1, <1>5, <1>6, CopyKept, CoverMoved DEF OrderInv
<1>8. \A p \in Queries : QueryOrder(d, p)'
  BY <1>1, <1>5, QueryKept DEF OrderInv
<1>9. InsertOrder(d)'
  BY <1>6 DEF InsertOrder
<1> QED
  BY <1>1, <1>4, <1>5, <1>7, <1>8, <1>9, OrderOthers

\* clearTables: what was before a query of the copy is its own now.
LEMMA ClearOrder ==
    ASSUME Shape, Shape', OrderInv, UNCHANGED Inserters, NEW d \in FFDBs, Clear(d) PROVE OrderInv'
<1>1. busy[d] = <<>> /\ UNCHANGED <<rows, written, busy>> /\ \A op : ~Doing(d, op) /\ ~Doing(d, op)'
  BY DEF Clear, disk, Doing
<1>2. /\ stat' = [stat EXCEPT ![d] = [f \in Files |-> 0]]
      /\ records' = [records EXCEPT ![d] = [f \in Files |-> <<>>]]
      /\ query' = [query EXCEPT ![d] = [q \in Queries |->
                    LET c == query[d][q]
                    IN  IF c # <<>> /\ c.src = "mem"
                        THEN [c EXCEPT !.src = "own", !.own = records[d][c.file]] ELSE c]]
  BY DEF Clear
<1>3. /\ \A g \in Files : stat'[d][g] = 0 /\ records'[d][g] = <<>>
      /\ \A e \in FFDBs : e # d => /\ stat'[e] = stat[e] /\ records'[e] = records[e]
                                   /\ query'[e] = query[e]
  BY <1>2 DEF Shape, TypeOK
<1>4. ASSUME NEW q \in Queries
      PROVE  LET c == query[d][q]
             IN  query'[d][q] = IF c # <<>> /\ c.src = "mem"
                                THEN [c EXCEPT !.src = "own", !.own = records[d][c.file]] ELSE c
  BY <1>2 DEF Shape, TypeOK
<1>5. Kept
  BY <1>1, SameKept
<1>6. \A g \in Files : CopyOrder(d, g)' /\ Cover(d, g)'
  BY <1>3 DEF CopyOrder, Cover
<1>7. ASSUME NEW q \in Queries PROVE QueryOrder(d, q)'
  <2>1. QueryOrder(d, q)
    BY DEF OrderInv
  <2>2. CASE query[d][q] # <<>> /\ query[d][q].src = "mem"
    <3>1. PICK c : c = query[d][q]
      OBVIOUS
    <3>2. PICK s : s = records[d][c.file]
      OBVIOUS
    <3>3. PICK x : x = [c EXCEPT !.src = "own", !.own = s]
      OBVIOUS
    <3>4. query'[d][q] = x
      BY <1>4, <2>2, <3>1, <3>2, <3>3
    <3>5. c \in Reading /\ c.file \in Files
      BY <2>2, <3>1, CursorType, CursorFields DEF Shape
    <3>6. x.file = c.file /\ x.src = "own" /\ x.own = s /\ x.pos = c.pos /\ x.last = c.last
      BY <3>3, <3>5 DEF Reading
    <3>7. CursorOrder(d, c) /\ CopyOrder(d, c.file)
      BY <2>1, <2>2, <3>1, <3>5 DEF OrderInv, QueryOrder
    <3>8. CursorOrder(d, x)'
      <4>1. x.last # 0 => Stands(x.file, 1, x.last)'
        BY <3>5, <3>6, <3>7, <1>5, KeptRows DEF CursorOrder
      <4>2. \A i \in DOMAIN x.own : i > x.pos => x.own[i].id > x.last
        BY <2>2, <3>1, <3>2, <3>6, <3>7 DEF CursorOrder
      <4>3. \A i, j \in DOMAIN x.own : i < j => x.own[i].id < x.own[j].id
        BY <3>2, <3>6, <3>7 DEF CopyOrder
      <4>4. \A i \in DOMAIN x.own : Stands(x.file, i, x.own[i].id)'
        BY <3>2, <3>5, <3>6, <3>7, <1>5, KeptRows DEF CopyOrder
      <4> QED
        BY <4>1, <4>2, <4>3, <4>4, <3>6 DEF CursorOrder
    <3> QED
      BY <3>4, <3>8 DEF QueryOrder
  <2>3. CASE ~(query[d][q] # <<>> /\ query[d][q].src = "mem")
    <3>1. query'[d][q] = query[d][q]
      BY <2>3, <1>4
    <3> QED
      BY <2>1, <2>3, <3>1, <1>5, QueryKept
  <2> QED
    BY <2>2, <2>3
<1>8. InsertOrder(d)'
  BY <1>1 DEF InsertOrder
<1> QED
  BY <1>1, <1>3, <1>5, <1>6, <1>7, <1>8, OrderOthers

\* A copy that has just been read has the first rows of its file, and queries of
\* the copy before it go on in it.
LEMMA LoadedOrder ==
    ASSUME Shape, Shape', Kept, NEW d \in FFDBs, NEW f \in Files, RowsOrder(f),
           NEW R \in Seq(Row), records'[d][f] = R,
           \A i \in DOMAIN R : i \in Valid(f) /\ R[i] = rows[f][i]
    PROVE  /\ CopyOrder(d, f)'
           /\ \A c : c.src = "mem" /\ c.file = f /\ c.pos \in Nat /\ CursorOrder(d, c) => CursorOrder(d, c)'
<1>0. DOMAIN R = 1..Len(R) /\ Len(R) \in Nat
  OBVIOUS
<1>1. \A i, j \in DOMAIN R : i < j => R[i].id < R[j].id
  BY DEF RowsOrder
<1>2. \A i \in DOMAIN R : Stands(f, i, R[i].id)
  BY <1>0 DEF Stands
<1>3. \A i \in DOMAIN R : rows'[f][i].id = R[i].id
  BY KeptRows
<1>4. CopyOrder(d, f)'
  BY <1>1, <1>2, <1>3, KeptRows DEF CopyOrder
<1>5. ASSUME NEW c, c.src = "mem", c.file = f, c.pos \in Nat, CursorOrder(d, c) PROVE CursorOrder(d, c)'
  <2>1. ASSUME NEW i \in DOMAIN R, i > c.pos PROVE R[i].id > c.last
    <3>1. 1..i \subseteq DOMAIN R
      BY <1>0
    <3>2. Prefix(f, i) /\ i \in Valid(f)
      BY <3>1 DEF Prefix
    <3> QED
      BY <1>5, <2>1, <3>2 DEF CursorOrder
  <2> QED
    BY <1>5, <2>1, KeptRows DEF CursorOrder
<1> QED
  BY <1>4, <1>5

\* The copy of d was read or added to, and one of its queries begins.
LEMMA LoadQueries ==
    ASSUME Shape, Shape', OrderInv, Kept, NEW d \in FFDBs, NEW f \in Files,
           \A g \in Files : g # f => records'[d][g] = records[d][g],
           \A c : c.src = "mem" /\ c.file = f /\ c.pos \in Nat /\ CursorOrder(d, c) => CursorOrder(d, c)'
    PROVE  \A p \in Queries : query'[d][p] = query[d][p] => QueryOrder(d, p)'
<1> SUFFICES ASSUME NEW p \in Queries, query'[d][p] = query[d][p] PROVE QueryOrder(d, p)'
  OBVIOUS
<1>1. QueryOrder(d, p)
  BY DEF OrderInv
<1>2. CASE query[d][p] # <<>> /\ query[d][p].src = "mem" /\ query[d][p].file = f
  <2>1. PICK c : c = query[d][p]
    OBVIOUS
  <2>2. c.pos \in Nat
    BY <1>2, <2>1, CursorFields
  <2>3. CursorOrder(d, c)'
    BY <1>1, <1>2, <2>1, <2>2 DEF QueryOrder
  <2> QED
    BY <2>1, <2>3 DEF QueryOrder
<1>3. CASE ~(query[d][p] # <<>> /\ query[d][p].src = "mem" /\ query[d][p].file = f)
  BY <1>1, <1>3, CursorFields, QueryKept
<1> QED
  BY <1>2, <1>3

\* readFile of a copy that was emptied.
LEMMA LoadAgainOrder ==
    ASSUME Shape, Shape', OrderInv, UNCHANGED Inserters, NEW d \in FFDBs, LoadAgain(d) PROVE OrderInv'
<1>1. /\ Doing(d, "again") /\ ~Doing(d, "written") /\ UNCHANGED <<rows, written, stat>>
      /\ busy' = [busy EXCEPT ![d] = <<>>]
  BY DEF LoadAgain, Doing, disk
<1>2. busy[d] \in Opening
  BY <1>1, BusyType DEF Shape
<1>3. PICK f \in Files : f = busy[d].file
  BY <1>2 DEF Opening
<1>4. PICK n \in Nat : n = busy[d].num
  BY <1>2 DEF Opening
<1>5. PICK q \in Queries : q = busy[d].query
  BY <1>2 DEF Opening
<1>6. n <= Len(rows[f]) /\ rows[f] \in Seq(Row)
  BY <1>1, <1>3, <1>4, RowTypes DEF Shape
<1>7. PICK s : s = SubSeq(rows[f], 1, n)
  OBVIOUS
<1>8. s \in Seq(Row) /\ DOMAIN s = 1..n /\ \A i \in 1..n : s[i] = rows[f][i]
  <2>1. \A i \in 1..n : rows[f][i] \in Row
    BY <1>6
  <2>2. s \in Seq(Row) /\ Len(s) = n /\ \A i \in 1..n : s[i] = rows[f][i]
    <3>1. 1 \in Int /\ n \in Int /\ Len(rows[f]) \in Nat
      BY <1>6
    <3> QED
      BY <1>6, <1>7, <2>1, <3>1, SubSeqProperties
  <2> QED
    BY <2>2
<1>9. PICK R : R = Readable(s)
  OBVIOUS
<1>10. R \in Seq(Row) /\ \A i \in DOMAIN R : i \in Valid(f) /\ R[i] = rows[f][i]
  <2>1. /\ R \in Seq(Row)
        /\ \A i \in DOMAIN R : i \in DOMAIN s /\ R[i] = s[i] /\ s[i].ver # 0
    BY <1>8, <1>9, ReadableRows
  <2>2. 1..n \subseteq DOMAIN rows[f]
    BY <1>6
  <2> QED
    BY <2>1, <2>2, <1>8 DEF Valid
<1>11. records' = [records EXCEPT ![d][f] = R]
  BY <1>3, <1>4, <1>7, <1>9 DEF LoadAgain
<1>12. /\ records'[d][f] = R /\ \A e \in FFDBs : e # d => records'[e] = records[e]
       /\ \A g \in Files : g # f => records'[d][g] = records[d][g]
  BY <1>10, <1>11, PutAt DEF Shape, TypeOK
<1>13. busy'[d] = <<>> /\ (\A op : ~Doing(d, op)') /\ \A e \in FFDBs : e # d => busy'[e] = busy[e]
  BY <1>1 DEF Shape, TypeOK, Doing
<1>14. Kept
  BY <1>1, SameKept
<1>15. RowsOrder(f)' /\ RowsOrder(f)
  BY <1>14, KeptRows DEF OrderInv
<1>16. /\ CopyOrder(d, f)'
       /\ \A c : c.src = "mem" /\ c.file = f /\ c.pos \in Nat /\ CursorOrder(d, c) => CursorOrder(d, c)'
  BY <1>10, <1>12, <1>14, <1>15, LoadedOrder
<1>17. ASSUME NEW g \in Files PROVE CopyOrder(d, g)' /\ Cover(d, g)'
  <2>1. CASE g = f
    <3>1. ASSUME d \in Inserters, stat[d][f] # 0, NEW i \in Valid(f), Prefix(f, i)
          PROVE  i <= Len(R)
      <4>1. i <= n
        BY <3>1, <1>1, <1>3, <1>4 DEF OrderInv, Cover
      <4>2. i \in Nat /\ i >= 1
        BY RowTypes
      <4>3. i \in 1..n /\ \A k \in 1..i : k \in Valid(f) /\ k \in 1..n
        BY <3>1, <4>1, <4>2 DEF Prefix
      <4>4. \A k \in 1..i : s[k].ver # 0
        BY <4>3, <1>8 DEF Valid
      <4> QED
        BY <4>3, <4>4, <1>8, <1>9, ReadableRows
    <3>2. Cover(d, f)'
      BY <3>1, <1>1, <1>12, <1>13, <1>14, KeptRows DEF Cover
    <3> QED
      BY <2>1, <3>2, <1>16
  <2>2. CASE g # f
    BY <2>2, <1>1, <1>3, <1>12, <1>13, <1>14, CopyKept, CoverMoved DEF OrderInv
  <2> QED
    BY <2>1, <2>2
<1>18. PICK c : c = Cursor(f, "mem", n)
  OBVIOUS
<1>19. query' = query \/ query' = [query EXCEPT ![d][q] = c]
  BY <1>3, <1>4, <1>5, <1>18 DEF LoadAgain
<1>20. \A p \in Queries : query'[d][p] = query[d][p] => QueryOrder(d, p)'
  BY <1>12, <1>14, <1>16, LoadQueries
<1>21. c \in Reading /\ CursorOrder(d, c)'
  BY <1>15, <1>16, <1>18, NewCursor, CursorNew
<1>22. (\A e \in FFDBs : e # d => query'[e] = query[e]) /\ \A p \in Queries : QueryOrder(d, p)'
  <2>1. CASE query' = query
    BY <2>1, <1>20
  <2>2. CASE query' = [query EXCEPT ![d][q] = c]
    <3>1. /\ query'[d][q] = c /\ \A e \in FFDBs : e # d => query'[e] = query[e]
          /\ \A p \in Queries : p # q => query'[d][p] = query[d][p]
      BY <2>2, <1>21, QueryType, PutAt
    <3>2. QueryOrder(d, q)'
      BY <3>1, <1>21 DEF QueryOrder
    <3> QED
      BY <3>1, <3>2, <1>20
  <2> QED
    BY <2>1, <2>2, <1>19
<1>23. InsertOrder(d)'
  BY <1>13 DEF InsertOrder
<1> QED
  BY <1>1, <1>12, <1>13, <1>14, <1>17, <1>22, <1>23, OrderOthers

\* readFile of a file that was not in memory.
LEMMA LoadFirstOrder ==
    ASSUME Shape, Shape', OrderInv, UNCHANGED Inserters, NEW d \in FFDBs, LoadFirst(d) PROVE OrderInv'
<1>1. /\ Doing(d, "first") /\ ~Doing(d, "written") /\ ~Doing(d, "again") /\ UNCHANGED <<rows, written>>
      /\ busy' = [busy EXCEPT ![d] = <<>>]
  BY DEF LoadFirst, Doing, disk
<1>2. busy[d] \in Opening
  BY <1>1, BusyType DEF Shape
<1>3. PICK f \in Files : f = busy[d].file
  BY <1>2 DEF Opening
<1>4. PICK n \in Nat : n = busy[d].num
  BY <1>2 DEF Opening
<1>5. PICK q \in Queries : q = busy[d].query
  BY <1>2 DEF Opening
<1>6. busy'[d] = <<>> /\ (\A op : ~Doing(d, op)') /\ \A e \in FFDBs : e # d => busy'[e] = busy[e]
  BY <1>1 DEF Shape, TypeOK, Doing
<1>7. Kept
  BY <1>1, SameKept
<1>8. InsertOrder(d)'
  BY <1>6 DEF InsertOrder
<1>9. rows[f] \in Seq(Row)
  BY RowTypes
<1>10. CASE Parsed(rows[f]) # 0
  <2>1. UNCHANGED <<stat, records, query>>
    BY <1>3, <1>10 DEF LoadFirst, mem
  <2>2. \A g \in Files : CopyOrder(d, g)' /\ Cover(d, g)'
    BY <2>1, <1>1, <1>6, <1>7, CopyKept, CoverMoved DEF OrderInv
  <2>3. \A p \in Queries : QueryOrder(d, p)'
    BY <2>1, <1>7, QueryKept DEF OrderInv
  <2> QED
    BY <2>1, <2>2, <2>3, <1>6, <1>7, <1>8, OrderOthers
<1>11. CASE Parsed(rows[f]) = 0
  <2>1. PICK c : c = Cursor(f, "mem", n)
    OBVIOUS
  <2>2. /\ records' = [records EXCEPT ![d][f] = rows[f]] /\ query' = [query EXCEPT ![d][q] = c]
        /\ stat' = [stat EXCEPT ![d][f] = busy[d].time] /\ busy[d].time \in Nat
    BY <1>2, <1>3, <1>4, <1>5, <1>11, <2>1 DEF LoadFirst, Opening
  <2>3. /\ records'[d][f] = rows[f] /\ \A e \in FFDBs : e # d => records'[e] = records[e]
        /\ \A g \in Files : g # f => records'[d][g] = records[d][g]
    BY <2>2, <1>9, PutAt DEF Shape, TypeOK
  <2>4. /\ \A e \in FFDBs : e # d => stat'[e] = stat[e]
        /\ \A g \in Files : g # f => stat'[d][g] = stat[d][g]
    BY <2>2, PutAt DEF Shape, TypeOK
  <2>5. \A i \in DOMAIN rows[f] : i \in Valid(f)
    BY <1>9, <1>11, ReadableRows DEF Valid
  <2>6. RowsOrder(f)' /\ RowsOrder(f)
    BY <1>7, KeptRows DEF OrderInv
  <2>7. /\ CopyOrder(d, f)'
        /\ \A x : x.src = "mem" /\ x.file = f /\ x.pos \in Nat /\ CursorOrder(d, x) => CursorOrder(d, x)'
    BY <1>7, <1>9, <2>3, <2>5, <2>6, LoadedOrder
  <2>8. ASSUME NEW g \in Files PROVE CopyOrder(d, g)' /\ Cover(d, g)'
    <3>1. CASE g = f
      <4>1. \A i \in Valid(f)' : i <= Len(records'[d][f])
        BY <1>1, <2>3, RowTypes DEF Valid
      <4> QED
        BY <3>1, <4>1, <2>7, <1>6 DEF Cover
    <3>2. CASE g # f
      BY <3>2, <1>1, <1>6, <1>7, <2>3, <2>4, CopyKept, CoverMoved DEF OrderInv
    <3> QED
      BY <3>1, <3>2
  <2>9. \A p \in Queries : query'[d][p] = query[d][p] => QueryOrder(d, p)'
    BY <1>7, <2>3, <2>7, LoadQueries
  <2>10. c \in Reading /\ CursorOrder(d, c)'
    BY <2>1, <2>6, <2>7, NewCursor, CursorNew
  <2>11. (\A e \in FFDBs : e # d => query'[e] = query[e]) /\ \A p \in Queries : QueryOrder(d, p)'
    <3>1. /\ query'[d][q] = c /\ \A e \in FFDBs : e # d => query'[e] = query[e]
          /\ \A p \in Queries : p # q => query'[d][p] = query[d][p]
      BY <2>2, <2>10, QueryType, PutAt
    <3>2. QueryOrder(d, q)'
      BY <3>1, <2>10 DEF QueryOrder
    <3> QED
      BY <3>1, <3>2, <2>9
  <2> QED
    BY <1>6, <1>7, <1>8, <2>3, <2>4, <2>8, <2>11, OrderOthers
<1> QED
  BY <1>10, <1>11

\* The new number is larger than all others.
LEMMA InsertSeekOrder ==
    ASSUME Shape, Shape', OrderInv, UNCHANGED Inserters, NEW d \in Inserters, d \in FFDBs,
           NEW f \in Files, InsertSeek(d, f)
    PROVE  OrderInv'
<1>1. /\ busy[d] = <<>> /\ UNCHANGED <<rows, query, stat, records>> /\ \A op : ~Doing(d, op)
      /\ written' = written + 1
  BY DEF InsertSeek, mem, Doing
<1>2. PICK b : b = [op |-> "seek", file |-> f, id |-> written + 1, pos |-> Len(rows[f]) + 1]
  OBVIOUS
<1>3. busy' = [busy EXCEPT ![d] = b]
  BY <1>2 DEF InsertSeek
<1>4. busy'[d] = b /\ \A e \in FFDBs : e # d => busy'[e] = busy[e]
  BY <1>3 DEF Shape, TypeOK
<1>5. Kept
  BY <1>1 DEF Kept, Longer, Valid, Shape, TypeOK
<1>6. \A op : Doing(d, op)' <=> op = "seek"
  BY <1>2, <1>4 DEF Doing
<1>7. \A g \in Files : CopyOrder(d, g)' /\ Cover(d, g)'
  BY <1>1, <1>5, <1>6, CopyKept, CoverMoved DEF OrderInv
<1>8. \A p \in Queries : QueryOrder(d, p)'
  BY <1>1, <1>5, QueryKept DEF OrderInv
<1>9. InsertOrder(d)'
  <2>1. written \in Nat /\ Len(rows[f]) \in Nat
    BY RowTypes
  <2>2. b.id \in 1..written' /\ b.pos \in 1..Len(rows[f]) + 1 /\ b.file = f
    BY <1>1, <1>2, <2>1
  <2>3. \A j \in Valid(f) : j < b.pos /\ rows[f][j].id < b.id
    <3>1. \A j \in Valid(f) : j \in 1..Len(rows[f]) /\ rows[f][j].id \in 1..written
      BY RowTypes DEF OrderInv, RowsOrder
    <3> QED
      BY <1>2, <2>1, <3>1
  <2> QED
    BY <1>1, <1>4, <1>5, <1>6, <2>2, <2>3, KeptRows DEF InsertOrder
<1> QED
  BY <1>1, <1>4, <1>5, <1>7, <1>8, <1>9, OrderOthers

\* The row is written behind all rows that can be parsed, whatever stood there.
LEMMA InsertWriteRows ==
    ASSUME Shape, Shape', OrderInv, NEW d \in Inserters, d \in FFDBs, InsertWrite(d),
           NEW b, b = busy[d], NEW f, f = b.file, NEW p, p = b.pos
    PROVE  /\ Doing(d, "seek") /\ b \in Inserting /\ f \in Files /\ p \in Nat /\ p > 0
           /\ b.id \in 1..written
           /\ \A j \in Valid(f) : j < p /\ rows[f][j].id < b.id
           /\ Valid(f)' = Valid(f) \cup {p} /\ p \notin Valid(f)
           /\ rows'[f][p].id = b.id /\ \A j \in Valid(f) : rows'[f][j] = rows[f][j]
           /\ \A g \in Files : g # f => rows'[g] = rows[g]
           /\ UNCHANGED <<written, stat, records, query>>
           /\ busy'[d] = [b EXCEPT !.op = "written"]
           /\ \A e \in FFDBs : e # d => busy'[e] = busy[e]
<1> DEFINE n == Len(rows[f])
<1>1. Doing(d, "seek")
  BY DEF InsertWrite, Doing
<1>2. b \in Inserting
  BY <1>1, BusyType DEF Shape
<1>3. f \in Files /\ p \in Nat
  BY <1>2 DEF Inserting
<1>4. /\ p \in 1..n + 1 /\ b.id \in 1..written
      /\ \A j \in Valid(f) : j < p /\ rows[f][j].id < b.id
  BY <1>1 DEF OrderInv, InsertOrder
<1>5. PICK r : r = New(b.id)
  OBVIOUS
<1>6. r.id = b.id /\ r.ver = 1 /\ r \in Row
  BY <1>2, <1>5 DEF New, Row, Inserting
<1>7. rows[f] \in Seq(Row) /\ n \in Nat /\ DOMAIN rows[f] = 1..n /\ rows \in [Files -> Seq(Row)]
  BY <1>3, RowTypes DEF Shape, TypeOK
<1>8. PICK s : s = IF p > n THEN Append(rows[f], r) ELSE ReplaceAt(rows[f], p, r)
  OBVIOUS
<1>9. rows' = [rows EXCEPT ![f] = s]
  BY <1>5, <1>8 DEF InsertWrite
<1>10. rows'[f] = s /\ \A g \in Files : g # f => rows'[g] = rows[g]
  BY <1>3, <1>7, <1>9
<1>11. /\ s[p] = r /\ p \in DOMAIN s
       /\ \A j \in 1..n : j # p => j \in DOMAIN s /\ s[j] = rows[f][j]
       /\ \A j \in DOMAIN s : j \in 1..n \/ j = p
  <2>1. CASE p > n
    <3>1. p = n + 1 /\ s = Append(rows[f], r)
      BY <2>1, <1>3, <1>4, <1>7, <1>8
    <3>2. /\ Len(s) = n + 1 /\ s[n + 1] = r /\ \A j \in 1..n : s[j] = rows[f][j]
          /\ DOMAIN s = 1..n + 1
      BY <3>1, <1>6, <1>7, AppendProperties
    <3> QED
      BY <3>1, <3>2, <1>7
  <2>2. CASE ~(p > n)
    <3>1. p \in 1..n
      BY <2>2, <1>3, <1>4, <1>7
    <3>2. s = [rows[f] EXCEPT ![p] = r]
      BY <2>2, <1>8 DEF ReplaceAt
    <3>3. DOMAIN s = 1..n /\ s[p] = r /\ \A j \in 1..n : j # p => s[j] = rows[f][j]
      BY <3>1, <3>2, <1>7
    <3> QED
      BY <3>1, <3>3
  <2> QED
    BY <2>1, <2>2
<1>12. p \notin Valid(f)
  <2>1. ~(p < p)
    BY <1>3
  <2> QED
    BY <2>1, <1>4
<1>13. \A j \in Valid(f) : j \in 1..n /\ j # p
  BY <1>7, <1>12 DEF Valid
<1>14. Valid(f)' = Valid(f) \cup {p}
  <2>1. ASSUME NEW j PROVE j \in {i \in DOMAIN s : s[i].ver # 0} <=> j \in Valid(f) \cup {p}
    BY <1>6, <1>7, <1>11, <1>13 DEF Valid
  <2>2. \A g \in Files : Valid(g)' = {i \in DOMAIN rows'[g] : rows'[g][i].ver # 0}
    BY DEF Valid
  <2>3. {i \in DOMAIN s : s[i].ver # 0} = Valid(f) \cup {p}
    BY <2>1
  <2> QED
    BY <2>2, <2>3, <1>3, <1>10
<1>15. rows'[f][p].id = b.id /\ \A j \in Valid(f) : rows'[f][j] = rows[f][j]
  BY <1>6, <1>10, <1>11, <1>13
<1>16. /\ UNCHANGED <<written, stat, records, query>>
       /\ busy' = [busy EXCEPT ![d] = [b EXCEPT !.op = "written"]]
  BY DEF InsertWrite, mem
<1>17. busy'[d] = [b EXCEPT !.op = "written"] /\ \A e \in FFDBs : e # d => busy'[e] = busy[e]
  BY <1>16 DEF Shape, TypeOK
<1> QED
  BY <1>1, <1>2, <1>3, <1>4, <1>10, <1>12, <1>14, <1>15, <1>16, <1>17

LEMMA InsertWriteOrder ==
    ASSUME Shape, Shape', OrderInv, OneInserter, UNCHANGED Inserters, NEW d \in Inserters, d \in FFDBs,
           InsertWrite(d)
    PROVE  OrderInv'
<1>1. PICK b : b = busy[d]
  OBVIOUS
<1>2. PICK f : f = b.file
  OBVIOUS
<1>3. PICK p : p = b.pos
  OBVIOUS
<1>4. /\ Doing(d, "seek") /\ b \in Inserting /\ f \in Files /\ p \in Nat /\ p > 0
      /\ b.id \in 1..written
      /\ \A j \in Valid(f) : j < p /\ rows[f][j].id < b.id
      /\ Valid(f)' = Valid(f) \cup {p} /\ p \notin Valid(f)
      /\ rows'[f][p].id = b.id /\ \A j \in Valid(f) : rows'[f][j] = rows[f][j]
      /\ \A g \in Files : g # f => rows'[g] = rows[g]
      /\ UNCHANGED <<written, stat, records, query>>
      /\ busy'[d] = [b EXCEPT !.op = "written"]
      /\ \A e \in FFDBs : e # d => busy'[e] = busy[e]
  BY <1>1, <1>2, <1>3, InsertWriteRows
<1>5. \A op : Doing(d, op)' <=> op = "written"
  <2>1. busy'[d].op = "written" /\ busy'[d].id = b.id /\ "op" \in DOMAIN busy'[d]
    BY <1>4 DEF Inserting
  <2>2. busy'[d] # <<>>
    <3>1. DOMAIN <<>> = {}
      OBVIOUS
    <3> QED
      BY <2>1, <3>1
  <2> QED
    BY <2>1, <2>2 DEF Doing
<1>6. busy'[d].file = f /\ busy'[d].pos = p /\ busy'[d].id = b.id /\ b.id \in Nat
  BY <1>2, <1>3, <1>4 DEF Inserting
<1>7. \A g \in Files : g # f => Valid(g)' = Valid(g)
  BY <1>4 DEF Valid
<1>8. \A g \in Files : \A i, id : Stands(g, i, id) => Stands(g, i, id)'
  <2>1. ASSUME NEW g \in Files, NEW i, NEW id, Stands(g, i, id), g = f PROVE Stands(g, i, id)'
    BY <2>1, <1>4 DEF Stands
  <2>2. ASSUME NEW g \in Files, NEW i, NEW id, Stands(g, i, id), g # f PROVE Stands(g, i, id)'
    BY <2>2, <1>4, <1>7 DEF Stands
  <2> QED
    BY <2>1, <2>2
<1>9. \A i \in Nat : \A id : Stands(f, i, id) => id < b.id /\ i < p
  <2> SUFFICES ASSUME NEW i \in Nat, NEW id, NEW j \in Valid(f), i <= j, rows[f][j].id = id
               PROVE  id < b.id /\ i < p
    BY DEF Stands
  <2>1. j \in Nat
    BY <1>4, RowTypes
  <2> QED
    BY <2>1, <1>4
<1>10. ASSUME NEW i \in Nat, i > 0, Prefix(f, i)' PROVE i = p \/ (i < p /\ i \in Valid(f) /\ Prefix(f, i))
  <2>1. 1..i \subseteq Valid(f) \cup {p} /\ i \in 1..i
    BY <1>10, <1>4 DEF Prefix
  <2>2. CASE i # p
    <3>1. i \in Valid(f) /\ i < p
      BY <2>1, <2>2, <1>4
    <3>2. p \notin 1..i
      BY <3>1, <1>4
    <3> QED
      BY <2>1, <3>1, <3>2 DEF Prefix
  <2> QED
    BY <2>2
<1>11. \A g \in Files : g # f => \A i : Prefix(g, i)' <=> Prefix(g, i)
  BY <1>7 DEF Prefix
<1>12. ASSUME NEW g \in Files PROVE RowsOrder(g)'
  <2>1. RowsOrder(g)
    BY DEF OrderInv
  <2>2. CASE g = f
    <3>1. ASSUME NEW i \in Valid(f) \cup {p}, NEW j \in Valid(f) \cup {p}, i < j
          PROVE  rows'[f][i].id < rows'[f][j].id
      <4>1. CASE i = p
        <5>1. j \in Valid(f) \/ j = p
          OBVIOUS
        <5>2. j < p \/ j = p
          BY <5>1, <1>4
        <5>3. j \in Nat /\ p \in Nat
          BY <5>1, <1>4, RowTypes
        <5> QED
          BY <3>1, <4>1, <5>2, <5>3
      <4>2. CASE i # p
        BY <2>1, <2>2, <3>1, <4>2, <1>4 DEF RowsOrder
      <4> QED
        BY <4>1, <4>2
    <3>2. \A i \in Valid(f) \cup {p} : rows'[f][i].id \in 1..written'
      BY <2>1, <2>2, <1>4 DEF RowsOrder
    <3> QED
      BY <2>2, <3>1, <3>2, <1>4 DEF RowsOrder
  <2>3. CASE g # f
    BY <2>1, <2>3, <1>4, <1>7 DEF RowsOrder
  <2> QED
    BY <2>2, <2>3
<1>13. ASSUME NEW e \in FFDBs PROVE InsertOrder(e)'
  <2>1. CASE e = d
    <3>1. \A i \in DOMAIN records[d][f] : records[d][f][i].id < b.id
      <4>1. \A i \in DOMAIN records[d][f] : i \in Nat /\ Stands(f, i, records[d][f][i].id)
        BY <1>4, CopyTypes DEF OrderInv, CopyOrder
      <4> QED
        BY <4>1, <1>9
    <3>2. \A q \in Queries : query[d][q] # <<>> /\ query[d][q].file = f => query[d][q].last < b.id
      <4> SUFFICES ASSUME NEW q \in Queries, query[d][q] # <<>>, query[d][q].file = f
                   PROVE  query[d][q].last < b.id
        OBVIOUS
      <4>1. query[d][q].last = 0 \/ Stands(f, 1, query[d][q].last)
        BY DEF OrderInv, QueryOrder, CursorOrder
      <4>2. b.id > 0
        BY <1>4, <1>6
      <4> QED
        BY <4>1, <4>2, <1>9
    <3>3. \A j \in Valid(f)' : j <= p
      <4>1. \A j \in Valid(f) : j < p /\ j \in Nat
        BY <1>4, RowTypes
      <4> QED
        BY <4>1, <1>4
    <3>4. b.id \in 1..written' /\ d \in Inserters'
      BY <1>4
    <3> QED
      BY <2>1, <3>1, <3>2, <3>3, <3>4, <1>4, <1>5, <1>6 DEF InsertOrder
  <2>2. CASE e # d
    <3>1. e \notin Inserters /\ InsertOrder(e)
      BY <2>2 DEF OneInserter, OrderInv
    <3> QED
      BY <2>2, <3>1, <1>4 DEF InsertOrder, Doing
  <2> QED
    BY <2>1, <2>2
<1>14. ASSUME NEW e \in FFDBs, NEW g \in Files PROVE CopyOrder(e, g)' /\ Cover(e, g)'
  <2>1. CopyOrder(e, g) /\ Cover(e, g)
    BY DEF OrderInv
  <2>1a. PICK R : R = records[e][g] /\ R = records'[e][g]
    BY <1>4
  <2>1b. /\ \A i, j \in DOMAIN R : i < j => R[i].id < R[j].id
         /\ \A i \in DOMAIN R : Stands(g, i, R[i].id)
         /\ \A i \in DOMAIN R : Prefix(g, i) => rows[g][i].id = R[i].id
    BY <2>1, <2>1a DEF CopyOrder
  <2>1c. \A i \in DOMAIN R : Stands(g, i, R[i].id)'
    BY <2>1b, <1>8
  <2>1d. (\A i \in DOMAIN R : Prefix(g, i)' => rows'[g][i].id = R[i].id) => CopyOrder(e, g)'
    BY <2>1a, <2>1b, <2>1c DEF CopyOrder
  <2>2. CASE g # f
    <3>1. CopyOrder(e, g)'
      BY <2>1b, <2>1d, <2>2, <1>4, <1>11
    <3>2. Cover(e, g)'
      <4>1. CASE e = d
        BY <2>1, <2>2, <4>1, <1>1, <1>2, <1>4, <1>5, <1>6, <1>7, <1>11 DEF Cover, Doing
      <4>2. CASE e # d
        BY <4>2 DEF Cover, OneInserter
      <4> QED
        BY <4>1, <4>2
    <3> QED
      BY <3>1, <3>2
  <2>3. CASE g = f
    <3>1. CopyOrder(e, f)'
      <4>1. ASSUME NEW i \in DOMAIN R, Prefix(f, i)' PROVE rows'[f][i].id = R[i].id
        <5>1. i \in Nat /\ i > 0
          <6>1. DOMAIN R = 1..Len(R) /\ Len(R) \in Nat
            BY <2>1a, CopyTypes
          <6> QED
            BY <6>1
        <5>2. i < p
          BY <2>1b, <2>3, <5>1, <1>9
        <5>3. Prefix(f, i) /\ i \in Valid(f)
          BY <4>1, <5>1, <5>2, <1>4, <1>10
        <5> QED
          BY <2>1b, <2>3, <5>3, <1>4
      <4> QED
        BY <2>1d, <2>3, <4>1
    <3>2. Cover(e, f)'
      <4>1. CASE e = d
        <5>1. SUFFICES ASSUME stat[d][f] # 0, NEW i \in Valid(f)', Prefix(f, i)', i # p
                       PROVE  i <= Len(records[d][f])
          BY <4>1, <5>1, <1>4, <1>5, <1>6 DEF Cover
        <5>2. i \in Nat /\ i > 0 /\ i \in Valid(f)
          BY <5>1, <1>4, RowTypes
        <5>3. Prefix(f, i)
          BY <5>1, <5>2, <1>10
        <5>4. ~Doing(d, "again") /\ ~Doing(d, "written")
          BY <1>4 DEF Doing
        <5> QED
          BY <2>1, <2>3, <4>1, <5>1, <5>2, <5>3, <5>4 DEF Cover
      <4>2. CASE e # d
        BY <4>2 DEF Cover, OneInserter
      <4> QED
        BY <4>1, <4>2
    <3> QED
      BY <2>3, <3>1, <3>2
  <2> QED
    BY <2>2, <2>3
<1>15. ASSUME NEW e \in FFDBs, NEW q \in Queries PROVE QueryOrder(e, q)'
  <2>1. SUFFICES ASSUME query[e][q] # <<>> PROVE QueryOrder(e, q)'
    BY <1>4 DEF QueryOrder
  <2>2. PICK c : c = query[e][q]
    OBVIOUS
  <2>3. CursorOrder(e, c)
    BY <2>1, <2>2 DEF OrderInv, QueryOrder
  <2>4. c.file \in Files /\ c.last \in Nat /\ c.pos \in Nat /\ c.src \in {"mem", "own", "fp"}
    BY <2>1, <2>2, CursorFields
  <2>5. c.last # 0 => Stands(c.file, 1, c.last)'
    BY <2>3, <2>4, <1>8 DEF CursorOrder
  <2>6. c.file = f => c.last < b.id
    BY <2>3, <2>4, <1>4, <1>6, <1>9 DEF CursorOrder
  <2>7. ASSUME c.src = "fp", NEW i \in Valid(c.file)', i > c.pos PROVE rows'[c.file][i].id > c.last
    <3>1. CASE c.file = f /\ i = p
      BY <2>4, <2>6, <3>1, <1>4, <1>6
    <3>2. CASE c.file = f /\ i # p
      <4>1. i \in Valid(f)
        BY <2>7, <3>2, <1>4
      <4> QED
        BY <2>3, <2>7, <3>2, <4>1, <1>4 DEF CursorOrder
    <3>3. CASE c.file # f
      BY <2>3, <2>4, <2>7, <3>3, <1>4, <1>7 DEF CursorOrder
    <3> QED
      BY <3>1, <3>2, <3>3
  <2>8. ASSUME c.src = "own"
        PROVE  /\ \A i \in DOMAIN c.own : i > c.pos => c.own[i].id > c.last
               /\ \A i, j \in DOMAIN c.own : i < j => c.own[i].id < c.own[j].id
               /\ \A i \in DOMAIN c.own : Stands(c.file, i, c.own[i].id)'
    BY <2>3, <2>4, <2>8, <1>8 DEF CursorOrder
  <2>9. ASSUME c.src = "mem", NEW i \in Valid(c.file)', i > c.pos, Prefix(c.file, i)'
        PROVE  rows'[c.file][i].id > c.last
    <3>1. CASE c.file = f /\ i = p
      BY <2>4, <2>6, <3>1, <1>4, <1>6
    <3>2. CASE c.file = f /\ i # p
      <4>1. i \in Nat /\ i > 0
        <5>1. i \in Valid(f)
          BY <2>9, <3>2, <1>4
        <5> QED
          BY <5>1, <1>4, RowTypes
      <4>2. i \in Valid(f) /\ Prefix(f, i)
        BY <2>9, <3>2, <4>1, <1>10
      <4> QED
        BY <2>3, <2>9, <3>2, <4>2, <1>4 DEF CursorOrder
    <3>3. CASE c.file # f
      BY <2>3, <2>4, <2>9, <3>3, <1>4, <1>7, <1>11 DEF CursorOrder
    <3> QED
      BY <3>1, <3>2, <3>3
  <2>10. c.src = "mem" => \A i \in DOMAIN records'[e][c.file] :
                             i > c.pos => records'[e][c.file][i].id > c.last
    <3>1. PICK R : R = records[e][c.file] /\ R = records'[e][c.file]
      BY <1>4
    <3>2. c.src = "mem" => \A i \in DOMAIN R : i > c.pos => R[i].id > c.last
      BY <2>3, <3>1 DEF CursorOrder
    <3> QED
      BY <3>1, <3>2
  <2>11. CursorOrder(e, c)'
    BY <2>5, <2>7, <2>8, <2>9, <2>10 DEF CursorOrder
  <2> QED
    BY <2>2, <2>11, <1>4 DEF QueryOrder
<1> QED
  BY <1>12, <1>13, <1>14, <1>15 DEF OrderInv

\* updateFile: the row that is added to the copy is the next one of the file.
LEMMA UpdateFileOrder ==
    ASSUME Shape, Shape', OrderInv, OneInserter, UNCHANGED Inserters, NEW d \in Inserters, d \in FFDBs,
           UpdateFile(d)
    PROVE  OrderInv'
<1>1. /\ Doing(d, "written") /\ ~Doing(d, "again") /\ UNCHANGED <<rows, mtime, written, query>>
      /\ busy' = [busy EXCEPT ![d] = <<>>]
  BY DEF UpdateFile, Doing, disk
<1>2. busy[d] \in Inserting
  BY <1>1, BusyType DEF Shape
<1>3. PICK f \in Files : f = busy[d].file
  BY <1>2 DEF Inserting
<1>4. PICK p \in Nat : p = busy[d].pos
  BY <1>2 DEF Inserting
<1>5. PICK r : r = New(busy[d].id)
  OBVIOUS
<1>6. r.id = busy[d].id /\ r \in Row /\ r.id \in Nat
  BY <1>2, <1>5 DEF New, Row, Inserting
<1>7. PICK R : R = records[d][f]
  OBVIOUS
<1>8. R \in Seq(Row) /\ DOMAIN R = 1..Len(R) /\ Len(R) \in Nat /\ \A i \in 1..Len(R) : R[i].id \in Nat
  BY <1>7, CopyTypes
<1>9. /\ p \in Valid(f) /\ rows[f][p].id = r.id /\ \A j \in Valid(f) : j <= p
      /\ \A i \in DOMAIN R : R[i].id < r.id
      /\ \A q \in Queries : query[d][q] # <<>> /\ query[d][q].file = f => query[d][q].last < r.id
  BY <1>1, <1>3, <1>4, <1>6, <1>7 DEF OrderInv, InsertOrder
<1>10. busy'[d] = <<>> /\ (\A op : ~Doing(d, op)') /\ \A e \in FFDBs : e # d => busy'[e] = busy[e]
  BY <1>1 DEF Shape, TypeOK, Doing
<1>11. Kept
  BY <1>1, SameKept
<1>12. InsertOrder(d)'
  BY <1>10 DEF InsertOrder
<1>13. CASE stat[d][f] = 0
  <2>1. UNCHANGED <<stat, records>>
    BY <1>3, <1>13 DEF UpdateFile, UpdateCopy
  <2>2. ASSUME NEW g \in Files PROVE CopyOrder(d, g)' /\ Cover(d, g)'
    <3>1. CopyOrder(d, g)'
      BY <2>1, <1>11, CopyKept DEF OrderInv
    <3>2. CASE g = f
      BY <2>1, <3>1, <3>2, <1>13 DEF Cover
    <3>3. CASE g # f
      BY <2>1, <3>1, <3>3, <1>1, <1>3, <1>10, <1>11, CoverMoved DEF OrderInv
    <3> QED
      BY <3>2, <3>3
  <2>3. \A q \in Queries : QueryOrder(d, q)'
    BY <2>1, <1>1, <1>11, QueryKept DEF OrderInv
  <2> QED
    BY <2>1, <2>2, <2>3, <1>1, <1>10, <1>11, <1>12, OrderOthers
<1>14. CASE stat[d][f] # 0
  <2>1. PICK N : N = Append(R, r)
    OBVIOUS
  <2>2. /\ N \in Seq(Row) /\ Len(N) = Len(R) + 1 /\ N[Len(R) + 1] = r /\ DOMAIN N = 1..Len(R) + 1
        /\ \A i \in 1..Len(R) : N[i] = R[i]
    BY <2>1, <1>6, <1>8, AppendProperties
  <2>3. records' = [records EXCEPT ![d][f] = N] /\ stat' = [stat EXCEPT ![d][f] = mtime[f]]
    BY <2>1, <1>3, <1>5, <1>7, <1>14 DEF UpdateFile, UpdateCopy
  <2>4. /\ records'[d][f] = N /\ \A e \in FFDBs : e # d => records'[e] = records[e]
        /\ \A g \in Files : g # f => records'[d][g] = records[d][g]
    BY <2>2, <2>3, PutAt DEF Shape, TypeOK
  <2>5. /\ \A e \in FFDBs : e # d => stat'[e] = stat[e]
        /\ \A g \in Files : g # f => stat'[d][g] = stat[d][g]
    BY <2>3, RowTypes, PutAt DEF Shape, TypeOK
  <2>6. Cover(d, f) /\ CopyOrder(d, f)
    BY DEF OrderInv
  <2>7. \A i \in Valid(f) : Prefix(f, i) => i <= Len(R) \/ i = p
    BY <2>6, <1>1, <1>3, <1>4, <1>7, <1>14 DEF Cover
  <2>8. /\ \A i, j \in DOMAIN R : i < j => R[i].id < R[j].id
        /\ \A i \in DOMAIN R : Stands(f, i, R[i].id)
        /\ \A i \in DOMAIN R : Prefix(f, i) => rows[f][i].id = R[i].id
    BY <2>6, <1>7 DEF CopyOrder
  <2>9. Len(R) + 1 <= p
    <3>1. p \in Nat /\ p >= 1
      BY <1>9, RowTypes
    <3>2. CASE Len(R) = 0
      BY <3>1, <3>2
    <3>3. CASE Len(R) > 0
      <4>1. Len(R) \in DOMAIN R
        BY <3>3, <1>8
      <4>2. PICK j \in Valid(f) : Len(R) <= j /\ rows[f][j].id = R[Len(R)].id
        BY <4>1, <2>8 DEF Stands
      <4>3. j <= p /\ j # p /\ j \in Nat
        BY <4>1, <4>2, <1>6, <1>8, <1>9, RowTypes
      <4> QED
        BY <3>1, <4>2, <4>3, <1>8
    <3> QED
      BY <3>2, <3>3, <1>8
  <2>10. /\ \A i, j \in DOMAIN N : i < j => N[i].id < N[j].id
         /\ \A i \in DOMAIN N : Stands(f, i, N[i].id)
         /\ \A i \in DOMAIN N : Prefix(f, i) => rows[f][i].id = N[i].id
    <3>1. ASSUME NEW i \in DOMAIN N, NEW j \in DOMAIN N, i < j PROVE N[i].id < N[j].id
      <4>1. i \in DOMAIN R /\ N[i] = R[i]
        BY <3>1, <2>2, <1>8
      <4>2. CASE j = Len(R) + 1
        BY <4>1, <4>2, <2>2, <1>9
      <4>3. CASE j # Len(R) + 1
        <5>1. j \in DOMAIN R /\ N[j] = R[j]
          BY <4>3, <2>2, <1>8
        <5> QED
          BY <3>1, <4>1, <5>1, <2>8
      <4> QED
        BY <4>2, <4>3
    <3>2. ASSUME NEW i \in DOMAIN N
          PROVE  Stands(f, i, N[i].id) /\ (Prefix(f, i) => rows[f][i].id = N[i].id)
      <4>1. CASE i = Len(R) + 1
        <5>1. Stands(f, i, r.id)
          BY <4>1, <2>9, <1>9 DEF Stands
        <5>2. ASSUME Prefix(f, i) PROVE i = p
          <6>1. i \in Valid(f)
            BY <5>2, <4>1, <1>8 DEF Prefix
          <6> QED
            BY <5>2, <6>1, <4>1, <2>7, <1>8
        <5> QED
          BY <4>1, <5>1, <5>2, <2>2, <1>9
      <4>2. CASE i # Len(R) + 1
        <5>1. i \in DOMAIN R /\ N[i] = R[i]
          BY <4>2, <2>2, <1>8
        <5> QED
          BY <5>1, <2>8
      <4> QED
        BY <4>1, <4>2
    <3> QED
      BY <3>1, <3>2
  <2>11. CopyOrder(d, f)'
    <3>1. \A i \in DOMAIN N : Stands(f, i, N[i].id)'
      BY <2>10, <1>11, KeptRows
    <3>2. \A i \in DOMAIN N : Prefix(f, i)' => rows'[f][i].id = N[i].id
      BY <2>10, <1>1, <1>11, KeptRows
    <3> QED
      BY <2>4, <2>10, <3>1, <3>2 DEF CopyOrder
  <2>12. Cover(d, f)'
    <3>1. ASSUME NEW i \in Valid(f), Prefix(f, i) PROVE i <= Len(N)
      <4>1. i \in Nat /\ i >= 1
        BY RowTypes
      <4>2. CASE i <= Len(R)
        BY <4>1, <4>2, <2>2, <1>8
      <4>3. CASE i = p /\ p > 1
        <5>1. p - 1 \in 1..i /\ 1..(p - 1) \subseteq 1..i
          BY <4>1, <4>3
        <5>2. Prefix(f, p - 1) /\ p - 1 \in Valid(f)
          BY <3>1, <5>1 DEF Prefix
        <5>3. p - 1 <= Len(R)
          <6>1. p - 1 <= Len(R) \/ p - 1 = p
            BY <5>2, <2>7
          <6> QED
            BY <6>1
        <5> QED
          BY <4>3, <5>3, <2>2, <1>8
      <4>4. CASE i = p /\ ~(p > 1)
        BY <4>1, <4>4, <2>2, <1>8
      <4> QED
        BY <3>1, <4>2, <4>3, <4>4, <2>7
    <3> QED
      BY <3>1, <2>4, <1>10, <1>11, KeptRows DEF Cover
  <2>13. ASSUME NEW g \in Files PROVE CopyOrder(d, g)' /\ Cover(d, g)'
    <3>1. CASE g = f
      BY <3>1, <2>11, <2>12
    <3>2. CASE g # f
      BY <3>2, <2>4, <2>5, <1>1, <1>3, <1>10, <1>11, CopyKept, CoverMoved DEF OrderInv
    <3> QED
      BY <3>1, <3>2
  <2>14. ASSUME NEW q \in Queries PROVE QueryOrder(d, q)'
    <3>1. QueryOrder(d, q) /\ query'[d][q] = query[d][q]
      BY <1>1 DEF OrderInv
    <3>2. CASE query[d][q] # <<>> /\ query[d][q].src = "mem" /\ query[d][q].file = f
      <4>1. PICK c : c = query[d][q]
        OBVIOUS
      <4>2. CursorOrder(d, c) /\ c.last \in Nat /\ c.last < r.id
        BY <3>1, <3>2, <4>1, <1>9, CursorFields DEF QueryOrder
      <4>3. \A i \in DOMAIN R : i > c.pos => R[i].id > c.last
        BY <3>2, <4>1, <4>2, <1>7 DEF CursorOrder
      <4>4. \A i \in DOMAIN N : i > c.pos => N[i].id > c.last
        <5> SUFFICES ASSUME NEW i \in DOMAIN N, i > c.pos PROVE N[i].id > c.last
          OBVIOUS
        <5>1. CASE i = Len(R) + 1
          BY <5>1, <4>2, <2>2, <1>6
        <5>2. CASE i # Len(R) + 1
          BY <5>2, <4>3, <2>2, <1>8
        <5> QED
          BY <5>1, <5>2
      <4>5. CursorOrder(d, c)'
        BY <3>2, <4>1, <4>2, <4>4, <2>4, <1>1, <1>11, KeptRows DEF CursorOrder
      <4> QED
        BY <3>1, <4>1, <4>5 DEF QueryOrder
    <3>3. CASE ~(query[d][q] # <<>> /\ query[d][q].src = "mem" /\ query[d][q].file = f)
      BY <3>1, <3>3, <2>4, <1>11, CursorFields, QueryKept
    <3> QED
      BY <3>2, <3>3
  <2> QED
    BY <2>4, <2>5, <2>13, <2>14, <1>1, <1>10, <1>11, <1>12, OrderOthers
<1> QED
  BY <1>13, <1>14

\* Every step keeps the order, and a query that reads a row reads a later one.
LEMMA OrderStep ==
    ASSUME Shape, Shape', Longer, OrderInv, ~Faulty, OneInserter, [Next]_vars
    PROVE  OrderInv' /\ \A d \in FFDBs, q \in Queries : ReadRow(d, q) => query'[d][q].last > query[d][q].last
<1>0. UNCHANGED Inserters /\ Inserters \subseteq FFDBs /\ Updaters \subseteq FFDBs
  BY SetupType DEF Next, vars, Inserters, Shape, TypeOK
<1>1. ASSUME UNCHANGED vars PROVE OrderInv'
  <2>1. UNCHANGED <<rows, written, mem, busy, query>>
    BY <1>1 DEF vars, disk
  <2> QED
    BY <2>1, <1>0, SameKept, OrderDisk
<1>2. ASSUME Tick PROVE OrderInv'
  <2>1. UNCHANGED <<rows, written, mem, busy, query>>
    BY <1>2 DEF Tick
  <2> QED
    BY <2>1, <1>0, SameKept, OrderDisk
<1>3. ASSUME NEW f \in Files, EditByHand(f) PROVE OrderInv'
  <2>1. UNCHANGED <<mem, busy, query>>
    BY <1>3 DEF EditByHand
  <2> QED
    BY <2>1, <1>0, <1>3, EditKept, OrderDisk
<1>4. ASSUME NEW d \in Updaters, NEW f \in Files, NEW i \in DOMAIN rows[f], Update(d, f, i) PROVE OrderInv'
  <2>1. UNCHANGED <<mem, busy, query>>
    BY <1>4 DEF Update
  <2> QED
    BY <2>1, <1>0, <1>4, UpdateKept, OrderDisk
<1>5. ASSUME NEW d \in Inserters, Insert(d) PROVE OrderInv'
  BY <1>0, <1>5, InsertSeekOrder, InsertWriteOrder, UpdateFileOrder DEF Insert
<1>6. ASSUME NEW d \in FFDBs, NEW q \in Queries, NEW f \in Files, Open(d, q, f) PROVE OrderInv'
  BY <1>0, <1>6, OpenOrder, OpenAgainOrder, OpenFirstOrder DEF Open
<1>7. ASSUME NEW d \in FFDBs, LoadAgain(d) \/ LoadFirst(d) \/ Clear(d) PROVE OrderInv'
  BY <1>0, <1>7, LoadAgainOrder, LoadFirstOrder, ClearOrder
<1>8. ASSUME NEW d \in FFDBs, NEW q \in Queries, ReadRow(d, q) \/ ReadEnd(d, q) \/ ReadStop(d, q)
      PROVE  OrderInv'
  BY <1>0, <1>8, ReadRowOrder, ReadEndOrder
<1>9. ASSUME Step PROVE OrderInv'
  BY <1>2, <1>3, <1>4, <1>5, <1>6, <1>7, <1>8, <1>9 DEF Step
<1>10. OrderInv'
  BY <1>1, <1>9 DEF Next
<1>11. \A d \in FFDBs, q \in Queries : ReadRow(d, q) => query'[d][q].last > query[d][q].last
  BY <1>0, ReadRowOrder
<1> QED
  BY <1>10, <1>11

-----------------------------------------------------------------------------
(* How many rows there are: no row malformed, one FFDatabase that inserts *)

LEMMA HasType ==
    ASSUME Shape, NEW d \in FFDBs, NEW f \in Files
    PROVE  /\ Has(d, f) \in Nat /\ Len(rows[f]) \in Nat /\ Len(records[d][f]) \in Nat
           /\ stat[d][f] \in Nat /\ mtime[f] \in Nat
<1>1. Doing(d, "again") => busy[d].num \in Nat
  BY BusyType DEF Shape, Opening
<1>2. rows[f] \in Seq(Row) /\ records[d][f] \in Seq(Row) /\ stat[d][f] \in Nat /\ mtime[f] \in Nat
  BY DEF Shape, TypeOK
<1> QED
  BY <1>1, <1>2 DEF Has

\* A copy that the step does not touch, and a query that has no fewer rows
\* before it than it had.
LEMMA CompleteKept ==
    ASSUME UNCHANGED <<Inserters, Ticks, Faulty>>, NEW d \in FFDBs, NEW f \in Files, Complete(d, f),
           rows'[f] = rows[f], mtime'[f] = mtime[f], stat'[d][f] = stat[d][f], Has(d, f)' = Has(d, f),
           Intact(d, f)' => Intact(d, f),
           Doing(d, "written") /\ busy[d].file = f => Doing(d, "written")' /\ busy'[d].file = f
    PROVE  Complete(d, f)'
  BY DEF Complete

LEMMA BeforeKept ==
    ASSUME Shape, Shape', Longer, NEW d \in FFDBs, NEW q \in Queries, Before(d, q),
           query'[d][q] = query[d][q],
           UNCHANGED Faulty,
           query[d][q] # <<>> => LET f == query[d][q].file
                                 IN  /\ Intact(d, f)' => Intact(d, f)
                                     /\ Has(d, f)' >= Has(d, f)
    PROVE  Before(d, q)'
<1> SUFFICES ASSUME query[d][q] # <<>> PROVE Before(d, q)'
  BY DEF Before
<1>1. PICK c \in Reading : c = query[d][q]
  BY CursorType DEF Shape
<1>2. c.file \in Files /\ c.num \in Nat
  BY <1>1 DEF Reading
<1>3. /\ c.num <= Len(rows'[c.file])
      /\ ~Faulty /\ c.src = "own" => c.num <= Len(c.own)
  <2>1. Len(rows[c.file]) \in Nat /\ Len(rows'[c.file]) \in Nat /\ Len(rows'[c.file]) >= Len(rows[c.file])
    <3>1. rows[c.file] \in Seq(Row) /\ rows'[c.file] \in Seq(Row)
      BY <1>2 DEF Shape, TypeOK
    <3>2. Len(rows'[c.file]) >= Len(rows[c.file])
      BY <1>2 DEF Longer
    <3> QED
      BY <3>1, <3>2
  <2>2. c.num <= Len(rows[c.file]) /\ (~Faulty /\ c.src = "own" => c.num <= Len(c.own))
    BY <1>1 DEF Before
  <2> QED
    BY <1>2, <2>1, <2>2
<1>4. c.src = "mem" /\ Intact(d, c.file)' => c.num <= Has(d, c.file)'
  <2>1. Has(d, c.file) \in Nat
    BY <1>2, HasType
  <2>2. Has(d, c.file)' \in Nat
    <3>1. Doing(d, "again")' => busy'[d].num \in Nat
      BY DEF Shape, TypeOK, Doing, Opening, Inserting
    <3>2. records'[d][c.file] \in Seq(Row)
      BY <1>2 DEF Shape, TypeOK
    <3> QED
      BY <3>1, <3>2 DEF Has
  <2>3. c.src = "mem" /\ Intact(d, c.file) => c.num <= Has(d, c.file)
    BY <1>1 DEF Before
  <2>4. Has(d, c.file)' >= Has(d, c.file) /\ (Intact(d, c.file)' => Intact(d, c.file))
    BY <1>1
  <2> QED
    BY <1>2, <2>1, <2>2, <2>3, <2>4
<1>5. c = query'[d][q]
  BY <1>1
<1> QED
  BY <1>3, <1>4, <1>5 DEF Before

\* Where d does not begin to read a file again, a copy is Intact because it was.
LEMMA IntactKept ==
    ASSUME NEW d \in FFDBs, NEW f, f \in failed[d] => f \in failed'[d],
           Doing(d, "again")' => Doing(d, "again") /\ busy'[d].file = busy[d].file
    PROVE  Intact(d, f)' => Intact(d, f)
  BY DEF Intact

\* Only d has done something, and has written nothing.
LEMMA CountOthers ==
    ASSUME Shape, Shape', Longer, CountInv, UNCHANGED <<Inserters, Ticks, Faulty, rows, mtime>>, NEW d \in FFDBs,
           \A e \in FFDBs : e # d => /\ stat'[e] = stat[e] /\ records'[e] = records[e]
                                     /\ busy'[e] = busy[e] /\ query'[e] = query[e]
                                     /\ failed'[e] = failed[e],
           ~Faulty => failed'[d] = {},
           \A f \in Files : Complete(d, f)', \A q \in Queries : Before(d, q)',
           ~Ticks /\ Doing(d, "first")' => busy'[d].time <= mtime[busy'[d].file]
    PROVE  CountInv'
<1>1. \A f \in Files : Valid(f)' = DOMAIN rows'[f]
  BY DEF CountInv, Valid
<1>2. ASSUME NEW e \in FFDBs, e # d
      PROVE  /\ \A f \in Files : Complete(e, f)'
             /\ \A q \in Queries : Before(e, q)'
             /\ ~Ticks' /\ Doing(e, "first")' => busy'[e].time <= mtime'[busy'[e].file]
  <2>1. \A f : Has(e, f)' = Has(e, f) /\ (Intact(e, f)' <=> Intact(e, f))
    BY <1>2 DEF Has, Intact, Doing
  <2>2. \A f \in Files : Complete(e, f)'
    BY <1>2, <2>1 DEF CountInv, Complete, Doing
  <2>3. \A q \in Queries : Before(e, q)'
    BY <1>2, <2>1 DEF CountInv, Before
  <2>4. ~Ticks' /\ Doing(e, "first")' => busy'[e].time <= mtime'[busy'[e].file]
    BY <1>2 DEF CountInv, Doing
  <2> QED
    BY <2>2, <2>3, <2>4
<1>3. ASSUME NEW e \in FFDBs
      PROVE  /\ \A f \in Files : Complete(e, f)'
             /\ \A q \in Queries : Before(e, q)'
             /\ ~Ticks' /\ Doing(e, "first")' => busy'[e].time <= mtime'[busy'[e].file]
  BY <1>2
<1>4. ~Faulty' => \A e \in FFDBs : failed'[e] = {}
  BY DEF CountInv
<1> QED
  BY <1>1, <1>3, <1>4 DEF CountInv

LEMMA CountInit == Init => CountInv
<1> SUFFICES ASSUME Init PROVE CountInv
  OBVIOUS
<1>1. \A f \in Files : Valid(f) = DOMAIN rows[f]
  BY DEF Init, Valid, New
<1>2. \A d \in FFDBs : ~Doing(d, "first")
  BY DEF Init, Doing
<1>3. \A d \in FFDBs, f \in Files : Complete(d, f)
  BY DEF Init, Complete
<1>4. \A d \in FFDBs, q \in Queries : Before(d, q)
  BY DEF Init, Before
<1>5. \A d \in FFDBs : failed[d] = {}
  BY DEF Init
<1> QED
  BY <1>1, <1>2, <1>3, <1>4, <1>5 DEF CountInv

\* No file and no copy changes.
LEMMA CountSame ==
    ASSUME Shape, Shape', Longer, CountInv, UNCHANGED <<Inserters, Ticks, Faulty, rows, mtime, mem, query>>,
           NEW d \in FFDBs, \A e \in FFDBs : e # d => busy'[e] = busy[e],
           \A op \in {"again", "written"} : ~Doing(d, op) /\ ~Doing(d, op)',
           ~Doing(d, "first")'
    PROVE  CountInv'
<1>1. UNCHANGED <<stat, records, failed>>
  BY DEF mem
<1>2. \A f : Has(d, f)' = Has(d, f) /\ (Intact(d, f)' <=> Intact(d, f))
  BY <1>1 DEF Has, Intact
<1>3. \A f \in Files : Complete(d, f)'
  BY <1>1, <1>2, CompleteKept DEF CountInv
<1>4. \A q \in Queries : Before(d, q)'
  BY <1>1, <1>2 DEF CountInv, Before
<1>5. ~Faulty => failed'[d] = {}
  BY <1>1 DEF CountInv
<1> QED
  BY <1>1, <1>3, <1>4, <1>5, CountOthers

\* A write of f by w: a row more, which is not malformed, or none.
LEMMA CountWrite ==
    ASSUME Shape, Shape', Longer, CountInv, UNCHANGED <<Inserters, Ticks, Faulty, mem, query>>,
           NEW w \in FFDBs, NEW f \in Files,
           \A g \in Files : g # f => rows'[g] = rows[g] /\ mtime'[g] = mtime[g],
           mtime'[f] = Stamp(f), Valid(f)' = DOMAIN rows'[f],
           \A e \in FFDBs : e # w => busy'[e] = busy[e],
           \/ Len(rows'[f]) = Len(rows[f]) /\ busy'[w] = busy[w]
           \/ /\ w \in Inserters /\ Len(rows'[f]) <= Len(rows[f]) + 1
              /\ Doing(w, "seek") /\ Doing(w, "written")' /\ busy'[w].file = f
    PROVE  CountInv'
<1>1. UNCHANGED <<stat, records, failed>>
  BY DEF mem
<1>2. \A g \in Files : Valid(g)' = DOMAIN rows'[g]
  BY DEF CountInv, Valid
<1>3. \A e \in FFDBs : \A op \in {"first", "again"} :
          /\ Doing(e, op)' <=> Doing(e, op)
          /\ Doing(e, op) => busy'[e] = busy[e]
  BY DEF Doing
<1>4. \A e \in FFDBs : \A g : Has(e, g)' = Has(e, g) /\ (Intact(e, g)' <=> Intact(e, g))
  BY <1>1, <1>3 DEF Has, Intact
<1>5. ~Ticks => mtime'[f] = mtime[f] + 1
  BY DEF Stamp
<1>6. ASSUME NEW e \in FFDBs, ~Ticks', Doing(e, "first")' PROVE busy'[e].time <= mtime'[busy'[e].file]
  <2>1. busy[e].file \in Files /\ busy[e].time \in Nat /\ busy'[e] = busy[e] /\ Doing(e, "first")
    BY <1>3, <1>6, BusyType DEF Opening, Shape
  <2>2. busy[e].time <= mtime[busy[e].file] /\ mtime[busy[e].file] \in Nat
    BY <1>6, <2>1, HasType DEF CountInv
  <2> QED
    BY <1>5, <1>6, <2>1, <2>2
<1>7. ASSUME NEW e \in FFDBs, NEW q \in Queries PROVE Before(e, q)'
  <2>1. query[e][q] # <<>> => query[e][q].file \in Files
    BY CursorFields DEF Shape
  <2>2. query[e][q] # <<>> => Has(e, query[e][q].file)' >= Has(e, query[e][q].file)
    BY <1>4, <2>1, HasType
  <2> QED
    BY <2>2, <1>4, BeforeKept DEF CountInv
<1>8. ASSUME NEW e \in FFDBs, NEW g \in Files PROVE Complete(e, g)'
  <2>1. Complete(e, g)
    BY DEF CountInv
  <2>2. CASE g # f
    <3>1. Doing(e, "written") /\ busy[e].file = g => Doing(e, "written")' /\ busy'[e].file = g
      <4>1. CASE e # w
        BY <4>1 DEF Doing
      <4>2. CASE e = w
        BY <4>2 DEF Doing
      <4> QED
        BY <4>1, <4>2
    <3> QED
      BY <2>1, <2>2, <3>1, <1>1, <1>4, CompleteKept
  <2>3. CASE g = f
    <3>1. SUFFICES ASSUME stat[e][f] # 0, Intact(e, f) PROVE Complete(e, f)'
      BY <2>3, <1>1, <1>4 DEF Complete
    <3>2. /\ Has(e, f) \in Nat /\ Len(rows[f]) \in Nat /\ stat[e][f] \in Nat /\ mtime[f] \in Nat
          /\ Len(rows'[f]) \in Nat
      <4>1. rows'[f] \in Seq(Row)
        BY DEF Shape, TypeOK
      <4> QED
        BY <4>1, HasType
    <3>3. ASSUME Inserters \subseteq {e}
          PROVE  \/ Len(rows'[f]) <= Has(e, f)
                 \/ Doing(e, "written")' /\ busy'[e].file = f /\ Len(rows'[f]) = Has(e, f) + 1
      <4>1. \/ Len(rows[f]) <= Has(e, f)
            \/ Doing(e, "written") /\ busy[e].file = f /\ Len(rows[f]) = Has(e, f) + 1
        BY <2>1, <2>3, <3>1, <3>3 DEF Complete
      <4>2. CASE Len(rows'[f]) = Len(rows[f]) /\ busy'[w] = busy[w]
        BY <4>1, <4>2 DEF Doing
      <4>3. CASE /\ w \in Inserters /\ Len(rows'[f]) <= Len(rows[f]) + 1
                 /\ Doing(w, "seek") /\ Doing(w, "written")' /\ busy'[w].file = f
        <5>1. e = w
          BY <3>3, <4>3
        <5>2. ~Doing(w, "written")
          BY <4>3 DEF Doing
        <5>3. Len(rows[f]) <= Has(e, f)
          BY <4>1, <5>1, <5>2
        <5> QED
          BY <4>3, <5>1, <5>3, <3>2
      <4> QED
        BY <4>2, <4>3
    <3>4. ASSUME ~Ticks, e \notin Inserters
          PROVE  stat[e][f] <= mtime'[f] /\ (stat[e][f] = mtime'[f] => Len(rows'[f]) <= Has(e, f))
      BY <2>1, <2>3, <3>1, <3>2, <3>4, <1>5 DEF Complete
    <3> QED
      BY <3>1, <3>3, <3>4, <1>1, <1>4 DEF Complete
  <2> QED
    BY <2>2, <2>3
<1>9. ~Faulty' => \A e \in FFDBs : failed'[e] = {}
  BY <1>1 DEF CountInv
<1> QED
  BY <1>2, <1>6, <1>7, <1>8, <1>9 DEF CountInv

LEMMA UpdateCount ==
    ASSUME Shape, Shape', Longer, CountInv, UNCHANGED <<Inserters, Ticks, Faulty>>, NEW d \in FFDBs,
           NEW f \in Files, NEW i \in DOMAIN rows[f], Update(d, f, i)
    PROVE  CountInv'
<1>1. rows \in [Files -> Seq(Row)] /\ mtime \in [Files -> Nat]
  BY DEF Shape, TypeOK
<1>2. PICK r : r = [rows[f][i] EXCEPT !.ver = 2]
  OBVIOUS
<1>3. r.ver = 2
  BY <1>1, <1>2 DEF Row
<1>4. rows' = [rows EXCEPT ![f] = [rows[f] EXCEPT ![i] = r]] /\ mtime' = [mtime EXCEPT ![f] = Stamp(f)]
  BY <1>2 DEF Update
<1>5. /\ \A g \in Files : g # f => rows'[g] = rows[g] /\ mtime'[g] = mtime[g]
      /\ mtime'[f] = Stamp(f) /\ rows'[f] = [rows[f] EXCEPT ![i] = r]
  BY <1>1, <1>4
<1>6. /\ DOMAIN rows'[f] = DOMAIN rows[f] /\ rows'[f][i] = r
      /\ \A j \in DOMAIN rows[f] : j # i => rows'[f][j] = rows[f][j]
  BY <1>5
<1>7. Valid(f)' = DOMAIN rows'[f]
  <2>1. Valid(f) = DOMAIN rows[f]
    BY DEF CountInv
  <2> QED
    BY <1>3, <1>6, <2>1 DEF Valid
<1>8. Len(rows'[f]) = Len(rows[f])
  <2>1. rows'[f] \in Seq(Row) /\ rows[f] \in Seq(Row)
    BY DEF Shape, TypeOK
  <2> QED
    BY <1>6, <2>1
<1>9. UNCHANGED <<mem, busy, query>>
  BY DEF Update
<1> QED
  BY <1>5, <1>7, <1>8, <1>9, CountWrite

LEMMA InsertWriteCount ==
    ASSUME Shape, Shape', Longer, CountInv, UNCHANGED <<Inserters, Ticks, Faulty>>, NEW d \in Inserters,
           d \in FFDBs, InsertWrite(d)
    PROVE  CountInv'
<1>1. rows \in [Files -> Seq(Row)] /\ mtime \in [Files -> Nat] /\ busy[d] \in Inserting /\ Doing(d, "seek")
  BY BusyType DEF Shape, TypeOK, InsertWrite, Doing
<1>2. PICK f \in Files : f = busy[d].file
  BY <1>1 DEF Inserting
<1>3. PICK p \in Nat : p = busy[d].pos
  BY <1>1 DEF Inserting
<1>4. PICK r : r = New(busy[d].id)
  OBVIOUS
<1>5. r.ver = 1
  BY <1>4 DEF New
<1>6. PICK s : s = IF p > Len(rows[f]) THEN Append(rows[f], r) ELSE ReplaceAt(rows[f], p, r)
  OBVIOUS
<1>7. rows' = [rows EXCEPT ![f] = s] /\ mtime' = [mtime EXCEPT ![f] = Stamp(f)]
  BY <1>2, <1>3, <1>4, <1>6 DEF InsertWrite
<1>8. /\ \A g \in Files : g # f => rows'[g] = rows[g] /\ mtime'[g] = mtime[g]
      /\ mtime'[f] = Stamp(f) /\ rows'[f] = s
  BY <1>1, <1>7
<1>9. /\ \A j \in DOMAIN s : s[j] = r \/ (j \in DOMAIN rows[f] /\ s[j] = rows[f][j])
      /\ Len(s) <= Len(rows[f]) + 1
  <2>1. PICK R \in Seq(Row) : R = rows[f]
    BY <1>1
  <2>2. Len(R) \in Nat /\ DOMAIN R = 1..Len(R)
    BY <2>1
  <2>3. r \in Row
    BY <1>1, <1>4 DEF New, Row, Inserting
  <2>4. CASE p > Len(R)
    <3>1. s = Append(R, r)
      BY <1>6, <2>1, <2>4
    <3> QED
      BY <3>1, <2>1, <2>2, <2>3, AppendProperties
  <2>5. CASE ~(p > Len(R))
    <3>1. s = [j \in 1..Len(R) |-> IF j = p THEN r ELSE R[j]]
      BY <1>6, <2>1, <2>2, <2>5 DEF ReplaceAt
    <3>2. DOMAIN s = 1..Len(R)
      BY <3>1
    <3>3. s \in Seq(Row)
      BY <1>8 DEF Shape, TypeOK
    <3>4. Len(s) = Len(R)
      BY <2>2, <3>2, <3>3
    <3> QED
      BY <2>1, <2>2, <3>1, <3>2, <3>4
  <2> QED
    BY <2>4, <2>5
<1>10. Valid(f)' = DOMAIN rows'[f]
  <2>1. \A j \in DOMAIN rows[f] : rows[f][j].ver # 0
    BY DEF CountInv, Valid
  <2>2. \A j \in DOMAIN s : s[j].ver # 0
    BY <1>5, <1>9, <2>1
  <2> QED
    BY <1>8, <2>2 DEF Valid
<1>11. UNCHANGED <<mem, query>> /\ busy' = [busy EXCEPT ![d] = [busy[d] EXCEPT !.op = "written"]]
  BY DEF InsertWrite
<1>12. /\ \A e \in FFDBs : e # d => busy'[e] = busy[e]
       /\ busy'[d] = [busy[d] EXCEPT !.op = "written"]
  BY <1>11 DEF Shape, TypeOK
<1>13. Doing(d, "written")' /\ busy'[d].file = f
  <2>1. busy'[d].op = "written" /\ busy'[d].file = f
    BY <1>1, <1>2, <1>12 DEF Inserting
  <2>2. busy'[d] # <<>>
    <3>1. "op" \in DOMAIN busy'[d]
      BY <1>1, <1>12 DEF Inserting
    <3>2. DOMAIN <<>> = {}
      OBVIOUS
    <3> QED
      BY <3>1, <3>2
  <2> QED
    BY <2>1, <2>2 DEF Doing
<1> QED
  BY <1>1, <1>8, <1>9, <1>10, <1>11, <1>12, <1>13, CountWrite

\* updateFile: the copy of the FFDatabase that inserts has the row as well.
LEMMA UpdateFileCount ==
    ASSUME Shape, Shape', Longer, CountInv, UNCHANGED <<Inserters, Ticks, Faulty>>, NEW d \in Inserters,
           d \in FFDBs, UpdateFile(d)
    PROVE  CountInv'
<1>1. /\ Doing(d, "written") /\ ~Doing(d, "again") /\ UNCHANGED <<rows, mtime, query, failed>>
      /\ busy' = [busy EXCEPT ![d] = <<>>]
  BY DEF UpdateFile, Doing, disk
<1>2. busy[d] \in Inserting
  BY <1>1, BusyType DEF Shape
<1>3. PICK f \in Files : f = busy[d].file
  BY <1>2 DEF Inserting
<1>4. PICK r \in Row : r = New(busy[d].id)
  <2>1. New(busy[d].id) \in Row
    BY <1>2 DEF New, Row, Inserting
  <2> QED
    BY <2>1
<1>5. busy'[d] = <<>> /\ (\A op : ~Doing(d, op)') /\ \A e \in FFDBs : e # d => busy'[e] = busy[e]
  BY <1>1 DEF Shape, TypeOK, Doing
<1>6. \A g : Has(d, g) = Len(records[d][g]) /\ Has(d, g)' = Len(records'[d][g])
  BY <1>1, <1>5 DEF Has
<1>6a. \A g : Intact(d, g)' <=> Intact(d, g)
  BY <1>1, <1>5 DEF Intact
<1>7. PICK R \in Seq(Row) : R = records[d][f]
  BY DEF Shape, TypeOK
<1>8. PICK N \in Seq(Row) : N = Append(R, r) /\ Len(N) = Len(R) + 1
  <2>1. Append(R, r) \in Seq(Row) /\ Len(Append(R, r)) = Len(R) + 1
    BY AppendProperties
  <2> QED
    BY <2>1
<1>9. /\ \A e \in FFDBs : e # d => stat'[e] = stat[e] /\ records'[e] = records[e]
      /\ \A g \in Files : g # f => stat'[d][g] = stat[d][g] /\ records'[d][g] = records[d][g]
      /\ \/ stat'[d][f] = 0 /\ records'[d][f] = R
         \/ stat[d][f] # 0 /\ records'[d][f] = N
  <2>1. CASE stat[d][f] = 0
    <3>1. UNCHANGED <<stat, records>>
      BY <1>3, <2>1 DEF UpdateFile, UpdateCopy
    <3> QED
      BY <2>1, <3>1, <1>7
  <2>2. CASE stat[d][f] # 0
    <3>1. records' = [records EXCEPT ![d][f] = N] /\ stat' = [stat EXCEPT ![d][f] = mtime[f]]
      BY <2>2, <1>3, <1>4, <1>7, <1>8 DEF UpdateFile, UpdateCopy
    <3>2. /\ records'[d][f] = N /\ \A e \in FFDBs : e # d => records'[e] = records[e]
          /\ \A g \in Files : g # f => records'[d][g] = records[d][g]
      BY <3>1, PutAt DEF Shape, TypeOK
    <3>3. /\ \A e \in FFDBs : e # d => stat'[e] = stat[e]
          /\ \A g \in Files : g # f => stat'[d][g] = stat[d][g]
      BY <3>1, RowTypes, PutAt DEF Shape, TypeOK
    <3> QED
      BY <2>2, <3>2, <3>3
  <2> QED
    BY <2>1, <2>2
<1>10. Len(R) \in Nat /\ Len(N) \in Nat
  OBVIOUS
<1>11. \A g \in Files : Has(d, g)' >= Has(d, g)
  <2>1. \A g \in Files : Has(d, g) \in Nat
    BY HasType
  <2>2. Has(d, f)' >= Has(d, f)
    BY <1>6, <1>7, <1>8, <1>9, <1>10
  <2>3. \A g \in Files : g # f => Has(d, g)' = Has(d, g)
    BY <1>6, <1>9
  <2> QED
    BY <2>1, <2>2, <2>3
<1>12. ASSUME NEW g \in Files PROVE Complete(d, g)'
  <2>1. Complete(d, g)
    BY DEF CountInv
  <2>2. CASE g # f
    <3>1. Has(d, g)' = Has(d, g) /\ stat'[d][g] = stat[d][g]
      BY <2>2, <1>6, <1>9
    <3> QED
      BY <2>1, <2>2, <3>1, <1>1, <1>3, <1>6a, CompleteKept
  <2>3. CASE g = f
    <3>1. SUFFICES ASSUME stat[d][f] # 0, Intact(d, f), records'[d][f] = N PROVE Complete(d, f)'
      BY <2>3, <1>6a, <1>9 DEF Complete
    <3>2. Has(d, f)' = Has(d, f) + 1 /\ Has(d, f) \in Nat /\ Len(rows[f]) \in Nat
      BY <3>1, <1>6, <1>7, <1>8, <1>10, HasType
    <3>3. Inserters \subseteq {d} => Len(rows'[f]) <= Has(d, f)'
      BY <2>1, <2>3, <3>1, <3>2, <1>1 DEF Complete
    <3> QED
      BY <3>3 DEF Complete
  <2> QED
    BY <2>2, <2>3
<1>13. ASSUME NEW q \in Queries PROVE Before(d, q)'
  <2>1. query[d][q] # <<>> => query[d][q].file \in Files
    BY CursorFields DEF Shape
  <2> QED
    BY <2>1, <1>1, <1>6a, <1>11, BeforeKept DEF CountInv
<1>14. ~Faulty => failed'[d] = {}
  BY <1>1 DEF CountInv
<1> QED
  BY <1>1, <1>5, <1>9, <1>12, <1>13, <1>14, CountOthers

\* A query changes, and no copy.
LEMMA CountQuery ==
    ASSUME Shape, Shape', Longer, CountInv, UNCHANGED <<Inserters, Ticks, Faulty, rows, mtime, stat, records, busy, failed>>,
           NEW d \in FFDBs, NEW q \in Queries, NEW c \in Reading \cup {<<>>},
           query' = [query EXCEPT ![d][q] = c],
           c # <<>> => /\ c.num <= Len(rows[c.file])
                       /\ ~Faulty /\ c.src = "own" => c.num <= Len(c.own)
                       /\ c.src = "mem" /\ Intact(d, c.file) => c.num <= Has(d, c.file)
    PROVE  CountInv'
<1>1. /\ query'[d][q] = c /\ \A e \in FFDBs : e # d => query'[e] = query[e]
      /\ \A p \in Queries : p # q => query'[d][p] = query[d][p]
  BY QueryType, PutAt
<1>2. \A f : Has(d, f)' = Has(d, f) /\ (Intact(d, f)' <=> Intact(d, f))
  BY DEF Has, Intact, Doing
<1>3. \A f \in Files : Complete(d, f)'
  BY <1>2, CompleteKept DEF CountInv, Doing
<1>4. ASSUME NEW p \in Queries PROVE Before(d, p)'
  <2>1. CASE p = q
    BY <2>1, <1>1, <1>2 DEF Before
  <2>2. CASE p # q
    BY <2>2, <1>1, <1>2 DEF Before, CountInv
  <2> QED
    BY <2>1, <2>2
<1>5. ~Ticks /\ Doing(d, "first")' => busy'[d].time <= mtime[busy'[d].file]
  BY DEF CountInv, Doing
<1>6. ~Faulty => failed'[d] = {}
  BY DEF CountInv
<1> QED
  BY <1>1, <1>3, <1>4, <1>5, <1>6, CountOthers

LEMMA ReadCount ==
    ASSUME Shape, Shape', Longer, CountInv, UNCHANGED <<Inserters, Ticks, Faulty>>, NEW d \in FFDBs,
           NEW q \in Queries, ReadRow(d, q) \/ ReadEnd(d, q) \/ ReadStop(d, q)
    PROVE  CountInv'
<1>1. UNCHANGED <<rows, mtime, stat, records, busy, failed>>
  BY DEF ReadRow, ReadEnd, ReadStop, disk, mem
<1>2. CASE ReadRow(d, q)
  <2>1. PICK c \in Reading : c = query[d][q] /\ c # <<>>
    BY <1>2, CursorType DEF ReadRow, Shape
  <2>2. PICK s \in Seq(Row) : s = Source(d, q) /\ c.pos < Len(s)
    BY <1>2, <2>1, CursorType DEF ReadRow, Shape
  <2>3. c.pos \in Nat /\ c.pos + 1 \in 1..Len(s)
    BY <2>1, <2>2 DEF Reading
  <2>4. s[c.pos + 1].id \in Nat
    <3>1. s[c.pos + 1] \in Row
      BY <2>2, <2>3
    <3> QED
      BY <3>1 DEF Row
  <2>5. PICK x : x = [c EXCEPT !.pos = c.pos + 1, !.last = s[c.pos + 1].id]
    OBVIOUS
  <2>6. x \in Reading /\ x.file = c.file /\ x.num = c.num /\ x.src = c.src /\ x.own = c.own
    <3>1. PICK n \in Nat : n = c.pos + 1
      BY <2>3
    <3>2. PICK m \in Nat : m = s[n].id
      BY <2>4, <3>1
    <3>3. x = [c EXCEPT !.pos = n, !.last = m]
      BY <2>5, <3>1, <3>2
    <3> QED
      BY <2>1, <3>3 DEF Reading
  <2>7. query' = [query EXCEPT ![d][q] = x]
    BY <1>2, <2>1, <2>2, <2>5 DEF ReadRow, Reading
  <2>8. /\ x.num <= Len(rows[x.file])
        /\ ~Faulty /\ x.src = "own" => x.num <= Len(x.own)
        /\ x.src = "mem" /\ Intact(d, x.file) => x.num <= Has(d, x.file)
    BY <2>1, <2>6 DEF CountInv, Before
  <2> QED
    BY <1>1, <2>6, <2>7, <2>8, CountQuery
<1>3. CASE ReadEnd(d, q) \/ ReadStop(d, q)
  <2>1. query' = [query EXCEPT ![d][q] = <<>>]
    BY <1>3 DEF ReadEnd, ReadStop
  <2>2. <<>> \in Reading \cup {<<>>}
    OBVIOUS
  <2> QED
    BY <1>1, <2>1, <2>2, CountQuery
<1> QED
  BY <1>2, <1>3

LEMMA OpenCount ==
    ASSUME Shape, Shape', Longer, CountInv, OneInserter, InsertsShow, UNCHANGED <<Inserters, Ticks, Faulty>>,
           NEW d \in Readers, d \in FFDBs, NEW q \in Queries, NEW f \in Files, Open(d, q, f)
    PROVE  CountInv'
<1>1. busy[d] = <<>> /\ UNCHANGED <<rows, mtime, failed>> /\ \A op : ~Doing(d, op)
  BY DEF Open, OpenHit, OpenAgain, OpenFirst, OpenStream, disk, mem, Doing
<1>2. /\ \A g : Has(d, g) = Len(records[d][g])
      /\ Len(rows[f]) \in Nat
  BY <1>1, HasType DEF Has
<1>2a. ~Faulty => failed'[d] = {}
  BY <1>1 DEF CountInv
<1>3. CASE OpenHit(d, q, f)
  <2>1. Intact(d, f) => Len(rows[f]) <= Has(d, f)
    <3>1. Complete(d, f) /\ stat[d][f] # 0 /\ stat[d][f] = mtime[f]
      BY <1>3 DEF CountInv, OpenHit
    <3>2. Inserters \subseteq {d} \/ (~Ticks /\ d \notin Inserters)
      BY DEF OneInserter, InsertsShow
    <3> QED
      BY <3>1, <3>2, <1>1 DEF Complete
  <2>2. PICK c \in Reading : c = Cursor(f, "mem", Len(rows[f]))
    <3>1. Cursor(f, "mem", Len(rows[f])) \in Reading
      BY <1>2, CursorNew
    <3> QED
      BY <3>1
  <2>3. c.file = f /\ c.num = Len(rows[f]) /\ c.src = "mem"
    BY <2>2 DEF Cursor
  <2>4. query' = [query EXCEPT ![d][q] = c] /\ UNCHANGED <<stat, records, busy>>
    BY <1>3, <2>2 DEF OpenHit, mem
  <2>5. /\ c.num <= Len(rows[c.file])
        /\ ~Faulty /\ c.src = "own" => c.num <= Len(c.own)
        /\ c.src = "mem" /\ Intact(d, c.file) => c.num <= Has(d, c.file)
    BY <1>2, <2>1, <2>3
  <2> QED
    BY <1>1, <2>4, <2>5, CountQuery
<1>4. CASE OpenStream(d, q, f)
  <2>1. PICK c \in Reading : c = Cursor(f, "fp", Len(rows[f]))
    <3>1. Cursor(f, "fp", Len(rows[f])) \in Reading
      BY <1>2, CursorNew
    <3> QED
      BY <3>1
  <2>2. c.file = f /\ c.num = Len(rows[f]) /\ c.src = "fp"
    BY <2>1 DEF Cursor
  <2>3. query' = [query EXCEPT ![d][q] = c] /\ UNCHANGED <<stat, records, busy>>
    BY <1>4, <2>1 DEF OpenStream, mem
  <2>4. /\ c.num <= Len(rows[c.file])
        /\ ~Faulty /\ c.src = "own" => c.num <= Len(c.own)
        /\ c.src = "mem" /\ Intact(d, c.file) => c.num <= Has(d, c.file)
    BY <1>2, <2>2
  <2> QED
    BY <1>1, <2>3, <2>4, CountQuery
<1>5. CASE OpenFirst(d, q, f)
  <2>1. UNCHANGED <<stat, records, query>> /\ stat[d][f] = 0
    BY <1>5 DEF OpenFirst, mem
  <2>2. PICK b : b = [op |-> "first", query |-> q, file |-> f, num |-> Len(rows[f]), time |-> mtime[f]]
    OBVIOUS
  <2>3. busy'[d] = b /\ \A e \in FFDBs : e # d => busy'[e] = busy[e]
    BY <1>5, <2>2 DEF OpenFirst, Shape, TypeOK
  <2>4. b.op = "first" /\ b.file = f /\ b.time = mtime[f]
    BY <2>2
  <2>5. ~Doing(d, "again")' /\ \A g : Has(d, g)' = Has(d, g) /\ (Intact(d, g)' <=> Intact(d, g))
    BY <1>1, <1>2, <2>1, <2>3, <2>4 DEF Doing, Has, Intact
  <2>6. \A g \in Files : Complete(d, g)'
    BY <1>1, <2>1, <2>5, CompleteKept DEF CountInv
  <2>7. \A p \in Queries : Before(d, p)'
    BY <1>1, <2>1, <2>5 DEF CountInv, Before
  <2>8. busy'[d].time <= mtime[busy'[d].file]
    BY <2>3, <2>4, HasType
  <2> QED
    BY <1>1, <1>2a, <2>1, <2>3, <2>6, <2>7, <2>8, CountOthers
<1>6. CASE OpenAgain(d, q, f)
  <2>1. UNCHANGED query
    BY <1>6 DEF OpenAgain
  <2>2. PICK b : b = [op |-> "again", query |-> q, file |-> f, num |-> Len(rows[f]), time |-> mtime[f]]
    OBVIOUS
  <2>3. busy'[d] = b /\ \A e \in FFDBs : e # d => busy'[e] = busy[e]
    BY <1>6, <2>2 DEF OpenAgain, Shape, TypeOK
  <2>4. b.op = "again" /\ b.file = f /\ b.num = Len(rows[f])
    BY <2>2
  <2>5. /\ stat'[d][f] = mtime[f] /\ \A e \in FFDBs : e # d => stat'[e] = stat[e]
        /\ \A g \in Files : g # f => stat'[d][g] = stat[d][g]
    <3>1. stat' = [stat EXCEPT ![d][f] = mtime[f]]
      BY <1>6 DEF OpenAgain
    <3> QED
      BY <3>1, RowTypes, PutAt DEF Shape, TypeOK
  <2>6. /\ \A e \in FFDBs : e # d => records'[e] = records[e]
        /\ \A g \in Files : g # f => records'[d][g] = records[d][g]
    <3>1. records' = [records EXCEPT ![d][f] = <<>>] /\ <<>> \in Seq(Row)
      BY <1>6 DEF OpenAgain
    <3> QED
      BY <3>1, PutAt DEF Shape, TypeOK
  <2>7. busy'[d] # <<>>
    <3>1. "op" \in DOMAIN b /\ DOMAIN <<>> = {}
      BY <2>2
    <3> QED
      BY <2>3, <3>1
  <2>8. Doing(d, "again")' /\ ~Doing(d, "first")'
    BY <2>3, <2>4, <2>7 DEF Doing
  <2>9. Has(d, f)' = Len(rows[f]) /\ \A g \in Files : g # f => Has(d, g)' = Has(d, g) /\ (Intact(d, g)' <=> Intact(d, g))
    BY <1>1, <1>2, <2>3, <2>4, <2>6, <2>8 DEF Has, Intact
  <2>10. ASSUME NEW g \in Files PROVE Complete(d, g)'
    <3>1. CASE g = f
      BY <3>1, <1>1, <1>2, <2>5, <2>9, HasType DEF Complete
    <3>2. CASE g # f
      BY <3>2, <1>1, <2>5, <2>9, CompleteKept DEF CountInv
    <3> QED
      BY <3>1, <3>2
  <2>11. ASSUME NEW p \in Queries PROVE Before(d, p)'
    <3>1. query[d][p] # <<>> => query[d][p].file \in Files
      BY CursorFields DEF Shape
    <3>2. PICK c : c = query[d][p]
      OBVIOUS
    <3>3. c # <<>> => /\ c.num <= Len(rows[c.file])
                      /\ ~Faulty /\ c.src = "own" => c.num <= Len(c.own)
                      /\ c.src = "mem" /\ Intact(d, c.file)' => c.num <= Has(d, c.file)'
      <4>1. Before(d, p)
        BY DEF CountInv
      <4>2. CASE c.file = f
        BY <4>1, <4>2, <3>2, <2>9 DEF Before
      <4>3. CASE c.file # f
        BY <4>1, <4>3, <3>1, <3>2, <2>9 DEF Before
      <4> QED
        BY <4>2, <4>3
    <3> QED
      BY <3>2, <3>3, <2>1, <1>1 DEF Before
  <2> QED
    BY <1>1, <2>1, <2>3, <2>5, <2>6, <2>8, <1>2a, <2>10, <2>11, CountOthers
<1> QED
  BY <1>3, <1>4, <1>5, <1>6 DEF Open

\* A load is done: the copy has the rows that were counted, or more.
LEMMA CountLoad ==
    ASSUME Shape, Shape', Longer, CountInv, UNCHANGED <<Inserters, Ticks, Faulty, rows, mtime>>, NEW d \in FFDBs,
           busy' = [busy EXCEPT ![d] = <<>>], NEW f \in Files, NEW q \in Queries, NEW n \in Nat, NEW c,
           c = Cursor(f, "mem", n), n <= Len(rows[f]), n <= Has(d, f)',
           \A g : ~(Doing(d, "written") /\ busy[d].file = g),
           \A e \in FFDBs : e # d => /\ stat'[e] = stat[e] /\ records'[e] = records[e]
                                     /\ failed'[e] = failed[e],
           failed'[d] = failed[d] \ {f}, Intact(d, f) \/ Has(d, f)' = Len(rows[f]),
           Doing(d, "again") => busy[d].file = f,
           \A g \in Files : g # f => stat'[d][g] = stat[d][g] /\ Has(d, g)' = Has(d, g),
           query' = [query EXCEPT ![d][q] = c],
           Has(d, f)' = Has(d, f) \/ Has(d, f)' = Len(rows[f]), Complete(d, f)'
    PROVE  CountInv'
<1>1. c \in Reading /\ c # <<>> /\ c.file = f /\ c.num = n /\ c.src = "mem"
  <2>1. c \in Reading
    BY CursorNew
  <2>2. c.file = f /\ c.num = n /\ c.src = "mem"
    BY DEF Cursor
  <2> QED
    BY <2>1, <2>2, ReadingIsOpen
<1>2. /\ query'[d][q] = c /\ \A e \in FFDBs : e # d => query'[e] = query[e]
      /\ \A p \in Queries : p # q => query'[d][p] = query[d][p]
  BY <1>1, QueryType, PutAt
<1>3. busy'[d] = <<>> /\ (\A op : ~Doing(d, op)') /\ \A e \in FFDBs : e # d => busy'[e] = busy[e]
  BY DEF Shape, TypeOK, Doing
<1>3a. \A g \in Files : g # f => (Intact(d, g)' => Intact(d, g))
  BY <1>3 DEF Intact
<1>3b. ~Faulty => failed'[d] = {}
  BY DEF CountInv
<1>4. ASSUME NEW g \in Files PROVE Complete(d, g)'
  <2>1. CASE g = f
    BY <2>1
  <2>2. CASE g # f
    BY <2>2, <1>3a, CompleteKept DEF CountInv
  <2> QED
    BY <2>1, <2>2
<1>5. ASSUME NEW p \in Queries PROVE Before(d, p)'
  <2>1. CASE p = q
    BY <2>1, <1>1, <1>2 DEF Before
  <2>2. CASE p # q
    <3>1. query[d][p] # <<>> => query[d][p].file \in Files
      BY CursorFields DEF Shape
    <3>2. PICK x : x = query[d][p]
      OBVIOUS
    <3>3. Before(d, p)
      BY DEF CountInv
    <3>4. x # <<>> => /\ x.num <= Len(rows[x.file])
                      /\ ~Faulty /\ x.src = "own" => x.num <= Len(x.own)
                      /\ x.src = "mem" /\ Intact(d, x.file) => x.num <= Has(d, x.file)
      BY <3>2, <3>3 DEF Before
    <3>5. x # <<>> => (x.src = "mem" /\ Intact(d, x.file)' => x.num <= Has(d, x.file)')
      BY <3>1, <3>2, <3>4, <1>3a
    <3>6. x = query'[d][p]
      BY <2>2, <3>2, <1>2
    <3> QED
      BY <3>4, <3>5, <3>6 DEF Before
  <2> QED
    BY <2>1, <2>2
<1> QED
  BY <1>2, <1>3, <1>3b, <1>4, <1>5, CountOthers

LEMMA LoadAgainCount ==
    ASSUME Shape, Shape', Longer, CountInv, UNCHANGED <<Inserters, Ticks, Faulty>>, NEW d \in FFDBs, LoadAgain(d)
    PROVE  CountInv'
<1>1. /\ Doing(d, "again") /\ ~Doing(d, "written") /\ UNCHANGED <<rows, mtime, stat>>
      /\ busy' = [busy EXCEPT ![d] = <<>>]
  BY DEF LoadAgain, Doing, disk
<1>2. busy[d] \in Opening
  BY <1>1, BusyType DEF Shape
<1>3. PICK f \in Files : f = busy[d].file
  BY <1>2 DEF Opening
<1>4. PICK n \in Nat : n = busy[d].num
  BY <1>2 DEF Opening
<1>5. PICK q \in Queries : q = busy[d].query
  BY <1>2 DEF Opening
<1>6. n <= Len(rows[f]) /\ rows[f] \in Seq(Row)
  BY <1>1, <1>3, <1>4, RowTypes DEF Shape
<1>7. PICK s : s = SubSeq(rows[f], 1, n)
  OBVIOUS
<1>8. s \in Seq(Row) /\ Len(s) = n /\ \A i \in 1..n : s[i] = rows[f][i]
  <2>1. \A i \in 1..n : rows[f][i] \in Row
    BY <1>6
  <2>2. 1 \in Int /\ n \in Int /\ Len(rows[f]) \in Nat
    BY <1>6
  <2> QED
    BY <1>6, <1>7, <2>1, <2>2, SubSeqProperties
<1>9. \A i \in DOMAIN s : s[i].ver # 0
  <2>1. \A i \in DOMAIN rows[f] : rows[f][i].ver # 0
    BY DEF CountInv, Valid
  <2>2. DOMAIN s = 1..n /\ 1..n \subseteq DOMAIN rows[f]
    BY <1>6, <1>8
  <2> QED
    BY <1>8, <2>1, <2>2
<1>10. Parsed(s) = 0
  <2>1. Parsed(s) \in DOMAIN s => s[Parsed(s)].ver # 0
    BY <1>9
  <2> QED
    BY <1>8, <2>1, ParsedPlace
<1>11. records' = [records EXCEPT ![d][f] = s]
  <2>1. Readable(s) = s
    BY <1>10 DEF Readable
  <2> QED
    BY <2>1, <1>3, <1>4, <1>7 DEF LoadAgain
<1>12. PICK c : c = Cursor(f, "mem", n)
  OBVIOUS
<1>13. query' = [query EXCEPT ![d][q] = c]
  BY <1>3, <1>4, <1>5, <1>7, <1>10, <1>12 DEF LoadAgain
<1>14. /\ records'[d][f] = s /\ \A e \in FFDBs : e # d => records'[e] = records[e]
       /\ \A g \in Files : g # f => records'[d][g] = records[d][g]
  BY <1>8, <1>11, PutAt DEF Shape, TypeOK
<1>15. busy'[d] = <<>> /\ \A op : ~Doing(d, op)'
  BY <1>1 DEF Shape, TypeOK, Doing
<1>16. Has(d, f)' = n /\ Has(d, f) = n /\ \A g \in Files : g # f => Has(d, g)' = Has(d, g)
  BY <1>1, <1>3, <1>4, <1>8, <1>14, <1>15 DEF Has
<1>16a. failed' = [failed EXCEPT ![d] = failed[d] \ {f}]
  BY <1>3, <1>4, <1>7, <1>10 DEF LoadAgain
<1>16b. /\ failed'[d] = failed[d] \ {f} /\ \A e \in FFDBs : e # d => failed'[e] = failed[e]
        /\ Intact(d, f)
  BY <1>1, <1>3, <1>16a DEF Shape, TypeOK, Intact
<1>17. Complete(d, f)'
  BY <1>1, <1>16, <1>16b, CompleteKept DEF CountInv
<1>18. n <= Has(d, f)' /\ Has(d, f)' = Has(d, f)
  BY <1>16
<1> QED
  BY <1>1, <1>3, <1>6, <1>12, <1>13, <1>14, <1>16, <1>16b, <1>17, <1>18, CountLoad

LEMMA LoadFirstCount ==
    ASSUME Shape, Shape', Longer, CountInv, UNCHANGED <<Inserters, Ticks, Faulty>>, NEW d \in FFDBs, LoadFirst(d)
    PROVE  CountInv'
<1>1. /\ Doing(d, "first") /\ ~Doing(d, "written") /\ ~Doing(d, "again") /\ UNCHANGED <<rows, mtime>>
      /\ busy' = [busy EXCEPT ![d] = <<>>]
  BY DEF LoadFirst, Doing, disk
<1>2. busy[d] \in Opening
  BY <1>1, BusyType DEF Shape
<1>3. PICK f \in Files : f = busy[d].file
  BY <1>2 DEF Opening
<1>4. PICK n \in Nat : n = busy[d].num
  BY <1>2 DEF Opening
<1>5. PICK q \in Queries : q = busy[d].query
  BY <1>2 DEF Opening
<1>6. n <= Len(rows[f]) /\ rows[f] \in Seq(Row)
  BY <1>1, <1>3, <1>4, RowTypes DEF Shape
<1>7. Parsed(rows[f]) = 0
  <2>1. \A i \in DOMAIN rows[f] : rows[f][i].ver # 0
    BY DEF CountInv, Valid
  <2>2. Parsed(rows[f]) \in DOMAIN rows[f] => rows[f][Parsed(rows[f])].ver # 0
    BY <2>1
  <2> QED
    BY <1>6, <2>2, ParsedPlace
<1>8. PICK t \in Nat : t = busy[d].time
  BY <1>2 DEF Opening
<1>9. PICK c : c = Cursor(f, "mem", n)
  OBVIOUS
<1>10. /\ records' = [records EXCEPT ![d][f] = rows[f]] /\ stat' = [stat EXCEPT ![d][f] = t]
       /\ query' = [query EXCEPT ![d][q] = c] /\ failed' = [failed EXCEPT ![d] = failed[d] \ {f}]
  BY <1>3, <1>4, <1>5, <1>7, <1>8, <1>9 DEF LoadFirst
<1>11. /\ records'[d][f] = rows[f] /\ \A e \in FFDBs : e # d => records'[e] = records[e]
       /\ \A g \in Files : g # f => records'[d][g] = records[d][g]
  BY <1>6, <1>10, PutAt DEF Shape, TypeOK
<1>12. /\ stat'[d][f] = t /\ \A e \in FFDBs : e # d => stat'[e] = stat[e]
       /\ \A g \in Files : g # f => stat'[d][g] = stat[d][g]
  BY <1>10, PutAt DEF Shape, TypeOK
<1>12a. failed'[d] = failed[d] \ {f} /\ \A e \in FFDBs : e # d => failed'[e] = failed[e]
  BY <1>10 DEF Shape, TypeOK
<1>13. busy'[d] = <<>> /\ \A op : ~Doing(d, op)'
  BY <1>1 DEF Shape, TypeOK, Doing
<1>14. /\ Has(d, f)' = Len(rows[f]) /\ Len(rows[f]) \in Nat
       /\ \A g \in Files : g # f => Has(d, g)' = Has(d, g)
  BY <1>1, <1>6, <1>11, <1>13 DEF Has
<1>15. Complete(d, f)'
  <2>1. ~Ticks => t <= mtime[f]
    BY <1>1, <1>3, <1>8 DEF CountInv
  <2> QED
    BY <1>1, <1>12, <1>14, <2>1 DEF Complete
<1>16. n <= Len(rows[f]) /\ n <= Has(d, f)' /\ Has(d, f)' = Len(rows[f])
  BY <1>6, <1>14
<1> QED
  BY <1>1, <1>9, <1>10, <1>11, <1>12, <1>12a, <1>14, <1>15, <1>16, CountLoad

\* clearTables: what was before a query of the copy is its own now.
LEMMA ClearCount ==
    ASSUME Shape, Shape', Longer, CountInv, UNCHANGED <<Inserters, Ticks, Faulty>>, NEW d \in FFDBs, Clear(d)
    PROVE  CountInv'
<1>1. busy[d] = <<>> /\ UNCHANGED <<rows, mtime, busy>> /\ \A op : ~Doing(d, op) /\ ~Doing(d, op)'
  BY DEF Clear, disk, Doing
<1>2. /\ stat' = [stat EXCEPT ![d] = [f \in Files |-> 0]]
      /\ records' = [records EXCEPT ![d] = [f \in Files |-> <<>>]]
      /\ query' = [query EXCEPT ![d] = [q \in Queries |->
                    LET c == query[d][q]
                    IN  IF c # <<>> /\ c.src = "mem"
                        THEN [c EXCEPT !.src = "own", !.own = records[d][c.file]] ELSE c]]
      /\ failed' = [failed EXCEPT ![d] = {}]
  BY DEF Clear
<1>3. /\ \A g \in Files : stat'[d][g] = 0
      /\ \A e \in FFDBs : e # d => /\ stat'[e] = stat[e] /\ records'[e] = records[e]
                                   /\ query'[e] = query[e]
  BY <1>2 DEF Shape, TypeOK
<1>3a. failed'[d] = {} /\ \A e \in FFDBs : e # d => failed'[e] = failed[e]
  <2>1. failed' = [failed EXCEPT ![d] = {}] /\ failed \in [FFDBs -> SUBSET Files]
    BY DEF Clear, Shape, TypeOK
  <2> QED
    BY <2>1
<1>4. ASSUME NEW q \in Queries
      PROVE  LET c == query[d][q]
             IN  query'[d][q] = IF c # <<>> /\ c.src = "mem"
                                THEN [c EXCEPT !.src = "own", !.own = records[d][c.file]] ELSE c
  BY <1>2 DEF Shape, TypeOK
<1>5. \A f \in Files : Complete(d, f)'
  BY <1>3 DEF Complete
<1>6. ASSUME NEW q \in Queries PROVE Before(d, q)'
  <2>1. PICK c : c = query[d][q]
    OBVIOUS
  <2>2. c # <<>> => /\ c.num <= Len(rows[c.file])
                    /\ ~Faulty /\ c.src = "own" => c.num <= Len(c.own)
                    /\ ~Faulty /\ c.src = "mem" => c.num <= Has(d, c.file)
    BY <2>1 DEF CountInv, Before, Intact
  <2>3. CASE c # <<>> /\ c.src = "mem"
    <3>1. PICK x : x = [c EXCEPT !.src = "own", !.own = records[d][c.file]]
      OBVIOUS
    <3>2. query'[d][q] = x
      BY <1>4, <2>1, <2>3, <3>1
    <3>3. c \in Reading
      BY <2>1, <2>3, CursorType DEF Shape
    <3>4. x.file = c.file /\ x.src = "own" /\ x.own = records[d][c.file] /\ x.num = c.num
      BY <3>1, <3>3 DEF Reading
    <3>5. x.num <= Len(rows[x.file]) /\ (~Faulty => x.num <= Len(x.own))
      BY <2>2, <2>3, <3>4, <1>1 DEF Has
    <3> QED
      BY <3>2, <3>4, <3>5, <1>1 DEF Before
  <2>4. CASE ~(c # <<>> /\ c.src = "mem")
    <3>1. query'[d][q] = c
      BY <1>4, <2>1, <2>4
    <3> QED
      BY <2>2, <2>4, <3>1, <1>1 DEF Before
  <2> QED
    BY <2>3, <2>4
<1>7. ~Doing(d, "first")'
  BY <1>1
<1> QED
  BY <1>1, <1>3, <1>3a, <1>5, <1>6, <1>7, CountOthers

\* d is done, and what it did with f has failed.
LEMMA CountFailed ==
    ASSUME Shape, Shape', Longer, CountInv, Faulty,
           UNCHANGED <<Inserters, Ticks, Faulty, rows, mtime, query>>,
           NEW d \in FFDBs, NEW f \in Files, busy' = [busy EXCEPT ![d] = <<>>], Fails(d, f),
           Doing(d, "again") \/ Doing(d, "written") => busy[d].file = f,
           \A e \in FFDBs : e # d => stat'[e] = stat[e] /\ records'[e] = records[e],
           \A g \in Files : g # f => stat'[d][g] = stat[d][g] /\ records'[d][g] = records[d][g]
    PROVE  CountInv'
<1>1. /\ failed'[d] = failed[d] \cup {f} /\ \A e \in FFDBs : e # d => failed'[e] = failed[e]
      /\ busy'[d] = <<>> /\ \A e \in FFDBs : e # d => busy'[e] = busy[e]
  BY DEF Fails, Shape, TypeOK
<1>2. \A op : ~Doing(d, op)'
  BY <1>1 DEF Doing
<1>3. ~Intact(d, f)'
  BY <1>1, <1>2 DEF Intact
<1>4. \A g \in Files : g # f => Has(d, g)' = Has(d, g) /\ (Intact(d, g)' <=> Intact(d, g))
  BY <1>1, <1>2 DEF Has, Intact
<1>5. ASSUME NEW g \in Files PROVE Complete(d, g)'
  <2>1. CASE g = f
    BY <2>1, <1>3 DEF Complete
  <2>2. CASE g # f
    BY <2>2, <1>4, CompleteKept DEF CountInv
  <2> QED
    BY <2>1, <2>2
<1>6. ASSUME NEW q \in Queries PROVE Before(d, q)'
  <2>1. PICK x : x = query[d][q]
    OBVIOUS
  <2>2. x # <<>> => x.file \in Files
    BY <2>1, CursorFields DEF Shape
  <2>3. x # <<>> => /\ x.num <= Len(rows[x.file])
                    /\ x.src = "mem" /\ Intact(d, x.file) => x.num <= Has(d, x.file)
    BY <2>1 DEF CountInv, Before
  <2>4. x # <<>> => (x.src = "mem" /\ Intact(d, x.file)' => x.num <= Has(d, x.file)')
    BY <2>2, <2>3, <1>3, <1>4
  <2> QED
    BY <2>1, <2>3, <2>4 DEF Before
<1> QED
  BY <1>1, <1>2, <1>5, <1>6, CountOthers

LEMMA FaultCount ==
    ASSUME Shape, Shape', Longer, CountInv, Faulty, UNCHANGED <<Inserters, Ticks, Faulty>>,
           NEW d \in FFDBs, Fault(d)
    PROVE  CountInv'
<1>1. UNCHANGED <<rows, mtime, query>>
  BY DEF Fault, UpdateFileFails, InsertFails, LoadFails, OpenFails, disk
<1>2. ASSUME busy[d] # <<>>
      PROVE  /\ busy[d].file \in Files
             /\ busy[d].op \in {"seek", "written"} => New(busy[d].id) \in Row
  <2>1. busy[d] \in Inserting \cup Opening
    BY <1>2 DEF Shape, TypeOK
  <2> QED
    BY <2>1 DEF Inserting, Opening, New, Row
<1>3. ASSUME NEW f \in Files, NEW r \in Row, records' = [records EXCEPT ![d][f] = Append(@, r)]
      PROVE  /\ \A e \in FFDBs : e # d => records'[e] = records[e]
             /\ \A g \in Files : g # f => records'[d][g] = records[d][g]
  <2>1. records \in [FFDBs -> [Files -> Seq(Row)]]
    BY DEF Shape, TypeOK
  <2>2. PICK x \in Seq(Row) : x = Append(records[d][f], r)
    <3>1. records[d][f] \in Seq(Row)
      BY <2>1
    <3>2. Append(records[d][f], r) \in Seq(Row)
      BY <3>1, AppendProperties
    <3> QED
      BY <3>2
  <2>3. records' = [records EXCEPT ![d][f] = x]
    BY <1>3, <2>2
  <2> QED
    BY <2>1, <2>3, PutAt
<1>4. ASSUME NEW f \in Files, NEW n \in Nat, stat' = [stat EXCEPT ![d][f] = n]
      PROVE  /\ \A e \in FFDBs : e # d => stat'[e] = stat[e]
             /\ \A g \in Files : g # f => stat'[d][g] = stat[d][g]
  BY <1>4, PutAt DEF Shape, TypeOK
<1>5. CASE UpdateFileFails(d)
  <2>1. PICK f \in Files : f = busy[d].file
    BY <1>2, <1>5 DEF UpdateFileFails
  <2>2. PICK r \in Row : r = New(busy[d].id)
    BY <1>2, <1>5 DEF UpdateFileFails
  <2>3. /\ records' = [records EXCEPT ![d][f] = Append(@, r)] /\ UNCHANGED stat
        /\ Fails(d, f) /\ busy' = [busy EXCEPT ![d] = <<>>]
    BY <1>5, <2>1, <2>2 DEF UpdateFileFails
  <2> QED
    BY <1>1, <1>3, <2>1, <2>3, CountFailed
<1>6. CASE InsertFails(d)
  <2>1. busy[d] # <<>> /\ busy[d].op = "seek" /\ busy' = [busy EXCEPT ![d] = <<>>] /\ UNCHANGED memRecords
    BY <1>6 DEF InsertFails
  <2>2. PICK f \in Files : f = busy[d].file
    BY <1>2, <2>1
  <2>3. PICK r \in Row : r = New(busy[d].id)
    BY <1>2, <2>1
  <2>4. CASE UNCHANGED <<stat, records, failed>>
    <3>1. busy'[d] = <<>> /\ \A e \in FFDBs : e # d => busy'[e] = busy[e]
      BY <2>1 DEF Shape, TypeOK
    <3>2. (\A op : ~Doing(d, op)') /\ ~Doing(d, "again") /\ ~Doing(d, "written")
      BY <2>1, <3>1 DEF Doing
    <3> QED
      BY <1>1, <2>1, <2>4, <3>1, <3>2, CountSame DEF mem
  <2>5. CASE UpdateCopy(d) /\ Fails(d, f)
    <3>1. CASE stat[d][f] = Absent
      BY <1>1, <2>1, <2>2, <2>5, <3>1, CountFailed DEF UpdateCopy
    <3>2. CASE stat[d][f] # Absent
      <4>1. /\ records' = [records EXCEPT ![d][f] = Append(@, r)] /\ stat' = [stat EXCEPT ![d][f] = mtime[f]]
            /\ mtime[f] \in Nat
        BY <2>2, <2>3, <2>5, <3>2, HasType DEF UpdateCopy
      <4>2. /\ \A e \in FFDBs : e # d => records'[e] = records[e]
            /\ \A g \in Files : g # f => records'[d][g] = records[d][g]
        BY <4>1, <1>3
      <4>3. /\ \A e \in FFDBs : e # d => stat'[e] = stat[e]
            /\ \A g \in Files : g # f => stat'[d][g] = stat[d][g]
        BY <4>1, <1>4
      <4> QED
        BY <1>1, <2>1, <2>2, <2>5, <4>2, <4>3, CountFailed
    <3> QED
      BY <3>1, <3>2
  <2> QED
    BY <1>6, <2>2, <2>4, <2>5 DEF InsertFails
<1>7. CASE LoadFails(d)
  <2>1. busy[d] # <<>> /\ busy' = [busy EXCEPT ![d] = <<>>] /\ UNCHANGED <<stat, records, memRecords>>
    BY <1>7 DEF LoadFails
  <2>2. CASE busy[d].op = "first" /\ UNCHANGED failed
    <3>1. busy'[d] = <<>> /\ \A e \in FFDBs : e # d => busy'[e] = busy[e]
      BY <2>1 DEF Shape, TypeOK
    <3>2. (\A op : ~Doing(d, op)') /\ ~Doing(d, "again") /\ ~Doing(d, "written")
      BY <2>2, <3>1 DEF Doing
    <3> QED
      BY <1>1, <2>1, <2>2, <3>1, <3>2, CountSame DEF mem
  <2>3. CASE busy[d].op = "again" /\ Fails(d, busy[d].file)
    <3>1. PICK f \in Files : f = busy[d].file
      BY <1>2, <2>1
    <3> QED
      BY <1>1, <2>1, <2>3, <3>1, CountFailed
  <2> QED
    BY <1>7, <2>2, <2>3 DEF LoadFails
<1>8. ASSUME NEW q \in Queries, NEW f \in Files, OpenFails(d, q, f) PROVE CountInv'
  <2>1. /\ stat' = [stat EXCEPT ![d][f] = Unread] /\ Unread \in Nat
        /\ records' = [records EXCEPT ![d][f] = <<>>] /\ <<>> \in Seq(Row)
        /\ Fails(d, f) /\ UNCHANGED busy /\ busy[d] = <<>>
    BY <1>8 DEF OpenFails
  <2>2. /\ \A e \in FFDBs : e # d => records'[e] = records[e]
        /\ \A g \in Files : g # f => records'[d][g] = records[d][g]
    BY <2>1, PutAt DEF Shape, TypeOK
  <2>3. busy' = [busy EXCEPT ![d] = <<>>] /\ \A op : ~Doing(d, op)
    BY <2>1 DEF Doing, Shape, TypeOK
  <2>4. /\ \A e \in FFDBs : e # d => stat'[e] = stat[e]
        /\ \A g \in Files : g # f => stat'[d][g] = stat[d][g]
    BY <1>4, <2>1
  <2>5. ~Doing(d, "again") /\ ~Doing(d, "written") /\ Fails(d, f) /\ busy' = [busy EXCEPT ![d] = <<>>]
    BY <2>1, <2>3
  <2>6. \A e \in FFDBs : e # d => stat'[e] = stat[e] /\ records'[e] = records[e]
    BY <2>2, <2>4
  <2>7. \A g \in Files : g # f => stat'[d][g] = stat[d][g] /\ records'[d][g] = records[d][g]
    BY <2>2, <2>4
  <2> QED
    BY <1>1, <2>5, <2>6, <2>7, CountFailed
<1> QED
  BY <1>5, <1>6, <1>7, <1>8 DEF Fault

LEMMA CountStep ==
    ASSUME Shape, Shape', Longer, CountInv, ~Malformed, OneInserter, InsertsShow, [Next]_vars
    PROVE  CountInv'
<1>0. /\ UNCHANGED <<Inserters, Ticks, Faulty>> /\ Inserters \subseteq FFDBs /\ Updaters \subseteq FFDBs
      /\ Readers \subseteq FFDBs
  BY SetupType DEF Next, vars, Inserters, Ticks, Faulty, Shape, TypeOK
<1>1. ASSUME UNCHANGED <<rows, mtime, mem, busy, query>> PROVE CountInv'
  <2>1. \A e \in FFDBs : \A op : Doing(e, op)' <=> Doing(e, op)
    BY <1>1 DEF Doing
  <2>2. \A e \in FFDBs : \A g : Has(e, g)' = Has(e, g) /\ (Intact(e, g)' <=> Intact(e, g))
    BY <1>1, <2>1 DEF Has, Intact, mem
  <2>3. \A f \in Files : Valid(f)' = DOMAIN rows'[f]
    BY <1>1 DEF CountInv, Valid
  <2>4. \A e \in FFDBs : ~Ticks' /\ Doing(e, "first")' => busy'[e].time <= mtime'[busy'[e].file]
    BY <1>0, <1>1, <2>1 DEF CountInv
  <2>5. \A e \in FFDBs, f \in Files : Complete(e, f)'
    BY <1>0, <1>1, <2>1, <2>2, CompleteKept DEF CountInv, mem
  <2>6. \A e \in FFDBs, q \in Queries : Before(e, q)'
    BY <1>0, <1>1, <2>2 DEF CountInv, Before
  <2>7. ~Faulty' => \A e \in FFDBs : failed'[e] = {}
    BY <1>0, <1>1 DEF CountInv, mem
  <2> QED
    BY <2>3, <2>4, <2>5, <2>6, <2>7 DEF CountInv
<1>2. ASSUME Tick PROVE CountInv'
  BY <1>1, <1>2 DEF Tick
<1>3. ASSUME NEW f \in Files, EditByHand(f) PROVE CountInv'
  BY <1>3 DEF EditByHand
<1>4. ASSUME NEW d \in Updaters, NEW f \in Files, NEW i \in DOMAIN rows[f], Update(d, f, i) PROVE CountInv'
  BY <1>0, <1>4, UpdateCount
<1>5. ASSUME NEW d \in Inserters, NEW f \in Files, InsertSeek(d, f) PROVE CountInv'
  <2>1. UNCHANGED <<rows, mtime, mem, query>> /\ busy[d] = <<>>
    BY <1>5 DEF InsertSeek
  <2>2. PICK b : b = [op |-> "seek", file |-> f, id |-> written + 1, pos |-> Len(rows[f]) + 1]
    OBVIOUS
  <2>3. busy'[d] = b /\ \A e \in FFDBs : e # d => busy'[e] = busy[e]
    BY <1>0, <1>5, <2>2 DEF InsertSeek, Shape, TypeOK
  <2>4. /\ \A op \in {"again", "written"} : ~Doing(d, op) /\ ~Doing(d, op)'
        /\ ~Doing(d, "first")'
    BY <2>1, <2>2, <2>3 DEF Doing
  <2> QED
    BY <1>0, <2>1, <2>3, <2>4, CountSame
<1>6. ASSUME NEW d \in Inserters, Insert(d) PROVE CountInv'
  BY <1>0, <1>5, <1>6, InsertWriteCount, UpdateFileCount DEF Insert
<1>7. ASSUME NEW d \in Readers, NEW q \in Queries, NEW f \in Files, Open(d, q, f) PROVE CountInv'
  BY <1>0, <1>7, OpenCount
<1>8. ASSUME NEW d \in FFDBs, LoadAgain(d) \/ LoadFirst(d) \/ Clear(d) PROVE CountInv'
  BY <1>0, <1>8, LoadAgainCount, LoadFirstCount, ClearCount
<1>9. ASSUME NEW d \in FFDBs, NEW q \in Queries, ReadRow(d, q) \/ ReadEnd(d, q) \/ ReadStop(d, q)
      PROVE  CountInv'
  BY <1>0, <1>9, ReadCount
<1>10. ASSUME UNCHANGED vars PROVE CountInv'
  BY <1>1, <1>10 DEF vars, disk
<1>11. ASSUME NEW d \in FFDBs, Faulty, Fault(d) PROVE CountInv'
  BY <1>0, <1>11, FaultCount
<1>12. ASSUME Step PROVE CountInv'
  BY <1>2, <1>3, <1>4, <1>6, <1>7, <1>8, <1>9, <1>11, <1>12 DEF Step
<1> QED
  BY <1>10, <1>12 DEF Next

-----------------------------------------------------------------------------
(* The theorems *)

\* The inductive invariant, and what it says where its conditions hold.
THEOREM CacheInvariance == Spec => []CacheInv
<1>1. Init => CacheInv
  BY ShapeInit, OrderInit, CountInit DEF CacheInv
<1>2. ASSUME CacheInv, [Next]_vars PROVE CacheInv'
  <2>1. Shape /\ Shape' /\ Longer
    BY <1>2, ShapeStep DEF CacheInv
  <2>2. UNCHANGED setup
    BY <1>2 DEF Next, vars
  <2>3. /\ OneInserter' <=> OneInserter
        /\ InsertsShow' <=> InsertsShow
        /\ Malformed' <=> Malformed
        /\ Faulty' <=> Faulty
    BY <2>2 DEF OneInserter, InsertsShow, Malformed, Faulty, Inserters, Ticks, Readers
  <2>4. ~Faulty /\ OneInserter => OrderInv'
    BY <1>2, <2>1, OrderStep DEF CacheInv
  <2>5. ~Malformed /\ OneInserter /\ InsertsShow => CountInv'
    BY <1>2, <2>1, CountStep DEF CacheInv
  <2> QED
    BY <2>1, <2>3, <2>4, <2>5 DEF CacheInv
<1> QED
  BY <1>1, <1>2, PTL DEF Spec

\* Where one FFDatabase inserts and no call of the system fails, a copy has rows of
\* its file, each once, in the order of the file, whatever loads, clears and
\* updateFile calls come between.
THEOREM CopyOrdered == Spec => []CopyInOrder
<1>1. CacheInv => CopyInOrder
  <2> SUFFICES ASSUME Shape, OrderInv, NEW d \in FFDBs, NEW f \in Files
               PROVE  /\ \A i \in 2..Len(records[d][f]) :
                            records[d][f][i - 1].id < records[d][f][i].id
                      /\ \A i \in DOMAIN records[d][f] :
                            \E j \in DOMAIN rows[f] : rows[f][j].id = records[d][f][i].id
    BY DEF CacheInv, CopyInOrder
  <2>1. DOMAIN records[d][f] = 1..Len(records[d][f]) /\ Len(records[d][f]) \in Nat
    BY CopyTypes
  <2>2. CopyOrder(d, f)
    BY DEF OrderInv
  <2>3. ASSUME NEW i \in 2..Len(records[d][f]) PROVE records[d][f][i - 1].id < records[d][f][i].id
    <3>1. i - 1 \in DOMAIN records[d][f] /\ i \in DOMAIN records[d][f] /\ i - 1 < i
      BY <2>1
    <3> QED
      BY <2>2, <3>1 DEF CopyOrder
  <2>4. \A i \in DOMAIN records[d][f] : \E j \in DOMAIN rows[f] : rows[f][j].id = records[d][f][i].id
    BY <2>2 DEF CopyOrder, Stands, Valid
  <2> QED
    BY <2>3, <2>4
<1> QED
  BY <1>1, CacheInvariance, PTL

\* Where one FFDatabase inserts and no call of the system fails, a query reads no
\* row of a file twice.
THEOREM NoneTwice == Spec => NoRowAgain
<1>1. ASSUME CacheInv, [Next]_vars
      PROVE  [~Faulty /\ OneInserter => \A d \in FFDBs, q \in Queries :
                 ReadRow(d, q) => query'[d][q].last > query[d][q].last]_vars
  <2>1. Shape /\ Shape' /\ Longer
    BY <1>1, ShapeStep DEF CacheInv
  <2> QED
    BY <1>1, <2>1, OrderStep DEF CacheInv
<1> QED
  BY <1>1, CacheInvariance, PTL DEF Spec, NoRowAgain

\* A query that ends has read as many rows as openFile counted: where one
\* FFDatabase inserts, no row is malformed, and inserts show in the time of the file.
\* Where stat, fopen or a write may fail, it holds of every query that reads the
\* file itself, or a copy that was read again, or cleared, since it met a failure.
THEOREM EndComplete == Spec => EndIsComplete
<1>1. ASSUME CacheInv, ~Malformed, OneInserter, InsertsShow, NEW d \in FFDBs, NEW q \in Queries,
             ReadEnd(d, q), Unharmed(d, q)
      PROVE  query[d][q].pos >= query[d][q].num
  <2>1. Shape /\ CountInv
    BY <1>1 DEF CacheInv
  <2>2. busy[d] = <<>> /\ query[d][q] # <<>> /\ query[d][q].pos >= Len(Source(d, q))
    BY <1>1 DEF ReadEnd
  <2>3. PICK c \in Reading : c = query[d][q]
    BY <2>1, <2>2, CursorType DEF Shape
  <2>4. c.file \in Files /\ c.num \in Nat /\ c.pos \in Nat /\ c.src \in {"mem", "own", "fp"}
    BY <2>3 DEF Reading
  <2>5. Source(d, q) \in Seq(Row)
    BY <2>1, <2>2, CursorType DEF Shape
  <2>6. c.num <= Len(Source(d, q))
    <3>0. (c.src = "own" => ~Faulty) /\ (c.src = "mem" => Intact(d, c.file))
      <4>1. CASE Faulty
        BY <4>1, <1>1, <2>3 DEF Unharmed, Intact
      <4>2. CASE ~Faulty
        BY <4>2, <2>1 DEF CountInv, Intact
      <4> QED
        BY <4>1, <4>2
    <3>1. /\ c.num <= Len(rows[c.file])
          /\ c.src = "own" => c.num <= Len(c.own)
          /\ c.src = "mem" => c.num <= Has(d, c.file)
      BY <3>0, <2>1, <2>2, <2>3 DEF CountInv, Before
    <3>2. Has(d, c.file) = Len(records[d][c.file])
      BY <2>2 DEF Has, Doing
    <3> QED
      BY <2>3, <2>4, <3>1, <3>2 DEF Source
  <2>7. Len(Source(d, q)) \in Nat
    BY <2>5
  <2> QED
    BY <2>2, <2>3, <2>4, <2>6, <2>7
<1>2. CacheInv => [~Malformed /\ OneInserter /\ InsertsShow => \A d \in FFDBs, q \in Queries :
                      ReadEnd(d, q) /\ Unharmed(d, q) => query[d][q].pos >= query[d][q].num]_vars
  BY <1>1
<1> QED
  BY <1>2, CacheInvariance, PTL DEF EndIsComplete

=============================================================================
