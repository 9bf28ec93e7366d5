------------------------- MODULE ScriptControl_proofs -------------------------
(***************************************************************************)
(* Theorems about the interpreter of scripts: what it keeps for a file is  *)
(* what the lines say that it has read.                                    *)
(***************************************************************************)
EXTENDS ScriptControl, FiniteSetTheorems, TLAPS

-----------------------------------------------------------------------------
(* Counting lines *)

\* Whether a line counts.
One(l, op) == IF l.op = op THEN 1 ELSE 0

LEMMA NumberStep ==
    ASSUME NEW lines, NEW op
    PROVE  /\ \A k \in Nat : Number(lines, op, k) \in Nat
           /\ Number(lines, op, 0) = 0
           /\ \A k \in Nat : Number(lines, op, k + 1) =
                 Number(lines, op, k) + One(lines[k + 1], op)
<1> DEFINE S(k) == {i \in 1..k : lines[i].op = op}
<1>1. ASSUME NEW k \in Nat PROVE IsFiniteSet(S(k)) /\ Cardinality(S(k)) \in Nat
  <2>1. IsFiniteSet(1..k)
    BY FS_Interval
  <2>2. S(k) \subseteq 1..k
    OBVIOUS
  <2>3. IsFiniteSet(S(k))
    BY <2>1, <2>2, FS_Subset
  <2> QED
    BY <2>3, FS_CardinalityType
<1>2. Cardinality(S(0)) = 0
  <2>1. S(0) = {}
    OBVIOUS
  <2> QED
    BY <2>1, FS_EmptySet
<1>3. ASSUME NEW k \in Nat
      PROVE  Cardinality(S(k + 1)) = Cardinality(S(k)) + One(lines[k + 1], op)
  <2>1. \A i : i \in 1..(k + 1) <=> i \in 1..k \/ i = k + 1
    OBVIOUS
  <2>2. k + 1 \notin 1..k
    OBVIOUS
  <2>3. CASE lines[k + 1].op = op
    <3>1. S(k + 1) = S(k) \cup {k + 1}
      BY <2>1, <2>3
    <3>2. k + 1 \notin S(k)
      BY <2>2
    <3> HIDE DEF S
    <3>3. Cardinality(S(k) \cup {k + 1}) = Cardinality(S(k)) + 1
      BY <1>1, <3>2, FS_AddElement
    <3> QED
      BY <2>3, <3>1, <3>3 DEF One
  <2>4. CASE lines[k + 1].op # op
    <3>1. S(k + 1) = S(k)
      BY <2>1, <2>4
    <3> HIDE DEF S
    <3> QED
      BY <1>1, <2>4, <3>1 DEF One
  <2> QED
    BY <2>3, <2>4
<1> QED
  BY <1>1, <1>2, <1>3 DEF Number

\* What one line does to a number of open blocks.
Change(l, begin, end) == IF l.op = begin THEN 1 ELSE IF l.op = end THEN -1 ELSE 0

LEMMA OpenStep ==
    ASSUME NEW lines
    PROVE  /\ \A k \in Nat : OpenLoops(lines, k) \in Int /\ OpenIfs(lines, k) \in Int
           /\ OpenLoops(lines, 0) = 0 /\ OpenIfs(lines, 0) = 0
           /\ \A k \in Nat : OpenLoops(lines, k + 1) =
                 OpenLoops(lines, k) + Change(lines[k + 1], "foreach", "endfor")
           /\ \A k \in Nat : OpenIfs(lines, k + 1) =
                 OpenIfs(lines, k) + Change(lines[k + 1], "if", "endif")
<1>1. ASSUME NEW k \in Nat
      PROVE  /\ OpenLoops(lines, k) \in Int /\ OpenIfs(lines, k) \in Int
             /\ OpenLoops(lines, k + 1) =
                   OpenLoops(lines, k) + Change(lines[k + 1], "foreach", "endfor")
             /\ OpenIfs(lines, k + 1) =
                   OpenIfs(lines, k) + Change(lines[k + 1], "if", "endif")
  <2>1. PICK a \in Nat, b \in Nat, c \in Nat, d \in Nat :
           /\ a = Number(lines, "foreach", k) /\ b = Number(lines, "endfor", k)
           /\ c = Number(lines, "if", k) /\ d = Number(lines, "endif", k)
    BY NumberStep
  <2>2. /\ Number(lines, "foreach", k + 1) = a + One(lines[k + 1], "foreach")
        /\ Number(lines, "endfor", k + 1) = b + One(lines[k + 1], "endfor")
        /\ Number(lines, "if", k + 1) = c + One(lines[k + 1], "if")
        /\ Number(lines, "endif", k + 1) = d + One(lines[k + 1], "endif")
    <3>1. ASSUME NEW op
          PROVE  Number(lines, op, k + 1) = Number(lines, op, k) + One(lines[k + 1], op)
      BY NumberStep
    <3> QED
      BY <2>1, <3>1
  <2> QED
    BY <2>1, <2>2 DEF OpenLoops, OpenIfs, Change, One
<1>2. OpenLoops(lines, 0) = 0 /\ OpenIfs(lines, 0) = 0
  BY NumberStep DEF OpenLoops, OpenIfs
<1> QED
  BY <1>1, <1>2

\* The lines up to k count, no others.
LEMMA OpenSame ==
    ASSUME NEW one, NEW other, NEW k \in Nat, \A i \in 1..k : one[i] = other[i]
    PROVE  OpenLoops(one, k) = OpenLoops(other, k)
<1>1. \A op : {i \in 1..k : one[i].op = op} = {i \in 1..k : other[i].op = op}
  OBVIOUS
<1> QED
  BY <1>1 DEF OpenLoops, Number

LEMMA AppendedLoops ==
    ASSUME NEW S, NEW lines \in Seq(S), NEW l \in S
    PROVE  OpenLoops(Append(lines, l), Len(lines) + 1) =
              OpenLoops(lines, Len(lines)) + Change(l, "foreach", "endfor")
<1>1. PICK n \in Nat, more \in Seq(S) : n = Len(lines) /\ more = Append(lines, l)
  <2>1. Len(lines) \in Nat /\ Append(lines, l) \in Seq(S)
    OBVIOUS
  <2> QED
    BY <2>1
<1>2. more[n + 1] = l /\ \A i \in 1..n : more[i] = lines[i]
  BY <1>1
<1>3. OpenLoops(more, n + 1) = OpenLoops(more, n) + Change(more[n + 1], "foreach", "endfor")
  BY OpenStep
<1>4. OpenLoops(more, n) = OpenLoops(lines, n)
  BY <1>2, OpenSame
<1> QED
  BY <1>1, <1>2, <1>3, <1>4

-----------------------------------------------------------------------------
(* What the interpreter keeps for a file *)

Lines(s) == UNION {Range(s[n]) : n \in DOMAIN s}

LoopState(s) == [mode : Modes, lines : Seq(Lines(s)), pos : Nat, i : Nat, end : Nat]

FileState(s) == [rest : Seq(Lines(s)), cs : Seq(States), foreach : Seq(LoopState(s)),
              foreach_blocks : Int, if_blocks : Int]

Reads(loop) == loop.mode \in {"READ", "SKIP"}

Collects(f) == f.foreach # <<>> /\ Reads(f.foreach[Len(f.foreach)])

\* The loop whose lines are taken, 0 for the file, and the next line.
Source(f) == IF Collects(f) THEN Len(f.foreach) - 1 ELSE Len(f.foreach)

AnyLine(f) == IF Source(f) # 0
              THEN f.foreach[Source(f)].pos < Len(f.foreach[Source(f)].lines)
              ELSE f.rest # <<>>

NextLine(f) == IF Source(f) # 0
               THEN f.foreach[Source(f)].lines[f.foreach[Source(f)].pos + 1]
               ELSE Head(f.rest)

Take(f) == IF Source(f) # 0 THEN [f EXCEPT !.foreach[Source(f)].pos = @ + 1]
                            ELSE [f EXCEPT !.rest = Tail(@)]

\* The last loop alone may collect lines; the counter has the loops in them, and
\* the loop itself.
Counted(f) ==
    /\ \A j \in 1..Len(f.foreach) :
          /\ f.foreach[j].pos <= Len(f.foreach[j].lines)
          /\ Reads(f.foreach[j]) => j = Len(f.foreach) /\ f.foreach[j].pos = 0
    /\ ~Collects(f) => f.foreach_blocks = 0
    /\ Collects(f) =>
          LET lines == f.foreach[Len(f.foreach)].lines
          IN  f.foreach_blocks >= 1 /\ f.foreach_blocks = 1 + OpenLoops(lines, Len(lines))

LEMMA ScriptFacts ==
    ASSUME script \in Scripts
    PROVE  /\ MainFile \in DOMAIN script
           /\ \A n \in DOMAIN script : script[n] \in Seq(Lines(script))
           /\ \A l \in Lines(script) : IsALine(l) /\ (l.op = "parse" => l.arg \in DOMAIN script)
<1>1. ASSUME NEW n \in DOMAIN script
      PROVE  script[n] \in Seq(Lines(script)) /\ \A k \in 1..Len(script[n]) : script[n][k] \in Lines(script)
  <2>1. script[n] \in Seq(Range(script[n]))
    BY ScriptsAssumption
  <2>2. Range(script[n]) \subseteq Lines(script)
    BY DEF Lines
  <2> QED
    BY <2>1, <2>2
<1>2. ASSUME NEW l \in Lines(script) PROVE IsALine(l) /\ (l.op = "parse" => l.arg \in DOMAIN script)
  <2>1. PICK n \in DOMAIN script : l \in Range(script[n])
    BY DEF Lines
  <2>2. script[n] \in Seq(Range(script[n]))
    BY ScriptsAssumption
  <2>3. PICK k \in 1..Len(script[n]) : l = script[n][k]
    BY <2>1, <2>2 DEF Range
  <2> QED
    BY <2>3, ScriptsAssumption
<1> QED
  BY <1>1, <1>2, ScriptsAssumption

LEMMA OpenedFile ==
    ASSUME NEW lines \in Seq(Lines(script))
    PROVE  LET f == Opened(lines) IN
           /\ f \in FileState(script) /\ Counted(f) /\ ~Collects(f) /\ f.rest = lines
           /\ f.cs = <<>> /\ Len(f.foreach) = 0 /\ f.if_blocks = 0
<1>1. <<>> \in Seq(LoopState(script)) /\ <<>> \in Seq(States) /\ Len(<<>>) = 0
  OBVIOUS
<1> QED
  BY <1>1 DEF Opened, FileState, Counted, Collects

\* The parts of what is kept for a file.
LEMMA FileParts ==
    ASSUME NEW f \in FileState(script)
    PROVE  /\ f.rest \in Seq(Lines(script)) /\ f.cs \in Seq(States)
           /\ f.foreach \in Seq(LoopState(script))
           /\ f.foreach_blocks \in Int /\ f.if_blocks \in Int
           /\ Len(f.foreach) \in Nat /\ DOMAIN f.foreach = 1..Len(f.foreach)
           /\ Source(f) \in 0..Len(f.foreach)
           /\ \A j \in 1..Len(f.foreach) :
                 /\ f.foreach[j] \in LoopState(script)
                 /\ f.foreach[j].mode \in Modes /\ f.foreach[j].pos \in Nat
                 /\ f.foreach[j].lines \in Seq(Lines(script)) /\ Len(f.foreach[j].lines) \in Nat
                 /\ f.foreach[j].i \in Nat /\ f.foreach[j].end \in Nat
<1>1. /\ f.rest \in Seq(Lines(script)) /\ f.cs \in Seq(States)
      /\ f.foreach \in Seq(LoopState(script))
      /\ f.foreach_blocks \in Int /\ f.if_blocks \in Int
  BY DEF FileState
<1>2. /\ Len(f.foreach) \in Nat /\ DOMAIN f.foreach = 1..Len(f.foreach)
      /\ \A j \in 1..Len(f.foreach) : f.foreach[j] \in LoopState(script)
  BY <1>1
<1>3. f.foreach # <<>> => Len(f.foreach) # 0
  BY <1>1
<1>4. Source(f) \in 0..Len(f.foreach)
  BY <1>2, <1>3 DEF Source, Collects
<1>5. ASSUME NEW loop \in LoopState(script)
      PROVE  /\ loop.mode \in Modes /\ loop.pos \in Nat
             /\ loop.lines \in Seq(Lines(script)) /\ Len(loop.lines) \in Nat
             /\ loop.i \in Nat /\ loop.end \in Nat
  BY DEF LoopState
<1> QED
  BY <1>1, <1>2, <1>4, <1>5

\* The loops, when one of them has changed; and a file with other loops.
Exchanged(loops, q, loop, new) ==
    /\ new = [loops EXCEPT ![q] = loop] /\ Len(new) = Len(loops)
    /\ new[q] = loop /\ \A j \in 1..Len(loops) : j # q => new[j] = loops[j]

LEMMA LoopReplaced ==
    ASSUME NEW loops \in Seq(LoopState(script)), NEW q \in 1..Len(loops),
           NEW loop \in LoopState(script)
    PROVE  \E new \in Seq(LoopState(script)) : Exchanged(loops, q, loop, new)
<1>1. [loops EXCEPT ![q] = loop] \in Seq(LoopState(script))
  OBVIOUS
<1>2. PICK new \in Seq(LoopState(script)) : new = [loops EXCEPT ![q] = loop]
  BY <1>1
<1>3. Len(new) = Len(loops)
  BY <1>2
<1>4. new[q] = loop
  BY <1>2
<1>5. \A j \in 1..Len(loops) : j # q => new[j] = loops[j]
  BY <1>2
<1> QED
  BY <1>2, <1>3, <1>4, <1>5 DEF Exchanged

Fewer(loops, new) ==
    /\ new = Front(loops) /\ Len(new) = Len(loops) - 1
    /\ \A j \in 1..(Len(loops) - 1) : new[j] = loops[j]

LEMMA LoopDropped ==
    ASSUME NEW loops \in Seq(LoopState(script)), Len(loops) # 0
    PROVE  \E new \in Seq(LoopState(script)) : Fewer(loops, new)
<1>1. PICK m \in Nat : m = Len(loops) - 1
  OBVIOUS
<1>2. /\ SubSeq(loops, 1, m) \in Seq(LoopState(script)) /\ Len(SubSeq(loops, 1, m)) = m
      /\ \A j \in 1..m : SubSeq(loops, 1, m)[j] = loops[j]
  BY <1>1
<1>3. Front(loops) = SubSeq(loops, 1, m)
  BY <1>1 DEF Front
<1> QED
  BY <1>1, <1>2, <1>3 DEF Fewer

LEMMA WithLoops ==
    ASSUME NEW f \in FileState(script), NEW loops \in Seq(LoopState(script))
    PROVE  \E h \in FileState(script) :
              /\ h = [f EXCEPT !.foreach = loops] /\ h.foreach = loops /\ h.rest = f.rest
              /\ h.cs = f.cs /\ h.foreach_blocks = f.foreach_blocks /\ h.if_blocks = f.if_blocks
<1>1. [f EXCEPT !.foreach = loops] \in FileState(script)
  BY DEF FileState
<1> QED
  BY <1>1 DEF FileState

\* g is f with the next line l taken.
TakesLine(f, g, l) ==
    LET q == Source(f)  m == Len(f.foreach) IN
    /\ g \in FileState(script) /\ l \in Lines(script)
    /\ g.cs = f.cs /\ g.foreach_blocks = f.foreach_blocks /\ g.if_blocks = f.if_blocks
    /\ Len(g.foreach) = m
    /\ q = 0 => /\ \A j \in 1..m : g.foreach[j] = f.foreach[j]
                /\ f.rest # <<>> /\ l = Head(f.rest) /\ g.rest = Tail(f.rest)
    /\ q # 0 => /\ g.rest = f.rest
                /\ \A j \in 1..m : j # q => g.foreach[j] = f.foreach[j]
                /\ g.foreach[q] = [f.foreach[q] EXCEPT !.pos = @ + 1]
                /\ f.foreach[q].pos < Len(f.foreach[q].lines)
                /\ l = f.foreach[q].lines[f.foreach[q].pos + 1]
                /\ ~Reads(f.foreach[q])

LEMMA TakeIs ==
    ASSUME NEW f \in FileState(script), Counted(f), AnyLine(f)
    PROVE  TakesLine(f, Take(f), NextLine(f))
<1>1. PICK q \in 0..Len(f.foreach), m \in Nat : q = Source(f) /\ m = Len(f.foreach)
  BY FileParts
<1>2. /\ f.foreach \in Seq(LoopState(script)) /\ f.rest \in Seq(Lines(script))
      /\ \A j \in 1..m : /\ f.foreach[j] \in LoopState(script) /\ f.foreach[j].pos \in Nat
                         /\ f.foreach[j].lines \in Seq(Lines(script))
  BY <1>1, FileParts
<1>3. CASE q = 0
  <2>1. f.rest # <<>> /\ Take(f) = [f EXCEPT !.rest = Tail(f.rest)] /\ NextLine(f) = Head(f.rest)
    BY <1>1, <1>3 DEF AnyLine, Take, NextLine
  <2>2. Tail(f.rest) \in Seq(Lines(script)) /\ Head(f.rest) \in Lines(script)
    BY <1>2, <2>1
  <2>3. /\ Take(f) \in FileState(script) /\ Take(f).rest = Tail(f.rest)
        /\ Take(f).foreach = f.foreach
        /\ Take(f).cs = f.cs /\ Take(f).foreach_blocks = f.foreach_blocks
        /\ Take(f).if_blocks = f.if_blocks
    BY <2>1, <2>2 DEF FileState
  <2> QED
    BY <1>1, <1>3, <2>1, <2>2, <2>3 DEF TakesLine
<1>4. CASE q # 0
  <2>1. q \in 1..m
    BY <1>1, <1>4
  <2>2. PICK loop \in LoopState(script) : loop = [f.foreach[q] EXCEPT !.pos = f.foreach[q].pos + 1]
    <3>1. PICK x \in LoopState(script) : x = f.foreach[q]
      BY <1>2, <2>1
    <3>2. [x EXCEPT !.pos = x.pos + 1] \in LoopState(script)
      BY DEF LoopState
    <3> QED
      BY <3>1, <3>2
  <2>3. PICK loops \in Seq(LoopState(script)) :
           /\ loops = [f.foreach EXCEPT ![q] = loop] /\ Len(loops) = m
           /\ loops[q] = loop /\ \A j \in 1..m : j # q => loops[j] = f.foreach[j]
    <3>1. q \in 1..Len(f.foreach)
      BY <1>1, <2>1
    <3>2. PICK new \in Seq(LoopState(script)) : Exchanged(f.foreach, q, loop, new)
      BY <1>2, <3>1, LoopReplaced
    <3> QED
      BY <1>1, <3>2 DEF Exchanged
  <2>4. Take(f) = [f EXCEPT !.foreach = loops]
    BY <1>1, <1>4, <2>2, <2>3 DEF Take
  <2>5. /\ Take(f) \in FileState(script) /\ Take(f).rest = f.rest /\ Take(f).foreach = loops
        /\ Take(f).cs = f.cs /\ Take(f).foreach_blocks = f.foreach_blocks
        /\ Take(f).if_blocks = f.if_blocks
    BY <2>4, WithLoops
  <2>6. /\ f.foreach[q].pos < Len(f.foreach[q].lines)
        /\ NextLine(f) = f.foreach[q].lines[f.foreach[q].pos + 1]
    BY <1>1, <1>4 DEF AnyLine, NextLine
  <2>7. NextLine(f) \in Lines(script)
    BY <1>2, <2>1, <2>6
  <2>8. ~Reads(f.foreach[q])
    BY <1>1, <2>1 DEF Counted, Collects, Source
  <2> QED
    BY <1>1, <1>4, <2>2, <2>3, <2>5, <2>6, <2>7, <2>8 DEF TakesLine
<1> QED
  BY <1>3, <1>4

-----------------------------------------------------------------------------
(* Where in the file the interpreter is *)

\* A loop that began in line b of the file; what is outside of it is read up to
\* line a.  A loop that is executed has been read to its endfor.
Begun(loop, lines, b, a) ==
    /\ lines[b].op = "foreach" /\ b + Len(loop.lines) <= Len(lines)
    /\ \A i \in 1..Len(loop.lines) : loop.lines[i] = lines[b + i]
    /\ Reads(loop) => /\ a = b + Len(loop.lines)
                      /\ \A k \in b..a : OpenLoops(lines, k) > OpenLoops(lines, b - 1)
    /\ ~Reads(loop) => a = b + Len(loop.lines) + 1 /\ Pair(lines, b, a)

\* The loops began in the lines b, and have been executed up to the lines p; p[0]
\* is the last line that was taken from the file itself.
Placed(f, lines, b, p) ==
    /\ b \in [1..Len(f.foreach) -> 1..Len(lines)]
    /\ p \in [0..Len(f.foreach) -> 0..Len(lines)]
    /\ Len(f.rest) = Len(lines) - p[0]
    /\ \A i \in 1..Len(f.rest) : f.rest[i] = lines[p[0] + i]
    /\ \A j \in 1..Len(f.foreach) : /\ Begun(f.foreach[j], lines, b[j], p[j - 1])
                                    /\ p[j] = b[j] + f.foreach[j].pos

\* As many conditionals are open as the lines say, and the loop that is collected
\* has counted its blocks.
Agrees(f, lines, b, p) ==
    LET m == Len(f.foreach) IN
    /\ Len(f.cs) = OpenIfs(lines, p[m])
    /\ ~Collects(f) => f.if_blocks = 0
    /\ Collects(f) =>
          /\ f.if_blocks = OpenIfs(lines, p[m - 1]) - OpenIfs(lines, b[m])
          /\ f.foreach_blocks = OpenLoops(lines, p[m - 1]) - OpenLoops(lines, b[m] - 1)

Tracks(f, lines) ==
    \E b \in [1..Len(f.foreach) -> 1..Len(lines)], p \in [0..Len(f.foreach) -> 0..Len(lines)] :
       Placed(f, lines, b, p) /\ Agrees(f, lines, b, p)

AllMatched(s) == \A n \in DOMAIN s : Matched(s[n])

\* s are the files that there are.
Good(s, f) == /\ f \in FileState(s) /\ Counted(f)
              /\ AllMatched(s) => \E n \in DOMAIN s : Tracks(f, s[n])

\* The inductive invariant: the files that wait for another one collect nothing.
IInv == /\ script \in Scripts /\ undefined \in BOOLEAN
        /\ files \in Seq(FileState(script))
        /\ \A k \in 1..Len(files) : Good(script, files[k]) /\ (Collects(files[k]) => k = Len(files))

LEMMA NewFile ==
    ASSUME script \in Scripts, NEW n \in DOMAIN script
    PROVE  Good(script, Opened(script[n])) /\ ~Collects(Opened(script[n]))
<1>1. PICK lines \in Seq(Lines(script)) : lines = script[n]
  BY ScriptFacts
<1>2. PICK f \in FileState(script) :
         /\ f = Opened(lines) /\ Counted(f) /\ ~Collects(f) /\ f.rest = lines
         /\ f.cs = <<>> /\ Len(f.foreach) = 0 /\ f.if_blocks = 0
  BY OpenedFile
<1>3. Tracks(f, lines)
  <2>1. PICK m \in Nat : m = Len(lines)
    BY <1>1
  <2>2. PICK b, p : b = [j \in 1..0 |-> 1] /\ p = [j \in 0..0 |-> 0]
    OBVIOUS
  <2>3. b \in [1..0 -> 1..m] /\ p \in [0..0 -> 0..m] /\ p[0] = 0
    BY <2>2
  <2>4. Placed(f, lines, b, p)
    BY <1>1, <1>2, <2>1, <2>3 DEF Placed
  <2>5. Len(f.cs) = 0 /\ OpenIfs(lines, p[0]) = 0
    BY <1>2, <2>3, OpenStep
  <2>6. Agrees(f, lines, b, p)
    BY <1>2, <2>5 DEF Agrees
  <2> QED
    BY <1>2, <2>1, <2>3, <2>4, <2>6 DEF Tracks
<1> QED
  BY <1>1, <1>2, <1>3 DEF Good

LEMMA NoElement ==
    ASSUME NEW S, NEW s \in Seq(S)
    PROVE  s # <<>> <=> Len(s) # 0
OBVIOUS

\* The current file, in the words of the model.
LEMMA Current ==
    ASSUME IInv, Running
    PROVE  /\ Good(script, fs) /\ fs \in FileState(script) /\ Counted(fs)
           /\ Collecting <=> Collects(fs)
           /\ InForeach <=> Len(fs.foreach) # 0
           /\ InForeach => fr = fs.foreach[Len(fs.foreach)]
           /\ InRound <=> Source(fs) # 0
           /\ InRound => Round = fs.foreach[Source(fs)]
           /\ HasLine <=> AnyLine(fs)
           /\ HasLine => line = NextLine(fs) /\ Taken = Take(fs)
<1>1. fs = files[Len(files)] /\ Len(files) \in 1..Len(files)
  BY DEF IInv, Running, fs, Last
<1>2. Good(script, fs) /\ fs \in FileState(script) /\ Counted(fs)
  BY <1>1 DEF IInv, Good
<1>3. PICK f \in FileState(script) : f = fs
  BY <1>2
<1>4. PICK loops \in Seq(LoopState(script)) : loops = f.foreach
  BY FileParts
<1>5. PICK m \in Nat : m = Len(loops) /\ (loops # <<>> <=> m # 0)
  BY <1>4
<1>6. /\ InForeach <=> m # 0
      /\ InForeach => fr = loops[m]
  BY <1>3, <1>4, <1>5 DEF InForeach, fr, Last
<1>7. Collecting <=> Collects(fs)
  BY <1>3, <1>4, <1>5, <1>6 DEF Collecting, Collects, Reads, InForeach
<1>8. PICK q \in 0..m : q = Source(fs)
  BY <1>3, <1>4, <1>5, FileParts
<1>9. PICK some \in Seq(LoopState(script)) :
         /\ some = Executing /\ Len(some) = q /\ (some # <<>> <=> q # 0)
         /\ q # 0 => some[q] = loops[q]
  <2>1. CASE Collects(fs)
    <3>1. Executing = SubSeq(loops, 1, m - 1) /\ q = m - 1 /\ m # 0
      BY <1>3, <1>4, <1>5, <1>7, <1>8, <2>1 DEF Executing, Front, Source, Collects
    <3>2. PICK some \in Seq(LoopState(script)) : some = SubSeq(loops, 1, m - 1) /\ Len(some) = m - 1
                                         /\ \A j \in 1..(m - 1) : some[j] = loops[j]
      <4>1. /\ SubSeq(loops, 1, m - 1) \in Seq(LoopState(script))
            /\ Len(SubSeq(loops, 1, m - 1)) = m - 1
            /\ \A j \in 1..(m - 1) : SubSeq(loops, 1, m - 1)[j] = loops[j]
        BY <1>5, <3>1
      <4> QED
        BY <4>1
    <3>3. some # <<>> <=> Len(some) # 0
      BY NoElement
    <3>4. Len(some) = q /\ (q # 0 => some[q] = loops[q])
      BY <1>5, <3>1, <3>2
    <3>5. some = Executing
      BY <3>1, <3>2
    <3> QED
      BY <3>3, <3>4, <3>5
  <2>2. CASE ~Collects(fs)
    <3>1. Executing = loops /\ q = m
      BY <1>3, <1>4, <1>5, <1>7, <1>8, <2>2 DEF Executing, Source
    <3> QED
      BY <1>5, <3>1
  <2> QED
    BY <2>1, <2>2
<1>10. /\ InRound <=> q # 0
       /\ InRound => Round = loops[q]
  BY <1>9 DEF InRound, Round, Last
<1>11. HasLine <=> AnyLine(fs)
  BY <1>3, <1>4, <1>8, <1>10 DEF HasLine, AnyLine
<1>12. HasLine => line = NextLine(fs) /\ Taken = Take(fs)
  BY <1>3, <1>4, <1>8, <1>9, <1>10 DEF line, NextLine, Taken, Take
<1> QED
  BY <1>2, <1>3, <1>4, <1>5, <1>6, <1>7, <1>8, <1>10, <1>11, <1>12

-----------------------------------------------------------------------------
(* What a step does to the places *)

\* The line that is taken is the one behind the place where the source is.
LEMMA NextPlace ==
    ASSUME NEW f \in FileState(script), NEW g, NEW l, TakesLine(f, g, l), NEW lines \in Seq(Lines(script)),
           NEW b, NEW p, Placed(f, lines, b, p)
    PROVE  /\ p[Source(f)] + 1 \in 1..Len(lines) /\ l = lines[p[Source(f)] + 1]
<1>1. PICK q \in 0..Len(f.foreach), m \in Nat, n \in Nat :
         q = Source(f) /\ m = Len(f.foreach) /\ n = Len(lines)
  <2>1. Len(lines) \in Nat
    OBVIOUS
  <2> QED
    BY <2>1, FileParts
<1>2. p \in [0..m -> 0..n]
  BY <1>1 DEF Placed
<1>3. CASE q = 0
  <2>1. PICK rest \in Seq(Lines(script)) : rest = f.rest
    BY FileParts
  <2>2. rest # <<>> /\ l = Head(rest)
    BY <1>1, <1>3, <2>1 DEF TakesLine
  <2>3. 1 \in 1..Len(rest) /\ l = rest[1]
    BY <2>2
  <2>4. Len(rest) = n - p[0] /\ \A i \in 1..Len(rest) : rest[i] = lines[p[0] + i]
    BY <1>1, <2>1 DEF Placed
  <2> QED
    BY <1>1, <1>2, <1>3, <2>3, <2>4
<1>4. CASE q # 0
  <2>1. q \in 1..m
    BY <1>1, <1>4
  <2>2. PICK loop \in LoopState(script), have \in Nat, pos \in Nat :
           loop = f.foreach[q] /\ have = Len(loop.lines) /\ pos = loop.pos
    BY <1>1, <2>1, FileParts
  <2>3. pos < have /\ l = loop.lines[pos + 1]
    BY <1>1, <1>4, <2>2 DEF TakesLine
  <2>4. PICK c \in 1..n : c = b[q]
    BY <1>1, <2>1 DEF Placed
  <2>5. p[q] = c + pos /\ Begun(loop, lines, c, p[q - 1])
    BY <1>1, <2>1, <2>2, <2>4 DEF Placed
  <2>6. c + have <= n /\ \A i \in 1..have : loop.lines[i] = lines[c + i]
    BY <1>1, <2>2, <2>5 DEF Begun
  <2>7. pos + 1 \in 1..have /\ c + (pos + 1) = (c + pos) + 1 /\ (c + pos) + 1 \in 1..n
    BY <2>3, <2>6
  <2>8. loop.lines[pos + 1] = lines[(c + pos) + 1]
    BY <2>6, <2>7
  <2> QED
    BY <1>1, <2>3, <2>5, <2>7, <2>8
<1> QED
  BY <1>3, <1>4

\* What is kept for a loop may say that it is left, or be one line further.
LEMMA BegunSame ==
    ASSUME NEW one, NEW other, one.lines = other.lines, Reads(one) <=> Reads(other),
           NEW lines, NEW b, NEW a, Begun(one, lines, b, a)
    PROVE  Begun(other, lines, b, a)
BY DEF Begun

LEMMA OneFurther ==
    ASSUME NEW m \in Nat, NEW n \in Nat, NEW p \in [0..m -> 0..n], NEW q \in 0..m,
           p[q] + 1 \in 1..n
    PROVE  \E to \in [0..m -> 0..n] :
              to[q] = p[q] + 1 /\ \A j \in 0..m : j # q => to[j] = p[j]
<1>1. [p EXCEPT ![q] = p[q] + 1] \in [0..m -> 0..n]
  OBVIOUS
<1>2. PICK to \in [0..m -> 0..n] : to = [p EXCEPT ![q] = p[q] + 1]
  BY <1>1
<1>3. to[q] = p[q] + 1 /\ \A j \in 0..m : j # q => to[j] = p[j]
  BY <1>2
<1> QED
  BY <1>3

\* The place of the source moves by the line, and the loops that are executed are
\* where they were.
Moved(f, g, l, lines, b, p, to) ==
    LET q == Source(f) IN
    /\ to[q] = p[q] + 1 /\ to[q] \in 1..Len(lines) /\ lines[to[q]] = l
    /\ \A j \in 0..Len(f.foreach) : j # q => to[j] = p[j]
    /\ Len(g.rest) = Len(lines) - to[0]
    /\ \A i \in 1..Len(g.rest) : g.rest[i] = lines[to[0] + i]
    /\ \A j \in 1..q : /\ Begun(g.foreach[j], lines, b[j], to[j - 1])
                       /\ to[j] = b[j] + g.foreach[j].pos

LEMMA TakeMoves ==
    ASSUME NEW f \in FileState(script), NEW g, NEW l, TakesLine(f, g, l), NEW lines \in Seq(Lines(script)),
           NEW b, NEW p, Placed(f, lines, b, p)
    PROVE  \E to \in [0..Len(f.foreach) -> 0..Len(lines)] : Moved(f, g, l, lines, b, p, to)
<1>1. PICK q \in 0..Len(f.foreach), m \in Nat, n \in Nat :
         q = Source(f) /\ m = Len(f.foreach) /\ n = Len(lines)
  <2>1. Len(lines) \in Nat
    OBVIOUS
  <2> QED
    BY <2>1, FileParts
<1>2. p \in [0..m -> 0..n]
  BY <1>1 DEF Placed
<1>3. p[q] + 1 \in 1..n /\ l = lines[p[q] + 1]
  BY <1>1, NextPlace
<1>4. PICK to \in [0..m -> 0..n] :
         to[q] = p[q] + 1 /\ \A j \in 0..m : j # q => to[j] = p[j]
  <2>1. q \in 0..m /\ p[q] + 1 \in 1..n
    BY <1>1, <1>3
  <2> QED
    BY <1>2, <2>1, OneFurther
<1>5. /\ Len(g.rest) = n - to[0]
      /\ \A i \in 1..Len(g.rest) : g.rest[i] = lines[to[0] + i]
  <2>1. PICK rest \in Seq(Lines(script)) : rest = f.rest
    BY FileParts
  <2>2. Len(rest) = n - p[0] /\ \A i \in 1..Len(rest) : rest[i] = lines[p[0] + i]
    BY <1>1, <2>1 DEF Placed
  <2>3. CASE q = 0
    <3>1. g.rest = Tail(rest) /\ rest # <<>>
      BY <1>1, <2>1, <2>3 DEF TakesLine
    <3>2. Len(rest) # 0
      BY <2>1, <3>1, NoElement
    <3>3. Len(Tail(rest)) = Len(rest) - 1 /\ \A i \in 1..(Len(rest) - 1) : Tail(rest)[i] = rest[i + 1]
      BY <3>2
    <3>4. PICK a \in 0..n : a = p[0] /\ to[0] = a + 1
      BY <1>2, <1>4, <2>3
    <3>5. ASSUME NEW i \in 1..(Len(rest) - 1) PROVE rest[i + 1] = lines[to[0] + i]
      <4>1. i + 1 \in 1..Len(rest) /\ a + (i + 1) = (a + 1) + i
        OBVIOUS
      <4> QED
        BY <2>2, <3>4, <4>1
    <3>6. Len(rest) - 1 = n - (a + 1)
      BY <2>2, <3>4
    <3> QED
      BY <3>1, <3>3, <3>4, <3>5, <3>6
  <2>4. CASE q # 0
    <3>1. g.rest = rest
      BY <1>1, <2>1, <2>4 DEF TakesLine
    <3>2. to[0] = p[0]
      BY <1>1, <1>4, <2>4
    <3> QED
      BY <2>2, <3>1, <3>2
  <2> QED
    BY <2>3, <2>4
<1>6. ASSUME NEW j \in 1..q
      PROVE  Begun(g.foreach[j], lines, b[j], to[j - 1]) /\ to[j] = b[j] + g.foreach[j].pos
  <2>1. to[j - 1] = p[j - 1] /\ j \in 1..m /\ q # 0
    BY <1>1, <1>4
  <2>2. Begun(f.foreach[j], lines, b[j], p[j - 1]) /\ p[j] = b[j] + f.foreach[j].pos
    BY <1>1, <2>1 DEF Placed
  <2>3. PICK pos \in Nat, k \in 1..n, loop \in LoopState(script) :
           pos = loop.pos /\ k = b[j] /\ loop = f.foreach[j]
    <3>1. b[j] \in 1..n
      BY <1>1, <2>1 DEF Placed
    <3>2. f.foreach[j] \in LoopState(script) /\ f.foreach[j].pos \in Nat
      BY <1>1, <2>1, FileParts
    <3> QED
      BY <3>1, <3>2
  <2>4. CASE j = q
    <3>1. g.foreach[j] = [loop EXCEPT !.pos = loop.pos + 1]
      BY <1>1, <2>1, <2>3, <2>4 DEF TakesLine
    <3>2. /\ g.foreach[j].pos = pos + 1 /\ g.foreach[j].lines = loop.lines
          /\ g.foreach[j].mode = loop.mode
      BY <2>3, <3>1 DEF LoopState
    <3>3. Begun(g.foreach[j], lines, b[j], p[j - 1])
      <4>1. Reads(loop) <=> Reads(g.foreach[j])
        BY <3>2 DEF Reads
      <4> QED
        BY <2>2, <2>3, <3>2, <4>1, BegunSame
    <3>4. p[j] = k + pos /\ to[j] = p[j] + 1
      BY <1>4, <2>2, <2>3, <2>4
    <3>5. k + (pos + 1) = (k + pos) + 1
      OBVIOUS
    <3> QED
      BY <2>1, <2>3, <3>2, <3>3, <3>4, <3>5
  <2>5. CASE j # q
    <3>1. g.foreach[j] = f.foreach[j]
      BY <1>1, <2>1, <2>5 DEF TakesLine
    <3>2. to[j] = p[j]
      BY <1>4, <2>1, <2>5
    <3> QED
      BY <2>1, <2>2, <3>1, <3>2
  <2> QED
    BY <2>4, <2>5
<1>7. to[q] \in 1..n /\ lines[to[q]] = l
  BY <1>3, <1>4
<1>8. Moved(f, g, l, lines, b, p, to)
  BY <1>1, <1>4, <1>5, <1>6, <1>7 DEF Moved
<1> QED
  BY <1>1, <1>8

\* h is g, but for the conditionals and for loops that are left.
Steps(g, h, l) ==
    /\ h \in FileState(script) /\ h.rest = g.rest
    /\ h.foreach_blocks = g.foreach_blocks /\ h.if_blocks = g.if_blocks
    /\ Len(h.cs) = Len(g.cs) + Change(l, "if", "endif")
    /\ Len(h.foreach) = Len(g.foreach)
    /\ \A j \in 1..Len(g.foreach) : /\ h.foreach[j].lines = g.foreach[j].lines
                                    /\ h.foreach[j].pos = g.foreach[j].pos
                                    /\ ~Reads(g.foreach[j]) /\ ~Reads(h.foreach[j])

\* The place behind a line.
Behind(h, lines, l) ==
    \E b \in [1..Len(h.foreach) -> 1..Len(lines)], p \in [0..Len(h.foreach) -> 0..Len(lines)] :
       /\ Placed(h, lines, b, p) /\ Agrees(h, lines, b, p)
       /\ p[Len(h.foreach)] \in 1..Len(lines) /\ lines[p[Len(h.foreach)]] = l

LEMMA StepTracks ==
    ASSUME NEW f \in FileState(script), NEW g, NEW l, TakesLine(f, g, l), ~Collects(f),
           NEW h, Steps(g, h, l), NEW lines \in Seq(Lines(script)), Tracks(f, lines)
    PROVE  Behind(h, lines, l)
<1>1. PICK m \in Nat, n \in Nat : m = Len(f.foreach) /\ n = Len(lines)
  <2>1. Len(lines) \in Nat
    OBVIOUS
  <2> QED
    BY <2>1, FileParts
<1>2. Source(f) = m /\ Len(g.foreach) = m /\ Len(h.foreach) = m
  BY <1>1 DEF Steps, Source, TakesLine
<1>3. PICK b \in [1..m -> 1..n], p \in [0..m -> 0..n] :
         Placed(f, lines, b, p) /\ Agrees(f, lines, b, p)
  BY <1>1 DEF Tracks
<1>4. PICK to \in [0..m -> 0..n] : Moved(f, g, l, lines, b, p, to)
  BY <1>1, <1>3, TakeMoves
<1>5. /\ to[m] = p[m] + 1 /\ to[m] \in 1..n /\ lines[to[m]] = l
      /\ Len(h.rest) = n - to[0]
      /\ \A i \in 1..Len(h.rest) : h.rest[i] = lines[to[0] + i]
  BY <1>1, <1>2, <1>4 DEF Moved, Steps
<1>6. ASSUME NEW j \in 1..m
      PROVE  Begun(h.foreach[j], lines, b[j], to[j - 1]) /\ to[j] = b[j] + h.foreach[j].pos
  <2>1. Begun(g.foreach[j], lines, b[j], to[j - 1]) /\ to[j] = b[j] + g.foreach[j].pos
    BY <1>1, <1>2, <1>4 DEF Moved
  <2>2. /\ h.foreach[j].lines = g.foreach[j].lines /\ h.foreach[j].pos = g.foreach[j].pos
        /\ ~Reads(g.foreach[j]) /\ ~Reads(h.foreach[j])
    BY <1>2 DEF Steps
  <2>3. Begun(h.foreach[j], lines, b[j], to[j - 1])
    BY <2>1, <2>2, BegunSame
  <2> QED
    BY <2>1, <2>2, <2>3
<1>7. Placed(h, lines, b, to)
  BY <1>1, <1>2, <1>5, <1>6 DEF Placed
<1>8. Agrees(h, lines, b, to)
  <2>1. Len(f.cs) = OpenIfs(lines, p[m]) /\ f.if_blocks = 0
    BY <1>1, <1>3 DEF Agrees
  <2>2. PICK a \in Nat : a = p[m]
    OBVIOUS
  <2>3. OpenIfs(lines, a + 1) = OpenIfs(lines, a) + Change(lines[a + 1], "if", "endif")
    BY OpenStep
  <2>4. Len(h.cs) = Len(f.cs) + Change(l, "if", "endif") /\ h.if_blocks = f.if_blocks
    BY DEF Steps, TakesLine
  <2>5. Len(h.cs) = OpenIfs(lines, to[m]) /\ h.if_blocks = 0
    BY <1>5, <2>1, <2>2, <2>3, <2>4
  <2>6. ~Collects(h)
    <3>1. PICK loops \in Seq(LoopState(script)) : loops = h.foreach
      BY FileParts DEF Steps
    <3>2. loops # <<>> => m \in 1..m
      BY <1>2, <3>1, NoElement
    <3> QED
      BY <1>2, <3>1, <3>2 DEF Steps, Collects
  <2> QED
    BY <1>2, <2>5, <2>6 DEF Agrees
<1> QED
  BY <1>1, <1>2, <1>5, <1>7, <1>8 DEF Behind

\* A loop begins in the line that was taken.
Begins(g, h) ==
    LET m == Len(g.foreach) IN
    /\ h \in FileState(script) /\ h.rest = g.rest /\ h.cs = g.cs /\ h.if_blocks = g.if_blocks
    /\ h.foreach_blocks = 1 /\ ~Collects(g) /\ Collects(h)
    /\ Len(h.foreach) = m + 1 /\ \A j \in 1..m : h.foreach[j] = g.foreach[j]
    /\ h.foreach[m + 1].lines = <<>> /\ h.foreach[m + 1].pos = 0
    /\ Reads(h.foreach[m + 1])

LEMMA BeginTracks ==
    ASSUME NEW g \in FileState(script), NEW h, Begins(g, h), NEW l, l.op = "foreach",
           NEW lines \in Seq(Lines(script)), Behind(g, lines, l)
    PROVE  Tracks(h, lines)
<1>1. PICK m \in Nat, n \in Nat : m = Len(g.foreach) /\ n = Len(lines)
  <2>1. Len(lines) \in Nat
    OBVIOUS
  <2> QED
    BY <2>1, FileParts
<1>2. PICK b \in [1..m -> 1..n], p \in [0..m -> 0..n] :
         /\ Placed(g, lines, b, p) /\ Agrees(g, lines, b, p)
         /\ p[m] \in 1..n /\ lines[p[m]] = l
  BY <1>1 DEF Behind
<1>3. PICK e \in 1..n : e = p[m] /\ lines[e].op = "foreach"
  BY <1>2
<1>4. PICK c \in [1..(m + 1) -> 1..n], to \in [0..(m + 1) -> 0..n] :
         /\ c[m + 1] = e /\ \A j \in 1..m : c[j] = b[j]
         /\ to[m + 1] = e /\ \A j \in 0..m : to[j] = p[j]
  <2>1. /\ [j \in 1..(m + 1) |-> IF j = m + 1 THEN e ELSE b[j]] \in [1..(m + 1) -> 1..n]
        /\ [j \in 0..(m + 1) |-> IF j = m + 1 THEN e ELSE p[j]] \in [0..(m + 1) -> 0..n]
    OBVIOUS
  <2>2. PICK c \in [1..(m + 1) -> 1..n], to \in [0..(m + 1) -> 0..n] :
           /\ c = [j \in 1..(m + 1) |-> IF j = m + 1 THEN e ELSE b[j]]
           /\ to = [j \in 0..(m + 1) |-> IF j = m + 1 THEN e ELSE p[j]]
    BY <2>1
  <2>3. /\ c[m + 1] = e /\ \A j \in 1..m : c[j] = b[j]
        /\ to[m + 1] = e /\ \A j \in 0..m : to[j] = p[j]
    BY <2>2
  <2> QED
    BY <2>3
<1>5. Len(h.foreach) = m + 1 /\ h.rest = g.rest /\ h.cs = g.cs
  BY <1>1 DEF Begins
<1>6. /\ Len(h.rest) = n - to[0]
      /\ \A i \in 1..Len(h.rest) : h.rest[i] = lines[to[0] + i]
  <2>1. to[0] = p[0]
    BY <1>4
  <2> QED
    BY <1>1, <1>2, <1>5, <2>1 DEF Placed
<1>7. OpenLoops(lines, e) = OpenLoops(lines, e - 1) + 1 /\ OpenLoops(lines, e - 1) \in Int
  <2>1. PICK a \in Nat : a = e - 1 /\ a + 1 = e
    OBVIOUS
  <2>2. OpenLoops(lines, a + 1) = OpenLoops(lines, a) + Change(lines[a + 1], "foreach", "endfor")
    BY OpenStep
  <2>3. OpenLoops(lines, a) \in Int
    BY OpenStep
  <2> QED
    BY <1>3, <2>1, <2>2, <2>3 DEF Change
<1>8. ASSUME NEW j \in 1..(m + 1)
      PROVE  Begun(h.foreach[j], lines, c[j], to[j - 1]) /\ to[j] = c[j] + h.foreach[j].pos
  <2>1. CASE j = m + 1
    <3>1. /\ h.foreach[j].lines = <<>> /\ h.foreach[j].pos = 0 /\ Reads(h.foreach[j])
      BY <1>1, <2>1 DEF Begins
    <3>2. PICK x \in Nat : x = Len(h.foreach[j].lines) /\ x = 0
      BY <3>1
    <3>3. to[j - 1] = e /\ to[j] = e /\ c[j] = e
      BY <1>3, <1>4, <2>1
    <3>4. \A k \in e..e : OpenLoops(lines, k) > OpenLoops(lines, e - 1)
      <4>1. \A k \in e..e : k = e
        OBVIOUS
      <4>2. OpenLoops(lines, e) > OpenLoops(lines, e - 1)
        BY <1>7
      <4> QED
        BY <4>1, <4>2
    <3>5. Begun(h.foreach[j], lines, e, e)
      BY <1>1, <1>3, <3>1, <3>2, <3>4 DEF Begun
    <3> QED
      BY <3>1, <3>3, <3>5
  <2>2. CASE j # m + 1
    <3>1. j \in 1..m /\ j - 1 \in 0..m /\ j \in 0..m
      BY <2>2
    <3>2. to[j - 1] = p[j - 1] /\ to[j] = p[j] /\ c[j] = b[j]
      BY <1>4, <3>1
    <3>3. h.foreach[j] = g.foreach[j]
      BY <1>1, <3>1 DEF Begins
    <3>4. Begun(g.foreach[j], lines, b[j], p[j - 1]) /\ p[j] = b[j] + g.foreach[j].pos
      BY <1>1, <1>2, <3>1 DEF Placed
    <3> QED
      BY <3>2, <3>3, <3>4
  <2> QED
    BY <2>1, <2>2
<1>9. Placed(h, lines, c, to)
  BY <1>1, <1>5, <1>6, <1>8 DEF Placed
<1>10. Agrees(h, lines, c, to)
  <2>1. Len(g.cs) = OpenIfs(lines, p[m]) /\ g.if_blocks = 0
    BY <1>1, <1>2 DEF Agrees, Begins
  <2>2. OpenIfs(lines, e) \in Int
    BY OpenStep
  <2>3. Collects(h) /\ h.if_blocks = 0 /\ h.foreach_blocks = 1
    BY <2>1 DEF Begins
  <2>4. to[(m + 1) - 1] = e /\ to[m + 1] = e /\ c[m + 1] = e
    BY <1>3, <1>4
  <2>5. Len(h.cs) = OpenIfs(lines, e)
    BY <1>3, <1>5, <2>1
  <2>6. /\ OpenLoops(lines, e) - OpenLoops(lines, e - 1) = 1
        /\ OpenIfs(lines, e) - OpenIfs(lines, e) = 0
    <3>1. PICK o \in Int, i \in Int : o = OpenLoops(lines, e - 1) /\ i = OpenIfs(lines, e)
      BY <1>7, <2>2
    <3>2. (o + 1) - o = 1 /\ i - i = 0
      OBVIOUS
    <3> QED
      BY <1>7, <3>1, <3>2
  <2> QED
    BY <1>5, <2>3, <2>4, <2>5, <2>6 DEF Agrees
<1> QED
  BY <1>1, <1>5, <1>9, <1>10 DEF Tracks

\* The line that was taken is collected.
Gathers(g, h, l) ==
    LET m == Len(g.foreach) IN
    /\ h \in FileState(script) /\ h.rest = g.rest /\ h.cs = g.cs
    /\ h.foreach_blocks = g.foreach_blocks + Change(l, "foreach", "endfor")
    /\ h.if_blocks = g.if_blocks + Change(l, "if", "endif")
    /\ h.foreach_blocks >= 1 /\ Collects(h)
    /\ Len(h.foreach) = m /\ \A j \in 1..(m - 1) : h.foreach[j] = g.foreach[j]
    /\ h.foreach[m].lines = Append(g.foreach[m].lines, l)
    /\ h.foreach[m].pos = g.foreach[m].pos /\ Reads(h.foreach[m])

LEMMA GatherTracks ==
    ASSUME NEW f \in FileState(script), NEW g, NEW l, TakesLine(f, g, l), Collects(f),
           NEW h, Gathers(g, h, l), NEW lines \in Seq(Lines(script)), Tracks(f, lines)
    PROVE  Tracks(h, lines)
<1>1. PICK m \in Nat, n \in Nat, q \in Nat :
         m = Len(f.foreach) /\ n = Len(lines) /\ q = Source(f) /\ q = m - 1 /\ m # 0
  <2>1. Len(lines) \in Nat
    OBVIOUS
  <2>2. Len(f.foreach) # 0
    BY FileParts, NoElement DEF Collects
  <2>3. Source(f) = Len(f.foreach) - 1 /\ Source(f) \in 0..Len(f.foreach)
    BY FileParts DEF Source
  <2> QED
    BY <2>1, <2>2, <2>3, FileParts
<1>2. Len(g.foreach) = m /\ Len(h.foreach) = m /\ h.rest = g.rest
  BY <1>1 DEF Gathers, TakesLine
<1>3. PICK b \in [1..m -> 1..n], p \in [0..m -> 0..n] :
         Placed(f, lines, b, p) /\ Agrees(f, lines, b, p)
  BY <1>1 DEF Tracks
<1>4. PICK to \in [0..m -> 0..n] : Moved(f, g, l, lines, b, p, to)
  BY <1>1, <1>3, TakeMoves
<1>5. PICK e \in 0..n : e = p[q] /\ e + 1 \in 1..n /\ to[q] = e + 1 /\ lines[e + 1] = l
  <2>1. q \in 0..m
    BY <1>1
  <2>2. PICK e \in 0..n : e = p[q]
    BY <2>1
  <2>3. to[q] = p[q] + 1 /\ to[q] \in 1..n /\ lines[to[q]] = l
    BY <1>1, <1>4 DEF Moved
  <2>4. e + 1 \in 1..n /\ to[q] = e + 1 /\ lines[e + 1] = l
    BY <2>2, <2>3
  <2> QED
    BY <2>2, <2>4
<1>6. to[m] = p[m]
  BY <1>1, <1>4 DEF Moved
<1>7. PICK k \in 1..n, loop \in LoopState(script), x \in Nat :
         /\ k = b[m] /\ loop = f.foreach[m] /\ x = Len(loop.lines)
         /\ loop.lines \in Seq(Lines(script))
  <2>1. m \in 1..m
    BY <1>1
  <2>2. /\ b[m] \in 1..n /\ f.foreach[m] \in LoopState(script)
        /\ Len(f.foreach[m].lines) \in Nat /\ f.foreach[m].lines \in Seq(Lines(script))
    BY <1>1, <2>1, FileParts
  <2> QED
    BY <2>2
<1>8. /\ Reads(loop) /\ Begun(loop, lines, k, e) /\ p[m] = k + loop.pos
      /\ g.foreach[m] = loop
  <2>1. Begun(f.foreach[m], lines, b[m], p[m - 1]) /\ p[m] = b[m] + f.foreach[m].pos
    BY <1>1, <1>3 DEF Placed
  <2>2. Reads(loop)
    BY <1>1, <1>7 DEF Collects
  <2>3. g.foreach[m] = f.foreach[m]
    <3>1. m \in 1..m /\ m # q
      BY <1>1
    <3>2. CASE q = 0
      BY <1>1, <3>1, <3>2 DEF TakesLine
    <3>3. CASE q # 0
      BY <1>1, <3>1, <3>3 DEF TakesLine
    <3> QED
      BY <3>2, <3>3
  <2> QED
    BY <1>1, <1>5, <1>7, <2>1, <2>2, <2>3
<1>9. e = k + x /\ lines[k].op = "foreach" /\ \A i \in 1..x : loop.lines[i] = lines[k + i]
  BY <1>7, <1>8 DEF Begun
<1>10. \A i \in k..e : OpenLoops(lines, i) > OpenLoops(lines, k - 1)
  BY <1>8 DEF Begun
<1>11. /\ OpenLoops(lines, e + 1) = OpenLoops(lines, e) + Change(l, "foreach", "endfor")
       /\ OpenIfs(lines, e + 1) = OpenIfs(lines, e) + Change(l, "if", "endif")
  <2>1. e \in Nat
    OBVIOUS
  <2>2. /\ OpenLoops(lines, e + 1) = OpenLoops(lines, e) + Change(lines[e + 1], "foreach", "endfor")
        /\ OpenIfs(lines, e + 1) = OpenIfs(lines, e) + Change(lines[e + 1], "if", "endif")
    BY <2>1, OpenStep
  <2> QED
    BY <1>5, <2>2
<1>12. PICK o1 \in Int, o2 \in Int, i1 \in Int, i2 \in Int :
          /\ o1 = OpenLoops(lines, e) /\ o2 = OpenLoops(lines, k - 1)
          /\ i1 = OpenIfs(lines, e) /\ i2 = OpenIfs(lines, k)
  <2>1. e \in Nat /\ k \in Nat /\ k - 1 \in Nat
    OBVIOUS
  <2> QED
    BY <2>1, OpenStep
<1>13. PICK d1 \in Int, d2 \in Int :
          d1 = Change(l, "foreach", "endfor") /\ d2 = Change(l, "if", "endif")
  BY DEF Change
<1>14. /\ Len(f.cs) = OpenIfs(lines, p[m])
       /\ f.if_blocks = i1 - i2 /\ f.foreach_blocks = o1 - o2
  BY <1>1, <1>3, <1>5, <1>7, <1>12 DEF Agrees
<1>15. /\ h.if_blocks = (i1 - i2) + d2 /\ h.foreach_blocks = (o1 - o2) + d1
       /\ h.foreach_blocks >= 1 /\ h.cs = f.cs /\ Collects(h)
  BY <1>13, <1>14 DEF Gathers, TakesLine
<1>16. ASSUME NEW i \in k..(e + 1) PROVE OpenLoops(lines, i) > OpenLoops(lines, k - 1)
  <2>1. CASE i = e + 1
    <3>1. OpenLoops(lines, e + 1) = o1 + d1
      BY <1>11, <1>12, <1>13
    <3>2. o1 + d1 > o2
      BY <1>15
    <3> QED
      BY <1>12, <2>1, <3>1, <3>2
  <2>2. CASE i # e + 1
    <3>1. i \in k..e
      BY <2>2
    <3> QED
      BY <1>10, <3>1
  <2> QED
    BY <2>1, <2>2
<1>17. Begun(h.foreach[m], lines, k, e + 1) /\ h.foreach[m].pos = loop.pos
  <2>1. /\ h.foreach[m].lines = Append(loop.lines, l) /\ h.foreach[m].pos = loop.pos
        /\ Reads(h.foreach[m])
    BY <1>2, <1>8 DEF Gathers
  <2>2. l \in Lines(script)
    BY DEF TakesLine
  <2>3. /\ Len(Append(loop.lines, l)) = x + 1
        /\ \A i \in 1..x : Append(loop.lines, l)[i] = loop.lines[i]
        /\ Append(loop.lines, l)[x + 1] = l
    <3>1. PICK s \in Seq(Lines(script)) : s = loop.lines /\ Len(s) = x
      BY <1>7
    <3>2. /\ Len(Append(s, l)) = x + 1
          /\ \A i \in 1..x : Append(s, l)[i] = s[i]
          /\ Append(s, l)[x + 1] = l
      BY <2>2, <3>1
    <3> QED
      BY <3>1, <3>2
  <2>4. ASSUME NEW i \in 1..(x + 1) PROVE Append(loop.lines, l)[i] = lines[k + i]
    <3>1. CASE i = x + 1
      <4>1. k + i = e + 1
        BY <1>9, <3>1
      <4> QED
        BY <1>5, <2>3, <3>1, <4>1
    <3>2. CASE i # x + 1
      <4>1. i \in 1..x
        BY <3>2
      <4> QED
        BY <1>9, <2>3, <4>1
    <3> QED
      BY <3>1, <3>2
  <2>5. e + 1 = k + (x + 1) /\ k + (x + 1) <= n
    <3>1. e = k + x /\ e + 1 <= n
      BY <1>5, <1>9
    <3> QED
      BY <3>1
  <2> QED
    BY <1>1, <1>9, <1>16, <2>1, <2>3, <2>4, <2>5 DEF Begun
<1>18. ASSUME NEW j \in 1..m
       PROVE  Begun(h.foreach[j], lines, b[j], to[j - 1]) /\ to[j] = b[j] + h.foreach[j].pos
  <2>1. CASE j = m
    BY <1>1, <1>5, <1>6, <1>7, <1>8, <1>17, <2>1
  <2>2. CASE j # m
    <3>1. j \in 1..q /\ j \in 1..(m - 1)
      BY <1>1, <2>2
    <3>2. h.foreach[j] = g.foreach[j]
      BY <1>2, <3>1 DEF Gathers
    <3> QED
      BY <1>1, <1>4, <3>1, <3>2 DEF Moved
  <2> QED
    BY <2>1, <2>2
<1>19. /\ Len(h.rest) = n - to[0]
       /\ \A i \in 1..Len(h.rest) : h.rest[i] = lines[to[0] + i]
  BY <1>1, <1>2, <1>4 DEF Moved
<1>20. Placed(h, lines, b, to)
  BY <1>1, <1>2, <1>18, <1>19 DEF Placed
<1>21. Agrees(h, lines, b, to)
  <2>1. to[m - 1] = e + 1 /\ b[m] = k
    BY <1>1, <1>5, <1>7
  <2>2. /\ h.if_blocks = OpenIfs(lines, e + 1) - OpenIfs(lines, k)
        /\ h.foreach_blocks = OpenLoops(lines, e + 1) - OpenLoops(lines, k - 1)
    <3>1. OpenIfs(lines, e + 1) = i1 + d2 /\ OpenLoops(lines, e + 1) = o1 + d1
      BY <1>11, <1>12, <1>13
    <3>2. (i1 - i2) + d2 = (i1 + d2) - i2 /\ (o1 - o2) + d1 = (o1 + d1) - o2
      OBVIOUS
    <3> QED
      BY <1>12, <1>15, <3>1, <3>2
  <2> QED
    BY <1>2, <1>6, <1>14, <1>15, <2>1, <2>2 DEF Agrees
<1> QED
  BY <1>1, <1>2, <1>20, <1>21 DEF Tracks

\* The endfor that is found by counting is the one of the loop, and the loop has as
\* many ifs as endifs.
Closed(f, lines, b, p, e) ==
    LET m == Len(f.foreach) IN
    /\ Pair(lines, b[m], e) /\ OpenIfs(lines, e) = OpenIfs(lines, b[m])
    /\ f.if_blocks = 0 /\ p[m] = b[m] /\ f.foreach[m].pos = 0
    /\ e = b[m] + Len(f.foreach[m].lines) + 1

LEMMA Closing ==
    ASSUME NEW f \in FileState(script), Counted(f), Collects(f), f.foreach_blocks = 1,
           NEW lines \in Seq(Lines(script)), Matched(lines),
           NEW b, NEW p, Placed(f, lines, b, p), Agrees(f, lines, b, p),
           NEW e, e = p[Len(f.foreach) - 1] + 1, e \in 1..Len(lines), lines[e].op = "endfor"
    PROVE  Closed(f, lines, b, p, e)
<1>1. PICK m \in Nat, n \in Nat : m = Len(f.foreach) /\ n = Len(lines) /\ m \in 1..m
  <2>1. Len(lines) \in Nat
    OBVIOUS
  <2>2. Len(f.foreach) # 0
    BY FileParts, NoElement DEF Collects
  <2> QED
    BY <2>1, <2>2, FileParts
<1>2. PICK k \in 1..n, loop \in LoopState(script), x \in Nat :
         /\ k = b[m] /\ loop = f.foreach[m] /\ x = Len(loop.lines)
  <2>1. b[m] \in 1..n /\ f.foreach[m] \in LoopState(script) /\ Len(f.foreach[m].lines) \in Nat
    BY <1>1, FileParts DEF Placed
  <2> QED
    BY <2>1
<1>3. Reads(loop) /\ loop.pos = 0
  BY <1>1, <1>2 DEF Collects, Counted
<1>4. Begun(loop, lines, k, p[m - 1]) /\ p[m] = k + loop.pos
  BY <1>1, <1>2 DEF Placed
<1>5. PICK d \in 0..n : d = p[m - 1] /\ e = d + 1
  <2>1. p \in [0..m -> 0..n] /\ m - 1 \in 0..m
    BY <1>1 DEF Placed
  <2>2. p[m - 1] \in 0..n
    BY <2>1
  <2> QED
    BY <1>1, <2>2
<1>6. d = k + x /\ lines[k].op = "foreach"
  BY <1>2, <1>3, <1>4, <1>5 DEF Begun
<1>7. \A i \in k..d : OpenLoops(lines, i) > OpenLoops(lines, k - 1)
  BY <1>3, <1>4, <1>5 DEF Begun
<1>8. PICK o1 \in Int, o2 \in Int, i1 \in Int, i2 \in Int :
         /\ o1 = OpenLoops(lines, d) /\ o2 = OpenLoops(lines, k - 1)
         /\ i1 = OpenIfs(lines, d) /\ i2 = OpenIfs(lines, k)
  <2>1. d \in Nat /\ k \in Nat /\ k - 1 \in Nat
    OBVIOUS
  <2> QED
    BY <2>1, OpenStep
<1>9. OpenLoops(lines, d + 1) = o1 - 1 /\ OpenIfs(lines, d + 1) = i1
  <2>1. d \in Nat
    OBVIOUS
  <2>2. /\ OpenLoops(lines, d + 1) = OpenLoops(lines, d) + Change(lines[d + 1], "foreach", "endfor")
        /\ OpenIfs(lines, d + 1) = OpenIfs(lines, d) + Change(lines[d + 1], "if", "endif")
    BY <2>1, OpenStep
  <2>3. /\ Change(lines[d + 1], "foreach", "endfor") = -1
        /\ Change(lines[d + 1], "if", "endif") = 0
    BY <1>5 DEF Change
  <2> QED
    BY <1>8, <2>2, <2>3
<1>10. f.foreach_blocks = o1 - o2 /\ f.if_blocks = i1 - i2
  BY <1>1, <1>2, <1>5, <1>8 DEF Agrees
<1>11. OpenLoops(lines, e) = OpenLoops(lines, k - 1)
  <2>1. o1 - 1 = o2
    BY <1>10
  <2> QED
    BY <1>5, <1>8, <1>9, <2>1
<1>12. Pair(lines, k, e)
  <2>1. k < e /\ e - 1 = d
    BY <1>5, <1>6
  <2> QED
    BY <1>5, <1>6, <1>7, <1>11, <2>1 DEF Pair
<1>13. OpenIfs(lines, e) = OpenIfs(lines, k)
  <2>1. k \in DOMAIN lines /\ e \in DOMAIN lines
    BY <1>1, <1>5
  <2> QED
    BY <1>12, <2>1 DEF Matched
<1>14. f.if_blocks = 0
  <2>1. i1 = i2
    BY <1>5, <1>8, <1>9, <1>13
  <2> QED
    BY <1>10, <2>1
<1>15. p[m] = k /\ e = k + x + 1
  BY <1>3, <1>4, <1>5, <1>6
<1> QED
  BY <1>1, <1>2, <1>3, <1>12, <1>13, <1>14, <1>15 DEF Closed

\* The lines of a loop are complete: the loop begins, or is left out.
Starts(g, h) ==
    LET m == Len(g.foreach) IN
    /\ h \in FileState(script) /\ h.rest = g.rest /\ h.cs = g.cs /\ h.if_blocks = g.if_blocks
    /\ h.foreach_blocks = 0 /\ ~Collects(h)
    /\ Len(h.foreach) = m /\ \A j \in 1..(m - 1) : h.foreach[j] = g.foreach[j]
    /\ h.foreach[m].lines = g.foreach[m].lines /\ h.foreach[m].pos = g.foreach[m].pos
    /\ ~Reads(h.foreach[m])

Drops(g, h) ==
    LET m == Len(g.foreach) IN
    /\ h \in FileState(script) /\ h.rest = g.rest /\ h.cs = g.cs /\ h.if_blocks = g.if_blocks
    /\ h.foreach_blocks = 0 /\ ~Collects(h)
    /\ Len(h.foreach) = m - 1 /\ \A j \in 1..(m - 1) : h.foreach[j] = g.foreach[j]

\* The places of the outer loops.
Outer(b, p, q, n) ==
    \E c \in [1..q -> 1..n], t \in [0..q -> 0..n] :
       (\A j \in 1..q : c[j] = b[j]) /\ (\A j \in 0..q : t[j] = p[j])

LEMMA Restricted ==
    ASSUME NEW m \in Nat, NEW n \in Nat, NEW b \in [1..m -> 1..n], NEW p \in [0..m -> 0..n],
           NEW q \in Nat, q <= m
    PROVE  Outer(b, p, q, n)
<1>1. [j \in 1..q |-> b[j]] \in [1..q -> 1..n] /\ [j \in 0..q |-> p[j]] \in [0..q -> 0..n]
  OBVIOUS
<1>2. PICK c \in [1..q -> 1..n], t \in [0..q -> 0..n] :
         c = [j \in 1..q |-> b[j]] /\ t = [j \in 0..q |-> p[j]]
  BY <1>1
<1>3. (\A j \in 1..q : c[j] = b[j]) /\ (\A j \in 0..q : t[j] = p[j])
  BY <1>2
<1> QED
  BY <1>3 DEF Outer

LEMMA EndTracks ==
    ASSUME NEW f \in FileState(script), Counted(f), Collects(f), f.foreach_blocks = 1,
           NEW g, NEW l, TakesLine(f, g, l), l.op = "endfor",
           NEW lines \in Seq(Lines(script)), Matched(lines), Tracks(f, lines),
           NEW h, Starts(g, h) \/ Drops(g, h)
    PROVE  Tracks(h, lines)
<1>1. PICK m \in Nat, n \in Nat, q \in Nat :
         m = Len(f.foreach) /\ n = Len(lines) /\ q = Source(f) /\ q = m - 1 /\ m \in 1..m
  <2>1. Len(lines) \in Nat
    OBVIOUS
  <2>2. Len(f.foreach) # 0
    BY FileParts, NoElement DEF Collects
  <2>3. Source(f) = Len(f.foreach) - 1 /\ Source(f) \in 0..Len(f.foreach)
    BY FileParts DEF Source
  <2> QED
    BY <2>1, <2>2, <2>3, FileParts
<1>2. PICK b \in [1..m -> 1..n], p \in [0..m -> 0..n] :
         Placed(f, lines, b, p) /\ Agrees(f, lines, b, p)
  BY <1>1 DEF Tracks
<1>3. PICK to \in [0..m -> 0..n] : Moved(f, g, l, lines, b, p, to)
  BY <1>1, <1>2, TakeMoves
<1>4. PICK e \in 1..n : e = p[m - 1] + 1 /\ to[q] = e /\ lines[e].op = "endfor"
  <2>1. to[q] = p[q] + 1 /\ to[q] \in 1..n /\ lines[to[q]] = l
    BY <1>1, <1>3 DEF Moved
  <2> QED
    BY <1>1, <2>1
<1>5. to[m] = p[m]
  <2>1. m \in 0..m /\ m # q
    BY <1>1
  <2> QED
    BY <1>1, <1>3, <2>1 DEF Moved
<1>6. /\ Pair(lines, b[m], e) /\ OpenIfs(lines, e) = OpenIfs(lines, b[m])
      /\ f.if_blocks = 0 /\ p[m] = b[m] /\ f.foreach[m].pos = 0
      /\ e = b[m] + Len(f.foreach[m].lines) + 1
  <2>1. e = p[Len(f.foreach) - 1] + 1 /\ e \in 1..Len(lines) /\ lines[e].op = "endfor"
    BY <1>1, <1>4
  <2>2. Placed(f, lines, b, p) /\ Agrees(f, lines, b, p)
    BY <1>2
  <2>3. Closed(f, lines, b, p, e)
    BY <2>1, <2>2, Closing
  <2> QED
    BY <1>1, <2>3 DEF Closed
<1>7. Begun(f.foreach[m], lines, b[m], p[m - 1]) /\ Reads(f.foreach[m])
  BY <1>1, <1>2 DEF Placed, Collects
<1>8. Len(f.cs) = OpenIfs(lines, b[m])
  BY <1>1, <1>2, <1>6 DEF Agrees
<1>9. /\ Len(g.rest) = n - to[0]
      /\ \A i \in 1..Len(g.rest) : g.rest[i] = lines[to[0] + i]
      /\ \A j \in 1..(m - 1) : /\ Begun(g.foreach[j], lines, b[j], to[j - 1])
                               /\ to[j] = b[j] + g.foreach[j].pos
  BY <1>1, <1>3 DEF Moved
<1>10. Len(g.foreach) = m /\ g.cs = f.cs /\ g.if_blocks = 0 /\ g.foreach[m] = f.foreach[m]
  <2>1. m \in 1..m /\ m # q
    BY <1>1
  <2>2. CASE q = 0
    BY <1>1, <1>6, <2>1, <2>2 DEF TakesLine
  <2>3. CASE q # 0
    BY <1>1, <1>6, <2>1, <2>3 DEF TakesLine
  <2> QED
    BY <2>2, <2>3
<1>11. CASE Starts(g, h)
  <2>1. /\ Len(h.foreach) = m /\ h.rest = g.rest /\ h.cs = f.cs /\ h.if_blocks = 0 /\ ~Collects(h)
        /\ \A j \in 1..(m - 1) : h.foreach[j] = g.foreach[j]
        /\ h.foreach[m].lines = f.foreach[m].lines /\ h.foreach[m].pos = 0
        /\ ~Reads(h.foreach[m])
    BY <1>6, <1>10, <1>11 DEF Starts
  <2>2. Begun(h.foreach[m], lines, b[m], e)
    BY <1>6, <1>7, <2>1 DEF Begun
  <2>3. ASSUME NEW j \in 1..m
        PROVE  Begun(h.foreach[j], lines, b[j], to[j - 1]) /\ to[j] = b[j] + h.foreach[j].pos
    <3>1. CASE j = m
      <4>1. b[m] \in 1..n
        BY <1>1
      <4>2. to[m] = b[m] /\ b[m] = b[m] + 0 /\ to[m - 1] = e
        BY <1>1, <1>4, <1>5, <1>6, <4>1
      <4> QED
        BY <2>1, <2>2, <3>1, <4>2
    <3>2. CASE j # m
      <4>1. j \in 1..(m - 1)
        BY <3>2
      <4> QED
        BY <1>9, <2>1, <4>1
    <3> QED
      BY <3>1, <3>2
  <2>4. Placed(h, lines, b, to)
    BY <1>1, <1>9, <2>1, <2>3 DEF Placed
  <2>5. Agrees(h, lines, b, to)
    BY <1>5, <1>6, <1>8, <2>1 DEF Agrees
  <2> QED
    BY <1>1, <2>1, <2>4, <2>5 DEF Tracks
<1>12. CASE Drops(g, h)
  <2>1. /\ Len(h.foreach) = q /\ h.rest = g.rest /\ h.cs = f.cs /\ h.if_blocks = 0 /\ ~Collects(h)
        /\ \A j \in 1..q : h.foreach[j] = g.foreach[j]
    BY <1>1, <1>10, <1>12 DEF Drops
  <2>2. PICK c \in [1..q -> 1..n], t \in [0..q -> 0..n] :
           (\A j \in 1..q : c[j] = b[j]) /\ (\A j \in 0..q : t[j] = to[j])
    <3>1. q <= m
      BY <1>1
    <3>2. Outer(b, to, q, n)
      BY <3>1, Restricted
    <3> QED
      BY <3>2 DEF Outer
  <2>3. /\ Len(h.rest) = n - t[0]
        /\ \A i \in 1..Len(h.rest) : h.rest[i] = lines[t[0] + i]
    BY <1>9, <2>1, <2>2
  <2>4. ASSUME NEW j \in 1..q
        PROVE  Begun(h.foreach[j], lines, c[j], t[j - 1]) /\ t[j] = c[j] + h.foreach[j].pos
    <3>1. j \in 1..(m - 1) /\ j \in 0..q /\ j - 1 \in 0..q
      BY <1>1
    <3>2. c[j] = b[j] /\ t[j] = to[j] /\ t[j - 1] = to[j - 1] /\ h.foreach[j] = g.foreach[j]
      BY <2>1, <2>2, <3>1
    <3> QED
      BY <1>9, <3>1, <3>2
  <2>5. Placed(h, lines, c, t)
    BY <1>1, <2>1, <2>3, <2>4 DEF Placed
  <2>6. Agrees(h, lines, c, t)
    <3>1. t[q] = e
      <4>1. q \in 0..q
        OBVIOUS
      <4> QED
        BY <1>4, <2>2, <4>1
    <3> QED
      BY <1>6, <1>8, <2>1, <3>1 DEF Agrees
  <2> QED
    BY <1>1, <2>1, <2>5, <2>6 DEF Tracks
<1> QED
  BY <1>11, <1>12

\* A loop has been executed to its last line: there is another round, or none.
Repeats(f, h) ==
    LET m == Len(f.foreach) IN
    /\ h \in FileState(script) /\ h.rest = f.rest /\ h.cs = f.cs /\ h.if_blocks = f.if_blocks
    /\ h.foreach_blocks = f.foreach_blocks /\ ~Collects(h)
    /\ Len(h.foreach) = m /\ \A j \in 1..(m - 1) : h.foreach[j] = f.foreach[j]
    /\ h.foreach[m].lines = f.foreach[m].lines /\ h.foreach[m].pos = 0
    /\ ~Reads(h.foreach[m])

Leaves(f, h) ==
    LET m == Len(f.foreach) IN
    /\ h \in FileState(script) /\ h.rest = f.rest /\ h.cs = f.cs /\ h.if_blocks = f.if_blocks
    /\ h.foreach_blocks = f.foreach_blocks /\ ~Collects(h)
    /\ Len(h.foreach) = m - 1 /\ \A j \in 1..(m - 1) : h.foreach[j] = f.foreach[j]

LEMMA RoundTracks ==
    ASSUME NEW f \in FileState(script), Counted(f), ~Collects(f), Source(f) # 0, ~AnyLine(f),
           NEW lines \in Seq(Lines(script)), Matched(lines), Tracks(f, lines),
           NEW h, Repeats(f, h) \/ Leaves(f, h)
    PROVE  Tracks(h, lines)
<1>1. PICK m \in Nat, n \in Nat, q \in Nat :
         m = Len(f.foreach) /\ n = Len(lines) /\ m = Source(f) /\ q = m - 1 /\ m \in 1..m
  <2>1. Len(lines) \in Nat
    OBVIOUS
  <2>2. Source(f) = Len(f.foreach)
    BY DEF Source
  <2> QED
    BY <2>1, <2>2, FileParts
<1>2. PICK b \in [1..m -> 1..n], p \in [0..m -> 0..n] :
         Placed(f, lines, b, p) /\ Agrees(f, lines, b, p)
  BY <1>1 DEF Tracks
<1>3. PICK k \in 1..n, loop \in LoopState(script), x \in Nat :
         /\ k = b[m] /\ loop = f.foreach[m] /\ x = Len(loop.lines)
  <2>1. b[m] \in 1..n /\ f.foreach[m] \in LoopState(script) /\ Len(f.foreach[m].lines) \in Nat
    BY <1>1, FileParts
  <2> QED
    BY <2>1
<1>4. loop.pos = x
  <2>1. loop.pos \in Nat /\ loop.pos <= x
    BY <1>1, <1>3, FileParts DEF Counted
  <2>2. ~(loop.pos < x)
    BY <1>1, <1>3 DEF AnyLine
  <2> QED
    BY <2>1, <2>2
<1>5. PICK e \in 0..n : e = p[m - 1]
  BY <1>1
<1>6. ~Reads(loop) /\ Begun(loop, lines, k, e) /\ p[m] = k + x
  <2>1. Begun(f.foreach[m], lines, b[m], p[m - 1]) /\ p[m] = b[m] + f.foreach[m].pos
    BY <1>1, <1>2 DEF Placed
  <2>2. ~Reads(loop)
    BY <1>1, <1>3 DEF Counted, Collects
  <2> QED
    BY <1>3, <1>4, <1>5, <2>1, <2>2
<1>7. e = k + x + 1 /\ Pair(lines, k, e)
  BY <1>3, <1>6 DEF Begun
<1>8. OpenIfs(lines, e) = OpenIfs(lines, k)
  <2>1. k \in DOMAIN lines /\ e \in DOMAIN lines
    BY <1>1, <1>7
  <2> QED
    BY <1>7, <2>1 DEF Matched
<1>9. OpenIfs(lines, e) = OpenIfs(lines, k + x)
  <2>1. PICK a \in Nat : a = k + x
    OBVIOUS
  <2>2. OpenIfs(lines, a + 1) = OpenIfs(lines, a) + Change(lines[a + 1], "if", "endif")
    BY OpenStep
  <2>3. OpenIfs(lines, a) \in Int
    BY OpenStep
  <2>4. lines[e].op = "endfor" /\ e = a + 1
    BY <1>7, <2>1 DEF Pair
  <2> QED
    BY <2>1, <2>2, <2>3, <2>4 DEF Change
<1>10. Len(f.cs) = OpenIfs(lines, k) /\ f.if_blocks = 0
  BY <1>1, <1>2, <1>6, <1>8, <1>9 DEF Agrees
<1>11. /\ Len(f.rest) = n - p[0]
       /\ \A i \in 1..Len(f.rest) : f.rest[i] = lines[p[0] + i]
       /\ \A j \in 1..m : /\ Begun(f.foreach[j], lines, b[j], p[j - 1])
                          /\ p[j] = b[j] + f.foreach[j].pos
  BY <1>1, <1>2 DEF Placed
<1>12. CASE Repeats(f, h)
  <2>1. /\ Len(h.foreach) = m /\ h.rest = f.rest /\ h.cs = f.cs /\ h.if_blocks = 0 /\ ~Collects(h)
        /\ \A j \in 1..(m - 1) : h.foreach[j] = f.foreach[j]
        /\ h.foreach[m].lines = loop.lines /\ h.foreach[m].pos = 0
        /\ ~Reads(h.foreach[m])
    BY <1>1, <1>3, <1>10, <1>12 DEF Repeats
  <2>2. PICK to \in [0..m -> 0..n] : to[m] = k /\ \A j \in 0..(m - 1) : to[j] = p[j]
    <3>1. [p EXCEPT ![m] = k] \in [0..m -> 0..n]
      OBVIOUS
    <3>2. PICK to \in [0..m -> 0..n] : to = [p EXCEPT ![m] = k]
      BY <3>1
    <3>3. to[m] = k /\ \A j \in 0..(m - 1) : to[j] = p[j]
      BY <3>2
    <3> QED
      BY <3>3
  <2>3. Begun(h.foreach[m], lines, k, e)
    BY <1>6, <2>1, BegunSame
  <2>4. ASSUME NEW j \in 1..m
        PROVE  Begun(h.foreach[j], lines, b[j], to[j - 1]) /\ to[j] = b[j] + h.foreach[j].pos
    <3>1. CASE j = m
      <4>1. to[m] = k /\ k = k + 0 /\ to[m - 1] = e
        BY <1>1, <1>5, <2>2
      <4> QED
        BY <1>3, <2>1, <2>3, <3>1, <4>1
    <3>2. CASE j # m
      <4>1. j \in 1..(m - 1) /\ j \in 0..(m - 1) /\ j - 1 \in 0..(m - 1)
        BY <3>2
      <4> QED
        BY <1>11, <2>1, <2>2, <4>1
    <3> QED
      BY <3>1, <3>2
  <2>5. to[0] = p[0]
    BY <1>1, <2>2
  <2>6. Placed(h, lines, b, to)
    BY <1>1, <1>11, <2>1, <2>4, <2>5 DEF Placed
  <2>7. Agrees(h, lines, b, to)
    BY <1>10, <2>1, <2>2 DEF Agrees
  <2> QED
    BY <1>1, <2>1, <2>6, <2>7 DEF Tracks
<1>13. CASE Leaves(f, h)
  <2>1. /\ Len(h.foreach) = q /\ h.rest = f.rest /\ h.cs = f.cs /\ h.if_blocks = 0 /\ ~Collects(h)
        /\ \A j \in 1..q : h.foreach[j] = f.foreach[j]
    BY <1>1, <1>10, <1>13 DEF Leaves
  <2>2. PICK c \in [1..q -> 1..n], t \in [0..q -> 0..n] :
           (\A j \in 1..q : c[j] = b[j]) /\ (\A j \in 0..q : t[j] = p[j])
    <3>1. q <= m
      BY <1>1
    <3>2. Outer(b, p, q, n)
      BY <3>1, Restricted
    <3> QED
      BY <3>2 DEF Outer
  <2>3. /\ Len(h.rest) = n - t[0]
        /\ \A i \in 1..Len(h.rest) : h.rest[i] = lines[t[0] + i]
    BY <1>11, <2>1, <2>2
  <2>4. ASSUME NEW j \in 1..q
        PROVE  Begun(h.foreach[j], lines, c[j], t[j - 1]) /\ t[j] = c[j] + h.foreach[j].pos
    <3>1. j \in 1..m /\ j \in 0..q /\ j - 1 \in 0..q
      BY <1>1
    <3>2. c[j] = b[j] /\ t[j] = p[j] /\ t[j - 1] = p[j - 1] /\ h.foreach[j] = f.foreach[j]
      BY <2>1, <2>2, <3>1
    <3> QED
      BY <1>11, <3>1, <3>2
  <2>5. Placed(h, lines, c, t)
    BY <1>1, <2>1, <2>3, <2>4 DEF Placed
  <2>6. Agrees(h, lines, c, t)
    <3>1. t[q] = e
      BY <1>1, <1>5, <2>2
    <3> QED
      BY <1>8, <1>10, <2>1, <3>1 DEF Agrees
  <2> QED
    BY <1>1, <2>1, <2>5, <2>6 DEF Tracks
<1> QED
  BY <1>12, <1>13

-----------------------------------------------------------------------------
(* What a step makes of the current file *)

\* The next line has been taken, and what is kept is as it should be.
LEMMA TakenFile ==
    ASSUME IInv, Running, HasLine
    PROVE  /\ TakesLine(fs, Taken, line) /\ Taken \in FileState(script)
           /\ line \in Lines(script) /\ IsALine(line)
           /\ line.op = "parse" => line.arg \in DOMAIN script
           /\ Len(Taken.foreach) = Len(fs.foreach)
           /\ \A j \in 1..Len(fs.foreach) :
                 /\ Taken.foreach[j].pos <= Len(Taken.foreach[j].lines)
                 /\ Taken.foreach[j].mode = fs.foreach[j].mode
                 /\ Taken.foreach[j].lines = fs.foreach[j].lines
<1>1. fs \in FileState(script) /\ Counted(fs) /\ AnyLine(fs) /\ line = NextLine(fs)
                               /\ Taken = Take(fs)
  BY Current
<1>2. PICK f, g, l : f = fs /\ g = Taken /\ l = line
  OBVIOUS
<1>3. f \in FileState(script) /\ Counted(f) /\ TakesLine(f, g, l)
  BY <1>1, <1>2, TakeIs
<1>4. g \in FileState(script) /\ l \in Lines(script) /\ Len(g.foreach) = Len(f.foreach)
  BY <1>3 DEF TakesLine
<1>5. ASSUME NEW j \in 1..Len(f.foreach)
      PROVE  /\ g.foreach[j].pos <= Len(g.foreach[j].lines)
             /\ g.foreach[j].mode = f.foreach[j].mode
             /\ g.foreach[j].lines = f.foreach[j].lines
  <2>1. PICK loop \in LoopState(script), x \in Nat, pos \in Nat :
           loop = f.foreach[j] /\ x = Len(loop.lines) /\ pos = loop.pos /\ pos <= x
    <3>1. /\ f.foreach[j] \in LoopState(script) /\ Len(f.foreach[j].lines) \in Nat
          /\ f.foreach[j].pos \in Nat /\ f.foreach[j].pos <= Len(f.foreach[j].lines)
      BY <1>3, FileParts DEF Counted
    <3> QED
      BY <3>1
  <2>2. CASE j = Source(f)
    <3>1. Source(f) # 0
      BY <2>2
    <3>2. g.foreach[j] = [loop EXCEPT !.pos = loop.pos + 1] /\ pos < x
      BY <1>3, <2>1, <2>2, <3>1 DEF TakesLine
    <3>3. /\ g.foreach[j].pos = pos + 1 /\ g.foreach[j].lines = loop.lines
          /\ g.foreach[j].mode = loop.mode
      BY <2>1, <3>2 DEF LoopState
    <3> QED
      BY <2>1, <3>2, <3>3
  <2>3. CASE j # Source(f)
    <3>1. g.foreach[j] = f.foreach[j]
      BY <1>3, <2>3 DEF TakesLine
    <3> QED
      BY <2>1, <3>1
  <2> QED
    BY <2>2, <2>3
<1>6. IsALine(l) /\ (l.op = "parse" => l.arg \in DOMAIN script)
  BY <1>4, ScriptFacts DEF IInv
<1> QED
  BY <1>2, <1>3, <1>4, <1>5, <1>6

\* A line that is not collected is taken.
LEMMA StepGood ==
    ASSUME IInv, Active, NEW h, Steps(Taken, h, line)
    PROVE  /\ Good(script, h) /\ ~Collects(h)
           /\ AllMatched(script) => \E n \in DOMAIN script : Behind(h, script[n], line)
<1>1. Running /\ ~Collecting /\ HasLine
  BY DEF Active
<1>2. PICK f, g, l : f = fs /\ g = Taken /\ l = line
  OBVIOUS
<1>3. Good(script, f) /\ f \in FileState(script) /\ Counted(f) /\ ~Collects(f)
  BY <1>1, <1>2, Current
<1>4. /\ TakesLine(f, g, l) /\ Steps(g, h, l) /\ Len(g.foreach) = Len(f.foreach)
      /\ \A j \in 1..Len(f.foreach) : g.foreach[j].pos <= Len(g.foreach[j].lines)
  BY <1>1, <1>2, TakenFile
<1>5. PICK m \in Nat : m = Len(f.foreach) /\ m = Len(h.foreach)
  BY <1>3, <1>4, FileParts DEF Steps
<1>6. h \in FileState(script) /\ \A j \in 1..m : ~Reads(h.foreach[j])
  BY <1>4, <1>5 DEF Steps
<1>7. ~Collects(h)
  <2>1. h.foreach # <<>> <=> m # 0
    BY <1>5, <1>6, FileParts, NoElement
  <2> QED
    BY <1>5, <1>6, <2>1 DEF Collects
<1>8. Counted(h)
  <2>1. \A j \in 1..m : h.foreach[j].pos <= Len(h.foreach[j].lines)
    BY <1>4, <1>5 DEF Steps
  <2>2. h.foreach_blocks = 0
    BY <1>3, <1>4 DEF Counted, Steps, TakesLine
  <2> QED
    BY <1>5, <1>6, <1>7, <2>1, <2>2 DEF Counted
<1>9. ASSUME AllMatched(script) PROVE \E n \in DOMAIN script : Behind(h, script[n], l)
  <2>1. PICK n \in DOMAIN script : Tracks(f, script[n])
    BY <1>3, <1>9 DEF Good
  <2>2. PICK lines \in Seq(Lines(script)) : lines = script[n]
    BY ScriptFacts DEF IInv
  <2>3. Behind(h, lines, l)
    BY <1>3, <1>4, <2>1, <2>2, StepTracks
  <2> QED
    BY <2>2, <2>3
<1>10. ASSUME NEW lines, Behind(h, lines, l) PROVE Tracks(h, lines)
  BY <1>10 DEF Behind, Tracks
<1> QED
  BY <1>2, <1>6, <1>7, <1>8, <1>9, <1>10 DEF Good

\* The conditionals change as the line says.
LEMMA CondSteps ==
    ASSUME IInv, Active, NEW c \in Seq(States),
           Len(c) = Len(fs.cs) + Change(line, "if", "endif")
    PROVE  Steps(Taken, [Taken EXCEPT !.cs = c], line)
<1>1. Running /\ ~Collecting /\ HasLine
  BY DEF Active
<1>2. PICK f, l : f = fs /\ l = line
  OBVIOUS
<1>3. PICK g \in FileState(script) : g = Taken
  BY <1>1, TakenFile
<1>4. f \in FileState(script) /\ Counted(f) /\ ~Collects(f)
  BY <1>1, <1>2, Current
<1>5. /\ g.cs = f.cs /\ Len(g.foreach) = Len(f.foreach)
      /\ \A j \in 1..Len(f.foreach) : g.foreach[j].mode = f.foreach[j].mode
  BY <1>1, <1>2, <1>3, TakenFile DEF TakesLine
<1>6. PICK m \in Nat : m = Len(g.foreach) /\ m = Len(f.foreach)
  BY <1>4, <1>5, FileParts
<1>7. ASSUME NEW j \in 1..m PROVE ~Reads(g.foreach[j])
  <2>1. m # 0
    OBVIOUS
  <2>2. f.foreach # <<>>
    BY <1>4, <1>6, <2>1, FileParts, NoElement
  <2>3. ~Reads(f.foreach[j])
    BY <1>4, <1>6, <2>2 DEF Counted, Collects
  <2> QED
    BY <1>5, <1>6, <2>3 DEF Reads
<1>8. PICK h : h = [g EXCEPT !.cs = c]
  OBVIOUS
<1>9. /\ h \in FileState(script) /\ h.cs = c /\ h.rest = g.rest /\ h.foreach = g.foreach
      /\ h.foreach_blocks = g.foreach_blocks /\ h.if_blocks = g.if_blocks
  BY <1>8 DEF FileState
<1> QED
  BY <1>2, <1>3, <1>5, <1>6, <1>7, <1>8, <1>9 DEF Steps

\* A line that is no conditional leaves them alone.
LEMMA SameSteps ==
    ASSUME IInv, Active, line.op \notin {"if", "endif"}
    PROVE  Steps(Taken, Taken, line)
<1>1. Running /\ HasLine
  BY DEF Active
<1>2. PICK g \in FileState(script), l \in Lines(script) : g = Taken /\ l = line
  BY <1>1, TakenFile
<1>3. g.cs \in Seq(States) /\ Len(g.cs) \in Nat
  BY FileParts
<1>4. Change(l, "if", "endif") = 0 /\ g.cs = fs.cs
  BY <1>1, <1>2, TakenFile DEF Change, TakesLine
<1>5. Steps(g, [g EXCEPT !.cs = g.cs], l)
  <2>1. Len(g.cs) = Len(fs.cs) + Change(l, "if", "endif")
    BY <1>3, <1>4
  <2> QED
    BY <1>2, <1>3, <2>1, CondSteps
<1>6. [g EXCEPT !.cs = g.cs] = g
  BY DEF FileState
<1> QED
  BY <1>2, <1>5, <1>6

-----------------------------------------------------------------------------
(* What a step makes of the files *)

LEMMA Waiting ==
    ASSUME IInv, Running
    PROVE  \E less \in Seq(FileState(script)) :
              /\ less = Front(files) /\ Len(less) \in Nat
              /\ \A k \in 1..Len(less) : Good(script, less[k]) /\ ~Collects(less[k])
<1>1. PICK old \in Seq(FileState(script)), m \in Nat : old = files /\ m = Len(old) - 1
  <2>1. files \in Seq(FileState(script)) /\ files # <<>>
    BY DEF IInv, Running
  <2>2. Len(files) - 1 \in Nat
    BY <2>1
  <2> QED
    BY <2>1, <2>2
<1>2. PICK less \in Seq(FileState(script)) :
         /\ less = Front(files) /\ Len(less) = m /\ \A k \in 1..m : less[k] = old[k]
  <2>1. /\ SubSeq(old, 1, m) \in Seq(FileState(script)) /\ Len(SubSeq(old, 1, m)) = m
        /\ \A k \in 1..m : SubSeq(old, 1, m)[k] = old[k]
    BY <1>1
  <2>2. Front(files) = SubSeq(old, 1, m)
    BY <1>1 DEF Front
  <2> QED
    BY <2>1, <2>2
<1>3. ASSUME NEW k \in 1..m PROVE Good(script, less[k]) /\ ~Collects(less[k])
  <2>1. k \in 1..Len(old) /\ k # Len(old)
    BY <1>1
  <2> QED
    BY <1>1, <1>2, <2>1 DEF IInv
<1> QED
  BY <1>2, <1>3

LEMMA Ending ==
    ASSUME IInv, Running, Ends, script' = script, undefined' \in BOOLEAN
    PROVE  IInv'
<1>1. PICK less \in Seq(FileState(script)) :
         /\ less = files'
         /\ \A k \in 1..Len(less) : Good(script, less[k]) /\ ~Collects(less[k])
  BY Waiting DEF Ends
<1>2. files' \in Seq(FileState(script))
  BY <1>1
<1>3. \A k \in 1..Len(files') : Good(script, files'[k]) /\ (Collects(files'[k]) => k = Len(files'))
  BY <1>1
<1> QED
  BY <1>2, <1>3 DEF IInv

LEMMA Becoming ==
    ASSUME IInv, Running, NEW h, Good(script, h), Becomes(h), UNCHANGED <<script, undefined>>
    PROVE  IInv'
<1>1. PICK less \in Seq(FileState(script)), m \in Nat :
         /\ less = Front(files) /\ m = Len(less)
         /\ \A k \in 1..m : Good(script, less[k]) /\ ~Collects(less[k])
  BY Waiting
<1>2. PICK new \in Seq(FileState(script)) :
         new = files' /\ Len(new) = m + 1 /\ new[m + 1] = h /\ \A k \in 1..m : new[k] = less[k]
  <2>1. h \in FileState(script)
    BY DEF Good
  <2>2. /\ less \o <<h>> \in Seq(FileState(script)) /\ Len(less \o <<h>>) = m + 1
        /\ (less \o <<h>>)[m + 1] = h
    BY <1>1, <2>1
  <2>3. \A k \in 1..m : (less \o <<h>>)[k] = less[k]
    BY <1>1, <2>1
  <2>4. files' = less \o <<h>>
    BY <1>1 DEF Becomes
  <2> QED
    BY <2>2, <2>3, <2>4
<1>3. ASSUME NEW k \in 1..(m + 1) PROVE Good(script, new[k]) /\ (Collects(new[k]) => k = m + 1)
  <2>1. CASE k = m + 1
    BY <1>2, <2>1
  <2>2. CASE k # m + 1
    <3>1. k \in 1..m
      BY <2>2
    <3> QED
      BY <1>1, <1>2, <3>1
  <2> QED
    BY <2>1, <2>2
<1>4. files' \in Seq(FileState(script))
  BY <1>2
<1>5. \A k \in 1..Len(files') : Good(script, files'[k]) /\ (Collects(files'[k]) => k = Len(files'))
  BY <1>2, <1>3
<1> QED
  BY <1>4, <1>5 DEF IInv

\* The current file waits for another one.
LEMMA Parsing ==
    ASSUME IInv, Running, NEW h, Good(script, h), ~Collects(h),
           NEW f, Good(script, f), files' = Front(files) \o <<h, f>>,
           UNCHANGED <<script, undefined>>
    PROVE  IInv'
<1>1. PICK less \in Seq(FileState(script)), m \in Nat :
         /\ less = Front(files) /\ m = Len(less)
         /\ \A k \in 1..m : Good(script, less[k]) /\ ~Collects(less[k])
  BY Waiting
<1>2. PICK new \in Seq(FileState(script)) :
         /\ new = files' /\ Len(new) = m + 2 /\ new[m + 1] = h /\ new[m + 2] = f
         /\ \A k \in 1..m : new[k] = less[k]
  <2>1. h \in FileState(script) /\ f \in FileState(script)
    BY DEF Good
  <2>2. /\ less \o <<h, f>> \in Seq(FileState(script)) /\ Len(less \o <<h, f>>) = m + 2
        /\ (less \o <<h, f>>)[m + 1] = h /\ (less \o <<h, f>>)[m + 2] = f
    BY <1>1, <2>1
  <2>3. \A k \in 1..m : (less \o <<h, f>>)[k] = less[k]
    BY <1>1, <2>1
  <2>4. files' = less \o <<h, f>>
    BY <1>1
  <2> QED
    BY <2>2, <2>3, <2>4
<1>3. ASSUME NEW k \in 1..(m + 2) PROVE Good(script, new[k]) /\ (Collects(new[k]) => k = m + 2)
  <2>1. CASE k = m + 2
    BY <1>2, <2>1
  <2>2. CASE k = m + 1
    BY <1>2, <2>2
  <2>3. CASE k # m + 1 /\ k # m + 2
    <3>1. k \in 1..m
      BY <2>3
    <3> QED
      BY <1>1, <1>2, <3>1
  <2> QED
    BY <2>1, <2>2, <2>3
<1>4. files' \in Seq(FileState(script))
  BY <1>2
<1>5. \A k \in 1..Len(files') : Good(script, files'[k]) /\ (Collects(files'[k]) => k = Len(files'))
  BY <1>2, <1>3
<1> QED
  BY <1>4, <1>5 DEF IInv

-----------------------------------------------------------------------------
(* One lemma for each kind of action *)

LEMMA CondKeeps ==
    ASSUME IInv, If \/ Elseif \/ Else \/ Endif
    PROVE  IInv'
<1>1. Active /\ Running /\ UNCHANGED <<script, undefined>> /\ undefined' \in BOOLEAN
  BY DEF If, Elseif, Else, Endif, Active, IInv
<1>2. PICK c \in Seq(States), x \in Nat, l \in Lines(script) :
         c = fs.cs /\ x = Len(c) /\ l = line /\ (c # <<>> <=> x # 0)
  <2>1. fs \in FileState(script) /\ line \in Lines(script)
    BY <1>1, Current, TakenFile DEF Active
  <2>2. PICK c \in Seq(States) : c = fs.cs
    BY <2>1, FileParts
  <2>3. Len(c) \in Nat /\ (c # <<>> <=> Len(c) # 0)
    BY NoElement
  <2> QED
    BY <2>1, <2>2, <2>3
<1>3. cs # "NONE" => c # <<>>
  BY <1>2 DEF cs
<1>4. Taken.cs = c
  BY <1>1, <1>2, TakenFile DEF Active, TakesLine
<1>5. ASSUME Ends PROVE IInv'
  BY <1>1, <1>5, Ending
<1>6. ASSUME NEW s \in Seq(States), Len(s) = x + Change(l, "if", "endif"),
             Becomes([Taken EXCEPT !.cs = s])
      PROVE  IInv'
  <2>1. PICK h : h = [Taken EXCEPT !.cs = s]
    OBVIOUS
  <2>2. Steps(Taken, h, line)
    BY <1>1, <1>2, <1>6, <2>1, CondSteps
  <2>3. Good(script, h)
    BY <1>1, <2>2, StepGood
  <2> QED
    BY <1>1, <1>6, <2>1, <2>3, Becoming
<1>7. ASSUME Becomes(Taken), l.op \notin {"if", "endif"} PROVE IInv'
  <2>1. Steps(Taken, Taken, line)
    BY <1>1, <1>2, <1>7, SameSteps
  <2>2. Good(script, Taken)
    BY <1>1, <2>1, StepGood
  <2> QED
    BY <1>1, <1>7, <2>2, Becoming
<1>8. ASSUME NEW s \in States, Becomes(Pushed(Taken, s)), l.op = "if" PROVE IInv'
  <2>1. Append(c, s) \in Seq(States) /\ Len(Append(c, s)) = x + Change(l, "if", "endif")
    BY <1>2, <1>8 DEF Change
  <2> QED
    BY <1>4, <1>6, <1>8, <2>1 DEF Pushed
<1>9. ASSUME NEW s \in States, Becomes(Replaced(Taken, s)), c # <<>>, l.op \notin {"if", "endif"}
      PROVE  IInv'
  <2>1. Front(c) \o <<s>> \in Seq(States) /\ Len(Front(c) \o <<s>>) = x
    <3>1. SubSeq(c, 1, x - 1) \in Seq(States) /\ Len(SubSeq(c, 1, x - 1)) = x - 1
      BY <1>2, <1>9
    <3>2. PICK t \in Seq(States) : t = Front(c) /\ Len(t) = x - 1
      BY <1>2, <3>1 DEF Front
    <3>3. t \o <<s>> \in Seq(States) /\ Len(t \o <<s>>) = x
      BY <3>2
    <3> QED
      BY <3>2, <3>3
  <2>2. Change(l, "if", "endif") = 0 /\ x = x + 0
    BY <1>9 DEF Change
  <2> QED
    BY <1>4, <1>6, <1>9, <2>1, <2>2 DEF Replaced
<1>10. ASSUME Becomes([Taken EXCEPT !.cs = Front(@)]), c # <<>>, l.op = "endif" PROVE IInv'
  <2>1. SubSeq(c, 1, x - 1) \in Seq(States) /\ Len(SubSeq(c, 1, x - 1)) = x - 1
    BY <1>2, <1>10
  <2>2. PICK t \in Seq(States) : t = Front(c) /\ Len(t) = x - 1
    BY <1>2, <2>1 DEF Front
  <2>3. Change(l, "if", "endif") = -1
    BY <1>10 DEF Change
  <2>4. [Taken EXCEPT !.cs = Front(@)] = [Taken EXCEPT !.cs = t]
    BY <1>4, <2>2
  <2> QED
    BY <1>6, <1>10, <2>2, <2>3, <2>4
<1>11. /\ "SKIP" \in States /\ "IF_TRUE" \in States /\ "IF_FALSE" \in States
       /\ "ELSEIF_TRUE" \in States /\ "ELSEIF_FALSE" \in States /\ "ELSE_TRUE" \in States
  BY DEF States
<1>12. CASE If
  BY <1>2, <1>5, <1>8, <1>11, <1>12 DEF If
<1>13. CASE Elseif
  <2>1. cs \in True \/ cs \in False => c # <<>>
    BY <1>3 DEF True, False
  <2>2. l.op \notin {"if", "endif"}
    BY <1>2, <1>13 DEF Elseif
  <2> QED
    BY <1>5, <1>7, <1>9, <1>11, <1>13, <2>1, <2>2 DEF Elseif
<1>14. CASE Else
  <2>1. cs \in True \/ cs \in False => c # <<>>
    BY <1>3 DEF True, False
  <2>2. l.op \notin {"if", "endif"}
    BY <1>2, <1>14 DEF Else
  <2> QED
    BY <1>5, <1>7, <1>9, <1>11, <1>14, <2>1, <2>2 DEF Else
<1>15. CASE Endif
  BY <1>2, <1>3, <1>5, <1>10, <1>15 DEF Endif
<1> QED
  BY <1>12, <1>13, <1>14, <1>15

\* Lines that leave the loops and the conditionals alone.
LEMMA LineKeeps ==
    ASSUME IInv, Skip \/ Do \/ Parse
    PROVE  IInv'
<1>1. Active /\ Running /\ HasLine /\ UNCHANGED <<script, undefined>>
  BY DEF Skip, Do, Parse, Runs, Active
<1>2. line.op \notin {"if", "endif"}
  BY DEF Skip, Do, Parse, Runs, Conditionals
<1>3. Good(script, Taken) /\ ~Collects(Taken)
  <2>1. Steps(Taken, Taken, line)
    BY <1>1, <1>2, SameSteps
  <2> QED
    BY <1>1, <2>1, StepGood
<1>4. CASE Skip \/ Do
  <2>1. Becomes(Taken)
    BY <1>4 DEF Skip, Do
  <2> QED
    BY <1>1, <1>3, <2>1, Becoming
<1>5. CASE Parse
  <2>1. line.arg \in DOMAIN script
    BY <1>1, <1>5, TakenFile DEF Parse, Runs
  <2>2. Good(script, Opened(script[line.arg]))
    BY <2>1, NewFile DEF IInv
  <2>3. files' = Front(files) \o <<Taken, Opened(script[line.arg])>>
    BY <1>5 DEF Parse
  <2> QED
    BY <1>1, <1>3, <2>2, <2>3, Parsing
<1> QED
  BY <1>4, <1>5

\* The file ends, or fails.
LEMMA EndKeeps ==
    ASSUME IInv, Fail \/ Return \/ EndOfFile
    PROVE  IInv'
<1>1. Running /\ Ends /\ script' = script
  BY DEF Fail, Return, EndOfFile, Runs, Active
<1>2. undefined' \in BOOLEAN
  BY DEF IInv, Fail, Return, EndOfFile, InForeach
<1> QED
  BY <1>1, <1>2, Ending

\* A break leaves the loop as it is, but for its mode.
LEMMA BreakKeeps ==
    ASSUME IInv, Break
    PROVE  IInv'
<1>1. Active /\ Running /\ HasLine /\ ~Collecting /\ UNCHANGED <<script, undefined>>
  BY DEF Break, Runs, Active
<1>2. CASE Ends
  <2>1. undefined' \in BOOLEAN
    BY <1>1 DEF IInv
  <2> QED
    BY <1>1, <1>2, <2>1, Ending
<1>3. CASE InForeach /\ Becomes([Taken EXCEPT !.foreach[Len(fs.foreach)].mode = "BREAK"])
  <2>1. PICK g \in FileState(script), l \in Lines(script), m \in Nat :
           g = Taken /\ l = line /\ m = Len(fs.foreach) /\ m = Len(g.foreach) /\ m # 0
    BY <1>1, <1>3, Current, TakenFile, FileParts
  <2>2. Steps(g, g, l)
    <3>1. line.op \notin {"if", "endif"}
      BY DEF Break, Runs
    <3> QED
      BY <1>1, <2>1, <3>1, SameSteps
  <2>3. PICK loop \in LoopState(script) : loop = [g.foreach[m] EXCEPT !.mode = "BREAK"]
    <3>1. PICK x \in LoopState(script) : x = g.foreach[m]
      BY <2>1, FileParts
    <3>2. [x EXCEPT !.mode = "BREAK"] \in LoopState(script)
      BY DEF LoopState, Modes
    <3> QED
      BY <3>1, <3>2
  <2>4. /\ loop.lines = g.foreach[m].lines /\ loop.pos = g.foreach[m].pos /\ ~Reads(loop)
    <3>1. g.foreach[m] \in LoopState(script)
      BY <2>1, FileParts
    <3> QED
      BY <2>3, <3>1 DEF LoopState, Reads
  <2>5. PICK loops \in Seq(LoopState(script)) :
           /\ loops = [g.foreach EXCEPT ![m] = loop] /\ Len(loops) = m
           /\ loops[m] = loop /\ \A j \in 1..m : j # m => loops[j] = g.foreach[j]
    <3>1. g.foreach \in Seq(LoopState(script)) /\ m \in 1..Len(g.foreach)
      BY <2>1, FileParts
    <3>2. PICK new \in Seq(LoopState(script)) : Exchanged(g.foreach, m, loop, new)
      BY <3>1, LoopReplaced
    <3> QED
      BY <2>1, <3>2 DEF Exchanged
  <2>6. PICK h \in FileState(script) :
           /\ h = [g EXCEPT !.foreach = loops] /\ h.foreach = loops /\ h.rest = g.rest
           /\ h.cs = g.cs /\ h.foreach_blocks = g.foreach_blocks /\ h.if_blocks = g.if_blocks
    BY WithLoops
  <2>7. Steps(g, h, l)
    BY <2>1, <2>2, <2>4, <2>5, <2>6 DEF Steps
  <2>8. Good(script, h)
    BY <1>1, <2>1, <2>7, StepGood
  <2>9. Becomes(h)
    BY <1>3, <2>1, <2>3, <2>5, <2>6
  <2> QED
    BY <1>1, <2>8, <2>9, Becoming
<1> QED
  BY <1>2, <1>3 DEF Break

\* The loop is there, and collects.
LEMMA ForeachKeeps ==
    ASSUME IInv, Foreach
    PROVE  IInv'
<1>1. Active /\ Running /\ HasLine /\ ~Collecting /\ UNCHANGED <<script, undefined>>
  BY DEF Foreach, Runs, Active
<1>2. PICK g \in FileState(script), l \in Lines(script), n \in Nat :
         g = Taken /\ l = line /\ l.op = "foreach" /\ n = Times[l.arg]
  <2>1. line.op = "foreach" /\ line \in Lines(script) /\ IsALine(line)
                            /\ Taken \in FileState(script)
    BY <1>1, TakenFile DEF Foreach, Runs
  <2>2. Times[line.arg] \in Nat
    BY <2>1 DEF IsALine
  <2> QED
    BY <2>1, <2>2
<1>3. Steps(g, g, l)
  BY <1>1, <1>2, SameSteps
<1>4. /\ Good(script, g) /\ ~Collects(g)
      /\ AllMatched(script) => \E f \in DOMAIN script : Behind(g, script[f], l)
  BY <1>1, <1>2, <1>3, StepGood
<1>5. PICK m \in Nat : m = Len(g.foreach)
  BY FileParts
<1>6. PICK loop \in LoopState(script) :
         /\ loop = Loop(n) /\ loop.lines = <<>> /\ loop.pos = 0 /\ Reads(loop)
  <2>1. <<>> \in Seq(Lines(script))
    OBVIOUS
  <2>2. Loop(n) \in LoopState(script)
    BY <2>1 DEF Loop, LoopState, Modes
  <2>3. Loop(n).lines = <<>> /\ Loop(n).pos = 0 /\ Reads(Loop(n))
    BY DEF Loop, Reads
  <2> QED
    BY <2>2, <2>3
<1>7. PICK loops \in Seq(LoopState(script)) :
         /\ loops = Append(g.foreach, loop) /\ Len(loops) = m + 1
         /\ loops[m + 1] = loop /\ \A j \in 1..m : loops[j] = g.foreach[j]
  <2>1. PICK old \in Seq(LoopState(script)) : old = g.foreach /\ Len(old) = m
    BY <1>5, FileParts
  <2>2. /\ Append(old, loop) \in Seq(LoopState(script)) /\ Len(Append(old, loop)) = m + 1
        /\ Append(old, loop)[m + 1] = loop /\ \A j \in 1..m : Append(old, loop)[j] = old[j]
    BY <2>1
  <2> QED
    BY <2>1, <2>2
<1>8. PICK h \in FileState(script) :
         /\ h = [g EXCEPT !.foreach_blocks = 1, !.foreach = loops]
         /\ h.foreach = loops /\ h.rest = g.rest /\ h.cs = g.cs
         /\ h.foreach_blocks = 1 /\ h.if_blocks = g.if_blocks
  <2>1. PICK one \in Int : one = 1
    OBVIOUS
  <2>2. [g EXCEPT !.foreach_blocks = one, !.foreach = loops] \in FileState(script)
    BY DEF FileState
  <2> QED
    BY <2>1, <2>2 DEF FileState
<1>9. Becomes(h)
  BY <1>2, <1>6, <1>7, <1>8 DEF Foreach
<1>10. Collects(h)
  <2>1. h.foreach # <<>>
    BY <1>7, <1>8, NoElement
  <2> QED
    BY <1>6, <1>7, <1>8, <2>1 DEF Collects
<1>11. Counted(h)
  <2>1. ASSUME NEW j \in 1..(m + 1)
        PROVE  /\ loops[j].pos <= Len(loops[j].lines)
               /\ Reads(loops[j]) => j = m + 1 /\ loops[j].pos = 0
    <3>1. CASE j = m + 1
      BY <1>6, <1>7, <3>1
    <3>2. CASE j # m + 1
      <4>1. j \in 1..m /\ loops[j] = g.foreach[j]
        BY <1>7, <3>2
      <4>2. Counted(g) /\ ~Reads(g.foreach[j])
        BY <1>3, <1>4, <1>5, <4>1 DEF Steps, Good
      <4> QED
        BY <1>5, <4>1, <4>2 DEF Counted
    <3> QED
      BY <3>1, <3>2
  <2>2. OpenLoops(<<>>, Len(<<>>)) = 0 /\ loops[m + 1].lines = <<>>
    BY <1>6, <1>7, OpenStep
  <2> QED
    BY <1>7, <1>8, <1>10, <2>1, <2>2 DEF Counted
<1>12. Begins(g, h)
  BY <1>4, <1>5, <1>6, <1>7, <1>8, <1>10 DEF Begins
<1>13. ASSUME AllMatched(script) PROVE \E f \in DOMAIN script : Tracks(h, script[f])
  <2>1. PICK f \in DOMAIN script : Behind(g, script[f], l)
    BY <1>4, <1>13
  <2>2. PICK lines \in Seq(Lines(script)) : lines = script[f]
    BY ScriptFacts DEF IInv
  <2>3. Tracks(h, lines)
    BY <1>2, <1>12, <2>1, <2>2, BeginTracks
  <2> QED
    BY <2>2, <2>3
<1>14. Good(script, h)
  BY <1>11, <1>13 DEF Good
<1> QED
  BY <1>1, <1>9, <1>14, Becoming

\* A loop that collects has counted its loops, and takes the line.
LEMMA CollectKeeps ==
    ASSUME IInv, Collect
    PROVE  IInv'
<1>1. Running /\ HasLine /\ Collecting /\ ~ClosesLoop /\ UNCHANGED <<script, undefined>>
  BY DEF Collect, Collecting
<1>2. PICK f \in FileState(script), g \in FileState(script), l \in Lines(script) :
         f = fs /\ g = Taken /\ l = line
  BY <1>1, Current, TakenFile
<1>3. TakesLine(f, g, l) /\ Good(script, f) /\ Counted(f) /\ Collects(f)
  BY <1>1, <1>2, Current, TakenFile
<1>4. PICK m \in Nat : m = Len(f.foreach) /\ m = Len(g.foreach) /\ m # 0
  <2>1. Len(f.foreach) # 0
    BY <1>3, FileParts, NoElement DEF Collects
  <2> QED
    BY <1>3, <2>1, FileParts DEF TakesLine
<1>5. PICK old \in LoopState(script) : old = f.foreach[m] /\ old = g.foreach[m]
  <2>1. m \in 1..m /\ m # Source(f)
    BY <1>3, <1>4 DEF Source
  <2>2. g.foreach[m] = f.foreach[m]
    BY <1>3, <1>4, <2>1 DEF TakesLine
  <2> QED
    BY <1>4, <2>1, <2>2, FileParts
<1>6. Reads(old) /\ old.pos = 0 /\ old.lines \in Seq(Lines(script))
  <2>1. Reads(old)
    BY <1>3, <1>4, <1>5 DEF Collects
  <2>2. m \in 1..m
    BY <1>4
  <2>3. old.pos = 0
    BY <1>3, <1>4, <1>5, <2>1, <2>2 DEF Counted
  <2>4. old.lines \in Seq(Lines(script))
    BY DEF LoopState
  <2> QED
    BY <2>1, <2>3, <2>4
<1>7. PICK lines \in Seq(Lines(script)), x \in Nat : lines = old.lines /\ x = Len(lines)
  <2>1. Len(old.lines) \in Nat
    BY <1>6
  <2> QED
    BY <1>6, <2>1
<1>8. PICK more \in Seq(Lines(script)) : more = Append(lines, l) /\ Len(more) = x + 1
  <2>1. Append(lines, l) \in Seq(Lines(script)) /\ Len(Append(lines, l)) = x + 1
    BY <1>7
  <2> QED
    BY <2>1
<1>9. PICK loop \in LoopState(script) :
         loop = [old EXCEPT !.lines = more] /\ loop.lines = more /\ loop.pos = 0 /\ Reads(loop)
  <2>1. [old EXCEPT !.lines = more] \in LoopState(script)
    BY DEF LoopState
  <2>2. PICK loop \in LoopState(script) : loop = [old EXCEPT !.lines = more]
    BY <2>1
  <2>3. loop.lines = more /\ loop.pos = old.pos /\ loop.mode = old.mode
    BY <2>2 DEF LoopState
  <2> QED
    BY <1>6, <2>2, <2>3 DEF Reads
<1>10. PICK loops \in Seq(LoopState(script)) :
          /\ loops = [g.foreach EXCEPT ![m] = loop] /\ Len(loops) = m
          /\ loops[m] = loop /\ \A j \in 1..m : j # m => loops[j] = g.foreach[j]
  <2>1. g.foreach \in Seq(LoopState(script)) /\ m \in 1..Len(g.foreach)
    BY <1>4, FileParts
  <2>2. PICK new \in Seq(LoopState(script)) : Exchanged(g.foreach, m, loop, new)
    BY <2>1, LoopReplaced
  <2> QED
    BY <1>4, <2>2 DEF Exchanged
<1>11. PICK n1 \in Int, n2 \in Int :
          /\ n1 = g.foreach_blocks + Change(l, "foreach", "endfor")
          /\ n2 = g.if_blocks + Change(l, "if", "endif")
  <2>1. g.foreach_blocks \in Int /\ g.if_blocks \in Int
    BY FileParts
  <2> QED
    BY <2>1 DEF Change
<1>12. PICK h \in FileState(script) :
          /\ h = [g EXCEPT !.foreach_blocks = n1, !.if_blocks = n2, !.foreach = loops]
          /\ h.foreach = loops /\ h.rest = g.rest /\ h.cs = g.cs
          /\ h.foreach_blocks = n1 /\ h.if_blocks = n2
  <2>1. [g EXCEPT !.foreach_blocks = n1, !.if_blocks = n2, !.foreach = loops] \in FileState(script)
    BY DEF FileState
  <2> QED
    BY <2>1 DEF FileState
<1>13. Becomes(h)
  <2>1. h = Nested(g, l)
    <3>1. [g.foreach EXCEPT ![Len(g.foreach)].lines = Append(@, l)] = loops
      <4>1. Append(g.foreach[m].lines, l) = more
        BY <1>5, <1>7, <1>8
      <4>2. loop = [g.foreach[m] EXCEPT !.lines = more]
        BY <1>5, <1>9
      <4>3. loops = [g.foreach EXCEPT ![m].lines = more]
        BY <1>10, <4>2
      <4>4. [g.foreach EXCEPT ![m].lines = Append(@, l)] = [g.foreach EXCEPT ![m].lines = more]
        BY <4>1
      <4> QED
        BY <1>4, <4>3, <4>4
    <3>2. g.foreach_blocks + (IF l.op = "foreach" THEN 1 ELSE IF l.op = "endfor" THEN -1 ELSE 0)
              = n1
      BY <1>11 DEF Change
    <3>3. g.if_blocks + (IF l.op = "if" THEN 1 ELSE IF l.op = "endif" THEN -1 ELSE 0) = n2
      BY <1>11 DEF Change
    <3> QED
      BY <1>12, <3>1, <3>2, <3>3 DEF Nested
  <2> QED
    BY <1>2, <2>1 DEF Collect
<1>14. Collects(h)
  <2>1. h.foreach # <<>>
    BY <1>4, <1>10, <1>12, NoElement
  <2> QED
    BY <1>9, <1>10, <1>12, <2>1 DEF Collects
<1>15. n1 >= 1 /\ n1 = 1 + OpenLoops(more, Len(more))
  <2>1. f.foreach_blocks >= 1 /\ f.foreach_blocks = 1 + OpenLoops(lines, x)
    BY <1>3, <1>4, <1>5, <1>7 DEF Counted
  <2>2. g.foreach_blocks = f.foreach_blocks /\ f.foreach_blocks \in Int
    BY <1>3, FileParts DEF TakesLine
  <2>3. OpenLoops(more, x + 1) = OpenLoops(lines, x) + Change(l, "foreach", "endfor")
    BY <1>7, <1>8, AppendedLoops
  <2>4. l.op = "endfor" => f.foreach_blocks # 1
    BY <1>1, <1>2 DEF ClosesLoop
  <2>5. OpenLoops(lines, x) \in Int
    BY OpenStep
  <2> QED
    BY <1>8, <1>11, <2>1, <2>2, <2>3, <2>4, <2>5 DEF Change
<1>16. Counted(h)
  <2>1. ASSUME NEW j \in 1..m
        PROVE  /\ loops[j].pos <= Len(loops[j].lines)
               /\ Reads(loops[j]) => j = m /\ loops[j].pos = 0
    <3>1. CASE j = m
      BY <1>8, <1>9, <1>10, <3>1
    <3>2. CASE j # m
      <4>1. loops[j] = g.foreach[j] /\ g.foreach[j].pos <= Len(g.foreach[j].lines)
        BY <1>1, <1>2, <1>4, <1>10, <3>2, TakenFile
      <4>2. ~Reads(f.foreach[j]) /\ g.foreach[j].mode = f.foreach[j].mode
        BY <1>1, <1>2, <1>3, <1>4, <3>2, TakenFile DEF Counted
      <4> QED
        BY <3>2, <4>1, <4>2 DEF Reads
    <3> QED
      BY <3>1, <3>2
  <2> QED
    BY <1>9, <1>10, <1>12, <1>14, <1>15, <2>1 DEF Counted
<1>17. Gathers(g, h, l)
  <2>1. /\ h.rest = g.rest /\ h.cs = g.cs /\ Collects(h) /\ h.foreach_blocks >= 1
        /\ h.foreach_blocks = g.foreach_blocks + Change(l, "foreach", "endfor")
        /\ h.if_blocks = g.if_blocks + Change(l, "if", "endif")
    BY <1>11, <1>12, <1>14, <1>15
  <2>2. Len(h.foreach) = m /\ \A j \in 1..(m - 1) : h.foreach[j] = g.foreach[j]
    BY <1>10, <1>12
  <2>3. /\ h.foreach[m].lines = Append(g.foreach[m].lines, l)
        /\ h.foreach[m].pos = g.foreach[m].pos /\ Reads(h.foreach[m])
    BY <1>5, <1>6, <1>7, <1>8, <1>9, <1>10, <1>12
  <2> QED
    BY <1>4, <2>1, <2>2, <2>3 DEF Gathers
<1>18. ASSUME AllMatched(script) PROVE \E n \in DOMAIN script : Tracks(h, script[n])
  <2>1. PICK n \in DOMAIN script : Tracks(f, script[n])
    BY <1>3, <1>18 DEF Good
  <2>2. PICK s \in Seq(Lines(script)) : s = script[n]
    BY ScriptFacts DEF IInv
  <2>3. Tracks(h, s)
    BY <1>3, <1>17, <2>1, <2>2, GatherTracks
  <2> QED
    BY <2>2, <2>3
<1>19. Good(script, h)
  BY <1>16, <1>18 DEF Good
<1> QED
  BY <1>1, <1>13, <1>19, Becoming

\* A loop whose lines are complete begins, or is left out.
LEMMA EndCollectKeeps ==
    ASSUME IInv, EndCollect
    PROVE  IInv'
<1>1. /\ Running /\ HasLine /\ Collecting /\ UNCHANGED <<script, undefined>>
      /\ line.op = "endfor" /\ fs.foreach_blocks = 1
  <2>1. ClosesLoop /\ UNCHANGED <<script, undefined>>
    BY DEF EndCollect
  <2> QED
    BY <2>1 DEF ClosesLoop, Collecting
<1>2. PICK f \in FileState(script), g \in FileState(script), l \in Lines(script) :
         f = fs /\ g = Taken /\ l = line
  BY <1>1, Current, TakenFile
<1>3. TakesLine(f, g, l) /\ Good(script, f) /\ Counted(f) /\ Collects(f) /\ f.foreach_blocks = 1
  BY <1>1, <1>2, Current, TakenFile
<1>4. PICK m \in Nat : m = Len(f.foreach) /\ m = Len(g.foreach) /\ m \in 1..m
  <2>1. Len(f.foreach) # 0
    BY <1>3, FileParts, NoElement DEF Collects
  <2> QED
    BY <1>3, <2>1, FileParts DEF TakesLine
<1>5. \A j \in 1..m : /\ g.foreach[j].pos <= Len(g.foreach[j].lines)
                      /\ g.foreach[j].mode = f.foreach[j].mode
  BY <1>1, <1>2, <1>4, TakenFile
<1>6. ASSUME NEW j \in 1..(m - 1) PROVE ~Reads(g.foreach[j])
  <2>1. ~Reads(f.foreach[j])
    BY <1>3, <1>4 DEF Counted
  <2> QED
    BY <1>4, <1>5, <2>1 DEF Reads
<1>7. CASE Ends
  <2>1. undefined' \in BOOLEAN
    BY <1>1 DEF IInv
  <2> QED
    BY <1>1, <1>7, <2>1, Ending
<1>8. ASSUME NEW h \in FileState(script), Becomes(h), Counted(h), Starts(g, h) \/ Drops(g, h)
      PROVE  IInv'
  <2>1. ASSUME AllMatched(script) PROVE \E n \in DOMAIN script : Tracks(h, script[n])
    <3>1. PICK n \in DOMAIN script : Tracks(f, script[n])
      BY <1>3, <2>1 DEF Good
    <3>2. PICK lines \in Seq(Lines(script)) : lines = script[n] /\ Matched(lines)
      BY <2>1, ScriptFacts DEF IInv, AllMatched
    <3>3. Tracks(h, lines)
      BY <1>1, <1>2, <1>3, <1>8, <3>1, <3>2, EndTracks
    <3> QED
      BY <3>2, <3>3
  <2>2. Good(script, h)
    BY <1>8, <2>1 DEF Good
  <2> QED
    BY <1>1, <1>8, <2>2, Becoming
<1>9. PICK zero \in Int : zero = 0
  OBVIOUS
<1>10. CASE Becomes([Taken EXCEPT !.foreach_blocks = 0, !.foreach[Len(fs.foreach)].mode = "NONE"])
  <2>1. PICK x \in LoopState(script) : x = g.foreach[m]
    BY <1>4, FileParts
  <2>2. PICK loop \in LoopState(script) :
           /\ loop = [x EXCEPT !.mode = "NONE"] /\ loop.lines = x.lines /\ loop.pos = x.pos
           /\ ~Reads(loop)
    <3>1. [x EXCEPT !.mode = "NONE"] \in LoopState(script)
      BY DEF LoopState, Modes
    <3> QED
      BY <3>1 DEF LoopState, Reads
  <2>3. PICK loops \in Seq(LoopState(script)) : Exchanged(g.foreach, m, loop, loops)
    BY <1>4, FileParts, LoopReplaced
  <2>4. /\ loops = [g.foreach EXCEPT ![m] = loop] /\ Len(loops) = m
        /\ loops[m] = loop /\ \A j \in 1..m : j # m => loops[j] = g.foreach[j]
    BY <1>4, <2>3 DEF Exchanged
  <2>5. PICK h \in FileState(script) :
           /\ h = [g EXCEPT !.foreach_blocks = zero, !.foreach = loops]
           /\ h.foreach = loops /\ h.rest = g.rest /\ h.cs = g.cs
           /\ h.foreach_blocks = zero /\ h.if_blocks = g.if_blocks
    <3>1. [g EXCEPT !.foreach_blocks = zero, !.foreach = loops] \in FileState(script)
      BY DEF FileState
    <3> QED
      BY <3>1 DEF FileState
  <2>6. Becomes(h)
    BY <1>2, <1>4, <1>9, <1>10, <2>1, <2>2, <2>4, <2>5
  <2>7. ASSUME NEW j \in 1..m PROVE ~Reads(loops[j]) /\ loops[j].pos <= Len(loops[j].lines)
    <3>1. CASE j = m
      BY <1>5, <2>1, <2>2, <2>4, <3>1
    <3>2. CASE j # m
      <4>1. j \in 1..(m - 1) /\ loops[j] = g.foreach[j]
        BY <2>4, <3>2
      <4> QED
        BY <1>5, <1>6, <4>1
    <3> QED
      BY <3>1, <3>2
  <2>8. ~Collects(h)
    BY <1>4, <2>4, <2>5, <2>7 DEF Collects
  <2>9. Counted(h)
    BY <1>9, <2>4, <2>5, <2>7, <2>8 DEF Counted
  <2>10. Starts(g, h)
    BY <1>4, <1>9, <2>1, <2>2, <2>4, <2>5, <2>8 DEF Starts
  <2> QED
    BY <1>8, <2>6, <2>9, <2>10
<1>11. CASE Becomes([Taken EXCEPT !.foreach_blocks = 0, !.foreach = Front(@)])
  <2>1. PICK loops \in Seq(LoopState(script)) : Fewer(g.foreach, loops)
    BY <1>4, FileParts, LoopDropped
  <2>2. loops = Front(g.foreach) /\ Len(loops) = m - 1
                                 /\ \A j \in 1..(m - 1) : loops[j] = g.foreach[j]
    BY <1>4, <2>1 DEF Fewer
  <2>3. PICK h \in FileState(script) :
           /\ h = [g EXCEPT !.foreach_blocks = zero, !.foreach = loops]
           /\ h.foreach = loops /\ h.rest = g.rest /\ h.cs = g.cs
           /\ h.foreach_blocks = zero /\ h.if_blocks = g.if_blocks
    <3>1. [g EXCEPT !.foreach_blocks = zero, !.foreach = loops] \in FileState(script)
      BY DEF FileState
    <3> QED
      BY <3>1 DEF FileState
  <2>4. Becomes(h)
    BY <1>2, <1>9, <1>11, <2>2, <2>3
  <2>5. ASSUME NEW j \in 1..(m - 1) PROVE ~Reads(loops[j]) /\ loops[j].pos <= Len(loops[j].lines)
    <3>1. j \in 1..m /\ loops[j] = g.foreach[j]
      BY <2>2
    <3> QED
      BY <1>5, <1>6, <3>1
  <2>6. ~Collects(h)
    <3>1. loops # <<>> => m - 1 \in 1..(m - 1)
      BY <1>4, <2>2, NoElement
    <3> QED
      BY <2>2, <2>3, <2>5, <3>1 DEF Collects
  <2>7. Counted(h)
    BY <1>9, <2>2, <2>3, <2>5, <2>6 DEF Counted
  <2>8. Drops(g, h)
    BY <1>4, <1>9, <2>2, <2>3, <2>6 DEF Drops
  <2> QED
    BY <1>8, <2>4, <2>7, <2>8
<1> QED
  BY <1>7, <1>10, <1>11 DEF EndCollect

\* Another round of a loop begins, or the loop is over.
LEMMA RoundKeeps ==
    ASSUME IInv, NextRound
    PROVE  IInv'
<1>1. Running /\ ~Collecting /\ InRound /\ ~HasLine /\ UNCHANGED <<script, undefined>>
  BY DEF NextRound
<1>2. PICK f \in FileState(script) :
         /\ f = fs /\ Good(script, f) /\ Counted(f) /\ ~Collects(f)
         /\ Source(f) # 0 /\ ~AnyLine(f)
  BY <1>1, Current
<1>3. PICK m \in Nat : m = Len(f.foreach) /\ m \in 1..m
  <2>1. Source(f) = Len(f.foreach)
    BY <1>2 DEF Source
  <2> QED
    BY <1>2, <2>1, FileParts
<1>4. ASSUME NEW j \in 1..m
      PROVE  ~Reads(f.foreach[j]) /\ f.foreach[j].pos <= Len(f.foreach[j].lines)
  <2>1. f.foreach # <<>>
    BY <1>3, FileParts, NoElement
  <2> QED
    BY <1>2, <1>3, <2>1 DEF Counted, Collects
<1>5. f.foreach_blocks = 0
  BY <1>2 DEF Counted
<1>6. ASSUME NEW h \in FileState(script), Becomes(h), Counted(h), Repeats(f, h) \/ Leaves(f, h)
      PROVE  IInv'
  <2>1. ASSUME AllMatched(script) PROVE \E n \in DOMAIN script : Tracks(h, script[n])
    <3>1. PICK n \in DOMAIN script : Tracks(f, script[n])
      BY <1>2, <2>1 DEF Good
    <3>2. PICK lines \in Seq(Lines(script)) : lines = script[n] /\ Matched(lines)
      BY <2>1, ScriptFacts DEF IInv, AllMatched
    <3>3. Tracks(h, lines)
      BY <1>2, <1>6, <3>1, <3>2, RoundTracks
    <3> QED
      BY <3>2, <3>3
  <2>2. Good(script, h)
    BY <1>6, <2>1 DEF Good
  <2> QED
    BY <1>1, <1>6, <2>2, Becoming
<1>7. CASE Becomes([fs EXCEPT !.foreach[Len(fs.foreach)].i = @ + 1,
                              !.foreach[Len(fs.foreach)].pos = 0])
  <2>1. PICK x \in LoopState(script), y \in Nat : x = f.foreach[m] /\ y = x.i + 1
    <3>1. f.foreach[m] \in LoopState(script) /\ f.foreach[m].i \in Nat
      BY <1>3, FileParts
    <3> QED
      BY <3>1
  <2>2. PICK loop \in LoopState(script) :
           /\ loop = [x EXCEPT !.i = y, !.pos = 0] /\ loop.lines = x.lines /\ loop.pos = 0
           /\ loop.mode = x.mode
    <3>1. [x EXCEPT !.i = y, !.pos = 0] \in LoopState(script)
      BY DEF LoopState
    <3> QED
      BY <3>1 DEF LoopState
  <2>3. PICK loops \in Seq(LoopState(script)) : Exchanged(f.foreach, m, loop, loops)
    BY <1>3, FileParts, LoopReplaced
  <2>4. /\ loops = [f.foreach EXCEPT ![m] = loop] /\ Len(loops) = m
        /\ loops[m] = loop /\ \A j \in 1..m : j # m => loops[j] = f.foreach[j]
    BY <1>3, <2>3 DEF Exchanged
  <2>5. PICK h \in FileState(script) :
           /\ h = [f EXCEPT !.foreach = loops] /\ h.foreach = loops /\ h.rest = f.rest
           /\ h.cs = f.cs /\ h.foreach_blocks = f.foreach_blocks /\ h.if_blocks = f.if_blocks
    BY WithLoops
  <2>6. h = [f EXCEPT !.foreach[m].i = @ + 1, !.foreach[m].pos = 0]
    <3>1. f.foreach \in Seq(LoopState(script))
      BY FileParts
    <3>2. [[f.foreach EXCEPT ![m].i = @ + 1] EXCEPT ![m].pos = 0] = loops
      <4>1. PICK old \in Seq(LoopState(script)) : old = f.foreach /\ m \in DOMAIN old
        BY <1>3, <3>1
      <4>2. PICK a : a = [x EXCEPT !.i = y]
        OBVIOUS
      <4>3. [old EXCEPT ![m].i = @ + 1] = [old EXCEPT ![m] = a]
        BY <2>1, <4>1, <4>2
      <4>4. [[old EXCEPT ![m] = a] EXCEPT ![m].pos = 0] = [old EXCEPT ![m] = [a EXCEPT !.pos = 0]]
        BY <4>1
      <4> QED
        BY <2>2, <2>4, <4>1, <4>2, <4>3, <4>4
    <3> QED
      BY <2>5, <3>2 DEF FileState
  <2>7. Becomes(h)
    BY <1>2, <1>3, <1>7, <2>6
  <2>8. ASSUME NEW j \in 1..m PROVE ~Reads(loops[j]) /\ loops[j].pos <= Len(loops[j].lines)
    <3>1. CASE j = m
      <4>1. 0 <= Len(loop.lines)
        BY FileParts DEF LoopState
      <4> QED
        BY <1>4, <2>1, <2>2, <2>4, <3>1, <4>1 DEF Reads
    <3>2. CASE j # m
      BY <1>4, <2>4, <3>2
    <3> QED
      BY <3>1, <3>2
  <2>9. ~Collects(h)
    BY <1>3, <2>4, <2>5, <2>8 DEF Collects
  <2>10. Counted(h)
    BY <1>5, <2>4, <2>5, <2>8, <2>9 DEF Counted
  <2>11. Repeats(f, h)
    BY <1>3, <2>1, <2>2, <2>4, <2>5, <2>8, <2>9 DEF Repeats
  <2> QED
    BY <1>6, <2>7, <2>10, <2>11
<1>8. CASE Becomes([fs EXCEPT !.foreach = Front(@)])
  <2>1. PICK loops \in Seq(LoopState(script)) : Fewer(f.foreach, loops)
    BY <1>3, FileParts, LoopDropped
  <2>2. loops = Front(f.foreach) /\ Len(loops) = m - 1
                                 /\ \A j \in 1..(m - 1) : loops[j] = f.foreach[j]
    BY <1>3, <2>1 DEF Fewer
  <2>3. PICK h \in FileState(script) :
           /\ h = [f EXCEPT !.foreach = loops] /\ h.foreach = loops /\ h.rest = f.rest
           /\ h.cs = f.cs /\ h.foreach_blocks = f.foreach_blocks /\ h.if_blocks = f.if_blocks
    BY WithLoops
  <2>4. Becomes(h)
    BY <1>2, <1>8, <2>2, <2>3
  <2>5. ASSUME NEW j \in 1..(m - 1) PROVE ~Reads(loops[j]) /\ loops[j].pos <= Len(loops[j].lines)
    <3>1. j \in 1..m /\ loops[j] = f.foreach[j]
      BY <2>2
    <3> QED
      BY <1>4, <3>1
  <2>6. ~Collects(h)
    <3>1. loops # <<>> => m - 1 \in 1..(m - 1)
      BY <1>3, <2>2, NoElement
    <3> QED
      BY <2>2, <2>3, <2>5, <3>1 DEF Collects
  <2>7. Counted(h)
    BY <1>5, <2>2, <2>3, <2>5, <2>6 DEF Counted
  <2>8. Leaves(f, h)
    BY <1>3, <2>2, <2>3, <2>6 DEF Leaves
  <2> QED
    BY <1>6, <2>4, <2>7, <2>8
<1> QED
  BY <1>7, <1>8 DEF NextRound

\* A file that is read to its end.
LEMMA AtTheEnd ==
    ASSUME NEW f \in FileState(script), Counted(f), Source(f) = 0, f.rest = <<>>,
           NEW lines \in Seq(Lines(script)), Matched(lines), Tracks(f, lines)
    PROVE  Len(f.foreach) = 0 /\ Len(f.cs) = 0 /\ f.foreach_blocks = 0 /\ f.if_blocks = 0
<1>1. PICK m \in Nat, n \in Nat : m = Len(f.foreach) /\ n = Len(lines)
  <2>1. Len(lines) \in Nat
    OBVIOUS
  <2> QED
    BY <2>1, FileParts
<1>2. PICK b \in [1..m -> 1..n], p \in [0..m -> 0..n] :
         Placed(f, lines, b, p) /\ Agrees(f, lines, b, p)
  BY <1>1 DEF Tracks
<1>3. p[0] = n
  <2>1. Len(f.rest) = n - p[0] /\ Len(f.rest) = 0
    BY <1>1, <1>2 DEF Placed
  <2>2. p[0] \in 0..n
    OBVIOUS
  <2> QED
    BY <2>1, <2>2
<1>4. OpenLoops(lines, n) = 0 /\ OpenIfs(lines, n) = 0
  BY <1>1 DEF Matched
<1>5. ~Collects(f)
  <2> SUFFICES ASSUME Collects(f) PROVE FALSE
    OBVIOUS
  <2>1. m = 1
    BY <1>1 DEF Source
  <2>2. PICK k \in 1..n : k = b[1]
    BY <2>1
  <2>3. Begun(f.foreach[1], lines, k, n) /\ Reads(f.foreach[1])
    BY <1>1, <1>2, <1>3, <2>1, <2>2 DEF Placed, Collects
  <2>4. PICK x \in Nat : x = Len(f.foreach[1].lines)
    <3>1. 1 \in 1..Len(f.foreach)
      BY <1>1, <2>1
    <3>2. Len(f.foreach[1].lines) \in Nat
      BY <3>1, FileParts
    <3> QED
      BY <3>2
  <2>5. n = k + x /\ \A i \in k..n : OpenLoops(lines, i) > OpenLoops(lines, k - 1)
    BY <2>3, <2>4 DEF Begun
  <2>6. n \in k..n
    OBVIOUS
  <2>7. 0 > OpenLoops(lines, k - 1)
    BY <1>4, <2>5, <2>6
  <2>8. OpenLoops(lines, k - 1) \in Int /\ OpenLoops(lines, k - 1) >= 0
    <3>1. CASE k = 1
      <4>1. k - 1 = 0 /\ OpenLoops(lines, 0) = 0
        BY <3>1, OpenStep
      <4> QED
        BY <4>1
    <3>2. CASE k # 1
      <4>1. k - 1 \in DOMAIN lines /\ k - 1 \in Nat
        BY <1>1, <3>2
      <4>2. OpenLoops(lines, k - 1) \in Int
        BY <4>1, OpenStep
      <4> QED
        BY <4>1, <4>2 DEF Matched
    <3> QED
      BY <3>1, <3>2
  <2> QED
    BY <2>7, <2>8
<1>6. m = 0
  BY <1>1, <1>5 DEF Source
<1>7. Len(f.cs) = 0 /\ f.if_blocks = 0
  BY <1>1, <1>2, <1>3, <1>4, <1>5, <1>6 DEF Agrees
<1> QED
  BY <1>1, <1>5, <1>6, <1>7 DEF Counted

-----------------------------------------------------------------------------
(* The theorems *)

LEMMA InitIInv == Init => IInv
<1> SUFFICES ASSUME Init PROVE IInv
  OBVIOUS
<1>1. script \in Scripts /\ undefined = FALSE /\ files = <<Opened(script[MainFile])>>
  BY DEF Init
<1>2. MainFile \in DOMAIN script
  BY <1>1, ScriptFacts
<1>3. PICK f \in FileState(script) : f = Opened(script[MainFile]) /\ Good(script, f)
  <2>1. Good(script, Opened(script[MainFile]))
    BY <1>1, <1>2, NewFile
  <2> QED
    BY <2>1 DEF Good
<1>4. files \in Seq(FileState(script)) /\ Len(files) = 1 /\ files[1] = f
  BY <1>1, <1>3
<1>5. \A k \in 1..Len(files) : files[k] = f /\ k = Len(files)
  BY <1>4
<1>6. undefined \in BOOLEAN
  BY <1>1
<1> QED
  BY <1>1, <1>3, <1>4, <1>5, <1>6 DEF IInv

LEMMA NextIInv == IInv /\ [Next]_vars => IInv'
<1> SUFFICES ASSUME IInv, [Next]_vars PROVE IInv'
  OBVIOUS
<1>1. CASE UNCHANGED vars
  BY <1>1 DEF IInv, vars
<1>2. CASE If \/ Elseif \/ Else \/ Endif
  BY <1>2, CondKeeps
<1>3. CASE Skip \/ Do \/ Parse
  BY <1>3, LineKeeps
<1>4. CASE Fail \/ Return \/ EndOfFile
  BY <1>4, EndKeeps
<1>5. CASE Break
  BY <1>5, BreakKeeps
<1>6. CASE Foreach
  BY <1>6, ForeachKeeps
<1>7. CASE Collect
  BY <1>7, CollectKeeps
<1>8. CASE EndCollect
  BY <1>8, EndCollectKeeps
<1>9. CASE NextRound
  BY <1>9, RoundKeeps
<1> QED
  BY <1>1, <1>2, <1>3, <1>4, <1>5, <1>6, <1>7, <1>8, <1>9 DEF Next

LEMMA Invariance == Spec => []IInv
<1> QED
  BY InitIInv, NextIInv, PTL DEF Spec

\* What parseCommand keeps for a file is of its type, in whatever order its lines
\* begin, skip, leave and end loops and conditionals: the counter of the blocks is
\* never negative, and no loop is ahead of the lines that it has collected.
THEOREM InterpreterTypes == Spec => []TypeOK
<1>1. IInv => TypeOK
  <2> SUFFICES ASSUME IInv PROVE TypeOK
    OBVIOUS
  <2>1. ASSUME NEW k \in DOMAIN files
        PROVE  LET f == files[k] IN
               /\ f.foreach_blocks \in Nat /\ f.if_blocks \in Int
               /\ \A c \in DOMAIN f.cs : f.cs[c] \in States
               /\ \A j \in DOMAIN f.foreach :
                     /\ f.foreach[j].mode \in Modes
                     /\ f.foreach[j].pos \in 0..Len(f.foreach[j].lines)
                     /\ f.foreach[j].i \in Nat /\ f.foreach[j].end \in Nat
    <3>1. PICK f \in FileState(script) : f = files[k] /\ Counted(f)
      BY <2>1 DEF IInv, Good
    <3>2. f.foreach_blocks \in Nat /\ f.if_blocks \in Int
      BY <3>1, FileParts DEF Counted
    <3>3. \A c \in DOMAIN f.cs : f.cs[c] \in States
      BY FileParts
    <3>4. ASSUME NEW j \in DOMAIN f.foreach
          PROVE  /\ f.foreach[j].mode \in Modes
                 /\ f.foreach[j].pos \in 0..Len(f.foreach[j].lines)
                 /\ f.foreach[j].i \in Nat /\ f.foreach[j].end \in Nat
      <4>1. j \in 1..Len(f.foreach)
        BY FileParts
      <4>2. f.foreach[j].pos <= Len(f.foreach[j].lines)
        BY <3>1, <4>1 DEF Counted
      <4>3. /\ f.foreach[j].mode \in Modes /\ f.foreach[j].i \in Nat /\ f.foreach[j].end \in Nat
            /\ f.foreach[j].pos \in Nat /\ Len(f.foreach[j].lines) \in Nat
        BY <4>1, FileParts
      <4> QED
        BY <4>2, <4>3
    <3> QED
      BY <3>1, <3>2, <3>3, <3>4
  <2> QED
    BY <2>1 DEF TypeOK, IInv
<1> QED
  BY <1>1, Invariance, PTL

\* Only the innermost loop of the current file collects lines, and its counter says
\* how many loops are open in them; a file whose lines match, and that is read to
\* its end, has ended what it began, wherever a break, a skipped branch or a loop
\* without a round left lines out.
THEOREM BlocksBalance == Spec => []Balanced
<1>1. IInv => Balanced
  <2> SUFFICES ASSUME IInv PROVE Balanced
    OBVIOUS
  <2>1. ASSUME NEW k \in DOMAIN files, NEW j \in DOMAIN files[k].foreach,
               files[k].foreach[j].mode \in {"READ", "SKIP"}
        PROVE  /\ k = Len(files) /\ j = Len(files[k].foreach)
               /\ LET lines == files[k].foreach[j].lines
                  IN files[k].foreach_blocks = 1 + OpenLoops(lines, Len(lines))
    <3>1. PICK f \in FileState(script) :
             f = files[k] /\ Counted(f) /\ (Collects(f) => k = Len(files))
      BY <2>1 DEF IInv, Good
    <3>2. j \in 1..Len(f.foreach) /\ Reads(f.foreach[j])
      BY <2>1, <3>1, FileParts DEF Reads
    <3>3. j = Len(f.foreach)
      BY <3>1, <3>2 DEF Counted
    <3>4. Collects(f)
      <4>1. f.foreach # <<>>
        BY <3>2, FileParts, NoElement
      <4> QED
        BY <3>2, <3>3, <4>1 DEF Collects
    <3> QED
      BY <3>1, <3>3, <3>4 DEF Counted
  <2>2. ASSUME files # <<>>, ~InRound, ~HasLine, \A f \in DOMAIN script : Matched(script[f])
        PROVE  fs.cs = <<>> /\ fs.foreach = <<>> /\ fs.foreach_blocks = 0 /\ fs.if_blocks = 0
    <3>1. PICK f \in FileState(script) : f = fs /\ Good(script, f)
      <4>1. fs = files[Len(files)] /\ Len(files) \in 1..Len(files)
        BY <2>2 DEF IInv, fs, Last
      <4> QED
        BY <4>1 DEF IInv, Good
    <3>2. Source(f) = 0 /\ f.rest = <<>>
      <4>1. CASE Running
        BY <2>2, <3>1, <4>1, Current DEF AnyLine
      <4>2. CASE ~Running
        <5>1. fs.foreach = <<>> /\ fs.rest = <<>>
          BY <2>2, <4>2 DEF InRound, HasLine, Executing, Collecting
        <5> QED
          BY <3>1, <5>1 DEF Source, Collects
      <4> QED
        BY <4>1, <4>2
    <3>3. PICK lines \in Seq(Lines(script)) : Matched(lines) /\ Tracks(f, lines)
      <4>1. PICK n \in DOMAIN script : Tracks(f, script[n])
        BY <2>2, <3>1 DEF Good, AllMatched
      <4>2. script[n] \in Seq(Lines(script)) /\ Matched(script[n])
        BY <2>2, ScriptFacts DEF IInv
      <4> QED
        BY <4>1, <4>2
    <3>4. /\ Len(f.foreach) = 0 /\ Len(f.cs) = 0 /\ f.foreach_blocks = 0 /\ f.if_blocks = 0
      BY <3>1, <3>2, <3>3, AtTheEnd DEF Good
    <3>5. f.foreach = <<>> /\ f.cs = <<>>
      <4>1. PICK loops \in Seq(LoopState(script)), c \in Seq(States) : loops = f.foreach /\ c = f.cs
        BY FileParts
      <4> QED
        BY <3>4, <4>1, NoElement
    <3> QED
      BY <3>1, <3>4, <3>5
  <2> QED
    BY <2>1, <2>2 DEF Balanced
<1> QED
  BY <1>1, Invariance, PTL
=============================================================================
