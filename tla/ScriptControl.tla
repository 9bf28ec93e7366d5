--------------------------- MODULE ScriptControl ---------------------------
(***************************************************************************)
(* How AppParse interprets the control structures of script files.  Lines  *)
(* come one at a time, from a file or from a loop whose lines have been    *)
(* collected, and parseCommand decides about each with what it keeps in    *)
(* the FileState: the states of the conditionals (cs), the loops (foreach) *)
(* and the counters of nested blocks.  No syntax tree is ever built.       *)
(***************************************************************************)
EXTENDS Integers, SequencesExt

CONSTANTS
    Scripts,        \* what the files may be: functions from their names to lines
    Times,          \* the number of rounds of a loop, by its argument
    MainFile        \* the file that is parsed first

Ops == {"do", "fail", "if", "elseif", "else", "endif", "foreach", "endfor",
        "break", "parse", "return"}

\* "do" stands for a command that succeeds, "fail" for one that does not; at is
\* the place of the line in the file.
IsALine(l) == /\ l.op \in Ops /\ l.at \in Nat
              /\ l.op = "foreach" => Times[l.arg] \in Nat

ASSUME ScriptsAssumption ==
    \A s \in Scripts :
       /\ MainFile \in DOMAIN s
       /\ \A f \in DOMAIN s :
             /\ s[f] \in Seq(Range(s[f]))
             /\ \A k \in 1..Len(s[f]) :
                   IsALine(s[f][k]) /\ (s[f][k].op = "parse" => s[f][k].arg \in DOMAIN s)

VARIABLES
    script,         \* the files
    files,          \* the files that are read, the current one last
    trace,          \* the commands that were executed, and in which round
    undefined       \* whether the program has used an element that is not there

vars == <<script, files, trace, undefined>>

Opened(lines) ==
    [rest |-> lines, cs |-> <<>>, foreach |-> <<>>, foreach_blocks |-> 0, if_blocks |-> 0]

Init == /\ script \in Scripts
        /\ files = <<Opened(script[MainFile])>>
        /\ trace = <<>> /\ undefined = FALSE

-----------------------------------------------------------------------------
(* The next line of the current file *)

Running == files # <<>> /\ ~undefined

fs == Last(files)
fr == Last(fs.foreach)
InForeach == fs.foreach # <<>>

\* A loop collects its lines in mode READ or SKIP, and executes them otherwise.
Collecting == Running /\ InForeach /\ fr.mode \in {"READ", "SKIP"}
Executing == IF Collecting THEN Front(fs.foreach) ELSE fs.foreach
InRound == Executing # <<>>
Round == Last(Executing)

\* The round of the innermost loop, as the variable of that loop has it.
Index == IF InRound THEN Round.i ELSE 0

HasLine == IF InRound THEN Round.pos < Len(Round.lines) ELSE fs.rest # <<>>
line == IF InRound THEN Round.lines[Round.pos + 1] ELSE Head(fs.rest)

\* The current file when its next line has been taken.
Taken == IF InRound THEN [fs EXCEPT !.foreach[Len(Executing)].pos = @ + 1]
                    ELSE [fs EXCEPT !.rest = Tail(@)]

Becomes(f) == files' = Front(files) \o <<f>>

\* parseCommand returns false: the loops end, and so does the reading of the file.
Ends == files' = Front(files)

-----------------------------------------------------------------------------
(* Lines inside a foreach that is being collected *)

\* The blocks that a line opens or closes.  Only an endif that stands alone on its
\* line counts here, while conditionalCmd also takes one with more text behind it
\* (a loop with such a line ends with "missing endif."); and any line that begins
\* with "if" and has a parenthesis counts as an if.  The scripts here have no such
\* lines.
Nested(f, l) ==
    [f EXCEPT !.foreach_blocks = @ + (IF l.op = "foreach" THEN 1
                                      ELSE IF l.op = "endfor" THEN -1 ELSE 0),
              !.if_blocks = @ + (IF l.op = "if" THEN 1 ELSE IF l.op = "endif" THEN -1 ELSE 0),
              !.foreach[Len(f.foreach)].lines = Append(@, l)]

ClosesLoop == Collecting /\ HasLine /\ line.op = "endfor" /\ fs.foreach_blocks = 1

Collect ==
    /\ Collecting /\ HasLine /\ ~ClosesLoop
    /\ Becomes(Nested(Taken, line))
    /\ UNCHANGED <<script, trace, undefined>>

\* The lines are complete: processForeach begins the first round, if any.
EndCollect ==
    /\ ClosesLoop
    /\ IF fs.if_blocks > 0 THEN Ends
       ELSE IF fr.mode = "READ"
       THEN Becomes([Taken EXCEPT !.foreach_blocks = 0, !.foreach[Len(fs.foreach)].mode = "NONE"])
       ELSE Becomes([Taken EXCEPT !.foreach_blocks = 0, !.foreach = Front(@)])
    /\ UNCHANGED <<script, trace, undefined>>

-----------------------------------------------------------------------------
(* Conditionals: conditionalCmd *)

Active == Running /\ ~Collecting /\ HasLine
cs == IF fs.cs = <<>> THEN "NONE" ELSE Last(fs.cs)
Replaced(f, c) == [f EXCEPT !.cs = Front(@) \o <<c>>]
Pushed(f, c) == [f EXCEPT !.cs = Append(@, c)]

False == {"IF_FALSE", "ELSEIF_FALSE"}
True == {"IF_TRUE", "ELSEIF_TRUE"}
Skipping == cs \in False \cup {"SKIP"}

Breaking == InForeach /\ fr.mode = "BREAK"

\* Conditions are constant, not defined, or true in the second round of a loop;
\* behind a break they are not evaluated.
Conditions == {"true", "false", "second", "undefined"}
Holds(c) == Breaking \/ c = "true" \/ (c = "second" /\ Index = 2)
Fails(c) == ~Breaking /\ c = "undefined"

If ==
    /\ Active /\ line.op = "if"
    /\ IF Skipping THEN Becomes(Pushed(Taken, "SKIP"))
       ELSE IF Fails(line.arg) THEN Ends
       ELSE Becomes(Pushed(Taken, IF Holds(line.arg) THEN "IF_TRUE" ELSE "IF_FALSE"))
    /\ UNCHANGED <<script, trace, undefined>>

\* Mutant: elseif does not ask whether a branch was taken.
ElseifAlways ==
    /\ Active /\ line.op = "elseif"
    /\ Becomes(IF cs = "SKIP" THEN Taken
               ELSE Replaced(Taken, IF Holds(line.arg) THEN "ELSEIF_TRUE" ELSE "ELSEIF_FALSE"))
    /\ UNCHANGED <<script, trace, undefined>>

Elseif ==
    /\ Active /\ line.op = "elseif"
    /\ IF cs = "SKIP" THEN Becomes(Taken)
       ELSE IF cs \in True THEN Becomes(Replaced(Taken, "SKIP"))
       ELSE IF cs \notin False \/ Fails(line.arg) THEN Ends
       ELSE Becomes(Replaced(Taken, IF Holds(line.arg) THEN "ELSEIF_TRUE" ELSE "ELSEIF_FALSE"))
    /\ UNCHANGED <<script, trace, undefined>>

Else ==
    /\ Active /\ line.op = "else"
    /\ IF cs \in False THEN Becomes(Replaced(Taken, "ELSE_TRUE"))
       ELSE IF cs \in True THEN Becomes(Replaced(Taken, "SKIP"))
       ELSE IF cs = "SKIP" THEN Becomes(Taken)
       ELSE Ends
    /\ UNCHANGED <<script, trace, undefined>>

\* Mutant: behind a break, an endif is skipped like any other line.
EndifSkipped ==
    /\ Active /\ line.op = "endif"
    /\ IF cs = "NONE" THEN Ends
       ELSE Becomes(IF Breaking THEN Taken ELSE [Taken EXCEPT !.cs = Front(@)])
    /\ UNCHANGED <<script, trace, undefined>>

Endif ==
    /\ Active /\ line.op = "endif"
    /\ IF cs = "NONE" THEN Ends ELSE Becomes([Taken EXCEPT !.cs = Front(@)])
    /\ UNCHANGED <<script, trace, undefined>>

Conditionals == {"if", "elseif", "else", "endif"}

\* Any other line is skipped in a branch that is not taken, and behind a break.
Skip ==
    /\ Active /\ line.op \notin Conditionals
    /\ Skipping \/ Breaking
    /\ Becomes(Taken)
    /\ UNCHANGED <<script, trace, undefined>>

-----------------------------------------------------------------------------
(* Other lines *)

Runs(op) == Active /\ ~Skipping /\ ~Breaking /\ line.op = op

Do ==
    /\ Runs("do")
    /\ Becomes(Taken) /\ trace' = Append(trace, <<line.at, Index>>)
    /\ UNCHANGED <<script, undefined>>

\* A command fails, or an endfor is unexpected.
Fail ==
    /\ Runs("fail") \/ Runs("endfor")
    /\ Ends
    /\ UNCHANGED <<script, trace, undefined>>

\* foreach(1, n, name): the lines are collected, and skipped if there is no round.
Loop(n) == [mode |-> IF n >= 1 THEN "READ" ELSE "SKIP", lines |-> <<>>, pos |-> 0,
            i |-> 1, end |-> n]

\* Mutant: the loop itself is not counted.
ForeachNoBlock ==
    /\ Runs("foreach")
    /\ Becomes([Taken EXCEPT !.foreach = Append(@, Loop(Times[line.arg]))])
    /\ UNCHANGED <<script, trace, undefined>>

Foreach ==
    /\ Runs("foreach")
    /\ Becomes([Taken EXCEPT !.foreach_blocks = 1, !.foreach = Append(@, Loop(Times[line.arg]))])
    /\ UNCHANGED <<script, trace, undefined>>

Break ==
    /\ Runs("break")
    /\ IF InForeach THEN Becomes([Taken EXCEPT !.foreach[Len(fs.foreach)].mode = "BREAK"]) ELSE Ends
    /\ UNCHANGED <<script, trace, undefined>>

\* Mutant: break ends a round of the loop, instead of the loop.
NextRoundRepeat ==
    /\ Running /\ ~Collecting /\ InRound /\ ~HasLine
    /\ IF Round.mode = "BREAK"
       THEN Becomes([fs EXCEPT !.foreach[Len(fs.foreach)].mode = "NONE",
                               !.foreach[Len(fs.foreach)].pos = 0])
       ELSE IF Round.i < Round.end
       THEN Becomes([fs EXCEPT !.foreach[Len(fs.foreach)].i = @ + 1,
                               !.foreach[Len(fs.foreach)].pos = 0])
       ELSE Becomes([fs EXCEPT !.foreach = Front(@)])
    /\ UNCHANGED <<script, trace, undefined>>

\* processForeach begins another round, or the loop is over.
NextRound ==
    /\ Running /\ ~Collecting /\ InRound /\ ~HasLine
    /\ IF Round.mode # "BREAK" /\ Round.i < Round.end
       THEN Becomes([fs EXCEPT !.foreach[Len(fs.foreach)].i = @ + 1,
                               !.foreach[Len(fs.foreach)].pos = 0])
       ELSE Becomes([fs EXCEPT !.foreach = Front(@)])
    /\ UNCHANGED <<script, trace, undefined>>

Parse ==
    /\ Runs("parse")
    /\ files' = Front(files) \o <<Taken, Opened(script[line.arg])>>
    /\ UNCHANGED <<script, trace, undefined>>

\* "return" clears cs and foreach.  Inside a loop, processForeach then looks for
\* the last element of foreach.
Return ==
    /\ Runs("return")
    /\ Ends
    /\ undefined' = (undefined \/ InForeach)
    /\ UNCHANGED <<script, trace>>

EndOfFile ==
    /\ Running /\ ~InRound /\ ~HasLine
    /\ Ends
    /\ UNCHANGED <<script, trace, undefined>>

-----------------------------------------------------------------------------
Next == Collect \/ EndCollect \/ If \/ Elseif \/ Else \/ Endif \/ Skip
        \/ Do \/ Fail \/ Foreach \/ Break \/ NextRound \/ Parse \/ Return \/ EndOfFile

Spec == Init /\ [][Next]_vars /\ WF_vars(Next)

-----------------------------------------------------------------------------
(* What a script can rely on *)

Modes == {"NONE", "READ", "SKIP", "BREAK"}
States == {"IF_TRUE", "IF_FALSE", "ELSEIF_TRUE", "ELSEIF_FALSE", "ELSE_TRUE", "SKIP"}

TypeOK ==
    /\ undefined \in BOOLEAN
    /\ \A k \in DOMAIN files :
          LET f == files[k] IN
          /\ f.foreach_blocks \in Nat /\ f.if_blocks \in Int
          /\ \A c \in DOMAIN f.cs : f.cs[c] \in States
          /\ \A j \in DOMAIN f.foreach :
                /\ f.foreach[j].mode \in Modes
                /\ f.foreach[j].pos \in 0..Len(f.foreach[j].lines)
                /\ f.foreach[j].i \in Nat /\ f.foreach[j].end \in Nat

\* The loops and the conditionals that are open behind the first k lines.
Number(lines, op, k) == Cardinality({i \in 1..k : lines[i].op = op})
OpenLoops(lines, k)  == Number(lines, "foreach", k) - Number(lines, "endfor", k)
OpenIfs(lines, k)    == Number(lines, "if", k) - Number(lines, "endif", k)

\* The foreach in line b is the one that the endfor in line e ends.
Pair(lines, b, e) ==
    /\ lines[b].op = "foreach" /\ lines[e].op = "endfor" /\ b < e
    /\ OpenLoops(lines, e) = OpenLoops(lines, b - 1)
    /\ \A k \in b..(e - 1) : OpenLoops(lines, k) > OpenLoops(lines, b - 1)

\* Every loop ends, no endfor stands alone, and there are as many endifs as ifs
\* in the file and in each of its loops.
Matched(lines) ==
    /\ \A k \in DOMAIN lines : OpenLoops(lines, k) >= 0
    /\ OpenLoops(lines, Len(lines)) = 0 /\ OpenIfs(lines, Len(lines)) = 0
    /\ \A b, e \in DOMAIN lines : Pair(lines, b, e) => OpenIfs(lines, e) = OpenIfs(lines, b)

\* Only the innermost loop of the current file collects lines, and the counter
\* says how many loops are open in what it has collected; and a file that is read
\* to its end leaves no conditional, loop or block open, whatever breaks there
\* were, if the lines of the files match.
Balanced ==
    /\ \A k \in DOMAIN files : \A j \in DOMAIN files[k].foreach :
          files[k].foreach[j].mode \in {"READ", "SKIP"} =>
             /\ k = Len(files) /\ j = Len(files[k].foreach)
             /\ LET lines == files[k].foreach[j].lines
                IN files[k].foreach_blocks = 1 + OpenLoops(lines, Len(lines))
    /\ files # <<>> /\ ~InRound /\ ~HasLine /\ (\A f \in DOMAIN script : Matched(script[f])) =>
          fs.cs = <<>> /\ fs.foreach = <<>> /\ fs.foreach_blocks = 0 /\ fs.if_blocks = 0

\* Every file is read to its end, or to where it returns or fails.
Terminates == <>(files = <<>> \/ undefined)
=============================================================================
