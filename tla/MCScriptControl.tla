-------------------------- MODULE MCScriptControl --------------------------
(***************************************************************************)
(* Scripts for ScriptControl, and what they mean: a recursive definition   *)
(* that looks ahead for the end of each block, as the program does not.    *)
(***************************************************************************)
EXTENDS ScriptControl

MCTimes == [none |-> 0, twice |-> 2]

-----------------------------------------------------------------------------
(* What a script means *)

Opens == {"if", "foreach"}
Closes == {"endif", "endfor"}
Count(s, k, j, ops) == Cardinality({p \in k..j : s[p].op \in ops})
Level(s, k, j) == Count(s, k, j, Opens) - Count(s, k, j, Closes)

\* The end of the block that begins in line k, and the places where its
\* branches begin.
End(s, k) == Min({j \in k..Len(s) : Level(s, k, j) = 0})
Branches(s, k) ==
    {k} \cup {j \in k..End(s, k) : s[j].op \in {"elseif", "else"} /\ Level(s, k, j) = 1}

Result(end, t) == [end |-> end, trace |-> t]

\* What the lines from j to k of s do in round i of the loop around them: how
\* they end, and which commands they execute.
RECURSIVE Does(_, _, _, _), Branch(_, _, _), Rounds(_, _, _)
Does(s, j, k, i) ==
    IF j > k THEN Result("ok", <<>>)
    ELSE LET op == s[j].op
             r == CASE op = "do" -> Result("ok", <<<<s[j].at, i>>>>)
                    [] op = "parse" ->
                         LET f == script[s[j].arg]
                         IN Result("ok", Does(f, 1, Len(f), 0).trace)
                    [] op = "if" -> Branch(s, j, i)
                    [] op = "foreach" -> Rounds(s, j, 1)
                    [] OTHER -> Result(op, <<>>)
             q == Does(s, (IF op \in Opens THEN End(s, j) ELSE j) + 1, k, i)
         IN IF r.end # "ok" THEN r ELSE Result(q.end, r.trace \o q.trace)

\* The first branch whose condition holds; a condition that is not defined fails.
Branch(s, j, i) ==
    LET stops(b) == \/ s[b].op = "else"
                    \/ s[b].arg \in {"true", "undefined"}
                    \/ s[b].arg = "second" /\ i = 2
        found == {b \in Branches(s, j) : stops(b)}
        b == Min(found)
        end == Min({e \in Branches(s, j) \cup {End(s, j)} : e > b})
    IN IF found = {} THEN Result("ok", <<>>)
       ELSE IF s[b].arg = "undefined" THEN Result("fail", <<>>)
       ELSE Does(s, b + 1, end - 1, i)

Rounds(s, j, i) ==
    IF i > MCTimes[s[j].arg] THEN Result("ok", <<>>)
    ELSE LET r == Does(s, j + 1, End(s, j) - 1, i)
             q == Rounds(s, j, i + 1)
         IN CASE r.end = "break" -> Result("ok", r.trace)
              [] r.end = "ok" -> Result(q.end, r.trace \o q.trace)
              [] OTHER -> r

\* The lines are executed that the script says, as often and in the order it
\* says: skipping, collecting and breaking by lines comes to the same.
MeansWhatItSays ==
    files = <<>> /\ ~undefined => trace = Does(script.main, 1, Len(script.main), 0).trace

-----------------------------------------------------------------------------
(* Scripts of increasing depth *)

L(op, arg) == <<[op |-> op, arg |-> arg]>>
do == L("do", "")

Plain(c, b) == L("if", c) \o b \o L("endif", "")
WithElse(c, b, e) == Plain(c, b \o L("else", "") \o e)
WithElseif(c, b, d, e) == WithElse(c, b \o L("elseif", d) \o e, b)
For(n, b) == L("foreach", n) \o b \o L("endfor", "")

\* A command; a command and another one, and blocks behind a break.
Simple == {do, L("parse", "sub"), L("break", ""), L("fail", "")}
Short == Simple \cup {x \o do : x \in Simple}
         \cup {L("break", "") \o b : b \in {Plain("undefined", do), For("twice", do)}}

Ifs(blocks) ==
    {Plain(c, b) : c \in {"true", "second", "undefined"}, b \in blocks}
    \cup {WithElse(c, b, do) : c \in {"false", "second"}, b \in blocks}
    \cup {WithElse("true", do, b) : b \in blocks}
    \cup {WithElseif(c, do, d, b) : c \in {"true", "false"}, d \in {"second", "undefined"}, b \in blocks}
Fors(blocks) == {For(n, b) : n \in {"none", "twice"}, b \in blocks}

Follow(blocks) == {b \o do : b \in blocks}
Deeper(blocks) == Follow(Ifs(blocks) \cup Fors(blocks))

\* A loop around two levels of blocks, an if around a loop, or around what
\* ends the file, or a stray endfor.
Mains == Follow(Fors(Deeper(Deeper(Short)) \cup Deeper(Short) \cup Short)
                \cup Ifs(Follow(Fors(Short)))
                \cup Ifs({L(op, "") : op \in {"return", "fail", "break"}})
                \cup {L("endfor", "")})

\* The lines of a file, numbered from n.
Numbered(lines, n) ==
    [k \in DOMAIN lines |-> [op |-> lines[k].op, arg |-> lines[k].arg, at |-> n + k]]

MCScripts ==
    {[main |-> Numbered(b, 0), sub |-> Numbered(do \o L("return", "") \o do, 100)] : b \in Mains}
=============================================================================
