------------------------- MODULE ScriptInput_proofs -------------------------
(***************************************************************************)
(* Proofs about ScriptInput, for any commands, lengths and bounds.         *)
(***************************************************************************)
EXTENDS ScriptInput, FiniteSetTheorems, TLAPS

\* One thread at a time has the access; before the first line nobody has it.
AccessInv ==
    IF first_line
    THEN rpc = "next" /\ sem_stdin = 0 /\ gpc # "look" /\ given = 0
    ELSE \/ sem_stdin = 1 /\ rpc \notin {"copy", "post"} /\ gpc # "look"
         \/ sem_stdin = 0 /\ rpc \in {"copy", "post"} /\ gpc # "look"
         \/ sem_stdin = 0 /\ rpc \notin {"copy", "post"} /\ gpc = "look"

\* A line that was handed over is either still to be taken, or executed, or
\* the reader has been told that it was executed.
WorkInv ==
    /\ input_ready => rpc \in {"post", "work"} /\ sem_work = 0 /\ ~InLine
    /\ InLine => rpc = "work" /\ sem_work = 0
    /\ sem_work > 0 => rpc = "work"
    /\ rpc = "post" => input_ready
    /\ rpc = "work" => input_ready \/ InLine \/ sem_work > 0
    /\ gpc \in {"lock", "look"} => ~timer
    /\ gpc # "loop" \/ timer => ~InLine

OneLine == \A i, j \in DOMAIN stack : IsLine(i) /\ IsLine(j) => i = j

\* The line handed over is the one the reader has, the next one in the count, until
\* the program ends.
CountInv ==
    /\ line.n = given
    /\ input_ready => parse_line = line
    /\ gpc # "exit" =>
         parsed = IF rpc \in {"lock", "copy", "post"} \/ input_ready THEN given - 1 ELSE given

IInv == TypeOK /\ AccessInv /\ WorkInv /\ OneLine /\ CountInv

-----------------------------------------------------------------------------
(* Stacks of frames *)

HasLineFrame(s) == \E i \in DOMAIN s : s[i].kind = "line"
OneLineFrame(s) == \A i, j \in DOMAIN s : s[i].kind = "line" /\ s[j].kind = "line" => i = j

\* What a frame in front changes.
LEMMA Pushed ==
    ASSUME NEW s \in Seq(Frame), NEW f \in Frame
    PROVE  /\ <<f>> \o s \in Seq(Frame)
           /\ HasLineFrame(<<f>> \o s) <=> f.kind = "line" \/ HasLineFrame(s)
           /\ OneLineFrame(s) /\ ~(f.kind = "line" /\ HasLineFrame(s)) => OneLineFrame(<<f>> \o s)
<1> DEFINE t == <<f>> \o s
<1>1. t \in Seq(Frame) /\ DOMAIN s = 1..Len(s) /\ DOMAIN t = 1..(Len(s) + 1) /\ Len(s) \in Nat
  OBVIOUS
<1>2. t[1] = f
  OBVIOUS
<1>3. \A i \in 1..Len(s) : t[i + 1] = s[i]
  OBVIOUS
<1>4. \A i \in DOMAIN t : i = 1 \/ (i - 1 \in DOMAIN s /\ t[i] = s[i - 1])
  BY <1>1, <1>3
<1> HIDE DEF t
<1>5. HasLineFrame(t) <=> f.kind = "line" \/ HasLineFrame(s)
  <2>1. ASSUME HasLineFrame(t) PROVE f.kind = "line" \/ HasLineFrame(s)
    BY <2>1, <1>2, <1>4 DEF HasLineFrame
  <2>2. ASSUME f.kind = "line" PROVE HasLineFrame(t)
    BY <2>2, <1>1, <1>2 DEF HasLineFrame
  <2>3. ASSUME HasLineFrame(s) PROVE HasLineFrame(t)
    <3>1. PICK i \in DOMAIN s : s[i].kind = "line"
      BY <2>3 DEF HasLineFrame
    <3>2. i + 1 \in DOMAIN t /\ t[i + 1].kind = "line"
      BY <3>1, <1>1, <1>3
    <3> QED BY <3>2 DEF HasLineFrame
  <2> QED BY <2>1, <2>2, <2>3
<1>6. OneLineFrame(s) /\ ~(f.kind = "line" /\ HasLineFrame(s)) => OneLineFrame(t)
  BY <1>1, <1>2, <1>4 DEF OneLineFrame, HasLineFrame
<1> QED BY <1>1, <1>5, <1>6 DEF t

\* What the end of the first frame changes.
LEMMA Popped ==
    ASSUME NEW s \in Seq(Frame), s # <<>>
    PROVE  /\ Tail(s) \in Seq(Frame) /\ Head(s) \in Frame
           /\ HasLineFrame(s) <=> Head(s).kind = "line" \/ HasLineFrame(Tail(s))
           /\ OneLineFrame(s) => /\ OneLineFrame(Tail(s))
                                 /\ ~(Head(s).kind = "line" /\ HasLineFrame(Tail(s)))
<1> DEFINE t == Tail(s)
<1>1. t \in Seq(Frame) /\ DOMAIN s = 1..Len(s) /\ DOMAIN t = 1..(Len(s) - 1) /\ Len(s) \in Nat \ {0}
  OBVIOUS
<1>2. Head(s) = s[1] /\ s[1] \in Frame
  BY <1>1
<1>3. \A i \in DOMAIN t : t[i] = s[i + 1] /\ i + 1 \in DOMAIN s
  BY <1>1
<1>4. \A i \in DOMAIN s : i = 1 \/ (i - 1 \in DOMAIN t /\ t[i - 1] = s[i])
  BY <1>1, <1>3
<1> HIDE DEF t
<1>5. HasLineFrame(s) <=> s[1].kind = "line" \/ HasLineFrame(t)
  <2>1. ASSUME HasLineFrame(s) PROVE s[1].kind = "line" \/ HasLineFrame(t)
    BY <2>1, <1>4 DEF HasLineFrame
  <2>2. ASSUME s[1].kind = "line" PROVE HasLineFrame(s)
    BY <2>2, <1>1 DEF HasLineFrame
  <2>3. ASSUME HasLineFrame(t) PROVE HasLineFrame(s)
    BY <2>3, <1>3 DEF HasLineFrame
  <2> QED BY <2>1, <2>2, <2>3
<1>6. ASSUME OneLineFrame(s)
      PROVE  OneLineFrame(t) /\ ~(s[1].kind = "line" /\ HasLineFrame(t))
  <2>1. OneLineFrame(t)
    BY <1>1, <1>3, <1>6 DEF OneLineFrame
  <2>2. ASSUME s[1].kind = "line", HasLineFrame(t) PROVE FALSE
    <3>1. PICK i \in DOMAIN t : t[i].kind = "line"
      BY <2>2 DEF HasLineFrame
    <3>2. s[i + 1].kind = "line" /\ i + 1 \in DOMAIN s /\ i + 1 # 1 /\ 1 \in DOMAIN s
      BY <3>1, <1>1, <1>3
    <3> QED BY <3>2, <2>2, <1>6 DEF OneLineFrame
  <2> QED BY <2>1, <2>2
<1> QED BY <1>1, <1>2, <1>5, <1>6 DEF t

LEMMA ScriptsAreScripts == \A s \in Scripts : s \in Script
  BY DEF Scripts, Script, BoundedSeq, SeqOf

-----------------------------------------------------------------------------
(* The invariant *)

LEMMA InitInv == Init => IInv
<1> SUFFICES ASSUME Init PROVE IInv
  OBVIOUS
<1>1. TypeOK
  <2>1. [n |-> 0, script |-> <<>>] \in Line
    BY DEF Line, Script
  <2>2. startup \in Nat
    BY BoundsAssumption DEF Init
  <2>3. stack \in Seq(Frame) /\ queue \in Seq({"event", "continue"})
    BY DEF Init
  <2> QED BY <2>1, <2>2, <2>3 DEF Init, TypeOK
<1>2. DOMAIN stack = {}
  BY DEF Init
<1>3. ~InLine /\ OneLine
  BY <1>2 DEF InLine, OneLine
<1> QED BY <1>1, <1>3 DEF Init, IInv, AccessInv, WorkInv, CountInv

\* A new line of the reader.
LEMMA HasLineInv ==
    ASSUME IInv, rpc \in {"next", "getline"}, NEW s \in Script, HasLine(s), startup' \in Nat,
           UNCHANGED <<handed, sems, gui, xt>>
    PROVE  IInv'
<1>2. InLine' = InLine /\ OneLine' = OneLine
  BY DEF InLine, OneLine, IsLine, gui
<1>3. line' \in Line /\ given' \in Nat /\ line'.n = given' /\ given' = given + 1
  BY DEF HasLine, IInv, TypeOK, Line
<1>4. TypeOK'
  BY <1>3 DEF HasLine, IInv, TypeOK, handed, sems, gui, xt
<1>5. AccessInv' /\ WorkInv'
  BY <1>2 DEF HasLine, IInv, TypeOK, AccessInv, WorkInv, handed, sems, gui, xt
<1>6. CountInv'
  BY <1>3 DEF HasLine, IInv, TypeOK, WorkInv, CountInv, handed, sems, gui, xt
<1> QED BY <1>2, <1>4, <1>5, <1>6 DEF IInv

\* A step that leaves the stack as it is.
LEMMA SameStack == UNCHANGED stack => InLine' = InLine /\ OneLine' = OneLine
  BY DEF InLine, OneLine, IsLine

LEMMA ReaderInv == IInv /\ (Give \/ GetLine \/ WaitAccess) => IInv'
<1> SUFFICES ASSUME IInv, Give \/ GetLine \/ WaitAccess PROVE IInv'
  OBVIOUS
<1> USE DEF handed, sems, gui, xt
<1>1. CASE Startup
  BY <1>1, ScriptsAreScripts, HasLineInv DEF Startup, IInv, TypeOK
<1>2. CASE FirstEmpty
  <2>1. <<>> \in Script
    BY DEF Script
  <2> QED BY <1>2, <2>1, HasLineInv DEF FirstEmpty, IInv, TypeOK
<1>3. CASE Prompt
  BY <1>3, SameStack DEF Prompt, IInv, TypeOK, AccessInv, WorkInv, CountInv
<1>4. CASE GetLine
  BY <1>4, ScriptsAreScripts, HasLineInv DEF GetLine, IInv, TypeOK
<1>5. CASE WaitAccess
  BY <1>5, SameStack DEF WaitAccess, IInv, TypeOK, AccessInv, WorkInv, CountInv
<1>6. CASE CopyLine
  BY <1>6, SameStack DEF CopyLine, IInv, TypeOK, AccessInv, WorkInv, CountInv
<1>7. CASE PostLine
  BY <1>7, SameStack DEF PostLine, IInv, TypeOK, AccessInv, WorkInv, CountInv
<1>8. CASE WaitWork
  BY <1>8, SameStack DEF WaitWork, IInv, TypeOK, AccessInv, WorkInv, CountInv
<1> QED BY <1>1, <1>2, <1>3, <1>4, <1>5, <1>6, <1>7, <1>8 DEF Give

\* No line is taken while one is executed: its timer is set at the end.
LEMMA TakeInv == IInv /\ (Poll \/ Take) => IInv'
<1> SUFFICES ASSUME IInv, Poll \/ Take PROVE IInv'
  OBVIOUS
<1> USE DEF reader, handed, sems, gui, xt
<1>1. CASE Poll
  <2>1. gpc = "loop"
    BY <1>1 DEF Poll, InLoop
  <2>2. TypeOK' /\ AccessInv' /\ CountInv'
    BY <1>1, <2>1 DEF Poll, IInv, TypeOK, AccessInv, CountInv
  <2>3. ~InLine /\ InLine' = InLine /\ OneLine' = OneLine
    BY <1>1, SameStack DEF Poll, IInv, WorkInv
  <2>4. WorkInv'
    BY <1>1, <2>3 DEF Poll, IInv, WorkInv
  <2> QED BY <2>2, <2>3, <2>4 DEF IInv
<1>2. CASE PollAccess
  BY <1>2, SameStack DEF PollAccess, IInv, TypeOK, AccessInv, WorkInv, CountInv
<1>3. CASE NotReady
  BY <1>3, SameStack DEF NotReady, IInv, TypeOK, AccessInv, WorkInv, CountInv
<1>4. CASE TakeLine
  <2> DEFINE f == [kind |-> "line", script |-> parse_line.script]
  <2>1. f \in Frame /\ stack' = <<f>> \o stack /\ stack \in Seq(Frame)
    BY <1>4 DEF TakeLine, IInv, TypeOK, Frame, Line, Frames
  <2>2. ~HasLineFrame(stack) /\ OneLineFrame(stack)
    BY <1>4 DEF IInv, WorkInv, InLine, IsLine, TakeLine, HasLineFrame, OneLine, OneLineFrame
  <2>3. stack' \in Seq(Frame) /\ HasLineFrame(stack') /\ OneLineFrame(stack')
    BY <2>1, <2>2, Pushed
  <2>4. InLine' /\ OneLine'
    BY <2>3 DEF InLine, OneLine, IsLine, HasLineFrame, OneLineFrame
  <2>5. gpc = "look" /\ input_ready /\ sem_stdin = 0 /\ ~first_line /\ ~timer
        /\ rpc = "work" /\ sem_work = 0
    BY <1>4 DEF TakeLine, IInv, TypeOK, AccessInv, WorkInv
  <2>6. TypeOK'
    <3>1. parsed' = parse_line.n /\ parse_line.n \in Nat
      BY <1>4 DEF TakeLine, IInv, TypeOK, Line
    <3>2. sem_stdin' = 1 /\ gpc' = "loop" /\ input_ready' = FALSE
          /\ UNCHANGED <<reader, parse_line, sem_work, timer, xt>>
      BY <1>4, <2>5 DEF TakeLine
    <3> QED BY <2>3, <3>1, <3>2 DEF IInv, TypeOK
  <2>7. AccessInv' /\ WorkInv'
    <3>1. /\ first_line' = FALSE /\ sem_stdin' = 1 /\ rpc' = "work" /\ gpc' = "loop"
          /\ input_ready' = FALSE /\ timer' = FALSE /\ sem_work' = 0
      BY <1>4, <2>5 DEF TakeLine, IInv, TypeOK
    <3> QED BY <2>4, <3>1 DEF AccessInv, WorkInv
  <2>8. CountInv'
    <3>1. line' = line /\ given' = given /\ rpc' = rpc /\ input_ready' = FALSE
          /\ parsed' = parse_line.n
      BY <1>4 DEF TakeLine
    <3>2. line.n = given /\ parse_line = line
      BY <2>5 DEF IInv, CountInv
    <3> QED BY <3>1, <3>2, <2>5 DEF CountInv
  <2> QED BY <2>4, <2>6, <2>7, <2>8 DEF IInv
<1> QED BY <1>1, <1>2, <1>3, <1>4 DEF Take

LEMMA StackOK == IInv => stack \in Seq(Frame) /\ OneLineFrame(stack)
  BY DEF IInv, TypeOK, OneLine, IsLine, OneLineFrame

\* The program ends between two lines.
LEMMA StopInv == IInv /\ (StopAtLine \/ StopAtEvents) => IInv'
<1> SUFFICES ASSUME IInv, StopAtLine \/ StopAtEvents PROVE IInv'
  OBVIOUS
<1> USE DEF reader, handed, sems, gui, xt
<1>1. CASE StopAtLine
  <2>1. /\ sem_stdin = 0 /\ rpc = "work" /\ sem_work = 0 /\ ~first_line /\ ~InLine
        /\ gpc = "look" /\ input_ready
    BY <1>1 DEF StopAtLine, IInv, TypeOK, AccessInv, WorkInv
  <2>2. /\ sem_stdin' = 1 /\ sem_work' = 1 /\ gpc' = "exit" /\ input_ready' = FALSE
        /\ UNCHANGED <<reader, parse_line, stack, timer, parsed, xt>>
    BY <1>1, <2>1 DEF StopAtLine
  <2>3. TypeOK'
    BY <2>2 DEF IInv, TypeOK
  <2>4. AccessInv' /\ WorkInv' /\ CountInv' /\ OneLine'
    BY <2>1, <2>2, SameStack DEF IInv, AccessInv, WorkInv, CountInv
  <2> QED BY <2>3, <2>4 DEF IInv
<1>2. CASE StopAtEvents
  <2>1. stack = <<>>
    <3>1. stack # <<>> => Head(stack).kind # "main"
      <4>1. stack # <<>> => Head(stack) \in Frame
        BY StackOK, Popped
      <4> QED BY <4>1 DEF Frame
    <3> QED BY <1>2, <3>1 DEF StopAtEvents, Top
  <2>2. ~InLine
    BY <2>1 DEF InLine
  <2> QED BY <1>2, <2>2, SameStack DEF StopAtEvents, IInv, TypeOK, AccessInv, WorkInv, CountInv
<1> QED BY <1>1, <1>2

\* A stack that differs from the one that there is, but not in its lines.
SameLine(t) == /\ t \in Seq(Frame) /\ OneLineFrame(t)
               /\ HasLineFrame(t) <=> HasLineFrame(stack)

\* A step of the GUI thread that neither takes nor ends a line.
LEMMA FrameStep ==
    ASSUME IInv, NEW t, SameLine(t), stack' = t,
           UNCHANGED <<reader, handed, sems, gpc, timer, parsed>>,
           queue' \in Seq({"event", "continue"}), waits' \in Nat, lost' \in BOOLEAN,
           events' \in Nat
    PROVE  IInv'
<1>1. (InLine' <=> InLine) /\ OneLine'
  BY DEF InLine, OneLine, IsLine, HasLineFrame, OneLineFrame, SameLine
<1>2. TypeOK'
  BY DEF IInv, TypeOK, SameLine, reader, handed, sems
<1> QED BY <1>1, <1>2 DEF IInv, AccessInv, WorkInv, CountInv, reader, handed, sems

\* The frame of a script that goes on stays.
LEMMA GoOnStep ==
    ASSUME IInv, stack # <<>>, NEW r \in Script
    PROVE  SameLine(GoOnWith(r))
<1> DEFINE f == [Top EXCEPT !.script = r]
<1>1. Tail(stack) \in Seq(Frame) /\ Head(stack) \in Frame
  BY StackOK, Popped
<1>2. f \in Frame /\ f.kind = Head(stack).kind
  BY <1>1 DEF Top, Frame
<1>3. GoOnWith(r) = <<f>> \o Tail(stack)
  BY DEF GoOnWith
<1> HIDE DEF f
<1>4. stack \in Seq(Frame) /\ OneLineFrame(stack)
  BY StackOK
<1>5. /\ HasLineFrame(stack) <=> Head(stack).kind = "line" \/ HasLineFrame(Tail(stack))
      /\ OneLineFrame(Tail(stack)) /\ ~(Head(stack).kind = "line" /\ HasLineFrame(Tail(stack)))
  BY <1>4, Popped
<1>6. /\ <<f>> \o Tail(stack) \in Seq(Frame)
      /\ HasLineFrame(<<f>> \o Tail(stack)) <=> f.kind = "line" \/ HasLineFrame(Tail(stack))
      /\ OneLineFrame(<<f>> \o Tail(stack))
  BY <1>1, <1>2, <1>5, Pushed
<1> QED BY <1>2, <1>3, <1>5, <1>6 DEF SameLine

\* A frame comes that is not one of a line.
LEMMA CallStep ==
    ASSUME NEW s, SameLine(s), NEW k \in {"wait", "drain", "next", "callback"}, NEW r \in Script
    PROVE  SameLine(Frames(k, r) \o s)
<1> DEFINE g == [kind |-> k, script |-> r]
<1>1. g \in Frame /\ g.kind # "line" /\ Frames(k, r) = <<g>>
  BY DEF Frame, Frames
<1> HIDE DEF g
<1> QED BY <1>1, Pushed DEF SameLine

\* A frame ends that is not one of a line.
LEMMA ReturnStep ==
    ASSUME IInv, stack # <<>>, Head(stack).kind # "line"
    PROVE  SameLine(Tail(stack))
  BY StackOK, Popped DEF SameLine

\* The frame of a loop changes its kind.
LEMMA ChangeStep ==
    ASSUME IInv, stack # <<>>, Head(stack).kind # "line", NEW k \in {"drain", "next"}
    PROVE  SameLine(Frames(k, <<>>) \o Tail(stack))
<1>1. SameLine(Tail(stack))
  BY ReturnStep
<1>2. <<>> \in Script
  BY DEF Script
<1> QED BY <1>1, <1>2, CallStep

LEMMA DispatchedStep == ASSUME IInv PROVE SameLine(Dispatched)
<1>1. SameLine(stack)
  BY StackOK DEF SameLine
<1>2. Top.kind = "next" => stack # <<>> /\ Head(stack).kind # "line"
  BY DEF Top
<1> QED BY <1>1, <1>2, ChangeStep DEF Dispatched

-----------------------------------------------------------------------------
(* The steps of the GUI thread *)

\* The execution of a script changes the stack, and at the end of a line it
\* lets the reader and the timer go on.
LEMMA ExecuteInv == IInv /\ Execute => IInv'
<1> SUFFICES ASSUME IInv, Execute PROVE IInv'
  OBVIOUS
<1>1. Executing /\ stack # <<>> /\ Top = Head(stack)
  BY DEF Execute, Set, Fail, Component, Wait, End, NextIs, Executing, Top
<1>2. Top.script \in Script
  BY <1>1, StackOK, Popped DEF Frame
<1>3. <<>> \in Script /\ (Top.script # <<>> => Tail(Top.script) \in Script)
  BY <1>2 DEF Script
<1>4. queue \in Seq({"event", "continue"}) /\ waits \in Nat /\ lost \in BOOLEAN /\ events \in Nat
  BY DEF IInv, TypeOK
<1>5. CASE Set
  <2>1. SameLine(GoOnWith(Tail(Top.script)))
    BY <1>1, <1>3, <1>5, GoOnStep DEF Set, NextIs
  <2> QED BY <1>4, <1>5, <2>1, FrameStep DEF Set, xt
<1>6. CASE Fail
  <2>1. SameLine(GoOnWith(<<>>))
    BY <1>1, <1>3, GoOnStep
  <2> QED BY <1>4, <1>6, <2>1, FrameStep DEF Fail, xt
<1>7. CASE Component
  <2>1. SameLine(GoOnWith(Tail(Top.script)))
    BY <1>1, <1>3, <1>7, GoOnStep DEF Component, NextIs
  <2>2. SameLine(Frames("drain", <<>>) \o GoOnWith(Tail(Top.script)))
    BY <1>3, <2>1, CallStep
  <2> QED BY <1>4, <1>7, <2>2, FrameStep DEF Component, xt
<1>8. CASE Wait
  <2>1. SameLine(GoOnWith(Tail(Top.script)))
    BY <1>1, <1>3, <1>8, GoOnStep DEF Wait, NextIs
  <2>2. SameLine(Frames("wait", <<>>) \o GoOnWith(Tail(Top.script)))
    BY <1>3, <2>1, CallStep
  <2>3. waits' \in Nat /\ UNCHANGED <<queue, lost, events>>
    BY <1>4, <1>8 DEF Wait
  <2> QED BY <1>4, <1>8, <2>2, <2>3, FrameStep DEF Wait
<1>9. CASE End /\ Top.kind # "line"
  <2>1. SameLine(Tail(stack))
    BY <1>1, <1>9, ReturnStep
  <2> QED BY <1>4, <1>9, <2>1, FrameStep DEF End, sems, xt
<1>10. CASE End /\ Top.kind = "line"
  <2>1. InLine
    BY <1>1, <1>10, StackOK, Popped DEF InLine, IsLine, HasLineFrame
  <2>2. stack' \in Seq(Frame) /\ ~HasLineFrame(stack') /\ OneLineFrame(stack')
    BY <1>1, <1>10, StackOK, Popped DEF End
  <2>3. ~InLine' /\ OneLine'
    BY <2>2 DEF InLine, OneLine, IsLine, HasLineFrame, OneLineFrame
  <2>4. rpc = "work" /\ sem_work = 0 /\ ~input_ready /\ gpc = "loop"
    BY <1>1, <2>1 DEF IInv, WorkInv, Executing
  <2>5. /\ UNCHANGED <<reader, handed, sem_stdin, gpc, parsed, xt>>
        /\ timer' = TRUE /\ sem_work' = 1
    BY <1>10, <2>4 DEF End
  <2>6. TypeOK'
    BY <2>2, <2>5 DEF IInv, TypeOK, reader, handed, xt
  <2>7. AccessInv' /\ CountInv'
    BY <2>5 DEF IInv, AccessInv, CountInv, reader, handed
  <2>8. WorkInv'
    BY <2>3, <2>4, <2>5 DEF WorkInv, reader, handed
  <2> QED BY <2>3, <2>6, <2>7, <2>8 DEF IInv
<1> QED BY <1>5, <1>6, <1>7, <1>8, <1>9, <1>10 DEF Execute

\* Events change the queue, and the stack by frames that are not of a line.
LEMMA EventInv == IInv /\ (Event \/ Continue \/ Dispatch) => IInv'
<1> SUFFICES ASSUME IInv, Event \/ Continue \/ Dispatch PROVE IInv'
  OBVIOUS
<1> DEFINE Q == Seq({"event", "continue"})
<1>1. queue \in Q /\ waits \in Nat /\ lost \in BOOLEAN /\ events \in Nat /\ SameLine(stack)
  BY StackOK DEF IInv, TypeOK, SameLine
<1>2. queue # <<>> => Tail(queue) \in Q
  BY <1>1
<1>3. CASE Event
  <2>1. queue' \in Q
    BY <1>1, <1>3 DEF Event
  <2> QED BY <1>1, <1>3, <2>1, FrameStep DEF Event, gui
<1>4. CASE Continue
  <2>1. queue' \in Q /\ waits' \in Nat
    BY <1>1, <1>4 DEF Continue
  <2> QED BY <1>1, <1>4, <2>1, FrameStep DEF Continue, gui
<1>5. CASE Callback
  <2>1. PICK s \in Script : stack' = Frames("callback", s) \o Dispatched
    BY <1>5, ScriptsAreScripts DEF Callback
  <2>2. SameLine(Frames("callback", s) \o Dispatched)
    BY DispatchedStep, CallStep
  <2> QED BY <1>1, <1>2, <1>5, <2>1, <2>2, FrameStep DEF Callback
<1>6. CASE WaitEnds
  <2>1. SameLine(Tail(stack))
    BY <1>6, ReturnStep DEF WaitEnds, Top
  <2> QED BY <1>1, <1>2, <1>6, <2>1, FrameStep DEF WaitEnds
<1>7. CASE Swallow
  BY <1>1, <1>2, <1>7, DispatchedStep, FrameStep DEF Swallow
<1>8. CASE DrainEnds
  <2>1. SameLine(Tail(stack))
    BY <1>8, ReturnStep DEF DrainEnds, Top
  <2> QED BY <1>1, <1>8, <2>1, FrameStep DEF DrainEnds, xt
<1>9. CASE NextEvent
  <2>1. SameLine(Frames("next", <<>>) \o Tail(stack))
    BY <1>9, ChangeStep DEF NextEvent, Top
  <2> QED BY <1>1, <1>9, <2>1, FrameStep DEF NextEvent, xt
<1> QED BY <1>3, <1>4, <1>5, <1>6, <1>7, <1>8, <1>9 DEF Dispatch

LEMMA NextInv == IInv /\ [Next]_vars => IInv'
<1> SUFFICES ASSUME IInv, [Next]_vars PROVE IInv'
  OBVIOUS
<1>1. CASE Next
  BY <1>1, ReaderInv, TakeInv, StopInv, ExecuteInv, EventInv DEF Next
<1>2. CASE UNCHANGED vars
  BY <1>2, SameStack DEF vars, reader, handed, sems, gui, xt, IInv, TypeOK, AccessInv, WorkInv, CountInv
<1> QED BY <1>1, <1>2

THEOREM Invariance == Spec => []IInv
<1>1. Init => IInv
  BY InitInv
<1>2. IInv /\ [Next]_vars => IInv'
  BY NextInv
<1> QED BY <1>1, <1>2, PTL DEF Spec

-----------------------------------------------------------------------------
(* What follows from it *)

\* Every variable has its type: in particular the semaphores are never posted
\* twice without a wait in between.
THEOREM TypeCorrect == Spec => []TypeOK
<1>1. IInv => TypeOK
  BY DEF IInv
<1> QED BY <1>1, Invariance, PTL

\* The reader fills parse_line only when the GUI thread neither looks at it nor
\* has a line to take from it, lines do not nest, and the reader is parked in its
\* sem_wait(&sem_work) while one is executed, through all the event loops inside
\* it: the two semaphores of readInput and parseCmdCallback are enough.
THEOREM HandOverIsExclusive == Spec => []HandOver
<1>1. IInv => HandOver
  BY DEF IInv, AccessInv, WorkInv, OneLine, HandOver
<1> QED BY <1>1, Invariance, PTL

\* The GUI thread never waits for its access while the reader waits for input.
THEOREM GuiGoesOn == Spec => []GuiNotBlocked
<1>1. IInv => GuiNotBlocked
  BY DEF IInv, TypeOK, AccessInv, GuiNotBlocked
<1> QED BY <1>1, Invariance, PTL

\* Lines are executed once each, in the order of input.
THEOREM InputOrder == Spec => LinesInOrder
<1>1. IInv /\ [Next]_vars => [parsed' # parsed \/ TakeLine => parsed' = parsed + 1]_vars
  <2> SUFFICES ASSUME IInv, Next PROVE parsed' # parsed \/ TakeLine => parsed' = parsed + 1
    OBVIOUS
  <2>1. CASE TakeLine
    <3>1. parsed' = parse_line.n /\ input_ready
      BY <2>1 DEF TakeLine
    <3>2. parse_line.n = given /\ parsed = given - 1 /\ given \in Nat
      BY <2>1, <3>1 DEF TakeLine, IInv, TypeOK, CountInv
    <3> QED BY <3>1, <3>2
  <2>2. CASE ~TakeLine
    <3>1. parsed' = parsed
      BY <2>2 DEF Next, Give, Take, Execute, Dispatch, Startup, FirstEmpty, Prompt, GetLine,
                  WaitAccess, CopyLine, PostLine, WaitWork, Poll, PollAccess, NotReady, Set,
                  Fail, Component, Wait, End, Event, Continue, Callback, WaitEnds, Swallow,
                  NextEvent, DrainEnds, StopAtLine, StopAtEvents, gui
    <3> QED BY <2>2, <3>1
  <2> QED BY <2>1, <2>2
<1> QED BY <1>1, Invariance, PTL DEF Spec, LinesInOrder

-----------------------------------------------------------------------------
(* Waits and what will end them *)

\* How many elements of s are in T.
Places(s, T) == {i \in DOMAIN s : s[i] \in T}
Number(s, T) == Cardinality(Places(s, T))

LEMMA NumberType ==
    ASSUME NEW S, NEW T, NEW s \in Seq(S)
    PROVE  IsFiniteSet(Places(s, T)) /\ Number(s, T) \in Nat
<1>1. Places(s, T) \subseteq 1..Len(s) /\ Len(s) \in Nat
  BY DEF Places
<1>2. IsFiniteSet(1..Len(s))
  BY <1>1, FS_Interval
<1>3. IsFiniteSet(Places(s, T))
  BY <1>1, <1>2, FS_Subset
<1> QED
  BY <1>3, FS_CardinalityType DEF Number

\* An element in front moves the others by one place.
LEMMA NumberPushed ==
    ASSUME NEW S, NEW T, NEW s \in Seq(S), NEW f \in S
    PROVE  Number(<<f>> \o s, T) = Number(s, T) + IF f \in T THEN 1 ELSE 0
<1>1. PICK t : t = <<f>> \o s
  OBVIOUS
<1>2. PICK n \in Nat : n = Len(s)
  OBVIOUS
<1>3. DOMAIN s = 1..n /\ DOMAIN t = 1..(n + 1) /\ t[1] = f /\ \A i \in 1..n : t[i + 1] = s[i]
  BY <1>1, <1>2
<1>4. PICK P, Q : P = Places(s, T) /\ Q = {i \in 2..(n + 1) : t[i] \in T}
  OBVIOUS
<1>5. IsFiniteSet(P) /\ Cardinality(P) = Number(s, T) /\ Number(s, T) \in Nat
  BY <1>4, NumberType DEF Number
<1>6. IsFiniteSet(Q) /\ Cardinality(Q) = Cardinality(P)
  <2>1. P = {i \in 1..n : s[i] \in T}
    BY <1>3, <1>4 DEF Places
  <2>2. PICK F : F = [i \in P |-> i + 1]
    OBVIOUS
  <2>3. ASSUME NEW i \in P PROVE i + 1 \in Q /\ i \in Int
    BY <1>3, <1>4, <2>1
  <2>4. ASSUME NEW j \in Q PROVE j - 1 \in P /\ j = (j - 1) + 1
    <3>1. j - 1 \in 1..n /\ j = (j - 1) + 1 /\ t[j] \in T
      BY <1>4
    <3> QED
      BY <1>3, <2>1, <3>1
  <2>5. F \in [P -> Q]
    BY <2>2, <2>3
  <2>6. ASSUME NEW i \in P, NEW j \in P, F[i] = F[j] PROVE i = j
    BY <2>2, <2>3, <2>6
  <2>7. \A j \in Q : \E i \in P : F[i] = j
    BY <2>2, <2>4
  <2>8. F \in Bijection(P, Q)
    BY <2>5, <2>6, <2>7 DEF Bijection, Injection, Surjection, IsInjective
  <2>9. ExistsBijection(P, Q)
    BY <2>8 DEF ExistsBijection
  <2> QED
    BY <1>5, <2>9, FS_Bijection
<1>7. Places(t, T) = IF f \in T THEN Q \cup {1} ELSE Q
  BY <1>2, <1>3, <1>4 DEF Places
<1>8. Cardinality(Q \cup {1}) = Cardinality(Q) + 1
  <2>1. 1 \notin Q
    BY <1>4
  <2> QED
    BY <1>6, <2>1, FS_AddElement
<1> QED
  BY <1>1, <1>5, <1>6, <1>7, <1>8 DEF Number

\* The first element goes.
LEMMA NumberPopped ==
    ASSUME NEW S, NEW T, NEW s \in Seq(S), s # <<>>
    PROVE  Number(s, T) = Number(Tail(s), T) + IF Head(s) \in T THEN 1 ELSE 0
<1>1. Tail(s) \in Seq(S) /\ Head(s) \in S
  OBVIOUS
<1>2. PICK t \in Seq(S), f \in S : t = Tail(s) /\ f = Head(s)
  BY <1>1
<1>3. s = <<f>> \o t
  BY <1>2
<1>4. Number(<<f>> \o t, T) = Number(t, T) + IF f \in T THEN 1 ELSE 0
  BY NumberPushed
<1> QED
  BY <1>2, <1>3, <1>4

\* An element behind the others.
LEMMA NumberAppended ==
    ASSUME NEW S, NEW T, NEW s \in Seq(S), NEW f \in S, f \notin T
    PROVE  Number(Append(s, f), T) = Number(s, T)
<1>1. Places(Append(s, f), T) = Places(s, T)
  BY DEF Places
<1> QED
  BY <1>1 DEF Number

WaitFrames == {f \in Frame : f.kind = "wait"}

\* WaitsMatch, in these terms.
LEMMA WaitsCounted ==
    ASSUME TypeOK
    PROVE  /\ Cardinality(Waiting) = Number(stack, WaitFrames)
           /\ Cardinality(Dummies) = Number(queue, {"continue"})
           /\ Number(stack, WaitFrames) \in Nat /\ Number(queue, {"continue"}) \in Nat
           /\ waits \in Nat
<1>1. stack \in Seq(Frame) /\ queue \in Seq({"event", "continue"}) /\ waits \in Nat
  BY DEF TypeOK
<1>2. Waiting = Places(stack, WaitFrames)
  BY <1>1 DEF Waiting, Places, WaitFrames
<1>3. Dummies = Places(queue, {"continue"})
  BY DEF Dummies, Places
<1> QED
  BY <1>1, <1>2, <1>3, NumberType DEF Number

Matched == ~lost => waits + Number(queue, {"continue"}) = Number(stack, WaitFrames)

\* A script that goes on is no wait, before or after.
LEMMA GoOnNumber ==
    ASSUME TypeOK, stack # <<>>, NEW r \in Script
    PROVE  /\ GoOnWith(r) \in Seq(Frame)
           /\ Number(GoOnWith(r), WaitFrames) = Number(stack, WaitFrames)
<1>1. PICK s \in Seq(Frame) : s = stack /\ s # <<>>
  BY DEF TypeOK
<1>2. PICK t \in Seq(Frame), h \in Frame : t = Tail(s) /\ h = Head(s)
  <2>1. Tail(s) \in Seq(Frame) /\ Head(s) \in Frame
    BY <1>1
  <2> QED
    BY <2>1
<1>3. PICK f \in Frame : f = [h EXCEPT !.script = r] /\ f.kind = h.kind
  <2>1. [h EXCEPT !.script = r] \in Frame /\ [h EXCEPT !.script = r].kind = h.kind
    BY DEF Frame
  <2> QED
    BY <2>1
<1>4. GoOnWith(r) = <<f>> \o t
  BY <1>1, <1>2, <1>3 DEF GoOnWith, Top
<1>5. Number(<<f>> \o t, WaitFrames) = Number(t, WaitFrames) + IF f \in WaitFrames THEN 1 ELSE 0
  BY NumberPushed
<1>6. Number(s, WaitFrames) = Number(t, WaitFrames) + IF h \in WaitFrames THEN 1 ELSE 0
  BY <1>1, <1>2, NumberPopped
<1>7. f \in WaitFrames <=> h \in WaitFrames
  BY <1>3 DEF WaitFrames
<1> QED
  BY <1>1, <1>4, <1>5, <1>6, <1>7

\* A frame in front.
LEMMA CallNumber ==
    ASSUME NEW s \in Seq(Frame), NEW r \in Script,
           NEW k \in {"line", "wait", "drain", "next", "callback"}
    PROVE  Number(Frames(k, r) \o s, WaitFrames) =
           Number(s, WaitFrames) + IF k = "wait" THEN 1 ELSE 0
<1>1. PICK f \in Frame : f = [kind |-> k, script |-> r] /\ f.kind = k
  <2>1. [kind |-> k, script |-> r] \in Frame /\ [kind |-> k, script |-> r].kind = k
    BY DEF Frame
  <2> QED
    BY <2>1
<1>2. Frames(k, r) = <<f>>
  BY <1>1 DEF Frames
<1>3. f \in WaitFrames <=> k = "wait"
  BY <1>1 DEF WaitFrames
<1> QED
  BY <1>2, <1>3, NumberPushed

\* The first frame ends.
LEMMA ReturnNumber ==
    ASSUME TypeOK, stack # <<>>
    PROVE  Number(stack, WaitFrames) =
           Number(Tail(stack), WaitFrames) + IF Head(stack).kind = "wait" THEN 1 ELSE 0
<1>1. PICK s \in Seq(Frame) : s = stack /\ s # <<>>
  BY DEF TypeOK
<1>2. Head(s) \in Frame
  BY <1>1
<1>3. Head(s) \in WaitFrames <=> Head(s).kind = "wait"
  BY <1>2 DEF WaitFrames
<1> QED
  BY <1>1, <1>3, NumberPopped

\* The frame of a loop after a command changes its kind.
LEMMA ChangeNumber ==
    ASSUME TypeOK, stack # <<>>, Head(stack).kind # "wait", NEW k \in {"drain", "next"}
    PROVE  /\ Frames(k, <<>>) \o Tail(stack) \in Seq(Frame)
           /\ Number(Frames(k, <<>>) \o Tail(stack), WaitFrames) = Number(stack, WaitFrames)
<1>1. Tail(stack) \in Seq(Frame) /\ <<>> \in Script
  BY DEF TypeOK, Script
<1>2. Number(Frames(k, <<>>) \o Tail(stack), WaitFrames) = Number(Tail(stack), WaitFrames) + 0
  BY <1>1, CallNumber
<1>3. Number(stack, WaitFrames) = Number(Tail(stack), WaitFrames) + 0
  BY ReturnNumber
<1>4. Frames(k, <<>>) \o Tail(stack) \in Seq(Frame)
  <2>1. Frames(k, <<>>) = <<[kind |-> k, script |-> <<>>]>> /\ [kind |-> k, script |-> <<>>] \in Frame
    BY <1>1 DEF Frames, Frame
  <2>2. \A g \in Frame, t \in Seq(Frame) : <<g>> \o t \in Seq(Frame)
    OBVIOUS
  <2> QED
    BY <1>1, <2>1, <2>2
<1>5. Number(Tail(stack), WaitFrames) \in Nat
  BY <1>1, NumberType
<1> QED
  BY <1>2, <1>3, <1>4, <1>5

LEMMA DispatchedNumber ==
    ASSUME TypeOK
    PROVE  /\ Dispatched \in Seq(Frame)
           /\ Number(Dispatched, WaitFrames) = Number(stack, WaitFrames)
<1>1. Top.kind = "next" => stack # <<>> /\ Head(stack).kind # "wait"
  BY DEF Top
<1> QED
  BY <1>1, ChangeNumber DEF Dispatched, TypeOK

\* The execution of a script: a wait has its timer, other frames are none.
LEMMA ExecuteMatched == ASSUME TypeOK, Matched, Execute PROVE Matched'
<1>1. Executing /\ stack # <<>> /\ Top = Head(stack) /\ Top.kind \in {"line", "callback"}
  BY DEF Execute, Set, Fail, Component, Wait, End, NextIs, Executing, Top
<1>2. Top.script \in Script
  <2>1. Head(stack) \in Frame
    BY <1>1 DEF TypeOK
  <2> QED
    BY <1>1, <2>1 DEF Frame
<1>3. <<>> \in Script /\ (Top.script # <<>> => Tail(Top.script) \in Script)
  BY <1>2 DEF Script
<1>4. PICK r \in Script : r = IF Top.script # <<>> THEN Tail(Top.script) ELSE <<>>
  BY <1>3
<1>5. PICK t \in Seq(Frame) : t = GoOnWith(r) /\ Number(t, WaitFrames) = Number(stack, WaitFrames)
  BY <1>1, GoOnNumber
<1>6. Number(queue, {"continue"}) \in Nat /\ Number(stack, WaitFrames) \in Nat /\ waits \in Nat
  BY WaitsCounted
<1>7. CASE Set
  <2>1. stack' = t /\ UNCHANGED <<waits, queue, lost>>
    BY <1>4, <1>5, <1>7 DEF Set, NextIs, xt
  <2> QED
    BY <1>5, <2>1 DEF Matched
<1>8. CASE Fail
  <2>1. stack' = GoOnWith(<<>>) /\ UNCHANGED <<waits, queue, lost>>
    BY <1>8 DEF Fail, xt
  <2>2. Number(stack', WaitFrames) = Number(stack, WaitFrames)
    BY <1>1, <1>3, <2>1, GoOnNumber
  <2> QED
    BY <2>1, <2>2 DEF Matched
<1>9. CASE Component
  <2>1. stack' = Frames("drain", <<>>) \o t /\ UNCHANGED <<waits, queue, lost>>
    BY <1>4, <1>5, <1>9 DEF Component, NextIs, xt
  <2>2. Number(stack', WaitFrames) = Number(t, WaitFrames) + 0
    BY <1>3, <2>1, CallNumber
  <2> QED
    BY <1>5, <1>6, <2>1, <2>2 DEF Matched
<1>10. CASE Wait
  <2>1. stack' = Frames("wait", <<>>) \o t /\ waits' = waits + 1 /\ UNCHANGED <<queue, lost>>
    BY <1>4, <1>5, <1>10 DEF Wait, NextIs
  <2>2. Number(stack', WaitFrames) = Number(t, WaitFrames) + 1
    BY <1>3, <2>1, CallNumber
  <2> QED
    BY <1>5, <1>6, <2>1, <2>2 DEF Matched
<1>11. CASE End
  <2>1. stack' = Tail(stack) /\ UNCHANGED <<waits, queue, lost>>
    BY <1>11 DEF End, xt
  <2>2. Number(stack, WaitFrames) = Number(stack', WaitFrames) + 0
    BY <1>1, <2>1, ReturnNumber
  <2>3. Number(stack', WaitFrames) \in Nat
    <3>1. Tail(stack) \in Seq(Frame)
      BY <1>1 DEF TypeOK
    <3> QED
      BY <2>1, <3>1, NumberType
  <2> QED
    BY <2>1, <2>2, <2>3 DEF Matched
<1> QED
  BY <1>7, <1>8, <1>9, <1>10, <1>11 DEF Execute

\* The queue: a timer becomes a dummy event, which ends one wait or is lost.
LEMMA EventMatched ==
    ASSUME TypeOK, Matched, Event \/ Continue \/ Dispatch PROVE Matched'
<1>1. PICK q \in Seq({"event", "continue"}), s \in Seq(Frame) : q = queue /\ s = stack
  BY DEF TypeOK
<1>2. Number(q, {"continue"}) \in Nat /\ Number(s, WaitFrames) \in Nat /\ waits \in Nat
  BY <1>1, WaitsCounted
<1>3. q # <<>> => /\ Number(Tail(q), {"continue"}) \in Nat
                  /\ Number(q, {"continue"}) =
                     Number(Tail(q), {"continue"}) + IF Head(q) = "continue" THEN 1 ELSE 0
  <2> SUFFICES ASSUME q # <<>>
               PROVE  /\ Number(Tail(q), {"continue"}) \in Nat
                      /\ Number(q, {"continue"}) =
                         Number(Tail(q), {"continue"}) + IF Head(q) = "continue" THEN 1 ELSE 0
    OBVIOUS
  <2>1. Tail(q) \in Seq({"event", "continue"})
    OBVIOUS
  <2>2. Number(q, {"continue"}) =
        Number(Tail(q), {"continue"}) + IF Head(q) \in {"continue"} THEN 1 ELSE 0
    BY NumberPopped
  <2> QED
    BY <2>1, <2>2, NumberType
<1>4. s # <<>> => /\ Number(Tail(s), WaitFrames) \in Nat
                  /\ Number(s, WaitFrames) =
                     Number(Tail(s), WaitFrames) + IF Head(s).kind = "wait" THEN 1 ELSE 0
  <2>1. s # <<>> => Tail(s) \in Seq(Frame)
    OBVIOUS
  <2> QED
    BY <1>1, <2>1, NumberType, ReturnNumber
<1>5. CASE Event
  <2>1. queue' = Append(q, "event") /\ UNCHANGED <<stack, waits, lost>>
    BY <1>1, <1>5 DEF Event, gui
  <2>2. Number(queue', {"continue"}) = Number(q, {"continue"})
    BY <2>1, NumberAppended
  <2> QED
    BY <1>1, <2>1, <2>2 DEF Matched
<1>6. CASE Continue
  <2>1. queue' = <<"continue">> \o q /\ waits' = waits - 1 /\ UNCHANGED <<stack, lost>>
    BY <1>1, <1>6 DEF Continue, gui
  <2>2. Number(queue', {"continue"}) = Number(q, {"continue"}) + 1
    <3>1. Number(<<"continue">> \o q, {"continue"}) =
          Number(q, {"continue"}) + IF "continue" \in {"continue"} THEN 1 ELSE 0
      BY NumberPushed
    <3> QED
      BY <2>1, <3>1
  <2> QED
    BY <1>1, <1>2, <2>1, <2>2 DEF Matched
<1>7. CASE Callback
  <2>1. PICK r \in Script : stack' = Frames("callback", r) \o Dispatched
    BY <1>7, ScriptsAreScripts DEF Callback
  <2>2. queue' = Tail(q) /\ q # <<>> /\ Head(q) = "event" /\ UNCHANGED <<waits, lost>>
    BY <1>1, <1>7 DEF Callback
  <2>3. Number(stack', WaitFrames) = Number(Dispatched, WaitFrames) + 0
    BY <2>1, DispatchedNumber, CallNumber
  <2>4. Number(stack', WaitFrames) = Number(s, WaitFrames)
    BY <1>1, <1>2, <2>3, DispatchedNumber
  <2> QED
    BY <1>1, <1>2, <1>3, <2>2, <2>4 DEF Matched
<1>8. CASE WaitEnds
  <2>1. /\ queue' = Tail(q) /\ q # <<>> /\ Head(q) = "continue" /\ stack' = Tail(s)
        /\ s # <<>> /\ Head(s).kind = "wait" /\ UNCHANGED <<waits, lost>>
    BY <1>1, <1>8 DEF WaitEnds, Top
  <2>2. /\ Number(q, {"continue"}) = Number(queue', {"continue"}) + 1
        /\ Number(queue', {"continue"}) \in Nat
    BY <1>3, <2>1
  <2>3. /\ Number(s, WaitFrames) = Number(stack', WaitFrames) + 1
        /\ Number(stack', WaitFrames) \in Nat
    BY <1>4, <2>1
  <2>4. PICK a, b, c, d :
            /\ a = Number(q, {"continue"}) /\ b = Number(queue', {"continue"})
            /\ c = Number(s, WaitFrames) /\ d = Number(stack', WaitFrames)
    OBVIOUS
  <2>5. a = b + 1 /\ b \in Nat /\ c = d + 1 /\ d \in Nat
    BY <2>2, <2>3, <2>4
  <2>6. waits' = waits /\ lost' = lost /\ (~lost => waits + a = c)
    BY <1>1, <2>1, <2>4 DEF Matched
  <2>7. ~lost' => waits' + b = d
    BY <1>2, <2>5, <2>6
  <2> QED
    BY <2>4, <2>7 DEF Matched
<1>9. CASE Swallow
  BY <1>9 DEF Swallow, Matched
<1>10. CASE DrainEnds
  <2>1. /\ stack' = Tail(s) /\ s # <<>> /\ Head(s).kind # "wait"
        /\ UNCHANGED <<queue, waits, lost>>
    BY <1>1, <1>10 DEF DrainEnds, Top, xt
  <2> QED
    BY <1>1, <1>2, <1>4, <2>1 DEF Matched
<1>11. CASE NextEvent
  <2>1. /\ stack' = Frames("next", <<>>) \o Tail(stack) /\ stack # <<>> /\ Head(stack).kind # "wait"
        /\ UNCHANGED <<queue, waits, lost>>
    BY <1>11 DEF NextEvent, Top, xt
  <2> QED
    BY <2>1, ChangeNumber DEF Matched
<1> QED
  BY <1>5, <1>6, <1>7, <1>8, <1>9, <1>10, <1>11 DEF Dispatch

\* Each parseWait that runs, in a line or in a callback inside another wait, has
\* its own timer or dummy event, as long as no other loop has dispatched one: so
\* the innermost one can end by the timer of an outer one, but none is left over.
THEOREM EveryWaitEnds == Spec => []WaitsMatch
<1>1. Init => Matched
  <2> SUFFICES ASSUME Init PROVE Number(queue, {"continue"}) = 0 /\ Number(stack, WaitFrames) = 0
                                 /\ waits = 0
    BY DEF Matched
  <2>1. Places(queue, {"continue"}) = {} /\ Places(stack, WaitFrames) = {} /\ waits = 0
    BY DEF Init, Places
  <2> QED
    BY <2>1, FS_EmptySet DEF Number
<1>2. TypeOK /\ Matched /\ [Next]_vars => Matched'
  <2> SUFFICES ASSUME TypeOK, Matched, [Next]_vars PROVE Matched'
    OBVIOUS
  <2>1. CASE UNCHANGED <<stack, xt>>
    BY <2>1 DEF Matched, xt
  <2>2. CASE TakeLine
    <3>1. stack' = Frames("line", parse_line.script) \o stack /\ UNCHANGED <<queue, waits, lost>>
      BY <2>2 DEF TakeLine, xt
    <3>2. parse_line.script \in Script /\ stack \in Seq(Frame)
      BY DEF TypeOK, Line
    <3>3. Number(stack', WaitFrames) = Number(stack, WaitFrames) + 0
      BY <3>1, <3>2, CallNumber
    <3> QED
      BY <3>1, <3>3, WaitsCounted DEF Matched
  <2>3. CASE Execute
    BY <2>3, ExecuteMatched
  <2>4. CASE Event \/ Continue \/ Dispatch
    BY <2>4, EventMatched
  <2>5. [Next]_vars => \/ UNCHANGED <<stack, xt>> \/ TakeLine \/ Execute
                       \/ Event \/ Continue \/ Dispatch
    BY DEF Next, vars, gui, Give, GetLine, WaitAccess, Poll, Take, Startup, FirstEmpty, Prompt,
           CopyLine, PostLine, WaitWork, PollAccess, NotReady, StopAtLine, StopAtEvents
  <2> QED
    BY <2>1, <2>2, <2>3, <2>4, <2>5
<1>3. TypeOK /\ Matched => WaitsMatch
  BY WaitsCounted DEF Matched, WaitsMatch
<1> QED
  BY <1>1, <1>2, <1>3, TypeCorrect, PTL DEF Spec
=============================================================================
