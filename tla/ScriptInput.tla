---------------------------- MODULE ScriptInput ----------------------------
(***************************************************************************)
(* How AppParse gets the lines of a script session from a thread that      *)
(* reads standard input, and executes them in the thread of the graphical  *)
(* interface, between the events of the interface.  Two semaphores hand    *)
(* one line over at a time.  The command "wait" and the commands of the    *)
(* components run event loops of their own inside the execution of a line, *)
(* where callbacks may execute other scripts.                              *)
(***************************************************************************)
EXTENDS Integers, SequencesExt

CONSTANTS
    Commands,       \* the kinds of commands that occur, among AllCommands
    MaxLength,      \* bound: commands in a line or in the script of a callback
    MaxStartup,     \* bound: strings given on the command line of the program
    MaxLines,       \* bound: lines parsed
    MaxEvents       \* bound: events of the interface that execute a script

\* "set": a command of the interpreter; "component": one that a component
\* executes, after which AppParse dispatches the events that are waiting;
\* "error": a command that fails.
AllCommands == {"set", "component", "wait", "error"}

ASSUME CommandsAssumption == Commands \subseteq AllCommands
ASSUME LengthAssumption == MaxLength \in Nat
ASSUME BoundsAssumption == MaxStartup \in Nat /\ MaxLines \in Nat /\ MaxEvents \in Nat

Script == Seq(Commands)
Scripts == BoundedSeq(Commands, MaxLength)

VARIABLES
    rpc, first_line, startup, line, given,  \* the reader thread: its line, how many it had
    parse_line, input_ready,                \* the line handed over
    sem_stdin, sem_work,                    \* the semaphores
    gpc, stack, timer, parsed,              \* the GUI thread
    queue, waits, lost, events              \* the events and the timers of parseWait

reader == <<rpc, first_line, startup, line, given>>
handed == <<parse_line, input_ready>>
sems   == <<sem_stdin, sem_work>>
gui    == <<gpc, stack, timer, parsed>>
xt     == <<queue, waits, lost, events>>
vars   == <<reader, handed, sems, gui, xt>>

\* Scripts that are executed, and event loops inside them, the innermost first;
\* below them is the event loop of the program.  The loop after the command of a
\* component looks for events ("drain"), and waits for the next one ("next").
Frame == [kind : {"line", "callback", "wait", "drain", "next"}, script : Script]
Frames(kind, script) == <<[kind |-> kind, script |-> script]>>

\* A line knows its number.
Line == [n : Nat, script : Script]

Init ==
    /\ rpc = "next" /\ first_line = TRUE /\ startup \in 0..MaxStartup
    /\ line = [n |-> 0, script |-> <<>>] /\ given = 0
    /\ parse_line = [n |-> 0, script |-> <<>>] /\ input_ready = FALSE
    /\ sem_stdin = 0 /\ sem_work = 0
    /\ gpc = "loop" /\ stack = <<>> /\ timer = TRUE /\ parsed = 0
    /\ queue = <<>> /\ waits = 0 /\ lost = FALSE /\ events = 0

-----------------------------------------------------------------------------
(* The reader: readInput *)

\* The thread has a line; the first one of all needs no access.
HasLine(script) ==
    /\ line' = [n |-> given + 1, script |-> script] /\ given' = given + 1
    /\ rpc' = IF first_line THEN "copy" ELSE "lock"
    /\ first_line' = FALSE

\* The strings of the command line come first.
Startup ==
    /\ rpc = "next" /\ startup > 0 /\ given < MaxLines
    /\ startup' = startup - 1
    /\ \E s \in Scripts : HasLine(s)
    /\ UNCHANGED <<handed, sems, gui, xt>>

\* Mutant: no empty line if there are none of them.
FirstSkipped ==
    /\ rpc = "next" /\ startup = 0 /\ first_line
    /\ rpc' = "getline"
    /\ UNCHANGED <<first_line, startup, line, given, handed, sems, gui, xt>>

\* Without any, an empty line: "need this or the interface will wait for stdin
\* input".
FirstEmpty ==
    /\ rpc = "next" /\ startup = 0 /\ first_line
    /\ HasLine(<<>>)
    /\ UNCHANGED <<startup, handed, sems, gui, xt>>

\* getLine looks at file_states to choose the prompt, and waits for the user ...
Prompt ==
    /\ rpc = "next" /\ startup = 0 /\ ~first_line
    /\ rpc' = "getline"
    /\ UNCHANGED <<first_line, startup, line, given, handed, sems, gui, xt>>

\* ... who enters a line, or an empty one.
GetLine ==
    /\ rpc = "getline" /\ given < MaxLines
    /\ \E s \in Scripts : HasLine(s)
    /\ UNCHANGED <<startup, handed, sems, gui, xt>>

\* "wait for access to app"
WaitAccess ==
    /\ rpc = "lock" /\ sem_stdin > 0
    /\ sem_stdin' = sem_stdin - 1
    /\ rpc' = "copy"
    /\ UNCHANGED <<first_line, startup, line, given, handed, sem_work, gui, xt>>

CopyLine ==
    /\ rpc = "copy"
    /\ parse_line' = line /\ input_ready' = TRUE
    /\ rpc' = "post"
    /\ UNCHANGED <<first_line, startup, line, given, sems, gui, xt>>

\* "allow the other thread to run while this one gets the next input line"
PostLine ==
    /\ rpc = "post"
    /\ sem_stdin' = sem_stdin + 1
    /\ rpc' = "work"
    /\ UNCHANGED <<first_line, startup, line, given, handed, sem_work, gui, xt>>

\* Mutant: the reader does not wait until the line has been executed.
GoOn ==
    /\ rpc = "work"
    /\ rpc' = "next"
    /\ UNCHANGED <<first_line, startup, line, given, handed, sems, gui, xt>>

\* The line has been executed.  (stop_flag, which would end the thread here, is
\* never set: stop() ends the process.)
WaitWork ==
    /\ rpc = "work" /\ sem_work > 0
    /\ sem_work' = sem_work - 1
    /\ rpc' = "next"
    /\ UNCHANGED <<first_line, startup, line, given, handed, sem_stdin, gui, xt>>

-----------------------------------------------------------------------------
(* The GUI thread: parseCmdCallback *)

\* What runs: without any frame, the event loop of the program.
Top == IF stack = <<>> THEN [kind |-> "main", script |-> <<>>] ELSE Head(stack)

\* The thread is in XtAppNextEvent, which calls the timers that are due.
InLoop == gpc = "loop" /\ Top.kind \in {"main", "wait", "next"}

\* The timer of parseCmdCB.
Poll ==
    /\ InLoop /\ timer
    /\ timer' = FALSE /\ gpc' = "lock"
    /\ UNCHANGED <<reader, handed, sems, stack, parsed, xt>>

PollAccess ==
    /\ gpc = "lock" /\ sem_stdin > 0
    /\ sem_stdin' = sem_stdin - 1
    /\ gpc' = "look"
    /\ UNCHANGED <<reader, handed, sem_work, stack, timer, parsed, xt>>

NotReady ==
    /\ gpc = "look" /\ ~input_ready
    /\ sem_stdin' = sem_stdin + 1
    /\ gpc' = "loop" /\ timer' = TRUE
    /\ UNCHANGED <<reader, handed, sem_work, stack, parsed, xt>>

\* Mutant: input_ready is left set.
TakeLineAgain ==
    /\ gpc = "look" /\ input_ready
    /\ sem_stdin' = sem_stdin + 1
    /\ stack' = Frames("line", parse_line.script) \o stack
    /\ parsed' = parse_line.n /\ gpc' = "loop"
    /\ UNCHANGED <<reader, handed, sem_work, timer, xt>>

\* The line is copied, and executed by parseLine.
TakeLine ==
    /\ gpc = "look" /\ input_ready
    /\ input_ready' = FALSE
    /\ sem_stdin' = sem_stdin + 1
    /\ stack' = Frames("line", parse_line.script) \o stack
    /\ parsed' = parse_line.n /\ gpc' = "loop"
    /\ UNCHANGED <<reader, parse_line, sem_work, timer, xt>>

\* No component is left: both semaphores are posted, and stop ends the process.
\* The reader may take a few steps more.
StopAtLine ==
    /\ gpc = "look" /\ input_ready
    /\ input_ready' = FALSE
    /\ sem_stdin' = sem_stdin + 1 /\ sem_work' = sem_work + 1
    /\ gpc' = "exit"
    /\ UNCHANGED <<reader, parse_line, stack, timer, parsed, xt>>

\* handleEvents, too, ends the process when the last window is closed.
StopAtEvents ==
    /\ gpc = "loop" /\ Top.kind = "main" /\ queue = <<>>
    /\ gpc' = "exit"
    /\ UNCHANGED <<reader, handed, sems, stack, timer, parsed, xt>>

-----------------------------------------------------------------------------
(* The execution of a script: parseLine, parseCommand, parseWait *)

Executing == gpc = "loop" /\ Top.kind \in {"line", "callback"}
NextIs(command) == Executing /\ Top.script # <<>> /\ Head(Top.script) = command

\* The script that runs goes on with the rest of it.
GoOnWith(rest) == <<[Top EXCEPT !.script = rest]>> \o Tail(stack)

Set ==
    /\ NextIs("set")
    /\ stack' = GoOnWith(Tail(Top.script))
    /\ UNCHANGED <<reader, handed, sems, gpc, timer, parsed, xt>>

\* The rest of the script is not executed.
Fail ==
    /\ NextIs("error")
    /\ stack' = GoOnWith(<<>>)
    /\ UNCHANGED <<reader, handed, sems, gpc, timer, parsed, xt>>

Component ==
    /\ NextIs("component")
    /\ stack' = Frames("drain", <<>>) \o GoOnWith(Tail(Top.script))
    /\ UNCHANGED <<reader, handed, sems, gpc, timer, parsed, xt>>

Wait ==
    /\ NextIs("wait")
    /\ stack' = Frames("wait", <<>>) \o GoOnWith(Tail(Top.script))
    /\ waits' = waits + 1
    /\ UNCHANGED <<reader, handed, sems, gpc, timer, parsed, queue, lost, events>>

\* Mutant: parseCmdCallback does not set its timer again.
EndNoTimer ==
    /\ Executing /\ Top.script = <<>>
    /\ stack' = Tail(stack)
    /\ sem_work' = IF Top.kind = "line" THEN sem_work + 1 ELSE sem_work
    /\ UNCHANGED <<reader, handed, sem_stdin, gpc, timer, parsed, xt>>

\* The end of a script; that of a line lets the reader go on.
End ==
    /\ Executing /\ Top.script = <<>>
    /\ stack' = Tail(stack)
    /\ IF Top.kind = "line" THEN timer' = TRUE /\ sem_work' = sem_work + 1
       ELSE UNCHANGED <<timer, sem_work>>
    /\ UNCHANGED <<reader, handed, sem_stdin, gpc, parsed, xt>>

-----------------------------------------------------------------------------
(* Events *)

\* Something happens in the interface that makes it execute a script.
Event ==
    /\ events < MaxEvents
    /\ events' = events + 1 /\ queue' = Append(queue, "event")
    /\ UNCHANGED <<reader, handed, sems, gui, waits, lost>>

\* The time of a parseWait is over: parseContinue puts a dummy event in front
\* of the queue.
Continue ==
    /\ InLoop /\ waits > 0
    /\ waits' = waits - 1 /\ queue' = <<"continue">> \o queue
    /\ UNCHANGED <<reader, handed, sems, gui, lost, events>>

\* The loop after a command calls XtAppNextEvent if an event is waiting; a line
\* that is taken there may leave it none.
NextEvent ==
    /\ gpc = "loop" /\ Top.kind = "drain" /\ queue # <<>>
    /\ stack' = Frames("next", <<>>) \o Tail(stack)
    /\ UNCHANGED <<reader, handed, sems, gpc, timer, parsed, xt>>

\* It has dispatched an event; the other loops go on as they are.
Dispatched == IF Top.kind = "next" THEN Frames("drain", <<>>) \o Tail(stack) ELSE stack

\* A callback, in whatever event loop is the innermost one.
Callback ==
    /\ InLoop /\ queue # <<>> /\ Head(queue) = "event"
    /\ queue' = Tail(queue)
    /\ \E s \in Scripts : stack' = Frames("callback", s) \o Dispatched
    /\ UNCHANGED <<reader, handed, sems, gpc, timer, parsed, waits, lost, events>>

\* Mutant: any event ends parseWait.
WaitEndsEarly ==
    /\ InLoop /\ queue # <<>> /\ Top.kind = "wait"
    /\ queue' = Tail(queue) /\ stack' = Tail(stack)
    /\ UNCHANGED <<reader, handed, sems, gpc, timer, parsed, waits, lost, events>>

\* The dummy event ends the innermost parseWait, if that is in its loop ...
WaitEnds ==
    /\ InLoop /\ Top.kind = "wait" /\ queue # <<>> /\ Head(queue) = "continue"
    /\ queue' = Tail(queue) /\ stack' = Tail(stack)
    /\ UNCHANGED <<reader, handed, sems, gpc, timer, parsed, waits, lost, events>>

\* ... but another loop dispatches it, which does nothing.
Swallow ==
    /\ InLoop /\ Top.kind # "wait" /\ queue # <<>> /\ Head(queue) = "continue"
    /\ queue' = Tail(queue) /\ lost' = TRUE /\ stack' = Dispatched
    /\ UNCHANGED <<reader, handed, sems, gpc, timer, parsed, waits, events>>

\* No event is left, or 1000 have been dispatched, most of which execute no
\* script: the command has ended.
DrainEnds ==
    /\ gpc = "loop" /\ Top.kind = "drain"
    /\ stack' = Tail(stack)
    /\ UNCHANGED <<reader, handed, sems, gpc, timer, parsed, xt>>

-----------------------------------------------------------------------------
Execute  == Set \/ Fail \/ Component \/ Wait \/ End
Dispatch == NextEvent \/ Callback \/ WaitEnds \/ Swallow \/ DrainEnds
Give     == Startup \/ FirstEmpty \/ Prompt \/ CopyLine \/ PostLine \/ WaitWork
Take     == PollAccess \/ NotReady \/ TakeLine

Next == Give \/ GetLine \/ WaitAccess \/ Poll \/ Take \/ Execute
        \/ Event \/ Continue \/ Dispatch \/ StopAtLine \/ StopAtEvents

Spec == Init /\ [][Next]_vars

\* Threads run; timers and events are handled some day.  The lock that the
\* reader waits for is free most of the time, between two calls of the timer.
FairSpec ==
    /\ Spec
    /\ WF_vars(Give) /\ SF_vars(WaitAccess)
    /\ SF_vars(Poll) /\ WF_vars(Take) /\ WF_vars(Execute)
    /\ SF_vars(Continue) /\ WF_vars(Dispatch)

-----------------------------------------------------------------------------
(* What the reader and the user can rely on *)

TypeOK ==
    /\ rpc \in {"next", "getline", "lock", "copy", "post", "work"}
    /\ first_line \in BOOLEAN /\ startup \in Nat /\ line \in Line /\ given \in Nat
    /\ parse_line \in Line /\ input_ready \in BOOLEAN
    /\ sem_stdin \in {0, 1} /\ sem_work \in {0, 1}
    /\ gpc \in {"loop", "lock", "look", "exit"} /\ stack \in Seq(Frame)
    /\ timer \in BOOLEAN /\ parsed \in Nat
    /\ queue \in Seq({"event", "continue"}) /\ waits \in Nat
    /\ lost \in BOOLEAN /\ events \in Nat

IsLine(i) == stack[i].kind = "line"
InLine == \E i \in DOMAIN stack : IsLine(i)

\* The two threads touch parse_line and input_ready one at a time, and never
\* overwrite a line that has not been taken.  While a line is executed, which
\* changes file_states, the reader does not look at file_states to choose its
\* prompt; and lines do not nest, although the timer that takes them also runs
\* in the event loops inside a line.
HandOver ==
    /\ rpc = "copy" => gpc # "look" /\ ~input_ready
    /\ \A i, j \in DOMAIN stack : IsLine(i) /\ IsLine(j) => i = j
    /\ InLine => rpc = "work" /\ sem_work = 0 /\ ~input_ready

\* "need this or the interface will wait for stdin input": the interface does
\* not stand still while the reader waits for the user.
GuiNotBlocked == gpc = "lock" /\ sem_stdin = 0 => rpc \in {"next", "copy", "post"}
                                                  /\ ~(rpc = "next" /\ startup = 0 /\ ~first_line)

\* Every line is executed once, in the order of input.
LinesInOrder == [][parsed' # parsed \/ TakeLine => parsed' = parsed + 1]_vars

\* The parseWaits that run, and the dummy events in the queue.
Waiting == {i \in DOMAIN stack : stack[i].kind = "wait"}
Dummies == {i \in DOMAIN queue : queue[i] = "continue"}

\* Unless a dummy event was swallowed, each parseWait still has a timer or a
\* dummy event that will end it, also if waits are nested in each other.
WaitsMatch == ~lost => waits + Cardinality(Dummies) = Cardinality(Waiting)

\* A line that was handed over is executed to its end, and the user gets a
\* prompt again, unless a dummy event was swallowed or the program has ended.
PromptReturns == rpc = "work" ~> rpc # "work" \/ lost \/ gpc = "exit"

\* "Pause the parsing for MSECS milliseconds": the parsing goes on afterwards.
LineEnds == InLine ~> ~InLine
=============================================================================
