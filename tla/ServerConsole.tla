---------------------------- MODULE ServerConsole ---------------------------
(***************************************************************************)
(* The two threads of the launcher.  The main thread constructs the        *)
(* console, runs the server loop (a frame of the engine, a sleep, at most  *)
(* one task, at most one input) until the engine ends, and destroys the    *)
(* console, which stops and joins the console's thread.  The console's     *)
(* thread reads keys; Enter queues the line for the server loop and writes *)
(* the history, Tab queues a task for the server loop and waits for its    *)
(* result.  Calls of Util::ThreadSafeQueue are critical sections of one    *)
(* mutex, hence steps; pop() waits on a condition that no push signals.    *)
(***************************************************************************)
EXTENDS Naturals, Sequences

CONSTANTS
    Line,       \* lines a user can enter
    Command,    \* unfinished commands a user can press Tab on
    Keys,       \* the keys that can be pressed: a subset of KeyKinds
    MaxEntered  \* bound on the lines entered

KeyKinds == {"newline", "tab", "escape", "other"}

ASSUME KeysAssumption == Keys \subseteq KeyKinds
ASSUME MaxEnteredAssumption == MaxEntered \in Nat

VARIABLES
    mainPc,       \* the next call of the main thread
    inputPc,      \* the next call of the console's thread
    running_,     \* ConsoleInput::running_
    input_queue_, \* ServerLoop::input_queue_
    task_queue_,  \* ServerLoop::task_queue_
    input,        \* process_input's local: the line it took, if any
    task,         \* process_tasks' local: the task it took, if any
    result,       \* the shared state of the future: the answer, if any
    request,      \* the command Tab was last pressed on
    console_text, \* what add_console_text was called with
    appended,     \* how many lines the history was given
    saved         \* how many of them were in it when it was last written

mainVars == <<mainPc, running_, input, task, console_text>>
historyVars == <<appended, saved>>
allButMainPc == <<inputPc, running_, input_queue_, task_queue_, input, task,
                  result, request, console_text, historyVars>>
allButInputPc == <<mainVars, input_queue_, task_queue_, result, request, historyVars>>
vars == <<mainPc, inputPc, running_, input_queue_, task_queue_, input, task,
          result, request, console_text, appended, saved>>

LoopPcs == {"run_frame", "sleep", "tasks.empty", "tasks.pop", "tasks.run",
            "input.empty", "input.pop", "input.add"}
ExitPcs == {"shutdown", "stop", "join", "done"}
InputPcs == {"none", "running", "poll", "escape", "append", "save", "get", "exited"}

\* The types of the two threads' program counters, of the queues between them
\* and of what each has handed to the other.
TypeOK ==
    /\ mainPc \in LoopPcs \union ExitPcs \union {"construct"}
    /\ inputPc \in InputPcs
    /\ running_ \in BOOLEAN
    /\ input_queue_ \in Seq(Line) /\ input \in Seq(Line) /\ console_text \in Seq(Line)
    /\ task_queue_ \in Seq(Command) /\ task \in Seq(Command) /\ result \in Seq(Command)
    /\ request \in Seq(Command)
    /\ appended \in Nat /\ saved \in Nat

Init ==
    /\ mainPc = "construct"
    /\ inputPc = "none"
    /\ running_ = FALSE
    /\ input_queue_ = <<>> /\ input = <<>> /\ console_text = <<>>
    /\ task_queue_ = <<>> /\ task = <<>> /\ result = <<>> /\ request = <<>>
    /\ appended = 0 /\ saved = 0

-----------------------------------------------------------------------------
(* The main thread.                                                        *)

MainGoes(from, to) == mainPc = from /\ mainPc' = to

\* ConsoleInput's constructor calls start().
start ==
    /\ MainGoes("construct", "run_frame")
    /\ running_' = TRUE
    /\ inputPc' = "running"
    /\ UNCHANGED <<input_queue_, task_queue_, input, task, result, request, console_text, historyVars>>

\* The engine ends the loop in any frame.
run_frame ==
    /\ \/ MainGoes("run_frame", "sleep")
       \/ MainGoes("run_frame", "shutdown")
    /\ UNCHANGED allButMainPc

sleep ==
    /\ MainGoes("sleep", "tasks.empty")
    /\ UNCHANGED allButMainPc

\* Mutant of TasksEmpty: the queue is not tested before it is popped.
TasksUntested ==
    /\ MainGoes("tasks.empty", "tasks.pop")
    /\ UNCHANGED allButMainPc

TasksEmpty ==
    /\ IF task_queue_ = <<>>
       THEN MainGoes("tasks.empty", "input.empty")
       ELSE MainGoes("tasks.empty", "tasks.pop")
    /\ UNCHANGED allButMainPc

TasksPop ==
    /\ MainGoes("tasks.pop", "tasks.run")
    /\ task_queue_ # <<>>
    /\ task' = <<Head(task_queue_)>>
    /\ task_queue_' = Tail(task_queue_)
    /\ UNCHANGED <<inputPc, running_, input_queue_, input, result, request, console_text, historyVars>>

\* Mutant of TasksRun: the task is dropped without being called.
TasksDropped ==
    /\ MainGoes("tasks.run", "input.empty")
    /\ task' = <<>>
    /\ UNCHANGED <<inputPc, running_, input_queue_, task_queue_, input, result, request, console_text, historyVars>>

\* The task looks the command up in the engine and fulfils the promise.
TasksRun ==
    /\ MainGoes("tasks.run", "input.empty")
    /\ result' = task
    /\ task' = <<>>
    /\ UNCHANGED <<inputPc, running_, input_queue_, task_queue_, input, request, console_text, historyVars>>

\* Mutant of InputEmpty: a waiting task goes before a waiting line.
InputAfterTasks ==
    /\ IF input_queue_ = <<>> \/ task_queue_ # <<>>
       THEN MainGoes("input.empty", "run_frame")
       ELSE MainGoes("input.empty", "input.pop")
    /\ UNCHANGED allButMainPc

InputEmpty ==
    /\ IF input_queue_ = <<>>
       THEN MainGoes("input.empty", "run_frame")
       ELSE MainGoes("input.empty", "input.pop")
    /\ UNCHANGED allButMainPc

\* Mutant of InputPop: the newest line is taken first.
InputPopNewest ==
    /\ MainGoes("input.pop", "input.add")
    /\ input_queue_ # <<>>
    /\ input' = <<input_queue_[Len(input_queue_)]>>
    /\ input_queue_' = SubSeq(input_queue_, 1, Len(input_queue_) - 1)
    /\ UNCHANGED <<inputPc, running_, task_queue_, task, result, request, console_text, historyVars>>

InputPop ==
    /\ MainGoes("input.pop", "input.add")
    /\ input_queue_ # <<>>
    /\ input' = <<Head(input_queue_)>>
    /\ input_queue_' = Tail(input_queue_)
    /\ UNCHANGED <<inputPc, running_, task_queue_, task, result, request, console_text, historyVars>>

InputAdd ==
    /\ MainGoes("input.add", "run_frame")
    /\ console_text' = console_text \o input
    /\ input' = <<>>
    /\ UNCHANGED <<inputPc, running_, input_queue_, task_queue_, task, result, request, historyVars>>

shutdown ==
    /\ MainGoes("shutdown", "stop")
    /\ UNCHANGED allButMainPc

\* Mutant of stop: the flag is left up.
StopKeepsRunning ==
    /\ MainGoes("stop", "join")
    /\ UNCHANGED allButMainPc

\* ConsoleInput's destructor calls stop(): the flag, then the join.
stop ==
    /\ MainGoes("stop", "join")
    /\ running_' = FALSE
    /\ UNCHANGED <<inputPc, input_queue_, task_queue_, input, task, result, request, console_text, historyVars>>

Join ==
    /\ MainGoes("join", "done")
    /\ inputPc = "exited"
    /\ UNCHANGED allButMainPc

MainStep ==
    \/ start \/ run_frame \/ sleep
    \/ TasksEmpty \/ TasksPop \/ TasksRun
    \/ InputEmpty \/ InputPop \/ InputAdd
    \/ shutdown \/ stop \/ Join

-----------------------------------------------------------------------------
(* The console's thread.                                                   *)

InputGoes(from, to) == inputPc = from /\ inputPc' = to

\* How many lines were entered so far, wherever they are now.
Entered == Len(console_text) + Len(input) + Len(input_queue_)

WhileRunning ==
    /\ IF running_ THEN InputGoes("running", "poll") ELSE InputGoes("running", "exited")
    /\ UNCHANGED allButInputPc

PollTimeout ==
    /\ InputGoes("poll", "running")
    /\ UNCHANGED allButInputPc

\* A key that only edits the line, or end of file.
ReadOther ==
    /\ "other" \in Keys
    /\ InputGoes("poll", "running")
    /\ UNCHANGED allButInputPc

\* handle_escape() reads the rest of the sequence without polling.
ReadEscape ==
    /\ "escape" \in Keys
    /\ InputGoes("poll", "escape")
    /\ UNCHANGED allButInputPc

handle_escape ==
    /\ InputGoes("escape", "running")
    /\ UNCHANGED allButInputPc

ReadNewline(line) ==
    /\ "newline" \in Keys
    /\ Entered < MaxEntered
    /\ InputGoes("poll", "append")
    /\ input_queue_' = Append(input_queue_, line)
    /\ UNCHANGED <<mainVars, task_queue_, result, request, historyVars>>

\* Mutant of HistoryAppend: a thread that was told to stop leaves at once.
AppendWhileRunning ==
    /\ IF running_ THEN InputGoes("append", "save") ELSE InputGoes("append", "exited")
    /\ appended' = appended + 1
    /\ UNCHANGED <<mainVars, input_queue_, task_queue_, result, request, saved>>

HistoryAppend ==
    /\ InputGoes("append", "save")
    /\ appended' = appended + 1
    /\ UNCHANGED <<mainVars, input_queue_, task_queue_, result, request, saved>>

HistorySave ==
    /\ InputGoes("save", "running")
    /\ saved' = appended
    /\ UNCHANGED <<mainVars, input_queue_, task_queue_, result, request, appended>>

ReadTab(command) ==
    /\ "tab" \in Keys
    /\ InputGoes("poll", "get")
    /\ task_queue_' = Append(task_queue_, command)
    /\ request' = <<command>>
    /\ UNCHANGED <<mainVars, input_queue_, result, historyVars>>

\* Mutant of GetMatches: the answer stays for the next Tab.
GetMatchesKeepsResult ==
    /\ InputGoes("get", "running")
    /\ result # <<>>
    /\ request' = <<>>
    /\ UNCHANGED <<mainVars, input_queue_, task_queue_, result, historyVars>>

\* matches.get() returns once the promise is fulfilled.
GetMatches ==
    /\ InputGoes("get", "running")
    /\ result # <<>>
    /\ result' = <<>>
    /\ request' = <<>>
    /\ UNCHANGED <<mainVars, input_queue_, task_queue_, historyVars>>

\* What the thread does on its own, and what waits for a key.
InputStep == WhileRunning \/ PollTimeout \/ HistoryAppend \/ HistorySave \/ GetMatches

KeyStep ==
    \/ ReadOther \/ ReadEscape \/ handle_escape
    \/ \E line \in Line : ReadNewline(line)
    \/ \E command \in Command : ReadTab(command)

Next == MainStep \/ InputStep \/ KeyStep

\* Both threads are scheduled, the engine returns from every frame and the
\* join returns when the thread has ended.  Nobody has to press a key.
Fairness == WF_vars(MainStep) /\ WF_vars(InputStep)

Spec == Init /\ [][Next]_vars /\ Fairness

-----------------------------------------------------------------------------

LoopLeft == mainPc \in ExitPcs

\* Between empty() and pop() the mutex is free, yet the main thread never finds
\* a queue empty in pop(): nobody else takes from it.  It matters because no
\* push signals the condition pop() waits on, so the server would hang.
PopNeverWaits ==
    /\ mainPc = "tasks.pop" => task_queue_ # <<>>
    /\ mainPc = "input.pop" => input_queue_ # <<>>

\* While the console's thread waits for the matches of a command there is one
\* task or answer for exactly that command, in the queue, in the main thread or
\* in the future; at any other time there is none that a later Tab could take.
OneTaskPerRequest ==
    /\ result \o (task \o task_queue_) = request
    /\ Len(request) = IF inputPc = "get" THEN 1 ELSE 0

\* Whatever the main thread does, when the process gets past the destruction of
\* the console every line entered has been appended to the history and saved.
HistorySavedAtExit == mainPc = "done" => saved = Entered

Channel == INSTANCE CommandChannel WITH
    pending <- input \o input_queue_, delivered <- console_text

\* Lines reach the engine once each and in the order they were entered.
ImplementsChannel == Channel!Spec

\* Each line entered reaches the engine unless the engine has ended the loop.
EnteredReachesEngine ==
    \A n \in 1..MaxEntered : Entered >= n ~> (Len(console_text) >= n \/ LoopLeft)

\* Each Tab is answered unless the engine has ended the loop.
TabAnswered == inputPc = "get" ~> (inputPc # "get" \/ LoopLeft)

\* stop() clears the flag while the console's thread may be anywhere: in every
\* interleaving the join returns, unless the thread waits for the matches of a
\* Tab or for the rest of an escape sequence.
StopEndsUnlessWaiting ==
    mainPc = "stop" ~> (mainPc = "done" \/ inputPc \in {"get", "escape"})

\* libs/view/include/view/console_input.hpp, "Stops the input worker thread.":
\* a call of stop() ends with the thread ended.
StopEndsThread == mainPc = "stop" ~> mainPc = "done"
=============================================================================
