------------------------ MODULE ServerConsole_proofs ------------------------
(***************************************************************************)
(* For every set of lines, commands and keys: the main thread never blocks *)
(* in pop(), an answer belongs to the Tab that asked, the history is saved *)
(* at exit, and lines reach the engine once and in order.                  *)
(***************************************************************************)
EXTENDS ConsoleTerminal, TLAPS

\* The locals of process_tasks and process_input hold one element between pop()
\* and its use and none elsewhere.
LocalsFollowPc ==
    /\ Len(task) = IF mainPc = "tasks.run" THEN 1 ELSE 0
    /\ Len(input) = IF mainPc = "input.add" THEN 1 ELSE 0

\* The history trails the lines entered by the call enqueue_input is inside of.
HistoryTrails ==
    /\ Entered = appended + (IF inputPc = "append" THEN 1 ELSE 0)
    /\ appended = saved + (IF inputPc = "save" THEN 1 ELSE 0)

\* The join is behind the main thread only when the console's thread ended.
DoneAfterExit == mainPc = "done" => inputPc = "exited"

\* The console's thread does not exist until the constructor starts it.
StartsFirst == mainPc = "construct" => inputPc = "none"

IInv ==
    /\ TypeOK
    /\ LocalsFollowPc
    /\ PopNeverWaits
    /\ OneTaskPerRequest
    /\ HistoryTrails
    /\ DoneAfterExit
    /\ StartsFirst

-----------------------------------------------------------------------------

\* The initial states satisfy the inductive invariant.
LEMMA InitIInv == Init => IInv
<1> SUFFICES ASSUME Init PROVE IInv
  OBVIOUS
<1>1. <<>> \in Seq(Line) /\ <<>> \in Seq(Command) /\ Len(<<>>) = 0
  OBVIOUS
<1>2. TypeOK
  BY <1>1 DEF Init, TypeOK, LoopPcs, ExitPcs, InputPcs
<1>3. LocalsFollowPc /\ PopNeverWaits /\ HistoryTrails /\ DoneAfterExit /\ StartsFirst
  BY <1>1 DEF Init, LocalsFollowPc, PopNeverWaits, HistoryTrails, DoneAfterExit, Entered,
              StartsFirst
<1>4. OneTaskPerRequest
  BY DEF Init, OneTaskPerRequest
<1>5. QED BY <1>2, <1>3, <1>4 DEF IInv

\* Every step of either thread keeps the variables in their types.
LEMMA StepTypeOK == IInv /\ [Next]_vars => TypeOK'
<1> SUFFICES ASSUME IInv, [Next]_vars PROVE TypeOK'
  OBVIOUS
<1> USE DEF IInv, TypeOK, LoopPcs, ExitPcs, InputPcs, historyVars
<1>1. CASE MainStep
  <2> USE DEF MainGoes, allButMainPc
  <2>1. CASE start
    BY <2>1 DEF start
  <2>2. CASE run_frame \/ sleep \/ TasksEmpty \/ InputEmpty \/ shutdown \/ Join
    BY <2>2 DEF run_frame, sleep, TasksEmpty, InputEmpty, shutdown, Join
  <2>3. CASE TasksPop
    BY <2>3 DEF TasksPop
  <2>4. CASE TasksRun
    BY <2>4 DEF TasksRun
  <2>5. CASE InputPop
    BY <2>5 DEF InputPop
  <2>6. CASE InputAdd
    BY <2>6 DEF InputAdd
  <2>7. CASE stop
    BY <2>7 DEF stop
  <2>8. QED BY <1>1, <2>1, <2>2, <2>3, <2>4, <2>5, <2>6, <2>7 DEF MainStep
<1>2. CASE InputStep
  <2> USE DEF InputGoes, allButInputPc, mainVars
  <2>1. CASE WhileRunning \/ PollTimeout
    BY <2>1 DEF WhileRunning, PollTimeout
  <2>2. CASE HistoryAppend \/ HistorySave
    BY <2>2 DEF HistoryAppend, HistorySave
  <2>3. CASE GetMatches
    BY <2>3 DEF GetMatches
  <2>4. QED BY <1>2, <2>1, <2>2, <2>3 DEF InputStep
<1>3. CASE KeyStep
  <2> USE DEF InputGoes, allButInputPc, mainVars
  <2>1. CASE ReadOther \/ ReadEscape \/ handle_escape
    BY <2>1 DEF ReadOther, ReadEscape, handle_escape
  <2>2. ASSUME NEW line \in Line, ReadNewline(line) PROVE TypeOK'
    BY <2>2 DEF ReadNewline
  <2>3. ASSUME NEW command \in Command, ReadTab(command) PROVE TypeOK'
    BY <2>3 DEF ReadTab
  <2>4. QED BY <1>3, <2>1, <2>2, <2>3 DEF KeyStep
<1>4. CASE UNCHANGED vars
  BY <1>4 DEF vars
<1>5. QED BY <1>1, <1>2, <1>3, <1>4 DEF Next

\* What a step of the console's thread leaves to the main thread, and how it can
\* change the two queues: at their ends, and only by adding.
LEMMA InputThreadSteps ==
    ASSUME IInv, InputStep \/ KeyStep
    PROVE  /\ UNCHANGED mainVars
           /\ \/ UNCHANGED input_queue_
              \/ \E line \in Line : input_queue_' = Append(input_queue_, line)
           /\ \/ UNCHANGED task_queue_
              \/ \E command \in Command : task_queue_' = Append(task_queue_, command)
<1> USE DEF allButInputPc
<1>1. CASE InputStep
  BY <1>1 DEF InputStep, WhileRunning, PollTimeout, HistoryAppend, HistorySave, GetMatches
<1>2. CASE ReadOther \/ ReadEscape \/ handle_escape
  BY <1>2 DEF ReadOther, ReadEscape, handle_escape
<1>3. ASSUME NEW line \in Line, ReadNewline(line)
      PROVE  UNCHANGED <<mainVars, task_queue_>> /\ input_queue_' = Append(input_queue_, line)
  BY <1>3 DEF ReadNewline
<1>4. ASSUME NEW command \in Command, ReadTab(command)
      PROVE  UNCHANGED <<mainVars, input_queue_>> /\ task_queue_' = Append(task_queue_, command)
  BY <1>4 DEF ReadTab
<1>5. QED BY <1>1, <1>2, <1>3, <1>4 DEF KeyStep

\* Every step keeps the locals of the main thread in step with its program
\* counter, and leaves a queue the loop has tested with something in it.
LEMMA StepControl == IInv /\ [Next]_vars => (LocalsFollowPc /\ PopNeverWaits)'
<1> SUFFICES ASSUME IInv, [Next]_vars PROVE (LocalsFollowPc /\ PopNeverWaits)'
  OBVIOUS
<1>1. /\ task \in Seq(Command) /\ task_queue_ \in Seq(Command)
      /\ input \in Seq(Line) /\ input_queue_ \in Seq(Line)
      /\ LocalsFollowPc /\ PopNeverWaits
  BY DEF IInv, TypeOK
<1> USE DEF LocalsFollowPc, PopNeverWaits
<1>2. CASE MainStep
  <2> USE DEF MainGoes, allButMainPc
  <2>1. CASE start
    BY <1>1, <2>1 DEF start
  <2>2. CASE run_frame \/ sleep \/ TasksEmpty \/ InputEmpty \/ shutdown \/ Join
    BY <1>1, <2>2 DEF run_frame, sleep, TasksEmpty, InputEmpty, shutdown, Join
  <2>3. CASE TasksPop
    BY <1>1, <2>3 DEF TasksPop
  <2>4. CASE TasksRun
    BY <1>1, <2>4 DEF TasksRun
  <2>5. CASE InputPop
    BY <1>1, <2>5 DEF InputPop
  <2>6. CASE InputAdd
    BY <1>1, <2>6 DEF InputAdd
  <2>7. CASE stop
    BY <1>1, <2>7 DEF stop
  <2>8. QED BY <1>2, <2>1, <2>2, <2>3, <2>4, <2>5, <2>6, <2>7 DEF MainStep
<1>3. CASE InputStep \/ KeyStep
  <2>1. UNCHANGED mainVars
    BY <1>3, InputThreadSteps
  <2>2. input_queue_ # <<>> => input_queue_' # <<>>
    BY <1>1, <1>3, InputThreadSteps
  <2>3. task_queue_ # <<>> => task_queue_' # <<>>
    BY <1>1, <1>3, InputThreadSteps
  <2>4. QED BY <1>1, <2>1, <2>2, <2>3 DEF mainVars
<1>4. CASE UNCHANGED vars
  BY <1>1, <1>4 DEF vars
<1>5. QED BY <1>2, <1>3, <1>4 DEF Next

\* The two ways a task moves: from the queue to the main thread, and from there
\* to the future.
LEMMA Regroup ==
    ASSUME NEW S, NEW r \in Seq(S), NEW t \in Seq(S), NEW q \in Seq(S)
    PROVE  /\ q # <<>> => <<Head(q)>> \o Tail(q) = q
           /\ t = <<>> => r \o (t \o q) = r \o q
           /\ r = <<>> => r \o (t \o q) = t \o q
           /\ r \o (t \o q) = <<>> => r = <<>> /\ t = <<>> /\ q = <<>>
           /\ Len(r \o (t \o q)) = Len(r) + Len(t) + Len(q)
<1>1. q # <<>> => <<Head(q)>> \o Tail(q) = q
  OBVIOUS
<1>2. t = <<>> => t \o q = q
  OBVIOUS
<1>3. r = <<>> => r \o (t \o q) = t \o q
  OBVIOUS
<1>4. t \o q \in Seq(S) /\ Len(t \o q) = Len(t) + Len(q)
  OBVIOUS
<1>5. Len(r \o (t \o q)) = Len(r) + Len(t) + Len(q)
  BY <1>4
<1>6. r \o (t \o q) = <<>> => r = <<>> /\ t = <<>> /\ q = <<>>
  BY <1>5
<1>7. QED BY <1>1, <1>2, <1>3, <1>5, <1>6

\* Every step keeps the future, the running task and the task queue together
\* holding exactly what the waiting Tab asked for.
LEMMA StepOneTask == IInv /\ [Next]_vars => OneTaskPerRequest'
<1> SUFFICES ASSUME IInv, [Next]_vars PROVE OneTaskPerRequest'
  OBVIOUS
<1> DEFINE outstanding == result \o (task \o task_queue_)
<1>1. /\ task \in Seq(Command) /\ task_queue_ \in Seq(Command)
      /\ result \in Seq(Command) /\ request \in Seq(Command)
      /\ inputPc \in InputPcs
  BY DEF IInv, TypeOK
<1>2. /\ request = outstanding
      /\ Len(request) = IF inputPc = "get" THEN 1 ELSE 0
      /\ Len(task) = IF mainPc = "tasks.run" THEN 1 ELSE 0
  BY DEF IInv, OneTaskPerRequest, LocalsFollowPc
<1>3. Len(request) = Len(result) + Len(task) + Len(task_queue_)
  BY <1>1, <1>2, Regroup
<1>4. ASSUME UNCHANGED <<inputPc, task_queue_, task, result, request>>
      PROVE  OneTaskPerRequest'
  BY <1>2, <1>4 DEF OneTaskPerRequest
<1>5. CASE MainStep
  <2> USE DEF MainGoes, allButMainPc
  <2>1. CASE start
    <3>1. inputPc # "get" /\ inputPc' # "get"
      BY <2>1 DEF start, IInv, StartsFirst
    <3>2. QED BY <1>2, <2>1, <3>1 DEF start, OneTaskPerRequest
  <2>2. CASE run_frame \/ sleep \/ TasksEmpty \/ InputEmpty \/ shutdown \/ Join
    BY <1>4, <2>2 DEF run_frame, sleep, TasksEmpty, InputEmpty, shutdown, Join
  <2>3. CASE TasksPop
    <3>1. task = <<>>
      BY <1>1, <1>2, <2>3 DEF TasksPop
    <3>2. task' \o task_queue_' = task_queue_
      BY <1>1, <2>3, Regroup DEF TasksPop
    <3>3. task \o task_queue_ = task_queue_
      BY <1>1, <3>1
    <3>4. QED BY <1>2, <2>3, <3>2, <3>3 DEF TasksPop, OneTaskPerRequest
  <2>4. CASE TasksRun
    <3>1. Len(task) = 1 /\ Len(result) = 0 /\ Len(task_queue_) = 0
      BY <1>1, <1>2, <1>3, <2>4 DEF TasksRun
    <3>2. result = <<>> /\ task_queue_ = <<>>
      BY <1>1, <3>1
    <3>3. outstanding = task
      BY <1>1, <3>2
    <3>4. result' \o (task' \o task_queue_') = task
      BY <1>1, <2>4, <3>2 DEF TasksRun
    <3>5. QED BY <1>2, <2>4, <3>3, <3>4 DEF TasksRun, OneTaskPerRequest
  <2>5. CASE InputPop \/ InputAdd \/ stop
    BY <1>4, <2>5 DEF InputPop, InputAdd, stop
  <2>6. QED BY <1>5, <2>1, <2>2, <2>3, <2>4, <2>5 DEF MainStep
<1>6. ASSUME UNCHANGED <<mainVars, task_queue_, result, request>>, inputPc # "get", inputPc' # "get"
      PROVE  OneTaskPerRequest'
  BY <1>2, <1>6 DEF OneTaskPerRequest, mainVars
<1>7. CASE InputStep
  <2> USE DEF InputGoes, allButInputPc
  <2>1. CASE WhileRunning \/ PollTimeout \/ HistoryAppend \/ HistorySave
    BY <1>6, <2>1 DEF WhileRunning, PollTimeout, HistoryAppend, HistorySave
  <2>2. CASE GetMatches
    <3>1. Len(task) = 0 /\ Len(task_queue_) = 0
      BY <1>1, <1>2, <1>3, <2>2 DEF GetMatches
    <3>2. task = <<>> /\ task_queue_ = <<>>
      BY <1>1, <3>1
    <3>3. QED BY <2>2, <3>2 DEF GetMatches, OneTaskPerRequest, mainVars
  <2>3. QED BY <1>7, <2>1, <2>2 DEF InputStep
<1>8. CASE KeyStep
  <2> USE DEF InputGoes, allButInputPc
  <2>1. CASE ReadOther \/ ReadEscape \/ handle_escape
    BY <1>6, <2>1 DEF ReadOther, ReadEscape, handle_escape
  <2>2. ASSUME NEW line \in Line, ReadNewline(line) PROVE OneTaskPerRequest'
    BY <1>6, <2>2 DEF ReadNewline
  <2>3. ASSUME NEW command \in Command, ReadTab(command) PROVE OneTaskPerRequest'
    <3>1. result = <<>> /\ task = <<>> /\ task_queue_ = <<>>
      BY <1>1, <1>2, <1>3, <2>3 DEF ReadTab
    <3>2. result' = <<>> /\ task' = <<>> /\ task_queue_' = <<command>>
      BY <2>3, <3>1 DEF ReadTab, mainVars
    <3>3. result' \o (task' \o task_queue_') = <<command>>
      BY <3>2
    <3>4. QED BY <2>3, <3>3 DEF ReadTab, OneTaskPerRequest
  <2>4. QED BY <1>8, <2>1, <2>2, <2>3 DEF KeyStep
<1>9. CASE UNCHANGED vars
  BY <1>4, <1>9 DEF vars
<1>10. QED BY <1>5, <1>7, <1>8, <1>9 DEF Next

\* The length of a concatenation.
LEMMA ConcatLen ==
    ASSUME NEW S, NEW s \in Seq(S), NEW t \in Seq(S)
    PROVE  Len(s \o t) = Len(s) + Len(t)
OBVIOUS

\* A sequence of length one is its only element.
LEMMA SingleElement ==
    ASSUME NEW S, NEW s \in Seq(S), Len(s) = 1
    PROVE  s[1] \in S /\ s = <<s[1]>>
<1>1. s[1] \in S
  OBVIOUS
<1>2. <<s[1]>> \in Seq(S) /\ Len(<<s[1]>>) = 1 /\ <<s[1]>>[1] = s[1]
  BY <1>1
<1>3. s = <<s[1]>>
  BY <1>2
<1>4. QED BY <1>1, <1>3

\* Every step keeps the history at most one line behind what was entered, and
\* only while the console's thread is between the two calls of handle_newline().
LEMMA StepHistory == IInv /\ [Next]_vars => (HistoryTrails /\ DoneAfterExit /\ StartsFirst)'
<1> SUFFICES ASSUME IInv, [Next]_vars PROVE (HistoryTrails /\ DoneAfterExit /\ StartsFirst)'
  OBVIOUS
<1>1. /\ input_queue_ \in Seq(Line) /\ input \in Seq(Line) /\ console_text \in Seq(Line)
      /\ appended \in Nat /\ saved \in Nat
      /\ Len(input) = IF mainPc = "input.add" THEN 1 ELSE 0
      /\ HistoryTrails /\ DoneAfterExit /\ StartsFirst
  BY DEF IInv, TypeOK, LocalsFollowPc
<1>2. Entered \in Nat
  BY <1>1 DEF Entered
<1>3. ASSUME UNCHANGED <<input_queue_, input, console_text>> PROVE Entered' = Entered
  BY <1>3 DEF Entered
<1> USE DEF HistoryTrails, DoneAfterExit, StartsFirst, historyVars
<1>4. CASE MainStep
  <2> USE DEF MainGoes, allButMainPc
  <2>1. CASE start
    BY <1>1, <1>3, <2>1 DEF start
  <2>2. CASE run_frame \/ sleep \/ TasksEmpty \/ InputEmpty \/ shutdown
    BY <1>1, <1>3, <2>2 DEF run_frame, sleep, TasksEmpty, InputEmpty, shutdown
  <2>3. CASE TasksPop \/ TasksRun \/ stop \/ Join
    BY <1>1, <1>3, <2>3 DEF TasksPop, TasksRun, stop, Join
  <2>4. CASE InputPop
    <3>1. Len(input') = 1 /\ Len(input_queue_') = Len(input_queue_) - 1 /\ Len(input) = 0
      BY <1>1, <2>4 DEF InputPop
    <3>2. Len(input_queue_) \in Nat /\ Len(console_text) \in Nat
      BY <1>1
    <3>3. Entered' = Entered
      BY <2>4, <3>1, <3>2 DEF InputPop, Entered
    <3>4. QED BY <1>1, <2>4, <3>3 DEF InputPop
  <2>5. CASE InputAdd
    <3>1. Len(console_text \o input) = Len(console_text) + Len(input)
      BY <1>1, ConcatLen
    <3>2. Len(input_queue_) \in Nat /\ Len(console_text) \in Nat /\ Len(input) = 1 /\ Len(<<>>) = 0
      BY <1>1, <2>5 DEF InputAdd
    <3>3. Entered' = Entered
      BY <2>5, <3>1, <3>2 DEF InputAdd, Entered
    <3>4. QED BY <1>1, <2>5, <3>3 DEF InputAdd
  <2>6. QED BY <1>4, <2>1, <2>2, <2>3, <2>4, <2>5 DEF MainStep
<1>5. CASE InputStep
  <2>1. Entered' = Entered
    BY <1>3, <1>5
       DEF InputStep, WhileRunning, PollTimeout, HistoryAppend, HistorySave, GetMatches,
           allButInputPc, mainVars
  <2> USE DEF InputGoes, allButInputPc, mainVars
  <2>2. CASE WhileRunning \/ PollTimeout \/ GetMatches
    BY <1>1, <2>1, <2>2 DEF WhileRunning, PollTimeout, GetMatches
  <2>3. CASE HistoryAppend \/ HistorySave
    BY <1>1, <1>2, <2>1, <2>3 DEF HistoryAppend, HistorySave
  <2>4. QED BY <1>5, <2>2, <2>3 DEF InputStep
<1>6. CASE ReadOther \/ ReadEscape \/ handle_escape
  BY <1>1, <1>3, <1>6 DEF ReadOther, ReadEscape, handle_escape, InputGoes, allButInputPc, mainVars
<1>7. ASSUME NEW line \in Line, ReadNewline(line)
      PROVE  (HistoryTrails /\ DoneAfterExit /\ StartsFirst)'
  <2>1. Len(input_queue_') = Len(input_queue_) + 1
    BY <1>1, <1>7 DEF ReadNewline
  <2>2. Len(input_queue_) \in Nat /\ Len(console_text) \in Nat /\ Len(input) \in Nat
    BY <1>1
  <2>3. Entered' = Entered + 1
    BY <1>7, <2>1, <2>2 DEF ReadNewline, mainVars, Entered
  <2>4. QED BY <1>1, <1>2, <1>7, <2>3 DEF ReadNewline, InputGoes, mainVars
<1>8. ASSUME NEW command \in Command, ReadTab(command)
      PROVE  (HistoryTrails /\ DoneAfterExit /\ StartsFirst)'
  BY <1>1, <1>3, <1>8 DEF ReadTab, InputGoes, mainVars
<1>9. CASE UNCHANGED vars
  BY <1>1, <1>3, <1>9 DEF vars
<1>10. QED BY <1>4, <1>5, <1>6, <1>7, <1>8, <1>9 DEF Next, KeyStep

-----------------------------------------------------------------------------

\* Every step preserves the inductive invariant.
LEMMA IInvStep == IInv /\ [Next]_vars => IInv'
BY StepTypeOK, StepControl, StepOneTask, StepHistory DEF IInv

\* Every reachable state satisfies the inductive invariant.
LEMMA SpecIInv == Spec => []IInv
BY InitIInv, IInvStep, PTL DEF Spec

\* The main thread never blocks in pop().
THEOREM MainThreadNeverBlocksInPop == Spec => []PopNeverWaits
<1>1. IInv => PopNeverWaits
  BY DEF IInv
<1>2. QED BY SpecIInv, <1>1, PTL

\* While a Tab waits, exactly one task or answer exists, and it is its own; at
\* other times there is none.
THEOREM TabGetsItsOwnAnswer == Spec => []OneTaskPerRequest
<1>1. IInv => OneTaskPerRequest
  BY DEF IInv
<1>2. QED BY SpecIInv, <1>1, PTL

\* A process that gets past the destruction of the console has saved every line
\* entered.
THEOREM ExitSavesHistory == Spec => []HistorySavedAtExit
<1>1. IInv => HistorySavedAtExit
  BY DEF IInv, TypeOK, HistoryTrails, DoneAfterExit, HistorySavedAtExit, Entered
<1>2. QED BY SpecIInv, <1>1, PTL

-----------------------------------------------------------------------------
(* The refinement of the command channel.                                  *)

\* An initial console is an initial channel.
LEMMA RefinesInit == Init => Channel!Init
BY DEF Init, Channel!Init

\* The loop's steps deliver the oldest line or leave the channel alone; the
\* console's thread enters a line at its end or leaves it alone.
LEMMA RefinesNext ==
    ASSUME IInv, [Next]_vars
    PROVE  [Channel!Next]_(Channel!vars)
<1>1. /\ input_queue_ \in Seq(Line) /\ input \in Seq(Line) /\ console_text \in Seq(Line)
      /\ Len(input) = IF mainPc = "input.add" THEN 1 ELSE 0
  BY DEF IInv, TypeOK, LocalsFollowPc
<1>2. ASSUME UNCHANGED <<input_queue_, input, console_text>> PROVE UNCHANGED Channel!vars
  BY <1>2 DEF Channel!vars
<1>3. CASE MainStep
  <2> USE DEF MainGoes, allButMainPc
  <2>1. CASE start \/ run_frame \/ sleep \/ TasksEmpty \/ InputEmpty \/ shutdown
    BY <1>2, <2>1 DEF start, run_frame, sleep, TasksEmpty, InputEmpty, shutdown
  <2>2. CASE TasksPop \/ TasksRun \/ stop \/ Join
    BY <1>2, <2>2 DEF TasksPop, TasksRun, stop, Join
  <2>3. CASE InputPop
    <3>1. input = <<>>
      BY <1>1, <2>3 DEF InputPop
    <3>2. input \o input_queue_ = input_queue_
      BY <1>1, <3>1
    <3>3. input' \o input_queue_' = input_queue_
      BY <1>1, <2>3 DEF InputPop
    <3>4. QED BY <2>3, <3>2, <3>3 DEF InputPop, Channel!vars
  <2>4. CASE InputAdd
    <3>1. PICK line \in Line : input = <<line>>
      <4>1. Len(input) = 1
        BY <1>1, <2>4 DEF InputAdd
      <4>2. input[1] \in Line /\ input = <<input[1]>>
        BY <1>1, <4>1, SingleElement
      <4>3. QED BY <4>2
    <3>2. /\ input \o input_queue_ # <<>>
          /\ Head(input \o input_queue_) = line
          /\ Tail(input \o input_queue_) = input_queue_
      BY <1>1, <3>1
    <3>3. console_text' = Append(console_text, line)
      BY <1>1, <2>4, <3>1 DEF InputAdd
    <3>4. input' \o input_queue_' = input_queue_
      BY <1>1, <2>4 DEF InputAdd
    <3>5. QED BY <3>2, <3>3, <3>4 DEF Channel!Next, Channel!Deliver
  <2>5. QED BY <1>3, <2>1, <2>2, <2>3, <2>4 DEF MainStep
<1>4. CASE InputStep \/ KeyStep
  <2>1. UNCHANGED <<input, console_text>>
    BY <1>4, InputThreadSteps DEF mainVars
  <2>2. CASE UNCHANGED input_queue_
    BY <1>2, <2>1, <2>2
  <2>3. ASSUME NEW line \in Line, input_queue_' = Append(input_queue_, line)
        PROVE  Channel!Next
    <3>1. input' \o input_queue_' = Append(input \o input_queue_, line)
      BY <1>1, <2>1, <2>3
    <3>2. QED BY <2>1, <3>1 DEF Channel!Next, Channel!Enter
  <2>4. QED BY <1>4, <2>2, <2>3, InputThreadSteps
<1>5. CASE UNCHANGED vars
  BY <1>2, <1>5 DEF vars
<1>6. QED BY <1>3, <1>4, <1>5 DEF Next

\* For every set of lines and keys, lines reach the engine each once and in the
\* order they were entered.
THEOREM ConsoleImplementsChannel == Spec => ImplementsChannel
<1>1. IInv /\ [Next]_vars => [Channel!Next]_(Channel!vars)
  BY RefinesNext
<1>2. QED
  BY SpecIInv, RefinesInit, <1>1, PTL DEF Spec, ImplementsChannel, Channel!Spec

-----------------------------------------------------------------------------
(* The guards around the console's loop take nothing from what was proved  *)
(* of the two threads, give the terminal back and never let the process be *)
(* stopped, on either system and whichever of their calls fail.            *)

\* The thread enters its guards when the constructor starts it, and the main
\* thread is past the join only when the thread has left them.
PhaseFollowsThreads ==
    /\ phase \in Phases
    /\ phase = "none" <=> mainPc = "construct"
    /\ mainPc = "done" => phase = "out"

\* The attributes are changed only where there is a terminal, never on Windows,
\* and what is kept of them is what the user had or nothing.
AttributesKept ==
    /\ windows => phase \in {"none", "loop", "out"} /\ ~is_stdin_terminal_
    /\ phase \in {"set", "reblock", "restore", "reunblock"} => is_stdin_terminal_
    /\ ~is_stdin_terminal_ => terminal = Untouched
    /\ phase \in {"none", "block", "get", "set"} => terminal = Untouched
    /\ original_attributes_ \in {Untouched, Zeroed}

\* Behind the last tcsetattr the terminal is the user's again; std::cout is as
\* it was before it is redirected and after that is undone.
GivenBack ==
    /\ phase \in {"reunblock", "out"} =>
           terminal = Untouched \/ restoreFailed \/ original_attributes_ = Zeroed
    /\ phase # "loop" => cout = "stdout"

\* Around every tcsetattr the signals are blocked, unless that failed.
MaskedAroundChanges ==
    /\ phase \in {"get", "set", "restore"} => mask \/ maskFailed
    /\ mask \in BOOLEAN
    /\ StoppedOnlyUnmasked

TInv ==
    /\ PhaseFollowsThreads /\ AttributesKept /\ GivenBack /\ MaskedAroundChanges

-----------------------------------------------------------------------------

\* The threads start as they do without the guards.
LEMMA GuardsInit == TerminalInit => Init
BY DEF TerminalInit

\* A step of a guard is none of the two threads, and theirs are as they were.
LEMMA GuardsStutter == [TerminalNext]_processVars => [Next]_vars
<1> SUFFICES ASSUME [TerminalNext]_processVars PROVE [Next]_vars
  OBVIOUS
<1>1. CASE MainRuns \/ InputRuns \/ KeyRuns
  BY <1>1 DEF MainRuns, InputRuns, KeyRuns, Next
<1>2. ASSUME NEW from, NEW to, Block(from, to) \/ Unblock(from, to) PROVE UNCHANGED vars
  BY <1>2 DEF Block, Unblock
<1>3. CASE get_attributes \/ set_attributes \/ redirect \/ restore_cout \/ restore_attributes
  BY <1>3 DEF get_attributes, set_attributes, redirect, restore_cout, restore_attributes,
              SetAttributes
<1>4. CASE UNCHANGED processVars
  BY <1>4 DEF processVars
<1>5. QED BY <1>1, <1>2, <1>3, <1>4 DEF TerminalNext, TerminalStep

\* What was proved of the threads holds of the process.
LEMMA TerminalIInv == TerminalSpec => []IInv
BY GuardsInit, GuardsStutter, InitIInv, IInvStep, PTL DEF TerminalSpec

\* With the guards of both systems around the loop: the main thread never
\* blocks in pop().
THEOREM GuardedMainThreadNeverBlocks == TerminalSpec => []PopNeverWaits
<1>1. IInv => PopNeverWaits
  BY DEF IInv
<1>2. QED BY TerminalIInv, <1>1, PTL

\* With them, an answer belongs to the Tab that asked for it.
THEOREM GuardedTabGetsItsOwnAnswer == TerminalSpec => []OneTaskPerRequest
<1>1. IInv => OneTaskPerRequest
  BY DEF IInv
<1>2. QED BY TerminalIInv, <1>1, PTL

\* With them, every line entered is saved when the console has been destroyed.
THEOREM GuardedExitSavesHistory == TerminalSpec => []HistorySavedAtExit
<1>1. IInv => HistorySavedAtExit
  BY DEF IInv, TypeOK, HistoryTrails, DoneAfterExit, HistorySavedAtExit, Entered
<1>2. QED BY TerminalIInv, <1>1, PTL

\* With them, lines reach the engine once each and in order.
THEOREM GuardedImplementsChannel == TerminalSpec => ImplementsChannel
<1>1. IInv /\ [Next]_vars => [Channel!Next]_(Channel!vars)
  BY RefinesNext
<1>2. QED
  BY TerminalIInv, GuardsInit, GuardsStutter, RefinesInit, <1>1, PTL
     DEF TerminalSpec, ImplementsChannel, Channel!Spec

-----------------------------------------------------------------------------

\* The initial states satisfy the invariant of the guards.
LEMMA InitTInv == TerminalInit => TInv
BY DEF TerminalInit, Init, TInv, PhaseFollowsThreads, AttributesKept, GivenBack,
       MaskedAroundChanges, StoppedOnlyUnmasked, Phases

\* The phases, one by one.
LEMMA PhasesListed ==
    Phases = {"none", "block", "get", "set", "unblock", "redirect", "loop", "reblock", "restore",
              "reunblock", "out"}
BY DEF Phases, SetUp, TearDown

\* A thread's step that leaves the guards alone keeps the construction and the
\* join where they were.
LEMMA ThreadsKeepTInv ==
    ASSUME TInv, MainRuns \/ InputRuns \/ KeyRuns PROVE TInv'
<1> USE DEF TInv, AttributesKept, GivenBack, MaskedAroundChanges, StoppedOnlyUnmasked,
            attributeVars, signalVars
<1>1. CASE MainRuns
  <2>1. mainPc' # "construct" /\ (mainPc = "construct" <=> start)
    BY <1>1 DEF MainRuns, MainStep, MainGoes, start, run_frame, sleep, TasksEmpty, TasksPop,
                TasksRun, InputEmpty, InputPop, InputAdd, shutdown, stop, Join
  <2>2. mainPc' = "done" => mainPc = "join"
    BY <1>1 DEF MainRuns, MainStep, MainGoes, start, run_frame, sleep, TasksEmpty, TasksPop,
                TasksRun, InputEmpty, InputPop, InputAdd, shutdown, stop, Join
  <2>3. CASE mainPc = "construct"
    <3>1. phase = "none" /\ phase' = IF windows THEN "loop" ELSE "block"
      BY <1>1, <2>3 DEF MainRuns, PhaseFollowsThreads
    <3>2. mainPc' = "run_frame"
      BY <2>1, <2>3 DEF start, MainGoes
    <3>3. QED BY PhasesListed, <1>1, <3>1, <3>2, <2>1 DEF MainRuns, PhaseFollowsThreads
  <2>4. CASE mainPc # "construct"
    BY <1>1, <2>1, <2>2, <2>4 DEF MainRuns, PhaseFollowsThreads
  <2>5. QED BY <2>3, <2>4
<1>2. CASE InputRuns \/ KeyRuns
  <2>1. UNCHANGED <<mainPc, terminalVars>>
    BY <1>2 DEF InputRuns, KeyRuns, InputStep, KeyStep, WhileRunning, PollTimeout, HistoryAppend,
                HistorySave, GetMatches, ReadOther, ReadEscape, handle_escape, ReadNewline,
                ReadTab, allButInputPc, mainVars
  <2>2. QED BY <2>1 DEF terminalVars, PhaseFollowsThreads
<1>3. QED BY <1>1, <1>2

\* The steps of the guards preserve it.
LEMMA GuardsKeepTInv ==
    ASSUME TInv, TerminalStep PROVE TInv'
<1> USE DEF TInv, PhaseFollowsThreads, AttributesKept, GivenBack, MaskedAroundChanges,
            StoppedOnlyUnmasked, PhaseGoes, attributeVars, signalVars, vars, TryChangeMask
<1>1. CASE Block("block", "get")
  BY PhasesListed, <1>1 DEF Block
<1>2. CASE Block("reblock", "restore")
  BY PhasesListed, <1>2 DEF Block
<1>3. CASE Unblock("unblock", "redirect")
  BY PhasesListed, <1>3 DEF Unblock
<1>4. CASE Unblock("reunblock", "out")
  BY PhasesListed, <1>4 DEF Unblock
<1>5. CASE get_attributes
  BY PhasesListed, <1>5 DEF get_attributes
<1>6. CASE set_attributes
  <2>1. /\ UNCHANGED <<windows, is_stdin_terminal_, original_attributes_, mask, maskFailed, cout, mainPc>>
        /\ is_stdin_terminal_ /\ (mask \/ maskFailed)
    BY <1>6 DEF set_attributes, SetAttributes
  <2>2. stopped' => stopped \/ ~mask
    BY <1>6 DEF set_attributes, SetAttributes
  <2>3. QED BY PhasesListed, <1>6, <2>1, <2>2 DEF set_attributes, SetAttributes
<1>7. CASE redirect
  BY PhasesListed, <1>7 DEF redirect
<1>8. CASE restore_cout
  BY PhasesListed, <1>8 DEF restore_cout
<1>9. CASE restore_attributes
  <2>1. /\ UNCHANGED <<windows, is_stdin_terminal_, original_attributes_, mask, maskFailed, cout, mainPc>>
        /\ is_stdin_terminal_ /\ (mask \/ maskFailed)
    BY <1>9 DEF restore_attributes, SetAttributes
  <2>2. stopped' => stopped \/ ~mask
    BY <1>9 DEF restore_attributes, SetAttributes
  <2>3. QED BY PhasesListed, <1>9, <2>1, <2>2 DEF restore_attributes, SetAttributes
<1>10. QED BY <1>1, <1>2, <1>3, <1>4, <1>5, <1>6, <1>7, <1>8, <1>9 DEF TerminalStep

\* Every reachable state satisfies it.
LEMMA TerminalTInv == TerminalSpec => []TInv
<1>1. TInv /\ [TerminalNext]_processVars => TInv'
  <2> SUFFICES ASSUME TInv, [TerminalNext]_processVars PROVE TInv'
    OBVIOUS
  <2>1. CASE UNCHANGED processVars
    BY <2>1 DEF processVars, terminalVars, attributeVars, signalVars, vars, TInv,
                PhaseFollowsThreads, AttributesKept, GivenBack, MaskedAroundChanges,
                StoppedOnlyUnmasked
  <2>2. QED BY <2>1, ThreadsKeepTInv, GuardsKeepTInv DEF TerminalNext
<1>2. QED BY InitTInv, <1>1, PTL DEF TerminalSpec

\* Behind the join std::cout and the terminal are as the user left them, unless
\* the attributes could not be read or could not be set.
THEOREM TerminalIsGivenBack == TerminalSpec => []TerminalGivenBack
<1>1. TInv => TerminalGivenBack
  BY DEF TInv, PhaseFollowsThreads, GivenBack, TerminalGivenBack
<1>2. QED BY TerminalTInv, <1>1, PTL

\* Changing the attributes never stops the server, unless the mask could not be
\* changed.
THEOREM GuardsKeepServerRunning == TerminalSpec => []StoppedOnlyUnmasked
<1>1. TInv => StoppedOnlyUnmasked
  BY DEF TInv, MaskedAroundChanges
<1>2. QED BY TerminalTInv, <1>1, PTL
=============================================================================
