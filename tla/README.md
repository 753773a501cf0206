# ReHLDS-M in TLA+

ReHLDS-M is a launcher for the Half-Life Dedicated Server: it parses the
command line, loads the filesystem and engine libraries, and then runs the
engine frame by frame while a second thread serves the operator's console.
This directory models that program, checks it with TLC and proves its central
properties with TLAPS. Paths below are relative to the repository.

## Inventory

| Component | Files | State | Operations | Talks to |
|---|---|---|---|---|
| Entry point and shutdown | `apps/hlds/src/hlds/hlds.main.cpp`, `libs/core/src/core/init.cpp` | the shared objects of the process | construct, run the loop, `shutdown`, destroy | everything |
| Server loop | `libs/model/src/model/server_loop.cpp`, `linux/`, `windows/` | `task_queue_`, `input_queue_`, pingboost level, target FPS, pacing average, status | `run`, `process_tasks`, `process_input`, `enqueue_*`, `update_status` | engine, queues, observers |
| Console input | `libs/view/src/view/console_input.cpp`, `linux/`, `windows/` | `running_`, the thread, the line, its cursor, the saved draft | one handler per key, `start`, `stop` | presenter, terminal |
| Input presenter | `libs/presenter/include/presenter/input_presenter.hpp` | none of its own | enqueue a line, find matches, walk the history | loop, history, engine commands |
| Thread-safe queue | `libs/util/include/util/threadsafe_queue.hpp` | queue, mutex, condition variable | `push`, `emplace`, `pop`, `front`, `back`, `clear`, `empty`, `size`, copying and moving | the two threads |
| Command history | `libs/model/src/model/userinput_history.cpp`, `libs/util/src/util/file.cpp` | ring, position, file | `append`, `next`, `previous`, `clear`, `load`, `save` | file system |
| Circular buffer | `libs/util/include/util/circular_buffer.hpp` | array, two indices, a flag | push/pop/read at both ends, `clear` | the history |
| Object list | `libs/common/src/common/object_list.cpp` | deque, cursor `current_` | add/remove at both ends, `first`, `next`, `contains` | handed to the engine |
| Command line | `libs/core/src/core/cmdline_args.cpp`, `cmdline_processor.cpp` | the current string | find, set, remove an argument; the processing order | engine |
| Lifecycle and singletons | `libs/util/src/util/lifecycle.cpp`, `singleton.hpp`, `libs/common/src/common/module_wrapper.cpp` | stack of callbacks, instances, loaded modules | register, run at exit, get, destroy | everything that is torn down |
| Signals, timer, terminal | `libs/util/**/linux/signal.*`, `libs/view/include/view/linux/*.hpp`, `model/linux/server_loop.cpp` | handlers, masks, `paused`, terminal modes | set, block, restore, `sleep_timer` | kernel |
| Server status | `observable.hpp`, `output_presenter.hpp`, `windows/console_view.cpp` | listeners, the time of the last update, the scroll position | append, notify, draw | loop, engine, view |
| Log | `logger.cpp`, `logger.hpp`, `log_output.hpp`, `linux/console_view.hpp` | sinks, a file's buffer, objects made at first use | log, format, sink, flush | every thread, `exit` |

What is hard in this code:

- two threads meet in two queues, a future and a join, and the queues are
  tested and popped in separate critical sections;
- `stop()` joins a thread that may be waiting for the very loop that has ended;
- the history file is the only copy and is truncated before it is rewritten;
- a ring whose `clear()` leaves its elements behind is read by code that
  assumes it does not;
- a condition variable is waited on and never notified;
- an alarm may be handled by any thread, and before the main thread pauses for it;
- the console's thread changes a terminal and a signal mask that outlive it, and
  every one of those calls can fail;
- the engine may end the process from inside its own code, with a second thread
  still writing to a log whose parts `exit` destroys one after the other.

`PROJECT.json` lists the hazards at their lines with the properties that cover
them. These hazards no property covers:

- `front()`, `back()` and `emplace()` return references that outlive the mutex
  (`threadsafe_queue.hpp:404`); nothing in the launcher calls them.
- The draft set aside by Up survives Enter (`console_input.cpp:249`), and engine
  output lands in the row being edited (`console_input.cpp:131`): nothing in the
  repository says what should happen.
- A read from the terminal in the background stops the process, since the signals
  are blocked only around the changes of attributes; and an engine that ends the
  process leaves the attributes as the console set them. `TerminalGivenBack` is
  about the normal path only.
- `-targetfps` without a usable value (`init.cpp:113`): the operator's pingboost is
  gone and `sys_ticrate` is 0, but the loop does not pace itself.
  `LoopFollowsOperator` states this outcome rather than catch it, as nothing says
  what should happen.
- A callback that registers a callback (`lifecycle.cpp:39`) and a file that names
  itself with `@` (`cmdline_args.cpp:81`): neither happens in the launcher's own
  use.

## Modules

| Module | What it is |
|---|---|
| `CircularBuffer` | the ring as pure operators on a record of the array, two indices and the flag |
| `BoundedDeque` | abstract: what a caller of the ring relies on |
| `CircularBufferCalls` | one ring under every sequence of calls; refines `BoundedDeque` |
| `UserInputHistory` | the history on top of the ring's operators, with its file and restarts |
| `CommandChannel` | abstract: entered lines reach the engine once, in order |
| `ServerConsole` | both threads, their queues, the future, the shutdown; refines `CommandChannel` |
| `ConsoleTerminal` | `ServerConsole` with the guards around the console's loop: signal mask, terminal attributes, `std::cout`; Linux and Windows |
| `FifoQueue` | abstract: elements leave in order, each at most once |
| `ThreadSafeQueue` | the queue at the grain of its mutex; refines `FifoQueue` |
| `Terminal` | a row of the terminal: write, erase, move left |
| `ConsoleInput` | the line editor, a key per action, over `Terminal` and `INSTANCE UserInputHistory` |
| `PauseTimer` | `sleep_timer()`, the kernel's timer and signal, `sigalrm_handler` in any thread |
| `ServerLoop` | `run()` on both systems: paced by its moving average, or over `PauseTimer`; the status from the engine to the window |
| `Lifecycle` | the process from `main` to its end: singletons, modules and their cached interfaces, `at_exit` callbacks |
| `Log` | the logger's sinks and its flushing, and what `exit` destroys of it |
| `Process` | `Lifecycle` with `Log`, the life of the console's thread, and the aborts of that thread and of the handler of `SIGALRM` |
| `ObjectList` | the list the engine walks with `first()` and `next()` |
| `CmdLineArgs` | the operators on the text of the command line |
| `Launch` | `main`'s path of the command line: logger, eight handlers, engine, loop |
| `UserInputHistory_proofs` | what the ring's operators preserve and return, and the theorems of `CircularBufferCalls` and `UserInputHistory` |
| `Launch_proofs` | what searching, erasing and `remove` do to a text's words, and the theorems of `Launch` |
| `ServerConsole_proofs`, `ServerLoop_proofs`, `Lifecycle_proofs` | the theorems of `ServerConsole` and `ConsoleTerminal`, of `PauseTimer` and `ServerLoop`, of `Lifecycle` and `Process` |
| other `*_proofs` | the theorems of the module they are named for |
| `MC_*` | sets and bounds for TLC |

How they compose: `CircularBufferCalls` and `UserInputHistory` share the
operators of `CircularBuffer` (and `ConsoleInput_proofs` the lemmas
`UserInputHistory_proofs` states of them); `ConsoleInput` uses the history's actions
by `INSTANCE`, with the file's loops at rest; `Launch` uses
`CmdLineArgs`. `ServerConsole` takes each call of the queue as one step, which
`ThreadSafeQueue` justifies (a call is one critical section), and abstracts the
line editor to the keys that reach other components and the history to two
counters (lines appended, lines saved). `ConsoleTerminal` adds the guards to its
steps, `ServerLoop` takes `PauseTimer`'s steps as they are, and `Process` makes
each step of `Lifecycle` together with what it does to the log: in all three the
smaller module's specification is implied, so what was proved of it carries over.

### How state and actions correspond to the code

Variables and actions have the names of the members and functions they stand
for; where a function is several steps because another actor can run in
between, the steps are actions with capital names.

- `CircularBuffer`: `head_`, `tail_`, `full_` and the array are the record's
  fields. The array always has `N` elements, as in the code, so an erased one
  can still be read.
- `UserInputHistory`: `history_` and `position_` are the members. `load` and
  `save` are loops (`LoadBegin`/`LoadLine`/`LoadEnd`,
  `SaveBegin`/`SaveLine`/`SaveEnd`/`SaveFail`); `mode` and `lines` are where a
  loop is. `Restart` is the death of the process at any point and a new object;
  only `file` outlives it. `pristine`, `saved` and `intact` are history
  variables that only properties read. A file that cannot be opened or read
  changes nothing and so is a stutter. A line torn in half by a failed write is
  not distinguished from one that was not written.
- `ServerConsole`: `mainPc` goes round `run_frame`, `sleep`, the three steps of
  `process_tasks` and the three of `process_input`; `empty()` and `pop()` are
  separate, as each takes the mutex by itself. `inputPc` is the loop of
  `input_worker`: the test of `running_`, the poll, one key. Enter is
  three steps (queue the line, append, save), Tab two (queue the task, wait in
  `get()`). `result` is the future's shared state.
- `ConsoleTerminal`: `phase` is the next call of the console's thread outside of
  its loop: block, get, set, unblock and redirect before it, and the destructors
  in reverse order after it. `terminal`, `original_attributes_` and
  `modified_attributes_` tell apart whose attributes they are and whether the
  terminal edits lines; a failed `tcgetattr` leaves them zeroed, as
  `ScopedTerminalSettings` does. `mask` is what `sigprocmask` did. A `tcsetattr`
  in the background stops the process unless the signals are blocked. On Windows
  the loop begins at once and an arrow is one event, so there is no read inside an
  escape sequence.
- `ThreadSafeQueue`: `mutex_` holds its owner, `cond_var_` its waiters. `pop`
  copies and removes in two steps under one lock. No method notifies, so a
  waiter leaves only by `SpuriousWake`.
- `ConsoleInput`: one action per `handle_*` function. Each prints its own
  change; `row` is what the terminal shows afterwards. The row does not wrap.
  Characters are their codes, which is what `std::string` compares. `Sorted` is
  a rearrangement in that order, as `std::sort` promises, and `get_command_matches`
  a recursive function over the list the engine gives.
- `PauseTimer`: the main thread's position in `run()` and `sleep_timer()`; for
  each thread its position in the handler. The main thread runs nothing else
  while it is in the handler. The other pingboost levels are one step.
- `ServerLoop`: `at` is the next call of a loop that is not `PauseTimer`'s. The
  durations are integers, in units; `Quotient` is the code's division, toward
  zero; `Smoothing` tabulates 1 - 0.9 exp(-q) in thousandths, which is all the
  code can ask for, since `duration.count() - ama_duration.count()` is divided by
  `ama_duration.count()` as integers. `Averages` allows the last unit either way
  that the cast from floating point may lose. `screen` says whether the window
  shows the status as it is.
- `Lifecycle`: `callbacks` is the stack of `lifecycle.cpp`; `instance` and
  `loaded` are the singletons and modules; `pc` names the calls of `main`, the
  loop over callbacks and the destruction of static objects. Any step may fail
  where the code has an error path; the engine may call `exit` or `quick_exit`
  from `init` or the loop. `sleep` is the loop before its first frame, where
  `get_sleep_func` and the timer resolution of Windows may abort; `AbortElsewhere`
  is an abort of something that is not the main thread.
- `Log`, `Process`: a message goes through `view`, `file` and `flush`, each under
  the mutex of its sink, so that two threads interleave between them.
  `destructors` is what `exit` is to run, the latest registered first:
  `run_callbacks` and the two objects of the log made at first use. `late` records
  who used one of them after its destruction, which the language leaves
  undefined; the model only notes it and goes on. `critical` are the threads whose
  message is why they abort, and `written` what became of it: a thread aborts when
  it has said why, and nothing is flushed after that, so a reason that is still in
  the file's buffer is lost. The console's thread begins with `starting`, in which
  it may fail to get its input handle on Windows; the handler of `SIGALRM` may run
  in any thread, in the middle of whatever it writes, and aborts without a word.
  `aborter` is who ended the process so.
- `ObjectList`: `container_` and `current_` as in the code. `marks` is a history
  variable: for each element whether the walk is still to return it, has
  returned it, or it came after the walk began. Only `first()` and `clear()`
  begin a walk; every other call keeps the mark of each element, `contains`,
  `sort` and `erase` too, whatever they do to the cursor.
- `CmdLineArgs`, `Launch`: the command line is one text, a sequence of
  characters (`Char`), because the code's errors are about positions in it. The
  launcher's names are shortened to two letters. The loop of `remove` is a
  function of the number of turns, of which as many as the text is long are
  enough (`RemoveLeavesNone`). `cleared` is what became of the log's file: it was
  left alone, or truncated, or that was tried and failed. `Words` reads a text as the sequence of its words,
  and `Without`, `Has` and `OptionOf` say of words what `remove`, `contains` and
  `get_argument_option` do to the text.

## What the runs check

| Run | Module | Shows |
|---|---|---|
| `ring` | `MC_CircularBufferCalls` | every mix of calls at both ends does what a bounded deque promises (`ImplementsDeque`), and a raised `full_` means equal indices |
| `history` | `MC_UserInputHistory` | the arrow keys stay on entries that exist; no invalid input and no repeated neighbours, also after eviction, `clear()` and a hand-edited file; a load after a completed save restores it |
| `history_crash` | `MC_UserInputHistory` | violation: the saved history does not survive a death or a failed write inside `save()` |
| `console` | `MC_ServerConsole` | on both systems, with any call of the guards failing: lines reach the engine once and in order; the main thread never waits in `pop()`; a Tab gets the answer to its own command; the history is complete at exit; neither queue starves; `stop()` ends unless the thread is in a wait; the terminal and `std::cout` are given back; no change of the attributes stops the process |
| `console_stop_tab` | `MC_ServerConsole` | violation: `stop()` does not end when a Tab is waiting as the loop ends |
| `queue` | `MC_ThreadSafeQueue` | elements leave in order and once under any calls of any threads; a waiter never keeps a caller that has nothing to wait for from returning (`CallersReturn`) |
| `queue_wait` | `MC_ThreadSafeQueue` | violation: a waiting `pop()` is not woken by a push |
| `editor` | `MC_ConsoleInput` | the row shows the line after every key; a walk over the history always has a draft to return to; Tab finds the longest prefix shared by all matches |
| `pause_timer` | `MC_PauseTimer` | a pause always has a wake-up on its way and ends; alarms stop once the main thread is awake; no alarm before its handler; the moving average never jumps past the round it averages, and the sleep comes back after a stall; on Windows the window shows the status again after any change or scroll |
| `lifecycle` | `MC_Lifecycle` | the engine is outlived by what it was handed; callbacks find what they take down; an ended process left undone only what was refused; a thread that aborts has written why, whatever the other is writing; and who can use a log that `exit` has destroyed |
| `object_list` | `MC_ObjectList` | a walk returns each element that stays exactly once, but for the calls listed below |
| `launch` | `MC_Launch` | the engine gets exactly the words that are not the launcher's; log, files and loop are set up as the operator's words say |

The runs reach, in distinct states: `ring` 684, `history` 64 058, `console`
213 837, `queue` 54 052, `editor` 194 533, `pause_timer` 97 310, `lifecycle`
972 878, `object_list` 6 480, `launch` 197 240.

Where a run's properties say more about every variable than its type invariant
does, the type invariant is left to the module (`TerminalTypeOK`, `LoopTypeOK`,
`ProcessTypeOK` and the like); most of them are proved, see below.

Each property of a passing run has a mutant in `PROJECT.json`: a definition
changed the way a mistake in the code would change it, under which TLC finds the
property violated.

### Findings

1. `history_crash`: `README.md:15` says the last 100 commands are saved and
   loaded on startup. `file_write_lines` truncates the only copy and writes it
   line by line, so a process that dies, or a write that fails, in between
   leaves fewer entries than either the old or the new history.
2. `console_stop_tab`: `stop()` "Stops the input worker thread"
   (`console_input.hpp:74`). A Tab whose task is still queued when the engine
   ends the loop waits for ever in `matches.get()`, and `stop()` joins that
   thread: the process hangs at exit. The run has no Escape among its keys, so
   this is the only wait it can be.
3. `queue_wait`: `pop()` "blocks until an element becomes available"
   (`threadsafe_queue.hpp:206`); nothing notifies `cond_var_`. The launcher is
   safe from it because its only consumer tests first: `PopNeverWaits`.

Two more places where the documentation says something else are left open by a
passing property, as an exception or a condition of it:

- `contains()` "checks if the container contains the specified object"
  (`object_list.hpp:102`). It also moves the cursor of the walk to what it finds
  (`object_list.cpp:101`): after `first()` has returned an object, `contains()` of
  it makes `next()` return it again (`CursorMoved` in `CallsKeepWalk`).
- `-conclearlog`, "if present", clears `qconsole.log` "every time the server starts"
  (`README.md:75`, and `:22`). The handler returns when the logger has no file
  (`cmdline_processor.cpp:74`), and it has one only with `-condebug`: without it the
  file of an earlier start stays as it is. `FilesFollowOperator` says nothing of
  this case.

### Exceptions the passing properties name

The code departs from the plain form of some properties. They are stated with
the departure as an explicit exception or condition, so that the rest is still
checked:

- `TerminalGivenBack`: attributes that could not be read are set from zeroed ones
  (`terminal_settings.hpp:50`), and those are also what is given back; and a last
  `tcsetattr` that fails leaves the terminal as it is.
- `StoppedOnlyUnmasked`: a `sigprocmask` that fails is logged and the attributes
  are changed all the same.
- `AbortIsWritten`: a reason with braces in it does not reach the view, which
  takes the finished text for a format string (`console_view.hpp:65`). The handler
  of `SIGALRM` aborts without giving a reason (`linux/server_loop.cpp:56-58`).
- `LateMessages`: the console's thread is not joined when the engine ends the
  process, and can write to a log that is gone; the main thread can when
  `at_exit` refused a callback, or when the first message of all came after the
  first callback, which destroys the table of prefixes before the callbacks run.
- `StopEndsUnlessWaiting`: a thread in a Tab's `get()`, or in the blocking
  `read()` after a lone Escape, holds `stop()` up.
- `KeysKeepRowInSync`: a completion while the cursor is inside the line is
  printed at the cursor but appended at the end.
- `AppendRemembers`: on a ring emptied by `clear()`, `back()` is an erased
  element, and an input equal to it is dropped.
- `CallsKeepWalk`: `remove_tail()` compares the cursor with `size() - 1`
  (`TailMisjudged`); `contains()` where it moves the cursor, and `sort()` and
  `erase()` once the cursor has left the start, make `next()` repeat or skip
  (`CursorMoved`).
- `EngineIsOutlived`, `NothingLeftBehind`: a callback `at_exit` refused is not
  run; nobody looks at its result.
- The four launch properties: `TellsApart` (in `Launched`), that launcher names
  occur as whole words only and blanks are single. Otherwise `rfind` finds a name
  inside another word and `remove` cuts it out.
- `LoopFollowsOperator`, and the process identifier in `FilesFollowOperator`:
  `OneOptionEach`. `remove` takes one word along with an argument; a second one
  behind it becomes the option of whatever argument is before it then
  (`-targetfps -condebug 2 9` sets a target of 9). `EngineGetsTheRest` needs no
  such exception: its `Without` says that the last argument goes first, each with
  the word that is then behind it.
- `LoopFollowsOperator` states what the code does with `-targetfps` without a
  usable value: level 0.
- `FilesFollowOperator` says nothing of `-conclearlog` without `-condebug`, which is
  where the code and the documentation disagree.

## Bounds, and why they are enough

| Run | Bound | Why |
|---|---|---|
| `ring` | capacity 3, three values | indices differ, meet and wrap; every fill from empty to full; a lost and a repeated element are told apart |
| `history`, `history_crash` | capacity 3; files of up to 4 lines over a blank and two inputs | a file longer than the ring, with invalid and repeated lines, evicts while it is loaded; only equality of inputs matters to the code |
| `console` | two lines, two commands, `MaxEntered` = 3, every result of every call of the guards | two lines in the queue and one in the loop's local show a swap or a loss; two commands show a wrong answer; Tabs are not bounded |
| `console_stop_tab` | the same without Escape | see the finding |
| `queue` | three threads, 2 pushes | two consumers and a producer; two elements show a swap; every other call is unbounded |
| `queue_wait` | two threads, 3 pushes | a waiter and a producer |
| `editor` | history of 2; a letter typed into lines of up to 2; names of up to 3 letters; lines entered from a blank and two valid ones | every position of the cursor (start, inside, end); completions make lines of 4; an eviction; names for which the first and the last in the engine's order share more than all do |
| `pause_timer` | three threads; targets of 1, 2 and 100 with a second of 20 units and a largest int of 100; rounds of -3, 0, 2, 9 and 60; an update every 2 ticks; 2 scrolls | the main thread and two others can be at different points of the handler at once; a target whose sleep is long, short and lost to the conversion; rounds that are early (Windows), calm, late and three times a second; averages that are zero, below zero and above the round |
| `lifecycle` | none | finite by itself: a message is only its place, and one may follow another without end |
| `object_list` | lists of up to 4, a cursor of up to 5, two objects | two elements on each side of the cursor, the same object twice, and the cursor past the end |
| `launch` | up to 3 of 19 arguments, files nested to depth 2 | an argument before, between and after others, given twice, given with, without, with a bad and with two options, hidden in another word, or read from a file; three are enough for an argument that is removed between the one it leaves an option to and the one that reads it |

`MaxPushes` counts pushes under way, so a thread is never stuck in a call because
of the bound. `MaxEntered`, `MaxLine` and `MaxPushes` sit in the guard of the
action that starts an operation, never inside one. `MaxSize` and `MaxCurrent`
bound the additions to an `ObjectList`. Symmetry is not used: three runs check
liveness or a refinement and the others are small.

Deadlock is checked in `ring`, `history`, `history_crash`, `editor` and
`object_list`. It is off where the system really stops: the process ends
(`console`, `console_stop_tab`, `pause_timer`, `lifecycle`), the server runs and
nothing more happens to the command line (`launch`), or every thread waits in
`pop()` (`queue`, `queue_wait`).

## Fairness, and why the code justifies it

- `ServerConsole`: weak fairness of each thread. The operating system schedules
  both, the engine returns from a frame, a sleep ends (`PauseTimer`), a poll has
  a timeout, and the join returns once the thread has ended. Keys (`KeyStep`)
  have no fairness: nobody has to press one, and nothing has to follow a lone
  Escape.
- `ThreadSafeQueue`: weak fairness of the steps inside a critical section and
  strong fairness of `Lock`: a thread gets a mutex that is free again and again.
  No fairness of `Call` or of `SpuriousWake`: no one has to call, and the
  standard only allows a wake-up.
- `PauseTimer`: weak fairness of the main thread's steps of a sleep, of the
  timer and of each handler. Strong fairness of the delivery to the main thread:
  the kernel gives a signal of the process to it first when it can take it. A
  frame of the engine may last for ever.
- `ConsoleTerminal`: as `ServerConsole`, and the calls around the loop return. A
  process stopped by SIGTTOU goes on when somebody continues it.
- `ServerLoop`: as `PauseTimer`, and in the loops of Windows and of `-targetfps`
  each step is taken: there the properties say `at = "done"` where the engine ends
  the loop, and a frame returns. The clock goes on (`Tick`). Nobody has to scroll.
- The other modules state safety only.

## What is proved

TLAPS checks these theorems, for every value of the constants that the named
assumptions allow. Each invariant is a conjunction that TLC checked first in the
small, made inductive by the conjuncts named here.

| Theorem | States |
|---|---|
| `RingIsTyped` | `CallsTypeOK` always holds: both indices inside the array, and a read returns an element |
| `RingFlagIsRight` | `FullMeansIndicesMeet` always holds |
| `RingImplementsDeque` | `CircularBufferCalls` implements `BoundedDeque` |
| `ArrowKeysStayInHistory` | `PositionInRange` always holds |
| `ArrowKeysShowEntries` | `ShownIsReachable` always holds |
| `HistoryHasNoRepeats` | `NoRepeatedNeighbours` always holds |
| `AppendsAreRemembered` | `AppendRemembers` always holds |
| `LoadsBringSavesBack` | every step keeps `LoadRestoresSave` |
| `QueueImplementsFifo` | `ThreadSafeQueue` implements `FifoQueue`, for any number of threads |
| `MainThreadNeverBlocksInPop` | `PopNeverWaits` always holds |
| `TabGetsItsOwnAnswer` | `OneTaskPerRequest` always holds |
| `ExitSavesHistory` | `HistorySavedAtExit` always holds |
| `ConsoleImplementsChannel` | `ServerConsole` implements `CommandChannel` |
| `GuardedMainThreadNeverBlocks`, `GuardedTabGetsItsOwnAnswer`, `GuardedExitSavesHistory`, `GuardedImplementsChannel` | the same four of `ConsoleTerminal` |
| `TerminalIsGivenBack` | `TerminalGivenBack` always holds |
| `GuardsKeepServerRunning` | `StoppedOnlyUnmasked` always holds |
| `AlarmIsNeverMissed` | `WakeupComing` always holds |
| `HandlerComesFirst` | `HandlerBeforeAlarm` always holds |
| `LoopNeverMissesAlarm`, `LoopHandlerComesFirst` | the same two of `ServerLoop` |
| `AverageStaysBetween` | every step of `ServerLoop` keeps `AverageBracketed`, for rounds of any length |
| `LoopTypes` | `LoopTypeOK` always holds: no sleep is negative |
| `CursorStaysInLine` | `TypeOK` of `ConsoleInput` always holds |
| `WalksHaveADraft` | `DraftHeldDuringWalk` always holds |
| `KeysPrintWhatTheyChange` | every key keeps `KeysKeepRowInSync`, for lines of any length |
| `TabsFindTheCommonPrefix` | every Tab keeps `TabFindsCommonPrefix`, for any commands |
| `EngineIsAlwaysOutlived` | `EngineIsOutlived` always holds |
| `CallbacksAlwaysFind` | `CallbacksFindTheirThings` always holds |
| `NothingIsLeftBehind` | `NothingLeftBehind` always holds |
| `AbortIsAlwaysWritten` | `AbortIsWritten` always holds |
| `OnlyKnownMessagesAreLate` | `LateMessages` always holds |
| `ListIsTyped` | `TypeOK` of `ObjectList` always holds |
| `WalksAreKept` | every call keeps `CallsKeepWalk`, for lists of any length |
| `LaunchIsTyped` | `TypeOK` of `Launch` always holds |
| `RemoveLeavesNone` | after `remove()`, `contains()` finds no argument of that name, in any text |
| `RemoveTakesWords` | `remove()` takes the arguments and their options out of a text's words and keeps the others |
| `EngineGetsWhatIsMeantForIt` | `EngineGetsTheRest` always holds, for command lines and files of any length |
| `PacedEngineRunsFree` | `EngineRunsFreeWhenPaced` always holds |
| `LoopIsTheOperators` | `LoopFollowsOperator` always holds |
| `FilesAreTheOperators` | `FilesFollowOperator` always holds |

Assumptions. `NAssumption`: the capacity is a positive natural, as a
ring of none has no slot to index (the launcher's is 100). `TAssumption`: a default value is a value.
`ValidAssumption`: the default (empty) input is not valid. `FilesAssumption`,
`MarkersAssumption`, `FreeAssumption`: the markers `NoFile`, `NoInput`, `Free`
are none of the things they stand beside. `ThreadAssumption`: a process has
finitely many threads. `PacingAssumption`: targets are positive and fit an int, as
`init_server_loop` ensures, and durations are whole. `KeysAssumption`: keys are of the kinds
the code tells apart. `MainAssumption`: the main thread is a thread.
`LinesAssumption`: the editor's history holds texts, the empty one among them.
`CommandsAssumption`: the engine's commands are a list of words over the letters,
and a character is an integer, as `std::string` compares them. `NoInputAssumption`,
`NullAssumption`: the markers of a history without an input and of a stack of
callbacks that does not exist are no texts and no stacks. `ObjectAssumption`:
objects can be sorted. `CharAssumption`, `LetterAssumption`: the blank, the signs
and the letters of the launcher's own names are characters. `NoOptionAssumption`:
`std::nullopt` is no text. `FileWordsAssumption`, `CommandLineAssumption`: a file
and a command line are sequences of texts, which may themselves hold blanks.
`NestingAssumption`: files are read to a depth that is a natural.
`NumberAssumption`: the words that are numbers have integers. The two bounds are naturals (`MaxEnteredAssumption`,
`MaxPushesAssumption`). TLC evaluates each one in a run.

The arguments.

- *Ring.* `Coherent` (indices inside the array, `full` only where they meet) is
  preserved by every operator; lemmas give `Size`, `Items`, and what a push or a
  pop at either end does to `Items`. The refinement maps the deque to
  `Items(ring)`: a call on a full ring overwrites the element at the other end,
  which the deque's operation drops.
- *History.* `PositionInRange` says nothing while `load()` runs, so the step out
  of the loop must set it: `LoopFacts` says that nothing was shown since the loop
  began and that a save has its file. The rest follows from the ring's lemmas:
  an index below `Size` is an element of `Items`. That there are no repeats needs
  that `back()` is the newest entry of a ring that has one, and that evicting the
  oldest keeps neighbours neighbours. `AppendRemembers` needs `PristineRing`: on
  an empty ring nothing was stored in, `back()` is the default value, which is no
  valid input, also after the `clear()` that begins a load. `LoadRestoresSave` is
  about two loops with a death between them; `SaveInv` carries it: what `save()`
  has written and has still to write is the history (`LoopsAreHalfway`), what it
  left is free of invalid and repeated lines and no longer than the ring
  (`SavedIsLoadable`), so that `load()` neither drops nor evicts a line of it, and
  what that has remembered and has still to read is the history saved.
- *Queue.* `CopyIsFront`: from the copy of the front to its removal the caller
  holds the mutex and the front has not changed; so every other call finds no
  copy under way (`NobodyElseCopied`). `PushesBounded` keeps the bound of the
  model and needs the cardinality of the adding threads.
- *Console.* That `pop()` finds an element depends on the other thread only
  appending (`InputThreadSteps`); the locals hold an element exactly between
  `pop()` and its use (`LocalsFollowPc`), which is also what the refinement maps
  with the queue to the channel's pending lines. `OneTaskPerRequest` is
  inductive with it: the queue, the local and the future together hold the one
  command asked for. `HistoryTrails` counts the lines appended and saved behind
  those entered, and `DoneAfterExit` and `StartsFirst` order the two threads'
  lives, so that at exit none is outstanding.
- *Terminal.* A step of the guards stutters in `ServerConsole` and a step of a
  thread is one of its own (`GuardsStutter`), so its invariant and its refinement
  hold. `AttributesKept` follows the terminal to the set and back to the restore,
  and says that there is neither without a terminal, nor on Windows;
  `PhaseFollowsThreads` that the join is behind the last of the guards.
- *Loop.* In the same way a step of `ServerLoop` stutters in `PauseTimer` or is
  one of its steps. For the average: the coefficient has eight values, whatever
  is divided by whatever (`CoefficientValues`); with each of them the mean is
  between the round and the average (`MeanBetween`); and a quotient toward zero
  stays between whole bounds of either sign (`QuotientBetween`).
- *Timer.* The wake-up alone is not inductive: a handler that reads `paused`
  must read zero. `FlagIsClear` keeps it so from before the timer is armed to
  the end of the pause; `SleepsWithTimer` and `InstalledFirst` say that a
  handler is there whenever an alarm can be.
- *Editor.* A row is what each of its columns shows (`Shows`), and what a string
  printed at a column changes of it is one lemma (`WriteFacts`); so a key is
  right when it has printed the line from the first column that changed and
  blanks over what became too long (`PrintsOver`), and stepped back to the
  cursor. `DraftHeldDuringWalk` is inductive with the history's own facts: an
  Up goes on to an entry only from one or with a draft just set aside, a Down past
  the newest takes the draft back, and Enter puts the position behind the newest
  entry, also when it evicts one. The lemmas of the ring serve here with the
  ring that `ConsoleInput` instantiates.
- *Tab.* The code compares only the first and the last of the sorted matches.
  That they exist needs that any list of texts can be sorted (`AllSortable`, by
  `Insertion`) and that the order of `std::string` is one (`BeforeIrreflexive`,
  `BeforeTransitive`); that they are enough, that whatever lies between two texts
  has every prefix the two share (`BetweenSharesPrefix`). `MatchesTyped` is about a
  recursion along the list of commands. The library's induction theorems are out
  of the prover's reach, since they take an operator as a parameter; the
  arguments that need induction take the least natural that fails instead
  (`LeastNatural`, from the well-foundedness of `<`).
- *Lifecycle.* No conjunct about one thing is inductive, for `exit` runs what any
  failure on the way has left. `IInv` says of the start what is registered and
  stands (`StartedInOrder`), of the stack that what was registered later is on top
  (`LatestOnTop`), and of the end that what waits on it still stands
  (`TakenDownInOrder`): the engine is above all it uses. `LogInv` is inductive
  given `IInv`: the registry is made before the stack, so `exit` destroys it after
  `run_callbacks` (`MadeBelowStack`), and the reason of an abort is followed
  through its sinks for each thread by itself (`ReasonGetsOut`), since whatever
  the other writes leaves it where it is or takes it along to the file. That an
  abort in the loop finds what the start made is `UpHasEverything`.
- *Object list.* The lists are of any length, and what a call does to the marks
  is shown element by element; `CallsKeepWalk` compares the two sides of the
  cursor before and after a call and needs no more than `TypeOK`. A lookup that
  leaves the cursor, and a sort or an erasure at the start of the walk, keep it
  because there the marks on the two sides are all of one kind.
- *Command line.* Positions in a text are turned into words once: a tidy text
  (`Tidy`: `TellsApart`, without a blank at its ends) is empty, a word, or two
  tidy texts one blank apart (`Glue`), and its words are those of the one and then
  those of the other (`GlueWords`). In a tidy text a match of `rfind` is a whole
  word, so the last match of `find_argument_pos` splits the words at the last
  argument of that name, `OptionAt` is the word behind it, and `Erase` leaves the
  two sides glued, at the start, in the middle and at the end alike. So a turn of
  the loop in `remove` keeps the text tidy and keeps `Without` of its words, and
  since `RemoveLeavesNone` says that no argument is left after the last turn, what
  is left is `Without` of the words at first (`RemoveTakesWords`). What the launcher
  adds are words glued on. `IInv` then follows the text from handler to handler
  (`WordsSoFar`: `Given`, `Steamed`, `Consoled`, `Paced`, `ForEngine`), the files
  (`FilesSoFar`) and the engine's text and the loop (`LoopSoFar`); all of it under
  the condition `TellsApart` of the operator's own text, which no step changes.
  The properties speak of the operator's words and the handlers read what is left
  of them; that an option is the same in both is the lemma `ForEngineFacts`, and
  is where `OneOptionEach` is needed. TLC checked `IInv` on command lines of up to
  two of the run's arguments before it was proved.

Only model-checked:

- every liveness property, which is beyond the prover's reach, as fairness is:
  `CallersReturn` (`queue`); `TabAnswered`, `StopEndsUnlessWaiting` and
  `EnteredReachesEngine` (`console`); `PauseReturns`, `AlarmsDieOut`,
  `PacingRecovers` and `StatusDrawnAgain` (`pause_timer`). Every invariant, every
  action property and every refinement of a passing run is proved.

The three violations are TLC's: there is nothing to prove of a property that
fails.

## Not modelled

- Formatting and layout: the text, prefixes and colours of log lines, the columns
  of the list of matches, the wording of the status. Output of the engine in the
  row being edited.
- The exponential of the smoothing as floating point: it is a table in
  thousandths. A clock that does not go on.
- The decoding of escape sequences, beyond the blocking reads it does.
- The names of commands the engine may give with blanks around them or empty:
  `find_command_matches` trims and skips them (`console_commands.cpp:47-53`), and
  the completion of a single match takes for granted that it is no shorter than
  the line (`console_input.cpp:231`). The model's names are words.
- A log file that cannot be opened.
- The launcher's own registry behind `CreateInterface`, filled before `main` and
  only read afterwards; the vgui interface, the thread-safe `SingletonHolder` and
  the `NoDestroy` policy, which nothing uses; callbacks that register callbacks,
  of which there are none.
- The references `front()`, `back()` and `emplace()` return: no code of the
  launcher uses them. What a queue holds that was copied or moved from another.
- `@file` arguments that include themselves (the code recurses without end), and
  the static `find_argument_index`, which nothing calls.
- The writing of a crash dump and single calls of the Windows API.
- The engine, the C library, the kernel and the terminal: external, modelled as
  far as the code uses them. Which names the engine matches to a prefix is one of
  these.
- Build files, tests and resources.

Two comments differ from the code in ways no property states. The average is
said to be one "of loop execution times" (`server_loop.cpp:81`), but the clock
is read after `run_frame()`, so a frame's own time is not in it. `run()` is said
to update the status (`server_loop.hpp:68`, `:78`), which it does on Windows only.

## Plan

What is left, in the order of what it would add:

1. A composition of `ServerConsole` with `UserInputHistory` in place of its two
   counters, so that the order of queueing a line, appending and saving is
   checked against the file and a restart.
2. The life of the objects `main` holds (loop, history, view) in `Process`, with
   the callbacks that `exit` runs while the console's thread still uses them.
