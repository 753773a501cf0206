------------------------------- MODULE Process ------------------------------
(***************************************************************************)
(* The process: Lifecycle with the log, the console's thread and the       *)
(* handler of SIGALRM.  The main thread writes why before it aborts, and so*)
(* does the console's thread, at any time; the handler does not.  The code *)
(* main() calls, the engine's too, may write at any time; so may the       *)
(* console's thread, which is joined when the loop ends but not when the   *)
(* engine ends the process.                                                *)
(***************************************************************************)
EXTENDS Lifecycle, Log

VARIABLES
    con_debug, \* -condebug was given
    console,   \* the console's thread
    aborter    \* who has aborted the process (history)

allVars == <<vars, logVars, con_debug, console, aborter>>

\* The types of Lifecycle and Log, and of the thread they share.
ProcessTypeOK ==
    /\ TypeOK /\ LogTypeOK
    /\ con_debug \in BOOLEAN
    /\ console \in {"none", "starting", "running", "joined"}
    /\ aborter \in Writer \union {"none", "handler"}

ProcessInit ==
    /\ Init /\ LogInit
    /\ con_debug \in BOOLEAN
    /\ console = "none" /\ aborter = "none"

\* main() calls nothing else while it writes, and aborts when it has said why.
MainMoves ==
    /\ writing["main"] = "no"
    /\ ("main" \in critical) = (pc' = "aborted")
    /\ aborter' = IF pc' = "aborted" THEN "main" ELSE aborter

Due == IF destructors = <<>> THEN "run_callbacks" ELSE Head(destructors)

\* exit() gets to run_callbacks, and to static objects, in its turn.
InTurn ==
    /\ pc = "ending" /\ ending = "exit" => Due = "run_callbacks"
    /\ pc = "statics" => destructors = <<>>

\* Asking for run_callbacks at exit puts it before what was made earlier.
Schedules ==
    IF callbacks = Null /\ "exit" \in hooks' /\ (hooks' # hooks \/ callbacks' # Null)
    THEN Registered /\ UNCHANGED <<destroyed, late, tableLate>>
    ELSE UNCHANGED exitVars

\* Mutant of Console: the console's thread is not waited for.
ConsoleDetached ==
    console' = IF pc' = "sleep" THEN "starting" ELSE console

\* run_server_loop makes the console, and its thread, before the loop; the end
\* of the loop, but not the engine, destroys it.
Console ==
    IF pc' = "sleep" THEN console' = "starting"
    ELSE IF pc = "loop" /\ engineUp /\ ~engineUp'
    THEN console' = "joined" /\ console = "running" /\ writing["console"] = "no"
    ELSE UNCHANGED console

LifecycleStep ==
    /\ Next
    /\ MainMoves /\ InTurn
    /\ Console
    /\ IF pc = "logger" THEN log_init(con_debug) ELSE Schedules /\ UNCHANGED messageVars
    /\ UNCHANGED con_debug

\* Where code called by main() writes: a warning, an error of a file, and what
\* the engine and the filesystem print through HldsExports, in their last calls
\* too.
print ==
    /\ \/ pc \in {"processor", "locale", "engine.init", "server.api", "loop"}
       \/ pc = "run" /\ callbacks # <<>>
       \/ pc = "statics" /\ instance # {} /\ destructors = <<>>
    /\ log("main", FALSE, FALSE)
    /\ UNCHANGED <<vars, con_debug, console, aborter>>

\* The text names what failed, a path included.
Complain ==
    /\ MayAbort
    /\ \E hasBraces \in BOOLEAN : log("main", TRUE, hasBraces)
    /\ UNCHANGED <<vars, con_debug, console, aborter>>

\* The process and its threads are gone, or about to be.
Over == pc \in {"ended", "aborted"}

\* The console's thread has what it needs to read.
ConsoleReads ==
    /\ console = "starting" /\ "console" \notin critical /\ ~Over
    /\ console' = "running"
    /\ UNCHANGED <<vars, logVars, con_debug, aborter>>

\* On Windows it may get no handle of the input: it says so, and aborts.
ConsoleComplains ==
    /\ windows /\ console = "starting" /\ ~Over
    /\ \E hasBraces \in BOOLEAN : log("console", TRUE, hasBraces)
    /\ UNCHANGED <<vars, con_debug, console, aborter>>

ConsoleAborts ==
    /\ "console" \in critical /\ writing["console"] = "no"
    /\ AbortElsewhere
    /\ aborter' = "console"
    /\ UNCHANGED <<logVars, con_debug, console>>

\* The handler of SIGALRM, which any thread may run in the middle of what it is
\* doing once the loop has set the timer, aborts without a word when it cannot
\* install itself again.
AlarmAborts ==
    /\ ~windows /\ pc # "sleep" /\ console # "none"
    /\ AbortElsewhere
    /\ aborter' = "handler"
    /\ UNCHANGED <<logVars, con_debug, console>>

ConsoleLogs ==
    /\ console = "running" /\ ~Over
    /\ log("console", FALSE, FALSE)
    /\ UNCHANGED <<vars, con_debug, console, aborter>>

LogStep ==
    /\ ~Over
    /\ \E t \in Writer : Writes(t)
    /\ UNCHANGED <<vars, con_debug, console, aborter>>

\* exit() destroys what was made since run_callbacks was asked for before it
\* runs it, and the rest afterwards.
ExitDestroys ==
    /\ writing["main"] = "no"
    /\ \/ pc = "ending" /\ ending = "exit" /\ Due # "run_callbacks"
       \/ pc = "statics"
    /\ DestroyLatest
    /\ UNCHANGED <<vars, con_debug, console, aborter>>

ProcessNext ==
    \/ LifecycleStep \/ print \/ Complain \/ LogStep \/ ExitDestroys
    \/ ConsoleReads \/ ConsoleLogs \/ ConsoleComplains \/ ConsoleAborts
    \/ AlarmAborts

ProcessSpec == ProcessInit /\ [][ProcessNext]_allVars

-----------------------------------------------------------------------------

\* A thread that aborts the process has said why: in the file, if there is one,
\* and on the view, unless the reason has braces in it, whatever the other thread
\* was doing or writing at the time.  The handler of SIGALRM says nothing.
AbortIsWritten ==
    pc = "aborted" /\ aborter # "handler" =>
        /\ "file" \in sinks => <<aborter, "filed">> \in written
        /\ \/ <<aborter, "shown">> \in written
           \/ aborter \in braces /\ "view" \in sinks

\* Who uses the log after exit() has destroyed it: the console's thread, only
\* if the engine has ended the process; the main thread, only through a module
\* whose destruction at_exit refused, or if the first message of all came after
\* the first callback.
LateMessages ==
    /\ \A object \in LogObject : <<"console", object>> \in late => engineUp
    /\ <<"main", "registry">> \in late => refused # {}
    /\ <<"main", "prefixes">> \in late => tableLate \/ refused # {}
=============================================================================
