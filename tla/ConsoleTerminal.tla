--------------------------- MODULE ConsoleTerminal --------------------------
(***************************************************************************)
(* The two threads of ServerConsole, with what the console's thread does   *)
(* to the terminal around its loop.  On Linux it takes the terminal out of *)
(* line mode and sends std::cout to it, and undoes both after the loop, in *)
(* reverse order; the two signals that stop a background process which     *)
(* touches its terminal are blocked while it changes the attributes.  On   *)
(* Windows the loop starts at once and reads console events.  A key is     *)
(* read only inside the loop, and the join waits for the end of the        *)
(* thread, not of the loop.                                                *)
(***************************************************************************)
EXTENDS ServerConsole

VARIABLES
    windows,              \* built for Windows
    phase,                \* the next call of the thread outside of its loop
    terminal,             \* the attributes the terminal has
    is_stdin_terminal_,   \* ScopedTerminalSettings::is_stdin_terminal_
    original_attributes_, \* ScopedTerminalSettings::original_attributes_
    modified_attributes_, \* ScopedTerminalSettings::modified_attributes_
    blocked_,             \* ScopedSignalBlocker::blocked_ of the one in scope
    mask,                 \* SIGTTIN and SIGTTOU are in the thread's mask
    cout,                 \* where std::cout writes
    maskFailed,           \* a change of the mask has failed (history)
    stopped,              \* the process has been stopped by SIGTTOU (history)
    restoreFailed         \* the last tcsetattr has failed (history)

attributeVars == <<terminal, is_stdin_terminal_, original_attributes_, modified_attributes_>>
signalVars == <<blocked_, mask, maskFailed, stopped>>
terminalVars == <<windows, phase, attributeVars, signalVars, cout, restoreFailed>>
processVars == <<vars, terminalVars>>

SetUp == <<"block", "get", "set", "unblock", "redirect", "loop">>
TearDown == <<"loop", "reblock", "restore", "reunblock", "out">>
Phases == {"none"} \union {SetUp[i] : i \in 1..6} \union {TearDown[i] : i \in 1..5}

\* Whose attributes they are, and whether lines are edited and echoed by the
\* terminal (ICANON and ECHO).
Attributes == [of : {"user", "nobody"}, lineMode : BOOLEAN]
Untouched == [of |-> "user", lineMode |-> TRUE]
Zeroed == [of |-> "nobody", lineMode |-> FALSE]
Raw(attributes) == [attributes EXCEPT !.lineMode = FALSE]

\* The types of the terminal's state and of the objects that guard it.
TerminalTypeOK ==
    /\ TypeOK
    /\ windows \in BOOLEAN /\ phase \in Phases
    /\ terminal \in Attributes /\ original_attributes_ \in Attributes
    /\ modified_attributes_ \in Attributes /\ is_stdin_terminal_ \in BOOLEAN
    /\ blocked_ \in BOOLEAN /\ mask \in BOOLEAN
    /\ cout \in {"stdout", "tty", "null"}
    /\ maskFailed \in BOOLEAN /\ stopped \in BOOLEAN /\ restoreFailed \in BOOLEAN

TerminalInit ==
    /\ Init
    /\ windows \in BOOLEAN
    /\ phase = "none"
    /\ terminal = Untouched
    /\ is_stdin_terminal_ = FALSE
    /\ original_attributes_ = Zeroed /\ modified_attributes_ = Zeroed
    /\ blocked_ = FALSE /\ mask = FALSE
    /\ cout = "stdout"
    /\ maskFailed = FALSE /\ stopped = FALSE /\ restoreFailed = FALSE

-----------------------------------------------------------------------------
(* The guards around the loop.                                             *)

PhaseGoes(from, to) == phase = from /\ phase' = to

\* Mutant of Block: the blocker is a temporary, gone when its line ends.
BlockForOneLine(from, to) ==
    /\ PhaseGoes(from, to)
    /\ blocked_' = FALSE
    /\ UNCHANGED <<vars, windows, attributeVars, mask, maskFailed, stopped, cout, restoreFailed>>

\* sigemptyset, sigaddset and sigprocmask: one may fail, and the mask stays.
TryChangeMask(to, succeeded) ==
    /\ mask' = IF succeeded THEN to ELSE mask
    /\ maskFailed' = (maskFailed \/ ~succeeded)

\* ScopedSignalBlocker's constructor.
Block(from, to) ==
    /\ PhaseGoes(from, to)
    /\ \E succeeded \in BOOLEAN : blocked_' = succeeded /\ TryChangeMask(TRUE, succeeded)
    /\ UNCHANGED <<vars, windows, attributeVars, stopped, cout, restoreFailed>>

\* Its destructor unblocks only what was blocked.
Unblock(from, to) ==
    /\ PhaseGoes(from, to)
    /\ blocked_' = FALSE
    /\ IF blocked_
       THEN \E succeeded \in BOOLEAN : TryChangeMask(FALSE, succeeded)
       ELSE UNCHANGED <<mask, maskFailed>>
    /\ UNCHANGED <<vars, windows, attributeVars, stopped, cout, restoreFailed>>

\* isatty, then tcgetattr: if it fails the zeroed attributes stay, and the ones
\* to set are made of them.
get_attributes ==
    /\ phase = "get"
    /\ is_stdin_terminal_' \in BOOLEAN
    /\ original_attributes_' \in IF is_stdin_terminal_' THEN {terminal, Zeroed} ELSE {Zeroed}
    /\ modified_attributes_' = Raw(original_attributes_')
    /\ phase' = IF is_stdin_terminal_' THEN "set" ELSE "unblock"
    /\ UNCHANGED <<vars, windows, terminal, signalVars, cout, restoreFailed>>

\* tcsetattr.  In the background it stops the process until somebody brings it
\* to the foreground, unless the signal is blocked; then it does its work.
SetAttributes(attributes, failed) ==
    /\ terminal' = IF failed THEN terminal ELSE attributes
    /\ stopped' \in IF mask THEN {stopped} ELSE {stopped, TRUE}
    /\ UNCHANGED <<vars, windows, is_stdin_terminal_, original_attributes_,
                   modified_attributes_, blocked_, mask, maskFailed, cout>>

set_attributes ==
    /\ PhaseGoes("set", "unblock")
    /\ \E failed \in BOOLEAN : SetAttributes(modified_attributes_, failed)
    /\ UNCHANGED restoreFailed

\* ScopedTtyRedirect: the terminal, or /dev/null without one or if it has no
\* name; std::cout stays as it is when that cannot be opened.
redirect ==
    /\ PhaseGoes("redirect", "loop")
    /\ cout' \in {"stdout", "null"} \union (IF is_stdin_terminal_ THEN {"tty"} ELSE {})
    /\ UNCHANGED <<vars, windows, attributeVars, signalVars, restoreFailed>>

\* The destructors run in reverse order: std::cout first, and the attributes
\* only if there was a terminal.  On Windows there are none.
restore_cout ==
    /\ phase = "loop" /\ inputPc = "exited"
    /\ cout' = "stdout"
    /\ phase' = IF ~windows /\ is_stdin_terminal_ THEN "reblock" ELSE "out"
    /\ UNCHANGED <<vars, windows, attributeVars, signalVars, restoreFailed>>

\* Mutant of restore_attributes: what was set is set again.
set_again ==
    /\ PhaseGoes("restore", "reunblock")
    /\ \E failed \in BOOLEAN :
        /\ SetAttributes(modified_attributes_, failed)
        /\ restoreFailed' = failed

restore_attributes ==
    /\ PhaseGoes("restore", "reunblock")
    /\ \E failed \in BOOLEAN :
        /\ SetAttributes(original_attributes_, failed)
        /\ restoreFailed' = failed

TerminalStep ==
    \/ Block("block", "get") \/ get_attributes \/ set_attributes
    \/ Unblock("unblock", "redirect") \/ redirect \/ restore_cout
    \/ Block("reblock", "restore") \/ restore_attributes \/ Unblock("reunblock", "out")

-----------------------------------------------------------------------------
(* The two threads.                                                        *)

\* The constructor starts the thread; the join returns at the end of read_input.
MainRuns ==
    /\ MainStep
    /\ mainPc = "join" => phase = "out"
    /\ phase' = IF mainPc # "construct" THEN phase ELSE IF windows THEN "loop" ELSE "block"
    /\ UNCHANGED <<windows, attributeVars, signalVars, cout, restoreFailed>>

InputRuns == phase = "loop" /\ InputStep /\ UNCHANGED terminalVars

\* Windows reports an arrow as one event: there is no escape sequence to read,
\* and what is not a key that was pressed is passed over.
KeyRuns ==
    /\ phase = "loop"
    /\ KeyStep
    /\ windows => inputPc' # "escape"
    /\ UNCHANGED terminalVars

TerminalNext == MainRuns \/ InputRuns \/ KeyRuns \/ TerminalStep

\* The calls around the loop return, as do those in it.
TerminalFairness ==
    WF_processVars(MainRuns) /\ WF_processVars(InputRuns) /\ WF_processVars(TerminalStep)

TerminalSpec == TerminalInit /\ [][TerminalNext]_processVars /\ TerminalFairness

-----------------------------------------------------------------------------

\* When the console has been destroyed std::cout writes where it did before,
\* whatever happened, and the terminal has the attributes its user gave it,
\* unless they could not be read or could not be set.
TerminalGivenBack ==
    mainPc = "done" =>
        /\ cout = "stdout"
        /\ \/ terminal = Untouched
           \/ restoreFailed
           \/ original_attributes_ = Zeroed

\* Changing the attributes from the background never stops the server, unless
\* the signals' mask could not be changed.
StoppedOnlyUnmasked == stopped => maskFailed
=============================================================================
