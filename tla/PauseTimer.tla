------------------------------ MODULE PauseTimer -----------------------------
(***************************************************************************)
(* How the server loop sleeps between two frames on Linux.  At level 1 of  *)
(* -pingboost the main thread arms a 1 ms timer and calls pause().  Any    *)
(* thread may handle SIGALRM, and at any point, also between arming and    *)
(* pausing, so the handler arms the timer again until the main thread,     *)
(* awake, says stop.  The other levels sleep in a call that returns.       *)
(***************************************************************************)
EXTENDS Integers

CONSTANTS
    Thread,  \* the threads of the process
    Main     \* the one that runs the server loop

ASSUME MainAssumption == Main \in Thread

VARIABLES
    pingboost,  \* the level, 0 to 5
    pc,         \* where the main thread is
    installed,  \* sigalrm_handler is the disposition of SIGALRM
    paused,
    timer,      \* ITIMER_REAL is armed
    pending,    \* SIGALRM is pending for the process
    handler     \* where each thread is in sigalrm_handler, if at all

signal == <<timer, pending, handler>>
vars == <<pingboost, pc, installed, paused, timer, pending, handler>>

Levels == 0..5
Timer == 1 \* the level that pauses

Points == {"run", "frame", "sleep", "clear", "arm", "enter", "pause", "set", "exit"}

\* The types of the main thread, the timer, the signal and each thread's handler.
TypeOK ==
    /\ pingboost \in Levels
    /\ pc \in Points
    /\ installed \in BOOLEAN
    /\ paused \in {0, 1}
    /\ timer \in BOOLEAN
    /\ pending \in BOOLEAN
    /\ handler \in [Thread -> {"none", "entered", "test", "arm"}]

Init ==
    /\ pingboost \in Levels
    /\ pc = "run"
    /\ installed = FALSE
    /\ paused = 0
    /\ timer = FALSE
    /\ pending = FALSE
    /\ handler = [t \in Thread |-> "none"]

-----------------------------------------------------------------------------
(* The main thread, which runs nothing else while it is in the handler.    *)

Goes(from, to) == pc = from /\ pc' = to /\ handler[Main] = "none" /\ UNCHANGED pingboost

\* Mutant of get_sleep_func: the handler is not installed.
get_sleep_func_bare ==
    /\ Goes("run", "frame")
    /\ UNCHANGED <<installed, paused, signal>>

\* A handler that cannot be installed aborts the process: nothing to follow.
get_sleep_func ==
    /\ Goes("run", "frame")
    /\ installed' = (installed \/ pingboost = Timer)
    /\ UNCHANGED <<paused, signal>>

\* The engine runs a frame, and the tasks and the input after it.
run_frame ==
    /\ Goes("frame", IF pingboost = Timer THEN "clear" ELSE "sleep")
    /\ UNCHANGED <<installed, paused, signal>>

run_last_frame ==
    /\ Goes("frame", "exit")
    /\ UNCHANGED <<installed, paused, signal>>

\* sleep_1ms, sleep_1ms_poll, sleep_net, sleep_1us and yield_thread.
sleep_thread ==
    /\ Goes("sleep", "frame")
    /\ UNCHANGED <<installed, paused, signal>>

\* Mutant of ClearPaused: the flag is left as the last sleep set it.
PausedLeft == Goes("clear", "arm") /\ UNCHANGED <<installed, paused, signal>>

\* sleep_timer, up to and including the call of set_timer_real.
ClearPaused ==
    /\ Goes("clear", "arm")
    /\ paused' = 0
    /\ UNCHANGED <<installed, signal>>

SetTimer ==
    /\ Goes("arm", "enter")
    /\ timer' = TRUE
    /\ UNCHANGED <<installed, paused, pending, handler>>

SetTimerFails ==
    /\ Goes("arm", "set")
    /\ UNCHANGED <<installed, paused, signal>>

\* Up to here a signal the main thread handles does not end the pause.
EnterPause ==
    /\ Goes("enter", "pause")
    /\ UNCHANGED <<installed, paused, signal>>

\* pause() has returned.
SetPaused ==
    /\ Goes("set", "frame")
    /\ paused' = 1
    /\ UNCHANGED <<installed, signal>>

-----------------------------------------------------------------------------
(* The kernel and the handler.                                             *)

TimerExpires ==
    /\ timer
    /\ timer' = FALSE
    /\ pending' = TRUE
    /\ UNCHANGED <<pingboost, pc, installed, paused, handler>>

\* The signal is blocked in a thread that is handling it.
Deliver(t) ==
    /\ pending /\ handler[t] = "none"
    /\ pending' = FALSE
    /\ handler' = [handler EXCEPT ![t] = "entered"]
    /\ UNCHANGED <<pingboost, pc, installed, paused, timer>>

\* The handler installs itself again, which changes nothing here.
HandlerInstalls(t) ==
    /\ handler[t] = "entered"
    /\ installed' = TRUE
    /\ handler' = [handler EXCEPT ![t] = "test"]
    /\ UNCHANGED <<pingboost, pc, paused, timer, pending>>

\* A handler that returns in the main thread ends its pause().
Leave(t) ==
    /\ handler' = [handler EXCEPT ![t] = "none"]
    /\ pc' = IF t = Main /\ pc = "pause" THEN "set" ELSE pc

\* Mutant of HandlerTests: the handler never arms the timer.
HandlerNeverArms(t) ==
    /\ handler[t] = "test"
    /\ Leave(t)
    /\ UNCHANGED <<pingboost, installed, paused, timer, pending>>

\* Mutant of HandlerTests: the handler arms the timer, asked to stop or not.
HandlerAlwaysArms(t) ==
    /\ handler[t] = "test"
    /\ handler' = [handler EXCEPT ![t] = "arm"]
    /\ UNCHANGED <<pingboost, pc, installed, paused, timer, pending>>

HandlerTests(t) ==
    /\ handler[t] = "test"
    /\ IF paused = 0
       THEN handler' = [handler EXCEPT ![t] = "arm"] /\ UNCHANGED pc
       ELSE Leave(t)
    /\ UNCHANGED <<pingboost, installed, paused, timer, pending>>

HandlerArms(t) ==
    /\ handler[t] = "arm"
    /\ timer' = TRUE
    /\ Leave(t)
    /\ UNCHANGED <<pingboost, installed, paused, pending>>

sigalrm_handler(t) == HandlerInstalls(t) \/ HandlerTests(t) \/ HandlerArms(t)

-----------------------------------------------------------------------------

SleepStep ==
    \/ sleep_thread \/ ClearPaused \/ SetTimer \/ SetTimerFails \/ EnterPause \/ SetPaused

Next ==
    \/ get_sleep_func \/ run_frame \/ run_last_frame \/ SleepStep
    \/ TimerExpires
    \/ \E t \in Thread : Deliver(t) \/ sigalrm_handler(t)

\* Threads run and timers expire.  A frame may last for ever.  The kernel gives
\* a signal of the process to the main thread first if it can take it, so it is
\* not handed to others again and again.
Fairness ==
    /\ WF_vars(SleepStep) /\ WF_vars(TimerExpires)
    /\ \A t \in Thread : WF_vars(sigalrm_handler(t))
    /\ SF_vars(Deliver(Main))
    /\ WF_vars(\E t \in Thread : Deliver(t))

Spec == Init /\ [][Next]_vars /\ Fairness

-----------------------------------------------------------------------------

\* The thread's handler will arm the timer.
Rearms(t) == handler[t] = "arm" \/ (handler[t] \in {"entered", "test"} /\ paused = 0)

\* While the main thread is about to pause or pauses something will wake it,
\* whichever thread took the last alarm and wherever the main thread was then:
\* the alarm cannot have come and gone unseen.
WakeupComing ==
    pc \in {"enter", "pause"} => timer \/ pending \/ \E t \in Thread : Rearms(t)

\* No SIGALRM is ever on its way with the default disposition, which would end
\* the process.
HandlerBeforeAlarm == timer \/ pending => installed

\* The main thread comes back from every pause.
PauseReturns == pc = "pause" ~> pc # "pause"

\* No alarm is armed, pending or being handled.
Quiet == ~timer /\ ~pending /\ \A t \in Thread : handler[t] = "none"

\* Alarms do not go on interrupting a main thread that no longer sleeps.
AlarmsDieOut == pc = "frame" ~> (Quiet \/ pc # "frame")
=============================================================================
