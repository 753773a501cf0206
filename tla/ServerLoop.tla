----------------------------- MODULE ServerLoop -----------------------------
(***************************************************************************)
(* Model::ServerLoop::run on both systems.  With -targetfps the loop paces *)
(* itself: it sleeps for the time a frame may take less an average of what *)
(* a round took beyond its sleep.  Without, it sleeps as -pingboost says;  *)
(* on Linux that is PauseTimer, whose steps are taken here as they are, on *)
(* Windows every level is a call that returns.  On Windows each round also *)
(* updates the status: twice a second the engine fills it in, the presenter*)
(* is notified, and the view draws it, unless the window was scrolled.     *)
(***************************************************************************)
EXTENDS PauseTimer, Sequences

CONSTANTS
    TargetFps,   \* values of -targetfps
    Second,      \* a second, in units of time
    LargestInt,  \* the largest value of an int
    Duration,    \* what a round may take beyond the sleep it asked for
    Calm,        \* the most a round takes when nothing is wrong
    Interval,    \* 500 ms, in ticks
    MaxScrolls   \* bound on how often the window is scrolled

ASSUME PacingAssumption ==
    /\ TargetFps \subseteq 1..LargestInt /\ Second \in Nat \ {0} /\ LargestInt \in Nat
    /\ Duration \subseteq Int /\ Calm \in Nat
    /\ Interval \in Nat /\ MaxScrolls \in Nat

VARIABLES
    windows,               \* built for Windows
    target_fps_,           \* 0 unless -targetfps was given
    at,                    \* the next call of a loop that is not PauseTimer's
    target_sleep_duration,
    ama_duration,
    sleep_duration,
    duration,              \* of the last round
    elapsed,               \* ticks since last_update_time
    listeners_,            \* Observable::listeners_
    window_top,            \* the first line the window shows
    current_scroll_pos_,   \* ConsoleView::current_scroll_pos_
    screen                 \* the status as the window shows it

pacingVars == <<target_sleep_duration, ama_duration, sleep_duration, duration>>
statusVars == <<elapsed, listeners_, window_top, current_scroll_pos_, screen>>
buildVars == <<windows, target_fps_>>
loopVars == <<vars, buildVars, at, pacingVars, statusVars>>

Never == -1 \* is_time_to_update has not been called yet

\* The types of the pacing, of the status and of where the loop is.
LoopTypeOK ==
    /\ TypeOK
    /\ windows \in BOOLEAN /\ target_fps_ \in TargetFps \union {0}
    /\ at \in {"construct", "run", "levels", "frame", "sleep", "update", "work", "average", "done"}
    /\ target_sleep_duration \in 0..Second /\ ama_duration \in Int
    /\ sleep_duration \in Nat /\ duration \in Duration \union {0}
    /\ elapsed \in Never..Interval /\ listeners_ \subseteq {"OutputPresenter"}
    /\ window_top \in 0..MaxScrolls /\ current_scroll_pos_ \in 0..MaxScrolls
    /\ screen \in {"current", "stale"}

Paced == target_fps_ > 0

\* The level says nothing to a paced loop; that of a loop on Windows only names
\* the call it sleeps in, so one level stands for all.
LoopInit ==
    /\ Init
    /\ windows \in BOOLEAN
    /\ target_fps_ \in TargetFps \union {0}
    /\ Paced \/ windows => pingboost = 0
    /\ at = "construct"
    /\ target_sleep_duration = 0 /\ ama_duration = 0 /\ sleep_duration = 0 /\ duration = 0
    /\ elapsed = Never
    /\ listeners_ = {}
    /\ window_top = 0 /\ current_scroll_pos_ = 0
    /\ screen = "stale"

AtGoes(from, to) == at = from /\ at' = to /\ UNCHANGED <<vars, buildVars>>

-----------------------------------------------------------------------------
(* The average of the rounds.                                              *)

\* Division of the code: toward zero.
Quotient(a, b) ==
    LET Abs(n) == IF n < 0 THEN -n ELSE n
    IN  IF (a < 0) = (b < 0) THEN Abs(a) \div Abs(b) ELSE -(Abs(a) \div Abs(b))

\* 1 - 0.9 exp(-q) for q = 0, 1, ..., in thousandths; 1 from q = 7 on.
Smoothing == <<100, 669, 878, 955, 984, 994, 998>>

\* Mutant of SmoothingCoefficient: the distance keeps its sign, and exp grows.
SignedCoefficient(d, ama) ==
    LET q == Quotient(d - ama, ama)
    IN  IF ama = 0 THEN 1000
        ELSE IF q < 0 THEN -1446
        ELSE IF q < Len(Smoothing) THEN Smoothing[q + 1] ELSE 1000

\* calculate_adaptive_smoothing_coefficient: the quotient is one of integers, 0
\* for anything up to twice the average.
SmoothingCoefficient(d, ama) ==
    LET q == Quotient(d - ama, ama)
        distance == IF q < 0 THEN -q ELSE q
    IN  IF ama = 0 THEN 1000
        ELSE IF distance < Len(Smoothing) THEN Smoothing[distance + 1] ELSE 1000

\* Mutant of Averages: the weight of a round like the others is nothing.
StubbornAverages(d, ama) ==
    IF d > 0 /\ d < 2 * ama THEN {ama}
    ELSE {Quotient(SmoothingCoefficient(d, ama) * d
                   + (1000 - SmoothingCoefficient(d, ama)) * ama, 1000)}

\* The cast to whole nanoseconds goes toward zero; what is whole already may
\* have been rounded to just below.
Averages(d, ama) ==
    LET alpha == SmoothingCoefficient(d, ama)
        sum == alpha * d + (1000 - alpha) * ama
        whole == Quotient(sum, 1000)
    IN  {whole} \union
        IF ama # 0 /\ sum % 1000 = 0 /\ whole # 0
        THEN {IF whole > 0 THEN whole - 1 ELSE whole + 1}
        ELSE {}

\* The frame rate is raised by 1.5 percent.  One that is no int any more is
\* undefined; the conversion of the build gives one too large for a sleep.
TargetSleep(fps) ==
    LET raised == (fps * 1015) \div 1000
    IN  IF raised > LargestInt THEN 0 ELSE Second \div raised

-----------------------------------------------------------------------------
(* The status.                                                             *)

\* Mutant of display_server_status: the position is not remembered.
display_forgetful ==
    /\ screen' = IF window_top # current_scroll_pos_ THEN "stale" ELSE "current"
    /\ UNCHANGED current_scroll_pos_

\* A window that was scrolled is only erased; the next update draws.
display_server_status ==
    IF window_top # current_scroll_pos_
    THEN current_scroll_pos_' = window_top /\ screen' = "stale"
    ELSE screen' = "current" /\ UNCHANGED current_scroll_pos_

\* The presenter hands the status on to the view.
update_server_status == display_server_status

notify ==
    IF "OutputPresenter" \in listeners_
    THEN update_server_status
    ELSE UNCHANGED <<current_scroll_pos_, screen>>

\* The first call only starts the clock.
is_time_to_update == elapsed >= Interval

update_status ==
    /\ elapsed' = IF is_time_to_update \/ elapsed = Never THEN 0 ELSE elapsed
    /\ IF is_time_to_update THEN notify ELSE UNCHANGED <<current_scroll_pos_, screen>>
    /\ UNCHANGED <<listeners_, window_top>>

Tick ==
    /\ elapsed # Never /\ elapsed < Interval
    /\ elapsed' = elapsed + 1
    /\ UNCHANGED <<vars, buildVars, at, pacingVars, listeners_, window_top, current_scroll_pos_, screen>>

Scroll ==
    /\ windows /\ window_top < MaxScrolls
    /\ window_top' = window_top + 1
    /\ screen' = "stale"
    /\ UNCHANGED <<vars, buildVars, at, pacingVars, elapsed, listeners_, current_scroll_pos_>>

-----------------------------------------------------------------------------
(* The loops.                                                              *)

append_listener ==
    /\ AtGoes("construct", "run")
    /\ listeners_' = listeners_ \union {"OutputPresenter"}
    /\ UNCHANGED <<pacingVars, elapsed, window_top, current_scroll_pos_, screen>>

\* A timer resolution Windows refuses aborts the process: nothing to follow.
run ==
    /\ AtGoes("run", IF Paced \/ windows THEN "frame" ELSE "levels")
    /\ target_sleep_duration' = IF Paced THEN TargetSleep(target_fps_) ELSE 0
    /\ UNCHANGED <<ama_duration, sleep_duration, duration, statusVars>>

\* The players, the map or the rate change, or the engine ends the loop.
loop_frame ==
    /\ AtGoes("frame", "sleep") \/ AtGoes("frame", "done")
    /\ screen' \in {screen, "stale"}
    /\ UNCHANGED <<pacingVars, elapsed, listeners_, window_top, current_scroll_pos_>>

\* sleep_1ms, sleep_net, sleep_timer and yield_thread of Windows.
windows_sleep ==
    /\ ~Paced
    /\ AtGoes("sleep", "work")
    /\ UNCHANGED <<pacingVars, statusVars>>

\* At least a nanosecond, 100 of them on Windows: one unit here.
paced_sleep ==
    /\ Paced
    /\ AtGoes("sleep", IF windows THEN "update" ELSE "work")
    /\ sleep_duration' = IF target_sleep_duration - ama_duration > 1
                         THEN target_sleep_duration - ama_duration ELSE 1
    /\ UNCHANGED <<target_sleep_duration, ama_duration, duration, statusVars>>

\* process_tasks and process_input; the status before them when paced, after
\* them when not.
work ==
    /\ AtGoes("work", IF Paced THEN "average" ELSE "update")
    /\ UNCHANGED <<pacingVars, statusVars>>

loop_status ==
    /\ AtGoes("update", IF Paced THEN "work" ELSE "frame")
    /\ update_status
    /\ UNCHANGED pacingVars

\* Only the system's call of Windows may return early.
average ==
    /\ AtGoes("average", "frame")
    /\ duration' \in {d \in Duration : windows \/ d >= 0}
    /\ ama_duration' \in Averages(duration', ama_duration)
    /\ UNCHANGED <<target_sleep_duration, sleep_duration, statusVars>>

LoopStep ==
    \/ append_listener \/ run \/ loop_frame
    \/ windows_sleep \/ paced_sleep \/ work \/ loop_status \/ average

\* The loop of PauseTimer, its kernel and its handlers, as they are.
LevelStep ==
    /\ at = "levels"
    /\ Next
    /\ UNCHANGED <<buildVars, at, pacingVars, statusVars>>

LoopNext == LoopStep \/ LevelStep \/ Tick \/ Scroll

Levelled(action) ==
    action /\ at = "levels" /\ UNCHANGED <<buildVars, at, pacingVars, statusVars>>

\* The engine returns from every frame of the loops of this module, and time
\* passes; the fairness of PauseTimer is as it was.
LoopFairness ==
    /\ WF_loopVars(LoopStep) /\ WF_loopVars(Tick)
    /\ WF_loopVars(Levelled(SleepStep)) /\ WF_loopVars(Levelled(TimerExpires))
    /\ \A t \in Thread : WF_loopVars(Levelled(sigalrm_handler(t)))
    /\ SF_loopVars(Levelled(Deliver(Main)))
    /\ WF_loopVars(Levelled(\E t \in Thread : Deliver(t)))

LoopSpec == LoopInit /\ [][LoopNext]_loopVars /\ LoopFairness

-----------------------------------------------------------------------------

Least(a, b) == IF a < b THEN a ELSE b
Most(a, b) == IF a > b THEN a ELSE b

\* The average never leaves the range between itself and the round, but for a
\* unit lost by the cast: no round, however short, late or early, makes it jump.
AverageBracketed ==
    [][at = "average" /\ at' = "frame" =>
        /\ ama_duration' >= Least(duration', ama_duration) - 1
        /\ ama_duration' <= Most(duration', ama_duration) + 1]_loopVars

\* After a stall the loop does without sleep to catch up; when the rounds have
\* become calm it sleeps again as long as a calm round allows.
PacingRecovers ==
    <>[](duration <= Calm) =>
        <>(at = "done") \/ <>[](sleep_duration >= target_sleep_duration - Calm)

\* Whatever the players do and however the user scrolls, on Windows the window
\* shows the status again, in each of the loops, unless the engine ends.
StatusDrawnAgain == windows /\ screen = "stale" ~> screen = "current" \/ at = "done"
=============================================================================
