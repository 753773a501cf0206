-------------------------- MODULE ServerLoop_proofs -------------------------
(***************************************************************************)
(* The loop on both systems keeps what was proved of the sleep on Linux,   *)
(* and its average of the rounds stays between them, for any rounds.       *)
(***************************************************************************)
EXTENDS ServerLoop, TLAPS

-----------------------------------------------------------------------------
(* The sleep of -pingboost: the main thread cannot miss its alarm.         *)

\* The inductive invariant: besides the wake-up under way, the flag is clear
\* from the moment it was cleared to the end of the pause, which keeps every
\* handler arming, and an alarm exists only after the handler was installed.
SleepsWithTimer == pc \in {"clear", "arm", "enter", "pause", "set"} => pingboost = Timer
FlagIsClear == pc \in {"arm", "enter", "pause"} => paused = 0
InstalledFirst ==
    /\ pc # "run" /\ pingboost = Timer => installed
    /\ timer \/ pending \/ (\E t \in Thread : handler[t] # "none") => installed

IInv == TypeOK /\ SleepsWithTimer /\ FlagIsClear /\ InstalledFirst /\ WakeupComing

\* The initial states satisfy the inductive invariant.
LEMMA InitIInv == Init => IInv
BY DEF Init, IInv, TypeOK, SleepsWithTimer, FlagIsClear, InstalledFirst, WakeupComing,
       Levels, Points, Timer

\* The steps of the main thread preserve it.
LEMMA MainKeepsIInv ==
    ASSUME IInv, get_sleep_func \/ run_frame \/ run_last_frame \/ SleepStep
    PROVE  IInv'
<1> USE MainAssumption DEF IInv, TypeOK, SleepsWithTimer, FlagIsClear, InstalledFirst,
        WakeupComing, Rearms, Levels, Points, Timer, Goes, signal
<1>1. CASE get_sleep_func
  BY <1>1 DEF get_sleep_func
<1>2. CASE run_frame
  BY <1>2 DEF run_frame
<1>3. CASE run_last_frame
  BY <1>3 DEF run_last_frame
<1>4. CASE sleep_thread
  BY <1>4 DEF sleep_thread
<1>5. CASE ClearPaused
  BY <1>5 DEF ClearPaused
<1>6. CASE SetTimer
  BY <1>6 DEF SetTimer
<1>7. CASE SetTimerFails
  BY <1>7 DEF SetTimerFails
<1>8. CASE EnterPause
  BY <1>8 DEF EnterPause
<1>9. CASE SetPaused
  BY <1>9 DEF SetPaused
<1> QED
  BY <1>1, <1>2, <1>3, <1>4, <1>5, <1>6, <1>7, <1>8, <1>9 DEF SleepStep

\* The steps of the kernel and of the handler preserve it.
LEMMA SignalKeepsIInv ==
    ASSUME IInv, TimerExpires \/ \E t \in Thread : Deliver(t) \/ sigalrm_handler(t)
    PROVE  IInv'
<1> USE MainAssumption DEF IInv, TypeOK, SleepsWithTimer, FlagIsClear, InstalledFirst,
        WakeupComing, Rearms, Levels, Points, Timer
<1>1. CASE TimerExpires
  BY <1>1 DEF TimerExpires
<1>2. ASSUME NEW t \in Thread, Deliver(t) PROVE IInv'
  BY <1>2 DEF Deliver
<1>3. ASSUME NEW t \in Thread, HandlerInstalls(t) PROVE IInv'
  BY <1>3 DEF HandlerInstalls
<1>4. ASSUME NEW t \in Thread, HandlerTests(t) PROVE IInv'
  <2>1. CASE paused = 0
    BY <1>4, <2>1 DEF HandlerTests
  <2>2. CASE paused # 0
    BY <1>4, <2>2 DEF HandlerTests, Leave
  <2> QED BY <2>1, <2>2
<1>5. ASSUME NEW t \in Thread, HandlerArms(t) PROVE IInv'
  BY <1>5 DEF HandlerArms, Leave
<1> QED
  BY <1>1, <1>2, <1>3, <1>4, <1>5 DEF sigalrm_handler

\* Every step preserves it.
LEMMA IInvStep == IInv /\ [Next]_vars => IInv'
<1> SUFFICES ASSUME IInv, [Next]_vars PROVE IInv'
  OBVIOUS
<1>1. CASE UNCHANGED vars
  BY <1>1 DEF vars, IInv, TypeOK, SleepsWithTimer, FlagIsClear, InstalledFirst,
          WakeupComing, Rearms
<1> QED
  BY <1>1, MainKeepsIInv, SignalKeepsIInv DEF Next

\* Every reachable state satisfies it.
LEMMA SpecIInv == Spec => []IInv
BY InitIInv, IInvStep, PTL DEF Spec

\* In every reachable state an alarm is on its way whenever the main thread is
\* about to pause or pauses: sleep_timer() cannot sleep for ever.
THEOREM AlarmIsNeverMissed == Spec => []WakeupComing
<1>1. IInv => WakeupComing
  BY DEF IInv
<1> QED
  BY SpecIInv, <1>1, PTL

\* No alarm is on its way before the handler is installed: SIGALRM never ends
\* the process.
THEOREM HandlerComesFirst == Spec => []HandlerBeforeAlarm
<1>1. IInv => HandlerBeforeAlarm
  BY DEF IInv, InstalledFirst, HandlerBeforeAlarm
<1> QED
  BY SpecIInv, <1>1, PTL

-----------------------------------------------------------------------------
(* Whatever the system and -targetfps, the sleep of -pingboost is as proved.*)

\* A step of the loop is one of its sleep's or leaves that alone.
LEMMA LoopStutters == [LoopNext]_loopVars => [Next]_vars
<1> SUFFICES ASSUME [LoopNext]_loopVars PROVE [Next]_vars
  OBVIOUS
<1>1. CASE LoopStep
  BY <1>1 DEF LoopStep, AtGoes, append_listener, run, loop_frame, windows_sleep, paced_sleep,
              work, loop_status, average
<1>2. CASE LevelStep
  BY <1>2 DEF LevelStep
<1>3. CASE Tick \/ Scroll
  BY <1>3 DEF Tick, Scroll
<1>4. CASE UNCHANGED loopVars
  BY <1>4 DEF loopVars
<1>5. QED BY <1>1, <1>2, <1>3, <1>4 DEF LoopNext

\* The invariant of the sleep holds of the loop.
LEMMA LoopIInv == LoopSpec => []IInv
<1>1. LoopInit => IInv
  BY InitIInv DEF LoopInit
<1>2. IInv /\ [Next]_vars => IInv'
  BY IInvStep
<1>3. QED BY <1>1, <1>2, LoopStutters, PTL DEF LoopSpec

\* In a loop that paces itself or runs on Windows too, the main thread never
\* pauses without an alarm on its way.
THEOREM LoopNeverMissesAlarm == LoopSpec => []WakeupComing
<1>1. IInv => WakeupComing
  BY DEF IInv
<1>2. QED BY LoopIInv, <1>1, PTL

\* And no alarm is on its way before its handler is installed.
THEOREM LoopHandlerComesFirst == LoopSpec => []HandlerBeforeAlarm
<1>1. IInv => HandlerBeforeAlarm
  BY DEF IInv, InstalledFirst, HandlerBeforeAlarm
<1>2. QED BY LoopIInv, <1>1, PTL

-----------------------------------------------------------------------------
(* The average.                                                            *)

\* A quotient by a thousand is between any two numbers the dividend is a
\* thousand times between, whatever its sign.
LEMMA QuotientBetween ==
    ASSUME NEW n \in Int, NEW low \in Int, NEW high \in Int, 1000 * low <= n, n <= 1000 * high
    PROVE  /\ Quotient(n, 1000) \in Int
           /\ low <= Quotient(n, 1000) /\ Quotient(n, 1000) <= high
BY DEF Quotient

\* The quotient of two numbers is one.
LEMMA QuotientInt ==
    ASSUME NEW a \in Int, NEW b \in Int, b # 0
    PROVE  Quotient(a, b) \in Int
BY DEF Quotient

Coefficients == {100, 669, 878, 955, 984, 994, 998, 1000}

\* The coefficient is one of eight, for any round and any average.
LEMMA CoefficientValues ==
    ASSUME NEW d \in Int, NEW ama \in Int
    PROVE  SmoothingCoefficient(d, ama) \in Coefficients
<1> USE DEF Coefficients
<1>1. CASE ama = 0
  BY <1>1 DEF SmoothingCoefficient
<1>2. CASE ama # 0
  <2> DEFINE q == Quotient(d - ama, ama)
             distance == IF q < 0 THEN -q ELSE q
  <2>1. q \in Int
    BY <1>2, QuotientInt
  <2>2. distance \in Nat
    BY <2>1
  <2> HIDE DEF q
  <2>3. Len(Smoothing) = 7
    BY DEF Smoothing
  <2>4. distance < 7 => Smoothing[distance + 1] \in {100, 669, 878, 955, 984, 994, 998}
    BY <2>2 DEF Smoothing
  <2>5. QED BY <1>2, <2>3, <2>4 DEF SmoothingCoefficient, q
<1>3. QED BY <1>1, <1>2

\* A mean weighted with any of them is between the round and the average.
LEMMA MeanBetween ==
    ASSUME NEW d \in Int, NEW ama \in Int,
           NEW alpha \in Coefficients
    PROVE  /\ alpha * d + (1000 - alpha) * ama \in Int
           /\ 1000 * Least(d, ama) <= alpha * d + (1000 - alpha) * ama
           /\ alpha * d + (1000 - alpha) * ama <= 1000 * Most(d, ama)
<1> USE DEF Least, Most, Coefficients
<1>1. CASE alpha = 100
  BY <1>1
<1>2. CASE alpha = 669
  BY <1>2
<1>3. CASE alpha = 878
  BY <1>3
<1>4. CASE alpha = 955
  BY <1>4
<1>5. CASE alpha = 984
  BY <1>5
<1>6. CASE alpha = 994
  BY <1>6
<1>7. CASE alpha = 998
  BY <1>7
<1>8. CASE alpha = 1000
  BY <1>8
<1>9. QED BY <1>1, <1>2, <1>3, <1>4, <1>5, <1>6, <1>7, <1>8

\* The new average is between the old one and the round, but for a unit.
LEMMA AverageBetween ==
    ASSUME NEW d \in Int, NEW ama \in Int, NEW new \in Averages(d, ama)
    PROVE  /\ new \in Int
           /\ new >= Least(d, ama) - 1
           /\ new <= Most(d, ama) + 1
<1> DEFINE alpha == SmoothingCoefficient(d, ama)
           sum == alpha * d + (1000 - alpha) * ama
           whole == Quotient(sum, 1000)
<1>1. sum \in Int /\ 1000 * Least(d, ama) <= sum /\ sum <= 1000 * Most(d, ama)
  <2>1. PICK a \in Coefficients : a = alpha
    BY CoefficientValues
  <2> HIDE DEF alpha
  <2>2. /\ a * d + (1000 - a) * ama \in Int
        /\ 1000 * Least(d, ama) <= a * d + (1000 - a) * ama
        /\ a * d + (1000 - a) * ama <= 1000 * Most(d, ama)
    BY MeanBetween
  <2>3. QED BY <2>1, <2>2
<1>2. Least(d, ama) \in Int /\ Most(d, ama) \in Int
  BY DEF Least, Most
<1>3. whole \in Int /\ Least(d, ama) <= whole /\ whole <= Most(d, ama)
  <2> HIDE DEF sum
  <2>1. QED BY <1>1, <1>2, QuotientBetween
<1>4. new \in {whole, whole - 1, whole + 1}
  BY DEF Averages
<1>5. QED
  <2> HIDE DEF whole
  <2>1. QED BY <1>2, <1>3, <1>4

-----------------------------------------------------------------------------

\* The target of a frame is at most a second, however large -targetfps is.
LEMMA TargetSleepRange ==
    ASSUME NEW fps \in TargetFps PROVE TargetSleep(fps) \in 0..Second
<1> DEFINE raised == (fps * 1015) \div 1000
<1>1. fps \in Nat /\ fps >= 1 /\ Second \in Nat
  BY PacingAssumption
<1>2. raised \in Nat /\ raised >= 1
  BY <1>1
<1> HIDE DEF raised
<1>3. Second \div raised \in 0..Second
  BY <1>1, <1>2
<1>4. QED BY <1>1, <1>3 DEF TargetSleep, raised

\* The loop keeps its types: the sleep it asks for is never negative, whatever
\* the average of the rounds is.
THEOREM LoopTypes == LoopSpec => []LoopTypeOK
<1>1. LoopInit => LoopTypeOK
  BY PacingAssumption, InitIInv DEF LoopInit, LoopTypeOK, IInv, Never
<1>2. LoopTypeOK /\ IInv' /\ [LoopNext]_loopVars => LoopTypeOK'
  <2> SUFFICES ASSUME LoopTypeOK, IInv', [LoopNext]_loopVars PROVE LoopTypeOK'
    OBVIOUS
  <2> USE PacingAssumption DEF LoopTypeOK, buildVars, pacingVars, statusVars
  <2>0. TypeOK'
    BY DEF IInv
  <2>1. CASE append_listener
    BY <2>0, <2>1 DEF append_listener, AtGoes
  <2>2. CASE run
    BY <2>0, <2>2, TargetSleepRange DEF run, AtGoes, Paced
  <2>3. CASE loop_frame
    BY <2>0, <2>3 DEF loop_frame, AtGoes
  <2>4. CASE windows_sleep \/ work
    BY <2>0, <2>4 DEF windows_sleep, work, AtGoes
  <2>5. CASE paced_sleep
    BY <2>0, <2>5 DEF paced_sleep, AtGoes
  <2>6. CASE loop_status
    <3>1. elapsed' \in Never..Interval
      BY <2>6 DEF loop_status, update_status, Never
    <3>2. /\ current_scroll_pos_' \in {current_scroll_pos_, window_top}
          /\ screen' \in {"current", "stale"}
      BY <2>6 DEF loop_status, update_status, notify, update_server_status, display_server_status
    <3>3. QED BY <2>0, <2>6, <3>1, <3>2 DEF loop_status, update_status, AtGoes
  <2>7. CASE average
    <3>1. duration' \in Duration /\ duration' \in Int /\ ama_duration \in Int
      BY <2>7 DEF average
    <3>2. ama_duration' \in Int
      BY <2>7, <3>1, AverageBetween DEF average
    <3>3. QED BY <2>0, <2>7, <3>1, <3>2 DEF average, AtGoes
  <2>8. CASE LevelStep
    BY <2>0, <2>8 DEF LevelStep
  <2>9. CASE Tick
    BY <2>0, <2>9 DEF Tick, Never
  <2>10. CASE Scroll
    BY <2>0, <2>10 DEF Scroll
  <2>11. CASE UNCHANGED loopVars
    BY <2>0, <2>11 DEF loopVars
  <2>12. QED
    BY <2>1, <2>2, <2>3, <2>4, <2>5, <2>6, <2>7, <2>8, <2>9, <2>10, <2>11 DEF LoopNext, LoopStep
<1>3. QED BY <1>1, <1>2, LoopIInv, PTL DEF LoopSpec

\* For rounds of any length, early or late, the average of the rounds never
\* leaves the range between itself and the last round by more than a unit.
THEOREM AverageStaysBetween == LoopSpec => AverageBracketed
<1> DEFINE Bracketed ==
        at = "average" /\ at' = "frame" =>
            /\ ama_duration' >= Least(duration', ama_duration) - 1
            /\ ama_duration' <= Most(duration', ama_duration) + 1
<1>1. LoopTypeOK /\ [LoopNext]_loopVars => [Bracketed]_loopVars
  <2> SUFFICES ASSUME LoopTypeOK, LoopNext, at = "average", at' = "frame" PROVE Bracketed
    OBVIOUS
  <2>1. average
    BY DEF LoopNext, LoopStep, LevelStep, Tick, Scroll, append_listener, run, loop_frame,
           windows_sleep, paced_sleep, work, loop_status, AtGoes
  <2>2. duration' \in Int /\ ama_duration \in Int /\ ama_duration' \in Averages(duration', ama_duration)
    BY <2>1, PacingAssumption DEF average, LoopTypeOK
  <2>3. QED BY <2>2, AverageBetween
<1>2. QED BY <1>1, LoopTypes, PTL DEF LoopSpec, AverageBracketed
=============================================================================
