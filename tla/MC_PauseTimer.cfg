SPECIFICATION LoopSpec
CONSTANTS
    Thread = {main, console, worker}
    Main = main
    TargetFps = {1, 2, 100}
    Second = 20
    LargestInt = 100
    Duration <- MCDuration
    Calm = 2
    Interval = 2
    MaxScrolls = 2
INVARIANTS
    WakeupComing
    HandlerBeforeAlarm
PROPERTIES
    PauseReturns
    AlarmsDieOut
    AverageBracketed
    PacingRecovers
    StatusDrawnAgain
CHECK_DEADLOCK FALSE
