SPECIFICATION TerminalSpec
CONSTANTS
    Line = {l1, l2}
    Command = {c1, c2}
    Keys = {"newline", "tab", "escape", "other"}
    MaxEntered = 3
INVARIANTS
    TerminalGivenBack
    StoppedOnlyUnmasked
    PopNeverWaits
    OneTaskPerRequest
    HistorySavedAtExit
PROPERTIES
    ImplementsChannel
    EnteredReachesEngine
    TabAnswered
    StopEndsUnlessWaiting
CHECK_DEADLOCK FALSE
