SPECIFICATION TerminalSpec
CONSTANTS
    Line = {l1, l2}
    Command = {c1, c2}
    Keys = {"newline", "tab", "other"}
    MaxEntered = 3
PROPERTIES
    StopEndsThread
CHECK_DEADLOCK FALSE
