SPECIFICATION ProcessSpec
CONSTANTS
    Null = Null
INVARIANTS
    EngineIsOutlived
    CallbacksFindTheirThings
    NothingLeftBehind
    AbortIsWritten
    LateMessages
CHECK_DEADLOCK FALSE
