SPECIFICATION Spec
CONSTANTS
    Char <- MCChar
    NoOption = NoOption
    Nesting = 2
    CommandLine <- MCCommandLine
    FileWords <- MCFileWords
    Number <- MCNumber
INVARIANTS
    EngineGetsTheRest
    EngineRunsFreeWhenPaced
    LoopFollowsOperator
    FilesFollowOperator
CHECK_DEADLOCK FALSE
