SPECIFICATION Spec
CONSTANTS
    N = 2
    T <- MCLines
    Typed = {2}
    Lower <- MCLower
    Commands <- MCCommands
    Blank = 0
    NoInput = NoInput
    MaxLine = 2
    Entered <- MCEntered
INVARIANTS
    TypeOK
    DraftHeldDuringWalk
PROPERTIES
    KeysKeepRowInSync
    TabFindsCommonPrefix
