SPECIFICATION Spec
CONSTANTS
    Object = {1, 2}
    MaxSize = 4
    MaxCurrent = 5
PROPERTIES
    CallsKeepWalk
