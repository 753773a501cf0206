SPECIFICATION Spec
CONSTANTS
    Thread = {t1, t2}
    Free = Free
    MaxPushes = 3
PROPERTIES
    BlockedPopReturns
CHECK_DEADLOCK FALSE
