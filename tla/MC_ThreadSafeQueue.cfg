SPECIFICATION Spec
CONSTANTS
    Thread = {t1, t2, t3}
    Free = Free
    MaxPushes = 2
PROPERTIES
    ImplementsFifo
    CallersReturn
CHECK_DEADLOCK FALSE
