SPECIFICATION CallsSpec
CONSTANTS
    N = 3
    T = {a, b, c}
    ValueInit = a
INVARIANTS
    CallsTypeOK
    FullMeansIndicesMeet
PROPERTIES
    ImplementsDeque
