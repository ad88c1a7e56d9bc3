SPECIFICATION Spec
CONSTANTS
    NULL = NULL
    DestroyDuringConnect = FALSE
INVARIANT
    NoDoubleClose
CHECK_DEADLOCK FALSE
