SPECIFICATION Spec
CONSTANTS
    Window = 2
    KaTimeout = 1
    Continuous = 2
    LossGap = 1
    KaIntervals = {1}
    SuspendMs = 1
    MaxShift = 1
    CleanMs = 2
    Threshold = 1
    CwinStart = 1
    CwinMin = 1
    CwinMax = 2
    GrowBps = 1
    Second = 1
    QueueSize = 1
    MaxPayload = 1
    RecvBuffer = 1
    Sizes = {1, 2}
    MaxTime = 5
    MaxNet = 1
    MaxOverflows = 1
INVARIANTS  SuspensionBounded LockReleased WithinBounds
CHECK_DEADLOCK FALSE
