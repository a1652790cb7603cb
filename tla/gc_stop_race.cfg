SPECIFICATION Spec
CONSTANTS
    t1 = t1
    t2 = t2
    NoTask = NoTask
    Tasks = {t1, t2}
    OpsOf <- MCStopAgainstSource
    Sources <- MCAudioVideo
    MaxGen = 1
INVARIANT StopLeavesNothing
CHECK_DEADLOCK FALSE
