SPECIFICATION FairSpec
CONSTANTS
    t1 = t1
    t2 = t2
    NoTask = NoTask
    Tasks = {t1, t2}
    OpsOf <- MCPauseBesideOwner
    Sources <- MCAudioVideo
    MaxGen = 1
INVARIANTS LegsObeyFlags StopLeavesNothing
PROPERTY MethodsReturn
CHECK_DEADLOCK FALSE
