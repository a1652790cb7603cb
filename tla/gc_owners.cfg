SPECIFICATION Spec
CONSTANTS
    t1 = t1
    t2 = t2
    NoTask = NoTask
    Tasks = {t1, t2}
    OpsOf <- MCTwoOwners
    Sources <- MCAnyLegs
    MaxGen = 2
INVARIANTS TypeOK NoOrphanStreamer GateHolds OneEndPerSource LegsObeyFlags ReportedIsCurrent
PROPERTIES ImplementsLife ImplementsStack
CHECK_DEADLOCK FALSE
