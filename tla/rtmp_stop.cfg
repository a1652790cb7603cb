SPECIFICATION FairSpec
CONSTANTS
    t1 = t1
    t2 = t2
    Tasks = {t1}
    OpsOf <- MCPlayer
    Procs = {1}
PROPERTY StopTearsDown
CHECK_DEADLOCK FALSE
