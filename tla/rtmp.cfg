SPECIFICATION FairSpec
CONSTANTS
    t1 = t1
    t2 = t2
    Tasks = {t1, t2}
    OpsOf <- MCPlayerAndToggler
    Procs = {1, 2}
INVARIANTS PlayingMeansPushing OneOwner ExitedMeansGone
PROPERTIES AbandonedByReplacement ExitIsNoticed
CHECK_DEADLOCK FALSE
