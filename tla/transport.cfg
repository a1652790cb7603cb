SPECIFICATION FairSpec
CONSTANTS
    c1 = c1
    c2 = c2
    Callers <- MCCallers
    MaxDials = 2
INVARIANTS TypeOK ConnectedMeansKeyed
PROPERTIES KeysForKeeps WorkersEnd ImplementsStack
CHECK_DEADLOCK FALSE
