SPECIFICATION Spec
CONSTANTS
    t1 = t1
    t2 = t2
    t3 = t3
    Tasks = {t1, t2}
    Chats = {101}
    Doings <- MCTwoCreators
    MaxCalls = 2
INVARIANT Deduplicated
CHECK_DEADLOCK FALSE
