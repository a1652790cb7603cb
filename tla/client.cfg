SPECIFICATION Spec
CONSTANTS
    t1 = t1
    t2 = t2
    t3 = t3
    Tasks = {t1, t2, t3}
    Chats = {101, 102}
    Doings <- MCOneCreator
    MaxCalls = 3
INVARIANT TableMatchesCalls
CHECK_DEADLOCK FALSE
