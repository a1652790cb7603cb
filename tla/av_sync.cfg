SPECIFICATION FairSpec
CONSTANTS
    Sources <- MCAny
    Samples <- MCTwoOne
    Cap = 1
    Commands = {"pause", "resume", "mute", "unmute", "stop"}
    MaxCommands = 2
    Faults = {"stall", "close"}
INVARIANTS TypeOK StartTogether HoldBites NothingSkipped
PROPERTIES PlaysToTheEnd StopEndsTasks ImplementsLife
CHECK_DEADLOCK FALSE
