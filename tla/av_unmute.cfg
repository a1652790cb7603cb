SPECIFICATION FairSpec
CONSTANTS
    Sources <- MCBoth
    Samples <- MCTwoOne
    Cap = 1
    Commands = {"mute", "unmute"}
    MaxCommands = 2
    Faults = {}
PROPERTY AudioGoesOn
CHECK_DEADLOCK FALSE
