SPECIFICATION Spec
CONSTANTS
    Legs <- MCBothLegs
    MaxSources = 2
    MaxFrames = 1
    MaxChunks = 2
    SeqMod = 16
    TsMod = 4
    FirstSeq = 14
INVARIANTS TypeOK FramesTogether EveryNumberOnce StartsOnce
CHECK_DEADLOCK FALSE
