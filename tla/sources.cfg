SPECIFICATION MCSpec
CONSTANTS
    Texts <- MCTexts
    Tokens <- MCTokens
    Options <- MCOptions
    Flags = {"-re", "-vn"}
    RawCodecs = {"pcm_s16le", "pcm_f32be"}
    Sources <- MCSourceSet
    Offsets <- MCOffsets
    Containers <- MCContainers
    Full = 2
    Second = 200000
    AudioRate = 48000
    VideoRate = 90000
    Cap = 3
    Bytes = {0, 1}
    MaxChunk = 4
    MaxTape = 8
INVARIANTS WordsComeThrough SeekIsSole FillIsConservative YieldsThePackets ClockIsExact SnapshotIsTail
CHECK_DEADLOCK FALSE
