----------------------------- MODULE MediaClock -----------------------------
(***************************************************************************)
(* How long a sample lasts, and by how much it moves the RTP timestamp.    *)
(* The frame readers give a sample a duration in nanoseconds               *)
(* (frame_reader.rs), rounded down; send_rtp_bytes turns the duration into *)
(* ticks of the 48 kHz audio clock, rounding down, or of the 90 kHz video  *)
(* clock, rounding to the nearest (direct_transport.rs).                   *)
(***************************************************************************)
EXTENDS Integers

CONSTANTS
    Second,       \* units of a duration in a second: 10^9 in the code
    AudioRate,    \* 48000
    VideoRate     \* 90000

ASSUME MediaClockAssumption == {Second, AudioRate, VideoRate} \subseteq Nat \ {0}

\* What a packet says of itself: the configuration number, the code for its frame count,
\* and the count that follows with code 3 (0 when the byte is missing).
OpusTocs == [config : 0 .. 31, code : 0 .. 3, count : 0 .. 63]

\* Samples in one frame of a packet: 480 and so on, by configuration number.
BaseSamples(config) ==
    CASE config \in {0, 4, 8, 12, 14, 18, 22, 26, 30}   -> 480
      [] config \in {1, 5, 9, 13, 15, 19, 23, 27, 31}   -> 960
      [] config \in {2, 6, 10}                          -> 1920
      [] config \in {3, 7, 11}                          -> 2880
      [] config \in {16, 20, 24, 28}                    -> 120
      [] config \in {17, 21, 25, 29}                    -> 240

FrameCount(toc) ==
    CASE toc.code = 0        -> 1
      [] toc.code \in {1, 2} -> 2
      [] toc.code = 3        -> IF toc.count > 0 THEN toc.count ELSE 1

TotalSamples(toc) == BaseSamples(toc.config) * FrameCount(toc)

\* parse_opus_packet_duration
PacketDuration(toc) == (TotalSamples(toc) * Second) \div AudioRate

\* A frame without a time base lasts 33 333 333 ns.
DefaultFrame == Second \div 30

\* The IVF header's time base is num / den seconds per frame.
FrameDuration(num, den) == IF num > 0 /\ den > 0 THEN (num * Second) \div den ELSE DefaultFrame

AudioTicks(duration) == (duration * AudioRate) \div Second

\* (seeded fault) the ticks of a frame are rounded down.
TicksRoundedDown(duration) == (duration * VideoRate) \div Second

VideoTicks(duration) == (duration * VideoRate + Second \div 2) \div Second
=============================================================================
