---------------------------- MODULE FrameReader ----------------------------
(***************************************************************************)
(* The frame readers of one leg (media/frame_reader.rs), and the clock     *)
(* that their samples drive.  A container is what ffmpeg or the caller     *)
(* puts into the stream:                                                   *)
(*                                                                         *)
(* - Ogg: packets, each laced into segments of Full bytes and a last one   *)
(*   of less, the segments cut into pages wherever the muxer likes.  The   *)
(*   reader turns a page at a time into whole packets, which it queues.    *)
(* - IVF: a time base, then frames, one per sample.                        *)
(*                                                                         *)
(* The stream may end or turn into garbage anywhere, as it does when       *)
(* ffmpeg is killed.                                                       *)
(***************************************************************************)
EXTENDS MediaClock, Sequences

CONSTANTS
    Full,         \* bytes in a full segment: 255
    Containers    \* the containers that are read

\* A packet starts with OpusHead, with OpusTags, or is data.
Packet == [is : {"head", "tags", "data"}, size : Nat, toc : OpusTocs]

\* num and den are the time base of IVF.
ASSUME FrameReaderAssumption ==
    /\ Full \in Nat \ {0}
    /\ Containers \subseteq [kind : {"ogg", "ivf"}, packets : Seq(Packet), num : Nat, den : Nat]

VARIABLES
    container,         \* what is read
    at,                \* the next segment in it (Ogg), or the next frame (IVF)
    walking,           \* in the loop over the segments of a page
    skipped,           \* skipped_header and skipped_tags
    queue,             \* packets found and not yet returned
    current_packet,    \* the segments of the packet that is not complete
    yielded,           \* the payloads next_sample returned
    clock,             \* the RTP timestamp they moved, in ticks
    media,             \* samples at 48 kHz in them, by RFC 6716; no action reads it
    status             \* what next_sample ended with: File or Internal

readerVars == <<container, at, walking, skipped, queue, current_packet, yielded, clock, media, status>>

----------------------------------------------------------------------------
(* The container *)

Packets == container.packets

\* How a packet is laced: full segments, then one that is not (0 bytes if need be).
Lacing(size) == size \div Full + 1

SegmentLen(segment) ==
    LET size == Packets[segment.packet].size
    IN  IF segment.part < Lacing(size) THEN Full ELSE size % Full

First(i) == [packet |-> i, part |-> 1]

Following(segment) ==
    IF segment.part < Lacing(Packets[segment.packet].size) THEN [segment EXCEPT !.part = @ + 1]
    ELSE First(segment.packet + 1)

More == at.packet <= Len(Packets)

ReaderInit ==
    /\ container \in Containers
    /\ at = First(1) /\ walking = FALSE
    /\ skipped = {} /\ queue = <<>> /\ current_packet = <<>>
    /\ yielded = <<>> /\ clock = 0 /\ media = 0
    /\ status = "reading"

\* RFC 6716, table 2: SILK frames last 10, 20, 40 or 60 ms, hybrid ones 10 or 20, CELT ones
\* 2.5, 5, 10 or 20; in samples at 48 kHz.
RfcFrame(config) ==
    IF config < 12 THEN <<480, 960, 1920, 2880>>[(config % 4) + 1]
    ELSE IF config < 16 THEN <<480, 960>>[(config % 2) + 1]
    ELSE <<120, 240, 480, 960>>[(config % 4) + 1]

RfcSamples(toc) ==
    RfcFrame(toc.config) * (IF toc.code = 0 THEN 1 ELSE IF toc.code < 3 THEN 2 ELSE toc.count)

----------------------------------------------------------------------------
(* OpusFrameReader *)

\* A page is read in full before its segments are walked; one that is cut short is an error.
ReadPage ==
    /\ status = "reading" /\ container.kind = "ogg"
    /\ queue = <<>> /\ ~walking
    /\ walking' = TRUE
    /\ UNCHANGED <<container, at, skipped, queue, current_packet, yielded, clock, media, status>>

\* (seeded fault) a full segment ends its packet.
EveryLenEnds(len) == len <= Full

EndsPacket(len) == len < Full

\* A header that starts a payload, and was not skipped yet.
Skips(payload) ==
    /\ payload # <<>>
    /\ payload[1].part = 1
    /\ Packets[payload[1].packet].is \in {"head", "tags"} \ skipped

\* A complete packet is a header that is skipped, nothing at all, or a sample; after the
\* first sample no header is skipped.
Complete(payload) ==
    /\ current_packet' = <<>>
    /\ \/ /\ Skips(payload)
          /\ skipped' = skipped \cup {Packets[payload[1].packet].is}
          /\ UNCHANGED queue
       \/ payload = <<>> /\ UNCHANGED <<skipped, queue>>
       \/ /\ payload # <<>> /\ ~Skips(payload)
          /\ skipped' = {"head", "tags"}
          /\ queue' = Append(queue, payload)

\* A segment joins the packet; an empty one adds nothing to it.
WalkSegment ==
    /\ walking /\ More
    /\ LET joined == IF SegmentLen(at) > 0 THEN Append(current_packet, at) ELSE current_packet
       IN  \/ EndsPacket(SegmentLen(at)) /\ Complete(joined)
           \/ /\ ~EndsPacket(SegmentLen(at))
              /\ current_packet' = joined
              /\ UNCHANGED <<skipped, queue>>
    /\ at' = Following(at)
    /\ UNCHANGED <<container, walking, yielded, clock, media, status>>

\* The page has no more segments: wherever the muxer cut it, before any segment too.
EndPage ==
    /\ walking
    /\ walking' = FALSE
    /\ UNCHANGED <<container, at, skipped, queue, current_packet, yielded, clock, media, status>>

\* next_sample returns a packet that is queued before it reads on; the sample's duration
\* moves the clock when it is sent.
YieldPacket ==
    /\ ~walking /\ queue # <<>>
    /\ queue' = Tail(queue)
    /\ yielded' = Append(yielded, Head(queue))
    /\ LET toc == Packets[Head(queue)[1].packet].toc
       IN  /\ clock' = clock + AudioTicks(PacketDuration(toc))
           /\ media' = media + RfcSamples(toc)
    /\ UNCHANGED <<container, at, walking, skipped, current_packet, status>>

----------------------------------------------------------------------------
(* VP8FrameReader *)

\* Every frame is a sample, one without bytes too, and lasts as long as the header says.
YieldFrame ==
    /\ status = "reading" /\ container.kind = "ivf"
    /\ More
    /\ at' = First(at.packet + 1)
    /\ yielded' = Append(yielded, <<at>>)
    /\ clock' = clock + VideoTicks(FrameDuration(container.num, container.den))
    /\ UNCHANGED <<container, walking, skipped, queue, current_packet, media, status>>

----------------------------------------------------------------------------
(* The end *)

\* The stream ends, in the middle of a page, a header or a frame as well as after it; or
\* what should be a header is not.  What was read of it is gone.
Fail(error) ==
    /\ status = "reading"
    /\ queue = <<>> /\ ~walking
    /\ status' = error
    /\ UNCHANGED <<container, at, walking, skipped, queue, current_packet, yielded, clock, media>>

ReaderNext ==
    \/ ReadPage
    \/ WalkSegment
    \/ EndPage
    \/ YieldPacket
    \/ YieldFrame
    \/ \E error \in {"File", "Internal"} : Fail(error)

ReaderSpec == ReaderInit /\ [][ReaderNext]_readerVars

----------------------------------------------------------------------------
(* Properties *)

Found == yielded \o queue

HasBytes(i) == Packets[i].size > 0

\* Packet i is data, or a header of a kind that came before.
IsSound(i) ==
    /\ HasBytes(i)
    /\ \/ Packets[i].is = "data"
       \/ \E j \in 1 .. i - 1 : HasBytes(j) /\ Packets[j].is = Packets[i].is

\* From the first sound on every packet with bytes is a sample.
IsSample(i) == HasBytes(i) /\ \E j \in 1 .. i : IsSound(j)

\* The segments of packet i that have bytes.
Payload(i) == [k \in 1 .. (Packets[i].size + Full - 1) \div Full |-> [packet |-> i, part |-> k]]

\* The packets whose last segment was walked.
WasRead == 1 .. at.packet - 1

\* However the pages are cut, the samples are the audio packets of the pages that were read:
\* each whole, each once, in order, and none that was found is lost to an error (a packet
\* that goes on over pages, ends with a page, or fills its last segment exactly).
YieldsThePackets ==
    /\ container.kind = "ogg" =>
           /\ \A k \in DOMAIN Found : \E i \in WasRead : IsSample(i) /\ Found[k] = Payload(i)
           /\ \A i \in WasRead : IsSample(i) => \E k \in DOMAIN Found : Found[k] = Payload(i)
           /\ \A k, l \in DOMAIN Found : k < l => Found[k][1].packet < Found[l][1].packet
    /\ status # "reading" => queue = <<>>

\* A code-3 packet says how many frames it has.
Counted == \A i \in DOMAIN Packets : Packets[i].toc.code = 3 => Packets[i].toc.count > 0

\* Two roundings between packet and timestamp do not add up: the audio timestamp is the media
\* time in samples exactly, and so is the video timestamp at every frame rate that divides
\* 90 kHz; at others it is off by less than a tick per frame.
ClockIsExact ==
    LET n == Len(yielded)
        due == n * container.num * VideoRate
    IN  /\ container.kind = "ogg" /\ Counted => clock = media
        /\ container.kind = "ivf" /\ container.num > 0 /\ container.den > 0 =>
               /\ (container.num * VideoRate) % container.den = 0 => clock * container.den = due
               /\ clock * container.den - due \in -(n * container.den) .. n * container.den
=============================================================================
