----------------------------- MODULE MediaTrack -----------------------------
(***************************************************************************)
(* The outgoing media of one transport (direct_transport.rs,               *)
(* send_rtp_bytes and reset_media_track_state).  The pacing tasks of a     *)
(* source send one sample after the other; set_source stops them, resets   *)
(* the track state and starts the pacing tasks of the next source, without *)
(* waiting for a send that is under way.  So a straggler of the old source *)
(* may send next to the new one, on counters that are separate atomics.    *)
(*                                                                         *)
(* A sample lasts one unit of time; a video sample is split into chunks,   *)
(* how many is the payloader's choice.  The transport is keyed when the    *)
(* first source is set, which the gate of set_source sees to.  Header      *)
(* extensions, octet counts and picture ids are left out.                  *)
(***************************************************************************)
EXTENDS Naturals, Sequences, FiniteSets

CONSTANTS
    Legs,         \* the legs of every source
    MaxSources,   \* bound: how many sources are set
    MaxFrames,    \* bound: how many samples each leg of a source sends
    MaxChunks,    \* bound: how many chunks a video sample has
    SeqMod,       \* 2^16 in the code
    TsMod,        \* 2^32 in the code
    FirstSeq      \* the random number the sequence numbers start from

\* Init is in the middle of the first set_source, so there is a source.
ASSUME MediaTrackAssumption ==
    /\ Legs \subseteq {"audio", "video"}
    /\ MaxFrames \in Nat
    /\ {MaxSources, MaxChunks, SeqMod, TsMod} \subseteq Nat \ {0}
    /\ FirstSeq \in 0 .. SeqMod - 1

\* The pacing task of a leg of the g-th source.
Senders == Legs \X (1 .. MaxSources)
LegOf(s) == s[1]
SourceOf(s) == s[2]

None == 0

VARIABLES
    closed, keyed, socket,   \* the transport: its flag, its keys, its socket
    seq, ts,                 \* audio_seq and video_seq, audio_ts and video_ts
    first_audio,
    epoch,                   \* media_epoch: None, or the era in which it was set
    packets,                 \* audio_packets and video_packets
    era,                     \* how often the track state was reset, and one
    marks,                   \* the same, for first_audio
    announced,               \* eras in which a sender report went out
    current, switching,      \* the source that is set, and where set_source is
    pc, frame,               \* where each sender is, and in which of its samples
    began,                   \* the era in which its present send passed the epoch
    hand,                    \* the packet it is building
    log,                     \* the packets that got a number, in the order of their encryption
    lost                     \* the samples whose numbers were lost with a failed send

transportVars == <<closed, keyed, socket>>
trackVars == <<seq, ts, first_audio, epoch, packets>>
historyVars == <<era, marks, announced, log, lost>>
sourceVars == <<current, switching>>
senderVars == <<pc, frame, began, hand>>
vars == <<transportVars, trackVars, historyVars, sourceVars, senderVars>>

NoPacket == [seq |-> 0, ts |-> 0, mark |-> 0, chunks |-> 0, done |-> 0]

Init ==
    /\ closed = FALSE /\ keyed = TRUE /\ socket = TRUE
    /\ seq = [l \in Legs |-> FirstSeq] /\ ts = [l \in Legs |-> 0]
    /\ first_audio = TRUE /\ epoch = None /\ packets = [l \in Legs |-> 0]
    /\ era = 1 /\ marks = 1 /\ announced = {}
    /\ current = 0 /\ switching = "reset_first"
    /\ pc = [s \in Senders |-> "idle"] /\ frame = [s \in Senders |-> 0]
    /\ began = [s \in Senders |-> None] /\ hand = [s \in Senders |-> NoPacket]
    /\ log = [l \in Legs |-> <<>>] /\ lost = {}

----------------------------------------------------------------------------
(* set_source *)

\* The old pacing tasks are told to stop; they look before each sample.
StopSenders ==
    /\ switching = "no"
    /\ current < MaxSources
    /\ switching' = "reset_first"
    /\ UNCHANGED <<transportVars, trackVars, historyVars, current, senderVars>>

ResetFirst ==
    /\ switching = "reset_first"
    /\ first_audio' = TRUE
    /\ marks' = marks + 1
    /\ switching' = "reset_epoch"
    /\ UNCHANGED <<transportVars, seq, ts, epoch, packets, era, announced, log, lost, current, senderVars>>

\* (seeded fault) the epoch of the old source stays.
KeepEpoch == UNCHANGED epoch

ForgetEpoch == epoch' = None

ResetEpoch ==
    /\ switching = "reset_epoch"
    /\ ForgetEpoch
    /\ era' = era + 1
    /\ switching' = "start"
    /\ UNCHANGED <<transportVars, seq, ts, first_audio, packets, marks, announced, log, lost, current, senderVars>>

StartSenders ==
    /\ switching = "start"
    /\ current' = current + 1
    /\ switching' = "no"
    /\ UNCHANGED <<transportVars, trackVars, historyVars, senderVars>>

----------------------------------------------------------------------------
(* send_rtp_bytes *)

Goto(s, label) == pc' = [pc EXCEPT ![s] = label]

\* send_rtp_bytes returns: after an error the pacing task ends.
Return(s, label) ==
    /\ hand' = [hand EXCEPT ![s] = NoPacket]
    /\ began' = [began EXCEPT ![s] = None]
    /\ Goto(s, label)

\* The pacing task finds itself running and sends its next sample.
Begin(s) ==
    /\ pc[s] = "idle"
    /\ switching = "no" /\ SourceOf(s) = current
    /\ frame[s] < MaxFrames
    /\ frame' = [frame EXCEPT ![s] = @ + 1]
    /\ Goto(s, "enter")
    /\ UNCHANGED <<transportVars, trackVars, historyVars, sourceVars, began, hand>>

\* A closed transport is an error, which ends the pacing task.
Enter(s) ==
    /\ pc[s] = "enter"
    /\ Goto(s, IF closed THEN "done" ELSE "epoch")
    /\ UNCHANGED <<transportVars, trackVars, historyVars, sourceVars, frame, began, hand>>

\* The first send of an epoch sets it and reports it before it goes on.
Epoch(s) ==
    /\ pc[s] = "epoch"
    /\ began' = [began EXCEPT ![s] = era]
    /\ epoch' = IF epoch = None THEN era ELSE epoch
    /\ Goto(s, IF epoch = None THEN "report" ELSE IF LegOf(s) = "audio" THEN "number" ELSE "stamp")
    /\ UNCHANGED <<transportVars, seq, ts, first_audio, packets, historyVars, sourceVars, frame, hand>>

\* emit_rtcp_sender_reports; the worker of the transport calls it twice a second, too, the
\* last time perhaps after the close.
SendReports ==
    announced' = IF epoch # None /\ keyed /\ socket THEN announced \cup {epoch} ELSE announced

Report(s) ==
    /\ pc[s] = "report"
    /\ SendReports
    /\ Goto(s, IF LegOf(s) = "audio" THEN "number" ELSE "stamp")
    /\ UNCHANGED <<transportVars, trackVars, era, marks, log, lost, sourceVars, frame, began, hand>>

TimerReport ==
    /\ SendReports
    /\ UNCHANGED <<transportVars, trackVars, era, marks, log, lost, sourceVars, senderVars>>

\* (seeded faults) the number is read and not taken; the counter is wider than the header.
ReadSeq(q, n) == q
WideSeq(q, n) == q + n

\* fetch_add on a 16-bit counter.
NextSeq(q, n) == (q + n) % SeqMod

NumberAudio(s) ==
    /\ pc[s] = "number"
    /\ hand' = [hand EXCEPT ![s].seq = seq["audio"]]
    /\ seq' = [seq EXCEPT !["audio"] = NextSeq(@, 1)]
    /\ Goto(s, "stamp")
    /\ UNCHANGED <<transportVars, ts, first_audio, epoch, packets, historyVars, sourceVars, frame, began>>

Stamp(s) ==
    /\ pc[s] = "stamp"
    /\ hand' = [hand EXCEPT ![s].ts = ts[LegOf(s)]]
    /\ ts' = [ts EXCEPT ![LegOf(s)] = (@ + 1) % TsMod]
    /\ Goto(s, IF LegOf(s) = "audio" THEN "mark" ELSE "split")
    /\ UNCHANGED <<transportVars, seq, first_audio, epoch, packets, historyVars, sourceVars, frame, began>>

\* first_audio.swap(false)
TakeFirst == first_audio' = FALSE

MarkAudio(s) ==
    /\ pc[s] = "mark"
    /\ hand' = [hand EXCEPT ![s].mark = IF first_audio THEN marks ELSE 0]
    /\ TakeFirst
    /\ Goto(s, "encrypt")
    /\ UNCHANGED <<transportVars, seq, ts, epoch, packets, historyVars, sourceVars, frame, began>>

\* Audio looks for the socket when its packet is encrypted, video has it in its hand.
Send(s) ==
    /\ pc[s] = "send"
    /\ packets' = IF LegOf(s) = "video" \/ socket THEN [packets EXCEPT ![LegOf(s)] = @ + hand[s].chunks] ELSE packets
    /\ Return(s, "idle")
    /\ UNCHANGED <<transportVars, seq, ts, first_audio, epoch, historyVars, sourceVars, frame>>

\* The sample that a sender is in.
FrameOf(s) == <<SourceOf(s), frame[s]>>

\* The packet that a sender of audio has built.
Entry(s) == [seq |-> hand[s].seq, ts |-> hand[s].ts, mark |-> hand[s].mark, frame |-> FrameOf(s)]

\* Without keys the number and the timestamp are spent and nothing is sent.
EncryptAudio(s) ==
    /\ pc[s] = "encrypt"
    /\ LegOf(s) = "audio"
    /\ IF keyed
       THEN /\ log' = [log EXCEPT !["audio"] = Append(@, Entry(s))]
            /\ hand' = [hand EXCEPT ![s] = [NoPacket EXCEPT !.chunks = 1]]
            /\ Goto(s, "send")
            /\ UNCHANGED began
       ELSE Return(s, "idle") /\ UNCHANGED log
    /\ UNCHANGED <<transportVars, trackVars, era, marks, announced, lost, sourceVars, frame>>

\* The packet cannot be marshalled or encrypted; its number was taken before.
FailAudio(s) ==
    /\ pc[s] = "encrypt"
    /\ LegOf(s) = "audio"
    /\ log' = [log EXCEPT !["audio"] = Append(@, Entry(s))]
    /\ lost' = lost \cup {<<"audio", FrameOf(s)>>}
    /\ Return(s, "done")
    /\ UNCHANGED <<transportVars, trackVars, era, marks, announced, sourceVars, frame>>

\* A video sample that has no chunks, or finds no socket, is over.
SplitVideo(s) ==
    /\ pc[s] = "split"
    /\ \E n \in 0 .. MaxChunks :
           IF n > 0 /\ socket
           THEN hand' = [hand EXCEPT ![s].chunks = n] /\ Goto(s, "encrypt") /\ UNCHANGED began
           ELSE Return(s, "idle")
    /\ UNCHANGED <<transportVars, trackVars, historyVars, sourceVars, frame>>

\* The payloader cannot split the sample, which has no numbers yet.
FailSplit(s) ==
    /\ pc[s] = "split"
    /\ Return(s, "done")
    /\ UNCHANGED <<transportVars, trackVars, historyVars, sourceVars, frame>>

Left(s) == hand[s].chunks - hand[s].done

\* (seeded fault) the lock is released between two chunks.
OneChunk(s) == 1

\* How many chunks are numbered and encrypted under one lock of the context: all.
UnderOneLock(s) == Left(s)

\* The next i-th chunk of a sender of video; the marker is on the last of the sample.
Chunk(s, i) ==
    [seq |-> NextSeq(seq["video"], i - 1), ts |-> hand[s].ts,
     mark |-> IF hand[s].done + i = hand[s].chunks THEN 1 ELSE 0, frame |-> FrameOf(s)]

\* The next n chunks get their numbers.
NumberVideo(s, n) ==
    /\ log' = [log EXCEPT !["video"] = @ \o [i \in 1 .. n |-> Chunk(s, i)]]
    /\ seq' = [seq EXCEPT !["video"] = NextSeq(@, n)]

EncryptVideo(s) ==
    LET n == UnderOneLock(s)
    IN  /\ pc[s] = "encrypt"
        /\ LegOf(s) = "video"
        /\ IF keyed
           THEN /\ NumberVideo(s, n)
                /\ hand' = [hand EXCEPT ![s].done = @ + n]
                /\ IF n = Left(s) THEN Goto(s, "send") ELSE UNCHANGED pc
                /\ UNCHANGED began
           ELSE Return(s, "idle") /\ UNCHANGED <<log, seq>>
        /\ UNCHANGED <<transportVars, ts, first_audio, epoch, packets, era, marks, announced, lost,
                       sourceVars, frame>>

\* The k-th of the chunks cannot be marshalled or encrypted: it and those before it, which
\* wait for the loop to end, are dropped, and their numbers are lost.
FailVideo(s) ==
    /\ pc[s] = "encrypt"
    /\ LegOf(s) = "video"
    /\ keyed
    /\ \E k \in 1 .. UnderOneLock(s) : NumberVideo(s, k)
    /\ lost' = lost \cup {<<"video", FrameOf(s)>>}
    /\ Return(s, "done")
    /\ UNCHANGED <<transportVars, ts, first_audio, epoch, packets, era, marks, announced, sourceVars, frame>>

----------------------------------------------------------------------------
(* close: the flag is set, then the keys go, then epoch and socket.         *)

Close ==
    /\ \/ ~closed /\ closed' = TRUE /\ UNCHANGED <<keyed, socket, epoch>>
       \/ closed /\ keyed /\ keyed' = FALSE /\ UNCHANGED <<closed, socket, epoch>>
       \/ closed /\ ~keyed /\ socket /\ socket' = FALSE /\ epoch' = None /\ UNCHANGED <<closed, keyed>>
    /\ UNCHANGED <<seq, ts, first_audio, packets, historyVars, sourceVars, senderVars>>

----------------------------------------------------------------------------
(* The specification *)

SetSource == StopSenders \/ ResetFirst \/ ResetEpoch \/ StartSenders

SendStep(s) ==
    \/ Begin(s) \/ Enter(s) \/ Epoch(s) \/ Report(s) \/ NumberAudio(s) \/ Stamp(s) \/ MarkAudio(s)
    \/ EncryptAudio(s) \/ SplitVideo(s) \/ EncryptVideo(s) \/ Send(s)
    \/ FailAudio(s) \/ FailSplit(s) \/ FailVideo(s)

Next == SetSource \/ (\E s \in Senders : SendStep(s)) \/ TimerReport \/ Close

Spec == Init /\ [][Next]_vars

----------------------------------------------------------------------------
(* Properties *)

Frames == (0 .. MaxSources) \X (0 .. MaxFrames)

\* The packet at the i-th place of a log went out, or is about to.
Kept(l, i) == <<l, log[l][i].frame>> \notin lost

\* Every variable has its type: numbers fit their header fields, and the packet counters of
\* the sender reports never count more than what is sent, so not what an error dropped.
TypeOK ==
    /\ closed \in BOOLEAN /\ keyed \in BOOLEAN /\ socket \in BOOLEAN /\ first_audio \in BOOLEAN
    /\ seq \in [Legs -> 0 .. SeqMod - 1] /\ ts \in [Legs -> 0 .. TsMod - 1]
    /\ epoch \in 0 .. era /\ era \in 1 .. MaxSources + 1 /\ marks \in era .. era + 1
    /\ announced \subseteq 1 .. era
    /\ \A l \in Legs : packets[l] \in 0 .. Cardinality({i \in DOMAIN log[l] : Kept(l, i)})
    /\ current \in 0 .. MaxSources /\ switching \in {"no", "reset_first", "reset_epoch", "start"}
    /\ pc \in [Senders -> {"idle", "enter", "epoch", "report", "number", "stamp", "mark", "split",
                           "encrypt", "send", "done"}]
    /\ frame \in [Senders -> 0 .. MaxFrames] /\ began \in [Senders -> 0 .. era]
    /\ \A s \in Senders : hand[s].seq \in 0 .. SeqMod - 1 /\ hand[s].chunks \in 0 .. MaxChunks
    /\ \A l \in Legs : \A i \in DOMAIN log[l] : log[l][i].frame \in Frames
    /\ lost \subseteq Legs \X Frames

\* The chunks of a video sample that is sent are all there, have consecutive numbers and one
\* timestamp, which is their own, and the marker is on the last and only there: a straggler of
\* the old source never comes between them (the loop under srtp_context's mutex).
FramesTogether ==
    "video" \in Legs =>
        LET v == log["video"]
        IN  \A i \in 1 .. Len(v) :
                /\ i < Len(v) => v[i + 1].seq = NextSeq(v[i].seq, 1)
                /\ Kept("video", i) /\ v[i].mark = 0 =>
                       i < Len(v) /\ v[i + 1].frame = v[i].frame /\ v[i + 1].ts = v[i].ts
                /\ v[i].mark = 1 =>
                       \A j \in i + 1 .. Len(v) : v[j].frame # v[i].frame /\ v[j].ts # v[i].ts

Numbered(s) == LegOf(s) = "audio" /\ pc[s] \in {"stamp", "mark", "encrypt"}

\* On an open transport no sequence number is used twice, and each one that was taken is on a
\* packet, in the hand of a sender that is about to encrypt it, or lost with a sample whose
\* send failed, the last one of a pacing task that has ended (straggler and successor on
\* audio_seq, the early returns of the video leg, the errors after fetch_add).
EveryNumberOnce ==
    ~closed =>
        /\ \A l \in Legs :
               LET used == {log[l][i].seq : i \in DOMAIN log[l]}
                   held == {hand[s].seq : s \in {u \in Senders : LegOf(u) = l /\ Numbered(u)}}
               IN  /\ used \cap held = {}
                   /\ Cardinality(used) = Len(log[l])
                   /\ used \cup held = {NextSeq(FirstSeq, k) :
                                            k \in 0 .. ((seq[l] + SeqMod - FirstSeq) % SeqMod) - 1}
        /\ \A p \in lost : \E s \in Senders : pc[s] = "done" /\ p = <<LegOf(s), FrameOf(s)>>

\* After a reset at most one audio packet is marked as the start of a talkspurt, although a
\* straggler and the new source's first packet race for the flag (first_audio.swap).
OneMarkPerReset ==
    "audio" \in Legs =>
        LET a == log["audio"]
        IN  \A i, j \in DOMAIN a : a[i].mark # 0 /\ a[i].mark = a[j].mark => i = j

\* "SR + SDES packet is emitted immediately at T=0": whoever sends after a reset, the report
\* for the new epoch went out, or the task that set the epoch is about to send it
\* (send_rtp_bytes, just_started).
StartIsReported ==
    ~closed =>
        \A s \in Senders :
            began[s] = era /\ pc[s] # "report" =>
                era \in announced \/ \E u \in Senders : pc[u] = "report" /\ began[u] = era

\* A source that replaces another starts once, whether its own task or a straggler of the old
\* one is the first to send: one talkspurt and one epoch, which was reported by whoever set it,
\* or is about to be.
StartsOnce == OneMarkPerReset /\ StartIsReported
=============================================================================
