------------------------------- MODULE AvSync -------------------------------
(***************************************************************************)
(* The streamers of one source (media/streamer.rs) as set_source builds    *)
(* and drives them: one per leg, each made of a reader task, a bounded     *)
(* channel and a pacing task, and the two legs of an A/V source joined by  *)
(* a Barrier(2) that the pacing tasks wait at before a first sample.       *)
(*                                                                         *)
(* The controller is the call: it constructs the streamers, then pauses,   *)
(* resumes, mutes, unmutes and stops them, one leg after the other.  A     *)
(* sample is only counted; its duration is the step from one send to the   *)
(* next.                                                                   *)
(***************************************************************************)
EXTENDS Naturals, Sequences, FiniteSets

CONSTANTS
    Sources,       \* which legs a source may have
    Samples,       \* how many samples each leg's container holds
    Cap,           \* capacity of the channel (256 in the code)
    Commands,      \* what the caller may ask for
    MaxCommands,   \* bound: how many commands in one behaviour
    Faults         \* what may go wrong: a read that stalls, a transport that is closed

AllCommands == {"pause", "resume", "mute", "unmute", "stop"}

Legs == {"audio", "video"}

ASSUME AvSyncAssumption ==
    /\ Sources \subseteq (SUBSET Legs) \ {{}}
    /\ Samples \in [Legs -> Nat]
    /\ Cap \in Nat \ {0}
    /\ Commands \subseteq AllCommands
    /\ MaxCommands \in Nat
    /\ Faults \subseteq {"stall", "close"}

\* What a reader puts into the channel: Ok(sample), or the Err it ends with.
Failures == {"eof", "stall"}
Items == {"sample"} \cup Failures

VARIABLES
    legs,              \* the legs of the source
    running, paused,   \* the flags of each Streamer
    armed,             \* legs whose on_end callback is registered
    reader,            \* where each reader task is
    item,              \* what it has read and not yet sent
    produced,          \* samples read so far
    chan,              \* the channel
    pacing,            \* where each pacing task is
    next,              \* next_sample_res
    first,             \* first_sample
    waiting,           \* legs waiting at the barrier
    sent,              \* samples sent to the transport
    outcome,           \* how a pacing task ended
    ending,            \* legs whose callback was taken and is about to be called
    reported,          \* legs whose end the caller was told of
    overrun,           \* samples a leg sent since it was held or stopped
    transport_closed,
    todo,              \* leg operations the call has yet to carry out
    muted, hushed,     \* the call's own flags: mute, and pause
    commands           \* commands given so far

streamer == <<legs, running, paused, armed>>
readerVars == <<reader, item, produced>>
pacingVars == <<pacing, next, first, waiting, sent, outcome, ending, reported, overrun>>
callVars == <<todo, muted, hushed, commands>>
vars == <<streamer, readerVars, chan, pacingVars, transport_closed, callVars>>

----------------------------------------------------------------------------
(* Helpers *)

\* sync_barrier is Some only for a source with both legs.
HasBarrier == Cardinality(legs) = 2

\* o on the audio leg, on the video leg, on each.
OnLeg(o, l) == IF l \in legs THEN <<<<o, l>>>> ELSE <<>>
EachLeg(o) == OnLeg(o, "audio") \o OnLeg(o, "video")

\* Audio first; a leg is held and gets its callback after it was spawned, the video leg
\* gets one only when it is alone.
Construction ==
    OnLeg("spawn", "audio")
        \o (IF muted \/ hushed THEN OnLeg("pause", "audio") ELSE <<>>)
        \o OnLeg("arm", "audio")
        \o OnLeg("spawn", "video")
        \o (IF hushed THEN OnLeg("pause", "video") ELSE <<>>)
        \o (IF "audio" \notin legs THEN OnLeg("arm", "video") ELSE <<>>)

Init ==
    /\ legs \in Sources
    /\ running = [l \in Legs |-> FALSE] /\ paused = [l \in Legs |-> FALSE] /\ armed = {}
    /\ reader = [l \in Legs |-> "done"] /\ item = [l \in Legs |-> "none"]
    /\ produced = [l \in Legs |-> 0]
    /\ chan = [l \in Legs |-> <<>>]
    /\ pacing = [l \in Legs |-> "done"] /\ next = [l \in Legs |-> "none"]
    /\ first = [l \in Legs |-> TRUE] /\ waiting = {}
    /\ sent = [l \in Legs |-> 0] /\ outcome = [l \in Legs |-> "none"]
    /\ ending = {} /\ reported = {}
    /\ overrun = [l \in Legs |-> 0]
    /\ transport_closed = FALSE
    /\ muted \in BOOLEAN /\ hushed \in BOOLEAN /\ commands = 0
    /\ todo = Construction

----------------------------------------------------------------------------
(* The reader task of leg l *)

\* (seeded fault) a reader that is paused sleeps on when it is stopped.
LeavesUnlessPaused(l) == ~running[l] /\ ~paused[l]

Leaves(l) == ~running[l]

\* It turns into a read unless it is paused, and ends when it is stopped; ending drops
\* its half of the channel.
ReaderTop(l) ==
    /\ reader[l] = "top"
    /\ \/ Leaves(l) /\ reader' = [reader EXCEPT ![l] = "done"]
       \/ running[l] /\ ~paused[l] /\ reader' = [reader EXCEPT ![l] = "read"]
    /\ UNCHANGED <<streamer, item, produced, chan, pacingVars, transport_closed, callVars>>

\* next_sample, under STALL_TIMEOUT.
Read(l) ==
    /\ reader[l] = "read"
    /\ reader' = [reader EXCEPT ![l] = "send"]
    /\ \/ /\ produced[l] < Samples[l]
          /\ produced' = [produced EXCEPT ![l] = @ + 1]
          /\ item' = [item EXCEPT ![l] = "sample"]
       \/ /\ produced[l] = Samples[l]
          /\ item' = [item EXCEPT ![l] = "eof"]
          /\ UNCHANGED produced
       \/ /\ "stall" \in Faults
          /\ item' = [item EXCEPT ![l] = "stall"]
          /\ UNCHANGED produced
    /\ UNCHANGED <<streamer, chan, pacingVars, transport_closed, callVars>>

\* (seeded fault) one more than the channel takes.
RoomForOneMore(l) == Len(chan[l]) <= Cap

HasRoom(l) == Len(chan[l]) < Cap

\* (seeded fault) a full channel loses the sample.
SendOrDrop(l) ==
    /\ chan' = [chan EXCEPT ![l] = IF HasRoom(l) \/ item[l] \in Failures THEN Append(@, item[l]) ELSE @]

SendItem(l) ==
    /\ HasRoom(l)
    /\ chan' = [chan EXCEPT ![l] = Append(@, item[l])]

\* tx.send waits for room and fails once the pacing task is gone; an Err is the last
\* thing that is sent.
ReaderSend(l) ==
    /\ reader[l] = "send"
    /\ item' = [item EXCEPT ![l] = "none"]
    /\ \/ /\ pacing[l] # "done"
          /\ SendItem(l)
          /\ reader' = [reader EXCEPT ![l] = IF item[l] \in Failures THEN "done" ELSE "top"]
       \/ /\ pacing[l] = "done"
          /\ reader' = [reader EXCEPT ![l] = "done"]
          /\ UNCHANGED chan
    /\ UNCHANGED <<streamer, produced, pacingVars, transport_closed, callVars>>

----------------------------------------------------------------------------
(* The pacing task of leg l *)

\* The task ends and takes its callback, if there is one.
Finish(l, how) ==
    /\ pacing' = [pacing EXCEPT ![l] = "done"]
    /\ outcome' = [outcome EXCEPT ![l] = how]
    /\ ending' = ending \cup (armed \cap {l})
    /\ armed' = armed \ {l}
    /\ chan' = [chan EXCEPT ![l] = <<>>]

\* The callback that was taken is called.
ReportEnd(l) ==
    /\ l \in ending
    /\ ending' = ending \ {l}
    /\ reported' = reported \cup {l}
    /\ UNCHANGED <<streamer, readerVars, chan, pacing, next, first, waiting, sent, outcome,
                   overrun, transport_closed, callVars>>

\* rx.recv(), before the loop and then next to the sleep: an item, or None when the
\* channel is empty and its sender gone.
Receive(l) ==
    /\ pacing[l] = "recv"
    /\ \/ /\ chan[l] # <<>>
          /\ next' = [next EXCEPT ![l] = Head(chan[l])]
          /\ chan' = [chan EXCEPT ![l] = Tail(@)]
       \/ /\ chan[l] = <<>>
          /\ reader[l] = "done"
          /\ UNCHANGED <<next, chan>>
    /\ pacing' = [pacing EXCEPT ![l] = "top"]
    /\ UNCHANGED <<streamer, readerVars, first, waiting, sent, outcome, ending, reported, overrun,
                   transport_closed, callVars>>

\* (seeded fault) the pause flag is not looked at.
IgnoresPause(l) == running[l]

\* The pacing loop goes on to its next sample.
MayPace(l) == running[l] /\ ~paused[l]

\* A turn of the pause loop: the next sample counts as a first one again.
NoticePause(l) ==
    /\ pacing[l] = "top"
    /\ running[l] /\ paused[l]
    /\ ~first[l]
    /\ first' = [first EXCEPT ![l] = TRUE]
    /\ UNCHANGED <<streamer, readerVars, chan, pacing, next, waiting, sent, outcome, ending, reported,
                   overrun, transport_closed, callVars>>

\* (seeded faults) the video leg does not wait; every sample waits.
AudioWaits(l) == first[l] /\ HasBarrier /\ l = "audio"
EverySampleWaits(l) == HasBarrier

\* Before a first sample the legs of an A/V source meet.
Meets(l) == first[l] /\ HasBarrier

TakeSample(l) ==
    /\ pacing[l] = "top"
    /\ MayPace(l)
    /\ next[l] = "sample"
    /\ next' = [next EXCEPT ![l] = "none"]
    /\ IF ~Meets(l)
       THEN /\ pacing' = [pacing EXCEPT ![l] = "send"]
            /\ first' = [first EXCEPT ![l] = FALSE]
            /\ UNCHANGED waiting
       ELSE IF waiting = {}
       THEN /\ pacing' = [pacing EXCEPT ![l] = "barrier"]
            /\ waiting' = {l}
            /\ UNCHANGED first
       ELSE /\ pacing' = [m \in Legs |-> "send"]
            /\ first' = [m \in Legs |-> FALSE]
            /\ waiting' = {}
    /\ UNCHANGED <<streamer, readerVars, chan, sent, outcome, ending, reported, overrun,
                   transport_closed, callVars>>

\* The loop ends: the streamer was stopped, or the reader failed.  (None is received only
\* after a stop, and the loop ends before it looks at it.)
EndOfLoop(l) ==
    /\ pacing[l] = "top"
    /\ \/ ~running[l] /\ Finish(l, "stopped")
       \/ MayPace(l) /\ next[l] \in Failures /\ Finish(l, next[l])
    /\ UNCHANGED <<legs, running, paused, readerVars, next, first, waiting, sent, reported, overrun,
                   transport_closed, callVars>>

Stopped(l) == paused[l] \/ ~running[l]

\* send_rtp_bytes fails only on a closed transport.
Send(l) ==
    /\ pacing[l] = "send"
    /\ \/ /\ transport_closed
          /\ Finish(l, "transport")
          /\ UNCHANGED <<sent, overrun>>
       \/ /\ ~transport_closed
          /\ sent' = [sent EXCEPT ![l] = @ + 1]
          /\ overrun' = [overrun EXCEPT ![l] = IF Stopped(l) THEN @ + 1 ELSE 0]
          /\ pacing' = [pacing EXCEPT ![l] = "recv"]
          /\ UNCHANGED <<armed, chan, outcome, ending>>
    /\ UNCHANGED <<legs, running, paused, readerVars, next, first, waiting, reported,
                   transport_closed, callVars>>

CloseTransport ==
    /\ "close" \in Faults /\ ~transport_closed
    /\ transport_closed' = TRUE
    /\ UNCHANGED <<streamer, readerVars, chan, pacingVars, callVars>>

----------------------------------------------------------------------------
(* The call *)

\* A toggle that finds its flag set already does nothing.
Command(c) ==
    /\ todo = <<>>
    /\ commands < MaxCommands
    /\ commands' = commands + 1
    /\ \/ c = "pause" /\ ~hushed /\ hushed' = TRUE /\ todo' = EachLeg("pause") /\ UNCHANGED muted
       \/ c = "resume" /\ hushed /\ hushed' = FALSE /\ todo' = EachLeg("resume") /\ UNCHANGED muted
       \/ c = "mute" /\ ~muted /\ muted' = TRUE /\ todo' = OnLeg("pause", "audio") /\ UNCHANGED hushed
       \/ c = "unmute" /\ muted /\ muted' = FALSE /\ todo' = OnLeg("resume", "audio") /\ UNCHANGED hushed
       \/ c = "stop" /\ todo' = EachLeg("stop") /\ UNCHANGED <<muted, hushed>>
    /\ UNCHANGED <<streamer, readerVars, chan, pacingVars, transport_closed>>

\* (seeded fault) stop leaves the callback.
StopKeepsCallback(l) == running' = [running EXCEPT ![l] = FALSE] /\ UNCHANGED armed

\* Streamer::stop.
StopStreamer(l) ==
    /\ armed' = armed \ {l}
    /\ running' = [running EXCEPT ![l] = FALSE]

\* new_with_barrier: both tasks are spawned.
Spawn(l) ==
    /\ reader' = [reader EXCEPT ![l] = "top"]
    /\ pacing' = [pacing EXCEPT ![l] = "recv"]

\* Streamer::new, pause, resume, stop and on_end on one leg.
LegOperation ==
    /\ todo # <<>>
    /\ todo' = Tail(todo)
    /\ LET o == Head(todo)[1]
           l == Head(todo)[2]
       IN  /\ IF o = "spawn" THEN Spawn(l) ELSE UNCHANGED <<reader, pacing>>
           /\ \/ o = "spawn" /\ running' = [running EXCEPT ![l] = TRUE] /\ UNCHANGED <<paused, armed>>
              \/ o = "pause" /\ paused' = [paused EXCEPT ![l] = TRUE] /\ UNCHANGED <<running, armed>>
              \/ o = "resume" /\ paused' = [paused EXCEPT ![l] = FALSE] /\ UNCHANGED <<running, armed>>
              \/ o = "stop" /\ StopStreamer(l) /\ UNCHANGED paused
              \/ o = "arm" /\ armed' = armed \cup {l} /\ UNCHANGED <<running, paused>>
           /\ overrun' = IF o = "resume" THEN [overrun EXCEPT ![l] = 0] ELSE overrun
    /\ UNCHANGED <<legs, item, produced, chan, next, first, waiting, sent, outcome, ending, reported,
                   transport_closed, muted, hushed, commands>>

----------------------------------------------------------------------------
(* The specification *)

ReaderStep(l) == ReaderTop(l) \/ Read(l) \/ ReaderSend(l)
PacingStep(l) == Receive(l) \/ NoticePause(l) \/ TakeSample(l) \/ EndOfLoop(l) \/ Send(l) \/ ReportEnd(l)

Next ==
    \/ \E l \in Legs : ReaderStep(l) \/ PacingStep(l)
    \/ \E c \in Commands : Command(c)
    \/ LegOperation
    \/ CloseTransport

Spec == Init /\ [][Next]_vars

\* The runtime polls every ready task; a read ends at the latest with STALL_TIMEOUT, a
\* sleep with its deadline; a method of the call runs to its end.
Fairness ==
    /\ \A l \in Legs : WF_vars(ReaderStep(l)) /\ WF_vars(PacingStep(l))
    /\ WF_vars(LegOperation)

FairSpec == Spec /\ Fairness

----------------------------------------------------------------------------
(* Properties *)

\* Every variable has its type, the channel is bounded, a leg waits exactly when it is at
\* the barrier, and the pacing task is handed None only after a stop.
TypeOK ==
    /\ running \in [Legs -> BOOLEAN] /\ paused \in [Legs -> BOOLEAN] /\ armed \subseteq Legs
    /\ reader \in [Legs -> {"top", "read", "send", "done"}]
    /\ item \in [Legs -> Items \cup {"none"}]
    /\ \A l \in Legs : produced[l] \in 0 .. Samples[l] /\ sent[l] \in 0 .. produced[l]
    /\ \A l \in Legs : Len(chan[l]) <= Cap /\ (\A i \in DOMAIN chan[l] : chan[l][i] \in Items)
    /\ pacing \in [Legs -> {"recv", "top", "barrier", "send", "done"}]
    /\ next \in [Legs -> Items \cup {"none"}]
    /\ legs \in Sources
    /\ \A l \in Legs : pacing[l] = "top" /\ next[l] = "none" => ~running[l]
    /\ first \in [Legs -> BOOLEAN]
    /\ waiting \subseteq Legs /\ waiting = {l \in Legs : pacing[l] = "barrier"}
    /\ outcome \in [Legs -> Failures \cup {"none", "stopped", "transport"}]
    /\ ending \subseteq Legs /\ reported \subseteq Legs
    /\ overrun \in [Legs -> Nat]
    /\ muted \in BOOLEAN /\ hushed \in BOOLEAN /\ transport_closed \in BOOLEAN
    /\ commands \in 0 .. MaxCommands

\* A leg of an A/V source sends nothing before both legs have a sample to send: once
\* one has sent, the other has met it at the barrier and holds or has sent its own, unless
\* the transport was closed under it (README: "synchronized at T=0").
StartTogether ==
    HasBarrier =>
        \A l, m \in Legs :
            sent[l] > 0 => sent[m] > 0 \/ pacing[m] = "send" \/ outcome[m] = "transport"

\* After a leg was paused or stopped it sends at most the one sample it had in hand.
HoldBites == \A l \in Legs : overrun[l] <= 1

\* A leg that ends by end of file has sent every sample of its container, however often
\* it was paused (the sample in hand is kept over a pause).
NothingSkipped == \A l \in Legs : outcome[l] = "eof" => sent[l] = Samples[l]

AllDone == \A l \in Legs : reader[l] = "done" /\ pacing[l] = "done"

\* A leg that waits at the barrier when the other has ended waits for ever, and its reader with
\* it once the channel is full: barrier.wait() looks at nothing else.
LeftAtBarrier(l) == waiting = {l} /\ \E m \in legs : pacing[m] = "done"

\* After stop both tasks of every leg end, also when they sleep, wait for each other or for
\* room, or fail meanwhile; the exception is a leg that its partner left at the barrier.
StopEndsTasks ==
    (todo = <<>> /\ \A l \in Legs : ~running[l]) ~>
        \A l \in Legs : (reader[l] = "done" /\ pacing[l] = "done") \/ LeftAtBarrier(l)

\* A source that nobody stops or holds, and whose reads and sends succeed, plays to its end:
\* the legs of an A/V source meet once and never wait for each other again, however unequal
\* they are.
PlaysToTheEnd ==
    [](~muted /\ ~hushed /\ commands = 0 /\ \A l \in Legs : outcome[l] \in {"none", "eof"})
        => <>[]AllDone

Life == INSTANCE StreamerLife WITH
            live <- {l \in Legs : pacing[l] # "done"},
            running <- {l \in Legs : running[l]},
            fired <- reported

\* The legs are streamers as the call sees them: every step of the tasks, the channel and
\* the barrier is a step of StreamerLife or changes nothing the call can tell.
ImplementsLife == Life!Spec

\* Once the call is neither muted nor paused for good, its audio ends some day.
AudioGoesOn == <>[](~muted /\ ~hushed) => <>[](pacing["audio"] = "done")

=============================================================================
