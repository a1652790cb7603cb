# rusttgcalls in TLA+

TLA+ models of the rusttgcalls crate, the TLC configurations that check them on small
instances, and TLAPS proofs of what matters most for every size. Line numbers refer to the
Rust sources of this repository; `PROJECT.json` maps each definition to its lines, each
property to a seeded fault that breaks it, and each hazard of the code to the properties that
watch it.

## 1. The system

A `Client` holds one call per chat. A WebRTC call (`GroupCall`) owns a stack with a transport
(UDP, STUN, DTLS, SRTP) and, per source, up to two `Streamer`s that read a container from a
file or from ffmpeg's pipe and pace its samples onto the transport. An RTMP call owns one
ffmpeg that does everything. Everything runs on tokio; the crate hands out `Arc`s, so any
method may run in any number of tasks at once, on flags that are mostly separate atomics.

| component | state | operations | talks to | correct when |
|---|---|---|---|---|
| Client (`rusttgcalls.rs`) | DashMap of calls, callbacks | create_call, create_rtmp_call, connect, set_stream_sources, toggles, seek_by, stop, close | calls, through handles it looked up | one call per chat, an open call can always be stopped |
| GroupCall (`instances/group_call.rs`) | atomics `closed switching connect_called paused muted ended_once`, net_state, two streamer slots behind mutexes | connect, set_source, pause, resume, mute, unmute, stop, handle_streamer_end | Streamers (construct, hold, stop, callback), Stack (state, connect, close) | no streamer outlives its slot, legs obey the flags, a stop is silent and complete, the gate lets nothing through before the handshake, methods return |
| RTMPCall (`instances/rtmp_call.rs`) | ffmpeg slot, `closed paused muted`, position | the same | ShellReader | every ffmpeg has one owner, stop ends it |
| Streamer (`media/streamer.rs`) | running, paused, on_end; a reader task, a bounded channel, a pacing task, a barrier shared by two legs | pause, resume, stop, on_end | transport, frame reader, partner leg | legs start together, a hold bites, nothing is skipped, tasks end after stop |
| ShellReader (`io/shell_reader.rs`) | child behind an async mutex, exited, error; a reap task | new, close, set_on_exit, wait_for_exit | ffmpeg | exits are noticed, and only real ones; close kills |
| DirectTransport (`wrtc/native/direct_transport.rs`) | state, closed, socket, address, two SRTP contexts; media counters | connect (spawns a worker), close, send_rtp_bytes, reset_media_track_state | the peer, Streamers | Connected means keyed both ways, keys are never swapped, all tasks end after close; RTP numbers continue |
| Stack (`wrtc/native/stack.rs`) | a transport and a state callback | connect, close | GroupCall | tells its owner what the transport did |
| RingBuffer (`utils/ringbuf.rs`) | bytes, head, full behind one mutex | write, snapshot | ShellReader | snapshot is the tail of what was written |
| Sources (`media/shell_source.rs`, `media/transcode.rs`, `media/source.rs`) | a command or a path, encoder options | from_shell, from_shells, open, open_at, tokenize_shell | ShellReader (spawned), frame readers | ffmpeg is told what the caller meant: his words, his options, one seek, the sink last; a leg that cannot start ends the open |
| Frame readers (`media/frame_reader.rs`) | page and packet buffers, header flags | next_sample | Streamer's reader task | every complete packet is yielded once, whole and in order, with the duration it has |
| Dispatcher, FactoryMonitor, Factory/CertPool, signalling, keys | see `PROJECT.json` | | | |

Hard behaviours, in the order they shaped the plan: methods of one call interleaving at atomics
and mutexes; pacing tasks that end while their owner drops them; two legs that meet at a
barrier under pauses; a connect that times out next to a handshake that completes; close next
to both; a mutex held across a child's lifetime; a table that is only atomic per operation; a
container that is cut anywhere; a command line to which options are added wherever the caller has
put his own; a duration that is rounded twice on its way to a timestamp.
All hazards, at their lines, are listed in `PROJECT.json`.

## 2. Plan

Written, in this order (most important first):

1. `StreamerLife`, `StackLife`: what a streamer and a stack promise to the call. Small abstract
   specifications that both sides are checked against.
2. `GroupCall`: the core. Uses streamers and stack only through those promises
   (`ImplementsLife`, `ImplementsStack`). `GroupCallProofs`: its invariants, for every number
   of tasks.
3. `AvSync`: the inside of the streamers of one source; refines `StreamerLife`. `AvSyncProofs`: its
   safety and the refinement.
4. `Transport`: the inside of the stack; refines `StackLife`. `TransportProofs`: its safety and the
   refinement.
5. `Client`: the table over the calls. `ClientProofs`.
6. `ShellReader` and `RtmpCall`, which extends it. `RtmpCallProofs`.
7. `MediaTrack`: the outgoing media of one transport over two sources. `MediaTrackProofs`.
8. `RingBuffer`.
9. `MediaClock`, and `FrameReader`, which extends it.
10. `Tokenizer`; `CommandLine` and `Source`, which extends it. `MCSources` checks 8 to 10 in one run.
    `SourcesProofs` has the proofs about the ring, the clock, the frame readers and the tokenizer,
    `CommandLineProofs` those about the lines.

Next, in this order:

11. The playback position in `RtmpCall` (`started_at`, `resume_ms`; to state: the position a
    resume starts from is what was played); `set_on_exit` and `wait_for_exit` in `ShellReader`
    (a waiter that looks just before the exit is woken or has missed it).
12. `CertPool` and `PeerFactory` (the pool is refilled while it is drawn from; SSRCs of one
    factory differ), then `FactoryMonitor` and `Dispatcher`, once something in the crate
    constructs them.

## 3. Modules

Every module declares its parameters as CONSTANTS with named assumptions, has one action per
step that another task can tell apart, and no RECURSIVE operator. Operators commented
"(seeded fault)" are not part of any behaviour: each is the body that a plausible bug would
give the definition after it, and `PROJECT.json` pairs it with the property that then fails.

**StreamerLife** (streamer.rs:57-76, 178-227). A streamer is live until its pacing task ends,
running until it is stopped; its callback is armed, then taken by the ending task, then called.
A stop drops callback and `running` together, so a stopped streamer that had not taken its
callback never reports.

**StackLife** (stack.rs, direct_transport.rs). The state becomes Connected only in the step
that installs keys; keys stay until the transport is closed; closed stays closed.

**GroupCall**. `pc[t]` is the next cut in the method that task t is in. The cuts are the atomic
accesses and lock operations: `set_source` alone has gate, wait, recheck, switch, peek, both
locks, replace, per leg spawn and install, unlock, switch off and upgrade. What happens under
both mutexes and cannot be seen is one step (`Replace`); spawn and install are two, because a
streamer runs from its construction on and can end between the two. The flags `had_audio` and
`had_video` only choose which callbacks `handle_streamer_end` calls and are left out. The
client's report (`Snapshot`, `Report`) is part of the toggles, because `Client` calls
`on_upgrade` after the method returns, with a state it read separately.

**AvSync**. One source of either leg or both, as `set_source` builds it: constructed while muted or
paused or not, with its callback registered afterwards. Per leg a reader task (`top`, `read`,
`send`), a channel of capacity `Cap`, a pacing task (`recv`, `top`, `barrier`, `send`), and the
call as the controller that works through leg operations one at a time. A reader may stall and
the transport may be closed under a leg (`Faults`). Samples are counted, not looked into;
sleeping is the time between two steps.

**Transport**. A connect that gets a socket has a number, its dial; keys, socket, address and
worker carry it. `Install` is one step because both contexts are locked around it; close is
six, because each of its fields has its own lock. The wake-up goes only to who waits then
(`Notify::notify_waiters`), the 5 ms poll makes up for the others, `GiveUp` is the 10 s timeout.

**Client**. The table's operations are atomic; `create_call` is look, build, insert; methods are
look up, then work on the handle; `close` walks entry by entry, then clears entry by entry. `seek_by`
checks that the call is open (`Look`) and has its effect in a later step (`Seek`), as a stop fits
between; an RTMP call it stops is closed from the inside. The methods that neither open nor stop a
call (connect, set_stream_sources, the toggles) change nothing the client keeps: what they do, also to
a call that was stopped after their check, is in `GroupCall` and `RtmpCall`.

**ShellReader / RtmpCall**. The reap task takes the child's async mutex when it is first
polled and keeps it over `child.wait()`; `close` needs the same mutex. The call has one slot;
`pause` and `stop` take the reader out and spawn its close, `set_source` and `resume` put another
in. `failed` remembers that the last resume could not spawn ffmpeg, which is what a call that
reports itself as playing and is silent comes from; no action reads it. The playback position is
left out.

**MediaTrack**. A sender is a leg of a source, so two sources give two senders per leg, the
first of which may be in the middle of a send when `set_source` stops it: a straggler. A send is
cut at every atomic and every mutex it touches (`Enter`, `Epoch`, `Report`, `NumberAudio`,
`Stamp`, `MarkAudio` or `SplitVideo`, the encryption, `Send`); all chunks of a video sample are
numbered and encrypted under one lock, which is `UnderOneLock`. `set_source` is stop, the two
resets and start; close is cut as `Transport` cuts it, as far as a sender can tell. The
timestamps advance by one per sample. Octet counts, picture ids, key frames and header
extensions are left out. An error in marshalling, encryption or the payloader leaves a send early and
ends the pacing task (the `?` at direct_transport.rs:617-627, :656-658, :703-709 and the caller's):
`FailAudio`, `FailSplit`, `FailVideo`. The numbers drawn by then are gone, and for video also the chunks
that were encrypted and not sent; the samples that lose them are in `lost`. Which reset an epoch, a marker or a report belongs to is kept in `era`
and `marks`, and what was encrypted in `log`; no action reads the log.

**RingBuffer**. Every write is under the ring's mutex, so it is one step; `tape` is all that was
written. The model keeps `head` and `full` apart as the code does; `Wraps` is the branch that
decides between one copy and two.

**MediaClock, FrameReader**. `next_sample` reads a page (`ReadPage`), walks its segments one by one
(`WalkSegment`), leaves it (`EndPage`) and returns what it found a packet at a time (`YieldPacket`).
A page holds whole segments; where the muxer cuts is the environment's choice, which is when
`EndPage` happens, as are the end of the stream and garbage before any page (`Fail`): a page that is
cut short is not walked at all. `at` is the next segment of the container; `Lacing` and `Following`
are how the muxer laces a packet, with full segments of `Full` bytes, and the reader sees of it only
each segment's length (`EndsPacket`). `MediaClock` is the arithmetic from a TOC or a time base to a
duration and from there to ticks; `media` is the time by RFC 6716, for `ClockIsExact`.

**Tokenizer**. `tokenize_shell` one character at a time, over four kinds of character. What a caller
may write is stated without it: a text is a sequence of glyphs, each a character, what it is meant as
(a letter of a word, a mark that opens or closes quotes, an escape, a gap) and the place in the words
that the caller has come to; `Spells` says when glyphs spell words (`TextsAssumption`). The actions see
the characters only.

**CommandLine, Source**. `CommandLine` has the checks and edits of a line (`IsRaw`, `EnsureFlags`,
`InjectSeek`, the lines of a transcode) and, for the properties, `Meaning`: how ffmpeg reads a line,
token by token. Which tokens there are, which of them are options with a value (`Options`) or without
(`Flags`), and which codecs begin with pcm_ are constants; `OptionsAssumption` fixes those that the
code itself writes or looks for. `EncoderSettings` are those that it writes without looking for them;
`-ar` stands for the six of audio; for video there is `-deadline` only. `Usage` is what the caller has to keep to: inputs come before
outputs, and no value of an option looks like an option with a value or like the sink, since the code
looks for tokens wherever they are. Walks over a line are recursive functions over its positions.
`Source` opens one: from_shell, from_shells, or `open_at` of any kind of source, spawning leg after
leg with a failure at each.

Composition: `GroupCall` sees streamers and stack through the abstract modules, `AvSync` and
`Transport` implement those same modules, `RtmpCall` extends `ShellReader`, and `Client` sees a
call as open or stopped. `AvSync` sees a frame reader as so many samples and an end or a stall.

## 4. Runs

Deadlock checking is off everywhere: nobody is obliged to call a method, and a source that
played, a call that was stopped or bounds that are used up are ends the system may stop in.
That tasks do not wait for each other for ever is stated as a property instead
(`MethodsReturn`, `StopEndsTasks`, `WorkersEnd`, `ExitIsNoticed`).

| run | instance | shows |
|---|---|---|
| `gc_owners` | 2 tasks, both may set any source, one also connects and stops, one mutes and unmutes; 2 sources | no streamer runs outside a slot, gate, one end per source, legs obey the flags, reports are current, both refinements |
| `gc_toggles` | 2 tasks, one pauses and resumes, one owns the life, both end streamers; 1 source; fair | legs obey the flags under pause, nothing runs after a stop, methods return |
| `gc_stop_race` | set_source beside stop | **violation**: streamers are installed after stop |
| `av_sync` | sources of one leg or two, 2 + 1 samples, channel of 1, 2 commands, stalls, a close; fair | start together, holds bite, nothing is skipped, an untouched source plays to its end, both tasks end after stop, refines StreamerLife |
| `av_unmute` | 2 + 1 samples, mute then unmute; fair | **violation**: the audio waits at the barrier for ever |
| `transport` | 2 callers, 2 dials, a close; fair | keyed, keys kept, everything ends after close, refines StackLife |
| `media` | 2 sources of both legs, one sample per leg, video in up to 2 chunks; numbers modulo 16 from 14 | video samples stay together, no number is used twice and none is lost but by a send that fails and ends its pacing task, each source starts once: one marker, one reported epoch |
| `client` | 3 tasks, 2 chats, 3 calls; one creates and closes, two stop and seek | the table and the open calls agree (`TableMatchesCalls`) |
| `client_race` | 2 creators, 1 chat | **violation**: two calls for one chat |
| `rtmp` | 2 tasks with every method between them, 2 ffmpegs; fair | playing means pushing, one owner, exits are noticed and real, only replacement abandons |
| `rtmp_stop` | 1 task plays and stops, 1 ffmpeg; fair | **violation**: ffmpeg outlives stop |
| `sources` | four parts: commands to tokenise, lines to open, containers to read, writes to the ring | quoted words come through, lines get what they lack, nothing of the caller's a second time but settings of the encoder, and one seek, packets are yielded whole, timestamps are the media time, stderr's tail is kept |

Bounds, and why they are enough for these questions:

- `MaxGen` 2 (sources per behaviour): a source and its successor are what orphans, ends and gates
  need; a third meets the second as the second met the first, as generations are never reused.
  `gc_toggles` has 1, because its questions are about toggles against one installation.
- Two tasks: each property relates at most two methods that overlap. The safety theorems of
  `GroupCall` have no such bound.
- `Cap` 1 (256 in the code) makes the channel full after one sample, which is when the reader
  blocks; samples 2 and 1 make the legs unequal, so that one ends while the other plays.
  `MaxCommands` 2 lets a hold and its release, or a hold and a stop, meet one source; sources that
  are held when they are set make a third.
- `MaxDials` 2: a first and a second handshake, which is what replacing keys takes.
- `MaxFrames` 1 in `media`: the straggler's last sample and its successor's first are what can
  meet, and samples of one sender follow each other. `MaxChunks` 2 leaves room between two chunks.
  `SeqMod` 16 from 14 (2^16 from a random number in the code): the numbers wrap and do not
  come round.
- 3 calls in 2 chats: a chat can be used, stopped and used again beside another one.
- 2 ffmpegs: the one in the slot and the one that replaces it.
- `sources` checks four sequential parts that share no state; one behaviour moves one of them
  (`part`). `Full` is 2 for 255, so packets of 0 to 4 bytes have every lacing there is: none,
  one short segment, exact multiples, a multiple and a rest; `SourcesProofs` has every `Full` and
  every container. `Second` is 200 000 for 10^9, as
  TLC's integers have 32 bits; like 10^9 it is a multiple of 400, so that the 2.5 ms which Opus
  frames are made of are whole, and `SourcesProofs` does the rest at 10^9. `Cap` 3 with writes of
  up to 4 bytes and 8 in all: writes that are shorter than the ring, fill it, wrap, and exceed
  it. Texts have one word of up to 4 characters, any stretch of it in quotes, or two words of up to 2;
  `SourcesProofs` has every text. Lines are put together from
  up to two options before the input, one input or two, an option of the output, and a sink;
  `CommandLineProofs` has every line.

What a run's instance leaves to its tasks matters where a property is about one caller's
obligations: `LegsObeyFlags` and `ReportedIsCurrent` are checked with one task per pair of
toggles, `StopLeavesNothing` with one task that stops and sets sources, `TableMatchesCalls` with one
task that creates and closes, `PlayingMeansPushing` with one task that pauses and resumes. The
theorems have the same conditions as hypotheses (section 6), and section 7 says what happens without
them.

## 5. Fairness

- GroupCall: `SF` on the steps of each task. A step needs a mutex that others take and release;
  these are parking_lot's, which hand over to a waiter eventually. `WF` on the spawned close.
- AvSync, Transport, ShellReader, RtmpCall: `WF` on the steps of each tokio task. A reader's step
  ends at the latest with STALL_TIMEOUT, a worker's select with its next timer, a connect with its
  timeout.
- Nothing is assumed of what the code does not control: nobody has to call a method, no
  handshake has to complete, ffmpeg need not exit, a muted call need not be unmuted.

## 6. Proofs

`GroupCallProofs` proves, for any number of tasks and any number of sources, and, where no hypothesis
is named, from `GroupCallAssumption` alone, that is for any distribution of the methods:

| theorem | states |
|---|---|
| `Invariance` | `[]IInv`, the inductive invariant |
| `TypeCorrectness` | `[]TypeOK` |
| `NoOrphans` | `[]NoOrphanStreamer` |
| `StoppedStreamersAreSilent` | `NoEndAfterStop`, which `ImplementsLife` includes |
| `StreamersLive` | `Spec => ImplementsLife`: the call uses streamers as StreamerLife allows |
| `Gated` | `[]GateHolds` |
| `StackKept` | `Spec => ImplementsStack`: the call's view of the stack is StackLife |
| `SourcesEndOnce` | `[]OneEndPerSource` |
| `StopStopsAll` | `OneOwnerOfSources` gives `[]StopLeavesNothing` |
| `LastReportIsTrue` | `OneToggler` gives `[]ReportedIsCurrent` |
| `LegsFollowFlags` | `OneSwitch` gives `[]LegsObeyFlags` |

`NoOrphanStreamer` is not inductive. That a running streamer is in its slot can be broken by a
step that overwrites the slot, so the proof needs who may do that: `LockDiscipline` says that
the task between its locks and its unlock is the holder of both mutexes, hence there is one.
It can be broken by a new streamer with an old number, so `Numbering` bounds every streamer by
`gen`. And `Install` arms a streamer that must still be running and never have been armed, which
is `Construction`: a leg that is pending is not armed or ending, it is live only between
spawn and install, and what is about to be installed runs. `IInv` is the conjunction of these
with `TypeOK` and `NoOrphanStreamer`; the proof has one step per action and below it one per
conjunct the action can disturb.

`GateHolds` rests on `GateInv`: until the first handshake or the close, nothing was installed,
neither state is Connected, and no task is past the gate. `StreamersLive` shows with `LifeStep`
that every step of the call is a step of StreamerLife or leaves the streamers alone, using `IInv`
(a streamer is armed only while it runs); `StoppedStreamersAreSilent` is read off that
step.

`OneEndPerSource` speaks of the sources there are, and would be broken by a second callback for one
of them: `EndsInv` adds that no number above `gen` has reported, and that while a source is built the
leg that is not to report has no callback.

The three hypotheses say who calls what, which the crate leaves to its user; each is needed, as
section 7 shows. `OneOwnerOfSources`: only one task sets sources if it is one that may stop
(`gc_stop_race` is what happens else). Under it `Emptying` holds: a closed call has no source on its
way in, and stop has emptied the slots it has passed. `OneToggler`: one task does the
toggling; others may set, stop, connect and end at any time. Under it `Reporting` says that a report
on its way is up to date, and that the one delivered last is, unless the toggler is between its swap and
its report. `OneSwitch`: that task toggles one of the two flags. Under it `Follow` says, leg by leg,
that a leg obeys its flag or that the toggle that changed the flag has not come to the leg yet
(`Owes`). The hard case is a source installed during a toggle: the leg starts as the flag was when
`set_source` looked, which the toggle has yet to correct, or had changed before. `Methods`
ties the place of a task to the method it is in, and `Unheld` says that what is under construction was
never held.

`AvSyncProofs` proves, for every capacity of the channel, container length, number of commands and
set of faults:

| theorem | states |
|---|---|
| `TypeCorrectness` | `[]TypeOK` |
| `LegsStartTogether` | `[]StartTogether` |
| `HoldsBite` | `[]HoldBites` |
| `NothingIsSkipped` | `[]NothingSkipped` |
| `LegsAreStreamers` | `Spec => ImplementsLife`: the tasks refine StreamerLife |

`NothingSkipped` needs every sample accounted for: `Conserved` says that what was read is what was
sent plus what is in the reader's hand, the channel and the pacing task's hand, and `Pipe` that a
failure is the last item of its channel, so that nothing is left behind it when the pacing task
meets it. `HoldBites` becomes inductive as `Holds`: the samples sent since the pause and the one
in hand are at most one together. `StartTogether` is the second half of `Together`, whose first
half says what holds until the legs meet. The refinement needs `Queue`: a leg is armed once, after
it was spawned, and nothing stops it in between.

`TransportProofs` assumes finitely many callers and proves, for any number of dials:

| theorem | states |
|---|---|
| `TypeCorrectness` | `[]TypeOK` |
| `ConnectedIsKeyed` | `[]ConnectedMeansKeyed` |
| `KeysStay` | `KeysForKeeps` |
| `IsAStack` | `Spec => ImplementsStack`: the transport refines StackLife |

The bound on dials is a bound on connects, and a connect is counted in `dials` only when it has its
socket; so `DialsLeft` counts those that are on their way there, and every step that adds to one
side takes from the other. `ConnectedMeansKeyed` needs `ClosedFirst`: a close that takes anything
away has set the flag.

`RtmpCallProofs` proves, for any number of tasks, methods and subprocesses, `ReadersHaveOneOwner`
(`[]OneOwner`), `ExitIsTrue` (`[]ExitedMeansGone`) and `OnlyReplacementAbandons`
(`AbandonedByReplacement`). The invariant adds that a process that was not launched is nobody's
(`Fresh`, or a launch could collide with an owner) and that who waited or killed goes on when the
process is gone (`AfterExit`). `PlayingPushes` (`[]PlayingMeansPushing`) needs `OnePauser`, one task
that pauses and resumes (section 7): whoever empties the slot of an open call has paused it, and
whoever ends the pause brings the next reader (`Pushing`).

`MediaTrackProofs` proves, for any number of sources, samples and chunks:

| theorem | states |
|---|---|
| `TypeCorrectness` | `[]TypeOK`, whatever the width of the counters |
| `EverySourceStartsOnce` | `[]StartsOnce`, whatever the width of the counters |
| `VideoSamplesStayTogether` | `MaxSources * MaxFrames < TsMod` gives `[]FramesTogether` |
| `NumbersAreUsedOnce` | `MaxSources * MaxFrames * MaxChunks < SeqMod` gives `[]EveryNumberOnce` |

The two hypotheses say that a counter does not come round within the behaviour, which is what makes
a number name one packet: in the code 2^16 packets for the sequence numbers, and for the timestamps
2^32 ticks, some 13 hours of video. The numbers may wrap, from any first one. Both properties compare
packets of the whole log; over a longer one they would be about the packets near each other.

For `StartsOnce`: a second packet with one mark would come from a
hand that holds a mark already on a packet, or in another hand, or from a flag that is up when the
current mark is out; `HandMarks` and `LogMarks` exclude the three. For the report, `Epochs`: the
epoch is this era's or unset, who passed it in this era leaves it set, and a set epoch is reported
or its setter is at the report.

`TypeOK` bounds the packets sent by the packets encrypted. `Counts` makes that inductive: it counts the
entries of the log except those of samples that an error lost and of senders that have yet to add theirs, and `Own` says that the log
holds nothing of the samples to come, nor of the one a sender is making. `FramesTogether` follows from `Row`, which ties
the video leg's number to the length of its log and each entry to the one before, and `Clock`: every
timestamp in the log is below the counter, is its own sample's, and the one in a sender's hand is in
no entry. That the counter does not come round is itself counted: it is at most the number of samples
that were stamped (`Passed`), of which there are at most `MaxSources * MaxFrames`. `EveryNumberOnce`
is `Row` for video. For audio, where the number is drawn in one step and used in a later one, `Audio`
says that the numbers drawn are exactly those in the log and in hands, each in one place. `LostLast`
says that a lost sample is the last of a pacing task that has ended.

`ClientProofs` proves `OneCreatorIsSafe` (`[]TableMatchesCalls`) for any number of tasks and chats of which one task
creates and closes (`OnlyCreator`). Without that hypothesis it is false: section 7. The invariant
says that the creator's chat stays free while it builds (`Building`), that only it knows the new call
(`FreshCall`), that a call is under one chat (`OneEntry`), that close leaves nothing open behind
its walk (`Emptied`) and that only an RTMP call is stopped by a seek (`Seeking`).

`SourcesProofs` proves `TailIsKept`: for every capacity above 0 and every sequence of writes
of any lengths, `snapshot` is the last bytes written, in order. `SnapshotIsTail` is not
inductive, as it says nothing about the places a partly filled ring does not show; `Placed`
says for each place how far from the end of the tape its byte is.

It also proves `WordsComeOut` (`[]WordsComeThrough`), for every text that spells words. The
invariant is that the glyphs left spell the rest of the words from a place, and that the tokens and
the token in the making are the words and the letters before it (`Reached`): each glyph moves the
tokenizer to the place after it. An escape and its letter are one step, which is why `TailSpells`
and `SpellsOn` say what is left after one glyph and after two.

It proves `PacketsComeThrough` (`[]YieldsThePackets`), for every container, every
lacing and every way to cut it into pages and break it off. Its invariant says what each of the reader's fields
is at a place in the container: the packet in the making is the segments of the packet it is in up to
there (`Partial`), the flags are the headers that were met, or both after the first sound
(`Headers`), and what was found is, in order, the samples that were passed (`Yields`). That a packet
ends where its last segment does is `Laced`: all others are full.

It also does the arithmetic at the code's 10^9, 48 000 and 90 000 (`CodesClock`), which TLC's integers
cannot hold: `AudioIsExact`, for every TOC, and `VideoIsExact`, for every time base whose frame is a
whole number of ticks; `LessThanATick` bounds the others. `ClockStaysExact` (`[]ClockIsExact`) carries
them over streams of any length.

`CommandLineProofs` proves, for every set of sources and offsets and for lines of any length:

| theorem | states |
|---|---|
| `OpensByTheBook` | `[]SourceInv`: a leg runs under the one line that its open has for it |
| `SeeksOnce` | `[]SeekIsSole` |
| `FillsConservatively` | `[]FillIsConservative` |

The assumptions are `OptionsAssumption` and `SourcesAssumption`: the caller's lines keep to `Usage`.
`SourceInv` is the inductive part and was checked with TLC first: `Line(l)` says which line a leg is
opened with, and all that waits to be spawned and all that runs has it. The rest is about lines, and
is an induction over their tokens. The library's induction rules take an operator, which the provers
cannot instantiate; but that numbers are well founded is stated in it without one
(`NatLessThanWellFounded`, `WFMin`), so a set of numbers has a least one (`LeastNumber`), a set that
has 0 and with a number the next has them all (`UpTo`), the same goes for sequences
(`ElementByElement`), and a function that is defined step by step exists (`Recursion`). With these the
proofs say what `Reading`, `Cleaning` and `Dropping` compute for every line.

For `SeekIsSole`, `Skimmed` relates the walk of inject_seek to the reading of the line, up to the first
input: what stays means the same without the seeks. A line is then what comes before its first input,
the input, and the rest (`AtInput`), and two lines that differ before the end of their first input only
are read alike behind it (`ReadBehind`). For `FillIsConservative`, `Drained` relates a line to the
same without its sink: the options of the output wait for another one, which the code then names. That
code looks for an option wherever it is in the line; `OutputTells` says that on a plain line what it
sees is what the output is written under. What it writes without looking is small and known:
`SettingsFilled` says what it is, and `NotOverridden` that no other option is given again.

Only model-checked: all liveness (`MethodsReturn`,
`PlaysToTheEnd`, `StopEndsTasks`, `WorkersEnd`, `ExitIsNoticed`), as fairness and
ENABLED are beyond the proof system's reach. `NoEndAfterStop` has a theorem and no run of its own, as
TLC checks it as part of `ImplementsLife`.

## 7. What the code does differently

Four runs show a disagreement between the code and its own documentation; `PROJECT.json` quotes
both sides:

- `gc_stop_race`: `set_source` checks `closed` once, before it waits (group_call.rs:265). A stop
  in between is followed by streamers that nobody stops.
- `av_unmute`: a pacing task that notices a pause waits at the barrier before its next sample
  (streamer.rs:123, :147), though the other leg was never muted: unmute does not bring the
  audio of an A/V source back. A pause too short for one of the legs to notice does the same.
- `client_race`: `create_call` looks, builds and inserts (rusttgcalls.rs:218, :239); two of them
  both succeed.
- `rtmp_stop`: the reap task holds the child's mutex while the child lives
  (shell_reader.rs:107), so `close` cannot kill it.

Others came up while modelling and have no run of their own:

- mute, pause, resume: `resume` resumes the audio leg without looking at `muted`
  (group_call.rs:411), so muted audio flows. Two tasks that toggle at once can also leave a leg
  against its flag, or have their reports delivered in the wrong order.
- A source that ends before `on_end` is registered (group_call.rs:329) reports no end.
- An A/V source whose video fails before its first sample leaves its audio at the barrier for
  ever, also after stop (streamer.rs:131, :147); `StopEndsTasks` excepts that leg and no other.
  `set_source` with audio and video while muted keeps the video there too, until unmute.
- A worker past its look at `closed` can complete the handshake after close
  (direct_transport.rs:349, :844): Connected and keyed on a closed transport, with no socket.
- A second connect sets Connecting and replaces socket and address (:214, :268), while keys are
  installed once only: it times out, and media goes to the new address under the old keys. The
  README (:557-558) says it updates the remote parameters.
- A straggler of the old source may take the epoch, the report and the marker of the new one
  (direct_transport.rs:571, :599), and its timestamp may go out after a later one (:596).
- A packet that cannot be marshalled or encrypted has taken its sequence number (direct_transport.rs:595,
  :681; `?` at :617-627, :703-709): the number is missing on an open transport, with it the chunks of
  the sample that were encrypted before it, and the pacing task ends.
- `net_state` follows the stack only where connect and close succeed (stack.rs:57), so it stays
  Connecting after a handshake that is late for its connect.
- A method that looked its call up, or passed its check, before a stop works on it after (group_call.rs:265,
  rtmp_call.rs:115): the stopped call plays, and nothing in the table leads to it.
- A create beside `close` can lose its call: walked past, then cleared (rusttgcalls.rs:388).
- An RTMP call stopped by `seek_by` stays in the client's table; the README (:556) says dead calls
  are reaped.
- RTMP: `seek_by` stores a position and leaves ffmpeg alone (rtmp_call.rs:226), and below zero it
  stops the call (:223); the README says it respawns (:608) and clamps to 00:00 (:615).
- RTMP: `set_source` replaces a running ffmpeg without closing it (rtmp_call.rs:123) and starts
  one while paused; `resume` clears `paused` before a spawn that may fail (:164); `pause` reads the
  elapsed time after it set `paused` (:139), so `resume` starts over; a method that passed its
  check installs ffmpeg after stop.
- RTMP, two tasks that pause and resume at once: resume has cleared the flag and installs, then the
  pause that set it before takes that ffmpeg out (rtmp_call.rs:142): the call plays nothing and says
  it does.
- RTMP position: a seek while it plays adds to `resume_ms` and does not reset `started_at`
  (:226), so what was played counts twice; a seek between pause's flag and its store is
  overwritten (:140), against the README (:618).
- An option is looked for on the whole line, so one of the input counts as the output's: `-f v4l2`
  before `-i`, as in the README's own example (:415-), keeps `-f ogg` or `-f ivf` from being added
  (shell_source.rs:215, :258, :270), an input's codec keeps the encoder from being added, and
  `-f s16le` in front of a raw input is refused. A sink written as `-` stays, beside the `pipe:1` that is added.
- For audio `-application`, `-frame_duration`, `-page_duration`, `-mapping_family`,
  `-ar` and `-ac` are written whatever the caller gave (shell_source.rs:244-257), and
  `-deadline` next to the code's own video encoder (:262-267); they come last and win. The README says
  that they are filled in if missing (:225), that anything passed is left alone (:234) and that each
  flag is checked independently (:441). `FillIsConservative` states what the code does: these, and
  nothing else, are given again.
- The README (:236) says raw video formats are refused; `validate_output_codec` looks at audio only.
- The README (:394) says that `from_shells` returns a seekable `MultiShellSource`; it returns
  `Streams`, and `GroupCall::seek_by` refuses every seek (group_call.rs:478).
- The README says a seek goes before the input (:215); a transcode puts it behind (:610 says so).
- A `ShellSource` for both tracks opens its audio only.
- `tokenize_shell` drops an empty quoted argument, and takes each byte of a character beyond ASCII
  for a character of its own.
- The Ogg reader does not look at serial numbers and skips one OpusHead: the second header of a
  chained stream is played. A code-3 packet whose count is missing or 0 lasts one frame.
- A frame rate that does not divide 90 kHz is off by up to a tick per frame (direct_transport.rs:597),
  and the ticks add up; the README (:725) says drift does not accumulate.
- `Dispatcher` drops the newest event where its comment says the oldest (synccallback.rs:54).

## 8. Not modelled

Parsing and formatting of signalling JSON and of Ogg and IVF headers byte by byte, cryptography
(keys.rs, the DTLS and SRTP libraries: their outcomes are choices of `Handshake` and `Reject`),
STUN answers and packet statistics, the pipes of ffmpeg, callbacks the client never wires
(on_connection_change), and parts that nothing in the crate constructs (PeerConnection,
FactoryMonitor, Dispatcher). `RawBytesSource`, the presets of `EncodeOptions` and the setter of
ffmpeg's path hold plain data. The RTMP playback position, the waiters of ShellReader and the
certificate pool are planned (section 2).

## 9. Running

    tlc -config gc_owners.cfg MCGroupCall      # every run: PROJECT.json names module and cfg
    tlapm GroupCallProofs.tla                  # and the other modules that end in Proofs

The largest runs are `media` (6.7 million distinct states), `gc_owners` (1.1 million) and `av_sync`
(0.7 million); the others stay below half a million.
