-------------------------- MODULE MediaTrackProofs --------------------------
(***************************************************************************)
(* Proofs about MediaTrack, for every number of sources, samples and       *)
(* chunks and every width of the counters.                                 *)
(***************************************************************************)
EXTENDS MediaTrack, Integers, FiniteSetTheorems, SequenceTheorems, TLAPS

Packets == [seq : Nat, ts : Nat, mark : Nat, chunks : Int, done : Int]
Entries == [seq : Nat, ts : Nat, mark : Nat, frame : (1 .. MaxSources) \X Nat]

\* What the proofs need of the types.
Counters ==
    /\ era \in Nat \ {0} /\ marks \in Nat \ {0} /\ first_audio \in BOOLEAN
    /\ seq \in [Legs -> Nat] /\ ts \in [Legs -> Nat]

Places ==
    /\ pc \in [Senders -> {"idle", "enter", "epoch", "report", "number", "stamp", "mark", "split",
                           "encrypt", "send", "done"}]
    /\ \A s \in Senders : pc[s] \in {"number", "mark"} => LegOf(s) = "audio"
    /\ frame \in [Senders -> Nat] /\ began \in [Senders -> Nat]

Hands == hand \in [Senders -> Packets]

Logs ==
    /\ log = [l \in Legs |-> log[l]]
    /\ "audio" \in Legs => log["audio"] \in Seq(Entries)

Shape == Counters /\ Places /\ Hands /\ Logs

\* A mark is on one packet, and none bears the mark that the next packet is to get.
HandMarks ==
    /\ \A s \in Senders : hand[s].mark <= marks /\ (first_audio => hand[s].mark # marks)
    /\ \A s, u \in Senders : hand[s].mark = hand[u].mark /\ hand[s].mark # 0 => s = u

LogMarks ==
    "audio" \in Legs =>
        LET a == log["audio"]
        IN  \A i \in DOMAIN a :
                /\ a[i].mark <= marks
                /\ first_audio => a[i].mark # marks
                /\ a[i].mark # 0 => \A s \in Senders : hand[s].mark # a[i].mark

\* The epoch is of this era, or not yet set; on an open transport it is reported, or its setter
\* is about to report it, and whoever passed it in this era found it or set it.
Reporting == \E u \in Senders : pc[u] = "report" /\ began[u] = era

Epochs ==
    /\ epoch \in {None, era}
    /\ \A s \in Senders : began[s] <= era
    /\ ~closed =>
           /\ keyed /\ socket
           /\ epoch = era => era \in announced \/ Reporting
           /\ \A s \in Senders : began[s] = era => epoch = era

IInv == Shape /\ HandMarks /\ LogMarks /\ OneMarkPerReset /\ Epochs

----------------------------------------------------------------------------
(* Shape *)

LEMMA LegsOfSenders == \A s \in Senders : LegOf(s) \in Legs /\ SourceOf(s) \in 1 .. MaxSources
  BY DEF Senders, LegOf, SourceOf

LEMMA CountersStep ==
    ASSUME Counters, Places, Hands, [Next]_vars
    PROVE  Counters'
  <1> USE DEF Counters
  <1>1. CASE SetSource \/ TimerReport \/ Close \/ UNCHANGED vars
    <2>1. CASE ResetFirst
      BY <2>1 DEF ResetFirst
    <2>2. CASE ResetEpoch
      BY <2>2 DEF ResetEpoch
    <2>3. CASE StopSenders \/ StartSenders \/ TimerReport \/ Close \/ UNCHANGED vars
      BY <2>3 DEF StopSenders, StartSenders, TimerReport, Close, vars, trackVars, historyVars
    <2> QED
      BY <1>1, <2>1, <2>2, <2>3 DEF SetSource
  <1>2. ASSUME NEW s \in Senders, NumberAudio(s) PROVE Counters'
    <2>1. "audio" \in Legs
      BY <1>2, LegsOfSenders DEF NumberAudio, Places
    <2>2. NextSeq(seq["audio"], 1) \in Nat
      BY <2>1, MediaTrackAssumption DEF NextSeq
    <2> QED
      BY <1>2, <2>2 DEF NumberAudio, historyVars
  <1>3. ASSUME NEW s \in Senders, Stamp(s) PROVE Counters'
    <2>1. ts[LegOf(s)] \in Nat
      BY LegsOfSenders
    <2>2. (ts[LegOf(s)] + 1) % TsMod \in Nat
      BY <2>1, MediaTrackAssumption
    <2> QED
      BY <1>3, <2>2 DEF Stamp, historyVars
  <1>4. ASSUME NEW s \in Senders, EncryptVideo(s) PROVE Counters'
    <2>1. "video" \in Legs
      BY <1>4, LegsOfSenders DEF EncryptVideo, Return
    <2>2. Left(s) \in Int
      BY DEF Hands, Packets, Left
    <2>3. NextSeq(seq["video"], Left(s)) \in Nat
      BY <2>1, <2>2, MediaTrackAssumption DEF NextSeq
    <2> QED
      BY <1>4, <2>3 DEF EncryptVideo, NumberVideo, UnderOneLock, Return
  <1>6. ASSUME NEW s \in Senders, FailVideo(s) PROVE Counters'
    <2>1. "video" \in Legs
      BY <1>6, LegsOfSenders DEF FailVideo
    <2>2. PICK k \in 1 .. UnderOneLock(s) : NumberVideo(s, k)
      BY <1>6 DEF FailVideo
    <2>3. NextSeq(seq["video"], k) \in Nat
      BY <2>1, MediaTrackAssumption DEF NextSeq
    <2> QED
      BY <1>6, <2>2, <2>3 DEF FailVideo, NumberVideo
  <1>5. ASSUME NEW s \in Senders, SendStep(s), ~NumberAudio(s), ~Stamp(s), ~EncryptVideo(s), ~FailVideo(s)
        PROVE  Counters'
    BY <1>5 DEF SendStep, Begin, Enter, Epoch, Report, MarkAudio, TakeFirst, EncryptAudio, SplitVideo, Send,
                trackVars, historyVars, FailAudio, FailSplit, FailVideo, Return
  <1> QED
    BY <1>1, <1>2, <1>3, <1>4, <1>5, <1>6 DEF Next

LEMMA PlacesStep ==
    ASSUME Counters, Places, [Next]_vars
    PROVE  Places'
  <1> USE DEF Places
  <1>1. CASE SetSource \/ TimerReport \/ Close \/ UNCHANGED vars
    BY <1>1 DEF SetSource, StopSenders, ResetFirst, ResetEpoch, StartSenders, TimerReport, Close,
                vars, senderVars
  <1>2. ASSUME NEW s \in Senders, Begin(s) PROVE Places'
    BY <1>2 DEF Begin, Goto
  <1>3. ASSUME NEW s \in Senders, Epoch(s) PROVE Places'
    BY <1>3 DEF Epoch, Goto, Counters
  <1>4. ASSUME NEW s \in Senders, SendStep(s), ~Begin(s), ~Epoch(s) PROVE Places'
    <2>1. frame' = frame /\ (began' = began \/ began' = [began EXCEPT ![s] = None])
      BY <1>4 DEF SendStep, Enter, Report, NumberAudio, Stamp, MarkAudio, EncryptAudio, SplitVideo,
                  EncryptVideo, Send, FailAudio, FailSplit, FailVideo, Return
    <2>2. \/ pc' = pc
          \/ \E l \in {"idle", "epoch", "stamp", "split", "encrypt", "send", "done"} : Goto(s, l)
          \/ LegOf(s) = "audio" /\ \E l \in {"number", "mark"} : Goto(s, l)
      BY <1>4 DEF SendStep, Enter, Report, NumberAudio, Stamp, MarkAudio, EncryptAudio, SplitVideo,
                  EncryptVideo, Send, FailAudio, FailSplit, FailVideo, Return
    <2> QED
      BY <2>1, <2>2 DEF Goto, None
  <1> QED
    BY <1>1, <1>2, <1>3, <1>4 DEF Next

\* A step touches the hand of its sender only, and gives it no mark unless it marks it.
LEMMA HandStep ==
    ASSUME Counters, Places, Hands, NEW s \in Senders, SendStep(s)
    PROVE  /\ Hands'
           /\ \A u \in Senders \ {s} : hand'[u] = hand[u]
           /\ MarkAudio(s) \/ hand'[s].mark \in {0, hand[s].mark}
  <1> USE DEF Hands, Packets, NoPacket
  <1>1. CASE Begin(s) \/ Enter(s) \/ Epoch(s) \/ Report(s)
    BY <1>1 DEF Begin, Enter, Epoch, Report
  <1>2. CASE NumberAudio(s)
    <2>1. seq["audio"] \in Nat
      BY <1>2, LegsOfSenders DEF NumberAudio, Places, Counters
    <2> QED
      BY <1>2, <2>1 DEF NumberAudio
  <1>3. CASE Stamp(s)
    <2>1. ts[LegOf(s)] \in Nat
      BY LegsOfSenders DEF Counters
    <2> QED
      BY <1>3, <2>1 DEF Stamp
  <1>4. CASE MarkAudio(s)
    BY <1>4 DEF MarkAudio, Counters
  <1>5. CASE EncryptAudio(s)
    <2>1. PICK h \in {NoPacket, [NoPacket EXCEPT !.chunks = 1]} : hand' = [hand EXCEPT ![s] = h]
      BY <1>5 DEF EncryptAudio, Return
    <2>2. h \in Packets /\ h.mark = 0
      OBVIOUS
    <2> QED
      BY <2>1, <2>2
  <1>6. CASE SplitVideo(s)
    BY <1>6 DEF SplitVideo, Return
  <1>7. CASE EncryptVideo(s)
    <2>1. Left(s) \in Int
      BY DEF Left
    <2>2. \/ hand' = [hand EXCEPT ![s].done = @ + Left(s)]
          \/ hand' = [hand EXCEPT ![s] = NoPacket]
      BY <1>7 DEF EncryptVideo, UnderOneLock, Return
    <2> QED
      BY <2>1, <2>2
  <1>8. CASE Send(s)
    BY <1>8 DEF Send, Return
  <1>9. CASE FailAudio(s) \/ FailSplit(s) \/ FailVideo(s)
    BY <1>9 DEF FailAudio, FailSplit, FailVideo, Return
  <1> QED
    BY <1>1, <1>2, <1>3, <1>4, <1>5, <1>6, <1>7, <1>8, <1>9 DEF SendStep

LEMMA AudioStep ==
    ASSUME Shape, NEW s \in Senders, EncryptAudio(s) \/ FailAudio(s), log' # log
    PROVE  /\ Logs'
           /\ "audio" \in Legs /\ Entry(s) \in Entries
           /\ log'["audio"] = Append(log["audio"], Entry(s))
  <1> USE DEF Shape, Logs
  <1>1. "audio" \in Legs /\ SourceOf(s) \in 1 .. MaxSources
    BY LegsOfSenders DEF EncryptAudio, FailAudio
  <1>2. Entry(s) \in Entries
    BY <1>1 DEF Entry, FrameOf, Entries, Hands, Packets, Places
  <1>3. log' = [log EXCEPT !["audio"] = Append(@, Entry(s))]
    BY DEF EncryptAudio, FailAudio
  <1>4. log'["audio"] = Append(log["audio"], Entry(s)) /\ log' = [l \in Legs |-> log'[l]]
    BY <1>1, <1>3
  <1>5. Append(log["audio"], Entry(s)) \in Seq(Entries)
    BY <1>1, <1>2
  <1> QED
    BY <1>1, <1>2, <1>4, <1>5

LEMMA LogStep ==
    ASSUME Shape, [Next]_vars
    PROVE  Logs'
  <1>1. CASE SetSource \/ TimerReport \/ Close \/ UNCHANGED vars
    BY <1>1 DEF SetSource, StopSenders, ResetFirst, ResetEpoch, StartSenders, TimerReport, Close,
                vars, historyVars, Shape, Logs
  <1>2. ASSUME NEW s \in Senders, SendStep(s), ~EncryptAudio(s), ~EncryptVideo(s), ~FailAudio(s), ~FailVideo(s)
        PROVE  log' = log
    BY <1>2 DEF SendStep, Begin, Enter, Epoch, Report, NumberAudio, Stamp, MarkAudio, SplitVideo, Send,
                historyVars, FailAudio, FailSplit, FailVideo, Return
  <1>3. ASSUME NEW s \in Senders, EncryptVideo(s) \/ FailVideo(s) PROVE Logs'
    BY <1>3 DEF EncryptVideo, FailVideo, NumberVideo, Shape, Logs
  <1> QED
    BY <1>1, <1>2, <1>3, AudioStep DEF Next, Shape, Logs

LEMMA ShapeStep ==
    ASSUME Shape, [Next]_vars
    PROVE  Shape'
  <1>1. Hands'
    <2>1. CASE SetSource \/ TimerReport \/ Close \/ UNCHANGED vars
      BY <2>1 DEF SetSource, StopSenders, ResetFirst, ResetEpoch, StartSenders, TimerReport, Close,
                  vars, senderVars, Hands, Shape
    <2> QED
      BY <2>1, HandStep DEF Next, Shape
  <1> QED
    BY <1>1, CountersStep, PlacesStep, LogStep DEF Shape

----------------------------------------------------------------------------
(* Marks *)

\* A step that leaves the log alone, marks nothing and only drops marks.
LEMMA MarksDrop ==
    ASSUME Shape, HandMarks, LogMarks, OneMarkPerReset,
           marks' = marks, first_audio' => first_audio,
           "audio" \in Legs => log'["audio"] = log["audio"],
           \A s \in Senders : hand'[s].mark \in {0, hand[s].mark}
    PROVE  HandMarks' /\ LogMarks' /\ OneMarkPerReset'
  <1>1. HandMarks'
    BY DEF Shape, Counters, HandMarks
  <1>2. LogMarks'
    BY DEF LogMarks
  <1>3. OneMarkPerReset'
    BY DEF OneMarkPerReset
  <1> QED
    BY <1>1, <1>2, <1>3

LEMMA MarksStep ==
    ASSUME Shape, HandMarks, LogMarks, OneMarkPerReset, [Next]_vars
    PROVE  HandMarks' /\ LogMarks' /\ OneMarkPerReset'
  <1>1. CASE StopSenders \/ ResetEpoch \/ StartSenders \/ TimerReport \/ Close \/ UNCHANGED vars
    BY <1>1, MarksDrop DEF StopSenders, ResetEpoch, StartSenders, TimerReport, Close, vars,
                transportVars, trackVars, historyVars, senderVars
  <1>2. CASE ResetFirst
    <2>1. marks' = marks + 1 /\ hand' = hand /\ log' = log /\ marks \in Nat
      BY <1>2 DEF ResetFirst, senderVars, Shape, Counters
    <2>2. \A s \in Senders : hand[s].mark \in Nat
      BY DEF Shape, Hands, Packets
    <2>3. "audio" \in Legs => \A i \in DOMAIN log["audio"] : log["audio"][i].mark \in Nat
      <3>1. ASSUME "audio" \in Legs, NEW i \in DOMAIN log["audio"] PROVE log["audio"][i] \in Entries
        BY <3>1 DEF Shape, Logs
      <3> QED
        BY <3>1 DEF Entries
    <2>4. HandMarks'
      BY <2>1, <2>2 DEF HandMarks
    <2>5. LogMarks'
      BY <2>1, <2>3 DEF LogMarks
    <2>6. OneMarkPerReset'
      BY <2>1 DEF OneMarkPerReset
    <2> QED
      BY <2>4, <2>5, <2>6
  <1>3. ASSUME NEW s \in Senders, SendStep(s), ~MarkAudio(s), ~EncryptAudio(s), ~FailAudio(s)
        PROVE  HandMarks' /\ LogMarks' /\ OneMarkPerReset'
    <2>1. marks' = marks /\ first_audio' = first_audio
      BY <1>3 DEF SendStep, Begin, Enter, Epoch, Report, NumberAudio, Stamp, SplitVideo, EncryptVideo, Send,
                  trackVars, historyVars, FailAudio, FailSplit, FailVideo, Return
    <2>2. "audio" \in Legs => log'["audio"] = log["audio"]
      BY <1>3 DEF SendStep, Begin, Enter, Epoch, Report, NumberAudio, Stamp, SplitVideo, EncryptVideo, Send,
                  historyVars, Shape, Logs, FailAudio, FailSplit, FailVideo, NumberVideo
    <2>3. \A u \in Senders : hand'[u].mark \in {0, hand[u].mark}
      BY <1>3, HandStep DEF Shape
    <2> QED
      BY <2>1, <2>2, <2>3, MarksDrop
  <1>4. ASSUME NEW s \in Senders, MarkAudio(s)
        PROVE  HandMarks' /\ LogMarks' /\ OneMarkPerReset'
    <2>1. marks' = marks /\ first_audio' = FALSE /\ log' = log /\ marks \in Nat \ {0}
      BY <1>4 DEF MarkAudio, TakeFirst, historyVars, Shape, Counters
    <2>2. hand'[s].mark = IF first_audio THEN marks ELSE 0
      BY <1>4 DEF MarkAudio, Shape, Hands, Packets
    <2>3. \A u \in Senders \ {s} : hand'[u].mark = hand[u].mark
      BY <1>4, HandStep DEF SendStep, Shape
    <2>4. HandMarks'
      BY <2>1, <2>2, <2>3 DEF HandMarks
    <2>5. LogMarks'
      BY <2>1, <2>2, <2>3 DEF LogMarks
    <2>6. OneMarkPerReset'
      BY <2>1 DEF OneMarkPerReset
    <2> QED
      BY <2>4, <2>5, <2>6
  <1>5. ASSUME NEW s \in Senders, EncryptAudio(s) \/ FailAudio(s)
        PROVE  HandMarks' /\ LogMarks' /\ OneMarkPerReset'
    <2>1. marks' = marks /\ first_audio' = first_audio /\ marks \in Nat
      BY <1>5 DEF EncryptAudio, FailAudio, trackVars, Shape, Counters, Return
    <2>2. hand'[s].mark = 0
      BY <1>5 DEF EncryptAudio, FailAudio, NoPacket, Shape, Hands, Packets, Return
    <2>3. \A u \in Senders \ {s} : hand'[u].mark = hand[u].mark
      BY <1>5, HandStep DEF SendStep, Shape
    <2>4. CASE log' = log
      BY <2>1, <2>2, <2>3, <2>4, MarksDrop
    <2>5. CASE log' # log
      <3> DEFINE a == log["audio"]
                 e == Entry(s)
      <3>1. "audio" \in Legs /\ a \in Seq(Entries) /\ e \in Entries /\ log'["audio"] = Append(a, e)
        BY <1>5, <2>5, AudioStep DEF Shape, Logs
      <3>2. e.mark = hand[s].mark
        BY DEF Entry
      <3> HIDE DEF e
      <3>3. /\ DOMAIN log'["audio"] = 1 .. Len(a) + 1
            /\ \A i \in 1 .. Len(a) : log'["audio"][i] = a[i]
            /\ log'["audio"][Len(a) + 1] = e
            /\ DOMAIN a = 1 .. Len(a) /\ Len(a) \in Nat
        BY <3>1
      <3>4. \A i \in DOMAIN a : a[i].mark = 0 \/ a[i].mark # e.mark
        BY <3>1, <3>2 DEF LogMarks
      <3>5. \A i \in DOMAIN a : a[i].mark <= marks /\ (first_audio => a[i].mark # marks)
                                /\ (a[i].mark # 0 => \A u \in Senders : hand[u].mark # a[i].mark)
        BY <3>1 DEF LogMarks
      <3>6. HandMarks'
        BY <2>1, <2>2, <2>3 DEF HandMarks, Shape, Counters
      <3>7. e.mark <= marks /\ (first_audio => e.mark # marks)
            /\ (e.mark # 0 => \A u \in Senders : hand'[u].mark # e.mark)
        BY <2>2, <2>3, <3>2 DEF HandMarks
      <3>8. LogMarks'
        <4> SUFFICES ASSUME NEW i \in 1 .. Len(a) + 1
                     PROVE  /\ log'["audio"][i].mark <= marks'
                            /\ first_audio' => log'["audio"][i].mark # marks'
                            /\ log'["audio"][i].mark # 0 => \A u \in Senders : hand'[u].mark # log'["audio"][i].mark
          BY <3>3 DEF LogMarks
        <4>1. CASE i \in 1 .. Len(a)
          BY <2>1, <2>2, <2>3, <3>3, <3>5, <4>1
        <4>2. CASE i = Len(a) + 1
          BY <2>1, <3>3, <3>7, <4>2
        <4> QED
          BY <3>3, <4>1, <4>2
      <3>9. OneMarkPerReset'
        <4> SUFFICES ASSUME NEW i \in 1 .. Len(a) + 1, NEW j \in 1 .. Len(a) + 1,
                            log'["audio"][i].mark # 0, log'["audio"][i].mark = log'["audio"][j].mark
                     PROVE  i = j
          BY <3>3 DEF OneMarkPerReset
        <4>1. \A k, m \in DOMAIN a : a[k].mark # 0 /\ a[k].mark = a[m].mark => k = m
          BY <3>1 DEF OneMarkPerReset
        <4>2. ASSUME i = Len(a) + 1, j \in 1 .. Len(a) PROVE FALSE
          <5>1. log'["audio"][i] = e /\ log'["audio"][j] = a[j]
            BY <3>3, <4>2
          <5> QED
            BY <3>3, <3>4, <4>2, <5>1
        <4>3. ASSUME j = Len(a) + 1, i \in 1 .. Len(a) PROVE FALSE
          <5>1. log'["audio"][j] = e /\ log'["audio"][i] = a[i]
            BY <3>3, <4>3
          <5> QED
            BY <3>3, <3>4, <4>3, <5>1
        <4>4. CASE i \in 1 .. Len(a) /\ j \in 1 .. Len(a)
          BY <3>3, <4>1, <4>4
        <4> QED
          BY <3>3, <4>2, <4>3, <4>4
      <3> QED
        BY <3>6, <3>8, <3>9
    <2> QED
      BY <2>4, <2>5
  <1> QED
    BY <1>1, <1>2, <1>3, <1>4, <1>5 DEF Next, SetSource

----------------------------------------------------------------------------
(* Epochs *)

LEMMA EpochsStep ==
    ASSUME Shape, Epochs, [Next]_vars
    PROVE  Epochs'
  <1> USE DEF Shape, Counters, Places, Epochs, Reporting, None
  <1>1. CASE StopSenders \/ ResetFirst \/ StartSenders \/ UNCHANGED vars
    BY <1>1 DEF StopSenders, ResetFirst, StartSenders, vars, transportVars, trackVars, historyVars, senderVars
  <1>2. CASE ResetEpoch
    BY <1>2 DEF ResetEpoch, ForgetEpoch, transportVars, senderVars
  <1>3. CASE TimerReport
    BY <1>3 DEF TimerReport, SendReports, transportVars, trackVars, senderVars
  <1>4. CASE Close
    BY <1>4 DEF Close, historyVars, senderVars
  <1>5. ASSUME NEW s \in Senders, Epoch(s) PROVE Epochs'
    <2>1. pc[s] = "epoch" /\ began'[s] = era /\ era' = era /\ epoch' = era /\ announced' = announced
          /\ UNCHANGED transportVars
      BY <1>5 DEF Epoch, historyVars
    <2>2. \A u \in Senders \ {s} : pc'[u] = pc[u] /\ began'[u] = began[u]
      BY <1>5 DEF Epoch, Goto
    <2>3. epoch = None => pc'[s] = "report"
      BY <1>5 DEF Epoch, Goto
    <2>4. CASE epoch = None
      BY <2>1, <2>2, <2>3, <2>4 DEF transportVars
    <2>5. CASE epoch = era
      <3>1. ASSUME ~closed, era \notin announced PROVE Reporting'
        <4>1. PICK u \in Senders : pc[u] = "report" /\ began[u] = era
          BY <2>5, <3>1
        <4> QED
          BY <2>1, <2>2, <4>1
      <3> HIDE DEF Reporting
      <3> QED
        BY <2>1, <2>2, <2>5, <3>1 DEF transportVars
    <2> QED
      BY <2>4, <2>5
  <1>6. ASSUME NEW s \in Senders, Report(s) PROVE Epochs'
    <2>1. /\ pc[s] = "report" /\ UNCHANGED <<closed, keyed, socket, epoch, era, began>>
          /\ announced' = IF epoch # None /\ keyed /\ socket THEN announced \cup {epoch} ELSE announced
          /\ \A u \in Senders \ {s} : pc'[u] = pc[u]
      BY <1>6 DEF Report, SendReports, Goto, transportVars, trackVars
    <2> QED
      BY <2>1
  <1>7. ASSUME NEW s \in Senders, SendStep(s), ~Epoch(s), ~Report(s) PROVE Epochs'
    <2>1. /\ pc[s] # "report" /\ UNCHANGED <<transportVars, epoch, era, announced>>
          /\ began' = began \/ began' = [began EXCEPT ![s] = None]
          /\ \A u \in Senders \ {s} : pc'[u] = pc[u]
      BY <1>7 DEF SendStep, Begin, Enter, NumberAudio, Stamp, MarkAudio, EncryptAudio, SplitVideo,
                  EncryptVideo, Send, Goto, trackVars, historyVars, FailAudio, FailSplit, FailVideo, Return
    <2> QED
      BY <2>1 DEF transportVars
  <1> QED
    BY <1>1, <1>2, <1>3, <1>4, <1>5, <1>6, <1>7 DEF Next, SetSource

----------------------------------------------------------------------------

\* The invariant holds in every behaviour.
THEOREM Invariance == Spec => []IInv
  <1>1. Init => IInv
    <2> SUFFICES ASSUME Init PROVE IInv
      OBVIOUS
    <2>1. Shape
      BY MediaTrackAssumption DEF Init, Shape, Counters, Places, Hands, Logs, Packets, NoPacket, None
    <2>2. HandMarks
      BY DEF Init, HandMarks, NoPacket
    <2>3. LogMarks /\ OneMarkPerReset
      BY DEF Init, LogMarks, OneMarkPerReset
    <2>4. Epochs
      BY DEF Init, Epochs, None
    <2> QED
      BY <2>1, <2>2, <2>3, <2>4 DEF IInv
  <1>2. IInv /\ [Next]_vars => IInv'
    BY ShapeStep, MarksStep, EpochsStep DEF IInv
  <1> QED
    BY <1>1, <1>2, PTL DEF Spec

\* A source that replaces another starts once, however the straggler of the old one and its
\* own first sample interleave: one marked packet per reset (first_audio.swap), and an epoch
\* that was reported by the sender that set it, or is about to be (send_rtp_bytes, just_started).
THEOREM EverySourceStartsOnce == Spec => []StartsOnce
  <1>1. IInv => StartsOnce
    BY DEF IInv, Epochs, Reporting, StartsOnce, StartIsReported
  <1> QED
    BY <1>1, Invariance, PTL

----------------------------------------------------------------------------
(* Types *)

\* Where set_source is tells how often the track was reset.
Switches ==
    /\ closed \in BOOLEAN /\ keyed \in BOOLEAN /\ socket \in BOOLEAN
    /\ switching \in {"no", "reset_first", "reset_epoch", "start"}
    /\ current \in 0 .. MaxSources /\ (switching # "no" => current < MaxSources)
    /\ era = current + (IF switching = "start" THEN 2 ELSE 1)
    /\ marks = era + (IF switching = "reset_epoch" THEN 1 ELSE 0)
    /\ announced \subseteq 1 .. era

Widths ==
    /\ seq \in [Legs -> 0 .. SeqMod - 1] /\ ts \in [Legs -> 0 .. TsMod - 1]
    /\ \A s \in Senders : hand[s].seq \in 0 .. SeqMod - 1

\* A sender between its begin and its packet.
Making(s) == pc[s] \in {"enter", "epoch", "report", "number", "stamp", "mark", "split", "encrypt"}

\* The chunks in a hand, by where its sender is.
FitOf(s) ==
    /\ frame[s] \in 0 .. MaxFrames
    /\ Making(s) => frame[s] > 0
    /\ pc[s] = "split" => LegOf(s) = "video"
    /\ pc[s] \notin {"encrypt", "send"} => hand[s].chunks = 0
    /\ pc[s] # "send" => hand[s].done = 0
    /\ pc[s] = "encrypt" => hand[s].chunks \in (IF LegOf(s) = "audio" THEN {0} ELSE 1 .. MaxChunks)
    /\ pc[s] = "send" => hand[s].chunks \in 1 .. MaxChunks

Fit == \A s \in Senders : FitOf(s)

LEMMA NextIsNumber ==
    ASSUME NEW q \in Int, NEW n \in Int
    PROVE  NextSeq(q, n) \in 0 .. SeqMod - 1
  BY MediaTrackAssumption DEF NextSeq

LEMMA SwitchesStep ==
    ASSUME Switches, Epochs, [Next]_vars
    PROVE  Switches'
  <1> USE MediaTrackAssumption DEF Switches
  <1>1. CASE SetSource
    <2>1. UNCHANGED <<transportVars, announced>> /\ current \in Nat
      BY <1>1 DEF SetSource, StopSenders, ResetFirst, ResetEpoch, StartSenders, trackVars, historyVars
    <2>2. CASE StopSenders
      BY <2>1, <2>2 DEF StopSenders, transportVars, historyVars
    <2>3. CASE ResetFirst
      BY <2>1, <2>3 DEF ResetFirst, transportVars
    <2>4. CASE ResetEpoch
      BY <2>1, <2>4 DEF ResetEpoch, transportVars
    <2>5. CASE StartSenders
      BY <2>1, <2>5 DEF StartSenders, transportVars, historyVars
    <2> QED
      BY <1>1, <2>2, <2>3, <2>4, <2>5 DEF SetSource
  <1>7. CASE UNCHANGED vars
    BY <1>7 DEF vars, transportVars, historyVars, sourceVars
  <1>2. CASE Close
    BY <1>2 DEF Close, historyVars, sourceVars
  <1>3. ASSUME SendReports, UNCHANGED <<transportVars, era, marks, sourceVars>> PROVE Switches'
    BY <1>3 DEF SendReports, transportVars, sourceVars, Epochs, None
  <1>4. CASE TimerReport
    BY <1>3, <1>4 DEF TimerReport
  <1>5. ASSUME NEW s \in Senders, Report(s) PROVE Switches'
    BY <1>3, <1>5 DEF Report
  <1>6. ASSUME NEW s \in Senders, SendStep(s), ~Report(s) PROVE Switches'
    <2>1. UNCHANGED <<transportVars, era, marks, announced, sourceVars>>
      BY <1>6 DEF SendStep, Begin, Enter, Epoch, NumberAudio, Stamp, MarkAudio, EncryptAudio, SplitVideo,
                  EncryptVideo, Send, historyVars, FailAudio, FailSplit, FailVideo, Return
    <2> QED
      BY <2>1 DEF transportVars, sourceVars
  <1> QED
    BY <1>1, <1>2, <1>4, <1>5, <1>6, <1>7 DEF Next

LEMMA WidthsStep ==
    ASSUME Shape, Widths, [Next]_vars
    PROVE  Widths'
  <1> USE MediaTrackAssumption DEF Widths
  <1>1. CASE SetSource \/ TimerReport \/ Close \/ UNCHANGED vars
    BY <1>1 DEF SetSource, StopSenders, ResetFirst, ResetEpoch, StartSenders, TimerReport, Close, vars,
                trackVars, senderVars
  <1>2. ASSUME NEW s \in Senders, NumberAudio(s) PROVE Widths'
    <2>1. "audio" \in Legs
      BY <1>2, LegsOfSenders DEF NumberAudio, Shape, Places
    <2>2. seq["audio"] \in 0 .. SeqMod - 1 /\ NextSeq(seq["audio"], 1) \in 0 .. SeqMod - 1
      BY <2>1, NextIsNumber
    <2>3. hand' = [hand EXCEPT ![s].seq = seq["audio"]] /\ seq' = [seq EXCEPT !["audio"] = NextSeq(@, 1)]
          /\ ts' = ts
      BY <1>2 DEF NumberAudio
    <2>4. \A u \in Senders : hand'[u].seq \in {hand[u].seq, seq["audio"]}
      BY <2>3 DEF Shape, Hands, Packets
    <2> QED
      BY <2>2, <2>3, <2>4
  <1>3. ASSUME NEW s \in Senders, Stamp(s) PROVE Widths'
    <2>1. ts[LegOf(s)] \in Nat
      BY LegsOfSenders DEF Shape, Counters
    <2>2. (ts[LegOf(s)] + 1) % TsMod \in 0 .. TsMod - 1
      BY <2>1
    <2>3. hand' = [hand EXCEPT ![s].ts = ts[LegOf(s)]] /\ ts' = [ts EXCEPT ![LegOf(s)] = (@ + 1) % TsMod]
          /\ seq' = seq
      BY <1>3 DEF Stamp
    <2>4. \A u \in Senders : hand'[u].seq = hand[u].seq
      BY <2>3 DEF Shape, Hands, Packets
    <2> QED
      BY <2>2, <2>3, <2>4
  <1>4. ASSUME NEW s \in Senders, SendStep(s), ~NumberAudio(s), ~Stamp(s) PROVE Widths'
    <2>1. ts' = ts
      BY <1>4 DEF SendStep, Begin, Enter, Epoch, Report, MarkAudio, EncryptAudio, SplitVideo, EncryptVideo, Send,
                  trackVars, FailAudio, FailSplit, FailVideo, Return
    <2>2. seq' \in [Legs -> 0 .. SeqMod - 1]
      <3>1. CASE EncryptVideo(s)
        <4>1. "video" \in Legs /\ Left(s) \in Int
          BY <3>1, LegsOfSenders DEF EncryptVideo, Left, Shape, Hands, Packets, Return
        <4>2. NextSeq(seq["video"], Left(s)) \in 0 .. SeqMod - 1
          BY <4>1, NextIsNumber
        <4>3. seq' = seq \/ seq' = [seq EXCEPT !["video"] = NextSeq(@, Left(s))]
          BY <3>1 DEF EncryptVideo, NumberVideo, UnderOneLock
        <4> QED
          BY <4>2, <4>3
      <3>3. CASE FailVideo(s)
        <4>1. "video" \in Legs
          BY <3>3, LegsOfSenders DEF FailVideo
        <4>2. PICK k \in 1 .. UnderOneLock(s) : NumberVideo(s, k)
          BY <3>3 DEF FailVideo
        <4>3. NextSeq(seq["video"], k) \in 0 .. SeqMod - 1
          BY <4>1, NextIsNumber
        <4> QED
          BY <4>2, <4>3 DEF NumberVideo
      <3>2. CASE ~EncryptVideo(s) /\ ~FailVideo(s)
        BY <1>4, <3>2 DEF SendStep, Begin, Enter, Epoch, Report, MarkAudio, EncryptAudio, SplitVideo, Send,
                    trackVars, FailAudio, FailSplit, FailVideo, Return
      <3> QED
        BY <3>1, <3>2, <3>3
    <2>3. \A u \in Senders : hand'[u].seq \in {hand[u].seq, 0}
      <3>1. \A u \in Senders \ {s} : hand'[u] = hand[u]
        BY <1>4, HandStep DEF Shape
      <3>2. hand'[s].seq \in {hand[s].seq, 0}
        BY <1>4 DEF SendStep, Begin, Enter, Epoch, Report, MarkAudio, EncryptAudio, SplitVideo, EncryptVideo, Send,
                    NoPacket, Shape, Hands, Packets, FailAudio, FailSplit, FailVideo, Return
      <3> QED
        BY <3>1, <3>2
    <2> QED
      BY <2>1, <2>2, <2>3
  <1> QED
    BY <1>1, <1>2, <1>3, <1>4 DEF Next

\* A step is one sender's, and leaves the others where they are.
LEMMA OthersStay ==
    ASSUME Shape, NEW s \in Senders, SendStep(s), NEW u \in Senders \ {s}
    PROVE  pc'[u] = pc[u] /\ frame'[u] = frame[u] /\ hand'[u] = hand[u]
  <1>1. hand'[u] = hand[u]
    BY HandStep DEF Shape
  <1>2. frame'[u] = frame[u]
    BY DEF SendStep, Begin, Enter, Epoch, Report, NumberAudio, Stamp, MarkAudio, EncryptAudio, SplitVideo,
           EncryptVideo, Send, Shape, Places, FailAudio, FailSplit, FailVideo, Return
  <1>3. pc'[u] = pc[u]
    BY DEF SendStep, Begin, Enter, Epoch, Report, NumberAudio, Stamp, MarkAudio, EncryptAudio, SplitVideo,
           EncryptVideo, Send, Goto, Shape, Places, FailAudio, FailSplit, FailVideo, Return
  <1> QED
    BY <1>1, <1>2, <1>3

LEMMA FitStep ==
    ASSUME Shape, Fit, [Next]_vars
    PROVE  Fit'
  <1> USE MediaTrackAssumption
  <1>1. CASE SetSource \/ TimerReport \/ Close \/ UNCHANGED vars
    BY <1>1 DEF SetSource, StopSenders, ResetFirst, ResetEpoch, StartSenders, TimerReport, Close, vars,
                senderVars, Fit, FitOf, Making
  <1>2. ASSUME NEW s \in Senders, SendStep(s) PROVE Fit'
    <2>1. \A u \in Senders \ {s} : FitOf(u)'
      <3> TAKE u \in Senders \ {s}
      <3>1. FitOf(u)
        BY DEF Fit
      <3> QED
        BY <1>2, <3>1, OthersStay DEF FitOf, Making
    <2>2. FitOf(s)'
      <3> USE DEF Goto, Making
      <3>0. FitOf(s) /\ pc \in [Senders -> {"idle", "enter", "epoch", "report", "number", "stamp", "mark", "split",
                                            "encrypt", "send", "done"}]
            /\ frame \in [Senders -> Nat] /\ hand \in [Senders -> Packets]
        BY DEF Fit, Shape, Places, Hands
      <3>1. CASE Begin(s)
        BY <1>2, <3>0, <3>1 DEF Begin, FitOf
      <3>2. CASE Enter(s) \/ Epoch(s) \/ Report(s)
        BY <1>2, <3>0, <3>2 DEF Enter, Epoch, Report, FitOf
      <3>3. CASE NumberAudio(s)
        BY <1>2, <3>0, <3>3 DEF NumberAudio, FitOf, Packets
      <3>4. CASE Stamp(s)
        <4>1. LegOf(s) \in {"audio", "video"}
          BY LegsOfSenders
        <4> QED
          BY <1>2, <3>0, <3>4, <4>1 DEF Stamp, FitOf, Packets
      <3>5. CASE MarkAudio(s)
        <4>1. LegOf(s) = "audio"
          BY <3>5 DEF MarkAudio, Shape, Places
        <4> QED
          BY <1>2, <3>0, <3>5, <4>1 DEF MarkAudio, FitOf, Packets
      <3>6. CASE EncryptAudio(s)
        BY <1>2, <3>0, <3>6 DEF EncryptAudio, FitOf, Packets, NoPacket, Return
      <3>7. CASE SplitVideo(s)
        BY <1>2, <3>0, <3>7 DEF SplitVideo, FitOf, Packets, NoPacket, Return
      <3>8. CASE EncryptVideo(s)
        BY <1>2, <3>0, <3>8 DEF EncryptVideo, FitOf, Packets, NoPacket, UnderOneLock, Left, Return
      <3>9. CASE Send(s)
        BY <1>2, <3>0, <3>9 DEF Send, FitOf, Packets, NoPacket, Return
      <3>10. CASE FailAudio(s) \/ FailSplit(s) \/ FailVideo(s)
        BY <1>2, <3>0, <3>10 DEF FailAudio, FailSplit, FailVideo, FitOf, Packets, NoPacket, Return
      <3> QED
        BY <1>2, <3>1, <3>2, <3>3, <3>4, <3>5, <3>6, <3>7, <3>8, <3>9, <3>10 DEF SendStep
    <2> QED
      BY <2>1, <2>2 DEF Fit
  <1> QED
    BY <1>1, <1>2 DEF Next

----------------------------------------------------------------------------
(* The log *)

Videos == "video" \in Legs => log["video"] \in Seq(Entries)

Chunks(s, n) == [i \in 1 .. n |-> Chunk(s, i)]

\* The steps that put packets into the log: to be sent, or to be lost.
Encrypt(s) == (EncryptAudio(s) \/ EncryptVideo(s)) /\ keyed
Loses(s) == FailAudio(s) \/ FailVideo(s)

\* A sender of video encrypts n chunks.
Coding(s, n) ==
    /\ LegOf(s) = "video" /\ pc[s] = "encrypt"
    /\ n \in 1 .. hand[s].chunks
    /\ NumberVideo(s, n)
    /\ (EncryptVideo(s) /\ n = hand[s].chunks) \/ FailVideo(s)

LEMMA VideoHand ==
    ASSUME Fit, NEW s \in Senders, LegOf(s) = "video", pc[s] = "encrypt"
    PROVE  /\ hand[s].chunks \in 1 .. MaxChunks /\ hand[s].done = 0
           /\ Left(s) = hand[s].chunks /\ hand[s].chunks \in Nat
  <1>1. hand[s].chunks \in 1 .. MaxChunks /\ hand[s].done = 0
    BY DEF Fit, FitOf
  <1> QED
    BY <1>1, MediaTrackAssumption DEF Left

LEMMA CodesSome ==
    ASSUME Fit, NEW s \in Senders, (EncryptVideo(s) /\ keyed) \/ FailVideo(s)
    PROVE  \E n : Coding(s, n)
  <1>1. LegOf(s) = "video" /\ pc[s] = "encrypt"
    BY DEF EncryptVideo, FailVideo
  <1>2. Left(s) = hand[s].chunks /\ hand[s].chunks \in 1 .. hand[s].chunks
    BY <1>1, VideoHand, MediaTrackAssumption
  <1>3. CASE EncryptVideo(s) /\ keyed
    <2>1. NumberVideo(s, Left(s))
      BY <1>3 DEF EncryptVideo, UnderOneLock
    <2> QED
      BY <1>1, <1>2, <1>3, <2>1 DEF Coding
  <1>4. CASE FailVideo(s)
    BY <1>1, <1>2, <1>4 DEF Coding, FailVideo, UnderOneLock
  <1> QED
    BY <1>3, <1>4

LEMMA VideoChunks ==
    ASSUME Shape, Fit, NEW s \in Senders, NEW n, Coding(s, n)
    PROVE  /\ "video" \in Legs /\ LegOf(s) = "video" /\ pc[s] = "encrypt"
           /\ n \in Nat \ {0} /\ n <= MaxChunks
           /\ Chunks(s, n) \in Seq(Entries) /\ Len(Chunks(s, n)) = n
           /\ log' = [log EXCEPT !["video"] = @ \o Chunks(s, n)]
           /\ seq' = [seq EXCEPT !["video"] = NextSeq(@, n)]
           /\ ts' = ts /\ frame' = frame
  <1>1. "video" \in Legs /\ LegOf(s) = "video" /\ SourceOf(s) \in 1 .. MaxSources /\ pc[s] = "encrypt"
    BY LegsOfSenders DEF Coding
  <1>2. n \in Nat \ {0} /\ n <= MaxChunks
    <2>1. hand[s].chunks \in 1 .. MaxChunks /\ hand[s].chunks \in Nat /\ n \in 1 .. hand[s].chunks
      BY <1>1, VideoHand DEF Coding
    <2> QED
      BY <2>1, MediaTrackAssumption
  <1>4. ASSUME NEW i \in 1 .. n PROVE Chunk(s, i) \in Entries
    <2>1. seq["video"] \in Int /\ i \in Int /\ i - 1 \in Int
      BY <1>1, <1>2 DEF Shape, Counters
    <2>2. hand[s].ts \in Nat /\ FrameOf(s) \in (1 .. MaxSources) \X Nat
      BY <1>1 DEF FrameOf, Shape, Hands, Packets, Places
    <2>3. NextSeq(seq["video"], i - 1) \in Nat
      <3> DEFINE k == i - 1
      <3>1. k \in Int
        BY <2>1
      <3> HIDE DEF k
      <3>2. NextSeq(seq["video"], k) \in 0 .. SeqMod - 1
        BY <2>1, <3>1, NextIsNumber
      <3> QED
        BY <3>2 DEF k
    <2> QED
      BY <2>2, <2>3 DEF Chunk, Entries
  <1>5. Chunks(s, n) \in Seq(Entries) /\ Len(Chunks(s, n)) = n
    <2>1. Chunks(s, n) \in [1 .. n -> Entries]
      BY <1>4 DEF Chunks
    <2> QED
      BY <1>2, <2>1
  <1>7. log' = [log EXCEPT !["video"] = @ \o Chunks(s, n)] /\ seq' = [seq EXCEPT !["video"] = NextSeq(@, n)]
    BY DEF Coding, NumberVideo, Chunks
  <1>8. ts' = ts /\ frame' = frame
    BY DEF Coding, EncryptVideo, FailVideo
  <1> QED
    BY <1>1, <1>2, <1>5, <1>7, <1>8

LEMMA VideoAppends ==
    ASSUME Shape, Videos, Fit, NEW s \in Senders, NEW n, Coding(s, n), NEW v, v = log["video"]
    PROVE  /\ "video" \in Legs /\ LegOf(s) = "video" /\ pc[s] = "encrypt"
           /\ n \in Nat \ {0} /\ n <= MaxChunks /\ Len(v) \in Nat /\ DOMAIN v = 1 .. Len(v)
           /\ log'["video"] \in Seq(Entries)
           /\ Len(log'["video"]) = Len(v) + n /\ DOMAIN log'["video"] = 1 .. Len(v) + n
           /\ \A i \in 1 .. Len(v) : log'["video"][i] = v[i]
           /\ \A i \in Len(v) + 1 .. Len(v) + n : log'["video"][i] = Chunk(s, i - Len(v))
           /\ \A k \in Legs \ {"video"} : log'[k] = log[k]
           /\ seq'["video"] = NextSeq(seq["video"], n)
           /\ ts' = ts /\ frame' = frame
  <1>1. "video" \in Legs /\ LegOf(s) = "video" /\ pc[s] = "encrypt" /\ n <= MaxChunks /\ ts' = ts /\ frame' = frame
    BY VideoChunks
  <1>2. n \in Nat \ {0}
    BY VideoChunks
  <1> DEFINE c == Chunks(s, n)
  <1>3. log'["video"] = v \o c /\ \A k \in Legs \ {"video"} : log'[k] = log[k]
    BY <1>1, VideoChunks DEF Shape, Logs
  <1>4. v \in Seq(Entries) /\ c \in Seq(Entries) /\ Len(c) = n
    BY <1>1, VideoChunks DEF Videos
  <1>5. \A i \in 1 .. n : c[i] = Chunk(s, i)
    BY DEF Chunks
  <1> HIDE DEF c
  <1>6. /\ v \o c \in Seq(Entries) /\ Len(v \o c) = Len(v) + Len(c)
        /\ \A i \in 1 .. Len(v) + Len(c) : (v \o c)[i] = IF i <= Len(v) THEN v[i] ELSE c[i - Len(v)]
    BY <1>4, ConcatProperties
  <1>7. \A q \in Seq(Entries) : DOMAIN q = 1 .. Len(q) /\ Len(q) \in Nat
    OBVIOUS
  <1>8. Len(v) \in Nat /\ DOMAIN v = 1 .. Len(v) /\ DOMAIN log'["video"] = 1 .. Len(v) + n
    BY <1>3, <1>4, <1>6, <1>7
  <1>9. \A i \in Len(v) + 1 .. Len(v) + n : log'["video"][i] = Chunk(s, i - Len(v))
    <2> TAKE i \in Len(v) + 1 .. Len(v) + n
    <2>0. i - Len(v) \in 1 .. n
      <3>1. PICK m \in Nat : m = Len(v)
        BY <1>8
      <3> QED
        BY <1>2, <3>1
    <2>1. PICK k \in 1 .. n : k = i - Len(v)
      BY <2>0
    <2>2. (v \o c)[i] = c[i - Len(v)]
      BY <1>2, <1>4, <1>6, <1>8
    <2> QED
      BY <1>3, <1>5, <2>1, <2>2
  <1>10. \A i \in 1 .. Len(v) : log'["video"][i] = v[i]
    BY <1>2, <1>3, <1>4, <1>6, <1>8
  <1>11. seq'["video"] = NextSeq(seq["video"], n)
    BY <1>1, VideoChunks DEF Shape, Counters
  <1> QED
    BY <1>1, <1>2, <1>3, <1>4, <1>6, <1>8, <1>9, <1>10, <1>11

\* Where a step that encrypts, or fails to, leaves its sender and the lost samples.
LEMMA Outcome ==
    ASSUME Shape, NEW s \in Senders, Encrypt(s) \/ Loses(s)
    PROVE  /\ pc[s] = "encrypt" /\ frame' = frame /\ packets' = packets
           /\ \/ pc'[s] = "done" /\ lost' = lost \cup {<<LegOf(s), FrameOf(s)>>}
              \/ Encrypt(s) /\ lost' = lost
  <1>1. CASE Loses(s)
    BY <1>1 DEF Loses, FailAudio, FailVideo, Return, Goto, Shape, Places, trackVars
  <1>2. CASE Encrypt(s)
    BY <1>2 DEF Encrypt, EncryptAudio, EncryptVideo, trackVars
  <1> QED
    BY <1>1, <1>2

\* What a sender is to send is as many packets as it has chunks.
LEMMA SentChunks ==
    ASSUME Shape, Fit, NEW s \in Senders, Encrypt(s)
    PROVE  /\ pc'[s] = "send" /\ hand'[s].chunks \in Nat \ {0}
           /\ LegOf(s) = "audio" => hand'[s].chunks = 1
           /\ LegOf(s) = "video" => Coding(s, hand'[s].chunks)
  <1> USE DEF Shape
  <1>1. CASE EncryptAudio(s)
    BY <1>1 DEF Encrypt, EncryptAudio, Goto, NoPacket, Places, Hands
  <1>2. CASE EncryptVideo(s)
    <2>1. LegOf(s) = "video" /\ pc[s] = "encrypt" /\ keyed
      BY <1>2 DEF Encrypt, EncryptVideo
    <2>2. Left(s) = hand[s].chunks /\ hand[s].chunks \in 1 .. hand[s].chunks /\ hand[s].chunks \in Nat \ {0}
      BY <2>1, VideoHand, MediaTrackAssumption
    <2>3. NumberVideo(s, hand[s].chunks) /\ pc'[s] = "send" /\ hand'[s].chunks = hand[s].chunks
      BY <1>2, <2>1, <2>2 DEF EncryptVideo, UnderOneLock, Goto, Places, Hands, Packets
    <2> QED
      BY <1>2, <2>1, <2>2, <2>3 DEF Coding
  <1> QED
    BY <1>1, <1>2 DEF Encrypt

\* What a sender encrypts goes to the end of its leg's log, as one sample of its own.
LEMMA Appends ==
    ASSUME Shape, Videos, Fit, NEW s \in Senders, Encrypt(s) \/ Loses(s),
           NEW l, l = LegOf(s)
    PROVE  /\ l \in Legs /\ Len(log[l]) \in Nat /\ Len(log'[l]) \in Nat /\ Len(log[l]) < Len(log'[l])
           /\ Encrypt(s) => Len(log'[l]) = Len(log[l]) + hand'[s].chunks
           /\ DOMAIN log[l] = 1 .. Len(log[l]) /\ DOMAIN log'[l] = 1 .. Len(log'[l])
           /\ \A i \in 1 .. Len(log[l]) : log'[l][i] = log[l][i]
           /\ \A i \in Len(log[l]) + 1 .. Len(log'[l]) : log'[l][i].frame = FrameOf(s)
           /\ \A k \in Legs \ {l} : log'[k] = log[k]
           /\ log'[l] \in Seq(Entries)
  <1> USE DEF Shape
  <1>1. CASE LegOf(s) = "audio"
    <2>1. l = "audio" /\ l \in Legs
      BY <1>1, LegsOfSenders
    <2>2. log' = [log EXCEPT !["audio"] = Append(@, Entry(s))]
      BY <1>1 DEF EncryptAudio, FailAudio, EncryptVideo, FailVideo, Encrypt, Loses
    <2>3. Encrypt(s) => hand'[s].chunks = 1
      BY <1>1, SentChunks
    <2>4. log[l] \in Seq(Entries) /\ Entry(s) \in Entries
      <3>1. SourceOf(s) \in 1 .. MaxSources
        BY LegsOfSenders
      <3> QED
        BY <2>1, <3>1 DEF Logs, Entry, FrameOf, Entries, Hands, Packets, Places
    <2>5. log'[l] = Append(log[l], Entry(s)) /\ \A k \in Legs \ {l} : log'[k] = log[k]
      BY <2>1, <2>2 DEF Logs
    <2>6. Entry(s).frame = FrameOf(s)
      BY DEF Entry
    <2>7. /\ Append(log[l], Entry(s)) \in Seq(Entries)
          /\ Len(Append(log[l], Entry(s))) = Len(log[l]) + 1 /\ Len(log[l]) \in Nat
          /\ \A i \in 1 .. Len(log[l]) : Append(log[l], Entry(s))[i] = log[l][i]
          /\ Append(log[l], Entry(s))[Len(log[l]) + 1] = Entry(s)
          /\ DOMAIN log[l] = 1 .. Len(log[l])
      BY <2>4
    <2>8. DOMAIN log'[l] = 1 .. Len(log'[l])
      BY <2>5, <2>7
    <2> QED
      BY <2>1, <2>3, <2>5, <2>6, <2>7, <2>8
  <1>2. CASE LegOf(s) = "video"
    <2>1. (EncryptVideo(s) /\ keyed) \/ FailVideo(s)
      BY <1>2 DEF EncryptAudio, FailAudio, Encrypt, Loses
    <2>2. PICK n : Coding(s, n) /\ (Encrypt(s) => n = hand'[s].chunks)
      BY <1>2, <2>1, CodesSome, SentChunks
    <2>3. PICK v, w : v = log["video"] /\ w = log'["video"]
      OBVIOUS
    <2>4. /\ l = "video" /\ l \in Legs /\ n \in Nat \ {0} /\ Len(v) \in Nat /\ DOMAIN v = 1 .. Len(v)
          /\ w \in Seq(Entries) /\ Len(w) = Len(v) + n /\ DOMAIN w = 1 .. Len(v) + n
          /\ \A i \in 1 .. Len(v) : w[i] = v[i]
          /\ \A i \in Len(v) + 1 .. Len(v) + n : w[i] = Chunk(s, i - Len(v))
          /\ \A k \in Legs \ {l} : log'[k] = log[k]
      BY <1>2, <2>2, <2>3, VideoAppends
    <2>5. \A i : Chunk(s, i).frame = FrameOf(s)
      BY DEF Chunk
    <2>6. \A i \in Len(v) + 1 .. Len(w) : w[i].frame = FrameOf(s)
      BY <2>4, <2>5
    <2>7. Len(w) \in Nat /\ Len(v) < Len(w) /\ (Encrypt(s) => Len(w) = Len(v) + hand'[s].chunks)
      BY <2>2, <2>4
    <2> QED
      BY <2>3, <2>4, <2>6, <2>7
  <1>3. LegOf(s) \in {"audio", "video"}
    BY LegsOfSenders, MediaTrackAssumption
  <1> QED
    BY <1>1, <1>2, <1>3

\* Nothing else touches the log.
LEMMA OnlyEncryptLogs ==
    ASSUME [Next]_vars, \A s \in Senders : ~Encrypt(s) /\ ~Loses(s)
    PROVE  log' = log /\ lost' = lost
  <1>1. CASE SetSource \/ TimerReport \/ Close \/ UNCHANGED vars
    BY <1>1 DEF SetSource, StopSenders, ResetFirst, ResetEpoch, StartSenders, TimerReport, Close, vars, historyVars
  <1>2. ASSUME NEW s \in Senders, SendStep(s) PROVE log' = log /\ lost' = lost
    BY <1>2 DEF SendStep, Begin, Enter, Epoch, Report, NumberAudio, Stamp, MarkAudio, SplitVideo, Send,
                EncryptAudio, EncryptVideo, FailSplit, Encrypt, Loses, historyVars
  <1> QED
    BY <1>1, <1>2 DEF Next

LEMMA VideosStep ==
    ASSUME Shape, Videos, Fit, [Next]_vars
    PROVE  Videos'
  <1>1. ASSUME NEW s \in Senders, Encrypt(s) \/ Loses(s) PROVE Videos'
    <2>1. CASE LegOf(s) = "video"
      BY <1>1, <2>1, Appends DEF Videos
    <2>2. CASE LegOf(s) # "video"
      BY <1>1, <2>2, Appends DEF Videos
    <2> QED
      BY <2>1, <2>2
  <1> QED
    BY <1>1, OnlyEncryptLogs DEF Videos

----------------------------------------------------------------------------
(* Whose a packet is *)

\* A sender has nothing in the log of the samples to come, nor of the one it is making.
OwnOf(s) ==
    \A i \in DOMAIN log[LegOf(s)] :
        log[LegOf(s)][i].frame[1] = SourceOf(s) =>
            /\ log[LegOf(s)][i].frame[2] <= frame[s]
            /\ Making(s) => log[LegOf(s)][i].frame[2] # frame[s]

Own == \A s \in Senders : OwnOf(s)

LEMMA OneSender ==
    ASSUME NEW s \in Senders, NEW u \in Senders, LegOf(s) = LegOf(u), SourceOf(s) = SourceOf(u)
    PROVE  s = u
  BY DEF Senders, LegOf, SourceOf

LEMMA LogTyped ==
    ASSUME Shape, Videos, NEW l \in Legs
    PROVE  /\ log[l] \in Seq(Entries) /\ Len(log[l]) \in Nat /\ DOMAIN log[l] = 1 .. Len(log[l])
           /\ \A i \in DOMAIN log[l] : log[l][i] \in Entries
  <1>1. l \in {"audio", "video"}
    BY MediaTrackAssumption
  <1>2. log[l] \in Seq(Entries)
    BY <1>1 DEF Shape, Logs, Videos
  <1> QED
    BY <1>2

\* A sender is making a sample from its Begin to the encryption, and stays in that sample.
LEMMA MakingStep ==
    ASSUME Shape, [Next]_vars, NEW s \in Senders
    PROVE  \/ Begin(s) /\ frame'[s] = frame[s] + 1
           \/ frame'[s] = frame[s] /\ (Making(s)' => Making(s))
  <1>1. CASE SetSource \/ TimerReport \/ Close \/ UNCHANGED vars
    BY <1>1 DEF SetSource, StopSenders, ResetFirst, ResetEpoch, StartSenders, TimerReport, Close, vars,
                senderVars, Making
  <1>2. ASSUME NEW u \in Senders, SendStep(u), u # s PROVE frame'[s] = frame[s] /\ (Making(s)' => Making(s))
    BY <1>2, OthersStay DEF Making
  <1>3. CASE Begin(s)
    BY <1>3 DEF Begin, Shape, Places
  <1>4. ASSUME SendStep(s), ~Begin(s) PROVE frame'[s] = frame[s] /\ (Making(s)' => Making(s))
    BY <1>4 DEF SendStep, Enter, Epoch, Report, NumberAudio, Stamp, MarkAudio, EncryptAudio, SplitVideo,
                EncryptVideo, Send, Goto, Making, Shape, Places, FailAudio, FailSplit, FailVideo, Return
  <1> QED
    BY <1>1, <1>2, <1>3, <1>4 DEF Next

LEMMA OwnStep ==
    ASSUME Shape, Videos, Widths, Fit, Own, [Next]_vars
    PROVE  Own'
  <1>0. \A u \in Senders : frame[u] \in Nat
    BY DEF Shape, Places
  <1>1. CASE \A s \in Senders : ~Encrypt(s) /\ ~Loses(s)
    <2>1. log' = log
      BY <1>1, OnlyEncryptLogs
    <2>2. ASSUME NEW u \in Senders PROVE OwnOf(u)'
      <3>1. OwnOf(u)
        BY DEF Own
      <3>2. \A i \in DOMAIN log[LegOf(u)] : log[LegOf(u)][i].frame[2] \in Nat
        BY LogTyped, LegsOfSenders DEF Entries
      <3>3. CASE frame'[u] = frame[u] + 1
        BY <1>0, <2>1, <3>1, <3>2, <3>3 DEF OwnOf
      <3>4. CASE frame'[u] = frame[u] /\ (Making(u)' => Making(u))
        BY <2>1, <3>1, <3>4 DEF OwnOf
      <3> QED
        BY <3>3, <3>4, MakingStep
    <2> QED
      BY <2>2 DEF Own
  <1>2. ASSUME NEW s \in Senders, Encrypt(s) \/ Loses(s) PROVE Own'
    <2> SUFFICES ASSUME NEW u \in Senders, NEW i \in DOMAIN log'[LegOf(u)],
                        log'[LegOf(u)][i].frame[1] = SourceOf(u)
                 PROVE  /\ log'[LegOf(u)][i].frame[2] <= frame'[u]
                        /\ Making(u)' => log'[LegOf(u)][i].frame[2] # frame'[u]
      BY DEF Own, OwnOf
    <2>1. frame' = frame /\ ~Making(s)' /\ (Making(u)' => Making(u))
      <3>1. pc'[s] \in {"send", "done"} /\ frame' = frame
        BY <1>2, Outcome, SentChunks
      <3>2. u # s => pc'[u] = pc[u]
        BY <1>2, OthersStay DEF Encrypt, Loses, SendStep
      <3> QED
        BY <3>1, <3>2 DEF Making
    <2>2. CASE LegOf(u) # LegOf(s) \/ i \in DOMAIN log[LegOf(u)]
      <3>1. i \in DOMAIN log[LegOf(u)] /\ log'[LegOf(u)][i] = log[LegOf(u)][i]
        <4>1. LegOf(u) # LegOf(s) => log'[LegOf(u)] = log[LegOf(u)]
          BY <1>2, Appends, LegsOfSenders
        <4>2. LegOf(u) = LegOf(s) /\ i \in DOMAIN log[LegOf(s)] => log'[LegOf(s)][i] = log[LegOf(s)][i]
          BY <1>2, Appends
        <4> QED
          BY <2>2, <4>1, <4>2
      <3> QED
        BY <2>1, <3>1 DEF Own, OwnOf
    <2>3. CASE LegOf(u) = LegOf(s) /\ i \notin DOMAIN log[LegOf(u)]
      <3>1. log'[LegOf(u)][i].frame = FrameOf(s)
        <4>1. i \in Len(log[LegOf(s)]) + 1 .. Len(log'[LegOf(s)])
          BY <1>2, <2>3, Appends
        <4> QED
          BY <1>2, <2>3, <4>1, Appends
      <3>2. u = s
        BY <2>3, <3>1, OneSender DEF FrameOf
      <3> QED
        BY <1>0, <2>1, <3>1, <3>2 DEF FrameOf
    <2> QED
      BY <2>2, <2>3
  <1> QED
    BY <1>1, <1>2

\* A lost sample is the last of a sender that has ended.
LostLast == \A p \in lost : \E s \in Senders : pc[s] = "done" /\ p = <<LegOf(s), FrameOf(s)>>

LEMMA LostLastStep ==
    ASSUME Shape, LostLast, [Next]_vars
    PROVE  LostLast'
  <1>1. \A u \in Senders : pc[u] = "done" => pc'[u] = "done" /\ FrameOf(u)' = FrameOf(u)
    <2> SUFFICES ASSUME NEW u \in Senders, pc[u] = "done"
                 PROVE  pc'[u] = "done" /\ frame'[u] = frame[u]
      BY DEF FrameOf
    <2>1. CASE SetSource \/ TimerReport \/ Close \/ UNCHANGED vars
      BY <2>1 DEF SetSource, StopSenders, ResetFirst, ResetEpoch, StartSenders, TimerReport, Close, vars, senderVars
    <2>2. ASSUME NEW s \in Senders, SendStep(s) PROVE s # u
      BY <2>2 DEF SendStep, Begin, Enter, Epoch, Report, NumberAudio, Stamp, MarkAudio, EncryptAudio,
                  SplitVideo, EncryptVideo, Send, FailAudio, FailSplit, FailVideo
    <2> QED
      BY <2>1, <2>2, OthersStay DEF Next
  <1>2. ASSUME NEW p \in lost PROVE \E u \in Senders : pc'[u] = "done" /\ p = <<LegOf(u), FrameOf(u)'>>
    BY <1>1 DEF LostLast
  <1>3. CASE \A s \in Senders : ~Encrypt(s) /\ ~Loses(s)
    BY <1>2, <1>3, OnlyEncryptLogs DEF LostLast
  <1>4. ASSUME NEW s \in Senders, Encrypt(s) \/ Loses(s) PROVE LostLast'
    <2>1. FrameOf(s)' = FrameOf(s)
      BY <1>4, Outcome DEF FrameOf
    <2>2. \/ lost' = lost
          \/ lost' = lost \cup {<<LegOf(s), FrameOf(s)>>} /\ pc'[s] = "done"
      BY <1>4, Outcome
    <2> QED
      BY <1>2, <2>1, <2>2 DEF LostLast
  <1> QED
    BY <1>3, <1>4

\* The sample that a sender is about to send is not lost.
LEMMA NotLost ==
    ASSUME LostLast, NEW s \in Senders, pc[s] # "done"
    PROVE  <<LegOf(s), FrameOf(s)>> \notin lost
  <1> SUFFICES ASSUME <<LegOf(s), FrameOf(s)>> \in lost PROVE FALSE
    OBVIOUS
  <1>1. PICK u \in Senders : pc[u] = "done" /\ <<LegOf(s), FrameOf(s)>> = <<LegOf(u), FrameOf(u)>>
    BY DEF LostLast
  <1>2. LegOf(u) = LegOf(s) /\ SourceOf(u) = SourceOf(s)
    BY <1>1 DEF FrameOf
  <1> QED
    BY <1>1, <1>2, OneSender

\* The packets in the log of a sender's sample, and those to be sent that no sender is about
\* to count.
OfSender(s) == {i \in DOMAIN log[LegOf(s)] : log[LegOf(s)][i].frame = FrameOf(s)}

Counted(l) ==
    {i \in DOMAIN log[l] :
         /\ Kept(l, i)
         /\ \A s \in Senders : LegOf(s) = l /\ pc[s] = "send" => log[l][i].frame # FrameOf(s)}

Counts ==
    /\ packets \in [Legs -> Nat]
    /\ \A s \in Senders : pc[s] = "send" => Cardinality(OfSender(s)) = hand[s].chunks
    /\ \A l \in Legs : packets[l] <= Cardinality(Counted(l))

LEMMA FiniteParts ==
    ASSUME Shape, Videos, NEW l \in Legs, NEW T \in SUBSET DOMAIN log[l]
    PROVE  IsFiniteSet(T) /\ Cardinality(T) \in Nat /\ Cardinality(T) <= Len(log[l])
  <1>1. DOMAIN log[l] = 1 .. Len(log[l]) /\ Len(log[l]) \in Nat
    BY LogTyped
  <1>2. IsFiniteSet(1 .. Len(log[l])) /\ Cardinality(1 .. Len(log[l])) = Len(log[l])
    BY <1>1, FS_Interval
  <1> QED
    BY <1>1, <1>2, FS_Subset, FS_CardinalityType

LEMMA CountsStep ==
    ASSUME Shape, Videos, Fit, Own, LostLast, Counts, [Next]_vars
    PROVE  Counts'
  <1>0. \A u \in Senders : hand[u] \in Packets /\ LegOf(u) \in Legs
    BY LegsOfSenders DEF Shape, Hands
  <1>1. ASSUME log' = log, lost' = lost, packets' = packets,
               \A u \in Senders : (pc'[u] = "send") <=> (pc[u] = "send"),
               \A u \in Senders : pc[u] = "send" => frame'[u] = frame[u] /\ hand'[u] = hand[u]
        PROVE  Counts'
    <2>1. \A u \in Senders : pc[u] = "send" => OfSender(u)' = OfSender(u)
      BY <1>1 DEF OfSender, FrameOf
    <2>2. \A l \in Legs : Counted(l)' = Counted(l)
      BY <1>1 DEF Counted, Kept, FrameOf
    <2> QED
      BY <1>1, <2>1, <2>2 DEF Counts
  <1>2. CASE SetSource \/ TimerReport \/ Close \/ UNCHANGED vars
    <2>1. UNCHANGED <<log, lost, packets, pc, frame, hand>>
      BY <1>2 DEF SetSource, StopSenders, ResetFirst, ResetEpoch, StartSenders, TimerReport, Close, vars,
                  senderVars, historyVars, trackVars
    <2> QED
      BY <1>1, <2>1
  <1>3. ASSUME NEW s \in Senders, SendStep(s), ~Encrypt(s), ~Loses(s), ~Send(s) PROVE Counts'
    <2>1. log' = log /\ lost' = lost /\ packets' = packets
      BY <1>3 DEF SendStep, Begin, Enter, Epoch, Report, NumberAudio, Stamp, MarkAudio, SplitVideo, Encrypt, Loses, FailSplit,
                  EncryptAudio, EncryptVideo, historyVars, trackVars, Return
    <2>2. pc[s] # "send" /\ pc'[s] # "send"
      BY <1>3 DEF SendStep, Begin, Enter, Epoch, Report, NumberAudio, Stamp, MarkAudio, SplitVideo, Encrypt, Loses, FailSplit,
                  EncryptAudio, EncryptVideo, Goto, Shape, Places, Return
    <2> QED
      BY <1>1, <1>3, <2>1, <2>2, OthersStay
  <1>4. ASSUME NEW s \in Senders, Encrypt(s) \/ Loses(s) PROVE Counts'
    <2>1. PICK l \in Legs : l = LegOf(s)
      BY <1>0
    <2>2. packets' = packets
      BY <1>4, Outcome
    <2>3. /\ frame' = frame /\ pc[s] = "encrypt"
          /\ Encrypt(s) => pc'[s] = "send" /\ hand'[s].chunks \in Nat \ {0}
          /\ \/ pc'[s] = "done" /\ lost' = lost \cup {<<l, FrameOf(s)>>}
             \/ pc'[s] = "send" /\ Encrypt(s) /\ lost' = lost
          /\ \A u \in Senders \ {s} : pc'[u] = pc[u] /\ hand'[u] = hand[u]
      <3>1. \A u \in Senders \ {s} : pc'[u] = pc[u] /\ hand'[u] = hand[u]
        BY <1>4, OthersStay DEF Encrypt, Loses, SendStep
      <3> QED
        BY <1>4, <2>1, <3>1, Outcome, SentChunks
    <2>4. /\ DOMAIN log[l] = 1 .. Len(log[l]) /\ Len(log[l]) \in Nat
          /\ Encrypt(s) => DOMAIN log'[l] = 1 .. Len(log[l]) + hand'[s].chunks
          /\ DOMAIN log[l] \subseteq DOMAIN log'[l]
          /\ \A i \in DOMAIN log[l] : log'[l][i] = log[l][i]
          /\ \A i \in DOMAIN log'[l] \ DOMAIN log[l] : log'[l][i].frame = FrameOf(s)
          /\ \A k \in Legs \ {l} : log'[k] = log[k]
      <3>1. /\ Len(log[l]) \in Nat /\ Len(log'[l]) \in Nat /\ Len(log[l]) < Len(log'[l])
            /\ DOMAIN log[l] = 1 .. Len(log[l]) /\ DOMAIN log'[l] = 1 .. Len(log'[l])
            /\ Encrypt(s) => Len(log'[l]) = Len(log[l]) + hand'[s].chunks
            /\ \A i \in 1 .. Len(log[l]) : log'[l][i] = log[l][i]
            /\ \A i \in Len(log[l]) + 1 .. Len(log'[l]) : log'[l][i].frame = FrameOf(s)
            /\ \A k \in Legs \ {l} : log'[k] = log[k]
        BY <1>4, <2>1, Appends
      <3>2. DOMAIN log'[l] \ DOMAIN log[l] = Len(log[l]) + 1 .. Len(log'[l])
        BY <3>1
      <3> QED
        BY <3>1, <3>2
    <2>5. \A i \in DOMAIN log[l] : log[l][i].frame # FrameOf(s)
      <3>1. OwnOf(s) /\ Making(s)
        BY <2>3 DEF Own, Making
      <3> QED
        BY <2>1, <3>1 DEF OwnOf, FrameOf
    <2>6. \A u \in Senders \ {s} : LegOf(u) = l => FrameOf(u) # FrameOf(s)
      BY <2>1, OneSender DEF FrameOf
    <2>7. Encrypt(s) => Cardinality(OfSender(s)') = hand'[s].chunks
      <3> SUFFICES ASSUME Encrypt(s) PROVE Cardinality(OfSender(s)') = hand'[s].chunks
        OBVIOUS
      <3>1. OfSender(s)' = Len(log[l]) + 1 .. Len(log[l]) + hand'[s].chunks
        <4>1. OfSender(s)' = {i \in DOMAIN log'[l] : log'[l][i].frame = FrameOf(s)}
          BY <2>1, <2>3 DEF OfSender, FrameOf
        <4>2. \A i \in DOMAIN log'[l] : log'[l][i].frame = FrameOf(s) <=> i \notin DOMAIN log[l]
          BY <2>4, <2>5
        <4>3. OfSender(s)' = DOMAIN log'[l] \ DOMAIN log[l]
          BY <4>1, <4>2
        <4> QED
          BY <2>3, <2>4, <4>3
      <3> DEFINE a == Len(log[l]) + 1
                 b == Len(log[l]) + hand'[s].chunks
      <3>2. a \in Int /\ b \in Int /\ a <= b /\ b - a + 1 = hand'[s].chunks
        BY <2>3, <2>4
      <3>3. OfSender(s)' = a .. b
        BY <3>1
      <3> HIDE DEF a, b
      <3>4. Cardinality(a .. b) = IF a > b THEN 0 ELSE b - a + 1
        BY <3>2, FS_Interval
      <3> QED
        BY <3>2, <3>3, <3>4
    <2>8. \A u \in Senders \ {s} : pc'[u] = "send" => OfSender(u)' = OfSender(u)
      <3> SUFFICES ASSUME NEW u \in Senders \ {s} PROVE OfSender(u)' = OfSender(u)
        OBVIOUS
      <3>1. CASE LegOf(u) # l
        BY <1>0, <2>3, <2>4, <3>1 DEF OfSender, FrameOf
      <3>2. CASE LegOf(u) = l
        <4>1. OfSender(u)' = {i \in DOMAIN log'[l] : log'[l][i].frame = FrameOf(u)}
          BY <2>3, <3>2 DEF OfSender, FrameOf
        <4>2. DOMAIN log[l] \subseteq DOMAIN log'[l]
          BY <2>4
        <4> QED
          BY <2>4, <2>6, <3>2, <4>1, <4>2 DEF OfSender
      <3> QED
        BY <3>1, <3>2
    <2>9. \A k \in Legs : Counted(k)' = Counted(k)
      <3> SUFFICES ASSUME NEW k \in Legs PROVE Counted(k)' = Counted(k)
        OBVIOUS
      <3>0. \A u \in Senders : FrameOf(u)' = FrameOf(u)
        BY <2>3 DEF FrameOf
      <3>1. CASE k # l
        <4>1. log'[k] = log[k] /\ \A u \in Senders : LegOf(u) = k => pc'[u] = pc[u]
          BY <2>1, <2>3, <2>4, <3>1
        <4> QED
          BY <2>3, <3>0, <3>1, <4>1 DEF Counted, Kept
      <3>2. CASE k = l
        <4>1. DOMAIN log[l] \subseteq DOMAIN log'[l]
          BY <2>4
        <4>2. \A i \in DOMAIN log'[l] \ DOMAIN log[l] : i \notin Counted(l)'
          BY <2>1, <2>3, <2>4, <3>0 DEF Counted, Kept
        <4>3. ASSUME NEW i \in DOMAIN log[l] PROVE i \in Counted(l)' <=> i \in Counted(l)
          <5>1. log'[l][i] = log[l][i] /\ i \in DOMAIN log'[l] /\ log[l][i].frame # FrameOf(s)
            BY <2>4, <2>5, <4>1
          <5>2. ASSUME NEW u \in Senders
                PROVE  (LegOf(u) = l /\ pc'[u] = "send" => log'[l][i].frame # FrameOf(u)')
                       <=> (LegOf(u) = l /\ pc[u] = "send" => log[l][i].frame # FrameOf(u))
            <6>1. CASE u = s
              BY <3>0, <5>1, <6>1
            <6>2. CASE u # s
              BY <2>3, <3>0, <5>1, <6>2
            <6> QED
              BY <6>1, <6>2
          <5>3. Kept(l, i)' <=> Kept(l, i)
            BY <2>3, <5>1 DEF Kept
          <5> QED
            BY <5>1, <5>2, <5>3 DEF Counted
        <4>4. Counted(l)' \subseteq DOMAIN log'[l] /\ Counted(l) \subseteq DOMAIN log[l]
          BY DEF Counted
        <4> QED
          BY <3>2, <4>1, <4>2, <4>3, <4>4
      <3> QED
        BY <3>1, <3>2
    <2>10. \A u \in Senders : pc'[u] = "send" => Cardinality(OfSender(u)') = hand'[u].chunks
      BY <2>3, <2>7, <2>8 DEF Counts
    <2> QED
      BY <2>2, <2>9, <2>10 DEF Counts
  <1>5. ASSUME NEW s \in Senders, Send(s) PROVE Counts'
    <2>1. PICK l \in Legs : l = LegOf(s)
      BY <1>0
    <2>2. /\ log' = log /\ lost' = lost /\ frame' = frame /\ pc[s] = "send" /\ pc'[s] = "idle"
          /\ \A u \in Senders \ {s} : pc'[u] = pc[u] /\ hand'[u] = hand[u]
          /\ packets' = packets \/ packets' = [packets EXCEPT ![l] = @ + hand[s].chunks]
      BY <1>5, <2>1, OthersStay DEF Send, SendStep, Goto, historyVars, Shape, Places, Return
    <2>3. \A u \in Senders : OfSender(u)' = OfSender(u) /\ FrameOf(u)' = FrameOf(u)
      BY <2>2 DEF OfSender, FrameOf
    <2>4. \A k \in Legs \ {l} : Counted(k)' = Counted(k)
      BY <2>1, <2>2, <2>3 DEF Counted, Kept
    <2>5. Counted(l)' = Counted(l) \cup OfSender(s)
      <3>1. ASSUME NEW i \in DOMAIN log[l] PROVE i \in Counted(l)' <=> (i \in Counted(l) \/ i \in OfSender(s))
        <4>1. ASSUME NEW u \in Senders \ {s}, LegOf(u) = l, log[l][i].frame = FrameOf(s)
              PROVE  log[l][i].frame # FrameOf(u)
          BY <2>1, <4>1, OneSender DEF FrameOf
        <4>2. log[l][i].frame = FrameOf(s) => Kept(l, i)
          BY <2>1, <2>2, NotLost DEF Kept
        <4>3. Kept(l, i)' <=> Kept(l, i)
          BY <2>2 DEF Kept
        <4> QED
          BY <2>1, <2>2, <2>3, <4>1, <4>2, <4>3 DEF Counted, OfSender
      <3>2. Counted(l)' \subseteq DOMAIN log[l] /\ Counted(l) \subseteq DOMAIN log[l]
            /\ OfSender(s) \subseteq DOMAIN log[l]
        BY <2>1, <2>2 DEF Counted, OfSender
      <3> QED
        BY <3>1, <3>2
    <2>6. Counted(l) \cap OfSender(s) = {}
      BY <2>1, <2>2 DEF Counted, OfSender
    <2>7. Cardinality(Counted(l)') = Cardinality(Counted(l)) + hand[s].chunks
          /\ Cardinality(Counted(l)) \in Nat /\ hand[s].chunks \in Nat
      <3>1. Counted(l) \in SUBSET DOMAIN log[l] /\ OfSender(s) \in SUBSET DOMAIN log[l]
        BY <2>1 DEF Counted, OfSender
      <3>2. IsFiniteSet(Counted(l)) /\ IsFiniteSet(OfSender(s)) /\ Cardinality(Counted(l)) \in Nat
            /\ Cardinality(OfSender(s)) \in Nat
        BY <3>1, FiniteParts
      <3>3. Cardinality(OfSender(s)) = hand[s].chunks
        BY <2>2 DEF Counts
      <3>4. Cardinality({}) = 0
        BY FS_EmptySet
      <3>5. Cardinality(Counted(l) \cup OfSender(s)) =
                Cardinality(Counted(l)) + Cardinality(OfSender(s)) - Cardinality(Counted(l) \cap OfSender(s))
        BY <3>2, FS_Union
      <3>6. Cardinality(Counted(l) \cap OfSender(s)) = 0
        BY <2>6, <3>4
      <3>7. Cardinality(Counted(l)') = Cardinality(Counted(l) \cup OfSender(s))
        BY <2>5
      <3> QED
        BY <3>2, <3>3, <3>5, <3>6, <3>7
    <2>8. packets' \in [Legs -> Nat] /\ \A k \in Legs : packets'[k] <= Cardinality(Counted(k)')
      <3>1. packets \in [Legs -> Nat] /\ \A k \in Legs : packets[k] <= Cardinality(Counted(k))
        BY DEF Counts
      <3> QED
        BY <2>2, <2>4, <2>7, <3>1
    <2>9. \A u \in Senders : pc'[u] = "send" => Cardinality(OfSender(u)') = hand'[u].chunks
      BY <2>2, <2>3 DEF Counts
    <2> QED
      BY <2>8, <2>9 DEF Counts
  <1> QED
    BY <1>2, <1>3, <1>4, <1>5 DEF Next

\* What the types rest on.
Typed == Switches /\ Widths /\ Fit /\ Videos /\ Own /\ LostLast /\ Counts

LEMMA TypedAlways == Spec => []Typed
  <1>1. Init => Typed
    <2> SUFFICES ASSUME Init PROVE Typed
      OBVIOUS
    <2> USE MediaTrackAssumption
    <2>1. Switches
      <3>1. MaxSources \in Nat \ {0}
        OBVIOUS
      <3> QED
        <4>1. closed = FALSE /\ keyed = TRUE /\ socket = TRUE /\ era = 1 /\ marks = 1 /\ announced = {}
              /\ current = 0 /\ switching = "reset_first"
          BY DEF Init
        <4>2. 0 \in 0 .. MaxSources /\ 0 < MaxSources
          BY <3>1
        <4> QED
          <5>1. closed \in BOOLEAN /\ keyed \in BOOLEAN /\ socket \in BOOLEAN /\ announced \subseteq 1 .. era
            BY <4>1
          <5>2. era = current + (IF switching = "start" THEN 2 ELSE 1)
                /\ marks = era + (IF switching = "reset_epoch" THEN 1 ELSE 0)
            BY <4>1
          <5> QED
            BY <4>1, <4>2, <5>1, <5>2 DEF Switches
    <2>2. Widths
      BY DEF Init, Widths, NoPacket
    <2>3. Fit
      BY DEF Init, Fit, FitOf, Making, NoPacket
    <2>4. \A l \in Legs : log[l] = <<>> /\ DOMAIN log[l] = {}
      BY DEF Init
    <2>5. Videos
      <3>1. <<>> \in Seq(Entries)
        OBVIOUS
      <3> QED
        BY <2>4, <3>1 DEF Videos
    <2>6. Own
      BY <2>4, LegsOfSenders DEF Own, OwnOf
    <2>7. Counts
      <3>1. \A l \in Legs : Counted(l) = {}
        BY <2>4 DEF Counted
      <3>2. Cardinality({}) = 0
        BY FS_EmptySet
      <3> QED
        <4>1. packets = [l \in Legs |-> 0] /\ \A u \in Senders : pc[u] = "idle"
          BY DEF Init
        <4> QED
          <5>1. \A l \in Legs : packets[l] <= Cardinality(Counted(l))
            BY <3>1, <3>2, <4>1
          <5>2. \A u \in Senders : pc[u] # "send"
            BY <4>1
          <5> QED
            BY <4>1, <5>1, <5>2 DEF Counts
    <2>8. LostLast
      BY DEF Init, LostLast
    <2> QED
      BY <2>1, <2>2, <2>3, <2>5, <2>6, <2>7, <2>8 DEF Typed
  <1>2. IInv /\ Typed /\ [Next]_vars => Typed'
    BY SwitchesStep, WidthsStep, FitStep, VideosStep, OwnStep, LostLastStep, CountsStep DEF IInv, Typed
  <1> QED
    BY <1>1, <1>2, Invariance, PTL DEF Spec

\* Every variable has its type: counters and packets stay within their widths, an epoch and a
\* report belong to a reset that took place, no leg sends more samples than the source has, and
\* the packet counter of a leg never counts a packet that was not encrypted, or that an error
\* dropped with the rest of its sample (in send_rtp_bytes fetch_add comes after the loop).
THEOREM TypeCorrectness == Spec => []TypeOK
  <1>1. IInv /\ Typed => TypeOK
    <2> SUFFICES ASSUME IInv, Typed PROVE TypeOK
      OBVIOUS
    <2> USE MediaTrackAssumption DEF IInv, Typed
    <2>1. closed \in BOOLEAN /\ keyed \in BOOLEAN /\ socket \in BOOLEAN /\ first_audio \in BOOLEAN
          /\ seq \in [Legs -> 0 .. SeqMod - 1] /\ ts \in [Legs -> 0 .. TsMod - 1]
      BY DEF Switches, Widths, Shape, Counters
    <2>2. epoch \in 0 .. era /\ era \in 1 .. MaxSources + 1 /\ marks \in era .. era + 1 /\ announced \subseteq 1 .. era
          /\ current \in 0 .. MaxSources /\ switching \in {"no", "reset_first", "reset_epoch", "start"}
      BY DEF Switches, Epochs, None
    <2>3. \A l \in Legs : packets[l] \in 0 .. Cardinality({i \in DOMAIN log[l] : Kept(l, i)})
      <3> TAKE l \in Legs
      <3> DEFINE K == {i \in DOMAIN log[l] : Kept(l, i)}
      <3>1. Counted(l) \in SUBSET K /\ K \in SUBSET DOMAIN log[l]
        BY DEF Counted
      <3>2. IsFiniteSet(K) /\ Cardinality(K) \in Nat
        BY <3>1, FiniteParts
      <3>3. Cardinality(Counted(l)) \in Nat
        BY <3>1, FiniteParts
      <3> HIDE DEF K
      <3>4. Cardinality(Counted(l)) <= Cardinality(K)
        BY <3>1, <3>2, FS_Subset
      <3>5. packets[l] \in Nat /\ packets[l] <= Cardinality(Counted(l))
        BY DEF Counts
      <3>6. packets[l] \in 0 .. Cardinality(K)
        BY <3>2, <3>3, <3>4, <3>5
      <3> QED
        BY <3>6 DEF K
    <2>4. frame \in [Senders -> 0 .. MaxFrames] /\ began \in [Senders -> 0 .. era]
      BY DEF Shape, Places, Fit, FitOf, Epochs, Switches
    <2>5. \A s \in Senders : hand[s].seq \in 0 .. SeqMod - 1 /\ hand[s].chunks \in 0 .. MaxChunks
      <3> TAKE s \in Senders
      <3>1. FitOf(s)
        BY DEF Fit
      <3>2. hand[s].chunks \in 0 .. MaxChunks
        BY <3>1 DEF FitOf
      <3> QED
        BY <3>2 DEF Widths
    <2>6. \A l \in Legs : \A i \in DOMAIN log[l] : log[l][i].frame \in Frames
      <3> TAKE l \in Legs
      <3> TAKE i \in DOMAIN log[l]
      <3>1. log[l][i].frame \in (1 .. MaxSources) \X Nat
        BY LogTyped DEF Entries
      <3> DEFINE s == <<l, log[l][i].frame[1]>>
      <3>2. s \in Senders /\ LegOf(s) = l /\ SourceOf(s) = log[l][i].frame[1]
        BY <3>1 DEF Senders, LegOf, SourceOf
      <3> HIDE DEF s
      <3>3. log[l][i].frame[2] <= frame[s] /\ frame[s] \in 0 .. MaxFrames
        BY <3>2 DEF Own, OwnOf, Fit, FitOf
      <3> QED
        BY <3>1, <3>3 DEF Frames
    <2>7. lost \subseteq Legs \X Frames
      <3> SUFFICES ASSUME NEW p \in lost PROVE p \in Legs \X Frames
        OBVIOUS
      <3>1. PICK s \in Senders : p = <<LegOf(s), FrameOf(s)>>
        BY DEF LostLast
      <3>2. frame[s] \in 0 .. MaxFrames /\ LegOf(s) \in Legs /\ SourceOf(s) \in 1 .. MaxSources
        BY LegsOfSenders DEF Fit, FitOf
      <3> QED
        BY <3>1, <3>2 DEF FrameOf, Frames
    <2> QED
      BY <2>1, <2>2, <2>3, <2>4, <2>5, <2>6, <2>7 DEF TypeOK, Shape, Places
  <1> QED
    BY <1>1, Invariance, TypedAlways, PTL

----------------------------------------------------------------------------
(* Counting samples *)

\* Remainders: what they are, that they are unique, and how they add up.
LEMMA Euclid ==
    ASSUME NEW M \in Nat \ {0}, NEW a \in Int
    PROVE  a = M * (a \div M) + (a % M) /\ a % M \in 0 .. M - 1 /\ a \div M \in Int
  OBVIOUS

LEMMA Unique ==
    ASSUME NEW M \in Nat \ {0}, NEW a \in Int, NEW q \in Int, NEW r \in 0 .. M - 1, a = M * q + r
    PROVE  a % M = r
  OBVIOUS

LEMMA Cancel ==
    ASSUME NEW M \in Nat \ {0}, NEW a \in Int, NEW b \in Int, M * a = M * b
    PROVE  a = b
  <1>1. CASE a < b
    <2>1. PICK d \in Nat : b = a + 1 + d
      BY <1>1
    <2>2. M * b = M * a + M + M * d /\ M * d >= 0
      BY <2>1
    <2> QED
      BY <2>2
  <1>2. CASE b < a
    <2>1. PICK d \in Nat : a = b + 1 + d
      BY <1>2
    <2>2. M * a = M * b + M + M * d /\ M * d >= 0
      BY <2>1
    <2> QED
      BY <2>2
  <1> QED
    BY <1>1, <1>2

LEMMA RemaindersAdd ==
    ASSUME NEW M \in Nat \ {0}, NEW a \in Int, NEW b \in Int
    PROVE  ((a % M) + b) % M = (a + b) % M
  <1>1. PICK r \in 0 .. M - 1, q \in Int : a = M * q + r /\ r = a % M
    BY Euclid
  <1>2. PICK r2 \in 0 .. M - 1, q2 \in Int : r + b = M * q2 + r2 /\ r2 = (r + b) % M
    <2>1. r + b \in Int
      BY <1>1
    <2> QED
      BY <2>1, Euclid
  <1>3. a + b = M * (q + q2) + r2
    BY <1>1, <1>2
  <1>4. (a + b) % M = r2
    <2>1. PICK c \in Int, k \in Int : c = a + b /\ k = q + q2
      OBVIOUS
    <2>2. c = M * k + r2
      BY <1>3, <2>1
    <2>3. c % M = r2
      BY <2>2, Unique
    <2> QED
      BY <2>1, <2>3
  <1> QED
    BY <1>1, <1>2, <1>4

LEMMA NextAdds ==
    ASSUME NEW q \in Int, NEW m \in Int, NEW n \in Int
    PROVE  NextSeq(NextSeq(q, m), n) = NextSeq(q, m + n)
  <1>1. SeqMod \in Nat \ {0} /\ q + m \in Int
    BY MediaTrackAssumption
  <1>2. (((q + m) % SeqMod) + n) % SeqMod = ((q + m) + n) % SeqMod
    BY <1>1, RemaindersAdd
  <1>3. (q + m) + n = q + (m + n)
    OBVIOUS
  <1> QED
    BY <1>2, <1>3 DEF NextSeq

\* The samples that the senders of a leg can send.
Samples == (1 .. MaxSources) \X (1 .. MaxFrames)

LEMMA SamplesAreFew == IsFiniteSet(Samples) /\ Cardinality(Samples) <= MaxSources * MaxFrames
  <1>0. MaxSources \in Nat \ {0} /\ MaxFrames \in Nat
    BY MediaTrackAssumption
  <1>1. CASE MaxFrames = 0
    <2>1. Samples = {}
      BY <1>1 DEF Samples
    <2>2. IsFiniteSet({}) /\ Cardinality({}) = 0
      BY FS_EmptySet
    <2> QED
      BY <1>0, <1>1, <2>1, <2>2
  <1>2. CASE MaxFrames \in Nat \ {0}
    <2> DEFINE place == [p \in Samples |-> MaxFrames * (p[1] - 1) + (p[2] - 1)]
               top == MaxSources * MaxFrames
    <2>1. \A p \in Samples : place[p] \in 1 - 1 .. top - 1 /\ place[p] % MaxFrames = p[2] - 1
      <3> TAKE p \in Samples
      <3>1. PICK q \in 0 .. MaxSources - 1, r \in 0 .. MaxFrames - 1 : q = p[1] - 1 /\ r = p[2] - 1
        BY <1>0, <1>2 DEF Samples
      <3>2. place[p] = MaxFrames * q + r
        BY <3>1
      <3>3. MaxFrames * q + r \in Int /\ (MaxFrames * q + r) % MaxFrames = r
        <4>1. PICK c \in Int : c = MaxFrames * q + r
          BY <1>2
        <4>2. c % MaxFrames = r
          BY <1>2, <4>1, Unique
        <4> QED
          BY <4>1, <4>2
      <3>4. 0 <= MaxFrames * q /\ MaxFrames * q <= MaxFrames * (MaxSources - 1)
        BY <1>0, <1>2, <3>1
      <3>5. MaxFrames * (MaxSources - 1) + MaxFrames = top
        BY <1>0, <1>2
      <3>6. MaxFrames * q + r \in 0 .. top - 1
        BY <1>0, <1>2, <3>1, <3>3, <3>4, <3>5
      <3> QED
        BY <3>1, <3>2, <3>3, <3>6
    <2>2. \A p, q \in Samples : place[p] = place[q] => p = q
      <3> SUFFICES ASSUME NEW p \in Samples, NEW q \in Samples, place[p] = place[q]
                   PROVE  p = q
        OBVIOUS
      <3>1. p[2] - 1 = q[2] - 1
        BY <2>1
      <3>2. p[1] \in Int /\ p[2] \in Int /\ q[1] \in Int /\ q[2] \in Int
        BY DEF Samples
      <3>3. MaxFrames * (p[1] - 1) = MaxFrames * (q[1] - 1)
        BY <1>2, <3>1, <3>2
      <3>4. p[1] = q[1]
        <4>1. p[1] - 1 \in Int /\ q[1] - 1 \in Int
          BY <3>2
        <4>2. p[1] - 1 = q[1] - 1
          BY <1>2, <3>3, <4>1, Cancel
        <4> QED
          BY <3>2, <4>2
      <3> QED
        BY <3>1, <3>2, <3>4 DEF Samples
    <2>3. top \in Nat /\ IsFiniteSet(0 .. top - 1) /\ Cardinality(0 .. top - 1) = top
      <3>1. top \in Nat
        BY <1>0, <1>2
      <3> HIDE DEF top
      <3>2. 0 \in Int /\ top - 1 \in Int
        BY <3>1
      <3>3. IsFiniteSet(0 .. top - 1) /\ Cardinality(0 .. top - 1) = IF 0 > top - 1 THEN 0 ELSE top - 1 - 0 + 1
        BY <3>2, FS_Interval
      <3> QED
        BY <3>1, <3>3
    <2>4. place \in Injection(Samples, 0 .. top - 1)
      <3>1. place \in [Samples -> 0 .. top - 1]
        BY <2>1
      <3> HIDE DEF place, top
      <3> QED
        BY <2>2, <3>1 DEF Injection, IsInjective
    <2> HIDE DEF place, top
    <2>5. IsFiniteSet(Samples) /\ Cardinality(Samples) <= Cardinality(0 .. top - 1)
      BY <2>3, <2>4, FS_Injection
    <2> QED
      BY <2>3, <2>5 DEF top
  <1> QED
    BY <1>0, <1>1, <1>2

\* The samples of a leg that were begun and are past the places in B.
Passed(l, B) ==
    {p \in Samples : /\ p[2] <= frame[<<l, p[1]>>]
                     /\ p[2] = frame[<<l, p[1]>>] => pc[<<l, p[1]>>] \notin B}

LEMMA PassedAreFew ==
    ASSUME NEW l, NEW B
    PROVE  IsFiniteSet(Passed(l, B)) /\ Cardinality(Passed(l, B)) \in Nat
           /\ Cardinality(Passed(l, B)) <= MaxSources * MaxFrames
  <1>1. Passed(l, B) \in SUBSET Samples
    BY DEF Passed
  <1>2. IsFiniteSet(Passed(l, B)) /\ Cardinality(Passed(l, B)) <= Cardinality(Samples)
    BY <1>1, SamplesAreFew, FS_Subset
  <1>3. Cardinality(Passed(l, B)) \in Nat /\ Cardinality(Samples) \in Nat /\ MaxSources * MaxFrames \in Nat
    BY <1>2, SamplesAreFew, FS_CardinalityType, MediaTrackAssumption
  <1> QED
    BY <1>2, <1>3, SamplesAreFew

\* Once past them, a sample stays past them.
LEMMA PassedStays ==
    ASSUME Shape, NEW l \in Legs, NEW B, "enter" \in B,
           \A s \in Senders : \/ Begin(s) /\ frame'[s] = frame[s] + 1
                              \/ frame'[s] = frame[s] /\ (pc'[s] \in B => pc[s] \in B)
    PROVE  Passed(l, B) \subseteq Passed(l, B)'
  <1> SUFFICES ASSUME NEW p \in Samples, p \in Passed(l, B)
               PROVE  p \in Passed(l, B)'
    BY DEF Passed
  <1> DEFINE s == <<l, p[1]>>
  <1>1. s \in Senders /\ frame[s] \in Nat /\ p[2] \in Nat
    BY DEF Senders, Samples, Shape, Places
  <1>2. p[2] <= frame[s] /\ (p[2] = frame[s] => pc[s] \notin B)
    BY DEF Passed
  <1>3. p[2] <= frame'[s] /\ (p[2] = frame'[s] => pc'[s] \notin B)
    <2> HIDE DEF s
    <2> QED
      BY <1>1, <1>2
  <1> QED
    BY <1>3 DEF Passed

\* A sender that passes them adds its sample.
LEMMA PassedGrows ==
    ASSUME Shape, Fit, NEW l \in Legs, NEW B, Passed(l, B) \subseteq Passed(l, B)',
           NEW s \in Senders, LegOf(s) = l, frame'[s] = frame[s], frame[s] > 0,
           pc[s] \in B, pc'[s] \notin B
    PROVE  Cardinality(Passed(l, B)) + 1 <= Cardinality(Passed(l, B)')
  <1>1. s = <<l, SourceOf(s)>> /\ SourceOf(s) \in 1 .. MaxSources
    BY LegsOfSenders DEF Senders, LegOf, SourceOf
  <1>2. FrameOf(s) \in Samples
    <2>1. frame[s] \in 1 .. MaxFrames
      BY DEF Fit, FitOf
    <2> QED
      BY <1>1, <2>1 DEF FrameOf, Samples
  <1>3. FrameOf(s) \notin Passed(l, B)
    BY <1>1 DEF Passed, FrameOf
  <1>4. FrameOf(s) \in Passed(l, B)'
    <2>1. frame[s] \in Nat
      BY DEF Shape, Places
    <2> QED
      BY <1>1, <1>2, <2>1 DEF Passed, FrameOf
  <1> DEFINE old == Passed(l, B)
             new == Passed(l, B)'
             f == FrameOf(s)
  <1>5. IsFiniteSet(old) /\ Cardinality(old) \in Nat
    BY PassedAreFew
  <1>6. IsFiniteSet(new)
    <2>1. new \in SUBSET Samples
      BY DEF Passed
    <2> QED
      BY <2>1, SamplesAreFew, FS_Subset
  <1>7. old \cup {f} \in SUBSET new /\ f \notin old
    BY <1>3, <1>4
  <1> HIDE DEF old, new, f
  <1>8. Cardinality(old \cup {f}) = Cardinality(old) + 1
    BY <1>5, <1>7, FS_AddElement
  <1>9. Cardinality(old \cup {f}) <= Cardinality(new)
    BY <1>6, <1>7, FS_Subset
  <1> QED
    BY <1>8, <1>9 DEF old, new

Unnumbered == {"enter", "epoch", "report", "number"}
Unstamped == Unnumbered \cup {"stamp"}
Uncoded == Unstamped \cup {"mark", "split", "encrypt"}

LEMMA PlacesDown ==
    ASSUME Shape, [Next]_vars, NEW s \in Senders, NEW B \in {Unnumbered, Unstamped, Uncoded}
    PROVE  \/ Begin(s) /\ frame'[s] = frame[s] + 1
           \/ frame'[s] = frame[s] /\ (pc'[s] \in B => pc[s] \in B)
  <1> USE DEF Unnumbered, Unstamped, Uncoded
  <1>1. CASE SetSource \/ TimerReport \/ Close \/ UNCHANGED vars
    BY <1>1 DEF SetSource, StopSenders, ResetFirst, ResetEpoch, StartSenders, TimerReport, Close, vars, senderVars
  <1>2. ASSUME NEW u \in Senders, SendStep(u), u # s PROVE frame'[s] = frame[s] /\ pc'[s] = pc[s]
    BY <1>2, OthersStay
  <1>3. CASE Begin(s)
    BY <1>3 DEF Begin, Shape, Places
  <1>4. ASSUME SendStep(s), ~Begin(s) PROVE frame'[s] = frame[s] /\ (pc'[s] \in B => pc[s] \in B)
    <2>1. frame'[s] = frame[s]
      BY <1>4, MakingStep
    <2>2. CASE Enter(s) \/ Epoch(s) \/ Report(s) \/ NumberAudio(s)
      BY <2>2 DEF Enter, Epoch, Report, NumberAudio, Goto, Shape, Places
    <2>3. CASE Stamp(s) \/ MarkAudio(s) \/ SplitVideo(s)
      BY <2>3 DEF Stamp, MarkAudio, SplitVideo, Goto, Shape, Places, Return
    <2>4. CASE EncryptAudio(s) \/ EncryptVideo(s) \/ Send(s)
      BY <2>4 DEF EncryptAudio, EncryptVideo, Send, Goto, Shape, Places, Return
    <2>5. CASE FailAudio(s) \/ FailSplit(s) \/ FailVideo(s)
      BY <2>5 DEF FailAudio, FailSplit, FailVideo, Goto, Shape, Places, Return
    <2> QED
      BY <1>4, <2>1, <2>2, <2>3, <2>4, <2>5 DEF SendStep
  <1> QED
    BY <1>1, <1>2, <1>3, <1>4 DEF Next

LEMMA PassedMore ==
    ASSUME Shape, [Next]_vars, NEW l \in Legs, NEW B \in {Unnumbered, Unstamped, Uncoded}
    PROVE  /\ Passed(l, B) \subseteq Passed(l, B)'
           /\ Cardinality(Passed(l, B)) <= Cardinality(Passed(l, B)')
           /\ Cardinality(Passed(l, B)) \in Nat /\ Cardinality(Passed(l, B)') \in Nat
           /\ Cardinality(Passed(l, B)') <= MaxSources * MaxFrames
  <1>1. Passed(l, B) \subseteq Passed(l, B)'
    <2>1. "enter" \in B
      BY DEF Unnumbered, Unstamped, Uncoded
    <2>2. \A s \in Senders : \/ Begin(s) /\ frame'[s] = frame[s] + 1
                             \/ frame'[s] = frame[s] /\ (pc'[s] \in B => pc[s] \in B)
      BY PlacesDown
    <2> QED
      BY <2>1, <2>2, PassedStays
  <1>2. Cardinality(Passed(l, B)) \in Nat
    BY PassedAreFew
  <1> DEFINE new == Passed(l, B)'
  <1>3. new \in SUBSET Samples
    BY DEF Passed
  <1> HIDE DEF new
  <1>4. IsFiniteSet(new) /\ Cardinality(new) <= Cardinality(Samples)
    BY <1>3, SamplesAreFew, FS_Subset
  <1>5. Cardinality(new) \in Nat /\ Cardinality(Samples) \in Nat /\ MaxSources * MaxFrames \in Nat
    BY <1>4, SamplesAreFew, FS_CardinalityType, MediaTrackAssumption
  <1>6. Passed(l, B) \in SUBSET new
    BY <1>1 DEF new
  <1>7. Cardinality(Passed(l, B)) <= Cardinality(new)
    BY <1>4, <1>6, FS_Subset
  <1> QED
    BY <1>2, <1>4, <1>5, <1>6, <1>7, SamplesAreFew DEF new

----------------------------------------------------------------------------
(* The video leg *)

\* Nothing else touches the numbers and packets of video.
LEMMA VideoAlone ==
    ASSUME Shape, [Next]_vars, ~\E s \in Senders : (EncryptVideo(s) /\ keyed) \/ FailVideo(s)
    PROVE  "video" \in Legs => seq'["video"] = seq["video"] /\ log'["video"] = log["video"]
  <1>1. CASE SetSource \/ TimerReport \/ Close \/ UNCHANGED vars
    BY <1>1 DEF SetSource, StopSenders, ResetFirst, ResetEpoch, StartSenders, TimerReport, Close, vars,
                trackVars, historyVars
  <1>2. ASSUME NEW s \in Senders, SendStep(s)
        PROVE  "video" \in Legs => seq'["video"] = seq["video"] /\ log'["video"] = log["video"]
    BY <1>2 DEF SendStep, Begin, Enter, Epoch, Report, NumberAudio, Stamp, MarkAudio, SplitVideo, Send,
                EncryptAudio, EncryptVideo, trackVars, historyVars, Shape, Counters, Logs, FailAudio, FailSplit, FailVideo, Return
  <1> QED
    BY <1>1, <1>2 DEF Next

\* The numbers of the video leg follow each other; a chunk that is not the last of its sample is
\* followed by the next, unless the sample is lost, and after the last it does not come back.
RowOf(v, x, i) ==
    /\ v[i].seq = NextSeq(FirstSeq, i - 1)
    /\ v[i].mark \in {0, 1}
    /\ v[i].mark = 0 /\ <<"video", v[i].frame>> \notin x =>
           i < Len(v) /\ v[i + 1].frame = v[i].frame /\ v[i + 1].ts = v[i].ts
    /\ v[i].mark = 1 => \A j \in i + 1 .. Len(v) : v[j].frame # v[i].frame

Row ==
    "video" \in Legs =>
        /\ seq["video"] = NextSeq(FirstSeq, Len(log["video"]))
        /\ \A i \in DOMAIN log["video"] : RowOf(log["video"], lost, i)

LEMMA RowInit ==
    ASSUME Init
    PROVE  Row
  <1>1. NextSeq(FirstSeq, 0) = FirstSeq
    BY MediaTrackAssumption DEF NextSeq
  <1>2. Len(<<>>) = 0 /\ DOMAIN <<>> = {}
    OBVIOUS
  <1>3. "video" \in Legs => log["video"] = <<>> /\ seq["video"] = FirstSeq
    BY DEF Init
  <1> QED
    BY <1>1, <1>2, <1>3 DEF Row

LEMMA RowStep ==
    ASSUME Shape, Videos, Fit, Own, Row, [Next]_vars
    PROVE  Row'
  <1>0. lost \subseteq lost'
    BY Outcome, OnlyEncryptLogs
  <1>1. CASE ~\E s \in Senders : (EncryptVideo(s) /\ keyed) \/ FailVideo(s)
    <2> SUFFICES ASSUME "video" \in Legs PROVE Row'
      BY DEF Row
    <2>1. seq'["video"] = seq["video"] /\ log'["video"] = log["video"]
      BY <1>1, VideoAlone
    <2>2. ASSUME NEW i \in DOMAIN log["video"] PROVE RowOf(log["video"], lost', i)
      BY <1>0 DEF Row, RowOf
    <2>3. \A i \in DOMAIN log["video"] : RowOf(log["video"], lost, i)'
      BY <2>1, <2>2 DEF RowOf
    <2>4. seq["video"] = NextSeq(FirstSeq, Len(log["video"]))
      BY DEF Row
    <2> QED
      BY <2>1, <2>3, <2>4 DEF Row
  <1>2. ASSUME NEW s \in Senders, (EncryptVideo(s) /\ keyed) \/ FailVideo(s) PROVE Row'
    <2>0. PICK n : Coding(s, n)
      BY <1>2, CodesSome
    <2>1. PICK v, w : v = log["video"] /\ w = log'["video"]
      OBVIOUS
    <2>12. PICK gone, away : gone = lost /\ away = lost'
      OBVIOUS
    <2>2. /\ "video" \in Legs /\ LegOf(s) = "video" /\ pc[s] = "encrypt"
          /\ n \in Nat \ {0} /\ Len(v) \in Nat /\ DOMAIN v = 1 .. Len(v)
          /\ Len(w) = Len(v) + n /\ DOMAIN w = 1 .. Len(v) + n
          /\ \A i \in 1 .. Len(v) : w[i] = v[i]
          /\ \A i \in Len(v) + 1 .. Len(v) + n : w[i] = Chunk(s, i - Len(v))
          /\ seq'["video"] = NextSeq(seq["video"], n)
      <3>1. /\ "video" \in Legs /\ LegOf(s) = "video" /\ pc[s] = "encrypt"
            /\ n \in Nat \ {0} /\ n <= MaxChunks /\ Len(v) \in Nat /\ DOMAIN v = 1 .. Len(v)
            /\ log'["video"] \in Seq(Entries)
            /\ Len(log'["video"]) = Len(v) + n /\ DOMAIN log'["video"] = 1 .. Len(v) + n
            /\ \A i \in 1 .. Len(v) : log'["video"][i] = v[i]
            /\ \A i \in Len(v) + 1 .. Len(v) + n : log'["video"][i] = Chunk(s, i - Len(v))
            /\ \A k \in Legs \ {"video"} : log'[k] = log[k]
            /\ seq'["video"] = NextSeq(seq["video"], n)
            /\ ts' = ts /\ frame' = frame
        BY <2>0, <2>1, VideoAppends
      <3> QED
        BY <2>1, <3>1
    <2>3. seq["video"] = NextSeq(FirstSeq, Len(v)) /\ \A i \in 1 .. Len(v) : RowOf(v, gone, i)
      BY <2>1, <2>12, <2>2 DEF Row
    <2>4. FirstSeq \in Int
      BY MediaTrackAssumption
    <2>5. seq'["video"] = NextSeq(FirstSeq, Len(w))
      BY <2>2, <2>3, <2>4, NextAdds
    <2>6. \A i \in 1 .. Len(v) : v[i].frame # FrameOf(s)
      <3>1. OwnOf(s) /\ Making(s)
        BY <2>2 DEF Own, Making
      <3> SUFFICES ASSUME NEW i \in 1 .. Len(v), v[i].frame = FrameOf(s) PROVE FALSE
        OBVIOUS
      <3>2. i \in DOMAIN log[LegOf(s)] /\ log[LegOf(s)][i].frame = FrameOf(s)
        BY <2>1, <2>2
      <3>3. FrameOf(s)[1] = SourceOf(s) /\ FrameOf(s)[2] = frame[s]
        BY DEF FrameOf
      <3> QED
        BY <3>1, <3>2, <3>3 DEF OwnOf
    <2>7. ASSUME NEW i \in 1 .. Len(v) PROVE RowOf(w, away, i)
      <3>1. w[i] = v[i] /\ RowOf(v, gone, i) /\ v[i].frame # FrameOf(s)
        BY <2>2, <2>3, <2>6
      <3>2. v[i].mark = 0 /\ <<"video", v[i].frame>> \notin away =>
                i < Len(w) /\ w[i + 1].frame = v[i].frame /\ w[i + 1].ts = v[i].ts
        <4>1. gone \subseteq away
          BY <1>0, <2>12
        <4> QED
          BY <2>2, <3>1, <4>1 DEF RowOf
      <3>3. ASSUME v[i].mark = 1, NEW j \in i + 1 .. Len(w) PROVE w[j].frame # v[i].frame
        <4>1. CASE j \in 1 .. Len(v)
          <5>1. j \in i + 1 .. Len(v)
            BY <2>2, <4>1
          <5> QED
            BY <2>2, <3>1, <3>3, <4>1, <5>1 DEF RowOf
        <4>2. CASE j \in Len(v) + 1 .. Len(v) + n
          <5>1. w[j] = Chunk(s, j - Len(v))
            BY <2>2, <4>2
          <5>2. w[j].frame = FrameOf(s)
            BY <5>1 DEF Chunk
          <5> QED
            BY <3>1, <5>2
        <4> QED
          BY <2>2, <4>1, <4>2
      <3> QED
        BY <3>1, <3>2, <3>3 DEF RowOf
    <2>8. ASSUME NEW i \in Len(v) + 1 .. Len(v) + n PROVE RowOf(w, away, i)
      <3>1. PICK k \in 1 .. n : k = i - Len(v) /\ i = Len(v) + k /\ i \in Nat /\ k \in Nat
        BY <2>2
      <3>2. w[i] = Chunk(s, k)
        BY <2>2, <3>1
      <3>3. w[i].seq = NextSeq(FirstSeq, i - 1)
        <4>0. Len(v) \in Nat
          BY <2>2
        <4>1. PICK d \in Int : d = k - 1 /\ Len(v) + d = i - 1
          BY <3>1, <4>0
        <4>2. NextSeq(seq["video"], d) = NextSeq(FirstSeq, Len(v) + d)
          BY <2>2, <2>3, <2>4, NextAdds
        <4> QED
          BY <3>2, <4>1, <4>2 DEF Chunk
      <3>4. w[i].mark = (IF k = hand[s].chunks THEN 1 ELSE 0) /\ w[i].frame = FrameOf(s)
        <4>1. hand[s].done = 0
          BY <2>2, VideoHand
        <4>2. Chunk(s, k).mark = IF hand[s].done + k = hand[s].chunks THEN 1 ELSE 0
          BY DEF Chunk
        <4>3. Chunk(s, k).frame = FrameOf(s)
          BY DEF Chunk
        <4> QED
          BY <3>1, <3>2, <4>1, <4>2, <4>3
      <3>5. n \in 1 .. hand[s].chunks /\ hand[s].chunks \in Nat
        BY <2>0, <2>2, VideoHand DEF Coding
      <3>6. ASSUME k # n
            PROVE  i < Len(w) /\ w[i + 1].frame = w[i].frame /\ w[i + 1].ts = w[i].ts
        <4>2. i < Len(w) /\ i + 1 \in Len(v) + 1 .. Len(v) + n
          BY <2>2, <3>1, <3>6
        <4>3. w[i + 1] = Chunk(s, (i + 1) - Len(v))
          BY <2>2, <4>2
        <4> QED
          BY <3>2, <4>2, <4>3 DEF Chunk
      <3>7. ASSUME k = n, w[i].mark = 0 PROVE <<"video", w[i].frame>> \in away
        <4>1. FailVideo(s)
          BY <2>0, <3>4, <3>7 DEF Coding
        <4> QED
          BY <2>12, <3>4, <4>1 DEF FailVideo
      <3>8. ASSUME w[i].mark = 1 PROVE i + 1 .. Len(w) = {}
        <4>1. k = n
          BY <3>1, <3>4, <3>5, <3>8
        <4> QED
          BY <2>2, <3>1, <4>1
      <3> QED
        BY <3>3, <3>4, <3>6, <3>7, <3>8 DEF RowOf
    <2>9. \A i \in DOMAIN w : RowOf(w, away, i)
      BY <2>2, <2>7, <2>8
    <2>10. \A i \in DOMAIN log'["video"] : RowOf(log["video"], lost, i)'
      BY <2>1, <2>12, <2>9 DEF RowOf
    <2>11. seq'["video"] = NextSeq(FirstSeq, Len(log'["video"]))
      BY <2>1, <2>5
    <2> QED
      BY <2>10, <2>11 DEF Row
  <1> QED
    BY <1>1, <1>2

\* A sender with a timestamp of its own in its hand.
Stamped(s) == LegOf(s) = "video" /\ pc[s] \in {"split", "encrypt"}

\* While the timestamps have not come round, each belongs to one sample: of those in the log and
\* in hands none is still to be taken, and no two samples have the same.
ClockOf(v, t) ==
    /\ t <= Cardinality(Passed("video", Unstamped))
    /\ \A s \in Senders : Stamped(s) =>
           /\ hand[s].ts < t
           /\ \A u \in Senders : Stamped(u) /\ hand[u].ts = hand[s].ts => u = s
           /\ \A i \in DOMAIN v : v[i].ts # hand[s].ts
    /\ \A i \in DOMAIN v : v[i].ts < t
    /\ \A i, j \in DOMAIN v : v[i].ts = v[j].ts => v[i].frame = v[j].frame

Clock == "video" \in Legs => ClockOf(log["video"], ts["video"])

\* A step that takes no timestamp and encrypts nothing.
LEMMA ClockStays ==
    ASSUME Shape, Clock, [Next]_vars, "video" \in Legs,
           log'["video"] = log["video"], ts'["video"] = ts["video"],
           \A s \in Senders : Stamped(s)' => Stamped(s) /\ hand'[s].ts = hand[s].ts
    PROVE  Clock'
  <1>1. ts'["video"] <= Cardinality(Passed("video", Unstamped)')
    <2>1. ts["video"] <= Cardinality(Passed("video", Unstamped)) /\ ts["video"] \in Nat
      BY DEF Clock, ClockOf, Shape, Counters
    <2> QED
      BY <2>1, PassedMore
  <1>2. ASSUME NEW s \in Senders, Stamped(s)'
        PROVE  /\ hand'[s].ts < ts["video"]
               /\ \A u \in Senders : Stamped(u)' /\ hand'[u].ts = hand'[s].ts => u = s
               /\ \A i \in DOMAIN log["video"] : log["video"][i].ts # hand'[s].ts
    BY <1>2 DEF Clock, ClockOf
  <1>3. \A i, j \in DOMAIN log["video"] : /\ log["video"][i].ts < ts["video"]
                                          /\ log["video"][i].ts = log["video"][j].ts =>
                                                 log["video"][i].frame = log["video"][j].frame
    BY DEF Clock, ClockOf
  <1>4. ClockOf(log["video"], ts["video"])'
    BY <1>1, <1>2, <1>3 DEF ClockOf
  <1> QED
    BY <1>4 DEF Clock

LEMMA ClockStep ==
    ASSUME Shape, Videos, Widths, Fit, Clock, [Next]_vars, MaxSources * MaxFrames < TsMod
    PROVE  Clock'
  <1> SUFFICES ASSUME "video" \in Legs PROVE Clock'
    BY DEF Clock
  <1>0. \A u \in Senders : hand[u] \in Packets
    BY DEF Shape, Hands
  <1>1. CASE SetSource \/ TimerReport \/ Close \/ UNCHANGED vars
    <2>1. UNCHANGED <<log, ts, pc, hand>>
      BY <1>1 DEF SetSource, StopSenders, ResetFirst, ResetEpoch, StartSenders, TimerReport, Close, vars,
                  trackVars, historyVars, senderVars
    <2> QED
      BY <2>1, ClockStays DEF Stamped
  <1>2. ASSUME NEW s \in Senders, SendStep(s), ~Stamp(s), ~(EncryptVideo(s) /\ keyed), ~FailVideo(s)
        PROVE  Clock'
    <2>1. log'["video"] = log["video"]
      BY <1>2 DEF SendStep, Begin, Enter, Epoch, Report, NumberAudio, MarkAudio, SplitVideo, Send,
                  EncryptAudio, EncryptVideo, historyVars, Shape, Logs, FailAudio, FailSplit, FailVideo, Return
    <2>2. ts' = ts
      BY <1>2 DEF SendStep, Begin, Enter, Epoch, Report, NumberAudio, MarkAudio, SplitVideo, Send,
                  EncryptAudio, EncryptVideo, trackVars, FailAudio, FailSplit, FailVideo, Return
    <2>3. Stamped(s)' => Stamped(s) /\ hand'[s].ts = hand[s].ts
      <3> USE DEF Stamped, Goto, Shape, Places, Hands, Packets
      <3>1. CASE Begin(s) \/ Enter(s) \/ Epoch(s) \/ Report(s) \/ NumberAudio(s)
        BY <3>1 DEF Begin, Enter, Epoch, Report, NumberAudio
      <3>2. CASE MarkAudio(s)
        BY <3>2 DEF MarkAudio
      <3>3. CASE SplitVideo(s)
        BY <3>3 DEF SplitVideo, Return
      <3>4. CASE EncryptAudio(s) \/ Send(s)
        BY <3>4 DEF EncryptAudio, Send, Return
      <3>5. CASE EncryptVideo(s) /\ ~keyed
        BY <3>5 DEF EncryptVideo, Return
      <3>6. CASE FailAudio(s) \/ FailSplit(s)
        BY <3>6 DEF FailAudio, FailSplit, Return
      <3> QED
        BY <1>2, <3>1, <3>2, <3>3, <3>4, <3>5, <3>6 DEF SendStep
    <2>4. \A u \in Senders : Stamped(u)' => Stamped(u) /\ hand'[u].ts = hand[u].ts
      BY <1>2, <2>3, OthersStay DEF Stamped
    <2> QED
      BY <2>1, <2>2, <2>4, ClockStays
  <1>3. ASSUME NEW s \in Senders, Stamp(s) PROVE Clock'
    <2>1. /\ log' = log /\ pc[s] = "stamp" /\ pc'[s] \in {"mark", "split"} /\ frame' = frame
          /\ \A u \in Senders \ {s} : pc'[u] = pc[u] /\ hand'[u] = hand[u]
      BY <1>3, OthersStay DEF Stamp, SendStep, Goto, historyVars, Shape, Places
    <2>2. CASE LegOf(s) # "video"
      <3>1. ts'["video"] = ts["video"]
        BY <1>3, <2>2 DEF Stamp, Shape, Counters
      <3>2. \A u \in Senders : Stamped(u)' => Stamped(u) /\ hand'[u].ts = hand[u].ts
        BY <2>1, <2>2 DEF Stamped
      <3> QED
        BY <2>1, <3>1, <3>2, ClockStays
    <2>3. CASE LegOf(s) = "video"
      <3>1. PICK t : t = ts["video"]
        OBVIOUS
      <3>2. t \in Nat /\ t <= Cardinality(Passed("video", Unstamped))
        BY <3>1 DEF Clock, ClockOf, Shape, Counters
      <3>3. Cardinality(Passed("video", Unstamped)) + 1 <= Cardinality(Passed("video", Unstamped)')
        <4>1. frame'[s] = frame[s] /\ frame[s] > 0
          BY <2>1 DEF Fit, FitOf, Making
        <4>2. pc[s] \in Unstamped /\ pc'[s] \notin Unstamped
          BY <2>1 DEF Unstamped, Unnumbered
        <4>3. Passed("video", Unstamped) \subseteq Passed("video", Unstamped)'
          BY PassedMore
        <4> QED
          BY <2>3, <4>1, <4>2, <4>3, PassedGrows
      <3>4. t + 1 <= Cardinality(Passed("video", Unstamped)') /\ t + 1 < TsMod
        <4>1. /\ Cardinality(Passed("video", Unstamped)) \in Nat /\ Cardinality(Passed("video", Unstamped)') \in Nat
              /\ Cardinality(Passed("video", Unstamped)') <= MaxSources * MaxFrames
          BY PassedMore
        <4>2. MaxSources * MaxFrames \in Nat /\ TsMod \in Nat
          BY MediaTrackAssumption
        <4> QED
          BY <3>2, <3>3, <4>1, <4>2
      <3>5. (t + 1) % TsMod = t + 1
        <4>1. PICK m \in Nat \ {0}, a \in Nat : m = TsMod /\ a = t + 1 /\ a < m
          BY <3>2, <3>4, MediaTrackAssumption
        <4>2. a % m = a
          BY <4>1
        <4> QED
          BY <4>1, <4>2
      <3>6. ts'["video"] = t + 1 /\ hand'[s].ts = t
        <4>1. ts' = [ts EXCEPT !["video"] = (t + 1) % TsMod] /\ hand' = [hand EXCEPT ![s].ts = t]
          BY <1>3, <2>3, <3>1 DEF Stamp
        <4>2. ts'["video"] = (t + 1) % TsMod
          BY <4>1 DEF Shape, Counters
        <4>3. hand'[s].ts = t
          BY <1>0, <4>1 DEF Shape, Hands, Packets
        <4> QED
          BY <3>5, <4>2, <4>3
      <3>7. \A u \in Senders \ {s} : /\ Stamped(u)' <=> Stamped(u)
                                     /\ hand'[u].ts = hand[u].ts /\ hand[u].ts \in Nat
        BY <1>0, <2>1 DEF Stamped, Packets
      <3>8. \A i \in DOMAIN log["video"] : log["video"][i].ts \in Nat
        BY LogTyped DEF Entries
      <3>9. ClockOf(log["video"], t)
        BY <3>1 DEF Clock
      <3>10. ASSUME NEW u \in Senders, Stamped(u)'
             PROVE  /\ hand'[u].ts < t + 1
                    /\ \A w \in Senders : Stamped(w)' /\ hand'[w].ts = hand'[u].ts => w = u
                    /\ \A i \in DOMAIN log["video"] : log["video"][i].ts # hand'[u].ts
        <4>1. CASE u = s
          BY <3>2, <3>6, <3>7, <3>8, <3>9, <4>1 DEF ClockOf
        <4>2. CASE u # s
          <5>1. Stamped(u) /\ hand'[u].ts = hand[u].ts /\ hand[u].ts \in Nat /\ hand[u].ts < t
            BY <3>7, <3>9, <3>10, <4>2 DEF ClockOf
          <5> QED
            BY <3>2, <3>6, <3>7, <3>9, <4>2, <5>1 DEF ClockOf
        <4> QED
          BY <4>1, <4>2
      <3>11. \A i, j \in DOMAIN log["video"] : /\ log["video"][i].ts < t + 1
                                               /\ log["video"][i].ts = log["video"][j].ts =>
                                                      log["video"][i].frame = log["video"][j].frame
        BY <3>2, <3>8, <3>9 DEF ClockOf
      <3>12. ClockOf(log["video"], ts["video"])'
        BY <2>1, <3>4, <3>6, <3>10, <3>11 DEF ClockOf
      <3> QED
        BY <3>12 DEF Clock
    <2> QED
      BY <2>2, <2>3
  <1>4. ASSUME NEW s \in Senders, (EncryptVideo(s) /\ keyed) \/ FailVideo(s) PROVE Clock'
    <2>0. PICK n : Coding(s, n)
      BY <1>4, CodesSome
    <2>1. PICK v, w : v = log["video"] /\ w = log'["video"]
      OBVIOUS
    <2>2. /\ LegOf(s) = "video" /\ pc[s] = "encrypt" /\ pc'[s] \in {"send", "done"} /\ ts' = ts
          /\ n \in Nat \ {0} /\ Len(v) \in Nat /\ DOMAIN v = 1 .. Len(v) /\ DOMAIN w = 1 .. Len(v) + n
          /\ \A i \in 1 .. Len(v) : w[i] = v[i]
          /\ \A i \in Len(v) + 1 .. Len(v) + n : w[i] = Chunk(s, i - Len(v))
      <3>0. pc'[s] \in {"send", "done"}
        BY <1>4, Outcome, SentChunks DEF Encrypt, Loses
      <3>1. /\ LegOf(s) = "video" /\ pc[s] = "encrypt" /\ ts' = ts
            /\ n \in Nat \ {0} /\ Len(v) \in Nat /\ DOMAIN v = 1 .. Len(v)
            /\ DOMAIN log'["video"] = 1 .. Len(v) + n
            /\ \A i \in 1 .. Len(v) : log'["video"][i] = v[i]
            /\ \A i \in Len(v) + 1 .. Len(v) + n : log'["video"][i] = Chunk(s, i - Len(v))
        <4>0. v = log["video"]
          BY <2>1
        <4>1. /\ "video" \in Legs /\ LegOf(s) = "video" /\ pc[s] = "encrypt"
              /\ n \in Nat \ {0} /\ n <= MaxChunks /\ Len(v) \in Nat /\ DOMAIN v = 1 .. Len(v)
              /\ log'["video"] \in Seq(Entries)
              /\ Len(log'["video"]) = Len(v) + n /\ DOMAIN log'["video"] = 1 .. Len(v) + n
              /\ \A i \in 1 .. Len(v) : log'["video"][i] = v[i]
              /\ \A i \in Len(v) + 1 .. Len(v) + n : log'["video"][i] = Chunk(s, i - Len(v))
              /\ \A k \in Legs \ {"video"} : log'[k] = log[k]
              /\ seq'["video"] = NextSeq(seq["video"], n)
              /\ ts' = ts /\ frame' = frame
          BY <2>0, <4>0, VideoAppends
        <4> QED
          BY <4>1
      <3> QED
        BY <2>1, <3>0, <3>1
    <2>3. \A u \in Senders \ {s} : /\ Stamped(u)' <=> Stamped(u)
                                   /\ hand'[u].ts = hand[u].ts
      BY <1>4, OthersStay DEF Stamped, SendStep
    <2>4. ~Stamped(s)' /\ Stamped(s)
      BY <2>2 DEF Stamped
    <2>5. ClockOf(v, ts["video"])
      BY <2>1 DEF Clock
    <2>6. \A i \in DOMAIN w \ DOMAIN v : w[i].ts = hand[s].ts /\ w[i].frame = FrameOf(s)
      <3> TAKE i \in DOMAIN w \ DOMAIN v
      <3>1. i \in Len(v) + 1 .. Len(v) + n
        BY <2>2
      <3>2. w[i] = Chunk(s, i - Len(v))
        BY <2>2, <3>1
      <3> QED
        BY <3>2 DEF Chunk
    <2>7. DOMAIN v \subseteq DOMAIN w /\ \A i \in DOMAIN v : w[i] = v[i]
      BY <2>2
    <2>8. ts["video"] <= Cardinality(Passed("video", Unstamped)')
      <3>1. ts["video"] <= Cardinality(Passed("video", Unstamped)) /\ ts["video"] \in Nat
        BY <2>5 DEF ClockOf, Shape, Counters
      <3> QED
        BY <3>1, PassedMore
    <2>9. \A i \in DOMAIN w : w[i].ts < ts["video"]
      BY <2>4, <2>5, <2>6, <2>7 DEF ClockOf
    <2>10. ASSUME NEW i \in DOMAIN w, NEW j \in DOMAIN w, w[i].ts = w[j].ts
           PROVE  w[i].frame = w[j].frame
      BY <2>4, <2>5, <2>6, <2>7, <2>10 DEF ClockOf
    <2>11. ASSUME NEW u \in Senders, Stamped(u)'
           PROVE  /\ hand'[u].ts < ts["video"]
                  /\ \A x \in Senders : Stamped(x)' /\ hand'[x].ts = hand'[u].ts => x = u
                  /\ \A i \in DOMAIN w : w[i].ts # hand'[u].ts
      BY <2>3, <2>4, <2>5, <2>6, <2>7, <2>11 DEF ClockOf
    <2>12. ClockOf(log["video"], ts["video"])'
      BY <2>1, <2>2, <2>8, <2>9, <2>10, <2>11 DEF ClockOf
    <2> QED
      BY <2>12 DEF Clock
  <1> QED
    BY <1>1, <1>2, <1>3, <1>4 DEF Next

\* The chunks of a video sample that is sent are all there, have consecutive numbers and a
\* timestamp of their own, and no straggler comes between them (the loop under srtp_context's
\* mutex), for any number of sources, samples and chunks between which the timestamps do not come round; the sequence
\* numbers may.
THEOREM VideoSamplesStayTogether ==
    ASSUME MaxSources * MaxFrames < TsMod
    PROVE  Spec => []FramesTogether
  <1> DEFINE Inv == Row /\ Clock
  <1>1. Init => Inv
    <2> SUFFICES ASSUME Init PROVE Inv
      OBVIOUS
    <2>1. "video" \in Legs => log["video"] = <<>> /\ seq["video"] = FirstSeq /\ ts["video"] = 0
      BY DEF Init
    <2>2. Row
      BY RowInit
    <2>3. Clock
      <3>1. 0 <= Cardinality(Passed("video", Unstamped))
        BY PassedAreFew
      <3>2. \A s \in Senders : ~Stamped(s)
        BY DEF Init, Stamped
      <3>3. DOMAIN <<>> = {}
        OBVIOUS
      <3>4. ClockOf(<<>>, 0)
        BY <3>1, <3>2, <3>3 DEF ClockOf
      <3> QED
        BY <2>1, <3>4 DEF Clock
    <2> QED
      BY <2>2, <2>3
  <1>2. IInv /\ Typed /\ Inv /\ [Next]_vars => Inv'
    BY RowStep, ClockStep DEF IInv, Typed
  <1>3. IInv /\ Typed /\ Inv => FramesTogether
    <2> SUFFICES ASSUME IInv, Typed, Inv, "video" \in Legs, NEW v, v = log["video"], NEW i \in 1 .. Len(v)
                 PROVE  /\ i < Len(v) => v[i + 1].seq = NextSeq(v[i].seq, 1)
                        /\ <<"video", v[i].frame>> \notin lost /\ v[i].mark = 0 =>
                               i < Len(v) /\ v[i + 1].frame = v[i].frame /\ v[i + 1].ts = v[i].ts
                        /\ v[i].mark = 1 =>
                               \A j \in i + 1 .. Len(v) : v[j].frame # v[i].frame /\ v[j].ts # v[i].ts
      BY DEF FramesTogether, Kept
    <2>1. Len(v) \in Nat /\ DOMAIN v = 1 .. Len(v)
      BY LogTyped DEF IInv, Typed
    <2>2. \A j \in 1 .. Len(v) : RowOf(v, lost, j)
      BY <2>1 DEF Row
    <2>3. i \in 1 .. Len(v)
      OBVIOUS
    <2>4. ASSUME i < Len(v) PROVE v[i + 1].seq = NextSeq(v[i].seq, 1)
      <3>0. i + 1 \in 1 .. Len(v)
        BY <2>1, <2>4
      <3>1. PICK d \in Int : d = i - 1 /\ d + 1 = i
        BY <2>3
      <3>2. v[i].seq = NextSeq(FirstSeq, d)
        BY <2>2, <2>3, <3>1 DEF RowOf
      <3>3. v[i + 1].seq = NextSeq(FirstSeq, (i + 1) - 1)
        BY <2>2, <3>0 DEF RowOf
      <3>4. (i + 1) - 1 = d + 1
        BY <2>3, <3>1
      <3>5. FirstSeq \in Int
        BY MediaTrackAssumption
      <3>6. NextSeq(NextSeq(FirstSeq, d), 1) = NextSeq(FirstSeq, d + 1)
        BY <3>1, <3>5, NextAdds
      <3> QED
        BY <3>2, <3>3, <3>4, <3>6
    <2>5. <<"video", v[i].frame>> \notin lost /\ v[i].mark = 0 =>
              i < Len(v) /\ v[i + 1].frame = v[i].frame /\ v[i + 1].ts = v[i].ts
      BY <2>2, <2>3 DEF RowOf
    <2>6. ASSUME v[i].mark = 1, NEW j \in i + 1 .. Len(v)
          PROVE  v[j].frame # v[i].frame /\ v[j].ts # v[i].ts
      <3>1. v[j].frame # v[i].frame
        BY <2>2, <2>3, <2>6 DEF RowOf
      <3>2. j \in 1 .. Len(v)
        BY <2>1, <2>3
      <3> QED
        BY <2>1, <2>3, <3>1, <3>2 DEF Clock, ClockOf
    <2> QED
      BY <2>4, <2>5, <2>6
  <1> QED
    BY <1>1, <1>2, <1>3, Invariance, TypedAlways, PTL DEF Spec

----------------------------------------------------------------------------
(* Numbers *)

\* How many numbers were taken when q is next, as long as they have not come round, and which.
HowMany(q) == (q + SeqMod - FirstSeq) % SeqMod

Taken(c) == {NextSeq(FirstSeq, k) : k \in 0 .. c - 1}

LEMMA Wrap ==
    ASSUME NEW M \in Nat \ {0}, NEW a \in 0 .. 2 * M - 1
    PROVE  a % M = IF a < M THEN a ELSE a - M
  OBVIOUS

\* The number that follows n others says so.
LEMMA CountOfNext ==
    ASSUME NEW n \in 0 .. SeqMod - 1
    PROVE  HowMany(NextSeq(FirstSeq, n)) = n
  <1>0. PICK M \in Nat \ {0} : M = SeqMod
    BY MediaTrackAssumption
  <1>1. PICK f \in 0 .. M - 1 : M = SeqMod /\ f = FirstSeq /\ n \in 0 .. M - 1
    BY <1>0, MediaTrackAssumption
  <1>2. PICK a \in 0 .. 2 * M - 1 : a = f + n
    BY <1>1
  <1>3. PICK q \in 0 .. M - 1 : q = a % M /\ q = IF a < M THEN a ELSE a - M
    BY <1>1, <1>2, Wrap
  <1>4. PICK b \in 0 .. 2 * M - 1 : b = q + M - f
    BY <1>1, <1>3
  <1>5. b % M = IF b < M THEN b ELSE b - M
    BY <1>1, <1>4, Wrap
  <1>6. b % M = n
    BY <1>1, <1>2, <1>3, <1>4, <1>5
  <1>7. NextSeq(FirstSeq, n) = q
    BY <1>1, <1>2, <1>3 DEF NextSeq
  <1> QED
    BY <1>1, <1>4, <1>6, <1>7 DEF HowMany

LEMMA NextOfCount ==
    ASSUME NEW q \in 0 .. SeqMod - 1
    PROVE  HowMany(q) \in 0 .. SeqMod - 1 /\ NextSeq(FirstSeq, HowMany(q)) = q
  <1>0. PICK M \in Nat \ {0} : M = SeqMod
    BY MediaTrackAssumption
  <1>1. PICK f \in 0 .. M - 1 : M = SeqMod /\ f = FirstSeq /\ q \in 0 .. M - 1
    BY <1>0, MediaTrackAssumption
  <1>2. PICK b \in 0 .. 2 * M - 1 : b = q + M - f
    BY <1>1
  <1>3. PICK n \in 0 .. M - 1 : n = b % M /\ n = IF b < M THEN b ELSE b - M
    <2>1. b % M = IF b < M THEN b ELSE b - M
      BY Wrap
    <2>2. (IF b < M THEN b ELSE b - M) \in 0 .. M - 1
      BY <1>1, <1>2
    <2> QED
      BY <2>1, <2>2
  <1>4. PICK a \in 0 .. 2 * M - 1 : a = f + n
    <2>1. f + n \in 0 .. 2 * M - 1
      BY <1>1, <1>3
    <2> QED
      BY <2>1
  <1>5. a % M = IF a < M THEN a ELSE a - M
    BY <1>1, <1>4, Wrap
  <1>6. a % M = q
    BY <1>1, <1>2, <1>3, <1>4, <1>5
  <1>7. HowMany(q) = n
    BY <1>1, <1>2, <1>3 DEF HowMany
  <1>8. NextSeq(FirstSeq, n) = a % M
    BY <1>1, <1>4 DEF NextSeq
  <1> QED
    BY <1>1, <1>3, <1>6, <1>7, <1>8

LEMMA NextIsInjective ==
    ASSUME NEW m \in 0 .. SeqMod - 1, NEW n \in 0 .. SeqMod - 1, NextSeq(FirstSeq, m) = NextSeq(FirstSeq, n)
    PROVE  m = n
  BY CountOfNext

\* One more number.
LEMMA TakenGrows ==
    ASSUME NEW q \in 0 .. SeqMod - 1, HowMany(q) + 1 < SeqMod
    PROVE  /\ HowMany(NextSeq(q, 1)) = HowMany(q) + 1
           /\ Taken(HowMany(q) + 1) = Taken(HowMany(q)) \cup {q}
           /\ q \notin Taken(HowMany(q))
  <1>1. PICK c \in 0 .. SeqMod - 1 : c = HowMany(q) /\ NextSeq(FirstSeq, c) = q
    BY NextOfCount
  <1>2. c + 1 \in 0 .. SeqMod - 1 /\ FirstSeq \in Int /\ SeqMod \in Nat /\ c \in Nat
    BY <1>1, MediaTrackAssumption
  <1>3. NextSeq(q, 1) = NextSeq(FirstSeq, c + 1)
    BY <1>1, <1>2, NextAdds
  <1>4. HowMany(NextSeq(q, 1)) = c + 1
    <2>1. PICK d \in 0 .. SeqMod - 1 : d = c + 1
      BY <1>2
    <2> QED
      BY <1>3, <2>1, CountOfNext
  <1>5. Taken(c + 1) = Taken(c) \cup {q}
    <2>1. 0 .. (c + 1) - 1 = (0 .. c - 1) \cup {c}
      BY <1>2
    <2> QED
      BY <1>1, <2>1 DEF Taken
  <1>6. q \notin Taken(c)
    <2> SUFFICES ASSUME NEW k \in 0 .. c - 1, NextSeq(FirstSeq, k) = q PROVE FALSE
      BY DEF Taken
    <2>1. k \in 0 .. SeqMod - 1 /\ k # c
      BY <1>2
    <2> QED
      BY <1>1, <2>1, NextIsInjective
  <1> QED
    BY <1>1, <1>4, <1>5, <1>6

Used(l) == {log[l][i].seq : i \in DOMAIN log[l]}

Held == {hand[s].seq : s \in {u \in Senders : Numbered(u)}}

HeldOf(l) == {hand[s].seq : s \in {u \in Senders : LegOf(u) = l /\ Numbered(u)}}

\* Each number of a leg is used or held, and no number is there twice.
NumbersOf(l) ==
    /\ Used(l) \cap HeldOf(l) = {}
    /\ Cardinality(Used(l)) = Len(log[l])
    /\ Used(l) \cup HeldOf(l) = Taken(HowMany(seq[l]))

LEMMA DistinctNumbers ==
    ASSUME Shape, Videos, NEW l \in Legs,
           \A i, j \in DOMAIN log[l] : log[l][i].seq = log[l][j].seq => i = j
    PROVE  Cardinality(Used(l)) = Len(log[l])
  <1> DEFINE n == Len(log[l])
             f == [i \in 1 .. n |-> log[l][i].seq]
  <1>1. n \in Nat /\ DOMAIN log[l] = 1 .. n
    BY LogTyped
  <1>2. Used(l) = {f[i] : i \in 1 .. n}
    BY <1>1 DEF Used
  <1>3. \A i, j \in 1 .. n : f[i] = f[j] => i = j
    BY <1>1
  <1>4. f \in [1 .. n -> Used(l)] /\ DOMAIN f = 1 .. n
    BY <1>1 DEF Used
  <1> HIDE DEF n, f
  <1>5. f \in Bijection(1 .. n, Used(l))
    BY <1>2, <1>3, <1>4 DEF Bijection, Injection, Surjection, IsInjective
  <1>6. ExistsBijection(1 .. n, Used(l))
    BY <1>5 DEF ExistsBijection
  <1> QED
    BY <1>1, <1>6, FS_CountingElements DEF n

\* The numbers of the audio leg: those in the log and in hands are all that were taken, each once.
Audio ==
    "audio" \in Legs /\ ~closed =>
        /\ HowMany(seq["audio"]) <= Cardinality(Passed("audio", Unnumbered))
        /\ Used("audio") \cup Held = Taken(HowMany(seq["audio"]))
        /\ Used("audio") \cap Held = {}
        /\ \A i, j \in DOMAIN log["audio"] : log["audio"][i].seq = log["audio"][j].seq => i = j
        /\ \A s, u \in Senders : Numbered(s) /\ Numbered(u) /\ hand[s].seq = hand[u].seq => s = u

LEMMA AudioStays ==
    ASSUME Shape, Widths, Audio, [Next]_vars, ~closed' => ~closed,
           "audio" \in Legs => log'["audio"] = log["audio"] /\ seq'["audio"] = seq["audio"],
           \A s \in Senders : /\ Numbered(s)' <=> Numbered(s)
                              /\ Numbered(s) => hand'[s].seq = hand[s].seq
    PROVE  Audio'
  <1> SUFFICES ASSUME "audio" \in Legs, ~closed' PROVE Audio'
    BY DEF Audio
  <1>1. Held' = Held
    BY DEF Held
  <1>2. Used("audio")' = Used("audio")
    BY DEF Used
  <1>3. HowMany(seq'["audio"]) \in Nat /\ HowMany(seq'["audio"]) <= Cardinality(Passed("audio", Unnumbered))
    <2>1. seq["audio"] \in 0 .. SeqMod - 1
      BY DEF Widths
    <2> QED
      BY <2>1, NextOfCount DEF Audio
  <1>4. HowMany(seq'["audio"]) <= Cardinality(Passed("audio", Unnumbered)')
    BY <1>3, PassedMore
  <1> QED
    BY <1>1, <1>2, <1>4 DEF Audio

LEMMA AudioNumbers ==
    ASSUME Shape, Widths, Fit, Audio, [Next]_vars, MaxSources * MaxFrames < SeqMod,
           NEW s \in Senders, NumberAudio(s)
    PROVE  Audio'
  <1> SUFFICES ASSUME "audio" \in Legs, ~closed' PROVE Audio'
    BY DEF Audio
  <1>1. PICK q \in 0 .. SeqMod - 1 : q = seq["audio"]
    BY DEF Widths
  <1>2. /\ log' = log /\ ~closed /\ pc[s] = "number" /\ pc'[s] = "stamp" /\ LegOf(s) = "audio"
        /\ seq'["audio"] = NextSeq(q, 1) /\ hand'[s].seq = q /\ frame' = frame
        /\ \A u \in Senders \ {s} : pc'[u] = pc[u] /\ hand'[u] = hand[u]
    <2>1. hand'[s].seq = q
      BY <1>1 DEF NumberAudio, Shape, Hands, Packets
    <2>2. seq'["audio"] = NextSeq(q, 1)
      BY <1>1 DEF NumberAudio, Shape, Counters
    <2>3. log' = log /\ ~closed /\ pc[s] = "number" /\ pc'[s] = "stamp" /\ LegOf(s) = "audio" /\ frame' = frame
      BY DEF NumberAudio, Goto, historyVars, transportVars, Shape, Places
    <2> QED
      BY <2>1, <2>2, <2>3, OthersStay DEF SendStep
  <1>3. HowMany(q) + 1 <= Cardinality(Passed("audio", Unnumbered)') /\ HowMany(q) + 1 < SeqMod
    <2>1. frame'[s] = frame[s] /\ frame[s] > 0 /\ pc[s] \in Unnumbered /\ pc'[s] \notin Unnumbered
      BY <1>2 DEF Fit, FitOf, Making, Unnumbered
    <2>2. /\ Passed("audio", Unnumbered) \subseteq Passed("audio", Unnumbered)'
          /\ Cardinality(Passed("audio", Unnumbered)) \in Nat /\ Cardinality(Passed("audio", Unnumbered)') \in Nat
          /\ Cardinality(Passed("audio", Unnumbered)') <= MaxSources * MaxFrames
      BY PassedMore
    <2>3. Cardinality(Passed("audio", Unnumbered)) + 1 <= Cardinality(Passed("audio", Unnumbered)')
      BY <1>2, <2>1, <2>2, PassedGrows
    <2>4. HowMany(q) \in 0 .. SeqMod - 1 /\ HowMany(q) <= Cardinality(Passed("audio", Unnumbered))
      BY <1>1, <1>2, NextOfCount DEF Audio
    <2>5. MaxSources * MaxFrames \in Nat /\ SeqMod \in Nat
      BY MediaTrackAssumption
    <2> QED
      BY <2>2, <2>3, <2>4, <2>5
  <1>4. /\ HowMany(seq'["audio"]) = HowMany(q) + 1
        /\ Taken(HowMany(seq'["audio"])) = Taken(HowMany(q)) \cup {q}
        /\ q \notin Taken(HowMany(q))
    BY <1>2, <1>3, TakenGrows
  <1>5. /\ Used("audio") \cup Held = Taken(HowMany(q)) /\ Used("audio") \cap Held = {}
        /\ \A i, j \in DOMAIN log["audio"] : log["audio"][i].seq = log["audio"][j].seq => i = j
        /\ \A v, u \in Senders : Numbered(v) /\ Numbered(u) /\ hand[v].seq = hand[u].seq => v = u
    BY <1>1, <1>2 DEF Audio
  <1>6. ~Numbered(s) /\ Numbered(s)' /\ \A u \in Senders \ {s} : Numbered(u)' <=> Numbered(u)
    BY <1>2 DEF Numbered
  <1>7. Held' = Held \cup {q}
    BY <1>2, <1>6 DEF Held
  <1>8. Used("audio")' = Used("audio")
    BY <1>2 DEF Used
  <1>9. q \notin Used("audio") /\ q \notin Held
    BY <1>4, <1>5
  <1>10. ASSUME NEW v \in Senders, NEW u \in Senders, Numbered(v)', Numbered(u)', hand'[v].seq = hand'[u].seq
         PROVE  v = u
    <2>1. \A w \in Senders \ {s} : Numbered(w) => hand[w].seq # q
      BY <1>9 DEF Held
    <2> QED
      BY <1>2, <1>5, <1>6, <1>10, <2>1
  <1>11. Used("audio")' \cup Held' = Taken(HowMany(seq'["audio"])) /\ Used("audio")' \cap Held' = {}
    BY <1>4, <1>5, <1>7, <1>8, <1>9
  <1> QED
    BY <1>2, <1>3, <1>4, <1>5, <1>10, <1>11 DEF Audio

LEMMA AudioEncrypts ==
    ASSUME Shape, Widths, Epochs, Audio, [Next]_vars, NEW s \in Senders, EncryptAudio(s) \/ FailAudio(s)
    PROVE  Audio'
  <1> SUFFICES ASSUME "audio" \in Legs, ~closed' PROVE Audio'
    BY DEF Audio
  <1>1. /\ keyed /\ ~closed /\ LegOf(s) = "audio" /\ seq' = seq /\ pc[s] = "encrypt"
        /\ pc'[s] \in {"send", "done"}
        /\ \A u \in Senders \ {s} : pc'[u] = pc[u] /\ hand'[u] = hand[u]
    <2>1. keyed /\ ~closed /\ seq' = seq
      BY DEF EncryptAudio, FailAudio, transportVars, trackVars, Epochs
    <2> QED
      BY <2>1, OthersStay DEF EncryptAudio, FailAudio, Goto, Return, SendStep, Shape, Places
  <1>2. PICK a, b, q : a = log["audio"] /\ b = log'["audio"] /\ q = hand[s].seq
    OBVIOUS
  <1>3. /\ a \in Seq(Entries) /\ DOMAIN a = 1 .. Len(a) /\ Len(a) \in Nat
        /\ DOMAIN b = 1 .. Len(a) + 1 /\ b[Len(a) + 1].seq = q
        /\ \A i \in 1 .. Len(a) : b[i] = a[i]
    <2>1. log' = [log EXCEPT !["audio"] = Append(@, Entry(s))]
      BY <1>1 DEF EncryptAudio, FailAudio
    <2>2. b = Append(a, Entry(s)) /\ a \in Seq(Entries)
      BY <1>2, <2>1 DEF Shape, Logs
    <2>3. PICK e : e = Entry(s)
      OBVIOUS
    <2>4. e.seq = q
      BY <1>2, <2>3 DEF Entry
    <2> QED
      BY <2>2, <2>3, <2>4
  <1>4. /\ Used("audio") \cup Held = Taken(HowMany(seq["audio"])) /\ Used("audio") \cap Held = {}
        /\ \A i, j \in DOMAIN a : a[i].seq = a[j].seq => i = j
        /\ \A v, u \in Senders : Numbered(v) /\ Numbered(u) /\ hand[v].seq = hand[u].seq => v = u
    BY <1>1, <1>2 DEF Audio
  <1>5. Numbered(s) /\ ~Numbered(s)' /\ \A u \in Senders \ {s} : Numbered(u)' <=> Numbered(u)
    BY <1>1 DEF Numbered
  <1>6. Held' = Held \ {q}
    BY <1>1, <1>2, <1>4, <1>5 DEF Held
  <1>7. q \in Held /\ q \notin Used("audio")
    BY <1>2, <1>4, <1>5 DEF Held
  <1>8. Used("audio")' = Used("audio") \cup {q}
    <2>1. Used("audio")' = {b[i].seq : i \in DOMAIN b}
      BY <1>2 DEF Used
    <2>2. Used("audio") = {a[i].seq : i \in DOMAIN a}
      BY <1>2 DEF Used
    <2>3. DOMAIN b = DOMAIN a \cup {Len(a) + 1}
      BY <1>3
    <2> QED
      BY <1>3, <2>1, <2>2, <2>3
  <1>9. ASSUME NEW i \in DOMAIN b, NEW j \in DOMAIN b, b[i].seq = b[j].seq PROVE i = j
    <2>1. \A k \in DOMAIN a : a[k].seq # q
      BY <1>2, <1>7 DEF Used
    <2>2. \A k \in DOMAIN b : (k \in DOMAIN a /\ b[k] = a[k]) \/ (k = Len(a) + 1 /\ b[k].seq = q)
      BY <1>3
    <2> QED
      BY <1>4, <1>9, <2>1, <2>2
  <1>10. ASSUME NEW v \in Senders, NEW u \in Senders, Numbered(v)', Numbered(u)', hand'[v].seq = hand'[u].seq
         PROVE  v = u
    BY <1>1, <1>4, <1>5, <1>10
  <1>11. HowMany(seq'["audio"]) <= Cardinality(Passed("audio", Unnumbered)')
    <2>1. seq["audio"] \in 0 .. SeqMod - 1
      BY DEF Widths
    <2>2. HowMany(seq["audio"]) \in Nat /\ HowMany(seq["audio"]) <= Cardinality(Passed("audio", Unnumbered))
      BY <1>1, <2>1, NextOfCount DEF Audio
    <2> QED
      BY <1>1, <2>2, PassedMore
  <1>12. Used("audio")' \cup Held' = Taken(HowMany(seq'["audio"])) /\ Used("audio")' \cap Held' = {}
    BY <1>1, <1>4, <1>6, <1>7, <1>8
  <1> QED
    BY <1>2, <1>9, <1>10, <1>11, <1>12 DEF Audio

LEMMA AudioNumbersStep ==
    ASSUME Shape, Widths, Fit, Epochs, Audio, [Next]_vars, MaxSources * MaxFrames < SeqMod
    PROVE  Audio'
  <1>1. CASE SetSource \/ TimerReport \/ Close \/ UNCHANGED vars
    <2>1. UNCHANGED <<log, seq, pc, hand>> /\ (~closed' => ~closed)
      BY <1>1 DEF SetSource, StopSenders, ResetFirst, ResetEpoch, StartSenders, TimerReport, Close, vars,
                  trackVars, historyVars, senderVars, transportVars
    <2> QED
      BY <2>1, AudioStays DEF Numbered
  <1>2. ASSUME NEW s \in Senders, SendStep(s), ~NumberAudio(s), ~EncryptAudio(s), ~FailAudio(s)
        PROVE  Audio'
    <2>1. closed' = closed
      BY <1>2 DEF SendStep, Begin, Enter, Epoch, Report, Stamp, MarkAudio, SplitVideo, Send,
                  EncryptVideo, transportVars, FailAudio, FailSplit, FailVideo, Return
    <2>2. "audio" \in Legs => log'["audio"] = log["audio"] /\ seq'["audio"] = seq["audio"]
      BY <1>2 DEF SendStep, Begin, Enter, Epoch, Report, Stamp, MarkAudio, SplitVideo, Send,
                  EncryptVideo, trackVars, historyVars, Shape, Counters, Logs, FailSplit, FailVideo, NumberVideo
    <2>3. /\ Numbered(s)' <=> Numbered(s)
          /\ Numbered(s) => hand'[s].seq = hand[s].seq
      <3> USE DEF Numbered, Goto, Shape, Places, Hands, Packets
      <3>1. CASE Begin(s) \/ Enter(s) \/ Epoch(s) \/ Report(s)
        BY <3>1 DEF Begin, Enter, Epoch, Report
      <3>2. CASE Stamp(s)
        BY <3>2 DEF Stamp
      <3>3. CASE MarkAudio(s)
        BY <3>3 DEF MarkAudio
      <3>4. CASE Send(s)
        BY <3>4 DEF Send, Return
      <3>5. CASE SplitVideo(s)
        <4>1. LegOf(s) = "video"
          BY <3>5 DEF SplitVideo, Fit, FitOf, Return
        <4> QED
          BY <4>1
      <3>6. CASE EncryptVideo(s)
        BY <3>6 DEF EncryptVideo, Return
      <3>7. CASE FailSplit(s) \/ FailVideo(s)
        <4>1. LegOf(s) = "video"
          BY <3>7 DEF FailSplit, FailVideo, Fit, FitOf
        <4> QED
          BY <4>1
      <3> QED
        BY <1>2, <3>1, <3>2, <3>3, <3>4, <3>5, <3>6, <3>7 DEF SendStep
    <2>4. \A u \in Senders : /\ Numbered(u)' <=> Numbered(u)
                             /\ Numbered(u) => hand'[u].seq = hand[u].seq
      BY <1>2, <2>3, OthersStay DEF Numbered
    <2> QED
      BY <2>1, <2>2, <2>4, AudioStays
  <1> QED
    BY <1>1, <1>2, AudioNumbers, AudioEncrypts DEF Next

\* How long the video leg's log can be.
VideoLength ==
    "video" \in Legs => Len(log["video"]) <= MaxChunks * Cardinality(Passed("video", Uncoded))

LEMMA VideoLengthStep ==
    ASSUME Shape, Videos, Widths, Fit, VideoLength, [Next]_vars
    PROVE  VideoLength'
  <1> SUFFICES ASSUME "video" \in Legs PROVE VideoLength'
    BY DEF VideoLength
  <1>1. PICK c, d \in Nat : c = Cardinality(Passed("video", Uncoded)) /\ d = Cardinality(Passed("video", Uncoded)')
    BY PassedMore
  <1>2. c <= d /\ Len(log["video"]) \in Nat /\ Len(log["video"]) <= MaxChunks * c
    BY <1>1, PassedMore, LogTyped DEF VideoLength
  <1>3. MaxChunks \in Nat
    BY MediaTrackAssumption
  <1>4. CASE ~\E s \in Senders : (EncryptVideo(s) /\ keyed) \/ FailVideo(s)
    <2>1. MaxChunks * c <= MaxChunks * d /\ MaxChunks * c \in Nat /\ MaxChunks * d \in Nat
      BY <1>1, <1>2, <1>3
    <2>2. Len(log'["video"]) <= MaxChunks * d
      BY <1>2, <1>4, <2>1, VideoAlone
    <2> QED
      BY <1>1, <2>2 DEF VideoLength
  <1>5. ASSUME NEW s \in Senders, (EncryptVideo(s) /\ keyed) \/ FailVideo(s) PROVE VideoLength'
    <2>0. PICK n : Coding(s, n)
      BY <1>5, CodesSome
    <2>1. PICK v : v = log["video"]
      OBVIOUS
    <2>2. LegOf(s) = "video" /\ pc[s] = "encrypt" /\ n \in Nat \ {0} /\ frame' = frame
          /\ Len(log'["video"]) = Len(v) + n /\ n <= MaxChunks
      BY <2>0, <2>1, VideoAppends
    <2>3. pc'[s] \in {"send", "done"}
      BY <1>5, Outcome, SentChunks DEF Encrypt, Loses
    <2>4. c + 1 <= d
      <3>1. frame'[s] = frame[s] /\ frame[s] > 0
        BY <2>2 DEF Fit, FitOf, Making
      <3>2. pc[s] \in Uncoded /\ pc'[s] \notin Uncoded
        BY <2>2, <2>3 DEF Uncoded, Unstamped, Unnumbered
      <3>3. Passed("video", Uncoded) \subseteq Passed("video", Uncoded)'
        BY PassedMore
      <3>4. Cardinality(Passed("video", Uncoded)) + 1 <= Cardinality(Passed("video", Uncoded)')
        BY <2>2, <3>1, <3>2, <3>3, PassedGrows
      <3> QED
        BY <1>1, <3>4
    <2>5. MaxChunks * c + MaxChunks <= MaxChunks * d /\ MaxChunks * c \in Nat /\ MaxChunks * d \in Nat
      <3>1. PICK e \in Nat : d = c + 1 + e
        <4>1. d - (c + 1) \in Nat /\ d = c + 1 + (d - (c + 1))
          BY <1>1, <2>4
        <4> QED
          BY <4>1
      <3>2. MaxChunks * d = MaxChunks * c + MaxChunks + MaxChunks * e /\ MaxChunks * e \in Nat
        BY <1>1, <1>3, <3>1
      <3> QED
        BY <1>1, <1>3, <3>2
    <2>6. Len(log'["video"]) <= MaxChunks * d
      <3>1. PICK x, y, z \in Nat : x = MaxChunks * c /\ y = MaxChunks * d /\ z = Len(v)
        BY <1>2, <2>1, <2>5
      <3>2. z <= x /\ x + MaxChunks <= y
        BY <1>2, <2>1, <2>5, <3>1
      <3> QED
        BY <1>3, <2>2, <3>1, <3>2
    <2> QED
      BY <1>1, <2>6 DEF VideoLength
  <1> QED
    BY <1>4, <1>5

\* On an open transport no sequence number is used twice, and each is on a packet, in a hand, or
\* lost with the last sample of a pacing task that an error ended, whatever straggler and successor
\* do to audio_seq (fetch_add) and wherever a send returns early, as long as the numbers do not come
\* round: a used one is unique among fewer than 2^16 packets.
THEOREM NumbersAreUsedOnce ==
    ASSUME MaxSources * MaxFrames * MaxChunks < SeqMod
    PROVE  Spec => []EveryNumberOnce
  <1> DEFINE Inv == Row /\ Audio /\ VideoLength
  <1>0. MaxSources * MaxFrames < SeqMod
    <2>1. PICK m \in Nat : m = MaxSources * MaxFrames
      BY MediaTrackAssumption
    <2>2. MaxChunks \in Nat \ {0} /\ m * MaxChunks < SeqMod /\ SeqMod \in Nat
      BY <2>1, MediaTrackAssumption
    <2>3. m <= m * MaxChunks
      BY <2>2
    <2>4. m * MaxChunks \in Nat
      BY <2>2
    <2> QED
      BY <2>1, <2>2, <2>3, <2>4
  <1>1. Init => Inv
    <2> SUFFICES ASSUME Init PROVE Inv
      OBVIOUS
    <2>1. \A l \in Legs : log[l] = <<>> /\ seq[l] = FirstSeq
      BY DEF Init
    <2>2. Row
      BY RowInit
    <2>3. Audio
      <3> SUFFICES ASSUME "audio" \in Legs PROVE Audio
        BY DEF Audio
      <3>1. HowMany(FirstSeq) = 0
        <4>1. NextSeq(FirstSeq, 0) = FirstSeq
          BY MediaTrackAssumption DEF NextSeq
        <4>2. SeqMod \in Nat \ {0}
          BY MediaTrackAssumption
        <4>3. 0 \in 0 .. SeqMod - 1
          BY <4>2
        <4> QED
          BY <4>1, <4>3, CountOfNext
      <3>2. Held = {} /\ \A s \in Senders : ~Numbered(s)
        BY DEF Init, Held, Numbered
      <3>3. Used("audio") = {} /\ DOMAIN log["audio"] = {}
        BY <2>1 DEF Used
      <3>4. Taken(0) = {}
        BY DEF Taken
      <3>5. 0 <= Cardinality(Passed("audio", Unnumbered))
        BY PassedAreFew
      <3> QED
        BY <2>1, <3>1, <3>2, <3>3, <3>4, <3>5 DEF Audio
    <2>4. VideoLength
      <3>1. PICK c \in Nat : c = Cardinality(Passed("video", Uncoded))
        BY PassedAreFew
      <3>2. Len(<<>>) = 0 /\ 0 <= MaxChunks * c
        BY MediaTrackAssumption
      <3> QED
        BY <2>1, <3>1, <3>2 DEF VideoLength
    <2> QED
      BY <2>2, <2>3, <2>4
  <1>2. IInv /\ Typed /\ Inv /\ [Next]_vars => Inv'
    BY <1>0, RowStep, AudioNumbersStep, VideoLengthStep DEF IInv, Typed
  <1>3. IInv /\ Typed /\ Inv => EveryNumberOnce
    <2> SUFFICES ASSUME IInv, Typed, Inv, ~closed, NEW l \in Legs
                 PROVE  NumbersOf(l)
      BY DEF EveryNumberOnce, LostLast, Typed, NumbersOf, Used, HeldOf, Taken, HowMany
    <2>3. PICK used, held : used = Used(l) /\ held = HeldOf(l)
      OBVIOUS
    <2>4. SUFFICES /\ used \cap held = {}
                   /\ Cardinality(used) = Len(log[l])
                   /\ used \cup held = Taken(HowMany(seq[l]))
      BY <2>3 DEF NumbersOf
    <2>0. Shape /\ Videos /\ Widths
      BY DEF IInv, Typed
    <2>1. CASE l = "audio"
      <3>1. held = Held
        BY <2>1, <2>3 DEF Held, HeldOf, Numbered
      <3>2. Cardinality(used) = Len(log[l])
        BY <2>0, <2>1, <2>3, DistinctNumbers DEF Audio
      <3> QED
        BY <2>1, <2>3, <3>1, <3>2 DEF Audio
    <2>2. CASE l = "video"
      <3>1. held = {}
        BY <2>2, <2>3 DEF HeldOf, Numbered
      <3>2. PICK v, n : v = log[l] /\ n = Len(log[l])
        OBVIOUS
      <3>3. n \in Nat /\ DOMAIN v = 1 .. n
        BY <2>0, <3>2, LogTyped
      <3>4. n \in 0 .. SeqMod - 1
        <4>1. PICK c \in Nat : c = Cardinality(Passed("video", Uncoded)) /\ c <= MaxSources * MaxFrames
          BY PassedAreFew
        <4>2. n <= MaxChunks * c
          BY <2>2, <3>2, <4>1 DEF VideoLength
        <4>3. PICK m \in Nat : m = MaxSources * MaxFrames /\ c <= m
          BY <4>1, MediaTrackAssumption
        <4>4. MaxChunks \in Nat /\ SeqMod \in Nat /\ m * MaxChunks < SeqMod
          BY <4>3, MediaTrackAssumption
        <4>5. MaxChunks * c <= m * MaxChunks
          BY <4>3, <4>4
        <4>6. PICK x, y \in Nat : x = MaxChunks * c /\ y = m * MaxChunks
          BY <4>3, <4>4
        <4> QED
          BY <3>3, <4>2, <4>4, <4>5, <4>6
      <3>5. \A i \in 1 .. n : v[i].seq = NextSeq(FirstSeq, i - 1)
        BY <2>2, <3>2, <3>3 DEF Row, RowOf
      <3>6. HowMany(seq[l]) = n
        BY <2>2, <3>2, <3>4, CountOfNext DEF Row
      <3>7. used = Taken(n)
        <4>1. used = {v[i].seq : i \in 1 .. n}
          BY <2>3, <3>2, <3>3 DEF Used
        <4>2. \A i \in 1 .. n : v[i].seq \in Taken(n)
          <5> TAKE i \in 1 .. n
          <5>1. i - 1 \in 0 .. n - 1
            BY <3>3
          <5> QED
            BY <3>5, <5>1 DEF Taken
        <4>3. \A k \in 0 .. n - 1 : NextSeq(FirstSeq, k) \in used
          <5> TAKE k \in 0 .. n - 1
          <5>1. PICK i \in 1 .. n : i = k + 1 /\ i - 1 = k
            <6>1. k + 1 \in 1 .. n /\ (k + 1) - 1 = k
              BY <3>3
            <6> QED
              BY <6>1
          <5>2. v[i].seq = NextSeq(FirstSeq, k)
            BY <3>5, <5>1
          <5> QED
            BY <4>1, <5>2
        <4> QED
          BY <4>1, <4>2, <4>3 DEF Taken
      <3>8. \A i, j \in DOMAIN log[l] : log[l][i].seq = log[l][j].seq => i = j
        <4> SUFFICES ASSUME NEW i \in 1 .. n, NEW j \in 1 .. n, v[i].seq = v[j].seq PROVE i = j
          BY <3>2, <3>3
        <4>1. PICK a, b \in 0 .. SeqMod - 1 : a = i - 1 /\ b = j - 1
          <5>1. i - 1 \in 0 .. SeqMod - 1 /\ j - 1 \in 0 .. SeqMod - 1
            <6>1. SeqMod \in Nat
              BY MediaTrackAssumption
            <6> QED
              BY <3>3, <3>4, <6>1
          <5> QED
            BY <5>1
        <4>2. NextSeq(FirstSeq, a) = NextSeq(FirstSeq, b)
          BY <3>5, <4>1
        <4>3. a = b
          BY <4>2, NextIsInjective
        <4> QED
          BY <3>3, <4>1, <4>3
      <3>9. Cardinality(used) = Len(log[l])
        BY <2>0, <2>3, <3>8, DistinctNumbers
      <3> QED
        BY <3>1, <3>6, <3>7, <3>9
    <2> QED
      BY <2>1, <2>2, MediaTrackAssumption
  <1> QED
    BY <1>1, <1>2, <1>3, Invariance, TypedAlways, PTL DEF Spec

=============================================================================
