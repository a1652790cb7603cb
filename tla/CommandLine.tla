---------------------------- MODULE CommandLine ----------------------------
(***************************************************************************)
(* The command lines that ffmpeg is started with (media/shell_source.rs,   *)
(* media/transcode.rs): the caller's own line, checked and filled in, with *)
(* a seek put into it, and the line made for a file or URL.  A line is a   *)
(* sequence of tokens without the binary.  Options that are always written *)
(* together and that nothing looks for stand for one another: -ar for the  *)
(* encoder's settings, -user_agent for those of a network input.           *)
(*                                                                         *)
(* Meaning is how ffmpeg reads a line: options belong to the file that     *)
(* comes after them.                                                       *)
(***************************************************************************)
EXTENDS Naturals, Sequences, SequencesExt

CONSTANTS
    Tokens,       \* what a line is written with
    Options,      \* ffmpeg's options that take a value
    Flags,        \* those that take none
    RawCodecs     \* what begins with pcm_

AudioCodec == {"-c:a", "-acodec"}
VideoCodec == {"-c:v", "-vcodec"}
ProbeNames == {"-analyzeduration", "-probesize", "-err_detect"}
EncoderSettings == {"-ar", "-deadline"}   \* not looked for when they are filled in
RawFormats == {"s16le", "s16be", "s24le", "s32le", "f32le", "f64le", "u8", "alaw", "mulaw"}

ASSUME OptionsAssumption ==
    /\ Options \subseteq Tokens /\ Flags \subseteq Tokens /\ Options \cap Flags = {}
    /\ AudioCodec \cup VideoCodec \cup ProbeNames
           \cup {"-i", "-ss", "-f", "-ar", "-user_agent", "-map", "-deadline"} \subseteq Options
    /\ {"none", "pipe:1"} \cap (Options \cup Flags) = {}
    /\ {"pipe:1", "0", "64k", "ignore_err", "libopus", "48000", "ogg", "libvpx", "realtime", "ivf",
         "Mozilla", "0:a?", "0:v?"} \subseteq Tokens
    /\ "libopus" \notin RawCodecs

Mentions(args, names) == \E i \in DOMAIN args : args[i] \in names
FirstInput(args) == SelectInSeq(args, LAMBDA token : token = "-i")

\* What is left of a sequence.
Dropping(s, dropped) ==
    LET left[n \in 0 .. Len(s)] ==
            IF n = 0 THEN <<>>
            ELSE IF s[n] \in dropped THEN left[n - 1] ELSE Append(left[n - 1], s[n])
    IN  left[Len(s)]

----------------------------------------------------------------------------
(* from_shell *)

\* Probe options the line does not have, to go before its first input.
MissingProbes(args) ==
    LET probe(name, value) == IF Mentions(args, {name}) THEN <<>> ELSE <<name, value>>
    IN  probe("-analyzeduration", "0") \o probe("-probesize", "64k") \o probe("-err_detect", "ignore_err")

Format(args, name) == IF Mentions(args, {"-f"}) THEN <<>> ELSE <<"-f", name>>

\* What the encoder of the leg needs and the line does not have.
OutputFlags(args, leg) ==
    IF leg = "audio"
    THEN (IF Mentions(args, AudioCodec) THEN <<>> ELSE <<"-c:a", "libopus">>)
             \o <<"-ar", "48000">> \o Format(args, "ogg")
    ELSE (IF Mentions(args, VideoCodec) THEN <<>> ELSE <<"-c:v", "libvpx", "-deadline", "realtime">>)
             \o Format(args, "ivf")

\* (seeded fault) the caller's own sink stays where it is.
KeepSink(args) == args

NoSink(args) == Dropping(args, {"pipe:1"})

\* ensure_ffmpeg_flags
EnsureFlags(args, leg) ==
    LET at == FirstInput(args)
        probed == IF at = 0 THEN args
                  ELSE SubSeq(args, 1, at - 1) \o MissingProbes(args) \o SubSeq(args, at, Len(args))
    IN  NoSink(probed) \o OutputFlags(args, leg) \o <<"pipe:1">>

\* validate_output_codec: raw audio is refused, wherever the line mentions it.
IsRaw(args, leg) ==
    /\ leg = "audio"
    /\ \E i \in 1 .. Len(args) - 1 :
           \/ args[i] \in AudioCodec /\ args[i + 1] \in RawCodecs
           \/ args[i] = "-f" /\ args[i + 1] \in RawFormats

----------------------------------------------------------------------------
(* Seeking *)

\* (seeded fault) the caller's own seek stays.
NoSeekSkipped(w, args, i) == FALSE

\* A seek before the first input is skipped together with its value.
SkipsSeek(w, args, i) == args[i] = "-ss" /\ w.input = 0 /\ i < Len(args)

\* inject_seek walks the line once: out is what stays, input where the first input is in it.
Clean(w, args, i) ==
    IF w.skip THEN [w EXCEPT !.skip = FALSE]
    ELSE IF SkipsSeek(w, args, i) THEN [w EXCEPT !.skip = TRUE]
    ELSE [out |-> Append(w.out, args[i]),
          input |-> IF args[i] = "-i" /\ w.input = 0 THEN Len(w.out) + 1 ELSE w.input,
          skip |-> FALSE]

Cleaning(args) ==
    LET walk[n \in 0 .. Len(args)] ==
            IF n = 0 THEN [out |-> <<>>, input |-> 0, skip |-> FALSE] ELSE Clean(walk[n - 1], args, n)
    IN  walk

\* The seek goes right before the first input, or in front of a line without one.
InjectSeek(args, offset) ==
    LET w == Cleaning(args)[Len(args)]
        at == IF w.input = 0 THEN 1 ELSE w.input
    IN  SubSeq(w.out, 1, at - 1) \o <<"-ss", offset>> \o SubSeq(w.out, at, Len(w.out))

----------------------------------------------------------------------------
(* Files and URLs *)

\* ffmpeg_input_prefix, by what the path looks like.
InputPrefix(path) ==
    (IF path = "url" THEN <<"-user_agent", "Mozilla">> ELSE <<>>)
        \o <<"-analyzeduration", "0", "-probesize", "64k">>

\* The input of a file or URL; a seek of a millisecond or more comes after it.
Input(path, offset) ==
    InputPrefix(path) \o <<"-i", path>>
        \o (IF offset \in {"0", "below_ms"} THEN <<>> ELSE <<"-ss", offset>>)

\* audio_ff_args and video_ff_args around that input.
TranscodeArgs(input, leg) ==
    <<"-err_detect", "ignore_err">> \o input
        \o (IF leg = "audio"
            THEN <<"-map", "0:a?", "-c:a", "libopus", "-ar", "48000", "-f", "ogg">>
            ELSE <<"-map", "0:v?", "-c:v", "libvpx", "-deadline", "realtime", "-f", "ivf">>)
        \o <<"pipe:1">>

----------------------------------------------------------------------------
(* ffmpeg *)

Understood(inputs, outputs, rest, name) ==
    [inputs |-> inputs, outputs |-> outputs, rest |-> rest, name |-> name]

\* An option is kept until the file it belongs to is named; rest is what no file follows, name
\* the option whose value is next.
ReadToken(m, token) ==
    LET file == [opts |-> m.rest, url |-> token]
    IN  CASE m.name = "-i" -> Understood(Append(m.inputs, file), m.outputs, <<>>, "none")
          [] m.name \notin {"none", "-i"} ->
                Understood(m.inputs, m.outputs, Append(m.rest, <<m.name, token>>), "none")
          [] m.name = "none" /\ token \in Options -> [m EXCEPT !.name = token]
          [] m.name = "none" /\ token \in Flags -> [m EXCEPT !.rest = Append(@, <<token>>)]
          [] m.name = "none" /\ token \notin Options \cup Flags ->
                Understood(m.inputs, Append(m.outputs, file), <<>>, "none")

Reading(args) ==
    LET read[n \in 0 .. Len(args)] ==
            IF n = 0 THEN Understood(<<>>, <<>>, <<>>, "none") ELSE ReadToken(read[n - 1], args[n])
    IN  read

Meaning(args) == Reading(args)[Len(args)]

IsOutput(args, i) == args[i] \notin Options \cup Flags /\ (i > 1 => args[i - 1] \notin Options)

\* How a line is written: inputs before outputs.  No value of an option looks like an option
\* with a value or like the sink: the code would take it for one.
Usage(args) ==
    /\ \A i \in 1 .. Len(args) - 1 : args[i] \in Options => args[i + 1] \notin Options \cup {"pipe:1"}
    /\ \A i, j \in 1 .. Len(args) : IsOutput(args, i) /\ args[j] = "-i" => j < i

Given(opts, names) == {opts[i][2] : i \in {j \in DOMAIN opts : opts[j][1] \in names}}
Without(opts, name) == Dropping(opts, {name} \X Tokens)
=============================================================================
