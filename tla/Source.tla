------------------------------- MODULE Source -------------------------------
(***************************************************************************)
(* How a source of media is opened (media/shell_source.rs,                 *)
(* media/transcode.rs): the caller's command lines are checked and filled  *)
(* in (from_shell, from_shells), or taken as they are by a ShellSource or  *)
(* MultiShellSource of his own that he opens at an offset; a               *)
(* TranscodeSource makes its lines from a path.  Then one ffmpeg per leg   *)
(* is spawned, audio first, and the first that cannot be ends the open.    *)
(***************************************************************************)
EXTENDS CommandLine

CONSTANTS
    Sources,    \* what the caller may ask for
    Offsets     \* "0", "below_ms", or an offset of a millisecond and more

\* A source is [kind, tracks, line]: "shell" has one line for its tracks, "shells" one for
\* each leg, "transcode" a path; <<>> is no line and no path.  A line begins with the binary.
\* from_shell for no track at all, which would get no encoder, is left out.
Legs == {"audio", "video"}

NoLine == <<>>
Args(line) == IF line = NoLine THEN <<>> ELSE Tail(line)

ASSUME SourcesAssumption ==
    /\ Offsets \subseteq Tokens
    /\ \A s \in Sources :
           /\ s.kind \in {"shell", "shells", "transcode"}
           /\ s.tracks \subseteq Legs /\ (s.kind = "shell" => s.tracks # {})
           /\ s.line \in [Legs -> Seq(Tokens)]
           /\ s.kind # "transcode" => \A l \in Legs : Usage(Args(s.line[l]))

VARIABLES
    source,       \* what is opened
    filled,       \* whether from_shell or from_shells filled its lines in
    offset,       \* where it is opened
    pending,      \* the legs yet to be spawned, with their lines
    children,     \* the line of each leg's process
    result        \* what the open returned

sourceVars == <<source, filled, offset, pending, children, result>>


SourceInit ==
    /\ source \in Sources
    /\ filled = FALSE /\ offset = "0"
    /\ pending = <<>> /\ children = [l \in Legs |-> NoLine]
    /\ result = "none"

\* A ShellSource has one reader, for audio unless video is all it is for.
OnlyLeg == IF source.tracks = {"video"} THEN "video" ELSE "audio"

\* with_defaults: a source with video has audio, and one without tracks has audio.
EncodedTracks == {"audio"} \cup source.tracks

\* The legs to spawn, and the line line[l] of each.
InOrder(legs, line) ==
    LET spawn(l) == IF l \in legs THEN <<<<l, line[l]>>>> ELSE <<>>
    IN  spawn("audio") \o spawn("video")

Start(at, fill, spawns) ==
    /\ offset' = at /\ filled' = fill
    /\ pending' = spawns
    /\ result' = IF spawns = <<>> THEN "ok" ELSE "opening"
    /\ UNCHANGED <<source, children>>

Refuse(error) ==
    /\ result' = error
    /\ UNCHANGED <<source, filled, offset, pending, children>>

Commanded == {l \in Legs : source.line[l] # NoLine}

\* from_shell
FromShell ==
    /\ result = "none" /\ source.kind = "shell"
    /\ LET l == OnlyLeg
           args == Args(source.line[l])
       IN  CASE l \notin Commanded -> Refuse("FFmpegSpawn")
             [] l \in Commanded /\ IsRaw(args, l) -> Refuse("InvalidParams")
             [] OTHER -> Start("0", TRUE, <<<<l, EnsureFlags(args, l)>>>>)

\* from_shells: both lines are looked at before either is spawned.
FromShells ==
    /\ result = "none" /\ source.kind = "shells"
    /\ IF \E l \in Commanded : IsRaw(Args(source.line[l]), l) THEN Refuse("InvalidParams")
       ELSE Start("0", TRUE, InOrder(Commanded, [l \in Legs |-> EnsureFlags(Args(source.line[l]), l)]))

\* open_at (open, with offset 0) of a ShellSource, or of a MultiShellSource, which has the
\* legs whose arguments are not empty.
OpenShellAt(at) ==
    /\ result = "none" /\ source.kind \in {"shell", "shells"}
    /\ LET args(l) == Args(source.line[l])
           legs == IF source.kind = "shell" THEN {OnlyLeg} ELSE {l \in Legs : args(l) # <<>>}
       IN  Start(at, FALSE,
                 InOrder(legs, [l \in Legs |-> IF at = "0" THEN args(l) ELSE InjectSeek(args(l), at)]))

\* open_at of a TranscodeSource; from_file and from_url give the same lines, with and without
\* an offset, and do not look whether the path is empty.
OpenPathAt(at) ==
    /\ result = "none" /\ source.kind = "transcode"
    /\ IF source.line["audio"] = NoLine THEN Refuse("SeekUnsupported")
       ELSE Start(at, FALSE,
                  InOrder(EncodedTracks,
                          [l \in Legs |-> TranscodeArgs(Input(source.line["audio"][1], at), l)]))

\* ShellReader::new for the next leg; when it fails, what was spawned is dropped with the
\* streams.
Spawn ==
    /\ pending # <<>>
    /\ \/ /\ children' = [children EXCEPT ![Head(pending)[1]] = <<"ffmpeg">> \o Head(pending)[2]]
          /\ pending' = Tail(pending)
          /\ result' = IF Len(pending) = 1 THEN "ok" ELSE result
       \/ /\ children' = [l \in Legs |-> NoLine]
          /\ pending' = <<>>
          /\ result' = "FFmpegSpawn"
    /\ UNCHANGED <<source, filled, offset>>

SourceNext ==
    \/ FromShell \/ FromShells \/ Spawn
    \/ \E at \in Offsets : OpenShellAt(at) \/ OpenPathAt(at)

SourceSpec == SourceInit /\ [][SourceNext]_sourceVars

----------------------------------------------------------------------------
(* Properties *)

Running == {l \in Legs : children[l] # NoLine}

\* A leg opened at an offset seeks there and nowhere else: its line means to ffmpeg what the
\* source's own line means, with all of that line's seeks of the first input replaced by
\* one; a path's legs seek their output, both to the same place (inject_seek, open_at).
SeekIsSole ==
    \A l \in Running :
        LET m == Meaning(Args(children[l]))
            own == Meaning(Args(source.line[l]))
        IN  CASE source.kind = "transcode" ->
                     /\ Given(m.inputs[1].opts, {"-ss"}) = {}
                     /\ Given(m.outputs[1].opts, {"-ss"}) =
                            (IF offset \in {"0", "below_ms"} THEN {} ELSE {offset})
              [] source.kind # "transcode" /\ offset # "0" /\ own.inputs # <<>> ->
                     LET first == own.inputs[1]
                         opts == Append(Without(first.opts, "-ss"), <<"-ss", offset>>)
                     IN  m = [own EXCEPT !.inputs = <<[first EXCEPT !.opts = opts]>> \o Tail(@)]
              [] OTHER -> TRUE

\* The caller's line is complete and has inputs, its encoder options are on the output's side, and its output
\* is pipe:1 if it names one.  The code does not tell input options from output options, and
\* leaves a second output where it is.
IsPlain(own) ==
    /\ own.inputs # <<>> /\ own.name = "none"
    /\ \A i \in DOMAIN own.inputs :
           Given(own.inputs[i].opts, {"-f"} \cup AudioCodec \cup VideoCodec) = {}
    /\ Len(own.outputs) <= 1 /\ \A i \in DOMAIN own.outputs : own.outputs[i].url = "pipe:1"

\* What more has been put behind the options opts.
Added(opts, more) == SubSeq(more, Len(opts) + 1, Len(more))

\* What from_shell and from_shells fill in leaves alone what is there: ffmpeg reads the caller's
\* inputs with no option lost or given again, and writes one output, to pipe:1, under all the
\* caller's options, with a codec and a container that are the leg's own if he named none, and
\* for audio never raw ones.  No output option of his is given again, but for the settings of the
\* encoder: those the code writes whatever he wrote, and as they come last they override his
\* (README: "anything you pass is left alone"); for video only next to its own encoder.
FillIsConservative ==
    filled =>
        \A l \in Running :
            LET m == Meaning(Args(children[l]))
                own == Meaning(Args(source.line[l]))
                read == own.inputs[1].opts
                written == (IF own.outputs = <<>> THEN <<>> ELSE own.outputs[1].opts) \o own.rest
                out == m.outputs[1].opts
                Codec == IF l = "audio" THEN AudioCodec ELSE VideoCodec
                spoken(opts, names) == Given(opts, names) # {}
            IN  IsPlain(own) =>
                    /\ Len(m.inputs) = Len(own.inputs) /\ Tail(m.inputs) = Tail(own.inputs)
                    /\ m.inputs[1].url = own.inputs[1].url
                    /\ IsPrefix(read, m.inputs[1].opts)
                    /\ \A o \in Options :
                           spoken(read, {o}) => ~spoken(Added(read, m.inputs[1].opts), {o})
                    /\ Len(m.outputs) = 1 /\ m.outputs[1].url = "pipe:1" /\ m.rest = <<>>
                    /\ IsPrefix(written, out)
                    /\ \A names \in {Codec, {"-f"}} :
                           spoken(written, names) = ~spoken(Added(written, out), names)
                    /\ \A o \in Options \ EncoderSettings :
                           spoken(written, {o}) => ~spoken(Added(written, out), {o})
                    /\ Given(Added(written, out), EncoderSettings) =
                           (IF l = "audio" THEN {"48000"}
                            ELSE IF spoken(written, VideoCodec) THEN {} ELSE {"realtime"})
                    /\ l = "audio" =>
                           Given(out, Codec) \cap RawCodecs = {} /\ Given(out, {"-f"}) \cap RawFormats = {}
=============================================================================
