----------------------------- MODULE MCSources -----------------------------
(* What a source is told, hands to ffmpeg and gets from it, for TLC: the     *)
(* command (Tokenizer), its lines (Source), stdout (FrameReader) and stderr  *)
(* (RingBuffer).  The four share no state, so a behaviour moves one of them, *)
(* part, and the others rest.                                                *)
EXTENDS Tokenizer, Source, FrameReader, RingBuffer

CONSTANTS MaxChunk, MaxTape   \* bounds: bytes in one write to the ring, and in all

VARIABLE part

----------------------------------------------------------------------------
(* Lines: options of the first input, its inputs, options of the output, sink *)

MCTokens == STRING
MCOptions ==
    {"-c:a", "-acodec", "-c:v", "-vcodec", "-analyzeduration", "-probesize", "-err_detect", "-i", "-ss",
     "-f", "-ar", "-user_agent", "-map", "-deadline", "-b"}

UpToTwo(groups) == {<<>>} \cup groups \cup {g \o h : g, h \in groups}

InputSide == {<<"-re">>, <<"-ss", "9">>, <<"-f", "v4l2">>, <<"-probesize", "1M">>, <<"-user_agent", "me">>}
OutputSide == {<<"-b", "96k">>, <<"-vn">>, <<"-ss", "1">>, <<"-f", "ogg">>, <<"-c:a", "copy">>,
               <<"-acodec", "pcm_s16le">>, <<"-f", "s16le">>, <<"-vcodec", "copy">>,
               <<"-ar", "44100">>, <<"-deadline", "good">>, <<"-vcodec", "libvpx", "-deadline", "good">>}
InputFiles == {<<"-i", "a">>, <<"-i", "a", "-ss", "2", "-i", "b">>}

Lines ==
    {i \o f \o o \o s : i \in UpToTwo(InputSide), f \in InputFiles, o \in {<<>>} \cup OutputSide,
                        s \in {<<>>, <<"pipe:1">>, <<"-">>, <<"pipe:1", "-b", "64k">>}}
        \cup {<<"-ss", "9", "-f", "v4l2">>, <<>>}

Commands == {<<>>} \cup {<<"ffmpeg">> \o line : line \in Lines}

FewCommands ==
    {<<>>, <<"ffmpeg">>, <<"ffmpeg", "-i", "a", "pipe:1">>,
     <<"ffmpeg", "-ss", "9", "-i", "a", "-f", "s16le">>}

OnLegs(a, v) == [l \in {"audio", "video"} |-> IF l = "audio" THEN a ELSE v]

MCSourceSet ==
    {[kind |-> "shell", tracks |-> t, line |-> OnLegs(x, x)] :
         t \in {{"audio"}, {"video"}, {"audio", "video"}}, x \in Commands}
    \cup {[kind |-> "shells", tracks |-> {"audio", "video"}, line |-> OnLegs(x, y)] :
              x, y \in FewCommands}
    \cup {[kind |-> "transcode", tracks |-> t, line |-> OnLegs(x, x)] :
              t \in SUBSET {"audio", "video"}, x \in {<<>>, <<"file">>, <<"url">>}}

MCOffsets == {"0", "below_ms", "30"}

----------------------------------------------------------------------------
(* Containers: headers and sounds of every length around a full segment; then *)
(* one packet of each kind a TOC can name; then IVF at several frame rates.   *)

Toc(config, code, count) == [config |-> config, code |-> code, count |-> count]
Sound(size, toc) == [is |-> "data", size |-> size, toc |-> toc]
Header(is, size) == [is |-> is, size |-> size, toc |-> Toc(0, 0, 0)]

Sounds == {Sound(n, Toc(5 * n, 0, 0)) : n \in 0 .. 4}
Starts == {<<>>, <<Header("head", 3)>>, <<Header("head", 2), Header("tags", 3)>>,
           <<Header("tags", 2), Header("head", 1), Header("head", 1)>>,
           <<Header("head", 1), Header("head", 3), Header("tags", 1)>>}
Ends == {<<>>, <<Header("head", 1)>>, <<Sound(1, Toc(31, 3, 6)), Header("tags", 1)>>}

Ogg(packets) == [kind |-> "ogg", packets |-> packets, num |-> 0, den |-> 0]
Ivf(sizes, num, den) ==
    [kind |-> "ivf", packets |-> [i \in 1 .. Len(sizes) |-> Sound(sizes[i], Toc(0, 0, 0))],
     num |-> num, den |-> den]

MCContainers ==
    {Ogg(s \o m \o e) : s \in Starts, m \in BoundedSeq(Sounds, 3), e \in Ends}
    \cup {Ogg(<<Sound(1, Toc(c, k[1], k[2]))>>) :
              c \in 0 .. 31, k \in {<<0, 0>>, <<1, 0>>, <<2, 0>>, <<3, 0>>, <<3, 1>>, <<3, 2>>}}
    \cup {Ivf(<<1, 0, 2, 1>>, b[1], b[2]) :
              b \in {<<1, 30>>, <<1, 60>>, <<1, 25>>, <<1, 24>>, <<1, 15>>, <<1, 17>>,
                     <<1001, 30000>>, <<1001, 24000>>, <<0, 30>>, <<1, 0>>}}

----------------------------------------------------------------------------
(* Commands of words that are hard to write: any letters of a word are within   *)
(* quotes, its blanks always, and backslashes are escaped or, where they may     *)
(* be, bare.                                                                     *)

Words(n) == BoundedSeq(Chars, n) \ {<<>>}

At(w, n, quoted) == [word |-> w, letter |-> n, quoted |-> quoted]
Mark(p) == <<[char |-> Quote, as |-> "mark", from |-> p]>>
Gap(p) == [char |-> Blank, as |-> "gap", from |-> p]

\* Letters a to b of a word are within quotes; none, if b = 0.
Spans(word) ==
    {s \in (1 .. Len(word)) \X (0 .. Len(word)) :
         /\ s[1] <= s[2] \/ s = <<1, 0>>
         /\ \A j \in DOMAIN word : word[j] = Blank => s[1] <= j /\ j <= s[2]}

\* A backslash before another letter of the word, and no mark between them, that is neither quote
\* nor backslash.
MayBeBare(word, j, s) ==
    /\ word[j] = Backslash
    /\ IF j < Len(word) THEN word[j + 1] \notin {Quote, Backslash} /\ (s[2] = 0 \/ (s[2] # j /\ s[1] # j + 1))
       ELSE s[2] # j

\* Letter j of word number w.
Glyphs(w, word, j, s, bare) ==
    LET in == s[1] <= j /\ j <= s[2]
        p == At(w, j - 1, in)
    IN  (IF s[2] # 0 /\ s[1] = j THEN Mark(At(w, j - 1, FALSE)) ELSE <<>>)
            \o (IF word[j] \in {Quote, Backslash} /\ ~(bare /\ MayBeBare(word, j, s))
                THEN <<[char |-> Backslash, as |-> "escape", from |-> p]>> ELSE <<>>)
            \o <<[char |-> word[j], as |-> "letter", from |-> p]>>
            \o (IF s[2] = j THEN Mark(At(w, j, TRUE)) ELSE <<>>)

Written(w, word, s, bare) == FlattenSeq([j \in 1 .. Len(word) |-> Glyphs(w, word, j, s, bare)])

MCTexts ==
    {[words |-> <<>>, glyphs |-> <<>>]}
    \cup UNION {{[words |-> <<u>>, glyphs |-> Written(1, u, s, bare)] : s \in Spans(u), bare \in BOOLEAN} :
                    u \in Words(4)}
    \cup {[words |-> <<u, v>>,
           glyphs |-> Written(1, u, <<1, Len(u)>>, FALSE) \o <<Gap(At(1, Len(u), FALSE))>> \o gaps
                          \o Written(2, v, <<Len(v), Len(v)>>, TRUE)] :
              u \in Words(2), v \in {x \in Words(2) : \A j \in 1 .. Len(x) - 1 : x[j] # Blank},
              gaps \in {<<>>, <<Gap(At(2, 0, FALSE))>>}}

----------------------------------------------------------------------------
(* One part moves *)

AnySource == CHOOSE s \in Sources : s.kind = "transcode" /\ s.tracks = {}
AnyContainer == CHOOSE c \in Containers : c.kind = "ivf"

\* The part that moves comes last: it is enumerated once, and the others are not at all.
Init ==
    /\ part \in {"text", "line", "stdout", "stderr"}
    /\ part = "text" \/ (part # "text" /\ meant = <<>> /\ text = <<>>)
    /\ part = "line" \/ (part # "line" /\ source = AnySource)
    /\ part = "stdout" \/ (part # "stdout" /\ container = AnyContainer)
    /\ part = "stderr" \/ (part # "stderr" /\ buf = [i \in Places |-> 0])
    /\ \/ part = "text" /\ SourceInit /\ ReaderInit /\ RingInit /\ TokenInit
       \/ part = "line" /\ TokenInit /\ ReaderInit /\ RingInit /\ SourceInit
       \/ part = "stdout" /\ TokenInit /\ SourceInit /\ RingInit /\ ReaderInit
       \/ part = "stderr" /\ TokenInit /\ SourceInit /\ ReaderInit /\ RingInit

Next ==
    /\ \/ part = "text" /\ TokenNext /\ UNCHANGED <<sourceVars, readerVars, ringVars>>
       \/ part = "line" /\ SourceNext /\ UNCHANGED <<tokenVars, readerVars, ringVars>>
       \/ part = "stdout" /\ ReaderNext /\ UNCHANGED <<tokenVars, sourceVars, ringVars>>
       \/ /\ part = "stderr"
          /\ \E p \in BoundedSeq(Bytes, MaxChunk) : Len(tape) + Len(p) <= MaxTape /\ Write(p)
          /\ UNCHANGED <<tokenVars, sourceVars, readerVars>>
    /\ UNCHANGED part

MCSpec == Init /\ [][Next]_<<part, tokenVars, sourceVars, readerVars, ringVars>>
=============================================================================
