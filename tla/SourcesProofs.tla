---------------------------- MODULE SourcesProofs ----------------------------
(***************************************************************************)
(* Proofs about what goes into a source and what comes out of it: the      *)
(* tokens of a command, for every text; MediaClock at the resolution of    *)
(* the code, nanoseconds, which is beyond the integers of the model        *)
(* checker; the frame readers, what they yield, for every container, and   *)
(* where the clock is; and the ring, which keeps the tail of stderr for    *)
(* every capacity and every way of writing.                                *)
(***************************************************************************)
EXTENDS Tokenizer, FrameReader, RingBuffer, SequenceTheorems, TLAPS

----------------------------------------------------------------------------
(* The tokenizer *)

\* So much of the words is out at a place, and in the token.
Reached(p) ==
    /\ tokens = SubSeq(meant, 1, p.word - 1)
    /\ cur = IF p.letter = 0 THEN <<>> ELSE SubSeq(meant[p.word], 1, p.letter)
    /\ in_quote = p.quoted
    /\ p.word <= Len(meant) + 1
    /\ p.letter > 0 => p.word <= Len(meant) /\ p.letter <= Len(meant[p.word])

\* What is left spells the rest of the words, from the place the tokenizer has reached.
TokenInv ==
    /\ meant \in Seq(Word) /\ text \in Seq(Glyph)
    /\ Spells(meant, text)
    /\ \E p \in Place :
           /\ Reached(p)
           /\ IF text = <<>> THEN Finished(meant, p) ELSE text[1].from = p

\* Words are sequences with letters.
LEMMA AboutWords ==
    ASSUME NEW words \in Seq(Word)
    PROVE  /\ Len(words) \in Nat
           /\ \A w \in 1 .. Len(words) :
                  words[w] \in Seq(Chars) /\ words[w] # <<>> /\ Len(words[w]) \in Nat \ {0}
  <1>1. Len(words) \in Nat /\ \A w \in 1 .. Len(words) : words[w] \in Word
    BY LenProperties, ElementOfSeq
  <1> QED
    BY <1>1, EmptySeq DEF Word

\* A sequence grows by its next element.
LEMMA PrefixGrows ==
    ASSUME NEW S, NEW s \in Seq(S), NEW n \in Nat, n < Len(s)
    PROVE  /\ Append(SubSeq(s, 1, n), s[n + 1]) = SubSeq(s, 1, n + 1)
           /\ n = 0 => SubSeq(s, 1, n) = <<>>
  <1>1. Len(s) \in Nat
    BY LenProperties
  <1>2. PICK m \in 1 .. Len(s) : m = n + 1
    BY <1>1
  <1>3. m - 1 = n /\ m \in m .. Len(s) /\ 1 \in 1 .. Len(s) /\ m \in 1 .. Len(s)
    BY <1>1, <1>2
  <1>4. SubSeq(s, 1, m) = SubSeq(s, 1, m - 1) \o <<s[m]>>
    BY <1>3, SubSeqRecursiveSecond
  <1>5. SubSeq(s, 1, n) \in Seq(S)
    <2>1. \A i \in 1 .. n : s[i] \in S
      BY <1>1, ElementOfSeq
    <2> QED
      BY <2>1, SubSeqProperties
  <1>6. s[m] \in S
    BY <1>2, ElementOfSeq
  <1>7. Append(SubSeq(s, 1, n), s[m]) = SubSeq(s, 1, n) \o <<s[m]>>
    BY <1>5, <1>6, AppendIsConcat
  <1>8. n = 0 => SubSeq(s, 1, n) = <<>>
    BY SubSeqEmpty
  <1> QED
    BY <1>2, <1>3, <1>4, <1>7, <1>8

\* What is left after a glyph that is not an escape spells the rest, and so does what is left after
\* an escape and its letter.
LEMMA TailSpells ==
    ASSUME NEW words, NEW glyphs \in Seq(Glyph), glyphs # <<>>, Spells(words, glyphs),
           glyphs[1].as # "escape"
    PROVE  /\ Tail(glyphs) \in Seq(Glyph) /\ Spells(words, Tail(glyphs))
           /\ IF Tail(glyphs) = <<>> THEN Finished(words, After(glyphs[1]))
              ELSE Tail(glyphs)[1].from = After(glyphs[1])
  <1> DEFINE t == Tail(glyphs)
  <1>1. /\ t \in Seq(Glyph) /\ Len(t) = Len(glyphs) - 1
        /\ \A i \in 1 .. Len(t) : t[i] = glyphs[i + 1]
        /\ Len(glyphs) \in Nat \ {0} /\ Len(t) \in Nat
    BY HeadTailProperties, EmptySeq, LenProperties
  <1> HIDE DEF t
  <1>2. Spells(words, t)
    <2> SUFFICES ASSUME NEW i \in 1 .. Len(t)
                 PROVE  /\ Means(words, t[i]) /\ Escapes(t, i)
                        /\ IF i < Len(t) THEN t[i + 1].from = After(t[i]) ELSE Finished(words, After(t[i]))
      BY DEF Spells
    <2>1. PICK j \in 2 .. Len(glyphs) : j = i + 1
      BY <1>1
    <2>2. /\ Means(words, glyphs[j]) /\ Escapes(glyphs, j)
          /\ IF j < Len(glyphs) THEN glyphs[j + 1].from = After(glyphs[j])
             ELSE Finished(words, After(glyphs[j]))
      BY <1>1, <2>1 DEF Spells
    <2>3. t[i] = glyphs[j] /\ (i < Len(t) <=> j < Len(glyphs)) /\ (i < Len(t) => t[i + 1] = glyphs[j + 1])
      BY <1>1, <2>1
    <2>4. i > 1 => t[i - 1] = glyphs[j - 1]
      BY <1>1, <2>1
    <2>5. i = 1 => glyphs[j - 1].as # "escape"
      BY <2>1
    <2>6. Escapes(t, i)
      BY <2>1, <2>2, <2>3, <2>4, <2>5 DEF Escapes
    <2> QED
      BY <2>2, <2>3, <2>6
  <1>3. IF t = <<>> THEN Finished(words, After(glyphs[1])) ELSE t[1].from = After(glyphs[1])
    <2>1. IF 1 < Len(glyphs) THEN glyphs[1 + 1].from = After(glyphs[1]) ELSE Finished(words, After(glyphs[1]))
      BY <1>1 DEF Spells
    <2>2. t = <<>> <=> Len(t) = 0
      BY <1>1, EmptySeq
    <2> QED
      BY <1>1, <2>1, <2>2
  <1> QED
    BY <1>1, <1>2, <1>3 DEF t

LEMMA SpellsOn ==
    ASSUME NEW words, NEW glyphs \in Seq(Glyph), Len(glyphs) > 1, Spells(words, glyphs),
           glyphs[1].as = "escape"
    PROVE  LET t == Tail(Tail(glyphs))
           IN  /\ t \in Seq(Glyph) /\ Spells(words, t)
               /\ IF t = <<>> THEN Finished(words, After(glyphs[2])) ELSE t[1].from = After(glyphs[2])
  <1> DEFINE t == Tail(Tail(glyphs))
  <1>1. /\ t \in Seq(Glyph) /\ Len(t) = Len(glyphs) - 2
        /\ \A i \in 1 .. Len(t) : t[i] = glyphs[i + 2]
        /\ Len(glyphs) \in Nat \ {0} /\ Len(t) \in Nat
    <2>0. Len(glyphs) \in Nat
      BY LenProperties
    <2>1. /\ Tail(glyphs) \in Seq(Glyph) /\ Len(Tail(glyphs)) = Len(glyphs) - 1
          /\ \A i \in 1 .. Len(Tail(glyphs)) : Tail(glyphs)[i] = glyphs[i + 1]
      BY <2>0, EmptySeq, HeadTailProperties
    <2>2. Tail(glyphs) # <<>>
      <3>1. Len(Tail(glyphs)) # 0
        BY <2>0, <2>1
      <3>2. Len(<<>>) = 0
        BY EmptySeq
      <3> QED
        BY <3>1, <3>2
    <2>3. /\ t \in Seq(Glyph) /\ Len(t) = Len(Tail(glyphs)) - 1
          /\ \A i \in 1 .. Len(t) : t[i] = Tail(glyphs)[i + 1]
      BY <2>1, <2>2, HeadTailProperties
    <2> HIDE DEF t
    <2> QED
      BY <2>0, <2>1, <2>3
  <1> HIDE DEF t
  <1>2. Spells(words, t)
    <2> SUFFICES ASSUME NEW i \in 1 .. Len(t)
                 PROVE  /\ Means(words, t[i]) /\ Escapes(t, i)
                        /\ IF i < Len(t) THEN t[i + 1].from = After(t[i]) ELSE Finished(words, After(t[i]))
      BY DEF Spells
    <2>1. PICK j \in 3 .. Len(glyphs) : j = i + 2
      BY <1>1
    <2>2. /\ Means(words, glyphs[j]) /\ Escapes(glyphs, j)
          /\ IF j < Len(glyphs) THEN glyphs[j + 1].from = After(glyphs[j])
             ELSE Finished(words, After(glyphs[j]))
      BY <1>1, <2>1 DEF Spells
    <2>3. t[i] = glyphs[j] /\ (i < Len(t) <=> j < Len(glyphs)) /\ (i < Len(t) => t[i + 1] = glyphs[j + 1])
      BY <1>1, <2>1
    <2>4. i > 1 => t[i - 1] = glyphs[j - 1]
      BY <1>1, <2>1
    <2>5. i = 1 => glyphs[j - 1].as # "escape"
      <3>1. Escapes(glyphs, 1)
        BY <1>1 DEF Spells
      <3>2. glyphs[1 + 1].as = "letter"
        BY <3>1 DEF Escapes
      <3> QED
        BY <2>1, <3>2
    <2>6. Escapes(t, i)
      BY <2>1, <2>2, <2>3, <2>4, <2>5 DEF Escapes
    <2> QED
      BY <2>2, <2>3, <2>6
  <1>3. IF t = <<>> THEN Finished(words, After(glyphs[2])) ELSE t[1].from = After(glyphs[2])
    <2>1. IF 2 < Len(glyphs) THEN glyphs[2 + 1].from = After(glyphs[2]) ELSE Finished(words, After(glyphs[2]))
      BY <1>1 DEF Spells
    <2>2. t = <<>> <=> Len(t) = 0
      BY <1>1, EmptySeq
    <2> QED
      BY <1>1, <2>1, <2>2
  <1> QED
    BY <1>1, <1>2, <1>3 DEF t

\* The next letter joins the token.
LEMMA LetterTaken ==
    ASSUME meant \in Seq(Word), NEW p \in Place, Reached(p),
           p.word <= Len(meant), p.letter < Len(meant[p.word]),
           cur' = Append(cur, meant[p.word][p.letter + 1]), UNCHANGED <<meant, in_quote, tokens>>
    PROVE  Reached([p EXCEPT !.letter = @ + 1])'
  <1>1. PICK w \in Nat \ {0}, n \in Nat, b \in BOOLEAN : p = [word |-> w, letter |-> n, quoted |-> b]
    BY DEF Place
  <1>2. w \in 1 .. Len(meant) /\ n < Len(meant[w])
    BY <1>1, AboutWords
  <1>3. meant[w] \in Seq(Chars) /\ Len(meant[w]) \in Nat
    BY <1>2, AboutWords
  <1>4. /\ Append(SubSeq(meant[w], 1, n), meant[w][n + 1]) = SubSeq(meant[w], 1, n + 1)
        /\ n = 0 => SubSeq(meant[w], 1, n) = <<>>
    BY <1>2, <1>3, PrefixGrows
  <1>5. cur = SubSeq(meant[w], 1, n)
    BY <1>1, <1>4 DEF Reached
  <1>6. cur' = SubSeq(meant'[w], 1, n + 1)
    BY <1>1, <1>4, <1>5
  <1>7. tokens' = SubSeq(meant', 1, w - 1) /\ in_quote' = b
    BY <1>1 DEF Reached
  <1>8. [p EXCEPT !.letter = @ + 1] = [word |-> w, letter |-> n + 1, quoted |-> b]
    BY <1>1
  <1>9. w <= Len(meant') /\ n + 1 <= Len(meant'[w]) /\ n + 1 # 0 /\ w <= Len(meant') + 1
    BY <1>2, <1>3, AboutWords
  <1> QED
    BY <1>6, <1>7, <1>8, <1>9 DEF Reached

\* One letter on, quotes opened or closed, one word on: a place each time.
LEMMA AboutPlaces ==
    ASSUME NEW p \in Place
    PROVE  /\ [p EXCEPT !.letter = @ + 1] \in Place
           /\ LET q == [p EXCEPT !.quoted = ~@]
              IN  q \in Place /\ q.word = p.word /\ q.letter = p.letter /\ q.quoted = ~p.quoted
           /\ NextWord(p) \in Place
           /\ p.letter # 0 => LET q == NextWord(p)
                              IN  q.word = p.word + 1 /\ q.letter = 0 /\ q.quoted = p.quoted
  <1>1. PICK w \in Nat \ {0}, n \in Nat, b \in BOOLEAN : p = [word |-> w, letter |-> n, quoted |-> b]
    BY DEF Place
  <1>2. [p EXCEPT !.letter = @ + 1] = [word |-> w, letter |-> n + 1, quoted |-> b]
    BY <1>1
  <1>3. [p EXCEPT !.quoted = ~@] = [word |-> w, letter |-> n, quoted |-> ~b]
    BY <1>1
  <1>4. [word |-> p.word + 1, letter |-> 0, quoted |-> p.quoted] = [word |-> w + 1, letter |-> 0, quoted |-> b]
    BY <1>1
  <1>5. n + 1 \in Nat /\ w + 1 \in Nat \ {0}
    OBVIOUS
  <1>6. /\ [p EXCEPT !.letter = @ + 1] \in Place
        /\ [p EXCEPT !.quoted = ~@] \in Place
        /\ [word |-> p.word + 1, letter |-> 0, quoted |-> p.quoted] \in Place
    BY <1>2, <1>3, <1>4, <1>5 DEF Place
  <1> QED
    BY <1>1, <1>3, <1>4, <1>6 DEF NextWord

\* A token that is all of its word joins the tokens; one without letters does not.
LEMMA TokenTaken ==
    ASSUME meant \in Seq(Word), NEW p \in Place, Reached(p), Flush, UNCHANGED <<meant, in_quote>>,
           p.letter > 0 => p.letter = Len(meant[p.word]),
           NEW q \in Place, q = NextWord(p)
    PROVE  Reached(q)'
  <1>1. PICK w \in Nat \ {0}, n \in Nat, b \in BOOLEAN : p = [word |-> w, letter |-> n, quoted |-> b]
    BY DEF Place
  <1>2. CASE n = 0
    <2>1. cur = <<>>
      BY <1>1, <1>2 DEF Reached
    <2>2. q = p
      BY <1>1, <1>2 DEF NextWord
    <2> QED
      BY <1>1, <1>2, <2>1, <2>2 DEF Reached, Flush
  <1>3. CASE n > 0
    <2>1. w \in 1 .. Len(meant) /\ Len(meant) \in Nat /\ n = Len(meant[w])
      BY <1>1, <1>3, AboutWords DEF Reached
    <2>2. meant[w] \in Seq(Chars) /\ meant[w] # <<>> /\ meant[w] \in Word
      BY <2>1, AboutWords, ElementOfSeq
    <2>3. cur = meant[w]
      <3>1. cur = SubSeq(meant[w], 1, n)
        BY <1>1, <1>3 DEF Reached
      <3> QED
        BY <2>1, <2>2, <3>1, SubSeqFull
    <2>4. tokens' = Append(tokens, meant[w]) /\ cur' = <<>>
      BY <2>2, <2>3 DEF Flush
    <2>5. PICK m \in Nat : m = w - 1
      OBVIOUS
    <2>6. m < Len(meant) /\ m + 1 = w
      BY <2>1, <2>5
    <2>7. Append(SubSeq(meant, 1, m), meant[m + 1]) = SubSeq(meant, 1, m + 1)
      BY <2>6, PrefixGrows
    <2>8. tokens' = SubSeq(meant', 1, w)
      BY <1>1, <2>4, <2>5, <2>6, <2>7 DEF Reached
    <2>9. q.word = w + 1 /\ q.letter = 0 /\ q.quoted = b
      BY <1>1, <1>3 DEF NextWord
    <2>10. q.word - 1 = w /\ q.word <= Len(meant') + 1
      BY <2>1, <2>9
    <2> QED
      BY <1>1, <2>4, <2>8, <2>9, <2>10 DEF Reached
  <1> QED
    BY <1>2, <1>3

\* A glyph that is not an escape is dealt with once the place after it is reached.
LEMMA GlyphTaken ==
    ASSUME meant \in Seq(Word), text \in Seq(Glyph), text # <<>>, Spells(meant, text),
           text[1].as # "escape", text' = Tail(text), meant' = meant,
           NEW q \in Place, q = After(text[1]), Reached(q)'
    PROVE  TokenInv'
  <1>1. /\ text' \in Seq(Glyph) /\ Spells(meant, text')
        /\ IF text' = <<>> THEN Finished(meant, q) ELSE text'[1].from = q
    BY TailSpells
  <1> QED
    BY <1>1 DEF TokenInv

LEMMA TokenStep == TokenInv /\ [TokenNext]_tokenVars => TokenInv'
  <1> SUFFICES ASSUME TokenInv, [TokenNext]_tokenVars
               PROVE  TokenInv'
    OBVIOUS
  <1>1. /\ meant \in Seq(Word) /\ text \in Seq(Glyph) /\ Spells(meant, text)
        /\ meant' = meant
    BY DEF TokenInv, TokenNext, TakeEscape, ToggleQuote, EndToken, TakeChar, EndText, tokenVars
  <1>2. PICK p \in Place : Reached(p) /\ IF text = <<>> THEN Finished(meant, p) ELSE text[1].from = p
    BY DEF TokenInv
  <1>3. CASE UNCHANGED tokenVars
    BY <1>3 DEF tokenVars, TokenInv, Reached
  <1>4. CASE text = <<>> /\ TokenNext
    <2>1. EndText
      <3>1. Len(text) = 0
        BY <1>4, EmptySeq
      <3> QED
        BY <1>4, <3>1 DEF TokenNext, TakeEscape, IsEscape, ToggleQuote, EndToken, TakeChar
    <2>2. PICK q \in Place : q = NextWord(p)
      BY AboutPlaces
    <2>3. Finished(meant, p)
      BY <1>2, <1>4
    <2>4. Reached(q)'
      BY <1>1, <1>2, <2>1, <2>2, <2>3, TokenTaken DEF EndText, Finished
    <2>5. Finished(meant, q)
      <3>1. CASE p.letter = 0
        BY <2>2, <2>3, <3>1 DEF NextWord
      <3>2. CASE p.letter # 0
        <4>1. q.word = p.word + 1 /\ q.letter = 0 /\ q.quoted = p.quoted
          BY <2>2, <3>2, AboutPlaces
        <4> QED
          BY <2>3, <3>2, <4>1 DEF Finished
      <3> QED
        BY <3>1, <3>2
    <2>6. text' = <<>>
      BY <1>4, <2>1 DEF EndText
    <2> QED
      BY <1>1, <1>4, <2>2, <2>4, <2>5, <2>6 DEF TokenInv
  <1>5. CASE text # <<>> /\ TokenNext
    <2>1. PICK g \in Glyph : g = text[1] /\ g.from = p
      BY <1>1, <1>2, <1>5, EmptySeq, ElementOfSeq, LenProperties
    <2>2. Means(meant, g) /\ Escapes(text, 1) /\ Len(text) \in Nat \ {0}
      BY <1>1, <1>5, <2>1, EmptySeq, LenProperties DEF Spells
    <2>3. TakeEscape \/ ToggleQuote \/ EndToken \/ TakeChar
      BY <1>5 DEF TokenNext, EndText
    <2>4. g.as \in {"letter", "mark", "escape", "gap"}
      BY DEF Glyph
    <2>5. CASE g.as = "mark"
      <3>1. ToggleQuote
        BY <2>1, <2>2, <2>3, <2>5 DEF Means, TakeEscape, IsEscape, EndToken, TakeChar, Quote, Backslash, Blank
      <3>2. PICK q \in Place : q = [p EXCEPT !.quoted = ~@]
        BY AboutPlaces
      <3>3. q.word = p.word /\ q.letter = p.letter /\ q.quoted = ~p.quoted
        BY <3>2, AboutPlaces
      <3>4. Reached(q)'
        BY <1>2, <3>1, <3>3 DEF Reached, ToggleQuote
      <3>5. After(g) = q
        BY <2>1, <2>5, <3>2 DEF After
      <3> QED
        BY <1>1, <1>5, <2>1, <2>5, <3>1, <3>4, <3>5, GlyphTaken DEF ToggleQuote
    <2>6. CASE g.as = "gap"
      <3>1. /\ g.char = Blank /\ ~in_quote
            /\ p.letter > 0 => p.letter = Len(meant[p.word])
        BY <1>2, <2>1, <2>2, <2>6 DEF Means, Reached
      <3>2. EndToken
        BY <2>1, <2>3, <3>1 DEF TakeEscape, IsEscape, ToggleQuote, TakeChar, Quote, Backslash, Blank
      <3>3. PICK q \in Place : q = NextWord(p)
        BY AboutPlaces
      <3>4. Reached(q)'
        BY <1>1, <1>2, <3>1, <3>2, <3>3, TokenTaken DEF EndToken
      <3>5. After(g) = q
        BY <2>1, <2>6, <3>3 DEF After
      <3> QED
        BY <1>1, <1>5, <2>1, <2>6, <3>2, <3>4, <3>5, GlyphTaken DEF EndToken
    <2>7. CASE g.as = "letter"
      <3>1. /\ g.char # Quote
            /\ g.char = Backslash /\ 1 < Len(text) => text[1 + 1].char \notin {Quote, Backslash}
            /\ g.char = Blank => in_quote
        BY <1>2, <2>1, <2>2, <2>7 DEF Means, Escapes, Reached
      <3>2. ~IsEscape
        BY <2>1, <3>1 DEF IsEscape, Escapable
      <3>3. TakeChar
        BY <2>1, <2>3, <3>1, <3>2 DEF TakeEscape, ToggleQuote, EndToken
      <3>4. PICK q \in Place : q = [p EXCEPT !.letter = @ + 1]
        BY AboutPlaces
      <3>5. Reached(q)'
        BY <1>1, <1>2, <2>1, <2>2, <2>7, <3>3, <3>4, LetterTaken DEF Means, TakeChar
      <3>6. After(g) = q
        BY <2>1, <2>7, <3>4 DEF After
      <3> QED
        BY <1>1, <1>5, <2>1, <2>7, <3>3, <3>5, <3>6, GlyphTaken DEF TakeChar
    <2>8. CASE g.as = "escape"
      <3>1. g.char = Backslash /\ 1 < Len(text) /\ text[1 + 1].as = "letter" /\ text[1 + 1].char \in {Quote, Backslash}
        BY <2>1, <2>2, <2>8 DEF Escapes, Means
      <3>2. PICK h \in Glyph : h = text[2]
        BY <1>1, <2>2, <3>1, ElementOfSeq
      <3>3. Means(meant, h) /\ h.from = p /\ h.as = "letter" /\ h.char \in {Quote, Backslash}
        <4>1. text[1 + 1].from = After(text[1]) /\ Means(meant, text[2])
          BY <1>1, <2>2, <3>1 DEF Spells
        <4>2. After(g) = p
          BY <2>1, <2>8 DEF After
        <4> QED
          BY <2>1, <3>1, <3>2, <4>1, <4>2
      <3>4. TakeEscape
        BY <2>1, <2>3, <3>1, <3>2, <3>3
           DEF IsEscape, Escapable, ToggleQuote, EndToken, TakeChar, Quote, Backslash, Blank
      <3>5. PICK q \in Place : q = [p EXCEPT !.letter = @ + 1]
        BY AboutPlaces
      <3>6. Reached(q)'
        <4>1. p.word <= Len(meant) /\ p.letter < Len(meant[p.word]) /\ h.char = meant[p.word][p.letter + 1]
          BY <3>3 DEF Means
        <4> QED
          BY <1>1, <1>2, <3>2, <3>4, <3>5, <4>1, LetterTaken DEF TakeEscape
      <3>7. After(h) = q
        BY <3>3, <3>5 DEF After
      <3>8. /\ text' \in Seq(Glyph) /\ Spells(meant, text')
            /\ IF text' = <<>> THEN Finished(meant, q) ELSE text'[1].from = q
        BY <1>1, <2>1, <2>8, <3>1, <3>2, <3>4, <3>7, SpellsOn DEF TakeEscape
      <3> QED
        BY <1>1, <3>5, <3>6, <3>8 DEF TokenInv
    <2> QED
      BY <2>4, <2>5, <2>6, <2>7, <2>8
  <1> QED
    BY <1>3, <1>4, <1>5 DEF TokenNext

\* Whatever words a caller means, and however he quotes them, the tokenizer gives him those words:
\* quotes opened and closed anywhere in a word, escapes within and without, blanks between
\* (tokenize_shell).
THEOREM WordsComeOut == TokenSpec => []WordsComeThrough
  <1>1. TokenInit => TokenInv
    <2> SUFFICES ASSUME TokenInit
                 PROVE  TokenInv
      OBVIOUS
    <2>1. /\ meant \in Seq(Word) /\ text \in Seq(Glyph) /\ Spells(meant, text)
          /\ IF text = <<>> THEN meant = <<>> ELSE text[1].from = Outset
          /\ cur = <<>> /\ in_quote = FALSE /\ tokens = <<>>
      BY TextsAssumption DEF TokenInit
    <2>2. Len(meant) \in Nat
      BY <2>1, AboutWords
    <2>3. Outset \in Place /\ Outset.word = 1 /\ Outset.letter = 0 /\ Outset.quoted = FALSE
      BY DEF Outset, Place
    <2>4. SubSeq(meant, 1, 0) = <<>>
      BY SubSeqEmpty
    <2>5. Reached(Outset)
      <3>1. Outset.word - 1 = 0 /\ Outset.word <= Len(meant) + 1
        BY <2>2, <2>3
      <3>2. tokens = SubSeq(meant, 1, Outset.word - 1)
        BY <2>1, <2>4, <3>1
      <3>3. cur = <<>> /\ in_quote = Outset.quoted
        BY <2>1, <2>3
      <3>4. Outset.letter = 0 /\ ~(Outset.letter > 0)
        BY <2>3
      <3> QED
        BY <3>1, <3>2, <3>3, <3>4 DEF Reached
    <2>6. text = <<>> => Finished(meant, Outset)
      BY <2>1, <2>3, EmptySeq DEF Finished
    <2> QED
      BY <2>1, <2>3, <2>5, <2>6 DEF TokenInv
  <1>2. TokenInv => WordsComeThrough
    <2> SUFFICES ASSUME TokenInv
                 PROVE  WordsComeThrough
      OBVIOUS
    <2>1. PICK p \in Place : Reached(p) /\ IF text = <<>> THEN Finished(meant, p) ELSE text[1].from = p
      BY DEF TokenInv
    <2>2. PICK m \in Nat : m = p.word - 1
      BY DEF Place
    <2>3. meant \in Seq(Word) /\ Len(meant) \in Nat /\ m <= Len(meant) /\ tokens = SubSeq(meant, 1, m)
      BY <2>1, <2>2, AboutWords DEF TokenInv, Reached, Place
    <2>4. /\ tokens \in Seq(Word) /\ Len(tokens) = m
          /\ \A i \in 1 .. m : tokens[i] = meant[i]
      <3>1. \A i \in 1 .. m : meant[i] \in Word
        BY <2>3, ElementOfSeq
      <3> QED
        BY <2>3, <3>1, SubSeqProperties
    <2>5. ASSUME text = <<>>, cur = <<>> PROVE tokens = meant
      <3>1. Finished(meant, p)
        BY <2>1, <2>5
      <3>2. p.letter = 0
        <4> SUFFICES ASSUME p.letter > 0
                     PROVE  FALSE
          BY DEF Place
        <4>1. p.word \in 1 .. Len(meant) /\ p.letter = Len(meant[p.word])
          BY <2>3, <3>1 DEF Finished, Place
        <4>2. meant[p.word] \in Seq(Chars) /\ meant[p.word] # <<>>
          BY <2>3, <4>1, AboutWords
        <4>3. cur = meant[p.word]
          BY <2>1, <4>1, <4>2, SubSeqFull DEF Reached
        <4> QED
          BY <2>5, <4>2, <4>3
      <3>3. m = Len(meant)
        BY <2>2, <2>3, <3>1, <3>2 DEF Finished
      <3> QED
        BY <2>3, <3>3, SubSeqFull
    <2>6. DOMAIN tokens = 1 .. m
      BY <2>4, LenProperties
    <2> QED
      BY <2>3, <2>4, <2>5, <2>6 DEF WordsComeThrough
  <1> QED
    BY <1>1, <1>2, TokenStep, PTL DEF TokenSpec

----------------------------------------------------------------------------
(* The clock of a reader *)

\* A duration counts nanoseconds, audio has 48 000 samples a second and video 90 000 ticks.
CodesClock == Second = 1000000000 /\ AudioRate = 48000 /\ VideoRate = 90000

\* Every packet has a whole number of 2.5 ms.
LEMMA WholeQuarters ==
    ASSUME NEW toc \in OpusTocs
    PROVE  \E m \in Nat \ {0} : TotalSamples(toc) = 120 * m /\ m <= 24 * 63
  <1>1. PICK b \in 1 .. 24 : BaseSamples(toc.config) = 120 * b
    <2>1. toc.config \in 0 .. 31
      BY DEF OpusTocs
    <2>2. BaseSamples(toc.config) \in {120 * 1, 120 * 2, 120 * 4, 120 * 8, 120 * 16, 120 * 24}
      BY <2>1 DEF BaseSamples
    <2> QED
      BY <2>2
  <1>2. FrameCount(toc) \in 1 .. 63
    BY DEF OpusTocs, FrameCount
  <1>3. b * FrameCount(toc) \in Nat \ {0} /\ b * FrameCount(toc) <= 24 * 63
    BY <1>2
  <1>4. TotalSamples(toc) = 120 * (b * FrameCount(toc))
    BY <1>1, <1>2 DEF TotalSamples
  <1> QED
    BY <1>3, <1>4

\* The duration that the frame reader gives an Opus packet, whatever its TOC, moves the audio
\* timestamp by exactly the samples in it: nothing is lost to the two roundings
\* (parse_opus_packet_duration, send_rtp_bytes).
THEOREM AudioIsExact ==
    ASSUME NEW toc \in OpusTocs, CodesClock
    PROVE  AudioTicks(PacketDuration(toc)) = TotalSamples(toc)
  <1>1. PICK m \in Nat : TotalSamples(toc) = 120 * m
    BY WholeQuarters
  <1>2. PacketDuration(toc) = 2500000 * m
    <2>1. TotalSamples(toc) * Second = 48000 * (2500000 * m)
      BY <1>1 DEF CodesClock
    <2>2. (48000 * (2500000 * m)) \div 48000 = 2500000 * m
      OBVIOUS
    <2> QED
      BY <2>1, <2>2 DEF PacketDuration, CodesClock
  <1>3. (2500000 * m) * AudioRate = 1000000000 * (120 * m)
    BY DEF CodesClock
  <1>4. (1000000000 * (120 * m)) \div 1000000000 = 120 * m
    OBVIOUS
  <1> QED
    BY <1>1, <1>2, <1>3, <1>4 DEF AudioTicks, CodesClock

\* What a division rounds away is less than the divisor.
LEMMA Rounding ==
    ASSUME NEW a \in Nat, NEW b \in Nat \ {0}
    PROVE  /\ a \div b \in Nat
           /\ (a \div b) * b <= a
           /\ a < (a \div b) * b + b
  OBVIOUS

\* A frame of num / den seconds is off by less than a tick, all roundings together.
LEMMA LessThanATick ==
    ASSUME NEW num \in Nat \ {0}, NEW den \in Nat \ {0}, CodesClock,
           NEW ticks, ticks = VideoTicks(FrameDuration(num, den))
    PROVE  /\ ticks \in Nat
           /\ 2 * (ticks * den) <= 2 * (num * VideoRate) + den
           /\ num * VideoRate < ticks * den + den
  <1> DEFINE d == FrameDuration(num, den)
  <1>1. d \in Nat /\ d * den <= num * 1000000000 /\ num * 1000000000 < d * den + den
    <2>1. d = (num * 1000000000) \div den
      BY DEF FrameDuration, CodesClock
    <2>2. num * 1000000000 \in Nat
      OBVIOUS
    <2> QED
      BY <2>1, <2>2, Rounding
  <1>2. /\ ticks \in Nat
        /\ 1000000000 * ticks <= 90000 * d + 500000000
        /\ 90000 * d + 500000000 < 1000000000 * ticks + 1000000000
    <2>1. ticks = (d * 90000 + 500000000) \div 1000000000
      BY DEF VideoTicks, CodesClock
    <2> HIDE DEF d
    <2> QED
      BY <1>1, <2>1
  <1> HIDE DEF d
  <1>3. /\ 1000000000 * (ticks * den) <= 90000 * (d * den) + 500000000 * den
        /\ 90000 * (d * den) + 500000000 * den < 1000000000 * (ticks * den) + 1000000000 * den
    <2>1. (1000000000 * ticks) * den <= (90000 * d + 500000000) * den
      BY <1>1, <1>2
    <2>2. (90000 * d + 500000000) * den < (1000000000 * ticks + 1000000000) * den
      BY <1>1, <1>2
    <2> QED
      BY <1>1, <1>2, <2>1, <2>2
  <1>4. ticks * den \in Nat /\ d * den \in Nat
    BY <1>1, <1>2
  <1>5. num * VideoRate = 90000 * num
    BY DEF CodesClock
  <1> DEFINE x == ticks * den
             w == d * den
  <1>6. /\ x \in Nat /\ w \in Nat
        /\ w <= num * 1000000000 /\ num * 1000000000 < w + den
        /\ 1000000000 * x <= 90000 * w + 500000000 * den
        /\ 90000 * w + 500000000 * den < 1000000000 * x + 1000000000 * den
    BY <1>1, <1>3, <1>4
  <1> HIDE DEF x, w
  <1>7. 2 * x <= 2 * (90000 * num) + den /\ 90000 * num < x + den
    BY <1>6
  <1> QED
    BY <1>2, <1>5, <1>7 DEF x

\* At every frame rate that divides 90 kHz the video timestamp moves by exactly the ticks of a
\* frame, although the duration in between is rounded down to nanoseconds: that is what
\* rounding to the nearest is for (next_frame, send_rtp_bytes).
THEOREM VideoIsExact ==
    ASSUME NEW num \in Nat \ {0}, NEW den \in Nat \ {0}, CodesClock,
           NEW frame \in Nat, num * VideoRate = frame * den
    PROVE  VideoTicks(FrameDuration(num, den)) = frame
  <1> DEFINE ticks == VideoTicks(FrameDuration(num, den))
  <1>1. ticks \in Nat /\ 2 * (ticks * den) <= 2 * (frame * den) + den /\ frame * den < ticks * den + den
    BY LessThanATick
  <1> HIDE DEF ticks
  <1>2. ASSUME ticks > frame PROVE FALSE
    <2>1. ticks * den >= (frame + 1) * den
      BY <1>1, <1>2
    <2>2. (frame + 1) * den = frame * den + den
      OBVIOUS
    <2> QED
      BY <1>1, <2>1, <2>2
  <1>3. ASSUME ticks < frame PROVE FALSE
    <2>1. (ticks + 1) * den <= frame * den
      BY <1>1, <1>3
    <2>2. (ticks + 1) * den = ticks * den + den
      BY <1>1
    <2> QED
      BY <1>1, <2>1, <2>2
  <1>4. ticks = frame
    BY <1>1, <1>2, <1>3
  <1> QED
    BY <1>4 DEF ticks

----------------------------------------------------------------------------
(* What the readers yield *)

Segment == [packet : Nat \ {0}, part : Nat \ {0}]

\* The reader is at a segment of a packet, or behind the last packet.
Typed ==
    /\ container \in Containers
    /\ at \in Segment /\ at.packet <= Len(Packets) + 1
    /\ at.part <= IF More THEN Lacing(Packets[at.packet].size) ELSE 1
    /\ walking \in BOOLEAN
    /\ queue \in Seq(Seq(Segment)) /\ yielded \in Seq(Seq(Segment))
    /\ container.kind = "ivf" => at.part = 1 /\ queue = <<>> /\ ~walking

\* The packet in the making has all segments before this one: each of them is full.
Partial == current_packet = [k \in 1 .. at.part - 1 |-> [packet |-> at.packet, part |-> k]]

\* A header of this kind was met, or a sound.
Over(h) == \E i \in WasRead : HasBytes(i) /\ (Packets[i].is = h \/ IsSound(i))

Headers == container.kind = "ogg" => skipped = {h \in {"head", "tags"} : Over(h)}

\* Nothing is left in the queue, and no page half walked, when the reader fails.
Drained == status # "reading" => queue = <<>> /\ ~walking

Whole == \A k \in DOMAIN Found : \E i \in WasRead : IsSample(i) /\ Found[k] = Payload(i)
Every == \A i \in WasRead : IsSample(i) => \E k \in DOMAIN Found : Found[k] = Payload(i)
Ordered == \A k, l \in DOMAIN Found : k < l => Found[k][1].packet < Found[l][1].packet

Yields == container.kind = "ogg" => Whole /\ Every /\ Ordered

ReaderInv == Typed /\ Partial /\ Headers /\ Drained /\ Yields

\* Quotient and remainder.
LEMMA Divided ==
    ASSUME NEW a \in Nat, NEW b \in Nat \ {0}
    PROVE  a \div b \in Nat /\ a % b \in 0 .. b - 1 /\ a = b * (a \div b) + (a % b)
  OBVIOUS

LEMMA Quotient ==
    ASSUME NEW a \in Int, NEW b \in Nat \ {0}, NEW q \in Int, NEW r \in 0 .. b - 1, a = b * q + r
    PROVE  a \div b = q
  OBVIOUS

\* The pieces of a packet that have bytes are the full ones, and the rest if there is one.
LEMMA Pieces ==
    ASSUME NEW size \in Nat
    PROVE  /\ (size + Full - 1) \div Full =
                  IF size % Full = 0 THEN Lacing(size) - 1 ELSE Lacing(size)
           /\ Lacing(size) \in Nat \ {0}
           /\ size % Full \in 0 .. Full - 1
           /\ size > 0 => (size + Full - 1) \div Full > 0
           /\ size = 0 => size % Full = 0 /\ Lacing(size) = 1
  <1>0. Full \in Nat \ {0}
    BY FrameReaderAssumption
  <1>1. PICK q \in Nat, r \in 0 .. Full - 1 :
            q = size \div Full /\ r = size % Full /\ size = Full * q + r
    BY <1>0, Divided
  <1>2. CASE r = 0
    <2>1. PICK a \in Int : a = size + Full - 1
      BY <1>0
    <2>2. a = Full * q + (Full - 1)
      BY <1>0, <1>1, <1>2, <2>1
    <2>3. a \div Full = q
      BY <1>0, <2>2, Quotient
    <2>4. size > 0 => q > 0
      BY <1>0, <1>1, <1>2
    <2>5. size = 0 => q = 0
      <3>1. CASE q > 0
        BY <1>0, <1>1, <1>2, <3>1
      <3> QED
        BY <3>1
    <2> QED
      BY <1>0, <1>1, <1>2, <2>1, <2>3, <2>4, <2>5 DEF Lacing
  <1>3. CASE r # 0
    <2>1. PICK a \in Int, q1 \in Nat : a = size + Full - 1 /\ q1 = q + 1
      BY <1>0
    <2>2. a = Full * q1 + (r - 1)
      BY <1>0, <1>1, <2>1
    <2>3. r - 1 \in 0 .. Full - 1
      BY <1>0, <1>1, <1>3
    <2>4. a \div Full = q1
      BY <1>0, <2>2, <2>3, Quotient
    <2>5. size # 0
      <3>1. Full * q \in Nat
        BY <1>0
      <3> QED
        BY <1>1, <1>3, <3>1
    <2> QED
      BY <1>0, <1>1, <1>3, <2>1, <2>4, <2>5 DEF Lacing
  <1> QED
    BY <1>2, <1>3

\* What the environment gives: packets with a size and a TOC.
LEMMA AboutPackets ==
    ASSUME Typed
    PROVE  /\ Packets \in Seq(Packet) /\ Len(Packets) \in Nat
           /\ container.kind \in {"ogg", "ivf"} /\ container.num \in Nat /\ container.den \in Nat
           /\ \A i \in 1 .. Len(Packets) :
                  /\ Packets[i].size \in Nat /\ Packets[i].toc \in OpusTocs
                  /\ Packets[i].is \in {"head", "tags", "data"}
  <1>1. container \in [kind : {"ogg", "ivf"}, packets : Seq(Packet), num : Nat, den : Nat]
    BY FrameReaderAssumption DEF Typed
  <1>2. Packets \in Seq(Packet)
    BY <1>1 DEF Packets
  <1>3. Len(Packets) \in Nat /\ \A i \in 1 .. Len(Packets) : Packets[i] \in Packet
    BY <1>2, LenProperties, ElementOfSeq
  <1> QED
    BY <1>1, <1>2, <1>3 DEF Packet

\* Nothing but the place moves in a container.
LEMMA SameContainer ==
    ASSUME UNCHANGED container
    PROVE  /\ Packets' = Packets
           /\ \A i : HasBytes(i)' = HasBytes(i) /\ Payload(i)' = Payload(i)
           /\ \A i : IsSound(i)' = IsSound(i)
           /\ \A i : IsSample(i)' = IsSample(i)
  <1>1. Packets' = Packets
    BY DEF Packets
  <1>2. \A i : HasBytes(i)' = HasBytes(i) /\ Payload(i)' = Payload(i)
    BY <1>1 DEF HasBytes, Payload
  <1>3. \A i : IsSound(i)' = IsSound(i)
    BY <1>1, <1>2 DEF IsSound
  <1>4. \A i : IsSample(i)' = IsSample(i)
    BY <1>2, <1>3 DEF IsSample
  <1> QED
    BY <1>1, <1>2, <1>3, <1>4

\* Appending to the second of two sequences.
LEMMA AppendBehind ==
    ASSUME NEW S, NEW s \in Seq(S), NEW t \in Seq(S), NEW e \in S
    PROVE  s \o Append(t, e) = Append(s \o t, e)
  <1>1. Append(t, e) = t \o <<e>> /\ Append(s \o t, e) = (s \o t) \o <<e>>
    BY ConcatProperties, AppendIsConcat
  <1>2. <<e>> \in Seq(S)
    OBVIOUS
  <1>3. (s \o t) \o <<e>> = s \o (t \o <<e>>)
    BY <1>2, ConcatAssociative
  <1> QED
    BY <1>1, <1>3

\* Moving the first of a sequence behind another that is before it changes nothing.
LEMMA MoveOver ==
    ASSUME NEW S, NEW s \in Seq(S), NEW t \in Seq(S), t # <<>>
    PROVE  Append(s, Head(t)) \o Tail(t) = s \o t
  <1>1. Head(t) \in S /\ Tail(t) \in Seq(S) /\ <<Head(t)>> \in Seq(S)
    BY HeadTailProperties
  <1>2. Append(s, Head(t)) = s \o <<Head(t)>>
    BY <1>1, AppendIsConcat
  <1>3. (s \o <<Head(t)>>) \o Tail(t) = s \o (<<Head(t)>> \o Tail(t))
    BY <1>1, ConcatAssociative
  <1>4. <<Head(t)>> \o Tail(t) = t
    <2>1. t = SubSeq(t, 1, Len(t)) /\ Tail(t) = SubSeq(t, 2, Len(t)) /\ Len(t) \in Nat \ {0}
      BY SubSeqFull, TailIsSubSeq, EmptySeq
    <2>2. SubSeq(t, 1, Len(t)) = <<t[1]>> \o SubSeq(t, 2, Len(t))
      BY <2>1, SubSeqRecursiveFirst
    <2> QED
      BY <2>1, <2>2
  <1> QED
    BY <1>2, <1>3, <1>4

----------------------------------------------------------------------------
(* Segments *)

\* The first n segments of packet i.
Run(i, n) == [k \in 1 .. n |-> [packet |-> i, part |-> k]]

LEMMA RunIsSeq ==
    ASSUME NEW i \in Nat \ {0}, NEW n \in Nat
    PROVE  /\ Run(i, n) \in Seq(Segment)
           /\ Len(Run(i, n)) = n
           /\ \A k \in 1 .. n : Run(i, n)[k] = [packet |-> i, part |-> k]
  <1>1. Run(i, n) \in [1 .. n -> Segment]
    BY DEF Run, Segment
  <1>2. Run(i, n) \in Seq(Segment)
    BY <1>1
  <1>3. DOMAIN Run(i, n) = 1 .. n
    BY <1>1
  <1>4. Len(Run(i, n)) \in Nat /\ DOMAIN Run(i, n) = 1 .. Len(Run(i, n))
    BY <1>2, LenProperties
  <1>5. Len(Run(i, n)) = n
    BY <1>3, <1>4
  <1> QED
    BY <1>2, <1>5 DEF Run

LEMMA RunGrows ==
    ASSUME NEW i \in Nat \ {0}, NEW n \in Nat \ {0}
    PROVE  Append(Run(i, n - 1), [packet |-> i, part |-> n]) = Run(i, n)
  <1> DEFINE e == [packet |-> i, part |-> n]
             m == n - 1
             s == Append(Run(i, m), e)
  <1>1. m \in Nat /\ m + 1 = n /\ e \in Segment
    BY DEF Segment
  <1> HIDE DEF m
  <1>2. /\ Run(i, m) \in Seq(Segment) /\ Len(Run(i, m)) = m
        /\ \A k \in 1 .. m : Run(i, m)[k] = [packet |-> i, part |-> k]
    BY <1>1, RunIsSeq
  <1> HIDE DEF e
  <1>3. /\ s \in Seq(Segment) /\ Len(s) = m + 1
        /\ \A k \in 1 .. m : s[k] = Run(i, m)[k]
        /\ s[m + 1] = e
    BY <1>1, <1>2, AppendProperties
  <1>4. /\ Run(i, n) \in Seq(Segment) /\ Len(Run(i, n)) = n
        /\ \A k \in 1 .. n : Run(i, n)[k] = [packet |-> i, part |-> k]
    BY RunIsSeq
  <1>5. \A k \in 1 .. n : s[k] = Run(i, n)[k]
    <2>1. \A k \in 1 .. n : k \in 1 .. m \/ k = n
      BY <1>1
    <2> QED
      BY <1>1, <1>2, <1>3, <1>4, <2>1 DEF e
  <1> HIDE DEF s
  <1>6. s = Run(i, n)
    BY <1>1, <1>3, <1>4, <1>5, SeqEqual
  <1> QED
    BY <1>6 DEF s, e, m

\* Every segment but the last is full, and the last is not: that is how the reader knows.
LEMMA Laced ==
    ASSUME Typed, More
    PROVE  /\ at.packet \in 1 .. Len(Packets) /\ Packets[at.packet].size \in Nat
           /\ at = [packet |-> at.packet, part |-> at.part]
           /\ at.part \in 1 .. Lacing(Packets[at.packet].size)
           /\ EndsPacket(SegmentLen(at)) <=> at.part = Lacing(Packets[at.packet].size)
           /\ ~EndsPacket(SegmentLen(at)) => SegmentLen(at) > 0
           /\ EndsPacket(SegmentLen(at)) => SegmentLen(at) = Packets[at.packet].size % Full
  <1>1. at.packet \in 1 .. Len(Packets) /\ Packets[at.packet].size \in Nat
    BY AboutPackets DEF Typed, More, Segment
  <1> DEFINE size == Packets[at.packet].size
  <1>2. Lacing(size) \in Nat \ {0} /\ size % Full \in 0 .. Full - 1
    BY <1>1, Pieces
  <1>3. at.part \in 1 .. Lacing(size)
    BY <1>2 DEF Typed, Segment
  <1>4. SegmentLen(at) = IF at.part < Lacing(size) THEN Full ELSE size % Full
    BY DEF SegmentLen
  <1>5. at = [packet |-> at.packet, part |-> at.part]
    BY DEF Typed, Segment
  <1>6. Full \in Nat \ {0}
    BY FrameReaderAssumption
  <1> HIDE DEF size
  <1>7. EndsPacket(SegmentLen(at)) <=> at.part = Lacing(size)
    BY <1>2, <1>3, <1>4, <1>6 DEF EndsPacket
  <1>8. ~EndsPacket(SegmentLen(at)) => SegmentLen(at) > 0
    BY <1>2, <1>3, <1>4, <1>6, <1>7
  <1>9. EndsPacket(SegmentLen(at)) => SegmentLen(at) = size % Full
    BY <1>2, <1>3, <1>4, <1>7
  <1> QED
    BY <1>1, <1>3, <1>5, <1>7, <1>8, <1>9 DEF size

\* What has been joined when a packet ends is the packet.
LEMMA Joined ==
    ASSUME Typed, Partial, More, EndsPacket(SegmentLen(at))
    PROVE  (IF SegmentLen(at) > 0 THEN Append(current_packet, at) ELSE current_packet) = Payload(at.packet)
  <1> DEFINE size == Packets[at.packet].size
             i == at.packet
             n == at.part
             joined == IF SegmentLen(at) > 0 THEN Append(current_packet, at) ELSE current_packet
  <1>1. /\ i \in Nat \ {0} /\ size \in Nat /\ at = [packet |-> i, part |-> n]
        /\ n = Lacing(size) /\ SegmentLen(at) = size % Full
    BY Laced DEF Typed, Segment
  <1>2. current_packet = Run(i, n - 1)
    BY DEF Partial, Run
  <1>3. /\ (size + Full - 1) \div Full = IF size % Full = 0 THEN n - 1 ELSE n
        /\ n \in Nat \ {0} /\ size % Full \in 0 .. Full - 1
    BY <1>1, Pieces
  <1>4. Payload(i) = IF size % Full = 0 THEN Run(i, n - 1) ELSE Run(i, n)
    BY <1>3 DEF Payload, Run
  <1> HIDE DEF i, n, size
  <1>5. ASSUME size % Full = 0 PROVE joined = Payload(i)
    BY <1>1, <1>2, <1>4, <1>5 DEF joined
  <1>6. ASSUME size % Full # 0 PROVE joined = Payload(i)
    <2>1. size % Full > 0
      BY <1>3, <1>6, FrameReaderAssumption
    <2>2. Append(Run(i, n - 1), at) = Run(i, n)
      BY <1>1, <1>3, RunGrows
    <2> QED
      BY <1>1, <1>2, <1>4, <1>6, <2>1, <2>2 DEF joined
  <1> HIDE DEF joined
  <1>7. joined = Payload(i)
    BY <1>5, <1>6
  <1> QED
    BY <1>7 DEF joined, i

\* A payload is empty when its packet is, and starts with its packet's first segment.
LEMMA Payloads ==
    ASSUME Typed, NEW i \in 1 .. Len(Packets)
    PROVE  /\ Payload(i) \in Seq(Segment)
           /\ ~HasBytes(i) => Payload(i) = <<>>
           /\ HasBytes(i) => Payload(i) # <<>> /\ Payload(i)[1] = [packet |-> i, part |-> 1]
  <1> DEFINE size == Packets[i].size
  <1>1. size \in Nat /\ i \in Nat \ {0}
    BY AboutPackets
  <1> HIDE DEF size
  <1>2. PICK n : n = (size + Full - 1) \div Full
    OBVIOUS
  <1>3. n \in Nat /\ (size > 0 => n > 0) /\ (size = 0 => n = 0)
    <2>1. /\ n = IF size % Full = 0 THEN Lacing(size) - 1 ELSE Lacing(size)
          /\ Lacing(size) \in Nat \ {0} /\ (size > 0 => n > 0)
          /\ (size = 0 => size % Full = 0 /\ Lacing(size) = 1)
      BY <1>1, <1>2, Pieces
    <2> QED
      BY <2>1
  <1>4. Payload(i) = Run(i, n)
    BY <1>2 DEF Payload, Run, size
  <1>5. /\ Run(i, n) \in Seq(Segment) /\ Len(Run(i, n)) = n
        /\ \A k \in 1 .. n : Run(i, n)[k] = [packet |-> i, part |-> k]
    BY <1>1, <1>3, RunIsSeq
  <1>6. n > 0 => Run(i, n) # <<>> /\ Run(i, n)[1] = [packet |-> i, part |-> 1]
    BY <1>3, <1>5, EmptySeq
  <1>7. n = 0 => Run(i, n) = <<>>
    BY <1>5, EmptySeq
  <1> QED
    BY <1>1, <1>3, <1>4, <1>5, <1>6, <1>7 DEF HasBytes, size

----------------------------------------------------------------------------
(* The invariant of the readers *)

LEMMA ReaderStarts == ReaderInit => ReaderInv
  <1> SUFFICES ASSUME ReaderInit
               PROVE  ReaderInv
    OBVIOUS
  <1>1. /\ container \in Containers /\ at = [packet |-> 1, part |-> 1] /\ walking = FALSE
        /\ skipped = {} /\ queue = <<>> /\ current_packet = <<>> /\ yielded = <<>>
        /\ status = "reading"
    BY DEF ReaderInit, First
  <1>2. Typed
    <2>1. Len(Packets) \in Nat /\ \A i \in 1 .. Len(Packets) : Packets[i].size \in Nat
      <3>1. container \in [kind : {"ogg", "ivf"}, packets : Seq(Packet), num : Nat, den : Nat]
        BY <1>1, FrameReaderAssumption
      <3>2. Packets \in Seq(Packet)
        BY <3>1 DEF Packets
      <3>3. Len(Packets) \in Nat /\ \A i \in 1 .. Len(Packets) : Packets[i] \in Packet
        BY <3>2, LenProperties, ElementOfSeq
      <3> QED
        BY <3>3 DEF Packet
    <2>2. More => Lacing(Packets[1].size) \in Nat \ {0}
      <3>1. \A size \in Nat : Lacing(size) \in Nat \ {0}
        BY Pieces
      <3>2. More => Packets[1].size \in Nat
        BY <1>1, <2>1 DEF More
      <3> QED
        BY <3>1, <3>2
    <2>3. at.part <= IF More THEN Lacing(Packets[at.packet].size) ELSE 1
      BY <1>1, <2>2
    <2>4. at \in Segment /\ at.packet = 1 /\ at.part = 1
      BY <1>1 DEF Segment
    <2>5. queue \in Seq(Seq(Segment)) /\ yielded \in Seq(Seq(Segment))
      BY <1>1, EmptySeq
    <2>6. at.packet <= Len(Packets) + 1
      BY <2>1, <2>4
    <2>7. at.part = 1 /\ queue = <<>> /\ ~walking /\ walking \in BOOLEAN
      BY <1>1, <2>4
    <2> QED
      BY <1>1, <2>3, <2>4, <2>5, <2>6, <2>7, Zenon DEF Typed
  <1>3. WasRead = {}
    BY <1>1 DEF WasRead
  <1>4. Partial
    BY <1>1 DEF Partial
  <1>5. Found = <<>> /\ DOMAIN Found = {}
    <2>1. Found = <<>>
      BY <1>1, EmptySeq, ConcatEmptySeq DEF Found
    <2> QED
      BY <2>1
  <1>6. Headers /\ Drained
    BY <1>1, <1>3 DEF Headers, Over, Drained
  <1>7. Yields
    BY <1>3, <1>5 DEF Yields, Whole, Every, Ordered
  <1> QED
    BY <1>2, <1>4, <1>6, <1>7 DEF ReaderInv

\* Steps of the reader that find nothing.
LEMMA NothingFound ==
    ASSUME Yields, UNCHANGED container, Found' = Found, at'.packet = at.packet
    PROVE  Yields'
  <1>1. WasRead' = WasRead
    BY DEF WasRead
  <1> QED
    BY <1>1, SameContainer DEF Yields, Whole, Every, Ordered

LEMMA FoundIsSeq ==
    ASSUME Typed
    PROVE  Found \in Seq(Seq(Segment)) /\ Len(Found) \in Nat /\ DOMAIN Found = 1 .. Len(Found)
  <1>1. Found \in Seq(Seq(Segment))
    BY ConcatProperties DEF Typed, Found
  <1> QED
    BY <1>1, LenProperties

\* A packet that is no sample was read.
LEMMA NoneFound ==
    ASSUME Typed, Yields, UNCHANGED container, Found' = Found,
           ~IsSample(at.packet), at'.packet = at.packet + 1
    PROVE  Yields'
  <1>1. at.packet \in Nat \ {0}
    BY DEF Typed, Segment
  <1>2. WasRead' = WasRead \cup {at.packet}
    BY <1>1 DEF WasRead
  <1> QED
    BY <1>2, SameContainer DEF Yields, Whole, Every, Ordered

\* A sample was read, and is put behind the others.
LEMMA OneFound ==
    ASSUME Typed, Yields, container.kind = "ogg", UNCHANGED container, More,
           Found' = Append(Found, Payload(at.packet)),
           IsSample(at.packet), at'.packet = at.packet + 1
    PROVE  Yields'
  <1> DEFINE p == Payload(at.packet)
             n == Len(Found)
  <1>1. at.packet \in 1 .. Len(Packets) /\ Len(Packets) \in Nat
    BY Laced, AboutPackets
  <1>2. WasRead' = WasRead \cup {at.packet} /\ \A i \in WasRead : i \in 1 .. Len(Packets) /\ i < at.packet
    BY <1>1 DEF WasRead
  <1>3. HasBytes(at.packet)
    BY DEF IsSample
  <1>4. p \in Seq(Segment) /\ p[1].packet = at.packet
    <2>1. p \in Seq(Segment) /\ p[1] = [packet |-> at.packet, part |-> 1]
      BY <1>1, <1>3, Payloads
    <2> HIDE DEF p
    <2> QED
      BY <2>1
  <1>5. Found \in Seq(Seq(Segment)) /\ n \in Nat /\ DOMAIN Found = 1 .. n
    BY FoundIsSeq
  <1>6. /\ Found' \in Seq(Seq(Segment)) /\ Len(Found') = n + 1
        /\ \A k \in 1 .. n : Found'[k] = Found[k]
        /\ Found'[n + 1] = p
    BY <1>4, <1>5, AppendProperties
  <1>7. DOMAIN Found' = 1 .. n + 1
    BY <1>6, LenProperties
  <1> HIDE DEF p, n
  <1>8. \A k \in DOMAIN Found' : (k \in DOMAIN Found /\ Found'[k] = Found[k]) \/ (k = n + 1 /\ Found'[k] = p)
    BY <1>5, <1>6, <1>7
  <1>9. DOMAIN Found \subseteq DOMAIN Found' /\ n + 1 \in DOMAIN Found'
    BY <1>5, <1>7
  <1>10. \A k \in DOMAIN Found : Found[k][1].packet < at.packet
    <2> SUFFICES ASSUME NEW k \in DOMAIN Found
                 PROVE  Found[k][1].packet < at.packet
      OBVIOUS
    <2>1. PICK i \in WasRead : IsSample(i) /\ Found[k] = Payload(i)
      BY DEF Yields, Whole
    <2>2. Payload(i)[1].packet = i
      <3>1. i \in 1 .. Len(Packets) /\ HasBytes(i)
        BY <1>2, <2>1 DEF IsSample
      <3>2. Payload(i)[1] = [packet |-> i, part |-> 1]
        BY <3>1, Payloads
      <3> QED
        BY <3>2
    <2> QED
      BY <1>2, <2>1, <2>2
  <1>11. Whole'
    <2> SUFFICES ASSUME NEW k \in DOMAIN Found'
                 PROVE  \E i \in WasRead' : IsSample(i)' /\ Found'[k] = Payload(i)'
      BY DEF Whole
    <2>1. CASE k \in DOMAIN Found /\ Found'[k] = Found[k]
      BY <1>2, <2>1, SameContainer DEF Yields, Whole
    <2>2. CASE k = n + 1 /\ Found'[k] = p
      BY <1>2, <2>2, SameContainer DEF p
    <2> QED
      BY <1>8, <2>1, <2>2
  <1>12. Every'
    <2> SUFFICES ASSUME NEW i \in WasRead', IsSample(i)'
                 PROVE  \E k \in DOMAIN Found' : Found'[k] = Payload(i)'
      BY DEF Every
    <2>1. CASE i \in WasRead
      <3>1. PICK k \in DOMAIN Found : Found[k] = Payload(i)
        BY <2>1, SameContainer DEF Yields, Every
      <3>2. k \in DOMAIN Found' /\ Found'[k] = Found[k]
        BY <1>5, <1>6, <1>9
      <3> QED
        BY <3>1, <3>2, SameContainer
    <2>2. CASE i = at.packet
      <3>1. Found'[n + 1] = Payload(i)'
        BY <1>6, <2>2, SameContainer DEF p, n
      <3> QED
        BY <1>9, <3>1
    <2> QED
      BY <1>2, <2>1, <2>2
  <1>13. Ordered'
    <2> SUFFICES ASSUME NEW k \in DOMAIN Found', NEW l \in DOMAIN Found', k < l
                 PROVE  Found'[k][1].packet < Found'[l][1].packet
      BY DEF Ordered
    <2>1. k \in DOMAIN Found /\ Found'[k] = Found[k]
      BY <1>5, <1>6, <1>7, <1>8 DEF n
    <2>2. CASE l \in DOMAIN Found /\ Found'[l] = Found[l]
      BY <2>1, <2>2 DEF Yields, Ordered
    <2>3. CASE l = n + 1 /\ Found'[l] = p
      BY <1>4, <1>10, <2>1, <2>3
    <2> QED
      BY <1>8, <2>2, <2>3
  <1> QED
    BY <1>11, <1>12, <1>13 DEF Yields

\* Which complete packets are samples: those with bytes that are not a header yet to be skipped.
LEMMA SampleIs ==
    ASSUME Typed, Headers, container.kind = "ogg", More
    PROVE  /\ IsSample(at.packet) <=>
                  HasBytes(at.packet) /\ Packets[at.packet].is \notin {"head", "tags"} \ skipped
           /\ Skips(Payload(at.packet)) <=>
                  HasBytes(at.packet) /\ Packets[at.packet].is \in {"head", "tags"} \ skipped
           /\ Payload(at.packet) = <<>> <=> ~HasBytes(at.packet)
  <1> DEFINE i == at.packet
  <1>1. i \in 1 .. Len(Packets) /\ Len(Packets) \in Nat
    BY Laced, AboutPackets
  <1>2. Packets[i].is \in {"head", "tags", "data"}
    BY <1>1, AboutPackets
  <1>3. skipped = {h \in {"head", "tags"} : Over(h)}
    BY DEF Headers
  <1>4. /\ ~HasBytes(i) => Payload(i) = <<>>
        /\ HasBytes(i) => Payload(i) # <<>> /\ Payload(i)[1] = [packet |-> i, part |-> 1]
    BY <1>1, Payloads
  <1>5. WasRead = 1 .. i - 1
    BY DEF WasRead
  <1> HIDE DEF i
  <1>6. IsSample(i) <=>
            HasBytes(i) /\ (IsSound(i) \/ \E j \in WasRead : IsSound(j))
    BY <1>1, <1>5 DEF IsSample
  <1>7. IsSound(i) <=>
            HasBytes(i) /\ (\/ Packets[i].is = "data"
                           \/ \E j \in WasRead : HasBytes(j) /\ Packets[j].is = Packets[i].is)
    BY <1>5 DEF IsSound
  <1>8. \A j : IsSound(j) => HasBytes(j)
    BY DEF IsSound
  <1>9. IsSample(i) <=> HasBytes(i) /\ (Packets[i].is = "data" \/ Over(Packets[i].is))
    BY <1>6, <1>7, <1>8 DEF Over
  <1>10. Packets[i].is \in {"head", "tags"} \ skipped <=> ~(Packets[i].is = "data" \/ Over(Packets[i].is))
    BY <1>2, <1>3
  <1>11. Skips(Payload(i)) <=> HasBytes(i) /\ Packets[i].is \in {"head", "tags"} \ skipped
    BY <1>4 DEF Skips
  <1> QED
    BY <1>4, <1>9, <1>10, <1>11 DEF i

\* A complete packet makes its kind a header that was met; a sample makes both.
LEMMA HeadersGrow ==
    ASSUME Typed, Headers, UNCHANGED container, container.kind = "ogg", More,
           at'.packet = at.packet + 1,
           \/ IsSample(at.packet) /\ skipped' = {"head", "tags"}
           \/ /\ HasBytes(at.packet) /\ ~IsSample(at.packet)
              /\ skipped' = skipped \cup {Packets[at.packet].is}
           \/ ~HasBytes(at.packet) /\ skipped' = skipped
    PROVE  Headers'
  <1> DEFINE i == at.packet
  <1>1. i \in 1 .. Len(Packets) /\ Len(Packets) \in Nat
    BY Laced, AboutPackets
  <1>2. Packets[i].is \in {"head", "tags", "data"}
    BY <1>1, AboutPackets
  <1>3. WasRead = 1 .. i - 1 /\ WasRead' = WasRead \cup {i}
    BY <1>1 DEF WasRead
  <1>4. \A h : Over(h)' <=> Over(h) \/ (HasBytes(i) /\ (Packets[i].is = h \/ IsSound(i)))
    BY <1>3, SameContainer DEF Over
  <1>5. skipped = {h \in {"head", "tags"} : Over(h)}
    BY DEF Headers
  <1>6. IsSample(i) => HasBytes(i) /\ (IsSound(i) \/ \E j \in WasRead : IsSound(j))
    BY <1>1, <1>3 DEF IsSample
  <1>7. ~IsSample(i) => ~(HasBytes(i) /\ IsSound(i))
    BY <1>1 DEF IsSample
  <1>8. ~IsSample(i) /\ HasBytes(i) => Packets[i].is \in {"head", "tags"}
    BY <1>1, <1>2, <1>7 DEF IsSound
  <1>9. \A j : IsSound(j) => HasBytes(j)
    BY DEF IsSound
  <1>10. IsSample(i) => \A h : Over(h)'
    BY <1>4, <1>6, <1>9 DEF Over
  <1> HIDE DEF i
  <1>11. skipped' = {h \in {"head", "tags"} : Over(h)'}
    <2>1. CASE IsSample(i) /\ skipped' = {"head", "tags"}
      BY <1>10, <2>1
    <2>2. CASE HasBytes(i) /\ ~IsSample(i) /\ skipped' = skipped \cup {Packets[i].is}
      BY <1>4, <1>5, <1>7, <1>8, <2>2
    <2>3. CASE ~HasBytes(i) /\ skipped' = skipped
      BY <1>4, <1>5, <2>3
    <2> QED
      BY <2>1, <2>2, <2>3 DEF i
  <1> QED
    BY <1>11 DEF Headers

----------------------------------------------------------------------------
(* The steps *)

\* The place after a segment, and what the packet in the making is there.
LEMMA PlaceStep ==
    ASSUME ReaderInv, WalkSegment
    PROVE  /\ Typed' /\ container.kind = "ogg"
           /\ EndsPacket(SegmentLen(at)) => at' = First(at.packet + 1)
           /\ ~EndsPacket(SegmentLen(at)) => at' = [packet |-> at.packet, part |-> at.part + 1]
  <1> DEFINE size == Packets[at.packet].size
  <1>1. Typed /\ walking /\ More /\ container' = container /\ walking' = walking
        /\ yielded' = yielded /\ at' = Following(at)
    BY DEF ReaderInv, WalkSegment
  <1>2. container.kind = "ogg"
    BY <1>1, AboutPackets DEF Typed
  <1>3. /\ at.packet \in 1 .. Len(Packets) /\ size \in Nat /\ Len(Packets) \in Nat
        /\ at = [packet |-> at.packet, part |-> at.part]
        /\ at.part \in 1 .. Lacing(size)
        /\ EndsPacket(SegmentLen(at)) <=> at.part = Lacing(size)
    BY <1>1, Laced, AboutPackets
  <1>4. Lacing(size) \in Nat \ {0}
    BY <1>3, Pieces
  <1>5. /\ EndsPacket(SegmentLen(at)) => at' = First(at.packet + 1)
        /\ ~EndsPacket(SegmentLen(at)) => at' = [packet |-> at.packet, part |-> at.part + 1]
    <2>1. at' = IF at.part < Lacing(size) THEN [at EXCEPT !.part = @ + 1] ELSE First(at.packet + 1)
      BY <1>1 DEF Following
    <2> HIDE DEF size
    <2>2. [at EXCEPT !.part = @ + 1] = [packet |-> at.packet, part |-> at.part + 1]
      BY <1>3
    <2> QED
      BY <1>3, <1>4, <2>1, <2>2
  <1>6. at' \in Segment /\ at'.packet <= Len(Packets) + 1
    BY <1>3, <1>4, <1>5 DEF Segment, First
  <1>7. Packets' = Packets
    BY <1>1, SameContainer
  <1>8. at'.part <= IF More' THEN Lacing(Packets'[at'.packet].size) ELSE 1
    <2>1. CASE EndsPacket(SegmentLen(at))
      <3>1. at'.part = 1
        BY <1>5, <2>1 DEF First
      <3>2. More' => at'.packet \in 1 .. Len(Packets)
        BY <1>3, <1>6, <1>7 DEF More, Segment
      <3>3. More' => Lacing(Packets[at'.packet].size) \in Nat \ {0}
        BY <1>1, <3>2, AboutPackets, Pieces
      <3> QED
        BY <1>7, <3>1, <3>3
    <2>2. CASE ~EndsPacket(SegmentLen(at))
      <3>1. at'.packet = at.packet /\ at'.part = at.part + 1
        BY <1>5, <2>2
      <3>2. More' /\ at.part + 1 <= Lacing(size)
        BY <1>1, <1>3, <1>4, <1>7, <2>2, <3>1 DEF More
      <3> QED
        BY <1>7, <3>1, <3>2
    <2> QED
      BY <2>1, <2>2
  <1>9. queue' \in Seq(Seq(Segment))
    <2>1. CASE UNCHANGED queue
      BY <1>1, <2>1 DEF Typed
    <2>2. CASE EndsPacket(SegmentLen(at)) /\ queue' = Append(queue, Payload(at.packet))
      <3>1. Payload(at.packet) \in Seq(Segment)
        BY <1>1, <1>3, Payloads
      <3> QED
        BY <1>1, <2>2, <3>1, AppendProperties DEF Typed
    <2>3. UNCHANGED queue \/ (EndsPacket(SegmentLen(at)) /\ queue' = Append(queue, Payload(at.packet)))
      <3>1. CASE EndsPacket(SegmentLen(at))
        <4>1. Complete(Payload(at.packet))
          BY <3>1, Joined DEF ReaderInv, WalkSegment
        <4> QED
          BY <3>1, <4>1 DEF Complete
      <3>2. CASE ~EndsPacket(SegmentLen(at))
        BY <3>2 DEF WalkSegment
      <3> QED
        BY <3>1, <3>2
    <2> QED
      BY <2>1, <2>2, <2>3
  <1> QED
    BY <1>1, <1>2, <1>5, <1>6, <1>7, <1>8, <1>9 DEF Typed

LEMMA WalkStep ==
    ASSUME ReaderInv, WalkSegment
    PROVE  ReaderInv'
  <1> DEFINE i == at.packet
  <1>1. /\ Typed /\ Partial /\ Headers /\ Drained /\ Yields /\ More /\ walking
        /\ container' = container /\ walking' = walking /\ yielded' = yielded /\ status' = status
    BY DEF ReaderInv, WalkSegment
  <1>2. Typed' /\ container.kind = "ogg" /\ container'.kind = "ogg"
    BY <1>1, PlaceStep
  <1>3. Drained'
    BY <1>1 DEF Drained, ReaderInv
  <1>4. i \in Nat \ {0} /\ at = [packet |-> i, part |-> at.part] /\ at.part \in Nat \ {0}
    BY <1>1 DEF Typed, Segment
  <1>5. CASE ~EndsPacket(SegmentLen(at))
    <2>1. at' = [packet |-> i, part |-> at.part + 1]
      BY <1>5, PlaceStep
    <2>2. current_packet' = Append(current_packet, at) /\ UNCHANGED <<skipped, queue>>
      BY <1>1, <1>5, Laced DEF WalkSegment
    <2>3. Partial'
      <3>1. current_packet = Run(i, at.part - 1)
        BY <1>1 DEF Partial, Run
      <3>2. current_packet' = Run(i, at.part)
        BY <1>4, <2>2, <3>1, RunGrows
      <3>3. at'.packet = i /\ at'.part - 1 = at.part
        BY <1>4, <2>1
      <3> QED
        BY <3>2, <3>3 DEF Partial, Run
    <2>4. Found' = Found /\ at'.packet = at.packet
      BY <1>1, <2>1, <2>2 DEF Found
    <2>5. Yields'
      BY <1>1, <2>4, NothingFound
    <2>6. Headers'
      <3>1. WasRead' = WasRead
        BY <2>4 DEF WasRead
      <3>2. \A h : Over(h)' = Over(h)
        BY <1>1, <3>1, SameContainer DEF Over
      <3> QED
        BY <1>1, <2>2, <3>2 DEF Headers
    <2> QED
      BY <1>2, <1>3, <2>3, <2>5, <2>6 DEF ReaderInv
  <1>6. CASE EndsPacket(SegmentLen(at))
    <2>1. at' = First(i + 1) /\ at'.packet = i + 1 /\ at'.part = 1
      BY <1>6, PlaceStep DEF First
    <2>2. Complete(Payload(i))
      BY <1>1, <1>6, Joined DEF WalkSegment
    <2>3. Partial'
      <3>1. current_packet' = <<>>
        BY <2>2 DEF Complete
      <3> QED
        BY <2>1, <3>1 DEF Partial
    <2>4. /\ IsSample(i) <=> HasBytes(i) /\ Packets[i].is \notin {"head", "tags"} \ skipped
          /\ Skips(Payload(i)) <=> HasBytes(i) /\ Packets[i].is \in {"head", "tags"} \ skipped
          /\ Payload(i) = <<>> <=> ~HasBytes(i)
      BY <1>1, <1>2, SampleIs
    <2>5. \/ /\ HasBytes(i) /\ ~IsSample(i)
             /\ skipped' = skipped \cup {Packets[i].is} /\ queue' = queue
          \/ ~HasBytes(i) /\ ~IsSample(i) /\ skipped' = skipped /\ queue' = queue
          \/ IsSample(i) /\ skipped' = {"head", "tags"} /\ queue' = Append(queue, Payload(i))
      <3>1. CASE Skips(Payload(i)) /\ skipped' = skipped \cup {Packets[Payload(i)[1].packet].is} /\ queue' = queue
        <4>1. Payload(i)[1].packet = i
          <5>1. i \in 1 .. Len(Packets)
            BY <1>1, Laced
          <5>2. Payload(i)[1] = [packet |-> i, part |-> 1]
            BY <1>1, <2>4, <3>1, <5>1, Payloads
          <5> QED
            BY <5>2
        <4> QED
          BY <2>4, <3>1, <4>1
      <3>2. CASE Payload(i) = <<>> /\ UNCHANGED <<skipped, queue>>
        BY <2>4, <3>2
      <3>3. CASE /\ Payload(i) # <<>> /\ ~Skips(Payload(i))
                 /\ skipped' = {"head", "tags"} /\ queue' = Append(queue, Payload(i))
        BY <2>4, <3>3
      <3> QED
        BY <2>2, <3>1, <3>2, <3>3 DEF Complete
    <2>6. Headers'
      BY <1>1, <1>2, <2>1, <2>5, HeadersGrow
    <2>7. Yields'
      <3>1. CASE queue' = queue /\ ~IsSample(i)
        <4>1. Found' = Found
          BY <1>1, <3>1 DEF Found
        <4> QED
          BY <1>1, <2>1, <3>1, <4>1, NoneFound
      <3>2. CASE IsSample(i) /\ queue' = Append(queue, Payload(i))
        <4>1. i \in 1 .. Len(Packets)
          BY <1>1, Laced
        <4>2. Payload(i) \in Seq(Segment)
          BY <1>1, <4>1, Payloads
        <4>3. Found' = Append(Found, Payload(i))
          BY <1>1, <3>2, <4>2, AppendBehind DEF Typed, Found
        <4> QED
          BY <1>1, <1>2, <2>1, <3>2, <4>3, OneFound
      <3> QED
        BY <2>5, <3>1, <3>2
    <2> QED
      BY <1>2, <1>3, <2>3, <2>6, <2>7 DEF ReaderInv
  <1> QED
    BY <1>5, <1>6

LEMMA YieldPacketStep ==
    ASSUME ReaderInv, YieldPacket
    PROVE  ReaderInv'
  <1>1. /\ Typed /\ Partial /\ Headers /\ Drained /\ Yields /\ ~walking /\ queue # <<>>
        /\ queue' = Tail(queue) /\ yielded' = Append(yielded, Head(queue))
        /\ UNCHANGED <<container, at, walking, skipped, current_packet, status>>
    BY DEF ReaderInv, YieldPacket
  <1>2. Head(queue) \in Seq(Segment) /\ queue' \in Seq(Seq(Segment))
    BY <1>1, HeadTailProperties DEF Typed
  <1>3. yielded' \in Seq(Seq(Segment))
    BY <1>1, <1>2, AppendProperties DEF Typed
  <1>4. Packets' = Packets /\ More' = More /\ WasRead' = WasRead
    BY <1>1 DEF Packets, More, WasRead
  <1>5. Typed'
    BY <1>1, <1>2, <1>3, <1>4 DEF Typed
  <1>6. Partial'
    BY <1>1 DEF Partial
  <1>7. Headers'
    <2>1. \A h : Over(h)' = Over(h)
      BY <1>1, <1>4, SameContainer DEF Over
    <2> QED
      BY <1>1, <2>1 DEF Headers
  <1>8. Drained'
    BY <1>1 DEF Drained
  <1>9. Found' = Found
    BY <1>1, MoveOver DEF Typed, Found
  <1>10. Yields'
    BY <1>1, <1>9, NothingFound
  <1> QED
    BY <1>5, <1>6, <1>7, <1>8, <1>10 DEF ReaderInv

LEMMA YieldFrameStep ==
    ASSUME ReaderInv, YieldFrame
    PROVE  ReaderInv'
  <1>1. /\ Typed /\ Partial /\ More /\ status = "reading" /\ container.kind = "ivf"
        /\ at' = First(at.packet + 1) /\ yielded' = Append(yielded, <<at>>)
        /\ UNCHANGED <<container, walking, skipped, queue, current_packet, status>>
    BY DEF ReaderInv, YieldFrame
  <1>2. /\ at.packet \in 1 .. Len(Packets) /\ Len(Packets) \in Nat
        /\ at'.packet = at.packet + 1 /\ at'.part = 1 /\ at' \in Segment
    BY <1>1, Laced, AboutPackets DEF First, Segment
  <1>3. Packets' = Packets
    BY <1>1 DEF Packets
  <1>4. Typed'
    <2>1. yielded' \in Seq(Seq(Segment))
      <3>1. at \in Segment /\ yielded \in Seq(Seq(Segment))
        BY <1>1 DEF Typed
      <3>2. <<at>> \in Seq(Segment)
        BY <3>1
      <3> QED
        BY <1>1, <3>1, <3>2, AppendProperties
    <2>2. at'.part <= IF More' THEN Lacing(Packets'[at'.packet].size) ELSE 1
      <3>1. More' => at'.packet \in 1 .. Len(Packets)
        BY <1>2, <1>3 DEF More
      <3>2. More' => Lacing(Packets[at'.packet].size) \in Nat \ {0}
        BY <1>1, <3>1, AboutPackets, Pieces
      <3> QED
        BY <1>2, <1>3, <3>2
    <2>3. at'.packet <= Len(Packets') + 1
      BY <1>2, <1>3
    <2> QED
      BY <1>1, <1>2, <2>1, <2>2, <2>3 DEF Typed
  <1>5. Partial'
    <2>1. current_packet = <<>>
      BY <1>1 DEF Typed, Partial
    <2>2. current_packet' = <<>> /\ at'.part = 1
      BY <1>1, <1>2, <2>1
    <2> QED
      BY <2>2 DEF Partial
  <1>6. Headers' /\ Yields' /\ Drained'
    BY <1>1 DEF Headers, Yields, Drained
  <1> QED
    BY <1>4, <1>5, <1>6 DEF ReaderInv

LEMMA ReaderStep == ReaderInv /\ [ReaderNext]_readerVars => ReaderInv'
  <1> SUFFICES ASSUME ReaderInv, [ReaderNext]_readerVars
               PROVE  ReaderInv'
    OBVIOUS
  <1>1. ASSUME UNCHANGED <<container, at, skipped, queue, current_packet, yielded>>,
               walking' = walking \/ (walking' \in BOOLEAN /\ container.kind = "ogg"),
               status' # "reading" => queue = <<>> /\ ~walking'
        PROVE  ReaderInv'
    <2>1. Packets' = Packets /\ More' = More /\ WasRead' = WasRead /\ Found' = Found
      BY <1>1 DEF Packets, More, WasRead, Found
    <2>2. Typed'
      BY <1>1, <2>1 DEF ReaderInv, Typed
    <2>3. Partial'
      BY <1>1 DEF ReaderInv, Partial
    <2>4. Headers'
      <3>1. \A h : Over(h)' = Over(h)
        BY <1>1, <2>1, SameContainer DEF Over
      <3> QED
        BY <1>1, <3>1 DEF ReaderInv, Headers
    <2>5. Drained'
      BY <1>1 DEF Drained
    <2>6. Yields'
      BY <1>1, <2>1, NothingFound DEF ReaderInv
    <2> QED
      BY <2>2, <2>3, <2>4, <2>5, <2>6 DEF ReaderInv
  <1>2. CASE ReadPage
    BY <1>1, <1>2 DEF ReadPage
  <1>3. CASE WalkSegment
    BY <1>3, WalkStep
  <1>4. CASE EndPage
    <2>1. container.kind = "ogg"
      BY <1>4, AboutPackets DEF ReaderInv, Typed, EndPage
    <2>2. status' # "reading" => queue = <<>> /\ ~walking'
      BY <1>4 DEF ReaderInv, Drained, EndPage
    <2> QED
      BY <1>1, <1>4, <2>1, <2>2 DEF EndPage
  <1>5. CASE YieldPacket
    BY <1>5, YieldPacketStep
  <1>6. CASE YieldFrame
    BY <1>6, YieldFrameStep
  <1>7. ASSUME NEW error, Fail(error) PROVE ReaderInv'
    BY <1>1, <1>7 DEF Fail
  <1>8. CASE UNCHANGED readerVars
    BY <1>1, <1>8 DEF readerVars, ReaderInv, Drained
  <1> QED
    BY <1>2, <1>3, <1>4, <1>5, <1>6, <1>7, <1>8 DEF ReaderNext

THEOREM ReaderInvariance == ReaderSpec => []ReaderInv
  BY ReaderStarts, ReaderStep, PTL DEF ReaderSpec

\* However the muxer laces packets into segments and cuts segments into pages, and wherever the
\* stream breaks off, OpusFrameReader yields the packets that hold sound, each whole, each once
\* and in order (the walk over the segment table, the test for a full segment, the two flags).
THEOREM PacketsComeThrough == ReaderSpec => []YieldsThePackets
  <1>1. ReaderInv => YieldsThePackets
    BY DEF ReaderInv, Drained, Yields, Whole, Every, Ordered, YieldsThePackets
  <1> QED
    BY <1>1, ReaderInvariance, PTL

----------------------------------------------------------------------------
(* Where the clock is *)

\* The clock of a leg: the media time in samples, or so many frames of equal length.
Timed ==
    /\ clock \in Nat /\ media \in Nat
    /\ container.kind = "ogg" /\ Counted => clock = media
    /\ container.kind = "ivf" =>
           clock = Len(yielded) * VideoTicks(FrameDuration(container.num, container.den))

\* What the code says of a TOC is what RFC 6716 says of it.
LEMMA RfcAgrees ==
    ASSUME NEW toc \in OpusTocs
    PROVE  /\ RfcSamples(toc) \in Nat
           /\ (toc.code = 3 => toc.count > 0) => TotalSamples(toc) = RfcSamples(toc)
  <1> DEFINE c == toc.config
  <1>1. c \in 0 .. 31 /\ toc.code \in 0 .. 3 /\ toc.count \in 0 .. 63
    BY DEF OpusTocs
  <1> HIDE DEF c
  <1>2. BaseSamples(c) = RfcFrame(c) /\ RfcFrame(c) \in Nat
    <2>1. CASE c \in 0 .. 11
      BY <2>1 DEF BaseSamples, RfcFrame
    <2>2. CASE c \in 12 .. 15
      BY <2>2 DEF BaseSamples, RfcFrame
    <2>3. CASE c \in 16 .. 31
      BY <2>3 DEF BaseSamples, RfcFrame
    <2> QED
      BY <1>1, <2>1, <2>2, <2>3
  <1> DEFINE frames == IF toc.code = 0 THEN 1 ELSE IF toc.code < 3 THEN 2 ELSE toc.count
  <1>3. frames \in Nat
    BY <1>1
  <1>4. (toc.code = 3 => toc.count > 0) => FrameCount(toc) = frames
    BY <1>1 DEF FrameCount
  <1>5. RfcSamples(toc) = RfcFrame(c) * frames /\ TotalSamples(toc) = BaseSamples(c) * FrameCount(toc)
    BY DEF RfcSamples, TotalSamples, c
  <1> HIDE DEF frames
  <1>6. RfcFrame(c) * frames \in Nat
    BY <1>2, <1>3
  <1> QED
    BY <1>2, <1>4, <1>5, <1>6

\* What is in the queue are packets of the container.
LEMMA QueuedPacket ==
    ASSUME ReaderInv, container.kind = "ogg", queue # <<>>
    PROVE  Head(queue)[1].packet \in 1 .. Len(Packets)
  <1>1. Typed /\ Yields
    BY DEF ReaderInv
  <1>2. queue \in Seq(Seq(Segment)) /\ yielded \in Seq(Seq(Segment))
    BY <1>1 DEF Typed
  <1>3. Len(queue) \in Nat \ {0} /\ Len(yielded) \in Nat
    BY <1>2, EmptySeq, LenProperties
  <1> DEFINE k == Len(yielded) + 1
  <1>4. k \in DOMAIN Found /\ Found[k] = Head(queue)
    <2>1. DOMAIN Found = 1 .. Len(yielded) + Len(queue)
      BY <1>1, <1>2, ConcatProperties, FoundIsSeq DEF Found
    <2>2. k \in 1 .. Len(yielded) + Len(queue) /\ ~(k <= Len(yielded)) /\ k - Len(yielded) = 1
      BY <1>3
    <2>3. Found[k] = queue[1]
      BY <1>2, <2>2, ConcatProperties DEF Found
    <2> QED
      BY <1>2, <2>1, <2>2, <2>3
  <1>5. PICK i \in WasRead : IsSample(i) /\ Found[k] = Payload(i)
    BY <1>1, <1>4 DEF Yields, Whole
  <1>6. i \in 1 .. Len(Packets) /\ HasBytes(i)
    BY <1>1, <1>5, AboutPackets DEF WasRead, IsSample, Typed, Segment
  <1>7. Payload(i)[1] = [packet |-> i, part |-> 1]
    BY <1>1, <1>6, Payloads
  <1>8. Head(queue)[1].packet = i
    BY <1>4, <1>5, <1>7
  <1> QED
    BY <1>6, <1>8

LEMMA WholeTicks ==
    ASSUME NEW num \in Nat, NEW den \in Nat, CodesClock
    PROVE  VideoTicks(FrameDuration(num, den)) \in Nat
  <1>1. FrameDuration(num, den) \in Nat
    <2>1. CASE num > 0 /\ den > 0
      <3>1. num * 1000000000 \in Nat /\ den \in Nat \ {0}
        BY <2>1
      <3>2. FrameDuration(num, den) = (num * 1000000000) \div den
        BY <2>1 DEF FrameDuration, CodesClock
      <3> QED
        BY <3>1, <3>2, Rounding
    <2>2. CASE ~(num > 0 /\ den > 0)
      BY <2>2 DEF FrameDuration, DefaultFrame, CodesClock
    <2> QED
      BY <2>1, <2>2
  <1>2. PICK d \in Nat : d = FrameDuration(num, den)
    BY <1>1
  <1>3. (d * 90000 + 500000000) \div 1000000000 \in Nat
    OBVIOUS
  <1> QED
    BY <1>2, <1>3 DEF VideoTicks, CodesClock

LEMMA TimedStep ==
    ASSUME CodesClock, ReaderInv, Timed, [ReaderNext]_readerVars
    PROVE  Timed'
  <1>0. Typed
    BY DEF ReaderInv
  <1>1. ASSUME UNCHANGED <<container, yielded, clock, media>> PROVE Timed'
    <2>1. Counted' = Counted
      BY <1>1 DEF Counted, Packets
    <2> QED
      BY <1>1, <2>1 DEF Timed
  <1>2. CASE ReadPage \/ WalkSegment \/ EndPage \/ (\E error \in {"File", "Internal"} : Fail(error)) \/ UNCHANGED readerVars
    BY <1>1, <1>2 DEF ReadPage, WalkSegment, EndPage, Fail, readerVars
  <1>3. CASE YieldPacket
    <2> DEFINE toc == Packets[Head(queue)[1].packet].toc
    <2>1. /\ queue # <<>> /\ container' = container
          /\ clock' = clock + AudioTicks(PacketDuration(toc)) /\ media' = media + RfcSamples(toc)
      BY <1>3 DEF YieldPacket
    <2>2. container.kind = "ogg"
      BY <1>0, <2>1, AboutPackets DEF Typed
    <2>3. PICK i \in 1 .. Len(Packets) : i = Head(queue)[1].packet
      BY <2>1, <2>2, QueuedPacket
    <2>4. toc \in OpusTocs
      BY <1>0, <2>3, AboutPackets
    <2>5. Counted => (toc.code = 3 => toc.count > 0)
      <3>1. i \in DOMAIN Packets
        BY <1>0, <2>3, AboutPackets, LenProperties
      <3> QED
        BY <2>3, <3>1 DEF Counted
    <2> HIDE DEF toc
    <2>6. AudioTicks(PacketDuration(toc)) = TotalSamples(toc) /\ TotalSamples(toc) \in Nat
      <3>1. PICK m \in Nat : TotalSamples(toc) = 120 * m
        BY <2>4, WholeQuarters
      <3> QED
        BY <2>4, <3>1, AudioIsExact
    <2>7. RfcSamples(toc) \in Nat /\ (Counted => TotalSamples(toc) = RfcSamples(toc))
      BY <2>4, <2>5, RfcAgrees
    <2>8. Counted' = Counted /\ container'.kind = "ogg"
      BY <2>1, <2>2 DEF Counted, Packets
    <2>9. clock' \in Nat /\ media' \in Nat
      BY <2>1, <2>6, <2>7 DEF Timed
    <2>10. Counted => clock' = media'
      BY <2>1, <2>2, <2>6, <2>7 DEF Timed
    <2> QED
      BY <2>8, <2>9, <2>10 DEF Timed
  <1>4. CASE YieldFrame
    <2> DEFINE ticks == VideoTicks(FrameDuration(container.num, container.den))
               n == Len(yielded)
    <2>1. /\ container' = container /\ container.kind = "ivf" /\ media' = media
          /\ yielded' = Append(yielded, <<at>>) /\ clock' = clock + ticks
      BY <1>4 DEF YieldFrame
    <2>2. ticks \in Nat
      BY <1>0, AboutPackets, WholeTicks
    <2>3. n \in Nat /\ Len(yielded') = n + 1
      <3>1. at \in Segment /\ yielded \in Seq(Seq(Segment))
        BY <1>0 DEF Typed
      <3>2. <<at>> \in Seq(Segment)
        BY <3>1
      <3> QED
        BY <2>1, <3>1, <3>2, AppendProperties, LenProperties
    <2>4. clock = n * ticks /\ clock \in Nat /\ media \in Nat
      BY <2>1 DEF Timed
    <2>5. VideoTicks(FrameDuration(container'.num, container'.den)) = ticks /\ container'.kind = "ivf"
      BY <2>1
    <2> HIDE DEF ticks, n
    <2>6. clock' = (n + 1) * ticks /\ clock' \in Nat
      BY <2>1, <2>2, <2>3, <2>4
    <2> QED
      BY <2>1, <2>3, <2>4, <2>5, <2>6 DEF Timed
  <1> QED
    BY <1>2, <1>3, <1>4 DEF ReaderNext

\* In nanoseconds, at 48 and 90 kHz: however long the stream is, the two roundings between packet
\* and timestamp leave the audio timestamp at the media time, the video timestamp too where the
\* frame rate divides 90 kHz, and within a tick per frame elsewhere (parse_opus_packet_duration,
\* VP8FrameReader, send_rtp_bytes).
THEOREM ClockStaysExact == ASSUME CodesClock PROVE ReaderSpec => []ClockIsExact
  <1>1. ReaderInit => Timed
    <2> SUFFICES ASSUME ReaderInit
                 PROVE  Timed
      OBVIOUS
    <2>1. Typed /\ clock = 0 /\ media = 0 /\ Len(yielded) = 0
      BY ReaderStarts, EmptySeq DEF ReaderInit, ReaderInv
    <2>2. VideoTicks(FrameDuration(container.num, container.den)) \in Nat
      BY <2>1, AboutPackets, WholeTicks
    <2> QED
      BY <2>1, <2>2 DEF Timed
  <1>2. ReaderInv /\ Timed /\ [ReaderNext]_readerVars => Timed'
    BY TimedStep
  <1>3. ReaderInv /\ Timed => ClockIsExact
    <2> SUFFICES ASSUME ReaderInv, Timed
                 PROVE  ClockIsExact
      OBVIOUS
    <2> DEFINE num == container.num
               den == container.den
               n == Len(yielded)
               ticks == VideoTicks(FrameDuration(num, den))
    <2>1. Typed /\ num \in Nat /\ den \in Nat /\ n \in Nat
      BY AboutPackets, LenProperties DEF ReaderInv, Typed
    <2>2. container.kind = "ivf" => clock = n * ticks
      BY DEF Timed
    <2> HIDE DEF num, den, n, ticks
    <2>3. ASSUME container.kind = "ivf", num > 0, den > 0
          PROVE  /\ (num * VideoRate) % den = 0 => clock * den = n * num * VideoRate
                 /\ clock * den - n * num * VideoRate \in -(n * den) .. n * den
      <3>1. /\ ticks \in Nat
            /\ 2 * (ticks * den) <= 2 * (num * VideoRate) + den
            /\ num * VideoRate < ticks * den + den
        BY <2>1, <2>3, LessThanATick DEF ticks
      <3>2. PICK w \in Nat, x \in Nat : w = num * VideoRate /\ x = ticks * den
        BY <2>1, <3>1 DEF CodesClock
      <3>3. n * num * VideoRate = n * w
        BY <2>1, <3>2 DEF CodesClock
      <3>4. clock * den = n * x
        BY <2>1, <2>2, <2>3, <3>1, <3>2
      <3>5. w % den = 0 => x = w
        <4> SUFFICES ASSUME w % den = 0
                     PROVE  x = w
          OBVIOUS
        <4>1. PICK f \in Nat : f = w \div den
          BY <2>1, <2>3, Divided
        <4>2. w = f * den
          BY <2>1, <2>3, <4>1, Divided
        <4>3. ticks = f
          BY <2>1, <2>3, <3>2, <4>2, VideoIsExact DEF ticks
        <4> QED
          BY <3>2, <4>2, <4>3
      <3>6. n * x - n * w \in -(n * den) .. n * den
        <4>1. x <= w + den /\ w <= x + den
          BY <2>1, <3>1, <3>2
        <4>2. n * x <= n * (w + den) /\ n * w <= n * (x + den)
          BY <2>1, <4>1
        <4>3. n * (w + den) = n * w + n * den /\ n * (x + den) = n * x + n * den
          BY <2>1
        <4>4. n * x \in Int /\ n * w \in Int /\ n * den \in Int
          BY <2>1
        <4> QED
          BY <4>2, <4>3, <4>4
      <3> QED
        BY <3>2, <3>3, <3>4, <3>5, <3>6
    <2> QED
      BY <2>3 DEF ClockIsExact, Timed, num, den, n
  <1> QED
    BY <1>1, <1>2, <1>3, ReaderInvariance, PTL DEF ReaderSpec

----------------------------------------------------------------------------
(* The ring *)

\* A byte of the tape after a write is an old one, or one of the chunk.
LEMMA TapeGrows ==
    ASSUME NEW s \in Seq(Bytes), NEW p \in Seq(Bytes)
    PROVE  /\ s \o p \in Seq(Bytes)
           /\ Len(s \o p) = Len(s) + Len(p)
           /\ \A i \in 1 .. Len(s) : (s \o p)[i] = s[i]
           /\ \A i \in 1 .. Len(p) : (s \o p)[Len(s) + i] = p[i]
  BY ConcatProperties

\* Types: a write keeps every byte in its place or takes one of the chunk.
LEMMA TypeStep ==
    ASSUME Cap \in Nat \ {0}, RingTypeOK, NEW p \in Seq(Bytes), Write(p)
    PROVE  RingTypeOK'
  <1>1. tape' \in Seq(Bytes)
    BY TapeGrows DEF RingTypeOK, Write
  <1>2. \A i \in 1 .. Len(p) : p[i] \in Bytes
    OBVIOUS
  <1>3. Len(p) \in Nat
    OBVIOUS
  <1>4. CASE WriteLong(p)
    BY <1>1, <1>2, <1>3, <1>4 DEF WriteLong, RingTypeOK, Places
  <1>5. CASE WriteShort(p)
    <2>1. ASSUME NEW i \in Places PROVE buf'[i] \in Bytes
      BY <1>2, <1>3, <1>5, <2>1 DEF WriteShort, RingTypeOK, Places
    <2>2. buf' \in [Places -> Bytes]
      BY <1>5, <2>1 DEF WriteShort
    <2> QED
      BY <1>1, <1>3, <1>5, <2>2 DEF WriteShort, Wraps, RingTypeOK, Places
  <1> QED
    BY <1>4, <1>5 DEF Write

\* A write puts every byte where Placed says it is.
LEMMA PlacedStep ==
    ASSUME Cap \in Nat \ {0}, RingTypeOK, Placed, NEW p \in Seq(Bytes), Write(p)
    PROVE  Placed'
  <1> DEFINE T == Len(tape)
             n == Len(p)
  <1>1. T \in Nat /\ n \in Nat /\ Len(tape') = T + n
    BY TapeGrows DEF RingTypeOK, Write
  <1>2. \A i \in 1 .. T : tape'[i] = tape[i]
    BY TapeGrows DEF RingTypeOK, Write
  <1>3. \A i \in 1 .. n : tape'[T + i] = p[i]
    BY TapeGrows DEF RingTypeOK, Write
  <1> HIDE DEF T, n
  <1>4. CASE WriteLong(p)
    <2>1. n >= Cap /\ head' = 0 /\ full' = TRUE
      BY <1>4 DEF WriteLong, n
    <2>2. ASSUME NEW i \in Places PROVE buf'[i] = tape'[Len(tape') - Age(i)']
      <3>1. buf'[i] = p[n - Cap + 1 + i]
        BY <1>4 DEF WriteLong, n
      <3>2. Len(tape') - Age(i)' = T + (n - Cap + 1 + i)
        BY <1>1, <2>1 DEF Age, Places
      <3>3. n - Cap + 1 + i \in 1 .. n
        BY <1>1, <2>1 DEF Places
      <3> QED
        BY <1>3, <3>1, <3>2, <3>3
    <2> QED
      BY <1>1, <2>1, <2>2 DEF Placed
  <1>5. CASE WriteShort(p)
    <2>1. /\ 0 < n /\ n < Cap
          /\ head' = IF head + n < Cap THEN head + n ELSE head + n - Cap
          /\ full' = (full \/ head' < n)
      BY <1>5 DEF WriteShort, Wraps, n
    <2>2. head \in Places
      BY DEF RingTypeOK
    <2>3. ASSUME NEW i \in Places
          PROVE  buf'[i] = IF head <= i /\ i < head + n THEN p[i - head + 1]
                           ELSE IF i < head + n - Cap THEN p[Cap - head + 1 + i]
                           ELSE buf[i]
      BY <1>5 DEF WriteShort, n
    <2>4. CASE full
      <3>1. T >= Cap /\ \A i \in Places : buf[i] = tape[T - Age(i)]
        BY <2>4 DEF Placed, T
      <3>2. ASSUME NEW i \in Places PROVE buf'[i] = tape'[Len(tape') - Age(i)']
        <4>1. CASE head <= i /\ i < head + n
          <5>1. Len(tape') - Age(i)' = T + (i - head + 1)
            BY <1>1, <2>1, <2>2, <4>1 DEF Age, Places
          <5>2. i - head + 1 \in 1 .. n
            BY <1>1, <2>2, <4>1 DEF Places
          <5>3. buf'[i] = p[i - head + 1]
            BY <2>3, <4>1
          <5> QED
            BY <1>3, <5>1, <5>2, <5>3
        <4>2. CASE i < head + n - Cap
          <5>1. Len(tape') - Age(i)' = T + (Cap - head + 1 + i)
            BY <1>1, <2>1, <2>2, <4>2 DEF Age, Places
          <5>2. ~(head <= i /\ i < head + n) /\ Cap - head + 1 + i \in 1 .. n
            BY <1>1, <2>1, <2>2, <4>2 DEF Places
          <5> QED
            BY <1>3, <2>3, <4>2, <5>1, <5>2
        <4>3. CASE ~(head <= i /\ i < head + n) /\ ~(i < head + n - Cap)
          <5>1. Len(tape') - Age(i)' = T - Age(i) /\ T - Age(i) \in 1 .. T
            BY <1>1, <2>1, <2>2, <3>1, <4>3 DEF Age, Places
          <5> QED
            BY <1>2, <2>3, <3>1, <4>3, <5>1
        <4> QED
          BY <4>1, <4>2, <4>3
      <3>3. full'
        BY <2>1, <2>4
      <3>4. Len(tape') >= Cap
        BY <1>1, <3>1
      <3> QED
        BY <3>2, <3>3, <3>4 DEF Placed
    <2>5. CASE ~full
      <3>1. T = head /\ \A i \in 0 .. head - 1 : buf[i] = tape[i + 1]
        BY <2>5 DEF Placed, T
      <3>2. CASE head + n < Cap
        <4>1. head' = head + n /\ ~(head' < n)
          BY <1>1, <2>1, <2>2, <3>2 DEF Places
        <4>2. ~full' /\ head' = head + n
          BY <2>1, <2>5, <4>1
        <4>3. ASSUME NEW i \in 0 .. head' - 1 PROVE buf'[i] = tape'[i + 1]
          <5>1. i \in Places
            BY <1>1, <2>2, <3>2, <4>2 DEF Places
          <5>2. CASE i < head
            <6>1. ~(head <= i) /\ ~(i < head + n - Cap) /\ i \in 0 .. head - 1 /\ i + 1 \in 1 .. T
              BY <1>1, <2>2, <3>1, <3>2, <4>2, <5>1, <5>2 DEF Places
            <6>2. buf'[i] = buf[i]
              BY <2>3, <5>1, <6>1
            <6> QED
              BY <1>2, <3>1, <6>1, <6>2
          <5>3. CASE head <= i
            <6>1. i - head + 1 \in 1 .. n /\ i + 1 = T + (i - head + 1)
              BY <1>1, <2>2, <3>1, <4>2, <5>3 DEF Places
            <6>2. i < head + n
              BY <1>1, <2>2, <4>2, <5>3 DEF Places
            <6>3. buf'[i] = p[i - head + 1]
              BY <2>3, <5>1, <5>3, <6>2
            <6>4. tape'[T + (i - head + 1)] = p[i - head + 1]
              BY <1>3, <6>1
            <6> QED
              BY <6>1, <6>3, <6>4
          <5> QED
            BY <2>2, <5>2, <5>3 DEF Places
        <4> QED
          BY <1>1, <3>1, <4>2, <4>3 DEF Placed
      <3>3. CASE head + n >= Cap
        <4>1. head' = head + n - Cap /\ head' < n
          BY <1>1, <2>1, <2>2, <3>3 DEF Places
        <4>2. full' /\ head' = head + n - Cap
          BY <2>1, <4>1
        <4>3. ASSUME NEW i \in Places PROVE buf'[i] = tape'[Len(tape') - Age(i)']
          <5>1. CASE head <= i
            <6>1. Len(tape') - Age(i)' = T + (i - head + 1) /\ i - head + 1 \in 1 .. n
              BY <1>1, <2>1, <2>2, <3>3, <4>2, <5>1 DEF Age, Places
            <6>2. i < head + n
              BY <1>1, <2>2, <3>3 DEF Places
            <6> QED
              BY <1>3, <2>3, <5>1, <6>1, <6>2
          <5>2. CASE i < head + n - Cap
            <6>1. Len(tape') - Age(i)' = T + (Cap - head + 1 + i)
              BY <1>1, <2>1, <2>2, <4>2, <5>2 DEF Age, Places
            <6>2. ~(head <= i) /\ Cap - head + 1 + i \in 1 .. n
              BY <1>1, <2>1, <2>2, <5>2 DEF Places
            <6> QED
              BY <1>3, <2>3, <5>2, <6>1, <6>2
          <5>3. CASE i < head /\ ~(i < head + n - Cap)
            <6>1. Len(tape') - Age(i)' = i + 1 /\ i + 1 \in 1 .. T /\ i \in 0 .. head - 1
              BY <1>1, <2>1, <2>2, <3>1, <4>2, <5>3 DEF Age, Places
            <6>2. ~(head <= i)
              BY <2>2, <5>3 DEF Places
            <6> QED
              BY <1>2, <2>3, <3>1, <5>3, <6>1, <6>2
          <5> QED
            BY <2>2, <5>1, <5>2, <5>3 DEF Places
        <4> QED
          BY <1>1, <2>2, <3>1, <3>3, <4>2, <4>3 DEF Placed, Places
      <3> QED
        BY <1>1, <2>2, <3>2, <3>3 DEF Places
    <2> QED
      BY <2>4, <2>5
  <1> QED
    BY <1>4, <1>5 DEF Write

\* When every byte is in its place, the snapshot reads the tail.
LEMMA TailIsRead ==
    ASSUME Cap \in Nat \ {0}, RingTypeOK, Placed
    PROVE  SnapshotIsTail
  <1>1. Len(tape) \in Nat /\ head \in Places
    BY DEF RingTypeOK
  <1>2. CASE ~full
    <2>1. Len(tape) = head /\ \A i \in 0 .. head - 1 : buf[i] = tape[i + 1]
      BY <1>2 DEF Placed
    <2>2. Kept = head
      BY <1>1, <2>1 DEF Kept, Places
    <2>3. ASSUME NEW i \in 1 .. head PROVE buf[i - 1] = tape[Len(tape) - Kept + i]
      BY <1>1, <2>1, <2>2 DEF Places
    <2> QED
      BY <1>2, <2>2, <2>3 DEF SnapshotIsTail, Snapshot, LastBytes
  <1>3. CASE full
    <2>1. Len(tape) >= Cap /\ \A i \in Places : buf[i] = tape[Len(tape) - Age(i)]
      BY <1>3 DEF Placed
    <2>2. Kept = Cap
      BY <1>1, <2>1 DEF Kept
    <2> DEFINE read(i) == IF i <= Cap - head THEN buf[head + i - 1] ELSE buf[i - (Cap - head) - 1]
    <2>3. ASSUME NEW i \in 1 .. Cap PROVE read(i) = tape[Len(tape) - Kept + i]
      <3>1. CASE i <= Cap - head
        <4>1. head + i - 1 \in Places /\ Len(tape) - Age(head + i - 1) = Len(tape) - Kept + i
          BY <1>1, <2>2, <3>1 DEF Age, Places
        <4> QED
          BY <2>1, <3>1, <4>1
      <3>2. CASE ~(i <= Cap - head)
        <4>1. /\ i - (Cap - head) - 1 \in Places
              /\ Len(tape) - Age(i - (Cap - head) - 1) = Len(tape) - Kept + i
          BY <1>1, <2>2, <3>2 DEF Age, Places
        <4> QED
          BY <2>1, <3>2, <4>1
      <3> QED
        BY <3>1, <3>2
    <2> HIDE DEF read
    <2>4. [i \in 1 .. Cap |-> read(i)] = [i \in 1 .. Cap |-> tape[Len(tape) - Kept + i]]
      BY <2>3
    <2> QED
      BY <1>3, <2>2, <2>4 DEF SnapshotIsTail, Snapshot, LastBytes, read
  <1> QED
    BY <1>2, <1>3

\* For every capacity, snapshot is the tail of what was written, after any sequence of
\* writes of any lengths (RingBuffer::write, RingBuffer::snapshot).
THEOREM TailIsKept == ASSUME Cap \in Nat \ {0} PROVE RingSpec => []SnapshotIsTail
  <1>1. RingInit => RingTypeOK /\ Placed
    <2> SUFFICES ASSUME RingInit PROVE RingTypeOK /\ Placed
      OBVIOUS
    <2>1. tape \in Seq(Bytes) /\ Len(tape) = 0
      BY DEF RingInit
    <2>2. buf \in [Places -> Bytes] /\ head = 0 /\ 0 \in Places
      BY DEF RingInit, Places
    <2>3. full \in BOOLEAN /\ ~full
      BY DEF RingInit
    <2> QED
      BY <2>1, <2>2, <2>3 DEF RingTypeOK, Placed
  <1>2. RingTypeOK /\ Placed /\ [RingNext]_ringVars => (RingTypeOK /\ Placed)'
    <2> SUFFICES ASSUME RingTypeOK, Placed, [RingNext]_ringVars PROVE (RingTypeOK /\ Placed)'
      OBVIOUS
    <2>1. CASE RingNext
      BY <2>1, TypeStep, PlacedStep DEF RingNext
    <2>2. CASE UNCHANGED ringVars
      BY <2>2 DEF ringVars, RingTypeOK, Placed, Age
    <2> QED
      BY <2>1, <2>2
  <1>3. RingTypeOK /\ Placed => SnapshotIsTail
    BY TailIsRead
  <1> QED
    BY <1>1, <1>2, <1>3, PTL DEF RingSpec
=============================================================================
