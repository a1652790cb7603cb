----------------------------- MODULE Tokenizer -----------------------------
(***************************************************************************)
(* How a caller's command becomes tokens (media/shell_source.rs,           *)
(* tokenize_shell): one pass over its characters, with double quotes and   *)
(* two escapes, and no shell.  Of a character the pass tells apart the     *)
(* double quote, the backslash, a blank (space, tab, newline) and the      *)
(* rest.  The pass takes bytes for characters, so a character is ASCII.    *)
(*                                                                         *)
(* A text is written by a caller who means words.  Each of its glyphs is a *)
(* character, what he writes it as, and the place he has come to; the pass *)
(* sees the character only.                                                *)
(***************************************************************************)
EXTENDS Naturals, Sequences

CONSTANTS
    Texts    \* what may be tokenised, as [words, glyphs]: what the caller meant and wrote

Quote == "quote"
Backslash == "backslash"
Blank == "blank"

----------------------------------------------------------------------------
(* How a caller writes *)

Chars == {Quote, Backslash, Blank, "other"}
Word == Seq(Chars) \ {<<>>}

\* So many letters of this word are written, within quotes or not.
Place == [word : Nat \ {0}, letter : Nat, quoted : BOOLEAN]

Glyph == [char : Chars, as : {"letter", "mark", "escape", "gap"}, from : Place]

\* A letter of the word, blanks only within quotes; a mark that opens or closes quotes, anywhere
\* in a word; the escape before a letter; a blank between words, or one more.
Means(words, glyph) ==
    LET p == glyph.from
    IN  \/ /\ glyph.as = "letter"
           /\ p.word <= Len(words) /\ p.letter < Len(words[p.word])
           /\ glyph.char = words[p.word][p.letter + 1]
           /\ glyph.char = Blank => p.quoted
        \/ glyph.as = "mark" /\ glyph.char = Quote
        \/ glyph.as = "escape" /\ glyph.char = Backslash
        \/ /\ glyph.as = "gap"
           /\ glyph.char = Blank /\ ~p.quoted
           /\ p.letter = 0 \/ (p.word <= Len(words) /\ p.letter = Len(words[p.word]))

NextWord(p) == IF p.letter = 0 THEN p ELSE [word |-> p.word + 1, letter |-> 0, quoted |-> p.quoted]

After(glyph) ==
    LET p == glyph.from
    IN  CASE glyph.as = "letter" -> [p EXCEPT !.letter = @ + 1]
          [] glyph.as = "mark"   -> [p EXCEPT !.quoted = ~@]
          [] glyph.as = "escape" -> p
          [] glyph.as = "gap"    -> NextWord(p)

\* Every word is written, the last with or without a blank behind it.
Finished(words, p) ==
    /\ ~p.quoted
    /\ \/ p.letter = 0 /\ p.word = Len(words) + 1
       \/ p.letter > 0 /\ p.word = Len(words) /\ p.letter = Len(words[p.word])

\* An escape is written before a quote or a backslash that is a letter.  A quote needs it, and
\* a backslash does unless what follows is neither.
Escapes(glyphs, i) ==
    LET special == {Quote, Backslash}
    IN  /\ glyphs[i].as = "escape" =>
               i < Len(glyphs) /\ glyphs[i + 1].as = "letter" /\ glyphs[i + 1].char \in special
        /\ glyphs[i].as = "letter" /\ (i > 1 => glyphs[i - 1].as # "escape") =>
               /\ glyphs[i].char # Quote
               /\ glyphs[i].char = Backslash /\ i < Len(glyphs) => glyphs[i + 1].char \notin special

Spells(words, glyphs) ==
    \A i \in 1 .. Len(glyphs) :
        /\ Means(words, glyphs[i])
        /\ Escapes(glyphs, i)
        /\ IF i < Len(glyphs) THEN glyphs[i + 1].from = After(glyphs[i])
           ELSE Finished(words, After(glyphs[i]))

Outset == [word |-> 1, letter |-> 0, quoted |-> FALSE]

ASSUME TextsAssumption ==
    \A t \in Texts :
        /\ t.words \in Seq(Word) /\ t.glyphs \in Seq(Glyph)
        /\ Spells(t.words, t.glyphs)
        /\ IF t.glyphs = <<>> THEN t.words = <<>> ELSE t.glyphs[1].from = Outset

----------------------------------------------------------------------------

VARIABLES
    meant,        \* the words the caller meant
    text,         \* the glyphs that are left
    cur,          \* the token so far
    in_quote,
    tokens        \* out

tokenVars == <<meant, text, cur, in_quote, tokens>>

TokenInit ==
    /\ \E t \in Texts : meant = t.words /\ text = t.glyphs
    /\ cur = <<>> /\ in_quote = FALSE /\ tokens = <<>>

\* (seeded fault) a backslash escapes nothing but the quote.
EscapesQuote(c) == c = Quote

Escapable(c) == c \in {Quote, Backslash}

IsEscape == Len(text) > 1 /\ text[1].char = Backslash /\ Escapable(text[2].char)

\* A token ends where something of it was read; an empty one is none.
Flush ==
    /\ tokens' = IF cur = <<>> THEN tokens ELSE Append(tokens, cur)
    /\ cur' = <<>>

\* The escaped character is taken, within quotes or without.
TakeEscape ==
    /\ IsEscape
    /\ cur' = Append(cur, text[2].char)
    /\ text' = Tail(Tail(text))
    /\ UNCHANGED <<meant, in_quote, tokens>>

ToggleQuote ==
    /\ text # <<>> /\ text[1].char = Quote
    /\ in_quote' = ~in_quote
    /\ text' = Tail(text)
    /\ UNCHANGED <<meant, cur, tokens>>

EndToken ==
    /\ text # <<>> /\ text[1].char = Blank /\ ~in_quote
    /\ Flush
    /\ text' = Tail(text)
    /\ UNCHANGED <<meant, in_quote>>

\* A backslash that escapes nothing is a character like any other.
TakeChar ==
    /\ text # <<>> /\ text[1].char # Quote /\ ~IsEscape
    /\ text[1].char = Blank => in_quote
    /\ cur' = Append(cur, text[1].char)
    /\ text' = Tail(text)
    /\ UNCHANGED <<meant, in_quote, tokens>>

EndText ==
    /\ text = <<>>
    /\ Flush
    /\ UNCHANGED <<meant, text, in_quote>>

TokenNext == TakeEscape \/ ToggleQuote \/ EndToken \/ TakeChar \/ EndText

TokenSpec == TokenInit /\ [][TokenNext]_tokenVars

----------------------------------------------------------------------------
(* Properties *)

\* A word comes out as it was meant however it is quoted, in full or in part, when its own quotes
\* and backslashes are escaped, a backslash only where it has to be: nothing in it ends the token
\* or starts another (README: from_shell "handles double-quoted args, plus \" and \\ escape
\* sequences").
WordsComeThrough ==
    /\ Len(tokens) <= Len(meant) /\ \A i \in DOMAIN tokens : tokens[i] = meant[i]
    /\ text = <<>> /\ cur = <<>> => tokens = meant
=============================================================================
