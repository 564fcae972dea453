--------------------------- MODULE TelegramChunks ----------------------------
(***************************************************************************)
(* chunk_for_telegram (transport.py): how a text longer than Telegram takes *)
(* in one message is split.  Digests, prompts, briefs and replies all go   *)
(* through it, and a chunk Telegram rejects loses the rest of its text.    *)
(*                                                                         *)
(* A character is a glyph, a blank or a newline.  What remains of the text *)
(* is the positions from `rest` on; a chunk is the positions from..to.     *)
(***************************************************************************)
EXTENDS Integers, Sequences, FiniteSets, FiniteSetsExt

CONSTANTS
    Limit,      \* TELEGRAM_MAX_LEN
    MaxLen      \* bound of the instance: the longest text
ASSUME ChunkBounds == Limit \in Nat \ {0} /\ MaxLen \in Nat

VARIABLES text, rest, chunks, done

vars == <<text, rest, chunks, done>>

Characters == {"glyph", "blank", "newline"}
Texts == UNION {[1..n -> Characters] : n \in 0..MaxLen}

Init ==
    /\ text \in Texts
    /\ rest = 1 /\ chunks = <<>> /\ done = FALSE

Remaining == Len(text) - rest + 1

\* Where rfind finds the last paragraph or line break of the window, except at its
\* very start: the number of characters before it.
ParagraphBreaks ==
    {k \in 1..(Limit - 2) : text[rest + k] = "newline" /\ text[rest + k + 1] = "newline"}
LineBreaks == {k \in 1..(Limit - 1) : text[rest + k] = "newline"}

\* Mutants: a break that was not found is the index -1, which cuts before the last
\* character of all; and only paragraphs are looked for.
CutUnchecked ==
    IF ParagraphBreaks # {} THEN Max(ParagraphBreaks)
    ELSE IF LineBreaks # {} THEN Max(LineBreaks)
    ELSE Remaining - 1
CutParagraphs == IF ParagraphBreaks # {} THEN Max(ParagraphBreaks) ELSE Limit
Cut ==
    IF ParagraphBreaks # {} THEN Max(ParagraphBreaks)
    ELSE IF LineBreaks # {} THEN Max(LineBreaks)
    ELSE Limit

\* rstrip() of the window's first n characters.
Stripped(n) ==
    [from |-> rest,
     to |-> Max({rest - 1} \cup {p \in rest..(rest + n - 1) : text[p] = "glyph"})]

\* lstrip("\n") of what follows them (mutants: the character at the cut goes,
\* newline or not; and nothing goes).
SkipOne(n) == rest + n + 1
SkipNothing(n) == rest + n
SkipNewlines(n) ==
    Min({Len(text) + 1} \cup {p \in (rest + n)..Len(text) : text[p] # "newline"})

TakeChunk ==
    /\ ~done /\ Remaining > Limit
    /\ chunks' = Append(chunks, Stripped(Cut))
    /\ rest' = SkipNewlines(Cut)
    /\ UNCHANGED <<text, done>>

\* A text that fits is sent as it is, the empty one too; of a longer one what is
\* left over, if anything is.
TakeRest ==
    /\ ~done /\ Remaining <= Limit
    /\ chunks' = IF chunks = <<>> \/ Remaining > 0
                 THEN Append(chunks, [from |-> rest, to |-> Len(text)])
                 ELSE chunks
    /\ done' = TRUE
    /\ UNCHANGED <<text, rest>>

Next == TakeChunk \/ TakeRest
Spec == Init /\ [][Next]_vars

-----------------------------------------------------------------------------
Positions(c) == c.from..c.to
Sent == UNION {Positions(chunks[i]) : i \in DOMAIN chunks}

\* No chunk is too long for Telegram, whatever the text looks like.  (That none is
\* empty, which Telegram refuses too, is TidyTextsAreReadable, and only of tidy texts.)
ChunksFit == \A i \in DOMAIN chunks : Cardinality(Positions(chunks[i])) <= Limit

\* Nothing readable is lost, repeated or moved: the chunks are pieces of the text in
\* its order, and what falls between two of them is blanks and newlines.
NothingReadableLost ==
    /\ \A i, j \in DOMAIN chunks : i < j => chunks[i].to < chunks[j].from
    /\ done => \A p \in DOMAIN text : text[p] = "glyph" => p \in Sent

\* The lines of the text, as maximal stretches without a newline.
LineOf(p) ==
    {q \in DOMAIN text : \A r \in (IF p < q THEN p..q ELSE q..p) : text[r] # "newline"}

\* A line that fits in a message is not torn apart, unless the text opens with a
\* newline, which stays in the window it should have been stripped from.
LinesStayWhole ==
    \A i \in DOMAIN chunks, p \in DOMAIN text :
        ( /\ text[1] # "newline"
          /\ p \in Positions(chunks[i]) /\ text[p] = "glyph"
          /\ Cardinality(LineOf(p)) <= Limit )
        => \A q \in LineOf(p) : text[q] = "glyph" => q \in Positions(chunks[i])

\* A text is tidy if it does not open with a newline, no line ends in a blank, and
\* no stretch of blanks fills a message.
Tidy ==
    /\ Len(text) > 0 /\ text[1] # "newline"
    /\ \A p \in DOMAIN text :
          text[p] = "blank" => p < Len(text) /\ text[p + 1] # "newline"
    /\ \A p \in DOMAIN text :
          p + Limit - 1 <= Len(text) => \E q \in p..(p + Limit - 1) : text[q] # "blank"

\* Telegram refuses a message with nothing to read in it, and one refused chunk
\* fails the prompt, the digest or the reply it belongs to: a tidy text has none.
TidyTextsAreReadable ==
    Tidy => \A i \in DOMAIN chunks :
                \E p \in Positions(chunks[i]) : text[p] = "glyph"
=============================================================================
