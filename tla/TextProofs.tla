----------------------------- MODULE TextProofs ------------------------------
(***************************************************************************)
(* What is proved of texts: of chunk_for_telegram for any limit and any    *)
(* text, ChunksFit, NothingReadableLost, LinesStayWhole and                *)
(* TidyTextsAreReadable; of the router for a text of any length,           *)
(* CommandMeansWhatItSays and ButtonMeansWhatItSays.                       *)
(***************************************************************************)
EXTENDS MCTexts, Extrema, SequenceTheorems, FiniteSetTheorems, TLAPS

Pieces == [from : Nat \ {0}, to : Nat]

Types ==
    /\ text \in Seq(Characters)
    /\ rest \in 1..(Len(text) + 1)
    /\ chunks \in Seq(Pieces)
    /\ done \in BOOLEAN

\* The chunks lie one after the other before what remains, and each fits.
OrderInv ==
    /\ \A i \in 1..Len(chunks) : chunks[i].to - chunks[i].from + 1 <= Limit
    /\ \A i, j \in 1..Len(chunks) : i < j => chunks[i].to < chunks[j].from
    /\ ~done => \A i \in 1..Len(chunks) : chunks[i].to < rest

\* Every glyph before what remains lies in a chunk.
InAChunk(p) == \E i \in 1..Len(chunks) : chunks[i].from <= p /\ p <= chunks[i].to
SentInv ==
    \A p \in 1..Len(text) : text[p] = "glyph" /\ (p < rest \/ done) => InAChunk(p)

\* What remains opens with no newline, unless the text does.
OpenInv ==
    text # <<>> /\ text[1] # "newline" /\ rest <= Len(text) => text[rest] # "newline"

\* A line that is cut in two at what remains does not fit in a message.
Across(p, q) == (p < rest /\ rest <= q) \/ (q < rest /\ rest <= p)
LineInv ==
    text[1] # "newline" =>
        \A p \in 1..Len(text) : \A q \in LineOf(p) :
            Across(p, q) => Cardinality(LineOf(p)) > Limit

\* The lines of the chunks so far.
WholeIn(c) ==
    \A p \in 1..Len(text) :
        ( /\ text[1] # "newline"
          /\ c.from <= p /\ p <= c.to /\ text[p] = "glyph"
          /\ Cardinality(LineOf(p)) <= Limit )
        => \A q \in LineOf(p) : text[q] = "glyph" => c.from <= q /\ q <= c.to
WholeInv == \A i \in 1..Len(chunks) : WholeIn(chunks[i])

\* There is something to read in each chunk of a tidy text.
ReadableIn(c) == \E p \in 1..Len(text) : c.from <= p /\ p <= c.to /\ text[p] = "glyph"
ReadInv == Tidy => \A i \in 1..Len(chunks) : ReadableIn(chunks[i])

\* Before the first chunk all of the text remains.
StartInv == chunks = <<>> => rest = 1

IInv ==
    /\ Types /\ OrderInv /\ SentInv /\ OpenInv /\ LineInv /\ WholeInv /\ ReadInv /\ StartInv

-----------------------------------------------------------------------------
\* Cut: between one and Limit characters are taken, and a line is cut only where the
\* window has no newline to cut at.
LEMMA CutInWindow ==
    ASSUME Types
    PROVE  /\ Cut \in 1..Limit
           /\ text[rest + Cut] # "newline" => Cut = Limit /\ LineBreaks = {}
           /\ Cut = Limit \/ Cut \in LineBreaks
<1>a. Limit \in Nat \ {0}
  BY ChunkBounds
<1>1. /\ ParagraphBreaks \subseteq 0..Limit /\ ParagraphBreaks \subseteq 1..Limit
      /\ LineBreaks \subseteq 0..Limit /\ LineBreaks \subseteq 1..Limit
      /\ ParagraphBreaks \subseteq LineBreaks
  BY <1>a DEF ParagraphBreaks, LineBreaks
<1>2. CASE ParagraphBreaks # {}
  <2>1. Max(ParagraphBreaks) \in ParagraphBreaks
    BY <1>a, <1>1, <1>2, MaxIsGreatest
  <2>2. Cut = Max(ParagraphBreaks)
    BY <1>2 DEF Cut
  <2>3. Cut \in LineBreaks /\ Cut \in 1..Limit
    BY <1>1, <2>1, <2>2
  <2> QED
    BY <2>3 DEF LineBreaks
<1>3. CASE ParagraphBreaks = {} /\ LineBreaks # {}
  <2>1. Max(LineBreaks) \in LineBreaks
    BY <1>a, <1>1, <1>3, MaxIsGreatest
  <2>2. Cut = Max(LineBreaks)
    BY <1>3 DEF Cut
  <2>3. Cut \in LineBreaks /\ Cut \in 1..Limit
    BY <1>1, <2>1, <2>2
  <2> QED
    BY <2>3 DEF LineBreaks
<1>4. CASE ParagraphBreaks = {} /\ LineBreaks = {}
  BY <1>a, <1>4 DEF Cut
<1> QED
  BY <1>2, <1>3, <1>4

\* The piece taken: it opens where the text had come to, keeps within the cut, and
\* loses no glyph before it.
LEMMA StrippedPiece ==
    ASSUME Types, NEW n \in 1..Limit, rest + n <= Len(text)
    PROVE  /\ Stripped(n) \in Pieces /\ Stripped(n).from = rest
           /\ rest - 1 <= Stripped(n).to /\ Stripped(n).to < rest + n
           /\ \A p \in rest..(rest + n - 1) : text[p] = "glyph" => p <= Stripped(n).to
<1> DEFINE S == {rest - 1} \cup {p \in rest..(rest + n - 1) : text[p] = "glyph"}
<1>a. Limit \in Nat /\ Len(text) \in Nat /\ rest \in Nat /\ rest >= 1 /\ n \in Nat /\ n >= 1
  BY ChunkBounds DEF Types
<1>1. S \subseteq 0..Len(text) /\ S # {} /\ S \subseteq (rest - 1)..(rest + n - 1)
  BY <1>a
<1>2. Max(S) \in S /\ \A m \in S : m <= Max(S)
  BY <1>a, <1>1, MaxIsGreatest
<1>3. Stripped(n) = [from |-> rest, to |-> Max(S)]
  BY DEF Stripped
<1>4. Max(S) \in Nat /\ rest - 1 <= Max(S) /\ Max(S) < rest + n
  BY <1>a, <1>1, <1>2
<1>5. Stripped(n).from = rest /\ Stripped(n).to = Max(S) /\ Stripped(n) \in Pieces
  BY <1>a, <1>3, <1>4 DEF Pieces
<1> QED
  BY <1>2, <1>4, <1>5

\* What is dropped after a cut is newlines, and no newline opens what remains.
LEMMA NewlinesSkipped ==
    ASSUME Types, NEW n \in 1..Limit, rest + n <= Len(text)
    PROVE  /\ SkipNewlines(n) \in (rest + n)..(Len(text) + 1)
           /\ \A p \in (rest + n)..Len(text) : p < SkipNewlines(n) => text[p] = "newline"
           /\ SkipNewlines(n) <= Len(text) => text[SkipNewlines(n)] # "newline"
<1> DEFINE S == {Len(text) + 1} \cup {p \in (rest + n)..Len(text) : text[p] # "newline"}
<1>a. Len(text) \in Nat /\ rest \in Nat /\ n \in Nat
  BY ChunkBounds DEF Types
<1>1. S \subseteq Nat /\ S # {} /\ S \subseteq (rest + n)..(Len(text) + 1)
  BY <1>a
<1>2. Min(S) \in S /\ \A m \in S : Min(S) <= m
  BY <1>1, MinIsLeast
<1>3. SkipNewlines(n) = Min(S)
  BY DEF SkipNewlines
<1>4. Min(S) \in Nat
  BY <1>1, <1>2
<1>5. ASSUME NEW p \in (rest + n)..Len(text), p < Min(S) PROVE text[p] = "newline"
  BY <1>2, <1>4, <1>5
<1>6. Min(S) <= Len(text) => text[Min(S)] # "newline"
  BY <1>a, <1>2
<1> QED
  BY <1>1, <1>2, <1>3, <1>5, <1>6

\* The positions of a line are positions of the text, finitely many.
LEMMA LineIsFinite ==
    ASSUME Types, NEW p \in 1..Len(text)
    PROVE  LineOf(p) \subseteq 1..Len(text) /\ IsFiniteSet(LineOf(p))
           /\ \A q \in LineOf(p) : text[q] # "newline" /\ text[p] # "newline"
<1>a. Len(text) \in Nat /\ DOMAIN text = 1..Len(text)
  BY DEF Types
<1>1. LineOf(p) \subseteq 1..Len(text)
  BY <1>a DEF LineOf
<1>2. IsFiniteSet(1..Len(text))
  BY <1>a, FS_Interval
<1>3. IsFiniteSet(LineOf(p))
  BY <1>1, <1>2, FS_Subset
<1>4. ASSUME NEW q \in LineOf(p) PROVE text[q] # "newline" /\ text[p] # "newline"
  <2>1. q \in 1..Len(text) /\ \A r \in (IF p < q THEN p..q ELSE q..p) : text[r] # "newline"
    BY <1>a DEF LineOf
  <2>2. /\ p \in (IF p < q THEN p..q ELSE q..p)
        /\ q \in (IF p < q THEN p..q ELSE q..p)
    BY <1>a, <2>1
  <2> QED
    BY <2>1, <2>2
<1> QED
  BY <1>1, <1>3, <1>4

\* A window without a newline, followed by one more character of the line, is a line
\* that does not fit.
LEMMA FullWindowIsLong ==
    ASSUME Types, rest + Limit <= Len(text),
           \A x \in rest..(rest + Limit - 1) : text[x] # "newline",
           NEW p \in 1..Len(text), NEW q \in LineOf(p),
           \/ rest <= p /\ p < rest + Limit /\ rest + Limit <= q
           \/ rest <= q /\ q < rest + Limit /\ rest + Limit <= p
    PROVE  Cardinality(LineOf(p)) > Limit
<1>a. /\ Len(text) \in Nat /\ DOMAIN text = 1..Len(text) /\ rest \in Nat /\ rest >= 1
      /\ Limit \in Nat
  BY ChunkBounds DEF Types
<1>b. q \in 1..Len(text) /\ \A r \in (IF p < q THEN p..q ELSE q..p) : text[r] # "newline"
  BY <1>a DEF LineOf
<1>1. text[rest + Limit] # "newline"
  <2>1. rest + Limit \in (IF p < q THEN p..q ELSE q..p)
    BY <1>a, <1>b
  <2> QED
    BY <1>b, <2>1
<1>2. \A x \in rest..(rest + Limit) : text[x] # "newline"
  <2>1. \A x \in rest..(rest + Limit) : x \in rest..(rest + Limit - 1) \/ x = rest + Limit
    BY <1>a
  <2> QED
    BY <1>1, <2>1
<1>3. ASSUME NEW x \in rest..(rest + Limit) PROVE x \in LineOf(p)
  <2>1. x \in 1..Len(text)
    BY <1>a
  <2>2. ASSUME NEW r \in (IF p < x THEN p..x ELSE x..p) PROVE text[r] # "newline"
    <3>1. CASE p < rest + Limit
      <4>1. r \in rest..(rest + Limit)
        BY <1>a, <3>1
      <4> QED
        BY <1>2, <4>1
    <3>2. CASE rest + Limit <= p
      <4>1. q < p /\ q < rest + Limit
        BY <1>a, <1>b, <3>2
      <4>2. r \in rest..(rest + Limit) \/ r \in q..p
        BY <1>a, <1>b, <3>2, <4>1
      <4>3. (IF p < q THEN p..q ELSE q..p) = q..p
        BY <1>b, <4>1
      <4> QED
        BY <1>b, <1>2, <4>2, <4>3
    <3> QED
      BY <1>a, <3>1, <3>2
  <2> QED
    BY <1>a, <2>1, <2>2 DEF LineOf
<1>4. IsFiniteSet(LineOf(p)) /\ rest..(rest + Limit) \in SUBSET LineOf(p)
  BY <1>3, LineIsFinite
<1>5. Cardinality(rest..(rest + Limit)) <= Cardinality(LineOf(p))
  BY <1>4, FS_Subset
<1>6. Cardinality(rest..(rest + Limit)) = Limit + 1
  <2>1. PICK a \in Int, b \in Int : a = rest /\ b = rest + Limit
    BY <1>a
  <2>2. Cardinality(a..b) = IF a > b THEN 0 ELSE b - a + 1
    BY FS_Interval
  <2> QED
    BY <1>a, <2>1, <2>2
<1>7. Cardinality(LineOf(p)) \in Nat
  BY <1>4, FS_CardinalityType
<1> QED
  BY <1>a, <1>5, <1>6, <1>7

\* A line that fits is not cut: at a break, or where the window ends.
LEMMA CutSparesLines ==
    ASSUME Types, OpenInv, LineInv, text[1] # "newline",
           NEW n \in 1..Limit, n = Cut, rest + Limit <= Len(text),
           NEW p \in 1..Len(text), NEW q \in LineOf(p),
           \/ p < rest + n /\ rest + n <= q
           \/ q < rest + n /\ rest + n <= p
    PROVE  Cardinality(LineOf(p)) > Limit
<1>a. /\ Len(text) \in Nat /\ DOMAIN text = 1..Len(text) /\ rest \in Nat /\ rest >= 1
      /\ Limit \in Nat \ {0} /\ n \in Nat /\ text # <<>>
  BY ChunkBounds DEF Types
<1>b. q \in 1..Len(text) /\ \A r \in (IF p < q THEN p..q ELSE q..p) : text[r] # "newline"
  BY <1>a DEF LineOf
<1>1. CASE Across(p, q)
  BY <1>1 DEF LineInv
<1>2. CASE ~Across(p, q)
  <2>1. rest <= p /\ rest <= q
    BY <1>a, <1>b, <1>2 DEF Across
  <2>2. text[rest + n] # "newline"
    <3>1. rest + n \in (IF p < q THEN p..q ELSE q..p)
      BY <1>a, <1>b
    <3> QED
      BY <1>b, <3>1
  <2>3. n = Limit /\ LineBreaks = {}
    BY <2>2, CutInWindow
  <2>4. ASSUME NEW x \in rest..(rest + Limit - 1) PROVE text[x] # "newline"
    <3>1. CASE x = rest
      BY <1>a, <3>1 DEF OpenInv
    <3>2. CASE x # rest
      <4>1. x - rest \in 1..(Limit - 1) /\ rest + (x - rest) = x
        BY <1>a, <3>2
      <4> QED
        BY <2>3, <4>1 DEF LineBreaks
    <3> QED
      BY <3>1, <3>2
  <2>5. \/ rest <= p /\ p < rest + Limit /\ rest + Limit <= q
        \/ rest <= q /\ q < rest + Limit /\ rest + Limit <= p
    BY <2>1, <2>3
  <2> QED
    BY <2>4, <2>5, FullWindowIsLong
<1> QED
  BY <1>1, <1>2

\* Where a tidy text is cut, a glyph comes first: at most a message of blanks before
\* it, and no newline between.
LEMMA GlyphComes ==
    ASSUME Types, Tidy, OpenInv, rest <= Len(text)
    PROVE  \E g \in rest..Len(text) :
              /\ text[g] = "glyph" /\ g < rest + Limit
              /\ \A x \in rest..g : text[x] # "newline"
<1>a. /\ Len(text) \in Nat /\ DOMAIN text = 1..Len(text) /\ rest \in Nat /\ rest >= 1
      /\ Limit \in Nat \ {0}
      /\ \A x \in 1..Len(text) : text[x] \in Characters
  BY ChunkBounds DEF Types
<1>b. text[rest] # "newline"
  BY <1>a DEF Tidy, OpenInv
<1> DEFINE S == {x \in rest..Len(text) : text[x] # "blank"}
<1>1. S \subseteq Nat /\ S # {}
  <2>1. text[Len(text)] # "blank"
    <3>1. Len(text) \in DOMAIN text /\ ~(Len(text) < Len(text))
      BY <1>a
    <3> QED
      BY <3>1 DEF Tidy
  <2> QED
    BY <1>a, <2>1
<1>2. PICK g \in S : \A x \in S : g <= x
  BY <1>1, LeastExists
<1>3. g \in rest..Len(text) /\ text[g] # "blank"
  OBVIOUS
<1>4. ASSUME NEW x \in rest..(g - 1) PROVE text[x] = "blank"
  BY <1>a, <1>2, <1>3
<1>5. text[g] = "glyph"
  <2>1. CASE g = rest
    BY <1>a, <1>b, <1>3, <2>1 DEF Characters
  <2>2. CASE g # rest
    <3>1. g - 1 \in rest..(g - 1) /\ g - 1 \in 1..Len(text) /\ (g - 1) + 1 = g
      BY <1>a, <1>3, <2>2
    <3>2. text[g] # "newline"
      BY <1>a, <1>4, <3>1 DEF Tidy
    <3> QED
      BY <1>a, <1>3, <3>2 DEF Characters
  <2> QED
    BY <2>1, <2>2
<1>6. g < rest + Limit
  <2>1. CASE rest + Limit - 1 <= Len(text)
    <3>1. PICK q \in rest..(rest + Limit - 1) : text[q] # "blank"
      BY <1>a, <2>1 DEF Tidy
    <3>2. g <= q
      BY <1>2, <1>a, <2>1, <3>1
    <3> QED
      BY <1>a, <1>3, <3>2
  <2>2. CASE ~(rest + Limit - 1 <= Len(text))
    BY <1>a, <1>3, <2>2
  <2> QED
    BY <2>1, <2>2
<1>7. ASSUME NEW x \in rest..g PROVE text[x] # "newline"
  <2>1. x \in rest..(g - 1) \/ x = g
    BY <1>a, <1>3
  <2> QED
    BY <1>4, <1>5, <2>1
<1> QED
  BY <1>3, <1>5, <1>6, <1>7

\* The last piece, or any: what it does to the chunks, whose text is the same.
LEMMA PieceAppended ==
    ASSUME Types, NEW c \in Pieces, chunks' = Append(chunks, c), UNCHANGED text
    PROVE  /\ chunks' \in Seq(Pieces) /\ Len(chunks) \in Nat /\ Len(chunks') = Len(chunks) + 1
           /\ \A i \in 1..Len(chunks) : chunks'[i] = chunks[i]
           /\ chunks'[Len(chunks')] = c
           /\ 1..Len(chunks') = 1..Len(chunks) \cup {Len(chunks')}
           /\ \A p : InAChunk(p)' <=> InAChunk(p) \/ (c.from <= p /\ p <= c.to)
<1>1. /\ chunks' \in Seq(Pieces) /\ Len(chunks) \in Nat /\ Len(chunks') = Len(chunks) + 1
      /\ \A i \in 1..Len(chunks) : chunks'[i] = chunks[i]
      /\ chunks'[Len(chunks')] = c
  BY DEF Types
<1>2. 1..Len(chunks') = 1..Len(chunks) \cup {Len(chunks')}
  BY <1>1
<1>3. ASSUME NEW p PROVE InAChunk(p)' <=> InAChunk(p) \/ (c.from <= p /\ p <= c.to)
  BY <1>1, <1>2 DEF InAChunk
<1> QED
  BY <1>1, <1>2, <1>3

\* A chunk that opens where the text had come to continues the order of the others.
LEMMA OrderKept ==
    ASSUME Types, OrderInv, ~done, NEW c \in Pieces, c.from = rest,
           c.to - c.from + 1 <= Limit, chunks' = Append(chunks, c), UNCHANGED text,
           done' \/ (rest' \in Nat /\ rest <= rest' /\ c.to < rest')
    PROVE  OrderInv'
<1>a. /\ Len(chunks) \in Nat /\ Len(chunks') = Len(chunks) + 1
      /\ \A i \in 1..Len(chunks) : chunks'[i] = chunks[i]
      /\ chunks'[Len(chunks')] = c
      /\ 1..Len(chunks') = 1..Len(chunks) \cup {Len(chunks')}
  BY PieceAppended
<1>b. /\ c.from \in Nat /\ c.to \in Nat /\ rest \in Nat
      /\ \A i \in 1..Len(chunks) : chunks[i].from \in Nat /\ chunks[i].to \in Nat
  <2>1. rest \in Nat /\ \A i \in 1..Len(chunks) : chunks[i] \in Pieces
    BY DEF Types
  <2> QED
    BY <2>1 DEF Pieces
<1>1. \A i \in 1..Len(chunks') : chunks'[i].to - chunks'[i].from + 1 <= Limit
  BY <1>a DEF OrderInv
<1>2. ASSUME NEW i \in 1..Len(chunks'), NEW j \in 1..Len(chunks'), i < j
      PROVE  chunks'[i].to < chunks'[j].from
  <2>1. i \in 1..Len(chunks)
    BY <1>a, <1>2
  <2>2. CASE j \in 1..Len(chunks)
    BY <1>a, <1>2, <2>1, <2>2 DEF OrderInv
  <2>3. CASE j = Len(chunks')
    BY <1>a, <2>1, <2>3 DEF OrderInv
  <2> QED
    BY <1>a, <2>2, <2>3
<1>3. ASSUME ~done', NEW i \in 1..Len(chunks') PROVE chunks'[i].to < rest'
  <2>1. CASE i \in 1..Len(chunks)
    <3>1. chunks[i].to < rest
      BY <2>1 DEF OrderInv
    <3>2. PICK r \in Nat : r = rest' /\ rest <= r
      BY <1>3
    <3>3. chunks[i].to < r
      BY <1>b, <2>1, <3>1, <3>2
    <3> QED
      BY <1>a, <2>1, <3>2, <3>3
  <2>2. CASE i = Len(chunks')
    BY <1>a, <1>3, <2>2
  <2> QED
    BY <1>a, <2>1, <2>2
<1> QED
  BY <1>1, <1>2, <1>3 DEF OrderInv

\* A chunk taken off keeps the order, the glyphs and the lines of what was sent.
LEMMA TakeChunkKeeps == ASSUME IInv, TakeChunk PROVE IInv'
<1>a. /\ Types /\ ~done /\ ~done' /\ UNCHANGED <<text, done>>
      /\ Len(text) \in Nat /\ DOMAIN text = 1..Len(text)
      /\ \A x \in 1..Len(text) : text[x] \in Characters
      /\ rest \in Nat /\ rest >= 1 /\ Limit \in Nat \ {0} /\ rest + Limit <= Len(text)
  BY ChunkBounds DEF IInv, Types, TakeChunk, Remaining
<1>n. PICK n \in 1..Limit : n = Cut
  BY <1>a, CutInWindow
<1>b. n \in Nat /\ 1 <= n /\ n <= Limit /\ rest + n <= Len(text)
  BY <1>a
<1>c. PICK c : c = Stripped(n)
  OBVIOUS
<1>d. /\ c \in Pieces /\ c.from = rest /\ rest - 1 <= c.to /\ c.to < rest + n
      /\ \A p \in rest..(rest + n - 1) : text[p] = "glyph" => p <= c.to
      /\ c.from \in Nat /\ c.to \in Nat
  <2>1. /\ c \in Pieces /\ c.from = rest /\ rest - 1 <= c.to /\ c.to < rest + n
        /\ \A p \in rest..(rest + n - 1) : text[p] = "glyph" => p <= c.to
    BY <1>a, <1>b, <1>c, StrippedPiece
  <2> QED
    BY <2>1 DEF Pieces
<1>e. PICK r : r = SkipNewlines(n)
  OBVIOUS
<1>f. /\ r \in (rest + n)..(Len(text) + 1) /\ r \in Nat
      /\ \A p \in (rest + n)..Len(text) : p < r => text[p] = "newline"
      /\ r <= Len(text) => text[r] # "newline"
  BY <1>a, <1>b, <1>e, NewlinesSkipped
<1>g. rest' = r /\ chunks' = Append(chunks, c)
  BY <1>n, <1>c, <1>e DEF TakeChunk
<1>h. /\ chunks' \in Seq(Pieces) /\ Len(chunks) \in Nat
      /\ \A i \in 1..Len(chunks) : chunks'[i] = chunks[i]
      /\ chunks'[Len(chunks')] = c
      /\ 1..Len(chunks') = 1..Len(chunks) \cup {Len(chunks')}
      /\ \A p : InAChunk(p)' <=> InAChunk(p) \/ (c.from <= p /\ p <= c.to)
  BY <1>a, <1>d, <1>g, PieceAppended
<1>i. \A p \in 1..Len(text) : LineOf(p)' = LineOf(p)
  BY <1>a DEF LineOf
<1>1. Types'
  BY <1>a, <1>b, <1>f, <1>g, <1>h DEF Types
<1>2. OrderInv'
  <2>1. c.to - c.from + 1 <= Limit /\ r \in Nat /\ rest <= r /\ c.to < r
    BY <1>a, <1>b, <1>d, <1>f
  <2> QED
    BY <1>a, <1>d, <1>g, <2>1, OrderKept DEF IInv
<1>3. SentInv'
  <2>1. ASSUME NEW p \in 1..Len(text), text[p] = "glyph", p < r
        PROVE  InAChunk(p)'
    <3>1. CASE p < rest
      BY <1>h, <2>1, <3>1 DEF IInv, SentInv
    <3>2. CASE rest <= p
      <4>1. p \in rest..(rest + n - 1)
        BY <1>a, <1>b, <1>f, <2>1, <3>2
      <4> QED
        BY <1>d, <1>h, <2>1, <3>2, <4>1
    <3> QED
      BY <1>a, <3>1, <3>2
  <2> QED
    BY <1>a, <1>g, <2>1 DEF SentInv
<1>4. OpenInv'
  BY <1>a, <1>f, <1>g DEF OpenInv
<1>5. LineInv'
  <2>1. ASSUME text[1] # "newline", NEW p \in 1..Len(text), NEW q \in LineOf(p),
               \/ p < r /\ r <= q
               \/ q < r /\ r <= p
        PROVE  Cardinality(LineOf(p)) > Limit
    <3>1. /\ q \in 1..Len(text) /\ text[q] # "newline" /\ text[p] # "newline"
      BY <1>a, LineIsFinite
    <3>2. \/ p < rest + n /\ rest + n <= q
          \/ q < rest + n /\ rest + n <= p
      <4>1. CASE p < r /\ r <= q
        <5>1. p < rest + n
          BY <1>a, <1>b, <1>f, <3>1, <4>1
        <5> QED
          BY <1>a, <1>b, <1>f, <3>1, <4>1, <5>1
      <4>2. CASE q < r /\ r <= p
        <5>1. q < rest + n
          BY <1>a, <1>b, <1>f, <3>1, <4>2
        <5> QED
          BY <1>a, <1>b, <1>f, <3>1, <4>2, <5>1
      <4> QED
        BY <2>1, <4>1, <4>2
    <3> QED
      BY <1>a, <1>n, <2>1, <3>2, CutSparesLines DEF IInv
  <2> QED
    BY <1>a, <1>g, <1>i, <2>1 DEF LineInv, Across
<1>6. WholeInv'
  <2>1. ASSUME text[1] # "newline", NEW p \in 1..Len(text), c.from <= p, p <= c.to,
               Cardinality(LineOf(p)) <= Limit, NEW q \in LineOf(p), text[q] = "glyph"
        PROVE  c.from <= q /\ q <= c.to
    <3>1. q \in 1..Len(text) /\ IsFiniteSet(LineOf(p)) /\ Cardinality(LineOf(p)) \in Nat
      BY <1>a, LineIsFinite, FS_CardinalityType
    <3>2. rest <= q
      <4>1. SUFFICES ASSUME ~(rest <= q) PROVE FALSE
        OBVIOUS
      <4>2. Across(p, q)
        BY <1>a, <1>d, <2>1, <3>1, <4>1 DEF Across
      <4>3. Cardinality(LineOf(p)) > Limit
        BY <2>1, <4>2 DEF IInv, LineInv
      <4> QED
        BY <1>a, <2>1, <3>1, <4>3
    <3>3. q < rest + n
      <4>1. SUFFICES ASSUME ~(q < rest + n) PROVE FALSE
        OBVIOUS
      <4>2. p < rest + n /\ rest + n <= q
        BY <1>a, <1>b, <1>d, <2>1, <3>1, <4>1
      <4>3. Cardinality(LineOf(p)) > Limit
        BY <1>a, <1>n, <2>1, <4>2, CutSparesLines DEF IInv
      <4> QED
        BY <1>a, <2>1, <3>1, <4>3
    <3>4. q \in rest..(rest + n - 1)
      BY <1>a, <1>b, <3>1, <3>2, <3>3
    <3> QED
      BY <1>d, <2>1, <3>2, <3>4
  <2>2. WholeIn(c)'
    BY <1>a, <1>i, <2>1 DEF WholeIn
  <2>3. ASSUME NEW i \in 1..Len(chunks) PROVE WholeIn(chunks[i])'
    <3>1. WholeIn(chunks[i])
      BY DEF IInv, WholeInv
    <3> QED
      BY <1>a, <1>h, <1>i, <3>1 DEF WholeIn
  <2> QED
    BY <1>h, <2>2, <2>3 DEF WholeInv, WholeIn
<1>7. ReadInv'
  <2>1. SUFFICES ASSUME Tidy PROVE \A i \in 1..Len(chunks') : ReadableIn(chunks[i])'
    BY <1>a DEF ReadInv, Tidy
  <2>2. PICK g \in rest..Len(text) :
            /\ text[g] = "glyph" /\ g < rest + Limit
            /\ \A x \in rest..g : text[x] # "newline"
    BY <1>a, <2>1, GlyphComes DEF IInv
  <2>3. g < rest + n
    <3>1. CASE n = Limit
      BY <2>2, <3>1
    <3>2. CASE n # Limit
      <4>1. n \in LineBreaks
        BY <1>a, <1>n, <3>2, CutInWindow
      <4>2. text[rest + n] = "newline"
        BY <4>1 DEF LineBreaks
      <4> QED
        BY <1>a, <1>b, <2>2, <4>2
    <3> QED
      BY <3>1, <3>2
  <2>4. c.from <= g /\ g <= c.to /\ g \in 1..Len(text)
    BY <1>a, <1>b, <1>d, <2>2, <2>3
  <2>5. ReadableIn(c)
    BY <2>2, <2>4 DEF ReadableIn
  <2>6. ASSUME NEW i \in 1..Len(chunks) PROVE ReadableIn(chunks[i])
    BY <2>1 DEF IInv, ReadInv
  <2> QED
    BY <1>a, <1>h, <2>5, <2>6 DEF ReadableIn
<1>8. StartInv'
  BY <1>h DEF StartInv
<1> QED
  BY <1>1, <1>2, <1>3, <1>4, <1>5, <1>6, <1>7, <1>8 DEF IInv

\* So does the last one, the rest of the text.
LEMMA TakeRestKeeps == ASSUME IInv, TakeRest PROVE IInv'
<1>a. /\ Types /\ ~done /\ done' /\ done' = TRUE /\ UNCHANGED <<text, rest>>
      /\ Len(text) \in Nat /\ DOMAIN text = 1..Len(text)
      /\ \A x \in 1..Len(text) : text[x] \in Characters
      /\ rest \in Nat /\ rest >= 1 /\ rest <= Len(text) + 1
      /\ Limit \in Nat \ {0} /\ Len(text) - rest + 1 <= Limit
  BY ChunkBounds DEF IInv, Types, TakeRest, Remaining
<1>i. \A p \in 1..Len(text) : LineOf(p)' = LineOf(p)
  BY <1>a DEF LineOf
<1>1. OpenInv'
  BY <1>a DEF IInv, OpenInv
<1>2. LineInv'
  BY <1>a, <1>i DEF IInv, LineInv, Across
<1>3. CASE UNCHANGED chunks /\ Remaining <= 0 /\ chunks # <<>>
  <2>1. rest = Len(text) + 1
    BY <1>a, <1>3 DEF Remaining
  <2>2. Types' /\ OrderInv'
    BY <1>a, <1>3 DEF IInv, Types, OrderInv
  <2>3. SentInv'
    BY <1>a, <1>3, <2>1 DEF IInv, SentInv, InAChunk
  <2>4. WholeInv'
    BY <1>a, <1>3, <1>i DEF IInv, WholeInv, WholeIn
  <2>5. ReadInv'
    BY <1>a, <1>3 DEF IInv, ReadInv, ReadableIn, Tidy
  <2> QED
    BY <1>1, <1>2, <1>3, <1>a, <2>2, <2>3, <2>4, <2>5 DEF IInv, StartInv
<1>4. ASSUME NEW c, c = [from |-> rest, to |-> Len(text)], chunks' = Append(chunks, c),
             chunks = <<>> \/ Remaining > 0
      PROVE  IInv'
  <2>a. c \in Pieces /\ c.from = rest /\ c.to = Len(text)
    BY <1>a, <1>4 DEF Pieces
  <2>h. /\ chunks' \in Seq(Pieces) /\ Len(chunks) \in Nat
        /\ \A i \in 1..Len(chunks) : chunks'[i] = chunks[i]
        /\ chunks'[Len(chunks')] = c
        /\ 1..Len(chunks') = 1..Len(chunks) \cup {Len(chunks')}
        /\ \A p : InAChunk(p)' <=> InAChunk(p) \/ (c.from <= p /\ p <= c.to)
    BY <1>4, <1>a, <2>a, PieceAppended
  <2>1. Types'
    BY <1>a, <2>h DEF Types
  <2>2. OrderInv'
    <3>1. c.to - c.from + 1 <= Limit
      BY <1>a, <2>a
    <3> QED
      BY <1>4, <1>a, <2>a, <3>1, OrderKept DEF IInv
  <2>3. SentInv'
    <3>1. ASSUME NEW p \in 1..Len(text), text[p] = "glyph" PROVE InAChunk(p)'
      <4>1. CASE p < rest
        BY <2>h, <3>1, <4>1 DEF IInv, SentInv
      <4>2. CASE rest <= p
        BY <1>a, <2>a, <2>h, <4>2
      <4> QED
        BY <1>a, <4>1, <4>2
    <3> QED
      BY <1>a, <3>1 DEF SentInv
  <2>4. WholeInv'
    <3>1. ASSUME text[1] # "newline", NEW p \in 1..Len(text), c.from <= p, p <= c.to,
                 Cardinality(LineOf(p)) <= Limit, NEW q \in LineOf(p), text[q] = "glyph"
          PROVE  c.from <= q /\ q <= c.to
      <4>1. q \in 1..Len(text) /\ IsFiniteSet(LineOf(p)) /\ Cardinality(LineOf(p)) \in Nat
        BY <1>a, LineIsFinite, FS_CardinalityType
      <4>2. SUFFICES ASSUME ~(rest <= q) PROVE FALSE
        BY <1>a, <2>a, <4>1
      <4>3. Across(p, q)
        BY <1>a, <2>a, <3>1, <4>1, <4>2 DEF Across
      <4>4. Cardinality(LineOf(p)) > Limit
        BY <3>1, <4>3 DEF IInv, LineInv
      <4> QED
        BY <1>a, <3>1, <4>1, <4>4
    <3>2. WholeIn(c)'
      BY <1>a, <1>i, <3>1 DEF WholeIn
    <3>3. ASSUME NEW i \in 1..Len(chunks) PROVE WholeIn(chunks[i])'
      <4>1. WholeIn(chunks[i])
        BY DEF IInv, WholeInv
      <4> QED
        BY <1>a, <1>i, <2>h, <4>1 DEF WholeIn
    <3> QED
      BY <2>h, <3>2, <3>3 DEF WholeInv, WholeIn
  <2>5. ReadInv'
    <3>1. SUFFICES ASSUME Tidy PROVE \A i \in 1..Len(chunks') : ReadableIn(chunks[i])'
      BY <1>a DEF ReadInv, Tidy
    <3>2. rest <= Len(text)
      <4>1. CASE Remaining > 0
        BY <1>a, <4>1 DEF Remaining
      <4>2. CASE chunks = <<>>
        <5>1. rest = 1
          BY <4>2 DEF IInv, StartInv
        <5> QED
          BY <1>a, <3>1, <5>1 DEF Tidy
      <4> QED
        BY <1>4, <4>1, <4>2
    <3>3. PICK g \in rest..Len(text) : text[g] = "glyph"
      BY <1>a, <3>1, <3>2, GlyphComes DEF IInv
    <3>4. ReadableIn(c)
      BY <1>a, <2>a, <3>3 DEF ReadableIn
    <3>5. ASSUME NEW i \in 1..Len(chunks) PROVE ReadableIn(chunks[i])
      BY <3>1 DEF IInv, ReadInv
    <3> QED
      BY <1>a, <2>h, <3>4, <3>5 DEF ReadableIn
  <2>6. StartInv'
    BY <2>h DEF StartInv
  <2> QED
    BY <1>1, <1>2, <2>1, <2>2, <2>3, <2>4, <2>5, <2>6 DEF IInv
<1>5. CASE chunks = <<>> \/ Remaining > 0
  BY <1>4, <1>5 DEF TakeRest
<1>6. CASE ~(chunks = <<>> \/ Remaining > 0)
  <2>1. Remaining <= 0
    BY <1>a, <1>6 DEF Remaining
  <2> QED
    BY <1>3, <1>6, <2>1 DEF TakeRest
<1> QED
  BY <1>5, <1>6

-----------------------------------------------------------------------------
\* The invariant of the split.
THEOREM ChunksInvariant == Spec => []IInv
<1>1. Init => IInv
  <2> SUFFICES ASSUME Init PROVE IInv
    OBVIOUS
  <2>1. text \in Seq(Characters)
    <3>1. PICK n \in Nat : text \in [1..n -> Characters]
      BY ChunkBounds DEF Init, Texts
    <3> QED
      BY <3>1, SeqDef
  <2>2. Len(text) \in Nat /\ DOMAIN text = 1..Len(text) /\ Len(chunks) = 0 /\ rest = 1
    BY <2>1 DEF Init
  <2>3. Types
    <3>1. rest \in 1..(Len(text) + 1)
      BY <2>2
    <3>2. chunks \in Seq(Pieces)
      BY EmptySeq DEF Init
    <3>3. done \in BOOLEAN
      BY DEF Init
    <3> QED
      BY <2>1, <3>1, <3>2, <3>3 DEF Types
  <2>4. OrderInv /\ SentInv /\ WholeInv /\ ReadInv /\ StartInv
    BY <2>2 DEF Init, OrderInv, SentInv, WholeInv, ReadInv, StartInv
  <2>5. OpenInv
    BY <2>2 DEF OpenInv
  <2>6. LineInv
    <3>1. ASSUME NEW p \in 1..Len(text), NEW q \in LineOf(p) PROVE ~Across(p, q)
      <4>1. q \in 1..Len(text)
        BY <2>3, LineIsFinite
      <4> QED
        BY <2>2, <4>1 DEF Across
    <3> QED
      BY <3>1 DEF LineInv
  <2> QED
    BY <2>3, <2>4, <2>5, <2>6 DEF IInv
<1>2. IInv /\ [Next]_vars => IInv'
  <2> SUFFICES ASSUME IInv, [Next]_vars PROVE IInv'
    OBVIOUS
  <2>1. CASE UNCHANGED vars
    <3>1. UNCHANGED <<text, rest, chunks, done>>
      BY <2>1 DEF vars
    <3>2. Types' /\ OrderInv' /\ SentInv' /\ OpenInv' /\ StartInv'
      BY <3>1 DEF IInv, Types, OrderInv, SentInv, InAChunk, OpenInv, StartInv
    <3>3. \A p : LineOf(p)' = LineOf(p)
      BY <3>1 DEF LineOf
    <3>4. LineInv' /\ WholeInv'
      BY <3>1, <3>3 DEF IInv, LineInv, Across, WholeInv, WholeIn
    <3>5. ReadInv'
      BY <3>1 DEF IInv, ReadInv, ReadableIn, Tidy
    <3> QED
      BY <3>2, <3>4, <3>5 DEF IInv
  <2> QED
    BY <2>1, TakeChunkKeeps, TakeRestKeeps DEF Next
<1> QED
  BY <1>1, <1>2, PTL DEF Spec

\* chunk_for_telegram: no chunk is longer than Telegram takes.
THEOREM EveryChunkFits == Spec => []ChunksFit
<1>1. IInv => ChunksFit
  <2> SUFFICES ASSUME IInv, NEW i \in 1..Len(chunks)
               PROVE  Cardinality(Positions(chunks[i])) <= Limit
    BY DEF IInv, Types, ChunksFit
  <2>1. chunks[i] \in Pieces /\ Limit \in Nat /\ chunks[i].to - chunks[i].from + 1 <= Limit
    BY ChunkBounds DEF IInv, Types, OrderInv
  <2>2. PICK a \in Int, b \in Int : a = chunks[i].from /\ b = chunks[i].to
    BY <2>1 DEF Pieces
  <2>3. Cardinality(a..b) = IF a > b THEN 0 ELSE b - a + 1
    BY FS_Interval
  <2> QED
    BY <2>1, <2>2, <2>3 DEF Positions
<1> QED
  BY <1>1, ChunksInvariant, PTL

\* chunk_for_telegram: the chunks are the text, but for blanks and newlines between them.
THEOREM NothingIsLost == Spec => []NothingReadableLost
<1>1. IInv => NothingReadableLost
  <2> SUFFICES ASSUME IInv PROVE NothingReadableLost
    OBVIOUS
  <2>a. /\ Len(text) \in Nat /\ DOMAIN text = 1..Len(text) /\ DOMAIN chunks = 1..Len(chunks)
        /\ \A i \in 1..Len(chunks) : chunks[i].from \in Nat /\ chunks[i].to \in Nat
    <3>1. \A i \in 1..Len(chunks) : chunks[i] \in Pieces
      BY DEF IInv, Types
    <3> QED
      BY <3>1 DEF IInv, Types, Pieces
  <2>1. ASSUME done, NEW p \in 1..Len(text), text[p] = "glyph" PROVE p \in Sent
    <3>1. PICK i \in 1..Len(chunks) : chunks[i].from <= p /\ p <= chunks[i].to
      BY <2>1 DEF IInv, SentInv, InAChunk
    <3> QED
      BY <2>a, <3>1 DEF Sent, Positions
  <2> QED
    BY <2>a, <2>1 DEF IInv, OrderInv, NothingReadableLost
<1> QED
  BY <1>1, ChunksInvariant, PTL

\* chunk_for_telegram: it cuts at a newline where it can, so a line that fits in a
\* message is read in one message.
THEOREM LinesAreWhole == Spec => []LinesStayWhole
<1>1. IInv => LinesStayWhole
  <2> SUFFICES ASSUME IInv, NEW i \in 1..Len(chunks), NEW p \in 1..Len(text),
                      text[1] # "newline", p \in Positions(chunks[i]), text[p] = "glyph",
                      Cardinality(LineOf(p)) <= Limit,
                      NEW q \in LineOf(p), text[q] = "glyph"
               PROVE  q \in Positions(chunks[i])
    BY DEF IInv, Types, LinesStayWhole
  <2>1. chunks[i].from \in Nat /\ chunks[i].to \in Nat
    <3>1. chunks[i] \in Pieces
      BY DEF IInv, Types
    <3> QED
      BY <3>1 DEF Pieces
  <2>2. q \in 1..Len(text)
    BY LineIsFinite DEF IInv
  <2>3. chunks[i].from <= p /\ p <= chunks[i].to
    BY <2>1 DEF Positions
  <2>4. chunks[i].from <= q /\ q <= chunks[i].to
    BY <2>3 DEF IInv, WholeInv, WholeIn
  <2> QED
    BY <2>1, <2>2, <2>4 DEF Positions
<1> QED
  BY <1>1, ChunksInvariant, PTL

\* chunk_for_telegram: a tidy text is split into messages Telegram does not refuse as
\* empty.
THEOREM TidyTextsAreRead == Spec => []TidyTextsAreReadable
<1>1. IInv => TidyTextsAreReadable
  <2> SUFFICES ASSUME IInv, Tidy, NEW i \in 1..Len(chunks)
               PROVE  \E p \in Positions(chunks[i]) : text[p] = "glyph"
    BY DEF IInv, Types, TidyTextsAreReadable
  <2>1. chunks[i].from \in Nat /\ chunks[i].to \in Nat
    <3>1. chunks[i] \in Pieces
      BY DEF IInv, Types
    <3> QED
      BY <3>1 DEF Pieces
  <2>2. PICK p \in 1..Len(text) :
            chunks[i].from <= p /\ p <= chunks[i].to /\ text[p] = "glyph"
    BY DEF IInv, ReadInv, ReadableIn
  <2>3. p \in Positions(chunks[i])
    BY <2>1, <2>2 DEF Positions
  <2> QED
    BY <2>2, <2>3
<1> QED
  BY <1>1, ChunksInvariant, PTL

-----------------------------------------------------------------------------
\* The router.

\* The part before a character is the text up to its first place, or all of it.
LEMMA BeforeIsAPrefix ==
    ASSUME NEW S, NEW s \in Seq(S), NEW c
    PROVE  /\ Before(s, c) \in Seq(S) /\ Len(s) \in Nat
           /\ Len(Before(s, c)) \in 0..Len(s)
           /\ \A i \in 1..Len(Before(s, c)) : Before(s, c)[i] = s[i] /\ s[i] # c
           /\ Len(Before(s, c)) < Len(s) => s[Len(Before(s, c)) + 1] = c
<1>1. Places(s, c) \subseteq 1..Len(s) /\ Places(s, c) \subseteq Nat /\ Len(s) \in Nat
  BY DEF Places
<1>2. CASE Places(s, c) = {}
  BY <1>1, <1>2 DEF Before, Places
<1>3. CASE Places(s, c) # {}
  <2>1. PICK p : p = Min(Places(s, c))
    OBVIOUS
  <2>2. p \in Places(s, c) /\ \A q \in Places(s, c) : p <= q
    BY <1>1, <1>3, <2>1, MinIsLeast
  <2>3. p \in 1..Len(s) /\ s[p] = c /\ \A q \in 1..(p - 1) : s[q] # c
    BY <1>1, <2>2 DEF Places
  <2>4. Before(s, c) = SubSeq(s, 1, p - 1)
    BY <1>3, <2>1 DEF Before
  <2>5. \A i \in 1..(p - 1) : s[i] \in S
    BY <1>1, <2>3
  <2>6. /\ SubSeq(s, 1, p - 1) \in Seq(S) /\ Len(SubSeq(s, 1, p - 1)) = p - 1
        /\ \A i \in 1..(p - 1) : SubSeq(s, 1, p - 1)[i] = s[i]
    BY <2>3, <2>5, SubSeqProperties
  <2> QED BY <1>1, <2>3, <2>4, <2>6
<1> QED BY <1>2, <1>3

\* It is known by these two marks.
LEMMA BeforeIs ==
    ASSUME NEW S, NEW s \in Seq(S), NEW c, NEW b \in Seq(S),
           Len(b) \in 0..Len(s),
           \A i \in 1..Len(b) : b[i] = s[i] /\ s[i] # c,
           Len(b) < Len(s) => s[Len(b) + 1] = c
    PROVE  Before(s, c) = b
<1>1. PICK k, n, m : k = Len(Before(s, c)) /\ n = Len(s) /\ m = Len(b)
  OBVIOUS
<1>2. /\ Before(s, c) \in Seq(S) /\ n \in Nat /\ k \in 0..n /\ m \in 0..n
      /\ \A i \in 1..k : Before(s, c)[i] = s[i] /\ s[i] # c
      /\ k < n => s[k + 1] = c
      /\ \A i \in 1..m : b[i] = s[i] /\ s[i] # c
      /\ m < n => s[m + 1] = c
  BY <1>1, BeforeIsAPrefix
<1>3. k = m
  <2>1. ~(k < m)
    BY <1>2
  <2>2. ~(m < k)
    BY <1>2
  <2> QED BY <1>2, <2>1, <2>2
<1>4. Len(Before(s, c)) = Len(b) /\ \A i \in 1..Len(Before(s, c)) : Before(s, c)[i] = b[i]
  BY <1>1, <1>2, <1>3
<1> QED BY <1>2, <1>4, SeqEqual

\* The two sides of a character's first place.
LEMMA SidesOfFirst ==
    ASSUME NEW S, NEW s \in Seq(S), NEW c, NEW p \in Places(s, c),
           \A q \in Places(s, c) : p <= q
    PROVE  /\ Before(s, c) = SubSeq(s, 1, p - 1)
           /\ After(s, c) = SubSeq(s, p + 1, Len(s))
<1>1. Places(s, c) \subseteq 1..Len(s) /\ Places(s, c) \subseteq Nat /\ Len(s) \in Nat
  BY DEF Places
<1>2. PICK m : m = Min(Places(s, c))
  OBVIOUS
<1>3. m \in Places(s, c) /\ m <= p
  BY <1>1, <1>2, MinIsLeast
<1>4. m = p
  BY <1>1, <1>3
<1> QED BY <1>2, <1>4 DEF Before, After

\* Stripping leaves a text of the same characters, and leaves one without spaces alone.
LEMMA StripIsAPart ==
    ASSUME NEW S, NEW s \in Seq(S)
    PROVE  /\ Strip(s) \in Seq(S)
           /\ (\A i \in 1..Len(s) : s[i] \notin Spaces) => Strip(s) = s
<1> DEFINE kept == {p \in DOMAIN s : s[p] \notin Spaces}
<1>1. kept \subseteq 1..Len(s) /\ kept \subseteq Nat /\ Len(s) \in Nat /\ kept \subseteq 0..Len(s)
  OBVIOUS
<1>2. CASE kept = {}
  <2>1. Strip(s) = <<>>
    BY <1>2 DEF Strip
  <2>2. (\A i \in 1..Len(s) : s[i] \notin Spaces) => Len(s) = 0
    BY <1>1, <1>2
  <2> QED BY <2>1, <2>2, EmptySeq
<1>3. CASE kept # {}
  <2>1. PICK a, z : a = Min(kept) /\ z = Max(kept)
    OBVIOUS
  <2>2. /\ a \in kept /\ z \in kept
        /\ \A i \in kept : a <= i /\ i <= z
    <3> HIDE DEF kept
    <3> QED BY <1>1, <1>3, <2>1, MinIsLeast, MaxIsGreatest
  <2>3. a \in 1..Len(s) /\ z \in 1..Len(s) /\ \A i \in a..z : s[i] \in S
    BY <1>1, <2>2
  <2>4. Strip(s) = SubSeq(s, a, z)
    BY <1>3, <2>1 DEF Strip
  <2>5. SubSeq(s, a, z) \in Seq(S)
    BY <2>3, SubSeqProperties
  <2>6. ASSUME \A i \in 1..Len(s) : s[i] \notin Spaces PROVE SubSeq(s, a, z) = s
    <3>1. 1 \in kept /\ Len(s) \in kept
      BY <1>1, <2>3, <2>6
    <3>2. a = 1 /\ z = Len(s)
      BY <1>1, <2>2, <2>3, <3>1
    <3>3. /\ Len(SubSeq(s, a, z)) = Len(s)
          /\ \A i \in 1..Len(SubSeq(s, a, z)) : SubSeq(s, a, z)[i] = s[i]
      BY <1>1, <2>3, <3>2, SubSeqProperties
    <3> QED BY <2>5, <3>3, SeqEqual
  <2> QED BY <2>4, <2>5, <2>6
<1> QED BY <1>2, <1>3

\* The bot's name behind a command is cut off the same with or without the slash.
LEMMA TailOfBefore ==
    ASSUME NEW S, NEW w \in Seq(S), NEW c, w # <<>>, w[1] # c
    PROVE  /\ Before(w, c) # <<>> /\ Before(w, c)[1] = w[1]
           /\ Before(Tail(w), c) = Tail(Before(w, c))
<1>1. PICK b, n, k : b = Before(w, c) /\ n = Len(w) /\ k = Len(b)
  OBVIOUS
<1>2. /\ b \in Seq(S) /\ n \in Nat \ {0} /\ k \in 0..n
      /\ \A i \in 1..k : b[i] = w[i] /\ w[i] # c
      /\ k < n => w[k + 1] = c
  BY <1>1, BeforeIsAPrefix, EmptySeq
<1>3. k # 0 /\ b # <<>> /\ b[1] = w[1]
  <2>1. k # 0
    BY <1>2
  <2> QED BY <1>1, <1>2, <2>1
<1>4. /\ Tail(w) \in Seq(S) /\ Len(Tail(w)) = n - 1
      /\ \A i \in 1..(n - 1) : Tail(w)[i] = w[i + 1]
      /\ Tail(b) \in Seq(S) /\ Len(Tail(b)) = k - 1
      /\ \A i \in 1..(k - 1) : Tail(b)[i] = b[i + 1]
  BY <1>1, <1>2, <1>3, HeadTailProperties
<1>5. /\ Len(Tail(b)) \in 0..Len(Tail(w))
      /\ \A i \in 1..Len(Tail(b)) : Tail(b)[i] = Tail(w)[i] /\ Tail(w)[i] # c
      /\ Len(Tail(b)) < Len(Tail(w)) => Tail(w)[Len(Tail(b)) + 1] = c
  BY <1>2, <1>3, <1>4
<1>6. Before(Tail(w), c) = Tail(b)
  BY <1>4, <1>5, BeforeIs
<1> QED BY <1>1, <1>3, <1>6

\* A character that is not in a text cuts nothing off.
LEMMA NothingToCut ==
    ASSUME NEW S, NEW s \in Seq(S), NEW c, \A i \in 1..Len(s) : s[i] # c
    PROVE  Before(s, c) = s
<1>1. Places(s, c) = {}
  BY DEF Places
<1> QED BY <1>1 DEF Before

\* The name of a command is what stands between the slash and the bot's name, its
\* arguments are what stands behind the first blank.
LEMMA CommandParsed ==
    ASSUME NEW S, NEW typed \in Seq(S), NEW t, t = Strip(typed),
           NEW said, said = Before(Before(t, "blank"), "@"),
           t # <<>>, t[1] = "/", Len(said) > 1
    PROVE  /\ said \in Seq(S) /\ Len(said) \in Nat /\ said[1] = "/"
           /\ \A i \in 1..Len(said) :
                 said[i] # "@" /\ said[i] # "blank" /\ said[i] = Before(t, "blank")[i]
           /\ Len(said) \in 0..Len(Before(t, "blank"))
           /\ ParseCommand(typed) =
                 [name |-> Lower(Tail(said)), args |-> Strip(After(t, "blank"))]
           /\ Lower(Tail(said)) # <<>>
<1>1. t \in Seq(S)
  BY StripIsAPart
<1>2. PICK word : word = Before(t, "blank")
  OBVIOUS
<1>3. /\ word \in Seq(S) /\ word # <<>> /\ word[1] = "/"
      /\ \A i \in 1..Len(word) : word[i] # "blank"
  <2>1. word # <<>> /\ word[1] = t[1]
    BY <1>1, <1>2, TailOfBefore
  <2>2. word \in Seq(S) /\ \A i \in 1..Len(word) : word[i] = t[i] /\ t[i] # "blank"
    BY <1>1, <1>2, BeforeIsAPrefix
  <2> QED BY <2>1, <2>2
<1>4. said # <<>> /\ said[1] = "/" /\ Before(Tail(word), "@") = Tail(said)
  BY <1>2, <1>3, TailOfBefore
<1>5. /\ said \in Seq(S) /\ Len(said) \in Nat /\ Len(said) \in 0..Len(word)
      /\ \A i \in 1..Len(said) : said[i] = word[i] /\ word[i] # "@"
  <2>1. /\ Before(word, "@") \in Seq(S) /\ Len(Before(word, "@")) \in 0..Len(word)
        /\ \A i \in 1..Len(Before(word, "@")) :
              Before(word, "@")[i] = word[i] /\ word[i] # "@"
    BY <1>3, BeforeIsAPrefix
  <2> QED BY <1>2, <2>1
<1>6. \A i \in 1..Len(said) : word[i] # "blank"
  BY <1>3, <1>5
<1>7. Lower(Tail(said)) # <<>>
  <2>1. Tail(said) \in Seq(S) /\ Len(Tail(said)) = Len(said) - 1
    BY <1>4, <1>5, HeadTailProperties
  <2>2. DOMAIN Tail(said) = 1..(Len(said) - 1)
    BY <2>1
  <2>3. 1 \in DOMAIN Lower(Tail(said))
    BY <1>5, <2>2 DEF Lower
  <2>4. DOMAIN <<>> = {}
    OBVIOUS
  <2> QED BY <2>3, <2>4
<1>8. ParseCommand(typed) = [name |-> Lower(Tail(said)), args |-> Strip(After(t, "blank"))]
  BY <1>2, <1>4, <1>7 DEF ParseCommand
<1> QED BY <1>2, <1>4, <1>5, <1>6, <1>7, <1>8

\* A record of a command is not None.
LEMMA CommandIsSomething == \A n, a : [name |-> n, args |-> a] # None
<1>1. ASSUME NEW n, NEW a, [name |-> n, args |-> a] = None PROVE FALSE
  <2>1. "name" \in DOMAIN [name |-> n, args |-> a] /\ "name" \notin DOMAIN None
    BY DEF None
  <2> QED BY <1>1, <2>1
<1> QED BY <1>1

\* What CommandMeansWhatItSays says is so of every text over any characters.
LEMMA CommandsAreUnderstood ==
    ASSUME NEW S, NEW typed \in Seq(S) PROVE CommandMeansWhatItSays(typed)
<1>1. PICK t, word, said : /\ t = Strip(typed) /\ word = Before(t, "blank")
                           /\ said = Before(word, "@")
  OBVIOUS
<1>2. SUFFICES ASSUME t # <<>>, t[1] = "/", Len(said) > 1, Places(word, "newline") = {}
               PROVE  /\ Route(typed) # "ignored"
                      /\ ParseCommand(typed) # None
                      /\ ParseCommand(typed).name = ParseCommand(said).name
                      /\ ParseCommand(typed).args = Strip(After(t, "blank"))
  BY <1>1 DEF CommandMeansWhatItSays
<1>3. /\ said \in Seq(S) /\ Len(said) \in Nat /\ said[1] = "/"
      /\ \A i \in 1..Len(said) : said[i] # "@" /\ said[i] # "blank" /\ said[i] = word[i]
      /\ Len(said) \in 0..Len(word)
      /\ ParseCommand(typed) =
            [name |-> Lower(Tail(said)), args |-> Strip(After(t, "blank"))]
      /\ Lower(Tail(said)) # <<>>
  BY <1>1, <1>2, CommandParsed
<1>4. word \in Seq(S)
  BY <1>1, StripIsAPart, BeforeIsAPrefix
<1>5. Strip(said) = said
  <2>1. \A i \in 1..Len(said) : said[i] \notin Spaces
    BY <1>2, <1>3, <1>4 DEF Places, Spaces
  <2> QED BY <1>3, <2>1, StripIsAPart
<1>6. Before(said, "blank") = said /\ Before(said, "@") = said
  BY <1>3, NothingToCut
<1>7. Before(Before(said, "blank"), "@") = said /\ said # <<>>
  BY <1>2, <1>3, <1>6
<1>8. ParseCommand(said) =
         [name |-> Lower(Tail(said)), args |-> Strip(After(said, "blank"))]
  BY <1>2, <1>3, <1>5, <1>7, CommandParsed
<1>9. ParseCommand(typed) # None
  BY <1>3, CommandIsSomething
<1>10. Route(typed) # "ignored"
  BY <1>9 DEF Route
<1> QED BY <1>3, <1>8, <1>9, <1>10

-----------------------------------------------------------------------------
\* A set of two numbers has a smaller and a larger one.
LEMMA TwoNumbers ==
    ASSUME NEW n \in Nat, NEW T, T \subseteq 1..n
    PROVE  Cardinality(T) = 2 <=> \E i, j \in 1..n : i < j /\ T = {i, j}
<1>0. IsFiniteSet(T)
  <2>1. IsFiniteSet(1..n)
    BY FS_Interval
  <2> QED BY <2>1, FS_Subset
<1>1. ASSUME Cardinality(T) = 2 PROVE \E i, j \in 1..n : i < j /\ T = {i, j}
  <2>1. T # {}
    BY <1>1, FS_EmptySet
  <2>2. PICK a \in T : TRUE
    BY <2>1
  <2>3. IsFiniteSet(T \ {a}) /\ Cardinality(T \ {a}) = 1
    BY <1>0, <1>1, <2>2, FS_RemoveElement
  <2>4. PICK b : T \ {a} = {b}
    BY <2>3, FS_Singleton
  <2>5. T = {a, b} /\ a # b /\ a \in 1..n /\ b \in 1..n
    BY <2>2, <2>4
  <2>6. a < b \/ b < a
    BY <2>5
  <2>7. {a, b} = {b, a}
    OBVIOUS
  <2> QED BY <2>5, <2>6, <2>7
<1>2. ASSUME NEW i \in 1..n, NEW j \in 1..n, i < j, T = {i, j} PROVE Cardinality(T) = 2
  <2>1. T \ {j} = {i} /\ j \in T
    BY <1>2
  <2>2. Cardinality(T \ {j}) = Cardinality(T) - 1
    BY <1>0, <2>1, FS_RemoveElement
  <2>3. Cardinality({i}) = 1 /\ Cardinality(T) \in Nat
    BY <1>0, FS_Singleton, FS_CardinalityType
  <2>4. PICK c \in Nat : c = Cardinality(T)
    BY <2>3
  <2>5. c - 1 = 1
    BY <2>1, <2>2, <2>3, <2>4, Zenon
  <2>6. c = 2
    BY <2>5
  <2> QED BY <2>4, <2>6
<1> QED BY <1>1, <1>2

\* What the two cuts of parse_callback make of data with two colons.
LEMMA TwoCuts ==
    ASSUME NEW S, NEW data \in Seq(S), NEW i \in 1..Len(data), NEW j \in 1..Len(data),
           i < j, Places(data, ":") = {i, j}
    PROVE  /\ Before(data, ":") = SubSeq(data, 1, i - 1)
           /\ Len(Before(data, ":")) = i - 1
           /\ Len(Before(After(data, ":"), ":")) = j - i - 1
           /\ Len(After(After(data, ":"), ":")) = Len(data) - j
           /\ j - i - 1 > 0 =>
                 Before(After(data, ":"), ":") = SubSeq(data, i + 1, j - 1)
           /\ Len(data) - j > 0 =>
                 After(After(data, ":"), ":") = SubSeq(data, j + 1, Len(data))
<1>1. PICK n \in Nat : n = Len(data)
  OBVIOUS
<1>2. i \in Nat /\ j \in Nat /\ 1 <= i /\ i < j /\ j <= n /\ data[i] = ":" /\ data[j] = ":"
  BY <1>1 DEF Places
<1>3. \A k \in 1..n : data[k] \in S
  BY <1>1
<1>4. Before(data, ":") = SubSeq(data, 1, i - 1) /\ After(data, ":") = SubSeq(data, i + 1, n)
  <2>1. i \in Places(data, ":") /\ \A q \in Places(data, ":") : i <= q
    BY <1>2
  <2> QED BY <1>1, <2>1, SidesOfFirst
<1>5. Len(SubSeq(data, 1, i - 1)) = i - 1
  BY <1>2, <1>3, SubSeqProperties
<1>6. PICK left : left = SubSeq(data, i + 1, n)
  OBVIOUS
<1>7. left \in Seq(S) /\ Len(left) = n - i /\ \A k \in 1..(n - i) : left[k] = data[i + k]
  <2>1. \A k \in (i + 1)..n : data[k] \in S
    BY <1>2, <1>3
  <2>2. /\ left \in Seq(S) /\ Len(left) = IF i + 1 <= n THEN n - (i + 1) + 1 ELSE 0
        /\ \A k \in 1..(n - (i + 1) + 1) : left[k] = data[(i + 1) + k - 1]
    BY <1>2, <1>6, <2>1, SubSeqProperties
  <2>3. i + 1 <= n /\ n - (i + 1) + 1 = n - i /\ \A k \in Int : (i + 1) + k - 1 = i + k
    BY <1>2
  <2> QED BY <2>2, <2>3
<1>8. Places(left, ":") = {j - i}
  <2>1. DOMAIN left = 1..(n - i)
    BY <1>7
  <2>2. ASSUME NEW k \in 1..(n - i) PROVE left[k] = ":" <=> k = j - i
    <3>1. i + k \in 1..n /\ DOMAIN data = 1..n
      BY <1>1, <1>2
    <3>2. data[i + k] = ":" <=> i + k \in {i, j}
      BY <3>1 DEF Places
    <3>3. i + k \in {i, j} <=> k = j - i
      BY <1>2
    <3> QED BY <1>7, <3>2, <3>3
  <2>3. j - i \in 1..(n - i)
    BY <1>2
  <2> QED BY <2>1, <2>2, <2>3 DEF Places
<1>9. /\ Before(left, ":") = SubSeq(left, 1, j - i - 1)
      /\ After(left, ":") = SubSeq(left, j - i + 1, n - i)
  <2>1. j - i \in Places(left, ":") /\ \A q \in Places(left, ":") : j - i <= q
    BY <1>2, <1>8
  <2> QED BY <1>7, <2>1, SidesOfFirst
<1>10. \A k \in 1..(n - i) : left[k] \in S
  BY <1>7
<1>11. Len(SubSeq(left, 1, j - i - 1)) = j - i - 1
  BY <1>2, <1>10, SubSeqProperties
<1>12. Len(SubSeq(left, j - i + 1, n - i)) = n - j
  <2>1. \A k \in (j - i + 1)..(n - i) : left[k] \in S
    BY <1>2, <1>10
  <2>2. Len(SubSeq(left, j - i + 1, n - i))
          = IF j - i + 1 <= n - i THEN (n - i) - (j - i + 1) + 1 ELSE 0
    BY <1>2, <2>1, SubSeqProperties
  <2> QED BY <1>2, <2>2
<1>13. ASSUME j - i - 1 > 0
       PROVE  SubSeq(left, 1, j - i - 1) = SubSeq(data, i + 1, j - 1)
  <2>1. /\ i + 1 \in 1..n /\ n \in 1..n /\ 1 \in 1..(n - (i + 1) + 1)
        /\ j - i - 1 \in 1..(n - (i + 1) + 1)
    BY <1>2, <1>13
  <2>2. SubSeq(SubSeq(data, i + 1, n), 1, j - i - 1)
          = SubSeq(data, (i + 1) + 1 - 1, (i + 1) + (j - i - 1) - 1)
    BY <1>1, <2>1, SubSeqOfSubSeq
  <2>3. (i + 1) + 1 - 1 = i + 1 /\ (i + 1) + (j - i - 1) - 1 = j - 1
    BY <1>2
  <2> QED BY <1>6, <2>2, <2>3
<1>14. ASSUME n - j > 0
       PROVE  SubSeq(left, j - i + 1, n - i) = SubSeq(data, j + 1, n)
  <2>1. /\ i + 1 \in 1..n /\ n \in 1..n /\ j - i + 1 \in 1..(n - (i + 1) + 1)
        /\ n - i \in 1..(n - (i + 1) + 1)
    BY <1>2, <1>14
  <2>2. SubSeq(SubSeq(data, i + 1, n), j - i + 1, n - i)
          = SubSeq(data, (i + 1) + (j - i + 1) - 1, (i + 1) + (n - i) - 1)
    BY <1>1, <2>1, SubSeqOfSubSeq
  <2>3. (i + 1) + (j - i + 1) - 1 = j + 1 /\ (i + 1) + (n - i) - 1 = n
    BY <1>2
  <2> QED BY <1>6, <2>2, <2>3
<1> QED BY <1>1, <1>4, <1>5, <1>6, <1>9, <1>11, <1>12, <1>13, <1>14

\* Put together again around two colons, the parts are the data.
LEMMA PartsTogether ==
    ASSUME NEW S, NEW data \in Seq(S), NEW i \in 1..Len(data), NEW j \in 1..Len(data),
           i < j, data[i] = ":", data[j] = ":"
    PROVE  SubSeq(data, 1, i - 1) \o <<":">> \o SubSeq(data, i + 1, j - 1) \o <<":">>
               \o SubSeq(data, j + 1, Len(data)) = data
<1>1. PICK n \in Nat : n = Len(data)
  OBVIOUS
<1>2. i \in Nat /\ j \in Nat /\ 1 <= i /\ i < j /\ j <= n
  BY <1>1
<1>3. SubSeq(data, 1, i - 1) \o <<":">> = SubSeq(data, 1, i)
  <2>1. 1 \in 1..Len(data) /\ i \in 1..Len(data)
    BY <1>1, <1>2
  <2> QED BY <2>1, SubSeqRecursiveSecond
<1>4. SubSeq(data, 1, i) \o SubSeq(data, i + 1, j - 1) = SubSeq(data, 1, j - 1)
  <2>1. 1 \in 1..(Len(data) + 1) /\ i \in (1 - 1)..Len(data) /\ j - 1 \in i..Len(data)
    BY <1>1, <1>2
  <2> QED BY <2>1, ConcatAdjacentSubSeq
<1>5. SubSeq(data, 1, j - 1) \o <<":">> = SubSeq(data, 1, j)
  <2>1. 1 \in 1..Len(data) /\ j \in 1..Len(data)
    BY <1>1, <1>2
  <2> QED BY <2>1, SubSeqRecursiveSecond
<1>6. SubSeq(data, 1, j) \o SubSeq(data, j + 1, n) = SubSeq(data, 1, n)
  <2>1. 1 \in 1..(Len(data) + 1) /\ j \in (1 - 1)..Len(data) /\ n \in j..Len(data)
    BY <1>1, <1>2
  <2> QED BY <2>1, ConcatAdjacentSubSeq
<1>7. SubSeq(data, 1, n) = data
  BY <1>1, SubSeqFull
<1> QED BY <1>1, <1>3, <1>4, <1>5, <1>6, <1>7

\* Data of two colons with something on every side is understood as its three parts.
LEMMA ActionParsed ==
    ASSUME NEW S, NEW data \in Seq(S), NEW i \in 1..Len(data), NEW j \in 1..Len(data),
           1 < i, i + 1 < j, j < Len(data), Places(data, ":") = {i, j}
    PROVE  ParseCallback(data) =
               [target |-> SubSeq(data, 1, i - 1), subject |-> SubSeq(data, i + 1, j - 1),
                verb |-> SubSeq(data, j + 1, Len(data))]
<1>1. PICK target, subject, verb :
          /\ target = Before(data, ":") /\ subject = Before(After(data, ":"), ":")
          /\ verb = After(After(data, ":"), ":")
  OBVIOUS
<1>2. PICK n \in Nat : n = Len(data)
  OBVIOUS
<1>3. i < j /\ j - i - 1 > 0 /\ n - j > 0 /\ i - 1 > 0
  BY <1>2
<1>4. /\ target = SubSeq(data, 1, i - 1) /\ Len(target) = i - 1
      /\ subject = SubSeq(data, i + 1, j - 1) /\ Len(subject) = j - i - 1
      /\ verb = SubSeq(data, j + 1, Len(data)) /\ Len(verb) = n - j
  <2>1. i < j
    BY <1>3
  <2>2. /\ target = SubSeq(data, 1, i - 1) /\ Len(target) = i - 1
        /\ Len(subject) = j - i - 1 /\ Len(verb) = Len(data) - j
        /\ j - i - 1 > 0 => subject = SubSeq(data, i + 1, j - 1)
        /\ Len(data) - j > 0 => verb = SubSeq(data, j + 1, Len(data))
    <3>1. /\ Len(Before(data, ":")) = i - 1
          /\ Len(Before(After(data, ":"), ":")) = j - i - 1
          /\ Len(After(After(data, ":"), ":")) = Len(data) - j
          /\ Before(data, ":") = SubSeq(data, 1, i - 1)
          /\ j - i - 1 > 0
                => Before(After(data, ":"), ":") = SubSeq(data, i + 1, j - 1)
          /\ Len(data) - j > 0
                => After(After(data, ":"), ":") = SubSeq(data, j + 1, Len(data))
      BY <2>1, TwoCuts
    <3> QED BY <1>1, <3>1, Zenon
  <2> QED BY <1>2, <1>3, <2>2
<1>5. <<>> \notin {target, subject, verb}
  <2>1. Len(<<>>) = 0
    BY EmptySeq
  <2>2. Len(target) # 0 /\ Len(subject) # 0 /\ Len(verb) # 0
    <3>1. PICK a, b, c : a = Len(target) /\ b = Len(subject) /\ c = Len(verb)
      OBVIOUS
    <3> QED BY <1>3, <1>4, <3>1
  <2>3. target # <<>> /\ subject # <<>> /\ verb # <<>>
    BY <2>1, <2>2, Zenon
  <2> QED BY <2>3
<1>6. Cardinality(Places(data, ":")) = 2
  BY <1>3, TwoNumbers
<1> QED BY <1>1, <1>4, <1>5, <1>6 DEF ParseCallback

\* What ButtonMeansWhatItSays says is so of all data over any characters.
LEMMA ButtonsAreUnderstood ==
    ASSUME NEW S, NEW data \in Seq(S) PROVE ButtonMeansWhatItSays(data)
<1>0. PICK n \in Nat : n = Len(data) /\ DOMAIN data = 1..n
  OBVIOUS
<1>a. Places(data, ":") \subseteq 1..n /\ Len(<<>>) = 0
  BY <1>0, EmptySeq DEF Places
<1>b. \A k \in 1..n : data[k] \in S
  BY <1>0
<1>1. ASSUME Places(data, ":") = {} PROVE ParseCallback(data) = None
  <2>1. Cardinality(Places(data, ":")) # 2
    <3>1. Cardinality(Places(data, ":")) = 0
      BY <1>1, FS_EmptySet, Zenon
    <3> QED BY <3>1
  <2> QED BY <2>1 DEF ParseCallback
<1>2. ASSUME ParseCallback(data) # None, Len(data) <= CallbackMax
      PROVE  EncodeAction(ParseCallback(data).target, ParseCallback(data).subject,
                          ParseCallback(data).verb) = data
  <2>1. PICK target, subject, verb :
            /\ target = Before(data, ":") /\ subject = Before(After(data, ":"), ":")
            /\ verb = After(After(data, ":"), ":")
    OBVIOUS
  <2>2. /\ Cardinality(Places(data, ":")) = 2
        /\ target # <<>> /\ subject # <<>> /\ verb # <<>>
        /\ ParseCallback(data) = [target |-> target, subject |-> subject, verb |-> verb]
    BY <1>2, <2>1 DEF ParseCallback
  <2>3. PICK i \in 1..n, j \in 1..n : i < j /\ Places(data, ":") = {i, j}
    BY <1>a, <2>2, TwoNumbers
  <2>4. /\ Len(target) = i - 1 /\ Len(subject) = j - i - 1 /\ Len(verb) = n - j
        /\ target = SubSeq(data, 1, i - 1)
        /\ j - i - 1 > 0 => subject = SubSeq(data, i + 1, j - 1)
        /\ n - j > 0 => verb = SubSeq(data, j + 1, n)
    <3>1. i \in 1..Len(data) /\ j \in 1..Len(data)
      BY <1>0
    <3>2. /\ Len(Before(data, ":")) = i - 1
          /\ Len(Before(After(data, ":"), ":")) = j - i - 1
          /\ Len(After(After(data, ":"), ":")) = Len(data) - j
          /\ Before(data, ":") = SubSeq(data, 1, i - 1)
          /\ j - i - 1 > 0
                => Before(After(data, ":"), ":") = SubSeq(data, i + 1, j - 1)
          /\ Len(data) - j > 0
                => After(After(data, ":"), ":") = SubSeq(data, j + 1, Len(data))
      BY <2>3, <3>1, TwoCuts
    <3> QED BY <1>0, <2>1, <3>2, Zenon
  <2>5. target \in Seq(S) /\ subject \in Seq(S) /\ verb \in Seq(S)
    <3>1. After(data, ":") \in Seq(S)
      <4>1. After(data, ":") = SubSeq(data, i + 1, n)
        <5>1. i \in Places(data, ":") /\ \A q \in Places(data, ":") : i <= q
          BY <2>3
        <5> QED BY <1>0, <5>1, SidesOfFirst
      <4>2. \A k \in (i + 1)..n : data[k] \in S
        BY <1>b
      <4>3. i + 1 \in Int /\ n \in Int
        OBVIOUS
      <4>4. SubSeq(data, i + 1, n) \in Seq(S)
        BY <4>2, <4>3, SubSeqProperties
      <4> QED BY <4>1, <4>4
    <3>2. target \in Seq(S) /\ subject \in Seq(S)
      BY <2>1, <3>1, BeforeIsAPrefix
    <3>3. j \in 1..n /\ \A k \in (j + 1)..n : data[k] \in S
      BY <1>b
    <3>4. CASE n - j > 0
      <4>1. j + 1 \in Int /\ n \in Int
        BY <3>3
      <4>2. SubSeq(data, j + 1, n) \in Seq(S)
        BY <3>3, <4>1, SubSeqProperties
      <4> QED BY <2>4, <3>2, <3>4, <4>2
    <3>5. CASE ~(n - j > 0)
      <4>1. PICK left : left = After(data, ":")
        OBVIOUS
      <4>2. left \in Seq(S) /\ verb = After(left, ":")
        BY <2>1, <3>1, <4>1
      <4>3. Places(left, ":") # {}
        BY <2>2, <4>2 DEF After
      <4>4. Places(left, ":") \subseteq Nat
        BY <4>2 DEF Places
      <4>5. PICK p \in Places(left, ":") : \A q \in Places(left, ":") : p <= q
        BY <4>3, <4>4, LeastExists
      <4>6. p \in 1..Len(left) /\ Len(left) \in Nat
        BY <4>2 DEF Places
      <4>7. verb = SubSeq(left, p + 1, Len(left))
        BY <4>2, <4>5, SidesOfFirst
      <4>8. \A k \in (p + 1)..Len(left) : left[k] \in S
        BY <4>2, <4>6
      <4>9. verb \in Seq(S)
        BY <4>6, <4>7, <4>8, SubSeqProperties
      <4> QED BY <3>2, <4>9
    <3> QED BY <3>2, <3>4, <3>5
  <2>6. i - 1 > 0 /\ j - i - 1 > 0 /\ n - j > 0
    <3>1. Len(target) > 0 /\ Len(subject) > 0 /\ Len(verb) > 0
      BY <2>2, <2>5, EmptySeq
    <3> QED BY <2>4, <3>1
  <2>7. /\ target = SubSeq(data, 1, i - 1) /\ subject = SubSeq(data, i + 1, j - 1)
        /\ verb = SubSeq(data, j + 1, n)
    BY <2>4, <2>6
  <2>8. ASSUME NEW part \in {target, subject, verb} PROVE Places(part, ":") = {}
    <3>0. i \in Nat /\ j \in Nat /\ \A k \in 1..n : data[k] = ":" => k = i \/ k = j
      BY <1>0, <2>3 DEF Places
    <3>1. \A k \in 1..(i - 1) : target[k] = data[k]
      <4>1. \A k \in 1..(i - 1) : data[k] \in S
        BY <1>b, <3>0
      <4> QED BY <2>7, <3>0, <4>1, SubSeqProperties
    <3>2. \A k \in 1..(j - i - 1) : subject[k] = data[i + k]
      <4>1. \A k \in (i + 1)..(j - 1) : data[k] \in S
        BY <1>b, <2>3, <3>0
      <4>2. \A k \in 1..((j - 1) - (i + 1) + 1) : subject[k] = data[(i + 1) + k - 1]
        BY <2>7, <3>0, <4>1, SubSeqProperties
      <4>3. /\ (j - 1) - (i + 1) + 1 = j - i - 1
            /\ \A k \in Int : (i + 1) + k - 1 = i + k
        BY <3>0
      <4> QED BY <4>2, <4>3
    <3>3. \A k \in 1..(n - j) : verb[k] = data[j + k]
      <4>1. \A k \in (j + 1)..n : data[k] \in S
        BY <1>b, <3>0
      <4>2. \A k \in 1..(n - (j + 1) + 1) : verb[k] = data[(j + 1) + k - 1]
        BY <2>7, <3>0, <4>1, SubSeqProperties
      <4>3. n - (j + 1) + 1 = n - j /\ \A k \in Int : (j + 1) + k - 1 = j + k
        BY <3>0
      <4> QED BY <4>2, <4>3
    <3>4. \A k \in 1..(i - 1) : target[k] # ":"
      BY <2>3, <3>0, <3>1
    <3>5. \A k \in 1..(j - i - 1) : subject[k] # ":"
      <4>1. \A k \in 1..(j - i - 1) : i + k \in 1..n /\ i + k # i /\ i + k # j
        BY <2>3, <3>0
      <4> QED BY <3>0, <3>2, <4>1
    <3>6. \A k \in 1..(n - j) : verb[k] # ":"
      <4>1. \A k \in 1..(n - j) : j + k \in 1..n /\ j + k # i /\ j + k # j
        BY <2>3, <3>0
      <4> QED BY <3>0, <3>3, <4>1
    <3>7. /\ DOMAIN target = 1..(i - 1) /\ DOMAIN subject = 1..(j - i - 1)
          /\ DOMAIN verb = 1..(n - j)
      BY <2>4, <2>5
    <3> QED BY <3>4, <3>5, <3>6, <3>7 DEF Places
  <2>9. target \o <<":">> \o subject \o <<":">> \o verb = data
    <3>1. i \in 1..Len(data) /\ j \in 1..Len(data) /\ data[i] = ":" /\ data[j] = ":"
      BY <1>0, <2>3 DEF Places
    <3> QED BY <1>0, <2>3, <2>7, <3>1, PartsTogether
  <2>10. ~(Len(data) > CallbackMax)
    BY <1>0, <1>2, CallbackAssumption
  <2>11. EncodeAction(target, subject, verb) = data
    BY <2>2, <2>8, <2>9, <2>10 DEF EncodeAction
  <2> QED BY <2>2, <2>11
<1>3. ASSUME NEW i \in Places(data, ":"), NEW j \in Places(data, ":"), i < j,
             EncodeAction(SubSeq(data, 1, i - 1), SubSeq(data, i + 1, j - 1),
                          SubSeq(data, j + 1, Len(data))) # <<>>
      PROVE  ParseCallback(data) =
                 [target |-> SubSeq(data, 1, i - 1), subject |-> SubSeq(data, i + 1, j - 1),
                  verb |-> SubSeq(data, j + 1, Len(data))]
  <2>1. PICK target, subject, verb :
            /\ target = SubSeq(data, 1, i - 1) /\ subject = SubSeq(data, i + 1, j - 1)
            /\ verb = SubSeq(data, j + 1, n)
    OBVIOUS
  <2>2. \A part \in {target, subject, verb} : part # <<>> /\ Places(part, ":") = {}
    BY <1>0, <1>3, <2>1 DEF EncodeAction
  <2>3. i \in 1..n /\ j \in 1..n
    BY <1>a
  <2>4. /\ target \in Seq(S) /\ Len(target) = i - 1
        /\ \A k \in 1..(i - 1) : target[k] = data[k]
    <3>1. \A k \in 1..(i - 1) : data[k] \in S
      BY <1>b, <2>3
    <3> QED BY <2>1, <2>3, <3>1, SubSeqProperties
  <2>5. /\ subject \in Seq(S) /\ Len(subject) = j - i - 1
        /\ \A k \in 1..(j - i - 1) : subject[k] = data[i + k]
    <3>1. \A k \in (i + 1)..(j - 1) : data[k] \in S
      BY <1>b, <2>3
    <3>2. /\ subject \in Seq(S)
          /\ Len(subject) = IF i + 1 <= j - 1 THEN (j - 1) - (i + 1) + 1 ELSE 0
          /\ \A k \in 1..((j - 1) - (i + 1) + 1) : subject[k] = data[(i + 1) + k - 1]
      BY <2>1, <2>3, <3>1, SubSeqProperties
    <3>4. Len(subject) = j - i - 1
      BY <1>3, <2>3, <3>2
    <3>5. \A k \in 1..(j - i - 1) : subject[k] = data[i + k]
      <4> SUFFICES ASSUME NEW k \in 1..(j - i - 1) PROVE subject[k] = data[i + k]
        OBVIOUS
      <4>1. k \in 1..((j - 1) - (i + 1) + 1) /\ (i + 1) + k - 1 = i + k
        BY <2>3
      <4>2. subject[k] = data[(i + 1) + k - 1]
        BY <3>2, <4>1
      <4> QED BY <4>1, <4>2
    <3> QED BY <3>2, <3>4, <3>5
  <2>6. /\ verb \in Seq(S) /\ Len(verb) = n - j
        /\ \A k \in 1..(n - j) : verb[k] = data[j + k]
    <3>1. \A k \in (j + 1)..n : data[k] \in S
      BY <1>b, <2>3
    <3>2. /\ verb \in Seq(S)
          /\ Len(verb) = IF j + 1 <= n THEN n - (j + 1) + 1 ELSE 0
          /\ \A k \in 1..(n - (j + 1) + 1) : verb[k] = data[(j + 1) + k - 1]
      BY <2>1, <2>3, <3>1, SubSeqProperties
    <3>4. Len(verb) = n - j
      BY <2>3, <3>2
    <3>5. \A k \in 1..(n - j) : verb[k] = data[j + k]
      <4> SUFFICES ASSUME NEW k \in 1..(n - j) PROVE verb[k] = data[j + k]
        OBVIOUS
      <4>1. k \in 1..(n - (j + 1) + 1) /\ (j + 1) + k - 1 = j + k
        BY <2>3
      <4>2. verb[k] = data[(j + 1) + k - 1]
        BY <3>2, <4>1
      <4> QED BY <4>1, <4>2
    <3> QED BY <3>2, <3>4, <3>5
  <2>7. 1 < i /\ i + 1 < j /\ j < n
    <3>1. Len(target) > 0 /\ Len(subject) > 0 /\ Len(verb) > 0
      BY <2>2, <2>4, <2>5, <2>6, EmptySeq
    <3> QED BY <2>3, <2>4, <2>5, <2>6, <3>1
  <2>8. ASSUME NEW q \in Places(data, ":"), q # i, q # j PROVE FALSE
    <3>1. q \in 1..n /\ data[q] = ":"
      BY <1>a, <2>8 DEF Places
    <3>2. CASE q < i
      <4>1. q \in 1..(i - 1) /\ target[q] = ":"
        BY <2>3, <2>4, <3>1, <3>2
      <4> QED BY <2>2, <2>4, <4>1 DEF Places
    <3>3. CASE i < q /\ q < j
      <4>1. PICK k \in 1..(j - i - 1) : i + k = q
        <5>1. q - i \in 1..(j - i - 1) /\ i + (q - i) = q
          BY <2>3, <3>1, <3>3
        <5> QED BY <5>1
      <4>2. subject[k] = ":"
        <5>1. subject[k] = data[i + k]
          BY <2>5
        <5> QED BY <3>1, <4>1, <5>1
      <4>3. k \in DOMAIN subject
        BY <2>5
      <4> QED BY <2>2, <4>2, <4>3 DEF Places
    <3>4. CASE j < q
      <4>1. PICK k \in 1..(n - j) : j + k = q
        <5>1. q - j \in 1..(n - j) /\ j + (q - j) = q
          BY <2>3, <3>1, <3>4
        <5> QED BY <5>1
      <4>2. verb[k] = ":" /\ DOMAIN verb = 1..(n - j)
        BY <2>6, <3>1, <4>1
      <4> QED BY <2>2, <4>1, <4>2 DEF Places
    <3> QED BY <2>3, <2>8, <3>1, <3>2, <3>3, <3>4
  <2>9. Places(data, ":") = {i, j}
    BY <2>8
  <2> QED BY <1>0, <2>3, <2>7, <2>9, ActionParsed
<1> QED BY <1>1, <1>2, <1>3 DEF ButtonMeansWhatItSays

\* An instance that reads texts as well splits as chunk_for_telegram does: the theorems
\* above hold of it too.
LEMMA InstanceSplits == MCSpec => Spec
<1>1. MCInit => Init
  BY DEF MCInit
<1>2. [MCNext]_<<vars, incoming>> => [Next]_vars
  BY DEF MCNext, Next
<1> QED BY <1>1, <1>2, PTL DEF MCSpec, Spec

\* Whatever is typed or tapped in a run means what it says; by the two lemmas so does
\* any text of any length.
THEOREM TextsAreUnderstood == MCSpec => []TextsMeanWhatTheySay
<1>1. MCInit => incoming \in Seq(Keys)
  <2> SUFFICES ASSUME MCInit PROVE incoming \in Seq(Keys)
    OBVIOUS
  <2>1. incoming \in Incoming \/ incoming = <<>>
    BY DEF MCInit
  <2>2. ASSUME incoming \in Incoming PROVE incoming \in Seq(Keys)
    <3>1. PICK n \in 0..MaxIncoming : incoming \in [1..n -> Keys]
      BY <2>2 DEF Incoming
    <3>2. n \in Nat
      BY IncomingBound
    <3> QED BY <3>1, <3>2, SeqDef
  <2> QED BY <2>1, <2>2, EmptySeq
<1>2. incoming \in Seq(Keys) /\ [MCNext]_<<vars, incoming>> => (incoming \in Seq(Keys))'
  BY DEF MCNext
<1>3. incoming \in Seq(Keys) => TextsMeanWhatTheySay
  BY CommandsAreUnderstood, ButtonsAreUnderstood DEF TextsMeanWhatTheySay
<1> QED BY <1>1, <1>2, <1>3, PTL DEF MCSpec
=============================================================================
