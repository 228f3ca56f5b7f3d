------------------------------ MODULE Chunking ------------------------------
(***************************************************************************)
(* chunk_markdown: the pages of canonical Markdown are parsed into blocks, *)
(* blocks beyond the hard maximum are split, and bounded blocks are packed *)
(* into chunks that repeat a tail of the prose before them.                *)
(*                                                                         *)
(* A line is its kind and its size in wordpieces; a text is a sequence of  *)
(* wordpieces <<line, k>>.  The tokenizer (external) counts the wordpieces *)
(* and the Special tokens around them, and is additive: the retry in       *)
(* _split_fence for tokenizers that are not is out of the model.           *)
(***************************************************************************)
EXTENDS Naturals, Sequences, FiniteSets, SequencesExt, FiniteSetsExt

CONSTANTS
    TargetTokens, OverlapTokens, HardMaxTokens,
    Special,        \* special tokens in every count
    MaxChunks,      \* max_chunks
    LineSet,        \* bound: the lines, records of a kind and a size
    MaxLines,       \* bound: lines of the document
    MaxPages        \* bound: pages of the document

ASSUME TokensAssumption ==
    /\ {TargetTokens, OverlapTokens, HardMaxTokens, Special, MaxChunks} \subseteq Nat
    /\ Special < OverlapTokens /\ OverlapTokens < TargetTokens /\ TargetTokens < HardMaxTokens
    /\ MaxChunks > 0
ASSUME BoundsAssumption == MaxLines \in Nat /\ MaxPages \in Nat
\* Only a blank line has no wordpieces.
ASSUME LinesAssumption == \A l \in LineSet : l.size \in Nat /\ (l.size = 0 <=> l.kind = "blank")

VARIABLES
    doc,        \* the document: its lines, each with the number of its page
    index,      \* next line to parse
    headings,   \* active headings, as lines
    blocks,     \* bounded blocks that are not in a chunk yet
    parts,      \* blocks of the open chunk
    chunks,
    status      \* "parsing", "packing", "done", or why the document was refused

vars == <<doc, index, headings, blocks, parts, chunks, status>>

Heading(i) == doc[i].kind \in {"h1", "h3"}
Level(i)   == IF doc[i].kind = "h1" THEN 1 ELSE 3
Fence(i)   == doc[i].kind \in {"fence", "info"}
Pipe(i)    == doc[i].kind \in {"row", "separator"}
Blank(i)   == doc[i].kind = "blank"

-----------------------------------------------------------------------------
(* What the formatter lets through: fences that are balanced in its own      *)
(* grammar, where only a bare marker closes, and tables with a header.       *)

\* _outside_fence_lines: is line i of d inside a fence?
Open(d, i) ==
    LET step(open, l) == IF l.kind = "fence" THEN ~open ELSE open \/ l.kind = "info"
    IN FoldLeft(step, FALSE, SelectSeq(SubSeq(d, 1, i), LAMBDA l : l.page = d[i].page))

Formatted(d) ==
    /\ \A p \in {d[i].page : i \in DOMAIN d} :
        LET page == {i \in DOMAIN d : d[i].page = p} IN
        /\ \E i \in page : d[i].kind # "blank"
        /\ ~Open(d, Max(page))
    /\ \A i \in DOMAIN d : d[i].kind = "separator" /\ ~Open(d, i) =>
        i > 1 /\ d[i - 1].page = d[i].page /\ d[i - 1].kind = "row" /\ ~Open(d, i - 1)

\* Lines, and the lines other than the first that start a page.
Numbered(lines, starts) ==
    [i \in DOMAIN lines |-> [page |-> 1 + Cardinality({b \in starts : b <= i}),
                             kind |-> lines[i].kind, size |-> lines[i].size]]

Init ==
    /\ \E n \in 1 .. MaxLines : \E lines \in [1 .. n -> LineSet], starts \in SUBSET (2 .. n) :
        /\ Cardinality(starts) < MaxPages
        /\ doc \in {d \in {Numbered(lines, starts)} : Formatted(d)}
    /\ index = 1 /\ headings = <<>> /\ blocks = <<>> /\ parts = <<>> /\ chunks = <<>>
    /\ status = "parsing"

-----------------------------------------------------------------------------
(* Texts and blocks. *)

LineText(i) == [k \in 1 .. doc[i].size |-> <<i, k>>]

\* "\n".join(lines[i .. j])
Text(i, j) == FlattenSeq([k \in 1 .. j - i + 1 |-> LineText(i + k - 1)])

CountTokens(text) == Special + Len(text)

Block(kind, page, path, text) == [kind |-> kind, page |-> page, path |-> path, text |-> text]

\* The lines from i on that are of a set and on the page of line i - 1 end before Stop.
Stop(i, lines) ==
    Min({j \in i .. Len(doc) + 1 :
            j > Len(doc) \/ doc[j].page # doc[i - 1].page \/ j \notin lines})

TableStart(i) ==
    /\ i < Len(doc) /\ doc[i + 1].page = doc[i].page
    /\ Pipe(i) /\ doc[i + 1].kind = "separator"

\* Any marker closes a fence, with an info string or without; otherwise the page does.
FenceEnd(i) ==
    LET j == Stop(i + 1, {k \in DOMAIN doc : ~Fence(k)}) IN
    IF j <= Len(doc) /\ doc[j].page = doc[i].page THEN j ELSE j - 1

TableEnd(i) == Stop(i + 2, {j \in DOMAIN doc : Pipe(j)}) - 1

ProseEnd(i) ==
    Stop(i + 1, {j \in DOMAIN doc :
                    ~Blank(j) /\ ~Heading(j) /\ ~Fence(j) /\ ~TableStart(j)}) - 1

\* headings[level - 1 :] = [title]: a level that was skipped leaves no gap.
Path(i) ==
    IF Heading(i)
    THEN Append(SubSeq(headings, 1, Min({Level(i) - 1, Len(headings)})), i)
    ELSE headings

-----------------------------------------------------------------------------
(* Splitting.  A split is the texts of its pieces, or why it is refused. *)

\* Variant: the last, shorter piece is dropped.
Cut_Whole(text, n) ==
    [k \in 1 .. Len(text) \div n |-> SubSeq(text, (k - 1) * n + 1, k * n)]

\* _largest_prefix, again and again: pieces of n wordpieces and a rest.
Cut(text, n) ==
    [k \in 1 .. (Len(text) + n - 1) \div n |->
        SubSeq(text, (k - 1) * n + 1, Min({k * n, Len(text)}))]

SplitProse(i, j) == [texts |-> Cut(Text(i, j), HardMaxTokens - Special), refused |-> "none"]

\* A row goes into the last piece if it fits there, else into a piece of its own.
AddRow(done, header, row) ==
    IF done.refused # "none" THEN done
    ELSE IF CountTokens(Last(done.texts) \o LineText(row)) <= HardMaxTokens
    THEN [done EXCEPT !.texts = Append(Front(@), Last(@) \o LineText(row))]
    ELSE IF CountTokens(header \o LineText(row)) > HardMaxTokens
    THEN [done EXCEPT !.refused = "table row"]
    ELSE [done EXCEPT !.texts = Append(@, header \o LineText(row))]

\* The header is repeated in every piece.
SplitTable(i, j) ==
    LET header == Text(i, i + 1)
        split[row \in i + 1 .. j] ==
            IF row = i + 1 THEN [texts |-> <<header>>, refused |-> "none"]
            ELSE AddRow(split[row - 1], header, row)
    IN IF CountTokens(header) > HardMaxTokens
       THEN [texts |-> <<>>, refused |-> "table header"]
       ELSE split[j]

\* The last line is the closing one, be it a marker or not.
SplitFence(i, j) ==
    LET wrapper == CountTokens(LineText(i) \o LineText(j))
        room    == HardMaxTokens - wrapper - Special
        body    == Cut(Text(i + 1, j - 1), room)
    IN IF i = j THEN [texts |-> <<>>, refused |-> "unterminated fence"]
       ELSE IF wrapper + Special >= HardMaxTokens
       THEN [texts |-> <<>>, refused |-> "fence wrapper"]
       ELSE [texts |-> [k \in DOMAIN body |-> LineText(i) \o body[k] \o LineText(j)],
             refused |-> "none"]

\* _bounded_blocks, for one block
Bounded(kind, i, j) ==
    IF CountTokens(Text(i, j)) <= HardMaxTokens
    THEN [texts |-> <<Text(i, j)>>, refused |-> "none"]
    ELSE CASE kind = "table" -> SplitTable(i, j)
           [] kind = "fence" -> SplitFence(i, j)
           [] OTHER          -> SplitProse(i, j)

-----------------------------------------------------------------------------
(* Parsing: one block of _parse_blocks at a time, over the pages in order. *)

SkipBlank ==
    /\ status = "parsing" /\ index <= Len(doc) /\ Blank(index)
    /\ index' = index + 1
    /\ UNCHANGED <<doc, headings, blocks, parts, chunks, status>>

\* Lines index .. j become a block; a split block of another kind is prose.
Take(kind, j) ==
    LET pieces == Bounded(kind, index, j)
        split  == IF kind = "heading" /\ Len(pieces.texts) > 1 THEN "prose" ELSE kind
    IN /\ index' = j + 1
       /\ headings' = Path(index)
       /\ blocks' = blocks \o
            [k \in DOMAIN pieces.texts |->
                Block(split, doc[index].page, headings', pieces.texts[k])]
       /\ status' = IF pieces.refused = "none" THEN status ELSE pieces.refused
       /\ UNCHANGED <<doc, parts, chunks>>

ParseBlock ==
    /\ status = "parsing" /\ index <= Len(doc) /\ ~Blank(index)
    /\ IF Heading(index) THEN Take("heading", index)
       ELSE IF Fence(index) THEN Take("fence", FenceEnd(index))
       ELSE IF TableStart(index) THEN Take("table", TableEnd(index))
       ELSE Take("prose", ProseEnd(index))

ParseEnds ==
    /\ status = "parsing" /\ index > Len(doc)
    /\ status' = IF blocks = <<>> THEN "no content" ELSE "packing"
    /\ UNCHANGED <<doc, index, headings, blocks, parts, chunks>>

-----------------------------------------------------------------------------
(* Packing. *)

Total(ps) == CountTokens(FlattenSeq([k \in DOMAIN ps |-> ps[k].text]))

\* Variant: what was repeated once is repeated again.
Overlap_Again(ps) ==
    LET prose == {k \in DOMAIN ps : ps[k].kind \in {"prose", "overlap"}}
        last  == ps[Max(prose)]
        n     == Min({Len(last.text), OverlapTokens - Special})
    IN IF prose = {} THEN <<>>
       ELSE <<[last EXCEPT !.kind = "overlap",
                           !.text = SubSeq(@, Len(@) - n + 1, Len(@))]>>

\* _overlap: the last prose block, or the longest suffix of it that fits.
Overlap(ps) ==
    LET prose == {k \in DOMAIN ps : ps[k].kind = "prose"}
        last  == ps[Max(prose)]
        n     == Min({Len(last.text), OverlapTokens - Special})
    IN IF prose = {} THEN <<>>
       ELSE <<[last EXCEPT !.kind = "overlap",
                           !.text = SubSeq(@, Len(@) - n + 1, Len(@))]>>

\* Variant: the pages of the first part are taken for those of the chunk.
FinishChunk_FirstPage(ps) ==
    [parts |-> ps, first |-> ps[1].page, last |-> ps[1].page, path |-> Last(ps).path]

\* _finish_chunk
FinishChunk(ps) ==
    [parts |-> ps,
     first |-> Min({ps[k].page : k \in DOMAIN ps}),
     last  |-> Max({ps[k].page : k \in DOMAIN ps}),
     path  |-> Last(ps).path]

\* flush's checks, on the parts it turns into a chunk
FlushProblem(ps) ==
    IF Total(ps) = Special THEN "empty chunk"
    ELSE IF Total(ps) > HardMaxTokens THEN "chunk beyond the maximum"
    ELSE IF Len(chunks) >= MaxChunks THEN "chunk limit" ELSE "none"

\* Variant: the overlap stays in front of a block it leaves no room for.
Room_Kept(ps, block) == ps

\* The overlap gives way to a block that leaves no room for it.
Room(ps, block) == IF Total(Append(ps, block)) > HardMaxTokens THEN <<>> ELSE ps

Pack ==
    LET block == Head(blocks)
        full  == parts # <<>> /\ Total(Append(parts, block)) > TargetTokens
        kept  == IF full THEN Overlap(parts) ELSE parts
        next  == Append(Room(kept, block), block)
    IN /\ status = "packing" /\ blocks # <<>>
       /\ blocks' = Tail(blocks)
       /\ chunks' = IF full THEN Append(chunks, FinishChunk(parts)) ELSE chunks
       /\ parts' = next
       /\ status' = IF full /\ FlushProblem(parts) # "none" THEN FlushProblem(parts)
                    ELSE IF Total(next) > HardMaxTokens THEN "block beyond the maximum"
                    ELSE status
       /\ UNCHANGED <<doc, index, headings>>

\* The last flush; what it keeps for a next chunk is dropped.
PackEnds ==
    /\ status = "packing" /\ blocks = <<>>
    /\ chunks' = Append(chunks, FinishChunk(parts))
    /\ parts' = Overlap(parts)
    /\ status' = IF FlushProblem(parts) # "none" THEN FlushProblem(parts) ELSE "done"
    /\ UNCHANGED <<doc, index, headings, blocks>>

Next == SkipBlank \/ ParseBlock \/ ParseEnds \/ Pack \/ PackEnds

Spec == Init /\ [][Next]_vars

-----------------------------------------------------------------------------
\* What the parts of some kinds say.
PartsText(ps, kinds) ==
    FlattenSeq([k \in DOMAIN ps |-> IF ps[k].kind \in kinds THEN ps[k].text ELSE <<>>])

ChunkText(c, kinds) == PartsText(c.parts, kinds)

Own == {"heading", "fence", "table", "prose"}

Plain == {"heading", "prose"}

\* What chunks say, one after the other.
Written(cs, kinds) == FlattenSeq([c \in DOMAIN cs |-> ChunkText(cs[c], kinds)])

\* The order of the document.
Before(w, x) == w[1] < x[1] \/ (w[1] = x[1] /\ w[2] < x[2])

\* A document that is chunked is chunked whole: every wordpiece of it is in some
\* chunk, what is there once comes in the order of the document, and headings and
\* prose are there once: only tables and fences repeat lines (_parse_blocks, the
\* three splitters and the loop of chunk_markdown together).
NothingLost ==
    LET text  == Written(chunks, Own)
        plain == Written(chunks, Plain)
        once  == {k \in DOMAIN text : Cardinality({j \in DOMAIN text : text[j] = text[k]}) = 1}
    IN status = "done" =>
        /\ ToSet(text) = UNION {ToSet(LineText(i)) : i \in DOMAIN doc}
        /\ \A j, k \in once : j < k => Before(text[j], text[k])
        /\ \A j, k \in DOMAIN plain : j < k => Before(plain[j], plain[k])

\* A document is refused only for a table or a fence that cannot be split, or for
\* its number of chunks: the checks for a block or a chunk beyond the hard maximum
\* and for an empty chunk never fire, whatever is split, packed and repeated.
RefusedForACause ==
    status \in {"parsing", "packing", "done", "table row", "table header",
                "unterminated fence", "fence wrapper", "chunk limit"}

\* What a chunk repeats is the end of prose that the chunk before it holds as its
\* own, within the overlap bound, and no chunk consists of a repetition alone.
OverlapIsFresh ==
    \A c \in DOMAIN chunks :
        LET repeated == ChunkText(chunks[c], {"overlap"}) IN
        /\ ChunkText(chunks[c], Own) # <<>>
        /\ repeated # <<>> =>
            /\ CountTokens(repeated) <= OverlapTokens
            /\ c > 1 /\ \E k \in DOMAIN chunks[c - 1].parts :
                /\ chunks[c - 1].parts[k].kind = "prose"
                /\ IsSuffix(repeated, chunks[c - 1].parts[k].text)

\* The page range of a chunk is that of its text, repetitions included, and the
\* chunks of a document start on pages that never go back; the innermost heading
\* of a chunk is the nearest one above its last block that is a block itself.
Provenance ==
    \A c \in DOMAIN chunks :
        LET pages == {doc[w[1]].page : w \in ToSet(ChunkText(chunks[c], Own \cup {"overlap"}))}
            above == {ps \in UNION {ToSet(chunks[b].parts) : b \in 1 .. c} : ps.kind = "heading"}
        IN /\ chunks[c].first = Min(pages) /\ chunks[c].last = Max(pages)
           /\ c > 1 => chunks[c - 1].first <= chunks[c].first
           /\ above # {} => Last(chunks[c].path) >= Max({Head(ps.text)[1] : ps \in above})
=============================================================================
