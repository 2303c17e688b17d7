------------------------------- MODULE DocText -------------------------------
(***************************************************************************)
(* From a file to embedded chunks: the extractors of the formats and the   *)
(* router of page images (doc_processor/text_extractors, visual_router.py),*)
(* the parent/child chunker (chunker.py) and the embedding in batches      *)
(* (embedder.py), as process_document runs them one after the other.       *)
(*                                                                         *)
(* A file is a sequence of lines, paragraphs, rows or layout boxes, each   *)
(* known by its place and by what it is; pages, slides, sheets and windows *)
(* of plain text are WindowLines of them.  A text is the places it came    *)
(* from and its length.                                                    *)
(***************************************************************************)
EXTENDS Integers, Sequences, SequencesExt, FiniteSetsExt

CONSTANTS
    Papers,     \* files: [format, lines, fallback] records
    WindowLines,
    LongLine,   \* length of a long line; the others have length 1
    ChildMax, ParentMax,
    BatchSize

Formats == {"md", "txt", "pdf", "docx", "pptx", "xlsx", "image"}

ASSUME TextAssumption == {WindowLines, LongLine, ChildMax, ParentMax, BatchSize} \subseteq Nat \ {0}

ASSUME PapersAssumption ==
    \A p \in Papers : p.format \in Formats /\ p.lines \in Seq(STRING) /\ p.fallback \in BOOLEAN

VARIABLES
    paper,      \* fallback: fallback_ocr of its visual router
    parsing,    \* the step that is next, or how the pipeline ended
    pagesRead,  \* page images the router has gone through
    sections,   \* each a sequence of blocks
    chapters,   \* the ParentChunks
    children,   \* the ChildChunks
    vectors     \* the child each vector was computed for

textVars == <<paper, parsing, pagesRead, sections, chapters, children, vectors>>

Empty == {"blank", "emptySub"}
Atomic == {"table", "figure", "caption"}

Lines == paper.lines
Places(from, to) == [i \in 1 .. to - from + 1 |-> from + i - 1]
Length(place) == CASE Lines[place] \in Empty -> 0 [] Lines[place] = "long" -> LongLine [] OTHER -> 1
Added(lengths) ==
    LET added[n \in 0 .. Len(lengths)] == IF n = 0 THEN 0 ELSE added[n - 1] + lengths[n]
    IN  added[Len(lengths)]
Chars(places) == Added([n \in DOMAIN places |-> Length(places[n])])

\* The elements of s that are in S, in their order.
Only(s, S) ==
    LET only[n \in 0 .. Len(s)] ==
            IF n = 0 THEN <<>> ELSE IF s[n] \in S THEN Append(only[n - 1], s[n]) ELSE only[n - 1]
    IN  only[Len(s)]

Block(kind, places) == [kind |-> kind, places |-> places]

TextTypeOK ==
    /\ paper \in Papers
    /\ parsing \in {"parse", "chunk", "embed", "embedded", "failed"}
    /\ pagesRead \in 0 .. Len(Lines)
    /\ sections \in Seq(Seq([kind : {"text", "heading", "list"} \cup Atomic, places : Seq(DOMAIN Lines)]))
    /\ \A p \in Range(chapters) : p.childIds \subseteq DOMAIN children
    /\ \A c \in Range(children) : c.parent \in DOMAIN sections
    /\ vectors \in Seq(DOMAIN children)

---------------------------------------------------------------------------
(* The extractors.                                                         *)

Stretches == (Len(Lines) + WindowLines - 1) \div WindowLines
Stretch(n) ==
    Places((n - 1) * WindowLines + 1,
           IF n * WindowLines < Len(Lines) THEN n * WindowLines ELSE Len(Lines))

But(kinds) == {i \in DOMAIN Lines : Lines[i] \notin kinds}
Written(places) == Only(places, But(Empty))

\* One block of the lines that are not blank, if there are any.
Body(places) == IF Written(places) = <<>> THEN <<>> ELSE <<Block("text", Written(places))>>

Nonempty(secs) == Only(secs, Range(secs) \ {<<>>})

\* A section from each opening line to the next.
Cut(opens) ==
    [k \in DOMAIN opens |->
        Places(opens[k] + 1, IF k < Len(opens) THEN opens[k + 1] - 1 ELSE Len(Lines))]

Openings(kinds) == Only(Places(1, Len(Lines)), {i \in DOMAIN Lines : Lines[i] \in kinds})

\* extract_plain of a .md file: what stands before the first heading is dropped.
ExtractMarkdown ==
    LET heads == Openings({"title", "sub"})
    IN  IF heads = <<>> THEN <<Body(Places(1, Len(Lines)))>>
        ELSE [k \in DOMAIN heads |-> Body(Cut(heads)[k])]

\* extract_pdf_text: a page without text has no section.
ExtractPdfText == Nonempty([n \in 1 .. Stretches |-> Body(Stretch(n))])

\* extract_plain of a .txt file: the same, but never no section at all.
ExtractText == IF ExtractPdfText = <<>> THEN <<<<>>>> ELSE ExtractPdfText

\* extract_docx: a block for each paragraph, in a preamble up to the first heading; a
\* heading below the first level is a block even if it is empty.  A table of the body is
\* among no document's paragraphs and makes no block.
ExtractDocx ==
    LET titles == Openings({"title"})
        paragraphs == Only(Places(1, Len(Lines)), But({"table"}))
        opens == IF paragraphs # <<>> /\ Lines[Head(paragraphs)] # "title" THEN <<0>> \o titles
                 ELSE titles
        kind(i) == CASE Lines[i] \in {"sub", "emptySub"} -> "heading"
                     [] Lines[i] = "list" -> "list"
                     [] OTHER -> "text"
    IN  [k \in DOMAIN opens |->
            LET p == Only(Cut(opens)[k], But({"blank", "table"}))
            IN  [j \in DOMAIN p |-> Block(kind(p[j]), <<p[j]>>)]]

\* extract_pptx: the first line of the title shape is the heading of the slide.
ExtractPptx ==
    [n \in 1 .. Stretches |->
        LET titles == {i \in Range(Stretch(n)) : Lines[i] = "title"}
        IN  Body(IF titles = {} THEN Stretch(n)
                 ELSE Only(Stretch(n), Range(Stretch(n)) \ {Min(titles)}))]

\* extract_xlsx: a block for each row below the header, which is the first row, empty or
\* not (the module's words have it as the first row that is not empty).
ExtractXlsx ==
    [n \in 1 .. Stretches |->
        LET rows == Written(Tail(Stretch(n)))
        IN  [j \in DOMAIN rows |-> Block("table", <<rows[j]>>)]]

Extract ==
    CASE paper.format = "md" -> ExtractMarkdown
      [] paper.format = "txt" -> ExtractText
      [] paper.format = "pdf" -> ExtractPdfText
      [] paper.format = "docx" -> ExtractDocx
      [] paper.format = "pptx" -> ExtractPptx
      [] paper.format = "xlsx" -> ExtractXlsx

Goes(to) ==
    /\ parsing' = to
    /\ UNCHANGED paper

\* parse_document_with_router, for every format with text of its own.
ParseText ==
    /\ parsing = "parse" /\ paper.format # "image"
    /\ sections' = Extract
    /\ Goes("chunk")
    /\ UNCHANGED <<pagesRead, chapters, children, vectors>>

---------------------------------------------------------------------------
(* The visual router: parse_images.                                        *)

\* _box_to_block: boxes of unknown classes and those without a text are dropped.
BoxBlocks(places) ==
    LET p == Only(places, But({"blank", "unknown"}))
    IN  [j \in DOMAIN p |-> Block(IF Lines[p[j]] \in Atomic THEN Lines[p[j]] ELSE "text", <<p[j]>>)]

ReadPage ==
    /\ parsing = "parse" /\ paper.format = "image" /\ pagesRead < Stretches
    /\ pagesRead' = pagesRead + 1
    /\ sections' = sections \o Nonempty(<<BoxBlocks(Stretch(pagesRead + 1))>>)
    /\ UNCHANGED <<paper, parsing, chapters, children, vectors>>

PagesDone ==
    /\ parsing = "parse" /\ paper.format = "image" /\ pagesRead = Stretches
    /\ sections # <<>>
    /\ Goes("chunk")
    /\ UNCHANGED <<pagesRead, sections, chapters, children, vectors>>

\* A call of the server fails, or no page has a section.
VisualFails ==
    /\ parsing = "parse" /\ paper.format = "image"
    /\ pagesRead < Stretches \/ sections = <<>>

\* _rapidocr_fallback reads every page again, into one block.
FallBack ==
    /\ VisualFails /\ paper.fallback
    /\ LET read == Only(Places(1, Len(Lines)), But(Empty \cup {"figure", "unknown"}))
       IN  /\ sections' = IF read = <<>> THEN <<>> ELSE <<<<Block("text", read)>>>>
           /\ Goes(IF read = <<>> THEN "failed" ELSE "chunk")
    /\ UNCHANGED <<pagesRead, chapters, children, vectors>>

\* Any parser may raise: a file that is no file of its format, a server that is out
\* with no fallback allowed (the Celery task allows none), a fallback that raises too.
ParseFails ==
    /\ parsing = "parse"
    /\ Goes("failed")
    /\ UNCHANGED <<pagesRead, sections, chapters, children, vectors>>

---------------------------------------------------------------------------
(* The chunker.                                                            *)

BlocksChars(blocks) == Added([n \in DOMAIN blocks |-> Chars(blocks[n].places)])

Child(blocks, parent) == [kind |-> Head(blocks).kind, blocks |-> blocks, parent |-> parent]

\* Mutant of Flush: only the block that came last decides whether there is a text.
FlushByLast(acc, parent) ==
    [done |-> IF acc.buffer = <<>> \/ Chars(Last(acc.buffer).places) = 0 THEN acc.done
              ELSE Append(acc.done, Child(acc.buffer, parent)),
     buffer |-> <<>>]

\* flush: a buffer without any text makes no child.
Flush(acc, parent) ==
    [done |-> IF BlocksChars(acc.buffer) = 0 THEN acc.done
              ELSE Append(acc.done, Child(acc.buffer, parent)),
     buffer |-> <<>>]

AddBlock(acc, block, parent) ==
    LET room == IF acc.buffer # <<>> /\ BlocksChars(acc.buffer) + Chars(block.places) > ChildMax
                THEN Flush(acc, parent) ELSE acc
        filled == [room EXCEPT !.buffer = Append(@, block)]
    IN  IF block.kind \in Atomic
        THEN [done |-> Append(Flush(acc, parent).done, Child(<<block>>, parent)), buffer |-> <<>>]
        ELSE IF BlocksChars(filled.buffer) >= ChildMax THEN Flush(filled, parent) ELSE filled

SplitSection(n) ==
    LET split[k \in 0 .. Len(sections[n])] ==
            IF k = 0 THEN [done |-> <<>>, buffer |-> <<>>]
            ELSE AddBlock(split[k - 1], sections[n][k], n)
    IN  Flush(split[Len(sections[n])], n).done

\* chunk_parsed_doc: a parent for each section; it knows its children, and its text is
\* cut at ParentMax.
ChunkParsedDoc ==
    /\ parsing = "chunk"
    /\ children' = FlattenSeq([n \in DOMAIN sections |-> SplitSection(n)])
    /\ chapters' = [n \in DOMAIN sections |->
            [childIds |-> {c \in DOMAIN children' : children'[c].parent = n},
             cut |-> BlocksChars(sections[n]) > ParentMax]]
    /\ Goes(IF children' = <<>> THEN "embedded" ELSE "embed")
    /\ UNCHANGED <<pagesRead, sections, vectors>>

---------------------------------------------------------------------------
(* The embedder.                                                           *)

\* embed_texts, one request: the server answers with one vector per text, in order, or
\* the answer is refused.
EmbedBatch ==
    /\ parsing = "embed"
    /\ vectors' = vectors \o Places(Len(vectors) + 1,
            IF Len(vectors) + BatchSize < Len(children) THEN Len(vectors) + BatchSize ELSE Len(children))
    /\ Goes(IF Len(vectors') = Len(children) THEN "embedded" ELSE "embed")
    /\ UNCHANGED <<pagesRead, sections, chapters, children>>

EmbedFails ==
    /\ parsing = "embed"
    /\ Goes("failed")
    /\ UNCHANGED <<pagesRead, sections, chapters, children, vectors>>

---------------------------------------------------------------------------
TextInit ==
    /\ paper \in Papers
    /\ parsing = "parse" /\ pagesRead = 0
    /\ sections = <<>> /\ chapters = <<>> /\ children = <<>> /\ vectors = <<>>

TextNext ==
    \/ ParseText \/ ReadPage \/ PagesDone \/ FallBack \/ ParseFails
    \/ ChunkParsedDoc \/ EmbedBatch \/ EmbedFails

TextSpec == TextInit /\ [][TextNext]_textVars

---------------------------------------------------------------------------
(* Properties.                                                             *)

Before(i, kinds) == {j \in 1 .. i : Lines[j] \in kinds}

\* What a reader of the file would want to find: every line with a text, but headings
\* that name their section, the first row of a sheet, pictures that only OCR has seen,
\* what stands before the first heading in Markdown, and the tables of a Word file: these
\* are lost, and no other part of the pipeline sees them.
Wanted ==
    LET written == {i \in DOMAIN Lines : Lines[i] \notin Empty}
        header(i) == Min(Range(Stretch((i - 1) \div WindowLines + 1)))
        its(i) == Range(Stretch((i - 1) \div WindowLines + 1))
    IN  CASE paper.format \in {"txt", "pdf"} -> written
          [] paper.format = "md" ->
                {i \in written : Lines[i] \notin {"title", "sub"} /\
                    (Before(i, {"title", "sub"}) # {} \/ Before(Len(Lines), {"title", "sub"}) = {})}
          [] paper.format = "docx" -> {i \in written : Lines[i] \notin {"title", "table"}}
          [] paper.format = "pptx" ->
                {i \in written : Lines[i] = "title" =>
                    \E j \in its(i) : j < i /\ Lines[j] = "title"}
          [] paper.format = "xlsx" -> {i \in written : i # header(i)}
          [] paper.format = "image" -> {i \in written : Lines[i] # "unknown"}

ChildPlaces(c) == Written(FlattenSeq([k \in DOMAIN c.blocks |-> c.blocks[k].places]))
AllPlaces == FlattenSeq([c \in DOMAIN children |-> ChildPlaces(children[c])])

\* Nothing that is wanted of a file is lost on the way to its chunks, nothing is in two of
\* them and nothing changes places, also if the fallback reads pages again that were
\* already read.
EverythingOnce ==
    parsing = "embedded" =>
        LET all == AllPlaces
        IN  /\ \A k \in 1 .. Len(all) - 1 : all[k] < all[k + 1]
            /\ \/ Range(all) = Wanted
               \/ paper.fallback /\ Range(all) = {i \in Wanted : Lines[i] # "figure"}

\* Children are as large as the budget allows, not counting the blank lines that join their
\* texts: only a single block exceeds it, and a child takes the next block of its section
\* in unless that would exceed the budget or the child fills it.  Only the atomic kinds stay
\* by themselves; headings, lists and texts share a child, which has the kind of its first
\* (against the words of chunker.py, "of the same kind").
ChildrenFillBudget ==
    parsing = "embedded" => \A c \in DOMAIN children :
        LET size(k) == BlocksChars(children[k].blocks)
            prose(k) == children[k].kind \notin Atomic
            full(k) == Chars(children[c].blocks[k].places) > 0
        IN  /\ (\E j, k \in DOMAIN children[c].blocks : j < k /\ full(j) /\ full(k)) =>
                  size(c) <= ChildMax /\ prose(c)
            /\ c > 1 /\ children[c].parent = children[c - 1].parent /\ prose(c) /\ prose(c - 1) =>
                  size(c - 1) >= ChildMax \/ size(c - 1) + Chars(Head(children[c].blocks).places) > ChildMax

\* What goes to the index is whole: a vector for each child, its own, and each child
\* listed by its one parent.
HandedOnWhole ==
    parsing = "embedded" =>
        /\ vectors = Places(1, Len(children))
        /\ \A c \in DOMAIN children :
              {p \in DOMAIN chapters : c \in chapters[p].childIds} = {children[c].parent}

\* From a file to what is searched: nothing lost, nothing twice, nothing mixed up.
TextSound == EverythingOnce /\ ChildrenFillBudget /\ HandedOnWhole
=============================================================================
