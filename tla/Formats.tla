------------------------------ MODULE Formats ------------------------------
(***************************************************************************)
(* A source is routed to the path of its format (parsing/router.py) and    *)
(* parsed by it (HeuristicBackend.parse of parsing/backend.py): the        *)
(* composition of PdfPath and FlowPaths, and what the pages they make      *)
(* promise.                                                                *)
(***************************************************************************)
EXTENDS PdfPath, FlowPaths

CONSTANT Sources   \* what tells the format: [media, name, magic, utf8]

Containers == {"pdf", "docx", "pptx", "html"}

(* The media type, the extension and the magic number each tell a format   *)
(* or none (a value that is not in the tables tells none).                 *)
ASSUME FormatsAssumption ==
    Sources \subseteq [media : Containers \cup {"text", "none"},
                       name : Containers \cup {"text", "none"},
                       magic : Containers \cup {"none"}, utf8 : BOOLEAN]

Init ==
    /\ phase = "route" /\ format = "none" /\ doc \in Sources
    /\ work = <<>> /\ held = <<>> /\ blocks = <<>> /\ pages = <<>>

-----------------------------------------------------------------------------

Route(told) ==
    /\ format' = told /\ doc' = <<>> /\ phase' = "open"
    /\ UNCHANGED <<work, held, blocks, pages>>

RouteByMediaType ==
    /\ phase = "route" /\ doc.media # "none"
    /\ Route(doc.media)

RouteByExtension ==
    /\ phase = "route" /\ doc.media = "none" /\ doc.name # "none"
    /\ Route(doc.name)

RouteByContent ==
    /\ phase = "route" /\ doc.media = "none" /\ doc.name = "none"
    /\ IF doc.magic # "none" THEN Route(doc.magic) ELSE doc.utf8 /\ Route("text")

(* UNKNOWN is rejected.                                                    *)
Reject ==
    /\ phase = "route" /\ doc.media = "none" /\ doc.name = "none"
    /\ doc.magic = "none" /\ ~doc.utf8
    /\ phase' = "failed" /\ doc' = <<>>
    /\ UNCHANGED <<format, work, held, blocks, pages>>

(* The bytes are not of the format they were said to be of.  HTML and text *)
(* are read whatever the bytes are.                                        *)
OpenFails ==
    /\ phase = "open" /\ format \in {"pdf", "docx", "pptx"}
    /\ phase' = "failed"
    /\ UNCHANGED <<format, doc, work, held, blocks, pages>>

Finished == phase \in {"done", "failed"} /\ UNCHANGED vars

Next ==
    \/ RouteByMediaType \/ RouteByExtension \/ RouteByContent \/ Reject \/ OpenFails
    \/ PdfNext \/ FlowNext
    \/ Finished

Spec == Init /\ [][Next]_vars

-----------------------------------------------------------------------------
(* Properties.                                                             *)

(* Every variable keeps to its values; no heading is deeper than six, and  *)
(* nothing is held back when a page is made.                               *)
TypeOK ==
    /\ phase \in {"route", "open", "sheet", "root", "walk", "done", "failed"}
    /\ format \in Containers \cup {"text", "none"}
    /\ \A k \in DOMAIN blocks :
          blocks[k].level \in 0..6 /\ (blocks[k].kind = "heading" => blocks[k].level > 0)
    /\ phase = "done" => held = <<>> /\ (format # "pdf" => pages # <<>>)

(* The page that has just been made by the PDF path, if it did not raise.  *)
SheetMade ==
    /\ format = "pdf" /\ phase = "sheet" /\ pages # <<>>
    /\ ~doc.sheets[Len(pages)].raises
Words == doc.sheets[Len(pages)].words
Made == pages[Len(pages)].items

Ruled(ws, boxes, w) == \E b \in RuledTables(boxes, ws) : Inside(w, b)

(* A ruled table lies within a column, and no two hold one word.           *)
TablesApart(ws, boxes) ==
    \A b \in RuledTables(boxes, ws) : \A w \in ToSet(Held(b, ws)) :
        /\ \A band \in ToSet(ColumnBands(ws)) :
              InBand(w.x0 + w.x1, band) <=> InBand(b.x0 + b.x1, band)
        /\ \A c \in RuledTables(boxes, ws) : Inside(w, c) => c = b

(* "its cell words are pulled out of the prose flow": each word of a page  *)
(* is in one block, and in one only, whatever tables, columns and headings *)
(* stand around it.  (A ruled table across two columns may be written      *)
(* twice.)                                                                 *)
ContentOnce ==
    SheetMade /\ TablesApart(Words, doc.boxes) =>
        ToSet(Made) = ToSet(Words) /\ IsInjective(Made)

DocxContent(d) ==
    {k \in DOMAIN d : \/ d[k].kind = "table" /\ d[k].rows > 0
                      \/ d[k].kind = "paragraph" /\ d[k].text}

(* The parts of a slide that have something to say.                        *)
Speaking(slide) ==
    {q \in DOMAIN slide.shapes :
        LET shape == slide.shapes[q]
        IN  \/ shape.kind = "table" /\ shape.rows > 0
            \/ shape.kind = "frame" /\ shape.levels # <<>>}
    \cup {q \in {0} : slide.title = "text"} \cup {q \in {NotesPart} : slide.notes}

PptxContent(d) == UNION {{Place(k, q) : q \in Speaking(d[k])} : k \in DOMAIN d}
PptxTitles(d) == {Place(k, 0) : k \in DOMAIN d}

Texts(d) == Tagged(d, ContentRoot(d), {"text"})

(* The lists and tables of the content that are in no other one.           *)
Grids(d) == Tagged(d, ContentRoot(d), {"ul", "table"})
Outermost(d) == {k \in Grids(d) : \A j \in Grids(d) : ~Under(d, j, k)}

(* What the text of a list or of a table is taken from: the items of a     *)
(* list; the cells of a row, as many as the first row has.                 *)
CellsOf(d, row) == ChildrenTagged(d, row, {"td"})
Column(d, row, cell) == Cardinality({c \in CellsOf(d, row) : c <= cell})

Places(d, k) ==
    IF d.tag[k] = "ul" THEN ChildrenTagged(d, k, {"li"})
    ELSE LET rows == Tagged(d, k, {"tr"})
             width == Cardinality(CellsOf(d, Min(rows)))
         IN  UNION {{c \in CellsOf(d, row) : Column(d, row, c) <= width} : row \in rows}

(* The text that stands in a list or in a table but in no such place of    *)
(* it: a list right in a list, a caption, a cell too many.                 *)
Strays(d) ==
    {i \in Texts(d) : \E k \in Outermost(d) :
        Under(d, k, i) /\ \A c \in Places(d, k) : ~Under(d, c, i)}

(* Both stand in one table, which has rows within its rows.                *)
Tangled(d, i, j) ==
    \E k \in Outermost(d) :
        /\ d.tag[k] = "table" /\ Under(d, k, i) /\ Under(d, k, j)
        /\ \E r, s \in Tagged(d, k, {"tr"}) : Under(d, r, s)

Ascends(items) == \A i, j \in DOMAIN items : i < j => items[i] < items[j]

(* "Stray inline text between blocks becomes its own paragraph so nothing  *)
(* is silently dropped", as far as it goes: in the flow formats each       *)
(* paragraph, table, shape and text is in one block, and in one only, in   *)
(* the order of the document, whatever lists, tables and containers stand  *)
(* around it and whatever was held back when they came.  Nothing but the   *)
(* strays of outermost lists and tables is lost of any tree, and what is   *)
(* not in the content, or is chrome, does not come out.  (The rows of a    *)
(* table in a table come out again, after the row they are in, and so may  *)
(* a slide's title; a comment between blocks is taken for text.)           *)
FlowKept ==
    phase = "done" =>
        /\ format = "docx" => ToSet(Made) = DocxContent(doc) /\ Ascends(Made)
        /\ format = "pptx" =>
              /\ ToSet(Made) = PptxContent(doc)
              /\ \A i, j \in DOMAIN Made :
                    i < j => \/ Made[i] < Made[j]
                             \/ Made[i] = Made[j] /\ Made[i] \in PptxTitles(doc) /\ j = i + 1
        /\ format = "html" =>
              /\ Texts(doc) \ Strays(doc) \subseteq ToSet(Made)
              /\ ToSet(Made) \subseteq
                    Texts(doc) \cup Tagged(doc, ContentRoot(doc), {"comment"})
              /\ \A i, j \in DOMAIN Made :
                    i < j => Made[i] < Made[j] \/ Tangled(doc, Made[i], Made[j])

(* "So nothing is silently dropped" (parsing/html.py:140): all the text of *)
(* the content comes out.  (Not so: the code drops the strays.  No run     *)
(* checks it; FlowKept says what is true.)                                 *)
NothingDropped ==
    phase = "done" /\ format = "html" => Texts(doc) \subseteq ToSet(Made)

(* A gutter that has v on its left and w on its right.                     *)
Between(ws, v, w) ==
    LET spans == MergedSpans(ToSet(ws))
    IN  \E k \in 1 .. Len(spans) - 1 :
            /\ IsWideGap(spans, k) /\ BothSidesSpanHeight(ToSet(ws), Split(spans, k))
            /\ v.x1 <= spans[k].x1 /\ spans[k + 1].x0 <= w.x0

(* "A two-column page is emitted left-column-first instead of interleaving *)
(* the two", and a gap that is not a gutter does not tear a line, nor a    *)
(* table, apart: of two words outside ruled tables the one on the left of  *)
(* a gutter comes first; with no gutter between them, no word comes before *)
(* one of a line above.                                                    *)
ReadsBefore(ws, v, w) ==
    /\ ~Between(ws, w, v)
    /\ Between(ws, v, w) \/ IsNear(v, w.top)

ReadingOrder ==
    SheetMade =>
        \A i, j \in DOMAIN Made :
            i < j => \/ Ruled(Words, doc.boxes, Made[i]) \/ Ruled(Words, doc.boxes, Made[j])
                     \/ ReadsBefore(Words, Made[i], Made[j])

(* What FlowKept is for the flow formats, for a page of a PDF: its words   *)
(* come out once, and in the order they are read in.                       *)
SheetKept == ContentOnce /\ ReadingOrder

Size(b) == Max({b.items[k].size : k \in DOMAIN b.items})
Number(b) == IF Len(b.items) > 1 THEN b.items[1].depth ELSE 0

HeadingsMade == {b \in ToSet(blocks) : b.kind = "heading"}

(* How many sizes of headings there are from the largest down to that of b. *)
Rank(b) == Cardinality({Size(c) : c \in {h \in HeadingsMade : Size(h) >= Size(b)}})

(* "Ranked biggest-first into # ... ####", "a numbered prefix refines it   *)
(* deeper": over all the columns of a page, while there are levels left, a *)
(* heading set larger is above one set smaller, unless its own number puts *)
(* it deeper than its size does; of two in one face the one with the       *)
(* longer number is never above the other, and is below it unless the      *)
(* larger faces have put both as deep as that number goes.                 *)
HeadingsRanked ==
    SheetMade =>
        \A a, b \in HeadingsMade :
            /\ Size(a) > Size(b) =>
                  a.level < b.level \/ a.level = 4 \/ Number(a) > Rank(a)
            /\ Size(a) = Size(b) /\ Number(a) <= Number(b) => a.level <= b.level
            /\ Size(a) = Size(b) /\ Number(a) < Number(b) =>
                  a.level < b.level \/ a.level = 4 \/ Number(b) <= Rank(b)

(* "1.1 Background nests under 1 Introduction even when both are set in    *)
(* the same face" (parsing/pdf.py:398): of two numbered headings in one    *)
(* face the one with the longer number is the deeper.  (Not so: a face     *)
(* that is not the largest is ranked as deep as a longer number, and both  *)
(* get one level.  No run checks it; HeadingsRanked says what is true.)    *)
NumbersNest ==
    SheetMade =>
        \A a, b \in HeadingsMade :
            Size(a) = Size(b) /\ 0 < Number(a) /\ Number(a) < Number(b) =>
                a.level < b.level \/ a.level = 4

(* A classifier that distrusts no page which the parser's own trusts.      *)
IsMoreTrusting(policy) ==
    /\ policy.chars <= Default.chars
    /\ policy.area >= Default.area /\ policy.bitmap >= Default.bitmap

(* What the parser decided with its own classifier, before the pipeline's  *)
(* saw the pages, serves that one: there is a page for each sheet; a page  *)
(* that could not be parsed goes to vision whatever the thresholds; one    *)
(* that a more trusting classifier distrusts was rendered, and goes there  *)
(* too; with the default one, a page we would send to vision "is exactly   *)
(* one that gets a rendered image attached"; and no page of another format *)
(* goes there.                                                             *)
PagesRoute ==
    phase = "done" =>
        \A policy \in Policies \cup {Default} : \A k \in DOMAIN pages :
            IF format = "pdf"
            THEN /\ Len(pages) = Len(doc.sheets)
                 /\ doc.sheets[k].raises => RoutesToVision(policy, pages[k])
                 /\ IsMoreTrusting(policy) =>
                       HasUsableTextLayer(policy, pages[k]) \/ RoutesToVision(policy, pages[k])
                 /\ pages[k].image <=> RoutesToVision(Default, pages[k])
            ELSE ~RoutesToVision(policy, pages[k])

(* "We reuse the very classifier the pipeline will run" (parsing/pdf.py):  *)
(* no page whose text the pipeline's classifier distrusts is read as text. *)
(* (Not so: the parser asks the default one whatever the pipeline was      *)
(* given.  No run checks it; PagesRoute says what is true.)                *)
NoneIsReadDistrusted ==
    phase = "done" /\ format = "pdf" =>
        \A policy \in Policies, k \in DOMAIN pages :
            HasUsableTextLayer(policy, pages[k]) \/ RoutesToVision(policy, pages[k])
=============================================================================
