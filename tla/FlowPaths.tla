----------------------------- MODULE FlowPaths -----------------------------
(***************************************************************************)
(* The paths of the formats that have no page grid: DOCX, PPTX, HTML and   *)
(* plain text (parsing/docx.py, pptx.py, html.py and backend.py).  Each    *)
(* walks its document in order, one paragraph, shape or node at a step,    *)
(* and makes one page of it.                                               *)
(***************************************************************************)
EXTENDS Pages, Enumeration

CONSTANTS
    Elements,      \* DOCX: what stands in a body
    MaxElements,   \* bound: how many
    Slides,        \* PPTX: the slides
    MaxSlides,     \* bound: how many
    NotesPart,     \* PPTX: the number of the notes, after those of the shapes
    Tags,          \* HTML: the tags
    MaxNodes,      \* bound: nodes under the body
    Samples        \* HTML: larger trees

Unnumbered == -1

(* A paragraph is [kind, text, style, suffix, ilvl]: is there any text, its *)
(* style and the number after its name, its own list level; a body may also *)
(* hold elements of other kinds, such as content controls.  A slide is its  *)
(* title (none, blank or text), the title's shape being the first; its      *)
(* other shapes, each a table, a text frame of paragraphs that have text at *)
(* some levels, or neither, such as a group; and whether it has notes.      *)
Tables == [kind : {"table"}, rows : Nat]
Shapes == Tables \cup [kind : {"frame"}, levels : Seq(Nat)] \cup [kind : {"other"}]

ASSUME FlowAssumption ==
    /\ MaxElements \in Nat /\ MaxSlides \in Nat /\ MaxNodes \in Nat /\ NotesPart \in Nat \ {0}
    /\ Elements \subseteq Tables \cup [kind : {"other"}] \cup
          [kind : {"paragraph"}, text : BOOLEAN, style : STRING, suffix : Nat,
           ilvl : Nat \cup {Unnumbered}]
    /\ \A s \in Slides :
          /\ s.title \in {"none", "blank", "text"} /\ s.notes \in BOOLEAN
          /\ s.shapes \in Seq(Shapes) /\ Len(s.shapes) < NotesPart

EndFlow(items) ==
    /\ pages' = <<[items |-> items, layout |-> Unmeasured, image |-> FALSE]>>
    /\ phase' = "done"

(* Plain text and Markdown are read as they are.                           *)
OpenText ==
    /\ phase = "open" /\ format = "text"
    /\ doc' = <<"text">>
    /\ blocks' = <<Block("text", 0, <<1>>)>>
    /\ EndFlow(<<1>>)
    /\ UNCHANGED <<format, work, held>>

-----------------------------------------------------------------------------
(* DOCX.                                                                   *)

OpenDocx ==
    /\ phase = "open" /\ format = "docx"
    /\ doc' \in UNION {[1..n -> Elements] : n \in 0..MaxElements}
    /\ work' = [k \in DOMAIN doc' |-> k]
    /\ phase' = "walk"
    /\ UNCHANGED <<format, held, blocks, pages>>

DocxWalks == phase = "walk" /\ format = "docx" /\ work # <<>>
Element == doc[Head(work)]
Paragraph == Element.kind = "paragraph" /\ Element.text

(* A list item, by its own numbering or by its style.                      *)
IsListItem(e) ==
    e.ilvl # Unnumbered \/ e.style \in {"List Bullet", "List Number", "List Paragraph"}

Indent(e) ==
    IF e.ilvl # Unnumbered THEN e.ilvl
    ELSE IF e.suffix > 0 THEN e.suffix - 1
    ELSE 0

(* Mutant: a deep heading is not clamped.                                  *)
HeadingLevelUnclamped(e) ==
    CASE e.style = "Title" -> 1 [] e.style = "Heading" -> e.suffix [] OTHER -> 0

HeadingLevelOf(e) ==
    CASE e.style = "Title" -> 1
      [] e.style = "Heading" -> Min({e.suffix, 6})
      [] OTHER -> 0

(* A spacer.                                                               *)
SkipParagraph ==
    /\ DocxWalks /\ Element.kind = "paragraph" /\ ~Element.text
    /\ work' = Tail(work)
    /\ UNCHANGED <<phase, format, doc, held, blocks, pages>>

HoldListItem ==
    /\ DocxWalks /\ Paragraph /\ IsListItem(Element)
    /\ held' = Append(held, [at |-> Head(work), indent |-> Indent(Element)])
    /\ work' = Tail(work)
    /\ UNCHANGED <<phase, format, doc, blocks, pages>>

ParagraphBlock ==
    Block(IF HeadingLevelOf(Element) > 0 THEN "heading" ELSE "prose",
          HeadingLevelOf(Element), <<Head(work)>>)

EmitParagraph ==
    /\ DocxWalks /\ Paragraph /\ ~IsListItem(Element)
    /\ blocks' = Append(blocks \o Flush("list"), ParagraphBlock)
    /\ held' = <<>> /\ work' = Tail(work)
    /\ UNCHANGED <<phase, format, doc, pages>>

(* Mutant: the list is not ended by a table.                               *)
EmitDocxTableUnflushed ==
    /\ DocxWalks /\ Element.kind = "table"
    /\ blocks' = blocks
            \o (IF Element.rows = 0 THEN <<>> ELSE <<Block("table", 0, <<Head(work)>>)>>)
    /\ work' = Tail(work)
    /\ UNCHANGED <<phase, format, doc, held, pages>>

EmitDocxTable ==
    /\ DocxWalks /\ Element.kind = "table"
    /\ blocks' = blocks \o Flush("list")
            \o (IF Element.rows = 0 THEN <<>> ELSE <<Block("table", 0, <<Head(work)>>)>>)
    /\ held' = <<>> /\ work' = Tail(work)
    /\ UNCHANGED <<phase, format, doc, pages>>

(* Neither a paragraph nor a table: what is in it is not looked at.        *)
SkipElement ==
    /\ DocxWalks /\ Element.kind = "other"
    /\ work' = Tail(work)
    /\ UNCHANGED <<phase, format, doc, held, blocks, pages>>

EndDocx ==
    /\ phase = "walk" /\ format = "docx" /\ work = <<>>
    /\ blocks' = blocks \o Flush("list")
    /\ held' = <<>>
    /\ EndFlow(Items(blocks'))
    /\ UNCHANGED <<format, doc, work>>

-----------------------------------------------------------------------------
(* PPTX.                                                                   *)

Place(slide, part) == (NotesPart + 1) * slide + part

OpenPptx ==
    /\ phase = "open" /\ format = "pptx"
    /\ doc' \in UNION {[1..n -> Slides] : n \in 0..MaxSlides}
    /\ work' = [k \in DOMAIN doc' |-> <<k>>]
    /\ phase' = "walk"
    /\ UNCHANGED <<format, held, blocks, pages>>

PptxWalks == phase = "walk" /\ format = "pptx" /\ work # <<>>
Slide == doc[Head(work)[1]]
Part == Head(work)[2]
Spot == Place(Head(work)[1], Part)

(* A slide is a heading, with a title or without; then come its shapes and *)
(* its notes.                                                              *)
OpenSlide ==
    /\ PptxWalks /\ Len(Head(work)) = 1
    /\ LET k == Head(work)[1]
       IN  /\ blocks' = Append(blocks, Block("heading", 2,
                            IF Slide.title = "text" THEN <<Place(k, 0)>> ELSE <<>>))
           /\ work' = (IF Slide.title = "none" THEN <<>> ELSE <<<<k, 0>>>>)
                        \o [p \in DOMAIN Slide.shapes |-> <<k, p>>]
                        \o <<<<k, NotesPart>>>> \o Tail(work)
    /\ UNCHANGED <<phase, format, doc, held, pages>>

IsPart == PptxWalks /\ Len(Head(work)) = 2

(* The walk comes to the title, and knows it again.                        *)
SkipTitle ==
    /\ IsPart /\ Part = 0
    /\ work' = Tail(work)
    /\ UNCHANGED <<phase, format, doc, held, blocks, pages>>

(* "is" compares objects, and python-pptx may make another one of a shape  *)
(* whenever it is asked for it: the title is a text frame like any other.  *)
RepeatTitle ==
    /\ IsPart /\ Part = 0 /\ Slide.title = "text"
    /\ blocks' = Append(blocks, [kind |-> "list", level |-> 0, items |-> <<Spot>>,
                                 indents |-> <<0>>])
    /\ work' = Tail(work)
    /\ UNCHANGED <<phase, format, doc, held, pages>>

Shape == Slide.shapes[Part]

IsShape == IsPart /\ Part \notin {0, NotesPart}

EmitPptxTable ==
    /\ IsShape /\ Shape.kind = "table"
    /\ blocks' = blocks \o (IF Shape.rows = 0 THEN <<>> ELSE <<Block("table", 0, <<Spot>>)>>)
    /\ work' = Tail(work)
    /\ UNCHANGED <<phase, format, doc, held, pages>>

EmitFrame ==
    /\ IsShape /\ Shape.kind = "frame"
    /\ blocks' = blocks \o
            (IF Shape.levels = <<>> THEN <<>>
             ELSE <<[kind |-> "list", level |-> 0, items |-> <<Spot>>, indents |-> Shape.levels]>>)
    /\ work' = Tail(work)
    /\ UNCHANGED <<phase, format, doc, held, pages>>

(* Neither a table nor a text frame.                                       *)
SkipShape ==
    /\ IsShape /\ Shape.kind = "other"
    /\ work' = Tail(work)
    /\ UNCHANGED <<phase, format, doc, held, blocks, pages>>

EmitNotes ==
    /\ IsPart /\ Part = NotesPart
    /\ blocks' = blocks \o (IF Slide.notes THEN <<Block("notes", 3, <<Spot>>)>> ELSE <<>>)
    /\ work' = Tail(work)
    /\ UNCHANGED <<phase, format, doc, held, pages>>

EndPptx ==
    /\ phase = "walk" /\ format = "pptx" /\ work = <<>>
    /\ EndFlow(Items(blocks))
    /\ UNCHANGED <<format, doc, work, held, blocks>>

-----------------------------------------------------------------------------
(* HTML.  The nodes under the body are numbered in document order; a text  *)
(* or a comment is a node.  The parser repairs little: but for strings and *)
(* line breaks, any node may stand in any other.  A span is any element    *)
(* that the walk has no case for, such as a caption.                       *)

Strings == {"text", "comment"}
Others == {"li", "tr", "td", "span"}
Markup == {"div", "main", "article", "nav", "p", "h2", "ul", "table", "br"} \cup Others

TagOf(d, k) == IF k = 0 THEN "body" ELSE d.tag[k]

(* A tree in document order: between a node and its parent stand only      *)
(* nodes that are under the parent.                                        *)
IsTree(d) ==
    /\ d.tag \in Seq(Markup \cup Strings) /\ d.parent \in Seq(Nat)
    /\ Len(d.parent) = Len(d.tag)
    /\ \A k \in DOMAIN d.parent :
          /\ d.parent[k] < k
          /\ \A j \in d.parent[k] + 1 .. k - 1 : d.parent[j] >= d.parent[k]
          /\ TagOf(d, d.parent[k]) \notin Strings \cup {"br"}

Trees ==
    {d \in UNION {[tag : [1..n -> Tags], parent : [1..n -> 0 .. n - 1]] : n \in 0..MaxNodes} :
        IsTree(d)}

Under(d, k, i) == k < i /\ \A j \in k + 1 .. i : d.parent[j] >= k

(* What is left when the chrome is taken out.                              *)
Alive(d, k) == ~\E j \in DOMAIN d.tag : d.tag[j] = "nav" /\ (j = k \/ Under(d, j, k))

Nodes(d) == {k \in DOMAIN d.tag : Alive(d, k)}
Tagged(d, k, tags) == {i \in Nodes(d) : Under(d, k, i) /\ d.tag[i] \in tags}
ChildrenTagged(d, k, tags) == {i \in Nodes(d) : d.parent[i] = k /\ d.tag[i] \in tags}

(* get_text of a node: comments are not text.                              *)
TextsOf(d, k) == Ascending(Tagged(d, k, {"text"}))
Children(d, k) == Ascending({i \in Nodes(d) : d.parent[i] = k})

(* _content_root: a landmark, the div that has the most text, the body.    *)
ContentRoot(d) ==
    LET divs == Tagged(d, 0, {"div"})
        size(k) == Cardinality(Tagged(d, k, {"text"}))
        densest == {k \in divs : size(k) > 0 /\ \A j \in divs : size(j) <= size(k)}
    IN  IF Tagged(d, 0, {"main"}) # {} THEN Min(Tagged(d, 0, {"main"}))
        ELSE IF Tagged(d, 0, {"article"}) # {} THEN Min(Tagged(d, 0, {"article"}))
        ELSE IF densest # {} THEN Min(densest)
        ELSE 0

(* The rows of a table, those of tables in it too; the cells of a row are  *)
(* as many as the first one has.                                           *)
Cells(d, row) == Ascending(ChildrenTagged(d, row, {"td"}))
RowTexts(d, row, width) ==
    FlattenSeq([c \in 1 .. Min({width, Len(Cells(d, row))}) |-> TextsOf(d, Cells(d, row)[c])])

TableTexts(d, k) ==
    LET rows == Ascending(Tagged(d, k, {"tr"}))
        width == IF rows = <<>> THEN 0 ELSE Len(Cells(d, rows[1]))
    IN  FlattenSeq([r \in DOMAIN rows |-> RowTexts(d, rows[r], width)])

ListTexts(d, k) ==
    LET items == Ascending(ChildrenTagged(d, k, {"li"}))
    IN  FlattenSeq([i \in DOMAIN items |-> TextsOf(d, items[i])])

ASSUME SamplesAreTrees == \A d \in Samples : IsTree(d)

OpenHtml ==
    /\ phase = "open" /\ format = "html"
    /\ doc' \in Trees \cup Samples
    /\ phase' = "root"
    /\ UNCHANGED <<format, work, held, blocks, pages>>

FindRoot ==
    /\ phase = "root"
    /\ work' = Children(doc, ContentRoot(doc))
    /\ phase' = "walk"
    /\ UNCHANGED <<format, doc, held, blocks, pages>>

HtmlWalks == phase = "walk" /\ format = "html" /\ work # <<>>
Node == Head(work)

(* A container, or an element of no other case that has elements in it, is *)
(* walked through.                                                         *)
WalksThrough(d, k) ==
    \/ d.tag[k] \in {"div", "main", "article"}
    \/ d.tag[k] \in Others /\ Tagged(d, k, Markup) # {}

Descend ==
    /\ HtmlWalks /\ WalksThrough(doc, Node)
    /\ work' = Children(doc, Node) \o Tail(work)
    /\ UNCHANGED <<phase, format, doc, held, blocks, pages>>

(* What a node that is not walked through says, and in what block.  A      *)
(* comment is a string to the walk.                                        *)
Says(d, k) ==
    CASE d.tag[k] \in Strings -> <<k>>
      [] d.tag[k] = "ul" -> ListTexts(d, k)
      [] d.tag[k] = "table" -> TableTexts(d, k)
      [] OTHER -> TextsOf(d, k)

KindOf(tag) ==
    CASE tag = "h2" -> "heading" [] tag = "ul" -> "list" [] tag = "table" -> "table"
      [] OTHER -> "prose"

Render ==
    /\ HtmlWalks /\ ~WalksThrough(doc, Node)
    /\ LET tag == doc.tag[Node]
           says == Says(doc, Node)
       IN  blocks' = IF says = <<>> THEN blocks
                     ELSE Append(blocks, Block(KindOf(tag), IF tag = "h2" THEN 2 ELSE 0, says))
    /\ work' = Tail(work)
    /\ UNCHANGED <<phase, format, doc, held, pages>>

EndHtml ==
    /\ phase = "walk" /\ format = "html" /\ work = <<>>
    /\ EndFlow(Items(blocks))
    /\ UNCHANGED <<format, doc, work, held, blocks>>

FlowNext ==
    \/ OpenText
    \/ OpenDocx \/ SkipParagraph \/ HoldListItem \/ EmitParagraph \/ EmitDocxTable \/ SkipElement
    \/ EndDocx
    \/ OpenPptx \/ OpenSlide \/ SkipTitle \/ RepeatTitle \/ EmitPptxTable \/ EmitFrame
    \/ SkipShape \/ EmitNotes \/ EndPptx
    \/ OpenHtml \/ FindRoot \/ Descend \/ Render \/ EndHtml
=============================================================================
