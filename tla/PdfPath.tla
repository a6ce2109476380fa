------------------------------ MODULE PdfPath ------------------------------
(***************************************************************************)
(* The PDF path of parsing/pdf.py: the words of a page are put into        *)
(* columns and lines by where they stand (_column_bands, _group_lines),    *)
(* tables are taken out of them (_ruled_tables, _borderless_tables), and   *)
(* the columns are written one after the other (_emit_column).  A page is  *)
(* laid out in one step and written an item at a time.                     *)
(*                                                                         *)
(* Coordinates are integers; what lies halfway is kept doubled.  A word is *)
(* its box, its size, whether it is bold and, if it is a section number,   *)
(* how deep (1.2 is 2).                                                    *)
(***************************************************************************)
EXTENDS Pages, Enumeration

CONSTANTS
    Tops,             \* where words stand: the tops of their boxes, downwards
    Rows,             \* [x0, x1]s that stand on one top, from left to right
    Styles,           \* [size, height, bold, depth] of the words on one top
    Boxes,            \* what pdfplumber finds: sets of ruled boxes
    Rasters,          \* and the areas of the images on a page
    WordChars,        \* characters of a word
    Gutter,           \* the narrowest gap between columns
    ColumnGap,        \* _COLUMN_GAP
    MaxHeadingWords   \* _MAX_HEADING_WORDS

(* Tops go downwards and rows to the right.                                *)
ASSUME PdfAssumption ==
    /\ Tops \in Seq(Int)
    /\ \A t, u \in DOMAIN Tops : t < u => Tops[t] < Tops[u]
    /\ Rows \subseteq Seq([x0 : Int, x1 : Int])
    /\ \A row \in Rows : \A j, k \in DOMAIN row :
          row[j].x0 <= row[j].x1 /\ (j < k => row[j].x0 < row[k].x0)
    /\ Styles \subseteq [size : Nat, height : Nat, bold : BOOLEAN, depth : Nat]
    /\ \A boxes \in Boxes :
          IsFiniteSet(boxes) /\ boxes \subseteq [x0 : Int, x1 : Int, top : Int, bottom : Int]
    /\ Rasters \subseteq Seq(Nat) /\ WordChars \in Nat
    /\ Gutter \in Nat \ {0} /\ ColumnGap \in Nat

(* The words of a row on a top: a section number is the first of several.  *)
RowWords(row, style, top) ==
    [k \in DOMAIN row |->
        [x0 |-> row[k].x0, x1 |-> row[k].x1, top |-> top, size |-> style.size,
         height |-> style.height, bold |-> style.bold,
         depth |-> IF k = 1 /\ Len(row) > 1 THEN style.depth ELSE 0]]

(* A page is its words, in the order pdfplumber gives them; looking at it  *)
(* may raise.                                                              *)
Sheet(words) == [raises |-> FALSE, words |-> words]
Broken == [raises |-> TRUE, words |-> <<>>]

(* Words on tops that are closer than their height stand side by side.     *)
Apart(rows, styles) ==
    \A t, u \in DOMAIN Tops :
        (t < u /\ Tops[u] < Tops[t] + styles[t].height) =>
            \A v \in ToSet(rows[t]), w \in ToSet(rows[u]) : v.x1 < w.x0 \/ w.x1 < v.x0

WordsOf(rows, styles) ==
    FlattenSeq([t \in DOMAIN Tops |-> RowWords(rows[t], styles[t], Tops[t])])

Sheets ==
    {Sheet(WordsOf(page[1], page[2])) :
        page \in {p \in [DOMAIN Tops -> Rows] \X [DOMAIN Tops -> Styles] : Apart(p[1], p[2])}}

PdfDocs ==
    {<<>>} \cup {<<s>> : s \in Sheets \cup {Broken}}
        \cup {<<Broken, s>> : s \in {t \in Sheets : Len(t.words) <= 1}}

-----------------------------------------------------------------------------
(* Columns.                                                                *)

Bottom(w) == w.top + w.height

(* The words' x-spans, merged where they touch: one begins where no word   *)
(* further left ends close by, and has the words up to the next beginning. *)
Starts(ws) ==
    {w.x0 : w \in {v \in ws : \A u \in ws : u.x0 < v.x0 => u.x1 + 1 < v.x0}}

MergedSpans(ws) ==
    LET starts == Ascending(Starts(ws))
    IN  [k \in DOMAIN starts |->
            [x0 |-> starts[k],
             x1 |-> Max({w.x1 : w \in {v \in ws : /\ starts[k] <= v.x0
                                                  /\ k < Len(starts) => v.x0 < starts[k + 1]}})]]

Extent(ws) == Max({Bottom(w) : w \in ws}) - Min({w.top : w \in ws})

(* A gutter runs along most of the height of the text, on either side.     *)
SpansHeight(ws, all) == ws # {} /\ 10 * Extent(ws) >= 6 * Extent(all)

BothSidesSpanHeight(ws, split) ==
    /\ SpansHeight({w \in ws : w.x0 + w.x1 < split}, ws)
    /\ SpansHeight({w \in ws : w.x0 + w.x1 >= split}, ws)

(* Halfway between two spans, doubled.                                     *)
Split(spans, k) == spans[k].x1 + spans[k + 1].x0

IsWideGap(spans, k) == spans[k + 1].x0 - spans[k].x1 >= Gutter

(* Mutant: every wide gap is a gutter.                                     *)
IsGutterIfWide(ws, spans, k) == IsWideGap(spans, k)

IsGutter(ws, spans, k) ==
    IsWideGap(spans, k) /\ BothSidesSpanHeight(ws, Split(spans, k))

Separators(ws, spans) == Ascending({k \in 1 .. Len(spans) - 1 : IsGutter(ws, spans, k)})

(* The bands [from, to] of the columns, doubled: from gutter to gutter.    *)
BandsOf(spans, gaps) ==
    [k \in 1 .. Len(gaps) + 1 |->
        [from |-> IF k = 1 THEN 2 * spans[1].x0 ELSE Split(spans, gaps[k - 1]),
         to |-> IF k > Len(gaps) THEN 2 * Last(spans).x1 ELSE Split(spans, gaps[k])]]

ColumnBands(ws) ==
    IF ws = <<>> THEN <<>>
    ELSE BandsOf(MergedSpans(ToSet(ws)), Separators(ToSet(ws), MergedSpans(ToSet(ws))))

InBand(centre, band) == band.from <= centre /\ centre <= band.to

-----------------------------------------------------------------------------
(* Lines and headings.                                                     *)

(* Within 3 points of the top of a line, or 0.6 of the word's own height.  *)
IsNear(w, top) == w.top - top <= 3 \/ 10 * (w.top - top) <= 6 * w.height

(* _group_lines: a word is on the line of the one before it unless it      *)
(* stands too far below the first word of that line.                       *)
Anchors(ws) ==
    LET anchor[k \in DOMAIN ws] ==
            IF k = 1 THEN 1
            ELSE IF IsNear(ws[k], ws[anchor[k - 1]].top) THEN anchor[k - 1] ELSE k
    IN  anchor

(* sorted: positions by a key, of equals the one that was before.          *)
Sorted(positions, key) ==
    InOrder(positions, {p \in positions \X positions :
                            \/ key[p[1]] < key[p[2]]
                            \/ key[p[1]] = key[p[2]] /\ p[1] < p[2]})

(* Words from left to right.                                               *)
LeftToRight(ws, positions) ==
    LET order == Sorted(positions, [k \in positions |-> ws[k].x0])
    IN  [k \in DOMAIN order |-> ws[order[k]]]

(* _make_line: an item, its words from left to right.                      *)
LineItem(ws) ==
    [kind |-> "line", words |-> ws,
     top |-> Min({w.top : w \in ToSet(ws)}),
     size |-> Max({w.size : w \in ToSet(ws)}),
     bold |-> \E w \in ToSet(ws) : w.bold,
     depth |-> IF Len(ws) > 1 THEN ws[1].depth ELSE 0]

Lines(ws) ==
    LET anchor == Anchors(ws)
        firsts == Ascending({k \in DOMAIN ws : anchor[k] = k})
    IN  [i \in DOMAIN firsts |->
            LineItem(LeftToRight(ws, {k \in DOMAIN ws : anchor[k] = firsts[i]}))]

TableItem(top, ws) ==
    [kind |-> "table", words |-> ws, top |-> top, size |-> 0, bold |-> FALSE, depth |-> 0]

Count(size, ws) == Cardinality({k \in DOMAIN ws : ws[k].size = size})

(* _modal_size: the most common, the first of equals.                      *)
ModalSize(ws) ==
    IF ws = <<>> THEN 0
    ELSE ws[Min({k \in DOMAIN ws : \A j \in DOMAIN ws :
                     Count(ws[j].size, ws) <= Count(ws[k].size, ws)})].size

IsHeading(item, body) ==
    LET larger == body # 0 /\ item.size >= body + 1
        short == Len(item.words) <= MaxHeadingWords
    IN  /\ item.kind = "line" /\ short
        /\ larger \/ (item.depth > 0 /\ item.bold)

(* _heading_levels: the rank of a size among those of the headings.        *)
HeadingLevel(size, lines, body) ==
    LET sizes == {l.size : l \in {i \in lines : IsHeading(i, body)}}
        rank == Cardinality({s \in sizes : s > size}) + 1
    IN  IF size \notin sizes THEN 3 ELSE IF rank < 4 THEN rank ELSE 4

(* _render_heading: a section number goes deeper.                          *)
(* Mutant: a section number alone gives the level.                         *)
RenderedLevelByNumber(item, level) ==
    IF item.depth > 0 THEN Min({item.depth, 4}) ELSE level

RenderedLevel(item, level) == Min({Max({level, item.depth}), 4})

-----------------------------------------------------------------------------
(* Tables.                                                                 *)

Inside(w, box) ==
    /\ 2 * box.x0 <= w.x0 + w.x1 /\ w.x0 + w.x1 <= 2 * box.x1
    /\ 2 * box.top <= w.top + Bottom(w) /\ w.top + Bottom(w) <= 2 * box.bottom

(* What the box holds, as pdfplumber extracts it.                          *)
Held(box, ws) == Sublist(ws, {k \in DOMAIN ws : Inside(ws[k], box)})

(* _ruled_tables: a lone row is not a table.                               *)
RuledTables(boxes, ws) ==
    {b \in boxes : Cardinality({w.top : w \in ToSet(Held(b, ws))}) >= 2}

(* _split_cells: how many cells the wide gaps of a line make.              *)
CellCount(line) ==
    1 + Cardinality({k \in 1 .. Len(line.words) - 1 :
                        line.words[k + 1].x0 - line.words[k].x1 >= ColumnGap})

(* _borderless_tables: the longest runs of two lines or more that have the *)
(* same cells, at least two.                                               *)
Runs(lines) ==
    {r \in [from : DOMAIN lines, to : DOMAIN lines] :
        /\ r.from < r.to
        /\ \A k \in r.from .. r.to :
              CellCount(lines[k]) = CellCount(lines[r.from]) /\ CellCount(lines[k]) >= 2
        /\ r.from > 1 => CellCount(lines[r.from - 1]) # CellCount(lines[r.from])
        /\ r.to < Len(lines) => CellCount(lines[r.to + 1]) # CellCount(lines[r.from])}

RunItem(lines, run) ==
    TableItem(Min({lines[k].top : k \in run.from .. run.to}),
              FlattenSeq([k \in 1 .. run.to - run.from + 1 |-> lines[run.from + k - 1].words]))

-----------------------------------------------------------------------------
(* _serialize: the items of a column, from top to bottom.                  *)

TopDown(items) ==
    LET order == Sorted(DOMAIN items, [k \in DOMAIN items |-> items[k].top])
    IN  [k \in DOMAIN order |-> items[order[k]]]

RuledIn(tables, band) == {b \in tables : InBand(b.x0 + b.x1, band)}

BandWords(ws, ruled, band) ==
    Sublist(ws, {k \in DOMAIN ws : /\ InBand(ws[k].x0 + ws[k].x1, band)
                                   /\ \A b \in ruled : ~Inside(ws[k], b)})

RuledItems(ws, ruled) == SetToSeq({TableItem(b.top, Held(b, ws)) : b \in ruled})

(* The lines that are in no run, then the runs.                            *)
(* Mutant: the last line of a run stays in the prose.                      *)
ProseAndTablesShort(lines, runs) ==
    Sublist(lines, {k \in DOMAIN lines : \A r \in runs : k \notin r.from .. r.to - 1})
        \o SetToSeq({RunItem(lines, r) : r \in runs})

ProseAndTables(lines, runs) ==
    Sublist(lines, {k \in DOMAIN lines : \A r \in runs : k \notin r.from .. r.to})
        \o SetToSeq({RunItem(lines, r) : r \in runs})

BandItems(ws, ruled, lines) ==
    TopDown(ProseAndTables(lines, Runs(lines)) \o RuledItems(ws, ruled))

BandColumn(ws, ruled, band) ==
    BandItems(ws, ruled, Lines(BandWords(ws, ruled, band)))

(* What its heading level is goes with each item: the sizes are ranked     *)
(* over all the columns.                                                   *)
Levelled(item, all, body) ==
    [item |-> item,
     level |-> IF ~IsHeading(item, body) THEN 0
               ELSE RenderedLevel(item, HeadingLevel(item.size, all, body))]

LevelledColumns(columns, all, body) ==
    [b \in DOMAIN columns |->
        [k \in DOMAIN columns[b] |-> Levelled(columns[b][k], all, body)]]

WithLevels(columns, body) ==
    LevelledColumns(columns, UNION {ToSet(columns[b]) : b \in DOMAIN columns}, body)

BandColumns(ws, tables, bands) ==
    [b \in DOMAIN bands |-> BandColumn(ws, RuledIn(tables, bands[b]), bands[b])]

Columns(ws, boxes) ==
    WithLevels(BandColumns(ws, RuledTables(boxes, ws), ColumnBands(ws)), ModalSize(ws))

-----------------------------------------------------------------------------
(* The steps.                                                              *)

Vision == Measured(0, PageArea, 20 * Default.bitmap)

(* _measure_layout.                                                        *)
Layout(ws, areas) ==
    LET total == Total(areas, Len(areas))
    IN  Measured(WordChars * Len(ws), IF total < PageArea THEN total ELSE PageArea,
                 IF areas = <<>> THEN 0 ELSE Max(ToSet(areas)))

OpenPdf ==
    /\ phase = "open" /\ format = "pdf"
    /\ \E d \in PdfDocs : doc' = [sheets |-> d, boxes |-> {}]
    /\ phase' = "sheet"
    /\ UNCHANGED <<format, work, held, blocks, pages>>

Current == doc.sheets[Len(pages) + 1]

(* A page that raises goes to vision, and the next one is parsed.          *)
DegradePage ==
    /\ phase = "sheet" /\ Len(pages) < Len(doc.sheets)
    /\ Current.raises
    /\ pages' = Append(pages, [items |-> <<>>, layout |-> Vision, image |-> TRUE])
    /\ UNCHANGED <<phase, format, doc, work, held, blocks>>

(* A page is looked at: its ruled tables and its columns.                  *)
LayOut ==
    /\ phase = "sheet" /\ Len(pages) < Len(doc.sheets)
    /\ ~Current.raises
    /\ \E boxes \in Boxes :
          /\ doc' = [doc EXCEPT !.boxes = boxes]
          /\ work' = Columns(Current.words, boxes)
    /\ phase' = "walk" /\ blocks' = <<>>
    /\ UNCHANGED <<format, held, pages>>

(* _emit_column: a table or a heading stands alone, lines make paragraphs. *)
Item == Head(Head(work))

NextItem == work' = <<Tail(Head(work))>> \o Tail(work)

EmitTable ==
    /\ phase = "walk" /\ format = "pdf" /\ work # <<>> /\ Head(work) # <<>>
    /\ Item.item.kind = "table"
    /\ blocks' = blocks \o Flush("prose") \o <<Block("table", 0, Item.item.words)>>
    /\ held' = <<>> /\ NextItem
    /\ UNCHANGED <<phase, format, doc, pages>>

EmitHeading ==
    /\ phase = "walk" /\ format = "pdf" /\ work # <<>> /\ Head(work) # <<>>
    /\ Item.item.kind = "line" /\ Item.level > 0
    /\ blocks' = blocks \o Flush("prose") \o <<Block("heading", Item.level, Item.item.words)>>
    /\ held' = <<>> /\ NextItem
    /\ UNCHANGED <<phase, format, doc, pages>>

HoldLine ==
    /\ phase = "walk" /\ format = "pdf" /\ work # <<>> /\ Head(work) # <<>>
    /\ Item.item.kind = "line" /\ Item.level = 0
    /\ held' = held \o [k \in DOMAIN Item.item.words |->
                            [at |-> Item.item.words[k], indent |-> 0]]
    /\ NextItem
    /\ UNCHANGED <<phase, format, doc, blocks, pages>>

EndColumn ==
    /\ phase = "walk" /\ format = "pdf" /\ work # <<>> /\ Head(work) = <<>>
    /\ blocks' = blocks \o Flush("prose")
    /\ held' = <<>> /\ work' = Tail(work)
    /\ UNCHANGED <<phase, format, doc, pages>>

(* The page is made; an image is attached if the parser's own classifier   *)
(* would want it.                                                          *)
(* Mutant: the classifier is asked about a page without an image.          *)
ProbeBare(page) == RoutesToVision(Default, page)

Probe(page) == RoutesToVision(Default, [page EXCEPT !.image = TRUE])

EndSheet ==
    /\ phase = "walk" /\ format = "pdf" /\ work = <<>>
    /\ \E areas \in Rasters :
          LET page == [items |-> Items(blocks), image |-> FALSE,
                       layout |-> Layout(Current.words, areas)]
          IN  pages' = Append(pages, [page EXCEPT !.image = Probe(page)])
    /\ phase' = "sheet"
    /\ UNCHANGED <<format, doc, work, held, blocks>>

EndPdf ==
    /\ phase = "sheet" /\ Len(pages) = Len(doc.sheets)
    /\ phase' = "done"
    /\ UNCHANGED <<format, doc, work, held, blocks, pages>>

PdfNext ==
    \/ OpenPdf \/ DegradePage \/ LayOut \/ EmitTable \/ EmitHeading \/ HoldLine
    \/ EndColumn \/ EndSheet \/ EndPdf
=============================================================================
