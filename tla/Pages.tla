------------------------------- MODULE Pages -------------------------------
(***************************************************************************)
(* What the parse paths of parsing/ have in common: the blocks of Markdown *)
(* they write one after the other, the lines they hold back until a block  *)
(* is complete, the pages they return, and the page classifier that        *)
(* decides how a page is read.                                             *)
(*                                                                         *)
(* A piece of content (a word, a paragraph, a node, a shape) is known by   *)
(* its identity in the document, never by its characters.                  *)
(***************************************************************************)
EXTENDS Integers, Sequences, FiniteSetsExt, SequencesExt

CONSTANTS
    PageArea,  \* width * height of a page
    Default,   \* the thresholds of the classifier that the PDF path asks
    Policies   \* those of the classifiers that a pipeline may be given

(* What a classifier is set to: min_text_chars, max_image_area_ratio as an *)
(* area (a ratio is at most one), min_bitmap_area.                         *)
Thresholds == [chars : Nat, area : 0 .. PageArea, bitmap : Nat]

ASSUME PagesAssumption ==
    PageArea \in Nat \ {0} /\ Default \in Thresholds /\ Policies \subseteq Thresholds

VARIABLES
    phase,   \* route, open, sheet, walk, done, failed
    format,  \* what the source is, once it is routed
    doc,     \* the document
    work,    \* what is left of it, in the order the path takes it
    held,    \* the lines that do not make a block yet
    blocks,  \* the Markdown of the page: [kind, level, items, indents]
    pages    \* the pages made: [items, layout, image]

vars == <<phase, format, doc, work, held, blocks, pages>>

Block(kind, level, items) ==
    [kind |-> kind, level |-> level, items |-> items, indents |-> <<>>]

(* Lines [at, indent] that make one block: a paragraph or a list.          *)
BlockOf(kind, lines) ==
    [kind |-> kind, level |-> 0,
     items |-> [k \in DOMAIN lines |-> lines[k].at],
     indents |-> [k \in DOMAIN lines |-> lines[k].indent]]

Flush(kind) == IF held = <<>> THEN <<>> ELSE <<BlockOf(kind, held)>>

Items(bs) == FlattenSeq([k \in DOMAIN bs |-> bs[k].items])

-----------------------------------------------------------------------------
(* LayoutPageClassifier: there is one in the parser, and a pipeline has    *)
(* the one it is given.                                                    *)

(* A page: what its text is made of, the layout measured, whether an image *)
(* of it was attached.  A flow format measures nothing.                    *)
Unmeasured == [measured |-> FALSE, chars |-> 0, images |-> 0, bitmap |-> 0]
Measured(chars, images, bitmap) ==
    [measured |-> TRUE, chars |-> chars, images |-> images, bitmap |-> bitmap]

HasUsableTextLayer(policy, page) ==
    IF page.layout.measured
    THEN /\ page.layout.chars >= policy.chars
         /\ page.layout.images < policy.area
         /\ page.layout.bitmap < policy.bitmap
    ELSE page.items # <<>>

RoutesToVision(policy, page) == ~HasUsableTextLayer(policy, page) /\ page.image
=============================================================================
