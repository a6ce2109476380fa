-------------------------- MODULE Contextualizing --------------------------
(***************************************************************************)
(* HeadingWindowContextualizer of contextualizing.py: a chunk is looked up *)
(* in the text of its document (_locate), the paragraphs either side of it *)
(* are cut to what the header leaves of the budget (_fit, _fit_pieces),    *)
(* the preceding ones first.  A step is one call of _locate, one side      *)
(* given up or taken whole, or one turn of the loop of _fit_pieces.        *)
(*                                                                         *)
(* A text is a sequence of lines and blank lines.  A line is one sentence, *)
(* and no line is a part of another.  Paragraphs are joined by a blank     *)
(* line, sentences by nothing.  What a text costs is the tokeniser's to    *)
(* say, and need not be the sum of what its parts cost.                    *)
(***************************************************************************)
EXTENDS Enumeration, FiniteSetsExt, SequencesExt

CONSTANTS
    Text,         \* the lines
    Blank,        \* a blank line
    Count,        \* tokens of each text of up to MaxLines lines
    Window,       \* window: neighbouring paragraphs of a side
    Ceiling,      \* max_context_tokens
    HeaderCosts,  \* what a header may cost
    MaxLines      \* bound: lines of a document

ASSUME ContextualizingAssumption ==
    /\ Blank \notin Text
    /\ Window \in Nat /\ Ceiling \in Nat /\ HeaderCosts \subseteq Nat
    /\ MaxLines \in Nat
    /\ Count \in [UNION {[1..n -> Text \cup {Blank}] : n \in 0..MaxLines} -> Nat]

VARIABLES
    phase,   \* locate; fit a side; its paragraphs, its sentences; done
    side,    \* the side that is being fitted
    doc,     \* full_text
    origin,  \* the lines of doc the chunk was made of, {} if it was rewritten
    chunk,   \* the text of the chunk, stripped
    header,  \* tokens of the header
    span,    \* [from, to]: where _locate puts the chunk; Nowhere if it does not
    near,    \* paragraphs or sentences of the side, the nearest first
    kept,    \* how many of them are kept
    window   \* [before, after]: [pieces, glue] of the text that was kept

vars == <<phase, side, doc, origin, chunk, header, span, near, kept, window>>

Break == <<Blank>>
Nothing == [pieces |-> <<>>, glue |-> Break]
Nowhere == [from |-> 0, to |-> 0]

Solid(k) == doc[k] # Blank

Docs == {d \in UNION {[1..n -> Text \cup {Blank}] : n \in 1..MaxLines} :
            d[1] # Blank /\ d[Len(d)] # Blank}

(* What the chunkers make of a document: lines as they stand; two passages *)
(* in one text, a blank line between them (packed prose) or none (rows of  *)
(* a table under its header); or words in lines of their own.              *)
Passages(d) == {i \in [from : DOMAIN d, to : DOMAIN d] :
                    i.from <= i.to /\ d[i.from] # Blank /\ d[i.to] # Blank}
Lines(d, i) == SubSeq(d, i.from, i.to)

Verbatim(d) == {[origin |-> i.from .. i.to, text |-> Lines(d, i)] : i \in Passages(d)}
Joined(d) ==
    {[origin |-> (p[1].from .. p[1].to) \cup (p[2].from .. p[2].to),
      text |-> Lines(d, p[1]) \o glue \o Lines(d, p[2])] :
        p \in {q \in Passages(d) \X Passages(d) : q[1].to < q[2].from},
        glue \in {<<>>, <<Blank>>}}
Rewritten(d) == {[origin |-> {}, text |-> <<t>>] : t \in Text \ ToSet(d)}

Begin(d, c, h) ==
    /\ phase = "locate" /\ side = "before"
    /\ doc = d /\ origin = c.origin /\ chunk = c.text /\ header = h
    /\ span = Nowhere /\ near = <<>> /\ kept = 0
    /\ window = [before |-> Nothing, after |-> Nothing]

Init ==
    \E d \in Docs : \E c \in Verbatim(d) \cup Joined(d) \cup Rewritten(d) :
        \E h \in HeaderCosts : Begin(d, c, h)

-----------------------------------------------------------------------------
(* _locate.                                                                *)

(* haystack.find(needle): where the lines of needle begin.                 *)
Occurrences(needle, start) ==
    {i \in start .. Len(doc) - Len(needle) + 1 :
        \A k \in DOMAIN needle : doc[i + k - 1] = needle[k]}

FirstFrom(line, start) == Min(Occurrences(<<line>>, start))

(* The anchors: the chunk's first line, and its last one from there on.    *)
(* Mutant: the last line is not looked for.                                *)
AnchoredSpanOnFirst ==
    LET start == FirstFrom(chunk[1], 1) IN [from |-> start, to |-> start]

AnchoredSpan ==
    LET start == FirstFrom(chunk[1], 1)
        last == chunk[Len(chunk)]
    IN  [from |-> start,
         to |-> IF Occurrences(<<last>>, start) = {} THEN start
                ELSE FirstFrom(last, start)]

Located ==
    IF Occurrences(chunk, 1) # {}
    THEN LET start == Min(Occurrences(chunk, 1))
         IN  [from |-> start, to |-> start + Len(chunk) - 1]
    ELSE IF Occurrences(<<chunk[1]>>, 1) = {} THEN Nowhere
    ELSE AnchoredSpan

Locate ==
    /\ phase = "locate"
    /\ span' = IF Window = 0 THEN Nowhere ELSE Located
    /\ phase' = "fit"
    /\ UNCHANGED <<side, doc, origin, chunk, header, near, kept, window>>

-----------------------------------------------------------------------------
(* _neighbours and _fit.                                                   *)

(* _paragraphs of the lines from..to: the runs of lines between blank ones.*)
Runs(from, to) ==
    {i \in [from : from..to, to : from..to] :
        /\ i.from <= i.to
        /\ \A k \in i.from .. i.to : Solid(k)
        /\ i.from > from => ~Solid(i.from - 1)
        /\ i.to < to => ~Solid(i.to + 1)}

Paragraphs(from, to) ==
    InOrder(Runs(from, to),
            {p \in Runs(from, to) \X Runs(from, to) : p[1].from < p[2].from})

Nearest(s, n) == SubSeq(s, 1, IF Len(s) < n THEN Len(s) ELSE n)

(* The neighbours of a side, the nearest first: the last Window paragraphs *)
(* before the span, the first Window after it.                             *)
(* Mutant: the first paragraphs of the document stand before the chunk.    *)
NeighboursFromTop(s) ==
    IF span = Nowhere THEN <<>>
    ELSE IF s = "before" THEN Nearest(Paragraphs(1, span.from - 1), Window)
    ELSE Nearest(Paragraphs(span.to + 1, Len(doc)), Window)

Neighbours(s) ==
    IF span = Nowhere THEN <<>>
    ELSE IF s = "before" THEN Nearest(Reverse(Paragraphs(1, span.from - 1)), Window)
    ELSE Nearest(Paragraphs(span.to + 1, Len(doc)), Window)

(* _sentences of a paragraph, the nearest first.                           *)
Sentences(s, p) ==
    LET ss == [k \in 1 .. p.to - p.from + 1 |->
                  [from |-> p.from + k - 1, to |-> p.from + k - 1]]
    IN  IF s = "before" THEN Reverse(ss) ELSE ss

(* The text of pieces of a side, put in the order of the document.         *)
TextOf(s, pieces, glue) ==
    LET ps == IF s = "before" THEN Reverse(pieces) ELSE pieces
    IN  FlattenSeq([k \in DOMAIN ps |->
                       (IF k = 1 THEN <<>> ELSE glue) \o Lines(doc, ps[k])])

(* _count of that text, as a whole; an absent one costs nothing.           *)
Tokens(s, pieces, glue) ==
    IF pieces = <<>> THEN 0 ELSE Count[TextOf(s, pieces, glue)]

Cost(s) == Tokens(s, window[s].pieces, window[s].glue)

(* What the header leaves.                                                 *)
Left == IF header < Ceiling THEN Ceiling - header ELSE 0

(* The preceding side is offered a half, the following one the rest.       *)
(* Mutant: the following side is offered a half, whatever the preceding    *)
(* one took.                                                               *)
BudgetHalved == Left \div 2

Budget == IF side = "before" THEN Left \div 2 ELSE Left - Cost("before")

Fits(cost) == cost \in 0 .. Budget

(* Mutant: the count of kept pieces goes on into the next side.            *)
CloseSideCountingOn(pieces, glue) ==
    /\ window' = [window EXCEPT ![side] = [pieces |-> pieces, glue |-> glue]]
    /\ side' = "after"
    /\ phase' = IF side = "before" THEN "fit" ELSE "done"
    /\ near' = <<>>
    /\ UNCHANGED <<doc, origin, chunk, header, span, kept>>

(* The side is done: the following one is next, or the text is assembled.  *)
CloseSide(pieces, glue) ==
    /\ window' = [window EXCEPT ![side] = [pieces |-> pieces, glue |-> glue]]
    /\ side' = "after"
    /\ phase' = IF side = "before" THEN "fit" ELSE "done"
    /\ near' = <<>> /\ kept' = 0
    /\ UNCHANGED <<doc, origin, chunk, header, span>>

(* No budget, or no text.                                                  *)
LeaveEmpty ==
    /\ phase = "fit"
    /\ Budget = 0 \/ Neighbours(side) = <<>>
    /\ CloseSide(<<>>, Break)

WholeFits == Fits(Tokens(side, Neighbours(side), Break))

KeepWhole ==
    /\ phase = "fit"
    /\ Budget # 0 /\ Neighbours(side) # <<>>
    /\ WholeFits
    /\ CloseSide(Neighbours(side), Break)

Overflow ==
    /\ phase = "fit"
    /\ Budget # 0 /\ Neighbours(side) # <<>>
    /\ ~WholeFits
    /\ phase' = "paragraphs" /\ near' = Neighbours(side)
    /\ UNCHANGED <<side, doc, origin, chunk, header, span, kept, window>>

-----------------------------------------------------------------------------
(* _fit_pieces.                                                            *)

Joiner == IF phase = "sentences" THEN <<>> ELSE Break

(* The cost of the candidate: the kept pieces and the next one, joined.    *)
(* Mutant: the next one is counted apart, without the glue.                *)
CandidateApart ==
    Tokens(side, Nearest(near, kept), Joiner) + Tokens(side, <<near[kept + 1]>>, Joiner)

Candidate == Tokens(side, Nearest(near, kept + 1), Joiner)

More == kept < Len(near)

TakePiece ==
    /\ phase \in {"paragraphs", "sentences"}
    /\ More /\ Fits(Candidate)
    /\ kept' = kept + 1
    /\ UNCHANGED <<phase, side, doc, origin, chunk, header, span, near, window>>

Stuck == More => ~Fits(Candidate)

StopParagraphs ==
    /\ phase = "paragraphs" /\ Stuck /\ kept > 0
    /\ CloseSide(Nearest(near, kept), Joiner)

(* Not even the nearest paragraph fits: its sentences.                     *)
Descend ==
    /\ phase = "paragraphs" /\ Stuck /\ kept = 0
    /\ phase' = "sentences" /\ near' = Sentences(side, near[1])
    /\ UNCHANGED <<side, doc, origin, chunk, header, span, kept, window>>

StopSentences ==
    /\ phase = "sentences" /\ Stuck
    /\ CloseSide(Nearest(near, kept), Joiner)

(* The contextualised text is returned.                                    *)
Finished == phase = "done" /\ UNCHANGED vars

Next ==
    \/ Locate \/ LeaveEmpty \/ KeepWhole \/ Overflow
    \/ TakePiece \/ StopParagraphs \/ Descend \/ StopSentences
    \/ Finished

Spec == Init /\ [][Next]_vars

-----------------------------------------------------------------------------
(* Properties.                                                             *)

LinesOf(pieces) == UNION {pieces[k].from .. pieces[k].to : k \in DOMAIN pieces}
Kept(s) == LinesOf(window[s].pieces)

(* Every variable keeps to its values, and both sides to whole lines.      *)
TypeOK ==
    /\ phase \in {"locate", "fit", "paragraphs", "sentences", "done"}
    /\ side \in {"before", "after"}
    /\ doc \in Docs /\ header \in HeaderCosts
    /\ origin \subseteq DOMAIN doc
    /\ kept \in 0 .. Len(near)
    /\ \A s \in {"before", "after"} :
          window[s].glue \in {Break, <<>>} /\ Kept(s) \subseteq DOMAIN doc

(* "_fit_pieces: The budget is checked against the joined candidate, so    *)
(* the assembled window never overflows by the cost of its own glue"; and  *)
(* the two texts together never cost more than what the header leaves of   *)
(* max_context_tokens, whatever the tokeniser makes of a join: what the    *)
(* preceding side took, and no more, is taken off the following one, on    *)
(* every path by which a side may have ended.                              *)
WithinCeiling == Cost("before") + Cost("after") <= Left

(* What a side was offered, and that it left nothing out that would have   *)
(* fitted.                                                                 *)
Offered(s) == IF s = "before" THEN Left \div 2 ELSE Left - Cost("before")

Full(s) ==
    LET ps == window[s].pieces
        sentences == Sentences(s, Neighbours(s)[1])
        TooMuch(pieces, glue) == Tokens(s, pieces, glue) \notin 0 .. Offered(s)
    IN  \/ Offered(s) = 0
        \/ ps = Neighbours(s)
        \/ /\ window[s].glue = Break
           /\ TooMuch(Nearest(Neighbours(s), Len(ps) + 1), Break)
        \/ /\ window[s].glue = <<>>
           /\ TooMuch(<<Neighbours(s)[1]>>, Break)
           /\ ps = sentences \/ TooMuch(Nearest(sentences, Len(ps) + 1), <<>>)

(* "What remains is offered to the preceding window first and whatever     *)
(* that leaves goes to the following one"; "whole paragraphs go first;     *)
(* only when not even the single nearest paragraph fits do we descend to   *)
(* sentences within it": a side that was offered anything has all its      *)
(* neighbours, or one paragraph more would have cost more than the offer;  *)
(* or it has sentences, the whole nearest paragraph would not have fitted, *)
(* and neither would one sentence more, if there is one.                   *)
NothingMoreFits ==
    /\ side = "after" => Full("before")
    /\ phase = "done" => Full("after")

(* The text nearest the chunk: between a line that a side keeps and the    *)
(* place of the chunk, every line is kept; and no side keeps a line of     *)
(* that place itself.                                                      *)
NoHoles ==
    /\ \A i \in Kept("before") :
          i < span.from /\ \A k \in i .. span.from - 1 : Solid(k) => k \in Kept("before")
    /\ \A i \in Kept("after") :
          i > span.to /\ \A k \in span.to + 1 .. i : Solid(k) => k \in Kept("after")

(* "A missing neighbourhood is worth far less than a wrong one": if the    *)
(* chunk's text stands nowhere else, its first line nowhere before it and  *)
(* its last one nowhere within it, the chunk's own lines are never in its  *)
(* window, and the place found for it begins and ends where the chunk      *)
(* does.  (A chunk whose first line occurs earlier may be put there, and   *)
(* its window is then a wrong one.)                                        *)
RightPlace ==
    (phase # "locate" /\ origin # {} /\ Window > 0) =>
        LET from == Min(origin)
            to == Max(origin)
            unambiguous == /\ Occurrences(chunk, 1) \subseteq {from}
                           /\ \A k \in 1 .. from - 1 : doc[k] # chunk[1]
                           /\ \A k \in from .. to - 1 : doc[k] # chunk[Len(chunk)]
        IN  unambiguous => /\ span = [from |-> from, to |-> to]
                           /\ origin \cap (Kept("before") \cup Kept("after")) = {}
=============================================================================
