----------------------------- MODULE MCFormats -----------------------------
(* Small instances of Formats for TLC.                                     *)
EXTENDS Formats, TLC

(* Two words close together, one further right, and one across.            *)
A == [x0 |-> 0, x1 |-> 40]
B == [x0 |-> 45, x1 |-> 85]
C == [x0 |-> 120, x1 |-> 160]
D == [x0 |-> 0, x1 |-> 160]
MCRows == {<<>>, <<A, B>>, <<A, C>>, <<C>>, <<D>>}
MCTops == <<0, 8, 50, 70>>

(* Body text, a heading that may have a number of two parts, and numbered  *)
(* headings of two depths in a smaller face.                               *)
MCStyles == {[size |-> 10, height |-> 10, bold |-> FALSE, depth |-> 0],
             [size |-> 18, height |-> 18, bold |-> TRUE, depth |-> 2],
             [size |-> 14, height |-> 14, bold |-> TRUE, depth |-> 1],
             [size |-> 14, height |-> 14, bold |-> TRUE, depth |-> 2]}

(* No ruled table, one in the right column, one across both.               *)
MCBoxes == {{}, {[x0 |-> 110, x1 |-> 170, top |-> 0, bottom |-> 65]},
            {[x0 |-> 0, x1 |-> 170, top |-> 45, bottom |-> 85]}}

(* What the parser has by default, and what two pipelines are given: one   *)
(* that distrusts only page-filling bitmaps, and one that distrusts any.   *)
MCDefault == [chars |-> 24, area |-> 240000, bitmap |-> 50000]
MCPolicies == {[MCDefault EXCEPT !.bitmap = 250000],
               [chars |-> 500, area |-> 4800, bitmap |-> 1]}

(* No image, a page-filling one, and several that cover half the page.     *)
MCRasters == {<<>>, <<50000>>, [k \in 1..5 |-> 48000]}

P(text, style, suffix, ilvl) ==
    [kind |-> "paragraph", text |-> text, style |-> style, suffix |-> suffix, ilvl |-> ilvl]
T(rows) == [kind |-> "table", rows |-> rows]

MCElements ==
    {P(FALSE, "Normal", 0, Unnumbered), P(TRUE, "Normal", 0, Unnumbered),
     P(TRUE, "Title", 0, Unnumbered), P(TRUE, "Heading", 7, Unnumbered),
     P(TRUE, "Heading", 2, 0), P(TRUE, "List Bullet", 2, Unnumbered),
     P(TRUE, "List Paragraph", 0, 1), T(0), T(2), [kind |-> "other"]}

MCShapes == {T(0), T(2), [kind |-> "frame", levels |-> <<>>],
           [kind |-> "frame", levels |-> <<0, 1>>], [kind |-> "other"]}
MCSlides ==
    [title : {"none", "blank", "text"}, notes : BOOLEAN,
     shapes : UNION {[1..n -> MCShapes] : n \in 0..2}]

MCTags == {"div", "nav", "main", "article", "p", "h2", "ul", "li", "span", "text", "comment"}

(* A table whose second row has a cell too many; a table in a table; a     *)
(* list in a list and a table in a list, and a list in a table, each with  *)
(* a text that would be dropped where the walk came to it by itself.  A    *)
(* table with a caption that has a list, and a first row without cells; a  *)
(* list and a block in a paragraph and in an element of no case; a list    *)
(* and a block right in a list; a row and an item out of their place.      *)
MCSamples ==
    {[tag |-> <<"table", "tr", "td", "text", "tr", "td", "text", "td", "text">>,
      parent |-> <<0, 1, 2, 3, 1, 5, 6, 5, 8>>],
     [tag |-> <<"p", "text", "table", "tr", "td", "table", "tr", "td", "text", "tr", "td", "text">>,
      parent |-> <<0, 1, 0, 3, 4, 5, 6, 7, 8, 3, 10, 11>>],
     [tag |-> <<"ul", "text", "li", "ul", "text", "li", "table", "tr", "td", "tr", "td", "td",
                "text">>,
      parent |-> <<0, 1, 1, 3, 4, 1, 6, 7, 8, 7, 10, 10, 12>>],
     [tag |-> <<"div", "table", "tr", "td", "ul", "text", "tr", "td", "td", "comment", "text",
                "p", "text">>,
      parent |-> <<0, 1, 2, 3, 4, 5, 2, 7, 7, 9, 9, 1, 12>>],
     [tag |-> <<"table", "span", "ul", "li", "text", "tr", "tr", "td", "text">>,
      parent |-> <<0, 1, 2, 3, 4, 1, 1, 7, 8>>],
     [tag |-> <<"p", "span", "ul", "text", "li", "text", "span", "div", "text", "table", "tr", "td",
                "text", "text">>,
      parent |-> <<0, 1, 2, 3, 3, 5, 0, 7, 8, 7, 10, 11, 12, 7>>],
     [tag |-> <<"ul", "ul", "li", "text", "p", "text", "li", "li", "text", "tr", "td", "text", "br">>,
      parent |-> <<0, 1, 2, 3, 1, 5, 1, 7, 8, 0, 10, 11, 10>>]}

None == [media |-> "none", name |-> "none", magic |-> "none", utf8 |-> TRUE]
MCSources ==
    {[None EXCEPT !.media = f, !.name = "pdf"] : f \in Containers \cup {"text"}}
        \cup {[None EXCEPT !.name = f, !.magic = "html"] : f \in Containers \cup {"text"}}
        \cup {[None EXCEPT !.magic = f, !.utf8 = FALSE] : f \in Containers}
        \cup {None, [None EXCEPT !.utf8 = FALSE]}
=============================================================================
