--------------------------- MODULE FormatsProofs ---------------------------
(***************************************************************************)
(* Theorems about the parse paths.  The pages that leave them go where     *)
(* the thresholds of the parser and of the pipeline let them: PagesRoute,  *)
(* for any documents, layouts and thresholds of either.  The flow formats  *)
(* keep what they walk: FlowKept, for bodies, decks and trees of any size  *)
(* and shape; the walk of each format has its own invariant, DocxInv,      *)
(* PptxInv and HtmlInv, of what has been written and what is left, and the *)
(* lemmas on lists, on trees in document order and on slides that they     *)
(* need come before them.  A page of a PDF is written as it was laid out,  *)
(* SheetInv.  Its headings are ranked, HeadingsRanked, and its words come  *)
(* out once and in the order they are read in, SheetKept, for any words,   *)
(* boxes and thresholds: lemmas on bands, lines, runs and columns say what *)
(* the layout makes.  And TypeOK.                                          *)
(***************************************************************************)
EXTENDS Formats, FunctionTheorems, FiniteSetTheorems, SequenceTheorems, TLAPS

(* A page as the paths hand it over.                                       *)
Right(page) ==
    /\ format = "pdf" => (page.image <=> ~HasUsableTextLayer(Default, page))
    /\ format # "pdf" => ~page.image

(* The inductive invariant: every page made so far is right, and there is  *)
(* none before the format is known, which does not change afterwards.      *)
PagesInv ==
    /\ \E S : pages \in Seq(S)
    /\ phase \in {"route", "open"} => pages = <<>>
    /\ phase = "sheet" => format = "pdf"
    /\ \A k \in DOMAIN pages : Right(pages[k])

(* One more page.                                                          *)
LEMMA AppendKeeps ==
    ASSUME PagesInv, NEW page, pages' = Append(pages, page), format' = format,
           Right(page), phase' \notin {"route", "open"}, format = "pdf"
    PROVE  PagesInv'
<1>1. PICK S : pages \in Seq(S)
    BY DEF PagesInv
<1>2. pages \in Seq(S \cup {page})
    BY <1>1
<1>3. /\ pages' \in Seq(S \cup {page})
      /\ \A k \in DOMAIN pages' : pages'[k] = page \/ (k \in DOMAIN pages /\ pages'[k] = pages[k])
    BY <1>2
<1>4. \A p : Right(p)' <=> Right(p)
    BY DEF Right, HasUsableTextLayer
<1> QED
    BY <1>3, <1>4 DEF PagesInv

(* The only page of a flow format.                                         *)
LEMMA FlowKeeps ==
    ASSUME PagesInv, NEW items, EndFlow(items), format' = format, format # "pdf"
    PROVE  PagesInv'
<1> DEFINE page == [items |-> items, layout |-> Unmeasured, image |-> FALSE]
<1>1. pages' = <<page>> /\ phase' = "done"
    BY DEF EndFlow
<1>2. page.image = FALSE
    OBVIOUS
<1> HIDE DEF page
<1>3. <<page>> \in Seq({page}) /\ \A k \in DOMAIN <<page>> : <<page>>[k] = page
    OBVIOUS
<1>4. Right(page)'
    BY <1>2 DEF Right
<1> QED
    BY <1>1, <1>3, <1>4 DEF PagesInv

(* A page of a PDF that raised has no text layer and an image.             *)
LEMMA DegradedIsRight ==
    ASSUME format = "pdf"
    PROVE  Right([items |-> <<>>, layout |-> Vision, image |-> TRUE])
<1> DEFINE page == [items |-> <<>>, layout |-> Vision, image |-> TRUE]
<1>1. page.image = TRUE /\ page.layout = Vision
    OBVIOUS
<1>2. Vision.measured = TRUE /\ Vision.images = PageArea
    BY DEF Vision, Measured
<1>3. ~(PageArea < Default.area)
    BY PagesAssumption DEF Thresholds
<1> HIDE DEF page
<1>4. ~HasUsableTextLayer(Default, page)
    BY <1>1, <1>2, <1>3 DEF HasUsableTextLayer
<1>6. Right(page)
    BY <1>1, <1>4, Zenon DEF Right
<1> QED
    BY <1>6 DEF page

(* The image is attached if the classifier wants the page with one.        *)
LEMMA ProbedIsRight ==
    ASSUME NEW page, page = [items |-> page.items, layout |-> page.layout, image |-> FALSE],
           format = "pdf"
    PROVE  Right([page EXCEPT !.image = Probe(page)])
<1> DEFINE probed == [page EXCEPT !.image = TRUE]
           made == [page EXCEPT !.image = Probe(page)]
<1>1. /\ probed.image = TRUE /\ probed.layout = page.layout /\ probed.items = page.items
      /\ made.image = Probe(page) /\ made.layout = page.layout /\ made.items = page.items
    OBVIOUS
<1>2. Probe(page) <=> RoutesToVision(Default, probed)
    BY DEF Probe
<1> HIDE DEF probed, made
<1>3. Probe(page) <=> ~HasUsableTextLayer(Default, probed)
    BY <1>1, <1>2 DEF RoutesToVision
<1>4. HasUsableTextLayer(Default, probed) <=> HasUsableTextLayer(Default, made)
    BY <1>1 DEF HasUsableTextLayer
<1>5. Right(made)
    BY <1>1, <1>3, <1>4, Zenon DEF Right
<1> QED
    BY <1>5 DEF made

(* A step that makes no page.                                              *)
LEMMA SamePages ==
    ASSUME PagesInv, UNCHANGED pages, format' = format \/ phase = "route",
           phase' \in {"route", "open"} => phase \in {"route", "open"},
           phase' = "sheet" => phase = "sheet" \/ format' = "pdf"
    PROVE  PagesInv'
<1>1. CASE phase \in {"route", "open"}
    <2>1. pages' = <<>> /\ pages = <<>>
        BY <1>1 DEF PagesInv
    <2>2. <<>> \in Seq({}) /\ \A k \in DOMAIN <<>> : FALSE
        OBVIOUS
    <2> QED
        BY <2>1, <2>2 DEF PagesInv
<1>2. CASE phase \notin {"route", "open"}
    BY <1>2 DEF PagesInv, Right, HasUsableTextLayer
<1> QED
    BY <1>1, <1>2

LEMMA PagesInit == Init => PagesInv
<1>1. <<>> \in Seq({}) /\ \A k \in DOMAIN <<>> : FALSE
    OBVIOUS
<1> QED
    BY <1>1 DEF Init, PagesInv

LEMMA PdfStep == ASSUME PagesInv, PdfNext PROVE PagesInv'
<1>1. CASE OpenPdf \/ EndPdf
    BY <1>1, SamePages DEF OpenPdf, EndPdf
<1>2. CASE DegradePage
    <2>1. format = "pdf" /\ phase = "sheet"
        BY <1>2 DEF DegradePage, PagesInv
    <2> QED
        BY <1>2, <2>1, DegradedIsRight, AppendKeeps DEF DegradePage
<1>3. CASE LayOut
    BY <1>3, SamePages DEF LayOut
<1>4. CASE EmitTable \/ EmitHeading \/ HoldLine \/ EndColumn
    BY <1>4, SamePages DEF EmitTable, EmitHeading, HoldLine, EndColumn
<1>5. CASE EndSheet
    <2>1. PICK areas \in Rasters :
            pages' = Append(pages,
                [[items |-> Items(blocks), image |-> FALSE,
                  layout |-> Layout(Current.words, areas)] EXCEPT !.image =
                    Probe([items |-> Items(blocks), image |-> FALSE,
                           layout |-> Layout(Current.words, areas)])])
        BY <1>5 DEF EndSheet
    <2> DEFINE page == [items |-> Items(blocks), image |-> FALSE,
                        layout |-> Layout(Current.words, areas)]
    <2>2. pages' = Append(pages, [page EXCEPT !.image = Probe(page)])
        BY <2>1
    <2>3. page = [items |-> page.items, layout |-> page.layout, image |-> FALSE]
        OBVIOUS
    <2>4. format = "pdf" /\ format' = format /\ phase' = "sheet"
        BY <1>5 DEF EndSheet
    <2> HIDE DEF page
    <2>5. Right([page EXCEPT !.image = Probe(page)])
        BY <2>3, <2>4, ProbedIsRight
    <2> QED
        BY <2>2, <2>4, <2>5, AppendKeeps
<1> QED
    BY <1>1, <1>2, <1>3, <1>4, <1>5 DEF PdfNext

LEMMA FlowStep == ASSUME PagesInv, FlowNext PROVE PagesInv'
<1>1. CASE OpenText
    BY <1>1, FlowKeeps DEF OpenText
<1>2. CASE EndDocx \/ EndPptx \/ EndHtml
    BY <1>2, FlowKeeps DEF EndDocx, EndPptx, EndHtml
<1>3. CASE OpenDocx \/ OpenPptx \/ OpenHtml \/ FindRoot
    BY <1>3, SamePages DEF OpenDocx, OpenPptx, OpenHtml, FindRoot
<1>4. CASE SkipParagraph \/ HoldListItem \/ EmitParagraph \/ EmitDocxTable \/ SkipElement
    BY <1>4, SamePages DEF SkipParagraph, HoldListItem, EmitParagraph, EmitDocxTable, SkipElement
<1>5. CASE OpenSlide \/ SkipTitle \/ RepeatTitle \/ EmitPptxTable \/ EmitFrame
            \/ SkipShape \/ EmitNotes
    BY <1>5, SamePages DEF OpenSlide, SkipTitle, RepeatTitle, EmitPptxTable, EmitFrame,
        SkipShape, EmitNotes
<1>6. CASE Descend \/ Render
    BY <1>6, SamePages DEF Descend, Render
<1> QED
    BY <1>1, <1>2, <1>3, <1>4, <1>5, <1>6 DEF FlowNext

LEMMA PagesStep == PagesInv /\ [Next]_vars => PagesInv'
<1> SUFFICES ASSUME PagesInv, [Next]_vars PROVE PagesInv'
    OBVIOUS
<1>1. CASE RouteByMediaType \/ RouteByExtension \/ RouteByContent \/ Reject
    BY <1>1, SamePages DEF RouteByMediaType, RouteByExtension, RouteByContent, Reject, Route
<1>2. CASE OpenFails
    BY <1>2, SamePages DEF OpenFails
<1>3. CASE Finished \/ UNCHANGED vars
    BY <1>3, SamePages DEF Finished, vars
<1> QED
    BY <1>1, <1>2, <1>3, PdfStep, FlowStep DEF Next

-----------------------------------------------------------------------------
(* Lists.                                                                  *)

(* R orders S: no member comes before itself, of two one comes first, and  *)
(* what comes before a member comes before those it comes before.          *)
Orders(R, S) ==
    /\ \A c \in S : <<c, c>> \notin R
    /\ \A c, d \in S : c # d => <<c, d>> \in R \/ <<d, c>> \in R
    /\ \A b, c, d \in S : <<b, c>> \in R /\ <<c, d>> \in R => <<b, d>> \in R

Before(c, S, R) == {d \in S : <<d, c>> \in R}

(* What comes before a member counts less than the whole, and less than    *)
(* what comes before a later member.                                       *)
LEMMA BeforeCounts ==
    ASSUME NEW S, IsFiniteSet(S), NEW R, Orders(R, S)
    PROVE  /\ \A c \in S : Cardinality(Before(c, S, R)) \in 0 .. Cardinality(S) - 1
           /\ \A c, d \in S : <<d, c>> \in R =>
                 Cardinality(Before(d, S, R)) < Cardinality(Before(c, S, R))
<1>1. ASSUME NEW c \in S
      PROVE  /\ IsFiniteSet(Before(c, S, R))
             /\ Cardinality(Before(c, S, R)) \in 0 .. Cardinality(S) - 1
  <2>1. Before(c, S, R) \in SUBSET S /\ Before(c, S, R) # S
    BY DEF Before, Orders
  <2>2. /\ IsFiniteSet(Before(c, S, R))
        /\ Cardinality(Before(c, S, R)) <= Cardinality(S)
        /\ Cardinality(Before(c, S, R)) # Cardinality(S)
    BY <2>1, FS_Subset
  <2>3. Cardinality(Before(c, S, R)) \in Nat /\ Cardinality(S) \in Nat
    BY <2>2, FS_CardinalityType
  <2>4. QED
    BY <2>2, <2>3
<1>2. ASSUME NEW c \in S, NEW d \in S, <<d, c>> \in R
      PROVE  Cardinality(Before(d, S, R)) < Cardinality(Before(c, S, R))
  <2>1. Before(d, S, R) \in SUBSET Before(c, S, R) /\ Before(d, S, R) # Before(c, S, R)
    BY <1>2 DEF Before, Orders
  <2>2. IsFiniteSet(Before(c, S, R))
    BY <1>1
  <2>3. /\ Cardinality(Before(d, S, R)) <= Cardinality(Before(c, S, R))
        /\ Cardinality(Before(d, S, R)) # Cardinality(Before(c, S, R))
    BY <2>1, <2>2, FS_Subset
  <2>4. Cardinality(Before(d, S, R)) \in Int /\ Cardinality(Before(c, S, R)) \in Int
    BY <1>1
  <2>5. QED
    BY <2>3, <2>4
<1>3. QED
  BY <1>1, <1>2

(* Every number below that of the members is the count of one of them.     *)
LEMMA EveryCount ==
    ASSUME NEW S, IsFiniteSet(S), NEW R, Orders(R, S),
           NEW k \in 1 .. Cardinality(S)
    PROVE  \E c \in S : Cardinality(Before(c, S, R)) = k - 1
<1> DEFINE n == Cardinality(S)
           f == [c \in S |-> Cardinality(Before(c, S, R))]
<1>1. n \in Nat
  BY FS_CardinalityType
<1>2. f \in [S -> 0 .. n - 1]
  BY BeforeCounts
<1>3. \A c, d \in S : f[c] = f[d] => c = d
  <2> SUFFICES ASSUME NEW c \in S, NEW d \in S, f[c] = f[d], c # d PROVE FALSE
    OBVIOUS
  <2>1. <<c, d>> \in R \/ <<d, c>> \in R
    BY DEF Orders
  <2>2. f[c] \in Int /\ f[d] \in Int
    BY <1>2
  <2>3. <<c, d>> \in R => f[c] < f[d]
    BY BeforeCounts
  <2>4. <<d, c>> \in R => f[d] < f[c]
    BY BeforeCounts
  <2>5. QED
    BY <2>1, <2>2, <2>3, <2>4
<1>4. f \in Injection(S, 0 .. n - 1)
  BY <1>2, <1>3, Fun_IsInj
<1>5. IsFiniteSet(0 .. n - 1) /\ Cardinality(0 .. n - 1) = n
  <2>1. 0 \in Int /\ n - 1 \in Int
    BY <1>1
  <2>2. Cardinality(0 .. n - 1) = IF 0 > n - 1 THEN 0 ELSE (n - 1) - 0 + 1
    BY <2>1, FS_Interval
  <2>3. QED
    BY <1>1, <2>1, <2>2, FS_Interval
<1>6. f \in Surjection(S, 0 .. n - 1)
  BY <1>4, <1>5, FS_Injection
<1>7. k - 1 \in 0 .. n - 1
  BY <1>1
<1>8. \E c \in S : f[c] = k - 1
  <2> HIDE DEF f, n
  <2>1. \A t \in 0 .. n - 1 : \E c \in S : f[c] = t
    BY ONLY <1>6, Fun_SurjectionProperties, ZenonT(30)
  <2>2. QED
    BY <1>7, <2>1
<1>9. QED
  BY <1>8

(* The list has every member of the set once, in its order.                *)
LEMMA InOrderLists ==
    ASSUME NEW S, IsFiniteSet(S), NEW R, Orders(R, S)
    PROVE  /\ Cardinality(S) \in Nat
           /\ InOrder(S, R) \in [1 .. Cardinality(S) -> S]
           /\ \A c \in S : \E k \in 1 .. Cardinality(S) : InOrder(S, R)[k] = c
           /\ \A j, k \in 1 .. Cardinality(S) :
                 j < k => /\ <<InOrder(S, R)[j], InOrder(S, R)[k]>> \in R
                          /\ InOrder(S, R)[j] # InOrder(S, R)[k]
<1> DEFINE n == Cardinality(S)
           s == InOrder(S, R)
           count(c) == Cardinality(Before(c, S, R))
<1>1. n \in Nat
  BY FS_CardinalityType
<1>2. ASSUME NEW k \in 1 .. n
      PROVE  s[k] \in S /\ count(s[k]) = k - 1
  <2>1. s[k] = CHOOSE c \in S : count(c) = k - 1
    BY DEF InOrder, Before
  <2>2. \E c \in S : count(c) = k - 1
    BY EveryCount
  <2> HIDE DEF s, count
  <2>3. QED
    BY <2>1, <2>2
<1>3. s = [k \in 1 .. n |-> s[k]]
  <2> DEFINE member(k) == CHOOSE c \in S : Cardinality({d \in S : <<d, c>> \in R}) = k - 1
  <2>1. s = [k \in 1 .. n |-> member(k)]
    BY DEF InOrder
  <2> HIDE DEF s, n, member
  <2>2. QED
    BY <2>1
<1>4. s \in [1 .. n -> S]
  <2> HIDE DEF s, n
  <2>1. QED
    BY <1>2, <1>3
<1>5. \A c \in S : count(c) \in 0 .. n - 1
  BY BeforeCounts
<1>6. \A c, d \in S : <<d, c>> \in R => count(d) < count(c)
  BY BeforeCounts
<1>7. ASSUME NEW c \in S
      PROVE  \E k \in 1 .. n : s[k] = c
  <2>1. count(c) + 1 \in 1 .. n
    BY <1>1, <1>5
  <2>2. s[count(c) + 1] \in S /\ count(s[count(c) + 1]) = count(c)
    BY <1>2, <1>5, <2>1
  <2>3. s[count(c) + 1] = c
    <3> HIDE DEF s, count
    <3>1. CASE s[count(c) + 1] # c
      <4>1. \/ count(s[count(c) + 1]) < count(c)
            \/ count(c) < count(s[count(c) + 1])
        BY <1>6, <2>2, <3>1 DEF Orders
      <4>2. QED
        BY <1>5, <2>2, <4>1
    <3>2. QED
      BY <3>1
  <2>4. QED
    BY <2>1, <2>3
<1>8. ASSUME NEW j \in 1 .. n, NEW k \in 1 .. n, j < k
      PROVE  <<s[j], s[k]>> \in R /\ s[j] # s[k]
  <2> HIDE DEF s, count
  <2>1. s[j] \in S /\ s[k] \in S /\ count(s[j]) = j - 1 /\ count(s[k]) = k - 1
    BY <1>2
  <2>2. s[j] # s[k]
    BY <1>8, <2>1
  <2>3. <<s[k], s[j]>> \notin R
    BY <1>6, <1>8, <2>1
  <2>4. QED
    BY <2>1, <2>2, <2>3 DEF Orders
<1>9. QED
  BY <1>1, <1>4, <1>7, <1>8

(* Ascending lists numbers in their order.                                 *)
LEMMA AscendingLists ==
    ASSUME NEW S \in SUBSET Int, IsFiniteSet(S)
    PROVE  /\ Cardinality(S) \in Nat
           /\ Ascending(S) \in [1 .. Cardinality(S) -> S]
           /\ \A i \in S : \E k \in 1 .. Cardinality(S) : Ascending(S)[k] = i
           /\ \A j, k \in 1 .. Cardinality(S) : j < k => Ascending(S)[j] < Ascending(S)[k]
<1> DEFINE R == {p \in S \X S : p[1] < p[2]}
<1>1. \A i, j \in S : <<i, j>> \in R <=> i < j
  OBVIOUS
<1>2. Orders(R, S)
  <2> HIDE DEF R
  <2>1. QED
    BY <1>1 DEF Orders
<1>3. Ascending(S) = InOrder(S, R)
  BY DEF Ascending
<1> HIDE DEF R
<1>4. /\ Cardinality(S) \in Nat
      /\ Ascending(S) \in [1 .. Cardinality(S) -> S]
      /\ \A i \in S : \E k \in 1 .. Cardinality(S) : Ascending(S)[k] = i
  BY <1>2, <1>3, InOrderLists
<1>5. ASSUME NEW j \in 1 .. Cardinality(S), NEW k \in 1 .. Cardinality(S), j < k
      PROVE  Ascending(S)[j] < Ascending(S)[k]
  <2>1. <<Ascending(S)[j], Ascending(S)[k]>> \in R
    BY <1>2, <1>3, <1>5, InOrderLists
  <2>2. Ascending(S)[j] \in S /\ Ascending(S)[k] \in S
    BY <1>4
  <2>3. QED
    BY <1>1, <2>1, <2>2
<1>6. QED
  BY <1>4, <1>5

(* A finite set of numbers has a least and a greatest member.              *)
LEMMA Extremes ==
    ASSUME NEW P \in SUBSET Int, IsFiniteSet(P), P # {}
    PROVE  /\ \E m \in P : \A k \in P : m <= k
           /\ \E m \in P : \A k \in P : k <= m
<1> DEFINE n == Cardinality(P)
           s == Ascending(P)
<1>1. /\ n \in Nat /\ s \in [1 .. n -> P]
      /\ \A i \in P : \E k \in 1 .. n : s[k] = i
      /\ \A j, k \in 1 .. n : j < k => s[j] < s[k]
  BY AscendingLists
<1> HIDE DEF n, s
<1>2. 1 \in 1 .. n /\ n \in 1 .. n
  <2>1. PICK i \in P : TRUE
    OBVIOUS
  <2>2. PICK k \in 1 .. n : s[k] = i
    BY <1>1
  <2>3. QED
    BY <1>1, <2>2
<1>3. \A j \in 1 .. n : s[j] \in Int
  BY <1>1
<1>4. \A j \in 1 .. n : s[1] <= s[j] /\ s[j] <= s[n]
  <2> SUFFICES ASSUME NEW j \in 1 .. n PROVE s[1] <= s[j] /\ s[j] <= s[n]
    OBVIOUS
  <2>1. j = 1 \/ 1 < j
    BY <1>1
  <2>2. j = n \/ j < n
    BY <1>1
  <2>3. s[1] <= s[j]
    BY <1>1, <1>2, <1>3, <2>1
  <2>4. s[j] <= s[n]
    BY <1>1, <1>2, <1>3, <2>2
  <2>5. QED
    BY <2>3, <2>4
<1>5. \A k \in P : s[1] <= k /\ k <= s[n]
  BY <1>1, <1>4
<1>6. s[1] \in P /\ s[n] \in P
  BY <1>1, <1>2
<1>7. QED
  BY <1>5, <1>6

(* Of the lengths that fail, one is the least.                             *)
LEMMA LeastFailure ==
    ASSUME NEW n \in Nat, NEW P \in SUBSET (1 .. n), P # {}
    PROVE  \E m \in P : \A k \in 1 .. m - 1 : k \notin P
<1>1. IsFiniteSet(1 .. n)
  BY FS_Interval
<1>2. IsFiniteSet(P) /\ P \in SUBSET Int
  <2>1. IsFiniteSet(P)
    BY <1>1, FS_Subset
  <2>2. QED
    BY <2>1
<1>3. PICK m \in P : \A k \in P : m <= k
  BY <1>2, Extremes
<1>4. QED
  BY <1>3

(* The texts joined so far, text by text.                                  *)
Joins(f, ss) ==
    f = [i \in 1 .. Len(ss) |-> IF i = 1 THEN ss[i] ELSE f[i - 1] \o ss[i]]

(* What joins texts one after the other is texts.                          *)
LEMMA JoinsTyped ==
    ASSUME NEW S, NEW ss \in Seq(Seq(S)), NEW f, Joins(f, ss)
    PROVE  f \in [1 .. Len(ss) -> Seq(S)]
<1> DEFINE n == Len(ss)
           P == {i \in 1 .. n : f[i] \notin Seq(S)}
<1>1. n \in Nat /\ \A i \in 1 .. n : ss[i] \in Seq(S)
  OBVIOUS
<1>2. /\ DOMAIN f = 1 .. n /\ f = [i \in 1 .. n |-> f[i]]
      /\ \A i \in 1 .. n : f[i] = IF i = 1 THEN ss[i] ELSE f[i - 1] \o ss[i]
  BY DEF Joins
<1>3. ASSUME P # {} PROVE FALSE
  <2>1. P \in SUBSET (1 .. n)
    OBVIOUS
  <2>2. PICK m \in P : \A k \in 1 .. m - 1 : k \notin P
    BY <1>1, <1>3, <2>1, LeastFailure
  <2>3. m \in 1 .. n /\ f[m] \notin Seq(S)
    OBVIOUS
  <2>4. CASE m = 1
    BY <1>1, <1>2, <2>3, <2>4
  <2>5. CASE m # 1
    <3>1. m - 1 \in 1 .. n /\ m - 1 \in 1 .. m - 1
      BY <1>1, <2>3, <2>5
    <3>2. f[m - 1] \in Seq(S)
      BY <2>2, <3>1
    <3>3. f[m - 1] \o ss[m] \in Seq(S)
      BY <1>1, <2>3, <3>2, ConcatProperties
    <3>4. QED
      BY <1>2, <2>3, <2>5, <3>3
  <2>6. QED
    BY <2>4, <2>5
<1>4. \A i \in 1 .. n : f[i] \in Seq(S)
  BY <1>3
<1> HIDE DEF n
<1>5. QED
  BY <1>2, <1>4 DEF n

(* Every list of texts is joined by some function.                         *)
LEMMA JoinsExist ==
    ASSUME NEW S, NEW ss \in Seq(Seq(S))
    PROVE  \E f : Joins(f, ss)
<1> DEFINE n == Len(ss)
           Upto(f, m) == f \in [1 .. m -> Seq(S)] /\
                         \A i \in 1 .. m : f[i] = IF i = 1 THEN ss[i] ELSE f[i - 1] \o ss[i]
           P == {m \in 1 .. n : ~\E f \in [1 .. m -> Seq(S)] : Upto(f, m)}
<1>1. n \in Nat /\ \A i \in 1 .. n : ss[i] \in Seq(S)
  OBVIOUS
<1>2. ASSUME P # {} PROVE FALSE
  <2>1. P \in SUBSET (1 .. n)
    OBVIOUS
  <2>2. PICK m \in P : \A k \in 1 .. m - 1 : k \notin P
    BY <1>1, <1>2, <2>1, LeastFailure
  <2>3. m \in 1 .. n
    OBVIOUS
  <2>4. ASSUME m = 1 PROVE FALSE
    <3> DEFINE g == [i \in 1 .. 1 |-> ss[i]]
    <3>1. g \in [1 .. m -> Seq(S)] /\ Upto(g, m)
      BY <1>1, <2>3, <2>4
    <3>2. QED
      BY <3>1
  <2>5. ASSUME m # 1 PROVE FALSE
    <3>1. m - 1 \in 1 .. n /\ m - 1 \in 1 .. m - 1
      BY <1>1, <2>3, <2>5
    <3>2. PICK f \in [1 .. m - 1 -> Seq(S)] : Upto(f, m - 1)
      BY <2>2, <3>1
    <3>3. f[m - 1] \o ss[m] \in Seq(S)
      BY <1>1, <2>3, <3>1, <3>2, ConcatProperties
    <3> DEFINE g == [x \in 1 .. m |-> IF x = m THEN f[m - 1] \o ss[m] ELSE f[x]]
    <3>4. g \in [1 .. m -> Seq(S)]
      BY <2>3, <3>1, <3>2, <3>3
    <3>5. ASSUME NEW i \in 1 .. m
          PROVE  g[i] = IF i = 1 THEN ss[i] ELSE g[i - 1] \o ss[i]
      <4>1. CASE i = m
        <5>1. m - 1 # m /\ m - 1 \in 1 .. m
          BY <2>3, <3>1
        <5>2. g[m] = f[m - 1] \o ss[m] /\ g[m - 1] = f[m - 1]
          <6> DEFINE e == f[m - 1] \o ss[m]
          <6>1. g = [x \in 1 .. m |-> IF x = m THEN e ELSE f[x]]
            OBVIOUS
          <6>2. m \in 1 .. m
            BY <2>3
          <6> HIDE DEF e, g
          <6>3. QED
            BY <5>1, <6>1, <6>2 DEF e
        <5>3. QED
          BY <2>5, <4>1, <5>2
      <4>2. CASE i # m
        <5>1. i \in 1 .. m - 1 /\ (i # 1 => i - 1 \in 1 .. m /\ i - 1 # m)
          BY <2>3, <4>2
        <5>2. g[i] = f[i] /\ (i # 1 => g[i - 1] = f[i - 1])
          BY <4>2, <5>1
        <5>3. QED
          BY <3>2, <5>1, <5>2
      <4>3. QED
        BY <4>1, <4>2
    <3> HIDE DEF g
    <3>6. Upto(g, m)
      BY <3>4, <3>5
    <3>7. QED
      BY <3>4, <3>6
  <2>6. QED
    BY <2>4, <2>5
<1>3. CASE n = 0
  <2>1. Joins(<<>>, ss)
    BY <1>3 DEF Joins
  <2>2. QED
    BY <2>1
<1>4. CASE n # 0
  <2>1. n \in 1 .. n
    BY <1>1, <1>4
  <2>2. PICK f \in [1 .. n -> Seq(S)] : Upto(f, n)
    BY <1>2, <2>1
  <2>3. f = [i \in 1 .. n |-> IF i = 1 THEN ss[i] ELSE f[i - 1] \o ss[i]]
    BY <2>2
  <2>4. QED
    BY <2>3 DEF Joins
<1>5. QED
  BY <1>3, <1>4

(* FlattenSeq is the last of the joins, and a sequence of what the texts   *)
(* are made of.                                                            *)
LEMMA FlattenJoins ==
    ASSUME NEW S, NEW ss \in Seq(Seq(S))
    PROVE  /\ FlattenSeq(ss) \in Seq(S)
           /\ ss # <<>> => \E f : Joins(f, ss) /\ FlattenSeq(ss) = f[Len(ss)]
<1> DEFINE flatten == CHOOSE f : Joins(f, ss)
<1>1. Joins(flatten, ss)
  BY JoinsExist
<1>2. FlattenSeq(ss) = IF Len(ss) = 0 THEN ss ELSE flatten[Len(ss)]
  BY DEF FlattenSeq, Joins
<1> HIDE DEF flatten
<1>3. flatten \in [1 .. Len(ss) -> Seq(S)]
  BY <1>1, JoinsTyped
<1>4. Len(ss) \in Nat /\ (Len(ss) = 0 <=> ss = <<>>)
  BY EmptySeq
<1>5. CASE ss = <<>>
  BY <1>2, <1>4, <1>5
<1>6. CASE ss # <<>>
  <2>1. Len(ss) \in 1 .. Len(ss)
    BY <1>4, <1>6
  <2>2. FlattenSeq(ss) = flatten[Len(ss)]
    BY <1>2, <1>4, <1>6
  <2>3. QED
    BY <1>1, <1>3, <2>1, <2>2
<1>7. QED
  BY <1>5, <1>6

(* A list after another.                                                   *)
LEMMA JoinedLists ==
    ASSUME NEW T, NEW a \in Seq(T), NEW b \in Seq(T)
    PROVE  /\ a \o b \in Seq(T) /\ Len(a \o b) = Len(a) + Len(b)
           /\ \A i \in 1 .. Len(a) : (a \o b)[i] = a[i]
           /\ \A i \in 1 .. Len(b) : (a \o b)[Len(a) + i] = b[i]
           /\ \A i \in DOMAIN (a \o b) :
                 \/ i \in 1 .. Len(a) /\ (a \o b)[i] = a[i]
                 \/ i - Len(a) \in 1 .. Len(b) /\ (a \o b)[i] = b[i - Len(a)]
<1>1. Len(a) \in Nat /\ Len(b) \in Nat
  OBVIOUS
<1>2. /\ a \o b \in Seq(T) /\ Len(a \o b) = Len(a) + Len(b)
      /\ \A i \in 1 .. Len(a) + Len(b) :
            (a \o b)[i] = IF i <= Len(a) THEN a[i] ELSE b[i - Len(a)]
  OBVIOUS
<1>3. DOMAIN (a \o b) = 1 .. Len(a) + Len(b)
  BY <1>2
<1> DEFINE c == a \o b
<1> HIDE DEF c
<1>4. \A i \in 1 .. Len(a) : c[i] = a[i]
  BY <1>1, <1>2 DEF c
<1>5. ASSUME NEW i \in 1 .. Len(b) PROVE c[Len(a) + i] = b[i]
  <2>1. Len(a) + i \in 1 .. Len(a) + Len(b) /\ ~(Len(a) + i <= Len(a)) /\ Len(a) + i - Len(a) = i
    BY <1>1
  <2>2. QED
    BY <1>2, <2>1 DEF c
<1>6. ASSUME NEW i \in DOMAIN c
      PROVE  \/ i \in 1 .. Len(a) /\ c[i] = a[i]
             \/ i - Len(a) \in 1 .. Len(b) /\ c[i] = b[i - Len(a)]
  <2>1. i \in 1 .. Len(a) + Len(b) /\ c[i] = IF i <= Len(a) THEN a[i] ELSE b[i - Len(a)]
    BY <1>2, <1>3 DEF c
  <2>2. QED
    BY <1>1, <2>1
<1>7. QED
  BY <1>2, <1>4, <1>5, <1>6 DEF c

-----------------------------------------------------------------------------
(* Lists of places in the document.                                        *)

(* A list that goes up; the members of D may come twice in a row.          *)
Climbs(s, D) ==
    \A i, j \in DOMAIN s : i < j => s[i] < s[j] \/ (s[i] = s[j] /\ s[i] \in D /\ j = i + 1)

Below(A, B) == \A x \in A, y \in B : x < y

LEMMA AscendsClimbs == \A s : Ascends(s) <=> Climbs(s, {})
BY DEF Ascends, Climbs

(* A list after a list that is below it.                                   *)
LEMMA ClimbOn ==
    ASSUME NEW D, NEW a \in Seq(Int), NEW b \in Seq(Int)
    PROVE  /\ a \o b \in Seq(Int) /\ ToSet(a \o b) = ToSet(a) \cup ToSet(b)
           /\ Climbs(a, D) /\ Climbs(b, D) /\ Below(ToSet(a), ToSet(b)) => Climbs(a \o b, D)
<1> DEFINE c == a \o b
<1>1. /\ c \in Seq(Int) /\ Len(c) = Len(a) + Len(b)
      /\ \A i \in 1 .. Len(a) : c[i] = a[i]
      /\ \A i \in 1 .. Len(b) : c[Len(a) + i] = b[i]
      /\ \A i \in DOMAIN c :
            \/ i \in 1 .. Len(a) /\ c[i] = a[i]
            \/ i - Len(a) \in 1 .. Len(b) /\ c[i] = b[i - Len(a)]
  BY JoinedLists
<1>2. /\ Len(a) \in Nat /\ Len(b) \in Nat
      /\ DOMAIN a = 1 .. Len(a) /\ DOMAIN b = 1 .. Len(b)
  OBVIOUS
<1>3. DOMAIN c = 1 .. Len(a) + Len(b)
  BY <1>1
<1> HIDE DEF c
<1>4. ToSet(c) = ToSet(a) \cup ToSet(b)
  <2>1. ASSUME NEW i \in DOMAIN c PROVE c[i] \in ToSet(a) \cup ToSet(b)
    BY <1>1, <1>2 DEF ToSet
  <2>2. ASSUME NEW i \in DOMAIN a PROVE a[i] \in ToSet(c)
    <3>1. i \in DOMAIN c /\ c[i] = a[i]
      BY <1>1, <1>2, <1>3
    <3> QED BY <3>1 DEF ToSet
  <2>3. ASSUME NEW i \in DOMAIN b PROVE b[i] \in ToSet(c)
    <3>1. Len(a) + i \in DOMAIN c /\ c[Len(a) + i] = b[i]
      BY <1>1, <1>2, <1>3, SMTT(30)
    <3> QED BY <3>1 DEF ToSet
  <2> QED BY <2>1, <2>2, <2>3 DEF ToSet
<1>5. ASSUME Climbs(a, D), Climbs(b, D), Below(ToSet(a), ToSet(b)),
             NEW i \in DOMAIN c, NEW j \in DOMAIN c, i < j
      PROVE  c[i] < c[j] \/ (c[i] = c[j] /\ c[i] \in D /\ j = i + 1)
  <2>1. CASE j \in 1 .. Len(a)
    <3>1. i \in 1 .. Len(a)
      BY <1>2, <1>3, <1>5, <2>1
    <3> QED BY <1>1, <1>2, <1>5, <2>1, <3>1 DEF Climbs
  <2>2. CASE j - Len(a) \in 1 .. Len(b) /\ i \in 1 .. Len(a)
    <3>1. c[i] = a[i] /\ c[j] = b[j - Len(a)]
      <4>1. j \notin 1 .. Len(a)
        BY <1>2, <2>2
      <4> QED BY <1>1, <2>2, <4>1
    <3>2. a[i] \in ToSet(a) /\ b[j - Len(a)] \in ToSet(b)
      BY <1>2, <2>2 DEF ToSet
    <3> QED BY <1>5, <3>1, <3>2 DEF Below
  <2>3. CASE j - Len(a) \in 1 .. Len(b) /\ i - Len(a) \in 1 .. Len(b)
    <3>1. c[i] = b[i - Len(a)] /\ c[j] = b[j - Len(a)]
      <4>1. j \notin 1 .. Len(a) /\ i \notin 1 .. Len(a)
        BY <1>2, <2>3
      <4> QED BY <1>1, <2>3, <4>1
    <3>2. /\ i - Len(a) < j - Len(a)
          /\ j - Len(a) = (i - Len(a)) + 1 => j = i + 1
      BY <1>2, <1>3, <1>5
    <3> QED BY <1>2, <1>5, <2>3, <3>1, <3>2 DEF Climbs
  <2> QED BY <1>1, <1>2, <1>3, <1>5, <2>1, <2>2, <2>3
<1>6. Climbs(a, D) /\ Climbs(b, D) /\ Below(ToSet(a), ToSet(b)) => Climbs(c, D)
  BY <1>5 DEF Climbs
<1> QED BY <1>1, <1>4, <1>6 DEF c

(* One more.                                                               *)
LEMMA ClimbOne ==
    ASSUME NEW D, NEW x \in Int
    PROVE  <<x>> \in Seq(Int) /\ ToSet(<<x>>) = {x} /\ Climbs(<<x>>, D)
<1>1. <<x>> \in Seq(Int) /\ DOMAIN <<x>> = {1} /\ <<x>>[1] = x
  OBVIOUS
<1> QED BY <1>1 DEF ToSet, Climbs

LEMMA ClimbNone == \A D : <<>> \in Seq(Int) /\ ToSet(<<>>) = {} /\ Climbs(<<>>, D)
<1>1. <<>> \in Seq(Int) /\ DOMAIN <<>> = {}
  OBVIOUS
<1> QED BY <1>1 DEF ToSet, Climbs

(* A set of places, in order.                                              *)
LEMMA AscendingAscends ==
    ASSUME NEW S \in SUBSET Int, IsFiniteSet(S)
    PROVE  Ascending(S) \in Seq(Int) /\ ToSet(Ascending(S)) = S /\ Climbs(Ascending(S), {})
<1> DEFINE s == Ascending(S)
           n == Cardinality(S)
<1>1. /\ n \in Nat /\ s \in [1 .. n -> S]
      /\ \A i \in S : \E k \in 1 .. n : s[k] = i
      /\ \A j, k \in 1 .. n : j < k => s[j] < s[k]
  BY AscendingLists
<1> HIDE DEF s, n
<1>2. s \in Seq(Int) /\ DOMAIN s = 1 .. n
  <2>1. DOMAIN s = 1 .. n /\ \A k \in 1 .. n : s[k] \in Int
    BY <1>1
  <2>2. s = [k \in 1 .. n |-> s[k]]
    BY <1>1
  <2>3. s \in [1 .. n -> Int]
    BY <2>1, <2>2
  <2> QED BY <1>1, <2>1, <2>3
<1>3. ToSet(s) = S
  BY <1>1, <1>2 DEF ToSet
<1> QED BY <1>1, <1>2, <1>3 DEF Climbs, s

-----------------------------------------------------------------------------
(* FlattenSeq.                                                             *)

LEMMA FlattenNone == FlattenSeq(<<>>) = <<>>
BY DEF FlattenSeq

(* One more list.                                                          *)
LEMMA Longer ==
    ASSUME NEW T, NEW s \in Seq(T), NEW x \in T
    PROVE  /\ Append(s, x) \in Seq(T) /\ Len(Append(s, x)) = Len(s) + 1 /\ Append(s, x) # <<>>
           /\ Append(s, x)[Len(s) + 1] = x /\ \A i \in 1 .. Len(s) : Append(s, x)[i] = s[i]
  OBVIOUS

LEMMA FlattenOn ==
    ASSUME NEW T, NEW ss \in Seq(Seq(T)), NEW x \in Seq(T)
    PROVE  FlattenSeq(Append(ss, x)) = FlattenSeq(ss) \o x
<1> DEFINE n == Len(ss)
           after == Append(ss, x)
<1>1. /\ n \in Nat /\ after \in Seq(Seq(T)) /\ Len(after) = n + 1 /\ after # <<>>
      /\ after[n + 1] = x /\ \A i \in 1 .. n : after[i] = ss[i]
  <2> DEFINE S == Seq(T)
  <2>1. ss \in Seq(S) /\ x \in S
    OBVIOUS
  <2> HIDE DEF S
  <2>2. /\ after \in Seq(S) /\ Len(after) = n + 1 /\ after # <<>>
        /\ after[n + 1] = x /\ \A i \in 1 .. n : after[i] = ss[i]
    BY <2>1, Longer
  <2>3. n \in Nat
    BY <2>1
  <2> QED BY <2>2, <2>3 DEF S
<1>2. PICK g : Joins(g, after) /\ FlattenSeq(after) = g[Len(after)]
  BY <1>1, FlattenJoins
<1> HIDE DEF after
<1>3. \A i \in 1 .. n + 1 : g[i] = IF i = 1 THEN after[i] ELSE g[i - 1] \o after[i]
  BY <1>1, <1>2 DEF Joins
<1>4. CASE n = 0
  <2>1. g[1] = x
    BY <1>1, <1>3, <1>4
  <2>2. ss = <<>> /\ FlattenSeq(ss) = <<>>
    BY <1>4, FlattenNone
  <2>3. <<>> \o x = x
    OBVIOUS
  <2> QED BY <1>1, <1>2, <1>4, <2>1, <2>2, <2>3 DEF after
<1>5. CASE n # 0
  <2>1. PICK f : Joins(f, ss) /\ FlattenSeq(ss) = f[n]
    BY <1>5, FlattenJoins
  <2>2. \A i \in 1 .. n : f[i] = IF i = 1 THEN ss[i] ELSE f[i - 1] \o ss[i]
    BY <2>1 DEF Joins
  <2> HIDE DEF n
  <2> DEFINE P == {i \in 1 .. n : f[i] # g[i]}
  <2>3. ASSUME P # {} PROVE FALSE
    <3>1. P \in SUBSET (1 .. n)
      OBVIOUS
    <3>2. PICK m \in P : \A k \in 1 .. m - 1 : k \notin P
      BY <1>1, <2>3, <3>1, LeastFailure
    <3>3. m \in 1 .. n /\ f[m] # g[m] /\ m \in 1 .. n + 1
      BY <1>1
    <3>4. CASE m = 1
      BY <1>1, <1>3, <2>2, <3>3, <3>4
    <3>5. CASE m # 1
      <4>1. m - 1 \in 1 .. n /\ m - 1 \in 1 .. m - 1
        BY <1>1, <3>3, <3>5
      <4>2. f[m - 1] = g[m - 1]
        BY <3>2, <4>1
      <4> QED BY <1>1, <1>3, <2>2, <3>3, <3>5, <4>2
    <3> QED BY <3>4, <3>5
  <2>4. n \in 1 .. n /\ n + 1 \in 1 .. n + 1 /\ n + 1 # 1 /\ (n + 1) - 1 = n
    BY <1>1, <1>5 DEF n
  <2>5. f[n] = g[n]
    BY <2>3, <2>4
  <2>6. g[n + 1] = g[n] \o x
    BY <1>1, <1>3, <2>4
  <2> QED BY <1>1, <1>2, <2>1, <2>5, <2>6 DEF after
<1> QED BY <1>4, <1>5

(* Lists that climb, each above the one before.                            *)
LEMMA FlattenClimbs ==
    ASSUME NEW ss \in Seq(Seq(Int)),
           \A i \in DOMAIN ss : Climbs(ss[i], {}),
           \A i, j \in DOMAIN ss : i < j => Below(ToSet(ss[i]), ToSet(ss[j]))
    PROVE  /\ FlattenSeq(ss) \in Seq(Int)
           /\ ToSet(FlattenSeq(ss)) = UNION {ToSet(ss[i]) : i \in DOMAIN ss}
           /\ Climbs(FlattenSeq(ss), {})
<1> DEFINE n == Len(ss)
<1>1. n \in Nat /\ DOMAIN ss = 1 .. n /\ \A i \in 1 .. n : ss[i] \in Seq(Int)
  OBVIOUS
<1>2. CASE ss = <<>>
  <2>1. DOMAIN ss = {}
    BY <1>2
  <2> QED BY <1>2, <2>1, FlattenNone, ClimbNone
<1>3. CASE ss # <<>>
  <2>1. PICK f : Joins(f, ss) /\ FlattenSeq(ss) = f[n]
    BY <1>3, FlattenJoins
  <2>2. f \in [1 .. n -> Seq(Int)]
    BY <2>1, JoinsTyped
  <2>3. \A i \in 1 .. n : f[i] = IF i = 1 THEN ss[i] ELSE f[i - 1] \o ss[i]
    BY <2>1 DEF Joins
  <2>4. n \in 1 .. n
    BY <1>3
  <2> HIDE DEF n
  <2> DEFINE Good(m) == /\ ToSet(f[m]) = UNION {ToSet(ss[i]) : i \in 1 .. m}
                        /\ Climbs(f[m], {})
             P == {m \in 1 .. n : ~Good(m)}
  <2>5. ASSUME P # {} PROVE FALSE
    <3>1. P \in SUBSET (1 .. n)
      OBVIOUS
    <3>2. PICK m \in P : \A k \in 1 .. m - 1 : k \notin P
      <4> HIDE DEF P
      <4> QED BY ONLY <1>1, <2>5, <3>1, LeastFailure
    <3>3. m \in 1 .. n /\ ~Good(m)
      OBVIOUS
    <3>4. CASE m = 1
      <4>1. 1 .. m = {1} /\ 1 \in 1 .. n
        BY ONLY <3>3, <3>4
      <4>2. f[m] = ss[1]
        BY ONLY <2>3, <3>4, <4>1
      <4> QED BY <1>1, <3>3, <4>1, <4>2
    <3>5. CASE m # 1
      <4>1. m - 1 \in 1 .. n /\ m - 1 \in 1 .. m - 1 /\ m \in Int
        BY <1>1, <3>3, <3>5
      <4>2. Good(m - 1)
        BY <3>2, <4>1
      <4>3. f[m] = f[m - 1] \o ss[m] /\ f[m - 1] \in Seq(Int) /\ ss[m] \in Seq(Int)
        BY <1>1, <2>2, <2>3, <3>3, <3>5, <4>1
      <4>4. Below(ToSet(f[m - 1]), ToSet(ss[m]))
        <5> SUFFICES ASSUME NEW x \in ToSet(f[m - 1]), NEW y \in ToSet(ss[m]) PROVE x < y
          BY DEF Below
        <5>1. PICK i \in 1 .. m - 1 : x \in ToSet(ss[i])
          BY <4>2
        <5>2. i \in 1 .. n /\ i < m
          BY <1>1, <3>3, <5>1
        <5> QED BY <1>1, <3>3, <5>1, <5>2 DEF Below
      <4>5. /\ ToSet(f[m]) = ToSet(f[m - 1]) \cup ToSet(ss[m])
            /\ Climbs(f[m], {})
        <5>1. Climbs(f[m - 1], {}) /\ Climbs(ss[m], {})
          BY <1>1, <3>3, <4>2
        <5> HIDE DEF Good, P
        <5> QED BY <4>3, <4>4, <5>1, ClimbOn
      <4>6. 1 .. m = (1 .. m - 1) \cup {m}
        BY <4>1, <3>3, <1>1
      <4>7. ToSet(f[m]) = UNION {ToSet(ss[i]) : i \in 1 .. m}
        BY <4>2, <4>5, <4>6
      <4> QED BY <3>3, <4>5, <4>7
    <3> QED BY <3>4, <3>5
  <2>6. Good(n)
    BY <2>4, <2>5
  <2> QED BY <1>1, <2>1, <2>2, <2>4, <2>6
<1> QED BY <1>2, <1>3

-----------------------------------------------------------------------------
(* Lists of lists: what holds of all the pairs of their members.           *)

(* Of two members of the list the earlier one is paired with the later.    *)
Pairwise(s, Q) == \A i, j \in DOMAIN s : i < j => <<s[i], s[j]>> \in Q

(* Each member of A with each of B.                                        *)
Across(A, B, Q) == \A x \in A, y \in B : <<x, y>> \in Q

LEMMA PairsOn ==
    ASSUME NEW T, NEW Q, NEW a \in Seq(T), NEW b \in Seq(T), Pairwise(a, Q), Pairwise(b, Q),
           Across(ToSet(a), ToSet(b), Q)
    PROVE  /\ a \o b \in Seq(T)
           /\ ToSet(a \o b) = ToSet(a) \cup ToSet(b)
           /\ Pairwise(a \o b, Q)
<1>1. Len(a) \in Nat /\ Len(b) \in Nat /\ DOMAIN a = 1 .. Len(a) /\ DOMAIN b = 1 .. Len(b)
  OBVIOUS
<1> DEFINE c == a \o b
<1>2. /\ c \in Seq(T) /\ DOMAIN c = 1 .. Len(a) + Len(b)
      /\ \A i \in 1 .. Len(a) : c[i] = a[i]
      /\ \A i \in 1 .. Len(b) : c[Len(a) + i] = b[i]
      /\ \A i \in DOMAIN c :
                 \/ i \in 1 .. Len(a) /\ c[i] = a[i]
                 \/ i - Len(a) \in 1 .. Len(b) /\ c[i] = b[i - Len(a)]
  <2>1. DOMAIN c = 1 .. Len(c)
    BY JoinedLists
  <2> QED BY <2>1, JoinedLists
<1> HIDE DEF c
<1>3. ToSet(c) \subseteq ToSet(a) \cup ToSet(b)
  BY <1>1, <1>2 DEF ToSet
<1>4. ToSet(a) \subseteq ToSet(c)
  BY <1>1, <1>2 DEF ToSet
<1>5. ToSet(b) \subseteq ToSet(c)
  <2> SUFFICES ASSUME NEW i \in 1 .. Len(b) PROVE b[i] \in ToSet(c)
    BY <1>1 DEF ToSet
  <2>1. Len(a) + i \in DOMAIN c
    BY <1>1, <1>2
  <2> QED BY <1>2, <2>1 DEF ToSet
<1>6. ASSUME NEW i \in DOMAIN c, NEW j \in DOMAIN c, i < j
      PROVE  <<c[i], c[j]>> \in Q
  <2>1. CASE i \in 1 .. Len(a) /\ c[i] = a[i] /\ j \in 1 .. Len(a) /\ c[j] = a[j]
    BY <1>1, <1>6, <2>1 DEF Pairwise
  <2>2. CASE /\ i \in 1 .. Len(a) /\ c[i] = a[i]
             /\ j - Len(a) \in 1 .. Len(b) /\ c[j] = b[j - Len(a)]
    <3>1. c[i] \in ToSet(a) /\ c[j] \in ToSet(b)
      BY <1>1, <2>2 DEF ToSet
    <3> QED BY <3>1 DEF Across
  <2>3. CASE /\ i - Len(a) \in 1 .. Len(b) /\ c[i] = b[i - Len(a)]
             /\ j - Len(a) \in 1 .. Len(b) /\ c[j] = b[j - Len(a)]
    <3>1. i - Len(a) < j - Len(a)
      BY <1>1, <1>2, <1>6
    <3> QED BY <1>1, <2>3, <3>1 DEF Pairwise
  <2>4. CASE i - Len(a) \in 1 .. Len(b) /\ j \in 1 .. Len(a)
    BY <1>1, <1>2, <1>6, <2>4
  <2> QED BY <1>2, <2>1, <2>2, <2>3, <2>4
<1> QED BY <1>2, <1>3, <1>4, <1>5, <1>6 DEF c, Pairwise

(* A list of lists, each paired with the later ones.                       *)
LEMMA FlattenPairs ==
    ASSUME NEW T, NEW Q, NEW ss \in Seq(Seq(T)),
           \A i \in DOMAIN ss : Pairwise(ss[i], Q),
           \A i, j \in DOMAIN ss : i < j => Across(ToSet(ss[i]), ToSet(ss[j]), Q)
    PROVE  /\ FlattenSeq(ss) \in Seq(T)
           /\ ToSet(FlattenSeq(ss)) = UNION {ToSet(ss[i]) : i \in DOMAIN ss}
           /\ Pairwise(FlattenSeq(ss), Q)
<1> DEFINE n == Len(ss)
           S == Seq(T)
<1>1. n \in Nat /\ DOMAIN ss = 1 .. n /\ \A i \in 1 .. n : ss[i] \in S
  <2>1. ss \in Seq(S)
    OBVIOUS
  <2> HIDE DEF S
  <2> QED BY <2>1
<1> HIDE DEF S
<1>2. CASE ss = <<>>
  <2>1. DOMAIN ss = {} /\ <<>> \in Seq(T) /\ ToSet(<<>>) = {} /\ Pairwise(<<>>, Q)
    BY <1>2 DEF ToSet, Pairwise
  <2> QED BY <1>2, <2>1, FlattenNone
<1>3. CASE ss # <<>>
  <2>1. PICK f : Joins(f, ss) /\ FlattenSeq(ss) = f[n]
    BY <1>3, FlattenJoins
  <2>2. f \in [1 .. n -> S]
    BY <2>1, JoinsTyped DEF S
  <2>3. \A i \in 1 .. n : f[i] = IF i = 1 THEN ss[i] ELSE f[i - 1] \o ss[i]
    BY <2>1 DEF Joins
  <2>4. n \in 1 .. n
    <3>1. ss \in Seq(S)
      BY DEF S
    <3> QED BY <1>1, <1>3, <3>1, EmptySeq
  <2> HIDE DEF n
  <2> DEFINE Good(m) == /\ ToSet(f[m]) = UNION {ToSet(ss[i]) : i \in 1 .. m}
                        /\ Pairwise(f[m], Q)
             P == {m \in 1 .. n : ~Good(m)}
  <2>5. ASSUME P # {} PROVE FALSE
    <3>1. P \in SUBSET (1 .. n)
      OBVIOUS
    <3>2. PICK m \in P : \A k \in 1 .. m - 1 : k \notin P
      <4> HIDE DEF P
      <4> QED BY ONLY <1>1, <2>5, <3>1, LeastFailure
    <3>3. m \in 1 .. n /\ ~Good(m)
      OBVIOUS
    <3>4. CASE m = 1
      <4>1. 1 .. m = {1} /\ 1 \in 1 .. n
        BY ONLY <3>3, <3>4
      <4>2. f[m] = ss[1]
        BY ONLY <2>3, <3>4, <4>1
      <4> QED BY <1>1, <3>3, <4>1, <4>2
    <3>5. CASE m # 1
      <4>1. m - 1 \in 1 .. n /\ m - 1 \in 1 .. m - 1 /\ m \in Int
        BY <1>1, <3>3, <3>5
      <4>2. Good(m - 1)
        BY <3>2, <4>1
      <4>3. f[m] = f[m - 1] \o ss[m] /\ f[m - 1] \in Seq(T) /\ ss[m] \in Seq(T)
        BY <1>1, <2>2, <2>3, <3>3, <3>5, <4>1 DEF S
      <4>4. Across(ToSet(f[m - 1]), ToSet(ss[m]), Q)
        <5> SUFFICES ASSUME NEW x \in ToSet(f[m - 1]), NEW y \in ToSet(ss[m])
                     PROVE  <<x, y>> \in Q
          BY DEF Across
        <5>1. PICK i \in 1 .. m - 1 : x \in ToSet(ss[i])
          BY <4>2
        <5>2. i \in 1 .. n /\ i < m
          BY <1>1, <3>3, <5>1
        <5> QED BY <1>1, <3>3, <5>1, <5>2 DEF Across
      <4>5. /\ ToSet(f[m]) = ToSet(f[m - 1]) \cup ToSet(ss[m])
            /\ Pairwise(f[m], Q)
        <5>1. Pairwise(f[m - 1], Q) /\ Pairwise(ss[m], Q)
          BY <1>1, <3>3, <4>2
        <5> HIDE DEF Good, P
        <5> QED BY <4>3, <4>4, <5>1, PairsOn
      <4>6. 1 .. m = (1 .. m - 1) \cup {m}
        BY <4>1, <3>3, <1>1
      <4>7. ToSet(f[m]) = UNION {ToSet(ss[i]) : i \in 1 .. m}
        BY <4>2, <4>5, <4>6
      <4> QED BY <3>3, <4>5, <4>7
    <3> QED BY <3>4, <3>5
  <2>6. Good(n)
    BY <2>4, <2>5
  <2> QED BY <1>1, <2>1, <2>2, <2>4, <2>6 DEF S
<1> QED BY <1>2, <1>3

(* The first of the lists comes first.                                     *)
LEMMA FlattenFirst ==
    ASSUME NEW T, NEW ss \in Seq(Seq(T)), NEW tt \in Seq(Seq(T)), Len(ss) = Len(tt) + 1,
           \A i \in 1 .. Len(tt) : tt[i] = ss[i + 1]
    PROVE  FlattenSeq(ss) = ss[1] \o FlattenSeq(tt)
<1> DEFINE n == Len(tt)
           S == Seq(T)
<1>1. /\ n \in Nat /\ \A i \in 1 .. n : tt[i] \in S
      /\ Len(ss) = n + 1 /\ \A i \in 1 .. n + 1 : ss[i] \in S
      /\ ss \in Seq(S) /\ tt \in Seq(S)
  <2>1. ss \in Seq(S) /\ tt \in Seq(S)
    OBVIOUS
  <2> HIDE DEF S
  <2> QED BY <2>1
<1> HIDE DEF S
<1>2. ss # <<>>
  BY <1>1
<1>3. PICK f : Joins(f, ss) /\ FlattenSeq(ss) = f[n + 1]
  BY <1>1, <1>2, FlattenJoins
<1>4. \A i \in 1 .. n + 1 : f[i] = IF i = 1 THEN ss[i] ELSE f[i - 1] \o ss[i]
  BY <1>1, <1>3 DEF Joins
<1>5. 1 \in 1 .. n + 1 /\ f[1] = ss[1]
  BY <1>1, <1>4
<1>6. CASE n = 0
  <2>1. tt = <<>> /\ FlattenSeq(tt) = <<>>
    BY <1>1, <1>6, FlattenNone
  <2>2. ss[1] \o <<>> = ss[1]
    BY <1>1, <1>5 DEF S
  <2> QED BY <1>3, <1>5, <1>6, <2>1, <2>2
<1>7. CASE n # 0
  <2>1. tt # <<>>
    BY <1>1, <1>7
  <2>2. PICK g : Joins(g, tt) /\ FlattenSeq(tt) = g[n]
    BY <2>1, FlattenJoins
  <2>3. \A i \in 1 .. n : g[i] = IF i = 1 THEN tt[i] ELSE g[i - 1] \o tt[i]
    BY <2>2 DEF Joins
  <2>4. g \in [1 .. n -> S]
    BY <2>2, JoinsTyped DEF S
  <2> HIDE DEF n
  <2> DEFINE P == {m \in 1 .. n : f[m + 1] # ss[1] \o g[m]}
  <2>5. ASSUME P # {} PROVE FALSE
    <3>1. P \in SUBSET (1 .. n)
      OBVIOUS
    <3>2. PICK m \in P : \A k \in 1 .. m - 1 : k \notin P
      <4> HIDE DEF P
      <4> QED BY ONLY <1>1, <2>5, <3>1, LeastFailure
    <3>3. m \in 1 .. n /\ f[m + 1] # ss[1] \o g[m]
      OBVIOUS
    <3>4. m + 1 \in 1 .. n + 1 /\ m + 1 # 1 /\ (m + 1) - 1 = m
      BY <1>1, <3>3
    <3>5. f[m + 1] = f[m] \o ss[m + 1] /\ ss[m + 1] = tt[m]
      BY <1>1, <1>4, <3>3, <3>4 DEF n
    <3>6. CASE m = 1
      BY <1>5, <2>3, <3>3, <3>5, <3>6
    <3>7. CASE m # 1
      <4>1. m - 1 \in 1 .. n /\ m - 1 \in 1 .. m - 1 /\ (m - 1) + 1 = m
        BY <1>1, <3>3, <3>7
      <4>2. f[m] = ss[1] \o g[m - 1]
        BY <3>2, <4>1
      <4>3. g[m] = g[m - 1] \o tt[m]
        BY <2>3, <3>3, <3>7
      <4>4. (ss[1] \o g[m - 1]) \o tt[m] = ss[1] \o (g[m - 1] \o tt[m])
        <5>1. ss[1] \in Seq(T) /\ g[m - 1] \in Seq(T) /\ tt[m] \in Seq(T)
          BY <1>1, <1>5, <2>4, <3>3, <4>1 DEF S
        <5>2. PICK a \in Seq(T), b \in Seq(T), c \in Seq(T) :
                  a = ss[1] /\ b = g[m - 1] /\ c = tt[m]
          BY <5>1
        <5>3. (a \o b) \o c = a \o (b \o c)
          BY ONLY a \in Seq(T), b \in Seq(T), c \in Seq(T), SMTT(60)
        <5> QED BY <5>2, <5>3
      <4> QED BY <3>3, <3>5, <4>2, <4>3, <4>4
    <3> QED BY <3>6, <3>7
  <2>6. n \in 1 .. n
    BY <1>1, <1>7
  <2>7. f[n + 1] = ss[1] \o g[n]
    BY <2>5, <2>6
  <2> QED BY <1>3, <2>2, <2>7
<1> QED BY <1>6, <1>7

-----------------------------------------------------------------------------
(* Trees of nodes.                                                         *)

NodeCount(d) == Len(d.tag)
Upto(d) == 1 .. NodeCount(d)

LEMMA TreeIs ==
    ASSUME NEW d, IsTree(d)
    PROVE  /\ NodeCount(d) \in Nat /\ DOMAIN d.tag = Upto(d) /\ DOMAIN d.parent = Upto(d)
           /\ \A k \in Upto(d) :
                 /\ d.parent[k] \in Nat /\ d.parent[k] < k
                 /\ d.parent[k] = 0 \/ d.parent[k] \in Upto(d)
                 /\ \A j \in d.parent[k] + 1 .. k - 1 : d.parent[j] >= d.parent[k]
                 /\ TagOf(d, d.parent[k]) \notin Strings \cup {"br"}
<1>1. d.parent \in Seq(Nat) /\ Len(d.parent) = Len(d.tag)
  BY DEF IsTree
<1>2. \E T : d.tag \in Seq(T)
  BY DEF IsTree
<1>3. NodeCount(d) \in Nat /\ DOMAIN d.tag = Upto(d) /\ DOMAIN d.parent = Upto(d)
  BY <1>1, <1>2 DEF NodeCount, Upto
<1>4. \A k \in Upto(d) : d.parent[k] \in Nat
  BY <1>1, <1>3 DEF Upto, NodeCount
<1>5. \A k \in Upto(d) : d.parent[k] < k
  BY <1>3 DEF IsTree
<1>6. \A k \in Upto(d) : d.parent[k] = 0 \/ d.parent[k] \in Upto(d)
  BY <1>3, <1>4, <1>5 DEF Upto
<1> QED BY <1>3, <1>4, <1>5, <1>6 DEF IsTree

LEMMA UnderTrans ==
    ASSUME NEW d, IsTree(d), NEW a \in Nat, NEW b \in Nat, NEW c \in Upto(d),
           Under(d, a, b), Under(d, b, c)
    PROVE  Under(d, a, c)
<1>1. a < b /\ b < c
  BY DEF Under
<1>2. c \in Nat /\ \A j \in a + 1 .. c : j \in Upto(d)
  BY TreeIs DEF Upto
<1>3. \A j \in Upto(d) : d.parent[j] \in Nat
  BY TreeIs
<1>4. ASSUME NEW j \in a + 1 .. c PROVE d.parent[j] >= a
  <2>1. CASE j <= b
    BY <1>2, <2>1 DEF Under
  <2>2. CASE ~(j <= b)
    <3>1. j \in b + 1 .. c
      BY <1>2, <2>2
    <3>2. d.parent[j] >= b
      BY <3>1 DEF Under
    <3> QED BY <1>1, <1>2, <1>3, <3>2
  <2> QED BY <2>1, <2>2
<1>5. a < c
  BY <1>1, <1>2
<1> QED BY <1>4, <1>5 DEF Under

(* Of two nodes over a third, the earlier is over the later.               *)
LEMMA UnderComparable ==
    ASSUME NEW d, NEW a \in Nat, NEW b \in Nat, NEW i \in Nat,
           Under(d, a, i), Under(d, b, i), a < b
    PROVE  Under(d, a, b)
<1>1. b < i
  BY DEF Under
<1>2. \A j \in a + 1 .. b : j \in a + 1 .. i
  BY <1>1
<1> QED BY <1>2 DEF Under

(* What is under a node comes before a later node that is not.             *)
LEMMA UnderApart ==
    ASSUME NEW d, NEW a \in Nat, NEW b \in Nat, NEW i \in Nat,
           a < b, ~Under(d, a, b), Under(d, a, i)
    PROVE  i < b
<1>1. ASSUME i >= b PROVE FALSE
  <2>1. \A j \in a + 1 .. b : j \in a + 1 .. i
    BY <1>1
  <2> QED BY <2>1 DEF Under
<1> QED BY <1>1

(* A node is under its parent.                                             *)
LEMMA ChildUnder ==
    ASSUME NEW d, IsTree(d), NEW k \in Upto(d)
    PROVE  Under(d, d.parent[k], k)
<1>1. /\ d.parent[k] \in Nat /\ d.parent[k] < k
      /\ \A j \in d.parent[k] + 1 .. k - 1 : d.parent[j] >= d.parent[k]
  BY TreeIs
<1>2. k \in Nat
  BY TreeIs DEF Upto
<1>3. \A j \in d.parent[k] + 1 .. k : j = k \/ j \in d.parent[k] + 1 .. k - 1
  BY <1>1, <1>2
<1> QED BY <1>1, <1>3 DEF Under

(* What is over a node is its parent, or over its parent.                  *)
LEMMA OverParent ==
    ASSUME NEW d, IsTree(d), NEW a \in Nat, NEW k \in Upto(d), Under(d, a, k)
    PROVE  a <= d.parent[k] /\ (a = d.parent[k] \/ Under(d, a, d.parent[k]))
<1>1. a < k /\ k \in Nat /\ d.parent[k] \in Nat /\ d.parent[k] < k
  BY TreeIs DEF Under, Upto
<1>2. d.parent[k] >= a
  BY <1>1 DEF Under
<1>3. ASSUME a # d.parent[k] PROVE Under(d, a, d.parent[k])
  <2>1. a < d.parent[k]
    BY <1>1, <1>2, <1>3
  <2>2. \A j \in a + 1 .. d.parent[k] : j \in a + 1 .. k
    BY <1>1
  <2> QED BY <2>1, <2>2 DEF Under
<1> QED BY <1>1, <1>2, <1>3

(* What is under a node is a child of it, or under a child.                *)
LEMMA ThroughChild ==
    ASSUME NEW d, IsTree(d), NEW p \in Nat, NEW i \in Upto(d), Under(d, p, i)
    PROVE  \E c \in Upto(d) : d.parent[c] = p /\ (c = i \/ Under(d, c, i))
<1>1. p < i /\ i \in Nat /\ \A j \in p + 1 .. i : j \in Upto(d) /\ d.parent[j] >= p
  BY TreeIs DEF Under, Upto
<1> DEFINE S == {j \in p + 1 .. i : d.parent[j] = p}
<1>2. p + 1 \in S
  <2>1. p + 1 \in p + 1 .. i
    BY <1>1
  <2>2. d.parent[p + 1] \in Nat /\ d.parent[p + 1] < p + 1 /\ d.parent[p + 1] >= p
    BY <1>1, <2>1, TreeIs
  <2> QED BY <2>1, <2>2
<1>3. IsFiniteSet(S) /\ S \in SUBSET Int
  <2>1. p + 1 \in Int /\ i \in Int
    BY <1>1
  <2>2. IsFiniteSet(p + 1 .. i)
    BY <2>1, FS_Interval
  <2>3. IsFiniteSet(S)
    BY <2>2, FS_Subset
  <2> QED BY <2>3
<1>4. PICK c \in S : \A k \in S : k <= c
  BY <1>2, <1>3, Extremes
<1>5. c \in p + 1 .. i /\ d.parent[c] = p /\ c \in Upto(d) /\ c \in Nat
  BY <1>1, <1>4
<1>6. ASSUME NEW j \in c + 1 .. i PROVE d.parent[j] >= c
  <2>1. j \in p + 1 .. i /\ j \in Upto(d) /\ c < j /\ j \in Nat
    BY <1>1, <1>5, <1>6
  <2>2. d.parent[j] >= p /\ d.parent[j] \in Nat /\ d.parent[j] # p
    <3>1. j \notin S
      BY <1>4, <1>5, <2>1
    <3>2. d.parent[j] # p
      BY <2>1, <3>1
    <3> QED BY <1>1, <2>1, <3>2, TreeIs
  <2>3. ASSUME ~(d.parent[j] >= c) PROVE FALSE
    <3>1. c \in d.parent[j] + 1 .. j - 1
      BY <1>5, <2>1, <2>2, <2>3
    <3>2. d.parent[c] >= d.parent[j]
      BY <2>1, <3>1, TreeIs
    <3> QED BY <1>5, <2>2, <3>2
  <2> QED BY <2>3
<1>7. c = i \/ c < i
  BY <1>1, <1>5
<1>8. c = i \/ Under(d, c, i)
  BY <1>6, <1>7 DEF Under
<1> QED BY <1>5, <1>8

(* What is over a living node lives.                                       *)
LEMMA AliveUp ==
    ASSUME NEW d, IsTree(d), NEW c \in Upto(d), NEW i \in Nodes(d), Under(d, c, i)
    PROVE  c \in Nodes(d)
<1>1. i \in Upto(d) /\ DOMAIN d.tag = Upto(d) /\ Alive(d, i)
  BY TreeIs DEF Nodes
<1>2. ASSUME NEW j \in DOMAIN d.tag, d.tag[j] = "nav", j = c \/ Under(d, j, c) PROVE FALSE
  <2>1. j \in Nat /\ c \in Nat
    BY <1>1, TreeIs DEF Upto
  <2>2. Under(d, j, i)
    BY <1>1, <1>2, <2>1, UnderTrans
  <2> QED BY <1>1, <1>2, <2>2 DEF Alive
<1> QED BY <1>1, <1>2 DEF Nodes, Alive

LEMMA NodesAre ==
    ASSUME NEW d, IsTree(d)
    PROVE  /\ Nodes(d) \in SUBSET Int /\ IsFiniteSet(Nodes(d))
           /\ \A i \in Nodes(d) : i \in Upto(d) /\ i \in Nat /\ i > 0 /\ d.tag[i] # "nav"
<1>1. DOMAIN d.tag = Upto(d) /\ NodeCount(d) \in Nat
  BY TreeIs
<1>2. IsFiniteSet(Upto(d))
  <2>1. 1 \in Int /\ NodeCount(d) \in Int
    BY <1>1
  <2> QED BY <2>1, FS_Interval DEF Upto
<1>3. Nodes(d) \subseteq Upto(d)
  BY <1>1 DEF Nodes
<1>4. IsFiniteSet(Nodes(d))
  BY <1>2, <1>3, FS_Subset
<1>5. \A i \in Nodes(d) : d.tag[i] # "nav"
  BY DEF Nodes, Alive
<1>6. \A i \in Upto(d) : i \in Nat /\ i > 0
  BY <1>1 DEF Upto
<1> QED BY <1>3, <1>4, <1>5, <1>6

(* The nodes of some kinds, under a node or right under it, in order.      *)
LEMMA TaggedAre ==
    ASSUME NEW d, IsTree(d), NEW k, NEW T
    PROVE  /\ Tagged(d, k, T) \in SUBSET Int /\ IsFiniteSet(Tagged(d, k, T))
           /\ Tagged(d, k, T) \subseteq Nodes(d)
           /\ ChildrenTagged(d, k, T) \in SUBSET Int /\ IsFiniteSet(ChildrenTagged(d, k, T))
           /\ ChildrenTagged(d, k, T) \subseteq Nodes(d)
<1>1. Nodes(d) \in SUBSET Int /\ IsFiniteSet(Nodes(d))
  BY NodesAre
<1>2. Tagged(d, k, T) \subseteq Nodes(d) /\ ChildrenTagged(d, k, T) \subseteq Nodes(d)
  BY DEF Tagged, ChildrenTagged
<1> QED BY <1>1, <1>2, FS_Subset

LEMMA ChildrenAre ==
    ASSUME NEW d, IsTree(d), NEW k
    PROVE  /\ Children(d, k) \in Seq(Int) /\ Climbs(Children(d, k), {})
           /\ ToSet(Children(d, k)) = {i \in Nodes(d) : d.parent[i] = k}
<1> DEFINE S == {i \in Nodes(d) : d.parent[i] = k}
<1>1. Nodes(d) \in SUBSET Int /\ IsFiniteSet(Nodes(d)) /\ S \subseteq Nodes(d)
  BY NodesAre
<1>2. IsFiniteSet(S) /\ S \in SUBSET Int
  BY <1>1, FS_Subset
<1>3. Children(d, k) = Ascending(S)
  BY DEF Children
<1> HIDE DEF S
<1>4. Ascending(S) \in Seq(Int) /\ ToSet(Ascending(S)) = S /\ Climbs(Ascending(S), {})
  BY <1>2, AscendingAscends
<1> QED BY <1>3, <1>4 DEF S

LEMMA TextsAre ==
    ASSUME NEW d, IsTree(d), NEW k
    PROVE  /\ TextsOf(d, k) \in Seq(Int) /\ Climbs(TextsOf(d, k), {})
           /\ ToSet(TextsOf(d, k)) = Tagged(d, k, {"text"})
<1>1. Tagged(d, k, {"text"}) \in SUBSET Int /\ IsFiniteSet(Tagged(d, k, {"text"}))
  BY TaggedAre
<1> QED BY <1>1, AscendingAscends DEF TextsOf

-----------------------------------------------------------------------------
(* What the walk of a tree writes.                                         *)

(* Nothing stands in a text.                                               *)
LEMMA NothingUnderText ==
    ASSUME NEW d, IsTree(d), NEW k \in Upto(d), d.tag[k] \in Strings,
           NEW i \in Upto(d), Under(d, k, i)
    PROVE  FALSE
<1>1. k \in Nat /\ k # 0
  BY TreeIs DEF Upto
<1>2. PICK c \in Upto(d) : d.parent[c] = k
  BY <1>1, ThroughChild
<1>3. d.tag[k] \notin Strings
  BY <1>1, <1>2, TreeIs DEF TagOf
<1> QED BY <1>3

(* The content root is the body, or a living container.                    *)
LEMMA RootIs ==
    ASSUME NEW d, IsTree(d)
    PROVE  \/ ContentRoot(d) = 0
           \/ ContentRoot(d) \in Nodes(d) /\ d.tag[ContentRoot(d)] \in {"main", "article", "div"}
<1> DEFINE size(k) == Cardinality(Tagged(d, k, {"text"}))
           divs == Tagged(d, 0, {"div"})
           densest == {k \in divs : size(k) > 0 /\ \A j \in divs : size(j) <= size(k)}
<1>1. ASSUME NEW S \in SUBSET Nodes(d), S # {} PROVE Min(S) \in S
  <2>1. S \in SUBSET Int /\ IsFiniteSet(S)
    BY NodesAre, FS_Subset
  <2>2. \E m \in S : \A k \in S : m <= k
    BY <1>1, <2>1, Extremes
  <2> QED BY <2>2 DEF Min
<1>2. \A T : Tagged(d, 0, T) \subseteq Nodes(d) /\ \A i \in Tagged(d, 0, T) : d.tag[i] \in T
  BY DEF Tagged
<1>3. densest \subseteq divs /\ \A i \in densest : i \in divs
  OBVIOUS
<1>4. ContentRoot(d) =
        IF Tagged(d, 0, {"main"}) # {} THEN Min(Tagged(d, 0, {"main"}))
        ELSE IF Tagged(d, 0, {"article"}) # {} THEN Min(Tagged(d, 0, {"article"}))
        ELSE IF densest # {} THEN Min(densest)
        ELSE 0
  BY DEF ContentRoot
<1>5. densest \subseteq Nodes(d)
  BY <1>2
<1> HIDE DEF densest, size
<1>6. CASE Tagged(d, 0, {"main"}) # {}
  <2>1. Min(Tagged(d, 0, {"main"})) \in Tagged(d, 0, {"main"})
    BY <1>1, <1>2, <1>6
  <2> QED BY <1>2, <1>4, <1>6, <2>1
<1>7. CASE Tagged(d, 0, {"main"}) = {} /\ Tagged(d, 0, {"article"}) # {}
  <2>1. Min(Tagged(d, 0, {"article"})) \in Tagged(d, 0, {"article"})
    BY <1>1, <1>2, <1>7
  <2> QED BY <1>2, <1>4, <1>7, <2>1
<1>8. CASE Tagged(d, 0, {"main"}) = {} /\ Tagged(d, 0, {"article"}) = {} /\ densest # {}
  <2>1. Min(densest) \in densest
    BY <1>1, <1>5, <1>8
  <2>2. Min(densest) \in divs
    BY <1>3, <2>1
  <2> QED BY <1>2, <1>4, <1>8, <2>2
<1> QED BY <1>4, <1>6, <1>7, <1>8

(* A node that the walk comes to: a living node under the content root, in *)
(* no list and no table.                                                   *)
Reached(d, k) ==
    /\ k \in Nodes(d) /\ Under(d, ContentRoot(d), k)
    /\ \A g \in Grids(d) : ~Under(d, g, k)

(* A node and what is under it.                                            *)
In(d, k, i) == i = k \/ Under(d, k, i)

LEMMA RootNat == \A d : IsTree(d) => ContentRoot(d) \in Nat
BY RootIs, NodesAre

(* The walk comes to the children of the content root ...                  *)
LEMMA RootReaches ==
    ASSUME NEW d, IsTree(d), NEW c \in Nodes(d), d.parent[c] = ContentRoot(d)
    PROVE  Reached(d, c)
<1>1. c \in Upto(d) /\ ContentRoot(d) \in Nat
  BY NodesAre, RootNat
<1>2. Under(d, ContentRoot(d), c)
  BY <1>1, ChildUnder
<1>4. ASSUME NEW g \in Grids(d), Under(d, g, c) PROVE FALSE
  <2>1. g \in Nodes(d) /\ Under(d, ContentRoot(d), g)
    BY DEF Grids, Tagged
  <2>2. g \in Nat
    BY <2>1, NodesAre
  <2>3. g <= ContentRoot(d)
    BY <1>1, <1>4, <2>2, OverParent
  <2> QED BY <1>1, <2>1, <2>2, <2>3 DEF Under
<1> QED BY <1>2, <1>4 DEF Reached

(* ... and to those of what it walks through.                              *)
LEMMA WalkReaches ==
    ASSUME NEW d, IsTree(d), NEW k, Reached(d, k), WalksThrough(d, k),
           NEW c \in Nodes(d), d.parent[c] = k
    PROVE  Reached(d, c)
<1>1. c \in Upto(d) /\ ContentRoot(d) \in Nat /\ k \in Nodes(d) /\ k \in Nat /\ k # 0
  BY NodesAre, RootNat DEF Reached
<1>2. Under(d, k, c)
  BY <1>1, ChildUnder
<1>3. Under(d, ContentRoot(d), c)
  BY <1>1, <1>2, UnderTrans DEF Reached
<1>4. d.tag[k] \in {"div", "main", "article", "li", "tr", "td", "span"}
  BY DEF WalksThrough, Others
<1>6. ASSUME NEW g \in Grids(d), Under(d, g, c) PROVE FALSE
  <2>1. g \in Nodes(d) /\ d.tag[g] \in {"ul", "table"}
    BY DEF Grids, Tagged
  <2>2. g \in Nat
    BY <2>1, NodesAre
  <2>3. g = k \/ Under(d, g, k)
    BY <1>1, <1>6, <2>2, OverParent
  <2> QED BY <1>4, <2>1, <2>3 DEF Reached
<1> QED BY <1>3, <1>6 DEF Reached

(* What is under a node that lives, and is under the content root.         *)
LEMMA InReached ==
    ASSUME NEW d, IsTree(d), NEW k, Reached(d, k), NEW i \in Nodes(d), In(d, k, i)
    PROVE  Under(d, ContentRoot(d), i)
<1>1. i \in Upto(d) /\ k \in Nat /\ ContentRoot(d) \in Nat
  BY NodesAre, RootNat DEF Reached
<1> QED BY <1>1, UnderTrans DEF Reached, In

(* What is written for a node: all it has to say but the strays, and no    *)
(* more, in order but for what a table tangles.                            *)
Steps(d) == {p \in Int \X Int : p[1] < p[2] \/ Tangled(d, p[1], p[2])}

Allowed(d) == Texts(d) \cup Tagged(d, ContentRoot(d), {"comment"})

SaysAll(d, k, s) ==
    /\ s \in Seq(Int) /\ Pairwise(s, Steps(d))
    /\ \A x \in ToSet(s) : x \in Nodes(d) /\ In(d, k, x) /\ x \in Allowed(d)
    /\ \A x \in Texts(d) \ Strays(d) : In(d, k, x) => x \in ToSet(s)

LEMMA StepsAre ==
    ASSUME NEW d, NEW x \in Int, NEW y \in Int
    PROVE  <<x, y>> \in Steps(d) <=> x < y \/ Tangled(d, x, y)
BY DEF Steps

LEMMA ClimbsSteps ==
    ASSUME NEW d, NEW s \in Seq(Int), Climbs(s, {})
    PROVE  Pairwise(s, Steps(d))
<1> SUFFICES ASSUME NEW i \in DOMAIN s, NEW j \in DOMAIN s, i < j
             PROVE  <<s[i], s[j]>> \in Steps(d)
  BY DEF Pairwise
<1>1. s[i] \in Int /\ s[j] \in Int
  OBVIOUS
<1>2. s[i] < s[j]
  BY DEF Climbs
<1> QED BY <1>1, <1>2, StepsAre

LEMMA TextIs ==
    ASSUME NEW d, IsTree(d), NEW x \in Texts(d)
    PROVE  /\ x \in Nodes(d) /\ d.tag[x] = "text" /\ x \in Upto(d) /\ x \in Nat
           /\ Under(d, ContentRoot(d), x)
<1>1. x \in Nodes(d) /\ d.tag[x] = "text" /\ Under(d, ContentRoot(d), x)
  BY DEF Texts, Tagged
<1> QED BY <1>1, NodesAre

LEMMA AllowedAre ==
    ASSUME NEW d, IsTree(d), NEW x \in Allowed(d)
    PROVE  x \in Nodes(d) /\ x \in Nat
<1>1. x \in Nodes(d)
  BY DEF Allowed, Texts, Tagged
<1> QED BY <1>1, NodesAre

(* A text that the walk comes to is one of the content.                    *)
LEMMA IsText ==
    ASSUME NEW d, IsTree(d), NEW k, Reached(d, k), NEW i \in Nodes(d), In(d, k, i),
           d.tag[i] = "text"
    PROVE  i \in Allowed(d)
BY InReached DEF Tagged, Texts, Allowed

(* A string between blocks.                                                *)
LEMMA StringSays ==
    ASSUME NEW d, IsTree(d), NEW k, Reached(d, k), d.tag[k] \in Strings
    PROVE  SaysAll(d, k, <<k>>)
<1>1. k \in Nodes(d) /\ k \in Upto(d) /\ k \in Int /\ In(d, k, k)
  BY NodesAre DEF Reached, In
<1>2. k \in Allowed(d)
  <2>1. CASE d.tag[k] = "comment"
    BY <1>1, <2>1 DEF Reached, Tagged, Allowed
  <2>2. CASE d.tag[k] = "text"
    BY <1>1, <2>2, IsText
  <2> QED BY <2>1, <2>2 DEF Strings
<1>3. <<k>> \in Seq(Int) /\ ToSet(<<k>>) = {k} /\ Pairwise(<<k>>, Steps(d))
  BY <1>1, ClimbOne, ClimbsSteps
<1>4. ASSUME NEW x \in Texts(d), In(d, k, x) PROVE x = k
  <2>1. x \in Upto(d)
    BY TextIs
  <2> QED BY <1>1, <1>4, <2>1, NothingUnderText DEF In
<1> QED BY <1>1, <1>2, <1>3, <1>4 DEF SaysAll

(* A node that is neither a string nor a list nor a table.                 *)
LEMMA InlineSays ==
    ASSUME NEW d, IsTree(d), NEW k, Reached(d, k), d.tag[k] \notin Strings
    PROVE  SaysAll(d, k, TextsOf(d, k))
<1>1. /\ TextsOf(d, k) \in Seq(Int) /\ Pairwise(TextsOf(d, k), Steps(d))
      /\ ToSet(TextsOf(d, k)) = Tagged(d, k, {"text"})
  BY TextsAre, ClimbsSteps
<1>2. ASSUME NEW x \in Tagged(d, k, {"text"})
      PROVE  x \in Nodes(d) /\ In(d, k, x) /\ x \in Allowed(d)
  <2>1. x \in Nodes(d) /\ d.tag[x] = "text" /\ In(d, k, x)
    BY DEF Tagged, In
  <2> QED BY <2>1, IsText
<1>3. ASSUME NEW x \in Texts(d), In(d, k, x) PROVE x \in Tagged(d, k, {"text"})
  <2>1. x \in Nodes(d) /\ d.tag[x] = "text"
    BY TextIs
  <2>2. x # k
    BY <2>1 DEF Strings
  <2> QED BY <1>3, <2>1, <2>2 DEF In, Tagged
<1> QED BY <1>1, <1>2, <1>3 DEF SaysAll

(* A list or table that the walk comes to is in no other.                  *)
LEMMA ReachedOutermost ==
    ASSUME NEW d, NEW k, Reached(d, k), d.tag[k] \in {"ul", "table"}
    PROVE  k \in Outermost(d)
BY DEF Reached, Outermost, Grids, Tagged

(* What is in it and is no stray is in one of its places.                  *)
LEMMA InPlace ==
    ASSUME NEW d, IsTree(d), NEW k, Reached(d, k), d.tag[k] \in {"ul", "table"},
           NEW x \in Texts(d) \ Strays(d), In(d, k, x)
    PROVE  \E c \in Places(d, k) : x \in Tagged(d, c, {"text"})
<1>1. x \in Nodes(d) /\ d.tag[x] = "text"
  BY TextIs
<1>2. Under(d, k, x)
  BY <1>1 DEF In
<1>3. k \in Outermost(d)
  BY ReachedOutermost
<1>4. \E c \in Places(d, k) : Under(d, c, x)
  BY <1>2, <1>3 DEF Strays
<1> QED BY <1>1, <1>4 DEF Tagged

(* Lists of nodes whose subtrees do not overlap, and the texts of each.    *)
LEMMA TextsApart ==
    ASSUME NEW d, IsTree(d), NEW a \in Nodes(d), NEW b \in Nodes(d), a < b, ~Under(d, a, b)
    PROVE  Below(ToSet(TextsOf(d, a)), ToSet(TextsOf(d, b)))
<1> SUFFICES ASSUME NEW x \in Tagged(d, a, {"text"}), NEW y \in Tagged(d, b, {"text"})
             PROVE  x < y
  BY TextsAre DEF Below
<1>1. x \in Nodes(d) /\ y \in Nodes(d) /\ Under(d, a, x) /\ Under(d, b, y)
  BY DEF Tagged
<1>2. x \in Nat /\ y \in Nat /\ a \in Nat /\ b \in Nat
  BY <1>1, NodesAre
<1>3. x < b
  BY <1>1, <1>2, UnderApart
<1>4. b < y
  BY <1>1 DEF Under
<1> QED BY <1>2, <1>3, <1>4

(* Siblings do not overlap.                                                *)
LEMMA SiblingsApart ==
    ASSUME NEW d, IsTree(d), NEW a \in Nodes(d), NEW b \in Nodes(d), d.parent[a] = d.parent[b]
    PROVE  ~Under(d, a, b)
<1>1. a \in Nat /\ b \in Upto(d) /\ a \in Upto(d)
  BY NodesAre
<1>2. ASSUME Under(d, a, b) PROVE FALSE
  <2>1. a <= d.parent[b]
    BY <1>1, <1>2, OverParent
  <2>2. d.parent[a] < a /\ d.parent[a] \in Nat
    BY <1>1, TreeIs
  <2> QED BY <1>1, <2>1, <2>2
<1> QED BY <1>2

(* The texts of nodes whose subtrees do not overlap, one after the other.  *)
LEMMA NodeTexts ==
    ASSUME NEW d, IsTree(d), NEW n \in Nat, NEW f,
           \A i \in 1 .. n : f[i] \in Nodes(d),
           \A i, j \in 1 .. n : i < j => f[i] < f[j] /\ ~Under(d, f[i], f[j]),
           NEW ss, ss = [i \in 1 .. n |-> TextsOf(d, f[i])]
    PROVE  /\ FlattenSeq(ss) \in Seq(Int) /\ Climbs(FlattenSeq(ss), {})
           /\ \A x : x \in ToSet(FlattenSeq(ss)) <=>
                     \E i \in 1 .. n : x \in Tagged(d, f[i], {"text"})
<1>1. DOMAIN ss = 1 .. n /\ \A i \in 1 .. n : ss[i] = TextsOf(d, f[i])
  OBVIOUS
<1>2. ss \in Seq(Seq(Int))
  <2> DEFINE T == Seq(Int)
  <2>1. \A i \in 1 .. n : TextsOf(d, f[i]) \in T
    BY TextsAre
  <2> HIDE DEF T
  <2>2. ss \in [1 .. n -> T]
    BY <2>1
  <2>3. ss \in Seq(T)
    BY <2>2
  <2> QED BY <2>3 DEF T
<1>3. \A i \in DOMAIN ss : Climbs(ss[i], {})
  BY <1>1, TextsAre
<1>4. ASSUME NEW i \in DOMAIN ss, NEW j \in DOMAIN ss, i < j
      PROVE  Below(ToSet(ss[i]), ToSet(ss[j]))
  BY <1>1, <1>4, TextsApart
<1>5. /\ FlattenSeq(ss) \in Seq(Int)
      /\ ToSet(FlattenSeq(ss)) = UNION {ToSet(ss[i]) : i \in DOMAIN ss}
      /\ Climbs(FlattenSeq(ss), {})
  BY <1>2, <1>3, <1>4, FlattenClimbs
<1>6. \A i \in 1 .. n : ToSet(ss[i]) = Tagged(d, f[i], {"text"})
  BY <1>1, TextsAre
<1> QED BY <1>1, <1>5, <1>6

(* A list: what is in its items.                                           *)
LEMMA ListSays ==
    ASSUME NEW d, IsTree(d), NEW k, Reached(d, k), d.tag[k] = "ul"
    PROVE  SaysAll(d, k, ListTexts(d, k))
<1> DEFINE S == ChildrenTagged(d, k, {"li"})
           items == Ascending(S)
           n == Cardinality(S)
           ss == [i \in DOMAIN items |-> TextsOf(d, items[i])]
<1>1. k \in Nodes(d) /\ k \in Upto(d) /\ k \in Nat /\ k # 0
  BY NodesAre DEF Reached
<1>2. S \in SUBSET Int /\ IsFiniteSet(S) /\ S \subseteq Nodes(d)
  BY TaggedAre
<1>3. \A c \in S : c \in Nodes(d) /\ d.parent[c] = k /\ d.tag[c] = "li"
  BY DEF ChildrenTagged
<1>4. \A c \in Nodes(d) : d.parent[c] = k /\ d.tag[c] = "li" => c \in S
  BY DEF ChildrenTagged
<1>5. ListTexts(d, k) = FlattenSeq(ss)
  BY DEF ListTexts
<1> HIDE DEF S
<1>6. /\ n \in Nat /\ items \in [1 .. n -> S]
      /\ \A i \in S : \E j \in 1 .. n : items[j] = i
      /\ \A i, j \in 1 .. n : i < j => items[i] < items[j]
  BY <1>2, AscendingLists
<1> HIDE DEF items, n
<1>7. DOMAIN ss = 1 .. n /\ \A i \in 1 .. n : ss[i] = TextsOf(d, items[i]) /\ items[i] \in S
  BY <1>6
<1>8. ss = [i \in 1 .. n |-> TextsOf(d, items[i])]
  BY <1>6
<1> HIDE DEF ss
<1>9. \A i \in 1 .. n : items[i] \in Nodes(d)
  BY <1>3, <1>7
<1>10. \A i, j \in 1 .. n : i < j => items[i] < items[j] /\ ~Under(d, items[i], items[j])
  BY <1>3, <1>6, <1>7, SiblingsApart
<1>11. /\ FlattenSeq(ss) \in Seq(Int) /\ Climbs(FlattenSeq(ss), {})
       /\ \A x : x \in ToSet(FlattenSeq(ss)) <=>
                 \E i \in 1 .. n : x \in Tagged(d, items[i], {"text"})
  <2>1. n \in Nat
    BY <1>6
  <2> QED BY ONLY IsTree(d), <1>8, <1>9, <1>10, <2>1, NodeTexts
<1>12. \A x : x \in ToSet(FlattenSeq(ss)) <=> \E c \in S : x \in Tagged(d, c, {"text"})
  BY <1>6, <1>7, <1>11
<1>13. ASSUME NEW x, NEW c \in S, x \in Tagged(d, c, {"text"})
       PROVE  x \in Nodes(d) /\ In(d, k, x) /\ x \in Allowed(d)
  <2>1. x \in Nodes(d) /\ Under(d, c, x) /\ d.tag[x] = "text"
    BY <1>13 DEF Tagged
  <2>2. c \in Nodes(d) /\ d.parent[c] = k /\ c \in Upto(d) /\ c \in Nat /\ x \in Upto(d)
    BY <1>3, <2>1, NodesAre
  <2>3. Under(d, k, c)
    BY <2>2, ChildUnder
  <2>4. In(d, k, x)
    BY <1>1, <2>1, <2>2, <2>3, UnderTrans DEF In
  <2> QED BY <2>1, <2>4, IsText
<1>14. ASSUME NEW x \in Texts(d) \ Strays(d), In(d, k, x)
       PROVE  \E c \in S : x \in Tagged(d, c, {"text"})
  <2>1. Places(d, k) = S
    BY DEF Places, S
  <2> QED BY <1>14, <2>1, InPlace
<1>15. Pairwise(FlattenSeq(ss), Steps(d))
  BY <1>11, ClimbsSteps
<1> QED BY <1>5, <1>11, <1>12, <1>13, <1>14, <1>15 DEF SaysAll

(* As many members are not above the j-th as j.                            *)
LEMMA CountUpTo ==
    ASSUME NEW S \in SUBSET Int, IsFiniteSet(S), NEW j \in 1 .. Cardinality(S)
    PROVE  Cardinality({c \in S : c <= Ascending(S)[j]}) = j
<1> DEFINE R == {p \in S \X S : p[1] < p[2]}
           m == Ascending(S)[j]
           less == {c \in S : <<c, m>> \in R}
<1>1. \A i, k \in S : <<i, k>> \in R <=> i < k
  OBVIOUS
<1>2. Orders(R, S)
  <2> HIDE DEF R
  <2> QED BY <1>1 DEF Orders
<1>3. m = CHOOSE c \in S : Cardinality({e \in S : <<e, c>> \in R}) = j - 1
  BY DEF Ascending, InOrder
<1> HIDE DEF R, m
<1>4. \E c \in S : Cardinality({e \in S : <<e, c>> \in R}) = j - 1
  <2>1. \E c \in S : Cardinality(Before(c, S, R)) = j - 1
    BY <1>2, EveryCount
  <2> QED BY <2>1 DEF Before
<1>5. m \in S /\ Cardinality(less) = j - 1
  BY <1>3, <1>4
<1>6. less = {c \in S : c < m}
  BY <1>1, <1>5
<1> HIDE DEF less
<1>7. {c \in S : c <= m} = less \cup {m} /\ m \notin less
  <2>1. \A c \in S : c <= m <=> c < m \/ c = m
    BY <1>5
  <2>2. ~(m < m)
    BY <1>5
  <2> QED BY <1>5, <1>6, <2>1, <2>2
<1>8. IsFiniteSet(less)
  BY <1>6, FS_Subset
<1>9. Cardinality(less \cup {m}) = Cardinality(less) + 1
  BY <1>7, <1>8, FS_AddElement
<1>10. j - 1 + 1 = j
  BY FS_CardinalityType
<1> QED BY <1>5, <1>7, <1>9, <1>10 DEF m

LEMMA LeastOfTwo ==
    ASSUME NEW a \in Nat, NEW b \in Nat
    PROVE  Min({a, b}) \in Nat /\ Min({a, b}) <= a /\ Min({a, b}) <= b
           /\ (Min({a, b}) = a \/ Min({a, b}) = b)
<1>1. \E m \in {a, b} : \A k \in {a, b} : m <= k
  OBVIOUS
<1>2. Min({a, b}) \in {a, b} /\ \A k \in {a, b} : Min({a, b}) <= k
  BY <1>1 DEF Min
<1> QED BY <1>2

(* The columns a table has.                                                *)
Width(d, k) ==
    IF Tagged(d, k, {"tr"}) = {} THEN 0
    ELSE Cardinality(ChildrenTagged(d, Min(Tagged(d, k, {"tr"})), {"td"}))

LEMMA WidthIs ==
    ASSUME NEW d, IsTree(d), NEW k
    PROVE  /\ Width(d, k) \in Nat
           /\ d.tag[k] # "ul" =>
                 \A c : c \in Places(d, k) <=>
                    \E r \in Tagged(d, k, {"tr"}) :
                       c \in CellsOf(d, r) /\ Column(d, r, c) <= Width(d, k)
           /\ TableTexts(d, k) =
                 FlattenSeq([r \in 1 .. Cardinality(Tagged(d, k, {"tr"})) |->
                     RowTexts(d, Ascending(Tagged(d, k, {"tr"}))[r], Width(d, k))])
<1> DEFINE S == Tagged(d, k, {"tr"})
           rows == Ascending(S)
<1>1. S \in SUBSET Int /\ IsFiniteSet(S)
  BY TaggedAre
<1>2. Width(d, k) = IF S = {} THEN 0 ELSE Cardinality(ChildrenTagged(d, Min(S), {"td"}))
  BY DEF Width
<1>3. d.tag[k] # "ul" =>
         Places(d, k) = UNION {{c \in CellsOf(d, row) :
                                  Column(d, row, c) <= Cardinality(CellsOf(d, Min(S)))} :
                               row \in S}
  BY DEF Places
<1>4. TableTexts(d, k) =
        FlattenSeq([r \in DOMAIN rows |->
            RowTexts(d, rows[r], IF rows = <<>> THEN 0 ELSE Len(Cells(d, rows[1])))])
  BY DEF TableTexts
<1> HIDE DEF S
<1>5. /\ Cardinality(S) \in Nat /\ rows \in [1 .. Cardinality(S) -> S]
      /\ \A i \in S : \E j \in 1 .. Cardinality(S) : rows[j] = i
      /\ \A i, j \in 1 .. Cardinality(S) : i < j => rows[i] < rows[j]
  BY <1>1, AscendingLists
<1> HIDE DEF rows
<1>6. DOMAIN rows = 1 .. Cardinality(S)
  BY <1>5
<1>7. Width(d, k) \in Nat
  <2>1. IsFiniteSet(ChildrenTagged(d, Min(S), {"td"}))
    BY TaggedAre
  <2> QED BY <1>2, <2>1, FS_CardinalityType
<1>8. (IF rows = <<>> THEN 0 ELSE Len(Cells(d, rows[1]))) = Width(d, k)
  <2>1. CASE S = {}
    <3>1. 1 .. Cardinality(S) = {}
      BY <1>5, <2>1
    <3>2. rows = <<>>
      BY <1>5, <3>1
    <3> QED BY <1>2, <2>1, <3>2
  <2>2. CASE S # {}
    <3>1. PICK x \in S : TRUE
      BY <2>2
    <3>2. PICK j \in 1 .. Cardinality(S) : rows[j] = x
      BY <1>5
    <3>3. 1 \in 1 .. Cardinality(S) /\ rows # <<>>
      <4>1. 1 \in 1 .. Cardinality(S)
        BY <1>5
      <4>2. DOMAIN rows # {}
        BY <1>6, <4>1
      <4>3. DOMAIN <<>> = {}
        OBVIOUS
      <4> QED BY <4>1, <4>2, <4>3
    <3>4. rows[1] \in S /\ \A y \in S : rows[1] <= y
      <4>1. rows[1] \in S /\ rows[1] \in Int
        BY <1>1, <1>5, <3>3
      <4>2. ASSUME NEW y \in S PROVE rows[1] <= y
        <5>1. PICK i \in 1 .. Cardinality(S) : rows[i] = y
          BY <1>5
        <5>2. i = 1 \/ 1 < i
          BY <1>5
        <5>3. y \in Int
          BY <1>1
        <5> QED BY <1>5, <3>3, <4>1, <5>1, <5>2, <5>3
      <4> QED BY <4>1, <4>2
    <3>5. rows[1] = Min(S)
      <4>1. \A m \in S : (\A y \in S : m <= y) => m = rows[1]
        <5> SUFFICES ASSUME NEW m \in S, \A y \in S : m <= y PROVE m = rows[1]
          OBVIOUS
        <5>1. m \in Int /\ rows[1] \in Int
          BY <1>1, <3>4
        <5>2. m <= rows[1] /\ rows[1] <= m
          BY <3>4
        <5> QED BY <5>1, <5>2
      <4> QED BY <3>4, <4>1 DEF Min
    <3>6. Len(Cells(d, Min(S))) = Cardinality(ChildrenTagged(d, Min(S), {"td"}))
      <4> DEFINE C == ChildrenTagged(d, Min(S), {"td"})
      <4>1. C \in SUBSET Int /\ IsFiniteSet(C)
        BY TaggedAre
      <4>2. Cells(d, Min(S)) = Ascending(C)
        BY DEF Cells
      <4> HIDE DEF C
      <4>3. Cardinality(C) \in Nat /\ Ascending(C) \in [1 .. Cardinality(C) -> C]
        BY <4>1, AscendingLists
      <4>4. Len(Ascending(C)) = Cardinality(C)
        BY <4>3
      <4> QED BY <4>2, <4>4 DEF C
    <3> QED BY <1>2, <2>2, <3>3, <3>5, <3>6
  <2> QED BY <2>1, <2>2
<1>9. ASSUME d.tag[k] # "ul", NEW c
      PROVE  c \in Places(d, k) <=>
                \E r \in S : c \in CellsOf(d, r) /\ Column(d, r, c) <= Width(d, k)
  <2>1. c \in Places(d, k) <=>
           \E r \in S : c \in CellsOf(d, r)
                        /\ Column(d, r, c) <= Cardinality(CellsOf(d, Min(S)))
    BY <1>3, <1>9
  <2>2. S # {} => Width(d, k) = Cardinality(CellsOf(d, Min(S)))
    BY <1>2 DEF CellsOf
  <2> QED BY <2>1, <2>2
<1>10. TableTexts(d, k) = FlattenSeq([r \in 1 .. Cardinality(S) |->
                              RowTexts(d, rows[r], Width(d, k))])
  BY <1>4, <1>6, <1>8
<1> QED BY <1>7, <1>9, <1>10 DEF S, rows

(* A row: its cells in the columns that the table has.                     *)
LEMMA RowSays ==
    ASSUME NEW d, IsTree(d), NEW row, NEW w \in Nat
    PROVE  /\ RowTexts(d, row, w) \in Seq(Int) /\ Climbs(RowTexts(d, row, w), {})
           /\ \A x : x \in ToSet(RowTexts(d, row, w)) <=>
                 \E c \in CellsOf(d, row) :
                    /\ Column(d, row, c) <= w
                    /\ x \in Tagged(d, c, {"text"})
<1> DEFINE C == ChildrenTagged(d, row, {"td"})
           cells == Ascending(C)
           n == Cardinality(C)
           m == Min({w, n})
           ss == [c \in 1 .. m |-> TextsOf(d, cells[c])]
<1>1. C \in SUBSET Int /\ IsFiniteSet(C) /\ C \subseteq Nodes(d)
  BY TaggedAre
<1>2. \A c \in C : d.parent[c] = row
  BY DEF ChildrenTagged
<1>3. \A c : Column(d, row, c) = Cardinality({e \in C : e <= c})
  BY DEF Column, CellsOf
<1>4. Cells(d, row) = cells
  BY DEF Cells
<1> HIDE DEF C
<1>5. /\ n \in Nat /\ cells \in [1 .. n -> C]
      /\ \A i \in C : \E j \in 1 .. n : cells[j] = i
      /\ \A i, j \in 1 .. n : i < j => cells[i] < cells[j]
  BY <1>1, AscendingLists
<1>6. \A j \in 1 .. n : Cardinality({e \in C : e <= cells[j]}) = j
  BY <1>1, CountUpTo
<1>7. Len(cells) = n
  BY <1>5
<1>8. RowTexts(d, row, w) = FlattenSeq(ss)
  BY <1>4, <1>7 DEF RowTexts
<1> HIDE DEF cells, n
<1>9. m \in Nat /\ m <= w /\ m <= n /\ (m = w \/ m = n)
  BY <1>5, LeastOfTwo
<1> HIDE DEF m
<1>10. \A j \in 1 .. m : j \in 1 .. n /\ cells[j] \in C
  BY <1>5, <1>9
<1>11. \A j \in 1 .. m : cells[j] \in Nodes(d)
  BY <1>1, <1>10
<1>12. \A i, j \in 1 .. m : i < j => cells[i] < cells[j] /\ ~Under(d, cells[i], cells[j])
  <2> SUFFICES ASSUME NEW i \in 1 .. m, NEW j \in 1 .. m, i < j
               PROVE  cells[i] < cells[j] /\ ~Under(d, cells[i], cells[j])
    OBVIOUS
  <2>1. d.parent[cells[i]] = d.parent[cells[j]]
    BY <1>2, <1>10
  <2> QED BY <1>5, <1>10, <1>11, <2>1, SiblingsApart
<1>13. ss = [c \in 1 .. m |-> TextsOf(d, cells[c])]
  OBVIOUS
<1> HIDE DEF ss
<1>14. /\ FlattenSeq(ss) \in Seq(Int) /\ Climbs(FlattenSeq(ss), {})
       /\ \A x : x \in ToSet(FlattenSeq(ss)) <=>
                 \E i \in 1 .. m : x \in Tagged(d, cells[i], {"text"})
  <2>1. m \in Nat
    BY <1>9
  <2> QED BY ONLY IsTree(d), <2>1, <1>11, <1>12, <1>13, NodeTexts
<1>15. \A x : (\E i \in 1 .. m : x \in Tagged(d, cells[i], {"text"})) <=>
                 \E c \in C : /\ Column(d, row, c) <= w
                              /\ x \in Tagged(d, c, {"text"})
  <2>1. ASSUME NEW x, NEW i \in 1 .. m, x \in Tagged(d, cells[i], {"text"})
        PROVE  \E c \in C : /\ Column(d, row, c) <= w
                            /\ x \in Tagged(d, c, {"text"})
    <3>1. Column(d, row, cells[i]) = i
      BY <1>3, <1>6, <1>10
    <3>2. i <= w
      BY <1>9
    <3> QED BY <1>10, <2>1, <3>1, <3>2
  <2>2. ASSUME NEW x, NEW c \in C, Column(d, row, c) <= w,
               x \in Tagged(d, c, {"text"})
        PROVE  \E i \in 1 .. m : x \in Tagged(d, cells[i], {"text"})
    <3>1. PICK i \in 1 .. n : cells[i] = c
      BY <1>5
    <3>2. i <= w
      BY <1>3, <1>6, <2>2, <3>1
    <3>3. i \in 1 .. m
      BY <1>5, <1>9, <3>2
    <3> QED BY <2>2, <3>1, <3>3
  <2> QED BY <2>1, <2>2
<1> QED BY <1>8, <1>14, <1>15 DEF C, CellsOf

(* A table: what is in its columns.  What a row within a row says comes    *)
(* after it, and is tangled with it.                                       *)
LEMMA TableSays ==
    ASSUME NEW d, IsTree(d), NEW k, Reached(d, k), d.tag[k] = "table"
    PROVE  SaysAll(d, k, TableTexts(d, k))
<1> DEFINE S == Tagged(d, k, {"tr"})
           rows == Ascending(S)
           n == Cardinality(S)
           w == Width(d, k)
           ss == [r \in 1 .. n |-> RowTexts(d, rows[r], w)]
           Q == Steps(d)
<1>1. k \in Nodes(d) /\ k \in Upto(d) /\ k \in Nat /\ k # 0 /\ k \in Outermost(d)
  BY NodesAre, ReachedOutermost DEF Reached
<1>2. S \in SUBSET Int /\ IsFiniteSet(S) /\ S \subseteq Nodes(d)
  BY TaggedAre
<1>3. \A r \in S : r \in Nodes(d) /\ r \in Nat /\ r \in Upto(d) /\ Under(d, k, r)
  BY NodesAre DEF Tagged
<1>4. /\ w \in Nat
      /\ \A c : c \in Places(d, k) <=>
            \E r \in S : c \in CellsOf(d, r) /\ Column(d, r, c) <= w
      /\ TableTexts(d, k) = FlattenSeq(ss)
  BY WidthIs
<1>5. /\ n \in Nat /\ rows \in [1 .. n -> S]
      /\ \A i \in S : \E j \in 1 .. n : rows[j] = i
      /\ \A i, j \in 1 .. n : i < j => rows[i] < rows[j]
  <2> HIDE DEF S
  <2> QED BY <1>2, AscendingLists
<1>6. \A x, y \in Nodes(d), a, b \in S :
         Under(d, a, b) /\ Under(d, k, x) /\ Under(d, k, y) => Tangled(d, x, y)
  BY <1>1 DEF Tangled
<1> HIDE DEF w
<1>7. \A r \in S :
         /\ RowTexts(d, r, w) \in Seq(Int) /\ Climbs(RowTexts(d, r, w), {})
         /\ \A x : x \in ToSet(RowTexts(d, r, w)) <=>
               \E c \in CellsOf(d, r) : Column(d, r, c) <= w /\ x \in Tagged(d, c, {"text"})
  BY <1>4, RowSays
<1> HIDE DEF S, rows, n, Q
<1>8. DOMAIN ss = 1 .. n /\ \A i \in 1 .. n : rows[i] \in S /\ ss[i] = RowTexts(d, rows[i], w)
  BY <1>5
<1>9. ss \in Seq(Seq(Int))
  <2> DEFINE T == Seq(Int)
  <2>1. \A i \in 1 .. n : RowTexts(d, rows[i], w) \in T
    BY <1>7, <1>8
  <2> HIDE DEF T
  <2>2. ss \in [1 .. n -> T]
    BY <2>1
  <2>3. ss \in Seq(T)
    BY <1>5, <2>2
  <2> QED BY <2>3 DEF T
<1> HIDE DEF ss
<1>10. \A i \in DOMAIN ss : Pairwise(ss[i], Q)
  BY <1>7, <1>8, ClimbsSteps DEF Q
<1>11. \A r \in S : \A x \in ToSet(RowTexts(d, r, w)) :
          x \in Nodes(d) /\ x \in Nat /\ d.tag[x] = "text" /\ Under(d, r, x) /\ Under(d, k, x)
  <2> SUFFICES ASSUME NEW r \in S, NEW x \in ToSet(RowTexts(d, r, w))
               PROVE  /\ x \in Nodes(d) /\ x \in Nat /\ d.tag[x] = "text"
                      /\ Under(d, r, x) /\ Under(d, k, x)
    OBVIOUS
  <2>1. PICK c \in CellsOf(d, r) : x \in Tagged(d, c, {"text"})
    BY <1>7
  <2>2. /\ x \in Nodes(d) /\ d.tag[x] = "text" /\ Under(d, c, x)
        /\ c \in Nodes(d) /\ d.parent[c] = r
    BY <2>1 DEF Tagged, CellsOf, ChildrenTagged
  <2>3. c \in Nat /\ c \in Upto(d) /\ x \in Upto(d) /\ x \in Nat
    BY <2>2, NodesAre
  <2>4. Under(d, r, c)
    BY <2>2, <2>3, ChildUnder
  <2>5. Under(d, r, x)
    BY <1>3, <2>2, <2>3, <2>4, UnderTrans
  <2>6. Under(d, k, x)
    BY <1>1, <1>3, <2>3, <2>5, UnderTrans
  <2> QED BY <2>2, <2>3, <2>5, <2>6
<1>12. ASSUME NEW i \in DOMAIN ss, NEW j \in DOMAIN ss, i < j
       PROVE  Across(ToSet(ss[i]), ToSet(ss[j]), Q)
  <2> DEFINE a == rows[i]
             b == rows[j]
  <2>1. a \in S /\ b \in S /\ a < b /\ ss[i] = RowTexts(d, a, w) /\ ss[j] = RowTexts(d, b, w)
    BY <1>5, <1>8, <1>12
  <2> HIDE DEF a, b
  <2> SUFFICES ASSUME NEW x \in ToSet(ss[i]), NEW y \in ToSet(ss[j]) PROVE <<x, y>> \in Q
    BY DEF Across
  <2>2. /\ x \in Nodes(d) /\ x \in Nat /\ Under(d, a, x) /\ Under(d, k, x)
        /\ y \in Nodes(d) /\ y \in Nat /\ Under(d, b, y) /\ Under(d, k, y)
    BY <1>11, <2>1
  <2>3. x < y \/ Tangled(d, x, y)
    <3>1. CASE Under(d, a, b)
      BY <1>6, <2>1, <2>2, <3>1
    <3>2. CASE ~Under(d, a, b)
      <4>1. x < b
        BY <1>3, <2>1, <2>2, <3>2, UnderApart
      <4>2. b < y
        BY <2>2 DEF Under
      <4> QED BY <1>3, <2>1, <2>2, <4>1, <4>2
    <3> QED BY <3>1, <3>2
  <2> QED BY <2>2, <2>3, StepsAre DEF Q
<1>13. /\ FlattenSeq(ss) \in Seq(Int)
       /\ ToSet(FlattenSeq(ss)) = UNION {ToSet(ss[i]) : i \in DOMAIN ss}
       /\ Pairwise(FlattenSeq(ss), Q)
  BY ONLY <1>9, <1>10, <1>12, FlattenPairs
<1>14. ASSUME NEW x \in ToSet(FlattenSeq(ss))
       PROVE  x \in Nodes(d) /\ In(d, k, x) /\ x \in Allowed(d)
  <2>1. PICK i \in DOMAIN ss : x \in ToSet(ss[i])
    BY <1>13
  <2>2. x \in Nodes(d) /\ d.tag[x] = "text" /\ Under(d, k, x)
    BY <1>8, <1>11, <2>1
  <2> QED BY <2>2, IsText DEF In
<1>15. ASSUME NEW x \in Texts(d) \ Strays(d), In(d, k, x)
       PROVE  x \in ToSet(FlattenSeq(ss))
  <2>1. PICK c \in Places(d, k) : x \in Tagged(d, c, {"text"})
    BY <1>15, InPlace
  <2>2. PICK r \in S : c \in CellsOf(d, r) /\ Column(d, r, c) <= w
    BY <1>4
  <2>3. x \in ToSet(RowTexts(d, r, w))
    BY <1>7, <2>1, <2>2
  <2>4. PICK i \in 1 .. n : rows[i] = r
    BY <1>5
  <2>5. i \in DOMAIN ss /\ x \in ToSet(ss[i])
    BY <1>8, <2>3, <2>4
  <2> QED BY <1>13, <2>5
<1> QED BY <1>4, <1>13, <1>14, <1>15 DEF SaysAll, Q

(* Whatever node the walk writes.                                          *)
LEMMA SaysRight ==
    ASSUME NEW d, IsTree(d), NEW k, Reached(d, k)
    PROVE  SaysAll(d, k, Says(d, k))
<1>1. CASE d.tag[k] \in Strings
  BY <1>1, StringSays DEF Says, Strings
<1>2. CASE d.tag[k] = "ul"
  BY <1>2, ListSays DEF Says, Strings
<1>3. CASE d.tag[k] = "table"
  BY <1>3, TableSays DEF Says, Strings
<1>4. CASE d.tag[k] \notin Strings \cup {"ul", "table"}
  BY <1>4, InlineSays DEF Says
<1> QED BY <1>1, <1>2, <1>3, <1>4

-----------------------------------------------------------------------------
(* The walk of a tree.                                                     *)

(* What is left to walk: nodes that the walk comes to, in order, none of   *)
(* them in another.                                                        *)
Queue(d, todo) ==
    /\ todo \in Seq(Int)
    /\ \A i \in DOMAIN todo : Reached(d, todo[i])
    /\ \A i, j \in DOMAIN todo : i < j => todo[i] < todo[j] /\ ~Under(d, todo[i], todo[j])

(* What is written is in order and before what is left; and all there is   *)
(* to write is written or in what is left.                                 *)
Halfway(d, todo, out) ==
    /\ out \in Seq(Int) /\ Pairwise(out, Steps(d)) /\ ToSet(out) \subseteq Allowed(d)
    /\ \A x \in ToSet(out), i \in DOMAIN todo : x < todo[i]
    /\ \A x \in Texts(d) \ Strays(d) : x \in ToSet(out) \/ \E i \in DOMAIN todo : In(d, todo[i], x)

LEMMA HeadAndTail ==
    ASSUME NEW T, NEW s \in Seq(T), s # <<>>
    PROVE  /\ Head(s) \in T /\ Head(s) = s[1] /\ 1 \in DOMAIN s
           /\ Tail(s) \in Seq(T) /\ Len(Tail(s)) = Len(s) - 1 /\ Len(s) \in Nat \ {0}
           /\ \A i \in DOMAIN Tail(s) :
                 i + 1 \in DOMAIN s /\ i \in Nat /\ i > 0 /\ Tail(s)[i] = s[i + 1]
           /\ \A i \in DOMAIN s : i = 1 \/ (i - 1 \in DOMAIN Tail(s) /\ s[i] = Tail(s)[i - 1])
<1>1. Len(s) \in Nat /\ Len(s) # 0 /\ DOMAIN s = 1 .. Len(s)
  OBVIOUS
<1>2. /\ Head(s) = s[1] /\ Tail(s) \in Seq(T) /\ Len(Tail(s)) = Len(s) - 1
      /\ DOMAIN Tail(s) = 1 .. Len(s) - 1 /\ \A i \in 1 .. Len(s) - 1 : Tail(s)[i] = s[i + 1]
  OBVIOUS
<1>3. 1 \in DOMAIN s /\ Head(s) \in T
  BY <1>1, <1>2
<1>4. \A i \in DOMAIN Tail(s) : i + 1 \in DOMAIN s /\ i \in Nat /\ i > 0 /\ Tail(s)[i] = s[i + 1]
  BY <1>1, <1>2
<1>5. \A i \in DOMAIN s : i = 1 \/ (i - 1 \in DOMAIN Tail(s) /\ s[i] = Tail(s)[i - 1])
  <2> SUFFICES ASSUME NEW i \in DOMAIN s, i # 1
               PROVE  i - 1 \in DOMAIN Tail(s) /\ s[i] = Tail(s)[i - 1]
    OBVIOUS
  <2>1. i - 1 \in 1 .. Len(s) - 1 /\ i - 1 + 1 = i
    BY <1>1
  <2> QED BY <1>2, <2>1
<1> QED BY <1>1, <1>2, <1>3, <1>4, <1>5

LEMMA TailQueue ==
    ASSUME NEW d, NEW todo, Queue(d, todo), todo # <<>>
    PROVE  /\ Queue(d, Tail(todo)) /\ Reached(d, Head(todo))
           /\ \A i \in DOMAIN Tail(todo) :
                 Head(todo) < Tail(todo)[i] /\ ~Under(d, Head(todo), Tail(todo)[i])
<1>1. /\ Head(todo) = todo[1] /\ 1 \in DOMAIN todo
      /\ Tail(todo) \in Seq(Int)
      /\ \A i \in DOMAIN Tail(todo) :
            i + 1 \in DOMAIN todo /\ i \in Nat /\ i > 0 /\ Tail(todo)[i] = todo[i + 1]
  BY HeadAndTail DEF Queue
<1>2. \A i \in DOMAIN Tail(todo) : Reached(d, Tail(todo)[i])
  BY <1>1 DEF Queue
<1>3. ASSUME NEW i \in DOMAIN Tail(todo), NEW j \in DOMAIN Tail(todo), i < j
      PROVE  Tail(todo)[i] < Tail(todo)[j] /\ ~Under(d, Tail(todo)[i], Tail(todo)[j])
  <2>1. i + 1 < j + 1
    BY <1>1, <1>3
  <2> QED BY <1>1, <2>1 DEF Queue
<1>4. \A i \in DOMAIN Tail(todo) :
         Head(todo) < Tail(todo)[i] /\ ~Under(d, Head(todo), Tail(todo)[i])
  <2> SUFFICES ASSUME NEW i \in DOMAIN Tail(todo)
               PROVE  todo[1] < todo[i + 1] /\ ~Under(d, todo[1], todo[i + 1])
    BY <1>1
  <2>1. 1 < i + 1
    BY <1>1
  <2> QED BY <1>1, <2>1 DEF Queue
<1> QED BY <1>1, <1>2, <1>3, <1>4 DEF Queue

(* What is in a node of the queue comes before the later nodes.            *)
LEMMA InApart ==
    ASSUME NEW d, IsTree(d), NEW k \in Nodes(d), NEW m \in Nodes(d), k < m, ~Under(d, k, m),
           NEW x \in Nodes(d), In(d, k, x)
    PROVE  x < m /\ ~Under(d, x, m)
<1>1. k \in Nat /\ m \in Nat /\ x \in Nat /\ m \in Upto(d)
  BY NodesAre
<1>2. x < m
  BY <1>1, UnderApart DEF In
<1>3. ~Under(d, x, m)
  BY <1>1, UnderTrans DEF In
<1> QED BY <1>2, <1>3

(* A node is written.                                                      *)
LEMMA Rendered ==
    ASSUME NEW d, IsTree(d), NEW todo, Queue(d, todo), todo # <<>>, NEW out, Halfway(d, todo, out)
    PROVE  Halfway(d, Tail(todo), out \o Says(d, Head(todo)))
<1> DEFINE k == Head(todo)
           s == Says(d, k)
           rest == Tail(todo)
<1>1. /\ Queue(d, rest) /\ Reached(d, k)
      /\ \A i \in DOMAIN rest : k < rest[i] /\ ~Under(d, k, rest[i])
  BY TailQueue
<1>2. /\ k = todo[1] /\ 1 \in DOMAIN todo
      /\ \A i \in DOMAIN rest : i + 1 \in DOMAIN todo /\ rest[i] = todo[i + 1]
      /\ \A i \in DOMAIN todo : i = 1 \/ (i - 1 \in DOMAIN rest /\ todo[i] = rest[i - 1])
  BY HeadAndTail DEF Queue
<1>3. SaysAll(d, k, s)
  BY <1>1, SaysRight
<1> HIDE DEF k, s, rest
<1>4. k \in Nodes(d) /\ k \in Nat
  BY <1>1, NodesAre DEF Reached
<1>5. Across(ToSet(out), ToSet(s), Steps(d))
  <2> SUFFICES ASSUME NEW x \in ToSet(out), NEW y \in ToSet(s) PROVE <<x, y>> \in Steps(d)
    BY DEF Across
  <2>1. x < k
    BY <1>2 DEF Halfway
  <2>2. y = k \/ k < y
    BY <1>3 DEF SaysAll, In, Under
  <2>3. x \in Nat /\ y \in Nat
    BY <1>3, AllowedAre DEF SaysAll, Halfway
  <2>4. x < y
    BY <1>4, <2>1, <2>2, <2>3
  <2> QED BY <2>3, <2>4, StepsAre
<1>6. /\ out \o s \in Seq(Int) /\ ToSet(out \o s) = ToSet(out) \cup ToSet(s)
      /\ Pairwise(out \o s, Steps(d))
  <2> DEFINE Q == Steps(d)
  <2>1. out \in Seq(Int) /\ s \in Seq(Int) /\ Pairwise(out, Q) /\ Pairwise(s, Q)
    BY <1>3 DEF Halfway, SaysAll
  <2>2. Across(ToSet(out), ToSet(s), Q)
    BY <1>5
  <2> HIDE DEF Q
  <2>3. /\ out \o s \in Seq(Int) /\ ToSet(out \o s) = ToSet(out) \cup ToSet(s)
        /\ Pairwise(out \o s, Q)
    BY ONLY <2>1, <2>2, PairsOn
  <2> QED BY <2>3 DEF Q
<1>7. ToSet(out \o s) \subseteq Allowed(d)
  BY <1>3, <1>6 DEF Halfway, SaysAll
<1>8. ASSUME NEW x \in ToSet(out \o s), NEW i \in DOMAIN rest PROVE x < rest[i]
  <2>1. CASE x \in ToSet(out)
    BY <1>2, <2>1 DEF Halfway
  <2>2. CASE x \in ToSet(s)
    <3>1. x \in Nodes(d) /\ In(d, k, x)
      BY <1>3, <2>2 DEF SaysAll
    <3>2. rest[i] \in Nodes(d)
      BY <1>1 DEF Queue, Reached
    <3> QED BY <1>1, <1>4, <3>1, <3>2, InApart
  <2> QED BY <1>6, <2>1, <2>2
<1>9. ASSUME NEW x \in Texts(d) \ Strays(d), x \notin ToSet(out \o s)
      PROVE  \E i \in DOMAIN rest : In(d, rest[i], x)
  <2>1. x \notin ToSet(out) /\ x \notin ToSet(s)
    BY <1>6, <1>9
  <2>2. PICK i \in DOMAIN todo : In(d, todo[i], x)
    BY <2>1 DEF Halfway
  <2>3. ~In(d, k, x)
    BY <1>3, <2>1 DEF SaysAll
  <2> QED BY <1>2, <2>2, <2>3
<1>10. Halfway(d, rest, out \o s)
  BY <1>6, <1>7, <1>8, <1>9 DEF Halfway
<1> QED BY <1>10 DEF k, s, rest

(* The children of a node that is walked through take its place.           *)
LEMMA DescendedQueue ==
    ASSUME NEW d, IsTree(d), NEW todo, Queue(d, todo), todo # <<>>, WalksThrough(d, Head(todo))
    PROVE  /\ Queue(d, Children(d, Head(todo)) \o Tail(todo))
           /\ ToSet(Children(d, Head(todo)) \o Tail(todo)) =
                 {c \in Nodes(d) : d.parent[c] = Head(todo)} \cup ToSet(Tail(todo))
<1> DEFINE k == Head(todo)
           cs == Children(d, k)
           rest == Tail(todo)
           new == cs \o rest
           S == {c \in Nodes(d) : d.parent[c] = k}
<1>1. /\ Queue(d, rest) /\ Reached(d, k) /\ rest \in Seq(Int)
      /\ \A i \in DOMAIN rest : k < rest[i] /\ ~Under(d, k, rest[i])
  BY TailQueue DEF Queue
<1>2. cs \in Seq(Int) /\ Climbs(cs, {}) /\ ToSet(cs) = S
  BY ChildrenAre
<1>3. \A c \in S : c \in Nodes(d) /\ d.parent[c] = k
  OBVIOUS
<1>4. WalksThrough(d, k)
  OBVIOUS
<1> HIDE DEF k, cs, rest, S
<1>5. k \in Nodes(d) /\ k \in Nat
  BY <1>1, NodesAre DEF Reached
<1>6. \A c \in S : Reached(d, c) /\ In(d, k, c)
  <2> SUFFICES ASSUME NEW c \in S PROVE Reached(d, c) /\ In(d, k, c)
    OBVIOUS
  <2>1. c \in Nodes(d) /\ d.parent[c] = k /\ c \in Upto(d)
    BY <1>3, NodesAre
  <2>2. Under(d, k, c)
    BY <2>1, ChildUnder
  <2> QED BY <1>1, <1>4, <2>1, <2>2, WalkReaches DEF In
<1>7. /\ new \in Seq(Int)
      /\ \A i \in DOMAIN new :
            \/ i \in 1 .. Len(cs) /\ new[i] = cs[i]
            \/ i - Len(cs) \in 1 .. Len(rest) /\ new[i] = rest[i - Len(cs)]
      /\ ToSet(new) = S \cup ToSet(rest)
  BY <1>1, <1>2, JoinedLists, ClimbOn
<1>8. DOMAIN cs = 1 .. Len(cs) /\ DOMAIN rest = 1 .. Len(rest) /\ Len(cs) \in Nat
      /\ DOMAIN new \subseteq Int
  BY <1>1, <1>2, <1>7
<1> HIDE DEF new
<1>9. \A i \in 1 .. Len(cs) : cs[i] \in S
  BY <1>2, <1>8 DEF ToSet
<1>10. \A i \in DOMAIN new : Reached(d, new[i])
  BY <1>1, <1>6, <1>7, <1>8, <1>9 DEF Queue
<1>11. ASSUME NEW i \in DOMAIN new, NEW j \in DOMAIN new, i < j
       PROVE  new[i] < new[j] /\ ~Under(d, new[i], new[j])
  <2>1. CASE i \in 1 .. Len(cs) /\ new[i] = cs[i] /\ j \in 1 .. Len(cs) /\ new[j] = cs[j]
    <3>1. cs[i] < cs[j]
      BY <1>2, <1>8, <1>11, <2>1 DEF Climbs
    <3>2. ~Under(d, cs[i], cs[j])
      BY <1>3, <1>9, <2>1, SiblingsApart
    <3> QED BY <2>1, <3>1, <3>2
  <2>2. CASE /\ i \in 1 .. Len(cs) /\ new[i] = cs[i]
             /\ j - Len(cs) \in 1 .. Len(rest) /\ new[j] = rest[j - Len(cs)]
    <3>1. cs[i] \in S /\ cs[i] \in Nodes(d) /\ In(d, k, cs[i])
      BY <1>3, <1>6, <1>9, <2>2
    <3>2. /\ rest[j - Len(cs)] \in Nodes(d)
          /\ k < rest[j - Len(cs)] /\ ~Under(d, k, rest[j - Len(cs)])
      BY <1>1, <1>8, <2>2 DEF Queue, Reached
    <3> QED BY <1>5, <2>2, <3>1, <3>2, InApart
  <2>3. CASE /\ i - Len(cs) \in 1 .. Len(rest) /\ new[i] = rest[i - Len(cs)]
             /\ j - Len(cs) \in 1 .. Len(rest) /\ new[j] = rest[j - Len(cs)]
    <3>1. i - Len(cs) < j - Len(cs)
      BY <1>8, <1>11
    <3> QED BY <1>1, <1>8, <2>3, <3>1 DEF Queue
  <2>4. CASE i - Len(cs) \in 1 .. Len(rest) /\ j \in 1 .. Len(cs)
    BY <1>8, <1>11, <2>4
  <2> QED BY <1>7, <2>1, <2>2, <2>3, <2>4
<1> QED BY <1>7, <1>10, <1>11 DEF Queue, k, cs, rest, S, new

LEMMA Descended ==
    ASSUME NEW d, IsTree(d), NEW todo, Queue(d, todo), todo # <<>>, WalksThrough(d, Head(todo)),
           NEW out, Halfway(d, todo, out)
    PROVE  Halfway(d, Children(d, Head(todo)) \o Tail(todo), out)
<1> DEFINE k == Head(todo)
           rest == Tail(todo)
           new == Children(d, k) \o rest
<1>1. ToSet(new) = {c \in Nodes(d) : d.parent[c] = k} \cup ToSet(rest)
  BY DescendedQueue
<1>2. /\ Reached(d, k) /\ k = todo[1] /\ 1 \in DOMAIN todo
      /\ \A i \in DOMAIN rest : i + 1 \in DOMAIN todo /\ rest[i] = todo[i + 1]
      /\ \A i \in DOMAIN todo : i = 1 \/ (i - 1 \in DOMAIN rest /\ todo[i] = rest[i - 1])
  BY TailQueue, HeadAndTail DEF Queue
<1>3. WalksThrough(d, k)
  OBVIOUS
<1> HIDE DEF k, rest, new
<1>4. k \in Nodes(d) /\ k \in Nat /\ k # 0
  BY <1>2, NodesAre DEF Reached
<1>5. \A x \in ToSet(out) : x \in Nat /\ x < k
  <2>1. \A x \in ToSet(out) : x \in Allowed(d) /\ x < k
    BY <1>2 DEF Halfway
  <2> QED BY <2>1, AllowedAre
<1>6. \A m \in ToSet(new) : \A x \in ToSet(out) : x < m
  <2>1. ASSUME NEW c \in Nodes(d), d.parent[c] = k, NEW x \in ToSet(out) PROVE x < c
    <3>1. c \in Upto(d) /\ c \in Nat
      BY NodesAre
    <3>2. k < c
      BY <2>1, <3>1, TreeIs
    <3> QED BY <1>4, <1>5, <3>1, <3>2
  <2>2. ASSUME NEW m \in ToSet(rest), NEW x \in ToSet(out) PROVE x < m
    <3>1. PICK i \in DOMAIN rest : m = rest[i]
      BY DEF ToSet
    <3> QED BY <1>2, <3>1 DEF Halfway
  <2> QED BY <1>1, <2>1, <2>2
<1>7. \A x \in ToSet(out), i \in DOMAIN new : x < new[i]
  BY <1>6 DEF ToSet
<1>8. ASSUME NEW x \in Texts(d) \ Strays(d), x \notin ToSet(out)
      PROVE  \E i \in DOMAIN new : In(d, new[i], x)
  <2>1. PICK i \in DOMAIN todo : In(d, todo[i], x)
    BY <1>8 DEF Halfway
  <2>2. x \in Nodes(d) /\ d.tag[x] = "text" /\ x \in Upto(d)
    BY TextIs
  <2>3. CASE i = 1
    <3>1. In(d, k, x)
      BY <1>2, <2>1, <2>3
    <3>2. x # k
      BY <1>3, <2>2 DEF WalksThrough, Others
    <3>3. PICK c \in Upto(d) : d.parent[c] = k /\ (c = x \/ Under(d, c, x))
      BY <1>4, <2>2, <3>1, <3>2, ThroughChild DEF In
    <3>4. c \in Nodes(d) /\ In(d, c, x)
      BY <2>2, <3>3, AliveUp DEF In
    <3>5. c \in ToSet(new)
      BY <1>1, <3>3, <3>4
    <3>6. PICK j \in DOMAIN new : c = new[j]
      BY <3>5 DEF ToSet
    <3> QED BY <3>4, <3>6
  <2>4. CASE i # 1
    <3>1. todo[i] \in ToSet(rest)
      BY <1>2, <2>4 DEF ToSet
    <3>2. PICK j \in DOMAIN new : todo[i] = new[j]
      BY <1>1, <3>1 DEF ToSet
    <3> QED BY <2>1, <3>2
  <2> QED BY <2>3, <2>4
<1>9. Halfway(d, new, out)
  BY <1>7, <1>8 DEF Halfway
<1> QED BY <1>9 DEF k, rest, new

(* The walk begins with the children of the content root.                  *)
LEMMA Begun ==
    ASSUME NEW d, IsTree(d)
    PROVE  /\ Queue(d, Children(d, ContentRoot(d)))
           /\ Halfway(d, Children(d, ContentRoot(d)), <<>>)
<1> DEFINE r == ContentRoot(d)
           cs == Children(d, r)
<1>1. r \in Nat
  BY RootNat
<1>2. cs \in Seq(Int) /\ Climbs(cs, {}) /\ ToSet(cs) = {c \in Nodes(d) : d.parent[c] = r}
  BY ChildrenAre
<1> HIDE DEF cs
<1>3. \A i \in DOMAIN cs : cs[i] \in Nodes(d) /\ d.parent[cs[i]] = r
  BY <1>2 DEF ToSet
<1>4. \A i \in DOMAIN cs : Reached(d, cs[i])
  BY <1>3, RootReaches
<1>5. \A i, j \in DOMAIN cs : i < j => cs[i] < cs[j] /\ ~Under(d, cs[i], cs[j])
  <2> SUFFICES ASSUME NEW i \in DOMAIN cs, NEW j \in DOMAIN cs, i < j
               PROVE  cs[i] < cs[j] /\ ~Under(d, cs[i], cs[j])
    OBVIOUS
  <2>1. cs[i] < cs[j]
    BY <1>2 DEF Climbs
  <2> QED BY <1>3, <2>1, SiblingsApart
<1>6. <<>> \in Seq(Int) /\ ToSet(<<>>) = {} /\ Pairwise(<<>>, Steps(d))
  BY ClimbNone, ClimbsSteps
<1>7. ASSUME NEW x \in Texts(d) PROVE \E i \in DOMAIN cs : In(d, cs[i], x)
  <2>1. x \in Nodes(d) /\ Under(d, r, x) /\ x \in Upto(d)
    BY TextIs
  <2>2. PICK c \in Upto(d) : d.parent[c] = r /\ (c = x \/ Under(d, c, x))
    BY <1>1, <2>1, ThroughChild
  <2>3. c \in Nodes(d)
    BY <2>1, <2>2, AliveUp
  <2>4. c \in ToSet(cs)
    BY <1>2, <2>2, <2>3
  <2>5. PICK i \in DOMAIN cs : c = cs[i]
    BY <2>4 DEF ToSet
  <2> QED BY <2>2, <2>5 DEF In
<1>8. Queue(d, cs)
  BY <1>2, <1>4, <1>5 DEF Queue
<1>9. Halfway(d, cs, <<>>)
  BY <1>6, <1>7 DEF Halfway
<1> QED BY <1>8, <1>9 DEF cs

-----------------------------------------------------------------------------
(* Blocks and what is in them.                                             *)

BlocksOK(bs) == (\E B : bs \in Seq(B)) /\ \A k \in DOMAIN bs : bs[k].items \in Seq(Int)

LEMMA FlattenTyped ==
    ASSUME NEW T, NEW ss \in Seq(Seq(T))
    PROVE  FlattenSeq(ss) \in Seq(T)
<1>1. CASE ss = <<>>
  <2>1. <<>> \in Seq(T)
    OBVIOUS
  <2> QED BY <1>1, <2>1, FlattenNone
<1>2. CASE ss # <<>>
  <2>1. PICK f : Joins(f, ss) /\ FlattenSeq(ss) = f[Len(ss)]
    BY <1>2, FlattenJoins
  <2>2. f \in [1 .. Len(ss) -> Seq(T)]
    BY <2>1, JoinsTyped
  <2> DEFINE S == Seq(T)
  <2>3. ss \in Seq(S)
    OBVIOUS
  <2> HIDE DEF S
  <2>4. Len(ss) \in 1 .. Len(ss)
    BY <1>2, <2>3
  <2>5. f \in [1 .. Len(ss) -> S]
    BY <2>2 DEF S
  <2>6. FlattenSeq(ss) \in S
    BY <2>1, <2>4, <2>5
  <2> QED BY <2>6 DEF S
<1> QED BY <1>1, <1>2

LEMMA ItemsListed ==
    ASSUME NEW bs, BlocksOK(bs)
    PROVE  [k \in DOMAIN bs |-> bs[k].items] \in Seq(Seq(Int)) /\ Items(bs) \in Seq(Int)
<1> DEFINE S == Seq(Int)
           l == [k \in DOMAIN bs |-> bs[k].items]
<1>1. PICK B : bs \in Seq(B)
  BY DEF BlocksOK
<1>2. DOMAIN bs = 1 .. Len(bs) /\ Len(bs) \in Nat
  BY <1>1
<1>3. \A k \in DOMAIN bs : bs[k].items \in S
  BY DEF BlocksOK
<1> HIDE DEF S
<1>4. l \in [1 .. Len(bs) -> S]
  BY <1>2, <1>3
<1>5. l \in Seq(S)
  BY <1>2, <1>4
<1>6. Items(bs) = FlattenSeq(l)
  BY DEF Items
<1> HIDE DEF l
<1>7. FlattenSeq(l) \in Seq(Int)
  BY <1>5, FlattenTyped DEF S
<1> QED BY <1>5, <1>6, <1>7 DEF S, l

(* One more block.                                                         *)
LEMMA ItemsOn ==
    ASSUME NEW bs, BlocksOK(bs), NEW b, b.items \in Seq(Int)
    PROVE  /\ BlocksOK(Append(bs, b)) /\ bs \o <<b>> = Append(bs, b)
           /\ Items(Append(bs, b)) = Items(bs) \o b.items
<1>1. PICK B : bs \in Seq(B)
  BY DEF BlocksOK
<1>2. bs \in Seq(B \cup {b})
  BY <1>1
<1>3. /\ Append(bs, b) \in Seq(B \cup {b}) /\ Len(Append(bs, b)) = Len(bs) + 1
      /\ Append(bs, b)[Len(bs) + 1] = b /\ \A i \in 1 .. Len(bs) : Append(bs, b)[i] = bs[i]
      /\ Len(bs) \in Nat /\ DOMAIN bs = 1 .. Len(bs)
      /\ DOMAIN Append(bs, b) = 1 .. Len(bs) + 1
  BY <1>2
<1>4. \A k \in DOMAIN Append(bs, b) : k = Len(bs) + 1 \/ k \in DOMAIN bs
  BY <1>3
<1>5. BlocksOK(Append(bs, b))
  BY <1>3, <1>4 DEF BlocksOK
<1>6. bs \o <<b>> = Append(bs, b)
  BY <1>2
<1> DEFINE l == [k \in DOMAIN bs |-> bs[k].items]
           m == [k \in DOMAIN Append(bs, b) |-> Append(bs, b)[k].items]
           S == Seq(Int)
           after == Append(bs, b)
<1>7. l \in Seq(Seq(Int)) /\ m \in Seq(Seq(Int))
  BY <1>5, ItemsListed
<1>8. m = Append(l, b.items)
  <2>1. l \in Seq(S) /\ m \in Seq(S) /\ b.items \in S
    BY <1>7
  <2> HIDE DEF S
  <2>2. DOMAIN l = 1 .. Len(bs) /\ DOMAIN m = 1 .. Len(bs) + 1
    BY <1>3
  <2>3. Len(l) = Len(bs) /\ Len(m) = Len(bs) + 1
    <3> HIDE DEF l, m
    <3> QED BY <1>3, <2>1, <2>2
  <2>4. \A i \in 1 .. Len(bs) : m[i] = l[i]
    <3> SUFFICES ASSUME NEW i \in 1 .. Len(bs) PROVE m[i] = l[i]
      OBVIOUS
    <3>1. i \in DOMAIN bs /\ i \in DOMAIN Append(bs, b) /\ Append(bs, b)[i] = bs[i]
      BY <1>3
    <3> QED BY <3>1
  <2>5. m[Len(bs) + 1] = b.items
    <3>1. Len(bs) + 1 \in DOMAIN Append(bs, b) /\ Append(bs, b)[Len(bs) + 1] = b
      BY <1>3
    <3> QED BY <3>1
  <2> HIDE DEF l, m
  <2> QED BY <1>3, <2>1, <2>2, <2>3, <2>4, <2>5
<1>9. Items(Append(bs, b)) = FlattenSeq(m) /\ Items(bs) = FlattenSeq(l)
  BY DEF Items
<1> HIDE DEF l, m
<1>10. FlattenSeq(Append(l, b.items)) = FlattenSeq(l) \o b.items
  BY <1>7, FlattenOn
<1> QED BY <1>5, <1>6, <1>8, <1>9, <1>10

LEMMA NoBlocks == BlocksOK(<<>>) /\ Items(<<>>) = <<>>
<1>1. <<>> \in Seq({}) /\ DOMAIN <<>> = {}
  OBVIOUS
<1>2. [k \in DOMAIN <<>> |-> <<>>[k].items] = <<>>
  OBVIOUS
<1> QED BY <1>1, <1>2, FlattenNone DEF BlocksOK, Items

(* What is held back.                                                      *)
HeldOK(h) == (\E H : h \in Seq(H)) /\ \A k \in DOMAIN h : h[k].at \in Int
Ats(h) == [k \in DOMAIN h |-> h[k].at]

LEMMA AtsAre ==
    ASSUME NEW h, HeldOK(h)
    PROVE  Ats(h) \in Seq(Int)
<1>1. PICK H : h \in Seq(H)
  BY DEF HeldOK
<1>2. DOMAIN h = 1 .. Len(h) /\ Len(h) \in Nat
  BY <1>1
<1>3. Ats(h) \in [1 .. Len(h) -> Int]
  BY <1>2 DEF Ats, HeldOK
<1> QED BY <1>2, <1>3

LEMMA OneMore ==
    ASSUME NEW a \in Seq(Int), NEW c \in Seq(Int), NEW v \in Int, Len(c) = Len(a) + 1,
           \A i \in 1 .. Len(a) : c[i] = a[i], c[Len(a) + 1] = v
    PROVE  c = a \o <<v>>
<1> DEFINE b == a \o <<v>>
<1>1. /\ b \in Seq(Int) /\ Len(b) = Len(a) + 1 /\ b[Len(a) + 1] = v
      /\ \A i \in 1 .. Len(a) : b[i] = a[i]
  OBVIOUS
<1>2. Len(a) \in Nat
  OBVIOUS
<1> HIDE DEF b
<1>3. \A i \in 1 .. Len(a) + 1 : c[i] = b[i]
  <2> SUFFICES ASSUME NEW i \in 1 .. Len(a) + 1 PROVE c[i] = b[i]
    OBVIOUS
  <2>1. i \in 1 .. Len(a) \/ i = Len(a) + 1
    BY <1>2
  <2> QED BY <1>1, <2>1
<1>4. c = b
  BY <1>1, <1>3
<1> QED BY <1>4 DEF b

LEMMA AtsOn ==
    ASSUME NEW h, HeldOK(h), NEW e, e.at \in Int
    PROVE  HeldOK(Append(h, e)) /\ Ats(Append(h, e)) = Ats(h) \o <<e.at>>
<1>1. PICK H : h \in Seq(H)
  BY DEF HeldOK
<1>2. h \in Seq(H \cup {e})
  BY <1>1
<1>3. /\ Append(h, e) \in Seq(H \cup {e})
      /\ Append(h, e)[Len(h) + 1] = e /\ \A i \in 1 .. Len(h) : Append(h, e)[i] = h[i]
      /\ Len(h) \in Nat /\ DOMAIN h = 1 .. Len(h)
      /\ DOMAIN Append(h, e) = 1 .. Len(h) + 1
  BY <1>2
<1>4. \A k \in DOMAIN Append(h, e) : k = Len(h) + 1 \/ k \in DOMAIN h
  BY <1>3
<1>5. HeldOK(Append(h, e))
  BY <1>3, <1>4 DEF HeldOK
<1>6. /\ Ats(h) \in Seq(Int) /\ DOMAIN Ats(h) = 1 .. Len(h)
      /\ \A i \in 1 .. Len(h) : Ats(h)[i] = h[i].at
      /\ Ats(Append(h, e)) \in Seq(Int) /\ DOMAIN Ats(Append(h, e)) = 1 .. Len(h) + 1
      /\ \A i \in 1 .. Len(h) + 1 : Ats(Append(h, e))[i] = Append(h, e)[i].at
  <2>1. Ats(h) \in Seq(Int) /\ Ats(Append(h, e)) \in Seq(Int)
    BY <1>5, AtsAre
  <2> QED BY <1>3, <2>1 DEF Ats
<1>7. Len(Ats(h)) = Len(h) /\ Len(Ats(Append(h, e))) = Len(h) + 1
  BY <1>3, <1>6
<1> DEFINE after == Append(h, e)
           a == Ats(h)
           c == Ats(after)
<1>8. after[Len(h) + 1] = e /\ \A i \in 1 .. Len(h) : after[i] = h[i]
  BY <1>3
<1>9. /\ \A i \in 1 .. Len(h) : a[i] = h[i].at
      /\ \A i \in 1 .. Len(h) + 1 : c[i] = after[i].at
      /\ a \in Seq(Int) /\ c \in Seq(Int) /\ Len(a) = Len(h) /\ Len(c) = Len(h) + 1
      /\ Len(h) \in Nat
  BY <1>3, <1>6, <1>7
<1> HIDE DEF after, a, c
<1>10. \A i \in 1 .. Len(h) : c[i] = a[i]
  <2> SUFFICES ASSUME NEW i \in 1 .. Len(h) PROVE c[i] = a[i]
    OBVIOUS
  <2>1. i \in 1 .. Len(h) + 1
    BY <1>9
  <2>2. c[i] = after[i].at
    BY <1>9, <2>1
  <2>3. after[i] = h[i] /\ a[i] = h[i].at
    BY <1>8, <1>9
  <2> QED BY <2>2, <2>3
<1>11. c[Len(h) + 1] = e.at
  BY <1>8, <1>9
<1>12. c = a \o <<e.at>>
  <2>1. \A i \in 1 .. Len(a) : c[i] = a[i]
    BY <1>9, <1>10
  <2>2. c[Len(a) + 1] = e.at /\ Len(c) = Len(a) + 1 /\ a \in Seq(Int) /\ c \in Seq(Int)
    BY <1>9, <1>11
  <2> QED BY ONLY <2>1, <2>2, e.at \in Int, OneMore
<1> QED BY <1>5, <1>12 DEF after, a, c

LEMMA NoneHeld == HeldOK(<<>>) /\ Ats(<<>>) = <<>>
<1>1. <<>> \in Seq({}) /\ DOMAIN <<>> = {}
  OBVIOUS
<1> QED BY <1>1 DEF HeldOK, Ats

(* The list that was held back is written.                                 *)
LEMMA FlushIs ==
    ASSUME BlocksOK(blocks), HeldOK(held), NEW kind
    PROVE  /\ BlocksOK(blocks \o Flush(kind))
           /\ Items(blocks \o Flush(kind)) = Items(blocks) \o Ats(held)
<1>1. CASE held = <<>>
  <2>1. PICK B : blocks \in Seq(B)
    BY DEF BlocksOK
  <2>2. blocks \o <<>> = blocks
    BY <2>1
  <2>3. Items(blocks) \in Seq(Int)
    BY ItemsListed
  <2>4. Items(blocks) \o <<>> = Items(blocks)
    BY <2>3
  <2> QED BY <1>1, <2>2, <2>4, NoneHeld DEF Flush
<1>2. CASE held # <<>>
  <2> DEFINE b == BlockOf(kind, held)
  <2>1. b.items = Ats(held)
    BY DEF BlockOf, Ats
  <2>2. Flush(kind) = <<b>>
    BY <1>2 DEF Flush
  <2> HIDE DEF b
  <2>3. b.items \in Seq(Int)
    BY <2>1, AtsAre
  <2> QED BY <2>1, <2>2, <2>3, ItemsOn
<1> QED BY <1>1, <1>2

(* One more place, above those there are.                                  *)
LEMMA ClimbUp ==
    ASSUME NEW D, NEW s \in Seq(Int), Climbs(s, D), NEW x \in Int, \A y \in ToSet(s) : y < x
    PROVE  s \o <<x>> \in Seq(Int) /\ Climbs(s \o <<x>>, D) /\ ToSet(s \o <<x>>) = ToSet(s) \cup {x}
<1>1. <<x>> \in Seq(Int) /\ ToSet(<<x>>) = {x} /\ Climbs(<<x>>, D)
  BY ClimbOne
<1>2. Below(ToSet(s), ToSet(<<x>>))
  BY <1>1 DEF Below
<1> QED BY <1>1, <1>2, ClimbOn

LEMMA Associate ==
    ASSUME NEW T, NEW a \in Seq(T), NEW b \in Seq(T), NEW c \in Seq(T)
    PROVE  (a \o b) \o c = a \o (b \o c)
BY SMTT(60)

LEMMA NothingAfter ==
    ASSUME NEW T, NEW a \in Seq(T)
    PROVE  a \o <<>> = a
BY SMTT(60)

LEMMA NoMore == \A s \in Seq(Int) : s \o <<>> = s
OBVIOUS

-----------------------------------------------------------------------------
(* A body of paragraphs and tables.                                        *)

(* The first m elements are walked: what they have to say is written or    *)
(* held back.                                                              *)
DocxDone(d, m, w, h, bs) ==
    /\ w \in Seq(Int) /\ Len(w) = Len(d) - m /\ \A i \in DOMAIN w : w[i] = m + i
    /\ BlocksOK(bs) /\ HeldOK(h)
    /\ Climbs(Items(bs) \o Ats(h), {})
    /\ ToSet(Items(bs) \o Ats(h)) = {k \in DocxContent(d) : k <= m}

DocxInv(d, w, h, bs) ==
    /\ d \in Seq(Elements)
    /\ \E m \in 0 .. Len(d) : DocxDone(d, m, w, h, bs)

LEMMA DocxBegun ==
    ASSUME NEW d \in Seq(Elements), NEW w, w = [k \in DOMAIN d |-> k]
    PROVE  DocxInv(d, w, <<>>, <<>>)
<1>1. Len(d) \in Nat /\ DOMAIN d = 1 .. Len(d)
  OBVIOUS
<1>2. w \in [1 .. Len(d) -> Int]
  BY <1>1
<1>3. w \in Seq(Int) /\ Len(w) = Len(d) - 0 /\ \A i \in DOMAIN w : w[i] = 0 + i
  BY <1>1, <1>2
<1>4. BlocksOK(<<>>) /\ HeldOK(<<>>) /\ Items(<<>>) = <<>> /\ Ats(<<>>) = <<>>
  BY NoBlocks, NoneHeld
<1>5. <<>> \o <<>> = <<>>
  BY ClimbNone, NoMore
<1>6. Climbs(<<>>, {}) /\ ToSet(<<>>) = {}
  BY ClimbNone
<1>7. {k \in DocxContent(d) : k <= 0} = {}
  BY <1>1 DEF DocxContent
<1>8. DocxDone(d, 0, w, <<>>, <<>>)
  BY <1>3, <1>4, <1>5, <1>6, <1>7 DEF DocxDone
<1>9. 0 \in 0 .. Len(d)
  BY <1>1
<1> QED BY <1>8, <1>9 DEF DocxInv

(* The next element is walked, and says something or nothing.              *)
LEMMA DocxOn ==
    ASSUME NEW d \in Seq(Elements), NEW m \in 0 .. Len(d), NEW w, NEW h, NEW bs,
           DocxDone(d, m, w, h, bs), w # <<>>,
           NEW h2, NEW bs2, BlocksOK(bs2), HeldOK(h2),
           \/ /\ Head(w) \in DocxContent(d)
              /\ Items(bs2) \o Ats(h2) = (Items(bs) \o Ats(h)) \o <<Head(w)>>
           \/ /\ Head(w) \notin DocxContent(d)
              /\ Items(bs2) \o Ats(h2) = Items(bs) \o Ats(h)
    PROVE  DocxInv(d, Tail(w), h2, bs2)
<1> DEFINE n == m + 1
           out == Items(bs) \o Ats(h)
           out2 == Items(bs2) \o Ats(h2)
           C == DocxContent(d)
<1>1. Len(d) \in Nat /\ DOMAIN d = 1 .. Len(d) /\ m \in Nat
  OBVIOUS
<1>2. w \in Seq(Int) /\ Len(w) = Len(d) - m /\ \A i \in DOMAIN w : w[i] = m + i
  BY DEF DocxDone
<1>3. /\ Head(w) = w[1] /\ 1 \in DOMAIN w
      /\ Tail(w) \in Seq(Int) /\ Len(Tail(w)) = Len(w) - 1 /\ Len(w) \in Nat \ {0}
      /\ \A i \in DOMAIN Tail(w) :
            i + 1 \in DOMAIN w /\ i \in Nat /\ i > 0 /\ Tail(w)[i] = w[i + 1]
  BY <1>2, HeadAndTail
<1>4. Head(w) = n /\ n \in 0 .. Len(d) /\ n \in Int
  <2>1. w[1] = m + 1
    BY <1>2, <1>3
  <2>2. Len(w) > 0 /\ Len(w) = Len(d) - m
    BY <1>2, <1>3
  <2>3. m < Len(d)
    <3>1. PICK a \in Nat : a = Len(w)
      BY <1>3
    <3>2. PICK b \in Nat : b = Len(d)
      BY <1>1
    <3>3. a > 0 /\ a = b - m /\ m \in Nat
      BY <1>1, <2>2, <3>1, <3>2
    <3>4. m < b
      BY ONLY <3>3, a \in Nat, b \in Nat
    <3> QED BY <3>2, <3>4
  <2>4. Head(w) = n
    BY <1>3, <2>1
  <2>5. n \in 0 .. Len(d) /\ n \in Int
    BY ONLY <1>1, <2>3
  <2> QED BY <2>4, <2>5
<1>5. /\ Tail(w) \in Seq(Int) /\ Len(Tail(w)) = Len(d) - n
      /\ \A i \in DOMAIN Tail(w) : Tail(w)[i] = n + i
  <2>1. Len(w) - 1 = Len(d) - n
    BY <1>1, <1>2
  <2> SUFFICES ASSUME NEW i \in DOMAIN Tail(w) PROVE Tail(w)[i] = n + i
    BY <1>3, <2>1
  <2>2. i \in Nat /\ Tail(w)[i] = w[i + 1] /\ i + 1 \in DOMAIN w
    BY <1>3
  <2>3. w[i + 1] = m + (i + 1)
    BY <1>2, <2>2
  <2> QED BY ONLY <1>1, <2>2, <2>3
<1>6. C \subseteq DOMAIN d
  BY DEF DocxContent
<1>7. out \in Seq(Int) /\ Climbs(out, {}) /\ ToSet(out) = {k \in C : k <= m}
  <2>1. Items(bs) \in Seq(Int) /\ Ats(h) \in Seq(Int)
    BY ItemsListed, AtsAre DEF DocxDone
  <2> QED BY <2>1 DEF DocxDone
<1> HIDE DEF C, out, out2, n
<1>8. CASE Head(w) \in C /\ out2 = out \o <<Head(w)>>
  <2>1. \A y \in ToSet(out) : y < n
    BY <1>1, <1>6, <1>7 DEF n
  <2>2. Climbs(out2, {}) /\ ToSet(out2) = ToSet(out) \cup {n}
    BY <1>4, <1>7, <1>8, <2>1, ClimbUp
  <2>3. {k \in C : k <= n} = {k \in C : k <= m} \cup {n}
    <3>1. \A k \in C : k <= n <=> k <= m \/ k = n
      BY <1>1, <1>6 DEF n
    <3> QED BY <1>4, <1>8, <3>1
  <2>4. DocxDone(d, n, Tail(w), h2, bs2)
    BY <1>5, <1>7, <2>2, <2>3 DEF DocxDone, C, out2
  <2> QED BY <1>4, <2>4 DEF DocxInv
<1>9. CASE Head(w) \notin C /\ out2 = out
  <2>1. {k \in C : k <= n} = {k \in C : k <= m}
    <3>1. \A k \in C : k <= n <=> k <= m \/ k = n
      BY <1>1, <1>6 DEF n
    <3>2. \A k \in C : k # n
      BY <1>4, <1>9
    <3> QED BY <3>1, <3>2
  <2>2. DocxDone(d, n, Tail(w), h2, bs2)
    BY <1>5, <1>7, <1>9, <2>1 DEF DocxDone, C, out2
  <2> QED BY <1>4, <2>2 DEF DocxInv
<1> QED BY <1>8, <1>9 DEF C, out, out2

(* The steps of the walk.                                                  *)
DocxStep ==
    SkipParagraph \/ HoldListItem \/ EmitParagraph \/ EmitDocxTable \/ SkipElement

LEMMA DocxKeeps ==
    ASSUME DocxInv(doc, work, held, blocks), DocxStep
    PROVE  DocxInv(doc, work', held', blocks')
<1>1. doc \in Seq(Elements)
  BY DEF DocxInv
<1>2. PICK m \in 0 .. Len(doc) : DocxDone(doc, m, work, held, blocks)
  BY DEF DocxInv
<1>3. BlocksOK(blocks) /\ HeldOK(held) /\ Items(blocks) \in Seq(Int) /\ Ats(held) \in Seq(Int)
  BY <1>2, ItemsListed, AtsAre DEF DocxDone
<1>4. work # <<>>
  BY DEF DocxStep, SkipParagraph, HoldListItem, EmitParagraph, EmitDocxTable, SkipElement, DocxWalks
<1>5. work' = Tail(work)
  BY DEF DocxStep, SkipParagraph, HoldListItem, EmitParagraph, EmitDocxTable, SkipElement
<1>6. /\ Head(work) \in DOMAIN doc /\ Head(work) \in Int
      /\ Element \in Elements
  <2>1. work \in Seq(Int) /\ Len(work) = Len(doc) - m /\ \A i \in DOMAIN work : work[i] = m + i
    BY <1>2 DEF DocxDone
  <2>2. Head(work) = work[1] /\ 1 \in DOMAIN work /\ Len(work) \in Nat \ {0}
    BY <1>4, <2>1, HeadAndTail
  <2>3. Len(doc) \in Nat /\ DOMAIN doc = 1 .. Len(doc)
    BY <1>1
  <2>4. Head(work) \in 1 .. Len(doc)
    BY <2>1, <2>2, <2>3
  <2> QED BY <1>1, <2>3, <2>4 DEF Element
<1>7. /\ Element.kind = "table" => Element.rows \in Nat
      /\ Head(work) \in DocxContent(doc) <=>
            \/ Element.kind = "table" /\ Element.rows > 0
            \/ Element.kind = "paragraph" /\ Element.text
  BY <1>6, FlowAssumption DEF DocxContent, Element, Tables
<1> DEFINE x == Head(work)
           out == Items(blocks) \o Ats(held)
<1>8. out \in Seq(Int)
  BY <1>3
<1>9. \A h2, bs2 : BlocksOK(bs2) /\ HeldOK(h2)
         /\ (\/ x \in DocxContent(doc) /\ Items(bs2) \o Ats(h2) = out \o <<x>>
             \/ x \notin DocxContent(doc) /\ Items(bs2) \o Ats(h2) = out)
         => DocxInv(doc, Tail(work), h2, bs2)
  BY <1>1, <1>2, <1>4, DocxOn
<1> HIDE DEF out, x
<1>10. CASE SkipParagraph
  <2>1. held' = held /\ blocks' = blocks /\ Element.kind = "paragraph" /\ ~Element.text
    BY <1>10 DEF SkipParagraph
  <2> QED BY <1>3, <1>5, <1>7, <1>9, <2>1 DEF out, x
<1>11. CASE HoldListItem
  <2> DEFINE e == [at |-> Head(work), indent |-> Indent(Element)]
  <2>1. /\ held' = Append(held, e) /\ blocks' = blocks
        /\ Element.kind = "paragraph" /\ Element.text
    BY <1>11 DEF HoldListItem, Paragraph
  <2>2. e.at = x
    BY DEF x
  <2> HIDE DEF e
  <2>3. HeldOK(held') /\ Ats(held') = Ats(held) \o <<x>>
    BY <1>3, <1>6, <2>1, <2>2, AtsOn DEF x
  <2>4. Items(blocks) \o (Ats(held) \o <<x>>) = (Items(blocks) \o Ats(held)) \o <<x>>
    <3>1. <<x>> \in Seq(Int)
      BY <1>6 DEF x
    <3> QED BY <1>3, <3>1, Associate
  <2>5. Items(blocks') \o Ats(held') = out \o <<x>>
    BY <2>1, <2>3, <2>4 DEF out
  <2>6. x \in DocxContent(doc)
    BY <1>7, <2>1 DEF x
  <2> QED BY <1>3, <1>5, <1>9, <2>1, <2>3, <2>5, <2>6
<1>12. BlocksOK(blocks \o Flush("list")) /\ Items(blocks \o Flush("list")) = out
  BY <1>3, FlushIs DEF out
<1>13. \A bs2 : Items(bs2) \in Seq(Int) => Items(bs2) \o Ats(<<>>) = Items(bs2)
  BY NoneHeld, NoMore
<1> DEFINE flushed == blocks \o Flush("list")
<1> HIDE DEF flushed
<1>14. ASSUME NEW b, b.items = <<x>>
       PROVE  /\ BlocksOK(Append(flushed, b)) /\ flushed \o <<b>> = Append(flushed, b)
              /\ Items(Append(flushed, b)) = out \o <<x>>
              /\ Items(Append(flushed, b)) \in Seq(Int)
  <2>1. <<x>> \in Seq(Int)
    BY <1>6 DEF x
  <2>2. /\ BlocksOK(Append(flushed, b)) /\ flushed \o <<b>> = Append(flushed, b)
        /\ Items(Append(flushed, b)) = Items(flushed) \o b.items
    BY <1>12, <1>14, <2>1, ItemsOn DEF flushed
  <2> QED BY <1>12, <1>14, <2>2, ItemsListed DEF flushed
<1>15. CASE EmitParagraph
  <2> DEFINE b == ParagraphBlock
  <2>1. /\ held' = <<>> /\ blocks' = Append(flushed, b)
        /\ Element.kind = "paragraph" /\ Element.text
    BY <1>15 DEF EmitParagraph, Paragraph, flushed
  <2>2. b.items = <<x>>
    BY DEF ParagraphBlock, Block, x
  <2> HIDE DEF b
  <2>3. BlocksOK(blocks') /\ Items(blocks') = out \o <<x>> /\ Items(blocks') \in Seq(Int)
    BY <1>14, <2>1, <2>2
  <2>4. Items(blocks') \o Ats(held') = out \o <<x>>
    BY <1>13, <2>1, <2>3
  <2>5. x \in DocxContent(doc) /\ HeldOK(held')
    BY <1>7, <2>1, NoneHeld DEF x
  <2> QED BY <1>5, <1>9, <2>3, <2>4, <2>5
<1>16. CASE EmitDocxTable
  <2> DEFINE b == Block("table", 0, <<Head(work)>>)
  <2>1. /\ held' = <<>> /\ Element.kind = "table"
        /\ blocks' = flushed \o (IF Element.rows = 0 THEN <<>> ELSE <<b>>)
    BY <1>16 DEF EmitDocxTable, flushed
  <2>2. b.items = <<x>>
    BY DEF Block, x
  <2> HIDE DEF b
  <2>3. CASE Element.rows = 0
    <3>1. blocks' = flushed
      <4>1. PICK B : flushed \in Seq(B)
        BY <1>12 DEF BlocksOK, flushed
      <4> QED BY <2>1, <2>3, <4>1
    <3>2. BlocksOK(blocks') /\ Items(blocks') = out
      BY <1>12, <3>1 DEF flushed
    <3>3. Items(blocks') \o Ats(held') = out
      BY <1>8, <1>13, <2>1, <3>2
    <3>4. x \notin DocxContent(doc) /\ HeldOK(held')
      BY <1>7, <2>1, <2>3, NoneHeld DEF x
    <3> QED BY <1>5, <1>9, <3>2, <3>3, <3>4
  <2>4. CASE Element.rows # 0
    <3>1. blocks' = Append(flushed, b)
      BY <1>14, <2>1, <2>2, <2>4
    <3>2. BlocksOK(blocks') /\ Items(blocks') = out \o <<x>> /\ Items(blocks') \in Seq(Int)
      BY <1>14, <2>2, <3>1
    <3>3. Items(blocks') \o Ats(held') = out \o <<x>>
      BY <1>13, <2>1, <3>2
    <3>4. x \in DocxContent(doc) /\ HeldOK(held')
      BY <1>7, <2>1, <2>4, NoneHeld DEF x
    <3> QED BY <1>5, <1>9, <3>2, <3>3, <3>4
  <2> QED BY <2>3, <2>4
<1>17. CASE SkipElement
  <2>1. held' = held /\ blocks' = blocks /\ Element.kind = "other"
    BY <1>17 DEF SkipElement
  <2> QED BY <1>3, <1>5, <1>7, <1>9, <2>1 DEF out, x
<1> QED BY <1>10, <1>11, <1>15, <1>16, <1>17 DEF DocxStep

(* At the end everything is written.                                       *)
LEMMA DocxEnds ==
    ASSUME DocxInv(doc, work, held, blocks), EndDocx
    PROVE  /\ ToSet(Items(blocks')) = DocxContent(doc) /\ Climbs(Items(blocks'), {})
           /\ Items(blocks') \in Seq(Int)
<1>1. PICK m \in 0 .. Len(doc) : DocxDone(doc, m, work, held, blocks)
  BY DEF DocxInv
<1>2. doc \in Seq(Elements)
  BY DEF DocxInv
<1>3. work = <<>> /\ blocks' = blocks \o Flush("list")
  BY DEF EndDocx
<1>4. BlocksOK(blocks') /\ Items(blocks') = Items(blocks) \o Ats(held)
  BY <1>1, <1>3, FlushIs DEF DocxDone
<1>5. m = Len(doc) /\ DOMAIN doc = 1 .. Len(doc) /\ Len(doc) \in Nat
  BY <1>1, <1>2, <1>3 DEF DocxDone
<1>6. {k \in DocxContent(doc) : k <= m} = DocxContent(doc)
  BY <1>5 DEF DocxContent
<1> QED BY <1>1, <1>4, <1>6, ItemsListed DEF DocxDone

-----------------------------------------------------------------------------
(* Slides: titles, shapes, notes.                                          *)

LEMMA FourLists ==
    ASSUME NEW T, NEW a \in Seq(T), NEW b \in Seq(T), NEW c \in Seq(T), NEW t \in Seq(T),
           NEW s, s = a \o b \o c \o t
    PROVE  /\ s \in Seq(T) /\ Len(s) = Len(a) + Len(b) + Len(c) + Len(t)
           /\ \A i \in 1 .. Len(a) : s[i] = a[i]
           /\ \A i \in 1 .. Len(b) : s[Len(a) + i] = b[i]
           /\ \A i \in 1 .. Len(c) : s[Len(a) + Len(b) + i] = c[i]
           /\ \A i \in 1 .. Len(t) : s[Len(a) + Len(b) + Len(c) + i] = t[i]
<1> DEFINE ab == a \o b
           abc == ab \o c
<1>1. /\ ab \in Seq(T) /\ Len(ab) = Len(a) + Len(b)
      /\ \A i \in 1 .. Len(a) : ab[i] = a[i]
      /\ \A i \in 1 .. Len(b) : ab[Len(a) + i] = b[i]
  BY JoinedLists
<1> HIDE DEF ab
<1>2. /\ abc \in Seq(T) /\ Len(abc) = Len(ab) + Len(c)
      /\ \A i \in 1 .. Len(ab) : abc[i] = ab[i]
      /\ \A i \in 1 .. Len(c) : abc[Len(ab) + i] = c[i]
  <2>1. ab \in Seq(T)
    BY <1>1
  <2> QED BY ONLY <2>1, c \in Seq(T), JoinedLists
<1> HIDE DEF abc
<1>3. s = abc \o t
  BY DEF abc, ab
<1>4. /\ s \in Seq(T) /\ Len(s) = Len(abc) + Len(t)
      /\ \A i \in 1 .. Len(abc) : s[i] = abc[i]
      /\ \A i \in 1 .. Len(t) : s[Len(abc) + i] = t[i]
  <2>1. abc \in Seq(T)
    BY <1>2
  <2> QED BY ONLY <1>3, <2>1, t \in Seq(T), JoinedLists
<1>5. Len(a) \in Nat /\ Len(b) \in Nat /\ Len(c) \in Nat /\ Len(t) \in Nat
  OBVIOUS
<1>6. Len(abc) = Len(a) + Len(b) + Len(c)
  BY <1>1, <1>2
<1>7. \A i \in 1 .. Len(a) : s[i] = a[i]
  <2> SUFFICES ASSUME NEW i \in 1 .. Len(a) PROVE s[i] = a[i]
    OBVIOUS
  <2>1. i \in 1 .. Len(ab) /\ i \in 1 .. Len(abc)
    BY <1>1, <1>5, <1>6
  <2> QED BY <1>1, <1>2, <1>4, <2>1
<1>8. \A i \in 1 .. Len(b) : s[Len(a) + i] = b[i]
  <2> SUFFICES ASSUME NEW i \in 1 .. Len(b) PROVE s[Len(a) + i] = b[i]
    OBVIOUS
  <2>1. Len(a) + i \in 1 .. Len(ab) /\ Len(a) + i \in 1 .. Len(abc)
    BY <1>1, <1>5, <1>6
  <2> QED BY <1>1, <1>2, <1>4, <2>1
<1>9. \A i \in 1 .. Len(c) : s[Len(a) + Len(b) + i] = c[i]
  <2> SUFFICES ASSUME NEW i \in 1 .. Len(c) PROVE s[Len(a) + Len(b) + i] = c[i]
    OBVIOUS
  <2>1. Len(ab) + i \in 1 .. Len(abc) /\ Len(ab) + i = Len(a) + Len(b) + i
    BY <1>1, <1>5, <1>6
  <2> QED BY <1>2, <1>4, <2>1
<1> QED BY <1>4, <1>6, <1>7, <1>8, <1>9

(* What a deck says, place by place.                                       *)
LEMMA NotesNat == NotesPart \in Nat \ {0}
BY FlowAssumption

LEMMA Wider ==
    ASSUME NEW W \in Nat, NEW j \in Int, NEW k \in Int, j < k
    PROVE  W * j \in Int /\ W * k \in Int /\ W * j + W <= W * k
<1>1. PICK e \in Nat : k = j + 1 + e
  <2>1. k - j - 1 \in Nat /\ k = j + 1 + (k - j - 1)
    OBVIOUS
  <2> QED BY <2>1
<1>2. W * e \in Nat /\ W * j \in Int
  OBVIOUS
<1>3. W * k = W * j + W + W * e
  BY <1>1
<1> QED BY <1>2, <1>3

LEMMA SlidesAre ==
    ASSUME NEW d \in Seq(Slides), NEW k \in DOMAIN d
    PROVE  /\ d[k].title \in {"none", "blank", "text"} /\ d[k].notes \in BOOLEAN
           /\ d[k].shapes \in Seq(Shapes) /\ Len(d[k].shapes) \in 0 .. NotesPart - 1
           /\ DOMAIN d[k].shapes = 1 .. Len(d[k].shapes)
           /\ Len(d) \in Nat /\ DOMAIN d = 1 .. Len(d) /\ k \in 1 .. Len(d)
<1>1. d[k] \in Slides /\ Len(d) \in Nat /\ DOMAIN d = 1 .. Len(d) /\ k \in 1 .. Len(d)
  OBVIOUS
<1>2. /\ d[k].title \in {"none", "blank", "text"} /\ d[k].notes \in BOOLEAN
      /\ d[k].shapes \in Seq(Shapes) /\ Len(d[k].shapes) < NotesPart
  BY <1>1, FlowAssumption
<1>3. Len(d[k].shapes) \in Nat /\ DOMAIN d[k].shapes = 1 .. Len(d[k].shapes)
  BY <1>2
<1>4. \A n, p \in Nat : n < p => n \in 0 .. p - 1
  OBVIOUS
<1>5. Len(d[k].shapes) \in 0 .. NotesPart - 1
  BY <1>2, <1>3, <1>4, NotesNat
<1> QED BY <1>1, <1>2, <1>3, <1>5

LEMMA SpeakingAre ==
    ASSUME NEW d \in Seq(Slides), NEW k \in DOMAIN d
    PROVE  /\ Speaking(d[k]) \subseteq 0 .. Len(d[k].shapes) \cup {NotesPart}
           /\ 0 \in Speaking(d[k]) <=> d[k].title = "text"
           /\ NotesPart \in Speaking(d[k]) <=> d[k].notes
           /\ \A q \in 1 .. Len(d[k].shapes) :
                 q \in Speaking(d[k]) <=>
                    \/ d[k].shapes[q].kind = "table" /\ d[k].shapes[q].rows > 0
                    \/ d[k].shapes[q].kind = "frame" /\ d[k].shapes[q].levels # <<>>
<1>1. /\ DOMAIN d[k].shapes = 1 .. Len(d[k].shapes)
      /\ Len(d[k].shapes) \in 0 .. NotesPart - 1 /\ NotesPart \in Nat \ {0}
  BY SlidesAre, NotesNat
<1> DEFINE sh == d[k].shapes
           P == {q \in DOMAIN sh : LET shape == sh[q]
                 IN  \/ shape.kind = "table" /\ shape.rows > 0
                     \/ shape.kind = "frame" /\ shape.levels # <<>>}
<1>2. Speaking(d[k]) = P \cup {q \in {0} : d[k].title = "text"}
                         \cup {q \in {NotesPart} : d[k].notes}
  BY DEF Speaking
<1>3. P \subseteq 1 .. Len(sh)
  BY <1>1
<1>4. \A q \in 1 .. Len(sh) : q \in P <=> \/ sh[q].kind = "table" /\ sh[q].rows > 0
                                          \/ sh[q].kind = "frame" /\ sh[q].levels # <<>>
  BY <1>1
<1>5. PICK n \in 0 .. NotesPart - 1 : n = Len(sh)
  BY <1>1
<1> HIDE DEF P, sh
<1>6. \A q \in 1 .. n : q # 0 /\ q # NotesPart
  BY <1>1
<1>7. 1 .. n \subseteq 0 .. n /\ 0 \in 0 .. n
  BY <1>1
<1>8. P \subseteq 1 .. n /\ 0 \notin P /\ NotesPart \notin P
  BY <1>3, <1>5, <1>6
<1>9. Speaking(d[k]) \subseteq 0 .. n \cup {NotesPart}
  BY <1>2, <1>7, <1>8
<1>10. 0 \in Speaking(d[k]) <=> d[k].title = "text"
  BY <1>1, <1>2, <1>8
<1>11. NotesPart \in Speaking(d[k]) <=> d[k].notes
  BY <1>1, <1>2, <1>8
<1>12. \A q \in 1 .. n : q \in Speaking(d[k]) <=>
             \/ sh[q].kind = "table" /\ sh[q].rows > 0
             \/ sh[q].kind = "frame" /\ sh[q].levels # <<>>
  BY <1>1, <1>2, <1>4, <1>5, <1>6
<1> QED BY <1>5, <1>9, <1>10, <1>11, <1>12 DEF sh

LEMMA PlacesAre ==
    ASSUME NEW d \in Seq(Slides)
    PROVE  /\ PptxContent(d) \subseteq Int
           /\ \A k \in 1 .. Len(d), q \in 0 .. NotesPart :
                 Place(k, q) \in PptxContent(d) <=> q \in Speaking(d[k])
           /\ \A k \in 1 .. Len(d), x \in PptxContent(d) :
                 x < Place(k, Len(d[k].shapes) + 1) <=> x < Place(k, NotesPart)
           /\ \A x \in PptxContent(d) : Place(1, 0) <= x /\ x < Place(Len(d) + 1, 0)
<1> DEFINE N == NotesPart
           W == N + 1
<1>1. /\ DOMAIN d = 1 .. Len(d) /\ Len(d) \in Nat /\ N \in Nat \ {0} /\ W \in Nat
      /\ \A k \in DOMAIN d : Len(d[k].shapes) \in 0 .. N - 1
      /\ \A k, q : Place(k, q) = W * k + q
  BY SlidesAre, NotesNat DEF Place
<1>2. \A x : x \in PptxContent(d) <=> \E k \in DOMAIN d : \E q \in Speaking(d[k]) : x = Place(k, q)
  BY DEF PptxContent
<1>3. \A k \in DOMAIN d : \A q \in Speaking(d[k]) : q \in 0 .. Len(d[k].shapes) \/ q = N
  BY SpeakingAre
<1>4. W = N + 1
  OBVIOUS
<1> HIDE DEF W
<1> DEFINE At(x, j, p) == /\ j \in 1 .. Len(d) /\ p \in Speaking(d[j]) /\ x = W * j + p
                          /\ p \in 0 .. Len(d[j].shapes) \/ p = N
<1>5. \A x \in PptxContent(d) : \E j, p : At(x, j, p)
  BY <1>1, <1>2, <1>3
<1>6. ASSUME NEW x, NEW j, NEW p, At(x, j, p)
      PROVE  /\ j \in 1 .. Len(d) /\ j \in DOMAIN d /\ j \in Int /\ p \in 0 .. N
             /\ x = W * j + p /\ p \in Speaking(d[j])
  <2>1. j \in DOMAIN d
    BY <1>1, <1>6
  <2>2. PICK n \in 0 .. N - 1 : n = Len(d[j].shapes)
    BY <1>1, <2>1
  <2>3. p \in 0 .. n \/ p = N
    BY <1>6, <2>2
  <2>4. p \in 0 .. N
    <3>1. n \in 0 .. N - 1 /\ N \in Nat
      BY <1>1
    <3>2. CASE p \in 0 .. n
      BY ONLY <3>1, <3>2
    <3>3. CASE p = N
      BY ONLY <3>1, <3>3
    <3> QED BY <2>3, <3>2, <3>3
  <2> QED BY <1>6, <2>1, <2>4
<1> HIDE DEF At
<1>7. PptxContent(d) \subseteq Int
  <2> SUFFICES ASSUME NEW x \in PptxContent(d) PROVE x \in Int
    OBVIOUS
  <2>1. PICK k, q : At(x, k, q)
    BY <1>5
  <2>2. x = W * k + q /\ k \in Int /\ q \in 0 .. N
    BY <1>6, <2>1
  <2> QED BY ONLY <1>1, <2>2
(* Of two places the one in the later slide is the later one.              *)
<1>8. ASSUME NEW j \in Int, NEW k \in Int, NEW p \in 0 .. N, j < k
      PROVE  W * j \in Int /\ W * k \in Int /\ W * j + p < W * k
  <2>1. W * j \in Int /\ W * k \in Int /\ W * j + W <= W * k
    BY <1>1, <1>8, Wider
  <2>2. p \in Int /\ p < W
    BY <1>1, <1>4
  <2>3. PICK a \in Int : a = W * j
    BY <2>1
  <2>4. PICK b \in Int : b = W * k
    BY <2>1
  <2>5. a + W <= b /\ W \in Nat
    BY <1>1, <2>1, <2>3, <2>4
  <2>6. a + p < b
    BY ONLY <2>2, <2>5, a \in Int, b \in Int
  <2> QED BY <2>1, <2>3, <2>4, <2>6
<1>9. ASSUME NEW k \in 1 .. Len(d), NEW q \in 0 .. NotesPart
      PROVE  Place(k, q) \in PptxContent(d) <=> q \in Speaking(d[k])
  <2>1. q \in Speaking(d[k]) => Place(k, q) \in PptxContent(d)
    BY <1>1, <1>2
  <2>2. ASSUME Place(k, q) \in PptxContent(d) PROVE q \in Speaking(d[k])
    <3>1. PICK j, p : At(Place(k, q), j, p)
      BY <1>5, <2>2
    <3>2. /\ p \in 0 .. N /\ j \in Int /\ Place(k, q) = W * j + p
          /\ p \in Speaking(d[j])
      BY <1>6, <3>1
    <3>3. q \in 0 .. N /\ W * k + q = W * j + p /\ k \in Int
      BY <1>1, <3>2
    <3>4. PICK y : y = W * k + q
      OBVIOUS
    <3>5. ~(j < k)
      <4>1. ASSUME j < k PROVE FALSE
        <5>1. W * j + p < W * k /\ W * k \in Int
          BY <1>8, <3>2, <3>3, <4>1
        <5>2. PICK b \in Int : b = W * k
          BY <5>1
        <5>3. b + q < b
          BY <3>3, <5>1, <5>2
        <5>4. q \in Int /\ q >= 0
          BY <1>1, <3>3
        <5> QED BY ONLY <5>3, <5>4, b \in Int
      <4> QED BY <4>1
    <3>6. ~(k < j)
      <4>1. ASSUME k < j PROVE FALSE
        <5>1. W * k + q < W * j /\ W * j \in Int
          BY <1>8, <3>2, <3>3, <4>1
        <5>2. PICK b \in Int : b = W * j
          BY <5>1
        <5>3. b + p < b
          BY <3>3, <5>1, <5>2
        <5>4. p \in Int /\ p >= 0
          BY <1>1, <3>2
        <5> QED BY ONLY <5>3, <5>4, b \in Int
      <4> QED BY <4>1
    <3>7. k = j
      BY <3>2, <3>3, <3>5, <3>6
    <3>8. p = q
      <4>1. PICK b \in Int : b = W * k
        BY <1>1, <3>3
      <4>2. b + q = b + p /\ p \in Int /\ q \in Int
        BY <1>1, <3>2, <3>3, <3>7, <4>1
      <4> QED BY ONLY <4>2, b \in Int
    <3> QED BY <3>2, <3>7, <3>8
  <2> QED BY <2>1, <2>2
<1>10. ASSUME NEW k \in 1 .. Len(d), NEW x \in PptxContent(d)
       PROVE  x < Place(k, Len(d[k].shapes) + 1) <=> x < Place(k, NotesPart)
  <2>1. PICK j, p : At(x, j, p)
    BY <1>5
  <2>2. x = W * j + p /\ j \in Int /\ p \in 0 .. N
    BY <1>6, <2>1
  <2>3. PICK n \in 0 .. N - 1 : n = Len(d[k].shapes)
    BY <1>1
  <2>4. n \in Nat /\ n < N /\ k \in Int /\ N \in Nat
    BY <1>1
  <2>5. j = k => p \in 0 .. n \/ p = N
    BY <2>1, <2>3 DEF At
  <2>6. PICK b \in Int : b = W * k
    BY <1>1, <2>4
  <2>7. x < b + (n + 1) <=> x < b + N
    <3>1. CASE j < k
      <4>1. x < b /\ x \in Int
        <5>1. W * j + p < W * k /\ W * j \in Int
          BY <1>8, <2>2, <2>4, <3>1
        <5> QED BY <2>2, <2>6, <5>1
      <4> QED BY ONLY <2>4, <4>1, b \in Int
    <3>2. CASE j = k
      <4>1. x = b + p /\ (p \in 0 .. n \/ p = N)
        BY <2>2, <2>5, <2>6, <3>2
      <4> QED BY ONLY <2>4, <4>1, b \in Int
    <3>3. CASE k < j
      <4>1. b + N < x /\ x \in Int
        <5>1. W * k + N < W * j /\ W * j \in Int
          <6>1. N \in 0 .. N
            BY <1>1
          <6> QED BY <1>8, <2>2, <2>4, <3>3, <6>1
        <5>2. PICK c \in Int : c = W * j
          BY <5>1
        <5>3. b + N < c /\ x = c + p /\ p \in Int /\ p >= 0
          BY <1>1, <2>2, <2>6, <5>1, <5>2
        <5> QED BY ONLY <2>4, <5>3, b \in Int, c \in Int
      <4> QED BY ONLY <2>4, <4>1, b \in Int
    <3> QED BY <2>2, <2>4, <3>1, <3>2, <3>3
  <2> QED BY <1>1, <2>3, <2>6, <2>7
<1>11. ASSUME NEW x \in PptxContent(d)
       PROVE  Place(1, 0) <= x /\ x < Place(Len(d) + 1, 0)
  <2>1. PICK j, p : At(x, j, p)
    BY <1>5
  <2>2. x = W * j + p /\ j \in Int /\ j >= 1 /\ j < Len(d) + 1 /\ p \in 0 .. N
    BY <1>1, <1>6, <2>1
  <2>3. W * j + p < W * (Len(d) + 1)
    <3>1. Len(d) + 1 \in Int
      BY <1>1
    <3> QED BY <1>8, <2>2, <3>1
  <2>4. W * 1 + 0 <= x
    <3>1. CASE j = 1
      <4>1. p \in Int /\ p >= 0 /\ x = W * 1 + p
        BY <1>1, <2>2, <3>1
      <4> QED BY ONLY <1>1, <4>1
    <3>2. CASE 1 < j
      <4>1. W * 1 + 0 < W * j /\ W * j \in Int
        <5>1. 0 \in 0 .. N /\ 1 \in Int
          BY <1>1
        <5> QED BY <1>8, <2>2, <3>2, <5>1
      <4>2. PICK c \in Int : c = W * j
        BY <4>1
      <4>3. W * 1 + 0 < c /\ x = c + p /\ p \in Int /\ p >= 0 /\ W \in Nat
        BY <1>1, <2>2, <4>1, <4>2
      <4> QED BY ONLY <4>3, c \in Int
    <3> QED BY <2>2, <3>1, <3>2
  <2>5. W * (Len(d) + 1) + 0 = W * (Len(d) + 1)
    BY <1>1
  <2> QED BY <1>1, <2>2, <2>3, <2>4, <2>5
<1> QED BY <1>7, <1>9, <1>10, <1>11

(* All that is said up to a place, a title perhaps twice.                  *)
Told(d, s, place) ==
    /\ s \in Seq(Int) /\ Climbs(s, PptxTitles(d))
    /\ ToSet(s) = {x \in PptxContent(d) : x < place}

LEMMA ToldOn ==
    ASSUME NEW d \in Seq(Slides), NEW p \in Int, NEW s, Told(d, s, p), NEW s2,
           \/ p \in PptxContent(d) /\ s2 = s \o <<p>>
           \/ p \notin PptxContent(d) /\ s2 = s
    PROVE  Told(d, s2, p + 1)
<1>1. PptxContent(d) \subseteq Int
  BY PlacesAre
<1> DEFINE C == PptxContent(d)
           D == PptxTitles(d)
<1>2. s \in Seq(Int) /\ Climbs(s, D) /\ ToSet(s) = {x \in C : x < p}
  BY DEF Told
<1>3. \A x \in C : x < p + 1 <=> x < p \/ x = p
  BY <1>1
<1> HIDE DEF C, D
<1>4. CASE p \in C /\ s2 = s \o <<p>>
  <2>1. s2 \in Seq(Int) /\ Climbs(s2, D) /\ ToSet(s2) = ToSet(s) \cup {p}
    BY <1>2, <1>4, ClimbUp
  <2>2. {x \in C : x < p + 1} = {x \in C : x < p} \cup {p}
    BY <1>3, <1>4
  <2> QED BY <1>2, <2>1, <2>2 DEF Told, C, D
<1>5. CASE p \notin C /\ s2 = s
  <2>1. {x \in C : x < p + 1} = {x \in C : x < p}
    BY <1>3, <1>5
  <2> QED BY <1>2, <1>5, <2>1 DEF Told, C, D
<1> QED BY <1>4, <1>5 DEF C

LEMMA ToldTwice ==
    ASSUME NEW d \in Seq(Slides), NEW p \in Int, p \in PptxContent(d), p \in PptxTitles(d),
           NEW s, Told(d, s, p)
    PROVE  Told(d, (s \o <<p>>) \o <<p>>, p + 1)
<1> DEFINE D == PptxTitles(d)
           two == <<p>> \o <<p>>
<1>1. Told(d, s \o <<p>>, p + 1)
  BY ToldOn
<1>2. s \in Seq(Int) /\ Climbs(s, D) /\ \A x \in ToSet(s) : x < p
  BY DEF Told
<1>3. <<p>> \in Seq(Int) /\ ToSet(<<p>>) = {p}
  BY ClimbOne
<1>4. two \in Seq(Int) /\ ToSet(two) = {p}
  BY <1>3, ClimbOn
<1>5. Climbs(two, D)
  <2>1. /\ Len(two) = 2 /\ \A i \in 1 .. Len(<<p>>) : two[i] = <<p>>[i]
        /\ \A i \in 1 .. Len(<<p>>) : two[Len(<<p>>) + i] = <<p>>[i]
    BY <1>3, JoinedLists
  <2>2. Len(<<p>>) = 1 /\ <<p>>[1] = p
    OBVIOUS
  <2> HIDE DEF two, D
  <2>5. DOMAIN two = {1, 2} /\ two[1] = p /\ two[2] = p
    <3>1. DOMAIN two = 1 .. 2
      BY <1>4, <2>1
    <3> QED BY <2>1, <2>2, <3>1
  <2>3. \A i, j \in DOMAIN two : i < j => i = 1 /\ j = 2
    BY <2>5
  <2>4. p \in D
    BY DEF D
  <2> QED BY <2>3, <2>4, <2>5 DEF Climbs
<1>6. (s \o <<p>>) \o <<p>> = s \o two
  BY <1>2, <1>3, Associate
<1> HIDE DEF two, D
<1>7. Below(ToSet(s), ToSet(two))
  BY <1>2, <1>4 DEF Below
<1>8. s \o two \in Seq(Int) /\ Climbs(s \o two, D) /\ ToSet(s \o two) = ToSet(s) \cup {p}
  BY <1>2, <1>4, <1>5, <1>7, ClimbOn
<1>9. ToSet(s \o <<p>>) = ToSet(s) \cup {p}
  BY <1>2, <1>3, ClimbOn
<1> QED BY <1>1, <1>6, <1>8, <1>9 DEF Told, D

-----------------------------------------------------------------------------
(* What is left of a deck: the slides after m ...                          *)
AtSlide(d, m, w) ==
    /\ w \in Seq(Seq(Int)) /\ Len(w) = Len(d) - m
    /\ \A i \in 1 .. Len(w) : w[i] = <<m + i>>

(* ... and the parts of slide m from part q on, its notes being the last.  *)
AtPart(d, m, q, w) ==
    LET parts == Len(d[m].shapes) + 1 - q
    IN  /\ w \in Seq(Seq(Int)) /\ Len(w) = parts + 1 + Len(d) - m
        /\ \A i \in 1 .. Len(w) :
              w[i] = IF i <= parts THEN <<m, q + i - 1>>
                     ELSE IF i = parts + 1 THEN <<m, NotesPart>>
                     ELSE <<m + i - (parts + 1)>>

LEMMA Tuples ==
    ASSUME NEW h, NEW x \in Int, NEW y \in Int, h = <<x, y>>
    PROVE  Len(h) = 2 /\ h[1] = x /\ h[2] = y
OBVIOUS

LEMMA Single ==
    ASSUME NEW h, NEW x \in Int, h = <<x>>
    PROVE  Len(h) = 1 /\ h[1] = x
OBVIOUS

LEMMA TailList ==
    ASSUME NEW T, NEW w \in Seq(T), Len(w) > 0
    PROVE  /\ w # <<>> /\ Head(w) = w[1] /\ Tail(w) \in Seq(T) /\ Len(Tail(w)) = Len(w) - 1
           /\ \A i \in 1 .. Len(w) - 1 : Tail(w)[i] = w[i + 1]
  OBVIOUS

LEMMA NextSlide ==
    ASSUME NEW d \in Seq(Slides), NEW m \in 0 .. Len(d), NEW w, AtSlide(d, m, w), w # <<>>
    PROVE  /\ m + 1 \in 1 .. Len(d) /\ Head(w) = <<m + 1>> /\ Len(Head(w)) = 1
           /\ Head(w)[1] = m + 1 /\ AtSlide(d, m + 1, Tail(w))
<1> DEFINE S == Seq(Int)
<1>1. Len(d) \in Nat /\ m \in Nat /\ m <= Len(d)
  OBVIOUS
<1>2. w \in Seq(S) /\ Len(w) = Len(d) - m /\ \A i \in 1 .. Len(w) : w[i] = <<m + i>>
  BY DEF AtSlide
<1> HIDE DEF S
<1>3. Len(w) \in Nat /\ Len(w) > 0
  BY <1>2
<1>4. /\ Head(w) = w[1] /\ Tail(w) \in Seq(S) /\ Len(Tail(w)) = Len(w) - 1
      /\ \A i \in 1 .. Len(w) - 1 : Tail(w)[i] = w[i + 1]
  BY <1>2, <1>3, TailList
<1>5. m + 1 \in 1 .. Len(d) /\ Len(Tail(w)) = Len(d) - (m + 1)
  BY <1>1, <1>2, <1>3, <1>4
<1>6. Head(w) = <<m + 1>>
  BY <1>2, <1>3, <1>4
<1>7. ASSUME NEW i \in 1 .. Len(Tail(w)) PROVE Tail(w)[i] = <<(m + 1) + i>>
  <2>1. i \in 1 .. Len(w) - 1 /\ i + 1 \in 1 .. Len(w) /\ m + (i + 1) = (m + 1) + i
    BY <1>1, <1>3, <1>4
  <2> QED BY <1>2, <1>4, <2>1
<1>8. AtSlide(d, m + 1, Tail(w))
  BY <1>4, <1>5, <1>7 DEF AtSlide, S
<1>9. Len(Head(w)) = 1 /\ Head(w)[1] = m + 1
  <2>1. m + 1 \in Int
    BY <1>1
  <2> QED BY ONLY <1>6, <2>1, Single
<1> QED BY <1>5, <1>6, <1>8, <1>9

LEMMA NextPart ==
    ASSUME NEW d \in Seq(Slides), NEW m \in 1 .. Len(d), NEW q \in 0 .. Len(d[m].shapes) + 1,
           NEW w, AtPart(d, m, q, w)
    PROVE  /\ w # <<>> /\ Len(Head(w)) = 2 /\ Head(w)[1] = m
           /\ q <= Len(d[m].shapes) => Head(w)[2] = q /\ AtPart(d, m, q + 1, Tail(w))
           /\ q = Len(d[m].shapes) + 1 => Head(w)[2] = NotesPart /\ AtSlide(d, m, Tail(w))
<1> DEFINE S == Seq(Int)
<1>1. Len(d) \in Nat /\ m \in Nat /\ m <= Len(d)
  OBVIOUS
<1>2. PICK n \in Nat : n = Len(d[m].shapes)
  <2>1. m \in DOMAIN d
    OBVIOUS
  <2> QED BY <2>1, SlidesAre, NotesNat
<1>3. q \in Nat /\ q <= n + 1
  BY <1>2
<1> DEFINE parts == n + 1 - q
<1>4. /\ w \in Seq(S) /\ Len(w) = parts + 1 + Len(d) - m
      /\ \A i \in 1 .. Len(w) :
            w[i] = IF i <= parts THEN <<m, q + i - 1>>
                   ELSE IF i = parts + 1 THEN <<m, NotesPart>>
                   ELSE <<m + i - (parts + 1)>>
  BY <1>2 DEF AtPart
<1>5. parts \in Nat
  BY <1>3
<1> HIDE DEF S
<1>6. Len(w) \in Nat /\ Len(w) > 0 /\ 1 \in 1 .. Len(w)
  BY <1>1, <1>4, <1>5
<1>7. /\ w # <<>> /\ Head(w) = w[1] /\ Tail(w) \in Seq(S) /\ Len(Tail(w)) = Len(w) - 1
      /\ \A i \in 1 .. Len(w) - 1 : Tail(w)[i] = w[i + 1]
  BY <1>4, <1>6, TailList
<1>8. w[1] = IF 1 <= parts THEN <<m, q + 1 - 1>> ELSE <<m, NotesPart>>
  <2>1. ~(1 <= parts) => 1 = parts + 1
    BY <1>5
  <2> HIDE DEF parts
  <2> QED BY <1>4, <1>6, <2>1
<1>9. ASSUME NEW i \in 1 .. Len(w) - 1
      PROVE  Tail(w)[i] = IF i + 1 <= parts THEN <<m, q + i>>
                          ELSE IF i + 1 = parts + 1 THEN <<m, NotesPart>>
                          ELSE <<m + (i + 1) - (parts + 1)>>
  <2>1. i + 1 \in 1 .. Len(w) /\ q + (i + 1) - 1 = q + i
    BY <1>3, <1>6
  <2> QED BY <1>4, <1>7, <2>1
<1>10. CASE q <= n
  <2>1. 1 <= parts /\ q + 1 - 1 = q
    BY <1>3, <1>10
  <2>2. Head(w) = <<m, q>>
    BY <1>7, <1>8, <2>1
  <2> DEFINE rest == n + 1 - (q + 1)
  <2>3. Len(Tail(w)) = rest + 1 + Len(d) - m /\ rest = parts - 1
    <3>1. rest = parts - 1
      BY <1>3
    <3>2. Len(Tail(w)) = parts + 1 + Len(d) - m - 1
      <4>1. Len(Tail(w)) = Len(w) - 1 /\ Len(w) = parts + 1 + Len(d) - m
        BY <1>4, <1>7
      <4> QED BY ONLY <4>1
    <3>3. rest \in Int /\ parts \in Int
      BY <1>3
    <3> HIDE DEF rest, parts
    <3> QED BY <1>1, <3>1, <3>2, <3>3
  <2>4. ASSUME NEW i \in 1 .. Len(Tail(w))
        PROVE  Tail(w)[i] = IF i <= rest THEN <<m, (q + 1) + i - 1>>
                            ELSE IF i = rest + 1 THEN <<m, NotesPart>>
                            ELSE <<m + i - (rest + 1)>>
    <3>1. i \in 1 .. Len(w) - 1 /\ i \in Int
      BY <1>7
    <3>2. /\ i + 1 <= parts <=> i <= rest
          /\ i + 1 = parts + 1 <=> i = rest + 1
          /\ q + i = (q + 1) + i - 1
          /\ m + (i + 1) - (parts + 1) = m + i - (rest + 1)
      BY <1>1, <1>3, <1>5, <2>3, <3>1
    <3> HIDE DEF rest, parts
    <3> QED BY <1>9, <3>1, <3>2
  <2>5. AtPart(d, m, q + 1, Tail(w))
    BY <1>2, <1>7, <2>3, <2>4 DEF AtPart, S
  <2>6. Len(Head(w)) = 2 /\ Head(w)[1] = m /\ Head(w)[2] = q
    <3>1. m \in Int /\ q \in Int /\ NotesPart \in Int
      BY <1>1, <1>3, NotesNat
    <3> QED BY ONLY <2>2, <3>1, Tuples
  <2>7. q <= Len(d[m].shapes) /\ q # Len(d[m].shapes) + 1
    BY <1>2, <1>3, <1>10
  <2> QED BY <1>7, <2>5, <2>6, <2>7
<1>11. CASE q = n + 1
  <2>1. parts = 0
    BY <1>2, <1>11
  <2>2. Head(w) = <<m, NotesPart>>
    BY <1>7, <1>8, <2>1
  <2>3. Len(Tail(w)) = Len(d) - m
    BY <1>1, <1>4, <1>7, <2>1
  <2>4. ASSUME NEW i \in 1 .. Len(Tail(w)) PROVE Tail(w)[i] = <<m + i>>
    <3>1. i \in 1 .. Len(w) - 1 /\ i \in Nat /\ i >= 1
      BY <1>7
    <3>2. ~(i + 1 <= parts) /\ i + 1 # parts + 1 /\ m + (i + 1) - (parts + 1) = m + i
      BY <1>1, <2>1, <3>1
    <3> HIDE DEF parts
    <3> QED BY <1>9, <3>1, <3>2
  <2>5. AtSlide(d, m, Tail(w))
    BY <1>7, <2>3, <2>4 DEF AtSlide, S
  <2>6. Len(Head(w)) = 2 /\ Head(w)[1] = m /\ Head(w)[2] = NotesPart
    <3>1. m \in Int /\ q \in Int /\ NotesPart \in Int
      BY <1>1, <1>3, NotesNat
    <3> QED BY ONLY <2>2, <3>1, Tuples
  <2>7. ~(q <= Len(d[m].shapes))
    BY <1>2, <1>3, <1>11
  <2> QED BY <1>7, <2>5, <2>6, <2>7
<1> QED BY <1>2, <1>3, <1>10, <1>11

(* A slide is opened: its parts come before the slides that are left.      *)
LEMMA SlideOpened ==
    ASSUME NEW d \in Seq(Slides), NEW m \in 1 .. Len(d), NEW t, AtSlide(d, m, t),
           NEW w, w = (IF d[m].title = "none" THEN <<>> ELSE <<<<m, 0>>>>)
                        \o [p \in DOMAIN d[m].shapes |-> <<m, p>>]
                        \o <<<<m, NotesPart>>>> \o t
    PROVE  AtPart(d, m, IF d[m].title = "none" THEN 1 ELSE 0, w)
<1> DEFINE S == Seq(Int)
           a == IF d[m].title = "none" THEN <<>> ELSE <<<<m, 0>>>>
           b == [p \in DOMAIN d[m].shapes |-> <<m, p>>]
           c == <<<<m, NotesPart>>>>
           q == IF d[m].title = "none" THEN 1 ELSE 0
<1>1. m \in DOMAIN d /\ m \in Nat /\ Len(d) \in Nat
  OBVIOUS
<1>2. PICK n \in Nat : n = Len(d[m].shapes)
  <2>1. Len(d[m].shapes) \in 0 .. NotesPart - 1
    BY ONLY <1>1, d \in Seq(Slides), SlidesAre
  <2>2. \A l \in 0 .. NotesPart - 1 : l \in Nat
    BY ONLY NotesNat
  <2>3. Len(d[m].shapes) \in Nat
    BY ONLY <2>1, <2>2
  <2> QED BY ONLY <2>3
<1>3. DOMAIN d[m].shapes = 1 .. n
  BY ONLY <1>1, <1>2, d \in Seq(Slides), SlidesAre
<1>4. \A x \in Int : <<m, x>> \in S
  BY <1>1
<1> HIDE DEF S
<1>5. a \in Seq(S) /\ Len(a) = 1 - q /\ \A i \in 1 .. Len(a) : a[i] = <<m, i - 1>>
  <2>1. <<m, 0>> \in S
    BY <1>4
  <2>2. CASE d[m].title = "none"
    <3>1. a = <<>> /\ q = 1
      BY <2>2
    <3>2. <<>> \in Seq(S) /\ Len(<<>>) = 0
      OBVIOUS
    <3> HIDE DEF a, q
    <3> QED BY <3>1, <3>2
  <2>3. CASE d[m].title # "none"
    <3>1. a = <<<<m, 0>>>> /\ q = 0
      BY <2>3
    <3>2. <<<<m, 0>>>> \in Seq(S) /\ Len(<<<<m, 0>>>>) = 1 /\ <<<<m, 0>>>>[1] = <<m, 0>>
      BY <2>1
    <3> HIDE DEF a, q
    <3>3. \A i \in 1 .. 1 : i = 1 /\ i - 1 = 0
      OBVIOUS
    <3> QED BY <3>1, <3>2, <3>3
  <2> QED BY <2>2, <2>3
<1>6. b \in Seq(S) /\ Len(b) = n /\ \A i \in 1 .. n : b[i] = <<m, i>>
  <2>1. b \in [1 .. n -> S]
    BY <1>3, <1>4
  <2>2. b \in Seq(S) /\ Len(b) = n
    <3> HIDE DEF b
    <3> QED BY <2>1
  <2> QED BY <1>3, <2>2
<1>7. c \in Seq(S) /\ Len(c) = 1 /\ c[1] = <<m, NotesPart>>
  <2>1. <<m, NotesPart>> \in S
    BY <1>4, NotesNat
  <2> QED BY <2>1
<1>8. t \in Seq(S) /\ Len(t) = Len(d) - m /\ \A i \in 1 .. Len(t) : t[i] = <<m + i>>
  BY DEF AtSlide, S
<1>9. w = a \o b \o c \o t
  OBVIOUS
<1>10. q \in {0, 1}
  OBVIOUS
<1> HIDE DEF a, b, c, q
<1>11. /\ w \in Seq(S) /\ Len(w) = Len(a) + Len(b) + Len(c) + Len(t)
       /\ \A i \in 1 .. Len(a) : w[i] = a[i]
       /\ \A i \in 1 .. Len(b) : w[Len(a) + i] = b[i]
       /\ \A i \in 1 .. Len(c) : w[Len(a) + Len(b) + i] = c[i]
       /\ \A i \in 1 .. Len(t) : w[Len(a) + Len(b) + Len(c) + i] = t[i]
  <2>1. a \in Seq(S) /\ b \in Seq(S) /\ c \in Seq(S) /\ t \in Seq(S)
    BY <1>5, <1>6, <1>7, <1>8
  <2> QED BY ONLY <1>9, <2>1, FourLists, SMTT(60)
<1> DEFINE parts == n + 1 - q
<1>12. Len(w) = parts + 1 + Len(d) - m /\ parts \in Nat
  <2>1. parts \in Nat
    BY ONLY <1>10, n \in Nat
  <2>2. Len(w) = (1 - q) + n + 1 + (Len(d) - m)
    BY ONLY <1>5, <1>6, <1>7, <1>8, <1>11
  <2>3. (1 - q) + n + 1 + (Len(d) - m) = (n + 1 - q) + 1 + Len(d) - m
    BY ONLY <1>1, <1>10, n \in Nat
  <2> QED BY ONLY <2>1, <2>2, <2>3
<1>13. ASSUME NEW i \in 1 .. Len(w)
       PROVE  w[i] = IF i <= parts THEN <<m, q + i - 1>>
                     ELSE IF i = parts + 1 THEN <<m, NotesPart>>
                     ELSE <<m + i - (parts + 1)>>
  <2>0. i \in Int /\ i >= 1 /\ i <= parts + 1 + Len(d) - m
    BY <1>12, <1>1
  <2>1. CASE i <= 1 - q
    <3>1. i = 1 /\ q = 0
      BY <1>10, <2>0, <2>1
    <3>2. i \in 1 .. Len(a) /\ i <= parts /\ i - 1 = q + i - 1
      BY <1>5, <3>1
    <3>3. w[i] = <<m, i - 1>>
      BY <1>5, <1>11, <3>2
    <3> HIDE DEF parts
    <3> QED BY <3>2, <3>3
  <2>2. CASE i > 1 - q /\ i <= parts
    <3> DEFINE j == i - (1 - q)
    <3>1. j \in 1 .. n /\ i = (1 - q) + j /\ j = q + i - 1
      BY <1>10, <2>0, <2>2
    <3>2. j \in 1 .. Len(b) /\ i = Len(a) + j
      BY <1>5, <1>6, <3>1
    <3>3. w[i] = b[j]
      <4> HIDE DEF j
      <4> QED BY <1>11, <3>2
    <3>4. b[j] = <<m, j>>
      <4> HIDE DEF j
      <4> QED BY <1>6, <3>1
    <3> HIDE DEF j, parts
    <3> QED BY <2>2, <3>1, <3>3, <3>4
  <2>3. CASE i = parts + 1
    <3>1. i = Len(a) + Len(b) + 1 /\ ~(i <= parts) /\ 1 \in 1 .. Len(c)
      BY <1>5, <1>6, <1>7, <1>10, <2>3
    <3>2. w[i] = c[1]
      BY <1>11, <3>1
    <3> HIDE DEF parts
    <3> QED BY <1>7, <2>3, <3>1, <3>2
  <2>4. CASE i > parts + 1
    <3> DEFINE j == i - (parts + 1)
    <3>1. j \in 1 .. Len(d) - m /\ i = parts + 1 + j /\ m + j = m + i - (parts + 1)
      BY <1>1, <1>12, <2>0, <2>4
    <3>2. j \in 1 .. Len(t) /\ i = Len(a) + Len(b) + Len(c) + j
      BY <1>5, <1>6, <1>7, <1>8, <1>10, <3>1
    <3>3. w[i] = t[j] /\ t[j] = <<m + j>>
      <4> HIDE DEF j
      <4> QED BY <1>8, <1>11, <3>2
    <3>4. ~(i <= parts) /\ i # parts + 1
      BY <1>12, <2>0, <2>4
    <3> HIDE DEF j, parts
    <3> QED BY <3>1, <3>3, <3>4
  <2>5. i <= 1 - q \/ (i > 1 - q /\ i <= parts) \/ i = parts + 1 \/ i > parts + 1
    BY <1>10, <1>12, <2>0
  <2> QED BY <2>1, <2>2, <2>3, <2>4, <2>5
<1>14. AtPart(d, m, q, w)
  BY <1>2, <1>11, <1>12, <1>13 DEF AtPart, S
<1> QED BY <1>14 DEF q

-----------------------------------------------------------------------------
(* The walk stands before a slide, at the title of one, or at a part.      *)
Slidewise(d, w, bs) ==
    \E m \in 0 .. Len(d) : AtSlide(d, m, w) /\ Told(d, Items(bs), Place(m + 1, 0))

TitleOnce(d, m) == IF d[m].title = "text" THEN <<Place(m, 0)>> ELSE <<>>

Titlewise(d, w, bs) ==
    \E m \in 1 .. Len(d) :
        /\ AtPart(d, m, 0, w) /\ d[m].title # "none"
        /\ \E r : Told(d, r, Place(m, 0)) /\ Items(bs) = r \o TitleOnce(d, m)

Partwise(d, w, bs) ==
    \E m \in 1 .. Len(d) : \E q \in 1 .. Len(d[m].shapes) + 1 :
        AtPart(d, m, q, w) /\ Told(d, Items(bs), Place(m, q))

PptxInv(d, w, bs) ==
    /\ d \in Seq(Slides) /\ BlocksOK(bs)
    /\ Slidewise(d, w, bs) \/ Titlewise(d, w, bs) \/ Partwise(d, w, bs)

LEMMA NextPlace ==
    ASSUME NEW m \in Nat, NEW q \in Nat
    PROVE  /\ Place(m, q) \in Int /\ Place(m, q) + 1 = Place(m, q + 1)
           /\ Place(m, NotesPart) \in Int /\ Place(m, NotesPart) + 1 = Place(m + 1, 0)
BY NotesNat DEF Place

LEMMA FirstPlace ==
    ASSUME NEW m \in Nat
    PROVE  Place(m, 0) \in Int /\ Place(m, 0) + 1 = Place(m, 1)
BY NotesNat DEF Place

LEMMA PptxBegun ==
    ASSUME NEW d \in Seq(Slides), NEW w, w = [k \in DOMAIN d |-> <<k>>]
    PROVE  PptxInv(d, w, <<>>)
<1> DEFINE S == Seq(Int)
<1>1. Len(d) \in Nat /\ DOMAIN d = 1 .. Len(d)
  OBVIOUS
<1>2. \A k \in DOMAIN d : <<k>> \in S
  BY <1>1
<1> HIDE DEF S
<1>3. w \in [1 .. Len(d) -> S]
  BY <1>1, <1>2
<1>4. w \in Seq(S) /\ Len(w) = Len(d)
  BY <1>1, <1>3
<1>5. \A i \in 1 .. Len(w) : w[i] = <<0 + i>>
  <2>1. \A i \in 1 .. Len(d) : i \in Int /\ 0 + i = i
    BY <1>1
  <2> QED BY <1>1, <1>4, <2>1
<1>6. AtSlide(d, 0, w)
  BY <1>1, <1>4, <1>5 DEF AtSlide, S
<1>7. {x \in PptxContent(d) : x < Place(0 + 1, 0)} = {}
  <2>1. PptxContent(d) \subseteq Int /\ \A x \in PptxContent(d) : Place(1, 0) <= x
    BY PlacesAre
  <2>2. Place(0 + 1, 0) = Place(1, 0) /\ Place(1, 0) \in Int
    BY NotesNat DEF Place
  <2> QED BY <2>1, <2>2
<1>8. Told(d, Items(<<>>), Place(0 + 1, 0))
  BY <1>7, NoBlocks, ClimbNone DEF Told
<1>9. Slidewise(d, w, <<>>)
  <2>1. 0 \in 0 .. Len(d)
    BY <1>1
  <2> QED BY <1>6, <1>8, <2>1 DEF Slidewise
<1> QED BY <1>9, NoBlocks DEF PptxInv

LEMMA PartSaid ==
    ASSUME NEW d \in Seq(Slides), NEW m \in 1 .. Len(d), NEW q \in 1 .. Len(d[m].shapes) + 1,
           NEW w, AtPart(d, m, q, w), NEW bs, Told(d, Items(bs), Place(m, q)),
           NEW bs2, BlocksOK(bs2),
           \/ Head(w)[2] \in Speaking(d[m]) /\ Items(bs2) = Items(bs) \o <<Place(m, Head(w)[2])>>
           \/ Head(w)[2] \notin Speaking(d[m]) /\ Items(bs2) = Items(bs)
    PROVE  PptxInv(d, Tail(w), bs2)
<1>1. m \in DOMAIN d /\ m \in Nat /\ Len(d) \in Nat
  OBVIOUS
<1>2. PICK n \in 0 .. NotesPart - 1 : n = Len(d[m].shapes)
  BY <1>1, SlidesAre, NotesNat
<1>3. q \in Nat /\ q \in 0 .. n + 1 /\ q \in 1 .. n + 1
  BY <1>2
<1>4. /\ q <= n => Head(w)[2] = q /\ AtPart(d, m, q + 1, Tail(w))
      /\ q = n + 1 => Head(w)[2] = NotesPart /\ AtSlide(d, m, Tail(w))
  BY <1>2, <1>3, NextPart
<1>5. \A p \in 0 .. NotesPart : Place(m, p) \in PptxContent(d) <=> p \in Speaking(d[m])
  BY <1>1, PlacesAre
<1>6. CASE q <= n
  <2>1. Head(w)[2] = q /\ q \in 0 .. NotesPart /\ Place(m, q) \in Int
    <3>1. q \in 0 .. NotesPart
      <4>1. n \in Nat /\ n < NotesPart /\ NotesPart \in Nat
        BY NotesNat
      <4> QED BY ONLY <1>3, <1>6, <4>1
    <3> QED BY <1>1, <1>3, <1>4, <1>6, <3>1, NextPlace
  <2>2. Told(d, Items(bs2), Place(m, q) + 1)
    BY <1>5, <2>1, ToldOn
  <2>3. Told(d, Items(bs2), Place(m, q + 1))
    BY <1>1, <1>3, <2>2, NextPlace
  <2>4. q + 1 \in 1 .. Len(d[m].shapes) + 1
    BY <1>2, <1>3, <1>6
  <2>5. Partwise(d, Tail(w), bs2)
    BY <1>4, <1>6, <2>3, <2>4 DEF Partwise
  <2> QED BY <2>5 DEF PptxInv
<1>7. CASE q = n + 1
  <2>1. Head(w)[2] = NotesPart /\ NotesPart \in 0 .. NotesPart /\ Place(m, NotesPart) \in Int
    BY <1>1, <1>4, <1>7, NextPlace, NotesNat
  <2>2. Told(d, Items(bs), Place(m, NotesPart))
    <3>1. \A x \in PptxContent(d) : x < Place(m, q) <=> x < Place(m, NotesPart)
      BY <1>1, <1>2, <1>7, PlacesAre
    <3>2. {x \in PptxContent(d) : x < Place(m, q)} =
             {x \in PptxContent(d) : x < Place(m, NotesPart)}
      BY <3>1
    <3> QED BY <3>2 DEF Told
  <2>3. Told(d, Items(bs2), Place(m, NotesPart) + 1)
    BY <1>5, <2>1, <2>2, ToldOn
  <2>4. Told(d, Items(bs2), Place(m + 1, 0))
    BY <1>1, <1>3, <2>3, NextPlace
  <2>5. m \in 0 .. Len(d)
    BY <1>1
  <2>6. Slidewise(d, Tail(w), bs2)
    BY <1>4, <1>7, <2>4, <2>5 DEF Slidewise
  <2> QED BY <2>6 DEF PptxInv
<1> QED BY <1>3, <1>6, <1>7

(* Where the walk stands tells which steps it can take.                    *)
LEMMA WhereItStands ==
    ASSUME NEW d, NEW w, NEW bs, PptxInv(d, w, bs), w # <<>>
    PROVE  /\ Slidewise(d, w, bs) => Len(Head(w)) = 1
           /\ Titlewise(d, w, bs) => Len(Head(w)) = 2 /\ Head(w)[2] = 0
           /\ Partwise(d, w, bs) => Len(Head(w)) = 2 /\ Head(w)[2] # 0
<1>1. d \in Seq(Slides)
  BY DEF PptxInv
<1>2. ASSUME Slidewise(d, w, bs) PROVE Len(Head(w)) = 1
  <2>1. PICK m \in 0 .. Len(d) : AtSlide(d, m, w)
    BY <1>2 DEF Slidewise
  <2> QED BY <1>1, <2>1, NextSlide
<1>3. ASSUME Titlewise(d, w, bs) PROVE Len(Head(w)) = 2 /\ Head(w)[2] = 0
  <2>1. PICK m \in 1 .. Len(d) : AtPart(d, m, 0, w)
    BY <1>3 DEF Titlewise
  <2>2. PICK n \in 0 .. NotesPart - 1 : n = Len(d[m].shapes)
    <3>1. m \in DOMAIN d
      BY <1>1
    <3> QED BY <1>1, <3>1, SlidesAre, NotesNat
  <2>3. 0 \in 0 .. Len(d[m].shapes) + 1 /\ 0 <= Len(d[m].shapes)
    BY <2>2
  <2> QED BY <1>1, <2>1, <2>3, NextPart
<1>4. ASSUME Partwise(d, w, bs) PROVE Len(Head(w)) = 2 /\ Head(w)[2] # 0
  <2>1. PICK m \in 1 .. Len(d) : \E q \in 1 .. Len(d[m].shapes) + 1 : AtPart(d, m, q, w)
    BY <1>4 DEF Partwise
  <2>2. PICK q \in 1 .. Len(d[m].shapes) + 1 : AtPart(d, m, q, w)
    BY <2>1
  <2>3. PICK n \in 0 .. NotesPart - 1 : n = Len(d[m].shapes)
    <3>1. m \in DOMAIN d
      BY <1>1
    <3> QED BY <1>1, <3>1, SlidesAre, NotesNat
  <2>4. q \in 0 .. Len(d[m].shapes) + 1 /\ (q <= Len(d[m].shapes) \/ q = Len(d[m].shapes) + 1)
        /\ q # 0
    BY <2>3
  <2>5. Len(Head(w)) = 2 /\ (Head(w)[2] = q \/ Head(w)[2] = NotesPart)
    BY <1>1, <2>2, <2>4, NextPart
  <2> QED BY <2>4, <2>5, NotesNat
<1> QED BY <1>2, <1>3, <1>4

LEMMA SlideStep ==
    ASSUME PptxInv(doc, work, blocks), OpenSlide
    PROVE  PptxInv(doc, work', blocks')
<1>1. work # <<>> /\ Len(Head(work)) = 1
  BY DEF OpenSlide, PptxWalks
<1>2. doc \in Seq(Slides) /\ BlocksOK(blocks) /\ Slidewise(doc, work, blocks)
  BY <1>1, WhereItStands DEF PptxInv
<1>3. PICK m \in 0 .. Len(doc) :
          AtSlide(doc, m, work) /\ Told(doc, Items(blocks), Place(m + 1, 0))
  BY <1>2 DEF Slidewise
<1>4. PICK k : k = m + 1
  OBVIOUS
<1>5. k \in 1 .. Len(doc) /\ Head(work)[1] = k /\ AtSlide(doc, k, Tail(work))
  BY <1>1, <1>2, <1>3, <1>4, NextSlide
<1>6. Told(doc, Items(blocks), Place(k, 0))
  BY <1>3, <1>4
<1>7. k \in DOMAIN doc /\ k \in Nat /\ Place(k, 0) \in Int
  <2>1. k \in DOMAIN doc /\ k \in Nat
    BY <1>2, <1>5
  <2> QED BY <2>1, FirstPlace
<1> DEFINE b == Block("heading", 2, TitleOnce(doc, k))
           rest == (IF doc[k].title = "none" THEN <<>> ELSE <<<<k, 0>>>>)
                        \o [p \in DOMAIN doc[k].shapes |-> <<k, p>>]
                        \o <<<<k, NotesPart>>>> \o Tail(work)
<1>8. blocks' = Append(blocks, b) /\ work' = rest
  BY <1>5 DEF OpenSlide, Slide, TitleOnce
<1>9. AtPart(doc, k, IF doc[k].title = "none" THEN 1 ELSE 0, work')
  BY <1>2, <1>5, <1>8, SlideOpened
<1>10. b.items = TitleOnce(doc, k)
  BY DEF Block
<1>11. TitleOnce(doc, k) \in Seq(Int)
  BY <1>7, ClimbNone, ClimbOne DEF TitleOnce
<1> HIDE DEF b, rest
<1>12. BlocksOK(blocks') /\ Items(blocks') = Items(blocks) \o TitleOnce(doc, k)
  BY <1>2, <1>8, <1>10, <1>11, ItemsOn
<1>13. CASE doc[k].title = "none"
  <2>1. Items(blocks') = Items(blocks)
    <3>1. TitleOnce(doc, k) = <<>>
      BY <1>13 DEF TitleOnce
    <3> QED BY <1>2, <1>12, <3>1, ItemsListed, NoMore
  <2>2. Place(k, 0) \notin PptxContent(doc)
    <3>1. 0 \in 0 .. NotesPart
      BY NotesNat
    <3>2. 0 \notin Speaking(doc[k])
      BY <1>2, <1>7, <1>13, SpeakingAre
    <3> QED BY <1>2, <1>5, <3>1, <3>2, PlacesAre
  <2>3. Told(doc, Items(blocks'), Place(k, 0) + 1)
    BY <1>2, <1>6, <1>7, <2>1, <2>2, ToldOn
  <2>4. Told(doc, Items(blocks'), Place(k, 1))
    <3>1. Place(k, 0) + 1 = Place(k, 1)
      BY <1>7, FirstPlace
    <3> QED BY <2>3, <3>1
  <2>5. 1 \in 1 .. Len(doc[k].shapes) + 1
    BY <1>2, <1>7, SlidesAre
  <2>6. Partwise(doc, work', blocks')
    BY <1>5, <1>9, <1>13, <2>4, <2>5 DEF Partwise
  <2> QED BY <1>2, <1>12, <2>6 DEF PptxInv
<1>14. CASE doc[k].title # "none"
  <2>1. Titlewise(doc, work', blocks')
    BY <1>5, <1>6, <1>9, <1>12, <1>14 DEF Titlewise
  <2> QED BY <1>2, <1>12, <2>1 DEF PptxInv
<1> QED BY <1>13, <1>14

LEMMA TitleStep ==
    ASSUME PptxInv(doc, work, blocks), SkipTitle \/ RepeatTitle
    PROVE  PptxInv(doc, work', blocks')
<1>1. work # <<>> /\ Part = 0 /\ work' = Tail(work)
  BY DEF SkipTitle, RepeatTitle, IsPart, PptxWalks
<1>2. Len(Head(work)) = 2 /\ Head(work)[2] = 0
  BY <1>1 DEF SkipTitle, RepeatTitle, IsPart, Part
<1>3. doc \in Seq(Slides) /\ BlocksOK(blocks) /\ Titlewise(doc, work, blocks)
  BY <1>1, <1>2, WhereItStands DEF PptxInv
<1>4. PICK m \in 1 .. Len(doc) :
          /\ AtPart(doc, m, 0, work) /\ doc[m].title # "none"
          /\ \E r : Told(doc, r, Place(m, 0)) /\ Items(blocks) = r \o TitleOnce(doc, m)
  BY <1>3 DEF Titlewise
<1>5. PICK r : Told(doc, r, Place(m, 0)) /\ Items(blocks) = r \o TitleOnce(doc, m)
  BY <1>4
<1>6. m \in DOMAIN doc /\ m \in Nat
  BY <1>3
<1>7. PICK n \in 0 .. NotesPart - 1 : n = Len(doc[m].shapes)
  BY <1>3, <1>6, SlidesAre, NotesNat
<1>8. Head(work)[1] = m /\ AtPart(doc, m, 1, Tail(work))
  <2>1. 0 \in 0 .. Len(doc[m].shapes) + 1 /\ 0 <= Len(doc[m].shapes) /\ 0 + 1 = 1
    BY <1>7
  <2>2. Head(work)[1] = m /\ AtPart(doc, m, 0 + 1, Tail(work))
    BY <1>3, <1>4, <2>1, NextPart
  <2> QED BY <2>1, <2>2
<1>9. PICK p : p = Place(m, 0)
  OBVIOUS
<1>10. p \in Int /\ p + 1 = Place(m, 1)
  BY <1>6, <1>9, FirstPlace
<1>11. p \in PptxContent(doc) <=> doc[m].title = "text"
  <2>1. 0 \in 0 .. NotesPart
    BY NotesNat
  <2>2. 0 \in Speaking(doc[m]) <=> doc[m].title = "text"
    BY <1>3, <1>6, SpeakingAre
  <2> QED BY <1>3, <1>9, <2>1, <2>2, PlacesAre
<1>12. p \in PptxTitles(doc)
  BY <1>6, <1>9 DEF PptxTitles
<1>13. Items(blocks) = IF doc[m].title = "text" THEN r \o <<p>> ELSE r
  BY <1>5, <1>9, NoMore DEF TitleOnce, Told
<1>14. ASSUME BlocksOK(blocks'), Told(doc, Items(blocks'), p + 1)
       PROVE  PptxInv(doc, work', blocks')
  <2>1. 1 \in 1 .. Len(doc[m].shapes) + 1
    BY <1>7
  <2>2. Partwise(doc, work', blocks')
    BY <1>1, <1>8, <1>10, <1>14, <2>1 DEF Partwise
  <2> QED BY <1>3, <1>14, <2>2 DEF PptxInv
<1>15. CASE SkipTitle
  <2>1. blocks' = blocks
    BY <1>15 DEF SkipTitle
  <2>2. Told(doc, Items(blocks), p + 1)
    <3>1. Told(doc, r, p)
      BY <1>5, <1>9
    <3> QED BY <1>3, <1>10, <1>11, <1>13, <3>1, ToldOn
  <2> QED BY <1>3, <1>14, <2>1, <2>2
<1>16. CASE RepeatTitle
  <2> DEFINE b == [kind |-> "list", level |-> 0, items |-> <<Spot>>, indents |-> <<0>>]
  <2>1. blocks' = Append(blocks, b) /\ doc[m].title = "text"
    BY <1>8, <1>16 DEF RepeatTitle, Slide
  <2>2. Spot = p
    BY <1>1, <1>8, <1>9 DEF Spot
  <2>3. b.items = <<p>> /\ <<p>> \in Seq(Int)
    BY <1>10, <2>2
  <2> HIDE DEF b
  <2>4. BlocksOK(blocks') /\ Items(blocks') = Items(blocks) \o <<p>>
    BY <1>3, <2>1, <2>3, ItemsOn
  <2>5. Items(blocks') = (r \o <<p>>) \o <<p>>
    BY <1>13, <2>1, <2>4
  <2>6. Told(doc, (r \o <<p>>) \o <<p>>, p + 1)
    BY <1>3, <1>5, <1>9, <1>10, <1>11, <1>12, <2>1, ToldTwice
  <2> QED BY <1>14, <2>4, <2>5, <2>6
<1> QED BY <1>15, <1>16

LEMMA PartStep ==
    ASSUME PptxInv(doc, work, blocks), EmitPptxTable \/ EmitFrame \/ SkipShape \/ EmitNotes
    PROVE  PptxInv(doc, work', blocks')
<1>1. work # <<>> /\ Len(Head(work)) = 2 /\ work' = Tail(work) /\ Head(work)[2] # 0
  BY NotesNat DEF EmitPptxTable, EmitFrame, SkipShape, EmitNotes, IsShape, IsPart, PptxWalks, Part
<1>2. doc \in Seq(Slides) /\ BlocksOK(blocks) /\ Partwise(doc, work, blocks)
  BY <1>1, WhereItStands DEF PptxInv
<1>3. PICK m \in 1 .. Len(doc) : \E q \in 1 .. Len(doc[m].shapes) + 1 :
          AtPart(doc, m, q, work) /\ Told(doc, Items(blocks), Place(m, q))
  BY <1>2 DEF Partwise
<1>4. PICK q \in 1 .. Len(doc[m].shapes) + 1 :
          AtPart(doc, m, q, work) /\ Told(doc, Items(blocks), Place(m, q))
  BY <1>3
<1>5. m \in DOMAIN doc /\ m \in Nat
  BY <1>2
<1>6. PICK n \in 0 .. NotesPart - 1 : n = Len(doc[m].shapes)
  BY <1>2, <1>5, SlidesAre, NotesNat
<1>7. q \in 0 .. Len(doc[m].shapes) + 1 /\ (q \in 1 .. n \/ q = n + 1)
  BY <1>6
<1>8. Head(work)[1] = m /\ (q \in 1 .. n => Part = q) /\ (q = n + 1 => Part = NotesPart)
  BY <1>2, <1>4, <1>6, <1>7, NextPart DEF Part
<1>9. Slide = doc[m] /\ Spot = Place(m, Part) /\ Spot \in Int
  <2>1. Part \in Nat
    BY <1>7, <1>8, NotesNat
  <2> QED BY <1>5, <1>8, <2>1, NextPlace DEF Slide, Spot
<1>10. ASSUME BlocksOK(blocks'),
              \/ Part \in Speaking(doc[m]) /\ Items(blocks') = Items(blocks) \o <<Spot>>
              \/ Part \notin Speaking(doc[m]) /\ Items(blocks') = Items(blocks)
       PROVE  PptxInv(doc, work', blocks')
  <2>1. \/ Head(work)[2] \in Speaking(doc[m])
           /\ Items(blocks') = Items(blocks) \o <<Place(m, Head(work)[2])>>
        \/ Head(work)[2] \notin Speaking(doc[m]) /\ Items(blocks') = Items(blocks)
    BY <1>9, <1>10 DEF Part
  <2> QED BY <1>1, <1>2, <1>4, <1>10, <2>1, PartSaid
<1>11. \A b : b.items = <<Spot>> => b.items \in Seq(Int)
  BY <1>9
<1>12. ASSUME NEW skip \in BOOLEAN, NEW b, b.items = <<Spot>>,
              blocks' = blocks \o (IF skip THEN <<>> ELSE <<b>>),
              skip <=> Part \notin Speaking(doc[m])
       PROVE  PptxInv(doc, work', blocks')
  <2>1. CASE skip
    <3>1. PICK B : blocks \in Seq(B)
      BY <1>2 DEF BlocksOK
    <3>2. blocks' = blocks
      BY <1>12, <2>1, <3>1
    <3> QED BY <1>2, <1>10, <1>12, <2>1, <3>2
  <2>2. CASE ~skip
    <3>1. blocks' = blocks \o <<b>> /\ b.items \in Seq(Int)
      BY <1>11, <1>12, <2>2
    <3>2. BlocksOK(blocks') /\ Items(blocks') = Items(blocks) \o b.items
      BY <1>2, <3>1, ItemsOn
    <3> QED BY <1>10, <1>12, <2>2, <3>2
  <2> QED BY <2>1, <2>2
<1>13. \A p \in 1 .. n : p \in Speaking(doc[m]) <=>
              \/ doc[m].shapes[p].kind = "table" /\ doc[m].shapes[p].rows > 0
              \/ doc[m].shapes[p].kind = "frame" /\ doc[m].shapes[p].levels # <<>>
  BY <1>2, <1>5, <1>6, SpeakingAre
<1>14. ASSUME IsShape
       PROVE  /\ Shape = doc[m].shapes[Part] /\ Shape \in Shapes
              /\ Part \in Speaking(doc[m]) <=> \/ Shape.kind = "table" /\ Shape.rows > 0
                                               \/ Shape.kind = "frame" /\ Shape.levels # <<>>
  <2>1. Part \in 1 .. n
    BY <1>7, <1>8, <1>14 DEF IsShape
  <2>2. Shape = doc[m].shapes[Part]
    BY <1>9 DEF Shape
  <2>3. doc[m].shapes \in Seq(Shapes) /\ DOMAIN doc[m].shapes = 1 .. n
    BY <1>2, <1>5, <1>6, SlidesAre
  <2>4. doc[m].shapes[Part] \in Shapes
    <3> PICK s : s = doc[m].shapes
      OBVIOUS
    <3>1. s \in Seq(Shapes) /\ DOMAIN s = 1 .. n
      BY <2>3
    <3>2. s[Part] \in Shapes
      BY <2>1, <3>1
    <3> QED BY <3>2
  <2> QED BY <1>13, <2>1, <2>2, <2>4
<1>15. CASE EmitPptxTable
  <2> DEFINE b == Block("table", 0, <<Spot>>)
             skip == Shape.rows = 0
  <2>1. IsShape /\ Shape.kind = "table" /\ blocks' = blocks \o (IF skip THEN <<>> ELSE <<b>>)
    BY <1>15 DEF EmitPptxTable
  <2>2. Shape.rows \in Nat
    BY <1>14, <2>1 DEF Shapes, Tables
  <2>3. skip <=> Part \notin Speaking(doc[m])
    BY <1>14, <2>1, <2>2
  <2>4. b.items = <<Spot>> /\ skip \in BOOLEAN
    BY DEF Block
  <2> HIDE DEF b, skip
  <2> QED BY <1>12, <2>1, <2>3, <2>4
<1>16. CASE EmitFrame
  <2> DEFINE b == [kind |-> "list", level |-> 0, items |-> <<Spot>>, indents |-> Shape.levels]
             skip == Shape.levels = <<>>
  <2>1. IsShape /\ Shape.kind = "frame" /\ blocks' = blocks \o (IF skip THEN <<>> ELSE <<b>>)
    BY <1>16 DEF EmitFrame
  <2>2. skip <=> Part \notin Speaking(doc[m])
    BY <1>14, <2>1
  <2>3. b.items = <<Spot>> /\ skip \in BOOLEAN
    OBVIOUS
  <2> HIDE DEF b, skip
  <2> QED BY <1>12, <2>1, <2>2, <2>3
<1>17. CASE SkipShape
  <2>1. IsShape /\ Shape.kind = "other" /\ blocks' = blocks
    BY <1>17 DEF SkipShape
  <2>2. Part \notin Speaking(doc[m])
    BY <1>14, <2>1
  <2> QED BY <1>2, <1>10, <2>1, <2>2
<1>18. CASE EmitNotes
  <2> DEFINE b == Block("notes", 3, <<Spot>>)
             skip == ~doc[m].notes
  <2>1. Part = NotesPart /\ blocks' = blocks \o (IF doc[m].notes THEN <<b>> ELSE <<>>)
    BY <1>9, <1>18 DEF EmitNotes
  <2>2. doc[m].notes \in BOOLEAN
    BY <1>2, <1>5, SlidesAre
  <2>3. NotesPart \in Speaking(doc[m]) <=> doc[m].notes
    BY <1>2, <1>5, SpeakingAre
  <2>4. b.items = <<Spot>> /\ skip \in BOOLEAN
    BY DEF Block
  <2>5. skip <=> Part \notin Speaking(doc[m])
    BY <2>1, <2>3
  <2>6. (IF doc[m].notes THEN <<b>> ELSE <<>>) = IF skip THEN <<>> ELSE <<b>>
    OBVIOUS
  <2>7. blocks' = blocks \o (IF skip THEN <<>> ELSE <<b>>)
    BY <2>1, <2>6
  <2> HIDE DEF b, skip
  <2> QED BY <1>12, <2>4, <2>5, <2>7
<1> QED BY <1>15, <1>16, <1>17, <1>18

LEMMA PptxEnds ==
    ASSUME PptxInv(doc, work, blocks), EndPptx
    PROVE  /\ ToSet(Items(blocks)) = PptxContent(doc)
           /\ Climbs(Items(blocks), PptxTitles(doc)) /\ Items(blocks) \in Seq(Int)
<1>1. doc \in Seq(Slides) /\ work = <<>>
  BY DEF PptxInv, EndPptx
<1>2. ~Titlewise(doc, work, blocks)
  <2> SUFFICES ASSUME Titlewise(doc, work, blocks) PROVE FALSE
    OBVIOUS
  <2>1. PICK m \in 1 .. Len(doc) : AtPart(doc, m, 0, work)
    BY DEF Titlewise
  <2>2. m \in DOMAIN doc
    BY <1>1
  <2>3. 0 \in 0 .. Len(doc[m].shapes) + 1
    BY <1>1, <2>2, SlidesAre
  <2> QED BY <1>1, <2>1, <2>3, NextPart
<1>3. ~Partwise(doc, work, blocks)
  <2> SUFFICES ASSUME Partwise(doc, work, blocks) PROVE FALSE
    OBVIOUS
  <2>1. PICK m \in 1 .. Len(doc) : \E q \in 1 .. Len(doc[m].shapes) + 1 : AtPart(doc, m, q, work)
    BY DEF Partwise
  <2>2. PICK q \in 1 .. Len(doc[m].shapes) + 1 : AtPart(doc, m, q, work)
    BY <2>1
  <2>3. m \in DOMAIN doc
    BY <1>1
  <2>4. q \in 0 .. Len(doc[m].shapes) + 1
    BY <1>1, <2>3, SlidesAre
  <2> QED BY <1>1, <2>2, <2>4, NextPart
<1>4. PICK m \in 0 .. Len(doc) :
          AtSlide(doc, m, work) /\ Told(doc, Items(blocks), Place(m + 1, 0))
  BY <1>2, <1>3 DEF PptxInv, Slidewise
<1>5. m = Len(doc)
  <2>1. Len(doc) \in Nat /\ Len(work) = 0 /\ Len(work) = Len(doc) - m
    BY <1>1, <1>4 DEF AtSlide
  <2> QED BY <2>1
<1>6. {x \in PptxContent(doc) : x < Place(m + 1, 0)} = PptxContent(doc)
  BY <1>1, <1>5, PlacesAre
<1> QED BY <1>4, <1>6 DEF Told

-----------------------------------------------------------------------------
(* Nodes and what is under them.                                           *)
HtmlInv(d, w, bs) ==
    /\ IsTree(d) /\ Queue(d, w)
    /\ BlocksOK(bs) /\ Halfway(d, w, Items(bs))

LEMMA HtmlBegun ==
    ASSUME NEW d, IsTree(d), NEW w, w = Children(d, ContentRoot(d))
    PROVE  HtmlInv(d, w, <<>>)
BY Begun, NoBlocks DEF HtmlInv

LEMMA HtmlKeeps ==
    ASSUME HtmlInv(doc, work, blocks), Descend \/ Render
    PROVE  HtmlInv(doc, work', blocks')
<1>1. /\ IsTree(doc) /\ Queue(doc, work)
      /\ BlocksOK(blocks) /\ Halfway(doc, work, Items(blocks))
  BY DEF HtmlInv
<1>2. work # <<>>
  BY DEF Descend, Render, HtmlWalks
<1>3. CASE Descend
  <2>1. /\ WalksThrough(doc, Head(work)) /\ blocks' = blocks
        /\ work' = Children(doc, Head(work)) \o Tail(work)
    BY <1>3 DEF Descend, Node
  <2>2. Queue(doc, work')
    BY <1>1, <1>2, <2>1, DescendedQueue
  <2>3. BlocksOK(blocks') /\ Halfway(doc, work', Items(blocks'))
    BY <1>1, <1>2, <2>1, Descended
  <2> QED BY <1>1, <2>2, <2>3 DEF HtmlInv
<1>4. CASE Render
  <2> DEFINE b == Block(KindOf(doc.tag[Head(work)]),
                        IF doc.tag[Head(work)] = "h2" THEN 2 ELSE 0, Says(doc, Head(work)))
  <2>1. /\ work' = Tail(work)
        /\ blocks' = IF Says(doc, Head(work)) = <<>> THEN blocks ELSE Append(blocks, b)
    BY <1>4 DEF Render, Node
  <2>2. Queue(doc, work') /\ Reached(doc, Head(work))
    BY <1>1, <1>2, <2>1, TailQueue
  <2>3. b.items = Says(doc, Head(work))
    BY DEF Block
  <2> HIDE DEF b
  <2>4. BlocksOK(blocks') /\ Halfway(doc, work', Items(blocks'))
    <3>1. Says(doc, Head(work)) \in Seq(Int)
      BY <1>1, <2>2, SaysRight DEF SaysAll
    <3>2. BlocksOK(blocks') /\ Items(blocks') = Items(blocks) \o Says(doc, Head(work))
      <4>1. CASE Says(doc, Head(work)) = <<>>
        BY <1>1, <2>1, <4>1, ItemsListed, NoMore
      <4>2. CASE Says(doc, Head(work)) # <<>>
        BY <1>1, <2>1, <2>3, <3>1, <4>2, ItemsOn
      <4> QED BY <4>1, <4>2
    <3>3. Halfway(doc, Tail(work), Items(blocks) \o Says(doc, Head(work)))
      BY <1>1, <1>2, Rendered
    <3> QED BY <2>1, <3>2, <3>3
  <2> QED BY <1>1, <2>2, <2>4 DEF HtmlInv
<1> QED BY <1>3, <1>4

-----------------------------------------------------------------------------
(* What FlowKept says of the page that is made.                            *)
Kept(f, d, items) ==
    /\ f = "docx" => ToSet(items) = DocxContent(d) /\ Ascends(items)
    /\ f = "pptx" =>
          /\ ToSet(items) = PptxContent(d)
          /\ \A i, j \in DOMAIN items :
                i < j => \/ items[i] < items[j]
                         \/ items[i] = items[j] /\ items[i] \in PptxTitles(d) /\ j = i + 1
    /\ f = "html" =>
          /\ Texts(d) \ Strays(d) \subseteq ToSet(items)
          /\ ToSet(items) \subseteq
                Texts(d) \cup Tagged(d, ContentRoot(d), {"comment"})
          /\ \A i, j \in DOMAIN items :
                i < j => items[i] < items[j] \/ Tangled(d, items[i], items[j])

(* The inductive invariant: nothing is written before the walk, and the    *)
(* walk keeps, of its format, what has been written and what is left.      *)
FlowInv ==
    /\ phase \in {"route", "open", "root"} => blocks = <<>> /\ held = <<>>
    /\ phase = "sheet" => format = "pdf"
    /\ phase = "root" => format = "html" /\ IsTree(doc)
    /\ phase = "walk" /\ format = "docx" => DocxInv(doc, work, held, blocks)
    /\ phase = "walk" /\ format = "pptx" => PptxInv(doc, work, blocks)
    /\ phase = "walk" /\ format = "html" => HtmlInv(doc, work, blocks)
    /\ phase = "done" => Kept(format, doc, pages[Len(pages)].items)

(* The page of a flow format.                                              *)
LEMMA PageMade ==
    ASSUME NEW items, EndFlow(items), Kept(format, doc', items), format' = format
    PROVE  FlowInv'
<1> DEFINE page == [items |-> items, layout |-> Unmeasured, image |-> FALSE]
<1>1. pages' = <<page>> /\ phase' = "done"
  BY DEF EndFlow
<1>2. page.items = items
  OBVIOUS
<1> HIDE DEF page
<1>3. pages'[Len(pages')] = page
  BY <1>1
<1>4. Kept(format', doc', pages'[Len(pages')].items)
  BY <1>2, <1>3
<1> QED BY <1>1, <1>4 DEF FlowInv

LEMMA FlowInit == Init => FlowInv
BY DEF Init, FlowInv

LEMMA FlowPdf == ASSUME FlowInv, PdfNext PROVE FlowInv'
<1>1. format = "pdf" /\ format' = "pdf" /\ phase' \in {"sheet", "walk", "done"}
  BY DEF FlowInv, PdfNext, OpenPdf, DegradePage, LayOut, EmitTable, EmitHeading, HoldLine,
     EndColumn, EndSheet, EndPdf
<1>2. \A d, items : Kept("pdf", d, items)
  BY DEF Kept
<1> QED BY <1>1, <1>2 DEF FlowInv

LEMMA FlowDocx ==
    ASSUME FlowInv, OpenDocx \/ SkipParagraph \/ HoldListItem \/ EmitParagraph \/ EmitDocxTable
                       \/ SkipElement \/ EndDocx
    PROVE  FlowInv'
<1>1. CASE OpenDocx
  <2>1. blocks = <<>> /\ held = <<>> /\ blocks' = <<>> /\ held' = <<>>
    BY <1>1 DEF OpenDocx, FlowInv
  <2>2. doc' \in Seq(Elements) /\ work' = [k \in DOMAIN doc' |-> k]
    BY <1>1, FlowAssumption DEF OpenDocx
  <2>3. PICK d : d = doc'
    OBVIOUS
  <2>4. DocxInv(doc', work', held', blocks')
    BY <2>1, <2>2, <2>3, DocxBegun
  <2>5. phase' = "walk" /\ format' = "docx"
    BY <1>1 DEF OpenDocx
  <2> QED BY <2>4, <2>5 DEF FlowInv
<1>2. CASE SkipParagraph \/ HoldListItem \/ EmitParagraph \/ EmitDocxTable \/ SkipElement
  <2>1. phase = "walk" /\ format = "docx" /\ phase' = phase /\ format' = format /\ doc' = doc
    BY <1>2 DEF SkipParagraph, HoldListItem, EmitParagraph, EmitDocxTable, SkipElement, DocxWalks
  <2>2. DocxInv(doc, work', held', blocks')
    BY <1>2, <2>1, DocxKeeps DEF FlowInv, DocxStep
  <2> QED BY <2>1, <2>2 DEF FlowInv
<1>3. CASE EndDocx
  <2>1. /\ phase = "walk" /\ format = "docx" /\ EndFlow(Items(blocks'))
        /\ format' = format /\ doc' = doc
    BY <1>3 DEF EndDocx
  <2>2. ToSet(Items(blocks')) = DocxContent(doc) /\ Climbs(Items(blocks'), {})
    BY <1>3, <2>1, DocxEnds DEF FlowInv
  <2>3. Kept(format, doc', Items(blocks'))
    BY <2>1, <2>2, AscendsClimbs DEF Kept
  <2> QED BY <2>1, <2>3, PageMade
<1> QED BY <1>1, <1>2, <1>3

LEMMA FlowPptx ==
    ASSUME FlowInv, OpenPptx \/ OpenSlide \/ SkipTitle \/ RepeatTitle \/ EmitPptxTable \/ EmitFrame
                       \/ SkipShape \/ EmitNotes \/ EndPptx
    PROVE  FlowInv'
<1>1. CASE OpenPptx
  <2>1. blocks = <<>> /\ blocks' = <<>>
    BY <1>1 DEF OpenPptx, FlowInv
  <2>2. doc' \in Seq(Slides) /\ work' = [k \in DOMAIN doc' |-> <<k>>]
    BY <1>1, FlowAssumption DEF OpenPptx
  <2>3. PptxInv(doc', work', blocks')
    BY <2>1, <2>2, PptxBegun
  <2>4. phase' = "walk" /\ format' = "pptx"
    BY <1>1 DEF OpenPptx
  <2> QED BY <2>3, <2>4 DEF FlowInv
<1>2. CASE \/ OpenSlide \/ SkipTitle \/ RepeatTitle
           \/ EmitPptxTable \/ EmitFrame \/ SkipShape \/ EmitNotes
  <2>1. phase = "walk" /\ format = "pptx" /\ phase' = phase /\ format' = format /\ doc' = doc
    BY <1>2 DEF OpenSlide, SkipTitle, RepeatTitle, EmitPptxTable, EmitFrame, SkipShape, EmitNotes,
       IsShape, IsPart, PptxWalks
  <2>2. PptxInv(doc, work, blocks)
    BY <2>1 DEF FlowInv
  <2>3. PptxInv(doc, work', blocks')
    BY <1>2, <2>2, SlideStep, TitleStep, PartStep
  <2> QED BY <2>1, <2>3 DEF FlowInv
<1>3. CASE EndPptx
  <2>1. /\ phase = "walk" /\ format = "pptx" /\ EndFlow(Items(blocks))
        /\ format' = format /\ doc' = doc
    BY <1>3 DEF EndPptx
  <2>2. ToSet(Items(blocks)) = PptxContent(doc) /\ Climbs(Items(blocks), PptxTitles(doc))
    BY <1>3, <2>1, PptxEnds DEF FlowInv
  <2>3. Kept(format, doc', Items(blocks))
    BY <2>1, <2>2 DEF Kept, Climbs
  <2> QED BY <2>1, <2>3, PageMade
<1> QED BY <1>1, <1>2, <1>3

LEMMA FlowHtml ==
    ASSUME FlowInv, OpenHtml \/ FindRoot \/ Descend \/ Render \/ EndHtml
    PROVE  FlowInv'
<1>1. CASE OpenHtml
  <2>1. blocks' = <<>> /\ held' = <<>> /\ phase' = "root" /\ format' = "html"
    BY <1>1 DEF OpenHtml, FlowInv
  <2>2. IsTree(doc')
    <3>1. doc' \in Trees \cup Samples
      BY <1>1 DEF OpenHtml
    <3>2. \A d \in Trees : IsTree(d)
      BY DEF Trees
    <3> QED BY <3>1, <3>2, SamplesAreTrees
  <2> QED BY <2>1, <2>2 DEF FlowInv
<1>2. CASE FindRoot
  <2>1. /\ blocks' = <<>> /\ IsTree(doc) /\ format' = "html" /\ doc' = doc
        /\ work' = Children(doc, ContentRoot(doc)) /\ phase' = "walk"
    BY <1>2 DEF FindRoot, FlowInv
  <2>2. HtmlInv(doc, work', <<>>)
    BY <2>1, HtmlBegun
  <2> QED BY <2>1, <2>2 DEF FlowInv
<1>3. CASE Descend \/ Render
  <2>1. phase = "walk" /\ format = "html" /\ phase' = phase /\ format' = format /\ doc' = doc
    BY <1>3 DEF Descend, Render, HtmlWalks
  <2>2. HtmlInv(doc, work', blocks')
    BY <1>3, <2>1, HtmlKeeps DEF FlowInv
  <2> QED BY <2>1, <2>2 DEF FlowInv
<1>4. CASE EndHtml
  <2>1. /\ phase = "walk" /\ format = "html" /\ work = <<>> /\ EndFlow(Items(blocks))
        /\ format' = format /\ doc' = doc
    BY <1>4 DEF EndHtml
  <2> DEFINE out == Items(blocks)
  <2>2. /\ Texts(doc) \ Strays(doc) \subseteq ToSet(out)
        /\ ToSet(out) \subseteq Texts(doc) \cup Tagged(doc, ContentRoot(doc), {"comment"})
        /\ \A i, j \in DOMAIN out : i < j => out[i] < out[j] \/ Tangled(doc, out[i], out[j])
    <3>1. Halfway(doc, <<>>, out)
      BY <2>1 DEF FlowInv, HtmlInv
    <3>2. DOMAIN <<>> = {}
      OBVIOUS
    <3> HIDE DEF out
    <3>3. out \in Seq(Int) /\ Pairwise(out, Steps(doc))
      BY <3>1 DEF Halfway
    <3>4. \A i \in DOMAIN out : out[i] \in Int
      BY <3>3
    <3> QED BY <3>1, <3>2, <3>3, <3>4, StepsAre DEF Halfway, Allowed, Pairwise
  <2>3. Kept(format, doc', Items(blocks))
    BY <2>1, <2>2 DEF Kept
  <2> QED BY <2>1, <2>3, PageMade
<1> QED BY <1>1, <1>2, <1>3, <1>4

LEMMA FlowKeepsItsWord == FlowInv /\ [Next]_vars => FlowInv'
<1> SUFFICES ASSUME FlowInv, [Next]_vars PROVE FlowInv'
  OBVIOUS
<1>1. CASE RouteByMediaType \/ RouteByExtension \/ RouteByContent
  BY <1>1 DEF RouteByMediaType, RouteByExtension, RouteByContent, Route, FlowInv
<1>2. CASE Reject \/ OpenFails
  BY <1>2 DEF Reject, OpenFails, FlowInv
<1>3. CASE OpenText
  <2>1. EndFlow(<<1>>) /\ format = "text" /\ format' = format
    BY <1>3 DEF OpenText
  <2>2. Kept(format, doc', <<1>>)
    BY <2>1 DEF Kept
  <2> QED BY <2>1, <2>2, PageMade
<1>4. CASE Finished \/ UNCHANGED vars
  BY <1>4 DEF Finished, vars, FlowInv
<1> QED
  BY <1>1, <1>2, <1>3, <1>4, FlowPdf, FlowDocx, FlowPptx, FlowHtml DEF Next, FlowNext

(* "Stray inline text between blocks becomes its own paragraph so nothing  *)
(* is silently dropped" (parsing/html.py), as far as the walks of the flow *)
(* formats go: for bodies, decks and trees of any size and shape, each     *)
(* piece of content but the strays of outermost lists and tables is in one *)
(* block, and in one only, and in order but for what tables within a table *)
(* tangle.                                                                 *)
THEOREM FlowsKept == Spec => []FlowKept
<1>1. FlowInv => FlowKept
  BY DEF FlowInv, FlowKept, Kept, Made
<1> QED BY <1>1, FlowInit, FlowKeepsItsWord, PTL DEF Spec

-----------------------------------------------------------------------------
(* What is written and what is held back, of any members.                  *)

(* Blocks of members of T, and lines of them that are held back.           *)
BlocksIn(T, bs) == (\E B : bs \in Seq(B)) /\ \A k \in DOMAIN bs : bs[k].items \in Seq(T)
HeldIn(T, h) == (\E H : h \in Seq(H)) /\ \A k \in DOMAIN h : h[k].at \in T

LEMMA BlocksListed ==
    ASSUME NEW T, NEW bs, BlocksIn(T, bs)
    PROVE  [k \in DOMAIN bs |-> bs[k].items] \in Seq(Seq(T)) /\ Items(bs) \in Seq(T)
<1> DEFINE S == Seq(T)
           l == [k \in DOMAIN bs |-> bs[k].items]
<1>1. PICK B : bs \in Seq(B)
  BY DEF BlocksIn
<1>2. DOMAIN bs = 1 .. Len(bs) /\ Len(bs) \in Nat
  BY <1>1
<1>3. \A k \in DOMAIN bs : bs[k].items \in S
  BY DEF BlocksIn
<1> HIDE DEF S
<1>4. l \in [1 .. Len(bs) -> S]
  BY <1>2, <1>3
<1>5. l \in Seq(S)
  BY <1>2, <1>4
<1>6. Items(bs) = FlattenSeq(l)
  BY DEF Items
<1> HIDE DEF l
<1>7. FlattenSeq(l) \in Seq(T)
  BY <1>5, FlattenTyped DEF S
<1> QED BY <1>5, <1>6, <1>7 DEF S, l

(* One more block.                                                         *)
Adds(T, bs, b, after, items) ==
    BlocksIn(T, bs) /\ b.items \in Seq(T) /\ after = bs \o <<b>> /\ items = Items(bs) \o b.items

LEMMA BlocksOn ==
    ASSUME NEW T, NEW bs, NEW b, NEW after, NEW items, Adds(T, bs, b, after, items)
    PROVE  /\ BlocksIn(T, after) /\ Items(after) = items
           /\ ToSet(after) = ToSet(bs) \cup {b}
<1>0. /\ BlocksIn(T, bs) /\ b.items \in Seq(T) /\ after = bs \o <<b>>
      /\ items = Items(bs) \o b.items
  BY DEF Adds
<1>1. PICK B : bs \in Seq(B)
  BY <1>0 DEF BlocksIn
<1>2. bs \in Seq(B \cup {b})
  BY <1>1
<1>13. after = Append(bs, b)
  BY <1>0, <1>2
<1>3. /\ Append(bs, b) \in Seq(B \cup {b}) /\ Len(Append(bs, b)) = Len(bs) + 1
      /\ Append(bs, b)[Len(bs) + 1] = b /\ \A i \in 1 .. Len(bs) : Append(bs, b)[i] = bs[i]
      /\ Len(bs) \in Nat /\ DOMAIN bs = 1 .. Len(bs)
      /\ DOMAIN Append(bs, b) = 1 .. Len(bs) + 1
  BY <1>2
<1>4. \A k \in DOMAIN Append(bs, b) : k = Len(bs) + 1 \/ k \in DOMAIN bs
  BY <1>3
<1>5. BlocksIn(T, Append(bs, b))
  BY <1>0, <1>3, <1>4 DEF BlocksIn
<1> DEFINE l == [k \in DOMAIN bs |-> bs[k].items]
           m == [k \in DOMAIN Append(bs, b) |-> Append(bs, b)[k].items]
           S == Seq(T)
<1>7. l \in Seq(Seq(T)) /\ m \in Seq(Seq(T))
  BY <1>0, <1>5, BlocksListed
<1>8. m = Append(l, b.items)
  <2>1. l \in Seq(S) /\ m \in Seq(S) /\ b.items \in S
    BY <1>0, <1>7
  <2> HIDE DEF S
  <2>2. DOMAIN l = 1 .. Len(bs) /\ DOMAIN m = 1 .. Len(bs) + 1
    BY <1>3
  <2>3. Len(l) = Len(bs) /\ Len(m) = Len(bs) + 1
    <3> HIDE DEF l, m
    <3> QED BY <1>3, <2>1, <2>2
  <2>4. \A i \in 1 .. Len(bs) : m[i] = l[i]
    <3> SUFFICES ASSUME NEW i \in 1 .. Len(bs) PROVE m[i] = l[i]
      OBVIOUS
    <3>1. i \in DOMAIN bs /\ i \in DOMAIN Append(bs, b) /\ Append(bs, b)[i] = bs[i]
      BY <1>3
    <3> QED BY <3>1
  <2>5. m[Len(bs) + 1] = b.items
    <3>1. Len(bs) + 1 \in DOMAIN Append(bs, b) /\ Append(bs, b)[Len(bs) + 1] = b
      BY <1>3
    <3> QED BY <3>1
  <2> HIDE DEF l, m
  <2> QED BY <1>3, <2>1, <2>2, <2>3, <2>4, <2>5
<1>9. Items(Append(bs, b)) = FlattenSeq(m) /\ Items(bs) = FlattenSeq(l)
  BY DEF Items
<1>10. ToSet(after) = ToSet(bs) \cup {b}
  <2>1. /\ \A k \in DOMAIN after : after[k] = b \/ (k \in DOMAIN bs /\ after[k] = bs[k])
        /\ \A k \in DOMAIN bs : k \in DOMAIN after /\ after[k] = bs[k]
        /\ Len(bs) + 1 \in DOMAIN after /\ after[Len(bs) + 1] = b
    BY <1>3, <1>4, <1>13
  <2> QED BY <2>1 DEF ToSet
<1> HIDE DEF l, m
<1>11. FlattenSeq(Append(l, b.items)) = FlattenSeq(l) \o b.items
  BY <1>0, <1>7, FlattenOn
<1> QED BY <1>0, <1>5, <1>8, <1>9, <1>10, <1>11, <1>13

LEMMA NoBlocksIn == \A T : BlocksIn(T, <<>>) /\ Items(<<>>) = <<>> /\ ToSet(<<>>) = {}
<1>1. <<>> \in Seq({}) /\ DOMAIN <<>> = {}
  OBVIOUS
<1>2. [k \in DOMAIN <<>> |-> <<>>[k].items] = <<>>
  OBVIOUS
<1> QED BY <1>1, <1>2, FlattenNone DEF BlocksIn, Items, ToSet

LEMMA HeldListed ==
    ASSUME NEW T, NEW h, HeldIn(T, h)
    PROVE  Ats(h) \in Seq(T)
<1>1. PICK H : h \in Seq(H)
  BY DEF HeldIn
<1>2. DOMAIN h = 1 .. Len(h) /\ Len(h) \in Nat
  BY <1>1
<1>3. Ats(h) \in [1 .. Len(h) -> T]
  BY <1>2 DEF Ats, HeldIn
<1> QED BY <1>2, <1>3

LEMMA NoneHeldIn == \A T : HeldIn(T, <<>>) /\ Ats(<<>>) = <<>>
<1>1. <<>> \in Seq({}) /\ DOMAIN <<>> = {}
  OBVIOUS
<1> QED BY <1>1 DEF HeldIn, Ats

(* More lines are held back.                                               *)
Lengthens(T, h, l, c, e) ==
    HeldIn(T, h) /\ HeldIn(T, l) /\ c = h \o l /\ e = Ats(h) \o Ats(l)

LEMMA HeldOn ==
    ASSUME NEW T, NEW h, NEW l, NEW c, NEW e, Lengthens(T, h, l, c, e)
    PROVE  HeldIn(T, c) /\ Ats(c) = e
<1>0. HeldIn(T, h) /\ HeldIn(T, l) /\ c = h \o l /\ e = Ats(h) \o Ats(l)
  BY DEF Lengthens
<1>1. PICK G, K : h \in Seq(G) /\ l \in Seq(K)
  BY <1>0 DEF HeldIn
<1> DEFINE H == G \cup K
<1>2. h \in Seq(H) /\ l \in Seq(H)
  BY <1>1
<1> HIDE DEF H
<1>3. /\ c \in Seq(H) /\ Len(c) = Len(h) + Len(l)
      /\ \A i \in 1 .. Len(h) + Len(l) : c[i] = IF i <= Len(h) THEN h[i] ELSE l[i - Len(h)]
  <2>1. /\ h \o l \in Seq(H) /\ Len(h \o l) = Len(h) + Len(l)
        /\ \A i \in 1 .. Len(h) + Len(l) :
              (h \o l)[i] = IF i <= Len(h) THEN h[i] ELSE l[i - Len(h)]
    BY ONLY <1>2, ConcatProperties
  <2> QED BY <1>0, <2>1
<1>4. /\ Len(h) \in Nat /\ Len(l) \in Nat /\ DOMAIN h = 1 .. Len(h) /\ DOMAIN l = 1 .. Len(l)
      /\ DOMAIN c = 1 .. Len(h) + Len(l)
  BY <1>2, <1>3
<1>5. HeldIn(T, c)
  <2> SUFFICES ASSUME NEW i \in DOMAIN c PROVE c[i].at \in T
    BY <1>3 DEF HeldIn
  <2>1. CASE i <= Len(h)
    BY <1>0, <1>3, <1>4, <2>1 DEF HeldIn
  <2>2. CASE ~(i <= Len(h))
    <3>1. i - Len(h) \in DOMAIN l
      BY <1>4, <2>2
    <3>2. c[i] = l[i - Len(h)]
      BY <1>3, <1>4, <2>2
    <3> QED BY <1>0, <3>1, <3>2 DEF HeldIn
  <2> QED BY <2>1, <2>2
<1>6. /\ Ats(h) \in Seq(T) /\ Ats(l) \in Seq(T) /\ Ats(c) \in Seq(T)
      /\ Len(Ats(h)) = Len(h) /\ Len(Ats(l)) = Len(l) /\ Len(Ats(c)) = Len(h) + Len(l)
      /\ \A i \in DOMAIN h : Ats(h)[i] = h[i].at
      /\ \A i \in DOMAIN l : Ats(l)[i] = l[i].at
      /\ \A i \in DOMAIN c : Ats(c)[i] = c[i].at
  <2>1. /\ DOMAIN Ats(h) = 1 .. Len(h) /\ DOMAIN Ats(l) = 1 .. Len(l)
        /\ DOMAIN Ats(c) = 1 .. Len(h) + Len(l)
    BY <1>4 DEF Ats
  <2>2. Ats(h) \in Seq(T) /\ Ats(l) \in Seq(T) /\ Ats(c) \in Seq(T)
    BY <1>0, <1>5, HeldListed
  <2>3. /\ \A i \in DOMAIN h : Ats(h)[i] = h[i].at
        /\ \A i \in DOMAIN l : Ats(l)[i] = l[i].at
        /\ \A i \in DOMAIN c : Ats(c)[i] = c[i].at
    BY DEF Ats
  <2>4. Len(Ats(h)) = Len(h) /\ Len(Ats(l)) = Len(l) /\ Len(Ats(c)) = Len(h) + Len(l)
    BY <1>4, <2>1, <2>2
  <2> QED BY <2>2, <2>3, <2>4
<1> DEFINE a == Ats(h)
           b == Ats(l)
           d == Ats(c)
<1>7. /\ e \in Seq(T) /\ Len(e) = Len(h) + Len(l)
      /\ \A i \in 1 .. Len(h) + Len(l) : e[i] = IF i <= Len(h) THEN a[i] ELSE b[i - Len(h)]
  <2>1. a \in Seq(T) /\ b \in Seq(T) /\ Len(a) = Len(h) /\ Len(b) = Len(l)
    BY <1>6
  <2>2. e = a \o b
    BY <1>0 DEF a, b
  <2> HIDE DEF a, b
  <2>3. /\ a \o b \in Seq(T) /\ Len(a \o b) = Len(a) + Len(b)
        /\ \A i \in 1 .. Len(a) + Len(b) :
              (a \o b)[i] = IF i <= Len(a) THEN a[i] ELSE b[i - Len(a)]
    BY ONLY <2>1, ConcatProperties
  <2> QED BY <2>1, <2>2, <2>3
<1>8. ASSUME NEW i \in 1 .. Len(h) + Len(l) PROVE d[i] = e[i]
  <2>1. d[i] = c[i].at
    <3>1. i \in DOMAIN c
      BY <1>4
    <3>2. \A j \in DOMAIN c : Ats(c)[j] = c[j].at
      BY <1>6
    <3> QED BY ONLY <3>1, <3>2 DEF d
  <2> HIDE DEF a, b, d
  <2>2. CASE i <= Len(h)
    <3>1. i \in DOMAIN h /\ c[i] = h[i]
      BY <1>3, <1>4, <2>2
    <3>2. e[i] = a[i]
      BY <1>7, <2>2
    <3>3. a[i] = h[i].at
      BY <1>6, <3>1 DEF a
    <3> QED BY <2>1, <3>1, <3>2, <3>3
  <2>3. CASE ~(i <= Len(h))
    <3>1. i - Len(h) \in DOMAIN l /\ c[i] = l[i - Len(h)]
      BY <1>3, <1>4, <2>3
    <3>2. e[i] = b[i - Len(h)]
      BY <1>7, <2>3
    <3>3. b[i - Len(h)] = l[i - Len(h)].at
      BY <1>6, <3>1 DEF b
    <3> QED BY <2>1, <3>1, <3>2, <3>3
  <2> QED BY <2>2, <2>3
<1>9. d = e
  <2>1. d \in Seq(T) /\ Len(d) = Len(h) + Len(l)
    BY <1>6
  <2> HIDE DEF d
  <2> QED BY <1>7, <1>8, <2>1, SeqEqual
<1> QED BY <1>5, <1>9

(* The words of a line, held back.                                         *)
LEMMA HeldWords ==
    ASSUME NEW T, NEW ws \in Seq(T)
    PROVE  LET l == [k \in DOMAIN ws |-> [at |-> ws[k], indent |-> 0]]
           IN  HeldIn(T, l) /\ Ats(l) = ws
<1> DEFINE l == [k \in DOMAIN ws |-> [at |-> ws[k], indent |-> 0]]
           H == [at : T, indent : {0}]
<1>1. Len(ws) \in Nat /\ DOMAIN ws = 1 .. Len(ws) /\ \A k \in DOMAIN ws : ws[k] \in T
  OBVIOUS
<1>2. l \in [1 .. Len(ws) -> H]
  BY <1>1
<1>3. l \in Seq(H)
  <2> HIDE DEF l, H
  <2> QED BY <1>1, <1>2
<1>4. DOMAIN l = DOMAIN ws /\ \A k \in DOMAIN ws : l[k].at = ws[k]
  OBVIOUS
<1> HIDE DEF l, H
<1>5. HeldIn(T, l)
  BY <1>1, <1>3, <1>4 DEF HeldIn
<1>6. Ats(l) = [k \in DOMAIN ws |-> ws[k]]
  BY <1>4 DEF Ats
<1>7. ws = [k \in DOMAIN ws |-> ws[k]]
  <2>1. ws \in [1 .. Len(ws) -> T]
    OBVIOUS
  <2> QED BY <2>1
<1> QED BY <1>5, <1>6, <1>7 DEF l

(* The lines that were held back are written.                              *)
LEMMA FlushedIn ==
    ASSUME NEW T, BlocksIn(T, blocks), HeldIn(T, held)
    PROVE  /\ BlocksIn(T, blocks \o Flush("prose"))
           /\ Items(blocks \o Flush("prose")) = Items(blocks) \o Ats(held)
           /\ \/ ToSet(blocks \o Flush("prose")) = ToSet(blocks)
              \/ \E b : /\ b.kind = "prose" /\ b.level = 0
                        /\ ToSet(blocks \o Flush("prose")) = ToSet(blocks) \cup {b}
<1>1. CASE held = <<>>
  <2>1. PICK B : blocks \in Seq(B)
    BY DEF BlocksIn
  <2>2. blocks \o <<>> = blocks
    BY <2>1
  <2>3. Items(blocks) \in Seq(T)
    BY BlocksListed
  <2>4. Items(blocks) \o <<>> = Items(blocks)
    BY <2>3
  <2> QED BY <1>1, <2>2, <2>4, NoneHeldIn DEF Flush
<1>2. CASE held # <<>>
  <2> DEFINE b == BlockOf("prose", held)
  <2>1. b.items = Ats(held) /\ b.kind = "prose" /\ b.level = 0
    BY DEF BlockOf, Ats
  <2>2. Flush("prose") = <<b>>
    BY <1>2 DEF Flush
  <2> HIDE DEF b
  <2>3. b.items \in Seq(T)
    BY <2>1, HeldListed
  <2>4. /\ BlocksIn(T, blocks \o <<b>>) /\ Items(blocks \o <<b>>) = Items(blocks) \o b.items
        /\ ToSet(blocks \o <<b>>) = ToSet(blocks) \cup {b}
    <3>1. PICK after, items : after = blocks \o <<b>> /\ items = Items(blocks) \o b.items
      OBVIOUS
    <3>2. Adds(T, blocks, b, after, items)
      BY <2>3, <3>1 DEF Adds
    <3>3. BlocksIn(T, after) /\ Items(after) = items /\ ToSet(after) = ToSet(blocks) \cup {b}
      BY ONLY <3>2, BlocksOn
    <3> QED BY <3>1, <3>3
  <2>5. \E c : /\ c.kind = "prose" /\ c.level = 0
               /\ ToSet(blocks \o <<b>>) = ToSet(blocks) \cup {c}
    BY <2>1, <2>4
  <2> QED BY <2>1, <2>2, <2>4, <2>5
<1> QED BY <1>1, <1>2

-----------------------------------------------------------------------------
(* What is left of the columns of a page.                                  *)

(* Words, the items of a column, and items with their heading levels.      *)
Word == [x0 : Int, x1 : Int, top : Int, size : Nat, height : Nat, bold : BOOLEAN, depth : Nat]
Thing == [kind : {"line", "table"}, words : Seq(Word), top : Int, size : Nat, bold : BOOLEAN,
          depth : Nat]
Marked == {x \in [item : Thing, level : 0 .. 4] : x.level > 0 => x.item.kind = "line"}

(* What is left to write of columns: their words, and their headings.      *)
ColumnWords(c) == FlattenSeq([k \in DOMAIN c |-> c[k].item.words])
Rest(w) == FlattenSeq([b \in DOMAIN w |-> ColumnWords(w[b])])
Members(w) == UNION {ToSet(w[b]) : b \in DOMAIN w}
HeadingOf(x) == Block("heading", x.level, x.item.words)
HeadsLeft(w) == {HeadingOf(x) : x \in {y \in Members(w) : y.level > 0}}
HeadsWritten(bs) == {b \in ToSet(bs) : b.kind = "heading"}

(* A list, its first member and the others.                                *)
LEMMA HeadAndRest ==
    ASSUME NEW T, NEW s \in Seq(T), s # <<>>
    PROVE  /\ Len(Tail(s)) \in Nat /\ Len(s) = Len(Tail(s)) + 1 /\ Tail(s) \in Seq(T)
           /\ Head(s) = s[1] /\ s[1] \in T /\ DOMAIN s = 1 .. Len(Tail(s)) + 1
           /\ DOMAIN Tail(s) = 1 .. Len(Tail(s))
           /\ \A i \in 1 .. Len(Tail(s)) : Tail(s)[i] = s[i + 1]
           /\ ToSet(s) = {s[1]} \cup ToSet(Tail(s))
<1>1. Head(s) \in T /\ Tail(s) \in Seq(T) /\ Len(Tail(s)) = Len(s) - 1
  BY HeadTailProperties
<1>2. \A i \in 1 .. Len(Tail(s)) : Tail(s)[i] = s[i + 1]
  BY HeadTailProperties
<1>3. Len(s) \in Nat /\ Len(Tail(s)) \in Nat /\ DOMAIN s = 1 .. Len(s)
  BY <1>1
<1>4. Head(s) = s[1]
  BY <1>3
<1>5. DOMAIN Tail(s) = 1 .. Len(Tail(s))
  BY <1>1
<1> DEFINE t == Tail(s)
<1>6. t = Tail(s)
  OBVIOUS
<1>7. Len(t) \in Nat /\ Len(s) = Len(t) + 1 /\ DOMAIN t = 1 .. Len(t)
      /\ DOMAIN s = 1 .. Len(t) + 1 /\ \A i \in 1 .. Len(t) : t[i] = s[i + 1]
  BY <1>1, <1>2, <1>3, <1>5
<1> HIDE DEF t
<1>8. ToSet(s) = {s[1]} \cup ToSet(t)
  <2>1. \A i \in DOMAIN s : i = 1 \/ (i - 1 \in DOMAIN t /\ t[i - 1] = s[i])
    BY <1>7
  <2>2. \A i \in DOMAIN t : i + 1 \in DOMAIN s /\ t[i] = s[i + 1]
    BY <1>7
  <2>3. 1 \in DOMAIN s
    BY <1>7
  <2> QED BY <2>1, <2>2, <2>3 DEF ToSet
<1> QED BY <1>1, <1>4, <1>6, <1>7, <1>8

LEMMA ListOf ==
    ASSUME NEW T, NEW n \in Nat, NEW l \in [1 .. n -> T]
    PROVE  l \in Seq(T) /\ Len(l) = n
OBVIOUS

LEMMA ItemWords ==
    ASSUME NEW c \in Seq(Marked)
    PROVE  /\ [k \in DOMAIN c |-> c[k].item.words] \in Seq(Seq(Word))
           /\ ColumnWords(c) \in Seq(Word)
<1> DEFINE S == Seq(Word)
           l == [k \in DOMAIN c |-> c[k].item.words]
<1>1. Len(c) \in Nat /\ DOMAIN c = 1 .. Len(c) /\ \A k \in DOMAIN c : c[k] \in Marked
  OBVIOUS
<1>2. \A x \in Marked : x.item.words \in S
  BY DEF Marked, Thing
<1> HIDE DEF S
<1>3. l \in [1 .. Len(c) -> S]
  BY <1>1, <1>2
<1>4. l \in Seq(S)
  <2> HIDE DEF l
  <2> QED BY <1>1, <1>3
<1>5. ColumnWords(c) = FlattenSeq(l)
  BY DEF ColumnWords
<1> HIDE DEF l
<1>6. FlattenSeq(l) \in Seq(Word)
  BY <1>4, FlattenTyped DEF S
<1> QED BY <1>4, <1>5, <1>6 DEF S, l

(* The words of the first item come first.                                 *)
LEMMA ItemFirst ==
    ASSUME NEW c \in Seq(Marked), c # <<>>
    PROVE  /\ c[1] \in Marked /\ Tail(c) \in Seq(Marked)
           /\ ColumnWords(c) = c[1].item.words \o ColumnWords(Tail(c))
<1> DEFINE n == Len(Tail(c))
           l == [k \in DOMAIN c |-> c[k].item.words]
           m == [k \in DOMAIN Tail(c) |-> Tail(c)[k].item.words]
           S == Seq(Word)
<1>1. /\ n \in Nat /\ DOMAIN c = 1 .. n + 1 /\ DOMAIN Tail(c) = 1 .. n
      /\ \A i \in 1 .. n : Tail(c)[i] = c[i + 1]
      /\ c[1] \in Marked /\ Tail(c) \in Seq(Marked)
  BY HeadAndRest
<1>2. l \in Seq(S) /\ m \in Seq(S)
  BY <1>1, ItemWords
<1>3. DOMAIN l = 1 .. n + 1 /\ DOMAIN m = 1 .. n /\ l[1] = c[1].item.words
  BY <1>1
<1>4. \A i \in 1 .. n : m[i] = l[i + 1]
  <2> SUFFICES ASSUME NEW i \in 1 .. n PROVE m[i] = l[i + 1]
    OBVIOUS
  <2>1. i \in DOMAIN Tail(c) /\ i + 1 \in DOMAIN c
    BY <1>1
  <2> QED BY <1>1, <2>1
<1>5. ColumnWords(c) = FlattenSeq(l) /\ ColumnWords(Tail(c)) = FlattenSeq(m)
  BY DEF ColumnWords
<1> HIDE DEF l, m, n, S
<1>6. Len(l) = Len(m) + 1 /\ Len(m) = n
  BY <1>1, <1>2, <1>3
<1>7. FlattenSeq(l) = l[1] \o FlattenSeq(m)
  BY <1>2, <1>4, <1>6, FlattenFirst DEF S
<1> QED BY <1>1, <1>3, <1>5, <1>7

LEMMA ColumnsListed ==
    ASSUME NEW w \in Seq(Seq(Marked))
    PROVE  /\ [b \in DOMAIN w |-> ColumnWords(w[b])] \in Seq(Seq(Word))
           /\ Rest(w) \in Seq(Word)
<1> DEFINE S == Seq(Word)
           C == Seq(Marked)
           l == [b \in DOMAIN w |-> ColumnWords(w[b])]
<1>1. Len(w) \in Nat /\ DOMAIN w = 1 .. Len(w) /\ \A k \in DOMAIN w : w[k] \in C
  <2>1. w \in Seq(C)
    OBVIOUS
  <2> HIDE DEF C
  <2> QED BY <2>1
<1>2. \A c \in C : ColumnWords(c) \in S
  BY ItemWords
<1> HIDE DEF S, C
<1>3. l \in [1 .. Len(w) -> S]
  BY <1>1, <1>2
<1>4. l \in Seq(S)
  <2>1. Len(w) \in Nat
    BY <1>1
  <2> HIDE DEF l
  <2> QED BY ONLY <1>3, <2>1, ListOf
<1>5. Rest(w) = FlattenSeq(l)
  BY DEF Rest
<1> HIDE DEF l
<1>6. FlattenSeq(l) \in Seq(Word)
  BY <1>4, FlattenTyped DEF S
<1> QED BY <1>4, <1>5, <1>6 DEF S, l

LEMMA ColumnFirst ==
    ASSUME NEW w \in Seq(Seq(Marked)), w # <<>>
    PROVE  /\ w[1] \in Seq(Marked) /\ Tail(w) \in Seq(Seq(Marked)) /\ Head(w) = w[1]
           /\ Rest(w) = ColumnWords(w[1]) \o Rest(Tail(w))
           /\ Members(w) = ToSet(w[1]) \cup Members(Tail(w))
<1> DEFINE n == Len(Tail(w))
           l == [b \in DOMAIN w |-> ColumnWords(w[b])]
           m == [b \in DOMAIN Tail(w) |-> ColumnWords(Tail(w)[b])]
           S == Seq(Word)
           C == Seq(Marked)
<1>1. /\ n \in Nat /\ DOMAIN w = 1 .. n + 1 /\ DOMAIN Tail(w) = 1 .. n
      /\ \A i \in 1 .. n : Tail(w)[i] = w[i + 1]
      /\ w[1] \in C /\ Tail(w) \in Seq(C) /\ Head(w) = w[1]
  <2>1. w \in Seq(C)
    OBVIOUS
  <2> HIDE DEF C
  <2> QED BY <2>1, HeadAndRest
<1>2. l \in Seq(S) /\ m \in Seq(S)
  BY <1>1, ColumnsListed
<1>3. DOMAIN l = 1 .. n + 1 /\ DOMAIN m = 1 .. n /\ l[1] = ColumnWords(w[1])
  BY <1>1
<1>4. \A i \in 1 .. n : m[i] = l[i + 1]
  <2> SUFFICES ASSUME NEW i \in 1 .. n PROVE m[i] = l[i + 1]
    OBVIOUS
  <2>1. i \in DOMAIN Tail(w) /\ i + 1 \in DOMAIN w
    BY <1>1
  <2> QED BY <1>1, <2>1
<1>5. Rest(w) = FlattenSeq(l) /\ Rest(Tail(w)) = FlattenSeq(m)
  BY DEF Rest
<1> HIDE DEF l, m, n, S
<1>6. Len(l) = Len(m) + 1 /\ Len(m) = n
  BY <1>1, <1>2, <1>3
<1>7. FlattenSeq(l) = l[1] \o FlattenSeq(m)
  BY <1>2, <1>4, <1>6, FlattenFirst DEF S
<1>8. Members(w) = ToSet(w[1]) \cup Members(Tail(w))
  <2> DEFINE t == Tail(w)
  <2>1. \A i \in DOMAIN w : i = 1 \/ (i - 1 \in DOMAIN t /\ t[i - 1] = w[i])
    BY <1>1
  <2>2. \A i \in DOMAIN t : i + 1 \in DOMAIN w /\ t[i] = w[i + 1]
    BY <1>1
  <2>3. 1 \in DOMAIN w
    BY <1>1
  <2> HIDE DEF t
  <2>4. UNION {ToSet(w[b]) : b \in DOMAIN w} = ToSet(w[1]) \cup UNION {ToSet(t[b]) : b \in DOMAIN t}
    BY <2>1, <2>2, <2>3
  <2> QED BY <2>4 DEF t, Members
<1> QED BY <1>1, <1>3, <1>5, <1>7, <1>8

(* The first item is taken.                                                *)
LEMMA ItemTaken ==
    ASSUME NEW w \in Seq(Seq(Marked)), w # <<>>, Head(w) # <<>>,
           NEW x, x = Head(Head(w)), NEW next, next = <<Tail(Head(w))>> \o Tail(w)
    PROVE  /\ x \in Marked /\ next \in Seq(Seq(Marked)) /\ next # <<>>
           /\ Rest(w) = x.item.words \o Rest(next)
           /\ Members(w) = {x} \cup Members(next)
<1> DEFINE C == Seq(Marked)
           c == w[1]
<1>1. c \in C /\ Tail(w) \in Seq(C) /\ Head(w) = c
      /\ Rest(w) = ColumnWords(c) \o Rest(Tail(w))
      /\ Members(w) = ToSet(c) \cup Members(Tail(w))
  BY ColumnFirst
<1>2. c[1] \in Marked /\ Tail(c) \in C /\ ColumnWords(c) = c[1].item.words \o ColumnWords(Tail(c))
  BY <1>1, ItemFirst
<1>3. x = c[1] /\ ToSet(c) = {x} \cup ToSet(Tail(c))
  BY <1>1, HeadAndRest
<1> DEFINE rest == Tail(w)
           short == Tail(c)
<1> HIDE DEF c
<1>4. short \in C /\ rest \in Seq(C) /\ next = <<short>> \o rest
  BY <1>1, <1>2
<1>5. next \in Seq(C) /\ next # <<>> /\ next[1] = short /\ Tail(next) = rest
  <2> HIDE DEF C, short, rest
  <2>1. <<short>> \in Seq(C) /\ Len(<<short>>) = 1 /\ <<short>>[1] = short
    BY <1>4
  <2>2. Len(rest) \in Nat
    BY <1>4
  <2>3. /\ next \in Seq(C) /\ Len(next) = 1 + Len(rest)
        /\ \A i \in 1 .. 1 + Len(rest) : next[i] = IF i <= 1 THEN <<short>>[i] ELSE rest[i - 1]
    <3> DEFINE one == <<short>>
    <3>1. one \in Seq(C) /\ Len(one) = 1 /\ next = one \o rest
      BY <1>4, <2>1
    <3> HIDE DEF one
    <3>2. /\ one \o rest \in Seq(C) /\ Len(one \o rest) = Len(one) + Len(rest)
          /\ \A i \in 1 .. Len(one) + Len(rest) :
                (one \o rest)[i] = IF i <= Len(one) THEN one[i] ELSE rest[i - Len(one)]
      BY <1>4, <3>1, ConcatProperties
    <3>3. /\ next \in Seq(C) /\ Len(next) = 1 + Len(rest)
          /\ \A i \in 1 .. 1 + Len(rest) : next[i] = IF i <= 1 THEN one[i] ELSE rest[i - 1]
      BY ONLY <3>1, <3>2
    <3> QED BY <3>3 DEF one
  <2>4. next # <<>> /\ next[1] = short
    BY <2>1, <2>2, <2>3
  <2>5. /\ Tail(next) \in Seq(C) /\ Len(Tail(next)) = Len(rest)
        /\ \A i \in 1 .. Len(rest) : Tail(next)[i] = next[i + 1]
    BY <2>2, <2>3, <2>4, HeadTailProperties
  <2>6. \A i \in 1 .. Len(rest) : next[i + 1] = rest[i]
    <3> SUFFICES ASSUME NEW i \in 1 .. Len(rest) PROVE next[i + 1] = rest[i]
      OBVIOUS
    <3>1. i + 1 \in 1 .. 1 + Len(rest) /\ ~(i + 1 <= 1) /\ (i + 1) - 1 = i
      BY <2>2
    <3> QED BY ONLY <2>3, <3>1
  <2>7. Tail(next) = rest
    <3> DEFINE t == Tail(next)
    <3>1. t \in Seq(C) /\ Len(t) = Len(rest) /\ \A i \in 1 .. Len(rest) : t[i] = rest[i]
      BY <2>5, <2>6
    <3> HIDE DEF t
    <3>2. t = rest
      BY <1>4, <3>1, SeqEqual
    <3> QED BY <3>2 DEF t
  <2> QED BY <2>3, <2>4, <2>7
<1>6. Rest(next) = ColumnWords(short) \o Rest(rest)
      /\ Members(next) = ToSet(short) \cup Members(rest)
  BY <1>5, ColumnFirst
<1>7. x.item.words \in Seq(Word)
  BY <1>2, <1>3 DEF Marked, Thing
<1>8. ColumnWords(short) \in Seq(Word) /\ Rest(rest) \in Seq(Word)
  BY <1>4, ItemWords, ColumnsListed
<1>9. Rest(w) = (x.item.words \o ColumnWords(short)) \o Rest(rest)
  BY <1>1, <1>2, <1>3
<1> HIDE DEF short, rest
<1>10. (x.item.words \o ColumnWords(short)) \o Rest(rest)
        = x.item.words \o (ColumnWords(short) \o Rest(rest))
  <2>1. PICK a \in Seq(Word), b \in Seq(Word), d \in Seq(Word) :
           a = x.item.words /\ b = ColumnWords(short) /\ d = Rest(rest)
    BY <1>7, <1>8
  <2>2. (a \o b) \o d = a \o (b \o d)
    BY ONLY Associate, a \in Seq(Word), b \in Seq(Word), d \in Seq(Word)
  <2> QED BY <2>1, <2>2
<1>11. Members(w) = {x} \cup Members(next)
  BY <1>1, <1>3, <1>6 DEF short, rest
<1> QED BY <1>2, <1>3, <1>5, <1>6, <1>9, <1>10, <1>11

(* A column is at its end.                                                 *)
LEMMA ColumnTaken ==
    ASSUME NEW w \in Seq(Seq(Marked)), w # <<>>, Head(w) = <<>>
    PROVE  /\ Tail(w) \in Seq(Seq(Marked))
           /\ Rest(w) = Rest(Tail(w)) /\ Members(w) = Members(Tail(w))
<1>1. /\ Tail(w) \in Seq(Seq(Marked)) /\ Head(w) = w[1]
      /\ Rest(w) = ColumnWords(w[1]) \o Rest(Tail(w))
      /\ Members(w) = ToSet(w[1]) \cup Members(Tail(w))
  BY ColumnFirst
<1>2. ColumnWords(<<>>) = <<>> /\ ToSet(<<>>) = {}
  <2>1. [k \in DOMAIN <<>> |-> <<>>[k].item.words] = <<>>
    OBVIOUS
  <2> QED BY <2>1, FlattenNone DEF ColumnWords, ToSet
<1>3. Rest(Tail(w)) \in Seq(Word)
  BY <1>1, ColumnsListed
<1>4. <<>> \o Rest(Tail(w)) = Rest(Tail(w))
  BY <1>3, ConcatEmptySeq
<1> QED BY <1>1, <1>2, <1>4

LEMMA NothingLeft == Rest(<<>>) = <<>> /\ Members(<<>>) = {}
<1>1. [b \in DOMAIN <<>> |-> ColumnWords(<<>>[b])] = <<>> /\ DOMAIN <<>> = {}
  OBVIOUS
<1> QED BY <1>1, FlattenNone DEF Rest, Members

-----------------------------------------------------------------------------
(* The inductive part of a walk of columns: what has been written, what is *)
(* held back and what is left are all the words of the columns, in their   *)
(* order, and the headings written and left are all their headings.        *)
Walked(cols, w, h, bs) ==
    /\ w \in Seq(Seq(Marked))
    /\ BlocksIn(Word, bs) /\ HeldIn(Word, h)
    /\ (Items(bs) \o Ats(h)) \o Rest(w) = Rest(cols)
    /\ HeadsWritten(bs) \cup HeadsLeft(w) = HeadsLeft(cols)
    /\ w = <<>> => h = <<>>

LEMMA NoHeadings == HeadsWritten(<<>>) = {}
BY NoBlocksIn DEF HeadsWritten

LEMMA WalkBegins ==
    ASSUME NEW cols \in Seq(Seq(Marked))
    PROVE  Walked(cols, cols, <<>>, <<>>)
<1>1. BlocksIn(Word, <<>>) /\ HeldIn(Word, <<>>) /\ Items(<<>>) = <<>> /\ Ats(<<>>) = <<>>
  BY NoBlocksIn, NoneHeldIn
<1>2. Rest(cols) \in Seq(Word)
  BY ColumnsListed
<1>3. (<<>> \o <<>>) \o Rest(cols) = Rest(cols)
  <2>1. PICK r \in Seq(Word) : r = Rest(cols)
    BY <1>2
  <2>2. (<<>> \o <<>>) \o r = r
    OBVIOUS
  <2> QED BY <2>1, <2>2
<1> QED BY <1>1, <1>3, NoHeadings DEF Walked

(* A block is written, after the lines that were held back.                *)
IsHeadingOf(b, x) ==
    \/ b.kind = "heading" /\ x.level > 0 /\ b = HeadingOf(x)
    \/ b.kind # "heading" /\ ~(x.level > 0)

Writes(cols, x, next, b, bs) ==
    /\ Walked(cols, work, held, blocks)
    /\ x \in Marked /\ next \in Seq(Seq(Marked)) /\ Rest(work) = x.item.words \o Rest(next)
    /\ Members(work) = {x} \cup Members(next)
    /\ b.items = x.item.words /\ IsHeadingOf(b, x)
    /\ bs = blocks \o Flush("prose") \o <<b>>

LEMMA BlockWritten ==
    ASSUME NEW cols, NEW x, NEW next, NEW b, NEW bs, Writes(cols, x, next, b, bs)
    PROVE  Walked(cols, next, <<>>, bs)
<1>0. /\ Walked(cols, work, held, blocks)
      /\ x \in Marked /\ next \in Seq(Seq(Marked)) /\ Rest(work) = x.item.words \o Rest(next)
      /\ Members(work) = {x} \cup Members(next)
      /\ b.items = x.item.words /\ IsHeadingOf(b, x)
      /\ bs = blocks \o Flush("prose") \o <<b>>
  BY DEF Writes
<1> DEFINE flushed == blocks \o Flush("prose")
<1>1. BlocksIn(Word, blocks) /\ HeldIn(Word, held)
  BY <1>0 DEF Walked
<1>2. /\ BlocksIn(Word, flushed) /\ Items(flushed) = Items(blocks) \o Ats(held)
      /\ \/ ToSet(flushed) = ToSet(blocks)
         \/ \E c : c.kind = "prose" /\ c.level = 0 /\ ToSet(flushed) = ToSet(blocks) \cup {c}
  BY <1>1, FlushedIn
<1>3. HeadsWritten(flushed) = HeadsWritten(blocks)
  <2> HIDE DEF flushed
  <2> QED BY <1>2 DEF HeadsWritten
<1>4. x.item.words \in Seq(Word)
  BY <1>0 DEF Marked, Thing
<1>5. b.items \in Seq(Word)
  BY <1>0, <1>4
<1>6. bs = flushed \o <<b>>
  BY <1>0
<1> HIDE DEF flushed
<1>7. /\ BlocksIn(Word, bs) /\ Items(bs) = Items(flushed) \o x.item.words
      /\ ToSet(bs) = ToSet(flushed) \cup {b}
  <2>1. PICK items : items = Items(flushed) \o b.items
    OBVIOUS
  <2>2. Adds(Word, flushed, b, bs, items)
    BY <1>2, <1>5, <1>6, <2>1 DEF Adds
  <2>3. BlocksIn(Word, bs) /\ Items(bs) = items /\ ToSet(bs) = ToSet(flushed) \cup {b}
    BY ONLY <2>2, BlocksOn
  <2> QED BY <1>0, <2>1, <2>3
<1>10. HeadsWritten(bs) \cup HeadsLeft(next) = HeadsLeft(cols)
  <2>1. HeadsWritten(blocks) \cup HeadsLeft(work) = HeadsLeft(cols)
    BY <1>0 DEF Walked
  <2>2. CASE b.kind = "heading" /\ x.level > 0 /\ b = HeadingOf(x)
    <3>1. HeadsWritten(bs) = HeadsWritten(blocks) \cup {HeadingOf(x)}
      BY <1>3, <1>7, <2>2 DEF HeadsWritten
    <3>2. HeadsLeft(work) = {HeadingOf(x)} \cup HeadsLeft(next)
      BY <1>0, <2>2 DEF HeadsLeft
    <3> QED BY <2>1, <3>1, <3>2
  <2>3. CASE b.kind # "heading" /\ ~(x.level > 0)
    <3>1. HeadsWritten(bs) = HeadsWritten(blocks)
      BY <1>3, <1>7, <2>3 DEF HeadsWritten
    <3>2. HeadsLeft(work) = HeadsLeft(next)
      BY <1>0, <2>3 DEF HeadsLeft
    <3> QED BY <2>1, <3>1, <3>2
  <2> QED BY <1>0, <2>2, <2>3 DEF IsHeadingOf
<1>11. (Items(bs) \o Ats(<<>>)) \o Rest(next) = Rest(cols)
  <2>1. /\ Items(flushed) \in Seq(Word) /\ Items(bs) \in Seq(Word) /\ Rest(next) \in Seq(Word)
    BY <1>0, <1>2, <1>7, BlocksListed, ColumnsListed
  <2>2. PICK f \in Seq(Word), i \in Seq(Word), r \in Seq(Word) :
           f = Items(flushed) /\ i = x.item.words /\ r = Rest(next)
    BY <1>4, <2>1
  <2>3. ((f \o i) \o <<>>) \o r = f \o (i \o r)
    <3>1. f \o i \in Seq(Word)
      BY ONLY f \in Seq(Word), i \in Seq(Word)
    <3>2. (f \o i) \o <<>> = f \o i
      BY ONLY <3>1, NothingAfter
    <3>3. (f \o i) \o r = f \o (i \o r)
      BY ONLY Associate, f \in Seq(Word), i \in Seq(Word), r \in Seq(Word)
    <3> QED BY ONLY <3>2, <3>3
  <2>4. Ats(<<>>) = <<>>
    BY NoneHeldIn
  <2>5. f \o (i \o r) = Rest(cols)
    BY <1>0, <1>2, <2>2 DEF Walked
  <2> QED BY <1>7, <2>2, <2>3, <2>4, <2>5
<1>12. HeldIn(Word, <<>>)
  BY NoneHeldIn
<1> QED BY <1>0, <1>7, <1>10, <1>11, <1>12 DEF Walked

LEMMA TableWritten ==
    ASSUME NEW cols, Walked(cols, work, held, blocks), EmitTable
    PROVE  Walked(cols, work', held', blocks')
<1>1. /\ work \in Seq(Seq(Marked)) /\ work # <<>> /\ Head(work) # <<>>
      /\ Item.item.kind = "table" /\ held' = <<>>
      /\ work' = <<Tail(Head(work))>> \o Tail(work)
      /\ blocks' = blocks \o Flush("prose") \o <<Block("table", 0, Item.item.words)>>
  BY DEF EmitTable, NextItem, Walked
<1>2. PICK x, next, b : /\ x = Item /\ next = work'
                        /\ b = Block("table", 0, Item.item.words)
  OBVIOUS
<1>3. /\ x \in Marked /\ next \in Seq(Seq(Marked)) /\ Rest(work) = x.item.words \o Rest(next)
      /\ Members(work) = {x} \cup Members(next)
  BY <1>1, <1>2, ItemTaken DEF Item
<1>4. b.items = x.item.words /\ b.kind # "heading"
  BY <1>2 DEF Block
<1>5. ~(x.level > 0)
  BY <1>1, <1>2, <1>3 DEF Marked
<1>6. PICK bs : bs = blocks'
  OBVIOUS
<1>7. Writes(cols, x, next, b, bs)
  BY <1>1, <1>2, <1>3, <1>4, <1>5, <1>6 DEF Writes, IsHeadingOf
<1>8. Walked(cols, next, <<>>, bs)
  BY ONLY <1>7, BlockWritten
<1> QED BY <1>1, <1>2, <1>6, <1>8

LEMMA HeadingWritten ==
    ASSUME NEW cols, Walked(cols, work, held, blocks), EmitHeading
    PROVE  Walked(cols, work', held', blocks')
<1>1. /\ work \in Seq(Seq(Marked)) /\ work # <<>> /\ Head(work) # <<>>
      /\ Item.level > 0 /\ held' = <<>>
      /\ work' = <<Tail(Head(work))>> \o Tail(work)
      /\ blocks' = blocks \o Flush("prose") \o <<Block("heading", Item.level, Item.item.words)>>
  BY DEF EmitHeading, NextItem, Walked
<1>2. PICK x, next, b : /\ x = Item /\ next = work'
                        /\ b = Block("heading", Item.level, Item.item.words)
  OBVIOUS
<1>3. /\ x \in Marked /\ next \in Seq(Seq(Marked)) /\ Rest(work) = x.item.words \o Rest(next)
      /\ Members(work) = {x} \cup Members(next)
  BY <1>1, <1>2, ItemTaken DEF Item
<1>4. b.items = x.item.words /\ b.kind = "heading" /\ b = HeadingOf(x) /\ x.level > 0
  BY <1>1, <1>2 DEF Block, HeadingOf
<1>6. PICK bs : bs = blocks'
  OBVIOUS
<1>7. Writes(cols, x, next, b, bs)
  BY <1>1, <1>2, <1>3, <1>4, <1>6 DEF Writes, IsHeadingOf
<1>8. Walked(cols, next, <<>>, bs)
  BY ONLY <1>7, BlockWritten
<1> QED BY <1>1, <1>2, <1>6, <1>8

LEMMA LineHeld ==
    ASSUME NEW cols, Walked(cols, work, held, blocks), HoldLine
    PROVE  Walked(cols, work', held', blocks')
<1>1. /\ work \in Seq(Seq(Marked)) /\ work # <<>> /\ Head(work) # <<>>
      /\ Item.level = 0 /\ blocks' = blocks
      /\ work' = <<Tail(Head(work))>> \o Tail(work)
      /\ held' = held \o [k \in DOMAIN Item.item.words |->
                              [at |-> Item.item.words[k], indent |-> 0]]
  BY DEF HoldLine, NextItem, Walked
<1>2. PICK x, next, more : /\ x = Item /\ next = work'
                           /\ more = [k \in DOMAIN x.item.words |->
                                         [at |-> x.item.words[k], indent |-> 0]]
  OBVIOUS
<1>3. /\ x \in Marked /\ next \in Seq(Seq(Marked)) /\ Rest(work) = x.item.words \o Rest(next)
      /\ Members(work) = {x} \cup Members(next) /\ next # <<>>
  BY <1>1, <1>2, ItemTaken DEF Item
<1>4. x.item.words \in Seq(Word)
  BY <1>3 DEF Marked, Thing
<1>5. HeldIn(Word, more) /\ Ats(more) = x.item.words
  BY <1>2, <1>4, HeldWords
<1>6. BlocksIn(Word, blocks) /\ HeldIn(Word, held)
  BY DEF Walked
<1>7. HeldIn(Word, held \o more) /\ Ats(held \o more) = Ats(held) \o Ats(more)
  <2>1. PICK c, e : c = held \o more /\ e = Ats(held) \o Ats(more)
    OBVIOUS
  <2>2. Lengthens(Word, held, more, c, e)
    BY <1>5, <1>6, <2>1 DEF Lengthens
  <2>3. HeldIn(Word, c) /\ Ats(c) = e
    BY ONLY <2>2, HeldOn
  <2> QED BY <2>1, <2>3
<1>8. held' = held \o more
  BY <1>1, <1>2
<1>9. HeadsLeft(work) = HeadsLeft(next)
  <2>1. ~(x.level > 0)
    BY <1>1, <1>2
  <2> QED BY <1>3, <2>1 DEF HeadsLeft
<1>10. (Items(blocks) \o Ats(held \o more)) \o Rest(next) = Rest(cols)
  <2>1. Items(blocks) \in Seq(Word) /\ Ats(held) \in Seq(Word) /\ Rest(next) \in Seq(Word)
    BY <1>3, <1>6, BlocksListed, HeldListed, ColumnsListed
  <2>2. PICK i \in Seq(Word), a \in Seq(Word), m \in Seq(Word), r \in Seq(Word) :
           i = Items(blocks) /\ a = Ats(held) /\ m = x.item.words /\ r = Rest(next)
    BY <1>4, <2>1
  <2>3. (i \o (a \o m)) \o r = (i \o a) \o (m \o r)
    <3>1. i \o a \in Seq(Word)
      BY ONLY i \in Seq(Word), a \in Seq(Word)
    <3>2. PICK e \in Seq(Word) : e = i \o a
      BY ONLY <3>1
    <3>3. i \o (a \o m) = (i \o a) \o m
      BY ONLY i \in Seq(Word), a \in Seq(Word), m \in Seq(Word), SMTT(60)
    <3>4. (e \o m) \o r = e \o (m \o r)
      BY ONLY e \in Seq(Word), m \in Seq(Word), r \in Seq(Word), SMTT(60)
    <3> QED BY ONLY <3>2, <3>3, <3>4
  <2>4. (i \o a) \o (m \o r) = Rest(cols)
    BY <1>3, <2>2 DEF Walked
  <2> QED BY <1>5, <1>7, <2>2, <2>3, <2>4
<1>11. Walked(cols, next, held \o more, blocks)
  <2>1. HeadsWritten(blocks) \cup HeadsLeft(next) = HeadsLeft(cols)
    BY <1>9 DEF Walked
  <2> QED BY <1>3, <1>6, <1>7, <1>10, <2>1 DEF Walked
<1> QED BY <1>1, <1>2, <1>8, <1>11

LEMMA ColumnEnded ==
    ASSUME NEW cols, Walked(cols, work, held, blocks), EndColumn
    PROVE  Walked(cols, work', held', blocks')
<1>1. /\ work \in Seq(Seq(Marked)) /\ work # <<>> /\ Head(work) = <<>>
      /\ held' = <<>> /\ work' = Tail(work) /\ blocks' = blocks \o Flush("prose")
  BY DEF EndColumn, Walked
<1> DEFINE flushed == blocks \o Flush("prose")
           next == Tail(work)
<1>2. next \in Seq(Seq(Marked)) /\ Rest(work) = Rest(next) /\ Members(work) = Members(next)
  BY <1>1, ColumnTaken
<1>3. BlocksIn(Word, blocks) /\ HeldIn(Word, held)
  BY DEF Walked
<1>4. /\ BlocksIn(Word, flushed) /\ Items(flushed) = Items(blocks) \o Ats(held)
      /\ \/ ToSet(flushed) = ToSet(blocks)
         \/ \E c : c.kind = "prose" /\ c.level = 0 /\ ToSet(flushed) = ToSet(blocks) \cup {c}
  BY <1>3, FlushedIn
<1> HIDE DEF flushed, next
<1>5. HeadsWritten(flushed) = HeadsWritten(blocks)
  BY <1>4 DEF HeadsWritten
<1>6. HeadsLeft(work) = HeadsLeft(next)
  BY <1>2 DEF HeadsLeft
<1>7. (Items(flushed) \o Ats(<<>>)) \o Rest(next) = Rest(cols)
  <2>1. Items(flushed) \in Seq(Word)
    BY <1>4, BlocksListed
  <2>2. Items(flushed) \o <<>> = Items(flushed)
    BY <2>1, ConcatEmptySeq
  <2> QED BY <1>2, <1>4, <2>2, NoneHeldIn DEF Walked
<1>8. HeldIn(Word, <<>>)
  BY NoneHeldIn
<1>9. Walked(cols, next, <<>>, flushed)
  <2>1. HeadsWritten(flushed) \cup HeadsLeft(next) = HeadsLeft(cols)
    BY <1>5, <1>6 DEF Walked
  <2> QED BY <1>2, <1>4, <1>7, <1>8, <2>1 DEF Walked
<1> QED BY <1>1, <1>9 DEF flushed, next

LEMMA WalkEnds ==
    ASSUME NEW cols, NEW h, NEW bs, Walked(cols, <<>>, h, bs)
    PROVE  Items(bs) = Rest(cols) /\ HeadsWritten(bs) = HeadsLeft(cols) /\ h = <<>>
<1>1. h = <<>> /\ Ats(h) = <<>>
  BY NoneHeldIn DEF Walked
<1>2. Rest(<<>>) = <<>> /\ HeadsLeft(<<>>) = {}
  BY NothingLeft DEF HeadsLeft
<1>3. Items(bs) \in Seq(Word)
  BY BlocksListed DEF Walked
<1>4. (Items(bs) \o <<>>) \o <<>> = Items(bs)
  <2>1. PICK i \in Seq(Word) : i = Items(bs)
    BY <1>3
  <2>2. (i \o <<>>) \o <<>> = i
    OBVIOUS
  <2> QED BY <2>1, <2>2
<1> QED BY <1>1, <1>2, <1>4 DEF Walked

-----------------------------------------------------------------------------
(* Finite sets and sorted lists.                                           *)

LEMMA ImageFinite ==
    ASSUME NEW S, IsFiniteSet(S), NEW f
    PROVE  IsFiniteSet({f[x] : x \in S})
<1> DEFINE T == {f[x] : x \in S}
           g == [x \in S |-> f[x]]
<1>1. g \in [S -> T] /\ \A t \in T : \E x \in S : g[x] = t
  OBVIOUS
<1>2. g \in Surjection(S, T)
  <2> HIDE DEF g, T
  <2> QED BY <1>1, Fun_IsSurj
<1> HIDE DEF g, T
<1>3. IsFiniteSet(T)
  BY <1>2, FS_Surjection
<1> QED BY <1>3 DEF T

LEMMA PlacesFinite ==
    ASSUME NEW T, NEW s \in Seq(T), NEW P, P \subseteq DOMAIN s
    PROVE  IsFiniteSet(P) /\ P \in SUBSET Int
<1>1. Len(s) \in Nat /\ DOMAIN s = 1 .. Len(s)
  OBVIOUS
<1>2. IsFiniteSet(1 .. Len(s))
  BY <1>1, FS_Interval
<1>3. P \in SUBSET (1 .. Len(s))
  BY <1>1
<1>4. IsFiniteSet(P)
  BY ONLY <1>2, <1>3, FS_Subset
<1> QED BY <1>1, <1>3, <1>4

LEMMA ListFinite ==
    ASSUME NEW T, NEW s \in Seq(T)
    PROVE  IsFiniteSet(ToSet(s)) /\ ToSet(s) \subseteq T
<1>1. IsFiniteSet(DOMAIN s)
  BY PlacesFinite
<1>2. IsFiniteSet({s[k] : k \in DOMAIN s})
  BY ONLY <1>1, ImageFinite
<1>3. ToSet(s) = {s[k] : k \in DOMAIN s}
  BY DEF ToSet
<1> QED BY <1>2, <1>3

(* The least and the greatest of some numbers.                             *)
LEMMA Ends ==
    ASSUME NEW P, P \subseteq Int, IsFiniteSet(P), P # {}
    PROVE  /\ Min(P) \in P /\ \A k \in P : Min(P) <= k
           /\ Max(P) \in P /\ \A k \in P : k <= Max(P)
<1>1. P \in SUBSET Int
  OBVIOUS
<1>2. /\ \E m \in P : \A k \in P : m <= k
      /\ \E m \in P : \A k \in P : k <= m
  BY <1>1, Extremes
<1>3. Min(P) \in P /\ \A k \in P : Min(P) <= k
  BY <1>1, <1>2 DEF Min
<1>4. \E m \in P : \A k \in P : m >= k
  BY <1>1, <1>2
<1>5. Max(P) \in P /\ \A k \in P : Max(P) >= k
  BY <1>4 DEF Max
<1> QED BY <1>1, <1>3, <1>5

(* The members at some places of a list, in their order.                   *)
LEMMA SublistIs ==
    ASSUME NEW T, NEW s \in Seq(T), NEW P, P \subseteq DOMAIN s
    PROVE  \E n \in Nat : \E at \in [1 .. n -> P] :
              /\ \A i \in P : \E k \in 1 .. n : at[k] = i
              /\ \A j, k \in 1 .. n : j < k => at[j] < at[k]
              /\ Sublist(s, P) \in Seq(T) /\ DOMAIN Sublist(s, P) = 1 .. n
              /\ \A k \in 1 .. n : Sublist(s, P)[k] = s[at[k]]
<1> DEFINE n == Cardinality(P)
           at == Ascending(P)
           r == Sublist(s, P)
<1>1. IsFiniteSet(P) /\ P \in SUBSET Int
  BY PlacesFinite
<1>2. /\ n \in Nat /\ at \in [1 .. n -> P]
      /\ \A i \in P : \E k \in 1 .. n : at[k] = i
      /\ \A j, k \in 1 .. n : j < k => at[j] < at[k]
  BY <1>1, AscendingLists
<1>3. r = [k \in 1 .. n |-> s[at[k]]]
  BY DEF Sublist
<1> HIDE DEF n, at, r
<1>4. \A i \in DOMAIN s : s[i] \in T
  OBVIOUS
<1>5. r \in [1 .. n -> T] /\ DOMAIN r = 1 .. n /\ \A k \in 1 .. n : r[k] = s[at[k]]
  BY <1>2, <1>3, <1>4
<1>6. r \in Seq(T)
  BY <1>2, <1>5, ListOf
<1> QED BY <1>2, <1>5, <1>6 DEF r

LEMMA SublistKeeps ==
    ASSUME NEW T, NEW s \in Seq(T), NEW P, P \subseteq DOMAIN s
    PROVE  /\ Sublist(s, P) \in Seq(T)
           /\ ToSet(Sublist(s, P)) = {s[k] : k \in P}
           /\ \A Q : Pairwise(s, Q) => Pairwise(Sublist(s, P), Q)
<1> DEFINE r == Sublist(s, P)
<1>0. PICK n \in Nat : \E at \in [1 .. n -> P] :
         /\ \A i \in P : \E k \in 1 .. n : at[k] = i
         /\ \A j, k \in 1 .. n : j < k => at[j] < at[k]
         /\ r \in Seq(T) /\ DOMAIN r = 1 .. n
         /\ \A k \in 1 .. n : r[k] = s[at[k]]
  BY SublistIs
<1>1. PICK at \in [1 .. n -> P] :
         /\ \A i \in P : \E k \in 1 .. n : at[k] = i
         /\ \A j, k \in 1 .. n : j < k => at[j] < at[k]
         /\ r \in Seq(T) /\ DOMAIN r = 1 .. n
         /\ \A k \in 1 .. n : r[k] = s[at[k]]
  BY <1>0
<1> HIDE DEF r
<1>2. \A k \in 1 .. n : at[k] \in P
  OBVIOUS
<1>3. ToSet(r) = {s[k] : k \in P}
  BY <1>1, <1>2 DEF ToSet
<1>4. ASSUME NEW Q, Pairwise(s, Q) PROVE Pairwise(r, Q)
  BY <1>1, <1>2, <1>4 DEF Pairwise
<1> QED BY <1>1, <1>3, <1>4 DEF r

(* The members of a finite set, once each.                                 *)
LEMMA SetListed ==
    ASSUME NEW T, NEW S, IsFiniteSet(S), S \subseteq T
    PROVE  /\ SetToSeq(S) \in Seq(T)
           /\ ToSet(SetToSeq(S)) = S
           /\ \A i, j \in DOMAIN SetToSeq(S) : i # j => SetToSeq(S)[i] # SetToSeq(S)[j]
<1>1. PICK n, r : n = Cardinality(S) /\ r = SetToSeq(S)
  OBVIOUS
<1>2. n \in Nat /\ ExistsBijection(1 .. n, S)
  BY <1>1, FS_CardinalityType
<1>3. PICK f : f \in Bijection(1 .. n, S)
  BY <1>2, Zenon DEF ExistsBijection
<1>4. f \in [1 .. n -> S] /\ \A i, j \in 1 .. n : f[i] = f[j] => i = j
  BY ONLY <1>3, Zenon DEF Bijection, Injection, IsInjective
<1>5. IsInjective(f)
  BY <1>4 DEF IsInjective
<1>6. r = CHOOSE g \in [1 .. n -> S] : IsInjective(g)
  BY <1>1 DEF SetToSeq
<1>7. r \in [1 .. n -> S] /\ IsInjective(r)
  BY <1>4, <1>5, <1>6
<1>8. \A i, j \in 1 .. n : r[i] = r[j] => i = j
  BY <1>7 DEF IsInjective
<1>9. r \in Injection(1 .. n, S)
  BY <1>7, <1>8, Fun_IsInj
<1>10. IsFiniteSet(1 .. n) /\ Cardinality(1 .. n) = n
  BY <1>2, FS_Interval
<1>11. r \in Surjection(1 .. n, S)
  BY <1>1, <1>9, <1>10, FS_Injection
<1>12. \A x \in S : \E k \in 1 .. n : r[k] = x
  BY ONLY <1>11, Zenon DEF Surjection
<1>13. r \in [1 .. n -> T] /\ DOMAIN r = 1 .. n
  BY <1>7
<1>14. r \in Seq(T)
  BY <1>2, <1>13, ListOf
<1>15. ToSet(r) = S
  BY <1>7, <1>12, <1>13 DEF ToSet
<1> QED BY <1>1, <1>8, <1>13, <1>14, <1>15

(* Places in the order of a key.                                           *)
SortedBy(P, key, n, s) ==
    /\ n \in Nat /\ s \in [1 .. n -> P]
    /\ \A c \in P : \E k \in 1 .. n : s[k] = c
    /\ \A j, k \in 1 .. n : j < k => key[s[j]] <= key[s[k]] /\ s[j] # s[k]

LEMMA SortedLists ==
    ASSUME NEW P, IsFiniteSet(P), P \subseteq Int, NEW key, \A k \in P : key[k] \in Int
    PROVE  SortedBy(P, key, Cardinality(P), Sorted(P, key))
<1> DEFINE R == {p \in P \X P : \/ key[p[1]] < key[p[2]]
                                \/ key[p[1]] = key[p[2]] /\ p[1] < p[2]}
<1>1. \A i, j \in P : <<i, j>> \in R <=> key[i] < key[j] \/ (key[i] = key[j] /\ i < j)
  <2> SUFFICES ASSUME NEW i \in P, NEW j \in P
               PROVE  <<i, j>> \in R <=> key[i] < key[j] \/ (key[i] = key[j] /\ i < j)
    OBVIOUS
  <2> DEFINE p == <<i, j>>
  <2>1. p \in P \X P /\ p[1] = i /\ p[2] = j
    OBVIOUS
  <2> HIDE DEF p
  <2>2. p \in R <=> key[p[1]] < key[p[2]] \/ (key[p[1]] = key[p[2]] /\ p[1] < p[2])
    BY <2>1
  <2>3. p \in R <=> key[i] < key[j] \/ (key[i] = key[j] /\ i < j)
    BY <2>1, <2>2
  <2> QED BY <2>3 DEF p
<1>2. Sorted(P, key) = InOrder(P, R)
  BY DEF Sorted
<1> HIDE DEF R
<1>3. Orders(R, P)
  BY <1>1, SMTT(30) DEF Orders
<1> DEFINE s == InOrder(P, R)
<1>4. /\ Cardinality(P) \in Nat
      /\ s \in [1 .. Cardinality(P) -> P]
      /\ \A c \in P : \E k \in 1 .. Cardinality(P) : s[k] = c
      /\ \A j, k \in 1 .. Cardinality(P) : j < k => <<s[j], s[k]>> \in R /\ s[j] # s[k]
  BY <1>3, InOrderLists
<1>5. Sorted(P, key) = s
  BY <1>2
<1> HIDE DEF s
<1>6. \A j, k \in 1 .. Cardinality(P) :
         j < k => key[s[j]] <= key[s[k]] /\ s[j] # s[k]
  <2> SUFFICES ASSUME NEW j \in 1 .. Cardinality(P), NEW k \in 1 .. Cardinality(P), j < k
               PROVE  key[s[j]] <= key[s[k]] /\ s[j] # s[k]
    OBVIOUS
  <2>1. s[j] \in P /\ s[k] \in P /\ <<s[j], s[k]>> \in R /\ s[j] # s[k]
    BY <1>4
  <2>2. key[s[j]] < key[s[k]] \/ key[s[j]] = key[s[k]]
    BY <1>1, <2>1
  <2>3. key[s[j]] \in Int /\ key[s[k]] \in Int
    BY <2>1
  <2> QED BY <2>1, <2>2, <2>3
<1> QED BY <1>4, <1>5, <1>6 DEF SortedBy

-----------------------------------------------------------------------------
(* The lines of a list of words.                                           *)

(* Where the words of a line stand in the list of words.                   *)
LineStarts(ws) == {k \in DOMAIN ws : Anchors(ws)[k] = k}
OnLine(ws, i) == {k \in DOMAIN ws : Anchors(ws)[k] = Ascending(LineStarts(ws))[i]}

(* A thing that is a line is made of its words.                            *)
MadeOfWords(x) == x.kind = "line" => x.words # <<>> /\ x = LineItem(x.words)

LEMMA LeftToRightIs ==
    ASSUME NEW ws \in Seq(Word), NEW P, P \subseteq DOMAIN ws
    PROVE  /\ LeftToRight(ws, P) \in Seq(Word)
           /\ ToSet(LeftToRight(ws, P)) = {ws[k] : k \in P}
           /\ \A Q : (\A i, j \in P : i # j /\ ws[i].x0 <= ws[j].x0 => <<ws[i], ws[j]>> \in Q)
                        => Pairwise(LeftToRight(ws, P), Q)
<1> DEFINE key == [k \in P |-> ws[k].x0]
           n == Cardinality(P)
           order == Sorted(P, key)
           r == LeftToRight(ws, P)
<1>1. IsFiniteSet(P) /\ P \subseteq Int /\ \A k \in P : ws[k] \in Word
  <2>1. IsFiniteSet(P) /\ P \in SUBSET Int
    BY PlacesFinite
  <2>2. \A k \in DOMAIN ws : ws[k] \in Word
    OBVIOUS
  <2> QED BY <2>1, <2>2
<1>2. \A k \in P : key[k] = ws[k].x0 /\ key[k] \in Int
  BY <1>1 DEF Word
<1> HIDE DEF key
<1>3. /\ n \in Nat /\ order \in [1 .. n -> P]
      /\ \A c \in P : \E k \in 1 .. n : order[k] = c
      /\ \A j, k \in 1 .. n : j < k => key[order[j]] <= key[order[k]] /\ order[j] # order[k]
  <2>1. SortedBy(P, key, Cardinality(P), Sorted(P, key))
    BY <1>1, <1>2, SortedLists
  <2> QED BY <2>1 DEF SortedBy
<1>4. DOMAIN order = 1 .. n
  BY <1>3
<1>5. r = [k \in 1 .. n |-> ws[order[k]]]
  BY <1>4 DEF LeftToRight, key
<1> HIDE DEF n, order, r
<1>6. /\ r \in [1 .. n -> Word] /\ DOMAIN r = 1 .. n
      /\ \A k \in 1 .. n : r[k] = ws[order[k]] /\ order[k] \in P
  BY <1>1, <1>3, <1>5
<1>7. r \in Seq(Word)
  BY <1>3, <1>6, ListOf
<1>8. ToSet(r) = {ws[k] : k \in P}
  <2>1. ToSet(r) = {r[k] : k \in 1 .. n}
    BY <1>6 DEF ToSet
  <2>2. \A k \in 1 .. n : order[k] \in P /\ r[k] = ws[order[k]]
    BY <1>6
  <2>3. \A c \in P : \E k \in 1 .. n : ws[c] = r[k]
    BY <1>3, <1>6
  <2> QED BY ONLY <2>1, <2>2, <2>3
<1>9. ASSUME NEW Q, \A i, j \in P : i # j /\ ws[i].x0 <= ws[j].x0 => <<ws[i], ws[j]>> \in Q
      PROVE  Pairwise(r, Q)
  <2> SUFFICES ASSUME NEW i \in 1 .. n, NEW j \in 1 .. n, i < j PROVE <<r[i], r[j]>> \in Q
    BY <1>6 DEF Pairwise
  <2>1. /\ order[i] \in P /\ order[j] \in P /\ order[i] # order[j]
        /\ ws[order[i]].x0 <= ws[order[j]].x0
    BY <1>2, <1>3, <1>6
  <2> QED BY <1>6, <1>9, <2>1
<1> QED BY <1>7, <1>8, <1>9 DEF r

LEMMA LineItemIs ==
    ASSUME NEW ws \in Seq(Word), ws # <<>>
    PROVE  /\ LineItem(ws) \in Thing /\ LineItem(ws).words = ws /\ LineItem(ws).kind = "line"
           /\ \E w \in ToSet(ws) : LineItem(ws).top = w.top
           /\ \A w \in ToSet(ws) : LineItem(ws).top <= w.top
           /\ \E w \in ToSet(ws) : LineItem(ws).size = w.size
           /\ \A w \in ToSet(ws) : w.size <= LineItem(ws).size
<1>1. IsFiniteSet(ToSet(ws)) /\ ToSet(ws) \subseteq Word
  BY ListFinite
<1>2. 1 \in DOMAIN ws /\ ws[1] \in Word /\ ws[1] \in ToSet(ws)
  <2>1. Len(ws) \in Nat /\ DOMAIN ws = 1 .. Len(ws) /\ Len(ws) # 0
    BY EmptySeq
  <2>2. 1 \in DOMAIN ws
    BY <2>1
  <2> QED BY <2>2 DEF ToSet
<1> DEFINE tops == {w.top : w \in ToSet(ws)}
           sizes == {w.size : w \in ToSet(ws)}
<1>3. tops \subseteq Int /\ sizes \subseteq Nat /\ tops # {} /\ sizes # {}
  BY <1>1, <1>2 DEF Word
<1>4. IsFiniteSet(tops)
  <2> DEFINE f == [w \in ToSet(ws) |-> w.top]
  <2>1. IsFiniteSet({f[w] : w \in ToSet(ws)})
    <3> HIDE DEF f
    <3> QED BY ONLY <1>1, ImageFinite
  <2>2. {f[w] : w \in ToSet(ws)} = tops
    OBVIOUS
  <2> QED BY <2>1, <2>2
<1>5. IsFiniteSet(sizes)
  <2> DEFINE f == [w \in ToSet(ws) |-> w.size]
  <2>1. IsFiniteSet({f[w] : w \in ToSet(ws)})
    <3> HIDE DEF f
    <3> QED BY ONLY <1>1, ImageFinite
  <2>2. {f[w] : w \in ToSet(ws)} = sizes
    OBVIOUS
  <2> QED BY <2>1, <2>2
<1>6. Min(tops) \in tops /\ \A k \in tops : Min(tops) <= k
  <2> HIDE DEF tops, sizes
  <2> QED BY <1>3, <1>4, Ends
<1>7. Max(sizes) \in sizes /\ \A k \in sizes : k <= Max(sizes)
  <2>1. sizes \subseteq Int
    BY <1>3
  <2> HIDE DEF tops, sizes
  <2> QED BY <1>3, <1>5, <2>1, Ends
<1> DEFINE x == LineItem(ws)
<1>8. /\ x.kind = "line" /\ x.words = ws /\ x.top = Min(tops) /\ x.size = Max(sizes)
      /\ x = [kind |-> "line", words |-> ws, top |-> Min(tops), size |-> Max(sizes),
              bold |-> x.bold, depth |-> x.depth]
      /\ x.bold \in BOOLEAN /\ x.depth \in {0, ws[1].depth}
  BY DEF LineItem
<1>9. x.depth \in Nat
  BY <1>2, <1>8 DEF Word
<1> HIDE DEF x
<1>10. x.top \in Int /\ x.size \in Nat
  <2> HIDE DEF tops, sizes
  <2> QED BY <1>3, <1>6, <1>7, <1>8
<1>11. x \in Thing
  <2> HIDE DEF tops, sizes
  <2> QED BY <1>8, <1>9, <1>10 DEF Thing
<1>12. /\ x.top \in tops /\ \A k \in tops : x.top <= k
       /\ x.size \in sizes /\ \A k \in sizes : k <= x.size
  <2> HIDE DEF tops, sizes
  <2> QED BY <1>6, <1>7, <1>8
<1>13. \E w \in ToSet(ws) : x.top = w.top
  BY <1>12
<1>14. \E w \in ToSet(ws) : x.size = w.size
  BY <1>12
<1>15. \A w \in ToSet(ws) : x.top <= w.top /\ w.size <= x.size
  BY <1>12
<1> QED BY <1>8, <1>11, <1>13, <1>14, <1>15 DEF x

LEMMA StartsAre ==
    ASSUME NEW ws \in Seq(Word)
    PROVE  /\ Cardinality(LineStarts(ws)) \in Nat
           /\ Ascending(LineStarts(ws)) \in [1 .. Cardinality(LineStarts(ws)) -> LineStarts(ws)]
           /\ \A i \in LineStarts(ws) :
                 \E k \in 1 .. Cardinality(LineStarts(ws)) : Ascending(LineStarts(ws))[k] = i
           /\ \A j, k \in 1 .. Cardinality(LineStarts(ws)) :
                 j < k => Ascending(LineStarts(ws))[j] < Ascending(LineStarts(ws))[k]
           /\ LineStarts(ws) \subseteq DOMAIN ws
<1>1. LineStarts(ws) \subseteq DOMAIN ws
  BY DEF LineStarts
<1>2. IsFiniteSet(LineStarts(ws)) /\ LineStarts(ws) \in SUBSET Int
  BY <1>1, PlacesFinite
<1> QED BY <1>1, <1>2, AscendingLists

(* The lines of some words.                                                *)
LEMMA LinesAre ==
    ASSUME NEW ws \in Seq(Word)
    PROVE  /\ Lines(ws) \in Seq(Thing)
           /\ DOMAIN Lines(ws) = 1 .. Cardinality(LineStarts(ws))
           /\ \A i \in DOMAIN Lines(ws) :
                 /\ OnLine(ws, i) \subseteq DOMAIN ws /\ OnLine(ws, i) # {}
                 /\ LeftToRight(ws, OnLine(ws, i)) \in Seq(Word)
                 /\ LeftToRight(ws, OnLine(ws, i)) # <<>>
                 /\ Lines(ws)[i] = LineItem(LeftToRight(ws, OnLine(ws, i)))
<1> DEFINE n == Cardinality(LineStarts(ws))
           firsts == Ascending(LineStarts(ws))
           r == Lines(ws)
<1>1. /\ n \in Nat /\ firsts \in [1 .. n -> LineStarts(ws)] /\ LineStarts(ws) \subseteq DOMAIN ws
  BY StartsAre
<1>2. r = [i \in 1 .. n |-> LineItem(LeftToRight(ws, OnLine(ws, i)))]
  <2>1. DOMAIN firsts = 1 .. n
    BY <1>1
  <2> QED BY <2>1 DEF Lines, OnLine, LineStarts
<1>3. \A i \in 1 .. n : firsts[i] \in LineStarts(ws)
  BY <1>1
<1> HIDE DEF n, r
<1>4. ASSUME NEW i \in 1 .. n
      PROVE  /\ OnLine(ws, i) \subseteq DOMAIN ws /\ OnLine(ws, i) # {}
             /\ LeftToRight(ws, OnLine(ws, i)) \in Seq(Word)
             /\ LeftToRight(ws, OnLine(ws, i)) # <<>>
             /\ r[i] = LineItem(LeftToRight(ws, OnLine(ws, i))) /\ r[i] \in Thing
  <2>1. firsts[i] \in DOMAIN ws /\ Anchors(ws)[firsts[i]] = firsts[i]
    BY <1>3 DEF LineStarts
  <2>2. OnLine(ws, i) \subseteq DOMAIN ws /\ firsts[i] \in OnLine(ws, i)
    BY <2>1 DEF OnLine
  <2>3. PICK l : l = LeftToRight(ws, OnLine(ws, i))
    OBVIOUS
  <2>4. l \in Seq(Word) /\ ToSet(l) = {ws[k] : k \in OnLine(ws, i)}
    BY <2>2, <2>3, LeftToRightIs
  <2>5. l # <<>>
    <3>1. ToSet(<<>>) = {}
      BY DEF ToSet
    <3>2. ws[firsts[i]] \in ToSet(l)
      BY <2>2, <2>4
    <3> QED BY <3>1, <3>2
  <2>6. LineItem(l) \in Thing
    BY <2>4, <2>5, LineItemIs
  <2> QED BY <1>2, <2>2, <2>3, <2>4, <2>5, <2>6
<1>5. r \in [1 .. n -> Thing] /\ DOMAIN r = 1 .. n
  BY <1>2, <1>4
<1>6. r \in Seq(Thing)
  BY <1>1, <1>5, ListOf
<1> QED BY <1>4, <1>5, <1>6 DEF n, r

LEMMA RunsFinite ==
    ASSUME NEW lines \in Seq(Thing)
    PROVE  IsFiniteSet(Runs(lines))
<1> DEFINE D == DOMAIN lines
           f == [p \in D \X D |-> [from |-> p[1], to |-> p[2]]]
           S == {f[p] : p \in D \X D}
<1>1. IsFiniteSet(D)
  BY PlacesFinite
<1>2. IsFiniteSet(D \X D)
  BY ONLY <1>1, FS_Product
<1>3. IsFiniteSet(S)
  <2> HIDE DEF f, D
  <2> QED BY ONLY <1>2, ImageFinite
<1>4. Runs(lines) \subseteq S
  <2> SUFFICES ASSUME NEW r \in Runs(lines) PROVE r \in S
    OBVIOUS
  <2>1. r.from \in D /\ r.to \in D /\ r = [from |-> r.from, to |-> r.to]
    BY DEF Runs
  <2>2. <<r.from, r.to>> \in D \X D
    BY <2>1
  <2>3. f[<<r.from, r.to>>] = [from |-> r.from, to |-> r.to]
    BY <2>2
  <2> HIDE DEF f
  <2> QED BY <2>1, <2>2, <2>3
<1> HIDE DEF S
<1> QED BY <1>3, <1>4, FS_Subset

(* A run of lines that are in the same cells.                              *)
LEMMA RunIs ==
    ASSUME NEW lines \in Seq(Thing), NEW r \in Runs(lines)
    PROVE  /\ r.from \in DOMAIN lines /\ r.to \in DOMAIN lines /\ r.from < r.to
           /\ r.from .. r.to \subseteq DOMAIN lines
           /\ RunItem(lines, r) \in Thing /\ RunItem(lines, r).kind = "table"
           /\ \E k \in r.from .. r.to : RunItem(lines, r).top = lines[k].top
           /\ \A k \in r.from .. r.to : RunItem(lines, r).top <= lines[k].top
           /\ RunItem(lines, r).words =
                 FlattenSeq([k \in 1 .. r.to - r.from + 1 |-> lines[r.from + k - 1].words])
           /\ [k \in 1 .. r.to - r.from + 1 |-> lines[r.from + k - 1].words] \in Seq(Seq(Word))
<1>1. r.from \in DOMAIN lines /\ r.to \in DOMAIN lines /\ r.from < r.to
  BY DEF Runs
<1>2. PICK a, b : a = r.from /\ b = r.to
  OBVIOUS
<1>3. Len(lines) \in Nat /\ DOMAIN lines = 1 .. Len(lines)
  OBVIOUS
<1>4. a \in 1 .. Len(lines) /\ b \in 1 .. Len(lines) /\ a < b
  BY <1>1, <1>2, <1>3
<1>5. a .. b \subseteq DOMAIN lines /\ \A k \in DOMAIN lines : lines[k] \in Thing
  BY <1>3, <1>4
<1> DEFINE f == [k \in a .. b |-> lines[k].top]
           tops == {lines[k].top : k \in a .. b}
           l == [k \in 1 .. b - a + 1 |-> lines[a + k - 1].words]
           S == Seq(Word)
<1>6. \A k \in a .. b : lines[k].top \in Int /\ lines[k].words \in S
  BY <1>5 DEF Thing
<1>7. IsFiniteSet(a .. b)
  BY <1>4, FS_Interval
<1>8. IsFiniteSet(tops)
  <2>1. IsFiniteSet({f[k] : k \in a .. b})
    <3> HIDE DEF f
    <3> QED BY ONLY <1>7, ImageFinite
  <2>2. {f[k] : k \in a .. b} = tops
    OBVIOUS
  <2> QED BY <2>1, <2>2
<1>9. a \in a .. b /\ tops \subseteq Int /\ tops # {}
  <2>1. a \in a .. b
    BY <1>4
  <2> QED BY <1>6, <2>1
<1>10. Min(tops) \in tops /\ \A k \in tops : Min(tops) <= k
  <2> HIDE DEF tops
  <2> QED BY <1>8, <1>9, Ends
<1>11. \A k \in 1 .. b - a + 1 : a + k - 1 \in a .. b
  BY <1>4
<1>12. b - a + 1 \in Nat
  BY <1>4
<1>13. l \in [1 .. b - a + 1 -> S]
  BY <1>6, <1>11
<1>14. l \in Seq(S)
  <2> HIDE DEF l, S
  <2> QED BY ONLY <1>12, <1>13, ListOf
<1>15. FlattenSeq(l) \in Seq(Word)
  <2> HIDE DEF l
  <2> QED BY <1>14, FlattenTyped DEF S
<1>16. RunItem(lines, r) = [kind |-> "table", words |-> FlattenSeq(l), top |-> Min(tops),
                           size |-> 0, bold |-> FALSE, depth |-> 0]
  BY <1>2 DEF RunItem, TableItem
<1>17. Min(tops) \in Int
  <2> HIDE DEF tops
  <2> QED BY <1>9, <1>10
<1>18. (\E k \in a .. b : Min(tops) = lines[k].top) /\ \A k \in a .. b : Min(tops) <= lines[k].top
  BY <1>10
<1> DEFINE x == RunItem(lines, r)
<1>19. /\ x \in Thing /\ x.kind = "table" /\ x.top = Min(tops) /\ x.words = FlattenSeq(l)
  <2> HIDE DEF tops, l
  <2> QED BY <1>15, <1>16, <1>17 DEF Thing
<1> HIDE DEF x
<1>20. /\ \E k \in a .. b : x.top = lines[k].top
       /\ \A k \in a .. b : x.top <= lines[k].top
  <2> HIDE DEF tops
  <2> QED BY <1>18, <1>19
<1> QED BY <1>1, <1>2, <1>5, <1>14, <1>19, <1>20 DEF x, S

-----------------------------------------------------------------------------
(* The items of a column.                                                  *)

Frame == [x0 : Int, x1 : Int, top : Int, bottom : Int]

LEMMA ListsJoined ==
    ASSUME NEW T, NEW a \in Seq(T), NEW b \in Seq(T)
    PROVE  a \o b \in Seq(T) /\ ToSet(a \o b) = ToSet(a) \cup ToSet(b)
<1> DEFINE Q == T \X T
<1>1. ToSet(a) \subseteq T /\ ToSet(b) \subseteq T
  BY ListFinite
<1>2. Pairwise(a, Q) /\ Pairwise(b, Q) /\ Across(ToSet(a), ToSet(b), Q)
  <2>1. (\A i \in DOMAIN a : a[i] \in T) /\ (\A i \in DOMAIN b : b[i] \in T)
    OBVIOUS
  <2> QED BY <1>1, <2>1 DEF Pairwise, Across
<1> HIDE DEF Q
<1> QED BY <1>2, PairsOn

(* The items of a column, from top to bottom.                              *)
LEMMA TopDownIs ==
    ASSUME NEW items \in Seq(Thing)
    PROVE  /\ TopDown(items) \in Seq(Thing) /\ ToSet(TopDown(items)) = ToSet(items)
           /\ \A Q : (\A i, j \in DOMAIN items :
                         i # j /\ items[i].top <= items[j].top => <<items[i], items[j]>> \in Q)
                        => Pairwise(TopDown(items), Q)
<1>0. PICK P, key : P = DOMAIN items /\ key = [k \in P |-> items[k].top]
  OBVIOUS
<1> DEFINE n == Cardinality(P)
           order == Sorted(P, key)
           r == TopDown(items)
<1>1. IsFiniteSet(P) /\ P \subseteq Int /\ \A k \in P : items[k] \in Thing
  <2>1. IsFiniteSet(P) /\ P \in SUBSET Int
    BY <1>0, PlacesFinite
  <2> QED BY <1>0, <2>1
<1>2. \A k \in P : key[k] = items[k].top /\ key[k] \in Int
  BY <1>0, <1>1 DEF Thing
<1>3. /\ n \in Nat /\ order \in [1 .. n -> P]
      /\ \A c \in P : \E k \in 1 .. n : order[k] = c
      /\ \A j, k \in 1 .. n : j < k => key[order[j]] <= key[order[k]] /\ order[j] # order[k]
  <2>1. SortedBy(P, key, Cardinality(P), Sorted(P, key))
    BY <1>1, <1>2, SortedLists
  <2> QED BY <2>1 DEF SortedBy
<1>4. DOMAIN order = 1 .. n
  BY <1>3
<1>5. r = [k \in 1 .. n |-> items[order[k]]]
  BY <1>0, <1>4 DEF TopDown
<1>6. ToSet(items) = {items[k] : k \in P}
  BY <1>0 DEF ToSet
<1> HIDE DEF n, order, r
<1>7. /\ r \in [1 .. n -> Thing] /\ DOMAIN r = 1 .. n
      /\ \A k \in 1 .. n : r[k] = items[order[k]] /\ order[k] \in P
  BY <1>1, <1>3, <1>5
<1>8. r \in Seq(Thing)
  BY <1>3, <1>7, ListOf
<1>9. ToSet(r) = ToSet(items)
  <2>1. ToSet(r) = {r[k] : k \in 1 .. n}
    BY <1>7 DEF ToSet
  <2>2. \A k \in 1 .. n : order[k] \in P /\ r[k] = items[order[k]]
    BY <1>7
  <2>3. \A c \in P : \E k \in 1 .. n : items[c] = r[k]
    BY <1>3, <1>7
  <2> QED BY ONLY <1>6, <2>1, <2>2, <2>3
<1>10. ASSUME NEW Q, \A i, j \in P : i # j /\ items[i].top <= items[j].top
                                        => <<items[i], items[j]>> \in Q
       PROVE  Pairwise(r, Q)
  <2> SUFFICES ASSUME NEW i \in 1 .. n, NEW j \in 1 .. n, i < j PROVE <<r[i], r[j]>> \in Q
    BY <1>7 DEF Pairwise
  <2>1. /\ order[i] \in P /\ order[j] \in P /\ order[i] # order[j]
        /\ items[order[i]].top <= items[order[j]].top
    BY <1>2, <1>3, <1>7
  <2> QED BY <1>7, <1>10, <2>1
<1> QED BY <1>0, <1>8, <1>9, <1>10 DEF r

(* The lines that are in no run.                                           *)
Free(lines) == {k \in DOMAIN lines : \A r \in Runs(lines) : k \notin r.from .. r.to}
RunItems(lines) == {RunItem(lines, r) : r \in Runs(lines)}
RuledThings(ws, ruled) == {TableItem(b.top, Held(b, ws)) : b \in ruled}

LEMMA RunItemsAre ==
    ASSUME NEW lines \in Seq(Thing)
    PROVE  IsFiniteSet(RunItems(lines)) /\ RunItems(lines) \subseteq Thing
<1> DEFINE f == [r \in Runs(lines) |-> RunItem(lines, r)]
<1>1. IsFiniteSet(Runs(lines))
  BY RunsFinite
<1>2. IsFiniteSet({f[r] : r \in Runs(lines)})
  <2> HIDE DEF f
  <2> QED BY ONLY <1>1, ImageFinite
<1>3. {f[r] : r \in Runs(lines)} = RunItems(lines)
  BY DEF RunItems
<1>4. \A r \in Runs(lines) : RunItem(lines, r) \in Thing
  BY RunIs
<1>5. RunItems(lines) \subseteq Thing
  BY <1>4 DEF RunItems
<1> QED BY <1>2, <1>3, <1>5

LEMMA ProseAndTablesAre ==
    ASSUME NEW lines \in Seq(Thing)
    PROVE  /\ ProseAndTables(lines, Runs(lines)) \in Seq(Thing)
           /\ ToSet(ProseAndTables(lines, Runs(lines)))
                 = {lines[k] : k \in Free(lines)} \cup RunItems(lines)
<1> DEFINE a == Sublist(lines, Free(lines))
           b == SetToSeq(RunItems(lines))
<1>1. Free(lines) \subseteq DOMAIN lines
  BY DEF Free
<1>2. a \in Seq(Thing) /\ ToSet(a) = {lines[k] : k \in Free(lines)}
  BY <1>1, SublistKeeps
<1>3. b \in Seq(Thing) /\ ToSet(b) = RunItems(lines)
  BY RunItemsAre, SetListed
<1>4. ProseAndTables(lines, Runs(lines)) = a \o b
  BY DEF ProseAndTables, Free, RunItems
<1> HIDE DEF a, b
<1>5. a \o b \in Seq(Thing) /\ ToSet(a \o b) = ToSet(a) \cup ToSet(b)
  BY <1>2, <1>3, ListsJoined
<1> QED BY <1>2, <1>3, <1>4, <1>5

LEMMA HeldInBox ==
    ASSUME NEW ws \in Seq(Word), NEW b
    PROVE  /\ Held(b, ws) \in Seq(Word)
           /\ ToSet(Held(b, ws)) = {w \in ToSet(ws) : Inside(w, b)}
           /\ \A Q : Pairwise(ws, Q) => Pairwise(Held(b, ws), Q)
<1> DEFINE P == {k \in DOMAIN ws : Inside(ws[k], b)}
<1>1. P \subseteq DOMAIN ws
  OBVIOUS
<1>2. Held(b, ws) = Sublist(ws, P)
  BY DEF Held
<1>3. {ws[k] : k \in P} = {w \in ToSet(ws) : Inside(w, b)}
  BY DEF ToSet
<1> HIDE DEF P
<1> QED BY <1>1, <1>2, <1>3, SublistKeeps

LEMMA RuledItemsAre ==
    ASSUME NEW ws \in Seq(Word), NEW ruled, IsFiniteSet(ruled), ruled \subseteq Frame
    PROVE  /\ RuledItems(ws, ruled) \in Seq(Thing)
           /\ ToSet(RuledItems(ws, ruled)) = RuledThings(ws, ruled)
           /\ \A i, j \in DOMAIN RuledItems(ws, ruled) :
                 i # j => RuledItems(ws, ruled)[i] # RuledItems(ws, ruled)[j]
<1> DEFINE f == [b \in ruled |-> TableItem(b.top, Held(b, ws))]
           S == RuledThings(ws, ruled)
<1>1. IsFiniteSet({f[b] : b \in ruled})
  <2> HIDE DEF f
  <2> QED BY ONLY IsFiniteSet(ruled), ImageFinite
<1>2. {f[b] : b \in ruled} = S
  BY DEF RuledThings
<1>3. \A b \in ruled : TableItem(b.top, Held(b, ws)) \in Thing
  <2> SUFFICES ASSUME NEW b \in ruled PROVE TableItem(b.top, Held(b, ws)) \in Thing
    OBVIOUS
  <2>1. b.top \in Int /\ Held(b, ws) \in Seq(Word)
    BY HeldInBox DEF Frame
  <2> QED BY <2>1 DEF TableItem, Thing
<1>4. S \subseteq Thing
  BY <1>3 DEF RuledThings
<1>5. RuledItems(ws, ruled) = SetToSeq(S)
  BY DEF RuledItems, RuledThings
<1>6. IsFiniteSet(S)
  BY <1>1, <1>2
<1> HIDE DEF S
<1> QED BY <1>4, <1>5, <1>6, SetListed DEF S

LEMMA BandItemsAre ==
    ASSUME NEW ws \in Seq(Word), NEW ruled, IsFiniteSet(ruled), ruled \subseteq Frame,
           NEW lines \in Seq(Thing)
    PROVE  /\ BandItems(ws, ruled, lines) \in Seq(Thing)
           /\ ToSet(BandItems(ws, ruled, lines))
                 = {lines[k] : k \in Free(lines)} \cup RunItems(lines) \cup RuledThings(ws, ruled)
<1> DEFINE a == ProseAndTables(lines, Runs(lines))
           b == RuledItems(ws, ruled)
<1>1. a \in Seq(Thing) /\ ToSet(a) = {lines[k] : k \in Free(lines)} \cup RunItems(lines)
  BY ProseAndTablesAre
<1>2. b \in Seq(Thing) /\ ToSet(b) = RuledThings(ws, ruled)
  BY RuledItemsAre
<1>3. BandItems(ws, ruled, lines) = TopDown(a \o b)
  BY DEF BandItems
<1> HIDE DEF a, b
<1>4. a \o b \in Seq(Thing) /\ ToSet(a \o b) = ToSet(a) \cup ToSet(b)
  BY <1>1, <1>2, ListsJoined
<1>5. TopDown(a \o b) \in Seq(Thing) /\ ToSet(TopDown(a \o b)) = ToSet(a \o b)
  BY <1>4, TopDownIs
<1> QED BY <1>1, <1>2, <1>3, <1>4, <1>5

(* The words of a band that are in none of its ruled tables.               *)
LEMMA BandWordsAre ==
    ASSUME NEW ws \in Seq(Word), NEW ruled, NEW band
    PROVE  /\ BandWords(ws, ruled, band) \in Seq(Word)
           /\ ToSet(BandWords(ws, ruled, band))
                 = {w \in ToSet(ws) : /\ InBand(w.x0 + w.x1, band)
                                      /\ \A b \in ruled : ~Inside(w, b)}
           /\ \A Q : Pairwise(ws, Q) => Pairwise(BandWords(ws, ruled, band), Q)
<1> DEFINE P == {k \in DOMAIN ws : /\ InBand(ws[k].x0 + ws[k].x1, band)
                                   /\ \A b \in ruled : ~Inside(ws[k], b)}
           S == {w \in ToSet(ws) : InBand(w.x0 + w.x1, band) /\ \A b \in ruled : ~Inside(w, b)}
<1>1. P \subseteq DOMAIN ws
  OBVIOUS
<1>2. BandWords(ws, ruled, band) = Sublist(ws, P)
  BY DEF BandWords
<1>3. {ws[k] : k \in P} = S
  BY DEF ToSet
<1> HIDE DEF P, S
<1>4. /\ BandWords(ws, ruled, band) \in Seq(Word)
      /\ ToSet(BandWords(ws, ruled, band)) = S
      /\ \A Q : Pairwise(ws, Q) => Pairwise(BandWords(ws, ruled, band), Q)
  BY <1>1, <1>2, <1>3, SublistKeeps
<1> QED BY <1>4 DEF S

(* The items of a column: its lines are made of their words.               *)
LEMMA BandColumnIs ==
    ASSUME NEW ws \in Seq(Word), NEW ruled, IsFiniteSet(ruled), ruled \subseteq Frame, NEW band
    PROVE  /\ BandColumn(ws, ruled, band) \in Seq(Thing)
           /\ \A x \in ToSet(BandColumn(ws, ruled, band)) : MadeOfWords(x)
<1> DEFINE bw == BandWords(ws, ruled, band)
           lines == Lines(bw)
<1>1. bw \in Seq(Word)
  BY BandWordsAre
<1>2. BandColumn(ws, ruled, band) = BandItems(ws, ruled, lines)
  BY DEF BandColumn
<1> HIDE DEF bw
<1>3. lines \in Seq(Thing)
  BY <1>1, LinesAre
<1>4. \A k \in DOMAIN lines : MadeOfWords(lines[k])
  <2> SUFFICES ASSUME NEW k \in DOMAIN lines PROVE MadeOfWords(lines[k])
    OBVIOUS
  <2>1. PICK l : l = LeftToRight(bw, OnLine(bw, k))
    OBVIOUS
  <2>2. l \in Seq(Word) /\ l # <<>> /\ lines[k] = LineItem(l)
    BY <1>1, <2>1, LinesAre
  <2>3. LineItem(l).words = l
    BY <2>2, LineItemIs
  <2> QED BY <2>2, <2>3 DEF MadeOfWords
<1> HIDE DEF lines
<1>5. /\ BandItems(ws, ruled, lines) \in Seq(Thing)
      /\ ToSet(BandItems(ws, ruled, lines))
            = {lines[k] : k \in Free(lines)} \cup RunItems(lines) \cup RuledThings(ws, ruled)
  BY <1>3, BandItemsAre
<1>6. \A x \in RunItems(lines) : x.kind = "table"
  <2>1. \A r \in Runs(lines) : RunItem(lines, r).kind = "table"
    BY <1>3, RunIs
  <2> QED BY <2>1 DEF RunItems
<1>7. \A x \in RuledThings(ws, ruled) : x.kind = "table"
  BY DEF RuledThings, TableItem
<1>8. \A x \in {lines[k] : k \in Free(lines)} : MadeOfWords(x)
  BY <1>4 DEF Free
<1> QED BY <1>2, <1>5, <1>6, <1>7, <1>8 DEF MadeOfWords

-----------------------------------------------------------------------------
(* Bands, and the ranks of sizes.                                          *)

LEMMA LenIs ==
    ASSUME NEW n \in Nat, NEW f, f = [k \in 1 .. n |-> f[k]]
    PROVE  Len(f) = n /\ DOMAIN f = 1 .. n
<1> DEFINE T == {f[k] : k \in 1 .. n}
<1>1. f \in [1 .. n -> T] /\ DOMAIN f = 1 .. n
  OBVIOUS
<1> HIDE DEF T
<1> QED BY <1>1, ListOf

(* Where the spans of the words begin.                                     *)
LEMMA SpansListed ==
    ASSUME NEW ws, IsFiniteSet(ws), ws \subseteq Word
    PROVE  /\ IsFiniteSet(Starts(ws)) /\ Starts(ws) \in SUBSET Int
           /\ Cardinality(Starts(ws)) \in Nat
           /\ DOMAIN MergedSpans(ws) = 1 .. Cardinality(Starts(ws))
           /\ Len(MergedSpans(ws)) = Cardinality(Starts(ws))
<1> DEFINE V == {v \in ws : \A u \in ws : u.x0 < v.x0 => u.x1 + 1 < v.x0}
           f == [w \in V |-> w.x0]
           n == Cardinality(Starts(ws))
           starts == Ascending(Starts(ws))
           spans == MergedSpans(ws)
<1>1. Starts(ws) = {w.x0 : w \in V}
  BY DEF Starts
<1>2. V \subseteq ws
  OBVIOUS
<1> HIDE DEF V
<1>3. IsFiniteSet(V)
  BY <1>2, FS_Subset
<1>4. IsFiniteSet({f[w] : w \in V})
  <2> HIDE DEF f
  <2> QED BY ONLY <1>3, ImageFinite
<1>5. {f[w] : w \in V} = {w.x0 : w \in V}
  OBVIOUS
<1>6. IsFiniteSet(Starts(ws)) /\ Starts(ws) \in SUBSET Int
  BY <1>1, <1>2, <1>4, <1>5 DEF Word
<1>7. n \in Nat /\ starts \in [1 .. n -> Starts(ws)]
  BY <1>6, AscendingLists
<1>8. DOMAIN starts = 1 .. n
  BY <1>7
<1>9. spans = [k \in 1 .. n |-> spans[k]]
  BY <1>8 DEF MergedSpans
<1> HIDE DEF n, spans, starts
<1>10. Len(spans) = n /\ DOMAIN spans = 1 .. n
  BY ONLY <1>7, <1>9, LenIs
<1> QED BY <1>6, <1>7, <1>10 DEF n, spans

LEMMA GapsListed ==
    ASSUME NEW ws, NEW spans, Len(spans) \in Nat
    PROVE  LET gaps == Separators(ws, spans)
               S == {k \in 1 .. Len(spans) - 1 : IsGutter(ws, spans, k)}
           IN  /\ Len(gaps) \in Nat /\ DOMAIN gaps = 1 .. Len(gaps)
               /\ \A k \in 1 .. Len(gaps) : gaps[k] \in S
               /\ \A i \in S : \E k \in 1 .. Len(gaps) : gaps[k] = i
               /\ \A j, k \in 1 .. Len(gaps) : j < k => gaps[j] < gaps[k]
<1> DEFINE gaps == Separators(ws, spans)
           S == {k \in 1 .. Len(spans) - 1 : IsGutter(ws, spans, k)}
           n == Cardinality(S)
<1>1. S \in SUBSET (1 .. Len(spans) - 1) /\ S \in SUBSET Int
  OBVIOUS
<1>2. IsFiniteSet(1 .. Len(spans) - 1)
  BY FS_Interval
<1>3. gaps = Ascending(S)
  BY DEF Separators
<1> HIDE DEF S, gaps
<1>4. IsFiniteSet(S)
  BY <1>1, <1>2, FS_Subset
<1>5. /\ n \in Nat /\ gaps \in [1 .. n -> S]
      /\ \A i \in S : \E k \in 1 .. n : gaps[k] = i
      /\ \A j, k \in 1 .. n : j < k => gaps[j] < gaps[k]
  BY <1>1, <1>3, <1>4, AscendingLists
<1> HIDE DEF n
<1>6. Len(gaps) = n /\ DOMAIN gaps = 1 .. n
  BY ONLY <1>5, ListOf
<1>7. \A k \in 1 .. n : gaps[k] \in S
  BY <1>5
<1> QED BY <1>5, <1>6, <1>7 DEF gaps, S

LEMMA BandsListed ==
    ASSUME NEW ws \in Seq(Word)
    PROVE  Len(ColumnBands(ws)) \in Nat /\ DOMAIN ColumnBands(ws) = 1 .. Len(ColumnBands(ws))
<1>1. CASE ws = <<>>
  BY <1>1 DEF ColumnBands
<1>2. CASE ws # <<>>
  <2> DEFINE spans == MergedSpans(ToSet(ws))
             gaps == Separators(ToSet(ws), spans)
             bands == ColumnBands(ws)
  <2>1. IsFiniteSet(ToSet(ws)) /\ ToSet(ws) \subseteq Word
    BY ListFinite
  <2>2. Len(spans) \in Nat
    BY <2>1, SpansListed
  <2>3. Len(gaps) \in Nat
    <3> HIDE DEF spans
    <3> QED BY <2>2, GapsListed
  <2>4. bands = [k \in 1 .. Len(gaps) + 1 |-> bands[k]]
    BY <1>2 DEF ColumnBands, BandsOf
  <2> HIDE DEF bands, gaps
  <2>5. Len(gaps) + 1 \in Nat
    BY <2>3
  <2>6. Len(bands) = Len(gaps) + 1 /\ DOMAIN bands = 1 .. Len(gaps) + 1
    BY ONLY <2>4, <2>5, LenIs
  <2> QED BY <2>5, <2>6 DEF bands
<1> QED BY <1>1, <1>2

-----------------------------------------------------------------------------
(* Heading levels.                                                         *)

HeadingSizes(all, body) == {l.size : l \in {i \in all : IsHeading(i, body)}}
RankOf(size, all, body) == Cardinality({s \in HeadingSizes(all, body) : s > size}) + 1

LEMMA RanksAre ==
    ASSUME NEW all, IsFiniteSet(all), all \subseteq Thing, NEW body
    PROVE  /\ HeadingSizes(all, body) \subseteq Nat
           /\ \A s : RankOf(s, all, body) \in Nat \ {0}
           /\ \A s \in HeadingSizes(all, body) :
                 HeadingLevel(s, all, body)
                    = IF RankOf(s, all, body) < 4 THEN RankOf(s, all, body) ELSE 4
           /\ \A s, t \in HeadingSizes(all, body) :
                 s > t => RankOf(s, all, body) < RankOf(t, all, body)
           /\ \A s \in HeadingSizes(all, body) :
                 Cardinality({t \in HeadingSizes(all, body) : t >= s}) = RankOf(s, all, body)
<1> DEFINE H == {i \in all : IsHeading(i, body)}
           f == [l \in H |-> l.size]
           sizes == HeadingSizes(all, body)
           Above(s) == {t \in sizes : t > s}
<1>1. sizes = {l.size : l \in H}
  BY DEF HeadingSizes
<1>2. H \subseteq all
  OBVIOUS
<1> HIDE DEF H
<1>3. IsFiniteSet(H)
  BY <1>2, FS_Subset
<1>4. IsFiniteSet({f[l] : l \in H})
  <2> HIDE DEF f
  <2> QED BY ONLY <1>3, ImageFinite
<1>5. {f[l] : l \in H} = {l.size : l \in H}
  OBVIOUS
<1>6. IsFiniteSet(sizes) /\ sizes \subseteq Nat
  BY <1>1, <1>2, <1>4, <1>5 DEF Thing
<1>7. \A s : RankOf(s, all, body) = Cardinality(Above(s)) + 1
  BY DEF RankOf
<1>8. \A s \in sizes : HeadingLevel(s, all, body)
                          = IF Cardinality(Above(s)) + 1 < 4 THEN Cardinality(Above(s)) + 1 ELSE 4
  BY DEF HeadingLevel, HeadingSizes
<1> HIDE DEF sizes
<1>9. \A s : Above(s) \in SUBSET sizes
  OBVIOUS
<1>10. \A s : IsFiniteSet(Above(s)) /\ Cardinality(Above(s)) \in Nat
  <2> SUFFICES ASSUME NEW s PROVE IsFiniteSet(Above(s)) /\ Cardinality(Above(s)) \in Nat
    OBVIOUS
  <2> DEFINE A == Above(s)
  <2>1. A \in SUBSET sizes
    BY <1>9
  <2> HIDE DEF A
  <2>2. IsFiniteSet(A)
    BY ONLY <1>6, <2>1, FS_Subset
  <2>3. Cardinality(A) \in Nat
    BY ONLY <2>2, FS_CardinalityType
  <2> QED BY <2>2, <2>3 DEF A
<1>11. ASSUME NEW s \in sizes, NEW t \in sizes, s > t
       PROVE  Cardinality(Above(s)) < Cardinality(Above(t))
  <2> DEFINE A == Above(s)
             B == Above(t)
  <2>0. \A u \in sizes : u \in Nat
    BY <1>6
  <2>1. A \in SUBSET B /\ s \in B /\ s \notin A
    <3>1. \A u \in sizes : u > s => u > t
      BY ONLY <2>0, <1>11
    <3>2. ~(s > s)
      BY <2>0
    <3> QED BY ONLY <1>11, <3>1, <3>2
  <2>2. IsFiniteSet(B) /\ Cardinality(A) \in Nat /\ Cardinality(B) \in Nat
    BY <1>10
  <2> HIDE DEF A, B
  <2>3. A # B
    BY <2>1
  <2>4. Cardinality(A) <= Cardinality(B) /\ Cardinality(A) # Cardinality(B)
    BY ONLY <2>1, <2>2, <2>3, FS_Subset
  <2>5. Cardinality(A) < Cardinality(B)
    BY ONLY <2>2, <2>4
  <2> QED BY <2>5 DEF A, B
<1>12. ASSUME NEW s \in sizes
       PROVE  Cardinality({t \in sizes : t >= s}) = Cardinality(Above(s)) + 1
  <2>1. \A t \in sizes : t \in Nat
    BY <1>6
  <2>2. \A t \in sizes : t >= s <=> t > s \/ t = s
    BY ONLY <1>12, <2>1
  <2> DEFINE A == Above(s)
  <2>3. {t \in sizes : t >= s} = A \cup {s}
    BY ONLY <1>12, <2>2
  <2>4. s \notin A /\ IsFiniteSet(A)
    BY <1>10, <2>1
  <2> HIDE DEF A
  <2>5. Cardinality(A \cup {s}) = Cardinality(A) + 1
    BY ONLY <2>4, FS_AddElement
  <2> QED BY <2>3, <2>5 DEF A
<1> HIDE DEF Above
<1>13. \A s : RankOf(s, all, body) \in Nat \ {0}
  BY <1>7, <1>10
<1>14. \A s \in sizes : HeadingLevel(s, all, body)
                           = IF RankOf(s, all, body) < 4 THEN RankOf(s, all, body) ELSE 4
  BY <1>7, <1>8
<1>15. \A s, t \in sizes : s > t => RankOf(s, all, body) < RankOf(t, all, body)
  BY <1>7, <1>10, <1>11
<1>16. \A s \in sizes : Cardinality({t \in sizes : t >= s}) = RankOf(s, all, body)
  BY <1>7, <1>12
<1> QED BY <1>6, <1>13, <1>14, <1>15, <1>16 DEF sizes

(* A section number goes deeper.                                           *)
LEMMA RenderedIs ==
    ASSUME NEW x \in Thing, NEW level \in 1 .. 4
    PROVE  /\ RenderedLevel(x, level) \in 1 .. 4 /\ level <= RenderedLevel(x, level)
           /\ \E m \in Nat : /\ m = level \/ m = x.depth
                             /\ level <= m /\ x.depth <= m
                             /\ RenderedLevel(x, level) = IF m < 4 THEN m ELSE 4
<1>1. PICK d \in Nat : d = x.depth
  BY DEF Thing
<1>2. IsFiniteSet({level, d}) /\ {level, d} \subseteq Int /\ {level, d} # {}
  <2>1. IsFiniteSet({level})
    BY FS_Singleton
  <2>2. IsFiniteSet({level} \cup {d})
    BY ONLY <2>1, FS_AddElement
  <2>3. {level} \cup {d} = {level, d}
    OBVIOUS
  <2> QED BY <2>2, <2>3
<1>3. Max({level, d}) \in {level, d} /\ \A k \in {level, d} : k <= Max({level, d})
  BY <1>2, Ends
<1>4. PICK m \in Nat : m = Max({level, d}) /\ (m = level \/ m = d) /\ level <= m /\ d <= m
  BY <1>3
<1>5. IsFiniteSet({m, 4}) /\ {m, 4} \subseteq Int /\ {m, 4} # {}
  <2>1. IsFiniteSet({m})
    BY FS_Singleton
  <2>2. IsFiniteSet({m} \cup {4})
    BY ONLY <2>1, FS_AddElement
  <2>3. {m} \cup {4} = {m, 4}
    OBVIOUS
  <2> QED BY <2>2, <2>3
<1>6. Min({m, 4}) \in {m, 4} /\ \A k \in {m, 4} : Min({m, 4}) <= k
  BY <1>5, Ends
<1>7. PICK r \in Nat : r = Min({m, 4}) /\ (r = m \/ r = 4) /\ r <= m /\ r <= 4
  BY <1>6
<1>8. RenderedLevel(x, level) = r
  BY <1>1, <1>4, <1>7 DEF RenderedLevel
<1> QED BY <1>1, <1>4, <1>7, <1>8

LEMMA LevelledIs ==
    ASSUME NEW all, IsFiniteSet(all), all \subseteq Thing, NEW body, NEW x \in all
    PROVE  /\ Levelled(x, all, body) \in Marked /\ Levelled(x, all, body).item = x
           /\ (Levelled(x, all, body).level > 0) <=> IsHeading(x, body)
           /\ IsHeading(x, body) => /\ x.size \in HeadingSizes(all, body)
                                    /\ HeadingLevel(x.size, all, body) \in 1 .. 4
                                    /\ Levelled(x, all, body).level
                                          = RenderedLevel(x, HeadingLevel(x.size, all, body))
<1> DEFINE y == Levelled(x, all, body)
           level == HeadingLevel(x.size, all, body)
<1>1. x \in Thing
  OBVIOUS
<1>2. y.item = x /\ y = [item |-> y.item, level |-> y.level]
  BY DEF Levelled
<1>3. CASE ~IsHeading(x, body)
  <2>1. y.level = 0
    BY <1>3 DEF Levelled
  <2> HIDE DEF y
  <2>2. y \in Marked
    BY <1>1, <1>2, <2>1 DEF Marked
  <2> QED BY <1>2, <1>3, <2>1, <2>2 DEF y
<1>4. CASE IsHeading(x, body)
  <2>1. x.size \in HeadingSizes(all, body) /\ x.kind = "line"
    BY <1>4 DEF HeadingSizes, IsHeading
  <2>2. level \in 1 .. 4
    <3>1. RankOf(x.size, all, body) \in Nat \ {0}
      BY RanksAre
    <3>2. level = IF RankOf(x.size, all, body) < 4 THEN RankOf(x.size, all, body) ELSE 4
      BY <2>1, RanksAre
    <3> HIDE DEF level
    <3> QED BY <3>1, <3>2
  <2>3. y.level = RenderedLevel(x, level)
    BY <1>4 DEF Levelled
  <2> HIDE DEF y, level
  <2>4. y.level \in 1 .. 4
    BY <1>1, <2>2, <2>3, RenderedIs
  <2>5. y \in Marked
    BY <1>1, <1>2, <2>1, <2>4 DEF Marked
  <2> QED BY <1>2, <1>4, <2>1, <2>2, <2>3, <2>4, <2>5 DEF y, level
<1> QED BY <1>3, <1>4

-----------------------------------------------------------------------------
(* The columns before their headings are ranked, and all that is in them.  *)
Unranked(ws, boxes) == BandColumns(ws, RuledTables(boxes, ws), ColumnBands(ws))
AllIn(columns) == UNION {ToSet(columns[b]) : b \in DOMAIN columns}

LEMMA RuledFinite ==
    ASSUME NEW ws, NEW boxes, IsFiniteSet(boxes), boxes \subseteq Frame, NEW band
    PROVE  /\ RuledTables(boxes, ws) \subseteq Frame
           /\ RuledIn(RuledTables(boxes, ws), band) \subseteq Frame
           /\ IsFiniteSet(RuledIn(RuledTables(boxes, ws), band))
<1>1. /\ RuledTables(boxes, ws) \subseteq boxes
      /\ RuledIn(RuledTables(boxes, ws), band) \subseteq boxes
  BY DEF RuledTables, RuledIn
<1>2. IsFiniteSet(RuledIn(RuledTables(boxes, ws), band))
  BY <1>1, FS_Subset
<1> QED BY <1>1, <1>2

LEMMA UnrankedIs ==
    ASSUME NEW ws \in Seq(Word), NEW boxes, IsFiniteSet(boxes), boxes \subseteq Frame
    PROVE  /\ Unranked(ws, boxes) \in Seq(Seq(Thing))
           /\ DOMAIN Unranked(ws, boxes) = DOMAIN ColumnBands(ws)
           /\ \A b \in DOMAIN ColumnBands(ws) :
                 Unranked(ws, boxes)[b] =
                    BandColumn(ws, RuledIn(RuledTables(boxes, ws), ColumnBands(ws)[b]),
                               ColumnBands(ws)[b])
           /\ IsFiniteSet(AllIn(Unranked(ws, boxes)))
           /\ AllIn(Unranked(ws, boxes)) \subseteq Thing
           /\ \A x \in AllIn(Unranked(ws, boxes)) : MadeOfWords(x)
<1> DEFINE bands == ColumnBands(ws)
           n == Len(bands)
           tables == RuledTables(boxes, ws)
           cols == Unranked(ws, boxes)
           S == Seq(Thing)
<1>1. n \in Nat /\ DOMAIN bands = 1 .. n
  BY BandsListed
<1>2. cols = [b \in 1 .. n |-> BandColumn(ws, RuledIn(tables, bands[b]), bands[b])]
  BY <1>1 DEF Unranked, BandColumns
<1> HIDE DEF n, cols, bands
<1>3. ASSUME NEW b \in 1 .. n
      PROVE  /\ cols[b] = BandColumn(ws, RuledIn(tables, bands[b]), bands[b])
             /\ cols[b] \in S /\ \A x \in ToSet(cols[b]) : MadeOfWords(x)
  <2>1. cols[b] = BandColumn(ws, RuledIn(tables, bands[b]), bands[b])
    BY <1>2
  <2>2. PICK ruled, band : ruled = RuledIn(tables, bands[b]) /\ band = bands[b]
    OBVIOUS
  <2>3. ruled \subseteq Frame /\ IsFiniteSet(ruled)
    BY <2>2, RuledFinite
  <2>4. /\ BandColumn(ws, ruled, band) \in S
        /\ \A x \in ToSet(BandColumn(ws, ruled, band)) : MadeOfWords(x)
    BY <2>3, BandColumnIs
  <2> QED BY <2>1, <2>2, <2>4
<1>4. cols \in [1 .. n -> S] /\ DOMAIN cols = 1 .. n
  BY <1>2, <1>3
<1>5. cols \in Seq(S)
  <2> HIDE DEF S
  <2> QED BY <1>1, <1>4, ListOf
<1> DEFINE f == [b \in 1 .. n |-> ToSet(cols[b])]
           parts == {ToSet(cols[b]) : b \in 1 .. n}
<1>6. \A b \in 1 .. n : IsFiniteSet(ToSet(cols[b])) /\ ToSet(cols[b]) \subseteq Thing
  <2> SUFFICES ASSUME NEW b \in 1 .. n
               PROVE  IsFiniteSet(ToSet(cols[b])) /\ ToSet(cols[b]) \subseteq Thing
    OBVIOUS
  <2>1. PICK c \in S : c = cols[b]
    BY <1>3
  <2>2. IsFiniteSet(ToSet(c)) /\ ToSet(c) \subseteq Thing
    BY ListFinite
  <2> QED BY <2>1, <2>2
<1>7. IsFiniteSet(parts)
  <2>1. IsFiniteSet(1 .. n)
    BY <1>1, FS_Interval
  <2>2. IsFiniteSet({f[b] : b \in 1 .. n})
    <3> HIDE DEF f
    <3> QED BY ONLY <2>1, ImageFinite
  <2>3. {f[b] : b \in 1 .. n} = parts
    OBVIOUS
  <2> QED BY <2>2, <2>3
<1>8. AllIn(cols) = UNION parts
  BY <1>4 DEF AllIn
<1>9. \A p \in parts : IsFiniteSet(p) /\ p \subseteq Thing
  BY <1>6
<1>10. \A x \in AllIn(cols) : MadeOfWords(x)
  BY <1>3, <1>4 DEF AllIn
<1> HIDE DEF parts, S
<1>11. IsFiniteSet(UNION parts)
  BY <1>7, <1>9, FS_UNION
<1>12. AllIn(cols) \subseteq Thing
  BY <1>8, <1>9
<1> QED BY <1>1, <1>3, <1>4, <1>5, <1>8, <1>10, <1>11, <1>12 DEF cols, S, bands

LEMMA ColumnsAre ==
    ASSUME NEW ws \in Seq(Word), NEW boxes, IsFiniteSet(boxes), boxes \subseteq Frame
    PROVE  LET before == Unranked(ws, boxes)
               after == Columns(ws, boxes)
               all == AllIn(before)
               body == ModalSize(ws)
           IN  /\ after \in Seq(Seq(Marked))
               /\ DOMAIN after = DOMAIN before
               /\ \A b \in DOMAIN before :
                     /\ DOMAIN after[b] = DOMAIN before[b]
                     /\ \A k \in DOMAIN before[b] :
                           after[b][k] = Levelled(before[b][k], all, body)
               /\ Members(after) = {Levelled(x, all, body) : x \in all}
<1> DEFINE before == Unranked(ws, boxes)
           after == Columns(ws, boxes)
           all == AllIn(before)
           body == ModalSize(ws)
           S == Seq(Marked)
           R == Seq(Thing)
<1>1. /\ before \in Seq(R) /\ IsFiniteSet(all) /\ all \subseteq Thing
  BY UnrankedIs
<1>2. after = [b \in DOMAIN before |->
                  [k \in DOMAIN before[b] |-> Levelled(before[b][k], all, body)]]
  BY DEF Columns, WithLevels, LevelledColumns, Unranked, AllIn
<1>3. \A b \in DOMAIN before : \A k \in DOMAIN before[b] : before[b][k] \in all
  BY DEF AllIn, ToSet
<1>5. \A x \in all : \E b \in DOMAIN before : \E k \in DOMAIN before[b] : x = before[b][k]
  BY DEF AllIn, ToSet
<1> HIDE DEF before, after, all, body
<1>6. \A x \in all : Levelled(x, all, body) \in Marked
  BY <1>1, LevelledIs
<1>7. ASSUME NEW b \in DOMAIN before
      PROVE  /\ DOMAIN after[b] = DOMAIN before[b] /\ after[b] \in S
             /\ \A k \in DOMAIN before[b] : after[b][k] = Levelled(before[b][k], all, body)
  <2>1. PICK c : c = before[b]
    OBVIOUS
  <2>2. c \in R
    <3> HIDE DEF R
    <3> QED BY <1>1, <2>1
  <2>3. Len(c) \in Nat /\ DOMAIN c = 1 .. Len(c)
    BY <2>2
  <2>4. PICK d : d = [k \in DOMAIN c |-> Levelled(c[k], all, body)]
    OBVIOUS
  <2>5. d = after[b]
    BY <1>2, <2>1, <2>4
  <2>6. \A k \in DOMAIN c : Levelled(c[k], all, body) \in Marked
    BY <1>3, <1>6, <2>1
  <2>7. d \in [1 .. Len(c) -> Marked]
    BY <2>3, <2>4, <2>6
  <2>8. d \in S
    BY ONLY <2>3, <2>7, ListOf
  <2> QED BY <2>1, <2>4, <2>5, <2>8
<1>8. Len(before) \in Nat /\ DOMAIN before = 1 .. Len(before)
  <2> HIDE DEF R
  <2> QED BY <1>1
<1>9. after \in [1 .. Len(before) -> S] /\ DOMAIN after = DOMAIN before
  <2> HIDE DEF S
  <2> QED BY <1>2, <1>7, <1>8
<1>10. after \in Seq(S)
  <2> HIDE DEF S
  <2> QED BY <1>8, <1>9, ListOf
<1>11. Members(after) = {Levelled(x, all, body) : x \in all}
  <2>1. \A b \in DOMAIN before : ToSet(after[b]) =
           {Levelled(before[b][k], all, body) : k \in DOMAIN before[b]}
    BY <1>7 DEF ToSet
  <2>2. Members(after) = UNION {ToSet(after[b]) : b \in DOMAIN before}
    BY <1>9 DEF Members
  <2>3. ASSUME NEW y \in Members(after) PROVE \E x \in all : y = Levelled(x, all, body)
    <3>1. PICK b \in DOMAIN before : y \in ToSet(after[b])
      BY <2>2
    <3>2. PICK k \in DOMAIN before[b] : y = Levelled(before[b][k], all, body)
      BY <2>1, <3>1
    <3> QED BY <1>3, <3>2
  <2>4. ASSUME NEW x \in all PROVE Levelled(x, all, body) \in Members(after)
    <3>0. PICK b \in DOMAIN before : \E k \in DOMAIN before[b] : x = before[b][k]
      BY <1>5
    <3>1. PICK k \in DOMAIN before[b] : x = before[b][k]
      BY <3>0
    <3>2. Levelled(x, all, body) \in ToSet(after[b])
      BY <2>1, <3>1
    <3> QED BY <2>2, <3>2
  <2> QED BY <2>3, <2>4
<1> QED BY <1>7, <1>9, <1>10, <1>11 DEF before, after, all, body, S

-----------------------------------------------------------------------------
(* The headings of the columns are ranked by size.                         *)

(* HeadingsRanked of a set of headings.                                    *)
RankIn(headings, b) ==
    Cardinality({Size(c) : c \in {h \in headings : Size(h) >= Size(b)}})

RankedWell(headings) ==
    \A a, b \in headings :
        /\ Size(a) > Size(b) =>
              (a.level < b.level \/ a.level = 4 \/ Number(a) > RankIn(headings, a))
        /\ Size(a) = Size(b) /\ Number(a) <= Number(b) => a.level <= b.level
        /\ Size(a) = Size(b) /\ Number(a) < Number(b) =>
              a.level < b.level \/ a.level = 4 \/ Number(b) <= RankIn(headings, b)

(* The levels of two headings, from their ranks and numbers.               *)
LEMMA LevelsFollow ==
    ASSUME NEW rx \in Nat \ {0}, NEW ry \in Nat \ {0}, NEW lx \in 1 .. 4, NEW ly \in 1 .. 4,
           NEW dx \in Nat, NEW dy \in Nat, NEW vx \in 1 .. 4, NEW vy \in 1 .. 4,
           NEW mx \in Nat, NEW my \in Nat,
           lx = IF rx < 4 THEN rx ELSE 4, ly = IF ry < 4 THEN ry ELSE 4,
           mx = lx \/ mx = dx, lx <= mx, dx <= mx, vx = IF mx < 4 THEN mx ELSE 4,
           my = ly \/ my = dy, ly <= my, dy <= my, vy = IF my < 4 THEN my ELSE 4
    PROVE  /\ rx < ry => vx < vy \/ vx = 4 \/ dx > rx
           /\ rx = ry /\ dx <= dy => vx <= vy
           /\ rx = ry /\ dx < dy => vx < vy \/ vx = 4 \/ dy <= ry
OBVIOUS

(* A heading has the size and the number of the line it is made of.        *)
LEMMA HeadingIs ==
    ASSUME NEW x \in Thing, x.kind = "line", MadeOfWords(x), NEW level,
           NEW b, b = Block("heading", level, x.words)
    PROVE  Size(b) = x.size /\ Number(b) = x.depth /\ b.level = level
<1>1. x.words \in Seq(Word) /\ x.words # <<>> /\ x = LineItem(x.words)
  BY DEF MadeOfWords, Thing
<1>2. PICK ws \in Seq(Word) : ws = x.words
  BY <1>1
<1>3. b.items = ws /\ b.level = level
  BY <1>2 DEF Block
<1>4. x = [kind |-> "line", words |-> ws,
           top |-> Min({w.top : w \in ToSet(ws)}),
           size |-> Max({w.size : w \in ToSet(ws)}),
           bold |-> \E w \in ToSet(ws) : w.bold,
           depth |-> IF Len(ws) > 1 THEN ws[1].depth ELSE 0]
  BY <1>1, <1>2 DEF LineItem
<1>5. x.size = Max({w.size : w \in ToSet(ws)}) /\ x.depth = IF Len(ws) > 1 THEN ws[1].depth ELSE 0
  BY <1>4
<1>6. {ws[k].size : k \in DOMAIN ws} = {w.size : w \in ToSet(ws)}
  BY DEF ToSet
<1>7. Size(b) = Max({ws[k].size : k \in DOMAIN ws})
  BY <1>3 DEF Size
<1>8. Number(b) = IF Len(ws) > 1 THEN ws[1].depth ELSE 0
  BY <1>3 DEF Number
<1> QED BY <1>3, <1>5, <1>6, <1>7, <1>8

LEMMA HeadingsAreRanked ==
    ASSUME NEW ws \in Seq(Word), NEW boxes, IsFiniteSet(boxes), boxes \subseteq Frame
    PROVE  RankedWell(HeadsLeft(Columns(ws, boxes)))
<1> DEFINE all == AllIn(Unranked(ws, boxes))
           body == ModalSize(ws)
           H == HeadsLeft(Columns(ws, boxes))
           L(x) == HeadingLevel(x.size, all, body)
           R(x) == RankOf(x.size, all, body)
           Heads == {x \in all : IsHeading(x, body)}
           BlockFor(x) == Block("heading", RenderedLevel(x, L(x)), x.words)
<1>1. IsFiniteSet(all) /\ all \subseteq Thing /\ \A x \in all : MadeOfWords(x)
  BY UnrankedIs
<1>2. Members(Columns(ws, boxes)) = {Levelled(x, all, body) : x \in all}
  BY ColumnsAre
<1>3. H = {HeadingOf(y) : y \in {z \in {Levelled(x, all, body) : x \in all} : z.level > 0}}
  BY <1>2 DEF HeadsLeft
<1> HIDE DEF all, body, H
<1>4. \A x \in all : /\ Levelled(x, all, body).item = x
                     /\ (Levelled(x, all, body).level > 0) <=> IsHeading(x, body)
                     /\ IsHeading(x, body) =>
                           /\ x.size \in HeadingSizes(all, body) /\ L(x) \in 1 .. 4
                           /\ Levelled(x, all, body).level = RenderedLevel(x, L(x))
  BY <1>1, LevelledIs
<1>5. \A x \in Heads : /\ x \in Thing /\ x.kind = "line" /\ MadeOfWords(x)
                       /\ x.size \in HeadingSizes(all, body) /\ L(x) \in 1 .. 4
  BY <1>1, <1>4 DEF IsHeading
<1>6. H = {BlockFor(x) : x \in Heads}
  <2>1. \A x \in Heads : HeadingOf(Levelled(x, all, body)) = BlockFor(x)
    BY <1>4 DEF HeadingOf
  <2> QED BY <1>3, <1>4, <2>1
<1>7. \A x \in Heads : /\ Size(BlockFor(x)) = x.size /\ Number(BlockFor(x)) = x.depth
                       /\ BlockFor(x).level = RenderedLevel(x, L(x))
  <2> SUFFICES ASSUME NEW x \in Heads
               PROVE  /\ Size(BlockFor(x)) = x.size /\ Number(BlockFor(x)) = x.depth
                      /\ BlockFor(x).level = RenderedLevel(x, L(x))
    OBVIOUS
  <2>1. PICK level, b : level = RenderedLevel(x, L(x)) /\ b = Block("heading", level, x.words)
    OBVIOUS
  <2>2. x \in Thing /\ x.kind = "line" /\ MadeOfWords(x)
    BY <1>5
  <2>3. Size(b) = x.size /\ Number(b) = x.depth /\ b.level = level
    BY ONLY <2>1, <2>2, HeadingIs
  <2> QED BY <2>1, <2>3
<1>8. \A x \in Heads : x.size \in Nat /\ x.depth \in Nat
  BY <1>5 DEF Thing
<1>9. \A x \in Heads : /\ R(x) \in Nat \ {0} /\ L(x) = IF R(x) < 4 THEN R(x) ELSE 4
  BY <1>1, <1>5, RanksAre
<1>10. \A x, y \in Heads : x.size > y.size => R(x) < R(y)
  BY <1>1, <1>5, RanksAre
<1>11. \A x \in Heads : RankIn(H, BlockFor(x)) = R(x)
  <2> SUFFICES ASSUME NEW x \in Heads PROVE RankIn(H, BlockFor(x)) = R(x)
    OBVIOUS
  <2> HIDE DEF BlockFor, R, L
  <2>1. {Size(c) : c \in {h \in H : Size(h) >= Size(BlockFor(x))}}
           = {t \in HeadingSizes(all, body) : t >= x.size}
    <3>1. HeadingSizes(all, body) = {y.size : y \in Heads}
      BY DEF HeadingSizes
    <3>2. Size(BlockFor(x)) = x.size /\ \A y \in Heads : Size(BlockFor(y)) = y.size
      BY <1>7
    <3> HIDE DEF Heads
    <3> QED BY ONLY <1>6, <3>1, <3>2
  <2>2. Cardinality({t \in HeadingSizes(all, body) : t >= x.size}) = RankOf(x.size, all, body)
    BY <1>1, <1>5, RanksAre
  <2> QED BY <2>1, <2>2 DEF RankIn, R
<1>12. \A x \in Heads :
          /\ RenderedLevel(x, L(x)) \in 1 .. 4
          /\ \E m \in Nat : /\ m = L(x) \/ m = x.depth
                            /\ L(x) <= m /\ x.depth <= m
                            /\ RenderedLevel(x, L(x)) = IF m < 4 THEN m ELSE 4
  <2> SUFFICES ASSUME NEW x \in Heads
               PROVE  /\ RenderedLevel(x, L(x)) \in 1 .. 4
                      /\ \E m \in Nat : /\ m = L(x) \/ m = x.depth
                                        /\ L(x) <= m /\ x.depth <= m
                                        /\ RenderedLevel(x, L(x)) = IF m < 4 THEN m ELSE 4
    OBVIOUS
  <2>1. PICK l \in 1 .. 4 : l = L(x)
    BY <1>5
  <2>2. x \in Thing
    BY <1>5
  <2>3. /\ RenderedLevel(x, l) \in 1 .. 4
        /\ \E m \in Nat : /\ m = l \/ m = x.depth
                          /\ l <= m /\ x.depth <= m
                          /\ RenderedLevel(x, l) = IF m < 4 THEN m ELSE 4
    BY ONLY <2>2, RenderedIs
  <2> HIDE DEF L
  <2> QED BY <2>1, <2>3
<1> DEFINE V(x) == RenderedLevel(x, L(x))
<1>13. ASSUME NEW x \in Heads, NEW y \in Heads
       PROVE  /\ x.size > y.size => V(x) < V(y) \/ V(x) = 4 \/ x.depth > R(x)
              /\ x.size = y.size /\ x.depth <= y.depth => V(x) <= V(y)
              /\ x.size = y.size /\ x.depth < y.depth =>
                    V(x) < V(y) \/ V(x) = 4 \/ y.depth <= R(y)
  <2>1. PICK mx \in Nat : /\ mx = L(x) \/ mx = x.depth
                          /\ L(x) <= mx /\ x.depth <= mx /\ V(x) = IF mx < 4 THEN mx ELSE 4
    BY <1>12
  <2>2. PICK my \in Nat : /\ my = L(y) \/ my = y.depth
                          /\ L(y) <= my /\ y.depth <= my /\ V(y) = IF my < 4 THEN my ELSE 4
    BY <1>12
  <2>3. PICK rx, ry, lx, ly, dx, dy, vx, vy :
           /\ rx = R(x) /\ ry = R(y) /\ lx = L(x) /\ ly = L(y)
           /\ dx = x.depth /\ dy = y.depth /\ vx = V(x) /\ vy = V(y)
    OBVIOUS
  <2>4. /\ rx \in Nat \ {0} /\ ry \in Nat \ {0} /\ lx \in 1 .. 4 /\ ly \in 1 .. 4
        /\ dx \in Nat /\ dy \in Nat /\ vx \in 1 .. 4 /\ vy \in 1 .. 4
        /\ lx = (IF rx < 4 THEN rx ELSE 4) /\ ly = IF ry < 4 THEN ry ELSE 4
    BY <1>5, <1>8, <1>9, <1>12, <2>3
  <2>5. (x.size > y.size => rx < ry) /\ (x.size = y.size => rx = ry)
    BY <1>10, <2>3
  <2> HIDE DEF V, L, R
  <2>6. /\ rx < ry => vx < vy \/ vx = 4 \/ dx > rx
        /\ rx = ry /\ dx <= dy => vx <= vy
        /\ rx = ry /\ dx < dy => vx < vy \/ vx = 4 \/ dy <= ry
    BY ONLY <2>1, <2>2, <2>3, <2>4, LevelsFollow
  <2> QED BY <2>3, <2>5, <2>6
<1>15. ASSUME NEW a \in H, NEW b \in H
       PROVE  /\ Size(a) > Size(b) => a.level < b.level \/ a.level = 4 \/ Number(a) > RankIn(H, a)
              /\ Size(a) = Size(b) /\ Number(a) <= Number(b) => a.level <= b.level
              /\ Size(a) = Size(b) /\ Number(a) < Number(b) =>
                    a.level < b.level \/ a.level = 4 \/ Number(b) <= RankIn(H, b)
  <2>1. PICK x \in Heads : a = BlockFor(x)
    BY <1>6
  <2>2. PICK y \in Heads : b = BlockFor(y)
    BY <1>6
  <2>4. /\ Size(a) = x.size /\ Number(a) = x.depth /\ a.level = V(x) /\ RankIn(H, a) = R(x)
    BY <1>7, <1>11, <2>1
  <2>5. /\ Size(b) = y.size /\ Number(b) = y.depth /\ b.level = V(y) /\ RankIn(H, b) = R(y)
    BY <1>7, <1>11, <2>2
  <2> HIDE DEF V, L, R, BlockFor
  <2> QED BY <1>13, <2>4, <2>5
<1> QED BY <1>15 DEF H, RankedWell

-----------------------------------------------------------------------------
(* The words of a sheet come in the order of the tops, and on a top from   *)
(* left to right; those on a top are of one height.                        *)
Placed == {w \in Word : w.x0 <= w.x1}
Down == {p \in Placed \X Placed :
            \/ p[1].top < p[2].top
            \/ p[1].top = p[2].top /\ p[1].x0 < p[2].x0 /\ p[1].height = p[2].height}
IsSheet(ws) == ws \in Seq(Placed) /\ Pairwise(ws, Down)

LEMMA RowPlaced ==
    ASSUME NEW row \in Rows, NEW style \in Styles, NEW top \in Int
    PROVE  /\ RowWords(row, style, top) \in Seq(Placed)
           /\ Pairwise(RowWords(row, style, top), Down)
           /\ \A w \in ToSet(RowWords(row, style, top)) : w.top = top
<1> DEFINE S == [x0 : Int, x1 : Int]
           ws == RowWords(row, style, top)
<1>1. /\ row \in Seq(S)
      /\ \A j, k \in DOMAIN row : row[j].x0 <= row[j].x1 /\ (j < k => row[j].x0 < row[k].x0)
      /\ style \in [size : Nat, height : Nat, bold : BOOLEAN, depth : Nat]
  BY PdfAssumption
<1> HIDE DEF S
<1>2. Len(row) \in Nat /\ DOMAIN row = 1 .. Len(row) /\ \A k \in DOMAIN row : row[k] \in S
  BY <1>1
<1>3. \A k \in DOMAIN row :
         /\ ws[k].top = top /\ ws[k].x0 = row[k].x0 /\ ws[k].x1 = row[k].x1 /\ ws[k] \in Word
         /\ ws[k].height = style.height
  <2> SUFFICES ASSUME NEW k \in DOMAIN row
               PROVE  /\ ws[k].top = top /\ ws[k].x0 = row[k].x0 /\ ws[k].x1 = row[k].x1
                      /\ ws[k] \in Word /\ ws[k].height = style.height
    OBVIOUS
  <2>1. PICK d : d = IF k = 1 /\ Len(row) > 1 THEN style.depth ELSE 0
    OBVIOUS
  <2>2. ws[k] = [x0 |-> row[k].x0, x1 |-> row[k].x1, top |-> top, size |-> style.size,
                 height |-> style.height, bold |-> style.bold, depth |-> d]
    BY <2>1 DEF RowWords
  <2>3. d \in Nat /\ row[k].x0 \in Int /\ row[k].x1 \in Int /\ style.size \in Nat
        /\ style.height \in Nat /\ style.bold \in BOOLEAN
    BY <1>1, <1>2, <2>1 DEF S
  <2> QED BY <2>2, <2>3 DEF Word
<1>4. \A k \in DOMAIN row : ws[k] \in Placed
  BY <1>1, <1>3 DEF Placed
<1>5. DOMAIN ws = DOMAIN row
  BY DEF RowWords
<1> HIDE DEF ws
<1>6. ws \in Seq(Placed)
  <2>1. ws = [k \in DOMAIN row |-> ws[k]]
    BY <1>5 DEF ws, RowWords
  <2>2. ws \in [1 .. Len(row) -> Placed]
    BY <1>2, <1>4, <2>1
  <2> QED BY <1>2, <2>2, ListOf
<1>7. Pairwise(ws, Down)
  <2> SUFFICES ASSUME NEW i \in DOMAIN ws, NEW j \in DOMAIN ws, i < j
               PROVE  <<ws[i], ws[j]>> \in Down
    BY DEF Pairwise
  <2>1. ws[i].top = ws[j].top /\ ws[i].x0 < ws[j].x0 /\ ws[i].height = ws[j].height
    BY <1>1, <1>3, <1>5
  <2> QED BY <1>4, <1>5, <2>1 DEF Down
<1>8. \A w \in ToSet(ws) : w.top = top
  BY <1>3, <1>5 DEF ToSet
<1> QED BY <1>6, <1>7, <1>8 DEF ws

LEMMA SheetWords ==
    ASSUME NEW s \in Sheets
    PROVE  ~s.raises /\ IsSheet(s.words)
<1>0. PICK rows \in [DOMAIN Tops -> Rows], styles \in [DOMAIN Tops -> Styles] :
         s = Sheet(WordsOf(rows, styles))
  <2>1. PICK page \in [DOMAIN Tops -> Rows] \X [DOMAIN Tops -> Styles] :
           s = Sheet(WordsOf(page[1], page[2]))
    BY DEF Sheets
  <2> QED BY <2>1
<1> DEFINE n == Len(Tops)
           l == [t \in DOMAIN Tops |-> RowWords(rows[t], styles[t], Tops[t])]
           S == Seq(Placed)
<1>1. /\ n \in Nat /\ DOMAIN Tops = 1 .. n /\ \A t \in 1 .. n : Tops[t] \in Int
      /\ \A t, u \in 1 .. n : t < u => Tops[t] < Tops[u]
  BY PdfAssumption
<1>2. ASSUME NEW t \in 1 .. n
      PROVE  /\ l[t] \in S /\ Pairwise(l[t], Down) /\ \A w \in ToSet(l[t]) : w.top = Tops[t]
  <2>1. l[t] = RowWords(rows[t], styles[t], Tops[t])
    BY <1>1
  <2>2. rows[t] \in Rows /\ styles[t] \in Styles /\ Tops[t] \in Int
    BY <1>1
  <2> QED BY <2>1, <2>2, RowPlaced
<1>3. l \in [1 .. n -> S] /\ DOMAIN l = 1 .. n
  <2>1. l = [t \in 1 .. n |-> l[t]]
    BY <1>1
  <2> HIDE DEF l, S
  <2> QED BY <1>2, <2>1
<1>4. s.words = FlattenSeq(l) /\ ~s.raises
  BY <1>0 DEF Sheet, WordsOf
<1> HIDE DEF l, n
<1>5. l \in Seq(Seq(Placed))
  <2>1. l \in Seq(S)
    <3> HIDE DEF S
    <3> QED BY <1>1, <1>3, ListOf
  <2> QED BY <2>1
<1>6. ASSUME NEW i \in DOMAIN l, NEW j \in DOMAIN l, i < j
      PROVE  Across(ToSet(l[i]), ToSet(l[j]), Down)
  <2> SUFFICES ASSUME NEW v \in ToSet(l[i]), NEW w \in ToSet(l[j]) PROVE <<v, w>> \in Down
    BY DEF Across
  <2>1. v.top = Tops[i] /\ w.top = Tops[j] /\ Tops[i] < Tops[j]
    BY <1>1, <1>2, <1>3, <1>6
  <2>2. v \in Placed /\ w \in Placed
    <3>1. \A k \in DOMAIN l : \A x \in ToSet(l[k]) : x \in Placed
      BY <1>2, <1>3 DEF ToSet
    <3> QED BY <3>1
  <2> QED BY <2>1, <2>2 DEF Down
<1>7. \A i \in DOMAIN l : Pairwise(l[i], Down)
  BY <1>2, <1>3
<1>8. FlattenSeq(l) \in Seq(Placed) /\ Pairwise(FlattenSeq(l), Down)
  BY <1>5, <1>6, <1>7, FlattenPairs
<1> QED BY <1>4, <1>8 DEF IsSheet

LEMMA SheetOfWords ==
    ASSUME NEW ws, IsSheet(ws)
    PROVE  ws \in Seq(Word)
BY DEF IsSheet, Placed

LEMMA BoxesAre ==
    ASSUME NEW boxes \in Boxes
    PROVE  IsFiniteSet(boxes) /\ boxes \subseteq Frame
BY PdfAssumption DEF Frame

-----------------------------------------------------------------------------
(* The walk of a PDF: the pages made are those of the first sheets; while  *)
(* one is walked, what is written and what is left of it are its columns;  *)
(* when it is made, its items and headings are those of its columns.       *)
SheetsOK(d, ps) ==
    /\ d = [sheets |-> d.sheets, boxes |-> d.boxes]
    /\ d.sheets \in Seq(Sheets \cup {Broken})
    /\ Len(ps) <= Len(d.sheets)

SheetColumns(d, k) == Columns(d.sheets[k].words, d.boxes)

Walking(d, ps, w, h, bs) ==
    /\ Len(ps) < Len(d.sheets) /\ ~d.sheets[Len(ps) + 1].raises /\ d.boxes \in Boxes
    /\ Walked(SheetColumns(d, Len(ps) + 1), w, h, bs)

Written(d, ps, bs) ==
    ps # <<>> /\ ~d.sheets[Len(ps)].raises =>
        /\ d.boxes \in Boxes
        /\ ps[Len(ps)].items = Rest(SheetColumns(d, Len(ps)))
        /\ HeadsWritten(bs) = HeadsLeft(SheetColumns(d, Len(ps)))

SheetInv ==
    format = "pdf" =>
        /\ phase \in {"sheet", "walk", "done"} => SheetsOK(doc, pages)
        /\ phase = "walk" => Walking(doc, pages, work, held, blocks)
        /\ phase # "walk" => held = <<>>
        /\ phase = "sheet" => Written(doc, pages, blocks)

LEMMA PdfDocsAre ==
    ASSUME NEW d \in PdfDocs
    PROVE  d \in Seq(Sheets \cup {Broken})
<1> DEFINE S == Sheets \cup {Broken}
<1>1. d = <<>> \/ (\E s \in S : d = <<s>>) \/ (\E s \in S : d = <<Broken, s>>)
  BY DEF PdfDocs
<1>2. Broken \in S
  OBVIOUS
<1> HIDE DEF S
<1>3. ASSUME NEW s \in S PROVE <<s>> \in Seq(S) /\ <<Broken, s>> \in Seq(S)
  BY <1>2
<1>4. <<>> \in Seq(S)
  OBVIOUS
<1> QED BY <1>1, <1>3, <1>4 DEF S

LEMMA SheetAt ==
    ASSUME NEW d, NEW ps, SheetsOK(d, ps), NEW k \in 1 .. Len(d.sheets), ~d.sheets[k].raises
    PROVE  IsSheet(d.sheets[k].words)
<1>1. d.sheets[k] \in Sheets \cup {Broken}
  BY DEF SheetsOK
<1>2. Broken.raises
  BY DEF Broken
<1> QED BY <1>1, <1>2, SheetWords

LEMMA ColumnsOfSheet ==
    ASSUME NEW ws, IsSheet(ws), NEW boxes \in Boxes
    PROVE  Columns(ws, boxes) \in Seq(Seq(Marked))
BY SheetOfWords, BoxesAre, ColumnsAre

LEMMA OnePageMore ==
    ASSUME NEW S, NEW ps \in Seq(S), NEW p
    PROVE  /\ Append(ps, p) # <<>> /\ Len(ps) \in Nat /\ Len(Append(ps, p)) = Len(ps) + 1
           /\ Append(ps, p)[Len(ps) + 1] = p
<1>1. ps \in Seq(S \cup {p})
  OBVIOUS
<1>2. Len(ps) \in Nat /\ Len(Append(ps, p)) = Len(ps) + 1 /\ Append(ps, p)[Len(ps) + 1] = p
  BY <1>1
<1>3. Append(ps, p) # <<>>
  <2>1. Len(<<>>) = 0
    OBVIOUS
  <2> QED BY <1>2, <2>1
<1> QED BY <1>2, <1>3

LEMMA SheetOpened ==
    ASSUME PagesInv, FlowInv, OpenPdf
    PROVE  SheetInv'
<1>1. /\ pages = <<>> /\ held = <<>> /\ pages' = <<>> /\ held' = <<>> /\ phase' = "sheet"
  BY DEF OpenPdf, PagesInv, FlowInv
<1>2. PICK d \in PdfDocs : doc' = [sheets |-> d, boxes |-> {}]
  BY DEF OpenPdf
<1>3. PICK e : e = doc'
  OBVIOUS
<1>4. e.sheets = d /\ e.boxes = {}
  BY <1>2, <1>3
<1>5. d \in Seq(Sheets \cup {Broken})
  BY PdfDocsAre
<1>6. SheetsOK(e, <<>>)
  <2>1. Len(d) \in Nat /\ Len(<<>>) = 0
    BY <1>5
  <2> QED BY <1>2, <1>3, <1>4, <1>5, <2>1 DEF SheetsOK
<1>7. Written(e, <<>>, blocks')
  BY DEF Written
<1> QED BY <1>1, <1>3, <1>6, <1>7 DEF SheetInv

LEMMA SheetDegraded ==
    ASSUME PagesInv, SheetInv, DegradePage
    PROVE  SheetInv'
<1>1. PICK S : pages \in Seq(S)
  BY DEF PagesInv
<1>2. /\ format = "pdf" /\ phase = "sheet" /\ Len(pages) < Len(doc.sheets)
      /\ doc.sheets[Len(pages) + 1].raises
      /\ phase' = "sheet" /\ doc' = doc /\ held' = held
  BY DEF DegradePage, PagesInv, Current
<1>3. PICK p : pages' = Append(pages, p)
  BY DEF DegradePage
<1>4. SheetsOK(doc, pages) /\ held = <<>>
  BY <1>2 DEF SheetInv
<1>5. pages' # <<>> /\ Len(pages) \in Nat /\ Len(pages') = Len(pages) + 1
  BY <1>1, <1>3, OnePageMore
<1>6. Len(doc.sheets) \in Nat
  BY <1>4 DEF SheetsOK
<1>7. SheetsOK(doc, pages')
  BY <1>2, <1>4, <1>5, <1>6 DEF SheetsOK
<1>8. Written(doc, pages', blocks')
  BY <1>2, <1>5 DEF Written
<1> QED BY <1>2, <1>4, <1>7, <1>8 DEF SheetInv

LEMMA SheetLaidOut ==
    ASSUME PagesInv, SheetInv, LayOut
    PROVE  SheetInv'
<1>1. PICK S : pages \in Seq(S)
  BY DEF PagesInv
<1>2. /\ format = "pdf" /\ phase = "sheet" /\ Len(pages) < Len(doc.sheets)
      /\ ~doc.sheets[Len(pages) + 1].raises
      /\ phase' = "walk" /\ held' = held /\ pages' = pages /\ blocks' = <<>> /\ format' = format
  BY DEF LayOut, PagesInv, Current
<1>3. PICK boxes \in Boxes : /\ doc' = [doc EXCEPT !.boxes = boxes]
                             /\ work' = Columns(doc.sheets[Len(pages) + 1].words, boxes)
  BY DEF LayOut, Current
<1>4. SheetsOK(doc, pages) /\ held = <<>>
  BY <1>2 DEF SheetInv
<1>5. PICK e : e = doc'
  OBVIOUS
<1>6. e = [sheets |-> doc.sheets, boxes |-> boxes]
  BY <1>3, <1>4, <1>5 DEF SheetsOK
<1>7. e.sheets = doc.sheets /\ e.boxes = boxes
  BY <1>6
<1>8. SheetsOK(e, pages)
  BY <1>4, <1>6, <1>7 DEF SheetsOK
<1>9. Len(pages) \in Nat /\ Len(doc.sheets) \in Nat
  BY <1>1, <1>4 DEF SheetsOK
<1>10. Len(pages) + 1 \in 1 .. Len(doc.sheets)
  BY <1>2, <1>9
<1>11. IsSheet(doc.sheets[Len(pages) + 1].words)
  BY <1>2, <1>4, <1>10, SheetAt
<1>12. PICK cols : cols = SheetColumns(e, Len(pages) + 1)
  OBVIOUS
<1>13. cols \in Seq(Seq(Marked)) /\ work' = cols
  BY <1>3, <1>7, <1>11, <1>12, ColumnsOfSheet DEF SheetColumns
<1>14. Walked(cols, cols, <<>>, <<>>)
  BY <1>13, WalkBegins
<1>15. Walking(e, pages, work', held', blocks')
  BY <1>2, <1>4, <1>7, <1>12, <1>13, <1>14 DEF Walking
<1> QED BY <1>2, <1>5, <1>8, <1>15 DEF SheetInv

LEMMA SheetWalked ==
    ASSUME SheetInv, EmitTable \/ EmitHeading \/ HoldLine \/ EndColumn
    PROVE  SheetInv'
<1>1. /\ format = "pdf" /\ phase = "walk" /\ phase' = "walk" /\ doc' = doc /\ pages' = pages
  BY DEF EmitTable, EmitHeading, HoldLine, EndColumn
<1>2. SheetsOK(doc, pages) /\ Walking(doc, pages, work, held, blocks)
  BY <1>1 DEF SheetInv
<1>3. PICK cols : cols = SheetColumns(doc, Len(pages) + 1)
  OBVIOUS
<1>4. Walked(cols, work, held, blocks)
  BY <1>2, <1>3 DEF Walking
<1>5. Walked(cols, work', held', blocks')
  BY <1>4, TableWritten, HeadingWritten, LineHeld, ColumnEnded
<1>6. Walking(doc, pages, work', held', blocks')
  BY <1>2, <1>3, <1>5 DEF Walking
<1> QED BY <1>1, <1>2, <1>6 DEF SheetInv

LEMMA SheetEnded ==
    ASSUME PagesInv, SheetInv, EndSheet
    PROVE  SheetInv'
<1>1. PICK S : pages \in Seq(S)
  BY DEF PagesInv
<1>2. /\ format = "pdf" /\ phase = "walk" /\ work = <<>> /\ phase' = "sheet"
      /\ doc' = doc /\ held' = held /\ blocks' = blocks
  BY DEF EndSheet
<1>3. SheetsOK(doc, pages) /\ Walking(doc, pages, work, held, blocks)
  BY <1>2 DEF SheetInv
<1>4. PICK p : pages' = Append(pages, p) /\ p.items = Items(blocks)
  <2>1. PICK areas, page :
           /\ page = [items |-> Items(blocks), image |-> FALSE,
                      layout |-> Layout(Current.words, areas)]
           /\ pages' = Append(pages, [page EXCEPT !.image = Probe(page)])
    BY DEF EndSheet
  <2>2. [page EXCEPT !.image = Probe(page)].items = Items(blocks)
    BY <2>1
  <2> QED BY <2>1, <2>2
<1>5. PICK cols : cols = SheetColumns(doc, Len(pages) + 1)
  OBVIOUS
<1>6. Walked(cols, <<>>, held, blocks)
  BY <1>2, <1>3, <1>5 DEF Walking
<1>7. Items(blocks) = Rest(cols) /\ HeadsWritten(blocks) = HeadsLeft(cols) /\ held = <<>>
  BY <1>6, WalkEnds
<1>8. /\ Len(pages) \in Nat /\ Len(pages') = Len(pages) + 1 /\ pages'[Len(pages) + 1] = p
  BY <1>1, <1>4, OnePageMore
<1>9. Len(doc.sheets) \in Nat
  BY <1>3 DEF SheetsOK
<1>10. SheetsOK(doc, pages')
  BY <1>3, <1>8, <1>9 DEF SheetsOK, Walking
<1>11. Written(doc, pages', blocks)
  BY <1>3, <1>4, <1>5, <1>7, <1>8 DEF Written, Walking
<1> QED BY <1>2, <1>7, <1>10, <1>11 DEF SheetInv

LEMMA FlowIsNoPdf ==
    ASSUME FlowInv, FlowNext
    PROVE  format' = format /\ format # "pdf"
<1>1. CASE OpenText \/ OpenDocx \/ OpenPptx \/ OpenHtml \/ FindRoot
  BY <1>1 DEF OpenText, OpenDocx, OpenPptx, OpenHtml, FindRoot, FlowInv
<1>2. CASE \/ SkipParagraph \/ HoldListItem \/ EmitParagraph \/ EmitDocxTable \/ SkipElement
           \/ EndDocx
  BY <1>2 DEF SkipParagraph, HoldListItem, EmitParagraph, EmitDocxTable, SkipElement, EndDocx,
     DocxWalks
<1>3. CASE \/ OpenSlide \/ SkipTitle \/ RepeatTitle \/ EmitPptxTable \/ EmitFrame
           \/ SkipShape \/ EmitNotes \/ EndPptx
  BY <1>3 DEF OpenSlide, SkipTitle, RepeatTitle, EmitPptxTable, EmitFrame, SkipShape,
     EmitNotes, EndPptx, IsShape, IsPart, PptxWalks
<1>4. CASE Descend \/ Render \/ EndHtml
  BY <1>4 DEF Descend, Render, EndHtml, HtmlWalks
<1> QED BY <1>1, <1>2, <1>3, <1>4 DEF FlowNext

LEMMA SheetsKept == PagesInv /\ FlowInv /\ SheetInv /\ [Next]_vars => SheetInv'
<1> SUFFICES ASSUME PagesInv, FlowInv, SheetInv, [Next]_vars PROVE SheetInv'
  OBVIOUS
<1>1. CASE RouteByMediaType \/ RouteByExtension \/ RouteByContent
  BY <1>1 DEF RouteByMediaType, RouteByExtension, RouteByContent, Route, FlowInv, SheetInv
<1>2. CASE Reject \/ OpenFails
  BY <1>2 DEF Reject, OpenFails, FlowInv, SheetInv
<1>3. CASE Finished \/ UNCHANGED vars
  BY <1>3 DEF Finished, vars, SheetInv
<1>4. CASE PdfNext
  <2>1. CASE EndPdf
    <3>1. format = "pdf" /\ phase = "sheet"
      BY <2>1 DEF EndPdf, PagesInv
    <3> QED BY <2>1, <3>1 DEF EndPdf, SheetInv
  <2> QED
    BY <1>4, <2>1, SheetOpened, SheetDegraded, SheetLaidOut, SheetWalked, SheetEnded
    DEF PdfNext
<1>5. CASE FlowNext
  <2>1. format' = format /\ format # "pdf"
    BY <1>5, FlowIsNoPdf
  <2> QED BY <2>1 DEF SheetInv
<1> QED BY <1>1, <1>2, <1>3, <1>4, <1>5 DEF Next

(* The page that SheetMade speaks of.                                      *)
LEMMA SheetIsMade ==
    ASSUME PagesInv, SheetInv, SheetMade
    PROVE  /\ IsSheet(Words) /\ doc.boxes \in Boxes
           /\ Made = Rest(Columns(Words, doc.boxes))
           /\ HeadsWritten(blocks) = HeadsLeft(Columns(Words, doc.boxes))
<1>1. PICK S : pages \in Seq(S)
  BY DEF PagesInv
<1>2. SheetsOK(doc, pages) /\ Written(doc, pages, blocks)
  BY DEF SheetMade, SheetInv
<1>3. Len(doc.sheets) \in Nat /\ Len(pages) \in 1 .. Len(doc.sheets)
  BY <1>1, <1>2 DEF SheetsOK, SheetMade
<1>4. IsSheet(doc.sheets[Len(pages)].words)
  BY <1>2, <1>3, SheetAt DEF SheetMade
<1> QED BY <1>2, <1>4 DEF SheetMade, Written, SheetColumns, Words, Made

(* The inductive invariant of the paths, for the theorems on what leaves   *)
(* them.                                                                   *)
LEMMA PathsKeepOrder == Spec => [](PagesInv /\ FlowInv /\ SheetInv)
<1> DEFINE Inv == PagesInv /\ FlowInv /\ SheetInv
<1>1. Init => Inv
  <2>1. Init => SheetInv
    BY DEF Init, SheetInv
  <2> QED BY <2>1, PagesInit, FlowInit
<1>2. Inv /\ [Next]_vars => Inv'
  BY PagesStep, FlowKeepsItsWord, SheetsKept
<1> QED BY <1>1, <1>2, PTL DEF Spec

(* "Ranked biggest-first into # ... ####", "a numbered prefix refines it   *)
(* deeper" (parsing/pdf.py): over all the columns of a page a larger face  *)
(* puts a heading above, and in one face a longer number below, but where  *)
(* the number of the larger outdoes its rank, or the ranks outdo the       *)
(* longer number; for any words, boxes and thresholds.                     *)
THEOREM HeadingsKeepRank == Spec => []HeadingsRanked
<1>1. PagesInv /\ FlowInv /\ SheetInv => HeadingsRanked
  <2> SUFFICES ASSUME PagesInv, FlowInv, SheetInv, SheetMade PROVE RankedWell(HeadsWritten(blocks))
    BY DEF HeadingsRanked, HeadingsMade, Rank, RankedWell, RankIn, HeadsWritten
  <2>1. IsSheet(Words) /\ doc.boxes \in Boxes
        /\ HeadsWritten(blocks) = HeadsLeft(Columns(Words, doc.boxes))
    BY SheetIsMade
  <2>2. PICK ws, boxes : ws = Words /\ boxes = doc.boxes
    OBVIOUS
  <2>3. ws \in Seq(Word) /\ IsFiniteSet(boxes) /\ boxes \subseteq Frame
    BY <2>1, <2>2, SheetOfWords, BoxesAre
  <2>4. RankedWell(HeadsLeft(Columns(ws, boxes)))
    BY <2>3, HeadingsAreRanked
  <2> QED BY <2>1, <2>2, <2>4
<1> QED BY <1>1, PathsKeepOrder, PTL

-----------------------------------------------------------------------------
(* What was measured of the pages that a PDF has made: they are numbers,   *)
(* and a page that raised has those it is given then.                      *)

(* f sums the first members of g, up to the n-th.                          *)
Sums(f, g, n) ==
    /\ f \in [0 .. n -> Nat] /\ f[0] = 0
    /\ \A k \in 1 .. n : f[k] = f[k - 1] + g[k]

LEMMA SumsExist ==
    ASSUME NEW n \in Nat, NEW g, \A k \in 1 .. n : g[k] \in Nat
    PROVE  \E f : Sums(f, g, n)
<1> DEFINE P == {m \in 1 .. n : ~\E f : Sums(f, g, m)}
<1>1. \E f : Sums(f, g, 0)
  <2>1. Sums([k \in 0 .. 0 |-> 0], g, 0)
    BY DEF Sums
  <2>2. QED
    BY <2>1
<1>2. ASSUME P # {} PROVE FALSE
  <2>1. P \in SUBSET (1 .. n)
    OBVIOUS
  <2>2. PICK m \in P : \A k \in 1 .. m - 1 : k \notin P
    BY <1>2, <2>1, LeastFailure
  <2>3. m \in 1 .. n /\ ~\E f : Sums(f, g, m)
    OBVIOUS
  <2>4. \E f : Sums(f, g, m - 1)
    <3>1. CASE m = 1
      BY <1>1, <3>1
    <3>2. CASE m # 1
      <4>1. m - 1 \in 1 .. n /\ m - 1 \in 1 .. m - 1
        BY <2>3, <3>2
      <4>2. QED
        BY <2>2, <4>1
    <3>3. QED
      BY <3>1, <3>2
  <2>5. PICK f : Sums(f, g, m - 1)
    BY <2>4
  <2>6. /\ f \in [0 .. m - 1 -> Nat] /\ f[0] = 0
        /\ \A k \in 1 .. m - 1 : f[k] = f[k - 1] + g[k]
    BY <2>5 DEF Sums
  <2> DEFINE e == f[m - 1] + g[m]
             h == [x \in 0 .. m |-> IF x = m THEN e ELSE f[x]]
  <2>7. e \in Nat /\ m - 1 \in 0 .. m - 1 /\ 0 # m /\ m - 1 # m /\ m \in Nat
    BY <2>3, <2>6
  <2> HIDE DEF e
  <2>8. h \in [0 .. m -> Nat]
    BY <2>6, <2>7
  <2>9. h[0] = 0 /\ h[m] = e /\ \A x \in 0 .. m - 1 : h[x] = f[x]
    BY <2>6, <2>7
  <2> HIDE DEF h
  <2>10. ASSUME NEW k \in 1 .. m PROVE h[k] = h[k - 1] + g[k]
    <3>1. CASE k = m
      BY <2>7, <2>9, <3>1 DEF e
    <3>2. CASE k # m
      <4>1. k \in 1 .. m - 1 /\ k \in 0 .. m - 1 /\ k - 1 \in 0 .. m - 1
        BY <2>7, <3>2
      <4>2. QED
        BY <2>6, <2>9, <4>1
    <3>3. QED
      BY <3>1, <3>2
  <2>11. Sums(h, g, m)
    BY <2>8, <2>9, <2>10 DEF Sums
  <2>12. QED
    BY <2>3, <2>11
<1>3. n = 0 \/ n \in 1 .. n
  OBVIOUS
<1>4. QED
  BY <1>1, <1>2, <1>3

LEMMA TotalIs ==
    ASSUME NEW n \in Nat, NEW g, \A k \in 1 .. n : g[k] \in Nat
    PROVE  \E f : Sums(f, g, n) /\ Total(g, n) = f[n]
<1> DEFINE Def(f) == f = [k \in 0 .. n |-> IF k = 0 THEN 0 ELSE f[k - 1] + g[k]]
           sum == CHOOSE f : Def(f)
<1>1. \E f : Def(f)
  <2>1. PICK f : Sums(f, g, n)
    BY SumsExist
  <2>2. f = [k \in 0 .. n |-> f[k]]
    BY <2>1 DEF Sums
  <2>3. \A k \in 0 .. n : f[k] = IF k = 0 THEN 0 ELSE f[k - 1] + g[k]
    BY <2>1 DEF Sums
  <2>4. Def(f)
    BY <2>2, <2>3
  <2>5. QED
    BY <2>4
<1>2. Def(sum)
  BY <1>1
<1>3. Total(g, n) = sum[n]
  BY DEF Total
<1> HIDE DEF sum
<1>4. /\ DOMAIN sum = 0 .. n /\ sum[0] = 0
      /\ \A k \in 1 .. n : sum[k] = sum[k - 1] + g[k]
  BY <1>2
<1>5. \A k \in 0 .. n : sum[k] \in Nat
  <2> DEFINE P == {k \in 1 .. n : sum[k] \notin Nat}
  <2>1. ASSUME P # {} PROVE FALSE
    <3>1. P \in SUBSET (1 .. n)
      OBVIOUS
    <3>2. PICK k \in P : \A i \in 1 .. k - 1 : i \notin P
      BY <2>1, <3>1, LeastFailure
    <3>3. k \in 1 .. n /\ sum[k] \notin Nat
      OBVIOUS
    <3>4. sum[k - 1] \in Nat
      <4>1. k - 1 = 0 \/ (k - 1 \in 1 .. k - 1 /\ k - 1 \in 1 .. n)
        BY <3>3
      <4>2. QED
        BY <1>4, <3>2, <4>1
    <3>5. g[k] \in Nat /\ sum[k] = sum[k - 1] + g[k]
      BY <1>4, <3>3
    <3>6. QED
      BY <3>3, <3>4, <3>5
  <2>2. \A k \in 0 .. n : k = 0 \/ k \in 1 .. n
    OBVIOUS
  <2>3. QED
    BY <1>4, <2>1, <2>2, SMTT(20)
<1>6. sum = [k \in 0 .. n |-> sum[k]]
  BY <1>2
<1>7. sum \in [0 .. n -> Nat]
  BY <1>5, <1>6
<1>8. Sums(sum, g, n)
  BY <1>4, <1>7 DEF Sums
<1>9. QED
  BY <1>3, <1>8

Measures == [measured : {TRUE}, chars : Nat, images : Nat, bitmap : Nat]

RoutedInv ==
    format = "pdf" =>
        /\ phase \in {"sheet", "walk", "done"} =>
              \A k \in DOMAIN pages :
                  /\ pages[k].layout \in Measures
                  /\ (doc.sheets[k].raises => (pages[k].layout = Vision /\ pages[k].image))
        /\ phase = "done" => Len(pages) = Len(doc.sheets)

LEMMA LayoutIs ==
    ASSUME NEW ws, Len(ws) \in Nat, NEW areas \in Rasters
    PROVE  Layout(ws, areas) \in Measures
<1>1. PICK total : total = Total(areas, Len(areas))
  OBVIOUS
<1>2. areas \in Seq(Nat) /\ WordChars \in Nat /\ PageArea \in Nat
  BY PdfAssumption, PagesAssumption
<1>3. total \in Nat
  <2>1. Len(areas) \in Nat /\ \A k \in 1 .. Len(areas) : areas[k] \in Nat
    BY <1>2
  <2>2. PICK f : Sums(f, areas, Len(areas)) /\ Total(areas, Len(areas)) = f[Len(areas)]
    BY ONLY <2>1, TotalIs
  <2> QED BY <1>1, <2>1, <2>2 DEF Sums
<1>4. areas # <<>> => Max(ToSet(areas)) \in Nat
  <2> SUFFICES ASSUME areas # <<>> PROVE Max(ToSet(areas)) \in Nat
    OBVIOUS
  <2>1. IsFiniteSet(ToSet(areas)) /\ ToSet(areas) \subseteq Nat
    BY <1>2, ListFinite
  <2>2. areas[1] \in ToSet(areas)
    BY <1>2 DEF ToSet
  <2>3. ToSet(areas) \subseteq Int /\ ToSet(areas) # {}
    BY <2>1, <2>2
  <2> QED BY <2>1, <2>3, Ends
<1>5. PICK chars \in Nat : chars = WordChars * Len(ws)
  BY <1>2
<1>6. PICK images \in Nat : images = IF total < PageArea THEN total ELSE PageArea
  BY <1>2, <1>3
<1>7. PICK bitmap \in Nat : bitmap = IF areas = <<>> THEN 0 ELSE Max(ToSet(areas))
  BY <1>4
<1>8. Layout(ws, areas) = Measured(chars, images, bitmap)
  BY <1>1, <1>5, <1>6, <1>7 DEF Layout
<1> QED BY <1>8 DEF Measured, Measures

LEMMA VisionIs == Vision \in Measures
<1>1. PageArea \in Nat /\ Default.bitmap \in Nat
  BY PagesAssumption DEF Thresholds
<1>2. 20 * Default.bitmap \in Nat
  BY <1>1
<1> QED BY <1>1, <1>2 DEF Vision, Measured, Measures

(* One more page, at its sheet.                                            *)
LEMMA RoutedOn ==
    ASSUME PagesInv, RoutedInv, format = "pdf", phase \in {"sheet", "walk"}, NEW page,
           pages' = Append(pages, page), doc' = doc, phase' = "sheet", page.layout \in Measures,
           doc.sheets[Len(pages) + 1].raises => (page.layout = Vision /\ page.image)
    PROVE  RoutedInv'
<1>1. PICK S : pages \in Seq(S)
  BY DEF PagesInv
<1>2. pages \in Seq(S \cup {page})
  BY <1>1
<1>3. \A k \in DOMAIN pages' :
         \/ k = Len(pages) + 1 /\ pages'[k] = page
         \/ k \in DOMAIN pages /\ pages'[k] = pages[k]
  BY <1>2
<1> QED BY <1>3 DEF RoutedInv

LEMMA RoutedKept == PagesInv /\ FlowInv /\ SheetInv /\ RoutedInv /\ [Next]_vars => RoutedInv'
<1> SUFFICES ASSUME PagesInv, FlowInv, SheetInv, RoutedInv, [Next]_vars PROVE RoutedInv'
  OBVIOUS
<1>1. CASE RouteByMediaType \/ RouteByExtension \/ RouteByContent
  BY <1>1 DEF RouteByMediaType, RouteByExtension, RouteByContent, Route, RoutedInv
<1>2. CASE Reject \/ OpenFails
  BY <1>2 DEF Reject, OpenFails, RoutedInv
<1>3. CASE Finished \/ UNCHANGED vars
  BY <1>3 DEF Finished, vars, RoutedInv
<1>4. CASE OpenPdf
  <2>1. pages' = <<>> /\ phase' = "sheet"
    BY <1>4 DEF OpenPdf, PagesInv
  <2> QED BY <2>1 DEF RoutedInv
<1>5. CASE DegradePage
  <2>1. PICK page : page = [items |-> <<>>, layout |-> Vision, image |-> TRUE]
    OBVIOUS
  <2>2. page.layout = Vision /\ page.image
    BY <2>1
  <2>3. format = "pdf" /\ phase = "sheet"
    BY <1>5 DEF DegradePage, PagesInv
  <2>4. pages' = Append(pages, page) /\ doc' = doc /\ phase' = "sheet"
    BY <1>5, <2>1, <2>3 DEF DegradePage
  <2> QED BY <2>2, <2>3, <2>4, VisionIs, RoutedOn
<1>6. CASE LayOut
  <2>1. format = "pdf" /\ phase = "sheet" /\ format' = format /\ phase' = "walk" /\ pages' = pages
    BY <1>6 DEF LayOut, PagesInv
  <2>2. PICK boxes : doc' = [doc EXCEPT !.boxes = boxes]
    BY <1>6 DEF LayOut
  <2>3. SheetsOK(doc, pages)
    BY <2>1 DEF SheetInv
  <2>4. PICK d, e : d = doc /\ e = doc'
    OBVIOUS
  <2>5. d = [sheets |-> d.sheets, boxes |-> d.boxes] /\ e = [d EXCEPT !.boxes = boxes]
    BY <2>2, <2>3, <2>4 DEF SheetsOK
  <2>6. e.sheets = d.sheets
    BY <2>5
  <2> QED BY <2>1, <2>4, <2>6 DEF RoutedInv
<1>7. CASE EmitTable \/ EmitHeading \/ HoldLine \/ EndColumn
  BY <1>7 DEF EmitTable, EmitHeading, HoldLine, EndColumn, RoutedInv
<1>8. CASE EndSheet
  <2>0. PICK areas \in Rasters :
           pages' = Append(pages,
               [[items |-> Items(blocks), image |-> FALSE,
                 layout |-> Layout(Current.words, areas)] EXCEPT !.image =
                   Probe([items |-> Items(blocks), image |-> FALSE,
                          layout |-> Layout(Current.words, areas)])])
    BY <1>8 DEF EndSheet
  <2>1. PICK page :
           /\ page = [items |-> Items(blocks), image |-> FALSE,
                      layout |-> Layout(Current.words, areas)]
           /\ pages' = Append(pages, [page EXCEPT !.image = Probe(page)])
    BY <2>0
  <2>2. /\ format = "pdf" /\ phase = "walk" /\ doc' = doc /\ phase' = "sheet"
    BY <1>8 DEF EndSheet
  <2>3. PICK made : made = [page EXCEPT !.image = Probe(page)]
    OBVIOUS
  <2>4. made.layout = Layout(Current.words, areas)
    BY <2>1, <2>3
  <2>5. SheetsOK(doc, pages) /\ Len(pages) < Len(doc.sheets) /\ ~doc.sheets[Len(pages) + 1].raises
    BY <2>2 DEF SheetInv, Walking
  <2>6. Len(Current.words) \in Nat
    <3>1. Len(pages) \in Nat /\ Len(doc.sheets) \in Nat
      BY <2>5 DEF SheetsOK, PagesInv
    <3>2. Len(pages) + 1 \in 1 .. Len(doc.sheets)
      BY <2>5, <3>1
    <3>3. IsSheet(Current.words)
      BY <2>5, <3>2, SheetAt DEF Current
    <3> QED BY <3>3 DEF IsSheet
  <2>7. made.layout \in Measures
    BY <2>4, <2>6, LayoutIs
  <2> QED BY <2>1, <2>2, <2>3, <2>5, <2>7, RoutedOn
<1>9. CASE EndPdf
  <2>1. format = "pdf" /\ phase = "sheet" /\ Len(pages) = Len(doc.sheets)
        /\ doc' = doc /\ pages' = pages
    BY <1>9 DEF EndPdf, PagesInv
  <2> QED BY <2>1 DEF RoutedInv
<1>10. CASE FlowNext
  <2>1. format' = format /\ format # "pdf"
    BY <1>10, FlowIsNoPdf
  <2> QED BY <2>1 DEF RoutedInv
<1> QED BY <1>1, <1>2, <1>3, <1>4, <1>5, <1>6, <1>7, <1>8, <1>9, <1>10 DEF Next, PdfNext

(* A classifier that trusts more trusts what the default one trusts.       *)
LEMMA TrustGrows ==
    ASSUME NEW policy \in Thresholds, IsMoreTrusting(policy), NEW page,
           page.layout \in Measures, HasUsableTextLayer(Default, page)
    PROVE  HasUsableTextLayer(policy, page)
<1>1. PICK l \in Measures : l = page.layout
  OBVIOUS
<1>2. l.measured /\ l.chars \in Nat /\ l.images \in Nat /\ l.bitmap \in Nat
  BY DEF Measures
<1>3. /\ Default.chars \in Nat /\ Default.area \in Int /\ Default.bitmap \in Nat
      /\ policy.chars \in Nat /\ policy.area \in Int /\ policy.bitmap \in Nat
  BY PagesAssumption DEF Thresholds
<1>4. l.chars >= Default.chars /\ l.images < Default.area /\ l.bitmap < Default.bitmap
  BY <1>1, <1>2 DEF HasUsableTextLayer
<1>5. l.chars >= policy.chars /\ l.images < policy.area /\ l.bitmap < policy.bitmap
  BY <1>2, <1>3, <1>4 DEF IsMoreTrusting
<1> QED BY <1>1, <1>5 DEF HasUsableTextLayer

(* A page that raised is trusted by none.                                  *)
LEMMA VisionRoutes ==
    ASSUME NEW policy \in Thresholds, NEW page, page.layout = Vision, page.image
    PROVE  RoutesToVision(policy, page)
<1>1. Vision.measured /\ Vision.images = PageArea
  BY DEF Vision, Measured
<1>2. policy.area \in Int /\ policy.area <= PageArea /\ PageArea \in Nat
  BY PagesAssumption DEF Thresholds
<1>3. ~(PageArea < policy.area)
  BY <1>2
<1>4. ~HasUsableTextLayer(policy, page)
  BY <1>1, <1>3 DEF HasUsableTextLayer
<1> QED BY <1>4 DEF RoutesToVision

(* The parser asks its own classifier before the pipeline asks the one it  *)
(* was given (parsing/pdf.py, ingestion.py): for any thresholds of either, *)
(* whatever was measured and whichever pages raised, the pages that the    *)
(* default one wants are those that have an image; a page that raised goes *)
(* to vision under any; and one that trusts more than the default finds an *)
(* image on every page it distrusts.                                       *)
THEOREM PagesRouted == Spec => []PagesRoute
<1> DEFINE Inv == PagesInv /\ FlowInv /\ SheetInv /\ RoutedInv
<1>1. Init => Inv
  <2>1. Init => SheetInv /\ RoutedInv
    BY DEF Init, SheetInv, RoutedInv
  <2> QED BY <2>1, PagesInit, FlowInit
<1>2. Inv /\ [Next]_vars => Inv'
  BY PagesStep, FlowKeepsItsWord, SheetsKept, RoutedKept
<1>3. Inv => PagesRoute
  <2> SUFFICES ASSUME PagesInv, RoutedInv, phase = "done",
                      NEW policy \in Policies \cup {Default}, NEW k \in DOMAIN pages
               PROVE  IF format = "pdf"
                      THEN /\ Len(pages) = Len(doc.sheets)
                           /\ doc.sheets[k].raises => RoutesToVision(policy, pages[k])
                           /\ IsMoreTrusting(policy) =>
                                 \/ HasUsableTextLayer(policy, pages[k])
                                 \/ RoutesToVision(policy, pages[k])
                           /\ pages[k].image <=> RoutesToVision(Default, pages[k])
                      ELSE ~RoutesToVision(policy, pages[k])
    BY DEF PagesRoute
  <2>1. policy \in Thresholds /\ Right(pages[k])
    BY PagesAssumption DEF PagesInv
  <2>2. CASE format = "pdf"
    <3>1. /\ Len(pages) = Len(doc.sheets) /\ pages[k].layout \in Measures
          /\ (doc.sheets[k].raises => (pages[k].layout = Vision /\ pages[k].image))
          /\ pages[k].image <=> ~HasUsableTextLayer(Default, pages[k])
      BY <2>1, <2>2 DEF RoutedInv, Right
    <3>2. doc.sheets[k].raises => RoutesToVision(policy, pages[k])
      BY <2>1, <3>1, VisionRoutes
    <3>3. IsMoreTrusting(policy) =>
             HasUsableTextLayer(policy, pages[k]) \/ RoutesToVision(policy, pages[k])
      BY <2>1, <3>1, TrustGrows DEF RoutesToVision
    <3>4. pages[k].image <=> RoutesToVision(Default, pages[k])
      BY <3>1 DEF RoutesToVision
    <3> QED BY <2>2, <3>1, <3>2, <3>3, <3>4
  <2>3. CASE format # "pdf"
    BY <2>1, <2>3 DEF Right, RoutesToVision
  <2> QED BY <2>2, <2>3
<1> QED BY <1>1, <1>2, <1>3, PTL DEF Spec

-----------------------------------------------------------------------------
(* The levels of the blocks that are written.                              *)
LevelOK(b) == b.level \in 0 .. 6 /\ (b.kind = "heading" => b.level > 0)
LevelsOK(bs) == (\E B : bs \in Seq(B)) /\ \A k \in DOMAIN bs : LevelOK(bs[k])

LEMMA LevelsOn ==
    ASSUME NEW bs, LevelsOK(bs), NEW b, LevelOK(b)
    PROVE  LevelsOK(Append(bs, b)) /\ LevelsOK(bs \o <<b>>)
<1>1. PICK B : bs \in Seq(B)
  BY DEF LevelsOK
<1>2. bs \in Seq(B \cup {b})
  BY <1>1
<1>3. bs \o <<b>> = Append(bs, b)
  BY <1>2
<1>4. /\ Append(bs, b) \in Seq(B \cup {b})
      /\ \A k \in DOMAIN Append(bs, b) :
            Append(bs, b)[k] = b \/ (k \in DOMAIN bs /\ Append(bs, b)[k] = bs[k])
  BY <1>2
<1>5. LevelsOK(Append(bs, b))
  BY <1>4 DEF LevelsOK
<1> QED BY <1>3, <1>5

LEMMA NoLevels ==
    ASSUME NEW bs, LevelsOK(bs)
    PROVE  LevelsOK(<<>>) /\ bs \o <<>> = bs
<1>1. <<>> \in Seq({}) /\ DOMAIN <<>> = {}
  OBVIOUS
<1>2. PICK B : bs \in Seq(B)
  BY DEF LevelsOK
<1> QED BY <1>1, <1>2 DEF LevelsOK

LEMMA LevelsFlushed ==
    ASSUME NEW bs, LevelsOK(bs), NEW kind, kind # "heading"
    PROVE  LevelsOK(bs \o Flush(kind))
<1>1. LevelOK(BlockOf(kind, held))
  BY DEF LevelOK, BlockOf
<1>2. Flush(kind) = <<>> \/ Flush(kind) = <<BlockOf(kind, held)>>
  BY DEF Flush
<1> QED BY <1>1, <1>2, LevelsOn, NoLevels

LEMMA BlockLevel ==
    ASSUME NEW kind, NEW level \in 0 .. 6, kind = "heading" => level > 0, NEW items
    PROVE  LevelOK(Block(kind, level, items))
BY DEF LevelOK, Block

LEMMA PdfLevels ==
    ASSUME SheetInv, LevelsOK(blocks), EmitTable \/ EmitHeading \/ EndColumn
    PROVE  LevelsOK(blocks')
<1>1. LevelsOK(blocks \o Flush("prose"))
  BY LevelsFlushed
<1>2. PICK before : before = blocks \o Flush("prose")
  OBVIOUS
<1>3. CASE EmitTable
  <2>1. PICK items, b : b = Block("table", 0, items) /\ blocks' = before \o <<b>>
    BY <1>2, <1>3 DEF EmitTable
  <2>2. b.level = 0 /\ b.kind = "table"
    BY <2>1 DEF Block
  <2>3. LevelOK(b)
    BY <2>2 DEF LevelOK
  <2> QED BY <1>1, <1>2, <2>1, <2>3, LevelsOn
<1>4. CASE EmitHeading
  <2>1. PICK level, items, b : /\ level = Item.level /\ b = Block("heading", level, items)
                               /\ blocks' = before \o <<b>>
    BY <1>2, <1>4 DEF EmitHeading
  <2>2. /\ phase = "walk" /\ format = "pdf" /\ Item.level > 0
        /\ work # <<>> /\ Head(work) # <<>>
    BY <1>4 DEF EmitHeading
  <2>3. work \in Seq(Seq(Marked))
    BY <2>2 DEF SheetInv, Walking, Walked
  <2>4. Item \in Marked
    <3>1. PICK x, next : x = Head(Head(work)) /\ next = <<Tail(Head(work))>> \o Tail(work)
      OBVIOUS
    <3>2. x \in Marked
      BY <2>2, <2>3, <3>1, ItemTaken
    <3> QED BY <3>1, <3>2 DEF Item
  <2>5. level \in 1 .. 6
    BY <2>1, <2>2, <2>4 DEF Marked
  <2>6. b.level = level /\ b.kind = "heading"
    BY <2>1 DEF Block
  <2>7. LevelOK(b)
    BY <2>5, <2>6 DEF LevelOK
  <2> QED BY <1>1, <1>2, <2>1, <2>7, LevelsOn
<1>5. CASE EndColumn
  BY <1>1, <1>5 DEF EndColumn
<1> QED BY <1>3, <1>4, <1>5

LEMMA DocxLevel ==
    ASSUME NEW e \in Elements, e.kind = "paragraph"
    PROVE  HeadingLevelOf(e) \in 0 .. 6
<1>1. e.suffix \in Nat
  BY FlowAssumption DEF Tables
<1>2. Min({e.suffix, 6}) \in 0 .. 6
  BY <1>1, LeastOfTwo
<1> QED BY <1>2 DEF HeadingLevelOf

LEMMA DocxLevels ==
    ASSUME FlowInv, LevelsOK(blocks), EmitParagraph \/ EmitDocxTable \/ EndDocx
    PROVE  LevelsOK(blocks')
<1>1. LevelsOK(blocks \o Flush("list"))
  BY LevelsFlushed
<1>2. PICK before : before = blocks \o Flush("list")
  OBVIOUS
<1>3. CASE EmitParagraph
  <2>1. /\ phase = "walk" /\ format = "docx" /\ work # <<>> /\ Element.kind = "paragraph"
        /\ blocks' = Append(before, ParagraphBlock)
    BY <1>2, <1>3 DEF EmitParagraph, DocxWalks, Paragraph
  <2>2. Element \in Elements
    <3>1. doc \in Seq(Elements)
      BY <2>1 DEF FlowInv, DocxInv
    <3>2. PICK m \in 0 .. Len(doc) : DocxDone(doc, m, work, held, blocks)
      BY <2>1 DEF FlowInv, DocxInv
    <3>3. work \in Seq(Int) /\ Len(work) = Len(doc) - m /\ \A i \in DOMAIN work : work[i] = m + i
      BY <3>2 DEF DocxDone
    <3>4. Head(work) = work[1] /\ 1 \in DOMAIN work /\ Len(work) >= 1 /\ Len(work) \in Nat
      BY <2>1, <3>3
    <3>5. Head(work) \in 1 .. Len(doc)
      BY <3>1, <3>3, <3>4
    <3> QED BY <3>1, <3>5 DEF Element
  <2>3. PICK level : level = HeadingLevelOf(Element)
    OBVIOUS
  <2>4. level \in 0 .. 6
    BY <2>1, <2>2, <2>3, DocxLevel
  <2>5. ParagraphBlock =
           Block(IF level > 0 THEN "heading" ELSE "prose", level, <<Head(work)>>)
    BY <2>3 DEF ParagraphBlock
  <2>6. LevelOK(ParagraphBlock)
    BY <2>4, <2>5, BlockLevel
  <2> QED BY <1>1, <1>2, <2>1, <2>6, LevelsOn
<1>4. CASE EmitDocxTable
  <2>1. PICK b : b = Block("table", 0, <<Head(work)>>)
    OBVIOUS
  <2>2. blocks' = before \o <<>> \/ blocks' = before \o <<b>>
    BY <1>2, <1>4, <2>1 DEF EmitDocxTable
  <2>3. LevelOK(b)
    BY <2>1, BlockLevel
  <2> QED BY <1>1, <1>2, <2>2, <2>3, LevelsOn, NoLevels
<1>5. CASE EndDocx
  BY <1>1, <1>5 DEF EndDocx
<1> QED BY <1>3, <1>4, <1>5

LEMMA PptxLevels ==
    ASSUME LevelsOK(blocks), OpenSlide \/ RepeatTitle \/ EmitPptxTable \/ EmitFrame \/ EmitNotes
    PROVE  LevelsOK(blocks')
<1>1. CASE OpenSlide
  <2>1. PICK items : blocks' = Append(blocks, Block("heading", 2, items))
    BY <1>1 DEF OpenSlide
  <2>2. LevelOK(Block("heading", 2, items))
    BY BlockLevel
  <2> QED BY <2>1, <2>2, LevelsOn
<1>2. CASE RepeatTitle
  <2>1. PICK b : /\ b = [kind |-> "list", level |-> 0, items |-> <<Spot>>, indents |-> <<0>>]
                 /\ blocks' = Append(blocks, b)
    BY <1>2 DEF RepeatTitle
  <2>2. LevelOK(b)
    BY <2>1 DEF LevelOK
  <2> QED BY <2>1, <2>2, LevelsOn
<1>3. CASE EmitPptxTable
  <2>1. PICK b : b = Block("table", 0, <<Spot>>)
    OBVIOUS
  <2>2. blocks' = blocks \o <<>> \/ blocks' = blocks \o <<b>>
    BY <1>3, <2>1 DEF EmitPptxTable
  <2>3. LevelOK(b)
    BY <2>1, BlockLevel
  <2> QED BY <2>2, <2>3, LevelsOn, NoLevels
<1>4. CASE EmitFrame
  <2>1. PICK b : b = [kind |-> "list", level |-> 0, items |-> <<Spot>>, indents |-> Shape.levels]
    OBVIOUS
  <2>2. blocks' = blocks \o <<>> \/ blocks' = blocks \o <<b>>
    BY <1>4, <2>1 DEF EmitFrame
  <2>3. LevelOK(b)
    BY <2>1 DEF LevelOK
  <2> QED BY <2>2, <2>3, LevelsOn, NoLevels
<1>5. CASE EmitNotes
  <2>1. PICK b : b = Block("notes", 3, <<Spot>>)
    OBVIOUS
  <2>2. blocks' = blocks \o <<>> \/ blocks' = blocks \o <<b>>
    BY <1>5, <2>1 DEF EmitNotes
  <2>3. LevelOK(b)
    BY <2>1, BlockLevel
  <2> QED BY <2>2, <2>3, LevelsOn, NoLevels
<1> QED BY <1>1, <1>2, <1>3, <1>4, <1>5

LEMMA HtmlLevels ==
    ASSUME LevelsOK(blocks), Render
    PROVE  LevelsOK(blocks')
<1>1. PICK tag, says : \/ blocks' = blocks
                       \/ blocks' = Append(blocks, Block(KindOf(tag), IF tag = "h2" THEN 2 ELSE 0,
                                                         says))
  BY DEF Render
<1>2. LevelOK(Block(KindOf(tag), IF tag = "h2" THEN 2 ELSE 0, says))
  <2>1. tag # "h2" => KindOf(tag) # "heading"
    BY DEF KindOf
  <2> QED BY <2>1, BlockLevel
<1> QED BY <1>1, <1>2, LevelsOn

(* What TypeOK says is inductive together with where a walk stands: what   *)
(* the source is is known until it is routed, and only two of the walks    *)
(* hold lines back.                                                        *)
TypeInv ==
    /\ phase \in {"route", "open", "sheet", "root", "walk", "done", "failed"}
    /\ format \in Containers \cup {"text", "none"}
    /\ phase = "route" => doc \in Sources
    /\ LevelsOK(blocks)
    /\ format \notin {"pdf", "docx"} => held = <<>>
    /\ phase = "done" => held = <<>> /\ (format # "pdf" => pages # <<>>)

LEMMA TypeRouted ==
    ASSUME FlowInv, TypeInv, RouteByMediaType \/ RouteByExtension \/ RouteByContent
    PROVE  TypeInv'
<1>1. /\ phase = "route" /\ phase' = "open" /\ UNCHANGED <<held, blocks, pages>>
  BY DEF RouteByMediaType, RouteByExtension, RouteByContent, Route
<1>2. doc \in Sources /\ held = <<>>
  BY <1>1 DEF TypeInv, FlowInv
<1>3. /\ doc.media \in Containers \cup {"text", "none"}
      /\ doc.name \in Containers \cup {"text", "none"}
      /\ doc.magic \in Containers \cup {"none"}
  BY <1>2, FormatsAssumption
<1>4. format' \in Containers \cup {"text", "none"}
  BY <1>3 DEF RouteByMediaType, RouteByExtension, RouteByContent, Route
<1> QED BY <1>1, <1>2, <1>4 DEF TypeInv

LEMMA TypePdf ==
    ASSUME FlowInv, SheetInv, TypeInv, PdfNext
    PROVE  TypeInv'
<1>1. format = "pdf" /\ format' = "pdf" /\ phase' \in {"sheet", "walk", "done"}
  BY DEF PdfNext, FlowInv, OpenPdf, DegradePage, LayOut, EmitTable, EmitHeading, HoldLine,
     EndColumn, EndSheet, EndPdf
<1>2. LevelsOK(blocks')
  <2>1. CASE OpenPdf \/ DegradePage \/ HoldLine \/ EndSheet \/ EndPdf
    BY <2>1 DEF OpenPdf, DegradePage, HoldLine, EndSheet, EndPdf, TypeInv
  <2>2. CASE LayOut
    BY <2>2, NoLevels DEF LayOut, TypeInv
  <2> QED BY <2>1, <2>2, PdfLevels DEF PdfNext, TypeInv
<1>3. phase' = "done" => held' = <<>>
  <2> SUFFICES ASSUME EndPdf PROVE held' = <<>>
    BY DEF PdfNext, OpenPdf, DegradePage, LayOut, EmitTable, EmitHeading, HoldLine, EndColumn,
       EndSheet
  <2> QED BY <1>1 DEF EndPdf, SheetInv
<1> QED BY <1>1, <1>2, <1>3 DEF TypeInv

LEMMA TypeFlow ==
    ASSUME FlowInv, TypeInv, FlowNext
    PROVE  TypeInv'
<1>1. CASE OpenText
  <2>1. LevelOK(Block("text", 0, <<1>>))
    BY BlockLevel
  <2>2. <<>> \in Seq({}) /\ Append(<<>>, Block("text", 0, <<1>>)) = <<Block("text", 0, <<1>>)>>
    OBVIOUS
  <2>3. LevelsOK(blocks')
    BY <1>1, <2>1, <2>2, NoLevels, LevelsOn DEF OpenText, TypeInv
  <2>4. pages' # <<>> /\ phase' = "done" /\ format' = "text" /\ held' = held /\ format = "text"
    BY <1>1 DEF OpenText, EndFlow
  <2> QED BY <2>3, <2>4 DEF TypeInv
<1>2. CASE OpenDocx \/ OpenPptx \/ OpenHtml \/ FindRoot
  BY <1>2 DEF OpenDocx, OpenPptx, OpenHtml, FindRoot, TypeInv
<1>3. CASE SkipParagraph \/ HoldListItem \/ EmitParagraph \/ EmitDocxTable \/ SkipElement
  <2>1. phase = "walk" /\ format = "docx" /\ phase' = phase /\ format' = format
    BY <1>3 DEF SkipParagraph, HoldListItem, EmitParagraph, EmitDocxTable, SkipElement, DocxWalks
  <2>2. LevelsOK(blocks')
    BY <1>3, DocxLevels DEF SkipParagraph, HoldListItem, SkipElement, TypeInv
  <2> QED BY <2>1, <2>2 DEF TypeInv
<1>4. CASE \/ OpenSlide \/ SkipTitle \/ RepeatTitle \/ EmitPptxTable \/ EmitFrame
           \/ SkipShape \/ EmitNotes
  <2>1. phase = "walk" /\ format = "pptx" /\ phase' = phase /\ format' = format /\ held' = held
    BY <1>4 DEF OpenSlide, SkipTitle, RepeatTitle, EmitPptxTable, EmitFrame, SkipShape,
       EmitNotes, IsShape, IsPart, PptxWalks
  <2>2. LevelsOK(blocks')
    BY <1>4, PptxLevels DEF SkipTitle, SkipShape, TypeInv
  <2> QED BY <2>1, <2>2 DEF TypeInv
<1>5. CASE Descend \/ Render
  <2>1. phase = "walk" /\ format = "html" /\ phase' = phase /\ format' = format /\ held' = held
    BY <1>5 DEF Descend, Render, HtmlWalks
  <2>2. LevelsOK(blocks')
    BY <1>5, HtmlLevels DEF Descend, TypeInv
  <2> QED BY <2>1, <2>2 DEF TypeInv
<1>6. CASE EndDocx
  <2>1. /\ format = "docx" /\ format' = format /\ phase' = "done" /\ held' = <<>> /\ pages' # <<>>
    BY <1>6 DEF EndDocx, EndFlow
  <2>2. LevelsOK(blocks')
    BY <1>6, DocxLevels DEF TypeInv
  <2> QED BY <2>1, <2>2 DEF TypeInv
<1>7. CASE EndPptx \/ EndHtml
  <2>1. /\ format \in {"pptx", "html"} /\ format' = format /\ phase' = "done"
        /\ held' = held /\ blocks' = blocks /\ pages' # <<>>
    BY <1>7 DEF EndPptx, EndHtml, EndFlow
  <2> QED BY <2>1 DEF TypeInv
<1> QED BY <1>1, <1>2, <1>3, <1>4, <1>5, <1>6, <1>7 DEF FlowNext

LEMMA TypeInit == Init => TypeInv
<1>1. <<>> \in Seq({}) /\ DOMAIN <<>> = {}
  OBVIOUS
<1> QED BY <1>1 DEF Init, TypeInv, LevelsOK

LEMMA TypeKept == FlowInv /\ SheetInv /\ TypeInv /\ [Next]_vars => TypeInv'
<1> SUFFICES ASSUME FlowInv, SheetInv, TypeInv, [Next]_vars PROVE TypeInv'
  OBVIOUS
<1>1. CASE Reject
  BY <1>1 DEF Reject, TypeInv
<1>2. CASE OpenFails
  BY <1>2 DEF OpenFails, TypeInv
<1>3. CASE Finished \/ UNCHANGED vars
  BY <1>3 DEF Finished, vars, TypeInv
<1> QED BY <1>1, <1>2, <1>3, TypeRouted, TypePdf, TypeFlow DEF Next

(* Every variable keeps to its values, for any documents: no heading of    *)
(* any format is deeper than six or has no level ("####" is the deepest of *)
(* a PDF, and Word's levels are clamped), and no line is held back when    *)
(* the last page is made.                                                  *)
THEOREM PathsTypeCorrect == Spec => []TypeOK
<1> DEFINE Inv == PagesInv /\ FlowInv /\ SheetInv /\ TypeInv
<1>1. Init => Inv
  <2>1. Init => SheetInv
    BY DEF Init, SheetInv
  <2> QED BY <2>1, PagesInit, FlowInit, TypeInit
<1>2. Inv /\ [Next]_vars => Inv'
  BY PagesStep, FlowKeepsItsWord, SheetsKept, TypeKept
<1>3. Inv => TypeOK
  BY DEF TypeInv, TypeOK, LevelsOK, LevelOK
<1> QED BY <1>1, <1>2, <1>3, PTL DEF Spec

-----------------------------------------------------------------------------
(* The spans of the words of a page, and its bands.                        *)

(* A word is left or right of the gap after a span.                        *)
LeftOf(spans, k, w) == w.x1 <= spans[k].x1
RightOf(spans, k, w) == spans[k + 1].x0 <= w.x0

(* Spans stand one after the other, and no word lies across a gap.         *)
Spanning(ws, spans, n) ==
    /\ n \in Nat \ {0} /\ Len(spans) = n
    /\ \A k \in 1 .. n : spans[k].x0 \in Int /\ spans[k].x1 \in Int
    /\ \A k \in 1 .. n - 1 : spans[k].x1 < spans[k + 1].x0
    /\ \A j, k \in 1 .. n : j <= k => spans[j].x0 <= spans[k].x0
    /\ \A w \in ws : spans[1].x0 <= w.x0 /\ w.x1 <= spans[n].x1
    /\ \A w \in ws : \A k \in 1 .. n - 1 : LeftOf(spans, k, w) \/ RightOf(spans, k, w)

LEMMA SpansAre ==
    ASSUME NEW ws, IsFiniteSet(ws), ws \subseteq Placed, ws # {}
    PROVE  Spanning(ws, MergedSpans(ws), Cardinality(Starts(ws)))
<1> DEFINE S == Starts(ws)
           n == Cardinality(S)
           a == Ascending(S)
           spans == MergedSpans(ws)
           Group(k) == {v \in ws : /\ a[k] <= v.x0
                                   /\ k < Len(a) => v.x0 < a[k + 1]}
<1>0. \A w \in ws : w \in Word /\ w.x0 \in Int /\ w.x1 \in Int /\ w.x0 <= w.x1
  BY DEF Placed, Word
<1>1. IsFiniteSet(S) /\ S \in SUBSET Int /\ n \in Nat /\ Len(spans) = n
      /\ DOMAIN spans = 1 .. n
  <2>1. ws \subseteq Word
    BY <1>0
  <2> QED BY <2>1, SpansListed
<1>2. S = {w.x0 : w \in {v \in ws : \A u \in ws : u.x0 < v.x0 => u.x1 + 1 < v.x0}}
  BY DEF Starts
<1> HIDE DEF S
<1>3. /\ a \in [1 .. n -> S]
      /\ \A i \in S : \E k \in 1 .. n : a[k] = i
      /\ \A j, k \in 1 .. n : j < k => a[j] < a[k]
  BY <1>1, AscendingLists
<1>4. Len(a) = n /\ DOMAIN a = 1 .. n
  <2> HIDE DEF a, n
  <2> QED BY ONLY <1>1, <1>3, ListOf
<1>18. \A k : \A v \in Group(k) : v \in ws /\ (k < Len(a) => v.x0 < a[k + 1])
  OBVIOUS
<1> DEFINE Far(k) == Max({w.x1 : w \in Group(k)})
<1>5. spans = [k \in DOMAIN a |-> [x0 |-> a[k], x1 |-> Far(k)]]
  <2>1. spans = [k \in DOMAIN a |->
                    [x0 |-> a[k],
                     x1 |-> Max({w.x1 : w \in {v \in ws : /\ a[k] <= v.x0
                                                          /\ k < Len(a) => v.x0 < a[k + 1]}})]]
    BY DEF MergedSpans, S
  <2>2. \A k : Far(k) = Max({w.x1 : w \in {v \in ws : /\ a[k] <= v.x0
                                                      /\ k < Len(a) => v.x0 < a[k + 1]}})
    OBVIOUS
  <2>3. \A k \in DOMAIN a : spans[k] = [x0 |-> a[k], x1 |-> Far(k)]
    BY <2>1
  <2> HIDE DEF Far, a
  <2> QED BY <2>1, <2>2
<1> HIDE DEF a, spans
<1>6. \A k \in 1 .. n : spans[k].x0 = a[k] /\ spans[k].x1 = Far(k)
  <2> HIDE DEF Far
  <2> QED BY <1>4, <1>5
<1>7. \A k \in 1 .. n : a[k] \in Int /\ a[k] \in S
  BY <1>1, <1>3
<1>8. \A k \in 1 .. n : /\ \E w \in ws : w.x0 = a[k]
                        /\ \A u \in ws : u.x0 < a[k] => u.x1 + 1 < a[k]
  BY <1>2, <1>7
<1>9. n # 0 /\ \A w \in ws : a[1] <= w.x0
  <2> DEFINE f == [w \in ws |-> w.x0]
  <2>1. IsFiniteSet({f[w] : w \in ws})
    <3> HIDE DEF f
    <3> QED BY ImageFinite
  <2>2. {f[w] : w \in ws} = {w.x0 : w \in ws}
    OBVIOUS
  <2>3. {w.x0 : w \in ws} \subseteq Int /\ {w.x0 : w \in ws} # {}
    BY <1>0
  <2>4. PICK m \in {w.x0 : w \in ws} : \A i \in {w.x0 : w \in ws} : m <= i
    BY <2>1, <2>2, <2>3, Ends
  <2>5. PICK v \in ws : v.x0 = m
    BY <2>4
  <2>6. m \in S
    BY <1>0, <1>2, <2>4, <2>5
  <2>7. PICK k \in 1 .. n : a[k] = m
    BY <1>3, <2>6
  <2>8. 1 \in 1 .. n /\ n # 0 /\ (k = 1 \/ 1 < k)
    BY <1>1, <2>7
  <2>9. a[1] <= m
    BY <1>3, <1>7, <2>7, <2>8
  <2> QED BY <1>0, <1>7, <2>4, <2>8, <2>9
<1>10. ASSUME NEW k \in 1 .. n
       PROVE  /\ spans[k].x1 \in Int /\ a[k] <= spans[k].x1
              /\ \A w \in Group(k) : w.x1 <= spans[k].x1
              /\ \E w \in Group(k) : w.x1 = spans[k].x1
  <2> DEFINE f == [w \in Group(k) |-> w.x1]
             X == {w.x1 : w \in Group(k)}
  <2>1. Group(k) \subseteq ws
    OBVIOUS
  <2>2. IsFiniteSet(Group(k))
    BY <2>1, FS_Subset
  <2>3. IsFiniteSet({f[w] : w \in Group(k)})
    <3> HIDE DEF f, Group
    <3> QED BY <2>2, ImageFinite
  <2>4. {f[w] : w \in Group(k)} = X
    OBVIOUS
  <2>5. PICK v \in ws : v.x0 = a[k]
    BY <1>8
  <2>6. v \in Group(k)
    <3>1. k < n => k + 1 \in 1 .. n /\ k < k + 1
      BY <1>1
    <3> QED BY <1>3, <1>4, <1>7, <2>5, <3>1
  <2>7. X \subseteq Int /\ X # {} /\ v.x1 \in X
    BY <1>0, <2>1, <2>6
  <2>8. Max(X) \in X /\ \A i \in X : i <= Max(X)
    BY <2>3, <2>4, <2>7, Ends
  <2>9. spans[k].x1 = Max(X)
    BY <1>6
  <2>10. \A w \in Group(k) : w.x1 \in X
    OBVIOUS
  <2>11. \A x \in X : \E w \in Group(k) : w.x1 = x
    OBVIOUS
  <2>12. a[k] <= v.x1 /\ v.x1 <= Max(X) /\ a[k] \in Int /\ v.x1 \in Int /\ Max(X) \in Int
    BY <1>0, <1>7, <2>5, <2>7, <2>8
  <2> HIDE DEF X, Group
  <2> QED BY <2>8, <2>9, <2>10, <2>11, <2>12
<1>11. ASSUME NEW k \in 1 .. n - 1 PROVE spans[k].x1 < spans[k + 1].x0
  <2>1. k \in 1 .. n /\ k + 1 \in 1 .. n /\ k < n
    BY <1>1
  <2>2. PICK w \in Group(k) : w.x1 = spans[k].x1
    BY <1>10, <2>1
  <2>3. w \in ws /\ w.x0 < a[k + 1]
    <3>1. k < Len(a)
      BY ONLY <1>4, <2>1
    <3> HIDE DEF Group
    <3> QED BY <1>18, <2>2, <3>1
  <2>4. w.x1 + 1 < a[k + 1] /\ a[k + 1] \in Int /\ w.x1 \in Int
    BY <1>0, <1>7, <1>8, <2>1, <2>3
  <2>5. spans[k + 1].x0 = a[k + 1]
    BY <1>6, <2>1
  <2> QED BY <2>2, <2>4, <2>5
<1>12. \A j, k \in 1 .. n : j <= k => spans[j].x0 <= spans[k].x0
  <2> SUFFICES ASSUME NEW j \in 1 .. n, NEW k \in 1 .. n, j <= k PROVE a[j] <= a[k]
    BY <1>6
  <2>1. j = k \/ j < k
    BY <1>1
  <2> QED BY <1>3, <1>7, <2>1
<1>13. ASSUME NEW w \in ws, NEW k \in 1 .. n, k < n => w.x0 < a[k + 1]
       PROVE  w.x1 <= spans[k].x1
  <2>1. CASE a[k] <= w.x0
    <3>1. w \in Group(k)
      BY <1>4, <1>13, <2>1
    <3> QED BY <1>10, <3>1
  <2>2. CASE ~(a[k] <= w.x0)
    <3>1. w.x0 < a[k]
      BY <1>0, <1>7, <2>2
    <3>2. w.x1 + 1 < a[k] /\ a[k] <= spans[k].x1 /\ spans[k].x1 \in Int
      BY <1>8, <1>10, <3>1
    <3> QED BY <1>0, <1>7, <3>2
  <2> QED BY <2>1, <2>2
<1>14. ASSUME NEW w \in ws PROVE spans[1].x0 <= w.x0 /\ w.x1 <= spans[n].x1
  <2>1. 1 \in 1 .. n /\ n \in 1 .. n /\ ~(n < n)
    BY <1>1, <1>9
  <2> QED BY <1>6, <1>9, <1>13, <2>1
<1>15. ASSUME NEW w \in ws, NEW k \in 1 .. n - 1
       PROVE  LeftOf(spans, k, w) \/ RightOf(spans, k, w)
  <2>1. k \in 1 .. n /\ k + 1 \in 1 .. n
    BY <1>1
  <2>2. w.x0 < a[k + 1] \/ a[k + 1] <= w.x0
    BY <1>0, <1>7, <2>1
  <2> QED BY <1>6, <1>13, <2>1, <2>2 DEF LeftOf, RightOf
<1>16. \A k \in 1 .. n : spans[k].x0 \in Int /\ spans[k].x1 \in Int
  BY <1>6, <1>7, <1>10
<1>17. n \in Nat \ {0} /\ Len(spans) = n
  BY <1>1, <1>9 DEF spans
<1> QED BY <1>11, <1>12, <1>14, <1>15, <1>16, <1>17 DEF Spanning, S, spans

(* A word is on the sides of the gutters where the words of a band are.    *)
Side(spans, gaps, k, w) ==
    /\ k > 1 => RightOf(spans, gaps[k - 1], w)
    /\ k <= Len(gaps) => LeftOf(spans, gaps[k], w)

(* Gutters, from left to right.                                            *)
Gutters(spans, n, gaps) ==
    /\ Len(gaps) \in Nat
    /\ \A k \in 1 .. Len(gaps) : gaps[k] \in 1 .. n - 1
    /\ \A j, k \in 1 .. Len(gaps) : j < k => gaps[j] < gaps[k]

LEMMA OneSide ==
    ASSUME NEW ws, ws \subseteq Placed, NEW spans, NEW n, Spanning(ws, spans, n),
           NEW g \in 1 .. n - 1, NEW w \in ws
    PROVE  /\ LeftOf(spans, g, w) <=> ~RightOf(spans, g, w)
           /\ LeftOf(spans, g, w) <=> w.x0 + w.x1 <= Split(spans, g)
           /\ RightOf(spans, g, w) <=> w.x0 + w.x1 >= Split(spans, g)
<1>1. w.x0 \in Int /\ w.x1 \in Int /\ w.x0 <= w.x1
  BY DEF Placed, Word
<1>2. g \in 1 .. n /\ g + 1 \in 1 .. n
  BY DEF Spanning
<1>3. PICK a, b : a = spans[g].x1 /\ b = spans[g + 1].x0
  OBVIOUS
<1>4. a \in Int /\ b \in Int /\ a < b
  BY <1>2, <1>3 DEF Spanning
<1>5. w.x1 <= a \/ b <= w.x0
  BY <1>3 DEF Spanning, LeftOf, RightOf
<1>6. /\ LeftOf(spans, g, w) <=> w.x1 <= a
      /\ RightOf(spans, g, w) <=> b <= w.x0
      /\ Split(spans, g) = a + b
  BY <1>3 DEF LeftOf, RightOf, Split
<1> QED BY ONLY <1>1, <1>4, <1>5, <1>6

(* Right of a gap is right of the ones before it.                          *)
LEMMA SideHolds ==
    ASSUME NEW ws, ws \subseteq Placed, NEW spans, NEW n, Spanning(ws, spans, n),
           NEW g \in 1 .. n - 1, NEW h \in 1 .. n - 1, g <= h, NEW w \in ws
    PROVE  /\ RightOf(spans, h, w) => RightOf(spans, g, w)
           /\ LeftOf(spans, g, w) => LeftOf(spans, h, w)
<1>1. RightOf(spans, h, w) => RightOf(spans, g, w)
  <2>1. g + 1 \in 1 .. n /\ h + 1 \in 1 .. n /\ g + 1 <= h + 1
    BY DEF Spanning
  <2>2. spans[g + 1].x0 <= spans[h + 1].x0 /\ spans[g + 1].x0 \in Int /\ spans[h + 1].x0 \in Int
    BY <2>1 DEF Spanning
  <2>3. w.x0 \in Int
    BY DEF Placed, Word
  <2> QED BY <2>2, <2>3 DEF RightOf
<1> QED BY <1>1, OneSide

LEMMA SidesAre ==
    ASSUME NEW ws, ws \subseteq Placed, NEW spans, NEW n, Spanning(ws, spans, n),
           NEW gaps, Gutters(spans, n, gaps)
    PROVE  /\ \A w \in ws : \E k \in 1 .. Len(gaps) + 1 : Side(spans, gaps, k, w)
           /\ \A v, w \in ws : \A k, l \in 1 .. Len(gaps) + 1 :
                 Side(spans, gaps, k, v) /\ Side(spans, gaps, l, w) =>
                    /\ k < l => /\ k \in 1 .. Len(gaps)
                                /\ LeftOf(spans, gaps[k], v) /\ RightOf(spans, gaps[k], w)
                    /\ k <= l => ~\E j \in 1 .. Len(gaps) :
                                    LeftOf(spans, gaps[j], w) /\ RightOf(spans, gaps[j], v)
<1> DEFINE m == Len(gaps)
<1>1. /\ m \in Nat /\ \A k \in 1 .. m : gaps[k] \in 1 .. n - 1
      /\ \A j, k \in 1 .. m : j <= k => gaps[j] <= gaps[k]
  <2>1. /\ m \in Nat /\ \A k \in 1 .. m : gaps[k] \in 1 .. n - 1
        /\ \A j, k \in 1 .. m : j < k => gaps[j] < gaps[k]
    BY DEF Gutters
  <2> SUFFICES ASSUME NEW j \in 1 .. m, NEW k \in 1 .. m, j <= k PROVE gaps[j] <= gaps[k]
    BY <2>1
  <2>2. j = k \/ j < k
    BY <2>1
  <2>3. gaps[j] \in Int /\ gaps[k] \in Int
    BY <2>1
  <2> QED BY <2>1, <2>2, <2>3
<1> HIDE DEF m
<1>2. ASSUME NEW w \in ws, NEW j \in 1 .. m, NEW k \in 1 .. m, j <= k
      PROVE  /\ RightOf(spans, gaps[k], w) => RightOf(spans, gaps[j], w)
             /\ LeftOf(spans, gaps[j], w) => LeftOf(spans, gaps[k], w)
  BY <1>1, <1>2, SideHolds
<1>3. ASSUME NEW w \in ws, NEW j \in 1 .. m
      PROVE  LeftOf(spans, gaps[j], w) <=> ~RightOf(spans, gaps[j], w)
  BY <1>1, OneSide
<1>4. ASSUME NEW w \in ws PROVE \E k \in 1 .. m + 1 : Side(spans, gaps, k, w)
  <2> DEFINE S == {k \in 1 .. m : LeftOf(spans, gaps[k], w)}
  <2>1. CASE S = {}
    <3>1. m + 1 \in 1 .. m + 1 /\ ~(m + 1 <= m) /\ (m + 1 > 1 => m + 1 - 1 \in 1 .. m)
      BY <1>1
    <3>2. m + 1 > 1 => RightOf(spans, gaps[m + 1 - 1], w)
      BY <1>3, <2>1, <3>1
    <3> QED BY <3>1, <3>2 DEF Side, m
  <2>2. CASE S # {}
    <3>1. S \in SUBSET (1 .. m)
      OBVIOUS
    <3>2. PICK k \in S : \A j \in 1 .. k - 1 : j \notin S
      <4> HIDE DEF S
      <4> QED BY <1>1, <2>2, <3>1, LeastFailure
    <3>3. k \in 1 .. m + 1 /\ k \in 1 .. m
      BY <1>1, <3>2
    <3>4. k > 1 => RightOf(spans, gaps[k - 1], w)
      <4>1. ASSUME k > 1 PROVE k - 1 \in 1 .. m /\ k - 1 \in 1 .. k - 1
        BY <1>1, <3>3, <4>1
      <4> QED BY <1>3, <3>2, <4>1
    <3> QED BY <3>2, <3>3, <3>4 DEF Side
  <2> QED BY <2>1, <2>2
<1>5. ASSUME NEW v \in ws, NEW w \in ws, NEW k \in 1 .. m + 1, NEW l \in 1 .. m + 1,
             Side(spans, gaps, k, v), Side(spans, gaps, l, w), k < l
      PROVE  k \in 1 .. m /\ LeftOf(spans, gaps[k], v) /\ RightOf(spans, gaps[k], w)
  <2>1. k \in 1 .. m /\ l - 1 \in 1 .. m /\ k <= l - 1 /\ l > 1
    BY <1>1, <1>5
  <2>2. LeftOf(spans, gaps[k], v) /\ RightOf(spans, gaps[l - 1], w)
    BY <1>5, <2>1 DEF Side, m
  <2> QED BY <1>2, <2>1, <2>2
<1>6. ASSUME NEW v \in ws, NEW w \in ws, NEW k \in 1 .. m + 1, NEW l \in 1 .. m + 1,
             Side(spans, gaps, k, v), Side(spans, gaps, l, w), k <= l, NEW j \in 1 .. m
      PROVE  ~(LeftOf(spans, gaps[j], w) /\ RightOf(spans, gaps[j], v))
  <2>1. CASE j < l
    <3>1. l - 1 \in 1 .. m /\ l > 1 /\ j <= l - 1
      BY <1>1, <2>1
    <3>2. RightOf(spans, gaps[l - 1], w)
      BY <1>6, <3>1 DEF Side
    <3> QED BY <1>2, <1>3, <3>1, <3>2
  <2>2. CASE ~(j < l)
    <3>1. k \in 1 .. m /\ k <= j
      BY <1>1, <1>6, <2>2
    <3>2. LeftOf(spans, gaps[k], v)
      BY <1>6, <3>1 DEF Side, m
    <3> QED BY <1>2, <1>3, <3>1, <3>2
  <2> QED BY <2>1, <2>2
<1> QED BY <1>4, <1>5, <1>6 DEF m

(* A band has the words that are on its side of each gutter.               *)
LEMMA BandIs ==
    ASSUME NEW ws, ws \subseteq Placed, NEW spans, NEW n, Spanning(ws, spans, n),
           NEW gaps, Gutters(spans, n, gaps), NEW k \in 1 .. Len(gaps) + 1, NEW w \in ws
    PROVE  InBand(w.x0 + w.x1, BandsOf(spans, gaps)[k]) <=> Side(spans, gaps, k, w)
<1> DEFINE m == Len(gaps)
           centre == w.x0 + w.x1
           from == IF k = 1 THEN 2 * spans[1].x0 ELSE Split(spans, gaps[k - 1])
           to == IF k > m THEN 2 * Last(spans).x1 ELSE Split(spans, gaps[k])
<1>1. BandsOf(spans, gaps)[k] = [from |-> from, to |-> to]
  BY DEF BandsOf
<1>2. InBand(centre, BandsOf(spans, gaps)[k]) <=> from <= centre /\ centre <= to
  <2> HIDE DEF from, to
  <2> QED BY <1>1 DEF InBand
<1>3. m \in Nat /\ \A j \in 1 .. m : gaps[j] \in 1 .. n - 1
  BY DEF Gutters
<1>4. w.x0 \in Int /\ w.x1 \in Int /\ w.x0 <= w.x1
  BY DEF Placed, Word
<1>5. n \in Nat /\ Last(spans) = spans[n] /\ spans[1].x0 <= w.x0 /\ w.x1 <= spans[n].x1
      /\ spans[1].x0 \in Int /\ spans[n].x1 \in Int
  <2>1. n \in 1 .. n /\ 1 \in 1 .. n
    BY DEF Spanning
  <2> QED BY <2>1 DEF Spanning, Last
<1>6. from <= centre <=> (k > 1 => RightOf(spans, gaps[k - 1], w))
  <2>1. CASE k = 1
    <3>1. from = 2 * spans[1].x0
      BY <2>1
    <3>2. from <= centre
      BY <1>4, <1>5, <3>1
    <3> QED BY <2>1, <3>2
  <2>2. CASE k # 1
    <3>1. k > 1 /\ k - 1 \in 1 .. m
      BY <1>3, <2>2
    <3>2. gaps[k - 1] \in 1 .. n - 1 /\ from = Split(spans, gaps[k - 1])
      BY <1>3, <2>2, <3>1
    <3>3. RightOf(spans, gaps[k - 1], w) <=> centre >= Split(spans, gaps[k - 1])
      BY <3>2, OneSide
    <3>4. Split(spans, gaps[k - 1]) \in Int
      <4>1. gaps[k - 1] \in 1 .. n /\ gaps[k - 1] + 1 \in 1 .. n
        BY <1>5, <3>2
      <4> QED BY <4>1 DEF Split, Spanning
    <3> QED BY <1>4, <3>1, <3>2, <3>3, <3>4
  <2> QED BY <2>1, <2>2
<1>7. centre <= to <=> (k <= m => LeftOf(spans, gaps[k], w))
  <2>1. CASE k > m
    <3>1. to = 2 * spans[n].x1
      BY <1>5, <2>1
    <3>2. centre <= to
      BY <1>4, <1>5, <3>1
    <3> QED BY <1>3, <2>1, <3>2
  <2>2. CASE ~(k > m)
    <3>1. k <= m /\ k \in 1 .. m
      BY <1>3, <2>2
    <3>2. gaps[k] \in 1 .. n - 1 /\ to = Split(spans, gaps[k])
      BY <1>3, <2>2, <3>1
    <3>3. LeftOf(spans, gaps[k], w) <=> centre <= Split(spans, gaps[k])
      BY <3>2, OneSide
    <3> QED BY <3>1, <3>2, <3>3
  <2> QED BY <2>1, <2>2
<1> QED BY <1>2, <1>6, <1>7 DEF Side

(* Every word of a page is in a band; between words of two bands there is  *)
(* a gutter.                                                               *)
LEMMA BandsAre ==
    ASSUME NEW ws, IsSheet(ws), ws # <<>>
    PROVE  LET bands == ColumnBands(ws)
           IN  /\ \A w \in ToSet(ws) : \E k \in DOMAIN bands : InBand(w.x0 + w.x1, bands[k])
               /\ \A v, w \in ToSet(ws) : \A k, l \in DOMAIN bands :
                     InBand(v.x0 + v.x1, bands[k]) /\ InBand(w.x0 + w.x1, bands[l]) =>
                        /\ k < l => Between(ws, v, w)
                        /\ k <= l => ~Between(ws, w, v)
<1> DEFINE W == ToSet(ws)
           spans == MergedSpans(W)
           n == Cardinality(Starts(W))
           gaps == Separators(W, spans)
           bands == ColumnBands(ws)
<1>1. IsFiniteSet(W) /\ W \subseteq Placed /\ W # {}
  <2>1. ws \in Seq(Placed)
    BY DEF IsSheet
  <2>2. IsFiniteSet(W) /\ W \subseteq Placed
    BY <2>1, ListFinite
  <2>3. 1 \in DOMAIN ws
    BY <2>1
  <2>4. ws[1] \in W
    BY <2>3 DEF ToSet
  <2> QED BY <2>2, <2>4
<1>2. bands = BandsOf(spans, gaps)
  BY DEF ColumnBands
<1>3. \A v, w : Between(ws, v, w) <=>
         \E k \in 1 .. Len(spans) - 1 :
             IsGutter(W, spans, k) /\ LeftOf(spans, k, v) /\ RightOf(spans, k, w)
  BY DEF Between, IsGutter, LeftOf, RightOf
<1> HIDE DEF W
<1>4. Spanning(W, spans, n)
  BY <1>1, SpansAre
<1> HIDE DEF spans, n
<1>5. n \in Nat \ {0} /\ Len(spans) = n
  BY <1>4 DEF Spanning
<1>6. /\ Len(gaps) \in Nat
      /\ \A k \in 1 .. Len(gaps) : gaps[k] \in 1 .. n - 1 /\ IsGutter(W, spans, gaps[k])
      /\ \A i \in 1 .. n - 1 : IsGutter(W, spans, i) => \E k \in 1 .. Len(gaps) : gaps[k] = i
      /\ \A j, k \in 1 .. Len(gaps) : j < k => gaps[j] < gaps[k]
  BY <1>5, GapsListed
<1>7. DOMAIN bands = 1 .. Len(gaps) + 1
  BY <1>2 DEF BandsOf
<1> HIDE DEF gaps, bands
<1>8. Gutters(spans, n, gaps)
  BY <1>6 DEF Gutters
<1>9. \A v, w : Between(ws, v, w) <=>
         \E k \in 1 .. Len(gaps) : LeftOf(spans, gaps[k], v) /\ RightOf(spans, gaps[k], w)
  BY <1>3, <1>5, <1>6
<1>10. \A w \in W : \A k \in DOMAIN bands :
          InBand(w.x0 + w.x1, bands[k]) <=> Side(spans, gaps, k, w)
  BY <1>1, <1>2, <1>4, <1>7, <1>8, BandIs
<1>11. /\ \A w \in W : \E k \in DOMAIN bands : Side(spans, gaps, k, w)
       /\ \A v, w \in W : \A k, l \in DOMAIN bands :
             Side(spans, gaps, k, v) /\ Side(spans, gaps, l, w) =>
                /\ k < l => /\ k \in 1 .. Len(gaps)
                            /\ LeftOf(spans, gaps[k], v) /\ RightOf(spans, gaps[k], w)
                /\ k <= l => ~\E j \in 1 .. Len(gaps) :
                                LeftOf(spans, gaps[j], w) /\ RightOf(spans, gaps[j], v)
  BY <1>1, <1>4, <1>7, <1>8, SidesAre
<1>12. ASSUME NEW v \in W, NEW w \in W, NEW k \in DOMAIN bands, NEW l \in DOMAIN bands,
              Side(spans, gaps, k, v), Side(spans, gaps, l, w)
       PROVE  /\ k < l => Between(ws, v, w)
              /\ k <= l => ~Between(ws, w, v)
  BY <1>9, <1>11, <1>12
<1>13. \A w \in W : \E k \in DOMAIN bands : InBand(w.x0 + w.x1, bands[k])
  BY <1>10, <1>11
<1>14. \A v, w \in W : \A k, l \in DOMAIN bands :
          InBand(v.x0 + v.x1, bands[k]) /\ InBand(w.x0 + w.x1, bands[l]) =>
             /\ k < l => Between(ws, v, w)
             /\ k <= l => ~Between(ws, w, v)
  BY <1>10, <1>12
<1> QED BY <1>13, <1>14 DEF W, bands

-----------------------------------------------------------------------------
(* The first word of the line a word is on.                                *)

(* A function that finds it, up to a place.                                *)
Anchoring(ws, f, m) ==
    \A k \in 1 .. m :
        f[k] = IF k = 1 THEN 1
               ELSE IF IsNear(ws[k], ws[f[k - 1]].top) THEN f[k - 1] ELSE k

LEMMA AnchoringExists ==
    ASSUME NEW ws \in Seq(Word)
    PROVE  \E f \in [1 .. Len(ws) -> 1 .. Len(ws)] : Anchoring(ws, f, Len(ws))
<1> DEFINE n == Len(ws)
           P == {m \in 1 .. n : ~\E f \in [1 .. m -> 1 .. n] : Anchoring(ws, f, m)}
<1>1. n \in Nat
  OBVIOUS
<1>2. ASSUME P # {} PROVE FALSE
  <2>1. P \in SUBSET (1 .. n)
    OBVIOUS
  <2>2. PICK m \in P : \A k \in 1 .. m - 1 : k \notin P
    <3> HIDE DEF P
    <3> QED BY <1>1, <1>2, <2>1, LeastFailure
  <2>3. m \in 1 .. n
    OBVIOUS
  <2>4. CASE m = 1
    <3> DEFINE g == [k \in 1 .. 1 |-> 1]
    <3>1. g \in [1 .. m -> 1 .. n] /\ Anchoring(ws, g, m)
      BY <1>1, <2>3, <2>4 DEF Anchoring
    <3> QED BY <3>1
  <2>5. CASE m # 1
    <3>1. m - 1 \in 1 .. n /\ m - 1 \in 1 .. m - 1
      BY <1>1, <2>3, <2>5
    <3>2. PICK f \in [1 .. m - 1 -> 1 .. n] : Anchoring(ws, f, m - 1)
      BY <2>2, <3>1
    <3>3. PICK a \in 1 .. n :
             a = IF IsNear(ws[m], ws[f[m - 1]].top) THEN f[m - 1] ELSE m
      BY <2>3, <3>1, <3>2
    <3> DEFINE g == [k \in 1 .. m |-> IF k = m THEN a ELSE f[k]]
    <3>4. g \in [1 .. m -> 1 .. n]
      BY <1>1, <2>3, <3>2, <3>3
    <3>5. \A k \in 1 .. m : IF k = m THEN g[k] = a ELSE g[k] = f[k]
      OBVIOUS
    <3> HIDE DEF g
    <3>6. ASSUME NEW k \in 1 .. m
          PROVE  g[k] = IF k = 1 THEN 1
                        ELSE IF IsNear(ws[k], ws[g[k - 1]].top) THEN g[k - 1] ELSE k
      <4>1. CASE k = m
        <5>1. g[m] = a /\ g[m - 1] = f[m - 1]
          <6>1. m \in 1 .. m /\ m - 1 \in 1 .. m /\ m - 1 # m
            BY <2>3, <3>1
          <6> QED BY <3>5, <6>1
        <5> QED BY <2>5, <3>3, <4>1, <5>1
      <4>2. CASE k # m
        <5>1. k \in 1 .. m - 1 /\ (k # 1 => k - 1 \in 1 .. m /\ k - 1 # m)
          BY <2>3, <4>2
        <5>2. g[k] = f[k] /\ (k # 1 => g[k - 1] = f[k - 1])
          BY <3>5, <4>2, <5>1
        <5> QED BY <3>2, <5>1, <5>2 DEF Anchoring
      <4> QED BY <4>1, <4>2
    <3>7. Anchoring(ws, g, m)
      BY <3>6 DEF Anchoring
    <3> QED BY <3>4, <3>7
  <2> QED BY <2>4, <2>5
<1>3. CASE n = 0
  <2> DEFINE g == [k \in 1 .. 0 |-> k]
  <2>1. g \in [1 .. n -> 1 .. n] /\ Anchoring(ws, g, n)
    BY <1>3 DEF Anchoring
  <2> QED BY <2>1
<1>4. CASE n # 0
  <2>1. n \in 1 .. n
    BY <1>1, <1>4
  <2> QED BY <1>2, <2>1
<1> QED BY <1>3, <1>4

LEMMA AnchorsAre ==
    ASSUME NEW ws \in Seq(Word)
    PROVE  Anchors(ws) \in [1 .. Len(ws) -> 1 .. Len(ws)] /\ Anchoring(ws, Anchors(ws), Len(ws))
<1> DEFINE n == Len(ws)
           P(f) == f = [k \in DOMAIN ws |->
                           IF k = 1 THEN 1
                           ELSE IF IsNear(ws[k], ws[f[k - 1]].top) THEN f[k - 1] ELSE k]
<1>1. PICK f \in [1 .. n -> 1 .. n] : Anchoring(ws, f, n)
  BY AnchoringExists
<1>2. DOMAIN ws = 1 .. n
  OBVIOUS
<1>3. P(f)
  BY <1>1, <1>2 DEF Anchoring
<1>4. Anchors(ws) = CHOOSE g : P(g)
  BY DEF Anchors
<1>5. \E g : P(g)
  <2> HIDE DEF P
  <2> QED BY <1>3
<1>6. P(Anchors(ws))
  <2> HIDE DEF P
  <2> QED BY <1>4, <1>5
<1>7. PICK g : g = Anchors(ws)
  OBVIOUS
<1>8. P(g)
  BY <1>6, <1>7
<1>9. Anchoring(ws, g, n)
  BY <1>2, <1>8 DEF Anchoring
<1>10. DOMAIN g = 1 .. n
  BY <1>2, <1>8
<1>11. \A k \in 1 .. n : g[k] \in 1 .. n
  <2> DEFINE F == {k \in 1 .. n : g[k] \notin 1 .. n}
  <2>1. ASSUME F # {} PROVE FALSE
    <3>1. F \in SUBSET (1 .. n) /\ n \in Nat
      OBVIOUS
    <3>2. PICK k \in F : \A j \in 1 .. k - 1 : j \notin F
      <4> HIDE DEF F
      <4> QED BY <2>1, <3>1, LeastFailure
    <3>3. k \in 1 .. n /\ g[k] \notin 1 .. n
      OBVIOUS
    <3>4. k # 1 => k - 1 \in 1 .. n /\ g[k - 1] \in 1 .. n
      <4>1. ASSUME k # 1 PROVE k - 1 \in 1 .. n /\ k - 1 \in 1 .. k - 1
        BY <3>1, <3>3, <4>1
      <4> QED BY <3>2, <4>1
    <3>5. g[k] = 1 \/ g[k] = k \/ (k # 1 /\ g[k] = g[k - 1])
      BY <1>9, <3>3 DEF Anchoring
    <3> QED BY <3>1, <3>3, <3>4, <3>5
  <2> QED BY <2>1
<1>12. g = [k \in 1 .. n |-> g[k]]
  BY <1>2, <1>8
<1>13. g \in [1 .. n -> 1 .. n]
  BY <1>11, <1>12
<1> QED BY <1>7, <1>9, <1>13

(* Words that are not the same, the first no more than a line's tolerance  *)
(* below the second; and words of which the first is above the second.     *)
Nearly == {p \in Word \X Word : p[1] # p[2] /\ IsNear(p[1], p[2].top)}
Above == {p \in Word \X Word : p[1].top < p[2].top}

LEMMA AboveNearly ==
    ASSUME NEW v, NEW w, <<v, w>> \in Above
    PROVE  <<v, w>> \in Nearly
<1>1. v \in Word /\ w \in Word /\ v.top < w.top
  BY DEF Above
<1>2. v.top \in Int /\ w.top \in Int
  BY <1>1 DEF Word
<1>3. v # w /\ IsNear(v, w.top)
  BY <1>1, <1>2 DEF IsNear
<1> QED BY <1>1, <1>3 DEF Nearly

LEMMA DownIs ==
    ASSUME NEW ws \in Seq(Placed), Pairwise(ws, Down)
    PROVE  /\ \A i \in DOMAIN ws : ws[i].top \in Int /\ ws[i] \in Word
           /\ \A i, j \in DOMAIN ws : i <= j => ws[i].top <= ws[j].top
           /\ \A i, j \in DOMAIN ws : i # j => ws[i] # ws[j]
           /\ \A i, j \in DOMAIN ws : ws[i].top = ws[j].top => ws[i].height = ws[j].height
           /\ \A i \in DOMAIN ws : ws[i].height \in Nat
<1>1. DOMAIN ws = 1 .. Len(ws) /\ Len(ws) \in Nat
  OBVIOUS
<1>2. \A i \in DOMAIN ws : ws[i] \in Word /\ ws[i].top \in Int /\ ws[i].x0 \in Int
                              /\ ws[i].height \in Nat
  <2>1. \A w \in Placed : w \in Word /\ w.top \in Int /\ w.x0 \in Int /\ w.height \in Nat
    BY DEF Placed, Word
  <2>2. \A i \in DOMAIN ws : ws[i] \in Placed
    OBVIOUS
  <2> QED BY <2>1, <2>2
<1>3. \A i, j \in DOMAIN ws :
         i < j => \/ ws[i].top < ws[j].top
                  \/ ws[i].top = ws[j].top /\ ws[i].x0 < ws[j].x0 /\ ws[i].height = ws[j].height
  BY DEF Pairwise, Down
<1>4. ASSUME NEW i \in DOMAIN ws, NEW j \in DOMAIN ws, i <= j PROVE ws[i].top <= ws[j].top
  <2>1. i = j \/ i < j
    BY <1>1, <1>4
  <2> QED BY <1>2, <1>3, <2>1
<1>5. ASSUME NEW i \in DOMAIN ws, NEW j \in DOMAIN ws, i # j PROVE ws[i] # ws[j]
  <2>1. i < j \/ j < i
    BY <1>1, <1>5
  <2>2. \A v, w : v.top \in Int /\ v.x0 \in Int /\ v = w =>
           ~(v.top < w.top \/ (v.top = w.top /\ v.x0 < w.x0))
    OBVIOUS
  <2> QED BY <1>2, <1>3, <2>1, <2>2
<1>6. ASSUME NEW i \in DOMAIN ws, NEW j \in DOMAIN ws, ws[i].top = ws[j].top
      PROVE  ws[i].height = ws[j].height
  <2>1. i = j \/ i < j \/ j < i
    BY <1>1
  <2> QED BY <1>2, <1>3, <1>6, <2>1
<1> QED BY <1>2, <1>4, <1>5, <1>6

(* What is known of the line of a place.                                   *)
Lined(ws, A, k) ==
    /\ A[k] \in 1 .. k /\ A[A[k]] = A[k] /\ IsNear(ws[k], ws[A[k]].top)
    /\ \A j \in 1 .. k : A[j] <= A[k] /\ (A[j] # A[k] => ws[j].top < ws[k].top)

LEMMA PlacesLined ==
    ASSUME NEW ws \in Seq(Placed), Pairwise(ws, Down), NEW k \in DOMAIN ws
    PROVE  Lined(ws, Anchors(ws), k)
<1> DEFINE n == Len(ws)
<1>1. PICK A : A = Anchors(ws)
  OBVIOUS
<1>2. A \in [1 .. n -> 1 .. n] /\ Anchoring(ws, A, n)
  <2>1. ws \in Seq(Word)
    BY DEF Placed
  <2> QED BY <1>1, <2>1, AnchorsAre
<1>3. n \in Nat /\ DOMAIN ws = 1 .. n
  OBVIOUS
<1>4. \A i \in 1 .. n : ws[i].top \in Int /\ ws[i].height \in Nat
  BY <1>3, DownIs
<1>5. \A i, j \in 1 .. n : i <= j => ws[i].top <= ws[j].top
  BY <1>3, DownIs
<1>6. \A i \in 1 .. n :
         A[i] = IF i = 1 THEN 1
                ELSE IF IsNear(ws[i], ws[A[i - 1]].top) THEN A[i - 1] ELSE i
  BY <1>2 DEF Anchoring
<1>7. ASSUME NEW i \in 1 .. n, \A j \in 1 .. i - 1 : Lined(ws, A, j)
      PROVE  Lined(ws, A, i)
  <2>1. CASE i = 1
    <3>1. A[1] = 1 /\ 1 \in 1 .. n
      BY <1>6, <2>1
    <3>2. \A j \in 1 .. 1 : j = 1
      OBVIOUS
    <3>3. IsNear(ws[1], ws[1].top)
      BY <1>3, <1>4, <3>1 DEF IsNear
    <3> QED BY <2>1, <3>1, <3>2, <3>3 DEF Lined
  <2>2. CASE i # 1
    <3>1. PICK h : h = i - 1
      OBVIOUS
    <3>2. /\ h \in 1 .. n /\ h \in 1 .. i - 1 /\ h < i /\ i \in Int
          /\ \A j \in 1 .. i : j = i \/ j \in 1 .. h
      BY <1>3, <2>2, <3>1
    <3>3. /\ A[h] \in 1 .. h /\ A[A[h]] = A[h] /\ IsNear(ws[h], ws[A[h]].top)
          /\ \A j \in 1 .. h : A[j] <= A[h] /\ (A[j] # A[h] => ws[j].top < ws[h].top)
      BY <1>7, <3>2 DEF Lined
    <3>4. PICK a : a = A[h]
      OBVIOUS
    <3>5. a \in 1 .. n /\ a <= h /\ ws[h].top <= ws[i].top /\ ws[a].top \in Int
          /\ ws[h].top \in Int /\ ws[i].top \in Int
      BY <1>3, <1>4, <1>5, <3>2, <3>3, <3>4
    <3>6. \A j \in 1 .. h : j \in 1 .. n /\ ws[j].top <= ws[h].top /\ ws[j].top \in Int
                            /\ A[j] \in 1 .. j
      <4> SUFFICES ASSUME NEW j \in 1 .. h
                   PROVE  j \in 1 .. n /\ ws[j].top <= ws[h].top /\ ws[j].top \in Int
                          /\ A[j] \in 1 .. j
        OBVIOUS
      <4>1. j \in 1 .. n /\ j <= h /\ j \in 1 .. i - 1
        BY <1>3, <3>2
      <4>2. A[j] \in 1 .. j
        BY <1>7, <4>1 DEF Lined
      <4> QED BY <1>4, <1>5, <3>2, <4>1, <4>2
    <3>7. CASE IsNear(ws[i], ws[a].top)
      <4>1. A[i] = a
        BY <1>6, <2>2, <3>1, <3>4, <3>7
      <4>2. a \in 1 .. i /\ A[a] = a /\ IsNear(ws[i], ws[a].top)
        BY <1>3, <3>2, <3>3, <3>4, <3>5, <3>7
      <4>3. ASSUME NEW j \in 1 .. i PROVE A[j] <= a /\ (A[j] # a => ws[j].top < ws[i].top)
        <5>1. CASE j = i
          BY <4>1, <5>1, <3>5
        <5>2. CASE j \in 1 .. h
          BY <3>3, <3>4, <3>5, <3>6, <5>2
        <5> QED BY <3>2, <5>1, <5>2
      <4> QED BY <4>1, <4>2, <4>3 DEF Lined
    <3>8. CASE ~IsNear(ws[i], ws[a].top)
      <4>1. A[i] = i
        BY <1>6, <2>2, <3>1, <3>4, <3>8
      <4>2. IsNear(ws[i], ws[i].top) /\ i \in 1 .. i
        BY <1>3, <3>5 DEF IsNear
      <4>3. ws[h].top < ws[i].top
        <5>1. ASSUME ws[h].top = ws[i].top PROVE FALSE
          <6>1. ws[h].height = ws[i].height
            BY <1>3, <3>2, <5>1, DownIs
          <6>2. IsNear(ws[h], ws[a].top)
            BY <3>3, <3>4
          <6> QED BY <3>8, <5>1, <6>1, <6>2 DEF IsNear
        <5> QED BY <3>5, <5>1
      <4>4. ASSUME NEW j \in 1 .. i PROVE A[j] <= i /\ (A[j] # i => ws[j].top < ws[i].top)
        <5>1. CASE j = i
          BY <3>2, <4>1, <5>1
        <5>2. CASE j \in 1 .. h
          BY <3>2, <3>5, <3>6, <4>3, <5>2
        <5> QED BY <3>2, <5>1, <5>2
      <4> QED BY <4>1, <4>2, <4>4 DEF Lined
    <3> QED BY <3>7, <3>8
  <2> QED BY <2>1, <2>2
<1> DEFINE F == {i \in 1 .. n : ~Lined(ws, A, i)}
<1>8. ASSUME F # {} PROVE FALSE
  <2>1. F \in SUBSET (1 .. n)
    OBVIOUS
  <2>2. PICK i \in F : \A j \in 1 .. i - 1 : j \notin F
    <3> HIDE DEF F
    <3> QED BY <1>3, <1>8, <2>1, LeastFailure
  <2>3. i \in 1 .. n /\ \A j \in 1 .. i - 1 : j \in 1 .. n
    BY <1>3
  <2>4. \A j \in 1 .. i - 1 : Lined(ws, A, j)
    BY <2>2, <2>3
  <2> QED BY <1>7, <2>2, <2>3, <2>4
<1> QED BY <1>1, <1>3, <1>8

(* The words of lines: each line from left to right, lines one above the   *)
(* other, and every word on a line.                                        *)
Stacked(ws, lines) ==
    /\ lines \in Seq(Thing)
    /\ \A i \in DOMAIN lines :
          /\ lines[i].words \in Seq(Word)
          /\ ToSet(lines[i].words) \subseteq ToSet(ws)
          /\ Pairwise(lines[i].words, Nearly)
          /\ \E w \in ToSet(lines[i].words) : lines[i].top = w.top
    /\ \A i, j \in DOMAIN lines :
          i < j => Across(ToSet(lines[i].words), ToSet(lines[j].words), Above)
    /\ \A w \in ToSet(ws) : \E i \in DOMAIN lines : w \in ToSet(lines[i].words)

(* What is near a line is near one that is lower.                          *)
LEMMA NearBelow ==
    ASSUME NEW w, w.top \in Int, w.height \in Nat, NEW s \in Int, NEW t \in Int, s <= t,
           IsNear(w, s)
    PROVE  IsNear(w, t)
<1>1. PICK x \in Int, h \in Nat : x = w.top /\ h = w.height
  OBVIOUS
<1>2. x - s <= 3 \/ 10 * (x - s) <= 6 * h
  BY <1>1 DEF IsNear
<1>3. x - t <= x - s /\ 10 * (x - t) <= 10 * (x - s)
  OBVIOUS
<1>4. x - t <= 3 \/ 10 * (x - t) <= 6 * h
  BY <1>2, <1>3
<1> QED BY <1>1, <1>4 DEF IsNear

LEMMA LinesStacked ==
    ASSUME NEW ws \in Seq(Placed), Pairwise(ws, Down)
    PROVE  Stacked(ws, Lines(ws))
<1> DEFINE n == Cardinality(LineStarts(ws))
           firsts == Ascending(LineStarts(ws))
<1>1. PICK A : A = Anchors(ws)
  OBVIOUS
<1>2. PICK lines : lines = Lines(ws)
  OBVIOUS
<1>3. ws \in Seq(Word)
  BY DEF Placed
<1>4. /\ n \in Nat /\ firsts \in [1 .. n -> LineStarts(ws)]
      /\ \A i \in LineStarts(ws) : \E k \in 1 .. n : firsts[k] = i
      /\ \A j, k \in 1 .. n : j < k => firsts[j] < firsts[k]
      /\ LineStarts(ws) \subseteq DOMAIN ws
  BY <1>3, StartsAre
<1>5. /\ lines \in Seq(Thing) /\ DOMAIN lines = 1 .. n
      /\ \A i \in 1 .. n :
            /\ OnLine(ws, i) \subseteq DOMAIN ws
            /\ LeftToRight(ws, OnLine(ws, i)) \in Seq(Word)
            /\ LeftToRight(ws, OnLine(ws, i)) # <<>>
            /\ lines[i] = LineItem(LeftToRight(ws, OnLine(ws, i)))
  BY <1>2, <1>3, LinesAre
<1>6. /\ \A k \in DOMAIN ws : Lined(ws, A, k)
      /\ \A k \in DOMAIN ws : ws[k].top \in Int /\ ws[k] \in Word
      /\ \A j, k \in DOMAIN ws : j <= k => ws[j].top <= ws[k].top
      /\ \A j, k \in DOMAIN ws : j # k => ws[j] # ws[k]
  BY <1>1, PlacesLined, DownIs
<1>7. DOMAIN ws = 1 .. Len(ws) /\ Len(ws) \in Nat
  OBVIOUS
<1> DEFINE On(i) == OnLine(ws, i)
<1>8. \A i : On(i) = {k \in DOMAIN ws : A[k] = firsts[i]}
  BY <1>1 DEF OnLine
<1>9. LineStarts(ws) = {k \in DOMAIN ws : A[k] = k}
  BY <1>1 DEF LineStarts
<1> HIDE DEF n, firsts, On
<1>10. \A i \in 1 .. n : firsts[i] \in DOMAIN ws
  BY <1>4
<1>11. ASSUME NEW i \in 1 .. n
       PROVE  /\ lines[i].words \in Seq(Word)
              /\ ToSet(lines[i].words) = {ws[k] : k \in On(i)}
              /\ \E w \in ToSet(lines[i].words) : lines[i].top = w.top
              /\ \A Q : (\A k, l \in On(i) : k # l /\ ws[k].x0 <= ws[l].x0
                                               => <<ws[k], ws[l]>> \in Q)
                           => Pairwise(lines[i].words, Q)
  <2>1. PICK l : l = LeftToRight(ws, On(i))
    OBVIOUS
  <2>2. l \in Seq(Word) /\ l # <<>> /\ lines[i] = LineItem(l) /\ On(i) \subseteq DOMAIN ws
    BY <1>5, <2>1 DEF On
  <2>3. lines[i].words = l /\ \E w \in ToSet(l) : lines[i].top = w.top
    BY <2>2, LineItemIs
  <2>4. /\ ToSet(l) = {ws[k] : k \in On(i)}
        /\ \A Q : (\A j, k \in On(i) : j # k /\ ws[j].x0 <= ws[k].x0
                                         => <<ws[j], ws[k]>> \in Q)
                     => Pairwise(l, Q)
    BY <1>3, <2>1, <2>2, LeftToRightIs
  <2> QED BY <2>2, <2>3, <2>4
<1>12. ASSUME NEW i \in 1 .. n PROVE Pairwise(lines[i].words, Nearly)
  <2> SUFFICES ASSUME NEW k \in On(i), NEW l \in On(i), k # l PROVE <<ws[k], ws[l]>> \in Nearly
    BY <1>11
  <2>1. k \in DOMAIN ws /\ l \in DOMAIN ws /\ A[k] = A[l]
    BY <1>8
  <2>2. PICK a : a = A[k]
    OBVIOUS
  <2>3. a \in 1 .. l /\ a \in 1 .. k /\ IsNear(ws[k], ws[a].top)
    BY <1>6, <2>1, <2>2 DEF Lined
  <2>4. a \in DOMAIN ws /\ a <= l
    BY <1>7, <2>1, <2>3
  <2>5. ws[a].top <= ws[l].top
    BY <1>6, <2>1, <2>4
  <2>6. ws[k] # ws[l] /\ IsNear(ws[k], ws[l].top)
    <3>1. ws[k] # ws[l]
      BY <1>6, <2>1
    <3>2. ws[k].top \in Int /\ ws[l].top \in Int /\ ws[a].top \in Int /\ ws[k].height \in Nat
      BY <1>6, <2>1, <2>4 DEF Word
    <3> QED BY <2>3, <2>5, <3>1, <3>2, NearBelow
  <2> QED BY <1>6, <2>1, <2>6 DEF Nearly
<1>13. ASSUME NEW i \in 1 .. n, NEW j \in 1 .. n, i < j
       PROVE  Across(ToSet(lines[i].words), ToSet(lines[j].words), Above)
  <2> SUFFICES ASSUME NEW k \in On(i), NEW l \in On(j) PROVE <<ws[k], ws[l]>> \in Above
    <3>1. /\ ToSet(lines[i].words) = {ws[k] : k \in On(i)}
          /\ ToSet(lines[j].words) = {ws[k] : k \in On(j)}
      BY <1>11
    <3> QED BY <3>1 DEF Across
  <2>1. k \in DOMAIN ws /\ l \in DOMAIN ws /\ A[k] = firsts[i] /\ A[l] = firsts[j]
    BY <1>8
  <2>2. A[k] < A[l] /\ A[k] \in Int /\ A[l] \in Int
    BY <1>4, <1>7, <1>10, <1>13, <2>1
  <2>3. k \in 1 .. l \/ l \in 1 .. k
    BY <1>7, <2>1
  <2>4. CASE k \in 1 .. l
    <3>1. ws[k].top < ws[l].top
      <4>1. Lined(ws, A, l)
        BY <1>6, <2>1
      <4> QED BY <2>2, <2>4, <4>1 DEF Lined
    <3> QED BY <1>6, <2>1, <3>1 DEF Above
  <2>5. CASE l \in 1 .. k
    <3>1. A[l] <= A[k]
      <4>1. Lined(ws, A, k)
        BY <1>6, <2>1
      <4> QED BY <2>5, <4>1 DEF Lined
    <3> QED BY <2>2, <3>1
  <2> QED BY <2>3, <2>4, <2>5
<1>14. ToSet(ws) = {ws[k] : k \in DOMAIN ws}
  BY <1>3 DEF ToSet
<1>15. ASSUME NEW w \in ToSet(ws) PROVE \E i \in 1 .. n : w \in ToSet(lines[i].words)
  <2>1. PICK k \in DOMAIN ws : w = ws[k]
    BY <1>14
  <2>2. A[k] \in 1 .. k /\ A[A[k]] = A[k]
    BY <1>6 DEF Lined
  <2>3. A[k] \in DOMAIN ws
    BY <1>7, <2>2
  <2>4. PICK i \in 1 .. n : firsts[i] = A[k]
    BY <1>4, <1>9, <2>2, <2>3
  <2>5. k \in On(i)
    BY <1>8, <2>4
  <2> QED BY <1>11, <2>1, <2>5
<1>16. \A i \in 1 .. n : ToSet(lines[i].words) \subseteq ToSet(ws)
  <2>1. \A i : On(i) \subseteq DOMAIN ws
    BY <1>8
  <2>2. \A i \in 1 .. n : ToSet(lines[i].words) = {ws[k] : k \in On(i)}
    BY <1>11
  <2> QED BY <1>14, <2>1, <2>2
<1>17. \A i \in DOMAIN lines :
          /\ lines[i].words \in Seq(Word) /\ ToSet(lines[i].words) \subseteq ToSet(ws)
          /\ Pairwise(lines[i].words, Nearly)
          /\ \E w \in ToSet(lines[i].words) : lines[i].top = w.top
  BY <1>5, <1>11, <1>12, <1>16
<1> QED BY <1>2, <1>5, <1>13, <1>15, <1>17 DEF Stacked

-----------------------------------------------------------------------------
(* The things that lines are made into.                                    *)

(* A thing is made of the lines from one to another.                       *)
Piled(lines, x, f, t) ==
    /\ f \in DOMAIN lines /\ t \in DOMAIN lines /\ x \in Thing
    /\ \A w \in ToSet(x.words) : \E k \in f .. t : w \in ToSet(lines[k].words)
    /\ \E k \in f .. t : x.top = lines[k].top

(* Of two things, the words of the one that is not below the other are     *)
(* related to the words of the other.                                      *)
Orderly(Q) ==
    {p \in Thing \X Thing :
        /\ p[1].top <= p[2].top => Across(ToSet(p[1].words), ToSet(p[2].words), Q)
        /\ p[2].top <= p[1].top => Across(ToSet(p[2].words), ToSet(p[1].words), Q)}

LEMMA PileOver ==
    ASSUME NEW ws, NEW lines, Stacked(ws, lines), NEW x, NEW y, NEW f, NEW t, NEW g, NEW h,
           Piled(lines, x, f, t), Piled(lines, y, g, h), t < g
    PROVE  x.top < y.top /\ Across(ToSet(x.words), ToSet(y.words), Above)
<1>1. lines \in Seq(Thing)
  BY DEF Stacked
<1>2. DOMAIN lines = 1 .. Len(lines) /\ Len(lines) \in Nat
  BY <1>1
<1>3. f \in DOMAIN lines /\ t \in DOMAIN lines /\ g \in DOMAIN lines /\ h \in DOMAIN lines
  BY DEF Piled
<1>4. \A k \in f .. t : \A l \in g .. h : k \in DOMAIN lines /\ l \in DOMAIN lines /\ k < l
  BY <1>2, <1>3
<1>5. \A k \in f .. t : \A l \in g .. h :
         Across(ToSet(lines[k].words), ToSet(lines[l].words), Above)
  BY <1>4 DEF Stacked
<1>6. Across(ToSet(x.words), ToSet(y.words), Above)
  <2> SUFFICES ASSUME NEW v \in ToSet(x.words), NEW w \in ToSet(y.words)
               PROVE  <<v, w>> \in Above
    BY DEF Across
  <2>1. PICK k \in f .. t : v \in ToSet(lines[k].words)
    BY DEF Piled
  <2>2. PICK l \in g .. h : w \in ToSet(lines[l].words)
    BY DEF Piled
  <2> QED BY <1>5, <2>1, <2>2 DEF Across
<1>7. x.top < y.top
  <2>1. PICK k \in f .. t : x.top = lines[k].top
    BY DEF Piled
  <2>2. PICK l \in g .. h : y.top = lines[l].top
    BY DEF Piled
  <2>3. PICK v \in ToSet(lines[k].words) : lines[k].top = v.top
    BY <1>4, <2>2 DEF Stacked
  <2>4. PICK w \in ToSet(lines[l].words) : lines[l].top = w.top
    BY <1>4, <2>1 DEF Stacked
  <2>5. <<v, w>> \in Above
    BY <1>5 DEF Across
  <2> QED BY <2>1, <2>2, <2>3, <2>4, <2>5 DEF Above
<1> QED BY <1>6, <1>7

LEMMA PilesApart ==
    ASSUME NEW ws, NEW lines, Stacked(ws, lines), NEW x, NEW y, NEW f, NEW t, NEW g, NEW h,
           Piled(lines, x, f, t), Piled(lines, y, g, h), t < g \/ h < f
    PROVE  <<x, y>> \in Orderly(Above)
<1>1. x \in Thing /\ y \in Thing
  BY DEF Piled
<1>2. x.top \in Int /\ y.top \in Int
  BY <1>1 DEF Thing
<1>3. \/ x.top < y.top /\ Across(ToSet(x.words), ToSet(y.words), Above)
      \/ y.top < x.top /\ Across(ToSet(y.words), ToSet(x.words), Above)
  BY PileOver
<1> QED BY <1>1, <1>2, <1>3 DEF Orderly

(* Runs are as long as they can be: of two, one is above the other.        *)
LEMMA RunsApart ==
    ASSUME NEW lines \in Seq(Thing), NEW r \in Runs(lines), NEW s \in Runs(lines), r # s
    PROVE  r.to < s.from \/ s.to < r.from
<1> DEFINE D == 1 .. Len(lines)
<1>1. D = DOMAIN lines /\ Len(lines) \in Nat
  OBVIOUS
<1>2. ASSUME NEW q \in Runs(lines)
      PROVE  /\ q = [from |-> q.from, to |-> q.to] /\ q.from \in D /\ q.to \in D /\ q.from < q.to
             /\ \A k \in q.from .. q.to : CellCount(lines[k]) = CellCount(lines[q.from])
             /\ q.from > 1 => CellCount(lines[q.from - 1]) # CellCount(lines[q.from])
             /\ q.to < Len(lines) => CellCount(lines[q.to + 1]) # CellCount(lines[q.from])
  BY <1>1 DEF Runs
<1>3. ASSUME NEW p \in Runs(lines), NEW q \in Runs(lines), NEW k,
             k \in p.from .. p.to, k \in q.from .. q.to, p.from < q.from
      PROVE  FALSE
  <2>1. q.from - 1 \in p.from .. p.to /\ q.from > 1
    BY <1>1, <1>2, <1>3
  <2>2. CellCount(lines[q.from - 1]) = CellCount(lines[p.from])
    BY <1>2, <2>1
  <2>3. CellCount(lines[k]) = CellCount(lines[p.from])
        /\ CellCount(lines[k]) = CellCount(lines[q.from])
    BY <1>2, <1>3
  <2> QED BY <1>2, <2>1, <2>2, <2>3
<1>4. ASSUME NEW p \in Runs(lines), NEW q \in Runs(lines), NEW k,
             k \in p.from .. p.to, k \in q.from .. q.to, p.to < q.to
      PROVE  FALSE
  <2>1. p.to + 1 \in q.from .. q.to /\ p.to < Len(lines)
    BY <1>1, <1>2, <1>4
  <2>2. CellCount(lines[p.to + 1]) = CellCount(lines[q.from])
    BY <1>2, <2>1
  <2>3. CellCount(lines[k]) = CellCount(lines[p.from])
        /\ CellCount(lines[k]) = CellCount(lines[q.from])
    BY <1>2, <1>4
  <2> QED BY <1>2, <2>1, <2>2, <2>3
<1>5. ASSUME ~(r.to < s.from), ~(s.to < r.from) PROVE FALSE
  <2>1. PICK k : k = IF r.from < s.from THEN s.from ELSE r.from
    OBVIOUS
  <2>2. k \in r.from .. r.to /\ k \in s.from .. s.to
    BY <1>1, <1>2, <1>5, <2>1
  <2>3. ~(r.from < s.from) /\ ~(s.from < r.from) /\ ~(r.to < s.to) /\ ~(s.to < r.to)
    BY <1>3, <1>4, <2>2
  <2>4. r.from = s.from /\ r.to = s.to
    BY <1>1, <1>2, <2>3
  <2>5. r = [from |-> r.from, to |-> r.to] /\ s = [from |-> s.from, to |-> s.to]
    BY <1>2
  <2>6. r = s
    BY <2>4, <2>5
  <2> QED BY <2>6
<1> QED BY <1>5

LEMMA LinePiled ==
    ASSUME NEW ws, NEW lines, Stacked(ws, lines), NEW k \in DOMAIN lines
    PROVE  Piled(lines, lines[k], k, k)
<1>1. lines \in Seq(Thing)
  BY DEF Stacked
<1>2. lines[k] \in Thing /\ k \in k .. k
  BY <1>1
<1> QED BY <1>2 DEF Piled

LEMMA RunPiled ==
    ASSUME NEW ws, NEW lines, Stacked(ws, lines), NEW r \in Runs(lines)
    PROVE  /\ Piled(lines, RunItem(lines, r), r.from, r.to)
           /\ Pairwise(RunItem(lines, r).words, Nearly)
           /\ ToSet(RunItem(lines, r).words)
                 = UNION {ToSet(lines[k].words) : k \in r.from .. r.to}
<1> DEFINE ss == [k \in 1 .. r.to - r.from + 1 |-> lines[r.from + k - 1].words]
           W == ToSet(RunItem(lines, r).words)
<1>1. lines \in Seq(Thing)
  BY DEF Stacked
<1>2. /\ r.from \in DOMAIN lines /\ r.to \in DOMAIN lines /\ r.from < r.to
      /\ r.from .. r.to \subseteq DOMAIN lines
      /\ RunItem(lines, r) \in Thing
      /\ \E k \in r.from .. r.to : RunItem(lines, r).top = lines[k].top
      /\ RunItem(lines, r).words = FlattenSeq(ss)
      /\ ss \in Seq(Seq(Word))
  BY <1>1, RunIs
<1>3. r.from \in Nat /\ r.to \in Nat
  BY <1>1, <1>2
<1>4. DOMAIN ss = 1 .. r.to - r.from + 1
  OBVIOUS
<1>5. \A k \in DOMAIN ss : r.from + k - 1 \in DOMAIN lines /\ r.from + k - 1 \in r.from .. r.to
                           /\ ss[k] = lines[r.from + k - 1].words
  BY <1>2, <1>3, <1>4
<1> HIDE DEF ss
<1>6. \A i \in DOMAIN ss : Pairwise(ss[i], Nearly)
  BY <1>5 DEF Stacked
<1>7. ASSUME NEW i \in DOMAIN ss, NEW j \in DOMAIN ss, i < j
      PROVE  Across(ToSet(ss[i]), ToSet(ss[j]), Nearly)
  <2>1. r.from + i - 1 < r.from + j - 1
    BY <1>3, <1>4, <1>7
  <2>2. Across(ToSet(ss[i]), ToSet(ss[j]), Above)
    BY <1>5, <2>1 DEF Stacked
  <2> QED BY <2>2, AboveNearly DEF Across
<1>8. /\ ToSet(FlattenSeq(ss)) = UNION {ToSet(ss[i]) : i \in DOMAIN ss}
      /\ Pairwise(FlattenSeq(ss), Nearly)
  BY <1>2, <1>6, <1>7, FlattenPairs
<1>9. W = UNION {ToSet(lines[k].words) : k \in r.from .. r.to}
  <2>1. \A k \in r.from .. r.to : k - r.from + 1 \in DOMAIN ss /\ r.from + (k - r.from + 1) - 1 = k
    BY <1>3, <1>4
  <2>2. \A k \in r.from .. r.to : \E i \in DOMAIN ss : ss[i] = lines[k].words
    BY <1>5, <2>1
  <2>3. W = UNION {ToSet(ss[i]) : i \in DOMAIN ss}
    BY <1>2, <1>8
  <2>4. \A i \in DOMAIN ss : \E k \in r.from .. r.to : ss[i] = lines[k].words
    BY <1>5
  <2> HIDE DEF W
  <2> QED BY <2>2, <2>3, <2>4
<1> HIDE DEF W
<1>10. \A w \in W : \E k \in r.from .. r.to : w \in ToSet(lines[k].words)
  BY <1>9
<1> QED BY <1>2, <1>8, <1>9, <1>10 DEF Piled, W

(* Lines in their order, tables in the place of theirs.                    *)
LEMMA ProseKept ==
    ASSUME NEW ws, NEW lines, Stacked(ws, lines)
    PROVE  LET s == ProseAndTables(lines, Runs(lines))
           IN  /\ s \in Seq(Thing) /\ Pairwise(s, Orderly(Above))
               /\ \A x \in ToSet(s) : /\ Pairwise(x.words, Nearly)
                                      /\ ToSet(x.words) \subseteq ToSet(ws)
               /\ \A w \in ToSet(ws) : \E x \in ToSet(s) : w \in ToSet(x.words)
<1> DEFINE a == Sublist(lines, Free(lines))
           b == SetToSeq(RunItems(lines))
           s == ProseAndTables(lines, Runs(lines))
           O == Orderly(Above)
<1>1. lines \in Seq(Thing)
  BY DEF Stacked
<1>2. s = a \o b
  BY DEF ProseAndTables, Free, RunItems
<1>3. Free(lines) \subseteq DOMAIN lines
  BY DEF Free
<1>4. Pairwise(lines, O)
  <2>1. ASSUME NEW i \in DOMAIN lines, NEW j \in DOMAIN lines, i < j
        PROVE  <<lines[i], lines[j]>> \in O
    BY <2>1, LinePiled, PilesApart
  <2> HIDE DEF O
  <2> QED BY <2>1 DEF Pairwise
<1>5. /\ a \in Seq(Thing) /\ Pairwise(a, O)
      /\ ToSet(a) = {lines[k] : k \in Free(lines)}
  BY <1>1, <1>3, <1>4, SublistKeeps
<1>6. /\ b \in Seq(Thing) /\ ToSet(b) = RunItems(lines)
      /\ \A i, j \in DOMAIN b : i # j => b[i] # b[j]
  BY <1>1, RunItemsAre, SetListed
<1>7. \A x \in RunItems(lines) : \E r \in Runs(lines) : x = RunItem(lines, r)
  BY DEF RunItems
<1> HIDE DEF a, b, O
<1>8. Pairwise(b, O)
  <2> SUFFICES ASSUME NEW i \in DOMAIN b, NEW j \in DOMAIN b, i < j
               PROVE  <<b[i], b[j]>> \in O
    BY DEF Pairwise
  <2>1. b[i] \in RunItems(lines) /\ b[j] \in RunItems(lines) /\ b[i] # b[j]
    <3>1. i # j
      BY <1>6
    <3> QED BY <1>6, <3>1 DEF ToSet
  <2>2. PICK p \in Runs(lines) : b[i] = RunItem(lines, p)
    BY <1>7, <2>1
  <2>3. PICK q \in Runs(lines) : b[j] = RunItem(lines, q)
    BY <1>7, <2>1
  <2>4. p.to < q.from \/ q.to < p.from
    BY <1>1, <2>1, <2>2, <2>3, RunsApart
  <2>5. Piled(lines, b[i], p.from, p.to) /\ Piled(lines, b[j], q.from, q.to)
    BY <2>2, <2>3, RunPiled
  <2> QED BY <2>4, <2>5, PilesApart DEF O
<1>9. Across(ToSet(a), ToSet(b), O)
  <2> SUFFICES ASSUME NEW k \in Free(lines), NEW r \in Runs(lines)
               PROVE  <<lines[k], RunItem(lines, r)>> \in O
    BY <1>5, <1>6, <1>7 DEF Across
  <2>1. k < r.from \/ r.to < k
    <3>1. k \in DOMAIN lines /\ k \notin r.from .. r.to
      BY DEF Free
    <3>2. r.from \in DOMAIN lines /\ r.to \in DOMAIN lines
      BY <1>1, RunIs
    <3>3. DOMAIN lines = 1 .. Len(lines)
      BY <1>1
    <3> QED BY <3>1, <3>2, <3>3
  <2>2. Piled(lines, lines[k], k, k) /\ Piled(lines, RunItem(lines, r), r.from, r.to)
    BY <1>3, LinePiled, RunPiled
  <2> QED BY <2>1, <2>2, PilesApart DEF O
<1>10. /\ a \o b \in Seq(Thing) /\ ToSet(a \o b) = ToSet(a) \cup ToSet(b)
       /\ Pairwise(a \o b, O)
  <2>1. a \in Seq(Thing) /\ b \in Seq(Thing)
    BY <1>5, <1>6
  <2>2. Pairwise(a, O) /\ Pairwise(b, O) /\ Across(ToSet(a), ToSet(b), O)
    BY <1>5, <1>8, <1>9
  <2> QED BY ONLY <2>1, <2>2, PairsOn
<1>11. ASSUME NEW x \in ToSet(s)
       PROVE  Pairwise(x.words, Nearly) /\ ToSet(x.words) \subseteq ToSet(ws)
  <2>1. CASE x \in ToSet(a)
    <3>1. PICK k \in Free(lines) : x = lines[k]
      BY <1>5, <2>1
    <3> QED BY <1>3, <3>1 DEF Stacked
  <2>2. CASE x \in ToSet(b)
    <3>1. PICK r \in Runs(lines) : x = RunItem(lines, r)
      BY <1>6, <1>7, <2>2
    <3>2. /\ Pairwise(x.words, Nearly)
          /\ ToSet(x.words) = UNION {ToSet(lines[k].words) : k \in r.from .. r.to}
      BY <3>1, RunPiled
    <3>3. r.from .. r.to \subseteq DOMAIN lines
      BY <1>1, RunIs
    <3>4. \A k \in r.from .. r.to : ToSet(lines[k].words) \subseteq ToSet(ws)
      BY <3>3 DEF Stacked
    <3> QED BY <3>2, <3>4
  <2> QED BY <1>2, <1>10, <2>1, <2>2
<1>12. ASSUME NEW w \in ToSet(ws) PROVE \E x \in ToSet(s) : w \in ToSet(x.words)
  <2>1. PICK k \in DOMAIN lines : w \in ToSet(lines[k].words)
    BY DEF Stacked
  <2>2. CASE k \in Free(lines)
    <3>1. lines[k] \in ToSet(s)
      BY <1>2, <1>5, <1>10, <2>2
    <3> QED BY <2>1, <3>1
  <2>3. CASE k \notin Free(lines)
    <3>1. PICK r \in Runs(lines) : k \in r.from .. r.to
      BY <2>1, <2>3 DEF Free
    <3>2. ToSet(RunItem(lines, r).words)
             = UNION {ToSet(lines[i].words) : i \in r.from .. r.to}
      BY RunPiled
    <3>3. w \in ToSet(RunItem(lines, r).words)
      BY <2>1, <3>1, <3>2
    <3>4. RunItem(lines, r) \in ToSet(s)
      BY <1>2, <1>6, <1>10 DEF RunItems
    <3> QED BY <3>3, <3>4
  <2> QED BY <2>2, <2>3
<1> QED BY <1>2, <1>10, <1>11, <1>12 DEF O, s

-----------------------------------------------------------------------------
(* What SheetKept wants of two words of which the first is written first.  *)
Readable(ws, boxes) ==
    {p \in Word \X Word :
        /\ TablesApart(ws, boxes) => p[1] # p[2]
        /\ \/ Ruled(ws, boxes, p[1]) \/ Ruled(ws, boxes, p[2])
           \/ ReadsBefore(ws, p[1], p[2])}

(* Two words of one band that are in no table there.                       *)
LEMMA NearlyKept ==
    ASSUME NEW ws, IsSheet(ws), NEW boxes, NEW k \in DOMAIN ColumnBands(ws),
           NEW v \in ToSet(ws), NEW w \in ToSet(ws), <<v, w>> \in Nearly,
           InBand(v.x0 + v.x1, ColumnBands(ws)[k]), InBand(w.x0 + w.x1, ColumnBands(ws)[k])
    PROVE  <<v, w>> \in Readable(ws, boxes)
<1>1. ws # <<>>
  BY DEF ColumnBands
<1>2. ~Between(ws, w, v)
  <2>1. ws \in Seq(Word)
    BY SheetOfWords
  <2>2. k <= k
    BY <2>1, BandsListed
  <2> QED BY <1>1, <2>2, BandsAre
<1>3. v \in Word /\ w \in Word /\ v # w /\ IsNear(v, w.top)
  BY DEF Nearly
<1> QED BY <1>2, <1>3 DEF Readable, ReadsBefore

-----------------------------------------------------------------------------
(* Ruled tables, and the columns of a page.                                *)

LEMMA HeldReadable ==
    ASSUME NEW ws, IsSheet(ws), NEW boxes, NEW b \in RuledTables(boxes, ws),
           NEW v \in ToSet(Held(b, ws)), NEW w \in ToSet(ws), v # w
    PROVE  <<v, w>> \in Readable(ws, boxes) /\ <<w, v>> \in Readable(ws, boxes)
<1>1. ws \in Seq(Word)
  BY SheetOfWords
<1>2. v \in ToSet(ws) /\ Inside(v, b)
  BY <1>1, HeldInBox
<1>3. v \in Word /\ w \in Word
  BY <1>1, <1>2 DEF ToSet
<1>4. Ruled(ws, boxes, v)
  BY <1>2 DEF Ruled
<1> QED BY <1>3, <1>4 DEF Readable

LEMMA HeldKept ==
    ASSUME NEW ws, IsSheet(ws), NEW boxes, NEW b \in RuledTables(boxes, ws)
    PROVE  Pairwise(Held(b, ws), Readable(ws, boxes))
<1>1. ws \in Seq(Word) /\ ws \in Seq(Placed) /\ Pairwise(ws, Down)
  BY SheetOfWords DEF IsSheet
<1>2. \A i, j \in DOMAIN ws : i # j => ws[i] # ws[j]
  BY <1>1, DownIs
<1> DEFINE D == {p \in Word \X Word : p[1] # p[2]}
<1>3. Pairwise(ws, D)
  <2> SUFFICES ASSUME NEW i \in DOMAIN ws, NEW j \in DOMAIN ws, i < j
               PROVE  <<ws[i], ws[j]>> \in D
    BY DEF Pairwise
  <2>1. i # j /\ ws[i] \in Word /\ ws[j] \in Word
    BY <1>1
  <2> QED BY <1>2, <2>1
<1> DEFINE h == Held(b, ws)
<1>4. h \in Seq(Word) /\ ToSet(h) \subseteq ToSet(ws) /\ Pairwise(h, D)
  <2> HIDE DEF D
  <2> QED BY <1>1, <1>3, HeldInBox
<1>5. \A i \in DOMAIN h : h[i] \in ToSet(h)
  BY DEF ToSet
<1>6. ASSUME NEW i \in DOMAIN h, NEW j \in DOMAIN h, i < j
      PROVE  <<h[i], h[j]>> \in Readable(ws, boxes)
  <2>1. <<h[i], h[j]>> \in D
    <3> HIDE DEF D
    <3> QED BY <1>4, <1>6 DEF Pairwise
  <2>2. h[i] # h[j]
    BY <2>1
  <2>3. h[i] \in ToSet(h) /\ h[j] \in ToSet(ws)
    BY <1>4, <1>5
  <2> QED BY <2>2, <2>3, HeldReadable
<1> QED BY <1>6 DEF Pairwise

LEMMA RuledApart ==
    ASSUME NEW ws, IsSheet(ws), NEW boxes, NEW b \in RuledTables(boxes, ws),
           NEW c \in RuledTables(boxes, ws), b # c
    PROVE  Across(ToSet(Held(b, ws)), ToSet(Held(c, ws)), Readable(ws, boxes))
<1> SUFFICES ASSUME NEW v \in ToSet(Held(b, ws)), NEW w \in ToSet(Held(c, ws))
             PROVE  <<v, w>> \in Readable(ws, boxes)
  BY DEF Across
<1>1. ws \in Seq(Word)
  BY SheetOfWords
<1>2. v \in ToSet(ws) /\ Inside(v, b) /\ w \in ToSet(ws) /\ Inside(w, c)
  BY <1>1, HeldInBox
<1>3. v \in Word /\ w \in Word
  BY <1>1, <1>2 DEF ToSet
<1>4. Ruled(ws, boxes, v)
  BY <1>2 DEF Ruled
<1>5. TablesApart(ws, boxes) => v # w
  BY <1>2 DEF TablesApart
<1> QED BY <1>3, <1>4, <1>5 DEF Readable

(* The things of a column, whichever comes first.                          *)
Follows(Q) == {p \in Thing \X Thing : Across(ToSet(p[1].words), ToSet(p[2].words), Q)}

LEMMA Followed ==
    ASSUME NEW items \in Seq(Thing), NEW Q, Pairwise(items, Orderly(Q))
    PROVE  Pairwise(TopDown(items), Follows(Q))
<1>1. DOMAIN items = 1 .. Len(items) /\ Len(items) \in Nat
  OBVIOUS
<1>2. ASSUME NEW i \in DOMAIN items, NEW j \in DOMAIN items, i # j,
             items[i].top <= items[j].top
      PROVE  <<items[i], items[j]>> \in Follows(Q)
  <2>1. items[i] \in Thing /\ items[j] \in Thing
    OBVIOUS
  <2>2. CASE i < j
    <3>1. <<items[i], items[j]>> \in Orderly(Q)
      BY <2>2 DEF Pairwise
    <3>2. Across(ToSet(items[i].words), ToSet(items[j].words), Q)
      BY <1>2, <3>1 DEF Orderly
    <3> QED BY <2>1, <3>2 DEF Follows
  <2>3. CASE j < i
    <3>1. <<items[j], items[i]>> \in Orderly(Q)
      BY <2>3 DEF Pairwise
    <3>2. Across(ToSet(items[i].words), ToSet(items[j].words), Q)
      BY <1>2, <3>1 DEF Orderly
    <3> QED BY <2>1, <3>2 DEF Follows
  <2> QED BY <1>1, <1>2, <2>2, <2>3
<1> QED BY <1>2, TopDownIs

(* A column is read from top to bottom; it has the words of its band, but  *)
(* for those in its ruled tables, and all that are in those.               *)
InColumn(ruled, band, w) ==
    \/ InBand(w.x0 + w.x1, band) /\ \A b \in ruled : ~Inside(w, b)
    \/ \E b \in ruled : Inside(w, b)

ReadsDown(ws, boxes, ruled, band, column) ==
    /\ column \in Seq(Thing)
    /\ Pairwise(column, Follows(Readable(ws, boxes)))
    /\ \A x \in ToSet(column) : Pairwise(x.words, Readable(ws, boxes))
    /\ \A x \in ToSet(column) : \A w \in ToSet(x.words) :
          w \in ToSet(ws) /\ InColumn(ruled, band, w)
    /\ \A w \in ToSet(ws) :
          InColumn(ruled, band, w) => \E x \in ToSet(column) : w \in ToSet(x.words)

LEMMA RuledPairs ==
    ASSUME NEW ws, IsSheet(ws), NEW boxes, NEW ruled, IsFiniteSet(ruled), ruled \subseteq Frame,
           ruled \subseteq RuledTables(boxes, ws)
    PROVE  Pairwise(RuledItems(ws, ruled), Orderly(Readable(ws, boxes)))
<1> DEFINE c == RuledItems(ws, ruled)
           Q == Readable(ws, boxes)
<1>1. ws \in Seq(Word)
  BY SheetOfWords
<1>2. /\ c \in Seq(Thing) /\ ToSet(c) = RuledThings(ws, ruled)
      /\ \A i, j \in DOMAIN c : i # j => c[i] # c[j]
  BY <1>1, RuledItemsAre
<1> HIDE DEF c
<1>3. \A i \in DOMAIN c : \E b \in ruled : c[i] = TableItem(b.top, Held(b, ws))
  <2>1. \A i \in DOMAIN c : c[i] \in RuledThings(ws, ruled)
    BY <1>2 DEF ToSet
  <2> QED BY <2>1 DEF RuledThings
<1>4. ASSUME NEW i \in DOMAIN c, NEW j \in DOMAIN c, i < j
      PROVE  <<c[i], c[j]>> \in Orderly(Q)
  <2>1. PICK b \in ruled : c[i] = TableItem(b.top, Held(b, ws))
    BY <1>3
  <2>2. PICK d \in ruled : c[j] = TableItem(d.top, Held(d, ws))
    BY <1>3
  <2>3. i # j /\ c[i] \in Thing /\ c[j] \in Thing
    BY <1>2, <1>4
  <2>4. b # d
    BY <1>2, <2>1, <2>2, <2>3
  <2>5. /\ Across(ToSet(Held(b, ws)), ToSet(Held(d, ws)), Q)
        /\ Across(ToSet(Held(d, ws)), ToSet(Held(b, ws)), Q)
    BY <2>4, RuledApart
  <2>6. c[i].words = Held(b, ws) /\ c[j].words = Held(d, ws)
    BY <2>1, <2>2 DEF TableItem
  <2> QED BY <2>3, <2>5, <2>6 DEF Orderly
<1> QED BY <1>4 DEF Pairwise, c

LEMMA ColumnReadsDown ==
    ASSUME NEW ws, IsSheet(ws), NEW boxes, NEW k \in DOMAIN ColumnBands(ws),
           NEW ruled, IsFiniteSet(ruled), ruled \subseteq Frame,
           ruled \subseteq RuledTables(boxes, ws)
    PROVE  ReadsDown(ws, boxes, ruled, ColumnBands(ws)[k],
                     BandColumn(ws, ruled, ColumnBands(ws)[k]))
<1> DEFINE band == ColumnBands(ws)[k]
           bw == BandWords(ws, ruled, band)
           lines == Lines(bw)
           s == ProseAndTables(lines, Runs(lines))
           c == RuledItems(ws, ruled)
           Q == Readable(ws, boxes)
           O == Orderly(Q)
           column == BandColumn(ws, ruled, band)
<1>1. ws \in Seq(Word) /\ ws \in Seq(Placed) /\ Pairwise(ws, Down)
  BY SheetOfWords DEF IsSheet
<1>2. column = TopDown(s \o c)
  BY DEF BandColumn, BandItems
<1>3. /\ ToSet(bw) = {w \in ToSet(ws) : /\ InBand(w.x0 + w.x1, band)
                                        /\ \A b \in ruled : ~Inside(w, b)}
      /\ Pairwise(bw, Down)
  <2> HIDE DEF band
  <2> QED BY <1>1, BandWordsAre
<1>4. bw \in Seq(Placed)
  <2> DEFINE P == {i \in DOMAIN ws : /\ InBand(ws[i].x0 + ws[i].x1, band)
                                     /\ \A b \in ruled : ~Inside(ws[i], b)}
  <2>1. bw = Sublist(ws, P) /\ P \subseteq DOMAIN ws
    BY DEF BandWords
  <2> HIDE DEF P, bw
  <2> QED BY <1>1, <2>1, SublistKeeps
<1>5. \A w \in ToSet(bw) : w \in ToSet(ws) /\ InBand(w.x0 + w.x1, band)
                           /\ \A b \in ruled : ~Inside(w, b)
  BY <1>3
<1> HIDE DEF bw
<1>6. Stacked(bw, lines)
  BY <1>3, <1>4, LinesStacked
<1> HIDE DEF lines
<1>7. /\ s \in Seq(Thing) /\ Pairwise(s, Orderly(Above))
      /\ \A x \in ToSet(s) : Pairwise(x.words, Nearly) /\ ToSet(x.words) \subseteq ToSet(bw)
      /\ \A w \in ToSet(bw) : \E x \in ToSet(s) : w \in ToSet(x.words)
  BY <1>6, ProseKept
<1>8. c \in Seq(Thing) /\ ToSet(c) = RuledThings(ws, ruled)
  BY <1>1, RuledItemsAre
<1>9. Pairwise(c, O)
  BY RuledPairs
<1> HIDE DEF s, c, column
<1>10. ASSUME NEW v \in ToSet(bw), NEW w \in ToSet(bw), <<v, w>> \in Nearly
       PROVE  <<v, w>> \in Q
  <2> HIDE DEF Q
  <2>1. v \in ToSet(ws) /\ w \in ToSet(ws)
    BY <1>5
  <2>2. InBand(v.x0 + v.x1, ColumnBands(ws)[k]) /\ InBand(w.x0 + w.x1, ColumnBands(ws)[k])
    BY <1>5
  <2> QED BY <1>10, <2>1, <2>2, NearlyKept DEF Q
<1> HIDE DEF band, Q, O
<1>11. \A i \in DOMAIN s : s[i] \in ToSet(s) /\ s[i] \in Thing
  BY <1>7 DEF ToSet
<1>12. Pairwise(s, O)
  <2> SUFFICES ASSUME NEW i \in DOMAIN s, NEW j \in DOMAIN s, i < j
               PROVE  <<s[i], s[j]>> \in O
    BY DEF Pairwise
  <2>1. <<s[i], s[j]>> \in Orderly(Above)
    BY <1>7 DEF Pairwise
  <2>2. ASSUME NEW x \in ToSet(s), NEW y \in ToSet(s),
               Across(ToSet(x.words), ToSet(y.words), Above)
        PROVE  Across(ToSet(x.words), ToSet(y.words), Q)
    <3> SUFFICES ASSUME NEW v \in ToSet(x.words), NEW w \in ToSet(y.words)
                 PROVE  <<v, w>> \in Q
      BY DEF Across
    <3>1. <<v, w>> \in Above
      BY <2>2 DEF Across
    <3>2. v \in ToSet(bw) /\ w \in ToSet(bw)
      BY <1>7
    <3> QED BY <1>10, <3>1, <3>2, AboveNearly
  <2> QED BY <1>11, <2>1, <2>2 DEF Orderly, O
<1>13. ASSUME NEW x \in ToSet(c)
       PROVE  \E b \in ruled : x = TableItem(b.top, Held(b, ws)) /\ x.words = Held(b, ws)
  BY <1>8 DEF RuledThings, TableItem
<1>14. Across(ToSet(s), ToSet(c), O)
  <2> SUFFICES ASSUME NEW x \in ToSet(s), NEW y \in ToSet(c) PROVE <<x, y>> \in O
    BY DEF Across
  <2>1. x \in Thing /\ y \in Thing
    BY <1>7, <1>8 DEF ToSet
  <2>2. PICK b \in ruled : y.words = Held(b, ws)
    BY <1>13
  <2>3. ASSUME NEW v \in ToSet(y.words), NEW w \in ToSet(x.words)
        PROVE  <<v, w>> \in Q /\ <<w, v>> \in Q
    <3>1. w \in ToSet(bw) /\ w \in ToSet(ws) /\ ~Inside(w, b)
      BY <1>5, <1>7
    <3>2. v \in ToSet(Held(b, ws)) /\ Inside(v, b)
      BY <1>1, <2>2, HeldInBox
    <3>3. v # w /\ b \in RuledTables(boxes, ws)
      BY <3>1, <3>2
    <3> QED BY <3>1, <3>2, <3>3, HeldReadable DEF Q
  <2>4. Across(ToSet(x.words), ToSet(y.words), Q) /\ Across(ToSet(y.words), ToSet(x.words), Q)
    BY <2>3 DEF Across
  <2> QED BY <2>1, <2>4 DEF Orderly, O
<1>15. /\ s \o c \in Seq(Thing) /\ ToSet(s \o c) = ToSet(s) \cup ToSet(c)
       /\ Pairwise(s \o c, O)
  <2>1. s \in Seq(Thing) /\ c \in Seq(Thing)
    BY <1>7, <1>8
  <2> QED BY ONLY <1>9, <1>12, <1>14, <2>1, PairsOn
<1>16. column \in Seq(Thing) /\ ToSet(column) = ToSet(s) \cup ToSet(c)
  <2>1. PICK items : items = s \o c
    OBVIOUS
  <2> QED BY <1>2, <1>15, <2>1, TopDownIs
<1>17. Pairwise(column, Follows(Q))
  <2>1. PICK items : items = s \o c
    OBVIOUS
  <2> QED BY <1>2, <1>15, <2>1, Followed DEF O
<1>18. ASSUME NEW x \in ToSet(column) PROVE Pairwise(x.words, Q)
  <2>1. CASE x \in ToSet(s)
    <3> SUFFICES ASSUME NEW i \in DOMAIN x.words, NEW j \in DOMAIN x.words, i < j
                 PROVE  <<x.words[i], x.words[j]>> \in Q
      BY DEF Pairwise
    <3>1. <<x.words[i], x.words[j]>> \in Nearly
      BY <1>7, <2>1 DEF Pairwise
    <3>2. x.words[i] \in ToSet(bw) /\ x.words[j] \in ToSet(bw)
      BY <1>7, <2>1 DEF ToSet
    <3> QED BY <1>10, <3>1, <3>2
  <2>2. CASE x \in ToSet(c)
    BY <1>13, <2>2, HeldKept DEF Q
  <2> QED BY <1>16, <2>1, <2>2
<1>19. ASSUME NEW x \in ToSet(column), NEW w \in ToSet(x.words)
       PROVE  w \in ToSet(ws) /\ InColumn(ruled, band, w)
  <2>1. CASE x \in ToSet(s)
    <3>1. w \in ToSet(bw)
      BY <1>7, <2>1
    <3> QED BY <1>5, <3>1 DEF InColumn
  <2>2. CASE x \in ToSet(c)
    <3>1. PICK b \in ruled : x.words = Held(b, ws)
      BY <1>13, <2>2
    <3>2. w \in ToSet(ws) /\ Inside(w, b)
      BY <1>1, <3>1, HeldInBox
    <3> QED BY <3>2 DEF InColumn
  <2> QED BY <1>16, <2>1, <2>2
<1>20. ASSUME NEW w \in ToSet(ws), InColumn(ruled, band, w)
       PROVE  \E x \in ToSet(column) : w \in ToSet(x.words)
  <2>1. CASE \E b \in ruled : Inside(w, b)
    <3>1. PICK b \in ruled : Inside(w, b)
      BY <2>1
    <3>2. PICK x : x = TableItem(b.top, Held(b, ws))
      OBVIOUS
    <3>3. x \in ToSet(column) /\ x.words = Held(b, ws)
      BY <1>8, <1>16, <3>2 DEF RuledThings, TableItem
    <3>4. w \in ToSet(Held(b, ws))
      BY <1>1, <3>1, HeldInBox
    <3> QED BY <3>3, <3>4
  <2>2. CASE ~\E b \in ruled : Inside(w, b)
    <3>1. w \in ToSet(bw)
      BY <1>3, <1>20, <2>2 DEF InColumn
    <3> QED BY <1>7, <1>16, <3>1
  <2> QED BY <2>1, <2>2
<1> QED BY <1>16, <1>17, <1>18, <1>19, <1>20 DEF ReadsDown, Q, band, column

(* The words of a column with its levels.                                  *)
LEMMA ColumnWordsKept ==
    ASSUME NEW Q, NEW c \in Seq(Marked), NEW column \in Seq(Thing),
           DOMAIN c = DOMAIN column, \A k \in DOMAIN c : c[k].item = column[k],
           Pairwise(column, Follows(Q)),
           \A x \in ToSet(column) : Pairwise(x.words, Q)
    PROVE  /\ Pairwise(ColumnWords(c), Q)
           /\ ToSet(ColumnWords(c)) = UNION {ToSet(x.words) : x \in ToSet(column)}
<1> DEFINE l == [k \in DOMAIN c |-> c[k].item.words]
<1>1. l \in Seq(Seq(Word))
  BY ItemWords
<1>2. ColumnWords(c) = FlattenSeq(l)
  BY DEF ColumnWords
<1>3. DOMAIN l = DOMAIN column /\ \A k \in DOMAIN l : l[k] = column[k].words
  OBVIOUS
<1>4. ToSet(column) = {column[k] : k \in DOMAIN column}
  BY DEF ToSet
<1> HIDE DEF l
<1>5. \A i \in DOMAIN l : Pairwise(l[i], Q)
  BY <1>3, <1>4
<1>6. \A i, j \in DOMAIN l : i < j => Across(ToSet(l[i]), ToSet(l[j]), Q)
  <2> SUFFICES ASSUME NEW i \in DOMAIN l, NEW j \in DOMAIN l, i < j
               PROVE  Across(ToSet(l[i]), ToSet(l[j]), Q)
    OBVIOUS
  <2>1. <<column[i], column[j]>> \in Follows(Q)
    BY <1>3 DEF Pairwise
  <2>2. Across(ToSet(column[i].words), ToSet(column[j].words), Q)
    BY <2>1 DEF Follows
  <2> QED BY <1>3, <2>2
<1>7. /\ ToSet(FlattenSeq(l)) = UNION {ToSet(l[i]) : i \in DOMAIN l}
      /\ Pairwise(FlattenSeq(l), Q)
  BY <1>1, <1>5, <1>6, FlattenPairs
<1>8. UNION {ToSet(l[i]) : i \in DOMAIN l} = UNION {ToSet(x.words) : x \in ToSet(column)}
  BY <1>3, <1>4
<1> QED BY <1>2, <1>7, <1>8

(* Columns from left to right.                                             *)
LEMMA ColumnsApart ==
    ASSUME NEW ws, IsSheet(ws), NEW boxes,
           NEW i \in DOMAIN ColumnBands(ws), NEW j \in DOMAIN ColumnBands(ws), i < j,
           NEW v \in ToSet(ws), NEW w \in ToSet(ws),
           InColumn(RuledIn(RuledTables(boxes, ws), ColumnBands(ws)[i]),
                    ColumnBands(ws)[i], v),
           InColumn(RuledIn(RuledTables(boxes, ws), ColumnBands(ws)[j]),
                    ColumnBands(ws)[j], w)
    PROVE  <<v, w>> \in Readable(ws, boxes)
<1> DEFINE bands == ColumnBands(ws)
           tables == RuledTables(boxes, ws)
           Lies(u, k) == InBand(u.x0 + u.x1, bands[k])
<1>1. ws \in Seq(Word) /\ ws # <<>>
  BY SheetOfWords DEF ColumnBands
<1>2. v \in Word /\ w \in Word
  BY <1>1 DEF ToSet
<1>3. i <= j
  <2>1. DOMAIN bands = 1 .. Len(bands)
    BY <1>1, BandsListed
  <2> HIDE DEF bands
  <2> QED BY <2>1
<1>4. ASSUME NEW u \in ToSet(ws), NEW k \in DOMAIN bands,
             InColumn(RuledIn(tables, bands[k]), bands[k], u)
      PROVE  /\ ~Ruled(ws, boxes, u) => Lies(u, k)
             /\ TablesApart(ws, boxes) => Lies(u, k)
  <2>1. CASE Lies(u, k)
    BY <2>1
  <2>2. CASE \E b \in RuledIn(tables, bands[k]) : Inside(u, b)
    <3>1. PICK b \in tables : InBand(b.x0 + b.x1, bands[k]) /\ Inside(u, b)
      BY <2>2 DEF RuledIn
    <3>2. Ruled(ws, boxes, u)
      BY <3>1 DEF Ruled
    <3>3. u \in ToSet(Held(b, ws))
      BY <1>1, <3>1, HeldInBox
    <3>4. bands[k] \in ToSet(bands)
      BY DEF ToSet
    <3>5. TablesApart(ws, boxes) => Lies(u, k)
      BY <3>1, <3>3, <3>4 DEF TablesApart
    <3> QED BY <3>2, <3>5
  <2> QED BY <1>4, <2>1, <2>2 DEF InColumn
<1>5. Lies(v, i) /\ Lies(w, j) => Between(ws, v, w) /\ ~Between(ws, w, v)
  BY <1>1, <1>3, BandsAre
<1>6. /\ ~Ruled(ws, boxes, v) => Lies(v, i)
      /\ TablesApart(ws, boxes) => Lies(v, i)
      /\ ~Ruled(ws, boxes, w) => Lies(w, j)
      /\ TablesApart(ws, boxes) => Lies(w, j)
  BY <1>4
<1> HIDE DEF Lies
<1>7. TablesApart(ws, boxes) => v # w
  BY <1>5, <1>6
<1>8. Ruled(ws, boxes, v) \/ Ruled(ws, boxes, w) \/ ReadsBefore(ws, v, w)
  BY <1>5, <1>6 DEF ReadsBefore
<1> QED BY <1>2, <1>7, <1>8 DEF Readable

(* The words of a page come out of its columns.                            *)
LEMMA ColumnsKept ==
    ASSUME NEW ws, IsSheet(ws), NEW boxes, IsFiniteSet(boxes), boxes \subseteq Frame
    PROVE  /\ Rest(Columns(ws, boxes)) \in Seq(Word)
           /\ Pairwise(Rest(Columns(ws, boxes)), Readable(ws, boxes))
           /\ ToSet(Rest(Columns(ws, boxes))) = ToSet(ws)
<1> DEFINE bands == ColumnBands(ws)
           tables == RuledTables(boxes, ws)
           ruled(k) == RuledIn(tables, bands[k])
           before == Unranked(ws, boxes)
           after == Columns(ws, boxes)
           all == AllIn(before)
           Q == Readable(ws, boxes)
           l == [k \in DOMAIN after |-> ColumnWords(after[k])]
<1>1. ws \in Seq(Word)
  BY SheetOfWords
<1>2. /\ before \in Seq(Seq(Thing)) /\ DOMAIN before = DOMAIN bands
      /\ \A k \in DOMAIN bands : before[k] = BandColumn(ws, ruled(k), bands[k])
      /\ IsFiniteSet(all) /\ all \subseteq Thing
  BY <1>1, UnrankedIs
<1>3. /\ after \in Seq(Seq(Marked)) /\ DOMAIN after = DOMAIN before
      /\ \A k \in DOMAIN before :
            /\ DOMAIN after[k] = DOMAIN before[k]
            /\ \A i \in DOMAIN before[k] :
                  after[k][i] = Levelled(before[k][i], all, ModalSize(ws))
  BY <1>1, ColumnsAre
<1>4. \A k \in DOMAIN bands : ReadsDown(ws, boxes, ruled(k), bands[k], before[k])
  <2> SUFFICES ASSUME NEW k \in DOMAIN bands
               PROVE  ReadsDown(ws, boxes, ruled(k), bands[k], before[k])
    OBVIOUS
  <2>1. IsFiniteSet(ruled(k)) /\ ruled(k) \subseteq Frame
    BY RuledFinite
  <2>2. ruled(k) \subseteq tables
    BY DEF RuledIn
  <2> HIDE DEF ruled
  <2>3. ReadsDown(ws, boxes, ruled(k), bands[k], BandColumn(ws, ruled(k), bands[k]))
    BY <2>1, <2>2, ColumnReadsDown
  <2> QED BY <1>2, <2>3
<1>5. l \in Seq(Seq(Word)) /\ Rest(after) \in Seq(Word) /\ Rest(after) = FlattenSeq(l)
  BY <1>3, ColumnsListed DEF Rest
<1>6. DOMAIN l = DOMAIN bands /\ \A k \in DOMAIN l : l[k] = ColumnWords(after[k])
  BY <1>2, <1>3
<1> HIDE DEF l, after, before, all, ruled, bands
<1>7. ASSUME NEW k \in DOMAIN l
      PROVE  /\ Pairwise(l[k], Q)
             /\ ToSet(l[k]) = UNION {ToSet(x.words) : x \in ToSet(before[k])}
  <2>1. /\ before[k] \in Seq(Thing) /\ Pairwise(before[k], Follows(Q))
        /\ \A x \in ToSet(before[k]) : Pairwise(x.words, Q)
    BY <1>4, <1>6 DEF ReadsDown
  <2>2. after[k] \in Seq(Marked) /\ DOMAIN after[k] = DOMAIN before[k]
    <3> DEFINE S == Seq(Marked)
    <3>1. after \in Seq(S) /\ k \in DOMAIN after
      BY <1>2, <1>3, <1>6
    <3> HIDE DEF S
    <3>2. after[k] \in S
      BY <3>1
    <3> QED BY <1>2, <1>3, <1>6, <3>2 DEF S
  <2>3. \A i \in DOMAIN after[k] : after[k][i].item = before[k][i]
    <3> SUFFICES ASSUME NEW i \in DOMAIN after[k] PROVE after[k][i].item = before[k][i]
      OBVIOUS
    <3>1. before[k][i] \in all
      BY <1>2, <1>6, <2>2 DEF all, AllIn, ToSet
    <3>2. Levelled(before[k][i], all, ModalSize(ws)).item = before[k][i]
      BY <1>2, <3>1, LevelledIs
    <3> QED BY <1>2, <1>3, <1>6, <2>2, <3>2
  <2>4. PICK c, d : c = after[k] /\ d = before[k]
    OBVIOUS
  <2>5. /\ Pairwise(ColumnWords(c), Q)
        /\ ToSet(ColumnWords(c)) = UNION {ToSet(x.words) : x \in ToSet(d)}
    <3>1. /\ d \in Seq(Thing) /\ Pairwise(d, Follows(Q)) /\ c \in Seq(Marked)
          /\ \A x \in ToSet(d) : Pairwise(x.words, Q)
          /\ DOMAIN c = DOMAIN d /\ \A i \in DOMAIN c : c[i].item = d[i]
      BY <2>1, <2>2, <2>3, <2>4
    <3> HIDE DEF Q
    <3> QED BY ONLY <3>1, ColumnWordsKept
  <2> QED BY <1>6, <2>4, <2>5
<1>8. \A k \in DOMAIN l : \A w \in ToSet(l[k]) :
         w \in ToSet(ws) /\ InColumn(ruled(k), bands[k], w)
  <2> SUFFICES ASSUME NEW k \in DOMAIN l, NEW w \in ToSet(l[k])
               PROVE  w \in ToSet(ws) /\ InColumn(ruled(k), bands[k], w)
    OBVIOUS
  <2>1. PICK x \in ToSet(before[k]) : w \in ToSet(x.words)
    BY <1>7
  <2> QED BY <1>4, <1>6, <2>1 DEF ReadsDown
<1>9. ASSUME NEW i \in DOMAIN l, NEW j \in DOMAIN l, i < j
      PROVE  Across(ToSet(l[i]), ToSet(l[j]), Q)
  <2> SUFFICES ASSUME NEW v \in ToSet(l[i]), NEW w \in ToSet(l[j]) PROVE <<v, w>> \in Q
    BY DEF Across
  <2>1. /\ v \in ToSet(ws) /\ InColumn(ruled(i), bands[i], v)
        /\ w \in ToSet(ws) /\ InColumn(ruled(j), bands[j], w)
    BY <1>8
  <2>2. /\ i \in DOMAIN ColumnBands(ws) /\ j \in DOMAIN ColumnBands(ws)
        /\ InColumn(RuledIn(RuledTables(boxes, ws), ColumnBands(ws)[i]),
                    ColumnBands(ws)[i], v)
        /\ InColumn(RuledIn(RuledTables(boxes, ws), ColumnBands(ws)[j]),
                    ColumnBands(ws)[j], w)
    BY <1>6, <2>1 DEF ruled, bands
  <2> QED BY <1>9, <2>1, <2>2, ColumnsApart
<1>10. /\ ToSet(FlattenSeq(l)) = UNION {ToSet(l[k]) : k \in DOMAIN l}
       /\ Pairwise(FlattenSeq(l), Q)
  <2>1. /\ \A i \in DOMAIN l : Pairwise(l[i], Q)
        /\ \A i, j \in DOMAIN l : i < j => Across(ToSet(l[i]), ToSet(l[j]), Q)
    BY <1>7, <1>9
  <2> HIDE DEF Q
  <2> QED BY ONLY <1>5, <2>1, FlattenPairs
<1>11. ASSUME NEW w \in ToSet(ws) PROVE \E k \in DOMAIN l : w \in ToSet(l[k])
  <2>1. \E k \in DOMAIN bands : InColumn(ruled(k), bands[k], w)
    <3>1. ws # <<>>
      BY <1>1 DEF ToSet
    <3>2. PICK k \in DOMAIN bands : InBand(w.x0 + w.x1, bands[k])
      BY <3>1, BandsAre DEF bands
    <3> QED BY <3>2 DEF InColumn
  <2>2. PICK k \in DOMAIN bands : InColumn(ruled(k), bands[k], w)
    BY <2>1
  <2>3. PICK x \in ToSet(before[k]) : w \in ToSet(x.words)
    BY <1>4, <2>2 DEF ReadsDown
  <2> QED BY <1>6, <1>7, <2>3
<1>12. UNION {ToSet(l[k]) : k \in DOMAIN l} = ToSet(ws)
  BY <1>8, <1>11
<1> QED BY <1>5, <1>10, <1>12 DEF after, Q

(* "Its cell words are pulled out of the prose flow", "a two-column page   *)
(* is emitted left-column-first instead of interleaving the two"           *)
(* (parsing/pdf.py): for any words, boxes and thresholds a page is written *)
(* with each of its words once, and in the order they are read in.         *)
THEOREM SheetsKeptWhole == Spec => []SheetKept
<1>1. ASSUME PagesInv, SheetInv PROVE SheetKept
  <2>1. CASE SheetMade
    <3>1. IsSheet(Words) /\ doc.boxes \in Boxes /\ Made = Rest(Columns(Words, doc.boxes))
      BY <1>1, <2>1, SheetIsMade
    <3>2. PICK ws, boxes, made : ws = Words /\ boxes = doc.boxes /\ made = Made
      OBVIOUS
    <3>3. IsFiniteSet(boxes) /\ boxes \subseteq Frame
      BY <3>1, <3>2, BoxesAre
    <3>4. /\ made \in Seq(Word) /\ Pairwise(made, Readable(ws, boxes))
          /\ ToSet(made) = ToSet(ws)
      BY <3>1, <3>2, <3>3, ColumnsKept
    <3>5. \A i, j \in DOMAIN made : i < j =>
             /\ TablesApart(ws, boxes) => made[i] # made[j]
             /\ \/ Ruled(ws, boxes, made[i]) \/ Ruled(ws, boxes, made[j])
                \/ ReadsBefore(ws, made[i], made[j])
      BY <3>4 DEF Pairwise, Readable
    <3>6. TablesApart(ws, boxes) => IsInjective(made)
      <4> SUFFICES ASSUME TablesApart(ws, boxes), NEW i \in DOMAIN made, NEW j \in DOMAIN made,
                          made[i] = made[j]
                   PROVE  i = j
        BY DEF IsInjective
      <4>1. i = j \/ i < j \/ j < i
        BY <3>4
      <4> QED BY <3>5, <4>1
    <3>7. ContentOnce
      BY <3>2, <3>4, <3>6 DEF ContentOnce
    <3>8. ReadingOrder
      BY <3>2, <3>5 DEF ReadingOrder
    <3> QED BY <3>7, <3>8 DEF SheetKept
  <2>2. CASE ~SheetMade
    BY <2>2 DEF SheetKept, ContentOnce, ReadingOrder
  <2> QED BY <2>1, <2>2
<1> QED BY <1>1, PathsKeepOrder, PTL
=============================================================================
