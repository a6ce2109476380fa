--------------------------- MODULE ChunkingProofs ---------------------------
(* Proofs about Chunking, for every budget, overlap and body.  The first   *)
(* half is about sizes: it only compares what a join costs (LineTokens,    *)
(* Joined) with the budget.  The second half is about places: which block, *)
(* unit and chunk each line is in, and what the lines of a unit cost.      *)
EXTENDS Chunking, SequenceTheorems, WellFoundedInduction, TLAPS

IsSeq(s) == s \in Seq(Range(s))

BlockOK(b) ==
    /\ b.from \in Nat \ {0} /\ b.to \in Nat
    /\ b.from <= b.to /\ b.to <= Len(body)
    /\ b.kind \in {"prose", "table"}
    /\ b.kind = "table" => StartsTable(b.from) /\ b.to >= b.from + 1

(* A unit is within the budget, or nothing can be done about it.           *)
UnitOK(u) == u.tokens <= Size \/ Irreducible(u)

(* An interval that ends just before the place the pass is at.             *)
UpTo(i) == i.from \in Nat \ {0} /\ i.to = at - 1 /\ i.from <= i.to

Tight(c) == c.from = c.to \/ Joined(c.from, c.to) <= Size

ChunkOK(c) ==
    /\ c.from \in Nat \ {0} /\ c.to \in Nat
    /\ c.from <= c.to /\ c.to <= Len(units) /\ Tight(c)

(* The next chunk begins where this one ends, and could not have before.   *)
Follows(c, d) == d.from = c.to + 1 /\ ~(Joined(c.from, d.from) <= Size)

ScanInv ==
    /\ phase \in {"scan", "table"} => at <= Len(body) + 1
    /\ phase = "scan" =>
        \/ open = Empty
        \/ /\ open.from \in Nat \ {0} /\ open.to \in Nat
           /\ open.from <= open.to /\ open.to < at
    /\ phase = "table" =>
        /\ UpTo(open) /\ open.from < open.to
        /\ StartsTable(open.from)

SizeInv ==
    /\ phase \in {"size", "prose"} => open = Empty
    /\ phase \in {"rows", "prose"} =>
        next \in DOMAIN blocks /\ at \in Nat \ {0} /\ at <= blocks[next].to + 1
    /\ phase = "rows" =>
        \/ open = Empty /\ at <= blocks[next].to
        \/ UpTo(open) /\ (open.from = open.to \/ Piece(open.from, open.to).tokens <= Size)

PackInv ==
    /\ phase \notin {"pack", "done"} => chunks = <<>>
    /\ phase = "pack" =>
        /\ at <= Len(units) + 1
        /\ \/ open = Empty /\ chunks = <<>> /\ at = 1
           \/ /\ UpTo(open) /\ Tight(open)
              /\ chunks # <<>> => Follows(chunks[Len(chunks)], open)

DataInv ==
    /\ phase \in {"scan", "table", "size", "rows", "prose", "pack", "done"}
    /\ body \in Body
    /\ at \in Nat \ {0}
    /\ IsSeq(blocks) /\ \A i \in DOMAIN blocks : BlockOK(blocks[i])
    /\ IsSeq(units) /\ \A i \in DOMAIN units : UnitOK(units[i])
    /\ IsSeq(chunks) /\ \A i \in DOMAIN chunks : ChunkOK(chunks[i])
    /\ \A i \in DOMAIN chunks \ {1} : Follows(chunks[i - 1], chunks[i])

Inv == DataInv /\ ScanInv /\ SizeInv /\ PackInv

-----------------------------------------------------------------------------
(* Sequences whose elements have no type of their own.                     *)

LEMMA SeqFacts ==
  ASSUME NEW s, IsSeq(s)
  PROVE  Len(s) \in Nat /\ DOMAIN s = 1..Len(s)
  BY LenProperties DEF IsSeq

LEMMA RangeSeq ==
  ASSUME NEW S, NEW s \in Seq(S)
  PROVE  IsSeq(s)
  <1>1. Len(s) \in Nat /\ DOMAIN s = 1..Len(s) /\ s \in [1..Len(s) -> S]
    BY LenProperties
  <1>2. s \in [1..Len(s) -> Range(s)]
    BY <1>1 DEF Range
  <1> QED
    BY <1>1, <1>2 DEF IsSeq

LEMMA NoElements ==
  ASSUME NEW s, s = <<>>
  PROVE  IsSeq(s) /\ Len(s) = 0
  <1>1. s \in Seq({}) /\ Len(s) = 0
    BY s = <<>>
  <1>2. IsSeq(s)
    BY <1>1, RangeSeq
  <1>3. QED
    BY <1>1, <1>2

LEMMA Appended ==
  ASSUME NEW s, IsSeq(s), NEW e
  PROVE  /\ IsSeq(Append(s, e))
         /\ DOMAIN Append(s, e) = 1 .. Len(s) + 1 /\ Len(Append(s, e)) = Len(s) + 1
         /\ \A i \in 1..Len(s) : Append(s, e)[i] = s[i]
         /\ Append(s, e)[Len(s) + 1] = e
  <1> DEFINE S == Range(s) \cup {e}
  <1>1. s \in [1..Len(s) -> Range(s)] /\ Len(s) \in Nat
    BY LenProperties DEF IsSeq
  <1>2. s \in [1..Len(s) -> S]
    BY <1>1
  <1>3. s \in Seq(S) /\ e \in S
    BY <1>1, <1>2
  <1> HIDE DEF S
  <1>4. Append(s, e) \in Seq(S)
    BY <1>3, AppendProperties
  <1>5. IsSeq(Append(s, e))
    BY <1>4, RangeSeq
  <1>6. /\ Len(Append(s, e)) = Len(s) + 1
        /\ \A i \in 1..Len(s) : Append(s, e)[i] = s[i]
        /\ Append(s, e)[Len(s) + 1] = e
    BY <1>3, AppendProperties
  <1> QED
    BY <1>4, <1>5, <1>6, LenProperties

LEMMA Concatenated ==
  ASSUME NEW s, IsSeq(s), NEW t, IsSeq(t)
  PROVE  /\ IsSeq(s \o t)
         /\ DOMAIN (s \o t) = 1 .. Len(s) + Len(t)
         /\ \A i \in 1 .. Len(s) : (s \o t)[i] = s[i]
         /\ \A i \in 1 .. Len(s) + Len(t) : ~(i <= Len(s)) => i - Len(s) \in DOMAIN t /\ (s \o t)[i] = t[i - Len(s)]
  <1> DEFINE S == Range(s) \cup Range(t)
  <1>1. /\ s \in [1..Len(s) -> Range(s)] /\ Len(s) \in Nat
        /\ t \in [1..Len(t) -> Range(t)] /\ Len(t) \in Nat
        /\ DOMAIN t = 1..Len(t)
    BY LenProperties DEF IsSeq
  <1>2. s \in [1..Len(s) -> S] /\ t \in [1..Len(t) -> S]
    BY <1>1
  <1>3. s \in Seq(S) /\ t \in Seq(S)
    BY <1>1, <1>2
  <1> HIDE DEF S
  <1>4. s \o t \in Seq(S) /\ Len(s \o t) = Len(s) + Len(t)
    BY <1>3, ConcatProperties
  <1>5. \A i \in 1 .. Len(s) + Len(t) :
            (s \o t)[i] = IF i <= Len(s) THEN s[i] ELSE t[i - Len(s)]
    BY <1>3, ConcatProperties
  <1>6. DOMAIN (s \o t) = 1 .. Len(s) + Len(t) /\ IsSeq(s \o t)
    BY <1>4, LenProperties, RangeSeq
  <1> QED
    BY <1>1, <1>5, <1>6

(* A body is a sequence of lines.                                          *)
LEMMA BodyFacts ==
  ASSUME body \in Body
  PROVE  /\ Len(body) \in Nat \ {0} /\ DOMAIN body = 1..Len(body)
         /\ \A k \in 1..Len(body) : body[k] \in Line /\ body[k].tokens \in Nat
  <1>1. PICK n \in 1..MaxLines : body \in [1..n -> Line]
    BY ChunkingAssumption DEF Body
  <1>2. n \in Nat \ {0}
    BY <1>1, ChunkingAssumption
  <1>3. body \in Seq(Line) /\ Len(body) = n
    BY <1>1, <1>2
  <1>4. ASSUME NEW l \in Line PROVE l.tokens \in Nat
    <2>1. CASE l \in [kind : {"prose", "row", "delimiter"}, tokens : Tokens]
      BY <2>1, ChunkingAssumption
    <2>2. CASE l \in [kind : {"blank"}, tokens : {0}]
      BY <2>2
    <2> QED
      BY <1>4, <2>1, <2>2 DEF Line
  <1> QED
    BY <1>1, <1>2, <1>3, <1>4

-----------------------------------------------------------------------------
LEMMA InitInv == Init => Inv
  <1> SUFFICES ASSUME NEW b \in Body, Begin(b) PROVE Inv
    BY DEF Init
  <1>1. /\ IsSeq(blocks) /\ DOMAIN blocks = {}
        /\ IsSeq(units) /\ DOMAIN units = {}
        /\ IsSeq(chunks) /\ DOMAIN chunks = {}
    BY NoElements, SeqFacts DEF Begin
  <1>2. Len(body) \in Nat \ {0}
    BY BodyFacts DEF Begin
  <1> QED
    BY <1>1, <1>2 DEF Begin, Inv, DataInv, ScanInv, SizeInv, PackInv

-----------------------------------------------------------------------------
(* A step that leaves the body alone changes neither what a block is nor   *)
(* what cannot be split, and one that leaves the units alone not a chunk.  *)
LEMMA SameBody ==
  ASSUME body' = body
  PROVE  /\ \A b : BlockOK(b)' <=> BlockOK(b)
         /\ \A u : UnitOK(u)' <=> UnitOK(u)
         /\ \A k : StartsTable(k)' <=> StartsTable(k)
  BY DEF BlockOK, UnitOK, Irreducible, StartsTable, IsTableRow

LEMMA SameUnits ==
  ASSUME units' = units
  PROVE  /\ \A c : ChunkOK(c)' <=> ChunkOK(c)
         /\ \A c, d : Follows(c, d)' <=> Follows(c, d)
  BY DEF ChunkOK, Follows, Tight, Joined

(* Chunks are the last thing that is made.                                 *)
LEMMA NoChunks ==
  ASSUME chunks = <<>>
  PROVE  IsSeq(chunks) /\ DOMAIN chunks = {}
  BY NoElements, SeqFacts

LEMMA Singleton ==
  ASSUME NEW e, NEW s, s = <<e>>
  PROVE  IsSeq(s) /\ DOMAIN s = {1} /\ s[1] = e
  <1>1. s \in Seq({e}) /\ Len(s) = 1 /\ s[1] = e
    OBVIOUS
  <1>2. DOMAIN s = 1..1
    BY <1>1, LenProperties
  <1>3. 1..1 = {1}
    OBVIOUS
  <1> QED
    BY <1>1, <1>2, <1>3, RangeSeq

LEMMA FlushedOK ==
  ASSUME Inv, phase = "scan"
  PROVE  IsSeq(Flushed) /\ \A i \in DOMAIN Flushed : BlockOK(Flushed[i])
  <1>1. CASE IsEmpty(open)
    BY <1>1, NoElements DEF Flushed
  <1>2. CASE ~IsEmpty(open)
    <2>1. open # Empty
      BY <1>2 DEF IsEmpty, Empty
    <2> DEFINE b == [kind |-> "prose", from |-> open.from, to |-> open.to]
    <2>2. BlockOK(b)
      BY <2>1, BodyFacts DEF Inv, DataInv, ScanInv, BlockOK
    <2> HIDE DEF b
    <2>3. Flushed = <<b>>
      BY <1>2 DEF Flushed, b
    <2> QED
      BY <2>2, <2>3, Singleton
  <1> QED
    BY <1>1, <1>2

(* Blocks, or units, that are added to those there are.                    *)
LEMMA MoreBlocks ==
  ASSUME Inv, NEW t, IsSeq(t), \A i \in DOMAIN t : BlockOK(t[i])
  PROVE  IsSeq(blocks \o t) /\ \A i \in DOMAIN (blocks \o t) : BlockOK((blocks \o t)[i])
  <1> DEFINE r == blocks \o t
  <1>1. IsSeq(blocks) /\ Len(blocks) \in Nat /\ \A i \in 1..Len(blocks) : BlockOK(blocks[i])
    BY SeqFacts DEF Inv, DataInv
  <1>2. /\ IsSeq(r) /\ DOMAIN r = 1 .. Len(blocks) + Len(t) /\ Len(t) \in Nat
        /\ \A i \in 1..Len(blocks) : r[i] = blocks[i]
        /\ \A i \in 1 .. Len(blocks) + Len(t) :
              ~(i <= Len(blocks)) => i - Len(blocks) \in DOMAIN t /\ r[i] = t[i - Len(blocks)]
    BY <1>1, Concatenated, SeqFacts
  <1> HIDE DEF r
  <1>3. ASSUME NEW i \in DOMAIN r PROVE BlockOK(r[i])
    <2>1. CASE i <= Len(blocks)
      BY <1>1, <1>2, <2>1
    <2>2. CASE ~(i <= Len(blocks))
      BY <1>2, <2>2
    <2> QED
      BY <2>1, <2>2
  <1> QED
    BY <1>2, <1>3 DEF r

LEMMA MoreUnits ==
  ASSUME Inv, NEW t, IsSeq(t), \A i \in DOMAIN t : UnitOK(t[i])
  PROVE  IsSeq(units \o t) /\ \A i \in DOMAIN (units \o t) : UnitOK((units \o t)[i])
  <1> DEFINE r == units \o t
  <1>1. IsSeq(units) /\ Len(units) \in Nat /\ \A i \in 1..Len(units) : UnitOK(units[i])
    BY SeqFacts DEF Inv, DataInv
  <1>2. /\ IsSeq(r) /\ DOMAIN r = 1 .. Len(units) + Len(t) /\ Len(t) \in Nat
        /\ \A i \in 1..Len(units) : r[i] = units[i]
        /\ \A i \in 1 .. Len(units) + Len(t) :
              ~(i <= Len(units)) => i - Len(units) \in DOMAIN t /\ r[i] = t[i - Len(units)]
    BY <1>1, Concatenated, SeqFacts
  <1> HIDE DEF r
  <1>3. ASSUME NEW i \in DOMAIN r PROVE UnitOK(r[i])
    <2>1. CASE i <= Len(units)
      BY <1>1, <1>2, <2>1
    <2>2. CASE ~(i <= Len(units))
      BY <1>2, <2>2
    <2> QED
      BY <2>1, <2>2
  <1> QED
    BY <1>2, <1>3 DEF r

LEMMA AnotherUnit ==
  ASSUME Inv, NEW u, UnitOK(u)
  PROVE  IsSeq(Append(units, u)) /\ \A i \in DOMAIN Append(units, u) : UnitOK(Append(units, u)[i])
  BY Appended, SeqFacts DEF Inv, DataInv

-----------------------------------------------------------------------------
LEMMA ScanProseInv == Inv /\ ScanProse => Inv'
  <1> SUFFICES ASSUME Inv, ScanProse PROVE Inv'
    OBVIOUS
  <1> USE DEF Inv, ScanProse
  <1>1. DataInv'
    BY SameBody, SameUnits DEF DataInv
  <1>2. ScanInv'
    BY BodyFacts DEF ScanInv, DataInv, Grown, IsEmpty, Empty
  <1>3. SizeInv' /\ PackInv'
    BY DEF SizeInv, PackInv
  <1> QED
    BY <1>1, <1>2, <1>3

LEMMA OpenTableInv == Inv /\ OpenTable => Inv'
  <1> SUFFICES ASSUME Inv, OpenTable PROVE Inv'
    OBVIOUS
  <1>1. DataInv'
    BY FlushedOK, MoreBlocks, SameBody, SameUnits DEF OpenTable, Inv, DataInv
  <1> USE DEF Inv, OpenTable
  <1>2. ScanInv'
    BY BodyFacts DEF ScanInv, DataInv, StartsTable, IsTableRow, UpTo
  <1>3. SizeInv' /\ PackInv'
    BY DEF SizeInv, PackInv
  <1> QED
    BY <1>1, <1>2, <1>3

LEMMA GrowTableInv == Inv /\ GrowTable => Inv'
  <1> SUFFICES ASSUME Inv, GrowTable PROVE Inv'
    OBVIOUS
  <1> USE DEF Inv, GrowTable
  <1>1. DataInv'
    BY SameBody, SameUnits DEF DataInv
  <1>2. ScanInv'
    BY BodyFacts, SameBody DEF ScanInv, DataInv, Grown, IsEmpty, UpTo
  <1>3. SizeInv' /\ PackInv'
    BY DEF SizeInv, PackInv
  <1> QED
    BY <1>1, <1>2, <1>3

LEMMA CloseTableInv == Inv /\ CloseTable => Inv'
  <1> SUFFICES ASSUME Inv, CloseTable PROVE Inv'
    OBVIOUS
  <1> DEFINE b == [kind |-> "table", from |-> open.from, to |-> open.to]
  <1>1. BlockOK(b)
    BY BodyFacts DEF Inv, CloseTable, DataInv, ScanInv, UpTo, BlockOK
  <1> HIDE DEF b
  <1>2. blocks' = Append(blocks, b)
    BY DEF CloseTable, b
  <1>3. DataInv'
    BY <1>1, <1>2, Appended, SeqFacts, SameBody, SameUnits DEF CloseTable, Inv, DataInv
  <1>4. ScanInv' /\ SizeInv' /\ PackInv'
    BY DEF CloseTable, Inv, ScanInv, SizeInv, PackInv
  <1> QED
    BY <1>3, <1>4 DEF Inv

LEMMA EndScanInv == Inv /\ EndScan => Inv'
  <1> SUFFICES ASSUME Inv, EndScan PROVE Inv'
    OBVIOUS
  <1>1. DataInv'
    BY FlushedOK, MoreBlocks, SameBody, SameUnits DEF EndScan, Inv, DataInv
  <1>2. ScanInv' /\ SizeInv' /\ PackInv'
    BY DEF EndScan, Inv, ScanInv, SizeInv, PackInv
  <1> QED
    BY <1>1, <1>2 DEF Inv

-----------------------------------------------------------------------------
LEMMA SizeWholeInv == Inv /\ SizeWhole => Inv'
  <1> SUFFICES ASSUME Inv, SizeWhole PROVE Inv'
    OBVIOUS
  <1> DEFINE b == blocks[at]
             u == Unit(0, b.from, b.to)
  <1>1. BlockOK(b)
    BY SeqFacts DEF Inv, DataInv, SizeWhole
  <1>2. UnitOK(u)
    <2>1. u.header = 0 /\ u.from = b.from /\ u.to = b.to /\ u.tokens = LineTokens(b.from, b.to)
      BY DEF Unit
    <2>2. CASE Fits(b)
      BY <2>1, <2>2 DEF Fits, UnitOK
    <2>3. CASE b.kind = "table" /\ Degenerate(b)
      BY <1>1, <2>1, <2>3 DEF UnitOK, Irreducible, BlockOK, Degenerate
    <2> HIDE DEF u
    <2> QED
      BY <2>2, <2>3 DEF SizeWhole
  <1>3. units' = Append(units, u)
    BY DEF SizeWhole
  <1> HIDE DEF u, b
  <1>4. DataInv'
    BY <1>2, <1>3, AnotherUnit, NoChunks, SeqFacts, SameBody
    DEF SizeWhole, Inv, DataInv, PackInv
  <1>5. ScanInv' /\ SizeInv' /\ PackInv'
    BY DEF SizeWhole, Inv, ScanInv, SizeInv, PackInv
  <1> QED
    BY <1>4, <1>5 DEF Inv

LEMMA SplitProseInv == Inv /\ SplitProse => Inv'
  <1> SUFFICES ASSUME Inv, SplitProse PROVE Inv'
    OBVIOUS
  <1>1. at \in DOMAIN blocks /\ BlockOK(blocks[at])
    BY SeqFacts DEF Inv, DataInv, SplitProse
  <1>2. DataInv'
    BY <1>1, SameBody, SameUnits DEF SplitProse, Inv, DataInv, BlockOK
  <1>3. SizeInv'
    BY <1>1 DEF SplitProse, Inv, SizeInv, BlockOK
  <1>4. ScanInv' /\ PackInv'
    BY DEF SplitProse, Inv, ScanInv, PackInv
  <1> QED
    BY <1>2, <1>3, <1>4 DEF Inv

LEMMA TakeProseInv == Inv /\ TakeProse => Inv'
  <1> SUFFICES ASSUME Inv, TakeProse PROVE Inv'
    OBVIOUS
  <1>1. next \in DOMAIN blocks /\ BlockOK(blocks[next])
    BY DEF Inv, DataInv, SizeInv, TakeProse
  <1>2. PICK from \in blocks[next].from .. at, to \in at .. blocks[next].to :
            /\ LineTokens(from, to) <= Size
            /\ units' = Append(units, Unit(0, from, to))
            /\ at' = to + 1
    BY DEF TakeProse
  <1>3. UnitOK(Unit(0, from, to))
    BY <1>2 DEF UnitOK, Unit
  <1>4. at' \in Nat \ {0} /\ at' <= blocks[next].to + 1
    BY <1>1, <1>2 DEF Inv, DataInv, BlockOK
  <1>5. DataInv'
    BY <1>2, <1>3, <1>4, AnotherUnit, NoChunks, SeqFacts, SameBody
    DEF TakeProse, Inv, DataInv, PackInv
  <1>6. SizeInv'
    BY <1>1, <1>4 DEF TakeProse, Inv, SizeInv
  <1>7. ScanInv' /\ PackInv'
    BY DEF TakeProse, Inv, ScanInv, PackInv
  <1> QED
    BY <1>5, <1>6, <1>7 DEF Inv

LEMMA SharedOK == Shared \in Nat /\ Shared < Size
  <1>1. Overlap \in Nat /\ Size - 1 \in Nat
    BY ChunkingAssumption
  <1>2. \E x \in {Overlap, Size - 1} : \A y \in {Overlap, Size - 1} : x <= y
    <2> DEFINE d == Size - 1
    <2> HIDE DEF d
    <2>1. \E x \in {Overlap, d} : \A y \in {Overlap, d} : x <= y
      <3>1. Overlap \in Int /\ d \in Int
        BY <1>1 DEF d
      <3>2. CASE Overlap <= d
        <4> WITNESS Overlap \in {Overlap, d}
        <4> QED
          BY <3>1, <3>2
      <3>3. CASE d <= Overlap
        <4> WITNESS d \in {Overlap, d}
        <4> QED
          BY <3>1, <3>3
      <3> QED
        BY <3>1, <3>2, <3>3
    <2> QED
      BY <2>1 DEF d
  <1>3. Shared \in {Overlap, Size - 1} /\ Shared <= Size - 1
    BY <1>2 DEF Shared, Min
  <1> QED
    BY <1>1, <1>3, ChunkingAssumption

LEMMA CutLineInv == Inv /\ CutLine => Inv'
  <1> SUFFICES ASSUME Inv, CutLine PROVE Inv'
    OBVIOUS
  <1> DEFINE stride == Size - Shared
             n == (body[at].tokens - Shared + stride - 1) \div stride
             piece(p) == [header |-> 0, from |-> at, to |-> at,
                          tokens |-> LET left == body[at].tokens - (p - 1) * stride
                                     IN  IF left > Size THEN Size ELSE left]
             t == [p \in 1..n |-> piece(p)]
  <1>1. next \in DOMAIN blocks /\ BlockOK(blocks[next]) /\ at \in Nat \ {0} /\ at <= blocks[next].to
    BY DEF Inv, DataInv, SizeInv, CutLine
  <1>2. body[at].tokens \in Nat
    BY <1>1, BodyFacts DEF Inv, DataInv, BlockOK
  <1>3. stride \in Nat \ {0} /\ body[at].tokens - Shared + stride - 1 \in Nat
    <2>1. /\ Size \in Int /\ Shared \in Int /\ Shared < Size
          /\ body[at].tokens \in Int /\ body[at].tokens > Size
      BY <1>2, SharedOK, ChunkingAssumption DEF CutLine
    <2> QED
      BY ONLY <2>1
  <1>4. n \in Nat
    <2> DEFINE a == body[at].tokens - Shared + stride - 1
    <2>1. a \in Nat /\ stride \in Nat \ {0}
      BY <1>3
    <2> HIDE DEF a, stride
    <2>2. a \div stride \in Nat
      BY <2>1
    <2> QED
      BY <2>2 DEF a
  <1> HIDE DEF n, stride
  <1>5. ASSUME NEW p \in 1..n PROVE piece(p).tokens <= Size
    <2>1. p - 1 \in Int /\ stride \in Int
      BY <1>3, <1>4
    <2> DEFINE left == body[at].tokens - (p - 1) * stride
    <2>2. left \in Int
      BY <1>2, <2>1
    <2> HIDE DEF left
    <2>3. piece(p).tokens = IF left > Size THEN Size ELSE left
      BY DEF left
    <2> QED
      BY <2>2, <2>3, ChunkingAssumption
  <1> HIDE DEF piece
  <1>6. IsSeq(t) /\ DOMAIN t = 1..n
    <2>1. t \in [1..n -> {piece(p) : p \in 1..n}]
      OBVIOUS
    <2>2. t \in Seq({piece(p) : p \in 1..n})
      BY <1>4, <2>1
    <2> QED
      BY <2>2, RangeSeq
  <1>7. \A p \in DOMAIN t : UnitOK(t[p])
    BY <1>5, <1>6 DEF UnitOK
  <1>8. units' = units \o t
    BY DEF CutLine, n, stride, piece
  <1> HIDE DEF t
  <1>9. DataInv'
    <2>1. IsSeq(units') /\ \A i \in DOMAIN units' : UnitOK(units'[i])
      BY <1>6, <1>7, <1>8, MoreUnits
    <2>2. phase = "prose" /\ at' = at + 1 /\ UNCHANGED <<phase, body, blocks, chunks>>
      BY DEF CutLine
    <2> QED
      BY <2>1, <2>2, NoChunks, SameBody DEF Inv, DataInv, PackInv
  <1>10. SizeInv'
    BY <1>1 DEF CutLine, Inv, SizeInv, BlockOK
  <1>11. ScanInv' /\ PackInv'
    BY DEF CutLine, Inv, ScanInv, PackInv
  <1> QED
    BY <1>9, <1>10, <1>11 DEF Inv

LEMMA SkipBlankInv == Inv /\ SkipBlank => Inv'
  <1> SUFFICES ASSUME Inv, SkipBlank PROVE Inv'
    OBVIOUS
  <1>1. BlockOK(blocks[next])
    BY DEF Inv, DataInv, SizeInv, SkipBlank
  <1>2. DataInv'
    BY SameBody, SameUnits DEF SkipBlank, Inv, DataInv
  <1>3. SizeInv'
    BY <1>1 DEF SkipBlank, Inv, DataInv, SizeInv, BlockOK
  <1>4. ScanInv' /\ PackInv'
    BY DEF SkipBlank, Inv, ScanInv, PackInv
  <1> QED
    BY <1>2, <1>3, <1>4 DEF Inv

LEMMA EndProseInv == Inv /\ EndProse => Inv'
  <1> SUFFICES ASSUME Inv, EndProse PROVE Inv'
    OBVIOUS
  <1>1. next \in Nat
    BY SeqFacts DEF Inv, DataInv, SizeInv, EndProse
  <1>2. DataInv'
    BY <1>1, SameBody, SameUnits DEF EndProse, Inv, DataInv
  <1>3. open = Empty
    BY DEF EndProse, Inv, SizeInv
  <1>4. ScanInv' /\ SizeInv' /\ PackInv'
    BY <1>3 DEF EndProse, Inv, ScanInv, SizeInv, PackInv
  <1> QED
    BY <1>2, <1>4 DEF Inv

LEMMA SplitTableInv == Inv /\ SplitTable => Inv'
  <1> SUFFICES ASSUME Inv, SplitTable PROVE Inv'
    OBVIOUS
  <1>1. at \in DOMAIN blocks /\ BlockOK(blocks[at])
    BY SeqFacts DEF Inv, DataInv, SplitTable
  <1>2. at' = blocks[at].from + 2 /\ at' <= blocks[at].to /\ at' \in Nat \ {0}
    BY <1>1, BodyFacts, SMTT(30) DEF SplitTable, Degenerate, BlockOK, Inv, DataInv
  <1>3. DataInv'
    BY <1>2, SameBody, SameUnits DEF SplitTable, Inv, DataInv
  <1>4. SizeInv'
    BY <1>1, <1>2 DEF SplitTable, Inv, SizeInv, BlockOK
  <1>5. ScanInv' /\ PackInv'
    BY DEF SplitTable, Inv, ScanInv, PackInv
  <1> QED
    BY <1>3, <1>4, <1>5 DEF Inv

(* A piece is within the budget, or a single row under its header.         *)
LEMMA PieceOK ==
  ASSUME Inv, phase = "rows", open # Empty
  PROVE  UnitOK(Piece(open.from, open.to))
  <1>1. BlockOK(blocks[next]) /\ blocks[next].from # 0
    BY DEF Inv, DataInv, SizeInv, BlockOK
  <1>2. /\ Piece(open.from, open.to).header = blocks[next].from
        /\ Piece(open.from, open.to).from = open.from
        /\ Piece(open.from, open.to).to = open.to
    BY DEF Piece, Unit
  <1> QED
    BY <1>1, <1>2 DEF Inv, SizeInv, UnitOK, Irreducible

LEMMA TakeRowInv == Inv /\ TakeRow => Inv'
  <1> SUFFICES ASSUME Inv, TakeRow PROVE Inv'
    OBVIOUS
  <1>1. at \in Nat \ {0} /\ at <= blocks[next].to /\ next \in DOMAIN blocks
    BY DEF Inv, DataInv, SizeInv, TakeRow
  <1>2. BlockOK(blocks[next])
    BY <1>1 DEF Inv, DataInv
  <1>3. /\ phase = "rows" /\ phase' = "rows" /\ at' = at + 1
        /\ UNCHANGED <<body, blocks, chunks, next>>
    BY DEF TakeRow
  <1>4. CASE ~IsEmpty(open) /\ ~(Piece(open.from, at).tokens <= Size)
    <2>1. open # Empty
      BY <1>4 DEF IsEmpty, Empty
    <2>2. units' = Append(units, Piece(open.from, open.to)) /\ open' = [from |-> at, to |-> at]
      BY <1>4 DEF TakeRow, Grown, IsEmpty, Empty
    <2>3. IsSeq(units') /\ \A i \in DOMAIN units' : UnitOK(units'[i])
      BY <1>3, <2>1, <2>2, PieceOK, AnotherUnit
    <2>4. DataInv'
      BY <1>1, <1>3, <2>3, NoChunks, SameBody DEF Inv, DataInv, PackInv
    <2>5. SizeInv'
      BY <1>1, <1>2, <1>3, <2>2 DEF SizeInv, UpTo, BlockOK
    <2>6. ScanInv' /\ PackInv'
      BY <1>3 DEF Inv, ScanInv, PackInv
    <2> QED
      BY <2>4, <2>5, <2>6 DEF Inv
  <1>5. CASE ~(~IsEmpty(open) /\ ~(Piece(open.from, at).tokens <= Size))
    <2>1. units' = units /\ open' = Grown(open, at)
      BY <1>5 DEF TakeRow
    <2>2. DataInv'
      BY <1>1, <1>3, <2>1, SameBody, SameUnits DEF Inv, DataInv
    <2>3. UpTo(open)' /\ (open.from = open.to \/ Piece(open.from, open.to).tokens <= Size)'
      <3>1. CASE open = Empty
        BY <1>1, <1>3, <2>1, <3>1 DEF Empty, IsEmpty, Grown, UpTo
      <3>2. CASE open # Empty
        <4>1. UpTo(open)
          BY <1>3, <3>2 DEF Inv, SizeInv
        <4>2. ~IsEmpty(open)
          BY <1>1, <4>1 DEF IsEmpty, UpTo
        <4>3. Piece(open.from, at).tokens <= Size
          BY <1>5, <4>2
        <4>4. open'.from = open.from /\ open'.to = at
          BY <1>1, <2>1, <4>1, <4>2 DEF Grown, UpTo
        <4>5. Piece(open.from, open.to)' = Piece(open.from, at)
          BY <1>3, <4>4 DEF Piece, Unit, LineTokens
        <4> QED
          BY <1>1, <1>3, <4>1, <4>3, <4>4, <4>5 DEF UpTo
      <3> QED
        BY <3>1, <3>2
    <2>4. SizeInv'
      BY <1>1, <1>2, <1>3, <2>3 DEF SizeInv, BlockOK
    <2>5. ScanInv' /\ PackInv'
      BY <1>3 DEF Inv, ScanInv, PackInv
    <2> QED
      BY <2>2, <2>4, <2>5 DEF Inv
  <1> QED
    BY <1>4, <1>5

LEMMA EndRowsInv == Inv /\ EndRows => Inv'
  <1> SUFFICES ASSUME Inv, EndRows PROVE Inv'
    OBVIOUS
  <1>1. next \in Nat /\ next \in DOMAIN blocks /\ BlockOK(blocks[next])
    BY SeqFacts DEF Inv, DataInv, SizeInv, EndRows
  <1>2. open # Empty
    <2>1. phase = "rows" /\ at > blocks[next].to
      BY DEF EndRows
    <2>2. at \in Nat /\ blocks[next].to \in Nat
      BY <1>1 DEF Inv, DataInv, BlockOK
    <2> QED
      BY <2>1, <2>2 DEF Inv, SizeInv, UpTo, Empty
  <1>3. IsSeq(units') /\ \A i \in DOMAIN units' : UnitOK(units'[i])
    BY <1>2, PieceOK, AnotherUnit DEF EndRows
  <1>4. DataInv'
    BY <1>1, <1>3, NoChunks, SameBody DEF EndRows, Inv, DataInv, PackInv
  <1>5. ScanInv' /\ SizeInv' /\ PackInv'
    BY DEF EndRows, Inv, ScanInv, SizeInv, PackInv
  <1> QED
    BY <1>4, <1>5 DEF Inv

LEMMA EndSizeInv == Inv /\ EndSize => Inv'
  <1> SUFFICES ASSUME Inv, EndSize PROVE Inv'
    OBVIOUS
  <1>1. Len(units) \in Nat /\ open = Empty /\ chunks = <<>>
    BY SeqFacts DEF Inv, DataInv, SizeInv, PackInv, EndSize
  <1>2. DataInv'
    BY SameBody, SameUnits DEF EndSize, Inv, DataInv
  <1>3. ScanInv' /\ SizeInv' /\ PackInv'
    BY <1>1 DEF EndSize, Inv, ScanInv, SizeInv, PackInv
  <1> QED
    BY <1>2, <1>3 DEF Inv

-----------------------------------------------------------------------------
(* The chunk that is open may be closed at the unit that does not fit.     *)
LEMMA CloseChunk ==
  ASSUME Inv, phase = "pack", open # Empty
  PROVE  /\ ChunkOK(open) /\ IsSeq(Append(chunks, open))
         /\ \A i \in DOMAIN Append(chunks, open) : ChunkOK(Append(chunks, open)[i])
         /\ \A i \in DOMAIN Append(chunks, open) \ {1} :
                Follows(Append(chunks, open)[i - 1], Append(chunks, open)[i])
         /\ Append(chunks, open) # <<>>
         /\ Append(chunks, open)[Len(Append(chunks, open))] = open
  <1>1. ChunkOK(open)
    BY SeqFacts DEF Inv, DataInv, PackInv, ChunkOK, UpTo
  <1> DEFINE more == Append(chunks, open)
             n == Len(chunks)
  <1>2. /\ n \in Nat /\ DOMAIN chunks = 1..n
        /\ \A i \in 1..n : ChunkOK(chunks[i])
        /\ \A i \in (1..n) \ {1} : Follows(chunks[i - 1], chunks[i])
    BY SeqFacts DEF Inv, DataInv
  <1>3. n # 0 => Follows(chunks[n], open)
    BY DEF Inv, PackInv
  <1>4. /\ IsSeq(more) /\ DOMAIN more = 1 .. n + 1 /\ Len(more) = n + 1
        /\ \A i \in 1..n : more[i] = chunks[i]
        /\ more[n + 1] = open
    BY Appended DEF Inv, DataInv
  <1> HIDE DEF more, n
  <1>5. \A i \in DOMAIN more : ChunkOK(more[i])
    BY <1>1, <1>2, <1>4
  <1>6. ASSUME NEW i \in DOMAIN more \ {1} PROVE Follows(more[i - 1], more[i])
    <2>1. CASE i = n + 1
      BY <1>2, <1>3, <1>4, <2>1
    <2>2. CASE i # n + 1
      BY <1>2, <1>4, <2>2
    <2> QED
      BY <2>1, <2>2
  <1>7. more # <<>>
    BY <1>2, <1>4
  <1> QED
    BY <1>1, <1>4, <1>5, <1>6, <1>7 DEF more

LEMMA PackUnitInv == Inv /\ PackUnit => Inv'
  <1> SUFFICES ASSUME Inv, PackUnit PROVE Inv'
    OBVIOUS
  <1>1. /\ phase = "pack" /\ phase' = "pack" /\ at' = at + 1
        /\ at \in Nat \ {0} /\ at <= Len(units)
        /\ UNCHANGED <<body, blocks, units, next>>
    BY DEF Inv, DataInv, PackUnit
  <1>2. Len(units) \in Nat
    BY SeqFacts DEF Inv, DataInv
  <1>3. ScanInv' /\ SizeInv'
    BY <1>1 DEF ScanInv, SizeInv
  <1>4. CASE ~IsEmpty(open) /\ Overflows(open.from, at)
    <2>1. open # Empty
      BY <1>4 DEF IsEmpty, Empty
    <2>2. chunks' = Append(chunks, open) /\ open' = [from |-> at, to |-> at]
      BY <1>4 DEF PackUnit, Grown, IsEmpty, Empty
    <2>3. DataInv'
      BY <1>1, <2>1, <2>2, CloseChunk, SameBody, SameUnits DEF Inv, DataInv
    <2>4. Follows(open, open')
      <3>1. open.to = at - 1 /\ ~(Joined(open.from, at) <= Size)
        BY <1>1, <1>4, <2>1 DEF Inv, PackInv, UpTo, Overflows
      <3> QED
        BY <1>1, <2>2, <3>1 DEF Follows
    <2>5. PackInv'
      <3>1. chunks' # <<>> /\ chunks'[Len(chunks')] = open
        BY <1>1, <2>1, <2>2, CloseChunk
      <3>2. (UpTo(open) /\ Tight(open))'
        BY <1>1, <2>2 DEF UpTo, Tight
      <3>3. Follows(chunks[Len(chunks)], open)'
        BY <1>1, <2>4, <3>1 DEF Follows, Joined
      <3> QED
        BY <1>1, <1>2, <3>2, <3>3 DEF PackInv
    <2> QED
      BY <1>3, <2>3, <2>5 DEF Inv
  <1>5. CASE ~(~IsEmpty(open) /\ Overflows(open.from, at))
    <2>1. chunks' = chunks /\ open' = Grown(open, at)
      BY <1>5 DEF PackUnit
    <2>2. DataInv'
      BY <1>1, <2>1, SameBody, SameUnits DEF Inv, DataInv
    <2>3. PackInv'
      <3>1. CASE open = Empty
        <4>1. open' = [from |-> at, to |-> at] /\ chunks' = <<>>
          BY <1>1, <2>1, <3>1 DEF Inv, PackInv, Grown, IsEmpty, Empty, UpTo
        <4> QED
          BY <1>1, <1>2, <4>1 DEF PackInv, UpTo, Tight
      <3>2. CASE open # Empty
        <4>1. /\ UpTo(open)
              /\ chunks # <<>> => Follows(chunks[Len(chunks)], open)
          BY <1>1, <3>2 DEF Inv, PackInv
        <4>2. ~IsEmpty(open)
          BY <1>1, <4>1 DEF IsEmpty, UpTo
        <4>3. Joined(open.from, at) <= Size
          BY <1>5, <4>2 DEF Overflows
        <4>4. open'.from = open.from /\ open'.to = at
          BY <1>1, <2>1, <4>1, <4>2 DEF Grown, UpTo
        <4>5. (UpTo(open) /\ Tight(open))'
          BY <1>1, <4>1, <4>3, <4>4 DEF UpTo, Tight, Joined
        <4>6. (chunks # <<>> => Follows(chunks[Len(chunks)], open))'
          BY <1>1, <2>1, <4>1, <4>4 DEF Follows, Joined
        <4> QED
          BY <1>1, <1>2, <4>5, <4>6 DEF PackInv
      <3> QED
        BY <3>1, <3>2
    <2> QED
      BY <1>3, <2>2, <2>3 DEF Inv
  <1> QED
    BY <1>4, <1>5

LEMMA EndPackInv == Inv /\ EndPack => Inv'
  <1> SUFFICES ASSUME Inv, EndPack PROVE Inv'
    OBVIOUS
  <1>1. ScanInv' /\ SizeInv' /\ PackInv'
    BY DEF EndPack, Inv, ScanInv, SizeInv, PackInv
  <1>2. CASE open = Empty
    <2>1. chunks' = chunks
      BY <1>2 DEF EndPack, IsEmpty, Empty
    <2>2. DataInv'
      BY <2>1, SameBody, SameUnits DEF EndPack, Inv, DataInv
    <2> QED
      BY <1>1, <2>2 DEF Inv
  <1>3. CASE open # Empty
    <2>1. UpTo(open) /\ at \in Nat
      BY <1>3 DEF EndPack, Inv, DataInv, PackInv
    <2>2. chunks' = Append(chunks, open)
      BY <2>1 DEF EndPack, IsEmpty, UpTo
    <2>3. DataInv'
      BY <1>3, <2>2, CloseChunk, SameBody, SameUnits DEF EndPack, Inv, DataInv
    <2> QED
      BY <1>1, <2>3 DEF Inv
  <1> QED
    BY <1>2, <1>3

LEMMA StutterInv == Inv /\ UNCHANGED vars => Inv'
  <1> SUFFICES ASSUME Inv, UNCHANGED vars PROVE Inv'
    OBVIOUS
  <1> USE DEF vars
  <1>1. DataInv'
    BY SameBody, SameUnits DEF Inv, DataInv
  <1>2. ScanInv'
    BY SameBody DEF Inv, ScanInv, UpTo
  <1>3. SizeInv'
    BY DEF Inv, SizeInv, UpTo, Piece, Unit, LineTokens
  <1>4. PackInv'
    BY DEF Inv, PackInv, UpTo, Tight, Follows, Joined
  <1> QED
    BY <1>1, <1>2, <1>3, <1>4 DEF Inv

-----------------------------------------------------------------------------
(* What each pass of the chunker has built holds, whatever the body.       *)
THEOREM Invariance == Spec => []Inv
  <1>1. Inv /\ [Next]_vars => Inv'
    BY OpenTableInv, GrowTableInv, CloseTableInv, ScanProseInv, EndScanInv,
       SizeWholeInv, SplitProseInv, TakeProseInv, CutLineInv, SkipBlankInv, EndProseInv,
       SplitTableInv, TakeRowInv, EndRowsInv, EndSizeInv,
       PackUnitInv, EndPackInv, StutterInv
    DEF Next, Finished
  <1> QED
    BY InitInv, <1>1, PTL DEF Spec

(* However the lines fall and whatever a join costs, a chunk is within the *)
(* budget unless it is one unit that nothing can split (_pack).            *)
THEOREM ChunksWithinBudget == Spec => []WithinBudget
  <1>1. Inv => WithinBudget
    <2> SUFFICES ASSUME Inv, NEW c \in DOMAIN chunks
                 PROVE  \/ Joined(chunks[c].from, chunks[c].to) <= Size
                        \/ /\ chunks[c].from = chunks[c].to
                           /\ \/ units[chunks[c].from].tokens <= Size
                              \/ Irreducible(units[chunks[c].from])
      BY DEF WithinBudget
    <2>1. ChunkOK(chunks[c]) /\ Len(units) \in Nat /\ DOMAIN units = 1..Len(units)
      BY SeqFacts DEF Inv, DataInv
    <2>2. UnitOK(units[chunks[c].from])
      BY <2>1 DEF Inv, DataInv, ChunkOK
    <2> QED
      BY <2>1, <2>2 DEF ChunkOK, Tight, UnitOK
  <1> QED
    BY Invariance, <1>1, PTL

(* The chunks follow each other without a gap, and none of them had room   *)
(* for the unit that begins the next (_pack).                              *)
THEOREM ChunksNotShredded == Spec => []NotShredded
  <1>1. Inv => NotShredded
    BY DEF Inv, DataInv, NotShredded, Follows
  <1> QED
    BY Invariance, <1>1, PTL

-----------------------------------------------------------------------------
(***************************************************************************)
(* Sums.                                                                   *)
(***************************************************************************)

(* Of the numbers that fail, one is the least.                             *)
LEMMA LeastFailure ==
  ASSUME NEW n \in Nat, NEW P \in SUBSET (1 .. n), P # {}
  PROVE  \E m \in P : \A k \in 1 .. m - 1 : k \notin P
  <1> DEFINE R == OpToRel(<, Nat)
  <1>1. \A k, m \in Nat : k < m => <<k, m>> \in R
    BY DEF OpToRel
  <1>2. IsWellFoundedOn(R, Nat)
    BY NatLessThanWellFounded
  <1> HIDE DEF R
  <1>3. P \subseteq Nat
    OBVIOUS
  <1>4. PICK m \in P : \A k \in P : <<k, m>> \notin R
    BY <1>2, <1>3, WFMin
  <1>5. \A k \in P : k \in Nat /\ m \in Nat /\ ~(k < m)
    BY <1>1, <1>3, <1>4
  <1> QED
    BY <1>4, <1>5

(* f sums the first members of g, up to the n-th.                          *)
Sums(f, g, n) ==
    /\ f \in [0 .. n -> Nat] /\ f[0] = 0
    /\ \A k \in 1 .. n : f[k] = f[k - 1] + g[k]

LEMMA SumsExist ==
    ASSUME NEW n \in Nat, NEW g, \A k \in 1 .. n : g[k] \in Nat
    PROVE  \E f : Sums(f, g, n)
<1> DEFINE P == {m \in 1 .. n : ~\E f : Sums(f, g, m)}
<1>1. \E f : Sums(f, g, 0)
  <2>1. Sums([k \in 0 .. 0 |-> 0], g, 0)
    BY DEF Sums
  <2>2. QED
    BY <2>1
<1>2. ASSUME P # {} PROVE FALSE
  <2>1. P \in SUBSET (1 .. n)
    OBVIOUS
  <2>2. PICK m \in P : \A k \in 1 .. m - 1 : k \notin P
    BY <1>2, <2>1, LeastFailure
  <2>3. m \in 1 .. n /\ ~\E f : Sums(f, g, m)
    OBVIOUS
  <2>4. \E f : Sums(f, g, m - 1)
    <3>1. CASE m = 1
      BY <1>1, <3>1
    <3>2. CASE m # 1
      <4>1. m - 1 \in 1 .. n /\ m - 1 \in 1 .. m - 1
        BY <2>3, <3>2
      <4>2. QED
        BY <2>2, <4>1
    <3>3. QED
      BY <3>1, <3>2
  <2>5. PICK f : Sums(f, g, m - 1)
    BY <2>4
  <2>6. /\ f \in [0 .. m - 1 -> Nat] /\ f[0] = 0
        /\ \A k \in 1 .. m - 1 : f[k] = f[k - 1] + g[k]
    BY <2>5 DEF Sums
  <2> DEFINE e == f[m - 1] + g[m]
             h == [x \in 0 .. m |-> IF x = m THEN e ELSE f[x]]
  <2>7. e \in Nat /\ m - 1 \in 0 .. m - 1 /\ 0 # m /\ m - 1 # m /\ m \in Nat
    BY <2>3, <2>6
  <2> HIDE DEF e
  <2>8. h \in [0 .. m -> Nat]
    BY <2>6, <2>7
  <2>9. h[0] = 0 /\ h[m] = e /\ \A x \in 0 .. m - 1 : h[x] = f[x]
    BY <2>6, <2>7
  <2> HIDE DEF h
  <2>10. ASSUME NEW k \in 1 .. m PROVE h[k] = h[k - 1] + g[k]
    <3>1. CASE k = m
      BY <2>7, <2>9, <3>1 DEF e
    <3>2. CASE k # m
      <4>1. k \in 1 .. m - 1 /\ k \in 0 .. m - 1 /\ k - 1 \in 0 .. m - 1
        BY <2>7, <3>2
      <4>2. QED
        BY <2>6, <2>9, <4>1
    <3>3. QED
      BY <3>1, <3>2
  <2>11. Sums(h, g, m)
    BY <2>8, <2>9, <2>10 DEF Sums
  <2>12. QED
    BY <2>3, <2>11
<1>3. n = 0 \/ n \in 1 .. n
  OBVIOUS
<1>4. QED
  BY <1>1, <1>2, <1>3

(* Sums of the same members are the same.                                  *)
LEMMA SumsAgree ==
    ASSUME NEW n \in Nat, NEW g, NEW h, \A k \in 1 .. n : g[k] = h[k],
           NEW e, Sums(e, g, n), NEW m \in Nat, n <= m, NEW f, Sums(f, h, m)
    PROVE  \A k \in 0 .. n : e[k] = f[k]
<1> DEFINE P == {k \in 1 .. n : e[k] # f[k]}
<1>1. e[0] = 0 /\ f[0] = 0
  BY DEF Sums
<1>2. ASSUME P # {} PROVE FALSE
  <2>1. P \in SUBSET (1 .. n)
    OBVIOUS
  <2>2. PICK k \in P : \A i \in 1 .. k - 1 : i \notin P
    BY <1>2, <2>1, LeastFailure
  <2>3. k \in 1 .. n /\ k \in 1 .. m /\ e[k] # f[k]
    OBVIOUS
  <2>4. e[k - 1] = f[k - 1]
    <3>1. CASE k = 1
      BY <1>1, <3>1
    <3>2. CASE k # 1
      <4>1. k - 1 \in 1 .. n /\ k - 1 \in 1 .. k - 1
        BY <2>3, <3>2
      <4>2. QED
        BY <2>2, <4>1
    <3>3. QED
      BY <3>1, <3>2
  <2>5. e[k] = e[k - 1] + g[k] /\ f[k] = f[k - 1] + h[k]
    BY <2>3 DEF Sums
  <2>6. QED
    BY <2>3, <2>4, <2>5
<1>3. \A k \in 0 .. n : k = 0 \/ k \in 1 .. n
  OBVIOUS
<1>4. QED
  BY <1>1, <1>2, <1>3

LEMMA TotalIs ==
    ASSUME NEW n \in Nat, NEW g, \A k \in 1 .. n : g[k] \in Nat
    PROVE  \E f : Sums(f, g, n) /\ Total(g, n) = f[n]
<1> DEFINE Def(f) == f = [k \in 0 .. n |-> IF k = 0 THEN 0 ELSE f[k - 1] + g[k]]
           sum == CHOOSE f : Def(f)
<1>1. \E f : Def(f)
  <2>1. PICK f : Sums(f, g, n)
    BY SumsExist
  <2>2. f = [k \in 0 .. n |-> f[k]]
    BY <2>1 DEF Sums
  <2>3. \A k \in 0 .. n : f[k] = IF k = 0 THEN 0 ELSE f[k - 1] + g[k]
    BY <2>1 DEF Sums
  <2>4. Def(f)
    BY <2>2, <2>3
  <2>5. QED
    BY <2>4
<1>2. Def(sum)
  BY <1>1
<1>3. Total(g, n) = sum[n]
  BY DEF Total
<1> HIDE DEF sum
<1>4. /\ DOMAIN sum = 0 .. n /\ sum[0] = 0
      /\ \A k \in 1 .. n : sum[k] = sum[k - 1] + g[k]
  BY <1>2
<1>5. \A k \in 0 .. n : sum[k] \in Nat
  <2> DEFINE P == {k \in 1 .. n : sum[k] \notin Nat}
  <2>1. ASSUME P # {} PROVE FALSE
    <3>1. P \in SUBSET (1 .. n)
      OBVIOUS
    <3>2. PICK k \in P : \A i \in 1 .. k - 1 : i \notin P
      BY <2>1, <3>1, LeastFailure
    <3>3. k \in 1 .. n /\ sum[k] \notin Nat
      OBVIOUS
    <3>4. sum[k - 1] \in Nat
      <4>1. k - 1 = 0 \/ (k - 1 \in 1 .. k - 1 /\ k - 1 \in 1 .. n)
        BY <3>3
      <4>2. QED
        BY <1>4, <3>2, <4>1
    <3>5. g[k] \in Nat /\ sum[k] = sum[k - 1] + g[k]
      BY <1>4, <3>3
    <3>6. QED
      BY <3>3, <3>4, <3>5
  <2>2. \A k \in 0 .. n : k = 0 \/ k \in 1 .. n
    OBVIOUS
  <2>3. QED
    BY <1>4, <2>1, <2>2, SMTT(20)
<1>6. sum = [k \in 0 .. n |-> sum[k]]
  BY <1>2
<1>7. sum \in [0 .. n -> Nat]
  BY <1>5, <1>6
<1>8. Sums(sum, g, n)
  BY <1>4, <1>7 DEF Sums
<1>9. QED
  BY <1>3, <1>8

(* A total is a number, and grows by the next member.                      *)
LEMMA TotalSteps ==
    ASSUME NEW n \in Nat, NEW g, \A k \in 1 .. n : g[k] \in Nat
    PROVE  /\ Total(g, n) \in Nat
           /\ Total(g, 0) = 0
           /\ n > 0 => Total(g, n) = Total(g, n - 1) + g[n]
<1>1. PICK f : Sums(f, g, n) /\ Total(g, n) = f[n]
  BY TotalIs
<1>2. Total(g, n) \in Nat
  BY <1>1 DEF Sums
<1>3. Total(g, 0) = 0
  <2>1. 0 \in Nat /\ \A k \in 1 .. 0 : g[k] \in Nat
    OBVIOUS
  <2>2. PICK e : Sums(e, g, 0) /\ Total(g, 0) = e[0]
    BY <2>1, TotalIs
  <2>3. QED
    BY <2>2 DEF Sums
<1>4. ASSUME n > 0 PROVE Total(g, n) = Total(g, n - 1) + g[n]
  <2>1. PICK m \in Nat : m = n - 1
    BY <1>4
  <2>2. \A k \in 1 .. m : g[k] \in Nat
    BY <2>1
  <2>3. PICK e : Sums(e, g, m) /\ Total(g, m) = e[m]
    BY <2>2, TotalIs
  <2>4. m <= n /\ \A k \in 1 .. m : g[k] = g[k]
    BY <2>1
  <2>5. \A k \in 0 .. m : e[k] = f[k]
    BY ONLY n \in Nat, m \in Nat, <1>1, <2>3, <2>4, SumsAgree
  <2>6. e[m] = f[m] /\ f[n] = f[n - 1] + g[n]
    BY <1>1, <1>4, <2>5 DEF Sums
  <2>7. QED
    BY <1>1, <2>1, <2>3, <2>6
<1>5. QED
  BY <1>2, <1>3, <1>4

(* The partial sums of the tokens of the lines: what LineTokens counts is  *)
(* the difference of two of them.                                          *)
LineSums(f) ==
    /\ f \in [0 .. Len(body) -> Nat]
    /\ \A k \in 1 .. Len(body) : f[k] = f[k - 1] + body[k].tokens
    /\ \A i, j \in 0 .. Len(body) : i <= j => f[i] <= f[j]
    /\ \A i \in 1 .. Len(body) + 1, j \in 0 .. Len(body) : LineTokens(i, j) = f[j] - f[i - 1]

(* A sum of numbers never falls.                                           *)
LEMMA SumsGrow ==
  ASSUME NEW n \in Nat, NEW g, \A k \in 1 .. n : g[k] \in Nat, NEW f, Sums(f, g, n)
  PROVE  \A i, j \in 0 .. n : i <= j => f[i] <= f[j]
  <1> SUFFICES ASSUME NEW i \in 0 .. n PROVE \A j \in 0 .. n : i <= j => f[i] <= f[j]
    OBVIOUS
  <1> DEFINE P == {j \in 1 .. n : i <= j /\ ~(f[i] <= f[j])}
  <1>1. /\ f \in [0 .. n -> Nat] /\ f[0] = 0
        /\ \A k \in 1 .. n : f[k] = f[k - 1] + g[k]
    BY DEF Sums
  <1>2. ASSUME P # {} PROVE FALSE
    <2>1. P \in SUBSET (1 .. n)
      OBVIOUS
    <2>2. PICK m \in P : \A k \in 1 .. m - 1 : k \notin P
      BY <1>2, <2>1, LeastFailure
    <2>3. m \in 1 .. n /\ i <= m /\ ~(f[i] <= f[m])
      OBVIOUS
    <2>4. m \in 0 .. n /\ m - 1 \in 0 .. n /\ f[m] = f[m - 1] + g[m] /\ g[m] \in Nat
      BY <1>1, <2>3
    <2>5. f[m] \in Nat /\ f[m - 1] \in Nat /\ f[i] \in Nat
      BY <1>1, <2>4
    <2>6. i # m
      BY <2>3, <2>5
    <2>7. f[i] <= f[m - 1]
      <3>1. CASE m - 1 = i
        BY <2>5, <3>1
      <3>2. CASE m - 1 # i
        <4>1. m - 1 \in 1 .. n /\ m - 1 \in 1 .. m - 1 /\ i <= m - 1
          BY <2>3, <2>6, <3>2
        <4> QED
          BY <2>2, <4>1
      <3> QED
        BY <3>1, <3>2
    <2> QED
      BY ONLY <2>3, <2>4, <2>5, <2>7
  <1>3. ASSUME NEW j \in 0 .. n, i <= j PROVE f[i] <= f[j]
    <2>1. CASE j = 0
      <3>1. i = j /\ f[i] \in Nat
        BY <1>1, <1>3, <2>1
      <3> QED
        BY <3>1
    <2>2. CASE j # 0
      <3>1. j \in 1 .. n
        BY <2>2
      <3> QED
        BY <1>2, <1>3, <3>1
    <2> QED
      BY <2>1, <2>2
  <1> QED
    BY <1>3

LEMMA LineSumsExist ==
  ASSUME body \in Body
  PROVE  \E f : LineSums(f)
  <1> DEFINE n == Len(body)
             g == [k \in DOMAIN body |-> body[k].tokens]
  <1>1. n \in Nat /\ DOMAIN body = 1 .. n /\ \A k \in 1 .. n : body[k].tokens \in Nat
    BY BodyFacts
  <1>2. \A k \in 1 .. n : g[k] = body[k].tokens /\ g[k] \in Nat
    BY <1>1
  <1>3. \A i, j : LineTokens(i, j) = Total(g, j) - Total(g, i - 1)
    BY DEF LineTokens
  <1> HIDE DEF n, g
  <1>4. PICK f : Sums(f, g, n) /\ Total(g, n) = f[n]
    BY <1>1, <1>2, TotalIs
  <1>5. ASSUME NEW m \in 0 .. n PROVE Total(g, m) = f[m]
    <2>1. m \in Nat /\ m <= n /\ \A k \in 1 .. m : g[k] \in Nat
      BY <1>1, <1>2
    <2>2. PICK e : Sums(e, g, m) /\ Total(g, m) = e[m]
      BY <2>1, TotalIs
    <2>3. \A k \in 1 .. m : g[k] = g[k]
      OBVIOUS
    <2>4. n \in Nat /\ Sums(f, g, n) /\ m \in Nat /\ m <= n /\ Sums(e, g, m)
      BY <1>1, <1>4, <2>1, <2>2
    <2>5. \A k \in 0 .. m : e[k] = f[k]
      BY ONLY <2>3, <2>4, SumsAgree, SMTT(20)
    <2> QED
      BY <2>1, <2>2, <2>5
  <1>6. /\ f \in [0 .. n -> Nat]
        /\ \A k \in 1 .. n : f[k] = f[k - 1] + body[k].tokens
    BY <1>2, <1>4 DEF Sums
  <1>7. \A i, j \in 0 .. n : i <= j => f[i] <= f[j]
    BY ONLY <1>1, <1>2, <1>4, SumsGrow
  <1>8. ASSUME NEW i \in 1 .. n + 1, NEW j \in 0 .. n PROVE LineTokens(i, j) = f[j] - f[i - 1]
    <2>1. i - 1 \in 0 .. n
      BY <1>1
    <2> QED
      BY <1>3, <1>5, <2>1
  <1>9. LineSums(f)
    BY <1>6, <1>7, <1>8 DEF LineSums, n
  <1> QED
    BY <1>9

(* Lines in a row cost no less than one of them, and than a header, its    *)
(* delimiter and a row below them.                                         *)
LEMMA LineTokensFacts ==
  ASSUME body \in Body, NEW i \in 1 .. Len(body), NEW j \in i .. Len(body)
  PROVE  /\ LineTokens(i, j) \in Nat
         /\ \A k \in i .. j : LineTokens(i, j) >= body[k].tokens
         /\ \A h, k \in i .. j : h + 1 < k =>
                LineTokens(i, j) >= body[k].tokens + LineTokens(h, h + 1)
  <1>1. PICK f : LineSums(f)
    BY LineSumsExist
  <1> DEFINE n == Len(body)
  <1>2. n \in Nat /\ \A k \in 1 .. n : body[k].tokens \in Nat
    BY BodyFacts
  <1>3. /\ f \in [0 .. n -> Nat]
        /\ \A k \in 1 .. n : f[k] = f[k - 1] + body[k].tokens
        /\ \A a, b \in 0 .. n : a <= b => f[a] <= f[b]
        /\ \A a \in 1 .. n + 1, b \in 0 .. n : LineTokens(a, b) = f[b] - f[a - 1]
    BY <1>1 DEF LineSums
  <1>4. i \in 1 .. n /\ j \in i .. n
    OBVIOUS
  <1> HIDE DEF n
  <1>5. /\ i - 1 \in 0 .. n /\ j \in 0 .. n /\ i \in 1 .. n + 1
        /\ f[i - 1] \in Nat /\ f[j] \in Nat /\ f[i - 1] <= f[j]
        /\ LineTokens(i, j) = f[j] - f[i - 1]
    <2>1. i - 1 \in 0 .. n /\ j \in 0 .. n /\ i \in 1 .. n + 1 /\ i - 1 <= j
      BY <1>2, <1>4
    <2> QED
      BY <1>3, <2>1
  <1>6. ASSUME NEW k \in i .. j PROVE LineTokens(i, j) >= body[k].tokens
    <2>1. k \in 1 .. n /\ k - 1 \in 0 .. n /\ k \in 0 .. n /\ i - 1 <= k - 1 /\ k <= j
      BY <1>2, <1>4
    <2>2. f[i - 1] <= f[k - 1] /\ f[k] <= f[j] /\ f[k] = f[k - 1] + body[k].tokens
          /\ f[k - 1] \in Nat /\ f[k] \in Nat /\ body[k].tokens \in Nat
      BY <1>2, <1>3, <1>5, <2>1
    <2> QED
      BY ONLY <1>5, <2>2, SMTT(20)
  <1>7. ASSUME NEW h \in i .. j, NEW k \in i .. j, h + 1 < k
        PROVE  LineTokens(i, j) >= body[k].tokens + LineTokens(h, h + 1)
    <2>1. k \in 1 .. n /\ k - 1 \in 0 .. n /\ k \in 0 .. n /\ k <= j
          /\ h \in 1 .. n + 1 /\ h + 1 \in 0 .. n /\ h - 1 \in 0 .. n
          /\ i - 1 <= h - 1 /\ h + 1 <= k - 1
      BY <1>2, <1>4, <1>7
    <2>2. f[i - 1] <= f[h - 1] /\ f[h + 1] <= f[k - 1] /\ f[k] <= f[j]
      BY <1>3, <1>5, <2>1
    <2>3. f[k] = f[k - 1] + body[k].tokens /\ LineTokens(h, h + 1) = f[h + 1] - f[h - 1]
      BY <1>3, <2>1
    <2>4. f[k - 1] \in Nat /\ f[k] \in Nat /\ body[k].tokens \in Nat
          /\ f[h + 1] \in Nat /\ f[h - 1] \in Nat
      BY <1>2, <1>3, <2>1
    <2>5. LineTokens(i, j) = f[j] - f[i - 1] /\ f[i - 1] \in Nat /\ f[j] \in Nat
      BY <1>5
    <2>6. PICK a, b, c, d, e, g, t :
              /\ a = f[i - 1] /\ b = f[h - 1] /\ c = f[h + 1] /\ d = f[k - 1]
              /\ e = f[k] /\ g = f[j] /\ t = body[k].tokens
      OBVIOUS
    <2>7. /\ a \in Nat /\ b \in Nat /\ c \in Nat /\ d \in Nat /\ e \in Nat /\ g \in Nat
          /\ t \in Nat /\ a <= b /\ c <= d /\ e <= g /\ e = d + t
      BY <2>2, <2>3, <2>4, <2>5, <2>6
    <2>8. g - a >= t + (c - b)
      BY ONLY <2>7
    <2> QED
      BY ONLY <2>3, <2>5, <2>6, <2>8
  <1> QED
    BY <1>5, <1>6, <1>7

-----------------------------------------------------------------------------
(***************************************************************************)
(* Where the lines go: the invariant.                                      *)
(***************************************************************************)

(* Line k belongs to a table whose header row is at h.                     *)
Under(h, k) ==
    /\ h \in Nat \ {0} /\ h < k /\ k <= Len(body)
    /\ body[h + 1].kind = "delimiter"
    /\ \A j \in h .. k : IsTableRow(j)

NoTableAt(k) == \A h \in 1 .. k : ~Under(h, k)

(* A table begins where no other one goes on and has rows only; prose has  *)
(* no line of a table.                                                     *)
Shaped(b) ==
    /\ b.kind = "table" => NoTableAt(b.from) /\ \A k \in b.from .. b.to : IsTableRow(k)
    /\ b.kind = "prose" => \A k \in b.from .. b.to : NoTableAt(k)

InBlocks(k) == \E i \in DOMAIN blocks : blocks[i].from <= k /\ k <= blocks[i].to
InOpen(k) == open.from <= k /\ k <= open.to

(* The blocks follow each other.                                           *)
BlocksInv ==
    /\ \A i \in DOMAIN blocks : Shaped(blocks[i])
    /\ \A i, j \in DOMAIN blocks : i < j => blocks[i].to < blocks[j].from

(* What has been scanned is in a block, or open.                           *)
ScannedInv ==
    /\ phase \in {"scan", "table"} =>
          /\ \A k \in 1 .. at - 1 : Solid(k) => InBlocks(k) \/ InOpen(k)
          /\ \A i \in DOMAIN blocks :
                blocks[i].to < at /\ (open # Empty => blocks[i].to < open.from)
    /\ phase = "scan" =>
          /\ at <= Len(body) => NoTableAt(at)
          /\ open # Empty => \A k \in open.from .. at - 1 : NoTableAt(k)
    /\ phase = "table" =>
          NoTableAt(open.from) /\ \A k \in open.from .. open.to : IsTableRow(k)
    /\ phase \notin {"scan", "table"} =>
          \A k \in 1 .. Len(body) : Solid(k) => InBlocks(k)

Sized == phase \in {"pack", "done"}
Unsized == phase \in {"scan", "table"}

(* What a unit of a block is: the block; a piece of prose; rows under the  *)
(* header of the block.                                                    *)
WholeOf(u, b) ==
    /\ Fits(b) \/ b.kind = "table"
    /\ u = Unit(0, b.from, b.to)
ProseOf(u, b) == b.kind = "prose" /\ ~Fits(b) /\ u.header = 0 /\ u.tokens \in Nat
RowsOf(u, b) ==
    /\ b.kind = "table" /\ b.from + 2 <= u.from
    /\ u = Unit(b.from, u.from, u.to)

UnitOf(u, b) ==
    /\ u.from \in Nat /\ u.to \in Nat
    /\ b.from <= u.from /\ u.from <= u.to /\ u.to <= b.to
    /\ WholeOf(u, b) \/ ProseOf(u, b) \/ RowsOf(u, b)

(* Two units of a block too large that is prose may share lines.           *)
Sharing(u, v) ==
    \E i \in DOMAIN blocks :
        /\ blocks[i].kind = "prose" /\ ~Fits(blocks[i])
        /\ blocks[i].from <= u.from /\ u.to <= blocks[i].to
        /\ blocks[i].from <= v.from /\ v.to <= blocks[i].to

InTurn(u, v) ==
    /\ u.from <= v.from /\ u.to <= v.to
    /\ u.to < v.from \/ Sharing(u, v)

UnitsInv ==
    /\ \A i \in DOMAIN units : \E j \in DOMAIN blocks : UnitOf(units[i], blocks[j])
    /\ \A i, j \in DOMAIN units : i < j => InTurn(units[i], units[j])

InUnits(k) ==
    \E i \in DOMAIN units :
        \/ units[i].from <= k /\ k <= units[i].to
        \/ units[i].header # 0 /\ k \in {units[i].header, units[i].header + 1}

(* The units that come next begin after those there are, or share prose.   *)
SizedInv ==
    /\ Unsized => units = <<>>
    /\ phase = "size" =>
          /\ at <= Len(blocks) + 1
          /\ \A i \in DOMAIN units, j \in DOMAIN blocks :
                at <= j => units[i].to < blocks[j].from
          /\ \A j \in DOMAIN blocks, k \in 1 .. Len(body) :
                j < at /\ blocks[j].from <= k /\ k <= blocks[j].to /\ Solid(k) => InUnits(k)
    /\ phase = "prose" =>
          /\ blocks[next].kind = "prose" /\ ~Fits(blocks[next])
          /\ blocks[next].from <= at
          /\ \A i \in DOMAIN units :
                /\ units[i].to < at
                /\ blocks[next].from <= units[i].to => blocks[next].from <= units[i].from
          /\ \A k \in blocks[next].from .. at - 1 : Solid(k) => InUnits(k)
    /\ phase = "rows" =>
          /\ blocks[next].kind = "table"
          /\ blocks[next].from + 2 <= at
          /\ open # Empty => blocks[next].from + 2 <= open.from
          /\ open = Empty => at = blocks[next].from + 2
          /\ \A i \in DOMAIN units :
                units[i].to < at /\ (open # Empty => units[i].to < open.from)
          /\ \A k \in blocks[next].from + 2 .. at - 1 : InUnits(k) \/ InOpen(k)
    /\ phase \in {"prose", "rows"} =>
          \A j \in DOMAIN blocks, k \in 1 .. Len(body) :
              j < next /\ blocks[j].from <= k /\ k <= blocks[j].to /\ Solid(k) => InUnits(k)
    /\ Sized => \A k \in 1 .. Len(body) : Solid(k) => InUnits(k)

(* The chunks are the units up to the open ones, in order.                 *)
InChunks(i) == \E c \in DOMAIN chunks : chunks[c].from <= i /\ i <= chunks[c].to

PackedInv ==
    /\ \A c, d \in DOMAIN chunks : c < d => chunks[c].to < chunks[d].from
    /\ phase = "pack" =>
          /\ \A i \in 1 .. at - 1 : InChunks(i) \/ InOpen(i)
          /\ open # Empty => \A c \in DOMAIN chunks : chunks[c].to < open.from
    /\ phase = "done" => \A i \in DOMAIN units : InChunks(i)

(* The place of the pass.                                                  *)
PlaceInv == next \in 1 .. Len(blocks) + 1 /\ open \in [from : Nat \ {0}, to : Nat]

IInv == Inv /\ BlocksInv /\ ScannedInv /\ UnitsInv /\ SizedInv /\ PackedInv /\ PlaceInv

-----------------------------------------------------------------------------
(***************************************************************************)
(* The scan.                                                               *)
(***************************************************************************)

LEMMA SameTables ==
  ASSUME body' = body
  PROVE  /\ \A k : NoTableAt(k)' <=> NoTableAt(k)
         /\ \A b : Shaped(b)' <=> Shaped(b)
         /\ \A k : Solid(k)' <=> Solid(k)
         /\ \A k : IsTableRow(k)' <=> IsTableRow(k)
  BY DEF Shaped, NoTableAt, Under, IsTableRow, Solid

LEMMA SameShape ==
  ASSUME body' = body, NEW i, Shaped(blocks'[i])
  PROVE  Shaped(blocks[i])'
  BY DEF Shaped, NoTableAt, Under, IsTableRow

(* If no table goes on at a line and none starts, none goes on at the next.*)
LEMMA NoTableNext ==
  ASSUME body \in Body, NEW k \in Nat \ {0}, k < Len(body), NoTableAt(k), ~StartsTable(k)
  PROVE  NoTableAt(k + 1)
  <1> SUFFICES ASSUME NEW h \in 1 .. k + 1, Under(h, k + 1) PROVE FALSE
    BY DEF NoTableAt
  <1>1. /\ h < k + 1 /\ body[h + 1].kind = "delimiter" /\ \A j \in h .. k + 1 : IsTableRow(j)
    BY DEF Under
  <1>2. Len(body) \in Nat
    BY BodyFacts
  <1>3. CASE h = k
    <2>1. IsTableRow(k) /\ body[k + 1].kind = "delimiter"
      BY <1>1, <1>3
    <2> QED
      BY <2>1 DEF StartsTable
  <1>4. CASE h # k
    <2>1. h < k /\ h \in 1 .. k /\ \A j \in h .. k : IsTableRow(j)
      BY <1>1, <1>4
    <2>2. Under(h, k)
      BY <1>1, <1>2, <2>1 DEF Under
    <2> QED
      BY <2>1, <2>2 DEF NoTableAt
  <1> QED
    BY <1>3, <1>4

(* What is open is a record, empty or an interval of lines.                *)
LEMMA OpenFacts ==
  ASSUME IInv
  PROVE  /\ open.from \in Nat \ {0} /\ open.to \in Nat
         /\ open = [from |-> open.from, to |-> open.to]
         /\ IsEmpty(open) => open.to < open.from
         /\ phase = "scan" => (IsEmpty(open) <=> open = Empty) /\ open.to < at
  <1>1. open \in [from : Nat \ {0}, to : Nat]
    BY DEF IInv, PlaceInv
  <1>2. open.from \in Nat \ {0} /\ open.to \in Nat /\ open = [from |-> open.from, to |-> open.to]
    BY <1>1
  <1>3. IsEmpty(open) => open.to < open.from
    BY DEF IsEmpty
  <1>4. ASSUME phase = "scan" PROVE (IsEmpty(open) <=> open = Empty) /\ open.to < at
    <2>1. CASE open = Empty
      BY <2>1 DEF Empty, IsEmpty, IInv, Inv, DataInv
    <2>2. CASE open # Empty
      <3>1. open.from <= open.to /\ open.to < at
        BY <1>4, <2>2 DEF IInv, Inv, ScanInv
      <3> QED
        BY <1>2, <2>2, <3>1 DEF IsEmpty
    <2> QED
      BY <2>1, <2>2
  <1> QED
    BY <1>2, <1>3, <1>4

LEMMA ScanProseBlocks ==
  ASSUME IInv, ScanProse
  PROVE  BlocksInv' /\ ScannedInv'
  <1>1. /\ phase = "scan" /\ phase' = "scan" /\ at <= Len(body) /\ ~StartsTable(at)
        /\ open' = (IF Solid(at) THEN Grown(open, at) ELSE open) /\ at' = at + 1
        /\ body' = body /\ blocks' = blocks
    BY DEF ScanProse
  <1>2. at \in Nat \ {0} /\ body \in Body /\ Len(body) \in Nat
    BY BodyFacts DEF IInv, Inv, DataInv
  <1>3. BlocksInv'
    BY <1>1, SameTables DEF BlocksInv, IInv
  <1>4. /\ \A k \in 1 .. at - 1 : Solid(k) => InBlocks(k) \/ InOpen(k)
        /\ \A i \in DOMAIN blocks :
              blocks[i].to < at /\ (open # Empty => blocks[i].to < open.from)
        /\ NoTableAt(at)
        /\ open # Empty => \A k \in open.from .. at - 1 : NoTableAt(k)
    BY <1>1 DEF IInv, ScannedInv
  <1>5. /\ open.from \in Nat \ {0} /\ open.to \in Nat /\ open.to < at
        /\ IsEmpty(open) <=> open = Empty
        /\ IsEmpty(open) => open.to < open.from
        /\ ~IsEmpty(open) => open.from <= open.to
    BY <1>1, OpenFacts DEF IsEmpty
  <1>6. /\ IsEmpty(open) /\ Solid(at) => open'.from = at /\ open'.to = at
        /\ ~IsEmpty(open) /\ Solid(at) => open'.from = open.from /\ open'.to = at
        /\ ~Solid(at) => open' = open
    BY <1>1, OpenFacts DEF Grown
  <1>7. ASSUME NEW k \in 1 .. at' - 1, Solid(k) PROVE InBlocks(k)' \/ InOpen(k)'
    <2>1. CASE k = at
      BY <1>2, <1>5, <1>6, <1>7, <2>1 DEF InOpen
    <2>2. CASE k # at
      <3>1. k \in 1 .. at - 1
        BY <1>1, <1>2, <2>2
      <3>2. CASE InBlocks(k)
        BY <1>1, <3>2 DEF InBlocks
      <3>3. CASE InOpen(k)
        BY <1>2, <1>5, <1>6, <3>1, <3>3 DEF InOpen
      <3> QED
        BY <1>4, <1>7, <3>1, <3>2, <3>3
    <2> QED
      BY <2>1, <2>2
  <1>8. ASSUME NEW i \in DOMAIN blocks
        PROVE  blocks[i].to < at' /\ (open' # Empty => blocks[i].to < open'.from)
    <2>1. blocks[i].to \in Nat /\ blocks[i].to < at
      BY <1>4 DEF IInv, Inv, DataInv, BlockOK
    <2> QED
      BY <1>1, <1>2, <1>4, <1>5, <1>6, <2>1
  <1>9. at' <= Len(body) => NoTableAt(at')
    BY <1>1, <1>2, <1>4, NoTableNext
  <1>10. ASSUME open' # Empty, NEW k \in open'.from .. at' - 1 PROVE NoTableAt(k)
    <2>1. CASE k = at
      BY <1>4, <2>1
    <2>2. CASE k # at
      BY <1>1, <1>2, <1>4, <1>5, <1>6, <1>10, <2>2
    <2> QED
      BY <2>1, <2>2
  <1>11. ScannedInv'
    BY <1>1, <1>7, <1>8, <1>9, <1>10, SameTables DEF ScannedInv
  <1> QED
    BY <1>3, <1>11

(* One block more, after those there are.                                  *)
LEMMA OneMoreBlock ==
  ASSUME IInv, body' = body, NEW b, BlockOK(b), Shaped(b),
         \A i \in DOMAIN blocks : blocks[i].to < b.from,
         DOMAIN blocks' = 1 .. Len(blocks) + 1,
         \A i \in 1 .. Len(blocks) : blocks'[i] = blocks[i],
         blocks'[Len(blocks) + 1] = b
  PROVE  /\ BlocksInv'
         /\ \A k : InBlocks(k) \/ (b.from <= k /\ k <= b.to) => InBlocks(k)'
         /\ \A i \in DOMAIN blocks' : blocks'[i].to <= b.to
  <1> DEFINE n == Len(blocks)
  <1>1. n \in Nat /\ DOMAIN blocks = 1 .. n /\ \A i \in 1 .. n : BlockOK(blocks[i])
    BY SeqFacts DEF IInv, Inv, DataInv
  <1>2. /\ \A i \in 1 .. n : Shaped(blocks[i]) /\ blocks[i].to < b.from
        /\ \A i, j \in 1 .. n : i < j => blocks[i].to < blocks[j].from
    BY <1>1 DEF IInv, BlocksInv
  <1>3. /\ DOMAIN blocks' = 1 .. n + 1 /\ \A i \in 1 .. n : blocks'[i] = blocks[i]
        /\ blocks'[n + 1] = b
    OBVIOUS
  <1> HIDE DEF n
  <1>4. ASSUME NEW i \in 1 .. n + 1 PROVE i = n + 1 \/ i \in 1 .. n
    BY <1>1
  <1>5. \A i \in 1 .. n + 1 : Shaped(blocks'[i])
    BY <1>2, <1>3, <1>4
  <1>6. ASSUME NEW i \in 1 .. n + 1, NEW j \in 1 .. n + 1, i < j
        PROVE  blocks'[i].to < blocks'[j].from
    <2>1. i \in 1 .. n
      BY <1>1, <1>6
    <2> QED
      BY <1>2, <1>3, <1>4, <1>6, <2>1
  <1>7. BlocksInv'
    <2>1. \A i \in 1 .. n + 1 : Shaped(blocks[i])'
      BY <1>5, SameShape
    <2> QED
      BY <1>3, <1>6, <2>1 DEF BlocksInv
  <1>8. ASSUME NEW k, InBlocks(k) \/ (b.from <= k /\ k <= b.to) PROVE InBlocks(k)'
    <2>1. CASE InBlocks(k)
      <3>1. PICK i \in 1 .. n : blocks[i].from <= k /\ k <= blocks[i].to
        BY <1>1, <2>1 DEF InBlocks
      <3>2. i \in 1 .. n + 1
        BY <1>1
      <3> QED
        BY <1>3, <3>1, <3>2 DEF InBlocks
    <2>2. CASE b.from <= k /\ k <= b.to
      <3>1. n + 1 \in 1 .. n + 1
        BY <1>1
      <3> QED
        BY <1>3, <2>2, <3>1 DEF InBlocks
    <2> QED
      BY <1>8, <2>1, <2>2
  <1>9. ASSUME NEW i \in 1 .. n + 1 PROVE blocks'[i].to <= b.to
    <2>1. CASE i = n + 1
      BY <1>3, <2>1 DEF BlockOK
    <2>2. CASE i \in 1 .. n
      <3>1. blocks[i].to < b.from /\ blocks[i].to \in Nat /\ b.from \in Nat /\ b.to \in Nat /\ b.from <= b.to
        BY <1>1, <1>2, <2>2 DEF BlockOK
      <3> QED
        BY <1>3, <2>2, <3>1
    <2> QED
      BY <1>4, <2>1, <2>2
  <1> QED
    BY <1>3, <1>7, <1>8, <1>9

(* The prose collected so far becomes a block, if there is any.            *)
LEMMA Flushing ==
  ASSUME IInv, phase = "scan", body' = body, blocks' = blocks \o Flushed
  PROVE  /\ BlocksInv'
         /\ \A k \in 1 .. at - 1 : Solid(k) => InBlocks(k)'
         /\ \A i \in DOMAIN blocks' : blocks'[i].to < at
         /\ Len(blocks') \in Nat /\ Len(blocks') >= Len(blocks)
  <1>1. /\ \A k \in 1 .. at - 1 : Solid(k) => InBlocks(k) \/ InOpen(k)
        /\ \A i \in DOMAIN blocks :
              blocks[i].to < at /\ (open # Empty => blocks[i].to < open.from)
        /\ open # Empty => \A k \in open.from .. at - 1 : NoTableAt(k)
    BY DEF IInv, ScannedInv
  <1>2. /\ open.from \in Nat \ {0} /\ open.to \in Nat /\ open.to < at
        /\ IsEmpty(open) <=> open = Empty
    BY OpenFacts
  <1>3. IsSeq(blocks) /\ Len(blocks) \in Nat /\ at \in Nat
    BY SeqFacts DEF IInv, Inv, DataInv
  <1>4. CASE IsEmpty(open)
    <2>1. Flushed = <<>>
      BY <1>4 DEF Flushed
    <2>2. blocks \in Seq(Range(blocks))
      BY <1>3 DEF IsSeq
    <2>3. blocks' = blocks
      BY <2>1, <2>2
    <2>4. BlocksInv'
      BY <2>3, SameTables DEF BlocksInv, IInv
    <2>5. ASSUME NEW k \in 1 .. at - 1, Solid(k) PROVE InBlocks(k)'
      <3>1. ~InOpen(k)
        BY <1>2, <1>4 DEF InOpen, IsEmpty
      <3> QED
        BY <1>1, <2>3, <2>5, <3>1 DEF InBlocks
    <2> QED
      BY <1>1, <1>3, <2>3, <2>4, <2>5
  <1>5. CASE ~IsEmpty(open)
    <2> DEFINE b == [kind |-> "prose", from |-> open.from, to |-> open.to]
    <2>1. Flushed = <<b>> /\ b.kind = "prose" /\ b.from = open.from /\ b.to = open.to
      BY <1>5 DEF Flushed
    <2> HIDE DEF b
    <2>2. BlockOK(b)
      <3>1. IsSeq(Flushed) /\ \A i \in DOMAIN Flushed : BlockOK(Flushed[i])
        BY FlushedOK DEF IInv
      <3>2. DOMAIN Flushed = {1} /\ Flushed[1] = b
        BY <2>1, Singleton
      <3> QED
        BY <3>1, <3>2
    <2>3. Shaped(b)
      <3>1. \A k \in b.from .. b.to : NoTableAt(k)
        BY <1>1, <1>2, <1>3, <1>5, <2>1
      <3> QED
        BY <2>1, <3>1 DEF Shaped
    <2>4. /\ DOMAIN blocks' = 1 .. Len(blocks) + 1 /\ Len(blocks') = Len(blocks) + 1
          /\ \A i \in 1 .. Len(blocks) : blocks'[i] = blocks[i]
          /\ blocks'[Len(blocks) + 1] = b
      <3> DEFINE t == <<b>>
      <3>1. IsSeq(t) /\ Len(t) = 1 /\ t[1] = b
        BY Singleton
      <3> HIDE DEF t
      <3>2. /\ IsSeq(blocks \o t) /\ DOMAIN (blocks \o t) = 1 .. Len(blocks) + Len(t)
            /\ \A i \in 1 .. Len(blocks) : (blocks \o t)[i] = blocks[i]
            /\ \A i \in 1 .. Len(blocks) + Len(t) :
                  ~(i <= Len(blocks)) => (blocks \o t)[i] = t[i - Len(blocks)]
        BY <1>3, <3>1, Concatenated
      <3>3. blocks' = blocks \o t
        BY <2>1 DEF t
      <3>4. Len(blocks) + 1 \in 1 .. Len(blocks) + 1 /\ ~(Len(blocks) + 1 <= Len(blocks))
            /\ Len(blocks) + 1 - Len(blocks) = 1
        BY <1>3
      <3>5. DOMAIN blocks' = 1 .. Len(blocks') /\ Len(blocks') \in Nat
        BY <3>2, <3>3, SeqFacts
      <3>6. DOMAIN blocks' = 1 .. Len(blocks) + 1
        BY <3>1, <3>2, <3>3
      <3>7. Len(blocks') = Len(blocks) + 1
        BY <1>3, <3>5, <3>6
      <3> QED
        BY <3>1, <3>2, <3>3, <3>4, <3>6, <3>7
    <2>5. \A i \in DOMAIN blocks : blocks[i].to < b.from
      BY <1>1, <1>2, <1>5, <2>1
    <2>6. /\ BlocksInv'
          /\ \A k : InBlocks(k) \/ (b.from <= k /\ k <= b.to) => InBlocks(k)'
          /\ \A i \in DOMAIN blocks' : blocks'[i].to <= b.to
      BY <2>2, <2>3, <2>4, <2>5, OneMoreBlock
    <2>7. ASSUME NEW i \in DOMAIN blocks' PROVE blocks'[i].to < at
      <3>1. i \in 1 .. Len(blocks) \/ i = Len(blocks) + 1
        BY <1>3, <2>4
      <3>2. DOMAIN blocks = 1 .. Len(blocks)
        BY <1>3, SeqFacts
      <3> QED
        BY <1>1, <1>2, <2>1, <2>4, <3>1, <3>2
    <2>8. ASSUME NEW k \in 1 .. at - 1, Solid(k) PROVE InBlocks(k)'
      BY <1>1, <2>1, <2>6, <2>8 DEF InOpen
    <2> QED
      BY <1>3, <2>4, <2>6, <2>7, <2>8
  <1> QED
    BY <1>4, <1>5

LEMMA OpenTableBlocks ==
  ASSUME IInv, OpenTable
  PROVE  BlocksInv' /\ ScannedInv' /\ next \in 1 .. Len(blocks') + 1
  <1>1. /\ phase = "scan" /\ phase' = "table" /\ at <= Len(body) /\ StartsTable(at)
        /\ blocks' = blocks \o Flushed /\ at' = at + 2 /\ open' = [from |-> at, to |-> at + 1]
        /\ body' = body
    BY DEF OpenTable
  <1>2. at \in Nat \ {0} /\ body \in Body /\ Len(body) \in Nat /\ NoTableAt(at)
    BY <1>1, BodyFacts DEF IInv, Inv, DataInv, ScannedInv
  <1>3. /\ BlocksInv'
        /\ \A k \in 1 .. at - 1 : Solid(k) => InBlocks(k)'
        /\ \A i \in DOMAIN blocks' : blocks'[i].to < at
        /\ Len(blocks') \in Nat /\ Len(blocks') >= Len(blocks)
    BY <1>1, Flushing
  <1>4. IsTableRow(at) /\ IsTableRow(at + 1)
    BY <1>1 DEF StartsTable, IsTableRow
  <1>5. open'.from = at /\ open'.to = at + 1
    BY <1>1
  <1>6. ASSUME NEW k \in 1 .. at' - 1, Solid(k) PROVE InBlocks(k)' \/ InOpen(k)'
    BY <1>1, <1>2, <1>3, <1>5, <1>6 DEF InOpen
  <1>7. ASSUME NEW i \in DOMAIN blocks'
        PROVE  blocks'[i].to < at' /\ blocks'[i].to < open'.from
    <2>1. blocks'[i].to < at
      BY <1>3
    <2>2. blocks'[i].to \in Int
      <3>1. blocks'[i] = blocks'[i] /\ Inv'
        BY OpenTableInv DEF IInv
      <3> QED
        BY <3>1 DEF Inv, DataInv, BlockOK
    <2> QED
      BY <1>1, <1>2, <1>5, <2>1, <2>2
  <1>8. \A k \in open'.from .. open'.to : IsTableRow(k)
    BY <1>2, <1>4, <1>5
  <1>9. ScannedInv'
    BY <1>1, <1>2, <1>5, <1>6, <1>7, <1>8, SameTables DEF ScannedInv
  <1>10. next \in 1 .. Len(blocks') + 1
    <2>1. next \in 1 .. Len(blocks) + 1 /\ Len(blocks) \in Nat
      BY SeqFacts DEF IInv, PlaceInv, Inv, DataInv
    <2> QED
      BY <1>3, <2>1
  <1> QED
    BY <1>3, <1>9, <1>10

LEMMA EndScanBlocks ==
  ASSUME IInv, EndScan
  PROVE  BlocksInv' /\ ScannedInv' /\ next \in 1 .. Len(blocks') + 1
  <1>1. /\ phase = "scan" /\ phase' = "size" /\ at > Len(body)
        /\ blocks' = blocks \o Flushed /\ body' = body
    BY DEF EndScan
  <1>2. at \in Nat /\ body \in Body /\ Len(body) \in Nat
    BY BodyFacts DEF IInv, Inv, DataInv
  <1>3. /\ BlocksInv'
        /\ \A k \in 1 .. at - 1 : Solid(k) => InBlocks(k)'
        /\ Len(blocks') \in Nat /\ Len(blocks') >= Len(blocks)
    BY <1>1, Flushing
  <1>4. \A k \in 1 .. Len(body) : Solid(k) => InBlocks(k)'
    BY <1>1, <1>2, <1>3
  <1>5. ScannedInv'
    BY <1>1, <1>4, SameTables DEF ScannedInv
  <1>6. next \in 1 .. Len(blocks') + 1
    <2>1. next \in 1 .. Len(blocks) + 1 /\ Len(blocks) \in Nat
      BY SeqFacts DEF IInv, PlaceInv, Inv, DataInv
    <2> QED
      BY <1>3, <2>1
  <1> QED
    BY <1>3, <1>5, <1>6

LEMMA GrowTableBlocks ==
  ASSUME IInv, GrowTable
  PROVE  BlocksInv' /\ ScannedInv'
  <1>1. /\ phase = "table" /\ phase' = "table" /\ at <= Len(body) /\ IsTableRow(at)
        /\ open' = Grown(open, at) /\ at' = at + 1 /\ body' = body /\ blocks' = blocks
    BY DEF GrowTable
  <1>2. at \in Nat \ {0} /\ open.from \in Nat \ {0} /\ open.to = at - 1 /\ open.from < open.to
    BY <1>1 DEF IInv, Inv, DataInv, ScanInv, UpTo
  <1>3. open # Empty /\ ~IsEmpty(open)
    BY <1>2 DEF Empty, IsEmpty
  <1>4. open'.from = open.from /\ open'.to = at
    BY <1>1, <1>3, OpenFacts DEF Grown
  <1>5. /\ \A k \in 1 .. at - 1 : Solid(k) => InBlocks(k) \/ InOpen(k)
        /\ \A i \in DOMAIN blocks : blocks[i].to < open.from
        /\ NoTableAt(open.from) /\ \A k \in open.from .. open.to : IsTableRow(k)
    BY <1>1, <1>3 DEF IInv, ScannedInv
  <1>6. BlocksInv'
    BY <1>1, SameTables DEF BlocksInv, IInv
  <1>7. ASSUME NEW k \in 1 .. at' - 1, Solid(k) PROVE InBlocks(k)' \/ InOpen(k)'
    <2>1. InBlocks(k) => InBlocks(k)'
      BY <1>1 DEF InBlocks
    <2>2. InOpen(k) \/ k = at => InOpen(k)'
      BY <1>2, <1>4 DEF InOpen
    <2> QED
      BY <1>1, <1>2, <1>5, <1>7, <2>1, <2>2
  <1>8. ASSUME NEW i \in DOMAIN blocks PROVE blocks[i].to < at' /\ blocks[i].to < open'.from
    <2>1. blocks[i].to \in Nat
      BY DEF IInv, Inv, DataInv, BlockOK
    <2> QED
      BY <1>1, <1>2, <1>4, <1>5, <2>1
  <1>9. \A k \in open'.from .. open'.to : IsTableRow(k)
    BY <1>1, <1>2, <1>4, <1>5
  <1>10. ScannedInv'
    BY <1>1, <1>4, <1>5, <1>7, <1>8, <1>9, SameTables DEF ScannedInv
  <1> QED
    BY <1>6, <1>10

LEMMA CloseTableBlocks ==
  ASSUME IInv, CloseTable
  PROVE  BlocksInv' /\ ScannedInv' /\ next \in 1 .. Len(blocks') + 1
  <1> DEFINE b == [kind |-> "table", from |-> open.from, to |-> open.to]
  <1>1. /\ phase = "table" /\ phase' = "scan" /\ (at <= Len(body) => ~IsTableRow(at))
        /\ blocks' = Append(blocks, b) /\ open' = Empty /\ at' = at /\ body' = body
    BY DEF CloseTable
  <1>2. b.kind = "table" /\ b.from = open.from /\ b.to = open.to
    OBVIOUS
  <1> HIDE DEF b
  <1>3. /\ at \in Nat \ {0} /\ open.from \in Nat \ {0} /\ open.to = at - 1
        /\ open.from < open.to /\ StartsTable(open.from) /\ at <= Len(body) + 1
        /\ body \in Body /\ Len(body) \in Nat /\ IsSeq(blocks) /\ Len(blocks) \in Nat
    BY <1>1, BodyFacts, SeqFacts DEF IInv, Inv, DataInv, ScanInv, UpTo
  <1>4. open # Empty
    BY <1>3 DEF Empty
  <1>5. /\ \A k \in 1 .. at - 1 : Solid(k) => InBlocks(k) \/ InOpen(k)
        /\ \A i \in DOMAIN blocks : blocks[i].to < open.from
        /\ NoTableAt(open.from) /\ \A k \in open.from .. open.to : IsTableRow(k)
    BY <1>1, <1>4 DEF IInv, ScannedInv
  <1>6. BlockOK(b)
    BY <1>2, <1>3 DEF BlockOK
  <1>7. Shaped(b)
    BY <1>2, <1>5 DEF Shaped
  <1>8. /\ DOMAIN blocks' = 1 .. Len(blocks) + 1 /\ Len(blocks') = Len(blocks) + 1
        /\ \A i \in 1 .. Len(blocks) : blocks'[i] = blocks[i]
        /\ blocks'[Len(blocks) + 1] = b
    BY <1>1, <1>3, Appended
  <1>9. /\ BlocksInv'
        /\ \A k : InBlocks(k) \/ (b.from <= k /\ k <= b.to) => InBlocks(k)'
        /\ \A i \in DOMAIN blocks' : blocks'[i].to <= b.to
    <2>1. \A i \in DOMAIN blocks : blocks[i].to < b.from
      BY <1>2, <1>5
    <2> QED
      BY <1>1, <1>6, <1>7, <1>8, <2>1, OneMoreBlock
  <1>10. ASSUME NEW k \in 1 .. at - 1, Solid(k) PROVE InBlocks(k)'
    BY <1>2, <1>5, <1>9, <1>10 DEF InOpen
  <1>11. ASSUME NEW i \in DOMAIN blocks' PROVE blocks'[i].to < at
    <2>1. blocks'[i].to <= b.to /\ blocks'[i].to \in Int
      <3>1. Inv'
        BY CloseTableInv DEF IInv
      <3> QED
        BY <1>9, <3>1 DEF Inv, DataInv, BlockOK
    <2> QED
      BY <1>2, <1>3, <2>1
  <1>12. at <= Len(body) => NoTableAt(at)
    <2> SUFFICES ASSUME at <= Len(body), NEW h \in 1 .. at, Under(h, at) PROVE FALSE
      BY DEF NoTableAt
    <2>1. IsTableRow(at)
      BY <1>3 DEF Under
    <2> QED
      BY <1>1, <2>1
  <1>13. ScannedInv'
    BY <1>1, <1>10, <1>11, <1>12, SameTables DEF ScannedInv
  <1>14. next \in 1 .. Len(blocks') + 1
    <2>1. next \in 1 .. Len(blocks) + 1
      BY DEF IInv, PlaceInv
    <2> QED
      BY <1>3, <1>8, <2>1
  <1> QED
    BY <1>9, <1>13, <1>14

(* After the scan the blocks are what they are.                            *)
LEMMA ScanOver ==
  ASSUME IInv, phase \notin {"scan", "table"}, phase' \notin {"scan", "table"},
         body' = body, blocks' = blocks
  PROVE  BlocksInv' /\ ScannedInv'
  <1>1. BlocksInv'
    BY SameTables DEF BlocksInv, IInv
  <1>2. ScannedInv'
    BY SameTables DEF ScannedInv, IInv, InBlocks
  <1> QED
    BY <1>1, <1>2

-----------------------------------------------------------------------------
(***************************************************************************)
(* The units.                                                              *)
(***************************************************************************)

LEMMA SameUnit ==
  ASSUME body' = body, blocks' = blocks
  PROVE  /\ \A i, j : UnitOf(units'[i], blocks[j]) => UnitOf(units[i], blocks[j])'
         /\ \A i, j : InTurn(units'[i], units'[j]) => InTurn(units[i], units[j])'
  <1>1. ASSUME NEW i, NEW j, UnitOf(units'[i], blocks[j]) PROVE UnitOf(units[i], blocks[j])'
    BY <1>1 DEF UnitOf, WholeOf, ProseOf, RowsOf, Unit, Fits, LineTokens
  <1>2. ASSUME NEW i, NEW j, InTurn(units'[i], units'[j]) PROVE InTurn(units[i], units[j])'
    BY <1>2 DEF InTurn, Sharing, Fits, LineTokens
  <1> QED
    BY <1>1, <1>2

LEMMA BlockFacts ==
  ASSUME IInv, NEW j \in DOMAIN blocks
  PROVE  /\ j \in Nat \ {0} /\ j <= Len(blocks) /\ Len(blocks) \in Nat
         /\ blocks[j].from \in Nat \ {0} /\ blocks[j].to \in Nat
         /\ blocks[j].from <= blocks[j].to /\ blocks[j].to <= Len(body)
         /\ Len(body) \in Nat /\ body \in Body
         /\ blocks[j].kind = "table" => blocks[j].from + 1 <= blocks[j].to
         /\ blocks[j].kind \in {"prose", "table"}
         /\ \A i \in DOMAIN blocks :
               /\ i < j => blocks[i].to < blocks[j].from
               /\ j < i => blocks[j].to < blocks[i].from
  BY SeqFacts, BodyFacts DEF IInv, Inv, DataInv, BlockOK, BlocksInv

LEMMA UnitFacts ==
  ASSUME IInv, NEW i \in DOMAIN units
  PROVE  /\ i \in Nat \ {0} /\ i <= Len(units) /\ Len(units) \in Nat
         /\ units[i].from \in Nat \ {0} /\ units[i].to \in Nat
         /\ units[i].from <= units[i].to /\ units[i].to <= Len(body)
  <1>1. i \in Nat \ {0} /\ i <= Len(units) /\ Len(units) \in Nat
    BY SeqFacts DEF IInv, Inv, DataInv
  <1>2. PICK j \in DOMAIN blocks : UnitOf(units[i], blocks[j])
    BY DEF IInv, UnitsInv
  <1>3. /\ blocks[j].from \in Nat \ {0} /\ blocks[j].to \in Nat /\ blocks[j].to <= Len(body)
        /\ Len(body) \in Nat
    BY BlockFacts
  <1>4. /\ units[i].from \in Nat /\ units[i].to \in Nat
        /\ blocks[j].from <= units[i].from /\ units[i].from <= units[i].to /\ units[i].to <= blocks[j].to
    BY <1>2 DEF UnitOf
  <1> QED
    BY <1>1, <1>3, <1>4

(* Units of a block, after those there are.                                *)
LEMMA FurtherUnits ==
  ASSUME IInv, body' = body, blocks' = blocks, NEW b \in DOMAIN blocks,
         NEW m \in Nat,
         DOMAIN units' = 1 .. Len(units) + m,
         \A i \in 1 .. Len(units) : units'[i] = units[i],
         \A i \in Len(units) + 1 .. Len(units) + m :
            /\ UnitOf(units'[i], blocks[b])
            /\ \A p \in DOMAIN units : InTurn(units[p], units'[i])
            /\ \A p \in Len(units) + 1 .. i - 1 : InTurn(units'[p], units'[i])
  PROVE  /\ UnitsInv'
         /\ \A k : InUnits(k) => InUnits(k)'
  <1> DEFINE n == Len(units)
  <1>1. n \in Nat /\ DOMAIN units = 1 .. n
    BY SeqFacts DEF IInv, Inv, DataInv
  <1>2. /\ \A i \in 1 .. n : \E j \in DOMAIN blocks : UnitOf(units[i], blocks[j])
        /\ \A i, j \in 1 .. n : i < j => InTurn(units[i], units[j])
    BY <1>1 DEF IInv, UnitsInv
  <1>3. /\ DOMAIN units' = 1 .. n + m
        /\ \A i \in 1 .. n : units'[i] = units[i]
        /\ \A i \in n + 1 .. n + m :
              /\ UnitOf(units'[i], blocks[b])
              /\ \A p \in 1 .. n : InTurn(units[p], units'[i])
              /\ \A p \in n + 1 .. i - 1 : InTurn(units'[p], units'[i])
    BY <1>1
  <1> HIDE DEF n
  <1>4. \A i \in 1 .. n + m : i \in 1 .. n \/ i \in n + 1 .. n + m
    BY <1>1
  <1>5. ASSUME NEW i \in 1 .. n + m PROVE \E j \in DOMAIN blocks : UnitOf(units[i], blocks[j])'
    <2>1. \E j \in DOMAIN blocks : UnitOf(units'[i], blocks[j])
      <3>1. CASE i \in 1 .. n
        BY <1>2, <1>3, <3>1
      <3>2. CASE i \in n + 1 .. n + m
        BY <1>3, <3>2
      <3> QED
        BY <1>4, <3>1, <3>2
    <2> QED
      BY <2>1, SameUnit
  <1>6. ASSUME NEW i \in 1 .. n + m, NEW j \in 1 .. n + m, i < j
        PROVE  InTurn(units[i], units[j])'
    <2>1. InTurn(units'[i], units'[j])
      <3>1. CASE j \in 1 .. n
        <4>1. i \in 1 .. n
          BY <1>1, <1>6, <3>1
        <4>2. InTurn(units[i], units[j])
          BY <1>2, <1>6, <3>1, <4>1
        <4> QED
          BY <1>3, <3>1, <4>1, <4>2
      <3>2. CASE j \in n + 1 .. n + m /\ i \in 1 .. n
        <4>1. InTurn(units[i], units'[j])
          BY <1>3, <3>2
        <4> QED
          BY <1>3, <3>2, <4>1
      <3>3. CASE j \in n + 1 .. n + m /\ i \in n + 1 .. n + m
        <4>1. i \in n + 1 .. j - 1
          BY <1>1, <1>6, <3>3
        <4> QED
          BY <1>3, <3>3, <4>1
      <3> QED
        BY <1>4, <3>1, <3>2, <3>3
    <2> QED
      BY <2>1, SameUnit
  <1>7. UnitsInv'
    BY <1>3, <1>5, <1>6 DEF UnitsInv
  <1>8. ASSUME NEW k, InUnits(k) PROVE InUnits(k)'
    <2>1. PICK i \in 1 .. n :
             \/ units[i].from <= k /\ k <= units[i].to
             \/ units[i].header # 0 /\ k \in {units[i].header, units[i].header + 1}
      BY <1>1, <1>8 DEF InUnits
    <2>2. i \in 1 .. n + m
      BY <1>1
    <2> QED
      BY <1>3, <2>1, <2>2 DEF InUnits
  <1> QED
    BY <1>7, <1>8

(* One unit of a block, after those there are.                             *)
LEMMA OneMoreUnit ==
  ASSUME IInv, body' = body, blocks' = blocks, NEW b \in DOMAIN blocks,
         NEW u, UnitOf(u, blocks[b]), \A p \in DOMAIN units : InTurn(units[p], u),
         units' = Append(units, u)
  PROVE  /\ UnitsInv'
         /\ \A k : InUnits(k) => InUnits(k)'
         /\ \A k : u.from <= k /\ k <= u.to => InUnits(k)'
         /\ \A k : u.header # 0 /\ k \in {u.header, u.header + 1} => InUnits(k)'
         /\ \A i \in DOMAIN units' : (i \in DOMAIN units /\ units'[i] = units[i]) \/ units'[i] = u
  <1> DEFINE n == Len(units)
  <1>1. n \in Nat /\ DOMAIN units = 1 .. n /\ IsSeq(units)
    BY SeqFacts DEF IInv, Inv, DataInv
  <1>2. /\ DOMAIN units' = 1 .. n + 1 /\ \A i \in 1 .. n : units'[i] = units[i]
        /\ units'[n + 1] = u
    BY <1>1, Appended
  <1>3. ASSUME NEW i \in n + 1 .. n + 1
        PROVE  /\ UnitOf(units'[i], blocks[b])
               /\ \A p \in DOMAIN units : InTurn(units[p], units'[i])
               /\ \A p \in n + 1 .. i - 1 : InTurn(units'[p], units'[i])
    <2>1. i = n + 1
      BY <1>1
    <2>2. \A p \in n + 1 .. i - 1 : FALSE
      BY <1>1, <2>1
    <2>3. units'[i] = u
      BY <1>2, <2>1
    <2> QED
      BY <2>2, <2>3
  <1>4. /\ UnitsInv'
        /\ \A k : InUnits(k) => InUnits(k)'
    BY <1>2, <1>3, FurtherUnits
  <1> HIDE DEF n
  <1>5. n + 1 \in DOMAIN units'
    BY <1>1, <1>2
  <1>6. \A i \in DOMAIN units' : i \in 1 .. n \/ i = n + 1
    BY <1>1, <1>2
  <1>7. /\ \A k : u.from <= k /\ k <= u.to => InUnits(k)'
        /\ \A k : u.header # 0 /\ k \in {u.header, u.header + 1} => InUnits(k)'
    BY <1>2, <1>5 DEF InUnits
  <1> QED
    BY <1>1, <1>2, <1>4, <1>6, <1>7

(* A unit that begins after another one has ended.                         *)
LEMMA After ==
  ASSUME NEW u, NEW v, u.from \in Nat, u.to \in Nat, v.from \in Nat, v.to \in Nat,
         u.from <= u.to, v.from <= v.to, u.to < v.from
  PROVE  InTurn(u, v)
  BY DEF InTurn

-----------------------------------------------------------------------------
(* While lines are scanned there are no units.                             *)
LEMMA ScanUnits ==
  ASSUME IInv, phase \in {"scan", "table"}, units' = units
  PROVE  UnitsInv' /\ units' = <<>> /\ DOMAIN units' = {}
  <1>1. units' = <<>>
    BY DEF IInv, SizedInv, Unsized
  <1>2. DOMAIN units' = {}
    BY <1>1
  <1> QED
    BY <1>1, <1>2 DEF UnitsInv

LEMMA ScanSized ==
  ASSUME IInv, phase \in {"scan", "table"}, units' = units,
         \/ phase' \in {"scan", "table"}
         \/ phase' = "size" /\ at' = 1 /\ Len(blocks') \in Nat /\ DOMAIN blocks' = 1 .. Len(blocks')
  PROVE  UnitsInv' /\ SizedInv'
  <1>1. UnitsInv' /\ units' = <<>> /\ DOMAIN units' = {}
    BY ScanUnits
  <1>2. CASE phase' \in {"scan", "table"}
    BY <1>1, <1>2 DEF SizedInv, Unsized, Sized
  <1>3. CASE phase' = "size" /\ at' = 1 /\ Len(blocks') \in Nat /\ DOMAIN blocks' = 1 .. Len(blocks')
    <2>1. \A j \in DOMAIN blocks' : ~(j < at')
      BY <1>3
    <2> QED
      BY <1>1, <1>3, <2>1 DEF SizedInv, Unsized, Sized
  <1> QED
    BY <1>2, <1>3

LEMMA SizeWholeUnits ==
  ASSUME IInv, SizeWhole
  PROVE  UnitsInv' /\ SizedInv'
  <1> DEFINE b == blocks[at]
             u == Unit(0, b.from, b.to)
  <1>1. /\ phase = "size" /\ phase' = "size" /\ at <= Len(blocks)
        /\ Fits(b) \/ (b.kind = "table" /\ Degenerate(b))
        /\ units' = Append(units, u) /\ at' = at + 1
        /\ body' = body /\ blocks' = blocks
    BY DEF SizeWhole
  <1>2. at \in DOMAIN blocks /\ at \in Nat \ {0} /\ Len(blocks) \in Nat
    BY <1>1, SeqFacts DEF IInv, Inv, DataInv
  <1>3. /\ b.from \in Nat \ {0} /\ b.to \in Nat /\ b.from <= b.to
        /\ \A j \in DOMAIN blocks : at < j => b.to < blocks[j].from
    BY <1>2, BlockFacts
  <1>4. /\ u.header = 0 /\ u.from = b.from /\ u.to = b.to
    BY DEF Unit
  <1>5. UnitOf(u, b)
    BY <1>1, <1>3, <1>4 DEF UnitOf, WholeOf
  <1> HIDE DEF u, b
  <1>6. \A p \in DOMAIN units, j \in DOMAIN blocks : at <= j => units[p].to < blocks[j].from
    BY <1>1 DEF IInv, SizedInv
  <1>7. ASSUME NEW p \in DOMAIN units PROVE InTurn(units[p], u)
    <2>1. units[p].to < u.from
      BY <1>2, <1>4, <1>6 DEF b
    <2> QED
      BY <1>3, <1>4, <2>1, UnitFacts, After
  <1>8. /\ UnitsInv'
        /\ \A k : InUnits(k) => InUnits(k)'
        /\ \A k : u.from <= k /\ k <= u.to => InUnits(k)'
        /\ \A i \in DOMAIN units' : (i \in DOMAIN units /\ units'[i] = units[i]) \/ units'[i] = u
    BY <1>1, <1>2, <1>5, <1>7, OneMoreUnit DEF b
  <1>9. ASSUME NEW i \in DOMAIN units', NEW j \in DOMAIN blocks, at' <= j
        PROVE  units'[i].to < blocks[j].from
    <2>1. j \in Nat /\ at < j
      BY <1>1, <1>2, <1>9, BlockFacts
    <2> QED
      BY <1>2, <1>3, <1>4, <1>6, <1>8, <2>1
  <1>10. ASSUME NEW j \in DOMAIN blocks, NEW k \in 1 .. Len(body),
                j < at', blocks[j].from <= k, k <= blocks[j].to, Solid(k)
         PROVE  InUnits(k)'
    <2>1. CASE j = at
      BY <1>4, <1>8, <1>10, <2>1 DEF b
    <2>2. CASE j # at
      <3>1. j < at
        BY <1>1, <1>2, <1>10, <2>2, BlockFacts
      <3> QED
        BY <1>1, <1>8, <1>10, <3>1 DEF IInv, SizedInv
    <2> QED
      BY <2>1, <2>2
  <1>11. SizedInv'
    BY <1>1, <1>2, <1>9, <1>10, SameTables DEF SizedInv, Unsized, Sized
  <1> QED
    BY <1>8, <1>11

(* Steps that make no unit.                                                *)
LEMMA NoNewUnit ==
  ASSUME IInv, body' = body, blocks' = blocks, units' = units
  PROVE  UnitsInv' /\ \A k : InUnits(k)' <=> InUnits(k)
  <1>1. \A i \in DOMAIN units' : units'[i] = units[i]
    OBVIOUS
  <1>2. UnitsInv'
    <2>1. \A i \in DOMAIN units : \E j \in DOMAIN blocks : UnitOf(units'[i], blocks[j])
      BY DEF IInv, UnitsInv
    <2>2. \A i, j \in DOMAIN units : i < j => InTurn(units'[i], units'[j])
      BY DEF IInv, UnitsInv
    <2> QED
      BY <2>1, <2>2, SameUnit DEF UnitsInv
  <1> QED
    BY <1>2 DEF InUnits

LEMMA SplitProseUnits ==
  ASSUME IInv, SplitProse
  PROVE  UnitsInv' /\ SizedInv'
  <1>1. /\ phase = "size" /\ phase' = "prose" /\ at <= Len(blocks)
        /\ ~Fits(blocks[at]) /\ blocks[at].kind = "prose"
        /\ at' = blocks[at].from /\ next' = at
        /\ body' = body /\ blocks' = blocks /\ units' = units
    BY DEF SplitProse
  <1>2. at \in DOMAIN blocks
    BY <1>1, SeqFacts DEF IInv, Inv, DataInv
  <1>3. blocks[at].from \in Nat
    BY <1>2, BlockFacts
  <1>4. UnitsInv' /\ \A k : InUnits(k)' <=> InUnits(k)
    BY <1>1, NoNewUnit
  <1>5. /\ \A i \in DOMAIN units, j \in DOMAIN blocks : at <= j => units[i].to < blocks[j].from
        /\ \A j \in DOMAIN blocks, k \in 1 .. Len(body) :
              j < at /\ blocks[j].from <= k /\ k <= blocks[j].to /\ Solid(k) => InUnits(k)
    BY <1>1 DEF IInv, SizedInv
  <1>6. \A i \in DOMAIN units : units[i].to < blocks[at].from /\ units[i].to \in Nat
    <2>1. at <= at
      BY DEF IInv, Inv, DataInv
    <2> QED
      BY <1>2, <1>5, <2>1, UnitFacts
  <1>7. \A k \in blocks[at].from .. blocks[at].from - 1 : FALSE
    BY <1>3
  <1>9. \A i \in DOMAIN units : ~(blocks[at].from <= units[i].to)
    BY <1>3, <1>6
  <1>10. SizedInv'
    <2>1. phase' \notin {"scan", "table", "size", "rows", "pack", "done"}
      BY <1>1
    <2>2. /\ blocks'[next'].kind = "prose" /\ ~Fits(blocks[next])'
          /\ blocks'[next'].from <= at'
      BY <1>1, <1>3 DEF Fits, LineTokens
    <2>3. \A i \in DOMAIN units' :
              /\ units'[i].to < at'
              /\ blocks'[next'].from <= units'[i].to => blocks'[next'].from <= units'[i].from
      BY <1>1, <1>6, <1>9
    <2>4. \A k \in blocks'[next'].from .. at' - 1 : Solid(k)' => InUnits(k)'
      BY <1>1, <1>7
    <2>5. \A j \in DOMAIN blocks', k \in 1 .. Len(body') :
              j < next' /\ blocks'[j].from <= k /\ k <= blocks'[j].to /\ Solid(k)' => InUnits(k)'
      BY <1>1, <1>4, <1>5, SameTables
    <2> QED
      BY <2>1, <2>2, <2>3, <2>4, <2>5 DEF SizedInv, Unsized, Sized
  <1> QED
    BY <1>4, <1>10

-----------------------------------------------------------------------------
(* Prose that is being split.                                              *)
LEMMA ProseFacts ==
  ASSUME IInv, phase = "prose"
  PROVE  /\ next \in DOMAIN blocks /\ blocks[next].kind = "prose" /\ ~Fits(blocks[next])
         /\ blocks[next].from \in Nat \ {0} /\ blocks[next].to \in Nat
         /\ blocks[next].to <= Len(body) /\ Len(body) \in Nat
         /\ at \in Nat \ {0} /\ blocks[next].from <= at /\ at <= blocks[next].to + 1
         /\ \A i \in DOMAIN units :
               /\ units[i].to < at
               /\ blocks[next].from <= units[i].to => blocks[next].from <= units[i].from
         /\ \A k \in blocks[next].from .. at - 1 : Solid(k) => InUnits(k)
         /\ \A j \in DOMAIN blocks, k \in 1 .. Len(body) :
               j < next /\ blocks[j].from <= k /\ k <= blocks[j].to /\ Solid(k) => InUnits(k)
  <1>1. next \in DOMAIN blocks /\ at \in Nat \ {0} /\ at <= blocks[next].to + 1
    BY DEF IInv, Inv, SizeInv
  <1> QED
    BY <1>1, BlockFacts DEF IInv, SizedInv

(* More pieces of it, up to a line that comes next.                        *)
LEMMA ProseGoesOn ==
  ASSUME IInv, phase = "prose", phase' = "prose",
         body' = body, blocks' = blocks, next' = next,
         at' \in Nat, at < at', at' <= blocks[next].to + 1,
         \A k : InUnits(k) => InUnits(k)',
         \A k \in at .. at' - 1 : Solid(k) => InUnits(k)',
         \A i \in DOMAIN units' :
            \/ i \in DOMAIN units /\ units'[i] = units[i]
            \/ /\ units'[i].from \in Nat /\ units'[i].to \in Nat
               /\ units'[i].to < at' /\ blocks[next].from <= units'[i].from
  PROVE  SizedInv'
  <1> DEFINE b == blocks[next]
  <1>1. /\ b.from \in Nat \ {0} /\ b.to \in Nat /\ at \in Nat \ {0} /\ b.from <= at
        /\ b.kind = "prose" /\ ~Fits(b)
        /\ \A k \in b.from .. at - 1 : Solid(k) => InUnits(k)
        /\ \A j \in DOMAIN blocks, k \in 1 .. Len(body) :
              j < next /\ blocks[j].from <= k /\ k <= blocks[j].to /\ Solid(k) => InUnits(k)
    BY ProseFacts
  <1>2. ASSUME NEW i \in DOMAIN units'
        PROVE  units'[i].to < at' /\ (b.from <= units'[i].to => b.from <= units'[i].from)
    <2>1. CASE i \in DOMAIN units /\ units'[i] = units[i]
      <3>1. units[i].to < at /\ (b.from <= units[i].to => b.from <= units[i].from) /\ units[i].to \in Nat
        BY <2>1, ProseFacts, UnitFacts
      <3> QED
        BY <1>1, <2>1, <3>1
    <2>2. CASE ~(i \in DOMAIN units /\ units'[i] = units[i])
      BY <2>2
    <2> QED
      BY <2>1, <2>2
  <1>3. PICK m \in Nat : m = at'
    OBVIOUS
  <1>8. ASSUME NEW k \in b.from .. m - 1, Solid(k) PROVE InUnits(k)'
    <2>1. b.from \in Nat /\ at \in Nat
      BY <1>1
    <2> HIDE DEF b
    <2>2. CASE k < at
      <3>1. k \in b.from .. at - 1
        BY <2>1, <2>2
      <3> QED
        BY <1>1, <1>8, <3>1
    <2>3. CASE ~(k < at)
      <3>1. k \in at .. m - 1
        BY <2>1, <2>3
      <3>2. k \in at .. at' - 1
        BY <1>3, <3>1
      <3> QED
        BY <1>8, <3>2
    <2> QED
      BY <2>2, <2>3
  <1>4. /\ blocks'[next'] = b /\ (Fits(blocks[next])' <=> Fits(b))
    BY DEF Fits, LineTokens
  <1> HIDE DEF b
  <1>5. /\ blocks'[next'].kind = "prose" /\ ~Fits(blocks[next])' /\ blocks'[next'].from <= at'
    BY <1>1, <1>4
  <1>6. \A k \in b.from .. at' - 1 : Solid(k)' => InUnits(k)'
    BY <1>3, <1>8, SameTables
  <1>7. \A j \in DOMAIN blocks', k \in 1 .. Len(body') :
            j < next' /\ blocks'[j].from <= k /\ k <= blocks'[j].to /\ Solid(k)' => InUnits(k)'
    BY <1>1, SameTables
  <1> QED
    BY <1>2, <1>4, <1>5, <1>6, <1>7 DEF SizedInv, Unsized, Sized

LEMMA TakeProseUnits ==
  ASSUME IInv, TakeProse
  PROVE  UnitsInv' /\ SizedInv'
  <1> DEFINE b == blocks[next]
  <1>1. /\ phase = "prose" /\ phase' = "prose" /\ at <= b.to
        /\ body' = body /\ blocks' = blocks /\ next' = next
    BY DEF TakeProse
  <1>2. PICK from \in b.from .. at, to \in at .. b.to :
          /\ \A i \in DOMAIN units : units[i].from <= from
          /\ units' = Append(units, Unit(0, from, to))
          /\ at' = to + 1
    BY DEF TakeProse
  <1>3. /\ next \in DOMAIN blocks /\ b.kind = "prose" /\ ~Fits(b)
        /\ b.from \in Nat \ {0} /\ b.to \in Nat /\ b.to <= Len(body) /\ Len(body) \in Nat
        /\ at \in Nat \ {0} /\ b.from <= at
        /\ \A i \in DOMAIN units :
              units[i].to < at /\ (b.from <= units[i].to => b.from <= units[i].from)
    BY <1>1, ProseFacts
  <1> DEFINE u == Unit(0, from, to)
  <1>4. from \in Nat \ {0} /\ to \in Nat /\ b.from <= from /\ from <= at /\ at <= to /\ to <= b.to
    BY <1>2, <1>3
  <1>5. u.header = 0 /\ u.from = from /\ u.to = to /\ u.tokens = LineTokens(from, to)
    BY DEF Unit
  <1>6. LineTokens(from, to) \in Nat
    <2>1. body \in Body /\ from \in 1 .. Len(body) /\ to \in from .. Len(body)
      BY <1>3, <1>4, BlockFacts
    <2> QED
      BY <2>1, LineTokensFacts
  <1> HIDE DEF u
  <1>7. UnitOf(u, b)
    BY <1>3, <1>4, <1>5, <1>6 DEF UnitOf, ProseOf
  <1>8. ASSUME NEW p \in DOMAIN units PROVE InTurn(units[p], u)
    <2>1. /\ units[p].from \in Nat /\ units[p].to \in Nat
          /\ units[p].from <= from /\ units[p].to < at
          /\ b.from <= units[p].to => b.from <= units[p].from
      BY <1>2, <1>3, UnitFacts
    <2>2. units[p].from <= u.from /\ units[p].to <= u.to
      BY <1>4, <1>5, <2>1, <1>3
    <2>3. CASE units[p].to < from
      BY <1>5, <2>2, <2>3 DEF InTurn
    <2>4. CASE ~(units[p].to < from)
      <3>1. b.from <= units[p].from /\ units[p].to <= b.to /\ b.from <= u.from /\ u.to <= b.to
        BY <1>1, <1>3, <1>4, <1>5, <2>1, <2>4
      <3>2. Sharing(units[p], u)
        BY <1>3, <3>1 DEF Sharing
      <3> QED
        BY <2>2, <3>2 DEF InTurn
    <2> QED
      BY <2>3, <2>4
  <1>9. /\ UnitsInv'
        /\ \A k : InUnits(k) => InUnits(k)'
        /\ \A k : u.from <= k /\ k <= u.to => InUnits(k)'
        /\ \A i \in DOMAIN units' : (i \in DOMAIN units /\ units'[i] = units[i]) \/ units'[i] = u
    <2>1. units' = Append(units, u)
      BY <1>2 DEF u
    <2> HIDE DEF b
    <2>2. UnitOf(u, blocks[next])
      BY <1>7 DEF b
    <2> QED
      BY <1>1, <1>3, <1>8, <2>1, <2>2, OneMoreUnit
  <1>10. /\ at' \in Nat /\ at < at' /\ at' <= b.to + 1
    BY <1>2, <1>3, <1>4
  <1>11. \A k \in at .. at' - 1 : Solid(k) => InUnits(k)'
    <2> TAKE k \in at .. at' - 1
    <2>1. u.from <= k /\ k <= u.to
      BY <1>2, <1>3, <1>4, <1>5
    <2> QED
      BY <1>9, <2>1
  <1>12. \A i \in DOMAIN units' :
            \/ i \in DOMAIN units /\ units'[i] = units[i]
            \/ /\ units'[i].from \in Nat /\ units'[i].to \in Nat
               /\ units'[i].to < at' /\ b.from <= units'[i].from
    BY <1>2, <1>4, <1>5, <1>9
  <1>13. SizedInv'
    BY <1>1, <1>9, <1>10, <1>11, <1>12, ProseGoesOn
  <1> QED
    BY <1>9, <1>13

LEMMA SkipBlankUnits ==
  ASSUME IInv, SkipBlank
  PROVE  UnitsInv' /\ SizedInv'
  <1>1. /\ phase = "prose" /\ phase' = "prose" /\ at <= blocks[next].to /\ ~Solid(at)
        /\ at' = at + 1 /\ body' = body /\ blocks' = blocks /\ units' = units /\ next' = next
    BY DEF SkipBlank
  <1>2. at \in Nat /\ blocks[next].to \in Nat
    BY <1>1, ProseFacts
  <1>3. UnitsInv' /\ \A k : InUnits(k)' <=> InUnits(k)
    BY <1>1, NoNewUnit
  <1>4. \A k \in at .. at' - 1 : Solid(k) => InUnits(k)'
    BY <1>1, <1>2
  <1>5. at' \in Nat /\ at < at' /\ at' <= blocks[next].to + 1
    BY <1>1, <1>2
  <1>6. SizedInv'
    BY <1>1, <1>3, <1>4, <1>5, ProseGoesOn
  <1> QED
    BY <1>3, <1>6

LEMMA EndProseUnits ==
  ASSUME IInv, EndProse
  PROVE  UnitsInv' /\ SizedInv'
  <1>1. /\ phase = "prose" /\ phase' = "size" /\ at > blocks[next].to /\ at' = next + 1
        /\ body' = body /\ blocks' = blocks /\ units' = units
    BY DEF EndProse
  <1>2. /\ next \in DOMAIN blocks /\ at \in Nat /\ at <= blocks[next].to + 1
        /\ blocks[next].from \in Nat \ {0} /\ blocks[next].to \in Nat
        /\ \A i \in DOMAIN units : units[i].to < at
        /\ \A k \in blocks[next].from .. at - 1 : Solid(k) => InUnits(k)
        /\ \A j \in DOMAIN blocks, k \in 1 .. Len(body) :
              j < next /\ blocks[j].from <= k /\ k <= blocks[j].to /\ Solid(k) => InUnits(k)
    BY <1>1, ProseFacts
  <1>3. next \in Nat /\ next <= Len(blocks) /\ Len(blocks) \in Nat
    BY <1>2, BlockFacts
  <1>4. UnitsInv' /\ \A k : InUnits(k)' <=> InUnits(k)
    BY <1>1, NoNewUnit
  <1>5. ASSUME NEW i \in DOMAIN units, NEW j \in DOMAIN blocks, at' <= j
        PROVE  units[i].to < blocks[j].from
    <2>1. next < j /\ j \in Nat
      BY <1>1, <1>3, <1>5, BlockFacts
    <2>2. blocks[next].to < blocks[j].from /\ blocks[j].from \in Nat
      BY <1>2, <2>1, BlockFacts
    <2>3. units[i].to < at /\ units[i].to \in Nat
      BY <1>2, UnitFacts
    <2> QED
      BY <1>2, <2>2, <2>3
  <1>6. ASSUME NEW j \in DOMAIN blocks, NEW k \in 1 .. Len(body),
               j < at', blocks[j].from <= k, k <= blocks[j].to, Solid(k)
        PROVE  InUnits(k)
    <2>1. CASE j = next
      <3>1. k \in blocks[next].from .. at - 1
        BY <1>1, <1>2, <1>6, <2>1
      <3> QED
        BY <1>2, <1>6, <3>1
    <2>2. CASE j # next
      <3>1. j < next
        BY <1>1, <1>3, <1>6, <2>2, BlockFacts
      <3> QED
        BY <1>2, <1>6, <3>1
    <2> QED
      BY <2>1, <2>2
  <1>7. SizedInv'
    BY <1>1, <1>3, <1>4, <1>5, <1>6, SameTables DEF SizedInv, Unsized, Sized
  <1> QED
    BY <1>4, <1>7

-----------------------------------------------------------------------------
(* A line that is too large is cut into one piece at least, and none       *)
(* begins after its end.                                                   *)
LEMMA CutFacts ==
  ASSUME NEW t \in Nat, NEW size \in Nat, NEW shared \in Nat, shared < size, size < t,
         NEW stride \in Nat, stride = size - shared,
         NEW n, n = (t - shared + stride - 1) \div stride
  PROVE  /\ n \in Nat /\ 1 <= n
         /\ \A p \in 1 .. n : t - (p - 1) * stride \in Nat
  <1>1. PICK a \in Nat : a = t - shared + stride - 1
    OBVIOUS
  <1>2. stride \in Nat \ {0} /\ stride <= a
    BY <1>1
  <1>3. n = a \div stride
    BY <1>1
  <1>4. n \in Nat
    BY ONLY <1>2, <1>3, a \in Nat
  <1>5. PICK r \in 0 .. stride - 1 : a = stride * n + r
    <2>1. a % stride \in 0 .. stride - 1 /\ a = stride * (a \div stride) + (a % stride)
      BY ONLY <1>2, a \in Nat
    <2> QED
      BY <1>3, <2>1
  <1>6. 1 <= n
    <2>1. CASE n = 0
      <3>1. stride * n = 0
        BY <2>1
      <3> QED
        BY <1>2, <1>5, <3>1
    <2> QED
      BY <1>4, <2>1
  <1>7. ASSUME NEW p \in 1 .. n PROVE t - (p - 1) * stride \in Nat
    <2>1. PICK q \in Nat, d \in Nat : q = p - 1 /\ n = q + 1 + d
      <3>1. p - 1 \in Nat /\ n - p \in Nat /\ n = p - 1 + 1 + (n - p)
        BY <1>4
      <3> QED
        BY <3>1
    <2>2. stride * n = q * stride + stride + stride * d
      BY ONLY <1>2, <2>1
    <2>3. PICK x \in Nat, y \in Nat : x = q * stride /\ y = stride * d
      BY ONLY <1>2, <2>1
    <2>4. a = x + stride + y + r /\ r \in Nat
      BY <1>2, <1>5, <2>2, <2>3
    <2>5. x <= t /\ t - x \in Nat
      BY <1>1, <2>3, <2>4
    <2> QED
      BY <2>1, <2>3, <2>5
  <1> QED
    BY <1>4, <1>6, <1>7

LEMMA CutLineUnits ==
  ASSUME IInv, CutLine
  PROVE  UnitsInv' /\ SizedInv'
  <1> DEFINE b == blocks[next]
             stride == Size - Shared
             n == (body[at].tokens - Shared + stride - 1) \div stride
             left(p) == body[at].tokens - (p - 1) * stride
             piece(p) == [header |-> 0, from |-> at, to |-> at,
                          tokens |-> IF left(p) > Size THEN Size ELSE left(p)]
             t == [p \in 1..n |-> piece(p)]
             m == Len(units)
  <1>1. /\ phase = "prose" /\ phase' = "prose" /\ at <= b.to /\ body[at].tokens > Size
        /\ units' = units \o t /\ at' = at + 1
        /\ body' = body /\ blocks' = blocks /\ next' = next
    BY DEF CutLine
  <1>2. /\ next \in DOMAIN blocks /\ b.kind = "prose" /\ ~Fits(b)
        /\ b.from \in Nat \ {0} /\ b.to \in Nat /\ b.to <= Len(body) /\ Len(body) \in Nat
        /\ at \in Nat \ {0} /\ b.from <= at
        /\ \A i \in DOMAIN units :
              units[i].to < at /\ (b.from <= units[i].to => b.from <= units[i].from)
    BY <1>1, ProseFacts
  <1>3. body[at].tokens \in Nat
    BY <1>1, <1>2, BodyFacts, BlockFacts
  <1>4. n \in Nat /\ 1 <= n /\ \A p \in 1 .. n : left(p) \in Nat
    <2>1. Shared \in Nat /\ Shared < Size /\ Size \in Nat
      BY SharedOK, ChunkingAssumption
    <2> DEFINE w == body[at].tokens
    <2>2. w \in Nat /\ Size < w
      BY <1>1, <1>3
    <2> HIDE DEF w
    <2>3. stride \in Nat /\ stride = Size - Shared
      BY <2>1
    <2>4. n = (w - Shared + stride - 1) \div stride
      BY DEF w
    <2>5. \A p : left(p) = w - (p - 1) * stride
      BY DEF w
    <2> HIDE DEF stride, n, left
    <2>6. n \in Nat /\ 1 <= n /\ \A p \in 1 .. n : w - (p - 1) * stride \in Nat
      BY ONLY <2>1, <2>2, <2>3, <2>4, CutFacts
    <2> QED
      BY <2>5, <2>6
  <1> HIDE DEF n, left
  <1>5. ASSUME NEW p \in 1 .. n
        PROVE  /\ piece(p).header = 0 /\ piece(p).from = at /\ piece(p).to = at
               /\ piece(p).tokens \in Nat
    BY <1>4, ChunkingAssumption
  <1> HIDE DEF piece
  <1>6. IsSeq(t) /\ Len(t) = n /\ \A p \in 1 .. n : t[p] = piece(p)
    <2> DEFINE S == {piece(p) : p \in 1 .. n}
    <2>1. t \in [1 .. n -> S] /\ \A p \in 1 .. n : t[p] = piece(p)
      OBVIOUS
    <2> HIDE DEF S, t
    <2>2. t \in Seq(S)
      BY <1>4, <2>1
    <2>3. Len(t) \in Nat /\ 1 .. Len(t) = 1 .. n
      BY <2>1, <2>2, LenProperties
    <2>4. Len(t) = n
      BY ONLY <1>4, <2>3
    <2> QED
      BY <2>1, <2>2, <2>4, RangeSeq
  <1> HIDE DEF t
  <1>7. m \in Nat /\ DOMAIN units = 1 .. m /\ IsSeq(units)
    BY SeqFacts DEF IInv, Inv, DataInv
  <1>8. /\ DOMAIN units' = 1 .. m + n
        /\ \A i \in 1 .. m : units'[i] = units[i]
        /\ \A i \in 1 .. m + n : ~(i <= m) => i - m \in DOMAIN t /\ units'[i] = t[i - m]
    BY <1>1, <1>6, <1>7, Concatenated
  <1> HIDE DEF m
  <1>9. ASSUME NEW i \in m + 1 .. m + n
        PROVE  /\ units'[i].header = 0 /\ units'[i].from = at /\ units'[i].to = at
               /\ units'[i].tokens \in Nat
    <2>1. i \in 1 .. m + n /\ ~(i <= m) /\ i - m \in 1 .. n
      BY <1>4, <1>7
    <2>2. units'[i] = t[i - m]
      BY <1>8, <2>1
    <2>3. units'[i] = piece(i - m)
      BY <1>6, <2>1, <2>2
    <2> QED
      BY <1>5, <2>1, <2>3
  <1> HIDE DEF b
  <1>10. ASSUME NEW i \in m + 1 .. m + n
         PROVE  /\ UnitOf(units'[i], b)
                /\ \A p \in DOMAIN units : InTurn(units[p], units'[i])
                /\ \A p \in m + 1 .. i - 1 : InTurn(units'[p], units'[i])
    <2>1. UnitOf(units'[i], b)
      <3>1. /\ units'[i].header = 0 /\ units'[i].from = at /\ units'[i].to = at
            /\ units'[i].tokens \in Nat
        BY <1>9
      <3>2. /\ b.kind = "prose" /\ ~Fits(b) /\ at \in Nat
            /\ b.from \in Nat /\ b.from <= at /\ at <= b.to
        BY <1>1, <1>2
      <3> QED
        BY ONLY <3>1, <3>2 DEF UnitOf, ProseOf
    <2>2. ASSUME NEW p \in DOMAIN units PROVE InTurn(units[p], units'[i])
      <3>1. units[p].to < at /\ units[p].from \in Nat /\ units[p].to \in Nat
            /\ units[p].from <= units[p].to
        BY <1>2, UnitFacts
      <3>2. at \in Nat /\ units'[i].from = at /\ units'[i].to = at
        BY <1>2, <1>9
      <3> QED
        BY <3>1, <3>2 DEF InTurn
    <2>3. ASSUME NEW p \in m + 1 .. i - 1 PROVE InTurn(units'[p], units'[i])
      <3>1. p \in m + 1 .. m + n
        BY <1>4, <1>7
      <3>2. /\ units'[p].from = at /\ units'[p].to = at
            /\ units'[i].from = at /\ units'[i].to = at /\ at \in Nat
        BY <1>2, <1>9, <3>1
      <3>3. Sharing(units'[p], units'[i])
        BY <1>1, <1>2, <3>2 DEF Sharing, b
      <3> QED
        BY <3>2, <3>3 DEF InTurn
    <2> QED
      BY <2>1, <2>2, <2>3
  <1>11. /\ UnitsInv'
         /\ \A k : InUnits(k) => InUnits(k)'
    BY <1>1, <1>2, <1>4, <1>8, <1>10, FurtherUnits DEF b, m
  <1>12. \A k : k = at => InUnits(k)'
    <2>1. m + 1 \in m + 1 .. m + n /\ m + 1 \in DOMAIN units'
      BY <1>4, <1>7, <1>8
    <2>2. units'[m + 1].from = at /\ units'[m + 1].to = at
      BY <1>9, <2>1
    <2>3. units'[m + 1].from <= at /\ at <= units'[m + 1].to
      BY <1>2, <2>2
    <2> QED
      BY <2>1, <2>3 DEF InUnits
  <1>13. /\ at' \in Nat /\ at < at' /\ at' <= b.to + 1
         /\ \A k \in at .. at' - 1 : k = at
    BY <1>1, <1>2
  <1>14. ASSUME NEW i \in DOMAIN units'
         PROVE  \/ i \in DOMAIN units /\ units'[i] = units[i]
                \/ /\ units'[i].from \in Nat /\ units'[i].to \in Nat
                   /\ units'[i].to < at' /\ b.from <= units'[i].from
    <2>1. i \in 1 .. m \/ i \in m + 1 .. m + n
      BY <1>4, <1>7, <1>8
    <2>2. CASE i \in 1 .. m
      BY <1>7, <1>8, <2>2
    <2>3. CASE i \in m + 1 .. m + n
      BY <1>1, <1>2, <1>9, <2>3, SMTT(30)
    <2> QED
      BY <2>1, <2>2, <2>3
  <1>15. \A k \in at .. at' - 1 : Solid(k) => InUnits(k)'
    BY <1>12, <1>13
  <1>16. SizedInv'
    BY <1>1, <1>11, <1>13, <1>14, <1>15, ProseGoesOn DEF b
  <1> QED
    BY <1>11, <1>16
-----------------------------------------------------------------------------
(* A table that is being split.                                            *)
LEMMA RowsFacts ==
  ASSUME IInv, phase = "rows"
  PROVE  /\ next \in DOMAIN blocks /\ blocks[next].kind = "table"
         /\ blocks[next].from \in Nat \ {0} /\ blocks[next].to \in Nat
         /\ blocks[next].to <= Len(body) /\ Len(body) \in Nat
         /\ at \in Nat \ {0} /\ blocks[next].from + 2 <= at /\ at <= blocks[next].to + 1
         /\ open = Empty => at = blocks[next].from + 2 /\ at <= blocks[next].to
         /\ open # Empty => /\ open.from \in Nat \ {0} /\ open.to = at - 1
                            /\ open.from <= open.to /\ blocks[next].from + 2 <= open.from
                            /\ ~IsEmpty(open)
         /\ \A i \in DOMAIN units :
               units[i].to < at /\ (open # Empty => units[i].to < open.from)
         /\ \A k \in blocks[next].from + 2 .. at - 1 : InUnits(k) \/ InOpen(k)
         /\ \A j \in DOMAIN blocks, k \in 1 .. Len(body) :
               j < next /\ blocks[j].from <= k /\ k <= blocks[j].to /\ Solid(k) => InUnits(k)
  <1>1. /\ next \in DOMAIN blocks /\ at \in Nat \ {0} /\ at <= blocks[next].to + 1
        /\ open = Empty => at <= blocks[next].to
        /\ open # Empty => UpTo(open)
    <2>1. /\ next \in DOMAIN blocks /\ at \in Nat \ {0} /\ at <= blocks[next].to + 1
          /\ (open = Empty /\ at <= blocks[next].to) \/ UpTo(open)
      BY DEF IInv, Inv, SizeInv
    <2>2. ~(open = Empty /\ UpTo(open))
      BY DEF UpTo, Empty
    <2> QED
      BY <2>1, <2>2
  <1>2. open # Empty => open.from \in Nat \ {0} /\ open.to = at - 1 /\ open.from <= open.to /\ ~IsEmpty(open)
    BY <1>1, OpenFacts DEF UpTo, IsEmpty
  <1> QED
    BY <1>1, <1>2, BlockFacts DEF IInv, SizedInv

(* The piece that is open may be closed.                                   *)
LEMMA ClosePiece ==
  ASSUME IInv, phase = "rows", open # Empty, body' = body, blocks' = blocks,
         units' = Append(units, Piece(open.from, open.to))
  PROVE  /\ UnitsInv'
         /\ \A k : InUnits(k) \/ InOpen(k) => InUnits(k)'
         /\ \A k \in {blocks[next].from, blocks[next].from + 1} : InUnits(k)'
         /\ \A i \in DOMAIN units' : units'[i].to \in Nat /\ units'[i].to < at
  <1> DEFINE b == blocks[next]
             u == Piece(open.from, open.to)
  <1>1. /\ next \in DOMAIN blocks /\ b.kind = "table"
        /\ b.from \in Nat \ {0} /\ b.to \in Nat /\ at \in Nat \ {0} /\ at <= b.to + 1
        /\ open.from \in Nat \ {0} /\ open.to = at - 1 /\ open.from <= open.to
        /\ b.from + 2 <= open.from
        /\ \A i \in DOMAIN units : units[i].to < at /\ units[i].to < open.from
    BY RowsFacts
  <1>2. u.header = b.from /\ u.from = open.from /\ u.to = open.to /\ u = Unit(b.from, u.from, u.to)
    BY DEF Piece, Unit
  <1> HIDE DEF u
  <1>3. UnitOf(u, blocks[next])
    BY <1>1, <1>2 DEF UnitOf, RowsOf
  <1>4. ASSUME NEW p \in DOMAIN units PROVE InTurn(units[p], u)
    <2>1. units[p].to < u.from /\ u.from \in Nat /\ u.to \in Nat /\ u.from <= u.to
      BY <1>1, <1>2
    <2> QED
      BY <2>1, UnitFacts, After
  <1>5. /\ UnitsInv'
        /\ \A k : InUnits(k) => InUnits(k)'
        /\ \A k : u.from <= k /\ k <= u.to => InUnits(k)'
        /\ \A k : u.header # 0 /\ k \in {u.header, u.header + 1} => InUnits(k)'
        /\ \A i \in DOMAIN units' : (i \in DOMAIN units /\ units'[i] = units[i]) \/ units'[i] = u
    <2>1. units' = Append(units, u)
      BY DEF u
    <2> QED
      BY <1>1, <1>3, <1>4, <2>1, OneMoreUnit
  <1>6. \A k : InOpen(k) => InUnits(k)'
    BY <1>2, <1>5 DEF InOpen
  <1>7. \A k \in {b.from, b.from + 1} : InUnits(k)'
    BY <1>1, <1>2, <1>5
  <1>8. ASSUME NEW i \in DOMAIN units' PROVE units'[i].to \in Nat /\ units'[i].to < at
    <2>1. CASE i \in DOMAIN units /\ units'[i] = units[i]
      BY <1>1, <2>1, UnitFacts
    <2>2. CASE units'[i] = u
      BY <1>1, <1>2, <2>2
    <2> QED
      BY <1>5, <2>1, <2>2
  <1> QED
    BY <1>5, <1>6, <1>7, <1>8

LEMMA TakeRowUnits ==
  ASSUME IInv, TakeRow
  PROVE  UnitsInv' /\ SizedInv'
  <1> DEFINE b == blocks[next]
             full == ~IsEmpty(open) /\ ~(Piece(open.from, at).tokens <= Size)
  <1>1. /\ phase = "rows" /\ phase' = "rows" /\ at <= b.to /\ at' = at + 1
        /\ body' = body /\ blocks' = blocks /\ next' = next
    BY DEF TakeRow
  <1>2. /\ next \in DOMAIN blocks /\ b.kind = "table"
        /\ b.from \in Nat \ {0} /\ b.to \in Nat /\ at \in Nat \ {0} /\ b.from + 2 <= at
        /\ open = Empty => at = b.from + 2
        /\ open # Empty => /\ open.from \in Nat \ {0} /\ open.to = at - 1
                           /\ open.from <= open.to /\ b.from + 2 <= open.from /\ ~IsEmpty(open)
        /\ \A i \in DOMAIN units :
              units[i].to < at /\ (open # Empty => units[i].to < open.from)
        /\ \A k \in b.from + 2 .. at - 1 : InUnits(k) \/ InOpen(k)
        /\ \A j \in DOMAIN blocks, k \in 1 .. Len(body) :
              j < next /\ blocks[j].from <= k /\ k <= blocks[j].to /\ Solid(k) => InUnits(k)
    BY <1>1, RowsFacts
  <1>3. IsEmpty(Empty) /\ \A x : Grown(Empty, x) = [from |-> x, to |-> x]
    BY DEF Grown, IsEmpty, Empty
  <1>4. \A i \in DOMAIN units : units[i].to \in Nat
    BY UnitFacts
  <1> HIDE DEF b
  <1>5. /\ UnitsInv'
        /\ \A k : InUnits(k) => InUnits(k)'
        /\ \A k \in b.from + 2 .. at - 1 : InUnits(k)' \/ InOpen(k)'
        /\ open'.from \in Nat /\ open'.to = at /\ open'.from <= at /\ b.from + 2 <= open'.from
        /\ \A i \in DOMAIN units' : units'[i].to \in Nat /\ units'[i].to < open'.from
    <2>1. CASE full
      <3>1. /\ units' = Append(units, Piece(open.from, open.to))
            /\ open' = [from |-> at, to |-> at]
        BY <1>3, <2>1 DEF TakeRow
      <3>2. open # Empty
        BY <1>3, <2>1
      <3>3. /\ UnitsInv'
            /\ \A k : InUnits(k) \/ InOpen(k) => InUnits(k)'
            /\ \A i \in DOMAIN units' : units'[i].to \in Nat /\ units'[i].to < at
        BY <1>1, <3>1, <3>2, ClosePiece
      <3> QED
        BY <1>2, <3>1, <3>3
    <2>2. CASE ~full
      <3>1. units' = units /\ open' = Grown(open, at)
        BY <2>2 DEF TakeRow
      <3>2. UnitsInv' /\ \A k : InUnits(k)' <=> InUnits(k)
        BY <1>1, <3>1, NoNewUnit
      <3>3. CASE open = Empty
        <4>1. open' = [from |-> at, to |-> at]
          BY <1>3, <3>1, <3>3
        <4>2. \A k : ~(k \in b.from + 2 .. at - 1)
          BY <1>2, <3>3
        <4> QED
          BY <1>2, <1>4, <3>1, <3>2, <4>1, <4>2
      <3>4. CASE open # Empty
        <4>1. open'.from = open.from /\ open'.to = at
          BY <1>2, <3>1, <3>4, OpenFacts DEF Grown
        <4>2. \A k \in b.from + 2 .. at - 1 : InOpen(k) => InOpen(k)'
          BY <1>2, <3>4, <4>1 DEF InOpen
        <4> QED
          BY <1>2, <1>4, <3>1, <3>2, <3>4, <4>1, <4>2
      <3> QED
        BY <3>3, <3>4
    <2> QED
      BY <2>1, <2>2
  <1>6. open' # Empty
    BY <1>2, <1>5 DEF Empty
  <1>7. ASSUME NEW k \in b.from + 2 .. at' - 1 PROVE InUnits(k)' \/ InOpen(k)'
    <2>1. CASE k = at
      BY <1>2, <1>5, <2>1 DEF InOpen
    <2>2. CASE k # at
      <3>1. k \in b.from + 2 .. at - 1
        BY <1>1, <1>2, <2>2
      <3> QED
        BY <1>5, <3>1
    <2> QED
      BY <2>1, <2>2
  <1>8. \A i \in DOMAIN units' : units'[i].to < at'
    BY <1>1, <1>2, <1>5
  <1>9. b.from + 2 <= at'
    BY <1>1, <1>2
  <1>10. blocks'[next'] = b
    BY <1>1 DEF b
  <1>11. SizedInv'
    <2>1. \A j \in DOMAIN blocks', k \in 1 .. Len(body') :
             j < next' /\ blocks'[j].from <= k /\ k <= blocks'[j].to /\ Solid(k)' => InUnits(k)'
      BY <1>1, <1>2, <1>5, SameTables
    <2> QED
      BY <1>1, <1>2, <1>5, <1>6, <1>7, <1>8, <1>9, <1>10, <2>1 DEF SizedInv, Unsized, Sized
  <1> QED
    BY <1>5, <1>11

LEMMA SplitTableUnits ==
  ASSUME IInv, SplitTable
  PROVE  UnitsInv' /\ SizedInv'
  <1>1. /\ phase = "size" /\ phase' = "rows" /\ at <= Len(blocks)
        /\ blocks[at].kind = "table" /\ at' = blocks[at].from + 2 /\ next' = at /\ open' = Empty
        /\ body' = body /\ blocks' = blocks /\ units' = units
    BY DEF SplitTable
  <1>2. at \in DOMAIN blocks /\ at \in Nat
    BY <1>1, SeqFacts DEF IInv, Inv, DataInv
  <1>3. blocks[at].from \in Nat
    BY <1>2, BlockFacts
  <1>4. UnitsInv' /\ \A k : InUnits(k)' <=> InUnits(k)
    BY <1>1, NoNewUnit
  <1>5. /\ \A i \in DOMAIN units, j \in DOMAIN blocks : at <= j => units[i].to < blocks[j].from
        /\ \A j \in DOMAIN blocks, k \in 1 .. Len(body) :
              j < at /\ blocks[j].from <= k /\ k <= blocks[j].to /\ Solid(k) => InUnits(k)
    BY <1>1 DEF IInv, SizedInv
  <1>6. \A i \in DOMAIN units : units[i].to < at'
    <2>1. \A i \in DOMAIN units : units[i].to < blocks[at].from /\ units[i].to \in Nat
      BY <1>2, <1>5, UnitFacts
    <2> QED
      BY <1>1, <1>3, <2>1
  <1>7. PICK f \in Nat : f = blocks[at].from
    BY <1>3
  <1>8. \A k \in f + 2 .. at' - 1 : FALSE
    BY <1>1, <1>7
  <1>9. SizedInv'
    <2>1. phase' = "rows" /\ blocks'[next'].kind = "table" /\ blocks'[next'].from + 2 <= at'
          /\ open' = Empty /\ at' = blocks'[next'].from + 2 /\ blocks'[next'].from = f
      BY <1>1, <1>3, <1>7
    <2>2. \A j \in DOMAIN blocks', k \in 1 .. Len(body') :
             j < next' /\ blocks'[j].from <= k /\ k <= blocks'[j].to /\ Solid(k)' => InUnits(k)'
      BY <1>1, <1>4, <1>5, SameTables
    <2> QED
      BY <1>1, <1>6, <1>8, <2>1, <2>2 DEF SizedInv, Unsized, Sized, Empty
  <1> QED
    BY <1>4, <1>9

LEMMA EndRowsUnits ==
  ASSUME IInv, EndRows
  PROVE  UnitsInv' /\ SizedInv'
  <1> DEFINE b == blocks[next]
  <1>1. /\ phase = "rows" /\ phase' = "size" /\ at > b.to /\ at' = next + 1
        /\ units' = Append(units, Piece(open.from, open.to))
        /\ body' = body /\ blocks' = blocks
    BY DEF EndRows
  <1>2. /\ next \in DOMAIN blocks
        /\ b.from \in Nat \ {0} /\ b.to \in Nat /\ at \in Nat \ {0} /\ at <= b.to + 1
        /\ open = Empty => at <= b.to
        /\ \A k \in b.from + 2 .. at - 1 : InUnits(k) \/ InOpen(k)
        /\ \A j \in DOMAIN blocks, k \in 1 .. Len(body) :
              j < next /\ blocks[j].from <= k /\ k <= blocks[j].to /\ Solid(k) => InUnits(k)
    BY <1>1, RowsFacts
  <1>3. open # Empty /\ at = b.to + 1
    BY <1>1, <1>2
  <1>4. next \in Nat /\ next <= Len(blocks) /\ Len(blocks) \in Nat
        /\ \A i \in DOMAIN blocks : next < i => b.to < blocks[i].from
    BY <1>2, BlockFacts
  <1> HIDE DEF b
  <1>5. /\ UnitsInv'
        /\ \A k : InUnits(k) \/ InOpen(k) => InUnits(k)'
        /\ \A k \in {b.from, b.from + 1} : InUnits(k)'
        /\ \A i \in DOMAIN units' : units'[i].to \in Nat /\ units'[i].to < at
    BY <1>1, <1>3, ClosePiece DEF b
  <1>6. ASSUME NEW i \in DOMAIN units', NEW j \in DOMAIN blocks, at' <= j
        PROVE  units'[i].to < blocks[j].from
    <2>1. next < j /\ blocks[j].from \in Nat
      BY <1>1, <1>4, <1>6, BlockFacts
    <2>2. b.to < blocks[j].from
      BY <1>4, <2>1
    <2> QED
      BY <1>2, <1>3, <1>5, <2>1, <2>2
  <1>7. ASSUME NEW j \in DOMAIN blocks, NEW k \in 1 .. Len(body),
               j < at', blocks[j].from <= k, k <= blocks[j].to, Solid(k)
        PROVE  InUnits(k)'
    <2>1. CASE j = next
      <3>1. b.from <= k /\ k <= b.to
        BY <1>7, <2>1 DEF b
      <3>2. k \in {b.from, b.from + 1} \/ k \in b.from + 2 .. at - 1
        BY <1>2, <1>3, <3>1, SMTT(30)
      <3> QED
        BY <1>2, <1>5, <3>2
    <2>2. CASE j # next
      <3>1. j < next
        BY <1>1, <1>4, <1>7, <2>2, BlockFacts
      <3> QED
        BY <1>2, <1>5, <1>7, <3>1
    <2> QED
      BY <2>1, <2>2
  <1>8. SizedInv'
    BY <1>1, <1>4, <1>6, <1>7, SameTables DEF SizedInv, Unsized, Sized
  <1> QED
    BY <1>5, <1>8

LEMMA EndSizeUnits ==
  ASSUME IInv, EndSize
  PROVE  UnitsInv' /\ SizedInv'
  <1>1. /\ phase = "size" /\ phase' = "pack" /\ at > Len(blocks)
        /\ body' = body /\ blocks' = blocks /\ units' = units
    BY DEF EndSize
  <1>2. UnitsInv' /\ \A k : InUnits(k)' <=> InUnits(k)
    BY <1>1, NoNewUnit
  <1>3. ASSUME NEW k \in 1 .. Len(body), Solid(k) PROVE InUnits(k)
    <2>1. InBlocks(k)
      BY <1>1, <1>3 DEF IInv, ScannedInv
    <2>2. PICK j \in DOMAIN blocks : blocks[j].from <= k /\ k <= blocks[j].to
      BY <2>1 DEF InBlocks
    <2>3. j < at
      BY <1>1, BlockFacts DEF IInv, Inv, DataInv
    <2> QED
      BY <1>1, <1>3, <2>2, <2>3 DEF IInv, SizedInv
  <1>4. SizedInv'
    BY <1>1, <1>2, <1>3, SameTables DEF SizedInv, Unsized, Sized
  <1> QED
    BY <1>2, <1>4

(* When the units are packed they are what they are.                       *)
LEMMA SizeOver ==
  ASSUME IInv, phase \in {"pack", "done"}, phase' \in {"pack", "done"},
         body' = body, blocks' = blocks, units' = units
  PROVE  UnitsInv' /\ SizedInv'
  <1>1. UnitsInv' /\ \A k : InUnits(k)' <=> InUnits(k)
    BY NoNewUnit
  <1>2. SizedInv'
    BY <1>1, SameTables DEF IInv, SizedInv, Unsized, Sized
  <1> QED
    BY <1>1, <1>2

-----------------------------------------------------------------------------
(***************************************************************************)
(* The chunks.                                                             *)
(***************************************************************************)

LEMMA NothingPacked ==
  ASSUME Inv', phase' \notin {"pack", "done"}
  PROVE  PackedInv'
  <1>1. chunks' = <<>>
    BY DEF Inv, PackInv
  <1>2. DOMAIN chunks' = {}
    BY <1>1, NoElements, SeqFacts
  <1> QED
    BY <1>2 DEF PackedInv

LEMMA EndSizePacked ==
  ASSUME IInv, EndSize
  PROVE  PackedInv'
  <1>1. phase = "size" /\ phase' = "pack" /\ at' = 1 /\ chunks' = chunks /\ open' = open
    BY DEF EndSize
  <1>2. chunks = <<>> /\ open = Empty
    BY <1>1 DEF IInv, Inv, PackInv, SizeInv
  <1>3. DOMAIN chunks' = {}
    BY <1>1, <1>2, NoElements, SeqFacts
  <1>4. PICK m \in Nat : m = at'
    BY <1>1
  <1>5. \A i \in 1 .. m - 1 : FALSE
    BY <1>1, <1>4
  <1> QED
    BY <1>1, <1>3, <1>4, <1>5 DEF PackedInv

LEMMA PackFacts ==
  ASSUME IInv, phase = "pack"
  PROVE  /\ at \in Nat \ {0} /\ Len(units) \in Nat /\ at <= Len(units) + 1
         /\ DOMAIN units = 1 .. Len(units)
         /\ IsSeq(chunks) /\ Len(chunks) \in Nat /\ DOMAIN chunks = 1 .. Len(chunks)
         /\ \A c \in DOMAIN chunks : chunks[c].to \in Nat /\ chunks[c].from \in Nat \ {0}
         /\ open = Empty => at = 1 /\ DOMAIN chunks = {}
         /\ open # Empty => /\ open.from \in Nat \ {0} /\ open.to = at - 1
                            /\ open.from <= open.to /\ ~IsEmpty(open)
         /\ \A i \in 1 .. at - 1 : InChunks(i) \/ InOpen(i)
         /\ open # Empty => \A c \in DOMAIN chunks : chunks[c].to < open.from
  <1>1. /\ at <= Len(units) + 1
        /\ (open = Empty /\ chunks = <<>> /\ at = 1) \/ UpTo(open)
    BY DEF IInv, Inv, PackInv
  <1>2. ~(open = Empty /\ UpTo(open))
    BY DEF UpTo, Empty
  <1>3. open = Empty => at = 1 /\ DOMAIN chunks = {}
    BY <1>1, <1>2, NoElements, SeqFacts
  <1>4. open # Empty => /\ open.from \in Nat \ {0} /\ open.to = at - 1
                        /\ open.from <= open.to /\ ~IsEmpty(open)
    BY <1>1, OpenFacts DEF UpTo, IsEmpty
  <1>5. /\ at \in Nat \ {0} /\ Len(units) \in Nat /\ DOMAIN units = 1 .. Len(units)
        /\ IsSeq(chunks) /\ Len(chunks) \in Nat /\ DOMAIN chunks = 1 .. Len(chunks)
        /\ \A c \in DOMAIN chunks : ChunkOK(chunks[c])
    BY SeqFacts DEF IInv, Inv, DataInv
  <1>6. \A c \in DOMAIN chunks : chunks[c].to \in Nat /\ chunks[c].from \in Nat \ {0}
    BY <1>5 DEF ChunkOK
  <1> QED
    BY <1>1, <1>3, <1>4, <1>5, <1>6 DEF IInv, PackedInv

(* The chunk that is open is closed.                                       *)
LEMMA OneMoreChunk ==
  ASSUME IInv, phase = "pack", open # Empty, chunks' = Append(chunks, open)
  PROVE  /\ \A c, d \in DOMAIN chunks' : c < d => chunks'[c].to < chunks'[d].from
         /\ \A c \in DOMAIN chunks' : chunks'[c].to \in Nat /\ chunks'[c].to < at
         /\ \A i \in 1 .. at - 1 : InChunks(i)'
  <1> DEFINE n == Len(chunks)
  <1>1. /\ n \in Nat /\ DOMAIN chunks = 1 .. n /\ IsSeq(chunks) /\ at \in Nat \ {0}
        /\ \A c \in 1 .. n : chunks[c].to \in Nat /\ chunks[c].from \in Nat \ {0}
        /\ open.from \in Nat \ {0} /\ open.to = at - 1 /\ open.from <= open.to
        /\ \A i \in 1 .. at - 1 : InChunks(i) \/ InOpen(i)
        /\ \A c \in 1 .. n : chunks[c].to < open.from
    BY PackFacts
  <1>2. \A c, d \in 1 .. n : c < d => chunks[c].to < chunks[d].from
    BY <1>1 DEF IInv, PackedInv
  <1>3. /\ DOMAIN chunks' = 1 .. n + 1
        /\ \A c \in 1 .. n : chunks'[c] = chunks[c]
        /\ chunks'[n + 1] = open
    BY <1>1, Appended
  <1> HIDE DEF n
  <1>4. \A c \in DOMAIN chunks' : c \in 1 .. n \/ c = n + 1
    BY <1>1, <1>3
  <1>5. ASSUME NEW c \in DOMAIN chunks', NEW d \in DOMAIN chunks', c < d
        PROVE  chunks'[c].to < chunks'[d].from
    <2>1. CASE d \in 1 .. n
      <3>1. c \in 1 .. n
        BY <1>1, <1>4, <1>5, <2>1
      <3> QED
        BY <1>2, <1>3, <1>5, <2>1, <3>1
    <2>2. CASE d = n + 1
      <3>1. c \in 1 .. n
        BY <1>1, <1>4, <1>5, <2>2
      <3> QED
        BY <1>1, <1>3, <2>2, <3>1
    <2> QED
      BY <1>4, <2>1, <2>2
  <1>6. ASSUME NEW c \in DOMAIN chunks' PROVE chunks'[c].to \in Nat /\ chunks'[c].to < at
    <2>1. CASE c \in 1 .. n
      BY <1>1, <1>3, <2>1
    <2>2. CASE c = n + 1
      BY <1>1, <1>3, <2>2
    <2> QED
      BY <1>4, <2>1, <2>2
  <1>7. ASSUME NEW i \in 1 .. at - 1 PROVE InChunks(i)'
    <2>1. CASE InChunks(i)
      <3>1. PICK c \in 1 .. n : chunks[c].from <= i /\ i <= chunks[c].to
        BY <1>1, <2>1 DEF InChunks
      <3>2. c \in DOMAIN chunks' /\ chunks'[c] = chunks[c]
        BY <1>1, <1>3
      <3> QED
        BY <3>1, <3>2 DEF InChunks
    <2>2. CASE InOpen(i)
      <3>1. n + 1 \in DOMAIN chunks' /\ chunks'[n + 1] = open
        BY <1>1, <1>3
      <3> QED
        BY <2>2, <3>1 DEF InChunks, InOpen
    <2> QED
      BY <1>1, <2>1, <2>2
  <1> QED
    BY <1>5, <1>6, <1>7

LEMMA PackUnitPacked ==
  ASSUME IInv, PackUnit
  PROVE  PackedInv'
  <1> DEFINE full == ~IsEmpty(open) /\ Overflows(open.from, at)
  <1>1. phase = "pack" /\ phase' = "pack" /\ at' = at + 1
    BY DEF PackUnit
  <1>2. at \in Nat \ {0}
    BY <1>1, PackFacts
  <1>3. IsEmpty(Empty) /\ \A x : Grown(Empty, x) = [from |-> x, to |-> x]
    BY DEF Grown, IsEmpty, Empty
  <1>4. /\ \A c, d \in DOMAIN chunks' : c < d => chunks'[c].to < chunks'[d].from
        /\ \A c \in DOMAIN chunks' : chunks'[c].to < open'.from
        /\ \A i \in 1 .. at - 1 : InChunks(i)' \/ InOpen(i)'
        /\ open'.from \in Nat \ {0} /\ open'.to = at /\ open'.from <= at
    <2>1. CASE full
      <3>1. /\ chunks' = Append(chunks, open)
            /\ open' = [from |-> at, to |-> at]
        BY <1>3, <2>1 DEF PackUnit
      <3>2. open # Empty
        BY <1>3, <2>1
      <3> QED
        BY <1>1, <1>2, <3>1, <3>2, OneMoreChunk
    <2>2. CASE ~full
      <3>1. chunks' = chunks /\ open' = Grown(open, at)
        BY <2>2 DEF PackUnit
      <3>2. /\ \A c, d \in DOMAIN chunks : c < d => chunks[c].to < chunks[d].from
            /\ \A i : InChunks(i)' <=> InChunks(i)
        BY <3>1 DEF IInv, PackedInv, InChunks
      <3>3. CASE open = Empty
        <4>1. open' = [from |-> at, to |-> at]
          BY <1>3, <3>1, <3>3
        <4>2. DOMAIN chunks = {} /\ \A i : ~(i \in 1 .. at - 1)
          BY <1>1, <3>3, PackFacts
        <4> QED
          BY <1>2, <3>1, <4>1, <4>2
      <3>4. CASE open # Empty
        <4>1. /\ open.from \in Nat \ {0} /\ open.to = at - 1 /\ open.from <= open.to /\ ~IsEmpty(open)
              /\ \A i \in 1 .. at - 1 : InChunks(i) \/ InOpen(i)
              /\ \A c \in DOMAIN chunks : chunks[c].to < open.from
          BY <1>1, <3>4, PackFacts
        <4>2. open'.from = open.from /\ open'.to = at
          BY <3>1, <4>1, OpenFacts DEF Grown
        <4>3. \A i \in 1 .. at - 1 : InOpen(i) => InOpen(i)'
          BY <1>2, <4>1, <4>2 DEF InOpen
        <4> QED
          BY <1>2, <3>1, <3>2, <4>1, <4>2, <4>3
      <3> QED
        BY <3>3, <3>4
    <2> QED
      BY <2>1, <2>2
  <1>5. PICK m \in Nat : m = at'
    BY <1>1, <1>2
  <1>6. ASSUME NEW i \in 1 .. m - 1 PROVE InChunks(i)' \/ InOpen(i)'
    <2>1. CASE i = at
      BY <1>2, <1>4, <2>1 DEF InOpen
    <2>2. CASE i # at
      <3>1. i \in 1 .. at - 1
        BY <1>1, <1>2, <1>5, <2>2
      <3> QED
        BY <1>4, <3>1
    <2> QED
      BY <2>1, <2>2
  <1> QED
    BY <1>1, <1>4, <1>5, <1>6 DEF PackedInv

LEMMA EndPackPacked ==
  ASSUME IInv, EndPack
  PROVE  PackedInv'
  <1>1. /\ phase = "pack" /\ phase' = "done" /\ at > Len(units) /\ units' = units
        /\ chunks' = IF IsEmpty(open) THEN chunks ELSE Append(chunks, open)
    BY DEF EndPack
  <1>2. /\ at \in Nat \ {0} /\ Len(units) \in Nat /\ at = Len(units) + 1
        /\ DOMAIN units = 1 .. Len(units)
    BY <1>1, PackFacts
  <1>3. \A i \in DOMAIN units : i \in 1 .. at - 1
    BY <1>2
  <1>4. CASE open = Empty
    <2>1. \A i : ~(i \in DOMAIN units)
      BY <1>1, <1>2, <1>3, <1>4, PackFacts
    <2>2. chunks' = chunks
      BY <1>1, <1>4 DEF IsEmpty, Empty
    <2>3. \A c, d \in DOMAIN chunks' : c < d => chunks'[c].to < chunks'[d].from
      BY <2>2 DEF IInv, PackedInv
    <2> QED
      BY <1>1, <2>1, <2>3 DEF PackedInv
  <1>5. CASE open # Empty
    <2>1. chunks' = Append(chunks, open)
      BY <1>1, <1>5, PackFacts
    <2>2. /\ \A c, d \in DOMAIN chunks' : c < d => chunks'[c].to < chunks'[d].from
          /\ \A i \in 1 .. at - 1 : InChunks(i)'
      BY <1>1, <1>5, <2>1, OneMoreChunk
    <2> QED
      BY <1>1, <1>3, <2>2 DEF PackedInv
  <1> QED
    BY <1>4, <1>5

-----------------------------------------------------------------------------
(* The place of the pass stays within the blocks.                          *)
LEMMA PlaceKept ==
  ASSUME IInv, next' \in 1 .. Len(blocks') + 1,
         \/ open' \in {open, Empty, Grown(Empty, at), Grown(open, at)}
         \/ open' = [from |-> at, to |-> at + 1]
  PROVE  PlaceInv'
  <1>1. at \in Nat \ {0} /\ open \in [from : Nat \ {0}, to : Nat]
    BY DEF IInv, Inv, DataInv, PlaceInv
  <1>2. /\ Empty \in [from : Nat \ {0}, to : Nat]
        /\ \A i \in [from : Nat \ {0}, to : Nat] : Grown(i, at) \in [from : Nat \ {0}, to : Nat]
        /\ [from |-> at, to |-> at + 1] \in [from : Nat \ {0}, to : Nat]
    BY <1>1 DEF Empty, Grown
  <1> QED
    BY <1>1, <1>2 DEF PlaceInv

LEMMA NextKept ==
  ASSUME IInv, blocks' = blocks, next' = next \/ (next' = at /\ at <= Len(blocks))
  PROVE  next' \in 1 .. Len(blocks') + 1
  BY SeqFacts DEF IInv, Inv, DataInv, PlaceInv

-----------------------------------------------------------------------------
LEMMA InitIInv == Init => IInv
  <1> SUFFICES ASSUME NEW b \in Body, Begin(b) PROVE IInv
    BY DEF Init
  <1>1. Inv
    BY InitInv DEF Init
  <1>2. /\ DOMAIN blocks = {} /\ Len(blocks) = 0 /\ DOMAIN units = {} /\ DOMAIN chunks = {}
        /\ phase = "scan" /\ at = 1 /\ open = Empty /\ next = 1 /\ body \in Body
        /\ units = <<>>
    BY NoElements, SeqFacts DEF Begin
  <1>3. Len(body) \in Nat \ {0}
    BY <1>2, BodyFacts
  <1>4. NoTableAt(1)
    <2>1. \A h \in 1 .. 1 : ~(h < 1)
      OBVIOUS
    <2> QED
      BY <2>1 DEF NoTableAt, Under
  <1>5. BlocksInv /\ ScannedInv
    <2>1. \A k \in 1 .. at - 1 : FALSE
      BY <1>2
    <2> QED
      BY <1>2, <1>4, <2>1 DEF BlocksInv, ScannedInv
  <1>6. UnitsInv /\ SizedInv
    BY <1>2 DEF UnitsInv, SizedInv, Unsized, Sized
  <1>7. PackedInv
    BY <1>2 DEF PackedInv
  <1>8. PlaceInv
    BY <1>2 DEF PlaceInv, Empty
  <1> QED
    BY <1>1, <1>5, <1>6, <1>7, <1>8 DEF IInv

LEMMA StutterIInv ==
  ASSUME IInv, UNCHANGED vars
  PROVE  /\ BlocksInv' /\ ScannedInv' /\ UnitsInv' /\ SizedInv' /\ PackedInv' /\ PlaceInv'
  <1>1. /\ phase' = phase /\ body' = body /\ at' = at /\ blocks' = blocks /\ units' = units
        /\ chunks' = chunks /\ open' = open /\ next' = next
    BY DEF vars
  <1>2. BlocksInv'
    BY <1>1, SameTables DEF IInv, BlocksInv
  <1>3. ScannedInv'
    BY <1>1, SameTables DEF IInv, ScannedInv, InBlocks, InOpen
  <1>4. UnitsInv' /\ \A k : InUnits(k)' <=> InUnits(k)
    BY <1>1, NoNewUnit
  <1>5. \A j : Fits(blocks[j])' <=> Fits(blocks[j])
    BY <1>1 DEF Fits, LineTokens
  <1>6. SizedInv'
    BY <1>1, <1>4, <1>5, SameTables DEF IInv, SizedInv, Unsized, Sized, InOpen
  <1>7. PackedInv'
    BY <1>1 DEF IInv, PackedInv, InChunks, InOpen
  <1>8. PlaceInv'
    BY <1>1 DEF IInv, PlaceInv
  <1> QED
    BY <1>2, <1>3, <1>4, <1>6, <1>7, <1>8

(* The actions of the first pass.                                          *)
LEMMA ScanSteps ==
  ASSUME IInv, Inv', OpenTable \/ GrowTable \/ CloseTable \/ ScanProse \/ EndScan
  PROVE  BlocksInv' /\ ScannedInv' /\ UnitsInv' /\ SizedInv' /\ PackedInv' /\ PlaceInv'
  <1>1. phase' \notin {"pack", "done"} /\ phase \in {"scan", "table"} /\ units' = units
    BY DEF OpenTable, GrowTable, CloseTable, ScanProse, EndScan
  <1>2. PackedInv'
    BY <1>1, NothingPacked
  <1>3. UnitsInv' /\ SizedInv'
    <2>1. \/ phase' \in {"scan", "table"}
          \/ phase' = "size" /\ at' = 1
      BY DEF OpenTable, GrowTable, CloseTable, ScanProse, EndScan
    <2>2. Len(blocks') \in Nat /\ DOMAIN blocks' = 1 .. Len(blocks')
      BY SeqFacts DEF Inv, DataInv
    <2> QED
      BY <1>1, <2>1, <2>2, ScanSized
  <1>4. BlocksInv' /\ ScannedInv' /\ PlaceInv'
    <2>1. CASE OpenTable
      BY <2>1, OpenTableBlocks, PlaceKept DEF OpenTable
    <2>2. CASE GrowTable
      BY <2>2, GrowTableBlocks, NextKept, PlaceKept DEF GrowTable
    <2>3. CASE CloseTable
      BY <2>3, CloseTableBlocks, PlaceKept DEF CloseTable
    <2>4. CASE ScanProse
      BY <2>4, ScanProseBlocks, NextKept, PlaceKept DEF ScanProse
    <2>5. CASE EndScan
      BY <2>5, EndScanBlocks, PlaceKept DEF EndScan
    <2> QED
      BY <2>1, <2>2, <2>3, <2>4, <2>5
  <1> QED
    BY <1>2, <1>3, <1>4

(* The actions of the second pass.                                         *)
LEMMA SizeSteps ==
  ASSUME IInv, Inv',
         \/ SizeWhole \/ SplitProse \/ TakeProse \/ CutLine \/ SkipBlank \/ EndProse
         \/ SplitTable \/ TakeRow \/ EndRows \/ EndSize
  PROVE  BlocksInv' /\ ScannedInv' /\ UnitsInv' /\ SizedInv' /\ PackedInv' /\ PlaceInv'
  <1>1. /\ phase \in {"size", "prose", "rows"} /\ phase' \in {"size", "prose", "rows", "pack"}
        /\ body' = body /\ blocks' = blocks
        /\ next' = next \/ (next' = at /\ at <= Len(blocks))
    BY DEF SizeWhole, SplitProse, TakeProse, CutLine, SkipBlank, EndProse,
           SplitTable, TakeRow, EndRows, EndSize
  <1>2. BlocksInv' /\ ScannedInv'
    BY <1>1, ScanOver
  <1>3. UnitsInv' /\ SizedInv'
    BY SizeWholeUnits, SplitProseUnits, TakeProseUnits, CutLineUnits, SkipBlankUnits,
       EndProseUnits, SplitTableUnits, TakeRowUnits, EndRowsUnits, EndSizeUnits
  <1>4. PackedInv'
    <2>1. CASE EndSize
      BY <2>1, EndSizePacked
    <2>2. CASE ~EndSize
      <3>1. phase' \notin {"pack", "done"}
        BY <2>2 DEF SizeWhole, SplitProse, TakeProse, CutLine, SkipBlank, EndProse,
                    SplitTable, TakeRow, EndRows
      <3> QED
        BY <3>1, NothingPacked
    <2> QED
      BY <2>1, <2>2
  <1>5. PlaceInv'
    <2>1. open' \in {open, Empty, Grown(Empty, at), Grown(open, at)}
      <3>1. CASE TakeRow
        BY <3>1 DEF TakeRow
      <3>2. CASE ~TakeRow
        BY <3>2 DEF SizeWhole, SplitProse, TakeProse, CutLine, SkipBlank, EndProse,
                    SplitTable, EndRows, EndSize
      <3> QED
        BY <3>1, <3>2
    <2> QED
      BY <1>1, <2>1, NextKept, PlaceKept
  <1> QED
    BY <1>2, <1>3, <1>4, <1>5

(* The actions of the last pass.                                           *)
LEMMA PackSteps ==
  ASSUME IInv, PackUnit \/ EndPack
  PROVE  BlocksInv' /\ ScannedInv' /\ UnitsInv' /\ SizedInv' /\ PackedInv' /\ PlaceInv'
  <1>1. /\ phase = "pack" /\ phase' \in {"pack", "done"}
        /\ body' = body /\ blocks' = blocks /\ units' = units /\ next' = next
        /\ open' \in {open, Empty, Grown(Empty, at), Grown(open, at)}
    BY DEF PackUnit, EndPack
  <1>2. BlocksInv' /\ ScannedInv'
    BY <1>1, ScanOver
  <1>3. UnitsInv' /\ SizedInv'
    BY <1>1, SizeOver
  <1>4. PackedInv'
    BY PackUnitPacked, EndPackPacked
  <1>5. PlaceInv'
    BY <1>1, NextKept, PlaceKept
  <1> QED
    BY <1>2, <1>3, <1>4, <1>5

(* Where every line is, at every step of the three passes.                 *)
THEOREM Placement == Spec => []IInv
  <1>1. ASSUME IInv, Inv', [Next]_vars PROVE IInv'
    <2>1. BlocksInv' /\ ScannedInv' /\ UnitsInv' /\ SizedInv' /\ PackedInv' /\ PlaceInv'
      <3>1. CASE OpenTable \/ GrowTable \/ CloseTable \/ ScanProse \/ EndScan
        BY <1>1, <3>1, ScanSteps
      <3>2. CASE \/ SizeWhole \/ SplitProse \/ TakeProse \/ CutLine \/ SkipBlank \/ EndProse
                 \/ SplitTable \/ TakeRow \/ EndRows \/ EndSize
        BY <1>1, <3>2, SizeSteps
      <3>3. CASE PackUnit \/ EndPack
        BY <1>1, <3>3, PackSteps
      <3>4. CASE Finished \/ UNCHANGED vars
        BY <1>1, <3>4, StutterIInv DEF Finished
      <3> QED
        BY <1>1, <3>1, <3>2, <3>3, <3>4 DEF Next
    <2> QED
      BY <1>1, <2>1 DEF IInv
  <1> QED
    BY <1>1, InitIInv, Invariance, PTL DEF Spec
-----------------------------------------------------------------------------
(***************************************************************************)
(* The properties.                                                         *)
(***************************************************************************)

(* What a unit is made of costs what the lines cost.                       *)
LEMMA UnitCost ==
  ASSUME IInv, NEW i \in DOMAIN units, NEW b \in DOMAIN blocks, UnitOf(units[i], blocks[b])
  PROVE  /\ units[i].header \in 0 .. Len(body) /\ units[i].tokens \in Nat
         /\ units[i].header # 0 => RowsOf(units[i], blocks[b])
  <1> DEFINE u == units[i]
             a == blocks[b]
  <1>1. /\ a.from \in Nat \ {0} /\ a.to \in Nat /\ a.from <= a.to /\ a.to <= Len(body)
        /\ Len(body) \in Nat /\ body \in Body
        /\ a.kind = "table" => a.from + 1 <= a.to
    BY BlockFacts
  <1>2. /\ u.from \in Nat /\ u.to \in Nat
        /\ a.from <= u.from /\ u.from <= u.to /\ u.to <= a.to
        /\ WholeOf(u, a) \/ ProseOf(u, a) \/ RowsOf(u, a)
    BY DEF UnitOf
  <1> HIDE DEF u, a
  <1>3. CASE WholeOf(u, a)
    <2>1. u.header = 0 /\ u.tokens = LineTokens(a.from, a.to)
      BY <1>3 DEF WholeOf, Unit
    <2>2. LineTokens(a.from, a.to) \in Nat
      BY <1>1, LineTokensFacts, SMTT(30)
    <2> QED
      BY <1>1, <2>1, <2>2 DEF u, a
  <1>4. CASE ProseOf(u, a)
    BY <1>1, <1>4 DEF ProseOf, u, a
  <1>5. CASE RowsOf(u, a)
    <2>1. u.header = a.from /\ u.tokens = LineTokens(a.from, a.from + 1) + LineTokens(u.from, u.to)
      BY <1>1, <1>5 DEF RowsOf, Unit
    <2>2. LineTokens(a.from, a.from + 1) \in Nat
      <3>1. a.from \in 1 .. Len(body) /\ a.from + 1 \in a.from .. Len(body)
        BY <1>1, <1>5 DEF RowsOf
      <3> QED
        BY <1>1, <3>1, LineTokensFacts
    <2>3. LineTokens(u.from, u.to) \in Nat
      <3>1. u.from \in 1 .. Len(body) /\ u.to \in u.from .. Len(body)
        BY <1>1, <1>2
      <3> QED
        BY <1>1, <3>1, LineTokensFacts
    <2>4. u.header \in 0 .. Len(body)
      BY <1>1, <2>1
    <2> QED
      BY <1>5, <2>1, <2>2, <2>3, <2>4 DEF u, a
  <1> QED
    BY <1>2, <1>3, <1>4, <1>5

(* The chunker's passes keep to the lines, the blocks and the units there  *)
(* are, and a unit costs a number of tokens.                               *)
THEOREM ChunkingTypeOK == Spec => []TypeOK
  <1>1. IInv => TypeOK
    <2> SUFFICES ASSUME IInv PROVE TypeOK
      OBVIOUS
    <2>1. /\ phase \in {"scan", "table", "size", "rows", "prose", "pack", "done"}
          /\ body \in Body /\ at \in Nat \ {0} /\ next \in 1 .. Len(blocks) + 1
          /\ open \in [from : Nat \ {0}, to : Nat]
      BY DEF IInv, Inv, DataInv, PlaceInv
    <2>2. ASSUME NEW i \in DOMAIN blocks
          PROVE  /\ blocks[i].kind \in {"prose", "table"}
                 /\ 1 <= blocks[i].from /\ blocks[i].from <= blocks[i].to /\ blocks[i].to <= Len(body)
      BY BlockFacts
    <2>3. ASSUME NEW i \in DOMAIN units
          PROVE  /\ 1 <= units[i].from /\ units[i].from <= units[i].to /\ units[i].to <= Len(body)
                 /\ units[i].header \in 0 .. Len(body) /\ units[i].tokens \in Nat
      <3>1. PICK b \in DOMAIN blocks : UnitOf(units[i], blocks[b])
        BY DEF IInv, UnitsInv
      <3>2. units[i].header \in 0 .. Len(body) /\ units[i].tokens \in Nat
        BY <3>1, UnitCost
      <3> QED
        BY <3>2, UnitFacts
    <2>4. \A i \in DOMAIN chunks : chunks[i].from <= chunks[i].to /\ chunks[i].to <= Len(units)
      BY DEF IInv, Inv, DataInv, ChunkOK
    <2> QED
      BY <2>1, <2>2, <2>3, <2>4 DEF TypeOK
  <1> QED
    BY <1>1, Placement, PTL

-----------------------------------------------------------------------------
LEMMA LeastIs ==
  ASSUME NEW S, NEW x \in S, S \subseteq Int, \A y \in S : x <= y
  PROVE  Min(S) = x
  <1>1. PICK m : m = Min(S)
    OBVIOUS
  <1>2. m \in S /\ \A y \in S : m <= y
    BY <1>1 DEF Min
  <1>3. m \in Int /\ x \in Int /\ m <= x /\ x <= m
    BY <1>2
  <1> QED
    BY <1>1, <1>3

LEMMA GreatestIs ==
  ASSUME NEW S, NEW x \in S, S \subseteq Int, \A y \in S : y <= x
  PROVE  Max(S) = x
  <1>1. PICK m : m = Max(S)
    OBVIOUS
  <1>2. m \in S /\ \A y \in S : m >= y
    BY <1>1 DEF Max
  <1>3. m \in Int /\ x \in Int /\ m <= x /\ x <= m
    BY <1>2
  <1> QED
    BY <1>1, <1>3

(* A chunk goes from the first line of its first unit to the last line of  *)
(* its last.                                                               *)
LEMMA ChunkLines ==
  ASSUME IInv, NEW c \in DOMAIN chunks
  PROVE  /\ chunks[c].from \in DOMAIN units /\ chunks[c].to \in DOMAIN units
         /\ chunks[c].from <= chunks[c].to
         /\ \A i \in chunks[c].from .. chunks[c].to : i \in DOMAIN units
         /\ Min(LinesIn(chunks[c])) = units[chunks[c].from].from
         /\ Max(LinesIn(chunks[c])) = units[chunks[c].to].to
  <1> DEFINE f == chunks[c].from
             t == chunks[c].to
             S == LinesIn(chunks[c])
  <1>1. /\ f \in Nat \ {0} /\ t \in Nat /\ f <= t /\ t <= Len(units)
        /\ Len(units) \in Nat /\ DOMAIN units = 1 .. Len(units)
    BY SeqFacts DEF IInv, Inv, DataInv, ChunkOK
  <1>2. f \in DOMAIN units /\ t \in DOMAIN units /\ \A i \in f .. t : i \in DOMAIN units
    BY <1>1
  <1>3. \A k : k \in S <=> \E i \in f .. t : k \in units[i].from .. units[i].to
    BY DEF LinesIn, LinesOf
  <1> HIDE DEF f, t, S
  <1>4. ASSUME NEW i \in f .. t
        PROVE  /\ units[i].from \in Nat /\ units[i].to \in Nat /\ units[i].from <= units[i].to
               /\ units[f].from <= units[i].from /\ units[i].to <= units[t].to
    <2>1. i \in DOMAIN units /\ f \in DOMAIN units /\ t \in DOMAIN units
      BY <1>2
    <2>2. /\ units[i].from \in Nat /\ units[i].to \in Nat /\ units[i].from <= units[i].to
          /\ units[f].from \in Nat /\ units[t].to \in Nat
      BY <2>1, UnitFacts
    <2>3. units[f].from <= units[i].from
      <3>1. CASE i = f
        BY <2>2, <3>1
      <3>2. CASE i # f
        <4>1. f < i
          BY <1>1, <3>2
        <4> QED
          BY <2>1, <4>1 DEF IInv, UnitsInv, InTurn
      <3> QED
        BY <3>1, <3>2
    <2>4. units[i].to <= units[t].to
      <3>1. CASE i = t
        BY <2>2, <3>1
      <3>2. CASE i # t
        <4>1. i < t
          BY <1>1, <3>2
        <4> QED
          BY <2>1, <4>1 DEF IInv, UnitsInv, InTurn
      <3> QED
        BY <3>1, <3>2
    <2> QED
      BY <2>2, <2>3, <2>4
  <1>5. f \in f .. t /\ t \in f .. t
    BY <1>1
  <1>6. S \subseteq Int /\ units[f].from \in S /\ units[t].to \in S
    BY <1>3, <1>4, <1>5
  <1>7. ASSUME NEW k \in S PROVE units[f].from <= k /\ k <= units[t].to
    <2>1. PICK i \in f .. t : k \in units[i].from .. units[i].to
      BY <1>3
    <2>2. /\ units[i].from \in Nat /\ units[i].to \in Nat
          /\ units[f].from <= units[i].from /\ units[i].to <= units[t].to
      BY <1>4
    <2>3. units[f].from \in Nat /\ units[t].to \in Nat
      BY <1>4, <1>5
    <2> QED
      BY <2>1, <2>2, <2>3
  <1>8. Min(S) = units[f].from /\ Max(S) = units[t].to
    BY <1>6, <1>7, LeastIs, GreatestIs
  <1> QED
    BY <1>1, <1>2, <1>8 DEF f, t, S

(* The chunks follow the document, miss no line of it that is not blank,   *)
(* and share lines only of prose over the budget (chunk_section).          *)
THEOREM ChunksCoverInOrder == Spec => []CoversInOrder
  <1>1. IInv => CoversInOrder
    <2> SUFFICES ASSUME IInv, phase = "done" PROVE CoversInOrder
      BY DEF CoversInOrder
    <2>1. ASSUME NEW k \in DOMAIN body, Solid(k)
          PROVE  \E c \in DOMAIN chunks : k \in LinesIn(chunks[c]) \cup HeadersIn(chunks[c])
      <3>1. k \in 1 .. Len(body) /\ k \in Nat
        BY BodyFacts DEF IInv, Inv, DataInv
      <3>2. InUnits(k)
        BY <2>1, <3>1 DEF IInv, SizedInv, Sized
      <3>3. PICK i \in DOMAIN units :
              \/ units[i].from <= k /\ k <= units[i].to
              \/ units[i].header # 0 /\ k \in {units[i].header, units[i].header + 1}
        BY <3>2 DEF InUnits
      <3>4. PICK c \in DOMAIN chunks : chunks[c].from <= i /\ i <= chunks[c].to
        BY DEF IInv, PackedInv, InChunks
      <3>5. i \in chunks[c].from .. chunks[c].to
        BY <3>4, UnitFacts DEF IInv, Inv, DataInv, ChunkOK
      <3>6. CASE units[i].from <= k /\ k <= units[i].to
        <4>1. k \in LinesOf(units[i])
          BY <3>1, <3>6, UnitFacts DEF LinesOf
        <4> QED
          BY <3>5, <4>1 DEF LinesIn
      <3>7. CASE units[i].header # 0 /\ k \in {units[i].header, units[i].header + 1}
        BY <3>5, <3>7 DEF HeadersIn
      <3> QED
        BY <3>3, <3>6, <3>7
    <2>2. ASSUME NEW c \in DOMAIN chunks, NEW d \in DOMAIN chunks, c < d
          PROVE  /\ Min(LinesIn(chunks[c])) <= Min(LinesIn(chunks[d]))
                 /\ Max(LinesIn(chunks[c])) <= Max(LinesIn(chunks[d]))
                 /\ \A k \in LinesIn(chunks[c]) \cap LinesIn(chunks[d]) :
                       \E i \in DOMAIN blocks :
                           /\ blocks[i].kind = "prose" /\ ~Fits(blocks[i])
                           /\ k \in blocks[i].from .. blocks[i].to
      <3>1. chunks[c].to < chunks[d].from
        BY <2>2 DEF IInv, PackedInv
      <3>2. \A e \in {c, d} : /\ chunks[e].from \in Nat /\ chunks[e].to \in Nat
                              /\ chunks[e].from <= chunks[e].to
        BY DEF IInv, Inv, DataInv, ChunkOK
      <3>3. ASSUME NEW i \in chunks[c].from .. chunks[c].to,
                   NEW j \in chunks[d].from .. chunks[d].to
            PROVE  InTurn(units[i], units[j])
        <4>1. i < j
          BY <3>1, <3>2
        <4>2. i \in DOMAIN units /\ j \in DOMAIN units
          BY ChunkLines
        <4> QED
          BY <4>1, <4>2 DEF IInv, UnitsInv
      <3>4. /\ units[chunks[c].from].from <= units[chunks[d].from].from
            /\ units[chunks[c].to].to <= units[chunks[d].to].to
        <4>1. \A e \in {c, d} : /\ chunks[e].from \in chunks[e].from .. chunks[e].to
                                /\ chunks[e].to \in chunks[e].from .. chunks[e].to
          BY <3>2
        <4> QED
          BY <3>3, <4>1 DEF InTurn
      <3>5. ASSUME NEW k \in LinesIn(chunks[c]) \cap LinesIn(chunks[d])
            PROVE  \E i \in DOMAIN blocks :
                      /\ blocks[i].kind = "prose" /\ ~Fits(blocks[i])
                      /\ k \in blocks[i].from .. blocks[i].to
        <4>1. PICK i \in chunks[c].from .. chunks[c].to : k \in units[i].from .. units[i].to
          BY DEF LinesIn, LinesOf
        <4>2. PICK j \in chunks[d].from .. chunks[d].to : k \in units[j].from .. units[j].to
          BY DEF LinesIn, LinesOf
        <4>3. i \in DOMAIN units /\ j \in DOMAIN units
          BY ChunkLines
        <4>4. /\ units[i].from \in Nat /\ units[i].to \in Nat
              /\ units[j].from \in Nat /\ units[j].to \in Nat
          BY <4>3, UnitFacts
        <4>5. ~(units[i].to < units[j].from)
          BY <4>1, <4>2, <4>4
        <4>6. Sharing(units[i], units[j])
          BY <3>3, <4>5 DEF InTurn
        <4>7. PICK b \in DOMAIN blocks :
                 /\ blocks[b].kind = "prose" /\ ~Fits(blocks[b])
                 /\ blocks[b].from <= units[i].from /\ units[i].to <= blocks[b].to
          BY <4>6 DEF Sharing
        <4>8. blocks[b].from \in Nat /\ blocks[b].to \in Nat
          BY BlockFacts
        <4>9. k \in blocks[b].from .. blocks[b].to
          BY ONLY <4>1, <4>4, <4>7, <4>8
        <4> QED
          BY <4>7, <4>9
      <3> QED
        BY <3>4, <3>5, ChunkLines
    <2> QED
      BY <2>1, <2>2 DEF CoversInOrder
  <1> QED
    BY <1>1, Placement, PTL

-----------------------------------------------------------------------------
(* A line below a row and a delimiter is below the first such row.         *)
LEMMA HeaderFacts ==
  ASSUME body \in Body, NEW k \in 1 .. Len(body), HeaderOf(k) # 0
  PROVE  /\ HeaderOf(k) \in Nat \ {0} /\ HeaderOf(k) + 2 <= k
         /\ Under(HeaderOf(k), k)
         /\ \A h \in 1 .. k - 2 : Under(h, k) => HeaderOf(k) <= h
  <1> DEFINE above == {h \in 1 .. k - 2 :
                        /\ body[h + 1].kind = "delimiter"
                        /\ \A j \in h .. k : IsTableRow(j)}
  <1>1. above # {} /\ HeaderOf(k) = Min(above)
    BY DEF HeaderOf
  <1>2. Len(body) \in Nat /\ k \in Nat
    BY BodyFacts
  <1>3. above \in SUBSET (1 .. k)
    BY <1>2
  <1>4. PICK m \in above : \A i \in 1 .. m - 1 : i \notin above
    BY <1>1, <1>2, <1>3, LeastFailure, ZenonT(30)
  <1>5. m \in 1 .. k - 2 /\ body[m + 1].kind = "delimiter" /\ \A j \in m .. k : IsTableRow(j)
    BY <1>4
  <1>6. \A h \in 1 .. k - 2 : Under(h, k) => h \in above
    BY DEF Under
  <1> HIDE DEF above
  <1>7. above \subseteq Int /\ \A h \in above : m <= h
    <2> SUFFICES ASSUME NEW h \in above PROVE h \in Int /\ m <= h
      OBVIOUS
    <2>1. h \in 1 .. k
      BY <1>3
    <2>2. ~(h \in 1 .. m - 1)
      BY <1>4
    <2> QED
      BY <1>2, <1>5, <2>1, <2>2
  <1>8. HeaderOf(k) = m
    BY <1>1, <1>7, LeastIs
  <1>9. Under(m, k)
    BY <1>2, <1>5 DEF Under
  <1> QED
    BY <1>2, <1>5, <1>6, <1>7, <1>8, <1>9

(* Such a line is in the table that begins with that row.                  *)
LEMMA TableOf ==
  ASSUME IInv, NEW k \in 1 .. Len(body), HeaderOf(k) # 0,
         NEW b \in DOMAIN blocks, blocks[b].from <= k, k <= blocks[b].to
  PROVE  blocks[b].kind = "table" /\ HeaderOf(k) = blocks[b].from
  <1> DEFINE h == HeaderOf(k)
             f == blocks[b].from
  <1>1. /\ f \in Nat \ {0} /\ blocks[b].to \in Nat /\ blocks[b].to <= Len(body)
        /\ Len(body) \in Nat /\ k \in Nat /\ body \in Body
        /\ blocks[b].kind \in {"prose", "table"}
    BY BlockFacts
  <1>2. /\ h \in Nat \ {0} /\ h + 2 <= k /\ Under(h, k)
        /\ \A g \in 1 .. k - 2 : Under(g, k) => h <= g
    BY <1>1, HeaderFacts
  <1>3. Shaped(blocks[b])
    BY DEF IInv, BlocksInv
  <1> HIDE DEF h
  <1>4. blocks[b].kind = "table"
    <2>1. ~NoTableAt(k)
      <3>1. h \in 1 .. k
        BY <1>1, <1>2
      <3> QED
        BY <1>2, <3>1 DEF NoTableAt
    <2>2. k \in f .. blocks[b].to
      BY <1>1
    <2> QED
      BY <1>1, <1>3, <2>1, <2>2 DEF Shaped
  <1>5. /\ NoTableAt(f) /\ \A j \in f .. blocks[b].to : IsTableRow(j)
        /\ body[f + 1].kind = "delimiter"
    BY <1>3, <1>4 DEF Shaped, IInv, Inv, DataInv, BlockOK, StartsTable
  <1> HIDE DEF f
  <1>6. ~(h < f)
    <2> SUFFICES ASSUME h < f PROVE FALSE
      OBVIOUS
    <2>1. \A j \in h .. f : j \in h .. k
      BY <1>1, <1>2 DEF f
    <2>2. Under(h, f)
      BY <1>1, <1>2, <2>1 DEF Under, f
    <2>3. h \in 1 .. f
      BY <1>1, <1>2
    <2> QED
      BY <1>5, <2>2, <2>3 DEF NoTableAt
  <1>7. f \in 1 .. k - 2
    BY <1>1, <1>2, <1>6
  <1>8. Under(f, k)
    <2>1. \A j \in f .. k : j \in f .. blocks[b].to
      BY <1>1
    <2> QED
      BY <1>1, <1>5, <1>7, <2>1 DEF Under
  <1>9. h = f
    BY <1>1, <1>2, <1>6, <1>7, <1>8
  <1> QED
    BY <1>4, <1>9 DEF h, f

(* However a table is split, each of its rows comes whole, and with the    *)
(* header and delimiter of the table (_split_table_rows).                  *)
THEOREM TablesStayReadable == Spec => []TablesReadable
  <1>1. IInv => TablesReadable
    <2> SUFFICES ASSUME IInv, NEW i \in DOMAIN units, NEW k \in DOMAIN body,
                        k \in LinesOf(units[i]), HeaderOf(k) # 0
                 PROVE  /\ units[i].header = HeaderOf(k) \/ HeaderOf(k) \in LinesOf(units[i])
                        /\ units[i].tokens >= body[k].tokens + LineTokens(HeaderOf(k), HeaderOf(k) + 1)
      BY DEF TablesReadable
    <2> DEFINE u == units[i]
               h == HeaderOf(k)
    <2>1. body \in Body /\ Len(body) \in Nat /\ k \in 1 .. Len(body) /\ body[k].tokens \in Nat
      BY BodyFacts DEF IInv, Inv, DataInv
    <2>2. u.from <= k /\ k <= u.to /\ u.from \in Nat \ {0} /\ u.to \in Nat /\ u.to <= Len(body)
      BY <2>1, UnitFacts DEF LinesOf
    <2>3. PICK b \in DOMAIN blocks : UnitOf(u, blocks[b])
      BY DEF IInv, UnitsInv
    <2> DEFINE a == blocks[b]
    <2>4. /\ a.from \in Nat \ {0} /\ a.to \in Nat /\ a.to <= Len(body)
          /\ a.from <= u.from /\ u.to <= a.to
      BY <2>3, BlockFacts DEF UnitOf
    <2>5. a.kind = "table" /\ h = a.from
      <3>1. a.from <= k /\ k <= a.to
        BY <2>1, <2>2, <2>4
      <3> QED
        BY <2>1, <3>1, TableOf
    <2>6. h + 2 <= k
      BY <2>1, HeaderFacts
    <2>7. WholeOf(u, a) \/ RowsOf(u, a)
      BY <2>3, <2>5 DEF UnitOf, ProseOf
    <2> HIDE DEF u, h, a
    <2>8. CASE WholeOf(u, a)
      <3>1. u.from = a.from /\ u.to = a.to /\ u.tokens = LineTokens(a.from, a.to)
        BY <2>8 DEF WholeOf, Unit
      <3>2. /\ a.from \in 1 .. Len(body) /\ a.to \in a.from .. Len(body)
            /\ h \in a.from .. a.to /\ k \in a.from .. a.to /\ h + 1 < k
        BY <2>1, <2>2, <2>4, <2>5, <2>6, <3>1
      <3>3. LineTokens(a.from, a.to) >= body[k].tokens + LineTokens(h, h + 1)
        BY <2>1, <3>2, LineTokensFacts
      <3>4. h \in LinesOf(u)
        BY <3>1, <3>2 DEF LinesOf
      <3> QED
        BY <3>1, <3>3, <3>4 DEF u, h
    <2>9. CASE RowsOf(u, a)
      <3>1. u.header = a.from /\ u.tokens = LineTokens(a.from, a.from + 1) + LineTokens(u.from, u.to)
        BY <2>4, <2>9 DEF RowsOf, Unit
      <3>2. /\ u.from \in 1 .. Len(body) /\ u.to \in u.from .. Len(body) /\ k \in u.from .. u.to
            /\ a.from \in 1 .. Len(body) /\ a.from + 1 \in a.from .. Len(body)
        BY <2>1, <2>2, <2>4, <2>5, <2>6, SMTT(20)
      <3>3. /\ LineTokens(u.from, u.to) \in Nat /\ LineTokens(u.from, u.to) >= body[k].tokens
            /\ LineTokens(a.from, a.from + 1) \in Nat
        BY <2>1, <3>2, LineTokensFacts
      <3>4. u.tokens >= body[k].tokens + LineTokens(h, h + 1)
        BY <2>1, <2>5, <3>1, <3>3
      <3> QED
        BY <2>5, <3>1, <3>4 DEF u, h
    <2> QED
      BY <2>7, <2>8, <2>9
  <1> QED
    BY <1>1, Placement, PTL
=============================================================================
