------------------------------ MODULE Chunking ------------------------------
(***************************************************************************)
(* The chunker of parsing/chunking.py, on the body of one section at a     *)
(* time: the lines are scanned into prose and tables (_blocks), blocks too *)
(* large are split (_split_table_rows, _split_prose), and the units that   *)
(* result are packed into chunks (_pack).  A step is one turn of a loop.   *)
(*                                                                         *)
(* A line is its kind and its tokens.  Blocks are intervals of lines and   *)
(* chunks are intervals of units; joining lines costs no tokens, joining   *)
(* units costs Glue.                                                       *)
(***************************************************************************)
EXTENDS Enumeration, FiniteSetsExt, SequencesExt

CONSTANTS
    Size,      \* chunk_size: the budget of a chunk
    Overlap,   \* chunk_overlap: what two pieces of prose may share
    Glue,      \* what the blank line between two units costs
    Tokens,    \* tokens of a line that is not blank
    MaxLines   \* bound: lines of a body

ASSUME ChunkingAssumption ==
    /\ Size \in Nat \ {0} /\ Overlap \in Nat /\ Glue \in Nat /\ MaxLines \in Nat
    /\ Tokens \subseteq Nat

(* A delimiter row is a row of the characters "|-: " only.                 *)
Line == [kind : {"prose", "row", "delimiter"}, tokens : Tokens]
            \cup [kind : {"blank"}, tokens : {0}]

(* A section body is stripped, and not empty.                              *)
Body == {b \in UNION {[1..n -> Line] : n \in 1..MaxLines} :
            b[1].kind # "blank" /\ b[Len(b)].kind # "blank"}

VARIABLES
    phase,   \* the pass: scan and its table; size and its rows and prose; pack; done
    body,    \* the lines
    at,      \* the line, block, row or unit the pass is at
    blocks,  \* [kind, from, to]: what the lines are made of
    units,   \* [header, from, to, tokens]: what is packed
    chunks,  \* [from, to]: the units of each chunk
    open,    \* [from, to]: what is being collected, empty if to < from
    next     \* the block that is being split

vars == <<phase, body, at, blocks, units, chunks, open, next>>

Empty == [from |-> 1, to |-> 0]
IsEmpty(i) == i.to < i.from
Grown(i, k) == IF IsEmpty(i) THEN [from |-> k, to |-> k] ELSE [i EXCEPT !.to = k]

Begin(b) ==
    /\ phase = "scan" /\ body = b /\ at = 1
    /\ blocks = <<>> /\ units = <<>> /\ chunks = <<>> /\ open = Empty /\ next = 1

Init == \E b \in Body : Begin(b)

-----------------------------------------------------------------------------
(* The first pass: _blocks.                                                *)

IsTableRow(k) == body[k].kind \in {"row", "delimiter"}

StartsTable(k) ==
    k < Len(body) /\ IsTableRow(k) /\ body[k + 1].kind = "delimiter"

Solid(k) == body[k].kind # "blank"

(* flush_prose: the lines collected, which open holds without the blank    *)
(* ones at their ends.                                                     *)
Flushed ==
    IF IsEmpty(open) THEN <<>>
    ELSE <<[kind |-> "prose", from |-> open.from, to |-> open.to]>>

(* Mutant: the prose before a table is not flushed.                        *)
OpenTableUnflushed ==
    /\ phase = "scan" /\ at <= Len(body)
    /\ StartsTable(at)
    /\ phase' = "table" /\ at' = at + 2 /\ open' = [from |-> at, to |-> at + 1]
    /\ UNCHANGED <<body, blocks, units, chunks, next>>

(* A header and its delimiter.                                             *)
OpenTable ==
    /\ phase = "scan" /\ at <= Len(body)
    /\ StartsTable(at)
    /\ blocks' = blocks \o Flushed
    /\ phase' = "table" /\ at' = at + 2 /\ open' = [from |-> at, to |-> at + 1]
    /\ UNCHANGED <<body, units, chunks, next>>

GrowTable ==
    /\ phase = "table" /\ at <= Len(body)
    /\ IsTableRow(at)
    /\ open' = Grown(open, at)
    /\ at' = at + 1
    /\ UNCHANGED <<phase, body, blocks, units, chunks, next>>

(* Mutant: the line that ends a table is taken for one of its rows.        *)
CloseTablePastRow ==
    /\ phase = "table" /\ (at <= Len(body) => ~IsTableRow(at))
    /\ blocks' = Append(blocks, [kind |-> "table", from |-> open.from, to |-> at])
    /\ phase' = "scan" /\ open' = Empty
    /\ UNCHANGED <<body, at, units, chunks, next>>

CloseTable ==
    /\ phase = "table" /\ (at <= Len(body) => ~IsTableRow(at))
    /\ blocks' = Append(blocks, [kind |-> "table", from |-> open.from, to |-> open.to])
    /\ phase' = "scan" /\ open' = Empty
    /\ UNCHANGED <<body, at, units, chunks, next>>

ScanProse ==
    /\ phase = "scan" /\ at <= Len(body)
    /\ ~StartsTable(at)
    /\ open' = IF Solid(at) THEN Grown(open, at) ELSE open
    /\ at' = at + 1
    /\ UNCHANGED <<phase, body, blocks, units, chunks, next>>

EndScan ==
    /\ phase = "scan" /\ at > Len(body)
    /\ blocks' = blocks \o Flushed
    /\ phase' = "size" /\ at' = 1 /\ open' = Empty
    /\ UNCHANGED <<body, units, chunks, next>>

-----------------------------------------------------------------------------
(* The second pass: _size_bounded_units.                                   *)

LineTokens(from, to) ==
    LET costs == [k \in DOMAIN body |-> body[k].tokens]
    IN  Total(costs, to) - Total(costs, from - 1)

(* A unit: lines, under a header row and its delimiter if header # 0.      *)
Unit(header, from, to) ==
    [header |-> header, from |-> from, to |-> to,
     tokens |-> IF header = 0 THEN LineTokens(from, to)
                ELSE LineTokens(header, header + 1) + LineTokens(from, to)]

Fits(b) == LineTokens(b.from, b.to) <= Size

(* A table with no row to split at.                                        *)
Degenerate(b) == b.to - b.from < 2

SizeWhole ==
    /\ phase = "size" /\ at <= Len(blocks)
    /\ LET b == blocks[at]
       IN  /\ Fits(b) \/ (b.kind = "table" /\ Degenerate(b))
           /\ units' = Append(units, Unit(0, b.from, b.to))
    /\ at' = at + 1
    /\ UNCHANGED <<phase, body, blocks, chunks, open, next>>

SplitProse ==
    /\ phase = "size" /\ at <= Len(blocks)
    /\ LET b == blocks[at]
       IN  /\ ~Fits(b) /\ b.kind = "prose"
           /\ at' = b.from
    /\ phase' = "prose" /\ next' = at
    /\ UNCHANGED <<body, blocks, units, chunks, open>>

(* The recursive splitter: pieces that cover the block, none beginning     *)
(* before an earlier one, each within the budget and stripped, two         *)
(* neighbours sharing no more than the overlap.                            *)
Shared == Min({Overlap, Size - 1})

TakeProse ==
    /\ phase = "prose" /\ at <= blocks[next].to /\ Solid(at)
    /\ \E from \in blocks[next].from .. at, to \in at .. blocks[next].to :
          /\ Solid(from) /\ Solid(to)
          /\ \A i \in DOMAIN units : units[i].from <= from
          /\ LineTokens(from, at - 1) <= Shared /\ LineTokens(from, to) <= Size
          /\ units' = Append(units, Unit(0, from, to))
          /\ at' = to + 1
    /\ UNCHANGED <<phase, body, blocks, chunks, open, next>>

(* A line that is too large is cut, by a window that leaves the overlap.   *)
CutLine ==
    /\ phase = "prose" /\ at <= blocks[next].to /\ body[at].tokens > Size
    /\ LET stride == Size - Shared
           n == (body[at].tokens - Shared + stride - 1) \div stride
       IN  units' = units \o [p \in 1..n |->
                [header |-> 0, from |-> at, to |-> at,
                 tokens |-> LET left == body[at].tokens - (p - 1) * stride
                            IN  IF left > Size THEN Size ELSE left]]
    /\ at' = at + 1
    /\ UNCHANGED <<phase, body, blocks, chunks, open, next>>

SkipBlank ==
    /\ phase = "prose" /\ at <= blocks[next].to /\ ~Solid(at)
    /\ at' = at + 1
    /\ UNCHANGED <<phase, body, blocks, units, chunks, open, next>>

EndProse ==
    /\ phase = "prose" /\ at > blocks[next].to
    /\ phase' = "size" /\ at' = next + 1
    /\ UNCHANGED <<body, blocks, units, chunks, open, next>>

SplitTable ==
    /\ phase = "size" /\ at <= Len(blocks)
    /\ LET b == blocks[at]
       IN  /\ ~Fits(b) /\ b.kind = "table" /\ ~Degenerate(b)
           /\ at' = b.from + 2
    /\ phase' = "rows" /\ next' = at /\ open' = Empty
    /\ UNCHANGED <<body, blocks, units, chunks>>

(* Mutant: the header is not repeated in a piece after the first.          *)
PieceBare(from, to) ==
    Unit(IF from = blocks[next].from + 2 THEN blocks[next].from ELSE 0, from, to)

(* A piece of a table: the header is repeated.                             *)
Piece(from, to) == Unit(blocks[next].from, from, to)

(* _split_table_rows: a row joins the piece, or opens the next one.        *)
TakeRow ==
    /\ phase = "rows" /\ at <= blocks[next].to
    /\ IF ~IsEmpty(open) /\ ~(Piece(open.from, at).tokens <= Size)
       THEN /\ units' = Append(units, Piece(open.from, open.to))
            /\ open' = Grown(Empty, at)
       ELSE /\ open' = Grown(open, at)
            /\ UNCHANGED units
    /\ at' = at + 1
    /\ UNCHANGED <<phase, body, blocks, chunks, next>>

EndRows ==
    /\ phase = "rows" /\ at > blocks[next].to
    /\ units' = Append(units, Piece(open.from, open.to))
    /\ phase' = "size" /\ at' = next + 1 /\ open' = Empty
    /\ UNCHANGED <<body, blocks, chunks, next>>

EndSize ==
    /\ phase = "size" /\ at > Len(blocks)
    /\ phase' = "pack" /\ at' = 1
    /\ UNCHANGED <<body, blocks, units, chunks, open, next>>

-----------------------------------------------------------------------------
(* The last pass: _pack.                                                   *)

(* The tokens of some units in a row, joined.                              *)
Joined(from, to) ==
    LET costs == [k \in DOMAIN units |-> units[k].tokens]
    IN  Total(costs, to) - Total(costs, from - 1) + Glue * (to - from)

(* Mutant: the units are counted one by one, without the separators.       *)
OverflowsUnjoined(from, to) == ~(Joined(from, to) - Glue * (to - from) <= Size)

(* Mutant: a chunk that is exactly full is too large.                      *)
OverflowsWhenFull(from, to) == Joined(from, to) >= Size

Overflows(from, to) == ~(Joined(from, to) <= Size)

PackUnit ==
    /\ phase = "pack" /\ at <= Len(units)
    /\ IF ~IsEmpty(open) /\ Overflows(open.from, at)
       THEN /\ chunks' = Append(chunks, open)
            /\ open' = Grown(Empty, at)
       ELSE /\ open' = Grown(open, at)
            /\ UNCHANGED chunks
    /\ at' = at + 1
    /\ UNCHANGED <<phase, body, blocks, units, next>>

EndPack ==
    /\ phase = "pack" /\ at > Len(units)
    /\ chunks' = IF IsEmpty(open) THEN chunks ELSE Append(chunks, open)
    /\ phase' = "done" /\ open' = Empty
    /\ UNCHANGED <<body, at, blocks, units, next>>

(* The chunks are returned: nothing is left to do.                         *)
Finished == phase = "done" /\ UNCHANGED vars

Next ==
    \/ OpenTable \/ GrowTable \/ CloseTable \/ ScanProse \/ EndScan
    \/ SizeWhole \/ SplitProse \/ TakeProse \/ CutLine \/ SkipBlank \/ EndProse
    \/ SplitTable \/ TakeRow \/ EndRows \/ EndSize
    \/ PackUnit \/ EndPack \/ Finished

Spec == Init /\ [][Next]_vars
-----------------------------------------------------------------------------
TypeOK ==
    /\ phase \in {"scan", "table", "size", "rows", "prose", "pack", "done"}
    /\ body \in Body
    /\ at \in Nat \ {0} /\ next \in 1 .. Len(blocks) + 1
    /\ \A i \in DOMAIN blocks :
          /\ blocks[i].kind \in {"prose", "table"}
          /\ 1 <= blocks[i].from /\ blocks[i].from <= blocks[i].to /\ blocks[i].to <= Len(body)
    /\ \A i \in DOMAIN units :
          /\ 1 <= units[i].from /\ units[i].from <= units[i].to /\ units[i].to <= Len(body)
          /\ units[i].header \in 0 .. Len(body) /\ units[i].tokens \in Nat
    /\ \A i \in DOMAIN chunks : chunks[i].from <= chunks[i].to /\ chunks[i].to <= Len(units)
    /\ open \in [from : Nat \ {0}, to : Nat]

(* The lines of a unit, those of its header aside.                         *)
LinesOf(u) == u.from .. u.to
LinesIn(c) == UNION {LinesOf(units[i]) : i \in c.from .. c.to}
HeadersIn(c) ==
    UNION {{units[i].header, units[i].header + 1} :
               i \in {j \in c.from .. c.to : units[j].header # 0}}

(* Chunks follow the document and miss no line of it; a line is in two of  *)
(* them only if it is prose of a block over the budget ("overlap used only *)
(* when a single prose block overflows").                                  *)
CoversInOrder ==
    phase = "done" =>
        /\ \A k \in DOMAIN body : Solid(k) =>
              \E c \in DOMAIN chunks : k \in LinesIn(chunks[c]) \cup HeadersIn(chunks[c])
        /\ \A c, d \in DOMAIN chunks : c < d =>
              /\ Min(LinesIn(chunks[c])) <= Min(LinesIn(chunks[d]))
              /\ Max(LinesIn(chunks[c])) <= Max(LinesIn(chunks[d]))
              /\ \A k \in LinesIn(chunks[c]) \cap LinesIn(chunks[d]) :
                    \E i \in DOMAIN blocks :
                        /\ blocks[i].kind = "prose" /\ ~Fits(blocks[i])
                        /\ k \in blocks[i].from .. blocks[i].to

(* A table, by its looks: what follows a row and a delimiter without a gap.*)
HeaderOf(k) ==
    LET above == {h \in 1 .. k - 2 :
                    /\ body[h + 1].kind = "delimiter"
                    /\ \A j \in h .. k : IsTableRow(j)}
    IN  IF above = {} THEN 0 ELSE Min(above)

(* "every piece stays a readable table": a row of a table comes in a unit  *)
(* that has the table's header and delimiter, and is never cut.            *)
TablesReadable ==
    phase = "done" =>
        \A i \in DOMAIN units, k \in DOMAIN body :
            k \in LinesOf(units[i]) /\ HeaderOf(k) # 0 =>
                /\ units[i].header = HeaderOf(k) \/ HeaderOf(k) \in LinesOf(units[i])
                /\ units[i].tokens >= body[k].tokens + LineTokens(HeaderOf(k), HeaderOf(k) + 1)

(* A wide row under its header, or a header and a delimiter without rows.  *)
Irreducible(u) ==
    \/ u.header # 0 /\ u.from = u.to
    \/ u.header = 0 /\ u.to = u.from + 1 /\ StartsTable(u.from)

(* "a packed chunk never overflows; only a lone unit that is itself        *)
(* irreducible (a single wide table row) can exceed size".                 *)
WithinBudget ==
    phase = "done" =>
        \A c \in DOMAIN chunks :
            LET u == units[chunks[c].from]
            IN  \/ Joined(chunks[c].from, chunks[c].to) <= Size
                \/ chunks[c].from = chunks[c].to /\ (u.tokens <= Size \/ Irreducible(u))

(* "so the corpus isn't shredded": no chunk could have taken one unit more.*)
NotShredded ==
    phase = "done" =>
        \A c \in DOMAIN chunks \ {1} :
            /\ chunks[c].from = chunks[c - 1].to + 1
            /\ ~(Joined(chunks[c - 1].from, chunks[c].from) <= Size)
=============================================================================
