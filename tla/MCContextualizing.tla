------------------------- MODULE MCContextualizing -------------------------
(* Small instances of Contextualizing for TLC.                             *)
EXTENDS Contextualizing, TLC

CONSTANTS Short, Long, Other

MCText == {Short, Long, Other}
MCTexts == UNION {[1..n -> MCText \cup {Blank}] : n \in 0..MaxLines}

(* A tokeniser that merges: two short lines, or a short line after a       *)
(* break, are one token.                                                   *)
Merged(t) ==
    {k \in 2 .. Len(t) : t[k] = Short /\ t[k - 1] \in {Short, Blank}}
Worth == Short :> 1 @@ Long :> 4 @@ Other :> 2 @@ Blank :> 1
MCCount ==
    [t \in MCTexts |-> SumFunction([k \in DOMAIN t |-> Worth[t[k]]]) - Cardinality(Merged(t))]
=============================================================================
