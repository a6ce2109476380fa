------------------------------- MODULE Fusion -------------------------------
(***************************************************************************)
(* The ranking arithmetic of query.py: reciprocal_rank_fusion over the     *)
(* dense and the lexical list, and _arrange_for_edges.  A ranked list is a *)
(* sequence without repetitions.  Scores are counted in units of 1/Unit,   *)
(* Unit being a multiple of every denominator that occurs.                 *)
(***************************************************************************)
EXTENDS Enumeration, SequencesExt

CONSTANTS
    RrfK,       \* _RRF_K, 60 in query.py
    Unit,       \* what a score of 1 is worth
    RetrieveK   \* QueryOptions.retrieve_k: how long the lists are at most

ASSUME FusionAssumption ==
    /\ RrfK \in Nat \ {0} /\ RetrieveK \in Nat \ {0}
    /\ Unit \in Nat \ {0}
    /\ \A r \in 0 .. RetrieveK - 1 : Unit % (RrfK + r) = 0

Prefix(s, k) == SubSeq(s, 1, IF Len(s) < k THEN Len(s) ELSE k)

(* 0-based, as enumerate counts.                                           *)
Rank(list, c) == (CHOOSE i \in DOMAIN list : list[i] = c) - 1

(* What one list adds to the score of a chunk.                             *)
Share(list, c) ==
    IF c \in ToSet(list) THEN Unit \div (RrfK + Rank(list, c)) ELSE 0

(* Mutant: scores[cid] = ... in place of +=, the lexical list coming last. *)
FusedScoreOfLast(dense, lexical, c) ==
    IF c \in ToSet(lexical) THEN Share(lexical, c) ELSE Share(dense, c)

FusedScore(dense, lexical, c) == Share(dense, c) + Share(lexical, c)

(* Where a chunk enters the dict of scores: dense ones first.             *)
Encounter(dense, lexical, c) ==
    IF c \in ToSet(dense) THEN Rank(dense, c) ELSE Len(dense) + Rank(lexical, c)

Found(dense, lexical) == ToSet(dense) \cup ToSet(lexical)

(* Sorted by score, the best first; ties stay in the order of encounter    *)
(* (list.sort is stable).                                                  *)
Precedence(dense, lexical) ==
    LET score(c) == FusedScore(dense, lexical, c)
        encounter(c) == Encounter(dense, lexical, c)
    IN  {p \in Found(dense, lexical) \X Found(dense, lexical) :
            \/ score(p[1]) > score(p[2])
            \/ score(p[1]) = score(p[2]) /\ encounter(p[1]) < encounter(p[2])}

ReciprocalRankFusion(dense, lexical) ==
    InOrder(Found(dense, lexical), Precedence(dense, lexical))

(* ranked[0::2] + ranked[1::2][::-1]                                       *)
ArrangeForEdges(s) ==
    LET n == Len(s)
    IN  [i \in 1..n |-> IF i <= (n + 1) \div 2 THEN s[2 * i - 1] ELSE s[2 * (n - i + 1)]]
=============================================================================
