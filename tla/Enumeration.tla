---------------------------- MODULE Enumeration ----------------------------
(***************************************************************************)
(* Lists made of sets: the members of a finite set in an order, and the    *)
(* members of a list that stand at some of its positions.  They are found  *)
(* by counting what comes before them.  And the sums of lists of costs.    *)
(***************************************************************************)
EXTENDS Integers, Sequences, FiniteSets

(* The members of S, in the order that the relation R, a set of pairs,     *)
(* puts them in.                                                           *)
InOrder(S, R) ==
    [k \in 1 .. Cardinality(S) |->
        CHOOSE c \in S : Cardinality({d \in S : <<d, c>> \in R}) = k - 1]

(* Numbers, the least first.                                               *)
Ascending(S) == InOrder(S, {p \in S \X S : p[1] < p[2]})

(* What a list has at some of its positions.                               *)
Sublist(s, positions) ==
    LET at == Ascending(positions)
    IN  [k \in 1 .. Cardinality(positions) |-> s[at[k]]]

(* The sum of the first n of some costs.                                   *)
Total(costs, n) ==
    LET sum[k \in 0..n] == IF k = 0 THEN 0 ELSE sum[k - 1] + costs[k]
    IN  sum[n]
=============================================================================
