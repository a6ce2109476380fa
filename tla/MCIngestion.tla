---------------------------- MODULE MCIngestion ----------------------------
(* Small instances of Ingestion for TLC. *)
EXTENDS Ingestion, TLC

CONSTANTS c1, c2, odd, pdf, text, asText, small, large,
    Ingests,    \* how many ingests begin
    Meddlings   \* how many times others rewrite the file or a cache entry

(* Bytes the router recognises as what they are, or as nothing (odd); a     *)
(* name may claim that they are text (asText, as a .txt extension does).    *)
MCRoute == [n \in Name |-> [c \in Content |->
               IF n = asText THEN text ELSE IF c = odd THEN None ELSE pdf]]

MCChunkCount == [z \in Size |-> IF z = large THEN 1 ELSE 2]

(* Someone else's parse of c1, found under whatever key.                    *)
MCForeign == {[content |-> c1, format |-> pdf]}

-----------------------------------------------------------------------------
(* The runs without liveness count the ingests and the meddlings: the rest  *)
(* of the state would otherwise only repeat.                                *)
VARIABLES begun, meddled

Starts == \E t \in Task : pc[t] = "idle" /\ pc'[t] = "get"
Meddles == pc' = pc /\ <<files, cache>>' # <<files, cache>>

Counted ==
    /\ begun' = IF Starts THEN begun + 1 ELSE begun
    /\ meddled' = IF Meddles THEN meddled + 1 ELSE meddled
    /\ begun' <= Ingests /\ meddled' <= Meddlings

BoundedSpec ==
    /\ begun = 0 /\ meddled = 0 /\ Init
    /\ [][Next /\ Counted]_<<vars, begun, meddled>>

-----------------------------------------------------------------------------
(* Ingests of files, whose bytes may change under them.                     *)
OfFiles == \A t \in Task : source[t] # None => source[t].path # None

(* Nothing but the cache fails, and the event loop runs every task.         *)
FilesSpec ==
    /\ begun = 0 /\ meddled = 0 /\ Init
    /\ [][Smooth /\ OfFiles' /\ UNCHANGED <<begun, meddled>>]_<<vars, begun, meddled>>
    /\ \A t \in Task : WF_vars(Step(t))

Symmetry == Permutations(Task)
=============================================================================
