------------------------------- MODULE Corpus -------------------------------
(***************************************************************************)
(* What ragsage promises the callers of its write path, with no SQL in     *)
(* sight.  A corpus maps every namespace and document to the one chunking  *)
(* that is served for it, or to None.  A call is begun, takes effect at    *)
(* most once and all at once, and returns; a call that returned "ok" took  *)
(* effect, one that returned "failed" may have (the answer to its COMMIT   *)
(* can be lost) but never in part.                                         *)
(*                                                                         *)
(* ScopedStore implements this module: see ScopedStore!ImplementsCorpus.   *)
(***************************************************************************)
EXTENDS Calls

VARIABLES
    corpus,   \* corpus[n][d]: the chunking served for document d of namespace n
    request,  \* request[s]: the call s is in, or None
    applied,  \* applied[s]: the call took effect
    owed,     \* owed[s]: documents of its namespace nobody rewrote since the call began
    result    \* result[s]: what the last call returned

vars == <<corpus, request, applied, owed, result>>

TypeOK ==
    /\ corpus \in [Namespace -> [Document -> Chunking \cup {None}]]
    /\ request \in [Session -> Call \cup {None}]
    /\ applied \in [Session -> BOOLEAN]
    /\ owed \in [Session -> SUBSET Document]
    /\ result \in [Session -> {"none", "ok", "failed"}]

Init ==
    /\ corpus = [n \in Namespace |-> [d \in Document |-> None]]
    /\ request = [s \in Session |-> None]
    /\ applied = [s \in Session |-> FALSE]
    /\ owed = [s \in Session |-> {}]
    /\ result = [s \in Session |-> "none"]

Begin(s, k) ==
    /\ request[s] = None
    /\ request' = [request EXCEPT ![s] = k]
    /\ owed' = [owed EXCEPT ![s] = Document]
    /\ result' = [result EXCEPT ![s] = "none"]
    /\ UNCHANGED <<corpus, applied>>

(* Serve x (nothing when None) for the documents D of namespace n.         *)
Put(n, D, x) ==
    corpus' = [corpus EXCEPT ![n] = [d \in Document |-> IF d \in D THEN x ELSE corpus[n][d]]]

(* Session s rewrote the documents D of namespace n: no other call owes    *)
(* them anything any more.                                                 *)
Rewrite(s, n, D) ==
    owed' = [o \in Session |->
                IF o # s /\ request[o] # None /\ request[o].ns = n
                THEN owed[o] \ D ELSE owed[o]]

(* An ingest replaces its document whole; one that produced no chunk at    *)
(* all changes nothing.                                                    *)
ApplyIngest(s) ==
    LET k == request[s]
    IN  /\ k.op = "ingest"
        /\ IF Empty(k.chunking)
           THEN UNCHANGED <<corpus, owed>>
           ELSE /\ Put(k.ns, k.docs, k.chunking)
                /\ Rewrite(s, k.ns, k.docs)

(* A delete or a purge removes whole documents out of those it addresses,  *)
(* and every one of them that nobody rewrote while the call was running.   *)
ApplyRemove(s) ==
    LET k == request[s]
    IN  /\ k.op \in {"delete", "purge"}
        /\ \E D \in SUBSET k.docs :
             /\ owed[s] \cap k.docs \subseteq D
             /\ Put(k.ns, D, None)
             /\ Rewrite(s, k.ns, {d \in D : corpus[k.ns][d] # None})

ApplyQuery(s) ==
    /\ request[s].op = "query"
    /\ UNCHANGED <<corpus, owed>>

Apply(s) ==
    /\ request[s] # None
    /\ ~applied[s]
    /\ ApplyIngest(s) \/ ApplyRemove(s) \/ ApplyQuery(s)
    /\ applied' = [applied EXCEPT ![s] = TRUE]
    /\ UNCHANGED <<request, result>>

Return(s, outcome) ==
    /\ request[s] # None
    /\ outcome = "ok" => applied[s]
    /\ request' = [request EXCEPT ![s] = None]
    /\ applied' = [applied EXCEPT ![s] = FALSE]
    /\ owed' = [owed EXCEPT ![s] = {}]
    /\ result' = [result EXCEPT ![s] = outcome]
    /\ UNCHANGED corpus

Next ==
    \E s \in Session :
        \/ \E k \in Call : Begin(s, k)
        \/ Apply(s)
        \/ \E outcome \in {"ok", "failed"} : Return(s, outcome)

Spec == Init /\ [][Next]_vars
=============================================================================
