---------------------------- MODULE QueryStream ----------------------------
(***************************************************************************)
(* QueryEngine.stream (query.py) and the consumer that pulls its events:   *)
(* retrieval, fusion, reranking, the prompt, the model's answer, its       *)
(* citations, and the three ways an answer can end.  A step is the code    *)
(* between two awaits or yields; at each of them something may raise, or   *)
(* the consumer may close the stream.                                      *)
(*                                                                         *)
(* A text is a sequence of atoms: a word, a blank, a marker such as [2],   *)
(* or one of the two words NOT_FOUND_MESSAGE is taken to consist of.  The  *)
(* model's answer comes in fragments, each a short text.                   *)
(***************************************************************************)
EXTENDS Fusion

CONSTANTS
    Chunk,         \* ids of chunks in the corpus
    RerankK,       \* QueryOptions.rerank_k
    ContextK,      \* QueryOptions.context_k
    Score,         \* scores a reranker gives
    MinScore,      \* QueryOptions.min_score
    MaxMarker,     \* markers a model writes are 0 .. MaxMarker
    MaxFragments   \* bound: how many fragments an answer has

ASSUME QueryAssumption ==
    /\ RerankK \in Nat \ {0} /\ ContextK \in Nat \ {0}
    /\ Score \subseteq Int /\ MinScore \in Int
    /\ MaxMarker \in Nat /\ MaxFragments \in Nat

Atom(kind) == [kind |-> kind, marker |-> 0]
Marker(n)  == [kind |-> "marker", marker |-> n]
Blank      == Atom("blank")

NotFoundMessage == <<Atom("nothing"), Blank, Atom("found")>>

(* What a model yields at a time.                                          *)
Fragment ==
    {<<Atom("word")>>, <<Blank>>, <<Atom("nothing")>>, <<Blank, Atom("found")>>}
        \cup {<<Marker(n)>> : n \in 0..MaxMarker}

(* _stream_words(NOT_FOUND_MESSAGE)                                        *)
RefusalFragments == <<<<Atom("nothing"), Blank>>, <<Atom("found"), Blank>>>>

ScoredChunk == [chunk : Chunk, score : Score]

(* AnswerToken, Citation, Usage, AnswerComplete                            *)
Token(f)       == [kind |-> "token", text |-> f]
Citation(n, c) == [kind |-> "citation", marker |-> n, chunk |-> c]
Usage(n, k)    == [kind |-> "usage", sources |-> n, completionTokens |-> k]
AnswerComplete(t, cs, o) ==
    [kind |-> "complete", text |-> t, citations |-> cs, outcome |-> o]

VARIABLES
    pc,          \* where the stream is
    dense,       \* what the vector store found
    lexical,     \* what the lexical store found
    candidates,  \* the fused list, cut to retrieve_k
    context,     \* the chunks in the prompt, source [n] at position n
    parts,       \* the fragments streamed so far
    text,        \* the text of the answer, once it is complete
    outcome,     \* how the answer ends, once it is known
    citations,   \* its citations, once they are bound
    events       \* the events yielded so far

retrieval == <<dense, lexical, candidates, context>>
answer == <<parts, text, outcome, citations>>
vars == <<pc, retrieval, answer, events>>

Outcomes == {"none", "answered", "not_found", "conversational"}

Init ==
    /\ pc = "idle" /\ outcome = "none"
    /\ dense = <<>> /\ lexical = <<>> /\ candidates = <<>> /\ context = <<>>
    /\ parts = <<>> /\ text = <<>> /\ citations = <<>> /\ events = <<>>

-----------------------------------------------------------------------------
(* The stream is started: small talk goes to _converse, a question to      *)
(* retrieval (rewritten first, when there is history).                     *)
Ask ==
    /\ pc = "idle"
    /\ pc' \in {"converse", "dense"}
    /\ UNCHANGED <<retrieval, answer, events>>

Rankings(k) == {s \in UNION {[1..n -> Chunk] : n \in 0..k} : IsInjective(s)}

SearchDense ==
    /\ pc = "dense"
    /\ dense' \in Rankings(RetrieveK)
    /\ pc' = "lexical"
    /\ UNCHANGED <<lexical, candidates, context, answer, events>>

(* The lexical search, and the fusion of the two.                          *)
SearchLexical ==
    /\ pc = "lexical"
    /\ lexical' \in Rankings(RetrieveK)
    /\ candidates' = Prefix(ReciprocalRankFusion(dense, lexical'), RetrieveK)
    /\ pc' = IF candidates' = <<>> THEN "refuse" ELSE "rerank"
    /\ UNCHANGED <<dense, context, answer, events>>

(* What a reranker may return: some of the candidates, each once, at most  *)
(* top_k, the best first.                                                  *)
Rerankings(s) ==
    {r \in UNION {[1..n -> [chunk : ToSet(s), score : Score]] : n \in 0..RerankK} :
        \A i, j \in DOMAIN r : i < j =>
            r[i].chunk # r[j].chunk /\ r[i].score >= r[j].score}

(* Mutant: the threshold is not applied.                                   *)
KeptUnsieved(r) == Prefix(r, ContextK)

Kept(r) == Prefix(Sublist(r, {i \in DOMAIN r : r[i].score >= MinScore}), ContextK)

(* _retrieve ends: what passes the threshold goes to the prompt, the best  *)
(* at its edges.  (The lists it was made from are forgotten.)              *)
Rerank ==
    /\ pc = "rerank"
    /\ \E r \in Rerankings(candidates) :
         /\ context' = ArrangeForEdges(Kept(r))
         /\ pc' = IF Kept(r) = <<>> THEN "refuse" ELSE "generate"
    /\ dense' = <<>> /\ lexical' = <<>> /\ candidates' = <<>>
    /\ UNCHANGED <<answer, events>>

(* Nothing was retrieved: NOT_FOUND_MESSAGE is streamed word by word.      *)
Refuse ==
    /\ pc = "refuse"
    /\ LET f == RefusalFragments[Len(parts) + 1]
           last == Len(parts) + 1 = Len(RefusalFragments)
       IN  /\ parts' = Append(parts, f)
           /\ events' = Append(events, Token(f))
           /\ pc' = IF last THEN "usage" ELSE "refuse"
           /\ outcome' = IF last THEN "not_found" ELSE "none"
           /\ text' = IF last THEN NotFoundMessage ELSE <<>>
    /\ dense' = <<>> /\ lexical' = <<>>
    /\ UNCHANGED <<candidates, context, citations>>

(* The model produces a fragment, on either path.                          *)
Generate(f) ==
    /\ pc \in {"generate", "converse"}
    /\ Len(parts) < MaxFragments
    /\ parts' = Append(parts, f)
    /\ events' = Append(events, Token(f))
    /\ UNCHANGED <<pc, retrieval, text, outcome, citations>>

(* str.strip                                                               *)
Strip(s) ==
    LET solid == {i \in DOMAIN s : s[i] # Blank}
        first == CHOOSE i \in solid : \A j \in solid : i <= j
        last  == CHOOSE i \in solid : \A j \in solid : i >= j
    IN  IF solid = {} THEN <<>> ELSE SubSeq(s, first, last)

(* "".join(parts).strip()                                                  *)
Joined == Strip(FlattenSeq(parts))

(* Mutant: the refusal is looked for in the text as it came.               *)
DeclinesUnstripped == FlattenSeq(parts) = NotFoundMessage

(* The model's own refusal.                                                *)
Declines == Joined = NotFoundMessage

(* The citations of the markers at some positions of a text, in its order. *)
CitationsAt(t, positions, sources) ==
    LET markers == Sublist(t, positions)
    IN  [k \in 1 .. Cardinality(positions) |->
            Citation(markers[k].marker, sources[markers[k].marker].chunk)]

IsFirst(t, i) == \A j \in 1 .. i - 1 : t[j] # t[i]

(* Mutant: a marker is bound at each of its occurrences.                   *)
BindCitationsAgain(t) ==
    CitationsAt(t, {i \in DOMAIN t : t[i].kind = "marker" /\ t[i].marker \in DOMAIN context},
                context)

(* Mutant: the lower bound is not tested, and [0] is context[-1].          *)
BindCitationsFromZero(t) ==
    CitationsAt(t, {i \in DOMAIN t : /\ t[i].kind = "marker" /\ t[i].marker <= Len(context)
                                     /\ IsFirst(t, i)},
                [n \in 0 .. Len(context) |-> context[IF n = 0 THEN Len(context) ELSE n]])

(* _bind_citations: a marker counts if it is that of a source, where it    *)
(* first occurs.                                                           *)
BindCitations(t) ==
    CitationsAt(t, {i \in DOMAIN t : /\ t[i].kind = "marker" /\ t[i].marker \in 1..Len(context)
                                     /\ IsFirst(t, i)},
                context)

(* The grounded answer is complete: it is a refusal, or it is bound.       *)
EndGeneration ==
    /\ pc = "generate"
    /\ text' = Joined
    /\ outcome' = IF Declines THEN "not_found" ELSE "answered"
    /\ citations' = IF Declines THEN <<>> ELSE BindCitations(Joined)
    /\ pc' = "cite"
    /\ UNCHANGED <<retrieval, parts, events>>

(* The conversational reply is complete: a refusal, or chatter.            *)
EndConversation ==
    /\ pc = "converse"
    /\ text' = Joined
    /\ outcome' = IF Declines THEN "not_found" ELSE "conversational"
    /\ pc' = "usage"
    /\ UNCHANGED <<retrieval, parts, citations, events>>

Yielded == Cardinality({i \in DOMAIN events : events[i].kind = "citation"})

YieldCitation ==
    /\ pc = "cite"
    /\ Yielded < Len(citations)
    /\ events' = Append(events, citations[Yielded + 1])
    /\ UNCHANGED <<pc, retrieval, answer>>

YieldUsage ==
    /\ \/ pc = "usage"
       \/ pc = "cite" /\ Yielded = Len(citations)
    /\ events' = Append(events, Usage(Len(context), Len(parts)))
    /\ pc' = "complete"
    /\ UNCHANGED <<retrieval, answer>>

(* Mutant: the return after the conversational reply is missing.           *)
YieldCompleteAndGoOn ==
    /\ pc = "complete"
    /\ events' = Append(events, AnswerComplete(text, citations, outcome))
    /\ pc' = IF outcome = "conversational" THEN "dense" ELSE "done"
    /\ UNCHANGED <<retrieval, answer>>

YieldComplete ==
    /\ pc = "complete"
    /\ events' = Append(events, AnswerComplete(text, citations, outcome))
    /\ pc' = "done"
    /\ UNCHANGED <<retrieval, answer>>

(* Something awaited raises, or the consumer closes the stream.            *)
Break ==
    /\ pc \notin {"idle", "done", "broken"}
    /\ pc' = "broken"
    /\ UNCHANGED <<retrieval, answer, events>>

(* The consumer has what it got, and the engine is asked again.            *)
Leave ==
    /\ pc \in {"done", "broken"}
    /\ pc' = "idle" /\ outcome' = "none"
    /\ dense' = <<>> /\ lexical' = <<>> /\ candidates' = <<>> /\ context' = <<>>
    /\ parts' = <<>> /\ text' = <<>> /\ citations' = <<>> /\ events' = <<>>

Step ==
    \/ SearchDense \/ SearchLexical \/ Rerank \/ Refuse
    \/ \E f \in Fragment : Generate(f)
    \/ EndGeneration \/ EndConversation \/ YieldCitation \/ YieldUsage \/ YieldComplete

Next == Ask \/ Step \/ Break \/ Leave

Spec == Init /\ [][Next]_vars
-----------------------------------------------------------------------------
TypeOK ==
    /\ pc \in {"idle", "dense", "lexical", "rerank", "refuse", "generate", "converse",
               "cite", "usage", "complete", "done", "broken"}
    /\ dense \in Seq(Chunk) /\ lexical \in Seq(Chunk) /\ candidates \in Seq(Chunk)
    /\ context \in Seq(ScoredChunk)
    /\ parts \in Seq(Fragment \cup ToSet(RefusalFragments))
    /\ outcome \in Outcomes
    /\ \A i \in DOMAIN citations : citations[i].marker \in 1..Len(context)

Phase(e) == CASE e.kind = "token" -> 1 [] e.kind = "citation" -> 2
              [] e.kind = "usage" -> 3 [] e.kind = "complete" -> 4

(* Tokens, then citations, then one Usage, then one AnswerComplete and     *)
(* nothing after it, on every path and wherever the stream breaks          *)
(* (models.py, "Streamed answer events").                                  *)
EventsInOrder ==
    \A i, j \in DOMAIN events : i < j =>
        /\ Phase(events[i]) <= Phase(events[j])
        /\ Phase(events[i]) \in {3, 4} => Phase(events[i]) # Phase(events[j])

(* The terminal event and the ones before it tell the same answer: its     *)
(* text is the tokens, its citations are those yielded, and a citation     *)
(* comes once, in the order its marker first appears, with the chunk that  *)
(* the prompt showed under that number.                                    *)
CompleteMatchesTheStream ==
    pc = "done" =>
        LET final == Last(events)
            tokens == Sublist(events, {i \in DOMAIN events : events[i].kind = "token"})
            cited == Sublist(events, {i \in DOMAIN events : events[i].kind = "citation"})
            at(n) == CHOOSE i \in DOMAIN final.text :
                        final.text[i] = Marker(n) /\ \A j \in 1 .. i - 1 : final.text[j] # Marker(n)
        IN  /\ final.text = Strip(FlattenSeq([i \in DOMAIN tokens |-> tokens[i].text]))
            /\ final.citations = cited
            /\ \A i, j \in DOMAIN cited : i < j => at(cited[i].marker) < at(cited[j].marker)
            /\ \A i \in DOMAIN cited : cited[i].chunk = context[cited[i].marker].chunk
            /\ events[Len(events) - 1] = Usage(Len(context), Len(tokens))

(* An answer is called grounded only over a prompt with sources in it, all *)
(* of them above min_score; every other ending is uncited, and the model's *)
(* own refusal is never called an answer, however it is spaced.            *)
GroundedMeansSources ==
    pc = "done" =>
        LET final == Last(events)
        IN  /\ final.outcome = "answered" =>
                  /\ context # <<>> /\ \A i \in DOMAIN context : context[i].score >= MinScore
                  /\ final.text # NotFoundMessage
            /\ final.outcome # "answered" => final.citations = <<>>

(* A chunk that both searches found is ahead of every one that only one of *)
(* them did, and none is there twice: the channels reinforce each other.   *)
ChannelsReinforce ==
    LET both == ToSet(dense) \cap ToSet(lexical)
    IN  /\ IsInjective(candidates)
        /\ \A i \in DOMAIN candidates : candidates[i] \notin both =>
              \A c \in both : \E j \in 1 .. i - 1 : candidates[j] = c

(* Every marker of a grounded answer resolves to one of its citations.     *)
(* (Not so: the code drops the citation of a marker out of range and       *)
(* leaves the marker in the text.  No run checks it.)                      *)
MarkersResolve ==
    pc = "done" /\ outcome = "answered" =>
        \A i \in DOMAIN text : text[i].kind = "marker" =>
            \E k \in DOMAIN citations : citations[k].marker = text[i].marker
=============================================================================
