-------------------------------- MODULE Fakes --------------------------------
(***************************************************************************)
(* The in-memory adapters of fakes.py and the two pipelines over them: one *)
(* source ingested into a kit, one question answered from it.  Everything  *)
(* here is a pure function of a kit, for nothing else runs in a process    *)
(* while it does either; CommandLine says when processes do it.            *)
(*                                                                         *)
(* A text is a sequence of words.  The bytes of a document are a text in   *)
(* which FormFeed ends a page, and they are its id.  Documents are short   *)
(* enough for the window of HeadingWindowContextualizer to be all of the   *)
(* text around a chunk (Contextualizing says what it is when they are not) *)
(* and the fixed labels of an embedded text are left out.                  *)
(***************************************************************************)
EXTENDS Fusion

CONSTANTS
    Word,      \* the words, names of files among them
    Stopword,  \* _STOPWORDS
    FormFeed,  \* what ends a page
    Bucket,    \* _bucket: where a word is counted in a vector
    Size,      \* chunk_size
    Overlap,   \* chunk_overlap
    RerankK,   \* rerank_k
    ContextK,  \* context_k
    Message,   \* the words of NOT_FOUND_MESSAGE
    SmallTalk  \* questions that are none

ASSUME FakesAssumption ==
    /\ Stopword \subseteq Word /\ FormFeed \notin Word
    /\ DOMAIN Bucket = Word
    /\ Size \in Nat \ {0} /\ Overlap \in 0 .. Size - 1
    /\ RerankK \in Nat \ {0} /\ ContextK \in Nat \ {0}
    /\ Message \in Seq(Word) \ {<<>>} /\ SmallTalk \subseteq Seq(Word)

ContentTokens(text) == ToSet(text) \ Stopword

(* The content words two texts share.                                      *)
SharedWords(s, t) == ContentTokens(s) \cap ContentTokens(t)

-----------------------------------------------------------------------------
(* FakeDocumentParser, FakePageClassifier and FakeLLMClient.transcribe: an *)
(* image is one page, read off the bytes; any other source is a page for   *)
(* every block between form feeds.                                         *)

(* bytes.split("\f")                                                       *)
Blocks(bytes) ==
    LET ends == Ascending({i \in 1 .. Len(bytes) + 1 :
                              i <= Len(bytes) => bytes[i] = FormFeed})
    IN  [n \in DOMAIN ends |->
            SubSeq(bytes, IF n = 1 THEN 1 ELSE ends[n - 1] + 1, ends[n] - 1)]

(* The words of a decoded image; a form feed is but a blank in it.         *)
Transcribe(bytes) == Sublist(bytes, {i \in DOMAIN bytes : bytes[i] # FormFeed})

Pages(source) ==
    IF source.image THEN <<Transcribe(source.bytes)>> ELSE Blocks(source.bytes)

-----------------------------------------------------------------------------
(* FakeChunker, and the contextualizers.                                   *)

Stride == IF Size > Overlap THEN Size - Overlap ELSE 1

(* How many windows a page has: the last is the first to reach its end.    *)
Windows(words) ==
    IF words = <<>> THEN 0
    ELSE Min({n \in 1 .. Len(words) : (n - 1) * Stride + Size >= Len(words)})

WindowAt(words, n) ==
    SubSeq(words, (n - 1) * Stride + 1, Min({(n - 1) * Stride + Size, Len(words)}))

(* The windows of all pages: <<page, window of it>>, page after page.      *)
Spots(pages) ==
    LET spots == UNION {{p} \X (1 .. Windows(pages[p])) : p \in DOMAIN pages}
    IN  InOrder(spots, {q \in spots \X spots :
                            \/ q[1][1] < q[2][1]
                            \/ q[1][1] = q[2][1] /\ q[1][2] < q[2][2]})

Passages(pages) ==
    LET spots == Spots(pages)
    IN  [i \in DOMAIN spots |->
            [page |-> spots[i][1], ordinal |-> spots[i][2] - 1,
             text |-> WindowAt(pages[spots[i][1]], spots[i][2])]]

(* embed_text: the passage, under the name of its document, or with what   *)
(* stands around it as well.                                               *)
EmbedText(contextualizer, source, passage) ==
    CASE contextualizer = "none" -> passage.text
      [] contextualizer = "fake" -> <<source.name>> \o passage.text
      [] contextualizer = "heading-window" -> <<source.name>> \o Transcribe(source.bytes)

(* Mutant: the ordinal, and with it the id, starts again on every page.    *)
ChunksRestarting(contextualizer, source) ==
    LET passages == Passages(Pages(source))
    IN  [i \in DOMAIN passages |->
            [document |-> source.bytes, ordinal |-> passages[i].ordinal,
             page |-> passages[i].page, text |-> passages[i].text,
             embedText |-> EmbedText(contextualizer, source, passages[i])]]

Chunks(contextualizer, source) ==
    LET passages == Passages(Pages(source))
    IN  [i \in DOMAIN passages |->
            [document |-> source.bytes, ordinal |-> i - 1,
             page |-> passages[i].page, text |-> passages[i].text,
             embedText |-> EmbedText(contextualizer, source, passages[i])]]

ChunkId(chunk) == <<chunk.document, chunk.ordinal>>

-----------------------------------------------------------------------------
(* The stores.  A kit has, of each namespace, the records of its vector    *)
(* and of its lexical store and the documents that are registered, each in *)
(* the order of arrival.                                                   *)

EmptyShelf == [vector |-> <<>>, lexical |-> <<>>, documents |-> <<>>]

(* upsert, index: an id that comes again replaces what it named.           *)
Upsert(records, chunks) ==
    LET incoming == {ChunkId(chunks[i]) : i \in DOMAIN chunks}
    IN  Sublist(records, {i \in DOMAIN records : ChunkId(records[i]) \notin incoming})
            \o chunks

(* find_by_hash, over one namespace.                                       *)
Registered(shelf, source) == source.bytes \in ToSet(shelf.documents)

(* IngestionPipeline.ingest over the fakes.                                *)
Ingested(shelf, contextualizer, source) ==
    IF Registered(shelf, source) THEN shelf
    ELSE [vector |-> Upsert(shelf.vector, Chunks(contextualizer, source)),
          lexical |-> Upsert(shelf.lexical, Chunks(contextualizer, source)),
          documents |-> Append(shelf.documents, source.bytes)]

-----------------------------------------------------------------------------
(* Searching.                                                              *)

(* _embed_one and _cosine: a vector counts the words of a text in every    *)
(* bucket, so that the product of two counts the pairs of words, one of    *)
(* each text, that are in the same bucket.                                 *)
Dot(s, t) == Cardinality({p \in (DOMAIN s) \X (DOMAIN t) : Bucket[s[p[1]]] = Bucket[t[p[2]]]})

(* The cosine of q with s is greater than with t: both are squared.        *)
Nearer(q, s, t) == Dot(q, s) * Dot(q, s) * Dot(t, t) > Dot(q, t) * Dot(q, t) * Dot(s, s)

(* A list without some of its members and in another order.                *)
Arranged(list, positions) == [i \in DOMAIN positions |-> list[positions[i]]]

(* FakeVectorStore.search: every record whose vector meets the question's, *)
(* stop words and all, the nearest first.                                  *)
DenseSearch(records, question) ==
    LET text(i) == records[i].embedText
        nearer(i, j) == Nearer(question, text(i), text(j))
        hits == {i \in DOMAIN records : Dot(question, text(i)) > 0}
    IN  Prefix(Arranged(records, InOrder(hits, {p \in hits \X hits :
            nearer(p[1], p[2]) \/ (p[1] < p[2] /\ ~nearer(p[2], p[1]))})), RetrieveK)

(* How many content words a chunk shares with the question.                *)
Shared(chunk, question) == Cardinality(SharedWords(question, chunk.text))

(* Chunks that share content words with the question, those that share     *)
(* most of them first: the lexical search, and the reranker.               *)
Overlapping(chunks, question) ==
    LET shared(i) == Shared(chunks[i], question)
        hits == {i \in DOMAIN chunks : shared(i) > 0}
    IN  Arranged(chunks, InOrder(hits, {p \in hits \X hits :
            shared(p[1]) > shared(p[2]) \/ (p[1] < p[2] /\ shared(p[1]) = shared(p[2]))}))

LexicalSearch(records, question) == Prefix(Overlapping(records, question), RetrieveK)

(* Mutant: the lists are appended, not fused, before the cut.              *)
RetrievedAppended(shelf, question) ==
    Prefix(DenseSearch(shelf.vector, question) \o LexicalSearch(shelf.lexical, question),
           RetrieveK)

Retrieved(shelf, question) ==
    Prefix(ReciprocalRankFusion(DenseSearch(shelf.vector, question),
                                LexicalSearch(shelf.lexical, question)), RetrieveK)

Reranked(candidates, question) == Prefix(Overlapping(candidates, question), RerankK)

(* _retrieve, the default min_score of 0 keeping everything.               *)
Context(shelf, question) ==
    ArrangeForEdges(Prefix(Reranked(Retrieved(shelf, question), question), ContextK))

-----------------------------------------------------------------------------
(* FakeLLMClient.generate, and the answer made of it.                      *)

(* The markers of the sources that bear on the question.                   *)
Relevant(context, question) == {n \in DOMAIN context : Shared(context[n], question) > 0}

(* Of those that share most with it, the first.                            *)
Best(context, question) ==
    LET relevant == Relevant(context, question)
    IN  context[Min({n \in relevant : \A m \in relevant :
                        Shared(context[m], question) <= Shared(context[n], question)})]

Answer(text, citations, outcome) ==
    [text |-> text, citations |-> citations, outcome |-> outcome]

Refusal == Answer(Message, <<>>, "not_found")

(* SMALL_TALK_REPLY says nothing of the corpus.                            *)
Chatter == Answer(<<>>, <<>>, "conversational")

(* QueryEngine.query.  (The model's text is that of the best source and    *)
(* the markers of all relevant ones, which bind to those sources.)         *)
Query(shelf, question) ==
    LET context == Context(shelf, question)
        relevant == Relevant(context, question)
    IN  IF question \in SmallTalk THEN Chatter
        ELSE IF relevant = {} THEN Refusal
        ELSE Answer(Best(context, question).text, Sublist(context, relevant), "answered")
=============================================================================
