----------------------------- MODULE Ingestion -----------------------------
(***************************************************************************)
(* IngestionPipeline.ingest (ingestion.py) run by concurrent tasks that    *)
(* share one HeuristicBackend, with its stash, and one Cache.  A step is   *)
(* the code between two awaits; the cache, the model and the store may     *)
(* fail at each of them.  The write to the stores and its COMMIT are one   *)
(* step here: ScopedStore shows that they are (Corpus!ApplyIngest).        *)
(*                                                                         *)
(* A document's id and hash stand for its bytes (sha256 is taken to be     *)
(* injective); a text to embed is the chunk it was written for.            *)
(***************************************************************************)
EXTENDS Integers

CONSTANTS
    Task,          \* the ingests in flight, all in one scope
    Content,       \* the bytes of documents
    Name,          \* file names, each with its media type
    Path,          \* files the backend reads itself
    Format,        \* document formats the router knows
    Route,         \* Route[n][c]: the format of bytes c under name n, or None
    Scanned,       \* formats whose pages are read by the vision model
    Reading,       \* what the vision model may read in them
    Size,          \* values of IngestionConfig.chunk_size
    ChunkCount,    \* ChunkCount[z]: how many chunks a document yields at size z
    Deduplicates,  \* whether find_by_hash remembers (PgDocumentStore does not)
    Corruptible,   \* the kinds of cache entries that others overwrite
    Garbled,       \* what they leave there: text that is no entry of this engine
    Foreign,       \* or documents that decode, whatever key they are put under
    None           \* no content, no path, no format, no document, no ordinal

ASSUME ConstantsAssumption ==
    /\ Route \in [Name -> [Content -> Format \cup {None}]]
    /\ Scanned \subseteq Format /\ Reading # {}
    /\ ChunkCount \in [Size -> Nat]
    /\ Deduplicates \in BOOLEAN
    /\ Corruptible \subseteq {"parse", "ctx"}
    /\ Foreign \subseteq [content : Content, format : Format]
    /\ None \notin Content \cup Format

-----------------------------------------------------------------------------
(* RawSource: bytes in memory, or a path to read them from.                *)
Source == [name : Name, content : Content, path : {None}]
              \cup [name : Name, content : {None}, path : Path]

Parsed == [content : Content, format : Format]

Chunk == [content : Content, format : Format, reading : Reading \cup {None}, size : Size, ord : Nat]

Text == [chunk : Chunk, embed : Chunk \cup {Garbled}]

(* What the vision model may return for the pages of a document.           *)
Readings(f) == IF f \in Scanned THEN Reading ELSE {None}

(* HeuristicBackend.chunk over the resolved pages: dense ordinals.         *)
ChunksOf(d, r, z) ==
    {[content |-> d.content, format |-> d.format, reading |-> r, size |-> z, ord |-> i] :
        i \in 0 .. ChunkCount[z] - 1}

Faithful(chunks) == {[chunk |-> k, embed |-> k] : k \in chunks}

Key == [kind : {"parse"}, content : Content, ord : {None}]
           \cup [kind : {"ctx"}, content : Content, ord : Nat]

ParseKey(c) == [kind |-> "parse", content |-> c, ord |-> None]

(* Mutant: the key of a context leaves out the hash of the document.       *)
ContextKeyOfOrdinal(k) ==
    [kind |-> "ctx", content |-> CHOOSE c \in Content : TRUE, ord |-> k.ord]

(* f"ctx:{document.content_hash}:{chunk.id}"; a chunk's id is its          *)
(* document's and its ordinal.                                             *)
ContextKey(k) == [kind |-> "ctx", content |-> k.content, ord |-> k.ord]

(* Mutant: decode_parsed trusts what it is given.                          *)
DecodableAlways(v) == TRUE

(* decode_parsed returns a document, and not None.                         *)
Decodable(v) == v # Garbled

-----------------------------------------------------------------------------
VARIABLES
    cache,    \* the entries of the cache, [key, value] with one value for a key
    stash,    \* HeuristicBackend._parsed: the documents parsed and not chunked
    files,    \* files[p]: the bytes now under path p
    stored,   \* stored[c]: the texts stored for document c
    saved,    \* the documents saved in the document store
    pc,       \* where the ingest of a task is
    source,   \* the source it was given
    size,     \* the chunk_size it was given
    hashed,   \* the bytes its cache key was computed from
    doc,      \* the parsed document, with its format standing for its pages
    todo,     \* the chunks still to be contextualised
    texts,    \* the chunks with the text to embed for each
    result    \* how its last ingest ended

taskVars == <<source, size, hashed, doc, todo, texts>>
vars == <<cache, stash, files, stored, saved, pc, taskVars, result>>

Read(s) == IF s.content # None THEN s.content ELSE files[s.path]

Entries(k) == {e \in cache : e.key = k}

(* Cache.set                                                               *)
Put(k, v) == cache' = (cache \ Entries(k)) \cup {[key |-> k, value |-> v]}

(* The chunk whose turn it is.                                             *)
First(t) == {k \in todo[t] : \A o \in todo[t] : k.ord <= o.ord}

Init ==
    /\ cache = {} /\ stash = {} /\ saved = {}
    /\ files \in [Path -> Content]
    /\ stored = [c \in Content |-> {}]
    /\ pc = [t \in Task |-> "idle"]
    /\ source = [t \in Task |-> None]
    /\ size = [t \in Task |-> None]
    /\ hashed = [t \in Task |-> None]
    /\ doc = [t \in Task |-> None]
    /\ todo = [t \in Task |-> {}]
    /\ texts = [t \in Task |-> {}]
    /\ result = [t \in Task |-> "none"]

-----------------------------------------------------------------------------
(* ingest is called; _parse hashes the bytes and asks the cache for them.  *)
Begin(t, s, z) ==
    /\ pc[t] = "idle"
    /\ pc' = [pc EXCEPT ![t] = "get"]
    /\ source' = [source EXCEPT ![t] = s]
    /\ size' = [size EXCEPT ![t] = z]
    /\ hashed' = [hashed EXCEPT ![t] = Read(s)]
    /\ result' = [result EXCEPT ![t] = "none"]
    /\ UNCHANGED <<cache, stash, files, stored, saved, doc, todo, texts>>

(* The call is over: nothing of it is left but its result.                 *)
Leave(t, outcome) ==
    /\ pc' = [pc EXCEPT ![t] = "idle"]
    /\ source' = [source EXCEPT ![t] = None]
    /\ size' = [size EXCEPT ![t] = None]
    /\ hashed' = [hashed EXCEPT ![t] = None]
    /\ doc' = [doc EXCEPT ![t] = None]
    /\ todo' = [todo EXCEPT ![t] = {}]
    /\ texts' = [texts EXCEPT ![t] = {}]
    /\ result' = [result EXCEPT ![t] = outcome]

(* The cache holds a document for these bytes.                             *)
ParseHit(t) ==
    /\ pc[t] = "get"
    /\ \E e \in Entries(ParseKey(hashed[t])) :
         /\ Decodable(e.value)
         /\ doc' = [doc EXCEPT ![t] = e.value]
    /\ pc' = [pc EXCEPT ![t] = "find"]
    /\ UNCHANGED <<cache, stash, files, stored, saved, source, size, hashed, todo, texts, result>>

(* It holds none, holds one it cannot decode, has evicted it, or is down   *)
(* (always possible): parser.parse reads the source again, routes it and   *)
(* stashes its pages.                                                      *)
ParseMiss(t) ==
    LET c == Read(source[t])
        f == Route[source[t].name][c]
    IN  /\ pc[t] = "get"
        /\ f # None
        /\ doc' = [doc EXCEPT ![t] = [content |-> c, format |-> f]]
        /\ stash' = stash \cup {c}
        /\ pc' = [pc EXCEPT ![t] = "set"]
        /\ UNCHANGED <<cache, files, stored, saved, source, size, hashed, todo, texts, result>>

(* No format for this name and these bytes: _parse_pages raises.           *)
ParseFails(t) ==
    /\ pc[t] = "get"
    /\ Route[source[t].name][Read(source[t])] = None
    /\ Leave(t, "failed")
    /\ UNCHANGED <<cache, stash, files, stored, saved>>

(* Mutant: a cache that refuses the entry fails the ingest.                *)
KeepParseOrRaise(t) ==
    /\ pc[t] = "set"
    /\ \/ /\ Put(ParseKey(hashed[t]), doc[t])
          /\ pc' = [pc EXCEPT ![t] = "find"]
          /\ UNCHANGED <<taskVars, result>>
       \/ UNCHANGED cache /\ Leave(t, "failed")
    /\ UNCHANGED <<stash, files, stored, saved>>

(* The cache takes the document under the hash of the bytes first read, or *)
(* does not.                                                               *)
KeepParse(t) ==
    /\ pc[t] = "set"
    /\ Put(ParseKey(hashed[t]), doc[t]) \/ UNCHANGED cache
    /\ pc' = [pc EXCEPT ![t] = "find"]
    /\ UNCHANGED <<stash, files, stored, saved, taskVars, result>>

(* find_by_hash found the document: the ingest is over.                    *)
Deduplicate(t) ==
    /\ pc[t] = "find"
    /\ Deduplicates /\ doc[t].content \in saved
    /\ Leave(t, "ok")
    /\ UNCHANGED <<cache, stash, files, stored, saved>>

Proceed(t) ==
    /\ pc[t] = "find"
    /\ ~(Deduplicates /\ doc[t].content \in saved)
    /\ pc' = [pc EXCEPT ![t] = "resolve"]
    /\ UNCHANGED <<cache, stash, files, stored, saved, taskVars, result>>

(* Mutant: the chunker reads its pages and leaves the stash alone.         *)
ChunkFromStash(t) ==
    /\ pc[t] = "resolve"
    /\ \E r \in Readings(doc[t].format) : \E contextualize \in BOOLEAN :
         LET chunks == ChunksOf(doc[t], r, size[t])
         IN  /\ todo' = [todo EXCEPT ![t] = IF contextualize THEN chunks ELSE {}]
             /\ texts' = [texts EXCEPT ![t] = IF contextualize THEN {} ELSE Faithful(chunks)]
    /\ pc' = [pc EXCEPT ![t] = "context"]
    /\ UNCHANGED <<cache, stash, files, stored, saved, source, size, hashed, doc, result>>

(* The pages are transcribed and chunked, and the stash forgets them.      *)
(* Without IngestionConfig.contextualize a chunk is embedded as it is.     *)
ChunkPages(t) ==
    /\ pc[t] = "resolve"
    /\ \E r \in Readings(doc[t].format) : \E contextualize \in BOOLEAN :
         LET chunks == ChunksOf(doc[t], r, size[t])
         IN  /\ todo' = [todo EXCEPT ![t] = IF contextualize THEN chunks ELSE {}]
             /\ texts' = [texts EXCEPT ![t] = IF contextualize THEN {} ELSE Faithful(chunks)]
    /\ stash' = stash \ {doc[t].content}
    /\ pc' = [pc EXCEPT ![t] = "context"]
    /\ UNCHANGED <<cache, files, stored, saved, source, size, hashed, doc, result>>

(* The cache holds a text for the next chunk: it is embedded as it is.     *)
ContextHit(t) ==
    /\ pc[t] = "context"
    /\ \E k \in First(t) : \E e \in Entries(ContextKey(k)) :
         /\ texts' = [texts EXCEPT ![t] = @ \cup {[chunk |-> k, embed |-> e.value]}]
         /\ todo' = [todo EXCEPT ![t] = @ \ {k}]
    /\ UNCHANGED <<cache, stash, files, stored, saved, pc, source, size, hashed, doc, result>>

(* It holds none or is down: the contextualizer is asked.                  *)
ContextMiss(t) ==
    /\ pc[t] = "context" /\ todo[t] # {}
    /\ pc' = [pc EXCEPT ![t] = "keep"]
    /\ UNCHANGED <<cache, stash, files, stored, saved, taskVars, result>>

(* Its answer goes to the cache, which takes it or not, and to the chunk.  *)
KeepContext(t) ==
    /\ pc[t] = "keep"
    /\ \E k \in First(t) :
         /\ Put(ContextKey(k), k) \/ UNCHANGED cache
         /\ texts' = [texts EXCEPT ![t] = @ \cup {[chunk |-> k, embed |-> k]}]
         /\ todo' = [todo EXCEPT ![t] = @ \ {k}]
    /\ pc' = [pc EXCEPT ![t] = "context"]
    /\ UNCHANGED <<stash, files, stored, saved, source, size, hashed, doc, result>>

(* The texts are embedded, upserted, indexed and committed; a document     *)
(* without chunks replaces nothing.                                        *)
Store(t) ==
    /\ pc[t] = "context" /\ todo[t] = {}
    /\ stored' = [stored EXCEPT ![doc[t].content] = IF texts[t] = {} THEN @ ELSE texts[t]]
    /\ saved' = saved \cup {doc[t].content}
    /\ pc' = [pc EXCEPT ![t] = "stored"]
    /\ UNCHANGED <<cache, stash, files, taskVars, result>>

Return(t) ==
    /\ pc[t] = "stored"
    /\ Leave(t, "ok")
    /\ UNCHANGED <<cache, stash, files, stored, saved>>

(* A model, the store or the COMMIT raises, or the task is cancelled.      *)
Raise(t) ==
    /\ pc[t] # "idle"
    /\ Leave(t, "failed")
    /\ UNCHANGED <<cache, stash, files, stored, saved>>

-----------------------------------------------------------------------------
(* A file a path names is rewritten.                                       *)
RewriteFile(p, c) ==
    /\ files' = [files EXCEPT ![p] = c]
    /\ UNCHANGED <<cache, stash, stored, saved, pc, taskVars, result>>

(* What others may leave under a key: a parse that decodes or does not;    *)
(* any text at all where a context was, since no context is ever decoded.  *)
Overwrites(k) == IF k.kind = "parse" THEN Foreign \cup {Garbled} ELSE {Garbled}

(* The cache is shared: an entry is truncated or overwritten by others.    *)
Corrupt(k) ==
    /\ k.kind \in Corruptible
    /\ Entries(k) # {}
    /\ \E v \in Overwrites(k) : Put(k, v)
    /\ UNCHANGED <<stash, files, stored, saved, pc, taskVars, result>>

Step(t) ==
    \/ ParseHit(t) \/ ParseMiss(t) \/ ParseFails(t) \/ KeepParse(t)
    \/ Deduplicate(t) \/ Proceed(t) \/ ChunkPages(t)
    \/ ContextHit(t) \/ ContextMiss(t) \/ KeepContext(t)
    \/ Store(t) \/ Return(t)

Environment ==
    \/ \E p \in Path, c \in Content : RewriteFile(p, c)
    \/ \E e \in cache : Corrupt(e.key)

Smooth ==
    \/ \E t \in Task : Step(t) \/ \E s \in Source, z \in Size : Begin(t, s, z)
    \/ Environment

Next == Smooth \/ \E t \in Task : Raise(t)

Spec == Init /\ [][Next]_vars
-----------------------------------------------------------------------------
TypeOK ==
    /\ cache \subseteq [key : Key, value : Parsed \cup Chunk \cup {Garbled}]
    /\ stash \subseteq Content
    /\ files \in [Path -> Content]
    /\ stored \in [Content -> SUBSET Text]
    /\ saved \subseteq Content
    /\ pc \in [Task -> {"idle", "get", "set", "find", "resolve", "context", "keep", "stored"}]
    /\ source \in [Task -> Source \cup {None}]
    /\ size \in [Task -> Size \cup {None}]
    /\ hashed \in [Task -> Content \cup {None}]
    /\ doc \in [Task -> Parsed \cup {None}]
    /\ todo \in [Task -> SUBSET Chunk]
    /\ texts \in [Task -> SUBSET Text]
    /\ result \in [Task -> {"none", "ok", "failed"}]

HasDocument(t) == pc[t] \notin {"idle", "get"}

(* The formats in which some name of an ingest has these bytes read, or in  *)
(* which a foreign entry has them.                                         *)
Formats(c) ==
    {Route[n][c] : n \in Name} \cup {d.format : d \in {e \in Foreign : e.content = c}}

(* One text for each chunk, written for the chunk of its document with its *)
(* ordinal, or by whoever overwrote the entry.                             *)
OneTextEach(X) ==
    /\ \A x, y \in X : x.chunk = y.chunk => x = y
    /\ \A x \in X :
         \/ x.embed = Garbled /\ "ctx" \in Corruptible
         \/ x.embed.content = x.chunk.content /\ x.embed.ord = x.chunk.ord

(* All the chunks that one reading of c yields at one size, each once.     *)
IsWhole(X, c, z) ==
    /\ OneTextEach(X)
    /\ \E f \in Formats(c) : \E r \in Readings(f) :
          {x.chunk : x \in X} = ChunksOf([content |-> c, format |-> f], r, z)

(* What two ingests share in the cache never mixes in the store.  Whatever *)
(* the cache holds, loses, refuses or has overwritten, whatever names,     *)
(* sizes and readings the same bytes are ingested under, and whatever file *)
(* is rewritten meanwhile: the texts stored for a document are the chunks  *)
(* of one format, one reading and the size this ingest was given, none     *)
(* missing, each with one text, and that text is of the same document and  *)
(* ordinal unless it was overwritten (ingestion.py:149-227).               *)
StoresWholeDocuments ==
    [][\A c \in Content : stored'[c] # stored[c] =>
         \E t \in Task : pc[t] = "context" /\ pc'[t] = "stored"
                           /\ IsWhole(stored'[c], c, size[t])]_vars

(* An ingest of bytes in memory gets the document those bytes are: a parse *)
(* depends "only on the document's bytes and the parser reading them"      *)
(* (ingestion.py:146).  (Not so: a file rewritten between its hash and its *)
(* parse is cached under the old hash, and the entry of a foreign writer   *)
(* is not compared with its key.  No run checks it.)                       *)
DocumentsAreOfTheirBytes ==
    \A t \in Task : HasDocument(t) /\ source[t].content # None =>
                        doc[t].content = source[t].content

(* A document is read in the format its own name and bytes route it to: a  *)
(* cached parse is what the parser would return (ingestion.py:146).  (Not  *)
(* so: the key of a parse leaves out the name.  No run checks it.)         *)
FormatsFollowTheSource ==
    \A t \in Task : HasDocument(t) => doc[t].format = Route[source[t].name][doc[t].content]

(* The text a stored chunk is found by was written for that chunk, not for *)
(* one of another chunking with the same id ("there is no staleness for    *)
(* the key to guard against", caching.py:25).  (Not so: the key of a       *)
(* context leaves out the size and the reading.  No run checks it.)        *)
TextsAreOfTheirChunks ==
    \A c \in Content : \A x \in stored[c] : x.embed = x.chunk

(* Document c is parsed and not yet chunked, in some ingest.               *)
Stashing(t, c) == pc[t] \in {"set", "find", "resolve"} /\ doc[t].content = c

(* The stash holds a document no longer than the ingest that parsed it: it *)
(* is "discarded" so that "parsing does not retain pages for the backend's *)
(* lifetime" (backend.py:131).  (Not so: an ingest that ends between parse *)
(* and chunk leaves its own.  No run checks it; StashIsAccountedFor says   *)
(* what is true.)                                                          *)
StashIsInFlight == \A c \in stash : \E t \in Task : Stashing(t, c)

(* What the stash keeps without an ingest in flight (backend.py:84) was    *)
(* left there by one that ended, by an error, a cancellation or as a       *)
(* duplicate, before its chunking: an error after it (context, embedding,  *)
(* store) leaves nothing, and the next ingest that chunks the document     *)
(* takes away what earlier ones left.                                      *)
StashIsAccountedFor ==
    [][\A c \in stash' :
         \/ \E t \in Task : Stashing(t, c)'
         \/ c \in stash /\ \A t \in Task : ~Stashing(t, c)
         \/ \E t \in Task : Stashing(t, c) /\ pc'[t] = "idle"]_vars

(* A dead cache is a slowdown and not an outage: when nothing but the      *)
(* cache fails, every ingest of a known format succeeds.                   *)
IngestsSucceed ==
    \A t \in Task : pc[t] # "idle" ~> pc[t] = "idle" /\ result[t] = "ok"
=============================================================================
