-------------------------- MODULE IngestionProofs --------------------------
(***************************************************************************)
(* Proofs about Ingestion: its types, that what is stored is the whole of  *)
(* one document whatever the cache does, and who leaves what in the stash. *)
(***************************************************************************)
EXTENDS Ingestion, TLAPS

-----------------------------------------------------------------------------
(* The kind of a cache entry tells what is in it, and an ingest knows what *)
(* its place in the pipeline says it knows.                                *)
EntryInv ==
    \A e \in cache :
        /\ e.key \in Key
        /\ e.key.kind = "parse" => e.value \in Parsed \cup {Garbled}
        /\ e.key.kind = "ctx" => e.value \in Chunk \cup {Garbled}

PlaceInv ==
    \A t \in Task :
        /\ pc[t] # "idle" => source[t] \in Source /\ size[t] \in Size /\ hashed[t] \in Content
        /\ HasDocument(t) => doc[t] \in Parsed

TypeInv == TypeOK /\ EntryInv /\ PlaceInv

(* What a source reads as is bytes.                                        *)
LEMMA ReadType ==
    ASSUME files \in [Path -> Content], NEW s \in Source
    PROVE  Read(s) \in Content
BY ConstantsAssumption DEF Read, Source

LEMMA ChunksType ==
    ASSUME NEW d \in Parsed, NEW r \in Readings(d.format), NEW z \in Size
    PROVE  ChunksOf(d, r, z) \subseteq Chunk /\ Faithful(ChunksOf(d, r, z)) \subseteq Text
<1>1. r \in Reading \cup {None} /\ d.content \in Content /\ d.format \in Format
  BY DEF Readings, Parsed
<1>2. ChunksOf(d, r, z) \subseteq Chunk
  BY <1>1, ConstantsAssumption DEF ChunksOf, Chunk
<1>3. QED
  BY <1>2 DEF Faithful, Text

LEMMA KeyType ==
    /\ \A c \in Content : ParseKey(c) \in Key /\ ParseKey(c).kind = "parse"
    /\ \A k \in Chunk : ContextKey(k) \in Key /\ ContextKey(k).kind = "ctx"
BY DEF ParseKey, ContextKey, Key, Chunk

(* What is put under a key of its kind keeps the entries typed.            *)
LEMMA PutType ==
    ASSUME TypeInv, NEW k \in Key, NEW v, Put(k, v),
           \/ k.kind = "parse" /\ v \in Parsed \cup {Garbled}
           \/ k.kind = "ctx" /\ v \in Chunk \cup {Garbled}
    PROVE  /\ cache' \subseteq [key : Key, value : Parsed \cup Chunk \cup {Garbled}]
           /\ EntryInv'
<1>1. cache' = (cache \ Entries(k)) \cup {[key |-> k, value |-> v]}
  BY DEF Put
<1>2. EntryInv'
  BY <1>1 DEF TypeInv, EntryInv, Key
<1>3. QED
  BY <1>1, <1>2 DEF TypeInv, TypeOK

LEMMA TypeInit == Init => TypeInv
BY DEF Init, TypeInv, TypeOK, EntryInv, PlaceInv, HasDocument

LEMMA LeaveType ==
    ASSUME TypeInv, NEW t \in Task, NEW o \in {"ok", "failed"}, Leave(t, o),
           UNCHANGED <<cache, stash, files, stored, saved>>
    PROVE  TypeInv'
BY DEF Leave, TypeInv, TypeOK, EntryInv, PlaceInv, HasDocument

LEMMA TypeStep == TypeInv /\ [Next]_vars => TypeInv'
<1> SUFFICES ASSUME TypeInv, [Next]_vars
             PROVE  TypeInv'
  OBVIOUS
<1> USE DEF TypeInv, TypeOK, PlaceInv, HasDocument, taskVars
<1>1. ASSUME NEW t \in Task, NEW s \in Source, NEW z \in Size, Begin(t, s, z) PROVE TypeInv'
  <2>1. Read(s) \in Content
    BY ReadType
  <2>2. QED
    BY <1>1, <2>1 DEF Begin, EntryInv
<1>2. ASSUME NEW t \in Task, ParseHit(t) PROVE TypeInv'
  <2>1. PICK e \in Entries(ParseKey(hashed[t])) :
            Decodable(e.value) /\ doc' = [doc EXCEPT ![t] = e.value]
    BY <1>2 DEF ParseHit
  <2>2. e.value \in Parsed
    BY <1>2, <2>1, KeyType DEF ParseHit, EntryInv, Entries, Decodable
  <2>3. QED
    BY <1>2, <2>1, <2>2 DEF ParseHit, EntryInv
<1>3. ASSUME NEW t \in Task, ParseMiss(t) PROVE TypeInv'
  <2> DEFINE c == Read(source[t])
  <2>1. c \in Content
    BY <1>3, ReadType DEF ParseMiss
  <2>2. source[t].name \in Name
    BY <1>3 DEF ParseMiss, Source
  <2>3. Route[source[t].name][c] \in Format
    BY <1>3, <2>1, <2>2, ConstantsAssumption DEF ParseMiss
  <2>4. [content |-> c, format |-> Route[source[t].name][c]] \in Parsed
    BY <2>1, <2>3 DEF Parsed
  <2>5. QED
    BY <1>3, <2>1, <2>4 DEF ParseMiss, EntryInv
<1>4. ASSUME NEW t \in Task, ParseFails(t) PROVE TypeInv'
  BY <1>4, LeaveType DEF ParseFails
<1>5. ASSUME NEW t \in Task, KeepParse(t) PROVE TypeInv'
  <2>1. /\ cache' \subseteq [key : Key, value : Parsed \cup Chunk \cup {Garbled}]
        /\ EntryInv'
    <3>1. CASE Put(ParseKey(hashed[t]), doc[t])
      <4>1. hashed[t] \in Content /\ doc[t] \in Parsed
        BY <1>5 DEF KeepParse
      <4>2. QED
        BY <3>1, <4>1, KeyType, PutType
    <3>2. CASE UNCHANGED cache
      BY <3>2 DEF EntryInv
    <3>3. QED
      BY <1>5, <3>1, <3>2 DEF KeepParse
  <2>2. QED
    BY <1>5, <2>1 DEF KeepParse
<1>6. ASSUME NEW t \in Task, Deduplicate(t) PROVE TypeInv'
  BY <1>6, LeaveType DEF Deduplicate
<1>7. ASSUME NEW t \in Task, Proceed(t) PROVE TypeInv'
  BY <1>7 DEF Proceed, EntryInv
<1>8. ASSUME NEW t \in Task, ChunkPages(t) PROVE TypeInv'
  <2>1. PICK r \in Readings(doc[t].format), b \in BOOLEAN :
          /\ todo' = [todo EXCEPT ![t] = IF b THEN ChunksOf(doc[t], r, size[t]) ELSE {}]
          /\ texts' = [texts EXCEPT ![t] =
                          IF b THEN {} ELSE Faithful(ChunksOf(doc[t], r, size[t]))]
    BY <1>8 DEF ChunkPages
  <2>2. doc[t] \in Parsed /\ size[t] \in Size
    BY <1>8 DEF ChunkPages
  <2>3. /\ ChunksOf(doc[t], r, size[t]) \subseteq Chunk
        /\ Faithful(ChunksOf(doc[t], r, size[t])) \subseteq Text
    BY <2>2, ChunksType
  <2>4. todo' \in [Task -> SUBSET Chunk] /\ texts' \in [Task -> SUBSET Text]
    BY <2>1, <2>3
  <2>5. QED
    BY <1>8, <2>4 DEF ChunkPages, EntryInv
<1>9. ASSUME NEW t \in Task, ContextHit(t) PROVE TypeInv'
  <2>0. PICK k \in First(t) : \E e \in Entries(ContextKey(k)) :
          /\ texts' = [texts EXCEPT ![t] = texts[t] \cup {[chunk |-> k, embed |-> e.value]}]
          /\ todo' = [todo EXCEPT ![t] = todo[t] \ {k}]
    BY <1>9 DEF ContextHit
  <2>1. PICK e \in Entries(ContextKey(k)) :
          /\ texts' = [texts EXCEPT ![t] = texts[t] \cup {[chunk |-> k, embed |-> e.value]}]
          /\ todo' = [todo EXCEPT ![t] = todo[t] \ {k}]
    BY <2>0
  <2>2. k \in Chunk
    BY DEF First
  <2>3. e.value \in Chunk \cup {Garbled}
    BY <2>1, <2>2, KeyType DEF Entries, EntryInv
  <2>4. [chunk |-> k, embed |-> e.value] \in Text
    BY <2>2, <2>3 DEF Text
  <2>5. QED
    BY <1>9, <2>1, <2>4 DEF ContextHit, EntryInv
<1>10. ASSUME NEW t \in Task, ContextMiss(t) PROVE TypeInv'
  BY <1>10 DEF ContextMiss, EntryInv
<1>11. ASSUME NEW t \in Task, KeepContext(t) PROVE TypeInv'
  <2>1. PICK k \in First(t) :
          /\ Put(ContextKey(k), k) \/ UNCHANGED cache
          /\ texts' = [texts EXCEPT ![t] = texts[t] \cup {[chunk |-> k, embed |-> k]}]
          /\ todo' = [todo EXCEPT ![t] = todo[t] \ {k}]
    BY <1>11 DEF KeepContext
  <2>2. k \in Chunk
    BY DEF First
  <2>3. /\ cache' \subseteq [key : Key, value : Parsed \cup Chunk \cup {Garbled}]
        /\ EntryInv'
    <3>1. CASE Put(ContextKey(k), k)
      BY <2>2, <3>1, KeyType, PutType
    <3>2. CASE UNCHANGED cache
      BY <3>2 DEF EntryInv
    <3>3. QED
      BY <2>1, <3>1, <3>2
  <2>4. [chunk |-> k, embed |-> k] \in Text
    BY <2>2 DEF Text
  <2>5. QED
    BY <1>11, <2>1, <2>3, <2>4 DEF KeepContext
<1>12. ASSUME NEW t \in Task, Store(t) PROVE TypeInv'
  <2>1. doc[t].content \in Content
    BY <1>12 DEF Store, Parsed
  <2>2. QED
    BY <1>12, <2>1 DEF Store, EntryInv
<1>13. ASSUME NEW t \in Task, Return(t) PROVE TypeInv'
  BY <1>13, LeaveType DEF Return
<1>14. ASSUME NEW t \in Task, Raise(t) PROVE TypeInv'
  BY <1>14, LeaveType DEF Raise
<1>15. ASSUME NEW p \in Path, NEW c \in Content, RewriteFile(p, c) PROVE TypeInv'
  BY <1>15 DEF RewriteFile, EntryInv
<1>16. ASSUME NEW e \in cache, Corrupt(e.key) PROVE TypeInv'
  <2>1. e.key \in Key /\ e.key.kind \in {"parse", "ctx"}
    BY DEF Key
  <2>2. PICK v \in Overwrites(e.key) : Put(e.key, v)
    BY <1>16 DEF Corrupt
  <2>3. Foreign \subseteq Parsed
    BY ConstantsAssumption DEF Parsed
  <2>4. QED
    BY <1>16, <2>1, <2>2, <2>3, PutType DEF Corrupt, Overwrites
<1>17. CASE UNCHANGED vars
  BY <1>17 DEF vars, EntryInv
<1>18. QED
  BY <1>1, <1>2, <1>3, <1>4, <1>5, <1>6, <1>7, <1>8, <1>9, <1>10, <1>11, <1>12, <1>13, <1>14,
     <1>15, <1>16, <1>17 DEF Next, Smooth, Environment, Step

(* Every variable keeps its type: an entry of the cache is never taken for *)
(* one of the other kind, and a garbled one never becomes a document.      *)
THEOREM TypeCorrect == Spec => []TypeOK
<1>1. TypeInv => TypeOK
  BY DEF TypeInv
<1>2. QED
  BY <1>1, TypeInit, TypeStep, PTL DEF Spec

-----------------------------------------------------------------------------
(* A document in a format its bytes may be read in.                        *)
IsRead(d) == d \in Parsed /\ d.format \in Formats(d.content)

(* Every parse in the cache is a document somebody read, not always of the *)
(* bytes of its key; every context is of its document and ordinal.         *)
CacheInv ==
    \A e \in cache :
        /\ e.key.kind = "parse" => e.value = Garbled \/ IsRead(e.value)
        /\ e.key.kind = "ctx" =>
              \/ e.value = Garbled /\ "ctx" \in Corruptible
              \/ e.value.content = e.key.content /\ e.value.ord = e.key.ord

(* An ingest has, of one chunking of its document, the texts of the chunks *)
(* that are not to do.                                                     *)
HasTexts(t) ==
    /\ OneTextEach(texts[t])
    /\ \E r \in Readings(doc[t].format) :
          /\ todo[t] \subseteq ChunksOf(doc[t], r, size[t])
          /\ {x.chunk : x \in texts[t]} = ChunksOf(doc[t], r, size[t]) \ todo[t]

TaskInv ==
    \A t \in Task :
        /\ HasDocument(t) => IsRead(doc[t])
        /\ pc[t] \in {"context", "keep"} => HasTexts(t)

WholeInv == TypeInv /\ CacheInv /\ TaskInv

(* The texts of chunks that are embedded as they are.                      *)
LEMMA FaithfulTexts ==
    ASSUME NEW C
    PROVE  OneTextEach(Faithful(C)) /\ {x.chunk : x \in Faithful(C)} = C
<1>1. \A x \in Faithful(C) : x.chunk \in C /\ x = [chunk |-> x.chunk, embed |-> x.chunk]
  BY DEF Faithful
<1>2. ASSUME NEW k \in C PROVE \E x \in Faithful(C) : x.chunk = k
  <2>1. [chunk |-> k, embed |-> k] \in Faithful(C)
    BY DEF Faithful
  <2>2. QED
    BY <2>1
<1>3. OneTextEach(Faithful(C))
  BY <1>1 DEF OneTextEach
<1>4. QED
  BY <1>1, <1>2, <1>3

(* One more chunk gets its text.                                           *)
LEMMA TextsGrow ==
    ASSUME NEW X, OneTextEach(X), NEW k, NEW w, k \notin {x.chunk : x \in X},
           \/ w = Garbled /\ "ctx" \in Corruptible
           \/ w.content = k.content /\ w.ord = k.ord,
           NEW Y, Y = X \cup {[chunk |-> k, embed |-> w]}
    PROVE  OneTextEach(Y) /\ {y.chunk : y \in Y} = {x.chunk : x \in X} \cup {k}
<1> DEFINE n == [chunk |-> k, embed |-> w]
<1>1. n.chunk = k /\ n.embed = w /\ Y = X \cup {n}
  OBVIOUS
<1>2. \A x \in X : x.chunk # k
  OBVIOUS
<1> HIDE DEF n
<1>3. {y.chunk : y \in Y} = {x.chunk : x \in X} \cup {k}
  BY <1>1
<1>4. \A x, y \in Y : x.chunk = y.chunk => x = y
  BY <1>1, <1>2 DEF OneTextEach
<1>5. \A x \in Y : \/ x.embed = Garbled /\ "ctx" \in Corruptible
                   \/ x.embed.content = x.chunk.content /\ x.embed.ord = x.chunk.ord
  <2>1. TAKE x \in Y
  <2>2. CASE x = n
    BY <1>1, <2>2
  <2>3. CASE x \in X
    BY <2>3 DEF OneTextEach
  <2>4. QED
    BY <1>1, <2>2, <2>3
<1>6. QED
  BY <1>3, <1>4, <1>5 DEF OneTextEach

LEMMA WholeInit == Init => WholeInv
BY TypeInit DEF Init, WholeInv, CacheInv, TaskInv, HasDocument

(* A step of task t alone.                                                 *)
LEMMA OthersKeep ==
    ASSUME WholeInv, TypeInv', NEW t \in Task, CacheInv',
           \A u \in Task \ {t} :
              /\ pc'[u] = pc[u] /\ doc'[u] = doc[u] /\ size'[u] = size[u]
              /\ todo'[u] = todo[u] /\ texts'[u] = texts[u],
           HasDocument(t)' => IsRead(doc[t])',
           pc'[t] \in {"context", "keep"} => HasTexts(t)'
    PROVE  WholeInv'
<1>1. ASSUME NEW u \in Task \ {t}
      PROVE  /\ HasDocument(u)' => IsRead(doc[u])'
             /\ pc'[u] \in {"context", "keep"} => HasTexts(u)'
  <2>1. /\ HasDocument(u) => IsRead(doc[u])
        /\ pc[u] \in {"context", "keep"} => HasTexts(u)
    BY DEF WholeInv, TaskInv
  <2>2. HasTexts(u)' <=> HasTexts(u)
    BY DEF HasTexts
  <2>3. HasDocument(u)' <=> HasDocument(u)
    BY DEF HasDocument
  <2>4. QED
    BY <2>1, <2>2, <2>3
<1>2. QED
  BY <1>1 DEF WholeInv, TaskInv

LEMMA LeaveWhole ==
    ASSUME WholeInv, TypeInv', NEW t \in Task, NEW o, Leave(t, o), UNCHANGED cache
    PROVE  WholeInv'
<1>1. CacheInv'
  BY DEF WholeInv, CacheInv
<1>2. pc'[t] = "idle"
  BY DEF Leave, WholeInv, TypeInv, TypeOK
<1>3. QED
  BY <1>1, <1>2, OthersKeep DEF Leave, WholeInv, TypeInv, TypeOK, HasDocument

LEMMA WholeStep == ASSUME WholeInv, [Next]_vars PROVE WholeInv'
<1> USE DEF HasDocument, taskVars
<1>0. TypeInv' /\ TypeInv /\ CacheInv /\ TaskInv
  BY TypeStep DEF WholeInv
<1>a. ASSUME cache' = cache PROVE CacheInv'
  BY <1>0, <1>a DEF CacheInv
<1>1. ASSUME NEW t \in Task, NEW s \in Source, NEW z \in Size, Begin(t, s, z) PROVE WholeInv'
  <2>1. pc'[t] = "get"
    BY <1>0, <1>1 DEF Begin, TypeInv, TypeOK
  <2>2. QED
    BY <1>0, <1>1, <1>a, <2>1, OthersKeep DEF Begin
<1>2. ASSUME NEW t \in Task, ParseHit(t) PROVE WholeInv'
  <2>1. PICK e \in Entries(ParseKey(hashed[t])) :
            Decodable(e.value) /\ doc' = [doc EXCEPT ![t] = e.value]
    BY <1>2 DEF ParseHit
  <2>2. e \in cache /\ e.key.kind = "parse"
    BY <2>1 DEF Entries, ParseKey
  <2>3. IsRead(e.value)
    BY <1>0, <2>1, <2>2 DEF CacheInv, Decodable
  <2>4. IsRead(doc[t])' /\ pc'[t] = "find"
    BY <1>0, <1>2, <2>1, <2>3 DEF ParseHit, TypeInv, TypeOK
  <2>5. QED
    BY <1>0, <1>2, <1>a, <2>4, OthersKeep DEF ParseHit
<1>3. ASSUME NEW t \in Task, ParseMiss(t) PROVE WholeInv'
  <2> DEFINE c == Read(source[t])
             f == Route[source[t].name][c]
  <2>1. c \in Content /\ source[t].name \in Name
    BY <1>0, <1>3, ReadType DEF ParseMiss, TypeInv, TypeOK, PlaceInv, Source
  <2>2. f \in Format /\ f \in Formats(c)
    BY <1>3, <2>1, ConstantsAssumption DEF ParseMiss, Formats
  <2>3. doc'[t] = [content |-> c, format |-> f] /\ pc'[t] = "set"
    BY <1>0, <1>3 DEF ParseMiss, TypeInv, TypeOK
  <2>4. IsRead(doc[t])'
    <3>1. IsRead([content |-> c, format |-> f])
      BY <2>1, <2>2 DEF IsRead, Parsed
    <3>2. QED
      BY <2>3, <3>1
  <2>5. QED
    BY <1>0, <1>3, <1>a, <2>3, <2>4, OthersKeep DEF ParseMiss
<1>4. ASSUME NEW t \in Task, ParseFails(t) PROVE WholeInv'
  BY <1>0, <1>4, LeaveWhole DEF ParseFails
<1>5. ASSUME NEW t \in Task, KeepParse(t) PROVE WholeInv'
  <2>1. IsRead(doc[t]) /\ pc[t] = "set" /\ pc'[t] = "find" /\ doc' = doc
    BY <1>0, <1>5 DEF KeepParse, TaskInv, TypeInv, TypeOK
  <2>2. CacheInv'
    <3>1. ASSUME Put(ParseKey(hashed[t]), doc[t]) PROVE CacheInv'
      BY <1>0, <2>1, <3>1 DEF Put, CacheInv, ParseKey
    <3>2. QED
      BY <1>5, <1>a, <3>1 DEF KeepParse
  <2>3. QED
    BY <1>0, <1>5, <2>1, <2>2, OthersKeep DEF KeepParse
<1>6. ASSUME NEW t \in Task, Deduplicate(t) PROVE WholeInv'
  BY <1>0, <1>6, LeaveWhole DEF Deduplicate
<1>7. ASSUME NEW t \in Task, Proceed(t) PROVE WholeInv'
  <2>1. IsRead(doc[t])' /\ pc'[t] = "resolve"
    BY <1>0, <1>7 DEF Proceed, TaskInv, TypeInv, TypeOK
  <2>2. QED
    BY <1>0, <1>7, <1>a, <2>1, OthersKeep DEF Proceed
<1>8. ASSUME NEW t \in Task, ChunkPages(t) PROVE WholeInv'
  <2>1. IsRead(doc[t])'
    BY <1>0, <1>8 DEF ChunkPages, TaskInv
  <2>2. PICK r \in Readings(doc[t].format), b \in BOOLEAN :
          /\ todo' = [todo EXCEPT ![t] = IF b THEN ChunksOf(doc[t], r, size[t]) ELSE {}]
          /\ texts' = [texts EXCEPT ![t] =
                          IF b THEN {} ELSE Faithful(ChunksOf(doc[t], r, size[t]))]
    BY <1>8 DEF ChunkPages
  <2> DEFINE C == ChunksOf(doc[t], r, size[t])
  <2>3. /\ todo'[t] \subseteq C /\ OneTextEach(texts'[t])
        /\ {x.chunk : x \in texts'[t]} = C \ todo'[t]
    <3>1. /\ todo'[t] = IF b THEN C ELSE {}
          /\ texts'[t] = IF b THEN {} ELSE Faithful(C)
      BY <1>0, <2>2 DEF TypeInv, TypeOK
    <3> HIDE DEF C
    <3>2. OneTextEach(Faithful(C)) /\ {x.chunk : x \in Faithful(C)} = C
      BY FaithfulTexts
    <3>3. OneTextEach({})
      BY DEF OneTextEach
    <3>4. QED
      BY <3>1, <3>2, <3>3
  <2>4. doc' = doc /\ size' = size
    BY <1>8 DEF ChunkPages
  <2>5. HasTexts(t)'
    BY <2>3, <2>4 DEF HasTexts
  <2>6. QED
    BY <1>0, <1>8, <1>a, <2>1, <2>5, OthersKeep DEF ChunkPages
<1>9. ASSUME NEW t \in Task, NEW k \in First(t), NEW w,
             \/ w = Garbled /\ "ctx" \in Corruptible
             \/ w.content = k.content /\ w.ord = k.ord,
             texts' = [texts EXCEPT ![t] = texts[t] \cup {[chunk |-> k, embed |-> w]}],
             todo' = [todo EXCEPT ![t] = todo[t] \ {k}],
             pc[t] \in {"context", "keep"}, UNCHANGED <<doc, size>>
      PROVE  HasTexts(t)'
  <2>1. PICK r \in Readings(doc[t].format) :
          /\ todo[t] \subseteq ChunksOf(doc[t], r, size[t])
          /\ {x.chunk : x \in texts[t]} = ChunksOf(doc[t], r, size[t]) \ todo[t]
    BY <1>0, <1>9 DEF TaskInv, HasTexts
  <2> DEFINE C == ChunksOf(doc[t], r, size[t])
             X == texts[t]
  <2>2. OneTextEach(X) /\ k \in todo[t] /\ todo[t] \subseteq C
        /\ {x.chunk : x \in X} = C \ todo[t]
    BY <1>0, <1>9, <2>1 DEF TaskInv, HasTexts, First
  <2>3. texts'[t] = X \cup {[chunk |-> k, embed |-> w]} /\ todo'[t] = todo[t] \ {k}
    BY <1>0, <1>9 DEF TypeInv, TypeOK
  <2> HIDE DEF C, X
  <2>4. OneTextEach(texts'[t]) /\ {y.chunk : y \in texts'[t]} = {x.chunk : x \in X} \cup {k}
    <3>1. k \notin {x.chunk : x \in X}
      BY <2>2
    <3>2. texts'[t] = X \cup {[chunk |-> k, embed |-> w]} /\ OneTextEach(X)
      BY <2>2, <2>3
    <3> DEFINE Y == texts'[t]
    <3> HIDE DEF Y
    <3>3. Y = X \cup {[chunk |-> k, embed |-> w]}
      BY <3>2 DEF Y
    <3>4. OneTextEach(Y) /\ {y.chunk : y \in Y} = {x.chunk : x \in X} \cup {k}
      BY ONLY <1>9, <3>1, <3>2, <3>3, TextsGrow
    <3>5. QED
      BY <3>4 DEF Y
  <2>5. todo'[t] \subseteq C /\ {y.chunk : y \in texts'[t]} = C \ todo'[t]
    BY ONLY <2>2, <2>3, <2>4
  <2>6. QED
    BY <1>9, <2>4, <2>5 DEF HasTexts, C
<1>10. ASSUME NEW t \in Task, ContextHit(t) PROVE WholeInv'
  <2>1. PICK k \in First(t) : \E e \in Entries(ContextKey(k)) :
          /\ texts' = [texts EXCEPT ![t] = texts[t] \cup {[chunk |-> k, embed |-> e.value]}]
          /\ todo' = [todo EXCEPT ![t] = todo[t] \ {k}]
    BY <1>10 DEF ContextHit
  <2>2. PICK e \in Entries(ContextKey(k)) :
          /\ texts' = [texts EXCEPT ![t] = texts[t] \cup {[chunk |-> k, embed |-> e.value]}]
          /\ todo' = [todo EXCEPT ![t] = todo[t] \ {k}]
    BY <2>1
  <2>3. e \in cache /\ e.key = ContextKey(k)
    BY DEF Entries
  <2>4. \/ e.value = Garbled /\ "ctx" \in Corruptible
        \/ e.value.content = k.content /\ e.value.ord = k.ord
    BY <1>0, <2>3 DEF CacheInv, ContextKey
  <2>5. HasTexts(t)'
    BY <1>9, <1>10, <2>2, <2>4 DEF ContextHit
  <2>6. IsRead(doc[t])' /\ pc' = pc
    BY <1>0, <1>10 DEF ContextHit, TaskInv
  <2>7. QED
    BY <1>0, <1>10, <1>a, <2>5, <2>6, OthersKeep DEF ContextHit
<1>11. ASSUME NEW t \in Task, ContextMiss(t) PROVE WholeInv'
  <2>1. pc'[t] = "keep" /\ IsRead(doc[t])' /\ HasTexts(t)'
    BY <1>0, <1>11 DEF ContextMiss, TaskInv, HasTexts, TypeInv, TypeOK
  <2>2. QED
    BY <1>0, <1>11, <1>a, <2>1, OthersKeep DEF ContextMiss
<1>12. ASSUME NEW t \in Task, KeepContext(t) PROVE WholeInv'
  <2>1. PICK k \in First(t) :
          /\ Put(ContextKey(k), k) \/ UNCHANGED cache
          /\ texts' = [texts EXCEPT ![t] = texts[t] \cup {[chunk |-> k, embed |-> k]}]
          /\ todo' = [todo EXCEPT ![t] = todo[t] \ {k}]
    BY <1>12 DEF KeepContext
  <2>2. pc[t] = "keep"
    BY <1>12 DEF KeepContext
  <2>3. CacheInv'
    <3>1. ASSUME Put(ContextKey(k), k) PROVE CacheInv'
      BY <1>0, <3>1 DEF Put, CacheInv, ContextKey
    <3>2. QED
      BY <1>a, <2>1, <3>1
  <2>4. HasTexts(t)'
    BY <1>9, <1>12, <2>1, <2>2 DEF KeepContext
  <2>5. IsRead(doc[t])' /\ pc'[t] = "context"
    BY <1>0, <1>12, <2>2 DEF KeepContext, TaskInv, TypeInv, TypeOK
  <2>6. QED
    BY <1>0, <1>12, <2>3, <2>4, <2>5, OthersKeep DEF KeepContext
<1>13. ASSUME NEW t \in Task, Store(t) PROVE WholeInv'
  <2>1. pc'[t] = "stored" /\ IsRead(doc[t])'
    BY <1>0, <1>13 DEF Store, TaskInv, TypeInv, TypeOK
  <2>2. QED
    BY <1>0, <1>13, <1>a, <2>1, OthersKeep DEF Store
<1>14. ASSUME NEW t \in Task, Return(t) PROVE WholeInv'
  BY <1>0, <1>14, LeaveWhole DEF Return
<1>15. ASSUME NEW t \in Task, Raise(t) PROVE WholeInv'
  BY <1>0, <1>15, LeaveWhole DEF Raise
<1>b. ASSUME CacheInv', UNCHANGED <<pc, taskVars>> PROVE WholeInv'
  <2>1. TaskInv'
    BY <1>0, <1>b DEF TaskInv, HasTexts
  <2>2. QED
    BY <1>0, <1>b, <2>1 DEF WholeInv
<1>16. ASSUME NEW p \in Path, NEW c \in Content, RewriteFile(p, c) PROVE WholeInv'
  BY <1>16, <1>a, <1>b DEF RewriteFile
<1>17. ASSUME NEW e \in cache, Corrupt(e.key) PROVE WholeInv'
  <2>1. PICK v \in Overwrites(e.key) : Put(e.key, v)
    BY <1>17 DEF Corrupt
  <2>2. e.key.kind \in Corruptible
    BY <1>17 DEF Corrupt
  <2>3. \A d \in Foreign : IsRead(d)
    BY ConstantsAssumption DEF IsRead, Parsed, Formats
  <2>4. CacheInv'
    BY <1>0, <2>1, <2>2, <2>3 DEF Put, CacheInv, Overwrites
  <2>5. QED
    BY <1>17, <1>b, <2>4 DEF Corrupt
<1>18. ASSUME UNCHANGED vars PROVE WholeInv'
  BY <1>18, <1>a, <1>b DEF vars
<1>19. QED
  BY <1>1, <1>2, <1>3, <1>4, <1>5, <1>6, <1>7, <1>8, <1>10, <1>11, <1>12, <1>13, <1>14,
     <1>15, <1>16, <1>17, <1>18 DEF Next, Smooth, Environment, Step

(* For any tasks, names, files, sizes and readings, and whatever is lost   *)
(* from the cache, garbled there or replaced by another document: what an  *)
(* ingest stores for a document is one whole chunking of that document, at *)
(* its own size, each chunk with one text of its document and ordinal or   *)
(* one overwritten.                                                        *)
THEOREM WholeDocuments == Spec => StoresWholeDocuments
<1>1. Init => WholeInv
  BY WholeInit
<1>2. WholeInv /\ [Next]_vars => WholeInv'
  BY WholeStep
<1> DEFINE StoresWhole ==
      \A c \in Content : stored'[c] # stored[c] =>
         \E t \in Task : pc[t] = "context" /\ pc'[t] = "stored"
                           /\ IsWhole(stored'[c], c, size[t])
<1>3. WholeInv /\ [Next]_vars => [StoresWhole]_vars
  <2> SUFFICES ASSUME WholeInv, [Next]_vars, NEW c \in Content, stored'[c] # stored[c]
               PROVE  \E t \in Task : pc[t] = "context" /\ pc'[t] = "stored"
                                        /\ IsWhole(stored'[c], c, size[t])
    OBVIOUS
  <2>1. PICK t \in Task : Store(t)
    BY DEF Next, Smooth, Environment, Step, vars, taskVars, Begin, ParseHit, ParseMiss, ParseFails,
           KeepParse, Deduplicate, Proceed, ChunkPages, ContextHit, ContextMiss, KeepContext,
           Return, Raise, RewriteFile, Corrupt
  <2>2. pc[t] = "context" /\ pc'[t] = "stored" /\ todo[t] = {}
    BY <2>1 DEF Store, WholeInv, TypeInv, TypeOK
  <2>3. c = doc[t].content /\ stored'[c] = texts[t]
    BY <2>1 DEF Store, WholeInv, TypeInv, TypeOK
  <2>4. IsRead(doc[t]) /\ HasTexts(t)
    BY <2>2 DEF WholeInv, TaskInv, HasDocument
  <2>5. doc[t] = [content |-> c, format |-> doc[t].format] /\ doc[t].format \in Formats(c)
    BY <2>3, <2>4 DEF IsRead, Parsed
  <2>6. PICK r \in Readings(doc[t].format) :
            {x.chunk : x \in texts[t]} = ChunksOf(doc[t], r, size[t]) \ todo[t]
    BY <2>4 DEF HasTexts
  <2>7. {x.chunk : x \in stored'[c]} = ChunksOf([content |-> c, format |-> doc[t].format], r, size[t])
    BY <2>2, <2>3, <2>5, <2>6
  <2>8. IsWhole(stored'[c], c, size[t])
    BY <2>3, <2>4, <2>5, <2>6, <2>7 DEF IsWhole, HasTexts
  <2>9. QED
    BY <2>2, <2>8
<1>4. QED
  BY <1>1, <1>2, <1>3, PTL DEF Spec, StoresWholeDocuments

-----------------------------------------------------------------------------
(* The stash.                                                              *)
AccountsFor(c) ==
    \/ \E t \in Task : Stashing(t, c)'
    \/ c \in stash /\ \A t \in Task : ~Stashing(t, c)
    \/ \E t \in Task : Stashing(t, c) /\ pc'[t] = "idle"

(* A step of one task that adds nothing to the stash, and that ends, keeps *)
(* its document before the chunker, or takes it out of the stash.          *)
LEMMA TaskAccounts ==
    ASSUME TypeOK, NEW t \in Task, NEW c \in stash', stash' \subseteq stash,
           \A o \in Task \ {t} : pc'[o] = pc[o] /\ doc'[o] = doc[o],
           \/ pc[t] \notin {"set", "find", "resolve"}
           \/ pc'[t] = "idle"
           \/ pc'[t] \in {"set", "find", "resolve"} /\ doc'[t] = doc[t]
           \/ doc[t].content \notin stash'
    PROVE  AccountsFor(c)
<1>1. c \in stash
  OBVIOUS
<1>2. CASE \A o \in Task : ~Stashing(o, c)
  BY <1>1, <1>2 DEF AccountsFor
<1>3. ASSUME NEW o \in Task, Stashing(o, c) PROVE AccountsFor(c)
  <2>1. CASE o = t
    BY <1>3, <2>1 DEF AccountsFor, Stashing
  <2>2. CASE o # t
    BY <1>3, <2>2 DEF AccountsFor, Stashing
  <2>3. QED
    BY <2>1, <2>2
<1>4. QED
  BY <1>2, <1>3

LEMMA StashStep ==
    ASSUME TypeOK, [Next]_vars, NEW c \in stash'
    PROVE  AccountsFor(c) \/ UNCHANGED vars
<1> USE DEF TypeOK, taskVars
<1>1. ASSUME NEW t \in Task, NEW s \in Source, NEW z \in Size, Begin(t, s, z)
      PROVE  AccountsFor(c)
  BY <1>1, TaskAccounts DEF Begin
<1>2. ASSUME NEW t \in Task, ParseHit(t) PROVE AccountsFor(c)
  BY <1>2, TaskAccounts DEF ParseHit
<1>3. ASSUME NEW t \in Task, ParseMiss(t) PROVE AccountsFor(c)
  <2>1. /\ pc'[t] = "set" /\ pc[t] = "get"
        /\ stash' = stash \cup {Read(source[t])}
        /\ doc'[t].content = Read(source[t])
        /\ \A o \in Task \ {t} : pc'[o] = pc[o] /\ doc'[o] = doc[o]
    BY <1>3 DEF ParseMiss
  <2>2. CASE c = Read(source[t])
    BY <2>1, <2>2 DEF AccountsFor, Stashing
  <2>3. CASE c \in stash
    <3>1. CASE \A o \in Task : ~Stashing(o, c)
      BY <2>3, <3>1 DEF AccountsFor
    <3>2. ASSUME NEW o \in Task, Stashing(o, c) PROVE AccountsFor(c)
      BY <2>1, <3>2 DEF AccountsFor, Stashing
    <3>3. QED
      BY <3>1, <3>2
  <2>4. QED
    BY <2>1, <2>2, <2>3
<1>4. ASSUME NEW t \in Task, ParseFails(t) PROVE AccountsFor(c)
  BY <1>4, TaskAccounts DEF ParseFails, Leave
<1>5. ASSUME NEW t \in Task, KeepParse(t) PROVE AccountsFor(c)
  BY <1>5, TaskAccounts DEF KeepParse
<1>6. ASSUME NEW t \in Task, Deduplicate(t) PROVE AccountsFor(c)
  BY <1>6, TaskAccounts DEF Deduplicate, Leave
<1>7. ASSUME NEW t \in Task, Proceed(t) PROVE AccountsFor(c)
  BY <1>7, TaskAccounts DEF Proceed
<1>8. ASSUME NEW t \in Task, ChunkPages(t) PROVE AccountsFor(c)
  <2>1. /\ stash' = stash \ {doc[t].content} /\ doc' = doc
        /\ pc' = [pc EXCEPT ![t] = "context"]
    BY <1>8 DEF ChunkPages
  <2>2. QED
    BY <2>1, TaskAccounts
<1>9. ASSUME NEW t \in Task, ContextHit(t) PROVE AccountsFor(c)
  <2>1. UNCHANGED <<stash, pc, doc>> /\ pc[t] = "context"
    BY <1>9 DEF ContextHit
  <2>2. QED
    BY <2>1, TaskAccounts
<1>10. ASSUME NEW t \in Task, ContextMiss(t) PROVE AccountsFor(c)
  BY <1>10, TaskAccounts DEF ContextMiss
<1>11. ASSUME NEW t \in Task, KeepContext(t) PROVE AccountsFor(c)
  <2>1. /\ UNCHANGED <<stash, doc>> /\ pc[t] = "keep"
        /\ pc' = [pc EXCEPT ![t] = "context"]
    BY <1>11 DEF KeepContext
  <2>2. QED
    BY <2>1, TaskAccounts
<1>12. ASSUME NEW t \in Task, Store(t) PROVE AccountsFor(c)
  BY <1>12, TaskAccounts DEF Store
<1>13. ASSUME NEW t \in Task, Return(t) PROVE AccountsFor(c)
  BY <1>13, TaskAccounts DEF Return, Leave
<1>14. ASSUME NEW t \in Task, Raise(t) PROVE AccountsFor(c)
  BY <1>14, TaskAccounts DEF Raise, Leave
<1>15. ASSUME UNCHANGED <<stash, pc, doc>> PROVE AccountsFor(c)
  BY <1>15 DEF AccountsFor, Stashing
<1>16. ASSUME NEW p \in Path, NEW b \in Content, RewriteFile(p, b) PROVE AccountsFor(c)
  BY <1>15, <1>16 DEF RewriteFile
<1>17. ASSUME NEW e \in cache, Corrupt(e.key) PROVE AccountsFor(c)
  BY <1>15, <1>17 DEF Corrupt
<1>18. QED
  BY <1>1, <1>2, <1>3, <1>4, <1>5, <1>6, <1>7, <1>8, <1>9, <1>10, <1>11, <1>12, <1>13,
     <1>14, <1>16, <1>17 DEF Next, Smooth, Step, Environment

(* HeuristicBackend._parsed keeps, beside the documents that an ingest has *)
(* parsed and not yet chunked, only those whose ingest ended in between:   *)
(* by an error, a cancellation or as a duplicate.  Any ingest that gets to *)
(* chunk the document removes it, and nothing that fails later brings it   *)
(* back.                                                                   *)
THEOREM StashAccounted == Spec => StashIsAccountedFor
<1>1. TypeOK /\ [Next]_vars => [\A c \in stash' : AccountsFor(c)]_vars
  BY StashStep
<1>2. QED
  BY <1>1, TypeCorrect, PTL DEF Spec, StashIsAccountedFor, AccountsFor
=============================================================================
