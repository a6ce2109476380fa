------------------------- MODULE ScopedStoreProofs -------------------------
(***************************************************************************)
(* Proofs about ScopedStore, for every number of sessions, connections,    *)
(* namespaces, documents and chunkings.                                    *)
(***************************************************************************)
EXTENDS ScopedStore, TLAPS

(***************************************************************************)
(* Rows and statements.                                                    *)
(***************************************************************************)

(* The chunks of a document are a set of records.                          *)
LEMMA RowsOfMember ==
    ASSUME NEW n, NEW D, NEW x, NEW r
    PROVE  r \in RowsOf(n, D, x) <=>
             \E d \in D : \E i \in 0..(ChunkCount[x] - 1) :
                r = [ns |-> n, doc |-> d, ord |-> i, chunking |-> x]
BY DEF RowsOf

(* An ingest inserts rows of the table.                                    *)
LEMMA IncomingRows ==
    ASSUME NEW s \in Session, call[s] \in Ingests
    PROVE  Incoming(s) \subseteq Row
<1>1. ChunkCount[call[s].chunking] \in Nat
  BY ChunkCountAssumption DEF Ingests
<1>2. QED
  BY <1>1, RowsOfMember DEF Incoming, Row, Ingests

(* The operation of a call tells which kind of call it is.                 *)
LEMMA CallKinds ==
    ASSUME NEW k \in Call
    PROVE  /\ k.op \in {"ingest", "delete", "purge", "query"}
           /\ k.op = "ingest" <=> k \in Ingests
           /\ k.ns \in Namespace
           /\ k.docs \subseteq Document
BY DEF Call, Ingests, Deletes, Purges, Queries

(* An INSERT is the last statement of an ingest, and a query only searches. *)
LEMMA StatementKinds ==
    ASSUME NEW k \in Call, NEW n
    PROVE  /\ Statement(k, n) = "insert" => k \in Ingests /\ n = 1
           /\ Statement(k, n) = "search" <=> k.op = "query"
BY CallKinds DEF Statement

LEMMA StatementCountsRange ==
    ASSUME NEW k \in Call
    PROVE  StatementCounts(k) \subseteq 0..3
BY CallKinds DEF StatementCounts, Replacements, Deletions, Searches

(***************************************************************************)
(* Types, with what a session's place in its call says about the rest of   *)
(* its state.                                                              *)
(***************************************************************************)
Connected == {"role", "bind", "run", "deleting", "committed"}

PlaceInv ==
    \A s \in Session :
        /\ pc[s] = "idle" <=> call[s] = None
        /\ pc[s] \in Connected => held[s] # None
        /\ pc[s] \in {"idle", "queued"} => held[s] = None
        /\ pc[s] \in {"idle", "queued", "role", "bind", "committed"} =>
              deleted[s] = {} /\ inserted[s] = {}
        /\ pc[s] \notin {"deleting", "closing"} => target[s] = {}
        /\ pc[s] = "idle" => seen[s] = {}
        /\ pc[s] = "deleting" => left[s] > 0 /\ Statement(call[s], left[s]) = "delete"

TypeInv == TypeOK /\ PlaceInv

LEMMA SnapshotRows ==
    ASSUME TypeOK, NEW s \in Session
    PROVE  /\ Snapshot(s) \subseteq Row
           /\ Doomed(s) \subseteq Row
           /\ Found(s) \subseteq Row
BY DEF Snapshot, Doomed, Found, TypeOK

LEMMA TypeInit == Init => TypeInv
BY DEF Init, TypeInv, TypeOK, PlaceInv, Connected

LEMMA TypeStep == TypeInv /\ [Next]_vars => TypeInv'
<1> SUFFICES ASSUME TypeInv, [Next]_vars
             PROVE  TypeInv'
  OBVIOUS
<1> USE DEF TypeInv, TypeOK, PlaceInv, Connected, pinVars, txnVars
<1>1. ASSUME NEW s \in Session, NEW k \in Call, Begin(s, k) PROVE TypeInv'
  BY <1>1, StatementCountsRange, NoneAssumption DEF Begin
<1>2. ASSUME NEW s \in Session, Checkout(s) PROVE TypeInv'
  BY <1>2, ConnAssumption DEF Checkout
<1>3. ASSUME NEW s \in Session, SetRole(s) PROVE TypeInv'
  BY <1>3 DEF SetRole
<1>4. ASSUME NEW s \in Session, Bind(s) PROVE TypeInv'
  BY <1>4, CallKinds DEF Bind
<1>5. ASSUME NEW s \in Session, Search(s) PROVE TypeInv'
  BY <1>5, SnapshotRows DEF Search, NextStatement
<1>6. ASSUME NEW s \in Session, BeginDelete(s) PROVE TypeInv'
  BY <1>6, SnapshotRows DEF BeginDelete, NextStatement
<1>7. ASSUME NEW s \in Session, FinishDelete(s) PROVE TypeInv'
  BY <1>7 DEF FinishDelete
<1>8. ASSUME NEW s \in Session, Insert(s) PROVE TypeInv'
  <2>1. Incoming(s) \subseteq Row
    BY <1>8, IncomingRows, StatementKinds DEF Insert, NextStatement
  <2>2. QED
    BY <1>8, <2>1 DEF Insert, NextStatement
<1>9. ASSUME NEW s \in Session, InsertFails(s) PROVE TypeInv'
  BY <1>9 DEF InsertFails, NextStatement
<1>10. ASSUME NEW s \in Session, Commit(s) PROVE TypeInv'
  <2>1. /\ rows' \subseteq Row
        /\ target' \in [Session -> SUBSET Row]
        /\ deleted' \in [Session -> SUBSET Row]
        /\ inserted' \in [Session -> SUBSET Row]
        /\ owed' \in [Session -> SUBSET Document]
    BY <1>10 DEF Commit
  <2>2. /\ role' \in [Conn -> {"owner", "app"}]
        /\ bound' \in [Conn -> Namespace \cup {None}]
    BY <1>10 DEF Commit, Unpin
  <2>3. TypeOK'
    BY <1>10, <2>1, <2>2 DEF Commit
  <2>4. PlaceInv'
    <3> SUFFICES ASSUME NEW o \in Session
                 PROVE  PlaceInv!(o)'
      BY DEF PlaceInv
    <3>1. /\ target'[o] = target[o] \ deleted[s]
          /\ deleted'[o] = IF o = s THEN {} ELSE deleted[o]
          /\ inserted'[o] = IF o = s THEN {} ELSE inserted[o]
          /\ pc'[o] = IF o = s THEN "committed" ELSE pc[o]
          /\ call' = call /\ held' = held /\ left' = left /\ seen' = seen
          /\ pc[s] = "run"
      BY <1>10 DEF Commit
    <3>2. target[o] = {} => target'[o] = {}
      BY <3>1
    <3>3. QED
      BY <3>1, <3>2
  <2>5. QED
    BY <2>3, <2>4
<1>11. ASSUME NEW s \in Session, Return(s) PROVE TypeInv'
  BY <1>11 DEF Return, Leave
<1>12. ASSUME NEW s \in Session, Raise(s) PROVE TypeInv'
  BY <1>12 DEF Raise
<1>13. ASSUME NEW s \in Session, Rollback(s) PROVE TypeInv'
  BY <1>13 DEF Rollback, Leave, Unpin, Discard
<1>14. CASE UNCHANGED vars
  BY <1>14 DEF vars, Statement
<1>15. QED
  BY <1>1, <1>2, <1>3, <1>4, <1>5, <1>6, <1>7, <1>8, <1>9, <1>10, <1>11, <1>12, <1>13, <1>14
     DEF Next, Step

(* Every variable keeps its type.                                          *)
THEOREM TypeCorrect == Spec => []TypeOK
<1>1. Spec => []TypeInv
  BY TypeInit, TypeStep, PTL DEF Spec
<1>2. TypeInv => TypeOK
  BY DEF TypeInv
<1>3. QED
  BY <1>1, <1>2, PTL

(***************************************************************************)
(* Isolation: a transaction is pinned to its scope before its first        *)
(* statement and a connection is unpinned before its next borrower.        *)
(***************************************************************************)
InScope(R, k) == \A r \in R : r.ns = k.ns /\ r.doc \in k.docs

InReach(R, k) == \A r \in R : r.ns = k.ns /\ (Filters(k) => r.doc \in k.docs)

PinInv ==
    /\ \A s, o \in Session : s # o /\ held[s] # None => held[s] # held[o]
    /\ \A s \in Session : pc[s] \in {"bind", "run", "deleting"} => role[held[s]] = "app"
    /\ \A s \in Session : pc[s] \in {"run", "deleting"} => bound[held[s]] = call[s].ns
    /\ \A s \in Session : pc[s] = "committed" => role[held[s]] = "owner" /\ bound[held[s]] = None
    /\ PoolIsClean

ScopeInv ==
    \A s \in Session : call[s] # None =>
        /\ InScope(target[s], call[s])
        /\ InScope(deleted[s], call[s])
        /\ InScope(inserted[s], call[s])
        /\ \A R \in seen[s] : InReach(R, call[s])
        /\ call[s].op = "query" => target[s] = {} /\ deleted[s] = {} /\ inserted[s] = {}

LEMMA PinInit == Init => PinInv /\ ScopeInv
BY DEF Init, PinInv, ScopeInv, PoolIsClean

LEMMA PinStep == TypeInv /\ PinInv /\ [Next]_vars => PinInv'
<1> SUFFICES ASSUME TypeInv, PinInv, [Next]_vars
             PROVE  PinInv'
  OBVIOUS
<1> USE DEF TypeInv, TypeOK, PlaceInv, Connected, pinVars, txnVars, PinInv, PoolIsClean
<1>1. ASSUME NEW s \in Session, NEW k \in Call, Begin(s, k) PROVE PinInv'
  BY <1>1 DEF Begin
<1>2. ASSUME NEW s \in Session, Checkout(s) PROVE PinInv'
  BY <1>2, ConnAssumption DEF Checkout
<1>3. ASSUME NEW s \in Session, SetRole(s) PROVE PinInv'
  BY <1>3 DEF SetRole
<1>4. ASSUME NEW s \in Session, Bind(s) PROVE PinInv'
  BY <1>4 DEF Bind
<1>5. ASSUME NEW s \in Session, Search(s) PROVE PinInv'
  BY <1>5 DEF Search
<1>6. ASSUME NEW s \in Session, BeginDelete(s) PROVE PinInv'
  BY <1>6 DEF BeginDelete, NextStatement
<1>7. ASSUME NEW s \in Session, FinishDelete(s) PROVE PinInv'
  BY <1>7 DEF FinishDelete
<1>8. ASSUME NEW s \in Session, Insert(s) PROVE PinInv'
  BY <1>8 DEF Insert
<1>9. ASSUME NEW s \in Session, InsertFails(s) PROVE PinInv'
  BY <1>9 DEF InsertFails
<1>10. ASSUME NEW s \in Session, Commit(s) PROVE PinInv'
  BY <1>10 DEF Commit, Unpin
<1>11. ASSUME NEW s \in Session, Return(s) PROVE PinInv'
  BY <1>11 DEF Return, Leave
<1>12. ASSUME NEW s \in Session, Raise(s) PROVE PinInv'
  BY <1>12 DEF Raise
<1>13. ASSUME NEW s \in Session, Rollback(s) PROVE PinInv'
  BY <1>13 DEF Rollback, Leave, Unpin
<1>14. CASE UNCHANGED vars
  BY <1>14 DEF vars
<1>15. QED
  BY <1>1, <1>2, <1>3, <1>4, <1>5, <1>6, <1>7, <1>8, <1>9, <1>10, <1>11, <1>12, <1>13, <1>14
     DEF Next, Step

(* The policy keeps a pinned statement inside its scope.                   *)
LEMMA PinnedStatements ==
    ASSUME TypeInv, PinInv, ScopeInv, NEW s \in Session, pc[s] = "run"
    PROVE  /\ InScope(Doomed(s), call[s])
           /\ InReach(Found(s), call[s])
           /\ call[s] \in Ingests => InScope(Incoming(s), call[s])
<1>1. InScope(Doomed(s), call[s]) /\ InReach(Found(s), call[s])
  BY DEF Doomed, Found, Snapshot, PolicyAdmits, InScope, InReach, PinInv, TypeInv
<1>2. InScope(Incoming(s), call[s])
  BY RowsOfMember DEF Incoming, InScope
<1>3. QED
  BY <1>1, <1>2

LEMMA ScopeStep == TypeInv /\ PinInv /\ ScopeInv /\ [Next]_vars => ScopeInv'
<1> SUFFICES ASSUME TypeInv, PinInv, ScopeInv, [Next]_vars
             PROVE  ScopeInv'
  OBVIOUS
<1> USE DEF TypeInv, TypeOK, PlaceInv, pinVars, txnVars, ScopeInv
<1>1. ASSUME NEW s \in Session, NEW k \in Call, Begin(s, k) PROVE ScopeInv'
  BY <1>1 DEF Begin, InScope, InReach
<1>2. ASSUME NEW s \in Session, Checkout(s) PROVE ScopeInv'
  BY <1>2 DEF Checkout, InScope, InReach
<1>3. ASSUME NEW s \in Session, SetRole(s) PROVE ScopeInv'
  BY <1>3 DEF SetRole, InScope, InReach
<1>4. ASSUME NEW s \in Session, Bind(s) PROVE ScopeInv'
  BY <1>4 DEF Bind, InScope, InReach
<1>5. ASSUME NEW s \in Session, Search(s) PROVE ScopeInv'
  BY <1>5, PinnedStatements DEF Search, NextStatement, InScope, InReach
<1>6. ASSUME NEW s \in Session, BeginDelete(s) PROVE ScopeInv'
  BY <1>6, PinnedStatements, StatementKinds DEF BeginDelete, NextStatement, InScope, InReach
<1>7. ASSUME NEW s \in Session, FinishDelete(s) PROVE ScopeInv'
  BY <1>7 DEF FinishDelete, InScope, InReach
<1>8. ASSUME NEW s \in Session, Insert(s) PROVE ScopeInv'
  BY <1>8, PinnedStatements, StatementKinds, SMTT(30) DEF Insert, NextStatement, InScope, InReach, Ingests
<1>9. ASSUME NEW s \in Session, InsertFails(s) PROVE ScopeInv'
  BY <1>9 DEF InsertFails, InScope, InReach
<1>10. ASSUME NEW s \in Session, Commit(s) PROVE ScopeInv'
  BY <1>10 DEF Commit, InScope, InReach
<1>11. ASSUME NEW s \in Session, Return(s) PROVE ScopeInv'
  BY <1>11 DEF Return, Leave, InScope, InReach
<1>12. ASSUME NEW s \in Session, Raise(s) PROVE ScopeInv'
  BY <1>12 DEF Raise, InScope, InReach
<1>13. ASSUME NEW s \in Session, Rollback(s) PROVE ScopeInv'
  BY <1>13 DEF Rollback, Leave, Discard, InScope, InReach
<1>14. CASE UNCHANGED vars
  BY <1>14 DEF vars, InScope, InReach
<1>15. QED
  BY <1>1, <1>2, <1>3, <1>4, <1>5, <1>6, <1>7, <1>8, <1>9, <1>10, <1>11, <1>12, <1>13, <1>14
     DEF Next, Step

LEMMA ScopeInvariant == Spec => [](TypeInv /\ PinInv /\ ScopeInv)
BY TypeInit, TypeStep, PinInit, PinStep, ScopeStep, PTL DEF Spec

(* A pooled connection nobody holds carries no role and no namespace.      *)
THEOREM CleanPool == Spec => []PoolIsClean
<1>1. PinInv => PoolIsClean
  BY DEF PinInv
<1>2. QED
  BY <1>1, ScopeInvariant, PTL

(* No search returns a row outside the scope it was made in.               *)
THEOREM ScopedReads == Spec => []ReadsAreScoped
<1>1. TypeInv /\ ScopeInv => ReadsAreScoped
  BY DEF TypeInv, PlaceInv, ScopeInv, InReach, ReadsAreScoped
<1>2. QED
  BY <1>1, ScopeInvariant, PTL

(* No committed row of a namespace or a document changes but in the COMMIT *)
(* of a writing call made in that namespace about that document.           *)
THEOREM ScopedWrites == Spec => WritesAreScoped
<1> DEFINE Scoped ==
      \A r \in (rows \ rows') \cup (rows' \ rows) :
         \E s \in Session :
            /\ pc[s] = "run" /\ pc'[s] = "committed"
            /\ call[s].op # "query"
            /\ r.ns = call[s].ns /\ r.doc \in call[s].docs
<1>1. ASSUME TypeInv, ScopeInv, NEW s \in Session, Commit(s)
      PROVE  Scoped
  BY <1>1 DEF Commit, TypeInv, TypeOK, PlaceInv, ScopeInv, InScope
<1>2. ASSUME [Next]_vars, ~ \E s \in Session : Commit(s)
      PROVE  rows' = rows
  BY <1>2 DEF Next, Step, Begin, Checkout, SetRole, Bind, Search, BeginDelete, FinishDelete,
              Insert, InsertFails, Return, Raise, Rollback, vars
<1>3. TypeInv /\ ScopeInv /\ [Next]_vars => [Scoped]_vars
  BY <1>1, <1>2
<1>4. QED
  BY <1>3, ScopeInvariant, PTL DEF Spec, WritesAreScoped

(***************************************************************************)
(* Replacement: the committed table never holds part of a document, nor    *)
(* two chunkings of it.  The argument: what a transaction has deleted or   *)
(* is about to delete is whole documents (Closed), no row is deleted by    *)
(* two of them, and no two of them, nor one and the table it will leave,   *)
(* hold chunks of the same document.  The last holds because every         *)
(* document that is there at all has a chunk of ordinal zero, so that two  *)
(* chunkings of it always collide on the primary key.                      *)
(***************************************************************************)
Closed(S, R) == \A r \in S, q \in R : r.ns = q.ns /\ r.doc = q.doc => q \in S

Apart(S, R) == \A r \in S, q \in R : ~(r.ns = q.ns /\ r.doc = q.doc)

DeleteInv ==
    /\ \A s \in Session : deleted[s] \subseteq rows /\ Closed(deleted[s], rows)
    /\ \A s \in Session : target[s] \subseteq rows /\ Closed(target[s], rows)
    /\ \A s, o \in Session : s # o => deleted[s] \cap deleted[o] = {}

InsertInv ==
    /\ \A s \in Session : inserted[s] # {} =>
          /\ call[s] \in Ingests
          /\ inserted[s] = Incoming(s)
          /\ left[s] = 0
          /\ Apart(inserted[s], rows \ deleted[s])
    /\ \A s, o \in Session : s # o => Apart(inserted[s], inserted[o])

WholeInv == OneChunking /\ SearchesSeeWholeDocuments /\ DeleteInv /\ InsertInv

(* Removing whole documents leaves whole documents.                        *)
LEMMA WholeMinusClosed ==
    ASSUME NEW R, NEW S, WholeDocuments(R), Closed(S, R), S \subseteq R
    PROVE  WholeDocuments(R \ S)
BY DEF WholeDocuments, RowsOfDocument, Closed

(* So does adding one whole chunking of documents of which R has nothing.  *)
LEMMA WholePlusApart ==
    ASSUME NEW R, NEW n, NEW D, NEW x, WholeDocuments(R), Apart(RowsOf(n, D, x), R)
    PROVE  WholeDocuments(R \cup RowsOf(n, D, x))
<1> DEFINE S == RowsOf(n, D, x)
<1> SUFFICES ASSUME NEW r \in R \cup S
             PROVE  RowsOfDocument(R \cup S, r.ns, r.doc) = RowsOf(r.ns, {r.doc}, r.chunking)
  BY DEF WholeDocuments
<1>1. CASE r \in R
  <2>1. RowsOfDocument(R \cup S, r.ns, r.doc) = RowsOfDocument(R, r.ns, r.doc)
    BY <1>1 DEF RowsOfDocument, Apart
  <2>2. QED
    BY <1>1, <2>1 DEF WholeDocuments
<1>2. CASE r \in S
  <2>1. r.ns = n /\ r.doc \in D /\ r.chunking = x
    BY <1>2, RowsOfMember
  <2>2. RowsOfDocument(R \cup S, r.ns, r.doc) = {q \in S : q.ns = r.ns /\ q.doc = r.doc}
    BY <1>2 DEF RowsOfDocument, Apart
  <2>3. {q \in S : q.ns = r.ns /\ q.doc = r.doc} = RowsOf(n, {r.doc}, x)
    BY <2>1, RowsOfMember
  <2>4. QED
    BY <2>1, <2>2, <2>3
<1>3. QED
  BY <1>1, <1>2

(* The chunk of ordinal zero of the document of a row.                     *)
LEMMA FirstChunk ==
    ASSUME NEW n, NEW D, NEW x \in Chunking, NEW r \in RowsOf(n, D, x)
    PROVE  [ns |-> n, doc |-> r.doc, ord |-> 0, chunking |-> x] \in RowsOf(n, D, x)
<1>1. PICK d \in D, i \in 0..(ChunkCount[x] - 1) :
        r = [ns |-> n, doc |-> d, ord |-> i, chunking |-> x]
  BY RowsOfMember
<1>2. ChunkCount[x] \in Nat
  BY ChunkCountAssumption
<1>3. 0 \in 0..(ChunkCount[x] - 1) /\ r.doc = d
  BY <1>1, <1>2
<1>4. QED
  BY <1>1, <1>3, RowsOfMember

LEMMA FirstChunkOfWhole ==
    ASSUME NEW R, R \subseteq Row, WholeDocuments(R), NEW r \in R
    PROVE  [ns |-> r.ns, doc |-> r.doc, ord |-> 0, chunking |-> r.chunking] \in R
<1>1. r \in RowsOf(r.ns, {r.doc}, r.chunking)
  BY DEF WholeDocuments, RowsOfDocument
<1>2. r.chunking \in Chunking
  BY DEF Row
<1>3. [ns |-> r.ns, doc |-> r.doc, ord |-> 0, chunking |-> r.chunking]
        \in RowsOf(r.ns, {r.doc}, r.chunking)
  BY <1>1, <1>2, FirstChunk
<1>4. QED
  BY <1>3 DEF WholeDocuments, RowsOfDocument

(* What a statement about to run sees of a document is all of it, and it   *)
(* is not the statement of a transaction that inserted anything.           *)
LEMMA WholeStatements ==
    ASSUME TypeInv, PinInv, WholeInv, NEW s \in Session, pc[s] = "run", left[s] > 0
    PROVE  /\ inserted[s] = {}
           /\ Doomed(s) \subseteq rows /\ Closed(Doomed(s), rows)
           /\ WholeDocuments(Found(s))
<1>1. inserted[s] = {} /\ deleted[s] \subseteq rows /\ Closed(deleted[s], rows)
  <2>1. left[s] # 0
    BY DEF TypeInv, TypeOK
  <2>2. inserted[s] = {}
    BY <2>1 DEF WholeInv, InsertInv
  <2>3. QED
    BY <2>2 DEF WholeInv, DeleteInv
<1>2. Snapshot(s) = {r \in rows \ deleted[s] : r.ns = call[s].ns}
  <2>1. role[held[s]] = "app" /\ bound[held[s]] = call[s].ns
    BY DEF PinInv
  <2>2. QED
    BY <1>1, <2>1 DEF Snapshot, PolicyAdmits
<1>3. Doomed(s) = {r \in rows \ deleted[s] : r.ns = call[s].ns /\ r.doc \in call[s].docs}
  BY <1>2 DEF Doomed
<1>4. Doomed(s) \subseteq rows /\ Closed(Doomed(s), rows)
  BY <1>1, <1>3 DEF Closed
<1>5. Found(s) \subseteq rows /\ Closed(Found(s), rows)
  BY <1>1, <1>2 DEF Found, Closed
<1>6. WholeDocuments(Found(s))
  <2>1. WholeDocuments(rows)
    BY DEF WholeInv, OneChunking
  <2>2. ASSUME NEW r \in Found(s)
        PROVE  RowsOfDocument(Found(s), r.ns, r.doc) = RowsOfDocument(rows, r.ns, r.doc)
    BY <1>5, <2>2 DEF RowsOfDocument, Closed
  <2>3. QED
    BY <1>5, <2>1, <2>2 DEF WholeDocuments
<1>7. QED
  BY <1>1, <1>4, <1>5, <1>6

(* Two chunkings of a document collide on its first chunk: what an INSERT  *)
(* may insert shares no document with the table, nor with what another     *)
(* transaction inserted.                                                   *)
LEMMA InsertApart ==
    ASSUME TypeInv, WholeInv, NEW s \in Session, Insert(s)
    PROVE  /\ Apart(Incoming(s), rows \ deleted[s])
           /\ \A o \in Session \ {s} : Apart(Incoming(s), inserted[o])
<1> USE DEF TypeInv, TypeOK, PlaceInv
<1>1. call[s] \in Ingests
  BY StatementKinds DEF Insert, NextStatement
<1>2. call[s].chunking \in Chunking
  BY <1>1 DEF Ingests
<1>3. ASSUME NEW r \in Incoming(s), NEW q \in rows \ deleted[s], r.ns = q.ns, r.doc = q.doc
      PROVE  FALSE
  <2> DEFINE r0 == [ns |-> call[s].ns, doc |-> r.doc, ord |-> 0, chunking |-> call[s].chunking]
             q0 == [ns |-> q.ns, doc |-> q.doc, ord |-> 0, chunking |-> q.chunking]
  <2>1. r0 \in Incoming(s) /\ r.ns = call[s].ns
    BY <1>2, FirstChunk, RowsOfMember DEF Incoming
  <2>2. q0 \in rows
    BY FirstChunkOfWhole DEF WholeInv, OneChunking
  <2>3. q0 \notin deleted[s]
    BY DEF WholeInv, DeleteInv, Closed
  <2>4. SameKey(r0, q0)
    BY <1>3, <2>1 DEF SameKey
  <2>5. QED
    BY <2>1, <2>2, <2>3, <2>4 DEF Insert, Insertable
<1>4. ASSUME NEW o \in Session \ {s}, NEW r \in Incoming(s), NEW q \in inserted[o],
             r.ns = q.ns, r.doc = q.doc
      PROVE  FALSE
  <2>1. inserted[o] = Incoming(o) /\ call[o] \in Ingests
    BY DEF WholeInv, InsertInv
  <2> DEFINE r0 == [ns |-> call[s].ns, doc |-> r.doc, ord |-> 0, chunking |-> call[s].chunking]
             q0 == [ns |-> call[o].ns, doc |-> q.doc, ord |-> 0, chunking |-> call[o].chunking]
  <2>2. r0 \in Incoming(s) /\ r.ns = call[s].ns
    BY <1>2, FirstChunk, RowsOfMember DEF Incoming
  <2>3. call[o].chunking \in Chunking
    BY <2>1 DEF Ingests
  <2>4. q0 \in inserted[o] /\ q.ns = call[o].ns
    BY <2>1, <2>3, FirstChunk, RowsOfMember DEF Incoming
  <2>5. SameKey(r0, q0)
    BY <1>4, <2>2, <2>4 DEF SameKey
  <2>6. QED
    BY <2>2, <2>4, <2>5 DEF Insert, Uncontended
<1>5. QED
  BY <1>3, <1>4 DEF Apart

(* A step that leaves the rows alone, and the call of whoever inserted.    *)
LEMMA WholeFrame ==
    ASSUME WholeInv,
           UNCHANGED <<rows, target, deleted, inserted, seen>>,
           \A o \in Session : inserted[o] # {} => call'[o] = call[o] /\ left'[o] = left[o]
    PROVE  WholeInv'
<1>1. OneChunking' /\ SearchesSeeWholeDocuments' /\ DeleteInv'
  BY DEF WholeInv, OneChunking, SearchesSeeWholeDocuments, DeleteInv
<1>2. InsertInv'
  BY DEF WholeInv, InsertInv, Incoming
<1>3. QED
  BY <1>1, <1>2 DEF WholeInv

LEMMA WholeSearch ==
    ASSUME TypeInv, PinInv, WholeInv, NEW s \in Session, Search(s)
    PROVE  WholeInv'
<1>1. WholeDocuments(Found(s)) /\ inserted[s] = {}
  BY WholeStatements DEF Search, NextStatement
<1>2. SearchesSeeWholeDocuments'
  BY <1>1 DEF Search, WholeInv, SearchesSeeWholeDocuments, TypeInv, TypeOK
<1>3. OneChunking' /\ DeleteInv'
  BY DEF Search, txnVars, WholeInv, OneChunking, DeleteInv
<1>4. InsertInv'
  BY <1>1 DEF Search, txnVars, WholeInv, InsertInv, Incoming, TypeInv, TypeOK
<1>5. QED
  BY <1>2, <1>3, <1>4 DEF WholeInv

LEMMA WholeBeginDelete ==
    ASSUME TypeInv, PinInv, WholeInv, NEW s \in Session, BeginDelete(s)
    PROVE  WholeInv'
<1>1. Doomed(s) \subseteq rows /\ Closed(Doomed(s), rows)
  BY WholeStatements DEF BeginDelete, NextStatement
<1>2. DeleteInv'
  BY <1>1 DEF BeginDelete, WholeInv, DeleteInv, TypeInv, TypeOK
<1>3. OneChunking' /\ SearchesSeeWholeDocuments'
  BY DEF BeginDelete, WholeInv, OneChunking, SearchesSeeWholeDocuments
<1>4. InsertInv'
  BY DEF BeginDelete, WholeInv, InsertInv, Incoming
<1>5. QED
  BY <1>2, <1>3, <1>4 DEF WholeInv

LEMMA WholeFinishDelete ==
    ASSUME TypeInv, WholeInv, NEW s \in Session, FinishDelete(s)
    PROVE  WholeInv'
<1> USE DEF TypeInv, TypeOK, PlaceInv
<1>1. inserted[s] = {}
  <2>1. left[s] # 0
    BY DEF FinishDelete
  <2>2. QED
    BY <2>1 DEF WholeInv, InsertInv
<1>2. /\ inserted' = inserted
      /\ deleted' = [deleted EXCEPT ![s] = @ \cup target[s]]
  BY <1>1 DEF FinishDelete
<1>3. \A o \in Session : deleted'[o] \subseteq rows /\ Closed(deleted'[o], rows)
  BY <1>2 DEF WholeInv, DeleteInv, Closed
<1>4. \A o \in Session : target'[o] \subseteq rows /\ Closed(target'[o], rows)
  BY DEF FinishDelete, WholeInv, DeleteInv, Closed
<1>5. \A o, u \in Session : o # u => deleted'[o] \cap deleted'[u] = {}
  BY <1>2 DEF FinishDelete, Unlocked, WholeInv, DeleteInv
<1>6. rows' = rows /\ seen' = seen /\ call' = call
  BY DEF FinishDelete
<1>7. DeleteInv'
  BY <1>3, <1>4, <1>5, <1>6 DEF DeleteInv
<1>8. \A o \in Session : inserted[o] # {} => deleted'[o] = deleted[o] /\ left'[o] = left[o]
  BY <1>1, <1>2 DEF FinishDelete
<1>9. InsertInv'
  BY <1>1, <1>2, <1>6, <1>8 DEF WholeInv, InsertInv, Incoming
<1>10. OneChunking' /\ SearchesSeeWholeDocuments'
  BY <1>6 DEF WholeInv, OneChunking, SearchesSeeWholeDocuments
<1>11. QED
  BY <1>7, <1>9, <1>10 DEF WholeInv

LEMMA WholeInsert ==
    ASSUME TypeInv, PinInv, WholeInv, NEW s \in Session, Insert(s)
    PROVE  WholeInv'
<1> USE DEF TypeInv, TypeOK
<1>1. inserted[s] = {}
  BY WholeStatements DEF Insert, NextStatement
<1>2. call[s] \in Ingests /\ left[s] = 1
  BY StatementKinds DEF Insert, NextStatement, PlaceInv
<1>3. /\ inserted' = [inserted EXCEPT ![s] = Incoming(s)]
      /\ left'[s] = 0
      /\ \A o \in Session \ {s} : left'[o] = left[o]
      /\ UNCHANGED <<rows, call, target, deleted, seen>>
  BY <1>1, <1>2 DEF Insert
<1>4. Incoming(s)' = Incoming(s)
  BY <1>3 DEF Incoming
<1>5. \A o \in Session : inserted'[o] # {} =>
        /\ call'[o] \in Ingests
        /\ inserted'[o] = Incoming(o)'
        /\ left'[o] = 0
        /\ Apart(inserted'[o], rows' \ deleted'[o])
  BY <1>2, <1>3, <1>4, InsertApart DEF WholeInv, InsertInv, Incoming
<1>6. \A o, u \in Session : o # u => Apart(inserted'[o], inserted'[u])
  BY <1>3, InsertApart DEF WholeInv, InsertInv, Apart
<1>7. InsertInv'
  BY <1>5, <1>6 DEF InsertInv
<1>8. OneChunking' /\ SearchesSeeWholeDocuments' /\ DeleteInv'
  BY <1>3 DEF WholeInv, OneChunking, SearchesSeeWholeDocuments, DeleteInv
<1>9. QED
  BY <1>7, <1>8 DEF WholeInv

LEMMA WholeCommit ==
    ASSUME TypeInv, WholeInv, NEW s \in Session, Commit(s)
    PROVE  WholeInv'
<1> USE DEF TypeInv, TypeOK
<1> DEFINE kept == rows \ deleted[s]
<1>1. /\ rows' = kept \cup inserted[s]
      /\ \A o \in Session : target'[o] = target[o] \ deleted[s]
      /\ deleted'[s] = {} /\ inserted'[s] = {}
      /\ \A o \in Session \ {s} : deleted'[o] = deleted[o] /\ inserted'[o] = inserted[o]
      /\ UNCHANGED <<call, left, seen>>
  BY DEF Commit
<1>2. WholeDocuments(kept)
  BY WholeMinusClosed DEF WholeInv, OneChunking, DeleteInv
<1>3. Apart(inserted[s], kept)
  BY DEF WholeInv, InsertInv, Apart
<1>4. OneChunking'
  <2>1. CASE inserted[s] = {}
    BY <1>1, <1>2, <2>1 DEF OneChunking
  <2>2. CASE inserted[s] # {}
    <3>1. inserted[s] = RowsOf(call[s].ns, call[s].docs, call[s].chunking)
      BY <2>2 DEF WholeInv, InsertInv, Incoming
    <3>2. WholeDocuments(kept \cup inserted[s])
      BY <1>2, <1>3, <3>1, WholePlusApart
    <3>3. QED
      BY <1>1, <3>2 DEF OneChunking
  <2>3. QED
    BY <2>1, <2>2
<1>5. ASSUME NEW S, S \subseteq kept, Closed(S, rows)
      PROVE  S \subseteq rows' /\ Closed(S, rows')
  BY <1>1, <1>3, <1>5 DEF Closed, Apart
<1>6. DeleteInv'
  <2>1. ASSUME NEW o \in Session
        PROVE  deleted'[o] \subseteq rows' /\ Closed(deleted'[o], rows')
    <3>1. CASE o = s
      BY <1>1, <3>1 DEF Closed
    <3>2. CASE o # s
      <4>1. deleted[o] \subseteq kept /\ Closed(deleted[o], rows)
        BY <3>2 DEF WholeInv, DeleteInv
      <4>2. QED
        BY <1>1, <1>5, <3>2, <4>1
    <3>3. QED
      BY <3>1, <3>2
  <2>2. ASSUME NEW o \in Session
        PROVE  target'[o] \subseteq rows' /\ Closed(target'[o], rows')
    <3>1. target'[o] \subseteq kept /\ Closed(target'[o], rows)
      BY <1>1 DEF WholeInv, DeleteInv, Closed
    <3>2. QED
      BY <1>5, <3>1
  <2>3. \A o, u \in Session : o # u => deleted'[o] \cap deleted'[u] = {}
    BY <1>1 DEF WholeInv, DeleteInv
  <2>4. QED
    BY <2>1, <2>2, <2>3 DEF DeleteInv
<1>7. InsertInv'
  <2>1. ASSUME NEW o \in Session, inserted'[o] # {}
        PROVE  /\ call'[o] \in Ingests
               /\ inserted'[o] = Incoming(o)'
               /\ left'[o] = 0
               /\ Apart(inserted'[o], rows' \ deleted'[o])
    <3>1. o # s /\ inserted'[o] = inserted[o] /\ deleted'[o] = deleted[o]
      BY <1>1, <2>1
    <3>2. Apart(inserted[o], rows \ deleted[o]) /\ Apart(inserted[o], inserted[s])
      BY <2>1, <3>1 DEF WholeInv, InsertInv
    <3>3. Apart(inserted'[o], rows' \ deleted'[o])
      BY <1>1, <3>1, <3>2 DEF Apart
    <3>4. QED
      BY <1>1, <2>1, <3>1, <3>3 DEF WholeInv, InsertInv, Incoming
  <2>2. \A o, u \in Session : o # u => Apart(inserted'[o], inserted'[u])
    BY <1>1 DEF WholeInv, InsertInv, Apart
  <2>3. QED
    BY <2>1, <2>2 DEF InsertInv
<1>8. SearchesSeeWholeDocuments'
  BY <1>1 DEF WholeInv, SearchesSeeWholeDocuments
<1>9. QED
  BY <1>4, <1>6, <1>7, <1>8 DEF WholeInv

(* The end of a call, with or without the end of its transaction, takes    *)
(* nothing from the table.                                                 *)
LEMMA WholeLeave ==
    ASSUME TypeInv, WholeInv, NEW s \in Session, Return(s) \/ Rollback(s)
    PROVE  WholeInv'
<1> USE DEF TypeInv, TypeOK, PlaceInv
<1>1. /\ rows' = rows
      /\ target'[s] = {} /\ deleted'[s] = {} /\ inserted'[s] = {} /\ seen'[s] = {}
      /\ \A o \in Session \ {s} :
           /\ target'[o] = target[o] /\ deleted'[o] = deleted[o] /\ inserted'[o] = inserted[o]
           /\ seen'[o] = seen[o] /\ call'[o] = call[o] /\ left'[o] = left[o]
  BY DEF Return, Rollback, Leave, Discard, txnVars
<1>2. OneChunking' /\ SearchesSeeWholeDocuments'
  BY <1>1 DEF WholeInv, OneChunking, SearchesSeeWholeDocuments
<1>3. DeleteInv'
  BY <1>1, SMTT(20) DEF WholeInv, DeleteInv, Closed
<1>4. InsertInv'
  BY <1>1, SMTT(20) DEF WholeInv, InsertInv, Incoming, Apart
<1>5. QED
  BY <1>2, <1>3, <1>4 DEF WholeInv

LEMMA WholeInit == Init => WholeInv
BY DEF Init, WholeInv, OneChunking, WholeDocuments, SearchesSeeWholeDocuments,
       DeleteInv, InsertInv, Closed, Apart

LEMMA WholeStep == TypeInv /\ PinInv /\ WholeInv /\ [Next]_vars => WholeInv'
<1> SUFFICES ASSUME TypeInv, PinInv, WholeInv, [Next]_vars
             PROVE  WholeInv'
  OBVIOUS
<1> USE DEF TypeInv, TypeOK, PlaceInv, pinVars, txnVars
<1>1. ASSUME NEW s \in Session, NEW k \in Call, Begin(s, k) PROVE WholeInv'
  BY <1>1, WholeFrame DEF Begin
<1>2. ASSUME NEW s \in Session, Checkout(s) PROVE WholeInv'
  BY <1>2, WholeFrame DEF Checkout
<1>3. ASSUME NEW s \in Session, SetRole(s) PROVE WholeInv'
  BY <1>3, WholeFrame DEF SetRole
<1>4. ASSUME NEW s \in Session, Bind(s) PROVE WholeInv'
  BY <1>4, WholeFrame DEF Bind
<1>5. ASSUME NEW s \in Session, InsertFails(s) PROVE WholeInv'
  BY <1>5, WholeFrame DEF InsertFails
<1>6. ASSUME NEW s \in Session, Raise(s) PROVE WholeInv'
  BY <1>6, WholeFrame DEF Raise
<1>7. CASE UNCHANGED vars
  BY <1>7, WholeFrame DEF vars
<1>8. QED
  BY <1>1, <1>2, <1>3, <1>4, <1>5, <1>6, <1>7, WholeSearch, WholeBeginDelete,
     WholeFinishDelete, WholeInsert, WholeCommit, WholeLeave DEF Next, Step

LEMMA Invariant == Spec => [](TypeInv /\ PinInv /\ ScopeInv /\ WholeInv)
BY TypeInit, TypeStep, PinInit, PinStep, ScopeStep, WholeInit, WholeStep, PTL DEF Spec

(* The committed table holds every document whole, in one chunking.        *)
THEOREM WholeReplacement == Spec => []OneChunking
<1>1. WholeInv => OneChunking
  BY DEF WholeInv
<1>2. QED
  BY <1>1, Invariant, PTL

(* No search sees a document half replaced.                                *)
THEOREM WholeReads == Spec => []SearchesSeeWholeDocuments
<1>1. WholeInv => SearchesSeeWholeDocuments
  BY DEF WholeInv
<1>2. QED
  BY <1>1, Invariant, PTL

-----------------------------------------------------------------------------
(***************************************************************************)
(* ScopedStore implements Corpus.                                          *)
(***************************************************************************)

(***************************************************************************)
(* What a call has done of its work, given how many statements it has      *)
(* left.                                                                   *)
(***************************************************************************)

(* Of the documents s addresses that nobody rewrote, all rows are in S.    *)
Covers(S, s) ==
    \A r \in rows : r.ns = call[s].ns /\ r.doc \in call[s].docs \cap owed[s] => r \in S

Unstarted == {"queued", "role", "bind"}

IngestWork(s) ==
    /\ pc[s] \in Unstarted => left[s] \in StatementCounts(call[s])
    /\ Empty(call[s].chunking) =>
          left[s] = 0 /\ target[s] = {} /\ deleted[s] = {} /\ inserted[s] = {}
    /\ ~Empty(call[s].chunking) /\ pc[s] = "run" /\ left[s] = 0 => inserted[s] = Incoming(s)

RemoveWork(s) ==
    /\ pc[s] \in Unstarted => left[s] \in StatementCounts(call[s])
    /\ call[s].op = "purge" => left[s] \in 0..1
    /\ pc[s] = "deleting" => Covers(target[s] \cup deleted[s], s)
    /\ pc[s] = "run" /\ left[s] = 0 => Covers(deleted[s], s)

WorkOf(s) ==
    call[s] # None =>
        /\ call[s].op = "ingest" => IngestWork(s)
        /\ call[s].op \in {"delete", "purge"} => RemoveWork(s)
        /\ call[s].op # "ingest" => inserted[s] = {}

WorkInv == \A s \in Session : WorkOf(s)

AppliedInv ==
    \A s \in Session :
        /\ pc[s] \notin {"committed", "closing"} => applied[s] = FALSE
        /\ pc[s] = "committed" => applied[s] = TRUE

AllInv == TypeInv /\ PinInv /\ ScopeInv /\ WholeInv /\ WorkInv /\ AppliedInv

LEMMA WorkInit == Init => WorkInv /\ AppliedInv
BY DEF Init, WorkInv, WorkOf, AppliedInv

LEMMA AppliedStep == TypeInv /\ AppliedInv /\ [Next]_vars => AppliedInv'
<1> SUFFICES ASSUME TypeInv, AppliedInv, [Next]_vars
             PROVE  AppliedInv'
  OBVIOUS
<1> USE DEF TypeInv, TypeOK, AppliedInv
<1>1. ASSUME NEW s \in Session, Step(s) \/ Raise(s) \/ \E k \in Call : Begin(s, k)
      PROVE  AppliedInv'
  BY <1>1 DEF Step, Begin, Checkout, SetRole, Bind, Search, BeginDelete, FinishDelete, Insert,
              InsertFails, Commit, Return, Raise, Rollback, Leave, NextStatement
<1>2. CASE UNCHANGED vars
  BY <1>2 DEF vars
<1>3. QED
  BY <1>1, <1>2 DEF Next

(* A step of session s that leaves the table and what the others do alone  *)
(* keeps the work of the others.                                           *)
LEMMA WorkOfOthers ==
    ASSUME AllInv, NEW s \in Session, rows' = rows,
           \A o \in Session \ {s} :
              /\ pc'[o] = pc[o] /\ call'[o] = call[o] /\ left'[o] = left[o]
              /\ target'[o] = target[o] /\ deleted'[o] = deleted[o] /\ inserted'[o] = inserted[o]
              /\ owed'[o] = owed[o],
           WorkOf(s)'
    PROVE  WorkInv'
BY DEF AllInv, WorkInv, WorkOf, IngestWork, RemoveWork, Covers, Incoming

(* The COMMIT of session s takes from what the others find to delete what  *)
(* it deleted, and from what they owe what it rewrote.                     *)
LEMMA WorkCommit ==
    ASSUME AllInv, NEW s \in Session, Commit(s)
    PROVE  WorkInv'
<1> USE DEF AllInv, TypeInv, TypeOK, PlaceInv
<1>1. /\ call' = call /\ left' = left
      /\ rows' = (rows \ deleted[s]) \cup inserted[s]
      /\ pc[s] = "run" /\ left[s] = 0 /\ pc'[s] = "committed"
      /\ target'[s] = {} /\ deleted'[s] = {} /\ inserted'[s] = {}
  BY DEF Commit
<1>2. \A o \in Session \ {s} :
        /\ pc'[o] = pc[o] /\ target'[o] = target[o] \ deleted[s]
        /\ deleted'[o] = deleted[o] /\ inserted'[o] = inserted[o]
        /\ owed'[o] = IF call[o] # None /\ call[o].ns = call[s].ns
                      THEN owed[o] \ DocumentsOf(deleted[s] \cup inserted[s]) ELSE owed[o]
  BY DEF Commit
<1>3. WorkOf(s)'
  BY <1>1 DEF WorkInv, WorkOf, IngestWork, RemoveWork, Unstarted
<1>4. ASSUME NEW o \in Session \ {s}, call[o] # None PROVE WorkOf(o)'
  <2>1. ASSUME call[o].op = "ingest" PROVE IngestWork(o)'
    <3>1. target[o] = {} => target'[o] = {}
      BY <1>2
    <3>2. IngestWork(o)
      BY <1>4, <2>1 DEF WorkInv, WorkOf
    <3>3. QED
      BY <1>1, <1>2, <3>1, <3>2 DEF IngestWork, Incoming
  <2>2. ASSUME NEW S, Covers(S, o),
               NEW r \in rows', r.ns = call[o].ns, r.doc \in call[o].docs \cap owed'[o]
        PROVE  r \in S \ deleted[s]
    <3>1. /\ o # s /\ r.ns = call[o].ns /\ r.doc \in call[o].docs \cap owed'[o]
          /\ r \in rows'
      BY <2>2
    <3>2. r \notin inserted[s]
      <4>1. ASSUME r \in inserted[s] PROVE FALSE
        <5>1. r.ns = call[s].ns
          BY <1>1, <4>1 DEF ScopeInv, InScope
        <5>2. r.doc \in DocumentsOf(deleted[s] \cup inserted[s])
          BY <4>1 DEF DocumentsOf
        <5>3. call[o] # None /\ call[o].ns = call[s].ns
          BY ONLY <1>4, <3>1, <5>1
        <5>4. owed'[o] = owed[o] \ DocumentsOf(deleted[s] \cup inserted[s])
          BY ONLY <1>2, <3>1, <5>3
        <5>5. QED
          BY ONLY <3>1, <5>2, <5>4
      <4>2. QED
        BY <4>1
    <3>3. r \in rows /\ r \notin deleted[s]
      BY <1>1, <3>2
    <3>4. r.doc \in owed[o]
      BY <1>2, <3>1, ZenonT(30)
    <3>5. QED
      BY <2>2, <3>1, <3>3, <3>4 DEF Covers
  <2>3. ASSUME call[o].op \in {"delete", "purge"} PROVE RemoveWork(o)'
    <3>1. RemoveWork(o)
      BY <1>4, <2>3 DEF WorkInv, WorkOf
    <3>2. deleted[o] \cap deleted[s] = {}
      BY DEF WholeInv, DeleteInv
    <3>3. ASSUME pc[o] = "deleting" PROVE Covers(target[o] \cup deleted[o], o)'
      <4>1. Covers(target[o] \cup deleted[o], o)
        BY ONLY <3>1, <3>3 DEF RemoveWork
      <4>2. target'[o] = target[o] \ deleted[s] /\ deleted'[o] = deleted[o]
        BY ONLY <1>2, o \in Session \ {s}
      <4>3. target'[o] \cup deleted'[o] = (target[o] \cup deleted[o]) \ deleted[s]
        BY ONLY <3>2, <4>2
      <4>4. QED
        BY <1>1, <2>2, <4>1, <4>3, ZenonT(30) DEF Covers
    <3>4. ASSUME pc[o] = "run", left[o] = 0 PROVE Covers(deleted[o], o)'
      <4>1. Covers(deleted[o], o)
        BY <3>1, <3>4 DEF RemoveWork
      <4>2. QED
        BY <1>1, <1>2, <2>2, <3>2, <4>1 DEF Covers
    <3>5. QED
      BY <1>1, <1>2, <3>1, <3>3, <3>4 DEF RemoveWork
  <2>4. QED
    BY <1>1, <1>2, <1>4, <2>1, <2>3 DEF WorkInv, WorkOf
<1>5. QED
  BY <1>1, <1>3, <1>4 DEF WorkInv, WorkOf

LEMMA WorkStep == AllInv /\ [Next]_vars => WorkInv'
<1> SUFFICES ASSUME AllInv, [Next]_vars
             PROVE  WorkInv'
  OBVIOUS
<1> USE DEF AllInv, TypeInv, TypeOK, PlaceInv, pinVars, txnVars
<1>1. ASSUME NEW s \in Session, NEW k \in Call, Begin(s, k) PROVE WorkInv'
  <2>1. WorkOf(s)'
    BY <1>1, CallKinds DEF Begin, WorkInv, WorkOf, IngestWork, RemoveWork, Unstarted,
                           StatementCounts, Replacements, Deletions, Searches
  <2>2. QED
    BY <1>1, <2>1, WorkOfOthers DEF Begin
<1>2. ASSUME NEW s \in Session, Checkout(s) PROVE WorkInv'
  <2>1. WorkOf(s)'
    BY <1>2 DEF Checkout, WorkInv, WorkOf, IngestWork, RemoveWork, Unstarted
  <2>2. QED
    BY <1>2, <2>1, WorkOfOthers DEF Checkout
<1>3. ASSUME NEW s \in Session, SetRole(s) PROVE WorkInv'
  <2>1. WorkOf(s)'
    BY <1>3 DEF SetRole, WorkInv, WorkOf, IngestWork, RemoveWork, Unstarted
  <2>2. QED
    BY <1>3, <2>1, WorkOfOthers DEF SetRole
<1>4. ASSUME NEW s \in Session, Bind(s) PROVE WorkInv'
  <2>1. /\ UNCHANGED <<rows, call, left, owed, target, deleted, inserted>>
        /\ pc[s] \in Unstarted /\ pc'[s] = "run" /\ call[s] # None
    BY <1>4 DEF Bind, Unstarted
  <2>2. ASSUME call[s].op = "ingest" PROVE IngestWork(s)'
    <3>1. IngestWork(s) /\ left[s] = IF Empty(call[s].chunking) THEN 0 ELSE 2
      BY <2>1, <2>2 DEF WorkInv, WorkOf, IngestWork, StatementCounts, Replacements, Deletions, Searches
    <3>2. QED
      BY <2>1, <3>1 DEF IngestWork, Unstarted
  <2>3. ASSUME call[s].op \in {"delete", "purge"} PROVE RemoveWork(s)'
    <3>1. RemoveWork(s)
      BY <2>1, <2>3 DEF WorkInv, WorkOf
    <3>2. left[s] \in StatementCounts(call[s])
      BY ONLY <2>1, <3>1 DEF RemoveWork
    <3>3. left[s] # 0
      BY ONLY <2>3, <3>2 DEF StatementCounts, Replacements, Deletions, Searches
    <3>4. QED
      BY ONLY <2>1, <3>1, <3>3 DEF RemoveWork, Unstarted
  <2>4. WorkOf(s)'
    BY <2>1, <2>2, <2>3 DEF WorkInv, WorkOf
  <2>5. QED
    BY <1>4, <2>4, WorkOfOthers DEF Bind
<1>5. ASSUME NEW s \in Session, Search(s) PROVE WorkInv'
  <2>1. call[s].op = "query" /\ inserted[s] = {}
    BY <1>5, StatementKinds DEF Search, NextStatement, ScopeInv
  <2>2. WorkOf(s)'
    BY <1>5, <2>1 DEF Search, WorkOf
  <2>3. QED
    BY <1>5, <2>2, WorkOfOthers DEF Search
<1>6. ASSUME NEW s \in Session, BeginDelete(s) PROVE WorkInv'
  <2>1. /\ call' = call /\ left' = left /\ rows' = rows /\ owed' = owed
        /\ deleted' = deleted /\ inserted' = inserted
        /\ target'[s] = Doomed(s) /\ pc'[s] = "deleting"
        /\ pc[s] = "run" /\ left[s] # 0 /\ call[s] # None
    BY <1>6 DEF BeginDelete, NextStatement
  <2>2. inserted[s] = {} /\ Covers(Doomed(s) \cup deleted[s], s)
    <3>1. inserted[s] = {}
      BY <1>6, WholeStatements DEF BeginDelete, NextStatement
    <3>2. role[held[s]] = "app" /\ bound[held[s]] = call[s].ns
      BY <2>1 DEF PinInv
    <3>3. QED
      BY <3>1, <3>2 DEF Covers, Doomed, Snapshot, PolicyAdmits
  <2>3. ASSUME call[s].op = "ingest" PROVE IngestWork(s)'
    <3>1. ~Empty(call[s].chunking)
      BY <2>1, <2>3 DEF WorkInv, WorkOf, IngestWork
    <3>2. QED
      BY <2>1, <3>1 DEF IngestWork, Unstarted
  <2>4. ASSUME call[s].op \in {"delete", "purge"} PROVE RemoveWork(s)'
    BY <2>1, <2>2, <2>4 DEF WorkInv, WorkOf, RemoveWork, Covers, Unstarted
  <2>5. WorkOf(s)'
    BY <2>1, <2>2, <2>3, <2>4 DEF WorkOf
  <2>6. QED
    BY <1>6, <2>5, WorkOfOthers DEF BeginDelete
<1>7. ASSUME NEW s \in Session, FinishDelete(s) PROVE WorkInv'
  <2>1. left[s] # 0 /\ pc[s] = "deleting" /\ Statement(call[s], left[s]) = "delete"
    BY <1>7 DEF FinishDelete
  <2>2. inserted[s] = {}
    BY <2>1 DEF WholeInv, InsertInv
  <2>3. /\ call' = call /\ rows' = rows /\ owed' = owed
        /\ deleted'[s] = deleted[s] \cup target[s] /\ inserted'[s] = {}
        /\ target'[s] = {} /\ left'[s] = left[s] - 1 /\ pc'[s] = "run"
    BY <1>7, <2>2 DEF FinishDelete
  <2>4. ASSUME call[s].op = "ingest" PROVE IngestWork(s)'
    <3>1. ~Empty(call[s].chunking) /\ left[s] # 1
      BY <2>1, <2>4 DEF WorkInv, WorkOf, IngestWork, Statement
    <3>2. left'[s] # 0
      BY <2>3, <3>1
    <3>3. QED
      BY <2>3, <3>1, <3>2 DEF IngestWork, Unstarted
  <2>5. ASSUME call[s].op \in {"delete", "purge"} PROVE RemoveWork(s)'
    <3>1. Covers(target[s] \cup deleted[s], s) /\ (call[s].op = "purge" => left[s] \in 0..1)
      BY <2>1, <2>5 DEF WorkInv, WorkOf, RemoveWork
    <3>2. Covers(deleted[s], s)'
      BY <2>3, <3>1 DEF Covers
    <3>3. call[s].op = "purge" => left'[s] \in 0..1
      BY <2>1, <2>3, <3>1
    <3>4. QED
      BY <2>3, <3>2, <3>3 DEF RemoveWork, Unstarted
  <2>6. WorkOf(s)'
    BY <2>2, <2>3, <2>4, <2>5 DEF WorkOf
  <2>7. QED
    BY <1>7, <2>6, WorkOfOthers DEF FinishDelete
<1>8. ASSUME NEW s \in Session, Insert(s) PROVE WorkInv'
  <2>1. inserted[s] = {}
    BY <1>8, WholeStatements DEF Insert, NextStatement
  <2>2. call[s] \in Ingests /\ left[s] = 1 /\ pc[s] = "run"
    BY <1>8, StatementKinds DEF Insert, NextStatement
  <2>3. /\ call' = call /\ pc' = pc /\ target' = target /\ deleted' = deleted
        /\ inserted'[s] = Incoming(s)
    BY <1>8, <2>1 DEF Insert
  <2>4. call[s].op = "ingest"
    BY <2>2 DEF Ingests
  <2>5. ~Empty(call[s].chunking)
    BY <2>2, <2>4 DEF WorkInv, WorkOf, IngestWork
  <2>6. IngestWork(s)'
    BY <2>2, <2>3, <2>5 DEF IngestWork, Unstarted, Incoming
  <2>7. WorkOf(s)'
    BY <2>3, <2>4, <2>6 DEF WorkOf
  <2>8. QED
    BY <1>8, <2>7, WorkOfOthers DEF Insert
<1>9. ASSUME NEW s \in Session, InsertFails(s) PROVE WorkInv'
  <2>1. call[s] \in Ingests /\ left[s] = 1 /\ pc[s] = "run"
    BY <1>9, StatementKinds DEF InsertFails, NextStatement
  <2>2. call[s].op = "ingest"
    BY <2>1 DEF Ingests
  <2>3. ~Empty(call[s].chunking)
    BY <2>1, <2>2 DEF WorkInv, WorkOf, IngestWork
  <2>4. IngestWork(s)'
    BY <1>9, <2>3 DEF InsertFails, IngestWork, Unstarted
  <2>5. WorkOf(s)'
    BY <1>9, <2>2, <2>4 DEF InsertFails, WorkOf
  <2>6. QED
    BY <1>9, <2>5, WorkOfOthers DEF InsertFails
<1>10. ASSUME NEW s \in Session, Commit(s) PROVE WorkInv'
  BY <1>10, WorkCommit
<1>11. ASSUME NEW s \in Session, Return(s) PROVE WorkInv'
  <2>1. WorkOf(s)'
    BY <1>11 DEF Return, Leave, WorkInv, WorkOf
  <2>2. QED
    BY <1>11, <2>1, WorkOfOthers DEF Return, Leave
<1>12. ASSUME NEW s \in Session, Raise(s) PROVE WorkInv'
  <2>1. WorkOf(s)'
    BY <1>12 DEF Raise, WorkInv, WorkOf, IngestWork, RemoveWork, Unstarted
  <2>2. QED
    BY <1>12, <2>1, WorkOfOthers DEF Raise
<1>13. ASSUME NEW s \in Session, Rollback(s) PROVE WorkInv'
  <2>1. WorkOf(s)'
    BY <1>13 DEF Rollback, Leave, Discard, WorkInv, WorkOf
  <2>2. QED
    BY <1>13, <2>1, WorkOfOthers DEF Rollback, Leave, Discard
<1>14. CASE UNCHANGED vars
  BY <1>14 DEF vars, WorkInv, WorkOf, IngestWork, RemoveWork, Covers, Incoming
<1>15. QED
  BY <1>1, <1>2, <1>3, <1>4, <1>5, <1>6, <1>7, <1>8, <1>9, <1>10, <1>11, <1>12, <1>13, <1>14
     DEF Next, Step

LEMMA AllInvariant == Spec => []AllInv
<1>1. Init => AllInv
  BY TypeInit, PinInit, WholeInit, WorkInit DEF AllInv
<1>2. AllInv /\ [Next]_vars => AllInv'
  BY TypeStep, PinStep, ScopeStep, WholeStep, WorkStep, AppliedStep DEF AllInv
<1>3. QED
  BY <1>1, <1>2, PTL DEF Spec

(***************************************************************************)
(* The chunking served for a document.                                     *)
(***************************************************************************)

LEMMA ServedRow ==
    ASSUME NEW R, WholeDocuments(R), NEW r \in R
    PROVE  Served(R, r.ns, r.doc) = r.chunking
<1>1. RowsOfDocument(R, r.ns, r.doc) = RowsOf(r.ns, {r.doc}, r.chunking)
  BY DEF WholeDocuments
<1>2. \A q \in RowsOfDocument(R, r.ns, r.doc) : q.chunking = r.chunking
  BY <1>1, RowsOfMember
<1>3. r \in RowsOfDocument(R, r.ns, r.doc)
  BY DEF RowsOfDocument
<1>4. {q.chunking : q \in RowsOfDocument(R, r.ns, r.doc)} = {r.chunking}
  BY <1>2, <1>3
<1>5. QED
  BY <1>4 DEF Served

LEMMA ServedNone ==
    ASSUME NEW R, NEW n, NEW d, \A r \in R : ~(r.ns = n /\ r.doc = d)
    PROVE  Served(R, n, d) = None
<1>1. RowsOfDocument(R, n, d) = {}
  BY DEF RowsOfDocument
<1>2. QED
  BY <1>1 DEF Served

LEMMA ServedFrame ==
    ASSUME NEW R, NEW Q, NEW n, NEW d,
           \A r : r.ns = n /\ r.doc = d => (r \in R <=> r \in Q)
    PROVE  Served(Q, n, d) = Served(R, n, d)
<1>1. RowsOfDocument(R, n, d) = RowsOfDocument(Q, n, d)
  BY DEF RowsOfDocument
<1>2. QED
  BY <1>1 DEF Served

(* A step that leaves the table alone leaves the corpus alone.             *)
LEMMA CorpusFrame ==
    rows' = rows =>
      [n \in Namespace |-> [d \in Document |-> Served(rows, n, d)]]'
        = [n \in Namespace |-> [d \in Document |-> Served(rows, n, d)]]
BY DEF Served, RowsOfDocument

(***************************************************************************)
(* A COMMIT is where a call takes effect.                                  *)
(***************************************************************************)

(* What a COMMIT does to the chunking served for each document, and to     *)
(* what the other calls owe.                                               *)
LEMMA CommitServes ==
    ASSUME AllInv, NEW s \in Session, Commit(s)
    PROVE  /\ rows' = (rows \ deleted[s]) \cup inserted[s]
           /\ WholeDocuments(rows) /\ WholeDocuments(rows')
           /\ deleted[s] \subseteq rows /\ Closed(deleted[s], rows)
           /\ InScope(deleted[s], call[s]) /\ InScope(inserted[s], call[s])
           /\ call[s] \in Call /\ call[s] # None
           /\ \A n \in Namespace, d \in Document :
                ~(n = call[s].ns /\ d \in call[s].docs) => Served(rows', n, d) = Served(rows, n, d)
<1> USE DEF AllInv, TypeInv, TypeOK, PlaceInv
<1>1. rows' = (rows \ deleted[s]) \cup inserted[s] /\ pc[s] = "run"
  BY DEF Commit
<1>2. WholeDocuments(rows) /\ WholeDocuments(rows')
  BY WholeCommit DEF WholeInv, OneChunking
<1>3. call[s] \in Call /\ call[s] # None
  BY <1>1
<1>4. InScope(deleted[s], call[s]) /\ InScope(inserted[s], call[s])
  BY <1>3 DEF ScopeInv
<1>5. deleted[s] \subseteq rows /\ Closed(deleted[s], rows)
  BY DEF WholeInv, DeleteInv
<1>6. ASSUME NEW n \in Namespace, NEW d \in Document, ~(n = call[s].ns /\ d \in call[s].docs)
      PROVE  Served(rows', n, d) = Served(rows, n, d)
  <2>1. \A r : r.ns = n /\ r.doc = d => (r \in rows <=> r \in rows')
    BY <1>1, <1>4, <1>6 DEF InScope
  <2>2. QED
    BY <2>1, ServedFrame
<1>7. QED
  BY <1>1, <1>2, <1>3, <1>4, <1>5, <1>6

LEMMA PutServes ==
    ASSUME NEW n \in Namespace, NEW D, NEW x,
           \A m \in Namespace, d \in Document :
              Served(rows', m, d) = IF m = n /\ d \in D THEN x ELSE Served(rows, m, d)
    PROVE  Promise!Put(n, D, x)
<1> DEFINE before == [m \in Namespace |-> [d \in Document |-> Served(rows, m, d)]]
           after == [m \in Namespace |-> [d \in Document |-> Served(rows', m, d)]]
<1>1. before' = after
  BY DEF Served, RowsOfDocument
<1>2. \A d \in Document : before[n][d] = Served(rows, n, d)
  OBVIOUS
<1>3. after = [before EXCEPT ![n] =
                  [d \in Document |-> IF d \in D THEN x ELSE before[n][d]]]
  BY <1>2
<1>4. QED
  BY <1>1, <1>3 DEF Promise!Put

LEMMA CommitIngest ==
    ASSUME AllInv, NEW s \in Session, Commit(s), call[s].op = "ingest"
    PROVE  Promise!ApplyIngest(s)
<1> USE DEF AllInv, TypeInv, TypeOK, PlaceInv
<1>1. pc[s] = "run" /\ left[s] = 0 /\ call[s] # None
  BY DEF Commit
<1>2. IngestWork(s)
  BY <1>1 DEF WorkInv, WorkOf
<1>3. CASE Empty(call[s].chunking)
  <2>1. deleted[s] = {} /\ inserted[s] = {}
    BY <1>2, <1>3 DEF IngestWork
  <2>2. rows' = rows
    BY <2>1 DEF Commit
  <2>3. DocumentsOf(deleted[s] \cup inserted[s]) = {}
    BY <2>1 DEF DocumentsOf
  <2>4. owed' = owed
    BY <2>3 DEF Commit
  <2>5. QED
    BY <1>3, <2>2, <2>4, CorpusFrame DEF Promise!ApplyIngest, Promise!Empty, Empty
<1>4. CASE ~Empty(call[s].chunking)
  <2> DEFINE k == call[s]
  <2>1. inserted[s] = RowsOf(k.ns, k.docs, k.chunking)
    BY <1>1, <1>2, <1>4 DEF IngestWork, Incoming
  <2>2. k \in Ingests
    BY <1>1, CallKinds
  <2>3. ASSUME NEW d \in k.docs
        PROVE  [ns |-> k.ns, doc |-> d, ord |-> 0, chunking |-> k.chunking] \in inserted[s]
    <3>1. ChunkCount[k.chunking] \in Nat
      BY <2>2, ChunkCountAssumption DEF Ingests
    <3>2. 0 \in 0..(ChunkCount[k.chunking] - 1)
      BY <1>4, <3>1 DEF Empty
    <3>3. QED
      BY <2>1, <3>2, RowsOfMember
  <2>4. ASSUME NEW d \in k.docs PROVE Served(rows', k.ns, d) = k.chunking
    <3> DEFINE r == [ns |-> k.ns, doc |-> d, ord |-> 0, chunking |-> k.chunking]
    <3>1. r \in rows' /\ WholeDocuments(rows')
      BY <2>3, CommitServes
    <3>2. Served(rows', r.ns, r.doc) = r.chunking
      BY ONLY <3>1, ServedRow
    <3>3. QED
      BY <3>2
  <2>5. DocumentsOf(deleted[s] \cup inserted[s]) = k.docs
    <3>1. ASSUME NEW d \in k.docs PROVE d \in DocumentsOf(inserted[s])
      <4> DEFINE r == [ns |-> k.ns, doc |-> d, ord |-> 0, chunking |-> k.chunking]
      <4>1. r \in inserted[s] /\ r.doc = d
        BY <2>3
      <4> HIDE DEF r
      <4>2. QED
        BY ONLY <4>1 DEF DocumentsOf
    <3>2. \A r \in deleted[s] \cup inserted[s] : r.doc \in k.docs
      BY CommitServes DEF InScope
    <3>3. QED
      BY <3>1, <3>2 DEF DocumentsOf
  <2>6. Promise!Rewrite(s, k.ns, k.docs)
    BY <2>5 DEF Commit, Promise!Rewrite
  <2>7. Promise!Put(k.ns, k.docs, k.chunking)
    <3>1. k.ns \in Namespace
      BY <2>2 DEF Ingests
    <3>2. \A m \in Namespace, d \in Document :
            Served(rows', m, d) = IF m = k.ns /\ d \in k.docs THEN k.chunking
                                  ELSE Served(rows, m, d)
      BY <2>4, CommitServes
    <3>3. QED
      BY ONLY <3>1, <3>2, PutServes
  <2>8. QED
    BY <1>4, <2>6, <2>7 DEF Promise!ApplyIngest, Promise!Empty, Empty
<1>5. QED
  BY <1>3, <1>4

LEMMA CommitRemove ==
    ASSUME AllInv, NEW s \in Session, Commit(s), call[s].op \in {"delete", "purge"}
    PROVE  Promise!ApplyRemove(s)
<1> USE DEF AllInv, TypeInv, TypeOK, PlaceInv
<1> DEFINE k == call[s]
           D == DocumentsOf(deleted[s]) \cup (owed[s] \cap k.docs)
<1>1. pc[s] = "run" /\ left[s] = 0 /\ k # None
  BY DEF Commit
<1>2. Covers(deleted[s], s) /\ inserted[s] = {}
  BY <1>1 DEF WorkInv, WorkOf, RemoveWork
<1>3. D \subseteq k.docs
  BY CommitServes DEF InScope, DocumentsOf
<1>4. ASSUME NEW d \in D PROVE Served(rows', k.ns, d) = None
  <2>1. ASSUME NEW r \in rows, r.ns = k.ns, r.doc = d PROVE r \in deleted[s]
    <3>1. CASE d \in DocumentsOf(deleted[s])
      <4>1. PICK q \in deleted[s] : q.doc = d
        BY <3>1 DEF DocumentsOf
      <4>2. q.ns = k.ns
        BY CommitServes DEF InScope
      <4>3. QED
        BY <2>1, <4>1, <4>2, CommitServes DEF Closed
    <3>2. CASE d \in owed[s] \cap k.docs
      BY <1>2, <2>1, <3>2 DEF Covers
    <3>3. QED
      BY <3>1, <3>2
  <2>2. \A r \in rows' : ~(r.ns = k.ns /\ r.doc = d)
    BY <1>2, <2>1, CommitServes
  <2>3. QED
    BY ONLY <2>2, ServedNone
<1>5. ASSUME NEW n \in Namespace, NEW d \in Document, ~(n = k.ns /\ d \in D)
      PROVE  Served(rows', n, d) = Served(rows, n, d)
  <2>1. \A r : r.ns = n /\ r.doc = d => (r \in rows <=> r \in rows')
    BY <1>2, <1>5, CommitServes DEF InScope, DocumentsOf
  <2>2. QED
    BY <2>1, ServedFrame
<1>6. Promise!Put(k.ns, D, None)
  <2>1. k.ns \in Namespace
    BY CommitServes, CallKinds
  <2>2. \A m \in Namespace, d \in Document :
          Served(rows', m, d) = IF m = k.ns /\ d \in D THEN None ELSE Served(rows, m, d)
    BY <1>4, <1>5
  <2>3. QED
    BY ONLY <2>1, <2>2, PutServes
<1>7. DocumentsOf(deleted[s] \cup inserted[s]) = {d \in D : Served(rows, k.ns, d) # None}
  <2>1. ASSUME NEW d \in DocumentsOf(deleted[s]) PROVE Served(rows, k.ns, d) # None
    <3>1. PICK r \in deleted[s] : r.doc = d
      BY <2>1 DEF DocumentsOf
    <3>2. r.ns = k.ns /\ r \in rows /\ WholeDocuments(rows)
      BY CommitServes DEF InScope
    <3>3. Served(rows, r.ns, r.doc) = r.chunking
      BY <3>2, ServedRow
    <3>4. r.chunking \in Chunking
      BY <3>2 DEF Row
    <3>5. QED
      BY <3>1, <3>2, <3>3, <3>4, NoneAssumption
  <2>2. ASSUME NEW d \in D, Served(rows, k.ns, d) # None PROVE d \in DocumentsOf(deleted[s])
    <3>1. PICK r \in rows : r.ns = k.ns /\ r.doc = d
      BY <2>2, ServedNone
    <3>2. CASE d \in owed[s] \cap k.docs
      BY <1>2, <3>1, <3>2 DEF Covers, DocumentsOf
    <3>3. QED
      BY <3>2
  <2>3. QED
    BY <1>2, <2>1, <2>2
<1>8. Promise!Rewrite(s, k.ns, {d \in D : Served(rows, k.ns, d) # None})
  BY <1>7 DEF Commit, Promise!Rewrite
<1>9. k.ns \in Namespace /\ k.docs \subseteq Document
  BY CommitServes, CallKinds
<1>10. QED
  <2> DEFINE corpus == [n \in Namespace |-> [d \in Document |-> Served(rows, n, d)]]
             live == {d \in D : corpus[k.ns][d] # None}
  <2>1. live = {d \in D : Served(rows, k.ns, d) # None}
    BY <1>3, <1>9
  <2>2. Promise!Rewrite(s, k.ns, live)
    BY ONLY <1>8, <2>1
  <2>3. D \in SUBSET k.docs /\ owed[s] \cap k.docs \subseteq D
    BY <1>3
  <2>4. QED
    BY <1>6, <2>2, <2>3 DEF Promise!ApplyRemove

LEMMA CommitApplies ==
    ASSUME AllInv, NEW s \in Session, Commit(s)
    PROVE  Promise!Apply(s)
<1>1. call[s] # None /\ applied[s] = FALSE /\ call[s] \in Call
  BY CommitServes DEF AllInv, AppliedInv, Commit
<1>2. /\ applied' = [applied EXCEPT ![s] = TRUE]
      /\ call' = call /\ result' = result
  BY DEF Commit
<1>3. CASE call[s].op = "query"
  <2>1. deleted[s] = {} /\ inserted[s] = {}
    BY <1>1, <1>3 DEF AllInv, ScopeInv
  <2>2. rows' = rows /\ DocumentsOf(deleted[s] \cup inserted[s]) = {}
    BY <2>1 DEF Commit, DocumentsOf
  <2>3. owed' = owed
    BY <2>2 DEF Commit, AllInv, TypeInv, TypeOK
  <2>4. Promise!ApplyQuery(s)
    BY <1>3, <2>2, <2>3, CorpusFrame DEF Promise!ApplyQuery
  <2>5. QED
    BY <1>1, <1>2, <2>4 DEF Promise!Apply
<1>4. CASE call[s].op = "ingest"
  BY <1>1, <1>2, <1>4, CommitIngest DEF Promise!Apply
<1>5. CASE call[s].op \in {"delete", "purge"}
  BY <1>1, <1>2, <1>5, CommitRemove DEF Promise!Apply
<1>6. QED
  BY <1>1, <1>3, <1>4, <1>5, CallKinds

(***************************************************************************)
(* Every step of the store is a step of the promise or none.               *)
(***************************************************************************)

(* A step that is not seen by the caller.                                  *)
LEMMA Stutter ==
    ASSUME rows' = rows, UNCHANGED <<call, applied, owed, result>>
    PROVE  UNCHANGED Promise!vars
BY CorpusFrame DEF Promise!vars

LEMMA PromiseInit == Init => Promise!Init
<1> SUFFICES ASSUME Init PROVE Promise!Init
  OBVIOUS
<1>1. \A n \in Namespace, d \in Document : Served(rows, n, d) = None
  BY ServedNone DEF Init
<1>2. QED
  BY <1>1 DEF Init, Promise!Init

LEMMA PromiseStep == AllInv /\ [Next]_vars => [Promise!Next]_(Promise!vars)
<1> SUFFICES ASSUME AllInv, [Next]_vars
             PROVE  Promise!Next \/ UNCHANGED Promise!vars
  OBVIOUS
<1> USE DEF pinVars, txnVars
<1>1. ASSUME NEW s \in Session, NEW k \in Call, Begin(s, k) PROVE Promise!Begin(s, k)
  <2>1. call[s] = None
    BY <1>1 DEF Begin, AllInv, TypeInv, PlaceInv
  <2>2. QED
    BY <1>1, <2>1, CorpusFrame DEF Begin, Promise!Begin
<1>2. ASSUME NEW s \in Session, Commit(s) PROVE Promise!Apply(s)
  BY <1>2, CommitApplies
<1>3. ASSUME NEW s \in Session, Return(s) PROVE Promise!Return(s, "ok")
  <2>1. call[s] # None /\ applied[s] = TRUE
    BY <1>3 DEF Return, AllInv, TypeInv, PlaceInv, AppliedInv
  <2>2. QED
    BY <1>3, <2>1, CorpusFrame DEF Return, Leave, Promise!Return
<1>4. ASSUME NEW s \in Session, Rollback(s) PROVE Promise!Return(s, "failed")
  <2>1. call[s] # None
    BY <1>4 DEF Rollback, AllInv, TypeInv, PlaceInv
  <2>2. QED
    BY <1>4, <2>1, CorpusFrame DEF Rollback, Leave, Promise!Return
<1>5. ASSUME NEW s \in Session,
             \/ Checkout(s) \/ SetRole(s) \/ Bind(s) \/ Search(s) \/ BeginDelete(s)
             \/ FinishDelete(s) \/ Insert(s) \/ InsertFails(s) \/ Raise(s)
      PROVE  UNCHANGED Promise!vars
  BY <1>5, Stutter DEF Checkout, SetRole, Bind, Search, BeginDelete, FinishDelete, Insert,
                       InsertFails, Raise
<1>6. CASE UNCHANGED vars
  BY <1>6, Stutter DEF vars
<1>7. QED
  BY <1>1, <1>2, <1>3, <1>4, <1>5, <1>6
     DEF Next, Step, Promise!Next, Promise!Call, Promise!Ingests, Promise!Deletes,
         Promise!Purges, Promise!Queries, Call, Ingests, Deletes, Purges, Queries

(* The store keeps the promise of Corpus: every call takes effect at most  *)
(* once and all at once, before it returns "ok", whatever the other        *)
(* sessions do and wherever it fails.                                      *)
THEOREM StoreImplementsCorpus == Spec => ImplementsCorpus
<1>1. Init => Promise!Init
  BY PromiseInit
<1>2. AllInv /\ [Next]_vars => [Promise!Next]_(Promise!vars)
  BY PromiseStep
<1>3. QED
  BY <1>1, <1>2, AllInvariant, PTL DEF Spec, ImplementsCorpus, Promise!Spec
=============================================================================
