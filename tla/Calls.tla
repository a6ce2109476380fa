------------------------------- MODULE Calls -------------------------------
(***************************************************************************)
(* The calls a consumer makes on RagSage (sage.py) that open a scoped      *)
(* session, shared by the promise (Corpus) and the design (ScopedStore).   *)
(***************************************************************************)
EXTENDS Naturals

CONSTANTS
    Session,     \* tasks of the consuming backend, each making one call at a time
    Namespace,   \* Scope.namespace values
    Document,    \* document ids
    Chunking,    \* the results the chunker can give for one document
    ChunkCount,  \* how many chunks each of them has
    None         \* no chunking, no call, no connection, no bound namespace

ASSUME ChunkCountAssumption == ChunkCount \in [Chunking -> Nat]

(* "docs" are the documents a call addresses: the one ingested or deleted, *)
(* all of them for a purge, those the document_ids of a query name (all of *)
(* them without it; a present, empty collection names none).  document_ids *)
(* is absent, one bare id (any value that is no collection), or a          *)
(* collection of ids.                                                      *)
Ingests == [op : {"ingest"}, ns : Namespace, docs : {{d} : d \in Document}, chunking : Chunking]
Deletes == [op : {"delete"}, ns : Namespace, docs : {{d} : d \in Document}, chunking : {None}]
Purges  == [op : {"purge"}, ns : Namespace, docs : {Document}, chunking : {None}]
Queries ==
    [op : {"query"}, ns : Namespace, docs : {Document}, chunking : {None}, filter : {"absent"}]
    \cup [op : {"query"}, ns : Namespace, docs : {{d} : d \in Document}, chunking : {None},
          filter : {"scalar"}]
    \cup [op : {"query"}, ns : Namespace, docs : SUBSET Document, chunking : {None},
          filter : {"collection"}]

Call == Ingests \cup Deletes \cup Purges \cup Queries

ASSUME NoneAssumption == None \notin Chunking \cup Namespace \cup Call

(* The chunking that produced nothing to store.                            *)
Empty(x) == ChunkCount[x] = 0
=============================================================================
