---------------------------- MODULE ScopedStore ----------------------------
(***************************************************************************)
(* The scoped sessions of ragsage over one Postgres table.                 *)
(*                                                                         *)
(* Every call of RagSage (sage.py) opens a session on the pool, binds the  *)
(* transaction to a role and a namespace (storage/session.py), runs the    *)
(* statements of the stores (storage/stores.py) under the row-level        *)
(* security policy (storage/schema.py), commits and gives the connection   *)
(* back.  A step of a session is one round trip to the server; any call    *)
(* may raise or be cancelled at any await.                                 *)
(*                                                                         *)
(* Postgres itself is modelled as READ COMMITTED behaves: a statement sees *)
(* what was committed when it began, a DELETE waits for the rows another   *)
(* transaction has deleted and skips those that are gone when it ends, an  *)
(* INSERT waits for an uncommitted row of the same primary key and fails   *)
(* on a committed one.                                                     *)
(***************************************************************************)
EXTENDS Calls

CONSTANT
    Conn         \* connections of the pool: pool_size + max_overflow of them

ASSUME ConnAssumption == None \notin Conn

VARIABLES
    rows,     \* the committed rows of ragsage_chunks
    role,     \* role[c]: the current role of connection c
    bound,    \* bound[c]: the isolation variable of connection c, None when unset
    pc,       \* pc[s]: where session s is in its call
    call,     \* call[s]: the call s makes, or None
    held,     \* held[s]: the connection s has checked out, or None
    left,     \* left[s]: how many statements the call has still to run
    target,   \* target[s]: rows the DELETE of s found and has not deleted yet
    deleted,  \* deleted[s]: rows s deleted and has not committed
    inserted, \* inserted[s]: rows s inserted and has not committed
    seen,     \* seen[s]: the results of the searches of the call
    applied,  \* applied[s]: the server committed the transaction of the call
    owed,     \* owed[s]: (history) documents nobody rewrote since the call began
    result    \* result[s]: what the last call returned

pinVars == <<role, bound>>
txnVars == <<target, deleted, inserted>>
vars == <<rows, role, bound, pc, call, held, left, target, deleted, inserted, seen,
          applied, owed, result>>

-----------------------------------------------------------------------------
(* Rows.  chunk_ref is "<document>:<ordinal>", and the chunker numbers the *)
(* chunks of a document from zero.                                         *)

Row == {r \in [ns : Namespace, doc : Document, ord : Nat, chunking : Chunking] :
            r.ord < ChunkCount[r.chunking]}

SameKey(r, q) == r.ns = q.ns /\ r.doc = q.doc /\ r.ord = q.ord

(* Mutant: the chunks of a document are numbered from one.                 *)
RowsOfFromOne(n, D, x) ==
    {[ns |-> n, doc |-> d, ord |-> i, chunking |-> x] : d \in D, i \in 1..ChunkCount[x]}

(* All the rows of chunking x of the documents D.                          *)
RowsOf(n, D, x) ==
    {[ns |-> n, doc |-> d, ord |-> i, chunking |-> x] : d \in D, i \in 0..(ChunkCount[x] - 1)}

RowsOfDocument(R, n, d) == {r \in R : r.ns = n /\ r.doc = d}

DocumentsOf(R) == {r.doc : r \in R}

(* The rows the INSERT of session s brings.                                *)
Incoming(s) == RowsOf(call[s].ns, call[s].docs, call[s].chunking)

(* The policy: USING and WITH CHECK (namespace = current_setting(...)).    *)
(* The role the pool connects with may bypass it.                          *)
PolicyAdmits(c, r) == role[c] = "owner" \/ r.ns = bound[c]

(* What a statement of session s that begins now can see.                  *)
Snapshot(s) ==
    {r \in (rows \ deleted[s]) \cup inserted[s] : PolicyAdmits(held[s], r)}

(* The rows session s would delete, were a DELETE to begin now.            *)
(* Mutant: an upsert deletes only the chunk refs it is about to insert.    *)
DoomedByRef(s) ==
    {r \in Snapshot(s) : /\ r.doc \in call[s].docs
                         /\ call[s].op = "ingest" => \E q \in Incoming(s) : SameKey(q, r)}

Doomed(s) == {r \in Snapshot(s) : r.doc \in call[s].docs}

(* Only a collection of ids is a filter: an absent one and a bare id are   *)
(* both taken for none.                                                    *)
Filters(k) == k.filter = "collection"

(* Mutant: an empty filter is taken for no filter.                         *)
FoundTruthy(s) ==
    {r \in Snapshot(s) : Filters(call[s]) /\ call[s].docs # {} => r.doc \in call[s].docs}

(* What a search of session s returns under its document filter.  The      *)
(* limit of the search is left out: it returns all it could return.        *)
Found(s) == {r \in Snapshot(s) : Filters(call[s]) => r.doc \in call[s].docs}

(* An ingest without a chunk runs no statement.                            *)
Replacements(x) == IF Empty(x) THEN 0 ELSE 2

(* Each of the three stores deletes the document.                          *)
Deletions == 3

(* A query in small talk searches nothing, one whose resolved question is  *)
(* blank runs the dense search alone.                                      *)
Searches == 0..2

(* How many statements a call runs after the isolation preamble.           *)
StatementCounts(k) ==
    CASE k.op = "ingest" -> {Replacements(k.chunking)}
      [] k.op = "delete" -> {Deletions}
      [] k.op = "purge"  -> {1}
      [] k.op = "query"  -> Searches

(* Mutant: an upsert inserts before it deletes.                            *)
StatementInsertFirst(k, n) ==
    CASE k.op = "ingest" -> IF n = 1 THEN "delete" ELSE "insert"
      [] k.op \in {"delete", "purge"} -> "delete"
      [] k.op = "query" -> "search"

(* The statement a call runs when it has n left.                           *)
Statement(k, n) ==
    CASE k.op = "ingest" -> IF n = 1 THEN "insert" ELSE "delete"
      [] k.op \in {"delete", "purge"} -> "delete"
      [] k.op = "query" -> "search"

TypeOK ==
    /\ rows \subseteq Row
    /\ role \in [Conn -> {"owner", "app"}]
    /\ bound \in [Conn -> Namespace \cup {None}]
    /\ pc \in [Session -> {"idle", "queued", "role", "bind", "run", "deleting",
                           "committed", "closing"}]
    /\ call \in [Session -> Call \cup {None}]
    /\ held \in [Session -> Conn \cup {None}]
    /\ left \in [Session -> 0..3]
    /\ target \in [Session -> SUBSET Row]
    /\ deleted \in [Session -> SUBSET Row]
    /\ inserted \in [Session -> SUBSET Row]
    /\ seen \in [Session -> SUBSET SUBSET Row]
    /\ applied \in [Session -> BOOLEAN]
    /\ owed \in [Session -> SUBSET Document]
    /\ result \in [Session -> {"none", "ok", "failed"}]

Init ==
    /\ rows = {}
    /\ role = [c \in Conn |-> "owner"]
    /\ bound = [c \in Conn |-> None]
    /\ pc = [s \in Session |-> "idle"]
    /\ call = [s \in Session |-> None]
    /\ held = [s \in Session |-> None]
    /\ left = [s \in Session |-> 0]
    /\ target = [s \in Session |-> {}]
    /\ deleted = [s \in Session |-> {}]
    /\ inserted = [s \in Session |-> {}]
    /\ seen = [s \in Session |-> {}]
    /\ applied = [s \in Session |-> FALSE]
    /\ owed = [s \in Session |-> {}]
    /\ result = [s \in Session |-> "none"]

-----------------------------------------------------------------------------
(* RagSage.ingest, query, delete_document or purge is called.              *)
Begin(s, k) ==
    /\ pc[s] = "idle"
    /\ pc' = [pc EXCEPT ![s] = "queued"]
    /\ call' = [call EXCEPT ![s] = k]
    /\ \E n \in StatementCounts(k) : left' = [left EXCEPT ![s] = n]
    /\ owed' = [owed EXCEPT ![s] = Document]
    /\ result' = [result EXCEPT ![s] = "none"]
    /\ UNCHANGED <<rows, pinVars, held, txnVars, seen, applied>>

(* The first execute of the session takes a connection and opens a         *)
(* transaction on it.                                                      *)
Checkout(s) ==
    /\ pc[s] = "queued"
    /\ \E c \in Conn :
         /\ \A o \in Session : held[o] # c
         /\ held' = [held EXCEPT ![s] = c]
    /\ pc' = [pc EXCEPT ![s] = "role"]
    /\ UNCHANGED <<rows, pinVars, call, left, txnVars, seen, applied, owed, result>>

(* Mutant: the preamble binds the namespace and leaves the role.           *)
SetRoleNot(s) ==
    /\ pc[s] = "role"
    /\ pc' = [pc EXCEPT ![s] = "bind"]
    /\ UNCHANGED <<rows, pinVars, call, held, left, txnVars, seen, applied, owed, result>>

(* SET LOCAL ROLE "<app_role>"                                             *)
SetRole(s) ==
    /\ pc[s] = "role"
    /\ role' = [role EXCEPT ![held[s]] = "app"]
    /\ pc' = [pc EXCEPT ![s] = "bind"]
    /\ UNCHANGED <<rows, bound, call, held, left, txnVars, seen, applied, owed, result>>

(* SELECT set_config(<variable>, <namespace>, true)                        *)
Bind(s) ==
    /\ pc[s] = "bind"
    /\ bound' = [bound EXCEPT ![held[s]] = call[s].ns]
    /\ pc' = [pc EXCEPT ![s] = "run"]
    /\ UNCHANGED <<rows, role, call, held, left, txnVars, seen, applied, owed, result>>

(* The next statement of session s is kind.                                *)
NextStatement(s, kind) ==
    /\ pc[s] = "run"
    /\ left[s] > 0
    /\ Statement(call[s], left[s]) = kind

(* A dense or a lexical search.                                            *)
Search(s) ==
    /\ NextStatement(s, "search")
    /\ seen' = [seen EXCEPT ![s] = @ \cup {Found(s)}]
    /\ left' = [left EXCEPT ![s] = @ - 1]
    /\ UNCHANGED <<rows, pinVars, pc, call, held, txnVars, applied, owed, result>>

(* DELETE ... WHERE rag_document_id IN (...), or no WHERE for a purge: the *)
(* rows to delete are those the statement sees when it begins.             *)
BeginDelete(s) ==
    /\ NextStatement(s, "delete")
    /\ target' = [target EXCEPT ![s] = Doomed(s)]
    /\ pc' = [pc EXCEPT ![s] = "deleting"]
    /\ UNCHANGED <<rows, pinVars, call, held, left, deleted, inserted, seen,
                   applied, owed, result>>

(* The rows of target[s] no other transaction has deleted and not yet      *)
(* committed: the DELETE waits for the others.                             *)
Unlocked(s) ==
    \A o \in Session \ {s} : target[s] \cap deleted[o] = {}

FinishDelete(s) ==
    /\ pc[s] = "deleting"
    /\ Unlocked(s)
    /\ deleted' = [deleted EXCEPT ![s] = @ \cup (target[s] \ inserted[s])]
    /\ inserted' = [inserted EXCEPT ![s] = @ \ target[s]]
    /\ target' = [target EXCEPT ![s] = {}]
    /\ left' = [left EXCEPT ![s] = @ - 1]
    /\ pc' = [pc EXCEPT ![s] = "run"]
    /\ UNCHANGED <<rows, pinVars, call, held, seen, applied, owed, result>>

(* A row of another transaction, not committed, that the INSERT of s would *)
(* collide with: it waits to learn that transaction's fate.                *)
Uncontended(s) ==
    \A o \in Session \ {s} : \A q \in deleted[o] \cup inserted[o] :
        \A r \in Incoming(s) : ~SameKey(r, q)

(* PRIMARY KEY (namespace, chunk_ref), and WITH CHECK of the policy.       *)
Insertable(s) ==
    \A r \in Incoming(s) :
        /\ PolicyAdmits(held[s], r)
        /\ \A q \in rows \ deleted[s] : ~SameKey(r, q)

Insert(s) ==
    /\ NextStatement(s, "insert")
    /\ Uncontended(s)
    /\ Insertable(s)
    /\ inserted' = [inserted EXCEPT ![s] = @ \cup Incoming(s)]
    /\ left' = [left EXCEPT ![s] = @ - 1]
    /\ UNCHANGED <<rows, pinVars, pc, call, held, target, deleted, seen,
                   applied, owed, result>>

InsertFails(s) ==
    /\ NextStatement(s, "insert")
    /\ Uncontended(s)
    /\ ~Insertable(s)
    /\ pc' = [pc EXCEPT ![s] = "closing"]
    /\ UNCHANGED <<rows, pinVars, call, held, left, txnVars, seen, applied, owed, result>>

(* Mutant: set_config is not is_local.                                     *)
UnpinRoleOnly(c) ==
    /\ role' = [d \in Conn |-> IF d = c THEN "owner" ELSE role[d]]
    /\ UNCHANGED bound

(* The end of a transaction, however it ends, takes back what was SET      *)
(* LOCAL on its connection.                                                *)
Unpin(c) ==
    /\ role' = [d \in Conn |-> IF d = c THEN "owner" ELSE role[d]]
    /\ bound' = [d \in Conn |-> IF d = c THEN None ELSE bound[d]]

(* await session.commit(), as the server sees it.  A DELETE that waited    *)
(* for this transaction skips the rows it deleted.                         *)
Commit(s) ==
    /\ pc[s] = "run"
    /\ left[s] = 0
    /\ rows' = (rows \ deleted[s]) \cup inserted[s]
    /\ target' = [o \in Session |-> target[o] \ deleted[s]]
    /\ deleted' = [deleted EXCEPT ![s] = {}]
    /\ inserted' = [inserted EXCEPT ![s] = {}]
    /\ Unpin(held[s])
    /\ pc' = [pc EXCEPT ![s] = "committed"]
    /\ applied' = [applied EXCEPT ![s] = TRUE]
    /\ owed' = [o \in Session |->
                   IF o # s /\ call[o] # None /\ call[o].ns = call[s].ns
                   THEN owed[o] \ DocumentsOf(deleted[s] \cup inserted[s]) ELSE owed[o]]
    /\ UNCHANGED <<call, held, left, seen, result>>

(* Mutant: the session is not closed, its connection stays checked out.    *)
LeaveUnclosed(s, outcome) ==
    /\ pc' = [pc EXCEPT ![s] = "idle"]
    /\ call' = [call EXCEPT ![s] = None]
    /\ UNCHANGED held
    /\ left' = [left EXCEPT ![s] = 0]
    /\ seen' = [seen EXCEPT ![s] = {}]
    /\ applied' = [applied EXCEPT ![s] = FALSE]
    /\ owed' = [owed EXCEPT ![s] = {}]
    /\ result' = [result EXCEPT ![s] = outcome]

(* The call is over: nothing of it is left but its result.                 *)
Leave(s, outcome) ==
    /\ pc' = [pc EXCEPT ![s] = "idle"]
    /\ call' = [call EXCEPT ![s] = None]
    /\ held' = [held EXCEPT ![s] = None]
    /\ left' = [left EXCEPT ![s] = 0]
    /\ seen' = [seen EXCEPT ![s] = {}]
    /\ applied' = [applied EXCEPT ![s] = FALSE]
    /\ owed' = [owed EXCEPT ![s] = {}]
    /\ result' = [result EXCEPT ![s] = outcome]

(* The answer to the COMMIT arrived, the session closes and its connection *)
(* is back in the pool.                                                    *)
Return(s) ==
    /\ pc[s] = "committed"
    /\ Leave(s, "ok")
    /\ UNCHANGED <<rows, pinVars, txnVars>>

(* Anything awaited in the call raises, the pool times out, the task is    *)
(* cancelled, the stream is closed by its consumer, or the answer to the   *)
(* COMMIT is lost.                                                         *)
Raise(s) ==
    /\ pc[s] \notin {"idle", "closing"}
    /\ pc' = [pc EXCEPT ![s] = "closing"]
    /\ UNCHANGED <<rows, pinVars, call, held, left, txnVars, seen, applied, owed, result>>

(* Mutant: the connection goes back with its transaction still open.       *)
DiscardNothing(s) == UNCHANGED txnVars

(* The server forgets what the transaction of s did, and frees its locks.  *)
Discard(s) ==
    /\ target' = [target EXCEPT ![s] = {}]
    /\ deleted' = [deleted EXCEPT ![s] = {}]
    /\ inserted' = [inserted EXCEPT ![s] = {}]

(* await session.rollback() where the except clause catches, the close of  *)
(* the session where it does not (a cancellation is no Exception).         *)
Rollback(s) ==
    /\ pc[s] = "closing"
    /\ Discard(s)
    /\ Unpin(held[s])
    /\ Leave(s, "failed")
    /\ UNCHANGED rows

Step(s) ==
    \/ Checkout(s) \/ SetRole(s) \/ Bind(s)
    \/ Search(s) \/ BeginDelete(s) \/ FinishDelete(s) \/ Insert(s) \/ InsertFails(s)
    \/ Commit(s) \/ Return(s) \/ Rollback(s)

Next == \E s \in Session : Step(s) \/ Raise(s) \/ \E k \in Call : Begin(s, k)

Spec == Init /\ [][Next]_vars
-----------------------------------------------------------------------------
(* What makes the store correct.                                           *)

(* Every document of R is there whole, in one chunking, or not at all.     *)
WholeDocuments(R) ==
    \A r \in R : RowsOfDocument(R, r.ns, r.doc) = RowsOf(r.ns, {r.doc}, r.chunking)

(* The committed table never holds chunks of two chunkings of a document,  *)
(* nor part of one: whatever two ingests, a delete and a purge of the same *)
(* document do to each other, and wherever they fail (the delete-then-     *)
(* insert of PgVectorStore.upsert, stores.py).                             *)
OneChunking == WholeDocuments(rows)

(* A search that runs while documents are replaced returns each document   *)
(* whole or not at all: a re-index is never seen half done.                *)
SearchesSeeWholeDocuments ==
    \A s \in Session : \A R \in seen[s] : WholeDocuments(R)

(* An answer is put together from one chunking of each document: the two   *)
(* searches of a query never disagree about a document both found.  (The   *)
(* code does not keep this: each search is a statement of its own, and a   *)
(* re-ingest may commit between them.)                                     *)
AnswersSeeOneChunking ==
    \A s \in Session : \A r, q \in UNION seen[s] :
        r.ns = q.ns /\ r.doc = q.doc => r.chunking = q.chunking

(* No search returns a row of another namespace, or of a document outside  *)
(* the collection of ids its scope filters by (none, if it is empty),      *)
(* whoever used the connection before.  A bare id filters nothing: see     *)
(* FiltersNarrow.                                                          *)
ReadsAreScoped ==
    \A s \in Session : \A r \in UNION seen[s] :
        r.ns = call[s].ns /\ (Filters(call[s]) => r.doc \in call[s].docs)

(* document_ids "narrows and never widens" (stores.py:27): a search of a   *)
(* scope that has it returns nothing but the documents it names.  (Not so: *)
(* a bare id is taken for no filter.  No run checks it.)                   *)
FiltersNarrow ==
    \A s \in Session : \A r \in UNION seen[s] :
        call[s].filter # "absent" => r.doc \in call[s].docs

(* A committed row appears or disappears only in the COMMIT of a call that *)
(* writes, addresses its document, and was made in its namespace.          *)
WritesAreScoped ==
    [][\A r \in (rows \ rows') \cup (rows' \ rows) :
         \E s \in Session :
            /\ pc[s] = "run" /\ pc'[s] = "committed"
            /\ call[s].op # "query"
            /\ r.ns = call[s].ns /\ r.doc \in call[s].docs]_vars

(* A connection nobody holds has neither the role nor the namespace of its *)
(* last borrower, whichever way the transaction ended (session.py).        *)
PoolIsClean ==
    \A c \in Conn : (\A s \in Session : held[s] # c) => role[c] = "owner" /\ bound[c] = None

(* The chunking the rows R serve for a document.                           *)
Served(R, n, d) ==
    LET found == {r.chunking : r \in RowsOfDocument(R, n, d)}
    IN  IF found = {} THEN None ELSE CHOOSE x \in found : TRUE

Promise == INSTANCE Corpus WITH
    corpus <- [n \in Namespace |-> [d \in Document |-> Served(rows, n, d)]],
    request <- call

(* The store keeps the promise: each call takes effect at most once, all   *)
(* at once, before it returns "ok", and a delete or a purge misses no      *)
(* document that nobody rewrote while it ran.                              *)
ImplementsCorpus == Promise!Spec

(* Every call ends, with its connection and its locks given back: sessions *)
(* that wait for the pool, or for each other's rows, never wait for ever.  *)
CallsReturn == \A s \in Session : pc[s] # "idle" ~> pc[s] = "idle"
=============================================================================
