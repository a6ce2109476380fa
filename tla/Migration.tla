----------------------------- MODULE Migration -----------------------------
(***************************************************************************)
(* Database.migrate (storage/engine.py, storage/schema.py): processes that *)
(* start at once, each creating the one table of ragsage in a transaction  *)
(* of its own, while sessions of processes that run already use it.  A     *)
(* step is one statement.  What Postgres contributes are the locks: names  *)
(* in its catalogs are unique, so that who creates what another is         *)
(* creating waits for it; CREATE INDEX locks the table against writers,    *)
(* ALTER TABLE and DROP POLICY against everyone.                           *)
(***************************************************************************)
EXTENDS Naturals

CONSTANTS
    Migrator,   \* calls of migrate(), each of a process of its own
    Session,    \* transactions on the table
    Dim,        \* embedding widths
    Variable,   \* isolation variables
    None

(* What is created if it does not exist, each under a name of its own.     *)
Object == {"extension", "table", "role"}

(* PostgresConfig, as far as the schema depends on it.                     *)
Config == [dim : Dim, variable : Variable]

(* ragsage_chunks, as the catalogs describe it.                            *)
Table == [dim : Dim, indexed : BOOLEAN, granted : BOOLEAN,
          enabled : BOOLEAN, forced : BOOLEAN, policy : Variable \cup {None}]

ASSUME MigrationAssumption == None \notin Migrator \cup Variable \cup Table

Created(config) ==
    [dim |-> config.dim, indexed |-> FALSE, granted |-> FALSE,
     enabled |-> FALSE, forced |-> FALSE, policy |-> None]

(* A table as a migration leaves it.                                       *)
Complete(t) == t.indexed /\ t.granted /\ t.enabled /\ t.forced /\ t.policy # None

Outcome == {"none", "done", "mismatch", "duplicate", "deadlock", "lost"}

VARIABLES
    pc,        \* the statement each migration is at
    config,    \* its configuration
    outcome,   \* how it ended
    exists,    \* the objects that are committed
    table,     \* the committed table, or None
    waiting,   \* who waits: for what another creates, or for a lock on the table
    creating,  \* object -> who is creating it, or None
    draft,     \* migrator -> the table as it has it, uncommitted, or None
    share,     \* who has the table locked against writers
    exclusive, \* who has it locked against everyone, or None
    granting,  \* who has an uncommitted GRANT on it, or None
    using      \* session -> whether it reads, writes, or is elsewhere

locks == <<creating, share, exclusive, granting>>
vars == <<pc, config, outcome, exists, table, waiting, draft, locks, using>>

Init ==
    /\ pc = [m \in Migrator |-> "idle"]
    /\ config \in [Migrator -> Config]
    /\ outcome = [m \in Migrator |-> "none"]
    /\ \/ table = None /\ exists \in SUBSET (Object \ {"table"})
       \/ /\ exists = Object
          /\ table \in {t \in Table : Complete(t)}
    /\ waiting = {} /\ creating = [o \in Object |-> None]
    /\ draft = [m \in Migrator |-> None]
    /\ share = {} /\ exclusive = None /\ granting = None
    /\ using = [s \in Session |-> "elsewhere"]

-----------------------------------------------------------------------------
(* The statements in their order (migration_statements).                   *)
After(p) ==
    CASE p = "extension" -> "table" [] p = "table" -> "index"
      [] p = "index" -> "role" [] p = "role" -> "grant" [] p = "grant" -> "enable"
      [] p = "enable" -> "force" [] p = "force" -> "drop" [] p = "drop" -> "policy"
      [] p = "policy" -> "commit"

Goes(m) == pc' = [pc EXCEPT ![m] = After(pc[m])]

Owns(m) == creating["table"] = m

(* Mutant: a failed migration leaves its transaction open.                 *)
EndsUnclosed(m, how) ==
    /\ pc' = [pc EXCEPT ![m] = "ended"]
    /\ outcome' = [outcome EXCEPT ![m] = how]
    /\ creating' = [o \in Object |-> IF creating[o] = m /\ how = "done" THEN None ELSE creating[o]]
    /\ waiting' = waiting \ {m}
    /\ share' = IF how = "done" THEN share \ {m} ELSE share
    /\ exclusive' = IF exclusive = m /\ how = "done" THEN None ELSE exclusive
    /\ granting' = IF granting = m THEN None ELSE granting
    /\ draft' = [draft EXCEPT ![m] = None]
    /\ UNCHANGED <<config, using>>

(* The transaction ends (engine.begin()), and with it all that it holds.   *)
Ends(m, how) ==
    /\ pc' = [pc EXCEPT ![m] = "ended"]
    /\ outcome' = [outcome EXCEPT ![m] = how]
    /\ creating' = [o \in Object |-> IF creating[o] = m THEN None ELSE creating[o]]
    /\ waiting' = waiting \ {m}
    /\ share' = share \ {m}
    /\ exclusive' = IF exclusive = m THEN None ELSE exclusive
    /\ granting' = IF granting = m THEN None ELSE granting
    /\ draft' = [draft EXCEPT ![m] = None]
    /\ UNCHANGED <<config, using>>

RollsBack(m, how) == Ends(m, how) /\ UNCHANGED <<exists, table>>

Start(m) ==
    /\ pc[m] = "idle"
    /\ pc' = [pc EXCEPT ![m] = "check"]
    /\ UNCHANGED <<config, outcome, exists, table, waiting, draft, locks, using>>

(* existing_embedding_dim, and SchemaMismatch.                             *)
Check(m) ==
    /\ pc[m] = "check"
    /\ IF table # None /\ table.dim # config[m].dim
       THEN RollsBack(m, "mismatch")
       ELSE /\ pc' = [pc EXCEPT ![m] = "extension"]
            /\ UNCHANGED <<config, outcome, exists, table, waiting, draft, locks, using>>

(* CREATE .. IF NOT EXISTS of something that is there.                     *)
Skip(m, o) ==
    /\ pc[m] = o /\ m \notin waiting
    /\ o \in exists
    /\ Goes(m)
    /\ UNCHANGED <<config, outcome, exists, table, waiting, draft, locks, using>>

(* It is not there, and it is created; the draft is the table's.           *)
Create(m, o) ==
    /\ pc[m] = o
    /\ o \notin exists /\ creating[o] = None
    /\ waiting' = waiting \ {m}
    /\ creating' = [creating EXCEPT ![o] = m]
    /\ draft' = IF o = "table" THEN [draft EXCEPT ![m] = Created(config[m])] ELSE draft
    /\ pc' = [pc EXCEPT ![m] = After(o)]
    /\ UNCHANGED <<config, outcome, exists, table, share, exclusive, granting, using>>

(* It is not there, but another is creating it: the unique index waits to  *)
(* see how that ends ..                                                    *)
Await(m, o) ==
    /\ pc[m] = o /\ m \notin waiting
    /\ o \notin exists /\ creating[o] # None
    /\ waiting' = waiting \cup {m}
    /\ UNCHANGED <<pc, config, outcome, exists, table, draft, locks, using>>

(* .. and raises, if it was committed.                                     *)
Duplicate(m, o) ==
    /\ pc[m] = o /\ m \in waiting
    /\ o \in exists
    /\ RollsBack(m, "duplicate")

Writers == {s \in Session : using[s] = "writes"}
InUse == {s \in Session : using[s] # "elsewhere"}

(* Mutant: the connection is in AUTOCOMMIT.                                *)
DraftsInPublic(m, t) ==
    /\ draft' = [draft EXCEPT ![m] = t]
    /\ table' = IF Owns(m) THEN table ELSE t

(* A statement in a transaction is seen by no one before the commit.       *)
Drafts(m, t) ==
    /\ draft' = [draft EXCEPT ![m] = t]
    /\ UNCHANGED table

(* A lock that cannot be had is waited for, and who comes later and would  *)
(* conflict with it waits behind.                                          *)
Excluding == {m \in waiting : pc[m] = "enable"}
Sharing   == {m \in waiting : pc[m] = "index"}

CanShare(m)   == exclusive = None /\ Writers = {} /\ Excluding \subseteq {m}
CanExclude(m) == exclusive = None /\ share \subseteq {m} /\ InUse = {}

Queue(m) ==
    /\ m \notin waiting /\ ~Owns(m)
    /\ \/ pc[m] = "index" /\ ~CanShare(m)
       \/ pc[m] = "enable" /\ ~CanExclude(m)
    /\ waiting' = waiting \cup {m}
    /\ UNCHANGED <<pc, config, outcome, exists, table, draft, locks, using>>

(* CREATE INDEX IF NOT EXISTS, three times.  On a table that others can    *)
(* see it does nothing, but only under the lock.                           *)
Index(m) ==
    /\ pc[m] = "index"
    /\ IF Owns(m)
       THEN Drafts(m, [draft[m] EXCEPT !.indexed = TRUE]) /\ UNCHANGED share
       ELSE /\ CanShare(m)
            /\ share' = share \cup {m}
            /\ UNCHANGED <<draft, table>>
    /\ Goes(m)
    /\ waiting' = waiting \ {m}
    /\ UNCHANGED <<config, outcome, exists, creating, exclusive, granting, using>>

(* GRANT: it changes the table's entry in the catalog.                     *)
Grant(m) ==
    /\ pc[m] = "grant"
    /\ IF Owns(m)
       THEN Drafts(m, [draft[m] EXCEPT !.granted = TRUE]) /\ UNCHANGED granting
       ELSE /\ granting = None
            /\ granting' = m
            /\ UNCHANGED <<draft, table>>
    /\ Goes(m)
    /\ UNCHANGED <<config, outcome, exists, waiting, creating, share, exclusive, using>>

(* ALTER TABLE .. ENABLE, the first statement that excludes everyone.      *)
Enable(m) ==
    /\ pc[m] = "enable"
    /\ IF Owns(m)
       THEN Drafts(m, [draft[m] EXCEPT !.enabled = TRUE]) /\ UNCHANGED exclusive
       ELSE /\ CanExclude(m)
            /\ exclusive' = m
            /\ Drafts(m, [table EXCEPT !.enabled = TRUE])
    /\ Goes(m)
    /\ waiting' = waiting \ {m}
    /\ UNCHANGED <<config, outcome, exists, creating, share, granting, using>>

Change(m, p, t) ==
    /\ pc[m] = p
    /\ Drafts(m, t)
    /\ Goes(m)
    /\ UNCHANGED <<config, outcome, exists, waiting, locks, using>>

ForceRLS(m)   == Change(m, "force", [draft[m] EXCEPT !.forced = TRUE])
DropPolicy(m) == Change(m, "drop", [draft[m] EXCEPT !.policy = None])

(* Mutant: a policy of that name is left as it is.                         *)
PolicyUnlessThere(m) == IF table # None THEN table.policy ELSE config[m].variable

PolicyOf(m) == config[m].variable
CreatePolicy(m) == Change(m, "policy", [draft[m] EXCEPT !.policy = PolicyOf(m)])

Commit(m) ==
    /\ pc[m] = "commit"
    /\ table' = draft[m]
    /\ exists' = exists \cup {o \in Object : creating[o] = m}
    /\ Ends(m, "done")

(* What a migration waits for another to end.                              *)
WaitsFor(m, n) ==
    /\ m # n
    /\ \/ m \in waiting /\ pc[m] \in Object /\ creating[pc[m]] = n
       \/ pc[m] = "index" /\ ~Owns(m) /\ exclusive = n
       \/ pc[m] = "grant" /\ ~Owns(m) /\ granting = n
       \/ pc[m] = "enable" /\ ~Owns(m) /\ (n \in share \/ exclusive = n)

(* The server finds a cycle and ends one of those in it.                   *)
Deadlock(m) ==
    /\ \E n \in Migrator : WaitsFor(m, n) /\ WaitsFor(n, m)
    /\ RollsBack(m, "deadlock")

(* The connection, or the process, is lost.                                *)
Lose(m) ==
    /\ pc[m] \notin {"idle", "ended"}
    /\ RollsBack(m, "lost")

(* The process starts again, perhaps with another configuration.           *)
Restart(m) ==
    /\ pc[m] = "ended"
    /\ pc' = [pc EXCEPT ![m] = "idle"]
    /\ outcome' = [outcome EXCEPT ![m] = "none"]
    /\ \E c \in Config : config' = [config EXCEPT ![m] = c]
    /\ UNCHANGED <<exists, table, waiting, draft, locks, using>>

(* A transaction of ScopedStore takes its lock on the table, and ends.     *)
Use(s, how) ==
    /\ using[s] = "elsewhere"
    /\ table # None /\ exclusive = None /\ Excluding = {}
    /\ how = "writes" => share = {} /\ Sharing = {}
    /\ using' = [using EXCEPT ![s] = how]
    /\ UNCHANGED <<pc, config, outcome, exists, table, waiting, draft, locks>>

Leave(s) ==
    /\ using[s] # "elsewhere"
    /\ using' = [using EXCEPT ![s] = "elsewhere"]
    /\ UNCHANGED <<pc, config, outcome, exists, table, waiting, draft, locks>>

Statement(m) ==
    \/ Check(m)
    \/ \E o \in Object : Skip(m, o) \/ Create(m, o) \/ Await(m, o) \/ Duplicate(m, o)
    \/ Queue(m) \/ Index(m) \/ Grant(m) \/ Enable(m) \/ ForceRLS(m) \/ DropPolicy(m) \/ CreatePolicy(m)
    \/ Commit(m)

Next ==
    \/ \E m \in Migrator : Start(m) \/ Statement(m) \/ Deadlock(m) \/ Lose(m) \/ Restart(m)
    \/ \E s \in Session : Leave(s) \/ \E how \in {"reads", "writes"} : Use(s, how)

Spec == Init /\ [][Next]_vars

(* Statements are executed, locks are granted in the order they are asked  *)
(* for, a cycle is broken after deadlock_timeout, transactions end.        *)
Fairness ==
    /\ \A m \in Migrator : SF_vars(Statement(m))
    /\ WF_vars(\E m \in Migrator : Deadlock(m))
    /\ \A s \in Session : WF_vars(Leave(s))

FairSpec == Spec /\ Fairness
-----------------------------------------------------------------------------
Statements == {"check", "extension", "table", "index", "role", "grant",
               "enable", "force", "drop", "policy", "commit"}

TypeOK ==
    /\ pc \in [Migrator -> {"idle", "ended"} \cup Statements]
    /\ waiting \subseteq {m \in Migrator : pc[m] \in Object \cup {"index", "enable"}}
    /\ config \in [Migrator -> Config]
    /\ outcome \in [Migrator -> Outcome]
    /\ exists \subseteq Object /\ table \in Table \cup {None}
    /\ creating \in [Object -> Migrator \cup {None}]
    /\ draft \in [Migrator -> Table \cup {None}]
    /\ share \subseteq Migrator
    /\ exclusive \in Migrator \cup {None} /\ granting \in Migrator \cup {None}
    /\ using \in [Session -> {"elsewhere", "reads", "writes"}]
    /\ \A m \in Migrator : pc[m] \in {"idle", "ended"} =>
          m \notin share /\ m # exclusive /\ m # granting /\ \A o \in Object : creating[o] # m

(* Whoever looks at the database, in whatever order migrations start, fail *)
(* and commit: the table is not there, or it is there with its indexes,    *)
(* its grants and a policy that is enabled and forced.                     *)
NeverUnprotected == table # None => Complete(table)

(* What a migration that ends well leaves behind is its own: the variable  *)
(* of its configuration guards the table, whatever others did meanwhile.   *)
TakesEffect ==
    [][\A m \in Migrator : outcome[m] # "done" /\ outcome'[m] = "done" =>
          table' # None /\ table'.policy = config[m].variable /\ exists' = Object]_vars

(* Every migration ends: nothing makes it wait for ever.                   *)
MigrationsEnd ==
    \A m \in Migrator : pc[m] \notin {"idle", "ended"} ~> pc[m] = "ended"

(* A migration that succeeds has not been misled about the width.  (The    *)
(* check reads the catalog once, before the statements run.)               *)
SuccessMeansTheWidth ==
    \A m \in Migrator : outcome[m] = "done" => table.dim = config[m].dim
=============================================================================
