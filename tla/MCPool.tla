------------------------------- MODULE MCPool -------------------------------
(* ScopedStore with fairness, over pools of two sizes, for TLC. *)
EXTENDS MCScopedStore

(* Calls that replace or purge: those whose waits on locks can form a ring. *)
Replacing == \A s \in Session : call[s] # None => call[s].op \in {"ingest", "purge"}

(* The connections the pool may open, as PostgresConfig sets their number:  *)
(* one, for every kind of call to wait for it, or all, for sessions to wait *)
(* for each other's rows.                                                   *)
VARIABLE pool

poolVars == <<vars, pool>>

Within == pool' = pool /\ \A s \in Session : held'[s] \in pool \cup {None}

(* The event loop runs every task, a connection or a lock that keeps being *)
(* freed is not withheld from a waiter for ever (both queues are first in, *)
(* first out), and the consumer of a stream goes on with it or closes it.  *)
PoolSpec ==
    /\ Init /\ pool \in {Conn, {CHOOSE c \in Conn : TRUE}}
    /\ [][Next /\ Within /\ (pool = Conn => Replacing')]_poolVars
    /\ \A s \in Session :
         /\ WF_poolVars(Step(s) /\ Within)
         /\ SF_poolVars(Checkout(s) /\ Within)
         /\ SF_poolVars(FinishDelete(s) /\ Within)
         /\ SF_poolVars((Insert(s) \/ InsertFails(s)) /\ Within)
=============================================================================
