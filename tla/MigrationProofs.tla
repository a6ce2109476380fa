-------------------------- MODULE MigrationProofs --------------------------
(***************************************************************************)
(* For any number of migrations and sessions: no one ever sees the table   *)
(* without its policy, and a migration that succeeds has installed its own.*)
(*                                                                         *)
(* The invariant says what a draft is.  It belongs to who is creating the  *)
(* table, while there is none, or to who has it locked against everyone    *)
(* (Held); and it is complete as far as the statements have come           *)
(* (Progress).                                                             *)
(***************************************************************************)
EXTENDS Migration, TLAPS

AfterRole   == {"grant", "enable", "force", "drop", "policy", "commit"}
AfterTable  == {"index", "role"} \cup AfterRole
AfterEnable == {"force", "drop", "policy", "commit"}

Committed ==
    /\ "table" \in exists <=> table # None
    /\ NeverUnprotected

Held ==
    /\ \A m \in Migrator : Owns(m) => table = None /\ draft[m] # None /\ pc[m] \in AfterTable
    /\ \A m \in Migrator : exclusive = m => table # None /\ pc[m] \in AfterEnable
    /\ \A m \in Migrator : draft[m] # None => Owns(m) \/ exclusive = m
    /\ \A m \in Migrator : pc[m] \in AfterEnable => draft[m] # None

Progress ==
    \A m \in Migrator : draft[m] # None =>
        /\ pc[m] \in AfterTable \ {"index"} => draft[m].indexed
        /\ pc[m] \in AfterRole \ {"grant"}  => draft[m].granted
        /\ pc[m] \in AfterEnable            => draft[m].enabled
        /\ pc[m] \in AfterEnable \ {"force"} => draft[m].forced
        /\ pc[m] = "commit"                 => draft[m].policy = config[m].variable

(* What a migration has passed is there, or is being created by it.        *)
Passed ==
    \A m \in Migrator :
        /\ pc[m] \in {"table"} \cup AfterTable => "extension" \in exists \/ creating["extension"] = m
        /\ pc[m] \in AfterTable => "table" \in exists \/ Owns(m)
        /\ pc[m] \in AfterRole => "role" \in exists \/ creating["role"] = m

Inv == TypeOK /\ Committed /\ Held /\ Progress /\ Passed

LEMMA InitInv == Init => Inv
<1> SUFFICES ASSUME Init PROVE Inv
  OBVIOUS
<1> USE MigrationAssumption DEF Init, Object
<1>1. TypeOK
  BY DEF TypeOK, Outcome, Statements
<1>2. Committed
  BY DEF Committed, NeverUnprotected
<1>3. Held /\ Progress /\ Passed
  BY DEF Held, Progress, Passed, Owns, AfterRole, AfterTable, AfterEnable
<1> QED
  BY <1>1, <1>2, <1>3 DEF Inv

(* A transaction that is rolled back takes nothing with it but its own.    *)
LEMMA RollBackInv ==
    ASSUME Inv, NEW m \in Migrator, NEW how \in Outcome, RollsBack(m, how)
    PROVE  Inv'
<1> USE MigrationAssumption DEF Inv, RollsBack, Ends, Object
<1>1. TypeOK'
  BY SMTT(60) DEF TypeOK, Statements
<1>2. Committed'
  BY DEF Committed, NeverUnprotected
<1>3. Held'
  BY DEF Held, Owns, TypeOK, AfterTable, AfterRole, AfterEnable
<1>4. Progress'
  BY DEF Progress, TypeOK, AfterTable, AfterRole, AfterEnable
<1>5. Passed'
  BY DEF Passed, Owns, TypeOK, AfterTable, AfterRole
<1> QED
  BY <1>1, <1>2, <1>3, <1>4, <1>5 DEF Inv

(* A draft stays a table whatever a statement sets in it.                  *)
LEMMA Updates ==
    ASSUME NEW t \in Table
    PROVE  /\ [t EXCEPT !.indexed = TRUE] \in Table /\ [t EXCEPT !.granted = TRUE] \in Table
           /\ [t EXCEPT !.enabled = TRUE] \in Table /\ [t EXCEPT !.forced = TRUE] \in Table
           /\ \A v \in Variable \cup {None} : [t EXCEPT !.policy = v] \in Table
  BY DEF Table

LEMMA CreatedIsATable ==
    ASSUME NEW c \in Config
    PROVE  Created(c) \in Table /\ Created(c) # None
<1>1. Created(c) \in Table
  BY DEF Created, Table, Config
<1> QED
  BY <1>1, MigrationAssumption

LEMMA DraftIsATable ==
    ASSUME TypeOK, NEW m \in Migrator, draft[m] # None
    PROVE  draft[m] \in Table
  BY DEF TypeOK

(* What the steps do to the draft and the locks of who takes them, and     *)
(* that they leave those of others alone, decides most of the invariant.   *)
LEMMA StatementInv ==
    ASSUME Inv, NEW m \in Migrator, Statement(m)
    PROVE  Inv'
<1> USE MigrationAssumption DEF Inv, Object
<1>1. CASE Check(m)
  <2>1. CASE table # None /\ table.dim # config[m].dim
    BY <1>1, <2>1, RollBackInv DEF Check, Outcome
  <2>2. CASE ~(table # None /\ table.dim # config[m].dim)
    <3>1. /\ pc[m] = "check" /\ pc' = [pc EXCEPT ![m] = "extension"]
          /\ UNCHANGED <<config, outcome, exists, table, waiting, draft, locks, using>>
      BY <1>1, <2>2 DEF Check
    <3>2. TypeOK'
      BY <3>1, SMTT(60) DEF TypeOK, Statements, locks
    <3>3. Committed'
      BY <3>1 DEF Committed, NeverUnprotected, locks
    <3>4. (Held /\ Progress /\ Passed)'
      BY <3>1, SMTT(60) DEF TypeOK, Held, Progress, Passed, Owns, locks, AfterTable, AfterRole, AfterEnable
    <3> QED
      BY <3>2, <3>3, <3>4
  <2> QED
    BY <2>1, <2>2
<1>2. ASSUME NEW o \in Object, Skip(m, o)
      PROVE  Inv'
  <2> USE <1>2 DEF Skip, Goes, After, locks
  <2>1. TypeOK'
    BY SMTT(60) DEF TypeOK, Statements
  <2>2. (Committed /\ Held /\ Progress /\ Passed)'
    BY SMTT(60) DEF TypeOK, Committed, NeverUnprotected, Complete, Held, Progress, Passed, Owns,
         AfterTable, AfterRole, AfterEnable
  <2> QED
    BY <2>1, <2>2
<1>3. ASSUME NEW o \in Object, Create(m, o)
      PROVE  Inv'
  <2> USE <1>3 DEF Create, After
  <2>3. Created(config[m]) \in Table /\ Created(config[m]) # None
    BY CreatedIsATable DEF TypeOK
  <2>1. TypeOK'
    BY <2>3, SMTT(60) DEF TypeOK, Statements
  <2>2. Committed'
    BY DEF Committed, NeverUnprotected
  <2>4. Held'
    BY <2>3, SMTT(60) DEF TypeOK, Committed, Held, Owns, AfterTable, AfterRole, AfterEnable
  <2>5. (Progress /\ Passed)'
    BY SMTT(60) DEF TypeOK, Committed, Held, Progress, Passed, Owns, AfterTable, AfterRole, AfterEnable
  <2> QED
    BY <2>1, <2>2, <2>4, <2>5
<1>4. ASSUME NEW o \in Object, Await(m, o)
      PROVE  Inv'
  BY <1>4, SMTT(60) DEF Await, locks, TypeOK, Committed, NeverUnprotected, Held, Progress, Passed, Owns
<1>5. ASSUME NEW o \in Object, Duplicate(m, o)
      PROVE  Inv'
  BY <1>5, RollBackInv DEF Duplicate, Outcome
<1>6. CASE Queue(m)
  BY <1>6, SMTT(60) DEF Queue, locks, TypeOK, Committed, NeverUnprotected, Held, Progress, Passed, Owns
<1>7. CASE Index(m)
  <2> USE <1>7 DEF Index, Goes, After
  <2>1. CASE Owns(m)
    <3> DEFINE t == [draft[m] EXCEPT !.indexed = TRUE]
    <3>1. draft[m] \in Table /\ draft[m] # None
      BY <2>1, DraftIsATable DEF Held
    <3>2. t \in Table /\ t # None
      BY <3>1, Updates
    <3>3. t.indexed /\ \A f \in {"indexed", "granted", "enabled", "forced", "policy"} : f # "indexed" => t[f] = draft[m][f]
      BY <3>1 DEF Table
    <3>4. Drafts(m, t) /\ UNCHANGED <<creating, share, exclusive, granting>>
      BY <2>1
    <3> HIDE DEF t
    <3>5. TypeOK'
      BY <2>1, <3>2, <3>4, SMTT(60) DEF TypeOK, Statements, Drafts, Owns
    <3>6. (Committed /\ Passed)'
      BY <2>1, <3>4, SMTT(60) DEF TypeOK, Committed, NeverUnprotected, Drafts, Passed, Owns, AfterTable, AfterRole
    <3>7. Held'
      BY <2>1, <3>2, <3>4, SMTT(60) DEF TypeOK, Drafts, Held, Owns, AfterTable, AfterRole, AfterEnable
    <3>8. Progress'
      BY <2>1, <3>1, <3>3, <3>4, SMTT(60) DEF TypeOK, Drafts, Progress, Owns, AfterTable, AfterRole, AfterEnable
    <3> QED
      BY <3>5, <3>6, <3>7, <3>8
  <2>2. CASE ~Owns(m)
    <3>1. UNCHANGED <<draft, table>>
      BY <2>2
    <3>2. TypeOK'
      BY <2>2, <3>1, SMTT(60) DEF TypeOK, Statements, Owns
    <3>3. (Committed /\ Passed)'
      BY <2>2, <3>1, SMTT(60) DEF TypeOK, Committed, NeverUnprotected, Passed, Owns, AfterTable, AfterRole
    <3>4. (Held /\ Progress)'
      BY <2>2, <3>1, SMTT(60) DEF TypeOK, Held, Progress, Owns, AfterTable, AfterRole, AfterEnable
    <3> QED
      BY <3>2, <3>3, <3>4
  <2> QED
    BY <2>1, <2>2
<1>8. CASE Grant(m)
  <2> USE <1>8 DEF Grant, Goes, After
  <2>1. CASE Owns(m)
    <3> DEFINE t == [draft[m] EXCEPT !.granted = TRUE]
    <3>1. draft[m] \in Table /\ draft[m] # None
      BY <2>1, DraftIsATable DEF Held
    <3>2. t \in Table /\ t # None
      BY <3>1, Updates
    <3>3. t.granted /\ \A f \in {"indexed", "granted", "enabled", "forced", "policy"} : f # "granted" => t[f] = draft[m][f]
      BY <3>1 DEF Table
    <3>4. Drafts(m, t) /\ UNCHANGED <<creating, share, exclusive, granting>>
      BY <2>1
    <3> HIDE DEF t
    <3>5. TypeOK'
      BY <2>1, <3>2, <3>4, SMTT(60) DEF TypeOK, Statements, Drafts, Owns
    <3>6. (Committed /\ Passed)'
      BY <2>1, <3>4, SMTT(60) DEF TypeOK, Committed, NeverUnprotected, Drafts, Passed, Owns, AfterTable, AfterRole
    <3>7. Held'
      BY <2>1, <3>2, <3>4, SMTT(60) DEF TypeOK, Drafts, Held, Owns, AfterTable, AfterRole, AfterEnable
    <3>8. Progress'
      BY <2>1, <3>1, <3>3, <3>4, SMTT(60) DEF TypeOK, Drafts, Progress, Owns, AfterTable, AfterRole, AfterEnable
    <3> QED
      BY <3>5, <3>6, <3>7, <3>8
  <2>2. CASE ~Owns(m)
    <3>1. UNCHANGED <<draft, table>>
      BY <2>2
    <3>2. TypeOK'
      BY <2>2, <3>1, SMTT(60) DEF TypeOK, Statements, Owns
    <3>3. (Committed /\ Passed)'
      BY <2>2, <3>1, SMTT(60) DEF TypeOK, Committed, NeverUnprotected, Passed, Owns, AfterTable, AfterRole
    <3>4. (Held /\ Progress)'
      BY <2>2, <3>1, SMTT(60) DEF TypeOK, Held, Progress, Owns, AfterTable, AfterRole, AfterEnable
    <3> QED
      BY <3>2, <3>3, <3>4
  <2> QED
    BY <2>1, <2>2
<1>9. CASE Enable(m)
  <2> USE <1>9 DEF Enable, Goes, After
  <2>1. CASE Owns(m)
    <3> DEFINE t == [draft[m] EXCEPT !.enabled = TRUE]
    <3>1. draft[m] \in Table /\ draft[m] # None
      BY <2>1, DraftIsATable DEF Held
    <3>2. t \in Table /\ t # None
      BY <3>1, Updates
    <3>3. t.enabled /\ \A f \in {"indexed", "granted", "enabled", "forced", "policy"} : f # "enabled" => t[f] = draft[m][f]
      BY <3>1 DEF Table
    <3>4. Drafts(m, t) /\ UNCHANGED <<creating, share, exclusive, granting>>
      BY <2>1
    <3> HIDE DEF t
    <3>5. TypeOK'
      BY <2>1, <3>2, <3>4, SMTT(60) DEF TypeOK, Statements, Drafts, Owns
    <3>6. (Committed /\ Passed)'
      BY <2>1, <3>4, SMTT(60) DEF TypeOK, Committed, NeverUnprotected, Drafts, Passed, Owns, AfterTable, AfterRole
    <3>7. Held'
      BY <2>1, <3>2, <3>4, SMTT(60) DEF TypeOK, Drafts, Held, Owns, AfterTable, AfterRole, AfterEnable
    <3>8. Progress'
      BY <2>1, <3>1, <3>3, <3>4, SMTT(60) DEF TypeOK, Drafts, Progress, Owns, AfterTable, AfterRole, AfterEnable
    <3> QED
      BY <3>5, <3>6, <3>7, <3>8
  <2>2. CASE ~Owns(m)
    <3> DEFINE t == [table EXCEPT !.enabled = TRUE]
    <3>1. table \in Table /\ table # None
      BY <2>2 DEF TypeOK, Passed, Committed, AfterTable, AfterRole
    <3>2. t \in Table /\ t # None
      BY <3>1, Updates
    <3>3. t.enabled /\ t.indexed /\ t.granted
      BY <3>1 DEF Table, Committed, NeverUnprotected, Complete
    <3>4. Drafts(m, t) /\ exclusive = None /\ exclusive' = m /\ UNCHANGED <<creating, share, granting>>
      BY <2>2 DEF CanExclude
    <3> HIDE DEF t
    <3>5. TypeOK'
      BY <2>2, <3>2, <3>4, SMTT(60) DEF TypeOK, Statements, Drafts, Owns
    <3>6. (Committed /\ Passed)'
      BY <2>2, <3>4, SMTT(60) DEF TypeOK, Committed, NeverUnprotected, Drafts, Passed, Owns, AfterTable, AfterRole
    <3>7. Held'
      BY <2>2, <3>1, <3>2, <3>4, SMTT(60) DEF TypeOK, Drafts, Held, Owns, AfterTable, AfterRole, AfterEnable
    <3>8. Progress'
      BY <2>2, <3>3, <3>4, SMTT(60) DEF TypeOK, Drafts, Progress, Owns, AfterTable, AfterRole, AfterEnable
    <3> QED
      BY <3>5, <3>6, <3>7, <3>8
  <2> QED
    BY <2>1, <2>2
<1>10. ASSUME NEW p \in {"force", "drop", "policy"}, NEW t,
              Change(m, p, t),
              p = "force"  => t = [draft[m] EXCEPT !.forced = TRUE],
              p = "drop"   => t = [draft[m] EXCEPT !.policy = None],
              p = "policy" => t = [draft[m] EXCEPT !.policy = PolicyOf(m)]
       PROVE  Inv'
  <2> USE <1>10 DEF Change, Drafts, Goes, After, locks
  <2>1. draft[m] \in Table /\ PolicyOf(m) \in Variable
    BY DraftIsATable DEF TypeOK, Held, AfterEnable, PolicyOf, Config
  <2>2. t \in Table /\ t # None
    <3>1. /\ [draft[m] EXCEPT !.forced = TRUE] \in Table
          /\ [draft[m] EXCEPT !.policy = None] \in Table
          /\ [draft[m] EXCEPT !.policy = PolicyOf(m)] \in Table
      BY ONLY <2>1, Updates
    <3> QED
      BY <3>1
  <2>3. /\ t.indexed = draft[m].indexed /\ t.granted = draft[m].granted /\ t.enabled = draft[m].enabled
        /\ t.forced = IF p = "force" THEN TRUE ELSE draft[m].forced
        /\ p = "policy" => t.policy = config[m].variable
    BY <2>1 DEF Table, PolicyOf
  <2>4. TypeOK'
    BY <2>2, SMTT(60) DEF TypeOK, Statements
  <2>5. (Committed /\ Passed)'
    BY SMTT(60) DEF TypeOK, Committed, NeverUnprotected, Passed, Owns, AfterTable, AfterRole
  <2>6. Held'
    BY <2>2, SMTT(60) DEF TypeOK, Held, Owns, AfterTable, AfterRole, AfterEnable
  <2>7. Progress'
    <3>1. /\ draft' = [draft EXCEPT ![m] = t] /\ pc[m] = p /\ UNCHANGED config
          /\ pc' = [pc EXCEPT ![m] = IF p = "force" THEN "drop" ELSE IF p = "drop" THEN "policy" ELSE "commit"]
          /\ draft[m] # None /\ (p # "force" => draft[m].forced)
          /\ draft[m].indexed /\ draft[m].granted /\ draft[m].enabled
      BY DEF Held, Progress, AfterTable, AfterRole, AfterEnable
    <3>2. draft \in [Migrator -> Table \cup {None}] /\ pc \in [Migrator -> {"idle", "ended"} \cup Statements]
      BY DEF TypeOK
    <3>3. Progress
      OBVIOUS
    <3>4. ASSUME NEW n \in Migrator, n # m
          PROVE  draft'[n] = draft[n] /\ pc'[n] = pc[n]
      BY ONLY <3>1, <3>2, <3>4
    <3>5. draft'[m] = t /\ pc'[m] \in {"drop", "policy", "commit"}
      BY ONLY <3>1, <3>2
    <3>6. /\ pc'[m] \in {"drop", "policy", "commit"} => t.forced
          /\ pc'[m] = "commit" => t.policy = config[m].variable
      BY ONLY <3>1, <3>2, <2>3, p \in {"force", "drop", "policy"}
    <3>7. t.indexed /\ t.granted /\ t.enabled
      BY ONLY <3>1, <2>3
    <3> QED
      BY ONLY <3>1, <3>3, <3>4, <3>5, <3>6, <3>7
         DEF Progress, AfterTable, AfterRole, AfterEnable
  <2> QED
    BY <2>4, <2>5, <2>6, <2>7
<1>11. CASE Commit(m)
  <2> USE <1>11 DEF Commit, Ends
  <2>9. config[m].variable # None
    BY DEF TypeOK, Config
  <2>1. draft[m] \in Table /\ draft[m] # None
    BY DraftIsATable DEF Held, AfterEnable
  <2>6. Complete(draft[m])
    BY <2>1, <2>9 DEF Progress, Complete, AfterTable, AfterRole, AfterEnable
  <2>2. TypeOK'
    <3>1. "done" \in Outcome /\ table' \in Table /\ exists' \subseteq Object
      BY <2>1 DEF Outcome, TypeOK
    <3>2. pc' \in [Migrator -> {"idle", "ended"} \cup Statements] /\ outcome' \in [Migrator -> Outcome]
      BY <3>1 DEF TypeOK
    <3>3. draft' \in [Migrator -> Table \cup {None}] /\ creating' \in [Object -> Migrator \cup {None}]
      BY DEF TypeOK
    <3> QED
      BY <3>1, <3>2, <3>3 DEF TypeOK
  <2>3. Committed'
    BY <2>1, <2>6, SMTT(60) DEF TypeOK, Committed, Held, Owns, NeverUnprotected, AfterEnable
  <2>4. (Held /\ Progress)'
    BY <2>1, SMTT(60) DEF TypeOK, Committed, Held, Progress, Owns, AfterTable, AfterRole, AfterEnable
  <2>5. Passed'
    BY SMTT(60) DEF TypeOK, Passed, Owns, AfterTable, AfterRole
  <2> QED
    BY <2>2, <2>3, <2>4, <2>5
<1>12. CASE ForceRLS(m)
  BY <1>12, <1>10 DEF ForceRLS
<1>13. CASE DropPolicy(m)
  BY <1>13, <1>10 DEF DropPolicy
<1>14. CASE CreatePolicy(m)
  BY <1>14, <1>10 DEF CreatePolicy
<1> HIDE DEF Object, Inv
<1> QED
  BY <1>1, <1>2, <1>3, <1>4, <1>5, <1>6, <1>7, <1>8, <1>9, <1>11, <1>12, <1>13, <1>14
     DEF Statement

LEMMA StepInv == Inv /\ [Next]_vars => Inv'
<1> SUFFICES ASSUME Inv, [Next]_vars
             PROVE  Inv'
  OBVIOUS
<1> USE MigrationAssumption DEF Inv, Object
<1>1. ASSUME NEW m \in Migrator, Start(m)
      PROVE  Inv'
  <2> USE <1>1 DEF Start, locks
  <2>1. TypeOK'
    BY SMTT(60) DEF TypeOK, Statements
  <2>2. Committed'
    BY DEF Committed, NeverUnprotected
  <2>3. (Held /\ Progress /\ Passed)'
    BY SMTT(60) DEF TypeOK, Held, Progress, Passed, Owns, AfterTable, AfterRole, AfterEnable
  <2> QED
    BY <2>1, <2>2, <2>3
<1>2. ASSUME NEW m \in Migrator, Deadlock(m) \/ Lose(m)
      PROVE  Inv'
  BY <1>2, RollBackInv DEF Deadlock, Lose, Outcome
<1>3. ASSUME NEW m \in Migrator, Restart(m)
      PROVE  Inv'
  <2> USE <1>3 DEF Restart, locks
  <2>1. draft[m] = None
    BY DEF TypeOK, Held, Owns
  <2>2. TypeOK'
    BY SMTT(60) DEF TypeOK, Statements, Outcome
  <2>3. Committed'
    BY DEF Committed, NeverUnprotected
  <2>4. (Held /\ Progress /\ Passed)'
    BY <2>1, SMTT(60) DEF TypeOK, Held, Progress, Passed, Owns, AfterTable, AfterRole, AfterEnable
  <2> QED
    BY <2>2, <2>3, <2>4
<1>4. ASSUME NEW s \in Session, Leave(s) \/ \E how \in {"reads", "writes"} : Use(s, how)
      PROVE  Inv'
  <2>1. UNCHANGED <<pc, config, outcome, exists, table, waiting, draft, locks>>
    BY <1>4 DEF Leave, Use
  <2>2. using' \in [Session -> {"elsewhere", "reads", "writes"}]
    BY <1>4 DEF Leave, Use, TypeOK
  <2>3. TypeOK'
    BY <2>1, <2>2 DEF TypeOK, locks
  <2>4. (Committed /\ Held /\ Progress /\ Passed)'
    BY <2>1 DEF Committed, NeverUnprotected, Held, Progress, Passed, Owns, locks
  <2> QED
    BY <2>3, <2>4
<1>5. CASE UNCHANGED vars
  BY <1>5 DEF vars, locks, TypeOK, Committed, NeverUnprotected, Held, Progress, Passed, Owns
<1> HIDE DEF Inv, Object
<1> QED
  BY <1>1, <1>2, <1>3, <1>4, <1>5, StatementInv DEF Next

(* The types, and that whoever has ended holds nothing.                    *)
THEOREM MigrationTyped == Spec => []TypeOK
<1>1. Inv => TypeOK
  BY DEF Inv
<1> QED
  BY <1>1, InitInv, StepInv, PTL DEF Spec

(* Whatever migrations start, fail, deadlock and commit: a table that      *)
(* others can see has its indexes, grants and a forced policy.             *)
THEOREM ProtectedAlways == Spec => []NeverUnprotected
<1>1. Inv => NeverUnprotected
  BY DEF Inv, Committed
<1> QED
  BY <1>1, InitInv, StepInv, PTL DEF Spec

(* Only a commit makes a migration "done", and its draft has the policy of *)
(* its configuration.                                                      *)
LEMMA DoneByCommit ==
    ASSUME Inv, Next, NEW m \in Migrator, outcome[m] # "done", outcome'[m] = "done"
    PROVE  Commit(m)
<1> USE DEF Inv
<1>1. ASSUME NEW n \in Migrator, NEW how \in Outcome \ {"done"}, RollsBack(n, how)
      PROVE  FALSE
  BY <1>1 DEF RollsBack, Ends, TypeOK
<1>2. ASSUME NEW n \in Migrator, Commit(n)
      PROVE  n = m
  BY <1>2 DEF Commit, Ends, TypeOK
<1>3. ASSUME UNCHANGED outcome
      PROVE  FALSE
  BY <1>3
<1>4. ASSUME NEW n \in Migrator, Restart(n)
      PROVE  FALSE
  BY <1>4 DEF Restart, TypeOK
<1>5. ASSUME NEW n \in Migrator, Statement(n)
      PROVE  Commit(m)
  <2>1. CASE Check(n)
    BY <2>1, <1>1, <1>3 DEF Check, Outcome
  <2>2. CASE \E o \in Object : Duplicate(n, o)
    BY <2>2, <1>1 DEF Duplicate, Outcome
  <2>3. CASE Commit(n)
    BY <2>3, <1>2
  <2>4. CASE \/ \E o \in Object : Skip(n, o) \/ Create(n, o) \/ Await(n, o)
             \/ Queue(n) \/ Index(n) \/ Grant(n) \/ Enable(n) \/ ForceRLS(n) \/ DropPolicy(n) \/ CreatePolicy(n)
    BY <2>4, <1>3 DEF Skip, Create, Await, Queue, Index, Grant, Enable, ForceRLS, DropPolicy, CreatePolicy, Change
  <2> QED
    BY <1>5, <2>1, <2>2, <2>3, <2>4 DEF Statement
<1> QED
  BY <1>1, <1>3, <1>4, <1>5 DEF Next, Start, Deadlock, Lose, Use, Leave, Outcome

(* A migration that succeeds leaves its own policy behind, on a table with *)
(* all that it depends on.                                                 *)
THEOREM MigrationTakesEffect == Spec => TakesEffect
<1>1. Inv /\ [Next]_vars =>
          [\A m \in Migrator : outcome[m] # "done" /\ outcome'[m] = "done" =>
              table' # None /\ table'.policy = config[m].variable /\ exists' = Object]_vars
  <2> SUFFICES ASSUME Inv, Next, NEW m \in Migrator, outcome[m] # "done", outcome'[m] = "done"
               PROVE  table' # None /\ table'.policy = config[m].variable /\ exists' = Object
    OBVIOUS
  <2>1. Commit(m)
    BY DoneByCommit
  <2>2. table' = draft[m] /\ draft[m] # None /\ draft[m].policy = config[m].variable
    BY <2>1 DEF Commit, Inv, Held, Progress, AfterEnable
  <2>3. exists' = Object
    <3>1. pc[m] = "commit" /\ exists' = exists \cup {o \in Object : creating[o] = m}
      BY <2>1 DEF Commit
    <3>2. \A o \in {"extension", "table", "role"} : o \in exists \/ creating[o] = m
      BY <3>1 DEF Inv, Passed, Owns, AfterTable, AfterRole
    <3>3. exists \subseteq Object
      BY DEF Inv, TypeOK
    <3> QED
      BY <3>1, <3>2, <3>3 DEF Object
  <2> QED
    BY <2>2, <2>3
<1> QED
  BY <1>1, InitInv, StepInv, PTL DEF Spec, TakesEffect
=============================================================================
