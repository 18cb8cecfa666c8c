--------------------------- MODULE SchemaMigrations ---------------------------
(***************************************************************************)
(* How the schema of a database comes to be: "devspace db migrate" applies *)
(* the migrations of its build in one Postgres transaction, opening the    *)
(* SQLite file does so under the file's write lock, and a server checks    *)
(* the Postgres schema before it serves.  Nothing keeps several of them,   *)
(* of different builds, from running at once.                              *)
(***************************************************************************)
EXTENDS Integers, Sequences, FiniteSets

CONSTANTS
    Processes,
    Upgrades,     \* [engine, installed, task : process -> [kind, build]]: the
                  \* build whose schema the database has, <<>> for none; a
                  \* build is a sequence of [version, checksum]
    Versions,
    MaxAborted,   \* bound on statements that fail and processes that die
    Absent        \* no row, no report

VARIABLES
    upgrade,  \* of Upgrades, the one this behavior is about
    db,       \* what is committed: is there a ledger table, the ledger, and
              \* how often the SQL of each version ran
    stage,    \* the statement a process is at
    tx,       \* what a process did in its open transaction
    found,    \* what it read of the table and the ledger
    next,     \* its place in its build
    report,   \* what it ended with
    aborted   \* how many transactions were cut short

schemaVars == <<upgrade, db, stage, tx, found, next, report, aborted>>

NoRows == [v \in Versions |-> Absent]
Nothing == [table |-> FALSE, ledger |-> NoRows, ran |-> {}]

Engine == upgrade.engine
Kind(p) == upgrade.task[p].kind
Build(p) == upgrade.task[p].build
Current(p) == Build(p)[next[p]]

\* A row of the SQLite ledger has no checksum.
Row(m) == IF Engine = "postgres" THEN m.checksum ELSE "applied"

InTransaction(p) == stage[p] \in {"table", "read", "sql", "insert"}

-----------------------------------------------------------------------------
(* migratePostgresDatabase, and migrateDatabase of SQLite.                  *)

\* "immediate" takes SQLite's write lock; Postgres' begin takes nothing.
Begin(p) ==
    /\ stage[p] = "idle" /\ Kind(p) = "migrate"
    /\ Engine = "sqlite" => \A q \in Processes : ~InTransaction(q)
    /\ stage' = [stage EXCEPT ![p] = "table"]
    /\ UNCHANGED <<upgrade, db, tx, found, next, report, aborted>>

Rollback(p, answer) ==
    /\ stage' = [stage EXCEPT ![p] = "ended"]
    /\ tx' = [tx EXCEPT ![p] = Nothing]
    /\ report' = [report EXCEPT ![p] = answer]

\* A statement waits for the transaction that made the same object first.
TableHeld(p) == \E q \in Processes \ {p} : tx[q].table
Held(p) == \E q \in Processes \ {p} : Current(p).version \in tx[q].ran

EnsureTable(p) ==
    /\ stage[p] = "table" /\ ~TableHeld(p)
    /\ tx' = [tx EXCEPT ![p].table = ~db.table]
    /\ stage' = [stage EXCEPT ![p] = "read"]
    /\ UNCHANGED <<upgrade, db, found, next, report, aborted>>

\* Only what is committed can be read.
ReadApplied(p) ==
    /\ stage[p] = "read"
    /\ found' = [found EXCEPT ![p] = [table |-> TRUE, ledger |-> db.ledger]]
    /\ stage' = [stage EXCEPT ![p] = "sql"]
    /\ UNCHANGED <<upgrade, db, tx, next, report, aborted>>

Applied(p) == found[p].ledger[Current(p).version]

\* Mutant: a checksum that differs is passed over.
SkipApplied_AnyChecksum(p) ==
    /\ stage[p] = "sql" /\ next[p] <= Len(Build(p)) /\ Applied(p) # Absent
    /\ next' = [next EXCEPT ![p] = @ + 1] /\ UNCHANGED <<stage, tx, report>>
    /\ UNCHANGED <<upgrade, db, found, aborted>>

\* A migration that is recorded is passed over if its checksum is the same.
SkipApplied(p) ==
    /\ stage[p] = "sql" /\ next[p] <= Len(Build(p)) /\ Applied(p) # Absent
    /\ IF Applied(p) = Row(Current(p))
         THEN next' = [next EXCEPT ![p] = @ + 1] /\ UNCHANGED <<stage, tx, report>>
         ELSE Rollback(p, "failed") /\ UNCHANGED next
    /\ UNCHANGED <<upgrade, db, found, aborted>>

RunSql(p) ==
    /\ stage[p] = "sql" /\ next[p] <= Len(Build(p)) /\ Applied(p) = Absent
    /\ ~Held(p)
    /\ tx' = [tx EXCEPT ![p].ran = @ \cup {Current(p).version}]
    /\ stage' = [stage EXCEPT ![p] = "insert"]
    /\ UNCHANGED <<upgrade, db, found, next, report, aborted>>

\* The transaction that was first has committed, or is about to: the primary
\* key of the ledger, or of the catalog, refuses this one.
LoseRace(p) ==
    /\ \/ stage[p] = "table" /\ TableHeld(p)
       \/ stage[p] = "sql" /\ next[p] <= Len(Build(p)) /\ Applied(p) = Absent /\ Held(p)
       \/ stage[p] = "insert" /\ db.ledger[Current(p).version] # Absent
    /\ Rollback(p, "failed")
    /\ UNCHANGED <<upgrade, db, found, next, aborted>>

Insert(p) ==
    /\ stage[p] = "insert" /\ db.ledger[Current(p).version] = Absent
    /\ tx' = [tx EXCEPT ![p].ledger[Current(p).version] = Row(Current(p))]
    /\ next' = [next EXCEPT ![p] = @ + 1]
    /\ stage' = [stage EXCEPT ![p] = "sql"]
    /\ UNCHANGED <<upgrade, db, found, report, aborted>>

Committed(p) ==
    [table  |-> db.table \/ tx[p].table,
     ledger |-> [v \in Versions |-> IF tx[p].ledger[v] # Absent THEN tx[p].ledger[v] ELSE db.ledger[v]],
     ran    |-> [v \in Versions |-> db.ran[v] + (IF v \in tx[p].ran THEN 1 ELSE 0)]]

\* Mutant: a commit after every migration.
Commit_EachMigration(p) ==
    /\ stage[p] = "sql" /\ next[p] > 1
    /\ db' = Committed(p)
    /\ tx' = [tx EXCEPT ![p] = Nothing]
    /\ IF next[p] <= Len(Build(p)) THEN UNCHANGED <<stage, report>>
       ELSE /\ stage' = [stage EXCEPT ![p] = "ended"]
            /\ report' = [report EXCEPT ![p] = "migrated"]
    /\ UNCHANGED <<upgrade, found, next, aborted>>

Commit(p) ==
    /\ stage[p] = "sql" /\ next[p] > Len(Build(p))
    /\ db' = Committed(p)
    /\ tx' = [tx EXCEPT ![p] = Nothing]
    /\ stage' = [stage EXCEPT ![p] = "ended"]
    /\ report' = [report EXCEPT ![p] = "migrated"]
    /\ UNCHANGED <<upgrade, found, next, aborted>>

\* A statement throws, the connection is lost or the process dies.
Fail(p) ==
    /\ InTransaction(p)
    /\ aborted < MaxAborted
    /\ aborted' = aborted + 1
    /\ Rollback(p, "failed")
    /\ UNCHANGED <<upgrade, db, found, next>>

-----------------------------------------------------------------------------
(* getPostgresMigrationStatus, before a server serves and at every /readyz. *)

\* schemaMigrationsTableExists and readAppliedMigrations are two statements.
CheckTable(p) ==
    /\ stage[p] = "idle" /\ Kind(p) = "serve"
    /\ found' = [found EXCEPT ![p] = [table |-> db.table, ledger |-> NoRows]]
    /\ stage' = [stage EXCEPT ![p] = "status"]
    /\ UNCHANGED <<upgrade, db, tx, next, report, aborted>>

\* buildMigrationStatus: the state of each migration of this build.
MigrationState(m, ledger) ==
    IF ledger[m.version] = Absent THEN "pending"
    ELSE IF ledger[m.version] = m.checksum THEN "applied" ELSE "modified"

\* postgresSchemaState
SchemaState(p, table, ledger) ==
    LET states == {MigrationState(Build(p)[i], ledger) : i \in DOMAIN Build(p)}
    IN  IF ~table THEN "missing"
        ELSE IF "modified" \in states THEN "modified"
        ELSE IF "pending" \in states THEN "pending" ELSE "ready"

ReadLedger(p) ==
    /\ stage[p] = "status"
    /\ LET ledger == IF found[p].table THEN db.ledger ELSE NoRows
       IN  report' = [report EXCEPT ![p] = SchemaState(p, found[p].table, ledger)]
    /\ stage' = [stage EXCEPT ![p] = "ended"]
    /\ UNCHANGED <<upgrade, db, tx, found, next, aborted>>

\* A server that is not ready may be asked, or started, again.
AskAgain(p) ==
    /\ stage[p] = "ended" /\ Kind(p) = "serve" /\ report[p] # "ready"
    /\ stage' = [stage EXCEPT ![p] = "idle"]
    /\ UNCHANGED <<upgrade, db, tx, found, next, report, aborted>>

-----------------------------------------------------------------------------
\* The database that the last build left, by steps like these.
Installed ==
    LET rows == {upgrade.installed[i] : i \in DOMAIN upgrade.installed}
        recorded == {m.version : m \in rows}
    IN  [table  |-> upgrade.installed # <<>>,
         ledger |-> [v \in Versions |->
                        IF v \in recorded THEN Row(CHOOSE m \in rows : m.version = v) ELSE Absent],
         ran    |-> [v \in Versions |-> IF v \in recorded THEN 1 ELSE 0]]

SchemaInit ==
    /\ upgrade \in Upgrades
    /\ db = Installed
    /\ stage = [p \in Processes |-> "idle"]
    /\ tx = [p \in Processes |-> Nothing]
    /\ found = [p \in Processes |-> [table |-> FALSE, ledger |-> NoRows]]
    /\ next = [p \in Processes |-> 1]
    /\ report = [p \in Processes |-> Absent]
    /\ aborted = 0

SchemaNext == \E p \in Processes :
    \/ Begin(p) \/ EnsureTable(p) \/ ReadApplied(p) \/ SkipApplied(p) \/ RunSql(p)
    \/ LoseRace(p) \/ Insert(p) \/ Commit(p) \/ Fail(p)
    \/ CheckTable(p) \/ ReadLedger(p) \/ AskAgain(p)

SchemaSpec == SchemaInit /\ [][SchemaNext]_schemaVars

-----------------------------------------------------------------------------
Checksums == UNION {{b[i].checksum : i \in DOMAIN b} : b \in {Build(p) : p \in Processes} \cup {upgrade.installed}}
                 \cup {"applied", Absent}
Rows == [Versions -> Checksums]

SchemaTypeOK ==
    /\ upgrade \in Upgrades
    /\ db \in [table : BOOLEAN, ledger : Rows, ran : [Versions -> 0 .. Cardinality(Processes) + 1]]
    /\ stage \in [Processes -> {"idle", "table", "read", "sql", "insert", "status", "ended"}]
    /\ tx \in [Processes -> [table : BOOLEAN, ledger : Rows, ran : SUBSET Versions]]
    /\ found \in [Processes -> [table : BOOLEAN, ledger : Rows]]
    /\ \A p \in Processes : next[p] \in 1 .. Len(Build(p)) + 1
    /\ report \in [Processes -> {Absent, "migrated", "failed", "missing", "modified", "pending", "ready"}]
    /\ aborted \in 0 .. MaxAborted

IsCurrent(p) == \A i \in DOMAIN Build(p) : db.ledger[Build(p)[i].version] = Row(Build(p)[i])

(* The ledger tells the truth about the schema, whoever raced or died: the   *)
(* SQL of a recorded migration took effect exactly once, that of another one *)
(* not at all.  And the schema is never between two builds: it is the one    *)
(* that was installed, or all of the migrations of one of the builds that    *)
(* migrated are applied (the transaction of migratePostgresDatabase).        *)
LedgerIsTheSchema ==
    /\ \A v \in Versions : db.ran[v] = IF db.ledger[v] = Absent THEN 0 ELSE 1
    /\ db = Installed \/ \E p \in Processes : Kind(p) = "migrate" /\ IsCurrent(p)

(* What a process was told still holds: after "migrated" or "ready" every    *)
(* migration of its build is recorded as it knows it, also though another    *)
(* build migrated meanwhile (assertPostgresSchemaReady, /readyz).            *)
ReportsHold ==
    \A p \in Processes : report[p] \in {"migrated", "ready"} => IsCurrent(p)

(* A step never changes or removes what the ledger says of a migration.      *)
LedgerStands ==
    [][\A v \in Versions : db.ledger[v] # Absent => db'.ledger[v] = db.ledger[v]]_schemaVars
=============================================================================
