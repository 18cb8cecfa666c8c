--------------------------- MODULE Records_proofs ---------------------------
(***************************************************************************)
(* What is kept, and what a reader is shown of it: of the schema and its   *)
(* ledger, of the event log and the client that streams it, and of the     *)
(* review checkpoints.                                                     *)
(***************************************************************************)
EXTENDS SchemaMigrations, EventStream, ReviewCheckpoints, SequenceTheorems, FiniteSetTheorems, TLAPS

-----------------------------------------------------------------------------
(***************************************************************************)
(* The migrations, however many builds migrate one database at once, and   *)
(* wherever they die: the ledger is the schema, what it says stands, and   *)
(* what a process was told holds.                                          *)
(***************************************************************************)

IsBuild(b, Marks) ==
    /\ b \in Seq([version : Versions, checksum : Marks])
    /\ \A i, j \in DOMAIN b : b[i].version = b[j].version => i = j

\* What the theorems ask of the builds: they number their migrations, and only
\* a Postgres schema is checked before it is served.
BuildsOver(Marks) ==
    /\ "applied" \in Marks /\ Absent \notin Marks \cup {"migrated", "ready"}
    /\ \A q \in Upgrades :
        /\ IsBuild(q.installed, Marks)
        /\ \A p \in Processes :
            /\ IsBuild(q.task[p].build, Marks)
            /\ q.task[p].kind = "serve" => q.engine = "postgres"

Ledgers(Marks) == [Versions -> Marks \cup {Absent}]

Typed(Marks) ==
    /\ upgrade \in Upgrades
    /\ db \in [table : BOOLEAN, ledger : Ledgers(Marks), ran : [Versions -> Nat]]
    /\ stage \in [Processes -> {"idle", "table", "read", "sql", "insert", "status", "ended"}]
    /\ tx \in [Processes -> [table : BOOLEAN, ledger : Ledgers(Marks), ran : SUBSET Versions]]
    /\ found \in [Processes -> [table : BOOLEAN, ledger : Ledgers(Marks)]]
    /\ next \in [Processes -> Nat]
    /\ report \in [Processes -> {Absent, "migrated", "failed", "missing", "modified", "pending", "ready"}]

Working(p) == stage[p] \in {"sql", "insert"}

\* What p sees of a version inside its transaction.
Standing(p, v) == IF tx[p].ledger[v] # Absent THEN tx[p].ledger[v] ELSE db.ledger[v]

\* How far p is, by where it stands.
Placed(p) ==
    /\ stage[p] \in {"table", "read", "sql", "insert"} => Kind(p) = "migrate"
    /\ stage[p] = "status" => Kind(p) = "serve"
    /\ Kind(p) = "serve" \/ stage[p] \in {"idle", "table", "read"} => next[p] = 1
    /\ next[p] \in 1 .. Len(Build(p)) + 1
    /\ stage[p] = "insert" => next[p] <= Len(Build(p))

\* The SQL that p ran is what it recorded, and the migration it is at.
RanIsWritten(p) ==
    /\ ~Working(p) => tx[p].ran = {}
    /\ \A v \in Versions :
        v \in tx[p].ran <=> \/ tx[p].ledger[v] # Absent
                            \/ stage[p] = "insert" /\ v = Current(p).version

\* What p records is not recorded by anybody else.
WrittenIsNew(p) == \A v \in Versions : tx[p].ledger[v] # Absent => db.ledger[v] = Absent

\* What p read is still so.
SeenStands(p) ==
    \A v \in Versions : found[p].ledger[v] # Absent => db.ledger[v] = found[p].ledger[v]

\* The migrations p has passed are applied, as far as p can see.
Passed(p) ==
    Working(p) =>
        \A i \in 1 .. Len(Build(p)) :
            i < next[p] => Standing(p, Build(p)[i].version) = Row(Build(p)[i])

Apart == \A p, q \in Processes : p # q => tx[p].ran \cap tx[q].ran = {}

RanOnce == \A v \in Versions : db.ran[v] = IF db.ledger[v] = Absent THEN 0 ELSE 1

NeverBetween == db = Installed \/ \E p \in Processes : Kind(p) = "migrate" /\ IsCurrent(p)

Own(p) == Placed(p) /\ RanIsWritten(p) /\ WrittenIsNew(p) /\ SeenStands(p) /\ Passed(p)

IInv(Marks) ==
    /\ Typed(Marks)
    /\ \A p \in Processes : Own(p)
    /\ Apart
    /\ RanOnce
    /\ NeverBetween
    /\ ReportsHold

-----------------------------------------------------------------------------
LEMMA Elements ==
    ASSUME NEW S, NEW b \in Seq(S)
    PROVE  Len(b) \in Nat /\ DOMAIN b = 1 .. Len(b) /\ \A i \in 1 .. Len(b) : b[i] \in S
OBVIOUS

LEMMA BuildFacts ==
    ASSUME NEW Marks, BuildsOver(Marks), upgrade \in Upgrades, NEW p \in Processes
    PROVE  /\ Len(Build(p)) \in Nat /\ DOMAIN Build(p) = 1 .. Len(Build(p))
           /\ \A i \in 1 .. Len(Build(p)) :
                /\ Build(p)[i].version \in Versions
                /\ Build(p)[i].checksum \in Marks
                /\ Row(Build(p)[i]) \in Marks
                /\ Row(Build(p)[i]) # Absent
           /\ \A i, j \in 1 .. Len(Build(p)) : Build(p)[i].version = Build(p)[j].version => i = j
           /\ Kind(p) = "serve" => \A i \in 1 .. Len(Build(p)) : Row(Build(p)[i]) = Build(p)[i].checksum
<1> DEFINE B == Build(p)
<1>1. /\ IsBuild(B, Marks)
      /\ Kind(p) = "serve" => Engine = "postgres"
  BY DEF BuildsOver, Build, Kind, Engine
<1>2. /\ B \in Seq([version : Versions, checksum : Marks])
      /\ \A i, j \in DOMAIN B : B[i].version = B[j].version => i = j
  BY <1>1 DEF IsBuild
<1> HIDE DEF B
<1>3. Len(B) \in Nat /\ DOMAIN B = 1 .. Len(B)
  BY <1>2, Elements
<1>4. \A i \in 1 .. Len(B) : B[i] \in [version : Versions, checksum : Marks]
  BY <1>2, Elements, Zenon
<1>5. \A i \in 1 .. Len(B) : B[i].version \in Versions /\ B[i].checksum \in Marks
  BY <1>4
<1>6. \A i \in 1 .. Len(B) : Row(B[i]) \in Marks
  BY <1>5 DEF Row, BuildsOver
<1>7. Kind(p) = "serve" => \A i \in 1 .. Len(B) : Row(B[i]) = B[i].checksum
  BY <1>1 DEF Row
<1> QED
  BY <1>2, <1>3, <1>5, <1>6, <1>7 DEF BuildsOver, B

\* The row that Installed takes for a version.
LEMMA InstalledRows ==
    ASSUME NEW Marks, BuildsOver(Marks), upgrade \in Upgrades
    PROVE  LET rows == {upgrade.installed[i] : i \in DOMAIN upgrade.installed}
           IN  \A v \in {m.version : m \in rows} :
                   Row(CHOOSE m \in rows : m.version = v) \in Marks
<1> DEFINE b == upgrade.installed
           rows == {b[i] : i \in DOMAIN b}
<1>1. /\ b \in Seq([version : Versions, checksum : Marks])
      /\ "applied" \in Marks
  BY DEF BuildsOver, IsBuild
<1> HIDE DEF b
<1>2. \A i \in DOMAIN b : b[i] \in [version : Versions, checksum : Marks]
  BY <1>1, Elements, Zenon
<1>3. \A m \in rows : Row(m) \in Marks
  BY <1>1, <1>2 DEF Row
<1>4. ASSUME NEW v \in {m.version : m \in rows}
      PROVE  Row(CHOOSE m \in rows : m.version = v) \in Marks
  <2>1. \E m \in rows : m.version = v
    BY <1>4
  <2> HIDE DEF rows
  <2>2. (CHOOSE m \in rows : m.version = v) \in rows
    BY <2>1
  <2> QED
    BY <2>2, <1>3
<1> QED
  BY <1>4 DEF b

\* Per version, what the last build left.
LEMMA InstalledIs ==
    ASSUME NEW Marks, BuildsOver(Marks), upgrade \in Upgrades
    PROVE  /\ Installed \in [table : BOOLEAN, ledger : Ledgers(Marks), ran : [Versions -> Nat]]
           /\ \A v \in Versions :
                Installed.ran[v] = IF Installed.ledger[v] = Absent THEN 0 ELSE 1
<1> DEFINE rows == {upgrade.installed[i] : i \in DOMAIN upgrade.installed}
           recorded == {m.version : m \in rows}
           row(v) == Row(CHOOSE m \in rows : m.version = v)
           ledger == [v \in Versions |-> IF v \in recorded THEN row(v) ELSE Absent]
           ran == [v \in Versions |-> IF v \in recorded THEN 1 ELSE 0]
<1>1. \A v \in recorded : row(v) \in Marks
  BY InstalledRows
<1>2. Installed = [table |-> upgrade.installed # <<>>, ledger |-> ledger, ran |-> ran]
  BY DEF Installed
<1> HIDE DEF row, recorded
<1>3. ledger \in Ledgers(Marks) /\ ran \in [Versions -> Nat]
  BY <1>1 DEF Ledgers
<1>4. \A v \in Versions : ran[v] = IF ledger[v] = Absent THEN 0 ELSE 1
  BY <1>1 DEF BuildsOver
<1> HIDE DEF ledger, ran
<1> QED
  BY <1>2, <1>3, <1>4

LEMMA InitHolds == ASSUME NEW Marks, BuildsOver(Marks), SchemaInit PROVE IInv(Marks)
<1>1. Typed(Marks)
  <2>1. NoRows \in Ledgers(Marks)
    BY DEF NoRows, Ledgers
  <2> QED
    BY <2>1, InstalledIs DEF SchemaInit, Typed, Nothing
<1>2. RanOnce
  BY InstalledIs DEF SchemaInit, RanOnce
<1>3. ASSUME NEW p \in Processes
      PROVE  Own(p)
  <2>1. /\ stage[p] = "idle" /\ next[p] = 1
        /\ tx[p].ran = {} /\ \A v \in Versions : tx[p].ledger[v] = Absent /\ found[p].ledger[v] = Absent
    BY DEF SchemaInit, Nothing, NoRows
  <2>2. Len(Build(p)) \in Nat
    BY BuildFacts DEF SchemaInit
  <2> QED
    BY <2>1, <2>2 DEF Own, Placed, RanIsWritten, WrittenIsNew, SeenStands, Passed, Working
<1>4. Apart
  BY DEF Apart, SchemaInit, Nothing
<1>5. NeverBetween
  BY DEF NeverBetween, SchemaInit
<1>6. ReportsHold
  BY DEF ReportsHold, SchemaInit, BuildsOver
<1> QED
  BY <1>1, <1>2, <1>3, <1>4, <1>5, <1>6 DEF IInv
-----------------------------------------------------------------------------
(* One process moves, and nothing is committed.                             *)

\* What q is in does not depend on what p does.
OthersStay(p) ==
    \A q \in Processes \ {p} :
        stage'[q] = stage[q] /\ tx'[q] = tx[q] /\ found'[q] = found[q] /\ next'[q] = next[q]

ReportsStay(p) ==
    \A q \in Processes :
        report'[q] \in {"migrated", "ready"} => report[q] \in {"migrated", "ready"} \/ IsCurrent(q)

LEMMA OwnDependsOn ==
    ASSUME NEW q \in Processes, upgrade' = upgrade, db' = db,
           stage'[q] = stage[q], tx'[q] = tx[q], found'[q] = found[q], next'[q] = next[q], Own(q)
    PROVE  Own(q)'
<1>1. /\ Kind(q)' = Kind(q) /\ Build(q)' = Build(q) /\ Current(q)' = Current(q)
      /\ \A m : Row(m)' = Row(m)
  BY DEF Kind, Build, Current, Row, Engine
<1>2. Placed(q)' /\ Working(q)' = Working(q)
  BY <1>1 DEF Own, Placed, Working
<1>3. RanIsWritten(q)' /\ WrittenIsNew(q)' /\ SeenStands(q)'
  BY <1>1, <1>2 DEF Own, RanIsWritten, WrittenIsNew, SeenStands
<1>4. Passed(q)'
  BY <1>1, <1>2 DEF Own, Passed, Standing
<1> QED
  BY <1>2, <1>3, <1>4 DEF Own

LEMMA CurrentDependsOn ==
    ASSUME NEW q \in Processes, upgrade' = upgrade, db' = db PROVE IsCurrent(q)' <=> IsCurrent(q)
<1>1. Build(q)' = Build(q) /\ \A m : Row(m)' = Row(m)
  BY DEF Build, Row, Engine
<1> QED
  BY <1>1 DEF IsCurrent

LEMMA LocalStep ==
    ASSUME NEW Marks, NEW p \in Processes, IInv(Marks), Typed(Marks)', upgrade' = upgrade, db' = db,
           OthersStay(p), ReportsStay(p), Own(p)',
           \A q \in Processes \ {p} : tx'[p].ran \cap tx[q].ran = {}
    PROVE  IInv(Marks)'
<1>1. ASSUME NEW q \in Processes PROVE Own(q)'
  BY OwnDependsOn DEF IInv, OthersStay
<1>2. Apart'
  BY DEF IInv, Apart, OthersStay
<1>3. RanOnce'
  BY DEF IInv, RanOnce
<1>4. NeverBetween'
  <2>1. Installed' = Installed /\ \A q \in Processes : Kind(q)' = Kind(q)
    BY DEF Installed, Kind, Row, Engine
  <2> QED
    BY <2>1, CurrentDependsOn DEF IInv, NeverBetween
<1>5. ReportsHold'
  BY CurrentDependsOn DEF IInv, ReportsHold, ReportsStay
<1> QED
  BY <1>1, <1>2, <1>3, <1>4, <1>5 DEF IInv

LEMMA BeginKeeps ==
    ASSUME NEW Marks, BuildsOver(Marks), IInv(Marks), NEW p \in Processes, Begin(p)
    PROVE  IInv(Marks)'
<1>1. Typed(Marks)'
  BY DEF IInv, Typed, Begin
<1>2. Kind(p)' = Kind(p) /\ Build(p)' = Build(p) /\ \A m : Row(m)' = Row(m)
  BY DEF Kind, Build, Row, Engine, Begin
<1>3. Own(p)
  BY DEF IInv
<1>4. Own(p)'
  BY <1>2, <1>3, <1>1 DEF Own, Placed, RanIsWritten, WrittenIsNew, SeenStands, Passed, Working, Standing, Typed, IInv, Begin
<1>5. \A q \in Processes \ {p} : tx'[p].ran \cap tx[q].ran = {}
  BY DEF IInv, Typed, Apart, Begin
<1>6. OthersStay(p) /\ ReportsStay(p) /\ upgrade' = upgrade /\ db' = db
  BY DEF IInv, Typed, OthersStay, ReportsStay, Begin
<1> QED
  BY <1>1, <1>4, <1>5, <1>6, LocalStep

LEMMA EnsureTableKeeps ==
    ASSUME NEW Marks, BuildsOver(Marks), IInv(Marks), NEW p \in Processes, EnsureTable(p)
    PROVE  IInv(Marks)'
<1>1. Typed(Marks)'
  BY DEF IInv, Typed, EnsureTable
<1>2. Kind(p)' = Kind(p) /\ Build(p)' = Build(p) /\ \A m : Row(m)' = Row(m)
  BY DEF Kind, Build, Row, Engine, EnsureTable
<1>3. Own(p)
  BY DEF IInv
<1>4. Own(p)'
  BY <1>2, <1>3, <1>1 DEF Own, Placed, RanIsWritten, WrittenIsNew, SeenStands, Passed, Working, Standing, Typed, IInv, EnsureTable
<1>5. \A q \in Processes \ {p} : tx'[p].ran \cap tx[q].ran = {}
  BY DEF IInv, Typed, Apart, EnsureTable
<1>6. OthersStay(p) /\ ReportsStay(p) /\ upgrade' = upgrade /\ db' = db
  BY DEF IInv, Typed, OthersStay, ReportsStay, EnsureTable
<1> QED
  BY <1>1, <1>4, <1>5, <1>6, LocalStep

LEMMA ReadAppliedKeeps ==
    ASSUME NEW Marks, BuildsOver(Marks), IInv(Marks), NEW p \in Processes, ReadApplied(p)
    PROVE  IInv(Marks)'
<1>1. Typed(Marks)'
  BY DEF IInv, Typed, ReadApplied
<1>2. Kind(p)' = Kind(p) /\ Build(p)' = Build(p) /\ \A m : Row(m)' = Row(m)
  BY DEF Kind, Build, Row, Engine, ReadApplied
<1>3. Own(p)
  BY DEF IInv
<1>4. Own(p)'
  BY <1>2, <1>3, <1>1 DEF Own, Placed, RanIsWritten, WrittenIsNew, SeenStands, Passed, Working, Standing, Typed, IInv, ReadApplied
<1>5. \A q \in Processes \ {p} : tx'[p].ran \cap tx[q].ran = {}
  BY DEF IInv, Typed, Apart, ReadApplied
<1>6. OthersStay(p) /\ ReportsStay(p) /\ upgrade' = upgrade /\ db' = db
  BY DEF IInv, Typed, OthersStay, ReportsStay, ReadApplied
<1> QED
  BY <1>1, <1>4, <1>5, <1>6, LocalStep

LEMMA CheckTableKeeps ==
    ASSUME NEW Marks, BuildsOver(Marks), IInv(Marks), NEW p \in Processes, CheckTable(p)
    PROVE  IInv(Marks)'
<1>1. Typed(Marks)'
  <2>1. NoRows \in Ledgers(Marks)
    BY DEF NoRows, Ledgers
  <2> QED
    BY <2>1 DEF IInv, Typed, CheckTable
<1>2. Kind(p)' = Kind(p) /\ Build(p)' = Build(p) /\ \A m : Row(m)' = Row(m)
  BY DEF Kind, Build, Row, Engine, CheckTable
<1>3. Own(p)
  BY DEF IInv
<1>4. Own(p)'
  BY <1>2, <1>3, <1>1 DEF Own, Placed, RanIsWritten, WrittenIsNew, SeenStands, Passed, Working, Standing, Typed, IInv, CheckTable, NoRows
<1>5. \A q \in Processes \ {p} : tx'[p].ran \cap tx[q].ran = {}
  BY DEF IInv, Typed, Apart, CheckTable, NoRows
<1>6. OthersStay(p) /\ ReportsStay(p) /\ upgrade' = upgrade /\ db' = db
  BY DEF IInv, Typed, OthersStay, ReportsStay, CheckTable, NoRows
<1> QED
  BY <1>1, <1>4, <1>5, <1>6, LocalStep

LEMMA AskAgainKeeps ==
    ASSUME NEW Marks, BuildsOver(Marks), IInv(Marks), NEW p \in Processes, AskAgain(p)
    PROVE  IInv(Marks)'
<1>1. Typed(Marks)'
  BY DEF IInv, Typed, AskAgain
<1>2. Kind(p)' = Kind(p) /\ Build(p)' = Build(p) /\ \A m : Row(m)' = Row(m)
  BY DEF Kind, Build, Row, Engine, AskAgain
<1>3. Own(p)
  BY DEF IInv
<1>4. Own(p)'
  BY <1>2, <1>3, <1>1 DEF Own, Placed, RanIsWritten, WrittenIsNew, SeenStands, Passed, Working, Standing, Typed, IInv, AskAgain
<1>5. \A q \in Processes \ {p} : tx'[p].ran \cap tx[q].ran = {}
  BY DEF IInv, Typed, Apart, AskAgain
<1>6. OthersStay(p) /\ ReportsStay(p) /\ upgrade' = upgrade /\ db' = db
  BY DEF IInv, Typed, OthersStay, ReportsStay, AskAgain
<1> QED
  BY <1>1, <1>4, <1>5, <1>6, LocalStep

LEMMA LoseRaceKeeps ==
    ASSUME NEW Marks, BuildsOver(Marks), IInv(Marks), NEW p \in Processes, LoseRace(p)
    PROVE  IInv(Marks)'
<1>1. Typed(Marks)'
  <2>1. Nothing \in [table : BOOLEAN, ledger : Ledgers(Marks), ran : SUBSET Versions]
    BY DEF Nothing, NoRows, Ledgers
  <2> QED
    BY <2>1 DEF IInv, Typed, LoseRace, Rollback
<1>2. Kind(p)' = Kind(p) /\ Build(p)' = Build(p) /\ \A m : Row(m)' = Row(m)
  BY DEF Kind, Build, Row, Engine, LoseRace
<1>3. Own(p)
  BY DEF IInv
<1>4. Own(p)'
  <2>1. /\ stage'[p] = "ended" /\ next'[p] = next[p] /\ found'[p] = found[p] /\ db' = db
        /\ tx'[p].ran = {} /\ \A v \in Versions : tx'[p].ledger[v] = Absent
    BY DEF IInv, Typed, LoseRace, Rollback, Nothing, NoRows
  <2> QED
    BY <1>2, <1>3, <2>1 DEF Own, Placed, RanIsWritten, WrittenIsNew, SeenStands, Passed, Working
<1>5. \A q \in Processes \ {p} : tx'[p].ran \cap tx[q].ran = {}
  BY DEF IInv, Typed, LoseRace, Rollback, Nothing
<1>6. OthersStay(p) /\ ReportsStay(p) /\ upgrade' = upgrade /\ db' = db
  BY DEF IInv, Typed, OthersStay, ReportsStay, LoseRace, Rollback
<1> QED
  BY <1>1, <1>4, <1>5, <1>6, LocalStep

LEMMA FailKeeps ==
    ASSUME NEW Marks, BuildsOver(Marks), IInv(Marks), NEW p \in Processes, Fail(p)
    PROVE  IInv(Marks)'
<1>1. Typed(Marks)'
  <2>1. Nothing \in [table : BOOLEAN, ledger : Ledgers(Marks), ran : SUBSET Versions]
    BY DEF Nothing, NoRows, Ledgers
  <2> QED
    BY <2>1 DEF IInv, Typed, Fail, Rollback
<1>2. Kind(p)' = Kind(p) /\ Build(p)' = Build(p) /\ \A m : Row(m)' = Row(m)
  BY DEF Kind, Build, Row, Engine, Fail
<1>3. Own(p)
  BY DEF IInv
<1>4. Own(p)'
  <2>1. /\ stage'[p] = "ended" /\ next'[p] = next[p] /\ found'[p] = found[p] /\ db' = db
        /\ tx'[p].ran = {} /\ \A v \in Versions : tx'[p].ledger[v] = Absent
    BY DEF IInv, Typed, Fail, Rollback, Nothing, NoRows
  <2> QED
    BY <1>2, <1>3, <2>1 DEF Own, Placed, RanIsWritten, WrittenIsNew, SeenStands, Passed, Working
<1>5. \A q \in Processes \ {p} : tx'[p].ran \cap tx[q].ran = {}
  BY DEF IInv, Typed, Fail, Rollback, Nothing
<1>6. OthersStay(p) /\ ReportsStay(p) /\ upgrade' = upgrade /\ db' = db
  BY DEF IInv, Typed, OthersStay, ReportsStay, Fail, Rollback
<1> QED
  BY <1>1, <1>4, <1>5, <1>6, LocalStep

LEMMA RunSqlKeeps ==
    ASSUME NEW Marks, BuildsOver(Marks), IInv(Marks), NEW p \in Processes, RunSql(p)
    PROVE  IInv(Marks)'
<1>1. Typed(Marks)'
  <2>1. Current(p).version \in Versions
    BY BuildFacts DEF IInv, Typed, Own, Placed, Current, RunSql
  <2> QED
    BY <2>1 DEF IInv, Typed, RunSql
<1>2. Kind(p)' = Kind(p) /\ Build(p)' = Build(p) /\ \A m : Row(m)' = Row(m)
  BY DEF Kind, Build, Row, Engine, RunSql
<1>3. Own(p)
  BY DEF IInv
<1>4. Own(p)'
  <2>1. /\ stage[p] = "sql" /\ stage'[p] = "insert" /\ next'[p] = next[p] /\ found'[p] = found[p] /\ db' = db
        /\ tx'[p].ran = tx[p].ran \cup {Current(p).version} /\ tx'[p].ledger = tx[p].ledger
        /\ next[p] <= Len(Build(p))
    BY DEF IInv, Typed, RunSql
  <2>2. Current(p)' = Current(p)
    BY <1>2, <2>1 DEF Current
  <2>3. Placed(p)' /\ WrittenIsNew(p)' /\ SeenStands(p)' /\ Passed(p)'
    BY <1>2, <1>3, <2>1 DEF Own, Placed, WrittenIsNew, SeenStands, Passed, Working, Standing
  <2>4. RanIsWritten(p)'
    BY <1>3, <2>1, <2>2 DEF Own, RanIsWritten, Working
  <2> QED
    BY <2>3, <2>4 DEF Own
<1>5. \A q \in Processes \ {p} : tx'[p].ran \cap tx[q].ran = {}
  <2>1. tx'[p].ran = tx[p].ran \cup {Current(p).version}
    BY DEF IInv, Typed, RunSql
  <2>2. \A q \in Processes \ {p} : Current(p).version \notin tx[q].ran
    BY DEF RunSql, Held
  <2> QED
    BY <2>1, <2>2 DEF IInv, Apart
<1>6. OthersStay(p) /\ ReportsStay(p) /\ upgrade' = upgrade /\ db' = db
  BY DEF IInv, Typed, OthersStay, ReportsStay, RunSql
<1> QED
  BY <1>1, <1>4, <1>5, <1>6, LocalStep

LEMMA InsertKeeps ==
    ASSUME NEW Marks, BuildsOver(Marks), IInv(Marks), NEW p \in Processes, Insert(p)
    PROVE  IInv(Marks)'
<1>1. Typed(Marks)'
  <2>1. Current(p).version \in Versions /\ Row(Current(p)) \in Marks
    BY BuildFacts DEF IInv, Typed, Own, Placed, Current, Insert
  <2>2. [tx[p] EXCEPT !.ledger[Current(p).version] = Row(Current(p))]
          \in [table : BOOLEAN, ledger : Ledgers(Marks), ran : SUBSET Versions]
    BY <2>1 DEF IInv, Typed, Ledgers
  <2> QED
    BY SMTT(20), <2>2 DEF IInv, Typed, Insert
<1>2. Kind(p)' = Kind(p) /\ Build(p)' = Build(p) /\ \A m : Row(m)' = Row(m)
  BY DEF Kind, Build, Row, Engine, Insert
<1>3. Own(p)
  BY DEF IInv
<1>4. Own(p)'
  <2> DEFINE v == Current(p).version
  <2>1. /\ stage[p] = "insert" /\ stage'[p] = "sql" /\ next'[p] = next[p] + 1 /\ found'[p] = found[p] /\ db' = db
        /\ tx'[p].ran = tx[p].ran /\ db.ledger[v] = Absent
    BY DEF IInv, Typed, Insert
  <2>2. next[p] \in 1 .. Len(Build(p)) /\ Len(Build(p)) \in Nat
    BY <1>3, <2>1, BuildFacts DEF Own, Placed, IInv, Typed
  <2>3. v \in Versions /\ Row(Current(p)) # Absent
    BY <2>2, BuildFacts DEF Current, IInv, Typed
  <2>4. \A w \in Versions : tx'[p].ledger[w] = IF w = v THEN Row(Current(p)) ELSE tx[p].ledger[w]
    BY <2>3 DEF IInv, Typed, Insert, Ledgers
  <2>5. Placed(p)'
    BY <1>2, <1>3, <2>1, <2>2 DEF Own, Placed
  <2>6. RanIsWritten(p)'
    BY <1>3, <2>1, <2>3, <2>4 DEF Own, RanIsWritten, Working
  <2>7. WrittenIsNew(p)' /\ SeenStands(p)'
    BY <1>3, <2>1, <2>4 DEF Own, WrittenIsNew, SeenStands
  <2>8. Passed(p)'
    <3> SUFFICES ASSUME NEW i \in 1 .. Len(Build(p)), i < next[p] + 1
                 PROVE  Standing(p, Build(p)[i].version)' = Row(Build(p)[i])
      BY <1>2, <2>1 DEF Passed
    <3>1. Build(p)[i].version \in Versions
      BY BuildFacts DEF IInv, Typed
    <3>2. CASE i = next[p]
      <4>1. Build(p)[i].version = v /\ Build(p)[i] = Current(p)
        BY <3>2 DEF Current
      <4>2. tx'[p].ledger[v] = Row(Current(p)) /\ tx'[p].ledger[v] # Absent
        BY <2>3, <2>4
      <4>3. ASSUME NEW w, tx'[p].ledger[w] # Absent PROVE Standing(p, w)' = tx'[p].ledger[w]
        BY <4>3, Zenon DEF Standing
      <4> QED
        BY <4>1, <4>2, <4>3, <1>2, Zenon DEF Standing
    <3>3. CASE i < next[p]
      <4>1. Build(p)[i].version # v
        BY <3>3, <2>2, BuildFacts DEF Current, IInv, Typed
      <4>2. Standing(p, Build(p)[i].version) = Row(Build(p)[i])
        BY <1>3, <2>1, <3>3 DEF Own, Passed, Working
      <4>3. tx'[p].ledger[Build(p)[i].version] = tx[p].ledger[Build(p)[i].version]
        BY <4>1, <3>1, <2>4
      <4>4. ASSUME NEW w, tx'[p].ledger[w] = tx[p].ledger[w] PROVE Standing(p, w)' = Standing(p, w)
        BY <4>4, <2>1, Zenon DEF Standing
      <4> QED
        BY <4>2, <4>3, <4>4, <1>2, <2>1, Zenon DEF Standing
    <3> QED
      BY <3>2, <3>3, <2>2
  <2> QED
    BY <2>5, <2>6, <2>7, <2>8 DEF Own
<1>5. \A q \in Processes \ {p} : tx'[p].ran \cap tx[q].ran = {}
  <2>1. tx'[p].ran = tx[p].ran
    BY DEF IInv, Typed, Insert
  <2> QED
    BY <2>1 DEF IInv, Apart
<1>6. OthersStay(p) /\ ReportsStay(p) /\ upgrade' = upgrade /\ db' = db
  BY DEF IInv, Typed, OthersStay, ReportsStay, Insert
<1> QED
  BY <1>1, <1>4, <1>5, <1>6, LocalStep

LEMMA SkipAppliedKeeps ==
    ASSUME NEW Marks, BuildsOver(Marks), IInv(Marks), NEW p \in Processes, SkipApplied(p)
    PROVE  IInv(Marks)'
<1>1. Typed(Marks)'
  <2>1. Nothing \in [table : BOOLEAN, ledger : Ledgers(Marks), ran : SUBSET Versions]
    BY DEF Nothing, NoRows, Ledgers
  <2>2. CASE Applied(p) = Row(Current(p))
    <3>1. next' = [next EXCEPT ![p] = @ + 1] /\ UNCHANGED <<upgrade, db, stage, tx, found, report>>
      BY <2>2 DEF SkipApplied
    <3> QED
      BY <3>1 DEF IInv, Typed
  <2>3. CASE Applied(p) # Row(Current(p))
    <3>1. Rollback(p, "failed") /\ UNCHANGED <<upgrade, db, found, next>>
      BY <2>3 DEF SkipApplied
    <3> QED
      BY <2>1, <3>1 DEF IInv, Typed, Rollback
  <2> QED
    BY <2>2, <2>3
<1>2. Kind(p)' = Kind(p) /\ Build(p)' = Build(p) /\ \A m : Row(m)' = Row(m)
  BY DEF Kind, Build, Row, Engine, SkipApplied
<1>3. Own(p)
  BY DEF IInv
<1>4. CASE Applied(p) # Row(Current(p))
  <2>1. /\ stage'[p] = "ended" /\ next'[p] = next[p] /\ found'[p] = found[p] /\ db' = db
        /\ tx'[p].ran = {} /\ \A v \in Versions : tx'[p].ledger[v] = Absent
    BY <1>4 DEF IInv, Typed, SkipApplied, Rollback, Nothing, NoRows
  <2>2. Own(p)'
    BY <1>2, <1>3, <2>1 DEF Own, Placed, RanIsWritten, WrittenIsNew, SeenStands, Passed, Working
  <2>3. OthersStay(p) /\ ReportsStay(p) /\ upgrade' = upgrade
    BY <1>4 DEF IInv, Typed, OthersStay, ReportsStay, SkipApplied, Rollback
  <2> QED
    BY <1>1, <2>1, <2>2, <2>3, LocalStep
<1>5. CASE Applied(p) = Row(Current(p))
  <2>1. /\ stage[p] = "sql" /\ stage' = stage /\ next'[p] = next[p] + 1 /\ found' = found /\ db' = db
        /\ tx' = tx /\ report' = report /\ upgrade' = upgrade
    BY <1>5 DEF IInv, Typed, SkipApplied
  <2>2. next[p] \in 1 .. Len(Build(p)) /\ Len(Build(p)) \in Nat
    BY <1>3, BuildFacts DEF Own, Placed, IInv, Typed, SkipApplied
  <2>3. Placed(p)'
    BY <1>2, <1>3, <2>1, <2>2 DEF Own, Placed
  <2>4. RanIsWritten(p)' /\ WrittenIsNew(p)' /\ SeenStands(p)'
    BY <1>3, <2>1 DEF Own, RanIsWritten, WrittenIsNew, SeenStands, Working
  <2>5. Standing(p, Current(p).version) = Row(Current(p))
    <3>1. Current(p).version \in Versions /\ Row(Current(p)) # Absent
      BY <2>2, BuildFacts DEF Current, IInv, Typed
    <3>2. db.ledger[Current(p).version] = Row(Current(p))
      BY <1>3, <1>5, <3>1 DEF Own, SeenStands, Applied
    <3>3. tx[p].ledger[Current(p).version] = Absent
      BY <1>3, <3>1, <3>2 DEF Own, WrittenIsNew
    <3> QED
      BY <3>2, <3>3 DEF Standing
  <2>6. Passed(p)'
    <3> SUFFICES ASSUME NEW i \in 1 .. Len(Build(p)), i < next[p] + 1
                 PROVE  Standing(p, Build(p)[i].version)' = Row(Build(p)[i])
      BY <1>2, <2>1 DEF Passed
    <3>1. Standing(p, Build(p)[i].version) = Row(Build(p)[i])
      <4>1. CASE i = next[p]
        BY <4>1, <2>5 DEF Current
      <4>2. CASE i < next[p]
        BY <4>2, <1>3, <2>1 DEF Own, Passed, Working
      <4> QED
        BY <4>1, <4>2, <2>2
    <3> QED
      BY <3>1, <1>2, <2>1 DEF Standing
  <2>7. OthersStay(p) /\ ReportsStay(p) /\ \A q \in Processes \ {p} : tx'[p].ran \cap tx[q].ran = {}
    BY <1>5, <2>1 DEF IInv, Typed, OthersStay, ReportsStay, SkipApplied, Apart
  <2> QED
    BY <1>1, <2>1, <2>3, <2>4, <2>6, <2>7, LocalStep DEF Own
<1> QED
  BY <1>4, <1>5

\* Ready is what the committed ledger says of every migration of the build.
LEMMA ReadyIsCurrent ==
    ASSUME NEW Marks, BuildsOver(Marks), IInv(Marks), NEW p \in Processes, Kind(p) = "serve",
           SchemaState(p, found[p].table, IF found[p].table THEN db.ledger ELSE NoRows)
               \in {"migrated", "ready"}
    PROVE  IsCurrent(p)
<1> DEFINE stated(i) == MigrationState(Build(p)[i], db.ledger)
<1>1. found[p].table
  BY DEF SchemaState
<1>2. "modified" \notin {stated(i) : i \in DOMAIN Build(p)} /\ "pending" \notin {stated(i) : i \in DOMAIN Build(p)}
  BY <1>1, Zenon DEF SchemaState
<1>3. \A i \in DOMAIN Build(p) : stated(i) # "modified" /\ stated(i) # "pending"
  BY <1>2, Zenon
<1>4. \A i \in DOMAIN Build(p) : db.ledger[Build(p)[i].version] = Build(p)[i].checksum
  BY <1>3, Zenon DEF MigrationState
<1>5. /\ DOMAIN Build(p) = 1 .. Len(Build(p))
      /\ \A i \in 1 .. Len(Build(p)) : Row(Build(p)[i]) = Build(p)[i].checksum
  BY BuildFacts DEF IInv, Typed
<1> QED
  BY <1>4, <1>5, Zenon DEF IsCurrent

LEMMA ReadStatusKeeps ==
    ASSUME NEW Marks, BuildsOver(Marks), IInv(Marks), NEW p \in Processes, ReadLedger(p)
    PROVE  IInv(Marks)'
<1> DEFINE answer == SchemaState(p, found[p].table, IF found[p].table THEN db.ledger ELSE NoRows)
<1>1. answer \in {"missing", "modified", "pending", "ready"}
  BY Zenon DEF SchemaState
<1>2. report' = [report EXCEPT ![p] = answer]
  BY DEF ReadLedger
<1>3. Own(p)
  BY DEF IInv
<1>4. Kind(p)' = Kind(p) /\ Build(p)' = Build(p) /\ \A m : Row(m)' = Row(m)
  BY DEF Kind, Build, Row, Engine, ReadLedger
<1>5. answer \in {"migrated", "ready"} => IsCurrent(p)
  <2>1. Kind(p) = "serve"
    BY <1>3 DEF Own, Placed, ReadLedger
  <2> QED
    BY <2>1, ReadyIsCurrent
<1> HIDE DEF answer
<1>6. Typed(Marks)'
  BY <1>1, <1>2 DEF IInv, Typed, ReadLedger
<1>7. Own(p)'
  <2>1. stage[p] = "status" /\ stage'[p] = "ended" /\ UNCHANGED <<db, tx, found, next>>
    BY DEF IInv, Typed, ReadLedger
  <2> QED
    BY <2>1, <1>3, <1>4 DEF Own, Placed, RanIsWritten, WrittenIsNew, SeenStands, Passed, Working
<1>8. OthersStay(p) /\ upgrade' = upgrade /\ db' = db
  BY DEF IInv, Typed, OthersStay, ReadLedger
<1>9. ReportsStay(p)
  BY <1>2, <1>5 DEF IInv, Typed, ReportsStay
<1>10. \A q \in Processes \ {p} : tx'[p].ran \cap tx[q].ran = {}
  BY DEF IInv, Apart, ReadLedger
<1> QED
  BY <1>6, <1>7, <1>8, <1>9, <1>10, LocalStep

-----------------------------------------------------------------------------
(* The commit.                                                              *)

LEMMA CommitKeeps ==
    ASSUME NEW Marks, BuildsOver(Marks), IInv(Marks), NEW p \in Processes, Commit(p)
    PROVE  /\ IInv(Marks)'
           /\ \A v \in Versions : db.ledger[v] # Absent => db'.ledger[v] = db.ledger[v]
<1>1. /\ upgrade' = upgrade /\ found' = found /\ next' = next
      /\ stage[p] = "sql" /\ next[p] > Len(Build(p))
      /\ stage' = [stage EXCEPT ![p] = "ended"]
      /\ tx' = [tx EXCEPT ![p] = Nothing]
      /\ report' = [report EXCEPT ![p] = "migrated"]
      /\ db' = Committed(p)
  BY DEF Commit
<1>2. /\ \A q \in Processes : Kind(q)' = Kind(q) /\ Build(q)' = Build(q)
      /\ \A q \in Processes : Current(q)' = Current(q)
      /\ \A m : Row(m)' = Row(m)
      /\ Installed' = Installed
  BY <1>1 DEF Kind, Build, Current, Row, Engine, Installed
<1>3. \A q \in Processes : Own(q)
  BY DEF IInv
<1>4. \A v \in Versions :
        /\ db'.ledger[v] = Standing(p, v)
        /\ db'.ran[v] = db.ran[v] + (IF v \in tx[p].ran THEN 1 ELSE 0)
  BY <1>1 DEF Committed, Standing
<1>5. \A v \in Versions : v \in tx[p].ran <=> tx[p].ledger[v] # Absent
  BY <1>1, <1>3 DEF Own, RanIsWritten
<1>6. \A v \in Versions :
        \/ db.ledger[v] = Absent /\ tx[p].ledger[v] # Absent /\ db'.ledger[v] = tx[p].ledger[v]
        \/ tx[p].ledger[v] = Absent /\ db'.ledger[v] = db.ledger[v]
  BY <1>3, <1>4 DEF Own, WrittenIsNew, Standing
<1>7. \A v \in Versions : db.ledger[v] # Absent => db'.ledger[v] = db.ledger[v]
  BY <1>6
<1>8. Typed(Marks)'
  <2>1. Nothing \in [table : BOOLEAN, ledger : Ledgers(Marks), ran : SUBSET Versions]
    BY DEF Nothing, NoRows, Ledgers
  <2>2. Committed(p) \in [table : BOOLEAN, ledger : Ledgers(Marks), ran : [Versions -> Nat]]
    <3>1. tx[p] \in [table : BOOLEAN, ledger : Ledgers(Marks), ran : SUBSET Versions]
      BY DEF IInv, Typed
    <3>2. db \in [table : BOOLEAN, ledger : Ledgers(Marks), ran : [Versions -> Nat]]
      BY DEF IInv, Typed
    <3>3. [v \in Versions |-> IF tx[p].ledger[v] # Absent THEN tx[p].ledger[v] ELSE db.ledger[v]]
            \in Ledgers(Marks)
      BY <3>1, <3>2 DEF Ledgers
    <3>4. [v \in Versions |-> db.ran[v] + (IF v \in tx[p].ran THEN 1 ELSE 0)] \in [Versions -> Nat]
      BY <3>2
    <3> QED
      BY <3>1, <3>2, <3>3, <3>4 DEF Committed
  <2> QED
    BY <1>1, <2>1, <2>2 DEF IInv, Typed
<1>9. RanOnce'
  BY <1>4, <1>5, <1>6 DEF IInv, RanOnce, Typed
<1>10. \A q \in Processes : IsCurrent(q) => IsCurrent(q)'
  <2> SUFFICES ASSUME NEW q \in Processes, IsCurrent(q), NEW i \in DOMAIN Build(q)
               PROVE  db'.ledger[Build(q)[i].version] = Row(Build(q)[i])
    BY <1>2 DEF IsCurrent
  <2>1. Build(q)[i].version \in Versions /\ Row(Build(q)[i]) # Absent
    BY BuildFacts DEF IInv, Typed
  <2> QED
    BY <2>1, <1>7 DEF IsCurrent
<1>11. IsCurrent(p)'
  <2> SUFFICES ASSUME NEW i \in DOMAIN Build(p)
               PROVE  db'.ledger[Build(p)[i].version] = Row(Build(p)[i])
    BY <1>2 DEF IsCurrent
  <2>1. i \in 1 .. Len(Build(p)) /\ Len(Build(p)) \in Nat /\ Build(p)[i].version \in Versions
    BY BuildFacts DEF IInv, Typed
  <2>2. i < next[p]
    BY <2>1, <1>1 DEF IInv, Typed
  <2>3. Standing(p, Build(p)[i].version) = Row(Build(p)[i])
    BY <2>1, <2>2, <1>1, <1>3 DEF Own, Passed, Working
  <2> QED
    BY <2>1, <2>3, <1>4
<1>12. NeverBetween'
  <2>1. Kind(p) = "migrate"
    BY <1>1, <1>3 DEF Own, Placed
  <2> QED
    BY <2>1, <1>2, <1>11 DEF NeverBetween
<1>13. ReportsHold'
  BY <1>1, <1>10, <1>11 DEF ReportsHold, IInv, Typed
<1>14. Apart'
  <2>1. tx'[p].ran = {} /\ \A q \in Processes \ {p} : tx'[q] = tx[q]
    BY <1>1 DEF IInv, Typed, Nothing
  <2> QED
    BY <2>1 DEF IInv, Apart
<1>15. Own(p)'
  <2>1. /\ stage'[p] = "ended" /\ next'[p] = next[p] /\ found'[p] = found[p]
        /\ tx'[p].ran = {} /\ \A v \in Versions : tx'[p].ledger[v] = Absent
    BY <1>1 DEF IInv, Typed, Nothing, NoRows
  <2>2. SeenStands(p)'
    BY <2>1, <1>3, <1>7 DEF Own, SeenStands
  <2> QED
    BY <1>2, <1>3, <2>1, <2>2 DEF Own, Placed, RanIsWritten, WrittenIsNew, Passed, Working
<1>16. ASSUME NEW q \in Processes \ {p} PROVE Own(q)'
  <2>1. /\ stage'[q] = stage[q] /\ next'[q] = next[q] /\ found'[q] = found[q] /\ tx'[q] = tx[q]
    BY <1>1 DEF IInv, Typed
  <2>2. Placed(q)' /\ RanIsWritten(q)' /\ Working(q)' = Working(q)
    BY <1>2, <1>3, <2>1 DEF Own, Placed, RanIsWritten, Working
  <2>3. SeenStands(q)'
    BY <1>3, <1>7, <2>1 DEF Own, SeenStands
  <2>4. \A v \in Versions : tx[q].ledger[v] # Absent => tx[p].ledger[v] = Absent
    BY <1>3, <1>5 DEF IInv, Apart, Own, RanIsWritten
  <2>5. WrittenIsNew(q)'
    BY <2>1, <2>4, <1>3, <1>6 DEF Own, WrittenIsNew
  <2>6. Passed(q)'
    <3> SUFFICES ASSUME Working(q), NEW i \in 1 .. Len(Build(q)), i < next[q]
                 PROVE  Standing(q, Build(q)[i].version)' = Row(Build(q)[i])
      BY <1>2, <2>1, <2>2 DEF Passed
    <3> DEFINE w == Build(q)[i].version
    <3>1. w \in Versions /\ Row(Build(q)[i]) # Absent
      BY BuildFacts DEF IInv, Typed
    <3>2. Standing(q, w) = Row(Build(q)[i])
      BY <1>3 DEF Own, Passed
    <3>3. tx'[q].ledger[w] = tx[q].ledger[w] /\ w' = w
      BY <2>1, <1>2
    <3>4. CASE tx[q].ledger[w] # Absent
      BY <3>2, <3>3, <3>4, Zenon DEF Standing
    <3>5. CASE tx[q].ledger[w] = Absent
      <4>1. db.ledger[w] = Row(Build(q)[i])
        BY <3>2, <3>5, Zenon DEF Standing
      <4>2. db'.ledger[w] = Row(Build(q)[i])
        BY <4>1, <3>1, <1>7
      <4> QED
        BY <3>3, <3>5, <4>2, Zenon DEF Standing
    <3> QED
      BY <3>4, <3>5
  <2> QED
    BY <2>2, <2>3, <2>5, <2>6 DEF Own
<1> QED
  BY <1>7, <1>8, <1>9, <1>12, <1>13, <1>14, <1>15, <1>16 DEF IInv

-----------------------------------------------------------------------------
LEMMA StepHolds ==
    ASSUME NEW Marks, BuildsOver(Marks), IInv(Marks), [SchemaNext]_schemaVars
    PROVE  /\ IInv(Marks)'
           /\ \A v \in Versions : db.ledger[v] # Absent => db'.ledger[v] = db.ledger[v]
<1>1. CASE UNCHANGED schemaVars
  <2>1. UNCHANGED <<upgrade, db, stage, tx, found, next, report>>
    BY <1>1 DEF schemaVars
  <2>2. Typed(Marks)' /\ Apart' /\ RanOnce'
    BY <2>1 DEF IInv, Typed, Apart, RanOnce
  <2>3. \A p \in Processes : Own(p)'
    BY <2>1, OwnDependsOn DEF IInv
  <2>4. Installed' = Installed /\ \A p \in Processes : Kind(p)' = Kind(p)
    BY <2>1 DEF Installed, Kind, Row, Engine
  <2>5. NeverBetween' /\ ReportsHold'
    BY <2>1, <2>4, CurrentDependsOn DEF IInv, NeverBetween, ReportsHold
  <2> QED
    BY <2>1, <2>2, <2>3, <2>5 DEF IInv
<1>2. ASSUME NEW p \in Processes,
             \/ Begin(p) \/ EnsureTable(p) \/ ReadApplied(p) \/ SkipApplied(p) \/ RunSql(p)
             \/ LoseRace(p) \/ Insert(p) \/ Fail(p) \/ CheckTable(p) \/ ReadLedger(p) \/ AskAgain(p)
      PROVE  IInv(Marks)' /\ db' = db
  <2>1. db' = db
    BY <1>2 DEF Begin, EnsureTable, ReadApplied, SkipApplied, RunSql, LoseRace, Insert, Fail,
                CheckTable, ReadLedger, AskAgain
  <2> QED
    BY <1>2, <2>1, BeginKeeps, EnsureTableKeeps, ReadAppliedKeeps, SkipAppliedKeeps, RunSqlKeeps,
       LoseRaceKeeps, InsertKeeps, FailKeeps, CheckTableKeeps, ReadStatusKeeps, AskAgainKeeps, Zenon
<1>3. ASSUME NEW p \in Processes, Commit(p)
      PROVE  /\ IInv(Marks)'
             /\ \A v \in Versions : db.ledger[v] # Absent => db'.ledger[v] = db.ledger[v]
  BY <1>3, CommitKeeps
<1> QED
  BY <1>1, <1>2, <1>3 DEF SchemaNext, schemaVars

(* The ledger tells the truth about the schema, which is never between two   *)
(* builds, for any number of processes and builds (migratePostgresDatabase,  *)
(* migrateDatabase).                                                         *)
THEOREM LedgerTellsTheTruth ==
    ASSUME NEW CONSTANT Marks, BuildsOver(Marks) PROVE SchemaSpec => []LedgerIsTheSchema
<1>1. SchemaInit => IInv(Marks)
  BY InitHolds
<1>2. IInv(Marks) /\ [SchemaNext]_schemaVars => IInv(Marks)'
  BY StepHolds
<1>3. IInv(Marks) => LedgerIsTheSchema
  BY DEF IInv, RanOnce, NeverBetween, LedgerIsTheSchema
<1> QED
  BY <1>1, <1>2, <1>3, PTL DEF SchemaSpec

(* A process that was told "migrated" or "ready" can rely on it for good     *)
(* (assertPostgresSchemaReady).                                              *)
THEOREM ReportsHoldForGood ==
    ASSUME NEW CONSTANT Marks, BuildsOver(Marks) PROVE SchemaSpec => []ReportsHold
<1>1. SchemaInit => IInv(Marks)
  BY InitHolds
<1>2. IInv(Marks) /\ [SchemaNext]_schemaVars => IInv(Marks)'
  BY StepHolds
<1>3. IInv(Marks) => ReportsHold
  BY DEF IInv
<1> QED
  BY <1>1, <1>2, <1>3, PTL DEF SchemaSpec

(* No step changes or removes a row of the ledger.                           *)
THEOREM NoRowIsLost ==
    ASSUME NEW CONSTANT Marks, BuildsOver(Marks) PROVE SchemaSpec => LedgerStands
<1>1. SchemaInit => IInv(Marks)
  BY InitHolds
<1>2. IInv(Marks) /\ [SchemaNext]_schemaVars => IInv(Marks)'
  BY StepHolds
<1>3. IInv(Marks) /\ [SchemaNext]_schemaVars =>
        [\A v \in Versions : db.ledger[v] # Absent => db'.ledger[v] = db.ledger[v]]_schemaVars
  BY StepHolds
<1> QED
  BY <1>1, <1>2, <1>3, PTL DEF SchemaSpec, LedgerStands

-----------------------------------------------------------------------------
(***************************************************************************)
(* The review checkpoints, however edits and reviews interleave: what an   *)
(* answer marks as reviewed, some answer has shown.                        *)
(***************************************************************************)

\* An edit that the opening found, an answer has shown, or an answer is about to show.
IsCovered(x) ==
    \/ x \in openRef \/ x \in shown
    \/ \E v \in Reviews : review[v].pc = "answer" /\ x \in review[v].current \ review[v].base

\* The first ref is written once, before the second.
OpeningIsOnce ==
    /\ state = "absent" => opening = "no"
    /\ opening \in {"no", "eligibility", "snapshot", "open"} => openRef = NoRef
    /\ openRef = NoRef => baselineRef = NoRef
    /\ opening = "baseline" => openRef = snapshot

BaselineIsCovered == baselineRef # NoRef => \A x \in baselineRef : IsCovered(x)

Compares == {"current", "mark", "answer", "answered"}
HasCompared == {"mark", "answer", "answered"}

ReviewsAreCovered ==
    \A v \in Reviews :
        /\ review[v].pc # "idle" => review[v].asked \subseteq tree
        /\ review[v].pc \in Compares =>
             /\ openRef # NoRef
             /\ \A x \in review[v].base : IsCovered(x)
             /\ review[v].since = "workspace_open" => review[v].base = openRef
        /\ review[v].pc \in HasCompared => review[v].asked \subseteq review[v].current
        /\ review[v].pc = "answered" => review[v].current \ review[v].base \subseteq shown

ReviewInv == ReviewTypeOK /\ OpeningIsOnce /\ BaselineIsCovered /\ ReviewsAreCovered

-----------------------------------------------------------------------------
LEMMA IdleIsIdle == Idle.pc = "idle" /\ Idle \in Review \union {Idle}
BY DEF Idle

LEMMA AReview ==
    ASSUME ReviewTypeOK, NEW v \in Reviews, review[v].pc # "idle"
    PROVE  review[v] \in Review
BY IdleIsIdle DEF ReviewTypeOK

LEMMA ReviewsBegin == ASSUME ReviewInit PROVE ReviewInv
<1>1. {} \in Trees
  BY DEF Trees
<1>2. ReviewTypeOK
  BY <1>1, IdleIsIdle, ReviewAssumption DEF ReviewInit, ReviewTypeOK
<1>3. OpeningIsOnce /\ BaselineIsCovered
  BY DEF ReviewInit, OpeningIsOnce, BaselineIsCovered
<1>4. ReviewsAreCovered
  BY IdleIsIdle DEF ReviewInit, ReviewsAreCovered, Compares, HasCompared
<1> QED
  BY <1>2, <1>3, <1>4 DEF ReviewInv

LEMMA ReviewTypeStep ==
    ASSUME ReviewTypeOK, [ReviewNext]_reviewVars
    PROVE  ReviewTypeOK'
<1>1. ASSUME NEW e \in Edits, Edit(e) PROVE ReviewTypeOK'
  BY <1>1 DEF ReviewTypeOK, Edit, Trees
<1>2. CASE CheckEligibility \/ TakeSnapshot \/ SetOpenRef \/ SetBaselineRef
  BY <1>2 DEF ReviewTypeOK, CheckEligibility, TakeSnapshot, SetOpenRef, SetBaselineRef
<1>3. ASSUME failures < MaxFailures PROVE failures + 1 \in 0 .. MaxFailures
  BY <1>3, ReviewAssumption DEF ReviewTypeOK
<1>4. CASE OpeningFails
  BY <1>3, <1>4 DEF ReviewTypeOK, OpeningFails
<1>5. ASSUME NEW v \in Reviews, NEW since \in {"last_shown", "workspace_open"}, NEW mark \in BOOLEAN, Ask(v, since, mark)
      PROVE  ReviewTypeOK'
  <2> DEFINE new == [pc |-> IF state = "absent" THEN "waiting" ELSE IF state = "root" THEN "baseline" ELSE "error",
                     since |-> since, markReviewed |-> mark, asked |-> tree, base |-> {}, current |-> {}]
  <2>1. new \in Review
    BY DEF ReviewTypeOK, Review, InProgress, Trees
  <2>2. review' = [review EXCEPT ![v] = new]
    BY <1>5 DEF Ask
  <2> HIDE DEF new
  <2> QED
    BY <1>5, <2>1, <2>2 DEF ReviewTypeOK, Ask
<1>6. ASSUME NEW v \in Reviews, Initialized(v) PROVE ReviewTypeOK'
  <2> DEFINE pc == IF state = "root" THEN "baseline" ELSE "error"
  <2>1. review[v] \in Review
    BY <1>6, AReview DEF Initialized
  <2>2. [review[v] EXCEPT !.pc = pc] \in Review
    BY <2>1 DEF Review, InProgress
  <2>3. review' = [review EXCEPT ![v] = [review[v] EXCEPT !.pc = pc]]
    BY <1>6 DEF Initialized
  <2> HIDE DEF pc
  <2> QED
    BY <1>6, <2>2, <2>3 DEF ReviewTypeOK, Initialized
<1>7. ASSUME NEW v \in Reviews, ReadBaseline(v) PROVE ReviewTypeOK'
  <2> DEFINE new == IF Compared(v) = NoRef THEN [review[v] EXCEPT !.pc = "error"]
                    ELSE [review[v] EXCEPT !.pc = "current", !.base = Compared(v)]
  <2>1. review[v] \in Review
    BY <1>7, AReview DEF ReadBaseline
  <2>2. Compared(v) \in Trees \union {NoRef}
    BY DEF Compared, ReviewTypeOK
  <2>3. new \in Review
    BY <2>1, <2>2 DEF Review, InProgress
  <2>4. review' = [review EXCEPT ![v] = new]
    BY <1>7 DEF ReadBaseline
  <2> HIDE DEF new
  <2> QED
    BY <1>7, <2>3, <2>4 DEF ReviewTypeOK, ReadBaseline
<1>8. ASSUME NEW v \in Reviews, ReadCurrent(v) PROVE ReviewTypeOK'
  <2> DEFINE new == [review[v] EXCEPT !.pc = IF review[v].markReviewed THEN "mark" ELSE "answer", !.current = tree]
  <2>1. review[v] \in Review
    BY <1>8, AReview DEF ReadCurrent
  <2>2. new \in Review
    BY <2>1 DEF Review, InProgress, ReviewTypeOK
  <2>3. review' = [review EXCEPT ![v] = new]
    BY <1>8 DEF ReadCurrent
  <2> HIDE DEF new
  <2> QED
    BY <1>8, <2>2, <2>3 DEF ReviewTypeOK, ReadCurrent
<1>9. ASSUME NEW v \in Reviews, MarkReviewed(v) PROVE ReviewTypeOK'
  <2>1. review[v] \in Review
    BY <1>9, AReview DEF MarkReviewed
  <2>2. [review[v] EXCEPT !.pc = "answer"] \in Review /\ Reviewed(v) \in Trees
    BY <2>1 DEF Review, InProgress, Reviewed
  <2>3. review' = [review EXCEPT ![v] = [review[v] EXCEPT !.pc = "answer"]]
    BY <1>9 DEF MarkReviewed
  <2> QED
    BY <1>9, <2>2, <2>3 DEF ReviewTypeOK, MarkReviewed
<1>10. ASSUME NEW v \in Reviews, AnswerReview(v) PROVE ReviewTypeOK'
  <2>1. review[v] \in Review
    BY <1>10, AReview DEF AnswerReview
  <2>2. [review[v] EXCEPT !.pc = "answered"] \in Review /\ shown \union (review[v].current \ review[v].base) \in Trees
    BY <2>1 DEF Review, Trees, ReviewTypeOK
  <2>3. review' = [review EXCEPT ![v] = [review[v] EXCEPT !.pc = "answered"]]
    BY <1>10 DEF AnswerReview
  <2> QED
    BY <1>10, <2>2, <2>3 DEF ReviewTypeOK, AnswerReview
<1>11. ASSUME NEW v \in Reviews, ReviewFails(v) PROVE ReviewTypeOK'
  <2>1. review[v] \in Review
    BY <1>11, AReview DEF ReviewFails
  <2>2. [review[v] EXCEPT !.pc = "error"] \in Review
    BY <2>1 DEF Review
  <2>3. review' = [review EXCEPT ![v] = [review[v] EXCEPT !.pc = "error"]]
    BY <1>11 DEF ReviewFails
  <2> QED
    BY <1>3, <1>11, <2>2, <2>3 DEF ReviewTypeOK, ReviewFails
<1>12. ASSUME NEW v \in Reviews, Return(v) PROVE ReviewTypeOK'
  BY <1>12 DEF ReviewTypeOK, Return
<1>13. CASE UNCHANGED reviewVars
  BY <1>13 DEF ReviewTypeOK, reviewVars
<1> QED
  BY <1>1, <1>2, <1>4, <1>5, <1>6, <1>7, <1>8, <1>9, <1>10, <1>11, <1>12, <1>13 DEF ReviewNext

-----------------------------------------------------------------------------
\* One review takes a step: what it was about to show is shown, and what is
\* said of it now follows from what was covered.
LEMMA OneReviewMoves ==
    ASSUME ReviewInv, NEW v \in Reviews,
           UNCHANGED <<tree, openRef>>, shown \subseteq shown',
           \A u \in Reviews : u # v => review'[u] = review[u],
           review[v].pc = "answer" => review[v].current \ review[v].base \subseteq shown',
           review'[v].pc # "idle" => review'[v].asked \subseteq tree,
           review'[v].pc \in Compares =>
             /\ openRef # NoRef
             /\ \A x \in review'[v].base : IsCovered(x)
             /\ review'[v].since = "workspace_open" => review'[v].base = openRef,
           review'[v].pc \in HasCompared => review'[v].asked \subseteq review'[v].current,
           review'[v].pc = "answered" => review'[v].current \ review'[v].base \subseteq shown'
    PROVE  ReviewsAreCovered' /\ \A x : IsCovered(x) => IsCovered(x)'
<1>1. ASSUME NEW x, IsCovered(x) PROVE IsCovered(x)'
  <2>1. CASE x \in openRef \/ x \in shown
    BY <2>1 DEF IsCovered
  <2>2. ASSUME NEW u \in Reviews, review[u].pc = "answer", x \in review[u].current \ review[u].base PROVE IsCovered(x)'
    <3>1. CASE u = v
      BY <2>2, <3>1 DEF IsCovered
    <3>2. CASE u # v
      BY <2>2, <3>2 DEF IsCovered
    <3> QED
      BY <3>1, <3>2
  <2> QED
    BY <1>1, <2>1, <2>2 DEF IsCovered
<1>2. ReviewsAreCovered'
  <2> SUFFICES ASSUME NEW u \in Reviews
               PROVE  /\ review'[u].pc # "idle" => review'[u].asked \subseteq tree'
                      /\ review'[u].pc \in Compares =>
                           /\ openRef' # NoRef
                           /\ \A x \in review'[u].base : IsCovered(x)'
                           /\ review'[u].since = "workspace_open" => review'[u].base = openRef'
                      /\ review'[u].pc \in HasCompared => review'[u].asked \subseteq review'[u].current
                      /\ review'[u].pc = "answered" => review'[u].current \ review'[u].base \subseteq shown'
    BY DEF ReviewsAreCovered
  <2>1. CASE u = v
    BY <1>1, <2>1
  <2>2. CASE u # v
    BY <1>1, <2>2 DEF ReviewInv, ReviewsAreCovered
  <2> QED
    BY <2>1, <2>2
<1> QED
  BY <1>1, <1>2

\* What is covered stays covered while the reviews stand.
LEMMA NoReviewMoves ==
    ASSUME ReviewInv, UNCHANGED <<review, openRef, shown>>, tree \subseteq tree'
    PROVE  ReviewsAreCovered' /\ \A x : IsCovered(x) => IsCovered(x)'
<1>1. ASSUME NEW x PROVE IsCovered(x)' <=> IsCovered(x)
  BY DEF IsCovered
<1>2. ReviewsAreCovered'
  BY <1>1 DEF ReviewInv, ReviewsAreCovered
<1> QED
  BY <1>1, <1>2

LEMMA CheckpointStep ==
    ASSUME ReviewInv, CheckEligibility \/ TakeSnapshot \/ SetOpenRef \/ SetBaselineRef \/ OpeningFails
    PROVE  OpeningIsOnce' /\ BaselineIsCovered' /\ ReviewsAreCovered'
<1>1. CASE CheckEligibility \/ TakeSnapshot \/ OpeningFails
  <2>1. OpeningIsOnce'
    BY <1>1 DEF ReviewInv, OpeningIsOnce, CheckEligibility, TakeSnapshot, OpeningFails
  <2>2. ReviewsAreCovered' /\ \A x : IsCovered(x) => IsCovered(x)'
    BY <1>1, NoReviewMoves DEF CheckEligibility, TakeSnapshot, OpeningFails
  <2>3. BaselineIsCovered'
    BY <1>1, <2>2 DEF ReviewInv, BaselineIsCovered, CheckEligibility, TakeSnapshot, OpeningFails
  <2> QED
    BY <2>1, <2>2, <2>3
<1>2. CASE SetOpenRef
  <2>1. openRef = NoRef /\ baselineRef = NoRef /\ baselineRef' = NoRef /\ openRef' = snapshot /\ openRef' # NoRef
    BY <1>2, ReviewAssumption DEF ReviewInv, ReviewTypeOK, OpeningIsOnce, SetOpenRef
  <2>2. OpeningIsOnce'
    BY <1>2, <2>1 DEF ReviewInv, OpeningIsOnce, SetOpenRef
  <2>3. BaselineIsCovered'
    BY <2>1 DEF BaselineIsCovered
  <2>4. ReviewsAreCovered'
    BY <1>2, <2>1 DEF ReviewInv, ReviewsAreCovered, SetOpenRef, Compares, HasCompared
  <2> QED
    BY <2>2, <2>3, <2>4
<1>3. CASE SetBaselineRef
  <2>1. openRef = snapshot /\ baselineRef' = snapshot /\ openRef # NoRef
    BY <1>3, ReviewAssumption DEF ReviewInv, ReviewTypeOK, OpeningIsOnce, SetBaselineRef
  <2>2. OpeningIsOnce'
    BY <1>3, <2>1 DEF ReviewInv, OpeningIsOnce, SetBaselineRef
  <2>3. ReviewsAreCovered'
    BY <1>3, NoReviewMoves DEF SetBaselineRef
  <2>4. BaselineIsCovered'
    BY <1>3, <2>1 DEF BaselineIsCovered, IsCovered, SetBaselineRef
  <2> QED
    BY <2>2, <2>3, <2>4
<1> QED
  BY <1>1, <1>2, <1>3

LEMMA ReviewStep == ASSUME ReviewInv, [ReviewNext]_reviewVars PROVE ReviewInv'
<1>1. ReviewTypeOK'
  BY ReviewTypeStep DEF ReviewInv
<1> DEFINE Rest == OpeningIsOnce' /\ BaselineIsCovered' /\ ReviewsAreCovered'
<1> SUFFICES Rest
  BY <1>1 DEF ReviewInv
<1>2. ASSUME NEW e \in Edits, Edit(e) PROVE Rest
  <2>1. ReviewsAreCovered' /\ \A x : IsCovered(x) => IsCovered(x)'
    BY <1>2, NoReviewMoves DEF Edit
  <2>2. OpeningIsOnce'
    BY <1>2 DEF ReviewInv, OpeningIsOnce, Edit
  <2>3. BaselineIsCovered'
    BY <1>2, <2>1 DEF ReviewInv, BaselineIsCovered, Edit
  <2> QED
    BY <2>1, <2>2, <2>3
<1>3. CASE CheckEligibility \/ TakeSnapshot \/ SetOpenRef \/ SetBaselineRef \/ OpeningFails
  BY <1>3, CheckpointStep
\* Where no ref changes, the two other parts follow from what stays covered.
<1>4. ASSUME ReviewsAreCovered', \A x : IsCovered(x) => IsCovered(x)',
             UNCHANGED <<state, opening, snapshot, openRef, baselineRef>>
      PROVE  Rest
  <2>1. OpeningIsOnce'
    BY <1>4 DEF ReviewInv, OpeningIsOnce
  <2>2. BaselineIsCovered'
    BY <1>4 DEF ReviewInv, BaselineIsCovered
  <2> QED
    BY <1>4, <2>1, <2>2
<1>5. ASSUME NEW v \in Reviews, NEW since \in {"last_shown", "workspace_open"}, NEW mark \in BOOLEAN, Ask(v, since, mark)
      PROVE  Rest
  <2> DEFINE new == [pc |-> IF state = "absent" THEN "waiting" ELSE IF state = "root" THEN "baseline" ELSE "error",
                     since |-> since, markReviewed |-> mark, asked |-> tree, base |-> {}, current |-> {}]
  <2>1. new.pc \notin Compares \union HasCompared /\ new.pc \notin {"idle", "answered", "answer"} /\ new.asked = tree
    BY DEF Compares, HasCompared
  <2>2. review' = [review EXCEPT ![v] = new] /\ review[v].pc = "idle"
    BY <1>5, IdleIsIdle DEF Ask
  <2> HIDE DEF new
  <2>3. review'[v] = new /\ \A u \in Reviews : u # v => review'[u] = review[u]
    BY <2>2 DEF ReviewInv, ReviewTypeOK
  <2>4. UNCHANGED <<tree, openRef, shown, baselineRef, snapshot>>
    BY <1>5 DEF Ask
  <2>5. ReviewsAreCovered' /\ \A x : IsCovered(x) => IsCovered(x)'
    BY <2>1, <2>2, <2>3, <2>4, OneReviewMoves
  <2>6. OpeningIsOnce'
    BY <1>5 DEF ReviewInv, OpeningIsOnce, Ask
  <2>7. BaselineIsCovered'
    BY <2>4, <2>5 DEF ReviewInv, BaselineIsCovered
  <2> QED
    BY <2>5, <2>6, <2>7
<1>6. ASSUME NEW v \in Reviews, Initialized(v) PROVE Rest
  <2>1. review[v] \in Review
    BY <1>6, AReview DEF ReviewInv, Initialized
  <2>2. /\ review'[v].pc \in {"baseline", "error"} /\ review'[v].asked = review[v].asked
        /\ \A u \in Reviews : u # v => review'[u] = review[u]
    BY <1>6, <2>1 DEF ReviewInv, ReviewTypeOK, Initialized, Review
  <2>3. review[v].asked \subseteq tree /\ review[v].pc = "waiting"
    BY <1>6 DEF ReviewInv, ReviewsAreCovered, Initialized
  <2>4. ReviewsAreCovered' /\ \A x : IsCovered(x) => IsCovered(x)'
    BY <1>6, <2>2, <2>3, OneReviewMoves DEF Initialized, Compares, HasCompared
  <2> QED
    BY <1>4, <1>6, <2>4 DEF Initialized
<1>7. ASSUME NEW v \in Reviews, ReadBaseline(v) PROVE Rest
  <2>1. review[v] \in Review
    BY <1>7, AReview DEF ReviewInv, ReadBaseline
  <2>2. review'[v].asked = review[v].asked /\ review'[v].since = review[v].since
        /\ \A u \in Reviews : u # v => review'[u] = review[u]
    BY <1>7, <2>1 DEF ReviewInv, ReviewTypeOK, ReadBaseline, Review
  <2>3. \/ review'[v].pc = "error"
        \/ review'[v].pc = "current" /\ Compared(v) # NoRef /\ review'[v].base = Compared(v)
    BY <1>7, <2>1 DEF ReviewInv, ReviewTypeOK, ReadBaseline, Review
  <2>4. review[v].asked \subseteq tree /\ review[v].pc = "baseline"
    BY <1>7 DEF ReviewInv, ReviewsAreCovered, ReadBaseline
  <2>5. Compared(v) # NoRef =>
           /\ openRef # NoRef
           /\ \A x \in Compared(v) : IsCovered(x)
           /\ review[v].since = "workspace_open" => Compared(v) = openRef
    BY DEF ReviewInv, OpeningIsOnce, BaselineIsCovered, Compared, IsCovered
  <2>6. ReviewsAreCovered' /\ \A x : IsCovered(x) => IsCovered(x)'
    BY <1>7, <2>2, <2>3, <2>4, <2>5, OneReviewMoves DEF ReadBaseline, Compares, HasCompared
  <2> QED
    BY <1>4, <1>7, <2>6 DEF ReadBaseline
<1>8. ASSUME NEW v \in Reviews, ReadCurrent(v) PROVE Rest
  <2>1. review[v] \in Review
    BY <1>8, AReview DEF ReviewInv, ReadCurrent
  <2>2. /\ review'[v].pc \in {"mark", "answer"} /\ review'[v].current = tree
        /\ review'[v].asked = review[v].asked /\ review'[v].since = review[v].since /\ review'[v].base = review[v].base
        /\ \A u \in Reviews : u # v => review'[u] = review[u]
    BY <1>8, <2>1 DEF ReviewInv, ReviewTypeOK, ReadCurrent, Review
  <2>3. /\ review[v].asked \subseteq tree /\ review[v].pc = "current"
        /\ openRef # NoRef
        /\ \A x \in review[v].base : IsCovered(x)
        /\ review[v].since = "workspace_open" => review[v].base = openRef
    BY <1>8 DEF ReviewInv, ReviewsAreCovered, ReadCurrent, Compares
  <2>4. ReviewsAreCovered' /\ \A x : IsCovered(x) => IsCovered(x)'
    BY <1>8, <2>2, <2>3, OneReviewMoves DEF ReadCurrent
  <2> QED
    BY <1>4, <1>8, <2>4 DEF ReadCurrent
<1>9. ASSUME NEW v \in Reviews, MarkReviewed(v) PROVE Rest
  <2>1. review[v] \in Review
    BY <1>9, AReview DEF ReviewInv, MarkReviewed
  <2>2. /\ review'[v].pc = "answer" /\ review'[v].current = review[v].current
        /\ review'[v].asked = review[v].asked /\ review'[v].since = review[v].since /\ review'[v].base = review[v].base
        /\ \A u \in Reviews : u # v => review'[u] = review[u]
    BY <1>9, <2>1 DEF ReviewInv, ReviewTypeOK, MarkReviewed, Review
  <2>3. /\ review[v].asked \subseteq tree /\ review[v].pc = "mark"
        /\ openRef # NoRef
        /\ \A x \in review[v].base : IsCovered(x)
        /\ review[v].since = "workspace_open" => review[v].base = openRef
        /\ review[v].asked \subseteq review[v].current
    BY <1>9 DEF ReviewInv, ReviewsAreCovered, MarkReviewed, Compares, HasCompared
  <2>4. UNCHANGED <<tree, openRef, shown, state, opening, snapshot>> /\ baselineRef' = review[v].current
    BY <1>9 DEF MarkReviewed, Reviewed
  <2>5. ReviewsAreCovered' /\ \A x : IsCovered(x) => IsCovered(x)'
    BY <2>2, <2>3, <2>4, OneReviewMoves
  <2>6. OpeningIsOnce'
    BY <2>3, <2>4 DEF ReviewInv, OpeningIsOnce
  <2>7. \A x \in review[v].current : IsCovered(x)'
    <3>1. \A x \in review[v].current \ review[v].base : IsCovered(x)'
      BY <2>2 DEF IsCovered
    <3> QED
      BY <2>3, <2>5, <3>1
  <2>8. BaselineIsCovered'
    BY <2>4, <2>7 DEF BaselineIsCovered
  <2> QED
    BY <2>5, <2>6, <2>8
<1>10. ASSUME NEW v \in Reviews, AnswerReview(v) PROVE Rest
  <2>1. review[v] \in Review
    BY <1>10, AReview DEF ReviewInv, AnswerReview
  <2>2. /\ review'[v].pc = "answered" /\ review'[v].current = review[v].current
        /\ review'[v].asked = review[v].asked /\ review'[v].since = review[v].since /\ review'[v].base = review[v].base
        /\ \A u \in Reviews : u # v => review'[u] = review[u]
    BY <1>10, <2>1 DEF ReviewInv, ReviewTypeOK, AnswerReview, Review
  <2>3. /\ review[v].asked \subseteq tree
        /\ openRef # NoRef
        /\ \A x \in review[v].base : IsCovered(x)
        /\ review[v].since = "workspace_open" => review[v].base = openRef
        /\ review[v].asked \subseteq review[v].current
    BY <1>10 DEF ReviewInv, ReviewsAreCovered, AnswerReview, Compares, HasCompared
  <2>4. shown' = shown \union (review[v].current \ review[v].base)
    BY <1>10 DEF AnswerReview
  <2>5. ReviewsAreCovered' /\ \A x : IsCovered(x) => IsCovered(x)'
    BY <1>10, <2>2, <2>3, <2>4, OneReviewMoves DEF AnswerReview
  <2> QED
    BY <1>4, <1>10, <2>5 DEF AnswerReview
<1>11. ASSUME NEW v \in Reviews, ReviewFails(v) PROVE Rest
  <2>1. review[v] \in Review
    BY <1>11, AReview DEF ReviewInv, ReviewFails
  <2>2. /\ review'[v].pc = "error" /\ review'[v].asked = review[v].asked
        /\ \A u \in Reviews : u # v => review'[u] = review[u]
    BY <1>11, <2>1 DEF ReviewInv, ReviewTypeOK, ReviewFails, Review
  <2>3. review[v].asked \subseteq tree /\ review[v].pc # "answer"
    BY <1>11 DEF ReviewInv, ReviewsAreCovered, ReviewFails
  <2>4. ReviewsAreCovered' /\ \A x : IsCovered(x) => IsCovered(x)'
    BY <1>11, <2>2, <2>3, OneReviewMoves DEF ReviewFails, Compares, HasCompared
  <2> QED
    BY <1>4, <1>11, <2>4 DEF ReviewFails
<1>12. ASSUME NEW v \in Reviews, Return(v) PROVE Rest
  <2>1. review'[v].pc = "idle" /\ \A u \in Reviews : u # v => review'[u] = review[u]
    BY <1>12, IdleIsIdle DEF ReviewInv, ReviewTypeOK, Return
  <2>2. ReviewsAreCovered' /\ \A x : IsCovered(x) => IsCovered(x)'
    BY <1>12, <2>1, OneReviewMoves DEF Return, Compares, HasCompared
  <2> QED
    BY <1>4, <1>12, <2>2 DEF Return
<1>13. CASE UNCHANGED reviewVars
  <2>1. ReviewsAreCovered' /\ \A x : IsCovered(x) => IsCovered(x)'
    BY <1>13, NoReviewMoves DEF reviewVars
  <2> QED
    BY <1>4, <1>13, <2>1 DEF reviewVars
<1> QED
  BY <1>2, <1>3, <1>5, <1>6, <1>7, <1>8, <1>9, <1>10, <1>11, <1>12, <1>13 DEF ReviewNext

LEMMA ReviewInvAlways == ReviewSpec => []ReviewInv
<1>1. ReviewInit => ReviewInv
  BY ReviewsBegin
<1>2. ReviewInv /\ [ReviewNext]_reviewVars => ReviewInv'
  BY ReviewStep
<1> QED
  BY <1>1, <1>2, PTL DEF ReviewSpec

LEMMA AnswersAreAccountedFor == ReviewInv => AnswersAccountForAll
<1> SUFFICES ASSUME ReviewInv, NEW v \in Reviews, review[v].pc = "answered"
             PROVE  /\ openRef # NoRef
                    /\ review[v].asked \subseteq openRef \union shown \union UNION {Found(w) : w \in Reviews}
                    /\ review[v].since = "workspace_open" => review[v].asked \ openRef \subseteq Found(v)
  BY DEF AnswersAccountForAll
<1>1. /\ openRef # NoRef
      /\ \A x \in review[v].base : IsCovered(x)
      /\ review[v].since = "workspace_open" => review[v].base = openRef
      /\ review[v].asked \subseteq review[v].current
      /\ review[v].current \ review[v].base \subseteq shown
  BY DEF ReviewInv, ReviewsAreCovered, Compares, HasCompared
<1>2. Found(v) = review[v].current \ review[v].base
  BY DEF Found
<1>3. \A x : IsCovered(x) => x \in openRef \union shown \union UNION {Found(w) : w \in Reviews}
  <2> SUFFICES ASSUME NEW x, NEW w \in Reviews, review[w].pc = "answer", x \in review[w].current \ review[w].base
               PROVE  x \in UNION {Found(u) : u \in Reviews}
    BY DEF IsCovered
  <2>1. x \in Found(w)
    BY DEF Found
  <2> QED
    BY <2>1
<1>4. review[v].asked \subseteq openRef \union shown \union UNION {Found(w) : w \in Reviews}
  BY <1>1, <1>3
<1> QED
  BY <1>1, <1>2, <1>4

(***************************************************************************)
(* For any edits, any number of reviews at once and any commands of git    *)
(* that fail: every variable is of its type (review-checkpoints.ts).       *)
(***************************************************************************)
THEOREM ReviewsTypeCorrect == ReviewSpec => []ReviewTypeOK
<1>1. ReviewInv => ReviewTypeOK
  BY DEF ReviewInv
<1> QED
  BY <1>1, ReviewInvAlways, PTL

(***************************************************************************)
(* No edit is marked as reviewed that nobody is shown (initializeWorkspace,*)
(* reviewChanges).                                                         *)
(***************************************************************************)
THEOREM EveryEditIsShown == ReviewSpec => []AnswersAccountForAll
BY ReviewInvAlways, AnswersAreAccountedFor, PTL

-----------------------------------------------------------------------------
(***************************************************************************)
(* The event stream, for any number of writers and reconnections: a client *)
(* sees the log without a gap, a repetition or a change of order.          *)
(***************************************************************************)

LogIsWhole == \A i \in DOMAIN log : log[i] = i

WritersAsked == \A w \in Writers : writer[w].pc = "insert" => writer[w].seq <= Len(log) + 1

\* What a poll has read and not yet sent is one piece of the log.
PagesArePieces ==
    \A p \in Polls : poll[p].pc \in {"status", "send"} =>
        \E top \in SeqType : poll[p].from < top /\ poll[p].events = poll[p].from + 1 .. top

StreamInv == StreamTypeOK /\ LogIsWhole /\ WritersAsked /\ PagesArePieces

-----------------------------------------------------------------------------
(* Intervals: what the log, a page and a poll's messages are made of.      *)

LEMMA LargestOfInterval ==
    ASSUME NEW a \in Int, NEW b \in Int, a <= b
    PROVE  (CHOOSE s \in a .. b : \A t \in a .. b : t <= s) = b
OBVIOUS

LEMMA NthOfInterval ==
    ASSUME NEW a \in Int, NEW b \in Int, a <= b, NEW i \in 1 .. b - a
    PROVE  (CHOOSE s \in a + 1 .. b : Cardinality({t \in a + 1 .. b : t <= s}) = i) = a + i
<1>1. ASSUME NEW s \in a + 1 .. b PROVE Cardinality({t \in a + 1 .. b : t <= s}) = s - a
  <2>1. {t \in a + 1 .. b : t <= s} = a + 1 .. s
    OBVIOUS
  <2>2. Cardinality(a + 1 .. s) = s - a
    BY FS_Interval
  <2> QED
    BY <2>1, <2>2
<1> DEFINE nth(s) == Cardinality({t \in a + 1 .. b : t <= s}) = i
<1>2. \A s \in a + 1 .. b : nth(s) <=> s = a + i
  BY <1>1
<1> HIDE DEF nth
<1>3. (CHOOSE s \in a + 1 .. b : nth(s)) = a + i
  BY <1>2
<1> QED
  BY <1>3 DEF nth

LEMMA LogIs ==
    ASSUME log \in Seq(1 .. MaxEvents), LogIsWhole
    PROVE  /\ Len(log) \in Nat /\ Len(log) <= MaxEvents /\ DOMAIN log = 1 .. Len(log)
           /\ Seqs = 1 .. Len(log) /\ LastSeq = Len(log)
<1>1. Len(log) \in Nat /\ DOMAIN log = 1 .. Len(log)
  BY LenProperties
<1>2. \A i \in 1 .. Len(log) : log[i] = i
  BY <1>1 DEF LogIsWhole
<1>3. Len(log) <= MaxEvents
  <2>1. CASE Len(log) = 0
    BY <2>1, StreamAssumption
  <2>2. CASE Len(log) # 0
    <3>1. Len(log) \in 1 .. Len(log)
      BY <1>1, <2>2
    <3>2. log[Len(log)] \in 1 .. MaxEvents
      BY <3>1, ElementOfSeq
    <3> QED
      BY <1>2, <3>1, <3>2
  <2> QED
    BY <2>1, <2>2
<1>4. Seqs = 1 .. Len(log)
  BY <1>1, <1>2 DEF Seqs
<1>5. Seqs \union {0} = 0 .. Len(log)
  BY <1>1, <1>4
<1>6. LastSeq = Len(log)
  <2> DEFINE top == Len(log)
             IsTop(n) == \A s \in Seqs : s <= n
  <2>1. top \in Nat /\ Seqs = 1 .. top
    BY <1>1, <1>4
  <2>2. LastSeq = CHOOSE n \in 0 .. top : IsTop(n)
    BY <1>5 DEF LastSeq
  <2> HIDE DEF top
  <2>3. ASSUME NEW n \in 0 .. top, IsTop(n) PROVE n = top
    <3>1. top \in 1 .. top \/ top = 0
      BY <2>1
    <3>2. top <= n \/ top = 0
      BY <2>1, <2>3, <3>1
    <3> QED
      BY <2>1, <3>2
  <2>4. IsTop(top) /\ top \in 0 .. top
    BY <2>1
  <2> HIDE DEF IsTop
  <2>5. (CHOOSE n \in 0 .. top : IsTop(n)) = top
    BY <2>3, <2>4
  <2> QED
    BY <2>2, <2>5 DEF top
<1> QED
  BY <1>1, <1>3, <1>4, <1>6

\* What readRunEvents returns after a cursor is the next piece of the log.
LEMMA PageIs ==
    ASSUME log \in Seq(1 .. MaxEvents), LogIsWhole, NEW from \in Nat
    PROVE  Page(from) = from + 1 .. (IF from + PageSize <= Len(log) THEN from + PageSize ELSE Len(log))
<1>1. Len(log) \in Nat /\ Seqs = 1 .. Len(log) /\ PageSize \in Nat
  BY LogIs, StreamAssumption
<1>2. ASSUME NEW s \in Seqs, from < s
      PROVE  Cardinality({t \in Seqs : from < t /\ t <= s}) = s - from
  <2>1. {t \in Seqs : from < t /\ t <= s} = from + 1 .. s
    BY <1>1, <1>2
  <2>2. s \in Int /\ Cardinality(from + 1 .. s) = s - from
    BY <1>1, <1>2, FS_Interval
  <2> QED
    BY <2>1, <2>2
<1>3. Page(from) = {s \in Seqs : from < s /\ s - from <= PageSize}
  <2>1. \A s \in Seqs : from < s => ((Cardinality({t \in Seqs : from < t /\ t <= s}) <= PageSize) <=> s - from <= PageSize)
    BY <1>2
  <2>2. \A s \in Seqs : s > from <=> from < s
    BY <1>1
  <2> QED
    BY <2>1, <2>2 DEF Page
<1> QED
  BY <1>1, <1>3

-----------------------------------------------------------------------------
(* What holds however many polls overlap.                                  *)

LEMMA StreamBegins == ASSUME StreamInit PROVE StreamInv
<1>1. /\ log = <<>> /\ finished = FALSE /\ atFinish = 0
      /\ writer = [w \in Writers |-> [pc |-> "idle", seq |-> 1, last |-> FALSE]]
      /\ conn = NoConnection /\ poll = [p \in Polls |-> NoPoll] /\ wire = <<>>
      /\ view = [events |-> {}, base |-> 0, nextSeq |-> 1, terminal |-> FALSE, over |-> FALSE]
      /\ loads = 0 /\ lost = 0
  BY DEF StreamInit
<1>2. 0 \in SeqType /\ 1 \in 1 .. MaxEvents /\ 1 \in 1 .. MaxEvents + 1 /\ {} \in EventSets
  BY StreamAssumption DEF SeqType, EventSets
<1>3. log \in Seq(1 .. MaxEvents) /\ wire \in Seq(Messages) /\ DOMAIN log = {}
  BY <1>1
<1>4. writer \in [Writers -> [pc : {"idle", "insert", "finish", "done"}, seq : 1 .. MaxEvents, last : BOOLEAN]]
  BY <1>1, <1>2
<1>5. conn \in [pc : {"none", "load", "loadEvents", "loaded", "open", "openEvents", "live", "ended"},
                after : SeqType, cursor : SeqType, terminal : BOOLEAN]
  BY <1>1, <1>2 DEF NoConnection
<1>6. view \in [events : EventSets, base : SeqType, nextSeq : 1 .. MaxEvents + 1, terminal : BOOLEAN, over : BOOLEAN]
  BY <1>1, <1>2
<1>7. poll \in [Polls -> [pc : {"idle", "page", "status", "send"}, events : EventSets, terminal : BOOLEAN,
                           from : SeqType] \union {NoPoll}]
  BY <1>1
<1>8. loads \in 0 .. MaxLoads /\ lost \in 0 .. MaxLost
  BY <1>1, StreamAssumption
<1>9. StreamTypeOK
  BY <1>1, <1>2, <1>3, <1>4, <1>5, <1>6, <1>7, <1>8 DEF StreamTypeOK
<1>10. LogIsWhole /\ WritersAsked /\ PagesArePieces
  BY <1>1, <1>3 DEF LogIsWhole, WritersAsked, PagesArePieces, NoPoll
<1> QED
  BY <1>9, <1>10 DEF StreamInv

LEMMA StreamStutters == ASSUME StreamInv, UNCHANGED streamVars PROVE StreamInv'
BY DEF streamVars, StreamInv, StreamTypeOK, LogIsWhole, WritersAsked, PagesArePieces

LEMMA BeginAppendTypes ==
    ASSUME StreamInv, NEW w \in Writers, NEW last \in BOOLEAN, BeginAppend(w, last) PROVE StreamInv'
<1>1. StreamTypeOK /\ LogIsWhole /\ WritersAsked /\ PagesArePieces
  BY DEF StreamInv
<1>2. /\ LastSeq < MaxEvents
      /\ writer' = [writer EXCEPT ![w] = [pc |-> "insert", seq |-> NextSeq, last |-> last]]
      /\ UNCHANGED <<log, finished, atFinish, conn, poll, wire, view, loads, lost>>
  BY DEF BeginAppend
<1>3. NextSeq \in 1 .. MaxEvents /\ NextSeq = Len(log) + 1
  BY <1>1, <1>2, LogIs, StreamAssumption DEF StreamTypeOK, NextSeq
<1> HIDE DEF NextSeq
<1>4. writer' \in [Writers -> [pc : {"idle", "insert", "finish", "done"}, seq : 1 .. MaxEvents, last : BOOLEAN]]
  BY <1>1, <1>2, <1>3 DEF StreamTypeOK
<1>5. StreamTypeOK'
  BY <1>1, <1>2, <1>4 DEF StreamTypeOK
<1>6. LogIsWhole' /\ PagesArePieces'
  BY <1>1, <1>2 DEF LogIsWhole, PagesArePieces
<1>7. WritersAsked'
  <2>1. Len(log) + 1 <= Len(log') + 1
    BY <1>1, <1>2, LogIs DEF StreamTypeOK
  <2>2. \A v \in Writers : writer'[v] = IF v = w THEN [pc |-> "insert", seq |-> NextSeq, last |-> last] ELSE writer[v]
    BY <1>1, <1>2 DEF StreamTypeOK
  <2> QED
    BY <1>1, <1>2, <1>3, <2>1, <2>2 DEF WritersAsked
<1> QED
  BY <1>5, <1>6, <1>7 DEF StreamInv

\* The log grows by the number that comes next, or not at all.
LEMMA InsertEventDoes ==
    ASSUME StreamInv, NEW w \in Writers, InsertEvent(w)
    PROVE  /\ log' \in Seq(1 .. MaxEvents) /\ LogIsWhole'
           /\ log' = log \/ Len(log') = Len(log) + 1
           /\ UNCHANGED <<finished, atFinish, conn, poll, wire, view, loads, lost>>
<1>1. /\ log \in Seq(1 .. MaxEvents) /\ LogIsWhole /\ writer[w].seq \in 1 .. MaxEvents
      /\ writer[w].seq <= Len(log) + 1
  BY DEF StreamInv, StreamTypeOK, WritersAsked, InsertEvent
<1>2. UNCHANGED <<finished, atFinish, conn, poll, wire, view, loads, lost>>
  BY DEF InsertEvent
<1>3. CASE Taken(writer[w].seq)
  BY <1>1, <1>2, <1>3 DEF InsertEvent, LogIsWhole
<1>4. CASE ~Taken(writer[w].seq)
  <2> DEFINE seq == writer[w].seq
  <2>1. log' = Append(log, seq)
    BY <1>4 DEF InsertEvent
  <2>2. seq \notin Seqs
    BY <1>4 DEF Taken
  <2>3. Len(log) \in Nat /\ Seqs = 1 .. Len(log)
    BY <1>1, LogIs
  <2>4. seq = Len(log) + 1
    BY <1>1, <2>2, <2>3
  <2>5. seq \in 1 .. MaxEvents
    BY <1>1
  <2> HIDE DEF seq
  <2>6. /\ log' \in Seq(1 .. MaxEvents) /\ Len(log') = Len(log) + 1 /\ log'[Len(log) + 1] = seq
        /\ \A i \in 1 .. Len(log) : log'[i] = log[i]
    BY <1>1, <2>1, <2>5, AppendProperties
  <2>7. DOMAIN log' = 1 .. Len(log) + 1 /\ DOMAIN log = 1 .. Len(log)
    BY <1>1, <2>6, LenProperties
  <2>8. \A i \in 1 .. Len(log) + 1 : i = Len(log) + 1 \/ i \in 1 .. Len(log)
    BY <2>3
  <2>9. LogIsWhole'
    BY <1>1, <2>4, <2>6, <2>7, <2>8 DEF LogIsWhole
  <2> QED
    BY <1>2, <2>6, <2>9
<1> QED
  BY <1>3, <1>4

LEMMA InsertEventTypes == ASSUME StreamInv, NEW w \in Writers, InsertEvent(w) PROVE StreamInv'
<1>1. StreamTypeOK /\ LogIsWhole /\ WritersAsked /\ PagesArePieces
  BY DEF StreamInv
<1>2. /\ log' \in Seq(1 .. MaxEvents) /\ LogIsWhole' /\ (log' = log \/ Len(log') = Len(log) + 1)
      /\ UNCHANGED <<finished, atFinish, conn, poll, wire, view, loads, lost>>
  BY InsertEventDoes
<1>3. PICK pc \in {"idle", "finish"} : writer' = [writer EXCEPT ![w].pc = pc]
  BY DEF InsertEvent
<1>4. writer' \in [Writers -> [pc : {"idle", "insert", "finish", "done"}, seq : 1 .. MaxEvents, last : BOOLEAN]]
  <2>1. writer \in [Writers -> [pc : {"idle", "insert", "finish", "done"}, seq : 1 .. MaxEvents, last : BOOLEAN]]
    BY <1>1 DEF StreamTypeOK
  <2> QED
    BY <1>3, <2>1
<1>5. StreamTypeOK'
  BY <1>1, <1>2, <1>4 DEF StreamTypeOK
<1>6. PagesArePieces'
  BY <1>1, <1>2 DEF PagesArePieces
<1>7. WritersAsked'
  <2>1. \A v \in Writers : writer'[v].pc = "insert" => writer[v].pc = "insert" /\ writer'[v].seq = writer[v].seq /\ writer[v].seq \in Int
    BY <1>1, <1>3 DEF StreamTypeOK
  <2>2. Len(log) \in Int /\ Len(log') \in Int /\ Len(log) <= Len(log')
    BY <1>1, <1>2, LogIs DEF StreamTypeOK
  <2> QED
    BY <1>1, <2>1, <2>2 DEF WritersAsked
<1> QED
  BY <1>2, <1>5, <1>6, <1>7 DEF StreamInv

LEMMA FinishRunTypes == ASSUME StreamInv, NEW w \in Writers, FinishRun(w) PROVE StreamInv'
<1>1. StreamTypeOK /\ LogIsWhole /\ WritersAsked /\ PagesArePieces
  BY DEF StreamInv
<1>2. /\ writer' = [writer EXCEPT ![w].pc = "done"] /\ finished' = TRUE
      /\ atFinish' = IF finished THEN atFinish ELSE Len(log)
      /\ UNCHANGED <<log, conn, poll, wire, view, loads, lost>>
  BY DEF FinishRun
<1>3. atFinish' \in SeqType
  BY <1>1, <1>2, LogIs DEF StreamTypeOK, SeqType
<1>4. writer' \in [Writers -> [pc : {"idle", "insert", "finish", "done"}, seq : 1 .. MaxEvents, last : BOOLEAN]]
  <2>1. writer \in [Writers -> [pc : {"idle", "insert", "finish", "done"}, seq : 1 .. MaxEvents, last : BOOLEAN]]
    BY <1>1 DEF StreamTypeOK
  <2> QED
    BY <1>2, <2>1
<1>5. StreamTypeOK'
  BY <1>1, <1>2, <1>3, <1>4 DEF StreamTypeOK
<1>6. LogIsWhole' /\ PagesArePieces'
  BY <1>1, <1>2 DEF LogIsWhole, PagesArePieces
<1>7. WritersAsked'
  BY <1>1, <1>2 DEF WritersAsked, StreamTypeOK
<1> QED
  BY <1>5, <1>6, <1>7 DEF StreamInv

\* A step of the client or of its connection that keeps the types.
LEMMA ConnectionTypes ==
    ASSUME StreamInv, UNCHANGED <<log, writer, finished, atFinish>>,
           conn' \in [pc : {"none", "load", "loadEvents", "loaded", "open", "openEvents", "live", "ended"},
                      after : SeqType, cursor : SeqType, terminal : BOOLEAN],
           poll' = poll \/ poll' = [p \in Polls |-> NoPoll],
           wire' \in Seq(Messages),
           view' \in [events : EventSets, base : SeqType, nextSeq : 1 .. MaxEvents + 1, terminal : BOOLEAN, over : BOOLEAN],
           loads' \in 0 .. MaxLoads, lost' \in 0 .. MaxLost
    PROVE  StreamInv'
<1>1. StreamTypeOK /\ LogIsWhole /\ WritersAsked /\ PagesArePieces
  BY DEF StreamInv
<1>2. poll' \in [Polls -> [pc : {"idle", "page", "status", "send"}, events : EventSets, terminal : BOOLEAN,
                           from : SeqType] \union {NoPoll}]
  BY <1>1 DEF StreamTypeOK
<1>3. StreamTypeOK'
  BY <1>1, <1>2 DEF StreamTypeOK
<1>4. LogIsWhole' /\ WritersAsked'
  BY <1>1 DEF LogIsWhole, WritersAsked
<1>5. PagesArePieces'
  BY <1>1 DEF PagesArePieces, NoPoll
<1> QED
  BY <1>3, <1>4, <1>5 DEF StreamInv

LEMMA LoadTypes == ASSUME StreamInv, Load PROVE StreamInv'
<1>1. /\ conn' = [NoConnection EXCEPT !.pc = "load"] /\ poll' = [p \in Polls |-> NoPoll] /\ wire' = <<>>
      /\ loads < MaxLoads /\ loads' = loads + 1 /\ UNCHANGED <<log, writer, finished, atFinish, view, lost>>
  BY DEF Load
<1>2. 0 \in SeqType
  BY StreamAssumption DEF SeqType
<1>3. conn' \in [pc : {"none", "load", "loadEvents", "loaded", "open", "openEvents", "live", "ended"},
                 after : SeqType, cursor : SeqType, terminal : BOOLEAN]
  BY <1>1, <1>2 DEF NoConnection
<1>4. loads' \in 0 .. MaxLoads /\ wire' \in Seq(Messages)
  BY <1>1, StreamAssumption DEF StreamInv, StreamTypeOK
<1> QED
  BY <1>1, <1>3, <1>4, ConnectionTypes DEF StreamInv, StreamTypeOK

LEMMA ConnectTypes == ASSUME StreamInv, NEW cursor, Connect(cursor) PROVE StreamInv'
<1> DEFINE after == IF cursor = "next" THEN view.nextSeq - 1 ELSE 0
<1>1. /\ conn' = [NoConnection EXCEPT !.pc = "open", !.after = after]
      /\ UNCHANGED <<log, writer, finished, atFinish, poll, wire, view, loads, lost>>
  BY DEF Connect
<1>2. 0 \in SeqType /\ after \in SeqType
  BY StreamAssumption DEF SeqType, StreamInv, StreamTypeOK
<1> HIDE DEF after
<1>3. conn' \in [pc : {"none", "load", "loadEvents", "loaded", "open", "openEvents", "live", "ended"},
                 after : SeqType, cursor : SeqType, terminal : BOOLEAN]
  BY <1>1, <1>2 DEF NoConnection
<1> QED
  BY <1>1, <1>3, ConnectionTypes DEF StreamInv, StreamTypeOK

LEMMA ReadRunTypes == ASSUME StreamInv, ReadRun PROVE StreamInv'
<1>1. PICK pc \in {"loadEvents", "openEvents"} : conn' = [conn EXCEPT !.pc = pc, !.terminal = finished]
  BY DEF ReadRun
<1>2. conn' \in [pc : {"none", "load", "loadEvents", "loaded", "open", "openEvents", "live", "ended"},
                 after : SeqType, cursor : SeqType, terminal : BOOLEAN]
  BY <1>1 DEF StreamInv, StreamTypeOK
<1> QED
  BY <1>2, ConnectionTypes DEF StreamInv, StreamTypeOK, ReadRun

LEMMA LoadedTypes == ASSUME StreamInv, Loaded PROVE StreamInv'
<1>1. /\ view' = [events |-> Seqs, base |-> 0, nextSeq |-> LastSeq + 1, terminal |-> conn.terminal, over |-> FALSE]
      /\ conn' = [NoConnection EXCEPT !.pc = "loaded"]
      /\ UNCHANGED <<log, writer, finished, atFinish, poll, wire, loads, lost>>
  BY DEF Loaded
<1>2. 0 \in SeqType /\ Seqs \in EventSets /\ LastSeq + 1 \in 1 .. MaxEvents + 1
  <2>1. log \in Seq(1 .. MaxEvents) /\ LogIsWhole
    BY DEF StreamInv, StreamTypeOK
  <2>2. Len(log) \in Nat /\ Len(log) <= MaxEvents /\ Seqs = 1 .. Len(log) /\ LastSeq = Len(log)
    BY <2>1, LogIs
  <2> QED
    BY <2>2, StreamAssumption DEF SeqType, EventSets
<1>3. conn' \in [pc : {"none", "load", "loadEvents", "loaded", "open", "openEvents", "live", "ended"},
                 after : SeqType, cursor : SeqType, terminal : BOOLEAN]
  BY <1>1, <1>2 DEF NoConnection
<1>4. view' \in [events : EventSets, base : SeqType, nextSeq : 1 .. MaxEvents + 1, terminal : BOOLEAN, over : BOOLEAN]
  BY <1>1, <1>2 DEF StreamInv, StreamTypeOK
<1> QED
  BY <1>1, <1>3, <1>4, ConnectionTypes DEF StreamInv, StreamTypeOK

\* The first message of a stream, and the end of a finished run's.
LEMMA SendSnapshotDoes ==
    ASSUME StreamInv, SendSnapshot
    PROVE  LET whole == Message("snapshot", conn.after + 1 .. Len(log), Len(log) + 1, conn.terminal)
               end == Message("end", {}, Len(log) + 1, TRUE)
               first == IF Len(log) > conn.after THEN Len(log) ELSE conn.after
           IN /\ whole \in Messages /\ end \in Messages /\ first \in SeqType
              /\ conn.pc = "openEvents"
              /\ wire' = IF conn.terminal THEN <<whole, end>> ELSE <<whole>>
              /\ conn' = [conn EXCEPT !.pc = IF conn.terminal THEN "ended" ELSE "live", !.cursor = first]
              /\ UNCHANGED <<log, writer, finished, atFinish, poll, view, loads, lost>>
<1>1. /\ Len(log) \in Nat /\ Len(log) <= MaxEvents /\ Seqs = 1 .. Len(log) /\ LastSeq = Len(log)
      /\ conn.after \in SeqType /\ conn.after \in Nat /\ conn.terminal \in BOOLEAN /\ MaxEvents \in Nat
  BY LogIs, StreamAssumption DEF StreamInv, StreamTypeOK, SeqType
<1>2. {s \in Seqs : s > conn.after} = conn.after + 1 .. Len(log)
  BY <1>1
<1>3. conn.after + 1 .. Len(log) \in EventSets /\ Len(log) + 1 \in 1 .. MaxEvents + 1 /\ {} \in EventSets
  BY <1>1 DEF EventSets
<1>4. (IF Len(log) > conn.after THEN Len(log) ELSE conn.after) \in SeqType
  BY <1>1 DEF SeqType
<1>5. /\ Message("snapshot", conn.after + 1 .. Len(log), Len(log) + 1, conn.terminal) \in Messages
      /\ Message("end", {}, Len(log) + 1, TRUE) \in Messages
  BY <1>1, <1>3 DEF Message, Messages
<1>6. /\ conn.pc = "openEvents"
      /\ wire' = IF conn.terminal
                 THEN <<Message("snapshot", conn.after + 1 .. Len(log), Len(log) + 1, conn.terminal),
                        Message("end", {}, Len(log) + 1, TRUE)>>
                 ELSE <<Message("snapshot", conn.after + 1 .. Len(log), Len(log) + 1, conn.terminal)>>
      /\ conn' = [conn EXCEPT !.pc = IF conn.terminal THEN "ended" ELSE "live",
                              !.cursor = IF Len(log) > conn.after THEN Len(log) ELSE conn.after]
      /\ UNCHANGED <<log, writer, finished, atFinish, poll, view, loads, lost>>
  BY <1>1, <1>2 DEF SendSnapshot, FirstCursor
<1> QED
  BY <1>4, <1>5, <1>6

LEMMA SendSnapshotTypes == ASSUME StreamInv, SendSnapshot PROVE StreamInv'
<1> DEFINE whole == Message("snapshot", conn.after + 1 .. Len(log), Len(log) + 1, conn.terminal)
           end == Message("end", {}, Len(log) + 1, TRUE)
           first == IF Len(log) > conn.after THEN Len(log) ELSE conn.after
           pc == IF conn.terminal THEN "ended" ELSE "live"
<1>1. /\ whole \in Messages /\ end \in Messages /\ first \in SeqType
      /\ wire' = IF conn.terminal THEN <<whole, end>> ELSE <<whole>>
      /\ conn' = [conn EXCEPT !.pc = pc, !.cursor = first]
      /\ UNCHANGED <<log, writer, finished, atFinish, poll, view, loads, lost>>
  BY SendSnapshotDoes
<1>2. pc \in {"ended", "live"}
  OBVIOUS
<1> HIDE DEF whole, end, first, pc
<1>3. wire' \in Seq(Messages)
  BY <1>1
<1>4. conn' \in [pc : {"none", "load", "loadEvents", "loaded", "open", "openEvents", "live", "ended"},
                 after : SeqType, cursor : SeqType, terminal : BOOLEAN]
  BY <1>1, <1>2 DEF StreamInv, StreamTypeOK
<1> QED
  BY <1>1, <1>3, <1>4, ConnectionTypes DEF StreamInv, StreamTypeOK

LEMMA DropTypes == ASSUME StreamInv, Drop PROVE StreamInv'
<1>1. /\ conn' = [NoConnection EXCEPT !.pc = "none"] /\ poll' = [p \in Polls |-> NoPoll] /\ wire' = <<>>
      /\ lost < MaxLost /\ lost' = lost + 1 /\ UNCHANGED <<log, writer, finished, atFinish, view, loads>>
  BY DEF Drop
<1>2. 0 \in SeqType
  BY StreamAssumption DEF SeqType
<1>3. conn' \in [pc : {"none", "load", "loadEvents", "loaded", "open", "openEvents", "live", "ended"},
                 after : SeqType, cursor : SeqType, terminal : BOOLEAN]
  BY <1>1, <1>2 DEF NoConnection
<1>4. lost' \in 0 .. MaxLost /\ wire' \in Seq(Messages)
  BY <1>1, StreamAssumption DEF StreamInv, StreamTypeOK
<1> QED
  BY <1>1, <1>3, <1>4, ConnectionTypes DEF StreamInv, StreamTypeOK

LEMMA ReceiveTypes == ASSUME StreamInv, Receive PROVE StreamInv'
<1>1. /\ wire # <<>> /\ view' = Merged(Head(wire)) /\ wire' = Tail(wire)
      /\ UNCHANGED <<log, writer, finished, atFinish, conn, poll, loads, lost>>
  BY DEF Receive
<1>2. Head(wire) \in Messages /\ wire' \in Seq(Messages)
  BY <1>1, HeadTailProperties DEF StreamInv, StreamTypeOK
<1> DEFINE message == Head(wire)
           View == [events : EventSets, base : SeqType, nextSeq : 1 .. MaxEvents + 1, terminal : BOOLEAN, over : BOOLEAN]
<1>3. view' = Merged(message) /\ message \in Messages /\ view \in View /\ conn.after \in SeqType
  BY <1>1, <1>2 DEF StreamInv, StreamTypeOK
<1> HIDE DEF message
<1>4. /\ message.events \in EventSets /\ message.nextSeq \in 1 .. MaxEvents + 1 /\ message.terminal \in BOOLEAN
      /\ view.events \union message.events \in EventSets
  BY <1>3 DEF Messages, EventSets
<1>5. ASSUME message.kind = "snapshot" PROVE view' \in View
  BY <1>3, <1>4, <1>5 DEF Merged
<1>6. ASSUME message.kind = "event" PROVE view' \in View
  <2> DEFINE events == view.events \union message.events
  <2>1. view' = [view EXCEPT !.events = events, !.nextSeq = message.nextSeq, !.terminal = message.terminal]
    BY <1>3, <1>6 DEF Merged
  <2>2. events \in EventSets
    BY <1>4
  <2> HIDE DEF events
  <2> QED
    BY <1>3, <1>4, <2>1, <2>2
<1>7. ASSUME message.kind = "end" PROVE view' \in View
  <2>1. view' = [view EXCEPT !.nextSeq = message.nextSeq, !.terminal = TRUE, !.over = TRUE]
    BY <1>3, <1>7 DEF Merged
  <2> QED
    BY <1>3, <1>4, <2>1
<1>8. ASSUME message.kind \notin {"snapshot", "event", "end"} PROVE view' \in View
  BY <1>3, <1>8 DEF Merged
<1>9. view' \in View
  BY <1>5, <1>6, <1>7, <1>8
<1> QED
  BY <1>1, <1>2, <1>9, ConnectionTypes DEF StreamInv, StreamTypeOK

\* A step of one poll that keeps the types.
LEMMA PollTypes ==
    ASSUME StreamInv, NEW p \in Polls, NEW new,
           new \in [pc : {"idle", "page", "status", "send"}, events : EventSets, terminal : BOOLEAN,
                    from : SeqType] \union {NoPoll},
           poll' = [poll EXCEPT ![p] = new],
           new.pc \in {"status", "send"} =>
              \E top \in SeqType : new.from < top /\ new.events = new.from + 1 .. top,
           conn' \in [pc : {"none", "load", "loadEvents", "loaded", "open", "openEvents", "live", "ended"},
                      after : SeqType, cursor : SeqType, terminal : BOOLEAN],
           wire' \in Seq(Messages), lost' \in 0 .. MaxLost,
           UNCHANGED <<log, writer, finished, atFinish, view, loads>>
    PROVE  StreamInv'
<1>1. StreamTypeOK /\ LogIsWhole /\ WritersAsked /\ PagesArePieces
  BY DEF StreamInv
<1>2. poll' \in [Polls -> [pc : {"idle", "page", "status", "send"}, events : EventSets, terminal : BOOLEAN,
                           from : SeqType] \union {NoPoll}]
  BY <1>1 DEF StreamTypeOK
<1>3. StreamTypeOK'
  BY <1>1, <1>2 DEF StreamTypeOK
<1>4. LogIsWhole' /\ WritersAsked'
  BY <1>1 DEF LogIsWhole, WritersAsked
<1>5. \A r \in Polls : poll'[r] = IF r = p THEN new ELSE poll[r]
  BY <1>1 DEF StreamTypeOK
<1>6. PagesArePieces'
  BY <1>1, <1>5 DEF PagesArePieces
<1> QED
  BY <1>3, <1>4, <1>6 DEF StreamInv

LEMMA StartPollTypes == ASSUME StreamInv, NEW p \in Polls, StartPoll(p) PROVE StreamInv'
<1> DEFINE new == [pc |-> "page", events |-> {}, terminal |-> FALSE, from |-> conn.cursor]
<1>1. poll' = [poll EXCEPT ![p] = new] /\ UNCHANGED <<log, writer, finished, atFinish, conn, wire, view, loads, lost>>
  BY DEF StartPoll
<1>2. /\ new \in [pc : {"idle", "page", "status", "send"}, events : EventSets, terminal : BOOLEAN, from : SeqType]
      /\ new.pc = "page"
  BY DEF StreamInv, StreamTypeOK, EventSets
<1> HIDE DEF new
<1> QED
  BY <1>1, <1>2, PollTypes DEF StreamInv, StreamTypeOK

\* A poll ends without an event, or moves the cursor over the piece it read.
LEMMA ReadPageDoes ==
    ASSUME StreamInv, NEW p \in Polls, ReadPage(p)
    PROVE  /\ poll[p].from \in SeqType /\ poll[p].pc = "page"
           /\ UNCHANGED <<log, writer, finished, atFinish, wire, view, loads, lost>>
           /\ \/ poll' = [poll EXCEPT ![p] = NoPoll] /\ UNCHANGED conn
              \/ \E top \in SeqType :
                    /\ poll[p].from < top /\ top <= Len(log)
                    /\ poll' = [poll EXCEPT ![p].pc = "status", ![p].events = poll[p].from + 1 .. top]
                    /\ conn' = [conn EXCEPT !.cursor = top]
                    /\ poll[p].from + 1 .. top \in EventSets
<1>1. poll[p].pc = "page" /\ UNCHANGED <<log, writer, finished, atFinish, wire, view, loads, lost>>
  BY DEF ReadPage
<1>2. poll[p].from \in SeqType
  <2>1. poll[p] # NoPoll
    BY <1>1 DEF NoPoll
  <2> QED
    BY <2>1 DEF StreamInv, StreamTypeOK
<1> DEFINE from == poll[p].from
           top == IF from + PageSize <= Len(log) THEN from + PageSize ELSE Len(log)
<1>3. /\ from \in Nat /\ Len(log) \in Nat /\ Len(log) <= MaxEvents /\ top \in Nat /\ top <= Len(log)
      /\ top \in SeqType
  <2>1. from \in Nat /\ Len(log) \in Nat /\ Len(log) <= MaxEvents /\ MaxEvents \in Nat /\ PageSize \in Nat
    BY <1>2, LogIs, StreamAssumption DEF StreamInv, StreamTypeOK, SeqType
  <2> HIDE DEF from
  <2> QED
    BY <2>1 DEF SeqType
<1>4. Page(from) = from + 1 .. top
  BY <1>3, PageIs DEF StreamInv, StreamTypeOK
<1>5. \/ Page(from) = {} /\ poll' = [poll EXCEPT ![p] = NoPoll] /\ conn' = conn
      \/ /\ Page(from) # {}
         /\ poll' = [poll EXCEPT ![p].pc = "status", ![p].events = Page(from)]
         /\ conn' = [conn EXCEPT !.cursor = CHOOSE s \in Page(from) : \A t \in Page(from) : t <= s]
  BY DEF ReadPage
<1> HIDE DEF from, top
<1>6. CASE Page(from) # {}
  <2>1. from < top /\ from + 1 .. top \in EventSets
    BY <1>3, <1>4, <1>6, StreamAssumption DEF EventSets
  <2>2. (CHOOSE s \in from + 1 .. top : \A t \in from + 1 .. top : t <= s) = top
    BY <1>3, <2>1, LargestOfInterval
  <2>3. /\ poll' = [poll EXCEPT ![p].pc = "status", ![p].events = from + 1 .. top]
        /\ conn' = [conn EXCEPT !.cursor = top]
    BY <1>4, <1>5, <1>6, <2>2
  <2> QED
    BY <1>1, <1>2, <1>3, <2>1, <2>3 DEF from
<1> QED
  BY <1>1, <1>2, <1>5, <1>6

LEMMA ReadPageTypes == ASSUME StreamInv, NEW p \in Polls, ReadPage(p) PROVE StreamInv'
<1>1. /\ poll[p].from \in SeqType /\ poll[p].pc = "page"
      /\ UNCHANGED <<log, writer, finished, atFinish, wire, view, loads, lost>>
      /\ \/ poll' = [poll EXCEPT ![p] = NoPoll] /\ UNCHANGED conn
         \/ \E top \in SeqType :
               /\ poll[p].from < top /\ top <= Len(log)
               /\ poll' = [poll EXCEPT ![p].pc = "status", ![p].events = poll[p].from + 1 .. top]
               /\ conn' = [conn EXCEPT !.cursor = top]
               /\ poll[p].from + 1 .. top \in EventSets
  BY ReadPageDoes
<1>2. wire \in Seq(Messages) /\ lost \in 0 .. MaxLost
  BY DEF StreamInv, StreamTypeOK
<1>3. CASE poll' = [poll EXCEPT ![p] = NoPoll] /\ UNCHANGED conn
  <2>1. NoPoll.pc \notin {"status", "send"}
    BY DEF NoPoll
  <2> QED
    BY <1>1, <1>2, <1>3, <2>1, PollTypes DEF StreamInv, StreamTypeOK
<1>4. ASSUME NEW top \in SeqType, poll[p].from < top,
             poll' = [poll EXCEPT ![p].pc = "status", ![p].events = poll[p].from + 1 .. top],
             conn' = [conn EXCEPT !.cursor = top],
             poll[p].from + 1 .. top \in EventSets
      PROVE  StreamInv'
  <2> DEFINE events == poll[p].from + 1 .. top
             new == [poll[p] EXCEPT !.pc = "status", !.events = events]
  <2>1. events \in EventSets /\ poll' = [poll EXCEPT ![p] = new]
    BY <1>4
  <2>2. /\ poll[p] \in [pc : {"idle", "page", "status", "send"}, events : EventSets, terminal : BOOLEAN, from : SeqType]
    BY <1>1 DEF StreamInv, StreamTypeOK, NoPoll
  <2> HIDE DEF events
  <2>3. /\ new \in [pc : {"idle", "page", "status", "send"}, events : EventSets, terminal : BOOLEAN, from : SeqType]
        /\ new.from = poll[p].from /\ new.events = events
    BY <2>1, <2>2
  <2> HIDE DEF new
  <2>4. \E t \in SeqType : new.from < t /\ new.events = new.from + 1 .. t
    BY <1>4, <2>3 DEF events
  <2>5. conn' \in [pc : {"none", "load", "loadEvents", "loaded", "open", "openEvents", "live", "ended"},
                   after : SeqType, cursor : SeqType, terminal : BOOLEAN]
    BY <1>4 DEF StreamInv, StreamTypeOK
  <2> QED
    BY <1>1, <1>2, <2>1, <2>3, <2>4, <2>5, PollTypes
<1> QED
  BY <1>1, <1>3, <1>4

LEMMA ReadStatusTypes == ASSUME StreamInv, NEW p \in Polls, ReadStatus(p) PROVE StreamInv'
<1> DEFINE new == [poll[p] EXCEPT !.pc = "send", !.terminal = finished]
<1>1. /\ poll' = [poll EXCEPT ![p] = new] /\ poll[p].pc = "status"
      /\ UNCHANGED <<log, writer, finished, atFinish, conn, wire, view, loads, lost>>
  BY DEF ReadStatus
<1>2. /\ poll[p] \in [pc : {"idle", "page", "status", "send"}, events : EventSets, terminal : BOOLEAN, from : SeqType]
      /\ finished \in BOOLEAN
      /\ \E top \in SeqType : poll[p].from < top /\ poll[p].events = poll[p].from + 1 .. top
  BY <1>1 DEF StreamInv, StreamTypeOK, NoPoll, PagesArePieces
<1>3. /\ new \in [pc : {"idle", "page", "status", "send"}, events : EventSets, terminal : BOOLEAN, from : SeqType]
      /\ new.from = poll[p].from /\ new.events = poll[p].events
  BY <1>2
<1> HIDE DEF new
<1>4. \E top \in SeqType : new.from < top /\ new.events = new.from + 1 .. top
  BY <1>2, <1>3
<1> QED
  BY <1>1, <1>3, <1>4, PollTypes DEF StreamInv, StreamTypeOK

\* A page is written a message an event, in the order of the log.
LEMMA SendPageDoes ==
    ASSUME StreamInv, NEW p \in Polls, SendPage(p),
           NEW top \in SeqType, poll[p].from < top, poll[p].events = poll[p].from + 1 .. top
    PROVE  /\ poll[p].pc = "send" /\ poll[p].from \in SeqType /\ poll' = [poll EXCEPT ![p] = NoPoll]
           /\ UNCHANGED <<log, writer, finished, atFinish, view, loads, lost>>
           /\ \/ conn.pc # "live" /\ UNCHANGED <<wire, conn>>
              \/ /\ conn.pc = "live"
                 /\ \E page \in Seq(Messages), end \in Messages :
                      /\ Len(page) = top - poll[p].from
                      /\ \A i \in 1 .. top - poll[p].from : page[i].kind = "event" /\ page[i].events = {poll[p].from + i}
                      /\ end.kind = "end" /\ end.nextSeq = Len(log) + 1
                      /\ \/ wire' = wire \o page /\ UNCHANGED conn
                         \/ /\ poll[p].terminal /\ conn.cursor >= Len(log)
                            /\ wire' = (wire \o page) \o <<end>> /\ conn' = [conn EXCEPT !.pc = "ended"]
<1> DEFINE from == poll[p].from
<1>1. /\ poll[p].pc = "send" /\ poll' = [poll EXCEPT ![p] = NoPoll]
      /\ UNCHANGED <<log, writer, finished, atFinish, view, loads, lost>>
  BY DEF SendPage
<1>2. /\ poll[p] \in [pc : {"idle", "page", "status", "send"}, events : EventSets, terminal : BOOLEAN, from : SeqType]
      /\ conn.cursor \in SeqType
  BY <1>1 DEF StreamInv, StreamTypeOK, NoPoll
<1>3. /\ from \in SeqType /\ from \in Int /\ top \in Int /\ 0 <= from /\ from < top /\ top <= MaxEvents /\ MaxEvents \in Nat
      /\ poll[p].terminal \in BOOLEAN /\ conn.cursor + 1 \in 1 .. MaxEvents + 1
  BY <1>2, StreamAssumption DEF SeqType
<1> HIDE DEF from
<1> DEFINE events == poll[p].events
           nth(i) == CHOOSE s \in events : Cardinality({t \in events : t <= s}) = i
           sent(i) == Message("event", {nth(i)}, conn.cursor + 1, poll[p].terminal)
           page == [i \in 1 .. Cardinality(events) |-> sent(i)]
           end == Message("end", {}, LastSeq + 1, TRUE)
<1>4. \/ conn.pc # "live" /\ UNCHANGED <<wire, conn>>
      \/ /\ conn.pc = "live"
         /\ \/ wire' = wire \o page /\ conn' = conn
            \/ /\ poll[p].terminal /\ conn.cursor >= LastSeq
               /\ wire' = wire \o page \o <<end>> /\ conn' = [conn EXCEPT !.pc = "ended"]
  BY DEF SendPage, Complete
<1>5. events = from + 1 .. top /\ Cardinality(events) = top - from
  <2>1. Cardinality(from + 1 .. top) = top - from
    BY <1>3, FS_Interval
  <2> QED
    BY <2>1 DEF from
<1>6. ASSUME NEW i \in 1 .. top - from PROVE nth(i) = from + i
  <2>1. (CHOOSE s \in from + 1 .. top : Cardinality({t \in from + 1 .. top : t <= s}) = i) = from + i
    <3>1. from \in Int /\ top \in Int /\ from <= top
      BY <1>3
    <3> QED
      BY <1>6, <3>1, NthOfInterval, Zenon
  <2> QED
    BY <1>5, <2>1
<1>7. ASSUME NEW i \in 1 .. top - from
      PROVE  sent(i) \in Messages /\ sent(i).kind = "event" /\ sent(i).events = {from + i}
  <2>1. {nth(i)} = {from + i}
    BY <1>6
  <2>2. {from + i} \in EventSets
    BY <1>3 DEF EventSets
  <2> HIDE DEF nth
  <2> QED
    BY <1>3, <2>1, <2>2 DEF Message, Messages
<1> HIDE DEF events, sent
<1>8. /\ page \in Seq(Messages) /\ Len(page) = top - from
      /\ \A i \in 1 .. top - from : page[i].kind = "event" /\ page[i].events = {from + i}
  <2>1. page = [i \in 1 .. top - from |-> sent(i)] /\ top - from \in Nat
    BY <1>3, <1>5
  <2>2. page \in [1 .. top - from -> Messages] /\ \A i \in 1 .. top - from : page[i] = sent(i)
    BY <1>7, <2>1
  <2> HIDE DEF page
  <2>3. page \in Seq(Messages)
    BY <2>1, <2>2
  <2>4. Len(page) = top - from
    BY <2>1, <2>2, <2>3, LenProperties
  <2> QED
    BY <1>7, <2>2, <2>3, <2>4
<1> HIDE DEF page
<1>9. end \in Messages /\ end.kind = "end" /\ end.nextSeq = Len(log) + 1 /\ LastSeq = Len(log)
  <2>1. LastSeq = Len(log) /\ Len(log) + 1 \in 1 .. MaxEvents + 1 /\ {} \in EventSets
    BY LogIs, StreamAssumption DEF StreamInv, StreamTypeOK, EventSets
  <2> QED
    BY <2>1 DEF Message, Messages
<1> HIDE DEF end
<1> QED
  BY <1>1, <1>3, <1>4, <1>8, <1>9 DEF from

LEMMA SendPageTypes == ASSUME StreamInv, NEW p \in Polls, SendPage(p) PROVE StreamInv'
<1>1. poll[p].pc = "send"
  BY DEF SendPage
<1>2. PICK top \in SeqType : poll[p].from < top /\ poll[p].events = poll[p].from + 1 .. top
  BY <1>1 DEF StreamInv, PagesArePieces
<1>3. /\ poll' = [poll EXCEPT ![p] = NoPoll]
      /\ UNCHANGED <<log, writer, finished, atFinish, view, loads, lost>>
      /\ \/ UNCHANGED <<wire, conn>>
         \/ \E page \in Seq(Messages), end \in Messages :
              \/ wire' = wire \o page /\ UNCHANGED conn
              \/ wire' = (wire \o page) \o <<end>> /\ conn' = [conn EXCEPT !.pc = "ended"]
  <2>1. /\ poll[p].pc = "send" /\ poll[p].from \in SeqType /\ poll' = [poll EXCEPT ![p] = NoPoll]
        /\ UNCHANGED <<log, writer, finished, atFinish, view, loads, lost>>
        /\ \/ conn.pc # "live" /\ UNCHANGED <<wire, conn>>
           \/ /\ conn.pc = "live"
              /\ \E page \in Seq(Messages), end \in Messages :
                   /\ Len(page) = top - poll[p].from
                   /\ \A i \in 1 .. top - poll[p].from : page[i].kind = "event" /\ page[i].events = {poll[p].from + i}
                   /\ end.kind = "end" /\ end.nextSeq = Len(log) + 1
                   /\ \/ wire' = wire \o page /\ UNCHANGED conn
                      \/ /\ poll[p].terminal /\ conn.cursor >= Len(log)
                         /\ wire' = (wire \o page) \o <<end>> /\ conn' = [conn EXCEPT !.pc = "ended"]
    BY <1>2, SendPageDoes, Zenon
  <2> QED
    BY <2>1
<1>4. wire \in Seq(Messages) /\ lost \in 0 .. MaxLost
      /\ conn \in [pc : {"none", "load", "loadEvents", "loaded", "open", "openEvents", "live", "ended"},
                   after : SeqType, cursor : SeqType, terminal : BOOLEAN]
  BY DEF StreamInv, StreamTypeOK
<1>5. wire' \in Seq(Messages)
  <2>1. ASSUME NEW page \in Seq(Messages), NEW end \in Messages
        PROVE  wire \o page \in Seq(Messages) /\ (wire \o page) \o <<end>> \in Seq(Messages)
    <3>1. wire \o page \in Seq(Messages)
      BY <1>4, <2>1, ConcatProperties
    <3>2. <<end>> \in Seq(Messages)
      OBVIOUS
    <3> QED
      BY <3>1, <3>2, ConcatProperties
  <2>2. CASE UNCHANGED wire
    BY <1>4, <2>2
  <2>3. ASSUME NEW page \in Seq(Messages), NEW end \in Messages,
               wire' = wire \o page \/ wire' = (wire \o page) \o <<end>>
        PROVE  wire' \in Seq(Messages)
    BY <2>1, <2>3
  <2> QED
    BY <1>3, <2>2, <2>3
<1>6. conn' \in [pc : {"none", "load", "loadEvents", "loaded", "open", "openEvents", "live", "ended"},
                 after : SeqType, cursor : SeqType, terminal : BOOLEAN]
  BY <1>3, <1>4
<1>7. NoPoll.pc \notin {"status", "send"}
  BY DEF NoPoll
<1> QED
  BY <1>3, <1>4, <1>5, <1>6, <1>7, PollTypes

LEMMA PollFailsTypes == ASSUME StreamInv, NEW p \in Polls, PollFails(p) PROVE StreamInv'
<1> DEFINE error == Message("error", {}, 1, FALSE)
<1>1. /\ wire' = Append(wire, error) /\ conn' = [conn EXCEPT !.pc = "ended"]
      /\ poll' = [poll EXCEPT ![p] = NoPoll] /\ lost < MaxLost /\ lost' = lost + 1
      /\ UNCHANGED <<log, writer, finished, atFinish, view, loads>>
  BY DEF PollFails
<1>2. error \in Messages
  BY StreamAssumption DEF Message, Messages, EventSets
<1> HIDE DEF error
<1>3. wire' \in Seq(Messages) /\ lost' \in 0 .. MaxLost
  BY <1>1, <1>2, AppendProperties, StreamAssumption DEF StreamInv, StreamTypeOK
<1>4. conn' \in [pc : {"none", "load", "loadEvents", "loaded", "open", "openEvents", "live", "ended"},
                 after : SeqType, cursor : SeqType, terminal : BOOLEAN]
  BY <1>1 DEF StreamInv, StreamTypeOK
<1>5. NoPoll.pc \notin {"status", "send"}
  BY DEF NoPoll
<1> QED
  BY <1>1, <1>3, <1>4, <1>5, PollTypes

LEMMA StreamStep == ASSUME StreamInv, [StreamNext]_streamVars PROVE StreamInv'
<1>1. ASSUME NEW w \in Writers, NEW last \in BOOLEAN, BeginAppend(w, last) PROVE StreamInv'
  BY <1>1, BeginAppendTypes
<1>2. ASSUME NEW w \in Writers, InsertEvent(w) \/ FinishRun(w) PROVE StreamInv'
  BY <1>2, InsertEventTypes, FinishRunTypes
<1>3. CASE Load \/ ReadRun \/ Loaded \/ SendSnapshot \/ Drop \/ Receive
  BY <1>3, LoadTypes, ReadRunTypes, LoadedTypes, SendSnapshotTypes, DropTypes, ReceiveTypes
<1>4. ASSUME NEW cursor \in Cursors, Connect(cursor) PROVE StreamInv'
  BY <1>4, ConnectTypes
<1>5. ASSUME NEW p \in Polls, PollStep(p) \/ PollFails(p) PROVE StreamInv'
  BY <1>5, StartPollTypes, ReadPageTypes, ReadStatusTypes, SendPageTypes, PollFailsTypes DEF PollStep
<1> QED
  BY <1>1, <1>2, <1>3, <1>4, <1>5, StreamStutters DEF StreamNext

LEMMA StreamInvAlways == StreamSpec => []StreamInv
<1>1. StreamInit => StreamInv
  BY StreamBegins
<1>2. StreamInv /\ [StreamNext]_streamVars => StreamInv'
  BY StreamStep
<1> QED
  BY <1>1, <1>2, PTL DEF StreamSpec

(* The log, the stream and what the client shows keep their types, however *)
(* many polls overlap.                                                     *)
THEOREM StreamTypeCorrect == StreamSpec => []StreamTypeOK
<1>1. StreamInv => StreamTypeOK
  BY DEF StreamInv
<1> QED
  BY <1>1, StreamInvAlways, PTL

-----------------------------------------------------------------------------
(* What holds besides while polls do not overlap.                          *)

OnePoll == \A p, q \in Polls : p = q

\* What was read of the run's status is still so, and nothing is under way
\* without a stream.
StatusIsFinal ==
    /\ atFinish <= Len(log)
    /\ conn.terminal \/ view.over \/ (\E p \in Polls : poll[p].terminal) => finished
    /\ conn.pc \notin {"live", "ended"} => wire = <<>> /\ conn.cursor = 0
    /\ conn.pc # "live" => \A p \in Polls : poll[p] = NoPoll
    /\ conn.pc = "loaded" => view.nextSeq - 1 <= Len(log)
    /\ conn.after <= Len(log)

ViewIsOnePiece ==
    /\ \E top \in view.base .. Len(log) : view.events = view.base + 1 .. top
    /\ view.over =>
          /\ view.terminal
          /\ view.events = view.base + 1 .. view.nextSeq - 1
          /\ atFinish < view.nextSeq

\* A message on the wire, the i-th, when the client has seen d before the first.
MessageFits(i, sent, d) ==
    /\ wire[i].kind = "snapshot" =>
         i = 1 /\ conn.after <= d + 1 /\ d + 1 <= sent /\ wire[i].events = conn.after + 1 .. d + 1
    /\ wire[i].kind = "event" => d + i <= sent /\ wire[i].events = {d + i}
    /\ wire[i].kind = "end" =>
         /\ i = Len(wire) /\ conn.pc = "ended" /\ d + i - 1 = sent /\ wire[i].nextSeq = sent + 1
         /\ finished /\ atFinish <= sent
    /\ wire[i].kind = "error" => i = Len(wire) /\ conn.pc = "ended"

\* The stream has written the events up to sent; d of them are shown once the
\* snapshot is.
Flows(sent, d) ==
    /\ conn.after <= sent /\ sent <= conn.cursor /\ conn.cursor <= Len(log)
    /\ \A p \in Polls :
         /\ poll[p].pc = "page" => poll[p].from = conn.cursor
         /\ poll[p].pc \in {"status", "send"} =>
              poll[p].from = sent /\ sent < conn.cursor /\ poll[p].events = sent + 1 .. conn.cursor
    /\ (\A p \in Polls : poll[p].pc \notin {"status", "send"}) => conn.pc = "ended" \/ sent = conn.cursor
    /\ \A i \in 1 .. Len(wire) : MessageFits(i, sent, d)
    /\ wire = <<>> \/ wire[1].kind # "snapshot" =>
         /\ view.base = conn.after /\ conn.after <= d /\ d <= sent /\ view.events = conn.after + 1 .. d
         /\ view.over => wire = <<>> /\ conn.pc = "ended"
    /\ conn.pc = "live" => d + Len(wire) = sent

StreamFlows ==
    conn.pc \in {"live", "ended"} => \E sent \in SeqType, d \in -1 .. MaxEvents : Flows(sent, d)

FlowInv == StatusIsFinal /\ ViewIsOnePiece /\ StreamFlows

LEMMA StreamNumbers ==
    ASSUME StreamInv
    PROVE  /\ Len(log) \in Nat /\ Len(log) <= MaxEvents /\ Seqs = 1 .. Len(log) /\ LastSeq = Len(log) /\ MaxEvents \in Nat
           /\ Len(wire) \in Nat /\ (wire = <<>> <=> Len(wire) = 0)
           /\ \A i \in 1 .. Len(wire) :
                 wire[i].kind \in {"snapshot", "event", "end", "error"} /\ wire[i].nextSeq \in Nat
           /\ conn.after \in Nat /\ conn.cursor \in Nat /\ view.base \in Nat /\ view.nextSeq \in Nat \ {0}
           /\ atFinish \in Nat /\ SeqType = 0 .. MaxEvents
<1>1. /\ Len(log) \in Nat /\ Len(log) <= MaxEvents /\ Seqs = 1 .. Len(log) /\ LastSeq = Len(log) /\ MaxEvents \in Nat
      /\ conn.after \in Nat /\ conn.cursor \in Nat /\ view.base \in Nat /\ view.nextSeq \in Nat \ {0}
      /\ atFinish \in Nat /\ SeqType = 0 .. MaxEvents
  BY LogIs, StreamAssumption DEF StreamInv, StreamTypeOK, SeqType
<1>2. wire \in Seq(Messages)
  BY DEF StreamInv, StreamTypeOK
<1>3. Len(wire) \in Nat /\ (wire = <<>> <=> Len(wire) = 0)
  BY <1>2, EmptySeq, LenProperties
<1>4. ASSUME NEW i \in 1 .. Len(wire)
      PROVE  wire[i].kind \in {"snapshot", "event", "end", "error"} /\ wire[i].nextSeq \in Nat
  <2>1. wire[i] \in Messages
    BY <1>2, ElementOfSeq
  <2> QED
    BY <1>1, <2>1 DEF Messages
<1> QED
  BY <1>1, <1>3, <1>4

LEMMA FlowBegins == ASSUME StreamInit PROVE FlowInv
<1>1. StreamInv /\ log = <<>> /\ Len(log) = 0
  BY StreamBegins DEF StreamInit
<1>2. /\ atFinish = 0 /\ conn = NoConnection /\ wire = <<>> /\ poll = [p \in Polls |-> NoPoll]
      /\ view = [events |-> {}, base |-> 0, nextSeq |-> 1, terminal |-> FALSE, over |-> FALSE]
  BY DEF StreamInit
<1>3. StatusIsFinal
  BY <1>1, <1>2 DEF StatusIsFinal, NoConnection, NoPoll
<1>4. ViewIsOnePiece
  <2>1. 0 \in view.base .. Len(log) /\ view.events = view.base + 1 .. 0
    BY <1>1, <1>2
  <2> QED
    BY <1>2, <2>1 DEF ViewIsOnePiece
<1>5. StreamFlows
  BY <1>2 DEF StreamFlows, NoConnection
<1> QED
  BY <1>3, <1>4, <1>5 DEF FlowInv

\* The log may grow under a stream.
LEMMA LogGrows ==
    ASSUME StreamInv, StreamInv', FlowInv, Len(log) <= Len(log'),
           UNCHANGED <<finished, atFinish, conn, poll, wire, view>>
    PROVE  FlowInv'
<1>1. /\ Len(log) \in Nat /\ conn.after \in Nat /\ conn.cursor \in Nat /\ view.base \in Nat /\ view.nextSeq \in Nat \ {0}
      /\ atFinish \in Nat /\ Len(log') \in Nat
  BY StreamNumbers
<1>2. StatusIsFinal'
  BY <1>1 DEF FlowInv, StatusIsFinal
<1>3. ViewIsOnePiece'
  <2>1. PICK top \in view.base .. Len(log) : view.events = view.base + 1 .. top
    BY DEF FlowInv, ViewIsOnePiece
  <2>2. top \in view.base .. Len(log')
    BY <1>1, <2>1
  <2> QED
    BY <2>1, <2>2 DEF FlowInv, ViewIsOnePiece
<1>4. StreamFlows'
  <2>1. SUFFICES ASSUME conn.pc \in {"live", "ended"} PROVE \E sent \in SeqType, d \in -1 .. MaxEvents : Flows(sent, d)'
    BY DEF StreamFlows
  <2>2. PICK sent \in SeqType, d \in -1 .. MaxEvents : Flows(sent, d)
    BY <2>1 DEF FlowInv, StreamFlows
  <2>3. \A i \in 1 .. Len(wire') : MessageFits(i, sent, d)'
    BY <2>2 DEF Flows, MessageFits
  <2>4. conn.cursor <= Len(log')
    BY <1>1, <2>2 DEF Flows
  <2>5. Flows(sent, d)'
    BY <2>2, <2>3, <2>4 DEF Flows
  <2> QED
    BY <2>2, <2>5
<1> QED
  BY <1>2, <1>3, <1>4 DEF FlowInv

LEMMA FinishRunFlows == ASSUME StreamInv, FlowInv, NEW w \in Writers, FinishRun(w) PROVE FlowInv'
<1>1. /\ finished' = TRUE /\ atFinish' = IF finished THEN atFinish ELSE Len(log)
      /\ UNCHANGED <<log, conn, poll, wire, view>>
  BY DEF FinishRun
<1>2. StatusIsFinal /\ ViewIsOnePiece /\ StreamFlows
  BY DEF FlowInv
<1>3. Len(log) \in Nat /\ atFinish' <= Len(log)
  BY <1>1, <1>2, StreamNumbers DEF StatusIsFinal
<1>4. StatusIsFinal'
  BY <1>1, <1>2, <1>3 DEF StatusIsFinal
<1>5. finished => atFinish' = atFinish
  BY <1>1
<1>6. ViewIsOnePiece'
  BY <1>1, <1>2, <1>5 DEF ViewIsOnePiece, StatusIsFinal
<1>7. StreamFlows'
  <2>1. SUFFICES ASSUME conn.pc \in {"live", "ended"} PROVE \E sent \in SeqType, d \in -1 .. MaxEvents : Flows(sent, d)'
    BY <1>1 DEF StreamFlows
  <2>2. PICK sent \in SeqType, d \in -1 .. MaxEvents : Flows(sent, d)
    BY <1>2, <2>1 DEF StreamFlows
  <2>3. \A i \in 1 .. Len(wire') : MessageFits(i, sent, d)'
    BY <1>1, <1>5, <2>2 DEF Flows, MessageFits
  <2>4. Flows(sent, d)'
    BY <1>1, <2>2, <2>3 DEF Flows
  <2> QED
    BY <2>2, <2>4
<1> QED
  BY <1>4, <1>6, <1>7 DEF FlowInv

\* A step after which no stream is connected.
LEMMA NotStreaming ==
    ASSUME StreamInv, FlowInv, UNCHANGED <<log, finished, atFinish>>,
           conn'.pc \notin {"live", "ended"}, wire' = <<>>, \A p \in Polls : poll'[p] = NoPoll,
           conn'.cursor = 0, conn'.after <= Len(log), conn'.terminal => finished,
           \/ UNCHANGED view
           \/ view'.base = 0 /\ view'.events = 1 .. Len(log) /\ view'.nextSeq = Len(log) + 1 /\ ~view'.over,
           conn'.pc = "loaded" => view'.nextSeq = Len(log) + 1
    PROVE  FlowInv'
<1>1. StatusIsFinal /\ ViewIsOnePiece /\ Len(log) \in Nat
  BY StreamNumbers DEF FlowInv
<1>2. StatusIsFinal'
  <2>1. \A p \in Polls : ~poll'[p].terminal
    BY DEF NoPoll
  <2> QED
    BY <1>1, <2>1 DEF StatusIsFinal
<1>3. ViewIsOnePiece'
  <2>1. CASE UNCHANGED view
    BY <1>1, <2>1 DEF ViewIsOnePiece
  <2>2. CASE view'.base = 0 /\ view'.events = 1 .. Len(log) /\ ~view'.over
    <3>1. Len(log) \in view'.base .. Len(log') /\ view'.events = view'.base + 1 .. Len(log)
      BY <1>1, <2>2
    <3> QED
      BY <2>2, <3>1 DEF ViewIsOnePiece
  <2> QED
    BY <2>1, <2>2
<1>4. StreamFlows'
  BY DEF StreamFlows
<1> QED
  BY <1>2, <1>3, <1>4 DEF FlowInv

LEMMA ClientFlows ==
    ASSUME StreamInv, FlowInv, Load \/ ReadRun \/ Loaded \/ Drop \/ (\E cursor \in Cursors : Connect(cursor))
    PROVE  FlowInv'
<1>1. StatusIsFinal /\ Len(log) \in Nat /\ Seqs = 1 .. Len(log) /\ LastSeq = Len(log) /\ view.nextSeq \in Nat
      /\ conn \in [pc : {"none", "load", "loadEvents", "loaded", "open", "openEvents", "live", "ended"},
                   after : SeqType, cursor : SeqType, terminal : BOOLEAN]
  BY StreamNumbers DEF FlowInv, StreamInv, StreamTypeOK
<1>2. CASE Load \/ Drop
  <2>1. /\ conn'.pc \in {"load", "none"} /\ conn'.cursor = 0 /\ conn'.after = 0 /\ conn'.terminal = FALSE
        /\ wire' = <<>> /\ (\A p \in Polls : poll'[p] = NoPoll) /\ UNCHANGED <<log, finished, atFinish, view>>
    BY <1>2 DEF Load, Drop, NoConnection
  <2>2. conn'.pc \notin {"live", "ended"} /\ conn'.pc # "loaded" /\ conn'.after <= Len(log)
    BY <1>1, <2>1
  <2> QED
    BY <2>1, <2>2, NotStreaming
<1>3. CASE ReadRun
  <2>1. /\ conn.pc \in {"load", "open"} /\ UNCHANGED <<log, finished, atFinish, poll, wire, view>>
        /\ conn'.pc \in {"loadEvents", "openEvents"} /\ conn'.cursor = conn.cursor /\ conn'.after = conn.after
        /\ conn'.terminal = finished
    BY <1>1, <1>3 DEF ReadRun
  <2>2. wire' = <<>> /\ (\A p \in Polls : poll'[p] = NoPoll) /\ conn'.cursor = 0 /\ conn'.after <= Len(log)
    BY <1>1, <2>1 DEF StatusIsFinal
  <2>3. conn'.pc \notin {"live", "ended"} /\ conn'.pc # "loaded"
    BY <2>1
  <2> QED
    BY <2>1, <2>2, <2>3, NotStreaming
<1>4. CASE Loaded
  <2>1. /\ conn.pc = "loadEvents" /\ UNCHANGED <<log, finished, atFinish, poll, wire>>
        /\ view' = [events |-> Seqs, base |-> 0, nextSeq |-> LastSeq + 1, terminal |-> conn.terminal, over |-> FALSE]
        /\ conn' = [NoConnection EXCEPT !.pc = "loaded"]
    BY <1>4 DEF Loaded
  <2>2. /\ conn'.pc = "loaded" /\ conn'.cursor = 0 /\ conn'.after = 0 /\ conn'.terminal = FALSE
    BY <2>1 DEF NoConnection
  <2>3. wire' = <<>> /\ (\A p \in Polls : poll'[p] = NoPoll)
    BY <1>1, <2>1 DEF StatusIsFinal
  <2>4. view'.base = 0 /\ view'.events = 1 .. Len(log) /\ view'.nextSeq = Len(log) + 1 /\ ~view'.over
    BY <1>1, <2>1
  <2>5. conn'.pc \notin {"live", "ended"} /\ conn'.after <= Len(log)
    BY <1>1, <2>2
  <2> QED
    BY <2>1, <2>2, <2>3, <2>4, <2>5, NotStreaming
<1>5. ASSUME NEW cursor \in Cursors, Connect(cursor) PROVE FlowInv'
  <2> DEFINE after == IF cursor = "next" THEN view.nextSeq - 1 ELSE 0
  <2>1. /\ conn.pc = (IF cursor = "next" THEN "loaded" ELSE "none")
        /\ conn' = [NoConnection EXCEPT !.pc = "open", !.after = after]
        /\ UNCHANGED <<log, finished, atFinish, poll, wire, view>>
    BY <1>5 DEF Connect
  <2>2. after <= Len(log)
    BY <1>1, <2>1 DEF StatusIsFinal
  <2>3. wire' = <<>> /\ (\A p \in Polls : poll'[p] = NoPoll)
    BY <1>1, <2>1 DEF StatusIsFinal
  <2> HIDE DEF after
  <2>4. /\ conn'.pc = "open" /\ conn'.cursor = 0 /\ conn'.after = after /\ conn'.terminal = FALSE
    BY <2>1 DEF NoConnection
  <2>5. conn'.pc \notin {"live", "ended"} /\ conn'.pc # "loaded"
    BY <2>4
  <2> QED
    BY <2>1, <2>2, <2>3, <2>4, <2>5, NotStreaming
<1> QED
  BY <1>2, <1>3, <1>4, <1>5

LEMMA SendSnapshotFlows == ASSUME StreamInv, FlowInv, SendSnapshot PROVE FlowInv'
<1> DEFINE whole == Message("snapshot", conn.after + 1 .. Len(log), Len(log) + 1, conn.terminal)
           end == Message("end", {}, Len(log) + 1, TRUE)
           first == IF Len(log) > conn.after THEN Len(log) ELSE conn.after
           pc == IF conn.terminal THEN "ended" ELSE "live"
<1>1. /\ conn.pc = "openEvents" /\ wire' = IF conn.terminal THEN <<whole, end>> ELSE <<whole>>
      /\ conn' = [conn EXCEPT !.pc = pc, !.cursor = first]
      /\ UNCHANGED <<log, writer, finished, atFinish, poll, view, loads, lost>>
  BY SendSnapshotDoes
<1>2. /\ whole.kind = "snapshot" /\ whole.events = conn.after + 1 .. Len(log)
      /\ end.kind = "end" /\ end.nextSeq = Len(log) + 1
  BY DEF Message
<1>3. StatusIsFinal /\ ViewIsOnePiece
  BY DEF FlowInv
<1>4. /\ Len(log) \in Nat /\ Len(log) <= MaxEvents /\ SeqType = 0 .. MaxEvents /\ conn.after \in Nat /\ atFinish \in Nat
      /\ MaxEvents \in Nat
  BY StreamNumbers
<1>5. conn.after <= Len(log) /\ atFinish <= Len(log) /\ (conn.terminal => finished) /\ \A p \in Polls : poll[p] = NoPoll
  BY <1>1, <1>3 DEF StatusIsFinal
<1>6. first = Len(log)
  BY <1>4, <1>5
<1>7. pc \in {"live", "ended"} /\ (conn.terminal <=> pc = "ended")
  OBVIOUS
<1> HIDE DEF whole, end, first, pc
<1>8. /\ conn'.pc = pc /\ conn'.cursor = Len(log) /\ conn'.after = conn.after /\ conn'.terminal = conn.terminal
  BY <1>1, <1>6 DEF StreamInv, StreamTypeOK
<1>9. StatusIsFinal'
  BY <1>1, <1>3, <1>5, <1>7, <1>8 DEF StatusIsFinal
<1>10. ViewIsOnePiece'
  BY <1>1, <1>3 DEF ViewIsOnePiece
<1>11. /\ wire' # <<>> /\ wire'[1] = whole /\ Len(wire') \in 1 .. 2
       /\ pc = "live" => Len(wire') = 1
       /\ Len(wire') = 2 => wire'[2] = end /\ pc = "ended"
  BY <1>1, <1>7
<1>12. \A p \in Polls : poll'[p].pc = "idle"
  BY <1>1, <1>5 DEF NoPoll
<1>13. ASSUME NEW i \in 1 .. Len(wire') PROVE MessageFits(i, Len(log), Len(log) - 1)'
  <2>1. i = 1 \/ (i = 2 /\ Len(wire') = 2)
    <3>1. PICK len \in 1 .. 2 : len = Len(wire')
      BY <1>11
    <3>2. i \in 1 .. len
      BY <3>1
    <3>3. i = 1 \/ (i = 2 /\ len = 2)
      BY <3>2
    <3> QED
      BY <3>1, <3>3
  <2>2. CASE i = 1
    <3>1. wire'[i].kind = "snapshot" /\ wire'[i].events = conn.after + 1 .. (Len(log) - 1) + 1
      BY <1>2, <1>4, <1>11, <2>2
    <3> QED
      BY <1>1, <1>4, <1>5, <1>8, <2>2, <3>1 DEF MessageFits
  <2>3. CASE i = 2 /\ Len(wire') = 2
    <3>1. wire'[i].kind = "end" /\ wire'[i].nextSeq = Len(log) + 1 /\ finished
      BY <1>2, <1>5, <1>7, <1>11, <2>3
    <3> QED
      BY <1>1, <1>4, <1>5, <1>8, <1>11, <2>3, <3>1 DEF MessageFits
  <2> QED
    BY <2>1, <2>2, <2>3
<1> DEFINE top == Len(log)
           d == Len(log) - 1
<1>14. top \in SeqType /\ d \in -1 .. MaxEvents /\ d + 1 = top
  BY <1>4
<1>15. \A i \in 1 .. Len(wire') : MessageFits(i, Len(log), Len(log) - 1)'
  BY <1>13
<1>16. PICK n \in SeqType : n = Len(log)
  BY <1>14
<1>17. PICK m \in -1 .. MaxEvents : m = Len(log) - 1
  BY <1>14
<1>18. Flows(n, m)'
  <2>1. \A i \in 1 .. Len(wire') : MessageFits(i, n, m)'
    BY <1>1, <1>15, <1>16, <1>17 DEF MessageFits
  <2>2. conn'.after <= n /\ n <= conn'.cursor /\ conn'.cursor <= Len(log')
    BY <1>1, <1>4, <1>5, <1>8, <1>16
  <2>3. wire' # <<>> /\ wire'[1].kind = "snapshot"
    BY <1>2, <1>11
  <2>4. conn'.pc = "live" => m + Len(wire') = n
    <3>1. PICK len \in 1 .. 2 : len = Len(wire')
      BY <1>11
    <3>2. conn'.pc = "live" => len = 1
      BY <1>8, <1>11, <3>1
    <3>3. len = 1 => m + len = n
      BY <1>4, <1>16, <1>17
    <3> QED
      BY <3>1, <3>2, <3>3
  <2> QED
    BY <1>8, <1>12, <1>16, <2>1, <2>2, <2>3, <2>4 DEF Flows
<1>19. StreamFlows'
  BY <1>18 DEF StreamFlows
<1> QED
  BY <1>9, <1>10, <1>19 DEF FlowInv

LEMMA ReceiveFlows == ASSUME StreamInv, FlowInv, Receive PROVE FlowInv'
<1>1. /\ wire # <<>> /\ view' = Merged(Head(wire)) /\ wire' = Tail(wire)
      /\ UNCHANGED <<log, writer, finished, atFinish, conn, poll, loads, lost>>
  BY DEF Receive
<1>2. StatusIsFinal /\ ViewIsOnePiece /\ StreamFlows
  BY DEF FlowInv
<1>3. conn.pc \in {"live", "ended"}
  BY <1>1, <1>2 DEF StatusIsFinal
<1>4. PICK sent \in SeqType, d \in -1 .. MaxEvents : Flows(sent, d)
  BY <1>2, <1>3 DEF StreamFlows
<1>5. /\ Len(log) \in Nat /\ MaxEvents \in Nat /\ SeqType = 0 .. MaxEvents /\ Len(wire) \in Nat /\ Len(wire) # 0
      /\ conn.after \in Nat /\ conn.cursor \in Nat /\ atFinish \in Nat
      /\ wire[1].kind \in {"snapshot", "event", "end", "error"} /\ wire[1].nextSeq \in Nat
  <2>1. Len(wire) # 0 /\ Len(wire) \in Nat
    BY <1>1, StreamNumbers
  <2>2. 1 \in 1 .. Len(wire)
    BY <2>1
  <2> QED
    BY <2>1, <2>2, StreamNumbers
<1>6. /\ Len(wire') = Len(wire) - 1 /\ Head(wire) = wire[1]
      /\ \A i \in 1 .. Len(wire') : wire'[i] = wire[i + 1]
      /\ wire' = <<>> <=> Len(wire') = 0
  <2>1. wire \in Seq(Messages)
    BY DEF StreamInv, StreamTypeOK
  <2>2. /\ Tail(wire) \in Seq(Messages) /\ Len(Tail(wire)) = Len(wire) - 1
        /\ \A i \in 1 .. Len(Tail(wire)) : Tail(wire)[i] = wire[i + 1]
    BY <1>1, <2>1, HeadTailProperties
  <2>3. Head(wire) = wire[1]
    BY <1>1, <2>1
  <2>4. Tail(wire) = <<>> <=> Len(Tail(wire)) = 0
    BY <2>2, EmptySeq
  <2> QED
    BY <1>1, <2>2, <2>3, <2>4
<1> DEFINE message == wire[1]
<1>7. MessageFits(1, sent, d) /\ (1 = Len(wire) => wire' = <<>>)
  <2>1. 1 \in 1 .. Len(wire)
    BY <1>5
  <2>2. MessageFits(1, sent, d)
    BY <1>4, <2>1 DEF Flows
  <2>3. Len(wire') = Len(wire) - 1 /\ (Len(wire') = 0 => wire' = <<>>)
    BY <1>6
  <2> QED
    BY <2>2, <2>3
<1>8. view \in [events : EventSets, base : SeqType, nextSeq : 1 .. MaxEvents + 1, terminal : BOOLEAN, over : BOOLEAN]
  BY DEF StreamInv, StreamTypeOK
<1>9. view' = Merged(message)
  BY <1>1, <1>6
\* How much is shown now, and what is left on the wire.
<1>10. \E e \in -1 .. MaxEvents :
          /\ conn.after <= e /\ e <= sent /\ view'.base = conn.after /\ view'.events = conn.after + 1 .. e
          /\ view'.over =>
               /\ wire' = <<>> /\ conn.pc = "ended" /\ finished /\ view'.terminal
               /\ e = sent /\ view'.nextSeq = sent + 1 /\ atFinish <= sent
          /\ \/ e = d + 1
             \/ wire' = <<>> /\ conn.pc = "ended"
  <2>1. CASE message.kind = "snapshot"
    <3>1. view' = [events |-> message.events, base |-> conn.after, nextSeq |-> message.nextSeq,
                   terminal |-> message.terminal, over |-> FALSE]
      BY <1>9, <2>1 DEF Merged
    <3>2. conn.after <= d + 1 /\ d + 1 <= sent /\ message.events = conn.after + 1 .. d + 1
      BY <1>7, <2>1 DEF MessageFits
    <3>3. d + 1 \in -1 .. MaxEvents
      BY <1>4, <1>5, <3>2
    <3> QED
      BY <3>1, <3>2, <3>3
  <2>2. CASE message.kind # "snapshot"
    <3>1. /\ view.base = conn.after /\ conn.after <= d /\ d <= sent /\ view.events = conn.after + 1 .. d
          /\ ~view.over
      BY <1>1, <1>4, <2>2 DEF Flows
    <3>2. CASE message.kind = "event"
      <4> DEFINE events == view.events \union message.events
      <4>1. view' = [view EXCEPT !.events = events, !.nextSeq = message.nextSeq, !.terminal = message.terminal]
        BY <1>9, <3>2 DEF Merged
      <4>2. d + 1 <= sent /\ message.events = {d + 1}
        BY <1>7, <3>2 DEF MessageFits
      <4>3. events = conn.after + 1 .. d + 1
        BY <1>5, <3>1, <4>2
      <4> HIDE DEF events
      <4>4. view'.base = view.base /\ view'.events = events /\ view'.over = view.over
        BY <1>8, <4>1
      <4>5. d + 1 \in -1 .. MaxEvents /\ conn.after <= d + 1
        BY <1>5, <3>1, <4>2
      <4> QED
        BY <3>1, <4>2, <4>3, <4>4, <4>5
    <3>3. CASE message.kind = "end"
      <4>1. view' = [view EXCEPT !.nextSeq = message.nextSeq, !.terminal = TRUE, !.over = TRUE]
        BY <1>9, <3>3 DEF Merged
      <4>2. /\ 1 = Len(wire) /\ conn.pc = "ended" /\ d + 1 - 1 = sent /\ message.nextSeq = sent + 1
            /\ finished /\ atFinish <= sent
        BY <1>7, <3>3 DEF MessageFits
      <4>3. /\ view'.base = view.base /\ view'.events = view.events /\ view'.terminal = TRUE
            /\ view'.nextSeq = message.nextSeq
        BY <1>8, <4>1
      <4>4. wire' = <<>> /\ d = sent
        BY <1>5, <1>7, <4>2
      <4> QED
        BY <3>1, <4>2, <4>3, <4>4
    <3>4. CASE message.kind = "error"
      <4>1. view' = view
        BY <1>9, <3>4 DEF Merged
      <4>2. 1 = Len(wire) /\ conn.pc = "ended"
        BY <1>7, <3>4 DEF MessageFits
      <4>3. wire' = <<>>
        BY <1>7, <4>2
      <4> QED
        BY <3>1, <4>1, <4>2, <4>3
    <3> QED
      BY <1>5, <2>2, <3>2, <3>3, <3>4
  <2> QED
    BY <2>1, <2>2
<1>11. PICK e \in -1 .. MaxEvents :
          /\ conn.after <= e /\ e <= sent /\ view'.base = conn.after /\ view'.events = conn.after + 1 .. e
          /\ view'.over =>
               /\ wire' = <<>> /\ conn.pc = "ended" /\ finished /\ view'.terminal
               /\ e = sent /\ view'.nextSeq = sent + 1 /\ atFinish <= sent
          /\ \/ e = d + 1
             \/ wire' = <<>> /\ conn.pc = "ended"
  BY <1>10
<1>12. sent <= conn.cursor /\ conn.cursor <= Len(log)
  BY <1>4 DEF Flows
<1>13. StatusIsFinal'
  <2>1. conn.pc # "loaded"
    BY <1>3
  <2> QED
    BY <1>1, <1>2, <1>3, <1>11, <2>1 DEF StatusIsFinal
<1>14. ViewIsOnePiece'
  <2>1. e \in view'.base .. Len(log')
    BY <1>1, <1>5, <1>11, <1>12
  <2>2. view'.events = view'.base + 1 .. e
    BY <1>11
  <2>3. view'.over => view'.terminal /\ view'.events = view'.base + 1 .. view'.nextSeq - 1 /\ atFinish' < view'.nextSeq
    <3>1. SUFFICES ASSUME view'.over
                   PROVE  view'.terminal /\ view'.events = view'.base + 1 .. view'.nextSeq - 1 /\ atFinish' < view'.nextSeq
      OBVIOUS
    <3>2. view'.terminal /\ e = sent /\ view'.nextSeq = sent + 1 /\ atFinish <= sent
      BY <1>11, <3>1
    <3>3. sent \in Nat /\ atFinish \in Nat /\ atFinish' = atFinish
      BY <1>1, <1>5
    <3>4. view'.nextSeq - 1 = e /\ atFinish' < view'.nextSeq
      BY <3>2, <3>3
    <3> QED
      BY <2>2, <3>2, <3>4
  <2> QED
    BY <2>1, <2>2, <2>3 DEF ViewIsOnePiece
<1>15. ASSUME NEW i \in 1 .. Len(wire') PROVE MessageFits(i, sent, e)' /\ wire'[i].kind # "snapshot"
  <2>1. wire'[i] = wire[i + 1] /\ i + 1 \in 1 .. Len(wire) /\ i \in Nat /\ i # 0 /\ wire' # <<>>
    <3>1. PICK len \in Nat : len = Len(wire)
      BY <1>5
    <3>2. Len(wire') = len - 1 /\ i \in 1 .. len - 1
      BY <1>6, <3>1
    <3>3. i + 1 \in 1 .. len /\ i \in Nat /\ i # 0 /\ len - 1 # 0
      BY <3>1, <3>2
    <3>4. wire'[i] = wire[i + 1] /\ wire' # <<>>
      BY <1>6, <3>2, <3>3
    <3> QED
      BY <3>1, <3>3, <3>4
  <2>2. e = d + 1
    BY <1>11, <2>1
  <2>3. MessageFits(i + 1, sent, d)
    BY <1>4, <2>1 DEF Flows
  <2>4. wire'[i].kind # "snapshot"
    BY <2>1, <2>3 DEF MessageFits
  <2>5. wire'[i].kind = "event" => e + i <= sent /\ wire'[i].events = {e + i}
    <3>1. d + (i + 1) = e + i
      BY <2>1, <2>2
    <3> QED
      BY <2>1, <2>3, <3>1 DEF MessageFits
  <2>6. wire'[i].kind = "end" =>
          /\ i = Len(wire') /\ conn.pc = "ended" /\ e + i - 1 = sent /\ wire'[i].nextSeq = sent + 1
          /\ finished /\ atFinish <= sent
    BY <1>5, <1>6, <2>1, <2>2, <2>3 DEF MessageFits
  <2>7. wire'[i].kind = "error" => i = Len(wire') /\ conn.pc = "ended"
    BY <1>5, <1>6, <2>1, <2>3 DEF MessageFits
  <2> QED
    BY <1>1, <2>4, <2>5, <2>6, <2>7 DEF MessageFits
<1>16. conn.pc = "live" => e + Len(wire') = sent
  <2>1. conn.pc = "live" => d + Len(wire) = sent
    BY <1>4 DEF Flows
  <2>2. PICK len \in Nat : len = Len(wire)
    BY <1>5
  <2>3. Len(wire') = len - 1
    BY <1>6, <2>2
  <2>4. conn.pc = "live" => e = d + 1
    BY <1>11
  <2>5. conn.pc = "live" => d + len = sent
    BY <2>1, <2>2
  <2>6. conn.pc = "live" => e + (len - 1) = sent
    BY <2>4, <2>5
  <2> QED
    BY <2>3, <2>6
<1>17. Flows(sent, e)'
  BY <1>1, <1>4, <1>11, <1>15, <1>16 DEF Flows
<1>18. StreamFlows'
  BY <1>17 DEF StreamFlows
<1> QED
  BY <1>13, <1>14, <1>18 DEF FlowInv

\* A poll that is under way is the poll of a live stream, and the only one.
LEMMA PollOfLiveStream ==
    ASSUME OnePoll, StreamInv, FlowInv, NEW p \in Polls, conn.pc = "live" \/ poll[p] # NoPoll
    PROVE  /\ conn.pc = "live" /\ StatusIsFinal /\ ViewIsOnePiece
           /\ \A r \in Polls : r = p
           /\ \E sent \in SeqType, d \in -1 .. MaxEvents : Flows(sent, d)
BY DEF OnePoll, FlowInv, StatusIsFinal, StreamFlows

\* What a step of the poll has to show.
LEMMA PollFlows ==
    ASSUME StreamInv, FlowInv, conn.pc = "live", UNCHANGED <<log, finished, atFinish, view>>,
           conn'.pc \in {"live", "ended"}, conn'.after = conn.after, conn'.terminal = conn.terminal,
           conn'.pc # "live" => \A p \in Polls : poll'[p] = NoPoll,
           \A p \in Polls : poll'[p].terminal => finished,
           NEW sent \in SeqType, NEW d \in -1 .. MaxEvents, Flows(sent, d)'
    PROVE  FlowInv'
<1>1. StatusIsFinal /\ ViewIsOnePiece
  BY DEF FlowInv
<1>2. StatusIsFinal'
  BY <1>1 DEF StatusIsFinal
<1>3. ViewIsOnePiece'
  BY <1>1 DEF ViewIsOnePiece
<1>4. StreamFlows'
  BY DEF StreamFlows
<1> QED
  BY <1>2, <1>3, <1>4 DEF FlowInv

LEMMA StartPollFlows == ASSUME OnePoll, StreamInv, FlowInv, NEW p \in Polls, StartPoll(p) PROVE FlowInv'
<1>1. /\ conn.pc = "live" /\ poll[p] = NoPoll
      /\ poll' = [poll EXCEPT ![p] = [pc |-> "page", events |-> {}, terminal |-> FALSE, from |-> conn.cursor]]
      /\ UNCHANGED <<log, writer, finished, atFinish, conn, wire, view, loads, lost>>
  BY DEF StartPoll
<1>2. /\ StatusIsFinal /\ \A r \in Polls : r = p
      /\ \E sent \in SeqType, d \in -1 .. MaxEvents : Flows(sent, d)
  BY <1>1, PollOfLiveStream
<1>3. PICK sent \in SeqType, d \in -1 .. MaxEvents : Flows(sent, d)
  BY <1>2
<1>4. \A r \in Polls : /\ poll'[r].pc = "page" /\ poll'[r].from = conn.cursor /\ ~poll'[r].terminal
                       /\ poll[r].pc = "idle"
  BY <1>1, <1>2 DEF StreamInv, StreamTypeOK, NoPoll
<1>5. \A i \in 1 .. Len(wire') : MessageFits(i, sent, d)'
  BY <1>1, <1>3 DEF Flows, MessageFits
<1>6. Flows(sent, d)'
  BY <1>1, <1>3, <1>4, <1>5 DEF Flows
<1> QED
  BY <1>1, <1>4, <1>6, PollFlows

LEMMA ReadPageFlows == ASSUME OnePoll, StreamInv, FlowInv, NEW p \in Polls, ReadPage(p) PROVE FlowInv'
<1>1. /\ poll[p].from \in SeqType /\ poll[p].pc = "page"
      /\ UNCHANGED <<log, writer, finished, atFinish, wire, view, loads, lost>>
      /\ \/ poll' = [poll EXCEPT ![p] = NoPoll] /\ UNCHANGED conn
         \/ \E top \in SeqType :
               /\ poll[p].from < top /\ top <= Len(log)
               /\ poll' = [poll EXCEPT ![p].pc = "status", ![p].events = poll[p].from + 1 .. top]
               /\ conn' = [conn EXCEPT !.cursor = top]
               /\ poll[p].from + 1 .. top \in EventSets
  BY ReadPageDoes
<1>2. poll[p] # NoPoll
  BY <1>1 DEF NoPoll
<1>3. /\ conn.pc = "live" /\ StatusIsFinal /\ \A r \in Polls : r = p
      /\ \E sent \in SeqType, d \in -1 .. MaxEvents : Flows(sent, d)
  BY <1>2, PollOfLiveStream
<1>4. PICK sent \in SeqType, d \in -1 .. MaxEvents : Flows(sent, d)
  BY <1>3
<1>5. sent = conn.cursor /\ poll[p].from = sent
  <2>1. \A r \in Polls : poll[r].pc \notin {"status", "send"}
    BY <1>1, <1>3
  <2> QED
    BY <1>1, <1>3, <1>4, <2>1 DEF Flows
<1>6. CASE poll' = [poll EXCEPT ![p] = NoPoll] /\ UNCHANGED conn
  <2>1. \A r \in Polls : poll'[r].pc = "idle" /\ ~poll'[r].terminal
    BY <1>3, <1>6 DEF StreamInv, StreamTypeOK, NoPoll
  <2>2. \A i \in 1 .. Len(wire') : MessageFits(i, sent, d)'
    BY <1>1, <1>4, <1>6 DEF Flows, MessageFits
  <2>3. Flows(sent, d)'
    BY <1>1, <1>4, <1>5, <1>6, <2>1, <2>2 DEF Flows
  <2> QED
    BY <1>1, <1>3, <1>6, <2>1, <2>3, PollFlows
<1>7. ASSUME NEW top \in SeqType, poll[p].from < top, top <= Len(log),
             poll' = [poll EXCEPT ![p].pc = "status", ![p].events = poll[p].from + 1 .. top],
             conn' = [conn EXCEPT !.cursor = top]
      PROVE  FlowInv'
  <2>1. conn'.pc = conn.pc /\ conn'.after = conn.after /\ conn'.terminal = conn.terminal /\ conn'.cursor = top
    BY <1>7 DEF StreamInv, StreamTypeOK
  <2>2. /\ poll[p] \in [pc : {"idle", "page", "status", "send"}, events : EventSets, terminal : BOOLEAN, from : SeqType]
    BY <1>2 DEF StreamInv, StreamTypeOK
  <2> DEFINE events == poll[p].from + 1 .. top
             new == [poll[p] EXCEPT !.pc = "status", !.events = events]
  <2>3. poll' = [poll EXCEPT ![p] = new] /\ events = sent + 1 .. top
    BY <1>5, <1>7
  <2> HIDE DEF events
  <2>4. new.pc = "status" /\ new.events = events /\ new.from = poll[p].from /\ new.terminal = poll[p].terminal
    BY <2>2
  <2> HIDE DEF new
  <2>5. \A r \in Polls : poll'[r] = new
    BY <1>3, <2>3 DEF StreamInv, StreamTypeOK
  <2>6. \A r \in Polls : poll'[r].terminal => finished
    BY <1>3, <2>4, <2>5 DEF StatusIsFinal
  <2>7. \A i \in 1 .. Len(wire') : MessageFits(i, sent, d)'
    BY <1>1, <1>4, <2>1 DEF Flows, MessageFits
  <2>8. Flows(sent, d)'
    <3>1. conn'.after <= sent /\ sent <= conn'.cursor /\ conn'.cursor <= Len(log')
      <4>1. sent <= top
        BY <1>5, <1>7, StreamNumbers
      <4> QED
        BY <1>1, <1>4, <1>7, <2>1, <4>1 DEF Flows
    <3>2. \A r \in Polls :
            /\ poll'[r].pc = "status" /\ poll'[r].from = sent /\ sent < conn'.cursor
            /\ poll'[r].events = sent + 1 .. conn'.cursor
      BY <1>5, <1>7, <2>1, <2>3, <2>4, <2>5
    <3>3. ~ \A r \in Polls : poll'[r].pc \notin {"status", "send"}
      BY <3>2
    <3>4. /\ wire' = <<>> \/ wire'[1].kind # "snapshot" =>
               /\ view'.base = conn'.after /\ conn'.after <= d /\ d <= sent /\ view'.events = conn'.after + 1 .. d
               /\ view'.over => wire' = <<>> /\ conn'.pc = "ended"
          /\ conn'.pc = "live" => d + Len(wire') = sent
      BY <1>1, <1>4, <2>1 DEF Flows
    <3> QED
      BY <2>7, <3>1, <3>2, <3>3, <3>4 DEF Flows
  <2> QED
    BY <1>1, <1>3, <2>1, <2>6, <2>8, PollFlows
<1> QED
  BY <1>1, <1>6, <1>7

LEMMA ReadStatusFlows == ASSUME OnePoll, StreamInv, FlowInv, NEW p \in Polls, ReadStatus(p) PROVE FlowInv'
<1> DEFINE new == [poll[p] EXCEPT !.pc = "send", !.terminal = finished]
<1>1. /\ poll' = [poll EXCEPT ![p] = new] /\ poll[p].pc = "status"
      /\ UNCHANGED <<log, writer, finished, atFinish, conn, wire, view, loads, lost>>
  BY DEF ReadStatus
<1>2. poll[p] # NoPoll
  BY <1>1 DEF NoPoll
<1>3. /\ conn.pc = "live" /\ StatusIsFinal /\ \A r \in Polls : r = p
      /\ \E sent \in SeqType, d \in -1 .. MaxEvents : Flows(sent, d)
  BY <1>2, PollOfLiveStream
<1>4. PICK sent \in SeqType, d \in -1 .. MaxEvents : Flows(sent, d)
  BY <1>3
<1>5. new.pc = "send" /\ new.terminal = finished /\ new.from = poll[p].from /\ new.events = poll[p].events
  BY <1>2 DEF StreamInv, StreamTypeOK
<1> HIDE DEF new
<1>6. \A r \in Polls : r = p /\ poll'[r] = new
  BY <1>1, <1>3 DEF StreamInv, StreamTypeOK
<1>7. \A i \in 1 .. Len(wire') : MessageFits(i, sent, d)'
  BY <1>1, <1>4 DEF Flows, MessageFits
<1>8. poll[p].from = sent /\ sent < conn.cursor /\ poll[p].events = sent + 1 .. conn.cursor
  BY <1>1, <1>4 DEF Flows
<1>9. \A r \in Polls :
        /\ poll'[r].pc = "send" /\ poll'[r].from = sent /\ sent < conn'.cursor
        /\ poll'[r].events = sent + 1 .. conn'.cursor /\ poll'[r].terminal = finished
  BY <1>1, <1>5, <1>6, <1>8
<1>10. ~ \A r \in Polls : poll'[r].pc \notin {"status", "send"}
  BY <1>9
<1>11. Flows(sent, d)'
  BY <1>1, <1>4, <1>7, <1>9, <1>10 DEF Flows
<1> QED
  BY <1>1, <1>3, <1>9, <1>11, PollFlows

LEMMA PollFailsFlows == ASSUME OnePoll, StreamInv, FlowInv, NEW p \in Polls, PollFails(p) PROVE FlowInv'
<1> DEFINE error == Message("error", {}, 1, FALSE)
<1>1. /\ conn.pc = "live" /\ wire' = Append(wire, error) /\ conn' = [conn EXCEPT !.pc = "ended"]
      /\ poll' = [poll EXCEPT ![p] = NoPoll] /\ UNCHANGED <<log, writer, finished, atFinish, view, loads>>
  BY DEF PollFails
<1>2. /\ StatusIsFinal /\ \A r \in Polls : r = p
      /\ \E sent \in SeqType, d \in -1 .. MaxEvents : Flows(sent, d)
  BY <1>1, PollOfLiveStream
<1>3. PICK sent \in SeqType, d \in -1 .. MaxEvents : Flows(sent, d)
  BY <1>2
<1>4. error \in Messages /\ error.kind = "error"
  BY StreamAssumption DEF Message, Messages, EventSets
<1> HIDE DEF error
<1>5. wire \in Seq(Messages)
  BY DEF StreamInv, StreamTypeOK
<1>6. PICK len \in Nat : len = Len(wire)
  BY <1>5, LenProperties
<1>7. /\ wire' # <<>> /\ Len(wire') = len + 1 /\ wire'[len + 1] = error
      /\ \A i \in 1 .. len : wire'[i] = wire[i]
  BY <1>1, <1>4, <1>5, <1>6, AppendProperties
<1>8. /\ conn'.pc = "ended" /\ conn'.after = conn.after /\ conn'.cursor = conn.cursor /\ conn'.terminal = conn.terminal
  BY <1>1 DEF StreamInv, StreamTypeOK
<1>9. \A r \in Polls : poll'[r] = NoPoll
  BY <1>1, <1>2 DEF StreamInv, StreamTypeOK
<1>10. \A r \in Polls : poll'[r].pc = "idle" /\ ~poll'[r].terminal
  BY <1>9 DEF NoPoll
<1>11. ASSUME NEW i \in 1 .. Len(wire') PROVE MessageFits(i, sent, d)'
  <2>1. i = len + 1 \/ i \in 1 .. len
    BY <1>6, <1>7
  <2>2. CASE i = len + 1
    BY <1>4, <1>7, <1>8, <2>2 DEF MessageFits
  <2>3. CASE i \in 1 .. len
    <3>1. MessageFits(i, sent, d) /\ wire'[i] = wire[i]
      BY <1>3, <1>6, <1>7, <2>3 DEF Flows
    <3>2. wire[i].kind \notin {"end", "error"}
      BY <1>1, <3>1 DEF MessageFits
    <3> QED
      BY <1>1, <1>8, <3>1, <3>2 DEF MessageFits
  <2> QED
    BY <2>1, <2>2, <2>3
<1>12. wire' = <<>> \/ wire'[1].kind # "snapshot" =>
         /\ view'.base = conn'.after /\ conn'.after <= d /\ d <= sent /\ view'.events = conn'.after + 1 .. d
         /\ view'.over => wire' = <<>> /\ conn'.pc = "ended"
  <2>1. SUFFICES ASSUME wire'[1].kind # "snapshot"
                 PROVE  /\ view.base = conn.after /\ conn.after <= d /\ d <= sent /\ view.events = conn.after + 1 .. d
                        /\ ~view.over
    BY <1>1, <1>7, <1>8
  <2>2. wire = <<>> \/ wire[1].kind # "snapshot"
    <3>1. CASE len = 0
      BY <1>5, <1>6, <3>1, EmptySeq
    <3>2. CASE len # 0
      <4>1. 1 \in 1 .. len
        BY <3>2
      <4> QED
        BY <1>7, <2>1, <4>1
    <3> QED
      BY <3>1, <3>2
  <2> QED
    BY <1>1, <1>3, <2>2 DEF Flows
<1>13. Flows(sent, d)'
  BY <1>1, <1>3, <1>8, <1>10, <1>11, <1>12 DEF Flows
<1> QED
  BY <1>1, <1>8, <1>9, <1>10, <1>13, PollFlows

LEMMA LongerWire ==
    ASSUME NEW a \in Seq(Messages), NEW b \in Seq(Messages)
    PROVE  /\ Len(a \o b) = Len(a) + Len(b)
           /\ \A i \in 1 .. Len(a) + Len(b) : (a \o b)[i] = IF i <= Len(a) THEN a[i] ELSE b[i - Len(a)]
BY ConcatProperties

LEMMA SendPageFlows == ASSUME OnePoll, StreamInv, FlowInv, NEW p \in Polls, SendPage(p) PROVE FlowInv'
<1>1. poll[p].pc = "send" /\ poll[p] # NoPoll
  BY DEF SendPage, NoPoll
<1>2. /\ conn.pc = "live" /\ StatusIsFinal /\ \A r \in Polls : r = p
      /\ \E sent \in SeqType, d \in -1 .. MaxEvents : Flows(sent, d)
  BY <1>1, PollOfLiveStream
<1>3. PICK sent \in SeqType, d \in -1 .. MaxEvents : Flows(sent, d)
  BY <1>2
<1> DEFINE top == conn.cursor
<1>4. /\ poll[p].from = sent /\ sent < top /\ poll[p].events = sent + 1 .. top /\ top \in SeqType
  BY <1>1, <1>3 DEF Flows, StreamInv, StreamTypeOK
<1>5. poll[p].from < top /\ poll[p].events = poll[p].from + 1 .. top
  BY <1>4
<1>6. /\ poll[p].pc = "send" /\ poll[p].from \in SeqType /\ poll' = [poll EXCEPT ![p] = NoPoll]
      /\ UNCHANGED <<log, writer, finished, atFinish, view, loads, lost>>
      /\ \/ conn.pc # "live" /\ UNCHANGED <<wire, conn>>
         \/ /\ conn.pc = "live"
            /\ \E page \in Seq(Messages), end \in Messages :
                 /\ Len(page) = top - poll[p].from
                 /\ \A i \in 1 .. top - poll[p].from : page[i].kind = "event" /\ page[i].events = {poll[p].from + i}
                 /\ end.kind = "end" /\ end.nextSeq = Len(log) + 1
                 /\ \/ wire' = wire \o page /\ UNCHANGED conn
                    \/ /\ poll[p].terminal /\ conn.cursor >= Len(log)
                       /\ wire' = (wire \o page) \o <<end>> /\ conn' = [conn EXCEPT !.pc = "ended"]
  <2> HIDE DEF top
  <2> QED
    BY <1>4, <1>5, SendPageDoes, Zenon
<1>7. PICK page \in Seq(Messages), end \in Messages :
         /\ Len(page) = top - poll[p].from
         /\ \A i \in 1 .. top - poll[p].from : page[i].kind = "event" /\ page[i].events = {poll[p].from + i}
         /\ end.kind = "end" /\ end.nextSeq = Len(log) + 1
         /\ \/ wire' = wire \o page /\ UNCHANGED conn
            \/ /\ poll[p].terminal /\ conn.cursor >= Len(log)
               /\ wire' = (wire \o page) \o <<end>> /\ conn' = [conn EXCEPT !.pc = "ended"]
  BY <1>2, <1>6
<1>8. wire \in Seq(Messages) /\ wire \o page \in Seq(Messages)
  BY ConcatProperties DEF StreamInv, StreamTypeOK
<1>9. PICK len \in Nat, more \in Nat : len = Len(wire) /\ more = top - sent /\ more = Len(page) /\ more # 0
  <2>1. Len(wire) \in Nat /\ top - sent \in Nat /\ top - sent = Len(page) /\ top - sent # 0
    BY <1>4, <1>7, <1>8, LenProperties DEF SeqType
  <2> QED
    BY <2>1
<1>10. d + len = sent /\ len + more \in Nat /\ d + (len + more) = top /\ d \in Int /\ top \in Int
  <2>1. d + len = sent
    BY <1>2, <1>3, <1>9 DEF Flows
  <2>2. sent \in Int /\ top \in Int /\ d \in Int
    BY <1>3, <1>4 DEF SeqType
  <2> HIDE DEF top
  <2> QED
    BY <1>9, <2>1, <2>2
\* The messages that follow those on the wire.
<1>11. /\ Len(wire \o page) = len + more
       /\ \A i \in 1 .. len : (wire \o page)[i] = wire[i]
       /\ \A i \in len + 1 .. len + more : (wire \o page)[i].kind = "event" /\ (wire \o page)[i].events = {d + i}
  <2> DEFINE longer == wire \o page
  <2>1. /\ Len(longer) = len + more
        /\ \A i \in 1 .. len + more : longer[i] = IF i <= len THEN wire[i] ELSE page[i - len]
    <3>1. /\ Len(longer) = Len(wire) + Len(page)
          /\ \A i \in 1 .. Len(wire) + Len(page) : longer[i] = IF i <= Len(wire) THEN wire[i] ELSE page[i - Len(wire)]
      BY <1>8, LongerWire
    <3> HIDE DEF longer
    <3> QED
      BY <1>9, <3>1
  <2> HIDE DEF longer
  <2>2. \A i \in 1 .. len : longer[i] = wire[i]
    BY <1>9, <2>1
  <2>3. ASSUME NEW i \in len + 1 .. len + more PROVE longer[i].kind = "event" /\ longer[i].events = {d + i}
    <3>0. i - len \in 1 .. more
      BY <1>9
    <3>1. PICK j \in 1 .. more : j = i - len
      BY <3>0
    <3>2. longer[i] = page[j]
      BY <1>9, <2>1, <3>1
    <3>3. page[j].kind = "event" /\ page[j].events = {sent + j}
      BY <1>4, <1>7, <1>9, <3>1
    <3>4. sent + j = d + i
      BY <1>9, <1>10, <3>1
    <3> QED
      BY <3>2, <3>3, <3>4
  <2> QED
    BY <2>1, <2>2, <2>3 DEF longer
<1>12. PICK longer \in Seq(Messages) :
          /\ longer = wire \o page /\ Len(longer) = len + more /\ longer # <<>>
          /\ \A i \in 1 .. len : longer[i] = wire[i]
          /\ \A i \in len + 1 .. len + more : longer[i].kind = "event" /\ longer[i].events = {d + i}
  <2>1. Len(wire \o page) # 0
    BY <1>9, <1>11
  <2>2. wire \o page # <<>>
    BY <2>1
  <2> QED
    BY <1>8, <1>11, <2>2
<1>13. \/ wire' = longer /\ UNCHANGED conn
       \/ /\ finished /\ top = Len(log) /\ conn' = [conn EXCEPT !.pc = "ended"]
          /\ Len(wire') = len + more + 1 /\ wire'[len + more + 1] = end
          /\ \A i \in 1 .. len + more : wire'[i] = longer[i]
          /\ wire' # <<>>
  <2>1. CASE wire' = wire \o page /\ UNCHANGED conn
    BY <1>12, <2>1
  <2>2. CASE /\ poll[p].terminal /\ conn.cursor >= Len(log)
             /\ wire' = (wire \o page) \o <<end>> /\ conn' = [conn EXCEPT !.pc = "ended"]
    <3>1. finished
      BY <1>2, <2>2 DEF StatusIsFinal
    <3>2. top = Len(log)
      <4>1. conn.cursor <= Len(log)
        BY <1>3 DEF Flows
      <4>2. Len(log) \in Nat /\ conn.cursor \in Nat
        BY StreamNumbers
      <4> QED
        BY <2>2, <4>1, <4>2
    <3>3. wire' = Append(longer, end)
      BY <1>12, <2>2, AppendIsConcat
    <3>4. /\ Len(wire') = Len(longer) + 1 /\ wire'[Len(longer) + 1] = end
          /\ \A i \in 1 .. Len(longer) : wire'[i] = longer[i]
          /\ wire' # <<>>
      BY <3>3, AppendProperties
    <3> QED
      BY <1>12, <2>2, <3>1, <3>2, <3>4
  <2> QED
    BY <1>7, <2>1, <2>2
<1>14. /\ conn'.pc \in {"live", "ended"} /\ conn'.after = conn.after /\ conn'.cursor = conn.cursor
       /\ conn'.terminal = conn.terminal
  BY <1>2, <1>13 DEF StreamInv, StreamTypeOK
<1>15. \A r \in Polls : poll'[r] = NoPoll
  BY <1>2, <1>6 DEF StreamInv, StreamTypeOK
<1>16. \A r \in Polls : poll'[r].pc = "idle" /\ ~poll'[r].terminal
  BY <1>15 DEF NoPoll
<1>17. ASSUME NEW i \in 1 .. len + more, wire'[i] = longer[i] PROVE MessageFits(i, top, d)'
  <2>1. i \in 1 .. len \/ i \in len + 1 .. len + more
    BY <1>9
  <2>2. CASE i \in 1 .. len
    <3>1. MessageFits(i, sent, d) /\ wire'[i] = wire[i]
      BY <1>3, <1>9, <1>12, <1>17, <2>2 DEF Flows
    <3>2. wire[i].kind \notin {"end", "error"}
      BY <1>2, <3>1 DEF MessageFits
    <3>3. sent \in Int /\ top \in Int /\ sent <= top /\ d \in Int /\ i \in Int
      BY <1>4 DEF SeqType
    <3>4. wire[i].kind = "snapshot" =>
            i = 1 /\ conn.after <= d + 1 /\ d + 1 <= top /\ wire[i].events = conn.after + 1 .. d + 1
      BY <3>1, <3>3 DEF MessageFits
    <3>5. wire[i].kind = "event" => d + i <= top /\ wire[i].events = {d + i}
      BY <3>1, <3>3 DEF MessageFits
    <3> QED
      BY <1>14, <3>1, <3>2, <3>4, <3>5 DEF MessageFits
  <2>3. CASE i \in len + 1 .. len + more
    <3>1. wire'[i].kind = "event" /\ wire'[i].events = {d + i}
      BY <1>12, <1>17, <2>3
    <3>2. d + i <= top
      BY <1>9, <1>10, <2>3
    <3> QED
      BY <1>14, <3>1, <3>2 DEF MessageFits
  <2> QED
    BY <2>1, <2>2, <2>3
<1>18. \A i \in 1 .. Len(wire') : MessageFits(i, top, d)'
  <2>1. CASE wire' = longer /\ UNCHANGED conn
    BY <1>12, <1>17, <2>1
  <2>2. CASE /\ finished /\ top = Len(log) /\ conn' = [conn EXCEPT !.pc = "ended"]
             /\ Len(wire') = len + more + 1 /\ wire'[len + more + 1] = end
             /\ \A i \in 1 .. len + more : wire'[i] = longer[i]
             /\ wire' # <<>>
    <3>1. SUFFICES ASSUME NEW i \in 1 .. Len(wire') PROVE MessageFits(i, top, d)'
      OBVIOUS
    <3>2. i \in 1 .. len + more \/ i = len + more + 1
      <4>1. PICK n \in Nat : n = len + more
        BY <1>10
      <4>2. Len(wire') = n + 1
        BY <2>2, <4>1
      <4>3. i \in 1 .. n + 1
        BY <4>2
      <4>4. i \in 1 .. n \/ i = n + 1
        BY <4>1, <4>3
      <4> QED
        BY <4>1, <4>4
    <3>3. CASE i \in 1 .. len + more
      BY <1>17, <2>2, <3>3
    <3>4. CASE i = len + more + 1
      <4>1. wire'[i] = end /\ i = Len(wire') /\ conn'.pc = "ended"
        BY <2>2, <3>4 DEF StreamInv, StreamTypeOK
      <4>2. d + i - 1 = top
        <5>1. PICK n \in Nat : n = len + more
          BY <1>10
        <5>2. d + n = top /\ i = n + 1 /\ d \in Int
          BY <1>10, <3>4, <5>1
        <5>3. d + i - 1 = d + n
          BY <5>2
        <5> QED
          BY <5>2, <5>3
      <4>3. end.kind = "end" /\ end.nextSeq = top + 1 /\ atFinish <= top
        BY <1>2, <1>7, <2>2 DEF StatusIsFinal
      <4>4. finished' /\ atFinish' = atFinish /\ conn'.cursor = top
        BY <1>6, <1>14, <2>2
      <4>5. wire'[i].kind = "end" /\ wire'[i].nextSeq = top + 1
        BY <4>1, <4>3
      <4> QED
        BY <4>1, <4>2, <4>3, <4>4, <4>5 DEF MessageFits
    <3> QED
      BY <3>2, <3>3, <3>4
  <2> QED
    BY <1>13, <2>1, <2>2
<1>19. wire' # <<>> /\ (len # 0 => wire'[1] = wire[1])
  <2>1. wire' # <<>>
    BY <1>12, <1>13
  <2>2. \A i \in 1 .. len + more : wire'[i] = longer[i]
    BY <1>12, <1>13
  <2>3. ASSUME len # 0 PROVE wire'[1] = wire[1]
    <3>1. 1 \in 1 .. len /\ 1 \in 1 .. len + more
      BY <1>9, <2>3
    <3>2. wire'[1] = longer[1]
      BY <2>2, <3>1
    <3>3. longer[1] = wire[1]
      BY <1>12, <3>1
    <3> QED
      BY <3>2, <3>3
  <2> QED
    BY <2>1, <2>3
<1>20. wire' = <<>> \/ wire'[1].kind # "snapshot" =>
         /\ view'.base = conn'.after /\ conn'.after <= d /\ d <= top /\ view'.events = conn'.after + 1 .. d
         /\ view'.over => wire' = <<>> /\ conn'.pc = "ended"
  <2>1. SUFFICES ASSUME wire'[1].kind # "snapshot"
                 PROVE  /\ view.base = conn.after /\ conn.after <= d /\ d <= top /\ view.events = conn.after + 1 .. d
                        /\ ~view.over
    BY <1>6, <1>14, <1>19
  <2>2. wire = <<>> \/ wire[1].kind # "snapshot"
    <3>1. CASE len = 0
      BY <1>8, <1>9, <3>1, EmptySeq
    <3>2. CASE len # 0
      BY <1>19, <2>1, <3>2
    <3> QED
      BY <3>1, <3>2
  <2>3. /\ view.base = conn.after /\ conn.after <= d /\ d <= sent /\ view.events = conn.after + 1 .. d
        /\ ~view.over
    BY <1>2, <1>3, <2>2 DEF Flows
  <2>4. d <= top
    BY <1>4, <2>3 DEF SeqType
  <2> QED
    BY <2>3, <2>4
<1>21. conn'.pc = "live" => d + Len(wire') = top
  <2>1. conn'.pc = "live" => wire' = longer
    BY <1>13 DEF StreamInv, StreamTypeOK
  <2> QED
    BY <1>10, <1>12, <2>1
<1>22. conn'.after <= top /\ top <= conn'.cursor /\ conn'.cursor <= Len(log')
  <2>1. conn.after <= sent /\ conn.cursor <= Len(log)
    BY <1>3 DEF Flows
  <2> QED
    <3>1. sent \in Nat /\ top \in Nat /\ conn.after \in Nat
      BY <1>3, <1>4, StreamNumbers DEF SeqType
    <3>2. conn'.after = conn.after /\ conn'.cursor = top /\ log' = log
      BY <1>6, <1>14
    <3> QED
      BY <1>4, <2>1, <3>1, <3>2
<1>23. PICK n \in SeqType : n = top
  BY <1>4
<1>24. Flows(n, d)'
  <2>1. \A i \in 1 .. Len(wire') : MessageFits(i, n, d)'
    BY <1>6, <1>14, <1>18, <1>23 DEF MessageFits
  <2> QED
    BY <1>6, <1>14, <1>16, <1>20, <1>21, <1>22, <1>23, <2>1 DEF Flows
<1> QED
  BY <1>2, <1>6, <1>14, <1>15, <1>16, <1>24, PollFlows

-----------------------------------------------------------------------------
LEMMA FlowStutters == ASSUME StreamInv, FlowInv, UNCHANGED streamVars PROVE FlowInv'
<1>1. UNCHANGED <<log, finished, atFinish, conn, poll, wire, view>> /\ StreamInv'
  BY StreamStutters DEF streamVars
<1>2. Len(log) <= Len(log')
  BY <1>1, StreamNumbers
<1> QED
  BY <1>1, <1>2, LogGrows

LEMMA FlowStep == ASSUME OnePoll, StreamInv, StreamInv', FlowInv, [StreamNext]_streamVars PROVE FlowInv'
<1>1. ASSUME NEW w \in Writers, NEW last \in BOOLEAN, BeginAppend(w, last) PROVE FlowInv'
  <2>1. UNCHANGED <<log, finished, atFinish, conn, poll, wire, view>>
    BY <1>1 DEF BeginAppend
  <2>2. Len(log) <= Len(log')
    BY <2>1, StreamNumbers
  <2> QED
    BY <2>1, <2>2, LogGrows
<1>2. ASSUME NEW w \in Writers, InsertEvent(w) PROVE FlowInv'
  <2>1. UNCHANGED <<finished, atFinish, conn, poll, wire, view>> /\ (log' = log \/ Len(log') = Len(log) + 1)
    BY <1>2, InsertEventDoes
  <2>2. Len(log) <= Len(log')
    BY <2>1, StreamNumbers
  <2> QED
    BY <2>1, <2>2, LogGrows
<1>3. ASSUME NEW w \in Writers, FinishRun(w) PROVE FlowInv'
  BY <1>3, FinishRunFlows
<1>4. CASE Load \/ ReadRun \/ Loaded \/ Drop
  BY <1>4, ClientFlows
<1>5. CASE SendSnapshot \/ Receive
  BY <1>5, SendSnapshotFlows, ReceiveFlows
<1>6. ASSUME NEW cursor \in Cursors, Connect(cursor) PROVE FlowInv'
  BY <1>6, ClientFlows
<1>7. ASSUME NEW p \in Polls, PollStep(p) \/ PollFails(p) PROVE FlowInv'
  BY <1>7, StartPollFlows, ReadPageFlows, ReadStatusFlows, SendPageFlows, PollFailsFlows DEF PollStep
<1> QED
  BY <1>1, <1>2, <1>3, <1>4, <1>5, <1>6, <1>7, FlowStutters DEF StreamNext

(* While polls do not overlap, a client sees the log whole: whatever the   *)
(* number of writers, of events, of replays, of lost connections and of    *)
(* statements that fail, and wherever the clients connect.                 *)
THEOREM ClientsSeeTheLogWhole == ASSUME OnePoll PROVE StreamSpec => []ViewIsGapless
<1>1. StreamInit => FlowInv
  BY FlowBegins
<1>2. StreamInv /\ StreamInv' /\ FlowInv /\ [StreamNext]_streamVars => FlowInv'
  BY FlowStep
<1>3. StreamInv /\ FlowInv => ViewIsGapless
  BY DEF StreamInv, FlowInv, LogIsWhole, ViewIsOnePiece, ViewIsGapless
<1> QED
  BY <1>1, <1>2, <1>3, StreamInvAlways, PTL DEF StreamSpec
=============================================================================
