------------------------- MODULE ServerProcessProofs -------------------------
(***************************************************************************)
(* Proofs about ServerProcess, for any processes, worlds and users: the    *)
(* migrations and the sessions, then what the config file says of the      *)
(* services, the public address, the files a server leaves behind and the  *)
(* ticket keys.                                                            *)
(***************************************************************************)
EXTENDS ServerProcess, DataLemmas, TLAPS

\* The shape of the variables, which no step changes.
IsProc(r) ==
  DOMAIN r = {"at", "why", "instance", "applied", "done", "config", "services", "listening"}
IsDatabase(d) == DOMAIN d = {"schema", "rows", "sessions"}

Shape ==
  /\ DOMAIN procs = Procs
  /\ \A p \in Procs : IsProc(procs[p]) /\ procs[p].listening \in Nat
  /\ IsDatabase(database)
  /\ DOMAIN transaction = {"proc", "database", "migration", "recorded"}
  /\ IsDatabase(transaction.database)

\* Where a process is between its migrations and its services, and after that.
Before == {"configuring", "saving", "saved", "parsing", "preparing", "copying", "clearing"}
After == {"listening", "running"}

\* What a step may do to the processes, the database and the tickets.
Others(p) == DOMAIN procs' = Procs /\ \A q \in Procs \ {p} : procs'[q] = procs[q]
Keeps(p) ==
  /\ IsProc(procs'[p]) /\ procs'[p].listening \in Nat
  /\ procs'[p].applied = procs[p].applied
  /\ procs'[p].instance = procs[p].instance

Quiet == UNCHANGED <<world, database, transaction, procs, tickets>>

Moves(p) ==
  /\ Others(p) /\ Keeps(p) /\ procs'[p].done = procs[p].done
  /\ \/ /\ procs[p].at \in Before /\ procs'[p].at \in Before
        /\ procs'[p].listening = procs[p].listening
     \/ procs[p].at \in After /\ procs'[p].at \in After
  /\ UNCHANGED <<world, database, transaction, tickets>>

Leaves(p) ==
  /\ Others(p) /\ procs'[p].at = "down" /\ procs'[p].listening = 0 /\ IsProc(procs'[p])
  /\ transaction' = IF transaction.proc = p THEN NoTransaction ELSE transaction
  /\ UNCHANGED <<world, database, tickets>>

Enters(p) ==
  /\ procs[p].at = "down"
  /\ world.overlap \/ \A q \in Procs : At(q, "down")
  /\ Others(p) /\ IsProc(procs'[p])
  /\ procs'[p].at = "migrating" /\ procs'[p].listening = 0
  /\ procs'[p].applied = Applied(database) /\ procs'[p].done = {}
  /\ UNCHANGED <<world, database, transaction, tickets>>

Begins(p) ==
  /\ At(p, "migrating") /\ ~Locked(p)
  /\ \E i \in DOMAIN MIGRATIONS :
       /\ IsNextMigration(i, procs[p].applied, procs[p].done)
       /\ transaction' = [proc |-> p, database |-> Run(database, MIGRATIONS[i]),
                          migration |-> i, recorded |-> FALSE]
  /\ UNCHANGED <<world, database, procs, tickets>>

Records(p) ==
  /\ At(p, "migrating") /\ transaction.proc = p
  /\ transaction' = [transaction EXCEPT
       !.database = Record(@, MIGRATIONS[transaction.migration]), !.recorded = TRUE]
  /\ UNCHANGED <<world, database, procs, tickets>>

Commits(p) ==
  /\ At(p, "migrating") /\ transaction.proc = p /\ transaction.recorded
  /\ database' = transaction.database
  /\ transaction' = NoTransaction
  /\ Others(p) /\ Keeps(p) /\ procs'[p].at = "migrating"
  /\ procs'[p].listening = procs[p].listening
  /\ procs'[p].done = procs[p].done \union {MIGRATIONS[transaction.migration]}
  /\ UNCHANGED <<world, tickets>>

Finishes(p) ==
  /\ At(p, "migrating") /\ transaction.proc # p
  /\ ToApply(procs[p].applied, procs[p].done) = {}
  /\ Others(p) /\ Keeps(p) /\ procs'[p].at = "configuring"
  /\ procs'[p].done = procs[p].done /\ procs'[p].listening = procs[p].listening
  /\ UNCHANGED <<world, database, transaction, tickets>>

Clears(p) ==
  /\ At(p, "clearing") /\ ~Locked(p)
  /\ database' = InvalidateSessions(database)
  /\ Others(p) /\ Keeps(p) /\ procs'[p].at = "listening"
  /\ procs'[p].done = procs[p].done
  /\ UNCHANGED <<world, transaction, tickets>>

Logs(p) ==
  /\ procs[p].listening > 0 /\ transaction = NoTransaction
  /\ \E u, key :
       /\ database' = [database EXCEPT !.sessions = @ \union {u}]
       /\ tickets' = tickets \union {[user |-> u, key |-> key, instance |-> procs[p].instance]}
  /\ UNCHANGED <<world, transaction, procs>>

Step ==
  \/ Quiet
  \/ \E p \in Procs :
       \/ Moves(p) \/ Leaves(p) \/ Enters(p) \/ Begins(p) \/ Records(p) \/ Commits(p)
       \/ Finishes(p) \/ Clears(p) \/ Logs(p)

-----------------------------------------------------------------------------
LEMMA DownShape ==
  ASSUME NEW why
  PROVE  IsProc(Down(why)) /\ Down(why).at = "down" /\ Down(why).listening = 0
BY DEF IsProc, Down

LEMMA ExitLeaves ==
  ASSUME Shape, NEW p \in Procs, NEW why, Exit(p, why)
  PROVE  Leaves(p)
BY DownShape DEF Exit, Leaves, Others, Shape

LEMMA FailLeaves ==
  ASSUME Shape, NEW p \in Procs, NEW why, Fail(p, why)
  PROVE  Leaves(p)
BY ExitLeaves DEF Fail

LEMMA NoTransactionShape ==
  /\ DOMAIN NoTransaction = {"proc", "database", "migration", "recorded"}
  /\ IsDatabase(NoTransaction.database)
BY DEF NoTransaction, IsDatabase, EmptyDatabase

LEMMA InitShape == Init => Shape
<1> SUFFICES ASSUME Init PROVE Shape
  OBVIOUS
<1>1. IsDatabase(database)
  BY ProcessAssumption DEF Init, IsDatabase
<1>2. DOMAIN procs = Procs /\ \A p \in Procs : IsProc(procs[p]) /\ procs[p].listening \in Nat
  <2>1. DOMAIN procs = Procs /\ \A p \in Procs : procs[p] = Down("")
    BY DEF Init
  <2>2. IsProc(Down("")) /\ Down("").listening = 0
    BY DownShape
  <2>3. ASSUME NEW p \in Procs
        PROVE  IsProc(procs[p]) /\ procs[p].listening \in Nat
    <3>1. procs[p] = Down("")
      BY <2>1
    <3>2. 0 \in Nat
      OBVIOUS
    <3> QED
      BY <2>2, <3>1, <3>2
  <2> QED
    BY <2>1, <2>3
<1> QED
  BY <1>1, <1>2, NoTransactionShape DEF Init, Shape

\* Every step is of one of these kinds.
LEMMA StartupSteps ==
  ASSUME Shape, NEW p \in Procs, Startup(p)
  PROVE  Step
<1> USE DEF Shape
<1>1. CASE Start(p)
  <2>1. CASE \E why : Exit(p, why)
    BY <2>1, ExitLeaves DEF Step
  <2>2. ASSUME procs' = [procs EXCEPT ![p] =
                           [Down("") EXCEPT !.at = "migrating",
                                            !.instance = world.starts - left.starts + 1,
                                            !.applied = Applied(database)]],
               UNCHANGED <<world, database, transaction, files, connections, tickets>>
        PROVE  Step
    <3>1. Others(p) /\ procs'[p] = [Down("") EXCEPT !.at = "migrating",
                                            !.instance = world.starts - left.starts + 1,
                                            !.applied = Applied(database)]
      BY <2>2 DEF Others
    <3>2. /\ IsProc(procs'[p]) /\ procs'[p].at = "migrating" /\ procs'[p].listening = 0
          /\ procs'[p].applied = Applied(database) /\ procs'[p].done = {}
      BY <3>1 DEF IsProc, Down
    <3>3. Enters(p)
      BY <1>1, <2>2, <3>1, <3>2 DEF Start, Enters, At
    <3> QED
      BY <3>3 DEF Step
  <2> QED
    BY <1>1, <2>1, <2>2 DEF Start
<1>2. CASE BeginMigration(p)
  <2>1. CASE \E why : Fail(p, why)
    BY <2>1, FailLeaves DEF Step
  <2>2. CASE ~\E why : Fail(p, why)
    <3>1. PICK i \in DOMAIN MIGRATIONS :
            /\ IsNextMigration(i, procs[p].applied, procs[p].done)
            /\ ~Locked(p) /\ RunMigration(p, i)
            /\ UNCHANGED <<world, left, files, procs, connections, tickets>>
      BY <1>2, <2>2 DEF BeginMigration
    <3>2. Begins(p)
      BY <1>2, <3>1 DEF Begins, BeginMigration, RunMigration
    <3> QED
      BY <3>2 DEF Step
  <2> QED
    BY <2>1, <2>2
<1>3. CASE RecordMigration(p)
  <2>1. CASE Fail(p, "migration")
    BY <2>1, FailLeaves DEF Step
  <2>2. CASE ~Fail(p, "migration")
    <3>1. Records(p)
      BY <1>3, <2>2 DEF RecordMigration, Records
    <3> QED
      BY <3>1 DEF Step
  <2> QED
    BY <2>1, <2>2
<1>4. CASE CommitMigration(p)
  <2>1. Commits(p)
    BY <1>4 DEF CommitMigration, Commits, Others, Keeps, IsProc, At
  <2> QED
    BY <2>1 DEF Step
<1>5. CASE FinishMigrations(p)
  <2>1. Finishes(p)
    BY <1>5 DEF FinishMigrations, Goes, Finishes, Others, Keeps, IsProc, At
  <2> QED
    BY <2>1 DEF Step
<1>6. CASE MakeConfig(p) \/ SaveConfig(p) \/ ReadConfig(p) \/ EnsureDataDir(p)
  <2>1. Moves(p)
    BY <1>6 DEF MakeConfig, SaveConfig, ReadConfig, EnsureDataDir, Goes, Moves, Others, Keeps,
                IsProc, At, Before, After
  <2> QED
    BY <2>1 DEF Step
<1>7. CASE Configure(p)
  <2>1. CASE \E why : Fail(p, why)
    BY <2>1, FailLeaves DEF Step
  <2>2. CASE ~\E why : Fail(p, why)
    <3>1. PICK services :
            /\ procs' = [procs EXCEPT ![p].services = services, ![p].at = "preparing"]
            /\ UNCHANGED <<world, left, database, transaction, configFile, dataFile,
                           connections, tickets>>
      BY <1>7, <2>2 DEF Configure
    <3>2. Moves(p)
      BY <1>7, <3>1 DEF Configure, Moves, Others, Keeps, IsProc, At, Before
    <3> QED
      BY <3>2 DEF Step
  <2> QED
    BY <2>1, <2>2
<1>8. CASE ClearSessions(p)
  <2>1. CASE Fail(p, "locked")
    BY <2>1, FailLeaves DEF Step
  <2>2. CASE ~Fail(p, "locked")
    <3>1. Clears(p)
      BY <1>8, <2>2 DEF ClearSessions, Goes, Clears, Others, Keeps, IsProc, At
    <3> QED
      BY <3>1 DEF Step
  <2> QED
    BY <2>1, <2>2
<1>9. CASE Listen(p) \/ StartApi(p)
  <2>1. CASE Fail(p, "port")
    BY <2>1, FailLeaves DEF Step
  <2>2. CASE ~Fail(p, "port")
    <3>1. Moves(p)
      BY <1>9, <2>2 DEF Listen, StartApi, Goes, Moves, Others, Keeps, IsProc, At, Before, After
    <3> QED
      BY <3>1 DEF Step
  <2> QED
    BY <2>1, <2>2
<1> QED
  BY <1>1, <1>2, <1>3, <1>4, <1>5, <1>6, <1>7, <1>8, <1>9 DEF Startup

LEMMA NextSteps ==
  ASSUME Shape, [Next]_vars
  PROVE  Step
<1>1. CASE \E p \in Procs : Startup(p)
  BY <1>1, StartupSteps
<1>2. CASE \E p \in Procs : Shutdown(p) \/ Crash(p)
  BY <1>2, ExitLeaves, FailLeaves DEF Shutdown, Crash, Step
<1>3. ASSUME NEW p \in Procs, NEW i \in Serving(p), NEW u \in Users, LogIn(p, i, u)
      PROVE  Step
  <2>1. procs[p].listening > 0
    BY DEF Serving, Shape
  <2>2. PICK key :
          tickets' = tickets \union {[user |-> u, key |-> key, instance |-> procs[p].instance]}
    BY <1>3 DEF LogIn
  <2>3. Logs(p)
    BY <1>3, <2>1, <2>2 DEF Logs, LogIn
  <2> QED
    BY <2>3 DEF Step
<1>4. CASE \E r \in DOMAIN world.requests : Http(r)
  BY <1>4 DEF Http, Accept, Data, End, FileRead, Close, Deadline, Changes, Step, Quiet
<1>5. CASE UNCHANGED vars
  BY <1>5 DEF vars, Step, Quiet
<1> QED
  BY <1>1, <1>2, <1>3, <1>4, <1>5 DEF Next

LEMMA StepShape ==
  ASSUME Shape, Step
  PROVE  Shape'
<1> USE DEF Shape
<1>1. CASE Quiet
  BY <1>1 DEF Quiet
<1>2. ASSUME NEW p \in Procs, Moves(p) \/ Enters(p) \/ Finishes(p)
      PROVE  Shape'
  BY <1>2 DEF Moves, Enters, Finishes, Others, Keeps, IsDatabase
<1>3. ASSUME NEW p \in Procs, Leaves(p)
      PROVE  Shape'
  BY <1>3, NoTransactionShape DEF Leaves, Others, IsDatabase
<1>4. ASSUME NEW p \in Procs, Begins(p)
      PROVE  Shape'
  <2>1. PICK i : transaction' = [proc |-> p, database |-> Run(database, MIGRATIONS[i]),
                                 migration |-> i, recorded |-> FALSE]
    BY <1>4 DEF Begins
  <2>2. IsDatabase(Run(database, MIGRATIONS[i]))
    BY DEF Run, IsDatabase
  <2> QED
    BY <1>4, <2>1, <2>2 DEF Begins, IsDatabase
<1>5. ASSUME NEW p \in Procs, Records(p)
      PROVE  Shape'
  <2>1. IsDatabase(Record(transaction.database, MIGRATIONS[transaction.migration]))
    BY DEF Record, IsDatabase
  <2>2. DOMAIN transaction' = DOMAIN transaction
        /\ transaction'.database = Record(transaction.database, MIGRATIONS[transaction.migration])
    BY <1>5 DEF Records
  <2> QED
    BY <1>5, <2>1, <2>2 DEF Records, IsDatabase
<1>6. ASSUME NEW p \in Procs, Commits(p)
      PROVE  Shape'
  BY <1>6, NoTransactionShape DEF Commits, Others, Keeps, IsDatabase
<1>7. ASSUME NEW p \in Procs, Clears(p)
      PROVE  Shape'
  BY <1>7 DEF Clears, Others, Keeps, InvalidateSessions, IsDatabase
<1>8. ASSUME NEW p \in Procs, Logs(p)
      PROVE  Shape'
  BY <1>8 DEF Logs, IsDatabase
<1> QED
  BY <1>1, <1>2, <1>3, <1>4, <1>5, <1>6, <1>7, <1>8 DEF Step

-----------------------------------------------------------------------------
(***************************************************************************)
(* The migrations.  A transaction has the committed database and, of one   *)
(* migration, the schema and, once recorded, the row.  What a process      *)
(* read and what it committed itself is in the database for good.          *)
(***************************************************************************)
Migrating(i) ==
  /\ i \in DOMAIN MIGRATIONS
  /\ \A j \in 1 .. i - 1 : MIGRATIONS[j] \in Applied(database)

Pending ==
  /\ At(transaction.proc, "migrating")
  /\ Migrating(transaction.migration)
  /\ transaction.database.schema = database.schema \union Creates(MIGRATIONS[transaction.migration])
  /\ Applied(transaction.database) =
       Applied(database)
       \union (IF transaction.recorded THEN {MIGRATIONS[transaction.migration]} ELSE {})

Known ==
  \A p \in Procs :
    /\ ~At(p, "down") => procs[p].applied \union procs[p].done \subseteq Applied(database)
    /\ IsUp(p) => AllMigrations \subseteq Applied(database)

Whole ==
  /\ IsWhole(database)
  /\ Applied(database) \subseteq AllMigrations
  /\ Known
  /\ transaction.proc \in Procs => Pending

LEMMA AppliedRecord ==
  ASSUME NEW d, IsDatabase(d), NEW m
  PROVE  /\ Applied(Record(d, m)) = Applied(d) \union {m}
         /\ Record(d, m).schema = d.schema
<1>1. Record(d, m).schema = d.schema /\ Record(d, m).rows = d.rows \union {Row(m, TRUE)}
  BY DEF IsDatabase, Record
<1>2. Row(m, TRUE).migration = m
  BY DEF Row
<1> QED
  BY <1>1, <1>2 DEF Applied

LEMMA RunKeeps ==
  ASSUME NEW d, IsDatabase(d), NEW m
  PROVE  /\ Applied(Run(d, m)) = Applied(d)
         /\ Run(d, m).schema = d.schema \union Creates(m)
BY DEF IsDatabase, Applied, Run

LEMMA ClearKeeps ==
  ASSUME NEW d, IsDatabase(d)
  PROVE  /\ Applied(InvalidateSessions(d)) = Applied(d)
         /\ InvalidateSessions(d).schema = d.schema
BY DEF IsDatabase, Applied, InvalidateSessions

LEMMA MigrationsDiffer ==
  /\ DOMAIN MIGRATIONS = 1 .. 5
  /\ \A i, j \in DOMAIN MIGRATIONS : MIGRATIONS[i] = MIGRATIONS[j] => i = j
<1>1. DOMAIN MIGRATIONS = 1 .. 5
  BY DEF MIGRATIONS
<1>2. /\ MIGRATIONS[1] = "init" /\ MIGRATIONS[2] = "add sample" /\ MIGRATIONS[3] = "invites"
      /\ MIGRATIONS[4] = "sessions" /\ MIGRATIONS[5] = "user logout"
  BY DEF MIGRATIONS
<1>3. \A i \in 1 .. 5 : i = 1 \/ i = 2 \/ i = 3 \/ i = 4 \/ i = 5
  OBVIOUS
<1> HIDE DEF MIGRATIONS
<1> QED
  BY <1>1, <1>2, <1>3

\* A whole database stays whole with one more migration, when those before it are there.
LEMMA OneMoreIsWhole ==
  ASSUME NEW d, NEW e, IsWhole(d), NEW i \in DOMAIN MIGRATIONS,
         \A j \in 1 .. i - 1 : MIGRATIONS[j] \in Applied(d),
         e.schema = d.schema \union Creates(MIGRATIONS[i]),
         Applied(e) = Applied(d) \union {MIGRATIONS[i]}
  PROVE  IsWhole(e)
<1>1. e.schema = UNION {Creates(m) : m \in Applied(e)}
  <2> DEFINE S == Applied(d)
             n == MIGRATIONS[i]
  <2>1. UNION {Creates(m) : m \in S \union {n}}
          = (UNION {Creates(m) : m \in S}) \union Creates(n)
    <3> HIDE DEF S, n
    <3>1. ASSUME NEW x
          PROVE  x \in UNION {Creates(m) : m \in S \union {n}}
                 <=> x \in (UNION {Creates(m) : m \in S}) \/ x \in Creates(n)
      <4>1. x \in UNION {Creates(m) : m \in S \union {n}}
            <=> \E m \in S \union {n} : x \in Creates(m)
        OBVIOUS
      <4>2. x \in UNION {Creates(m) : m \in S} <=> \E m \in S : x \in Creates(m)
        OBVIOUS
      <4> QED
        BY <4>1, <4>2
    <3> QED
      BY <3>1
  <2> QED
    BY <2>1 DEF IsWhole
<1>2. ASSUME NEW k \in DOMAIN MIGRATIONS, MIGRATIONS[k] \in Applied(e), NEW j \in 1 .. k - 1
      PROVE  MIGRATIONS[j] \in Applied(e)
  <2>1. CASE MIGRATIONS[k] \in Applied(d)
    BY <1>2, <2>1 DEF IsWhole
  <2>2. CASE MIGRATIONS[k] = MIGRATIONS[i]
    <3>1. k = i
      BY <2>2, MigrationsDiffer
    <3> QED
      BY <1>2, <3>1
  <2> QED
    BY <1>2, <2>1, <2>2
<1> QED
  BY <1>1, <1>2 DEF IsWhole

LEMMA WholeSame ==
  ASSUME NEW d, NEW e, IsWhole(d), e.schema = d.schema, Applied(e) = Applied(d)
  PROVE  IsWhole(e)
BY DEF IsWhole

\* With nothing to apply, everything is applied.
LEMMA NothingToApply ==
  ASSUME NEW applied, NEW done, ToApply(applied, done) = {}
  PROVE  AllMigrations \subseteq applied \union done
BY DEF ToApply, AllMigrations

LEMMA NextIsInOrder ==
  ASSUME NEW applied, NEW done, NEW i \in DOMAIN MIGRATIONS, IsNextMigration(i, applied, done)
  PROVE  \A j \in 1 .. i - 1 : MIGRATIONS[j] \in applied \union done
BY MigrationsDiffer DEF IsNextMigration, ToApply

LEMMA WholeInit ==
  ASSUME Init, ~IsRefused(world.database)
  PROVE  Whole
<1>1. IsWhole(database) /\ Applied(database) \subseteq AllMigrations
  BY ProcessAssumption DEF Init
<1>2. transaction.proc \notin Procs
  BY ProcessAssumption DEF Init
<1>3. \A p \in Procs : At(p, "down")
  <2>1. procs = [p \in Procs |-> Down("")] /\ Down("").at = "down"
    BY DownShape DEF Init
  <2> QED
    BY <2>1 DEF At
<1> QED
  BY <1>1, <1>2, <1>3 DEF Whole, Known, IsUp

LEMMA WholeStep ==
  ASSUME Shape, Whole, Step
  PROVE  Whole'
<1>1. CASE Quiet
  BY <1>1 DEF Quiet, Whole, Known, Pending, Migrating, IsUp, At
<1>2. ASSUME NEW p \in Procs, Moves(p)
      PROVE  Whole'
  <2>1. transaction.proc # p
    BY <1>2 DEF Whole, Pending, At, Moves, Before, After
  <2>2. /\ procs[p].at # "down" /\ procs[p].at # "migrating"
        /\ procs'[p].applied = procs[p].applied /\ procs'[p].done = procs[p].done
    BY <1>2 DEF Moves, Keeps, Before, After
  <2>3. \A q \in Procs \ {p} : procs'[q] = procs[q]
    BY <1>2 DEF Moves, Others
  <2>4. UNCHANGED <<database, transaction>>
    BY <1>2 DEF Moves
  <2>5. Known'
    BY <2>2, <2>3, <2>4 DEF Whole, Known, IsUp, At
  <2> QED
    BY <2>1, <2>3, <2>4, <2>5 DEF Whole, Pending, Migrating, At
<1>3. ASSUME NEW p \in Procs, Leaves(p)
      PROVE  Whole'
  <2>1. \A q \in Procs \ {p} : procs'[q] = procs[q]
    BY <1>3 DEF Leaves, Others
  <2>2. procs'[p].at = "down" /\ UNCHANGED database
    BY <1>3 DEF Leaves
  <2>3. Known'
    BY <2>1, <2>2 DEF Whole, Known, IsUp, At
  <2>4. (transaction.proc \in Procs => Pending)'
    <3>1. CASE transaction.proc = p
      BY <1>3, <3>1, ProcessAssumption DEF Leaves
    <3>2. CASE transaction.proc # p
      BY <1>3, <2>1, <2>2, <3>2 DEF Leaves, Whole, Pending, Migrating, At
    <3> QED
      BY <3>1, <3>2
  <2> QED
    BY <2>2, <2>3, <2>4 DEF Whole
<1>4. ASSUME NEW p \in Procs, Enters(p)
      PROVE  Whole'
  <2>1. \A q \in Procs \ {p} : procs'[q] = procs[q]
    BY <1>4 DEF Enters, Others
  <2>2. /\ procs'[p].at = "migrating"
        /\ procs'[p].applied = Applied(database) /\ procs'[p].done = {}
        /\ UNCHANGED <<database, transaction>>
    BY <1>4 DEF Enters
  <2>3. Known'
    BY <2>1, <2>2 DEF Whole, Known, IsUp, At
  <2> QED
    BY <1>4, <2>1, <2>2, <2>3 DEF Enters, Whole, Pending, Migrating, At
<1>5. ASSUME NEW p \in Procs, Begins(p)
      PROVE  Whole'
  <2>1. PICK i \in DOMAIN MIGRATIONS :
          /\ IsNextMigration(i, procs[p].applied, procs[p].done)
          /\ transaction' = [proc |-> p, database |-> Run(database, MIGRATIONS[i]),
                             migration |-> i, recorded |-> FALSE]
    BY <1>5 DEF Begins
  <2>2. UNCHANGED <<database, procs>> /\ At(p, "migrating")
    BY <1>5 DEF Begins
  <2>3. \A j \in 1 .. i - 1 : MIGRATIONS[j] \in Applied(database)
    <3>1. procs[p].applied \union procs[p].done \subseteq Applied(database)
      BY <2>2 DEF Whole, Known, At
    <3>2. \A j \in 1 .. i - 1 : MIGRATIONS[j] \in procs[p].applied \union procs[p].done
      BY <2>1, NextIsInOrder
    <3> QED
      BY <3>1, <3>2
  <2>4. /\ Applied(Run(database, MIGRATIONS[i])) = Applied(database)
        /\ Run(database, MIGRATIONS[i]).schema = database.schema \union Creates(MIGRATIONS[i])
    BY RunKeeps DEF Shape
  <2>5. Known'
    BY <2>2 DEF Whole, Known, IsUp, At
  <2>6. Pending'
    BY <2>1, <2>2, <2>3, <2>4 DEF Pending, Migrating, At
  <2> QED
    BY <2>2, <2>5, <2>6 DEF Whole
<1>6. ASSUME NEW p \in Procs, Records(p)
      PROVE  Whole'
  <2> DEFINE m == MIGRATIONS[transaction.migration]
  <2>1. /\ transaction'.proc = p /\ transaction.proc = p
        /\ transaction'.migration = transaction.migration
        /\ transaction'.database = Record(transaction.database, m)
        /\ transaction'.recorded = TRUE
    BY <1>6 DEF Records, Shape
  <2>2. UNCHANGED <<database, procs>>
    BY <1>6 DEF Records
  <2>3. Pending
    BY <2>1 DEF Whole
  <2>4. /\ Applied(Record(transaction.database, m)) = Applied(transaction.database) \union {m}
        /\ Record(transaction.database, m).schema = transaction.database.schema
    BY AppliedRecord DEF Shape
  <2>5. Applied(transaction'.database) = Applied(database) \union {m}
    BY <2>1, <2>3, <2>4 DEF Pending
  <2>6. Pending'
    BY <2>1, <2>2, <2>3, <2>4, <2>5 DEF Pending, Migrating, At
  <2>7. Known'
    BY <2>2 DEF Whole, Known, IsUp, At
  <2> QED
    BY <2>2, <2>6, <2>7 DEF Whole
<1>7. ASSUME NEW p \in Procs, Commits(p)
      PROVE  Whole'
  <2> DEFINE m == MIGRATIONS[transaction.migration]
  <2>1. Pending /\ transaction.proc = p /\ transaction.recorded
    BY <1>7 DEF Commits, Whole
  <2>2. /\ database' = transaction.database /\ transaction' = NoTransaction
        /\ \A q \in Procs \ {p} : procs'[q] = procs[q]
        /\ procs'[p].at = "migrating"
        /\ procs'[p].applied = procs[p].applied
        /\ procs'[p].done = procs[p].done \union {m}
    BY <1>7 DEF Commits, Others, Keeps
  <2>3. /\ transaction.migration \in DOMAIN MIGRATIONS
        /\ \A j \in 1 .. transaction.migration - 1 : MIGRATIONS[j] \in Applied(database)
        /\ transaction.database.schema = database.schema \union Creates(m)
        /\ Applied(transaction.database) = Applied(database) \union {m}
    BY <2>1 DEF Pending, Migrating
  <2>4. IsWhole(transaction.database)
    <3> HIDE DEF m
    <3>1. IsWhole(database)
      BY DEF Whole
    <3> QED
      BY <2>3, <3>1, OneMoreIsWhole DEF m
  <2>5. Applied(transaction.database) \subseteq AllMigrations
    BY <2>3 DEF Whole, AllMigrations
  <2>6. Known'
    <3>1. Applied(database) \subseteq Applied(transaction.database)
          /\ m \in Applied(transaction.database)
      BY <2>3
    <3>2. ASSUME NEW q \in Procs
          PROVE  /\ procs'[q].at # "down" =>
                      procs'[q].applied \union procs'[q].done \subseteq Applied(transaction.database)
                 /\ procs'[q].at # "down" /\ procs'[q].at # "migrating" =>
                      AllMigrations \subseteq Applied(transaction.database)
      <4>1. CASE q = p
        BY <2>1, <2>2, <3>1, <4>1 DEF Whole, Known, Pending, At
      <4>2. CASE q # p
        BY <2>2, <3>1, <4>2 DEF Whole, Known, IsUp, At
      <4> QED
        BY <4>1, <4>2
    <3> QED
      BY <2>2, <3>2 DEF Known, IsUp, At
  <2>7. (transaction.proc \notin Procs)'
    BY <2>2, ProcessAssumption
  <2> QED
    BY <2>2, <2>4, <2>5, <2>6, <2>7 DEF Whole
<1>8. ASSUME NEW p \in Procs, Finishes(p)
      PROVE  Whole'
  <2>1. /\ \A q \in Procs \ {p} : procs'[q] = procs[q]
        /\ procs'[p].at = "configuring"
        /\ procs'[p].applied = procs[p].applied /\ procs'[p].done = procs[p].done
        /\ UNCHANGED <<database, transaction>>
        /\ transaction.proc # p
    BY <1>8 DEF Finishes, Others, Keeps
  <2>2. /\ AllMigrations \subseteq procs[p].applied \union procs[p].done
        /\ procs[p].applied \union procs[p].done \subseteq Applied(database)
    BY <1>8, NothingToApply DEF Finishes, Whole, Known, At
  <2>3. Known'
    BY <2>1, <2>2 DEF Whole, Known, IsUp, At
  <2> QED
    BY <2>1, <2>3 DEF Whole, Pending, Migrating, At
<1>9. ASSUME NEW p \in Procs, Clears(p)
      PROVE  Whole'
  <2>1. /\ \A q \in Procs \ {p} : procs'[q] = procs[q]
        /\ procs[p].at = "clearing" /\ procs'[p].at = "listening"
        /\ procs'[p].applied = procs[p].applied /\ procs'[p].done = procs[p].done
        /\ database' = InvalidateSessions(database) /\ UNCHANGED transaction
    BY <1>9 DEF Clears, Others, Keeps, At
  <2>2. Applied(database') = Applied(database) /\ database'.schema = database.schema
    BY <2>1, ClearKeeps DEF Shape
  <2>3. IsWhole(database')
    BY <2>2, WholeSame DEF Whole
  <2>4. transaction.proc # p
    BY <2>1 DEF Whole, Pending, At
  <2>5. Known'
    BY <2>1, <2>2 DEF Whole, Known, IsUp, At
  <2> QED
    BY <2>1, <2>2, <2>3, <2>4, <2>5 DEF Whole, Pending, Migrating, At
<1>10. ASSUME NEW p \in Procs, Logs(p)
       PROVE  Whole'
  <2>1. database'.schema = database.schema /\ database'.rows = database.rows
    BY <1>10 DEF Logs, Shape, IsDatabase
  <2>2. Applied(database') = Applied(database)
    BY <2>1 DEF Applied
  <2>3. IsWhole(database')
    BY <2>1, <2>2, WholeSame DEF Whole
  <2>4. UNCHANGED <<procs, transaction>> /\ transaction = NoTransaction
    BY <1>10 DEF Logs
  <2>5. Known'
    BY <2>2, <2>4 DEF Whole, Known, IsUp, At
  <2> QED
    BY <2>2, <2>3, <2>4, <2>5, ProcessAssumption DEF Whole
<1> QED
  BY <1>1, <1>2, <1>3, <1>4, <1>5, <1>6, <1>7, <1>8, <1>9, <1>10 DEF Step

LEMMA StepKeepsWorld ==
  ASSUME Step
  PROVE  UNCHANGED world
BY DEF Step, Quiet, Moves, Leaves, Enters, Begins, Records, Commits, Finishes, Clears, Logs

LEMMA ShapeIsKept == Spec => []Shape
<1>1. Shape /\ [Next]_vars => Shape'
  BY NextSteps, StepShape
<1> QED
  BY InitShape, <1>1, PTL DEF Spec

\* What _sqlx_migrations records is what the schema has, in order, and a process goes on
\* to its config only with all migrations applied: whatever number of processes
\* runs the migrations at once and wherever they are killed.
THEOREM MigrationsApplyWhole == Spec => []MigrationsAreWhole
<1> DEFINE Inv == ~IsRefused(world.database) => Whole
<1>1. Init => Inv
  BY WholeInit
<1>2. Shape /\ Inv /\ [Next]_vars => Inv'
  <2> SUFFICES ASSUME Shape, Inv, [Next]_vars PROVE Inv'
    OBVIOUS
  <2>1. Step /\ UNCHANGED world
    BY NextSteps, StepKeepsWorld
  <2> QED
    BY <2>1, WholeStep
<1>3. Inv => MigrationsAreWhole
  BY DEF Whole, Known, MigrationsAreWhole
<1> QED
  BY <1>1, <1>2, <1>3, ShapeIsKept, PTL DEF Spec

-----------------------------------------------------------------------------
(***************************************************************************)
(* The sessions.  A server that is alone on its database has cleared it    *)
(* before the first of its services listens, and from then on only its own *)
(* logins make sessions.                                                   *)
(***************************************************************************)
IsOwn(u, instance) == \E t \in tickets : t.user = u /\ t.instance = instance

Fresh ==
  /\ \A p, q \in Procs : ~At(p, "down") /\ ~At(q, "down") => p = q
  /\ \A p \in Procs : procs[p].listening > 0 => procs[p].at \in After
  /\ \A p \in Procs : procs[p].at \in After =>
       \A u \in database.sessions : IsOwn(u, procs[p].instance)

LEMMA FreshInit ==
  ASSUME Init
  PROVE  Fresh
<1>1. \A p \in Procs : procs[p].at = "down" /\ procs[p].listening = 0
  <2>1. \A p \in Procs : procs[p] = Down("")
    BY DEF Init
  <2> QED
    BY <2>1, DownShape
<1> QED
  BY <1>1 DEF Fresh, At, After

LEMMA FreshStep ==
  ASSUME Shape, Fresh, Step, ~world.overlap
  PROVE  Fresh'
<1>1. CASE Quiet
  BY <1>1 DEF Quiet, Fresh, IsOwn, At
<1>2. ASSUME NEW p \in Procs, Moves(p)
      PROVE  Fresh'
  <2>1. /\ \A q \in Procs \ {p} : procs'[q] = procs[q]
        /\ procs[p].at # "down" /\ procs'[p].at # "down"
        /\ procs'[p].instance = procs[p].instance
        /\ procs'[p].at \in After <=> procs[p].at \in After
        /\ procs'[p].at \in After \/ procs'[p].listening = procs[p].listening
        /\ UNCHANGED <<database, tickets>>
    BY <1>2 DEF Moves, Others, Keeps, Before, After
  <2> QED
    BY <2>1 DEF Fresh, IsOwn, At
<1>3. ASSUME NEW p \in Procs, Leaves(p)
      PROVE  Fresh'
  BY <1>3 DEF Leaves, Others, Fresh, IsOwn, At, After
<1>4. ASSUME NEW p \in Procs, Enters(p)
      PROVE  Fresh'
  BY <1>4 DEF Enters, Others, Fresh, IsOwn, At, After
<1>5. ASSUME NEW p \in Procs, Begins(p) \/ Records(p)
      PROVE  Fresh'
  BY <1>5 DEF Begins, Records, Fresh, IsOwn, At
<1>6. ASSUME NEW p \in Procs, Commits(p)
      PROVE  Fresh'
  <2>1. /\ \A q \in Procs \ {p} : procs'[q] = procs[q]
        /\ procs[p].at = "migrating" /\ procs'[p].at = "migrating"
        /\ procs'[p].listening = procs[p].listening
    BY <1>6 DEF Commits, Others, At
  <2>2. \A q \in Procs : procs'[q].at \notin After
    BY <2>1 DEF Fresh, At, After
  <2> QED
    BY <2>1, <2>2 DEF Fresh, At
<1>7. ASSUME NEW p \in Procs, Finishes(p)
      PROVE  Fresh'
  BY <1>7 DEF Finishes, Others, Keeps, Fresh, IsOwn, At, After
<1>8. ASSUME NEW p \in Procs, Clears(p)
      PROVE  Fresh'
  <2>1. /\ \A q \in Procs \ {p} : procs'[q] = procs[q]
        /\ procs[p].at = "clearing" /\ procs'[p].at = "listening"
    BY <1>8 DEF Clears, Others, At
  <2>2. database'.sessions = {}
    BY <1>8 DEF Clears, InvalidateSessions, Shape, IsDatabase
  <2> QED
    BY <2>1, <2>2 DEF Fresh, At, After
<1>9. ASSUME NEW p \in Procs, Logs(p)
      PROVE  Fresh'
  <2>1. PICK u, key :
          /\ database' = [database EXCEPT !.sessions = @ \union {u}]
          /\ tickets' = tickets \union {[user |-> u, key |-> key, instance |-> procs[p].instance]}
    BY <1>9 DEF Logs
  <2>2. UNCHANGED procs /\ procs[p].listening > 0
    BY <1>9 DEF Logs
  <2>3. database'.sessions = database.sessions \union {u}
    BY <2>1 DEF Shape, IsDatabase
  <2>4. \A v, n : IsOwn(v, n) => IsOwn(v, n)'
    BY <2>1 DEF IsOwn
  <2>5. IsOwn(u, procs[p].instance)'
    <3> DEFINE t == [user |-> u, key |-> key, instance |-> procs[p].instance]
    <3>1. t \in tickets' /\ t.user = u /\ t.instance = procs[p].instance
      BY <2>1
    <3>2. procs'[p].instance = procs[p].instance
      BY <2>2
    <3> QED
      BY <3>1, <3>2 DEF IsOwn
  <2>6. \A q \in Procs : procs[q].at \in After => q = p
    BY <2>2 DEF Fresh, At, After
  <2> QED
    BY <2>2, <2>3, <2>4, <2>5, <2>6 DEF Fresh, At
<1> QED
  BY <1>1, <1>2, <1>3, <1>4, <1>5, <1>6, <1>7, <1>8, <1>9 DEF Step

\* Where one server at a time uses the database: once one of its services listens, who is
\* in a session logged in to this run of the server. A crash or a shutdown leaves its
\* sessions behind and the next run does not take them over.
THEOREM SessionsOfThisRun == Spec => []SessionsAreFresh
<1> DEFINE Inv == ~world.overlap => Fresh
<1>1. Init => Inv
  BY FreshInit
<1>2. Shape /\ Inv /\ [Next]_vars => Inv'
  <2> SUFFICES ASSUME Shape, Inv, [Next]_vars PROVE Inv'
    OBVIOUS
  <2>1. Step /\ UNCHANGED world
    BY NextSteps, StepKeepsWorld
  <2> QED
    BY <2>1, FreshStep
<1>3. Inv => SessionsAreFresh
  BY DEF Fresh, IsOwn, SessionsAreFresh
<1> QED
  BY <1>1, <1>2, <1>3, ShapeIsKept, PTL DEF Spec

-----------------------------------------------------------------------------
(***************************************************************************)
(* The list of services.  Naming each once is a fold: its table gives what *)
(* each part of the list comes to.                                         *)
(***************************************************************************)
SeeTable(names, S, g) ==
  g = [T \in S |-> IF T = {} THEN << >> ELSE See(g[T \ {Max(T)}], names[Max(T)])]

LEMMA SeeTableExists ==
  ASSUME NEW names, NEW n \in Nat
  PROVE  \E g : SeeTable(names, SUBSET (1 .. n), g)
<1> DEFINE S == 1 .. n
           Ns == {k \in Nat : \E g : SeeTable(names, UpTo(S, k), g)}
<1>1. 0 \in Ns
  <2> DEFINE g == [T \in UpTo(S, 0) |-> << >>]
  <2>1. \A T \in UpTo(S, 0) : T = {}
    BY IntervalIsFinite, OnlyEmptySet
  <2>2. g = [T \in UpTo(S, 0) |-> IF T = {} THEN << >>
                                  ELSE See(g[T \ {Max(T)}], names[Max(T)])]
    BY <2>1
  <2> HIDE DEF g
  <2>3. SeeTable(names, UpTo(S, 0), g)
    BY <2>2, Zenon DEF SeeTable
  <2> QED
    BY <2>3
<1>2. ASSUME NEW k \in Nat, k \in Ns PROVE k + 1 \in Ns
  <2>1. PICK g : SeeTable(names, UpTo(S, k), g)
    BY <1>2
  <2> DEFINE h == [T \in UpTo(S, k + 1) |->
                     IF T = {} THEN << >> ELSE See(g[T \ {Max(T)}], names[Max(T)])]
  <2>2. ASSUME NEW T \in UpTo(S, k + 1), T # {}
        PROVE  /\ T \ {Max(T)} \in UpTo(S, k)
               /\ T \ {Max(T)} \in UpTo(S, k + 1)
    BY <2>2, WithoutMax
  <2>3. \A T \in UpTo(S, k) :
          g[T] = IF T = {} THEN << >> ELSE See(g[T \ {Max(T)}], names[Max(T)])
    BY <2>1, Zenon DEF SeeTable
  <2>4. \A T \in UpTo(S, k) : T \in UpTo(S, k + 1) => h[T] = g[T]
    BY <2>3, Zenon
  <2>5. h = [T \in UpTo(S, k + 1) |->
               IF T = {} THEN << >> ELSE See(h[T \ {Max(T)}], names[Max(T)])]
    <3>1. ASSUME NEW T \in UpTo(S, k + 1), T # {}
          PROVE  h[T \ {Max(T)}] = g[T \ {Max(T)}]
      BY <2>2, <2>4, <3>1, Zenon
    <3> QED
      BY <3>1, Zenon
  <2> HIDE DEF h
  <2>6. SeeTable(names, UpTo(S, k + 1), h)
    BY <2>5, Zenon DEF SeeTable
  <2> QED
    BY <2>6
<1>3. Nat \subseteq Ns
  <2> HIDE DEF Ns
  <2> QED
    BY <1>1, <1>2, NatSetInduction
<1>4. UpTo(S, n) = SUBSET S
  BY UpToAll
<1> QED
  BY <1>3, <1>4

\* The fold is found in it.
LEMMA SeeTableOfFold ==
  ASSUME NEW names, IsSeq(names)
  PROVE  \E g : SeeTable(names, SUBSET (1 .. Len(names)), g) /\ Unique(names) = g[1 .. Len(names)]
<1> DEFINE S == 1 .. Len(names)
           iter == CHOOSE h : h = [T \in SUBSET S |-> IF T = {} THEN << >>
                                     ELSE See(h[T \ {Max(T)}], names[Max(T)])]
<1>1. DOMAIN names = S /\ Len(names) \in Nat
  BY SeqDomain
<1>2. Unique(names) = iter[S]
  <2> HIDE DEF S
  <2> QED
    BY <1>1, Zenon DEF Unique, FoldLeft, MapThenFoldSet
<1>3. \E g : SeeTable(names, SUBSET S, g)
  BY <1>1, SeeTableExists
<1>4. SeeTable(names, SUBSET S, iter)
  <2> HIDE DEF S
  <2> QED
    BY <1>3, Zenon DEF SeeTable
<1> QED
  BY <1>2, <1>4

\* A list of different names, all of them from the file.
IsListing(q, names) ==
  /\ IsSeq(q)
  /\ \A i, j \in 1 .. Len(q) : q[i] = q[j] => i = j
  /\ \A i \in 1 .. Len(q) : \E j \in 1 .. Len(names) : q[i] = names[j]

LEMMA SeeIsListing ==
  ASSUME NEW q, NEW names, IsListing(q, names), NEW j \in 1 .. Len(names)
  PROVE  IsListing(See(q, names[j]), names)
<1>1. CASE Contains(q, names[j])
  BY <1>1 DEF See
<1>2. CASE ~Contains(q, names[j])
  <2> DEFINE r == Append(q, names[j])
  <2>1. /\ IsSeq(r) /\ Len(r) = Len(q) + 1
        /\ \A i \in 1 .. Len(q) : r[i] = q[i]
        /\ r[Len(q) + 1] = names[j]
    BY SeqAppend DEF IsListing
  <2>2. Len(q) \in Nat
    BY SeqDomain DEF IsListing
  <2>3. \A i \in 1 .. Len(q) : q[i] # names[j]
    BY <1>2 DEF Contains
  <2>4. See(q, names[j]) = r
    BY <1>2 DEF See
  <2> HIDE DEF r
  <2>5. \A i \in 1 .. Len(r) : i \in 1 .. Len(q) \/ i = Len(q) + 1
    BY <2>1, <2>2
  <2>6. \A i, k \in 1 .. Len(r) : r[i] = r[k] => i = k
    BY <2>1, <2>3, <2>5 DEF IsListing
  <2>7. \A i \in 1 .. Len(r) : \E k \in 1 .. Len(names) : r[i] = names[k]
    BY <2>1, <2>5 DEF IsListing
  <2> QED
    BY <2>1, <2>4, <2>6, <2>7 DEF IsListing
<1> QED
  BY <1>1, <1>2

LEMMA UniqueIsListing ==
  ASSUME NEW names, IsSeq(names)
  PROVE  IsListing(Unique(names), names)
<1>1. PICK n \in Nat : n = Len(names)
  BY SeqDomain
<1>2. PICK g : SeeTable(names, SUBSET (1 .. n), g) /\ Unique(names) = g[1 .. n]
  BY <1>1, SeeTableOfFold
<1>3. \A T \in SUBSET (1 .. n) :
        g[T] = IF T = {} THEN << >> ELSE See(g[T \ {Max(T)}], names[Max(T)])
  BY <1>2, Zenon DEF SeeTable
<1> DEFINE Ns == {k \in Nat : k <= n => IsListing(g[1 .. k], names)}
<1>4. 0 \in Ns
  <2>1. 1 .. 0 = {}
    OBVIOUS
  <2>2. g[1 .. 0] = << >>
    BY <1>3, <2>1
  <2>3. IsListing(<< >>, names)
    <3>1. IsSeq(<< >>) /\ 1 .. Len(<< >>) = {}
      BY SeqEmpty
    <3> QED
      BY <3>1 DEF IsListing
  <2> QED
    BY <2>2, <2>3
<1>5. ASSUME NEW k \in Nat, k \in Ns PROVE k + 1 \in Ns
  <2> SUFFICES ASSUME k + 1 <= n PROVE IsListing(g[1 .. k + 1], names)
    OBVIOUS
  <2>1. 1 .. k + 1 \in SUBSET (1 .. n) /\ 1 .. k + 1 # {}
    OBVIOUS
  <2>2. Max(1 .. k + 1) = k + 1
    <3>1. Max(1 .. k + 1) \in 1 .. k + 1 /\ \A i \in 1 .. k + 1 : i <= Max(1 .. k + 1)
      BY <2>1, MaxIsIn
    <3> QED
      BY <3>1
  <2>3. (1 .. k + 1) \ {k + 1} = 1 .. k
    OBVIOUS
  <2>4. g[1 .. k + 1] = See(g[1 .. k], names[k + 1])
    BY <1>3, <2>1, <2>2, <2>3
  <2>5. IsListing(g[1 .. k], names)
    BY <1>5
  <2>6. k + 1 \in 1 .. Len(names)
    BY <1>1
  <2> QED
    BY <2>4, <2>5, <2>6, SeeIsListing
<1>6. Nat \subseteq Ns
  <2> HIDE DEF Ns
  <2> QED
    BY <1>4, <1>5, NatSetInduction
<1> QED
  BY <1>1, <1>2, <1>6

-----------------------------------------------------------------------------
(***************************************************************************)
(* What parsing a file gives: one service for each name in the list.  It   *)
(* depends on the shared ticket key in the ticket keys only.               *)
(***************************************************************************)
ServiceTypes == {"authentication", "secure", "config", "content"}

IsService(service) ==
  /\ DOMAIN service = DOMAIN Table
  /\ service.type \in ServiceTypes
  /\ IsAddress(service.secureServerAddr) /\ IsAddress(service.storageHost)
  /\ IsAddress(service.sandboxUrl) /\ IsAddress(service.sandboxUrlWS)

\* Services that differ in nothing but their ticket key.
Alike(service, other) ==
  /\ service.type = other.type /\ service.listen = other.listen
  /\ service.secureServerAddr = other.secureServerAddr
  /\ service.storageHost = other.storageHost
  /\ service.sandboxUrl = other.sandboxUrl /\ service.sandboxUrlWS = other.sandboxUrlWS
  /\ service.unmatched = other.unmatched

TableOf(file, i) == file.service[Unique(file.services)[i]]

LEMMA ListedNames ==
  ASSUME NEW file, IsText(file)
  PROVE  /\ IsListing(Unique(file.services), file.services)
         /\ DOMAIN Unique(file.services) = 1 .. Len(Unique(file.services))
         /\ Len(Unique(file.services)) \in Nat
<1>1. IsSeq(file.services)
  BY DEF IsText, IsSeq
<1>2. IsListing(Unique(file.services), file.services)
  BY <1>1, UniqueIsListing
<1> QED
  BY <1>2, SeqDomain DEF IsListing

LEMMA ListedTables ==
  ASSUME NEW file, IsText(file), IsConfig(file), NEW i \in DOMAIN Unique(file.services)
  PROVE  /\ Unique(file.services)[i] \in DOMAIN file.service
         /\ IsTable(TableOf(file, i))
         /\ DOMAIN TableOf(file, i) = DOMAIN Table
         /\ IsAddress(TableOf(file, i).secureServerAddr) /\ IsAddress(TableOf(file, i).storageHost)
         /\ IsAddress(TableOf(file, i).sandboxUrl) /\ IsAddress(TableOf(file, i).sandboxUrlWS)
<1>1. PICK j \in 1 .. Len(file.services) : Unique(file.services)[i] = file.services[j]
  BY ListedNames DEF IsListing
<1>2. DOMAIN file.services = 1 .. Len(file.services)
  <2>1. IsSeq(file.services)
    BY DEF IsText, IsSeq
  <2> QED
    BY <2>1, SeqDomain
<1>3. PICK name : name = file.services[j] /\ name \in DOMAIN file.service
                  /\ IsTable(file.service[name])
  BY <1>2 DEF IsConfig
<1>4. TableOf(file, i) = file.service[name]
  BY <1>1, <1>3 DEF TableOf
<1> QED
  BY <1>1, <1>3, <1>4 DEF IsText

LEMMA TableFields ==
  /\ DOMAIN Table = {"type", "wellFormed", "ticketKey", "listen", "secureServerAddr",
                     "storageHost", "sandboxUrl", "sandboxUrlWS", "unmatched"}
BY DEF Table

LEMMA ParsedService ==
  ASSUME NEW table, DOMAIN table = DOMAIN Table, NEW key
  PROVE  /\ DOMAIN ParseService(table, key) = DOMAIN Table
         /\ ParseService(table, key).type = TypeOf(table)
         /\ ParseService(table, key).ticketKey =
              IF IsQuazal(TypeOf(table)) THEN TicketKey(table, key) ELSE NoKey
         /\ ParseService(table, key).listen =
              IF table.listen = NoAddress THEN Everywhere(9999) ELSE table.listen
         /\ ParseService(table, key).secureServerAddr = table.secureServerAddr
         /\ ParseService(table, key).storageHost = table.storageHost
         /\ ParseService(table, key).sandboxUrl = table.sandboxUrl
         /\ ParseService(table, key).sandboxUrlWS = table.sandboxUrlWS
         /\ ParseService(table, key).unmatched = table.unmatched
<1>1. PICK type, ticketKey :
        /\ type = TypeOf(table)
        /\ ticketKey = IF IsQuazal(TypeOf(table)) THEN TicketKey(table, key) ELSE NoKey
  OBVIOUS
<1>2. ParseService(table, key) =
        [table EXCEPT !.type = type, !.ticketKey = ticketKey,
                      !.listen = IF @ = NoAddress THEN Everywhere(9999) ELSE @]
  BY <1>1 DEF ParseService
<1> QED
  BY <1>1, <1>2, TableFields

LEMMA ParsedServices ==
  ASSUME NEW file, IsText(file), IsConfig(file), NEW key
  PROVE  /\ DOMAIN ParseConfig(file, key) = DOMAIN Unique(file.services)
         /\ \A i \in DOMAIN Unique(file.services) :
              /\ ParseConfig(file, key)[i] = ParseService(TableOf(file, i), key)
              /\ IsService(ParseConfig(file, key)[i])
<1>1. DOMAIN ParseConfig(file, key) = DOMAIN Unique(file.services)
  BY DEF ParseConfig
<1>2. ASSUME NEW i \in DOMAIN Unique(file.services)
      PROVE  ParseConfig(file, key)[i] = ParseService(TableOf(file, i), key)
  BY Zenon DEF ParseConfig, TableOf
<1>3. ASSUME NEW i \in DOMAIN Unique(file.services)
      PROVE  IsService(ParseService(TableOf(file, i), key))
  <2>1. PICK table : table = TableOf(file, i)
    OBVIOUS
  <2>2. /\ IsTable(table) /\ DOMAIN table = DOMAIN Table
        /\ IsAddress(table.secureServerAddr) /\ IsAddress(table.storageHost)
        /\ IsAddress(table.sandboxUrl) /\ IsAddress(table.sandboxUrlWS)
    BY <2>1, ListedTables
  <2>3. TypeOf(table) \in ServiceTypes
    BY <2>2 DEF IsTable, ServiceTypes
  <2> QED
    BY <2>1, <2>2, <2>3, ParsedService DEF IsService
<1> QED
  BY <1>1, <1>2, <1>3

LEMMA ParsedAlike ==
  ASSUME NEW file, IsText(file), IsConfig(file), NEW key, NEW other,
         NEW i \in DOMAIN Unique(file.services)
  PROVE  Alike(ParseConfig(file, key)[i], ParseConfig(file, other)[i])
<1>1. PICK table : table = TableOf(file, i)
  OBVIOUS
<1>2. DOMAIN table = DOMAIN Table
  BY <1>1, ListedTables
<1>3. Alike(ParseService(table, key), ParseService(table, other))
  BY <1>2, ParsedService DEF Alike
<1> QED
  BY <1>1, <1>3, ParsedServices

LEMMA ReplacedUrl ==
  ASSUME NEW service, NEW url, NEW ip
  PROVE  Replaced(service, url, ip) =
           IF url \in service.unmatched THEN service[url] ELSE Moved(service[url], ip)
BY Zenon DEF Replaced

\* A public address changes the addresses of a service and nothing else of it: they
\* are the ones that stay, and the others at the public address.
MovedAddresses(service, ip) ==
  Unreplaced(service) \union {Moved(a, ip) : a \in Replaceable(service)}

LEMMA AdvertisedUrls ==
  ASSUME NEW service, IsService(service), service.type = "config", NEW ip, NEW first, NEW second,
         first = Replaced(service, "sandboxUrl", ip),
         second = Replaced(service, "sandboxUrlWS", ip)
  PROVE  {first, second} = MovedAddresses(service, ip)
<1>1. /\ first = IF "sandboxUrl" \in service.unmatched THEN service["sandboxUrl"]
                 ELSE Moved(service["sandboxUrl"], ip)
      /\ second = IF "sandboxUrlWS" \in service.unmatched THEN service["sandboxUrlWS"]
                  ELSE Moved(service["sandboxUrlWS"], ip)
  BY ReplacedUrl
<1>2. /\ Unreplaced(service) = {service[url] : url \in OnlineUrls \intersect service.unmatched}
      /\ Replaceable(service) = {service[url] : url \in OnlineUrls \ service.unmatched}
  BY DEF Unreplaced, Replaceable
<1>3. first \in MovedAddresses(service, ip) /\ second \in MovedAddresses(service, ip)
  BY <1>1, <1>2 DEF MovedAddresses, OnlineUrls
<1>4. ASSUME NEW b \in MovedAddresses(service, ip)
      PROVE  b \in {first, second}
  <2>1. CASE b \in Unreplaced(service)
    <3>1. PICK url \in OnlineUrls : url \in service.unmatched /\ b = service[url]
      BY <1>2, <2>1
    <3> QED
      BY <1>1, <3>1 DEF OnlineUrls
  <2>2. CASE b \in {Moved(a, ip) : a \in Replaceable(service)}
    <3>1. PICK a \in Replaceable(service) : b = Moved(a, ip)
      BY <2>2
    <3>2. PICK url \in OnlineUrls : url \notin service.unmatched /\ a = service[url]
      BY <1>2, <3>1
    <3> QED
      BY <1>1, <3>1, <3>2 DEF OnlineUrls
  <2> QED
    BY <1>4, <2>1, <2>2 DEF MovedAddresses
<1> QED
  BY <1>3, <1>4

LEMMA AdvertisedService ==
  ASSUME NEW service, IsService(service), NEW ip
  PROVE  /\ Advertised(service, ip).type = service.type
         /\ Advertised(service, ip).listen = service.listen
         /\ Advertised(service, ip).ticketKey = service.ticketKey
         /\ AddressesOf(Advertised(service, ip)) = MovedAddresses(service, ip)
<1> DEFINE s == Advertised(service, ip)
<1>0. ASSUME service.type # "config"
      PROVE  MovedAddresses(service, ip) = {Moved(a, ip) : a \in AddressesOf(service)}
  BY <1>0 DEF MovedAddresses, Unreplaced, Replaceable
<1>1. CASE service.type = "authentication"
  <2>1. s = [service EXCEPT !.secureServerAddr = Moved(@, ip)]
    BY <1>1 DEF Advertised
  <2> HIDE DEF s
  <2>2. /\ s.type = service.type /\ s.listen = service.listen
        /\ s.ticketKey = service.ticketKey
        /\ s.secureServerAddr = Moved(service.secureServerAddr, ip)
    BY <2>1, TableFields DEF IsService
  <2>3. AddressesOf(s) = {s.secureServerAddr}
        /\ AddressesOf(service) = {service.secureServerAddr}
    BY <1>1, <2>2 DEF AddressesOf
  <2>4. MovedAddresses(service, ip) = {Moved(service.secureServerAddr, ip)}
    BY <1>0, <1>1, <2>3
  <2> QED
    BY <2>2, <2>3, <2>4 DEF s
<1>2. CASE service.type = "secure"
  <2>1. s = [service EXCEPT !.storageHost = Moved(@, ip)]
    BY <1>2 DEF Advertised
  <2> HIDE DEF s
  <2>2. /\ s.type = service.type /\ s.listen = service.listen
        /\ s.ticketKey = service.ticketKey
        /\ s.storageHost = Moved(service.storageHost, ip)
    BY <2>1, TableFields DEF IsService
  <2>3. AddressesOf(s) = {s.storageHost} /\ AddressesOf(service) = {service.storageHost}
    BY <1>2, <2>2 DEF AddressesOf
  <2>4. MovedAddresses(service, ip) = {Moved(service.storageHost, ip)}
    BY <1>0, <1>2, <2>3
  <2> QED
    BY <2>2, <2>3, <2>4 DEF s
<1>3. CASE service.type = "config"
  <2>0. PICK first, second : /\ first = Replaced(service, "sandboxUrl", ip)
                             /\ second = Replaced(service, "sandboxUrlWS", ip)
    OBVIOUS
  <2>1. s = [service EXCEPT !.sandboxUrl = first, !.sandboxUrlWS = second]
    BY <1>3, <2>0 DEF Advertised
  <2> HIDE DEF s
  <2>2. /\ s.type = service.type /\ s.listen = service.listen
        /\ s.ticketKey = service.ticketKey
        /\ s.sandboxUrl = first /\ s.sandboxUrlWS = second
    BY <2>1, TableFields DEF IsService
  <2>3. AddressesOf(s) = {s.sandboxUrl, s.sandboxUrlWS}
    BY <1>3, <2>2 DEF AddressesOf
  <2>4. {first, second} = MovedAddresses(service, ip)
    BY <1>3, <2>0, AdvertisedUrls
  <2> QED
    BY <2>2, <2>3, <2>4 DEF s
<1>4. CASE service.type = "content"
  <2>1. s = service
    BY <1>4 DEF Advertised
  <2> HIDE DEF s
  <2>2. AddressesOf(s) = {} /\ AddressesOf(service) = {}
    BY <1>4, <2>1 DEF AddressesOf
  <2>3. MovedAddresses(service, ip) = {}
    BY <1>0, <1>4, <2>2
  <2> QED
    BY <2>1, <2>2, <2>3 DEF s
<1> QED
  BY <1>1, <1>2, <1>3, <1>4 DEF IsService, ServiceTypes

LEMMA AddressesOfService ==
  ASSUME NEW service, IsService(service), NEW a \in AddressesOf(service)
  PROVE  IsAddress(a)
<1>1. AddressesOf(service) \subseteq
        {service.secureServerAddr, service.storageHost, service.sandboxUrl, service.sandboxUrlWS}
  BY DEF AddressesOf, IsService, ServiceTypes
<1> QED
  BY <1>1 DEF IsService

LEMMA ReplaceableOfService ==
  ASSUME NEW service, IsService(service)
  PROVE  AddressesOf(service) = Unreplaced(service) \union Replaceable(service)
<1>1. CASE service.type = "config"
  <2>1. /\ Unreplaced(service) = {service[url] : url \in OnlineUrls \intersect service.unmatched}
        /\ Replaceable(service) = {service[url] : url \in OnlineUrls \ service.unmatched}
    BY <1>1 DEF Unreplaced, Replaceable
  <2>2. AddressesOf(service) = {service["sandboxUrl"], service["sandboxUrlWS"]}
    BY <1>1 DEF AddressesOf
  <2> QED
    BY <2>1, <2>2 DEF OnlineUrls
<1>2. CASE service.type # "config"
  BY <1>2 DEF Unreplaced, Replaceable
<1> QED
  BY <1>1, <1>2

LEMMA AlikeAddresses ==
  ASSUME NEW s, NEW t, IsService(s), IsService(t), Alike(s, t), NEW ip
  PROVE  PublicAddresses(s, ip) = PublicAddresses(t, ip)
<1>1. s["sandboxUrl"] = t["sandboxUrl"] /\ s["sandboxUrlWS"] = t["sandboxUrlWS"]
  BY DEF Alike
<1>2. s.type = t.type /\ s.unmatched = t.unmatched
  BY DEF Alike
<1>3. AddressesOf(s) = AddressesOf(t)
  BY DEF Alike, AddressesOf, ServiceTypes, IsService
<1>4. \A url \in OnlineUrls : s[url] = t[url]
  BY <1>1 DEF OnlineUrls
<1>5. Unreplaced(s) = Unreplaced(t)
  BY <1>2, <1>4 DEF Unreplaced
<1>6. Replaceable(s) = Replaceable(t)
  BY <1>2, <1>3, <1>4 DEF Replaceable
<1> QED
  BY <1>5, <1>6 DEF PublicAddresses

LEMMA MovedAddress ==
  ASSUME NEW a, IsAddress(a), NEW ip, ip # "", ip # NotAnAddress.host
  PROVE  /\ a \in {NoAddress, NotAnAddress} => Moved(a, ip) = a
         /\ a \notin {NoAddress, NotAnAddress} =>
              /\ Moved(a, ip) = Address(ip, a.port)
              /\ Moved(a, ip) \notin {NoAddress, NotAnAddress}
<1>1. NoAddress.host = ""
  BY DEF NoAddress, Address
<1>2. CASE a \in {NoAddress, NotAnAddress}
  BY <1>2 DEF Moved
<1>3. CASE a \notin {NoAddress, NotAnAddress}
  <2>1. Moved(a, ip) = [a EXCEPT !.host = ip]
    BY <1>3 DEF Moved
  <2>2. PICK h, p : a = [host |-> h, port |-> p]
    BY DEF IsAddress, Address
  <2>3. Moved(a, ip) = Address(ip, a.port)
    BY <2>1, <2>2 DEF Address
  <2>4. Moved(a, ip).host = ip
    <3>1. PICK port : port = a.port
      OBVIOUS
    <3>2. Address(ip, port).host = ip
      BY DEF Address
    <3> QED
      BY <2>3, <3>1, <3>2
  <2> QED
    BY <1>1, <1>3, <2>3, <2>4
<1> QED
  BY <1>2, <1>3

LEMMA MovedAddressesArePublic ==
  ASSUME NEW service, IsService(service), NEW ip, ip # "", ip # NotAnAddress.host
  PROVE  MovedAddresses(service, ip) \ NoAddresses = PublicAddresses(service, ip)
<1>1. \A a \in Unreplaced(service) \union Replaceable(service) : IsAddress(a)
  BY AddressesOfService, ReplaceableOfService
<1>2. ASSUME NEW b \in MovedAddresses(service, ip), b \notin NoAddresses
      PROVE  b \in PublicAddresses(service, ip)
  <2>1. CASE b \in Unreplaced(service)
    BY <1>2, <2>1 DEF PublicAddresses
  <2>2. CASE b \in {Moved(a, ip) : a \in Replaceable(service)}
    <3>1. PICK a \in Replaceable(service) : b = Moved(a, ip)
      BY <2>2
    <3>2. IsAddress(a)
      BY <1>1, <3>1
    <3>3. a \notin NoAddresses
      <4>1. a \in NoAddresses => b = a
        BY <3>1, <3>2, MovedAddress DEF NoAddresses
      <4> QED
        BY <1>2, <4>1
    <3>4. b = Address(ip, a.port)
      BY <3>1, <3>2, <3>3, MovedAddress DEF NoAddresses
    <3> QED
      BY <3>1, <3>3, <3>4 DEF PublicAddresses
  <2> QED
    BY <1>2, <2>1, <2>2 DEF MovedAddresses
<1>3. ASSUME NEW b \in PublicAddresses(service, ip)
      PROVE  b \in MovedAddresses(service, ip) /\ b \notin NoAddresses
  <2>1. CASE b \in Unreplaced(service) \ NoAddresses
    BY <2>1 DEF MovedAddresses
  <2>2. CASE b \in {Address(ip, a.port) : a \in Replaceable(service) \ NoAddresses}
    <3>1. PICK a \in Replaceable(service) \ NoAddresses : b = Address(ip, a.port)
      BY <2>2
    <3>2. IsAddress(a)
      BY <1>1, <3>1
    <3>3. b = Moved(a, ip) /\ b \notin NoAddresses
      BY <3>1, <3>2, MovedAddress DEF NoAddresses
    <3> QED
      BY <3>1, <3>3 DEF MovedAddresses
  <2> QED
    BY <1>3, <2>1, <2>2 DEF PublicAddresses
<1> QED
  BY <1>2, <1>3

AllPublic(services, ip) ==
  UNION {PublicAddresses(services[i], ip) : i \in DOMAIN services}

LEMMA AdvertisingPublicIp ==
  ASSUME NEW services, \A i \in DOMAIN services : IsService(services[i]),
         NEW ip, ip # "", ip # NotAnAddress.host
  PROVE  Advertising(SetPublicIp(services, ip)) = AllPublic(services, ip)
<1> DEFINE moved == SetPublicIp(services, ip)
<1>1. DOMAIN moved = DOMAIN services
      /\ \A i \in DOMAIN services : moved[i] = Advertised(services[i], ip)
  BY DEF SetPublicIp
<1> HIDE DEF moved
<1>2. ASSUME NEW i \in DOMAIN services
      PROVE  AddressesOf(moved[i]) \ NoAddresses = PublicAddresses(services[i], ip)
  <2>1. PICK service : service = services[i] /\ IsService(service)
    OBVIOUS
  <2>2. AddressesOf(Advertised(service, ip)) = MovedAddresses(service, ip)
    BY <2>1, AdvertisedService
  <2>3. moved[i] = Advertised(service, ip)
    BY <1>1, <2>1
  <2>4. MovedAddresses(service, ip) \ NoAddresses = PublicAddresses(service, ip)
    BY <2>1, MovedAddressesArePublic
  <2> QED
    BY <2>1, <2>2, <2>3, <2>4
<1>3. Advertising(moved) =
        (UNION {AddressesOf(moved[i]) : i \in DOMAIN services}) \ NoAddresses
  BY <1>1 DEF Advertising
<1>4. ASSUME NEW b
      PROVE  b \in Advertising(moved) <=> b \in AllPublic(services, ip)
  <2>1. b \in Advertising(moved) <=>
          \E i \in DOMAIN services : b \in AddressesOf(moved[i]) /\ b \notin NoAddresses
    BY <1>3
  <2>2. b \in AllPublic(services, ip) <=>
          \E i \in DOMAIN services : b \in PublicAddresses(services[i], ip)
    BY DEF AllPublic
  <2>3. \A i \in DOMAIN services :
          b \in PublicAddresses(services[i], ip) <=>
            b \in AddressesOf(moved[i]) /\ b \notin NoAddresses
    BY <1>2
  <2> QED
    BY <2>1, <2>2, <2>3
<1>5. Advertising(moved) = AllPublic(services, ip)
  <2> DEFINE all == AllPublic(services, ip)
             given == Advertising(moved)
  <2>1. \A b : b \in given <=> b \in all
    BY <1>4
  <2> HIDE DEF all, given
  <2>2. given = all
    BY <2>1
  <2> QED
    BY <2>2 DEF all, given
<1> QED
  BY <1>5 DEF moved

LEMMA PublicAddressesAlike ==
  ASSUME NEW file, IsText(file), IsConfig(file), NEW key, NEW other, NEW ip
  PROVE  AllPublic(ParseConfig(file, key), ip) = AllPublic(ParseConfig(file, other), ip)
<1>0. PICK s, t : s = ParseConfig(file, key) /\ t = ParseConfig(file, other)
  OBVIOUS
<1>1. DOMAIN s = DOMAIN t
  BY <1>0, ParsedServices
<1>2. ASSUME NEW i \in DOMAIN s
      PROVE  PublicAddresses(s[i], ip) = PublicAddresses(t[i], ip)
  <2>1. i \in DOMAIN Unique(file.services)
    BY <1>0, ParsedServices
  <2>2. Alike(s[i], t[i]) /\ IsService(s[i]) /\ IsService(t[i])
    BY <1>0, <2>1, ParsedAlike, ParsedServices
  <2> QED
    BY <2>2, AlikeAddresses
<1>3. AllPublic(s, ip) = AllPublic(t, ip)
  BY <1>1, <1>2 DEF AllPublic
<1> QED
  BY <1>0, <1>3

IsPublic(ip) == ip # "" /\ ip # NotAnAddress.host

LEMMA ParsedPublicIp ==
  ASSUME NEW file, IsText(file), IsConfig(file), NEW key, NEW ip, IsPublic(ip)
  PROVE  Advertising(SetPublicIp(ParseConfig(file, key), ip)) =
           AllPublic(ParseConfig(file, NoKey), ip)
<1>1. PICK made : made = ParseConfig(file, key)
  OBVIOUS
<1>2. \A i \in DOMAIN made : IsService(made[i])
  BY <1>1, ParsedServices
<1>3. Advertising(SetPublicIp(made, ip)) = AllPublic(made, ip)
  BY <1>2, AdvertisingPublicIp DEF IsPublic
<1>4. AllPublic(ParseConfig(file, key), ip) = AllPublic(ParseConfig(file, NoKey), ip)
  BY PublicAddressesAlike
<1> QED
  BY <1>1, <1>3, <1>4

-----------------------------------------------------------------------------
(***************************************************************************)
(* The course of a process: its steps again, as they are for its files,    *)
(* its services and its end.                                               *)
(***************************************************************************)
Early == {"down", "migrating", "configuring", "saving", "saved", "parsing"}
Late == {"preparing", "copying", "clearing", "listening", "running"}

\* Why a process may stop.
Ends(p, why) ==
  \/ why = "crash" /\ ~At(p, "down")
  \/ why = "shutdown" /\ At(p, "running")
  \/ why = "refused" /\ At(p, "down") /\ IsRefused(database)
  \/ why = "locked" /\ Locked(p) /\ procs[p].at \in {"down", "migrating", "clearing"}
  \/ /\ why = "migration" /\ At(p, "migrating") /\ transaction.proc # p
     /\ \E i \in DOMAIN MIGRATIONS :
          /\ IsNextMigration(i, procs[p].applied, procs[p].done)
          /\ ~Runs(database, MIGRATIONS[i])
  \/ /\ why = "migration" /\ At(p, "migrating")
     /\ transaction.proc = p /\ ~transaction.recorded
     /\ IsRecorded(transaction.database, MIGRATIONS[transaction.migration])
  \/ why = "config" /\ At(p, "parsing") /\ ~IsConfig(procs[p].config)
  \/ /\ why = "address" /\ At(p, "parsing") /\ IsConfig(procs[p].config)
     /\ world.publicIp # "" /\ ~CanAdvertise(ParseConfig(procs[p].config, keys + 1))
  \/ /\ why = "port" /\ At(p, "listening")
     /\ procs[p].listening + 1 <= Len(procs[p].services)
     /\ Socket(procs[p].services[procs[p].listening + 1]) \in InUse
  \/ why = "port" /\ At(p, "listening") /\ ApiSocket \in InUse

Rests == UNCHANGED <<world, left, procs, configFile, keys, tickets>>

Stops(p) ==
  /\ world.overlap \/ ~At(p, "down") \/ \A q \in Procs : At(q, "down")
  /\ Others(p)
  /\ \E why :
       /\ procs'[p] = Down(why) /\ Ends(p, why)
       /\ \/ why # "crash" /\ UNCHANGED left
          \/ why # "crash" /\ left.starts > 0 /\ left' = [left EXCEPT !.starts = @ - 1]
          \/ why = "crash" /\ left.crashes > 0 /\ left' = [left EXCEPT !.crashes = @ - 1]
  /\ UNCHANGED <<world, configFile, keys, tickets>>

Launches(p) ==
  /\ At(p, "down")
  /\ left.starts > 0 /\ left' = [left EXCEPT !.starts = @ - 1]
  /\ world.overlap \/ \A q \in Procs : At(q, "down")
  /\ Others(p)
  /\ procs'[p] = [Down("") EXCEPT !.at = "migrating",
                                  !.instance = world.starts - left.starts + 1,
                                  !.applied = Applied(database)]
  /\ UNCHANGED <<world, configFile, keys, tickets>>

Proceeds(p) ==
  /\ Others(p) /\ IsProc(procs'[p])
  /\ procs'[p].why = procs[p].why /\ procs'[p].instance = procs[p].instance
  /\ procs'[p].config = procs[p].config /\ procs'[p].services = procs[p].services
  /\ \/ /\ procs[p].at = "migrating" /\ procs'[p].at \in {"migrating", "configuring"}
        /\ procs'[p].listening = procs[p].listening
     \/ /\ procs[p].at \in {"preparing", "copying", "clearing", "listening"}
        /\ procs'[p].at \in {"copying", "clearing", "listening", "running"}
        /\ procs'[p].listening = procs[p].listening
     \/ /\ procs[p].at = "listening" /\ procs'[p].at = "listening"
        /\ procs[p].listening + 1 <= Len(procs[p].services)
        /\ procs'[p].listening = procs[p].listening + 1
  /\ procs[p].at = "preparing" => dataFile' # "absent"
  /\ procs[p].at = "listening" => procs'[p].at \in {"listening", "running"}
  /\ UNCHANGED <<world, left, configFile, keys, tickets>>

Configures(p) ==
  /\ At(p, "parsing")
  /\ IsConfig(procs[p].config)
  /\ world.publicIp = "" \/ CanAdvertise(ParseConfig(procs[p].config, keys + 1))
  /\ \E services :
       /\ services = WithPublicIp(ParseConfig(procs[p].config, keys + 1))
       /\ procs' = [procs EXCEPT ![p].services = services, ![p].at = "preparing"]
  /\ keys' = keys + 1
  /\ UNCHANGED <<world, left, configFile, tickets>>

Course ==
  \/ Rests
  \/ \E p \in Procs :
       \/ Stops(p) \/ Launches(p) \/ Proceeds(p)
       \/ MakeConfig(p) \/ SaveConfig(p) \/ ReadConfig(p) \/ Configures(p)
       \/ \E i \in Serving(p), u \in Users : LogIn(p, i, u)

LEMMA FailStops ==
  ASSUME Shape, NEW p \in Procs, NEW why, Fail(p, why), why # "crash", Ends(p, why),
         ~At(p, "down")
  PROVE  Stops(p)
<1>1. Others(p) /\ procs'[p] = Down(why)
  BY DEF Fail, Exit, Others, Shape
<1>2. UNCHANGED <<world, configFile, keys, tickets, left>>
  BY DEF Fail, Exit, files
<1> QED
  BY <1>1, <1>2 DEF Stops

LEMMA StartCourse ==
  ASSUME Shape, NEW p \in Procs, Start(p)
  PROVE  Course
<1>1. /\ At(p, "down") /\ left.starts > 0
      /\ world.overlap \/ \A q \in Procs : At(q, "down")
      /\ left' = [left EXCEPT !.starts = @ - 1]
  BY DEF Start
<1>2. CASE /\ ~IsRefused(database)
           /\ procs' = [procs EXCEPT ![p] =
                          [Down("") EXCEPT !.at = "migrating",
                                           !.instance = world.starts - left.starts + 1,
                                           !.applied = Applied(database)]]
           /\ UNCHANGED <<world, database, transaction, files, connections, tickets>>
  <2>1. Others(p) /\ procs'[p] = [Down("") EXCEPT !.at = "migrating",
                                            !.instance = world.starts - left.starts + 1,
                                            !.applied = Applied(database)]
    BY <1>2 DEF Others, Shape
  <2>2. Launches(p)
    BY <1>1, <1>2, <2>1 DEF Launches, files
  <2> QED
    BY <2>2 DEF Course
<1>3. CASE /\ IsRefused(database) \/ Locked(p)
           /\ Exit(p, IF IsRefused(database) THEN "refused" ELSE "locked")
  <2> DEFINE why == IF IsRefused(database) THEN "refused" ELSE "locked"
  <2>1. Others(p) /\ procs'[p] = Down(why) /\ UNCHANGED <<world, configFile, keys, tickets>>
    BY <1>3 DEF Exit, Others, Shape, files
  <2>2. Ends(p, why) /\ why # "crash"
    BY <1>1, <1>3 DEF Ends, At
  <2> HIDE DEF why
  <2>3. Stops(p)
    BY <1>1, <2>1, <2>2 DEF Stops
  <2> QED
    BY <2>3 DEF Course
<1> QED
  BY <1>2, <1>3 DEF Start

LEMMA MigrationCourse ==
  ASSUME Shape, NEW p \in Procs,
         BeginMigration(p) \/ RecordMigration(p) \/ CommitMigration(p) \/ FinishMigrations(p)
  PROVE  Course
<1>0. At(p, "migrating") /\ ~At(p, "down")
  BY DEF BeginMigration, RecordMigration, CommitMigration, FinishMigrations, At
<1>1. CASE BeginMigration(p)
  <2>1. PICK i \in DOMAIN MIGRATIONS :
          /\ transaction.proc # p
          /\ IsNextMigration(i, procs[p].applied, procs[p].done)
          /\ \/ RunMigration(p, i) /\ UNCHANGED <<world, left, files, procs, connections, tickets>>
             \/ Locked(p) /\ Fail(p, "locked")
             \/ ~Runs(database, MIGRATIONS[i]) /\ Fail(p, "migration")
    BY <1>1 DEF BeginMigration
  <2>2. CASE UNCHANGED <<world, left, files, procs, connections, tickets>>
    BY <2>2 DEF Course, Rests, files
  <2>3. CASE Locked(p) /\ Fail(p, "locked")
    <3>1. Ends(p, "locked")
      BY <1>0, <2>3 DEF Ends, At
    <3> QED
      BY <1>0, <2>3, <3>1, FailStops DEF Course
  <2>4. CASE ~Runs(database, MIGRATIONS[i]) /\ Fail(p, "migration")
    <3>1. Ends(p, "migration")
      BY <1>0, <2>1, <2>4 DEF Ends
    <3> QED
      BY <1>0, <2>4, <3>1, FailStops DEF Course
  <2> QED
    BY <2>1, <2>2, <2>3, <2>4
<1>2. CASE RecordMigration(p)
  <2>1. CASE UNCHANGED <<world, left, database, files, procs, connections, tickets>>
    BY <2>1 DEF Course, Rests, files
  <2>2. CASE IsRecorded(transaction.database, MIGRATIONS[transaction.migration])
             /\ Fail(p, "migration")
    <3>1. Ends(p, "migration")
      BY <1>0, <1>2, <2>2 DEF Ends, RecordMigration
    <3> QED
      BY <1>0, <2>2, <3>1, FailStops DEF Course
  <2> QED
    BY <1>2, <2>1, <2>2 DEF RecordMigration
<1>3. CASE CommitMigration(p) \/ FinishMigrations(p)
  <2>1. \/ procs' = [procs EXCEPT ![p].done = @ \union {MIGRATIONS[transaction.migration]}]
        \/ procs' = [procs EXCEPT ![p].at = "configuring"]
    BY <1>3 DEF CommitMigration, FinishMigrations, Goes
  <2>2. Others(p) /\ IsProc(procs'[p])
    BY <2>1 DEF Others, Shape, IsProc
  <2>3. /\ procs'[p].why = procs[p].why /\ procs'[p].instance = procs[p].instance
        /\ procs'[p].config = procs[p].config /\ procs'[p].services = procs[p].services
        /\ procs'[p].at \in {"migrating", "configuring"}
        /\ procs'[p].listening = procs[p].listening
    BY <1>0, <2>1 DEF Shape, IsProc, At
  <2>4. UNCHANGED <<world, left, configFile, keys, tickets>>
    BY <1>3 DEF CommitMigration, FinishMigrations, files
  <2>5. Proceeds(p)
    BY <1>0, <2>2, <2>3, <2>4 DEF Proceeds, At
  <2> QED
    BY <2>5 DEF Course
<1> QED
  BY <1>1, <1>2, <1>3

LEMMA ConfigureCourse ==
  ASSUME Shape, NEW p \in Procs, Configure(p)
  PROVE  Course
<1> DEFINE services == ParseConfig(procs[p].config, keys + 1)
<1>0. At(p, "parsing") /\ ~At(p, "down")
  BY DEF Configure, At
<1>1. \/ ~IsConfig(procs[p].config) /\ Fail(p, "config")
      \/ /\ IsConfig(procs[p].config)
         /\ world.publicIp # "" /\ ~CanAdvertise(services)
         /\ Fail(p, "address")
      \/ /\ IsConfig(procs[p].config)
         /\ world.publicIp = "" \/ CanAdvertise(services)
         /\ procs' = [procs EXCEPT ![p].services = WithPublicIp(services), ![p].at = "preparing"]
         /\ keys' = keys + 1
         /\ UNCHANGED <<world, left, database, transaction, configFile, dataFile,
                        connections, tickets>>
  BY DEF Configure
<1>2. CASE ~IsConfig(procs[p].config) /\ Fail(p, "config")
  <2>1. Ends(p, "config")
    BY <1>0, <1>2 DEF Ends
  <2> QED
    BY <1>0, <1>2, <2>1, FailStops DEF Course
<1>3. CASE /\ IsConfig(procs[p].config)
           /\ world.publicIp # "" /\ ~CanAdvertise(services)
           /\ Fail(p, "address")
  <2>1. Ends(p, "address")
    BY <1>0, <1>3 DEF Ends
  <2> QED
    BY <1>0, <1>3, <2>1, FailStops DEF Course
<1>4. CASE /\ IsConfig(procs[p].config)
           /\ world.publicIp = "" \/ CanAdvertise(services)
           /\ procs' = [procs EXCEPT ![p].services = WithPublicIp(services), ![p].at = "preparing"]
           /\ keys' = keys + 1
           /\ UNCHANGED <<world, left, database, transaction, configFile, dataFile,
                          connections, tickets>>
  <2>1. PICK made : made = WithPublicIp(services)
    OBVIOUS
  <2>2. procs' = [procs EXCEPT ![p].services = made, ![p].at = "preparing"]
    BY <1>4, <2>1
  <2>3. Configures(p)
    BY <1>0, <1>4, <2>1, <2>2 DEF Configures
  <2> QED
    BY <2>3 DEF Course
<1> QED
  BY <1>1, <1>2, <1>3, <1>4

LEMMA ServingCourse ==
  ASSUME Shape, NEW p \in Procs,
         EnsureDataDir(p) \/ ClearSessions(p) \/ Listen(p) \/ StartApi(p)
  PROVE  Course
<1>0. procs[p].at \in {"preparing", "copying", "clearing", "listening"} /\ ~At(p, "down")
  BY DEF EnsureDataDir, ClearSessions, Listen, StartApi, At
<1>1. ASSUME NEW place \in {"copying", "clearing", "listening", "running"}, Goes(p, place),
             procs[p].at = "preparing" => dataFile' # "absent",
             procs[p].at = "listening" => place = "running",
             UNCHANGED <<world, left, configFile, keys, tickets>>
      PROVE  Course
  <2>1. procs' = [procs EXCEPT ![p].at = place]
    BY <1>1 DEF Goes
  <2>2. Proceeds(p)
    BY <1>0, <1>1, <2>1 DEF Proceeds, Others, Shape, IsProc
  <2> QED
    BY <2>2 DEF Course
<1>2. CASE EnsureDataDir(p)
  BY <1>1, <1>2 DEF EnsureDataDir, At
<1>3. CASE ClearSessions(p)
  <2>1. CASE /\ Goes(p, "listening")
             /\ UNCHANGED <<world, left, transaction, files, connections, tickets>>
    BY <1>1, <1>3, <2>1 DEF files, ClearSessions, At
  <2>2. CASE Locked(p) /\ Fail(p, "locked")
    <3>1. Ends(p, "locked")
      BY <1>3, <2>2 DEF Ends, ClearSessions, At
    <3> QED
      BY <1>0, <2>2, <3>1, FailStops DEF Course
  <2> QED
    BY <1>3, <2>1, <2>2 DEF ClearSessions
<1>4. CASE Listen(p)
  <2> DEFINE next == procs[p].listening + 1
  <2>1. At(p, "listening") /\ next <= Len(procs[p].services)
    BY <1>4 DEF Listen
  <2>2. CASE /\ procs' = [procs EXCEPT ![p].listening = next]
             /\ UNCHANGED <<world, left, database, transaction, files, connections, tickets>>
    <3>1. Proceeds(p)
      BY <2>1, <2>2 DEF Proceeds, Others, Shape, IsProc, At, files
    <3> QED
      BY <3>1 DEF Course
  <2>3. CASE Socket(procs[p].services[next]) \in InUse /\ Fail(p, "port")
    <3>1. Ends(p, "port")
      BY <2>1, <2>3 DEF Ends
    <3> QED
      BY <1>0, <2>3, <3>1, FailStops DEF Course
  <2> QED
    BY <1>4, <2>2, <2>3 DEF Listen
<1>5. CASE StartApi(p)
  <2>1. CASE /\ Goes(p, "running")
             /\ UNCHANGED <<world, left, database, transaction, files, connections, tickets>>
    BY <1>1, <1>5, <2>1 DEF files, StartApi, At
  <2>2. CASE ApiSocket \in InUse /\ Fail(p, "port")
    <3>1. Ends(p, "port")
      BY <1>5, <2>2 DEF Ends, StartApi
    <3> QED
      BY <1>0, <2>2, <3>1, FailStops DEF Course
  <2> QED
    BY <1>5, <2>1, <2>2 DEF StartApi
<1> QED
  BY <1>2, <1>3, <1>4, <1>5

\* Every step is part of this course.
LEMMA NextCourse ==
  ASSUME Shape, [Next]_vars
  PROVE  Course
<1>1. CASE \E p \in Procs : Startup(p)
  BY <1>1, StartCourse, MigrationCourse, ConfigureCourse, ServingCourse DEF Startup, Course
<1>2. ASSUME NEW p \in Procs, Shutdown(p)
      PROVE  Course
  <2>1. ~At(p, "down") /\ Ends(p, "shutdown") /\ Fail(p, "shutdown")
    BY <1>2 DEF Shutdown, Ends, At
  <2> QED
    BY <2>1, FailStops DEF Course
<1>3. ASSUME NEW p \in Procs, Crash(p)
      PROVE  Course
  <2>1. /\ ~At(p, "down") /\ Ends(p, "crash")
        /\ left.crashes > 0 /\ left' = [left EXCEPT !.crashes = @ - 1]
    BY <1>3 DEF Crash, Ends
  <2>2. Others(p) /\ procs'[p] = Down("crash") /\ UNCHANGED <<world, configFile, keys, tickets>>
    BY <1>3 DEF Crash, Exit, Others, Shape, files
  <2>3. Stops(p)
    BY <2>1, <2>2 DEF Stops
  <2> QED
    BY <2>3 DEF Course
<1>4. CASE \E p \in Procs : \E i \in Serving(p), u \in Users : LogIn(p, i, u)
  BY <1>4 DEF Course
<1>5. CASE \E r \in DOMAIN world.requests : Http(r)
  BY <1>5 DEF Http, Accept, Data, End, FileRead, Close, Deadline, Changes, Course, Rests, files
<1>6. CASE UNCHANGED vars
  BY <1>6 DEF vars, files, Course, Rests
<1> QED
  BY <1>1, <1>2, <1>3, <1>4, <1>5, <1>6 DEF Next

-----------------------------------------------------------------------------
(***************************************************************************)
(* The public address.  A process that is past its config has the services *)
(* of the file it has read or made, with the public address in them.       *)
(***************************************************************************)
HasServices(p) ==
  /\ IsText(procs[p].config) /\ IsConfig(procs[p].config)
  /\ \E key : procs[p].services = WithPublicIp(ParseConfig(procs[p].config, key))

Steady ==
  /\ IsText(configFile)
  /\ \A p \in Procs :
       /\ procs[p].at \in Early \union Late
       /\ procs[p].at \in Early => procs[p].services = << >> /\ procs[p].listening = 0
       /\ procs[p].at \in {"saving", "saved", "parsing"} => IsText(procs[p].config)
       /\ procs[p].at \in Late => HasServices(p)

\* The tables of the default, by name.
LEMMA DefaultNames ==
  ASSUME NEW key
  PROVE  DOMAIN DefaultConfig(key).service =
           {"sc_bl_auth", "sc_bl_secure", "onlineconfig", "content"}
BY DEF DefaultConfig, FileWith

LEMMA DefaultTables ==
  ASSUME NEW key, NEW name \in DOMAIN DefaultConfig(key).service,
         NEW table, table = DefaultConfig(key).service[name]
  PROVE  /\ DOMAIN table = DOMAIN Table /\ table.wellFormed = Table.wellFormed
         /\ name = "sc_bl_auth" => /\ table.type = "authentication" /\ table.ticketKey = key
                                   /\ table.listen = Everywhere(21126)
         /\ name = "sc_bl_secure" => /\ table.type = "secure" /\ table.ticketKey = key
                                     /\ table.listen = Everywhere(21127)
         /\ name = "onlineconfig" => table.type = "config" /\ table.listen = Everywhere(80)
         /\ name = "content" => table.type = "content" /\ table.listen = Everywhere(8000)
         /\ table.secureServerAddr \in {NoAddress, Local(21127)}
         /\ table.storageHost \in {NoAddress, Local(8000)}
         /\ table.sandboxUrl \in {NoAddress, Local(21126)}
         /\ table.sandboxUrlWS \in {NoAddress, Local(21126)}
<1>1. /\ Table.secureServerAddr = NoAddress /\ Table.storageHost = NoAddress
      /\ Table.sandboxUrl = NoAddress /\ Table.sandboxUrlWS = NoAddress
  BY DEF Table
<1>2. CASE name = "sc_bl_auth"
  <2>1. table = [Table EXCEPT !.type = "authentication", !.listen = Everywhere(21126),
                              !.secureServerAddr = Local(21127), !.ticketKey = key]
    BY <1>2 DEF DefaultConfig, FileWith
  <2>2. /\ DOMAIN table = DOMAIN Table /\ table.wellFormed = Table.wellFormed
        /\ table.type = "authentication" /\ table.listen = Everywhere(21126)
        /\ table.ticketKey = key
        /\ table.secureServerAddr = Local(21127) /\ table.storageHost = NoAddress
        /\ table.sandboxUrl = NoAddress /\ table.sandboxUrlWS = NoAddress
    BY <1>1, <2>1, TableFields
  <2> QED
    BY <1>2, <2>2
<1>3. CASE name = "sc_bl_secure"
  <2>1. table = [Table EXCEPT !.type = "secure", !.listen = Everywhere(21127),
                              !.storageHost = Local(8000), !.ticketKey = key]
    BY <1>3 DEF DefaultConfig, FileWith
  <2>2. /\ DOMAIN table = DOMAIN Table /\ table.wellFormed = Table.wellFormed
        /\ table.type = "secure" /\ table.listen = Everywhere(21127) /\ table.ticketKey = key
        /\ table.secureServerAddr = NoAddress /\ table.storageHost = Local(8000)
        /\ table.sandboxUrl = NoAddress /\ table.sandboxUrlWS = NoAddress
    BY <1>1, <2>1, TableFields
  <2> QED
    BY <1>3, <2>2
<1>4. CASE name = "onlineconfig"
  <2>1. table = [Table EXCEPT !.type = "config", !.listen = Everywhere(80),
                              !.sandboxUrl = Local(21126), !.sandboxUrlWS = Local(21126)]
    BY <1>4 DEF DefaultConfig, FileWith
  <2>2. /\ DOMAIN table = DOMAIN Table /\ table.wellFormed = Table.wellFormed
        /\ table.type = "config" /\ table.listen = Everywhere(80)
        /\ table.secureServerAddr = NoAddress /\ table.storageHost = NoAddress
        /\ table.sandboxUrl = Local(21126) /\ table.sandboxUrlWS = Local(21126)
    BY <1>1, <2>1, TableFields
  <2> QED
    BY <1>4, <2>2
<1>5. CASE name = "content"
  <2>1. table = [Table EXCEPT !.type = "content", !.listen = Everywhere(8000)]
    BY <1>5 DEF DefaultConfig, FileWith
  <2>2. /\ DOMAIN table = DOMAIN Table /\ table.wellFormed = Table.wellFormed
        /\ table.type = "content" /\ table.listen = Everywhere(8000)
        /\ table.secureServerAddr = NoAddress /\ table.storageHost = NoAddress
        /\ table.sandboxUrl = NoAddress /\ table.sandboxUrlWS = NoAddress
    BY <1>1, <2>1, TableFields
  <2> QED
    BY <1>5, <2>2
<1> QED
  BY <1>2, <1>3, <1>4, <1>5, DefaultNames

LEMMA MadeTexts ==
  /\ IsText(NoFile) /\ IsText(PartialFile)
  /\ \A key : IsText(DefaultConfig(key))
<1>1. ASSUME NEW file, file.services = << >>, DOMAIN file.service = {}
      PROVE  IsText(file)
  BY <1>1 DEF IsText
<1>2. NoFile.services = << >> /\ DOMAIN NoFile.service = {}
  BY DEF NoFile
<1>3. PartialFile.services = << >> /\ DOMAIN PartialFile.service = {}
  BY DEF NoFile, PartialFile
<1>4. ASSUME NEW key
      PROVE  IsText(DefaultConfig(key))
  <2> DEFINE file == DefaultConfig(key)
             names == <<"onlineconfig", "content", "sc_bl_secure", "sc_bl_auth">>
  <2>1. file.services = names
    BY DEF DefaultConfig, FileWith
  <2>2. names \in Seq(ToSet(names))
    BY DEF ToSet
  <2>3. ASSUME NEW name \in DOMAIN file.service
        PROVE  LET table == file.service[name]
               IN  /\ DOMAIN table = DOMAIN Table
                   /\ \A address \in {table.secureServerAddr, table.storageHost,
                                      table.sandboxUrl, table.sandboxUrlWS} : IsAddress(address)
    <3>1. \A host, port : IsAddress(Address(host, port))
      BY DEF IsAddress, Address
    <3>2. /\ IsAddress(NoAddress) /\ \A port : IsAddress(Local(port))
      BY <3>1 DEF NoAddress, Local
    <3>3. PICK table : table = file.service[name]
      OBVIOUS
    <3>4. /\ DOMAIN table = DOMAIN Table
          /\ table.secureServerAddr \in {NoAddress, Local(21127)}
          /\ table.storageHost \in {NoAddress, Local(8000)}
          /\ table.sandboxUrl \in {NoAddress, Local(21126)}
          /\ table.sandboxUrlWS \in {NoAddress, Local(21126)}
      BY <3>3, DefaultTables
    <3> QED
      BY <3>2, <3>3, <3>4
  <2> QED
    BY <2>1, <2>2, <2>3 DEF IsText
<1> QED
  BY <1>1, <1>2, <1>3, <1>4

LEMMA DownCourse ==
  ASSUME NEW why
  PROVE  /\ Down(why).at = "down" /\ Down(why).why = why /\ Down(why).services = << >>
         /\ Down(why).listening = 0 /\ Down(why).instance = 0
BY DEF Down

LEMMA LaunchCourse ==
  ASSUME NEW p \in Procs, Launches(p)
  PROVE  /\ procs'[p].at = "migrating" /\ procs'[p].why = "" /\ procs'[p].services = << >>
         /\ procs'[p].listening = 0
         /\ procs'[p].instance = world.starts - left.starts + 1
         /\ procs'[p].applied = Applied(database) /\ procs'[p].done = {}
BY DEF Launches, Down

LEMMA SteadyInit ==
  ASSUME Init
  PROVE  Steady
<1>1. IsText(configFile)
  BY ProcessAssumption DEF Init
<1>2. ASSUME NEW p \in Procs
      PROVE  procs[p].at = "down" /\ procs[p].services = << >> /\ procs[p].listening = 0
  <2>1. procs[p] = Down("")
    BY DEF Init
  <2> QED
    BY <2>1, DownCourse
<1> QED
  BY <1>1, <1>2 DEF Steady, Early, Late

LEMMA SteadyStep ==
  ASSUME Shape, Steady, Course
  PROVE  Steady'
<1> DEFINE Fine(q) ==
             /\ procs[q].at \in Early \union Late
             /\ procs[q].at \in Early => procs[q].services = << >> /\ procs[q].listening = 0
             /\ procs[q].at \in {"saving", "saved", "parsing"} => IsText(procs[q].config)
             /\ procs[q].at \in Late => HasServices(q)
<1>1. \A q \in Procs : Fine(q)
  BY DEF Steady
<1>2. ASSUME UNCHANGED world, IsText(configFile)', NEW p \in Procs, Others(p), Fine(p)'
      PROVE  Steady'
  <2>1. ASSUME NEW q \in Procs \ {p}
        PROVE  Fine(q)'
    <3>1. procs'[q] = procs[q]
      BY <1>2 DEF Others
    <3> QED
      BY <1>1, <1>2, <3>1 DEF HasServices, WithPublicIp
  <2>2. \A q \in Procs : Fine(q)'
    BY <1>2, <2>1
  <2> QED
    BY <1>2, <2>2 DEF Steady
<1>3. IsText(configFile)
  BY DEF Steady
<1>4. CASE Rests
  BY <1>4 DEF Rests, Steady, HasServices, WithPublicIp
<1>5. ASSUME NEW p \in Procs, Stops(p)
      PROVE  Steady'
  <2>1. PICK why : procs'[p] = Down(why)
    BY <1>5 DEF Stops
  <2>2. Fine(p)'
    BY <2>1, DownCourse DEF Early, Late
  <2> QED
    BY <1>2, <1>3, <1>5, <2>2 DEF Stops
<1>6. ASSUME NEW p \in Procs, Launches(p)
      PROVE  Steady'
  <2>1. Fine(p)'
    BY <1>6, LaunchCourse DEF Early, Late
  <2> QED
    BY <1>2, <1>3, <1>6, <2>1 DEF Launches
<1>7. ASSUME NEW p \in Procs, Proceeds(p)
      PROVE  Steady'
  <2>1. /\ procs'[p].config = procs[p].config /\ procs'[p].services = procs[p].services
        /\ UNCHANGED <<world, configFile>> /\ Others(p)
    BY <1>7 DEF Proceeds
  <2>2. CASE procs[p].at = "migrating"
    <3>1. procs'[p].at \in {"migrating", "configuring"} /\ procs'[p].listening = procs[p].listening
      BY <1>7, <2>2 DEF Proceeds
    <3>2. Fine(p)'
      BY <1>1, <2>1, <2>2, <3>1 DEF Early, Late
    <3> QED
      BY <1>2, <1>3, <2>1, <3>2
  <2>3. CASE procs[p].at # "migrating"
    <3>1. procs[p].at \in Late /\ procs'[p].at \in Late
      BY <1>7, <2>3 DEF Proceeds, Late
    <3>2. HasServices(p)'
      BY <1>1, <2>1, <3>1 DEF HasServices, WithPublicIp
    <3>3. Fine(p)'
      BY <3>1, <3>2 DEF Early, Late
    <3> QED
      BY <1>2, <1>3, <2>1, <3>3
  <2> QED
    BY <2>2, <2>3
<1>8. ASSUME NEW p \in Procs, MakeConfig(p)
      PROVE  Steady'
  <2>1. procs' = [procs EXCEPT ![p].config = DefaultConfig(keys + 1),
                              ![p].at = IF world.unwritable THEN "parsing" ELSE "saving"]
    BY <1>8 DEF MakeConfig
  <2>2. PICK made : made = DefaultConfig(keys + 1)
    OBVIOUS
  <2>3. /\ Others(p) /\ procs'[p].config = made
        /\ procs'[p].at \in {"parsing", "saving"}
        /\ procs'[p].services = procs[p].services /\ procs'[p].listening = procs[p].listening
    BY <2>1, <2>2 DEF Others, Shape, IsProc
  <2>4. IsText(made) /\ procs[p].at = "configuring"
    BY <1>8, <2>2, MadeTexts DEF MakeConfig, At
  <2>5. Fine(p)'
    BY <1>1, <2>3, <2>4 DEF Early, Late
  <2> QED
    BY <1>2, <1>3, <1>8, <2>3, <2>5 DEF MakeConfig
<1>9. ASSUME NEW p \in Procs, SaveConfig(p)
      PROVE  Steady'
  <2>1. PICK place \in {"saved", "parsing"} : procs' = [procs EXCEPT ![p].at = place]
    BY <1>9 DEF SaveConfig, Goes
  <2>2. /\ procs[p].at \in {"saving", "saved"}
        /\ configFile' = PartialFile \/ configFile' = procs[p].config
    BY <1>9 DEF SaveConfig, At
  <2>3. /\ Others(p) /\ procs'[p].at = place /\ procs'[p].config = procs[p].config
        /\ procs'[p].services = procs[p].services /\ procs'[p].listening = procs[p].listening
    BY <2>1 DEF Others, Shape, IsProc
  <2>4. IsText(configFile')
    BY <1>1, <2>2, MadeTexts
  <2>5. Fine(p)'
    BY <1>1, <2>2, <2>3 DEF Early, Late
  <2> QED
    BY <1>2, <1>9, <2>3, <2>4, <2>5 DEF SaveConfig
<1>10. ASSUME NEW p \in Procs, ReadConfig(p)
       PROVE  Steady'
  <2>1. /\ procs' = [procs EXCEPT ![p].config = configFile, ![p].at = "parsing"]
        /\ procs[p].at = "configuring"
    BY <1>10 DEF ReadConfig, At
  <2>2. /\ Others(p) /\ procs'[p].config = configFile /\ procs'[p].at = "parsing"
        /\ procs'[p].services = procs[p].services /\ procs'[p].listening = procs[p].listening
    BY <2>1 DEF Others, Shape, IsProc
  <2>3. Fine(p)'
    BY <1>1, <1>3, <2>1, <2>2 DEF Early, Late
  <2> QED
    BY <1>2, <1>3, <1>10, <2>2, <2>3 DEF ReadConfig, files
<1>11. ASSUME NEW p \in Procs, Configures(p)
       PROVE  Steady'
  <2>1. PICK services :
          /\ services = WithPublicIp(ParseConfig(procs[p].config, keys + 1))
          /\ procs' = [procs EXCEPT ![p].services = services, ![p].at = "preparing"]
    BY <1>11 DEF Configures
  <2>2. /\ Others(p) /\ procs'[p].config = procs[p].config /\ procs'[p].at = "preparing"
        /\ procs'[p].services = services
    BY <2>1 DEF Others, Shape, IsProc
  <2>3. PICK key : services = WithPublicIp(ParseConfig(procs[p].config, key))
    BY <2>1
  <2>4. IsText(procs[p].config) /\ IsConfig(procs[p].config) /\ UNCHANGED <<world, configFile>>
    BY <1>1, <1>11 DEF Configures, At
  <2>5. HasServices(p)'
    BY <2>2, <2>3, <2>4 DEF HasServices, WithPublicIp
  <2>6. Fine(p)'
    BY <2>2, <2>5 DEF Early, Late
  <2> QED
    BY <1>2, <1>3, <2>2, <2>4, <2>6
<1>12. ASSUME NEW p \in Procs, NEW i \in Serving(p), NEW u \in Users, LogIn(p, i, u)
       PROVE  Steady'
  BY <1>12 DEF LogIn, files, Steady, HasServices, WithPublicIp
<1> QED
  BY <1>4, <1>5, <1>6, <1>7, <1>8, <1>9, <1>10, <1>11, <1>12 DEF Course

LEMMA SteadyIsKept == Spec => []Steady
<1>1. Shape /\ Steady /\ [Next]_vars => Steady'
  BY NextCourse, SteadyStep
<1> QED
  BY SteadyInit, <1>1, ShapeIsKept, PTL DEF Spec

LEMMA WorldIsOne == Spec => [](world \in Worlds)
<1>1. Init => world \in Worlds
  BY DEF Init
<1>2. Shape /\ world \in Worlds /\ [Next]_vars => (world \in Worlds)'
  BY NextSteps, StepKeepsWorld
<1> QED
  BY <1>1, <1>2, ShapeIsKept, PTL DEF Spec

\* With --public-ip, the addresses that a process gives out, whatever services and tables
\* its file or its default has, are the public one at the ports of the file.  What
\* stays is any URL that a raw online configuration has in another form than the
\* patterns of setPublicIp look for: the process gives it out as it is in the file.
THEOREM PublicIpReachesEveryAddress == Spec => []PublicIpIsAdvertised
<1>1. Shape /\ Steady /\ world \in Worlds => PublicIpIsAdvertised
  <2> SUFFICES ASSUME Shape, Steady, world \in Worlds, world.publicIp # "", NEW p \in Procs,
                      procs[p].services # << >>,
                      NEW parsed, parsed = ParseConfig(procs[p].config, NoKey)
               PROVE  Advertising(procs[p].services) = AllPublic(parsed, world.publicIp)
    BY DEF PublicIpIsAdvertised, AllPublic
  <2>1. PICK ip, services, file :
          ip = world.publicIp /\ services = procs[p].services /\ file = procs[p].config
    OBVIOUS
  <2>2. ip # "" /\ ip # NotAnAddress.host
    BY <2>1, ProcessAssumption
  <2>3. HasServices(p)
    BY DEF Steady
  <2>4. IsText(file) /\ IsConfig(file)
    BY <2>1, <2>3 DEF HasServices
  <2>5. PICK key : services = SetPublicIp(ParseConfig(file, key), ip)
    BY <2>1, <2>2, <2>3 DEF HasServices, WithPublicIp
  <2>6. Advertising(SetPublicIp(ParseConfig(file, key), ip)) =
          AllPublic(ParseConfig(file, NoKey), ip)
    BY <2>2, <2>4, ParsedPublicIp DEF IsPublic
  <2> QED
    BY <2>1, <2>5, <2>6
<1> QED
  BY <1>1, ShapeIsKept, SteadyIsKept, WorldIsOne, PTL

-----------------------------------------------------------------------------
(***************************************************************************)
(* A server that is alone on its files, whose database is not refused and  *)
(* whose config file, if it has one, is fit.  First its migrations: those  *)
(* that are left can run.                                                  *)
(***************************************************************************)
Alone ==
  /\ \A p, q \in Procs : ~At(p, "down") /\ ~At(q, "down") => p = q
  /\ transaction.proc = NoTransaction.proc \/ transaction.proc \in Procs
  /\ ~IsRefused(database) /\ ~IsRefused(transaction.database)
  /\ \A p \in Procs : At(p, "migrating") =>
       Applied(database) \subseteq procs[p].applied \union procs[p].done
  /\ \A p \in Procs : transaction.proc = p =>
       MIGRATIONS[transaction.migration] \notin procs[p].applied \union procs[p].done

LEMMA AloneInit ==
  ASSUME Init, ~IsRefused(world.database)
  PROVE  Alone
<1>1. \A p \in Procs : procs[p].at = "down"
  BY DownShape DEF Init
<1>2. transaction = NoTransaction /\ database = world.database
  BY DEF Init
<1>3. ~IsRefused(NoTransaction.database)
  BY DEF NoTransaction, EmptyDatabase, IsRefused
<1> QED
  BY <1>1, <1>2, <1>3, ProcessAssumption DEF Alone, At

LEMMA RowsAreSuccesses ==
  ASSUME NEW d, IsDatabase(d), ~IsRefused(d), NEW m
  PROVE  /\ ~IsRefused(Run(d, m)) /\ ~IsRefused(InvalidateSessions(d))
         /\ ~IsRefused(Record(d, m))
<1>1. Run(d, m).rows = d.rows /\ InvalidateSessions(d).rows = d.rows
  BY DEF IsDatabase, Run, InvalidateSessions
<1>2. Record(d, m).rows = d.rows \union {Row(m, TRUE)}
  BY DEF IsDatabase, Record
<1>3. Row(m, TRUE).success
  BY Zenon DEF Row
<1>4. ASSUME NEW row \in Record(d, m).rows
      PROVE  row.success
  BY <1>2, <1>3, Zenon DEF IsRefused
<1> QED
  BY <1>1, <1>4, Zenon DEF IsRefused

LEMMA AloneStep ==
  ASSUME Shape, Whole, Alone, Step, ~world.overlap
  PROVE  Alone'
<1>1. CASE Quiet
  BY <1>1 DEF Quiet, Alone, At
<1>2. ASSUME NEW p \in Procs, Moves(p)
      PROVE  Alone'
  <2>1. /\ \A q \in Procs \ {p} : procs'[q] = procs[q]
        /\ procs[p].at # "down" /\ procs'[p].at # "migrating"
        /\ procs'[p].applied = procs[p].applied /\ procs'[p].done = procs[p].done
        /\ UNCHANGED <<database, transaction>>
    BY <1>2 DEF Moves, Others, Keeps, Before, After
  <2> QED
    BY <2>1 DEF Alone, At
<1>3. ASSUME NEW p \in Procs, Leaves(p)
      PROVE  Alone'
  <2>1. /\ \A q \in Procs \ {p} : procs'[q] = procs[q]
        /\ procs'[p].at = "down" /\ UNCHANGED database
    BY <1>3 DEF Leaves, Others
  <2>2. CASE transaction.proc = p
    <3>1. transaction' = NoTransaction
      BY <1>3, <2>2 DEF Leaves
    <3>2. ~IsRefused(NoTransaction.database)
      BY DEF NoTransaction, EmptyDatabase, IsRefused
    <3>3. \A q \in Procs : NoTransaction.proc # q
      BY ProcessAssumption
    <3> QED
      BY <2>1, <3>1, <3>2, <3>3 DEF Alone, At
  <2>3. CASE transaction.proc # p
    <3>1. transaction' = transaction
      BY <1>3, <2>3 DEF Leaves
    <3> QED
      BY <2>1, <2>3, <3>1 DEF Alone, At
  <2> QED
    BY <2>2, <2>3
<1>4. ASSUME NEW p \in Procs, Enters(p)
      PROVE  Alone'
  <2>1. /\ \A q \in Procs \ {p} : procs'[q] = procs[q]
        /\ \A q \in Procs : procs[q].at = "down"
        /\ procs'[p].applied = Applied(database)
        /\ UNCHANGED <<database, transaction>>
    BY <1>4 DEF Enters, Others, At
  <2>2. \A q \in Procs : transaction.proc # q
    BY <2>1 DEF Whole, Pending, At
  <2> QED
    BY <2>1, <2>2 DEF Alone, At
<1>5. ASSUME NEW p \in Procs, Begins(p)
      PROVE  Alone'
  <2>1. PICK i \in DOMAIN MIGRATIONS :
          /\ IsNextMigration(i, procs[p].applied, procs[p].done)
          /\ transaction' = [proc |-> p, database |-> Run(database, MIGRATIONS[i]),
                             migration |-> i, recorded |-> FALSE]
    BY <1>5 DEF Begins
  <2>2. UNCHANGED <<database, procs>>
    BY <1>5 DEF Begins
  <2>3. MIGRATIONS[i] \notin procs[p].applied \union procs[p].done
    BY <2>1 DEF IsNextMigration, ToApply
  <2>4. ~IsRefused(Run(database, MIGRATIONS[i]))
    BY RowsAreSuccesses DEF Alone, Shape
  <2>5. /\ transaction'.proc = p /\ transaction'.migration = i
        /\ transaction'.database = Run(database, MIGRATIONS[i])
    BY <2>1
  <2> QED
    BY <2>2, <2>3, <2>4, <2>5 DEF Alone, At
<1>6. ASSUME NEW p \in Procs, Records(p)
      PROVE  Alone'
  <2> DEFINE m == MIGRATIONS[transaction.migration]
  <2>1. /\ transaction'.proc = transaction.proc
        /\ transaction'.migration = transaction.migration
        /\ transaction'.database = Record(transaction.database, m)
        /\ UNCHANGED <<database, procs>>
    BY <1>6 DEF Records, Shape
  <2>2. ~IsRefused(Record(transaction.database, m))
    BY RowsAreSuccesses DEF Alone, Shape
  <2> QED
    BY <2>1, <2>2 DEF Alone, At
<1>7. ASSUME NEW p \in Procs, Commits(p)
      PROVE  Alone'
  <2> DEFINE m == MIGRATIONS[transaction.migration]
  <2>1. Pending /\ transaction.proc = p /\ transaction.recorded
    BY <1>7 DEF Commits, Whole
  <2>2. /\ database' = transaction.database /\ transaction' = NoTransaction
        /\ \A q \in Procs \ {p} : procs'[q] = procs[q]
        /\ procs[p].at = "migrating" /\ procs'[p].at = "migrating"
        /\ procs'[p].applied = procs[p].applied
        /\ procs'[p].done = procs[p].done \union {m}
    BY <1>7 DEF Commits, Others, Keeps, At
  <2>3. Applied(transaction.database) = Applied(database) \union {m}
    BY <2>1 DEF Pending
  <2>4. ~IsRefused(NoTransaction.database)
    BY DEF NoTransaction, EmptyDatabase, IsRefused
  <2>5. \A q \in Procs : NoTransaction.proc # q
    BY ProcessAssumption
  <2>6. Applied(database) \union {m} \subseteq procs'[p].applied \union procs'[p].done
    BY <2>2 DEF Alone, At
  <2>7. \A q \in Procs \ {p} : ~At(q, "migrating")
    BY <2>2 DEF Alone, At
  <2> QED
    BY <2>2, <2>3, <2>4, <2>5, <2>6, <2>7 DEF Alone, At
<1>8. ASSUME NEW p \in Procs, Finishes(p)
      PROVE  Alone'
  <2>1. /\ \A q \in Procs \ {p} : procs'[q] = procs[q]
        /\ procs[p].at = "migrating" /\ procs'[p].at = "configuring"
        /\ procs'[p].applied = procs[p].applied /\ procs'[p].done = procs[p].done
        /\ UNCHANGED <<database, transaction>>
    BY <1>8 DEF Finishes, Others, Keeps, At
  <2> QED
    BY <2>1 DEF Alone, At
<1>9. ASSUME NEW p \in Procs, Clears(p)
      PROVE  Alone'
  <2>1. /\ \A q \in Procs \ {p} : procs'[q] = procs[q]
        /\ procs[p].at = "clearing" /\ procs'[p].at = "listening"
        /\ procs'[p].applied = procs[p].applied /\ procs'[p].done = procs[p].done
        /\ database' = InvalidateSessions(database) /\ UNCHANGED transaction
    BY <1>9 DEF Clears, Others, Keeps, At
  <2>2. Applied(database') = Applied(database)
    BY <2>1, ClearKeeps DEF Shape
  <2>3. ~IsRefused(database')
    BY <2>1, RowsAreSuccesses DEF Alone, Shape
  <2> QED
    BY <2>1, <2>2, <2>3 DEF Alone, At
<1>10. ASSUME NEW p \in Procs, Logs(p)
       PROVE  Alone'
  <2>1. database'.rows = database.rows
    BY <1>10 DEF Logs, Shape, IsDatabase
  <2>2. Applied(database') = Applied(database)
    BY <2>1 DEF Applied
  <2>3. ~IsRefused(database')
    BY <2>1, Zenon DEF Alone, IsRefused
  <2>4. UNCHANGED <<procs, transaction>>
    BY <1>10 DEF Logs
  <2> QED
    BY <2>2, <2>3, <2>4 DEF Alone, At
<1> QED
  BY <1>1, <1>2, <1>3, <1>4, <1>5, <1>6, <1>7, <1>8, <1>9, <1>10 DEF Step

\* The migrations make different things: each thing has one migration that makes it.
MakerOf(thing) ==
  CASE thing \in {"users", "game_sessions", "participants", "station_urls"} -> "init"
    [] thing = "sam_the_fisher" -> "add sample"
    [] thing = "invites" -> "invites"
    [] thing = "user_sessions" -> "sessions"
    [] thing = "users.is_online" -> "user logout"

LEMMA MigrationNames ==
  ASSUME NEW i \in DOMAIN MIGRATIONS
  PROVE  /\ MIGRATIONS[i] \in {"init", "add sample", "invites", "sessions", "user logout"}
         /\ i = 1 <=> MIGRATIONS[i] = "init"
         /\ i = 1 \/ 1 \in 1 .. i - 1
<1>1. /\ MIGRATIONS[1] = "init" /\ MIGRATIONS[2] = "add sample" /\ MIGRATIONS[3] = "invites"
      /\ MIGRATIONS[4] = "sessions" /\ MIGRATIONS[5] = "user logout"
  BY DEF MIGRATIONS
<1>2. i \in 1 .. 5
  BY MigrationsDiffer
<1>3. i = 1 \/ i = 2 \/ i = 3 \/ i = 4 \/ i = 5
  BY <1>2
<1>4. i = 1 \/ 1 \in 1 .. i - 1
  BY <1>2
<1> QED
  BY <1>1, <1>3, <1>4

LEMMA OneMaker ==
  ASSUME NEW m \in {"init", "add sample", "invites", "sessions", "user logout"},
         NEW x \in Creates(m)
  PROVE  MakerOf(x) = m
BY DEF Creates, MakerOf

LEMMA NeedsUsers ==
  ASSUME NEW m
  PROVE  /\ Needs(m) \subseteq {"users"}
         /\ m = "init" => Needs(m) = {}
         /\ "users" \in Creates("init")
BY DEF Needs, Creates

\* In a whole database, the next migration runs.
LEMMA NextRuns ==
  ASSUME NEW d, IsWhole(d), Applied(d) \subseteq AllMigrations,
         NEW i \in DOMAIN MIGRATIONS, MIGRATIONS[i] \notin Applied(d),
         \A j \in 1 .. i - 1 : MIGRATIONS[j] \in Applied(d)
  PROVE  Runs(d, MIGRATIONS[i])
<1>1. d.schema = UNION {Creates(m) : m \in Applied(d)}
  BY DEF IsWhole
<1>2. ASSUME NEW x \in Creates(MIGRATIONS[i]), x \in d.schema
      PROVE  FALSE
  <2>1. PICK m \in Applied(d) : x \in Creates(m)
    BY <1>1, <1>2
  <2>2. PICK j \in DOMAIN MIGRATIONS : m = MIGRATIONS[j]
    BY DEF AllMigrations
  <2>3. MakerOf(x) = m /\ MakerOf(x) = MIGRATIONS[i]
    BY <1>2, <2>1, <2>2, MigrationNames, OneMaker
  <2> QED
    BY <2>3
<1>3. Needs(MIGRATIONS[i]) \subseteq d.schema
  <2>1. CASE i = 1
    BY <2>1, MigrationNames, NeedsUsers
  <2>2. CASE i # 1
    <3>1. 1 \in 1 .. i - 1 /\ 1 \in DOMAIN MIGRATIONS
      <4>1. 1 \in 1 .. i - 1
        BY <2>2, MigrationNames
      <4>2. 1 \in DOMAIN MIGRATIONS
        BY MigrationsDiffer
      <4> QED
        BY <4>1, <4>2
    <3>2. MIGRATIONS[1] \in Applied(d) /\ MIGRATIONS[1] = "init"
      BY <3>1, MigrationNames
    <3>3. Creates("init") \subseteq d.schema
      BY <1>1, <3>2
    <3> QED
      BY <3>3, NeedsUsers
  <2> QED
    BY <2>1, <2>2
<1> QED
  BY <1>2, <1>3 DEF Runs

-----------------------------------------------------------------------------
(***************************************************************************)
(* Then its config file.  It is missing, or fit, or was cut short when a   *)
(* crash came into its writing: whoever reads it then does not start, and  *)
(* nobody writes it again.                                                 *)
(***************************************************************************)
\* How many starts and crashes are left.
Counts ==
  /\ DOMAIN left = {"starts", "crashes"}
  /\ left.starts \in Nat /\ left.crashes \in Nat
  /\ world.starts \in Nat /\ world.crashes \in Nat
  /\ left.starts <= world.starts /\ left.crashes <= world.crashes

CutShort == configFile = PartialFile /\ left.crashes < world.crashes

Fit ==
  /\ configFile \in {NoFile, PartialFile} \/ FitConfig(configFile, world.publicIp)
  /\ configFile = PartialFile => CutShort \/ \E p \in Procs : At(p, "saved")
  /\ \A p \in Procs :
       /\ ~At(p, "down") => procs[p].why = ""
       /\ At(p, "saving") => configFile = NoFile
       /\ procs[p].at \in {"saving", "saved"} => FitConfig(procs[p].config, world.publicIp)
       /\ At(p, "parsing") =>
            \/ FitConfig(procs[p].config, world.publicIp)
            \/ procs[p].config = PartialFile /\ CutShort
       /\ procs[p].at \in Late => FitConfig(procs[p].config, world.publicIp)
       /\ procs[p].listening = 0 \/ procs[p].listening \in DOMAIN procs[p].services
       /\ \/ procs[p].why \in {"", "crash", "shutdown"}
          \/ /\ procs[p].why = "config" /\ CutShort
             /\ \A q \in Procs : ~At(q, "saved")

\* What is open to other processes and not to this one.
LEMMA SocketKept ==
  ASSUME NEW s, NEW t, s.type = t.type, s.listen = t.listen
  PROVE  Socket(s) = Socket(t)
BY DEF Socket

LEMMA ServicesOfFile ==
  ASSUME NEW file, IsText(file), IsConfig(file), NEW key
  PROVE  LET services == WithPublicIp(ParseConfig(file, key)) IN
         /\ DOMAIN services = DOMAIN Unique(file.services)
         /\ \A i \in DOMAIN services :
              /\ services[i].type = ParseConfig(file, NoKey)[i].type
              /\ services[i].listen = ParseConfig(file, NoKey)[i].listen
              /\ services[i].ticketKey = ParseConfig(file, key)[i].ticketKey
<1>1. PICK parsed, other, ip :
        parsed = ParseConfig(file, key) /\ other = ParseConfig(file, NoKey) /\ ip = world.publicIp
  OBVIOUS
<1>2. DOMAIN parsed = DOMAIN Unique(file.services)
  BY <1>1, ParsedServices
<1>3. \A i \in DOMAIN parsed : IsService(parsed[i]) /\ Alike(parsed[i], other[i])
  BY <1>1, <1>2, ParsedServices, ParsedAlike
<1>4. PICK services : services = WithPublicIp(parsed)
  OBVIOUS
<1>5. CASE ip = ""
  <2>1. services = parsed
    BY <1>1, <1>4, <1>5 DEF WithPublicIp
  <2> QED
    BY <1>1, <1>2, <1>3, <1>4, <2>1 DEF Alike
<1>6. CASE ip # ""
  <2>1. services = SetPublicIp(parsed, ip)
    BY <1>1, <1>4, <1>6 DEF WithPublicIp
  <2>2. DOMAIN services = DOMAIN parsed
    BY <2>1 DEF SetPublicIp
  <2>3. ASSUME NEW i \in DOMAIN parsed
        PROVE  /\ services[i].type = other[i].type
               /\ services[i].listen = other[i].listen
               /\ services[i].ticketKey = parsed[i].ticketKey
    <3>1. services[i] = Advertised(parsed[i], ip)
      BY <2>1, Zenon DEF SetPublicIp
    <3>2. PICK service : service = parsed[i] /\ IsService(service)
      BY <1>3
    <3>3. /\ Advertised(service, ip).type = service.type
          /\ Advertised(service, ip).listen = service.listen
          /\ Advertised(service, ip).ticketKey = service.ticketKey
      BY <3>2, AdvertisedService
    <3> QED
      BY <1>3, <3>1, <3>2, <3>3 DEF Alike
  <2> QED
    BY <1>1, <1>2, <1>4, <2>2, <2>3
<1> QED
  BY <1>5, <1>6

\* The sockets of a process that is past a fit config.
LEMMA OwnSockets ==
  ASSUME NEW p \in Procs, HasServices(p), FitConfig(procs[p].config, world.publicIp)
  PROVE  LET services == procs[p].services IN
         /\ \A i, j \in DOMAIN services : Socket(services[i]) = Socket(services[j]) => i = j
         /\ \A i \in DOMAIN services : Socket(services[i]) # ApiSocket
<1>1. PICK file, services : file = procs[p].config /\ services = procs[p].services
  OBVIOUS
<1>2. IsText(file) /\ IsConfig(file)
  BY <1>1 DEF HasServices
<1>3. PICK key : services = WithPublicIp(ParseConfig(file, key))
  BY <1>1 DEF HasServices
<1>4. PICK other : other = ParseConfig(file, NoKey)
  OBVIOUS
<1>5. /\ \A i, j \in DOMAIN other : Socket(other[i]) = Socket(other[j]) => i = j
      /\ \A i \in DOMAIN other : Socket(other[i]) # ApiSocket
  BY <1>1, <1>4 DEF FitConfig
<1>6. DOMAIN other = DOMAIN services
  BY <1>2, <1>3, <1>4, ParsedServices, ServicesOfFile
<1>7. \A i \in DOMAIN services : Socket(services[i]) = Socket(other[i])
  BY <1>2, <1>3, <1>4, ServicesOfFile, SocketKept
<1> QED
  BY <1>1, <1>5, <1>6, <1>7

LEMMA TypesAreGiven ==
  ASSUME NEW type \in ServiceTypes
  PROVE  type # ""
BY DEF ServiceTypes

LEMMA LocalIsAnAddress == Local(8000) # NotAnAddress /\ NoAddress # NotAnAddress
<1>1. \A x, y : x.host # y.host => x # y
  OBVIOUS
<1>2. Local(8000).host # NotAnAddress.host
  BY DEF Local, NotAnAddress, Address
<1>3. NoAddress.host # NotAnAddress.host
  BY DEF NoAddress, NotAnAddress, Address
<1> QED
  BY <1>1, <1>2, <1>3

\* The default config is fit.
LEMMA DefaultFits ==
  ASSUME NEW key, NEW publicIp
  PROVE  FitConfig(DefaultConfig(key), publicIp)
<1> DEFINE names == <<"onlineconfig", "content", "sc_bl_secure", "sc_bl_auth">>
<1>1. PICK file, other : file = DefaultConfig(key) /\ other = ParseConfig(file, NoKey)
  OBVIOUS
<1>2. file.form = "whole" /\ file.services = names
  BY <1>1 DEF DefaultConfig, FileWith
<1>3. DOMAIN file.service = {"sc_bl_auth", "sc_bl_secure", "onlineconfig", "content"}
  BY <1>1, DefaultNames
<1>4. ASSUME NEW name \in DOMAIN file.service
      PROVE  /\ TypeOf(file.service[name]) = file.service[name].type
             /\ IsTable(file.service[name])
             /\ file.service[name].storageHost # NotAnAddress
             /\ file.service[name].listen # NoAddress
  <2>1. PICK table : table = file.service[name]
    OBVIOUS
  <2>2. /\ table.type \in ServiceTypes /\ table.wellFormed = Table.wellFormed
        /\ table.listen \in {Everywhere(21126), Everywhere(21127), Everywhere(80), Everywhere(8000)}
        /\ table.storageHost \in {NoAddress, Local(8000)}
    BY <1>1, <1>3, <1>4, <2>1, DefaultTables DEF ServiceTypes
  <2>3. TypeOf(table) = table.type
    <3>1. PICK type \in ServiceTypes : type = table.type
      BY <2>2
    <3>2. type # ""
      BY TypesAreGiven
    <3> QED
      BY <3>1, <3>2 DEF TypeOf
  <2>4. \A port : Everywhere(port) # NoAddress
    BY DEF Everywhere, NoAddress, Address
  <2>5. Local(8000) # NotAnAddress /\ NoAddress # NotAnAddress
    BY LocalIsAnAddress
  <2>6. table.wellFormed
    <3>1. Table.wellFormed = TRUE
      BY DEF Table
    <3>2. table.wellFormed = TRUE
      BY <2>2, <3>1
    <3> QED
      BY <3>2, Zenon
  <2>7. IsTable(table)
    BY <2>2, <2>3, <2>4, <2>6 DEF IsTable, ServiceTypes
  <2> QED
    BY <2>1, <2>2, <2>3, <2>4, <2>5, <2>7
<1>5. IsText(file)
  BY <1>1, MadeTexts
<1>6. \A i \in DOMAIN names : names[i] \in DOMAIN file.service
  BY <1>3
<1>7. IsConfig(file)
  BY <1>2, <1>4, <1>6 DEF IsConfig
<1>8. PICK unique : unique = Unique(file.services)
  OBVIOUS
<1>9. DOMAIN other = DOMAIN unique
  BY <1>1, <1>5, <1>7, <1>8, ParsedServices
<1>10. ASSUME NEW i \in DOMAIN unique
       PROVE  /\ unique[i] \in DOMAIN file.service
              /\ other[i].type = file.service[unique[i]].type
              /\ other[i].listen = file.service[unique[i]].listen
              /\ other[i].storageHost = file.service[unique[i]].storageHost
  <2>1. unique[i] \in DOMAIN file.service /\ DOMAIN TableOf(file, i) = DOMAIN Table
    BY <1>5, <1>7, <1>8, ListedTables
  <2>2. PICK table : table = file.service[unique[i]] /\ table = TableOf(file, i)
    BY <1>8 DEF TableOf
  <2>3. other[i] = ParseService(table, NoKey)
    BY <1>1, <1>5, <1>7, <1>8, <2>2, ParsedServices
  <2>4. /\ other[i].type = TypeOf(table) /\ other[i].storageHost = table.storageHost
        /\ other[i].listen = IF table.listen = NoAddress THEN Everywhere(9999) ELSE table.listen
    BY <2>1, <2>2, <2>3, ParsedService
  <2>5. TypeOf(table) = table.type /\ table.listen # NoAddress
    BY <1>4, <2>1, <2>2
  <2> QED
    BY <2>1, <2>2, <2>4, <2>5
<1>11. \A i, j \in DOMAIN unique : unique[i] = unique[j] => i = j
  BY <1>5, <1>8, ListedNames DEF IsListing
<1>12. CanAdvertise(other)
  BY <1>4, <1>9, <1>10 DEF CanAdvertise
<1>13. ASSUME NEW i \in DOMAIN unique
       PROVE  Socket(other[i]) =
                CASE unique[i] = "sc_bl_auth" -> <<"udp", 21126>>
                  [] unique[i] = "sc_bl_secure" -> <<"udp", 21127>>
                  [] unique[i] = "onlineconfig" -> <<"tcp", 80>>
                  [] unique[i] = "content" -> <<"tcp", 8000>>
  <2>1. PICK name, table : name = unique[i] /\ table = file.service[name]
    OBVIOUS
  <2>2. name \in DOMAIN file.service /\ other[i].type = table.type /\ other[i].listen = table.listen
    BY <1>10, <2>1
  <2>3. \A port : Everywhere(port).port = port
    BY DEF Everywhere, Address
  <2>4. /\ name = "sc_bl_auth" => table.type = "authentication" /\ table.listen.port = 21126
        /\ name = "sc_bl_secure" => table.type = "secure" /\ table.listen.port = 21127
        /\ name = "onlineconfig" => table.type = "config" /\ table.listen.port = 80
        /\ name = "content" => table.type = "content" /\ table.listen.port = 8000
    BY <1>1, <2>1, <2>2, <2>3, DefaultTables
  <2>5. Socket(other[i]) = <<IF IsQuazal(table.type) THEN "udp" ELSE "tcp", table.listen.port>>
    BY <2>2 DEF Socket
  <2>6. name \in {"sc_bl_auth", "sc_bl_secure", "onlineconfig", "content"}
    BY <1>3, <2>2
  <2> QED
    BY <2>1, <2>4, <2>5, <2>6 DEF IsQuazal
<1>14. \A i \in DOMAIN unique :
         unique[i] \in {"sc_bl_auth", "sc_bl_secure", "onlineconfig", "content"}
  BY <1>3, <1>10
<1>15. ASSUME NEW i \in DOMAIN other, NEW j \in DOMAIN other, Socket(other[i]) = Socket(other[j])
       PROVE  i = j
  <2>1. unique[i] = unique[j]
    BY <1>9, <1>13, <1>14, <1>15
  <2> QED
    BY <1>9, <1>11, <2>1
<1>16. ASSUME NEW i \in DOMAIN other
       PROVE  Socket(other[i]) # ApiSocket
  BY <1>9, <1>13, <1>14 DEF ApiSocket
<1> QED
  BY <1>1, <1>7, <1>12, <1>15, <1>16 DEF FitConfig

LEMMA ParsedLength ==
  ASSUME NEW file, IsText(file), IsConfig(file), NEW key,
         NEW services, services = WithPublicIp(ParseConfig(file, key))
  PROVE  /\ DOMAIN services = 1 .. Len(services)
         /\ Len(services) \in Nat
<1>1. PICK n \in Nat : DOMAIN Unique(file.services) = 1 .. n
  BY ListedNames
<1>2. DOMAIN services = 1 .. n
  BY <1>1, ServicesOfFile
<1>3. services = [i \in DOMAIN services |-> services[i]]
  <2>1. PICK parsed : parsed = ParseConfig(file, key) /\ services = WithPublicIp(parsed)
    OBVIOUS
  <2>2. parsed = [i \in DOMAIN parsed |-> parsed[i]]
    BY <2>1 DEF ParseConfig
  <2> QED
    BY <2>1, <2>2 DEF WithPublicIp, SetPublicIp
<1>4. Len(services) = n
  BY <1>2, <1>3, SeqFunction
<1> QED
  BY <1>2, <1>4

LEMMA ServicesLength ==
  ASSUME NEW p \in Procs, HasServices(p)
  PROVE  /\ DOMAIN procs[p].services = 1 .. Len(procs[p].services)
         /\ Len(procs[p].services) \in Nat
<1>1. PICK file, services : file = procs[p].config /\ services = procs[p].services
  OBVIOUS
<1>2. IsText(file) /\ IsConfig(file)
  BY <1>1 DEF HasServices
<1>3. PICK key : services = WithPublicIp(ParseConfig(file, key))
  BY <1>1 DEF HasServices
<1> QED
  BY <1>1, <1>2, <1>3, ParsedLength

\* Why such a server stops.
LEMMA FitEnds ==
  ASSUME Shape, Steady, Whole, Alone, Fit, NEW p \in Procs, NEW why, Ends(p, why),
         ~At(p, "down") \/ \A q \in Procs : At(q, "down")
  PROVE  \/ why \in {"crash", "shutdown"}
         \/ why = "config" /\ At(p, "parsing") /\ CutShort
<1>1. ~Locked(p)
  <2>1. SUFFICES ASSUME Locked(p) PROVE FALSE
    OBVIOUS
  <2>2. transaction.proc # p /\ transaction.proc \in Procs
    BY <2>1 DEF Locked, Alone
  <2>3. At(transaction.proc, "migrating")
    BY <2>2 DEF Whole, Pending
  <2>4. ~At(transaction.proc, "down")
    BY <2>3 DEF At
  <2> QED
    BY <2>2, <2>4 DEF Alone
<1>2. ASSUME At(p, "migrating"), transaction.proc # p, NEW i \in DOMAIN MIGRATIONS,
             IsNextMigration(i, procs[p].applied, procs[p].done)
      PROVE  Runs(database, MIGRATIONS[i])
  <2>1. Applied(database) = procs[p].applied \union procs[p].done
    BY <1>2 DEF Alone, Whole, Known, At
  <2>2. MIGRATIONS[i] \notin Applied(database)
    BY <1>2, <2>1 DEF IsNextMigration, ToApply
  <2>3. \A j \in 1 .. i - 1 : MIGRATIONS[j] \in Applied(database)
    BY <1>2, <2>1, NextIsInOrder
  <2> QED
    BY <2>2, <2>3, NextRuns DEF Whole
<1>3. ASSUME At(p, "migrating"), transaction.proc = p, ~transaction.recorded
      PROVE  ~IsRecorded(transaction.database, MIGRATIONS[transaction.migration])
  <2>1. Applied(transaction.database) = Applied(database)
    BY <1>3 DEF Whole, Pending
  <2>2. MIGRATIONS[transaction.migration] \notin Applied(database)
    BY <1>3 DEF Alone
  <2> QED
    BY <2>1, <2>2 DEF IsRecorded, Applied
<1>4. ASSUME At(p, "parsing"), IsConfig(procs[p].config), world.publicIp # ""
      PROVE  CanAdvertise(ParseConfig(procs[p].config, keys + 1))
  <2>1. PICK file, ip, key : file = procs[p].config /\ ip = world.publicIp /\ key = keys + 1
    OBVIOUS
  <2>2. file # PartialFile
    <3>1. PartialFile.form = "partial"
      BY DEF PartialFile, NoFile
    <3> QED
      BY <1>4, <2>1, <3>1 DEF IsConfig
  <2>3. FitConfig(file, ip)
    BY <1>4, <2>1, <2>2 DEF Fit
  <2>4. IsText(file) /\ IsConfig(file)
    BY <1>4, <2>1 DEF Steady, At
  <2>5. PICK s, t : s = ParseConfig(file, NoKey) /\ t = ParseConfig(file, key)
    OBVIOUS
  <2>6. CanAdvertise(s)
    BY <1>4, <2>1, <2>3, <2>5 DEF FitConfig
  <2>7. DOMAIN s = DOMAIN t /\ \A i \in DOMAIN s : Alike(s[i], t[i])
    BY <2>4, <2>5, ParsedServices, ParsedAlike
  <2>8. CanAdvertise(t)
    BY <2>6, <2>7 DEF CanAdvertise, Alike
  <2> QED
    BY <2>1, <2>5, <2>8
<1>5. ASSUME At(p, "listening"), NEW socket \in InUse
      PROVE  \E i \in 1 .. procs[p].listening : socket = Socket(procs[p].services[i])
  <2>1. PICK q \in Procs : socket \in Sockets(q)
    BY <1>5 DEF InUse
  <2>2. q = p
    <3>1. SUFFICES ASSUME q # p PROVE FALSE
      OBVIOUS
    <3>2. At(q, "down")
      BY <1>5, <3>1 DEF Alone, At
    <3>3. procs[q].listening = 0
      BY <3>2 DEF Steady, Early, At
    <3>4. Sockets(q) = {}
      BY <3>2, <3>3 DEF Sockets, Serving, At
    <3> QED
      BY <2>1, <3>4
  <2> QED
    BY <1>5, <2>1, <2>2 DEF Sockets, Serving, At
<1>6. ASSUME At(p, "listening")
      PROVE  LET services == procs[p].services IN
             /\ \A i, j \in 1 .. Len(services) :
                  Socket(services[i]) = Socket(services[j]) => i = j
             /\ \A i \in 1 .. Len(services) : Socket(services[i]) # ApiSocket
             /\ procs[p].listening \in 0 .. Len(services)
  <2>1. HasServices(p) /\ FitConfig(procs[p].config, world.publicIp)
    BY <1>6 DEF Steady, Fit, Late, At
  <2>2. /\ DOMAIN procs[p].services = 1 .. Len(procs[p].services)
        /\ Len(procs[p].services) \in Nat
    BY <2>1, ServicesLength
  <2>3. procs[p].listening \in 0 .. Len(procs[p].services)
    <3>1. procs[p].listening = 0 \/ procs[p].listening \in DOMAIN procs[p].services
      BY Zenon DEF Fit
    <3> QED
      BY <2>2, <3>1
  <2> QED
    BY <2>1, <2>2, <2>3, OwnSockets
<1>7. ~(At(p, "listening") /\ ApiSocket \in InUse)
  <2>1. SUFFICES ASSUME At(p, "listening"), ApiSocket \in InUse PROVE FALSE
    OBVIOUS
  <2>2. PICK i \in 1 .. procs[p].listening : ApiSocket = Socket(procs[p].services[i])
    BY <1>5, <2>1
  <2>3. i \in 1 .. Len(procs[p].services)
    BY <1>6, <2>1
  <2> QED
    BY <1>6, <2>1, <2>2, <2>3
<1>8. ASSUME At(p, "listening"), procs[p].listening + 1 <= Len(procs[p].services)
      PROVE  Socket(procs[p].services[procs[p].listening + 1]) \notin InUse
  <2> DEFINE next == procs[p].listening + 1
  <2>1. SUFFICES ASSUME Socket(procs[p].services[next]) \in InUse PROVE FALSE
    OBVIOUS
  <2>2. PICK i \in 1 .. procs[p].listening :
          Socket(procs[p].services[next]) = Socket(procs[p].services[i])
    BY <1>5, <1>8, <2>1
  <2>3. /\ i \in 1 .. Len(procs[p].services) /\ next \in 1 .. Len(procs[p].services)
        /\ i # next
    BY <1>6, <1>8 DEF Shape
  <2> QED
    BY <1>6, <1>8, <2>2, <2>3
<1>9. CASE why = "refused"
  BY <1>9 DEF Ends, Alone
<1>10. CASE why = "locked"
  BY <1>1, <1>10 DEF Ends
<1>11. CASE why = "migration"
  BY <1>2, <1>3, <1>11 DEF Ends
<1>12. CASE why = "config"
  <2>1. At(p, "parsing") /\ ~IsConfig(procs[p].config)
    BY <1>12 DEF Ends
  <2>2. ~FitConfig(procs[p].config, world.publicIp)
    BY <2>1 DEF FitConfig
  <2> QED
    BY <1>12, <2>1, <2>2 DEF Fit
<1>13. CASE why = "address"
  BY <1>4, <1>13 DEF Ends
<1>14. CASE why = "port"
  BY <1>7, <1>8, <1>14 DEF Ends
<1> QED
  BY <1>9, <1>10, <1>11, <1>12, <1>13, <1>14 DEF Ends

LEMMA CountsInit ==
  ASSUME Init
  PROVE  Counts
<1>1. world.starts \in Nat /\ world.crashes \in Nat
  BY ProcessAssumption DEF Init
<1>2. left = [starts |-> world.starts, crashes |-> world.crashes]
  BY DEF Init
<1> QED
  BY <1>1, <1>2 DEF Counts

LEMMA CountsStep ==
  ASSUME Counts, Course
  PROVE  /\ Counts' /\ UNCHANGED world
         /\ left'.starts <= left.starts /\ left'.crashes <= left.crashes
<1>1. UNCHANGED world
  BY DEF Course, Rests, Stops, Launches, Proceeds, MakeConfig, SaveConfig, ReadConfig, Configures,
         LogIn
<1>2. \/ UNCHANGED left
      \/ left.starts > 0 /\ left' = [left EXCEPT !.starts = @ - 1]
      \/ left.crashes > 0 /\ left' = [left EXCEPT !.crashes = @ - 1]
  BY DEF Course, Rests, Stops, Launches, Proceeds, MakeConfig, SaveConfig, ReadConfig, Configures,
         LogIn
<1>3. CASE UNCHANGED left
  BY <1>1, <1>3 DEF Counts
<1>4. CASE left.starts > 0 /\ left' = [left EXCEPT !.starts = @ - 1]
  <2>1. /\ DOMAIN left' = {"starts", "crashes"}
        /\ left'.starts = left.starts - 1 /\ left'.crashes = left.crashes
    BY <1>4 DEF Counts
  <2> QED
    BY <1>1, <1>4, <2>1 DEF Counts
<1>5. CASE left.crashes > 0 /\ left' = [left EXCEPT !.crashes = @ - 1]
  <2>1. /\ DOMAIN left' = {"starts", "crashes"}
        /\ left'.crashes = left.crashes - 1 /\ left'.starts = left.starts
    BY <1>5 DEF Counts
  <2> QED
    BY <1>1, <1>5, <2>1 DEF Counts
<1> QED
  BY <1>1, <1>2, <1>3, <1>4, <1>5

LEMMA FitInit ==
  ASSUME Init, IsFit
  PROVE  Fit
<1>1. configFile = world.configFile /\ \A p \in Procs : procs[p] = Down("")
  BY DEF Init
<1>2. configFile = NoFile \/ FitConfig(configFile, world.publicIp)
  BY <1>1 DEF IsFit
<1>3. NoFile # PartialFile
  <2>1. NoFile.form = "absent" /\ PartialFile.form = "partial"
    BY DEF NoFile, PartialFile
  <2> QED
    BY <2>1
<1>4. ~FitConfig(PartialFile, world.publicIp)
  BY DEF FitConfig, IsConfig, PartialFile, NoFile
<1>5. configFile # PartialFile
  BY <1>2, <1>3, <1>4
<1> QED
  BY <1>1, <1>2, <1>5, DownCourse, Zenon DEF Fit, At, Late

\* The state of one process, in Fit.
FitProcess(p) ==
  /\ ~At(p, "down") => procs[p].why = ""
  /\ At(p, "saving") => configFile = NoFile
  /\ procs[p].at \in {"saving", "saved"} => FitConfig(procs[p].config, world.publicIp)
  /\ At(p, "parsing") =>
       FitConfig(procs[p].config, world.publicIp) \/ (procs[p].config = PartialFile /\ CutShort)
  /\ procs[p].at \in Late => FitConfig(procs[p].config, world.publicIp)
  /\ procs[p].listening = 0 \/ procs[p].listening \in DOMAIN procs[p].services
  /\ \/ procs[p].why \in {"", "crash", "shutdown"}
     \/ /\ procs[p].why = "config" /\ CutShort
        /\ \A q \in Procs : ~At(q, "saved")

LEMMA FitParts ==
  Fit <=> /\ configFile \in {NoFile, PartialFile} \/ FitConfig(configFile, world.publicIp)
          /\ configFile = PartialFile => CutShort \/ \E p \in Procs : At(p, "saved")
          /\ \A p \in Procs : FitProcess(p)
BY DEF Fit, FitProcess

\* A process that did not change is as fit as before, if the file is the same.
LEMMA FitOthers ==
  ASSUME NEW p \in Procs, FitProcess(p), procs'[p] = procs[p], UNCHANGED <<world, configFile>>,
         Counts, Counts', left'.crashes <= left.crashes,
         (\A q \in Procs : ~At(q, "saved")) => (\A q \in Procs : ~At(q, "saved")')
  PROVE  FitProcess(p)'
<1>1. CutShort => CutShort'
  BY DEF CutShort, Counts
<1> QED
  BY <1>1, Zenon DEF FitProcess, At

LEMMA FileStates ==
  /\ NoFile # PartialFile
  /\ ~IsConfig(PartialFile) /\ ~IsConfig(NoFile)
<1>1. NoFile.form = "absent" /\ PartialFile.form = "partial"
  BY DEF NoFile, PartialFile
<1> QED
  BY <1>1 DEF IsConfig

LEMMA FitStops ==
  ASSUME Shape, Steady, Whole, Alone, Fit, Counts, ~world.overlap, NEW p \in Procs, Stops(p),
         Counts', left'.crashes <= left.crashes
  PROVE  Fit'
<1>1. PICK why :
        /\ procs'[p] = Down(why) /\ Ends(p, why)
        /\ \/ why # "crash" /\ left'.crashes <= left.crashes
           \/ why = "crash" /\ left.crashes > 0 /\ left' = [left EXCEPT !.crashes = @ - 1]
  BY DEF Stops
<1>2. /\ ~At(p, "down") \/ \A q \in Procs : At(q, "down")
      /\ UNCHANGED <<world, configFile>> /\ Others(p)
  BY DEF Stops
<1>3. \/ why \in {"crash", "shutdown"}
      \/ why = "config" /\ At(p, "parsing") /\ CutShort
  BY <1>1, <1>2, FitEnds
<1>4. /\ procs'[p].at = "down" /\ procs'[p].why = why /\ procs'[p].services = << >>
      /\ procs'[p].listening = 0
  BY <1>1, DownCourse
<1>5. CutShort => CutShort'
  BY <1>2 DEF CutShort, Counts
<1>6. \A q \in Procs : At(q, "saved")' => At(q, "saved")
  BY <1>2, <1>4 DEF Others, At
<1>7. FitProcess(p)'
  <2>1. CASE why \in {"crash", "shutdown"}
    BY <1>4, <2>1 DEF FitProcess, At, Late
  <2>2. CASE why = "config" /\ At(p, "parsing") /\ CutShort
    <3>1. \A q \in Procs : ~At(q, "saved")
      BY <2>2 DEF Alone, At
    <3>2. \A q \in Procs : ~At(q, "saved")'
      BY <1>6, <3>1
    <3>3. CutShort'
      BY <1>5, <2>2
    <3> QED
      BY <1>4, <2>2, <3>2, <3>3 DEF FitProcess, At, Late
  <2> QED
    BY <1>3, <2>1, <2>2
<1>8. ASSUME NEW q \in Procs \ {p}
      PROVE  FitProcess(q)'
  <2>1. procs'[q] = procs[q]
    BY <1>2 DEF Others
  <2> QED
    BY <1>2, <1>6, <2>1, FitParts, FitOthers
<1>9. (configFile = PartialFile => CutShort \/ \E q \in Procs : At(q, "saved"))'
  <2>1. SUFFICES ASSUME configFile = PartialFile, ~CutShort
                 PROVE  CutShort' \/ \E q \in Procs : At(q, "saved")'
    BY <1>2, <1>5
  <2>2. PICK q \in Procs : At(q, "saved")
    BY <2>1 DEF Fit
  <2>3. CASE q # p
    <3>1. At(q, "saved")'
      BY <1>2, <2>2, <2>3 DEF Others, At
    <3> QED
      BY <3>1
  <2>4. CASE q = p
    <3>1. why = "crash"
      <4>1. why # "shutdown"
        BY <1>1, <2>2, <2>4 DEF Ends, At
      <4>2. ~At(p, "parsing")
        BY <2>2, <2>4 DEF At
      <4> QED
        BY <1>3, <4>1, <4>2
    <3>2. left'.crashes = left.crashes - 1
      BY <1>1, <3>1 DEF Counts
    <3>3. left'.crashes < world'.crashes
      BY <1>2, <3>2 DEF Counts
    <3> QED
      BY <1>2, <2>1, <3>3 DEF CutShort
  <2> QED
    BY <2>3, <2>4
<1>10. (configFile \in {NoFile, PartialFile} \/ FitConfig(configFile, world.publicIp))'
  BY <1>2 DEF Fit
<1>11. \A q \in Procs : FitProcess(q)'
  BY <1>7, <1>8
<1>12. (\A q \in Procs : FitProcess(q))'
  BY <1>11
<1> QED
  BY <1>9, <1>10, <1>12 DEF Fit, FitProcess

\* A step that leaves the file alone and keeps nobody at its second half.
LEMMA FitMoves ==
  ASSUME Fit, Counts, Counts', left'.crashes <= left.crashes, NEW p \in Procs, Others(p),
         UNCHANGED <<world, configFile>>, ~At(p, "saved"), ~At(p, "saved")', FitProcess(p)'
  PROVE  Fit'
<1>1. \A q \in Procs : At(q, "saved")' <=> At(q, "saved")
  BY DEF Others, At
<1>2. CutShort => CutShort'
  BY DEF CutShort, Counts
<1>3. ASSUME NEW q \in Procs \ {p}
      PROVE  FitProcess(q)'
  <2>1. procs'[q] = procs[q]
    BY DEF Others
  <2> QED
    BY <1>1, <2>1, FitParts, FitOthers
<1>4. \A q \in Procs : FitProcess(q)'
  BY <1>3
<1>5. (configFile = PartialFile => CutShort \/ \E q \in Procs : At(q, "saved"))'
  BY <1>1, <1>2 DEF Fit
<1>6. (configFile \in {NoFile, PartialFile} \/ FitConfig(configFile, world.publicIp))'
  BY DEF Fit
<1>7. (\A q \in Procs : FitProcess(q))'
  BY <1>4
<1> QED
  BY <1>5, <1>6, <1>7 DEF Fit, FitProcess

LEMMA FitProceeds ==
  ASSUME Shape, Steady, Fit, Counts, NEW p \in Procs, Launches(p) \/ Proceeds(p),
         ~world.overlap, Counts', left'.crashes <= left.crashes
  PROVE  Fit'
<1>1. CASE Launches(p)
  <2>1. /\ procs'[p].at = "migrating" /\ procs'[p].why = "" /\ procs'[p].services = << >>
        /\ procs'[p].listening = 0
    BY <1>1, LaunchCourse
  <2>2. FitProcess(p)'
    BY <2>1 DEF FitProcess, At, Late
  <2>3. ~At(p, "saved") /\ ~At(p, "saved")'
    BY <1>1, <2>1 DEF At, Launches
  <2> QED
    BY <1>1, <2>2, <2>3, FitMoves DEF Launches
<1>2. CASE Proceeds(p)
  <2>1. /\ Others(p) /\ UNCHANGED <<world, configFile>>
        /\ procs'[p].why = procs[p].why /\ procs'[p].config = procs[p].config
        /\ procs'[p].services = procs[p].services
    BY <1>2 DEF Proceeds
  <2>2. procs[p].why = "" /\ FitProcess(p)
    <3>1. FitProcess(p)
      BY FitParts
    <3>2. ~At(p, "down")
      BY <1>2 DEF Proceeds, At
    <3> QED
      BY <3>1, <3>2 DEF FitProcess
  <2>3. CASE procs[p].at = "migrating"
    <3>1. procs'[p].at \in {"migrating", "configuring"} /\ procs'[p].listening = procs[p].listening
      BY <1>2, <2>3 DEF Proceeds
    <3>2. procs[p].listening = 0
      BY <2>3 DEF Steady, Early
    <3>3. FitProcess(p)'
      BY <2>1, <2>2, <3>1, <3>2 DEF FitProcess, At, Late
    <3>4. ~At(p, "saved") /\ ~At(p, "saved")'
      BY <2>3, <3>1 DEF At
    <3> QED
      BY <2>1, <3>3, <3>4, FitMoves
  <2>4. CASE procs[p].at # "migrating"
    <3>1. /\ procs[p].at \in {"preparing", "copying", "clearing", "listening"}
          /\ procs'[p].at \in {"copying", "clearing", "listening", "running"}
      BY <1>2, <2>4 DEF Proceeds
    <3>2. HasServices(p) /\ FitConfig(procs[p].config, world.publicIp)
      BY <2>2, <3>1 DEF Steady, FitProcess, Late
    <3>3. /\ DOMAIN procs[p].services = 1 .. Len(procs[p].services)
          /\ Len(procs[p].services) \in Nat
      BY <3>2, ServicesLength
    <3>4. procs'[p].listening = 0 \/ procs'[p].listening \in DOMAIN procs[p].services
      <4>1. CASE procs'[p].listening = procs[p].listening
        BY <2>2, <4>1, Zenon DEF FitProcess
      <4>2. CASE procs'[p].listening # procs[p].listening
        <5>1. /\ procs'[p].listening = procs[p].listening + 1
              /\ procs[p].listening + 1 <= Len(procs[p].services)
          BY <1>2, <4>2 DEF Proceeds
        <5>2. procs[p].listening \in Nat
          BY DEF Shape
        <5>3. PICK n, l \in Nat : n = procs[p].listening /\ l = Len(procs[p].services)
          BY <3>3, <5>2
        <5>4. n + 1 \in 1 .. l
          BY <5>1, <5>2, <5>3
        <5> QED
          BY <3>3, <5>1, <5>3, <5>4
      <4> QED
        BY <4>1, <4>2
    <3>5. FitProcess(p)'
      BY <2>1, <2>2, <3>1, <3>2, <3>4 DEF FitProcess, At, Late
    <3>6. ~At(p, "saved") /\ ~At(p, "saved")'
      BY <3>1 DEF At
    <3> QED
      BY <2>1, <3>5, <3>6, FitMoves
  <2> QED
    BY <2>3, <2>4
<1> QED
  BY <1>1, <1>2

LEMMA FitConfigures ==
  ASSUME Shape, Steady, Alone, Fit, Counts, NEW p \in Procs,
         MakeConfig(p) \/ ReadConfig(p) \/ Configures(p),
         Counts', left'.crashes <= left.crashes
  PROVE  Fit'
<1>1. FitProcess(p)
  BY FitParts
<1>2. procs[p].at \in {"configuring", "parsing"}
  BY DEF MakeConfig, ReadConfig, Configures, At
<1>3. procs[p].why = "" /\ procs[p].listening = 0 /\ ~At(p, "saved")
  BY <1>1, <1>2 DEF FitProcess, At, Steady, Early
<1>4. UNCHANGED <<world, configFile>>
  BY DEF MakeConfig, ReadConfig, Configures, files
<1>5. CASE MakeConfig(p)
  <2>1. PICK made : made = DefaultConfig(keys + 1)
    OBVIOUS
  <2>2. procs' = [procs EXCEPT ![p].config = made,
                              ![p].at = IF world.unwritable THEN "parsing" ELSE "saving"]
    BY <1>5, <2>1 DEF MakeConfig
  <2>3. /\ Others(p) /\ procs'[p].config = made /\ procs'[p].at \in {"parsing", "saving"}
        /\ procs'[p].why = "" /\ procs'[p].listening = 0
    BY <1>3, <2>2 DEF Others, Shape, IsProc
  <2>4. PICK ip : ip = world.publicIp
    OBVIOUS
  <2>5. FitConfig(made, ip)
    BY <2>1, DefaultFits
  <2>6. configFile = NoFile
    BY <1>5 DEF MakeConfig
  <2>7. FitProcess(p)'
    BY <1>4, <2>3, <2>4, <2>5, <2>6 DEF FitProcess, At, Late
  <2>8. ~At(p, "saved")'
    BY <2>3 DEF At
  <2> QED
    BY <1>3, <1>4, <2>3, <2>7, <2>8, FitMoves
<1>6. CASE ReadConfig(p)
  <2>1. PICK file : file = configFile
    OBVIOUS
  <2>2. procs' = [procs EXCEPT ![p].config = file, ![p].at = "parsing"]
    BY <1>6, <2>1 DEF ReadConfig
  <2>3. /\ Others(p) /\ procs'[p].config = file /\ procs'[p].at = "parsing"
        /\ procs'[p].why = "" /\ procs'[p].listening = 0
    BY <1>3, <2>2 DEF Others, Shape, IsProc
  <2>4. \A q \in Procs : ~At(q, "saved")
    BY <1>2 DEF Alone, At
  <2>5. FitConfig(file, world.publicIp) \/ (file = PartialFile /\ CutShort)
    BY <1>6, <2>1, <2>4 DEF ReadConfig, Fit
  <2>6. CutShort => CutShort'
    BY <1>4 DEF CutShort, Counts
  <2>7. FitProcess(p)'
    BY <1>4, <2>3, <2>5, <2>6 DEF FitProcess, At, Late
  <2>8. ~At(p, "saved")'
    BY <2>3 DEF At
  <2> QED
    BY <1>3, <1>4, <2>3, <2>7, <2>8, FitMoves
<1>7. CASE Configures(p)
  <2>1. PICK services : procs' = [procs EXCEPT ![p].services = services, ![p].at = "preparing"]
    BY <1>7 DEF Configures
  <2>2. /\ Others(p) /\ procs'[p].config = procs[p].config /\ procs'[p].at = "preparing"
        /\ procs'[p].why = "" /\ procs'[p].listening = 0
    BY <1>3, <2>1 DEF Others, Shape, IsProc
  <2>3. procs[p].config # PartialFile
    BY <1>7, FileStates DEF Configures
  <2>4. FitConfig(procs[p].config, world.publicIp)
    BY <1>1, <1>7, <2>3 DEF FitProcess, Configures
  <2>5. FitProcess(p)'
    BY <1>4, <2>2, <2>4 DEF FitProcess, At, Late
  <2>6. ~At(p, "saved")'
    BY <2>2 DEF At
  <2> QED
    BY <1>3, <1>4, <2>2, <2>5, <2>6, FitMoves
<1> QED
  BY <1>5, <1>6, <1>7

\* While the file is written, nobody has refused it, and the others are down.
LEMMA FitSaves ==
  ASSUME Shape, Steady, Alone, Fit, NEW p \in Procs, SaveConfig(p)
  PROVE  Fit'
<1>1. PICK place \in {"saved", "parsing"} : procs' = [procs EXCEPT ![p].at = place]
  BY DEF SaveConfig, Goes
<1>2. /\ Others(p) /\ procs'[p].at = place /\ procs'[p].config = procs[p].config
      /\ procs'[p].why = procs[p].why /\ procs'[p].listening = procs[p].listening
  BY <1>1 DEF Others, Shape, IsProc
<1>3. procs[p].at \in {"saving", "saved"} /\ UNCHANGED world
  BY DEF SaveConfig, At
<1>4. /\ procs[p].why = "" /\ procs[p].listening = 0 /\ FitConfig(procs[p].config, world.publicIp)
  BY <1>3, FitParts DEF FitProcess, At, Steady, Early
<1>5. \A q \in Procs : procs[q].why # "config"
  <2>1. CASE At(p, "saving")
    <3>1. ~CutShort
      BY <2>1, FileStates DEF Fit, CutShort
    <3> QED
      BY <3>1, Zenon DEF Fit
  <2>2. CASE At(p, "saved")
    BY <2>2, Zenon DEF Fit
  <2> QED
    BY <1>3, <2>1, <2>2 DEF At
<1>6. ASSUME NEW q \in Procs \ {p}
      PROVE  FitProcess(q)'
  <2>1. procs'[q] = procs[q]
    BY <1>2 DEF Others
  <2>2. procs[q].at = "down"
    BY <1>3 DEF Alone, At
  <2>3. procs[q].listening = 0
    BY <2>2 DEF Steady, Early
  <2>4. procs[q].why \in {"", "crash", "shutdown"}
    <3>1. procs[q].why # "config"
      BY <1>5
    <3> QED
      BY <3>1, Zenon DEF Fit
  <2> QED
    BY <2>1, <2>2, <2>3, <2>4 DEF FitProcess, At, Late
<1>7. FitProcess(p)'
  BY <1>2, <1>3, <1>4 DEF FitProcess, At, Late
<1>8. (configFile \in {NoFile, PartialFile} \/ FitConfig(configFile, world.publicIp))'
  BY <1>3, <1>4 DEF SaveConfig
<1>9. (configFile = PartialFile => CutShort \/ \E q \in Procs : At(q, "saved"))'
  <2>1. CASE At(p, "saving")
    <3>1. procs'[p].at = "saved"
      BY <2>1 DEF SaveConfig, At, Goes, Shape, IsProc
    <3> QED
      BY <3>1 DEF At
  <2>2. CASE At(p, "saved")
    <3>1. configFile' = procs[p].config
      BY <2>2 DEF SaveConfig, At
    <3>2. procs[p].config # PartialFile
      BY <1>4, FileStates DEF FitConfig
    <3> QED
      BY <3>1, <3>2
  <2> QED
    BY <1>3, <2>1, <2>2 DEF At
<1>10. (\A q \in Procs : FitProcess(q))'
  BY <1>6, <1>7
<1> QED
  BY <1>8, <1>9, <1>10 DEF Fit, FitProcess

LEMMA FitStep ==
  ASSUME Shape, Steady, Whole, Alone, Fit, Counts, Course, ~world.overlap
  PROVE  Fit'
<1>1. Counts' /\ left'.crashes <= left.crashes
  BY CountsStep
<1>2. CASE Rests
  <2>1. UNCHANGED <<world, left, procs, configFile>>
    BY <1>2 DEF Rests
  <2> QED
    BY <2>1 DEF Fit, CutShort, At
<1>3. ASSUME NEW p \in Procs, NEW i \in Serving(p), NEW u \in Users, LogIn(p, i, u)
      PROVE  Fit'
  <2>1. UNCHANGED <<world, left, procs, configFile>>
    BY <1>3 DEF LogIn, files
  <2> QED
    BY <2>1 DEF Fit, CutShort, At
<1> QED
  BY <1>1, <1>2, <1>3, FitStops, FitProceeds, FitConfigures, FitSaves DEF Course

\* A server that is alone on its files starts in whatever state its crashes have left
\* them, with the one exception of a config file that was cut short.
THEOREM ServersStartAgain == Spec => []StartsAgain
<1> DEFINE Inv == Shape /\ Steady /\ Counts /\ (IsFit => Whole /\ Alone /\ Fit)
<1>1. Init => Inv
  <2> SUFFICES ASSUME Init PROVE Inv
    OBVIOUS
  <2>1. Shape /\ Steady /\ Counts
    BY InitShape, SteadyInit, CountsInit
  <2>2. IsFit => Whole /\ Alone /\ Fit
    BY WholeInit, AloneInit, FitInit DEF IsFit
  <2> QED
    BY <2>1, <2>2
<1>2. Inv /\ [Next]_vars => Inv'
  <2> SUFFICES ASSUME Inv, [Next]_vars PROVE Inv'
    OBVIOUS
  <2>1. Step /\ Course
    BY NextSteps, NextCourse
  <2>2. Shape' /\ Steady' /\ Counts' /\ UNCHANGED world
    BY <2>1, StepShape, SteadyStep, CountsStep
  <2>3. IsFit' => IsFit
    BY <2>2 DEF IsFit
  <2>4. IsFit => Whole' /\ Alone' /\ Fit'
    BY <2>1, WholeStep, AloneStep, FitStep DEF IsFit
  <2> QED
    BY <2>2, <2>3, <2>4
<1>3. Inv => StartsAgain
  BY DEF StartsAgain, Fit, CutShort
<1> QED
  BY <1>1, <1>2, <1>3, PTL DEF Spec

-----------------------------------------------------------------------------
(***************************************************************************)
(* The ticket keys.  All that a process serves has the one key of its      *)
(* file, or the one it made for those without; a ticket is of the process  *)
(* whose number it has.                                                    *)
(***************************************************************************)
LEMMA KeyOfTable ==
  ASSUME NEW file, NEW name \in DOMAIN file.service, name \in ToSet(file.services),
         IsQuazal(TypeOf(file.service[name]))
  PROVE  file.service[name].ticketKey \in KeysOf(file)
<1>1. file.service[name] \in EnabledTables(file)
  BY DEF EnabledTables
<1> QED
  BY <1>1 DEF KeysOf

LEMMA TableOfKey ==
  ASSUME NEW file, NEW key \in KeysOf(file)
  PROVE  \E name \in DOMAIN file.service :
           /\ IsQuazal(TypeOf(file.service[name])) /\ key = file.service[name].ticketKey
<1>1. PICK table \in EnabledTables(file) : IsQuazal(TypeOf(table)) /\ key = table.ticketKey
  BY DEF KeysOf
<1>2. PICK name \in DOMAIN file.service : table = file.service[name]
  BY DEF EnabledTables
<1> QED
  BY <1>1, <1>2

LEMMA KeysMade ==
  /\ KeysOf(NoFile) = {} /\ KeysOf(PartialFile) = {}
  /\ \A key : KeysOf(DefaultConfig(key)) \subseteq {key}
<1>1. DOMAIN NoFile.service = {} /\ DOMAIN PartialFile.service = {}
  BY DEF NoFile, PartialFile
<1>2. KeysOf(NoFile) = {} /\ KeysOf(PartialFile) = {}
  BY <1>1, TableOfKey
<1>3. ASSUME NEW key, NEW other \in KeysOf(DefaultConfig(key))
      PROVE  other = key
  <2>1. PICK file : file = DefaultConfig(key)
    OBVIOUS
  <2>2. PICK name \in DOMAIN file.service :
          IsQuazal(TypeOf(file.service[name])) /\ other = file.service[name].ticketKey
    BY <1>3, <2>1, TableOfKey
  <2>3. PICK table : table = file.service[name]
    OBVIOUS
  <2>4. /\ name \in {"sc_bl_auth", "sc_bl_secure"} => table.ticketKey = key
        /\ name = "onlineconfig" => table.type = "config"
        /\ name = "content" => table.type = "content"
    BY <2>1, <2>2, <2>3, DefaultTables
  <2>5. name \in {"sc_bl_auth", "sc_bl_secure", "onlineconfig", "content"}
    BY <2>1, <2>2, DefaultNames
  <2>6. table.type \notin {"config", "content"}
    <3>1. ASSUME NEW type \in {"config", "content"}, table.type = type PROVE FALSE
      <4>1. type # ""
        BY TypesAreGiven DEF ServiceTypes
      <4>2. TypeOf(table) = type
        BY <3>1, <4>1 DEF TypeOf
      <4> QED
        BY <2>2, <2>3, <4>2 DEF IsQuazal
    <3> QED
      BY <3>1
  <2> QED
    BY <2>2, <2>3, <2>4, <2>5, <2>6
<1> QED
  BY <1>2, <1>3

LEMMA DefaultKeys ==
  ASSUME NEW key
  PROVE  /\ KeysAgree(DefaultConfig(key))
         /\ key # NoKey => HasKeys(DefaultConfig(key))
         /\ KeysAgree(PartialFile) /\ HasKeys(PartialFile)
         /\ DefaultConfig(key) # NoFile /\ PartialFile # NoFile
<1>1. KeysAgree(DefaultConfig(key)) /\ KeysAgree(PartialFile)
  BY KeysMade DEF KeysAgree
<1>2. HasKeys(PartialFile) /\ (key # NoKey => HasKeys(DefaultConfig(key)))
  BY KeysMade DEF HasKeys
<1>3. DefaultConfig(key).form = "whole" /\ NoFile.form = "absent"
  BY DEF DefaultConfig, FileWith, NoFile
<1> QED
  BY <1>1, <1>2, <1>3, FileStates

\* The key of a service that is open to players.
LEMMA KeyOfService ==
  ASSUME NEW file, IsText(file), IsConfig(file), NEW key, NEW services,
         services = WithPublicIp(ParseConfig(file, key)),
         NEW i \in DOMAIN services, IsQuazal(services[i].type)
  PROVE  \E k \in KeysOf(file) : services[i].ticketKey = IF k = NoKey THEN key ELSE k
<1>1. PICK parsed, other : parsed = ParseConfig(file, key) /\ other = ParseConfig(file, NoKey)
  OBVIOUS
<1>2. /\ i \in DOMAIN Unique(file.services)
      /\ services[i].type = other[i].type /\ services[i].ticketKey = parsed[i].ticketKey
  BY <1>1, ServicesOfFile
<1>3. PICK name : name = Unique(file.services)[i]
  OBVIOUS
<1>4. PICK table : table = file.service[name] /\ table = TableOf(file, i)
  BY <1>3 DEF TableOf
<1>5. name \in DOMAIN file.service /\ DOMAIN table = DOMAIN Table
  BY <1>2, <1>3, <1>4, ListedTables
<1>6. parsed[i] = ParseService(table, key) /\ other[i] = ParseService(table, NoKey)
  BY <1>1, <1>2, <1>4, ParsedServices
<1>7. /\ services[i].type = TypeOf(table)
      /\ services[i].ticketKey = TicketKey(table, key)
  BY <1>2, <1>5, <1>6, ParsedService
<1>8. name \in ToSet(file.services)
  <2>1. PICK j \in 1 .. Len(file.services) : name = file.services[j]
    BY <1>2, <1>3, ListedNames DEF IsListing
  <2>2. DOMAIN file.services = 1 .. Len(file.services)
    <3>1. IsSeq(file.services)
      BY DEF IsText, IsSeq
    <3> QED
      BY <3>1, SeqDomain
  <2> QED
    BY <2>1, <2>2 DEF ToSet
<1>9. table.ticketKey \in KeysOf(file)
  BY <1>4, <1>5, <1>7, <1>8, KeyOfTable
<1> QED
  BY <1>7, <1>9 DEF TicketKey

\* Two services of one process have the same key, and if all keys are in its file, that one.
LEMMA KeysOfServices ==
  ASSUME NEW p \in Procs, HasServices(p), KeysAgree(procs[p].config),
         NEW i \in DOMAIN procs[p].services, IsQuazal(procs[p].services[i].type)
  PROVE  /\ \A j \in DOMAIN procs[p].services :
              IsQuazal(procs[p].services[j].type) =>
                procs[p].services[j].ticketKey = procs[p].services[i].ticketKey
         /\ HasKeys(procs[p].config) =>
              procs[p].services[i].ticketKey \in KeysOf(procs[p].config)
<1>1. PICK file, services : file = procs[p].config /\ services = procs[p].services
  OBVIOUS
<1>2. IsText(file) /\ IsConfig(file)
  BY <1>1 DEF HasServices
<1>3. PICK key : services = WithPublicIp(ParseConfig(file, key))
  BY <1>1 DEF HasServices
<1>4. \A j \in DOMAIN services : IsQuazal(services[j].type) =>
        \E k \in KeysOf(file) : services[j].ticketKey = IF k = NoKey THEN key ELSE k
  BY <1>2, <1>3, KeyOfService
<1>5. \A k, l \in KeysOf(file) : k = l
  BY <1>1 DEF KeysAgree
<1> QED
  BY <1>1, <1>4, <1>5 DEF HasKeys

\* A process whose services seal such a ticket.
SealedBy(t, p) ==
  \E i \in DOMAIN procs[p].services :
    /\ IsQuazal(procs[p].services[i].type)
    /\ procs[p].services[i].ticketKey = t.key

HasFile(p) == procs[p].at \in {"saving", "saved", "parsing"} \union Late
Begun == 1 .. (world.starts - left.starts)

\* The numbers of the processes, and the keys of their files.
Numbered(p) ==
  /\ ~At(p, "down") =>
       /\ procs[p].instance \in Begun
       /\ \A t \in tickets : t.instance = procs[p].instance => SealedBy(t, p)
  /\ HasFile(p) => KeysAgree(procs[p].config)
  /\ procs[p].at \in Late => procs[p].listening \in 0 .. Len(procs[p].services)

Sealed ==
  /\ keys \in Nat
  /\ KeysAgree(configFile)
  /\ \A t \in tickets : t.instance \in Begun
  /\ \A p, q \in Procs :
       ~At(p, "down") /\ ~At(q, "down") /\ procs[p].instance = procs[q].instance => p = q
  /\ \A p \in Procs : Numbered(p)

LEMMA SealedInit ==
  ASSUME Init, KeysAgree(world.configFile)
  PROVE  Sealed
<1>1. keys = 0 /\ configFile = world.configFile /\ tickets = {}
  BY DEF Init
<1>2. ASSUME NEW p \in Procs
      PROVE  procs[p].at = "down"
  <2>1. procs[p] = Down("")
    BY DEF Init
  <2> QED
    BY <2>1, DownCourse
<1> QED
  BY <1>1, <1>2 DEF Sealed, Numbered, HasFile, Late, At

LEMMA MoreBegun ==
  ASSUME Counts, Counts', UNCHANGED world, left'.starts <= left.starts
  PROVE  Begun \subseteq Begun'
<1>1. PICK s, l, k \in Int : s = world.starts /\ l = left.starts /\ k = left'.starts
  BY DEF Counts
<1>2. 1 .. (s - l) \subseteq 1 .. (s - k)
  BY <1>1
<1> QED
  BY <1>1, <1>2 DEF Begun

\* What a step by p that makes no ticket has to show.
LEMMA SealedMoves ==
  ASSUME Sealed, Counts, Counts', UNCHANGED <<world, tickets>>, left'.starts <= left.starts,
         NEW p \in Procs, Others(p), keys' \in Nat, KeysAgree(configFile)', Numbered(p)',
         ~At(p, "down")' =>
           \A q \in Procs \ {p} : ~At(q, "down") => procs[q].instance # procs'[p].instance
  PROVE  Sealed'
<1>1. Begun \subseteq Begun'
  BY MoreBegun
<1>2. ASSUME NEW q \in Procs \ {p}
      PROVE  Numbered(q)'
  <2>1. procs'[q] = procs[q] /\ Numbered(q)
    BY DEF Others, Sealed
  <2>2. \A t : SealedBy(t, q)' <=> SealedBy(t, q)
    BY <2>1 DEF SealedBy
  <2> QED
    BY <1>1, <2>1, <2>2 DEF Numbered, HasFile, At
<1>3. (\A q \in Procs : Numbered(q))'
  BY <1>2
<1>4. (\A t \in tickets : t.instance \in Begun)'
  BY <1>1 DEF Sealed
<1>5. \A q \in Procs \ {p} : procs'[q] = procs[q]
  BY DEF Others
<1>6. (\A q, r \in Procs :
         ~At(q, "down") /\ ~At(r, "down") /\ procs[q].instance = procs[r].instance => q = r)'
  BY <1>5 DEF Sealed, At
<1> QED
  BY <1>3, <1>4, <1>6 DEF Sealed

\* A step that keeps the number and the services of its process.
LEMMA SealedKeeps ==
  ASSUME Sealed, Counts, Counts', UNCHANGED <<world, tickets>>, left'.starts <= left.starts,
         NEW p \in Procs, Others(p), keys' \in Nat, KeysAgree(configFile)', ~At(p, "down"),
         procs'[p].instance = procs[p].instance,
         procs'[p].services = procs[p].services \/ procs[p].services = << >>,
         HasFile(p)' => KeysAgree(procs'[p].config),
         procs'[p].at \in Late => procs'[p].listening \in 0 .. Len(procs'[p].services)
  PROVE  Sealed'
<1>1. Begun \subseteq Begun'
  BY MoreBegun
<1>2. \A t \in tickets : t.instance = procs[p].instance => SealedBy(t, p)
  BY DEF Sealed, Numbered
<1>3. ASSUME NEW t \in tickets, SealedBy(t, p)
      PROVE  SealedBy(t, p)'
  <2>1. procs[p].services # << >>
    <3>1. CASE procs[p].services = << >>
      BY <1>3, <3>1, EmptyDomain DEF SealedBy
    <3> QED
      BY <3>1
  <2> QED
    BY <1>3, <2>1 DEF SealedBy
<1>4. Numbered(p)'
  BY <1>1, <1>2, <1>3 DEF Sealed, Numbered
<1>5. \A q \in Procs \ {p} : ~At(q, "down") => procs[q].instance # procs'[p].instance
  BY DEF Sealed
<1> QED
  BY <1>4, <1>5, SealedMoves

LEMMA SealedComesAndGoes ==
  ASSUME Sealed, Counts, Counts', NEW p \in Procs, Stops(p) \/ Launches(p),
         left'.starts <= left.starts
  PROVE  Sealed'
<1>1. /\ Others(p) /\ UNCHANGED <<world, configFile, keys, tickets>>
      /\ keys' \in Nat /\ KeysAgree(configFile)'
  BY DEF Stops, Launches, Sealed
<1>2. CASE Stops(p)
  <2>1. PICK why : procs'[p] = Down(why)
    BY <1>2 DEF Stops
  <2>2. procs'[p].at = "down"
    BY <2>1, DownCourse
  <2>3. Numbered(p)' /\ At(p, "down")'
    BY <2>2 DEF Numbered, HasFile, Late, At
  <2> QED
    BY <1>1, <2>3, SealedMoves
<1>3. CASE Launches(p)
  <2>1. /\ procs'[p].at = "migrating"
        /\ procs'[p].instance = world.starts - left.starts + 1
    BY <1>3, LaunchCourse
  <2>2. PICK s, l \in Nat : s = world.starts /\ l = left.starts /\ l <= s
    BY DEF Counts
  <2>3. left'.starts = l - 1
    BY <1>3, <2>2 DEF Launches, Counts
  <2>4. /\ s - l + 1 \in 1 .. (s - (l - 1)) /\ s - l + 1 \notin 1 .. (s - l)
    BY <2>2
  <2>5. procs'[p].instance \in Begun' /\ procs'[p].instance \notin Begun
    BY <1>1, <2>1, <2>2, <2>3, <2>4 DEF Begun
  <2>6. Numbered(p)'
    BY <1>1, <2>1, <2>5 DEF Sealed, Numbered, HasFile, Late, At
  <2>7. \A q \in Procs : ~At(q, "down") => procs[q].instance \in Begun
    BY DEF Sealed, Numbered
  <2> QED
    BY <1>1, <2>5, <2>6, <2>7, SealedMoves
<1> QED
  BY <1>2, <1>3

LEMMA SealedProceeds ==
  ASSUME Shape, Steady, Sealed, Counts, Counts', NEW p \in Procs, Proceeds(p),
         left'.starts <= left.starts
  PROVE  Sealed'
<1>1. /\ Others(p) /\ UNCHANGED <<world, configFile, keys, tickets>>
      /\ keys' \in Nat /\ KeysAgree(configFile)'
      /\ procs'[p].instance = procs[p].instance
      /\ procs'[p].config = procs[p].config /\ procs'[p].services = procs[p].services
  BY DEF Proceeds, Sealed
<1>2. Numbered(p) /\ ~At(p, "down")
  BY DEF Sealed, Proceeds, At
<1>3. CASE procs[p].at = "migrating"
  <2>1. procs'[p].at \in {"migrating", "configuring"}
    BY <1>3 DEF Proceeds
  <2>2. ~HasFile(p)' /\ procs'[p].at \notin Late
    BY <2>1 DEF HasFile, Late
  <2> QED
    BY <1>1, <1>2, <2>2, SealedKeeps
<1>4. CASE procs[p].at # "migrating"
  <2>1. procs[p].at \in Late /\ procs'[p].at \in Late /\ KeysAgree(procs'[p].config)
    BY <1>1, <1>2, <1>4 DEF Proceeds, Late, Numbered, HasFile
  <2>2. HasServices(p)
    BY <2>1 DEF Steady
  <2>3. PICK n, l \in Nat : n = procs[p].listening /\ l = Len(procs[p].services)
    BY <2>2, ServicesLength DEF Shape
  <2>4. n \in 0 .. l
    BY <1>2, <2>1, <2>3 DEF Numbered
  <2>5. procs'[p].listening = n \/ (procs'[p].listening = n + 1 /\ n + 1 <= l)
    BY <1>4, <2>3 DEF Proceeds
  <2>6. procs'[p].listening \in 0 .. l
    BY <2>4, <2>5
  <2> QED
    BY <1>1, <1>2, <2>1, <2>3, <2>6, SealedKeeps
<1> QED
  BY <1>3, <1>4

LEMMA SealedConfigures ==
  ASSUME Shape, Steady, Sealed, Counts, Counts', NEW p \in Procs, left'.starts <= left.starts,
         MakeConfig(p) \/ SaveConfig(p) \/ ReadConfig(p) \/ Configures(p)
  PROVE  Sealed'
<1>1. /\ procs[p].at \in {"configuring", "saving", "saved", "parsing"} /\ ~At(p, "down")
      /\ UNCHANGED <<world, tickets>>
  BY DEF MakeConfig, SaveConfig, ReadConfig, Configures, At
<1>2. /\ procs[p].services = << >> /\ procs[p].listening = 0
      /\ keys \in Nat /\ keys + 1 \in Nat /\ KeysAgree(configFile)
      /\ procs[p].at \in {"saving", "saved", "parsing"} => KeysAgree(procs[p].config)
  BY <1>1 DEF Steady, Early, Sealed, Numbered, HasFile
<1>3. CASE MakeConfig(p)
  <2>1. PICK made : made = DefaultConfig(keys + 1)
    OBVIOUS
  <2>2. procs' = [procs EXCEPT ![p].config = made,
                              ![p].at = IF world.unwritable THEN "parsing" ELSE "saving"]
    BY <1>3, <2>1 DEF MakeConfig
  <2>3. /\ Others(p) /\ procs'[p].config = made /\ procs'[p].at \in {"parsing", "saving"}
        /\ procs'[p].instance = procs[p].instance
    BY <2>2 DEF Others, Shape, IsProc
  <2>4. KeysAgree(made)
    BY <2>1, DefaultKeys
  <2>5. keys' \in Nat /\ UNCHANGED configFile
    BY <1>2, <1>3 DEF MakeConfig
  <2>6. procs'[p].at \notin Late
    BY <2>3 DEF Late
  <2> QED
    BY <1>1, <1>2, <2>3, <2>4, <2>5, <2>6, SealedKeeps
<1>4. CASE SaveConfig(p)
  <2>1. PICK place \in {"saved", "parsing"} : procs' = [procs EXCEPT ![p].at = place]
    BY <1>4 DEF SaveConfig, Goes
  <2>2. /\ Others(p) /\ procs'[p].at = place /\ procs'[p].config = procs[p].config
        /\ procs'[p].instance = procs[p].instance
    BY <2>1 DEF Others, Shape, IsProc
  <2>3. /\ procs[p].at \in {"saving", "saved"} /\ UNCHANGED keys
        /\ configFile' = PartialFile \/ configFile' = procs[p].config
    BY <1>4 DEF SaveConfig, At
  <2>4. KeysAgree(configFile')
    BY <1>2, <2>3, DefaultKeys
  <2>5. procs'[p].at \notin Late /\ KeysAgree(procs'[p].config)
    BY <1>2, <2>2, <2>3 DEF Late
  <2> QED
    BY <1>1, <1>2, <2>2, <2>3, <2>4, <2>5, SealedKeeps
<1>5. CASE ReadConfig(p)
  <2>1. procs' = [procs EXCEPT ![p].config = configFile, ![p].at = "parsing"]
    BY <1>5 DEF ReadConfig
  <2>2. /\ Others(p) /\ procs'[p].config = configFile /\ procs'[p].at = "parsing"
        /\ procs'[p].instance = procs[p].instance
    BY <2>1 DEF Others, Shape, IsProc
  <2>3. UNCHANGED <<configFile, keys>> /\ procs'[p].at \notin Late
    BY <1>5, <2>2 DEF ReadConfig, files, Late
  <2> QED
    BY <1>1, <1>2, <2>2, <2>3, SealedKeeps
<1>6. CASE Configures(p)
  <2>1. PICK services :
          /\ services = WithPublicIp(ParseConfig(procs[p].config, keys + 1))
          /\ procs' = [procs EXCEPT ![p].services = services, ![p].at = "preparing"]
    BY <1>6 DEF Configures
  <2>2. /\ Others(p) /\ procs'[p].config = procs[p].config /\ procs'[p].at = "preparing"
        /\ procs'[p].services = services /\ procs'[p].instance = procs[p].instance
        /\ procs'[p].listening = 0
    BY <1>2, <2>1 DEF Others, Shape, IsProc
  <2>3. UNCHANGED configFile /\ keys' \in Nat /\ KeysAgree(procs'[p].config)
    BY <1>1, <1>2, <1>6, <2>2 DEF Configures, At
  <2>4. Len(services) \in Nat
    <3>1. PICK file, key : file = procs[p].config /\ key = keys + 1
      OBVIOUS
    <3>2. IsText(file) /\ IsConfig(file)
      BY <1>1, <1>6, <3>1 DEF Steady, Configures, At
    <3> QED
      BY <2>1, <3>1, <3>2, ParsedLength
  <2>5. 0 \in 0 .. Len(services)
    BY <2>4
  <2> QED
    BY <1>1, <1>2, <2>2, <2>3, <2>5, SealedKeeps
<1> QED
  BY <1>3, <1>4, <1>5, <1>6

LEMMA SealedLogIn ==
  ASSUME Steady, Sealed, NEW p \in Procs, NEW i \in Serving(p), NEW u \in Users, LogIn(p, i, u)
  PROVE  Sealed'
<1>1. UNCHANGED <<world, left, procs, configFile, keys>>
  BY DEF LogIn, files
<1>2. PICK t : /\ t = [user |-> u, key |-> procs[p].services[i].ticketKey,
                       instance |-> procs[p].instance]
               /\ tickets' = tickets \union {t}
  BY DEF LogIn
<1>3. t.instance = procs[p].instance /\ t.key = procs[p].services[i].ticketKey
  BY <1>2
<1>4. procs[p].listening \in 0 .. Len(procs[p].services) /\ HasServices(p) /\ ~At(p, "down")
      /\ i \in DOMAIN procs[p].services
  <2>1. procs[p].listening # 0
    BY DEF Serving
  <2>2. procs[p].at \in Late
    BY <2>1 DEF Steady
  <2>3. procs[p].listening \in 0 .. Len(procs[p].services) /\ HasServices(p)
    BY <2>2 DEF Steady, Sealed, Numbered
  <2>4. i \in DOMAIN procs[p].services
    BY <2>3, ServicesLength DEF Serving
  <2> QED
    BY <2>2, <2>3, <2>4 DEF Late, At
<1>5. SealedBy(t, p)
  BY <1>3, <1>4 DEF SealedBy, LogIn, IsQuazal
<1>6. Begun' = Begun /\ t.instance \in Begun
  BY <1>1, <1>3, <1>4 DEF Begun, Sealed, Numbered
<1>7. \A s, q : SealedBy(s, q)' <=> SealedBy(s, q)
  BY <1>1 DEF SealedBy
<1>8. ASSUME NEW q \in Procs
      PROVE  Numbered(q)'
  <2>1. ~At(q, "down") /\ t.instance = procs[q].instance => q = p
    BY <1>3, <1>4 DEF Sealed
  <2>2. Numbered(q)
    BY DEF Sealed
  <2> QED
    BY <1>1, <1>2, <1>5, <1>6, <1>7, <2>1, <2>2 DEF Numbered, HasFile, At
<1>9. (\A q \in Procs : Numbered(q))'
  BY <1>8
<1>10. (\A s \in tickets : s.instance \in Begun)'
  BY <1>2, <1>6 DEF Sealed
<1> QED
  BY <1>1, <1>9, <1>10 DEF Sealed, At

LEMMA SealedStep ==
  ASSUME Shape, Steady, Sealed, Counts, Course
  PROVE  Sealed'
<1>1. Counts' /\ left'.starts <= left.starts /\ UNCHANGED world
  BY CountsStep
<1>2. CASE Rests
  <2>1. UNCHANGED <<world, left, procs, configFile, keys, tickets>>
    BY <1>2 DEF Rests
  <2> QED
    BY <2>1 DEF Sealed, Numbered, HasFile, Begun, SealedBy, At
<1> QED
  BY <1>1, <1>2, SealedComesAndGoes, SealedProceeds, SealedConfigures, SealedLogIn DEF Course

\* Where the keys outlive a run: there is one file for all processes that serve, and its
\* writing comes before the first ticket.
FileLasts(p) ==
  /\ At(p, "saving") => configFile = NoFile
  /\ At(p, "saved") => configFile = PartialFile
  /\ procs[p].at \in {"saving", "saved"} => HasKeys(procs[p].config) /\ procs[p].config # NoFile
  /\ procs[p].at \in {"parsing"} \union Late => procs[p].config = configFile

Lasting ==
  /\ HasKeys(configFile)
  /\ configFile = NoFile => ~world.unwritable
  /\ \A t \in tickets : t.key \in KeysOf(configFile)
  /\ \A p \in Procs : FileLasts(p)

LEMMA LastingInit ==
  ASSUME Init, KeysAreKept
  PROVE  Lasting
<1>1. configFile = world.configFile /\ tickets = {}
  BY DEF Init
<1>2. ASSUME NEW p \in Procs
      PROVE  procs[p].at = "down"
  <2>1. procs[p] = Down("")
    BY DEF Init
  <2> QED
    BY <2>1, DownCourse
<1>3. HasKeys(configFile) /\ (configFile = NoFile => ~world.unwritable)
  BY <1>1, KeysMade DEF KeysAreKept, HasKeys
<1> QED
  BY <1>1, <1>2, <1>3 DEF Lasting, FileLasts, Late, At

LEMMA LastingMoves ==
  ASSUME Lasting, UNCHANGED <<world, tickets, configFile>>, NEW p \in Procs, Others(p),
         FileLasts(p)'
  PROVE  Lasting'
<1>1. ASSUME NEW q \in Procs \ {p}
      PROVE  FileLasts(q)'
  <2>1. procs'[q] = procs[q] /\ FileLasts(q)
    BY DEF Others, Lasting
  <2> QED
    BY <2>1 DEF FileLasts, At
<1>2. (\A q \in Procs : FileLasts(q))'
  BY <1>1
<1> QED
  BY <1>2 DEF Lasting

LEMMA LastingSaves ==
  ASSUME Shape, Fresh, Lasting, NEW p \in Procs, SaveConfig(p)
  PROVE  Lasting'
<1>1. PICK place \in {"saved", "parsing"} : procs' = [procs EXCEPT ![p].at = place]
  BY DEF SaveConfig, Goes
<1>2. Others(p) /\ procs'[p].at = place /\ procs'[p].config = procs[p].config
  BY <1>1 DEF Others, Shape, IsProc
<1>3. /\ procs[p].at \in {"saving", "saved"} /\ UNCHANGED <<world, tickets>> /\ FileLasts(p)
      /\ HasKeys(procs[p].config) /\ procs[p].config # NoFile
  BY DEF SaveConfig, At, Lasting, FileLasts
<1>4. KeysOf(configFile) = {}
  BY <1>3, KeysMade DEF FileLasts, At
<1>5. tickets = {}
  BY <1>4 DEF Lasting
<1>6. HasKeys(configFile') /\ configFile' # NoFile
  BY <1>3, DefaultKeys DEF SaveConfig
<1>7. FileLasts(p)'
  <2>1. CASE At(p, "saving")
    <3>1. procs'[p].at = "saved" /\ configFile' = PartialFile
      BY <2>1 DEF SaveConfig, At, Goes, Shape, IsProc
    <3> QED
      BY <1>2, <1>3, <3>1 DEF FileLasts, Late, At
  <2>2. CASE At(p, "saved")
    <3>1. procs'[p].at = "parsing" /\ configFile' = procs[p].config
      BY <2>2 DEF SaveConfig, At, Goes, Shape, IsProc
    <3> QED
      BY <1>2, <1>3, <3>1 DEF FileLasts, Late, At
  <2> QED
    BY <1>3, <2>1, <2>2 DEF At
<1>8. ASSUME NEW q \in Procs \ {p}
      PROVE  FileLasts(q)'
  <2>1. procs'[q].at = "down"
    BY <1>2, <1>3 DEF Fresh, Others, At
  <2> QED
    BY <2>1 DEF FileLasts, Late, At
<1>9. (\A q \in Procs : FileLasts(q))'
  BY <1>7, <1>8
<1> QED
  BY <1>3, <1>5, <1>6, <1>9 DEF Lasting

LEMMA LastingStep ==
  ASSUME Shape, Steady, Fresh, Sealed, Lasting, Course
  PROVE  Lasting'
<1>1. CASE Rests
  BY <1>1 DEF Rests, Lasting, FileLasts, At
<1>2. ASSUME NEW p \in Procs, Stops(p) \/ Launches(p)
      PROVE  Lasting'
  <2>1. procs'[p].at \in {"down", "migrating"}
    BY <1>2, LaunchCourse, DownCourse DEF Stops
  <2>2. FileLasts(p)'
    BY <2>1 DEF FileLasts, Late, At
  <2> QED
    BY <1>2, <2>2, LastingMoves DEF Stops, Launches
<1>3. ASSUME NEW p \in Procs, Proceeds(p)
      PROVE  Lasting'
  <2>1. /\ Others(p) /\ UNCHANGED <<world, tickets, configFile>>
        /\ procs'[p].config = procs[p].config /\ FileLasts(p)
    BY <1>3 DEF Proceeds, Lasting
  <2>2. \/ procs'[p].at \in {"migrating", "configuring"}
        \/ procs[p].at \in Late /\ procs'[p].at \in Late
    BY <1>3 DEF Proceeds, Late
  <2>3. FileLasts(p)'
    BY <2>1, <2>2 DEF FileLasts, Late, At
  <2> QED
    BY <2>1, <2>3, LastingMoves
<1>4. ASSUME NEW p \in Procs, MakeConfig(p)
      PROVE  Lasting'
  <2>1. PICK made : made = DefaultConfig(keys + 1)
    OBVIOUS
  <2>2. configFile = NoFile /\ ~world.unwritable /\ UNCHANGED <<world, tickets, configFile>>
    BY <1>4 DEF MakeConfig, Lasting
  <2>3. procs' = [procs EXCEPT ![p].config = made, ![p].at = "saving"]
    BY <1>4, <2>1, <2>2 DEF MakeConfig
  <2>4. Others(p) /\ procs'[p].config = made /\ procs'[p].at = "saving"
    BY <2>3 DEF Others, Shape, IsProc
  <2>5. keys + 1 # NoKey
    BY DEF Sealed, NoKey
  <2>6. HasKeys(made) /\ made # NoFile
    BY <2>1, <2>5, DefaultKeys
  <2>7. FileLasts(p)'
    BY <2>2, <2>4, <2>6 DEF FileLasts, Late, At
  <2> QED
    BY <2>2, <2>4, <2>7, LastingMoves
<1>5. ASSUME NEW p \in Procs, SaveConfig(p)
      PROVE  Lasting'
  BY <1>5, LastingSaves
<1>6. ASSUME NEW p \in Procs, ReadConfig(p)
      PROVE  Lasting'
  <2>1. procs' = [procs EXCEPT ![p].config = configFile, ![p].at = "parsing"]
    BY <1>6 DEF ReadConfig
  <2>2. Others(p) /\ procs'[p].config = configFile /\ procs'[p].at = "parsing"
    BY <2>1 DEF Others, Shape, IsProc
  <2>3. UNCHANGED <<world, tickets, configFile>>
    BY <1>6 DEF ReadConfig, files
  <2>4. FileLasts(p)'
    BY <2>2, <2>3 DEF FileLasts, At
  <2> QED
    BY <2>2, <2>3, <2>4, LastingMoves
<1>7. ASSUME NEW p \in Procs, Configures(p)
      PROVE  Lasting'
  <2>1. PICK services : procs' = [procs EXCEPT ![p].services = services, ![p].at = "preparing"]
    BY <1>7 DEF Configures
  <2>2. Others(p) /\ procs'[p].config = procs[p].config /\ procs'[p].at = "preparing"
    BY <2>1 DEF Others, Shape, IsProc
  <2>3. UNCHANGED <<world, tickets, configFile>> /\ procs[p].config = configFile
    BY <1>7 DEF Configures, At, Lasting, FileLasts
  <2>4. FileLasts(p)'
    BY <2>2, <2>3 DEF FileLasts, At
  <2> QED
    BY <2>2, <2>3, <2>4, LastingMoves
<1>8. ASSUME NEW p \in Procs, NEW i \in Serving(p), NEW u \in Users, LogIn(p, i, u)
      PROVE  Lasting'
  <2>1. UNCHANGED <<world, procs, configFile>>
    BY <1>8 DEF LogIn, files
  <2>2. PICK t : /\ t.key = procs[p].services[i].ticketKey
                 /\ tickets' = tickets \union {t}
    BY <1>8 DEF LogIn
  <2>3. procs[p].services[i].ticketKey \in KeysOf(configFile)
    <3>1. procs[p].at \in Late
      BY <1>8 DEF Serving, Steady
    <3>2. HasServices(p) /\ KeysAgree(procs[p].config) /\ procs[p].config = configFile
      BY <3>1 DEF Steady, Sealed, Numbered, HasFile, Lasting, FileLasts
    <3>3. i \in DOMAIN procs[p].services
      BY <3>1, <3>2, ServicesLength DEF Serving, Sealed, Numbered
    <3>4. HasKeys(procs[p].config)
      BY <3>2 DEF Lasting
    <3>5. IsQuazal(procs[p].services[i].type)
      BY <1>8 DEF LogIn, IsQuazal
    <3> QED
      BY <3>2, <3>3, <3>4, <3>5, KeysOfServices
  <2>4. (\A s \in tickets : s.key \in KeysOf(configFile))'
    BY <2>1, <2>2, <2>3 DEF Lasting
  <2> QED
    BY <2>1, <2>4 DEF Lasting, FileLasts, At
<1> QED
  BY <1>1, <1>2, <1>3, <1>4, <1>5, <1>6, <1>7, <1>8 DEF Course

\* The secure service of a process opens the tickets of its own logins, and where the
\* keys are kept those of every earlier run: whatever the file says that gives all its
\* services one key, or none, and whatever number of processes starts and stops.
THEOREM TicketsStayOpen == Spec => []TicketsOpen
<1> DEFINE Inv == /\ Shape /\ Steady /\ Counts
                  /\ ~world.overlap => Fresh
                  /\ KeysAgree(world.configFile) => Sealed
                  /\ KeysAgree(world.configFile) /\ KeysAreKept => Lasting
<1>1. Init => Inv
  BY InitShape, SteadyInit, CountsInit, FreshInit, SealedInit, LastingInit
<1>2. Inv /\ [Next]_vars => Inv'
  <2> SUFFICES ASSUME Inv, [Next]_vars PROVE Inv'
    OBVIOUS
  <2>1. Step /\ Course
    BY NextSteps, NextCourse
  <2>2. Shape' /\ Steady' /\ Counts' /\ UNCHANGED world
    BY <2>1, StepShape, SteadyStep, CountsStep
  <2>3. ~world.overlap => Fresh'
    BY <2>1, FreshStep
  <2>4. KeysAgree(world.configFile) => Sealed'
    BY <2>1, SealedStep
  <2>5. KeysAgree(world.configFile) /\ KeysAreKept => Lasting'
    BY <2>1, LastingStep DEF KeysAreKept
  <2>6. KeysAreKept' <=> KeysAreKept
    BY <2>2 DEF KeysAreKept
  <2> QED
    BY <2>2, <2>3, <2>4, <2>5, <2>6
<1>3. Inv => TicketsOpen
  <2> SUFFICES ASSUME Inv, KeysAgree(world.configFile), NEW t \in tickets, NEW p \in Procs,
                      NEW i \in Serving(p), procs[p].services[i].type = "secure",
                      t.instance = procs[p].instance \/ KeysAreKept
               PROVE  procs[p].services[i].ticketKey = t.key
    BY DEF TicketsOpen
  <2>1. procs[p].at \in Late /\ ~At(p, "down")
    <3>1. procs[p].at \in Late
      BY DEF Serving, Steady
    <3> QED
      BY <3>1 DEF Late, At
  <2>2. HasServices(p) /\ KeysAgree(procs[p].config) /\ IsQuazal(procs[p].services[i].type)
    BY <2>1 DEF Steady, Sealed, Numbered, HasFile, IsQuazal
  <2>3. i \in DOMAIN procs[p].services
    BY <2>1, <2>2, ServicesLength DEF Serving, Sealed, Numbered
  <2>4. CASE t.instance = procs[p].instance
    <3>1. PICK j \in DOMAIN procs[p].services :
            /\ IsQuazal(procs[p].services[j].type)
            /\ procs[p].services[j].ticketKey = t.key
      BY <2>1, <2>4 DEF Sealed, Numbered, SealedBy
    <3> QED
      BY <2>2, <2>3, <3>1, KeysOfServices
  <2>5. CASE KeysAreKept
    <3>1. procs[p].config = configFile /\ HasKeys(configFile) /\ t.key \in KeysOf(configFile)
      BY <2>1, <2>5 DEF Lasting, FileLasts
    <3>2. procs[p].services[i].ticketKey \in KeysOf(configFile)
      BY <2>2, <2>3, <3>1, KeysOfServices
    <3> QED
      BY <2>2, <3>1, <3>2 DEF KeysAgree
  <2> QED
    BY <2>4, <2>5
<1> QED
  BY <1>1, <1>2, <1>3, PTL DEF Spec
-----------------------------------------------------------------------------
(***************************************************************************)
(* The HTTP services.  First their texts: where the first line of one      *)
(* ends, and which answers a line may have.                                *)
(***************************************************************************)
IsFirst(text, n) ==
  n \in 1 .. Len(text) /\ text[n] = "LF" /\ \A j \in 1 .. n - 1 : text[j] # "LF"

LEMMA FirstIsOne ==
  ASSUME NEW text, NEW m, NEW n, IsFirst(text, m), IsFirst(text, n), Len(text) \in Nat
  PROVE  m = n
<1>1. m \in Nat /\ n \in Nat /\ m >= 1 /\ n >= 1
  BY DEF IsFirst
<1>2. ~(m < n)
  <2>1. m < n => m \in 1 .. n - 1
    BY <1>1
  <2> QED
    BY <2>1 DEF IsFirst
<1>3. ~(n < m)
  <2>1. n < m => n \in 1 .. m - 1
    BY <1>1
  <2> QED
    BY <2>1 DEF IsFirst
<1> QED
  BY <1>1, <1>2, <1>3

LEMMA FirstExists ==
  ASSUME NEW text, IsSeq(text), Contains(text, "LF")
  PROVE  \E n : IsFirst(text, n)
<1> DEFINE I == {i \in 1 .. Len(text) : text[i] = "LF"}
<1>1. Len(text) \in Nat
  BY SeqDomain
<1>2. I \subseteq Nat /\ I # {}
  BY <1>1 DEF Contains
<1>3. PICK n \in I : \A k \in I : n <= k
  <2> HIDE DEF I
  <2> QED
    BY <1>2, LeastElement
<1>4. \A j \in 1 .. n - 1 : text[j] # "LF"
  BY <1>1, <1>3
<1> QED
  BY <1>3, <1>4 DEF IsFirst

LEMMA FirstLines ==
  ASSUME NEW text, IsSeq(text), NEW n, IsFirst(text, n)
  PROVE  /\ Contains(text, "LF")
         /\ UpToNewline(text) = SubSeq(text, 1, n)
         /\ FirstLine(text) = SubSeq(text, 1, n)
<1>1. Len(text) \in Nat /\ DOMAIN text = 1 .. Len(text)
  BY SeqDomain
<1>2. Contains(text, "LF")
  BY DEF IsFirst, Contains
<1>3. UpToNewline(text) = SubSeq(text, 1, n)
  <2> DEFINE P(i) == text[i] = "LF" /\ \A j \in 1 .. i - 1 : text[j] # "LF"
             m == CHOOSE i \in DOMAIN text : P(i)
  <2>1. n \in DOMAIN text /\ P(n)
    BY <1>1 DEF IsFirst
  <2>2. m \in DOMAIN text /\ P(m)
    BY <2>1
  <2>3. m = n
    BY <1>1, <2>2, FirstIsOne DEF IsFirst
  <2>4. UpToNewline(text) = SubSeq(text, 1, m)
    BY Zenon DEF UpToNewline
  <2> QED
    BY <2>3, <2>4
<1>4. FirstLine(text) = SubSeq(text, 1, n)
  <2> DEFINE I == {i \in 1 .. Len(text) : text[i] = "LF"}
             m == CHOOSE x \in I : \A y \in I : x =< y
  <2>1. n \in I
    BY DEF IsFirst
  <2>2. \A y \in I : n =< y
    <3>1. \A y \in I : y \notin 1 .. n - 1
      BY DEF IsFirst
    <3> QED
      BY <1>1, <2>1, <3>1
  <2>3. m \in I /\ \A y \in I : m =< y
    <3> HIDE DEF I
    <3> QED
      BY <2>1, <2>2
  <2>4. m = n
    BY <1>1, <2>1, <2>2, <2>3
  <2>5. SelectInSeq(text, LAMBDA w : w = "LF") = IF I # {} THEN m ELSE 0
    BY Zenon DEF SelectInSeq, Min
  <2>6. FirstLine(text) = SubSeq(text, 1, SelectInSeq(text, LAMBDA w : w = "LF"))
    BY <1>2, Zenon DEF FirstLine
  <2>7. SelectInSeq(text, LAMBDA w : w = "LF") = n
    BY <2>1, <2>4, <2>5
  <2> QED
    BY <2>6, <2>7, Zenon
<1> QED
  BY <1>2, <1>3, <1>4

LEMMA NoNewline ==
  ASSUME NEW text, ~Contains(text, "LF")
  PROVE  FirstLine(text) = text
BY Zenon DEF FirstLine

\* What comes after the first line does not change it.
LEMMA FirstLineStays ==
  ASSUME NEW text, IsSeq(text), NEW more, IsSeq(more), Contains(text, "LF")
  PROVE  Contains(text \o more, "LF") /\ FirstLine(text \o more) = FirstLine(text)
<1>1. PICK n : IsFirst(text, n)
  BY FirstExists
<1>2. PICK whole : whole = text \o more
  OBVIOUS
<1>3. /\ IsSeq(whole) /\ Len(whole) = Len(text) + Len(more)
      /\ Len(text) \in Nat /\ Len(more) \in Nat
      /\ \A i \in 1 .. Len(text) : whole[i] = text[i]
  <2>1. Len(text) \in Nat /\ Len(more) \in Nat
    BY SeqDomain
  <2>2. /\ IsSeq(whole) /\ Len(whole) = Len(text) + Len(more)
        /\ \A i \in 1 .. Len(text) + Len(more) :
             whole[i] = IF i <= Len(text) THEN text[i] ELSE more[i - Len(text)]
    BY <1>2, SeqConcat
  <2> QED
    BY <2>1, <2>2
<1>4. n \in 1 .. Len(text) /\ IsFirst(whole, n)
  BY <1>1, <1>3 DEF IsFirst
<1>5. SubSeq(whole, 1, n) = SubSeq(text, 1, n)
  <2>1. /\ n \in 0 .. Len(text) /\ n \in 0 .. Len(whole)
        /\ \A i \in 1 .. n : i \in 1 .. Len(text)
    BY <1>3, <1>4
  <2> DEFINE s == SubSeq(whole, 1, n)
             t == SubSeq(text, 1, n)
  <2>2. /\ IsSeq(s) /\ Len(s) = n /\ \A i \in 1 .. n : s[i] = whole[i]
        /\ IsSeq(t) /\ Len(t) = n /\ \A i \in 1 .. n : t[i] = text[i]
    BY <1>3, <2>1, FirstPart
  <2> HIDE DEF s, t
  <2>3. s = t
    BY <1>3, <2>1, <2>2, SeqExtensional
  <2> QED
    BY <2>3 DEF s, t
<1> QED
  BY <1>1, <1>2, <1>3, <1>4, <1>5, FirstLines

\* The first line of a text that goes on after a part without a newline has that part.
LEMMA FirstLineGoesOn ==
  ASSUME NEW part, IsSeq(part), ~Contains(part, "LF"), NEW text, IsSeq(text),
         Len(part) <= Len(text), \A i \in 1 .. Len(part) : text[i] = part[i]
  PROVE  /\ IsSeq(FirstLine(text)) /\ Len(part) <= Len(FirstLine(text))
         /\ \A i \in 1 .. Len(part) : FirstLine(text)[i] = part[i]
<1>1. Len(text) \in Nat /\ Len(part) \in Nat
  BY SeqDomain
<1>2. CASE ~Contains(text, "LF")
  BY <1>2, NoNewline
<1>3. CASE Contains(text, "LF")
  <2>1. PICK n : IsFirst(text, n)
    BY <1>3, FirstExists
  <2>2. n \in 1 .. Len(text) /\ n \notin 1 .. Len(part)
    BY <2>1 DEF IsFirst, Contains
  <2>3. n \in 0 .. Len(text) /\ Len(part) <= n
    BY <1>1, <2>2
  <2>4. PICK line : line = FirstLine(text) /\ line = SubSeq(text, 1, n)
    BY <2>1, FirstLines
  <2>5. IsSeq(line) /\ Len(line) = n /\ \A i \in 1 .. n : line[i] = text[i]
    BY <2>3, <2>4, FirstPart
  <2>6. \A i \in 1 .. Len(part) : i \in 1 .. n
    BY <1>1, <2>3
  <2> QED
    BY <2>3, <2>4, <2>5, <2>6
<1> QED
  BY <1>2, <1>3

LEMMA LineOfText ==
  ASSUME NEW text, IsSeq(text), Contains(text, "LF")
  PROVE  IsSeq(UpToNewline(text)) /\ UpToNewline(text) = FirstLine(text)
<1>1. PICK n : IsFirst(text, n)
  BY FirstExists
<1>2. n \in 0 .. Len(text)
  BY <1>1, SeqDomain DEF IsFirst
<1> QED
  BY <1>1, <1>2, FirstLines, FirstPart

-----------------------------------------------------------------------------
\* Lists that begin with two words or end with four of them.
LEMMA TwoFirst ==
  ASSUME NEW a, NEW b, NEW line, IsSeq(line)
  PROVE  IsPrefix(<<a, b>>, line) <=> Len(line) >= 2 /\ line[1] = a /\ line[2] = b
<1>1. PICK pre : pre = <<a, b>>
  OBVIOUS
<1>2. IsSeq(pre) /\ Len(pre) = 2 /\ pre[1] = a /\ pre[2] = b
  <2>1. pre \in Seq({a, b}) /\ Len(pre) = 2 /\ pre[1] = a /\ pre[2] = b
    BY <1>1
  <2> QED
    BY <2>1 DEF IsSeq
<1>3. PICK n \in Nat : n = Len(line)
  BY SeqDomain
<1>4. IsPrefix(pre, line) <=> 2 <= n /\ SubSeq(pre, 1, 2) = SubSeq(line, 1, 2)
  BY <1>2, <1>3 DEF IsPrefix
<1>5. CASE n >= 2
  <2>1. PICK s, t : s = SubSeq(pre, 1, 2) /\ t = SubSeq(line, 1, 2)
    OBVIOUS
  <2>2. 2 \in 0 .. Len(pre) /\ 2 \in 0 .. Len(line)
    BY <1>2, <1>3, <1>5
  <2>3. /\ IsSeq(s) /\ Len(s) = 2 /\ \A i \in 1 .. 2 : s[i] = pre[i]
        /\ IsSeq(t) /\ Len(t) = 2 /\ \A i \in 1 .. 2 : t[i] = line[i]
    BY <1>2, <2>1, <2>2, FirstPart
  <2>4. s[1] = a /\ s[2] = b /\ t[1] = line[1] /\ t[2] = line[2]
    BY <1>2, <2>3
  <2>5. ASSUME line[1] = a, line[2] = b PROVE s = t
    <3>1. \A i \in 1 .. 2 : s[i] = t[i]
      BY <2>4, <2>5
    <3> QED
      BY <2>3, <3>1, SeqExtensional
  <2> QED
    BY <1>1, <1>3, <1>4, <1>5, <2>1, <2>4, <2>5
<1>6. CASE ~(n >= 2)
  BY <1>1, <1>3, <1>4, <1>6
<1> QED
  BY <1>5, <1>6

LEMMA Reversed ==
  ASSUME NEW q, IsSeq(q)
  PROVE  /\ IsSeq(Reverse(q)) /\ Len(Reverse(q)) = Len(q)
         /\ \A i \in 1 .. Len(q) : Reverse(q)[i] = q[Len(q) - i + 1]
<1>1. PICK n \in Nat : n = Len(q)
  BY SeqDomain
<1>2. PICK r : r = Reverse(q)
  OBVIOUS
<1>3. r = [i \in 1 .. n |-> q[(n - i) + 1]]
  BY <1>1, <1>2, Zenon DEF Reverse
<1>4. DOMAIN r = 1 .. n /\ r = [i \in 1 .. n |-> r[i]] /\ \A i \in 1 .. n : r[i] = q[n - i + 1]
  BY <1>3
<1>5. IsSeq(r) /\ Len(r) = n
  BY <1>4, SeqFunction
<1> QED
  BY <1>1, <1>2, <1>4, <1>5

LEMMA FourLast ==
  ASSUME NEW a, NEW b, NEW c, NEW d, NEW line, IsSeq(line)
  PROVE  IsSuffix(<<a, b, c, d>>, line) <=>
           /\ Len(line) >= 4
           /\ line[Len(line) - 3] = a /\ line[Len(line) - 2] = b
           /\ line[Len(line) - 1] = c /\ line[Len(line)] = d
<1>1. PICK suf : suf = <<a, b, c, d>>
  OBVIOUS
<1>2. IsSeq(suf) /\ Len(suf) = 4 /\ suf[1] = a /\ suf[2] = b /\ suf[3] = c /\ suf[4] = d
  <2>1. suf \in Seq({a, b, c, d}) /\ Len(suf) = 4
        /\ suf[1] = a /\ suf[2] = b /\ suf[3] = c /\ suf[4] = d
    BY <1>1
  <2> QED
    BY <2>1 DEF IsSeq
<1>3. PICK n \in Nat : n = Len(line)
  BY SeqDomain
<1>4. PICK u, v : u = Reverse(suf) /\ v = Reverse(line)
  OBVIOUS
<1>5. IsSeq(u) /\ Len(u) = 4 /\ u[1] = d /\ u[2] = c /\ u[3] = b /\ u[4] = a
  <2>1. IsSeq(u) /\ Len(u) = 4 /\ \A i \in 1 .. 4 : u[i] = suf[4 - i + 1]
    BY <1>2, <1>4, Reversed
  <2>2. u[1] = suf[4] /\ u[2] = suf[3] /\ u[3] = suf[2] /\ u[4] = suf[1]
    BY <2>1
  <2> QED
    BY <1>2, <2>1, <2>2
<1>6. IsSeq(v) /\ Len(v) = n /\ \A i \in 1 .. n : v[i] = line[n - i + 1]
  BY <1>3, <1>4, Reversed
<1>7. IsSuffix(suf, line) <=> 4 <= n /\ SubSeq(u, 1, 4) = SubSeq(v, 1, 4)
  <2>1. IsSuffix(suf, line) <=> IsPrefix(u, v)
    BY <1>4 DEF IsSuffix
  <2>2. IsPrefix(u, v) <=> 4 <= n /\ SubSeq(u, 1, 4) = SubSeq(v, 1, 4)
    BY <1>5, <1>6 DEF IsPrefix
  <2> QED
    BY <2>1, <2>2
<1>8. CASE n >= 4
  <2>1. PICK s, t : s = SubSeq(u, 1, 4) /\ t = SubSeq(v, 1, 4)
    OBVIOUS
  <2>2. 4 \in 0 .. Len(u) /\ 4 \in 0 .. Len(v)
    BY <1>5, <1>6, <1>8
  <2>3. /\ IsSeq(s) /\ Len(s) = 4 /\ \A i \in 1 .. 4 : s[i] = u[i]
        /\ IsSeq(t) /\ Len(t) = 4 /\ \A i \in 1 .. 4 : t[i] = v[i]
    BY <1>5, <1>6, <2>1, <2>2, FirstPart
  <2>4. v[1] = line[n] /\ v[2] = line[n - 1] /\ v[3] = line[n - 2] /\ v[4] = line[n - 3]
    <3>1. n - 1 + 1 = n /\ n - 2 + 1 = n - 1 /\ n - 3 + 1 = n - 2 /\ n - 4 + 1 = n - 3
      OBVIOUS
    <3>2. 1 \in 1 .. n /\ 2 \in 1 .. n /\ 3 \in 1 .. n /\ 4 \in 1 .. n
      BY <1>8
    <3> QED
      BY <1>6, <3>1, <3>2
  <2>5. /\ s[1] = d /\ s[2] = c /\ s[3] = b /\ s[4] = a
        /\ t[1] = line[n] /\ t[2] = line[n - 1] /\ t[3] = line[n - 2] /\ t[4] = line[n - 3]
    BY <1>5, <2>3, <2>4
  <2>6. ASSUME t[1] = d, t[2] = c, t[3] = b, t[4] = a PROVE s = t
    <3>1. \A i \in 1 .. 4 : s[i] = t[i]
      BY <2>5, <2>6
    <3> QED
      BY <2>3, <3>1, SeqExtensional
  <2>7. IsSuffix(suf, line) <=> s = t
    BY <1>7, <1>8, <2>1
  <2>8. IsSuffix(suf, line) <=> line[n - 3] = a /\ line[n - 2] = b /\ line[n - 1] = c /\ line[n] = d
    BY <2>5, <2>6, <2>7
  <2> QED
    BY <1>1, <1>3, <1>8, <2>8
<1>9. CASE ~(n >= 4)
  BY <1>1, <1>3, <1>7, <1>9
<1> QED
  BY <1>8, <1>9

\* A list of seven words: two, one, and four.
LEMMA SevenWords ==
  ASSUME NEW a, NEW b, NEW w, NEW c, NEW d, NEW e, NEW f, NEW line, IsSeq(line)
  PROVE  line = <<a, b>> \o <<w>> \o <<c, d, e, f>> <=>
           /\ Len(line) = 7 /\ line[1] = a /\ line[2] = b /\ line[3] = w
           /\ line[4] = c /\ line[5] = d /\ line[6] = e /\ line[7] = f
<1>1. PICK whole : whole = <<a, b>> \o <<w>> \o <<c, d, e, f>>
  OBVIOUS
<1>2. PICK S : S = {a, b, c, d, e, f, w}
  OBVIOUS
<1>3. <<a, b>> \in Seq(S) /\ <<w>> \in Seq(S) /\ <<c, d, e, f>> \in Seq(S)
  BY <1>2
<1>4. /\ whole \in Seq(S) /\ Len(whole) = 7 /\ whole[1] = a /\ whole[2] = b /\ whole[3] = w
      /\ whole[4] = c /\ whole[5] = d /\ whole[6] = e /\ whole[7] = f
  BY <1>1, <1>3
<1>5. IsSeq(whole)
  BY <1>4 DEF IsSeq
<1>6. ASSUME /\ Len(line) = 7 /\ line[1] = a /\ line[2] = b /\ line[3] = w
             /\ line[4] = c /\ line[5] = d /\ line[6] = e /\ line[7] = f
      PROVE  line = whole
  <2>1. \A i \in 1 .. 7 : line[i] = whole[i]
    BY <1>4, <1>6
  <2> QED
    BY <1>4, <1>5, <1>6, <2>1, SeqExtensional
<1> QED
  BY <1>1, <1>4, <1>6

LEMMA BetweenTheEnds ==
  ASSUME NEW a, NEW b, NEW w, NEW c, NEW d, NEW e, NEW f, NEW line, IsSeq(line)
  PROVE  line = <<a, b>> \o <<w>> \o <<c, d, e, f>> <=>
           /\ IsPrefix(<<a, b>>, line) /\ IsSuffix(<<c, d, e, f>>, line)
           /\ SubSeq(line, 3, Len(line) - 4) = <<w>>
<1>1. PICK n \in Nat : n = Len(line)
  BY SeqDomain
<1>2. PICK S : line \in Seq(S)
  BY DEF IsSeq
<1>3. IsSeq(<<w>>) /\ Len(<<w>>) = 1 /\ <<w>>[1] = w
  BY SeqSingle
<1>4. PICK path : path = SubSeq(line, 3, n - 4)
  OBVIOUS
<1>5. n = 7 => path = <<line[3]>>
  <2>1. SUFFICES ASSUME n = 7 PROVE path = <<line[3]>>
    OBVIOUS
  <2>2. path = SubSeq(line, 3, 3)
    BY <1>4, <2>1
  <2>3. PICK one : one = <<line[3]>>
    OBVIOUS
  <2>4. IsSeq(one) /\ Len(one) = 1 /\ one[1] = line[3]
    BY <2>3, SeqSingle
  <2>5. Len(one) = 3 + 1 - 3 /\ 3 \in Nat \ {0} /\ 3 \in Nat /\ 3 <= Len(line) /\ 3 <= 3 + 1
    BY <1>1, <2>1, <2>4
  <2>6. \A i \in 1 .. Len(one) : one[i] = line[3 + i - 1]
    BY <2>4
  <2>7. SubSeq(line, 3, 3) = one
    BY <2>4, <2>5, <2>6, SubSeqIs
  <2> QED
    BY <2>2, <2>3, <2>7
<1>6. Len(path) = IF 3 <= n - 4 THEN n - 6 ELSE 0
  BY <1>1, <1>2, <1>4
<1>7. ASSUME IsPrefix(<<a, b>>, line), IsSuffix(<<c, d, e, f>>, line), path = <<w>>
      PROVE  line = <<a, b>> \o <<w>> \o <<c, d, e, f>>
  <2>1. n = 7
    BY <1>3, <1>6, <1>7
  <2>2. line[3] = w
    BY <1>3, <1>5, <1>7, <2>1, SeqSingle
  <2>3. line[1] = a /\ line[2] = b
    BY <1>7, TwoFirst
  <2>4. line[n - 3] = c /\ line[n - 2] = d /\ line[n - 1] = e /\ line[n] = f
    BY <1>1, <1>7, FourLast
  <2>5. line[4] = c /\ line[5] = d /\ line[6] = e /\ line[7] = f
    BY <2>1, <2>4
  <2> QED
    <3>1. /\ Len(line) = 7 /\ line[1] = a /\ line[2] = b /\ line[3] = w
          /\ line[4] = c /\ line[5] = d /\ line[6] = e /\ line[7] = f
      BY <1>1, <2>1, <2>2, <2>3, <2>5
    <3> QED
      BY <3>1, SevenWords
<1>8. ASSUME line = <<a, b>> \o <<w>> \o <<c, d, e, f>>
      PROVE  IsPrefix(<<a, b>>, line) /\ IsSuffix(<<c, d, e, f>>, line) /\ path = <<w>>
  <2>1. /\ n = 7 /\ line[1] = a /\ line[2] = b /\ line[3] = w
        /\ line[4] = c /\ line[5] = d /\ line[6] = e /\ line[7] = f
    BY <1>1, <1>8, SevenWords
  <2>2. n >= 2 /\ n >= 4 /\ line[n - 3] = c /\ line[n - 2] = d /\ line[n - 1] = e /\ line[n] = f
    BY <2>1
  <2>3. IsPrefix(<<a, b>>, line)
    <3>1. Len(line) >= 2 /\ line[1] = a /\ line[2] = b
      BY <1>1, <2>1, <2>2
    <3> QED
      BY <3>1, TwoFirst
  <2>4. IsSuffix(<<c, d, e, f>>, line)
    BY <1>1, <2>2, FourLast
  <2> QED
    BY <1>5, <2>1, <2>3, <2>4
<1> QED
  BY <1>1, <1>4, <1>7, <1>8

-----------------------------------------------------------------------------
\* The line that asks for a file, and what stands between its ends.
LineOf(path) == Prefix \o path \o Suffix
PathOf(line) == SubSeq(line, Len(Prefix) + 1, Len(line) - Len(Suffix))

LEMMA LinesOfPaths ==
  ASSUME NEW word, NEW line, IsSeq(line)
  PROVE  line = LineOf(<<word>>) <=>
           IsPrefix(Prefix, line) /\ IsSuffix(Suffix, line) /\ PathOf(line) = <<word>>
<1>1. PICK a, b, c, d, e, f : Prefix = <<a, b>> /\ Suffix = <<c, d, e, f>>
  BY Zenon DEF Prefix, Suffix
<1>2. Len(Prefix) + 1 = 3 /\ Len(Suffix) = 4
  BY <1>1
<1>3. PathOf(line) = SubSeq(line, 3, Len(line) - 4)
  BY <1>2, Zenon DEF PathOf
<1>4. LineOf(<<word>>) = <<a, b>> \o <<word>> \o <<c, d, e, f>>
  BY <1>1, Zenon DEF LineOf
<1> QED
  <2>1. line = <<a, b>> \o <<word>> \o <<c, d, e, f>> <=>
          /\ IsPrefix(<<a, b>>, line) /\ IsSuffix(<<c, d, e, f>>, line)
          /\ SubSeq(line, 3, Len(line) - 4) = <<word>>
    BY BetweenTheEnds
  <2> QED
    BY <1>1, <1>3, <1>4, <2>1, Zenon

\* The last word of the line for a file is the newline, and so is that of all that
\* ends like one.
LEMMA LinesEnd ==
  ASSUME NEW line, IsSeq(line), IsSuffix(Suffix, line)
  PROVE  Contains(line, "LF")
<1>1. PICK c, d, e, f : Suffix = <<c, d, e, f>> /\ f = "LF"
  BY Zenon DEF Suffix
<1>2. IsSuffix(<<c, d, e, f>>, line)
  BY <1>1, Zenon
<1>3. Len(line) >= 4 /\ line[Len(line)] = f
  BY <1>2, FourLast
<1>4. Len(line) \in Nat
  BY SeqDomain
<1>5. \E i \in 1 .. Len(line) : line[i] = f
  BY <1>3, <1>4
<1> QED
  BY <1>1, <1>5, Zenon DEF Contains

\* Whether a line begins like one for a file is seen in its first part.
LEMMA BeginningsAreSeen ==
  ASSUME NEW part, IsSeq(part), NEW line, IsSeq(line), Len(part) <= Len(line), Len(part) >= 2,
         \A i \in 1 .. Len(part) : line[i] = part[i]
  PROVE  IsPrefix(Prefix, part) <=> IsPrefix(Prefix, line)
<1>1. PICK a, b : Prefix = <<a, b>>
  BY Zenon DEF Prefix
<1>2. Len(part) \in Nat /\ Len(line) \in Nat
  BY SeqDomain
<1>3. line[1] = part[1] /\ line[2] = part[2] /\ Len(line) >= 2
  BY <1>2
<1>4. IsPrefix(<<a, b>>, part) <=> part[1] = a /\ part[2] = b
  BY TwoFirst
<1>5. IsPrefix(<<a, b>>, line) <=> line[1] = a /\ line[2] = b
  BY <1>3, TwoFirst
<1> QED
  BY <1>1, <1>3, <1>4, <1>5, Zenon

LEMMA FilesHaveLines ==
  /\ \A path \in ServedFiles : \E word : path = <<word>>
  /\ ContentPath # MissingPath /\ << >> \notin ServedFiles
<1>1. ContentPath = <<"/mp_balancing.ini">> /\ MissingPath = <<"/gone">>
  BY Zenon DEF ContentPath, MissingPath
<1>2. ServedFiles = {ContentPath, MissingPath}
  BY Zenon DEF ServedFiles
<1>3. \A path \in ServedFiles : \E word : path = <<word>>
  BY <1>1, <1>2, Zenon
<1>4. ContentPath # MissingPath
  BY <1>1
<1>5. << >> \notin ServedFiles
  BY <1>1, <1>2
<1> QED
  BY <1>3, <1>4, <1>5

\* No line is for two files.
LEMMA LinesDiffer ==
  ASSUME NEW line, IsSeq(line), line = LineOf(ContentPath), line = LineOf(MissingPath)
  PROVE  FALSE
<1>1. PICK v, w : ContentPath = <<v>> /\ MissingPath = <<w>>
  BY Zenon DEF ContentPath, MissingPath
<1>2. PathOf(line) = <<v>> /\ PathOf(line) = <<w>>
  BY <1>1, LinesOfPaths
<1> QED
  BY <1>1, <1>2, FilesHaveLines, Zenon

LEMMA StatusesOfLines ==
  ASSUME NEW line, IsSeq(line)
  PROVE  /\ ~IsPrefix(Prefix, line) => Statuses(line) = {405}
         /\ line = LineOf(ContentPath) => Statuses(line) = {200}
         /\ line = LineOf(MissingPath) => Statuses(line) = {500}
         /\ IsPrefix(Prefix, line) /\ line # LineOf(ContentPath) /\ line # LineOf(MissingPath) =>
              Statuses(line) = (IF IsSuffix(Suffix, line) THEN {404} ELSE {400})
                               \union (IF Len(line) > MaxRequestLine THEN {400} ELSE {})
<1>1. PICK v, w : ContentPath = <<v>> /\ MissingPath = <<w>>
  BY Zenon DEF ContentPath, MissingPath
<1>2. line = LineOf(ContentPath) => IsPrefix(Prefix, line)
  BY <1>1, LinesOfPaths
<1>3. line = LineOf(MissingPath) => IsPrefix(Prefix, line)
  BY <1>1, LinesOfPaths
<1>4. ~(line = LineOf(ContentPath) /\ line = LineOf(MissingPath))
  BY LinesDiffer
<1> DEFINE ending == IF IsSuffix(Suffix, line) THEN {404} ELSE {400}
           long == IF Len(line) > MaxRequestLine THEN {400} ELSE {}
           others == ending \union long
<1>5. PICK p, q : p = LineOf(ContentPath) /\ q = LineOf(MissingPath)
  OBVIOUS
<1>6. Statuses(line) = CASE ~IsPrefix(Prefix, line) -> {405}
                         [] line = p -> {200}
                         [] line = q -> {500}
                         [] OTHER -> others
  BY <1>5, Zenon DEF Statuses, LineOf
<1> HIDE DEF others
<1>7. ~IsPrefix(Prefix, line) => Statuses(line) = {405}
  BY <1>2, <1>3, <1>5, <1>6
<1>8. line = p => Statuses(line) = {200}
  BY <1>2, <1>4, <1>5, <1>6
<1>9. line = q => Statuses(line) = {500}
  BY <1>3, <1>4, <1>5, <1>6
<1>10. IsPrefix(Prefix, line) /\ line # p /\ line # q => Statuses(line) = others
  BY <1>6
<1> QED
  BY <1>5, <1>7, <1>8, <1>9, <1>10, Zenon DEF others

\* What serveFiles makes of a line.
LEMMA FileLines ==
  ASSUME NEW c, NEW line, line = c.received, IsSeq(line)
  PROVE  \/ \E status \in Statuses(line) : OnFileLine(c, ServedFiles) = Respond(c, status, << >>)
         \/ \E path \in ServedFiles :
              line = LineOf(path) /\ OnFileLine(c, ServedFiles) = [c EXCEPT !.reading = path]
<1>1. PICK path, begins, ends, known :
        /\ path = PathOf(line) /\ begins = IsPrefix(Prefix, line)
        /\ ends = IsSuffix(Suffix, line) /\ known = (path \in ServedFiles)
  OBVIOUS
<1>2. OnFileLine(c, ServedFiles) =
        CASE ~IsPrefix(Prefix, line) -> Respond(c, 405, << >>)
          [] IsPrefix(Prefix, line) /\ ~IsSuffix(Suffix, line) -> Respond(c, 400, << >>)
          [] IsPrefix(Prefix, line) /\ IsSuffix(Suffix, line) /\ path \notin ServedFiles ->
               Respond(c, 404, << >>)
          [] OTHER -> [c EXCEPT !.reading = path]
  BY <1>1, Zenon DEF OnFileLine, PathOf
<1>3. PICK r405, r400, r404, reads :
        /\ r405 = Respond(c, 405, << >>) /\ r400 = Respond(c, 400, << >>)
        /\ r404 = Respond(c, 404, << >>) /\ reads = [c EXCEPT !.reading = path]
  OBVIOUS
<1>4. OnFileLine(c, ServedFiles) =
        CASE ~IsPrefix(Prefix, line) -> r405
          [] IsPrefix(Prefix, line) /\ ~IsSuffix(Suffix, line) -> r400
          [] IsPrefix(Prefix, line) /\ IsSuffix(Suffix, line) /\ path \notin ServedFiles -> r404
          [] OTHER -> reads
  BY <1>2, <1>3, Zenon
<1>5. \A file \in ServedFiles : line = LineOf(file) =>
        IsPrefix(Prefix, line) /\ IsSuffix(Suffix, line) /\ path = file
  BY <1>1, FilesHaveLines, LinesOfPaths
<1>6. ContentPath \in ServedFiles /\ MissingPath \in ServedFiles
  BY DEF ServedFiles
<1>7. CASE ~IsPrefix(Prefix, line)
  <2>1. OnFileLine(c, ServedFiles) = r405
    BY <1>4, <1>7
  <2>2. 405 \in Statuses(line)
    BY <1>7, StatusesOfLines
  <2> QED
    BY <1>3, <2>1, <2>2, Zenon
<1>8. CASE IsPrefix(Prefix, line) /\ ~IsSuffix(Suffix, line)
  <2>1. OnFileLine(c, ServedFiles) = r400
    BY <1>4, <1>8
  <2>2. 400 \in Statuses(line)
    BY <1>5, <1>6, <1>8, StatusesOfLines
  <2> QED
    BY <1>3, <2>1, <2>2, Zenon
<1>9. CASE IsPrefix(Prefix, line) /\ IsSuffix(Suffix, line) /\ path \notin ServedFiles
  <2>1. OnFileLine(c, ServedFiles) = r404
    BY <1>4, <1>9
  <2>2. 404 \in Statuses(line)
    BY <1>5, <1>6, <1>9, StatusesOfLines
  <2> QED
    BY <1>3, <2>1, <2>2, Zenon
<1>10. CASE IsPrefix(Prefix, line) /\ IsSuffix(Suffix, line) /\ path \in ServedFiles
  <2>1. OnFileLine(c, ServedFiles) = reads
    BY <1>4, <1>10
  <2>2. line = LineOf(path)
    BY <1>1, <1>10, FilesHaveLines, LinesOfPaths
  <2> QED
    BY <1>3, <1>10, <2>1, <2>2, Zenon
<1> QED
  BY <1>7, <1>8, <1>9, <1>10

\* A line that is too long may be judged by its first part.
LEMMA PartsAreJudgedAlike ==
  ASSUME NEW part, IsSeq(part), ~Contains(part, "LF"), Len(part) > MaxRequestLine,
         NEW line, IsSeq(line), Len(part) <= Len(line),
         \A i \in 1 .. Len(part) : line[i] = part[i]
  PROVE  Statuses(part) \subseteq Statuses(line)
<1>1. Len(part) \in Nat /\ Len(line) \in Nat /\ MaxRequestLine \in Nat
  BY SeqDomain, HttpAssumption
<1>2. \A path \in ServedFiles : Len(LineOf(path)) \in Nat /\ Len(LineOf(path)) >= 7
                                 /\ Len(LineOf(path)) <= MaxRequestLine
  <2> SUFFICES ASSUME NEW path \in ServedFiles
               PROVE  /\ Len(LineOf(path)) \in Nat /\ Len(LineOf(path)) >= 7
                      /\ Len(LineOf(path)) <= MaxRequestLine
    OBVIOUS
  <2>1. PICK word : path = <<word>>
    BY FilesHaveLines
  <2>2. PICK a, b, c, d, e, f : Prefix = <<a, b>> /\ Suffix = <<c, d, e, f>>
    BY Zenon DEF Prefix, Suffix
  <2>3. PICK S : S = {a, b, c, d, e, f, word}
    OBVIOUS
  <2>4. <<a, b>> \in Seq(S) /\ <<word>> \in Seq(S) /\ <<c, d, e, f>> \in Seq(S)
    BY <2>3
  <2>5. Len(<<a, b>> \o <<word>> \o <<c, d, e, f>>) = 7
    BY <2>4
  <2>6. LineOf(path) = <<a, b>> \o <<word>> \o <<c, d, e, f>>
    BY <2>1, <2>2, Zenon DEF LineOf
  <2>7. Len(LineOf(path)) <= MaxRequestLine
    BY LineAssumption, Zenon DEF LineOf
  <2> QED
    BY <2>5, <2>6, <2>7
<1>3. ContentPath \in ServedFiles /\ MissingPath \in ServedFiles
  BY DEF ServedFiles
<1>4. /\ part # LineOf(ContentPath) /\ part # LineOf(MissingPath)
      /\ line # LineOf(ContentPath) /\ line # LineOf(MissingPath)
  BY <1>1, <1>2, <1>3
<1>5. IsPrefix(Prefix, part) <=> IsPrefix(Prefix, line)
  <2>1. Len(part) >= 2
    BY <1>1, <1>2, <1>3
  <2> QED
    BY <2>1, BeginningsAreSeen
<1>6. ~IsSuffix(Suffix, part)
  BY LinesEnd
<1>7. CASE ~IsPrefix(Prefix, part)
  <2>1. Statuses(part) = {405} /\ Statuses(line) = {405}
    BY <1>5, <1>7, StatusesOfLines
  <2> QED
    BY <2>1
<1>8. CASE IsPrefix(Prefix, part)
  <2>1. Statuses(part) = {400} \union {400}
    <3>1. Statuses(part) = (IF IsSuffix(Suffix, part) THEN {404} ELSE {400})
                           \union (IF Len(part) > MaxRequestLine THEN {400} ELSE {})
      BY <1>4, <1>8, StatusesOfLines
    <3> QED
      BY <1>6, <3>1
  <2>2. Len(line) > MaxRequestLine
    BY <1>1
  <2>3. Statuses(line) = (IF IsSuffix(Suffix, line) THEN {404} ELSE {400}) \union {400}
    <3>1. Statuses(line) = (IF IsSuffix(Suffix, line) THEN {404} ELSE {400})
                           \union (IF Len(line) > MaxRequestLine THEN {400} ELSE {})
      BY <1>4, <1>5, <1>8, StatusesOfLines
    <3> QED
      BY <2>2, <3>1
  <2> QED
    BY <2>1, <2>3
<1> QED
  BY <1>7, <1>8

-----------------------------------------------------------------------------
\* A connection, part by part.
Conn(k, t, h, f, a, e, o) ==
  [chunks |-> k, received |-> t, handled |-> h, reading |-> f, answers |-> a, ended |-> e, open |-> o]

\* What the first k chunks of a request are.
Text(request, k) == FlattenSeq(SubSeq(request.chunks, 1, k))

\* A line that is kept for a request of which k chunks came: the first line; all there
\* is, without a newline; or a first part that is too long.
IsPartOf(part, text) == Len(part) <= Len(text) /\ \A i \in 1 .. Len(part) : text[i] = part[i]
Decided(request, k, t) ==
  \/ Contains(Text(request, k), "LF") /\ t = FirstLine(Text(request, k))
  \/ ~Contains(t, "LF") /\ t = Text(request, k) /\ k = Len(request.chunks)
  \/ ~Contains(t, "LF") /\ Len(t) > MaxRequestLine /\ IsPartOf(t, Text(request, k))

Answer(status, body) == <<[status |-> status, body |-> body]>>

\* What has become of it: an answer, or a file that is being read.
FitsLine(t, a) ==
  \E status \in Statuses(t) : \E body : a = Answer(status, body) /\ (status = 200 => body # <<"absent">>)
Answered(request, t, f, a) ==
  \/ request.service = "config" /\ f = << >> /\ (\E body : a = Answer(200, body))
  \/ request.service # "config" /\ f = << >> /\ FitsLine(t, a)
  \/ request.service # "config" /\ f \in ServedFiles /\ t = LineOf(f) /\ a = << >>

Waits(request, k, t, f, a) ==
  /\ t = Text(request, k) /\ ~Contains(t, "LF") /\ Len(t) <= MaxRequestLine
  /\ f = << >> /\ a = << >>

Good(request, k, t, h, f, a) ==
  /\ k \in 0 .. Len(request.chunks)
  /\ \/ h = FALSE /\ Waits(request, k, t, f, a)
     \/ h = TRUE /\ IsSeq(t) /\ Decided(request, k, t) /\ Answered(request, t, f, a)

IsConnection(request, c) ==
  \E k, t, h, f, a, e, o : c = Conn(k, t, h, f, a, e, o) /\ Good(request, k, t, h, f, a)

\* What is made of a request line, with the request as a parameter.
Answering(request, content, c) ==
  IF request.service = "config" THEN OnContentLine(c, content) ELSE OnFileLine(c, ServedFiles)
AfterData(request, content, c, chunk) == OnData(c, chunk, LAMBDA x : Answering(request, content, x))
AfterEnd(request, content, c) == OnEnd(c, LAMBDA x : Answering(request, content, x))

-----------------------------------------------------------------------------
LEMMA RequestsAreLists ==
  ASSUME NEW request, IsRequest(request)
  PROVE  /\ IsSeq(request.chunks) /\ Len(request.chunks) \in Nat
         /\ \A i \in 1 .. Len(request.chunks) : IsSeq(request.chunks[i])
<1>1. PICK chunks : chunks = request.chunks
  OBVIOUS
<1>2. chunks \in Seq(ToSet(chunks)) /\ \A chunk \in ToSet(chunks) : chunk \in Seq(ToSet(chunk))
  BY <1>1, Zenon DEF IsRequest
<1>3. IsSeq(chunks)
  BY <1>2, Zenon DEF IsSeq
<1>4. Len(chunks) \in Nat /\ DOMAIN chunks = 1 .. Len(chunks)
  BY <1>3, SeqDomain
<1>5. \A i \in 1 .. Len(chunks) : chunks[i] \in ToSet(chunks)
  BY <1>4, Zenon DEF ToSet
<1>6. \A chunk \in ToSet(chunks) : IsSeq(chunk)
  BY <1>2, Zenon DEF IsSeq
<1> QED
  BY <1>1, <1>3, <1>4, <1>5, <1>6

LEMMA Texts ==
  ASSUME NEW request, IsRequest(request), NEW k \in 0 .. Len(request.chunks)
  PROVE  /\ IsSeq(Text(request, k))
         /\ k < Len(request.chunks) => Text(request, k + 1) = Text(request, k) \o request.chunks[k + 1]
<1>1. PICK chunks : chunks = request.chunks
  OBVIOUS
<1>2. IsSeq(chunks) /\ \A i \in 1 .. Len(chunks) : IsSeq(chunks[i])
  BY <1>1, RequestsAreLists
<1>3. k \in 0 .. Len(chunks)
  BY <1>1
<1>4. /\ IsSeq(FlattenSeq(SubSeq(chunks, 1, k)))
      /\ k < Len(chunks) => FlattenSeq(SubSeq(chunks, 1, k + 1)) =
                              FlattenSeq(SubSeq(chunks, 1, k)) \o chunks[k + 1]
  BY <1>2, <1>3, FlattenGrows
<1> QED
  BY <1>1, <1>4, Zenon DEF Text

LEMMA NoText ==
  ASSUME NEW request, IsRequest(request)
  PROVE  Text(request, 0) = << >> /\ ~Contains(<< >>, "LF") /\ Len(<< >>) <= MaxRequestLine
<1>1. PICK chunks : chunks = request.chunks
  OBVIOUS
<1>2. SubSeq(chunks, 1, 0) = << >>
  <2>1. 1 \in Int /\ 0 \in Int /\ 0 < 1
    OBVIOUS
  <2> QED
    BY <2>1, SubSeqEmpty
<1>3. FlattenSeq(<< >>) = << >>
  BY SeqEmpty, Zenon DEF FlattenSeq
<1>4. ~Contains(<< >>, "LF")
  <2>1. Len(<< >>) = 0 /\ 1 .. 0 = {}
    OBVIOUS
  <2> QED
    BY <2>1, Zenon DEF Contains
<1>5. Len(<< >>) <= MaxRequestLine
  BY HttpAssumption
<1> QED
  BY <1>1, <1>2, <1>3, <1>4, <1>5, Zenon DEF Text

LEMMA NewOnesWait ==
  ASSUME NEW request, IsRequest(request)
  PROVE  IsConnection(request, NewConnection)
<1>1. Good(request, 0, << >>, FALSE, << >>, << >>)
  <2>1. 0 \in 0 .. Len(request.chunks)
    BY RequestsAreLists
  <2> QED
    BY <2>1, NoText, Zenon DEF Good, Waits
<1>2. NewConnection = Conn(0, << >>, FALSE, << >>, << >>, FALSE, TRUE)
  BY Zenon DEF NewConnection, Conn
<1> QED
  BY <1>1, <1>2, Zenon DEF IsConnection

LEMMA DestroyedOnesStay ==
  ASSUME NEW request, NEW c, IsConnection(request, c)
  PROVE  IsConnection(request, Destroyed(c))
<1>1. PICK k, t, h, f, a, e, o : c = Conn(k, t, h, f, a, e, o) /\ Good(request, k, t, h, f, a)
  BY Zenon DEF IsConnection
<1>2. Destroyed(c) = Conn(k, t, h, f, a, e, FALSE)
  <2>1. \A x : [Conn(k, t, h, f, a, e, o) EXCEPT !.open = x] = Conn(k, t, h, f, a, e, x)
    BY DEF Conn
  <2>2. Destroyed(c) = [Conn(k, t, h, f, a, e, o) EXCEPT !.open = FALSE]
    BY <1>1 DEF Destroyed
  <2> QED
    BY <2>1, <2>2
<1> QED
  BY <1>1, <1>2, Zenon DEF IsConnection

\* A line is answered, or a file is read for it.
LEMMA LinesAreAnswered ==
  ASSUME NEW request, NEW content, NEW k, NEW t, NEW h, NEW e, NEW o, IsSeq(t),
         NEW none, none = << >>
  PROVE  \E f, a : /\ Answering(request, content, Conn(k, t, h, none, none, e, o))
                        = Conn(k, t, h, f, a, e, o)
                   /\ Answered(request, t, f, a)
<1>1. PICK c : c = Conn(k, t, h, none, none, e, o)
  OBVIOUS
<1>2. \A status, body : Respond(c, status, body) = Conn(k, t, h, none, Answer(status, body), e, o)
  <2> TAKE status, body
  <2>1. PICK one : one = [status |-> status, body |-> body]
    OBVIOUS
  <2>2. Append(none, one) = <<one>>
    BY <1>1
  <2>3. Respond(c, status, body) = [c EXCEPT !.answers = Append(@, one)]
    BY <2>1, Zenon DEF Respond
  <2>4. Respond(c, status, body) = Conn(k, t, h, none, <<one>>, e, o)
    BY <1>1, <2>2, <2>3 DEF Conn
  <2> QED
    BY <2>1, <2>4, Zenon DEF Answer
<1>3. \A file : [c EXCEPT !.reading = file] = Conn(k, t, h, file, none, e, o)
  BY <1>1 DEF Conn
<1>4. c.received = t
  BY <1>1 DEF Conn
<1>5. CASE request.service = "config"
  <2>1. Answering(request, content, c) = Respond(c, 200, content)
    BY <1>5, Zenon DEF Answering, OnContentLine
  <2>2. Answered(request, t, none, Answer(200, content))
    BY <1>1, <1>5, Zenon DEF Answered
  <2> QED
    BY <1>1, <1>2, <2>1, <2>2, Zenon
<1>6. CASE request.service # "config"
  <2>1. Answering(request, content, c) = OnFileLine(c, ServedFiles)
    BY <1>6, Zenon DEF Answering
  <2>2. CASE \E status \in Statuses(t) : OnFileLine(c, ServedFiles) = Respond(c, status, << >>)
    <3>1. PICK status \in Statuses(t) : OnFileLine(c, ServedFiles) = Respond(c, status, << >>)
      BY <2>2
    <3>2. none # <<"absent">>
      BY <1>1
    <3>3. FitsLine(t, Answer(status, none))
      BY <3>1, <3>2 DEF FitsLine
    <3>4. Answered(request, t, none, Answer(status, none))
      BY <1>1, <1>6, <3>3, Zenon DEF Answered
    <3> QED
      BY <1>1, <1>2, <2>1, <3>1, <3>4, Zenon
  <2>3. CASE \E path \in ServedFiles :
               t = LineOf(path) /\ OnFileLine(c, ServedFiles) = [c EXCEPT !.reading = path]
    <3>1. PICK path \in ServedFiles :
            t = LineOf(path) /\ OnFileLine(c, ServedFiles) = [c EXCEPT !.reading = path]
      BY <2>3
    <3>2. Answered(request, t, path, none)
      BY <1>1, <1>6, <3>1, Zenon DEF Answered
    <3> QED
      BY <1>1, <1>3, <2>1, <3>1, <3>2, Zenon
  <2> QED
    BY <1>4, <2>2, <2>3, FileLines, Zenon
<1> QED
  BY <1>5, <1>6

-----------------------------------------------------------------------------
AfterHandle(request, content, c) == Handle(c, LAMBDA x : Answering(request, content, x))

LEMMA HandledOnesStay ==
  ASSUME NEW request, NEW content, NEW c, c.handled
  PROVE  AfterHandle(request, content, c) = c
BY Zenon DEF AfterHandle, Handle

LEMMA LinesAreHandled ==
  ASSUME NEW request, NEW content, NEW k, NEW t, NEW h, NEW e, NEW o, IsSeq(t),
         NEW none, none = << >>, NEW c, ~c.handled,
         [c EXCEPT !.handled = TRUE] = Conn(k, t, h, none, none, e, o)
  PROVE  \E f, a : /\ AfterHandle(request, content, c) = Conn(k, t, h, f, a, e, o)
                   /\ Answered(request, t, f, a)
<1>1. AfterHandle(request, content, c) = Answering(request, content, [c EXCEPT !.handled = TRUE])
  BY Zenon DEF AfterHandle, Handle
<1>2. \E f, a : /\ Answering(request, content, Conn(k, t, h, none, none, e, o))
                     = Conn(k, t, h, f, a, e, o)
                /\ Answered(request, t, f, a)
  BY LinesAreAnswered
<1> QED
  BY <1>1, <1>2

LEMMA DecidedStays ==
  ASSUME NEW request, IsRequest(request), NEW k \in 0 .. Len(request.chunks), NEW t, IsSeq(t),
         k < Len(request.chunks), Decided(request, k, t)
  PROVE  Decided(request, k + 1, t)
<1>1. PICK text, chunk, more :
        text = Text(request, k) /\ chunk = request.chunks[k + 1] /\ more = Text(request, k + 1)
  OBVIOUS
<1>2. k + 1 \in 1 .. Len(request.chunks)
  BY RequestsAreLists
<1>3. IsSeq(text) /\ IsSeq(chunk) /\ more = text \o chunk
  BY <1>1, <1>2, RequestsAreLists, Texts
<1>4. CASE Contains(text, "LF") /\ t = FirstLine(text)
  <2>1. Contains(more, "LF") /\ FirstLine(more) = FirstLine(text)
    BY <1>3, <1>4, FirstLineStays
  <2> QED
    BY <1>1, <1>4, <2>1, Zenon DEF Decided
<1>5. CASE k = Len(request.chunks)
  BY <1>5, RequestsAreLists
<1>6. CASE ~Contains(t, "LF") /\ Len(t) > MaxRequestLine /\ IsPartOf(t, text)
  <2>1. Len(t) \in Nat /\ Len(text) \in Nat /\ Len(chunk) \in Nat
    BY <1>3, SeqDomain
  <2>2. Len(more) = Len(text) + Len(chunk) /\ \A i \in 1 .. Len(text) : more[i] = text[i]
    <3>1. /\ Len(more) = Len(text) + Len(chunk)
          /\ \A i \in 1 .. Len(text) + Len(chunk) :
               more[i] = IF i <= Len(text) THEN text[i] ELSE chunk[i - Len(text)]
      BY <1>3, SeqConcat
    <3> QED
      BY <2>1, <3>1
  <2>3. IsPartOf(t, more)
    BY <1>6, <2>1, <2>2 DEF IsPartOf
  <2> QED
    BY <1>1, <1>6, <2>3, Zenon DEF Decided
<1> QED
  BY <1>1, <1>4, <1>5, <1>6, Zenon DEF Decided

LEMMA DataKeeps ==
  ASSUME NEW request, IsRequest(request), NEW c, IsConnection(request, c), NEW content,
         c.chunks < Len(request.chunks), NEW chunk, chunk = request.chunks[c.chunks + 1]
  PROVE  IsConnection(request, AfterData(request, content, c, chunk))
<1>1. PICK k, t, h, f, a, e, o : c = Conn(k, t, h, f, a, e, o) /\ Good(request, k, t, h, f, a)
  BY Zenon DEF IsConnection
<1>2. c.chunks = k /\ c.received = t /\ c.handled = h
  BY <1>1 DEF Conn
<1>3. \A x : [c EXCEPT !.received = x] = Conn(k, x, h, f, a, e, o)
  BY <1>1 DEF Conn
<1>4. \A x, y, z, u, v, w : [Conn(k, x, y, z, u, v, w) EXCEPT !.chunks = @ + 1] = Conn(k + 1, x, y, z, u, v, w)
  BY DEF Conn
<1>5. k \in 0 .. Len(request.chunks) /\ k < Len(request.chunks) /\ k + 1 \in 0 .. Len(request.chunks)
      /\ k + 1 \in 1 .. Len(request.chunks) /\ k \in Nat /\ Len(request.chunks) \in Nat
  <2>1. k \in 0 .. Len(request.chunks)
    BY <1>1, Zenon DEF Good
  <2> QED
    BY <1>2, <2>1, RequestsAreLists
<1>6. PICK text, more : text = Text(request, k) /\ more = Text(request, k + 1)
  OBVIOUS
<1>7. IsSeq(text) /\ IsSeq(chunk) /\ IsSeq(more) /\ more = text \o chunk
  BY <1>2, <1>5, <1>6, RequestsAreLists, Texts
<1>8. PICK whole, whole1, whole2 :
        /\ whole = t \o chunk /\ whole1 = AfterHandle(request, content, [c EXCEPT !.received = UpToNewline(whole)])
        /\ whole2 = AfterHandle(request, content, [c EXCEPT !.received = whole])
  OBVIOUS
<1>a. PICK yes, no, none : yes = TRUE /\ no = FALSE /\ none = << >>
  OBVIOUS
<1>b. ASSUME NEW x, NEW d, d = Conn(k, x, no, none, none, e, o)
      PROVE  ~d.handled /\ [d EXCEPT !.handled = TRUE] = Conn(k, x, yes, none, none, e, o)
  <2>1. d.handled = no
    BY <1>b DEF Conn
  <2>2. \A y : [d EXCEPT !.handled = y] = Conn(k, x, y, none, none, e, o)
    BY <1>b DEF Conn
  <2>3. [d EXCEPT !.handled = yes] = Conn(k, x, yes, none, none, e, o)
    BY <2>2
  <2>4. [d EXCEPT !.handled = TRUE] = [d EXCEPT !.handled = yes]
    BY <1>a
  <2>5. ~d.handled
    BY <1>a, <2>1
  <2> QED
    BY <2>3, <2>4, <2>5
<1> DEFINE kept == CASE c.handled -> c
                     [] ~c.handled /\ Contains(whole, "LF") -> whole1
                     [] ~c.handled /\ ~Contains(whole, "LF") /\ Len(whole) > MaxRequestLine -> whole2
                     [] OTHER -> [c EXCEPT !.received = whole]
<1>9. AfterData(request, content, c, chunk) = [kept EXCEPT !.chunks = @ + 1]
  BY <1>2, <1>8, Zenon DEF AfterData, OnData, Kept, AfterHandle, Handle
<1>10. CASE h = TRUE
  <2>1. c.handled
    BY <1>2, <1>10
  <2>2. kept = c
    BY <2>1
  <2> HIDE DEF kept
  <2>3. AfterData(request, content, c, chunk) = Conn(k + 1, t, h, f, a, e, o)
    BY <1>1, <1>4, <1>9, <2>2
  <2>4. IsSeq(t) /\ Decided(request, k, t) /\ Answered(request, t, f, a)
    BY <1>1, <1>10, Zenon DEF Good
  <2>5. Decided(request, k + 1, t)
    BY <1>5, <2>4, DecidedStays
  <2>6. Good(request, k + 1, t, h, f, a)
    BY <1>5, <1>10, <2>4, <2>5, Zenon DEF Good
  <2> QED
    BY <2>3, <2>6, Zenon DEF IsConnection
<1>11. CASE h = FALSE
  <2>1. ~c.handled
    BY <1>2, <1>11
  <2>2. t = text /\ ~Contains(t, "LF") /\ Len(t) <= MaxRequestLine /\ f = << >> /\ a = << >>
    <3>1. Waits(request, k, t, f, a)
      BY <1>1, <1>11, Zenon DEF Good
    <3> QED
      BY <1>6, <3>1, Zenon DEF Waits
  <2>3. whole = more
    BY <1>7, <1>8, <2>2
  <2>4. \A x : [c EXCEPT !.received = x] = Conn(k, x, no, none, none, e, o)
    BY <1>3, <1>11, <1>a, <2>2
  <2>5. CASE Contains(whole, "LF")
    <3>1. PICK line : line = UpToNewline(whole)
      OBVIOUS
    <3>2. IsSeq(line) /\ line = FirstLine(whole)
      <4>1. PICK n : IsFirst(whole, n)
        BY <1>7, <2>3, <2>5, FirstExists
      <4>2. line = SubSeq(whole, 1, n) /\ FirstLine(whole) = SubSeq(whole, 1, n)
        BY <1>7, <2>3, <3>1, <4>1, FirstLines
      <4>3. Len(whole) \in Nat /\ n \in 0 .. Len(whole)
        BY <1>7, <2>3, <4>1, SeqDomain DEF IsFirst
      <4> QED
        BY <1>7, <2>3, <4>2, <4>3, FirstPart
    <3>a. PICK d : d = Conn(k, line, no, none, none, e, o)
      OBVIOUS
    <3>b. ~d.handled /\ [d EXCEPT !.handled = TRUE] = Conn(k, line, yes, none, none, e, o)
      BY <1>b, <3>a
    <3>c. none = << >>
      BY <1>a
    <3>3. PICK g, b : /\ AfterHandle(request, content, d) = Conn(k, line, yes, g, b, e, o)
                      /\ Answered(request, line, g, b)
      BY <3>2, <3>b, <3>c, LinesAreHandled
    <3>4. kept = whole1
      BY <2>1, <2>5
    <3> HIDE DEF kept
    <3>5. kept = Conn(k, line, yes, g, b, e, o)
      BY <1>8, <2>4, <3>1, <3>3, <3>4, <3>a
    <3>6. AfterData(request, content, c, chunk) = Conn(k + 1, line, yes, g, b, e, o)
      BY <1>4, <1>9, <3>5
    <3>7. Decided(request, k + 1, line)
      BY <1>6, <2>3, <2>5, <3>2, Zenon DEF Decided
    <3>8. Good(request, k + 1, line, yes, g, b)
      BY <1>5, <3>2, <3>3, <3>7, <1>a, Zenon DEF Good
    <3> QED
      BY <3>6, <3>8 DEF IsConnection
  <2>6. CASE ~Contains(whole, "LF") /\ Len(whole) > MaxRequestLine
    <3>a. PICK d : d = Conn(k, whole, no, none, none, e, o)
      OBVIOUS
    <3>b. ~d.handled /\ [d EXCEPT !.handled = TRUE] = Conn(k, whole, yes, none, none, e, o)
      BY <1>b, <3>a
    <3>c. none = << >> /\ IsSeq(whole)
      BY <1>7, <1>a, <2>3
    <3>1. PICK g, b : /\ AfterHandle(request, content, d) = Conn(k, whole, yes, g, b, e, o)
                      /\ Answered(request, whole, g, b)
      BY <3>b, <3>c, LinesAreHandled
    <3>2. kept = whole2
      BY <2>1, <2>6
    <3> HIDE DEF kept
    <3>3. kept = Conn(k, whole, yes, g, b, e, o)
      BY <1>8, <2>4, <3>1, <3>2, <3>a
    <3>4. AfterData(request, content, c, chunk) = Conn(k + 1, whole, yes, g, b, e, o)
      BY <1>4, <1>9, <3>3
    <3>5. IsPartOf(whole, more)
      BY <1>7, <2>3, SeqDomain DEF IsPartOf
    <3>6. Decided(request, k + 1, whole)
      BY <1>6, <2>6, <3>5, Zenon DEF Decided
    <3>7. Good(request, k + 1, whole, yes, g, b)
      BY <1>5, <1>7, <2>3, <3>1, <3>6, <1>a, Zenon DEF Good
    <3> QED
      BY <3>4, <3>7 DEF IsConnection
  <2>7. CASE ~Contains(whole, "LF") /\ ~(Len(whole) > MaxRequestLine)
    <3>1. kept = [c EXCEPT !.received = whole]
      BY <2>1, <2>7
    <3> HIDE DEF kept
    <3>2. kept = Conn(k, whole, no, none, none, e, o)
      BY <2>4, <3>1
    <3>3. AfterData(request, content, c, chunk) = Conn(k + 1, whole, no, none, none, e, o)
      BY <1>4, <1>9, <3>2
    <3>4. Len(whole) <= MaxRequestLine
      BY <1>7, <2>3, <2>7, SeqDomain, HttpAssumption
    <3>5. Waits(request, k + 1, whole, none, none)
      BY <1>6, <1>a, <2>3, <2>7, <3>4, Zenon DEF Waits
    <3>6. Good(request, k + 1, whole, no, none, none)
      BY <1>5, <3>5, <1>a, Zenon DEF Good
    <3> QED
      BY <3>3, <3>6 DEF IsConnection
  <2> QED
    BY <2>5, <2>6, <2>7
<1> QED
  BY <1>1, <1>10, <1>11, Zenon DEF Good

-----------------------------------------------------------------------------
LEMMA EndKeeps ==
  ASSUME NEW request, IsRequest(request), NEW c, IsConnection(request, c), NEW content,
         c.chunks = Len(request.chunks)
  PROVE  IsConnection(request, AfterEnd(request, content, c))
<1>1. PICK k, t, h, f, a, e, o : c = Conn(k, t, h, f, a, e, o) /\ Good(request, k, t, h, f, a)
  BY Zenon DEF IsConnection
<1>2. c.chunks = k /\ c.handled = h
  BY <1>1 DEF Conn
<1>3. PICK yes, none : yes = TRUE /\ none = << >>
  OBVIOUS
<1>4. ASSUME NEW x, NEW y, NEW v, NEW w,
             AfterHandle(request, content, c) = Conn(k, x, y, v, w, e, o)
      PROVE  AfterEnd(request, content, c) = Conn(k, x, y, v, w, yes, o)
  <2>1. PICK d : d = Conn(k, x, y, v, w, e, o)
    OBVIOUS
  <2>2. AfterEnd(request, content, c) = [AfterHandle(request, content, c) EXCEPT !.ended = TRUE]
    BY Zenon DEF AfterEnd, OnEnd, AfterHandle, Handle
  <2>3. AfterEnd(request, content, c) = [d EXCEPT !.ended = TRUE]
    BY <1>4, <2>1, <2>2
  <2>4. \A z : [d EXCEPT !.ended = z] = Conn(k, x, y, v, w, z, o)
    BY <2>1 DEF Conn
  <2>5. [d EXCEPT !.ended = yes] = Conn(k, x, y, v, w, yes, o)
    BY <2>4
  <2>6. [d EXCEPT !.ended = TRUE] = [d EXCEPT !.ended = yes]
    BY <1>3
  <2> QED
    BY <2>3, <2>5, <2>6
<1>5. k \in 0 .. Len(request.chunks)
  BY <1>1, Zenon DEF Good
<1>6. CASE h = TRUE
  <2>1. AfterHandle(request, content, c) = c
    BY <1>2, <1>6, HandledOnesStay
  <2>2. AfterEnd(request, content, c) = Conn(k, t, h, f, a, yes, o)
    BY <1>1, <1>4, <2>1
  <2> QED
    BY <1>1, <2>2, Zenon DEF IsConnection
<1>7. CASE h = FALSE
  <2>1. Waits(request, k, t, f, a)
    BY <1>1, <1>7, Zenon DEF Good
  <2>2. IsSeq(t)
    <3>1. t = Text(request, k)
      BY <2>1, Zenon DEF Waits
    <3> QED
      BY <1>5, <3>1, Texts
  <2>3. f = none /\ a = none
    BY <1>3, <2>1, Zenon DEF Waits
  <2>4. [c EXCEPT !.handled = TRUE] = Conn(k, t, yes, none, none, e, o)
    <3>1. \A z : [c EXCEPT !.handled = z] = Conn(k, t, z, f, a, e, o)
      BY <1>1 DEF Conn
    <3>2. [c EXCEPT !.handled = yes] = Conn(k, t, yes, f, a, e, o)
      BY <3>1
    <3>3. [c EXCEPT !.handled = TRUE] = [c EXCEPT !.handled = yes]
      BY <1>3
    <3> QED
      BY <2>3, <3>2, <3>3
  <2>5. ~c.handled
    BY <1>2, <1>7
  <2>6. none = << >>
    BY <1>3
  <2>7. PICK g, b : /\ AfterHandle(request, content, c) = Conn(k, t, yes, g, b, e, o)
                    /\ Answered(request, t, g, b)
    BY <2>2, <2>4, <2>5, <2>6, LinesAreHandled
  <2>8. AfterEnd(request, content, c) = Conn(k, t, yes, g, b, yes, o)
    BY <1>4, <2>7
  <2>9. Decided(request, k, t)
    <3>1. k = Len(request.chunks)
      BY <1>2
    <3> QED
      BY <2>1, <3>1, Zenon DEF Waits, Decided
  <2>10. Good(request, k, t, yes, g, b)
    BY <1>3, <1>5, <2>2, <2>7, <2>9, Zenon DEF Good
  <2> QED
    BY <2>8, <2>10 DEF IsConnection
<1> QED
  BY <1>1, <1>6, <1>7, Zenon DEF Good

\* The file that was read fits the line it was read for.
LEMMA FilesFit ==
  ASSUME NEW request, NEW c, IsConnection(request, c), c.reading # << >>,
         NEW data, data # "absent", NEW found, found = (c.reading = ContentPath)
  PROVE  IsConnection(request, OnFile(c, found, <<data>>))
<1>1. PICK k, t, h, f, a, e, o : c = Conn(k, t, h, f, a, e, o) /\ Good(request, k, t, h, f, a)
  BY Zenon DEF IsConnection
<1>2. c.reading = f
  BY <1>1 DEF Conn
<1>3. PICK none : none = << >>
  OBVIOUS
<1>4. h # FALSE /\ Answered(request, t, f, a)
  <2>1. ~Waits(request, k, t, f, a)
    BY <1>2, Zenon DEF Waits
  <2> QED
    BY <1>1, <2>1, Zenon DEF Good
<1>5. request.service # "config" /\ f \in ServedFiles /\ t = LineOf(f) /\ a = none
  BY <1>2, <1>3, <1>4, Zenon DEF Answered
<1>6. IsSeq(t)
  BY <1>1, <1>4, Zenon DEF Good
<1>7. \A status, body : [Respond(c, status, body) EXCEPT !.reading = none]
                          = Conn(k, t, h, none, Answer(status, body), e, o)
  <2> TAKE status, body
  <2>1. PICK one : one = [status |-> status, body |-> body]
    OBVIOUS
  <2>2. Append(none, one) = <<one>>
    BY <1>3
  <2>3. Respond(c, status, body) = [c EXCEPT !.answers = Append(@, one)]
    BY <2>1, Zenon DEF Respond
  <2>4. Respond(c, status, body) = Conn(k, t, h, f, <<one>>, e, o)
    BY <1>1, <1>5, <2>2, <2>3 DEF Conn
  <2>5. [Respond(c, status, body) EXCEPT !.reading = none] = Conn(k, t, h, none, <<one>>, e, o)
    BY <2>4 DEF Conn
  <2> QED
    BY <2>1, <2>5, Zenon DEF Answer
<1>8. PICK right, wrong : right = Respond(c, 200, <<data>>) /\ wrong = Respond(c, 500, none)
  OBVIOUS
<1>9. OnFile(c, found, <<data>>) = [IF found THEN right ELSE wrong EXCEPT !.reading = none]
  BY <1>3, <1>8, Zenon DEF OnFile
<1>10. CASE f = ContentPath
  <2>1. OnFile(c, found, <<data>>) = [right EXCEPT !.reading = none]
    BY <1>2, <1>9, <1>10
  <2>2. OnFile(c, found, <<data>>) = Conn(k, t, h, none, Answer(200, <<data>>), e, o)
    BY <1>7, <1>8, <2>1, Zenon
  <2>3. 200 \in Statuses(t)
    BY <1>5, <1>6, <1>10, StatusesOfLines
  <2>4. <<data>> # <<"absent">>
    OBVIOUS
  <2>5. FitsLine(t, Answer(200, <<data>>))
    BY <2>3, <2>4 DEF FitsLine
  <2>6. Answered(request, t, none, Answer(200, <<data>>))
    BY <1>3, <1>5, <2>5, Zenon DEF Answered
  <2>7. Good(request, k, t, h, none, Answer(200, <<data>>))
    BY <1>1, <1>4, <2>6, Zenon DEF Good
  <2> QED
    BY <2>2, <2>7, Zenon DEF IsConnection
<1>11. CASE f # ContentPath
  <2>1. OnFile(c, found, <<data>>) = [wrong EXCEPT !.reading = none]
    BY <1>2, <1>9, <1>11
  <2>2. OnFile(c, found, <<data>>) = Conn(k, t, h, none, Answer(500, none), e, o)
    BY <1>7, <1>8, <2>1
  <2>3. f = MissingPath
    BY <1>5, <1>11 DEF ServedFiles
  <2>4. 500 \in Statuses(t)
    BY <1>5, <1>6, <2>3, StatusesOfLines
  <2>5. none # <<"absent">>
    BY <1>3
  <2>6. FitsLine(t, Answer(500, none))
    BY <2>4, <2>5 DEF FitsLine
  <2>7. Answered(request, t, none, Answer(500, none))
    BY <1>3, <1>5, <2>6, Zenon DEF Answered
  <2>8. Good(request, k, t, h, none, Answer(500, none))
    BY <1>1, <1>4, <2>7, Zenon DEF Good
  <2> QED
    BY <2>2, <2>8 DEF IsConnection
<1> QED
  BY <1>10, <1>11

\* What the state of a connection says about its answers.
LEMMA ConnectionsAnswer ==
  ASSUME NEW request, IsRequest(request), NEW c, IsConnection(request, c),
         NEW text, text = Text(request, c.chunks)
  PROVE  /\ c.answers = << >> \/ \E status, body :
              /\ c.answers = Answer(status, body)
              /\ IF request.service = "config" THEN status = 200
                 ELSE /\ status \in Statuses(FirstLine(text))
                      /\ status = 200 => body # <<"absent">>
         /\ Contains(text, "LF") \/ Len(text) > MaxRequestLine =>
              c.answers # << >> \/ c.reading # << >>
<1>1. PICK k, t, h, f, a, e, o : c = Conn(k, t, h, f, a, e, o) /\ Good(request, k, t, h, f, a)
  BY Zenon DEF IsConnection
<1>2. c.chunks = k /\ c.reading = f /\ c.answers = a
  BY <1>1 DEF Conn
<1>3. text = Text(request, k) /\ k \in 0 .. Len(request.chunks) /\ IsSeq(text)
  <2>1. text = Text(request, k) /\ k \in 0 .. Len(request.chunks)
    BY <1>1, <1>2, Zenon DEF Good
  <2> QED
    BY <2>1, Texts
<1>4. PICK none : none = << >>
  OBVIOUS
<1>5. \A status, body : Answer(status, body) # none
  <2> TAKE status, body
  <2>1. PICK one : one = [status |-> status, body |-> body]
    OBVIOUS
  <2>2. <<one>> # none
    BY <1>4
  <2> QED
    BY <2>1, <2>2, Zenon DEF Answer
<1>6. CASE h = FALSE
  <2>1. Waits(request, k, t, f, a)
    BY <1>1, <1>6, Zenon DEF Good
  <2>2. ~Contains(text, "LF") /\ Len(text) <= MaxRequestLine /\ a = none
    BY <1>3, <1>4, <2>1, Zenon DEF Waits
  <2>3. ~(Len(text) > MaxRequestLine)
    BY <1>3, <2>2, SeqDomain, HttpAssumption
  <2> QED
    BY <1>2, <1>4, <2>2, <2>3, Zenon
<1>7. CASE h = TRUE
  <2>1. IsSeq(t) /\ Decided(request, k, t) /\ Answered(request, t, f, a)
    BY <1>1, <1>7, Zenon DEF Good
  <2>2. Statuses(t) \subseteq Statuses(FirstLine(text))
    <3>1. CASE Contains(text, "LF") /\ t = FirstLine(text)
      BY <3>1
    <3>2. CASE ~Contains(t, "LF") /\ t = text
      BY <3>2, NoNewline
    <3>3. CASE ~Contains(t, "LF") /\ Len(t) > MaxRequestLine /\ IsPartOf(t, text)
      <4>1. Len(t) <= Len(text) /\ \A i \in 1 .. Len(t) : text[i] = t[i]
        BY <3>3, Zenon DEF IsPartOf
      <4>2. Len(t) \in Nat /\ Len(text) \in Nat
        BY <1>3, <2>1, SeqDomain
      <4>3. CASE ~Contains(text, "LF")
        BY <1>3, <2>1, <3>3, <4>1, <4>3, NoNewline, PartsAreJudgedAlike
      <4>4. CASE Contains(text, "LF")
        <5>1. PICK n : IsFirst(text, n)
          BY <1>3, <4>4, FirstExists
        <5>2. PICK line : line = SubSeq(text, 1, n)
          OBVIOUS
        <5>3. n \in 1 .. Len(text) /\ text[n] = "LF"
          BY <5>1, Zenon DEF IsFirst
        <5>4. n \notin 1 .. Len(t)
          <6>1. \A i \in 1 .. Len(t) : t[i] # "LF"
            BY <3>3, Zenon DEF Contains
          <6> QED
            BY <4>1, <5>3, <6>1, Zenon
        <5>5. n \in 0 .. Len(text) /\ Len(t) <= n
          BY <4>2, <5>3, <5>4
        <5>6. IsSeq(line) /\ Len(line) = n /\ \A i \in 1 .. n : line[i] = text[i]
          BY <1>3, <5>2, <5>5, FirstPart
        <5>7. \A i \in 1 .. Len(t) : line[i] = t[i]
          BY <4>1, <4>2, <5>5, <5>6
        <5>8. Statuses(t) \subseteq Statuses(line)
          BY <2>1, <3>3, <5>5, <5>6, <5>7, PartsAreJudgedAlike
        <5>9. FirstLine(text) = line
          BY <1>3, <5>1, <5>2, FirstLines
        <5> QED
          BY <5>8, <5>9
      <4> QED
        BY <4>3, <4>4
    <3> QED
      BY <1>3, <2>1, <3>1, <3>2, <3>3, Zenon DEF Decided
  <2>3. CASE request.service = "config" /\ f = none /\ \E body : a = Answer(200, body)
    BY <1>2, <1>4, <1>5, <2>3
  <2>4. CASE request.service # "config" /\ f = none /\ FitsLine(t, a)
    <3>1. PICK status \in Statuses(t) :
            \E body : a = Answer(status, body) /\ (status = 200 => body # <<"absent">>)
      BY <2>4, Zenon DEF FitsLine
    <3>2. PICK body : a = Answer(status, body) /\ (status = 200 => body # <<"absent">>)
      BY <3>1
    <3>3. status \in Statuses(FirstLine(text)) /\ a # none
      BY <1>5, <2>2, <3>2
    <3> QED
      BY <1>2, <1>4, <2>4, <3>2, <3>3
  <2>5. CASE request.service # "config" /\ f \in ServedFiles /\ a = none
    BY <1>2, <1>4, <2>5, FilesHaveLines
  <2> QED
    BY <1>4, <2>1, <2>3, <2>4, <2>5, Zenon DEF Answered
<1> QED
  BY <1>1, <1>6, <1>7, Zenon DEF Good

-----------------------------------------------------------------------------
(***************************************************************************)
(* The connections.  They are to services that listen, which no process    *)
(* does before there is a data file, and what each has kept of its         *)
(* request, and answered to it, fits what has come of it.                  *)
(***************************************************************************)
FilledBy(p) ==
  /\ procs[p].at \in Late \ {"preparing"} => dataFile # "absent"
  /\ procs[p].at \in Late /\ procs[p].listening # 0 => procs[p].at \in {"listening", "running"}
Filled == \A p \in Procs : FilledBy(p)

Held ==
  /\ DOMAIN connections \subseteq DOMAIN world.requests
  /\ DOMAIN connections # {} => dataFile # "absent"
  /\ \A r \in DOMAIN connections : IsConnection(world.requests[r], connections[r])

LEMMA FilledInit ==
  ASSUME Init
  PROVE  Filled
<1>1. ASSUME NEW p \in Procs
      PROVE  procs[p].at = "down"
  <2>1. procs[p] = Down("")
    BY DEF Init
  <2> QED
    BY <2>1, DownCourse
<1> QED
  BY <1>1 DEF Filled, FilledBy, Late

LEMMA DataFileStays ==
  ASSUME [Next]_vars
  PROVE  dataFile' = dataFile \/ dataFile' # "absent"
<1>1. ASSUME NEW p \in Procs, Startup(p) \/ Shutdown(p) \/ Crash(p)
      PROVE  dataFile' = dataFile \/ dataFile' # "absent"
  BY <1>1 DEF Startup, Start, BeginMigration, RecordMigration, CommitMigration, FinishMigrations,
     MakeConfig, SaveConfig, ReadConfig, Configure, EnsureDataDir, ClearSessions, Listen, StartApi,
     Shutdown, Crash, Fail, Exit, files
<1>2. ASSUME NEW p \in Procs, NEW i \in Serving(p), NEW u \in Users, LogIn(p, i, u)
      PROVE  dataFile' = dataFile
  BY <1>2 DEF LogIn, files
<1>3. ASSUME NEW r \in DOMAIN world.requests, Http(r)
      PROVE  dataFile' = dataFile
  BY <1>3 DEF Http, Accept, Data, End, FileRead, Close, Deadline, Changes, files
<1>4. CASE UNCHANGED vars
  BY <1>4 DEF vars, files
<1> QED
  BY <1>1, <1>2, <1>3, <1>4 DEF Next

LEMMA FilledMoves ==
  ASSUME Filled, dataFile' = dataFile \/ dataFile' # "absent", NEW p \in Procs, Others(p), FilledBy(p)'
  PROVE  Filled'
<1>1. ASSUME NEW q \in Procs \ {p}
      PROVE  FilledBy(q)'
  <2>1. procs'[q] = procs[q] /\ FilledBy(q)
    BY DEF Others, Filled
  <2> QED
    BY <2>1 DEF FilledBy
<1>2. (\A q \in Procs : FilledBy(q))'
  BY <1>1
<1> QED
  BY <1>2 DEF Filled

LEMMA FilledStep ==
  ASSUME Shape, Steady, Filled, Course, dataFile' = dataFile \/ dataFile' # "absent"
  PROVE  Filled'
<1>1. CASE UNCHANGED procs
  BY <1>1 DEF Filled, FilledBy
<1>2. ASSUME NEW p \in Procs, Stops(p) \/ Launches(p)
      PROVE  Filled'
  <2>1. procs'[p].at \in {"down", "migrating"}
    BY <1>2, LaunchCourse, DownCourse DEF Stops
  <2>2. FilledBy(p)'
    BY <2>1 DEF FilledBy, Late
  <2> QED
    BY <1>2, <2>2, FilledMoves DEF Stops, Launches
<1>3. ASSUME NEW p \in Procs, Proceeds(p)
      PROVE  Filled'
  <2>1. CASE procs[p].at = "migrating"
    <3>1. procs'[p].at \in {"migrating", "configuring"}
      BY <1>3, <2>1 DEF Proceeds
    <3>2. FilledBy(p)'
      BY <3>1 DEF FilledBy, Late
    <3> QED
      BY <1>3, <3>2, FilledMoves DEF Proceeds
  <2>2. CASE procs[p].at # "migrating"
    <3>1. /\ procs[p].at \in Late /\ FilledBy(p)
          /\ procs[p].at # "listening" => procs'[p].listening = procs[p].listening
          /\ procs[p].at = "listening" => procs'[p].at \in {"listening", "running"}
          /\ procs[p].at = "preparing" => dataFile' # "absent"
          /\ procs[p].at # "running"
      BY <1>3, <2>2 DEF Proceeds, Late, Filled
    <3>2. FilledBy(p)'
      BY <3>1 DEF FilledBy, Late
    <3> QED
      BY <1>3, <3>2, FilledMoves DEF Proceeds
  <2> QED
    BY <2>1, <2>2
<1>4. ASSUME NEW p \in Procs, NEW place \in Early \union {"preparing"}, Others(p),
             procs'[p].at = place, procs'[p].listening = 0
      PROVE  Filled'
  <2>1. FilledBy(p)'
    BY <1>4 DEF FilledBy, Early, Late
  <2> QED
    BY <1>4, <2>1, FilledMoves
<1>5. ASSUME NEW p \in Procs, MakeConfig(p) \/ SaveConfig(p) \/ ReadConfig(p) \/ Configures(p)
      PROVE  Filled'
  <2>1. procs[p].listening = 0
    BY <1>5 DEF MakeConfig, SaveConfig, ReadConfig, Configures, At, Steady, Early
  <2>2. CASE MakeConfig(p)
    <3>1. PICK config, place :
            /\ config = DefaultConfig(keys + 1)
            /\ place = IF world.unwritable THEN "parsing" ELSE "saving"
      OBVIOUS
    <3>3. procs' = [procs EXCEPT ![p].config = config, ![p].at = place]
      BY <2>2, <3>1 DEF MakeConfig
    <3>2. Others(p) /\ procs'[p].at = place /\ procs'[p].listening = 0
      BY <2>1, <3>3 DEF Others, Shape, IsProc
    <3> QED
      BY <1>4, <3>1, <3>2 DEF Early
  <2>3. CASE SaveConfig(p)
    <3>1. PICK place \in {"saved", "parsing"} : procs' = [procs EXCEPT ![p].at = place]
      BY <2>3 DEF SaveConfig, Goes
    <3>2. Others(p) /\ procs'[p].at = place /\ procs'[p].listening = 0
      BY <2>1, <3>1 DEF Others, Shape, IsProc
    <3> QED
      BY <1>4, <3>2 DEF Early
  <2>4. CASE ReadConfig(p)
    <3>1. procs' = [procs EXCEPT ![p].config = configFile, ![p].at = "parsing"]
      BY <2>4 DEF ReadConfig
    <3>2. Others(p) /\ procs'[p].at = "parsing" /\ procs'[p].listening = 0
      BY <2>1, <3>1 DEF Others, Shape, IsProc
    <3> QED
      BY <1>4, <3>2 DEF Early
  <2>5. CASE Configures(p)
    <3>1. PICK services : procs' = [procs EXCEPT ![p].services = services, ![p].at = "preparing"]
      BY <2>5 DEF Configures
    <3>2. Others(p) /\ procs'[p].at = "preparing" /\ procs'[p].listening = 0
      BY <2>1, <3>1 DEF Others, Shape, IsProc
    <3> QED
      BY <1>4, <3>2
  <2> QED
    BY <1>5, <2>2, <2>3, <2>4, <2>5
<1>6. ASSUME NEW p \in Procs, NEW i \in Serving(p), NEW u \in Users, LogIn(p, i, u)
      PROVE  UNCHANGED procs
  BY <1>6 DEF LogIn
<1> QED
  BY <1>1, <1>2, <1>3, <1>5, <1>6 DEF Course, Rests

\* Services that listen have their data file.
LEMMA ServingIsFilled ==
  ASSUME Shape, Steady, Filled, NEW p \in Procs, Serving(p) # {}
  PROVE  dataFile # "absent"
<1>1. procs[p].listening # 0
  BY DEF Serving, Shape
<1>2. procs[p].at \in Late
  BY <1>1 DEF Steady
<1> QED
  BY <1>1, <1>2 DEF Filled, FilledBy, Late

LEMMA HeldInit ==
  ASSUME Init
  PROVE  Held
<1>1. DOMAIN connections = {}
  BY DEF Init
<1> QED
  BY <1>1 DEF Held

LEMMA HeldChanges ==
  ASSUME Held, NEW r \in DOMAIN connections, NEW c, Changes(r, c), IsConnection(world.requests[r], c)
  PROVE  Held'
<1>1. /\ connections' = [connections EXCEPT ![r] = c]
      /\ UNCHANGED <<world, dataFile>>
  BY DEF Changes, files
<1>2. DOMAIN connections' = DOMAIN connections
  BY <1>1
<1>3. ASSUME NEW q \in DOMAIN connections
      PROVE  IsConnection(world.requests[q], connections'[q])
  BY <1>1, <1>3 DEF Held
<1>4. (\A q \in DOMAIN connections : IsConnection(world.requests[q], connections[q]))'
  BY <1>1, <1>2, <1>3
<1> QED
  BY <1>1, <1>2, <1>4 DEF Held

LEMMA HeldExits ==
  ASSUME Held, dataFile' = dataFile \/ dataFile' # "absent", NEW p, NEW why, Exit(p, why)
  PROVE  Held'
<1>1. /\ connections' = [r \in DOMAIN connections |->
                           IF world.requests[r].proc = p THEN Destroyed(connections[r])
                           ELSE connections[r]]
      /\ UNCHANGED world
  BY DEF Exit
<1>2. DOMAIN connections' = DOMAIN connections
  BY <1>1
<1>3. ASSUME NEW q \in DOMAIN connections
      PROVE  IsConnection(world.requests[q], connections'[q])
  <2>1. IsConnection(world.requests[q], connections[q])
    BY DEF Held
  <2>2. IsConnection(world.requests[q], Destroyed(connections[q]))
    BY <2>1, DestroyedOnesStay
  <2>3. connections'[q] = Destroyed(connections[q]) \/ connections'[q] = connections[q]
    BY <1>1
  <2> QED
    BY <2>1, <2>2, <2>3
<1>4. (\A q \in DOMAIN connections : IsConnection(world.requests[q], connections[q]))'
  BY <1>1, <1>2, <1>3
<1> QED
  BY <1>1, <1>2, <1>4 DEF Held

LEMMA HeldHttp ==
  ASSUME world \in Worlds, Shape, Steady, Filled, Held, NEW r \in DOMAIN world.requests, Http(r)
  PROVE  Held'
<1>1. PICK request, c, content : /\ request = world.requests[r] /\ c = connections[r]
                                 /\ content = OnlineConfig(world.requests[r].proc)
  OBVIOUS
<1>2. IsRequest(request)
  BY <1>1, ProcessAssumption
<1>3. CASE Accept(r)
  <2>1. /\ connections' = [q \in DOMAIN connections \union {r} |->
                             IF q = r THEN NewConnection ELSE connections[q]]
        /\ r \notin DOMAIN connections /\ UNCHANGED <<world, dataFile>>
    BY <1>3 DEF Accept, files
  <2>2. dataFile # "absent"
    <3>1. request.proc \in Procs
      BY <1>2 DEF IsRequest
    <3>2. Serving(request.proc) # {}
      BY <1>1, <1>3 DEF Accept, IsServing
    <3> QED
      BY <3>1, <3>2, ServingIsFilled
  <2>3. DOMAIN connections' = DOMAIN connections \union {r}
    BY <2>1
  <2>4. ASSUME NEW q \in DOMAIN connections \union {r}
        PROVE  IsConnection(world.requests[q], connections'[q])
    <3>1. IsConnection(request, NewConnection)
      BY <1>2, NewOnesWait
    <3> QED
      BY <1>1, <2>1, <2>4, <3>1 DEF Held
  <2>5. (\A q \in DOMAIN connections : IsConnection(world.requests[q], connections[q]))'
    BY <2>1, <2>3, <2>4
  <2> QED
    BY <2>1, <2>2, <2>3, <2>5 DEF Held
<1>4. CASE Data(r)
  <2>1. IsOpen(r) /\ r \in DOMAIN connections /\ c.chunks < Len(request.chunks)
    BY <1>1, <1>4 DEF Data, IsOpen, Chunks
  <2>2. Changes(r, AfterData(world.requests[r], OnlineConfig(world.requests[r].proc), connections[r],
                             world.requests[r].chunks[connections[r].chunks + 1]))
    BY <1>4, Zenon DEF Data, AfterData, OnData, Kept, Handle, Answering, OnRequestLine, ServiceOf, Chunks
  <2>3. PICK chunk : chunk = request.chunks[c.chunks + 1]
    OBVIOUS
  <2>4. Changes(r, AfterData(request, content, c, chunk))
    BY <1>1, <2>2, <2>3
  <2>5. IsConnection(request, AfterData(request, content, c, chunk))
    BY <1>1, <1>2, <2>1, <2>3, DataKeeps DEF Held
  <2> QED
    BY <1>1, <2>1, <2>4, <2>5, HeldChanges
<1>5. CASE End(r)
  <2>1. IsOpen(r) /\ r \in DOMAIN connections /\ c.chunks = Len(request.chunks)
    BY <1>1, <1>5 DEF End, IsOpen, Chunks
  <2>2. Changes(r, AfterEnd(world.requests[r], OnlineConfig(world.requests[r].proc), connections[r]))
    BY <1>5, Zenon DEF End, AfterEnd, OnEnd, Handle, Answering, OnRequestLine, ServiceOf
  <2>3. Changes(r, AfterEnd(request, content, c))
    BY <1>1, <2>2
  <2>4. IsConnection(request, AfterEnd(request, content, c))
    BY <1>1, <1>2, <2>1, EndKeeps DEF Held
  <2> QED
    BY <1>1, <2>1, <2>3, <2>4, HeldChanges
<1>6. CASE FileRead(r)
  <2>1. r \in DOMAIN connections /\ c.reading # << >>
    BY <1>1, <1>6 DEF FileRead, IsOpen
  <2>2. PICK found : found = (c.reading = ContentPath)
    OBVIOUS
  <2>3. dataFile # "absent"
    BY <2>1 DEF Held
  <2>4. Changes(r, OnFile(c, found, <<dataFile>>))
    BY <1>1, <1>6, <2>2, Zenon DEF FileRead
  <2>5. IsConnection(request, OnFile(c, found, <<dataFile>>))
    BY <1>1, <2>1, <2>2, <2>3, FilesFit DEF Held
  <2> QED
    BY <1>1, <2>1, <2>4, <2>5, HeldChanges
<1>7. CASE Close(r) \/ Deadline(r)
  <2>1. r \in DOMAIN connections /\ Changes(r, Destroyed(c))
    BY <1>1, <1>7 DEF Close, Deadline, IsOpen
  <2>2. IsConnection(request, Destroyed(c))
    BY <1>1, <2>1, DestroyedOnesStay DEF Held
  <2> QED
    BY <1>1, <2>1, <2>2, HeldChanges
<1> QED
  BY <1>3, <1>4, <1>5, <1>6, <1>7 DEF Http

LEMMA HeldStep ==
  ASSUME world \in Worlds, Shape, Steady, Filled, Held, [Next]_vars
  PROVE  Held'
<1>1. dataFile' = dataFile \/ dataFile' # "absent"
  BY DataFileStays
<1>2. CASE UNCHANGED <<world, connections>>
  BY <1>1, <1>2 DEF Held
<1>4. ASSUME NEW p \in Procs, Startup(p) \/ Shutdown(p) \/ Crash(p)
      PROVE  UNCHANGED <<world, connections>> \/ \E why : Exit(p, why)
  <2>1. CASE Start(p)
    BY <2>1 DEF Start
  <2>2. CASE BeginMigration(p) \/ RecordMigration(p) \/ CommitMigration(p) \/ FinishMigrations(p)
    BY <2>2 DEF BeginMigration, RecordMigration, CommitMigration, FinishMigrations, Fail
  <2>3. CASE MakeConfig(p) \/ SaveConfig(p) \/ ReadConfig(p) \/ Configure(p)
    BY <2>3 DEF MakeConfig, SaveConfig, ReadConfig, Configure, Fail
  <2>4. CASE EnsureDataDir(p) \/ ClearSessions(p) \/ Listen(p) \/ StartApi(p)
    BY <2>4 DEF EnsureDataDir, ClearSessions, Listen, StartApi, Fail
  <2>5. CASE Shutdown(p) \/ Crash(p)
    BY <2>5 DEF Shutdown, Crash, Fail
  <2> QED
    BY <1>4, <2>1, <2>2, <2>3, <2>4, <2>5 DEF Startup
<1>5. ASSUME NEW p \in Procs, NEW i \in Serving(p), NEW u \in Users, LogIn(p, i, u)
      PROVE  UNCHANGED <<world, connections>>
  BY <1>5 DEF LogIn
<1>6. ASSUME UNCHANGED vars
      PROVE  UNCHANGED <<world, connections>>
  BY <1>6 DEF vars
<1> QED
  BY <1>1, <1>2, <1>4, <1>5, <1>6, HeldExits, HeldHttp DEF Next

\* Every connection to an HTTP service gets at most one answer, the one that the first
\* line of its request asks for, and none is forgotten while it is open: however the
\* request is cut into chunks, whatever follows its first line, and whoever stops or
\* crashes meanwhile.  Only the deadline takes an answer away.
THEOREM EveryAnswerFits == Spec => []AnswersFit
<1> DEFINE Inv == /\ world \in Worlds
                  /\ Shape /\ Steady /\ Filled /\ Held
<1>1. Init => Inv
  BY InitShape, SteadyInit, FilledInit, HeldInit DEF Init
<1>2. Inv /\ [Next]_vars => Inv'
  <2> SUFFICES ASSUME Inv, [Next]_vars PROVE Inv'
    OBVIOUS
  <2>1. Step /\ Course /\ (dataFile' = dataFile \/ dataFile' # "absent")
    BY NextSteps, NextCourse, DataFileStays
  <2>2. Shape' /\ Steady' /\ Filled' /\ Held'
    BY <2>1, StepShape, SteadyStep, FilledStep, HeldStep
  <2>3. UNCHANGED world
    BY <2>1, StepKeepsWorld
  <2> QED
    BY <2>2, <2>3
<1>3. Inv => AnswersFit
  <2> SUFFICES ASSUME Inv, NEW r \in DOMAIN connections
               PROVE  /\ Len(connections[r].answers) <= 1
                      /\ \A i \in DOMAIN connections[r].answers : Fits(r, connections[r].answers[i])
                      /\ connections[r].open
                         /\ (Contains(Arrived(r), "LF") \/ Len(Arrived(r)) > MaxRequestLine)
                         => connections[r].answers # << >> \/ connections[r].reading # << >>
    BY Zenon DEF AnswersFit
  <2>1. PICK request, c : request = world.requests[r] /\ c = connections[r]
    OBVIOUS
  <2>2. IsRequest(request) /\ IsConnection(request, c)
    BY <2>1, ProcessAssumption DEF Held
  <2>3. PICK text, line : text = Arrived(r) /\ line = FirstLine(text)
    OBVIOUS
  <2>4. text = Text(request, c.chunks)
    BY <2>1, <2>3, Zenon DEF Arrived, Chunks, Text
  <2>5. /\ c.answers = << >> \/ \E status, body :
             /\ c.answers = Answer(status, body)
             /\ IF request.service = "config" THEN status = 200
                ELSE /\ status \in Statuses(FirstLine(text))
                     /\ status = 200 => body # <<"absent">>
        /\ Contains(text, "LF") \/ Len(text) > MaxRequestLine =>
             c.answers # << >> \/ c.reading # << >>
    BY <2>2, <2>4, ConnectionsAnswer
  <2>6. CASE c.answers = << >>
    <3>1. Len(c.answers) <= 1 /\ DOMAIN c.answers = {}
      BY <2>6, SeqEmpty, EmptyDomain
    <3> QED
      BY <2>1, <2>3, <2>5, <3>1, Zenon
  <2>7. CASE c.answers # << >>
    <3>1. PICK status, body :
             /\ c.answers = Answer(status, body)
             /\ IF request.service = "config" THEN status = 200
                ELSE /\ status \in Statuses(FirstLine(text))
                     /\ status = 200 => body # <<"absent">>
      BY <2>5, <2>7
    <3>2. PICK one : one = [status |-> status, body |-> body]
      OBVIOUS
    <3>3. c.answers = <<one>>
      BY <3>1, <3>2, Zenon DEF Answer
    <3>4. Len(c.answers) <= 1 /\ \A i \in DOMAIN c.answers : c.answers[i] = one
      BY <3>3
    <3>5. one.status = status /\ one.body = body
      BY <3>2
    <3>6. Fits(r, one)
      BY <2>1, <2>3, <3>1, <3>5, Zenon DEF Fits, ServiceOf
    <3> QED
      BY <2>1, <2>7, <3>4, <3>6, Zenon
  <2> QED
    BY <2>6, <2>7
<1> QED
  BY <1>1, <1>2, <1>3, PTL DEF Spec
===============================================================================
