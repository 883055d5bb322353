------------------------------ MODULE Migrations ------------------------------
(***************************************************************************)
(* The migrations of the database (migrations.ts and the SQL files), each  *)
(* by what it makes in the schema and what it needs to be there.  A        *)
(* database has a schema, the rows of _sqlx_migrations, and the users with *)
(* a session, who are the rows invalidateSessions clears.                  *)
(***************************************************************************)
EXTENDS Naturals, Sequences, FiniteSets

MIGRATIONS == <<"init", "add sample", "invites", "sessions", "user logout">>
AllMigrations == {MIGRATIONS[i] : i \in DOMAIN MIGRATIONS}

Creates(migration) ==
  CASE migration = "init" -> {"users", "game_sessions", "participants", "station_urls"}
    [] migration = "add sample" -> {"sam_the_fisher"}
    [] migration = "invites" -> {"invites"}
    [] migration = "sessions" -> {"user_sessions"}
    [] migration = "user logout" -> {"users.is_online"}

Needs(migration) ==
  IF migration \in {"add sample", "user logout"} THEN {"users"} ELSE {}

EmptyDatabase == [schema |-> {}, rows |-> {}, sessions |-> {}]

Row(migration, success) == [migration |-> migration, success |-> success]

\* The SQL throws if something it makes is there already.
Runs(database, migration) ==
  /\ Creates(migration) \cap database.schema = {}
  /\ Needs(migration) \subseteq database.schema

Run(database, migration) == [database EXCEPT !.schema = @ \union Creates(migration)]

\* INSERT INTO _sqlx_migrations; the version is its key.
IsRecorded(database, migration) == \E row \in database.rows : row.migration = migration
Record(database, migration) == [database EXCEPT !.rows = @ \union {Row(migration, TRUE)}]

\* migrate refuses a database with a row that was not a success.
IsRefused(database) == \E row \in database.rows : ~row.success

Applied(database) == {row.migration : row \in database.rows}

\* The rows say what the schema is, and that the migrations came in their order.
IsWhole(database) ==
  /\ database.schema = UNION {Creates(m) : m \in Applied(database)}
  /\ \A i \in DOMAIN MIGRATIONS : MIGRATIONS[i] \in Applied(database) =>
       \A j \in 1 .. i - 1 : MIGRATIONS[j] \in Applied(database)

\* Mutant: what was applied before is forgotten.
ToApplyAgain(applied, done) == {i \in DOMAIN MIGRATIONS : MIGRATIONS[i] \notin done}

\* The migrations still to run: those not applied when the process looked, and
\* not run by it since.
ToApply(applied, done) == {i \in DOMAIN MIGRATIONS : MIGRATIONS[i] \notin applied \union done}

IsNextMigration(i, applied, done) ==
  i \in ToApply(applied, done) /\ \A j \in ToApply(applied, done) : i <= j

\* Mutant: the users stay online.
InvalidateNobody(database) == database

InvalidateSessions(database) == [database EXCEPT !.sessions = {}]

\* A database that the first n migrations were applied to, by this server or the other.
DatabaseAt(n, sessions) ==
  [schema |-> UNION {Creates(MIGRATIONS[i]) : i \in 1 .. n},
   rows |-> {Row(MIGRATIONS[i], TRUE) : i \in 1 .. n}, sessions |-> sessions]
===============================================================================
