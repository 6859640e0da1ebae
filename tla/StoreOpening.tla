---------------------------- MODULE StoreOpening ----------------------------
(***************************************************************************)
(* Processes that open the database: NewSQLiteStore and Migrate            *)
(* (internal/storage/sqlite.go) as app.Run and app.OpenStore call them, so *)
(* "serve", "doctor", "stats", "tail" and "export", all at any time.       *)
(*                                                                         *)
(* A migration is a file, numbered in the order of the names. SQLite is    *)
(* external: a transaction is deferred and takes the write lock at its     *)
(* first write, for which it waits at most busy_timeout; until then it     *)
(* sees what others commit. One process opens with one connection, since   *)
(* its calls follow each other.                                            *)
(***************************************************************************)
EXTENDS Naturals

CONSTANTS
  Processes, NoProcess,
  M,           \* the migrations are 1 .. M
  MaxStarts    \* bound: how often a process is started

ASSUME OpeningAssumption ==
  /\ NoProcess \notin Processes
  /\ M \in Nat \ {0} /\ MaxStarts \in Nat

VARIABLES
  wal,        \* the database file is in WAL mode
  registry,   \* the table schema_migrations exists
  db,         \* the committed migrations: their tables, and their versions
  written,    \* the same, as the transaction with the write lock sees them
  writer,     \* the process that holds the write lock
  pc,         \* the place of a process in NewSQLiteStore and Migrate
  at,         \* the migration its loop is at
  starts,
  lost        \* history: the migrations a process lost to another one

file == <<wal, registry, db>>
openingVars == <<file, written, writer, pc, at, starts, lost>>

Migrations == 1 .. M
Migrated   == [schema : SUBSET Migrations, versions : SUBSET Migrations]

InTransaction == {"begun", "applied", "recorded"}
Opening == {"opening", "preparing", "checking"} \cup InTransaction
Finished   == {"off", "open", "lost", "failed"}

(* A new database, or one that an earlier version has left with the first  *)
(* k migrations                                                            *)
OpeningInit ==
  /\ \E k \in 0 .. M : /\ db = [schema |-> 1 .. k, versions |-> 1 .. k]
                       /\ wal = (k > 0) /\ registry = (k > 0)
  /\ written = db /\ writer = NoProcess
  /\ pc = [p \in Processes |-> "off"]
  /\ at = [p \in Processes |-> 1]
  /\ starts = [p \in Processes |-> 0]
  /\ lost = [p \in Processes |-> {}]

-----------------------------------------------------------------------------
Move(p, from, to) == pc[p] = from /\ pc' = [pc EXCEPT ![p] = to]

(* The transaction of p ends; the connection is closed or goes on. *)
Release(p) ==
  writer' = IF writer = p THEN NoProcess ELSE writer

(* sql.Open, and the loop over the files to come *)
StartOpening(p) ==
  /\ pc[p] \in Finished \ {"open"} /\ starts[p] < MaxStarts
  /\ pc' = [pc EXCEPT ![p] = "opening"]
  /\ at' = [at EXCEPT ![p] = 1]
  /\ starts' = [starts EXCEPT ![p] = @ + 1]
  /\ UNCHANGED <<file, written, writer, lost>>

(* applyPragmas; the file stays in WAL mode for all that come later. *)
ApplyPragmas(p) ==
  /\ Move(p, "opening", "preparing")
  /\ wal' = TRUE
  /\ UNCHANGED <<registry, db, written, writer, at, starts, lost>>

(* CREATE TABLE IF NOT EXISTS schema_migrations *)
EnsureRegistry(p) ==
  /\ registry \/ writer = NoProcess
  /\ Move(p, "preparing", "checking")
  /\ registry' = TRUE
  /\ UNCHANGED <<wal, db, written, writer, at, starts, lost>>

(* Fault: every file is applied, whatever is recorded *)
MigrationAppliedNever(m) == FALSE

MigrationApplied(m) == m \in db.versions

Skip(p) ==
  /\ pc[p] = "checking" /\ at[p] \in Migrations /\ MigrationApplied(at[p])
  /\ at' = [at EXCEPT ![p] = @ + 1]
  /\ UNCHANGED <<file, written, writer, pc, starts, lost>>

(* BeginTx, which takes no lock yet *)
BeginMigration(p) ==
  /\ at[p] \in Migrations /\ ~MigrationApplied(at[p])
  /\ Move(p, "checking", "begun")
  /\ UNCHANGED <<file, written, writer, at, starts, lost>>

(* The body: CREATE ... IF NOT EXISTS writes only what is not there.       *)
ApplyMigration(p) ==
  /\ Move(p, "begun", "applied")
  /\ \/ /\ at[p] \in db.schema
        /\ UNCHANGED <<written, writer>>
     \/ /\ at[p] \notin db.schema /\ writer = NoProcess
        /\ writer' = p
        /\ written' = [db EXCEPT !.schema = @ \cup {at[p]}]
  /\ UNCHANGED <<file, at, starts, lost>>

RecordMigration(p) ==
  /\ writer = p
  /\ Move(p, "applied", "recorded")
  /\ written' = [written EXCEPT !.versions = @ \cup {at[p]}]
  /\ UNCHANGED <<file, writer, at, starts, lost>>

(* Fault: a version that is there already ends Migrate without an error *)
ConflictIsSuccess(p) ==
  /\ pc[p] = "applied" /\ at[p] \in db.versions /\ writer = NoProcess
  /\ pc' = [pc EXCEPT ![p] = "open"]
  /\ lost' = [lost EXCEPT ![p] = @ \cup {at[p]}]
  /\ UNCHANGED <<file, written, writer, at, starts>>

(* Fault: after a conflict the transaction is tried again *)
ConflictTriesAgain(p) ==
  /\ pc[p] = "applied" /\ at[p] \in db.versions /\ writer = NoProcess
  /\ pc' = [pc EXCEPT ![p] = "begun"]
  /\ UNCHANGED <<file, written, writer, at, starts, lost>>

(* Another process has recorded the version since it was checked: the      *)
(* INSERT gets the lock, violates the primary key, and the process gives   *)
(* up.                                                                     *)
Conflict(p) ==
  /\ pc[p] = "applied" /\ at[p] \in db.versions /\ writer = NoProcess
  /\ pc' = [pc EXCEPT ![p] = "lost"]
  /\ lost' = [lost EXCEPT ![p] = @ \cup {at[p]}]
  /\ UNCHANGED <<file, written, writer, at, starts>>

CommitMigration(p) ==
  /\ Move(p, "recorded", "checking")
  /\ db' = written /\ Release(p)
  /\ at' = [at EXCEPT ![p] = @ + 1]
  /\ UNCHANGED <<wal, registry, written, starts, lost>>

Opened(p) ==
  /\ at[p] > M
  /\ Move(p, "checking", "open")
  /\ UNCHANGED <<file, written, writer, at, starts, lost>>

(* busy_timeout passes before the lock is free. *)
LockTimeout(p) ==
  /\ pc[p] \in {"preparing", "begun", "applied"} /\ writer \notin {NoProcess, p}
  /\ pc' = [pc EXCEPT ![p] = "failed"]
  /\ UNCHANGED <<file, written, writer, at, starts, lost>>

(* A statement fails (the first pragma does when two processes convert one *)
(* file, for busy_timeout is not set yet), the context is done or the      *)
(* process dies: what was not committed is rolled back.                    *)
Fail(p) ==
  /\ pc[p] \in Opening
  /\ pc' = [pc EXCEPT ![p] = "failed"]
  /\ Release(p)
  /\ UNCHANGED <<file, written, at, starts, lost>>

Close(p) ==
  /\ Move(p, "open", "off")
  /\ UNCHANGED <<file, written, writer, at, starts, lost>>

OpeningsDone == (\A p \in Processes : pc[p] \in Finished) /\ UNCHANGED openingVars

Migrate(p) ==
  \/ EnsureRegistry(p) \/ Skip(p) \/ BeginMigration(p) \/ ApplyMigration(p)
  \/ RecordMigration(p) \/ Conflict(p) \/ CommitMigration(p) \/ Opened(p)
  \/ LockTimeout(p)

OpeningNext ==
  \/ \E p \in Processes :
       StartOpening(p) \/ ApplyPragmas(p) \/ Migrate(p) \/ Fail(p) \/ Close(p)
  \/ OpeningsDone

OpeningSpec == OpeningInit /\ [][OpeningNext]_openingVars

(* A statement ends, if only by its timeout. *)
FairOpening ==
  OpeningSpec /\ \A p \in Processes : WF_openingVars(ApplyPragmas(p) \/ Migrate(p))

-----------------------------------------------------------------------------
(* Properties *)

OpeningTypeOK ==
  /\ wal \in BOOLEAN /\ registry \in BOOLEAN
  /\ db \in Migrated /\ written \in Migrated
  /\ writer \in Processes \cup {NoProcess}
  /\ pc \in [Processes -> Opening \cup Finished]
  /\ at \in [Processes -> 1 .. M + 1]
  /\ starts \in [Processes -> 0 .. MaxStarts]
  /\ lost \in [Processes -> SUBSET Migrations]

(* A process that has opened the store has all of its tables, in WAL mode, *)
(* whoever created them, and every version is recorded: what readers and   *)
(* recordings need (app.OpenStore, app.Run).                               *)
OpenedIsCurrent ==
  \A p \in Processes : pc[p] = "open" =>
    wal /\ registry /\ db = [schema |-> Migrations, versions |-> Migrations]

(* A process that failed because another one was faster need only be       *)
(* started again: it never loses the race for one migration twice          *)
(* (migrationApplied).                                                     *)
LosesARaceOnce ==
  [][\A p \in Processes :
       (pc[p] # "lost" /\ pc'[p] = "lost") => at[p] \notin lost[p]]_openingVars

(* Opening ends, opened or with an error, however many processes wait for  *)
(* one another's transactions (Migrate, applyPragmas).                     *)
OpeningEnds ==
  \A p \in Processes : pc[p] = "opening" ~> pc[p] \in Finished
=============================================================================
