----------------------------- MODULE Migrations -----------------------------
(***************************************************************************)
(* Start-up: cmd/api and cmd/worker both call Migrate (internal/db/        *)
(* migrate.go) before they serve, and docker-compose starts them at the    *)
(* same time.  Migrate applies the embedded migrations that are not yet    *)
(* recorded in schema_migrations, in filename order, each in a transaction *)
(* of its own, while it holds one advisory lock.                           *)
(*                                                                         *)
(* A migration is its position in the sorted list of files, and the schema *)
(* is the sequence of the migrations whose statements are committed.       *)
(***************************************************************************)
EXTENDS Integers, Sequences, FiniteSets

CONSTANTS
    Processes,         \* the api and worker processes that start
    MigrationCount,    \* how many *.up.sql files the binary embeds
    MaxStops           \* bound: how many starts fail or crash

ASSUME MigrationsAssumption ==
    /\ MigrationCount \in Nat
    /\ MaxStops \in Nat

VARIABLES
    schema,            \* the migrations committed, in the order of commit
    recorded,          \* the versions in schema_migrations
    lockHolders,       \* the sessions that hold the advisory lock
    process,           \* the local variables of Migrate
    stops              \* how many starts have failed or crashed

migrationVars == <<schema, recorded, lockHolders, process, stops>>

\* "collided": a statement of the migration failed because another process
\* has applied it, "column already exists" (migrate.go:18-21).
MigratePc ==
    {"stopped", "lock", "check", "apply", "record", "commit", "unlock",
     "serving", "collided"}

ProcessState == [pc : MigratePc, version : Nat]

Stopped == [pc |-> "stopped", version |-> 0]

Migrating(p, pc) == process[p].pc = pc

Become(p, pc) == process' = [process EXCEPT ![p] = [@ EXCEPT !.pc = pc]]

\* On to the next file of the loop, or out of it
NextFile(p, version) ==
    process' = [process EXCEPT ![p] =
        IF version > MigrationCount THEN [pc |-> "unlock", version |-> 0]
        ELSE [pc |-> "check", version |-> version]]

SchemaUnchanged == UNCHANGED <<schema, recorded>>

StartProcess(p) ==
    /\ Migrating(p, "stopped")
    /\ Become(p, "lock")
    /\ SchemaUnchanged /\ UNCHANGED <<lockHolders, stops>>

\* Mutant of AcquireLock: pg_try_advisory_lock with its result ignored.
AcquireLockTry(p) ==
    /\ Migrating(p, "lock")
    /\ lockHolders' = lockHolders \cup {p}
    /\ NextFile(p, 1)
    /\ SchemaUnchanged /\ UNCHANGED stops

\* pg_advisory_lock waits for the session that holds the lock; then CREATE
\* TABLE IF NOT EXISTS schema_migrations.
AcquireLock(p) ==
    /\ Migrating(p, "lock")
    /\ lockHolders = {}
    /\ lockHolders' = {p}
    /\ NextFile(p, 1)
    /\ SchemaUnchanged /\ UNCHANGED stops

\* SELECT EXISTS ... FROM schema_migrations
CheckRecorded(p) ==
    /\ Migrating(p, "check")
    /\ IF process[p].version \in recorded
       THEN NextFile(p, process[p].version + 1)
       ELSE Become(p, "apply")
    /\ SchemaUnchanged /\ UNCHANGED <<lockHolders, stops>>

\* The statements of the file, in a transaction that is still open.
ApplyMigration(p) ==
    /\ Migrating(p, "apply")
    /\ Become(p, IF process[p].version \in recorded THEN "collided" ELSE "record")
    /\ SchemaUnchanged /\ UNCHANGED <<lockHolders, stops>>

\* Mutant of RecordMigration: the version is recorded by a statement of its
\* own, before the transaction commits.
RecordMigrationOutside(p) ==
    /\ Migrating(p, "record")
    /\ recorded' = recorded \cup {process[p].version}
    /\ Become(p, "commit")
    /\ UNCHANGED <<schema, lockHolders, stops>>

\* INSERT INTO schema_migrations: the primary key makes it wait for another
\* open transaction that inserted the version, and fail when it committed.
RecordMigration(p) ==
    /\ Migrating(p, "record")
    /\ \A q \in Processes \ {p} :
          ~(Migrating(q, "commit") /\ process[q].version = process[p].version)
    /\ Become(p, IF process[p].version \in recorded THEN "collided" ELSE "commit")
    /\ SchemaUnchanged /\ UNCHANGED <<lockHolders, stops>>

CommitMigration(p) ==
    /\ Migrating(p, "commit")
    /\ schema' = Append(schema, process[p].version)
    /\ recorded' = recorded \cup {process[p].version}
    /\ NextFile(p, process[p].version + 1)
    /\ UNCHANGED <<lockHolders, stops>>

\* Mutant of ReleaseLock: the pooled connection goes back with the lock.
ReleaseLockForgotten(p) ==
    /\ Migrating(p, "unlock")
    /\ Become(p, "serving")
    /\ SchemaUnchanged /\ UNCHANGED <<lockHolders, stops>>

\* The deferred pg_advisory_unlock, and Migrate returns nil.
ReleaseLock(p) ==
    /\ Migrating(p, "unlock")
    /\ lockHolders' = lockHolders \ {p}
    /\ Become(p, "serving")
    /\ SchemaUnchanged /\ UNCHANGED stops

\* A statement fails, which is fatal to the process, or the process crashes:
\* either way its session ends, which rolls the open transaction back and
\* releases the lock.
StopProcess(p) ==
    /\ ~Migrating(p, "stopped")
    /\ stops < MaxStops
    /\ stops' = stops + 1
    /\ process' = [process EXCEPT ![p] = Stopped]
    /\ lockHolders' = lockHolders \ {p}
    /\ SchemaUnchanged

MigrationsInit ==
    /\ schema = << >>
    /\ recorded = {}
    /\ lockHolders = {}
    /\ process = [p \in Processes |-> Stopped]
    /\ stops = 0

MigrateStep(p) ==
    \/ AcquireLock(p) \/ CheckRecorded(p) \/ ApplyMigration(p)
    \/ RecordMigration(p) \/ CommitMigration(p) \/ ReleaseLock(p)

MigrationsNext ==
    \E p \in Processes : StartProcess(p) \/ MigrateStep(p) \/ StopProcess(p)

MigrationsSpec == MigrationsInit /\ [][MigrationsNext]_migrationVars

\* A process that was started executes Migrate; nothing restarts one that
\* stopped (docker-compose.yml has no restart policy).
MigrationsFairSpec ==
    MigrationsSpec /\ \A p \in Processes : WF_migrationVars(MigrateStep(p))

---------------------------------------------------------------------------
(* Properties *)

\* Every variable has its type, and a transaction is open only under the
\* advisory lock.
MigrationsTypeOK ==
    /\ schema \in Seq(1..MigrationCount)
    /\ recorded \subseteq 1..MigrationCount
    /\ lockHolders \subseteq Processes
    /\ process \in [Processes -> ProcessState]
    /\ stops \in Nat
    /\ \A p \in Processes :
          process[p].pc \in {"check", "apply", "record", "commit"} =>
              p \in lockHolders /\ process[p].version \in 1..MigrationCount

\* No start fails because another process is applying the same migration
\* (migrate.go:15-21).
StartsDoNotCollide == \A p \in Processes : ~Migrating(p, "collided")

\* schema_migrations tells exactly which migrations are in the schema, and
\* they were applied once each, in filename order, however often a process
\* stopped half way (migrate.go:24-25).
AppliedInOrder ==
    /\ schema = [i \in 1..Len(schema) |-> i]
    /\ recorded = 1..Len(schema)

\* A process serves only with the complete schema its queries need.
ServesWithCompleteSchema ==
    \A p \in Processes : Migrating(p, "serving") => Len(schema) = MigrationCount

\* A process that waits for the lock gets past it, whoever held it before
\* and however it ended: it serves, unless it stops itself.
EveryStartEnds ==
    \A p \in Processes :
        Migrating(p, "lock") ~> Migrating(p, "serving") \/ Migrating(p, "stopped")
=============================================================================
