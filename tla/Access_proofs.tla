---------------------------- MODULE Access_proofs ----------------------------
(***************************************************************************)
(* Theorems about start-up and access. First Migrations, for any number of *)
(* processes, of migrations and of stops; then Access, for any number of   *)
(* callers and users too: it implements Migrations, a token that was       *)
(* answered keeps working, an API that listens has an admin who can log    *)
(* in, and no two users share a token or an email.                         *)
(***************************************************************************)
EXTENDS Access, SequenceTheorems, TLAPS

---------------------------------------------------------------------------
(* Migrations *)

Locked == {"check", "apply", "record", "commit", "unlock"}

\* What a process knows of the schema, which only the holder of the lock
\* changes
ProcessInv(p) ==
    /\ process[p].pc \in Locked => p \in lockHolders
    /\ process[p].pc = "check" => process[p].version <= Len(schema) + 1
    /\ process[p].pc \in {"apply", "record", "commit"} =>
          process[p].version = Len(schema) + 1
    /\ process[p].pc \in {"unlock", "serving"} => Len(schema) = MigrationCount
    /\ process[p].pc # "collided"

MigrationsInv ==
    /\ MigrationsTypeOK
    /\ Len(schema) <= MigrationCount
    /\ AppliedInOrder
    /\ \A p, q \in lockHolders : p = q
    /\ \A p \in Processes : ProcessInv(p)

LEMMA MigrationsInitially == MigrationsInit => MigrationsInv
BY MigrationsAssumption
DEF MigrationsInit, MigrationsInv, MigrationsTypeOK, AppliedInOrder, ProcessInv,
    ProcessState, MigratePc, Stopped, Locked

LEMMA NextFileMoves ==
    ASSUME MigrationsInv, NEW p \in Processes, NEW version \in Nat \ {0},
           NextFile(p, version)
    PROVE  \E st \in ProcessState :
              /\ process' = [process EXCEPT ![p] = st]
              /\ \/ version > MigrationCount /\ st.pc = "unlock"
                 \/ /\ version <= MigrationCount
                    /\ st.pc = "check" /\ st.version = version
<1>1. CASE version > MigrationCount
  <2>1. [pc |-> "unlock", version |-> 0] \in ProcessState
    BY DEF ProcessState, MigratePc
  <2>2. process' = [process EXCEPT ![p] = [pc |-> "unlock", version |-> 0]]
    BY <1>1 DEF NextFile
  <2> QED
    BY <1>1, <2>1, <2>2
<1>2. CASE ~(version > MigrationCount)
  <2>1. [pc |-> "check", version |-> version] \in ProcessState
    BY DEF ProcessState, MigratePc
  <2>2. process' = [process EXCEPT ![p] = [pc |-> "check", version |-> version]]
    BY <1>2 DEF NextFile
  <2>3. version <= MigrationCount
    BY <1>2, MigrationsAssumption
  <2> QED
    BY <2>1, <2>2, <2>3
<1> QED
  BY <1>1, <1>2

LEMMA BecomeMoves ==
    ASSUME MigrationsInv, NEW p \in Processes, NEW pc \in MigratePc, Become(p, pc)
    PROVE  \E st \in ProcessState :
              /\ process' = [process EXCEPT ![p] = st]
              /\ st.pc = pc /\ st.version = process[p].version
<1> DEFINE st == [process[p] EXCEPT !.pc = pc]
<1>1. process[p] \in ProcessState
  BY DEF MigrationsInv, MigrationsTypeOK
<1>2. st \in ProcessState /\ st.pc = pc /\ st.version = process[p].version
  BY <1>1 DEF ProcessState
<1>3. process' = [process EXCEPT ![p] = st]
  BY DEF Become
<1> HIDE DEF st
<1> QED
  BY <1>2, <1>3

\* A step of a process that leaves the schema alone
LEMMA ProcessMoves ==
    ASSUME MigrationsInv, NEW p \in Processes, NEW st \in ProcessState,
           process' = [process EXCEPT ![p] = st],
           SchemaUnchanged, stops' \in Nat,
           lockHolders' \subseteq Processes,
           \A q, r \in lockHolders' : q = r,
           lockHolders \ {p} \subseteq lockHolders',
           st.pc \in Locked => p \in lockHolders',
           st.pc \in {"check", "apply", "record", "commit"} =>
              st.version \in 1..MigrationCount,
           st.pc = "check" => st.version <= Len(schema) + 1,
           st.pc \in {"apply", "record", "commit"} => st.version = Len(schema) + 1,
           st.pc \in {"unlock", "serving"} => Len(schema) = MigrationCount,
           st.pc # "collided"
    PROVE  MigrationsInv'
<1>1. process \in [Processes -> ProcessState]
  BY DEF MigrationsInv, MigrationsTypeOK
<1>2. /\ process' \in [Processes -> ProcessState] /\ process'[p] = st
      /\ \A q \in Processes \ {p} : process'[q] = process[q]
  BY <1>1
<1>3. ASSUME NEW q \in Processes PROVE ProcessInv(q)'
  <2>1. CASE q = p
    BY <1>2, <2>1 DEF ProcessInv, SchemaUnchanged
  <2>2. CASE q # p
    BY <1>2, <2>2 DEF MigrationsInv, ProcessInv, SchemaUnchanged
  <2> QED
    BY <2>1, <2>2
<1>4. MigrationsTypeOK'
  BY <1>2 DEF MigrationsInv, MigrationsTypeOK, SchemaUnchanged, Locked
<1> QED
  BY <1>3, <1>4 DEF MigrationsInv, AppliedInOrder, SchemaUnchanged

LEMMA CommitKeeps ==
    ASSUME MigrationsInv, NEW p \in Processes, CommitMigration(p)
    PROVE  MigrationsInv'
<1> DEFINE n == Len(schema) + 1
<1>1. /\ process \in [Processes -> ProcessState] /\ process[p].pc = "commit"
      /\ process[p].version = n /\ n \in 1..MigrationCount /\ p \in lockHolders
      /\ schema \in Seq(1..MigrationCount) /\ Len(schema) \in Nat
      /\ MigrationCount \in Nat
  BY LenProperties, MigrationsAssumption
  DEF CommitMigration, Migrating, MigrationsInv, MigrationsTypeOK, ProcessInv
<1>2. /\ schema' = Append(schema, n) /\ recorded' = recorded \cup {n}
      /\ NextFile(p, n + 1) /\ UNCHANGED <<lockHolders, stops>>
  BY <1>1 DEF CommitMigration
<1>3. /\ schema' \in Seq(1..MigrationCount) /\ Len(schema') = n
      /\ \A i \in 1..Len(schema) : schema'[i] = schema[i]
      /\ schema'[n] = n
  BY <1>1, <1>2, AppendProperties
<1>4. AppliedInOrder'
  <2>1. recorded' = 1..Len(schema')
    BY <1>1, <1>2, <1>3 DEF MigrationsInv, AppliedInOrder
  <2>2. \A i \in 1..Len(schema) : schema[i] = i
    BY DEF MigrationsInv, AppliedInOrder
  <2>3. ASSUME NEW i \in 1..Len(schema') PROVE schema'[i] = i
    <3>1. i \in 1..Len(schema) \/ i = n
      BY <1>1, <1>3
    <3> QED
      BY <1>3, <2>2, <3>1
  <2>4. schema' = [i \in 1..Len(schema') |-> i]
    BY <1>3, <2>3
  <2> QED
    BY <2>1, <2>4 DEF AppliedInOrder
<1>5. PICK st \in ProcessState :
        /\ process' = [process EXCEPT ![p] = st]
        /\ \/ n + 1 > MigrationCount /\ st.pc = "unlock"
           \/ n + 1 <= MigrationCount /\ st.pc = "check" /\ st.version = n + 1
  BY <1>1, <1>2, NextFileMoves
<1>6. /\ process' \in [Processes -> ProcessState] /\ process'[p] = st
      /\ \A q \in Processes \ {p} : process'[q] = process[q]
  BY <1>1, <1>5
<1>7. \A q \in Processes \ {p} : process[q].pc \notin Locked \cup {"serving"}
  BY <1>1 DEF MigrationsInv, ProcessInv
<1>8. ASSUME NEW q \in Processes PROVE ProcessInv(q)'
  <2>1. CASE q = p
    BY <1>1, <1>2, <1>3, <1>5, <1>6, <2>1 DEF ProcessInv, Locked
  <2>2. CASE q # p
    BY <1>6, <1>7, <2>2 DEF MigrationsInv, ProcessInv, Locked
  <2> QED
    BY <2>1, <2>2
<1>9. MigrationsTypeOK'
  <2>1. ASSUME NEW q \in Processes,
               process'[q].pc \in {"check", "apply", "record", "commit"}
        PROVE  q \in lockHolders' /\ process'[q].version \in 1..MigrationCount
    <3>1. q = p
      BY <1>6, <1>7, <2>1 DEF Locked
    <3> QED
      BY <1>1, <1>2, <1>5, <1>6, <2>1, <3>1
  <2>2. recorded' \subseteq 1..MigrationCount
    BY <1>1, <1>2 DEF MigrationsInv, MigrationsTypeOK
  <2> QED
    BY <1>2, <1>3, <1>6, <2>1, <2>2 DEF MigrationsInv, MigrationsTypeOK
<1> QED
  BY <1>1, <1>2, <1>3, <1>4, <1>8, <1>9 DEF MigrationsInv

\* No step of any process breaks the invariant.
THEOREM MigrationsInductive ==
    MigrationsInv /\ [MigrationsNext]_migrationVars => MigrationsInv'
<1> SUFFICES ASSUME MigrationsInv, [MigrationsNext]_migrationVars PROVE MigrationsInv'
  OBVIOUS
<1>1. CASE UNCHANGED migrationVars
  BY <1>1 DEF migrationVars, MigrationsInv, MigrationsTypeOK, AppliedInOrder, ProcessInv
<1>2. ASSUME NEW p \in Processes, StartProcess(p) \/ MigrateStep(p) \/ StopProcess(p)
      PROVE  MigrationsInv'
  <2> DEFINE version == process[p].version
             moves(pc) == \E st \in ProcessState :
                             /\ process' = [process EXCEPT ![p] = st]
                             /\ st.pc = pc /\ st.version = version
  <2>1. /\ process \in [Processes -> ProcessState] /\ process[p] \in ProcessState
        /\ process[p].version \in Nat /\ stops \in Nat /\ MigrationCount \in Nat
        /\ Len(schema) \in Nat /\ Len(schema) <= MigrationCount
        /\ recorded = 1..Len(schema)
        /\ lockHolders \subseteq Processes /\ \A q, r \in lockHolders : q = r
        /\ ProcessInv(p)
    BY LenProperties, MigrationsAssumption
    DEF MigrationsInv, MigrationsTypeOK, AppliedInOrder, ProcessState
  <2>2. ASSUME NEW pc \in MigratePc, Become(p, pc) PROVE moves(pc)
    BY <2>2, BecomeMoves
  <2>3. CASE StartProcess(p)
    <3>1. moves("lock")
      BY <2>2, <2>3 DEF StartProcess, MigratePc
    <3> QED
      BY <2>1, <2>3, <3>1, ProcessMoves DEF StartProcess, Locked
  <2>4. CASE AcquireLock(p)
    <3>1. PICK st \in ProcessState :
            /\ process' = [process EXCEPT ![p] = st]
            /\ \/ 1 > MigrationCount /\ st.pc = "unlock"
               \/ 1 <= MigrationCount /\ st.pc = "check" /\ st.version = 1
      BY <2>4, NextFileMoves DEF AcquireLock
    <3>2. /\ lockHolders' = {p} /\ lockHolders = {} /\ SchemaUnchanged /\ stops' \in Nat
          /\ st.pc = "unlock" => Len(schema) = MigrationCount
          /\ st.pc = "check" => st.version \in 1..MigrationCount /\ st.version <= Len(schema) + 1
          /\ st.pc \in {"unlock", "check"}
      BY <2>1, <2>4, <3>1 DEF AcquireLock
    <3> QED
      BY <3>1, <3>2, ProcessMoves DEF Locked
  <2>5. CASE CheckRecorded(p)
    <3>1. version \in 1..MigrationCount /\ version <= Len(schema) + 1 /\ p \in lockHolders
      BY <2>1, <2>5
      DEF CheckRecorded, Migrating, ProcessInv, MigrationsInv, MigrationsTypeOK, Locked
    <3>2. CASE version \in recorded
      <4>1. PICK st \in ProcessState :
              /\ process' = [process EXCEPT ![p] = st]
              /\ \/ version + 1 > MigrationCount /\ st.pc = "unlock"
                 \/ version + 1 <= MigrationCount /\ st.pc = "check" /\ st.version = version + 1
        BY <2>1, <2>5, <3>1, <3>2, NextFileMoves DEF CheckRecorded
      <4>2. /\ SchemaUnchanged /\ stops' \in Nat /\ lockHolders' = lockHolders
            /\ st.pc = "unlock" => Len(schema) = MigrationCount
            /\ st.pc = "check" =>
                  st.version \in 1..MigrationCount /\ st.version <= Len(schema) + 1
            /\ st.pc \in {"unlock", "check"}
        BY <2>1, <2>5, <3>1, <3>2, <4>1 DEF CheckRecorded
      <4> QED
        BY <2>1, <3>1, <4>1, <4>2, ProcessMoves DEF Locked
    <3>3. CASE version \notin recorded
      <4>1. moves("apply") /\ version = Len(schema) + 1
        BY <2>1, <2>2, <2>5, <3>1, <3>3 DEF CheckRecorded, MigratePc
      <4> QED
        BY <2>1, <2>5, <3>1, <4>1, ProcessMoves DEF CheckRecorded, Locked
    <3> QED
      BY <3>2, <3>3
  <2>6. CASE ApplyMigration(p)
    <3>1. version \in 1..MigrationCount /\ version = Len(schema) + 1 /\ p \in lockHolders
      BY <2>1, <2>6
      DEF ApplyMigration, Migrating, ProcessInv, MigrationsInv, MigrationsTypeOK, Locked
    <3>2. moves("record")
      BY <2>1, <2>2, <2>6, <3>1 DEF ApplyMigration, MigratePc
    <3> QED
      BY <2>1, <2>6, <3>1, <3>2, ProcessMoves DEF ApplyMigration, Locked
  <2>7. CASE RecordMigration(p)
    <3>1. version \in 1..MigrationCount /\ version = Len(schema) + 1 /\ p \in lockHolders
      BY <2>1, <2>7
      DEF RecordMigration, Migrating, ProcessInv, MigrationsInv, MigrationsTypeOK, Locked
    <3>2. moves("commit")
      BY <2>1, <2>2, <2>7, <3>1 DEF RecordMigration, MigratePc
    <3> QED
      BY <2>1, <2>7, <3>1, <3>2, ProcessMoves DEF RecordMigration, Locked
  <2>8. CASE CommitMigration(p)
    BY <2>8, CommitKeeps
  <2>9. CASE ReleaseLock(p)
    <3>1. moves("serving") /\ Len(schema) = MigrationCount
      BY <2>1, <2>2, <2>9 DEF ReleaseLock, Migrating, ProcessInv, MigratePc
    <3> QED
      BY <2>1, <2>9, <3>1, ProcessMoves, ZenonT(60) DEF ReleaseLock, Locked
  <2>10. CASE StopProcess(p)
    <3>1. Stopped \in ProcessState /\ Stopped.pc = "stopped"
      BY DEF Stopped, ProcessState, MigratePc
    <3>2. /\ process' = [process EXCEPT ![p] = Stopped] /\ SchemaUnchanged
          /\ stops' \in Nat /\ lockHolders' = lockHolders \ {p}
      BY <2>1, <2>10 DEF StopProcess
    <3>3. /\ lockHolders' \subseteq Processes /\ \A q, r \in lockHolders' : q = r
          /\ lockHolders \ {p} \subseteq lockHolders'
      BY <2>1, <3>2
    <3> QED
      BY <3>1, <3>2, <3>3, ProcessMoves DEF Locked
  <2> QED
    BY <1>2, <2>3, <2>4, <2>5, <2>6, <2>7, <2>8, <2>9, <2>10 DEF MigrateStep
<1> QED
  BY <1>1, <1>2 DEF MigrationsNext

LEMMA MigrationsInvHolds == MigrationsSpec => []MigrationsInv
BY MigrationsInitially, MigrationsInductive, PTL DEF MigrationsSpec

\* Every variable keeps its type, and migrations run under the lock only.
THEOREM MigrationsTypeCorrect == MigrationsSpec => []MigrationsTypeOK
<1>1. MigrationsInv => MigrationsTypeOK
  BY DEF MigrationsInv
<1> QED
  BY <1>1, MigrationsInvHolds, PTL

\* However many processes start at once, none fails because another is
\* applying the same migration (migrate.go:15-21).
THEOREM StartsDoNotCollideHolds == MigrationsSpec => []StartsDoNotCollide
<1>1. MigrationsInv => StartsDoNotCollide
  BY DEF MigrationsInv, ProcessInv, StartsDoNotCollide, Migrating
<1> QED
  BY <1>1, MigrationsInvHolds, PTL

\* The migrations in the schema are those recorded, once each and in filename
\* order, wherever processes stop (migrate.go:24-25).
THEOREM AppliedInOrderHolds == MigrationsSpec => []AppliedInOrder
<1>1. MigrationsInv => AppliedInOrder
  BY DEF MigrationsInv
<1> QED
  BY <1>1, MigrationsInvHolds, PTL

\* Whoever serves has the complete schema (cmd/api/main.go:33-35).
THEOREM ServesWithCompleteSchemaHolds == MigrationsSpec => []ServesWithCompleteSchema
<1>1. MigrationsInv => ServesWithCompleteSchema
  BY DEF MigrationsInv, ProcessInv, ServesWithCompleteSchema, Migrating
<1> QED
  BY <1>1, MigrationsInvHolds, PTL

---------------------------------------------------------------------------
(* Access *)

LEMMA AccessRefines ==
    [AccessNext]_<<migrationVars, accessVars>> => [MigrationsNext]_migrationVars
<1> SUFFICES ASSUME [AccessNext]_<<migrationVars, accessVars>>
             PROVE  [MigrationsNext]_migrationVars
  OBVIOUS
<1>1. ASSUME NEW p \in Processes, StartMain(p) \/ MigrateUsers(p) \/ StopMain(p)
      PROVE  MigrationsNext
  BY <1>1 DEF StartMain, MigrateUsers, StopMain, MigrationsNext
<1>2. ASSUME NEW p \in Processes, BootstrapToken(p) PROVE UNCHANGED migrationVars
  BY <1>2 DEF BootstrapToken, Listen
<1>3. ASSUME NEW c \in Callers,
             RequireAuth(c) \/ RequireRole(c) \/ CreateUser(c) \/ RefuseUser(c)
      PROVE  UNCHANGED migrationVars
  BY <1>3 DEF RequireAuth, RequireRole, CreateUser, RefuseUser
<1>4. CASE UNCHANGED <<migrationVars, accessVars>>
  BY <1>4
<1> QED
  BY <1>1, <1>2, <1>3, <1>4 DEF AccessNext

\* Tokens, users and requests leave the migrations as they are.
THEOREM AccessImplementsMigrations == AccessSpec => MigrationsSpec
<1>1. AccessInit => MigrationsInit
  BY DEF AccessInit
<1> QED
  BY <1>1, AccessRefines, PTL DEF AccessSpec, MigrationsSpec

---------------------------------------------------------------------------
(* Users *)

User == [email : Emails \cup {DevEmail}, role : Roles,
         token : Nat \cup {NoToken} \cup {ApiToken[p] : p \in ApiProcesses}]

RequestState == [pc : {"idle", "authorize", "create"},
                 process : Processes \cup {0}, role : Roles \cup {"none"}]

\* The dev user is the first row from the commit of its migration on, and
\* the only one whose token changes; who listens has set it.
AccessInv ==
    /\ MigrationsInv
    /\ users \in Seq(User)
    /\ generated \in Nat
    /\ request \in [Callers -> RequestState]
    /\ SeedMigration <= Len(schema) => users # << >>
    /\ users # << >> => users[1].role = "admin"
    /\ listening # {} => \E p \in ApiProcesses : users[1].token = ApiToken[p]
    /\ \A p \in listening : p \in ApiProcesses /\ Migrating(p, "serving")
    /\ \A c \in Callers : request[c].pc # "idle" => request[c].process \in listening
    /\ \A user \in issued : \E i \in 2..Len(users) : users[i] = user

LEMMA ServingHasUsers ==
    ASSUME AccessInv, NEW p \in Processes, Migrating(p, "serving")
    PROVE  users # << >> /\ 1 \in 1..Len(users) /\ Len(users) \in Nat
<1>1. Len(schema) = MigrationCount
  BY DEF AccessInv, MigrationsInv, ProcessInv, Migrating
<1>2. SeedMigration <= Len(schema)
  BY <1>1, AccessAssumption, MigrationsAssumption
<1> QED
  BY <1>2 DEF AccessInv

LEMMA AccessInitially == AccessInit => AccessInv
<1> SUFFICES ASSUME AccessInit PROVE AccessInv
  OBVIOUS
<1>1. MigrationsInv /\ Len(schema) = 0
  BY MigrationsInitially DEF AccessInit, MigrationsInit
<1>2. NoRequest \in RequestState /\ NoRequest.pc = "idle"
  BY DEF NoRequest, RequestState
<1>3. ~(SeedMigration <= Len(schema))
  BY <1>1, AccessAssumption, MigrationsAssumption
<1>4. users \in Seq(User) /\ users = << >>
  BY DEF AccessInit
<1> QED
  BY <1>1, <1>2, <1>3, <1>4 DEF AccessInit, AccessInv

\* A row is added to users, and nobody listens or asks more than before.
LEMMA UserAdded ==
    ASSUME AccessInv, MigrationsInv', NEW user \in User, users' = Append(users, user),
           users = << >> => user.role = "admin" /\ listening = {}
    PROVE  /\ users' \in Seq(User) /\ users' # << >>
           /\ users'[1].role = "admin"
           /\ users # << >> => users'[1] = users[1]
           /\ users'[Len(users) + 1] = user
           /\ Len(users) \in Nat /\ Len(users') = Len(users) + 1
           /\ \A i \in 2..Len(users) : users'[i] = users[i] /\ i \in 2..Len(users')
<1>1. users \in Seq(User) /\ Len(users) \in Nat
  BY DEF AccessInv
<1>2. /\ users' \in Seq(User) /\ Len(users') = Len(users) + 1
      /\ \A i \in 1..Len(users) : users'[i] = users[i]
      /\ users'[Len(users) + 1] = user
  BY <1>1, AppendProperties
<1>3. CASE users = << >>
  BY <1>1, <1>2, <1>3
<1>4. CASE users # << >>
  <2>1. 1 \in 1..Len(users)
    BY <1>1, <1>4
  <2> QED
    BY <1>1, <1>2, <1>4, <2>1 DEF AccessInv
<1> QED
  BY <1>3, <1>4

LEMMA NobodyListensBeforeUsers ==
    ASSUME AccessInv, users = << >>
    PROVE  listening = {}
<1> SUFFICES ASSUME NEW p \in listening PROVE FALSE
  OBVIOUS
<1>1. p \in Processes /\ Migrating(p, "serving")
  BY AccessAssumption DEF AccessInv
<1> QED
  BY <1>1, ServingHasUsers

\* A step of another process, or the start of this one, leaves who serves
\* serving.
LEMMA ServingStays ==
    ASSUME MigrationsInv, NEW p \in Processes, StartProcess(p) \/ MigrateStep(p),
           NEW q \in Processes, Migrating(q, "serving")
    PROVE  Migrating(q, "serving")'
<1>1. process \in [Processes -> ProcessState]
  BY DEF MigrationsInv, MigrationsTypeOK
<1>2. ~Migrating(p, "serving")
  BY DEF StartProcess, MigrateStep, AcquireLock, CheckRecorded, ApplyMigration,
         RecordMigration, CommitMigration, ReleaseLock, Migrating
<1>3. q # p
  BY <1>2
<1>4. process'[q] = process[q]
  BY <1>1, <1>3
  DEF StartProcess, MigrateStep, AcquireLock, CheckRecorded, ApplyMigration,
      RecordMigration, CommitMigration, ReleaseLock, Become, NextFile
<1> QED
  BY <1>4 DEF Migrating

LEMMA StartKeepsAccess ==
    ASSUME AccessInv, MigrationsInv', NEW p \in Processes, StartMain(p)
    PROVE  AccessInv'
<1>1. StartProcess(p) /\ UNCHANGED <<schema, users, listening, request, generated, issued>>
  BY DEF StartMain, accessVars, StartProcess, SchemaUnchanged
<1>2. ASSUME NEW q \in listening PROVE q \in ApiProcesses /\ Migrating(q, "serving")'
  BY <1>1, ServingStays, AccessAssumption DEF AccessInv
<1> QED
  BY <1>1, <1>2 DEF AccessInv

LEMMA MigrateKeepsAccess ==
    ASSUME AccessInv, MigrationsInv', NEW p \in Processes, MigrateUsers(p)
    PROVE  AccessInv'
<1>1. /\ MigrateStep(p) /\ UNCHANGED <<listening, request, generated, issued>>
      /\ MigrationsInv
  BY DEF MigrateUsers, AccessInv
<1>2. ASSUME NEW q \in listening PROVE q \in ApiProcesses /\ Migrating(q, "serving")'
  BY <1>1, ServingStays, AccessAssumption DEF AccessInv
<1>3. CASE Migrating(p, "commit") /\ process[p].version = SeedMigration
  <2>1. users' = Append(users, DevUser)
    BY <1>3 DEF MigrateUsers
  <2>2. DevUser \in User /\ DevUser.role = "admin"
    BY DEF DevUser, User, Roles
  <2>3. /\ users' \in Seq(User) /\ users' # << >>
        /\ users'[1].role = "admin"
        /\ users # << >> => users'[1] = users[1]
        /\ \A i \in 2..Len(users) : users'[i] = users[i] /\ i \in 2..Len(users')
    BY <2>1, <2>2, UserAdded, NobodyListensBeforeUsers
  <2>4. listening # {} => users # << >>
    BY NobodyListensBeforeUsers
  <2>5. ASSUME NEW user \in issued PROVE \E i \in 2..Len(users') : users'[i] = user
    BY <2>3 DEF AccessInv
  <2> QED
    BY <1>1, <1>2, <2>3, <2>4, <2>5 DEF AccessInv
<1>4. CASE ~(Migrating(p, "commit") /\ process[p].version = SeedMigration)
  <2>1. users' = users
    BY <1>4 DEF MigrateUsers
  <2>2. SeedMigration <= Len(schema') => SeedMigration <= Len(schema)
    <3>1. CASE UNCHANGED schema
      BY <3>1
    <3>2. CASE CommitMigration(p)
      <4>1. /\ schema \in Seq(1..MigrationCount) /\ Len(schema) \in Nat
            /\ process[p].version = Len(schema) + 1
        BY <1>1, <3>2
        DEF MigrationsInv, MigrationsTypeOK, ProcessInv, CommitMigration, Migrating
      <4>2. schema' = Append(schema, Len(schema) + 1) /\ Len(schema) + 1 # SeedMigration
        BY <1>4, <3>2, <4>1 DEF CommitMigration
      <4>3. Len(schema') = Len(schema) + 1
        BY <4>1, <4>2
      <4>4. SeedMigration \in Nat
        BY AccessAssumption, MigrationsAssumption
      <4> QED
        BY <4>1, <4>2, <4>3, <4>4
    <3> QED
      BY <1>1, <3>1, <3>2
      DEF MigrateStep, AcquireLock, CheckRecorded, ApplyMigration, RecordMigration,
          ReleaseLock, SchemaUnchanged
  <2> QED
    BY <1>1, <1>2, <2>1, <2>2 DEF AccessInv
<1> QED
  BY <1>3, <1>4

\* The dev user's token is that of the process from now on.
LEMMA BootstrapKeepsAccess ==
    ASSUME AccessInv, MigrationsInv', NEW p \in Processes, BootstrapToken(p)
    PROVE  AccessInv'
<1>1. /\ p \in ApiProcesses /\ Migrating(p, "serving")
      /\ users' = [users EXCEPT ![1] = [users[1] EXCEPT !.token = ApiToken[p]]]
      /\ listening' = listening \cup {p}
      /\ UNCHANGED <<schema, process, request, generated, issued>>
  BY DEF BootstrapToken, Bootstrapping, Listen, migrationVars
<1>2. users # << >> /\ 1 \in 1..Len(users) /\ users \in Seq(User) /\ Len(users) \in Nat
  BY <1>1, ServingHasUsers DEF AccessInv
<1>3. users[1] \in User /\ users[1].role = "admin"
  BY <1>2 DEF AccessInv
<1>4. PICK old \in User : old = users[1]
  BY <1>3
<1>5. [old EXCEPT !.token = ApiToken[p]] \in User
  BY <1>1 DEF User
<1>6. PICK dev \in User : dev = [old EXCEPT !.token = ApiToken[p]]
  BY <1>5
<1>7. dev.token = ApiToken[p] /\ dev.role = "admin"
  BY <1>3, <1>4, <1>6 DEF User
<1>8. users' = [users EXCEPT ![1] = dev]
  BY <1>1, <1>4, <1>6
<1>9. /\ users' \in Seq(User) /\ Len(users') = Len(users) /\ users'[1] = dev
      /\ \A i \in 1..Len(users) : i # 1 => users'[i] = users[i]
  BY <1>2, <1>8, ExceptSeq
<1>10. ASSUME NEW user \in issued PROVE \E i \in 2..Len(users') : users'[i] = user
  <2>1. PICK i \in 2..Len(users) : users[i] = user
    BY DEF AccessInv
  <2>2. i \in 1..Len(users) /\ i # 1
    BY <1>2, <2>1
  <2> QED
    BY <1>9, <2>1, <2>2
<1>11. \A q \in listening' : q \in ApiProcesses /\ Migrating(q, "serving")'
  BY <1>1 DEF AccessInv, Migrating
<1> QED
  BY <1>1, <1>2, <1>7, <1>9, <1>10, <1>11 DEF AccessInv

LEMMA StopKeepsAccess ==
    ASSUME AccessInv, MigrationsInv', NEW p \in Processes, StopMain(p)
    PROVE  AccessInv'
<1>1. /\ process' = [process EXCEPT ![p] = Stopped]
      /\ listening' = listening \ {p}
      /\ request' = [c \in Callers |->
                        IF request[c].process = p THEN NoRequest ELSE request[c]]
      /\ UNCHANGED <<schema, users, generated, issued>>
  BY DEF StopMain, StopProcess, SchemaUnchanged
<1>2. process \in [Processes -> ProcessState]
  BY DEF AccessInv, MigrationsInv, MigrationsTypeOK
<1>3. \A q \in listening' : q \in ApiProcesses /\ Migrating(q, "serving")'
  BY <1>1, <1>2, AccessAssumption DEF AccessInv, Migrating
<1>4. NoRequest \in RequestState /\ NoRequest.pc = "idle"
  BY DEF NoRequest, RequestState
<1>5. request' \in [Callers -> RequestState]
  BY <1>1, <1>4 DEF AccessInv
<1>6. ASSUME NEW c \in Callers, request'[c].pc # "idle"
      PROVE  request'[c].process \in listening'
  BY <1>1, <1>4, <1>6 DEF AccessInv
<1> QED
  BY <1>1, <1>3, <1>5, <1>6 DEF AccessInv

---------------------------------------------------------------------------
(* Requests *)

\* A request goes on, or is answered, and nothing else changes.
LEMMA RequestKeepsAccess ==
    ASSUME AccessInv, MigrationsInv', NEW c \in Callers, NEW req \in RequestState,
           request' = [request EXCEPT ![c] = req],
           req.pc # "idle" => req.process \in listening,
           UNCHANGED <<migrationVars, users, listening, generated, issued>>
    PROVE  AccessInv'
<1>1. /\ request' \in [Callers -> RequestState] /\ request'[c] = req
      /\ \A d \in Callers \ {c} : request'[d] = request[d]
  BY DEF AccessInv
<1>2. ASSUME NEW d \in Callers, request'[d].pc # "idle"
      PROVE  request'[d].process \in listening
  BY <1>1, <1>2 DEF AccessInv
<1>3. UNCHANGED <<schema, process>>
  BY DEF migrationVars
<1>4. \A p \in listening : p \in ApiProcesses /\ Migrating(p, "serving")'
  BY <1>3 DEF AccessInv, Migrating
<1> QED
  BY <1>1, <1>2, <1>3, <1>4 DEF AccessInv

LEMMA NoRequestIsState == NoRequest \in RequestState /\ NoRequest.pc = "idle"
BY DEF NoRequest, RequestState

LEMMA CreateUserKeepsAccess ==
    ASSUME AccessInv, MigrationsInv', NEW c \in Callers, CreateUser(c)
    PROVE  AccessInv'
<1>1. /\ request[c].pc = "create" /\ generated' = generated + 1
      /\ request' = [request EXCEPT ![c] = NoRequest]
      /\ UNCHANGED <<schema, process, listening>>
  BY DEF CreateUser, Answered, migrationVars
<1>2. /\ request' \in [Callers -> RequestState] /\ request'[c] = NoRequest
      /\ \A d \in Callers \ {c} : request'[d] = request[d]
  BY <1>1, NoRequestIsState DEF AccessInv
<1>3. \A d \in Callers : request'[d].pc # "idle" => request'[d].process \in listening
  BY <1>2, NoRequestIsState DEF AccessInv
<1>4. \A p \in listening : p \in ApiProcesses /\ Migrating(p, "serving")'
  BY <1>1 DEF AccessInv, Migrating
<1>5. generated' \in Nat
  BY <1>1 DEF AccessInv
<1>6. users # << >>
  BY <1>1, NobodyListensBeforeUsers DEF AccessInv
<1>7. CASE UNCHANGED <<users, issued>>
  BY <1>1, <1>2, <1>3, <1>4, <1>5, <1>7 DEF AccessInv
<1>8. CASE ~UNCHANGED <<users, issued>>
  <2>1. PICK email \in Emails \cup {DevEmail}, role \in Roles :
           LET user == [email |-> email, role |-> role, token |-> generated + 1]
           IN  InsertUser(user) /\ issued' \in {issued, issued \cup {user}}
    BY <1>8 DEF CreateUser
  <2>2. [email |-> email, role |-> role, token |-> generated + 1] \in User
    <3>1. generated + 1 \in Nat
      BY <1>1, <1>5
    <3> QED
      BY <3>1 DEF User
  <2>3. PICK user \in User :
           user = [email |-> email, role |-> role, token |-> generated + 1]
    BY <2>2
  <2>4. users' = Append(users, user) /\ issued' \subseteq issued \cup {user}
    BY <2>1, <2>3 DEF InsertUser
  <2>5. /\ users' \in Seq(User) /\ users' # << >>
        /\ users'[1].role = "admin" /\ users'[1] = users[1]
        /\ users'[Len(users) + 1] = user
        /\ Len(users) \in Nat /\ Len(users') = Len(users) + 1
        /\ \A i \in 2..Len(users) : users'[i] = users[i] /\ i \in 2..Len(users')
    BY <1>6, <2>4, UserAdded
  <2>6. Len(users) + 1 \in 2..Len(users')
    BY <1>6, <2>5 DEF AccessInv
  <2>7. ASSUME NEW known \in issued' PROVE \E i \in 2..Len(users') : users'[i] = known
    <3>1. CASE known = user
      BY <2>5, <2>6, <3>1
    <3>2. CASE known \in issued
      <4>1. PICK i \in 2..Len(users) : users[i] = known
        BY <3>2 DEF AccessInv
      <4> QED
        BY <2>5, <4>1
    <3> QED
      BY <2>4, <3>1, <3>2
  <2> QED
    BY <1>1, <1>2, <1>3, <1>4, <1>5, <1>6, <2>5, <2>7 DEF AccessInv
<1> QED
  BY <1>7, <1>8

LEMMA CallerKeepsAccess ==
    ASSUME AccessInv, MigrationsInv', NEW c \in Callers,
           RequireAuth(c) \/ RequireRole(c) \/ CreateUser(c) \/ RefuseUser(c)
    PROVE  AccessInv'
<1>1. CASE RequireAuth(c)
  <2>1. PICK p \in listening, i \in DOMAIN users :
           request' = [request EXCEPT ![c] =
                          [pc |-> "authorize", process |-> p, role |-> users[i].role]]
    BY <1>1 DEF RequireAuth, GetByTokenHash
  <2>2. p \in Processes /\ users[i] \in User
    BY AccessAssumption DEF AccessInv
  <2>3. PICK req \in RequestState :
           req = [pc |-> "authorize", process |-> p, role |-> users[i].role]
    BY <2>2 DEF User, RequestState
  <2>4. req.process \in listening
    BY <2>3
  <2> QED
    BY <1>1, <2>1, <2>3, <2>4, RequestKeepsAccess DEF RequireAuth
<1>2. CASE RequireRole(c)
  <2>1. CASE Answered(c)
    BY <1>2, <2>1, NoRequestIsState, RequestKeepsAccess DEF RequireRole, Answered
  <2>2. CASE ~Answered(c)
    <3>1. PICK old \in RequestState : old = request[c]
      BY DEF AccessInv
    <3>2. [old EXCEPT !.pc = "create"] \in RequestState
      BY DEF RequestState
    <3>3. PICK req \in RequestState : req = [old EXCEPT !.pc = "create"]
      BY <3>2
    <3>4. req.process = old.process /\ old.pc = "authorize"
      BY <1>2, <3>1, <3>3 DEF RequestState, RequireRole
    <3>5. req.process \in listening
      BY <3>1, <3>4 DEF AccessInv
    <3>6. request' = [request EXCEPT ![c] = req]
      BY <1>2, <2>2, <3>1, <3>3 DEF RequireRole
    <3> QED
      BY <1>2, <3>5, <3>6, RequestKeepsAccess DEF RequireRole
  <2> QED
    BY <2>1, <2>2
<1>3. CASE CreateUser(c)
  BY <1>3, CreateUserKeepsAccess
<1>4. CASE RefuseUser(c)
  BY <1>4, NoRequestIsState, RequestKeepsAccess DEF RefuseUser, Answered
<1> QED
  BY <1>1, <1>2, <1>3, <1>4

LEMMA AccessInductive ==
    AccessInv /\ [AccessNext]_<<migrationVars, accessVars>> => AccessInv'
<1> SUFFICES ASSUME AccessInv, [AccessNext]_<<migrationVars, accessVars>> PROVE AccessInv'
  OBVIOUS
<1>1. MigrationsInv'
  BY AccessRefines, MigrationsInductive DEF AccessInv
<1>2. CASE UNCHANGED <<migrationVars, accessVars>>
  BY <1>1, <1>2 DEF AccessInv, migrationVars, accessVars, Migrating
<1>3. CASE AccessNext
  BY <1>1, <1>3, StartKeepsAccess, MigrateKeepsAccess, BootstrapKeepsAccess,
     StopKeepsAccess, CallerKeepsAccess DEF AccessNext
<1> QED
  BY <1>2, <1>3

THEOREM AccessInvHolds == AccessSpec => []AccessInv
BY AccessInitially, AccessInductive, PTL DEF AccessSpec

---------------------------------------------------------------------------
(* The properties *)

\* A token that was answered keeps working in its role, however often api
\* processes stop, start again and set the dev user's (db/users.go:55-61).
THEOREM IssuedTokensWorkHolds == AccessSpec => []IssuedTokensWork
<1>1. AccessInv => IssuedTokensWork
  <2> SUFFICES ASSUME AccessInv, NEW user \in issued
               PROVE  \E i \in DOMAIN users : users[i] = user
    BY DEF IssuedTokensWork
  <2>1. PICK i \in 2..Len(users) : users[i] = user
    BY DEF AccessInv
  <2>2. i \in DOMAIN users
    BY <2>1 DEF AccessInv
  <2> QED
    BY <2>1, <2>2
<1> QED
  BY <1>1, AccessInvHolds, PTL

\* Whoever listens, an admin can log in with the API_TOKEN of some api
\* process (cmd/api/main.go:39-42).
THEOREM ListeningHasItsAdminHolds == AccessSpec => []ListeningHasItsAdmin
<1>1. AccessInv => ListeningHasItsAdmin
  <2> SUFFICES ASSUME AccessInv, NEW q \in listening
               PROVE  \E p \in ApiProcesses, i \in DOMAIN users :
                         users[i].token = ApiToken[p] /\ users[i].role = "admin"
    BY DEF ListeningHasItsAdmin
  <2>1. PICK p \in ApiProcesses : users[1].token = ApiToken[p]
    BY DEF AccessInv
  <2>2. users # << >> /\ users \in Seq(User)
    BY NobodyListensBeforeUsers DEF AccessInv
  <2>3. 1 \in DOMAIN users /\ users[1].role = "admin"
    BY <2>2 DEF AccessInv
  <2> QED
    BY <2>1, <2>3
<1> QED
  BY <1>1, AccessInvHolds, PTL

\* Users and tokens do not come in the way of start-up: what serves still
\* has the complete schema.
THEOREM AccessServesComplete == AccessSpec => []ServesWithCompleteSchema
BY AccessImplementsMigrations, ServesWithCompleteSchemaHolds, PTL

---------------------------------------------------------------------------
(* One user per token and email *)

EnvironmentTokens == {NoToken} \cup {ApiToken[p] : p \in ApiProcesses}

\* The token of the dev user, and of no other, is the environment's.
TokensApart ==
    \A i \in DOMAIN users :
        users[i].token \in IF i = 1 THEN EnvironmentTokens ELSE 1..generated

UsersDiffer ==
    \A i, j \in DOMAIN users :
        \/ i = j
        \/ users[i].email # users[j].email /\ users[i].token # users[j].token

UsersInv ==
    /\ AccessInv
    /\ users # << >> => SeedMigration <= Len(schema)
    /\ TokensApart
    /\ UsersDiffer
    /\ \A c \in Callers : request[c].pc # "idle" => request[c].role \in Roles

LEMMA UsersRows ==
    ASSUME AccessInv
    PROVE  /\ Len(users) \in Nat /\ DOMAIN users = 1..Len(users)
           /\ \A i \in DOMAIN users : users[i] \in User
<1>1. users \in Seq(User)
  BY DEF AccessInv
<1> QED
  BY <1>1, LenProperties, ElementOfSeq

\* A row whose token and email nobody has
LEMMA NewUserDiffers ==
    ASSUME UsersInv, NEW user \in User, users' = Append(users, user),
           generated' \in Nat, generated <= generated', users # << >>,
           user.token \in 1..generated' \ 1..generated, ~EmailTaken(user.email)
    PROVE  TokensApart' /\ UsersDiffer'
<1>1. /\ Len(users) \in Nat /\ DOMAIN users = 1..Len(users)
      /\ users \in Seq(User) /\ generated \in Nat
  BY UsersRows DEF UsersInv, AccessInv
<1>2. /\ DOMAIN users' = 1..(Len(users) + 1)
      /\ \A i \in 1..Len(users) : users'[i] = users[i]
      /\ users'[Len(users) + 1] = user
  BY <1>1, AppendProperties, LenProperties
<1>3. Len(users) + 1 # 1
  BY <1>1 DEF UsersInv
<1>4. \A i \in DOMAIN users : users[i].token # user.token /\ users[i].email # user.email
  <2> SUFFICES ASSUME NEW i \in DOMAIN users PROVE users[i].token # user.token
    BY DEF EmailTaken
  <2>1. users[i].token \in EnvironmentTokens \cup 1..generated
    BY DEF UsersInv, TokensApart
  <2>2. user.token \in Nat
    OBVIOUS
  <2>3. \A token \in EnvironmentTokens : token \notin Nat
    BY AccessAssumption DEF EnvironmentTokens
  <2> QED
    BY <2>1, <2>2, <2>3
<1>5. TokensApart'
  <2> SUFFICES ASSUME NEW i \in DOMAIN users'
               PROVE  users'[i].token \in
                         IF i = 1 THEN EnvironmentTokens ELSE 1..generated'
    BY DEF TokensApart, EnvironmentTokens
  <2>1. CASE i \in 1..Len(users)
    BY <1>1, <1>2, <2>1 DEF UsersInv, TokensApart
  <2>2. CASE i = Len(users) + 1
    BY <1>2, <1>3, <2>2
  <2> QED
    BY <1>1, <1>2, <2>1, <2>2
<1>6. UsersDiffer'
  <2> SUFFICES ASSUME NEW i \in DOMAIN users', NEW j \in DOMAIN users', i # j
               PROVE  /\ users'[i].email # users'[j].email
                      /\ users'[i].token # users'[j].token
    BY DEF UsersDiffer
  <2>1. CASE i \in 1..Len(users) /\ j \in 1..Len(users)
    BY <1>1, <1>2, <2>1 DEF UsersInv, UsersDiffer
  <2>2. CASE i = Len(users) + 1 /\ j \in 1..Len(users)
    BY <1>1, <1>2, <1>4, <2>2
  <2>3. CASE j = Len(users) + 1 /\ i \in 1..Len(users)
    BY <1>1, <1>2, <1>4, <2>3
  <2> QED
    BY <1>1, <1>2, <2>1, <2>2, <2>3
<1> QED
  BY <1>5, <1>6

LEMMA MigrateKeepsUsers ==
    ASSUME UsersInv, NEW p \in Processes, MigrateUsers(p)
    PROVE  /\ users' # << >> => SeedMigration <= Len(schema')
           /\ TokensApart' /\ UsersDiffer'
<1>1. /\ MigrationsInv /\ Len(schema) \in Nat /\ schema \in Seq(1..MigrationCount)
      /\ generated' = generated
  BY DEF UsersInv, AccessInv, MigrationsInv, MigrationsTypeOK, MigrateUsers
<1>2. SeedMigration \in Nat
  BY AccessAssumption, MigrationsAssumption
<1>3. CASE Migrating(p, "commit") /\ process[p].version = SeedMigration
  <2>1. CommitMigration(p) /\ Len(schema) + 1 = SeedMigration
    BY <1>1, <1>3
    DEF MigrateUsers, MigrateStep, AcquireLock, CheckRecorded, ApplyMigration,
        RecordMigration, CommitMigration, ReleaseLock, Migrating, MigrationsInv, ProcessInv
  <2>2. Len(schema') = SeedMigration
    BY <1>1, <1>3, <2>1 DEF CommitMigration
  <2>3. users = << >>
    BY <1>1, <2>1 DEF UsersInv
  <2>4. users' = <<DevUser>>
    BY <1>3, <2>3 DEF MigrateUsers
  <2>5. DOMAIN users' = {1} /\ users'[1] = DevUser
    BY <2>4
  <2> QED
    BY <1>2, <2>2, <2>5 DEF TokensApart, UsersDiffer, EnvironmentTokens, DevUser
<1>4. CASE ~(Migrating(p, "commit") /\ process[p].version = SeedMigration)
  <2>1. users' = users
    BY <1>4 DEF MigrateUsers
  <2>2. Len(schema') \in Nat /\ Len(schema) <= Len(schema')
    <3>1. CASE CommitMigration(p)
      <4>1. PICK v \in 1..MigrationCount : schema' = Append(schema, v)
        BY <3>1
        DEF CommitMigration, Migrating, UsersInv, AccessInv, MigrationsInv, MigrationsTypeOK
      <4> QED
        BY <1>1, <4>1
    <3>2. CASE UNCHANGED schema
      BY <1>1, <3>2
    <3> QED
      BY <3>1, <3>2
      DEF MigrateUsers, MigrateStep, AcquireLock, CheckRecorded, ApplyMigration,
          RecordMigration, ReleaseLock, SchemaUnchanged
  <2>3. users' # << >> => SeedMigration <= Len(schema')
    BY <1>1, <1>2, <2>1, <2>2 DEF UsersInv
  <2> QED
    BY <1>1, <2>1, <2>3, ZenonT(60) DEF UsersInv, TokensApart, UsersDiffer, EnvironmentTokens
<1> QED
  BY <1>3, <1>4

LEMMA BootstrapKeepsUsers ==
    ASSUME UsersInv, NEW p \in Processes, BootstrapToken(p)
    PROVE  TokensApart' /\ UsersDiffer' /\ users # << >>
<1>1. /\ p \in ApiProcesses /\ Migrating(p, "serving") /\ generated' = generated
      /\ users' = [users EXCEPT ![1] = [users[1] EXCEPT !.token = ApiToken[p]]]
  BY DEF BootstrapToken, Bootstrapping, Listen
<1>2. users # << >> /\ 1 \in DOMAIN users /\ DOMAIN users' = DOMAIN users
  BY <1>1, ServingHasUsers, UsersRows DEF UsersInv
<1>3. users[1] \in User /\ generated \in Nat
  BY <1>2, UsersRows DEF UsersInv, AccessInv
<1>4. users'[1].email = users[1].email /\ users'[1].token = ApiToken[p]
  BY <1>1, <1>2, <1>3 DEF User
<1>5. \A i \in DOMAIN users : i # 1 => users'[i] = users[i]
  BY <1>1
<1>6. TokensApart'
  <2> SUFFICES ASSUME NEW i \in DOMAIN users
               PROVE  users'[i].token \in IF i = 1 THEN EnvironmentTokens ELSE 1..generated'
    BY <1>2 DEF TokensApart, EnvironmentTokens
  <2>1. CASE i = 1
    BY <1>1, <1>4, <2>1 DEF EnvironmentTokens
  <2>2. CASE i # 1
    BY <1>1, <1>5, <2>2 DEF UsersInv, TokensApart
  <2> QED
    BY <2>1, <2>2
<1>7. ASSUME NEW i \in DOMAIN users, i # 1 PROVE users'[i].token # ApiToken[p]
  <2>1. users[i].token \in 1..generated /\ ApiToken[p] \notin Nat
    BY <1>1, <1>7, AccessAssumption DEF UsersInv, TokensApart
  <2> QED
    BY <1>3, <1>5, <1>7, <2>1
<1>8. UsersDiffer'
  <2> SUFFICES ASSUME NEW i \in DOMAIN users, NEW j \in DOMAIN users, i # j
               PROVE  /\ users'[i].email # users'[j].email
                      /\ users'[i].token # users'[j].token
    BY <1>2 DEF UsersDiffer
  <2>1. users[i].email # users[j].email /\ users[i].token # users[j].token
    BY DEF UsersInv, UsersDiffer
  <2>2. CASE i # 1 /\ j # 1
    BY <1>5, <2>1, <2>2
  <2>3. CASE i = 1 \/ j = 1
    BY <1>4, <1>5, <1>7, <2>1, <2>3
  <2> QED
    BY <2>2, <2>3
<1>9. users # << >>
  BY <1>2
<1> QED
  BY <1>6, <1>8, <1>9

LEMMA CreateUserKeepsUsers ==
    ASSUME UsersInv, NEW c \in Callers, CreateUser(c)
    PROVE  TokensApart' /\ UsersDiffer' /\ users # << >>
<1>1. users # << >>
  BY NobodyListensBeforeUsers DEF UsersInv, AccessInv, CreateUser
<1>2. generated \in Nat /\ generated' = generated + 1
  BY DEF UsersInv, AccessInv, CreateUser
<1>3. CASE UNCHANGED users
  <2>1. \A token \in 1..generated : token \in 1..generated'
    BY <1>2
  <2>2. TokensApart'
    BY <1>3, <2>1 DEF UsersInv, TokensApart, EnvironmentTokens
  <2>3. UsersDiffer'
    BY <1>3 DEF UsersInv, UsersDiffer
  <2> QED
    BY <1>1, <2>2, <2>3
<1>4. CASE ~UNCHANGED users
  <2>1. PICK email \in Emails \cup {DevEmail}, role \in Roles :
           InsertUser([email |-> email, role |-> role, token |-> generated + 1])
    BY <1>4 DEF CreateUser
  <2>2. [email |-> email, role |-> role, token |-> generated + 1] \in User
    BY <1>2 DEF User
  <2>3. PICK user \in User :
           user = [email |-> email, role |-> role, token |-> generated + 1]
    BY <2>2
  <2>4. users' = Append(users, user) /\ ~EmailTaken(user.email)
    BY <2>1, <2>3 DEF InsertUser
  <2>5. user.token \in 1..generated' \ 1..generated /\ generated <= generated'
    BY <1>2, <2>3
  <2> QED
    BY <1>1, <1>2, <2>4, <2>5, NewUserDiffers
<1> QED
  BY <1>1, <1>3, <1>4

LEMMA RolesKept ==
    ASSUME UsersInv, AccessNext
    PROVE  \A c \in Callers : request'[c].pc # "idle" => request'[c].role \in Roles
<1> USE DEF UsersInv, NoRequest
<1>1. request \in [Callers -> RequestState]
  BY DEF AccessInv
<1>2. CASE UNCHANGED request
  BY <1>2
<1>3. ASSUME NEW p \in Processes, StopMain(p)
      PROVE  \A c \in Callers : request'[c].pc # "idle" => request'[c].role \in Roles
  BY <1>3 DEF StopMain
<1>4. ASSUME NEW c \in Callers, Answered(c)
      PROVE  \A d \in Callers : request'[d].pc # "idle" => request'[d].role \in Roles
  BY <1>1, <1>4 DEF Answered
<1>5. ASSUME NEW c \in Callers, RequireAuth(c)
      PROVE  \A d \in Callers : request'[d].pc # "idle" => request'[d].role \in Roles
  <2>1. PICK p \in listening, i \in DOMAIN users :
           request' = [request EXCEPT ![c] =
                          [pc |-> "authorize", process |-> p, role |-> users[i].role]]
    BY <1>5 DEF RequireAuth, GetByTokenHash
  <2>2. users[i].role \in Roles
    BY UsersRows DEF User
  <2> QED
    BY <1>1, <2>1, <2>2
<1>6. ASSUME NEW c \in Callers, RequireRole(c), ~Answered(c)
      PROVE  \A d \in Callers : request'[d].pc # "idle" => request'[d].role \in Roles
  <2>1. PICK old \in RequestState : old = request[c]
    BY <1>1
  <2>2. /\ request' = [request EXCEPT ![c] = [old EXCEPT !.pc = "create"]]
        /\ old.role \in Roles
    BY <1>6, <2>1 DEF RequireRole
  <2>3. [old EXCEPT !.pc = "create"].role = old.role
    BY DEF RequestState
  <2> QED
    BY <1>1, <2>2, <2>3
<1> QED
  BY <1>2, <1>3, <1>4, <1>5, <1>6
  DEF AccessNext, StartMain, MigrateUsers, BootstrapToken, Listen, CreateUser, RefuseUser,
      accessVars

LEMMA UsersInductive ==
    UsersInv /\ [AccessNext]_<<migrationVars, accessVars>> => UsersInv'
<1> SUFFICES ASSUME UsersInv, [AccessNext]_<<migrationVars, accessVars>> PROVE UsersInv'
  OBVIOUS
<1>1. AccessInv'
  BY AccessInductive DEF UsersInv
<1>2. CASE UNCHANGED <<migrationVars, accessVars>>
  BY <1>1, <1>2, ZenonT(60)
  DEF UsersInv, migrationVars, accessVars, TokensApart, UsersDiffer, EnvironmentTokens
<1>3. CASE AccessNext
  <2>1. \A c \in Callers : request'[c].pc # "idle" => request'[c].role \in Roles
    BY <1>3, RolesKept
  <2>2. CASE \E p \in Processes : MigrateUsers(p)
    BY <1>1, <2>1, <2>2, MigrateKeepsUsers DEF UsersInv
  <2>3. CASE \E p \in Processes : BootstrapToken(p)
    <3>1. UNCHANGED schema
      BY <2>3 DEF BootstrapToken, Listen, migrationVars
    <3> QED
      BY <1>1, <2>1, <2>3, <3>1, BootstrapKeepsUsers DEF UsersInv
  <2>4. CASE \E c \in Callers : CreateUser(c)
    <3>1. UNCHANGED schema
      BY <2>4 DEF CreateUser, migrationVars
    <3> QED
      BY <1>1, <2>1, <2>4, <3>1, CreateUserKeepsUsers DEF UsersInv
  <2>5. CASE \/ \E p \in Processes : StartMain(p) \/ StopMain(p)
             \/ \E c \in Callers : RequireAuth(c) \/ RequireRole(c) \/ RefuseUser(c)
    <3>1. UNCHANGED <<schema, users, generated>>
      BY <2>5
      DEF StartMain, StopMain, RequireAuth, RequireRole, RefuseUser, StartProcess,
          StopProcess, SchemaUnchanged, migrationVars, accessVars
    <3> QED
      BY <1>1, <2>1, <3>1, ZenonT(60) DEF UsersInv, TokensApart, UsersDiffer, EnvironmentTokens
  <2> QED
    BY <1>3, <2>2, <2>3, <2>4, <2>5 DEF AccessNext
<1> QED
  BY <1>2, <1>3

\* A token or an email names one user, whoever creates users and however
\* often the dev user's token is set: a row of users never has a token that
\* another row has (the unique indexes of users on email and
\* on token_hash).
THEOREM AccessTypeCorrect == AccessSpec => []AccessTypeOK
<1>1. AccessInit => UsersInv
  <2> SUFFICES ASSUME AccessInit PROVE UsersInv
    OBVIOUS
  <2>1. AccessInv /\ users = << >> /\ \A c \in Callers : request[c].pc = "idle"
    BY AccessInitially DEF AccessInit, NoRequest
  <2>2. DOMAIN users = {}
    BY <2>1
  <2> QED
    BY <2>1, <2>2 DEF UsersInv, TokensApart, UsersDiffer
<1>2. UsersInv => AccessTypeOK
  <2> SUFFICES ASSUME UsersInv PROVE AccessTypeOK
    OBVIOUS
  <2>1. MigrationsTypeOK /\ \A i \in DOMAIN users : users[i].role \in Roles
    BY UsersRows DEF UsersInv, AccessInv, MigrationsInv, User
  <2> QED
    BY <2>1 DEF UsersInv, AccessInv, UsersDiffer, AccessTypeOK
<1> QED
  BY <1>1, <1>2, UsersInductive, PTL DEF AccessSpec
=============================================================================
