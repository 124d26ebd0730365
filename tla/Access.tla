------------------------------- MODULE Access -------------------------------
(***************************************************************************)
(* Who may call the API: an api process that has migrated the database     *)
(* gives the seeded dev user its API_TOKEN and then listens (cmd/api/      *)
(* main.go); a request is authenticated by the hash of its bearer token    *)
(* and authorized by the role of the user found (internal/api/             *)
(* middleware.go); POST /users adds users (users_handler.go, db/users.go). *)
(*                                                                         *)
(* A token and its SHA-256 hash are one value; generated tokens (32 random *)
(* bytes) are numbers, no two of them equal and none an API_TOKEN.  A      *)
(* request that changes nothing and is answered leaves no trace, whatever  *)
(* the HTTP status.                                                        *)
(***************************************************************************)
EXTENDS Migrations

CONSTANTS
    ApiProcesses,      \* the processes that run cmd/api, the others cmd/worker
    ApiToken,          \* API_TOKEN of each of them ("dev-token" when not set)
    NoToken,           \* token_hash NULL
    SeedMigration,     \* 000002_seed_dev_data.up.sql
    Callers,           \* each has one request open at a time
    DevEmail, Emails,  \* of the seeded user, and those users are created with
    MaxTokens          \* bound: how many tokens are generated

ASSUME AccessAssumption ==
    /\ ApiProcesses \subseteq Processes
    /\ SeedMigration \in 1..MigrationCount
    /\ MaxTokens \in Nat
    /\ \A p \in ApiProcesses : ApiToken[p] # NoToken
    /\ NoToken \notin Nat /\ \A p \in ApiProcesses : ApiToken[p] \notin Nat

VARIABLES
    users,             \* the rows of users
    listening,         \* the api processes past ListenAndServe
    request,           \* the request of each caller, and the role it acts in
    generated,         \* how many tokens GenerateToken has returned
    issued             \* the users callers were told of by a 201

accessVars == <<users, listening, request, generated, issued>>

Roles == {"uploader", "reviewer", "admin"}

DevUser == [email |-> DevEmail, role |-> "admin", token |-> NoToken]

NoRequest == [pc |-> "idle", process |-> 0, role |-> "none"]

AccessInit ==
    /\ MigrationsInit
    /\ users = << >>
    /\ listening = {}
    /\ request = [c \in Callers |-> NoRequest]
    /\ generated = 0
    /\ issued = {}

---------------------------------------------------------------------------
(* Start-up *)

StartMain(p) == StartProcess(p) /\ UNCHANGED accessVars

\* 000002 inserts the dev user; no other migration writes a row of users.
MigrateUsers(p) ==
    /\ MigrateStep(p)
    /\ users' = IF Migrating(p, "commit") /\ process[p].version = SeedMigration
                THEN Append(users, DevUser) ELSE users
    /\ UNCHANGED <<listening, request, generated, issued>>

Bootstrapping(p) ==
    p \in ApiProcesses /\ Migrating(p, "serving") /\ p \notin listening

Listen(p) ==
    /\ listening' = listening \cup {p}
    /\ UNCHANGED <<migrationVars, request, generated, issued>>

\* Mutant of BootstrapToken: UPDATE users without its WHERE.
BootstrapTokenOfAll(p) ==
    /\ Bootstrapping(p)
    /\ users' = [i \in DOMAIN users |-> [users[i] EXCEPT !.token = ApiToken[p]]]
    /\ Listen(p)

\* Mutant of BootstrapToken: a token that is set stays.
BootstrapTokenSkipped(p) ==
    /\ Bootstrapping(p)
    /\ UNCHANGED users
    /\ Listen(p)

\* SetTokenHash of the dev user, then ListenAndServe.  An error of either is
\* fatal: StopMain.
BootstrapToken(p) ==
    /\ Bootstrapping(p)
    /\ users' = [users EXCEPT ![1] = [@ EXCEPT !.token = ApiToken[p]]]
    /\ Listen(p)

\* The requests of a process end with it.
StopMain(p) ==
    /\ StopProcess(p)
    /\ listening' = listening \ {p}
    /\ request' = [c \in Callers |->
                      IF request[c].process = p THEN NoRequest ELSE request[c]]
    /\ UNCHANGED <<users, generated, issued>>

---------------------------------------------------------------------------
(* Requests *)

Answered(c) == request' = [request EXCEPT ![c] = NoRequest]

GetByTokenHash(token) == {i \in DOMAIN users : users[i].token = token}

\* Those of the environment, and those callers were given
KnownTokens == {ApiToken[p] : p \in ApiProcesses} \cup {user.token : user \in issued}

\* RequireAuth: the request acts in the role of this moment.  Without a
\* user for its token it is answered 401.
RequireAuth(c) ==
    /\ request[c].pc = "idle"
    /\ \E p \in listening, token \in KnownTokens :
          \E i \in GetByTokenHash(token) :
             request' = [request EXCEPT ![c] =
                            [pc |-> "authorize", process |-> p, role |-> users[i].role]]
    /\ UNCHANGED <<migrationVars, users, listening, generated, issued>>

AllowedRoles(route) ==
    CASE route = "/users" -> {"admin"}
      [] route = "/review-queue" -> {"reviewer", "admin"}
      [] route = "/documents" -> Roles

\* RequireRole: 403, or on to the handler of the route; those of documents
\* and of reviews are the other modules'.
RequireRole(c) ==
    /\ request[c].pc = "authorize"
    /\ \/ /\ request[c].role \in AllowedRoles("/users")
          /\ request' = [request EXCEPT ![c] = [@ EXCEPT !.pc = "create"]]
       \/ Answered(c)
    /\ UNCHANGED <<migrationVars, users, listening, generated, issued>>

EmailTaken(email) == \E i \in DOMAIN users : users[i].email = email

\* Mutant of InsertUser: ON CONFLICT (email) DO UPDATE.
InsertUserUpsert(user) ==
    users' = IF EmailTaken(user.email)
             THEN [i \in DOMAIN users |-> IF users[i].email = user.email THEN user ELSE users[i]]
             ELSE Append(users, user)

InsertUser(user) ==
    /\ ~EmailTaken(user.email)
    /\ users' = Append(users, user)

\* Users.Create: a token, then the INSERT.  The unique index on email may
\* refuse it (409), or it fails (500); or it commits and its handler does
\* not hear of it: then the email is taken and nobody has the token.
CreateUser(c) ==
    /\ request[c].pc = "create"
    /\ generated < MaxTokens /\ generated' = generated + 1
    /\ \/ \E email \in Emails \cup {DevEmail}, role \in Roles :
             LET user == [email |-> email, role |-> role, token |-> generated + 1]
             IN  /\ InsertUser(user)
                 /\ issued' \in {issued, issued \cup {user}}
       \/ UNCHANGED <<users, issued>>
    /\ Answered(c)
    /\ UNCHANGED <<migrationVars, listening>>

\* The body is malformed, the email missing or the role unknown: 400.
RefuseUser(c) ==
    /\ request[c].pc = "create"
    /\ Answered(c)
    /\ UNCHANGED <<migrationVars, users, listening, generated, issued>>

AccessNext ==
    \/ \E p \in Processes :
          StartMain(p) \/ MigrateUsers(p) \/ BootstrapToken(p) \/ StopMain(p)
    \/ \E c \in Callers : RequireAuth(c) \/ RequireRole(c) \/ CreateUser(c) \/ RefuseUser(c)

AccessSpec == AccessInit /\ [][AccessNext]_<<migrationVars, accessVars>>

\* The fairness of MigrationsFairSpec
AccessFairSpec ==
    /\ AccessSpec
    /\ \A p \in Processes : WF_<<migrationVars, accessVars>>(MigrateUsers(p))

---------------------------------------------------------------------------
(* Properties *)

\* A token names one user and so does an email, and a request acts through
\* a process that listens.
AccessTypeOK ==
    /\ MigrationsTypeOK
    /\ \A i, j \in DOMAIN users :
          \/ i = j
          \/ users[i].email # users[j].email /\ users[i].token # users[j].token
    /\ \A i \in DOMAIN users : users[i].role \in Roles
    /\ listening \subseteq ApiProcesses
    /\ \A c \in Callers :
          request[c].pc # "idle" => request[c].process \in listening /\ request[c].role \in Roles

\* A token that was answered once keeps working, in the role it was given
\* for: nothing but a restart changes a token, and only the dev user's.
\* (api.md: "token is shown exactly once"; there is no way to rotate it.)
IssuedTokensWork == \A user \in issued : \E i \in DOMAIN users : users[i] = user

\* While the API listens there is an admin who can log in with the API_TOKEN
\* of some api process: that of the last one that started.
ListeningHasItsAdmin ==
    listening # {} =>
        \E p \in ApiProcesses, i \in DOMAIN users :
            users[i].token = ApiToken[p] /\ users[i].role = "admin"
=============================================================================
