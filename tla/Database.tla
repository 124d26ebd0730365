------------------------------ MODULE Database ------------------------------
(***************************************************************************)
(* The PostgreSQL tables the worker and the API share, and the repository  *)
(* methods of internal/db as operations on them.  A table is the sequence  *)
(* of its rows in the order their inserts commit, taken to be the order of *)
(* created_at; a row's id is its index.  Every method is one statement or  *)
(* one explicit transaction, hence one atomic step.  A method that writes  *)
(* says what happens to every table.                                       *)
(*                                                                         *)
(* Abstracted: the tenant (one tenant), the document type (part of the     *)
(* key of a document), confidences and timestamps, and tool_executions,    *)
(* which no step of the system reads.                                      *)
(***************************************************************************)
EXTENDS Integers, Sequences, FiniteSets

CONSTANTS
    Contents,          \* the content hashes uploaded files can have
    Keys,              \* the hashes a complete set of key fields can have
    NoKey,             \* a document without a key_fields_hash
    Agent,             \* the author of extracted fields, beside reviewers
    Reviewers,         \* the users that submit reviews
    NoReviewer,        \* reviewed_by of a task nobody has decided
    Audited,           \* the audit actions an instance keeps rows of
    MaxDocuments,      \* bound: how many documents are uploaded
    MaxDatabaseErrors  \* bound: how many statements fail

ASSUME DatabaseAssumption ==
    /\ NoKey \notin Keys
    /\ Agent \notin Reviewers
    /\ NoReviewer \notin Reviewers
    /\ MaxDocuments \in Nat
    /\ MaxDatabaseErrors \in Nat

VARIABLES
    documents,         \* rows of documents
    agentRuns,         \* rows of agent_runs
    reviewTasks,       \* rows of review_tasks
    extractedFields,   \* batches of rows of extracted_fields
    auditLogs,         \* rows of audit_logs
    databaseErrors     \* how many statements have failed so far

tables == <<documents, agentRuns, reviewTasks, extractedFields, auditLogs>>

DocumentStatus ==
    {"UPLOADED", "CLASSIFIED", "EXTRACTED", "VALIDATED",
     "PENDING_REVIEW", "AUTO_PROCESSED", "REVIEWED", "FAILED"}

AgentRunStatus == {"RUNNING", "COMPLETED", "FAILED"}

ReviewReason ==
    {"UNKNOWN_TYPE", "VALIDATION_FAILED", "DUPLICATE", "LOW_CONFIDENCE"}

ReviewStatus == {"PENDING", "APPROVED", "REJECTED", "CORRECTED"}

\* key_fields_hash is NoKey and duplicate_of_document_id is 0 when NULL.
Document ==
    [status : DocumentStatus, content : Contents,
     key : Keys \cup {NoKey}, duplicateOf : Nat]

AgentRun == [document : Nat, status : AgentRunStatus, iterations : Nat]

ReviewTask ==
    [document : Nat, status : ReviewStatus, reason : ReviewReason,
     reviewedBy : Reviewers \cup {NoReviewer}]

\* One batch of rows.  The author is the rows' source and, of a correction,
\* the user_id of the request, which the rows themselves do not keep.
FieldBatch == [document : Nat, author : Reviewers \cup {Agent}]

AuditLog == [action : Audited, document : Nat]

DatabaseTypeOK ==
    /\ documents \in Seq(Document)
    /\ agentRuns \in Seq(AgentRun)
    /\ reviewTasks \in Seq(ReviewTask)
    /\ extractedFields \in Seq(FieldBatch)
    /\ auditLogs \in Seq(AuditLog)
    /\ databaseErrors \in Nat

DatabaseInit ==
    /\ documents = << >>
    /\ agentRuns = << >>
    /\ reviewTasks = << >>
    /\ extractedFields = << >>
    /\ auditLogs = << >>
    /\ databaseErrors = 0

(***************************************************************************)
(* How a caller executes a statement: it is applied and the caller goes on *)
(* with onSuccess, or it fails, changes nothing and the caller gets an err *)
(* it handles with onError.                                                *)
(***************************************************************************)
Attempt(statement, onSuccess, onError) ==
    \/ /\ statement
       /\ onSuccess
       /\ UNCHANGED databaseErrors
    \/ /\ databaseErrors < MaxDatabaseErrors
       /\ databaseErrors' = databaseErrors + 1
       /\ onError
       /\ UNCHANGED tables

\* A step that writes no table.
NoStatement == UNCHANGED <<tables, databaseErrors>>

---------------------------------------------------------------------------
(* documents.go *)

DocumentWritten ==
    UNCHANGED <<agentRuns, reviewTasks, extractedFields, auditLogs>>

CreateDocument(content) ==
    /\ documents' = Append(documents,
                           [status |-> "UPLOADED", content |-> content,
                            key |-> NoKey, duplicateOf |-> 0])
    /\ DocumentWritten

\* UPDATE documents SET status = s WHERE id = d: no statement has a guard
\* on the status the row has.
SetStatus(d, s) ==
    /\ documents' = [documents EXCEPT ![d] = [@ EXCEPT !.status = s]]
    /\ DocumentWritten

MarkClassified(d) == SetStatus(d, "CLASSIFIED")

MarkExtracted(d) == SetStatus(d, "EXTRACTED")

MarkValidated(d) == SetStatus(d, "VALIDATED")

MarkPendingReview(d) == SetStatus(d, "PENDING_REVIEW")

MarkAutoProcessed(d) == SetStatus(d, "AUTO_PROCESSED")

MarkReviewed(d) == SetStatus(d, "REVIEWED")

MarkFailed(d) == SetStatus(d, "FAILED")

MarkUploaded(d) == SetStatus(d, "UPLOADED")

MarkDuplicateOf(d, earlier) ==
    /\ documents' = [documents EXCEPT ![d] = [@ EXCEPT !.duplicateOf = earlier]]
    /\ DocumentWritten

\* Mutant of SetKeyFieldsHash: the hash of the first attempt stays.
SetKeyFieldsHashOnce(d, key) ==
    /\ documents' = [documents EXCEPT ![d] =
                        [@ EXCEPT !.key = IF documents[d].key = NoKey THEN key
                                          ELSE documents[d].key]]
    /\ DocumentWritten

SetKeyFieldsHash(d, key) ==
    /\ documents' = [documents EXCEPT ![d] = [@ EXCEPT !.key = key]]
    /\ DocumentWritten

\* ORDER BY created_at DESC LIMIT 1: the set of rows returned, one or none
Latest(S) == {d \in S : \A e \in S : e <= d}

\* Mutant of Earliest: ORDER BY created_at DESC.
EarliestDescending(S) == Latest(S)

\* ORDER BY created_at ASC LIMIT 1
Earliest(S) == {d \in S : \A e \in S : d <= e}

\* Mutant of WithContentHash: only documents that are done count.
WithContentHashProcessed(content) ==
    {d \in DOMAIN documents :
        documents[d].content = content /\ documents[d].status = "AUTO_PROCESSED"}

WithContentHash(content) ==
    {d \in DOMAIN documents : documents[d].content = content}

FindByContentHash(content) == Earliest(WithContentHash(content))

WithKeyFieldsHash(key) ==
    {d \in DOMAIN documents : documents[d].key = key}

\* Mutant of FindByKeyFieldsHash: the latest match.
FindByKeyFieldsHashLatest(key) == Latest(WithKeyFieldsHash(key))

FindByKeyFieldsHash(key) == Earliest(WithKeyFieldsHash(key))

---------------------------------------------------------------------------
(* agent_runs.go and the INSERT of claim.go *)

AgentRunWritten ==
    UNCHANGED <<documents, reviewTasks, extractedFields, auditLogs>>

InsertRun(d) ==
    /\ agentRuns' = Append(agentRuns,
                           [document |-> d, status |-> "RUNNING", iterations |-> 0])
    /\ AgentRunWritten

Finish(run, s, n) ==
    /\ agentRuns' = [agentRuns EXCEPT
                        ![run] = [@ EXCEPT !.status = s, !.iterations = n]]
    /\ AgentRunWritten

RunsWith(d, s) ==
    {r \in DOMAIN agentRuns : agentRuns[r].document = d /\ agentRuns[r].status = s}

CountFailed(d) == Cardinality(RunsWith(d, "FAILED"))

---------------------------------------------------------------------------
(* review_tasks.go *)

ReviewTaskWritten ==
    UNCHANGED <<documents, agentRuns, extractedFields, auditLogs>>

CreateReviewTask(d, reason) ==
    /\ reviewTasks' = Append(reviewTasks,
                             [document |-> d, status |-> "PENDING", reason |-> reason,
                              reviewedBy |-> NoReviewer])
    /\ ReviewTaskWritten

PendingTasks(d) ==
    {t \in DOMAIN reviewTasks :
        reviewTasks[t].document = d /\ reviewTasks[t].status = "PENDING"}

GetPendingByDocument(d) == Latest(PendingTasks(d))

\* Mutant of Resolve: the row is left as it is.
ResolveForgotten(task, s, reviewer) == UNCHANGED tables

\* UPDATE by id alone: the task may have been resolved since it was read.
Resolve(task, s, reviewer) ==
    /\ reviewTasks' = [reviewTasks EXCEPT
                          ![task] = [@ EXCEPT !.status = s, !.reviewedBy = reviewer]]
    /\ ReviewTaskWritten

---------------------------------------------------------------------------
(* extracted_fields.go and audit_logs.go *)

\* No batch is empty: schemas and forms name at least one field.
InsertBatch(d, author) ==
    /\ extractedFields' = Append(extractedFields, [document |-> d, author |-> author])
    /\ UNCHANGED <<documents, agentRuns, reviewTasks, auditLogs>>

\* The rows from which a reader gets, per field, the most recent one
BatchesOf(d) ==
    {b \in DOMAIN extractedFields : extractedFields[b].document = d}

AuditRecord(action, d) ==
    /\ auditLogs' = IF action \in Audited
                    THEN Append(auditLogs, [action |-> action, document |-> d])
                    ELSE auditLogs
    /\ UNCHANGED <<documents, agentRuns, reviewTasks, extractedFields>>
=============================================================================
