# A TLA+ model of the document-processing system

These modules model the Go system of this repository: an API server that takes
uploaded documents, workers that take each document through an OCR/LLM pipeline,
and reviewers who decide what the pipeline would not. The parts share nothing but
one PostgreSQL database, and almost every operation is a series of single
statements rather than a transaction. What has to be right is therefore a matter
of the order in which the statements of several processes reach the database, and
that is what the model is about.

## 1. The system

| Component | State it keeps | Operations | Talks to |
| --- | --- | --- | --- |
| Agent worker (`cmd/worker`, `internal/agent/runner.go`) | local variables of one run: document, run id, iterations, extracted fields | `PollOnce`, `process` (seven steps), `routeToReview`, `fail` | database, OCR and LLM providers |
| Claiming (`internal/db/claim.go`) | an open transaction: snapshot, row lock | `ClaimNextUploaded` | `documents`, `agent_runs` |
| Repositories (`internal/db`) | `documents`, `agent_runs`, `review_tasks`, `extracted_fields`, `audit_logs`, `tool_executions` | one statement or one transaction each | PostgreSQL |
| Review handler (`internal/api/review_handler.go`) | one request: document, task, decision | `Submit`, `Queue` | database |
| Upload (`internal/api/documents_handler.go`) | one request; a stored file | `Upload`, `Get`, `ListAgentRuns`, `ListAuditLog` | file store, database |
| Tool executions (`internal/db/tool_executions.go`) | `tool_executions`: the trace of a run | `Record`, `ListByAgentRun` | database |
| Start-up (`internal/db/migrate.go`, both `main.go`) | advisory lock, `schema_migrations`, the dev user's token | `Migrate`, then `SetTokenHash`, `ListenAndServe` | database |
| Users and tokens (`internal/auth`, `internal/db/users.go`, `middleware.go`, `users_handler.go`) | `users` | `Create`, `SetTokenHash`, `RequireAuth`, `RequireRole` | database |
| Validation (`internal/validation`) | none | `Validate` | called by the runner |
| Providers (`internal/providers`) | none | `ExtractText`, `Classify`, `Extract`, each within `TOOL_TIMEOUT_SECONDS` | external services, the file store |
| File store (`internal/storage`) | files | `Save`, `Open` | disk |
| Web pages (`web/`) | what a page shows, its requests in flight | upload, refresh, queue, decision | the API |

How they interact. A client's `Upload` inserts a document as `UPLOADED`. A worker
polls; `ClaimNextUploaded` picks the oldest `UPLOADED` document without a
`RUNNING` run and opens one. `process` then moves the document through
`CLASSIFIED`, `EXTRACTED` and `VALIDATED` to `AUTO_PROCESSED`, or calls
`routeToReview` (a review task, `PENDING_REVIEW`), or calls `fail`, which finishes
the run as `FAILED` and puts the document back to `UPLOADED` while the retry
budget lasts, else to `FAILED`. A reviewer's `Submit` reads the document and its
open task, and then stores corrections, resolves the task and marks the document
`REVIEWED`. Before any of that, every process runs `Migrate`.

What is hard, and what makes each part correct:

* **Claiming**: two workers must never have one document at once. The query reads
  `agent_runs` from a snapshot and takes its lock later (`OneRunningRun`).
* **Retry**: `fail` is three statements, and no `UPDATE` of a status looks at the
  status it replaces. The budget must be exact (`AtMostRetriesPlusOne`,
  `AttemptsBoundedUnlessEarlyFailure`), a run over the iteration cap must be the
  last one (`NeverRetriedAfterCap`), a settled document must stay settled
  (`SettledStandsUnlessEarlyFailure`), every document must settle
  (`EventuallySettled`).
* **Gates**: nothing is processed without a human that a gate should have stopped
  (`ExactDuplicateNotAutoProcessed`, `NearDuplicateNotAutoProcessed`), and documents
  are not each other's original (`DuplicateOfEarlier`).
* **Review**: a document in review can be reviewed, but for one at most per failing
  statement (`StrandedReviewsBounded`); one failing statement alone does not lose a
  document on its way there (`RoutedIsNotLost`); what is in the queue can be
  reviewed (`OpenTaskIsReviewable`, `AtMostOneOpenTaskUnlessEarlyFailure`). A task
  that says a reviewer corrected the document says so of fields that reviewer has
  stored and no extraction shadows (`CorrectionStands`). A correction should change
  the fields that were edited. It does where the page showed the document in
  review and nobody corrected it before (`CorrectionTouchesEdited`); a page opened
  earlier puts back what it showed (`CorrectionIsFieldLevel`, which the code
  violates). What a page shows of a settled document is what is stored
  (`PageOfSettledStays`).
* **Fields**: what is processed without a human is complete, well-formed and
  confident (`AutoProcessedIsWellFormed`, `AutoProcessedIsConfident`), is compared by
  the fields it shows (`KeyMatchesShownFields`), and has those of its type
  (`FirstAttemptShowsItsType`); for readers, the rows of all attempts and
  corrections make up one view (`ImplementsFieldView`).
* **Tools**: a provider that never answers does not stop the worker
  (`EveryPollReturns`), and the trace of a run agrees with the run
  (`TraceFollowsPipeline`, `TraceAgreesWithTables`).
* **Upload**: a row has its file, whatever fails (`DocumentHasItsFile`), the same
  bytes are processed once whatever the order in which rows commit
  (`SameBytesProcessedOnce`), and the page that uploads goes on
  (`PageMovesForward`, `UploadButtonComesBack`).
* **Audit**: the log is complete when nobody is at work (`AuditTrailComplete`).
* **Start-up and users**: concurrent starts and starts that stop half way
  (`StartsDoNotCollide`, `AppliedInOrder`, `ServesWithCompleteSchema`,
  `EveryStartEnds`); tokens that keep working and an admin who can log in
  (`IssuedTokensWork`, `ListeningHasItsAdmin`).

## 2. The modules

```
Database  <-- AgentRunner --\                   /-- ToolExecutions <-- MCToolExecutions
    ^                        DocumentSystem <--+-- MCDocumentSystem
    \------ ReviewDesk -----/    |             \-- ExtractedFields <-- MCExtractedFields
                                 |                    |        \
             DocumentLifecycle <-/ (refinement)       |         FieldExtraction
                                         FieldView <--/ (refinement)

Uploads <-- UploadPage <-- MCUploadPage         Migrations <-- Access <-- MCAccess

Proofs: DocumentSystem_proofs <-- Claim_proofs <-- Pipeline_proofs <--+-- Outcome_proofs
                                                                      +-- ToolExecutions_proofs
                                                                      \-- ExtractedFields_proofs
        UploadPage_proofs, Access_proofs
```

* **Database** holds the tables. A table is the sequence of its rows and a row's
  id its index. Each repository method that writes is an operator on the tables,
  with the same name; the queries that decide something are operators that return
  a set of ids (`FindByContentHash`, `GetPendingByDocument`, `CountFailed`...).
  `Attempt(statement, onSuccess, onError)` is how a caller executes a statement:
  it takes effect, or fails and changes nothing.
* **AgentRunner** is the worker. Its program counter names the next access to the
  database, and one action is the code from one access to the next. The claim is
  three actions, as PostgreSQL executes it under READ COMMITTED: `ClaimSnapshot`
  (what the statement sees), `ClaimLock` (`FOR UPDATE SKIP LOCKED`, which checks
  `status` of the locked row again but not the subquery) and `ClaimOpenRun` (the
  insert and the commit). `Crash` stops a worker anywhere in a run.
* **ReviewDesk** is `ReviewHandler.Submit`, one action per access.
* **DocumentSystem** composes them with `Upload`, states the fairness and the
  properties.
* **DocumentLifecycle** is the abstract specification: which status may follow
  which, and when a retry is allowed. `DocumentSystem` with one worker implements
  it under the mapping `Lifecycle`: a document's status, and its number of
  failed runs.
* **ToolExecutions** extends DocumentSystem with the calls of the providers, which
  may never return, the deadline around each, and the row that `Record` inserts
  after a tool. Each of its worker's actions is one of AgentRunner and what it does
  here: `OCRTool` is `RunOCR` once the call has returned, with its outcome. The
  record of a tool is a step of its own, since other processes may act in between.
* **FieldExtraction** holds the pure functions: the stub's keywords, labelled lines
  and conversions, what the Claude provider makes of a tool call, `Validate`,
  `keyFieldsHash` and the confidence average. Where Go stops at the first hit of an
  iteration over a map, and where floats are added in the order of a map, the
  function returns the set of possible results.
* **ExtractedFields** extends DocumentSystem with the fields themselves: the rows of
  each batch, what `ListByDocument` returns of them (`Shown`), the locals of a run,
  and the review page from its two reads (the row, then the fields) to its request.
  The type found, the key, the outcomes of validation and of the confidence gate,
  which DocumentSystem leaves open, are computed.
* **FieldView** is the abstract specification of `extracted_fields` for a reader: a
  value per field name, to which the agent adds until a human corrects the document
  and which a correction changes name by name.
* **Uploads** is POST /documents in its steps (body, form, type and size, file
  created, file copied, INSERT begun, INSERT committed), each of which may fail, and
  as much of the workers as touches an upload: claim, file opened, content hash
  compared. An INSERT begins and commits at different times and `created_at` is the
  first of them, so rows may become visible in the other order. It stands beside
  Database, which numbers rows in the order of `created_at`.
* **UploadPage** puts the page of `web/app/page.tsx` on top, whose reads may be
  answered in any order or fail.
* **Access** extends Migrations with what an API process does next: the dev user's
  token, then requests, by token and role, that add users.
* **Migrations** is `Migrate` executed by several processes. A migration is its
  position in the list of files; `schema` is the sequence of those committed. An
  open transaction's statements change nothing until `CommitMigration`.

Operators called "Mutant of ..." change one definition the way a plausible bug
would (a dropped clause, an off-by-one, a forgotten statement). No specification
uses them. Put in the place of the definition they are named after, they make TLC
report the property they are there for, which shows that it can fail.

### Abstractions and assumptions

* One tenant. The document type is part of a document's key: two types never share
  a `key_fields_hash`, because the hash covers the field names, so that the type in
  the WHERE clause of `FindByKeyFieldsHash` decides nothing more.
* In DocumentSystem rows become visible in the order of `created_at`, and a statement
  that returns an error changed nothing, the COMMIT of a claim included. Uploads and
  Access drop both: an INSERT takes time there, and may commit though its handler
  gets an error.
* No batch of fields is empty: every type of the seed data has fields, and `Submit`
  refuses a correction without any. (`InsertBatch` would write nothing.) A batch has
  one author, the agent or the reviewer whose request it is.
* The fields of the review page do not change while its request is open, though its
  inputs are not disabled then: what is typed after the click is not sent.
* In Uploads a claim is one step and no two workers have one document: what claims
  that overlap do is the subject of DocumentSystem. A request whose client goes ends
  where it is; the code may go on to the INSERT, which is the request whose client
  goes later.
* Setting the dev user's token, opening the file store and listening are one step of
  Access: between them the process serves nobody.
* In DocumentSystem what a provider answers is a nondeterministic choice, different
  at every attempt if it likes, and so is whether validation and the confidence
  score let the document pass, except that an incomplete set of fields never passes
  validation. ExtractedFields replaces each of these choices by the computation.
* A value is its JSON type and the text it prints as; whether a text is a number, is
  negative, NaN, or has the form of a date is a constant set. Confidences are
  percentages. Both providers' texts and answers are given per content.
* A token and its hash are one value, and generated tokens are never equal.
* What a migration's statements do is abstracted to its position in the list, but
  for the dev user that the second one inserts.
* A run's read of the documents table for its own document stands for the values
  `process` loaded at the start (the content hash never changes).
* `Get` of Uploads' page reads a row and ignores the fields; `Get` of the review page
  reads both, one after the other.

### Fairness

`Fairness` is weak fairness of each worker's step: the loop of `cmd/worker` polls
for as long as its process runs and `PollOnce` blocks on nothing but statements
and calls that return. There is no fairness for uploads, reviewers or crashes.
`ToolFairSpec` does without "calls that return": it is weak fairness of the worker
and of the deadline (time passes), and none for the providers.
`AccessFairSpec` is weak fairness of each process's step of `Migrate`, and none
for starting a process: docker-compose restarts nothing. `PageFairSpec` is weak
fairness of the API's handler (net/http goes on with a request it has accepted),
and of the browser with an answer it has got; users click when they like.

## 3. What TLC checks

Every configuration says `CHECK_DEADLOCK FALSE`, because the system really stops
when nothing is left to upload, to process or to decide. `NoKey`, `Agent`, `k`,
`c1`... are model values. Symmetry is used only where no liveness is checked.

| Run | Instance | Shows |
| --- | --- | --- |
| `tools` | 1 worker, 1 reviewer, 1 document, 1 failing statement, 2 lost records, 1 crash, no retry, timeout on; about 328 000 states | `ToolTypeOK`, and with it `TypeOK`; every poll returns though providers need not; the trace of a run follows the pipeline and agrees with the tables |
| `two_workers` | 2 workers, 1 reviewer, 1 document, 1 retry, claims do not overlap; about 676 000 states | `OneRunningRun`; the retry budget, one open task and settled statuses, except where a run failed early; every document settles for good, though workers interfere |
| `review` | 1 worker, 2 reviewers at once, 1 document, 1 failing statement, 1 crash, 1 retry, iteration cap 6; about 443 000 states | without a failing statement a document in review always has its open task, also after a crash or a decision taken twice; one failing statement does not lose a routed document; the task that says CORRECTED has its correction; a run over the cap is the last, also where `fail` fails |
| `single` | 1 worker, 1 reviewer, 2 documents, 1 retry, audit rows kept; about 1 236 000 states | the budget is exactly `MAX_RETRIES + 1`, near-duplicates are caught, queue entries are reviewable, the audit log is complete, and every document settles for good |
| `duplicates` | 2 workers whose claims may overlap, 2 documents, 2 contents, 2 keys, no retry; about 3 060 000 states | the same bytes are never processed twice, and a duplicate points to an earlier document, unless it has had two runs |
| `fields` | 1 worker, 1 reviewer, 1 document of either of 2 contents, either provider, the three seeded document types, 1 failing statement, 1 crash, 1 retry, 1 edit per page; about 573 000 states | what is auto-processed is well-formed, confident and compared by what it shows; pages and corrections as above; the tables implement `DocumentLifecycle`, the rows `FieldView` |
| `uploads` | 2 clients, 1 worker, 2 documents, 5 files (two forms of one that is accepted, a wrong type, one over the file limit, one over the body limit), 2 reads in flight, faults; about 228 000 states | a row has its whole file; the same bytes are processed once, unless their INSERTs overlapped; the page moves forward and its button comes back |
| `startup` | 2 API processes with different tokens, 1 worker, the 4 migrations of the repository, 2 stops, 2 callers, 2 generated tokens; about 137 000 states | migrations are applied once, in order; no start collides, and none waits for ever; issued tokens keep working; an admin can log in |

*Early failure.* `EarlyFailure(d)` says that a run of `d` failed in its first two
steps or when it stored the classification. Until then the document is still
`UPLOADED`, so the moment `fail` finishes the run another worker may claim the
document, while `fail` goes on to count, requeue or give it up. The properties
named `...UnlessEarlyFailure` say that, as long as claims do not overlap, this is the
only way in which two workers disturb each other. Without the exception each fails.

*Run twice.* Two runs of one document, from claims that overlapped, may store two
different keys for it. What the first then finds for its own is not the document
itself but a later one with that key. `DuplicateOfEarlier` excepts a document with more
than one run, and `duplicates` reaches the exception. Where claims do not overlap there
is none (`NoMutualDuplicates`, section 4).

*Why the bounds are enough.* Every interference found needs two actors at one
document, and no property speaks of more than two documents. One retry makes the
budget two attempts, the least at which "one too many" and "one too few" differ
from "never" (0) and from each other. One failing statement with one crash covers a
failure and a second one in the handling of the first; two failing statements, that
of a task and that of the status, are what `RoutedIsNotLost` excludes. Iteration cap 6 stops a run
at its last check; a cap of 10 never does, since a run has seven. Two contents and
one key are what equal, near-equal (same key) and unrelated (no key) documents take;
two keys are what it takes for two runs of one document to store different ones.
A third worker or reviewer repeats what the second does.
`tools` has one attempt and two lost records: a trace is that of one run, whose
worker starts each run with nothing left from the one before; two gaps are what it
takes for the records around a gap to be out of line. With two workers,
`TraceAgreesWithTables` fails after an early failure (above), as does `SettledStands`
for the document itself.

In `fields`, one text has three labels that match one field, whose values are NaN,
negative and good, and a label that occurs twice; Claude's answers have a
confidence above 1, a field too many, fields that are missing, and reach a threshold
exactly. So each branch of the functions decides something, and a retry may find
another type. In `uploads`, sizes are those next to the two limits; two clients with
equal bytes suffice for the overlap, which the run does reach: without the exception
`SameBytesProcessedOnce` fails. In `startup`, two API processes are what it takes for
one to rotate the token under the other.

### Where the code does not do what its documentation says

Each of these runs checks one property, taken from a sentence of the repository,
and TLC prints a run of the code that violates it.

| Run | Sentence | What happens |
| --- | --- | --- |
| `overlapping_claims` | `claim.go:17`, `README.md:302`: workers never process the same document twice | A takes its snapshot, B takes its snapshot, A locks, inserts and commits, B locks the row, which is free and still `UPLOADED`, and inserts: two `RUNNING` runs |
| `crash_strands` | `system-architecture.md:55`: never silently dropped | a worker stops mid-run; its run stays `RUNNING` and keeps the document from every worker |
| `near_duplicates` | `SRS.md:234`: near-duplicates are flagged | the later document looks for matches before the earlier one has stored its hash, and the earlier one finds itself the earliest: both are processed |
| `stale_page` | `SRS.md:247-248`: field-level corrections | attempt 1 finds a receipt and stores its fields; a reviewer opens the page; a statement fails, attempt 2 finds an invoice and is routed to review; the page, still open, sends every field it showed, and the amount of attempt 1 replaces that of attempt 2 though nobody edited it |

More of the same kind, which no run of their own shows:

* `PendingReviewHasOpenTask` fails in `review`, which is why the run asks for
  `StrandedReviewsBounded`: when the INSERT of the task fails `routeToReview` logs it
  and marks the document `PENDING_REVIEW` all the same (`runner.go:370`), and `Submit`
  answers 409 for it. The same is left of a request that is cut off between resolving
  the task and marking the document (`review_handler.go:107`).
* The other way round: if a document of unknown type gets its task but not its
  status (`runner.go:373`), it is `UPLOADED` with a `COMPLETED` run and is claimed again.
  A provider that now knows the type may let it pass, so that it is `AUTO_PROCESSED`
  with a task open (`AutoProcessedUnreviewed` fails with one failing statement).
* In `two_workers`, `SettledStands`, `AtMostRetriesPlusOne`, and one open task per
  document, fail through an early failure: A's run fails and is finished, B claims
  the document and settles it, and A's `fail` requeues it or marks it `FAILED`. But
  `documents.go:191` calls `REVIEWED` terminal, `agent-architecture.md:90` promises 3
  attempts in all, and `review_tasks.go:52` at most one open task.
* With two reviewers both may pass the status check, and the second overwrites the
  decision of a document that is already `REVIEWED`, which `api.md:215` would answer
  409. Where both correct it, the decision of record may be A's and the fields B's
  (A stores, B stores, B resolves, A resolves), which is why `CorrectionStands` speaks
  of the reviewer of record and lets another's correction follow. And B's page,
  which showed the fields before A's correction, puts A's edits back:
  `CorrectionIsFieldLevel` fails with two reviewers and no failing statement, too.
* A reviewer can decide, and be audited, between `MarkPendingReview` and the audit
  row of the routing, so that `audit_logs` does not show "in what order"
  (`OPERATIONS.md:38`) things were done.
* `api.md:214` answers 404 when there is no open task; `review_handler.go:77`
  answers 409.
* `SRS.md:87` answers 413 to a file over the limit. One whose body is over the limit
  plus 1 MiB is answered 400 `INVALID_UPLOAD`, by the parser of the form
  (`documents_handler.go:37-42`); only between the two is it 413.
* "Exact re-uploads are always flagged" (`SRS.md:233`) holds except for two uploads
  whose INSERTs overlap: the exception in `SameBytesProcessedOnce`.
* After a retry that finds another type, `GET /documents/{id}` shows the fields of
  both types: the most recent row per name (`agent-architecture.md:91`) is not the
  most recent attempt. `FirstAttemptShowsItsType` is stated for documents without a
  failed attempt, and `AutoProcessedIsWellFormed` only asks for the fields of the type.
* `key_fields_hash` goes stale if one statement fails an attempt that has stored it
  and a second one the store of the next attempt's (`runner.go:213` ignores its
  error), and it is not updated by a correction.
* At the threshold, the order in which the confidences are added may decide; SRS
  calls the aggregate deterministic.
* `api.md:193` shows a number among the corrected fields; the review page sends
  strings, so that a corrected amount is stored as a string.

## 4. What is proved

The proofs are checked by TLAPS and hold for every value of the constants that
satisfies the hypotheses of the theorem. They rest on the named assumptions about the
constants (`DatabaseAssumption`, `AgentRunnerAssumption`, `MigrationsAssumption`,
`UploadsAssumption`...), which say that the bounds are natural numbers and that
`NoKey`, `Agent`, `NoFile`, `NoToken` are none of the values they stand beside.

### Hypotheses

Some theorems are about every instance, others need one of these, because without it
the property is false, as section 3 shows:

| Hypothesis | Meaning | Without it |
| --- | --- | --- |
| `ClaimsApart` | claim transactions are serialized (`ClaimsSerialized`), or there is one worker | `overlapping_claims`: two runs of one document |
| `Solo` | one worker (docker-compose starts one) | after an early failure `fail` of one worker writes over what the other did |
| `MaxDatabaseErrors = 0` | no statement fails | the error of a statement is logged and its effect missing: a document in review without a task, a run that stays `RUNNING`, a failed attempt that is not counted, an outcome without its audit row |
| `MaxCrashes = 0` | no worker stops mid-run | the run that stopped is an attempt the budget does not count, or has opened its task and not marked its document, or has not written its audit row |
| `OneReviewer` | requests of reviewers do not overlap | one stores its corrections after the other has closed the document; two requests decide one task, and the log has both decisions |
| `TrailActions \subseteq Audited` | the instance keeps the audit rows the property counts (`Audited` is a bound of the model, the code writes them all) | the rows are not there to count |
| `SafeCap` | `MAX_AGENT_ITERATIONS` is at least 2, or nothing fails and no worker stops | a run over the cap has not classified its document, which then stays claimable if giving it up fails |

Wherever a theorem does not name one of them it holds with any number of workers,
reviewers, documents, failing statements and crashes.

### The argument

* **DocumentSystem_proofs** - **TypeCorrect**, `Spec => []TypeOK`, and
  **ExactDuplicateHolds**, `Spec => []ExactDuplicateNotAutoProcessed`, with no
  hypothesis: claims may overlap.
  `ExactDuplicateNotAutoProcessed` is not inductive: nothing in it says why the
  worker at `finalize` has the first document of its content. `Inv` adds `FirstInv`
  (past the exact check a worker's document is the first with its content, and so
  is whatever is `AUTO_PROCESSED`) and `ReasonInv` (a worker about to open a task
  has a reason). `FirstInv` survives later uploads because they are appended, and
  every other statement because none changes a document's content (`TablesGrow`).
  The proof first shows of each repository method what it does to the tables
  (`Harmless`), then of each action how it moves its worker, and combines the two.
* **Claim_proofs** - **OneRunningRunHolds** (`ClaimsApart`). `ClaimInv` adds that one
  worker at a time is between its snapshot and its commit and that what it saw
  unclaimed still is. Of `ClaimsApart` the code provides the second case only: the row
  lock does not serialize claims, as `overlapping_claims` shows.
* **Pipeline_proofs** - every step of a run is summarised once (`RunEffect`: where the
  worker goes, and which row changes how), and so is every step of a request
  (`ReviewEffect`); all later proofs split on these and not on the actions. On top
  of them `PipelineInv` is `Inv`, `ClaimInv`, `RunInv` (a run belongs to one worker,
  and how many iterations it has had at each step) and `StageInv` (the status a
  document has while its run is at each step; one worker owns a document; a document
  under review is in review). `StageInv` excepts documents that a run `Disturbed`: it
  failed before the classification was stored, and there is a second worker.
  From it **SettledStandsUnlessEarlyFailureHolds** (`ClaimsApart`) and
  **SettledStandsHolds** (`Solo`): an `UPDATE` that does not look at the status it
  replaces still replaces the one it means to.
  **SystemImplementsLifecycle** (`Solo`) is the refinement of `DocumentLifecycle`:
  `LifecycleInv` adds that a worker that is about to requeue has counted a retry that
  is left. **DuplicateOfEarlierHolds** (no failing statement, any workers, claims may
  overlap) and **NoMutualDuplicates** (`ClaimsApart`, no failing statement; without
  the exception for documents run twice): what a document is compared with includes
  itself, since its own key was stored before and only another run of it could have
  stored another. `Exempt` says which documents may have had that other run.
* **Outcome_proofs** - what becomes of a document.
  **AttemptsBoundedHolds** (`ClaimsApart`, no failing statement; crashes included) and
  **AtMostRetriesPlusOneHolds** (`Solo`, no failing statement, no crash): `AttemptsInv`
  adds that a document that can be claimed has a retry left, which needs `ClosingInv`:
  a run is closed as completed only once its document has left the pipeline.
  **OneOpenTaskHolds** (`ClaimsApart`), **PendingReviewHasOpenTaskHolds**,
  **AutoProcessedUnreviewedHolds** (`Solo`) and **OpenTaskIsReviewableHolds** (`Solo`, no
  crash), all without failing statements: `TasksInv` says that a document has at most
  one task in its life, none before its run opens it, an open one until a reviewer
  decides. **CorrectionStandsHolds** (`Solo`, any failures): `CorrectionInv` adds that a
  correction is stored by the request that resolves the task, before the task says so,
  and that no run has the document from then on.
  **StrandedReviewsBoundedHolds** and **RoutedIsNotLostHolds** (`Solo`, any failures,
  crashes and reviewers): `StrandedInv` counts as stranded also the document of a run
  that is about to put it in review and whose task was not inserted; a step strands one
  document at most, and only when a statement of it failed (`Costs`). `RoutedInv`, for
  one failing statement, says that a document is settled or in the queue (`Kept`) once
  its run is completed, and at `mark_pending` unless the statement that failed is behind.
  **NeverRetriedAfterCapHolds** (`Solo`, `SafeCap`): `CapInv` says where a run over the
  cap may be. **NearDuplicateHolds** (`Solo`, no failing statement): `FifoInv` says that
  the worker takes documents in the order of their upload, retries included, so that
  whatever is later than a document it has not been done with is untouched.
  **AuditTrailCompleteHolds** (`Solo`, `OneReviewer`, no failing statement, no crash):
  the row of an action is written a statement or more after what it records, so the
  equations hold only between runs and requests. `AllTrailsInv` counts for each step
  of a run or a request the rows still owed there (`Owed`, `OwedDecision`): recorded and
  owed together equal what became of the document. It adds that a run past load has
  its document and that a task about to be decided is still open, so that no decision
  is recorded twice. `single` checks it too.
* **ToolExecutions_proofs** - **ToolsImplementSystem**: the module only adds to
  DocumentSystem or restricts it, so what is proved of DocumentSystem holds of it.
  **ToolTypeCorrect** (`ToolInv` adds that a call in progress has passed its iteration
  check, so that the cap cannot end the run under it). **TraceFollowsPipelineHolds**,
  for any number of workers: `TraceInv` says which records a run has when its worker is
  at each step (`Traced`). **TraceAgreesWithTablesHolds** (`Solo`): `AgreeInv` adds that
  a worker in `fail` has not completed its run, and that what it is about to record
  of `finalize_document` is what it did.
* **ExtractedFields_proofs** - **FieldsImplementSystem**, and with it
  **FieldsExactDuplicate**. The rest is for one worker (`Solo`), any number of reviewers
  and whatever fails. `FieldsBase` is `PipelineInv` and that the values of fields go
  with the rows of DocumentSystem (`FieldsOK`). The proof reduces a step to what it does
  to the view of one document (`Overlay`, `ViewKept`).
  **FieldsImplementView** is the refinement of `FieldView`: `ViewInv` adds that a
  document in the hands of a run has no corrections.
  **AutoProcessedIsWellFormedHolds**: `ReadInv` says that what a run holds in its local
  variables is what readers get once it is stored, and has no violation once it was
  validated. **AutoProcessedIsConfidentHolds**: `ConfidentInv` adds that a run at
  `finalize` has been let through by the gate on just these values.
  **KeyMatchesShownFieldsHolds**: `KeyInv` adds that a document has no key when a run
  starts, unless a statement failed. **FirstAttemptShowsItsTypeHolds**:
  `FirstAttemptInv` adds that a document that never had a failed run has no fields
  before its run stores them, also where a crash or a failing statement left the run
  open. **CorrectionTouchesEditedHolds**, **ProcessedPageStaysHolds** and, for one
  reviewer, **PageOfSettledStaysHolds**: `PagesInv`, `SentAll` and `ReviewedPagesInv` say
  of which moment a page's fields are, and that none of what a page shows has changed
  since, while its document is in review or settled.
* **UploadPage_proofs** - first Uploads: **UploadsTypeCorrect**,
  **DocumentHasItsFileHolds**, **AcknowledgedIsStoredHolds** (an upload answered 201 has
  its row) and **SameBytesProcessedOnceHolds**, for any number of clients, workers and
  faults.
  `UploadsInv` adds what a request knows at each step of its handler (`RequestInv`),
  and, for the last theorem, what the check for an exact duplicate has established of
  a row it let pass. `Passed(r)` holds when row `r` is AUTO_PROCESSED or a worker is
  about to make it so; then `EarlierUnseen(r)` holds: a row with the same bytes and an
  earlier `created_at` committed after `r` did, so that its INSERT was still open when
  `r` became visible.
  Then UploadPage: **PageMovesForwardHolds** and **PageSameBytes**. `PageInv` is
  `UploadsInv` and, per client, that what is in flight was uploaded before what is
  being uploaded. UploadPage is not an implementation of Uploads in the formal sense,
  because a read that fails counts against the same bound on faults; so the proof
  shows its steps to preserve `UploadsInv`.
* **Access_proofs** - first Migrations: **MigrationsTypeCorrect**,
  **StartsDoNotCollideHolds**, **AppliedInOrderHolds** and
  **ServesWithCompleteSchemaHolds**, for any number of processes, migrations and stops.
  `MigrationsInv` adds that at most one session holds the lock, that a process inside
  the loop holds it, and that the version it is at is the next one of the schema.
  Then Access: **AccessImplementsMigrations**, and by it **AccessServesComplete**;
  **IssuedTokensWorkHolds**, **ListeningHasItsAdminHolds** and **AccessTypeCorrect** (no
  two users share a token or an email). `AccessInv` adds that the dev user is the first
  row of `users` as soon as a process serves, and that no user whose token was issued
  is the dev user; `UsersInv` that tokens about to be inserted are new.

### Only model-checked

* Liveness (`EventuallySettled`, `EveryPollReturns`, `EveryStartEnds`,
  `UploadButtonComesBack`): it needs fairness and `ENABLED`, which the proof system
  does not handle.
* The four runs with an expected violation, which refute their property.
* What the recursive parts of the Go code compute (parsing a text into lines, a form,
  a JSON body) is given by constants and nothing is proved about it; what the folds of
  FieldExtraction compute (the sum of confidences) is used in the proofs only as the
  same value of the same arguments.

## 5. What is not modelled

* The HTTP clients and prompts of the providers, the parsing of a multipart form and
  of JSON, hashing, configuration, logging, layout: pure I/O or conversions whose
  results are constants here.
* The read-only handlers `ListAgentRuns`, `ListAuditLog`, `Queue` and the queue page:
  they return the rows the properties are about and change nothing.
* Tenants: every query is restricted to the one tenant of the seed data.
* Test support (`internal/testutil`, `e2e`), which is not part of the running system.
* `web`'s one token: the browser sends `NEXT_PUBLIC_API_TOKEN` for every user, so all
  reviewers of a deployment with the pages are one row of `users`.

## 6. Order of the work

Modelled, in the order of importance: Database, AgentRunner, ReviewDesk,
DocumentSystem, DocumentLifecycle; Migrations; ToolExecutions; FieldExtraction,
FieldView and ExtractedFields; Uploads and UploadPage; Access.

Proofs: every invariant and every action property that a passing run checks is
stated by a theorem, under the hypotheses of section 4. What is left is to weaken `Solo`
to `ClaimsApart` in the theorems about fields and reviews, with the exception of early
failures stated in the property; the liveness properties stay with TLC.
