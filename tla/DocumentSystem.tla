--------------------------- MODULE DocumentSystem ---------------------------
(***************************************************************************)
(* The running system: clients upload documents, workers process them and  *)
(* reviewers decide those a worker routed to review, all through the one   *)
(* database.                                                               *)
(***************************************************************************)
EXTENDS AgentRunner, ReviewDesk

vars == <<tables, databaseErrors, workerVars, review>>

\* DocumentHandler.Upload, as far as the tables see it.
Upload ==
    /\ Len(documents) < MaxDocuments
    /\ \E content \in Contents : CreateDocument(content)
    /\ UNCHANGED databaseErrors

Init == DatabaseInit /\ WorkerInit /\ ReviewInit

Next ==
    \/ Upload /\ UNCHANGED <<workerVars, review>>
    \/ WorkerNext /\ UNCHANGED review
    \/ ReviewNext /\ UNCHANGED workerVars

Spec == Init /\ [][Next]_vars

\* The worker's loop polls for as long as its process runs; nothing makes a
\* client upload or a reviewer decide.
Fairness == \A w \in Workers : WF_vars(WorkerStep(w) /\ UNCHANGED review)

FairSpec == Spec /\ Fairness

---------------------------------------------------------------------------
(* Type invariant *)

\* Every row refers to a document that exists.
RowsRefer ==
    /\ \A r \in DOMAIN agentRuns : agentRuns[r].document \in DOMAIN documents
    /\ \A t \in DOMAIN reviewTasks : reviewTasks[t].document \in DOMAIN documents

\* Every variable has its type, and the ids rows and processes hold are those
\* of rows that exist.
TypeOK ==
    /\ DatabaseTypeOK /\ WorkerTypeOK /\ ReviewTypeOK
    /\ RowsRefer /\ WorkerRowsExist /\ ReviewRowsExist

---------------------------------------------------------------------------
(* Claims *)

\* A document never has two RUNNING agent runs: the claim's NOT EXISTS
\* clause and the row lock keep every other worker away (claim.go:15-18).
OneRunningRun ==
    \A d \in DOMAIN documents :
        \A r, s \in RunsWith(d, "RUNNING") : r = s

RunsOf(d) == {r \in DOMAIN agentRuns : agentRuns[r].document = d}

\* MAX_RETRIES = n means n + 1 attempts in all (agent-architecture.md:90).
AtMostRetriesPlusOne ==
    \A d \in DOMAIN documents : Cardinality(RunsOf(d)) <= MaxRetries + 1

\* A run that ran into the iteration cap is the last run of its document
\* (runner.go:54-61: max_iterations_exceeded is never retried).
NeverRetriedAfterCap ==
    \A r, s \in DOMAIN agentRuns :
        /\ agentRuns[r].document = agentRuns[s].document
        /\ agentRuns[r].iterations > MaxIterations
        => s <= r

---------------------------------------------------------------------------
(* The document's status *)

Settled == {"AUTO_PROCESSED", "PENDING_REVIEW", "REVIEWED", "FAILED"}

\* A run failed before its classification was stored: the document was
\* still UPLOADED when the run was finished, so that another worker could
\* claim it before fail() was done with it.
EarlyFailure(d) ==
    \E r \in RunsWith(d, "FAILED") : agentRuns[r].iterations < 3

SettledFor(d) ==
    documents[d].status \in Settled =>
        \/ documents'[d].status = documents[d].status
        \/ documents[d].status = "PENDING_REVIEW" /\ documents'[d].status = "REVIEWED"

\* The retry budget holds for several workers and across crashes too, where
\* no run of the document failed early (runner.go:398-405).
AttemptsBoundedUnlessEarlyFailure ==
    \A d \in DOMAIN documents :
        EarlyFailure(d) \/ Cardinality(RunsOf(d)) <= MaxRetries + 1

\* What the pipeline or a reviewer settled stays settled: no UPDATE of
\* documents.go checks the status it overwrites (documents.go:91-236).
SettledStands == [][\A d \in DOMAIN documents : SettledFor(d)]_vars

\* The same for several workers: a settled status is overwritten only where
\* a run of the document failed early, whose fail() is still writing.
SettledStandsUnlessEarlyFailure ==
    [][\A d \in DOMAIN documents : EarlyFailure(d) \/ SettledFor(d)]_vars

DocumentIds == 1..MaxDocuments

Lifecycle == INSTANCE DocumentLifecycle WITH
    status <- [d \in DocumentIds |->
                  IF d \in DOMAIN documents THEN documents[d].status ELSE "ABSENT"],
    failures <- [d \in DocumentIds |-> CountFailed(d)]

\* With one worker the tables implement the lifecycle, whatever statements
\* fail and wherever the worker stops.
ImplementsLifecycle == Lifecycle!Spec

\* Every uploaded document is in the end, and for good, processed, in
\* review or given up (system-architecture.md:55: never silently dropped).
EventuallySettled ==
    \A d \in DocumentIds :
        <>[](d \in DOMAIN documents => documents[d].status \in Settled)

---------------------------------------------------------------------------
(* Review *)

MidSubmit(d) ==
    \E u \in Reviewers : review[u].document = d /\ Reviewing(u, "mark_reviewed")

\* In review, with no task to decide: not in the queue, and Submit answers
\* 409 for it.
Stranded(d) ==
    /\ documents[d].status = "PENDING_REVIEW"
    /\ PendingTasks(d) = {}
    /\ ~MidSubmit(d)

\* A document in PENDING_REVIEW has an open task, so that it is in the
\* queue and can be reviewed: routeToReview opens the task first and Submit
\* resolves it just before it marks the document (runner.go:365-376).
PendingReviewHasOpenTask == \A d \in DOMAIN documents : ~Stranded(d)

\* Where statements fail, each costs at most one document its review: that
\* whose task could not be opened (runner.go:366) or whose review was cut
\* off after its task was resolved (review_handler.go:107).  Neither a crash
\* nor a second reviewer costs one.
StrandedReviewsBounded ==
    Cardinality({d \in DOMAIN documents : Stranded(d)}) <= databaseErrors

\* One failing statement of routeToReview, whose errors are only logged,
\* does not lose a document: once the run is COMPLETED it shows as settled
\* or its task is in the queue (runner.go:366-376).  It takes two, that of
\* the task and that of the status, to have neither.
RoutedIsNotLost ==
    databaseErrors <= 1 =>
        \A d \in DOMAIN documents :
            RunsWith(d, "COMPLETED") # {} =>
                \/ documents[d].status \in {"AUTO_PROCESSED", "PENDING_REVIEW", "REVIEWED"}
                \/ PendingTasks(d) # {}

\* An open task is that of a document that is, or is about to be, in
\* PENDING_REVIEW: nothing in the review queue answers 409.
OpenTaskIsReviewable ==
    \A d \in DOMAIN documents :
        PendingTasks(d) # {} =>
            \/ documents[d].status = "PENDING_REVIEW"
            \/ \E w \in Workers : worker[w].document = d /\ At(w, "mark_pending")

\* There is at most one open task for a document (review_tasks.go:51-53),
\* with several workers too, where no run failed early.
AtMostOneOpenTaskUnlessEarlyFailure ==
    \A d \in DOMAIN documents :
        EarlyFailure(d) \/ \A t, u \in PendingTasks(d) : t = u

TasksOf(d) == {t \in DOMAIN reviewTasks : reviewTasks[t].document = d}

\* A correction by u is stored, and no extraction came after it that would
\* shadow it.
StoredBy(u, d) ==
    \E b \in BatchesOf(d) :
        /\ extractedFields[b].author = u
        /\ \A c \in BatchesOf(d) : c > b => extractedFields[c].author # Agent

\* A task that says its reviewer corrected the document says so of fields
\* that reviewer has stored, and nothing but another reviewer's correction
\* comes after them.  (Of two who decide at once one may be the reviewer of
\* record and the other the author of what readers get.)
CorrectionStands ==
    \A t \in DOMAIN reviewTasks :
        reviewTasks[t].status = "CORRECTED" =>
            StoredBy(reviewTasks[t].reviewedBy, reviewTasks[t].document)

---------------------------------------------------------------------------
(* Gates *)

\* A document is not both processed without a human and put before one:
\* finalize_document is reached only past every gate (runner.go:338-339).
AutoProcessedUnreviewed ==
    \A d \in DOMAIN documents :
        documents[d].status = "AUTO_PROCESSED" =>
            TasksOf(d) = {}

\* The same bytes are never processed twice without a human: of documents
\* with one content hash only the first uploaded may be AUTO_PROCESSED.
ExactDuplicateNotAutoProcessed ==
    \A d \in DOMAIN documents :
        documents[d].status = "AUTO_PROCESSED" =>
            d \in FindByContentHash(documents[d].content)

\* Near-duplicates are flagged for human review (SRS.md, Duplicate
\* Detection): no two documents with the same key fields pass unseen.
NearDuplicateNotAutoProcessed ==
    \A d, e \in DOMAIN documents :
        /\ documents[d].status = "AUTO_PROCESSED"
        /\ documents[e].status = "AUTO_PROCESSED"
        /\ documents[d].key = documents[e].key
        /\ documents[d].key # NoKey
        => d = e

RunTwice(d) == Cardinality(RunsOf(d)) > 1

\* A document is flagged as the duplicate of an earlier one, so that no two
\* documents are each the other's original (documents.go:158-160), however
\* workers and claims overlap.  A document that has more than one run is
\* excepted: between a run's SetKeyFieldsHash and its search the other may
\* have stored another key, so that the search no longer finds the document
\* itself first.
DuplicateOfEarlier ==
    \A d \in DOMAIN documents :
        documents[d].duplicateOf # 0 => documents[d].duplicateOf < d \/ RunTwice(d)

---------------------------------------------------------------------------
(* Audit *)

Audits(action, d) ==
    Cardinality({i \in DOMAIN auditLogs :
        auditLogs[i].action = action /\ auditLogs[i].document = d})

Quiet ==
    /\ \A w \in Workers : At(w, "poll")
    /\ \A u \in Reviewers : Reviewing(u, "idle")

\* When nobody is at work the audit log tells what became of a document,
\* once for each run and each decision (data-architecture.md:44).
AuditTrailComplete ==
    Quiet => \A d \in DOMAIN documents :
        /\ Audits("document.auto_processed", d)
              = IF documents[d].status = "AUTO_PROCESSED" THEN 1 ELSE 0
        /\ Audits("document.routed_to_review", d) = Cardinality(TasksOf(d))
        /\ Audits("agent_run.failed", d)
              = IF documents[d].status = "FAILED" THEN 1 ELSE 0
        /\ Audits("agent_run.retrying", d) + Audits("agent_run.failed", d) = CountFailed(d)
        /\ \A decision \in Decisions :
              Audits(AuditActionOf[decision], d)
                = Cardinality({t \in TasksOf(d) :
                                  reviewTasks[t].status = ReviewStatusOf[decision]})
=============================================================================
