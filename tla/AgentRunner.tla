----------------------------- MODULE AgentRunner -----------------------------
(***************************************************************************)
(* The worker: cmd/worker polls, internal/db/claim.go claims a document    *)
(* and internal/agent/runner.go takes it through the pipeline.  A worker   *)
(* is a process with a program counter; one action is the code between two *)
(* accesses to the database, so any statement of any other process can     *)
(* come between two actions.                                               *)
(*                                                                         *)
(* What an OCR or LLM provider answers, and what validation and the        *)
(* confidence score make of it, is a nondeterministic choice; the calls    *)
(* always return, because ToolTimeout (30 s by default) bounds them.       *)
(***************************************************************************)
EXTENDS Database

CONSTANTS
    Workers,           \* the worker processes
    MaxIterations,     \* MAX_AGENT_ITERATIONS
    MaxRetries,        \* MAX_RETRIES
    ClaimsSerialized,  \* TRUE: no two claim transactions overlap
    MaxCrashes         \* bound: how many times a worker stops mid-run

ASSUME AgentRunnerAssumption ==
    /\ MaxIterations \in Nat
    /\ MaxRetries \in Nat
    /\ ClaimsSerialized \in BOOLEAN
    /\ MaxCrashes \in Nat

VARIABLES
    worker,            \* the local variables of PollOnce and process
    crashes            \* how many times a worker stopped mid-run

workerVars == <<worker, crashes>>

ClaimPc == {"lock", "open_run"}

\* The pipeline's steps: each begins with an iteration check.
StepPc ==
    {"run_ocr", "classify", "extract", "validate", "find_exact",
     "calculate_confidence", "finalize"}

PersistPc ==
    {"mark_classified", "audit_classified", "insert_fields", "mark_extracted",
     "audit_extracted", "set_key", "mark_validated", "audit_validated",
     "find_near", "mark_duplicate"}

ClosePc ==
    {"finish_auto", "audit_auto",
     "create_task", "mark_pending", "finish_review", "audit_review",
     "fail_finish", "fail_count", "fail_requeue", "audit_retrying",
     "fail_mark", "audit_failed"}

\* From the claim's commit to the end of process.
RunPc == {"load"} \cup StepPc \cup PersistPc \cup ClosePc

WorkerState ==
    [pc : {"poll"} \cup ClaimPc \cup RunPc,
     snapshot : SUBSET Nat,         \* the rows the claim's SELECT will try
     document : Nat,                \* documentID
     run : Nat,                     \* agentRunID
     iterations : Nat,
     key : Keys \cup {NoKey},       \* keyFieldsHash(extraction.Fields)
     duplicateOf : Nat,             \* earliest.ID
     reason : ReviewReason \cup {"none"}]

Polling ==
    [pc |-> "poll", snapshot |-> {}, document |-> 0, run |-> 0,
     iterations |-> 0, key |-> NoKey, duplicateOf |-> 0, reason |-> "none"]

WorkerTypeOK ==
    /\ worker \in [Workers -> WorkerState]
    /\ crashes \in Nat

\* The rows a worker works on exist, and its run is one of its document.
WorkerRowsExist ==
    \A w \in Workers :
        /\ worker[w].snapshot \subseteq DOMAIN documents
        /\ worker[w].pc \in {"open_run"} \cup RunPc => worker[w].document \in DOMAIN documents
        /\ worker[w].pc \in RunPc =>
              /\ worker[w].run \in DOMAIN agentRuns
              /\ agentRuns[worker[w].run].document = worker[w].document

WorkerInit ==
    /\ worker = [w \in Workers |-> Polling]
    /\ crashes = 0

At(w, pc) == worker[w].pc = pc

Goto(w, pc) == worker' = [worker EXCEPT ![w] = [@ EXCEPT !.pc = pc]]

\* iterations++ at the head of the pipeline step at pc
Enter(w, pc) ==
    worker' = [worker EXCEPT ![w] =
                  [@ EXCEPT !.pc = pc, !.iterations = worker[w].iterations + 1]]

Return(w) == worker' = [worker EXCEPT ![w] = Polling]

Fail(w) == Goto(w, "fail_finish")

\* Mutant of RouteToReview: no review task is opened.
RouteWithoutTask(w, reason) ==
    worker' = [worker EXCEPT ![w] =
                  [@ EXCEPT !.pc = "mark_pending", !.reason = reason]]

RouteToReview(w, reason) ==
    worker' = [worker EXCEPT ![w] =
                  [@ EXCEPT !.pc = "create_task", !.reason = reason]]

\* iterations > r.MaxIterations: what sets max_iterations_exceeded apart
\* from every other failure
OverCap(w) == worker[w].iterations > MaxIterations

\* A pipeline step past its iteration check
Step(w, pc) == At(w, pc) /\ ~OverCap(w)

---------------------------------------------------------------------------
(* claim.go.  The transaction runs READ COMMITTED: the SELECT sees the     *)
(* database as it was when the statement began, then locks a row of what   *)
(* it saw, and the run it inserts is visible to others at the COMMIT.      *)

\* Mutant of Claimable: no NOT EXISTS clause.
ClaimableRunningOrNot == {d \in DOMAIN documents : documents[d].status = "UPLOADED"}

Claimable ==
    {d \in DOMAIN documents :
        documents[d].status = "UPLOADED" /\ RunsWith(d, "RUNNING") = {}}

OthersClaiming(w) == \E v \in Workers \ {w} : worker[v].pc \in ClaimPc

\* The SELECT's snapshot.  When it is empty PollOnce returns processed =
\* false and nothing changes.
ClaimSnapshot(w) ==
    /\ At(w, "poll")
    /\ ClaimsSerialized => ~OthersClaiming(w)
    /\ Claimable # {}
    /\ worker' = [worker EXCEPT ![w] =
                     [@ EXCEPT !.pc = "lock", !.snapshot = Claimable]]
    /\ NoStatement

LockedByOthers(w) ==
    {worker[v].document : v \in {u \in Workers \ {w} : At(u, "open_run")}}

\* FOR UPDATE OF d SKIP LOCKED: a row that changed since the snapshot is
\* checked again, for d.status alone; the subquery on agent_runs keeps what
\* the snapshot saw.
Lockable(w) ==
    {d \in worker[w].snapshot \ LockedByOthers(w) : documents[d].status = "UPLOADED"}

ClaimLock(w) ==
    /\ At(w, "lock")
    /\ \/ Lockable(w) = {} /\ Return(w)
       \/ \E d \in Earliest(Lockable(w)) :
             worker' = [worker EXCEPT ![w] =
                           [@ EXCEPT !.pc = "open_run", !.snapshot = {}, !.document = d]]
    /\ NoStatement

\* INSERT INTO agent_runs, COMMIT.  An error rolls the claim back.
ClaimOpenRun(w) ==
    /\ At(w, "open_run")
    /\ Attempt(InsertRun(worker[w].document),
               worker' = [worker EXCEPT ![w] =
                             [@ EXCEPT !.pc = "load", !.run = Len(agentRuns) + 1]],
               Return(w))

---------------------------------------------------------------------------
(* process: load the document, then the seven steps *)

LoadDocument(w) ==
    /\ At(w, "load")
    /\ Attempt(UNCHANGED tables, Enter(w, "run_ocr"), Fail(w))

IterationCapReached(w) ==
    /\ worker[w].pc \in StepPc
    /\ OverCap(w)
    /\ Fail(w)
    /\ NoStatement

RunOCR(w) ==
    /\ Step(w, "run_ocr")
    /\ Enter(w, "classify") \/ Fail(w)
    /\ NoStatement

ClassifyDocument(w) ==
    /\ Step(w, "classify")
    /\ \/ Goto(w, "mark_classified")
       \/ RouteToReview(w, "UNKNOWN_TYPE")
       \/ Fail(w)
    /\ NoStatement

PersistClassification(w) ==
    /\ At(w, "mark_classified")
    /\ Attempt(MarkClassified(worker[w].document), Goto(w, "audit_classified"), Fail(w))

AuditClassified(w) ==
    /\ At(w, "audit_classified")
    /\ Attempt(AuditRecord("document.classified", worker[w].document),
               Enter(w, "extract"), Enter(w, "extract"))

\* The schema cannot be read, or the provider fails, or it returns fields:
\* a complete set has a key, one with a missing value has none.
ExtractFields(w) ==
    /\ Step(w, "extract")
    /\ \/ \E key \in Keys \cup {NoKey} :
             worker' = [worker EXCEPT ![w] =
                           [@ EXCEPT !.pc = "insert_fields", !.key = key]]
       \/ Fail(w)
    /\ NoStatement

\* Or a value that json.Marshal refuses: no statement is executed then.
PersistFields(w) ==
    /\ At(w, "insert_fields")
    /\ \/ Attempt(InsertBatch(worker[w].document, Agent), Goto(w, "mark_extracted"), Fail(w))
       \/ Fail(w) /\ NoStatement

PersistExtracted(w) ==
    /\ At(w, "mark_extracted")
    /\ Attempt(MarkExtracted(worker[w].document), Goto(w, "audit_extracted"), Fail(w))

AfterExtraction(w) ==
    IF worker[w].key = NoKey THEN Enter(w, "validate") ELSE Goto(w, "set_key")

AuditExtracted(w) ==
    /\ At(w, "audit_extracted")
    /\ Attempt(AuditRecord("document.extracted", worker[w].document),
               AfterExtraction(w), AfterExtraction(w))

\* The error is ignored.
PersistKey(w) ==
    /\ At(w, "set_key")
    /\ Attempt(SetKeyFieldsHash(worker[w].document, worker[w].key),
               Enter(w, "validate"), Enter(w, "validate"))

\* Every field of the schema is required, so that only a complete set of
\* fields can pass.
ValidateExtraction(w) ==
    /\ Step(w, "validate")
    /\ \/ worker[w].key # NoKey /\ Goto(w, "mark_validated")
       \/ RouteToReview(w, "VALIDATION_FAILED")
    /\ NoStatement

PersistValidated(w) ==
    /\ At(w, "mark_validated")
    /\ Attempt(MarkValidated(worker[w].document), Goto(w, "audit_validated"), Fail(w))

AuditValidated(w) ==
    /\ At(w, "audit_validated")
    /\ Attempt(AuditRecord("document.validated", worker[w].document),
               Enter(w, "find_exact"), Enter(w, "find_exact"))

\* A match other than the document itself, when there is one
ExactMatch(w) ==
    FindByContentHash(documents[worker[w].document].content) \ {worker[w].document}

NearMatch(w) == FindByKeyFieldsHash(worker[w].key) \ {worker[w].document}

FoundDuplicate(w, matches) ==
    \E d \in matches :
        worker' = [worker EXCEPT ![w] =
                      [@ EXCEPT !.pc = "mark_duplicate", !.duplicateOf = d]]

CheckExactDuplicate(w) ==
    /\ Step(w, "find_exact")
    /\ Attempt(UNCHANGED tables,
               IF ExactMatch(w) # {} THEN FoundDuplicate(w, ExactMatch(w))
               ELSE IF worker[w].key # NoKey THEN Goto(w, "find_near")
               ELSE Enter(w, "calculate_confidence"),
               Fail(w))

CheckNearDuplicate(w) ==
    /\ At(w, "find_near")
    /\ Attempt(UNCHANGED tables,
               IF NearMatch(w) # {} THEN FoundDuplicate(w, NearMatch(w))
               ELSE Enter(w, "calculate_confidence"),
               Fail(w))

\* The error is logged and the document routed to review all the same.
PersistDuplicate(w) ==
    /\ At(w, "mark_duplicate")
    /\ Attempt(MarkDuplicateOf(worker[w].document, worker[w].duplicateOf),
               RouteToReview(w, "DUPLICATE"), RouteToReview(w, "DUPLICATE"))

CalculateConfidence(w) ==
    /\ Step(w, "calculate_confidence")
    /\ Attempt(UNCHANGED tables,
               Enter(w, "finalize") \/ RouteToReview(w, "LOW_CONFIDENCE"),
               Fail(w))

FinalizeDocument(w) ==
    /\ Step(w, "finalize")
    /\ Attempt(MarkAutoProcessed(worker[w].document), Goto(w, "finish_auto"), Fail(w))

FinishRun(w, status) == Finish(worker[w].run, status, worker[w].iterations)

FinishAutoProcessed(w) ==
    /\ At(w, "finish_auto")
    /\ Attempt(FinishRun(w, "COMPLETED"), Goto(w, "audit_auto"), Goto(w, "audit_auto"))

AuditAutoProcessed(w) ==
    /\ At(w, "audit_auto")
    /\ Attempt(AuditRecord("document.auto_processed", worker[w].document),
               Return(w), Return(w))

---------------------------------------------------------------------------
(* routeToReview: four statements, and an error of any of them is logged   *)
(* and the next one executed.                                              *)

OpenReviewTask(w) ==
    /\ At(w, "create_task")
    /\ Attempt(CreateReviewTask(worker[w].document, worker[w].reason),
               Goto(w, "mark_pending"), Goto(w, "mark_pending"))

PersistPendingReview(w) ==
    /\ At(w, "mark_pending")
    /\ Attempt(MarkPendingReview(worker[w].document),
               Goto(w, "finish_review"), Goto(w, "finish_review"))

FinishRouted(w) ==
    /\ At(w, "finish_review")
    /\ Attempt(FinishRun(w, "COMPLETED"), Goto(w, "audit_review"), Goto(w, "audit_review"))

AuditRouted(w) ==
    /\ At(w, "audit_review")
    /\ Attempt(AuditRecord("document.routed_to_review", worker[w].document),
               Return(w), Return(w))

---------------------------------------------------------------------------
(* fail: finish the run, then requeue the document or give it up *)

\* Mutant of AfterFinishFailed: every reason is retried.
AfterFinishFailedAlways(w) == Goto(w, "fail_count")

AfterFinishFailed(w) == Goto(w, IF OverCap(w) THEN "fail_mark" ELSE "fail_count")

\* Mutant of FinishFailed: the run is left RUNNING.
FinishFailedForgotten(w) ==
    /\ At(w, "fail_finish")
    /\ AfterFinishFailed(w)
    /\ NoStatement

FinishFailed(w) ==
    /\ At(w, "fail_finish")
    /\ Attempt(FinishRun(w, "FAILED"), AfterFinishFailed(w), AfterFinishFailed(w))

\* Mutant of CountAttempts: one retry too many.
CountAttemptsOffByOne(w) ==
    /\ At(w, "fail_count")
    /\ Attempt(UNCHANGED tables,
               Goto(w, IF CountFailed(worker[w].document) <= MaxRetries + 1
                       THEN "fail_requeue" ELSE "fail_mark"),
               Goto(w, "fail_mark"))

CountAttempts(w) ==
    /\ At(w, "fail_count")
    /\ Attempt(UNCHANGED tables,
               Goto(w, IF CountFailed(worker[w].document) <= MaxRetries
                       THEN "fail_requeue" ELSE "fail_mark"),
               Goto(w, "fail_mark"))

\* fail was called with tenantID "" exactly when the document could not be
\* loaded, before the first iteration: no audit row then.
Loaded(w) == worker[w].iterations > 0

\* Mutant of AuditOrReturn: a failure is not audited.
AuditOrReturnSilent(w, pc) == Return(w)

AuditOrReturn(w, pc) == IF Loaded(w) THEN Goto(w, pc) ELSE Return(w)

Requeue(w) ==
    /\ At(w, "fail_requeue")
    /\ Attempt(MarkUploaded(worker[w].document),
               AuditOrReturn(w, "audit_retrying"), AuditOrReturn(w, "audit_retrying"))

AuditRetrying(w) ==
    /\ At(w, "audit_retrying")
    /\ Attempt(AuditRecord("agent_run.retrying", worker[w].document),
               Return(w), Return(w))

GiveUp(w) ==
    /\ At(w, "fail_mark")
    /\ Attempt(MarkFailed(worker[w].document),
               AuditOrReturn(w, "audit_failed"), AuditOrReturn(w, "audit_failed"))

AuditFailed(w) ==
    /\ At(w, "audit_failed")
    /\ Attempt(AuditRecord("agent_run.failed", worker[w].document),
               Return(w), Return(w))

---------------------------------------------------------------------------
\* The process stops, by a crash or because SIGTERM cancelled the context
\* every statement of the run uses, and is started again.  Its claim
\* transaction is rolled back; its run stays as it is.
Crash(w) ==
    /\ crashes < MaxCrashes
    /\ ~At(w, "poll")
    /\ crashes' = crashes + 1
    /\ Return(w)
    /\ NoStatement

Claim(w) == ClaimSnapshot(w) \/ ClaimLock(w) \/ ClaimOpenRun(w)

Process(w) ==
    \/ LoadDocument(w) \/ IterationCapReached(w)
    \/ RunOCR(w) \/ ClassifyDocument(w)
    \/ PersistClassification(w) \/ AuditClassified(w)
    \/ ExtractFields(w) \/ PersistFields(w)
    \/ PersistExtracted(w) \/ AuditExtracted(w) \/ PersistKey(w)
    \/ ValidateExtraction(w) \/ PersistValidated(w) \/ AuditValidated(w)
    \/ CheckExactDuplicate(w) \/ CheckNearDuplicate(w) \/ PersistDuplicate(w)
    \/ CalculateConfidence(w)
    \/ FinalizeDocument(w) \/ FinishAutoProcessed(w) \/ AuditAutoProcessed(w)

Route(w) ==
    \/ OpenReviewTask(w) \/ PersistPendingReview(w)
    \/ FinishRouted(w) \/ AuditRouted(w)

Failure(w) ==
    \/ FinishFailed(w) \/ CountAttempts(w)
    \/ Requeue(w) \/ AuditRetrying(w) \/ GiveUp(w) \/ AuditFailed(w)

\* PollOnce and everything it calls
WorkerStep(w) ==
    /\ Claim(w) \/ Process(w) \/ Route(w) \/ Failure(w)
    /\ UNCHANGED crashes

WorkerNext == \E w \in Workers : WorkerStep(w) \/ Crash(w)
=============================================================================
