---------------------------- MODULE Pipeline_proofs ----------------------------
(***************************************************************************)
(* Theorems about the pipeline, for any number of workers whose claims do  *)
(* not overlap: what a step of a run does to its worker and to the tables, *)
(* which run has a document and at which stage (PipelineInv), and from it  *)
(* that settled documents stay settled.  Duplicates point to earlier       *)
(* documents also where claims overlap, unless a document was run twice.   *)
(*                                                                         *)
(* With one worker the system implements DocumentLifecycle.                *)
(***************************************************************************)
EXTENDS Claim_proofs

---------------------------------------------------------------------------
(* What a step of a run does to its worker *)

OthersStay(w) == \A v \in Workers \ {w} : worker'[v] = worker[v]

\* The run goes on at pc; a pipeline step begins with iterations++.
Goes(w, pc) ==
    /\ OthersStay(w)
    /\ worker'[w].pc = pc
    /\ worker'[w].document = worker[w].document
    /\ worker'[w].run = worker[w].run
    /\ worker'[w].iterations = worker[w].iterations + (IF pc \in StepPc THEN 1 ELSE 0)
    /\ pc # "insert_fields" => worker'[w].key = worker[w].key
    /\ pc = "mark_duplicate" \/ worker'[w].duplicateOf = worker[w].duplicateOf

Over(w) == OthersStay(w) /\ worker'[w] = Polling

GoesToOne(w, pcs) == \E pc \in pcs : Goes(w, pc)

\* A pipeline step that is not the last of its run passed its check.
Passed(w) == worker[w].pc \in StepPc => worker[w].iterations <= MaxIterations

CanFail ==
    {"load", "mark_classified", "insert_fields", "mark_extracted", "mark_validated",
     "find_near"} \cup StepPc

\* Where a run goes that reads, or whose audit row is all it writes
ReadMove(w) ==
    \/ At(w, "load") /\ Goes(w, "run_ocr")
    \/ At(w, "run_ocr") /\ Goes(w, "classify")
    \/ At(w, "classify") /\ GoesToOne(w, {"mark_classified", "create_task"})
    \/ At(w, "audit_classified") /\ Goes(w, "extract")
    \/ At(w, "extract") /\ Goes(w, "insert_fields")
    \/ At(w, "audit_extracted") /\ worker[w].key = NoKey /\ Goes(w, "validate")
    \/ At(w, "audit_extracted") /\ worker[w].key # NoKey /\ Goes(w, "set_key")
    \/ At(w, "validate") /\ worker[w].key # NoKey /\ Goes(w, "mark_validated")
    \/ At(w, "validate") /\ Goes(w, "create_task")
    \/ At(w, "audit_validated") /\ Goes(w, "find_exact")
    \/ /\ At(w, "find_exact") /\ Goes(w, "mark_duplicate")
       /\ worker'[w].duplicateOf \in ExactMatch(w)
    \/ At(w, "find_exact") /\ worker[w].key # NoKey /\ Goes(w, "find_near")
    \/ At(w, "find_exact") /\ worker[w].key = NoKey /\ Goes(w, "calculate_confidence")
    \/ /\ At(w, "find_near") /\ Goes(w, "mark_duplicate")
       /\ worker'[w].duplicateOf \in NearMatch(w)
    \/ At(w, "find_near") /\ NearMatch(w) = {} /\ Goes(w, "calculate_confidence")
    \/ At(w, "calculate_confidence") /\ GoesToOne(w, {"finalize", "create_task"})
    \/ /\ At(w, "fail_count") /\ CountFailed(worker[w].document) <= MaxRetries
       /\ Goes(w, "fail_requeue")
    \/ At(w, "fail_count") /\ Goes(w, "fail_mark")
    \/ /\ worker[w].pc \in {"audit_auto", "audit_review", "audit_retrying", "audit_failed"}
       /\ Over(w)

\* The run fails, whatever its step was to write.
FailMove(w) ==
    worker[w].pc \in CanFail /\ Goes(w, "fail_finish")

\* A statement fails whose error is logged or ignored.
ErrorMove(w) ==
    /\ databaseErrors < MaxDatabaseErrors
    /\ \/ At(w, "set_key") /\ Goes(w, "validate")
       \/ At(w, "mark_duplicate") /\ Goes(w, "create_task")
       \/ At(w, "create_task") /\ Goes(w, "mark_pending")
       \/ At(w, "mark_pending") /\ Goes(w, "finish_review")
       \/ At(w, "finish_review") /\ Goes(w, "audit_review")
       \/ At(w, "finish_auto") /\ Goes(w, "audit_auto")
       \/ At(w, "fail_finish") /\ GoesToOne(w, {"fail_count", "fail_mark"})
       \/ At(w, "fail_requeue") /\ (Over(w) \/ Goes(w, "audit_retrying"))
       \/ At(w, "fail_mark") /\ (Over(w) \/ Goes(w, "audit_failed"))

---------------------------------------------------------------------------
(* What it does to the rows *)

SameRows == UNCHANGED <<documents, agentRuns, reviewTasks, extractedFields>>

\* Row d of documents has a new status, key or duplicate_of_document_id.
DocumentSet(d, row) ==
    /\ DOMAIN documents' = DOMAIN documents
    /\ \A e \in DOMAIN documents : e # d => documents'[e] = documents[e]
    /\ documents'[d] = row
    /\ UNCHANGED <<agentRuns, reviewTasks, extractedFields>>

StatusWritten(d, s) == DocumentSet(d, [documents[d] EXCEPT !.status = s])

RunFinished(w, s) ==
    LET r == worker[w].run
    IN  /\ DOMAIN agentRuns' = DOMAIN agentRuns
        /\ \A q \in DOMAIN agentRuns : q # r => agentRuns'[q] = agentRuns[q]
        /\ agentRuns'[r].document = agentRuns[r].document
        /\ agentRuns'[r].status = s
        /\ agentRuns'[r].iterations = worker[w].iterations
        /\ UNCHANGED <<documents, reviewTasks, extractedFields>>

TaskOpened(d) ==
    LET n == Len(reviewTasks) + 1
    IN  /\ DOMAIN reviewTasks' = DOMAIN reviewTasks \cup {n}
        /\ n \notin DOMAIN reviewTasks
        /\ \A t \in DOMAIN reviewTasks : reviewTasks'[t] = reviewTasks[t]
        /\ reviewTasks'[n].document = d
        /\ reviewTasks'[n].status = "PENDING"
        /\ UNCHANGED <<documents, agentRuns, extractedFields>>

BatchInserted(d, author) ==
    LET n == Len(extractedFields) + 1
    IN  /\ DOMAIN extractedFields' = DOMAIN extractedFields \cup {n}
        /\ \A b \in DOMAIN extractedFields : b < n /\ extractedFields'[b] = extractedFields[b]
        /\ extractedFields'[n] = [document |-> d, author |-> author]
        /\ UNCHANGED <<documents, agentRuns, reviewTasks>>

\* A step of a run whose statement is executed, with where the run goes
WriteMove(w) ==
    LET d == worker[w].document
    IN  \/ At(w, "mark_classified") /\ StatusWritten(d, "CLASSIFIED") /\ Goes(w, "audit_classified")
        \/ At(w, "insert_fields") /\ BatchInserted(d, Agent) /\ Goes(w, "mark_extracted")
        \/ At(w, "mark_extracted") /\ StatusWritten(d, "EXTRACTED") /\ Goes(w, "audit_extracted")
        \/ /\ At(w, "set_key") /\ DocumentSet(d, [documents[d] EXCEPT !.key = worker[w].key])
           /\ Goes(w, "validate")
        \/ At(w, "mark_validated") /\ StatusWritten(d, "VALIDATED") /\ Goes(w, "audit_validated")
        \/ /\ At(w, "mark_duplicate")
           /\ DocumentSet(d, [documents[d] EXCEPT !.duplicateOf = worker[w].duplicateOf])
           /\ Goes(w, "create_task")
        \/ At(w, "finalize") /\ StatusWritten(d, "AUTO_PROCESSED") /\ Goes(w, "finish_auto")
        \/ At(w, "finish_auto") /\ RunFinished(w, "COMPLETED") /\ Goes(w, "audit_auto")
        \/ At(w, "create_task") /\ TaskOpened(d) /\ Goes(w, "mark_pending")
        \/ At(w, "mark_pending") /\ StatusWritten(d, "PENDING_REVIEW") /\ Goes(w, "finish_review")
        \/ At(w, "finish_review") /\ RunFinished(w, "COMPLETED") /\ Goes(w, "audit_review")
        \/ /\ At(w, "fail_finish") /\ RunFinished(w, "FAILED")
           /\ Goes(w, IF OverCap(w) THEN "fail_mark" ELSE "fail_count")
        \/ /\ At(w, "fail_requeue") /\ StatusWritten(d, "UPLOADED")
           /\ Over(w) \/ Goes(w, "audit_retrying")
        \/ /\ At(w, "fail_mark") /\ StatusWritten(d, "FAILED")
           /\ Over(w) \/ Goes(w, "audit_failed")

\* All that a step of a run may do
RunEffect(w) ==
    \/ SameRows /\ (ReadMove(w) \/ ErrorMove(w)) /\ Passed(w)
    \/ SameRows /\ FailMove(w)
    \/ WriteMove(w) /\ Passed(w)

---------------------------------------------------------------------------
(* Every step of a run is one of them *)

LEMMA GotoGoes ==
    ASSUME worker \in [Workers -> WorkerState], NEW w \in Workers,
           NEW pc, pc \notin StepPc, Goto(w, pc)
    PROVE  Goes(w, pc)
<1>1. /\ worker[w] \in WorkerState
      /\ worker'[w] = [worker[w] EXCEPT !.pc = pc]
      /\ OthersStay(w)
  BY DEF Goto, OthersStay
<1>2. worker[w].iterations + 0 = worker[w].iterations
  BY <1>1 DEF WorkerState
<1> QED
  BY <1>1, <1>2 DEF Goes, WorkerState

LEMMA EnterGoes ==
    ASSUME worker \in [Workers -> WorkerState], NEW w \in Workers,
           NEW pc \in StepPc, Enter(w, pc)
    PROVE  Goes(w, pc)
<1>1. /\ worker[w] \in WorkerState
      /\ worker'[w] = [worker[w] EXCEPT !.pc = pc, !.iterations = worker[w].iterations + 1]
      /\ OthersStay(w)
  BY DEF Enter, OthersStay
<1> QED
  BY <1>1 DEF Goes, WorkerState

LEMMA RouteGoes ==
    ASSUME worker \in [Workers -> WorkerState], NEW w \in Workers,
           NEW reason, RouteToReview(w, reason)
    PROVE  Goes(w, "create_task")
<1>1. /\ worker[w] \in WorkerState
      /\ worker'[w] = [worker[w] EXCEPT !.pc = "create_task", !.reason = reason]
      /\ OthersStay(w)
  BY DEF RouteToReview, OthersStay
<1>2. /\ worker[w].iterations + 0 = worker[w].iterations
      /\ "create_task" \notin StepPc
  BY <1>1 DEF WorkerState, StepPc
<1> QED
  BY <1>1, <1>2 DEF Goes, WorkerState

LEMMA ReturnOver ==
    ASSUME worker \in [Workers -> WorkerState], NEW w \in Workers, Return(w)
    PROVE  Over(w)
BY DEF Return, Over, OthersStay

LEMMA ExtractGoes ==
    ASSUME worker \in [Workers -> WorkerState], NEW w \in Workers, NEW key,
           worker' = [worker EXCEPT ![w] = [@ EXCEPT !.pc = "insert_fields", !.key = key]]
    PROVE  Goes(w, "insert_fields")
<1>1. /\ worker[w] \in WorkerState
      /\ worker'[w] = [worker[w] EXCEPT !.pc = "insert_fields", !.key = key]
      /\ OthersStay(w)
  BY DEF OthersStay
<1>2. /\ worker[w].iterations + 0 = worker[w].iterations
      /\ "insert_fields" \notin StepPc
  BY <1>1 DEF WorkerState, StepPc
<1> QED
  BY <1>1, <1>2 DEF Goes, WorkerState

LEMMA DuplicateGoes ==
    ASSUME worker \in [Workers -> WorkerState], NEW w \in Workers, NEW S,
           FoundDuplicate(w, S)
    PROVE  Goes(w, "mark_duplicate") /\ worker'[w].duplicateOf \in S
<1>0. PICK d \in S : worker' = [worker EXCEPT ![w] =
                         [@ EXCEPT !.pc = "mark_duplicate", !.duplicateOf = d]]
  BY DEF FoundDuplicate
<1>1. /\ worker[w] \in WorkerState
      /\ worker'[w] = [worker[w] EXCEPT !.pc = "mark_duplicate", !.duplicateOf = d]
      /\ OthersStay(w)
  BY <1>0 DEF OthersStay
<1>2. /\ worker[w].iterations + 0 = worker[w].iterations
      /\ "mark_duplicate" \notin StepPc
  BY <1>1 DEF WorkerState, StepPc
<1> QED
  BY <1>1, <1>2 DEF Goes, WorkerState

LEMMA FailGoes ==
    ASSUME worker \in [Workers -> WorkerState], NEW w \in Workers, Fail(w)
    PROVE  Goes(w, "fail_finish")
BY GotoGoes DEF Fail, StepPc

\* The statements
LEMMA StatusSet ==
    ASSUME TablesOK, NEW d \in DOMAIN documents, NEW s, SetStatus(d, s)
    PROVE  StatusWritten(d, s)
<1>1. documents' = [documents EXCEPT ![d] = [documents[d] EXCEPT !.status = s]]
  BY DEF SetStatus
<1> QED
  BY <1>1 DEF SetStatus, StatusWritten, DocumentSet, DocumentWritten, TablesOK

LEMMA RunClosed ==
    ASSUME Inv, NEW w \in Workers, worker[w].pc \in RunPc, NEW s, FinishRun(w, s)
    PROVE  RunFinished(w, s)
<1> DEFINE r == worker[w].run
           n == worker[w].iterations
           row == [agentRuns[r] EXCEPT !.status = s, !.iterations = n]
<1>1. r \in DOMAIN agentRuns /\ TablesOK
  BY RunFacts
<1>2. agentRuns[r] \in AgentRun
  BY <1>1, ElementOfSeq DEF TablesOK
<1>3. row.document = agentRuns[r].document /\ row.status = s /\ row.iterations = n
  BY <1>2 DEF AgentRun
<1>4. agentRuns' = [agentRuns EXCEPT ![r] = row] /\ AgentRunWritten
  BY DEF FinishRun, Finish
<1> HIDE DEF row
<1> QED
  BY <1>1, <1>3, <1>4 DEF RunFinished, AgentRunWritten, TablesOK

LEMMA TaskCreated ==
    ASSUME TablesOK, NEW d, NEW reason, CreateReviewTask(d, reason)
    PROVE  TaskOpened(d)
<1> DEFINE row == [document |-> d, status |-> "PENDING", reason |-> reason,
                   reviewedBy |-> NoReviewer]
<1>1. reviewTasks' = Append(reviewTasks, row) /\ ReviewTaskWritten
  BY DEF CreateReviewTask
<1>2. row.document = d /\ row.status = "PENDING"
  OBVIOUS
<1> HIDE DEF row
<1>3. /\ DOMAIN reviewTasks = 1..Len(reviewTasks)
      /\ DOMAIN reviewTasks' = 1..(Len(reviewTasks) + 1)
      /\ \A t \in 1..Len(reviewTasks) : reviewTasks'[t] = reviewTasks[t]
      /\ reviewTasks'[Len(reviewTasks) + 1] = row
      /\ Len(reviewTasks) \in Nat
  BY <1>1, AppendProperties, LenProperties DEF TablesOK
<1> QED
  BY <1>1, <1>2, <1>3 DEF TaskOpened, ReviewTaskWritten

LEMMA BatchWritten ==
    ASSUME TablesOK, NEW d, NEW a, InsertBatch(d, a)
    PROVE  BatchInserted(d, a)
<1> DEFINE row == [document |-> d, author |-> a]
<1>1. extractedFields' = Append(extractedFields, row)
  BY DEF InsertBatch
<1> HIDE DEF row
<1>3. /\ DOMAIN extractedFields = 1..Len(extractedFields)
      /\ DOMAIN extractedFields' = 1..(Len(extractedFields) + 1)
      /\ \A t \in 1..Len(extractedFields) : extractedFields'[t] = extractedFields[t]
      /\ extractedFields'[Len(extractedFields) + 1] = row
      /\ Len(extractedFields) \in Nat
  BY <1>1, AppendProperties, LenProperties DEF TablesOK
<1> QED
  BY <1>3 DEF BatchInserted, InsertBatch, row

LEMMA KeySet ==
    ASSUME TablesOK, NEW d \in DOMAIN documents, NEW key, SetKeyFieldsHash(d, key)
    PROVE  DocumentSet(d, [documents[d] EXCEPT !.key = key])
<1>1. documents' = [documents EXCEPT ![d] = [documents[d] EXCEPT !.key = key]]
  BY DEF SetKeyFieldsHash
<1> QED
  BY <1>1 DEF SetKeyFieldsHash, DocumentSet, DocumentWritten, TablesOK

LEMMA DuplicateSet ==
    ASSUME TablesOK, NEW d \in DOMAIN documents, NEW e, MarkDuplicateOf(d, e)
    PROVE  DocumentSet(d, [documents[d] EXCEPT !.duplicateOf = e])
<1>1. documents' = [documents EXCEPT ![d] = [documents[d] EXCEPT !.duplicateOf = e]]
  BY DEF MarkDuplicateOf
<1> QED
  BY <1>1 DEF MarkDuplicateOf, DocumentSet, DocumentWritten, TablesOK

LEMMA RunPcs ==
    ASSUME NEW w \in Workers, Process(w) \/ Route(w) \/ Failure(w)
    PROVE  worker[w].pc \in RunPc
BY DEF Process, Route, Failure, At, Step, RunPc, StepPc, PersistPc, ClosePc,
       LoadDocument, IterationCapReached, RunOCR, ClassifyDocument, PersistClassification,
       AuditClassified, ExtractFields, PersistFields, PersistExtracted, AuditExtracted,
       PersistKey, ValidateExtraction, PersistValidated, AuditValidated,
       CheckExactDuplicate, CheckNearDuplicate, PersistDuplicate, CalculateConfidence,
       FinalizeDocument, FinishAutoProcessed, AuditAutoProcessed, OpenReviewTask,
       PersistPendingReview, FinishRouted, AuditRouted, FinishFailed, CountAttempts,
       Requeue, AuditRetrying, GiveUp, AuditFailed

LEMMA RunEffects ==
    ASSUME Inv, NEW w \in Workers, Process(w) \/ Route(w) \/ Failure(w)
    PROVE  RunEffect(w)
<1> DEFINE d == worker[w].document
<1>1. /\ worker \in [Workers -> WorkerState] /\ databaseErrors \in Nat
      /\ worker[w].pc \in RunPc /\ TablesOK /\ d \in DOMAIN documents
      /\ worker[w].iterations \in Nat /\ worker[w].pc # "poll"
  <2>1. worker \in [Workers -> WorkerState] /\ databaseErrors \in Nat
    BY DEF Inv, TypeOK, WorkerTypeOK, DatabaseTypeOK
  <2>2. worker[w].pc \in RunPc
    BY RunPcs
  <2> QED
    BY <2>1, <2>2, RunFacts, PcFacts DEF WorkerState
<1>2. UNCHANGED tables => SameRows
  BY DEF tables, SameRows
<1>3. \A a : AuditRecord(a, d) => SameRows
  BY DEF AuditRecord, SameRows
<1>5. ~OverCap(w) => Passed(w)
  BY <1>1, AgentRunnerAssumption DEF OverCap, Passed
<1>6. worker[w].pc \notin StepPc => Passed(w)
  BY DEF Passed
<1>7. ASSUME SameRows, ReadMove(w) \/ ErrorMove(w), Passed(w) PROVE RunEffect(w)
  BY <1>7 DEF RunEffect
<1>8. ASSUME SameRows, worker[w].pc \in CanFail, Fail(w) PROVE RunEffect(w)
  BY <1>8, <1>1, FailGoes DEF RunEffect, FailMove
<1>9. ASSUME WriteMove(w), Passed(w) PROVE RunEffect(w)
  BY <1>9 DEF RunEffect
<1> HIDE DEF d
\* The steps that read
<1>10. CASE LoadDocument(w)
  BY <1>10, <1>1, <1>2, <1>3, <1>5, <1>6, <1>7, <1>8, <1>9, EnterGoes
  DEF LoadDocument, Attempt, At, Step, ReadMove, CanFail, StepPc
<1>11. CASE IterationCapReached(w)
  BY <1>11, <1>1, <1>2, <1>3, <1>5, <1>6, <1>7, <1>8, <1>9, FailGoes
  DEF IterationCapReached, Attempt, At, Step, NoStatement, CanFail
<1>12. CASE RunOCR(w)
  BY <1>12, <1>1, <1>2, <1>3, <1>5, <1>6, <1>7, <1>8, <1>9, EnterGoes
  DEF RunOCR, Attempt, At, Step, NoStatement, ReadMove, CanFail, StepPc
<1>13. CASE ClassifyDocument(w)
  BY <1>13, <1>1, <1>2, <1>3, <1>5, <1>6, <1>7, <1>8, <1>9, GotoGoes, RouteGoes
  DEF ClassifyDocument, Attempt, At, Step, NoStatement, ReadMove, GoesToOne, CanFail, StepPc
<1>14. CASE PersistClassification(w)
  BY <1>14, <1>1, <1>2, <1>3, <1>5, <1>6, <1>7, <1>8, <1>9, GotoGoes, StatusSet
  DEF PersistClassification, Attempt, At, Step, MarkClassified, WriteMove, CanFail, StepPc, d
<1>15. CASE AuditClassified(w)
  BY <1>15, <1>1, <1>2, <1>3, <1>5, <1>6, <1>7, <1>8, <1>9, EnterGoes
  DEF AuditClassified, Attempt, At, Step, ReadMove, StepPc, d
<1>16. CASE ExtractFields(w)
  BY <1>16, <1>1, <1>2, <1>3, <1>5, <1>6, <1>7, <1>8, <1>9, ExtractGoes
  DEF ExtractFields, Attempt, At, Step, NoStatement, ReadMove, CanFail, StepPc
<1>17. CASE PersistFields(w)
  BY <1>17, <1>1, <1>2, <1>3, <1>5, <1>6, <1>7, <1>8, <1>9, GotoGoes, BatchWritten
  DEF PersistFields, Attempt, At, Step, NoStatement, WriteMove, CanFail, StepPc, d
<1>18. CASE PersistExtracted(w)
  BY <1>18, <1>1, <1>2, <1>3, <1>5, <1>6, <1>7, <1>8, <1>9, GotoGoes, StatusSet
  DEF PersistExtracted, Attempt, At, Step, MarkExtracted, WriteMove, CanFail, StepPc, d
<1>19. CASE AuditExtracted(w)
  BY <1>19, <1>1, <1>2, <1>3, <1>5, <1>6, <1>7, <1>8, <1>9, GotoGoes, EnterGoes
  DEF AuditExtracted, Attempt, At, Step, AfterExtraction, ReadMove, StepPc, d
<1>20. CASE PersistKey(w)
  BY <1>20, <1>1, <1>2, <1>3, <1>5, <1>6, <1>7, <1>8, <1>9, EnterGoes, KeySet
  DEF PersistKey, Attempt, At, Step, ErrorMove, WriteMove, StepPc, d
<1>21. CASE ValidateExtraction(w)
  BY <1>21, <1>1, <1>2, <1>3, <1>5, <1>6, <1>7, <1>8, <1>9, GotoGoes, RouteGoes
  DEF ValidateExtraction, Attempt, At, Step, NoStatement, ReadMove, StepPc
<1>22. CASE PersistValidated(w)
  BY <1>22, <1>1, <1>2, <1>3, <1>5, <1>6, <1>7, <1>8, <1>9, GotoGoes, StatusSet
  DEF PersistValidated, Attempt, At, Step, MarkValidated, WriteMove, CanFail, StepPc, d
<1>23. CASE AuditValidated(w)
  BY <1>23, <1>1, <1>2, <1>3, <1>5, <1>6, <1>7, <1>8, <1>9, EnterGoes
  DEF AuditValidated, Attempt, At, Step, ReadMove, StepPc, d
<1>24. CASE CheckExactDuplicate(w)
  BY <1>24, <1>1, <1>2, <1>3, <1>5, <1>6, <1>7, <1>8, <1>9, DuplicateGoes, GotoGoes, EnterGoes
  DEF CheckExactDuplicate, Attempt, At, Step, ReadMove, CanFail, StepPc
<1>25. CASE CheckNearDuplicate(w)
  BY <1>25, <1>1, <1>2, <1>3, <1>5, <1>6, <1>7, <1>8, <1>9, DuplicateGoes, EnterGoes
  DEF CheckNearDuplicate, Attempt, At, Step, ReadMove, CanFail, StepPc
<1>26. CASE PersistDuplicate(w)
  BY <1>26, <1>1, <1>2, <1>3, <1>5, <1>6, <1>7, <1>8, <1>9, RouteGoes, DuplicateSet
  DEF PersistDuplicate, Attempt, At, Step, ErrorMove, WriteMove, StepPc, d
<1>27. CASE CalculateConfidence(w)
  BY <1>27, <1>1, <1>2, <1>3, <1>5, <1>6, <1>7, <1>8, <1>9, EnterGoes, RouteGoes
  DEF CalculateConfidence, Attempt, At, Step, ReadMove, GoesToOne, CanFail, StepPc
<1>28. CASE FinalizeDocument(w)
  BY <1>28, <1>1, <1>2, <1>3, <1>5, <1>6, <1>7, <1>8, <1>9, GotoGoes, StatusSet
  DEF FinalizeDocument, Attempt, At, Step, MarkAutoProcessed, WriteMove, CanFail, StepPc, d
<1>29. CASE FinishAutoProcessed(w)
  BY <1>29, <1>1, <1>2, <1>3, <1>5, <1>6, <1>7, <1>8, <1>9, GotoGoes, RunClosed
  DEF FinishAutoProcessed, Attempt, At, Step, ErrorMove, WriteMove, StepPc
<1>30. CASE AuditAutoProcessed(w)
  BY <1>30, <1>1, <1>2, <1>3, <1>5, <1>6, <1>7, <1>8, <1>9, ReturnOver
  DEF AuditAutoProcessed, Attempt, At, Step, ReadMove, StepPc, d
<1>31. CASE OpenReviewTask(w)
  BY <1>31, <1>1, <1>2, <1>3, <1>5, <1>6, <1>7, <1>8, <1>9, GotoGoes, TaskCreated
  DEF OpenReviewTask, Attempt, At, Step, ErrorMove, WriteMove, StepPc, d
<1>32. CASE PersistPendingReview(w)
  BY <1>32, <1>1, <1>2, <1>3, <1>5, <1>6, <1>7, <1>8, <1>9, GotoGoes, StatusSet
  DEF PersistPendingReview, Attempt, At, Step, MarkPendingReview, ErrorMove, WriteMove, StepPc, d
<1>33. CASE FinishRouted(w)
  BY <1>33, <1>1, <1>2, <1>3, <1>5, <1>6, <1>7, <1>8, <1>9, GotoGoes, RunClosed
  DEF FinishRouted, Attempt, At, Step, ErrorMove, WriteMove, StepPc
<1>34. CASE AuditRouted(w)
  BY <1>34, <1>1, <1>2, <1>3, <1>5, <1>6, <1>7, <1>8, <1>9, ReturnOver
  DEF AuditRouted, Attempt, At, Step, ReadMove, StepPc, d
<1>35. CASE FinishFailed(w)
  BY <1>35, <1>1, <1>2, <1>3, <1>5, <1>6, <1>7, <1>8, <1>9, GotoGoes, RunClosed
  DEF FinishFailed, Attempt, At, Step, AfterFinishFailed, ErrorMove, GoesToOne, WriteMove, StepPc
<1>36. CASE CountAttempts(w)
  BY <1>36, <1>1, <1>2, <1>3, <1>5, <1>6, <1>7, <1>8, <1>9, GotoGoes
  DEF CountAttempts, Attempt, At, Step, ReadMove, StepPc, d
<1>37. CASE Requeue(w)
  BY <1>37, <1>1, <1>2, <1>3, <1>5, <1>6, <1>7, <1>8, <1>9, GotoGoes, ReturnOver, StatusSet
  DEF Requeue, Attempt, At, Step, MarkUploaded, AuditOrReturn, ErrorMove, WriteMove, StepPc, d
<1>38. CASE AuditRetrying(w)
  BY <1>38, <1>1, <1>2, <1>3, <1>5, <1>6, <1>7, <1>8, <1>9, ReturnOver
  DEF AuditRetrying, Attempt, At, Step, ReadMove, StepPc, d
<1>39. CASE GiveUp(w)
  BY <1>39, <1>1, <1>2, <1>3, <1>5, <1>6, <1>7, <1>8, <1>9, GotoGoes, ReturnOver, StatusSet
  DEF GiveUp, Attempt, At, Step, MarkFailed, AuditOrReturn, ErrorMove, WriteMove, StepPc, d
<1>40. CASE AuditFailed(w)
  BY <1>40, <1>1, <1>2, <1>3, <1>5, <1>6, <1>7, <1>8, <1>9, ReturnOver
  DEF AuditFailed, Attempt, At, Step, ReadMove, StepPc, d
<1> QED
  BY <1>10, <1>11, <1>12, <1>13, <1>14, <1>15, <1>16, <1>17, <1>18, <1>19, <1>20,
     <1>21, <1>22, <1>23, <1>24, <1>25, <1>26, <1>27, <1>28, <1>29, <1>30, <1>31,
     <1>32, <1>33, <1>34, <1>35, <1>36, <1>37, <1>38, <1>39, <1>40
  DEF Process, Route, Failure

---------------------------------------------------------------------------
(* The invariant *)

\* Where its run is not closed yet
OpenPc ==
    {"load"} \cup StepPc \cup PersistPc
        \cup {"create_task", "mark_pending", "finish_auto", "finish_review", "fail_finish"}

\* Between fail's UPDATE of the run and its UPDATE of the document
GivingUpPc == {"fail_count", "fail_requeue", "fail_mark"}

\* From the claim to the last status the run writes
OwningPc ==
    ({"open_run"} \cup OpenPc \cup GivingUpPc) \ {"finish_auto", "finish_review"}

\* Two workers never have one run.
RunsDistinct ==
    \A v, w \in Workers :
        /\ worker[v].pc \in RunPc /\ worker[w].pc \in RunPc
        /\ worker[v].run = worker[w].run
        => v = w

\* The run of a worker is RUNNING until it is closed; where closing it as
\* FAILED did not fail, its iterations are the worker's.
OwnRun(w) ==
    LET run == agentRuns[worker[w].run]
    IN  /\ worker[w].pc \in OpenPc => run.status = "RUNNING"
        /\ worker[w].pc \in GivingUpPc =>
              \/ run.status = "RUNNING"
              \/ run.status = "FAILED" /\ run.iterations = worker[w].iterations

\* How many iterations a run has counted when it is at pc
IterationsAt(w) ==
    LET n == worker[w].iterations
    IN  /\ worker[w].pc \in {"poll", "lock", "open_run", "load"} => n = 0
        /\ worker[w].pc = "run_ocr" => n = 1
        /\ worker[w].pc \in {"classify", "mark_classified", "audit_classified"} => n = 2
        /\ worker[w].pc \in
              ((StepPc \cup PersistPc) \ {"run_ocr", "classify", "mark_classified",
                                          "audit_classified"}) => n >= 3

RunInv ==
    /\ RunsDistinct
    /\ \A w \in Workers :
          worker[w].pc \in RunPc => OwnRun(w)
    /\ \A w \in Workers : IterationsAt(w)

Active == {"UPLOADED", "CLASSIFIED", "EXTRACTED", "VALIDATED"}

\* The status a document has when its run is at pc
StageAt(pc) ==
    CASE pc \in {"open_run", "load", "run_ocr", "classify", "mark_classified"} -> {"UPLOADED"}
      [] pc \in {"audit_classified", "extract", "insert_fields", "mark_extracted"} ->
            {"CLASSIFIED"}
      [] pc \in {"audit_extracted", "set_key", "validate", "mark_validated"} -> {"EXTRACTED"}
      [] pc \in {"audit_validated", "find_exact", "find_near", "mark_duplicate",
                 "calculate_confidence", "finalize"} -> {"VALIDATED"}
      [] pc \in {"create_task", "mark_pending"} -> {"UPLOADED", "EXTRACTED", "VALIDATED"}
      [] OTHER -> Active

\* A failed run of d left it claimable while another worker was there to
\* claim it.
Disturbed(d) == EarlyFailure(d) /\ ~Solo

\* The document of a worker that owns it is at the stage of its run.
Staged(w) ==
    LET d == worker[w].document
    IN  worker[w].pc \in OwningPc /\ ~Disturbed(d) =>
            /\ documents[d].status \in StageAt(worker[w].pc)
            /\ worker[w].pc \in {"fail_finish"} \cup GivingUpPc /\ worker[w].iterations >= 3 =>
                  documents[d].status # "UPLOADED"

OneOwner ==
    \A v, w \in Workers :
        /\ worker[v].pc \in OwningPc /\ worker[w].pc \in OwningPc
        /\ worker[v].document = worker[w].document
        /\ ~Disturbed(worker[w].document)
        => v = w

\* A document under review waits for the decision or has it.
UnderReview ==
    \A u \in Reviewers :
        ~Reviewing(u, "idle") /\ ~Disturbed(review[u].document) =>
            documents[review[u].document].status \in {"PENDING_REVIEW", "REVIEWED"}

StageInv ==
    /\ \A w \in Workers : Staged(w)
    /\ OneOwner
    /\ UnderReview

---------------------------------------------------------------------------
(* Runs and their workers *)

\* A step of a run keeps its worker's document and run, or ends the run.
LEMMA EffectMoves ==
    ASSUME NEW w \in Workers, RunEffect(w)
    PROVE  /\ OthersStay(w)
           /\ \/ worker'[w] = Polling
              \/ /\ worker'[w].document = worker[w].document
                 /\ worker'[w].run = worker[w].run
BY DEF RunEffect, ReadMove, ErrorMove, FailMove, WriteMove, GoesToOne, Goes, Over

\* It writes no run but its own.
LEMMA EffectRuns ==
    ASSUME NEW w \in Workers, RunEffect(w)
    PROVE  /\ DOMAIN agentRuns' = DOMAIN agentRuns
           /\ \A r \in DOMAIN agentRuns : r # worker[w].run => agentRuns'[r] = agentRuns[r]
BY DEF RunEffect, SameRows, WriteMove, RunFinished, StatusWritten, DocumentSet, TaskOpened,
       BatchInserted

LEMMA EffectKeepsOwnRun ==
    ASSUME Inv, NEW w \in Workers, RunEffect(w), OwnRun(w)
    PROVE  OwnRun(w)'
<1> USE DEF StepPc, PersistPc, OpenPc, GivingUpPc, At, GoesToOne, Goes, OwnRun, Over, Polling
<1>0. worker[w].iterations \in Nat
  BY DEF Inv, TypeOK, WorkerTypeOK, WorkerState
<1>1. CASE SameRows /\ (ReadMove(w) \/ ErrorMove(w))
  BY <1>0, <1>1 DEF SameRows, ReadMove, ErrorMove
<1>2. CASE SameRows /\ FailMove(w)
  BY <1>0, <1>2 DEF SameRows, FailMove, CanFail
<1>3. CASE WriteMove(w) /\ UNCHANGED agentRuns
  BY <1>0, <1>3 DEF WriteMove, RunFinished
<1>4. CASE /\ At(w, "fail_finish") /\ RunFinished(w, "FAILED")
           /\ GoesToOne(w, GivingUpPc)
  BY <1>0, <1>4 DEF RunFinished
<1>5. CASE GoesToOne(w, {"audit_auto", "audit_review"})
  BY <1>5
<1>6. WriteMove(w) => \/ UNCHANGED agentRuns
                      \/ /\ At(w, "fail_finish") /\ RunFinished(w, "FAILED")
                         /\ GoesToOne(w, GivingUpPc)
                      \/ GoesToOne(w, {"audit_auto", "audit_review"})
  BY DEF WriteMove, StatusWritten, DocumentSet, TaskOpened, BatchInserted
<1> QED
  BY <1>1, <1>2, <1>3, <1>4, <1>5, <1>6 DEF RunEffect

LEMMA EffectCounts ==
    ASSUME Inv, NEW w \in Workers, RunEffect(w), IterationsAt(w)
    PROVE  IterationsAt(w)'
<1> USE DEF StepPc, PersistPc, At, GoesToOne, Goes, IterationsAt, Over, Polling
<1>0. worker[w].iterations \in Nat
  BY DEF Inv, TypeOK, WorkerTypeOK, WorkerState
<1>1. CASE ReadMove(w)
  BY <1>0, <1>1 DEF ReadMove
<1>2. CASE ErrorMove(w)
  BY <1>0, <1>2 DEF ErrorMove
<1>3. CASE FailMove(w)
  BY <1>0, <1>3 DEF FailMove, CanFail
<1>4. CASE WriteMove(w)
  BY <1>0, <1>4 DEF WriteMove
<1> QED
  BY <1>1, <1>2, <1>3, <1>4 DEF RunEffect

\* A step of w that leaves the runs of others alone keeps the invariant when
\* it keeps w's part of it.
LEMMA RunInvAfter ==
    ASSUME Inv, RunInv, NEW w \in Workers, OthersStay(w),
           worker'[w].pc \in RunPc =>
               /\ OwnRun(w)'
               /\ \/ worker[w].pc \in RunPc /\ worker'[w].run = worker[w].run
                  \/ worker'[w].run \notin DOMAIN agentRuns,
           \A r \in DOMAIN agentRuns :
               (worker[w].pc \in RunPc => r # worker[w].run) => agentRuns'[r] = agentRuns[r],
           IterationsAt(w)'
    PROVE  RunInv'
<1>1. \A v \in Workers : worker[v].pc \in RunPc => worker[v].run \in DOMAIN agentRuns
  BY RunFacts
<1>2. RunsDistinct'
  BY <1>1 DEF RunInv, RunsDistinct, OthersStay
<1>3. ASSUME NEW v \in Workers, v # w
      PROVE  /\ worker'[v] = worker[v]
             /\ worker[v].pc \in RunPc =>
                   agentRuns'[worker[v].run] = agentRuns[worker[v].run]
  BY <1>1, <1>3 DEF OthersStay, RunInv, RunsDistinct
<1>4. ASSUME NEW v \in Workers, worker'[v].pc \in RunPc PROVE OwnRun(v)'
  <2>1. CASE v = w
    BY <1>4, <2>1
  <2>2. CASE v # w
    BY <1>3, <1>4, <2>2 DEF RunInv, OwnRun
  <2> QED
    BY <2>1, <2>2
<1>5. ASSUME NEW v \in Workers PROVE IterationsAt(v)'
  BY <1>3 DEF RunInv, IterationsAt
<1> QED
  BY <1>2, <1>4, <1>5 DEF RunInv

LEMMA PollingCounts ==
    ASSUME NEW w \in Workers, worker'[w] = Polling
    PROVE  /\ IterationsAt(w)' /\ worker'[w].pc \notin RunPc /\ worker'[w].pc \notin ClaimPc
           /\ worker'[w].pc \notin OwningPc
BY DEF IterationsAt, Polling, StepPc, PersistPc, RunPc, ClosePc, ClaimPc, OwningPc, OpenPc,
       GivingUpPc

LEMMA EffectKeepsRuns ==
    ASSUME Inv, RunInv, NEW w \in Workers, Process(w) \/ Route(w) \/ Failure(w)
    PROVE  RunInv'
<1>1. RunEffect(w) /\ worker[w].pc \in RunPc
  BY RunEffects, RunPcs
<1>2. OwnRun(w)' /\ IterationsAt(w)'
  BY <1>1, EffectKeepsOwnRun, EffectCounts DEF RunInv
<1> QED
  BY <1>1, <1>2, EffectMoves, EffectRuns, PollingCounts, RunInvAfter

LEMMA SnapshotTaken ==
    ASSUME Inv, NEW w \in Workers, ClaimSnapshot(w)
    PROVE  /\ OthersStay(w) /\ UNCHANGED <<tables, databaseErrors>>
           /\ worker[w].pc = "poll" /\ worker'[w].pc = "lock"
           /\ worker'[w].snapshot = Claimable
           /\ worker'[w].iterations = worker[w].iterations
<1>1. /\ worker[w] \in WorkerState
      /\ worker'[w] = [worker[w] EXCEPT !.pc = "lock", !.snapshot = Claimable]
      /\ OthersStay(w)
  BY DEF ClaimSnapshot, Inv, TypeOK, WorkerTypeOK, OthersStay
<1> QED
  BY <1>1, ZenonT(60) DEF ClaimSnapshot, At, NoStatement, WorkerState

LEMMA LockTaken ==
    ASSUME Inv, NEW w \in Workers, ClaimLock(w)
    PROVE  /\ OthersStay(w) /\ UNCHANGED <<tables, databaseErrors>>
           /\ worker[w].pc = "lock"
           /\ \/ worker'[w] = Polling
              \/ /\ worker'[w].pc = "open_run"
                 /\ worker'[w].document \in Earliest(Lockable(w))
                 /\ worker'[w].iterations = worker[w].iterations
<1>0. worker[w] \in WorkerState /\ worker \in [Workers -> WorkerState]
  BY DEF Inv, TypeOK, WorkerTypeOK
<1>1. CASE Return(w)
  BY <1>0, <1>1 DEF ClaimLock, At, NoStatement, Return, OthersStay
<1>2. ASSUME NEW d \in Earliest(Lockable(w)),
             worker' = [worker EXCEPT ![w] =
                           [@ EXCEPT !.pc = "open_run", !.snapshot = {}, !.document = d]]
      PROVE  /\ OthersStay(w) /\ worker'[w].pc = "open_run" /\ worker'[w].document = d
             /\ worker'[w].iterations = worker[w].iterations
  BY <1>0, <1>2 DEF OthersStay, WorkerState
<1> QED
  BY <1>1, <1>2 DEF ClaimLock, At, NoStatement

RunOpened(w) ==
    /\ worker'[w].pc = "load"
    /\ worker'[w].document = worker[w].document
    /\ worker'[w].iterations = worker[w].iterations
    /\ worker'[w].run \notin DOMAIN agentRuns
    /\ worker'[w].run \in Nat /\ \A r \in DOMAIN agentRuns : r <= worker'[w].run
    /\ DOMAIN agentRuns' = DOMAIN agentRuns \cup {worker'[w].run}
    /\ \A r \in DOMAIN agentRuns : agentRuns'[r] = agentRuns[r]
    /\ agentRuns'[worker'[w].run].document = worker[w].document
    /\ agentRuns'[worker'[w].run].status = "RUNNING"
    /\ agentRuns'[worker'[w].run].iterations = 0

LEMMA RunInserted ==
    ASSUME Inv, NEW w \in Workers, ClaimOpenRun(w)
    PROVE  /\ OthersStay(w)
           /\ worker[w].pc = "open_run"
           /\ UNCHANGED <<documents, reviewTasks, extractedFields>>
           /\ \/ worker'[w] = Polling /\ UNCHANGED agentRuns
              \/ RunOpened(w)
<1>0. /\ worker[w] \in WorkerState /\ worker \in [Workers -> WorkerState] /\ TablesOK
      /\ worker[w].pc = "open_run"
  BY DEF Inv, TypeOK, WorkerTypeOK, TablesOK, DatabaseTypeOK, ClaimOpenRun, At
<1>1. CASE Return(w) /\ UNCHANGED tables
  BY <1>0, <1>1 DEF Return, OthersStay, tables
<1>2. CASE /\ InsertRun(worker[w].document)
           /\ worker' = [worker EXCEPT ![w] =
                            [@ EXCEPT !.pc = "load", !.run = Len(agentRuns) + 1]]
  <2> DEFINE row == [document |-> worker[w].document, status |-> "RUNNING", iterations |-> 0]
  <2>1. /\ OthersStay(w) /\ worker'[w].pc = "load" /\ worker'[w].run = Len(agentRuns) + 1
        /\ worker'[w].document = worker[w].document
        /\ worker'[w].iterations = worker[w].iterations
    BY <1>0, <1>2 DEF OthersStay, WorkerState
  <2>2. agentRuns' = Append(agentRuns, row) /\ AgentRunWritten
    BY <1>2 DEF InsertRun
  <2> HIDE DEF row
  <2>3. /\ DOMAIN agentRuns = 1..Len(agentRuns)
        /\ DOMAIN agentRuns' = 1..(Len(agentRuns) + 1)
        /\ \A t \in 1..Len(agentRuns) : agentRuns'[t] = agentRuns[t]
        /\ agentRuns'[Len(agentRuns) + 1] = row
        /\ Len(agentRuns) \in Nat
    BY <1>0, <2>2, AppendProperties, LenProperties DEF TablesOK
  <2>4. /\ Len(agentRuns) + 1 \notin DOMAIN agentRuns
        /\ DOMAIN agentRuns' = DOMAIN agentRuns \cup {Len(agentRuns) + 1}
        /\ Len(agentRuns) + 1 \in Nat /\ \A r \in DOMAIN agentRuns : r <= Len(agentRuns) + 1
    BY <2>3
  <2>5. row.document = worker[w].document /\ row.status = "RUNNING" /\ row.iterations = 0
    BY DEF row
  <2> QED
    BY <1>0, <2>1, <2>2, <2>3, <2>4, <2>5 DEF AgentRunWritten, RunOpened
<1> QED
  BY <1>1, <1>2 DEF ClaimOpenRun, Attempt

\* A step of a claim
LEMMA ClaimMoves ==
    ASSUME Inv, NEW w \in Workers, Claim(w)
    PROVE  /\ OthersStay(w) /\ worker[w].pc \in {"poll", "lock", "open_run"}
           /\ UNCHANGED <<documents, reviewTasks, extractedFields>>
           /\ \/ worker'[w] = Polling /\ UNCHANGED agentRuns
              \/ worker'[w].pc = "lock" /\ UNCHANGED agentRuns
              \/ /\ worker[w].pc = "lock" /\ worker'[w].pc = "open_run"
                 /\ worker'[w].document \in Earliest(Lockable(w)) /\ UNCHANGED agentRuns
              \/ worker[w].pc = "open_run" /\ RunOpened(w)
BY SnapshotTaken, LockTaken, RunInserted DEF Claim, tables

LEMMA ClaimKeepsRuns ==
    ASSUME Inv, RunInv, NEW w \in Workers, Claim(w)
    PROVE  RunInv'
<1> USE DEF StepPc, PersistPc, ClosePc, RunPc
<1>0. IterationsAt(w)
  BY DEF RunInv
<1>1. CASE ClaimSnapshot(w)
  <2>1. /\ OthersStay(w) /\ agentRuns' = agentRuns /\ worker'[w].pc = "lock"
        /\ IterationsAt(w)'
    BY <1>0, <1>1, SnapshotTaken DEF tables, IterationsAt
  <2> QED
    BY <2>1, RunInvAfter
<1>2. CASE ClaimLock(w)
  <2>1. OthersStay(w) /\ agentRuns' = agentRuns
    BY <1>2, LockTaken DEF tables
  <2>2. \/ worker'[w] = Polling
        \/ worker'[w].pc = "open_run" /\ IterationsAt(w)'
    BY <1>0, <1>2, LockTaken DEF IterationsAt
  <2> QED
    BY <2>1, <2>2, PollingCounts, RunInvAfter
<1>3. CASE ClaimOpenRun(w)
  <2>1. /\ OthersStay(w) /\ worker[w].pc = "open_run"
        /\ \A r \in DOMAIN agentRuns : agentRuns'[r] = agentRuns[r]
    BY <1>3, RunInserted DEF RunOpened
  <2>2. CASE worker'[w] = Polling
    BY <2>1, <2>2, PollingCounts, RunInvAfter
  <2>3. CASE RunOpened(w)
    <3>1. IterationsAt(w)' /\ OwnRun(w)'
      BY <1>0, <2>1, <2>3 DEF IterationsAt, OwnRun, GivingUpPc, RunOpened
    <3> QED
      BY <2>1, <2>3, <3>1, RunInvAfter DEF RunOpened
  <2> QED
    BY <1>3, <2>2, <2>3, RunInserted
<1> QED
  BY <1>1, <1>2, <1>3 DEF Claim

LEMMA SubmitKeepsRuns ==
    ASSUME NEW u \in Reviewers, SubmitStep(u)
    PROVE  UNCHANGED agentRuns
BY DEF SubmitStep, AcceptRequest, LoadTask, SaveCorrections, ResolveTask, CloseDocument,
       AuditDecision, Attempt, NoStatement, tables, InsertBatch, Resolve, ReviewTaskWritten,
       MarkReviewed, SetStatus, DocumentWritten, AuditRecord

\* Whatever the workers, reviewers and clients do, wherever statements fail
\* and workers crash, a run is written by its worker alone.
THEOREM RunInvInductive == Inv /\ RunInv /\ [Next]_vars => RunInv'
<1> SUFFICES ASSUME Inv, RunInv, [Next]_vars PROVE RunInv'
  OBVIOUS
<1>1. CASE UNCHANGED <<worker, agentRuns>>
  BY <1>1 DEF RunInv, RunsDistinct, OwnRun, IterationsAt
<1>2. ASSUME NEW w \in Workers, WorkerStep(w) \/ Crash(w)
      PROVE  RunInv'
  <2>1. CASE Claim(w)
    BY <2>1, ClaimKeepsRuns
  <2>2. CASE Process(w) \/ Route(w) \/ Failure(w)
    BY <2>2, EffectKeepsRuns
  <2>3. CASE Crash(w)
    <3>1. OthersStay(w) /\ worker'[w] = Polling /\ agentRuns' = agentRuns
      BY <2>3, ReturnOver DEF Crash, Over, Inv, TypeOK, WorkerTypeOK, NoStatement, tables
    <3> QED
      BY <3>1, PollingCounts, RunInvAfter
  <2> QED
    BY <1>2, <2>1, <2>2, <2>3 DEF WorkerStep
<1>3. CASE Upload /\ UNCHANGED <<workerVars, review>>
  BY <1>1, <1>3 DEF Upload, CreateDocument, DocumentWritten, workerVars
<1>4. CASE ReviewNext /\ UNCHANGED workerVars
  BY <1>1, <1>4, SubmitKeepsRuns DEF ReviewNext, workerVars
<1>5. CASE UNCHANGED vars
  BY <1>1, <1>5 DEF vars, tables, workerVars
<1> QED
  BY <1>2, <1>3, <1>4, <1>5 DEF Next, WorkerNext

---------------------------------------------------------------------------
(* A run that failed early is never rewritten *)

FailedRunsStay ==
    \A r \in DOMAIN agentRuns :
        agentRuns[r].status = "FAILED" =>
            r \in DOMAIN agentRuns' /\ agentRuns'[r] = agentRuns[r]

LEMMA EffectKeepsFailed ==
    ASSUME Inv, RunInv, NEW w \in Workers, RunEffect(w), worker[w].pc \in RunPc
    PROVE  FailedRunsStay
<1>1. CASE UNCHANGED agentRuns
  BY <1>1 DEF FailedRunsStay
<1>2. CASE worker[w].pc \in OpenPc
  BY <1>2, EffectRuns DEF FailedRunsStay, RunInv, OwnRun
<1>3. \/ UNCHANGED agentRuns
      \/ worker[w].pc \in {"finish_auto", "finish_review", "fail_finish"}
  BY DEF RunEffect, SameRows, WriteMove, At, StatusWritten, DocumentSet, TaskOpened,
         BatchInserted
<1> QED
  BY <1>1, <1>2, <1>3 DEF OpenPc

LEMMA DisturbedStays ==
    ASSUME FailedRunsStay, NEW d, Disturbed(d)
    PROVE  Disturbed(d)'
BY DEF FailedRunsStay, Disturbed, EarlyFailure, RunsWith

---------------------------------------------------------------------------
(* Statuses and their owners *)

\* A step of a run writes its own document's row only, and no status once
\* the run has given the document up.
LEMMA EffectDocuments ==
    ASSUME NEW w \in Workers, RunEffect(w)
    PROVE  /\ DOMAIN documents' = DOMAIN documents
           /\ \A e \in DOMAIN documents :
                 e # worker[w].document \/ worker[w].pc \notin OwningPc =>
                     documents'[e] = documents[e]
BY DEF RunEffect, SameRows, WriteMove, At, StatusWritten, DocumentSet, TaskOpened,
       BatchInserted, RunFinished, OwningPc, OpenPc, GivingUpPc, StepPc, PersistPc

LEMMA EffectOwns ==
    ASSUME NEW w \in Workers, RunEffect(w), worker'[w].pc \in OwningPc
    PROVE  /\ worker[w].pc \in OwningPc
           /\ worker'[w].document = worker[w].document
<1> USE DEF OwningPc, OpenPc, GivingUpPc, StepPc, PersistPc, At, GoesToOne, Goes, Over, Polling
<1>1. CASE ReadMove(w) \/ ErrorMove(w)
  BY <1>1 DEF ReadMove, ErrorMove
<1>2. CASE FailMove(w)
  BY <1>2 DEF FailMove, CanFail
<1>3. CASE WriteMove(w)
  BY <1>3 DEF WriteMove
<1> QED
  BY <1>1, <1>2, <1>3 DEF RunEffect

LEMMA StagesActive ==
    ASSUME NEW pc
    PROVE  StageAt(pc) \subseteq Active
BY DEF StageAt, Active

\* A step of a run takes the document of its worker from stage to stage.
LEMMA EffectStages ==
    ASSUME Inv, NEW w \in Workers, RunEffect(w), worker[w].pc \in RunPc,
           Staged(w), IterationsAt(w), \A d : Disturbed(d) => Disturbed(d)'
    PROVE  Staged(w)'
<1> SUFFICES ASSUME worker'[w].pc \in OwningPc, NEW d, d = worker[w].document,
                    ~Disturbed(d)'
             PROVE  /\ documents'[d].status \in StageAt(worker'[w].pc)
                    /\ worker'[w].pc \in {"fail_finish"} \cup GivingUpPc
                          /\ worker'[w].iterations >= 3
                       => documents'[d].status # "UPLOADED"
  BY EffectOwns DEF Staged
<1>1. /\ worker[w].iterations \in Nat /\ d \in DOMAIN documents
      /\ documents[d] \in Document
  BY RunFacts, ElementOfSeq DEF WorkerState, TablesOK
<1>2. /\ documents[d].status \in StageAt(worker[w].pc)
      /\ worker[w].pc \in {"fail_finish"} \cup GivingUpPc /\ worker[w].iterations >= 3 =>
            documents[d].status # "UPLOADED"
  <2>1. ~Disturbed(d) /\ worker[w].pc \in OwningPc
    BY EffectOwns
  <2> QED
    BY <2>1 DEF Staged
<1> USE DEF StepPc, PersistPc, At, GoesToOne, Goes, Over, Polling, StageAt, GivingUpPc
<1>3. CASE SameRows /\ ReadMove(w)
  BY <1>1, <1>2, <1>3 DEF SameRows, ReadMove
<1>4. CASE SameRows /\ ErrorMove(w)
  BY <1>1, <1>2, <1>4 DEF SameRows, ErrorMove, OwningPc, OpenPc
<1>5. CASE SameRows /\ FailMove(w)
  <2>1. /\ UNCHANGED documents /\ worker'[w].pc = "fail_finish"
        /\ worker'[w].iterations = worker[w].iterations
        /\ worker[w].pc \in CanFail
    BY <1>1, <1>5 DEF SameRows, FailMove
  <2>2. documents[d].status \in Active
    BY <1>2, StagesActive
  <2>3. ASSUME worker[w].iterations >= 3 PROVE documents[d].status # "UPLOADED"
    <3>1. worker[w].pc \in CanFail \ {"load", "run_ocr", "classify", "mark_classified"}
      BY <1>1, <2>1, <2>3 DEF IterationsAt
    <3> QED
      BY <1>2, <3>1 DEF CanFail
  <2> QED
    BY <2>1, <2>2, <2>3
<1>6. CASE WriteMove(w)
  <2>1. ASSUME NEW s, StatusWritten(d, s)
        PROVE  documents'[d].status = s
    BY <1>1, <2>1 DEF StatusWritten, DocumentSet, Document
  <2>2. ASSUME DocumentSet(d, [documents[d] EXCEPT !.key = worker[w].key])
        PROVE  documents'[d].status = documents[d].status
    BY <1>1, <2>2 DEF DocumentSet, Document
  <2>3. ASSUME DocumentSet(d, [documents[d] EXCEPT !.duplicateOf = worker[w].duplicateOf])
        PROVE  documents'[d].status = documents[d].status
    BY <1>1, <2>3 DEF DocumentSet, Document
  <2>4. CASE worker[w].pc \in {"insert_fields", "create_task", "fail_finish"}
    <3>1. UNCHANGED documents
      BY <1>6, <2>4 DEF WriteMove, BatchInserted, TaskOpened, RunFinished
    <3> QED
      BY <1>1, <1>2, <1>6, <2>4, <3>1 DEF WriteMove, Active
  <2>5. CASE \/ At(w, "set_key") \/ At(w, "mark_duplicate")
    BY <1>1, <1>2, <1>6, <2>2, <2>3, <2>5 DEF WriteMove
  <2>6. CASE \/ At(w, "mark_classified") \/ At(w, "mark_extracted") \/ At(w, "mark_validated")
    BY <1>1, <1>2, <1>6, <2>1, <2>6 DEF WriteMove
  <2>7. worker[w].pc \notin {"finalize", "mark_pending", "fail_requeue", "fail_mark",
                              "finish_auto", "finish_review"}
    BY <1>6 DEF WriteMove, OwningPc, OpenPc
  <2> QED
    BY <1>6, <2>4, <2>5, <2>6, <2>7 DEF WriteMove
<1> QED
  BY <1>3, <1>4, <1>5, <1>6 DEF RunEffect

---------------------------------------------------------------------------
(* Owners keep to themselves *)

\* Where the invariant holds, two owners of a document are one, and a
\* document under review has none.
LEMMA OwnersApart ==
    ASSUME StageInv, NEW w \in Workers, worker[w].pc \in OwningPc,
           ~Disturbed(worker[w].document)
    PROVE  /\ documents[worker[w].document].status \in Active
           /\ \A v \in Workers :
                 worker[v].pc \in OwningPc /\ worker[v].document = worker[w].document => v = w
           /\ \A u \in Reviewers :
                 ~Reviewing(u, "idle") => review[u].document # worker[w].document
BY StagesActive DEF StageInv, Staged, OneOwner, UnderReview, Active

LEMMA EffectKeepsStages ==
    ASSUME Inv, RunInv, StageInv, NEW w \in Workers, Process(w) \/ Route(w) \/ Failure(w),
           UNCHANGED review
    PROVE  StageInv'
<1>1. RunEffect(w) /\ worker[w].pc \in RunPc /\ worker[w].document \in DOMAIN documents
  BY RunEffects, RunPcs, RunFacts
<1>2. \A d : Disturbed(d) => Disturbed(d)'
  BY <1>1, EffectKeepsFailed, DisturbedStays
<1>3. /\ OthersStay(w)
      /\ worker'[w].pc \in OwningPc => /\ worker[w].pc \in OwningPc
                                       /\ worker'[w].document = worker[w].document
  BY <1>1, EffectMoves, EffectOwns
<1>4. /\ DOMAIN documents' = DOMAIN documents
      /\ \A e \in DOMAIN documents :
            e # worker[w].document \/ worker[w].pc \notin OwningPc =>
                documents'[e] = documents[e]
  BY <1>1, EffectDocuments
<1>5. ASSUME NEW v \in Workers PROVE Staged(v)'
  <2>1. CASE v = w
    BY <1>1, <1>2, <2>1, EffectStages DEF StageInv, RunInv
  <2>2. CASE v # w
    <3> SUFFICES ASSUME NEW d, d = worker[v].document, worker[v].pc \in OwningPc,
                        ~Disturbed(d)'
                 PROVE  /\ documents'[d].status \in StageAt(worker[v].pc)
                        /\ worker[v].pc \in {"fail_finish"} \cup GivingUpPc
                              /\ worker[v].iterations >= 3
                           => documents'[d].status # "UPLOADED"
      BY <1>3, <2>2 DEF OthersStay, Staged
    <3>1. ~Disturbed(d) /\ d \in DOMAIN documents
      BY <1>2 DEF Inv, TypeOK, WorkerRowsExist, OwningPc, OpenPc, RunPc, ClosePc, GivingUpPc
    <3>2. documents'[d] = documents[d]
      BY <1>4, <2>2, <3>1, OwnersApart
    <3> QED
      BY <3>1, <3>2 DEF StageInv, Staged
  <2> QED
    BY <2>1, <2>2
<1>6. OneOwner'
  <2> SUFFICES ASSUME NEW u \in Workers, NEW v \in Workers,
                      worker'[u].pc \in OwningPc, worker'[v].pc \in OwningPc,
                      NEW d, d = worker'[u].document, d = worker'[v].document, ~Disturbed(d)'
               PROVE  u = v
    BY DEF OneOwner
  <2>1. /\ worker[u].pc \in OwningPc /\ worker[u].document = d
        /\ worker[v].pc \in OwningPc /\ worker[v].document = d
        /\ ~Disturbed(d)
    BY <1>2, <1>3 DEF OthersStay
  <2> QED
    BY <2>1 DEF StageInv, OneOwner
<1>7. UnderReview'
  <2> SUFFICES ASSUME NEW u \in Reviewers, ~Reviewing(u, "idle"),
                      NEW d, d = review[u].document, ~Disturbed(d)'
               PROVE  documents'[d].status \in {"PENDING_REVIEW", "REVIEWED"}
    BY DEF UnderReview, Reviewing
  <2>1. ~Disturbed(d) /\ d \in DOMAIN documents
    BY <1>2 DEF Inv, TypeOK, ReviewRowsExist, Reviewing
  <2>2. documents'[d] = documents[d]
    BY <1>4, <2>1, OwnersApart
  <2> QED
    BY <2>1, <2>2 DEF StageInv, UnderReview
<1> QED
  BY <1>5, <1>6, <1>7 DEF StageInv

\* What changes neither the rows the invariant reads nor any owner but one
\* that stops or goes on with its document keeps the invariant.
LEMMA StageInvAfter ==
    ASSUME Inv, StageInv, NEW w \in Workers, OthersStay(w), UNCHANGED <<documents, review>>,
           \A d : Disturbed(d) => Disturbed(d)',
           worker'[w].pc \in OwningPc =>
               /\ Staged(w)'
               /\ \A v \in Workers :
                     /\ worker[v].pc \in OwningPc
                     /\ worker[v].document = worker'[w].document
                     /\ ~Disturbed(worker[v].document)
                     => v = w
    PROVE  StageInv'
<1>1. ASSUME NEW v \in Workers, v # w
      PROVE  worker'[v] = worker[v] /\ Staged(v)'
  <2>1. worker'[v] = worker[v]
    BY <1>1 DEF OthersStay
  <2>2. Staged(v)
    BY DEF StageInv
  <2> QED
    BY <2>1, <2>2 DEF Staged
<1>2. Staged(w)'
  BY DEF Staged
<1>3. OneOwner'
  <2> SUFFICES ASSUME NEW u \in Workers, NEW v \in Workers,
                      worker'[u].pc \in OwningPc, worker'[v].pc \in OwningPc,
                      NEW d, d = worker'[u].document, d = worker'[v].document, ~Disturbed(d)'
               PROVE  u = v
    BY DEF OneOwner
  <2>1. ~Disturbed(d)
    OBVIOUS
  <2>2. CASE u # w /\ v # w
    BY <1>1, <2>1, <2>2 DEF StageInv, OneOwner
  <2>3. CASE u = w \/ v = w
    BY <1>1, <2>1, <2>3
  <2> QED
    BY <2>2, <2>3
<1>4. UnderReview'
  <2> SUFFICES ASSUME NEW u \in Reviewers, ~Reviewing(u, "idle"),
                      NEW d, d = review[u].document, ~Disturbed(d)'
               PROVE  documents[d].status \in {"PENDING_REVIEW", "REVIEWED"}
    BY DEF UnderReview, Reviewing
  <2> QED
    BY DEF StageInv, UnderReview
<1> QED
  BY <1>1, <1>2, <1>3, <1>4 DEF StageInv

\* A claimed document has no owner yet.
LEMMA LockedIsUnowned ==
    ASSUME Inv, RunInv, ClaimInv, StageInv,
           NEW w \in Workers, worker[w].pc = "lock", NEW d \in Lockable(w),
           NEW v \in Workers, worker[v].pc \in OwningPc, worker[v].document = d,
           ~Disturbed(d)
    PROVE  v = w
<1>1. /\ Unclaimed(d) /\ documents[d].status = "UPLOADED"
      /\ worker[v].pc \in ClaimPc => v = w
  BY DEF ClaimInv, Lockable, ClaimPc
<1>2. worker[v].pc \in {"open_run"} \cup OpenPc \cup GivingUpPc
  BY DEF OwningPc
<1>3. CASE worker[v].pc \in OpenPc \cup GivingUpPc
  <2>1. worker[v].pc \in RunPc
    BY <1>3 DEF OpenPc, GivingUpPc, RunPc, ClosePc
  <2>2. /\ worker[v].run \in DOMAIN agentRuns
        /\ agentRuns[worker[v].run].document = d
    BY <2>1 DEF Inv, TypeOK, WorkerRowsExist
  <2>3. agentRuns[worker[v].run].status # "RUNNING"
    BY <1>1, <2>2 DEF Unclaimed, RunsWith
  <2>4. /\ worker[v].pc \in GivingUpPc
        /\ agentRuns[worker[v].run].status = "FAILED"
        /\ agentRuns[worker[v].run].iterations = worker[v].iterations
    BY <1>3, <2>1, <2>3 DEF RunInv, OwnRun
  <2>5. worker[v].iterations \in Nat
    BY DEF Inv, TypeOK, WorkerTypeOK, WorkerState
  <2>6. worker[v].iterations < 3
    BY <1>1, <2>4, <2>5 DEF StageInv, Staged
  <2>7. EarlyFailure(d)
    BY <2>2, <2>4, <2>6 DEF EarlyFailure, RunsWith
  <2> QED
    BY <2>7 DEF Disturbed, Solo
<1>4. CASE worker[v].pc = "open_run"
  BY <1>1, <1>4 DEF ClaimPc
<1> QED
  BY <1>2, <1>3, <1>4

LEMMA ClaimKeepsStages ==
    ASSUME Inv, RunInv, ClaimInv, StageInv, NEW w \in Workers, Claim(w), UNCHANGED review
    PROVE  StageInv'
<1>1. CASE ClaimSnapshot(w)
  <2>1. /\ OthersStay(w) /\ UNCHANGED <<documents, agentRuns>> /\ worker'[w].pc = "lock"
    BY <1>1, SnapshotTaken DEF tables
  <2>2. worker'[w].pc \notin OwningPc /\ \A d : Disturbed(d) => Disturbed(d)'
    BY <2>1, DisturbedStays
    DEF OwningPc, OpenPc, StepPc, PersistPc, GivingUpPc, FailedRunsStay
  <2> QED
    BY <2>1, <2>2, StageInvAfter
<1>2. CASE ClaimLock(w)
  <2>1. /\ OthersStay(w) /\ UNCHANGED <<documents, agentRuns>> /\ worker[w].pc = "lock"
    BY <1>2, LockTaken DEF tables
  <2>2. \A d : Disturbed(d) => Disturbed(d)'
    BY <2>1, DisturbedStays DEF FailedRunsStay
  <2>3. CASE worker'[w] = Polling
    BY <2>1, <2>2, <2>3, PollingCounts, StageInvAfter
  <2>4. CASE worker'[w].pc = "open_run" /\ worker'[w].document \in Earliest(Lockable(w))
    <3>1. worker'[w].document \in Lockable(w)
      BY <2>4 DEF Earliest
    <3>2. documents[worker'[w].document].status = "UPLOADED"
      BY <3>1 DEF Lockable
    <3>3. Staged(w)'
      BY <2>1, <2>4, <3>2 DEF Staged, StageAt, GivingUpPc
    <3>4. ASSUME NEW v \in Workers, worker[v].pc \in OwningPc,
                 worker[v].document = worker'[w].document, ~Disturbed(worker[v].document)
          PROVE  v = w
      BY <2>1, <3>1, <3>4, LockedIsUnowned
    <3> QED
      BY <2>1, <2>2, <3>3, <3>4, StageInvAfter
  <2> QED
    BY <1>2, <2>3, <2>4, LockTaken
<1>3. CASE ClaimOpenRun(w)
  <2>1. /\ OthersStay(w) /\ worker[w].pc = "open_run" /\ UNCHANGED documents
        /\ \A r \in DOMAIN agentRuns :
              r \in DOMAIN agentRuns' /\ agentRuns'[r] = agentRuns[r]
        /\ \/ worker'[w] = Polling
           \/ worker'[w].pc = "load" /\ worker'[w].document = worker[w].document
    BY <1>3, RunInserted DEF RunOpened
  <2>2. \A d : Disturbed(d) => Disturbed(d)'
    BY <2>1, DisturbedStays DEF FailedRunsStay
  <2>3. CASE worker'[w] = Polling
    BY <2>1, <2>2, <2>3, PollingCounts, StageInvAfter
  <2>4. CASE worker'[w].pc = "load" /\ worker'[w].document = worker[w].document
    <3>1. worker[w].pc \in OwningPc
      BY <2>1 DEF OwningPc
    <3>2. Staged(w)'
      <4> SUFFICES ASSUME NEW d, d = worker[w].document, ~Disturbed(d)'
                   PROVE  documents[d].status = "UPLOADED"
        BY <2>1, <2>4 DEF Staged, StageAt, GivingUpPc
      <4> QED
        BY <2>1, <2>2, <3>1 DEF StageInv, Staged, StageAt
    <3>3. ASSUME NEW v \in Workers, worker[v].pc \in OwningPc,
                 worker[v].document = worker'[w].document, ~Disturbed(worker[v].document)
          PROVE  v = w
      BY <2>4, <3>1, <3>3 DEF StageInv, OneOwner
    <3> QED
      BY <2>1, <2>2, <3>2, <3>3, StageInvAfter
  <2> QED
    BY <2>1, <2>3, <2>4
<1> QED
  BY <1>1, <1>2, <1>3 DEF Claim

---------------------------------------------------------------------------
(* What a step of a review request does *)

Continues(u, pc) ==
    /\ review'[u].pc = pc
    /\ review'[u].document = review[u].document
    /\ review'[u].task = review[u].task
    /\ review'[u].decision = review[u].decision

TaskResolved(t, s) ==
    /\ DOMAIN reviewTasks' = DOMAIN reviewTasks
    /\ \A q \in DOMAIN reviewTasks : q # t => reviewTasks'[q] = reviewTasks[q]
    /\ reviewTasks'[t].document = reviewTasks[t].document
    /\ reviewTasks'[t].status = s
    /\ UNCHANGED <<documents, agentRuns, extractedFields>>

ReviewEffect(u) ==
    /\ \A v \in Reviewers \ {u} : review'[v] = review[v]
    /\ \/ /\ Reviewing(u, "idle") /\ SameRows
          /\ review'[u].pc = "load_task" /\ review'[u].document \in DOMAIN documents
          /\ documents[review'[u].document].status = "PENDING_REVIEW"
       \/ /\ Reviewing(u, "load_task") /\ SameRows
          /\ review'[u].document = review[u].document
          /\ review'[u].decision = review[u].decision
          /\ review'[u].task \in GetPendingByDocument(review[u].document)
          /\ review'[u].pc = IF review[u].decision = "correct" THEN "save_fields" ELSE "resolve"
       \/ /\ Reviewing(u, "save_fields") /\ Continues(u, "resolve")
          /\ BatchInserted(review[u].document, u)
       \/ /\ Reviewing(u, "resolve") /\ Continues(u, "mark_reviewed")
          /\ TaskResolved(review[u].task, ReviewStatusOf[review[u].decision])
          /\ reviewTasks'[review[u].task].reviewedBy = u
       \/ /\ Reviewing(u, "mark_reviewed") /\ Continues(u, "audit")
          /\ StatusWritten(review[u].document, "REVIEWED")
       \/ /\ review'[u] = NoRequest /\ SameRows
          /\ \/ Reviewing(u, "audit")
             \/ Reviewing(u, "load_task") /\ PendingTasks(review[u].document) = {}
             \/ databaseErrors < MaxDatabaseErrors

LEMMA TaskSet ==
    ASSUME TablesOK, NEW t \in DOMAIN reviewTasks, NEW s, NEW u, Resolve(t, s, u)
    PROVE  TaskResolved(t, s) /\ reviewTasks'[t].reviewedBy = u
<1> DEFINE row == [reviewTasks[t] EXCEPT !.status = s, !.reviewedBy = u]
<1>1. row.document = reviewTasks[t].document /\ row.status = s /\ row.reviewedBy = u
  BY ElementOfSeq DEF TablesOK, ReviewTask
<1>2. reviewTasks' = [reviewTasks EXCEPT ![t] = row] /\ ReviewTaskWritten
  BY DEF Resolve
<1> HIDE DEF row
<1> QED
  BY <1>1, <1>2 DEF TaskResolved, ReviewTaskWritten, TablesOK

LEMMA ProceedContinues ==
    ASSUME Inv, NEW u \in Reviewers, NEW pc, Proceed(u, pc)
    PROVE  Continues(u, pc) /\ \A v \in Reviewers \ {u} : review'[v] = review[v]
<1>1. /\ review[u] \in ReviewState
      /\ review'[u] = [review[u] EXCEPT !.pc = pc]
      /\ \A v \in Reviewers \ {u} : review'[v] = review[v]
  BY DEF Proceed, Inv, TypeOK, ReviewTypeOK
<1> QED
  BY <1>1 DEF Continues, ReviewState

LEMMA ReviewEffects ==
    ASSUME Inv, NEW u \in Reviewers, SubmitStep(u)
    PROVE  ReviewEffect(u)
<1>1. /\ TablesOK /\ databaseErrors \in Nat /\ review \in [Reviewers -> ReviewState]
      /\ review[u] \in ReviewState /\ ReviewRowsExist
  BY DEF Inv, TypeOK, TablesOK, DatabaseTypeOK, ReviewTypeOK
<1>2. UNCHANGED tables => SameRows
  BY DEF tables, SameRows
<1>3. ASSUME Respond(u)
      PROVE  review'[u] = NoRequest /\ \A v \in Reviewers \ {u} : review'[v] = review[v]
  BY <1>1, <1>3 DEF Respond
<1>5. CASE UNCHANGED tables /\ Respond(u) /\ databaseErrors < MaxDatabaseErrors
  BY <1>2, <1>3, <1>5 DEF ReviewEffect
<1>6. CASE AcceptRequest(u)
  <2>1. PICK d \in DOMAIN documents, decision \in Decisions :
          /\ documents[d].status = "PENDING_REVIEW"
          /\ review' = [review EXCEPT ![u] =
              [pc |-> "load_task", document |-> d, task |-> 0, decision |-> decision]]
    BY <1>6 DEF AcceptRequest
  <2>2. /\ review'[u].pc = "load_task" /\ review'[u].document = d
        /\ \A v \in Reviewers \ {u} : review'[v] = review[v]
    BY <1>1, <2>1
  <2> QED
    BY <1>2, <1>6, <2>1, <2>2 DEF AcceptRequest, NoStatement, ReviewEffect
<1>7. CASE LoadTask(u)
  <2>1. ASSUME NEW t \in GetPendingByDocument(review[u].document),
               review' = [review EXCEPT ![u] =
                    [@ EXCEPT !.task = t,
                              !.pc = IF review[u].decision = "correct"
                                     THEN "save_fields" ELSE "resolve"]]
        PROVE  /\ review'[u].document = review[u].document /\ review'[u].task = t
               /\ review'[u].decision = review[u].decision
               /\ review'[u].pc = IF review[u].decision = "correct"
                                  THEN "save_fields" ELSE "resolve"
               /\ \A v \in Reviewers \ {u} : review'[v] = review[v]
    BY <1>1, <2>1 DEF ReviewState
  <2> QED
    BY <1>2, <1>3, <1>5, <1>7, <2>1 DEF LoadTask, Attempt, ReviewEffect
<1>8. CASE SaveCorrections(u)
  BY <1>1, <1>5, <1>8, ProceedContinues, BatchWritten
  DEF SaveCorrections, Attempt, ReviewEffect
<1>9. CASE ResolveTask(u)
  <2>1. Reviewing(u, "resolve") /\ review[u].task \in DOMAIN reviewTasks
    BY <1>1, <1>9 DEF ResolveTask, Reviewing, ReviewRowsExist
  <2> QED
    BY <1>1, <1>5, <1>9, <2>1, ProceedContinues, TaskSet
    DEF ResolveTask, Attempt, ReviewEffect
<1>10. CASE CloseDocument(u)
  <2>1. Reviewing(u, "mark_reviewed") /\ review[u].document \in DOMAIN documents
    BY <1>1, <1>10 DEF CloseDocument, Reviewing, ReviewRowsExist
  <2> QED
    BY <1>1, <1>5, <1>10, <2>1, ProceedContinues, StatusSet
    DEF CloseDocument, MarkReviewed, Attempt, ReviewEffect
<1>11. CASE AuditDecision(u)
  BY <1>2, <1>3, <1>5, <1>11
  DEF AuditDecision, Attempt, AuditRecord, SameRows, ReviewEffect
<1> QED
  BY <1>6, <1>7, <1>8, <1>9, <1>10, <1>11 DEF SubmitStep

LEMMA ReviewKeepsStages ==
    ASSUME Inv, StageInv, NEW u \in Reviewers, SubmitStep(u), UNCHANGED workerVars
    PROVE  StageInv'
<1>1. /\ ReviewEffect(u) /\ UNCHANGED <<worker, agentRuns>>
  BY ReviewEffects, SubmitKeepsRuns DEF workerVars
<1>2. \A d : Disturbed(d)' <=> Disturbed(d)
  BY <1>1 DEF Disturbed, EarlyFailure, RunsWith
<1>3. \/ UNCHANGED documents /\ review'[u] = NoRequest
      \/ /\ UNCHANGED documents
         /\ documents[review'[u].document].status = "PENDING_REVIEW"
      \/ /\ UNCHANGED documents /\ review[u].pc # "idle"
         /\ review'[u].document = review[u].document
      \/ /\ Reviewing(u, "mark_reviewed") /\ Continues(u, "audit")
         /\ StatusWritten(review[u].document, "REVIEWED")
  BY <1>1 DEF ReviewEffect, SameRows, BatchInserted, TaskResolved, Continues, Reviewing
<1>4. CASE UNCHANGED documents
  <2>1. /\ \A w \in Workers : Staged(w)'
        /\ OneOwner'
    BY <1>1, <1>2, <1>4 DEF StageInv, Staged, OneOwner
  <2>2. ASSUME NEW v \in Reviewers, review'[v].pc # "idle",
               NEW d, d = review'[v].document, ~Disturbed(d)
        PROVE  documents[d].status \in {"PENDING_REVIEW", "REVIEWED"}
    <3>1. CASE review[v].pc # "idle" /\ review[v].document = d
      BY <2>2, <3>1 DEF StageInv, UnderReview, Reviewing
    <3>2. CASE v = u /\ documents[d].status = "PENDING_REVIEW"
      BY <3>2
    <3>3. CASE v # u
      BY <1>1, <2>2, <3>1, <3>3 DEF ReviewEffect
    <3> QED
      BY <1>3, <1>4, <2>2, <3>1, <3>2, <3>3 DEF NoRequest, Reviewing, Continues
  <2> QED
    BY <1>2, <1>4, <2>1, <2>2 DEF StageInv, UnderReview, Reviewing
<1>5. CASE /\ Reviewing(u, "mark_reviewed") /\ Continues(u, "audit")
           /\ StatusWritten(review[u].document, "REVIEWED")
  <2> DEFINE e == review[u].document
  <2>1. /\ e \in DOMAIN documents /\ documents[e] \in Document
    BY <1>5, ElementOfSeq
    DEF Inv, TypeOK, DatabaseTypeOK, ReviewRowsExist, Reviewing
  <2>2. /\ documents'[e].status = "REVIEWED"
        /\ \A d \in DOMAIN documents : d # e => documents'[d] = documents[d]
    BY <1>5, <2>1 DEF StatusWritten, DocumentSet, Document
  <2>3. ASSUME NEW w \in Workers PROVE Staged(w)'
    <3> SUFFICES ASSUME NEW d, d = worker[w].document, worker[w].pc \in OwningPc,
                        ~Disturbed(d)
                 PROVE  /\ documents'[d].status \in StageAt(worker[w].pc)
                        /\ worker[w].pc \in {"fail_finish"} \cup GivingUpPc
                              /\ worker[w].iterations >= 3
                           => documents'[d].status # "UPLOADED"
      BY <1>1, <1>2 DEF Staged
    <3>1. d # e /\ d \in DOMAIN documents
      BY <1>5, OwnersApart
      DEF Inv, TypeOK, WorkerRowsExist, OwningPc, OpenPc, RunPc, ClosePc, GivingUpPc,
          Reviewing
    <3> QED
      BY <2>2, <3>1 DEF StageInv, Staged
  <2>4. OneOwner'
    BY <1>1, <1>2 DEF StageInv, OneOwner
  <2>5. ASSUME NEW v \in Reviewers, review'[v].pc # "idle",
               NEW d, d = review'[v].document, ~Disturbed(d)
        PROVE  documents'[d].status \in {"PENDING_REVIEW", "REVIEWED"}
    <3>1. review[v].pc # "idle" /\ review[v].document = d
      BY <1>1, <1>5, <2>5 DEF ReviewEffect, Continues, Reviewing
    <3>2. d \in DOMAIN documents
      BY <3>1 DEF Inv, TypeOK, ReviewRowsExist
    <3> QED
      BY <2>2, <2>5, <3>1, <3>2 DEF StageInv, UnderReview, Reviewing
  <2> QED
    BY <1>2, <2>3, <2>4, <2>5 DEF StageInv, UnderReview, Reviewing
<1> QED
  BY <1>3, <1>4, <1>5

\* A new row, at the end
LEMMA DocumentCreated ==
    ASSUME Inv, Upload
    PROVE  LET n == Len(documents) + 1
           IN  /\ DOMAIN documents' = DOMAIN documents \cup {n}
               /\ n \notin DOMAIN documents /\ n \in DocumentIds
               /\ \A e \in DOMAIN documents : e < n /\ documents'[e] = documents[e]
               /\ documents'[n].status = "UPLOADED"
               /\ documents'[n].key = NoKey /\ documents'[n].duplicateOf = 0
               /\ UNCHANGED <<agentRuns, reviewTasks, extractedFields>>
<1>1. PICK content \in Contents : CreateDocument(content)
  BY DEF Upload
<1> DEFINE row == [status |-> "UPLOADED", content |-> content,
                   key |-> NoKey, duplicateOf |-> 0]
<1>2. documents' = Append(documents, row) /\ DocumentWritten
  BY <1>1 DEF CreateDocument
<1>3. row.status = "UPLOADED" /\ row.key = NoKey /\ row.duplicateOf = 0
  OBVIOUS
<1>4. documents \in Seq(Document)
  BY DEF Inv, TypeOK, DatabaseTypeOK
<1> HIDE DEF row
<1>5. /\ DOMAIN documents = 1..Len(documents)
      /\ DOMAIN documents' = 1..(Len(documents) + 1)
      /\ \A t \in 1..Len(documents) : documents'[t] = documents[t]
      /\ documents'[Len(documents) + 1] = row
      /\ Len(documents) \in Nat
  BY <1>2, <1>4, AppendProperties, LenProperties
<1> QED
  BY <1>2, <1>3, <1>5, DatabaseAssumption DEF Upload, DocumentWritten, DocumentIds

LEMMA UploadKeepsStages ==
    ASSUME Inv, StageInv, Upload, UNCHANGED <<workerVars, review>>
    PROVE  StageInv'
<1>1. /\ \A d \in DOMAIN documents : documents'[d] = documents[d]
      /\ UNCHANGED <<worker, review, agentRuns>>
  BY DocumentCreated DEF workerVars
<1>2. \A d : Disturbed(d)' <=> Disturbed(d)
  BY <1>1 DEF Disturbed, EarlyFailure, RunsWith
<1>3. ASSUME NEW w \in Workers PROVE Staged(w)'
  <2>1. worker[w].pc \in OwningPc => worker[w].document \in DOMAIN documents
    BY DEF Inv, TypeOK, WorkerRowsExist, OwningPc, OpenPc, RunPc, ClosePc, GivingUpPc
  <2> QED
    BY <1>1, <1>2, <2>1 DEF StageInv, Staged
<1>4. OneOwner'
  BY <1>1, <1>2 DEF StageInv, OneOwner
<1>5. UnderReview'
  <2>1. \A u \in Reviewers :
          ~Reviewing(u, "idle") => review[u].document \in DOMAIN documents
    BY DEF Inv, TypeOK, ReviewRowsExist, Reviewing
  <2> QED
    BY <1>1, <1>2, <2>1 DEF StageInv, UnderReview, Reviewing
<1> QED
  BY <1>3, <1>4, <1>5 DEF StageInv

LEMMA CrashKeepsStages ==
    ASSUME Inv, StageInv, NEW w \in Workers, Crash(w), UNCHANGED review
    PROVE  StageInv'
<1>1. /\ OthersStay(w) /\ worker'[w] = Polling /\ UNCHANGED <<documents, agentRuns>>
  BY ReturnOver DEF Crash, Over, Inv, TypeOK, WorkerTypeOK, NoStatement, tables
<1>2. \A d : Disturbed(d) => Disturbed(d)'
  BY <1>1, DisturbedStays DEF FailedRunsStay
<1> QED
  BY <1>1, <1>2, PollingCounts, StageInvAfter

\* Where claims do not overlap, a document whose runs did not fail early has
\* one owner at most, and is at the stage of its owner's run.
THEOREM StageInvInductive ==
    ASSUME ClaimsApart
    PROVE  Inv /\ ClaimInv /\ RunInv /\ StageInv /\ [Next]_vars => StageInv'
<1> SUFFICES ASSUME Inv, ClaimInv, RunInv, StageInv, [Next]_vars PROVE StageInv'
  OBVIOUS
<1>1. ASSUME NEW w \in Workers, WorkerStep(w) \/ Crash(w), UNCHANGED review
      PROVE  StageInv'
  BY <1>1, ClaimKeepsStages, EffectKeepsStages, CrashKeepsStages DEF WorkerStep
<1>2. CASE Upload /\ UNCHANGED <<workerVars, review>>
  BY <1>2, UploadKeepsStages
<1>3. CASE ReviewNext /\ UNCHANGED workerVars
  BY <1>3, ReviewKeepsStages DEF ReviewNext
<1>4. CASE UNCHANGED vars
  BY <1>4
  DEF vars, tables, workerVars, StageInv, Staged, OneOwner, UnderReview, Reviewing,
      Disturbed, EarlyFailure, RunsWith
<1> QED
  BY <1>1, <1>2, <1>3, <1>4 DEF Next, WorkerNext

PipelineInv == Inv /\ ClaimInv /\ RunInv /\ StageInv

\* Each worker has a run of its own, whatever claims do.
LEMMA RunInvHolds == Spec => [](Inv /\ RunInv)
<1>1. Init => RunInv
  <2> SUFFICES ASSUME Init PROVE RunInv
    OBVIOUS
  <2>1. \A w \in Workers : worker[w].pc = "poll" /\ worker[w].iterations = 0
    BY DEF Init, WorkerInit, Polling
  <2>2. "poll" \notin RunPc
    BY PcFacts
  <2> QED
    BY <2>1, <2>2 DEF RunInv, RunsDistinct, IterationsAt, StepPc, PersistPc
<1>2. Inv /\ RunInv /\ [Next]_vars => RunInv'
  BY RunInvInductive
<1> QED
  BY <1>1, <1>2, InvHolds, PTL DEF Spec

\* So all of it holds throughout.
THEOREM PipelineInvHolds ==
    ASSUME ClaimsApart
    PROVE  Spec => []PipelineInv
<1>1. Init => ClaimInv
  BY DEF Init, DatabaseInit, WorkerInit, Polling, ClaimInv, ClaimPc, OneRunningRun
<1>2. Init => StageInv
  <2> SUFFICES ASSUME Init PROVE StageInv
    OBVIOUS
  <2>1. \A w \in Workers : worker[w].pc = "poll"
    BY DEF Init, WorkerInit, Polling
  <2>2. \A u \in Reviewers : review[u].pc = "idle"
    BY DEF Init, ReviewInit, NoRequest
  <2>3. "poll" \notin RunPc /\ "poll" \notin OwningPc
    BY PcFacts DEF OwningPc, OpenPc, StepPc, PersistPc, GivingUpPc
  <2> QED
    BY <2>1, <2>2, <2>3 DEF StageInv, Staged, OneOwner, UnderReview, Reviewing
<1>3. PipelineInv /\ [Next]_vars => PipelineInv'
  BY InvInductive, ClaimInvInductive, RunInvInductive, StageInvInductive DEF PipelineInv
<1> QED
  BY <1>1, <1>2, <1>3, RunInvHolds, PTL DEF Spec, PipelineInv

---------------------------------------------------------------------------
(* Settled documents *)

LEMMA SettledKept ==
    ASSUME PipelineInv, [Next]_vars, NEW d \in DOMAIN documents, ~Disturbed(d)
    PROVE  SettledFor(d)
<1> SUFFICES ASSUME documents[d].status \in Settled
             PROVE  \/ documents'[d].status = documents[d].status
                    \/ /\ documents[d].status = "PENDING_REVIEW"
                       /\ documents'[d].status = "REVIEWED"
  BY DEF SettledFor
<1> USE DEF PipelineInv
<1>1. ASSUME NEW w \in Workers, WorkerStep(w) \/ Crash(w), UNCHANGED review
      PROVE  documents'[d] = documents[d]
  <2>1. CASE Claim(w)
    BY <2>1, SnapshotTaken, LockTaken, RunInserted DEF Claim, tables
  <2>2. CASE Process(w) \/ Route(w) \/ Failure(w)
    <3>1. d # worker[w].document \/ worker[w].pc \notin OwningPc
      BY OwnersApart DEF Active, Settled
    <3> QED
      BY <2>2, <3>1, RunEffects, EffectDocuments
  <2>3. CASE Crash(w)
    BY <2>3 DEF Crash, NoStatement, tables
  <2> QED
    BY <1>1, <2>1, <2>2, <2>3 DEF WorkerStep
<1>2. CASE Upload
  BY <1>2, DocumentCreated
<1>3. ASSUME NEW u \in Reviewers, SubmitStep(u)
      PROVE  \/ documents'[d].status = documents[d].status
             \/ /\ documents[d].status = "PENDING_REVIEW"
                /\ documents'[d].status = "REVIEWED"
  <2>1. \/ UNCHANGED documents
        \/ /\ Reviewing(u, "mark_reviewed")
           /\ StatusWritten(review[u].document, "REVIEWED")
    BY <1>3, ReviewEffects DEF ReviewEffect, SameRows, BatchInserted, TaskResolved
  <2>2. CASE d # review[u].document
    BY <2>1, <2>2 DEF StatusWritten, DocumentSet
  <2>3. CASE /\ d = review[u].document /\ Reviewing(u, "mark_reviewed")
             /\ StatusWritten(review[u].document, "REVIEWED")
    <3>1. documents[d].status \in {"PENDING_REVIEW", "REVIEWED"}
      BY <2>3 DEF StageInv, UnderReview, Reviewing
    <3>2. documents[d] \in Document
      BY ElementOfSeq DEF Inv, TypeOK, DatabaseTypeOK
    <3> QED
      BY <2>3, <3>1, <3>2 DEF StatusWritten, DocumentSet, Document
  <2> QED
    BY <2>1, <2>2, <2>3
<1> QED
  BY <1>1, <1>2, <1>3 DEF Next, WorkerNext, ReviewNext, vars, tables

\* For any number of workers whose claims do not overlap, whatever
\* statements fail and wherever workers crash: what the pipeline or a
\* reviewer settled stays settled unless a run of the document failed before
\* its classification was stored.
THEOREM SettledStandsUnlessEarlyFailureHolds ==
    ASSUME ClaimsApart
    PROVE  Spec => SettledStandsUnlessEarlyFailure
<1>1. PipelineInv /\ [Next]_vars
      => [\A d \in DOMAIN documents : EarlyFailure(d) \/ SettledFor(d)]_vars
  BY SettledKept DEF Disturbed
<1> QED
  BY <1>1, PipelineInvHolds, PTL DEF Spec, SettledStandsUnlessEarlyFailure

\* For one worker it stays settled without exception.
THEOREM SettledStandsHolds ==
    ASSUME Solo
    PROVE  Spec => SettledStands
<1>1. ClaimsApart
  BY DEF ClaimsApart
<1>2. PipelineInv /\ [Next]_vars => [\A d \in DOMAIN documents : SettledFor(d)]_vars
  BY SettledKept DEF Disturbed
<1> QED
  BY <1>1, <1>2, PipelineInvHolds, PTL DEF Spec, SettledStands

---------------------------------------------------------------------------
(* One worker implements the lifecycle *)

\* The documents there are, and what a worker counted before it requeues
LifecycleInv ==
    /\ DOMAIN documents \subseteq DocumentIds
    /\ \A w \in Workers :
          worker[w].pc = "fail_requeue" => CountFailed(worker[w].document) <= MaxRetries

\* The refinement mapping of Lifecycle
StatusMap ==
    [d \in DocumentIds |-> IF d \in DOMAIN documents THEN documents[d].status ELSE "ABSENT"]

FailureMap == [d \in DocumentIds |-> CountFailed(d)]

Unmapped == UNCHANGED <<StatusMap, FailureMap>>

LEMMA CountKept ==
    ASSUME \A d : RunsWith(d, "FAILED")' = RunsWith(d, "FAILED")
    PROVE  FailureMap' = FailureMap /\ \A d : CountFailed(d)' = CountFailed(d)
BY DEF FailureMap, CountFailed

LEMMA LifecycleInvInductive ==
    ASSUME Solo, Inv, LifecycleInv, [Next]_vars
    PROVE  LifecycleInv'
<1>1. ASSUME UNCHANGED <<worker, agentRuns>>, DOMAIN documents' \subseteq DocumentIds
      PROVE  LifecycleInv'
  <2>1. \A d : CountFailed(d)' = CountFailed(d)
    BY <1>1 DEF CountFailed, RunsWith
  <2> QED
    BY <1>1, <2>1 DEF LifecycleInv
<1>2. ASSUME NEW w \in Workers, WorkerStep(w) \/ Crash(w)
      PROVE  LifecycleInv'
  <2>1. ASSUME worker'[w].pc # "fail_requeue", DOMAIN documents' = DOMAIN documents
        PROVE  LifecycleInv'
    BY <2>1 DEF LifecycleInv, Solo
  <2>2. CASE Claim(w)
    <3>1. CASE ClaimSnapshot(w)
      BY <2>1, <3>1, SnapshotTaken DEF tables
    <3>2. CASE ClaimLock(w)
      BY <2>1, <3>2, LockTaken DEF tables, Polling
    <3>3. CASE ClaimOpenRun(w)
      <4>1. documents' = documents
        BY <3>3, RunInserted
      <4>2. worker'[w] = Polling \/ worker'[w].pc = "load"
        BY <3>3, RunInserted DEF RunOpened
      <4> QED
        BY <2>1, <4>1, <4>2 DEF Polling
    <3> QED
      BY <2>2, <3>1, <3>2, <3>3 DEF Claim
  <2>3. CASE Crash(w)
    <3>1. worker'[w] = Polling /\ UNCHANGED documents
      BY <2>3, ReturnOver DEF Crash, Over, Inv, TypeOK, WorkerTypeOK, NoStatement, tables
    <3> QED
      BY <2>1, <3>1 DEF Polling
  <2>4. CASE Process(w) \/ Route(w) \/ Failure(w)
    <3>1. RunEffect(w) /\ DOMAIN documents' = DOMAIN documents
      BY <2>4, RunEffects, EffectDocuments
    <3>2. CASE worker'[w].pc # "fail_requeue"
      BY <2>1, <3>1, <3>2
    <3>3. CASE worker'[w].pc = "fail_requeue"
      <4>1. /\ SameRows /\ Goes(w, "fail_requeue")
            /\ CountFailed(worker[w].document) <= MaxRetries
        BY <3>1, <3>3
        DEF RunEffect, ReadMove, ErrorMove, FailMove, WriteMove, GoesToOne, Goes, Over, Polling
      <4>2. \A d : CountFailed(d)' = CountFailed(d)
        BY <4>1 DEF CountFailed, RunsWith, SameRows
      <4> QED
        BY <3>1, <4>1, <4>2 DEF LifecycleInv, Solo, Goes
    <3> QED
      BY <3>2, <3>3
  <2> QED
    BY <1>2, <2>2, <2>3, <2>4 DEF WorkerStep
<1>3. CASE Upload /\ UNCHANGED <<workerVars, review>>
  BY <1>1, <1>3, DocumentCreated DEF workerVars, LifecycleInv
<1>4. ASSUME NEW u \in Reviewers, SubmitStep(u), UNCHANGED workerVars
      PROVE  LifecycleInv'
  <2>1. DOMAIN documents' = DOMAIN documents
    BY <1>4, ReviewEffects
    DEF ReviewEffect, SameRows, BatchInserted, TaskResolved, StatusWritten, DocumentSet
  <2> QED
    BY <1>1, <1>4, <2>1, SubmitKeepsRuns DEF workerVars, LifecycleInv
<1>5. CASE UNCHANGED vars
  BY <1>1, <1>5 DEF vars, tables, workerVars, LifecycleInv
<1> QED
  BY <1>2, <1>3, <1>4, <1>5 DEF Next, WorkerNext, ReviewNext

\* A move of the lifecycle is one of the mapping.
LEMMA MoveMapped ==
    ASSUME NEW d \in DocumentIds, NEW from, NEW to,
           StatusMap[d] \in from, StatusMap' = [StatusMap EXCEPT ![d] = to],
           FailureMap' = FailureMap
    PROVE  Lifecycle!Move(d, from, to)
BY DEF Lifecycle!Move, StatusMap, FailureMap

LEMMA StatusMapped ==
    ASSUME Inv, LifecycleInv, NEW d \in DOMAIN documents, NEW s, StatusWritten(d, s)
    PROVE  /\ StatusMap' = [StatusMap EXCEPT ![d] = s] /\ FailureMap' = FailureMap
           /\ d \in DocumentIds /\ StatusMap[d] = documents[d].status
<1>1. documents[d] \in Document
  BY ElementOfSeq DEF Inv, TypeOK, DatabaseTypeOK
<1>2. /\ DOMAIN documents' = DOMAIN documents /\ documents'[d].status = s
      /\ \A e \in DOMAIN documents : e # d => documents'[e] = documents[e]
      /\ UNCHANGED agentRuns
  BY <1>1 DEF StatusWritten, DocumentSet, Document
<1>3. FailureMap' = FailureMap
  BY <1>2, CountKept DEF RunsWith
<1>4. \A e \in DocumentIds : StatusMap'[e] = IF e = d THEN s ELSE StatusMap[e]
  BY <1>2 DEF StatusMap
<1> QED
  BY <1>3, <1>4 DEF StatusMap, LifecycleInv

\* What sets no status and closes no run as failed is a stutter.
LEMMA NothingMapped ==
    ASSUME DOMAIN documents' = DOMAIN documents,
           \A d \in DOMAIN documents : documents'[d].status = documents[d].status,
           \A d : RunsWith(d, "FAILED")' = RunsWith(d, "FAILED")
    PROVE  Unmapped
BY CountKept DEF Unmapped, StatusMap

\* A run that fails is one more failure of its document.
LEMMA FailureMapped ==
    ASSUME Inv, NEW w \in Workers, worker[w].pc \in RunPc,
           agentRuns[worker[w].run].status = "RUNNING", RunFinished(w, "FAILED"),
           NEW d, d = worker[w].document
    PROVE  /\ StatusMap' = StatusMap
           /\ FailureMap' = [FailureMap EXCEPT ![d] = @ + 1]
           /\ CountFailed(d)' = CountFailed(d) + 1
<1> PICK r : r = worker[w].run
  OBVIOUS
<1>1. /\ r \in DOMAIN agentRuns /\ agentRuns[r].document = d
      /\ DOMAIN agentRuns = 1..Len(agentRuns) /\ Len(agentRuns) \in Nat
  BY LenProperties DEF Inv, TypeOK, DatabaseTypeOK, WorkerRowsExist
<1>2. /\ RunsWith(d, "FAILED")' = RunsWith(d, "FAILED") \cup {r}
      /\ r \notin RunsWith(d, "FAILED")
      /\ \A e : e # d => RunsWith(e, "FAILED")' = RunsWith(e, "FAILED")
  BY <1>1 DEF RunsWith, RunFinished
<1>3. IsFiniteSet(RunsWith(d, "FAILED"))
  <2>1. IsFiniteSet(DOMAIN agentRuns)
    BY <1>1, FS_Interval
  <2> QED
    BY <2>1, FS_Subset DEF RunsWith
<1>4. CountFailed(d)' = CountFailed(d) + 1
  BY <1>2, <1>3, FS_AddElement DEF CountFailed
<1>5. \A e : e # d => CountFailed(e)' = CountFailed(e)
  BY <1>2 DEF CountFailed
<1>6. \A e \in DocumentIds :
        FailureMap'[e] = IF e = d THEN FailureMap[e] + 1 ELSE FailureMap[e]
  BY <1>4, <1>5 DEF FailureMap
<1> QED
  BY <1>4, <1>6 DEF FailureMap, StatusMap, RunFinished

\* Every step of a run is a move of its document or none.
LEMMA EffectMapped ==
    ASSUME Solo, PipelineInv, LifecycleInv, NEW w \in Workers,
           Process(w) \/ Route(w) \/ Failure(w)
    PROVE  Lifecycle!Next \/ Unmapped
<1> USE DEF PipelineInv
<1>1. /\ RunEffect(w) /\ worker[w].pc \in RunPc
      /\ Staged(w) /\ OwnRun(w)
  BY RunEffects, RunPcs DEF StageInv, RunInv
<1> PICK d : d = worker[w].document
  OBVIOUS
<1>2. d \in DOMAIN documents /\ documents[d] \in Document /\ d \in DocumentIds
  BY <1>1, RunFacts, ElementOfSeq DEF TablesOK, LifecycleInv
<1>3. worker[w].pc \in OwningPc =>
          documents[d].status \in StageAt(worker[w].pc) /\ documents[d].status \in Active
  BY <1>1, StagesActive DEF Staged, Disturbed
<1>4. ASSUME SameRows PROVE Unmapped
  BY <1>4, NothingMapped DEF SameRows, RunsWith
<1>5. ASSUME NEW from, NEW to, documents[d].status \in from, StatusWritten(d, to)
      PROVE  Lifecycle!Move(d, from, to)
  BY <1>2, <1>5, StatusMapped, MoveMapped
<1>6. ASSUME DocumentSet(d, [documents[d] EXCEPT !.key = worker[w].key])
      PROVE  Unmapped
  BY <1>2, <1>6, NothingMapped DEF DocumentSet, Document, RunsWith
<1>7. ASSUME DocumentSet(d, [documents[d] EXCEPT !.duplicateOf = worker[w].duplicateOf])
      PROVE  Unmapped
  BY <1>2, <1>7, NothingMapped DEF DocumentSet, Document, RunsWith
<1>8. ASSUME TaskOpened(d) \/ BatchInserted(d, Agent)
      PROVE  Unmapped
  BY <1>8, NothingMapped DEF TaskOpened, BatchInserted, RunsWith
<1>9. ASSUME RunFinished(w, "COMPLETED"), worker[w].pc \in OpenPc
      PROVE  Unmapped
  BY <1>1, <1>9, NothingMapped DEF RunFinished, RunsWith, OwnRun
<1>10. ASSUME RunFinished(w, "FAILED"), worker[w].pc = "fail_finish"
       PROVE  Lifecycle!AttemptFails(d)
  <2>1. documents[d].status \in Active
    BY <1>3, <1>10 DEF OwningPc, OpenPc
  <2>2. /\ StatusMap' = StatusMap
        /\ FailureMap' = [FailureMap EXCEPT ![d] = @ + 1]
    BY <1>1, <1>10, FailureMapped DEF OwnRun, OpenPc
  <2>3. StatusMap[d] = documents[d].status
    BY <1>2 DEF StatusMap
  <2> QED
    BY <2>1, <2>2, <2>3
    DEF Lifecycle!AttemptFails, Lifecycle!Active, Active, StatusMap, FailureMap
<1>11. CASE WriteMove(w)
  <2>1. CASE At(w, "mark_classified")
    <3>1. documents[d].status \in {"UPLOADED"} /\ StatusWritten(d, "CLASSIFIED")
      BY <1>3, <1>11, <2>1 DEF WriteMove, At, OwningPc, OpenPc, PersistPc, StageAt
    <3> QED
      BY <1>2, <1>5, <3>1 DEF Lifecycle!Next, Lifecycle!Classify
  <2>2. CASE At(w, "mark_extracted")
    <3>1. documents[d].status \in {"CLASSIFIED"} /\ StatusWritten(d, "EXTRACTED")
      BY <1>3, <1>11, <2>2 DEF WriteMove, At, OwningPc, OpenPc, PersistPc, StageAt
    <3> QED
      BY <1>2, <1>5, <3>1 DEF Lifecycle!Next, Lifecycle!Extract
  <2>3. CASE At(w, "mark_validated")
    <3>1. documents[d].status \in {"EXTRACTED"} /\ StatusWritten(d, "VALIDATED")
      BY <1>3, <1>11, <2>3 DEF WriteMove, At, OwningPc, OpenPc, PersistPc, StageAt
    <3> QED
      BY <1>2, <1>5, <3>1 DEF Lifecycle!Next, Lifecycle!Validate
  <2>4. CASE At(w, "finalize")
    <3>1. documents[d].status \in {"VALIDATED"} /\ StatusWritten(d, "AUTO_PROCESSED")
      BY <1>3, <1>11, <2>4 DEF WriteMove, At, OwningPc, OpenPc, StepPc, StageAt
    <3> QED
      BY <1>2, <1>5, <3>1 DEF Lifecycle!Next, Lifecycle!AutoProcess
  <2>5. CASE At(w, "mark_pending")
    <3>1. /\ documents[d].status \in {"UPLOADED", "EXTRACTED", "VALIDATED"}
          /\ StatusWritten(d, "PENDING_REVIEW")
      BY <1>3, <1>11, <2>5 DEF WriteMove, At, OwningPc, OpenPc, StageAt
    <3> QED
      BY <1>2, <1>5, <3>1 DEF Lifecycle!Next, Lifecycle!Park
  <2>6. CASE At(w, "fail_requeue")
    <3>1. documents[d].status \in Lifecycle!Active /\ StatusWritten(d, "UPLOADED")
      BY <1>3, <1>11, <2>6
      DEF WriteMove, At, OwningPc, GivingUpPc, Active, Lifecycle!Active
    <3>2. FailureMap[d] <= MaxRetries
      BY <1>2, <2>6 DEF At, LifecycleInv, FailureMap
    <3> QED
      BY <1>2, <1>5, <3>1, <3>2 DEF Lifecycle!Next, Lifecycle!Retry, FailureMap
  <2>7. CASE At(w, "fail_mark")
    <3>1. documents[d].status \in Lifecycle!Active /\ StatusWritten(d, "FAILED")
      BY <1>3, <1>11, <2>7
      DEF WriteMove, At, OwningPc, GivingUpPc, Active, Lifecycle!Active
    <3> QED
      BY <1>2, <1>5, <3>1 DEF Lifecycle!Next, Lifecycle!GiveUp
  <2>8. CASE At(w, "fail_finish")
    BY <1>2, <1>10, <1>11, <2>8 DEF WriteMove, At, Lifecycle!Next
  <2>9. CASE At(w, "finish_auto") \/ At(w, "finish_review")
    BY <1>9, <1>11, <2>9 DEF WriteMove, At, OpenPc
  <2> QED
    BY <1>6, <1>7, <1>8, <1>11, <2>1, <2>2, <2>3, <2>4, <2>5, <2>6, <2>7, <2>8, <2>9
    DEF WriteMove
<1> QED
  BY <1>1, <1>4, <1>11 DEF RunEffect

LEMMA SubmitMapped ==
    ASSUME Solo, PipelineInv, LifecycleInv, NEW u \in Reviewers, SubmitStep(u)
    PROVE  Lifecycle!Next \/ Unmapped
<1> USE DEF PipelineInv
<1>1. \/ UNCHANGED <<documents, agentRuns>>
      \/ /\ Reviewing(u, "mark_reviewed")
         /\ StatusWritten(review[u].document, "REVIEWED")
  BY ReviewEffects DEF ReviewEffect, SameRows, BatchInserted, TaskResolved
<1>2. CASE UNCHANGED <<documents, agentRuns>>
  BY <1>2, NothingMapped DEF RunsWith
<1>3. CASE /\ Reviewing(u, "mark_reviewed")
           /\ StatusWritten(review[u].document, "REVIEWED")
  <2> PICK d : d = review[u].document
    OBVIOUS
  <2>1. /\ d \in DOMAIN documents /\ d \in DocumentIds
        /\ documents[d].status \in {"PENDING_REVIEW", "REVIEWED"}
    BY <1>3
    DEF Inv, TypeOK, ReviewRowsExist, LifecycleInv, StageInv, UnderReview, Disturbed, Reviewing
  <2>2. /\ StatusMap' = [StatusMap EXCEPT ![d] = "REVIEWED"] /\ FailureMap' = FailureMap
        /\ StatusMap[d] = documents[d].status
    BY <1>3, <2>1, StatusMapped
  <2>3. CASE documents[d].status \in {"PENDING_REVIEW"}
    <3>1. Lifecycle!Move(d, {"PENDING_REVIEW"}, "REVIEWED")
      BY <2>2, <2>3 DEF Lifecycle!Move, StatusMap, FailureMap
    <3> QED
      BY <2>1, <3>1 DEF Lifecycle!Next, Lifecycle!Review
  <2>4. CASE documents[d].status = "REVIEWED"
    BY <2>2, <2>4 DEF Unmapped, StatusMap
  <2> QED
    BY <2>1, <2>3, <2>4
<1> QED
  BY <1>1, <1>2, <1>3

LEMMA UploadMapped ==
    ASSUME Inv, Upload
    PROVE  Lifecycle!Next
<1> DEFINE n == Len(documents) + 1
<1>1. /\ DOMAIN documents' = DOMAIN documents \cup {n}
      /\ n \notin DOMAIN documents /\ n \in DocumentIds
      /\ \A e \in DOMAIN documents : documents'[e] = documents[e]
      /\ documents'[n].status = "UPLOADED"
      /\ UNCHANGED agentRuns
  BY DocumentCreated
<1> HIDE DEF n
<1> PICK d : d = n
  OBVIOUS
<1>2. FailureMap' = FailureMap
  BY <1>1, CountKept DEF RunsWith
<1>3. \A e \in DocumentIds : StatusMap'[e] = IF e = d THEN "UPLOADED" ELSE StatusMap[e]
  BY <1>1 DEF StatusMap
<1>4. /\ StatusMap[d] \in {"ABSENT"} /\ d \in DocumentIds
      /\ StatusMap' = [StatusMap EXCEPT ![d] = "UPLOADED"]
  BY <1>1, <1>3 DEF StatusMap
<1> QED
  <2>1. Lifecycle!Move(d, {"ABSENT"}, "UPLOADED")
    BY <1>2, <1>4 DEF Lifecycle!Move, StatusMap, FailureMap
  <2> QED
    BY <1>4, <2>1 DEF Lifecycle!Next, Lifecycle!Upload

\* One worker, however often it crashes and whatever statements fail, takes
\* every document through the lifecycle: one stage at a time, out of the
\* pipeline once, and back to UPLOADED only within the retry budget.
THEOREM SystemImplementsLifecycle ==
    ASSUME Solo
    PROVE  Spec => ImplementsLifecycle
<1>1. ClaimsApart
  BY DEF ClaimsApart
<1>2. Init => LifecycleInv /\ Lifecycle!Init
  <2> SUFFICES ASSUME Init PROVE LifecycleInv /\ Lifecycle!Init
    OBVIOUS
  <2>1. DOMAIN documents = {} /\ DOMAIN agentRuns = {}
    BY DEF Init, DatabaseInit
  <2>2. \A w \in Workers : worker[w].pc = "poll"
    BY DEF Init, WorkerInit, Polling
  <2>3. \A d \in DocumentIds : CountFailed(d) = 0
    BY <2>1, FS_EmptySet DEF CountFailed, RunsWith
  <2> QED
    BY <2>1, <2>2, <2>3 DEF LifecycleInv, Lifecycle!Init
<1>3. Inv /\ LifecycleInv /\ [Next]_vars => LifecycleInv'
  BY LifecycleInvInductive
<1>4. PipelineInv /\ LifecycleInv /\ [Next]_vars
      => [Lifecycle!Next]_(Lifecycle!lifecycleVars)
  <2> SUFFICES ASSUME PipelineInv, LifecycleInv, [Next]_vars
               PROVE  Lifecycle!Next \/ Unmapped
    BY DEF Unmapped, StatusMap, FailureMap, Lifecycle!lifecycleVars
  <2> USE DEF PipelineInv
  <2>1. ASSUME NEW w \in Workers, WorkerStep(w) \/ Crash(w)
        PROVE  Lifecycle!Next \/ Unmapped
    <3>1. CASE Claim(w)
      <4>1. UNCHANGED <<documents, agentRuns>> \/ ClaimOpenRun(w)
        BY <3>1, SnapshotTaken, LockTaken DEF Claim, tables
      <4>2. ASSUME ClaimOpenRun(w), NEW d
            PROVE  RunsWith(d, "FAILED")' = RunsWith(d, "FAILED")
        <5>1. CASE UNCHANGED agentRuns
          BY <5>1 DEF RunsWith
        <5>2. CASE RunOpened(w)
          BY <5>2 DEF RunsWith, RunOpened
        <5> QED
          BY <4>2, <5>1, <5>2, RunInserted
      <4> QED
        BY <4>1, <4>2, RunInserted, NothingMapped DEF RunsWith
    <3>2. CASE Crash(w)
      BY <3>2, NothingMapped DEF Crash, NoStatement, tables, RunsWith
    <3> QED
      BY <2>1, <3>1, <3>2, EffectMapped DEF WorkerStep
  <2>2. CASE UNCHANGED vars
    BY <2>2, NothingMapped DEF vars, tables, RunsWith
  <2> QED
    BY <2>1, <2>2, SubmitMapped, UploadMapped DEF Next, WorkerNext, ReviewNext
<1> QED
  BY <1>1, <1>2, <1>3, <1>4, PipelineInvHolds, PTL
  DEF Spec, PipelineInv, ImplementsLifecycle, Lifecycle!Spec

---------------------------------------------------------------------------
(* Duplicates, where no statement fails *)

\* Two workers whose runs are open never have the same document.
LEMMA OneRunner ==
    ASSUME PipelineInv, NEW v \in Workers, NEW w \in Workers,
           worker[v].pc \in OpenPc, worker[w].pc \in OpenPc,
           worker[v].document = worker[w].document
    PROVE  v = w
<1>1. worker[v].pc \in RunPc /\ worker[w].pc \in RunPc
  BY DEF OpenPc, RunPc, ClosePc
<1>2. /\ worker[v].run \in RunsWith(worker[w].document, "RUNNING")
      /\ worker[w].run \in RunsWith(worker[w].document, "RUNNING")
      /\ worker[w].document \in DOMAIN documents
  BY <1>1 DEF PipelineInv, Inv, TypeOK, WorkerRowsExist, RunInv, OwnRun, RunsWith
<1>3. worker[v].run = worker[w].run
  BY <1>2 DEF PipelineInv, ClaimInv, OneRunningRun
<1> QED
  BY <1>1, <1>3 DEF PipelineInv, RunInv, RunsDistinct

\* Where a run has stored its key, if it has one
KeyStoredPc ==
    {"validate", "mark_validated", "audit_validated", "find_exact", "find_near"}

\* The key of a run is its document's once it is stored; so the earliest row
\* with that key, or with the same bytes, is no later than the document.
DuplicateInv(w) ==
    LET d == worker[w].document
    IN  /\ worker[w].pc \in KeyStoredPc /\ worker[w].key # NoKey =>
              documents[d].key = worker[w].key
        /\ worker[w].pc = "find_near" => worker[w].key # NoKey
        /\ worker[w].pc = "mark_duplicate" => worker[w].duplicateOf < d

\* Where claims may overlap, a document that has two runs is excepted.
Exempt(d) == ~ClaimsApart /\ \E r, s \in RunsOf(d) : r # s

PointsBack(d) ==
    documents[d].duplicateOf # 0 => documents[d].duplicateOf < d \/ Exempt(d)

AllDuplicatesInv ==
    /\ \A d \in DOMAIN documents : PointsBack(d)
    /\ \A w \in Workers : Exempt(worker[w].document) \/ DuplicateInv(w)

\* What holds of the runs, and of the stages where claims are apart
RunsSoFar == Inv /\ RunInv /\ (ClaimsApart => PipelineInv)

\* No statement deletes an agent run or moves it to another document.
LEMMA RunsStay ==
    ASSUME Inv, [Next]_vars, NEW d
    PROVE  Exempt(d) => Exempt(d)'
<1>1. SUFFICES /\ DOMAIN agentRuns \subseteq DOMAIN agentRuns'
               /\ \A r \in DOMAIN agentRuns : agentRuns'[r].document = agentRuns[r].document
  BY DEF Exempt, RunsOf, ClaimsApart
<1>2. CASE Upload
  BY <1>2, CreateDocumentHarmless
  DEF Upload, Inv, TypeOK, TablesOK, DatabaseTypeOK, Harmless, TablesGrow
<1>3. CASE WorkerNext
  <2>1. PICK w \in Workers : WorkerStep(w) \/ Crash(w)
    BY <1>3 DEF WorkerNext
  <2>2. CASE ClaimSnapshot(w) \/ ClaimLock(w) \/ Crash(w)
    BY <2>2 DEF ClaimSnapshot, ClaimLock, Crash, NoStatement, tables
  <2>3. CASE ClaimOpenRun(w)
    <3>1. TablesOK /\ worker[w].document \in DOMAIN documents
      BY <2>3 DEF ClaimOpenRun, At, Inv, TypeOK, TablesOK, DatabaseTypeOK, WorkerRowsExist
    <3>2. CASE InsertRun(worker[w].document)
      BY <3>1, <3>2, InsertRunGrows DEF TablesGrow
    <3>3. CASE UNCHANGED tables
      BY <3>3 DEF tables
    <3> QED
      BY <2>3, <3>2, <3>3 DEF ClaimOpenRun, Attempt
  <2>4. CASE Process(w) \/ Route(w) \/ Failure(w)
    BY <2>4, RunSteps DEF RunStep, Harmless, TablesGrow
  <2> QED
    BY <2>1, <2>2, <2>3, <2>4 DEF WorkerStep, Claim
<1>4. CASE ReviewNext
  BY <1>4, SubmitStepHarmless DEF ReviewNext, Harmless, TablesGrow
<1>5. CASE UNCHANGED vars
  BY <1>5 DEF vars, tables
<1> QED
  BY <1>2, <1>3, <1>4, <1>5 DEF Next

\* Two workers whose runs are open have the same document only if that has
\* two runs.
LEMMA OneRunnerUnlessExempt ==
    ASSUME RunsSoFar, NEW v \in Workers, NEW w \in Workers, v # w,
           worker[v].pc \in OpenPc, worker[w].pc \in OpenPc,
           worker[v].document = worker[w].document
    PROVE  Exempt(worker[v].document)
<1>1. CASE ClaimsApart
  BY <1>1, OneRunner DEF RunsSoFar
<1>2. CASE ~ClaimsApart
  <2>1. worker[v].pc \in RunPc /\ worker[w].pc \in RunPc
    BY DEF OpenPc, RunPc, ClosePc
  <2>2. /\ worker[v].run \in RunsOf(worker[v].document)
        /\ worker[w].run \in RunsOf(worker[v].document)
    BY <2>1 DEF RunsSoFar, Inv, TypeOK, WorkerRowsExist, RunsOf
  <2>3. worker[v].run # worker[w].run
    BY <2>1 DEF RunsSoFar, RunInv, RunsDistinct
  <2> QED
    BY <1>2, <2>2, <2>3 DEF Exempt
<1> QED
  BY <1>1, <1>2

LEMMA MatchesAreEarlier ==
    ASSUME Inv, NEW w \in Workers, worker[w].pc \in RunPc
    PROVE  /\ \A e \in ExactMatch(w) : e < worker[w].document
           /\ documents[worker[w].document].key = worker[w].key =>
                 \A e \in NearMatch(w) : e < worker[w].document
<1>1. worker[w].document \in DOMAIN documents /\ DOMAIN documents \subseteq Nat
  BY RunFacts DEF TablesOK
<1> QED
  BY <1>1
  DEF ExactMatch, NearMatch, FindByContentHash, FindByKeyFieldsHash, Earliest,
      WithContentHash, WithKeyFieldsHash

LEMMA NoErrorMove ==
    ASSUME Inv, MaxDatabaseErrors = 0
    PROVE  ~(databaseErrors < MaxDatabaseErrors)
BY DEF Inv, TypeOK, DatabaseTypeOK

LEMMA EffectKeepsDuplicates ==
    ASSUME RunsSoFar, AllDuplicatesInv, MaxDatabaseErrors = 0, [Next]_vars,
           NEW w \in Workers, Process(w) \/ Route(w) \/ Failure(w)
    PROVE  AllDuplicatesInv'
<1> USE DEF RunsSoFar
<1>1. /\ RunEffect(w) /\ worker[w].pc \in RunPc
      /\ Exempt(worker[w].document) \/ DuplicateInv(w)
      /\ ~ErrorMove(w)
  BY RunEffects, RunPcs, NoErrorMove DEF AllDuplicatesInv, ErrorMove
<1>2. /\ worker[w].document \in DOMAIN documents /\ DOMAIN documents \subseteq Nat
      /\ documents[worker[w].document] \in Document
  BY <1>1, RunFacts, ElementOfSeq DEF TablesOK
<1>3. /\ OthersStay(w) /\ DOMAIN documents' = DOMAIN documents
      /\ \A e \in DOMAIN documents :
            e # worker[w].document => documents'[e] = documents[e]
  BY <1>1, EffectMoves, EffectDocuments
<1>4. \/ documents'[worker[w].document].key = documents[worker[w].document].key
      \/ At(w, "set_key") /\ documents'[worker[w].document].key = worker[w].key
  BY <1>1, <1>2
  DEF RunEffect, SameRows, WriteMove, StatusWritten, DocumentSet, TaskOpened, BatchInserted,
      RunFinished, Document
<1>5. \/ documents'[worker[w].document].duplicateOf = documents[worker[w].document].duplicateOf
      \/ /\ At(w, "mark_duplicate")
         /\ documents'[worker[w].document].duplicateOf = worker[w].duplicateOf
  BY <1>1, <1>2
  DEF RunEffect, SameRows, WriteMove, StatusWritten, DocumentSet, TaskOpened, BatchInserted,
      RunFinished, Document
<1>6. ASSUME NEW d \in DOMAIN documents' PROVE PointsBack(d)'
  <2>1. d \in DOMAIN documents /\ PointsBack(d) /\ (Exempt(d) => Exempt(d)')
    BY <1>3, <1>6, RunsStay DEF AllDuplicatesInv
  <2> QED
    BY <1>1, <1>3, <1>5, <2>1 DEF PointsBack, DuplicateInv, At
<1>7. ASSUME NEW v \in Workers, v # w, ~Exempt(worker[v].document)
      PROVE  DuplicateInv(v)'
  <2>1. worker'[v] = worker[v] /\ DuplicateInv(v)
    BY <1>3, <1>7 DEF OthersStay, AllDuplicatesInv
  <2>2. ASSUME worker[v].pc \in KeyStoredPc
        PROVE  documents'[worker[v].document].key = documents[worker[v].document].key
    <3>1. worker[v].pc \in OpenPc /\ worker[v].document \in DOMAIN documents
      BY <2>2
      DEF KeyStoredPc, OpenPc, StepPc, PersistPc, RunPc, Inv, TypeOK, WorkerRowsExist
    <3>2. At(w, "set_key") => worker[w].document # worker[v].document
      BY <1>7, <3>1, OneRunnerUnlessExempt DEF At, OpenPc, PersistPc
    <3> QED
      BY <1>3, <1>4, <3>1, <3>2
  <2> QED
    BY <2>1, <2>2 DEF DuplicateInv
<1>8. ASSUME DuplicateInv(w) PROVE DuplicateInv(w)'
  <2> USE DEF At, GoesToOne, Goes, KeyStoredPc, StepPc
  <2>1. CASE SameRows /\ ReadMove(w)
    <3>1. CASE worker'[w].pc = "mark_duplicate"
      <4>1. worker'[w].duplicateOf < worker[w].document
        BY <1>1, <1>8, <2>1, <3>1, MatchesAreEarlier DEF ReadMove, DuplicateInv, Over, Polling
      <4> QED
        BY <2>1, <3>1, <4>1 DEF ReadMove, Over, Polling, DuplicateInv
    <3>2. CASE worker'[w].pc # "mark_duplicate"
      BY <1>1, <1>8, <2>1, <3>2 DEF ReadMove, Over, Polling, DuplicateInv, SameRows
    <3> QED
      BY <3>1, <3>2
  <2>2. CASE FailMove(w)
    BY <2>2 DEF FailMove, DuplicateInv
  <2>3. CASE WriteMove(w) /\ At(w, "set_key")
    BY <1>2, <2>3 DEF WriteMove, DuplicateInv, DocumentSet, Document
  <2>4. CASE WriteMove(w) /\ ~At(w, "set_key")
    BY <1>1, <1>4, <1>8, <2>4 DEF WriteMove, DuplicateInv, Over, Polling
  <2> QED
    BY <1>1, <2>1, <2>2, <2>3, <2>4 DEF RunEffect
<1>9. ASSUME NEW v \in Workers PROVE Exempt(worker[v].document)' \/ DuplicateInv(v)'
  <2>1. ASSUME Exempt(worker[v].document)
        PROVE  Exempt(worker[v].document)' \/ worker'[v].pc = "poll"
    <3> PICK d : d = worker[v].document
      OBVIOUS
    <3>1. Exempt(d)'
      BY <2>1, RunsStay
    <3>2. worker'[v].document = d \/ worker'[v].pc = "poll"
      BY <1>1, EffectMoves DEF OthersStay, Polling
    <3> QED
      BY <3>1, <3>2 DEF Exempt, RunsOf
  <2>2. worker'[v].pc = "poll" => DuplicateInv(v)'
    BY DEF DuplicateInv, KeyStoredPc
  <2> QED
    BY <1>1, <1>7, <1>8, <2>1, <2>2 DEF AllDuplicatesInv
<1> QED
  BY <1>6, <1>9 DEF AllDuplicatesInv

LEMMA DuplicatesInductive ==
    ASSUME RunsSoFar, AllDuplicatesInv, MaxDatabaseErrors = 0, [Next]_vars
    PROVE  AllDuplicatesInv'
<1> USE DEF RunsSoFar
<1>1. ASSUME \A d \in DOMAIN documents :
                 /\ d \in DOMAIN documents'
                 /\ documents'[d].key = documents[d].key
                 /\ documents'[d].duplicateOf = documents[d].duplicateOf,
             \A d \in DOMAIN documents' :
                 d \in DOMAIN documents \/ documents'[d].duplicateOf = 0,
             \A w \in Workers :
                 \/ worker'[w] = worker[w]
                 \/ worker'[w].pc \in {"poll", "lock", "open_run", "load"}
      PROVE  AllDuplicatesInv'
  <2>1. ASSUME NEW d \in DOMAIN documents' PROVE PointsBack(d)'
    BY <1>1, <2>1, RunsStay DEF AllDuplicatesInv, PointsBack
  <2>2. ASSUME NEW w \in Workers PROVE Exempt(worker[w].document)' \/ DuplicateInv(w)'
    <3>1. CASE worker'[w] = worker[w]
      <4>1. worker[w].pc \in KeyStoredPc => worker[w].document \in DOMAIN documents
        BY DEF KeyStoredPc, StepPc, PersistPc, RunPc, Inv, TypeOK, WorkerRowsExist
      <4>2. CASE Exempt(worker[w].document)
        <5> PICK d : d = worker[w].document
          OBVIOUS
        <5>1. Exempt(d)'
          BY <4>2, RunsStay
        <5> QED
          BY <3>1, <5>1 DEF Exempt, RunsOf
      <4>3. CASE DuplicateInv(w)
        BY <1>1, <3>1, <4>1, <4>3 DEF DuplicateInv
      <4> QED
        BY <4>2, <4>3 DEF AllDuplicatesInv
    <3>2. CASE worker'[w].pc \in {"poll", "lock", "open_run", "load"}
      BY <3>2 DEF DuplicateInv, KeyStoredPc
    <3> QED
      BY <1>1, <3>1, <3>2
  <2> QED
    BY <2>1, <2>2 DEF AllDuplicatesInv
<1>2. ASSUME NEW w \in Workers, WorkerStep(w) \/ Crash(w)
      PROVE  AllDuplicatesInv'
  <2>1. CASE Claim(w)
    <3>1. /\ OthersStay(w) /\ documents' = documents
          /\ \/ worker'[w] = Polling
             \/ worker'[w].pc \in {"lock", "open_run", "load"}
      BY <2>1, SnapshotTaken, LockTaken, RunInserted DEF Claim, RunOpened, tables
    <3> QED
      BY <1>1, <3>1 DEF OthersStay, Polling
  <2>2. CASE Crash(w)
    <3>1. OthersStay(w) /\ worker'[w] = Polling /\ documents' = documents
      BY <2>2, ReturnOver DEF Crash, Over, Inv, TypeOK, WorkerTypeOK, NoStatement, tables
    <3> QED
      BY <1>1, <3>1 DEF OthersStay, Polling
  <2> QED
    BY <1>2, <2>1, <2>2, EffectKeepsDuplicates DEF WorkerStep
<1>3. CASE Upload /\ UNCHANGED <<workerVars, review>>
  BY <1>1, <1>3, DocumentCreated DEF workerVars
<1>4. ASSUME NEW u \in Reviewers, SubmitStep(u), UNCHANGED workerVars
      PROVE  AllDuplicatesInv'
  <2>1. \/ UNCHANGED documents
        \/ /\ review[u].document \in DOMAIN documents
           /\ StatusWritten(review[u].document, "REVIEWED")
    BY <1>4, ReviewEffects
    DEF ReviewEffect, SameRows, BatchInserted, TaskResolved, Inv, TypeOK, ReviewRowsExist,
        Reviewing
  <2>2. \A d \in DOMAIN documents : documents[d] \in Document
    BY ElementOfSeq DEF Inv, TypeOK, DatabaseTypeOK
  <2>3. /\ DOMAIN documents' = DOMAIN documents
        /\ \A d \in DOMAIN documents :
              /\ documents'[d].key = documents[d].key
              /\ documents'[d].duplicateOf = documents[d].duplicateOf
    BY <2>1, <2>2 DEF StatusWritten, DocumentSet, Document
  <2> QED
    BY <1>1, <1>4, <2>3 DEF workerVars
<1>5. CASE UNCHANGED vars
  BY <1>1, <1>5 DEF vars, tables, workerVars
<1> QED
  BY <1>2, <1>3, <1>4, <1>5 DEF Next, WorkerNext, ReviewNext

\* Two runs are more than one.
LEMMA TwoRuns ==
    ASSUME Inv, NEW d
    PROVE  (\E r, s \in RunsOf(d) : r # s) => RunTwice(d)
<1> SUFFICES ASSUME NEW r \in RunsOf(d), NEW s \in RunsOf(d), r # s
             PROVE  Cardinality(RunsOf(d)) > 1
  BY DEF RunTwice
<1>1. IsFiniteSet(DOMAIN agentRuns) /\ RunsOf(d) \subseteq DOMAIN agentRuns
  <2>1. DOMAIN agentRuns = 1..Len(agentRuns) /\ Len(agentRuns) \in Nat
    BY LenProperties DEF Inv, TypeOK, DatabaseTypeOK
  <2>2. IsFiniteSet(1..Len(agentRuns))
    BY <2>1, FS_Interval
  <2> QED
    BY <2>1, <2>2 DEF RunsOf
<1>2. IsFiniteSet(RunsOf(d)) /\ {r, s} \subseteq RunsOf(d)
  BY <1>1, FS_Subset
<1>3. Cardinality({r}) = 1 /\ IsFiniteSet({r})
  BY FS_Singleton
<1>4. Cardinality({r} \cup {s}) = 2
  BY <1>3, FS_AddElement
<1>5. /\ Cardinality({r} \cup {s}) <= Cardinality(RunsOf(d))
      /\ Cardinality(RunsOf(d)) \in Nat
  BY <1>2, FS_Subset, FS_CardinalityType
<1> QED
  BY <1>4, <1>5

LEMMA AllDuplicatesHold ==
    ASSUME MaxDatabaseErrors = 0
    PROVE  Spec => [](Inv /\ AllDuplicatesInv)
<1>1. Init => AllDuplicatesInv
  BY DEF Init, DatabaseInit, WorkerInit, Polling, AllDuplicatesInv, DuplicateInv, KeyStoredPc
<1>2. RunsSoFar /\ AllDuplicatesInv /\ [Next]_vars => AllDuplicatesInv'
  BY DuplicatesInductive
<1>3. CASE ClaimsApart
  <2>1. PipelineInv => RunsSoFar /\ Inv
    BY DEF RunsSoFar, PipelineInv
  <2> QED
    BY <1>1, <1>2, <1>3, <2>1, PipelineInvHolds, PTL DEF Spec
<1>4. CASE ~ClaimsApart
  <2>1. Inv /\ RunInv => RunsSoFar
    BY <1>4 DEF RunsSoFar
  <2> QED
    BY <1>1, <1>2, <2>1, RunInvHolds, PTL DEF Spec
<1> QED
  BY <1>3, <1>4

\* Where no statement fails, a document is only ever flagged as the duplicate
\* of an earlier one, however many workers there are and however their claims
\* overlap, unless it has more than one run.
THEOREM DuplicateOfEarlierHolds ==
    ASSUME MaxDatabaseErrors = 0
    PROVE  Spec => []DuplicateOfEarlier
<1>1. Inv /\ AllDuplicatesInv => DuplicateOfEarlier
  BY TwoRuns DEF AllDuplicatesInv, PointsBack, Exempt, DuplicateOfEarlier
<1> QED
  BY <1>1, AllDuplicatesHold, PTL

\* Where claims do not overlap the exception is not needed: no two documents
\* are each the other's original, however many runs they have.
THEOREM NoMutualDuplicates ==
    ASSUME ClaimsApart, MaxDatabaseErrors = 0
    PROVE  Spec => [](\A d \in DOMAIN documents :
                         documents[d].duplicateOf # 0 => documents[d].duplicateOf < d)
<1>1. AllDuplicatesInv => \A d \in DOMAIN documents :
                             documents[d].duplicateOf # 0 => documents[d].duplicateOf < d
  BY DEF AllDuplicatesInv, PointsBack, Exempt
<1> QED
  BY <1>1, AllDuplicatesHold, PTL
=============================================================================
