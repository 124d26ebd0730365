------------------------ MODULE DocumentSystem_proofs ------------------------
(***************************************************************************)
(* Theorems about DocumentSystem, for any number of workers, reviewers and *)
(* documents, any number of failing statements and any number of crashes.  *)
(*                                                                         *)
(*   TypeCorrect          Spec => []TypeOK                                 *)
(*   ExactDuplicateHolds  of the documents with the same bytes only the    *)
(*                        first may be AUTO_PROCESSED                      *)
(***************************************************************************)
EXTENDS DocumentSystem, SequenceTheorems, FiniteSetTheorems, WellFoundedInduction, TLAPS

---------------------------------------------------------------------------
(* What a statement may do to the tables *)

TablesOK ==
    /\ documents \in Seq(Document)
    /\ agentRuns \in Seq(AgentRun)
    /\ reviewTasks \in Seq(ReviewTask)
    /\ extractedFields \in Seq(FieldBatch)
    /\ auditLogs \in Seq(AuditLog)
    /\ RowsRefer

\* The tables keep their types and their rows; a row keeps the document it
\* refers to and a document its content.
TablesGrow ==
    /\ TablesOK'
    /\ DOMAIN documents \subseteq DOMAIN documents'
    /\ \A d \in DOMAIN documents : documents'[d].content = documents[d].content
    /\ DOMAIN agentRuns \subseteq DOMAIN agentRuns'
    /\ \A r \in DOMAIN agentRuns : agentRuns'[r].document = agentRuns[r].document
    /\ DOMAIN reviewTasks \subseteq DOMAIN reviewTasks'
    /\ \A t \in DOMAIN reviewTasks : reviewTasks'[t].document = reviewTasks[t].document

\* No run becomes RUNNING.
NoRunOpened ==
    \A r \in DOMAIN agentRuns' :
        agentRuns'[r].status = "RUNNING" =>
            r \in DOMAIN agentRuns /\ agentRuns[r] = agentRuns'[r]

\* No document with the content of d was uploaded before it.
IsFirst(d) == d \in FindByContentHash(documents[d].content)

\* A document that becomes AUTO_PROCESSED is the first with its content.
OnlyFirstProcessed ==
    \A d \in DOMAIN documents' :
        documents'[d].status = "AUTO_PROCESSED" =>
            /\ d \in DOMAIN documents
            /\ documents[d].status = "AUTO_PROCESSED" \/ IsFirst(d)

\* What every statement does but the one that opens a run
Harmless == TablesGrow /\ NoRunOpened /\ OnlyFirstProcessed

LEMMA UnchangedHarmless ==
    ASSUME TablesOK, UNCHANGED tables
    PROVE  Harmless
BY DEF Harmless, OnlyFirstProcessed, TablesOK, TablesGrow, NoRunOpened, RowsRefer, tables

\* Replacing a row of documents
LEMMA DocumentRowReplaced ==
    ASSUME TablesOK, DocumentWritten,
           NEW d \in DOMAIN documents, NEW row \in Document,
           row.content = documents[d].content,
           row.status = "AUTO_PROCESSED" =>
               documents[d].status = "AUTO_PROCESSED" \/ IsFirst(d),
           documents' = [documents EXCEPT ![d] = row]
    PROVE  Harmless
<1>1. documents' \in Seq(Document) /\ Len(documents') = Len(documents)
  BY ExceptSeq DEF TablesOK
<1>2. DOMAIN documents' = DOMAIN documents
  OBVIOUS
<1>3. \A e \in DOMAIN documents : documents'[e].content = documents[e].content
  OBVIOUS
<1> QED
  BY <1>1, <1>2, <1>3 DEF Harmless, OnlyFirstProcessed, TablesOK, TablesGrow, NoRunOpened, RowsRefer, DocumentWritten

LEMMA SetStatusHarmless ==
    ASSUME TablesOK, NEW d \in DOMAIN documents, NEW s \in DocumentStatus,
           s = "AUTO_PROCESSED" => IsFirst(d), SetStatus(d, s)
    PROVE  Harmless
<1> DEFINE row == [documents[d] EXCEPT !.status = s]
<1>1. documents[d] \in Document
  BY ElementOfSeq DEF TablesOK
<1>2. /\ row \in Document /\ row.content = documents[d].content
      /\ row.status = "AUTO_PROCESSED" =>
            documents[d].status = "AUTO_PROCESSED" \/ IsFirst(d)
  BY <1>1 DEF Document
<1>3. documents' = [documents EXCEPT ![d] = row] /\ DocumentWritten
  BY DEF SetStatus
<1> HIDE DEF row
<1> QED
  BY <1>2, <1>3, DocumentRowReplaced

LEMMA MarkDuplicateHarmless ==
    ASSUME TablesOK, NEW d \in DOMAIN documents, NEW e \in Nat,
           MarkDuplicateOf(d, e)
    PROVE  Harmless
<1> DEFINE row == [documents[d] EXCEPT !.duplicateOf = e]
<1>1. documents[d] \in Document
  BY ElementOfSeq DEF TablesOK
<1>2. /\ row \in Document /\ row.content = documents[d].content
      /\ row.status = "AUTO_PROCESSED" =>
            documents[d].status = "AUTO_PROCESSED" \/ IsFirst(d)
  BY <1>1 DEF Document
<1>3. documents' = [documents EXCEPT ![d] = row] /\ DocumentWritten
  BY DEF MarkDuplicateOf
<1> HIDE DEF row
<1> QED
  BY <1>2, <1>3, DocumentRowReplaced

LEMMA SetKeyHarmless ==
    ASSUME TablesOK, NEW d \in DOMAIN documents, NEW key \in Keys \cup {NoKey},
           SetKeyFieldsHash(d, key)
    PROVE  Harmless
<1> DEFINE row == [documents[d] EXCEPT !.key = key]
<1>1. documents[d] \in Document
  BY ElementOfSeq DEF TablesOK
<1>2. /\ row \in Document /\ row.content = documents[d].content
      /\ row.status = "AUTO_PROCESSED" =>
            documents[d].status = "AUTO_PROCESSED" \/ IsFirst(d)
  BY <1>1 DEF Document
<1>3. documents' = [documents EXCEPT ![d] = row] /\ DocumentWritten
  BY DEF SetKeyFieldsHash
<1> HIDE DEF row
<1> QED
  BY <1>2, <1>3, DocumentRowReplaced

LEMMA CreateDocumentHarmless ==
    ASSUME TablesOK, NEW content \in Contents, CreateDocument(content)
    PROVE  Harmless
<1> DEFINE row == [status |-> "UPLOADED", content |-> content,
                   key |-> NoKey, duplicateOf |-> 0]
<1>1. row \in Document
  BY DEF Document, DocumentStatus
<1>2. documents' = Append(documents, row) /\ DocumentWritten /\ row.status = "UPLOADED"
  BY DEF CreateDocument
<1> HIDE DEF row
<1>3. /\ documents' \in Seq(Document)
      /\ Len(documents') = Len(documents) + 1
      /\ \A e \in 1..Len(documents) : documents'[e] = documents[e]
      /\ documents'[Len(documents) + 1] = row
  BY <1>1, <1>2, AppendProperties DEF TablesOK
<1>4. DOMAIN documents = 1..Len(documents) /\ DOMAIN documents' = 1..Len(documents')
  BY <1>3 DEF TablesOK
<1>5. DOMAIN documents \subseteq DOMAIN documents'
  BY <1>3, <1>4, LenProperties DEF TablesOK
<1> QED
  BY <1>2, <1>3, <1>4, <1>5
  DEF Harmless, OnlyFirstProcessed, TablesOK, TablesGrow, NoRunOpened, RowsRefer, DocumentWritten

\* The one statement that opens a run
LEMMA InsertRunGrows ==
    ASSUME TablesOK, NEW d \in DOMAIN documents, InsertRun(d)
    PROVE  /\ TablesGrow
           /\ Len(agentRuns) + 1 \in DOMAIN agentRuns'
           /\ agentRuns'[Len(agentRuns) + 1].document = d
           /\ OnlyFirstProcessed
           /\ \A r \in DOMAIN agentRuns' :
                 \/ r \in DOMAIN agentRuns /\ agentRuns'[r] = agentRuns[r]
                 \/ r = Len(agentRuns) + 1
<1> DEFINE row == [document |-> d, status |-> "RUNNING", iterations |-> 0]
<1>1. row \in AgentRun
  BY DEF AgentRun, AgentRunStatus, TablesOK
<1>2. agentRuns' = Append(agentRuns, row) /\ AgentRunWritten
  BY DEF InsertRun
<1>3. row.document = d
  OBVIOUS
<1> HIDE DEF row
<1>4. /\ agentRuns' \in Seq(AgentRun)
      /\ Len(agentRuns') = Len(agentRuns) + 1
      /\ \A r \in 1..Len(agentRuns) : agentRuns'[r] = agentRuns[r]
      /\ agentRuns'[Len(agentRuns) + 1] = row
  BY <1>1, <1>2, AppendProperties DEF TablesOK
<1>5. /\ DOMAIN agentRuns = 1..Len(agentRuns)
      /\ DOMAIN agentRuns' = 1..(Len(agentRuns) + 1)
      /\ Len(agentRuns) \in Nat
  BY <1>4, LenProperties DEF TablesOK
<1> QED
  BY <1>2, <1>3, <1>4, <1>5
  DEF OnlyFirstProcessed, TablesOK, TablesGrow, RowsRefer, AgentRunWritten

LEMMA FinishHarmless ==
    ASSUME TablesOK, NEW r \in DOMAIN agentRuns,
           NEW s \in {"COMPLETED", "FAILED"}, NEW n \in Nat, Finish(r, s, n)
    PROVE  Harmless
<1> DEFINE row == [agentRuns[r] EXCEPT !.status = s, !.iterations = n]
<1>1. agentRuns[r] \in AgentRun
  BY ElementOfSeq DEF TablesOK
<1>2. row \in AgentRun /\ row.document = agentRuns[r].document /\ row.status # "RUNNING"
  BY <1>1 DEF AgentRun, AgentRunStatus
<1>3. agentRuns' = [agentRuns EXCEPT ![r] = row] /\ AgentRunWritten
  BY DEF Finish
<1> HIDE DEF row
<1>4. agentRuns' \in Seq(AgentRun) /\ DOMAIN agentRuns' = DOMAIN agentRuns
  BY <1>2, <1>3, ExceptSeq DEF TablesOK
<1>5. \A q \in DOMAIN agentRuns : agentRuns'[q] = IF q = r THEN row ELSE agentRuns[q]
  BY <1>3
<1> QED
  BY <1>2, <1>3, <1>4, <1>5
  DEF Harmless, OnlyFirstProcessed, TablesOK, TablesGrow, NoRunOpened, RowsRefer, AgentRunWritten

LEMMA CreateTaskHarmless ==
    ASSUME TablesOK, NEW d \in DOMAIN documents, NEW reason \in ReviewReason,
           CreateReviewTask(d, reason)
    PROVE  Harmless
<1> DEFINE row == [document |-> d, status |-> "PENDING", reason |-> reason,
                   reviewedBy |-> NoReviewer]
<1>1. row \in ReviewTask /\ row.document = d
  BY DEF ReviewTask, ReviewStatus, TablesOK
<1>2. reviewTasks' = Append(reviewTasks, row) /\ ReviewTaskWritten
  BY DEF CreateReviewTask
<1> HIDE DEF row
<1>3. /\ reviewTasks' \in Seq(ReviewTask)
      /\ Len(reviewTasks') = Len(reviewTasks) + 1
      /\ \A t \in 1..Len(reviewTasks) : reviewTasks'[t] = reviewTasks[t]
      /\ reviewTasks'[Len(reviewTasks) + 1] = row
  BY <1>1, <1>2, AppendProperties DEF TablesOK
<1>4. /\ DOMAIN reviewTasks = 1..Len(reviewTasks)
      /\ DOMAIN reviewTasks' = 1..(Len(reviewTasks) + 1)
      /\ Len(reviewTasks) \in Nat
  BY <1>3, LenProperties DEF TablesOK
<1> QED
  BY <1>1, <1>2, <1>3, <1>4
  DEF Harmless, OnlyFirstProcessed, TablesOK, TablesGrow, NoRunOpened, RowsRefer, ReviewTaskWritten

LEMMA ResolveHarmless ==
    ASSUME TablesOK, NEW t \in DOMAIN reviewTasks, NEW s \in ReviewStatus,
           NEW u \in Reviewers, Resolve(t, s, u)
    PROVE  Harmless
<1> DEFINE row == [reviewTasks[t] EXCEPT !.status = s, !.reviewedBy = u]
<1>1. reviewTasks[t] \in ReviewTask
  BY ElementOfSeq DEF TablesOK
<1>2. row \in ReviewTask /\ row.document = reviewTasks[t].document
  BY <1>1 DEF ReviewTask
<1>3. reviewTasks' = [reviewTasks EXCEPT ![t] = row] /\ ReviewTaskWritten
  BY DEF Resolve
<1> HIDE DEF row
<1>4. reviewTasks' \in Seq(ReviewTask) /\ DOMAIN reviewTasks' = DOMAIN reviewTasks
  BY <1>2, <1>3, ExceptSeq DEF TablesOK
<1>5. \A q \in DOMAIN reviewTasks :
        reviewTasks'[q].document = reviewTasks[q].document
  BY <1>2, <1>3
<1> QED
  BY <1>3, <1>4, <1>5
  DEF Harmless, OnlyFirstProcessed, TablesOK, TablesGrow, NoRunOpened, RowsRefer, ReviewTaskWritten

LEMMA InsertBatchHarmless ==
    ASSUME TablesOK, NEW d \in DOMAIN documents, NEW a \in Reviewers \cup {Agent},
           InsertBatch(d, a)
    PROVE  Harmless
<1>1. [document |-> d, author |-> a] \in FieldBatch
  BY DEF FieldBatch, TablesOK
<1>2. extractedFields' \in Seq(FieldBatch)
  BY <1>1, AppendProperties DEF InsertBatch, TablesOK
<1> QED
  BY <1>2 DEF InsertBatch, Harmless, OnlyFirstProcessed, TablesOK, TablesGrow, NoRunOpened, RowsRefer

LEMMA AuditRecordHarmless ==
    ASSUME TablesOK, NEW d \in DOMAIN documents, NEW action, AuditRecord(action, d)
    PROVE  Harmless
<1>1. auditLogs' \in Seq(AuditLog)
  <2>1. CASE action \in Audited
    <3>1. [action |-> action, document |-> d] \in AuditLog
      BY <2>1 DEF AuditLog, TablesOK
    <3> QED
      BY <2>1, <3>1, AppendProperties DEF AuditRecord, TablesOK
  <2>2. CASE action \notin Audited
    BY <2>2 DEF AuditRecord, TablesOK
  <2> QED
    BY <2>1, <2>2
<1> QED
  BY <1>1 DEF AuditRecord, Harmless, OnlyFirstProcessed, TablesOK, TablesGrow, NoRunOpened, RowsRefer

---------------------------------------------------------------------------
(* What a step of a run may do to its worker *)

PastExactCheck == {"find_near", "calculate_confidence", "finalize"}

\* A worker past the exact check holds the first document with its content,
\* and so does every document that was processed automatically.
FirstInv ==
    /\ \A w \in Workers :
          worker[w].pc \in PastExactCheck => IsFirst(worker[w].document)
    /\ \A d \in DOMAIN documents :
          documents[d].status = "AUTO_PROCESSED" => IsFirst(d)

\* A worker about to open a review task knows the reason.
ReasonInv ==
    \A w \in Workers : worker[w].pc = "create_task" => worker[w].reason # "none"

Inv == TypeOK /\ ReasonInv /\ FirstInv

\* The run of w goes on with the same document and run, or is over.
RunMove(w) ==
    \E st \in WorkerState :
        /\ worker' = [worker EXCEPT ![w] = st]
        /\ \/ st = Polling
           \/ /\ worker[w].pc \in RunPc /\ st.pc \in RunPc
              /\ st.document = worker[w].document
              /\ st.run = worker[w].run
              /\ st.snapshot = worker[w].snapshot
              /\ st.pc \in PastExactCheck => IsFirst(worker[w].document)
              /\ st.pc = "create_task" => st.reason # "none"

RunStep(w) == Harmless /\ RunMove(w) /\ databaseErrors' \in Nat

LEMMA PcFacts ==
    /\ "poll" \notin RunPc /\ "poll" \notin ClaimPc
    /\ "lock" \notin RunPc /\ "open_run" \notin RunPc
    /\ "load" \in RunPc
    /\ StepPc \subseteq RunPc /\ PersistPc \subseteq RunPc /\ ClosePc \subseteq RunPc
    /\ RunPc \cap PastExactCheck = PastExactCheck
    /\ "poll" \notin PastExactCheck /\ "open_run" \notin PastExactCheck
    /\ "lock" \notin PastExactCheck /\ "load" \notin PastExactCheck
    /\ "fail_finish" \notin PastExactCheck
BY DEF RunPc, ClaimPc, StepPc, PersistPc, ClosePc, PastExactCheck

LEMMA PollingTyped == Polling \in WorkerState
BY DEF Polling, WorkerState

LEMMA ReturnMoves ==
    ASSUME Inv, NEW w \in Workers, Return(w)
    PROVE  RunMove(w)
BY PollingTyped DEF Return, RunMove

\* A document that is first is passed on from one gate to the next.
LEMMA GotoMoves ==
    ASSUME Inv, NEW w \in Workers, worker[w].pc \in RunPc,
           NEW pc \in RunPc, pc # "create_task", Goto(w, pc),
           pc \in PastExactCheck => IsFirst(worker[w].document)
    PROVE  RunMove(w)
<1> DEFINE st == [worker[w] EXCEPT !.pc = pc]
<1>1. worker[w] \in WorkerState
  BY DEF Inv, TypeOK, WorkerTypeOK
<1>2. /\ st \in WorkerState /\ st.pc = pc
      /\ st.document = worker[w].document /\ st.run = worker[w].run
      /\ st.snapshot = worker[w].snapshot
  BY <1>1 DEF WorkerState
<1>3. worker' = [worker EXCEPT ![w] = st]
  BY DEF Goto
<1> HIDE DEF st
<1> QED
  BY <1>2, <1>3 DEF RunMove

LEMMA FailMoves ==
    ASSUME Inv, NEW w \in Workers, worker[w].pc \in RunPc, Fail(w)
    PROVE  RunMove(w)
BY GotoMoves, PcFacts DEF Fail, ClosePc

LEMMA EnterMoves ==
    ASSUME Inv, NEW w \in Workers, worker[w].pc \in RunPc,
           NEW pc \in RunPc, pc # "create_task", Enter(w, pc),
           pc \in PastExactCheck => IsFirst(worker[w].document)
    PROVE  RunMove(w)
<1> DEFINE n == worker[w].iterations + 1
           st == [worker[w] EXCEPT !.pc = pc, !.iterations = n]
<1>1. worker[w] \in WorkerState
  BY DEF Inv, TypeOK, WorkerTypeOK
<1>4. n \in Nat
  BY <1>1 DEF WorkerState
<1>3. worker' = [worker EXCEPT ![w] = st]
  BY DEF Enter
<1> HIDE DEF n
<1>2. /\ st \in WorkerState /\ st.pc = pc
      /\ st.document = worker[w].document /\ st.run = worker[w].run
      /\ st.snapshot = worker[w].snapshot
  BY <1>1, <1>4 DEF WorkerState
<1> HIDE DEF st
<1> QED
  BY <1>2, <1>3 DEF RunMove

LEMMA RouteMoves ==
    ASSUME Inv, NEW w \in Workers, worker[w].pc \in RunPc,
           NEW reason \in ReviewReason, RouteToReview(w, reason)
    PROVE  RunMove(w)
<1> DEFINE st == [worker[w] EXCEPT !.pc = "create_task", !.reason = reason]
<1>1. worker[w] \in WorkerState
  BY DEF Inv, TypeOK, WorkerTypeOK
<1>2. /\ st \in WorkerState /\ st.pc = "create_task" /\ st.reason # "none"
      /\ st.document = worker[w].document /\ st.run = worker[w].run
      /\ st.snapshot = worker[w].snapshot
  BY <1>1 DEF WorkerState, RunPc, ClosePc, ReviewReason
<1>3. worker' = [worker EXCEPT ![w] = st]
  BY DEF RouteToReview
<1>4. "create_task" \in RunPc \ PastExactCheck
  BY DEF RunPc, ClosePc, PastExactCheck
<1> HIDE DEF st
<1> QED
  BY <1>2, <1>3, <1>4 DEF RunMove

\* What the invariant says of a worker that has a run
LEMMA RunFacts ==
    ASSUME Inv, NEW w \in Workers, worker[w].pc \in RunPc
    PROVE  /\ TablesOK
           /\ worker[w] \in WorkerState
           /\ worker[w].document \in DOMAIN documents
           /\ worker[w].run \in DOMAIN agentRuns
           /\ worker[w].pc \in PastExactCheck => IsFirst(worker[w].document)
           /\ worker[w].pc = "create_task" => worker[w].reason \in ReviewReason
BY DEF Inv, ReasonInv, WorkerState, TypeOK, TablesOK, DatabaseTypeOK, WorkerTypeOK, WorkerRowsExist, FirstInv

---------------------------------------------------------------------------
(* One lemma per action of the worker *)

LEMMA NoStatementHarmless ==
    ASSUME Inv, NoStatement
    PROVE  Harmless /\ databaseErrors' \in Nat
<1>1. TablesOK /\ databaseErrors \in Nat
  BY DEF Inv, TypeOK, TablesOK, DatabaseTypeOK
<1> QED
  BY <1>1, UnchangedHarmless DEF NoStatement

LEMMA ErrorHarmless ==
    ASSUME Inv, UNCHANGED tables, databaseErrors' = databaseErrors + 1
    PROVE  Harmless /\ databaseErrors' \in Nat
<1>1. TablesOK /\ databaseErrors \in Nat
  BY DEF Inv, TypeOK, TablesOK, DatabaseTypeOK
<1> QED
  BY <1>1, UnchangedHarmless

LEMMA FinishRunHarmless ==
    ASSUME Inv, NEW w \in Workers, worker[w].pc \in RunPc,
           NEW s \in {"COMPLETED", "FAILED"}, FinishRun(w, s)
    PROVE  Harmless
<1>1. worker[w].iterations \in Nat
  BY RunFacts DEF WorkerState
<1> QED
  BY <1>1, RunFacts, FinishHarmless DEF FinishRun

LEMMA LoadStep ==
    ASSUME Inv, NEW w \in Workers, LoadDocument(w)
    PROVE  RunStep(w)
<1>1. worker[w].pc = "load" /\ worker[w].pc \in RunPc
  BY PcFacts DEF LoadDocument, At, RunPc
<1>2. /\ "run_ocr" \in RunPc
      /\ "run_ocr" \notin PastExactCheck
  BY PcFacts DEF PastExactCheck, StepPc
<1>4. ASSUME UNCHANGED tables PROVE Harmless
  BY <1>4, <1>1, <1>2, RunFacts, UnchangedHarmless
<1>5. CASE UNCHANGED tables /\ Enter(w, "run_ocr") /\ UNCHANGED databaseErrors
  <2>1. databaseErrors' \in Nat
    BY <1>5 DEF Inv, TypeOK, DatabaseTypeOK
  <2>2. RunMove(w)
    BY <1>5, <1>1, <1>2, RunFacts, EnterMoves
  <2> QED
    BY <1>4, <1>5, <2>1, <2>2 DEF RunStep
<1>6. CASE UNCHANGED tables /\ Fail(w) /\ databaseErrors' = databaseErrors + 1
  <2>1. RunMove(w)
    BY <1>6, <1>1, <1>2, RunFacts, FailMoves
  <2> QED
    BY <1>6, <2>1, ErrorHarmless DEF RunStep
<1> QED
  BY <1>5, <1>6 DEF LoadDocument, Attempt

LEMMA ClassificationStep ==
    ASSUME Inv, NEW w \in Workers, PersistClassification(w)
    PROVE  RunStep(w)
<1>1. worker[w].pc = "mark_classified" /\ worker[w].pc \in RunPc
  BY PcFacts DEF PersistClassification, At, PersistPc
<1>2. /\ "audit_classified" \in RunPc
      /\ "audit_classified" \notin PastExactCheck
  BY PcFacts DEF PastExactCheck, PersistPc
<1>4. ASSUME MarkClassified(worker[w].document) PROVE Harmless
  BY <1>4, <1>1, <1>2, RunFacts, SetStatusHarmless DEF MarkClassified, DocumentStatus
<1>5. CASE MarkClassified(worker[w].document) /\ Goto(w, "audit_classified") /\ UNCHANGED databaseErrors
  <2>1. databaseErrors' \in Nat
    BY <1>5 DEF Inv, TypeOK, DatabaseTypeOK
  <2>2. RunMove(w)
    BY <1>5, <1>1, <1>2, RunFacts, GotoMoves
  <2> QED
    BY <1>4, <1>5, <2>1, <2>2 DEF RunStep
<1>6. CASE UNCHANGED tables /\ Fail(w) /\ databaseErrors' = databaseErrors + 1
  <2>1. RunMove(w)
    BY <1>6, <1>1, <1>2, RunFacts, FailMoves
  <2> QED
    BY <1>6, <2>1, ErrorHarmless DEF RunStep
<1> QED
  BY <1>5, <1>6 DEF PersistClassification, Attempt

LEMMA AuditClassifiedStep ==
    ASSUME Inv, NEW w \in Workers, AuditClassified(w)
    PROVE  RunStep(w)
<1>1. worker[w].pc = "audit_classified" /\ worker[w].pc \in RunPc
  BY PcFacts DEF AuditClassified, At, PersistPc
<1>2. /\ "extract" \in RunPc
      /\ "extract" \notin PastExactCheck
  BY PcFacts DEF PastExactCheck, StepPc
<1>4. ASSUME AuditRecord("document.classified", worker[w].document) PROVE Harmless
  BY <1>4, <1>1, <1>2, RunFacts, AuditRecordHarmless
<1>5. CASE AuditRecord("document.classified", worker[w].document) /\ Enter(w, "extract") /\ UNCHANGED databaseErrors
  <2>1. databaseErrors' \in Nat
    BY <1>5 DEF Inv, TypeOK, DatabaseTypeOK
  <2>2. RunMove(w)
    BY <1>5, <1>1, <1>2, RunFacts, EnterMoves
  <2> QED
    BY <1>4, <1>5, <2>1, <2>2 DEF RunStep
<1>6. CASE UNCHANGED tables /\ Enter(w, "extract") /\ databaseErrors' = databaseErrors + 1
  <2>1. RunMove(w)
    BY <1>6, <1>1, <1>2, RunFacts, EnterMoves
  <2> QED
    BY <1>6, <2>1, ErrorHarmless DEF RunStep
<1> QED
  BY <1>5, <1>6 DEF AuditClassified, Attempt

LEMMA FieldsStep ==
    ASSUME Inv, NEW w \in Workers, PersistFields(w)
    PROVE  RunStep(w)
<1>1. worker[w].pc = "insert_fields" /\ worker[w].pc \in RunPc
  BY PcFacts DEF PersistFields, At, PersistPc
<1>2. /\ "mark_extracted" \in RunPc
      /\ "mark_extracted" \notin PastExactCheck
  BY PcFacts DEF PastExactCheck, PersistPc
<1>4. ASSUME InsertBatch(worker[w].document, Agent) PROVE Harmless
  BY <1>4, <1>1, <1>2, RunFacts, InsertBatchHarmless
<1>5. CASE InsertBatch(worker[w].document, Agent) /\ Goto(w, "mark_extracted") /\ UNCHANGED databaseErrors
  <2>1. databaseErrors' \in Nat
    BY <1>5 DEF Inv, TypeOK, DatabaseTypeOK
  <2>2. RunMove(w)
    BY <1>5, <1>1, <1>2, RunFacts, GotoMoves
  <2> QED
    BY <1>4, <1>5, <2>1, <2>2 DEF RunStep
<1>6. CASE UNCHANGED tables /\ Fail(w) /\ databaseErrors' = databaseErrors + 1
  <2>1. RunMove(w)
    BY <1>6, <1>1, <1>2, RunFacts, FailMoves
  <2> QED
    BY <1>6, <2>1, ErrorHarmless DEF RunStep
<1>7. CASE Fail(w) /\ NoStatement
  BY <1>7, <1>1, RunFacts, FailMoves, NoStatementHarmless DEF RunStep
<1> QED
  BY <1>5, <1>6, <1>7 DEF PersistFields, Attempt

LEMMA ExtractedStep ==
    ASSUME Inv, NEW w \in Workers, PersistExtracted(w)
    PROVE  RunStep(w)
<1>1. worker[w].pc = "mark_extracted" /\ worker[w].pc \in RunPc
  BY PcFacts DEF PersistExtracted, At, PersistPc
<1>2. /\ "audit_extracted" \in RunPc
      /\ "audit_extracted" \notin PastExactCheck
  BY PcFacts DEF PastExactCheck, PersistPc
<1>4. ASSUME MarkExtracted(worker[w].document) PROVE Harmless
  BY <1>4, <1>1, <1>2, RunFacts, SetStatusHarmless DEF MarkExtracted, DocumentStatus
<1>5. CASE MarkExtracted(worker[w].document) /\ Goto(w, "audit_extracted") /\ UNCHANGED databaseErrors
  <2>1. databaseErrors' \in Nat
    BY <1>5 DEF Inv, TypeOK, DatabaseTypeOK
  <2>2. RunMove(w)
    BY <1>5, <1>1, <1>2, RunFacts, GotoMoves
  <2> QED
    BY <1>4, <1>5, <2>1, <2>2 DEF RunStep
<1>6. CASE UNCHANGED tables /\ Fail(w) /\ databaseErrors' = databaseErrors + 1
  <2>1. RunMove(w)
    BY <1>6, <1>1, <1>2, RunFacts, FailMoves
  <2> QED
    BY <1>6, <2>1, ErrorHarmless DEF RunStep
<1> QED
  BY <1>5, <1>6 DEF PersistExtracted, Attempt

LEMMA AuditExtractedStep ==
    ASSUME Inv, NEW w \in Workers, AuditExtracted(w)
    PROVE  RunStep(w)
<1>1. worker[w].pc = "audit_extracted" /\ worker[w].pc \in RunPc
  BY PcFacts DEF AuditExtracted, At, PersistPc
<1>2. /\ "set_key" \in RunPc /\ "validate" \in RunPc
      /\ "set_key" \notin PastExactCheck /\ "validate" \notin PastExactCheck
  BY PcFacts DEF PastExactCheck, PersistPc, StepPc
<1>4. ASSUME AuditRecord("document.extracted", worker[w].document) PROVE Harmless
  BY <1>4, <1>1, <1>2, RunFacts, AuditRecordHarmless
<1>5. CASE AuditRecord("document.extracted", worker[w].document) /\ (Enter(w, "validate") \/ Goto(w, "set_key")) /\ UNCHANGED databaseErrors
  <2>1. databaseErrors' \in Nat
    BY <1>5 DEF Inv, TypeOK, DatabaseTypeOK
  <2>2. RunMove(w)
    BY <1>5, <1>1, <1>2, RunFacts, EnterMoves, GotoMoves
  <2> QED
    BY <1>4, <1>5, <2>1, <2>2 DEF RunStep
<1>6. CASE UNCHANGED tables /\ (Enter(w, "validate") \/ Goto(w, "set_key")) /\ databaseErrors' = databaseErrors + 1
  <2>1. RunMove(w)
    BY <1>6, <1>1, <1>2, RunFacts, EnterMoves, GotoMoves
  <2> QED
    BY <1>6, <2>1, ErrorHarmless DEF RunStep
<1> QED
  BY <1>5, <1>6 DEF AuditExtracted, Attempt, AfterExtraction

LEMMA KeyStep ==
    ASSUME Inv, NEW w \in Workers, PersistKey(w)
    PROVE  RunStep(w)
<1>1. worker[w].pc = "set_key" /\ worker[w].pc \in RunPc
  BY PcFacts DEF PersistKey, At, PersistPc
<1>2. /\ "validate" \in RunPc
      /\ "validate" \notin PastExactCheck
  BY PcFacts DEF PastExactCheck, StepPc
<1>4. ASSUME SetKeyFieldsHash(worker[w].document, worker[w].key) PROVE Harmless
  BY <1>4, <1>1, <1>2, RunFacts, SetKeyHarmless DEF WorkerState
<1>5. CASE SetKeyFieldsHash(worker[w].document, worker[w].key) /\ Enter(w, "validate") /\ UNCHANGED databaseErrors
  <2>1. databaseErrors' \in Nat
    BY <1>5 DEF Inv, TypeOK, DatabaseTypeOK
  <2>2. RunMove(w)
    BY <1>5, <1>1, <1>2, RunFacts, EnterMoves
  <2> QED
    BY <1>4, <1>5, <2>1, <2>2 DEF RunStep
<1>6. CASE UNCHANGED tables /\ Enter(w, "validate") /\ databaseErrors' = databaseErrors + 1
  <2>1. RunMove(w)
    BY <1>6, <1>1, <1>2, RunFacts, EnterMoves
  <2> QED
    BY <1>6, <2>1, ErrorHarmless DEF RunStep
<1> QED
  BY <1>5, <1>6 DEF PersistKey, Attempt

LEMMA ValidatedStep ==
    ASSUME Inv, NEW w \in Workers, PersistValidated(w)
    PROVE  RunStep(w)
<1>1. worker[w].pc = "mark_validated" /\ worker[w].pc \in RunPc
  BY PcFacts DEF PersistValidated, At, PersistPc
<1>2. /\ "audit_validated" \in RunPc
      /\ "audit_validated" \notin PastExactCheck
  BY PcFacts DEF PastExactCheck, PersistPc
<1>4. ASSUME MarkValidated(worker[w].document) PROVE Harmless
  BY <1>4, <1>1, <1>2, RunFacts, SetStatusHarmless DEF MarkValidated, DocumentStatus
<1>5. CASE MarkValidated(worker[w].document) /\ Goto(w, "audit_validated") /\ UNCHANGED databaseErrors
  <2>1. databaseErrors' \in Nat
    BY <1>5 DEF Inv, TypeOK, DatabaseTypeOK
  <2>2. RunMove(w)
    BY <1>5, <1>1, <1>2, RunFacts, GotoMoves
  <2> QED
    BY <1>4, <1>5, <2>1, <2>2 DEF RunStep
<1>6. CASE UNCHANGED tables /\ Fail(w) /\ databaseErrors' = databaseErrors + 1
  <2>1. RunMove(w)
    BY <1>6, <1>1, <1>2, RunFacts, FailMoves
  <2> QED
    BY <1>6, <2>1, ErrorHarmless DEF RunStep
<1> QED
  BY <1>5, <1>6 DEF PersistValidated, Attempt

LEMMA AuditValidatedStep ==
    ASSUME Inv, NEW w \in Workers, AuditValidated(w)
    PROVE  RunStep(w)
<1>1. worker[w].pc = "audit_validated" /\ worker[w].pc \in RunPc
  BY PcFacts DEF AuditValidated, At, PersistPc
<1>2. /\ "find_exact" \in RunPc
      /\ "find_exact" \notin PastExactCheck
  BY PcFacts DEF PastExactCheck, StepPc
<1>4. ASSUME AuditRecord("document.validated", worker[w].document) PROVE Harmless
  BY <1>4, <1>1, <1>2, RunFacts, AuditRecordHarmless
<1>5. CASE AuditRecord("document.validated", worker[w].document) /\ Enter(w, "find_exact") /\ UNCHANGED databaseErrors
  <2>1. databaseErrors' \in Nat
    BY <1>5 DEF Inv, TypeOK, DatabaseTypeOK
  <2>2. RunMove(w)
    BY <1>5, <1>1, <1>2, RunFacts, EnterMoves
  <2> QED
    BY <1>4, <1>5, <2>1, <2>2 DEF RunStep
<1>6. CASE UNCHANGED tables /\ Enter(w, "find_exact") /\ databaseErrors' = databaseErrors + 1
  <2>1. RunMove(w)
    BY <1>6, <1>1, <1>2, RunFacts, EnterMoves
  <2> QED
    BY <1>6, <2>1, ErrorHarmless DEF RunStep
<1> QED
  BY <1>5, <1>6 DEF AuditValidated, Attempt

LEMMA DuplicateStep ==
    ASSUME Inv, NEW w \in Workers, PersistDuplicate(w)
    PROVE  RunStep(w)
<1>1. worker[w].pc = "mark_duplicate" /\ worker[w].pc \in RunPc
  BY PcFacts DEF PersistDuplicate, At, PersistPc
<1>4. ASSUME MarkDuplicateOf(worker[w].document, worker[w].duplicateOf) PROVE Harmless
  BY <1>4, <1>1, RunFacts, MarkDuplicateHarmless DEF WorkerState
<1>5. CASE MarkDuplicateOf(worker[w].document, worker[w].duplicateOf) /\ RouteToReview(w, "DUPLICATE") /\ UNCHANGED databaseErrors
  <2>1. databaseErrors' \in Nat
    BY <1>5 DEF Inv, TypeOK, DatabaseTypeOK
  <2>2. RunMove(w)
    BY <1>5, <1>1, RunFacts, RouteMoves DEF ReviewReason
  <2> QED
    BY <1>4, <1>5, <2>1, <2>2 DEF RunStep
<1>6. CASE UNCHANGED tables /\ RouteToReview(w, "DUPLICATE") /\ databaseErrors' = databaseErrors + 1
  <2>1. RunMove(w)
    BY <1>6, <1>1, RunFacts, RouteMoves DEF ReviewReason
  <2> QED
    BY <1>6, <2>1, ErrorHarmless DEF RunStep
<1> QED
  BY <1>5, <1>6 DEF PersistDuplicate, Attempt

LEMMA ConfidenceStep ==
    ASSUME Inv, NEW w \in Workers, CalculateConfidence(w)
    PROVE  RunStep(w)
<1>1. worker[w].pc = "calculate_confidence" /\ worker[w].pc \in RunPc
  BY PcFacts DEF CalculateConfidence, Step, At, StepPc
<1>2. /\ "finalize" \in RunPc
  BY PcFacts DEF PastExactCheck, StepPc
<1>3. IsFirst(worker[w].document)
  BY <1>1, RunFacts DEF PastExactCheck
<1>4. ASSUME UNCHANGED tables PROVE Harmless
  BY <1>4, <1>1, <1>2, RunFacts, <1>3, UnchangedHarmless
<1>5. CASE UNCHANGED tables /\ (Enter(w, "finalize") \/ RouteToReview(w, "LOW_CONFIDENCE")) /\ UNCHANGED databaseErrors
  <2>1. databaseErrors' \in Nat
    BY <1>5 DEF Inv, TypeOK, DatabaseTypeOK
  <2>2. RunMove(w)
    BY <1>5, <1>1, <1>2, RunFacts, <1>3, EnterMoves, RouteMoves DEF ReviewReason
  <2> QED
    BY <1>4, <1>5, <2>1, <2>2 DEF RunStep
<1>6. CASE UNCHANGED tables /\ Fail(w) /\ databaseErrors' = databaseErrors + 1
  <2>1. RunMove(w)
    BY <1>6, <1>1, <1>2, RunFacts, <1>3, FailMoves
  <2> QED
    BY <1>6, <2>1, ErrorHarmless DEF RunStep
<1> QED
  BY <1>5, <1>6 DEF CalculateConfidence, Attempt

LEMMA FinalizeStep ==
    ASSUME Inv, NEW w \in Workers, FinalizeDocument(w)
    PROVE  RunStep(w)
<1>1. worker[w].pc = "finalize" /\ worker[w].pc \in RunPc
  BY PcFacts DEF FinalizeDocument, Step, At, StepPc
<1>2. /\ "finish_auto" \in RunPc
      /\ "finish_auto" \notin PastExactCheck
  BY PcFacts DEF PastExactCheck, ClosePc
<1>3. IsFirst(worker[w].document)
  BY <1>1, RunFacts DEF PastExactCheck
<1>4. ASSUME MarkAutoProcessed(worker[w].document) PROVE Harmless
  BY <1>4, <1>1, <1>2, RunFacts, <1>3, SetStatusHarmless DEF MarkAutoProcessed, DocumentStatus
<1>5. CASE MarkAutoProcessed(worker[w].document) /\ Goto(w, "finish_auto") /\ UNCHANGED databaseErrors
  <2>1. databaseErrors' \in Nat
    BY <1>5 DEF Inv, TypeOK, DatabaseTypeOK
  <2>2. RunMove(w)
    BY <1>5, <1>1, <1>2, RunFacts, <1>3, GotoMoves
  <2> QED
    BY <1>4, <1>5, <2>1, <2>2 DEF RunStep
<1>6. CASE UNCHANGED tables /\ Fail(w) /\ databaseErrors' = databaseErrors + 1
  <2>1. RunMove(w)
    BY <1>6, <1>1, <1>2, RunFacts, <1>3, FailMoves
  <2> QED
    BY <1>6, <2>1, ErrorHarmless DEF RunStep
<1> QED
  BY <1>5, <1>6 DEF FinalizeDocument, Attempt

LEMMA FinishAutoStep ==
    ASSUME Inv, NEW w \in Workers, FinishAutoProcessed(w)
    PROVE  RunStep(w)
<1>1. worker[w].pc = "finish_auto" /\ worker[w].pc \in RunPc
  BY PcFacts DEF FinishAutoProcessed, At, ClosePc
<1>2. /\ "audit_auto" \in RunPc
      /\ "audit_auto" \notin PastExactCheck
  BY PcFacts DEF PastExactCheck, ClosePc
<1>4. ASSUME FinishRun(w, "COMPLETED") PROVE Harmless
  BY <1>4, <1>1, <1>2, RunFacts, FinishRunHarmless
<1>5. CASE FinishRun(w, "COMPLETED") /\ Goto(w, "audit_auto") /\ UNCHANGED databaseErrors
  <2>1. databaseErrors' \in Nat
    BY <1>5 DEF Inv, TypeOK, DatabaseTypeOK
  <2>2. RunMove(w)
    BY <1>5, <1>1, <1>2, RunFacts, GotoMoves
  <2> QED
    BY <1>4, <1>5, <2>1, <2>2 DEF RunStep
<1>6. CASE UNCHANGED tables /\ Goto(w, "audit_auto") /\ databaseErrors' = databaseErrors + 1
  <2>1. RunMove(w)
    BY <1>6, <1>1, <1>2, RunFacts, GotoMoves
  <2> QED
    BY <1>6, <2>1, ErrorHarmless DEF RunStep
<1> QED
  BY <1>5, <1>6 DEF FinishAutoProcessed, Attempt

LEMMA AuditAutoStep ==
    ASSUME Inv, NEW w \in Workers, AuditAutoProcessed(w)
    PROVE  RunStep(w)
<1>1. worker[w].pc = "audit_auto" /\ worker[w].pc \in RunPc
  BY PcFacts DEF AuditAutoProcessed, At, ClosePc
<1>4. ASSUME AuditRecord("document.auto_processed", worker[w].document) PROVE Harmless
  BY <1>4, <1>1, RunFacts, AuditRecordHarmless
<1>5. CASE AuditRecord("document.auto_processed", worker[w].document) /\ Return(w) /\ UNCHANGED databaseErrors
  <2>1. databaseErrors' \in Nat
    BY <1>5 DEF Inv, TypeOK, DatabaseTypeOK
  <2>2. RunMove(w)
    BY <1>5, <1>1, RunFacts, ReturnMoves
  <2> QED
    BY <1>4, <1>5, <2>1, <2>2 DEF RunStep
<1>6. CASE UNCHANGED tables /\ Return(w) /\ databaseErrors' = databaseErrors + 1
  <2>1. RunMove(w)
    BY <1>6, <1>1, RunFacts, ReturnMoves
  <2> QED
    BY <1>6, <2>1, ErrorHarmless DEF RunStep
<1> QED
  BY <1>5, <1>6 DEF AuditAutoProcessed, Attempt

LEMMA OpenTaskStep ==
    ASSUME Inv, NEW w \in Workers, OpenReviewTask(w)
    PROVE  RunStep(w)
<1>1. worker[w].pc = "create_task" /\ worker[w].pc \in RunPc
  BY PcFacts DEF OpenReviewTask, At, ClosePc
<1>2. /\ "mark_pending" \in RunPc
      /\ "mark_pending" \notin PastExactCheck
  BY PcFacts DEF PastExactCheck, ClosePc
<1>4. ASSUME CreateReviewTask(worker[w].document, worker[w].reason) PROVE Harmless
  <2>1. worker[w].reason \in ReviewReason
    BY <1>1, RunFacts
  <2> QED
    BY <1>4, <2>1, RunFacts, <1>1, CreateTaskHarmless
<1>5. CASE CreateReviewTask(worker[w].document, worker[w].reason) /\ Goto(w, "mark_pending") /\ UNCHANGED databaseErrors
  <2>1. databaseErrors' \in Nat
    BY <1>5 DEF Inv, TypeOK, DatabaseTypeOK
  <2>2. RunMove(w)
    BY <1>5, <1>1, <1>2, RunFacts, GotoMoves
  <2> QED
    BY <1>4, <1>5, <2>1, <2>2 DEF RunStep
<1>6. CASE UNCHANGED tables /\ Goto(w, "mark_pending") /\ databaseErrors' = databaseErrors + 1
  <2>1. RunMove(w)
    BY <1>6, <1>1, <1>2, RunFacts, GotoMoves
  <2> QED
    BY <1>6, <2>1, ErrorHarmless DEF RunStep
<1> QED
  BY <1>5, <1>6 DEF OpenReviewTask, Attempt

LEMMA PendingReviewStep ==
    ASSUME Inv, NEW w \in Workers, PersistPendingReview(w)
    PROVE  RunStep(w)
<1>1. worker[w].pc = "mark_pending" /\ worker[w].pc \in RunPc
  BY PcFacts DEF PersistPendingReview, At, ClosePc
<1>2. /\ "finish_review" \in RunPc
      /\ "finish_review" \notin PastExactCheck
  BY PcFacts DEF PastExactCheck, ClosePc
<1>4. ASSUME MarkPendingReview(worker[w].document) PROVE Harmless
  BY <1>4, <1>1, <1>2, RunFacts, SetStatusHarmless DEF MarkPendingReview, DocumentStatus
<1>5. CASE MarkPendingReview(worker[w].document) /\ Goto(w, "finish_review") /\ UNCHANGED databaseErrors
  <2>1. databaseErrors' \in Nat
    BY <1>5 DEF Inv, TypeOK, DatabaseTypeOK
  <2>2. RunMove(w)
    BY <1>5, <1>1, <1>2, RunFacts, GotoMoves
  <2> QED
    BY <1>4, <1>5, <2>1, <2>2 DEF RunStep
<1>6. CASE UNCHANGED tables /\ Goto(w, "finish_review") /\ databaseErrors' = databaseErrors + 1
  <2>1. RunMove(w)
    BY <1>6, <1>1, <1>2, RunFacts, GotoMoves
  <2> QED
    BY <1>6, <2>1, ErrorHarmless DEF RunStep
<1> QED
  BY <1>5, <1>6 DEF PersistPendingReview, Attempt

LEMMA FinishRoutedStep ==
    ASSUME Inv, NEW w \in Workers, FinishRouted(w)
    PROVE  RunStep(w)
<1>1. worker[w].pc = "finish_review" /\ worker[w].pc \in RunPc
  BY PcFacts DEF FinishRouted, At, ClosePc
<1>2. /\ "audit_review" \in RunPc
      /\ "audit_review" \notin PastExactCheck
  BY PcFacts DEF PastExactCheck, ClosePc
<1>4. ASSUME FinishRun(w, "COMPLETED") PROVE Harmless
  BY <1>4, <1>1, <1>2, RunFacts, FinishRunHarmless
<1>5. CASE FinishRun(w, "COMPLETED") /\ Goto(w, "audit_review") /\ UNCHANGED databaseErrors
  <2>1. databaseErrors' \in Nat
    BY <1>5 DEF Inv, TypeOK, DatabaseTypeOK
  <2>2. RunMove(w)
    BY <1>5, <1>1, <1>2, RunFacts, GotoMoves
  <2> QED
    BY <1>4, <1>5, <2>1, <2>2 DEF RunStep
<1>6. CASE UNCHANGED tables /\ Goto(w, "audit_review") /\ databaseErrors' = databaseErrors + 1
  <2>1. RunMove(w)
    BY <1>6, <1>1, <1>2, RunFacts, GotoMoves
  <2> QED
    BY <1>6, <2>1, ErrorHarmless DEF RunStep
<1> QED
  BY <1>5, <1>6 DEF FinishRouted, Attempt

LEMMA AuditRoutedStep ==
    ASSUME Inv, NEW w \in Workers, AuditRouted(w)
    PROVE  RunStep(w)
<1>1. worker[w].pc = "audit_review" /\ worker[w].pc \in RunPc
  BY PcFacts DEF AuditRouted, At, ClosePc
<1>4. ASSUME AuditRecord("document.routed_to_review", worker[w].document) PROVE Harmless
  BY <1>4, <1>1, RunFacts, AuditRecordHarmless
<1>5. CASE AuditRecord("document.routed_to_review", worker[w].document) /\ Return(w) /\ UNCHANGED databaseErrors
  <2>1. databaseErrors' \in Nat
    BY <1>5 DEF Inv, TypeOK, DatabaseTypeOK
  <2>2. RunMove(w)
    BY <1>5, <1>1, RunFacts, ReturnMoves
  <2> QED
    BY <1>4, <1>5, <2>1, <2>2 DEF RunStep
<1>6. CASE UNCHANGED tables /\ Return(w) /\ databaseErrors' = databaseErrors + 1
  <2>1. RunMove(w)
    BY <1>6, <1>1, RunFacts, ReturnMoves
  <2> QED
    BY <1>6, <2>1, ErrorHarmless DEF RunStep
<1> QED
  BY <1>5, <1>6 DEF AuditRouted, Attempt

LEMMA FinishFailedStep ==
    ASSUME Inv, NEW w \in Workers, FinishFailed(w)
    PROVE  RunStep(w)
<1>1. worker[w].pc = "fail_finish" /\ worker[w].pc \in RunPc
  BY PcFacts DEF FinishFailed, At, ClosePc
<1>2. /\ "fail_count" \in RunPc /\ "fail_mark" \in RunPc
      /\ "fail_count" \notin PastExactCheck /\ "fail_mark" \notin PastExactCheck
  BY PcFacts DEF PastExactCheck, ClosePc
<1>4. ASSUME FinishRun(w, "FAILED") PROVE Harmless
  BY <1>4, <1>1, <1>2, RunFacts, FinishRunHarmless
<1>5. CASE FinishRun(w, "FAILED") /\ (Goto(w, "fail_mark") \/ Goto(w, "fail_count")) /\ UNCHANGED databaseErrors
  <2>1. databaseErrors' \in Nat
    BY <1>5 DEF Inv, TypeOK, DatabaseTypeOK
  <2>2. RunMove(w)
    BY <1>5, <1>1, <1>2, RunFacts, GotoMoves
  <2> QED
    BY <1>4, <1>5, <2>1, <2>2 DEF RunStep
<1>6. CASE UNCHANGED tables /\ (Goto(w, "fail_mark") \/ Goto(w, "fail_count")) /\ databaseErrors' = databaseErrors + 1
  <2>1. RunMove(w)
    BY <1>6, <1>1, <1>2, RunFacts, GotoMoves
  <2> QED
    BY <1>6, <2>1, ErrorHarmless DEF RunStep
<1> QED
  BY <1>5, <1>6 DEF FinishFailed, Attempt, AfterFinishFailed

LEMMA CountStep ==
    ASSUME Inv, NEW w \in Workers, CountAttempts(w)
    PROVE  RunStep(w)
<1>1. worker[w].pc = "fail_count" /\ worker[w].pc \in RunPc
  BY PcFacts DEF CountAttempts, At, ClosePc
<1>2. /\ "fail_mark" \in RunPc /\ "fail_requeue" \in RunPc
      /\ "fail_mark" \notin PastExactCheck /\ "fail_requeue" \notin PastExactCheck
  BY PcFacts DEF PastExactCheck, ClosePc
<1>4. ASSUME UNCHANGED tables PROVE Harmless
  BY <1>4, <1>1, <1>2, RunFacts, UnchangedHarmless
<1>5. CASE UNCHANGED tables /\ (Goto(w, "fail_requeue") \/ Goto(w, "fail_mark")) /\ UNCHANGED databaseErrors
  <2>1. databaseErrors' \in Nat
    BY <1>5 DEF Inv, TypeOK, DatabaseTypeOK
  <2>2. RunMove(w)
    BY <1>5, <1>1, <1>2, RunFacts, GotoMoves
  <2> QED
    BY <1>4, <1>5, <2>1, <2>2 DEF RunStep
<1>6. CASE UNCHANGED tables /\ Goto(w, "fail_mark") /\ databaseErrors' = databaseErrors + 1
  <2>1. RunMove(w)
    BY <1>6, <1>1, <1>2, RunFacts, GotoMoves
  <2> QED
    BY <1>6, <2>1, ErrorHarmless DEF RunStep
<1> QED
  BY <1>5, <1>6 DEF CountAttempts, Attempt

LEMMA RequeueStep ==
    ASSUME Inv, NEW w \in Workers, Requeue(w)
    PROVE  RunStep(w)
<1>1. worker[w].pc = "fail_requeue" /\ worker[w].pc \in RunPc
  BY PcFacts DEF Requeue, At, ClosePc
<1>2. /\ "audit_retrying" \in RunPc
      /\ "audit_retrying" \notin PastExactCheck
  BY PcFacts DEF PastExactCheck, ClosePc
<1>4. ASSUME MarkUploaded(worker[w].document) PROVE Harmless
  BY <1>4, <1>1, <1>2, RunFacts, SetStatusHarmless DEF MarkUploaded, DocumentStatus
<1>5. CASE MarkUploaded(worker[w].document) /\ (Goto(w, "audit_retrying") \/ Return(w)) /\ UNCHANGED databaseErrors
  <2>1. databaseErrors' \in Nat
    BY <1>5 DEF Inv, TypeOK, DatabaseTypeOK
  <2>2. RunMove(w)
    BY <1>5, <1>1, <1>2, RunFacts, GotoMoves, ReturnMoves
  <2> QED
    BY <1>4, <1>5, <2>1, <2>2 DEF RunStep
<1>6. CASE UNCHANGED tables /\ (Goto(w, "audit_retrying") \/ Return(w)) /\ databaseErrors' = databaseErrors + 1
  <2>1. RunMove(w)
    BY <1>6, <1>1, <1>2, RunFacts, GotoMoves, ReturnMoves
  <2> QED
    BY <1>6, <2>1, ErrorHarmless DEF RunStep
<1> QED
  BY <1>5, <1>6 DEF Requeue, Attempt, AuditOrReturn

LEMMA AuditRetryingStep ==
    ASSUME Inv, NEW w \in Workers, AuditRetrying(w)
    PROVE  RunStep(w)
<1>1. worker[w].pc = "audit_retrying" /\ worker[w].pc \in RunPc
  BY PcFacts DEF AuditRetrying, At, ClosePc
<1>4. ASSUME AuditRecord("agent_run.retrying", worker[w].document) PROVE Harmless
  BY <1>4, <1>1, RunFacts, AuditRecordHarmless
<1>5. CASE AuditRecord("agent_run.retrying", worker[w].document) /\ Return(w) /\ UNCHANGED databaseErrors
  <2>1. databaseErrors' \in Nat
    BY <1>5 DEF Inv, TypeOK, DatabaseTypeOK
  <2>2. RunMove(w)
    BY <1>5, <1>1, RunFacts, ReturnMoves
  <2> QED
    BY <1>4, <1>5, <2>1, <2>2 DEF RunStep
<1>6. CASE UNCHANGED tables /\ Return(w) /\ databaseErrors' = databaseErrors + 1
  <2>1. RunMove(w)
    BY <1>6, <1>1, RunFacts, ReturnMoves
  <2> QED
    BY <1>6, <2>1, ErrorHarmless DEF RunStep
<1> QED
  BY <1>5, <1>6 DEF AuditRetrying, Attempt

LEMMA GiveUpStep ==
    ASSUME Inv, NEW w \in Workers, GiveUp(w)
    PROVE  RunStep(w)
<1>1. worker[w].pc = "fail_mark" /\ worker[w].pc \in RunPc
  BY PcFacts DEF GiveUp, At, ClosePc
<1>2. /\ "audit_failed" \in RunPc
      /\ "audit_failed" \notin PastExactCheck
  BY PcFacts DEF PastExactCheck, ClosePc
<1>4. ASSUME MarkFailed(worker[w].document) PROVE Harmless
  BY <1>4, <1>1, <1>2, RunFacts, SetStatusHarmless DEF MarkFailed, DocumentStatus
<1>5. CASE MarkFailed(worker[w].document) /\ (Goto(w, "audit_failed") \/ Return(w)) /\ UNCHANGED databaseErrors
  <2>1. databaseErrors' \in Nat
    BY <1>5 DEF Inv, TypeOK, DatabaseTypeOK
  <2>2. RunMove(w)
    BY <1>5, <1>1, <1>2, RunFacts, GotoMoves, ReturnMoves
  <2> QED
    BY <1>4, <1>5, <2>1, <2>2 DEF RunStep
<1>6. CASE UNCHANGED tables /\ (Goto(w, "audit_failed") \/ Return(w)) /\ databaseErrors' = databaseErrors + 1
  <2>1. RunMove(w)
    BY <1>6, <1>1, <1>2, RunFacts, GotoMoves, ReturnMoves
  <2> QED
    BY <1>6, <2>1, ErrorHarmless DEF RunStep
<1> QED
  BY <1>5, <1>6 DEF GiveUp, Attempt, AuditOrReturn

LEMMA AuditFailedStep ==
    ASSUME Inv, NEW w \in Workers, AuditFailed(w)
    PROVE  RunStep(w)
<1>1. worker[w].pc = "audit_failed" /\ worker[w].pc \in RunPc
  BY PcFacts DEF AuditFailed, At, ClosePc
<1>4. ASSUME AuditRecord("agent_run.failed", worker[w].document) PROVE Harmless
  BY <1>4, <1>1, RunFacts, AuditRecordHarmless
<1>5. CASE AuditRecord("agent_run.failed", worker[w].document) /\ Return(w) /\ UNCHANGED databaseErrors
  <2>1. databaseErrors' \in Nat
    BY <1>5 DEF Inv, TypeOK, DatabaseTypeOK
  <2>2. RunMove(w)
    BY <1>5, <1>1, RunFacts, ReturnMoves
  <2> QED
    BY <1>4, <1>5, <2>1, <2>2 DEF RunStep
<1>6. CASE UNCHANGED tables /\ Return(w) /\ databaseErrors' = databaseErrors + 1
  <2>1. RunMove(w)
    BY <1>6, <1>1, RunFacts, ReturnMoves
  <2> QED
    BY <1>6, <2>1, ErrorHarmless DEF RunStep
<1> QED
  BY <1>5, <1>6 DEF AuditFailed, Attempt

LEMMA IterationCapStep ==
    ASSUME Inv, NEW w \in Workers, IterationCapReached(w)
    PROVE  RunStep(w)
<1>1. worker[w].pc \in RunPc
  BY PcFacts DEF IterationCapReached
<1> QED
  BY <1>1, FailMoves, NoStatementHarmless DEF IterationCapReached, RunStep

LEMMA OCRStep ==
    ASSUME Inv, NEW w \in Workers, RunOCR(w)
    PROVE  RunStep(w)
<1>1. worker[w].pc \in RunPc
  BY PcFacts DEF RunOCR, Step, At, StepPc
<1>2. "classify" \in RunPc /\ "classify" \notin PastExactCheck
  BY PcFacts DEF StepPc, PastExactCheck
<1>3. RunMove(w)
  BY <1>1, <1>2, EnterMoves, FailMoves DEF RunOCR
<1> QED
  BY <1>3, NoStatementHarmless DEF RunOCR, RunStep

LEMMA ClassifyStep ==
    ASSUME Inv, NEW w \in Workers, ClassifyDocument(w)
    PROVE  RunStep(w)
<1>1. worker[w].pc \in RunPc
  BY PcFacts DEF ClassifyDocument, Step, At, StepPc
<1>2. "mark_classified" \in RunPc /\ "mark_classified" \notin PastExactCheck
  BY PcFacts DEF PersistPc, PastExactCheck
<1>3. RunMove(w)
  BY <1>1, <1>2, GotoMoves, RouteMoves, FailMoves DEF ClassifyDocument, ReviewReason
<1> QED
  BY <1>3, NoStatementHarmless DEF ClassifyDocument, RunStep

LEMMA ExtractStep ==
    ASSUME Inv, NEW w \in Workers, ExtractFields(w)
    PROVE  RunStep(w)
<1>1. worker[w].pc \in RunPc
  BY PcFacts DEF ExtractFields, Step, At, StepPc
<1>2. "insert_fields" \in RunPc /\ "insert_fields" \notin PastExactCheck
  BY PcFacts DEF PersistPc, PastExactCheck
<1>3. CASE Fail(w)
  BY <1>1, <1>3, FailMoves, NoStatementHarmless DEF ExtractFields, RunStep
<1>4. ASSUME NEW key \in Keys \cup {NoKey},
             worker' = [worker EXCEPT ![w] = [@ EXCEPT !.pc = "insert_fields", !.key = key]]
      PROVE  RunMove(w)
  <2> DEFINE st == [worker[w] EXCEPT !.pc = "insert_fields", !.key = key]
  <2>1. /\ st \in WorkerState /\ st.pc = "insert_fields"
        /\ st.document = worker[w].document /\ st.run = worker[w].run
        /\ st.snapshot = worker[w].snapshot
    BY <1>1, <1>2, RunFacts DEF WorkerState
  <2>2. worker' = [worker EXCEPT ![w] = st]
    BY <1>4
  <2> HIDE DEF st
  <2> QED
    BY <1>1, <1>2, <2>1, <2>2 DEF RunMove
<1> QED
  BY <1>3, <1>4, NoStatementHarmless DEF ExtractFields, RunStep

LEMMA ValidateStep ==
    ASSUME Inv, NEW w \in Workers, ValidateExtraction(w)
    PROVE  RunStep(w)
<1>1. worker[w].pc \in RunPc
  BY PcFacts DEF ValidateExtraction, Step, At, StepPc
<1>2. "mark_validated" \in RunPc /\ "mark_validated" \notin PastExactCheck
  BY PcFacts DEF PersistPc, PastExactCheck
<1>3. RunMove(w)
  BY <1>1, <1>2, GotoMoves, RouteMoves DEF ValidateExtraction, ReviewReason
<1> QED
  BY <1>3, NoStatementHarmless DEF ValidateExtraction, RunStep

LEMMA FoundDuplicateMoves ==
    ASSUME Inv, NEW w \in Workers, worker[w].pc \in RunPc,
           NEW matches \in SUBSET Nat, FoundDuplicate(w, matches)
    PROVE  RunMove(w)
<1>1. PICK d \in matches :
        worker' = [worker EXCEPT ![w] =
                      [@ EXCEPT !.pc = "mark_duplicate", !.duplicateOf = d]]
  BY DEF FoundDuplicate
<1> DEFINE st == [worker[w] EXCEPT !.pc = "mark_duplicate", !.duplicateOf = d]
<1>2. "mark_duplicate" \in RunPc /\ "mark_duplicate" \notin PastExactCheck
  BY PcFacts DEF PersistPc, PastExactCheck
<1>3. /\ st \in WorkerState /\ st.pc = "mark_duplicate"
      /\ st.document = worker[w].document /\ st.run = worker[w].run
      /\ st.snapshot = worker[w].snapshot
  BY <1>1, <1>2, RunFacts DEF WorkerState
<1>4. worker' = [worker EXCEPT ![w] = st]
  BY <1>1
<1> HIDE DEF st
<1> QED
  BY <1>2, <1>3, <1>4 DEF RunMove

\* A non-empty set of documents has an earliest one.  The proof uses that
\* strict inclusion is well-founded on the finite sets 1..x.
LEMMA EarliestExists ==
    ASSUME NEW S, S \subseteq Nat, S # {}
    PROVE  Earliest(S) # {}
<1> DEFINE T == {1 .. x : x \in S}
           R == StrictSubsetOrdering(Nat)
<1>1. IsWellFoundedOn(R, FiniteSubsetsOf(Nat))
  BY FS_StrictSubsetOrderingWellFounded
<1>2. T \subseteq FiniteSubsetsOf(Nat) /\ T # {}
  <2>1. T # {}
    OBVIOUS
  <2>2. ASSUME NEW x \in S PROVE 1..x \in FiniteSubsetsOf(Nat)
    <3>1. IsFiniteSet(1..x)
      BY FS_Interval
    <3>2. 1..x \in SUBSET Nat
      OBVIOUS
    <3> QED
      BY <3>1, <3>2 DEF FiniteSubsetsOf
  <2> QED
    BY <2>1, <2>2
<1>3. PICK m \in T : \A y \in T : <<y, m>> \notin R
  BY <1>1, <1>2, WFMin
<1>4. PICK x \in S : m = 1..x
  OBVIOUS
<1>5. ASSUME NEW y \in S PROVE x <= y
  <2>1. 1..y \in T
    OBVIOUS
  <2>2. <<1..y, 1..x>> \notin R
    BY <1>3, <1>4, <2>1
  <2>3. ~(1..y \subseteq 1..x /\ 1..y # 1..x)
    BY <2>2 DEF StrictSubsetOrdering
  <2>4. CASE y < x
    <3>1. 1..y \subseteq 1..x
      BY <2>4
    <3>2. x \in 1..x /\ x \notin 1..y
      BY <2>4
    <3> QED
      BY <3>1, <3>2, <2>3
  <2> QED
    BY <2>4
<1> QED
  BY <1>5 DEF Earliest

\* The query found no other document, so it found this one.
LEMMA NoExactMatch ==
    ASSUME TablesOK, NEW d \in DOMAIN documents,
           FindByContentHash(documents[d].content) \ {d} = {}
    PROVE  IsFirst(d)
<1> DEFINE S == WithContentHash(documents[d].content)
<1>1. S \subseteq Nat /\ S # {}
  BY DEF WithContentHash, TablesOK
<1>2. Earliest(S) # {}
  BY <1>1, EarliestExists
<1> QED
  BY <1>2 DEF FindByContentHash, IsFirst

LEMMA MatchesAreDocuments ==
    ASSUME Inv, NEW w \in Workers
    PROVE  ExactMatch(w) \in SUBSET Nat /\ NearMatch(w) \in SUBSET Nat
BY DEF Inv, TypeOK, DatabaseTypeOK, ExactMatch, NearMatch, FindByContentHash,
       FindByKeyFieldsHash, Earliest, WithContentHash, WithKeyFieldsHash

LEMMA ExactCheckStep ==
    ASSUME Inv, NEW w \in Workers, CheckExactDuplicate(w)
    PROVE  RunStep(w)
<1>1. worker[w].pc \in RunPc
  BY PcFacts DEF CheckExactDuplicate, Step, At, StepPc
<1>2. "find_near" \in RunPc /\ "calculate_confidence" \in RunPc
  BY PcFacts DEF StepPc, PersistPc
<1>3. ASSUME ExactMatch(w) = {} PROVE IsFirst(worker[w].document)
  BY <1>1, <1>3, RunFacts, NoExactMatch DEF ExactMatch
<1>4. CASE /\ UNCHANGED tables /\ UNCHANGED databaseErrors
           /\ IF ExactMatch(w) # {} THEN FoundDuplicate(w, ExactMatch(w))
              ELSE IF worker[w].key # NoKey THEN Goto(w, "find_near")
              ELSE Enter(w, "calculate_confidence")
  <2>1. RunMove(w)
    BY <1>1, <1>2, <1>3, <1>4, MatchesAreDocuments, FoundDuplicateMoves, GotoMoves, EnterMoves
  <2>2. Harmless /\ databaseErrors' \in Nat
    BY <1>4, NoStatementHarmless DEF NoStatement
  <2> QED
    BY <2>1, <2>2 DEF RunStep
<1>5. CASE UNCHANGED tables /\ Fail(w) /\ databaseErrors' = databaseErrors + 1
  BY <1>1, <1>5, FailMoves, ErrorHarmless DEF RunStep
<1> QED
  BY <1>4, <1>5 DEF CheckExactDuplicate, Attempt

LEMMA NearCheckStep ==
    ASSUME Inv, NEW w \in Workers, CheckNearDuplicate(w)
    PROVE  RunStep(w)
<1>1. worker[w].pc = "find_near" /\ worker[w].pc \in RunPc
  BY PcFacts DEF CheckNearDuplicate, At, PersistPc
<1>2. "calculate_confidence" \in RunPc
  BY PcFacts DEF StepPc
<1>3. IsFirst(worker[w].document)
  BY <1>1, RunFacts DEF PastExactCheck
<1>4. CASE /\ UNCHANGED tables /\ UNCHANGED databaseErrors
           /\ IF NearMatch(w) # {} THEN FoundDuplicate(w, NearMatch(w))
              ELSE Enter(w, "calculate_confidence")
  <2>1. RunMove(w)
    BY <1>1, <1>2, <1>3, <1>4, MatchesAreDocuments, FoundDuplicateMoves, EnterMoves
  <2>2. Harmless /\ databaseErrors' \in Nat
    BY <1>4, NoStatementHarmless DEF NoStatement
  <2> QED
    BY <2>1, <2>2 DEF RunStep
<1>5. CASE UNCHANGED tables /\ Fail(w) /\ databaseErrors' = databaseErrors + 1
  BY <1>1, <1>5, FailMoves, ErrorHarmless DEF RunStep
<1> QED
  BY <1>4, <1>5 DEF CheckNearDuplicate, Attempt

\* Every action of a run
LEMMA RunSteps ==
    ASSUME Inv, NEW w \in Workers, Process(w) \/ Route(w) \/ Failure(w)
    PROVE  RunStep(w)
<1>1. CASE Process(w)
  BY <1>1, LoadStep, IterationCapStep, OCRStep, ClassifyStep, ClassificationStep,
     AuditClassifiedStep, ExtractStep, FieldsStep, ExtractedStep, AuditExtractedStep,
     KeyStep, ValidateStep, ValidatedStep, AuditValidatedStep, ExactCheckStep,
     NearCheckStep, DuplicateStep, ConfidenceStep, FinalizeStep, FinishAutoStep,
     AuditAutoStep
  DEF Process
<1>2. CASE Route(w)
  BY <1>2, OpenTaskStep, PendingReviewStep, FinishRoutedStep, AuditRoutedStep DEF Route
<1>3. CASE Failure(w)
  BY <1>3, FinishFailedStep, CountStep, RequeueStep, AuditRetryingStep, GiveUpStep,
     AuditFailedStep
  DEF Failure
<1> QED
  BY <1>1, <1>2, <1>3

---------------------------------------------------------------------------
(* The invariant is inductive *)

\* Documents are only added at the end, so the first with its content stays so.
LEMMA FirstKept ==
    ASSUME TablesOK, TablesGrow, NEW d \in DOMAIN documents, IsFirst(d)
    PROVE  IsFirst(d)'
<1>1. /\ DOMAIN documents = 1..Len(documents) /\ Len(documents) \in Nat
      /\ DOMAIN documents' = 1..Len(documents') /\ Len(documents') \in Nat
  BY LenProperties DEF TablesOK, TablesGrow
<1>2. /\ d \in DOMAIN documents'
      /\ documents'[d].content = documents[d].content
  BY DEF TablesGrow
<1>3. ASSUME NEW e \in DOMAIN documents', documents'[e].content = documents[d].content
      PROVE  d <= e
  <2>1. CASE e \in DOMAIN documents
    <3>1. documents[e].content = documents[d].content
      BY <1>3, <2>1 DEF TablesGrow
    <3> QED
      BY <2>1, <3>1 DEF IsFirst, FindByContentHash, Earliest, WithContentHash
  <2>2. CASE e \notin DOMAIN documents
    BY <1>1, <2>2
  <2> QED
    BY <2>1, <2>2
<1> QED
  BY <1>2, <1>3 DEF IsFirst, FindByContentHash, Earliest, WithContentHash

\* What a step of the tables leaves true of a worker it does not move
WorkerOK(v) ==
    /\ worker[v] \in WorkerState
    /\ worker[v].snapshot \subseteq DOMAIN documents
    /\ worker[v].pc \in {"open_run"} \cup RunPc => worker[v].document \in DOMAIN documents
    /\ worker[v].pc \in RunPc =>
          /\ worker[v].run \in DOMAIN agentRuns
          /\ agentRuns[worker[v].run].document = worker[v].document
    /\ worker[v].pc \in PastExactCheck => IsFirst(worker[v].document)
    /\ worker[v].pc = "create_task" => worker[v].reason # "none"

LEMMA InvWorkers ==
    ASSUME Inv, NEW v \in Workers
    PROVE  WorkerOK(v)
BY DEF Inv, TypeOK, WorkerTypeOK, WorkerRowsExist, FirstInv, ReasonInv, WorkerOK

LEMMA OtherWorkers ==
    ASSUME Inv, TablesGrow, NEW v \in Workers, worker'[v] = worker[v]
    PROVE  WorkerOK(v)'
<1>1. WorkerOK(v) /\ TablesOK
  BY InvWorkers DEF Inv, TypeOK, TablesOK, DatabaseTypeOK
<1>2. worker[v].pc \in PastExactCheck => worker[v].document \in DOMAIN documents
  BY <1>1, PcFacts DEF WorkerOK
<1>3. (worker[v].pc \in PastExactCheck => IsFirst(worker[v].document))'
  <2> SUFFICES ASSUME worker[v].pc \in PastExactCheck
               PROVE  IsFirst(worker[v].document)'
    OBVIOUS
  <2>1. IsFirst(worker[v].document)
    BY <1>1 DEF WorkerOK
  <2>2. PICK d \in DOMAIN documents : d = worker[v].document
    BY <1>2
  <2>3. IsFirst(d)'
    BY <1>1, <2>1, <2>2, FirstKept
  <2> QED
    BY <2>2, <2>3 DEF IsFirst, FindByContentHash, Earliest, WithContentHash
<1> QED
  BY <1>1, <1>3 DEF WorkerOK, TablesGrow

\* The reviewers' requests and the documents, after any step of the tables
LEMMA InvAfter ==
    ASSUME Inv, TablesGrow, OnlyFirstProcessed, databaseErrors' \in Nat, crashes' \in Nat,
           worker' \in [Workers -> WorkerState],
           \A v \in Workers : WorkerOK(v)',
           ReviewTypeOK', ReviewRowsExist'
    PROVE  Inv'
<1>1. TypeOK'
  BY DEF TypeOK, DatabaseTypeOK, TablesGrow, TablesOK, WorkerTypeOK, WorkerRowsExist, WorkerOK
<1>2. ReasonInv'
  BY DEF ReasonInv, WorkerOK
<1>3. ASSUME NEW d \in DOMAIN documents', documents'[d].status = "AUTO_PROCESSED"
      PROVE  IsFirst(d)'
  <2>1. d \in DOMAIN documents /\ IsFirst(d)
    BY <1>3 DEF Inv, FirstInv, OnlyFirstProcessed
  <2>2. TablesOK
    BY DEF Inv, TypeOK, TablesOK, DatabaseTypeOK
  <2> QED
    BY <2>1, <2>2, FirstKept
<1>4. FirstInv'
  BY <1>3 DEF FirstInv, WorkerOK
<1> QED
  BY <1>1, <1>2, <1>4 DEF Inv

LEMMA ReviewKept ==
    ASSUME Inv, TablesGrow, UNCHANGED review
    PROVE  ReviewTypeOK' /\ ReviewRowsExist'
BY DEF Inv, TypeOK, TablesGrow, ReviewTypeOK, ReviewRowsExist

LEMMA RunMoveKeeps ==
    ASSUME Inv, NEW w \in Workers, RunMove(w), Harmless,
           databaseErrors' \in Nat, crashes' \in Nat, UNCHANGED review
    PROVE  Inv'
<1>1. TablesGrow /\ OnlyFirstProcessed
  BY DEF Harmless
<1>2. PICK st \in WorkerState :
        /\ worker' = [worker EXCEPT ![w] = st]
        /\ \/ st = Polling
           \/ /\ worker[w].pc \in RunPc /\ st.pc \in RunPc
              /\ st.document = worker[w].document
              /\ st.run = worker[w].run
              /\ st.snapshot = worker[w].snapshot
              /\ st.pc \in PastExactCheck => IsFirst(worker[w].document)
              /\ st.pc = "create_task" => st.reason # "none"
  BY DEF RunMove
<1>3. /\ worker \in [Workers -> WorkerState]
      /\ TablesOK
  BY DEF Inv, TypeOK, WorkerTypeOK, TablesOK, DatabaseTypeOK
<1>4. worker' \in [Workers -> WorkerState] /\ worker'[w] = st
  BY <1>2, <1>3
<1>5. WorkerOK(w)'
  <2>1. CASE st = Polling
    BY <1>4, <2>1, PcFacts DEF WorkerOK, Polling
  <2>2. CASE /\ worker[w].pc \in RunPc /\ st.pc \in RunPc
             /\ st.document = worker[w].document
             /\ st.run = worker[w].run
             /\ st.snapshot = worker[w].snapshot
             /\ st.pc \in PastExactCheck => IsFirst(worker[w].document)
             /\ st.pc = "create_task" => st.reason # "none"
    <3>1. WorkerOK(w) /\ worker[w].document \in DOMAIN documents
      BY <2>2, InvWorkers DEF WorkerOK
    <3>2. PICK d \in DOMAIN documents : d = worker[w].document /\ worker'[w].document = d
      BY <1>4, <2>2, <3>1
    <3>3. (worker[w].pc \in PastExactCheck => IsFirst(worker[w].document))'
      <4> SUFFICES ASSUME st.pc \in PastExactCheck
                   PROVE  IsFirst(worker[w].document)'
        BY <1>4
      <4>1. IsFirst(d)
        BY <2>2, <3>2
      <4>2. IsFirst(d)'
        BY <1>1, <1>3, <4>1, FirstKept
      <4> QED
        BY <3>2, <4>2 DEF IsFirst, FindByContentHash, Earliest, WithContentHash
    <3> QED
      BY <1>1, <1>4, <2>2, <3>1, <3>3 DEF WorkerOK, TablesGrow
  <2> QED
    BY <1>2, <2>1, <2>2
<1>6. ASSUME NEW v \in Workers \ {w} PROVE WorkerOK(v)'
  BY <1>1, <1>2, <1>3, OtherWorkers
<1> QED
  BY <1>1, <1>4, <1>5, <1>6, ReviewKept, InvAfter

---------------------------------------------------------------------------
(* The claim *)

LEMMA SnapshotKeeps ==
    ASSUME Inv, NEW w \in Workers, ClaimSnapshot(w), UNCHANGED <<crashes, review>>
    PROVE  Inv'
<1> DEFINE st == [worker[w] EXCEPT !.pc = "lock", !.snapshot = Claimable]
<1>1. WorkerOK(w) /\ worker[w].pc = "poll" /\ worker \in [Workers -> WorkerState]
  BY InvWorkers DEF Inv, TypeOK, WorkerTypeOK, ClaimSnapshot, At
<1>2. Claimable \subseteq DOMAIN documents /\ DOMAIN documents \subseteq Nat
  BY DEF Claimable, Inv, TypeOK, DatabaseTypeOK
<1>3. st \in WorkerState /\ st.pc = "lock" /\ st.snapshot = Claimable
  BY <1>1, <1>2 DEF WorkerOK, WorkerState, ClaimPc
<1>4. worker' = [worker EXCEPT ![w] = st]
  BY DEF ClaimSnapshot
<1> HIDE DEF st
<1>5. worker' \in [Workers -> WorkerState] /\ worker'[w] = st
  BY <1>1, <1>3, <1>4
<1>6. Harmless /\ databaseErrors' \in Nat /\ UNCHANGED documents
  BY NoStatementHarmless DEF ClaimSnapshot, NoStatement, tables
<1>7. WorkerOK(w)'
  BY <1>2, <1>3, <1>5, <1>6, PcFacts DEF WorkerOK
<1>8. ASSUME NEW v \in Workers \ {w} PROVE WorkerOK(v)'
  BY <1>1, <1>4, <1>6, OtherWorkers DEF Harmless
<1>9. crashes' \in Nat
  BY DEF Inv, TypeOK, WorkerTypeOK
<1> QED
  BY <1>5, <1>6, <1>7, <1>8, <1>9, ReviewKept, InvAfter DEF Harmless

LEMMA LockKeeps ==
    ASSUME Inv, NEW w \in Workers, ClaimLock(w), UNCHANGED <<crashes, review>>
    PROVE  Inv'
<1>1. Harmless /\ databaseErrors' \in Nat /\ UNCHANGED documents
  BY NoStatementHarmless DEF ClaimLock, NoStatement, tables
<1>2. crashes' \in Nat
  BY DEF Inv, TypeOK, WorkerTypeOK
<1>3. CASE Return(w)
  BY <1>1, <1>2, <1>3, ReturnMoves, RunMoveKeeps
<1>4. ASSUME NEW d \in Earliest(Lockable(w)),
             worker' = [worker EXCEPT ![w] =
                           [@ EXCEPT !.pc = "open_run", !.snapshot = {}, !.document = d]]
      PROVE  Inv'
  <2> DEFINE st == [worker[w] EXCEPT !.pc = "open_run", !.snapshot = {}, !.document = d]
  <2>1. WorkerOK(w) /\ worker \in [Workers -> WorkerState]
    BY InvWorkers DEF Inv, TypeOK, WorkerTypeOK
  <2>2. d \in DOMAIN documents /\ d \in Nat
    BY <2>1 DEF Earliest, Lockable, WorkerOK, Inv, TypeOK, DatabaseTypeOK
  <2>3. /\ st \in WorkerState /\ st.pc = "open_run"
        /\ st.snapshot = {} /\ st.document = d
    BY <2>1, <2>2 DEF WorkerOK, WorkerState, ClaimPc
  <2>4. worker' = [worker EXCEPT ![w] = st]
    BY <1>4
  <2> HIDE DEF st
  <2>5. worker' \in [Workers -> WorkerState] /\ worker'[w] = st
    BY <2>1, <2>3, <2>4
  <2>6. WorkerOK(w)'
    BY <1>1, <2>2, <2>3, <2>5, PcFacts DEF WorkerOK
  <2>7. ASSUME NEW v \in Workers \ {w} PROVE WorkerOK(v)'
    BY <1>1, <2>1, <2>4, OtherWorkers DEF Harmless
  <2> QED
    BY <1>1, <1>2, <2>5, <2>6, <2>7, ReviewKept, InvAfter DEF Harmless
<1> QED
  BY <1>3, <1>4 DEF ClaimLock

LEMMA OpenRunKeeps ==
    ASSUME Inv, NEW w \in Workers, ClaimOpenRun(w), UNCHANGED <<crashes, review>>
    PROVE  Inv'
<1>1. crashes' \in Nat /\ databaseErrors \in Nat /\ TablesOK
  BY DEF Inv, TypeOK, WorkerTypeOK, DatabaseTypeOK, TablesOK
<1>2. WorkerOK(w) /\ worker \in [Workers -> WorkerState] /\ worker[w].pc = "open_run"
  BY InvWorkers DEF Inv, TypeOK, WorkerTypeOK, ClaimOpenRun, At
<1>3. worker[w].document \in DOMAIN documents
  BY <1>2 DEF WorkerOK
<1>4. CASE UNCHANGED tables /\ Return(w) /\ databaseErrors' = databaseErrors + 1
  BY <1>1, <1>4, ErrorHarmless, ReturnMoves, RunMoveKeeps
<1>5. CASE /\ InsertRun(worker[w].document) /\ UNCHANGED databaseErrors
           /\ worker' = [worker EXCEPT ![w] =
                            [@ EXCEPT !.pc = "load", !.run = Len(agentRuns) + 1]]
  <2> DEFINE n == Len(agentRuns) + 1
             st == [worker[w] EXCEPT !.pc = "load", !.run = n]
  <2>1. /\ TablesGrow /\ OnlyFirstProcessed
        /\ n \in DOMAIN agentRuns' /\ agentRuns'[n].document = worker[w].document
    BY <1>1, <1>3, <1>5, InsertRunGrows
  <2>2. n \in Nat
    BY <1>1, LenProperties DEF TablesOK
  <2>3. worker' = [worker EXCEPT ![w] = st]
    BY <1>5
  <2> HIDE DEF n
  <2>4. /\ st \in WorkerState /\ st.pc = "load" /\ st.run = n
        /\ st.document = worker[w].document /\ st.snapshot = worker[w].snapshot
    BY <1>2, <2>2, PcFacts DEF WorkerOK, WorkerState
  <2> HIDE DEF st
  <2>5. worker' \in [Workers -> WorkerState] /\ worker'[w] = st
    BY <1>2, <2>3, <2>4
  <2>6. WorkerOK(w)'
    BY <1>2, <1>3, <2>1, <2>4, <2>5, PcFacts DEF WorkerOK, TablesGrow
  <2>7. ASSUME NEW v \in Workers \ {w} PROVE WorkerOK(v)'
    BY <1>2, <2>1, <2>3, OtherWorkers
  <2> QED
    BY <1>1, <1>5, <2>1, <2>5, <2>6, <2>7, ReviewKept, InvAfter
<1> QED
  BY <1>4, <1>5 DEF ClaimOpenRun, Attempt

LEMMA WorkerNextKeeps ==
    ASSUME Inv, WorkerNext, UNCHANGED review
    PROVE  Inv'
<1>1. PICK w \in Workers : WorkerStep(w) \/ Crash(w)
  BY DEF WorkerNext
<1>2. CASE Claim(w) /\ UNCHANGED crashes
  BY <1>2, SnapshotKeeps, LockKeeps, OpenRunKeeps DEF Claim
<1>3. CASE (Process(w) \/ Route(w) \/ Failure(w)) /\ UNCHANGED crashes
  <2>1. crashes' \in Nat
    BY <1>3 DEF Inv, TypeOK, WorkerTypeOK
  <2> QED
    BY <1>3, <2>1, RunSteps, RunMoveKeeps DEF RunStep
<1>4. CASE Crash(w)
  <2>1. crashes' \in Nat /\ Return(w) /\ NoStatement
    BY <1>4 DEF Crash, Inv, TypeOK, WorkerTypeOK
  <2> QED
    BY <2>1, ReturnMoves, NoStatementHarmless, RunMoveKeeps
<1> QED
  BY <1>1, <1>2, <1>3, <1>4 DEF WorkerStep

---------------------------------------------------------------------------
(* The reviewers and the clients *)

LEMMA WorkersKept ==
    ASSUME Inv, Harmless, databaseErrors' \in Nat, UNCHANGED workerVars,
           ReviewTypeOK', ReviewRowsExist'
    PROVE  Inv'
<1>1. /\ crashes' \in Nat /\ worker' \in [Workers -> WorkerState]
      /\ \A v \in Workers : worker'[v] = worker[v]
  BY DEF Inv, TypeOK, WorkerTypeOK, workerVars
<1>2. ASSUME NEW v \in Workers PROVE WorkerOK(v)'
  BY <1>1, OtherWorkers DEF Harmless
<1> QED
  BY <1>1, <1>2, InvAfter DEF Harmless

\* A request goes on with its document and task, or is over.
ReviewMove(u) ==
    \E st \in ReviewState :
        /\ review' = [review EXCEPT ![u] = st]
        /\ st.pc # "idle" => st.document \in DOMAIN documents
        /\ st.pc \notin {"idle", "load_task"} =>
              /\ st.task \in DOMAIN reviewTasks
              /\ reviewTasks[st.task].document = st.document

LEMMA RespondMoves ==
    ASSUME NEW u \in Reviewers, Respond(u)
    PROVE  ReviewMove(u)
<1>1. NoRequest \in ReviewState /\ NoRequest.pc = "idle"
  BY DEF NoRequest, ReviewState, Decisions
<1> QED
  BY <1>1 DEF Respond, ReviewMove

LEMMA ProceedMoves ==
    ASSUME Inv, NEW u \in Reviewers,
           review[u].pc \notin {"idle", "load_task"},
           NEW pc \in {"resolve", "mark_reviewed", "audit"}, Proceed(u, pc)
    PROVE  ReviewMove(u)
<1> DEFINE st == [review[u] EXCEPT !.pc = pc]
<1>1. /\ review[u] \in ReviewState /\ review[u].document \in DOMAIN documents
      /\ review[u].task \in DOMAIN reviewTasks
      /\ reviewTasks[review[u].task].document = review[u].document
  BY DEF Inv, TypeOK, ReviewTypeOK, ReviewRowsExist
<1>2. /\ st \in ReviewState /\ st.pc = pc
      /\ st.document = review[u].document /\ st.task = review[u].task
  BY <1>1 DEF ReviewState
<1>3. review' = [review EXCEPT ![u] = st]
  BY DEF Proceed
<1> HIDE DEF st
<1> QED
  BY <1>1, <1>2, <1>3 DEF ReviewMove

LEMMA ReviewMoveKeeps ==
    ASSUME Inv, NEW u \in Reviewers, ReviewMove(u), Harmless,
           databaseErrors' \in Nat, UNCHANGED workerVars
    PROVE  Inv'
<1>1. PICK st \in ReviewState :
        /\ review' = [review EXCEPT ![u] = st]
        /\ st.pc # "idle" => st.document \in DOMAIN documents
        /\ st.pc \notin {"idle", "load_task"} =>
              /\ st.task \in DOMAIN reviewTasks
              /\ reviewTasks[st.task].document = st.document
  BY DEF ReviewMove
<1>2. review \in [Reviewers -> ReviewState] /\ ReviewRowsExist
  BY DEF Inv, TypeOK, ReviewTypeOK
<1>3. ReviewTypeOK'
  BY <1>1, <1>2 DEF ReviewTypeOK
<1>4. ReviewRowsExist'
  <2> SUFFICES ASSUME NEW v \in Reviewers
               PROVE  /\ review'[v].pc # "idle" => review'[v].document \in DOMAIN documents'
                      /\ review'[v].pc \notin {"idle", "load_task"} =>
                            /\ review'[v].task \in DOMAIN reviewTasks'
                            /\ reviewTasks'[review'[v].task].document = review'[v].document
    BY DEF ReviewRowsExist
  <2>1. CASE v = u
    BY <1>1, <1>2, <2>1 DEF Harmless, TablesGrow
  <2>2. CASE v # u
    BY <1>1, <1>2, <2>2 DEF ReviewRowsExist, Harmless, TablesGrow
  <2> QED
    BY <2>1, <2>2
<1> QED
  BY <1>3, <1>4, WorkersKept

LEMMA SubmitStepHarmless ==
    ASSUME Inv, NEW u \in Reviewers, SubmitStep(u)
    PROVE  ReviewMove(u) /\ Harmless /\ databaseErrors' \in Nat
<1>1. /\ TablesOK /\ databaseErrors \in Nat /\ review[u] \in ReviewState
      /\ ReviewRowsExist
  BY DEF Inv, TypeOK, TablesOK, DatabaseTypeOK, ReviewTypeOK
<1>2. CASE AcceptRequest(u)
  <2>1. PICK d \in DOMAIN documents, decision \in Decisions :
          review' = [review EXCEPT ![u] =
            [pc |-> "load_task", document |-> d, task |-> 0, decision |-> decision]]
    BY <1>2 DEF AcceptRequest
  <2>2. [pc |-> "load_task", document |-> d, task |-> 0, decision |-> decision] \in ReviewState
    BY <1>1 DEF ReviewState, TablesOK
  <2>3. ReviewMove(u)
    BY <2>1, <2>2 DEF ReviewMove
  <2> QED
    BY <1>2, <2>3, NoStatementHarmless DEF AcceptRequest
<1>3. CASE LoadTask(u)
  <2>1. review[u].pc = "load_task" /\ review[u].document \in DOMAIN documents
    BY <1>1, <1>3 DEF LoadTask, Reviewing, ReviewRowsExist
  <2>2. ASSUME NEW t \in GetPendingByDocument(review[u].document),
               review' = [review EXCEPT ![u] =
                    [@ EXCEPT !.task = t,
                              !.pc = IF review[u].decision = "correct"
                                     THEN "save_fields" ELSE "resolve"]]
        PROVE  ReviewMove(u)
    <3> DEFINE pc == IF review[u].decision = "correct" THEN "save_fields" ELSE "resolve"
               st == [review[u] EXCEPT !.task = t, !.pc = pc]
    <3>1. /\ t \in DOMAIN reviewTasks /\ t \in Nat
          /\ reviewTasks[t].document = review[u].document
      BY <1>1 DEF GetPendingByDocument, Latest, PendingTasks, TablesOK
    <3>2. pc \in {"save_fields", "resolve"}
      OBVIOUS
    <3>3. review' = [review EXCEPT ![u] = st]
      BY <2>2
    <3> HIDE DEF pc
    <3>4. /\ st \in ReviewState /\ st.task = t /\ st.document = review[u].document
      BY <1>1, <3>1, <3>2 DEF ReviewState
    <3> HIDE DEF st
    <3> QED
      BY <2>1, <3>1, <3>3, <3>4 DEF ReviewMove
  <2>3. CASE UNCHANGED tables /\ Respond(u) /\ databaseErrors' = databaseErrors + 1
    BY <2>3, ErrorHarmless, RespondMoves
  <2>4. CASE /\ NoStatement
             /\ \/ Respond(u)
                \/ \E t \in GetPendingByDocument(review[u].document) :
                      review' = [review EXCEPT ![u] =
                         [@ EXCEPT !.task = t,
                                   !.pc = IF review[u].decision = "correct"
                                          THEN "save_fields" ELSE "resolve"]]
    BY <2>2, <2>4, RespondMoves, NoStatementHarmless
  <2> QED
    BY <1>3, <2>3, <2>4 DEF LoadTask, Attempt, NoStatement
<1>4. CASE SaveCorrections(u)
  <2>1. review[u].pc = "save_fields" /\ review[u].document \in DOMAIN documents
    BY <1>1, <1>4 DEF SaveCorrections, Reviewing, ReviewRowsExist
  <2>2. CASE /\ InsertBatch(review[u].document, u) /\ Proceed(u, "resolve")
             /\ UNCHANGED databaseErrors
    BY <1>1, <2>1, <2>2, InsertBatchHarmless, ProceedMoves
  <2>3. CASE UNCHANGED tables /\ Respond(u) /\ databaseErrors' = databaseErrors + 1
    BY <2>3, ErrorHarmless, RespondMoves
  <2> QED
    BY <1>4, <2>2, <2>3 DEF SaveCorrections, Attempt
<1>5. CASE ResolveTask(u)
  <2>1. review[u].pc = "resolve" /\ review[u].task \in DOMAIN reviewTasks
    BY <1>1, <1>5 DEF ResolveTask, Reviewing, ReviewRowsExist
  <2>2. ReviewStatusOf[review[u].decision] \in ReviewStatus
    BY <1>1 DEF ReviewState, Decisions, ReviewStatusOf, ReviewStatus
  <2>3. CASE /\ Resolve(review[u].task, ReviewStatusOf[review[u].decision], u)
             /\ Proceed(u, "mark_reviewed") /\ UNCHANGED databaseErrors
    BY <1>1, <2>1, <2>2, <2>3, ResolveHarmless, ProceedMoves
  <2>4. CASE UNCHANGED tables /\ Respond(u) /\ databaseErrors' = databaseErrors + 1
    BY <2>4, ErrorHarmless, RespondMoves
  <2> QED
    BY <1>5, <2>3, <2>4 DEF ResolveTask, Attempt
<1>6. CASE CloseDocument(u)
  <2>1. review[u].pc = "mark_reviewed" /\ review[u].document \in DOMAIN documents
    BY <1>1, <1>6 DEF CloseDocument, Reviewing, ReviewRowsExist
  <2>2. CASE /\ MarkReviewed(review[u].document) /\ Proceed(u, "audit")
             /\ UNCHANGED databaseErrors
    BY <1>1, <2>1, <2>2, SetStatusHarmless, ProceedMoves DEF MarkReviewed, DocumentStatus
  <2>3. CASE UNCHANGED tables /\ Respond(u) /\ databaseErrors' = databaseErrors + 1
    BY <2>3, ErrorHarmless, RespondMoves
  <2> QED
    BY <1>6, <2>2, <2>3 DEF CloseDocument, Attempt
<1>7. CASE AuditDecision(u)
  <2>1. review[u].pc = "audit" /\ review[u].document \in DOMAIN documents
    BY <1>1, <1>7 DEF AuditDecision, Reviewing, ReviewRowsExist
  <2>2. CASE /\ AuditRecord(AuditActionOf[review[u].decision], review[u].document)
             /\ Respond(u) /\ UNCHANGED databaseErrors
    BY <1>1, <2>1, <2>2, AuditRecordHarmless, RespondMoves
  <2>3. CASE UNCHANGED tables /\ Respond(u) /\ databaseErrors' = databaseErrors + 1
    BY <2>3, ErrorHarmless, RespondMoves
  <2> QED
    BY <1>7, <2>2, <2>3 DEF AuditDecision, Attempt
<1> QED
  BY <1>2, <1>3, <1>4, <1>5, <1>6, <1>7 DEF SubmitStep

LEMMA UploadKeeps ==
    ASSUME Inv, Upload, UNCHANGED <<workerVars, review>>
    PROVE  Inv'
<1>1. Harmless /\ databaseErrors' \in Nat
  BY CreateDocumentHarmless DEF Upload, Inv, TypeOK, TablesOK, DatabaseTypeOK
<1> QED
  BY <1>1, ReviewKept, WorkersKept DEF Harmless

---------------------------------------------------------------------------
(* Theorems *)

\* The system starts in a state the invariant allows.
THEOREM InvInitially == Init => Inv
<1> SUFFICES ASSUME Init PROVE Inv
  OBVIOUS
<1> USE DEF Init, DatabaseInit, WorkerInit, ReviewInit
<1>1. DatabaseTypeOK /\ RowsRefer
  BY DEF DatabaseTypeOK, RowsRefer
<1>2. WorkerTypeOK /\ WorkerRowsExist
  BY PollingTyped, PcFacts DEF WorkerTypeOK, WorkerRowsExist, Polling
<1>3. NoRequest \in ReviewState /\ NoRequest.pc = "idle"
  BY DEF NoRequest, ReviewState, Decisions
<1>4. ReviewTypeOK /\ ReviewRowsExist
  BY <1>3 DEF ReviewTypeOK, ReviewRowsExist
<1>5. FirstInv /\ ReasonInv
  BY PcFacts DEF FirstInv, ReasonInv, Polling
<1> QED
  BY <1>1, <1>2, <1>4, <1>5 DEF Inv, TypeOK

\* No step of any worker, reviewer or client breaks it.
THEOREM InvInductive == Inv /\ [Next]_vars => Inv'
<1> SUFFICES ASSUME Inv, [Next]_vars PROVE Inv'
  OBVIOUS
<1>1. CASE Upload /\ UNCHANGED <<workerVars, review>>
  BY <1>1, UploadKeeps
<1>2. CASE WorkerNext /\ UNCHANGED review
  BY <1>2, WorkerNextKeeps
<1>3. CASE ReviewNext /\ UNCHANGED workerVars
  BY <1>3, SubmitStepHarmless, ReviewMoveKeeps DEF ReviewNext
<1>4. CASE UNCHANGED vars
  <2>1. /\ NoStatement /\ UNCHANGED workerVars /\ UNCHANGED review
    BY <1>4 DEF vars, NoStatement
  <2> QED
    BY <2>1, NoStatementHarmless, ReviewKept, WorkersKept DEF Harmless
<1> QED
  BY <1>1, <1>2, <1>3, <1>4 DEF Next

\* So it holds throughout.
THEOREM InvHolds == Spec => []Inv
BY InvInitially, InvInductive, PTL DEF Spec

\* Every variable has its type and every id refers to an existing row.
THEOREM TypeCorrect == Spec => []TypeOK
<1>1. Inv => TypeOK
  BY DEF Inv
<1> QED
  BY <1>1, InvHolds, PTL

\* Two documents with the same bytes are never both processed without a
\* human: whatever the workers' steps interleave, whatever statements fail,
\* wherever workers crash and whether or not claims overlap.
THEOREM ExactDuplicateHolds == Spec => []ExactDuplicateNotAutoProcessed
<1>1. Inv => ExactDuplicateNotAutoProcessed
  BY DEF Inv, FirstInv, IsFirst, ExactDuplicateNotAutoProcessed
<1> QED
  BY <1>1, InvHolds, PTL
=============================================================================
