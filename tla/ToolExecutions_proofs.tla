------------------------ MODULE ToolExecutions_proofs ------------------------
(***************************************************************************)
(* ToolExecutions implements DocumentSystem: calls that hang, deadlines    *)
(* and records that are lost or late add no step to the tables, so what is *)
(* proved of DocumentSystem holds of a system with all of these.           *)
(*                                                                         *)
(* Then the trace of a run: it follows the pipeline whatever fails, and    *)
(* agrees with the tables where there is one worker.                       *)
(***************************************************************************)
EXTENDS ToolExecutions, Pipeline_proofs

LEMMA ToolStepIsProcess ==
    ASSUME NEW w \in Workers, ToolStep(w)
    PROVE  Process(w)
BY DEF ToolStep, OCRTool, ClassifyTool, SchemaUnreadable, ExtractTool, StoreTool,
       ValidateTool, DuplicateTool, ConfidenceTool, FinalizeTool, Process

LEMMA StatementStepIsStep ==
    ASSUME NEW w \in Workers, StatementStep(w)
    PROVE  Claim(w) \/ Process(w) \/ Route(w) \/ Failure(w)
BY DEF StatementStep, Process

\* A step of a worker is one of DocumentSystem, or it happens between two.
LEMMA TracedWorkerRefines ==
    ASSUME NEW w \in Workers,
           TracedWorker(w) \/ ProviderReturns(w) \/ CrashMidTool(w)
    PROVE  [Next]_vars
<1>1. CASE TracedStep(w)
  <2>1. WorkerStep(w)
    BY <1>1, ToolStepIsProcess, StatementStepIsStep DEF TracedStep, WorkerStep
  <2> QED
    BY <1>1, <2>1 DEF TracedStep, Next, WorkerNext
<1>2. CASE Record(w) \/ CallProvider(w) \/ DeadlineExpires(w) \/ ProviderReturns(w)
  BY <1>2 DEF Record, CallProvider, DeadlineExpires, ProviderReturns
<1>3. CASE CrashMidTool(w)
  BY <1>3 DEF CrashMidTool, Next, WorkerNext
<1> QED
  BY <1>1, <1>2, <1>3 DEF TracedWorker

LEMMA ToolNextRefines == [ToolNext]_<<vars, toolVars>> => [Next]_vars
<1> SUFFICES ASSUME [ToolNext]_<<vars, toolVars>> PROVE [Next]_vars
  OBVIOUS
<1>1. CASE Upload /\ UNCHANGED <<workerVars, review, toolVars>>
  BY <1>1 DEF Next
<1>2. CASE \E w \in Workers : TracedWorker(w) \/ ProviderReturns(w) \/ CrashMidTool(w)
  BY <1>2, TracedWorkerRefines
<1>3. CASE ReviewNext /\ UNCHANGED <<workerVars, toolVars>>
  BY <1>3 DEF Next
<1>4. CASE UNCHANGED <<vars, toolVars>>
  BY <1>4
<1> QED
  BY <1>1, <1>2, <1>3, <1>4 DEF ToolNext

\* Every behaviour with provider calls, deadlines and records is a behaviour
\* of DocumentSystem.
THEOREM ToolsImplementSystem == ToolSpec => Spec
<1>1. ToolInit => Init
  BY DEF ToolInit
<1> QED
  BY <1>1, ToolNextRefines, PTL DEF ToolSpec, Spec

---------------------------------------------------------------------------
(* Calls and records *)

\* A provider is called at a step that is past its iteration check, which a
\* call does not end.
InCall(w) == worker[w].pc \in {"run_ocr", "classify", "extract"} /\ ~OverCap(w)

ToolInv ==
    /\ Inv
    /\ toolExecutions \in Seq(ToolExecution)
    /\ call \in [Workers -> CallState]
    /\ unrecorded \in [Workers -> SUBSET Finished]
    /\ lostRecords \in Nat
    /\ \A w \in Workers :
          /\ call[w] # "idle" => InCall(w)
          /\ unrecorded[w] # {} => worker[w].pc \in RunPc
    /\ \A i \in DOMAIN toolExecutions : toolExecutions[i].run \in DOMAIN agentRuns

\* No statement deletes an agent run.
LEMMA RunsAreKept ==
    ASSUME Inv, [Next]_vars
    PROVE  DOMAIN agentRuns \subseteq DOMAIN agentRuns'
<1>1. CASE Upload
  BY <1>1, CreateDocumentHarmless
  DEF Upload, Inv, TypeOK, TablesOK, DatabaseTypeOK, Harmless, TablesGrow
<1>2. CASE WorkerNext
  <2>1. PICK w \in Workers : WorkerStep(w) \/ Crash(w)
    BY <1>2 DEF WorkerNext
  <2>2. CASE ClaimSnapshot(w) \/ ClaimLock(w) \/ Crash(w)
    BY <2>2 DEF ClaimSnapshot, ClaimLock, Crash, NoStatement, tables
  <2>3. CASE ClaimOpenRun(w)
    <3>1. TablesOK /\ worker[w].document \in DOMAIN documents
      BY <2>3 DEF ClaimOpenRun, At, Inv, TypeOK, TablesOK, DatabaseTypeOK, WorkerRowsExist
    <3>2. CASE InsertRun(worker[w].document)
      BY <3>1, <3>2, InsertRunGrows DEF TablesGrow
    <3>3. CASE UNCHANGED tables
      BY <3>3 DEF tables
    <3> QED
      BY <2>3, <3>2, <3>3 DEF ClaimOpenRun, Attempt
  <2>4. CASE Process(w) \/ Route(w) \/ Failure(w)
    BY <2>4, RunSteps DEF RunStep, Harmless, TablesGrow
  <2> QED
    BY <2>1, <2>2, <2>3, <2>4 DEF WorkerStep, Claim
<1>3. CASE ReviewNext
  BY <1>3, SubmitStepHarmless DEF ReviewNext, Harmless, TablesGrow
<1>4. CASE UNCHANGED vars
  BY <1>4 DEF vars, tables
<1> QED
  BY <1>1, <1>2, <1>3, <1>4 DEF Next

\* A step of one worker leaves the others where they are.
LEMMA OtherWorkersStay ==
    ASSUME Inv, NEW w \in Workers, WorkerStep(w) \/ Crash(w), NEW v \in Workers \ {w}
    PROVE  worker'[v] = worker[v]
<1>1. worker \in [Workers -> WorkerState]
  BY DEF Inv, TypeOK, WorkerTypeOK
<1>2. CASE Process(w) \/ Route(w) \/ Failure(w)
  <2>1. PICK st : worker' = [worker EXCEPT ![w] = st]
    BY <1>2, RunSteps DEF RunStep, RunMove
  <2> QED
    BY <1>1, <2>1
<1>3. CASE Claim(w)
  BY <1>1, <1>3 DEF Claim, ClaimSnapshot, ClaimLock, ClaimOpenRun, Attempt, Return
<1>4. CASE Crash(w)
  BY <1>1, <1>4 DEF Crash, Return
<1> QED
  BY <1>2, <1>3, <1>4 DEF WorkerStep

LEMMA PcAfter ==
    ASSUME Inv, NEW w \in Workers, NEW pc, NEW reason
    PROVE  /\ Goto(w, pc) => worker'[w].pc = pc
           /\ Enter(w, pc) => worker'[w].pc = pc
           /\ RouteToReview(w, reason) => worker'[w].pc = "create_task"
           /\ Fail(w) => worker'[w].pc = "fail_finish"
<1>1. worker \in [Workers -> WorkerState] /\ worker[w] \in WorkerState
  BY DEF Inv, TypeOK, WorkerTypeOK
<1>2. ASSUME NEW p, Goto(w, p) PROVE worker'[w].pc = p
  BY <1>1, <1>2 DEF Goto, WorkerState
<1>3. Enter(w, pc) => worker'[w].pc = pc
  BY <1>1 DEF Enter, WorkerState
<1>4. RouteToReview(w, reason) => worker'[w].pc = "create_task"
  BY <1>1 DEF RouteToReview, WorkerState
<1> QED
  BY <1>2, <1>3, <1>4 DEF Fail

\* A step that executes a tool does not end the run.
LEMMA ToolStepInRun ==
    ASSUME Inv, NEW w \in Workers, ToolStep(w)
    PROVE  worker'[w].pc \in RunPc
<1>0. worker \in [Workers -> WorkerState] /\ worker[w] \in WorkerState
  BY DEF Inv, TypeOK, WorkerTypeOK
<1>1. CASE RunOCR(w)
  BY <1>1, PcAfter DEF RunOCR, RunPc, StepPc, ClosePc
<1>2. CASE ClassifyDocument(w)
  BY <1>2, PcAfter DEF ClassifyDocument, RunPc, PersistPc, ClosePc
<1>3. CASE ExtractFields(w)
  <2>1. CASE Fail(w)
    BY <2>1, PcAfter DEF RunPc, ClosePc
  <2>2. CASE \E key \in Keys \cup {NoKey} :
                worker' = [worker EXCEPT ![w] = [@ EXCEPT !.pc = "insert_fields", !.key = key]]
    BY <1>0, <2>2 DEF WorkerState, RunPc, PersistPc
  <2> QED
    BY <1>3, <2>1, <2>2 DEF ExtractFields
<1>4. CASE PersistFields(w)
  BY <1>4, PcAfter DEF PersistFields, Attempt, RunPc, PersistPc, ClosePc
<1>5. CASE ValidateExtraction(w)
  BY <1>5, PcAfter DEF ValidateExtraction, RunPc, PersistPc, ClosePc
<1>6. CASE CheckExactDuplicate(w) \/ CheckNearDuplicate(w)
  <2>1. ASSUME NEW matches, FoundDuplicate(w, matches) PROVE worker'[w].pc = "mark_duplicate"
    BY <1>0, <2>1 DEF FoundDuplicate, WorkerState
  <2>2. worker'[w].pc \in {"mark_duplicate", "find_near", "calculate_confidence", "fail_finish"}
    BY <1>6, <2>1, PcAfter DEF CheckExactDuplicate, CheckNearDuplicate, Attempt
  <2> QED
    BY <2>2 DEF RunPc, StepPc, PersistPc, ClosePc
<1>7. CASE CalculateConfidence(w)
  BY <1>7, PcAfter DEF CalculateConfidence, Attempt, RunPc, StepPc, ClosePc
<1>8. CASE FinalizeDocument(w)
  BY <1>8, PcAfter DEF FinalizeDocument, Attempt, RunPc, ClosePc
<1> QED
  BY <1>1, <1>2, <1>3, <1>4, <1>5, <1>6, <1>7, <1>8
  DEF ToolStep, OCRTool, ClassifyTool, SchemaUnreadable, ExtractTool, StoreTool,
      ValidateTool, DuplicateTool, ConfidenceTool, FinalizeTool

\* What a step of w does to its call and its record, and to no other's
OwnCall(w) ==
    /\ call' \in [Workers -> CallState] /\ call'[w] = "idle"
    /\ \A v \in Workers \ {w} : call'[v] = call[v]

OwnRecord(w) ==
    /\ unrecorded' \in [Workers -> SUBSET Finished]
    /\ \A v \in Workers \ {w} : unrecorded'[v] = unrecorded[v]

LEMMA HangUpOwn ==
    ASSUME ToolInv, NEW w \in Workers, HangUp(w)
    PROVE  OwnCall(w)
BY DEF ToolInv, HangUp, OwnCall, CallState

LEMMA UnchangedOwn ==
    ASSUME ToolInv, NEW w \in Workers, UNCHANGED call, call[w] = "idle"
    PROVE  OwnCall(w)
BY DEF ToolInv, OwnCall

LEMMA ExecutedOwn ==
    ASSUME ToolInv, NEW w \in Workers,
           NEW tool \in Tools, NEW status \in ToolExecutionStatus,
           Executed(w, tool, status)
    PROVE  OwnRecord(w)
<1>1. {[tool |-> tool, status |-> status]} \in SUBSET Finished
  BY DEF Finished
<1> QED
  BY <1>1 DEF ToolInv, Executed, OwnRecord

LEMMA UnrecordedOwn ==
    ASSUME ToolInv, NEW w \in Workers, UNCHANGED unrecorded
    PROVE  OwnRecord(w)
BY DEF ToolInv, OwnRecord

LEMMA ToolNames ==
    {"run_ocr", "classify_document", "extract_fields", "validate_extraction",
     "check_duplicate", "calculate_confidence", "finalize_document"} \subseteq Tools
<1>1. /\ DOMAIN Pipeline = 1..7
      /\ Pipeline[1] = "run_ocr" /\ Pipeline[2] = "classify_document"
      /\ Pipeline[3] = "extract_fields" /\ Pipeline[4] = "validate_extraction"
      /\ Pipeline[5] = "check_duplicate" /\ Pipeline[6] = "calculate_confidence"
      /\ Pipeline[7] = "finalize_document"
  BY DEF Pipeline
<1> QED
  BY <1>1 DEF Tools

\* A worker that is not at a call's step has no call.
LEMMA NoCall ==
    ASSUME ToolInv, NEW w \in Workers, ~InCall(w)
    PROVE  call[w] = "idle"
BY DEF ToolInv

LEMMA ToolStepOwn ==
    ASSUME ToolInv, NEW w \in Workers, ToolStep(w)
    PROVE  OwnCall(w) /\ OwnRecord(w)
<1>1. "SUCCESS" \in ToolExecutionStatus /\ "FAILED" \in ToolExecutionStatus
  BY DEF ToolExecutionStatus
<1>2. Returned(w) => StatusOf[call[w]] \in ToolExecutionStatus
  BY DEF Returned, StatusOf, ToolExecutionStatus
<1>3. CASE OCRTool(w) \/ ClassifyTool(w) \/ ExtractTool(w)
  BY <1>2, <1>3, HangUpOwn, ExecutedOwn, UnrecordedOwn, ToolNames
  DEF OCRTool, ClassifyTool, ExtractTool, Obeys
<1>4. CASE SchemaUnreadable(w)
  BY <1>4, UnchangedOwn, UnrecordedOwn DEF SchemaUnreadable
<1>5. CASE StoreTool(w)
  <2>1. ~InCall(w) /\ UNCHANGED call
    BY <1>5 DEF StoreTool, PersistFields, At, InCall
  <2> QED
    BY <1>1, <1>5, <2>1, NoCall, UnchangedOwn, ExecutedOwn, ToolNames DEF StoreTool
<1>6. CASE ValidateTool(w)
  <2>1. ~InCall(w) /\ UNCHANGED call
    BY <1>6 DEF ValidateTool, ValidateExtraction, Step, At, InCall
  <2> QED
    BY <1>1, <1>6, <2>1, NoCall, UnchangedOwn, ExecutedOwn, ToolNames DEF ValidateTool
<1>7. CASE DuplicateTool(w)
  <2>1. ~InCall(w) /\ UNCHANGED call
    BY <1>7 DEF DuplicateTool, CheckExactDuplicate, CheckNearDuplicate, Step, At, InCall
  <2> QED
    BY <1>1, <1>7, <2>1, NoCall, UnchangedOwn, ExecutedOwn, UnrecordedOwn, ToolNames
    DEF DuplicateTool
<1>8. CASE ConfidenceTool(w)
  <2>1. ~InCall(w) /\ UNCHANGED call
    BY <1>8 DEF ConfidenceTool, CalculateConfidence, Step, At, InCall
  <2> QED
    BY <1>1, <1>8, <2>1, NoCall, UnchangedOwn, ExecutedOwn, UnrecordedOwn, ToolNames
    DEF ConfidenceTool
<1>9. CASE FinalizeTool(w)
  <2>1. ~InCall(w) /\ UNCHANGED call
    BY <1>9 DEF FinalizeTool, FinalizeDocument, Step, At, InCall
  <2> QED
    BY <1>1, <1>9, <2>1, NoCall, UnchangedOwn, ExecutedOwn, UnrecordedOwn, ToolNames
    DEF FinalizeTool
<1> QED
  BY <1>3, <1>4, <1>5, <1>6, <1>7, <1>8, <1>9 DEF ToolStep

\* No statement of a run is executed during a call.
LEMMA StatementOutsideCall ==
    ASSUME ToolInv, NEW w \in Workers, StatementStep(w)
    PROVE  call[w] = "idle"
<1>1. ~InCall(w)
  <2>1. CASE IterationCapReached(w)
    BY <2>1 DEF IterationCapReached, InCall
  <2>2. CASE Claim(w)
    BY <2>2 DEF Claim, ClaimSnapshot, ClaimLock, ClaimOpenRun, At, InCall
  <2>3. CASE Route(w)
    BY <2>3 DEF Route, OpenReviewTask, PersistPendingReview, FinishRouted, AuditRouted,
       At, InCall
  <2>4. CASE Failure(w)
    BY <2>4 DEF Failure, FinishFailed, CountAttempts, Requeue, AuditRetrying, GiveUp,
       AuditFailed, At, InCall
  <2>5. CASE \/ LoadDocument(w)
             \/ PersistClassification(w) \/ AuditClassified(w)
             \/ PersistExtracted(w) \/ AuditExtracted(w) \/ PersistKey(w)
             \/ PersistValidated(w) \/ AuditValidated(w) \/ PersistDuplicate(w)
             \/ FinishAutoProcessed(w) \/ AuditAutoProcessed(w)
    BY <2>5 DEF LoadDocument, PersistClassification, AuditClassified, PersistExtracted,
       AuditExtracted, PersistKey, PersistValidated, AuditValidated, PersistDuplicate,
       FinishAutoProcessed, AuditAutoProcessed, At, InCall
  <2> QED
    BY <2>1, <2>2, <2>3, <2>4, <2>5 DEF StatementStep
<1> QED
  BY <1>1, NoCall

\* ToolInv after a step that moves w alone and ends its call
LEMMA OwnStepKeeps ==
    ASSUME ToolInv, NEW w \in Workers, [Next]_vars,
           \A v \in Workers \ {w} : worker'[v] = worker[v],
           OwnCall(w), OwnRecord(w), unrecorded'[w] # {} => worker'[w].pc \in RunPc,
           UNCHANGED <<toolExecutions, lostRecords>>
    PROVE  ToolInv'
<1>1. Inv'
  BY InvInductive DEF ToolInv
<1>2. DOMAIN agentRuns \subseteq DOMAIN agentRuns'
  BY RunsAreKept DEF ToolInv
<1>3. ASSUME NEW v \in Workers
      PROVE  /\ call'[v] # "idle" => InCall(v)'
             /\ unrecorded'[v] # {} => worker'[v].pc \in RunPc
  BY DEF ToolInv, OwnCall, OwnRecord, InCall, OverCap
<1>4. \A i \in DOMAIN toolExecutions' : toolExecutions'[i].run \in DOMAIN agentRuns'
  BY <1>2 DEF ToolInv
<1> QED
  BY <1>1, <1>3, <1>4 DEF ToolInv, OwnCall, OwnRecord

\* ToolInv after a step that moves no worker, call or record
LEMMA OutsideStepKeeps ==
    ASSUME ToolInv, [Next]_vars, UNCHANGED <<worker, toolVars>>
    PROVE  ToolInv'
<1>1. Inv'
  BY InvInductive DEF ToolInv
<1>2. DOMAIN agentRuns \subseteq DOMAIN agentRuns'
  BY RunsAreKept DEF ToolInv
<1> QED
  BY <1>1, <1>2 DEF ToolInv, toolVars, InCall, OverCap

LEMMA RecordKeeps ==
    ASSUME ToolInv, NEW w \in Workers, Record(w)
    PROVE  ToolInv'
<1>1. PICK finished \in Finished :
         /\ finished \in unrecorded[w]
         /\ \/ /\ toolExecutions' =
                     Append(toolExecutions,
                            [run |-> worker[w].run, tool |-> finished.tool,
                             status |-> finished.status])
               /\ UNCHANGED lostRecords
            \/ lostRecords' = lostRecords + 1 /\ UNCHANGED toolExecutions
  BY DEF Record, ToolInv
<1>2. UNCHANGED <<vars, call>> /\ unrecorded' = [unrecorded EXCEPT ![w] = {}]
  BY DEF Record
<1>3. Inv'
  BY <1>2, InvInductive DEF ToolInv
<1>4. UNCHANGED <<worker, agentRuns>>
  BY <1>2 DEF vars, workerVars, tables
<1>5. worker[w].run \in DOMAIN agentRuns /\ worker[w].run \in Nat
  BY <1>1, RunFacts DEF ToolInv, WorkerState
<1>6. lostRecords' \in Nat
  BY <1>1 DEF ToolInv
<1>7. /\ toolExecutions' \in Seq(ToolExecution)
      /\ \A i \in DOMAIN toolExecutions' : toolExecutions'[i].run \in DOMAIN agentRuns'
  <2>1. CASE UNCHANGED toolExecutions
    BY <1>4, <2>1 DEF ToolInv
  <2> DEFINE row == [run |-> worker[w].run, tool |-> finished.tool, status |-> finished.status]
  <2>2. CASE toolExecutions' = Append(toolExecutions, row)
    <3>1. row \in ToolExecution /\ row.run \in DOMAIN agentRuns
      BY <1>1, <1>5 DEF Finished, ToolExecution
    <3>2. toolExecutions \in Seq(ToolExecution)
      BY DEF ToolInv
    <3> HIDE DEF row
    <3>3. /\ toolExecutions' \in Seq(ToolExecution)
          /\ Len(toolExecutions') = Len(toolExecutions) + 1
          /\ \A i \in 1..Len(toolExecutions) : toolExecutions'[i] = toolExecutions[i]
          /\ toolExecutions'[Len(toolExecutions) + 1] = row
      BY <2>2, <3>1, <3>2, AppendProperties
    <3>4. /\ Len(toolExecutions) \in Nat
          /\ DOMAIN toolExecutions = 1..Len(toolExecutions)
          /\ DOMAIN toolExecutions' = 1..(Len(toolExecutions) + 1)
      BY <3>2, <3>3, LenProperties
    <3>5. ASSUME NEW i \in DOMAIN toolExecutions'
          PROVE  toolExecutions'[i].run \in DOMAIN agentRuns'
      <4>1. CASE i = Len(toolExecutions) + 1
        BY <1>4, <3>1, <3>3, <4>1
      <4>2. CASE i # Len(toolExecutions) + 1
        <5>1. i \in DOMAIN toolExecutions /\ toolExecutions'[i] = toolExecutions[i]
          BY <3>3, <3>4, <4>2
        <5> QED
          BY <1>4, <5>1 DEF ToolInv
      <4> QED
        BY <4>1, <4>2
    <3> QED
      BY <3>3, <3>5
  <2> QED
    BY <1>1, <2>1, <2>2
<1>8. /\ call' \in [Workers -> CallState] /\ unrecorded' \in [Workers -> SUBSET Finished]
      /\ \A v \in Workers : unrecorded'[v] # {} => unrecorded[v] # {}
  BY <1>2 DEF ToolInv
<1>9. \A v \in Workers : /\ call'[v] # "idle" => InCall(v)'
                         /\ unrecorded'[v] # {} => worker'[v].pc \in RunPc
  BY <1>2, <1>4, <1>8 DEF ToolInv, InCall, OverCap
<1> QED
  BY <1>3, <1>6, <1>7, <1>8, <1>9 DEF ToolInv

\* A provider is called, returns or is given up.
LEMMA CallKeeps ==
    ASSUME ToolInv, NEW w \in Workers,
           CallProvider(w) \/ ProviderReturns(w) \/ DeadlineExpires(w)
    PROVE  ToolInv'
<1>1. PICK state \in CallState : call' = [call EXCEPT ![w] = state]
  BY DEF CallProvider, ProviderReturns, DeadlineExpires, CallState, StatusOf
<1>2. UNCHANGED <<vars, toolExecutions, unrecorded, lostRecords>>
  BY DEF CallProvider, ProviderReturns, DeadlineExpires
<1>3. InCall(w)
  BY DEF CallProvider, ProviderReturns, DeadlineExpires, Step, At, InCall, ToolInv
<1>4. Inv'
  BY <1>2, InvInductive DEF ToolInv
<1>5. UNCHANGED <<worker, agentRuns>>
  BY <1>2 DEF vars, workerVars, tables
<1>6. call' \in [Workers -> CallState] /\ \A v \in Workers \ {w} : call'[v] = call[v]
  BY <1>1 DEF ToolInv
<1>7. \A v \in Workers : call'[v] # "idle" => InCall(v)'
  BY <1>3, <1>5, <1>6 DEF ToolInv, InCall, OverCap
<1> QED
  BY <1>2, <1>4, <1>5, <1>6, <1>7 DEF ToolInv

LEMMA TracedStepKeeps ==
    ASSUME ToolInv, NEW w \in Workers, TracedStep(w)
    PROVE  ToolInv'
<1>1. [Next]_vars /\ WorkerStep(w)
  BY TracedWorkerRefines, ToolStepIsProcess, StatementStepIsStep
  DEF TracedWorker, TracedStep, WorkerStep
<1>2. \A v \in Workers \ {w} : worker'[v] = worker[v]
  BY <1>1, OtherWorkersStay DEF ToolInv
<1>3. UNCHANGED <<toolExecutions, lostRecords>> /\ unrecorded[w] = {}
  BY DEF TracedStep, Recorded
<1>4. CASE ToolStep(w)
  BY <1>1, <1>2, <1>3, <1>4, ToolStepOwn, ToolStepInRun, OwnStepKeeps DEF ToolInv
<1>5. CASE StatementStep(w)
  <2>1. OwnCall(w) /\ OwnRecord(w) /\ unrecorded'[w] = {}
    BY <1>3, <1>5, StatementOutsideCall, UnchangedOwn, UnrecordedOwn DEF StatementStep
  <2> QED
    BY <1>1, <1>2, <1>3, <2>1, OwnStepKeeps
<1> QED
  BY <1>4, <1>5 DEF TracedStep

LEMMA CrashKeeps ==
    ASSUME ToolInv, NEW w \in Workers, CrashMidTool(w)
    PROVE  ToolInv'
<1>1. [Next]_vars
  BY TracedWorkerRefines
<1>2. \A v \in Workers \ {w} : worker'[v] = worker[v]
  BY OtherWorkersStay DEF ToolInv, CrashMidTool
<1>3. OwnCall(w) /\ OwnRecord(w) /\ unrecorded'[w] = {}
  BY HangUpOwn DEF CrashMidTool, ToolInv, OwnRecord
<1>4. UNCHANGED <<toolExecutions, lostRecords>>
  BY DEF CrashMidTool
<1> QED
  BY <1>1, <1>2, <1>3, <1>4, OwnStepKeeps

LEMMA ToolInvInductive == ToolInv /\ [ToolNext]_<<vars, toolVars>> => ToolInv'
<1> SUFFICES ASSUME ToolInv, [ToolNext]_<<vars, toolVars>> PROVE ToolInv'
  OBVIOUS
<1>1. CASE \E w \in Workers : TracedWorker(w) \/ ProviderReturns(w) \/ CrashMidTool(w)
  BY <1>1, TracedStepKeeps, RecordKeeps, CallKeeps, CrashKeeps DEF TracedWorker
<1>2. CASE \/ Upload /\ UNCHANGED <<workerVars, review, toolVars>>
           \/ ReviewNext /\ UNCHANGED <<workerVars, toolVars>>
           \/ UNCHANGED <<vars, toolVars>>
  <2>1. UNCHANGED <<worker, toolVars>>
    BY <1>2 DEF workerVars, vars
  <2> QED
    BY <2>1, ToolNextRefines, OutsideStepKeeps
<1> QED
  BY <1>1, <1>2 DEF ToolNext

LEMMA ToolInvInitially == ToolInit => ToolInv
<1> SUFFICES ASSUME ToolInit PROVE ToolInv
  OBVIOUS
<1>1. Inv
  BY InvInitially DEF ToolInit
<1>2. /\ toolExecutions \in Seq(ToolExecution) /\ DOMAIN toolExecutions = {}
      /\ "idle" \in CallState
  BY DEF ToolInit, CallState
<1> QED
  BY <1>1, <1>2 DEF ToolInit, ToolInv

\* Whatever the providers and the INSERTs of records do: a worker is in a
\* call only at a step that calls a provider, and every record is one of a
\* run that exists.
THEOREM ToolTypeCorrect == ToolSpec => []ToolTypeOK
<1>1. ToolInv => ToolTypeOK
  BY DEF ToolInv, Inv, InCall, ToolTypeOK
<1> QED
  BY <1>1, ToolInvInitially, ToolInvInductive, PTL DEF ToolSpec

---------------------------------------------------------------------------
(* The trace of a run *)

FailPc ==
    {"fail_finish", "fail_count", "fail_requeue", "audit_retrying", "fail_mark",
     "audit_failed"}

\* Where a run may still execute a tool
ToolPc == {"load"} \cup StepPc \cup PersistPc

\* How many tools of the pipeline a run has executed when it is at pc
ToolsBefore(pc) ==
    CASE pc \in {"load", "run_ocr"} -> 0
      [] pc = "classify" -> 1
      [] pc \in {"mark_classified", "audit_classified", "extract", "insert_fields"} -> 2
      [] pc \in {"mark_extracted", "audit_extracted", "set_key", "validate"} -> 3
      [] pc \in {"mark_validated", "audit_validated", "find_exact", "find_near"} -> 4
      [] pc \in {"mark_duplicate", "calculate_confidence"} -> 5
      [] OTHER -> 6

Complete(run, p) == lostRecords = 0 => RecordedBefore(run, p)

\* The tool a worker has executed last is the one after all that its run has
\* recorded; nothing but fail follows one that failed.
Traced(w) ==
    LET run == worker[w].run
        pc == worker[w].pc
    IN  /\ \A f, g \in unrecorded[w] : f = g
        /\ \A f \in unrecorded[w] :
              /\ \A i \in TraceOf(run) :
                    /\ toolExecutions[i].status = "SUCCESS"
                    /\ Position(toolExecutions[i].tool) < Position(f.tool)
              /\ Complete(run, Position(f.tool))
              /\ f.status = "SUCCESS" \/ pc \in FailPc
              /\ pc \in ToolPc => Position(f.tool) = ToolsBefore(pc)
        /\ pc \notin FailPc =>
              \A i \in TraceOf(run) : toolExecutions[i].status = "SUCCESS"
        /\ pc \in ToolPc =>
              /\ \A i \in TraceOf(run) : Position(toolExecutions[i].tool) <= ToolsBefore(pc)
              /\ unrecorded[w] = {} => Complete(run, ToolsBefore(pc) + 1)

InOrder ==
    \A i \in DOMAIN toolExecutions :
        LET run == toolExecutions[i].run
        IN  /\ \A j \in TraceOf(run) :
                  i < j => /\ toolExecutions[i].status = "SUCCESS"
                           /\ Position(toolExecutions[i].tool) < Position(toolExecutions[j].tool)
            /\ Complete(run, Position(toolExecutions[i].tool))

TraceInv ==
    /\ ToolInv
    /\ RunInv
    /\ InOrder
    /\ \A w \in Workers : worker[w].pc \in RunPc => Traced(w)

LEMMA PipelinePositions ==
    /\ DOMAIN Pipeline = 1..7
    /\ Pipeline[1] = "run_ocr" /\ Pipeline[2] = "classify_document"
    /\ Pipeline[3] = "extract_fields" /\ Pipeline[4] = "validate_extraction"
    /\ Pipeline[5] = "check_duplicate" /\ Pipeline[6] = "calculate_confidence"
    /\ Pipeline[7] = "finalize_document"
BY DEF Pipeline

LEMMA PositionOf ==
    /\ \A tool \in Tools : Position(tool) \in 1..7 /\ Pipeline[Position(tool)] = tool
    /\ Position("run_ocr") = 1 /\ Position("classify_document") = 2
    /\ Position("extract_fields") = 3 /\ Position("validate_extraction") = 4
    /\ Position("check_duplicate") = 5 /\ Position("calculate_confidence") = 6
    /\ Position("finalize_document") = 7
<1>1. \A tool \in Tools : Position(tool) \in 1..7 /\ Pipeline[Position(tool)] = tool
  BY PipelinePositions DEF Tools, Position
<1>2. \A tool \in Tools, n \in 1..7 : Pipeline[n] = tool => Position(tool) = n
  <2> SUFFICES ASSUME NEW tool \in Tools, NEW n \in 1..7, Pipeline[n] = tool
               PROVE  Position(tool) = n
    OBVIOUS
  <2>1. Position(tool) \in 1..7 /\ Pipeline[Position(tool)] = Pipeline[n]
    BY <1>1
  <2>2. \A i, j \in 1..7 : Pipeline[i] = Pipeline[j] => i = j
    BY PipelinePositions, SMTT(30)
  <2> QED
    BY <2>1, <2>2
<1> QED
  BY <1>1, <1>2, PipelinePositions, ToolNames

LEMMA RowsAreExecutions ==
    ASSUME ToolInv
    PROVE  /\ Len(toolExecutions) \in Nat /\ DOMAIN toolExecutions = 1..Len(toolExecutions)
           /\ \A i \in DOMAIN toolExecutions :
                 /\ toolExecutions[i] \in ToolExecution
                 /\ Position(toolExecutions[i].tool) \in 1..7
                 /\ Pipeline[Position(toolExecutions[i].tool)] = toolExecutions[i].tool
<1>1. toolExecutions \in Seq(ToolExecution)
  BY DEF ToolInv
<1>2. \A i \in DOMAIN toolExecutions : toolExecutions[i] \in ToolExecution
  BY <1>1, ElementOfSeq, LenProperties
<1> QED
  BY <1>1, <1>2, LenProperties, PositionOf DEF ToolExecution

\* A step that moves w and writes no record leaves what is known of others.
LEMMA OwnStepTraces ==
    ASSUME TraceInv, NEW w \in Workers, [ToolNext]_<<vars, toolVars>>,
           \A v \in Workers \ {w} : worker'[v] = worker[v] /\ unrecorded'[v] = unrecorded[v],
           UNCHANGED <<toolExecutions, lostRecords>>,
           worker'[w].pc \in RunPc => Traced(w)'
    PROVE  TraceInv'
<1>1. ToolInv' /\ RunInv'
  BY ToolInvInductive, ToolNextRefines, RunInvInductive DEF TraceInv, ToolInv
<1>2. InOrder'
  BY DEF TraceInv, InOrder, TraceOf, Complete, RecordedBefore
<1>3. ASSUME NEW v \in Workers, worker'[v].pc \in RunPc PROVE Traced(v)'
  <2>1. CASE v = w
    BY <1>3, <2>1
  <2>2. CASE v # w
    BY <1>3, <2>2 DEF TraceInv, Traced, TraceOf, Complete, RecordedBefore
  <2> QED
    BY <2>1, <2>2
<1> QED
  BY <1>1, <1>2, <1>3 DEF TraceInv

\* w executes the next tool of the pipeline.
LEMMA NextTool ==
    ASSUME TraceInv, NEW w \in Workers, worker[w].pc \in ToolPc, unrecorded[w] = {},
           NEW tool \in Tools, NEW status, Executed(w, tool, status),
           Position(tool) = ToolsBefore(worker[w].pc) + 1, ToolsBefore(worker[w].pc) \in Nat,
           worker'[w].run = worker[w].run,
           UNCHANGED <<toolExecutions, lostRecords>>,
           \/ worker'[w].pc \in FailPc \ ToolPc
           \/ /\ status = "SUCCESS"
              /\ worker'[w].pc \in ToolPc => ToolsBefore(worker'[w].pc) = Position(tool)
    PROVE  Traced(w)'
<1> DEFINE f == [tool |-> tool, status |-> status]
           run == worker[w].run
<1>1. unrecorded'[w] = {f}
  BY DEF Executed, TraceInv, ToolInv
<1>2. f.tool = tool /\ f.status = status
  OBVIOUS
<1> HIDE DEF f
<1>3. Traced(w) /\ worker[w].pc \notin FailPc
  BY DEF TraceInv, ToolPc, RunPc, FailPc, StepPc, PersistPc
<1>4. \A i \in TraceOf(run) : /\ toolExecutions[i].status = "SUCCESS"
                              /\ Position(toolExecutions[i].tool) \in Nat
                              /\ Position(toolExecutions[i].tool) < Position(tool)
  BY <1>3, RowsAreExecutions DEF Traced, TraceOf, TraceInv
<1>5. Complete(run, Position(tool))
  BY <1>3 DEF Traced
<1>6. TraceOf(run)' = TraceOf(run) /\ UNCHANGED run /\ UNCHANGED toolExecutions
  BY DEF TraceOf
<1>7. Complete(run, Position(tool))'
  BY <1>5, <1>6 DEF Complete, RecordedBefore
<1>8. ASSUME NEW g \in unrecorded'[w]
      PROVE  /\ g = f
             /\ \A i \in TraceOf(run)' :
                    /\ toolExecutions'[i].status = "SUCCESS"
                    /\ Position(toolExecutions'[i].tool) < Position(g.tool)
             /\ Complete(run, Position(g.tool))'
             /\ g.status = "SUCCESS" \/ worker'[w].pc \in FailPc
             /\ worker'[w].pc \in ToolPc => Position(g.tool) = ToolsBefore(worker'[w].pc)
  BY <1>1, <1>2, <1>4, <1>6, <1>7
<1>9. worker'[w].pc \in ToolPc =>
          \A i \in TraceOf(run)' : Position(toolExecutions'[i].tool) <= ToolsBefore(worker'[w].pc)
  <2> SUFFICES ASSUME worker'[w].pc \in ToolPc, NEW i \in TraceOf(run)
               PROVE  Position(toolExecutions[i].tool) <= ToolsBefore(worker'[w].pc)
    BY <1>6
  <2>1. ToolsBefore(worker'[w].pc) = Position(tool)
    OBVIOUS
  <2> QED
    BY <1>4, <2>1
<1> QED
  BY <1>1, <1>4, <1>6, <1>8, <1>9 DEF Traced

\* w executes no tool.
LEMMA NoTool ==
    ASSUME TraceInv, NEW w \in Workers, worker[w].pc \in RunPc,
           unrecorded[w] = {}, unrecorded'[w] = {},
           UNCHANGED <<toolExecutions, lostRecords>>,
           worker'[w].run = worker[w].run,
           worker[w].pc \in FailPc => worker'[w].pc \in FailPc \ ToolPc,
           worker'[w].pc \in ToolPc =>
              worker[w].pc \in ToolPc /\ ToolsBefore(worker'[w].pc) = ToolsBefore(worker[w].pc)
    PROVE  Traced(w)'
<1>1. Traced(w)
  BY DEF TraceInv
<1>2. /\ TraceOf(worker[w].run)' = TraceOf(worker[w].run)
      /\ UNCHANGED worker[w].run /\ UNCHANGED toolExecutions
  BY DEF TraceOf
<1>3. \A p : Complete(worker[w].run, p) => Complete(worker[w].run, p)'
  BY <1>2 DEF Complete, RecordedBefore
<1>4. worker'[w].pc \in ToolPc => Complete(worker[w].run, ToolsBefore(worker[w].pc) + 1)'
  <2> SUFFICES ASSUME NEW p, p = ToolsBefore(worker'[w].pc) + 1, worker'[w].pc \in ToolPc
               PROVE  Complete(worker[w].run, p)'
    OBVIOUS
  <2>1. Complete(worker[w].run, p)
    BY <1>1 DEF Traced
  <2> QED
    BY <1>3, <2>1
<1>5. worker'[w].pc \notin FailPc =>
          \A i \in TraceOf(worker[w].run) : toolExecutions[i].status = "SUCCESS"
  BY <1>1 DEF Traced
<1>6. worker'[w].pc \in ToolPc =>
          \A i \in TraceOf(worker[w].run) :
              Position(toolExecutions[i].tool) <= ToolsBefore(worker'[w].pc)
  BY <1>1 DEF Traced
<1> QED
  BY <1>2, <1>4, <1>5, <1>6 DEF Traced

LEMMA ToolStepTraces ==
    ASSUME TraceInv, NEW w \in Workers, ToolStep(w), unrecorded[w] = {},
           UNCHANGED <<toolExecutions, lostRecords>>
    PROVE  Traced(w)'
<1> USE DEF ToolPc, StepPc, PersistPc, FailPc, Failing
<1>0. Inv /\ worker \in [Workers -> WorkerState] /\ worker[w] \in WorkerState
  BY DEF TraceInv, ToolInv, Inv, TypeOK, WorkerTypeOK
<1>1. worker'[w].run = worker[w].run /\ worker[w].pc \in RunPc
  <2>1. Process(w) /\ worker'[w].pc \in RunPc
    BY <1>0, ToolStepIsProcess, ToolStepInRun
  <2>2. worker'[w] # Polling
    BY <2>1 DEF RunPc, Polling, ClosePc
  <2> QED
    BY <1>0, <2>1, <2>2, RunEffects, RunPcs, EffectMoves
<1>2. ASSUME NEW tool \in Tools, NEW status, Executed(w, tool, status),
             worker[w].pc \in ToolPc,
             Position(tool) = ToolsBefore(worker[w].pc) + 1, ToolsBefore(worker[w].pc) \in Nat,
             \/ worker'[w].pc \in FailPc
             \/ /\ status = "SUCCESS"
                /\ worker'[w].pc \in ToolPc => ToolsBefore(worker'[w].pc) = Position(tool)
      PROVE  Traced(w)'
  BY <1>1, <1>2, NextTool
<1>3. ASSUME UNCHANGED unrecorded, worker[w].pc \in ToolPc,
             \/ worker'[w].pc \in FailPc
             \/ ToolsBefore(worker'[w].pc) = ToolsBefore(worker[w].pc)
      PROVE  Traced(w)'
  BY <1>1, <1>3, NoTool
<1>4. StatusOf["answered"] = "SUCCESS"
  BY DEF StatusOf
<1>5. CASE OCRTool(w)
  <2>1. /\ worker[w].pc = "run_ocr"
        /\ worker'[w].pc \in {"classify", "fail_finish"}
    BY <1>0, <1>5, PcAfter DEF OCRTool, RunOCR, Step, At
  <2>2. worker'[w].pc \in FailPc \/ StatusOf[call[w]] = "SUCCESS"
    BY <1>4, <1>5 DEF OCRTool, Obeys
  <2>3. "run_ocr" \in Tools /\ Executed(w, "run_ocr", StatusOf[call[w]])
    BY <1>5, ToolNames DEF OCRTool
  <2> QED
    BY <1>2, <2>1, <2>2, <2>3, PositionOf DEF ToolsBefore
<1>6. CASE ClassifyTool(w)
  <2>1. /\ worker[w].pc = "classify"
        /\ worker'[w].pc \in {"mark_classified", "create_task", "fail_finish"}
    BY <1>0, <1>6, PcAfter DEF ClassifyTool, ClassifyDocument, Step, At
  <2>2. worker'[w].pc \in FailPc \/ StatusOf[call[w]] = "SUCCESS"
    BY <1>4, <1>6 DEF ClassifyTool, Obeys
  <2>3. /\ "classify_document" \in Tools
        /\ Executed(w, "classify_document", StatusOf[call[w]])
    BY <1>6, ToolNames DEF ClassifyTool
  <2> QED
    BY <1>2, <2>1, <2>2, <2>3, PositionOf DEF ToolsBefore
<1>7. CASE SchemaUnreadable(w)
  <2>1. UNCHANGED unrecorded /\ worker[w].pc = "extract" /\ worker'[w].pc \in FailPc
    BY <1>7 DEF SchemaUnreadable, ExtractFields, Step, At
  <2> QED
    BY <1>3, <2>1
<1>8. CASE ExtractTool(w)
  <2>1. worker[w].pc = "extract" /\ worker'[w].pc \in {"insert_fields", "fail_finish"}
    <3>1. CASE Fail(w)
      BY <1>0, <1>8, <3>1, PcAfter DEF ExtractTool, ExtractFields, Step, At
    <3>2. CASE \E key \in Keys \cup {NoKey} :
                  worker' = [worker EXCEPT ![w] = [@ EXCEPT !.pc = "insert_fields", !.key = key]]
      <4>1. PICK key : worker'[w] = [worker[w] EXCEPT !.pc = "insert_fields", !.key = key]
        BY <1>0, <3>2
      <4>2. worker'[w].pc = "insert_fields"
        BY <1>0, <4>1 DEF WorkerState
      <4> QED
        BY <1>8, <4>2 DEF ExtractTool, ExtractFields, Step, At
    <3> QED
      BY <1>8, <3>1, <3>2 DEF ExtractTool, ExtractFields
  <2>2. CASE Failing(w)
    <3>1. "extract_fields" \in Tools /\ Executed(w, "extract_fields", StatusOf[call[w]])
      BY <1>8, <2>2, ToolNames DEF ExtractTool
    <3> QED
      BY <1>2, <2>1, <2>2, <3>1, PositionOf DEF ToolsBefore
  <2>3. CASE ~Failing(w)
    <3>1. UNCHANGED unrecorded /\ worker'[w].pc = "insert_fields"
      BY <1>8, <2>1, <2>3 DEF ExtractTool
    <3> QED
      BY <1>3, <2>1, <3>1 DEF ToolsBefore
  <2> QED
    BY <2>2, <2>3
<1>9. CASE StoreTool(w)
  <2>1. worker[w].pc = "insert_fields" /\ worker'[w].pc \in {"mark_extracted", "fail_finish"}
    BY <1>0, <1>9, PcAfter DEF StoreTool, PersistFields, Attempt, At
  <2>2. PICK status : /\ Executed(w, "extract_fields", status)
                      /\ Failing(w) \/ status = "SUCCESS"
    BY <1>9 DEF StoreTool
  <2>3. "extract_fields" \in Tools
    BY ToolNames
  <2> QED
    BY <1>2, <2>1, <2>2, <2>3, PositionOf DEF ToolsBefore
<1>10. CASE ValidateTool(w)
  <2>1. worker[w].pc = "validate" /\ worker'[w].pc \in {"mark_validated", "create_task"}
    BY <1>0, <1>10, PcAfter DEF ValidateTool, ValidateExtraction, Step, At
  <2>2. /\ "validate_extraction" \in Tools
        /\ Executed(w, "validate_extraction", "SUCCESS")
    BY <1>10, ToolNames DEF ValidateTool
  <2> QED
    BY <1>2, <2>1, <2>2, PositionOf DEF ToolsBefore
<1>11. CASE DuplicateTool(w)
  <2>1. ASSUME NEW matches, FoundDuplicate(w, matches) PROVE worker'[w].pc = "mark_duplicate"
    BY <1>0, <2>1 DEF FoundDuplicate, WorkerState
  <2>2. /\ worker[w].pc \in {"find_exact", "find_near"}
        /\ worker'[w].pc \in {"mark_duplicate", "find_near", "calculate_confidence",
                              "fail_finish"}
    BY <1>0, <1>11, <2>1, PcAfter
    DEF DuplicateTool, CheckExactDuplicate, CheckNearDuplicate, Attempt, Step, At
  <2>3. CASE worker'[w].pc = "find_near"
    BY <1>3, <1>11, <2>2, <2>3 DEF DuplicateTool, ToolsBefore
  <2>4. CASE worker'[w].pc # "find_near"
    <3>1. PICK status : /\ Executed(w, "check_duplicate", status)
                        /\ Failing(w) \/ status = "SUCCESS"
      BY <1>11, <2>4 DEF DuplicateTool
    <3>2. "check_duplicate" \in Tools
      BY ToolNames
    <3>3. /\ ToolsBefore(worker[w].pc) = 4
          /\ Failing(w) \/ ToolsBefore(worker'[w].pc) = 5
      BY <2>2, <2>4 DEF ToolsBefore
    <3> QED
      BY <1>2, <2>2, <3>1, <3>2, <3>3, PositionOf
  <2> QED
    BY <2>3, <2>4
<1>12. CASE ConfidenceTool(w)
  <2>1. /\ worker[w].pc = "calculate_confidence"
        /\ worker'[w].pc \in {"finalize", "create_task", "fail_finish"}
    BY <1>0, <1>12, PcAfter DEF ConfidenceTool, CalculateConfidence, Attempt, Step, At
  <2>2. CASE Failing(w)
    BY <1>3, <1>12, <2>1, <2>2 DEF ConfidenceTool
  <2>3. CASE ~Failing(w)
    <3>1. /\ "calculate_confidence" \in Tools
          /\ Executed(w, "calculate_confidence", "SUCCESS")
      BY <1>12, <2>3, ToolNames DEF ConfidenceTool
    <3> QED
      BY <1>2, <2>1, <2>3, <3>1, PositionOf DEF ToolsBefore
  <2> QED
    BY <2>2, <2>3
<1>13. CASE FinalizeTool(w)
  <2>1. worker[w].pc = "finalize" /\ worker'[w].pc \in {"finish_auto", "fail_finish"}
    BY <1>0, <1>13, PcAfter DEF FinalizeTool, FinalizeDocument, Attempt, Step, At
  <2>2. CASE Failing(w)
    BY <1>3, <1>13, <2>1, <2>2 DEF FinalizeTool
  <2>3. CASE ~Failing(w)
    <3>1. /\ "finalize_document" \in Tools
          /\ Executed(w, "finalize_document", "SUCCESS")
      BY <1>13, <2>3, ToolNames DEF FinalizeTool
    <3> QED
      BY <1>2, <2>1, <2>3, <3>1, PositionOf DEF ToolsBefore
  <2> QED
    BY <2>2, <2>3
<1> QED
  BY <1>5, <1>6, <1>7, <1>8, <1>9, <1>10, <1>11, <1>12, <1>13 DEF ToolStep

\* Where a statement that executes no tool leads
LEMMA StatementMoves ==
    ASSUME Inv, NEW w \in Workers, StatementStep(w), worker[w].pc \in RunPc
    PROVE  \/ worker'[w] = Polling
           \/ /\ worker'[w].run = worker[w].run
              /\ worker[w].pc \in FailPc => worker'[w].pc \in FailPc \ ToolPc
              /\ worker'[w].pc \in ToolPc =>
                    /\ worker[w].pc \in ToolPc
                    /\ ToolsBefore(worker'[w].pc) = ToolsBefore(worker[w].pc)
<1>1. Process(w) \/ Route(w) \/ Failure(w)
  <2>1. ~Claim(w)
    BY DEF Claim, ClaimSnapshot, ClaimLock, ClaimOpenRun, At, RunPc, StepPc, PersistPc, ClosePc
  <2> QED
    BY <2>1, StatementStepIsStep
<1>2. RunEffect(w)
  BY <1>1, RunEffects
<1>3. \/ worker'[w] = Polling
      \/ worker'[w].run = worker[w].run
  BY <1>2, EffectMoves
<1> USE DEF FailPc, ToolPc, StepPc, PersistPc
<1>4. CASE Route(w) \/ Failure(w) \/ FinishAutoProcessed(w) \/ AuditAutoProcessed(w)
  <2>1. worker[w].pc \in ClosePc
    BY <1>4
    DEF Route, Failure, OpenReviewTask, PersistPendingReview, FinishRouted, AuditRouted,
        FinishFailed, CountAttempts, Requeue, AuditRetrying, GiveUp, AuditFailed,
        FinishAutoProcessed, AuditAutoProcessed, At, ClosePc
  <2>2. ASSUME worker'[w] # Polling
        PROVE  /\ worker'[w].pc \notin ToolPc
               /\ worker[w].pc \in FailPc => worker'[w].pc \in FailPc
    <3> USE DEF ClosePc, At, Goes, GoesToOne, Over
    <3>1. ~FailMove(w)
      BY <2>1 DEF FailMove, CanFail
    <3>2. CASE ReadMove(w)
      BY <2>1, <2>2, <3>2 DEF ReadMove
    <3>3. CASE ErrorMove(w)
      BY <2>1, <2>2, <3>3 DEF ErrorMove
    <3>4. CASE WriteMove(w)
      BY <2>1, <2>2, <3>4 DEF WriteMove
    <3> QED
      BY <1>2, <3>1, <3>2, <3>3, <3>4 DEF RunEffect
  <2> QED
    BY <1>3, <2>1, <2>2 DEF ClosePc
<1>5. CASE \/ LoadDocument(w) \/ IterationCapReached(w)
           \/ PersistClassification(w) \/ AuditClassified(w)
           \/ PersistExtracted(w) \/ AuditExtracted(w) \/ PersistKey(w)
           \/ PersistValidated(w) \/ AuditValidated(w) \/ PersistDuplicate(w)
  <2>1. /\ worker[w].pc \in ToolPc
        /\ \/ worker'[w].pc = "fail_finish" \/ worker'[w].pc = "create_task"
           \/ /\ worker[w].pc = "load" /\ worker'[w].pc = "run_ocr"
           \/ worker[w].pc = "mark_classified" /\ worker'[w].pc = "audit_classified"
           \/ worker[w].pc = "audit_classified" /\ worker'[w].pc = "extract"
           \/ worker[w].pc = "mark_extracted" /\ worker'[w].pc = "audit_extracted"
           \/ worker[w].pc = "audit_extracted" /\ worker'[w].pc \in {"set_key", "validate"}
           \/ worker[w].pc = "set_key" /\ worker'[w].pc = "validate"
           \/ worker[w].pc = "mark_validated" /\ worker'[w].pc = "audit_validated"
           \/ worker[w].pc = "audit_validated" /\ worker'[w].pc = "find_exact"
    BY <1>5, PcAfter
    DEF LoadDocument, IterationCapReached, PersistClassification, AuditClassified,
        PersistExtracted, AuditExtracted, AfterExtraction, PersistKey, PersistValidated,
        AuditValidated, PersistDuplicate, Attempt, At
  <2>2. worker'[w] # Polling
    BY <2>1 DEF Polling
  <2> QED
    BY <1>3, <2>1, <2>2 DEF ToolsBefore
<1> QED
  BY <1>4, <1>5 DEF StatementStep, Claim, Process, ClaimSnapshot, ClaimLock, ClaimOpenRun, At,
     RunPc, ClosePc

\* The run a claim opens has no records.
LEMMA ClaimTraces ==
    ASSUME TraceInv, NEW w \in Workers, Claim(w), unrecorded[w] = {}, UNCHANGED unrecorded,
           UNCHANGED <<toolExecutions, lostRecords>>, worker'[w].pc \in RunPc
    PROVE  Traced(w)'
<1>1. Inv
  BY DEF TraceInv, ToolInv
<1>2. RunOpened(w)
  BY <1>1, ClaimMoves DEF Polling, RunPc, StepPc, PersistPc, ClosePc
<1>3. worker'[w].run \notin DOMAIN agentRuns /\ worker'[w].pc = "load"
  BY <1>2 DEF RunOpened
<1>4. \A i \in DOMAIN toolExecutions : toolExecutions[i].run # worker'[w].run
  BY <1>3 DEF TraceInv, ToolInv
<1>5. ToolsBefore(worker'[w].pc) + 1 = 1
  BY <1>3 DEF ToolsBefore
<1>6. ASSUME NEW run PROVE Complete(run, 1)'
  BY DEF Complete, RecordedBefore
<1> QED
  BY <1>4, <1>5, <1>6 DEF Traced, TraceOf

LEMMA TracedStepTraces ==
    ASSUME TraceInv, NEW w \in Workers, TracedStep(w)
    PROVE  TraceInv'
<1>1. Inv
  BY DEF TraceInv, ToolInv
<1>2. [ToolNext]_<<vars, toolVars>> /\ WorkerStep(w)
  BY ToolStepIsProcess, StatementStepIsStep DEF ToolNext, TracedWorker, TracedStep, WorkerStep
<1>3. /\ UNCHANGED <<toolExecutions, lostRecords>> /\ unrecorded[w] = {}
      /\ \A v \in Workers \ {w} : worker'[v] = worker[v]
  BY <1>1, <1>2, OtherWorkersStay DEF TracedStep, Recorded
<1>4. CASE ToolStep(w)
  <2>1. \A v \in Workers \ {w} : unrecorded'[v] = unrecorded[v]
    BY <1>4, ToolStepOwn DEF TraceInv, OwnRecord
  <2> QED
    BY <1>2, <1>3, <1>4, <2>1, ToolStepTraces, OwnStepTraces
<1>5. CASE StatementStep(w)
  <2>1. UNCHANGED unrecorded
    BY <1>5 DEF StatementStep
  <2>2. ASSUME worker'[w].pc \in RunPc PROVE Traced(w)'
    <3>1. CASE worker[w].pc \in RunPc
      <4>1. worker'[w] # Polling
        BY <2>2 DEF Polling, RunPc, StepPc, PersistPc, ClosePc
      <4> QED
        BY <1>1, <1>3, <1>5, <2>1, <3>1, <4>1, StatementMoves, NoTool
    <3>2. CASE worker[w].pc \notin RunPc
      <4>1. Claim(w)
        BY <1>5, <3>2, StatementStepIsStep, RunPcs
      <4> QED
        BY <1>3, <2>1, <2>2, <4>1, ClaimTraces
    <3> QED
      BY <3>1, <3>2
  <2> QED
    BY <1>2, <1>3, <2>1, <2>2, OwnStepTraces
<1> QED
  BY <1>4, <1>5 DEF TracedStep

\* Where nothing is executed or recorded
LEMMA OutsideStepTraces ==
    ASSUME TraceInv, [ToolNext]_<<vars, toolVars>>,
           UNCHANGED <<worker, unrecorded, toolExecutions, lostRecords>>
    PROVE  TraceInv'
<1>1. ToolInv' /\ RunInv'
  BY ToolInvInductive, ToolNextRefines, RunInvInductive DEF TraceInv, ToolInv
<1> QED
  BY <1>1 DEF TraceInv, InOrder, Traced, TraceOf, Complete, RecordedBefore

LEMMA CrashTraces ==
    ASSUME TraceInv, NEW w \in Workers, CrashMidTool(w)
    PROVE  TraceInv'
<1>1. [ToolNext]_<<vars, toolVars>> /\ Inv
  BY DEF ToolNext, TraceInv, ToolInv
<1>2. /\ \A v \in Workers \ {w} : worker'[v] = worker[v] /\ unrecorded'[v] = unrecorded[v]
      /\ UNCHANGED <<toolExecutions, lostRecords>>
  BY <1>1, OtherWorkersStay DEF CrashMidTool, TraceInv, ToolInv
<1>3. worker'[w].pc \notin RunPc
  BY <1>1
  DEF CrashMidTool, Crash, Return, Inv, TypeOK, WorkerTypeOK, Polling, RunPc, StepPc,
      PersistPc, ClosePc
<1> QED
  BY <1>1, <1>2, <1>3, OwnStepTraces

\* The last tool a run has executed gets its record, or none.
LEMMA RecordTraces ==
    ASSUME TraceInv, NEW w \in Workers, Record(w)
    PROVE  TraceInv'
<1>0. [ToolNext]_<<vars, toolVars>> /\ Inv /\ ToolInv
  BY DEF ToolNext, TracedWorker, TraceInv, ToolInv
<1>1. ToolInv' /\ RunInv'
  BY <1>0, ToolInvInductive, ToolNextRefines, RunInvInductive DEF TraceInv
<1>9. PICK run : run = worker[w].run
  OBVIOUS
<1>2. PICK f \in Finished :
         /\ f \in unrecorded[w]
         /\ \/ /\ toolExecutions' =
                     Append(toolExecutions, [run |-> run, tool |-> f.tool, status |-> f.status])
               /\ UNCHANGED lostRecords
            \/ lostRecords' = lostRecords + 1 /\ UNCHANGED toolExecutions
  BY <1>0, <1>9 DEF Record, ToolInv
<1>3. UNCHANGED worker /\ unrecorded' = [unrecorded EXCEPT ![w] = {}]
  BY DEF Record, vars, workerVars
<1>4. /\ unrecorded'[w] = {}
      /\ \A v \in Workers \ {w} : unrecorded'[v] = unrecorded[v]
  BY <1>0, <1>3 DEF ToolInv
<1>5. worker[w].pc \in RunPc /\ Traced(w)
  BY <1>2 DEF TraceInv, ToolInv
<1>6. \A v \in Workers : worker[v].pc \in RunPc /\ worker[v].run = run => v = w
  BY <1>5, <1>9 DEF TraceInv, RunInv, RunsDistinct
<1>7. CASE lostRecords' = lostRecords + 1 /\ UNCHANGED toolExecutions
  <2>1. lostRecords' # 0
    BY <1>0, <1>7 DEF ToolInv
  <2>2. \A r, p : Complete(r, p)'
    BY <2>1 DEF Complete
  <2>3. InOrder'
    BY <1>7, <2>2 DEF TraceInv, InOrder, TraceOf
  <2>4. \A r : TraceOf(r)' = TraceOf(r)
    BY <1>7 DEF TraceOf
  <2>5. ASSUME NEW v \in Workers, worker[v].pc \in RunPc PROVE Traced(v)'
    <3>1. Traced(v)
      BY <2>5 DEF TraceInv
    <3>2. unrecorded'[v] = {} \/ unrecorded'[v] = unrecorded[v]
      BY <1>4
    <3> QED
      BY <1>3, <1>7, <2>2, <2>4, <3>1, <3>2 DEF Traced
  <2> QED
    BY <1>1, <1>3, <2>3, <2>5 DEF TraceInv
<1>8. CASE /\ toolExecutions' =
                 Append(toolExecutions, [run |-> run, tool |-> f.tool, status |-> f.status])
           /\ UNCHANGED lostRecords
  <2> DEFINE row == [run |-> run, tool |-> f.tool, status |-> f.status]
             n == Len(toolExecutions) + 1
  <2>1. row \in ToolExecution /\ row.run = run /\ row.tool = f.tool /\ row.status = f.status
    BY <1>0, <1>5, <1>9, RunFacts DEF Finished, ToolExecution, WorkerState
  <2>2. toolExecutions \in Seq(ToolExecution) /\ Len(toolExecutions) \in Nat
    BY <1>0 DEF ToolInv
  <2> HIDE DEF row
  <2>3. toolExecutions' = Append(toolExecutions, row)
    BY <1>8 DEF row
  <2>4. /\ DOMAIN toolExecutions = 1..Len(toolExecutions)
        /\ DOMAIN toolExecutions' = DOMAIN toolExecutions \cup {n}
        /\ n \notin DOMAIN toolExecutions /\ \A i \in DOMAIN toolExecutions : i < n
        /\ \A i \in DOMAIN toolExecutions : toolExecutions'[i] = toolExecutions[i]
        /\ toolExecutions'[n] = row
    BY <2>1, <2>2, <2>3, AppendProperties, LenProperties
  <2>5. n \in Nat /\ \A i \in DOMAIN toolExecutions : i \in Nat
    BY <2>2, <2>4
  <2> HIDE DEF n
  <2>6. /\ TraceOf(run)' = TraceOf(run) \cup {n}
        /\ \A r : r # run => TraceOf(r)' = TraceOf(r)
        /\ \A r : TraceOf(r) \subseteq DOMAIN toolExecutions
    <3>1. ASSUME NEW r, NEW i
          PROVE  i \in TraceOf(r)' <=> i \in TraceOf(r) \/ (i = n /\ r = run)
      BY <2>1, <2>4 DEF TraceOf
    <3>2. \A r : TraceOf(r) \subseteq DOMAIN toolExecutions
      BY DEF TraceOf
    <3>3. \A r : r # run => TraceOf(r)' = TraceOf(r)
      BY <3>1
    <3>4. TraceOf(run)' = TraceOf(run) \cup {n}
      BY <3>1
    <3> QED
      BY <3>2, <3>3, <3>4
  <2>7. ASSUME NEW r, NEW p, Complete(r, p) PROVE Complete(r, p)'
    <3>1. TraceOf(r) \subseteq TraceOf(r)'
      <4>1. CASE r = run
        BY <2>6, <4>1
      <4>2. CASE r # run
        BY <2>6, <4>2
      <4> QED
        BY <4>1, <4>2
    <3>2. \A i \in TraceOf(r) : toolExecutions'[i] = toolExecutions[i]
      BY <2>4, <2>6
    <3> QED
      BY <1>8, <2>7, <3>1, <3>2 DEF Complete, RecordedBefore
  <2>8. /\ \A i \in TraceOf(run) :
              /\ toolExecutions[i].status = "SUCCESS"
              /\ Position(toolExecutions[i].tool) < Position(f.tool)
        /\ Complete(run, Position(f.tool))
        /\ \A g \in unrecorded[w] : g = f
    BY <1>2, <1>5, <1>9 DEF Traced
  <2>9. InOrder'
    <3> SUFFICES ASSUME NEW i \in DOMAIN toolExecutions', NEW r, r = toolExecutions'[i].run
                 PROVE  /\ \A j \in TraceOf(r)' :
                              i < j => /\ toolExecutions'[i].status = "SUCCESS"
                                       /\ Position(toolExecutions'[i].tool)
                                             < Position(toolExecutions'[j].tool)
                        /\ \A p : p = Position(toolExecutions'[i].tool) => Complete(r, p)'
      BY DEF InOrder
    <3>1. CASE i = n
      <4>1. r = run /\ toolExecutions'[i].tool = f.tool
        BY <2>1, <2>4, <3>1
      <4>2. \A j \in TraceOf(run)' : ~(n < j)
        BY <2>4, <2>5, <2>6
      <4>3. \A p : p = Position(f.tool) => Complete(run, p)'
        BY <2>7, <2>8
      <4> QED
        BY <3>1, <4>1, <4>2, <4>3
    <3>2. CASE i # n
      <4>1. i \in DOMAIN toolExecutions /\ toolExecutions'[i] = toolExecutions[i]
        BY <2>4, <3>2
      <4>2. i \in TraceOf(r)
        BY <4>1 DEF TraceOf
      <4>3. /\ \A j \in TraceOf(r) :
                  i < j => /\ toolExecutions[i].status = "SUCCESS"
                           /\ Position(toolExecutions[i].tool) < Position(toolExecutions[j].tool)
            /\ Complete(r, Position(toolExecutions[i].tool))
        BY <4>1 DEF TraceInv, InOrder
      <4>4. \A p : p = Position(toolExecutions'[i].tool) => Complete(r, p)'
        BY <2>7, <4>1, <4>3
      <4>5. ASSUME NEW j \in TraceOf(r)', i < j
            PROVE  /\ toolExecutions'[i].status = "SUCCESS"
                   /\ Position(toolExecutions'[i].tool) < Position(toolExecutions'[j].tool)
        <5>1. CASE j = n
          <6>1. r = run /\ toolExecutions'[j].tool = f.tool
            BY <2>1, <2>4, <2>6, <4>5, <5>1
          <6> QED
            BY <2>8, <4>1, <4>2, <6>1
        <5>2. CASE j # n
          <6>1. j \in TraceOf(r) /\ toolExecutions'[j] = toolExecutions[j]
            BY <2>4, <2>6, <4>5, <5>2
          <6> QED
            BY <4>1, <4>3, <4>5, <6>1
        <5> QED
          BY <5>1, <5>2
      <4> QED
        BY <4>4, <4>5
    <3> QED
      BY <3>1, <3>2
  <2>10. ASSUME NEW v \in Workers, v # w, worker[v].pc \in RunPc PROVE Traced(v)'
    <3>1. Traced(v) /\ worker[v].run # run /\ unrecorded'[v] = unrecorded[v]
      BY <1>4, <1>6, <1>9, <2>10 DEF TraceInv
    <3>2. /\ TraceOf(worker[v].run)' = TraceOf(worker[v].run)
          /\ \A i \in TraceOf(worker[v].run) : toolExecutions'[i] = toolExecutions[i]
      BY <1>3, <2>4, <2>6, <3>1
    <3>3. \A p : Complete(worker[v].run, p) => Complete(worker[v].run, p)'
      BY <1>3, <2>7
    <3> QED
      BY <1>3, <3>1, <3>2, <3>3 DEF Traced
  <2>11. Traced(w)'
    <3>1. \A i \in TraceOf(run)' :
             \/ i = n
             \/ i \in TraceOf(run) /\ toolExecutions'[i] = toolExecutions[i]
      BY <2>4, <2>6
    <3>2. worker[w].pc \notin FailPc =>
             \A i \in TraceOf(run)' : toolExecutions'[i].status = "SUCCESS"
      BY <1>2, <1>5, <1>9, <2>1, <2>4, <2>8, <3>1 DEF Traced
    <3>3. ASSUME worker[w].pc \in ToolPc
          PROVE  /\ \A i \in TraceOf(run)' :
                       Position(toolExecutions'[i].tool) <= ToolsBefore(worker[w].pc)
                 /\ Complete(run, ToolsBefore(worker[w].pc) + 1)'
      <4>1. Position(f.tool) = ToolsBefore(worker[w].pc) /\ Position(f.tool) \in 1..7
        BY <1>2, <1>5, <3>3, PositionOf DEF Traced, Finished
      <4>2. \A i \in TraceOf(run) : Position(toolExecutions[i].tool) \in 1..7
        BY <1>0, <2>6, RowsAreExecutions
      <4>3. \A i \in TraceOf(run)' :
               Position(toolExecutions'[i].tool) <= ToolsBefore(worker[w].pc)
        BY <2>1, <2>4, <2>8, <3>1, <4>1, <4>2
      <4>4. ASSUME NEW p, p = Position(f.tool), lostRecords' = 0
            PROVE  RecordedBefore(run, p + 1)'
        <5> SUFFICES ASSUME NEW k \in 1..p
                     PROVE  \E i \in TraceOf(run)' : toolExecutions'[i].tool = Pipeline[k]
          BY <4>1, <4>4 DEF RecordedBefore
        <5>1. CASE k = p
          BY <1>2, <2>1, <2>4, <2>6, <4>4, <5>1, PositionOf DEF Finished
        <5>2. CASE k # p
          <6>1. k \in 1..(p - 1)
            BY <4>1, <4>4, <5>2
          <6>2. RecordedBefore(run, p)
            BY <1>8, <2>8, <4>4 DEF Complete
          <6>3. PICK i \in TraceOf(run) : toolExecutions[i].tool = Pipeline[k]
            BY <6>1, <6>2 DEF RecordedBefore
          <6> QED
            BY <2>4, <2>6, <6>3
        <5> QED
          BY <5>1, <5>2
      <4>5. Complete(run, ToolsBefore(worker[w].pc) + 1)'
        BY <1>3, <4>1, <4>4 DEF Complete
      <4> QED
        BY <4>3, <4>5
    <3> QED
      BY <1>3, <1>4, <1>9, <3>2, <3>3 DEF Traced
  <2> QED
    BY <1>1, <1>3, <2>9, <2>10, <2>11 DEF TraceInv
<1> QED
  BY <1>2, <1>7, <1>8

LEMMA TraceInductive == TraceInv /\ [ToolNext]_<<vars, toolVars>> => TraceInv'
<1> SUFFICES ASSUME TraceInv, [ToolNext]_<<vars, toolVars>> PROVE TraceInv'
  OBVIOUS
<1>1. CASE \E w \in Workers : TracedWorker(w) \/ ProviderReturns(w) \/ CrashMidTool(w)
  <2>1. PICK w \in Workers : TracedWorker(w) \/ ProviderReturns(w) \/ CrashMidTool(w)
    BY <1>1
  <2>2. CASE CallProvider(w) \/ DeadlineExpires(w) \/ ProviderReturns(w)
    <3>1. UNCHANGED <<worker, unrecorded, toolExecutions, lostRecords>>
      BY <2>2 DEF CallProvider, DeadlineExpires, ProviderReturns, vars, workerVars
    <3> QED
      BY <3>1, OutsideStepTraces
  <2> QED
    BY <2>1, <2>2, TracedStepTraces, RecordTraces, CrashTraces DEF TracedWorker
<1>2. CASE \/ Upload /\ UNCHANGED <<workerVars, review, toolVars>>
           \/ ReviewNext /\ UNCHANGED <<workerVars, toolVars>>
           \/ UNCHANGED <<vars, toolVars>>
  <2>1. UNCHANGED <<worker, unrecorded, toolExecutions, lostRecords>>
    BY <1>2 DEF workerVars, vars, toolVars
  <2> QED
    BY <2>1, OutsideStepTraces
<1> QED
  BY <1>1, <1>2 DEF ToolNext

LEMMA TraceInitially == ToolInit => TraceInv
<1> SUFFICES ASSUME ToolInit PROVE TraceInv
  OBVIOUS
<1>1. ToolInv /\ DOMAIN toolExecutions = {}
  BY ToolInvInitially DEF ToolInit
<1>2. \A w \in Workers : worker[w].pc = "poll" /\ worker[w].iterations = 0
  BY DEF ToolInit, Init, WorkerInit, Polling
<1>3. "poll" \notin RunPc
  BY DEF RunPc, StepPc, PersistPc, ClosePc
<1>4. RunInv
  BY <1>2, <1>3 DEF RunInv, RunsDistinct, IterationsAt, StepPc, PersistPc
<1> QED
  BY <1>1, <1>2, <1>3, <1>4 DEF TraceInv, InOrder

\* For any number of workers, whatever the providers and the database do:
\* the rows of tool_executions of a run follow the pipeline, in order, none
\* after a failure and, where no INSERT of a record failed, with no gap.
THEOREM TraceFollowsPipelineHolds == ToolSpec => []TraceFollowsPipeline
<1>1. TraceInv => TraceFollowsPipeline
  <2> SUFFICES ASSUME TraceInv, NEW run, NEW i \in TraceOf(run)
               PROVE  /\ \A j \in TraceOf(run) :
                            i < j => /\ toolExecutions[i].status = "SUCCESS"
                                     /\ Position(toolExecutions[i].tool)
                                           < Position(toolExecutions[j].tool)
                      /\ lostRecords = 0 => RecordedBefore(run, Position(toolExecutions[i].tool))
    BY DEF TraceFollowsPipeline
  <2>1. i \in DOMAIN toolExecutions /\ toolExecutions[i].run = run
    BY DEF TraceOf
  <2> QED
    BY <2>1 DEF TraceInv, InOrder, Complete
<1> QED
  BY <1>1, TraceInitially, TraceInductive, PTL DEF ToolSpec

---------------------------------------------------------------------------
(* The trace and the tables, for one worker *)

\* A worker in fail has not completed its run, and one that is about to
\* record finalize_document has finalized its document.
AgreeInv ==
    /\ TraceAgreesWithTables
    /\ \A w \in Workers :
          /\ worker[w].pc \in FailPc => agentRuns[worker[w].run].status # "COMPLETED"
          /\ \A f \in unrecorded[w] :
                f.tool = "finalize_document" =>
                    documents[worker[w].document].status = "AUTO_PROCESSED"

\* A run is completed by its worker, and stays the document's it was of.
LEMMA RunsChange ==
    ASSUME Inv, [Next]_vars, NEW r \in DOMAIN agentRuns
    PROVE  /\ agentRuns'[r].document = agentRuns[r].document
           /\ agentRuns'[r].status = "COMPLETED" =>
                 \/ agentRuns[r].status = "COMPLETED"
                 \/ \E w \in Workers : /\ worker[w].pc \in {"finish_auto", "finish_review"}
                                      /\ worker[w].run = r
<1>1. CASE UNCHANGED agentRuns
  BY <1>1
<1>2. ASSUME NEW w \in Workers, WorkerStep(w) \/ Crash(w), agentRuns' # agentRuns
      PROVE  \/ agentRuns'[r] = agentRuns[r]
             \/ /\ worker[w].run = r /\ agentRuns'[r].document = agentRuns[r].document
                /\ \/ worker[w].pc \in {"finish_auto", "finish_review"}
                   \/ agentRuns'[r].status = "FAILED"
  <2>1. CASE Claim(w)
    BY <1>2, <2>1, ClaimMoves DEF RunOpened
  <2>2. CASE Process(w) \/ Route(w) \/ Failure(w)
    <3>1. PICK s \in {"COMPLETED", "FAILED"} :
            /\ RunFinished(w, s)
            /\ s = "COMPLETED" => worker[w].pc \in {"finish_auto", "finish_review"}
      BY <1>2, <2>2, RunEffects
      DEF RunEffect, SameRows, WriteMove, At, StatusWritten, DocumentSet, TaskOpened,
          BatchInserted
    <3> QED
      BY <3>1 DEF RunFinished
  <2>3. CASE Crash(w)
    BY <1>2, <2>3 DEF Crash, NoStatement, tables
  <2> QED
    BY <1>2, <2>1, <2>2, <2>3 DEF WorkerStep
<1>3. CASE Upload
  BY <1>1, <1>3, DocumentCreated
<1>4. CASE ReviewNext
  BY <1>1, <1>4, SubmitKeepsRuns DEF ReviewNext
<1> QED
  BY <1>1, <1>2, <1>3, <1>4 DEF Next, WorkerNext, vars, tables

\* The audit of a failure follows fail.
LEMMA FailureAudited ==
    ASSUME Inv, NEW w \in Workers, WorkerStep(w) \/ Crash(w),
           worker'[w].pc \in {"audit_retrying", "audit_failed"}
    PROVE  worker[w].pc \in FailPc /\ worker'[w].run = worker[w].run
<1>1. CASE Claim(w)
  <2>1. \/ worker'[w] = Polling
        \/ worker'[w].pc \in {"lock", "open_run"}
        \/ RunOpened(w)
    BY <1>1, ClaimMoves
  <2> QED
    BY <2>1 DEF Polling, RunOpened
<1>2. CASE Process(w) \/ Route(w) \/ Failure(w)
  <2> USE DEF FailPc, GoesToOne, Goes, Over, At, Polling
  <2>1. RunEffect(w)
    BY <1>2, RunEffects
  <2>2. CASE ReadMove(w)
    BY <2>2 DEF ReadMove
  <2>3. CASE ErrorMove(w)
    BY <2>3 DEF ErrorMove
  <2>4. CASE FailMove(w)
    BY <2>4 DEF FailMove
  <2>5. CASE WriteMove(w)
    BY <2>5 DEF WriteMove
  <2> QED
    BY <2>1, <2>2, <2>3, <2>4, <2>5 DEF RunEffect
<1>3. CASE Crash(w)
  BY <1>3 DEF Crash, Return, Inv, TypeOK, WorkerTypeOK, Polling
<1> QED
  BY <1>1, <1>2, <1>3 DEF WorkerStep

\* What AgreeInv says of a row follows for rows recorded before a step.
LEMMA RowsStillAgree ==
    ASSUME TraceInv, PipelineInv, AgreeInv, Solo, [Next]_vars,
           NEW i \in DOMAIN toolExecutions
    PROVE  LET e == toolExecutions[i]
           IN  /\ e.status # "SUCCESS" => agentRuns'[e.run].status # "COMPLETED"
               /\ e.tool = "finalize_document" =>
                     documents'[agentRuns'[e.run].document].status = "AUTO_PROCESSED"
<1>1. PICK e, r : e = toolExecutions[i] /\ r = e.run
  OBVIOUS
<1>2. r \in DOMAIN agentRuns /\ agentRuns[r].document \in DOMAIN documents /\ Inv
  BY <1>1 DEF TraceInv, ToolInv, Inv, TypeOK, RowsRefer
<1>3. /\ e.status # "SUCCESS" => agentRuns[r].status # "COMPLETED"
      /\ e.tool = "finalize_document" =>
            documents[agentRuns[r].document].status = "AUTO_PROCESSED"
  BY <1>1 DEF AgreeInv, TraceAgreesWithTables
<1>4. agentRuns'[r].document = agentRuns[r].document
  BY <1>2, RunsChange
<1>5. e.status # "SUCCESS" => agentRuns'[r].status # "COMPLETED"
  <2> SUFFICES ASSUME e.status # "SUCCESS", agentRuns'[r].status = "COMPLETED" PROVE FALSE
    OBVIOUS
  <2>1. PICK w \in Workers : /\ worker[w].pc \in {"finish_auto", "finish_review"}
                             /\ worker[w].run = r
    BY <1>2, <1>3, RunsChange
  <2>2. Traced(w) /\ worker[w].pc \notin FailPc
    BY <2>1 DEF TraceInv, RunPc, ClosePc, FailPc
  <2>3. i \in TraceOf(r)
    BY <1>1 DEF TraceOf
  <2> QED
    BY <1>1, <2>1, <2>2, <2>3 DEF Traced
<1>6. \A d \in DOMAIN documents :
         documents[d].status = "AUTO_PROCESSED" => documents'[d].status = "AUTO_PROCESSED"
  BY SettledKept DEF SettledFor, Settled, Disturbed
<1> QED
  BY <1>1, <1>2, <1>3, <1>4, <1>5, <1>6

LEMMA AgreeAfter ==
    ASSUME TraceInv, PipelineInv, AgreeInv, Solo, [ToolNext]_<<vars, toolVars>>,
           UNCHANGED toolExecutions,
           \A w \in Workers : \A f \in unrecorded'[w] :
               f.tool = "finalize_document" =>
                   \/ f \in unrecorded[w] /\ worker'[w] = worker[w]
                   \/ documents'[worker'[w].document].status = "AUTO_PROCESSED"
    PROVE  AgreeInv'
<1>0. [Next]_vars /\ Inv /\ RunInv' /\ Inv'
  BY ToolNextRefines, TraceInductive DEF TraceInv, ToolInv
<1>1. TraceAgreesWithTables'
  BY <1>0, RowsStillAgree DEF TraceAgreesWithTables
<1>2. ASSUME NEW w \in Workers, worker'[w].pc \in FailPc
      PROVE  agentRuns'[worker'[w].run].status # "COMPLETED"
  <2>1. worker'[w].pc \in RunPc
    BY <1>2 DEF FailPc, RunPc, ClosePc
  <2>2. CASE worker'[w].pc \in OpenPc \cup GivingUpPc
    BY <1>0, <2>1, <2>2 DEF RunInv, OwnRun
  <2>3. CASE worker'[w].pc \notin OpenPc \cup GivingUpPc
    <3>1. worker'[w].pc \in {"audit_retrying", "audit_failed"}
      BY <1>2, <2>3 DEF FailPc, OpenPc, GivingUpPc
    <3>2. worker'[w] = worker[w] \/ WorkerStep(w) \/ Crash(w)
      BY <1>0, OtherWorkersStay DEF Next, WorkerNext, vars, workerVars
    <3>3. worker[w].pc \in FailPc /\ worker'[w].run = worker[w].run
      BY <1>0, <1>2, <3>1, <3>2, FailureAudited
    <3>4. worker[w].run \in DOMAIN agentRuns /\ worker[w].pc \in RunPc
      BY <1>0, <3>3, RunFacts DEF FailPc, RunPc, ClosePc
    <3>5. \A v \in Workers : worker[v].pc \notin {"finish_auto", "finish_review"}
      BY <3>3 DEF Solo, FailPc
    <3> QED
      BY <1>0, <3>3, <3>4, <3>5, RunsChange DEF AgreeInv
  <2> QED
    BY <2>2, <2>3
<1>3. ASSUME NEW w \in Workers, NEW f \in unrecorded'[w], f.tool = "finalize_document"
      PROVE  documents'[worker'[w].document].status = "AUTO_PROCESSED"
  <2>1. CASE f \in unrecorded[w] /\ worker'[w] = worker[w]
    <3>1. documents[worker[w].document].status = "AUTO_PROCESSED"
      BY <1>3, <2>1 DEF AgreeInv
    <3>2. worker[w].document \in DOMAIN documents
      BY <1>0, <2>1, RunFacts DEF TraceInv, ToolInv
    <3> QED
      BY <1>0, <2>1, <3>1, <3>2, SettledKept DEF SettledFor, Settled, Disturbed
  <2> QED
    BY <1>3, <2>1
<1> QED
  BY <1>1, <1>2, <1>3 DEF AgreeInv

\* finalize_document is recorded once the document is AUTO_PROCESSED.
LEMMA FinalizedFirst ==
    ASSUME TraceInv, NEW w \in Workers, ToolStep(w), unrecorded[w] = {},
           NEW f \in unrecorded'[w], f.tool = "finalize_document"
    PROVE  documents'[worker'[w].document].status = "AUTO_PROCESSED"
<1>0. Inv /\ ToolInv
  BY DEF TraceInv, ToolInv
<1>1. ASSUME NEW tool, NEW status, Executed(w, tool, status) PROVE tool = "finalize_document"
  BY <1>0, <1>1 DEF Executed, ToolInv
<1>2. FinalizeTool(w)
  BY <1>1 DEF ToolStep, OCRTool, ClassifyTool, SchemaUnreadable, ExtractTool, StoreTool,
     ValidateTool, DuplicateTool, ConfidenceTool, FinalizeTool
<1>3. At(w, "finalize") /\ worker'[w].pc # "fail_finish"
  BY <1>2 DEF FinalizeTool, FinalizeDocument, Step, Failing
<1>4. RunEffect(w)
  BY <1>0, <1>2, RunEffects, ToolStepIsProcess
<1>5. StatusWritten(worker[w].document, "AUTO_PROCESSED") /\ Goes(w, "finish_auto")
  BY <1>3, <1>4 DEF RunEffect, ReadMove, ErrorMove, FailMove, WriteMove, Goes, At
<1>6. /\ worker[w].document \in DOMAIN documents
      /\ documents[worker[w].document] \in Document
  BY <1>0, <1>3, RunFacts, ElementOfSeq
  DEF At, RunPc, StepPc, Inv, TypeOK, DatabaseTypeOK
<1> QED
  BY <1>5, <1>6 DEF StatusWritten, DocumentSet, Goes, Document

LEMMA RecordAgrees ==
    ASSUME TraceInv, PipelineInv, AgreeInv, Solo, NEW w \in Workers, Record(w)
    PROVE  AgreeInv'
<1>0. [ToolNext]_<<vars, toolVars>> /\ Inv /\ ToolInv
  BY DEF ToolNext, TracedWorker, TraceInv, ToolInv
<1>1. UNCHANGED <<vars, worker, agentRuns, documents>>
  BY DEF Record, vars, workerVars, tables
<1>2. \A v \in Workers : unrecorded'[v] \subseteq unrecorded[v]
  BY <1>0 DEF Record, ToolInv
<1>3. CASE UNCHANGED toolExecutions
  BY <1>0, <1>1, <1>2, <1>3, AgreeAfter
<1>4. PICK f \in unrecorded[w] :
         \/ UNCHANGED toolExecutions
         \/ toolExecutions' =
               Append(toolExecutions,
                      [run |-> worker[w].run, tool |-> f.tool, status |-> f.status])
  BY DEF Record
<1> DEFINE row == [run |-> worker[w].run, tool |-> f.tool, status |-> f.status]
<1>5. CASE toolExecutions' = Append(toolExecutions, row)
  <2>1. worker[w].pc \in RunPc /\ Traced(w) /\ f \in Finished
    BY <1>4 DEF TraceInv, ToolInv
  <2>2. /\ row.run = worker[w].run /\ row.tool = f.tool /\ row.status = f.status
        /\ row \in ToolExecution
        /\ agentRuns[worker[w].run].document = worker[w].document
    BY <1>0, <2>1, RunFacts
    DEF Finished, ToolExecution, WorkerState, Inv, TypeOK, WorkerRowsExist
  <2> HIDE DEF row
  <2>3. \A i \in DOMAIN toolExecutions' :
           \/ toolExecutions'[i] = row
           \/ i \in DOMAIN toolExecutions /\ toolExecutions'[i] = toolExecutions[i]
    <3>1. toolExecutions \in Seq(ToolExecution)
      BY <1>0 DEF ToolInv
    <3> QED
      BY <1>5, <2>2, <3>1, AppendProperties, LenProperties
  <2>4. f.status # "SUCCESS" => agentRuns[worker[w].run].status # "COMPLETED"
    BY <2>1 DEF Traced, AgreeInv
  <2>5. f.tool = "finalize_document" =>
           documents[worker[w].document].status = "AUTO_PROCESSED"
    BY DEF AgreeInv
  <2>6. TraceAgreesWithTables'
    BY <1>1, <2>2, <2>3, <2>4, <2>5 DEF TraceAgreesWithTables, AgreeInv
  <2> QED
    BY <1>1, <1>2, <2>6 DEF AgreeInv
<1> QED
  BY <1>3, <1>4, <1>5

LEMMA AgreeInductive ==
    ASSUME Solo, TraceInv, PipelineInv, AgreeInv, [ToolNext]_<<vars, toolVars>>
    PROVE  AgreeInv'
<1>0. Inv /\ ToolInv
  BY DEF TraceInv, ToolInv
<1>1. ASSUME NEW w \in Workers, TracedStep(w) PROVE AgreeInv'
  <2>1. UNCHANGED toolExecutions /\ unrecorded[w] = {}
    BY <1>1 DEF TracedStep, Recorded
  <2>2. \A v \in Workers : v = w
    BY DEF Solo
  <2>3. ToolStep(w) \/ unrecorded'[w] = {}
    BY <1>1, <2>1 DEF TracedStep, StatementStep
  <2> QED
    BY <2>1, <2>2, <2>3, FinalizedFirst, AgreeAfter
<1>2. CASE /\ UNCHANGED toolExecutions
           /\ \A w \in Workers : unrecorded'[w] = {} \/ UNCHANGED <<unrecorded, worker>>
  BY <1>2, AgreeAfter
<1>3. ASSUME NEW w \in Workers,
             CallProvider(w) \/ DeadlineExpires(w) \/ ProviderReturns(w) \/ CrashMidTool(w)
      PROVE  AgreeInv'
  <2>1. CASE CrashMidTool(w)
    <3>1. UNCHANGED toolExecutions /\ unrecorded'[w] = {} /\ \A v \in Workers : v = w
      BY <1>0, <2>1 DEF CrashMidTool, ToolInv, Solo
    <3> QED
      BY <1>2, <3>1
  <2> QED
    BY <1>2, <1>3, <2>1 DEF CallProvider, DeadlineExpires, ProviderReturns, vars, workerVars
<1>4. CASE \/ Upload /\ UNCHANGED <<workerVars, review, toolVars>>
           \/ ReviewNext /\ UNCHANGED <<workerVars, toolVars>>
           \/ UNCHANGED <<vars, toolVars>>
  BY <1>2, <1>4 DEF workerVars, vars, toolVars
<1> QED
  BY <1>1, <1>3, <1>4, RecordAgrees DEF ToolNext, TracedWorker

\* For one worker, whatever the providers and the database do: no tool
\* failed in a run that is COMPLETED, and finalize_document is recorded for
\* a document that is AUTO_PROCESSED only.
THEOREM TraceAgreesWithTablesHolds ==
    ASSUME Solo
    PROVE  ToolSpec => []TraceAgreesWithTables
<1>1. ClaimsApart
  BY DEF ClaimsApart
<1>2. ToolInit => AgreeInv
  BY TraceInitially
  DEF ToolInit, AgreeInv, TraceAgreesWithTables, Init, WorkerInit, Polling, FailPc
<1>3. AgreeInv => TraceAgreesWithTables
  BY DEF AgreeInv
<1>4. TraceInv /\ PipelineInv /\ AgreeInv /\ [ToolNext]_<<vars, toolVars>> => AgreeInv'
  BY AgreeInductive
<1> QED
  BY <1>1, <1>2, <1>3, <1>4, TraceInitially, TraceInductive, ToolsImplementSystem,
     PipelineInvHolds, PTL DEF ToolSpec
=============================================================================
