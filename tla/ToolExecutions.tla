--------------------------- MODULE ToolExecutions ---------------------------
(***************************************************************************)
(* The tools of a run: the calls of the OCR and LLM providers, which may   *)
(* never return, the timeout around them, and the tool_executions rows in  *)
(* which a run leaves its trace (internal/db/tool_executions.go, and the   *)
(* calls of Record in internal/agent/runner.go).                           *)
(*                                                                         *)
(* Every action of the worker is the one of AgentRunner together with what *)
(* it does here, so a behaviour of this module is one of DocumentSystem    *)
(* with the calls and the records as steps in between.                     *)
(***************************************************************************)
EXTENDS DocumentSystem

CONSTANTS
    ToolTimeout,       \* TRUE: TOOL_TIMEOUT_SECONDS is positive
    MaxLostRecords     \* bound: how many INSERTs of Record fail

ASSUME ToolAssumption ==
    /\ ToolTimeout \in BOOLEAN
    /\ MaxLostRecords \in Nat

VARIABLES
    toolExecutions,    \* rows of tool_executions
    call,              \* the provider call each worker is in
    unrecorded,        \* what each worker is about to Record: one or none
    lostRecords        \* how many INSERTs of Record have failed

toolVars == <<toolExecutions, call, unrecorded, lostRecords>>

Pipeline ==
    <<"run_ocr", "classify_document", "extract_fields", "validate_extraction",
      "check_duplicate", "calculate_confidence", "finalize_document">>

Tools == {Pipeline[i] : i \in DOMAIN Pipeline}

ToolExecutionStatus == {"SUCCESS", "FAILED", "TIMEOUT"}

ToolExecution == [run : Nat, tool : Tools, status : ToolExecutionStatus]

Finished == [tool : Tools, status : ToolExecutionStatus]

\* toolFailure: a context deadline is a TIMEOUT, any other error FAILED.
StatusOf ==
    [answered |-> "SUCCESS", failed |-> "FAILED", timed_out |-> "TIMEOUT"]

\* "idle": no call, or its result is used up
CallState == {"idle", "calling"} \cup DOMAIN StatusOf

ToolInit ==
    /\ Init
    /\ toolExecutions = << >>
    /\ call = [w \in Workers |-> "idle"]
    /\ unrecorded = [w \in Workers |-> {}]
    /\ lostRecords = 0

---------------------------------------------------------------------------
(* Record *)

\* The last Record has returned.
Recorded(w) == unrecorded[w] = {}

Executed(w, tool, status) ==
    unrecorded' = [unrecorded EXCEPT ![w] = {[tool |-> tool, status |-> status]}]

\* ToolExecutionRepo.Record: one INSERT, whose error every caller ignores.
Record(w) ==
    /\ \E finished \in unrecorded[w] :
          \/ /\ toolExecutions' =
                   Append(toolExecutions,
                          [run |-> worker[w].run, tool |-> finished.tool,
                           status |-> finished.status])
             /\ UNCHANGED lostRecords
          \/ /\ lostRecords < MaxLostRecords
             /\ lostRecords' = lostRecords + 1
             /\ UNCHANGED toolExecutions
    /\ unrecorded' = [unrecorded EXCEPT ![w] = {}]
    /\ UNCHANGED <<vars, call>>

---------------------------------------------------------------------------
(* Provider calls *)

\* Mutant of HangUp: the step after finds the result of the call before.
HangUpForgotten(w) == UNCHANGED call

HangUp(w) == call' = [call EXCEPT ![w] = "idle"]

Returned(w) == call[w] \in DOMAIN StatusOf

\* run_ocr, classify_document or extract_fields, past its iteration check
CallProvider(w) ==
    /\ \E pc \in {"run_ocr", "classify", "extract"} : Step(w, pc)
    /\ Recorded(w)
    /\ call[w] = "idle"
    /\ call' = [call EXCEPT ![w] = "calling"]
    /\ UNCHANGED <<vars, toolExecutions, unrecorded, lostRecords>>

ProviderReturns(w) ==
    /\ call[w] = "calling"
    /\ \E outcome \in {"answered", "failed"} :
          call' = [call EXCEPT ![w] = outcome]
    /\ UNCHANGED <<vars, toolExecutions, unrecorded, lostRecords>>

\* Mutant of DeadlineExpires: the deadline is that of the run's context,
\* which has none.
DeadlineNeverExpires(w) == FALSE /\ UNCHANGED <<vars, toolVars>>

\* withToolTimeout: the call returns context.DeadlineExceeded.
DeadlineExpires(w) ==
    /\ ToolTimeout
    /\ call[w] = "calling"
    /\ call' = [call EXCEPT ![w] = "timed_out"]
    /\ UNCHANGED <<vars, toolExecutions, unrecorded, lostRecords>>

---------------------------------------------------------------------------
(* The steps of process that execute a tool *)

Failing(w) == worker'[w].pc = "fail_finish"

\* The result of a provider call decides which way the step goes on.
Obeys(w) ==
    /\ Returned(w)
    /\ Failing(w) <=> call[w] # "answered"
    /\ HangUp(w)

OCRTool(w) ==
    /\ RunOCR(w)
    /\ Obeys(w)
    /\ Executed(w, "run_ocr", StatusOf[call[w]])

ClassifyTool(w) ==
    /\ ClassifyDocument(w)
    /\ Obeys(w)
    /\ Executed(w, "classify_document", StatusOf[call[w]])

\* The schema cannot be read, and the provider is not called.
SchemaUnreadable(w) ==
    /\ call[w] = "idle"
    /\ ExtractFields(w)
    /\ Failing(w)
    /\ UNCHANGED <<call, unrecorded>>

\* Mutant of ExtractTool: SUCCESS is recorded before the fields are stored.
ExtractToolRecordedEarly(w) ==
    /\ ExtractFields(w)
    /\ Obeys(w)
    /\ Executed(w, "extract_fields", StatusOf[call[w]])

\* A successful extraction is recorded when its fields are stored.
ExtractTool(w) ==
    /\ ExtractFields(w)
    /\ Obeys(w)
    /\ IF Failing(w) THEN Executed(w, "extract_fields", StatusOf[call[w]])
       ELSE UNCHANGED unrecorded

StoreTool(w) ==
    /\ PersistFields(w)
    /\ Executed(w, "extract_fields", IF Failing(w) THEN "FAILED" ELSE "SUCCESS")
    /\ UNCHANGED call

ValidateTool(w) ==
    /\ ValidateExtraction(w)
    /\ Executed(w, "validate_extraction", "SUCCESS")
    /\ UNCHANGED call

DuplicateTool(w) ==
    /\ CheckExactDuplicate(w) \/ CheckNearDuplicate(w)
    /\ IF worker'[w].pc = "find_near" THEN UNCHANGED unrecorded
       ELSE Executed(w, "check_duplicate", IF Failing(w) THEN "FAILED" ELSE "SUCCESS")
    /\ UNCHANGED call

\* A threshold that cannot be read fails the run and is not recorded.
ConfidenceTool(w) ==
    /\ CalculateConfidence(w)
    /\ IF Failing(w) THEN UNCHANGED unrecorded
       ELSE Executed(w, "calculate_confidence", "SUCCESS")
    /\ UNCHANGED call

\* Mutant of FinalizeTool: recorded whatever the UPDATE returned.
FinalizeToolAlways(w) ==
    /\ FinalizeDocument(w)
    /\ Executed(w, "finalize_document", "SUCCESS")
    /\ UNCHANGED call

FinalizeTool(w) ==
    /\ FinalizeDocument(w)
    /\ IF Failing(w) THEN UNCHANGED unrecorded
       ELSE Executed(w, "finalize_document", "SUCCESS")
    /\ UNCHANGED call

ToolStep(w) ==
    \/ OCRTool(w) \/ ClassifyTool(w) \/ SchemaUnreadable(w) \/ ExtractTool(w)
    \/ StoreTool(w) \/ ValidateTool(w) \/ DuplicateTool(w)
    \/ ConfidenceTool(w) \/ FinalizeTool(w)

\* The steps that execute no tool
StatementStep(w) ==
    /\ \/ Claim(w) \/ Route(w) \/ Failure(w)
       \/ LoadDocument(w) \/ IterationCapReached(w)
       \/ PersistClassification(w) \/ AuditClassified(w)
       \/ PersistExtracted(w) \/ AuditExtracted(w) \/ PersistKey(w)
       \/ PersistValidated(w) \/ AuditValidated(w) \/ PersistDuplicate(w)
       \/ FinishAutoProcessed(w) \/ AuditAutoProcessed(w)
    /\ UNCHANGED <<call, unrecorded>>

\* AgentRunner's WorkerStep, once the record of the tool before is written
TracedStep(w) ==
    /\ Recorded(w)
    /\ ToolStep(w) \/ StatementStep(w)
    /\ UNCHANGED <<crashes, review, toolExecutions, lostRecords>>

CrashMidTool(w) ==
    /\ Crash(w)
    /\ HangUp(w)
    /\ unrecorded' = [unrecorded EXCEPT ![w] = {}]
    /\ UNCHANGED <<review, toolExecutions, lostRecords>>

\* What a worker does by itself; a provider returns when it likes.
TracedWorker(w) ==
    TracedStep(w) \/ Record(w) \/ CallProvider(w) \/ DeadlineExpires(w)

ToolNext ==
    \/ Upload /\ UNCHANGED <<workerVars, review, toolVars>>
    \/ \E w \in Workers : TracedWorker(w) \/ ProviderReturns(w) \/ CrashMidTool(w)
    \/ ReviewNext /\ UNCHANGED <<workerVars, toolVars>>

ToolSpec == ToolInit /\ [][ToolNext]_<<vars, toolVars>>

\* The worker's loop goes on and time passes; nothing makes a provider
\* return, a client upload or a reviewer decide.
ToolFairSpec ==
    ToolSpec /\ \A w \in Workers : WF_<<vars, toolVars>>(TracedWorker(w))

---------------------------------------------------------------------------
(* Properties *)

\* Every variable has its type, a worker is in a call only at a step that
\* calls a provider, and every record is one of a run that exists.
ToolTypeOK ==
    /\ TypeOK
    /\ toolExecutions \in Seq(ToolExecution)
    /\ call \in [Workers -> CallState]
    /\ unrecorded \in [Workers -> SUBSET Finished]
    /\ lostRecords \in Nat
    /\ \A w \in Workers :
          /\ call[w] # "idle" => worker[w].pc \in {"run_ocr", "classify", "extract"}
          /\ unrecorded[w] # {} => worker[w].pc \in RunPc
    /\ \A i \in DOMAIN toolExecutions : toolExecutions[i].run \in DOMAIN agentRuns

\* The rows of GET /documents/{id}/agent-runs for a run, in their order
TraceOf(run) == {i \in DOMAIN toolExecutions : toolExecutions[i].run = run}

Position(tool) == CHOOSE i \in DOMAIN Pipeline : Pipeline[i] = tool

\* Every tool before the one at position p has its record.
RecordedBefore(run, p) ==
    \A k \in 1..(p - 1) : \E i \in TraceOf(run) : toolExecutions[i].tool = Pipeline[k]

\* The trace of a run follows the pipeline: each tool at most once, in
\* order, nothing after a failure, and no gap unless the INSERT of a record
\* failed.
TraceFollowsPipeline ==
    \A run \in DOMAIN agentRuns :
        /\ \A i, j \in TraceOf(run) :
              i < j => /\ toolExecutions[i].status = "SUCCESS"
                       /\ Position(toolExecutions[i].tool) < Position(toolExecutions[j].tool)
        /\ lostRecords = 0 =>
              \A i \in TraceOf(run) : RecordedBefore(run, Position(toolExecutions[i].tool))

\* The trace agrees with the tables: no tool failed in a run that is
\* COMPLETED, and finalize_document is recorded for a document that is
\* AUTO_PROCESSED only.
TraceAgreesWithTables ==
    \A i \in DOMAIN toolExecutions :
        LET e == toolExecutions[i]
        IN  /\ e.status # "SUCCESS" => agentRuns[e.run].status # "COMPLETED"
            /\ e.tool = "finalize_document" =>
                  documents[agentRuns[e.run].document].status = "AUTO_PROCESSED"

\* PollOnce always returns and the worker goes on to other documents, though
\* a provider may never answer: the timeout around each call sees to it
\* (runner.go:58-61).
EveryPollReturns == \A w \in Workers : []<>At(w, "poll")
=============================================================================
