---------------------------- MODULE Outcome_proofs ----------------------------
(***************************************************************************)
(* Theorems about what becomes of a document: how often it is attempted,   *)
(* how many tasks its reviewers get and what their decision is worth, that *)
(* a run over the iteration cap is its last, that of documents with the    *)
(* same key fields the first is the one processed without a human, and     *)
(* what the audit log says of it all.                                      *)
(***************************************************************************)
EXTENDS Pipeline_proofs

---------------------------------------------------------------------------
(* Runs that close *)

\* A run is closed as completed once its document has left the pipeline.
ClosedOutside(d) ==
    \A w \in Workers :
        worker[w].document = d /\ worker[w].pc \in {"finish_auto", "finish_review"} =>
            documents[d].status \notin Active

ClosingInv == \A d \in DOMAIN documents : Disturbed(d) \/ ClosedOutside(d)

---------------------------------------------------------------------------
(* The invariant on attempts *)

\* A failed run left d claimable while something else could interfere: another
\* worker, or a crash of its own.
Shaken(d) == EarlyFailure(d) /\ ~(Solo /\ MaxCrashes = 0)

GivenUp(d) ==
    \E w \in Workers : worker[w].document = d /\ worker[w].pc \in GivingUpPc

\* A document that can be claimed has a retry left, and so has one whose
\* run is about to put it back.
AttemptInv(d) ==
    /\ Cardinality(RunsOf(d)) <= MaxRetries + 1
    /\ documents[d].status = "UPLOADED" /\ Unclaimed(d) /\ ~GivenUp(d) =>
          Cardinality(RunsOf(d)) <= MaxRetries
    /\ documents[d].status \in Active => RunsWith(d, "COMPLETED") = {}
    /\ GivenUp(d) => Unclaimed(d)
    /\ \A w \in Workers :
          worker[w].document = d /\ worker[w].pc = "fail_requeue" =>
              CountFailed(d) <= MaxRetries

AttemptsInv == \A d \in DOMAIN documents : Shaken(d) \/ AttemptInv(d)

---------------------------------------------------------------------------
(* The invariant on review tasks *)

\* What a run that owns d knows of its tasks
OwnerTasks(w, d) ==
    worker[w].document = d =>
        /\ worker[w].pc \in OwningPc \ {"mark_pending"} => TasksOf(d) = {}
        /\ worker[w].pc = "mark_pending" => PendingTasks(d) # {}

\* What a request that reviews d has done
DecisionTaken(u, d) ==
    review[u].document = d /\ review[u].pc \in {"mark_reviewed", "audit"} =>
        reviewTasks[review[u].task].status # "PENDING"

TaskInv(d) ==
    /\ \A t, u \in TasksOf(d) : t = u
    /\ documents[d].status \in {"AUTO_PROCESSED", "FAILED"} => TasksOf(d) = {}
    /\ documents[d].status = "UPLOADED" /\ Unclaimed(d) => TasksOf(d) = {}
    /\ documents[d].status = "PENDING_REVIEW" => PendingTasks(d) # {} \/ MidSubmit(d)
    /\ documents[d].status = "REVIEWED" => PendingTasks(d) = {}
    /\ \A w \in Workers : OwnerTasks(w, d)
    /\ \A u \in Reviewers : DecisionTaken(u, d)
    /\ MaxCrashes = 0 /\ documents[d].status \in Active /\ TasksOf(d) # {} =>
          \E w \in Workers : worker[w].document = d /\ At(w, "mark_pending")

TasksInv == \A d \in DOMAIN documents : Disturbed(d) \/ TaskInv(d)

---------------------------------------------------------------------------
(* The invariant on the iteration cap *)

\* A run past the iteration cap
Capped(r) == agentRuns[r].iterations > MaxIterations

\* The run of a worker that stops past the cap had classified its document,
\* or no worker stops.
SafeCap == MaxIterations >= 2 \/ (MaxCrashes = 0 /\ MaxDatabaseErrors = 0)

LastRun(r) == \A s \in RunsOf(agentRuns[r].document) : s <= r

OpenRuns ==
    \A r \in DOMAIN agentRuns :
        agentRuns[r].status = "RUNNING" => agentRuns[r].iterations = 0 /\ LastRun(r)

CapReached(r, d) ==
    agentRuns[r].document = d /\ Capped(r) =>
        /\ LastRun(r)
        /\ agentRuns[r].status = "FAILED"
        /\ \/ documents[d].status # "UPLOADED"
           \/ /\ MaxIterations < 2
              /\ \E w \in Workers : worker[w].document = d /\ At(w, "fail_mark")
        /\ \A w \in Workers :
              worker[w].document = d /\ worker[w].pc \in OwningPc => At(w, "fail_mark")

\* Where a run has failed
FailingPc == {"fail_finish", "audit_retrying", "audit_failed"} \cup GivingUpPc

UnderCap(w) ==
    worker[w].pc \in RunPc /\ worker[w].pc \notin StepPc \cup FailingPc =>
        worker[w].iterations <= MaxIterations

CapInv ==
    /\ OpenRuns
    /\ \A d \in DOMAIN documents : \A r \in DOMAIN agentRuns : CapReached(r, d)
    /\ \A w \in Workers : UnderCap(w)

---------------------------------------------------------------------------
(* The invariant on near-duplicates *)

\* d is not claimable
Dead(d) == documents[d].status # "UPLOADED" \/ ~Unclaimed(d)

Owned(d) == \E w \in Workers : worker[w].document = d /\ worker[w].pc \in OwningPc

Older(d) == {e \in DOMAIN documents : e < d}

\* d passed the check for near-duplicates, or was processed.
Cleared(d) ==
    \/ documents[d].status = "AUTO_PROCESSED"
    \/ \E w \in Workers : /\ worker[w].document = d
                          /\ worker[w].pc \in {"calculate_confidence", "finalize"}

\* Documents are taken in the order of their uploads.
TakenInOrder(d) ==
    /\ RunsOf(d) # {} => \A e \in Older(d) : Dead(e) /\ ~Owned(e)
    /\ documents[d].status # "UPLOADED" => RunsOf(d) # {}

ClearedIsFirst(d) ==
    Cleared(d) /\ documents[d].key # NoKey =>
        \A e \in Older(d) : documents[e].key # documents[d].key

KeyedPc ==
    {"mark_validated", "audit_validated", "find_exact", "find_near"}

NextInLine(w) ==
    /\ worker[w].pc \in OwningPc => \A e \in Older(worker[w].document) : Dead(e)
    /\ worker[w].pc = "lock" =>
          /\ \A e \in DOMAIN documents \ worker[w].snapshot :
                Dead(e) \/ \A s \in worker[w].snapshot : s < e
          /\ \A s \in worker[w].snapshot : documents[s].status = "UPLOADED"
    /\ worker[w].pc \in KeyedPc => worker[w].key # NoKey

FifoInv ==
    /\ \A d \in DOMAIN documents : TakenInOrder(d) /\ ClearedIsFirst(d)
    /\ \A w \in Workers : NextInLine(w)
---------------------------------------------------------------------------
(* Steps and the rows of one document *)

LEMMA ErrorsNever ==
    ASSUME Inv, MaxDatabaseErrors = 0, NEW w \in Workers, RunEffect(w)
    PROVE  \/ SameRows /\ ReadMove(w) /\ Passed(w)
           \/ SameRows /\ FailMove(w)
           \/ WriteMove(w) /\ Passed(w)
BY NoErrorMove DEF RunEffect, ErrorMove

LEMMA CrashStops ==
    ASSUME Inv, NEW w \in Workers, Crash(w)
    PROVE  OthersStay(w) /\ worker'[w] = Polling /\ UNCHANGED tables /\ MaxCrashes # 0
BY ReturnOver
DEF Crash, Over, Inv, TypeOK, WorkerTypeOK, NoStatement

\* A disturbed document stays disturbed.
LEMMA DisturbedForGood ==
    ASSUME PipelineInv, [Next]_vars
    PROVE  /\ \A d : EarlyFailure(d) => EarlyFailure(d)'
           /\ \A d : Disturbed(d) => Disturbed(d)'
<1> USE DEF PipelineInv
<1>1. FailedRunsStay
  <2>1. ASSUME NEW w \in Workers, WorkerStep(w) \/ Crash(w)
        PROVE  FailedRunsStay
    <3>1. CASE Claim(w)
      BY <3>1, SnapshotTaken, LockTaken, RunInserted
      DEF Claim, tables, FailedRunsStay, RunOpened
    <3>2. CASE Process(w) \/ Route(w) \/ Failure(w)
      BY <3>2, RunEffects, RunPcs, EffectKeepsFailed
    <3>3. CASE Crash(w)
      BY <3>3, CrashStops DEF tables, FailedRunsStay
    <3> QED
      BY <2>1, <3>1, <3>2, <3>3 DEF WorkerStep
  <2>2. CASE UNCHANGED agentRuns
    BY <2>2 DEF FailedRunsStay
  <2> QED
    BY <2>1, <2>2, DocumentCreated, SubmitKeepsRuns
    DEF Next, WorkerNext, ReviewNext, vars, tables
<1>2. \A d : EarlyFailure(d) => EarlyFailure(d)'
  BY <1>1 DEF FailedRunsStay, EarlyFailure, RunsWith
<1> QED
  BY <1>2 DEF Disturbed

\* What a step can do to a worker whose run is past its last status
LEMMA Closes ==
    ASSUME Inv, MaxDatabaseErrors = 0, NEW w \in Workers, RunEffect(w),
           worker'[w].pc \in {"finish_auto", "finish_review"}
    PROVE  LET d == worker[w].document
           IN  /\ worker'[w].document = d
               /\ StatusWritten(d, "AUTO_PROCESSED") \/ StatusWritten(d, "PENDING_REVIEW")
<1> USE DEF At, GoesToOne, Goes, Over, Polling
<1>1. ~ReadMove(w)
  BY DEF ReadMove
<1>2. ~FailMove(w)
  BY DEF FailMove
<1>3. WriteMove(w)
  BY <1>1, <1>2, ErrorsNever
<1> QED
  BY <1>3 DEF WriteMove

\* Where no statement fails, a run is closed as completed only after its
\* document got its last status, which then stands.
LEMMA ClosingInductive ==
    ASSUME PipelineInv, ClosingInv, MaxDatabaseErrors = 0, [Next]_vars
    PROVE  ClosingInv'
<1> USE DEF PipelineInv
<1> SUFFICES ASSUME NEW d \in DOMAIN documents', ~Disturbed(d)',
                    NEW w \in Workers, worker'[w].document = d,
                    worker'[w].pc \in {"finish_auto", "finish_review"}
             PROVE  documents'[d].status \notin Active
  BY DEF ClosingInv, ClosedOutside
<1>0. ~Disturbed(d)
  BY DisturbedForGood
<1>1. CASE worker'[w] = worker[w]
  <2>1. d \in DOMAIN documents /\ documents[d].status \notin Active
    BY <1>0, <1>1
    DEF ClosingInv, ClosedOutside, Inv, TypeOK, WorkerRowsExist, RunPc, ClosePc
  <2>2. documents[d].status \in Settled
    <3>1. documents[d] \in Document
      BY <2>1, ElementOfSeq DEF Inv, TypeOK, DatabaseTypeOK
    <3> QED
      BY <2>1, <3>1 DEF Document, DocumentStatus, Active, Settled
  <2>3. SettledFor(d)
    BY <1>0, <2>1, SettledKept
  <2> QED
    BY <2>1, <2>2, <2>3 DEF SettledFor, Settled, Active
<1>2. CASE worker'[w] # worker[w]
  <2>1. PICK v \in Workers : WorkerStep(v) \/ Crash(v)
    BY <1>2 DEF Next, WorkerNext, vars, workerVars
  <2>2. CASE Claim(v)
    <3>1. /\ OthersStay(v)
          /\ \/ worker'[v] = Polling
             \/ worker'[v].pc \in {"lock", "open_run"}
             \/ RunOpened(v)
      BY <2>2, ClaimMoves
    <3> QED
      BY <1>2, <3>1 DEF OthersStay, RunOpened, Polling
  <2>3. CASE Crash(v)
    BY <1>2, <2>3, CrashStops DEF OthersStay, Polling
  <2>4. CASE Process(v) \/ Route(v) \/ Failure(v)
    <3>1. v = w /\ RunEffect(w) /\ worker[w].pc \in RunPc
      BY <1>2, <2>4, RunEffects, RunPcs, EffectMoves DEF OthersStay
    <3>2. /\ d = worker[w].document /\ d \in DOMAIN documents
          /\ documents[d] \in Document
      BY <3>1, Closes, RunFacts, ElementOfSeq DEF TablesOK
    <3>3. StatusWritten(d, "AUTO_PROCESSED") \/ StatusWritten(d, "PENDING_REVIEW")
      BY <3>1, <3>2, Closes
    <3> QED
      BY <3>2, <3>3 DEF StatusWritten, DocumentSet, Document, Active
  <2> QED
    BY <2>1, <2>2, <2>3, <2>4 DEF WorkerStep
<1> QED
  BY <1>1, <1>2

---------------------------------------------------------------------------
(* Attempts *)

\* What a step leaves alone of the rows of d that the attempts show in
RunsKept(d) ==
    /\ d \in DOMAIN documents /\ d \in DOMAIN documents'
    /\ documents'[d].status \in Active => documents[d].status \in Active
    /\ documents'[d].status = "UPLOADED" => documents[d].status = "UPLOADED"
    /\ RunsOf(d)' = RunsOf(d)
    /\ \A s \in AgentRunStatus : RunsWith(d, s)' = RunsWith(d, s)

LEMMA AttemptKept ==
    ASSUME NEW d, AttemptInv(d), RunsKept(d),
           \A w \in Workers :
               \/ worker'[w] = worker[w]
               \/ /\ worker[w].document = d => worker[w].pc \notin GivingUpPc
                  /\ worker'[w].document = d => worker'[w].pc \notin GivingUpPc
    PROVE  AttemptInv(d)'
<1>1. GivenUp(d)' <=> GivenUp(d)
  BY DEF GivenUp
<1>2. Unclaimed(d)' <=> Unclaimed(d)
  BY DEF Unclaimed, RunsKept, AgentRunStatus
<1>3. CountFailed(d)' = CountFailed(d)
  BY DEF CountFailed, RunsKept, AgentRunStatus
<1>4. \A w \in Workers :
        worker'[w].document = d /\ worker'[w].pc = "fail_requeue" => CountFailed(d)' <= MaxRetries
  BY <1>3 DEF AttemptInv, GivingUpPc
<1> QED
  BY <1>1, <1>2, <1>4 DEF AttemptInv, RunsKept, AgentRunStatus, Active

LEMMA RowsKeepRuns ==
    ASSUME NEW d \in DOMAIN documents, DOMAIN documents' = DOMAIN documents,
           documents'[d] = documents[d], UNCHANGED agentRuns
    PROVE  RunsKept(d)
BY DEF RunsKept, RunsOf, RunsWith

\* An unclaimed document in the pipeline has failed runs only.
LEMMA RunsAllFailed ==
    ASSUME Inv, NEW d, RunsWith(d, "RUNNING") = {}, RunsWith(d, "COMPLETED") = {}
    PROVE  RunsOf(d) = RunsWith(d, "FAILED")
<1>1. \A r \in DOMAIN agentRuns : agentRuns[r] \in AgentRun
  BY ElementOfSeq DEF Inv, TypeOK, DatabaseTypeOK
<1> QED
  BY <1>1 DEF RunsOf, RunsWith, AgentRun, AgentRunStatus

\* The run of an owner is the one RUNNING run of its document.
LEMMA OwnersRun ==
    ASSUME PipelineInv, NEW w \in Workers, worker[w].pc \in OpenPc, NEW d,
           d = worker[w].document
    PROVE  /\ RunsWith(d, "RUNNING") = {worker[w].run}
           /\ d \in DOMAIN documents /\ worker[w].run \in RunsOf(d)
<1>1. worker[w].pc \in RunPc
  BY DEF OpenPc, RunPc, ClosePc
<1>2. /\ d \in DOMAIN documents /\ worker[w].run \in DOMAIN agentRuns
      /\ agentRuns[worker[w].run].document = d
      /\ agentRuns[worker[w].run].status = "RUNNING"
  BY <1>1 DEF PipelineInv, Inv, TypeOK, WorkerRowsExist, RunInv, OwnRun
<1>3. worker[w].run \in RunsWith(d, "RUNNING")
  BY <1>2 DEF RunsWith
<1> QED
  BY <1>2, <1>3 DEF PipelineInv, ClaimInv, OneRunningRun, RunsOf

\* What closing a run does to the runs of its document
LEMMA RunClosedCounts ==
    ASSUME PipelineInv, NEW w \in Workers, worker[w].pc \in OpenPc, NEW s \in {"COMPLETED", "FAILED"},
           RunFinished(w, s), NEW d, d = worker[w].document
    PROVE  /\ RunsOf(d)' = RunsOf(d)
           /\ RunsWith(d, "RUNNING")' = {}
           /\ \A z \in AgentRunStatus : z # "RUNNING" /\ z # s => RunsWith(d, z)' = RunsWith(d, z)
           /\ \A e : e # d => /\ RunsOf(e)' = RunsOf(e)
                              /\ \A z : RunsWith(e, z)' = RunsWith(e, z)
<1> PICK r : r = worker[w].run
  OBVIOUS
<1>1. /\ RunsWith(d, "RUNNING") = {r} /\ r \in RunsOf(d)
  BY OwnersRun
<1>2. /\ r \in DOMAIN agentRuns /\ agentRuns[r].document = d /\ agentRuns[r].status = "RUNNING"
  BY <1>1 DEF RunsWith
<1>3. /\ DOMAIN agentRuns' = DOMAIN agentRuns
      /\ \A q \in DOMAIN agentRuns : q # r => agentRuns'[q] = agentRuns[q]
      /\ agentRuns'[r].document = d /\ agentRuns'[r].status = s
  BY <1>2 DEF RunFinished
<1>4. RunsOf(d)' = RunsOf(d)
  BY <1>2, <1>3 DEF RunsOf
<1>5. RunsWith(d, "RUNNING")' = {}
  BY <1>1, <1>2, <1>3 DEF RunsWith
<1>6. \A z \in AgentRunStatus : z # "RUNNING" /\ z # s => RunsWith(d, z)' = RunsWith(d, z)
  BY <1>2, <1>3 DEF RunsWith
<1>7. ASSUME NEW e, e # d
      PROVE  RunsOf(e)' = RunsOf(e) /\ \A z : RunsWith(e, z)' = RunsWith(e, z)
  BY <1>2, <1>3, <1>7 DEF RunsOf, RunsWith
<1> QED
  BY <1>4, <1>5, <1>6, <1>7

\* A step of a run leaves the runs of other documents alone.
LEMMA EffectKeepsOtherRuns ==
    ASSUME Inv, NEW w \in Workers, RunEffect(w), worker[w].pc \in RunPc,
           NEW d \in DOMAIN documents, d # worker[w].document
    PROVE  RunsKept(d) /\ documents'[d] = documents[d]
<1>1. documents'[d] = documents[d] /\ DOMAIN documents' = DOMAIN documents
  BY EffectDocuments
<1>2. /\ DOMAIN agentRuns' = DOMAIN agentRuns
      /\ \A r \in DOMAIN agentRuns :
            r # worker[w].run => agentRuns'[r] = agentRuns[r]
  BY EffectRuns
<1>3. /\ worker[w].run \in DOMAIN agentRuns
      /\ agentRuns[worker[w].run].document = worker[w].document
      /\ agentRuns'[worker[w].run].document = worker[w].document
  BY RunFacts
  DEF Inv, TypeOK, WorkerRowsExist, RunEffect, SameRows, WriteMove, StatusWritten,
      DocumentSet, TaskOpened, BatchInserted, RunFinished
<1> QED
  BY <1>1, <1>2, <1>3 DEF RunsKept, RunsOf, RunsWith

\* What a step of a run does to its document's row
LEMMA EffectStatus ==
    ASSUME PipelineInv, MaxDatabaseErrors = 0, NEW w \in Workers,
           Process(w) \/ Route(w) \/ Failure(w), NEW d, d = worker[w].document,
           ~Disturbed(d)
    PROVE  \/ /\ worker[w].pc \notin GivingUpPc \cup {"finish_auto", "finish_review", "fail_finish"}
              /\ RunsKept(d)
              /\ worker'[w].document = d => worker'[w].pc \notin GivingUpPc
           \/ /\ worker[w].pc \in {"finish_auto", "finish_review"}
              /\ RunFinished(w, "COMPLETED")
              /\ worker'[w].pc \notin GivingUpPc
           \/ /\ worker[w].pc = "fail_finish" /\ RunFinished(w, "FAILED")
              /\ worker'[w].document = d /\ worker'[w].pc \in GivingUpPc \ {"fail_requeue"}
           \/ /\ worker[w].pc = "fail_count" /\ SameRows
              /\ worker'[w].document = d
              /\ \/ worker'[w].pc = "fail_requeue" /\ CountFailed(d) <= MaxRetries
                 \/ worker'[w].pc = "fail_mark"
           \/ /\ worker[w].pc = "fail_requeue" /\ StatusWritten(d, "UPLOADED")
              /\ worker'[w].pc \notin GivingUpPc
           \/ /\ worker[w].pc = "fail_mark" /\ StatusWritten(d, "FAILED")
              /\ worker'[w].pc \notin GivingUpPc
<1> USE DEF At, GoesToOne, Goes, Over, Polling, StepPc, GivingUpPc
<1>1. /\ RunEffect(w) /\ worker[w].pc \in RunPc /\ d \in DOMAIN documents
      /\ documents[d] \in Document
  BY RunEffects, RunPcs, RunFacts, ElementOfSeq DEF PipelineInv, TablesOK
<1>2. worker[w].pc \in OwningPc =>
          documents[d].status \in StageAt(worker[w].pc) /\ documents[d].status \in Active
  BY StagesActive DEF PipelineInv, StageInv, Staged
<1>3. SameRows => RunsKept(d)
  BY <1>1, RowsKeepRuns DEF SameRows
<1>4. CASE SameRows /\ ReadMove(w)
  BY <1>3, <1>4 DEF ReadMove
<1>5. CASE SameRows /\ FailMove(w)
  BY <1>3, <1>5 DEF FailMove, CanFail
<1>6. CASE WriteMove(w)
  <2>1. ASSUME TaskOpened(d) \/ BatchInserted(d, Agent)
        PROVE  RunsKept(d)
    BY <1>1, <2>1, RowsKeepRuns DEF TaskOpened, BatchInserted
  <2>2. ASSUME NEW s, StatusWritten(d, s), s # "UPLOADED",
               s \in Active => documents[d].status \in Active
        PROVE  RunsKept(d)
    BY <1>1, <2>2 DEF StatusWritten, DocumentSet, Document, RunsKept, RunsOf, RunsWith
  <2>3. ASSUME DocumentSet(d, [documents[d] EXCEPT !.key = worker[w].key])
        PROVE  RunsKept(d)
    BY <1>1, <2>3 DEF DocumentSet, Document, RunsKept, RunsOf, RunsWith
  <2>4. ASSUME DocumentSet(d, [documents[d] EXCEPT !.duplicateOf = worker[w].duplicateOf])
        PROVE  RunsKept(d)
    BY <1>1, <2>4 DEF DocumentSet, Document, RunsKept, RunsOf, RunsWith
  <2>5. CASE At(w, "mark_classified") \/ At(w, "mark_extracted") \/ At(w, "mark_validated")
             \/ At(w, "finalize") \/ At(w, "mark_pending")
    <3>1. worker[w].pc \in OwningPc
      BY <2>5 DEF OwningPc, OpenPc, PersistPc
    <3> QED
      BY <1>2, <1>6, <2>2, <2>5, <3>1 DEF WriteMove
  <2> QED
    BY <1>6, <2>1, <2>3, <2>4, <2>5 DEF WriteMove
<1> QED
  BY <1>1, <1>4, <1>5, <1>6, ErrorsNever DEF PipelineInv

LEMMA EffectKeepsAttempts ==
    ASSUME PipelineInv, MaxDatabaseErrors = 0, NEW w \in Workers,
           Process(w) \/ Route(w) \/ Failure(w), NEW d, d = worker[w].document,
           ~Disturbed(d), ClosedOutside(d), AttemptInv(d)
    PROVE  AttemptInv(d)'
<1>1. /\ OthersStay(w) /\ worker[w].pc \in RunPc /\ d \in DOMAIN documents
      /\ documents[d] \in Document
  BY RunEffects, RunPcs, EffectMoves, RunFacts, ElementOfSeq DEF PipelineInv, TablesOK
<1>2. worker[w].pc \in OwningPc => documents[d].status \in Active
  BY OwnersApart DEF PipelineInv
<1>3. worker[w].pc \in OpenPc => ~GivenUp(d)
  BY OwnersRun DEF AttemptInv, Unclaimed
<1>4. CASE /\ worker[w].pc \notin GivingUpPc
           /\ RunsKept(d)
           /\ worker'[w].document = d => worker'[w].pc \notin GivingUpPc
  BY <1>1, <1>4, AttemptKept DEF OthersStay
<1>5. CASE /\ worker[w].pc \in {"finish_auto", "finish_review"}
           /\ RunFinished(w, "COMPLETED")
           /\ worker'[w].pc \notin GivingUpPc
  <2>1. RunsOf(d)' = RunsOf(d) /\ UNCHANGED documents /\ ~GivenUp(d)
    BY <1>3, <1>5, RunClosedCounts DEF OpenPc, RunFinished
  <2>2. ~GivenUp(d)'
    BY <1>1, <1>5, <2>1 DEF GivenUp, OthersStay
  <2>3. documents[d].status \notin Active
    BY <1>5 DEF ClosedOutside
  <2> QED
    BY <2>1, <2>2, <2>3 DEF AttemptInv, Active, GivenUp, GivingUpPc
<1>6. CASE /\ worker[w].pc = "fail_finish" /\ RunFinished(w, "FAILED")
           /\ worker'[w].document = d /\ worker'[w].pc \in GivingUpPc \ {"fail_requeue"}
  <2>1. /\ RunsOf(d)' = RunsOf(d) /\ UNCHANGED documents /\ ~GivenUp(d) /\ Unclaimed(d)'
        /\ RunsWith(d, "COMPLETED")' = RunsWith(d, "COMPLETED")
    BY <1>3, <1>6, RunClosedCounts DEF OpenPc, RunFinished, Unclaimed, AgentRunStatus
  <2>2. GivenUp(d)'
    BY <1>6 DEF GivenUp
  <2>3. \A v \in Workers : worker'[v].document = d => worker'[v].pc # "fail_requeue"
    BY <1>1, <1>6, <2>1 DEF GivenUp, GivingUpPc, OthersStay
  <2> QED
    BY <2>1, <2>2, <2>3 DEF AttemptInv
<1>7. ASSUME UNCHANGED agentRuns
      PROVE  /\ RunsOf(d)' = RunsOf(d) /\ (Unclaimed(d)' <=> Unclaimed(d))
             /\ RunsWith(d, "COMPLETED")' = RunsWith(d, "COMPLETED")
             /\ CountFailed(d)' = CountFailed(d)
  BY <1>7 DEF RunsOf, Unclaimed, RunsWith, CountFailed
<1>8. worker[w].pc \in GivingUpPc => GivenUp(d)
  BY DEF GivenUp
<1>9. CASE /\ worker[w].pc = "fail_count" /\ SameRows
           /\ worker'[w].document = d
           /\ \/ worker'[w].pc = "fail_requeue" /\ CountFailed(d) <= MaxRetries
              \/ worker'[w].pc = "fail_mark"
  <2>1. GivenUp(d) /\ GivenUp(d)' /\ UNCHANGED <<documents, agentRuns>>
    BY <1>8, <1>9 DEF GivenUp, GivingUpPc, SameRows
  <2>2. \A v \in Workers : worker'[v].document = d /\ worker'[v].pc = "fail_requeue" =>
            CountFailed(d)' <= MaxRetries
    BY <1>1, <1>7, <1>9, <2>1 DEF AttemptInv, OthersStay
  <2> QED
    BY <1>7, <2>1, <2>2 DEF AttemptInv
<1>10. ASSUME NEW s, StatusWritten(d, s), worker[w].pc \in GivingUpPc,
              worker'[w].pc \notin GivingUpPc,
              s = "UPLOADED" => worker[w].pc = "fail_requeue"
       PROVE  AttemptInv(d)'
  <2>1. /\ documents'[d].status = s /\ UNCHANGED agentRuns
        /\ documents[d].status \in Active /\ GivenUp(d)
    <3>1. worker[w].pc \in OwningPc
      BY <1>10 DEF OwningPc, GivingUpPc
    <3>2. documents'[d].status = s /\ UNCHANGED agentRuns
      BY <1>1, <1>10 DEF StatusWritten, DocumentSet, Document
    <3> QED
      BY <1>2, <1>8, <1>10, <3>1, <3>2
  <2>2. Unclaimed(d)' /\ RunsWith(d, "COMPLETED")' = {} /\ RunsOf(d)' = RunsWith(d, "FAILED")
    BY <1>7, <2>1, RunsAllFailed DEF AttemptInv, Unclaimed, PipelineInv
  <2>3. s = "UPLOADED" => Cardinality(RunsOf(d)') <= MaxRetries
    BY <1>10, <2>2 DEF AttemptInv, CountFailed
  <2>4. \A v \in Workers : worker'[v].document = d /\ worker'[v].pc = "fail_requeue" =>
            CountFailed(d)' <= MaxRetries
    BY <1>1, <1>7, <1>10, <2>1 DEF AttemptInv, OthersStay, GivingUpPc
  <2> QED
    BY <1>7, <2>1, <2>2, <2>3, <2>4 DEF AttemptInv
<1> QED
  BY <1>4, <1>5, <1>6, <1>9, <1>10, EffectStatus DEF GivingUpPc

\* A claim is an attempt more, of a document that has one left.
LEMMA OpenKeepsAttempts ==
    ASSUME PipelineInv, NEW w \in Workers, worker[w].pc = "open_run", OthersStay(w),
           RunOpened(w), UNCHANGED documents, NEW d, d = worker[w].document,
           ~Disturbed(d), AttemptInv(d)
    PROVE  AttemptInv(d)'
<1>1. /\ documents[d].status = "UPLOADED" /\ Unclaimed(d) /\ ~GivenUp(d)
      /\ documents[d].status \in Active
  <2>1. worker[w].pc \in OwningPc
    BY DEF OwningPc
  <2>2. documents[d].status = "UPLOADED"
    BY <2>1 DEF PipelineInv, StageInv, Staged, StageAt
  <2>3. \A v \in Workers : worker[v].pc \in OwningPc /\ worker[v].document = d => v = w
    BY <2>1, OwnersApart DEF PipelineInv
  <2> QED
    BY <2>2, <2>3 DEF GivenUp, OwningPc, GivingUpPc, PipelineInv, ClaimInv, Active
<1> PICK r : r = worker'[w].run
  OBVIOUS
<1>2. /\ r \notin RunsOf(d) /\ RunsOf(d)' = RunsOf(d) \cup {r}
      /\ r \in RunsWith(d, "RUNNING")'
      /\ RunsWith(d, "COMPLETED")' = RunsWith(d, "COMPLETED")
  BY DEF RunsOf, RunsWith, RunOpened
<1>3. IsFiniteSet(RunsOf(d)) /\ Cardinality(RunsOf(d)) \in Nat
  <2>1. DOMAIN agentRuns = 1..Len(agentRuns) /\ Len(agentRuns) \in Nat
    BY LenProperties DEF PipelineInv, Inv, TypeOK, DatabaseTypeOK
  <2>2. IsFiniteSet(DOMAIN agentRuns)
    BY <2>1, FS_Interval
  <2> QED
    BY <2>2, FS_Subset, FS_CardinalityType DEF RunsOf
<1>4. Cardinality(RunsOf(d)') = Cardinality(RunsOf(d)) + 1
  BY <1>2, <1>3, FS_AddElement
<1>5. Cardinality(RunsOf(d)') <= MaxRetries + 1
  BY <1>1, <1>3, <1>4, AgentRunnerAssumption DEF AttemptInv
<1>6. ~GivenUp(d)'
  BY <1>1 DEF GivenUp, OthersStay, RunOpened, GivingUpPc
<1>7. ~Unclaimed(d)' /\ RunsWith(d, "COMPLETED")' = {}
  BY <1>1, <1>2 DEF Unclaimed, AttemptInv
<1> QED
  BY <1>5, <1>6, <1>7 DEF AttemptInv, GivenUp, GivingUpPc

\* A worker that stops before it has put its document back or given it up
\* leaves it claimable after an early failure only.
LEMMA CrashKeepsAttempts ==
    ASSUME PipelineInv, NEW w \in Workers, Crash(w), NEW d \in DOMAIN documents,
           ~EarlyFailure(d), AttemptInv(d)
    PROVE  AttemptInv(d)'
<1>1. OthersStay(w) /\ worker'[w].pc = "poll" /\ UNCHANGED <<documents, agentRuns>>
  BY CrashStops DEF PipelineInv, Polling, tables
<1>2. RunsKept(d)
  BY <1>1, RowsKeepRuns
<1>3. CASE worker[w].document # d \/ worker[w].pc \notin GivingUpPc
  BY <1>1, <1>2, <1>3, AttemptKept DEF OthersStay, GivingUpPc
<1>4. CASE worker[w].document = d /\ worker[w].pc \in GivingUpPc
  <2>1. /\ worker[w].run \in DOMAIN agentRuns
        /\ agentRuns[worker[w].run].document = d
        /\ OwnRun(w) /\ Unclaimed(d) /\ Staged(w) /\ ~Disturbed(d)
        /\ worker[w].iterations \in Nat
    BY <1>4
    DEF PipelineInv, Inv, TypeOK, WorkerTypeOK, WorkerState, WorkerRowsExist, RunInv,
        StageInv, AttemptInv, GivenUp, GivingUpPc, RunPc, ClosePc, Disturbed
  <2>2. /\ agentRuns[worker[w].run].status = "FAILED"
        /\ agentRuns[worker[w].run].iterations = worker[w].iterations
    BY <1>4, <2>1 DEF OwnRun, Unclaimed, RunsWith
  <2>3. worker[w].iterations >= 3
    BY <2>1, <2>2 DEF EarlyFailure, RunsWith
  <2>4. documents[d].status # "UPLOADED"
    BY <1>4, <2>1, <2>3 DEF Staged, OwningPc, GivingUpPc
  <2>5. GivenUp(d)' => GivenUp(d)
    BY <1>1 DEF GivenUp, OthersStay, GivingUpPc
  <2>6. /\ RunsOf(d)' = RunsOf(d) /\ Unclaimed(d)' /\ CountFailed(d)' = CountFailed(d)
        /\ RunsWith(d, "COMPLETED")' = RunsWith(d, "COMPLETED")
    BY <1>1, <2>1 DEF RunsOf, Unclaimed, RunsWith, CountFailed
  <2>7. \A v \in Workers : worker'[v].document = d /\ worker'[v].pc = "fail_requeue" =>
            CountFailed(d)' <= MaxRetries
    BY <1>1, <2>6 DEF AttemptInv, OthersStay
  <2> QED
    BY <1>1, <2>4, <2>6, <2>7 DEF AttemptInv
<1> QED
  BY <1>3, <1>4

LEMMA UploadKeepsAttempts ==
    ASSUME PipelineInv, Upload, UNCHANGED workerVars, NEW d \in DOMAIN documents',
           d \in DOMAIN documents => AttemptInv(d)
    PROVE  AttemptInv(d)'
<1>1. UNCHANGED <<worker, agentRuns>> /\ MaxRetries \in Nat
  BY DocumentCreated, AgentRunnerAssumption DEF PipelineInv, workerVars
<1>2. CASE d \in DOMAIN documents
  <2>1. documents'[d] = documents[d]
    BY <1>2, DocumentCreated DEF PipelineInv
  <2>2. RunsKept(d)
    BY <1>1, <1>2, <2>1 DEF RunsKept, RunsOf, RunsWith
  <2> QED
    BY <1>1, <1>2, <2>2, AttemptKept
<1>3. CASE d \notin DOMAIN documents
  <2>1. RunsOf(d)' = {} /\ \A s : RunsWith(d, s)' = {}
    BY <1>1, <1>3 DEF PipelineInv, Inv, TypeOK, RowsRefer, RunsOf, RunsWith
  <2>2. \A w \in Workers : worker'[w].document = d => worker'[w].pc \notin GivingUpPc
    BY <1>1, <1>3
    DEF PipelineInv, Inv, TypeOK, WorkerRowsExist, RunPc, ClosePc, GivingUpPc
  <2>3. Cardinality(RunsOf(d)') = 0
    BY <2>1, FS_EmptySet
  <2> QED
    BY <1>1, <2>1, <2>2, <2>3 DEF AttemptInv, GivenUp, GivingUpPc, Unclaimed
<1> QED
  BY <1>2, <1>3

LEMMA AttemptsInductive ==
    ASSUME ClaimsApart, PipelineInv, ClosingInv, AttemptsInv, MaxDatabaseErrors = 0,
           [Next]_vars
    PROVE  AttemptsInv'
<1> SUFFICES ASSUME NEW d \in DOMAIN documents', ~Shaken(d)' PROVE AttemptInv(d)'
  BY DEF AttemptsInv
<1>1. /\ ~Shaken(d) /\ ~Disturbed(d) /\ (EarlyFailure(d) => MaxCrashes = 0)
      /\ d \in DOMAIN documents => AttemptInv(d) /\ ClosedOutside(d)
  BY DisturbedForGood DEF Shaken, Disturbed, AttemptsInv, ClosingInv
<1>2. CASE Upload /\ UNCHANGED workerVars
  BY <1>1, <1>2, UploadKeepsAttempts
<1>3. ASSUME d \in DOMAIN documents, UNCHANGED <<worker, agentRuns>>,
             \/ documents'[d] = documents[d]
             \/ documents'[d].status = "REVIEWED"
      PROVE  AttemptInv(d)'
  <2>1. RunsKept(d)
    BY <1>3 DEF RunsKept, RunsOf, RunsWith, Active
  <2> QED
    BY <1>1, <1>3, <2>1, AttemptKept
<1>4. ASSUME NEW w \in Workers, WorkerStep(w) \/ Crash(w)
      PROVE  AttemptInv(d)'
  <2>1. CASE Claim(w)
    <3>1. /\ OthersStay(w) /\ UNCHANGED documents /\ d \in DOMAIN documents
          /\ worker[w].pc \in {"poll", "lock", "open_run"}
          /\ \/ worker'[w] = Polling /\ UNCHANGED agentRuns
             \/ worker'[w].pc \in {"lock", "open_run"} /\ UNCHANGED agentRuns
             \/ worker[w].pc = "open_run" /\ RunOpened(w)
      BY <2>1, ClaimMoves DEF PipelineInv
    <3>2. CASE UNCHANGED agentRuns
      <4>1. RunsKept(d)
        BY <3>1, <3>2, RowsKeepRuns
      <4>2. worker'[w].pc \notin GivingUpPc /\ worker[w].pc \notin GivingUpPc
        BY <3>1 DEF GivingUpPc, Polling, RunOpened
      <4> QED
        BY <1>1, <3>1, <4>1, <4>2, AttemptKept DEF OthersStay
    <3>3. CASE worker[w].pc = "open_run" /\ RunOpened(w) /\ worker[w].document = d
      BY <1>1, <3>1, <3>3, OpenKeepsAttempts
    <3>4. CASE worker[w].pc = "open_run" /\ RunOpened(w) /\ worker[w].document # d
      <4>1. RunsKept(d)
        BY <3>1, <3>4 DEF RunsKept, RunsOf, RunsWith, RunOpened
      <4>2. worker'[w].pc \notin GivingUpPc /\ worker[w].pc \notin GivingUpPc
        BY <3>1, <3>4 DEF GivingUpPc, RunOpened
      <4> QED
        BY <1>1, <3>1, <4>1, <4>2, AttemptKept DEF OthersStay
    <3> QED
      BY <3>1, <3>2, <3>3, <3>4
  <2>2. CASE Process(w) \/ Route(w) \/ Failure(w)
    <3>1. /\ RunEffect(w) /\ OthersStay(w) /\ worker[w].pc \in RunPc
          /\ d \in DOMAIN documents
          /\ worker'[w] = Polling \/ worker'[w].document = worker[w].document
      BY <2>2, RunEffects, RunPcs, EffectMoves, EffectDocuments DEF PipelineInv
    <3>2. CASE d = worker[w].document
      BY <1>1, <2>2, <3>1, <3>2, EffectKeepsAttempts
    <3>3. CASE d # worker[w].document
      <4>1. RunsKept(d)
        BY <3>1, <3>3, EffectKeepsOtherRuns DEF PipelineInv
      <4>2. \/ worker'[w].document # d
            \/ worker'[w].pc \notin GivingUpPc
        BY <3>1, <3>3 DEF Polling, GivingUpPc
      <4> QED
        BY <1>1, <3>1, <3>3, <4>1, <4>2, AttemptKept DEF OthersStay
    <3> QED
      BY <3>2, <3>3
  <2>3. CASE Crash(w)
    <3>1. MaxCrashes # 0 /\ UNCHANGED documents
      BY <2>3, CrashStops DEF PipelineInv, tables
    <3> QED
      BY <1>1, <2>3, <3>1, CrashKeepsAttempts
  <2> QED
    BY <1>4, <2>1, <2>2, <2>3 DEF WorkerStep
<1>5. ASSUME NEW u \in Reviewers, SubmitStep(u), UNCHANGED workerVars
      PROVE  AttemptInv(d)'
  <2>1. \/ UNCHANGED documents
        \/ /\ review[u].document \in DOMAIN documents
           /\ StatusWritten(review[u].document, "REVIEWED")
    BY <1>5, ReviewEffects
    DEF ReviewEffect, SameRows, BatchInserted, TaskResolved, Inv, TypeOK, ReviewRowsExist,
        Reviewing, PipelineInv
  <2>2. \A e \in DOMAIN documents : documents[e] \in Document
    BY ElementOfSeq DEF Inv, TypeOK, DatabaseTypeOK, PipelineInv
  <2>3. /\ d \in DOMAIN documents
        /\ documents'[d] = documents[d] \/ documents'[d].status = "REVIEWED"
    BY <2>1, <2>2 DEF StatusWritten, DocumentSet, Document
  <2> QED
    BY <1>3, <1>5, <2>3, SubmitKeepsRuns DEF workerVars
<1>6. CASE UNCHANGED vars
  BY <1>3, <1>6 DEF vars, tables, workerVars
<1> QED
  BY <1>2, <1>4, <1>5, <1>6 DEF Next, WorkerNext, ReviewNext

LEMMA OutcomeInitially == Init => ClosingInv /\ AttemptsInv
BY DEF Init, DatabaseInit, ClosingInv, AttemptsInv

\* Where no statement fails, for any number of workers whose claims do not
\* overlap: the retry budget of a document holds, across crashes, unless one
\* of its runs failed before its classification was stored.
THEOREM AttemptsBoundedHolds ==
    ASSUME ClaimsApart, MaxDatabaseErrors = 0
    PROVE  Spec => []AttemptsBoundedUnlessEarlyFailure
<1>1. PipelineInv /\ ClosingInv /\ AttemptsInv /\ [Next]_vars => ClosingInv' /\ AttemptsInv'
  BY ClosingInductive, AttemptsInductive
<1>2. AttemptsInv => AttemptsBoundedUnlessEarlyFailure
  BY DEF AttemptsInv, AttemptInv, Shaken, AttemptsBoundedUnlessEarlyFailure
<1> QED
  BY <1>1, <1>2, OutcomeInitially, PipelineInvHolds, PTL DEF Spec

\* One worker that does not stop and whose statements do not fail attempts a
\* document MAX_RETRIES + 1 times at most, early failures included.
THEOREM AtMostRetriesPlusOneHolds ==
    ASSUME Solo, MaxCrashes = 0, MaxDatabaseErrors = 0
    PROVE  Spec => []AtMostRetriesPlusOne
<1>1. PipelineInv /\ ClosingInv /\ AttemptsInv /\ [Next]_vars => ClosingInv' /\ AttemptsInv'
  BY ClosingInductive, AttemptsInductive DEF ClaimsApart
<1>2. AttemptsInv => AtMostRetriesPlusOne
  BY DEF AttemptsInv, AttemptInv, Shaken, AtMostRetriesPlusOne
<1>3. ClaimsApart
  BY DEF ClaimsApart
<1> QED
  BY <1>1, <1>2, <1>3, OutcomeInitially, PipelineInvHolds, PTL DEF Spec

---------------------------------------------------------------------------
(* Review tasks *)

\* The tasks and fields of d stay as they are.
TasksKept(d) ==
    /\ TasksOf(d)' = TasksOf(d)
    /\ \A t \in TasksOf(d) : reviewTasks'[t] = reviewTasks[t]
    /\ BatchesOf(d)' = BatchesOf(d)
    /\ \A b \in BatchesOf(d) : extractedFields'[b] = extractedFields[b]

LEMMA KeptReads ==
    ASSUME NEW d, TasksKept(d)
    PROVE  /\ PendingTasks(d)' = PendingTasks(d)
           /\ \A u : StoredBy(u, d)' <=> StoredBy(u, d)
<1>1. PendingTasks(d)' = PendingTasks(d)
  <2>1. /\ PendingTasks(d) = {t \in TasksOf(d) : reviewTasks[t].status = "PENDING"}
        /\ PendingTasks(d)' = {t \in TasksOf(d)' : reviewTasks'[t].status = "PENDING"}
    BY DEF PendingTasks, TasksOf
  <2> QED
    BY <2>1 DEF TasksKept
<1>2. \A u : StoredBy(u, d)' <=> StoredBy(u, d)
  BY DEF StoredBy, TasksKept
<1> QED
  BY <1>1, <1>2

LEMMA TablesKeepTasks ==
    ASSUME UNCHANGED <<reviewTasks, extractedFields>>, NEW d
    PROVE  TasksKept(d)
BY DEF TasksKept, TasksOf, BatchesOf

LEMMA BatchKeepsTasks ==
    ASSUME NEW e, NEW a, BatchInserted(e, a), NEW d, d # e
    PROVE  TasksKept(d)
BY DEF TasksKept, TasksOf, BatchesOf, BatchInserted

LEMMA TaskKeepsTasks ==
    ASSUME NEW e, TaskOpened(e), NEW d, d # e
    PROVE  TasksKept(d)
BY DEF TasksKept, TasksOf, BatchesOf, TaskOpened

\* A step that touches neither the tasks nor the fields of d, and moves its
\* status only where it has no task
LEMMA TaskInvKept ==
    ASSUME ReviewRowsExist, NEW d, TaskInv(d), TasksKept(d), UNCHANGED review,
           \/ documents'[d].status = documents[d].status
           \/ documents'[d].status # "PENDING_REVIEW" /\ TasksOf(d) = {},
           documents'[d].status = "UPLOADED" /\ Unclaimed(d)' =>
               Unclaimed(d) \/ TasksOf(d) = {},
           \A w \in Workers :
               \/ worker'[w] = worker[w]
               \/ /\ worker'[w].document = d /\ worker'[w].pc \in OwningPc =>
                        worker'[w].pc # "mark_pending" /\ TasksOf(d) = {}
                  /\ MaxCrashes = 0 /\ worker[w].document = d => worker[w].pc # "mark_pending"
    PROVE  TaskInv(d)'
<1>1. /\ PendingTasks(d)' = PendingTasks(d) /\ TasksOf(d)' = TasksOf(d)
      /\ \A t \in TasksOf(d) : reviewTasks'[t] = reviewTasks[t]
      /\ PendingTasks(d) \subseteq TasksOf(d)
  BY KeptReads DEF TasksKept, PendingTasks, TasksOf
<1>2. MidSubmit(d)' <=> MidSubmit(d)
  BY DEF MidSubmit, Reviewing
<1>3. ASSUME NEW w \in Workers PROVE OwnerTasks(w, d)'
  <2>1. CASE worker'[w] = worker[w]
    BY <1>1, <2>1 DEF TaskInv, OwnerTasks
  <2>2. CASE worker'[w].document = d /\ worker'[w].pc \in OwningPc =>
                 worker'[w].pc # "mark_pending" /\ TasksOf(d) = {}
    <3>1. "mark_pending" \in OwningPc
      BY DEF OwningPc, OpenPc
    <3> QED
      BY <1>1, <2>2, <3>1 DEF OwnerTasks
  <2> QED
    BY <2>1, <2>2
<1>4. ASSUME NEW u \in Reviewers PROVE DecisionTaken(u, d)'
  <2>1. review[u].document = d /\ review[u].pc \in {"mark_reviewed", "audit"} =>
            review[u].task \in TasksOf(d)
    BY DEF ReviewRowsExist, TasksOf
  <2> QED
    BY <1>1, <2>1 DEF TaskInv, DecisionTaken
<1>5. /\ documents'[d].status \in {"AUTO_PROCESSED", "FAILED"} => TasksOf(d) = {}
      /\ documents'[d].status = "UPLOADED" /\ Unclaimed(d)' => TasksOf(d) = {}
      /\ documents'[d].status = "PENDING_REVIEW" => PendingTasks(d) # {} \/ MidSubmit(d)
      /\ documents'[d].status = "REVIEWED" => PendingTasks(d) = {}
  BY <1>1 DEF TaskInv
<1>6. ASSUME MaxCrashes = 0, documents'[d].status \in Active, TasksOf(d) # {}
      PROVE  \E w \in Workers : worker'[w].document = d /\ worker'[w].pc = "mark_pending"
  <2>1. PICK w \in Workers : worker[w].document = d /\ At(w, "mark_pending")
    BY <1>6 DEF TaskInv
  <2> QED
    BY <1>6, <2>1 DEF At
<1> QED
  BY <1>1, <1>2, <1>3, <1>4, <1>5, <1>6 DEF TaskInv, At

\* Where a run is, and what of it is the same, once it has moved
LEMMA GoesWhere ==
    ASSUME NEW w \in Workers
    PROVE  /\ \A pc : Goes(w, pc) =>
                 /\ worker'[w].pc = pc /\ worker'[w].document = worker[w].document
                 /\ worker'[w].iterations
                       = worker[w].iterations + (IF pc \in StepPc THEN 1 ELSE 0)
           /\ Over(w) => worker'[w].pc = "poll"
  BY DEF Goes, Over, Polling

\* What a step of a run leaves alone, and where it can go
LEMMA EffectRows ==
    ASSUME Inv, MaxDatabaseErrors = 0, NEW w \in Workers, RunEffect(w)
    PROVE  /\ worker[w].pc \notin {"create_task", "insert_fields"} =>
                  UNCHANGED <<reviewTasks, extractedFields>>
           /\ worker[w].pc \notin {"finish_auto", "finish_review", "fail_finish"} =>
                  UNCHANGED agentRuns
           /\ worker'[w].pc = "mark_pending" => worker[w].pc = "create_task"
           /\ worker[w].pc = "insert_fields" =>
                  BatchInserted(worker[w].document, Agent) \/ SameRows
           /\ worker[w].pc = "create_task" =>
                  /\ TaskOpened(worker[w].document)
                  /\ worker'[w].pc = "mark_pending"
                  /\ worker'[w].document = worker[w].document
           /\ worker[w].pc = "mark_pending" =>
                  /\ StatusWritten(worker[w].document, "PENDING_REVIEW")
                  /\ worker'[w].pc = "finish_review"
<1> USE DEF At, GoesToOne, Goes, Over, Polling, StepPc
<1>1. CASE SameRows /\ ReadMove(w)
  BY <1>1 DEF ReadMove, SameRows
<1>2. CASE SameRows /\ FailMove(w)
  BY <1>2 DEF FailMove, SameRows, CanFail
<1>3. CASE WriteMove(w)
  <2> HIDE DEF Goes, Over, Polling, StepPc
  <2>1. ASSUME NEW d, NEW row, DocumentSet(d, row)
        PROVE  UNCHANGED <<agentRuns, reviewTasks, extractedFields>>
    BY <2>1 DEF DocumentSet
  <2>2. ASSUME NEW s, RunFinished(w, s)
        PROVE  UNCHANGED <<reviewTasks, extractedFields>>
    BY <2>2 DEF RunFinished
  <2>3. CASE worker[w].pc \in {"insert_fields", "create_task"}
    BY <1>3, <2>3, GoesWhere DEF WriteMove, TaskOpened, BatchInserted
  <2>4. CASE worker[w].pc \in {"finish_auto", "finish_review", "fail_finish"}
    BY <1>3, <2>2, <2>4, GoesWhere DEF WriteMove
  <2>5. CASE worker[w].pc \notin {"insert_fields", "create_task", "finish_auto",
                                 "finish_review", "fail_finish"}
    <3>1. /\ \E d, row : DocumentSet(d, row)
          /\ worker[w].pc = "mark_pending" =>
                /\ StatusWritten(worker[w].document, "PENDING_REVIEW")
                /\ worker'[w].pc = "finish_review"
          /\ worker'[w].pc # "mark_pending"
      <4>1. CASE worker[w].pc \in {"fail_requeue", "fail_mark"}
        BY <1>3, <4>1, GoesWhere DEF WriteMove, StatusWritten
      <4>2. CASE worker[w].pc \in {"set_key", "mark_duplicate"}
        BY <1>3, <4>2, GoesWhere DEF WriteMove
      <4>3. CASE worker[w].pc \in {"mark_classified", "mark_extracted", "mark_validated",
                                   "finalize", "mark_pending"}
        BY <1>3, <4>3, GoesWhere DEF WriteMove, StatusWritten
      <4> QED
        BY <1>3, <2>5, <4>1, <4>2, <4>3 DEF WriteMove
    <3>2. UNCHANGED <<agentRuns, reviewTasks, extractedFields>>
      BY <2>1, <3>1
    <3> QED
      BY <2>5, <3>1, <3>2
  <2> QED
    BY <2>3, <2>4, <2>5
<1> QED
  BY <1>1, <1>2, <1>3, ErrorsNever

\* The status of its document is written by an owner only, and never as
\* PENDING_REVIEW but at mark_pending.
LEMMA EffectWritesStatus ==
    ASSUME Inv, NEW w \in Workers, RunEffect(w), worker[w].pc \in RunPc,
           NEW d, d = worker[w].document
    PROVE  \/ documents'[d].status = documents[d].status
           \/ /\ worker[w].pc \in OwningPc
              /\ worker[w].pc # "mark_pending" => documents'[d].status # "PENDING_REVIEW"
<1>1. d \in DOMAIN documents /\ documents[d] \in Document
  BY RunFacts, ElementOfSeq DEF TablesOK
<1>2. CASE SameRows
  BY <1>2 DEF SameRows
<1>3. CASE WriteMove(w)
  <2>1. ASSUME NEW s, StatusWritten(d, s) PROVE documents'[d].status = s
    BY <1>1, <2>1 DEF StatusWritten, DocumentSet, Document
  <2>2. ASSUME \/ TaskOpened(d) \/ BatchInserted(d, Agent)
               \/ RunFinished(w, "COMPLETED") \/ RunFinished(w, "FAILED")
               \/ DocumentSet(d, [documents[d] EXCEPT !.key = worker[w].key])
               \/ DocumentSet(d, [documents[d] EXCEPT !.duplicateOf = worker[w].duplicateOf])
        PROVE  documents'[d].status = documents[d].status
    BY <1>1, <2>2 DEF TaskOpened, BatchInserted, RunFinished, DocumentSet, Document
  <2>3. CASE worker[w].pc \in {"mark_classified", "mark_extracted", "mark_validated",
                               "finalize", "mark_pending", "fail_requeue", "fail_mark"}
    BY <1>3, <2>1, <2>3
    DEF WriteMove, At, OwningPc, OpenPc, PersistPc, StepPc, GivingUpPc
  <2> QED
    BY <1>3, <2>2, <2>3 DEF WriteMove, At
<1> QED
  BY <1>2, <1>3 DEF RunEffect

LEMMA OwnEffectKeepsTasks ==
    ASSUME PipelineInv, MaxDatabaseErrors = 0, NEW w \in Workers,
           Process(w) \/ Route(w) \/ Failure(w), NEW d, d = worker[w].document,
           ~Disturbed(d), ClosedOutside(d), TaskInv(d), UNCHANGED review
    PROVE  TaskInv(d)'
<1> USE DEF PipelineInv
<1>1. /\ RunEffect(w) /\ OthersStay(w) /\ worker[w].pc \in RunPc
      /\ d \in DOMAIN documents /\ documents[d] \in Document /\ ReviewRowsExist
  BY RunEffects, RunPcs, EffectMoves, RunFacts, ElementOfSeq DEF TablesOK, Inv, TypeOK
<1>2. worker[w].pc \in OwningPc =>
        /\ documents[d].status \in Active
        /\ \A v \in Workers : worker[v].pc \in OwningPc /\ worker[v].document = d => v = w
        /\ \A u \in Reviewers : review[u].pc # "idle" => review[u].document # d
  BY OwnersApart DEF Reviewing
<1>3. /\ worker[w].pc \in OwningPc \ {"mark_pending"} => TasksOf(d) = {}
      /\ worker[w].pc = "mark_pending" => PendingTasks(d) # {}
  BY DEF TaskInv, OwnerTasks
<1>4. UNCHANGED agentRuns => (Unclaimed(d)' <=> Unclaimed(d))
  BY DEF Unclaimed, RunsWith
<1>5. worker'[w].pc \in OwningPc => worker[w].pc \in OwningPc
  BY <1>1, EffectOwns
<1>6. \A u \in Reviewers : worker[w].pc \in OwningPc => DecisionTaken(u, d)'
  BY <1>2 DEF DecisionTaken
<1>7. CASE worker[w].pc \notin {"create_task", "mark_pending"} /\ TasksKept(d)
  <2>1. \/ documents'[d].status = documents[d].status
        \/ documents'[d].status # "PENDING_REVIEW" /\ TasksOf(d) = {}
    BY <1>1, <1>3, <1>7, EffectWritesStatus
  <2>2. ASSUME documents'[d].status = "UPLOADED", Unclaimed(d)'
        PROVE  Unclaimed(d) \/ TasksOf(d) = {}
    <3>1. CASE worker[w].pc \in {"finish_auto", "finish_review"}
      <4>1. documents[d].status \notin Active
        BY <3>1 DEF ClosedOutside
      <4>2. documents'[d].status = documents[d].status
        BY <1>1, <3>1, EffectDocuments DEF OwningPc
      <4> QED
        BY <2>2, <4>1, <4>2 DEF Active
    <3>2. CASE worker[w].pc = "fail_finish"
      BY <1>3, <3>2 DEF OwningPc, OpenPc
    <3> QED
      BY <1>1, <1>4, <2>2, <3>1, <3>2, EffectRows
  <2>3. /\ worker'[w].pc \in OwningPc => worker'[w].pc # "mark_pending" /\ TasksOf(d) = {}
        /\ worker[w].pc # "mark_pending"
    BY <1>1, <1>3, <1>5, <1>7, EffectRows
  <2> QED
    BY <1>1, <1>7, <2>1, <2>2, <2>3, TaskInvKept DEF OthersStay
<1>8. CASE worker[w].pc \notin {"create_task", "mark_pending", "insert_fields"}
  BY <1>1, <1>7, <1>8, EffectRows, TablesKeepTasks
<1>9. CASE worker[w].pc = "insert_fields"
  <2>1. CASE SameRows
    BY <1>7, <1>9, <2>1, TablesKeepTasks DEF SameRows
  <2>2. CASE BatchInserted(d, Agent)
    <3>1. worker[w].pc \in OwningPc /\ TasksOf(d) = {} /\ PendingTasks(d) = {}
      BY <1>3, <1>9 DEF OwningPc, OpenPc, PersistPc, PendingTasks, TasksOf
    <3>2. TasksOf(d)' = {} /\ PendingTasks(d)' = {} /\ UNCHANGED documents
      BY <2>2, <3>1 DEF BatchInserted, PendingTasks, TasksOf
    <3>3. documents[d].status \in Active
      BY <1>2, <3>1
    <3>4. ASSUME NEW v \in Workers PROVE OwnerTasks(v, d)'
      <4>1. CASE v = w
        BY <1>1, <1>9, <3>2, <4>1, EffectRows DEF OwnerTasks
      <4>2. CASE v # w
        <5>1. worker'[v] = worker[v]
          BY <1>1, <4>2 DEF OthersStay
        <5>2. worker[v].document = d => worker[v].pc \notin OwningPc
          BY <1>2, <3>1, <4>2
        <5> QED
          BY <5>1, <5>2 DEF OwnerTasks, OwningPc, OpenPc
      <4> QED
        BY <4>1, <4>2
    <3> QED
      BY <1>6, <3>1, <3>2, <3>3, <3>4 DEF TaskInv, Active
  <2> QED
    BY <1>1, <1>9, <2>1, <2>2, EffectRows
<1>10. CASE worker[w].pc = "create_task"
  <2>1. /\ worker[w].pc \in OwningPc /\ worker[w].pc \in OpenPc
        /\ TasksOf(d) = {} /\ TaskOpened(d)
        /\ worker'[w].pc = "mark_pending" /\ worker'[w].document = d
    BY <1>1, <1>3, <1>10, EffectRows DEF OwningPc, OpenPc
  <2> PICK n : n = Len(reviewTasks) + 1
    OBVIOUS
  <2>2. /\ TasksOf(d)' = {n} /\ PendingTasks(d)' = {n}
        /\ reviewTasks'[n].status = "PENDING"
        /\ UNCHANGED <<documents, agentRuns>>
    BY <2>1 DEF TaskOpened, TasksOf, PendingTasks
  <2>3. documents[d].status \in Active
    BY <1>2, <2>1
  <2>4. ~Unclaimed(d)'
    BY <1>4, <2>1, <2>2, OwnersRun DEF Unclaimed
  <2>5. ASSUME NEW v \in Workers PROVE OwnerTasks(v, d)'
    <3>1. CASE v = w
      BY <2>1, <2>2, <3>1 DEF OwnerTasks
    <3>2. CASE v # w
      <4>1. worker'[v] = worker[v]
        BY <1>1, <3>2 DEF OthersStay
      <4>2. worker[v].document = d => worker[v].pc \notin OwningPc
        BY <1>2, <2>1, <3>2
      <4> QED
        BY <4>1, <4>2 DEF OwnerTasks, OwningPc, OpenPc
    <3> QED
      BY <3>1, <3>2
  <2> QED
    BY <1>6, <2>1, <2>2, <2>3, <2>4, <2>5 DEF TaskInv, Active, At
<1>11. CASE worker[w].pc = "mark_pending"
  <2>1. /\ worker[w].pc \in OwningPc /\ PendingTasks(d) # {}
        /\ StatusWritten(d, "PENDING_REVIEW") /\ worker'[w].pc = "finish_review"
    BY <1>1, <1>3, <1>11, EffectRows DEF OwningPc, OpenPc
  <2>2. /\ documents'[d].status = "PENDING_REVIEW"
        /\ UNCHANGED <<agentRuns, reviewTasks, extractedFields>>
    BY <1>1, <2>1 DEF StatusWritten, DocumentSet, Document
  <2>3. /\ PendingTasks(d)' = PendingTasks(d) /\ TasksOf(d)' = TasksOf(d)
    BY <2>2 DEF PendingTasks, TasksOf
  <2>4. \A v \in Workers : OwnerTasks(v, d)'
    BY <1>1, <2>1, <2>3 DEF TaskInv, OwnerTasks, OthersStay, OwningPc
  <2> QED
    BY <1>6, <2>1, <2>2, <2>3, <2>4 DEF TaskInv, Active
<1> QED
  BY <1>8, <1>9, <1>10, <1>11

LEMMA OtherEffectKeepsTasks ==
    ASSUME PipelineInv, MaxDatabaseErrors = 0, NEW w \in Workers,
           Process(w) \/ Route(w) \/ Failure(w), NEW d \in DOMAIN documents,
           d # worker[w].document, TaskInv(d), UNCHANGED review
    PROVE  TaskInv(d)'
<1>1. /\ RunEffect(w) /\ OthersStay(w) /\ worker[w].pc \in RunPc
      /\ worker'[w] = Polling \/ worker'[w].document = worker[w].document
      /\ Inv /\ ReviewRowsExist
  BY RunEffects, RunPcs, EffectMoves DEF PipelineInv, Inv, TypeOK
<1>2. RunsKept(d) /\ documents'[d] = documents[d]
  BY <1>1, EffectKeepsOtherRuns
<1>3. Unclaimed(d)' => Unclaimed(d)
  BY <1>2 DEF RunsKept, Unclaimed, AgentRunStatus
<1>4. TasksKept(d)
  BY <1>1, EffectRows, TablesKeepTasks, BatchKeepsTasks, TaskKeepsTasks DEF SameRows
<1>5. worker'[w].document = d => worker'[w].pc \notin OwningPc
  BY <1>1, PollingCounts
<1> QED
  BY <1>1, <1>2, <1>3, <1>4, <1>5, TaskInvKept DEF OthersStay

LEMMA ClaimKeepsTasks ==
    ASSUME PipelineInv, NEW w \in Workers, Claim(w), NEW d \in DOMAIN documents,
           TaskInv(d), UNCHANGED review
    PROVE  TaskInv(d)'
<1>1. /\ OthersStay(w) /\ worker[w].pc \in {"poll", "lock", "open_run"}
      /\ UNCHANGED <<documents, reviewTasks, extractedFields>>
      /\ \/ worker'[w] = Polling /\ UNCHANGED agentRuns
         \/ worker'[w].pc = "lock" /\ UNCHANGED agentRuns
         \/ /\ worker[w].pc = "lock" /\ worker'[w].pc = "open_run"
            /\ worker'[w].document \in Earliest(Lockable(w)) /\ UNCHANGED agentRuns
         \/ worker[w].pc = "open_run" /\ RunOpened(w)
  BY ClaimMoves DEF PipelineInv
<1>2. TasksKept(d) /\ ReviewRowsExist
  BY <1>1, TablesKeepTasks DEF PipelineInv, Inv, TypeOK
<1>3. Unclaimed(d)' => Unclaimed(d)
  <2>1. UNCHANGED agentRuns \/ RunOpened(w)
    BY <1>1
  <2> QED
    BY <2>1 DEF Unclaimed, RunsWith, RunOpened
<1>4. worker'[w].document = d /\ worker'[w].pc \in OwningPc =>
          worker'[w].pc # "mark_pending" /\ TasksOf(d) = {}
  <2>1. CASE worker'[w] = Polling \/ worker'[w].pc = "lock"
    BY <2>1, PollingCounts DEF OwningPc, OpenPc, StepPc, PersistPc, GivingUpPc
  <2>2. CASE /\ worker[w].pc = "lock" /\ worker'[w].pc = "open_run"
             /\ worker'[w].document \in Earliest(Lockable(w))
    <3>1. worker'[w].document = d => documents[d].status = "UPLOADED" /\ Unclaimed(d)
      BY <2>2 DEF Earliest, Lockable, PipelineInv, ClaimInv
    <3> QED
      BY <2>2, <3>1 DEF TaskInv
  <2>3. CASE worker[w].pc = "open_run" /\ RunOpened(w)
    <3>1. worker[w].document = d => TasksOf(d) = {}
      BY <2>3 DEF TaskInv, OwnerTasks, OwningPc
    <3> QED
      BY <2>3, <3>1 DEF RunOpened
  <2> QED
    BY <1>1, <2>1, <2>2, <2>3
<1> QED
  BY <1>1, <1>2, <1>3, <1>4, TaskInvKept DEF OthersStay

LEMMA CrashKeepsTasks ==
    ASSUME PipelineInv, NEW w \in Workers, Crash(w), NEW d, TaskInv(d), UNCHANGED review
    PROVE  TaskInv(d)'
<1>1. /\ OthersStay(w) /\ worker'[w] = Polling /\ MaxCrashes # 0 /\ UNCHANGED tables
      /\ ReviewRowsExist
  BY CrashStops DEF PipelineInv, Inv, TypeOK
<1>2. TasksKept(d) /\ UNCHANGED documents /\ (Unclaimed(d)' => Unclaimed(d))
  BY <1>1, TablesKeepTasks DEF tables, Unclaimed, RunsWith
<1>3. worker'[w].pc \notin OwningPc
  BY <1>1, PollingCounts
<1> QED
  BY <1>1, <1>2, <1>3, TaskInvKept DEF OthersStay

LEMMA UploadKeepsTasks ==
    ASSUME PipelineInv, Upload, UNCHANGED <<workerVars, review>>,
           NEW d \in DOMAIN documents', d \in DOMAIN documents => TaskInv(d)
    PROVE  TaskInv(d)'
<1>1. /\ UNCHANGED <<worker, agentRuns, reviewTasks, extractedFields>>
      /\ Inv /\ ReviewRowsExist
  BY DocumentCreated DEF PipelineInv, workerVars, Inv, TypeOK
<1>2. CASE d \in DOMAIN documents
  <2>1. documents'[d] = documents[d]
    BY <1>1, <1>2, DocumentCreated
  <2>2. TasksKept(d) /\ (Unclaimed(d)' => Unclaimed(d))
    BY <1>1, TablesKeepTasks DEF Unclaimed, RunsWith
  <2> QED
    BY <1>1, <1>2, <2>1, <2>2, TaskInvKept
<1>3. CASE d \notin DOMAIN documents
  <2>1. TasksOf(d)' = {} /\ PendingTasks(d)' = {} /\ documents'[d].status = "UPLOADED"
    BY <1>1, <1>3, DocumentCreated DEF Inv, TypeOK, RowsRefer, TasksOf, PendingTasks
  <2>2. \A w \in Workers : worker[w].document = d => worker[w].pc \notin OwningPc
    BY <1>3
    DEF PipelineInv, Inv, TypeOK, WorkerRowsExist, RunPc, ClosePc, OwningPc, OpenPc, GivingUpPc
  <2>3. \A u \in Reviewers : review[u].document = d => review[u].pc = "idle"
    BY <1>1, <1>3 DEF ReviewRowsExist
  <2>4. \A w \in Workers : OwnerTasks(w, d)'
    BY <1>1, <2>2 DEF OwnerTasks, OwningPc, OpenPc
  <2>5. \A u \in Reviewers : DecisionTaken(u, d)'
    BY <2>3 DEF DecisionTaken
  <2> QED
    BY <2>1, <2>4, <2>5 DEF TaskInv
<1> QED
  BY <1>2, <1>3

\* What a request does keeps the invariant of every document, its own too:
\* the task it resolves is the only one.
LEMMA ReviewKeepsTasks ==
    ASSUME PipelineInv, MaxDatabaseErrors = 0, NEW u \in Reviewers, SubmitStep(u),
           UNCHANGED workerVars, NEW d \in DOMAIN documents, ~Disturbed(d), TaskInv(d)
    PROVE  TaskInv(d)'
<1>1. /\ ReviewEffect(u) /\ UNCHANGED <<worker, agentRuns>>
      /\ \A v \in Reviewers \ {u} : review'[v] = review[v]
  BY ReviewEffects, SubmitKeepsRuns DEF workerVars, PipelineInv, ReviewEffect
<1>2. /\ review[u] \in ReviewState /\ ReviewRowsExist
      /\ ~(databaseErrors < MaxDatabaseErrors) /\ TablesOK
  BY NoErrorMove DEF PipelineInv, Inv, TypeOK, ReviewTypeOK, DatabaseTypeOK, TablesOK
<1>3. Unclaimed(d)' = Unclaimed(d)
  BY <1>1 DEF Unclaimed, RunsWith
<1>4. \A v \in Reviewers :
        review[v].document = d /\ review[v].pc \in {"mark_reviewed", "audit"} =>
            review[v].task \in TasksOf(d)
  BY <1>2 DEF ReviewRowsExist, TasksOf
<1> PICK e : e = review[u].document
  OBVIOUS
<1>5. ASSUME TasksOf(d)' = TasksOf(d), documents'[d] = documents[d],
             \A t \in TasksOf(d) : reviewTasks'[t] = reviewTasks[t],
             \/ review'[u].pc \in {"idle", "load_task", "save_fields", "resolve"}
             \/ review'[u].document # d,
             review[u].pc # "mark_reviewed" \/ e # d
      PROVE  TaskInv(d)'
  <2>1. PendingTasks(d)' = PendingTasks(d)
    <3>1. /\ PendingTasks(d) = {t \in TasksOf(d) : reviewTasks[t].status = "PENDING"}
          /\ PendingTasks(d)' = {t \in TasksOf(d)' : reviewTasks'[t].status = "PENDING"}
      BY DEF PendingTasks, TasksOf
    <3> QED
      BY <1>5, <3>1
  <2>2. MidSubmit(d) => MidSubmit(d)'
    BY <1>1, <1>5 DEF MidSubmit, Reviewing
  <2>3. ASSUME NEW v \in Reviewers PROVE DecisionTaken(v, d)'
    <3>1. CASE v = u
      BY <1>5, <3>1 DEF DecisionTaken
    <3>2. CASE v # u
      BY <1>1, <1>4, <1>5, <3>2 DEF TaskInv, DecisionTaken
    <3> QED
      BY <3>1, <3>2
  <2>4. \A w \in Workers : OwnerTasks(w, d)'
    BY <1>1, <1>5, <2>1 DEF TaskInv, OwnerTasks
  <2> QED
    BY <1>1, <1>3, <1>5, <2>1, <2>2, <2>3, <2>4 DEF TaskInv, At
<1>6. CASE /\ UNCHANGED <<documents, reviewTasks>>
           /\ review[u].pc # "mark_reviewed"
           /\ review'[u].pc \in {"idle", "load_task", "save_fields", "resolve"}
  <2>1. TasksOf(d)' = TasksOf(d)
    BY <1>6 DEF TasksOf
  <2> QED
    BY <1>5, <1>6, <2>1
<1>7. CASE /\ Reviewing(u, "resolve") /\ Continues(u, "mark_reviewed")
           /\ TaskResolved(review[u].task, ReviewStatusOf[review[u].decision])
  <2> PICK t : t = review[u].task
    OBVIOUS
  <2>1. /\ t \in DOMAIN reviewTasks /\ reviewTasks[t].document = e
        /\ UNCHANGED documents
        /\ DOMAIN reviewTasks' = DOMAIN reviewTasks
        /\ \A q \in DOMAIN reviewTasks : q # t => reviewTasks'[q] = reviewTasks[q]
        /\ reviewTasks'[t].document = e
        /\ review'[u].pc = "mark_reviewed" /\ review'[u].document = e /\ review'[u].task = t
    BY <1>2, <1>7 DEF ReviewRowsExist, Reviewing, TaskResolved, Continues
  <2>2. reviewTasks'[t].status # "PENDING"
    BY <1>2, <1>7 DEF TaskResolved, ReviewStatusOf, ReviewState, Decisions
  <2>3. TasksOf(d)' = TasksOf(d)
    BY <2>1 DEF TasksOf
  <2>4. CASE e # d
    <3>1. \A q \in TasksOf(d) : reviewTasks'[q] = reviewTasks[q]
      BY <2>1, <2>4 DEF TasksOf
    <3> QED
      BY <1>5, <2>1, <2>3, <2>4, <3>1
  <2>5. CASE e = d
    <3>1. PendingTasks(d)' \subseteq PendingTasks(d)
      BY <2>1, <2>2 DEF PendingTasks
    <3>2. MidSubmit(d)'
      BY <2>1, <2>5 DEF MidSubmit, Reviewing
    <3>3. \A q \in TasksOf(d) :
             reviewTasks[q].status # "PENDING" => reviewTasks'[q].status # "PENDING"
      BY <2>1, <2>2 DEF TasksOf
    <3>4. ASSUME NEW v \in Reviewers PROVE DecisionTaken(v, d)'
      <4>1. CASE v = u
        BY <2>1, <2>2, <4>1 DEF DecisionTaken
      <4>2. CASE v # u
        BY <1>1, <1>4, <3>3, <4>2 DEF TaskInv, DecisionTaken
      <4> QED
        BY <4>1, <4>2
    <3>5. ASSUME NEW w \in Workers PROVE OwnerTasks(w, d)'
      <4>1. worker[w].document = d => worker[w].pc \notin OwningPc
        BY <1>7, <2>5, OwnersApart DEF PipelineInv, Reviewing
      <4> QED
        BY <1>1, <4>1 DEF OwnerTasks, OwningPc, OpenPc
    <3> QED
      BY <1>1, <1>3, <2>1, <2>3, <3>1, <3>2, <3>4, <3>5 DEF TaskInv, At
  <2> QED
    BY <2>4, <2>5
<1>8. CASE /\ Reviewing(u, "mark_reviewed") /\ Continues(u, "audit")
           /\ StatusWritten(e, "REVIEWED")
  <2>1. /\ UNCHANGED reviewTasks /\ e \in DOMAIN documents
        /\ \A c \in DOMAIN documents : c # e => documents'[c] = documents[c]
        /\ review'[u].document = e /\ review'[u].task = review[u].task
    BY <1>2, <1>8 DEF StatusWritten, DocumentSet, Continues, ReviewRowsExist, Reviewing
  <2>2. TasksOf(d)' = TasksOf(d) /\ PendingTasks(d)' = PendingTasks(d)
    BY <2>1 DEF TasksOf, PendingTasks
  <2>3. CASE e # d
    BY <1>5, <2>1, <2>2, <2>3
  <2>4. CASE e = d
    <3>1. documents'[d].status = "REVIEWED"
      <4>1. documents[d] \in Document
        BY <1>2, ElementOfSeq DEF TablesOK
      <4> QED
        BY <1>8, <2>4, <4>1 DEF StatusWritten, DocumentSet, Document
    <3>2. PendingTasks(d) = {}
      <4>1. /\ review[u].task \in TasksOf(d)
            /\ reviewTasks[review[u].task].status # "PENDING"
        BY <1>4, <1>8, <2>4 DEF TaskInv, DecisionTaken, Reviewing
      <4> QED
        BY <4>1 DEF TaskInv, TasksOf, PendingTasks
    <3>3. ASSUME NEW v \in Reviewers PROVE DecisionTaken(v, d)'
      <4>1. CASE v = u
        BY <1>8, <2>1, <2>4, <4>1 DEF TaskInv, DecisionTaken, Reviewing
      <4>2. CASE v # u
        BY <1>1, <2>1, <4>2 DEF TaskInv, DecisionTaken
      <4> QED
        BY <4>1, <4>2
    <3>4. \A w \in Workers : OwnerTasks(w, d)'
      BY <1>1, <2>2 DEF TaskInv, OwnerTasks
    <3> QED
      BY <1>1, <2>1, <2>2, <3>1, <3>2, <3>3, <3>4 DEF TaskInv, Active
  <2> QED
    BY <2>3, <2>4
<1>9. \/ /\ UNCHANGED <<documents, reviewTasks>>
         /\ review[u].pc # "mark_reviewed"
         /\ review'[u].pc \in {"idle", "load_task", "save_fields", "resolve"}
      \/ /\ Reviewing(u, "resolve") /\ Continues(u, "mark_reviewed")
         /\ TaskResolved(review[u].task, ReviewStatusOf[review[u].decision])
      \/ /\ Reviewing(u, "mark_reviewed") /\ Continues(u, "audit")
         /\ StatusWritten(e, "REVIEWED")
  BY <1>1, <1>2
  DEF ReviewEffect, SameRows, BatchInserted, Reviewing, Continues, NoRequest
<1> QED
  BY <1>6, <1>7, <1>8, <1>9

LEMMA TasksInductive ==
    ASSUME ClaimsApart, PipelineInv, ClosingInv, TasksInv, MaxDatabaseErrors = 0,
           [Next]_vars
    PROVE  TasksInv'
<1> SUFFICES ASSUME NEW d \in DOMAIN documents', ~Disturbed(d)' PROVE TaskInv(d)'
  BY DEF TasksInv
<1>1. /\ ~Disturbed(d)
      /\ d \in DOMAIN documents => TaskInv(d) /\ ClosedOutside(d)
  BY DisturbedForGood DEF TasksInv, ClosingInv
<1>2. CASE Upload /\ UNCHANGED <<workerVars, review>>
  BY <1>1, <1>2, UploadKeepsTasks
<1>3. ASSUME NEW w \in Workers, WorkerStep(w) \/ Crash(w), UNCHANGED review
      PROVE  TaskInv(d)'
  <2>1. CASE Claim(w)
    <3>1. d \in DOMAIN documents
      BY <2>1, ClaimMoves DEF PipelineInv
    <3> QED
      BY <1>1, <1>3, <2>1, <3>1, ClaimKeepsTasks
  <2>2. CASE Process(w) \/ Route(w) \/ Failure(w)
    <3>1. d \in DOMAIN documents
      BY <2>2, RunEffects, EffectDocuments DEF PipelineInv
    <3> QED
      BY <1>1, <1>3, <2>2, <3>1, OwnEffectKeepsTasks, OtherEffectKeepsTasks
  <2>3. CASE Crash(w)
    <3>1. d \in DOMAIN documents
      BY <2>3, CrashStops DEF PipelineInv, tables
    <3> QED
      BY <1>1, <1>3, <2>3, <3>1, CrashKeepsTasks
  <2> QED
    BY <1>3, <2>1, <2>2, <2>3 DEF WorkerStep
<1>4. ASSUME NEW u \in Reviewers, SubmitStep(u), UNCHANGED workerVars
      PROVE  TaskInv(d)'
  <2>1. d \in DOMAIN documents
    BY <1>4, ReviewEffects
    DEF ReviewEffect, SameRows, BatchInserted, TaskResolved, StatusWritten, DocumentSet,
        PipelineInv
  <2> QED
    BY <1>1, <1>4, <2>1, ReviewKeepsTasks
<1>5. CASE UNCHANGED vars
  <2>1. d \in DOMAIN documents /\ TasksKept(d) /\ ReviewRowsExist
    BY <1>5, TablesKeepTasks DEF vars, tables, PipelineInv, Inv, TypeOK
  <2> QED
    BY <1>1, <1>5, <2>1, TaskInvKept DEF vars, tables, workerVars, Unclaimed, RunsWith
<1> QED
  BY <1>2, <1>3, <1>4, <1>5 DEF Next, WorkerNext, ReviewNext

\* Where no statement fails, and claims do not overlap, ClosingInv and
\* TasksInv hold throughout.
THEOREM TasksInvHolds ==
    ASSUME ClaimsApart, MaxDatabaseErrors = 0
    PROVE  Spec => [](ClosingInv /\ TasksInv)
<1>1. Init => ClosingInv /\ TasksInv
  BY DEF Init, DatabaseInit, ClosingInv, TasksInv
<1>2. PipelineInv /\ ClosingInv /\ TasksInv /\ [Next]_vars => ClosingInv' /\ TasksInv'
  BY ClosingInductive, TasksInductive
<1> QED
  BY <1>1, <1>2, PipelineInvHolds, PTL DEF Spec

\* Where no statement fails, for any number of workers whose claims do not
\* overlap and of reviewers: a document has one open task at most, unless
\* one of its runs failed before its classification was stored.
THEOREM OneOpenTaskHolds ==
    ASSUME ClaimsApart, MaxDatabaseErrors = 0
    PROVE  Spec => []AtMostOneOpenTaskUnlessEarlyFailure
<1>1. TasksInv => AtMostOneOpenTaskUnlessEarlyFailure
  BY DEF TasksInv, TaskInv, TasksOf, PendingTasks, Disturbed,
         AtMostOneOpenTaskUnlessEarlyFailure
<1> QED
  BY <1>1, TasksInvHolds, PTL

\* With one worker that may crash anywhere and any number of reviewers, a
\* document in PENDING_REVIEW has an open task or is about to leave it.
THEOREM PendingReviewHasOpenTaskHolds ==
    ASSUME Solo, MaxDatabaseErrors = 0
    PROVE  Spec => []PendingReviewHasOpenTask
<1>1. ClaimsApart
  BY DEF ClaimsApart
<1>2. TasksInv => PendingReviewHasOpenTask
  BY DEF TasksInv, TaskInv, Disturbed, Stranded, PendingReviewHasOpenTask
<1> QED
  BY <1>1, <1>2, TasksInvHolds, PTL

\* With one worker a document that was processed without a human was never
\* put before one.
THEOREM AutoProcessedUnreviewedHolds ==
    ASSUME Solo, MaxDatabaseErrors = 0
    PROVE  Spec => []AutoProcessedUnreviewed
<1>1. ClaimsApart
  BY DEF ClaimsApart
<1>2. TasksInv => AutoProcessedUnreviewed
  BY DEF TasksInv, TaskInv, Disturbed, AutoProcessedUnreviewed
<1> QED
  BY <1>1, <1>2, TasksInvHolds, PTL

\* With one worker that does not stop, an open task is that of a document
\* that is, or is about to be, in PENDING_REVIEW.
THEOREM OpenTaskIsReviewableHolds ==
    ASSUME Solo, MaxCrashes = 0, MaxDatabaseErrors = 0
    PROVE  Spec => []OpenTaskIsReviewable
<1>1. ClaimsApart
  BY DEF ClaimsApart
<1>2. Inv /\ TasksInv => OpenTaskIsReviewable
  <2> SUFFICES ASSUME Inv, TasksInv, NEW d \in DOMAIN documents, PendingTasks(d) # {}
               PROVE  \/ documents[d].status = "PENDING_REVIEW"
                      \/ \E w \in Workers : worker[w].document = d /\ At(w, "mark_pending")
    BY DEF OpenTaskIsReviewable
  <2>1. TaskInv(d) /\ TasksOf(d) # {}
    BY DEF TasksInv, Disturbed, TasksOf, PendingTasks
  <2>2. documents[d].status \in DocumentStatus
    <3>1. documents[d] \in Document
      BY ElementOfSeq DEF Inv, TypeOK, DatabaseTypeOK
    <3> QED
      BY <3>1 DEF Document
  <2> QED
    BY <2>1, <2>2 DEF TaskInv, Active, DocumentStatus
<1> QED
  BY <1>1, <1>2, InvHolds, TasksInvHolds, PTL

---------------------------------------------------------------------------
(* Corrections *)

\* A task is decided only once its document is in review, and a correction is
\* saved, by the reviewer of record, before the task says so.
CorrectionInv(d) ==
    /\ \A t \in TasksOf(d) :
          /\ reviewTasks[t].status # "PENDING" =>
                documents[d].status \in {"PENDING_REVIEW", "REVIEWED"}
          /\ reviewTasks[t].status = "CORRECTED" => StoredBy(reviewTasks[t].reviewedBy, d)
    /\ \A u \in Reviewers :
          /\ review[u].document = d /\ review[u].decision = "correct"
          /\ review[u].pc \in {"resolve", "mark_reviewed", "audit"}
          => StoredBy(u, d)

CorrectionsInv == \A d \in DOMAIN documents : Disturbed(d) \/ CorrectionInv(d)

LEMMA CorrectionKept ==
    ASSUME NEW d, CorrectionInv(d), SettledFor(d),
           \A u : StoredBy(u, d) => StoredBy(u, d)',
           \A t \in TasksOf(d)' :
               \/ reviewTasks'[t].status = "PENDING"
               \/ t \in TasksOf(d) /\ reviewTasks'[t] = reviewTasks[t],
           \A u \in Reviewers :
               \/ review'[u] = review[u]
               \/ review'[u].document # d
               \/ review'[u].decision # "correct"
               \/ review'[u].pc \notin {"resolve", "mark_reviewed", "audit"}
    PROVE  CorrectionInv(d)'
BY DEF CorrectionInv, SettledFor, Settled

\* Two tables unchanged but for a new task, or one other document's fields
LEMMA RowsKeepCorrection ==
    ASSUME NEW d \in DOMAIN documents, CorrectionInv(d), SettledFor(d), UNCHANGED review,
           \/ UNCHANGED <<reviewTasks, extractedFields>>
           \/ \E e \in DOMAIN documents : TaskOpened(e)
           \/ \E e \in DOMAIN documents \ {d} : BatchInserted(e, Agent)
    PROVE  CorrectionInv(d)'
<1>1. CASE UNCHANGED <<reviewTasks, extractedFields>>
  <2>1. TasksOf(d)' = TasksOf(d) /\ \A u : StoredBy(u, d)' <=> StoredBy(u, d)
    BY <1>1 DEF TasksOf, StoredBy, BatchesOf
  <2> QED
    BY <1>1, <2>1, CorrectionKept
<1>2. ASSUME NEW e \in DOMAIN documents, TaskOpened(e) PROVE CorrectionInv(d)'
  <2>1. \A t \in TasksOf(d)' : \/ reviewTasks'[t].status = "PENDING"
                               \/ t \in TasksOf(d) /\ reviewTasks'[t] = reviewTasks[t]
    BY <1>2 DEF TasksOf, TaskOpened
  <2>2. \A u : StoredBy(u, d)' <=> StoredBy(u, d)
    BY <1>2 DEF TaskOpened, StoredBy, BatchesOf
  <2> QED
    BY <2>1, <2>2, CorrectionKept
<1>3. ASSUME NEW e \in DOMAIN documents, e # d, BatchInserted(e, Agent)
      PROVE  CorrectionInv(d)'
  <2>1. UNCHANGED reviewTasks /\ TasksKept(d)
    BY <1>3, BatchKeepsTasks DEF BatchInserted
  <2> QED
    BY <2>1, KeptReads, CorrectionKept DEF TasksKept
<1> QED
  BY <1>1, <1>2, <1>3

\* An extraction is stored while no decision on its document is taken.
LEMMA EffectKeepsCorrection ==
    ASSUME PipelineInv, NEW w \in Workers, RunEffect(w), worker[w].pc \in RunPc,
           NEW d \in DOMAIN documents, ~Disturbed(d), SettledFor(d), CorrectionInv(d),
           UNCHANGED review
    PROVE  CorrectionInv(d)'
<1>1. /\ worker[w].document \in DOMAIN documents
      /\ \/ UNCHANGED <<reviewTasks, extractedFields>>
         \/ TaskOpened(worker[w].document)
         \/ At(w, "insert_fields") /\ BatchInserted(worker[w].document, Agent)
  BY RunFacts
  DEF PipelineInv, RunEffect, SameRows, WriteMove, StatusWritten, DocumentSet, RunFinished
<1>2. CASE At(w, "insert_fields") /\ BatchInserted(d, Agent) /\ worker[w].document = d
  <2>1. /\ documents[d].status \in Active
        /\ \A u \in Reviewers : review[u].pc # "idle" => review[u].document # d
    BY <1>2, OwnersApart
    DEF At, OwningPc, OpenPc, PersistPc, PipelineInv, Reviewing
  <2>2. UNCHANGED reviewTasks /\ TasksOf(d)' = TasksOf(d)
    BY <1>2 DEF BatchInserted, TasksOf
  <2>3. \A t \in TasksOf(d) : reviewTasks[t].status = "PENDING"
    BY <2>1 DEF CorrectionInv, Active
  <2> QED
    BY <2>1, <2>2, <2>3 DEF CorrectionInv
<1> QED
  BY <1>1, <1>2, RowsKeepCorrection

LEMMA ReviewKeepsCorrection ==
    ASSUME PipelineInv, NEW u \in Reviewers, ReviewEffect(u),
           NEW d \in DOMAIN documents, ~Disturbed(d), SettledFor(d), CorrectionInv(d)
    PROVE  CorrectionInv(d)'
<1> USE DEF PipelineInv
<1>1. /\ \A v \in Reviewers \ {u} : review'[v] = review[v]
      /\ review[u] \in ReviewState /\ ReviewRowsExist /\ TablesOK
  BY DEF ReviewEffect, Inv, TypeOK, ReviewTypeOK, DatabaseTypeOK, TablesOK
<1> PICK e : e = review[u].document
  OBVIOUS
<1>2. CASE /\ UNCHANGED <<reviewTasks, extractedFields>>
           /\ \/ review'[u].document # d
              \/ review'[u].decision # "correct"
              \/ review'[u].pc \notin {"resolve", "mark_reviewed", "audit"}
              \/ /\ review[u].pc \in {"resolve", "mark_reviewed"}
                 /\ review'[u].document = review[u].document
                 /\ review'[u].decision = review[u].decision
  <2>1. /\ TasksOf(d)' = TasksOf(d) /\ UNCHANGED reviewTasks
        /\ \A v : StoredBy(v, d)' <=> StoredBy(v, d)
    BY <1>2 DEF TasksOf, StoredBy, BatchesOf
  <2>2. ASSUME NEW v \in Reviewers, review'[v].document = d, review'[v].decision = "correct",
               review'[v].pc \in {"resolve", "mark_reviewed", "audit"}
        PROVE  StoredBy(v, d)
    BY <1>1, <1>2, <2>2 DEF CorrectionInv
  <2> QED
    BY <2>1, <2>2 DEF CorrectionInv, SettledFor, Settled
<1>3. CASE /\ Reviewing(u, "save_fields") /\ Continues(u, "resolve")
           /\ BatchInserted(e, u)
  <2>1. UNCHANGED reviewTasks /\ TasksOf(d)' = TasksOf(d) /\ review'[u].document = e
    BY <1>3 DEF BatchInserted, Continues, TasksOf
  <2>2. CASE e # d
    BY <1>1, <1>3, <2>1, <2>2, BatchKeepsTasks, KeptReads, CorrectionKept
  <2>3. CASE e = d
    <3> PICK n : n = Len(extractedFields) + 1
      OBVIOUS
    <3>1. /\ DOMAIN extractedFields' = DOMAIN extractedFields \cup {n}
          /\ \A b \in DOMAIN extractedFields : b < n /\ extractedFields'[b] = extractedFields[b]
          /\ extractedFields'[n] = [document |-> d, author |-> u]
      BY <1>3, <2>3 DEF BatchInserted
    <3>2. DOMAIN extractedFields = 1..Len(extractedFields) /\ n \in Nat
      BY <1>1, LenProperties DEF TablesOK
    <3>3. BatchesOf(d)' = BatchesOf(d) \cup {n} /\ u # Agent
      BY <3>1, DatabaseAssumption DEF BatchesOf
    <3>4. StoredBy(u, d)'
      BY <3>1, <3>2, <3>3 DEF StoredBy, BatchesOf
    <3>5. \A v : StoredBy(v, d) => StoredBy(v, d)'
      BY <3>1, <3>2, <3>3 DEF StoredBy, BatchesOf
    <3>6. ASSUME NEW v \in Reviewers, review'[v].document = d, review'[v].decision = "correct",
                 review'[v].pc \in {"resolve", "mark_reviewed", "audit"}
          PROVE  StoredBy(v, d)'
      BY <1>1, <3>4, <3>5, <3>6 DEF CorrectionInv
    <3> QED
      BY <2>1, <3>5, <3>6 DEF CorrectionInv, SettledFor, Settled
  <2> QED
    BY <2>2, <2>3
<1>4. CASE /\ Reviewing(u, "resolve") /\ Continues(u, "mark_reviewed")
           /\ TaskResolved(review[u].task, ReviewStatusOf[review[u].decision])
           /\ reviewTasks'[review[u].task].reviewedBy = u
  <2> PICK t : t = review[u].task
    OBVIOUS
  <2>1. /\ t \in DOMAIN reviewTasks /\ reviewTasks[t].document = e
        /\ UNCHANGED <<documents, extractedFields>>
        /\ DOMAIN reviewTasks' = DOMAIN reviewTasks
        /\ \A q \in DOMAIN reviewTasks : q # t => reviewTasks'[q] = reviewTasks[q]
        /\ reviewTasks'[t].document = e
        /\ reviewTasks'[t].status = "CORRECTED" => review[u].decision = "correct"
        /\ reviewTasks'[t].reviewedBy = u
    BY <1>1, <1>4
    DEF ReviewRowsExist, Reviewing, TaskResolved, ReviewStatusOf, ReviewState, Decisions
  <2>2. TasksOf(d)' = TasksOf(d) /\ \A v : StoredBy(v, d)' <=> StoredBy(v, d)
    BY <2>1 DEF TasksOf, StoredBy, BatchesOf
  <2>3. e = d => /\ documents[d].status \in {"PENDING_REVIEW", "REVIEWED"}
                 /\ review[u].decision = "correct" => StoredBy(u, d)
    BY <1>4 DEF CorrectionInv, Reviewing, StageInv, UnderReview
  <2>4. \A q \in TasksOf(d) :
            /\ reviewTasks'[q].status # "PENDING" =>
                  documents[d].status \in {"PENDING_REVIEW", "REVIEWED"}
            /\ reviewTasks'[q].status = "CORRECTED" => StoredBy(reviewTasks'[q].reviewedBy, d)
    BY <2>1, <2>3 DEF CorrectionInv, TasksOf
  <2>5. \A v \in Reviewers :
            /\ review'[v].document = d /\ review'[v].decision = "correct"
            /\ review'[v].pc \in {"resolve", "mark_reviewed", "audit"}
            => StoredBy(v, d)
    BY <1>1, <1>4, <2>3 DEF CorrectionInv, Continues
  <2> QED
    BY <2>1, <2>2, <2>4, <2>5 DEF CorrectionInv
<1>5. \/ /\ UNCHANGED <<reviewTasks, extractedFields>>
         /\ \/ review'[u].decision # "correct"
            \/ review'[u].pc \notin {"resolve", "mark_reviewed", "audit"}
            \/ /\ review[u].pc \in {"resolve", "mark_reviewed"}
               /\ review'[u].document = review[u].document
               /\ review'[u].decision = review[u].decision
      \/ /\ Reviewing(u, "save_fields") /\ Continues(u, "resolve")
         /\ BatchInserted(e, u)
      \/ /\ Reviewing(u, "resolve") /\ Continues(u, "mark_reviewed")
         /\ TaskResolved(review[u].task, ReviewStatusOf[review[u].decision])
         /\ reviewTasks'[review[u].task].reviewedBy = u
  BY DEF ReviewEffect, SameRows, StatusWritten, DocumentSet, Reviewing, Continues, NoRequest
<1> QED
  BY <1>2, <1>3, <1>4, <1>5

LEMMA CorrectionsInductive ==
    ASSUME PipelineInv, CorrectionsInv, [Next]_vars
    PROVE  CorrectionsInv'
<1> USE DEF PipelineInv
<1> SUFFICES ASSUME NEW d \in DOMAIN documents', ~Disturbed(d)' PROVE CorrectionInv(d)'
  BY DEF CorrectionsInv
<1>1. /\ ~Disturbed(d)
      /\ d \in DOMAIN documents => CorrectionInv(d) /\ SettledFor(d)
  BY DisturbedForGood, SettledKept DEF CorrectionsInv
<1>2. CASE Upload /\ UNCHANGED <<workerVars, review>>
  <2>1. UNCHANGED <<reviewTasks, extractedFields>>
    BY <1>2, DocumentCreated
  <2>2. CASE d \in DOMAIN documents
    BY <1>1, <1>2, <2>1, <2>2, RowsKeepCorrection
  <2>3. CASE d \notin DOMAIN documents
    <3>1. TasksOf(d)' = {}
      BY <2>1, <2>3 DEF TasksOf, Inv, TypeOK, RowsRefer
    <3>2. \A u \in Reviewers : review[u].document = d => review[u].pc = "idle"
      BY <2>3 DEF ReviewRowsExist, Inv, TypeOK
    <3> QED
      BY <1>2, <3>1, <3>2 DEF CorrectionInv
  <2> QED
    BY <2>2, <2>3
<1>3. ASSUME NEW w \in Workers, WorkerStep(w) \/ Crash(w), UNCHANGED review
      PROVE  CorrectionInv(d)'
  <2>1. CASE Claim(w) \/ Crash(w)
    <3>1. UNCHANGED <<documents, reviewTasks, extractedFields>>
      BY <2>1, ClaimMoves, CrashStops DEF tables
    <3> QED
      BY <1>1, <1>3, <3>1, RowsKeepCorrection
  <2>2. CASE Process(w) \/ Route(w) \/ Failure(w)
    <3>1. RunEffect(w) /\ worker[w].pc \in RunPc /\ d \in DOMAIN documents
      BY <2>2, RunEffects, RunPcs, EffectDocuments
    <3> QED
      BY <1>1, <1>3, <3>1, EffectKeepsCorrection
  <2> QED
    BY <1>3, <2>1, <2>2 DEF WorkerStep
<1>4. ASSUME NEW u \in Reviewers, SubmitStep(u)
      PROVE  CorrectionInv(d)'
  <2>1. ReviewEffect(u)
    BY <1>4, ReviewEffects
  <2>2. d \in DOMAIN documents
    BY <2>1
    DEF ReviewEffect, SameRows, BatchInserted, TaskResolved, StatusWritten, DocumentSet
  <2> QED
    BY <1>1, <2>1, <2>2, ReviewKeepsCorrection
<1>5. CASE UNCHANGED vars
  BY <1>1, <1>5, RowsKeepCorrection DEF vars, tables
<1> QED
  BY <1>2, <1>3, <1>4, <1>5 DEF Next, WorkerNext, ReviewNext

\* With one worker, however many reviewers decide at once, whatever
\* statements fail and wherever the worker stops: the reviewer of record of
\* a correction has stored it, and no extraction shadows it.
THEOREM CorrectionStandsHolds ==
    ASSUME Solo
    PROVE  Spec => []CorrectionStands
<1>1. ClaimsApart
  BY DEF ClaimsApart
<1>2. Init => CorrectionsInv
  BY DEF Init, DatabaseInit, CorrectionsInv
<1>3. PipelineInv /\ CorrectionsInv /\ [Next]_vars => CorrectionsInv'
  BY CorrectionsInductive
<1>4. Inv /\ CorrectionsInv => CorrectionStands
  <2> SUFFICES ASSUME Inv, CorrectionsInv,
                      NEW t \in DOMAIN reviewTasks, reviewTasks[t].status = "CORRECTED"
               PROVE  StoredBy(reviewTasks[t].reviewedBy, reviewTasks[t].document)
    BY DEF CorrectionStands
  <2> PICK d : d = reviewTasks[t].document
    OBVIOUS
  <2>1. d \in DOMAIN documents /\ t \in TasksOf(d)
    BY DEF Inv, TypeOK, RowsRefer, TasksOf
  <2>2. CorrectionInv(d)
    BY <2>1 DEF CorrectionsInv, Disturbed
  <2> QED
    BY <2>1, <2>2 DEF CorrectionInv
<1> QED
  BY <1>1, <1>2, <1>3, <1>4, InvHolds, PipelineInvHolds, PTL DEF Spec

---------------------------------------------------------------------------
(* Documents in review, where statements fail *)

\* A step has one failing statement at most.
LEMMA ErrorsCounted ==
    ASSUME Inv, [Next]_vars
    PROVE  /\ databaseErrors \in Nat
           /\ databaseErrors' = databaseErrors \/ databaseErrors' = databaseErrors + 1
<1>1. databaseErrors \in Nat
  BY DEF Inv, TypeOK, DatabaseTypeOK
<1> DEFINE Counted == databaseErrors' = databaseErrors \/ databaseErrors' = databaseErrors + 1
<1>3. ASSUME NEW w \in Workers, Claim(w) PROVE Counted
  BY <1>3 DEF Claim, ClaimSnapshot, ClaimLock, ClaimOpenRun, Attempt, NoStatement
<1>4. ASSUME NEW w \in Workers, Process(w) PROVE Counted
  BY <1>4 DEF Process, Attempt, NoStatement, LoadDocument, IterationCapReached, RunOCR,
       ClassifyDocument, PersistClassification, AuditClassified, ExtractFields,
       PersistFields, PersistExtracted, AuditExtracted, PersistKey, ValidateExtraction,
       PersistValidated, AuditValidated, CheckExactDuplicate, CheckNearDuplicate,
       PersistDuplicate, CalculateConfidence, FinalizeDocument, FinishAutoProcessed,
       AuditAutoProcessed
<1>5. ASSUME NEW w \in Workers, Route(w) \/ Failure(w) PROVE Counted
  BY <1>5 DEF Route, Failure, Attempt, OpenReviewTask, PersistPendingReview, FinishRouted,
       AuditRouted, FinishFailed, CountAttempts, Requeue, AuditRetrying, GiveUp, AuditFailed
<1>6. ASSUME NEW w \in Workers, Crash(w) PROVE Counted
  BY <1>6 DEF Crash, NoStatement
<1>7. ASSUME NEW u \in Reviewers, SubmitStep(u) PROVE Counted
  BY <1>7 DEF SubmitStep, AcceptRequest, LoadTask, SaveCorrections, ResolveTask,
       CloseDocument, AuditDecision, Attempt, NoStatement
<1> QED
  BY <1>1, <1>3, <1>4, <1>5, <1>6, <1>7
  DEF Next, vars, Upload, WorkerNext, WorkerStep, ReviewNext

\* What the two statements of routeToReview do, or that they fail
LEMMA RoutingCounted ==
    ASSUME NEW w \in Workers, Process(w) \/ Route(w) \/ Failure(w)
    PROVE  /\ At(w, "create_task") =>
                 \/ CreateReviewTask(worker[w].document, worker[w].reason)
                 \/ databaseErrors' = databaseErrors + 1
           /\ At(w, "mark_pending") =>
                 \/ MarkPendingReview(worker[w].document)
                 \/ databaseErrors' = databaseErrors + 1
<1> SUFFICES ASSUME At(w, "create_task") \/ At(w, "mark_pending")
             PROVE  OpenReviewTask(w) \/ PersistPendingReview(w)
  BY DEF OpenReviewTask, PersistPendingReview, Attempt, At
<1>1. ~Process(w)
  BY DEF Process, At, Step, StepPc,
       LoadDocument, IterationCapReached, RunOCR, ClassifyDocument, PersistClassification,
       AuditClassified, ExtractFields, PersistFields, PersistExtracted, AuditExtracted,
       PersistKey, ValidateExtraction, PersistValidated, AuditValidated,
       CheckExactDuplicate, CheckNearDuplicate, PersistDuplicate, CalculateConfidence,
       FinalizeDocument, FinishAutoProcessed, AuditAutoProcessed
<1>2. ~Failure(w)
  BY DEF Failure, At, FinishFailed, CountAttempts, Requeue, AuditRetrying, GiveUp, AuditFailed
<1> QED
  BY <1>1, <1>2 DEF Route, FinishRouted, AuditRouted, At

\* ... and the one that ends a review
LEMMA ClosingCounted ==
    ASSUME NEW u \in Reviewers, SubmitStep(u), Reviewing(u, "mark_reviewed")
    PROVE  \/ MarkReviewed(review[u].document)
           \/ databaseErrors' = databaseErrors + 1
BY DEF SubmitStep, Reviewing, AcceptRequest, LoadTask, SaveCorrections, ResolveTask,
       CloseDocument, AuditDecision, Attempt

\* What a step of a run does to the review of documents
LEMMA EffectRoutes ==
    ASSUME Inv, NEW w \in Workers, RunEffect(w), worker[w].pc \in RunPc
    PROVE  LET d == worker[w].document
           IN  /\ worker'[w].pc = "mark_pending" =>
                     /\ At(w, "create_task") /\ worker'[w].document = d
                     /\ UNCHANGED documents
               /\ UNCHANGED reviewTasks \/ (At(w, "create_task") /\ TaskOpened(d))
               /\ \A e \in DOMAIN documents :
                     documents'[e].status = "PENDING_REVIEW" =>
                        \/ documents[e].status = "PENDING_REVIEW"
                        \/ e = d /\ At(w, "mark_pending") /\ UNCHANGED reviewTasks
               /\ worker'[w].pc = "finish_review" =>
                     /\ At(w, "mark_pending") /\ worker'[w].document = d
                     /\ \/ UNCHANGED documents
                        \/ documents'[d].status = "PENDING_REVIEW"
               /\ worker'[w].pc = "finish_auto" =>
                     worker'[w].document = d /\ documents'[d].status = "AUTO_PROCESSED"
<1> DEFINE d == worker[w].document
<1>0. d \in DOMAIN documents /\ TablesOK /\ documents[d] \in Document
  <2>1. d \in DOMAIN documents /\ TablesOK
    BY RunFacts
  <2> QED
    BY <2>1, ElementOfSeq DEF TablesOK
<1>1. CASE SameRows /\ (ReadMove(w) \/ ErrorMove(w))
  <2>1. /\ worker'[w].pc = "mark_pending" =>
                At(w, "create_task") /\ worker'[w].document = d
        /\ worker'[w].pc = "finish_review" =>
                At(w, "mark_pending") /\ worker'[w].document = d
        /\ worker'[w].pc # "finish_auto"
    BY <1>1, GoesWhere DEF ReadMove, ErrorMove, GoesToOne
  <2> QED
    BY <1>1, <2>1 DEF SameRows
<1>2. CASE SameRows /\ FailMove(w)
  <2>1. worker'[w].pc = "fail_finish"
    BY <1>2, GoesWhere DEF FailMove
  <2> QED
    BY <1>2, <2>1 DEF SameRows
<1>3. CASE WriteMove(w)
  <2>1. ASSUME NEW s, StatusWritten(d, s)
        PROVE  /\ documents'[d].status = s /\ UNCHANGED reviewTasks
               /\ \A e \in DOMAIN documents : e # d => documents'[e] = documents[e]
    BY <1>0, <2>1 DEF StatusWritten, DocumentSet, Document
  <2>2. ASSUME NEW row, DocumentSet(d, row), row.status = documents[d].status
        PROVE  /\ UNCHANGED reviewTasks
               /\ \A e \in DOMAIN documents : documents'[e].status = documents[e].status
    BY <1>0, <2>2 DEF DocumentSet
  <2>3. /\ \A k : [documents[d] EXCEPT !.key = k].status = documents[d].status
        /\ \A k : [documents[d] EXCEPT !.duplicateOf = k].status = documents[d].status
    BY <1>0 DEF Document
  <2>4. CASE worker[w].pc = "mark_pending"
    BY <1>3, <2>1, <2>4, GoesWhere DEF WriteMove, At
  <2>5. CASE worker[w].pc = "create_task"
    BY <1>3, <2>5, GoesWhere DEF WriteMove, At, TaskOpened
  <2>6. CASE worker[w].pc \in {"mark_classified", "mark_extracted", "mark_validated",
                               "fail_requeue", "fail_mark"}
    <3>1. \E s : s # "PENDING_REVIEW" /\ StatusWritten(d, s)
      BY <1>3, <2>6 DEF WriteMove, At
    <3>2. worker'[w].pc \notin {"mark_pending", "finish_review", "finish_auto"}
      BY <1>3, <2>6, GoesWhere DEF WriteMove, At
    <3> QED
      BY <2>1, <3>1, <3>2
  <2>9. CASE worker[w].pc = "finalize"
    BY <1>3, <2>1, <2>9, GoesWhere DEF WriteMove, At
  <2>7. CASE worker[w].pc \in {"set_key", "mark_duplicate"}
    <3>1. \E row : DocumentSet(d, row) /\ row.status = documents[d].status
      BY <1>3, <2>3, <2>7 DEF WriteMove, At
    <3>2. worker'[w].pc \notin {"mark_pending", "finish_review", "finish_auto"}
      BY <1>3, <2>7, GoesWhere DEF WriteMove, At
    <3> QED
      BY <2>2, <3>1, <3>2
  <2>8. CASE worker[w].pc \in {"insert_fields", "finish_auto", "finish_review", "fail_finish"}
    <3>1. UNCHANGED <<documents, reviewTasks>>
      BY <1>3, <2>8 DEF WriteMove, At, BatchInserted, RunFinished
    <3>2. worker'[w].pc \notin {"mark_pending", "finish_review", "finish_auto"}
      BY <1>3, <2>8, GoesWhere DEF WriteMove, At
    <3> QED
      BY <3>1, <3>2
  <2> QED
    BY <1>3, <2>4, <2>5, <2>6, <2>7, <2>8, <2>9 DEF WriteMove, At
<1> QED
  BY <1>1, <1>2, <1>3 DEF RunEffect

\* A run becomes COMPLETED by the statement of its own worker.
LEMMA EffectCompletes ==
    ASSUME Inv, NEW w \in Workers, RunEffect(w), worker[w].pc \in RunPc,
           NEW r \in DOMAIN agentRuns', agentRuns'[r].status = "COMPLETED",
           ~(/\ r \in DOMAIN agentRuns /\ agentRuns[r].status = "COMPLETED"
             /\ agentRuns'[r].document = agentRuns[r].document)
    PROVE  /\ worker[w].pc \in {"finish_review", "finish_auto"}
           /\ RunFinished(w, "COMPLETED") /\ r = worker[w].run
<1>1. ~UNCHANGED agentRuns
  OBVIOUS
<1>2. WriteMove(w)
  BY <1>1 DEF RunEffect, SameRows
<1>3. ~RunFinished(w, "FAILED")
  BY RunFacts DEF RunFinished
<1>4. worker[w].pc \in {"finish_review", "finish_auto"} /\ RunFinished(w, "COMPLETED")
  BY <1>1, <1>2, <1>3
  DEF WriteMove, At, StatusWritten, DocumentSet, BatchInserted, TaskOpened
<1> QED
  BY <1>4 DEF RunFinished

\* A document that is in review, or is put there by the next statement of its
\* run, and has no task that can be decided
WithoutTask(d) ==
    \/ Stranded(d)
    \/ /\ PendingTasks(d) = {}
       /\ \E w \in Workers : worker[w].document = d /\ At(w, "mark_pending")

\* A step that changes neither the tasks of d nor a request that closes it, and
\* puts neither d in review nor a run of d before that step
LEMMA WithoutTaskKept ==
    ASSUME NEW d, PendingTasks(d)' = PendingTasks(d), WithoutTask(d)',
           documents'[d].status = "PENDING_REVIEW" =>
               \/ documents[d].status = "PENDING_REVIEW"
               \/ \E w \in Workers : worker[w].document = d /\ At(w, "mark_pending"),
           \A w \in Workers :
               worker'[w].pc = "mark_pending" /\ worker'[w].document = d =>
                   worker'[w] = worker[w],
           MidSubmit(d) => MidSubmit(d)'
    PROVE  WithoutTask(d)
<1>1. PendingTasks(d) = {}
  BY DEF WithoutTask, Stranded
<1>2. CASE Stranded(d)'
  BY <1>1, <1>2 DEF WithoutTask, Stranded
<1>3. CASE \E w \in Workers : worker'[w].document = d /\ worker'[w].pc = "mark_pending"
  BY <1>1, <1>3 DEF WithoutTask, At
<1> QED
  BY <1>2, <1>3 DEF WithoutTask, At

\* Only d can be left without a task by the step, and a statement fails then.
Costs(d) ==
    /\ databaseErrors' = databaseErrors + 1 \/ databaseErrors' = databaseErrors
    /\ \A e \in DOMAIN documents' :
          WithoutTask(e)' =>
              \/ e \in DOMAIN documents /\ WithoutTask(e)
              \/ e = d /\ databaseErrors' = databaseErrors + 1

\* Of a run's steps, only a task that cannot be opened does.
LEMMA EffectCosts ==
    ASSUME PipelineInv, [Next]_vars, NEW w \in Workers, Process(w) \/ Route(w) \/ Failure(w),
           UNCHANGED review
    PROVE  Costs(worker[w].document)
<1> USE DEF PipelineInv
<1> DEFINE d == worker[w].document
<1>1. /\ RunEffect(w) /\ worker[w].pc \in RunPc /\ OthersStay(w)
      /\ DOMAIN documents' = DOMAIN documents
      /\ TablesOK /\ d \in DOMAIN documents
  BY RunEffects, RunPcs, RunFacts, EffectDocuments, EffectMoves
<1>2. /\ databaseErrors' = databaseErrors + 1 \/ databaseErrors' = databaseErrors
      /\ At(w, "create_task") =>
            \/ TaskOpened(d)
            \/ databaseErrors' = databaseErrors + 1
  BY <1>1, ErrorsCounted, RoutingCounted, TaskCreated
<1> SUFFICES ASSUME NEW e \in DOMAIN documents, WithoutTask(e)',
                    e # d \/ databaseErrors' # databaseErrors + 1
             PROVE  WithoutTask(e)
  BY <1>1, <1>2 DEF Costs
<1>3. MidSubmit(e) => MidSubmit(e)'
  BY DEF MidSubmit, Reviewing
<1>4. CASE UNCHANGED reviewTasks
  <2>1. PendingTasks(e)' = PendingTasks(e)
    BY <1>4 DEF PendingTasks
  <2>2. ~(At(w, "create_task") /\ e = d)
    BY <1>1, <1>2, <1>4 DEF TaskOpened, TablesOK
  <2>3. \A v \in Workers :
            worker'[v].pc = "mark_pending" /\ worker'[v].document = e =>
                worker'[v] = worker[v]
    BY <1>1, <2>2, EffectRoutes DEF OthersStay
  <2> QED
    BY <1>1, <1>3, <2>1, <2>3, WithoutTaskKept, EffectRoutes
<1>5. CASE At(w, "create_task") /\ TaskOpened(d) /\ e = d
  <2> PICK n : n = Len(reviewTasks) + 1
    OBVIOUS
  <2>1. /\ n \in DOMAIN reviewTasks' /\ reviewTasks'[n].document = e
        /\ reviewTasks'[n].status = "PENDING"
    BY <1>5 DEF TaskOpened
  <2>2. PendingTasks(e)' # {}
    BY <2>1 DEF PendingTasks
  <2> QED
    BY <2>2 DEF WithoutTask, Stranded
<1>6. CASE At(w, "create_task") /\ TaskOpened(d) /\ e # d
  <2>1. PendingTasks(e)' = PendingTasks(e) /\ UNCHANGED documents
    BY <1>6, TaskKeepsTasks, KeptReads DEF TaskOpened
  <2>2. \A v \in Workers :
            worker'[v].pc = "mark_pending" /\ worker'[v].document = e =>
                worker'[v] = worker[v]
    BY <1>1, <1>6, EffectRoutes DEF OthersStay
  <2> QED
    BY <1>3, <2>1, <2>2, WithoutTaskKept
<1> QED
  BY <1>1, <1>4, <1>5, <1>6, EffectRoutes

\* Of a request's, only a document that cannot be marked REVIEWED does.
LEMMA ReviewCosts ==
    ASSUME Solo, PipelineInv, [Next]_vars, NEW u \in Reviewers, SubmitStep(u),
           UNCHANGED workerVars
    PROVE  Costs(review[u].document)
<1> USE DEF PipelineInv
<1> DEFINE d == review[u].document
<1>1. /\ ReviewEffect(u) /\ UNCHANGED worker
      /\ \A v \in Reviewers \ {u} : review'[v] = review[v]
      /\ TablesOK /\ ReviewRowsExist
      /\ Reviewing(u, "mark_reviewed") => d \in DOMAIN documents
  BY ReviewEffects
  DEF workerVars, ReviewEffect, Inv, TypeOK, ReviewRowsExist, TablesOK, DatabaseTypeOK, Reviewing
<1>2. /\ databaseErrors' = databaseErrors + 1 \/ databaseErrors' = databaseErrors
      /\ Reviewing(u, "mark_reviewed") =>
            \/ StatusWritten(d, "REVIEWED")
            \/ databaseErrors' = databaseErrors + 1
  BY <1>1, ErrorsCounted, ClosingCounted, StatusSet DEF MarkReviewed
<1>3. DOMAIN documents' = DOMAIN documents
  BY <1>1 DEF ReviewEffect, SameRows, BatchInserted, TaskResolved, StatusWritten, DocumentSet
<1> SUFFICES ASSUME NEW e \in DOMAIN documents, WithoutTask(e)',
                    e # d \/ databaseErrors' # databaseErrors + 1
             PROVE  WithoutTask(e)
  BY <1>2, <1>3 DEF Costs
<1>4. CASE Reviewing(u, "mark_reviewed")
  <2>1. MidSubmit(e) => MidSubmit(e)' \/ e = d
    BY <1>1 DEF MidSubmit, Reviewing
  <2>2. CASE SameRows /\ e # d
    <3>1. PendingTasks(e)' = PendingTasks(e) /\ UNCHANGED documents
      BY <2>2 DEF PendingTasks, SameRows
    <3> QED
      BY <1>1, <2>1, <2>2, <3>1, WithoutTaskKept
  <2>3. CASE StatusWritten(d, "REVIEWED")
    <3>1. /\ PendingTasks(e)' = PendingTasks(e)
          /\ e # d => documents'[e] = documents[e]
      BY <2>3 DEF StatusWritten, DocumentSet, PendingTasks
    <3>2. documents[d] \in Document
      BY <1>1, <1>4, ElementOfSeq DEF TablesOK
    <3>3. documents'[d].status = "REVIEWED"
      BY <2>3, <3>2 DEF StatusWritten, DocumentSet, Document
    <3>4. CASE e # d
      BY <1>1, <2>1, <3>1, <3>4, WithoutTaskKept
    <3>5. CASE e = d
      BY <1>1, <3>1, <3>3, <3>5 DEF WithoutTask, Stranded, At
    <3> QED
      BY <3>4, <3>5
  <2> QED
    BY <1>1, <1>2, <1>4, <2>2, <2>3 DEF ReviewEffect, Reviewing
<1>5. CASE ~Reviewing(u, "mark_reviewed")
  <2>1. MidSubmit(e) => MidSubmit(e)'
    BY <1>1, <1>5 DEF MidSubmit, Reviewing
  <2>2. CASE UNCHANGED <<documents, reviewTasks>>
    <3>1. PendingTasks(e)' = PendingTasks(e)
      BY <2>2 DEF PendingTasks
    <3> QED
      BY <1>1, <2>1, <2>2, <3>1, WithoutTaskKept
  <2>3. CASE /\ Reviewing(u, "resolve") /\ Continues(u, "mark_reviewed")
             /\ TaskResolved(review[u].task, ReviewStatusOf[review[u].decision])
    <3>1. UNCHANGED documents /\ reviewTasks[review[u].task].document = d
      BY <1>1, <2>3 DEF TaskResolved, ReviewRowsExist, Reviewing
    <3>2. CASE e # d
      <4>1. PendingTasks(e)' = PendingTasks(e)
        BY <2>3, <3>1, <3>2 DEF TaskResolved, PendingTasks
      <4> QED
        BY <1>1, <2>1, <3>1, <4>1, WithoutTaskKept
    <3>3. CASE e = d
      <4>1. MidSubmit(e)'
        BY <2>3, <3>3 DEF Continues, MidSubmit, Reviewing
      <4>2. PICK w \in Workers : worker[w].document = d /\ At(w, "mark_pending")
        BY <1>1, <3>3, <4>1 DEF WithoutTask, Stranded, At
      <4>3. "mark_pending" \in OwningPc /\ ~Disturbed(d)
        BY DEF OwningPc, OpenPc, Disturbed
      <4> QED
        BY <2>3, <4>2, <4>3, OwnersApart DEF At, Reviewing
    <3> QED
      BY <3>2, <3>3
  <2> QED
    BY <1>1, <1>5, <2>2, <2>3 DEF ReviewEffect, SameRows, BatchInserted
<1> QED
  BY <1>4, <1>5

\* Every step costs one document its review at most.
LEMMA StepCosts ==
    ASSUME Solo, PipelineInv, [Next]_vars
    PROVE  \E d : Costs(d)
<1> USE DEF PipelineInv
<1>1. databaseErrors' = databaseErrors + 1 \/ databaseErrors' = databaseErrors
  BY ErrorsCounted
<1>2. CASE Upload /\ UNCHANGED <<workerVars, review>>
  <2> SUFFICES ASSUME NEW e \in DOMAIN documents', WithoutTask(e)'
               PROVE  e \in DOMAIN documents /\ WithoutTask(e)
    BY <1>1 DEF Costs
  <2>1. UNCHANGED <<worker, reviewTasks, review>>
    BY <1>2, DocumentCreated DEF workerVars
  <2>2. /\ PendingTasks(e)' = PendingTasks(e)
        /\ MidSubmit(e) => MidSubmit(e)'
    BY <2>1 DEF PendingTasks, MidSubmit, Reviewing
  <2>3. CASE e \in DOMAIN documents
    BY <1>2, <2>1, <2>2, <2>3, DocumentCreated, WithoutTaskKept
  <2>4. CASE e \notin DOMAIN documents
    <3>1. documents'[e].status = "UPLOADED"
      BY <1>2, <2>4, DocumentCreated
    <3>2. \A w \in Workers : At(w, "mark_pending") => worker[w].document \in DOMAIN documents
      BY RunFacts DEF At, RunPc, ClosePc
    <3> QED
      BY <2>1, <2>4, <3>1, <3>2 DEF WithoutTask, Stranded, At
  <2> QED
    BY <2>3, <2>4
<1>3. ASSUME NEW w \in Workers, Claim(w) \/ Crash(w), UNCHANGED review
      PROVE  \E d : Costs(d)
  <2>1. /\ UNCHANGED <<documents, reviewTasks>> /\ OthersStay(w)
        /\ worker'[w].pc # "mark_pending"
    <3>1. Polling.pc = "poll"
      BY DEF Polling
    <3>2. CASE Claim(w)
      BY <3>1, <3>2, ClaimMoves DEF RunOpened
    <3>3. CASE Crash(w)
      BY <3>1, <3>3, CrashStops DEF tables
    <3> QED
      BY <1>3, <3>2, <3>3
  <2> SUFFICES ASSUME NEW e \in DOMAIN documents, WithoutTask(e)' PROVE WithoutTask(e)
    BY <1>1, <2>1 DEF Costs
  <2>2. /\ PendingTasks(e)' = PendingTasks(e)
        /\ MidSubmit(e) => MidSubmit(e)'
    BY <1>3, <2>1 DEF PendingTasks, MidSubmit, Reviewing
  <2> QED
    BY <2>1, <2>2, WithoutTaskKept DEF OthersStay
<1>4. ASSUME NEW w \in Workers, Process(w) \/ Route(w) \/ Failure(w), UNCHANGED review
      PROVE  \E d : Costs(d)
  BY <1>4, EffectCosts
<1>5. ASSUME NEW u \in Reviewers, SubmitStep(u), UNCHANGED workerVars
      PROVE  \E d : Costs(d)
  BY <1>5, ReviewCosts
<1>6. CASE UNCHANGED vars
  <2>1. \A e : WithoutTask(e)' <=> WithoutTask(e)
    BY <1>6 DEF vars, tables, workerVars, WithoutTask, Stranded, PendingTasks, MidSubmit,
       Reviewing, At
  <2> QED
    BY <1>1, <1>6, <2>1 DEF Costs, vars, tables
<1> QED
  BY <1>2, <1>3, <1>4, <1>5, <1>6 DEF Next, WorkerNext, WorkerStep, ReviewNext

StrandedInv ==
    Cardinality({d \in DOMAIN documents : WithoutTask(d)}) <= databaseErrors

LEMMA StrandedInductive ==
    ASSUME Solo, PipelineInv, StrandedInv, [Next]_vars, Inv'
    PROVE  StrandedInv'
<1> USE DEF PipelineInv
<1> DEFINE S == {d \in DOMAIN documents : WithoutTask(d)}
           T == {d \in DOMAIN documents' : WithoutTask(d)'}
<1>1. IsFiniteSet(S) /\ Cardinality(S) \in Nat /\ IsFiniteSet(T) /\ Cardinality(T) \in Nat
  <2>1. /\ DOMAIN documents = 1..Len(documents) /\ Len(documents) \in Nat
        /\ DOMAIN documents' = 1..Len(documents') /\ Len(documents') \in Nat
    BY LenProperties DEF Inv, TypeOK, DatabaseTypeOK
  <2>2. IsFiniteSet(DOMAIN documents) /\ IsFiniteSet(DOMAIN documents')
    BY <2>1, FS_Interval
  <2>3. S \in SUBSET DOMAIN documents /\ T \in SUBSET DOMAIN documents'
    OBVIOUS
  <2> HIDE DEF S, T
  <2>4. IsFiniteSet(S) /\ IsFiniteSet(T)
    BY <2>2, <2>3, FS_Subset
  <2> QED
    BY <2>4, FS_CardinalityType
<1>2. PICK d : Costs(d)
  BY StepCosts
<1>3. /\ databaseErrors \in Nat /\ Cardinality(S) <= databaseErrors
      /\ databaseErrors' = databaseErrors \/ databaseErrors' = databaseErrors + 1
  BY ErrorsCounted DEF StrandedInv
<1>4. Cardinality(T) <= databaseErrors'
  <2>1. CASE databaseErrors' = databaseErrors + 1
    <3>1. T \in SUBSET (S \cup {d})
      BY <1>2 DEF Costs
    <3> HIDE DEF S, T
    <3>2. IsFiniteSet(S \cup {d}) /\ Cardinality(S \cup {d}) <= Cardinality(S) + 1
      BY <1>1, FS_AddElement
    <3>3. Cardinality(T) <= Cardinality(S \cup {d}) /\ Cardinality(S \cup {d}) \in Nat
      BY <3>1, <3>2, FS_Subset, FS_CardinalityType
    <3> QED
      BY <1>1, <1>3, <2>1, <3>2, <3>3
  <2>2. CASE databaseErrors' = databaseErrors
    <3>1. T \in SUBSET S
      BY <1>2, <1>3, <2>2 DEF Costs
    <3> HIDE DEF S, T
    <3>2. Cardinality(T) <= Cardinality(S)
      BY <1>1, <3>1, FS_Subset
    <3> QED
      BY <1>1, <1>3, <2>2, <3>2
  <2> QED
    BY <1>3, <2>1, <2>2
<1> QED
  BY <1>4 DEF StrandedInv

\* With one worker, however many reviewers decide at once and wherever the
\* worker stops, no more documents are in review without a task than
\* statements have failed.
THEOREM StrandedReviewsBoundedHolds ==
    ASSUME Solo
    PROVE  Spec => []StrandedReviewsBounded
<1>1. ClaimsApart
  BY DEF ClaimsApart
<1>2. Init => StrandedInv
  <2> SUFFICES ASSUME Init PROVE StrandedInv
    OBVIOUS
  <2>1. databaseErrors = 0 /\ {d \in DOMAIN documents : WithoutTask(d)} = {}
    BY DEF Init, DatabaseInit
  <2> QED
    BY <2>1, FS_EmptySet DEF StrandedInv
<1>3. PipelineInv /\ StrandedInv /\ [Next]_vars /\ Inv' => StrandedInv'
  BY StrandedInductive
<1>4. Inv /\ StrandedInv => StrandedReviewsBounded
  <2> SUFFICES ASSUME Inv, StrandedInv PROVE StrandedReviewsBounded
    OBVIOUS
  <2> DEFINE S == {d \in DOMAIN documents : WithoutTask(d)}
             T == {d \in DOMAIN documents : Stranded(d)}
  <2>1. T \in SUBSET S /\ S \in SUBSET DOMAIN documents
    BY DEF WithoutTask
  <2>2. IsFiniteSet(DOMAIN documents)
    BY LenProperties, FS_Interval DEF Inv, TypeOK, DatabaseTypeOK
  <2>3. Cardinality(S) <= databaseErrors /\ databaseErrors \in Nat
    BY DEF StrandedInv, Inv, TypeOK, DatabaseTypeOK
  <2>4. Cardinality(T) <= databaseErrors
    <3> HIDE DEF S, T
    <3>1. IsFiniteSet(S)
      BY <2>1, <2>2, FS_Subset
    <3>2. IsFiniteSet(T) /\ Cardinality(T) <= Cardinality(S)
      BY <2>1, <3>1, FS_Subset
    <3> QED
      BY <2>3, <3>1, <3>2, FS_CardinalityType
  <2> QED
    BY <2>4 DEF StrandedReviewsBounded
<1> QED
  BY <1>1, <1>2, <1>3, <1>4, InvHolds, PipelineInvHolds, PTL DEF Spec

\* A document that is settled, or that a reviewer finds in the queue
Kept(d) ==
    \/ documents[d].status \in {"AUTO_PROCESSED", "PENDING_REVIEW", "REVIEWED"}
    \/ PendingTasks(d) # {}

\* A document stays kept: its tasks are decided only once it is in review.
LEMMA KeptForGood ==
    ASSUME Solo, PipelineInv, [Next]_vars, NEW d \in DOMAIN documents, Kept(d)
    PROVE  Kept(d)'
<1> USE DEF PipelineInv
<1>1. SettledFor(d)
  BY SettledKept DEF Disturbed
<1>2. CASE documents[d].status \in {"AUTO_PROCESSED", "PENDING_REVIEW", "REVIEWED"}
  BY <1>1, <1>2 DEF Kept, SettledFor, Settled
<1> SUFFICES ASSUME documents[d].status \notin {"AUTO_PROCESSED", "PENDING_REVIEW", "REVIEWED"},
                    NEW t \in PendingTasks(d)
             PROVE  t \in PendingTasks(d)'
  BY <1>2 DEF Kept
<1>3. CASE UNCHANGED reviewTasks
  BY <1>3 DEF PendingTasks
<1>4. ASSUME NEW e, TaskOpened(e) PROVE t \in PendingTasks(d)'
  BY <1>4 DEF TaskOpened, PendingTasks
<1>5. ASSUME NEW w \in Workers, WorkerStep(w) \/ Crash(w)
      PROVE  t \in PendingTasks(d)'
  <2>1. CASE Claim(w) \/ Crash(w)
    BY <1>3, <2>1, ClaimMoves, CrashStops DEF tables
  <2>2. CASE Process(w) \/ Route(w) \/ Failure(w)
    BY <1>3, <1>4, <2>2, RunEffects, RunPcs, EffectRoutes
  <2> QED
    BY <1>5, <2>1, <2>2 DEF WorkerStep
<1>6. ASSUME NEW u \in Reviewers, SubmitStep(u)
      PROVE  t \in PendingTasks(d)'
  <2>1. ReviewEffect(u) /\ ReviewRowsExist
    BY <1>6, ReviewEffects DEF Inv, TypeOK
  <2>2. CASE /\ Reviewing(u, "resolve")
             /\ TaskResolved(review[u].task, ReviewStatusOf[review[u].decision])
    <3>1. /\ documents[review[u].document].status \in {"PENDING_REVIEW", "REVIEWED"}
          /\ reviewTasks[review[u].task].document = review[u].document
      BY <2>1, <2>2 DEF StageInv, UnderReview, Disturbed, Reviewing, ReviewRowsExist
    <3>2. t # review[u].task
      BY <3>1 DEF PendingTasks
    <3> QED
      BY <2>2, <3>2 DEF TaskResolved, PendingTasks
  <2> QED
    BY <1>3, <2>1, <2>2
    DEF ReviewEffect, SameRows, BatchInserted, StatusWritten, DocumentSet
<1> QED
  BY <1>3, <1>5, <1>6, DocumentCreated DEF Next, WorkerNext, ReviewNext, vars, tables

\* A run is COMPLETED only once its document is kept; one failing statement
\* leaves either the task or the status.
RoutedInv ==
    databaseErrors <= 1 =>
        \A d \in DOMAIN documents :
            /\ RunsWith(d, "COMPLETED") # {} => Kept(d)
            /\ \A w \in Workers :
                  worker[w].document = d =>
                      /\ At(w, "mark_pending") => Kept(d) \/ databaseErrors = 1
                      /\ worker[w].pc \in {"finish_review", "finish_auto"} => Kept(d)

\* A step that completes no run and brings no worker to a step RoutedInv
\* speaks of
LEMMA RoutedKept ==
    ASSUME Solo, PipelineInv, RoutedInv, [Next]_vars,
           \A d \in DOMAIN documents' :
               RunsWith(d, "COMPLETED")' # {} =>
                   d \in DOMAIN documents /\ RunsWith(d, "COMPLETED") # {},
           \A w \in Workers :
               \/ worker'[w] = worker[w]
               \/ worker'[w].pc \notin {"mark_pending", "finish_review", "finish_auto"}
    PROVE  RoutedInv'
<1> USE DEF PipelineInv
<1> SUFFICES ASSUME databaseErrors' <= 1 PROVE RoutedInv'
  BY DEF RoutedInv
<1>1. /\ databaseErrors \in Nat /\ databaseErrors <= 1
      /\ databaseErrors = 1 => databaseErrors' = 1
  BY ErrorsCounted
<1>2. \A d \in DOMAIN documents' : RunsWith(d, "COMPLETED")' # {} => Kept(d)'
  BY <1>1, KeptForGood DEF RoutedInv
<1>3. ASSUME NEW w \in Workers, NEW d \in DOMAIN documents', worker'[w].document = d,
             worker'[w].pc \in {"mark_pending", "finish_review", "finish_auto"}
      PROVE  /\ worker'[w].pc = "mark_pending" => Kept(d)' \/ databaseErrors' = 1
             /\ worker'[w].pc \in {"finish_review", "finish_auto"} => Kept(d)'
  <2>1. worker'[w] = worker[w] /\ worker[w].document = d /\ d \in DOMAIN documents
    BY <1>3, RunFacts DEF RunPc, ClosePc
  <2>2. Kept(d) => Kept(d)'
    BY <2>1, KeptForGood
  <2> QED
    BY <1>1, <1>3, <2>1, <2>2 DEF RoutedInv, At
<1> QED
  BY <1>1, <1>2, <1>3 DEF RoutedInv, At

\* The run of a worker, and where its document stands
LEMMA EffectKeepsRouted ==
    ASSUME Solo, PipelineInv, RoutedInv, [Next]_vars, NEW w \in Workers,
           Process(w) \/ Route(w) \/ Failure(w)
    PROVE  RoutedInv'
<1> USE DEF PipelineInv
<1> SUFFICES ASSUME databaseErrors' <= 1, NEW d \in DOMAIN documents'
             PROVE  /\ RunsWith(d, "COMPLETED")' # {} => Kept(d)'
                    /\ \A v \in Workers :
                          worker'[v].document = d =>
                              /\ worker'[v].pc = "mark_pending" =>
                                     Kept(d)' \/ databaseErrors' = 1
                              /\ worker'[v].pc \in {"finish_review", "finish_auto"} =>
                                     Kept(d)'
  BY DEF RoutedInv, At
<1>1. /\ RunEffect(w) /\ worker[w].pc \in RunPc /\ OthersStay(w)
      /\ d \in DOMAIN documents /\ TablesOK
      /\ Kept(d) => Kept(d)'
  BY RunEffects, RunPcs, RunFacts, EffectDocuments, EffectMoves, KeptForGood
<1>2. /\ databaseErrors \in Nat /\ databaseErrors <= 1
      /\ databaseErrors = 1 => databaseErrors' = 1
      /\ databaseErrors' = databaseErrors + 1 => databaseErrors = 0 /\ databaseErrors' = 1
  BY ErrorsCounted
<1>3. /\ RunsWith(d, "COMPLETED") # {} => Kept(d)
      /\ \A v \in Workers :
            worker[v].document = d =>
                /\ At(v, "mark_pending") => Kept(d) \/ databaseErrors = 1
                /\ worker[v].pc \in {"finish_review", "finish_auto"} => Kept(d)
  BY <1>1, <1>2 DEF RoutedInv
<1>4. RunsWith(d, "COMPLETED")' # {} => Kept(d)
  <2> SUFFICES ASSUME NEW r \in RunsWith(d, "COMPLETED")', r \notin RunsWith(d, "COMPLETED")
               PROVE  Kept(d)
    BY <1>3
  <2>1. /\ worker[w].pc \in {"finish_review", "finish_auto"}
        /\ RunFinished(w, "COMPLETED") /\ r = worker[w].run
    BY <1>1, EffectCompletes DEF RunsWith
  <2>2. agentRuns[r].document = d
    BY <2>1 DEF RunFinished, RunsWith
  <2>3. agentRuns[worker[w].run].document = worker[w].document
    BY <1>1 DEF Inv, TypeOK, WorkerRowsExist
  <2> QED
    BY <1>3, <2>1, <2>2, <2>3
<1>5. ASSUME NEW v \in Workers, worker'[v].document = d
      PROVE  /\ worker'[v].pc = "mark_pending" => Kept(d)' \/ databaseErrors' = 1
             /\ worker'[v].pc \in {"finish_review", "finish_auto"} => Kept(d)'
  <2>1. CASE v # w
    BY <1>1, <1>2, <1>3, <1>5, <2>1 DEF OthersStay, At
  <2>2. CASE v = w /\ worker'[w].pc = "mark_pending"
    <3>1. At(w, "create_task") /\ worker[w].document = d
      BY <1>1, <1>5, <2>2, EffectRoutes
    <3>2. TaskOpened(d) \/ databaseErrors' = databaseErrors + 1
      BY <1>1, <3>1, RoutingCounted, TaskCreated
    <3>3. TaskOpened(d) => PendingTasks(d)' # {}
      BY DEF TaskOpened, PendingTasks
    <3> QED
      BY <1>2, <2>2, <3>2, <3>3 DEF Kept
  <2>3. CASE v = w /\ worker'[w].pc = "finish_review"
    <3>1. At(w, "mark_pending") /\ worker[w].document = d
      BY <1>1, <1>5, <2>3, EffectRoutes
    <3>2. \/ documents'[d].status = "PENDING_REVIEW"
          \/ databaseErrors' = databaseErrors + 1
      <4>1. documents[d] \in Document
        BY <1>1, ElementOfSeq DEF TablesOK
      <4>2. StatusWritten(d, "PENDING_REVIEW") \/ databaseErrors' = databaseErrors + 1
        BY <1>1, <3>1, RoutingCounted, StatusSet DEF MarkPendingReview
      <4> QED
        BY <4>1, <4>2 DEF StatusWritten, DocumentSet, Document
    <3>3. databaseErrors' = databaseErrors + 1 => Kept(d)
      BY <1>2, <1>3, <3>1
    <3> QED
      BY <1>1, <2>3, <3>2, <3>3 DEF Kept
  <2>4. CASE v = w /\ worker'[w].pc = "finish_auto"
    BY <1>1, <1>5, <2>4, EffectRoutes DEF Kept
  <2> QED
    BY <2>1, <2>2, <2>3, <2>4
<1> QED
  BY <1>1, <1>4, <1>5

LEMMA RoutedInductive ==
    ASSUME Solo, PipelineInv, RoutedInv, [Next]_vars
    PROVE  RoutedInv'
<1> USE DEF PipelineInv
<1>1. CASE Upload /\ UNCHANGED <<workerVars, review>>
  <2>1. /\ UNCHANGED <<worker, agentRuns>>
        /\ \A d : RunsWith(d, "COMPLETED") # {} => d \in DOMAIN documents
    BY <1>1, DocumentCreated DEF workerVars, RunsWith, Inv, TypeOK, RowsRefer
  <2> QED
    BY <2>1, RoutedKept DEF RunsWith
<1>2. ASSUME NEW w \in Workers, Claim(w)
      PROVE  RoutedInv'
  <2>1. /\ OthersStay(w) /\ UNCHANGED documents
        /\ worker'[w].pc \notin {"mark_pending", "finish_review", "finish_auto"}
        /\ UNCHANGED agentRuns \/ RunOpened(w)
    <3>1. Polling.pc = "poll"
      BY DEF Polling
    <3> QED
      BY <1>2, <3>1, ClaimMoves DEF RunOpened
  <2>2. \A d : RunsWith(d, "COMPLETED")' \subseteq RunsWith(d, "COMPLETED")
    BY <2>1 DEF RunOpened, RunsWith
  <2> QED
    BY <2>1, <2>2, RoutedKept DEF OthersStay
<1>3. ASSUME NEW w \in Workers, Crash(w)
      PROVE  RoutedInv'
  <2>1. /\ OthersStay(w) /\ UNCHANGED <<documents, agentRuns>> /\ worker'[w].pc = "poll"
    BY <1>3, CrashStops DEF tables, Polling
  <2> QED
    BY <2>1, RoutedKept DEF OthersStay, RunsWith
<1>4. ASSUME NEW u \in Reviewers, SubmitStep(u), UNCHANGED workerVars
      PROVE  RoutedInv'
  <2>1. /\ UNCHANGED <<worker, agentRuns>> /\ DOMAIN documents' = DOMAIN documents
    BY <1>4, SubmitKeepsRuns, ReviewEffects
    DEF workerVars, ReviewEffect, SameRows, BatchInserted, TaskResolved, StatusWritten,
        DocumentSet
  <2> QED
    BY <2>1, RoutedKept DEF RunsWith
<1>5. CASE UNCHANGED vars
  BY <1>5, RoutedKept DEF vars, tables, workerVars, RunsWith
<1> QED
  BY <1>1, <1>2, <1>3, <1>4, <1>5, EffectKeepsRouted
  DEF Next, WorkerNext, WorkerStep, ReviewNext

\* With one worker, however many reviewers decide at once and wherever the
\* worker stops: one failing statement does not lose a document that was
\* routed to review.
THEOREM RoutedIsNotLostHolds ==
    ASSUME Solo
    PROVE  Spec => []RoutedIsNotLost
<1>1. ClaimsApart
  BY DEF ClaimsApart
<1>2. Init => RoutedInv
  BY DEF Init, DatabaseInit, RoutedInv
<1>3. PipelineInv /\ RoutedInv /\ [Next]_vars => RoutedInv'
  BY RoutedInductive
<1>4. RoutedInv => RoutedIsNotLost
  BY DEF RoutedInv, RoutedIsNotLost, Kept
<1> QED
  BY <1>1, <1>2, <1>3, <1>4, PipelineInvHolds, PTL DEF Spec

---------------------------------------------------------------------------
(* The iteration cap *)

LEMMA EffectUnderCap ==
    ASSUME Inv, NEW w \in Workers, RunEffect(w), worker[w].pc \in RunPc, UnderCap(w),
           IterationsAt(w)
    PROVE  UnderCap(w)'
<1>1. /\ worker[w].iterations \in Nat /\ MaxIterations \in Nat
      /\ worker[w].iterations + 0 = worker[w].iterations
  BY AgentRunnerAssumption DEF Inv, TypeOK, WorkerTypeOK, WorkerState
<1> SUFFICES ASSUME worker'[w].pc \in RunPc, worker'[w].pc \notin StepPc \cup FailingPc
             PROVE  worker'[w].iterations <= MaxIterations
  BY DEF UnderCap
<1>2. /\ worker[w].pc \notin FailingPc
      /\ worker'[w].iterations = worker[w].iterations
      /\ Passed(w)
  <2> USE DEF At, GoesToOne, Goes, Over, FailingPc, GivingUpPc
  <2>1. worker'[w] # Polling
    BY PollingCounts
  <2>2. CASE (ReadMove(w) \/ ErrorMove(w)) /\ Passed(w)
    BY <1>1, <2>1, <2>2 DEF ReadMove, ErrorMove
  <2>3. CASE FailMove(w)
    BY <2>3 DEF FailMove
  <2>4. CASE WriteMove(w) /\ Passed(w)
    BY <1>1, <2>1, <2>4 DEF WriteMove
  <2> QED
    BY <2>2, <2>3, <2>4 DEF RunEffect
<1> QED
  BY <1>1, <1>2 DEF UnderCap, Passed

\* A step of a run opens none, and moves none to another document.
LEMMA EffectLastRuns ==
    ASSUME Inv, NEW w \in Workers, RunEffect(w), worker[w].pc \in RunPc,
           NEW r \in DOMAIN agentRuns
    PROVE  /\ agentRuns'[r].document = agentRuns[r].document
           /\ LastRun(r) => LastRun(r)'
           /\ \/ agentRuns'[r] = agentRuns[r]
              \/ /\ r = worker[w].run
                 /\ \/ /\ worker[w].pc \in {"finish_auto", "finish_review"}
                       /\ RunFinished(w, "COMPLETED")
                    \/ /\ worker[w].pc = "fail_finish" /\ RunFinished(w, "FAILED")
                       /\ Goes(w, IF OverCap(w) THEN "fail_mark" ELSE "fail_count")
<1>1. /\ DOMAIN agentRuns' = DOMAIN agentRuns
      /\ \A q \in DOMAIN agentRuns : q # worker[w].run => agentRuns'[q] = agentRuns[q]
  BY EffectRuns
<1>2. \/ UNCHANGED agentRuns
      \/ /\ worker[w].pc \in {"finish_auto", "finish_review"}
         /\ RunFinished(w, "COMPLETED")
      \/ /\ worker[w].pc = "fail_finish" /\ RunFinished(w, "FAILED")
         /\ Goes(w, IF OverCap(w) THEN "fail_mark" ELSE "fail_count")
  BY DEF RunEffect, SameRows, WriteMove, At, StatusWritten, DocumentSet, TaskOpened,
     BatchInserted
<1>3. \A q \in DOMAIN agentRuns : agentRuns'[q].document = agentRuns[q].document
  BY <1>1, <1>2 DEF RunFinished
<1>4. \A e : RunsOf(e)' = RunsOf(e)
  BY <1>1, <1>3 DEF RunsOf
<1> QED
  BY <1>1, <1>2, <1>3, <1>4 DEF LastRun

LEMMA EffectKeepsCap ==
    ASSUME Solo, SafeCap, PipelineInv, CapInv, NEW w \in Workers,
           Process(w) \/ Route(w) \/ Failure(w)
    PROVE  CapInv'
<1> USE DEF PipelineInv
<1>1. /\ RunEffect(w) /\ worker[w].pc \in RunPc /\ \A v \in Workers : v = w
      /\ worker[w].document \in DOMAIN documents
      /\ worker[w].run \in DOMAIN agentRuns
      /\ agentRuns[worker[w].run].document = worker[w].document
      /\ worker[w].iterations \in Nat /\ MaxIterations \in Nat
  BY RunEffects, RunPcs, RunFacts, AgentRunnerAssumption
  DEF Solo, Inv, TypeOK, WorkerTypeOK, WorkerState, WorkerRowsExist
<1>2. DOMAIN agentRuns' = DOMAIN agentRuns /\ DOMAIN documents' = DOMAIN documents
  BY <1>1, EffectRuns, EffectDocuments
<1>3. \A v \in Workers : UnderCap(v)'
  BY <1>1, EffectUnderCap DEF CapInv, RunInv
<1>4. OpenRuns'
  <2> SUFFICES ASSUME NEW r \in DOMAIN agentRuns, agentRuns'[r].status = "RUNNING"
               PROVE  agentRuns'[r].iterations = 0 /\ LastRun(r)'
    BY <1>2 DEF OpenRuns
  <2>1. agentRuns'[r] = agentRuns[r] /\ (LastRun(r) => LastRun(r)')
    BY <1>1, EffectLastRuns DEF RunFinished
  <2> QED
    BY <2>1 DEF CapInv, OpenRuns
<1>5. ASSUME NEW d \in DOMAIN documents, NEW r \in DOMAIN agentRuns,
             agentRuns[r].document = d, Capped(r)'
      PROVE  /\ LastRun(r)'
             /\ agentRuns'[r].status = "FAILED"
             /\ \/ documents'[d].status # "UPLOADED"
                \/ /\ MaxIterations < 2
                   /\ worker'[w].document = d /\ worker'[w].pc = "fail_mark"
             /\ worker'[w].document = d /\ worker'[w].pc \in OwningPc =>
                   worker'[w].pc = "fail_mark"
  <2>1. CASE agentRuns'[r] = agentRuns[r]
    <3>1. Capped(r) /\ LastRun(r)' /\ agentRuns'[r].status = "FAILED"
      <4>1. Capped(r)
        BY <1>5, <2>1 DEF Capped
      <4> QED
        BY <1>1, <1>5, <2>1, <4>1, EffectLastRuns DEF CapInv, CapReached
    <3>2. /\ \/ documents[d].status # "UPLOADED"
             \/ /\ MaxIterations < 2
                /\ worker[w].document = d /\ worker[w].pc = "fail_mark"
          /\ worker[w].document = d /\ worker[w].pc \in OwningPc =>
                worker[w].pc = "fail_mark"
      BY <1>1, <1>5, <3>1 DEF CapInv, CapReached, At
    <3>3. CASE worker[w].document = d /\ worker[w].pc = "fail_mark"
      <4>1. /\ worker'[w].pc \notin OwningPc
            /\ \/ StatusWritten(d, "FAILED")
               \/ /\ documents'[d] = documents[d]
                  /\ databaseErrors < MaxDatabaseErrors
        BY <1>1, <3>3
        DEF RunEffect, ReadMove, FailMove, ErrorMove, WriteMove, At, Goes, Over, Polling,
            CanFail, StepPc, SameRows, OwningPc, OpenPc, PersistPc, GivingUpPc
      <4>2. documents'[d].status # "UPLOADED"
        <5>1. CASE StatusWritten(d, "FAILED")
          <6>1. documents[d] \in Document
            BY <1>5, ElementOfSeq DEF Inv, TypeOK, DatabaseTypeOK
          <6> QED
            BY <5>1, <6>1 DEF StatusWritten, DocumentSet, Document
        <5>2. CASE documents'[d] = documents[d] /\ databaseErrors < MaxDatabaseErrors
          <6>1. MaxDatabaseErrors # 0
            BY <5>2, NoErrorMove
          <6>2. ~(MaxIterations < 2)
            BY <1>1, <6>1 DEF SafeCap
          <6> QED
            BY <3>2, <5>2, <6>2
        <5> QED
          BY <4>1, <5>1, <5>2
      <4> QED
        BY <3>1, <4>1, <4>2
    <3>4. CASE ~(worker[w].document = d /\ worker[w].pc = "fail_mark")
      <4>1. /\ documents'[d] = documents[d]
            /\ worker[w].document = d => worker[w].pc \notin OwningPc
        BY <1>1, <1>5, <3>2, <3>4, EffectDocuments
      <4>2. worker'[w].document = d => worker'[w].pc \notin OwningPc
        BY <1>1, <4>1, EffectOwns
      <4> QED
        BY <3>1, <3>2, <3>4, <4>1, <4>2
    <3> QED
      BY <3>3, <3>4
  <2>2. CASE /\ r = worker[w].run
             /\ worker[w].pc \in {"finish_auto", "finish_review"}
             /\ RunFinished(w, "COMPLETED")
    <3>1. worker[w].iterations <= MaxIterations
      BY <1>1, <2>2 DEF CapInv, UnderCap, FailingPc, GivingUpPc, StepPc
    <3> QED
      BY <1>1, <1>5, <2>2, <3>1 DEF RunFinished, Capped
  <2>3. CASE /\ r = worker[w].run
             /\ worker[w].pc = "fail_finish" /\ RunFinished(w, "FAILED")
             /\ Goes(w, IF OverCap(w) THEN "fail_mark" ELSE "fail_count")
    <3>1. worker[w].iterations > MaxIterations /\ d = worker[w].document
      BY <1>1, <1>5, <2>3 DEF RunFinished, Capped
    <3>2. worker'[w].pc = "fail_mark" /\ worker'[w].document = d
      BY <2>3, <3>1 DEF Goes, OverCap
    <3>3. LastRun(r)'
      <4>1. agentRuns[r].status = "RUNNING"
        BY <1>1, <2>3 DEF RunInv, OwnRun, OpenPc
      <4> QED
        BY <1>1, <1>5, <4>1, EffectLastRuns DEF CapInv, OpenRuns
    <3>4. MaxIterations < 2 \/ documents'[d].status # "UPLOADED"
      BY <1>1, <2>3, <3>1
      DEF StageInv, Staged, Disturbed, OwningPc, OpenPc, RunFinished, Solo
    <3> QED
      BY <2>3, <3>2, <3>3, <3>4 DEF RunFinished
  <2> QED
    BY <1>1, <1>5, <2>1, <2>2, <2>3, EffectLastRuns
<1>6. ASSUME NEW d \in DOMAIN documents, NEW r \in DOMAIN agentRuns
      PROVE  CapReached(r, d)'
  <2>1. agentRuns'[r].document = d => agentRuns[r].document = d
    BY <1>1, EffectLastRuns
  <2> QED
    BY <1>1, <1>5, <2>1 DEF CapReached, At
<1> QED
  BY <1>2, <1>3, <1>4, <1>6 DEF CapInv

\* The document a worker locks, or opens a run of, has no run past the cap.
LEMMA ClaimKeepsCap ==
    ASSUME Solo, PipelineInv, CapInv, NEW w \in Workers, Claim(w)
    PROVE  CapInv'
<1> USE DEF PipelineInv
<1>1. /\ \A v \in Workers : v = w
      /\ worker[w].pc \in {"poll", "lock", "open_run"} /\ UNCHANGED documents
      /\ \/ worker'[w] = Polling /\ UNCHANGED agentRuns
         \/ worker'[w].pc = "lock" /\ UNCHANGED agentRuns
         \/ /\ worker[w].pc = "lock" /\ worker'[w].pc = "open_run"
            /\ worker'[w].document \in Earliest(Lockable(w)) /\ UNCHANGED agentRuns
         \/ worker[w].pc = "open_run" /\ RunOpened(w)
      /\ MaxIterations \in Nat
  BY ClaimMoves, AgentRunnerAssumption DEF Solo
<1>2. ASSUME NEW d \in DOMAIN documents, NEW r \in DOMAIN agentRuns,
             agentRuns[r].document = d, Capped(r)
      PROVE  /\ LastRun(r) /\ agentRuns[r].status = "FAILED"
             /\ documents[d].status # "UPLOADED"
             /\ worker[w].document = d => worker[w].pc # "open_run"
  BY <1>1, <1>2 DEF CapInv, CapReached, At, OwningPc
<1>3. CASE UNCHANGED agentRuns
  <2>1. OpenRuns' /\ \A r : LastRun(r)' <=> LastRun(r)
    BY <1>3 DEF CapInv, OpenRuns, LastRun, RunsOf
  <2>2. \A v \in Workers : UnderCap(v)'
    BY <1>1, <1>3, PollingCounts DEF UnderCap, RunOpened, RunPc, StepPc, PersistPc, ClosePc
  <2>3. ASSUME NEW d \in DOMAIN documents, NEW r \in DOMAIN agentRuns,
               agentRuns[r].document = d, Capped(r),
               worker'[w].document = d, worker'[w].pc \in OwningPc
        PROVE  FALSE
    <3>1. worker'[w].pc # "lock" /\ worker'[w] # Polling
      BY <2>3, PollingCounts DEF OwningPc, OpenPc, StepPc, PersistPc, GivingUpPc
    <3>2. \/ worker'[w].document \in Lockable(w)
          \/ worker[w].pc = "open_run" /\ worker[w].document = d
      BY <1>1, <2>3, <3>1 DEF Earliest, RunOpened
    <3> QED
      BY <1>2, <2>3, <3>2 DEF Lockable
  <2>4. ASSUME NEW d \in DOMAIN documents, NEW r \in DOMAIN agentRuns
        PROVE  CapReached(r, d)'
    BY <1>1, <1>2, <1>3, <2>1, <2>3 DEF CapReached, Capped
  <2> QED
    BY <1>1, <1>3, <2>1, <2>2, <2>4 DEF CapInv
<1>4. CASE worker[w].pc = "open_run" /\ RunOpened(w)
  <2> PICK n, c : n = worker'[w].run /\ c = worker[w].document
    OBVIOUS
  <2>1. /\ n \notin DOMAIN agentRuns /\ DOMAIN agentRuns' = DOMAIN agentRuns \cup {n}
        /\ \A r \in DOMAIN agentRuns : agentRuns'[r] = agentRuns[r]
        /\ agentRuns'[n].document = c /\ agentRuns'[n].iterations = 0
        /\ worker'[w].pc = "load" /\ worker'[w].document = c
        /\ worker'[w].iterations = 0
    BY <1>4 DEF RunOpened, RunInv, IterationsAt
  <2>2. \A e : e # c => RunsOf(e)' = RunsOf(e)
    BY <2>1 DEF RunsOf
  <2>3. \A r \in DOMAIN agentRuns : agentRuns[r].document # c => (LastRun(r)' <=> LastRun(r))
    BY <2>1, <2>2 DEF LastRun
  <2>4. LastRun(n)'
    <3>1. n \in Nat
      BY <1>4 DEF RunOpened
    <3>3. \A s \in DOMAIN agentRuns' : s <= n
      BY <1>4, <2>1, <3>1 DEF RunOpened
    <3> QED
      BY <3>3 DEF LastRun, RunsOf
  <2>5. OpenRuns'
    <3> SUFFICES ASSUME NEW r \in DOMAIN agentRuns', agentRuns'[r].status = "RUNNING"
                 PROVE  agentRuns'[r].iterations = 0 /\ LastRun(r)'
      BY DEF OpenRuns
    <3>1. CASE r \in DOMAIN agentRuns
      <4>1. agentRuns[r].document # c
        BY <1>4, <2>1, <3>1 DEF ClaimInv, Unclaimed, RunsWith
      <4> QED
        BY <2>1, <2>3, <3>1, <4>1 DEF CapInv, OpenRuns
    <3> QED
      BY <2>1, <2>4, <3>1
  <2>6. \A v \in Workers : UnderCap(v)'
    BY <1>1, <2>1 DEF UnderCap
  <2>7. ASSUME NEW d \in DOMAIN documents, NEW r \in DOMAIN agentRuns',
               agentRuns'[r].document = d, Capped(r)'
        PROVE  /\ LastRun(r)' /\ agentRuns'[r].status = "FAILED"
               /\ documents'[d].status # "UPLOADED" /\ d # c
    <3>1. r \in DOMAIN agentRuns /\ Capped(r) /\ agentRuns[r].document = d
      BY <1>1, <2>1, <2>7 DEF Capped
    <3>2. d # c
      BY <1>2, <1>4, <3>1
    <3> QED
      BY <1>1, <1>2, <2>1, <2>3, <3>1, <3>2
  <2>8. ASSUME NEW d \in DOMAIN documents, NEW r \in DOMAIN agentRuns'
        PROVE  CapReached(r, d)'
    BY <1>1, <2>1, <2>7 DEF CapReached
  <2> QED
    BY <1>1, <2>5, <2>6, <2>8 DEF CapInv
<1> QED
  BY <1>1, <1>3, <1>4

LEMMA CapInductive ==
    ASSUME Solo, SafeCap, PipelineInv, CapInv, [Next]_vars
    PROVE  CapInv'
<1> USE DEF PipelineInv
<1>1. ASSUME UNCHANGED agentRuns,
             \A d \in DOMAIN documents' :
                 \/ d \in DOMAIN documents /\ documents'[d] = documents[d]
                 \/ documents'[d].status = "REVIEWED"
                 \/ RunsOf(d) = {},
             \A w \in Workers :
                 \/ worker'[w] = worker[w]
                 \/ worker'[w] = Polling /\ (MaxIterations < 2 => worker[w].pc # "fail_mark")
      PROVE  CapInv'
  <2>1. OpenRuns' /\ \A r : (LastRun(r)' <=> LastRun(r)) /\ (Capped(r)' <=> Capped(r))
    BY <1>1 DEF CapInv, OpenRuns, LastRun, RunsOf, Capped
  <2>2. \A w \in Workers : UnderCap(w)'
    BY <1>1, PollingCounts DEF CapInv, UnderCap
  <2>3. ASSUME NEW d \in DOMAIN documents', NEW r \in DOMAIN agentRuns PROVE CapReached(r, d)'
    <3>1. SUFFICES ASSUME agentRuns[r].document = d, Capped(r) PROVE CapReached(r, d)'
      BY <1>1, <2>1 DEF CapReached
    <3>2. r \in RunsOf(d) /\ d \in DOMAIN documents
      BY <3>1 DEF RunsOf, Inv, TypeOK, RowsRefer
    <3>3. CapReached(r, d)
      BY <3>2 DEF CapInv
    <3>4. /\ LastRun(r) /\ agentRuns[r].status = "FAILED"
          /\ \/ documents[d].status # "UPLOADED"
             \/ /\ MaxIterations < 2
                /\ \E w \in Workers : worker[w].document = d /\ At(w, "fail_mark")
          /\ \A w \in Workers :
                worker[w].document = d /\ worker[w].pc \in OwningPc => At(w, "fail_mark")
      BY <3>1, <3>3 DEF CapReached
    <3>5. \A w \in Workers :
             worker'[w].document = d /\ worker'[w].pc \in OwningPc => worker'[w].pc = "fail_mark"
      BY <1>1, <3>4, PollingCounts DEF At
    <3>6. \/ documents'[d].status # "UPLOADED"
          \/ /\ MaxIterations < 2
             /\ \E w \in Workers : worker'[w].document = d /\ worker'[w].pc = "fail_mark"
      BY <1>1, <3>2, <3>4 DEF At
    <3> QED
      BY <1>1, <2>1, <3>4, <3>5, <3>6 DEF CapReached, At
  <2> QED
    BY <1>1, <2>1, <2>2, <2>3 DEF CapInv
<1>2. CASE Upload /\ UNCHANGED workerVars
  <2>1. \A d \in DOMAIN documents' :
           \/ d \in DOMAIN documents /\ documents'[d] = documents[d]
           \/ RunsOf(d) = {}
    BY <1>2, DocumentCreated DEF RunsOf, Inv, TypeOK, RowsRefer
  <2> QED
    BY <1>1, <1>2, <2>1, DocumentCreated DEF workerVars
<1>3. ASSUME NEW w \in Workers, WorkerStep(w) \/ Crash(w)
      PROVE  CapInv'
  <2>1. CASE Crash(w)
    <3>1. MaxIterations >= 2
      BY <2>1, CrashStops DEF SafeCap
    <3>2. ~(MaxIterations < 2)
      BY <3>1, AgentRunnerAssumption
    <3> QED
      BY <1>1, <2>1, <3>2, CrashStops DEF OthersStay, tables
  <2> QED
    BY <1>3, <2>1, ClaimKeepsCap, EffectKeepsCap DEF WorkerStep
<1>4. ASSUME NEW u \in Reviewers, SubmitStep(u), UNCHANGED workerVars
      PROVE  CapInv'
  <2>1. \/ UNCHANGED documents
        \/ /\ review[u].document \in DOMAIN documents
           /\ StatusWritten(review[u].document, "REVIEWED")
    BY <1>4, ReviewEffects
    DEF ReviewEffect, SameRows, BatchInserted, TaskResolved, Inv, TypeOK, ReviewRowsExist,
        Reviewing
  <2>2. \A e \in DOMAIN documents : documents[e] \in Document
    BY ElementOfSeq DEF Inv, TypeOK, DatabaseTypeOK
  <2>3. \A d \in DOMAIN documents' :
           \/ d \in DOMAIN documents /\ documents'[d] = documents[d]
           \/ documents'[d].status = "REVIEWED"
    BY <2>1, <2>2 DEF StatusWritten, DocumentSet, Document
  <2> QED
    BY <1>1, <1>4, <2>3, SubmitKeepsRuns DEF workerVars
<1>5. CASE UNCHANGED vars
  BY <1>1, <1>5 DEF vars, tables, workerVars
<1> QED
  BY <1>2, <1>3, <1>4, <1>5 DEF Next, WorkerNext, ReviewNext

\* With one worker a run past the iteration cap is the last of its document,
\* wherever statements fail and the worker stops, as long as a run that gets
\* so far has stored its classification (MaxIterations >= 2).
THEOREM NeverRetriedAfterCapHolds ==
    ASSUME Solo, SafeCap
    PROVE  Spec => []NeverRetriedAfterCap
<1>1. ClaimsApart
  BY DEF ClaimsApart
<1>2. Init => CapInv
  BY DEF Init, DatabaseInit, WorkerInit, Polling, CapInv, OpenRuns, UnderCap, RunPc, StepPc,
         PersistPc, ClosePc
<1>3. PipelineInv /\ CapInv /\ [Next]_vars => CapInv'
  BY CapInductive
<1>4. PipelineInv /\ CapInv => NeverRetriedAfterCap
  <2> SUFFICES ASSUME PipelineInv, CapInv, NEW r \in DOMAIN agentRuns, NEW s \in DOMAIN agentRuns,
                      agentRuns[r].document = agentRuns[s].document, Capped(r)
               PROVE  s <= r
    BY DEF NeverRetriedAfterCap, Capped
  <2> PICK d : d = agentRuns[r].document
    OBVIOUS
  <2>1. d \in DOMAIN documents /\ s \in RunsOf(d)
    BY DEF PipelineInv, Inv, TypeOK, RowsRefer, RunsOf
  <2> QED
    BY <2>1 DEF CapInv, CapReached, LastRun
<1> QED
  BY <1>1, <1>2, <1>3, <1>4, PipelineInvHolds, PTL DEF Spec
---------------------------------------------------------------------------
(* Near-duplicates *)

\* A step of a run never goes back to the claim, and only a run with a key
\* goes where one is needed.
LEMMA EffectKeyed ==
    ASSUME Inv, NEW w \in Workers, RunEffect(w), worker[w].pc \in RunPc,
           worker[w].pc \in KeyedPc => worker[w].key # NoKey
    PROVE  /\ worker'[w].pc # "lock"
           /\ worker'[w].pc \in KeyedPc => worker'[w].key # NoKey
<1> USE DEF At, GoesToOne, Goes, Over, Polling, KeyedPc, StepPc
<1>1. CASE ReadMove(w)
  BY <1>1 DEF ReadMove
<1>2. CASE FailMove(w)
  BY <1>2 DEF FailMove
<1>3. CASE ErrorMove(w)
  BY <1>3 DEF ErrorMove
<1>4. CASE WriteMove(w)
  BY <1>4 DEF WriteMove
<1> QED
  BY <1>1, <1>2, <1>3, <1>4 DEF RunEffect

\* Where a run comes from that passed the check for near-duplicates, or
\* whose document is processed
LEMMA EffectClears ==
    ASSUME Inv, MaxDatabaseErrors = 0, NEW w \in Workers, RunEffect(w),
           worker[w].pc \in RunPc, NEW d, d = worker[w].document,
           worker[w].pc \in OwningPc => documents[d].status \in Active,
           \/ documents'[d].status = "AUTO_PROCESSED"
           \/ worker'[w].pc \in {"calculate_confidence", "finalize"}
    PROVE  /\ documents'[d].key = documents[d].key
           /\ \/ documents[d].status = "AUTO_PROCESSED"
              \/ worker[w].pc \in {"calculate_confidence", "finalize"}
              \/ At(w, "find_exact") /\ worker[w].key = NoKey
              \/ At(w, "find_near") /\ NearMatch(w) = {}
<1> USE DEF At, GoesToOne, Goes, Over, Polling, StepPc
<1>1. d \in DOMAIN documents /\ documents[d] \in Document
  BY RunFacts, ElementOfSeq DEF TablesOK
<1>2. CASE SameRows /\ ReadMove(w)
  BY <1>2 DEF ReadMove, SameRows
<1>3. CASE SameRows /\ FailMove(w)
  BY <1>3 DEF FailMove, SameRows
<1>4. CASE WriteMove(w)
  <2> HIDE DEF Goes, GoesToOne, Over, Polling, StepPc
  <2>1. ASSUME NEW s, StatusWritten(d, s)
        PROVE  documents'[d].status = s /\ documents'[d].key = documents[d].key
    BY <1>1, <2>1 DEF StatusWritten, DocumentSet, Document
  <2>2. ASSUME DocumentSet(d, [documents[d] EXCEPT !.duplicateOf = worker[w].duplicateOf])
        PROVE  /\ documents'[d].status = documents[d].status
               /\ documents'[d].key = documents[d].key
    BY <1>1, <2>2 DEF DocumentSet, Document
  <2>3. CASE UNCHANGED documents
    BY <1>4, <2>3, GoesWhere DEF WriteMove
  <2>4. CASE At(w, "set_key")
    <3>1. /\ documents'[d].status = documents[d].status
          /\ worker'[w].pc = "validate"
      BY <1>1, <1>4, <2>4, GoesWhere DEF WriteMove, DocumentSet, Document
    <3>2. documents[d].status # "AUTO_PROCESSED"
      BY <2>4 DEF OwningPc, OpenPc, PersistPc, Active
    <3> QED
      BY <3>1, <3>2
  <2>5. CASE worker[w].pc \in {"insert_fields", "finish_auto", "create_task", "finish_review",
                               "fail_finish"}
    <3>1. UNCHANGED documents
      BY <1>4, <2>5 DEF WriteMove, BatchInserted, TaskOpened, RunFinished
    <3> QED
      BY <2>3, <3>1
  <2>6. CASE worker[w].pc \in {"mark_classified", "mark_extracted", "mark_validated",
                               "mark_duplicate", "finalize", "mark_pending", "fail_requeue",
                               "fail_mark"}
    BY <1>4, <2>1, <2>2, <2>6, GoesWhere DEF WriteMove
  <2> QED
    BY <1>4, <2>4, <2>5, <2>6 DEF WriteMove
<1> QED
  BY <1>2, <1>3, <1>4, ErrorsNever

\* A document nobody owns is left alone, but for a reviewer's decision.
LEMMA UnownedStays ==
    ASSUME Solo, PipelineInv, ClosingInv, NEW w \in Workers, RunEffect(w),
           worker[w].pc \in RunPc, NEW e \in DOMAIN documents, ~Owned(e)
    PROVE  documents'[e] = documents[e] /\ (Dead(e) => Dead(e)')
<1> USE DEF PipelineInv
<1>1. worker[w].document # e \/ worker[w].pc \notin OwningPc
  BY DEF Owned
<1>2. documents'[e] = documents[e]
  BY <1>1, EffectDocuments
<1>3. ASSUME documents[e].status = "UPLOADED", ~Unclaimed(e) PROVE ~Unclaimed(e)'
  <2>1. PICK r \in RunsWith(e, "RUNNING") : TRUE
    BY <1>3 DEF Unclaimed
  <2>2. r \in DOMAIN agentRuns /\ agentRuns[r].document = e
    BY <2>1 DEF RunsWith
  <2>3. CASE agentRuns'[r] = agentRuns[r]
    <3>1. r \in RunsWith(e, "RUNNING")'
      BY <2>1, <2>3, EffectRuns DEF RunsWith
    <3> QED
      BY <3>1 DEF Unclaimed
  <2>4. CASE /\ r = worker[w].run
             /\ worker[w].pc \in {"finish_auto", "finish_review", "fail_finish"}
    <3>1. worker[w].document = e
      BY <2>2, <2>4 DEF Inv, TypeOK, WorkerRowsExist
    <3>2. worker[w].pc \in {"finish_auto", "finish_review"}
      BY <1>1, <2>4, <3>1 DEF OwningPc, OpenPc
    <3>3. documents[e].status \notin Active
      BY <3>1, <3>2 DEF ClosingInv, ClosedOutside, Disturbed
    <3> QED
      BY <1>3, <3>3 DEF Active
  <2> QED
    BY <2>2, <2>3, <2>4, EffectLastRuns
<1> QED
  BY <1>2, <1>3 DEF Dead

\* A step that leaves the worker and its runs alone
LEMMA TablesKeepOrder ==
    ASSUME PipelineInv, FifoInv, UNCHANGED <<worker, agentRuns>>,
           \A d \in DOMAIN documents :
               /\ d \in DOMAIN documents' /\ documents'[d].key = documents[d].key
               /\ \/ documents'[d].status = documents[d].status
                  \/ documents[d].status # "UPLOADED" /\ documents'[d].status = "REVIEWED",
           \A n \in DOMAIN documents' \ DOMAIN documents :
               /\ documents'[n].status = "UPLOADED" /\ n \in Nat
               /\ \A d \in DOMAIN documents : d < n
    PROVE  FifoInv'
<1> USE DEF PipelineInv
<1>1. \A e \in DOMAIN documents : (Dead(e)' <=> Dead(e)) /\ (Owned(e)' <=> Owned(e))
  BY DEF Dead, Owned, Unclaimed, RunsWith
<1>2. DOMAIN documents \subseteq Nat /\ DOMAIN documents' \subseteq Nat
  <2>1. DOMAIN documents = 1..Len(documents)
    BY LenProperties DEF Inv, TypeOK, DatabaseTypeOK
  <2> QED
    BY <2>1
<1>3. ASSUME NEW d \in DOMAIN documents PROVE Older(d)' = Older(d)
  BY <1>2 DEF Older
<1>4. ASSUME NEW d \in DOMAIN documents PROVE TakenInOrder(d)' /\ ClearedIsFirst(d)'
  <2>1. RunsOf(d)' = RunsOf(d) /\ Older(d)' = Older(d) /\ Older(d) \subseteq DOMAIN documents
    BY <1>3 DEF RunsOf, Older
  <2>2. TakenInOrder(d)'
    BY <1>1, <2>1 DEF FifoInv, TakenInOrder
  <2>3. Cleared(d)' => Cleared(d)
    BY DEF Cleared
  <2> QED
    BY <2>1, <2>2, <2>3 DEF FifoInv, ClearedIsFirst
<1>5. ASSUME NEW n \in DOMAIN documents', n \notin DOMAIN documents
      PROVE  TakenInOrder(n)' /\ ClearedIsFirst(n)'
  <2>1. RunsOf(n)' = {}
    BY <1>5 DEF RunsOf, Inv, TypeOK, RowsRefer
  <2>2. ~Cleared(n)'
    BY <1>5 DEF Cleared, Inv, TypeOK, WorkerRowsExist, RunPc, StepPc
  <2> QED
    BY <1>5, <2>1, <2>2 DEF TakenInOrder, ClearedIsFirst
<1>6. ASSUME NEW w \in Workers PROVE NextInLine(w)'
  <2>1. worker[w].pc \in OwningPc => worker[w].document \in DOMAIN documents
    BY DEF Inv, TypeOK, WorkerRowsExist, OwningPc, OpenPc, GivingUpPc, RunPc, ClosePc
  <2>2. worker[w].pc \in OwningPc => \A e \in Older(worker[w].document)' : Dead(e)'
    BY <1>1, <1>3, <2>1 DEF FifoInv, NextInLine, Older
  <2>3. worker[w].snapshot \subseteq DOMAIN documents
    BY DEF Inv, TypeOK, WorkerRowsExist
  <2> QED
    BY <1>1, <2>2, <2>3 DEF FifoInv, NextInLine
<1> QED
  BY <1>4, <1>5, <1>6 DEF FifoInv

\* A worker that stops, gives up its claim or takes a snapshot
LEMMA UnownedKeepsOrder ==
    ASSUME PipelineInv, FifoInv, NEW w \in Workers, OthersStay(w),
           UNCHANGED <<documents, agentRuns>>,
           worker'[w].pc \notin OwningPc,
           worker'[w].pc = "lock" => worker'[w].snapshot = Claimable
    PROVE  FifoInv'
<1>1. \A e : (Dead(e)' <=> Dead(e)) /\ Older(e)' = Older(e) /\ RunsOf(e)' = RunsOf(e)
  BY DEF Dead, Unclaimed, RunsWith, Older, RunsOf
<1>2. \A e : Owned(e)' => Owned(e)
  BY DEF Owned, OthersStay
<1>3. \A e : Cleared(e)' => Cleared(e)
  BY DEF Cleared, OthersStay, OwningPc, OpenPc, StepPc
<1>4. ASSUME NEW d \in DOMAIN documents PROVE TakenInOrder(d)' /\ ClearedIsFirst(d)'
  <2>1. TakenInOrder(d)'
    BY <1>1, <1>2 DEF FifoInv, TakenInOrder
  <2>2. ClearedIsFirst(d)'
    BY <1>1, <1>3 DEF FifoInv, ClearedIsFirst
  <2> QED
    BY <2>1, <2>2
<1>5. ASSUME NEW v \in Workers PROVE NextInLine(v)'
  <2>1. CASE v # w
    <3>1. worker'[v] = worker[v]
      BY <2>1 DEF OthersStay
    <3> QED
      BY <1>1, <3>1 DEF FifoInv, NextInLine
  <2>2. CASE v = w
    <3>1. worker'[w].pc \notin KeyedPc
      BY DEF KeyedPc, OwningPc, OpenPc, PersistPc, StepPc
    <3>2. ASSUME worker'[w].pc = "lock"
          PROVE  /\ \A e \in DOMAIN documents \ Claimable : Dead(e)
                 /\ \A s \in Claimable : documents[s].status = "UPLOADED"
      BY DEF Claimable, Dead, Unclaimed
    <3> QED
      BY <1>1, <2>2, <3>1, <3>2 DEF NextInLine
  <2> QED
    BY <2>1, <2>2
<1> QED
  BY <1>4, <1>5 DEF FifoInv

\* The lock is given to the oldest document there was to claim.
LEMMA LockKeepsOrder ==
    ASSUME Solo, PipelineInv, FifoInv, NEW w \in Workers, OthersStay(w),
           worker[w].pc = "lock", worker'[w].pc = "open_run",
           worker'[w].document \in Earliest(Lockable(w)),
           UNCHANGED <<documents, agentRuns>>
    PROVE  FifoInv'
<1> USE DEF PipelineInv
<1> PICK c : c = worker'[w].document
  OBVIOUS
<1>1. /\ c \in worker[w].snapshot /\ c \in DOMAIN documents
      /\ documents[c].status = "UPLOADED" /\ Unclaimed(c)
      /\ \A s \in Lockable(w) : c <= s
  BY DEF Earliest, Lockable, ClaimInv, Inv, TypeOK, WorkerRowsExist
<1>2. \A v \in Workers : v = w
  BY DEF Solo
<1>3. Lockable(w) = worker[w].snapshot
  BY <1>2 DEF Lockable, LockedByOthers, FifoInv, NextInLine
<1>4. DOMAIN documents \subseteq Nat
  <2>1. DOMAIN documents = 1..Len(documents)
    BY LenProperties DEF Inv, TypeOK, DatabaseTypeOK
  <2> QED
    BY <2>1
<1>5. \A e \in Older(c) : Dead(e)
  <2> SUFFICES ASSUME NEW e \in Older(c) PROVE Dead(e)
    OBVIOUS
  <2>1. e \in DOMAIN documents /\ e < c /\ e \in Nat /\ c \in Nat
    BY <1>1, <1>4 DEF Older
  <2>2. e \notin worker[w].snapshot
    BY <1>1, <1>3, <2>1
  <2>3. Dead(e) \/ c < e
    BY <1>1, <2>1, <2>2 DEF FifoInv, NextInLine
  <2> QED
    BY <2>1, <2>3
<1>6. \A e : (Dead(e)' <=> Dead(e)) /\ Older(e)' = Older(e) /\ RunsOf(e)' = RunsOf(e)
  BY DEF Dead, Unclaimed, RunsWith, Older, RunsOf
<1>7. \A e : Owned(e)' <=> e = c
  BY <1>2 DEF Owned, OwningPc
<1>8. \A e : Cleared(e)' => Cleared(e)
  BY <1>2 DEF Cleared
<1>9. ~Dead(c)
  BY <1>1 DEF Dead
<1>10. ASSUME NEW d \in DOMAIN documents PROVE TakenInOrder(d)' /\ ClearedIsFirst(d)'
  <2>1. TakenInOrder(d)'
    BY <1>6, <1>7, <1>9 DEF FifoInv, TakenInOrder
  <2>2. ClearedIsFirst(d)'
    BY <1>6, <1>8 DEF FifoInv, ClearedIsFirst
  <2> QED
    BY <2>1, <2>2
<1>11. NextInLine(w)'
  BY <1>5, <1>6 DEF NextInLine, KeyedPc
<1> QED
  BY <1>2, <1>10, <1>11 DEF FifoInv

LEMMA OpenKeepsOrder ==
    ASSUME Solo, PipelineInv, FifoInv, NEW w \in Workers, OthersStay(w),
           worker[w].pc = "open_run", RunOpened(w), UNCHANGED documents
    PROVE  FifoInv'
<1> PICK c : c = worker[w].document
  OBVIOUS
<1>1. /\ \A v \in Workers : v = w
      /\ worker'[w].pc = "load" /\ worker'[w].document = c
      /\ worker[w].pc \in OwningPc /\ worker'[w].pc \in OwningPc
  BY DEF Solo, RunOpened, OwningPc, OpenPc
<1>2. \A e : Older(e)' = Older(e) /\ (Owned(e)' <=> Owned(e)) /\ (Owned(e) <=> e = c)
  BY <1>1 DEF Older, Owned
<1>3. \A e : /\ e # c => RunsOf(e)' = RunsOf(e)
             /\ RunsOf(e) \subseteq RunsOf(e)'
             /\ Dead(e) => Dead(e)'
  BY DEF RunsOf, RunOpened, Dead, Unclaimed, RunsWith
<1>4. \A e : Cleared(e)' => Cleared(e)
  BY <1>1 DEF Cleared
<1>5. \A e \in Older(c) : Dead(e) /\ e # c
  <2>1. \A e \in DOMAIN documents : e \in Nat
    <3>1. DOMAIN documents = 1..Len(documents)
      BY LenProperties DEF PipelineInv, Inv, TypeOK, DatabaseTypeOK
    <3> QED
      BY <3>1
  <2> QED
    BY <1>1, <2>1 DEF FifoInv, NextInLine, Older
<1>6. ASSUME NEW d \in DOMAIN documents PROVE TakenInOrder(d)' /\ ClearedIsFirst(d)'
  <2>1. CASE d # c
    <3>1. RunsOf(d) # {} => \A e \in Older(d) : Dead(e)' /\ ~Owned(e)'
      BY <1>2, <1>3 DEF FifoInv, TakenInOrder
    <3> QED
      BY <1>2, <1>3, <1>4, <2>1, <3>1 DEF FifoInv, TakenInOrder, ClearedIsFirst
  <2>2. CASE d = c
    <3>1. \A e \in Older(c) : Dead(e)' /\ ~Owned(e)'
      BY <1>2, <1>3, <1>5
    <3>2. TakenInOrder(d)'
      BY <1>2, <1>3, <2>2, <3>1 DEF FifoInv, TakenInOrder
    <3> QED
      BY <1>2, <1>4, <3>2 DEF FifoInv, ClearedIsFirst
  <2> QED
    BY <2>1, <2>2
<1>7. NextInLine(w)'
  BY <1>1, <1>2, <1>3, <1>5 DEF NextInLine, KeyedPc
<1> QED
  BY <1>1, <1>6, <1>7 DEF FifoInv

\* The query for the key of a document found no other, so it found this one.
LEMMA NoNearMatch ==
    ASSUME Inv, NEW w \in Workers, NEW d \in DOMAIN documents, d = worker[w].document,
           documents[d].key = worker[w].key, NearMatch(w) = {}, NEW e \in Older(d)
    PROVE  documents[e].key # documents[d].key
<1> DEFINE S == WithKeyFieldsHash(worker[w].key)
<1>1. S \subseteq Nat /\ d \in S
  <2>1. DOMAIN documents = 1..Len(documents)
    BY LenProperties DEF Inv, TypeOK, DatabaseTypeOK
  <2> QED
    BY <2>1 DEF WithKeyFieldsHash
<1>2. Earliest(S) # {}
  BY <1>1, EarliestExists
<1>3. Earliest(S) \subseteq {d}
  BY DEF NearMatch, FindByKeyFieldsHash
<1>4. \A s \in S : d <= s
  BY <1>2, <1>3 DEF Earliest
<1>5. e \in DOMAIN documents /\ ~(d <= e)
  <2>1. e \in DOMAIN documents /\ e < d /\ e \in Nat /\ d \in Nat
    <3>1. DOMAIN documents = 1..Len(documents)
      BY LenProperties DEF Inv, TypeOK, DatabaseTypeOK
    <3> QED
      BY <3>1 DEF Older
  <2> QED
    BY <2>1
<1> QED
  BY <1>4, <1>5 DEF WithKeyFieldsHash

LEMMA EffectKeepsOrder ==
    ASSUME Solo, PipelineInv, ClosingInv, AllDuplicatesInv, FifoInv, MaxDatabaseErrors = 0,
           NEW w \in Workers, Process(w) \/ Route(w) \/ Failure(w)
    PROVE  FifoInv'
<1> USE DEF PipelineInv
<1> PICK c : c = worker[w].document
  OBVIOUS
<1>1. /\ RunEffect(w) /\ worker[w].pc \in RunPc /\ \A v \in Workers : v = w
      /\ c \in DOMAIN documents /\ RunsOf(c) # {}
      /\ worker'[w] = Polling \/ worker'[w].document = c
      /\ worker[w].pc \in OwningPc => documents[c].status \in Active
  <2>1. RunEffect(w) /\ worker[w].pc \in RunPc /\ \A v \in Workers : v = w
    BY RunEffects, RunPcs DEF Solo
  <2>2. c \in DOMAIN documents /\ worker[w].run \in RunsOf(c)
    BY <2>1 DEF Inv, TypeOK, WorkerRowsExist, RunsOf
  <2>3. worker[w].pc \in OwningPc => documents[c].status \in Active
    BY OwnersApart DEF Disturbed
  <2> QED
    BY <2>1, <2>2, <2>3, EffectMoves
<1>2. DOMAIN documents' = DOMAIN documents /\ \A e : Older(e)' = Older(e)
  BY <1>1, EffectDocuments DEF Older
<1>3. \A e : RunsOf(e)' = RunsOf(e)
  BY <1>1, EffectRuns, EffectLastRuns DEF RunsOf
<1>4. \A e : Owned(e)' => Owned(e)
  BY <1>1, EffectOwns DEF Owned
<1>5. \A e : Owned(e) => e = c
  BY <1>1 DEF Owned
<1>6. \A e \in DOMAIN documents :
        ~Owned(e) => documents'[e] = documents[e] /\ (Dead(e) => Dead(e)')
  BY <1>1, UnownedStays
<1>7. \A d : d \notin Older(d) /\ Older(d) \subseteq DOMAIN documents
  <2>1. DOMAIN documents = 1..Len(documents)
    BY LenProperties DEF Inv, TypeOK, DatabaseTypeOK
  <2> QED
    BY <2>1 DEF Older
<1>8. ASSUME NEW d \in DOMAIN documents PROVE TakenInOrder(d)'
  <2>1. RunsOf(d) # {} => \A e \in Older(d) : Dead(e)' /\ ~Owned(e)'
    BY <1>4, <1>6, <1>7 DEF FifoInv, TakenInOrder
  <2>2. documents'[d].status # "UPLOADED" => RunsOf(d) # {}
    BY <1>1, <1>5, <1>6 DEF FifoInv, TakenInOrder
  <2> QED
    BY <1>2, <1>3, <2>1, <2>2 DEF TakenInOrder
<1>9. ASSUME NEW d \in DOMAIN documents, d # c PROVE ClearedIsFirst(d)'
  <2>1. documents'[d] = documents[d]
    BY <1>5, <1>6, <1>9
  <2>2. SUFFICES ASSUME Cleared(d)', documents[d].key # NoKey, NEW e \in Older(d)
                 PROVE  documents'[e].key # documents[d].key
    BY <1>2, <2>1 DEF ClearedIsFirst
  <2>3. documents[d].status = "AUTO_PROCESSED"
    BY <1>1, <1>9, <2>1, <2>2 DEF Cleared, Polling
  <2>4. ~Owned(e)
    BY <2>3 DEF FifoInv, TakenInOrder
  <2> QED
    BY <1>6, <1>7, <2>2, <2>3, <2>4 DEF FifoInv, ClearedIsFirst, Cleared
<1>10. ClearedIsFirst(c)'
  <2>1. SUFFICES ASSUME Cleared(c)', documents'[c].key # NoKey, NEW e \in Older(c)
                 PROVE  documents'[e].key # documents'[c].key
    BY <1>2 DEF ClearedIsFirst
  <2>2. \/ documents'[c].status = "AUTO_PROCESSED"
        \/ worker'[w].pc \in {"calculate_confidence", "finalize"}
    BY <1>1, <2>1 DEF Cleared
  <2>3. /\ documents'[c].key = documents[c].key
        /\ \/ documents[c].status = "AUTO_PROCESSED"
           \/ worker[w].pc \in {"calculate_confidence", "finalize"}
           \/ At(w, "find_exact") /\ worker[w].key = NoKey
           \/ At(w, "find_near") /\ NearMatch(w) = {}
    BY <1>1, <2>2, EffectClears
  <2>4. ~(At(w, "find_exact") /\ worker[w].key = NoKey)
    BY DEF FifoInv, NextInLine, KeyedPc, At
  <2>5. documents[e].key # documents[c].key
    <3>1. CASE Cleared(c)
      BY <1>1, <2>1, <2>3, <3>1 DEF FifoInv, ClearedIsFirst
    <3>2. CASE At(w, "find_near") /\ NearMatch(w) = {}
      <4>1. ~Exempt(worker[w].document)
        BY DEF Exempt, ClaimsApart
      <4>2. documents[c].key = worker[w].key
        BY <3>2, <4>1 DEF AllDuplicatesInv, DuplicateInv, KeyStoredPc, At
      <4> QED
        BY <1>1, <2>1, <3>2, <4>2, NoNearMatch
    <3> QED
      BY <2>3, <2>4, <3>1, <3>2 DEF Cleared
  <2>6. documents'[e] = documents[e]
    BY <1>5, <1>6, <1>7, <2>1
  <2> QED
    BY <2>3, <2>5, <2>6
<1>11. NextInLine(w)'
  <2>1. /\ worker'[w].pc # "lock"
        /\ worker'[w].pc \in KeyedPc => worker'[w].key # NoKey
    BY <1>1, EffectKeyed DEF FifoInv, NextInLine
  <2>2. worker'[w].pc \in OwningPc =>
            worker'[w].document = c /\ \A e \in Older(c) : Dead(e)'
    BY <1>1, <1>5, <1>6, <1>7, EffectOwns DEF FifoInv, NextInLine
  <2> QED
    BY <1>2, <2>1, <2>2 DEF NextInLine
<1> QED
  BY <1>1, <1>2, <1>8, <1>9, <1>10, <1>11 DEF FifoInv

LEMMA FifoInductive ==
    ASSUME Solo, PipelineInv, ClosingInv, AllDuplicatesInv, FifoInv, MaxDatabaseErrors = 0,
           [Next]_vars
    PROVE  FifoInv'
<1> USE DEF PipelineInv
<1>1. CASE Upload /\ UNCHANGED workerVars
  <2> PICK n : n = Len(documents) + 1
    OBVIOUS
  <2>1. /\ DOMAIN documents' = DOMAIN documents \cup {n} /\ n \in DocumentIds
        /\ \A e \in DOMAIN documents : e < n /\ documents'[e] = documents[e]
        /\ documents'[n].status = "UPLOADED" /\ UNCHANGED <<worker, agentRuns>>
    BY <1>1, DocumentCreated DEF workerVars
  <2>2. n \in Nat
    BY <2>1, DatabaseAssumption DEF DocumentIds
  <2> QED
    BY <2>1, <2>2, TablesKeepOrder
<1>2. ASSUME NEW w \in Workers, WorkerStep(w) \/ Crash(w)
      PROVE  FifoInv'
  <2>1. CASE Claim(w)
    <3>1. /\ OthersStay(w) /\ UNCHANGED documents
          /\ \/ worker'[w] = Polling /\ UNCHANGED agentRuns
             \/ /\ worker'[w].pc = "lock" /\ worker'[w].snapshot = Claimable
                /\ UNCHANGED agentRuns
             \/ /\ worker[w].pc = "lock" /\ worker'[w].pc = "open_run"
                /\ worker'[w].document \in Earliest(Lockable(w)) /\ UNCHANGED agentRuns
             \/ worker[w].pc = "open_run" /\ RunOpened(w)
      BY <2>1, SnapshotTaken, LockTaken, RunInserted DEF Claim, tables
    <3>2. CASE worker'[w] = Polling /\ UNCHANGED agentRuns
      BY <3>1, <3>2, PollingCounts, UnownedKeepsOrder DEF ClaimPc
    <3>3. CASE /\ worker'[w].pc = "lock" /\ worker'[w].snapshot = Claimable
               /\ UNCHANGED agentRuns
      <4>1. "lock" \notin OwningPc
        BY DEF OwningPc, OpenPc, StepPc, PersistPc, GivingUpPc
      <4> QED
        BY <3>1, <3>3, <4>1, UnownedKeepsOrder
    <3> QED
      BY <3>1, <3>2, <3>3, LockKeepsOrder, OpenKeepsOrder
  <2>2. CASE Process(w) \/ Route(w) \/ Failure(w)
    BY <2>2, EffectKeepsOrder
  <2>3. CASE Crash(w)
    BY <2>3, CrashStops, PollingCounts, UnownedKeepsOrder DEF ClaimPc, tables
  <2> QED
    BY <1>2, <2>1, <2>2, <2>3 DEF WorkerStep
<1>3. ASSUME NEW u \in Reviewers, SubmitStep(u), UNCHANGED workerVars
      PROVE  FifoInv'
  <2>1. ReviewEffect(u) /\ UNCHANGED <<worker, agentRuns>>
    BY <1>3, ReviewEffects, SubmitKeepsRuns DEF workerVars
  <2>2. CASE UNCHANGED documents
    BY <2>1, <2>2, TablesKeepOrder
  <2>3. CASE Reviewing(u, "mark_reviewed") /\ StatusWritten(review[u].document, "REVIEWED")
    <3> PICK c : c = review[u].document
      OBVIOUS
    <3>1. c \in DOMAIN documents /\ documents[c].status \in {"PENDING_REVIEW", "REVIEWED"}
      BY <2>3 DEF StageInv, UnderReview, Disturbed, Reviewing, Inv, TypeOK, ReviewRowsExist
    <3>2. documents[c] \in Document
      BY <3>1, ElementOfSeq DEF Inv, TypeOK, DatabaseTypeOK
    <3>3. /\ DOMAIN documents' = DOMAIN documents
          /\ \A e \in DOMAIN documents : e # c => documents'[e] = documents[e]
          /\ documents'[c].status = "REVIEWED" /\ documents'[c].key = documents[c].key
      BY <2>3, <3>2 DEF StatusWritten, DocumentSet, Document
    <3> QED
      BY <2>1, <3>1, <3>3, TablesKeepOrder
  <2> QED
    BY <2>1, <2>2, <2>3 DEF ReviewEffect, SameRows, BatchInserted, TaskResolved
<1>4. CASE UNCHANGED vars
  BY <1>4, TablesKeepOrder DEF vars, tables, workerVars
<1> QED
  BY <1>1, <1>2, <1>3, <1>4 DEF Next, WorkerNext, ReviewNext

\* With one worker whose statements do not fail, wherever it stops: no two
\* documents with the same key fields are processed without a human.  The
\* worker takes documents in the order of their uploads, so that the check
\* of one sees the key of every document before it.
THEOREM NearDuplicateHolds ==
    ASSUME Solo, MaxDatabaseErrors = 0
    PROVE  Spec => []NearDuplicateNotAutoProcessed
<1>1. ClaimsApart
  BY DEF ClaimsApart
<1>2. Init => AllDuplicatesInv /\ ClosingInv
  BY DEF Init, DatabaseInit, WorkerInit, Polling, AllDuplicatesInv, DuplicateInv,
         KeyStoredPc, ClosingInv
<1>3. Init => FifoInv
  BY DEF Init, DatabaseInit, WorkerInit, Polling, FifoInv, NextInLine, OwningPc, OpenPc,
         StepPc, PersistPc, GivingUpPc, KeyedPc
<1>4. PipelineInv /\ AllDuplicatesInv /\ ClosingInv /\ [Next]_vars
      => AllDuplicatesInv' /\ ClosingInv'
  <2>1. PipelineInv => RunsSoFar
    BY DEF RunsSoFar, PipelineInv
  <2> QED
    BY <2>1, DuplicatesInductive, ClosingInductive
<1>5. PipelineInv /\ AllDuplicatesInv /\ ClosingInv /\ FifoInv /\ [Next]_vars => FifoInv'
  BY FifoInductive
<1>6. Inv /\ FifoInv => NearDuplicateNotAutoProcessed
  <2> SUFFICES ASSUME Inv, FifoInv,
                      NEW d \in DOMAIN documents, NEW e \in DOMAIN documents,
                      documents[d].status = "AUTO_PROCESSED",
                      documents[e].status = "AUTO_PROCESSED",
                      documents[d].key = documents[e].key, documents[d].key # NoKey
               PROVE  d = e
    BY DEF NearDuplicateNotAutoProcessed
  <2>1. d \notin Older(e) /\ e \notin Older(d)
    BY DEF FifoInv, ClearedIsFirst, Cleared
  <2>2. DOMAIN documents = 1..Len(documents)
    BY LenProperties DEF Inv, TypeOK, DatabaseTypeOK
  <2> QED
    BY <2>1, <2>2 DEF Older
<1> QED
  BY <1>1, <1>2, <1>3, <1>4, <1>5, <1>6, InvHolds, PipelineInvHolds, PTL DEF Spec

---------------------------------------------------------------------------
(* The audit trail *)

\* The actions the audit trail of a document consists of
TrailActions ==
    {"document.auto_processed", "document.routed_to_review", "agent_run.retrying",
     "agent_run.failed", "review.approved", "review.rejected", "review.corrected"}

\* The rows a run still owes d are 1 where it is at one of pcs, 0 elsewhere.
Owed(d, pcs) ==
    IF \E w \in Workers : worker[w].document = d /\ worker[w].pc \in pcs THEN 1 ELSE 0

OwedDecision(d, decision) ==
    IF \E u \in Reviewers : /\ review[u].document = d
                            /\ review[u].pc \in {"mark_reviewed", "audit"}
                            /\ review[u].decision = decision
    THEN 1 ELSE 0

ToAuditAuto == {"finish_auto", "audit_auto"}

ToAuditRouted == {"mark_pending", "finish_review", "audit_review"}

ToAuditFailure == GivingUpPc \cup {"audit_retrying", "audit_failed"}

HasStatus(d, s) == IF documents[d].status = s THEN 1 ELSE 0

Decided(d, decision) ==
    Cardinality({t \in TasksOf(d) : reviewTasks[t].status = ReviewStatusOf[decision]})

\* What is recorded and what is owed make up what became of d.
TrailInv(d) ==
    /\ Audits("document.auto_processed", d) + Owed(d, ToAuditAuto)
          = HasStatus(d, "AUTO_PROCESSED")
    /\ Audits("document.routed_to_review", d) + Owed(d, ToAuditRouted)
          = Cardinality(TasksOf(d))
    /\ Audits("agent_run.failed", d) + Owed(d, {"audit_failed"}) = HasStatus(d, "FAILED")
    /\ Audits("agent_run.retrying", d) + Audits("agent_run.failed", d)
             + Owed(d, ToAuditFailure)
          = CountFailed(d)
    /\ \A decision \in Decisions :
          Audits(AuditActionOf[decision], d) + OwedDecision(d, decision)
             = Decided(d, decision)

\* A run that has left load has loaded its document, and the task a request
\* is about to decide is still open.
AllLoaded == \A w \in Workers : worker[w].pc \in RunPc \ {"load"} => Loaded(w)

TasksStillOpen ==
    \A u \in Reviewers :
        review[u].pc \in {"save_fields", "resolve"} =>
            reviewTasks[review[u].task].status = "PENDING"

AuditsRefer == \A i \in DOMAIN auditLogs : auditLogs[i].document \in DOMAIN documents

AllTrailsInv ==
    /\ AllLoaded /\ TasksStillOpen /\ AuditsRefer
    /\ \A d \in DOMAIN documents : TrailInv(d)

---------------------------------------------------------------------------
(* Counting *)

LEMMA TrailCounts ==
    ASSUME TablesOK
    PROVE  /\ \A S \in SUBSET DOMAIN auditLogs : IsFiniteSet(S)
           /\ \A S \in SUBSET DOMAIN reviewTasks : IsFiniteSet(S)
           /\ \A a, d : Audits(a, d) \in Nat
           /\ \A d : Cardinality(TasksOf(d)) \in Nat /\ CountFailed(d) \in Nat
           /\ \A d, decision : Decided(d, decision) \in Nat
<1>1. /\ IsFiniteSet(DOMAIN auditLogs)
      /\ IsFiniteSet(DOMAIN reviewTasks)
      /\ IsFiniteSet(DOMAIN agentRuns)
  BY LenProperties, FS_Interval DEF TablesOK
<1>2. \A S : S \in SUBSET DOMAIN auditLogs => IsFiniteSet(S) /\ Cardinality(S) \in Nat
  BY <1>1, FS_Subset, FS_CardinalityType
<1>3. \A S : S \in SUBSET DOMAIN reviewTasks => IsFiniteSet(S) /\ Cardinality(S) \in Nat
  BY <1>1, FS_Subset, FS_CardinalityType
<1>4. \A S : S \in SUBSET DOMAIN agentRuns => Cardinality(S) \in Nat
  BY <1>1, FS_Subset, FS_CardinalityType
<1>5. \A a, d : Audits(a, d) \in Nat
  BY <1>2 DEF Audits
<1>6. \A d : Cardinality(TasksOf(d)) \in Nat /\ CountFailed(d) \in Nat
  BY <1>3, <1>4 DEF TasksOf, CountFailed, RunsWith
<1>7. \A d, decision : Decided(d, decision) \in Nat
  BY <1>3 DEF Decided, TasksOf
<1> QED
  BY <1>2, <1>3, <1>5, <1>6, <1>7

\* An audit row is one more of its action and document.
LEMMA RowAudited ==
    ASSUME TablesOK, TrailActions \subseteq Audited, NEW action, NEW e,
           AuditRecord(action, e), NEW a \in TrailActions, NEW d
    PROVE  Audits(a, d)' = Audits(a, d) + (IF a = action /\ d = e THEN 1 ELSE 0)
<1> DEFINE n == Len(auditLogs) + 1
           S == {i \in DOMAIN auditLogs : auditLogs[i].action = a /\ auditLogs[i].document = d}
           row == [action |-> action, document |-> e]
<1>1. IsFiniteSet(S) /\ Audits(a, d) \in Nat /\ Audits(a, d) = Cardinality(S)
  BY TrailCounts DEF Audits
<1>2. Audits(a, d)' = Cardinality(S')
  BY DEF Audits
<1>3. row.action = action /\ row.document = e
  OBVIOUS
<1>4. auditLogs' = IF action \in Audited THEN Append(auditLogs, row) ELSE auditLogs
  BY DEF AuditRecord
<1> HIDE DEF row
<1>5. CASE action \notin Audited
  <2>1. S' = S /\ a # action
    BY <1>4, <1>5
  <2> HIDE DEF S
  <2> QED
    BY <1>1, <1>2, <2>1
<1>6. CASE action \in Audited
  <2>1. /\ DOMAIN auditLogs' = DOMAIN auditLogs \cup {n} /\ n \notin DOMAIN auditLogs
        /\ \A i \in DOMAIN auditLogs : auditLogs'[i] = auditLogs[i]
        /\ auditLogs'[n] = row
    <3>1. auditLogs \in Seq(AuditLog) /\ auditLogs' = Append(auditLogs, row)
      BY <1>4, <1>6 DEF TablesOK
    <3>2. /\ DOMAIN auditLogs = 1..Len(auditLogs) /\ Len(auditLogs) \in Nat
          /\ DOMAIN auditLogs' = 1..n
          /\ \A i \in 1..Len(auditLogs) : auditLogs'[i] = auditLogs[i]
          /\ auditLogs'[n] = row
      BY <3>1, AppendProperties, LenProperties
    <3> QED
      BY <3>2
  <2> HIDE DEF n
  <2>2. S' = IF a = action /\ d = e THEN S \cup {n} ELSE S
    BY <1>3, <2>1
  <2>3. n \notin S
    BY <2>1
  <2> HIDE DEF S
  <2>4. Cardinality(S \cup {n}) = Cardinality(S) + 1
    BY <1>1, <2>3, FS_AddElement
  <2> QED
    BY <1>1, <1>2, <2>2, <2>4
<1> QED
  BY <1>5, <1>6

LEMMA TrailUnwritten ==
    ASSUME UNCHANGED auditLogs, NEW a, NEW d
    PROVE  Audits(a, d)' = Audits(a, d)
BY DEF Audits

\* A task that is opened is one more of its document, and not decided.
LEMMA TaskCounted ==
    ASSUME TablesOK, NEW e, TaskOpened(e), NEW d
    PROVE  /\ Cardinality(TasksOf(d))' = Cardinality(TasksOf(d)) + (IF d = e THEN 1 ELSE 0)
           /\ \A decision \in Decisions : Decided(d, decision)' = Decided(d, decision)
<1> DEFINE n == Len(reviewTasks) + 1
<1>1. /\ DOMAIN reviewTasks' = DOMAIN reviewTasks \cup {n}
      /\ n \notin DOMAIN reviewTasks
      /\ \A t \in DOMAIN reviewTasks : reviewTasks'[t] = reviewTasks[t]
      /\ reviewTasks'[n].document = e
      /\ reviewTasks'[n].status = "PENDING"
  BY DEF TaskOpened
<1>2. IsFiniteSet(TasksOf(d)) /\ Cardinality(TasksOf(d)) \in Nat
  BY TrailCounts DEF TasksOf
<1> HIDE DEF n
<1>3. /\ TasksOf(d)' = IF d = e THEN TasksOf(d) \cup {n} ELSE TasksOf(d)
      /\ n \notin TasksOf(d)
  BY <1>1 DEF TasksOf
<1>4. ASSUME NEW decision \in Decisions
      PROVE  Decided(d, decision)' = Decided(d, decision)
  <2>1. ReviewStatusOf[decision] # "PENDING"
    BY DEF Decisions, ReviewStatusOf
  <2>2. {t \in TasksOf(d) : reviewTasks[t].status = ReviewStatusOf[decision]}'
           = {t \in TasksOf(d) : reviewTasks[t].status = ReviewStatusOf[decision]}
    BY <1>1, <2>1 DEF TasksOf
  <2> QED
    BY <2>2 DEF Decided
<1>5. Cardinality(TasksOf(d))' = Cardinality(TasksOf(d)) + (IF d = e THEN 1 ELSE 0)
  BY <1>2, <1>3, FS_AddElement
<1> QED
  BY <1>4, <1>5

\* A task that is decided while it is open is one more of its decision.
LEMMA DecisionCounted ==
    ASSUME TablesOK, NEW t \in DOMAIN reviewTasks, reviewTasks[t].status = "PENDING",
           NEW s \in Decisions, TaskResolved(t, ReviewStatusOf[s]), NEW d
    PROVE  /\ Cardinality(TasksOf(d))' = Cardinality(TasksOf(d))
           /\ \A decision \in Decisions :
                 Decided(d, decision)'
                    = Decided(d, decision)
                         + (IF d = reviewTasks[t].document /\ decision = s THEN 1 ELSE 0)
<1>1. /\ DOMAIN reviewTasks' = DOMAIN reviewTasks
      /\ \A q \in DOMAIN reviewTasks : q # t => reviewTasks'[q] = reviewTasks[q]
      /\ reviewTasks'[t].document = reviewTasks[t].document
      /\ reviewTasks'[t].status = ReviewStatusOf[s]
  BY DEF TaskResolved
<1>2. TasksOf(d)' = TasksOf(d)
  BY <1>1 DEF TasksOf
<1>3. ASSUME NEW decision \in Decisions
      PROVE  Decided(d, decision)'
                = Decided(d, decision)
                     + (IF d = reviewTasks[t].document /\ decision = s THEN 1 ELSE 0)
  <2> DEFINE S == {q \in TasksOf(d) : reviewTasks[q].status = ReviewStatusOf[decision]}
  <2>1. /\ ReviewStatusOf[decision] # "PENDING"
        /\ ReviewStatusOf[decision] = ReviewStatusOf[s] <=> decision = s
    BY DEF Decisions, ReviewStatusOf
  <2>2. S \in SUBSET DOMAIN reviewTasks
    BY DEF TasksOf
  <2>3. Decided(d, decision) = Cardinality(S) /\ Decided(d, decision) \in Nat
    BY TrailCounts DEF Decided
  <2>4. Decided(d, decision)' = Cardinality(S')
    BY DEF Decided
  <2>5. /\ S' = IF d = reviewTasks[t].document /\ decision = s THEN S \cup {t} ELSE S
        /\ t \notin S
    BY <1>1, <2>1 DEF TasksOf
  <2> HIDE DEF S
  <2>6. Cardinality(S \cup {t}) = Cardinality(S) + 1
    BY <2>2, <2>5, TrailCounts, FS_AddElement
  <2> QED
    BY <2>3, <2>4, <2>5, <2>6
<1> QED
  BY <1>2, <1>3

LEMMA TasksUnwritten ==
    ASSUME UNCHANGED reviewTasks, NEW d
    PROVE  /\ Cardinality(TasksOf(d))' = Cardinality(TasksOf(d))
           /\ \A decision : Decided(d, decision)' = Decided(d, decision)
BY DEF TasksOf, Decided

LEMMA OwedAlone ==
    ASSUME Solo, NEW w \in Workers, NEW d, NEW pcs
    PROVE  /\ Owed(d, pcs)
                 = IF worker[w].document = d /\ worker[w].pc \in pcs THEN 1 ELSE 0
           /\ Owed(d, pcs)'
                 = IF worker'[w].document = d /\ worker'[w].pc \in pcs THEN 1 ELSE 0
BY DEF Owed, Solo

LEMMA DecisionOwedAlone ==
    ASSUME OneReviewer, NEW u \in Reviewers, NEW d, NEW decision
    PROVE  /\ OwedDecision(d, decision)
                 = IF /\ review[u].document = d
                      /\ review[u].pc \in {"mark_reviewed", "audit"}
                      /\ review[u].decision = decision
                   THEN 1 ELSE 0
           /\ OwedDecision(d, decision)'
                 = IF /\ review'[u].document = d
                      /\ review'[u].pc \in {"mark_reviewed", "audit"}
                      /\ review'[u].decision = decision
                   THEN 1 ELSE 0
BY DEF OwedDecision, OneReviewer

---------------------------------------------------------------------------
(* What a step records *)

LEMMA RunAudits ==
    ASSUME Inv, MaxDatabaseErrors = 0, NEW w \in Workers,
           Process(w) \/ Route(w) \/ Failure(w), NEW d, d = worker[w].document
    PROVE  \/ At(w, "audit_auto") /\ AuditRecord("document.auto_processed", d)
           \/ At(w, "audit_review") /\ AuditRecord("document.routed_to_review", d)
           \/ At(w, "audit_retrying") /\ AuditRecord("agent_run.retrying", d)
           \/ At(w, "audit_failed") /\ AuditRecord("agent_run.failed", d)
           \/ /\ worker[w].pc \notin {"audit_auto", "audit_review", "audit_retrying", "audit_failed"}
              /\ \/ UNCHANGED auditLogs
                 \/ \E action : action \notin TrailActions /\ AuditRecord(action, d)
<1> DEFINE elsewhere ==
        worker[w].pc \notin {"audit_auto", "audit_review", "audit_retrying", "audit_failed"}
<1>1. ~(databaseErrors < MaxDatabaseErrors)
  BY NoErrorMove
<1>2. \/ IterationCapReached(w) \/ RunOCR(w) \/ ClassifyDocument(w) \/ ExtractFields(w)
      \/ ValidateExtraction(w)
      => elsewhere /\ UNCHANGED auditLogs
  BY DEF IterationCapReached, RunOCR, ClassifyDocument, ExtractFields, ValidateExtraction,
         At, Step, NoStatement, tables, StepPc
<1>3. \/ LoadDocument(w) \/ CheckExactDuplicate(w) \/ CheckNearDuplicate(w)
      \/ CalculateConfidence(w) \/ CountAttempts(w)
      => elsewhere /\ UNCHANGED auditLogs
  BY <1>1 DEF LoadDocument, CheckExactDuplicate, CheckNearDuplicate, CalculateConfidence,
              CountAttempts, At, Step, Attempt, tables
<1>4. \/ PersistClassification(w) \/ PersistExtracted(w) \/ PersistKey(w) \/ PersistValidated(w)
      \/ PersistDuplicate(w) \/ FinalizeDocument(w) \/ PersistPendingReview(w)
      \/ Requeue(w) \/ GiveUp(w)
      => elsewhere /\ UNCHANGED auditLogs
  BY <1>1
  DEF PersistClassification, PersistExtracted, PersistKey, PersistValidated,
      PersistDuplicate, FinalizeDocument, PersistPendingReview, Requeue, GiveUp,
      MarkClassified, MarkExtracted, SetKeyFieldsHash, MarkValidated, MarkDuplicateOf,
      MarkAutoProcessed, MarkPendingReview, MarkUploaded, MarkFailed, SetStatus,
      DocumentWritten, At, Step, Attempt
<1>5. \/ PersistFields(w) \/ FinishAutoProcessed(w) \/ OpenReviewTask(w) \/ FinishRouted(w)
      \/ FinishFailed(w)
      => elsewhere /\ UNCHANGED auditLogs
  BY <1>1
  DEF PersistFields, FinishAutoProcessed, OpenReviewTask, FinishRouted, FinishFailed,
      InsertBatch, FinishRun, Finish, CreateReviewTask, AgentRunWritten, ReviewTaskWritten,
      NoStatement, tables, At, Step, Attempt
<1>6. AuditClassified(w) \/ AuditExtracted(w) \/ AuditValidated(w) =>
          elsewhere /\ \E action : action \notin TrailActions /\ AuditRecord(action, d)
  BY <1>1 DEF AuditClassified, AuditExtracted, AuditValidated, At, Attempt, TrailActions
<1>7. /\ AuditAutoProcessed(w) =>
             At(w, "audit_auto") /\ AuditRecord("document.auto_processed", d)
      /\ AuditRouted(w) =>
             At(w, "audit_review") /\ AuditRecord("document.routed_to_review", d)
      /\ AuditRetrying(w) =>
             At(w, "audit_retrying") /\ AuditRecord("agent_run.retrying", d)
      /\ AuditFailed(w) =>
             At(w, "audit_failed") /\ AuditRecord("agent_run.failed", d)
  BY <1>1 DEF AuditAutoProcessed, AuditRouted, AuditRetrying, AuditFailed, Attempt
<1> HIDE DEF elsewhere
<1> QED
  BY <1>2, <1>3, <1>4, <1>5, <1>6, <1>7 DEF Process, Route, Failure, elsewhere

\* A run fails at load only with its statement; one that has loaded its
\* document does not end without an audit row.
LEMMA LoadedRuns ==
    ASSUME Inv, MaxDatabaseErrors = 0, NEW w \in Workers,
           Process(w) \/ Route(w) \/ Failure(w)
    PROVE  /\ At(w, "load") => worker'[w].pc = "run_ocr"
           /\ At(w, "fail_requeue") /\ Loaded(w) => worker'[w].pc = "audit_retrying"
           /\ At(w, "fail_mark") /\ Loaded(w) => worker'[w].pc = "audit_failed"
<1>1. ~(databaseErrors < MaxDatabaseErrors) /\ worker \in [Workers -> WorkerState]
      /\ worker[w] \in WorkerState
  BY NoErrorMove DEF Inv, TypeOK, WorkerTypeOK
<1>2. /\ LoadDocument(w) => worker'[w].pc = "run_ocr"
      /\ Requeue(w) /\ Loaded(w) => worker'[w].pc = "audit_retrying"
      /\ GiveUp(w) /\ Loaded(w) => worker'[w].pc = "audit_failed"
  <2>1. ASSUME NEW pc, Goto(w, pc) PROVE worker'[w].pc = pc
    BY <1>1, <2>1 DEF Goto, WorkerState
  <2>2. ASSUME NEW pc, Enter(w, pc) PROVE worker'[w].pc = pc
    BY <1>1, <2>2 DEF Enter, WorkerState
  <2> QED
    BY <1>1, <2>1, <2>2 DEF LoadDocument, Requeue, GiveUp, Attempt, AuditOrReturn
<1>3. \/ IterationCapReached(w) \/ RunOCR(w) \/ ClassifyDocument(w) \/ ExtractFields(w)
      \/ ValidateExtraction(w) \/ CheckExactDuplicate(w) \/ CheckNearDuplicate(w)
      \/ CalculateConfidence(w) \/ CountAttempts(w)
      => worker[w].pc \notin {"load", "fail_requeue", "fail_mark"}
  BY DEF IterationCapReached, RunOCR, ClassifyDocument, ExtractFields, ValidateExtraction,
         CheckExactDuplicate, CheckNearDuplicate, CalculateConfidence, CountAttempts,
         At, Step, StepPc
<1>4. \/ PersistClassification(w) \/ PersistExtracted(w) \/ PersistKey(w) \/ PersistValidated(w)
      \/ PersistDuplicate(w) \/ FinalizeDocument(w) \/ PersistPendingReview(w)
      \/ PersistFields(w) \/ FinishAutoProcessed(w) \/ OpenReviewTask(w) \/ FinishRouted(w)
      \/ FinishFailed(w)
      => worker[w].pc \notin {"load", "fail_requeue", "fail_mark"}
  BY DEF PersistClassification, PersistExtracted, PersistKey, PersistValidated,
         PersistDuplicate, FinalizeDocument, PersistPendingReview, PersistFields,
         FinishAutoProcessed, OpenReviewTask, FinishRouted, FinishFailed, At, Step
<1>5. \/ AuditClassified(w) \/ AuditExtracted(w) \/ AuditValidated(w)
      \/ AuditAutoProcessed(w) \/ AuditRouted(w) \/ AuditRetrying(w) \/ AuditFailed(w)
      => worker[w].pc \notin {"load", "fail_requeue", "fail_mark"}
  BY DEF AuditClassified, AuditExtracted, AuditValidated, AuditAutoProcessed, AuditRouted,
         AuditRetrying, AuditFailed, At
<1>6. /\ LoadDocument(w) => At(w, "load")
      /\ Requeue(w) => At(w, "fail_requeue")
      /\ GiveUp(w) => At(w, "fail_mark")
  BY DEF LoadDocument, Requeue, GiveUp
<1> QED
  BY <1>2, <1>3, <1>4, <1>5, <1>6 DEF Process, Route, Failure, At

\* The rows a claim or a request records
LEMMA OthersAudits ==
    ASSUME Inv, MaxDatabaseErrors = 0
    PROVE  /\ Upload => UNCHANGED auditLogs
           /\ \A w \in Workers : Claim(w) => UNCHANGED auditLogs
           /\ \A u \in Reviewers :
                 SubmitStep(u) =>
                     \/ /\ Reviewing(u, "audit") /\ Respond(u)
                        /\ AuditRecord(AuditActionOf[review[u].decision], review[u].document)
                     \/ ~Reviewing(u, "audit") /\ UNCHANGED auditLogs
<1>1. ~(databaseErrors < MaxDatabaseErrors)
  BY NoErrorMove
<1>2. Upload => UNCHANGED auditLogs
  BY DEF Upload, CreateDocument, DocumentWritten
<1>3. ASSUME NEW w \in Workers, Claim(w) PROVE UNCHANGED auditLogs
  BY <1>1, <1>3
  DEF Claim, ClaimSnapshot, ClaimLock, ClaimOpenRun, Attempt, InsertRun, AgentRunWritten,
      NoStatement, tables
<1>4. ASSUME NEW u \in Reviewers, SubmitStep(u)
      PROVE  \/ /\ Reviewing(u, "audit") /\ Respond(u)
                /\ AuditRecord(AuditActionOf[review[u].decision], review[u].document)
             \/ ~Reviewing(u, "audit") /\ UNCHANGED auditLogs
  BY <1>1, <1>4
  DEF SubmitStep, AcceptRequest, LoadTask, SaveCorrections, ResolveTask, CloseDocument,
      AuditDecision, Attempt, NoStatement, tables, InsertBatch, Resolve, ReviewTaskWritten,
      MarkReviewed, SetStatus, DocumentWritten, Reviewing
<1> QED
  BY <1>2, <1>3, <1>4

---------------------------------------------------------------------------
(* Where a run comes from that owes a row *)

LEMMA RunTurns ==
    ASSUME Inv, MaxDatabaseErrors = 0, NEW w \in Workers, RunEffect(w),
           NEW from, from = worker[w].pc, NEW to, to = worker'[w].pc,
           NEW d, d = worker[w].document
    PROVE  /\ to # "poll" => worker'[w].document = d
           /\ to = "finish_auto" => from = "finalize" /\ StatusWritten(d, "AUTO_PROCESSED")
           /\ to = "audit_auto" <=> from = "finish_auto"
           /\ to = "mark_pending" <=> from = "create_task"
           /\ to = "finish_review" <=> from = "mark_pending"
           /\ to = "audit_review" <=> from = "finish_review"
           /\ to \in {"fail_count", "fail_mark"} <=> from \in {"fail_finish", "fail_count"}
                                                      /\ to # "fail_requeue"
           /\ to = "fail_requeue" => from = "fail_count"
           /\ to = "audit_retrying" => from = "fail_requeue"
           /\ to = "audit_failed" => from = "fail_mark"
           /\ from = "fail_finish" => RunFinished(w, "FAILED") /\ to # "fail_requeue"
           /\ from \in {"finish_auto", "finish_review"} => RunFinished(w, "COMPLETED")
           /\ from = "fail_mark" => StatusWritten(d, "FAILED")
           /\ from \in {"audit_auto", "audit_review", "audit_retrying", "audit_failed"} =>
                  to = "poll"
<1> USE DEF At, GoesToOne, Goes, Over, Polling, StepPc
<1>1. CASE SameRows /\ ReadMove(w)
  BY <1>1 DEF ReadMove
<1>2. CASE SameRows /\ FailMove(w)
  BY <1>2 DEF FailMove, CanFail
<1>3. CASE WriteMove(w)
  BY <1>3 DEF WriteMove
<1> QED
  BY <1>1, <1>2, <1>3, ErrorsNever

LEMMA RunStatuses ==
    ASSUME Solo, PipelineInv, MaxDatabaseErrors = 0, NEW w \in Workers, RunEffect(w),
           worker[w].pc \in RunPc, NEW d, d = worker[w].document
    PROVE  /\ HasStatus(d, "AUTO_PROCESSED")'
                 = IF worker'[w].pc = "finish_auto" THEN 1 ELSE HasStatus(d, "AUTO_PROCESSED")
           /\ worker'[w].pc = "finish_auto" => HasStatus(d, "AUTO_PROCESSED") = 0
           /\ HasStatus(d, "FAILED")'
                 = IF worker[w].pc = "fail_mark" THEN 1 ELSE HasStatus(d, "FAILED")
           /\ worker[w].pc = "fail_mark" => HasStatus(d, "FAILED") = 0
<1> USE DEF PipelineInv
<1>1. d \in DOMAIN documents /\ documents[d] \in Document
  BY RunFacts, ElementOfSeq DEF TablesOK
<1>2. worker[w].pc \in OwningPc => documents[d].status \in Active
  BY OwnersApart DEF Disturbed
<1>3. \A s : StatusWritten(d, s) => documents'[d].status = s
  BY <1>1 DEF StatusWritten, DocumentSet, Document
<1>4. {"finalize", "fail_mark"} \subseteq OwningPc
  BY DEF OwningPc, OpenPc, StepPc, GivingUpPc
<1>5. CASE worker'[w].pc = "finish_auto"
  BY <1>2, <1>3, <1>4, <1>5, RunTurns DEF HasStatus, Active
<1>6. CASE worker[w].pc = "fail_mark"
  BY <1>2, <1>3, <1>4, <1>6, RunTurns DEF HasStatus, Active
<1>7. CASE worker'[w].pc # "finish_auto" /\ worker[w].pc # "fail_mark"
  <2>1. \/ documents'[d].status = documents[d].status
        \/ documents[d].status \in Active /\ documents'[d].status \in Active \cup {"PENDING_REVIEW"}
    <3>1. CASE SameRows
      BY <3>1 DEF SameRows
    <3>2. CASE WriteMove(w)
      <4>1. ASSUME \/ TaskOpened(d) \/ BatchInserted(d, Agent)
                   \/ RunFinished(w, "COMPLETED") \/ RunFinished(w, "FAILED")
                   \/ DocumentSet(d, [documents[d] EXCEPT !.key = worker[w].key])
                   \/ DocumentSet(d, [documents[d] EXCEPT !.duplicateOf = worker[w].duplicateOf])
            PROVE  documents'[d].status = documents[d].status
        BY <1>1, <4>1 DEF TaskOpened, BatchInserted, RunFinished, DocumentSet, Document
      <4>2. ASSUME NEW s \in Active \cup {"PENDING_REVIEW"}, StatusWritten(d, s),
                   worker[w].pc \in {"mark_classified", "mark_extracted", "mark_validated",
                                     "mark_pending", "fail_requeue"}
            PROVE  documents[d].status \in Active /\ documents'[d].status = s
        BY <1>2, <1>3, <4>2 DEF OwningPc, OpenPc, PersistPc, GivingUpPc
      <4> QED
        BY <1>7, <3>2, <4>1, <4>2 DEF WriteMove, At, Active, Goes
    <3> QED
      BY <3>1, <3>2 DEF RunEffect
  <2> QED
    BY <1>7, <2>1 DEF HasStatus, Active
<1> QED
  BY <1>5, <1>6, <1>7

\* What a step of a run adds to the counts of its document
LEMMA RunAdds ==
    ASSUME PipelineInv, MaxDatabaseErrors = 0, TrailActions \subseteq Audited,
           NEW w \in Workers, Process(w) \/ Route(w) \/ Failure(w),
           NEW d, d = worker[w].document, NEW from, from = worker[w].pc
    PROVE  /\ Audits("document.auto_processed", d)'
                 = Audits("document.auto_processed", d)
                      + (IF from = "audit_auto" THEN 1 ELSE 0)
           /\ Audits("document.routed_to_review", d)'
                 = Audits("document.routed_to_review", d)
                      + (IF from = "audit_review" THEN 1 ELSE 0)
           /\ Audits("agent_run.retrying", d)'
                 = Audits("agent_run.retrying", d) + (IF from = "audit_retrying" THEN 1 ELSE 0)
           /\ Audits("agent_run.failed", d)'
                 = Audits("agent_run.failed", d) + (IF from = "audit_failed" THEN 1 ELSE 0)
           /\ \A decision \in Decisions :
                 Audits(AuditActionOf[decision], d)' = Audits(AuditActionOf[decision], d)
           /\ Cardinality(TasksOf(d))'
                 = Cardinality(TasksOf(d)) + (IF from = "create_task" THEN 1 ELSE 0)
           /\ \A decision \in Decisions : Decided(d, decision)' = Decided(d, decision)
           /\ CountFailed(d)' = CountFailed(d) + (IF from = "fail_finish" THEN 1 ELSE 0)
<1> USE DEF PipelineInv
<1>1. /\ RunEffect(w) /\ from \in RunPc /\ TablesOK /\ d \in DOMAIN documents
  BY RunEffects, RunPcs, RunFacts
<1>2. /\ \A a : Audits(a, d) \in Nat
      /\ Cardinality(TasksOf(d)) \in Nat /\ CountFailed(d) \in Nat
  BY <1>1, TrailCounts
<1>3. \A decision \in Decisions :
        AuditActionOf[decision] \in {"review.approved", "review.rejected", "review.corrected"}
  BY DEF Decisions, AuditActionOf
<1>4. /\ \A a \in TrailActions :
            Audits(a, d)'
               = Audits(a, d)
                    + (IF \/ from = "audit_auto" /\ a = "document.auto_processed"
                          \/ from = "audit_review" /\ a = "document.routed_to_review"
                          \/ from = "audit_retrying" /\ a = "agent_run.retrying"
                          \/ from = "audit_failed" /\ a = "agent_run.failed"
                       THEN 1 ELSE 0)
  <2> SUFFICES ASSUME NEW a \in TrailActions
               PROVE  Audits(a, d)'
                         = Audits(a, d)
                              + (IF \/ from = "audit_auto" /\ a = "document.auto_processed"
                                    \/ from = "audit_review" /\ a = "document.routed_to_review"
                                    \/ from = "audit_retrying" /\ a = "agent_run.retrying"
                                    \/ from = "audit_failed" /\ a = "agent_run.failed"
                                 THEN 1 ELSE 0)
    OBVIOUS
  <2>1. ASSUME NEW action, AuditRecord(action, d)
        PROVE  Audits(a, d)' = Audits(a, d) + (IF a = action THEN 1 ELSE 0)
    BY <1>1, <2>1, RowAudited
  <2>2. UNCHANGED auditLogs => Audits(a, d)' = Audits(a, d)
    BY TrailUnwritten
  <2>3. CASE from \in {"audit_auto", "audit_review", "audit_retrying", "audit_failed"}
    BY <1>1, <2>1, <2>3, RunAudits DEF At
  <2>4. CASE from \notin {"audit_auto", "audit_review", "audit_retrying", "audit_failed"}
    <3>1. \/ UNCHANGED auditLogs
          \/ \E action : action \notin TrailActions /\ AuditRecord(action, d)
      BY <2>4, RunAudits DEF At
    <3>2. Audits(a, d)' = Audits(a, d)
      BY <1>2, <2>1, <2>2, <3>1
    <3> QED
      BY <1>2, <2>4, <3>2
  <2> QED
    BY <2>3, <2>4
<1>5. /\ Cardinality(TasksOf(d))'
            = Cardinality(TasksOf(d)) + (IF from = "create_task" THEN 1 ELSE 0)
      /\ \A decision \in Decisions : Decided(d, decision)' = Decided(d, decision)
  <2>1. CASE from = "create_task"
    BY <1>1, <2>1, EffectRows, TaskCounted
  <2>2. CASE from # "create_task"
    <3>1. UNCHANGED reviewTasks
      BY <1>1, <2>2, EffectRows DEF SameRows, BatchInserted
    <3> QED
      BY <1>2, <2>2, <3>1, TasksUnwritten
  <2> QED
    BY <2>1, <2>2
<1>6. CountFailed(d)' = CountFailed(d) + (IF from = "fail_finish" THEN 1 ELSE 0)
  <2>1. CASE from = "fail_finish"
    <3>1. RunFinished(w, "FAILED")
      <4>1. worker[w].pc = "fail_finish"
        BY <2>1
      <4> QED
        BY ONLY <4>1, <1>1, RunTurns, Inv, MaxDatabaseErrors = 0, w \in Workers
    <3>2. agentRuns[worker[w].run].status = "RUNNING"
      BY <1>1, <2>1 DEF RunInv, OwnRun, OpenPc
    <3> QED
      BY <1>1, <2>1, <3>1, <3>2, FailureMapped
  <2>2. CASE from \in {"finish_auto", "finish_review"}
    <3>1. RunFinished(w, "COMPLETED") /\ from \in OpenPc
      BY <1>1, <2>2, RunTurns DEF OpenPc
    <3>2. RunsWith(d, "FAILED")' = RunsWith(d, "FAILED")
      BY <3>1, RunClosedCounts DEF AgentRunStatus
    <3> QED
      BY <1>2, <2>2, <3>2 DEF CountFailed
  <2>3. CASE from \notin {"fail_finish", "finish_auto", "finish_review"}
    <3>1. UNCHANGED agentRuns
      BY <1>1, <2>3, EffectRows
    <3>2. CountFailed(d)' = CountFailed(d)
      BY <3>1 DEF CountFailed, RunsWith
    <3> QED
      BY <1>2, <2>3, <3>2
  <2> QED
    BY <2>1, <2>2, <2>3
<1> QED
  BY <1>2, <1>3, <1>4, <1>5, <1>6 DEF TrailActions

LEMMA RunKeepsOwnTrail ==
    ASSUME Solo, PipelineInv, AllLoaded, MaxDatabaseErrors = 0, TrailActions \subseteq Audited,
           NEW w \in Workers, Process(w) \/ Route(w) \/ Failure(w), UNCHANGED review,
           NEW d, d = worker[w].document, TrailInv(d)
    PROVE  TrailInv(d)'
<1> PICK from, to : from = worker[w].pc /\ to = worker'[w].pc
  OBVIOUS
<1>1. /\ RunEffect(w) /\ from \in RunPc /\ TablesOK
  BY RunEffects, RunPcs, RunFacts DEF PipelineInv
<1>2. /\ \A a : Audits(a, d) \in Nat
      /\ Cardinality(TasksOf(d)) \in Nat /\ CountFailed(d) \in Nat
  BY <1>1, TrailCounts
<1>3. \A pcs : /\ Owed(d, pcs) = IF from \in pcs THEN 1 ELSE 0
               /\ "poll" \notin pcs => Owed(d, pcs)' = IF to \in pcs THEN 1 ELSE 0
  BY <1>1, RunTurns, OwedAlone DEF PipelineInv
<1>4. /\ from = "fail_requeue" => to = "audit_retrying"
      /\ from = "fail_mark" => to = "audit_failed"
  BY <1>1, LoadedRuns DEF AllLoaded, At, PipelineInv
<1>5. Audits("document.auto_processed", d)' + Owed(d, ToAuditAuto)'
         = HasStatus(d, "AUTO_PROCESSED")'
  BY <1>1, <1>2, <1>3, RunAdds, RunTurns, RunStatuses
  DEF ToAuditAuto, TrailInv, HasStatus, PipelineInv
<1>6. Audits("document.routed_to_review", d)' + Owed(d, ToAuditRouted)'
         = Cardinality(TasksOf(d))'
  BY <1>1, <1>2, <1>3, RunAdds, RunTurns DEF ToAuditRouted, TrailInv, PipelineInv
<1>7. Audits("agent_run.failed", d)' + Owed(d, {"audit_failed"})' = HasStatus(d, "FAILED")'
  BY <1>1, <1>2, <1>3, <1>4, RunAdds, RunTurns, RunStatuses DEF TrailInv, HasStatus, PipelineInv
<1>8. Audits("agent_run.retrying", d)' + Audits("agent_run.failed", d)'
         + Owed(d, ToAuditFailure)'
         = CountFailed(d)'
  BY <1>1, <1>2, <1>3, <1>4, RunAdds, RunTurns
  DEF ToAuditFailure, GivingUpPc, TrailInv, PipelineInv
<1>9. \A decision \in Decisions :
        Audits(AuditActionOf[decision], d)' + OwedDecision(d, decision)'
           = Decided(d, decision)'
  <2>1. \A decision : OwedDecision(d, decision)' = OwedDecision(d, decision)
    BY DEF OwedDecision
  <2> QED
    BY <2>1, RunAdds DEF TrailInv
<1> QED
  BY <1>5, <1>6, <1>7, <1>8, <1>9 DEF TrailInv

\* A step of a run adds nothing to the counts of another document.
LEMMA RunKeepsOtherTrails ==
    ASSUME Solo, PipelineInv, MaxDatabaseErrors = 0, TrailActions \subseteq Audited,
           NEW w \in Workers, Process(w) \/ Route(w) \/ Failure(w), UNCHANGED review,
           NEW d \in DOMAIN documents, d # worker[w].document, TrailInv(d)
    PROVE  TrailInv(d)'
<1> PICK e : e = worker[w].document
  OBVIOUS
<1>1. /\ RunEffect(w) /\ worker[w].pc \in RunPc /\ TablesOK
  BY RunEffects, RunPcs, RunFacts DEF PipelineInv
<1>2. RunsKept(d) /\ documents'[d] = documents[d]
  BY <1>1, EffectKeepsOtherRuns DEF PipelineInv
<1>3. \A a : Audits(a, d) \in Nat
  BY <1>1, TrailCounts
<1>4. \A a \in TrailActions : Audits(a, d)' = Audits(a, d)
  <2> SUFFICES ASSUME NEW a \in TrailActions PROVE Audits(a, d)' = Audits(a, d)
    OBVIOUS
  <2>1. ASSUME NEW action, AuditRecord(action, e)
        PROVE  Audits(a, d)' = Audits(a, d)
    BY <1>1, <1>3, <2>1, RowAudited
  <2> QED
    BY <2>1, RunAudits, TrailUnwritten DEF PipelineInv
<1>5. /\ Cardinality(TasksOf(d))' = Cardinality(TasksOf(d))
      /\ \A decision \in Decisions : Decided(d, decision)' = Decided(d, decision)
  <2>1. CASE worker[w].pc = "create_task"
    <3>1. TaskOpened(e) /\ Cardinality(TasksOf(d)) \in Nat
      BY <1>1, <2>1, EffectRows, TrailCounts DEF PipelineInv
    <3> QED
      BY <1>1, <3>1, TaskCounted
  <2>2. CASE worker[w].pc # "create_task"
    <3>1. UNCHANGED reviewTasks
      BY <1>1, <2>2, EffectRows DEF SameRows, BatchInserted, PipelineInv
    <3> QED
      BY <3>1, TasksUnwritten
  <2> QED
    BY <2>1, <2>2
<1>6. CountFailed(d)' = CountFailed(d)
  BY <1>2 DEF CountFailed, RunsKept, AgentRunStatus
<1>7. \A pcs : "poll" \notin pcs => Owed(d, pcs)' = Owed(d, pcs)
  <2>1. worker'[w].document = e \/ worker'[w].pc = "poll"
    BY <1>1, EffectMoves DEF Polling
  <2> QED
    BY <2>1, OwedAlone
<1>8. \A decision : OwedDecision(d, decision)' = OwedDecision(d, decision)
  BY DEF OwedDecision
<1>9. \A s : HasStatus(d, s)' = HasStatus(d, s)
  BY <1>2 DEF HasStatus
<1>10. /\ \A decision \in Decisions : AuditActionOf[decision] \in TrailActions
       /\ {"document.auto_processed", "document.routed_to_review", "agent_run.retrying",
           "agent_run.failed"} \subseteq TrailActions
  BY DEF TrailActions, Decisions, AuditActionOf
<1> QED
  BY <1>4, <1>5, <1>6, <1>7, <1>8, <1>9, <1>10
  DEF TrailInv, ToAuditAuto, ToAuditRouted, ToAuditFailure, GivingUpPc

\* A claim, and an upload, add nothing to them.
LEMMA RowsKeepTrail ==
    ASSUME NEW d, TrailInv(d), UNCHANGED <<reviewTasks, auditLogs, review>>,
           documents'[d] = documents[d], CountFailed(d)' = CountFailed(d),
           \A pcs : pcs \cap ({"poll", "load"} \cup ClaimPc) = {} => Owed(d, pcs)' = Owed(d, pcs)
    PROVE  TrailInv(d)'
<1>1. /\ \A a : Audits(a, d)' = Audits(a, d)
      /\ Cardinality(TasksOf(d))' = Cardinality(TasksOf(d))
      /\ \A decision : Decided(d, decision)' = Decided(d, decision)
  BY TrailUnwritten, TasksUnwritten
<1>2. /\ \A decision : OwedDecision(d, decision)' = OwedDecision(d, decision)
      /\ \A s : HasStatus(d, s)' = HasStatus(d, s)
  BY DEF OwedDecision, HasStatus
<1>3. \A pcs \in {ToAuditAuto, ToAuditRouted, {"audit_failed"}, ToAuditFailure} :
        Owed(d, pcs)' = Owed(d, pcs)
  BY DEF ToAuditAuto, ToAuditRouted, ToAuditFailure, GivingUpPc, ClaimPc
<1> QED
  BY <1>1, <1>2, <1>3 DEF TrailInv

LEMMA ClaimKeepsTrail ==
    ASSUME Solo, Inv, MaxDatabaseErrors = 0, NEW w \in Workers, Claim(w), UNCHANGED review,
           NEW d \in DOMAIN documents, TrailInv(d)
    PROVE  TrailInv(d)'
<1>1. /\ UNCHANGED <<documents, reviewTasks, auditLogs>>
      /\ worker[w].pc \in {"poll"} \cup ClaimPc
      /\ worker'[w].pc \in {"poll", "load"} \cup ClaimPc
  <2>1. UNCHANGED auditLogs
    BY OthersAudits
  <2>2. /\ worker[w].pc \in {"poll", "lock", "open_run"}
        /\ UNCHANGED <<documents, reviewTasks>>
        /\ worker'[w] = Polling \/ worker'[w].pc \in {"lock", "open_run", "load"}
    BY ClaimMoves DEF RunOpened
  <2> QED
    BY <2>1, <2>2 DEF Polling, ClaimPc
<1>2. RunsWith(d, "FAILED")' = RunsWith(d, "FAILED")
  <2>1. UNCHANGED agentRuns \/ RunOpened(w)
    BY ClaimMoves
  <2> QED
    BY <2>1 DEF RunsWith, RunOpened
<1>3. \A pcs : pcs \cap ({"poll", "load"} \cup ClaimPc) = {} => Owed(d, pcs)' = Owed(d, pcs)
  BY <1>1, OwedAlone
<1> QED
  BY <1>1, <1>2, <1>3, RowsKeepTrail DEF CountFailed

LEMMA UploadKeepsTrails ==
    ASSUME Inv, MaxDatabaseErrors = 0, AuditsRefer, Upload, UNCHANGED <<workerVars, review>>,
           NEW d \in DOMAIN documents', d \in DOMAIN documents => TrailInv(d)
    PROVE  TrailInv(d)'
<1>1. /\ UNCHANGED <<agentRuns, reviewTasks, auditLogs, worker, review>>
      /\ \A e \in DOMAIN documents : documents'[e] = documents[e]
      /\ d \notin DOMAIN documents => documents'[d].status = "UPLOADED"
  BY DocumentCreated, OthersAudits DEF workerVars
<1>2. CountFailed(d)' = CountFailed(d) /\ \A pcs : Owed(d, pcs)' = Owed(d, pcs)
  BY <1>1 DEF CountFailed, RunsWith, Owed
<1>3. CASE d \in DOMAIN documents
  BY <1>1, <1>2, <1>3, RowsKeepTrail
<1>4. CASE d \notin DOMAIN documents
  <2>1. /\ TasksOf(d)' = {} /\ RunsWith(d, "FAILED")' = {}
        /\ \A a : {i \in DOMAIN auditLogs :
                      auditLogs[i].action = a /\ auditLogs[i].document = d}' = {}
    BY <1>1, <1>4 DEF Inv, TypeOK, RowsRefer, TasksOf, RunsWith, AuditsRefer
  <2>2. /\ \A w \in Workers : worker[w].pc \in RunPc => worker[w].document # d
        /\ \A u \in Reviewers : review[u].pc # "idle" => review[u].document # d
    BY <1>4 DEF Inv, TypeOK, WorkerRowsExist, ReviewRowsExist
  <2>3. /\ \A a : Audits(a, d)' = 0
        /\ Cardinality(TasksOf(d))' = 0 /\ CountFailed(d)' = 0
        /\ \A decision : Decided(d, decision)' = 0
    BY <2>1, FS_EmptySet DEF Audits, CountFailed, Decided
  <2>4. /\ \A pcs : pcs \subseteq RunPc => Owed(d, pcs)' = 0
        /\ \A decision : OwedDecision(d, decision)' = 0
    BY <1>1, <2>2 DEF Owed, OwedDecision
  <2>5. \A pcs \in {ToAuditAuto, ToAuditRouted, {"audit_failed"}, ToAuditFailure} :
          pcs \subseteq RunPc
    BY DEF ToAuditAuto, ToAuditRouted, ToAuditFailure, GivingUpPc, RunPc, ClosePc
  <2>6. HasStatus(d, "AUTO_PROCESSED")' = 0 /\ HasStatus(d, "FAILED")' = 0
    BY <1>1, <1>4 DEF HasStatus
  <2> QED
    BY <2>3, <2>4, <2>5, <2>6 DEF TrailInv
<1> QED
  BY <1>3, <1>4

\* A request adds to the counts of its document the decision it takes.
LEMMA ReviewKeepsTrail ==
    ASSUME Solo, OneReviewer, PipelineInv, TasksStillOpen, MaxDatabaseErrors = 0,
           TrailActions \subseteq Audited, NEW u \in Reviewers, SubmitStep(u),
           UNCHANGED workerVars, NEW d \in DOMAIN documents, TrailInv(d)
    PROVE  TrailInv(d)'
<1> PICK e, decided, from, to :
        /\ e = review[u].document /\ decided = review[u].decision
        /\ from = review[u].pc /\ to = review'[u].pc
  OBVIOUS
<1>1. /\ ReviewEffect(u) /\ UNCHANGED <<worker, agentRuns>> /\ TablesOK
      /\ ReviewRowsExist /\ decided \in Decisions /\ ~(databaseErrors < MaxDatabaseErrors)
  <2>1. review[u] \in ReviewState
    BY DEF PipelineInv, Inv, TypeOK, ReviewTypeOK
  <2> QED
    BY <2>1, ReviewEffects, SubmitKeepsRuns, NoErrorMove
    DEF workerVars, PipelineInv, Inv, TypeOK, DatabaseTypeOK, TablesOK, ReviewState
<1>2. /\ \A a : Audits(a, d) \in Nat
      /\ Cardinality(TasksOf(d)) \in Nat
      /\ \A decision : Decided(d, decision) \in Nat
  BY <1>1, TrailCounts
<1>3. /\ to = "mark_reviewed" <=> from = "resolve"
      /\ to = "audit" <=> from = "mark_reviewed"
      /\ from \in {"resolve", "mark_reviewed"} =>
            review'[u].document = e /\ review'[u].decision = decided
      /\ from = "resolve" => TaskResolved(review[u].task, ReviewStatusOf[decided])
      /\ from = "mark_reviewed" => StatusWritten(e, "REVIEWED")
      /\ from # "resolve" => UNCHANGED reviewTasks
      /\ from # "mark_reviewed" => UNCHANGED documents
  BY <1>1
  DEF ReviewEffect, Reviewing, Continues, NoRequest, SameRows, BatchInserted, TaskResolved,
      StatusWritten, DocumentSet
<1>4. \A pcs : Owed(d, pcs)' = Owed(d, pcs)
  BY <1>1 DEF Owed
<1>5. CountFailed(d)' = CountFailed(d)
  BY <1>1 DEF CountFailed, RunsWith
<1>6. \A s \in {"AUTO_PROCESSED", "FAILED"} : HasStatus(d, s)' = HasStatus(d, s)
  <2>1. CASE from = "mark_reviewed" /\ d = e
    <3>1. documents[d].status \in {"PENDING_REVIEW", "REVIEWED"}
      BY <2>1 DEF PipelineInv, StageInv, UnderReview, Reviewing, Disturbed
    <3>2. documents'[d].status = "REVIEWED"
      <4>1. documents[d] \in Document
        BY <1>1, ElementOfSeq DEF TablesOK
      <4> QED
        BY <1>3, <2>1, <4>1 DEF StatusWritten, DocumentSet, Document
    <3> QED
      BY <3>1, <3>2 DEF HasStatus
  <2>2. CASE ~(from = "mark_reviewed" /\ d = e)
    <3>1. documents'[d] = documents[d]
      BY <1>3, <2>2 DEF StatusWritten, DocumentSet
    <3> QED
      BY <3>1 DEF HasStatus
  <2> QED
    BY <2>1, <2>2
<1>7. \A a \in TrailActions :
        Audits(a, d)'
           = Audits(a, d)
                + (IF from = "audit" /\ d = e /\ a = AuditActionOf[decided] THEN 1 ELSE 0)
  <2>1. CASE from = "audit"
    <3>1. AuditRecord(AuditActionOf[decided], e)
      BY <2>1, OthersAudits DEF Reviewing, PipelineInv
    <3> QED
      BY <1>1, <2>1, <3>1, RowAudited
  <2>2. CASE from # "audit"
    <3>1. UNCHANGED auditLogs
      BY <2>2, OthersAudits DEF Reviewing, PipelineInv
    <3> QED
      BY <1>2, <2>2, <3>1, TrailUnwritten
  <2> QED
    BY <2>1, <2>2
<1>8. /\ Cardinality(TasksOf(d))' = Cardinality(TasksOf(d))
      /\ \A decision \in Decisions :
            Decided(d, decision)'
               = Decided(d, decision)
                    + (IF from = "resolve" /\ d = e /\ decision = decided THEN 1 ELSE 0)
  <2>1. CASE from = "resolve"
    <3>1. /\ review[u].task \in DOMAIN reviewTasks
          /\ reviewTasks[review[u].task].document = e
          /\ reviewTasks[review[u].task].status = "PENDING"
      BY <1>1, <2>1 DEF ReviewRowsExist, TasksStillOpen
    <3>2. TaskResolved(review[u].task, ReviewStatusOf[decided])
      BY <1>3, <2>1
    <3>3. /\ Cardinality(TasksOf(d))' = Cardinality(TasksOf(d))
          /\ \A decision \in Decisions :
                Decided(d, decision)'
                   = Decided(d, decision)
                        + (IF /\ d = reviewTasks[review[u].task].document
                              /\ decision = decided THEN 1 ELSE 0)
      <4> PICK t : t = review[u].task
        OBVIOUS
      <4>1. /\ TablesOK /\ decided \in Decisions
            /\ t \in DOMAIN reviewTasks /\ reviewTasks[t].status = "PENDING"
            /\ TaskResolved(t, ReviewStatusOf[decided])
        BY <1>1, <3>1, <3>2
      <4>2. /\ Cardinality(TasksOf(d))' = Cardinality(TasksOf(d))
            /\ \A decision \in Decisions :
                  Decided(d, decision)'
                     = Decided(d, decision)
                          + (IF d = reviewTasks[t].document /\ decision = decided
                             THEN 1 ELSE 0)
        BY <4>1, DecisionCounted, SMTT(60)
      <4> QED
        BY <4>2
    <3> QED
      BY <2>1, <3>1, <3>3
  <2>2. CASE from # "resolve"
    BY <1>2, <1>3, <2>2, TasksUnwritten
  <2> QED
    BY <2>1, <2>2
<1>9. /\ \A decision \in Decisions : AuditActionOf[decision] \in TrailActions
      /\ \A decision \in Decisions :
            AuditActionOf[decision] = AuditActionOf[decided] <=> decision = decided
      /\ AuditActionOf[decided] \notin {"document.auto_processed", "document.routed_to_review",
                                        "agent_run.retrying", "agent_run.failed"}
      /\ {"document.auto_processed", "document.routed_to_review", "agent_run.retrying",
          "agent_run.failed"} \subseteq TrailActions
  BY <1>1 DEF TrailActions, Decisions, AuditActionOf
<1>10. /\ Audits("document.auto_processed", d)' = Audits("document.auto_processed", d)
       /\ Audits("document.routed_to_review", d)' = Audits("document.routed_to_review", d)
       /\ Audits("agent_run.retrying", d)' = Audits("agent_run.retrying", d)
       /\ Audits("agent_run.failed", d)' = Audits("agent_run.failed", d)
  BY <1>2, <1>7, <1>9
<1>11. ASSUME NEW decision \in Decisions
       PROVE  Audits(AuditActionOf[decision], d)' + OwedDecision(d, decision)'
                 = Decided(d, decision)'
  <2>1. Audits(AuditActionOf[decision], d)'
           = Audits(AuditActionOf[decision], d)
                + (IF from = "audit" /\ d = e /\ decision = decided THEN 1 ELSE 0)
    BY <1>7, <1>9
  <2>2. /\ OwedDecision(d, decision)
              = IF e = d /\ from \in {"mark_reviewed", "audit"} /\ decided = decision
                THEN 1 ELSE 0
        /\ OwedDecision(d, decision)'
              = IF e = d /\ from \in {"resolve", "mark_reviewed"} /\ decided = decision
                THEN 1 ELSE 0
    BY <1>3, DecisionOwedAlone
  <2> QED
    BY <1>2, <1>8, <2>1, <2>2 DEF TrailInv
<1> QED
  BY <1>4, <1>5, <1>6, <1>8, <1>10, <1>11 DEF TrailInv

---------------------------------------------------------------------------
(* What the trail rests on *)

LEMMA LoadedKept ==
    ASSUME PipelineInv, AllLoaded, MaxDatabaseErrors = 0, MaxCrashes = 0, [Next]_vars
    PROVE  AllLoaded'
<1> SUFFICES ASSUME NEW w \in Workers, worker'[w].pc \in RunPc \ {"load"}
             PROVE  worker'[w].iterations > 0
  BY DEF AllLoaded, Loaded
<1>1. CASE worker'[w] = worker[w]
  BY <1>1 DEF AllLoaded, Loaded
<1>2. CASE worker'[w] # worker[w]
  <2>1. PICK v \in Workers : WorkerStep(v) \/ Crash(v)
    BY <1>2 DEF Next, WorkerNext, vars, workerVars
  <2>2. CASE Claim(v)
    <3>1. OthersStay(v) /\ worker'[v].pc \in {"poll", "lock", "open_run", "load"}
      <4>1. /\ OthersStay(v)
            /\ worker'[v] = Polling \/ worker'[v].pc \in {"lock", "open_run", "load"}
        BY <2>2, ClaimMoves DEF RunOpened, PipelineInv
      <4> QED
        BY <4>1 DEF Polling
    <3> QED
      BY <1>2, <3>1 DEF OthersStay, RunPc, StepPc, PersistPc, ClosePc
  <2>3. CASE Process(v) \/ Route(v) \/ Failure(v)
    <3>1. v = w /\ RunEffect(w) /\ worker[w].pc \in RunPc
      BY <1>2, <2>3, RunEffects, RunPcs, EffectMoves DEF OthersStay, PipelineInv
    <3>2. worker[w].iterations \in Nat
      BY DEF PipelineInv, Inv, TypeOK, WorkerTypeOK, WorkerState
    <3>3. \/ worker'[w].pc = "poll"
          \/ worker'[w].iterations
                = worker[w].iterations + (IF worker'[w].pc \in StepPc THEN 1 ELSE 0)
      BY <3>1, GoesWhere DEF RunEffect, ReadMove, ErrorMove, FailMove, WriteMove, GoesToOne
    <3>4. worker[w].pc = "load" => worker'[w].pc = "run_ocr"
      BY <2>3, <3>1, LoadedRuns DEF At, PipelineInv
    <3>5. worker[w].pc # "load" => worker[w].iterations > 0
      BY <3>1 DEF AllLoaded, Loaded
    <3>6. "poll" \notin RunPc /\ "run_ocr" \in StepPc
      BY PcFacts DEF StepPc
    <3> QED
      BY <3>2, <3>3, <3>4, <3>5, <3>6
  <2>4. CASE Crash(v)
    BY <2>4, CrashStops DEF PipelineInv
  <2> QED
    BY <2>1, <2>2, <2>3, <2>4 DEF WorkerStep
<1> QED
  BY <1>1, <1>2

LEMMA StillOpenKept ==
    ASSUME OneReviewer, PipelineInv, TasksStillOpen, MaxDatabaseErrors = 0, [Next]_vars
    PROVE  TasksStillOpen'
<1> SUFFICES ASSUME NEW u \in Reviewers, review'[u].pc \in {"save_fields", "resolve"}
             PROVE  reviewTasks'[review'[u].task].status = "PENDING"
  BY DEF TasksStillOpen
<1>1. ASSUME review'[u] = review[u],
             \A t \in DOMAIN reviewTasks : reviewTasks'[t] = reviewTasks[t]
      PROVE  reviewTasks'[review'[u].task].status = "PENDING"
  BY <1>1 DEF TasksStillOpen, PipelineInv, Inv, TypeOK, ReviewRowsExist
<1>2. ASSUME NEW w \in Workers, WorkerStep(w) \/ Crash(w), UNCHANGED review
      PROVE  \A t \in DOMAIN reviewTasks : reviewTasks'[t] = reviewTasks[t]
  <2>1. CASE Process(w) \/ Route(w) \/ Failure(w)
    <3>1. RunEffect(w)
      BY <2>1, RunEffects DEF PipelineInv
    <3>2. CASE worker[w].pc = "create_task"
      BY <3>1, <3>2, EffectRows DEF TaskOpened, PipelineInv
    <3>3. CASE worker[w].pc # "create_task"
      BY <3>1, <3>3, EffectRows DEF SameRows, BatchInserted, PipelineInv
    <3> QED
      BY <3>2, <3>3
  <2>2. CASE Claim(w) \/ Crash(w)
    BY <2>2, ClaimMoves, CrashStops DEF tables, PipelineInv
  <2> QED
    BY <1>2, <2>1, <2>2 DEF WorkerStep
<1>3. ASSUME NEW v \in Reviewers, SubmitStep(v)
      PROVE  reviewTasks'[review'[u].task].status = "PENDING"
  <2>1. v = u /\ ReviewEffect(u)
    BY <1>3, ReviewEffects DEF OneReviewer, PipelineInv
  <2>2. \/ /\ Reviewing(u, "load_task") /\ UNCHANGED reviewTasks
           /\ review'[u].task \in PendingTasks(review[u].document)
        \/ /\ Reviewing(u, "save_fields") /\ UNCHANGED reviewTasks
           /\ review'[u].task = review[u].task
    BY <2>1
    DEF ReviewEffect, Reviewing, Continues, NoRequest, SameRows, BatchInserted,
        GetPendingByDocument, Latest
  <2> QED
    BY <2>2 DEF TasksStillOpen, PendingTasks, Reviewing
<1>4. CASE Upload /\ UNCHANGED <<workerVars, review>>
  BY <1>1, <1>4, DocumentCreated DEF PipelineInv
<1> QED
  BY <1>1, <1>2, <1>3, <1>4 DEF Next, WorkerNext, ReviewNext, vars, tables

LEMMA AuditsReferKept ==
    ASSUME PipelineInv, AuditsRefer, MaxDatabaseErrors = 0, [Next]_vars
    PROVE  AuditsRefer'
<1>1. DOMAIN documents \subseteq DOMAIN documents'
  <2>1. CASE Upload
    BY <2>1, DocumentCreated DEF PipelineInv
  <2>2. ASSUME NEW w \in Workers, WorkerStep(w) \/ Crash(w)
        PROVE  DOMAIN documents' = DOMAIN documents
    BY <2>2, ClaimMoves, RunEffects, EffectDocuments, CrashStops
    DEF WorkerStep, tables, PipelineInv
  <2>3. ASSUME NEW u \in Reviewers, SubmitStep(u)
        PROVE  DOMAIN documents' = DOMAIN documents
    BY <2>3, ReviewEffects
    DEF PipelineInv, ReviewEffect, SameRows, BatchInserted, TaskResolved, StatusWritten,
        DocumentSet
  <2> QED
    BY <2>1, <2>2, <2>3 DEF Next, WorkerNext, ReviewNext, vars, tables
<1>2. ASSUME NEW action, NEW e \in DOMAIN documents, AuditRecord(action, e)
      PROVE  AuditsRefer'
  <2> DEFINE row == [action |-> action, document |-> e]
  <2>1. auditLogs' = Append(auditLogs, row) \/ auditLogs' = auditLogs
    BY <1>2 DEF AuditRecord
  <2>2. row.document = e
    OBVIOUS
  <2> HIDE DEF row
  <2>3. CASE auditLogs' = Append(auditLogs, row)
    <3>1. /\ DOMAIN auditLogs = 1..Len(auditLogs) /\ Len(auditLogs) \in Nat
          /\ DOMAIN auditLogs' = 1..(Len(auditLogs) + 1)
          /\ \A i \in 1..Len(auditLogs) : auditLogs'[i] = auditLogs[i]
          /\ auditLogs'[Len(auditLogs) + 1] = row
      BY <2>3, AppendProperties, LenProperties DEF PipelineInv, Inv, TypeOK, DatabaseTypeOK
    <3> QED
      BY <1>1, <2>2, <3>1 DEF AuditsRefer
  <2>4. CASE auditLogs' = auditLogs
    BY <1>1, <2>4 DEF AuditsRefer
  <2> QED
    BY <2>1, <2>3, <2>4
<1>3. CASE UNCHANGED auditLogs
  BY <1>1, <1>3 DEF AuditsRefer
<1>4. ASSUME NEW w \in Workers, Process(w) \/ Route(w) \/ Failure(w)
      PROVE  AuditsRefer'
  <2>1. worker[w].document \in DOMAIN documents
    BY <1>4, RunPcs, RunFacts DEF PipelineInv
  <2> QED
    BY <1>2, <1>3, <1>4, <2>1, RunAudits DEF PipelineInv
<1>5. ASSUME NEW u \in Reviewers, SubmitStep(u)
      PROVE  AuditsRefer'
  <2>1. Reviewing(u, "audit") => review[u].document \in DOMAIN documents
    BY DEF PipelineInv, Inv, TypeOK, ReviewRowsExist, Reviewing
  <2> QED
    BY <1>2, <1>3, <1>5, <2>1, OthersAudits DEF PipelineInv
<1>6. ASSUME NEW w \in Workers, Claim(w) \/ Crash(w) PROVE UNCHANGED auditLogs
  BY <1>6, OthersAudits, CrashStops DEF tables, PipelineInv
<1>7. CASE Upload \/ UNCHANGED vars
  BY <1>3, <1>7, OthersAudits DEF vars, tables, PipelineInv
<1> QED
  BY <1>3, <1>4, <1>5, <1>6, <1>7 DEF Next, WorkerNext, WorkerStep, ReviewNext

LEMMA TrailsInductive ==
    ASSUME Solo, OneReviewer, PipelineInv, AllTrailsInv, MaxDatabaseErrors = 0,
           MaxCrashes = 0, TrailActions \subseteq Audited, [Next]_vars
    PROVE  AllTrailsInv'
<1> USE DEF AllTrailsInv
<1>1. AllLoaded' /\ TasksStillOpen' /\ AuditsRefer'
  BY LoadedKept, StillOpenKept, AuditsReferKept
<1> SUFFICES ASSUME NEW d \in DOMAIN documents' PROVE TrailInv(d)'
  BY <1>1
<1>2. CASE Upload /\ UNCHANGED <<workerVars, review>>
  BY <1>2, UploadKeepsTrails DEF PipelineInv
<1>3. ASSUME NEW w \in Workers, WorkerStep(w) \/ Crash(w), UNCHANGED review
      PROVE  TrailInv(d)'
  <2>1. d \in DOMAIN documents
    BY <1>3, ClaimMoves, RunEffects, EffectDocuments, CrashStops
    DEF WorkerStep, tables, PipelineInv
  <2>2. CASE Claim(w)
    BY <1>3, <2>1, <2>2, ClaimKeepsTrail DEF PipelineInv
  <2>3. CASE Process(w) \/ Route(w) \/ Failure(w)
    BY <1>3, <2>1, <2>3, RunKeepsOwnTrail, RunKeepsOtherTrails
  <2>4. CASE Crash(w)
    BY <2>4, CrashStops DEF PipelineInv
  <2> QED
    BY <1>3, <2>2, <2>3, <2>4 DEF WorkerStep
<1>4. ASSUME NEW u \in Reviewers, SubmitStep(u), UNCHANGED workerVars
      PROVE  TrailInv(d)'
  <2>1. d \in DOMAIN documents
    BY <1>4, ReviewEffects
    DEF PipelineInv, ReviewEffect, SameRows, BatchInserted, TaskResolved, StatusWritten,
        DocumentSet
  <2> QED
    BY <1>4, <2>1, ReviewKeepsTrail
<1>5. CASE UNCHANGED vars
  <2>1. /\ d \in DOMAIN documents /\ UNCHANGED <<worker, agentRuns>>
        /\ UNCHANGED <<documents, reviewTasks, auditLogs, review>>
    BY <1>5 DEF vars, tables, workerVars
  <2>2. CountFailed(d)' = CountFailed(d) /\ \A pcs : Owed(d, pcs)' = Owed(d, pcs)
    BY <2>1 DEF CountFailed, RunsWith, Owed
  <2> QED
    BY <2>1, <2>2, RowsKeepTrail
<1> QED
  BY <1>2, <1>3, <1>4, <1>5 DEF Next, WorkerNext, ReviewNext

\* With one worker and one reviewer, where no statement fails and the worker
\* does not stop, the audit log is complete whenever nobody is at work: one
\* row for each outcome, task, failed run and decision (runner.go:357, 381,
\* 405, 419; review_handler.go:119).
THEOREM AuditTrailCompleteHolds ==
    ASSUME Solo, OneReviewer, MaxDatabaseErrors = 0, MaxCrashes = 0,
           TrailActions \subseteq Audited
    PROVE  Spec => []AuditTrailComplete
<1>1. ClaimsApart
  BY DEF ClaimsApart
<1>2. Init => AllTrailsInv
  <2> SUFFICES ASSUME Init PROVE AllTrailsInv
    OBVIOUS
  <2>1. /\ \A w \in Workers : worker[w].pc = "poll"
        /\ \A u \in Reviewers : review[u].pc = "idle"
        /\ DOMAIN documents = {} /\ DOMAIN auditLogs = {}
    BY DEF Init, DatabaseInit, WorkerInit, ReviewInit, Polling, NoRequest
  <2>2. "poll" \notin RunPc
    BY PcFacts
  <2> QED
    BY <2>1, <2>2 DEF AllTrailsInv, AllLoaded, TasksStillOpen, AuditsRefer
<1>3. PipelineInv /\ AllTrailsInv /\ [Next]_vars => AllTrailsInv'
  BY TrailsInductive
<1>4. PipelineInv /\ AllTrailsInv => AuditTrailComplete
  <2> SUFFICES ASSUME PipelineInv, AllTrailsInv, Quiet, NEW d \in DOMAIN documents
               PROVE  /\ Audits("document.auto_processed", d)
                            = IF documents[d].status = "AUTO_PROCESSED" THEN 1 ELSE 0
                      /\ Audits("document.routed_to_review", d) = Cardinality(TasksOf(d))
                      /\ Audits("agent_run.failed", d)
                            = IF documents[d].status = "FAILED" THEN 1 ELSE 0
                      /\ Audits("agent_run.retrying", d) + Audits("agent_run.failed", d)
                            = CountFailed(d)
                      /\ \A decision \in Decisions :
                            Audits(AuditActionOf[decision], d) = Decided(d, decision)
    BY DEF AuditTrailComplete, Decided
  <2>1. TrailInv(d)
    BY DEF AllTrailsInv
  <2>2. /\ \A a : Audits(a, d) \in Nat
        /\ Cardinality(TasksOf(d)) \in Nat /\ CountFailed(d) \in Nat
        /\ \A decision : Decided(d, decision) \in Nat
    BY TrailCounts DEF PipelineInv, Inv, TypeOK, DatabaseTypeOK, TablesOK
  <2>3. /\ \A pcs : "poll" \notin pcs => Owed(d, pcs) = 0
        /\ \A decision : OwedDecision(d, decision) = 0
    BY DEF Quiet, At, Reviewing, Owed, OwedDecision
  <2>4. \A pcs \in {ToAuditAuto, ToAuditRouted, {"audit_failed"}, ToAuditFailure} :
          Owed(d, pcs) = 0
    BY <2>3 DEF ToAuditAuto, ToAuditRouted, ToAuditFailure, GivingUpPc
  <2> QED
    BY <2>1, <2>2, <2>3, <2>4 DEF TrailInv, HasStatus
<1> QED
  BY <1>1, <1>2, <1>3, <1>4, PipelineInvHolds, PTL DEF Spec
=============================================================================
