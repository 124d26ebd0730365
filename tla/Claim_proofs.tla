----------------------------- MODULE Claim_proofs -----------------------------
(***************************************************************************)
(* Claims that do not overlap keep a document from being processed twice   *)
(* at once: the NOT EXISTS clause of claim.go is enough for any number of  *)
(* workers whose claim transactions run one after the other, or for a      *)
(* single worker. The run overlapping_claims shows that the row lock does  *)
(* not make them so.                                                       *)
(***************************************************************************)
EXTENDS DocumentSystem_proofs

\* A worker is alone: no other is there to interleave with.
Solo == \A v, w \in Workers : v = w

\* Requests of reviewers do not overlap: there is one reviewer.
OneReviewer == \A u, v \in Reviewers : u = v

\* Claims do not overlap, because they are serialized or there is one worker.
ClaimsApart == ClaimsSerialized \/ Solo

Unclaimed(d) == RunsWith(d, "RUNNING") = {}

\* One worker claims at a time, and what it saw unclaimed still is.
ClaimInv ==
    /\ \A v, w \in Workers :
          worker[v].pc \in ClaimPc /\ worker[w].pc \in ClaimPc => v = w
    /\ \A w \in Workers :
          /\ worker[w].pc = "lock" => \A d \in worker[w].snapshot : Unclaimed(d)
          /\ worker[w].pc = "open_run" => Unclaimed(worker[w].document)
    /\ OneRunningRun

\* A worker that is not claiming once it has moved
NoNewClaim ==
    \A w \in Workers : worker'[w].pc \in ClaimPc => worker'[w] = worker[w]

LEMMA NoRunOpenedKeeps ==
    ASSUME ClaimInv, NoRunOpened, NoNewClaim, TablesGrow, Inv
    PROVE  ClaimInv'
<1>1. ASSUME NEW d PROVE RunsWith(d, "RUNNING")' \subseteq RunsWith(d, "RUNNING")
  BY DEF NoRunOpened, RunsWith
<1>2. OneRunningRun'
  <2> SUFFICES ASSUME NEW d \in DOMAIN documents',
                      NEW r \in RunsWith(d, "RUNNING")', NEW s \in RunsWith(d, "RUNNING")'
               PROVE  r = s
    BY DEF OneRunningRun
  <2>1. r \in RunsWith(d, "RUNNING") /\ s \in RunsWith(d, "RUNNING")
    BY <1>1
  <2>2. d \in DOMAIN documents
    BY <2>1 DEF RunsWith, Inv, TypeOK, RowsRefer
  <2> QED
    BY <2>1, <2>2 DEF ClaimInv, OneRunningRun
<1>3. ASSUME NEW d, Unclaimed(d) PROVE Unclaimed(d)'
  BY <1>1, <1>3 DEF Unclaimed
<1>4. ASSUME NEW w \in Workers
      PROVE  /\ worker'[w].pc = "lock" => \A d \in worker'[w].snapshot : Unclaimed(d)'
             /\ worker'[w].pc = "open_run" => Unclaimed(worker[w].document)'
  BY <1>3 DEF NoNewClaim, ClaimInv, ClaimPc
<1>5. ASSUME NEW w \in Workers, worker'[w].pc = "open_run"
      PROVE  worker'[w] = worker[w]
  BY <1>5 DEF NoNewClaim, ClaimPc
<1>6. ASSUME NEW v \in Workers, NEW w \in Workers,
             worker'[v].pc \in ClaimPc, worker'[w].pc \in ClaimPc
      PROVE  v = w
  BY <1>6 DEF NoNewClaim, ClaimInv
<1> QED
  BY <1>2, <1>4, <1>5, <1>6 DEF ClaimInv, Unclaimed, RunsWith

LEMMA RunMoveClaims ==
    ASSUME Inv, NEW w \in Workers, RunMove(w)
    PROVE  NoNewClaim
BY PcFacts DEF RunMove, Polling, NoNewClaim, ClaimPc, Inv, TypeOK, WorkerTypeOK

LEMMA SnapshotKeepsClaims ==
    ASSUME Inv, ClaimInv, ClaimsApart, NEW w \in Workers, ClaimSnapshot(w)
    PROVE  ClaimInv'
<1>1. /\ worker \in [Workers -> WorkerState]
      /\ UNCHANGED <<documents, agentRuns>>
      /\ \A v \in Workers \ {w} : worker[v].pc \notin ClaimPc
      /\ worker' = [worker EXCEPT ![w] =
                       [@ EXCEPT !.pc = "lock", !.snapshot = Claimable]]
  BY DEF Inv, TypeOK, WorkerTypeOK, ClaimSnapshot, OthersClaiming, NoStatement, tables,
     ClaimsApart, Solo
<1>2. /\ worker'[w] = [worker[w] EXCEPT !.pc = "lock", !.snapshot = Claimable]
      /\ \A v \in Workers \ {w} : worker'[v] = worker[v]
  BY <1>1
<1>3. worker[w] \in WorkerState
  BY <1>1
<1>4. worker'[w].pc = "lock" /\ worker'[w].snapshot = Claimable
  BY <1>2, <1>3 DEF WorkerState
<1>5. \A d \in Claimable : Unclaimed(d)'
  BY <1>1 DEF Claimable, Unclaimed, RunsWith
<1>6. OneRunningRun'
  BY <1>1 DEF ClaimInv, OneRunningRun, RunsWith
<1>7. \A v \in Workers : worker'[v].pc \in ClaimPc => v = w
  BY <1>1, <1>2
<1> QED
  BY <1>4, <1>5, <1>6, <1>7 DEF ClaimInv, ClaimPc

LEMMA LockKeepsClaims ==
    ASSUME Inv, ClaimInv, NEW w \in Workers, ClaimLock(w)
    PROVE  ClaimInv'
<1>1. /\ worker \in [Workers -> WorkerState] /\ worker[w].pc = "lock"
      /\ UNCHANGED <<documents, agentRuns>> /\ Harmless
  BY NoStatementHarmless
  DEF Inv, TypeOK, WorkerTypeOK, ClaimLock, At, NoStatement, tables
<1>2. CASE Return(w)
  BY <1>1, <1>2, ReturnMoves, RunMoveClaims, NoRunOpenedKeeps DEF Harmless
<1>3. ASSUME NEW d \in Earliest(Lockable(w)),
             worker' = [worker EXCEPT ![w] =
                           [@ EXCEPT !.pc = "open_run", !.snapshot = {}, !.document = d]]
      PROVE  ClaimInv'
  <2>1. d \in worker[w].snapshot /\ Unclaimed(d)
    BY <1>1 DEF Earliest, Lockable, ClaimInv
  <2>2. /\ worker'[w] = [worker[w] EXCEPT !.pc = "open_run", !.snapshot = {}, !.document = d]
        /\ \A v \in Workers \ {w} : worker'[v] = worker[v]
        /\ worker[w] \in WorkerState
    BY <1>1, <1>3
  <2>3. worker'[w].pc = "open_run" /\ worker'[w].document = d
    BY <2>2 DEF WorkerState
  <2>4. \A v \in Workers : worker'[v].pc \in ClaimPc => v = w
    BY <1>1, <2>2 DEF ClaimInv, ClaimPc
  <2>5. Unclaimed(d)' /\ OneRunningRun'
    BY <1>1, <2>1 DEF ClaimInv, OneRunningRun, Unclaimed, RunsWith
  <2> QED
    BY <2>3, <2>4, <2>5 DEF ClaimInv, ClaimPc, Unclaimed, RunsWith
<1> QED
  BY <1>2, <1>3 DEF ClaimLock

LEMMA OpenRunKeepsClaims ==
    ASSUME Inv, ClaimInv, NEW w \in Workers, ClaimOpenRun(w)
    PROVE  ClaimInv'
<1>1. /\ worker \in [Workers -> WorkerState] /\ worker[w] \in WorkerState
      /\ worker[w].pc = "open_run" /\ TablesOK /\ databaseErrors \in Nat
      /\ worker[w].document \in DOMAIN documents
  BY DEF Inv, TypeOK, WorkerTypeOK, WorkerRowsExist, DatabaseTypeOK, TablesOK, ClaimOpenRun, At
<1>2. CASE UNCHANGED tables /\ Return(w) /\ databaseErrors' = databaseErrors + 1
  BY <1>1, <1>2, ErrorHarmless, ReturnMoves, RunMoveClaims, NoRunOpenedKeeps DEF Harmless
<1>3. CASE /\ InsertRun(worker[w].document)
           /\ worker' = [worker EXCEPT ![w] =
                            [@ EXCEPT !.pc = "load", !.run = Len(agentRuns) + 1]]
  <2> DEFINE n == Len(agentRuns) + 1
  <2>1. /\ agentRuns'[n].document = worker[w].document
        /\ \A r \in DOMAIN agentRuns' :
              (r \in DOMAIN agentRuns /\ agentRuns'[r] = agentRuns[r]) \/ r = n
    BY <1>1, <1>3, InsertRunGrows
  <2>2. Unclaimed(worker[w].document) /\ UNCHANGED documents
    BY <1>1, <1>3 DEF ClaimInv, InsertRun, AgentRunWritten
  <2> HIDE DEF n
  <2>3. ASSUME NEW d \in DOMAIN documents,
               NEW r \in RunsWith(d, "RUNNING")', NEW s \in RunsWith(d, "RUNNING")'
        PROVE  r = s
    <3>1. CASE d = worker[w].document
      BY <2>1, <2>2, <3>1 DEF Unclaimed, RunsWith
    <3>2. CASE d # worker[w].document
      <4>1. r \in RunsWith(d, "RUNNING") /\ s \in RunsWith(d, "RUNNING")
        BY <2>1, <3>2 DEF RunsWith
      <4> QED
        BY <4>1 DEF ClaimInv, OneRunningRun
    <3> QED
      BY <3>1, <3>2
  <2>4. /\ worker'[w].pc = "load"
        /\ \A v \in Workers \ {w} : worker'[v] = worker[v]
    BY <1>1, <1>3 DEF WorkerState
  <2>5. \A v \in Workers : worker'[v].pc \notin ClaimPc
    BY <1>1, <2>4 DEF ClaimInv, ClaimPc
  <2> QED
    BY <2>2, <2>3, <2>5 DEF ClaimInv, ClaimPc, OneRunningRun
<1> QED
  BY <1>2, <1>3 DEF ClaimOpenRun, Attempt

\* Every step keeps the claims apart, because no two are under way at once.
THEOREM ClaimInvInductive ==
    ASSUME ClaimsApart
    PROVE  Inv /\ ClaimInv /\ [Next]_vars => ClaimInv'
<1> SUFFICES ASSUME Inv, ClaimInv, [Next]_vars PROVE ClaimInv'
  OBVIOUS
<1>1. CASE Upload /\ UNCHANGED <<workerVars, review>>
  <2>1. Harmless
    BY <1>1, CreateDocumentHarmless DEF Upload, Inv, TypeOK, TablesOK, DatabaseTypeOK
  <2>2. NoNewClaim
    BY <1>1 DEF NoNewClaim, workerVars
  <2> QED
    BY <2>1, <2>2, NoRunOpenedKeeps DEF Harmless
<1>2. ASSUME NEW w \in Workers, WorkerStep(w) \/ Crash(w)
      PROVE  ClaimInv'
  <2>1. CASE Claim(w)
    BY <2>1, SnapshotKeepsClaims, LockKeepsClaims, OpenRunKeepsClaims DEF Claim
  <2>2. CASE Process(w) \/ Route(w) \/ Failure(w)
    BY <2>2, RunSteps, RunMoveClaims, NoRunOpenedKeeps DEF RunStep, Harmless
  <2>3. CASE Crash(w)
    BY <2>3, ReturnMoves, RunMoveClaims, NoStatementHarmless, NoRunOpenedKeeps
    DEF Crash, Harmless
  <2> QED
    BY <1>2, <2>1, <2>2, <2>3 DEF WorkerStep
<1>3. CASE ReviewNext /\ UNCHANGED workerVars
  <2>1. Harmless
    BY <1>3, SubmitStepHarmless DEF ReviewNext
  <2>2. NoNewClaim
    BY <1>3 DEF NoNewClaim, workerVars
  <2> QED
    BY <2>1, <2>2, NoRunOpenedKeeps DEF Harmless
<1>4. CASE UNCHANGED vars
  <2>1. NoStatement /\ NoNewClaim
    BY <1>4 DEF vars, NoStatement, NoNewClaim, workerVars
  <2> QED
    BY <2>1, NoStatementHarmless, NoRunOpenedKeeps DEF Harmless
<1> QED
  BY <1>1, <1>2, <1>3, <1>4 DEF Next, WorkerNext

\* When claims do not overlap, a document never has two RUNNING runs: no two
\* workers process it at once (claim.go), wherever they crash and whatever
\* statements fail.
THEOREM OneRunningRunHolds ==
    ASSUME ClaimsApart
    PROVE  Spec => []OneRunningRun
<1>1. Init => ClaimInv
  BY DEF Init, DatabaseInit, WorkerInit, Polling, ClaimInv, ClaimPc, OneRunningRun
<1>2. Inv /\ ClaimInv /\ [Next]_vars => ClaimInv'
  BY ClaimInvInductive
<1>3. ClaimInv => OneRunningRun
  BY DEF ClaimInv
<1> QED
  BY <1>1, <1>2, <1>3, InvHolds, PTL DEF Spec
=============================================================================
