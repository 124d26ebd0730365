----------------------------- MODULE ReviewDesk -----------------------------
(***************************************************************************)
(* POST /documents/{id}/review: ReviewHandler.Submit, executed by the API  *)
(* server for one reviewer at a time and for several reviewers at once.    *)
(* The handler is not one transaction: each access to the database is an   *)
(* action.  A request whose statement fails, because the database does or  *)
(* because the client has gone and its context is cancelled, leaves what   *)
(* it has written.                                                         *)
(***************************************************************************)
EXTENDS Database

VARIABLE review          \* the local variables of each reviewer's request

Decisions == {"approve", "reject", "correct"}

\* decisionToReviewStatus, decisionToAuditAction
ReviewStatusOf ==
    [approve |-> "APPROVED", reject |-> "REJECTED", correct |-> "CORRECTED"]

AuditActionOf ==
    [approve |-> "review.approved", reject |-> "review.rejected",
     correct |-> "review.corrected"]

ReviewState ==
    [pc : {"idle", "load_task", "save_fields", "resolve", "mark_reviewed", "audit"},
     document : Nat, task : Nat, decision : Decisions]

NoRequest == [pc |-> "idle", document |-> 0, task |-> 0, decision |-> "approve"]

ReviewTypeOK == review \in [Reviewers -> ReviewState]

\* The rows a request works on exist.
ReviewRowsExist ==
    \A u \in Reviewers :
        /\ review[u].pc # "idle" => review[u].document \in DOMAIN documents
        /\ review[u].pc \notin {"idle", "load_task"} =>
              /\ review[u].task \in DOMAIN reviewTasks
              /\ reviewTasks[review[u].task].document = review[u].document

ReviewInit == review = [u \in Reviewers |-> NoRequest]

Reviewing(u, pc) == review[u].pc = pc

Proceed(u, pc) == review' = [review EXCEPT ![u] = [@ EXCEPT !.pc = pc]]

Respond(u) == review' = [review EXCEPT ![u] = NoRequest]

\* A request that passes the checks of its body and finds the document
\* PENDING_REVIEW; any other is answered 400, 404 or 409 and changes nothing.
AcceptRequest(u) ==
    /\ Reviewing(u, "idle")
    /\ \E d \in DOMAIN documents, decision \in Decisions :
          /\ documents[d].status = "PENDING_REVIEW"
          /\ review' = [review EXCEPT ![u] =
                [pc |-> "load_task", document |-> d, task |-> 0, decision |-> decision]]
    /\ NoStatement

\* No open task: 409.
LoadTask(u) ==
    /\ Reviewing(u, "load_task")
    /\ Attempt(UNCHANGED tables,
               \/ PendingTasks(review[u].document) = {} /\ Respond(u)
               \/ \E t \in GetPendingByDocument(review[u].document) :
                     review' = [review EXCEPT ![u] =
                        [@ EXCEPT !.task = t,
                                  !.pc = IF review[u].decision = "correct"
                                         THEN "save_fields" ELSE "resolve"]],
               Respond(u))

\* Mutant of SaveCorrections: an error is logged and the task decided.
SaveCorrectionsLogged(u) ==
    /\ Reviewing(u, "save_fields")
    /\ Attempt(InsertBatch(review[u].document, u), Proceed(u, "resolve"), Proceed(u, "resolve"))

SaveCorrections(u) ==
    /\ Reviewing(u, "save_fields")
    /\ Attempt(InsertBatch(review[u].document, u), Proceed(u, "resolve"), Respond(u))

\* Mutant of ResolveTask: a rejected document is not marked.
ResolveTaskOnlyIfRejected(u) ==
    /\ Reviewing(u, "resolve")
    /\ Attempt(Resolve(review[u].task, ReviewStatusOf[review[u].decision], u),
               Proceed(u, IF review[u].decision = "reject" THEN "audit" ELSE "mark_reviewed"),
               Respond(u))

ResolveTask(u) ==
    /\ Reviewing(u, "resolve")
    /\ Attempt(Resolve(review[u].task, ReviewStatusOf[review[u].decision], u),
               Proceed(u, "mark_reviewed"), Respond(u))

CloseDocument(u) ==
    /\ Reviewing(u, "mark_reviewed")
    /\ Attempt(MarkReviewed(review[u].document), Proceed(u, "audit"), Respond(u))

AuditDecision(u) ==
    /\ Reviewing(u, "audit")
    /\ Attempt(AuditRecord(AuditActionOf[review[u].decision], review[u].document),
               Respond(u), Respond(u))

SubmitStep(u) ==
    \/ AcceptRequest(u) \/ LoadTask(u) \/ SaveCorrections(u)
    \/ ResolveTask(u) \/ CloseDocument(u) \/ AuditDecision(u)

ReviewNext == \E u \in Reviewers : SubmitStep(u)
=============================================================================
