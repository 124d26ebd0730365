-------------------------- MODULE DocumentLifecycle --------------------------
(***************************************************************************)
(* What the pipeline promises about one document's status, as             *)
(* internal/domain/document.go and agent-architecture.md describe it: the  *)
(* document advances one stage at a time, leaves the pipeline once, and    *)
(* goes back to UPLOADED only for a retry within the retry budget.         *)
(***************************************************************************)
EXTENDS Integers

CONSTANTS DocumentIds, MaxRetries

VARIABLES
    status,     \* "ABSENT" until the document is uploaded
    failures    \* how many of its agent runs have failed

lifecycleVars == <<status, failures>>

Active == {"UPLOADED", "CLASSIFIED", "EXTRACTED", "VALIDATED"}

Init ==
    /\ status = [d \in DocumentIds |-> "ABSENT"]
    /\ failures = [d \in DocumentIds |-> 0]

Move(d, from, to) ==
    /\ status[d] \in from
    /\ status' = [status EXCEPT ![d] = to]
    /\ UNCHANGED failures

Upload(d) == Move(d, {"ABSENT"}, "UPLOADED")

Classify(d) == Move(d, {"UPLOADED"}, "CLASSIFIED")

Extract(d) == Move(d, {"CLASSIFIED"}, "EXTRACTED")

Validate(d) == Move(d, {"EXTRACTED"}, "VALIDATED")

AutoProcess(d) == Move(d, {"VALIDATED"}, "AUTO_PROCESSED")

\* Unknown type, failed validation, a duplicate or low confidence: never
\* between classification and extraction.
Park(d) == Move(d, {"UPLOADED", "EXTRACTED", "VALIDATED"}, "PENDING_REVIEW")

Review(d) == Move(d, {"PENDING_REVIEW"}, "REVIEWED")

AttemptFails(d) ==
    /\ status[d] \in Active
    /\ failures' = [failures EXCEPT ![d] = @ + 1]
    /\ UNCHANGED status

Retry(d) ==
    /\ failures[d] <= MaxRetries
    /\ Move(d, Active, "UPLOADED")

GiveUp(d) == Move(d, Active, "FAILED")

Next ==
    \E d \in DocumentIds :
        \/ Upload(d) \/ Classify(d) \/ Extract(d) \/ Validate(d)
        \/ AutoProcess(d) \/ Park(d) \/ Review(d)
        \/ AttemptFails(d) \/ Retry(d) \/ GiveUp(d)

Spec == Init /\ [][Next]_lifecycleVars
=============================================================================
