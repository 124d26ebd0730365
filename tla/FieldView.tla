----------------------------- MODULE FieldView -----------------------------
(***************************************************************************)
(* What extracted_fields promises a reader of GET /documents/{id}, without *)
(* rows and batches: every document has a value per field name, the agent  *)
(* adds to it as long as no human has corrected it, and a correction is    *)
(* final (docs/SRS.md, Human Review: "Corrections are persisted as the     *)
(* authoritative field values").                                           *)
(***************************************************************************)
CONSTANT Documents

VARIABLES
    view,              \* document -> field name -> value
    corrected          \* document -> field name -> the value a reviewer gave it

viewVars == <<view, corrected>>

Empty == [name \in {} |-> name]

Init ==
    /\ view = [d \in Documents |-> Empty]
    /\ corrected = [d \in Documents |-> Empty]

Others(d) == \A e \in Documents \ {d} : view'[e] = view[e] /\ corrected'[e] = corrected[e]

\* The agent gives values to some names; no name is lost.
Extract(d) ==
    /\ corrected[d] = Empty /\ corrected'[d] = Empty
    /\ DOMAIN view[d] \subseteq DOMAIN view'[d]
    /\ Others(d)

\* A reviewer gives values to some names: those are what readers get, and
\* every other name keeps its value.
Correct(d) ==
    LET old == view[d]
        new == view'[d]
        given == corrected'[d]
    IN  /\ given # Empty
        /\ DOMAIN corrected[d] \subseteq DOMAIN given
        /\ DOMAIN new = DOMAIN old \cup DOMAIN given
        /\ \A name \in DOMAIN new :
              new[name] = IF name \in DOMAIN given THEN given[name] ELSE old[name]
        /\ Others(d)

Spec == Init /\ [][\E d \in Documents : Extract(d) \/ Correct(d)]_viewVars
=============================================================================
