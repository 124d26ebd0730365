-------------------------- MODULE ExtractedFields --------------------------
(***************************************************************************)
(* The fields of a document, name by name: what the pipeline reads out of  *)
(* its text (FieldExtraction), the rows of extracted_fields it stores,     *)
(* what GET /documents/{id} and the review page make of them, and the      *)
(* corrections a reviewer submits.                                         *)
(*                                                                         *)
(* Every action is one of DocumentSystem together with the values it moves *)
(* or goes by, or a read of the API's.  What DocumentSystem leaves open -  *)
(* the type found, whether validation and the confidence gate pass - is    *)
(* computed here.                                                          *)
(***************************************************************************)
EXTENDS DocumentSystem, FieldExtraction

CONSTANTS
    TextOf,            \* content -> [words, lines] of its OCR text
    ClassifyAnswers,   \* content -> the inputs of classify_document Claude may give
    ExtractAnswers,    \* content -> ... and of extract_fields
    ApiForms,          \* corrected_fields sent by a client that is no browser
    Edits,             \* the [name, text] pairs reviewers type into the page
    MaxEdits           \* bound: how many fields of a page are typed into

ASSUME ExtractedFieldsAssumption == MaxEdits \in Nat

VARIABLES
    provider,          \* LLM_PROVIDER
    classification,    \* document_type_id and its confidence, per document
    fieldRows,         \* the rows of each batch of extractedFields
    extraction,        \* result and extraction.Fields of each worker's run
    page,              \* the review page each reviewer has open
    form               \* req.CorrectedFields of each reviewer's request

fieldVars == <<provider, classification, fieldRows, extraction, page, form>>

Empty == [name \in {} |-> Missing]

Unclassified == [type |-> "none", confidence |-> 0]

NothingRead == [found |-> Unclassified, fields |-> Empty]

\* "row": the document's row is read, its fields are not
ClosedPage ==
    [pc |-> "closed", document |-> 0, status |-> "in_progress", texts |-> Empty, edited |-> {}]

\* seen: the status the page showed, "none" for a request without a page
NoForm == [values |-> Empty, edited |-> {}, seen |-> "none"]

FieldsInit ==
    /\ Init
    /\ provider \in {"stub", "anthropic"}
    /\ classification = << >>
    /\ fieldRows = << >>
    /\ extraction = [w \in Workers |-> NothingRead]
    /\ page = [u \in Reviewers |-> ClosedPage]
    /\ form = [u \in Reviewers |-> NoForm]

---------------------------------------------------------------------------
(* extracted_fields *)

RowsOf(d, name) == {b \in BatchesOf(d) : name \in DOMAIN fieldRows[b]}

NamesOf(d) == UNION {DOMAIN fieldRows[b] : b \in BatchesOf(d)}

\* Mutant of Shown: ORDER BY created_at ASC.
ShownEarliest(d) ==
    [name \in NamesOf(d) |->
        fieldRows[CHOOSE b \in Earliest(RowsOf(d, name)) : TRUE][name]]

\* ListByDocument: the latest row of each name
Shown(d) ==
    [name \in NamesOf(d) |->
        fieldRows[CHOOSE b \in Latest(RowsOf(d, name)) : TRUE][name]]

CorrectionsOf(d) == {b \in BatchesOf(d) : extractedFields[b].author # Agent}

\* The last value reviewers gave each field
Corrected(d) ==
    [name \in UNION {DOMAIN fieldRows[b] : b \in CorrectionsOf(d)} |->
        fieldRows[CHOOSE b \in Latest(RowsOf(d, name) \cap CorrectionsOf(d)) : TRUE][name]]

---------------------------------------------------------------------------
(* The worker *)

Content(w) == documents[worker[w].document].content

Text(w) == TextOf[Content(w)]

Failing(w) == worker'[w].pc = "fail_finish"

SchemaOf(w) == Schema[extraction[w].found.type]

Classifications(w) ==
    IF provider = "stub" THEN {StubClassify(Text(w).words)}
    ELSE {AnthropicClassify(answer) : answer \in ClassifyAnswers[Content(w)]}

\* The stub returns no error.
ClassifyText(w) ==
    /\ ClassifyDocument(w)
    /\ IF Failing(w) THEN provider # "stub" /\ UNCHANGED extraction
       ELSE \E found \in Classifications(w) :
               /\ worker'[w].pc = "create_task" <=> found.type = "unknown"
               /\ extraction' = [extraction EXCEPT ![w] = [@ EXCEPT !.found = found]]
    /\ UNCHANGED <<provider, classification, fieldRows, page, form>>

StoreClassification(w) ==
    /\ PersistClassification(w)
    /\ classification' =
          IF Failing(w) THEN classification
          ELSE [classification EXCEPT ![worker[w].document] = extraction[w].found]
    /\ UNCHANGED <<provider, fieldRows, extraction, page, form>>

Extractions(w) ==
    IF provider = "stub" THEN StubExtractions(Text(w).lines, SchemaOf(w))
    ELSE {AnthropicExtract(answer, SchemaOf(w)) : answer \in ExtractAnswers[Content(w)]}

KeyOf(fields) == IF Complete(fields) THEN KeyFieldsHash(fields) ELSE NoKey

\* The schema cannot be read, or the provider fails, or it returns fields.
ExtractText(w) ==
    /\ ExtractFields(w)
    /\ IF Failing(w) THEN UNCHANGED extraction
       ELSE \E fields \in Extractions(w) :
               /\ worker'[w].key = KeyOf(fields)
               /\ extraction' = [extraction EXCEPT ![w] = [@ EXCEPT !.fields = fields]]
    /\ UNCHANGED <<provider, classification, fieldRows, page, form>>

\* The transaction inserts the rows of every field, or none.
StoreFields(w) ==
    /\ PersistFields(w)
    /\ Failing(w) /\ UNCHANGED databaseErrors <=> ~Storable(extraction[w].fields)
    /\ fieldRows' = IF Failing(w) THEN fieldRows
                    ELSE Append(fieldRows, extraction[w].fields)
    /\ UNCHANGED <<provider, classification, extraction, page, form>>

ValidateFields(w) ==
    /\ ValidateExtraction(w)
    /\ worker'[w].pc = "mark_validated"
          <=> Validate(SchemaOf(w), ValuesOf(extraction[w].fields)) = {}
    /\ UNCHANGED fieldVars

WeighConfidence(w) ==
    /\ CalculateConfidence(w)
    /\ \/ Failing(w)
       \/ (worker'[w].pc = "finalize")
             \in ConfidenceGate(extraction[w].found.type, extraction[w].found.confidence,
                                extraction[w].fields)
    /\ UNCHANGED fieldVars

\* extraction is a local variable of process.
ForgetAtReturn(w) ==
    extraction' = IF worker'[w].pc = "poll"
                  THEN [extraction EXCEPT ![w] = NothingRead] ELSE extraction

\* Every other statement of a run
OtherStep(w) ==
    /\ \/ Claim(w) \/ Route(w) \/ Failure(w)
       \/ LoadDocument(w) \/ IterationCapReached(w) \/ RunOCR(w)
       \/ AuditClassified(w)
       \/ PersistExtracted(w) \/ AuditExtracted(w) \/ PersistKey(w)
       \/ PersistValidated(w) \/ AuditValidated(w)
       \/ CheckExactDuplicate(w) \/ CheckNearDuplicate(w) \/ PersistDuplicate(w)
       \/ FinalizeDocument(w) \/ FinishAutoProcessed(w) \/ AuditAutoProcessed(w)
    /\ ForgetAtReturn(w)
    /\ UNCHANGED <<provider, classification, fieldRows, page, form>>

FieldStep(w) ==
    /\ \/ ClassifyText(w) \/ StoreClassification(w) \/ ExtractText(w) \/ StoreFields(w)
       \/ ValidateFields(w) \/ WeighConfidence(w) \/ OtherStep(w)
    /\ UNCHANGED <<crashes, review>>

CrashForgetting(w) ==
    /\ Crash(w)
    /\ ForgetAtReturn(w)
    /\ UNCHANGED <<review, provider, classification, fieldRows, page, form>>

UploadText ==
    /\ Upload
    /\ classification' = Append(classification, Unclassified)
    /\ UNCHANGED <<workerVars, review, provider, fieldRows, extraction, page, form>>

---------------------------------------------------------------------------
(* The review page: web/app/review/[id]/page.tsx *)

\* String(f.value), and "" for a value that is missing
Texted(fields) == [name \in DOMAIN fields |-> fields[name].value.text]

\* The statuses before the pipeline is done with a document make no
\* difference to what follows.
StatusOf(d) ==
    IF documents[d].status \in Settled THEN documents[d].status ELSE "in_progress"

OpenPage(u, pc, d, status, texts) ==
    page' = [page EXCEPT ![u] =
                [pc |-> pc, document |-> d, status |-> status, texts |-> texts,
                 edited |-> {}]]

PageUntouched == UNCHANGED <<vars, provider, classification, fieldRows, extraction, form>>

\* Mutant of LoadPage: the fields are read before the row.
LoadPageFieldsFirst(u) ==
    /\ \/ /\ page[u].pc = "closed"
          /\ \E d \in DOMAIN documents : OpenPage(u, "row", d, "in_progress", Texted(Shown(d)))
       \/ /\ page[u].pc = "row"
          /\ OpenPage(u, "open", page[u].document,
                      StatusOf(page[u].document), page[u].texts)
    /\ PageUntouched

\* GET /documents/{id}: the row, then the fields, then the page shows both.
LoadPage(u) ==
    /\ \/ /\ page[u].pc = "closed"
          /\ \E d \in DOMAIN documents : OpenPage(u, "row", d, StatusOf(d), Empty)
       \/ /\ page[u].pc = "row"
          /\ OpenPage(u, "open", page[u].document, page[u].status,
                      Texted(Shown(page[u].document)))
    /\ PageUntouched

FromPage(u) == form[u].seen # "none"

\* A page that shows its document and has no request open
Editable(u) == page[u].pc = "open" /\ ~FromPage(u)

EditField(u) ==
    /\ Editable(u) /\ Cardinality(page[u].edited) < MaxEdits
    /\ \E edit \in Edits :
          /\ edit.name \in DOMAIN page[u].texts
          /\ page' = [page EXCEPT ![u] =
                        [@ EXCEPT !.texts[edit.name] = edit.text,
                                  !.edited = page[u].edited \cup {edit.name}]]
    /\ PageUntouched

ClosePage(u) ==
    /\ Editable(u)
    /\ page' = [page EXCEPT ![u] = ClosedPage]
    /\ PageUntouched

---------------------------------------------------------------------------
(* The reviewer's request *)

\* JSON strings, with the confidence Submit gives them
Typed(text) == [value |-> [json |-> "string", text |-> text], confidence |-> 100]

\* The page sends all its fields, edited or not; the form of an approval or
\* a rejection is not looked at.
FormsOf(u, decision) ==
    LET values == [name \in DOMAIN page[u].texts |-> Typed(page[u].texts[name])]
    IN  IF Editable(u)
        THEN {[values |-> IF decision = "correct" THEN values ELSE Empty,
               edited |-> page[u].edited, seen |-> page[u].status]}
        ELSE {[NoForm EXCEPT !.values = sent] :
                 sent \in IF decision = "correct" THEN ApiForms ELSE {Empty}}

\* An empty corrected_fields is answered 400.
AcceptForm(u) ==
    /\ AcceptRequest(u)
    /\ Editable(u) => review'[u].document = page[u].document
    /\ \E sent \in FormsOf(u, review'[u].decision) :
          /\ review'[u].decision = "correct" => DOMAIN sent.values # {}
          /\ form' = [form EXCEPT ![u] = sent]
    /\ UNCHANGED <<workerVars, provider, classification, fieldRows, extraction, page>>

\* The page leaves for the queue when its decision succeeded.
Answered(u) ==
    /\ form' = IF review'[u].pc = "idle" THEN [form EXCEPT ![u] = NoForm] ELSE form
    /\ page' = IF Reviewing(u, "audit") /\ FromPage(u)
               THEN [page EXCEPT ![u] = ClosedPage] ELSE page

StoreCorrections(u) ==
    /\ SaveCorrections(u)
    /\ fieldRows' = IF review'[u].pc = "idle" THEN fieldRows
                    ELSE Append(fieldRows, form[u].values)
    /\ Answered(u)
    /\ UNCHANGED <<workerVars, provider, classification, extraction>>

OtherRequestStep(u) ==
    /\ LoadTask(u) \/ ResolveTask(u) \/ CloseDocument(u) \/ AuditDecision(u)
    /\ Answered(u)
    /\ UNCHANGED <<workerVars, provider, classification, fieldRows, extraction>>

ReviewerStep(u) ==
    \/ LoadPage(u) \/ EditField(u) \/ ClosePage(u)
    \/ AcceptForm(u) \/ StoreCorrections(u) \/ OtherRequestStep(u)

FieldsNext ==
    \/ UploadText
    \/ \E w \in Workers : FieldStep(w) \/ CrashForgetting(w)
    \/ \E u \in Reviewers : ReviewerStep(u)

FieldsSpec == FieldsInit /\ [][FieldsNext]_<<vars, fieldVars>>

---------------------------------------------------------------------------
(* Properties *)

WellFormed(value, fieldType) ==
    CASE fieldType = "number" ->
            value.json = "number" /\ value.text \notin Negative \cup NotFinite
      [] fieldType = "date" -> value.json = "string" /\ value.text \in DateFormatted
      [] OTHER -> value.json # "null"

\* What a reader gets of a document that was processed without a human has
\* every field of its type, each as its type wants it.  The checks are made
\* on the values the run holds, not on those it stored, and NaN passes
\* "not negative" (validation.go:53).
AutoProcessedIsWellFormed ==
    \A d \in DOMAIN documents :
        documents[d].status = "AUTO_PROCESSED" =>
            LET schema == Schema[classification[d].type]
            IN  /\ DOMAIN schema \subseteq DOMAIN Shown(d)
                /\ \A name \in DOMAIN schema :
                      WellFormed(Shown(d)[name].value, schema[name])

\* ... and the confidences shown average at least the threshold, that of the
\* classification counted as one of them.
AutoProcessedIsConfident ==
    \A d \in DOMAIN documents :
        documents[d].status = "AUTO_PROCESSED" =>
            LET names == DOMAIN Schema[classification[d].type]
                shown == [name \in names |-> Shown(d)[name]]
            IN  TRUE \in AtLeast(ConfidenceSum(classification[d].confidence, shown),
                                Threshold[classification[d].type] * (Cardinality(names) + 1))

\* The key that later documents are compared with is that of the fields a
\* reader gets, whatever attempts came before (runner.go:209-214).  A key
\* goes stale only if one statement fails an attempt that has stored it and
\* a second one the store of the next attempt's.
KeyMatchesShownFields ==
    \A d \in DOMAIN documents :
        /\ documents[d].status = "AUTO_PROCESSED"
        /\ documents[d].key # NoKey
        /\ databaseErrors <= 1
        =>
            documents[d].key =
                KeyFieldsHash([name \in DOMAIN Schema[classification[d].type] |->
                                  Shown(d)[name]])

\* Where no attempt has failed, a reader gets exactly the fields of the
\* document's type.  (After a retry that finds another type the fields of
\* the first one stay: ListByDocument takes the latest row per name.)
FirstAttemptShowsItsType ==
    \A d \in DOMAIN documents :
        /\ CountFailed(d) = 0
        /\ CorrectionsOf(d) = {}
        /\ documents[d].status \in {"EXTRACTED", "VALIDATED"} \cup Settled
        /\ BatchesOf(d) # {}
        => NamesOf(d) = DOMAIN Schema[classification[d].type]

\* A page that shows a settled document shows what is stored, as long as it
\* is open: the row is read first, so that a status that is final comes with
\* fields that are.  (For one reviewer: of two who decide at once, one may
\* store corrections after the other has closed the document.)
PageOfSettledStays ==
    \A u \in Reviewers :
        /\ page[u].pc = "open"
        /\ page[u].status \in {"AUTO_PROCESSED", "REVIEWED", "FAILED"}
        => LET stored == Texted(Shown(page[u].document))
           IN  /\ DOMAIN page[u].texts = DOMAIN stored
               /\ \A name \in DOMAIN stored \ page[u].edited :
                     page[u].texts[name] = stored[name]

\* The first correction of a document, from a page that showed it in review,
\* replaces the fields the reviewer edited and no other: the page sends them
\* all, and what it sends of the others is still what is stored.  (A request
\* may fail after it stored its corrections: the next one may then come from
\* a page that never showed them.)
CorrectionTouchesEdited ==
    \A u \in Reviewers :
        /\ Reviewing(u, "save_fields")
        /\ form[u].seen = "PENDING_REVIEW"
        /\ CorrectionsOf(review[u].document) = {}
        => LET stored == Texted(Shown(review[u].document))
           IN  /\ DOMAIN form[u].values = DOMAIN stored
               /\ \A name \in DOMAIN stored \ form[u].edited :
                     form[u].values[name].value.text = stored[name]

\* A correction from the page is field-level (SRS.md:247-248): of what is
\* stored when it is saved it changes the fields the reviewer edited.  The
\* page sends what it showed when it was opened; nothing compares that with
\* what is stored by then (review_handler.go:86), and the page may have been
\* opened before a retry, or before another reviewer's correction.
CorrectionIsFieldLevel ==
    \A u \in Reviewers :
        Reviewing(u, "save_fields") /\ FromPage(u) =>
            LET stored == Texted(Shown(review[u].document))
            IN  \A name \in DOMAIN form[u].values \ form[u].edited :
                    /\ name \in DOMAIN stored
                    /\ form[u].values[name].value.text = stored[name]

View == INSTANCE FieldView WITH
    Documents <- DocumentIds,
    view <- [d \in DocumentIds |-> Shown(d)],
    corrected <- [d \in DocumentIds |-> Corrected(d)]

\* What readers get follows the abstract specification: no extraction
\* touches a document a human has corrected.
ImplementsFieldView == View!Spec
=============================================================================
