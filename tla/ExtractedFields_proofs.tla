----------------------- MODULE ExtractedFields_proofs -----------------------
(***************************************************************************)
(* ExtractedFields implements DocumentSystem: the values of fields, the    *)
(* pages that show them and the forms that correct them add no step to the *)
(* tables, so what is proved of DocumentSystem holds of them.              *)
(*                                                                         *)
(* With one worker it implements FieldView, and what it shows of a         *)
(* document that was processed without a human is well-formed, confident   *)
(* and what its key was computed from; pages, corrections and first        *)
(* attempts follow.                                                        *)
(***************************************************************************)
EXTENDS ExtractedFields, Pipeline_proofs

LEMMA FieldStepRefines ==
    ASSUME NEW w \in Workers, FieldStep(w) \/ CrashForgetting(w)
    PROVE  Next
<1>1. CASE FieldStep(w)
  <2>1. ClassifyText(w) => Process(w)
    BY DEF ClassifyText, Process
  <2>2. StoreClassification(w) => Process(w)
    BY DEF StoreClassification, Process
  <2>3. ExtractText(w) => Process(w)
    BY DEF ExtractText, Process
  <2>4. StoreFields(w) => Process(w)
    BY DEF StoreFields, Process
  <2>5. ValidateFields(w) => Process(w)
    BY DEF ValidateFields, Process
  <2>6. WeighConfidence(w) => Process(w)
    BY DEF WeighConfidence, Process
  <2>7. OtherStep(w) => Claim(w) \/ Process(w) \/ Route(w) \/ Failure(w)
    BY DEF OtherStep, Process
  <2>8. WorkerStep(w)
    BY <1>1, <2>1, <2>2, <2>3, <2>4, <2>5, <2>6, <2>7 DEF FieldStep, WorkerStep
  <2> QED
    BY <1>1, <2>8 DEF FieldStep, Next, WorkerNext
<1>2. CASE CrashForgetting(w)
  BY <1>2 DEF CrashForgetting, Next, WorkerNext
<1> QED
  BY <1>1, <1>2

LEMMA ReviewerStepRefines ==
    ASSUME NEW u \in Reviewers, ReviewerStep(u)
    PROVE  [Next]_vars
<1>1. CASE LoadPage(u) \/ EditField(u) \/ ClosePage(u)
  BY <1>1 DEF LoadPage, EditField, ClosePage, PageUntouched
<1>2. CASE AcceptForm(u)
  BY <1>2 DEF AcceptForm, Next, ReviewNext, SubmitStep
<1>3. CASE StoreCorrections(u)
  BY <1>3 DEF StoreCorrections, Next, ReviewNext, SubmitStep
<1>4. CASE OtherRequestStep(u)
  BY <1>4 DEF OtherRequestStep, Next, ReviewNext, SubmitStep
<1> QED
  BY <1>1, <1>2, <1>3, <1>4 DEF ReviewerStep

LEMMA FieldsNextRefines == [FieldsNext]_<<vars, fieldVars>> => [Next]_vars
<1> SUFFICES ASSUME [FieldsNext]_<<vars, fieldVars>> PROVE [Next]_vars
  OBVIOUS
<1>1. CASE UploadText
  BY <1>1 DEF UploadText, Next
<1>2. CASE \E w \in Workers : FieldStep(w) \/ CrashForgetting(w)
  BY <1>2, FieldStepRefines
<1>3. CASE \E u \in Reviewers : ReviewerStep(u)
  BY <1>3, ReviewerStepRefines
<1>4. CASE UNCHANGED <<vars, fieldVars>>
  BY <1>4
<1> QED
  BY <1>1, <1>2, <1>3, <1>4 DEF FieldsNext

\* Every behaviour with types, fields, pages and forms is a behaviour of
\* DocumentSystem.
THEOREM FieldsImplementSystem == FieldsSpec => Spec
<1>1. FieldsInit => Init
  BY DEF FieldsInit
<1> QED
  BY <1>1, FieldsNextRefines, PTL DEF FieldsSpec, Spec

\* Whatever the providers read, of the documents with the same bytes only
\* the first is processed without a human.
THEOREM FieldsExactDuplicate == FieldsSpec => []ExactDuplicateNotAutoProcessed
BY FieldsImplementSystem, ExactDuplicateHolds, PTL

---------------------------------------------------------------------------
(* The variables of ExtractedFields and those of DocumentSystem have the   *)
(* same rows, workers and reviewers.                                       *)

LEMMA AppendRow ==
    ASSUME NEW n \in Nat, NEW s, s = [b \in 1..n |-> s[b]], NEW e
    PROVE  LET t == Append(s, e)
           IN  /\ t = [b \in 1..(n + 1) |-> t[b]]
               /\ \A b \in 1..n : t[b] = s[b]
               /\ t[n + 1] = e
<1> DEFINE S == {s[b] : b \in 1..n} \cup {e}
           t == Append(s, e)
<1>1. s \in [1..n -> S]
  OBVIOUS
<1>2. s \in Seq(S)
  BY <1>1, SeqDef
<1>3. e \in S
  OBVIOUS
<1> HIDE DEF S
<1>4. DOMAIN s = 1..n
  OBVIOUS
<1>5. Len(s) = n
  BY <1>2, <1>4, LenProperties
<1>6. /\ t \in Seq(S) /\ Len(t) = n + 1
      /\ \A b \in 1..n : t[b] = s[b]
      /\ t[n + 1] = e
  BY <1>2, <1>3, <1>5, AppendProperties
<1>7. t \in [1..(n + 1) -> S]
  BY <1>6, LenProperties
<1> QED
  BY <1>6, <1>7

RowsMatch ==
    /\ fieldRows = [b \in DOMAIN extractedFields |-> fieldRows[b]]
    /\ classification = [d \in DOMAIN documents |-> classification[d]]

\* What a run has read is a function of names.
IsFields(fields) == fields = [name \in DOMAIN fields |-> fields[name]]

ReadingsMatch ==
    /\ extraction = [w \in Workers |-> extraction[w]]
    /\ \A w \in Workers :
          /\ extraction[w] = [found |-> extraction[w].found, fields |-> extraction[w].fields]
          /\ IsFields(extraction[w].fields)

\* One reviewer's page and form
DeskMatches(u) ==
    /\ page[u] = [pc |-> page[u].pc, document |-> page[u].document,
                  status |-> page[u].status, texts |-> page[u].texts,
                  edited |-> page[u].edited]
    /\ page[u].pc \in {"closed", "row", "open"}
    /\ page[u].pc # "closed" => page[u].document \in DOMAIN documents
    /\ form[u] = [values |-> form[u].values, edited |-> form[u].edited,
                  seen |-> form[u].seen]

DesksMatch ==
    /\ page = [u \in Reviewers |-> page[u]]
    /\ form = [u \in Reviewers |-> form[u]]
    /\ \A u \in Reviewers : DeskMatches(u)

BatchesRefer ==
    /\ \A b \in DOMAIN extractedFields : extractedFields[b].document \in DOMAIN documents
    /\ DOMAIN documents \subseteq DocumentIds

FieldsOK == RowsMatch /\ BatchesRefer /\ ReadingsMatch /\ DesksMatch

LEMMA FieldsOKInitially == FieldsInit => FieldsOK
<1> SUFFICES ASSUME FieldsInit PROVE FieldsOK
  OBVIOUS
<1>1. documents = << >> /\ extractedFields = << >>
  BY DEF FieldsInit, Init, DatabaseInit
<1>2. RowsMatch /\ BatchesRefer
  BY <1>1 DEF FieldsInit, RowsMatch, BatchesRefer
<1>3. ReadingsMatch
  <2>1. IsFields(NothingRead.fields)
    BY DEF NothingRead, IsFields, Empty
  <2> QED
    BY <2>1 DEF FieldsInit, ReadingsMatch, NothingRead
<1>4. DesksMatch
  BY DEF FieldsInit, DesksMatch, DeskMatches, ClosedPage, NoForm
<1> QED
  BY <1>2, <1>3, <1>4 DEF FieldsOK

\* Batch Len(extractedFields) + 1 is inserted, with its rows.
NewBatch(d, author, row) ==
    LET n == Len(extractedFields) + 1
    IN  /\ DOMAIN extractedFields' = DOMAIN extractedFields \cup {n}
        /\ n \in Nat /\ n \notin DOMAIN extractedFields
        /\ \A b \in DOMAIN extractedFields :
              /\ b \in Nat /\ b < n
              /\ extractedFields'[b] = extractedFields[b] /\ fieldRows'[b] = fieldRows[b]
        /\ extractedFields'[n].document = d /\ extractedFields'[n].author = author
        /\ fieldRows'[n] = row
        /\ fieldRows' = [b \in DOMAIN extractedFields' |-> fieldRows'[b]]

LEMMA BatchAndRows ==
    ASSUME TablesOK, RowsMatch, NEW d, NEW author, NEW row,
           InsertBatch(d, author), fieldRows' = Append(fieldRows, row)
    PROVE  NewBatch(d, author, row) /\ BatchInserted(d, author)
<1>1. BatchInserted(d, author)
  BY BatchWritten
<1>2. DOMAIN extractedFields = 1..Len(extractedFields) /\ Len(extractedFields) \in Nat
  BY LenProperties DEF TablesOK
<1>3. fieldRows = [b \in 1..Len(extractedFields) |-> fieldRows[b]]
  BY <1>2 DEF RowsMatch
<1>4. /\ fieldRows' = [b \in 1..(Len(extractedFields) + 1) |-> fieldRows'[b]]
      /\ \A b \in 1..Len(extractedFields) : fieldRows'[b] = fieldRows[b]
      /\ fieldRows'[Len(extractedFields) + 1] = row
  BY <1>2, <1>3, AppendRow
<1>5. DOMAIN extractedFields' = 1..(Len(extractedFields) + 1)
  BY <1>1, <1>2 DEF BatchInserted
<1> QED
  BY <1>1, <1>2, <1>4, <1>5 DEF BatchInserted, NewBatch

---------------------------------------------------------------------------
(* What readers get, batch by batch *)

LatestRow(S) == CHOOSE b \in Latest(S) : TRUE

LEMMA LatestIs ==
    ASSUME NEW S, S \subseteq Nat, NEW n \in S, \A b \in S : b <= n
    PROVE  LatestRow(S) = n
<1>1. Latest(S) = {n}
  <2>1. n \in Latest(S)
    BY DEF Latest
  <2>2. ASSUME NEW b \in Latest(S) PROVE b = n
    BY DEF Latest
  <2> QED
    BY <2>1, <2>2
<1> QED
  BY <1>1 DEF LatestRow

LEMMA LatestExists ==
    ASSUME NEW n \in Nat, NEW S, S \subseteq 1..n, S # {}
    PROVE  LatestRow(S) \in S
<1> DEFINE T == {n - b : b \in S}
<1>1. T \subseteq Nat /\ T # {}
  <2>1. ASSUME NEW b \in S PROVE n - b \in Nat
    <3>1. b \in 1..n
      OBVIOUS
    <3> QED
      BY <3>1
  <2> QED
    BY <2>1
<1>2. PICK t \in T : \A e \in T : t <= e
  BY <1>1, EarliestExists DEF Earliest
<1>3. PICK b \in S : t = n - b
  OBVIOUS
<1>4. ASSUME NEW c \in S PROVE c <= b
  <2>1. n - c \in T
    OBVIOUS
  <2>2. t <= n - c
    BY <1>2, <2>1
  <2> HIDE DEF T
  <2> QED
    BY <1>3, <2>2
<1>5. S \subseteq Nat
  OBVIOUS
<1>6. LatestRow(S) = b
  BY <1>4, <1>5, LatestIs
<1> QED
  BY <1>6

\* What readers get once row is stored
Overlay(fields, row) ==
    [name \in DOMAIN fields \cup DOMAIN row |->
        IF name \in DOMAIN row THEN row[name] ELSE fields[name]]

ViewKept(d) ==
    /\ Shown(d)' = Shown(d)
    /\ Corrected(d)' = Corrected(d)
    /\ BatchesOf(d)' = BatchesOf(d)
    /\ CorrectionsOf(d)' = CorrectionsOf(d)

LEMMA ShownDomains ==
    ASSUME NEW d
    PROVE  DOMAIN Shown(d) = NamesOf(d)
BY DEF Shown

CorrectedNames(d) == UNION {DOMAIN fieldRows[b] : b \in CorrectionsOf(d)}

CorrectedRows(d, name) == RowsOf(d, name) \cap CorrectionsOf(d)

LEMMA ShownIs ==
    ASSUME NEW d
    PROVE  Shown(d) = [name \in NamesOf(d) |-> fieldRows[LatestRow(RowsOf(d, name))][name]]
BY DEF Shown, LatestRow

LEMMA CorrectedIs ==
    ASSUME NEW d
    PROVE  Corrected(d) = [name \in CorrectedNames(d) |->
                              fieldRows[LatestRow(CorrectedRows(d, name))][name]]
BY DEF Corrected, CorrectedNames, CorrectedRows, LatestRow

LEMMA ShownNext ==
    ASSUME NEW d
    PROVE  Shown(d)' = [name \in NamesOf(d)' |->
                           fieldRows'[LatestRow(RowsOf(d, name)')][name]]
BY DEF Shown, LatestRow

LEMMA CorrectedNext ==
    ASSUME NEW d
    PROVE  Corrected(d)' = [name \in CorrectedNames(d)' |->
                               fieldRows'[LatestRow(CorrectedRows(d, name)')][name]]
BY DEF Corrected, CorrectedNames, CorrectedRows, LatestRow

LEMMA ViewsKept ==
    ASSUME TablesOK, NEW d,
           BatchesOf(d)' = BatchesOf(d),
           \A b \in BatchesOf(d) :
               fieldRows'[b] = fieldRows[b] /\ extractedFields'[b] = extractedFields[b]
    PROVE  ViewKept(d)
<1>0. PICK n \in Nat : DOMAIN extractedFields = 1..n
  BY LenProperties DEF TablesOK
<1>1. BatchesOf(d) \subseteq 1..n
  BY <1>0 DEF BatchesOf
<1>2. CorrectionsOf(d)' = CorrectionsOf(d) /\ CorrectionsOf(d) \subseteq BatchesOf(d)
  BY DEF CorrectionsOf
<1>3. ASSUME NEW name PROVE RowsOf(d, name)' = RowsOf(d, name)
  BY DEF RowsOf
<1>4. NamesOf(d)' = NamesOf(d)
  BY DEF NamesOf
<1>5. ASSUME NEW name \in NamesOf(d)
      PROVE  LatestRow(RowsOf(d, name)) \in BatchesOf(d)
  <2>1. RowsOf(d, name) # {} /\ RowsOf(d, name) \subseteq BatchesOf(d)
    BY DEF RowsOf, NamesOf
  <2> QED
    BY <1>1, <2>1, LatestExists
<1>6. Shown(d)' = Shown(d)
  <2>1. Shown(d)' = [name \in NamesOf(d) |-> fieldRows'[LatestRow(RowsOf(d, name))][name]]
    BY <1>3, <1>4, ShownNext
  <2>2. \A name \in NamesOf(d) :
           fieldRows'[LatestRow(RowsOf(d, name))] = fieldRows[LatestRow(RowsOf(d, name))]
    BY <1>5
  <2> QED
    BY <2>1, <2>2, ShownIs
<1>7. ASSUME NEW name \in CorrectedNames(d)
      PROVE  LatestRow(CorrectedRows(d, name)) \in BatchesOf(d)
  <2>1. CorrectedRows(d, name) # {} /\ CorrectedRows(d, name) \subseteq BatchesOf(d)
    BY <1>2 DEF CorrectedRows, CorrectedNames, RowsOf
  <2>2. LatestRow(CorrectedRows(d, name)) \in CorrectedRows(d, name)
    BY <1>1, <2>1, LatestExists
  <2> QED
    BY <2>1, <2>2
<1>8. Corrected(d)' = Corrected(d)
  <2>1. CorrectedNames(d)' = CorrectedNames(d)
    BY <1>2 DEF CorrectedNames
  <2>2. ASSUME NEW name PROVE CorrectedRows(d, name)' = CorrectedRows(d, name)
    BY <1>2, <1>3 DEF CorrectedRows
  <2>3. Corrected(d)' = [name \in CorrectedNames(d) |->
                            fieldRows'[LatestRow(CorrectedRows(d, name))][name]]
    BY <2>1, <2>2, CorrectedNext
  <2>4. \A name \in CorrectedNames(d) :
           fieldRows'[LatestRow(CorrectedRows(d, name))]
               = fieldRows[LatestRow(CorrectedRows(d, name))]
    BY <1>7
  <2> QED
    BY <2>3, <2>4, CorrectedIs
<1> QED
  BY <1>2, <1>6, <1>8 DEF ViewKept

\* A batch is read by those who read its document.
LEMMA OtherViewsKept ==
    ASSUME TablesOK, NEW d, NEW author, NEW row, NewBatch(d, author, row), NEW e, e # d
    PROVE  ViewKept(e)
<1>1. BatchesOf(e)' = BatchesOf(e)
  BY DEF NewBatch, BatchesOf
<1>2. \A b \in BatchesOf(e) :
          fieldRows'[b] = fieldRows[b] /\ extractedFields'[b] = extractedFields[b]
  BY DEF NewBatch, BatchesOf
<1> QED
  BY <1>1, <1>2, ViewsKept

LEMMA BatchOverlays ==
    ASSUME TablesOK, NEW d, NEW author, NEW row, NewBatch(d, author, row)
    PROVE  /\ Shown(d)' = Overlay(Shown(d), row)
           /\ BatchesOf(d)' # {}
<1> DEFINE n == Len(extractedFields) + 1
<1>0. /\ DOMAIN extractedFields' = DOMAIN extractedFields \cup {n}
      /\ n \in Nat /\ n \notin DOMAIN extractedFields
      /\ \A b \in DOMAIN extractedFields :
            /\ b \in Nat /\ b < n
            /\ extractedFields'[b] = extractedFields[b] /\ fieldRows'[b] = fieldRows[b]
      /\ extractedFields'[n].document = d /\ fieldRows'[n] = row
  BY DEF NewBatch
<1> HIDE DEF n
<1>1. PICK m \in Nat : DOMAIN extractedFields = 1..m
  BY LenProperties DEF TablesOK
<1>2. BatchesOf(d)' = BatchesOf(d) \cup {n} /\ BatchesOf(d) \subseteq DOMAIN extractedFields
  BY <1>0 DEF BatchesOf
<1>3. NamesOf(d)' = NamesOf(d) \cup DOMAIN row
  BY <1>0, <1>2 DEF NamesOf
<1>4. ASSUME NEW name \in DOMAIN row
      PROVE  LatestRow(RowsOf(d, name)') = n
  <2>1. /\ n \in RowsOf(d, name)'
        /\ \A b \in RowsOf(d, name)' : b \in Nat /\ b <= n
    BY <1>0, <1>2 DEF RowsOf
  <2> QED
    BY <2>1, LatestIs
<1>5. ASSUME NEW name \in NamesOf(d), name \notin DOMAIN row
      PROVE  /\ LatestRow(RowsOf(d, name)') = LatestRow(RowsOf(d, name))
             /\ LatestRow(RowsOf(d, name)) \in DOMAIN extractedFields
  <2>1. RowsOf(d, name)' = RowsOf(d, name)
    <3>1. ASSUME NEW b PROVE b \in RowsOf(d, name)' <=> b \in RowsOf(d, name)
      BY <1>0, <1>2, <1>5 DEF RowsOf
    <3> QED
      BY <3>1
  <2>2. RowsOf(d, name) # {} /\ RowsOf(d, name) \subseteq DOMAIN extractedFields
    BY <1>2 DEF RowsOf, NamesOf
  <2> QED
    BY <1>1, <2>1, <2>2, LatestExists
<1>6. Shown(d)' = [name \in NamesOf(d)' |-> fieldRows'[LatestRow(RowsOf(d, name)')][name]]
  BY ShownNext
<1>7. /\ DOMAIN Shown(d)' = DOMAIN Overlay(Shown(d), row)
      /\ \A name \in DOMAIN Shown(d)' : Shown(d)'[name] = Overlay(Shown(d), row)[name]
  <2>1. DOMAIN Shown(d) = NamesOf(d) /\ DOMAIN Shown(d)' = NamesOf(d)'
    BY <1>6, ShownDomains
  <2>2. ASSUME NEW name \in DOMAIN row PROVE Shown(d)'[name] = row[name]
    BY <1>0, <1>3, <1>4, <1>6
  <2>3. ASSUME NEW name \in NamesOf(d), name \notin DOMAIN row
        PROVE  Shown(d)'[name] = Shown(d)[name]
    <3>1. name \in NamesOf(d)'
      BY <1>3
    <3>2. Shown(d)'[name] = fieldRows'[LatestRow(RowsOf(d, name)')][name]
      BY <1>6, <3>1
    <3>3. Shown(d)[name] = fieldRows[LatestRow(RowsOf(d, name))][name]
      BY ShownIs
    <3> QED
      BY <1>0, <1>5, <2>3, <3>2, <3>3
  <2> QED
    BY <1>3, <2>1, <2>2, <2>3 DEF Overlay
<1> QED
  BY <1>2, <1>6, <1>7 DEF Overlay

LEMMA AgentOverlays ==
    ASSUME TablesOK, NEW d, NEW row, NewBatch(d, Agent, row)
    PROVE  /\ Corrected(d)' = Corrected(d)
           /\ CorrectionsOf(d)' = CorrectionsOf(d)
<1>1. PICK m \in Nat : DOMAIN extractedFields = 1..m
  BY LenProperties DEF TablesOK
<1>2. CorrectionsOf(d)' = CorrectionsOf(d) /\ CorrectionsOf(d) \subseteq DOMAIN extractedFields
  BY DEF NewBatch, CorrectionsOf, BatchesOf
<1>3. CorrectedNames(d)' = CorrectedNames(d)
  BY <1>2 DEF NewBatch, CorrectedNames
<1>4. ASSUME NEW name PROVE CorrectedRows(d, name)' = CorrectedRows(d, name)
  <2>1. \A b \in CorrectionsOf(d) : b \in RowsOf(d, name)' <=> b \in RowsOf(d, name)
    BY <1>2 DEF NewBatch, RowsOf, BatchesOf
  <2> QED
    BY <1>2, <2>1 DEF CorrectedRows
<1>5. ASSUME NEW name \in CorrectedNames(d)
      PROVE  LatestRow(CorrectedRows(d, name)) \in DOMAIN extractedFields
  <2>1. CorrectedRows(d, name) # {} /\ CorrectedRows(d, name) \subseteq DOMAIN extractedFields
    BY <1>2 DEF CorrectedRows, CorrectedNames, RowsOf, CorrectionsOf
  <2> QED
    BY <1>1, <2>1, LatestExists
<1>6. Corrected(d)' = [name \in CorrectedNames(d) |->
                          fieldRows'[LatestRow(CorrectedRows(d, name))][name]]
  BY <1>3, <1>4, CorrectedNext
<1>7. \A name \in CorrectedNames(d) :
          fieldRows'[LatestRow(CorrectedRows(d, name))]
              = fieldRows[LatestRow(CorrectedRows(d, name))]
  BY <1>5 DEF NewBatch
<1> QED
  BY <1>2, <1>6, <1>7, CorrectedIs

LEMMA ReviewerOverlays ==
    ASSUME TablesOK, NEW d, NEW author, author # Agent, NEW row, NewBatch(d, author, row)
    PROVE  /\ Corrected(d)' = Overlay(Corrected(d), row)
           /\ CorrectionsOf(d)' # {}
<1> DEFINE n == Len(extractedFields) + 1
<1>0. /\ DOMAIN extractedFields' = DOMAIN extractedFields \cup {n}
      /\ n \in Nat /\ n \notin DOMAIN extractedFields
      /\ \A b \in DOMAIN extractedFields :
            /\ b \in Nat /\ b < n
            /\ extractedFields'[b] = extractedFields[b] /\ fieldRows'[b] = fieldRows[b]
      /\ extractedFields'[n].document = d /\ extractedFields'[n].author = author
      /\ fieldRows'[n] = row
  BY DEF NewBatch
<1> HIDE DEF n
<1>1. PICK m \in Nat : DOMAIN extractedFields = 1..m
  BY LenProperties DEF TablesOK
<1>2. /\ CorrectionsOf(d)' = CorrectionsOf(d) \cup {n}
      /\ CorrectionsOf(d) \subseteq DOMAIN extractedFields
  BY <1>0 DEF CorrectionsOf, BatchesOf
<1>3. CorrectedNames(d)' = CorrectedNames(d) \cup DOMAIN row
  BY <1>0, <1>2 DEF CorrectedNames
<1>4. ASSUME NEW name \in DOMAIN row
      PROVE  LatestRow(CorrectedRows(d, name)') = n
  <2>1. n \in RowsOf(d, name)' /\ \A b \in RowsOf(d, name)' : b \in Nat /\ b <= n
    BY <1>0 DEF RowsOf, BatchesOf
  <2>2. /\ n \in CorrectedRows(d, name)'
        /\ \A b \in CorrectedRows(d, name)' : b \in Nat /\ b <= n
    BY <1>2, <2>1 DEF CorrectedRows
  <2> QED
    BY <2>2, LatestIs
<1>5. ASSUME NEW name \in CorrectedNames(d), name \notin DOMAIN row
      PROVE  /\ LatestRow(CorrectedRows(d, name)') = LatestRow(CorrectedRows(d, name))
             /\ LatestRow(CorrectedRows(d, name)) \in DOMAIN extractedFields
  <2>1. RowsOf(d, name)' = RowsOf(d, name)
    <3>1. ASSUME NEW b PROVE b \in BatchesOf(d)' <=> b = n \/ b \in BatchesOf(d)
      BY <1>0 DEF BatchesOf
    <3>2. BatchesOf(d) \subseteq DOMAIN extractedFields
      BY DEF BatchesOf
    <3>3. ASSUME NEW b PROVE b \in RowsOf(d, name)' <=> b \in RowsOf(d, name)
      BY <1>0, <1>5, <3>1, <3>2 DEF RowsOf
    <3> QED
      BY <3>3
  <2>2. n \notin RowsOf(d, name)
    BY <1>0 DEF RowsOf, BatchesOf
  <2>3. CorrectedRows(d, name)' = CorrectedRows(d, name)
    BY <1>2, <2>1, <2>2 DEF CorrectedRows
  <2>4. CorrectedRows(d, name) # {} /\ CorrectedRows(d, name) \subseteq DOMAIN extractedFields
    BY <1>2 DEF CorrectedRows, CorrectedNames, RowsOf, CorrectionsOf
  <2> QED
    BY <1>1, <2>3, <2>4, LatestExists
<1>6. Corrected(d)' = [name \in CorrectedNames(d)' |->
                          fieldRows'[LatestRow(CorrectedRows(d, name)')][name]]
  BY CorrectedNext
<1>7. /\ DOMAIN Corrected(d)' = DOMAIN Overlay(Corrected(d), row)
      /\ \A name \in DOMAIN Corrected(d)' : Corrected(d)'[name] = Overlay(Corrected(d), row)[name]
  <2>1. DOMAIN Corrected(d) = CorrectedNames(d) /\ DOMAIN Corrected(d)' = CorrectedNames(d)'
    BY <1>6, CorrectedIs
  <2>2. ASSUME NEW name \in DOMAIN row PROVE Corrected(d)'[name] = row[name]
    BY <1>0, <1>3, <1>4, <1>6
  <2>3. ASSUME NEW name \in CorrectedNames(d), name \notin DOMAIN row
        PROVE  Corrected(d)'[name] = Corrected(d)[name]
    <3>1. name \in CorrectedNames(d)'
      BY <1>3
    <3>2. Corrected(d)'[name] = fieldRows'[LatestRow(CorrectedRows(d, name)')][name]
      BY <1>6, <3>1
    <3>3. Corrected(d)[name] = fieldRows[LatestRow(CorrectedRows(d, name))][name]
      BY CorrectedIs
    <3> QED
      BY <1>0, <1>5, <2>3, <3>2, <3>3
  <2> QED
    BY <1>3, <2>1, <2>2, <2>3 DEF Overlay
<1> QED
  BY <1>2, <1>6, <1>7 DEF Overlay

---------------------------------------------------------------------------
(* What a step of a run does with what it has read *)

\* Where a run goes with what it has just read, stored or checked
ReadingPc ==
    {"mark_classified", "audit_classified", "insert_fields", "mark_extracted",
     "mark_validated"}

FieldsKept == UNCHANGED <<extractedFields, fieldRows, classification>>

From(w, pc, next) == worker[w].pc = pc /\ worker'[w].pc = next

FieldMove(w) ==
    LET d == worker[w].document
        found == extraction[w].found
        fields == extraction[w].fields
    IN  /\ \A v \in Workers \ {w} : extraction'[v] = extraction[v]
        /\ \/ From(w, "classify", "mark_classified") /\ FieldsKept
           \/ /\ From(w, "mark_classified", "audit_classified")
              /\ classification' = [classification EXCEPT ![d] = found]
              /\ UNCHANGED <<extraction, extractedFields, fieldRows>>
           \/ /\ From(w, "extract", "insert_fields") /\ FieldsKept
              /\ extraction'[w].found = found
              /\ DOMAIN extraction'[w].fields = DOMAIN Schema[found.type]
              /\ worker'[w].key = KeyOf(extraction'[w].fields)
           \/ /\ From(w, "insert_fields", "mark_extracted")
              /\ NewBatch(d, Agent, fields) /\ Storable(fields)
              /\ UNCHANGED <<extraction, classification>>
           \/ /\ From(w, "validate", "mark_validated") /\ FieldsKept
              /\ Validate(Schema[found.type], ValuesOf(fields)) = {}
              /\ UNCHANGED extraction
           \/ /\ worker'[w].pc \notin ReadingPc /\ FieldsKept
              /\ worker'[w].pc \in {"poll", "create_task"} \/ extraction'[w] = extraction[w]

LEMMA EffectTargets ==
    ASSUME NEW w \in Workers, RunEffect(w)
    PROVE  /\ worker'[w].pc = "mark_classified" => worker[w].pc = "classify"
           /\ worker'[w].pc = "audit_classified" => worker[w].pc = "mark_classified"
           /\ worker'[w].pc = "insert_fields" => worker[w].pc = "extract"
           /\ worker'[w].pc = "mark_extracted" => worker[w].pc = "insert_fields"
           /\ worker'[w].pc = "mark_validated" => worker[w].pc = "validate"
           /\ worker[w].pc # "insert_fields" => UNCHANGED extractedFields
           /\ worker'[w].pc # "mark_extracted" => UNCHANGED extractedFields
<1>0. Polling.pc = "poll"
  BY DEF Polling
<1> USE <1>0 DEF At, Goes, GoesToOne, Over, SameRows
<1>1. CASE SameRows /\ ReadMove(w)
  BY <1>1 DEF ReadMove
<1>2. CASE SameRows /\ ErrorMove(w)
  BY <1>2 DEF ErrorMove
<1>3. CASE SameRows /\ FailMove(w)
  BY <1>3 DEF FailMove
<1>4. CASE WriteMove(w)
  <2>1. worker[w].pc # "insert_fields" => UNCHANGED extractedFields
    BY <1>4 DEF WriteMove, StatusWritten, DocumentSet, TaskOpened, RunFinished
  <2>2. worker[w].pc = "insert_fields" => worker'[w].pc = "mark_extracted"
    BY <1>4 DEF WriteMove
  <2>3. worker'[w].pc = "audit_classified" => worker[w].pc = "mark_classified"
    BY <1>4 DEF WriteMove
  <2>4. worker'[w].pc = "mark_extracted" => worker[w].pc = "insert_fields"
    BY <1>4 DEF WriteMove
  <2>5. worker'[w].pc \notin {"mark_classified", "insert_fields", "mark_validated"}
    BY <1>4 DEF WriteMove
  <2> QED
    BY <2>1, <2>2, <2>3, <2>4, <2>5
<1> QED
  BY <1>1, <1>2, <1>3, <1>4 DEF RunEffect

\* Either provider answers for the fields of the schema and for no other.
LEMMA ExtractionsOfSchema ==
    ASSUME NEW w, NEW fields \in Extractions(w)
    PROVE  DOMAIN fields = DOMAIN SchemaOf(w) /\ IsFields(fields)
BY DEF Extractions, StubExtractions, AnthropicExtract, IsFields

LEMMA ClassifyMoves ==
    ASSUME Inv, FieldsOK, NEW w \in Workers, ClassifyText(w), RunEffect(w)
    PROVE  FieldMove(w) /\ ReadingsMatch'
<1>1. /\ worker[w].pc = "classify"
      /\ UNCHANGED <<extractedFields, fieldRows, classification>>
  BY DEF ClassifyText, ClassifyDocument, Step, At, NoStatement, tables
<1>2. worker'[w].pc \in {"mark_classified", "create_task", "fail_finish"}
  BY <1>1 DEF RunEffect, ReadMove, ErrorMove, FailMove, WriteMove, GoesToOne, Goes, At
<1>3. CASE Failing(w)
  BY <1>1, <1>3 DEF ClassifyText, Failing, FieldMove, FieldsKept, From, FieldsOK, ReadingsMatch,
                    ReadingPc
<1>4. CASE ~Failing(w)
  <2>1. PICK found : extraction' = [extraction EXCEPT ![w] = [@ EXCEPT !.found = found]]
    BY <1>4 DEF ClassifyText
  <2>2. /\ extraction' = [v \in Workers |-> extraction'[v]]
        /\ \A v \in Workers \ {w} : extraction'[v] = extraction[v]
        /\ extraction'[w] = [found |-> found, fields |-> extraction[w].fields]
    BY <2>1 DEF FieldsOK, ReadingsMatch
  <2>3. worker'[w].pc \in {"mark_classified", "create_task"}
    BY <1>2, <1>4 DEF Failing
  <2> QED
    BY <1>1, <2>2, <2>3 DEF FieldMove, FieldsKept, From, FieldsOK, ReadingsMatch, ReadingPc
<1> QED
  BY <1>3, <1>4

LEMMA ExtractMoves ==
    ASSUME Inv, FieldsOK, NEW w \in Workers, ExtractText(w), RunEffect(w)
    PROVE  FieldMove(w) /\ ReadingsMatch'
<1>1. /\ worker[w].pc = "extract"
      /\ UNCHANGED <<extractedFields, fieldRows, classification>>
  BY DEF ExtractText, ExtractFields, Step, At, NoStatement, tables
<1>2. worker'[w].pc \in {"insert_fields", "fail_finish"}
  BY <1>1 DEF RunEffect, ReadMove, ErrorMove, FailMove, WriteMove, GoesToOne, Goes, At
<1>3. CASE Failing(w)
  BY <1>1, <1>3 DEF ExtractText, Failing, FieldMove, FieldsKept, From, FieldsOK, ReadingsMatch,
                    ReadingPc
<1>4. CASE ~Failing(w)
  <2>1. PICK fields \in Extractions(w) :
           /\ worker'[w].key = KeyOf(fields)
           /\ extraction' = [extraction EXCEPT ![w] = [@ EXCEPT !.fields = fields]]
    BY <1>4 DEF ExtractText
  <2>2. /\ extraction' = [v \in Workers |-> extraction'[v]]
        /\ \A v \in Workers \ {w} : extraction'[v] = extraction[v]
        /\ extraction'[w] = [found |-> extraction[w].found, fields |-> fields]
    BY <2>1 DEF FieldsOK, ReadingsMatch
  <2>3. DOMAIN fields = DOMAIN Schema[extraction[w].found.type] /\ IsFields(fields)
    BY ExtractionsOfSchema DEF SchemaOf
  <2>4. worker'[w].pc = "insert_fields"
    BY <1>2, <1>4 DEF Failing
  <2> QED
    BY <1>1, <2>1, <2>2, <2>3, <2>4 DEF FieldMove, FieldsKept, From, FieldsOK, ReadingsMatch
<1> QED
  BY <1>3, <1>4

LEMMA StoreMoves ==
    ASSUME Inv, FieldsOK, NEW w \in Workers, RunEffect(w),
           StoreClassification(w) \/ StoreFields(w)
    PROVE  FieldMove(w) /\ ReadingsMatch'
<1>0. UNCHANGED extraction /\ ReadingsMatch'
  BY DEF StoreClassification, StoreFields, FieldsOK, ReadingsMatch
<1>1. CASE StoreClassification(w)
  <2>1. worker[w].pc = "mark_classified" /\ UNCHANGED fieldRows
    BY <1>1 DEF StoreClassification, PersistClassification, At
  <2>2. worker'[w].pc \in {"audit_classified", "fail_finish"} /\ UNCHANGED extractedFields
    BY <2>1, EffectTargets
       DEF RunEffect, ReadMove, ErrorMove, FailMove, WriteMove, GoesToOne, Goes, At
  <2>3. CASE worker'[w].pc = "fail_finish"
    BY <1>0, <1>1, <2>1, <2>2, <2>3
       DEF StoreClassification, Failing, FieldMove, FieldsKept, ReadingPc
  <2>4. CASE worker'[w].pc = "audit_classified"
    BY <1>0, <1>1, <2>1, <2>2, <2>4 DEF StoreClassification, Failing, FieldMove, From
  <2> QED
    BY <1>0, <2>2, <2>3, <2>4
<1>2. CASE StoreFields(w)
  <2>1. worker[w].pc = "insert_fields" /\ UNCHANGED classification
    BY <1>2 DEF StoreFields, PersistFields, At
  <2>2. worker'[w].pc \in {"mark_extracted", "fail_finish"}
    BY <2>1 DEF RunEffect, ReadMove, ErrorMove, FailMove, WriteMove, GoesToOne, Goes, At
  <2>3. CASE worker'[w].pc = "fail_finish"
    <3>1. UNCHANGED extractedFields
      BY <2>3, EffectTargets
    <3> QED
      BY <1>0, <1>2, <2>1, <2>3, <3>1
         DEF StoreFields, Failing, FieldMove, FieldsKept, ReadingPc
  <2>4. CASE worker'[w].pc = "mark_extracted"
    <3>1. ~Failing(w)
      BY <2>4 DEF Failing
    <3>2. worker \in [Workers -> WorkerState] /\ TablesOK
      BY DEF Inv, TypeOK, WorkerTypeOK, DatabaseTypeOK, TablesOK
    <3>3. ~Fail(w)
      BY <2>4, <3>2, FailGoes DEF Goes
    <3>4. InsertBatch(worker[w].document, Agent)
      BY <1>2, <3>3 DEF StoreFields, PersistFields, Attempt
    <3>5. UNCHANGED databaseErrors
      BY <1>2, <3>3 DEF StoreFields, PersistFields, Attempt
    <3>6. fieldRows' = Append(fieldRows, extraction[w].fields)
      BY <1>2, <3>1 DEF StoreFields
    <3>7. NewBatch(worker[w].document, Agent, extraction[w].fields)
      BY <3>2, <3>4, <3>6, BatchAndRows DEF FieldsOK
    <3>8. Storable(extraction[w].fields)
      BY <1>2, <3>1, <3>5 DEF StoreFields
    <3> QED
      BY <1>0, <2>1, <2>4, <3>7, <3>8 DEF FieldMove, From
  <2> QED
    BY <1>0, <2>2, <2>3, <2>4
<1> QED
  BY <1>1, <1>2

LEMMA CheckMoves ==
    ASSUME Inv, FieldsOK, NEW w \in Workers, RunEffect(w),
           ValidateFields(w) \/ WeighConfidence(w)
    PROVE  FieldMove(w) /\ ReadingsMatch'
<1>0. UNCHANGED <<extraction, fieldRows, classification>> /\ ReadingsMatch'
  BY DEF ValidateFields, WeighConfidence, fieldVars, FieldsOK, ReadingsMatch
<1>1. CASE ValidateFields(w)
  <2>1. worker[w].pc = "validate"
    BY <1>1 DEF ValidateFields, ValidateExtraction, Step, At
  <2>2. worker'[w].pc \in ReadingPc => worker'[w].pc = "mark_validated"
    BY <2>1, EffectTargets DEF ReadingPc
  <2> QED
    BY <1>0, <1>1, <2>1, <2>2, EffectTargets
       DEF ValidateFields, FieldMove, FieldsKept, From, SchemaOf
<1>2. CASE WeighConfidence(w)
  <2>1. worker[w].pc = "calculate_confidence"
    BY <1>2 DEF WeighConfidence, CalculateConfidence, Step, At
  <2> QED
    BY <1>0, <2>1, EffectTargets DEF FieldMove, FieldsKept, ReadingPc
<1> QED
  BY <1>1, <1>2

\* What is read is forgotten when process returns.
LEMMA Forgets ==
    ASSUME ReadingsMatch, NEW w \in Workers, ForgetAtReturn(w)
    PROVE  /\ ReadingsMatch'
           /\ \A v \in Workers \ {w} : extraction'[v] = extraction[v]
           /\ worker'[w].pc = "poll" \/ extraction'[w] = extraction[w]
<1>1. /\ NothingRead = [found |-> NothingRead.found, fields |-> NothingRead.fields]
      /\ IsFields(NothingRead.fields)
  BY DEF NothingRead, IsFields, Empty
<1>2. CASE worker'[w].pc = "poll"
  <2>1. extraction' = [extraction EXCEPT ![w] = NothingRead]
    BY <1>2 DEF ForgetAtReturn
  <2>2. /\ extraction' = [v \in Workers |-> extraction'[v]]
        /\ \A v \in Workers \ {w} : extraction'[v] = extraction[v]
        /\ extraction'[w] = NothingRead
    BY <2>1 DEF ReadingsMatch
  <2> QED
    BY <1>1, <1>2, <2>2 DEF ReadingsMatch
<1>3. CASE worker'[w].pc # "poll"
  BY <1>3 DEF ForgetAtReturn, ReadingsMatch
<1> QED
  BY <1>2, <1>3

LEMMA OtherMoves ==
    ASSUME Inv, FieldsOK, NEW w \in Workers, OtherStep(w)
    PROVE  FieldMove(w) /\ ReadingsMatch'
<1>0. UNCHANGED <<fieldRows, classification>> /\ ForgetAtReturn(w)
  BY DEF OtherStep
<1>1. /\ ReadingsMatch'
      /\ \A v \in Workers \ {w} : extraction'[v] = extraction[v]
      /\ worker'[w].pc = "poll" \/ extraction'[w] = extraction[w]
  BY <1>0, Forgets DEF FieldsOK
<1>2. UNCHANGED extractedFields /\ worker'[w].pc \notin ReadingPc
  <2>1. CASE Claim(w)
    <3>0. \/ worker'[w] = Polling
          \/ worker'[w].pc = "lock" \/ worker'[w].pc = "open_run" \/ RunOpened(w)
      BY <2>1, ClaimMoves
    <3>1. worker'[w].pc \in {"poll", "lock", "open_run", "load"}
      BY <3>0 DEF Polling, RunOpened
    <3> QED
      BY <2>1, <3>1, ClaimMoves DEF ReadingPc
  <2>2. CASE ~Claim(w)
    <3>1. Process(w) \/ Route(w) \/ Failure(w)
      BY <2>2 DEF OtherStep, Process
    <3>2. RunEffect(w)
      BY <3>1, RunEffects
    <3>3. worker[w].pc \notin {"classify", "mark_classified", "extract", "insert_fields", "validate"}
             \/ IterationCapReached(w)
      BY <2>2 DEF OtherStep, LoadDocument, RunOCR, AuditClassified, PersistExtracted,
                  AuditExtracted, PersistKey, PersistValidated, AuditValidated,
                  CheckExactDuplicate, CheckNearDuplicate, PersistDuplicate, FinalizeDocument,
                  FinishAutoProcessed, AuditAutoProcessed, Route, OpenReviewTask,
                  PersistPendingReview, FinishRouted, AuditRouted, Failure, FinishFailed,
                  CountAttempts, Requeue, AuditRetrying, GiveUp, AuditFailed, Step, At
    <3>4. CASE IterationCapReached(w)
      <4>1. worker'[w].pc = "fail_finish" /\ UNCHANGED extractedFields
        BY <3>4, FailGoes
           DEF IterationCapReached, Goes, Inv, TypeOK, WorkerTypeOK, NoStatement, tables
      <4> QED
        BY <4>1 DEF ReadingPc
    <3>5. CASE ~IterationCapReached(w)
      BY <3>2, <3>3, <3>5, EffectTargets DEF ReadingPc
    <3> QED
      BY <3>4, <3>5
  <2> QED
    BY <2>1, <2>2
<1> QED
  BY <1>0, <1>1, <1>2 DEF FieldMove, FieldsKept

\* The step of a run, with what it does to its worker and to the tables
LEMMA FieldMoves ==
    ASSUME Inv, FieldsOK, NEW w \in Workers, FieldStep(w)
    PROVE  /\ FieldMove(w) /\ ReadingsMatch'
           /\ Claim(w) \/ RunEffect(w)
<1>1. CASE OtherStep(w)
  <2>1. Claim(w) \/ Process(w) \/ Route(w) \/ Failure(w)
    BY <1>1 DEF OtherStep, Process
  <2> QED
    BY <1>1, <2>1, OtherMoves, RunEffects
<1>2. CASE ~OtherStep(w)
  <2>1. Process(w)
    BY <1>2 DEF FieldStep, ClassifyText, StoreClassification, ExtractText, StoreFields,
                ValidateFields, WeighConfidence, Process
  <2>2. RunEffect(w)
    BY <2>1, RunEffects
  <2> QED
    BY <1>2, <2>2, ClassifyMoves, ExtractMoves, StoreMoves, CheckMoves DEF FieldStep
<1> QED
  BY <1>1, <1>2

---------------------------------------------------------------------------
(* What a reviewer does *)

PageStep(u) == LoadPage(u) \/ EditField(u) \/ ClosePage(u)

DeskStep(u) == AcceptForm(u) \/ StoreCorrections(u) \/ OtherRequestStep(u)

\* A page is loaded, edited or closed: nobody else notices.
LEMMA PageMoves ==
    ASSUME FieldsOK, NEW u \in Reviewers, PageStep(u)
    PROVE  /\ DesksMatch' /\ PageUntouched
           /\ \A v \in Reviewers \ {u} : page'[v] = page[v]
<1> USE DEF FieldsOK, DesksMatch
<1>0. PageUntouched /\ UNCHANGED <<form, documents>>
  BY DEF PageStep, LoadPage, EditField, ClosePage, PageUntouched, vars, tables
<1>1. PICK next : page' = [page EXCEPT ![u] = next]
  BY DEF PageStep, LoadPage, EditField, ClosePage, OpenPage
<1>2. /\ page' = [v \in Reviewers |-> page'[v]] /\ page'[u] = next
      /\ \A v \in Reviewers \ {u} : page'[v] = page[v]
  BY <1>1
<1>3. DeskMatches(u)'
  <2>1. ASSUME NEW pc \in {"row", "open"}, NEW d \in DOMAIN documents, NEW status, NEW texts,
               OpenPage(u, pc, d, status, texts)
        PROVE  DeskMatches(u)'
    <3>1. page'[u] = [pc |-> pc, document |-> d, status |-> status, texts |-> texts,
                      edited |-> {}]
      BY <2>1 DEF OpenPage
    <3> QED
      BY <1>0, <3>1 DEF DeskMatches
  <2>2. CASE LoadPage(u)
    <3>1. page[u].pc = "row" => page[u].document \in DOMAIN documents
      BY DEF DeskMatches
    <3> QED
      BY <2>1, <2>2, <3>1 DEF LoadPage
  <2>3. CASE EditField(u)
    <3>1. PICK edit \in Edits :
             page' = [page EXCEPT ![u] =
                        [@ EXCEPT !.texts[edit.name] = edit.text,
                                  !.edited = page[u].edited \cup {edit.name}]]
      BY <2>3 DEF EditField
    <3> DEFINE texts == [page[u].texts EXCEPT ![edit.name] = edit.text]
               edited == page[u].edited \cup {edit.name}
    <3>2. page'[u] = [page[u] EXCEPT !.texts[edit.name] = edit.text,
                                     !.edited = page[u].edited \cup {edit.name}]
      BY <3>1
    <3>4. /\ DOMAIN page'[u] = DOMAIN page[u]
          /\ page'[u].texts = texts /\ page'[u].edited = edited
          /\ page'[u].pc = page[u].pc /\ page'[u].document = page[u].document
          /\ page'[u].status = page[u].status
          /\ page'[u] = [field \in DOMAIN page[u] |-> page'[u][field]]
      BY <3>2 DEF DeskMatches
    <3>5. DOMAIN page[u] = {"pc", "document", "status", "texts", "edited"}
      BY DEF DeskMatches
    <3> HIDE DEF texts, edited
    <3>3. page'[u] = [pc |-> page[u].pc, document |-> page[u].document,
                      status |-> page[u].status, texts |-> texts, edited |-> edited]
      BY <3>4, <3>5
    <3> QED
      BY <1>0, <3>3 DEF DeskMatches
  <2>4. CASE ClosePage(u)
    <3>1. page'[u] = ClosedPage
      BY <2>4 DEF ClosePage
    <3> QED
      BY <1>0, <3>1 DEF DeskMatches, ClosedPage
  <2> QED
    BY <2>2, <2>3, <2>4 DEF PageStep
<1>4. ASSUME NEW v \in Reviewers \ {u} PROVE DeskMatches(v)'
  BY <1>0, <1>2 DEF DeskMatches
<1>5. form' = [v \in Reviewers |-> form'[v]]
  BY <1>0
<1> QED
  BY <1>0, <1>2, <1>3, <1>4, <1>5

\* Answering a request closes its form, and its page if it succeeded.
LEMMA AnswerMoves ==
    ASSUME FieldsOK, NEW u \in Reviewers, Answered(u), DOMAIN documents \subseteq DOMAIN documents'
    PROVE  /\ DesksMatch'
           /\ \A v \in Reviewers \ {u} : page'[v] = page[v] /\ form'[v] = form[v]
           /\ \/ page'[u] = page[u]
              \/ page'[u] = ClosedPage /\ Reviewing(u, "audit") /\ FromPage(u)
           /\ form'[u] = IF review'[u].pc = "idle" THEN NoForm ELSE form[u]
<1> USE DEF FieldsOK, DesksMatch
<1>1. /\ form' = [v \in Reviewers |-> form'[v]]
      /\ \A v \in Reviewers \ {u} : form'[v] = form[v]
      /\ form'[u] = IF review'[u].pc = "idle" THEN NoForm ELSE form[u]
  BY DEF Answered
<1>2. /\ page' = [v \in Reviewers |-> page'[v]]
      /\ \A v \in Reviewers \ {u} : page'[v] = page[v]
      /\ \/ page'[u] = page[u]
         \/ page'[u] = ClosedPage /\ Reviewing(u, "audit") /\ FromPage(u)
  BY DEF Answered
<1>3. ASSUME NEW v \in Reviewers PROVE DeskMatches(v)'
  <2>1. page'[v] = page[v] \/ page'[v] = ClosedPage
    BY <1>2
  <2>2. form'[v] = form[v] \/ form'[v] = NoForm
    BY <1>1
  <2> QED
    BY <2>1, <2>2 DEF DeskMatches, ClosedPage, NoForm
<1> QED
  BY <1>1, <1>2, <1>3

LEMMA AcceptMoves ==
    ASSUME FieldsOK, NEW u \in Reviewers, AcceptForm(u)
    PROVE  /\ DesksMatch' /\ UNCHANGED <<tables, page>>
           /\ \A v \in Reviewers \ {u} : form'[v] = form[v]
           /\ form'[u] \in FormsOf(u, review'[u].decision)
           /\ review'[u].decision = "correct" => DOMAIN form'[u].values # {}
<1> USE DEF FieldsOK, DesksMatch
<1>0. UNCHANGED <<tables, page, documents>>
  BY DEF AcceptForm, AcceptRequest, NoStatement, tables
<1>1. PICK sent \in FormsOf(u, review'[u].decision) :
         /\ review'[u].decision = "correct" => DOMAIN sent.values # {}
         /\ form' = [form EXCEPT ![u] = sent]
  BY DEF AcceptForm
<1>2. /\ form' = [v \in Reviewers |-> form'[v]] /\ form'[u] = sent
      /\ \A v \in Reviewers \ {u} : form'[v] = form[v]
  BY <1>1
<1>3. sent = [values |-> sent.values, edited |-> sent.edited, seen |-> sent.seen]
  BY DEF FormsOf, NoForm
<1>4. ASSUME NEW v \in Reviewers PROVE DeskMatches(v)'
  <2>1. form'[v] = form[v] \/ form'[v] = sent
    BY <1>2
  <2> QED
    BY <1>0, <1>3, <2>1 DEF DeskMatches
<1>5. page' = [v \in Reviewers |-> page'[v]]
  BY <1>0
<1> QED
  BY <1>0, <1>1, <1>2, <1>4, <1>5

Corrects(u) ==
    /\ Reviewing(u, "save_fields") /\ Continues(u, "resolve")
    /\ NewBatch(review[u].document, u, form[u].values)
    /\ UNCHANGED <<documents, classification, page>> /\ form'[u] = form[u]

LEMMA DeskMoves ==
    ASSUME Inv, FieldsOK, NEW u \in Reviewers, DeskStep(u)
    PROVE  /\ DesksMatch' /\ SubmitStep(u)
           /\ UNCHANGED <<classification, extraction, workerVars>>
           /\ DOMAIN documents' = DOMAIN documents
           /\ \A v \in Reviewers \ {u} : page'[v] = page[v] /\ form'[v] = form[v]
           /\ \/ Corrects(u)
              \/ FieldsKept
<1>1. SubmitStep(u) /\ UNCHANGED <<classification, extraction, workerVars>>
  BY DEF DeskStep, AcceptForm, StoreCorrections, OtherRequestStep, SubmitStep
<1>2. ReviewEffect(u)
  BY <1>1, ReviewEffects
<1>3. DOMAIN documents' = DOMAIN documents
  BY <1>2 DEF ReviewEffect, SameRows, StatusWritten, DocumentSet, TaskResolved, BatchInserted
<1>4. CASE AcceptForm(u)
  <2>1. UNCHANGED <<extractedFields, fieldRows, classification>>
    BY <1>4 DEF AcceptForm, AcceptRequest, NoStatement, tables
  <2> QED
    BY <1>1, <1>3, <1>4, <2>1, AcceptMoves DEF FieldsKept
<1>5. CASE StoreCorrections(u)
  <2>1. Reviewing(u, "save_fields") /\ Answered(u)
    BY <1>5 DEF StoreCorrections, SaveCorrections
  <2>2. /\ DesksMatch'
        /\ \A v \in Reviewers \ {u} : page'[v] = page[v] /\ form'[v] = form[v]
    BY <1>3, <2>1, AnswerMoves
  <2>3. CASE Respond(u) /\ UNCHANGED tables
    <3>1. review'[u].pc = "idle"
      BY <2>3 DEF Respond, NoRequest, Inv, TypeOK, ReviewTypeOK
    <3> QED
      BY <1>1, <1>3, <1>5, <2>2, <2>3, <3>1 DEF StoreCorrections, FieldsKept, tables
  <2>4. CASE InsertBatch(review[u].document, u) /\ Proceed(u, "resolve")
    <3>1. Continues(u, "resolve")
      BY <2>4, ProceedContinues
    <3>2. fieldRows' = Append(fieldRows, form[u].values)
      BY <1>5, <3>1 DEF StoreCorrections, Continues
    <3>3. TablesOK
      BY DEF Inv, TypeOK, DatabaseTypeOK, TablesOK
    <3>4. NewBatch(review[u].document, u, form[u].values) /\ UNCHANGED documents
      BY <2>4, <3>2, <3>3, BatchAndRows DEF FieldsOK, InsertBatch
    <3>5. page' = page /\ form'[u] = form[u]
      <4>1. ~Reviewing(u, "audit")
        BY <2>1 DEF Reviewing
      <4> QED
        BY <2>1, <3>1, <4>1, AnswerMoves, <1>3 DEF Answered, Continues
    <3> QED
      BY <1>1, <1>3, <2>1, <2>2, <3>1, <3>4, <3>5 DEF Corrects
  <2> QED
    BY <1>5, <2>3, <2>4 DEF StoreCorrections, SaveCorrections, Attempt
<1>6. CASE OtherRequestStep(u)
  <2>1. Answered(u) /\ UNCHANGED <<fieldRows, classification>> /\ ~Reviewing(u, "save_fields")
    BY <1>6 DEF OtherRequestStep, LoadTask, ResolveTask, CloseDocument, AuditDecision, Reviewing
  <2>2. UNCHANGED extractedFields
    BY <1>2, <2>1 DEF ReviewEffect, SameRows, StatusWritten, DocumentSet, TaskResolved
  <2> QED
    BY <1>1, <1>3, <2>1, <2>2, AnswerMoves DEF FieldsKept
<1> QED
  BY <1>4, <1>5, <1>6 DEF DeskStep

---------------------------------------------------------------------------
(* Every step *)

SystemStep == [FieldsNext]_<<vars, fieldVars>>

LEMMA UploadMatches ==
    ASSUME Inv, FieldsOK, UploadText
    PROVE  FieldsOK' /\ UNCHANGED <<extractedFields, fieldRows>>
<1>0. Upload /\ UNCHANGED <<fieldRows, extraction, page, form>>
  BY DEF UploadText
<1>1. /\ UNCHANGED extractedFields /\ DOMAIN documents \subseteq DOMAIN documents'
  BY <1>0, DocumentCreated
<1>2. PICK content \in Contents : CreateDocument(content)
  BY <1>0 DEF Upload
<1>3. documents \in Seq(Document) /\ documents' \in Seq(Document)
  <2>1. [Next]_vars
    BY DEF UploadText, Next
  <2> QED
    BY <2>1, InvInductive DEF Inv, TypeOK, DatabaseTypeOK
<1>4. DOMAIN documents = 1..Len(documents) /\ Len(documents) \in Nat
  BY <1>3, LenProperties
<1>5. DOMAIN documents' = 1..(Len(documents) + 1)
  BY <1>0, <1>4, DocumentCreated
<1>6. classification = [d \in 1..Len(documents) |-> classification[d]]
  BY <1>4 DEF FieldsOK, RowsMatch
<1>7. classification' = Append(classification, Unclassified)
  BY DEF UploadText
<1>8. classification' = [d \in 1..(Len(documents) + 1) |-> classification'[d]]
  BY <1>4, <1>6, <1>7, AppendRow
<1>9. RowsMatch' /\ BatchesRefer'
  <2>1. RowsMatch'
    BY <1>0, <1>1, <1>5, <1>8 DEF FieldsOK, RowsMatch
  <2>2. MaxDocuments \in Nat /\ Len(documents) < MaxDocuments
    BY <1>0, DatabaseAssumption DEF Upload
  <2>3. DOMAIN documents' \subseteq DocumentIds
    BY <1>4, <1>5, <2>2 DEF DocumentIds
  <2> QED
    BY <1>1, <2>1, <2>3 DEF FieldsOK, BatchesRefer
<1>10. ReadingsMatch' /\ DesksMatch'
  BY <1>0, <1>1 DEF FieldsOK, ReadingsMatch, DesksMatch, DeskMatches
<1> QED
  BY <1>0, <1>1, <1>9, <1>10 DEF FieldsOK

\* A step of a run writes at most its document's row.
LEMMA RunKeepsDocuments ==
    ASSUME Inv, NEW w \in Workers, Claim(w) \/ RunEffect(w)
    PROVE  DOMAIN documents' = DOMAIN documents
BY ClaimMoves, EffectDocuments

LEMMA StepMatches ==
    ASSUME Inv, FieldsOK, NEW w \in Workers, FieldStep(w)
    PROVE  FieldsOK'
<1>0. /\ UNCHANGED <<page, form>>
      /\ DOMAIN documents' = DOMAIN documents
  <2>1. UNCHANGED <<page, form>>
    BY DEF FieldStep, ClassifyText, StoreClassification, ExtractText, StoreFields,
           ValidateFields, WeighConfidence, OtherStep, fieldVars
  <2> QED
    BY <2>1, FieldMoves, RunKeepsDocuments
<1>1. ReadingsMatch' /\ DesksMatch'
  BY <1>0, FieldMoves DEF FieldsOK, DesksMatch, DeskMatches
<1>2. CASE UNCHANGED <<extractedFields, fieldRows>>
  <2>1. \/ UNCHANGED classification
        \/ \E d, found : classification' = [classification EXCEPT ![d] = found]
    BY FieldMoves, ZenonT(60) DEF FieldMove, FieldsKept
  <2>2. classification' = [d \in DOMAIN documents' |-> classification'[d]]
    BY <1>0, <2>1 DEF FieldsOK, RowsMatch
  <2> QED
    BY <1>0, <1>1, <1>2, <2>2 DEF FieldsOK, RowsMatch, BatchesRefer
<1>3. CASE /\ NewBatch(worker[w].document, Agent, extraction[w].fields)
           /\ worker[w].pc = "insert_fields" /\ UNCHANGED classification
  <2>1. worker[w].document \in DOMAIN documents
    BY <1>3, RunFacts DEF RunPc, PersistPc
  <2>2. RowsMatch'
    BY <1>0, <1>3 DEF FieldsOK, RowsMatch, NewBatch
  <2>3. BatchesRefer'
    BY <1>0, <1>3, <2>1 DEF FieldsOK, BatchesRefer, NewBatch
  <2> QED
    BY <1>1, <2>2, <2>3 DEF FieldsOK
<1> QED
  BY <1>2, <1>3, FieldMoves DEF FieldMove, FieldsKept, From

LEMMA CrashMatches ==
    ASSUME Inv, FieldsOK, NEW w \in Workers, CrashForgetting(w)
    PROVE  FieldsOK' /\ UNCHANGED <<documents, agentRuns, extractedFields, fieldRows>>
<1>1. /\ UNCHANGED <<documents, agentRuns, extractedFields>>
      /\ UNCHANGED <<fieldRows, classification, page, form>>
  BY DEF CrashForgetting, Crash, NoStatement, tables
<1>2. ReadingsMatch'
  BY Forgets DEF CrashForgetting, FieldsOK
<1>3. RowsMatch' /\ BatchesRefer' /\ DesksMatch'
  BY <1>1 DEF FieldsOK, RowsMatch, BatchesRefer, DesksMatch, DeskMatches
<1> QED
  BY <1>1, <1>2, <1>3 DEF FieldsOK

LEMMA ReviewerMatches ==
    ASSUME Inv, FieldsOK, NEW u \in Reviewers, ReviewerStep(u)
    PROVE  FieldsOK'
<1>1. CASE PageStep(u)
  <2>1. DesksMatch' /\ UNCHANGED <<documents, extractedFields, fieldRows, classification, extraction>>
    BY <1>1, PageMoves DEF PageUntouched, vars, tables
  <2> QED
    BY <2>1 DEF FieldsOK, RowsMatch, BatchesRefer, ReadingsMatch
<1>2. CASE DeskStep(u)
  <2>1. /\ DesksMatch' /\ UNCHANGED <<classification, extraction>>
        /\ DOMAIN documents' = DOMAIN documents
        /\ Corrects(u) \/ FieldsKept
    BY <1>2, DeskMoves
  <2>2. CASE FieldsKept
    BY <2>1, <2>2 DEF FieldsKept, FieldsOK, RowsMatch, BatchesRefer, ReadingsMatch
  <2>3. CASE Corrects(u)
    <3>1. review[u].document \in DOMAIN documents
      BY <2>3 DEF Corrects, Reviewing, Inv, TypeOK, ReviewRowsExist
    <3>2. RowsMatch'
      BY <2>1, <2>3 DEF Corrects, FieldsOK, RowsMatch, NewBatch
    <3>3. BatchesRefer'
      BY <2>1, <2>3, <3>1 DEF Corrects, FieldsOK, BatchesRefer, NewBatch
    <3> QED
      BY <2>1, <3>2, <3>3 DEF FieldsOK, ReadingsMatch
  <2> QED
    BY <2>1, <2>2, <2>3
<1> QED
  BY <1>1, <1>2 DEF ReviewerStep, PageStep, DeskStep

LEMMA FieldsOKInductive ==
    ASSUME Inv, FieldsOK, SystemStep
    PROVE  FieldsOK'
<1>1. CASE UNCHANGED <<vars, fieldVars>>
  BY <1>1 DEF vars, tables, fieldVars, FieldsOK, RowsMatch, BatchesRefer, ReadingsMatch,
              DesksMatch, DeskMatches
<1> QED
  BY <1>1, UploadMatches, StepMatches, CrashMatches, ReviewerMatches DEF SystemStep, FieldsNext

\* The agent's step that stores what it has read
Inserts(w) ==
    /\ From(w, "insert_fields", "mark_extracted") /\ RunEffect(w)
    /\ NewBatch(worker[w].document, Agent, extraction[w].fields)
    /\ Storable(extraction[w].fields)
    /\ UNCHANGED <<documents, agentRuns, classification, extraction, review, page, form>>

\* Rows are inserted by a run at insert_fields and by a request at
\* save_fields, and by nothing else.
LEMMA RowCases ==
    ASSUME Inv, FieldsOK, SystemStep
    PROVE  \/ UNCHANGED <<extractedFields, fieldRows>>
           \/ \E w \in Workers : Inserts(w)
           \/ \E u \in Reviewers : Corrects(u)
<1>1. CASE UNCHANGED <<vars, fieldVars>>
  BY <1>1 DEF vars, tables, fieldVars
<1>2. ASSUME NEW w \in Workers, FieldStep(w)
      PROVE  UNCHANGED <<extractedFields, fieldRows>> \/ Inserts(w)
  <2>1. CASE From(w, "insert_fields", "mark_extracted")
    <3>1. /\ NewBatch(worker[w].document, Agent, extraction[w].fields)
          /\ Storable(extraction[w].fields)
          /\ UNCHANGED <<extraction, classification>>
      BY <1>2, <2>1, FieldMoves DEF FieldMove, From, ReadingPc
    <3>2. RunEffect(w)
      BY <1>2, <2>1, FieldMoves, ClaimMoves DEF From
    <3>3. UNCHANGED <<documents, agentRuns>>
      BY <2>1, <3>2 DEF RunEffect, SameRows, WriteMove, BatchInserted, At, From
    <3>4. UNCHANGED <<review, page, form>>
      BY <1>2 DEF FieldStep, ClassifyText, StoreClassification, ExtractText, StoreFields,
                  ValidateFields, WeighConfidence, OtherStep, fieldVars
    <3> QED
      BY <2>1, <3>1, <3>2, <3>3, <3>4 DEF Inserts
  <2> QED
    BY <1>2, <2>1, FieldMoves DEF FieldMove, FieldsKept, From
<1>3. ASSUME NEW w \in Workers, CrashForgetting(w)
      PROVE  UNCHANGED <<extractedFields, fieldRows>>
  BY <1>3, CrashMatches
<1>4. ASSUME NEW u \in Reviewers, ReviewerStep(u)
      PROVE  UNCHANGED <<extractedFields, fieldRows>> \/ Corrects(u)
  <2>1. CASE PageStep(u)
    BY <2>1, PageMoves DEF PageUntouched, vars, tables
  <2>2. CASE DeskStep(u)
    BY <2>2, DeskMoves DEF FieldsKept
  <2> QED
    BY <1>4, <2>1, <2>2 DEF ReviewerStep, PageStep, DeskStep
<1> QED
  BY <1>1, <1>2, <1>3, <1>4, UploadMatches DEF SystemStep, FieldsNext

---------------------------------------------------------------------------
(* What readers get follows FieldView *)

\* A document has corrections only under review or after it, and what
\* readers get has them.
HumanFields(d) ==
    /\ CorrectionsOf(d) # {} => documents[d].status \in {"PENDING_REVIEW", "REVIEWED"}
    /\ \A name \in DOMAIN Corrected(d) :
          name \in DOMAIN Shown(d) /\ Shown(d)[name] = Corrected(d)[name]

FormInv(u) ==
    /\ Reviewing(u, "load_task") /\ review[u].decision = "correct" =>
          DOMAIN form[u].values # {}
    /\ Reviewing(u, "save_fields") => DOMAIN form[u].values # {}

ViewInv ==
    /\ \A d \in DOMAIN documents : HumanFields(d)
    /\ \A u \in Reviewers : FormInv(u)

\* A run that is to store its fields has a document no human has corrected.
LEMMA InsertsUncorrected ==
    ASSUME Solo, PipelineInv, ViewInv, NEW w \in Workers, Inserts(w)
    PROVE  LET d == worker[w].document
           IN  /\ d \in DOMAIN documents /\ documents[d].status = "CLASSIFIED"
               /\ CorrectionsOf(d) = {}
<1>1. worker[w].pc = "insert_fields" /\ worker[w].pc \in OwningPc
  BY DEF Inserts, From, OwningPc, OpenPc, PersistPc
<1>2. worker[w].document \in DOMAIN documents
  BY <1>1, RunFacts DEF PipelineInv, RunPc, PersistPc
<1>3. documents[worker[w].document].status \in StageAt("insert_fields")
  BY <1>1 DEF PipelineInv, StageInv, Staged, Disturbed
<1>4. StageAt("insert_fields") = {"CLASSIFIED"}
  BY DEF StageAt
<1> QED
  BY <1>2, <1>3, <1>4 DEF ViewInv, HumanFields

LEMMA CorrectsUnderReview ==
    ASSUME Solo, PipelineInv, NEW u \in Reviewers, Corrects(u)
    PROVE  LET d == review[u].document
           IN  /\ d \in DOMAIN documents
               /\ documents[d].status \in {"PENDING_REVIEW", "REVIEWED"}
BY DEF Corrects, Reviewing, PipelineInv, StageInv, UnderReview, Disturbed, Inv, TypeOK,
       ReviewRowsExist

LEMMA UncorrectedIsEmpty ==
    ASSUME NEW d, CorrectionsOf(d) = {}
    PROVE  DOMAIN Corrected(d) = {}
BY DEF Corrected

LEMMA QuietViews ==
    ASSUME Inv, UNCHANGED <<extractedFields, fieldRows>>
    PROVE  \A d : ViewKept(d)
<1>1. TablesOK
  BY DEF Inv, TypeOK, DatabaseTypeOK, TablesOK
<1> SUFFICES ASSUME NEW d PROVE ViewKept(d)
  OBVIOUS
<1>2. BatchesOf(d)' = BatchesOf(d)
  BY DEF BatchesOf
<1> QED
  BY <1>1, <1>2, ViewsKept

\* The two kinds of step that change what readers of a document get
AgentStores(w, d) ==
    /\ Inserts(w) /\ d = worker[w].document
    /\ d \in DOMAIN documents /\ documents[d].status = "CLASSIFIED"
    /\ \A e : e # d => ViewKept(e)
    /\ Shown(d)' = Overlay(Shown(d), extraction[w].fields)
    /\ CorrectionsOf(d) = {} /\ CorrectionsOf(d)' = {}

ReviewerStores(u, d) ==
    /\ Corrects(u) /\ d = review[u].document
    /\ d \in DOMAIN documents
    /\ documents[d].status \in {"PENDING_REVIEW", "REVIEWED"}
    /\ \A e : e # d => ViewKept(e)
    /\ Shown(d)' = Overlay(Shown(d), form[u].values)
    /\ Corrected(d)' = Overlay(Corrected(d), form[u].values)
    /\ CorrectionsOf(d)' # {}

LEMMA ViewCases ==
    ASSUME Solo, PipelineInv, FieldsOK, ViewInv, SystemStep
    PROVE  \/ \A d : ViewKept(d)
           \/ \E w \in Workers, d \in DOMAIN documents : AgentStores(w, d)
           \/ \E u \in Reviewers, d \in DOMAIN documents : ReviewerStores(u, d)
<1>0. TablesOK /\ Inv
  BY DEF PipelineInv, Inv, TypeOK, DatabaseTypeOK, TablesOK
<1>1. CASE UNCHANGED <<extractedFields, fieldRows>>
  BY <1>0, <1>1, QuietViews
<1>2. ASSUME NEW w \in Workers, Inserts(w)
      PROVE  \E d \in DOMAIN documents : AgentStores(w, d)
  <2>1. PICK d : d = worker[w].document
    OBVIOUS
  <2>2. NewBatch(d, Agent, extraction[w].fields)
    BY <1>2, <2>1 DEF Inserts
  <2>3. /\ Shown(d)' = Overlay(Shown(d), extraction[w].fields)
        /\ CorrectionsOf(d)' = CorrectionsOf(d)
        /\ \A e : e # d => ViewKept(e)
    BY <1>0, <2>2, OtherViewsKept, BatchOverlays, AgentOverlays
  <2>4. /\ d \in DOMAIN documents /\ documents[d].status = "CLASSIFIED"
        /\ CorrectionsOf(d) = {}
    BY <1>2, <2>1, InsertsUncorrected
  <2> QED
    BY <1>2, <2>1, <2>3, <2>4 DEF AgentStores
<1>3. ASSUME NEW u \in Reviewers, Corrects(u)
      PROVE  \E d \in DOMAIN documents : ReviewerStores(u, d)
  <2>1. PICK d : d = review[u].document
    OBVIOUS
  <2>2. NewBatch(d, u, form[u].values) /\ u # Agent
    BY <1>3, <2>1, DatabaseAssumption DEF Corrects
  <2>3. /\ Shown(d)' = Overlay(Shown(d), form[u].values)
        /\ Corrected(d)' = Overlay(Corrected(d), form[u].values)
        /\ CorrectionsOf(d)' # {}
        /\ \A e : e # d => ViewKept(e)
    BY <1>0, <2>2, OtherViewsKept, BatchOverlays, ReviewerOverlays
  <2> QED
    BY <1>3, <2>1, <2>3, CorrectsUnderReview DEF ReviewerStores
<1> QED
  BY <1>0, <1>1, <1>2, <1>3, RowCases

LEMMA DeskCases ==
    ASSUME SystemStep
    PROVE  UNCHANGED <<review, form>> \/ \E u \in Reviewers : DeskStep(u)
<1>1. CASE UNCHANGED <<vars, fieldVars>>
  BY <1>1 DEF vars, fieldVars
<1>2. CASE UploadText
  BY <1>2 DEF UploadText
<1>3. CASE \E w \in Workers : FieldStep(w) \/ CrashForgetting(w)
  BY <1>3
  DEF FieldStep, ClassifyText, StoreClassification, ExtractText, StoreFields, ValidateFields,
      WeighConfidence, OtherStep, fieldVars, CrashForgetting
<1>4. CASE \E u \in Reviewers : ReviewerStep(u)
  <2>1. PICK u \in Reviewers : ReviewerStep(u)
    BY <1>4
  <2>2. CASE PageStep(u)
    BY <2>2 DEF PageStep, LoadPage, EditField, ClosePage, PageUntouched, vars
  <2> QED
    BY <2>1, <2>2 DEF ReviewerStep, PageStep, DeskStep
<1> QED
  BY <1>1, <1>2, <1>3, <1>4 DEF SystemStep, FieldsNext

\* The form of a correction is not empty when it is accepted, and kept until
\* it is stored.
LEMMA FormsKept ==
    ASSUME Inv, FieldsOK, SystemStep, \A u \in Reviewers : FormInv(u)
    PROVE  \A u \in Reviewers : FormInv(u)'
<1>1. CASE UNCHANGED <<review, form>>
  BY <1>1 DEF FormInv, Reviewing
<1>2. ASSUME NEW u \in Reviewers, DeskStep(u) PROVE \A v \in Reviewers : FormInv(v)'
  <2>1. /\ ReviewEffect(u) /\ SubmitStep(u)
        /\ \A v \in Reviewers \ {u} : form'[v] = form[v]
        /\ DOMAIN documents \subseteq DOMAIN documents'
    BY <1>2, DeskMoves, ReviewEffects
  <2>2. ASSUME NEW v \in Reviewers, v # u PROVE FormInv(v)'
    BY <2>1, <2>2 DEF FormInv, Reviewing, ReviewEffect
  <2>3. CASE AcceptForm(u)
    <3>1. review'[u].pc = "load_task"
      BY <2>3 DEF AcceptForm, AcceptRequest, Inv, TypeOK, ReviewTypeOK
    <3>2. FormInv(u)'
      BY <2>3, <3>1, AcceptMoves DEF FormInv, Reviewing
    <3> QED
      BY <2>2, <3>2
  <2>4. CASE ~AcceptForm(u)
    <3>1. Answered(u) /\ ~Reviewing(u, "idle")
      BY <1>2, <2>4 DEF DeskStep, StoreCorrections, SaveCorrections, OtherRequestStep, LoadTask,
                        ResolveTask, CloseDocument, AuditDecision, Reviewing
    <3>2. form'[u] = IF review'[u].pc = "idle" THEN NoForm ELSE form[u]
      BY <2>1, <3>1, AnswerMoves
    <3>3. review'[u].pc # "load_task"
      BY <2>1, <3>1 DEF ReviewEffect, Reviewing, Continues, NoRequest
    <3>4. review'[u].pc = "save_fields" =>
             Reviewing(u, "load_task") /\ review[u].decision = "correct"
      BY <2>1, <3>1 DEF ReviewEffect, Reviewing, Continues, NoRequest
    <3>5. FormInv(u)'
      BY <3>2, <3>3, <3>4 DEF FormInv, Reviewing
    <3> QED
      BY <2>2, <3>5
  <2> QED
    BY <2>3, <2>4
<1> QED
  BY <1>1, <1>2, DeskCases

LEMMA HumanFieldsKept ==
    ASSUME Solo, PipelineInv, FieldsOK, ViewInv, SystemStep
    PROVE  \A d \in DOMAIN documents' : HumanFields(d)'
<1>1. [Next]_vars
  BY FieldsNextRefines DEF SystemStep
<1>2. ASSUME NEW d \in DOMAIN documents PROVE HumanFields(d) /\ SettledFor(d)
  BY <1>1, SettledKept DEF ViewInv, Disturbed
<1>3. ASSUME NEW d \in DOMAIN documents' PROVE d \in DOMAIN documents \/ CorrectionsOf(d) = {}
  BY DEF FieldsOK, BatchesRefer, CorrectionsOf, BatchesOf
<1>4. ASSUME NEW d \in DOMAIN documents', ViewKept(d) PROVE HumanFields(d)'
  <2>1. CASE d \in DOMAIN documents
    BY <1>2, <1>4, <2>1 DEF HumanFields, ViewKept, SettledFor, Settled
  <2>2. CASE d \notin DOMAIN documents
    <3>1. CorrectionsOf(d) = {} /\ DOMAIN Corrected(d) = {}
      BY <1>3, <2>2, UncorrectedIsEmpty
    <3> QED
      BY <1>4, <3>1 DEF HumanFields, ViewKept
  <2> QED
    BY <2>1, <2>2
<1>5. ASSUME NEW w \in Workers, NEW d \in DOMAIN documents, AgentStores(w, d)
      PROVE  HumanFields(d)'
  <2>1. CorrectionsOf(d)' = {}
    BY <1>5 DEF AgentStores
  <2>2. DOMAIN Corrected(d)' = {}
    BY <2>1 DEF Corrected
  <2> QED
    BY <2>1, <2>2 DEF HumanFields
<1>6. ASSUME NEW u \in Reviewers, NEW d \in DOMAIN documents, ReviewerStores(u, d)
      PROVE  HumanFields(d)'
  <2>1. documents'[d].status \in {"PENDING_REVIEW", "REVIEWED"}
    BY <1>6 DEF ReviewerStores, Corrects
  <2>2. /\ Shown(d)' = Overlay(Shown(d), form[u].values)
        /\ Corrected(d)' = Overlay(Corrected(d), form[u].values)
    BY <1>6 DEF ReviewerStores
  <2>3. \A name \in DOMAIN Corrected(d) :
           name \in DOMAIN Shown(d) /\ Shown(d)[name] = Corrected(d)[name]
    BY <1>2 DEF HumanFields
  <2>4. \A name \in DOMAIN Corrected(d)' :
           name \in DOMAIN Shown(d)' /\ Shown(d)'[name] = Corrected(d)'[name]
    BY <2>2, <2>3 DEF Overlay
  <2> QED
    BY <2>1, <2>4 DEF HumanFields
<1>7. ASSUME NEW d, ~ViewKept(d)
      PROVE  \/ \E w \in Workers : d \in DOMAIN documents /\ AgentStores(w, d)
             \/ \E u \in Reviewers : d \in DOMAIN documents /\ ReviewerStores(u, d)
  BY <1>7, ViewCases DEF AgentStores, ReviewerStores
<1> QED
  BY <1>4, <1>5, <1>6, <1>7

FieldsBase == PipelineInv /\ FieldsOK

LEMMA FieldsBaseInductive ==
    ASSUME Solo, FieldsBase, SystemStep
    PROVE  FieldsBase' /\ [Next]_vars
<1>1. [Next]_vars
  BY FieldsNextRefines DEF SystemStep
<1>2. Inv' /\ ClaimInv' /\ RunInv' /\ StageInv'
  BY <1>1, InvInductive, ClaimInvInductive, RunInvInductive, StageInvInductive
  DEF FieldsBase, PipelineInv, ClaimsApart
<1> QED
  BY <1>1, <1>2, FieldsOKInductive DEF FieldsBase, PipelineInv

\* The rows of the field tables, the workers' readings and the reviewers'
\* desks match the system's throughout.
LEMMA FieldsBaseHolds ==
    ASSUME Solo
    PROVE  FieldsSpec => []FieldsBase
<1>1. FieldsSpec => []PipelineInv
  BY FieldsImplementSystem, PipelineInvHolds, PTL DEF ClaimsApart
<1>2. FieldsInit => FieldsOK
  BY FieldsOKInitially
<1>3. PipelineInv /\ FieldsOK /\ [FieldsNext]_<<vars, fieldVars>> => FieldsOK'
  BY FieldsOKInductive DEF PipelineInv, SystemStep
<1> QED
  BY <1>1, <1>2, <1>3, PTL DEF FieldsSpec, FieldsBase

LEMMA ViewInvInductive ==
    ASSUME Solo, FieldsBase, ViewInv, SystemStep
    PROVE  ViewInv'
BY HumanFieldsKept, FormsKept DEF FieldsBase, PipelineInv, ViewInv

LEMMA NothingStored ==
    ASSUME FieldsInit
    PROVE  /\ documents = << >> /\ extractedFields = << >>
           /\ \A d : BatchesOf(d) = {}
           /\ \A w \in Workers : worker[w] = Polling
           /\ \A u \in Reviewers : review[u].pc = "idle" /\ page[u] = ClosedPage
BY DEF FieldsInit, Init, DatabaseInit, WorkerInit, ReviewInit, NoRequest, BatchesOf

LEMMA ViewInvHolds ==
    ASSUME Solo
    PROVE  FieldsSpec => []ViewInv
<1>1. FieldsInit => ViewInv
  BY NothingStored DEF ViewInv, FormInv, Reviewing
<1>2. FieldsBase /\ ViewInv /\ [FieldsNext]_<<vars, fieldVars>> => ViewInv'
  BY ViewInvInductive DEF SystemStep
<1> QED
  BY <1>1, <1>2, FieldsBaseHolds, PTL DEF FieldsSpec

\* The refinement mapping of View
ViewMap == [d \in DocumentIds |-> Shown(d)]

CorrectedMap == [d \in DocumentIds |-> Corrected(d)]

LEMMA OthersMapped ==
    ASSUME NEW d \in DocumentIds, \A e : e # d => ViewKept(e)
    PROVE  View!Others(d)
BY DEF View!Others, ViewKept

\* With one worker every step is a step of FieldView, or none.
LEMMA ViewStep ==
    ASSUME Solo, FieldsBase, ViewInv, SystemStep
    PROVE  [\E d \in DocumentIds : View!Extract(d) \/ View!Correct(d)]_<<ViewMap, CorrectedMap>>
<1>1. CASE \A d : ViewKept(d)
  BY <1>1 DEF ViewKept, ViewMap, CorrectedMap
<1>2. ASSUME NEW w \in Workers, NEW d \in DOMAIN documents, AgentStores(w, d)
      PROVE  d \in DocumentIds /\ View!Extract(d)
  <2>1. d \in DocumentIds
    BY DEF FieldsBase, FieldsOK, BatchesRefer
  <2>2. /\ Corrected(d) = [name \in {} |-> name] /\ Corrected(d)' = [name \in {} |-> name]
    <3>1. CorrectionsOf(d) = {} /\ CorrectionsOf(d)' = {}
      BY <1>2 DEF AgentStores
    <3>2. DOMAIN Corrected(d) = {} /\ DOMAIN Corrected(d)' = {}
      BY <3>1 DEF Corrected
    <3> QED
      BY <3>2 DEF Corrected
  <2>3. DOMAIN Shown(d) \subseteq DOMAIN Shown(d)'
    BY <1>2 DEF AgentStores, Overlay
  <2>4. View!Others(d)
    BY <1>2, <2>1, OthersMapped DEF AgentStores
  <2> QED
    BY <2>1, <2>2, <2>3, <2>4 DEF View!Extract, View!Empty
<1>3. ASSUME NEW u \in Reviewers, NEW d \in DOMAIN documents, ReviewerStores(u, d)
      PROVE  d \in DocumentIds /\ View!Correct(d)
  <2>1. d \in DocumentIds
    BY DEF FieldsBase, FieldsOK, BatchesRefer
  <2>2. DOMAIN form[u].values # {}
    BY <1>3 DEF ReviewerStores, Corrects, ViewInv, FormInv
  <2>3. /\ Shown(d)' = Overlay(Shown(d), form[u].values)
        /\ Corrected(d)' = Overlay(Corrected(d), form[u].values)
    BY <1>3 DEF ReviewerStores
  <2>4. \A name \in DOMAIN Corrected(d) :
           name \in DOMAIN Shown(d) /\ Shown(d)[name] = Corrected(d)[name]
    BY DEF ViewInv, HumanFields
  <2>5. Corrected(d)' # [name \in {} |-> name]
    BY <2>2, <2>3 DEF Overlay
  <2>6. DOMAIN Corrected(d) \subseteq DOMAIN Corrected(d)'
    BY <2>3 DEF Overlay
  <2>7. DOMAIN Shown(d)' = DOMAIN Shown(d) \cup DOMAIN Corrected(d)'
    BY <2>3, <2>4 DEF Overlay
  <2>8. \A name \in DOMAIN Shown(d)' :
           Shown(d)'[name] = IF name \in DOMAIN Corrected(d)' THEN Corrected(d)'[name]
                             ELSE Shown(d)[name]
    BY <2>3, <2>4 DEF Overlay
  <2>9. View!Others(d)
    BY <1>3, <2>1, OthersMapped DEF ReviewerStores
  <2> QED
    BY <2>1, <2>5, <2>6, <2>7, <2>8, <2>9 DEF View!Correct, View!Empty
<1>4. (\A d : ViewKept(d))
        \/ (\E w \in Workers, d \in DOMAIN documents : AgentStores(w, d))
        \/ (\E u \in Reviewers, d \in DOMAIN documents : ReviewerStores(u, d))
  BY ViewCases DEF FieldsBase
<1> QED
  BY <1>1, <1>2, <1>3, <1>4

\* With one worker what readers get follows FieldView: no run touches a
\* document that a human has corrected, and a correction gives readers the
\* reviewer's values and leaves every other name alone.
THEOREM FieldsImplementView ==
    ASSUME Solo
    PROVE  FieldsSpec => ImplementsFieldView
<1>1. FieldsInit => View!Init
  <2> SUFFICES ASSUME FieldsInit PROVE View!Init
    OBVIOUS
  <2>1. ASSUME NEW d PROVE DOMAIN Shown(d) = {} /\ DOMAIN Corrected(d) = {}
    BY NothingStored DEF Shown, NamesOf, Corrected, CorrectionsOf
  <2>2. ASSUME NEW d
        PROVE  Shown(d) = [name \in {} |-> name] /\ Corrected(d) = [name \in {} |-> name]
    BY <2>1 DEF Shown, Corrected
  <2> QED
    BY <2>2 DEF View!Init, View!Empty
<1>2. FieldsBase /\ ViewInv /\ [FieldsNext]_<<vars, fieldVars>>
        => [\E d \in DocumentIds : View!Extract(d) \/ View!Correct(d)]_<<ViewMap, CorrectedMap>>
  BY ViewStep DEF SystemStep
<1> QED
  BY <1>1, <1>2, FieldsBaseHolds, ViewInvHolds, PTL
  DEF FieldsSpec, ImplementsFieldView, View!Spec, View!viewVars, ViewMap, CorrectedMap

---------------------------------------------------------------------------
(* What a run has read, and what it has stored of it *)

\* A document whose row, type and fields a step leaves alone
RowKept(d) ==
    /\ documents'[d] = documents[d] /\ classification'[d] = classification[d]
    /\ ViewKept(d)

NewDocument(d) ==
    /\ d \notin DOMAIN documents /\ documents'[d].status = "UPLOADED"
    /\ documents'[d].key = NoKey /\ BatchesOf(d)' = {}

OwnsStep(w) ==
    /\ FieldStep(w) /\ RunEffect(w) /\ FieldMove(w) /\ worker[w].pc \in OwningPc
    /\ UNCHANGED <<review, page, form>> /\ DOMAIN documents' = DOMAIN documents
    /\ \A d \in DOMAIN documents : d # worker[w].document => RowKept(d)

AnswersStep(u) ==
    /\ DeskStep(u) /\ ReviewEffect(u) /\ UNCHANGED <<classification, extraction, workerVars>>
    /\ DOMAIN documents' = DOMAIN documents
    /\ \A d \in DOMAIN documents : d # review[u].document => RowKept(d)

LEMMA OwnerMoves ==
    ASSUME FieldsBase, NEW w \in Workers, FieldStep(w), RunEffect(w), worker[w].pc \in OwningPc
    PROVE  OwnsStep(w)
<1> USE DEF FieldsBase, PipelineInv
<1>0. /\ TablesOK /\ FieldMove(w) /\ DOMAIN documents' = DOMAIN documents
  BY FieldMoves, RunKeepsDocuments DEF Inv, TypeOK, DatabaseTypeOK, TablesOK
<1>1. UNCHANGED <<review, page, form>>
  BY DEF FieldStep, ClassifyText, StoreClassification, ExtractText, StoreFields, ValidateFields,
         WeighConfidence, OtherStep, fieldVars
<1>2. PICK d : d = worker[w].document
  OBVIOUS
<1>3. ASSUME NEW e \in DOMAIN documents, e # d
      PROVE  documents'[e] = documents[e] /\ classification'[e] = classification[e]
  <2>1. documents'[e] = documents[e]
    BY <1>2, <1>3, EffectDocuments
  <2>2. \/ classification' = classification
        \/ \E found : classification' = [classification EXCEPT ![d] = found]
    BY <1>0, <1>2 DEF FieldMove, FieldsKept
  <2> QED
    BY <1>3, <2>1, <2>2 DEF FieldsOK, RowsMatch
<1>4. UNCHANGED <<extractedFields, fieldRows>> \/ NewBatch(d, Agent, extraction[w].fields)
  BY <1>0, <1>2 DEF FieldMove, FieldsKept
<1>5. \A e : e # d => ViewKept(e)
  BY <1>0, <1>4, QuietViews, OtherViewsKept
<1> QED
  BY <1>0, <1>1, <1>2, <1>3, <1>5 DEF OwnsStep, RowKept

\* No document is written but by its worker or the request on it.
LEMMA RowsWritten ==
    ASSUME Solo, FieldsBase, ViewInv, SystemStep
    PROVE  \/ \E w \in Workers : OwnsStep(w)
           \/ \E u \in Reviewers : AnswersStep(u)
           \/ /\ \A d \in DOMAIN documents : RowKept(d)
              /\ \A d \in DOMAIN documents' : d \in DOMAIN documents \/ NewDocument(d)
<1> USE DEF FieldsBase, PipelineInv
<1>0. TablesOK
  BY DEF Inv, TypeOK, DatabaseTypeOK, TablesOK
<1>1. CASE UNCHANGED <<vars, fieldVars>>
  <2>1. UNCHANGED <<documents, extractedFields, fieldRows, classification>>
    BY <1>1 DEF vars, tables, fieldVars
  <2> QED
    BY <2>1, QuietViews DEF RowKept
<1>2. CASE UploadText
  <2>1. Upload /\ UNCHANGED <<extractedFields, fieldRows>>
    BY <1>2, UploadMatches DEF UploadText
  <2>2. \A d : ViewKept(d)
    BY <2>1, QuietViews
  <2>3. DOMAIN documents = 1..Len(documents) /\ Len(documents) \in Nat
    BY <1>0, LenProperties DEF TablesOK
  <2>4. classification' = Append(classification, Unclassified)
    BY <1>2 DEF UploadText
  <2>5. classification = [d \in 1..Len(documents) |-> classification[d]]
    BY <2>3 DEF FieldsOK, RowsMatch
  <2>6. \A d \in DOMAIN documents : classification'[d] = classification[d]
    BY <2>3, <2>4, <2>5, AppendRow
  <2>7. /\ \A d \in DOMAIN documents : documents'[d] = documents[d]
        /\ \A d \in DOMAIN documents' \ DOMAIN documents :
              documents'[d].status = "UPLOADED" /\ documents'[d].key = NoKey
    BY <2>1, DocumentCreated
  <2>8. \A d : d \notin DOMAIN documents => BatchesOf(d) = {}
    BY DEF FieldsOK, BatchesRefer, BatchesOf
  <2> QED
    BY <2>2, <2>6, <2>7, <2>8 DEF RowKept, NewDocument, ViewKept
<1>3. ASSUME NEW w \in Workers, FieldStep(w)
      PROVE  OwnsStep(w) \/ \A d \in DOMAIN documents : RowKept(d)
  <2>1. FieldMove(w) /\ (Claim(w) \/ RunEffect(w)) /\ DOMAIN documents' = DOMAIN documents
    BY <1>3, FieldMoves, RunKeepsDocuments
  <2>3. CASE worker[w].pc \in OwningPc /\ RunEffect(w)
    BY <1>3, <2>3, OwnerMoves
  <2>4. CASE worker[w].pc \notin OwningPc \/ ~RunEffect(w)
    <3>1. \A d \in DOMAIN documents : documents'[d] = documents[d]
      BY <2>1, <2>4, EffectDocuments, ClaimMoves
    <3>2. worker[w].pc \notin {"classify", "mark_classified", "extract", "insert_fields",
                               "validate"}
      BY <2>1, <2>4, ClaimMoves DEF OwningPc, OpenPc, StepPc, PersistPc
    <3>3. FieldsKept
      BY <2>1, <3>2 DEF FieldMove, From
    <3> QED
      BY <3>1, <3>3, QuietViews DEF RowKept, FieldsKept
  <2> QED
    BY <2>3, <2>4
<1>4. ASSUME NEW w \in Workers, CrashForgetting(w)
      PROVE  /\ \A d \in DOMAIN documents : RowKept(d)
             /\ DOMAIN documents' = DOMAIN documents
  <2>1. UNCHANGED <<documents, extractedFields, fieldRows, classification>>
    BY <1>4, CrashMatches DEF CrashForgetting
  <2> QED
    BY <2>1, QuietViews DEF RowKept
<1>5. ASSUME NEW u \in Reviewers, ReviewerStep(u)
      PROVE  \/ AnswersStep(u)
             \/ /\ \A d \in DOMAIN documents : RowKept(d)
                /\ DOMAIN documents' = DOMAIN documents
  <2>1. CASE PageStep(u)
    <3>1. UNCHANGED <<documents, extractedFields, fieldRows, classification>>
      BY <2>1, PageMoves DEF PageUntouched, vars, tables
    <3> QED
      BY <3>1, QuietViews DEF RowKept
  <2>2. CASE DeskStep(u)
    <3>1. /\ SubmitStep(u) /\ UNCHANGED <<classification, extraction, workerVars>>
          /\ DOMAIN documents' = DOMAIN documents
          /\ Corrects(u) \/ FieldsKept
      BY <2>2, DeskMoves
    <3>2. ReviewEffect(u)
      BY <3>1, ReviewEffects
    <3>3. PICK d : d = review[u].document
      OBVIOUS
    <3>4. \A e \in DOMAIN documents : e # d => documents'[e] = documents[e]
      BY <3>2, <3>3 DEF ReviewEffect, SameRows, StatusWritten, DocumentSet, TaskResolved,
                        BatchInserted
    <3>5. \A e : e # d => ViewKept(e)
      BY <1>0, <3>1, <3>3, QuietViews, OtherViewsKept DEF FieldsKept, Corrects
    <3> QED
      BY <2>2, <3>1, <3>2, <3>3, <3>4, <3>5 DEF AnswersStep, RowKept
  <2> QED
    BY <1>5, <2>1, <2>2 DEF ReviewerStep, PageStep, DeskStep
<1>6. ASSUME NEW w \in Workers, FieldStep(w) PROVE DOMAIN documents' = DOMAIN documents
  BY <1>6, FieldMoves, RunKeepsDocuments
<1> QED
  BY <1>1, <1>2, <1>3, <1>4, <1>5, <1>6 DEF SystemStep, FieldsNext

\* Only its own run writes a document that is not under review ...
LEMMA RowCasesOf ==
    ASSUME Solo, FieldsBase, ViewInv, SystemStep, NEW d \in DOMAIN documents,
           documents[d].status \notin {"PENDING_REVIEW", "REVIEWED"}
    PROVE  \/ RowKept(d)
           \/ \E w \in Workers : OwnsStep(w) /\ d = worker[w].document
<1>1. ASSUME NEW u \in Reviewers, AnswersStep(u), d = review[u].document
      PROVE  RowKept(d)
  <2>1. CASE Reviewing(u, "idle")
    <3>1. AcceptForm(u)
      BY <1>1, <2>1 DEF AnswersStep, DeskStep, StoreCorrections, SaveCorrections, OtherRequestStep,
                        LoadTask, ResolveTask, CloseDocument, AuditDecision, Reviewing
    <3>2. UNCHANGED <<documents, extractedFields, fieldRows, classification>>
      BY <3>1 DEF AcceptForm, AcceptRequest, NoStatement, tables
    <3> QED
      BY <3>2, QuietViews DEF RowKept, FieldsBase, PipelineInv
  <2>2. CASE ~Reviewing(u, "idle")
    BY <1>1, <2>2 DEF FieldsBase, PipelineInv, StageInv, UnderReview, Disturbed
  <2> QED
    BY <2>1, <2>2
<1> QED
  BY <1>1, RowsWritten DEF OwnsStep, AnswersStep

\* ... and it is not settled.
LEMMA OwnedIsActive ==
    ASSUME Solo, FieldsBase, NEW w \in Workers, worker[w].pc \in OwningPc
    PROVE  documents[worker[w].document].status \in Active
BY OwnersApart DEF FieldsBase, PipelineInv, Disturbed

\* What a step may do to a worker
LEMMA WorkerCases ==
    ASSUME Solo, FieldsBase, ViewInv, SystemStep, NEW w \in Workers
    PROVE  \/ OwnsStep(w)
           \/ /\ FieldStep(w) /\ Claim(w)
           \/ worker'[w] = worker[w] /\ extraction'[w] = extraction[w]
           \/ worker'[w].pc \notin OwningPc
<1> USE DEF FieldsBase, PipelineInv
<1>1. ASSUME NEW v \in Workers, FieldStep(v) \/ CrashForgetting(v)
      PROVE  v = w
  BY DEF Solo
<1>2. CASE FieldStep(w) /\ RunEffect(w)
  <2>1. CASE worker[w].pc \in OwningPc
    BY <1>2, <2>1, OwnerMoves
  <2>2. CASE worker[w].pc \notin OwningPc
    BY <1>2, <2>2, EffectOwns
  <2> QED
    BY <2>1, <2>2
<1>3. CASE CrashForgetting(w)
  <2>1. worker'[w] = Polling
    BY <1>3 DEF CrashForgetting, Crash, Return, Inv, TypeOK, WorkerTypeOK
  <2> QED
    BY <2>1, PollingCounts
<1>4. CASE UploadText \/ UNCHANGED <<vars, fieldVars>> \/ \E u \in Reviewers : ReviewerStep(u)
  <2>1. UNCHANGED <<worker, extraction>>
    <3>1. CASE UploadText \/ UNCHANGED <<vars, fieldVars>>
      BY <3>1 DEF UploadText, vars, fieldVars, workerVars
    <3>2. ASSUME NEW u \in Reviewers, PageStep(u) PROVE UNCHANGED <<worker, extraction>>
      BY <3>2 DEF PageStep, LoadPage, EditField, ClosePage, PageUntouched, vars, workerVars
    <3>3. ASSUME NEW u \in Reviewers, DeskStep(u) PROVE UNCHANGED <<worker, extraction>>
      BY <3>3, DeskMoves DEF workerVars
    <3> QED
      BY <1>4, <3>1, <3>2, <3>3 DEF ReviewerStep, PageStep, DeskStep
  <2> QED
    BY <2>1
<1> QED
  BY <1>1, <1>2, <1>3, <1>4, FieldMoves DEF SystemStep, FieldsNext

---------------------------------------------------------------------------
(* What a run has read is what it has stored and checked *)

CheckedPc ==
    {"mark_validated", "audit_validated", "find_exact", "find_near", "mark_duplicate",
     "calculate_confidence", "finalize"}

StoredPc == CheckedPc \cup {"mark_extracted", "audit_extracted", "set_key", "validate"}

ExtractedPc == StoredPc \cup {"insert_fields"}

ClassifiedPc == ExtractedPc \cup {"audit_classified", "extract"}

Shows(d, fields) ==
    \A name \in DOMAIN fields : name \in DOMAIN Shown(d) /\ Shown(d)[name] = fields[name]

\* The type a run found is its document's once it is stored, the fields it
\* read are of that type, readers get them once they are stored, and they
\* have passed validation once they were validated.
ReadOf(w, d) ==
    LET found == extraction[w].found
        fields == extraction[w].fields
    IN  /\ worker[w].pc \in ClassifiedPc => classification[d] = found
        /\ worker[w].pc \in ExtractedPc =>
              DOMAIN fields = DOMAIN Schema[found.type] /\ worker[w].key = KeyOf(fields)
        /\ worker[w].pc \in StoredPc => Storable(fields) /\ Shows(d, fields)
        /\ worker[w].pc \in CheckedPc => Validate(Schema[found.type], ValuesOf(fields)) = {}

ReadInv ==
    \A w \in Workers, d \in DOMAIN documents : d = worker[w].document => ReadOf(w, d)

\* Where a step arrives that neither reads, stores nor validates, its run
\* was before.
LEMMA ClassesKept ==
    ASSUME NEW w \in Workers, RunEffect(w), worker'[w].pc \notin ReadingPc
    PROVE  /\ worker'[w].pc \in ClassifiedPc =>
                 /\ worker[w].pc \in ClassifiedPc
                 /\ worker'[w].document = worker[w].document /\ worker'[w].key = worker[w].key
           /\ worker'[w].pc \in ExtractedPc => worker[w].pc \in ExtractedPc
           /\ worker'[w].pc \in StoredPc => worker[w].pc \in StoredPc
           /\ worker'[w].pc \in CheckedPc => worker[w].pc \in CheckedPc
<1> USE DEF CheckedPc, StoredPc, ExtractedPc, ClassifiedPc, ReadingPc, At, GoesToOne, Goes, Over
<1>0. Polling.pc = "poll"
  BY DEF Polling
<1>1. CASE ReadMove(w)
  BY <1>0, <1>1 DEF ReadMove
<1>2. CASE ErrorMove(w)
  BY <1>0, <1>2 DEF ErrorMove
<1>3. CASE FailMove(w)
  BY <1>3 DEF FailMove
<1>4. CASE WriteMove(w)
  BY <1>0, <1>4 DEF WriteMove
<1> QED
  BY <1>1, <1>2, <1>3, <1>4 DEF RunEffect

\* Where it reads, stores or validates, it goes on with its document.
LEMMA ReadingGoes ==
    ASSUME NEW w \in Workers, RunEffect(w), worker'[w].pc \in ReadingPc
    PROVE  /\ worker'[w].document = worker[w].document
           /\ worker'[w].pc # "insert_fields" => worker'[w].key = worker[w].key
<1> USE DEF ReadingPc, At, GoesToOne, Goes, Over
<1>0. Polling.pc = "poll"
  BY DEF Polling
<1>1. CASE ReadMove(w)
  BY <1>0, <1>1 DEF ReadMove
<1>2. CASE ErrorMove(w)
  BY <1>0, <1>2 DEF ErrorMove
<1>3. CASE FailMove(w)
  BY <1>3 DEF FailMove
<1>4. CASE WriteMove(w)
  BY <1>0, <1>4 DEF WriteMove
<1> QED
  BY <1>1, <1>2, <1>3, <1>4 DEF RunEffect

LEMMA OverlayShows ==
    ASSUME NEW d, NEW fields, Shown(d)' = Overlay(Shown(d), fields)
    PROVE  \A name \in DOMAIN fields :
               name \in DOMAIN Shown(d)' /\ Shown(d)'[name] = fields[name]
BY DEF Overlay

LEMMA OwnReadKept ==
    ASSUME FieldsBase, NEW w \in Workers, OwnsStep(w), NEW d \in DOMAIN documents,
           d = worker[w].document, ReadOf(w, d)
    PROVE  ReadOf(w, d)'
<1> USE DEF CheckedPc, StoredPc, ExtractedPc, ClassifiedPc
<1>0. RunEffect(w) /\ FieldMove(w) /\ Inv /\ TablesOK /\ FieldsOK
  BY DEF OwnsStep, FieldsBase, PipelineInv, Inv, TypeOK, DatabaseTypeOK, TablesOK
<1>1. CASE From(w, "classify", "mark_classified")
  BY <1>1 DEF From, ReadOf
<1>2. CASE /\ From(w, "mark_classified", "audit_classified")
           /\ classification' = [classification EXCEPT ![d] = extraction[w].found]
           /\ UNCHANGED <<extraction, extractedFields, fieldRows>>
  <2>1. classification'[d] = extraction[w].found
    BY <1>0, <1>2 DEF FieldsOK, RowsMatch
  <2> QED
    BY <1>2, <2>1 DEF From, ReadOf
<1>3. CASE /\ From(w, "extract", "insert_fields") /\ FieldsKept
           /\ extraction'[w].found = extraction[w].found
           /\ DOMAIN extraction'[w].fields = DOMAIN Schema[extraction[w].found.type]
           /\ worker'[w].key = KeyOf(extraction'[w].fields)
  <2>1. /\ worker[w].pc = "extract" /\ worker'[w].pc = "insert_fields"
        /\ UNCHANGED classification
    BY <1>3 DEF From, FieldsKept
  <2>2. classification[d] = extraction[w].found
    BY <2>1 DEF ReadOf
  <2>3. KeyOf(extraction[w].fields)' = KeyOf(extraction'[w].fields)
    BY DEF KeyOf
  <2> QED
    BY <1>3, <2>1, <2>2, <2>3 DEF ReadOf
<1>4. CASE /\ From(w, "insert_fields", "mark_extracted")
           /\ NewBatch(d, Agent, extraction[w].fields) /\ Storable(extraction[w].fields)
           /\ UNCHANGED <<extraction, classification>>
  <2>1. /\ worker[w].pc = "insert_fields" /\ worker'[w].pc = "mark_extracted"
        /\ worker'[w].key = worker[w].key
    BY <1>0, <1>4, ReadingGoes DEF From, ReadingPc
  <2>2. Shown(d)' = Overlay(Shown(d), extraction[w].fields)
    BY <1>0, <1>4, BatchOverlays
  <2>3. Shows(d, extraction[w].fields)'
    BY <1>4, <2>2, OverlayShows DEF Shows
  <2>4. /\ classification[d] = extraction[w].found
        /\ DOMAIN extraction[w].fields = DOMAIN Schema[extraction[w].found.type]
        /\ worker[w].key = KeyOf(extraction[w].fields)
    BY <2>1 DEF ReadOf
  <2> QED
    BY <1>4, <2>1, <2>3, <2>4 DEF ReadOf
<1>5. CASE /\ From(w, "validate", "mark_validated") /\ FieldsKept
           /\ Validate(Schema[extraction[w].found.type], ValuesOf(extraction[w].fields)) = {}
           /\ UNCHANGED extraction
  <2>1. /\ worker[w].pc = "validate" /\ worker'[w].pc = "mark_validated"
        /\ worker'[w].key = worker[w].key
    BY <1>0, <1>5, ReadingGoes DEF From, ReadingPc
  <2>2. Shown(d)' = Shown(d) /\ UNCHANGED classification
    BY <1>0, <1>5, QuietViews DEF FieldsKept, ViewKept
  <2>3. /\ classification[d] = extraction[w].found
        /\ DOMAIN extraction[w].fields = DOMAIN Schema[extraction[w].found.type]
        /\ worker[w].key = KeyOf(extraction[w].fields)
        /\ Storable(extraction[w].fields) /\ Shows(d, extraction[w].fields)
    BY <2>1 DEF ReadOf
  <2>4. Shows(d, extraction[w].fields)'
    BY <1>5, <2>2, <2>3 DEF Shows
  <2> QED
    BY <1>5, <2>1, <2>2, <2>3, <2>4 DEF ReadOf
<1>6. CASE /\ worker'[w].pc \notin ReadingPc /\ FieldsKept
           /\ worker'[w].pc \in {"poll", "create_task"} \/ extraction'[w] = extraction[w]
  <2>1. CASE worker'[w].pc \in ClassifiedPc
    <3>1. extraction'[w] = extraction[w]
      BY <1>6, <2>1
    <3>2. Shown(d)' = Shown(d) /\ UNCHANGED classification
      BY <1>0, <1>6, QuietViews DEF FieldsKept, ViewKept
    <3>3. Shows(d, extraction[w].fields) => Shows(d, extraction[w].fields)'
      BY <3>1, <3>2 DEF Shows
    <3> HIDE DEF CheckedPc, StoredPc, ExtractedPc, ClassifiedPc
    <3> QED
      BY <1>0, <1>6, <2>1, <3>1, <3>2, <3>3, ClassesKept DEF ReadOf
  <2>2. CASE worker'[w].pc \notin ClassifiedPc
    BY <2>2 DEF ReadOf
  <2> QED
    BY <2>1, <2>2
<1> QED
  BY <1>0, <1>1, <1>2, <1>3, <1>4, <1>5, <1>6 DEF FieldMove

LEMMA ReadingOwns ==
    /\ ClassifiedPc \subseteq OwningPc /\ ClassifiedPc \subseteq RunPc
    /\ ClassifiedPc \cap {"poll", "lock", "open_run", "load"} = {}
BY DEF CheckedPc, StoredPc, ExtractedPc, ClassifiedPc, OwningPc, OpenPc, StepPc, PersistPc, RunPc

LEMMA ReadInvInductive ==
    ASSUME Solo, FieldsBase, ViewInv, ReadInv, SystemStep
    PROVE  ReadInv'
<1> SUFFICES ASSUME NEW w \in Workers, NEW d \in DOMAIN documents', d = worker'[w].document
             PROVE  ReadOf(w, d)'
  BY DEF ReadInv
<1>1. CASE worker'[w].pc \notin ClassifiedPc
  BY <1>1 DEF ReadOf, ClassifiedPc, ExtractedPc, StoredPc
<1>2. CASE worker'[w].pc \in ClassifiedPc /\ OwnsStep(w)
  <2>1. d = worker[w].document /\ d \in DOMAIN documents
    BY <1>2, ClassesKept, ReadingGoes DEF OwnsStep
  <2> QED
    BY <1>2, <2>1, OwnReadKept DEF ReadInv
<1>3. CASE /\ worker'[w].pc \in ClassifiedPc
           /\ worker'[w] = worker[w] /\ extraction'[w] = extraction[w] /\ ~OwnsStep(w)
  <2>1. worker[w].pc \in OwningPc /\ worker[w].pc \in RunPc
    BY <1>3, ReadingOwns
  <2>2. d = worker[w].document /\ d \in DOMAIN documents
    BY <1>3, <2>1, RunFacts DEF FieldsBase, PipelineInv
  <2>3. documents[d].status \in Active
    BY <2>1, <2>2, OwnedIsActive
  <2>4. RowKept(d)
    BY <1>3, <2>2, <2>3, RowCasesOf DEF Solo, Active
  <2>5. classification'[d] = classification[d] /\ Shown(d)' = Shown(d)
    BY <2>4 DEF RowKept, ViewKept
  <2>6. ReadOf(w, d)
    BY <2>2 DEF ReadInv
  <2>7. Shows(d, extraction[w].fields) => Shows(d, extraction[w].fields)'
    BY <1>3, <2>5 DEF Shows
  <2> QED
    BY <1>3, <2>5, <2>6, <2>7 DEF ReadOf
<1>4. CASE FieldStep(w) /\ Claim(w)
  <2>1. \/ worker'[w] = Polling
        \/ worker'[w].pc = "lock" \/ worker'[w].pc = "open_run" \/ RunOpened(w)
    BY <1>4, ClaimMoves DEF FieldsBase, PipelineInv
  <2>2. worker'[w].pc \in {"poll", "lock", "open_run", "load"}
    BY <2>1 DEF Polling, RunOpened
  <2> QED
    BY <1>1, <2>2, ReadingOwns
<1> QED
  BY <1>1, <1>2, <1>3, <1>4, WorkerCases, ReadingOwns

LEMMA ReadInvHolds ==
    ASSUME Solo
    PROVE  FieldsSpec => []ReadInv
<1>1. FieldsInit => ReadInv
  BY NothingStored DEF ReadInv
<1>2. FieldsBase /\ ViewInv /\ ReadInv /\ [FieldsNext]_<<vars, fieldVars>> => ReadInv'
  BY ReadInvInductive DEF SystemStep
<1> QED
  BY <1>1, <1>2, FieldsBaseHolds, ViewInvHolds, PTL DEF FieldsSpec

\* A set of fields that was stored and has no violation has every field of
\* its type, each as its type wants it.
LEMMA ValidIsWellFormed ==
    ASSUME NEW schema, NEW fields, DOMAIN fields = DOMAIN schema, Storable(fields),
           Validate(schema, ValuesOf(fields)) = {}, NEW name \in DOMAIN schema
    PROVE  WellFormed(fields[name].value, schema[name])
<1> DEFINE values == ValuesOf(fields)
           present == {n \in DOMAIN schema \cap DOMAIN values : values[n].json # "null"}
           ofType(fieldType) == {n \in present : schema[n] = fieldType}
<1>0. DOMAIN values = DOMAIN schema /\ values[name] = fields[name].value
  BY DEF ValuesOf
<1>1. /\ Violation("field_required", DOMAIN schema \ present) = {}
      /\ Violation("field_numeric", {n \in ofType("number") : values[n].json # "number"}) = {}
      /\ Violation("field_numeric_range",
                   {n \in ofType("number") :
                       values[n].json = "number" /\ values[n].text \in Negative}) = {}
      /\ Violation("field_date_format",
                   {n \in ofType("date") : values[n].json # "string"
                                             \/ values[n].text \notin DateFormatted}) = {}
  BY DEF Validate
<1>2. ASSUME NEW rule, NEW S, Violation(rule, S) = {}
      PROVE  S = {}
  BY <1>2 DEF Violation
<1>3. name \in present
  BY <1>1, <1>2
<1>4. values[name].json # "null"
  BY <1>3
<1>5. CASE schema[name] = "number"
  <2>1. name \in ofType("number")
    BY <1>3, <1>5
  <2>2. values[name].json = "number" /\ values[name].text \notin Negative
    BY <1>1, <1>2, <2>1
  <2>3. values[name].text \notin NotFinite
    BY <1>0, <2>2 DEF Storable
  <2> QED
    BY <1>0, <1>5, <2>2, <2>3 DEF WellFormed
<1>6. CASE schema[name] = "date"
  <2>1. name \in ofType("date")
    BY <1>3, <1>6
  <2>2. values[name].json = "string" /\ values[name].text \in DateFormatted
    BY <1>1, <1>2, <2>1
  <2> QED
    BY <1>0, <1>6, <2>2 DEF WellFormed
<1>7. CASE schema[name] \notin {"number", "date"}
  BY <1>0, <1>4, <1>7 DEF WellFormed
<1> QED
  BY <1>5, <1>6, <1>7

ProcessedIsWellFormed(d) ==
    documents[d].status = "AUTO_PROCESSED" =>
        LET schema == Schema[classification[d].type]
        IN  /\ DOMAIN schema \subseteq DOMAIN Shown(d)
            /\ \A name \in DOMAIN schema :
                  WellFormed(Shown(d)[name].value, schema[name])

\* A document becomes AUTO_PROCESSED by its run's UPDATE and by no other
\* statement.
LEMMA FinalizedOnly ==
    ASSUME Inv, NEW w \in Workers, RunEffect(w), NEW d \in DOMAIN documents, d = worker[w].document,
           documents[d].status # "AUTO_PROCESSED", documents'[d].status = "AUTO_PROCESSED"
    PROVE  worker[w].pc = "finalize" /\ worker'[w].pc = "finish_auto"
<1>1. documents[d] \in Document
  BY ElementOfSeq DEF Inv, TypeOK, DatabaseTypeOK
<1>2. WriteMove(w)
  BY DEF RunEffect, SameRows
<1> QED
  BY <1>1, <1>2 DEF WriteMove, StatusWritten, DocumentSet, TaskOpened, BatchInserted, RunFinished,
                    At, Goes, Document

LEMMA FinalizedIsWellFormed ==
    ASSUME FieldsBase, ReadInv, NEW w \in Workers, OwnsStep(w),
           NEW d \in DOMAIN documents, d = worker[w].document,
           worker[w].pc = "finalize", worker'[w].pc = "finish_auto"
    PROVE  ProcessedIsWellFormed(d)'
<1>1. /\ classification[d] = extraction[w].found
      /\ DOMAIN extraction[w].fields = DOMAIN Schema[extraction[w].found.type]
      /\ Storable(extraction[w].fields) /\ Shows(d, extraction[w].fields)
      /\ Validate(Schema[extraction[w].found.type], ValuesOf(extraction[w].fields)) = {}
  BY DEF ReadInv, ReadOf, ClassifiedPc, ExtractedPc, StoredPc, CheckedPc
<1>2. FieldsKept
  BY DEF OwnsStep, FieldMove, From
<1>3. classification'[d] = classification[d] /\ Shown(d)' = Shown(d)
  BY <1>2, QuietViews DEF FieldsKept, ViewKept, FieldsBase, PipelineInv
<1>4. ASSUME NEW name \in DOMAIN Schema[classification[d].type]
      PROVE  /\ name \in DOMAIN Shown(d)
             /\ WellFormed(Shown(d)[name].value, Schema[classification[d].type][name])
  BY <1>1, ValidIsWellFormed DEF Shows
<1> QED
  BY <1>3, <1>4 DEF ProcessedIsWellFormed

LEMMA WellFormedKept ==
    ASSUME Solo, FieldsBase, ViewInv, ReadInv, SystemStep, AutoProcessedIsWellFormed
    PROVE  AutoProcessedIsWellFormed'
<1> SUFFICES ASSUME NEW d \in DOMAIN documents', documents'[d].status = "AUTO_PROCESSED"
             PROVE  ProcessedIsWellFormed(d)'
  BY DEF AutoProcessedIsWellFormed, ProcessedIsWellFormed
<1>1. d \in DOMAIN documents
  BY RowsWritten DEF OwnsStep, AnswersStep, NewDocument
<1>2. ProcessedIsWellFormed(d)
  BY <1>1 DEF AutoProcessedIsWellFormed, ProcessedIsWellFormed
<1>3. documents[d].status \notin {"PENDING_REVIEW", "REVIEWED"}
  <2>1. [Next]_vars
    BY FieldsNextRefines DEF SystemStep
  <2>2. SettledFor(d)
    BY <1>1, <2>1, SettledKept DEF FieldsBase, Disturbed
  <2> QED
    BY <2>2 DEF SettledFor, Settled
<1>4. CASE RowKept(d)
  BY <1>2, <1>4 DEF RowKept, ViewKept, ProcessedIsWellFormed
<1>5. ASSUME NEW w \in Workers, OwnsStep(w), d = worker[w].document
      PROVE  ProcessedIsWellFormed(d)'
  <2>1. documents[d].status # "AUTO_PROCESSED"
    BY <1>5, OwnedIsActive DEF OwnsStep, Active
  <2>2. worker[w].pc = "finalize" /\ worker'[w].pc = "finish_auto"
    BY <1>1, <1>5, <2>1, FinalizedOnly DEF OwnsStep, FieldsBase, PipelineInv
  <2> QED
    BY <1>1, <1>5, <2>2, FinalizedIsWellFormed
<1> QED
  BY <1>1, <1>3, <1>4, <1>5, RowCasesOf

\* With one worker, of every document that was processed without a human a
\* reader gets all fields of its type, each as its type wants it: what was
\* validated is what was stored, and nothing was stored since.
THEOREM AutoProcessedIsWellFormedHolds ==
    ASSUME Solo
    PROVE  FieldsSpec => []AutoProcessedIsWellFormed
<1>1. FieldsInit => AutoProcessedIsWellFormed
  BY NothingStored DEF AutoProcessedIsWellFormed
<1>2. /\ FieldsBase /\ ViewInv /\ ReadInv /\ AutoProcessedIsWellFormed
      /\ [FieldsNext]_<<vars, fieldVars>>
      => AutoProcessedIsWellFormed'
  BY WellFormedKept DEF SystemStep
<1> QED
  BY <1>1, <1>2, FieldsBaseHolds, ViewInvHolds, ReadInvHolds, PTL DEF FieldsSpec

---------------------------------------------------------------------------
(* Pages and forms *)

\* What a page shows, but for what was typed into it, is what fields are.
Agrees(fields, texts, edited) ==
    /\ DOMAIN texts = DOMAIN fields
    /\ \A name \in DOMAIN fields \ edited : texts[name] = fields[name].value.text

\* The status d had when a page read it is still the one it has.
Since(d, status) ==
    \/ documents[d].status = status
    \/ status = "PENDING_REVIEW" /\ documents[d].status = "REVIEWED"

PageInv(u, d) ==
    page[u].pc # "closed" /\ d = page[u].document =>
        /\ page[u].status \in Settled => Since(d, page[u].status)
        /\ page[u].pc = "open" /\ page[u].status \in {"AUTO_PROCESSED", "FAILED"} =>
              Agrees(Shown(d), page[u].texts, page[u].edited)
        /\ page[u].pc = "open" /\ page[u].status = "PENDING_REVIEW" =>
              \/ CorrectionsOf(d) # {}
              \/ Agrees(Shown(d), page[u].texts, page[u].edited)

PagesInv == \A u \in Reviewers, d \in DOMAIN documents : PageInv(u, d)

\* Who changes what readers of d get
LEMMA ViewCasesOf ==
    ASSUME Solo, FieldsBase, ViewInv, SystemStep, NEW d \in DOMAIN documents
    PROVE  \/ ViewKept(d)
           \/ documents[d].status = "CLASSIFIED"
           \/ /\ documents[d].status \in {"PENDING_REVIEW", "REVIEWED"}
              /\ CorrectionsOf(d)' # {}
              /\ \E u \in Reviewers : Corrects(u) /\ d = review[u].document
BY ViewCases DEF FieldsBase, AgentStores, ReviewerStores

LEMMA PageCases ==
    ASSUME FieldsBase, SystemStep, NEW u \in Reviewers
    PROVE  page'[u] = page[u] \/ page'[u].pc = "closed" \/ PageStep(u)
<1>0. ClosedPage.pc = "closed"
  BY DEF ClosedPage
<1>1. CASE UploadText \/ UNCHANGED <<vars, fieldVars>>
           \/ \E w \in Workers : FieldStep(w) \/ CrashForgetting(w)
  BY <1>1
  DEF UploadText, FieldStep, ClassifyText, StoreClassification, ExtractText, StoreFields,
      ValidateFields, WeighConfidence, OtherStep, fieldVars, CrashForgetting
<1>2. ASSUME NEW v \in Reviewers, PageStep(v)
      PROVE  page'[u] = page[u] \/ PageStep(u)
  BY <1>2, PageMoves DEF FieldsBase
<1>3. ASSUME NEW v \in Reviewers, DeskStep(v)
      PROVE  page'[u] = page[u] \/ page'[u].pc = "closed"
  <2>1. \A x \in Reviewers \ {v} : page'[x] = page[x]
    BY <1>3, DeskMoves DEF FieldsBase, PipelineInv
  <2>2. page'[v] = page[v] \/ page'[v] = ClosedPage
    <3>1. CASE AcceptForm(v)
      BY <3>1 DEF AcceptForm
    <3>2. CASE ~AcceptForm(v)
      <4>1. Answered(v)
        BY <1>3, <3>2 DEF DeskStep, StoreCorrections, OtherRequestStep
      <4>2. page' = page \/ page' = [page EXCEPT ![v] = ClosedPage]
        BY <4>1 DEF Answered
      <4>3. page = [x \in Reviewers |-> page[x]]
        BY DEF FieldsBase, FieldsOK, DesksMatch
      <4> QED
        BY <4>2, <4>3
    <3> QED
      BY <3>1, <3>2
  <2> QED
    BY <1>0, <2>1, <2>2
<1> QED
  BY <1>1, <1>2, <1>3 DEF SystemStep, FieldsNext, ReviewerStep, PageStep, DeskStep

\* A page is loaded with the row first, then with the fields.
LEMMA PageStepKeeps ==
    ASSUME FieldsBase, PagesInv, NEW u \in Reviewers, PageStep(u), NEW d \in DOMAIN documents
    PROVE  /\ PageInv(u, d)'
           /\ page'[u].pc = "open" /\ page'[u].document = d =>
                 \/ page[u].pc = "row" /\ Agrees(Shown(d), page[u].texts, page[u].edited)'
                 \/ /\ page[u].pc = "open" /\ page[u].document = d
                    /\ page'[u].status = page[u].status
                    /\ Agrees(Shown(d), page[u].texts, page[u].edited) =>
                          Agrees(Shown(d), page[u].texts, page[u].edited)'
<1>0. /\ documents' = documents /\ ViewKept(d)
      /\ page = [v \in Reviewers |-> page[v]] /\ DeskMatches(u)
  <2>1. UNCHANGED <<documents, extractedFields, fieldRows>>
    BY DEF PageStep, LoadPage, EditField, ClosePage, PageUntouched, vars, tables
  <2> QED
    BY <2>1, QuietViews DEF FieldsBase, PipelineInv, FieldsOK, DesksMatch
<1>1. /\ Shown(d)' = Shown(d) /\ CorrectionsOf(d)' = CorrectionsOf(d)
      /\ PageInv(u, d)
  BY <1>0 DEF ViewKept, PagesInv
<1>2. CASE LoadPage(u) /\ page[u].pc = "closed"
  <2>1. PICK e \in DOMAIN documents : OpenPage(u, "row", e, StatusOf(e), Empty)
    BY <1>2 DEF LoadPage
  <2>2. page'[u] = [pc |-> "row", document |-> e, status |-> StatusOf(e), texts |-> Empty,
                    edited |-> {}]
    BY <1>0, <2>1 DEF OpenPage
  <2>3. /\ page'[u].pc = "row" /\ page'[u].document = e
        /\ page'[u].status = StatusOf(e)
    BY <2>2
  <2>4. StatusOf(e) \in Settled => documents'[e].status = StatusOf(e)
    BY <1>0 DEF StatusOf, Settled
  <2> QED
    BY <2>3, <2>4 DEF PageInv, Since
<1>3. CASE LoadPage(u) /\ page[u].pc = "row"
  <2>1. OpenPage(u, "open", page[u].document, page[u].status, Texted(Shown(page[u].document)))
    BY <1>3 DEF LoadPage
  <2>2. page'[u] = [pc |-> "open", document |-> page[u].document, status |-> page[u].status,
                    texts |-> Texted(Shown(page[u].document)), edited |-> {}]
    BY <1>0, <2>1 DEF OpenPage
  <2>3. /\ page'[u].pc = "open" /\ page'[u].document = page[u].document
        /\ page'[u].status = page[u].status
        /\ page'[u].texts = Texted(Shown(page[u].document))
    BY <2>2
  <2>4. page[u].document = d => Agrees(Shown(d), page[u].texts, page[u].edited)'
    BY <1>1, <2>3 DEF Agrees, Texted
  <2> QED
    BY <1>0, <1>1, <1>3, <2>3, <2>4 DEF PageInv, Since
<1>4. CASE EditField(u)
  <2>1. PICK edit \in Edits :
           page' = [page EXCEPT ![u] = [@ EXCEPT !.texts[edit.name] = edit.text,
                                                 !.edited = page[u].edited \cup {edit.name}]]
    BY <1>4 DEF EditField
  <2>2. page'[u] = [page[u] EXCEPT !.texts[edit.name] = edit.text,
                                   !.edited = page[u].edited \cup {edit.name}]
    BY <1>0, <2>1
  <2>3. /\ page'[u].texts = [page[u].texts EXCEPT ![edit.name] = edit.text]
        /\ page'[u].edited = page[u].edited \cup {edit.name}
        /\ page'[u].pc = page[u].pc /\ page'[u].document = page[u].document
        /\ page'[u].status = page[u].status
    BY <1>0, <2>2 DEF DeskMatches
  <2>4. Agrees(Shown(d), page[u].texts, page[u].edited) =>
           Agrees(Shown(d), page[u].texts, page[u].edited)'
    BY <1>1, <2>3 DEF Agrees
  <2>5. page[u].pc = "open"
    BY <1>4 DEF EditField, Editable
  <2> QED
    BY <1>0, <1>1, <2>3, <2>4, <2>5 DEF PageInv, Since
<1>5. CASE ClosePage(u)
  <2>1. page'[u].pc = "closed"
    BY <1>0, <1>5 DEF ClosePage, ClosedPage
  <2> QED
    BY <2>1 DEF PageInv
<1> QED
  BY <1>2, <1>3, <1>4, <1>5 DEF PageStep, LoadPage

\* A page of a settled document goes stale only where a reviewer corrects
\* the document.
LEMMA PageInvKept ==
    ASSUME Solo, FieldsBase, ViewInv, PagesInv, SystemStep,
           NEW u \in Reviewers, NEW d \in DOMAIN documents, page'[u] = page[u]
    PROVE  PageInv(u, d)'
<1>1. [Next]_vars
  BY FieldsNextRefines DEF SystemStep
<1>2. PageInv(u, d) /\ SettledFor(d)
  BY <1>1, SettledKept DEF PagesInv, FieldsBase, Disturbed
<1>3. CASE page[u].pc # "closed" /\ d = page[u].document /\ page[u].status \in Settled
  <2>1. Since(d, page[u].status)
    BY <1>2, <1>3 DEF PageInv
  <2>2. documents[d].status \in Settled
    BY <1>3, <2>1 DEF Since, Settled
  <2>3. Since(d, page[u].status)'
    BY <1>2, <1>3, <2>1, <2>2 DEF Since, SettledFor, Settled
  <2>4. CASE ViewKept(d)
    BY <1>2, <2>3, <2>4 DEF PageInv, ViewKept, Agrees
  <2>5. CASE ~ViewKept(d)
    <3>1. documents[d].status \in {"PENDING_REVIEW", "REVIEWED"} /\ CorrectionsOf(d)' # {}
      BY <2>2, <2>5, ViewCasesOf DEF Settled
    <3>2. page[u].status \notin {"AUTO_PROCESSED", "FAILED"}
      BY <2>1, <3>1 DEF Since
    <3> QED
      BY <2>3, <3>1, <3>2 DEF PageInv
  <2> QED
    BY <2>4, <2>5
<1>4. CASE ~(page[u].pc # "closed" /\ d = page[u].document /\ page[u].status \in Settled)
  BY <1>4 DEF PageInv, Settled
<1> QED
  BY <1>3, <1>4

LEMMA PagesInvInductive ==
    ASSUME Solo, FieldsBase, ViewInv, PagesInv, SystemStep
    PROVE  PagesInv'
<1> SUFFICES ASSUME NEW u \in Reviewers, NEW d \in DOMAIN documents' PROVE PageInv(u, d)'
  BY DEF PagesInv
<1>1. CASE d \in DOMAIN documents
  BY <1>1, PageCases, PageInvKept, PageStepKeeps DEF PageInv
<1>2. CASE d \notin DOMAIN documents
  <2>1. ~PageStep(u)
    BY <1>2, PageMoves DEF FieldsBase, PageUntouched, vars, tables
  <2>2. page[u].pc # "closed" => page[u].document # d
    BY <1>2 DEF FieldsBase, FieldsOK, DesksMatch, DeskMatches
  <2> QED
    BY <2>1, <2>2, PageCases DEF PageInv
<1> QED
  BY <1>1, <1>2

LEMMA PagesInvHolds ==
    ASSUME Solo
    PROVE  FieldsSpec => []PagesInv
<1>1. FieldsInit => PagesInv
  BY NothingStored DEF PagesInv
<1>2. FieldsBase /\ ViewInv /\ PagesInv /\ [FieldsNext]_<<vars, fieldVars>> => PagesInv'
  BY PagesInvInductive DEF SystemStep
<1> QED
  BY <1>1, <1>2, FieldsBaseHolds, ViewInvHolds, PTL DEF FieldsSpec

\* A page that shows a document processed without a human, or failed
ProcessedPageStays ==
    \A u \in Reviewers :
        /\ page[u].pc = "open"
        /\ page[u].status \in {"AUTO_PROCESSED", "FAILED"}
        => LET stored == Texted(Shown(page[u].document))
           IN  /\ DOMAIN page[u].texts = DOMAIN stored
               /\ \A name \in DOMAIN stored \ page[u].edited :
                     page[u].texts[name] = stored[name]

\* With one worker and any number of reviewers, the page of a document that
\* no human has to look at shows what is stored as long as it is open.
THEOREM ProcessedPageStaysHolds ==
    ASSUME Solo
    PROVE  FieldsSpec => []ProcessedPageStays
<1>1. FieldsBase /\ PagesInv => ProcessedPageStays
  <2> SUFFICES ASSUME FieldsBase, PagesInv, NEW u \in Reviewers, page[u].pc = "open",
                      page[u].status \in {"AUTO_PROCESSED", "FAILED"}
               PROVE  LET stored == Texted(Shown(page[u].document))
                      IN  /\ DOMAIN page[u].texts = DOMAIN stored
                          /\ \A name \in DOMAIN stored \ page[u].edited :
                                page[u].texts[name] = stored[name]
    BY DEF ProcessedPageStays
  <2>1. PICK d : d = page[u].document
    OBVIOUS
  <2>2. d \in DOMAIN documents
    BY <2>1 DEF FieldsBase, FieldsOK, DesksMatch, DeskMatches
  <2>3. Agrees(Shown(d), page[u].texts, page[u].edited)
    BY <2>1, <2>2 DEF PagesInv, PageInv
  <2> QED
    BY <2>1, <2>3 DEF Agrees, Texted
<1> QED
  BY <1>1, FieldsBaseHolds, PagesInvHolds, PTL

---------------------------------------------------------------------------
(* Corrections *)

SentTexts(u) == [name \in DOMAIN form[u].values |-> form[u].values[name].value.text]

\* A request that is to store corrections
Correcting(u) ==
    \/ Reviewing(u, "load_task") /\ review[u].decision = "correct"
    \/ Reviewing(u, "save_fields")

\* The form of a correction that came from a page says what the page said.
SentInv(u, d) ==
    Correcting(u) /\ d = review[u].document /\ form[u].seen = "PENDING_REVIEW" =>  \/ CorrectionsOf(d) # {}
        \/ Agrees(Shown(d), SentTexts(u), form[u].edited)

SentAll == \A u \in Reviewers, d \in DOMAIN documents : SentInv(u, d)

LEMMA AcceptedAgrees ==
    ASSUME FieldsBase, PagesInv, NEW u \in Reviewers, AcceptForm(u), NEW d \in DOMAIN documents
    PROVE  SentInv(u, d)'
<1> SUFFICES ASSUME Correcting(u)', review'[u].document = d, form'[u].seen = "PENDING_REVIEW"
             PROVE  CorrectionsOf(d)' # {} \/ Agrees(Shown(d), SentTexts(u), form[u].edited)'
  BY DEF SentInv
<1>0. review'[u].decision = "correct"
  BY DEF Correcting, Reviewing, AcceptForm, AcceptRequest, FieldsBase, PipelineInv, Inv, TypeOK,
         ReviewTypeOK
<1>1. UNCHANGED <<extractedFields, fieldRows>> /\ form'[u] \in FormsOf(u, "correct")
  BY <1>0, AcceptMoves DEF FieldsBase, AcceptForm, AcceptRequest, NoStatement, tables
<1>2. Shown(d)' = Shown(d) /\ CorrectionsOf(d)' = CorrectionsOf(d)
  BY <1>1, QuietViews DEF FieldsBase, PipelineInv, ViewKept
<1>3. Editable(u)
  BY <1>1 DEF FormsOf, NoForm
<1>4. page[u].pc = "open" /\ page[u].document = d
  BY <1>3 DEF AcceptForm, Editable
<1>5. form'[u] = [values |-> [name \in DOMAIN page[u].texts |-> Typed(page[u].texts[name])],
                  edited |-> page[u].edited, seen |-> page[u].status]
  BY <1>1, <1>3 DEF FormsOf
<1>6. CorrectionsOf(d) # {} \/ Agrees(Shown(d), page[u].texts, page[u].edited)
  BY <1>4, <1>5 DEF PagesInv, PageInv
<1>7. /\ DOMAIN SentTexts(u)' = DOMAIN page[u].texts
      /\ \A name \in DOMAIN page[u].texts : SentTexts(u)'[name] = page[u].texts[name]
      /\ form'[u].edited = page[u].edited
  BY <1>5 DEF SentTexts, Typed
<1> QED
  BY <1>2, <1>6, <1>7 DEF Agrees

LEMMA SentKept ==
    ASSUME Solo, FieldsBase, ViewInv, SystemStep, NEW u \in Reviewers, NEW d \in DOMAIN documents,
           SentInv(u, d), form'[u] = form[u],
           Correcting(u)' => Correcting(u) /\ review'[u].document = review[u].document
    PROVE  SentInv(u, d)'
<1> SUFFICES ASSUME Correcting(u)', d = review'[u].document, form'[u].seen = "PENDING_REVIEW"
             PROVE  CorrectionsOf(d)' # {} \/ Agrees(Shown(d), SentTexts(u), form[u].edited)'
  BY DEF SentInv
<1>1. CorrectionsOf(d) # {} \/ Agrees(Shown(d), SentTexts(u), form[u].edited)
  BY DEF SentInv
<1>2. documents[d].status \in {"PENDING_REVIEW", "REVIEWED"}
  BY DEF FieldsBase, PipelineInv, StageInv, UnderReview, Correcting, Reviewing, Disturbed
<1>3. ViewKept(d) \/ CorrectionsOf(d)' # {}
  BY <1>2, ViewCasesOf
<1>4. SentTexts(u)' = SentTexts(u)
  BY DEF SentTexts
<1> QED
  BY <1>1, <1>3, <1>4 DEF ViewKept, Agrees

LEMMA SentAllInductive ==
    ASSUME Solo, FieldsBase, ViewInv, PagesInv, SentAll, SystemStep
    PROVE  SentAll'
<1> SUFFICES ASSUME NEW u \in Reviewers, NEW d \in DOMAIN documents' PROVE SentInv(u, d)'
  BY DEF SentAll
<1>0. Inv' /\ Inv
  BY FieldsBaseInductive DEF FieldsBase, PipelineInv
<1>1. CASE UNCHANGED <<review, form>>
  <2>1. review'[u].pc # "idle" => review'[u].document \in DOMAIN documents
    BY <1>0, <1>1 DEF Inv, TypeOK, ReviewRowsExist
  <2>2. CASE d \in DOMAIN documents
    BY <1>1, <2>2, SentKept DEF SentAll, Correcting, Reviewing
  <2>3. CASE d \notin DOMAIN documents
    BY <2>1, <2>3 DEF SentInv, Correcting, Reviewing
  <2> QED
    BY <2>2, <2>3
<1>2. ASSUME NEW v \in Reviewers, DeskStep(v) PROVE SentInv(u, d)'
  <2>1. /\ ReviewEffect(v) /\ d \in DOMAIN documents
        /\ \A x \in Reviewers \ {v} : form'[x] = form[x] /\ review'[x] = review[x]
    BY <1>0, <1>2, DeskMoves, ReviewEffects DEF FieldsBase, ReviewEffect
  <2>2. CASE u # v
    BY <2>1, <2>2, SentKept DEF SentAll, Correcting, Reviewing
  <2>3. CASE u = v /\ AcceptForm(u)
    BY <2>1, <2>3, AcceptedAgrees
  <2>4. CASE u = v /\ ~AcceptForm(u)
    <3>1. Answered(u) /\ ~Reviewing(u, "idle")
      BY <1>2, <2>4 DEF DeskStep, StoreCorrections, SaveCorrections, OtherRequestStep, LoadTask,
                        ResolveTask, CloseDocument, AuditDecision, Reviewing
    <3>2. form'[u] = IF review'[u].pc = "idle" THEN NoForm ELSE form[u]
      BY <1>2, <2>4, <3>1, AnswerMoves, DeskMoves DEF FieldsBase, PipelineInv
    <3>3. Correcting(u)' => Correcting(u) /\ review'[u].document = review[u].document
      BY <2>1, <2>4, <3>1 DEF ReviewEffect, Correcting, Reviewing, Continues, NoRequest
    <3>4. CASE Correcting(u)'
      <4>1. form'[u] = form[u]
        BY <3>2, <3>4 DEF Correcting, Reviewing
      <4> QED
        BY <2>1, <3>3, <4>1, SentKept DEF SentAll
    <3> QED
      BY <3>4 DEF SentInv
  <2> QED
    BY <2>2, <2>3, <2>4
<1> QED
  BY <1>1, <1>2, DeskCases

LEMMA SentAllHolds ==
    ASSUME Solo
    PROVE  FieldsSpec => []SentAll
<1>1. FieldsInit => SentAll
  BY NothingStored DEF SentAll
<1>2. FieldsBase /\ ViewInv /\ PagesInv /\ SentAll /\ [FieldsNext]_<<vars, fieldVars>> => SentAll'
  BY SentAllInductive DEF SystemStep
<1> QED
  BY <1>1, <1>2, FieldsBaseHolds, ViewInvHolds, PagesInvHolds, PTL DEF FieldsSpec

\* With one worker and any number of reviewers, the first correction of a
\* document, from a page that showed it in review, replaces the fields the
\* reviewer edited and no other.
THEOREM CorrectionTouchesEditedHolds ==
    ASSUME Solo
    PROVE  FieldsSpec => []CorrectionTouchesEdited
<1>1. FieldsBase /\ SentAll => CorrectionTouchesEdited
  <2> SUFFICES ASSUME FieldsBase, SentAll, NEW u \in Reviewers, Reviewing(u, "save_fields"),
                      form[u].seen = "PENDING_REVIEW",
                      CorrectionsOf(review[u].document) = {}
               PROVE  LET stored == Texted(Shown(review[u].document))
                      IN  /\ DOMAIN form[u].values = DOMAIN stored
                          /\ \A name \in DOMAIN stored \ form[u].edited :
                                form[u].values[name].value.text = stored[name]
    BY DEF CorrectionTouchesEdited
  <2>1. PICK d : d = review[u].document
    OBVIOUS
  <2>2. d \in DOMAIN documents
    BY <2>1 DEF Reviewing, FieldsBase, PipelineInv, Inv, TypeOK, ReviewRowsExist
  <2>3. Agrees(Shown(d), SentTexts(u), form[u].edited)
    BY <2>1, <2>2 DEF SentAll, SentInv, Correcting
  <2> QED
    BY <2>1, <2>3 DEF Agrees, Texted, SentTexts
<1> QED
  BY <1>1, FieldsBaseHolds, SentAllHolds, PTL

---------------------------------------------------------------------------
(* Pages of reviewed documents: with one reviewer, who has no request open *)
(* on a document that is REVIEWED                                          *)

DecidingPc == {"load_task", "save_fields", "resolve", "mark_reviewed"}

ReviewedPagesInv ==
    /\ \A u \in Reviewers :
          review[u].pc \in DecidingPc => documents[review[u].document].status = "PENDING_REVIEW"
    /\ \A u \in Reviewers, d \in DOMAIN documents :
          /\ page[u].pc = "open" /\ page[u].document = d /\ page[u].status = "REVIEWED"
          => Agrees(Shown(d), page[u].texts, page[u].edited)

\* A document under decision becomes REVIEWED by its request only.
LEMMA DecidingKept ==
    ASSUME Solo, OneReviewer, FieldsBase, ViewInv, ReviewedPagesInv, SystemStep,
           NEW u \in Reviewers, review'[u].pc \in DecidingPc
    PROVE  documents'[review'[u].document].status = "PENDING_REVIEW"
<1>0. [Next]_vars /\ Inv
  BY FieldsNextRefines DEF SystemStep, FieldsBase, PipelineInv
<1>1. ASSUME NEW v \in Reviewers, DeskStep(v)
      PROVE  documents'[review'[u].document].status = "PENDING_REVIEW"
  <2>1. u = v /\ ReviewEffect(u)
    BY <1>0, <1>1, DeskMoves, ReviewEffects DEF OneReviewer, FieldsBase
  <2>2. UNCHANGED documents
    BY <2>1
    DEF ReviewEffect, SameRows, BatchInserted, TaskResolved, Continues, DecidingPc, NoRequest
  <2>3. \/ documents[review'[u].document].status = "PENDING_REVIEW"
        \/ review[u].pc \in DecidingPc /\ review'[u].document = review[u].document
    BY <2>1 DEF ReviewEffect, Continues, DecidingPc, NoRequest, Reviewing
  <2> QED
    BY <2>2, <2>3 DEF ReviewedPagesInv
<1>2. CASE UNCHANGED <<review, form>> /\ ~\E v \in Reviewers : DeskStep(v)
  <2>1. PICK d : d = review[u].document
    OBVIOUS
  <2>2. d \in DOMAIN documents /\ documents[d].status = "PENDING_REVIEW"
    BY <1>0, <1>2, <2>1 DEF ReviewedPagesInv, DecidingPc, Inv, TypeOK, ReviewRowsExist
  <2>3. RowKept(d)
    <3>1. ASSUME NEW w \in Workers, OwnsStep(w) PROVE d # worker[w].document
      BY <2>2, <3>1, OwnedIsActive DEF OwnsStep, Active
    <3> QED
      BY <1>2, <2>2, <3>1, RowsWritten DEF OwnsStep, AnswersStep
  <2> QED
    BY <1>2, <2>1, <2>2, <2>3 DEF RowKept
<1> QED
  BY <1>1, <1>2, DeskCases

LEMMA ReviewedPagesInductive ==
    ASSUME Solo, OneReviewer, FieldsBase, ViewInv, PagesInv, ReviewedPagesInv, SystemStep
    PROVE  ReviewedPagesInv'
<1>1. ASSUME NEW u \in Reviewers, NEW d \in DOMAIN documents',
             page'[u].pc = "open", page'[u].document = d, page'[u].status = "REVIEWED"
      PROVE  Agrees(Shown(d), page[u].texts, page[u].edited)'
  <2>1. CASE page'[u] = page[u]
    <3>1. d \in DOMAIN documents
      BY <1>1, <2>1 DEF FieldsBase, FieldsOK, DesksMatch, DeskMatches
    <3>2. /\ Agrees(Shown(d), page[u].texts, page[u].edited)
          /\ documents[d].status = "REVIEWED"
      BY <1>1, <2>1, <3>1 DEF ReviewedPagesInv, PagesInv, PageInv, Since, Settled
    <3>3. ASSUME NEW v \in Reviewers, Corrects(v) PROVE d # review[v].document
      BY <3>2, <3>3 DEF Corrects, Reviewing, ReviewedPagesInv, DecidingPc
    <3>4. ViewKept(d)
      BY <3>1, <3>2, <3>3, ViewCasesOf
    <3> QED
      BY <2>1, <3>2, <3>4 DEF ViewKept, Agrees
  <2>2. CASE PageStep(u)
    <3>1. d \in DOMAIN documents
      BY <2>2, PageMoves DEF FieldsBase, PageUntouched, vars, tables
    <3> QED
      BY <1>1, <2>2, <3>1, PageStepKeeps DEF ReviewedPagesInv
  <2> QED
    BY <1>1, <2>1, <2>2, PageCases
<1> QED
  BY <1>1, DecidingKept DEF ReviewedPagesInv

LEMMA ReviewedPagesHold ==
    ASSUME Solo, OneReviewer
    PROVE  FieldsSpec => []ReviewedPagesInv
<1>1. FieldsInit => ReviewedPagesInv
  BY NothingStored DEF ReviewedPagesInv, DecidingPc
<1>2. /\ FieldsBase /\ ViewInv /\ PagesInv /\ ReviewedPagesInv
      /\ [FieldsNext]_<<vars, fieldVars>>
      => ReviewedPagesInv'
  BY ReviewedPagesInductive DEF SystemStep
<1> QED
  BY <1>1, <1>2, FieldsBaseHolds, ViewInvHolds, PagesInvHolds, PTL DEF FieldsSpec

\* With one worker and one reviewer, the page of a document that is done
\* with shows what is stored as long as it is open.  (With two reviewers a
\* second decision may store its corrections after the first closed the
\* document.)
THEOREM PageOfSettledStaysHolds ==
    ASSUME Solo, OneReviewer
    PROVE  FieldsSpec => []PageOfSettledStays
<1>1. FieldsBase /\ PagesInv /\ ReviewedPagesInv => PageOfSettledStays
  <2> SUFFICES ASSUME FieldsBase, PagesInv, ReviewedPagesInv, NEW u \in Reviewers,
                      page[u].pc = "open",
                      page[u].status \in {"AUTO_PROCESSED", "REVIEWED", "FAILED"}
               PROVE  LET stored == Texted(Shown(page[u].document))
                      IN  /\ DOMAIN page[u].texts = DOMAIN stored
                          /\ \A name \in DOMAIN stored \ page[u].edited :
                                page[u].texts[name] = stored[name]
    BY DEF PageOfSettledStays
  <2>1. PICK d : d = page[u].document
    OBVIOUS
  <2>2. d \in DOMAIN documents
    BY <2>1 DEF FieldsBase, FieldsOK, DesksMatch, DeskMatches
  <2>3. Agrees(Shown(d), page[u].texts, page[u].edited)
    BY <2>1, <2>2 DEF PagesInv, PageInv, ReviewedPagesInv
  <2> QED
    BY <2>1, <2>3 DEF Agrees, Texted
<1> QED
  BY <1>1, FieldsBaseHolds, PagesInvHolds, ReviewedPagesHold, PTL

---------------------------------------------------------------------------
(* Keys *)

\* Statements fail one at a time.
ErrorsCounted == databaseErrors' \in {databaseErrors, databaseErrors + 1}

LEMMA ErrorsGrow ==
    ASSUME [Next]_vars
    PROVE  ErrorsCounted
<1> USE DEF ErrorsCounted, Attempt, NoStatement
<1>1. ASSUME NEW w \in Workers, Claim(w) \/ Crash(w) PROVE ErrorsCounted
  BY <1>1 DEF Claim, ClaimSnapshot, ClaimLock, ClaimOpenRun, Crash
<1>2. ASSUME NEW w \in Workers, Process(w) PROVE ErrorsCounted
  BY <1>2
  DEF Process, LoadDocument, IterationCapReached, RunOCR, ClassifyDocument,
      PersistClassification, AuditClassified, ExtractFields, PersistFields, PersistExtracted,
      AuditExtracted, PersistKey, ValidateExtraction, PersistValidated, AuditValidated,
      CheckExactDuplicate, CheckNearDuplicate, PersistDuplicate, CalculateConfidence,
      FinalizeDocument, FinishAutoProcessed, AuditAutoProcessed
<1>3. ASSUME NEW w \in Workers, Route(w) \/ Failure(w) PROVE ErrorsCounted
  BY <1>3
  DEF Route, OpenReviewTask, PersistPendingReview, FinishRouted, AuditRouted, Failure,
      FinishFailed, CountAttempts, Requeue, AuditRetrying, GiveUp, AuditFailed
<1>4. ASSUME NEW u \in Reviewers, SubmitStep(u) PROVE ErrorsCounted
  BY <1>4
  DEF SubmitStep, AcceptRequest, LoadTask, SaveCorrections, ResolveTask, CloseDocument,
      AuditDecision
<1> QED
  BY <1>1, <1>2, <1>3, <1>4 DEF Next, Upload, WorkerNext, WorkerStep, ReviewNext, vars

\* The statements that matter to a key, where a run executes them
StatementAt(w) ==
    /\ worker[w].pc = "validate" => ValidateExtraction(w) \/ IterationCapReached(w)
    /\ worker[w].pc = "mark_validated" => PersistValidated(w)
    /\ worker[w].pc = "audit_validated" => AuditValidated(w)
    /\ worker[w].pc = "find_exact" => CheckExactDuplicate(w) \/ IterationCapReached(w)
    /\ worker[w].pc = "find_near" => CheckNearDuplicate(w)
    /\ worker[w].pc = "mark_duplicate" => PersistDuplicate(w)
    /\ worker[w].pc = "calculate_confidence" => CalculateConfidence(w) \/ IterationCapReached(w)
    /\ worker[w].pc = "finalize" => FinalizeDocument(w) \/ IterationCapReached(w)
    /\ worker[w].pc = "set_key" => PersistKey(w)
    /\ worker[w].pc = "fail_finish" => FinishFailed(w)

LEMMA StatementsApart ==
    ASSUME NEW w \in Workers, FieldStep(w)
    PROVE  StatementAt(w)
<1>1. Claim(w) \/ Process(w) \/ Route(w) \/ Failure(w)
  BY DEF FieldStep, ClassifyText, StoreClassification, ExtractText, StoreFields, ValidateFields,
         WeighConfidence, OtherStep, Process
<1> USE DEF StatementAt, At, Step
<1>2. CASE Claim(w)
  BY <1>2 DEF Claim, ClaimSnapshot, ClaimLock, ClaimOpenRun
<1>3. CASE Process(w)
  BY <1>3
  DEF Process, LoadDocument, RunOCR, ClassifyDocument,
      PersistClassification, AuditClassified, ExtractFields, PersistFields, PersistExtracted,
      AuditExtracted, PersistKey, ValidateExtraction, PersistValidated, AuditValidated,
      CheckExactDuplicate, CheckNearDuplicate, PersistDuplicate, CalculateConfidence,
      FinalizeDocument, FinishAutoProcessed, AuditAutoProcessed, IterationCapReached, StepPc
<1>4. CASE Route(w)
  BY <1>4 DEF Route, OpenReviewTask, PersistPendingReview, FinishRouted, AuditRouted
<1>5. CASE Failure(w)
  BY <1>5 DEF Failure, FinishFailed, CountAttempts, Requeue, AuditRetrying, GiveUp, AuditFailed
<1> QED
  BY <1>1, <1>2, <1>3, <1>4, <1>5

\* Once its key is stored a run fails by a statement or by the cap only, and
\* past the cap its document is given up.
LEMMA LateFailures ==
    ASSUME Inv, NEW w \in Workers, FieldStep(w),
           worker[w].pc \in {"validate"} \cup CheckedPc, worker'[w].pc = "fail_finish"
    PROVE  OverCap(w) \/ databaseErrors' = databaseErrors + 1
<1>0. StatementAt(w) /\ worker \in [Workers -> WorkerState]
  BY StatementsApart DEF Inv, TypeOK, WorkerTypeOK
<1>1. ASSUME NEW pc \in {"mark_validated", "audit_validated", "find_near"}
      PROVE  ~Goto(w, pc)
  BY <1>0, <1>1, GotoGoes DEF Goes, StepPc
<1>2. ASSUME NEW pc \in {"find_exact", "calculate_confidence", "finalize"}
      PROVE  ~Enter(w, pc)
  BY <1>0, <1>2, EnterGoes DEF Goes, StepPc
<1>3. ASSUME NEW reason PROVE ~RouteToReview(w, reason)
  BY <1>0, RouteGoes DEF Goes
<1>4. ASSUME NEW S PROVE ~FoundDuplicate(w, S)
  BY <1>0, DuplicateGoes DEF Goes
<1>5. ~Goto(w, "finish_auto")
  BY <1>0, GotoGoes DEF Goes, StepPc
<1> QED
  BY <1>0, <1>1, <1>2, <1>3, <1>4, <1>5
  DEF StatementAt, CheckedPc, ValidateExtraction, IterationCapReached, PersistValidated,
      AuditValidated, CheckExactDuplicate, CheckNearDuplicate, PersistDuplicate,
      CalculateConfidence, FinalizeDocument, Attempt

LEMMA CapGivesUp ==
    ASSUME Inv, NEW w \in Workers, FieldStep(w),
           worker[w].pc = "fail_finish", worker'[w].pc = "fail_count"
    PROVE  ~OverCap(w)
<1>1. FinishFailed(w) /\ worker \in [Workers -> WorkerState]
  BY StatementsApart DEF StatementAt, Inv, TypeOK, WorkerTypeOK
<1>2. AfterFinishFailed(w)
  BY <1>1 DEF FinishFailed, Attempt
<1>3. ~Goto(w, "fail_mark")
  BY <1>1, GotoGoes DEF Goes, StepPc
<1> QED
  BY <1>2, <1>3 DEF AfterFinishFailed

LEMMA KeyStored ==
    ASSUME Inv, NEW w \in Workers, FieldStep(w), worker[w].pc = "set_key",
           NEW d \in DOMAIN documents, d = worker[w].document
    PROVE  \/ documents'[d] = [documents[d] EXCEPT !.key = worker[w].key]
           \/ documents'[d] = documents[d] /\ databaseErrors' = databaseErrors + 1
<1>1. PersistKey(w) /\ TablesOK
  BY StatementsApart DEF StatementAt, Inv, TypeOK, DatabaseTypeOK, TablesOK
<1> QED
  BY <1>1, KeySet DEF PersistKey, Attempt, DocumentSet, tables

Fresh(d) == documents[d].key = NoKey \/ databaseErrors >= 1

KeyedPc == {"validate"} \cup CheckedPc

\* The key of a document is that of the run that has stored its fields:
\* before that it has none, unless a statement failed an earlier attempt
\* that had stored one; and it may keep that one only if storing the run's
\* fails as well.
KeyAt(w, d) ==
    LET pc == worker[w].pc
        key == worker[w].key
    IN  /\ pc \in {"audit_extracted", "set_key"} => Fresh(d)
        /\ pc \in KeyedPc /\ key # NoKey =>
              \/ documents[d].key = key
              \/ documents[d].key = NoKey /\ databaseErrors >= 1
              \/ databaseErrors >= 2
        /\ pc \in CheckedPc => key # NoKey
        /\ pc \in {"fail_finish", "fail_count", "fail_requeue"} =>
              Fresh(d) \/ (pc = "fail_finish" /\ OverCap(w))

KeyInv ==
    /\ \A d \in DOMAIN documents : documents[d].status \in {"UPLOADED", "CLASSIFIED"} => Fresh(d)
    /\ \A w \in Workers, d \in DOMAIN documents : d = worker[w].document => KeyAt(w, d)

\* Where a run comes from that arrives where its key matters
LEMMA KeyPcs ==
    ASSUME Inv, NEW w \in Workers, RunEffect(w)
    PROVE  /\ worker'[w].pc = "audit_extracted" => worker[w].pc = "mark_extracted"
           /\ worker'[w].pc = "set_key" => worker[w].pc = "audit_extracted"
           /\ worker'[w].pc = "validate" /\ worker'[w].key # NoKey =>
                 worker[w].pc = "set_key" /\ worker'[w].key = worker[w].key
           /\ worker'[w].pc \in CheckedPc =>
                 /\ worker[w].pc \in KeyedPc /\ worker'[w].key = worker[w].key
                 /\ worker[w].pc = "validate" => worker[w].key # NoKey
           /\ worker'[w].pc = "fail_finish" =>
                 worker[w].pc \in CanFail /\ worker'[w].iterations = worker[w].iterations
           /\ worker'[w].pc = "fail_count" => worker[w].pc = "fail_finish"
           /\ worker'[w].pc = "fail_requeue" => worker[w].pc = "fail_count"
<1> USE DEF CheckedPc, KeyedPc, At, GoesToOne, Goes, Over
<1>0. Polling.pc = "poll"
  BY DEF Polling
<1>1. CASE ReadMove(w)
  BY <1>0, <1>1 DEF ReadMove
<1>2. CASE ErrorMove(w)
  BY <1>0, <1>2 DEF ErrorMove
<1>3. CASE FailMove(w)
  <2>1. worker'[w].pc = "fail_finish" /\ worker[w].pc \in CanFail
    BY <1>3 DEF FailMove
  <2>2. worker[w].iterations \in Nat
    BY DEF Inv, TypeOK, WorkerTypeOK, WorkerState
  <2>3. worker'[w].iterations = worker[w].iterations
    BY <1>3, <2>2 DEF FailMove, StepPc
  <2> QED
    BY <2>1, <2>3
<1>4. CASE WriteMove(w)
  BY <1>0, <1>4 DEF WriteMove
<1> QED
  BY <1>1, <1>2, <1>3, <1>4 DEF RunEffect

\* What a step of a run leaves of its document's key and status
LEMMA KeyRows ==
    ASSUME Solo, FieldsBase, NEW w \in Workers, OwnsStep(w),
           NEW d \in DOMAIN documents, d = worker[w].document
    PROVE  /\ worker[w].pc # "set_key" => documents'[d].key = documents[d].key
           /\ documents'[d].status \in {"UPLOADED", "CLASSIFIED"} =>
                 \/ documents[d].status \in {"UPLOADED", "CLASSIFIED"}
                 \/ worker[w].pc = "fail_requeue"
<1>0. Inv /\ RunEffect(w) /\ worker[w].pc \in OwningPc /\ Staged(w)
  BY DEF FieldsBase, PipelineInv, OwnsStep, StageInv
<1>1. documents[d] \in Document
  BY <1>0, ElementOfSeq DEF Inv, TypeOK, DatabaseTypeOK
<1>2. CASE UNCHANGED documents
  BY <1>2
<1>3. CASE ~UNCHANGED documents
  <2>1. WriteMove(w)
    BY <1>0, <1>3 DEF RunEffect, SameRows
  <2>2. CASE \E s : StatusWritten(d, s)
    <3>1. documents'[d].key = documents[d].key
      BY <1>1, <2>2 DEF StatusWritten, DocumentSet, Document
    <3>2. documents'[d].status \in {"UPLOADED", "CLASSIFIED"} =>
             \/ worker[w].pc \in {"mark_classified", "fail_requeue"}
             \/ documents[d].status \in {"UPLOADED", "CLASSIFIED"}
      BY <1>1, <1>3, <2>1
      DEF WriteMove, StatusWritten, DocumentSet, TaskOpened, BatchInserted, RunFinished, At,
          Document
    <3>3. worker[w].pc = "mark_classified" => documents[d].status = "UPLOADED"
      BY <1>0 DEF Staged, StageAt, Disturbed
    <3> QED
      BY <3>1, <3>2, <3>3
  <2>3. CASE ~\E s : StatusWritten(d, s)
    <3>1. \/ /\ worker[w].pc = "set_key"
             /\ documents'[d] = [documents[d] EXCEPT !.key = worker[w].key]
          \/ documents'[d] = [documents[d] EXCEPT !.duplicateOf = worker[w].duplicateOf]
      BY <1>3, <2>1, <2>3 DEF WriteMove, DocumentSet, TaskOpened, BatchInserted, RunFinished, At
    <3> QED
      BY <1>1, <3>1 DEF Document
  <2> QED
    BY <2>2, <2>3
<1> QED
  BY <1>2, <1>3

LEMMA EarlyStages ==
    ASSUME Solo, FieldsBase, NEW w \in Workers, worker[w].pc \in OwningPc
    PROVE  /\ worker[w].pc \in (CanFail \ KeyedPc) =>
                 documents[worker[w].document].status \in {"UPLOADED", "CLASSIFIED"}
           /\ worker[w].pc = "set_key" => documents[worker[w].document].status = "EXTRACTED"
BY DEF FieldsBase, PipelineInv, StageInv, Staged, Disturbed, StageAt, CanFail, KeyedPc, CheckedPc,
       StepPc

LEMMA OwnKeyKept ==
    ASSUME Solo, FieldsBase, KeyInv, ErrorsCounted, databaseErrors \in Nat,
           NEW w \in Workers, OwnsStep(w), NEW d \in DOMAIN documents, d = worker[w].document
    PROVE  /\ KeyAt(w, d)'
           /\ documents'[d].status \in {"UPLOADED", "CLASSIFIED"} => Fresh(d)'
<1>0. /\ Inv /\ RunEffect(w) /\ FieldStep(w) /\ worker[w].pc \in OwningPc /\ KeyAt(w, d)
      /\ documents[d].status \in {"UPLOADED", "CLASSIFIED"} => Fresh(d)
  BY DEF FieldsBase, PipelineInv, OwnsStep, KeyInv
<1>1. /\ worker[w].pc \in (CanFail \ KeyedPc) =>
            documents[d].status \in {"UPLOADED", "CLASSIFIED"}
      /\ worker[w].pc = "set_key" => documents[d].status = "EXTRACTED"
  BY <1>0, EarlyStages
<1>2. documents[d] \in Document
  BY <1>0, ElementOfSeq DEF Inv, TypeOK, DatabaseTypeOK
<1>3. CASE worker[w].pc = "set_key"
  <2>1. worker'[w].pc \in {"validate"} /\ worker'[w].key = worker[w].key
    BY <1>0, <1>3 DEF RunEffect, ReadMove, ErrorMove, FailMove, WriteMove, At, Goes, GoesToOne,
                      CanFail, StepPc
  <2>2. \/ documents'[d] = [documents[d] EXCEPT !.key = worker[w].key]
        \/ documents'[d] = documents[d] /\ databaseErrors' = databaseErrors + 1
    BY <1>0, <1>3, KeyStored
  <2>3. documents'[d].status = "EXTRACTED"
    BY <1>1, <1>2, <1>3, <2>2 DEF Document
  <2>4. \/ documents'[d].key = worker[w].key
        \/ documents'[d].key = documents[d].key /\ databaseErrors' = databaseErrors + 1
    BY <1>2, <2>2 DEF Document
  <2>5. Fresh(d)
    BY <1>0, <1>3 DEF KeyAt
  <2> QED
    BY <2>1, <2>3, <2>4, <2>5 DEF KeyAt, Fresh, CheckedPc
<1>4. CASE worker[w].pc # "set_key"
  <2>1. /\ documents'[d].key = documents[d].key
        /\ documents'[d].status \in {"UPLOADED", "CLASSIFIED"} =>
              \/ documents[d].status \in {"UPLOADED", "CLASSIFIED"}
              \/ worker[w].pc = "fail_requeue"
    BY <1>4, KeyRows
  <2>2. Fresh(d) => Fresh(d)'
    BY <2>1 DEF Fresh, ErrorsCounted
  <2>3. worker[w].pc = "fail_requeue" => Fresh(d)
    BY <1>0 DEF KeyAt
  <2>4. worker'[w].pc \in {"audit_extracted", "set_key"} => Fresh(d)
    <3>1. worker'[w].pc = "audit_extracted" => worker[w].pc \in (CanFail \ KeyedPc)
      BY <1>0, KeyPcs DEF CanFail, KeyedPc, CheckedPc
    <3> QED
      BY <1>0, <1>1, <3>1, KeyPcs DEF KeyAt
  <2>5. worker'[w].pc \in KeyedPc /\ worker'[w].key # NoKey =>
           /\ worker[w].pc \in KeyedPc /\ worker'[w].key = worker[w].key
    BY <1>0, <1>4, KeyPcs DEF KeyedPc
  <2>6. worker'[w].pc \in CheckedPc => worker'[w].key # NoKey
    BY <1>0, KeyPcs DEF KeyAt, KeyedPc
  <2>7. worker'[w].pc \in {"fail_finish", "fail_count", "fail_requeue"} =>
           Fresh(d)' \/ (worker'[w].pc = "fail_finish" /\ OverCap(w)')
    <3>1. CASE worker'[w].pc = "fail_finish"
      <4>1. worker[w].pc \in CanFail /\ (OverCap(w) => OverCap(w)')
        BY <1>0, <3>1, KeyPcs DEF OverCap
      <4>2. worker[w].pc \in KeyedPc => OverCap(w) \/ databaseErrors' = databaseErrors + 1
        BY <1>0, <3>1, LateFailures DEF KeyedPc
      <4>3. databaseErrors' = databaseErrors + 1 => Fresh(d)'
        BY DEF Fresh
      <4> QED
        BY <1>0, <1>1, <2>2, <3>1, <4>1, <4>2, <4>3
    <3>2. CASE worker'[w].pc = "fail_count"
      BY <1>0, <2>2, <3>2, KeyPcs, CapGivesUp DEF KeyAt
    <3>3. CASE worker'[w].pc = "fail_requeue"
      BY <1>0, <2>2, <3>3, KeyPcs DEF KeyAt
    <3> QED
      BY <3>1, <3>2, <3>3
  <2>8. worker'[w].pc \in KeyedPc /\ worker'[w].key # NoKey =>
           \/ documents'[d].key = worker'[w].key
           \/ documents'[d].key = NoKey /\ databaseErrors' >= 1
           \/ databaseErrors' >= 2
    BY <1>0, <2>1, <2>5 DEF KeyAt, ErrorsCounted
  <2> QED
    BY <1>0, <2>1, <2>2, <2>3, <2>4, <2>6, <2>7, <2>8 DEF KeyAt
<1> QED
  BY <1>3, <1>4

LEMMA KeyAtOwns ==
    ASSUME NEW w, NEW d, worker[w].pc \notin OwningPc \/ worker[w].pc \in {"open_run", "load"}
    PROVE  KeyAt(w, d)
BY DEF KeyAt, KeyedPc, CheckedPc, OwningPc, OpenPc, GivingUpPc, StepPc, PersistPc

LEMMA KeyInvInductive ==
    ASSUME Solo, FieldsBase, ViewInv, KeyInv, SystemStep
    PROVE  KeyInv'
<1>0. /\ ErrorsCounted /\ databaseErrors \in Nat /\ [Next]_vars
  BY FieldsNextRefines, ErrorsGrow
     DEF SystemStep, FieldsBase, PipelineInv, Inv, TypeOK, DatabaseTypeOK
<1>1. ASSUME NEW d \in DOMAIN documents, RowKept(d) PROVE Fresh(d) => Fresh(d)'
  BY <1>0, <1>1 DEF RowKept, Fresh, ErrorsCounted
<1>2. ASSUME NEW d \in DOMAIN documents', documents'[d].status \in {"UPLOADED", "CLASSIFIED"}
      PROVE  Fresh(d)'
  <2>1. CASE d \notin DOMAIN documents
    BY <2>1, RowsWritten DEF OwnsStep, AnswersStep, NewDocument, Fresh
  <2>2. CASE d \in DOMAIN documents
    <3>1. documents[d].status \notin {"PENDING_REVIEW", "REVIEWED"}
      <4>1. SettledFor(d)
        BY <1>0, <2>2, SettledKept DEF FieldsBase, Disturbed
      <4> QED
        BY <1>2, <4>1 DEF SettledFor, Settled
    <3>2. CASE RowKept(d)
      BY <1>1, <1>2, <2>2, <3>2 DEF RowKept, KeyInv
    <3>3. ASSUME NEW w \in Workers, OwnsStep(w), d = worker[w].document PROVE Fresh(d)'
      BY <1>0, <1>2, <2>2, <3>3, OwnKeyKept
    <3> QED
      BY <2>2, <3>1, <3>2, <3>3, RowCasesOf
  <2> QED
    BY <2>1, <2>2
<1>3. ASSUME NEW w \in Workers, NEW d \in DOMAIN documents', d = worker'[w].document
      PROVE  KeyAt(w, d)'
  <2>1. CASE worker'[w].pc \notin OwningPc \/ worker'[w].pc \in {"open_run", "load"}
    BY <2>1, KeyAtOwns DEF KeyAt, KeyedPc, CheckedPc, OwningPc, OpenPc, GivingUpPc, StepPc,
                           PersistPc
  <2>2. CASE OwnsStep(w) /\ worker'[w].pc \in OwningPc
    <3>1. d = worker[w].document /\ d \in DOMAIN documents
      BY <1>3, <2>2, EffectOwns DEF OwnsStep
    <3> QED
      BY <1>0, <2>2, <3>1, OwnKeyKept
  <2>3. CASE /\ worker'[w] = worker[w] /\ ~OwnsStep(w)
             /\ worker'[w].pc \in OwningPc \ {"open_run", "load"}
    <3>1. worker[w].pc \in OwningPc /\ worker[w].pc \in RunPc
      BY <2>3 DEF OwningPc, OpenPc, GivingUpPc, RunPc, ClosePc
    <3>2. d = worker[w].document /\ d \in DOMAIN documents
      BY <1>3, <2>3, <3>1, RunFacts DEF FieldsBase, PipelineInv
    <3>3. documents[d].status \in Active
      BY <3>1, <3>2, OwnedIsActive
    <3>4. RowKept(d) /\ KeyAt(w, d)
      BY <2>3, <3>2, <3>3, RowCasesOf DEF Solo, Active, KeyInv
    <3>5. documents'[d].key = documents[d].key /\ (Fresh(d) => Fresh(d)')
      BY <1>1, <3>2, <3>4 DEF RowKept
    <3> QED
      BY <1>0, <2>3, <3>4, <3>5 DEF KeyAt, ErrorsCounted, OverCap
  <2>4. CASE FieldStep(w) /\ Claim(w)
    <3>1. \/ worker'[w] = Polling
          \/ worker'[w].pc = "lock" \/ worker'[w].pc = "open_run" \/ RunOpened(w)
      BY <2>4, ClaimMoves DEF FieldsBase, PipelineInv
    <3>2. worker'[w].pc \in {"poll", "lock", "open_run", "load"}
      BY <3>1 DEF Polling, RunOpened
    <3> QED
      BY <2>1, <3>2 DEF OwningPc, OpenPc, GivingUpPc, StepPc, PersistPc
  <2> QED
    BY <2>1, <2>2, <2>3, <2>4, WorkerCases
<1> QED
  BY <1>2, <1>3 DEF KeyInv

LEMMA KeyInvHolds ==
    ASSUME Solo
    PROVE  FieldsSpec => []KeyInv
<1>1. FieldsInit => KeyInv
  BY NothingStored DEF KeyInv
<1>2. FieldsBase /\ ViewInv /\ KeyInv /\ [FieldsNext]_<<vars, fieldVars>> => KeyInv'
  BY KeyInvInductive DEF SystemStep
<1> QED
  BY <1>1, <1>2, FieldsBaseHolds, ViewInvHolds, PTL DEF FieldsSpec

\* Fields without a violation are complete.
LEMMA ValidIsComplete ==
    ASSUME NEW schema, NEW fields, DOMAIN fields = DOMAIN schema,
           Validate(schema, ValuesOf(fields)) = {}
    PROVE  Complete(fields)
<1> DEFINE values == ValuesOf(fields)
           present == {n \in DOMAIN schema \cap DOMAIN values : values[n].json # "null"}
<1>1. Violation("field_required", DOMAIN schema \ present) = {}
  BY DEF Validate
<1>2. DOMAIN schema \subseteq present
  BY <1>1 DEF Violation
<1>3. \A name \in DOMAIN fields : name \in present
  BY <1>2
<1>4. \A name \in DOMAIN fields : values[name] = fields[name].value
  BY DEF ValuesOf
<1> QED
  BY <1>3, <1>4 DEF Complete

KeyMatches(d) ==
    documents[d].status = "AUTO_PROCESSED" /\ documents[d].key # NoKey /\ databaseErrors <= 1 =>
        documents[d].key =
            KeyFieldsHash([name \in DOMAIN Schema[classification[d].type] |-> Shown(d)[name]])

LEMMA FinalizedKeyMatches ==
    ASSUME FieldsBase, ReadInv, KeyInv, ErrorsCounted, databaseErrors \in Nat,
           NEW w \in Workers, OwnsStep(w),
           NEW d \in DOMAIN documents, d = worker[w].document,
           worker[w].pc = "finalize", worker'[w].pc = "finish_auto"
    PROVE  KeyMatches(d)'
<1>1. PICK fields : fields = extraction[w].fields
  OBVIOUS
<1>2. /\ DOMAIN fields = DOMAIN Schema[classification[d].type]
      /\ worker[w].key = KeyOf(fields) /\ Shows(d, fields)
      /\ Validate(Schema[classification[d].type], ValuesOf(fields)) = {}
  BY <1>1 DEF ReadInv, ReadOf, ClassifiedPc, ExtractedPc, StoredPc, CheckedPc
<1>3. worker[w].key = KeyFieldsHash(fields)
  BY <1>2, ValidIsComplete DEF KeyOf
<1>4. FieldsKept
  BY DEF OwnsStep, FieldMove, From
<1>5. classification'[d] = classification[d] /\ Shown(d)' = Shown(d)
  BY <1>4, QuietViews DEF FieldsKept, ViewKept, FieldsBase, PipelineInv
<1>6. KeyFieldsHash([name \in DOMAIN Schema[classification[d].type] |-> Shown(d)[name]])
         = KeyFieldsHash(fields)
  BY <1>2 DEF KeyFieldsHash, Shows
<1>7. documents'[d].key = documents[d].key
  <2>1. documents[d] \in Document
    BY ElementOfSeq DEF FieldsBase, PipelineInv, Inv, TypeOK, DatabaseTypeOK
  <2>2. documents'[d] = documents[d] \/ StatusWritten(d, "AUTO_PROCESSED")
    BY DEF OwnsStep, RunEffect, SameRows, WriteMove, At
  <2> QED
    BY <2>1, <2>2 DEF StatusWritten, DocumentSet, Document
<1>8. \/ documents[d].key = worker[w].key
      \/ documents[d].key = NoKey
      \/ databaseErrors >= 2
  BY DEF KeyInv, KeyAt, KeyedPc, CheckedPc
<1>9. KeyFieldsHash([name \in DOMAIN Schema[classification[d].type] |-> Shown(d)[name]])'
         = KeyFieldsHash([name \in DOMAIN Schema[classification[d].type] |-> Shown(d)[name]])
  BY <1>5 DEF KeyFieldsHash
<1>10. databaseErrors' <= 1 => ~(databaseErrors >= 2)
  BY DEF ErrorsCounted
<1> DEFINE hash == KeyFieldsHash([name \in DOMAIN Schema[classification[d].type] |-> Shown(d)[name]])
<1>11. hash' = worker[w].key
  BY <1>3, <1>6, <1>9
<1> SUFFICES ASSUME documents'[d].key # NoKey, databaseErrors' <= 1
             PROVE  documents'[d].key = hash'
  BY DEF KeyMatches
<1> HIDE DEF hash
<1> QED
  BY <1>7, <1>8, <1>10, <1>11

LEMMA KeyMatchesKept ==
    ASSUME Solo, FieldsBase, ViewInv, ReadInv, KeyInv, SystemStep, KeyMatchesShownFields
    PROVE  KeyMatchesShownFields'
<1> SUFFICES ASSUME NEW d \in DOMAIN documents', documents'[d].status = "AUTO_PROCESSED"
             PROVE  KeyMatches(d)'
  BY DEF KeyMatchesShownFields, KeyMatches
<1>0. ErrorsCounted /\ databaseErrors \in Nat /\ [Next]_vars
  BY FieldsNextRefines, ErrorsGrow
     DEF SystemStep, FieldsBase, PipelineInv, Inv, TypeOK, DatabaseTypeOK
<1>1. d \in DOMAIN documents
  BY RowsWritten DEF OwnsStep, AnswersStep, NewDocument
<1>2. KeyMatches(d)
  BY <1>1 DEF KeyMatchesShownFields, KeyMatches
<1>3. documents[d].status \notin {"PENDING_REVIEW", "REVIEWED"}
  <2>1. SettledFor(d)
    BY <1>0, <1>1, SettledKept DEF FieldsBase, Disturbed
  <2> QED
    BY <2>1 DEF SettledFor, Settled
<1>4. CASE RowKept(d)
  <2>1. /\ documents'[d] = documents[d] /\ classification'[d] = classification[d]
        /\ Shown(d)' = Shown(d)
    BY <1>4 DEF RowKept, ViewKept
  <2>2. KeyFieldsHash([name \in DOMAIN Schema[classification[d].type] |-> Shown(d)[name]])'
           = KeyFieldsHash([name \in DOMAIN Schema[classification[d].type] |-> Shown(d)[name]])
    BY <2>1 DEF KeyFieldsHash
  <2> QED
    BY <1>0, <1>2, <2>1, <2>2 DEF KeyMatches, ErrorsCounted
<1>5. ASSUME NEW w \in Workers, OwnsStep(w), d = worker[w].document
      PROVE  KeyMatches(d)'
  <2>1. documents[d].status # "AUTO_PROCESSED"
    BY <1>5, OwnedIsActive DEF OwnsStep, Active
  <2>2. worker[w].pc = "finalize" /\ worker'[w].pc = "finish_auto"
    BY <1>1, <1>5, <2>1, FinalizedOnly DEF OwnsStep, FieldsBase, PipelineInv
  <2> QED
    BY <1>0, <1>1, <1>5, <2>2, FinalizedKeyMatches
<1> QED
  BY <1>1, <1>3, <1>4, <1>5, RowCasesOf

\* With one worker, the key later documents are compared with is that of the
\* fields a reader gets, whatever attempts came before, as long as no more
\* than one statement has failed: a stale key takes one failure after the
\* key was stored and a second one where the next attempt stores its own.
THEOREM KeyMatchesShownFieldsHolds ==
    ASSUME Solo
    PROVE  FieldsSpec => []KeyMatchesShownFields
<1>1. FieldsInit => KeyMatchesShownFields
  BY NothingStored DEF KeyMatchesShownFields
<1>2. /\ FieldsBase /\ ViewInv /\ ReadInv /\ KeyInv /\ KeyMatchesShownFields
      /\ [FieldsNext]_<<vars, fieldVars>>
      => KeyMatchesShownFields'
  BY KeyMatchesKept DEF SystemStep
<1> QED
  BY <1>1, <1>2, FieldsBaseHolds, ViewInvHolds, ReadInvHolds, KeyInvHolds, PTL DEF FieldsSpec

---------------------------------------------------------------------------
(* First attempts *)

NeverFailed(d) == RunsWith(d, "FAILED") = {}

\* The first attempt at d has stored nothing.
Untouched(d) == NeverFailed(d) => BatchesOf(d) = {}

\* A run of d stays RUNNING for ever: its worker crashed, or the statement
\* that should have closed it failed.
Abandoned(d) ==
    \E r \in RunsWith(d, "RUNNING") :
        \A w \in Workers : worker[w].pc \in OpenPc => worker[w].run # r

LEMMA CountsFailures ==
    ASSUME Inv, NEW d
    PROVE  CountFailed(d) = 0 <=> NeverFailed(d)
<1>1. IsFiniteSet(RunsWith(d, "FAILED"))
  <2>1. DOMAIN agentRuns = 1..Len(agentRuns) /\ Len(agentRuns) \in Nat
    BY LenProperties DEF Inv, TypeOK, DatabaseTypeOK
  <2>2. IsFiniteSet(DOMAIN agentRuns)
    BY <2>1, FS_Interval
  <2> QED
    BY <2>2, FS_Subset DEF RunsWith
<1> QED
  BY <1>1, FS_EmptySet DEF CountFailed, NeverFailed

\* What a step may do to the runs
LEMMA RunCases ==
    ASSUME Inv, RunInv, [Next]_vars
    PROVE  \/ UNCHANGED <<worker, agentRuns>>
           \/ \E w \in Workers :
                 /\ OthersStay(w)
                 /\ \/ RunEffect(w) /\ worker[w].pc \in RunPc
                    \/ RunOpened(w)
                    \/ UNCHANGED agentRuns /\ worker'[w].pc \notin OpenPc
<1> USE DEF OpenPc, StepPc, PersistPc
<1>1. CASE UNCHANGED vars
  BY <1>1 DEF vars, tables, workerVars
<1>2. ASSUME NEW w \in Workers, WorkerStep(w) \/ Crash(w)
      PROVE  /\ OthersStay(w)
             /\ \/ RunEffect(w) /\ worker[w].pc \in RunPc
                \/ RunOpened(w)
                \/ UNCHANGED agentRuns /\ worker'[w].pc \notin OpenPc
  <2>1. CASE Claim(w)
    <3>1. \/ worker'[w] = Polling /\ UNCHANGED agentRuns
          \/ worker'[w].pc = "lock" /\ UNCHANGED agentRuns
          \/ worker'[w].pc = "open_run" /\ UNCHANGED agentRuns
          \/ RunOpened(w)
      BY <2>1, ClaimMoves
    <3> QED
      BY <2>1, <3>1, ClaimMoves DEF Polling
  <2>2. CASE Process(w) \/ Route(w) \/ Failure(w)
    BY <2>2, RunEffects, RunPcs, EffectMoves
  <2>3. CASE Crash(w)
    <3>1. OthersStay(w) /\ worker'[w] = Polling /\ agentRuns' = agentRuns
      BY <2>3, ReturnOver DEF Crash, Over, Inv, TypeOK, WorkerTypeOK, NoStatement, tables
    <3> QED
      BY <3>1 DEF Polling
  <2> QED
    BY <1>2, <2>1, <2>2, <2>3 DEF WorkerStep
<1>3. CASE Upload /\ UNCHANGED <<workerVars, review>>
  BY <1>3 DEF Upload, CreateDocument, DocumentWritten, workerVars
<1>4. CASE ReviewNext /\ UNCHANGED workerVars
  BY <1>4, SubmitKeepsRuns DEF ReviewNext, workerVars
<1> QED
  BY <1>1, <1>2, <1>3, <1>4 DEF Next, WorkerNext

\* Failures are not forgotten.
LEMMA FailuresStay ==
    ASSUME Inv, RunInv, [Next]_vars
    PROVE  FailedRunsStay /\ \A d : NeverFailed(d)' => NeverFailed(d)
<1>1. FailedRunsStay
  <2>1. CASE UNCHANGED <<worker, agentRuns>>
    BY <2>1 DEF FailedRunsStay
  <2>2. ASSUME NEW w \in Workers, RunEffect(w), worker[w].pc \in RunPc PROVE FailedRunsStay
    BY <2>2, EffectKeepsFailed
  <2>3. ASSUME NEW w \in Workers, RunOpened(w) PROVE FailedRunsStay
    BY <2>3 DEF RunOpened, FailedRunsStay
  <2> QED
    BY <2>1, <2>2, <2>3, RunCases DEF FailedRunsStay
<1> QED
  BY <1>1 DEF FailedRunsStay, NeverFailed, RunsWith

\* A run that is open was open before.
LEMMA EffectKeepsOpen ==
    ASSUME NEW w \in Workers, RunEffect(w), worker'[w].pc \in OpenPc
    PROVE  worker[w].pc \in OpenPc /\ worker'[w].run = worker[w].run
<1> USE DEF OpenPc, StepPc, PersistPc, At, GoesToOne, Goes, Over
<1>0. Polling.pc = "poll"
  BY DEF Polling
<1>1. CASE ReadMove(w)
  BY <1>0, <1>1 DEF ReadMove
<1>2. CASE ErrorMove(w)
  BY <1>0, <1>2 DEF ErrorMove
<1>3. CASE FailMove(w)
  BY <1>3 DEF FailMove, CanFail
<1>4. CASE WriteMove(w)
  BY <1>0, <1>4 DEF WriteMove
<1> QED
  BY <1>1, <1>2, <1>3, <1>4 DEF RunEffect

\* A run without a worker stays as it is.
LEMMA AbandonedStays ==
    ASSUME Inv, RunInv, [Next]_vars, NEW d, Abandoned(d)
    PROVE  Abandoned(d)'
<1>1. PICK r \in RunsWith(d, "RUNNING") :
         \A w \in Workers : worker[w].pc \in OpenPc => worker[w].run # r
  BY DEF Abandoned
<1>2. r \in DOMAIN agentRuns
  BY DEF RunsWith
<1>3. /\ r \in DOMAIN agentRuns' /\ agentRuns'[r] = agentRuns[r]
      /\ \A w \in Workers : worker'[w].pc \in OpenPc => worker'[w].run # r
  <2>1. CASE UNCHANGED <<worker, agentRuns>>
    BY <1>1, <1>2, <2>1
  <2>2. ASSUME NEW w \in Workers, OthersStay(w), RunEffect(w), worker[w].pc \in RunPc
        PROVE  /\ r \in DOMAIN agentRuns' /\ agentRuns'[r] = agentRuns[r]
               /\ worker'[w].pc \in OpenPc => worker'[w].run # r
    <3>1. worker'[w].pc \in OpenPc => worker[w].pc \in OpenPc /\ worker'[w].run = worker[w].run
      BY <2>2, EffectKeepsOpen
    <3>2. agentRuns'[r] = agentRuns[r]
      <4>1. CASE worker[w].pc \in OpenPc
        BY <1>1, <1>2, <2>2, <4>1, EffectRuns
      <4>2. CASE worker[w].pc \notin OpenPc
        <5>1. UNCHANGED agentRuns
          BY <2>2, <4>2
          DEF RunEffect, SameRows, WriteMove, At, StatusWritten, DocumentSet, TaskOpened,
              BatchInserted, OpenPc
        <5> QED
          BY <5>1
      <4> QED
        BY <4>1, <4>2
    <3> QED
      BY <1>1, <1>2, <2>2, <3>1, <3>2, EffectRuns
  <2>3. ASSUME NEW w \in Workers, RunOpened(w)
        PROVE  /\ r \in DOMAIN agentRuns' /\ agentRuns'[r] = agentRuns[r]
               /\ worker'[w].run # r
    BY <1>2, <2>3 DEF RunOpened
  <2> QED
    BY <1>1, <1>2, <2>1, <2>2, <2>3, RunCases DEF OthersStay
<1>4. r \in RunsWith(d, "RUNNING")'
  BY <1>1, <1>3 DEF RunsWith
<1> QED
  BY <1>3, <1>4 DEF Abandoned

\* Past mark_classified, before its fields are stored
UnstoredPc == {"audit_classified", "extract", "insert_fields"}

FirstAttemptAt(d) ==
    /\ NeverFailed(d) /\ BatchesOf(d) # {} /\ CorrectionsOf(d) = {} =>
          NamesOf(d) = DOMAIN Schema[classification[d].type]
    /\ documents[d].status = "UPLOADED" => Untouched(d) \/ Abandoned(d)

\* A document that has no failed run and can be claimed has no fields yet:
\* what was uploaded and has some failed, or has a run that never ends.
FirstAttemptInv ==
    /\ \A d \in DOMAIN documents : FirstAttemptAt(d)
    /\ \A w \in Workers, d \in DOMAIN documents :
          d = worker[w].document /\ worker[w].pc \in UnstoredPc => Untouched(d)

LEMMA OwnedNotAbandoned ==
    ASSUME PipelineInv, NEW w \in Workers, NEW d \in DOMAIN documents, d = worker[w].document,
           worker[w].pc \in {"open_run"} \cup OpenPc
    PROVE  ~Abandoned(d)
<1>1. CASE worker[w].pc = "open_run"
  BY <1>1 DEF PipelineInv, ClaimInv, Unclaimed, Abandoned
<1>2. CASE worker[w].pc \in OpenPc
  <2>1. worker[w].pc \in RunPc
    BY <1>2 DEF OpenPc, RunPc, ClosePc
  <2>2. worker[w].run \in RunsWith(d, "RUNNING")
    BY <1>2, <2>1 DEF PipelineInv, Inv, TypeOK, WorkerRowsExist, RunInv, OwnRun, RunsWith
  <2> QED
    BY <1>2, <2>2 DEF PipelineInv, ClaimInv, OneRunningRun, Abandoned
<1> QED
  BY <1>1, <1>2

\* Where nothing of d is written that matters to its first attempt
LEMMA FirstAttemptKept ==
    ASSUME Inv, RunInv, [Next]_vars, NEW d, FirstAttemptAt(d),
           \/ documents'[d].status = "UPLOADED" => documents[d].status = "UPLOADED"
           \/ ~NeverFailed(d)' \/ Abandoned(d)',
           classification'[d] = classification[d], ViewKept(d)
    PROVE  FirstAttemptAt(d)' /\ (Untouched(d) => Untouched(d)')
<1>1. NeverFailed(d)' => NeverFailed(d)
  BY FailuresStay
<1>2. Untouched(d) => Untouched(d)'
  BY <1>1 DEF Untouched, ViewKept
<1>3. Abandoned(d) => Abandoned(d)'
  BY AbandonedStays
<1>4. NamesOf(d)' = NamesOf(d)
  <2>1. DOMAIN Shown(d)' = NamesOf(d)'
    BY DEF Shown
  <2> QED
    BY <2>1, ShownDomains DEF ViewKept
<1>5. /\ BatchesOf(d)' = BatchesOf(d) /\ CorrectionsOf(d)' = CorrectionsOf(d)
      /\ Schema[classification'[d].type] = Schema[classification[d].type]
  BY DEF ViewKept
<1>6. NeverFailed(d)' /\ BatchesOf(d)' # {} /\ CorrectionsOf(d)' = {} =>
          NamesOf(d)' = DOMAIN Schema[classification'[d].type]
  BY <1>1, <1>4, <1>5 DEF FirstAttemptAt
<1>7. documents'[d].status = "UPLOADED" => Untouched(d)' \/ Abandoned(d)'
  BY <1>2, <1>3 DEF FirstAttemptAt, Untouched
<1> QED
  BY <1>2, <1>6, <1>7 DEF FirstAttemptAt

\* What a run that gives its document back leaves behind
LEMMA RequeuedIsUntouched ==
    ASSUME Solo, PipelineInv, NEW w \in Workers, RunEffect(w), worker[w].pc = "fail_requeue",
           NEW d \in DOMAIN documents, d = worker[w].document
    PROVE  ~NeverFailed(d)' \/ Abandoned(d)'
<1>1. /\ UNCHANGED agentRuns /\ worker'[w].pc \in {"poll", "audit_retrying"}
      /\ OthersStay(w)
  BY DEF RunEffect, SameRows, ReadMove, ErrorMove, FailMove, WriteMove, StatusWritten, DocumentSet,
         At, Goes, GoesToOne, Over, Polling, CanFail, StepPc
<1>2. worker[w].run \in RunsWith(d, "RUNNING") \cup RunsWith(d, "FAILED")
  BY DEF PipelineInv, Inv, TypeOK, WorkerRowsExist, RunInv, OwnRun, RunsWith, RunPc, ClosePc,
         GivingUpPc
<1>3. CASE worker[w].run \in RunsWith(d, "FAILED")
  BY <1>1, <1>3 DEF NeverFailed, RunsWith
<1>4. CASE worker[w].run \in RunsWith(d, "RUNNING")
  <2>1. \A v \in Workers : worker'[v].pc \notin OpenPc
    BY <1>1 DEF Solo, OpenPc, StepPc, PersistPc
  <2>2. worker[w].run \in RunsWith(d, "RUNNING")'
    BY <1>1, <1>4 DEF RunsWith
  <2> QED
    BY <2>1, <2>2 DEF Abandoned
<1> QED
  BY <1>2, <1>3, <1>4

\* What the first attempt stores are the fields of the type it stored.
LEMMA FirstFieldsStored ==
    ASSUME FieldsBase, ReadInv, FirstAttemptInv, [Next]_vars,
           NEW w \in Workers, NEW d \in DOMAIN documents, AgentStores(w, d)
    PROVE  FirstAttemptAt(d)'
<1>1. /\ worker[w].pc = "insert_fields" /\ d = worker[w].document
      /\ Shown(d)' = Overlay(Shown(d), extraction[w].fields)
      /\ UNCHANGED <<documents, classification>> /\ documents[d].status = "CLASSIFIED"
  BY DEF AgentStores, Inserts, From
<1>2. /\ classification[d] = extraction[w].found
      /\ DOMAIN extraction[w].fields = DOMAIN Schema[extraction[w].found.type]
  BY <1>1 DEF ReadInv, ReadOf, ClassifiedPc, ExtractedPc, StoredPc
<1>3. ASSUME NeverFailed(d)' PROVE NamesOf(d)' = DOMAIN Schema[classification'[d].type]
  <2>1. NeverFailed(d)
    BY <1>3, FailuresStay DEF FieldsBase, PipelineInv
  <2>2. BatchesOf(d) = {}
    BY <1>1, <2>1 DEF FirstAttemptInv, UnstoredPc, Untouched
  <2>3. DOMAIN Shown(d) = {}
    BY <2>2 DEF Shown, NamesOf
  <2>4. DOMAIN Shown(d)' = DOMAIN extraction[w].fields
    BY <1>1, <2>3 DEF Overlay
  <2>5. DOMAIN Shown(d)' = NamesOf(d)'
    BY DEF Shown
  <2> QED
    BY <1>1, <1>2, <2>4, <2>5
<1> QED
  BY <1>1, <1>3 DEF FirstAttemptAt

\* Nothing but fail's requeue makes a document UPLOADED again.
LEMMA RequeuedOnly ==
    ASSUME Inv, NEW w \in Workers, RunEffect(w),
           NEW d \in DOMAIN documents, d = worker[w].document, documents'[d].status = "UPLOADED"
    PROVE  documents[d].status = "UPLOADED" \/ worker[w].pc = "fail_requeue"
<1>1. documents[d] \in Document
  BY ElementOfSeq DEF Inv, TypeOK, DatabaseTypeOK
<1>2. CASE UNCHANGED documents
  BY <1>2
<1>3. CASE ~UNCHANGED documents
  BY <1>1, <1>3
  DEF RunEffect, SameRows, WriteMove, At, StatusWritten, DocumentSet, TaskOpened, BatchInserted,
      RunFinished, Document
<1> QED
  BY <1>2, <1>3

\* A run before its fields are stored is the first to touch its document.
LEMMA OwnedIsUntouched ==
    ASSUME Solo, FieldsBase, FirstAttemptInv, NEW w \in Workers,
           worker[w].pc \in {"open_run", "load", "run_ocr", "classify", "mark_classified"}
                                \cup UnstoredPc
    PROVE  worker[w].document \in DOMAIN documents /\ Untouched(worker[w].document)
<1> USE DEF FieldsBase, PipelineInv, OwningPc, OpenPc, StepPc, PersistPc
<1>1. PICK d : d = worker[w].document
  OBVIOUS
<1>2. d \in DOMAIN documents
  BY <1>1 DEF Inv, TypeOK, WorkerRowsExist, RunPc, UnstoredPc
<1>3. CASE worker[w].pc \in UnstoredPc
  BY <1>1, <1>2, <1>3 DEF FirstAttemptInv
<1>4. CASE worker[w].pc \notin UnstoredPc
  <2>1. documents[d].status \in StageAt(worker[w].pc)
    BY <1>1, <1>4 DEF StageInv, Staged, Disturbed
  <2>2. documents[d].status = "UPLOADED"
    BY <1>4, <2>1 DEF StageAt
  <2>3. ~Abandoned(d)
    BY <1>1, <1>2, <1>4, OwnedNotAbandoned
  <2> QED
    BY <1>1, <1>2, <2>2, <2>3 DEF FirstAttemptInv, FirstAttemptAt
<1> QED
  BY <1>3, <1>4

\* The step of its run on a document
LEMMA OwnFirstAttempt ==
    ASSUME Solo, FieldsBase, ViewInv, ReadInv, FirstAttemptInv, SystemStep, [Next]_vars,
           NEW w \in Workers, OwnsStep(w), NEW d \in DOMAIN documents, d = worker[w].document
    PROVE  FirstAttemptAt(d)'
<1>0. /\ Inv /\ RunInv /\ RunEffect(w) /\ FieldMove(w) /\ FirstAttemptAt(d)
      /\ documents[d].status \in Active
  BY OwnedIsActive DEF FieldsBase, PipelineInv, OwnsStep, FirstAttemptInv
<1>1. CASE \E v \in Workers : AgentStores(v, d)
  BY <1>1, FirstFieldsStored
<1>2. CASE ~\E v \in Workers : AgentStores(v, d)
  <2>1. ViewKept(d)
    BY <1>0, <1>2, ViewCases DEF FieldsBase, AgentStores, ReviewerStores, Active
  <2>2. CASE worker[w].pc = "mark_classified"
    <3>1. Untouched(d)
      BY <2>2, OwnedIsUntouched
    <3>2. Untouched(d)'
      BY <1>0, <2>1, <3>1, FailuresStay DEF Untouched, ViewKept
    <3> QED
      BY <3>2 DEF FirstAttemptAt, Untouched
  <2>3. CASE worker[w].pc # "mark_classified"
    <3>1. classification'[d] = classification[d]
      BY <1>0, <2>3 DEF FieldMove, From, FieldsKept
    <3>2. \/ documents'[d].status = "UPLOADED" => documents[d].status = "UPLOADED"
          \/ ~NeverFailed(d)' \/ Abandoned(d)'
      BY <1>0, RequeuedOnly, RequeuedIsUntouched DEF FieldsBase
    <3> QED
      BY <1>0, <2>1, <3>1, <3>2, FirstAttemptKept
  <2> QED
    BY <2>2, <2>3
<1> QED
  BY <1>1, <1>2

\* ... and the step of a reviewer
LEMMA AnsweredFirstAttempt ==
    ASSUME Solo, FieldsBase, ViewInv, FirstAttemptInv, SystemStep, [Next]_vars,
           NEW u \in Reviewers, AnswersStep(u), NEW d \in DOMAIN documents
    PROVE  FirstAttemptAt(d)'
<1>0. Inv /\ RunInv /\ ReviewEffect(u) /\ FirstAttemptAt(d) /\ documents[d] \in Document
  BY ElementOfSeq
     DEF FieldsBase, PipelineInv, AnswersStep, FirstAttemptInv, Inv, TypeOK, DatabaseTypeOK
<1>1. \/ documents'[d] = documents[d]
      \/ StatusWritten(d, "REVIEWED")
  BY <1>0 DEF ReviewEffect, SameRows, BatchInserted, TaskResolved, StatusWritten, DocumentSet
<1>2. documents'[d].status = "UPLOADED" => documents[d].status = "UPLOADED"
  BY <1>0, <1>1 DEF StatusWritten, DocumentSet, Document
<1>3. classification' = classification
  BY DEF AnswersStep
<1>4. CASE ViewKept(d)
  BY <1>0, <1>2, <1>3, <1>4, FirstAttemptKept
<1>5. ASSUME NEW v \in Reviewers, ReviewerStores(v, d) PROVE FirstAttemptAt(d)'
  BY <1>5 DEF ReviewerStores, Corrects, FirstAttemptAt
<1>6. ~\E w \in Workers : AgentStores(w, d)
  <2>1. ASSUME NEW w \in Workers, AgentStores(w, d) PROVE FALSE
    <3>1. worker'[w].pc # worker[w].pc
      BY <2>1 DEF AgentStores, Inserts, From
    <3> QED
      BY <3>1 DEF AnswersStep, workerVars
  <2> QED
    BY <2>1
<1> QED
  BY <1>4, <1>5, <1>6, ViewCases DEF FieldsBase, AgentStores, ReviewerStores

\* Where a run comes from that arrives before its fields are stored
LEMMA UnstoredPcs ==
    ASSUME NEW w \in Workers, RunEffect(w), worker'[w].pc \in UnstoredPc
    PROVE  worker[w].pc \in {"mark_classified", "audit_classified", "extract"}
<1> USE DEF UnstoredPc, At, GoesToOne, Goes, Over
<1>0. Polling.pc = "poll"
  BY DEF Polling
<1>1. CASE ReadMove(w)
  BY <1>0, <1>1 DEF ReadMove
<1>2. CASE ErrorMove(w)
  BY <1>0, <1>2 DEF ErrorMove
<1>3. CASE FailMove(w)
  BY <1>3 DEF FailMove
<1>4. CASE WriteMove(w)
  BY <1>0, <1>4 DEF WriteMove
<1> QED
  BY <1>1, <1>2, <1>3, <1>4 DEF RunEffect

LEMMA FirstAttemptInductive ==
    ASSUME Solo, FieldsBase, ViewInv, ReadInv, FirstAttemptInv, SystemStep
    PROVE  FirstAttemptInv'
<1>0. [Next]_vars /\ Inv /\ RunInv
  BY FieldsNextRefines DEF SystemStep, FieldsBase, PipelineInv
<1>1. ASSUME NEW d \in DOMAIN documents, RowKept(d)
      PROVE  FirstAttemptAt(d)' /\ (Untouched(d) => Untouched(d)')
  <2>1. /\ documents'[d] = documents[d] /\ classification'[d] = classification[d]
        /\ ViewKept(d) /\ FirstAttemptAt(d)
    BY <1>1 DEF RowKept, FirstAttemptInv
  <2> QED
    BY <1>0, <2>1, FirstAttemptKept
<1>2. ASSUME NEW d \in DOMAIN documents' PROVE FirstAttemptAt(d)'
  <2>1. CASE d \notin DOMAIN documents
    BY <2>1, RowsWritten DEF OwnsStep, AnswersStep, NewDocument, FirstAttemptAt, Untouched
  <2>2. CASE d \in DOMAIN documents
    <3>1. ASSUME NEW w \in Workers, OwnsStep(w) PROVE FirstAttemptAt(d)'
      BY <1>0, <1>1, <2>2, <3>1, OwnFirstAttempt DEF OwnsStep
    <3>2. ASSUME NEW u \in Reviewers, AnswersStep(u) PROVE FirstAttemptAt(d)'
      BY <1>0, <2>2, <3>2, AnsweredFirstAttempt
    <3> QED
      BY <1>1, <2>2, <3>1, <3>2, RowsWritten
  <2> QED
    BY <2>1, <2>2
<1>3. ASSUME NEW w \in Workers, NEW d \in DOMAIN documents',
             d = worker'[w].document, worker'[w].pc \in UnstoredPc
      PROVE  Untouched(d)'
  <2>0. worker'[w].pc \in OwningPc
    BY <1>3 DEF UnstoredPc, OwningPc, OpenPc, StepPc, PersistPc
  <2>1. CASE OwnsStep(w)
    <3>1. RunEffect(w) /\ d = worker[w].document
      BY <1>3, <2>0, <2>1, EffectOwns DEF OwnsStep
    <3>2. worker[w].pc \in {"mark_classified", "audit_classified", "extract"}
      BY <1>3, <3>1, UnstoredPcs
    <3>3. d \in DOMAIN documents /\ Untouched(d)
      BY <3>1, <3>2, OwnedIsUntouched DEF UnstoredPc
    <3>4. UNCHANGED extractedFields
      BY <3>1, <3>2, EffectTargets
    <3>5. BatchesOf(d)' = BatchesOf(d)
      BY <3>4 DEF BatchesOf
    <3>6. NeverFailed(d)' => NeverFailed(d)
      BY <1>0, FailuresStay
    <3> QED
      BY <3>3, <3>5, <3>6 DEF Untouched
  <2>2. CASE worker'[w] = worker[w] /\ ~OwnsStep(w)
    <3>1. d = worker[w].document /\ worker[w].pc \in UnstoredPc /\ worker[w].pc \in OwningPc
      BY <1>3, <2>0, <2>2
    <3>2. d \in DOMAIN documents /\ Untouched(d)
      BY <3>1, OwnedIsUntouched
    <3>3. documents[d].status \in Active
      BY <3>1, OwnedIsActive
    <3>4. RowKept(d)
      BY <2>2, <3>2, <3>3, RowCasesOf DEF Solo, Active
    <3> QED
      BY <1>1, <3>2, <3>4
  <2>3. CASE FieldStep(w) /\ Claim(w)
    <3>1. \/ worker'[w] = Polling
          \/ worker'[w].pc = "lock" \/ worker'[w].pc = "open_run" \/ RunOpened(w)
      BY <1>0, <2>3, ClaimMoves
    <3>2. worker'[w].pc \in {"poll", "lock", "open_run", "load"}
      BY <3>1 DEF Polling, RunOpened
    <3> QED
      BY <1>3, <3>2 DEF UnstoredPc
  <2> QED
    BY <2>0, <2>1, <2>2, <2>3, WorkerCases
<1> QED
  BY <1>2, <1>3 DEF FirstAttemptInv

LEMMA FirstAttemptHolds ==
    ASSUME Solo
    PROVE  FieldsSpec => []FirstAttemptInv
<1>1. FieldsInit => FirstAttemptInv
  BY NothingStored DEF FirstAttemptInv, UnstoredPc, Polling
<1>2. FieldsBase /\ ViewInv /\ ReadInv /\ FirstAttemptInv /\ [FieldsNext]_<<vars, fieldVars>>
        => FirstAttemptInv'
  BY FirstAttemptInductive DEF SystemStep
<1> QED
  BY <1>1, <1>2, FieldsBaseHolds, ViewInvHolds, ReadInvHolds, PTL DEF FieldsSpec

\* With one worker and any number of reviewers, whatever statements fail and
\* wherever the worker crashes: where no attempt has failed, a reader gets
\* exactly the fields of the document's type.
THEOREM FirstAttemptShowsItsTypeHolds ==
    ASSUME Solo
    PROVE  FieldsSpec => []FirstAttemptShowsItsType
<1>1. FieldsBase /\ FirstAttemptInv => FirstAttemptShowsItsType
  BY CountsFailures
     DEF FieldsBase, PipelineInv, FirstAttemptInv, FirstAttemptAt, FirstAttemptShowsItsType
<1> QED
  BY <1>1, FieldsBaseHolds, FirstAttemptHolds, PTL

---------------------------------------------------------------------------
(* Confidence *)

\* The gate may let through what was read.
Suffice(found, fields) == TRUE \in ConfidenceGate(found.type, found.confidence, fields)

LEMMA SufficeIsRigid ==
    ASSUME NEW CONSTANT found, NEW CONSTANT fields
    PROVE  Suffice(found, fields)' <=> Suffice(found, fields)
BY DEF Suffice, ConfidenceGate, ConfidenceSum, AtLeast, MapThenSumSet, MapThenFoldSet

\* Before the run that is about to process its document without a human has
\* said so, it has weighed the confidences it read, and they sufficed.
Sufficient(w) ==
    \E found, fields :
        /\ found = extraction[w].found /\ fields = extraction[w].fields
        /\ Suffice(found, fields)

ConfidentInv == \A w \in Workers : worker[w].pc = "finalize" => Sufficient(w)

LEMMA WeighsThere ==
    ASSUME NEW w \in Workers, FieldStep(w), worker[w].pc = "calculate_confidence"
    PROVE  WeighConfidence(w) \/ IterationCapReached(w)
<1> USE DEF At, Step
<1>1. ~(ClassifyText(w) \/ StoreClassification(w) \/ ExtractText(w) \/ StoreFields(w)
          \/ ValidateFields(w))
  BY DEF ClassifyText, StoreClassification, ExtractText, StoreFields, ValidateFields,
         ClassifyDocument, PersistClassification, ExtractFields, PersistFields, ValidateExtraction
<1>2. OtherStep(w) => IterationCapReached(w)
  <2>1. ~Claim(w)
    BY DEF Claim, ClaimSnapshot, ClaimLock, ClaimOpenRun
  <2>2. ~Route(w) /\ ~Failure(w)
    BY DEF Route, OpenReviewTask, PersistPendingReview, FinishRouted, AuditRouted,
           Failure, FinishFailed, CountAttempts, Requeue, AuditRetrying, GiveUp, AuditFailed
  <2> QED
    BY <2>1, <2>2
    DEF OtherStep, LoadDocument, RunOCR, AuditClassified, PersistExtracted, AuditExtracted,
        PersistKey, PersistValidated, AuditValidated, CheckExactDuplicate, CheckNearDuplicate,
        PersistDuplicate, FinalizeDocument, FinishAutoProcessed, AuditAutoProcessed
<1> QED
  BY <1>1, <1>2 DEF FieldStep

LEMMA FinalizeComesFrom ==
    ASSUME NEW w \in Workers, RunEffect(w), worker'[w].pc = "finalize"
    PROVE  worker[w].pc = "calculate_confidence"
<1> USE DEF At, GoesToOne, Goes, Over
<1>0. Polling.pc = "poll"
  BY DEF Polling
<1>1. CASE ReadMove(w)
  BY <1>0, <1>1 DEF ReadMove
<1>2. CASE ErrorMove(w)
  BY <1>0, <1>2 DEF ErrorMove
<1>3. CASE FailMove(w)
  BY <1>3 DEF FailMove
<1>4. CASE WriteMove(w)
  BY <1>0, <1>4 DEF WriteMove
<1> QED
  BY <1>1, <1>2, <1>3, <1>4 DEF RunEffect

LEMMA WeighedIsSufficient ==
    ASSUME Inv, NEW w \in Workers, FieldStep(w), RunEffect(w), worker'[w].pc = "finalize"
    PROVE  Sufficient(w) /\ UNCHANGED extraction
<1>1. worker[w].pc = "calculate_confidence"
  BY FinalizeComesFrom
<1>2. ~IterationCapReached(w)
  BY FailGoes DEF IterationCapReached, Goes, Inv, TypeOK, WorkerTypeOK
<1>3. WeighConfidence(w)
  BY <1>1, <1>2, WeighsThere
<1>4. ~Failing(w)
  BY DEF Failing
<1>5. (worker'[w].pc = "finalize")
         \in ConfidenceGate(extraction[w].found.type, extraction[w].found.confidence,
                            extraction[w].fields)
  BY <1>3, <1>4 DEF WeighConfidence
<1>6. (worker'[w].pc = "finalize") = TRUE
  OBVIOUS
<1>7. Sufficient(w)
  BY <1>5, <1>6 DEF Sufficient, Suffice
<1> QED
  BY <1>3, <1>7 DEF WeighConfidence, fieldVars

LEMMA ConfidentInductive ==
    ASSUME Solo, FieldsBase, ViewInv, ConfidentInv, SystemStep
    PROVE  ConfidentInv'
<1> SUFFICES ASSUME NEW w \in Workers, worker'[w].pc = "finalize"
             PROVE  Sufficient(w)'
  BY DEF ConfidentInv
<1>1. CASE OwnsStep(w)
  <2>1. Sufficient(w) /\ UNCHANGED extraction
    BY <1>1, WeighedIsSufficient DEF OwnsStep, FieldsBase, PipelineInv
  <2> QED
    BY <2>1, SufficeIsRigid DEF Sufficient
<1>2. CASE worker'[w] = worker[w] /\ extraction'[w] = extraction[w]
  <2>1. Sufficient(w)
    BY <1>2 DEF ConfidentInv
  <2> QED
    BY <1>2, <2>1, SufficeIsRigid DEF Sufficient
<1>3. CASE FieldStep(w) /\ Claim(w)
  <2>1. \/ worker'[w] = Polling
        \/ worker'[w].pc = "lock" \/ worker'[w].pc = "open_run" \/ RunOpened(w)
    BY <1>3, ClaimMoves DEF FieldsBase, PipelineInv
  <2> QED
    BY <2>1 DEF Polling, RunOpened
<1>4. worker'[w].pc \in OwningPc
  BY DEF OwningPc, OpenPc, StepPc
<1> QED
  BY <1>1, <1>2, <1>3, <1>4, WorkerCases

LEMMA ConfidentInvHolds ==
    ASSUME Solo
    PROVE  FieldsSpec => []ConfidentInv
<1>1. FieldsInit => ConfidentInv
  BY DEF FieldsInit, Init, WorkerInit, ConfidentInv, Polling
<1>2. FieldsBase /\ ViewInv /\ ConfidentInv /\ [FieldsNext]_<<vars, fieldVars>> => ConfidentInv'
  BY ConfidentInductive DEF SystemStep
<1> QED
  BY <1>1, <1>2, FieldsBaseHolds, ViewInvHolds, PTL DEF FieldsSpec

\* The fields of the document's type, as readers get them
ShownOfType(d) == [name \in DOMAIN Schema[classification[d].type] |-> Shown(d)[name]]

ProcessedIsConfident(d) ==
    documents[d].status = "AUTO_PROCESSED" =>
        \E found, fields :
            /\ found = classification[d] /\ fields = ShownOfType(d)
            /\ Suffice(found, fields)

LEMMA ConfidentOneByOne ==
    AutoProcessedIsConfident <=> \A d \in DOMAIN documents : ProcessedIsConfident(d)
<1>1. \A d : DOMAIN ShownOfType(d) = DOMAIN Schema[classification[d].type]
  BY DEF ShownOfType
<1> QED
  BY <1>1 DEF AutoProcessedIsConfident, ProcessedIsConfident, Suffice, ConfidenceGate, ShownOfType

LEMMA ConfidentNext ==
    ASSUME NEW d, classification'[d] = classification[d], Shown(d)' = Shown(d)
    PROVE  /\ documents'[d].status = documents[d].status =>
                 (ProcessedIsConfident(d) => ProcessedIsConfident(d)')
           /\ Suffice(classification[d], ShownOfType(d)) => ProcessedIsConfident(d)'
<1>1. ShownOfType(d)' = ShownOfType(d)
  BY DEF ShownOfType
<1> QED
  BY <1>1, SufficeIsRigid DEF ProcessedIsConfident

LEMMA FinalizedIsConfident ==
    ASSUME FieldsBase, ReadInv, ConfidentInv, NEW w \in Workers, OwnsStep(w),
           NEW d \in DOMAIN documents, d = worker[w].document,
           worker[w].pc = "finalize", worker'[w].pc = "finish_auto"
    PROVE  ProcessedIsConfident(d)'
<1>1. PICK fields : fields = extraction[w].fields
  OBVIOUS
<1>2. /\ classification[d] = extraction[w].found
      /\ DOMAIN fields = DOMAIN Schema[classification[d].type] /\ Shows(d, fields)
  BY <1>1 DEF ReadInv, ReadOf, ClassifiedPc, ExtractedPc, StoredPc, CheckedPc
<1>3. fields = [name \in DOMAIN fields |-> fields[name]]
  BY <1>1 DEF FieldsBase, FieldsOK, ReadingsMatch, IsFields
<1>4. ShownOfType(d) = fields
  BY <1>2, <1>3 DEF ShownOfType, Shows
<1>5. Suffice(classification[d], ShownOfType(d))
  BY <1>1, <1>2, <1>4 DEF ConfidentInv, Sufficient
<1>6. FieldsKept
  BY DEF OwnsStep, FieldMove, From
<1>7. classification'[d] = classification[d] /\ Shown(d)' = Shown(d)
  BY <1>6, QuietViews DEF FieldsKept, ViewKept, FieldsBase, PipelineInv
<1> QED
  BY <1>5, <1>7, ConfidentNext

LEMMA ConfidentKept ==
    ASSUME Solo, FieldsBase, ViewInv, ReadInv, ConfidentInv, SystemStep, AutoProcessedIsConfident
    PROVE  AutoProcessedIsConfident'
<1> SUFFICES ASSUME NEW d \in DOMAIN documents', documents'[d].status = "AUTO_PROCESSED"
             PROVE  ProcessedIsConfident(d)'
  <2>1. (\A d \in DOMAIN documents : ProcessedIsConfident(d))' => AutoProcessedIsConfident'
    BY ConfidentOneByOne, PTL
  <2> QED
    BY <2>1 DEF ProcessedIsConfident
<1>1. d \in DOMAIN documents
  BY RowsWritten DEF OwnsStep, AnswersStep, NewDocument
<1>2. ProcessedIsConfident(d)
  BY <1>1, ConfidentOneByOne
<1>3. documents[d].status \notin {"PENDING_REVIEW", "REVIEWED"}
  <2>1. [Next]_vars
    BY FieldsNextRefines DEF SystemStep
  <2>2. SettledFor(d)
    BY <1>1, <2>1, SettledKept DEF FieldsBase, Disturbed
  <2> QED
    BY <2>2 DEF SettledFor, Settled
<1>4. CASE RowKept(d)
  <2>1. /\ documents'[d].status = documents[d].status
        /\ classification'[d] = classification[d] /\ Shown(d)' = Shown(d)
    BY <1>4 DEF RowKept, ViewKept
  <2> QED
    BY <1>2, <2>1, ConfidentNext
<1>5. ASSUME NEW w \in Workers, OwnsStep(w), d = worker[w].document
      PROVE  ProcessedIsConfident(d)'
  <2>1. documents[d].status # "AUTO_PROCESSED"
    BY <1>5, OwnedIsActive DEF OwnsStep, Active
  <2>2. worker[w].pc = "finalize" /\ worker'[w].pc = "finish_auto"
    BY <1>1, <1>5, <2>1, FinalizedOnly DEF OwnsStep, FieldsBase, PipelineInv
  <2> QED
    BY <1>1, <1>5, <2>2, FinalizedIsConfident
<1> QED
  BY <1>1, <1>3, <1>4, <1>5, RowCasesOf

\* With one worker, of every document that was processed without a human the
\* confidences a reader gets average the threshold of its type: what was
\* weighed is what was stored, the classification counted as one of them.
THEOREM AutoProcessedIsConfidentHolds ==
    ASSUME Solo
    PROVE  FieldsSpec => []AutoProcessedIsConfident
<1>1. FieldsInit => AutoProcessedIsConfident
  BY NothingStored DEF AutoProcessedIsConfident
<1>2. /\ FieldsBase /\ ViewInv /\ ReadInv /\ ConfidentInv /\ AutoProcessedIsConfident
      /\ [FieldsNext]_<<vars, fieldVars>>
      => AutoProcessedIsConfident'
  BY ConfidentKept DEF SystemStep
<1> QED
  BY <1>1, <1>2, FieldsBaseHolds, ViewInvHolds, ReadInvHolds, ConfidentInvHolds, PTL
     DEF FieldsSpec
=============================================================================
