---------------------------- MODULE UploadPage ----------------------------
(***************************************************************************)
(* The upload page of web/app/page.tsx, one per client: it uploads a file, *)
(* reads the document once, and again whenever the user asks for it.  The  *)
(* answers of its reads arrive in any order.                               *)
(***************************************************************************)
EXTENDS Uploads

CONSTANT MaxGets       \* bound: reads a page has in flight

ASSUME UploadPageAssumption == MaxGets \in Nat

VARIABLES
    page,              \* what each page shows, and its busy flag
    gets               \* its GET /documents/{id} in flight

pageVars == <<page, gets>>

\* status is "asked" until the API has read the row.
Get(id, status, from) == [document |-> id, status |-> status, from |-> from]

PageInit ==
    /\ UploadsInit
    /\ page = [c \in Clients |-> [document |-> 0, status |-> "none", busy |-> FALSE]]
    /\ gets = [c \in Clients |-> {}]

SetBusy(c, busy) == page' = [page EXCEPT ![c] = [@ EXCEPT !.busy = busy]]

\* Mutant of SubmitUpload: the button is not disabled.
SubmitUploadTwice(c) ==
    /\ \E file \in Files : SendFile(c, file)
    /\ SetBusy(c, TRUE)
    /\ UNCHANGED gets

SubmitUpload(c) ==
    /\ ~page[c].busy
    /\ \E file \in Files : SendFile(c, file)
    /\ SetBusy(c, TRUE)
    /\ UNCHANGED gets

\* The document is read next; any other answer is shown as an error.
ReceiveAnswer(c) ==
    /\ TakeAnswer(c)
    /\ IF upload[c].answer = 201
       THEN /\ gets' = [gets EXCEPT ![c] = @ \cup {Get(upload[c].id, "asked", "upload")}]
            /\ UNCHANGED page
       ELSE SetBusy(c, FALSE) /\ UNCHANGED gets

ClickRefresh(c) ==
    /\ page[c].document # 0 /\ Cardinality(gets[c]) < MaxGets
    /\ gets' = [gets EXCEPT ![c] = @ \cup {Get(page[c].document, "asked", "refresh")}]
    /\ UNCHANGED <<uploadVars, page>>

Origin == {"upload", "refresh"}

\* GET /documents/{id} reads the row.
AnswerGet(c, from) ==
    /\ \E get \in gets[c], r \in DOMAIN rows :
          /\ get.from = from /\ get.status = "asked" /\ rows[r].id = get.document
          /\ gets' = [gets EXCEPT ![c] =
                         (@ \ {get}) \cup {Get(get.document, rows[r].status, from)}]
    /\ UNCHANGED <<uploadVars, page>>

\* setDocument
ShowDocument(c, from) ==
    /\ \E get \in gets[c] :
          /\ get.from = from /\ get.status # "asked"
          /\ gets' = [gets EXCEPT ![c] = @ \ {get}]
          /\ page' = [page EXCEPT ![c] =
                         [document |-> get.document, status |-> get.status,
                          busy |-> @.busy /\ from # "upload"]]
    /\ UNCHANGED uploadVars

\* Mutant of ShowGetFailed: setBusy(false) follows setDocument.
ShowGetFailedBusy(c) ==
    /\ \E get \in gets[c] : gets' = [gets EXCEPT ![c] = @ \ {get}]
    /\ Fault
    /\ UNCHANGED <<upload, disk, rows, clock, worker, page>>

\* setError, and finally setBusy(false): the document stays stored.
ShowGetFailed(c) ==
    /\ \E get \in gets[c] :
          /\ gets' = [gets EXCEPT ![c] = @ \ {get}]
          /\ SetBusy(c, page[c].busy /\ get.from # "upload")
    /\ Fault
    /\ UNCHANGED <<upload, disk, rows, clock, worker>>

PageNext ==
    \/ \E c \in Clients :
          \/ SubmitUpload(c) \/ ReceiveAnswer(c) \/ ClickRefresh(c)
          \/ \E from \in Origin : AnswerGet(c, from) \/ ShowDocument(c, from)
          \/ ShowGetFailed(c)
          \/ (HandlerStep(c) \/ CutOff(c)) /\ UNCHANGED pageVars
    \/ \E w \in Workers : WorkerStep(w) /\ UNCHANGED pageVars

allVars == <<uploadVars, pageVars>>

PageSpec == PageInit /\ [][PageNext]_allVars

\* The API goes on with a request it has, and a browser with an answer it
\* has got; users and workers need not do anything.
PageFairSpec ==
    /\ PageSpec
    /\ \A c \in Clients :
          /\ WF_allVars(HandlerStep(c) /\ UNCHANGED pageVars)
          /\ WF_allVars(ReceiveAnswer(c))
          /\ WF_allVars(AnswerGet(c, "upload"))
          /\ WF_allVars(ShowDocument(c, "upload"))

---------------------------------------------------------------------------
(* Properties *)

\* A page goes back to a document it uploaded earlier only where a refresh
\* of that one is answered late (page.tsx:30 sets whatever it gets).
PageMovesForward ==
    [][\A c \in Clients :
          LET before == page[c].document
              after == page'[c].document
          IN  after # before =>
                 \/ after > before
                 \/ \E get \in gets[c] : get.document = after /\ get.from = "refresh"]_page

\* Whatever fails, the upload button can be used again.
UploadButtonComesBack == \A c \in Clients : page[c].busy ~> ~page[c].busy
=============================================================================
