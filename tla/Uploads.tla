------------------------------ MODULE Uploads ------------------------------
(***************************************************************************)
(* POST /documents: the request of a client is parsed, checked, stored as  *)
(* a file and then as a row of documents; the workers of the other modules *)
(* pick rows up, open their files and compare their content hashes.        *)
(*                                                                         *)
(* An INSERT takes time: created_at is the time its transaction began, and *)
(* the row is visible when it has committed.  Database, where rows commit  *)
(* in the order of created_at, leaves that out; here it is what matters.   *)
(* Of the pipeline only the steps that touch an upload are kept.           *)
(***************************************************************************)
EXTENDS Naturals, Sequences, FiniteSets

CONSTANTS
    Clients,           \* each has one request open at a time
    Workers,
    Files, NoFile,     \* what clients send: [content, declared, sniffed, size]
    AllowedMimeTypes,  \* allowedMimeTypes
    MaxUploadSize,     \* MAX_UPLOAD_BYTES
    BodySlack,         \* the 1<<20 by which a body may be longer
    FormOverhead,      \* what the multipart form adds to the file
    MaxDocuments,      \* bound: how many files are created
    MaxFaults          \* bound: how often disk, database or connection fail

ASSUME UploadsAssumption ==
    /\ MaxUploadSize \in Nat /\ BodySlack \in Nat /\ FormOverhead \in Nat
    /\ MaxDocuments \in Nat /\ MaxFaults \in Nat
    /\ \A file \in Files : file.size \in Nat
    /\ NoFile \notin Files

VARIABLES
    upload,            \* the request of each client, with the handler's locals
    disk,              \* the files under STORAGE_ROOT; a document's id is an index
    rows,              \* the rows of documents, in the order they became visible
    clock,             \* now(): counts the begins and commits of INSERTs
    worker,
    faults

uploadVars == <<upload, disk, rows, clock, worker, faults>>

Contents == {file.content : file \in Files}

HandlerPc == {"parse", "validate", "create", "copy", "insert", "commit"}

\* answer: the HTTP status, 0 when the connection ended without one
Request == [pc : HandlerPc \cup {"idle", "answered"}, file : Files \cup {NoFile},
            id : Nat, createdAt : Nat, answer : {0, 201, 400, 413, 500}]

Idle == [pc |-> "idle", file |-> NoFile, id |-> 0, createdAt |-> 0, answer |-> 0]

\* A file whose copy has not ended holds some of its bytes.
StoredFile == [content : Contents, bytes : {"some", "all"}]

Row == [id : Nat, content : Contents, mime : AllowedMimeTypes, size : Nat,
        createdAt : Nat, committed : Nat,
        status : {"UPLOADED", "PENDING_REVIEW", "AUTO_PROCESSED", "FAILED"}]

Polling == [pc |-> "poll", row |-> 0]

UploadsInit ==
    /\ upload = [c \in Clients |-> Idle]
    /\ disk = << >>
    /\ rows = << >>
    /\ clock = 0
    /\ worker = [w \in Workers |-> Polling]
    /\ faults = 0

---------------------------------------------------------------------------
(* Upload *)

At(c, pc) == upload[c].pc = pc

File(c) == upload[c].file

Goto(c, pc) == upload' = [upload EXCEPT ![c] = [@ EXCEPT !.pc = pc]]

Answer(c, code) ==
    upload' = [upload EXCEPT ![c] = [@ EXCEPT !.pc = "answered", !.answer = code]]

NoFault == UNCHANGED faults

Fault == faults < MaxFaults /\ faults' = faults + 1

\* The bound: every open request may come to create a file.
MayCreate ==
    Len(disk) + Cardinality({c \in Clients : upload[c].pc \in {"parse", "validate", "create"}})
        < MaxDocuments

SendFile(c, file) ==
    /\ At(c, "idle") /\ MayCreate
    /\ upload' = [upload EXCEPT ![c] = [Idle EXCEPT !.pc = "parse", !.file = file]]
    /\ UNCHANGED <<disk, rows, clock, worker, faults>>

BodyFits(file) == file.size + FormOverhead <= MaxUploadSize + BodySlack

\* Mutant of ParseForm: no http.MaxBytesReader.
ParseFormUncapped(c) ==
    /\ At(c, "parse")
    /\ \/ Goto(c, "validate") /\ NoFault
       \/ Answer(c, 400) /\ Fault
    /\ UNCHANGED <<disk, rows, clock, worker>>

\* The body is longer than MaxBytesReader allows, or no form that can be
\* parsed, or has no field "file"; or it is read to its end.
ParseForm(c) ==
    /\ At(c, "parse")
    /\ \/ BodyFits(File(c)) /\ Goto(c, "validate") /\ NoFault
       \/ ~BodyFits(File(c)) /\ Answer(c, 400) /\ NoFault
       \/ Answer(c, 400) /\ Fault
    /\ UNCHANGED <<disk, rows, clock, worker>>

DetectMimeType(file) ==
    IF file.declared \in {"", "application/octet-stream"} THEN file.sniffed
    ELSE file.declared

ValidateFile(c) ==
    /\ At(c, "validate")
    /\ IF DetectMimeType(File(c)) \notin AllowedMimeTypes THEN Answer(c, 400)
       ELSE IF File(c).size > MaxUploadSize THEN Answer(c, 413)
       ELSE Goto(c, "create")
    /\ UNCHANGED <<disk, rows, clock, worker, faults>>

\* The id of the document is that of the file os.Create made.
CreateFile(c) ==
    /\ At(c, "create")
    /\ \/ /\ disk' = Append(disk, [content |-> File(c).content, bytes |-> "some"])
          /\ upload' = [upload EXCEPT ![c] =
                           [@ EXCEPT !.pc = "copy", !.id = Len(disk) + 1]]
          /\ NoFault
       \/ Answer(c, 500) /\ Fault /\ UNCHANGED disk
    /\ UNCHANGED <<rows, clock, worker>>

Copied(c) == disk' = [disk EXCEPT ![upload[c].id] = [@ EXCEPT !.bytes = "all"]]

\* Mutant of CopyFile: the error of io.Copy is not looked at.
CopyFileUnchecked(c) ==
    /\ At(c, "copy")
    /\ \/ Copied(c) /\ Goto(c, "insert") /\ NoFault
       \/ Goto(c, "insert") /\ Fault /\ UNCHANGED disk
    /\ UNCHANGED <<rows, clock, worker>>

\* When io.Copy fails, what it has written stays.
CopyFile(c) ==
    /\ At(c, "copy")
    /\ \/ Copied(c) /\ Goto(c, "insert") /\ NoFault
       \/ Answer(c, 500) /\ Fault /\ UNCHANGED disk
    /\ UNCHANGED <<rows, clock, worker>>

\* created_at is the now() of the transaction.
BeginInsert(c) ==
    /\ At(c, "insert")
    /\ \/ /\ clock' = clock + 1
          /\ upload' = [upload EXCEPT ![c] =
                           [@ EXCEPT !.pc = "commit", !.createdAt = clock + 1]]
          /\ NoFault
       \/ Answer(c, 500) /\ Fault /\ UNCHANGED clock
    /\ UNCHANGED <<disk, rows, worker>>

Committed(c) ==
    /\ clock' = clock + 1
    /\ rows' = Append(rows,
          [id |-> upload[c].id, content |-> File(c).content, size |-> File(c).size,
           mime |-> DetectMimeType(File(c)), createdAt |-> upload[c].createdAt,
           committed |-> clock + 1, status |-> "UPLOADED"])

\* An INSERT that fails for the handler may have committed all the same.
CommitInsert(c) ==
    /\ At(c, "commit")
    /\ \/ Committed(c) /\ Answer(c, 201) /\ NoFault
       \/ (Committed(c) \/ UNCHANGED <<rows, clock>>) /\ Answer(c, 500) /\ Fault
    /\ UNCHANGED <<disk, worker>>

\* The process or the connection ends wherever the handler is; the client
\* gets an error that is no answer.
CutOff(c) ==
    /\ upload[c].pc \in HandlerPc
    /\ Fault
    /\ Answer(c, 0)
    /\ \/ UNCHANGED <<rows, clock>>
       \/ At(c, "commit") /\ Committed(c)
    /\ UNCHANGED <<disk, worker>>

TakeAnswer(c) ==
    /\ At(c, "answered")
    /\ upload' = [upload EXCEPT ![c] = Idle]
    /\ UNCHANGED <<disk, rows, clock, worker, faults>>

HandlerStep(c) ==
    \/ ParseForm(c) \/ ValidateFile(c) \/ CreateFile(c) \/ CopyFile(c)
    \/ BeginInsert(c) \/ CommitInsert(c)

---------------------------------------------------------------------------
(* The workers *)

WorkerGoto(w, pc) == worker' = [worker EXCEPT ![w] = [@ EXCEPT !.pc = pc]]

Settle(w, status) ==
    /\ rows' = [rows EXCEPT ![worker[w].row] = [@ EXCEPT !.status = status]]
    /\ worker' = [worker EXCEPT ![w] = Polling]

OnlyWorker == UNCHANGED <<upload, disk, clock, faults>>

EarliestCreated(S) == {r \in S : \A s \in S : rows[r].createdAt <= rows[s].createdAt}

Claimable ==
    {r \in DOMAIN rows : rows[r].status = "UPLOADED" /\ \A w \in Workers : worker[w].row # r}

ClaimNextUploaded(w) ==
    /\ worker[w].pc = "poll"
    /\ \E r \in EarliestCreated(Claimable) :
          worker' = [worker EXCEPT ![w] = [pc |-> "open", row |-> r]]
    /\ UNCHANGED rows /\ OnlyWorker

\* RunOCR reads the file the row names and accepts the types uploads have.
OpenFile(w) ==
    /\ worker[w].pc = "open"
    /\ LET row == rows[worker[w].row]
       IN  row.id \in DOMAIN disk /\ row.mime \in AllowedMimeTypes
    /\ WorkerGoto(w, "check")
    /\ UNCHANGED rows /\ OnlyWorker

WithContentHash(content) == {r \in DOMAIN rows : rows[r].content = content}

\* Mutant of FindByContentHash: the last row to become visible.
FindByContentHashLast(content) ==
    {r \in WithContentHash(content) : \A s \in WithContentHash(content) : s <= r}

FindByContentHash(content) == EarliestCreated(WithContentHash(content))

CheckExactDuplicate(w) ==
    /\ worker[w].pc = "check"
    /\ \E earliest \in FindByContentHash(rows[worker[w].row].content) :
          IF earliest = worker[w].row
          THEN WorkerGoto(w, "finalize") /\ UNCHANGED rows
          ELSE Settle(w, "PENDING_REVIEW")
    /\ OnlyWorker

FinalizeDocument(w) ==
    /\ worker[w].pc = "finalize"
    /\ \E status \in {"AUTO_PROCESSED", "PENDING_REVIEW"} : Settle(w, status)
    /\ OnlyWorker

\* Any other step fails: the document is queued again, or given up.
FailRun(w) ==
    /\ worker[w].pc # "poll"
    /\ \E status \in {"UPLOADED", "FAILED"} : Settle(w, status)
    /\ OnlyWorker

WorkerStep(w) ==
    \/ ClaimNextUploaded(w) \/ OpenFile(w) \/ CheckExactDuplicate(w)
    \/ FinalizeDocument(w) \/ FailRun(w)

UploadsNext ==
    \/ \E c \in Clients :
          \/ \E file \in Files : SendFile(c, file)
          \/ HandlerStep(c) \/ CutOff(c) \/ TakeAnswer(c)
    \/ \E w \in Workers : WorkerStep(w)

UploadsSpec == UploadsInit /\ [][UploadsNext]_uploadVars

---------------------------------------------------------------------------
(* Properties *)

\* No request holds more than the limit on the body lets it (NFR-6), ids
\* and times are those given out, and no file has two rows.
UploadsTypeOK ==
    /\ upload \in [Clients -> Request]
    /\ \A c \in Clients :
          /\ upload[c].pc \in HandlerPc \ {"parse"} => BodyFits(File(c))
          /\ upload[c].id <= Len(disk) /\ upload[c].createdAt <= clock
    /\ disk \in Seq(StoredFile)
    /\ rows \in Seq(Row)
    /\ \A r, s \in DOMAIN rows : rows[r].id = rows[s].id => r = s
    /\ worker \in [Workers -> [pc : {"poll", "open", "check", "finalize"}, row : 0..Len(rows)]]

\* A row is written when its file is complete: what a worker opens is what
\* the content hash and the size of the row are of, and neither the size
\* nor the type is one the upload refuses.
DocumentHasItsFile ==
    \A r \in DOMAIN rows :
        /\ rows[r].id \in DOMAIN disk
        /\ disk[rows[r].id] = [content |-> rows[r].content, bytes |-> "all"]
        /\ rows[r].size <= MaxUploadSize
        /\ rows[r].mime \in AllowedMimeTypes

\* A document that is answered 201 can be read at once.
AcknowledgedIsStored ==
    \A c \in Clients :
        At(c, "answered") /\ upload[c].answer = 201
            => \E r \in DOMAIN rows : rows[r].id = upload[c].id

Overlapped(r, s) ==
    rows[r].createdAt < rows[s].committed /\ rows[s].createdAt < rows[r].committed

\* The same bytes are processed without a human once, except when the
\* INSERTs of two uploads overlapped: then the row with the earlier
\* created_at may become visible after the other was checked.
SameBytesProcessedOnce ==
    \A r, s \in DOMAIN rows :
        /\ r # s
        /\ rows[r].content = rows[s].content
        /\ rows[r].status = "AUTO_PROCESSED"
        /\ rows[s].status = "AUTO_PROCESSED"
        => Overlapped(r, s)
=============================================================================
