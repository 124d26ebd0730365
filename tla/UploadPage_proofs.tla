-------------------------- MODULE UploadPage_proofs --------------------------
(***************************************************************************)
(* Theorems about uploads, for any number of clients, workers, files,      *)
(* faults and reads in flight.  First Uploads: a row has its complete      *)
(* file, a 201 its row, and the same bytes are processed twice only where  *)
(* the INSERTs of two uploads overlapped.  Then UploadPage: what is proved *)
(* of Uploads holds with the page too, and a page goes back to an earlier  *)
(* document only where a refresh is answered late.                         *)
(***************************************************************************)
EXTENDS UploadPage, SequenceTheorems, TLAPS

---------------------------------------------------------------------------
(* Uploads *)

\* Where a request has a file on the disk that no row names yet
HasFile == {"copy", "insert", "commit"}

\* What a handler knows of its request at each statement
RequestInv(req) ==
    /\ req.pc # "idle" => req.file \in Files
    /\ req.pc \in HandlerPc \ {"parse"} => BodyFits(req.file)
    /\ req.pc \in {"create"} \cup HasFile =>
          /\ DetectMimeType(req.file) \in AllowedMimeTypes
          /\ req.file.size <= MaxUploadSize
    /\ req.id <= Len(disk) /\ req.createdAt <= clock
    /\ req.pc \in HasFile =>
          /\ req.id \in 1..Len(disk)
          /\ disk[req.id].content = req.file.content
          /\ \A r \in 1..Len(rows) : rows[r].id # req.id
    /\ req.pc \in {"insert", "commit"} => disk[req.id].bytes = "all"
    /\ req.pc = "answered" /\ req.answer = 201
          => \E r \in 1..Len(rows) : rows[r].id = req.id

RowInv(row) ==
    /\ row.id \in 1..Len(disk)
    /\ disk[row.id].content = row.content
    /\ disk[row.id].bytes = "all"
    /\ row.size <= MaxUploadSize
    /\ row.createdAt < row.committed
    /\ row.committed <= clock

\* The check for an exact duplicate has let row r pass.
Passed(r) ==
    \/ rows[r].status = "AUTO_PROCESSED"
    \/ \E w \in Workers : worker[w].pc = "finalize" /\ worker[w].row = r

\* Rows with the same bytes that were created before row r were not visible
\* when it was: the check of r sees every row that was.
EarlierUnseen(r) ==
    \A s \in 1..Len(rows) :
        rows[s].content = rows[r].content /\ rows[s].createdAt < rows[r].createdAt
            => rows[r].committed < rows[s].committed

WorkerPlace == [pc : {"poll", "open", "check", "finalize"}, row : Nat]

UploadsInv ==
    /\ upload \in [Clients -> Request]
    /\ disk \in Seq(StoredFile)
    /\ rows \in Seq(Row)
    /\ clock \in Nat
    /\ worker \in [Workers -> WorkerPlace]
    /\ \A w \in Workers :
          /\ worker[w].row <= Len(rows)
          /\ worker[w].pc # "poll" => worker[w].row \in 1..Len(rows)
    /\ \A c \in Clients : RequestInv(upload[c])
    /\ \A c, d \in Clients :
          upload[c].pc \in HasFile /\ upload[d].pc \in HasFile /\ upload[c].id = upload[d].id
             => c = d
    /\ \A r \in 1..Len(rows) : RowInv(rows[r])
    /\ \A r, s \in 1..Len(rows) : rows[r].id = rows[s].id => r = s
    /\ \A r \in 1..Len(rows) : Passed(r) => EarlierUnseen(r)

LEMMA UploadsInitially == UploadsInit => UploadsInv
<1> SUFFICES ASSUME UploadsInit PROVE UploadsInv
  OBVIOUS
<1>1. Idle \in Request /\ Polling \in WorkerPlace
  BY DEF Idle, Request, Polling, WorkerPlace
<1>2. disk \in Seq(StoredFile) /\ rows \in Seq(Row) /\ Len(rows) = 0 /\ Len(disk) = 0
  BY DEF UploadsInit
<1>3. \A c \in Clients : RequestInv(upload[c]) /\ upload[c].pc = "idle"
  BY <1>2 DEF UploadsInit, RequestInv, Idle, HandlerPc, HasFile
<1> QED
  BY <1>1, <1>2, <1>3 DEF UploadsInit, UploadsInv, Polling, HasFile

---------------------------------------------------------------------------
(* Steps of a handler *)

\* The status codes of an answer; 0 is an answer that got lost.
Codes == {0, 201, 400, 413, 500}

\* What one update of a request leaves
LEMMA RequestAt ==
    ASSUME NEW req \in Request, NEW pc \in HandlerPc \cup {"idle", "answered"}, NEW new,
           new = [req EXCEPT !.pc = pc]
    PROVE  /\ new \in Request
           /\ new.pc = pc /\ new.answer = req.answer /\ new.id = req.id
           /\ new.file = req.file /\ new.createdAt = req.createdAt
<1>1. new \in Request
  BY DEF Request
<1> QED
  BY <1>1 DEF Request

LEMMA RequestNamed ==
    ASSUME NEW req \in Request, NEW id \in Nat, NEW new, new = [req EXCEPT !.id = id]
    PROVE  /\ new \in Request
           /\ new.id = id /\ new.pc = req.pc
           /\ new.file = req.file /\ new.createdAt = req.createdAt
<1>1. new \in Request
  BY DEF Request
<1> QED
  BY <1>1 DEF Request

LEMMA RequestWithAnswer ==
    ASSUME NEW req \in Request, NEW code \in Codes, NEW new,
           new = [req EXCEPT !.answer = code]
    PROVE  /\ new \in Request
           /\ new.answer = code /\ new.id = req.id /\ new.pc = req.pc
           /\ new.file = req.file /\ new.createdAt = req.createdAt
<1>1. new \in Request
  BY DEF Request, Codes
<1> QED
  BY <1>1 DEF Request

LEMMA RequestStamped ==
    ASSUME NEW req \in Request, NEW now \in Nat, NEW new, new = [req EXCEPT !.createdAt = now]
    PROVE  /\ new \in Request
           /\ new.createdAt = now /\ new.id = req.id /\ new.pc = req.pc
           /\ new.file = req.file
<1>1. new \in Request
  BY DEF Request
<1> QED
  BY <1>1 DEF Request

LEMMA RequestWithFile ==
    ASSUME NEW req \in Request, NEW file \in Files, NEW new, new = [req EXCEPT !.file = file]
    PROVE  /\ new \in Request
           /\ new.file = file /\ new.id = req.id /\ new.pc = req.pc
           /\ new.createdAt = req.createdAt
<1>1. new \in Request
  BY DEF Request
<1> QED
  BY <1>1 DEF Request

\* What a request knows stays true when files and rows are added and files
\* become complete.
LEMMA RequestKept ==
    ASSUME NEW req \in Request, RequestInv(req),
           Len(disk) \in Nat, Len(disk') \in Nat, Len(disk) <= Len(disk'),
           Len(rows) \in Nat, Len(rows') \in Nat, Len(rows) <= Len(rows'),
           clock \in Nat, clock' \in Nat, clock <= clock',
           req.pc \in HasFile => disk'[req.id].content = disk[req.id].content,
           req.pc \in {"insert", "commit"} => disk'[req.id].bytes = disk[req.id].bytes,
           req.pc \in HasFile => \A r \in 1..Len(rows') : rows'[r].id # req.id,
           \A r \in 1..Len(rows) : rows'[r].id = rows[r].id
    PROVE  RequestInv(req)'
<1>1. req.id \in Nat /\ req.createdAt \in Nat
  BY DEF Request
<1>2. req.id <= Len(disk') /\ req.createdAt <= clock'
  BY <1>1 DEF RequestInv
<1>3. req.pc \in HasFile => req.id \in 1..Len(disk')
  BY <1>1, <1>2 DEF RequestInv
<1>4. req.pc = "answered" /\ req.answer = 201
        => \E r \in 1..Len(rows') : rows'[r].id = req.id
  BY DEF RequestInv
<1> QED
  BY <1>2, <1>3, <1>4 DEF RequestInv, HasFile

\* A step that touches neither the files nor the rows
LEMMA RequestMoves ==
    ASSUME UploadsInv, NEW c \in Clients, NEW req \in Request,
           upload' = [upload EXCEPT ![c] = req],
           clock' \in Nat, clock <= clock',
           UNCHANGED <<disk, rows, worker>>,
           req.pc # "idle" => req.file \in Files,
           req.pc \in HandlerPc \ {"parse"} => BodyFits(req.file),
           req.pc \in {"create"} \cup HasFile =>
              /\ DetectMimeType(req.file) \in AllowedMimeTypes
              /\ req.file.size <= MaxUploadSize,
           req.id = upload[c].id \/ req.id = 0,
           req.createdAt <= clock',
           req.pc \in HasFile =>
              /\ upload[c].pc \in HasFile
              /\ req.id = upload[c].id /\ req.file = upload[c].file,
           req.pc \in {"insert", "commit"} => upload[c].pc \in {"insert", "commit"},
           ~(req.pc = "answered" /\ req.answer = 201)
    PROVE  UploadsInv'
<1>1. /\ upload' \in [Clients -> Request]
      /\ upload'[c] = req
      /\ \A d \in Clients \ {c} : upload'[d] = upload[d]
  BY DEF UploadsInv
<1>2. ASSUME NEW d \in Clients PROVE RequestInv(upload[d])'
  <2>1. CASE d = c
    <3>1. RequestInv(upload[c])
      BY DEF UploadsInv
    <3>2. req.id <= Len(disk)
      BY <3>1 DEF RequestInv, UploadsInv
    <3>3. ASSUME req.pc \in HasFile
          PROVE  /\ req.id \in 1..Len(disk)
                 /\ disk[req.id].content = req.file.content
                 /\ \A r \in 1..Len(rows) : rows[r].id # req.id
      BY <3>1, <3>3 DEF RequestInv
    <3>4. ASSUME req.pc \in {"insert", "commit"} PROVE disk[req.id].bytes = "all"
      BY <3>1, <3>4 DEF RequestInv, HasFile
    <3>5. RequestInv(req)'
      BY <3>2, <3>3, <3>4 DEF RequestInv
    <3> QED
      BY <1>1, <2>1, <3>5
  <2>2. CASE d # c
    <3>1. RequestInv(upload[d]) /\ upload[d] \in Request
      BY DEF UploadsInv
    <3>2. upload[d].createdAt <= clock'
      BY <3>1 DEF RequestInv, UploadsInv, Request
    <3> QED
      BY <1>1, <2>2, <3>1, <3>2 DEF RequestInv
  <2> QED
    BY <2>1, <2>2
<1>3. ASSUME NEW d \in Clients, NEW e \in Clients,
             upload'[d].pc \in HasFile, upload'[e].pc \in HasFile,
             upload'[d].id = upload'[e].id
      PROVE  d = e
  BY <1>1, <1>3 DEF UploadsInv
<1>4. ASSUME NEW r \in 1..Len(rows) PROVE RowInv(rows[r])'
  <2>a. RowInv(rows[r]) /\ rows[r] \in Row /\ clock \in Nat
    BY DEF UploadsInv
  <2>1. RowInv(rows[r]) /\ rows[r].committed \in Nat /\ clock \in Nat
    BY <2>a DEF Row
  <2>2. rows[r].committed <= clock'
    BY <2>1 DEF RowInv
  <2> QED
    BY <2>1, <2>2 DEF RowInv
<1>5. ASSUME NEW r \in 1..Len(rows), Passed(r)' PROVE EarlierUnseen(r)'
  BY <1>5 DEF UploadsInv, Passed, EarlierUnseen
<1> QED
  BY <1>1, <1>2, <1>3, <1>4, <1>5 DEF UploadsInv

\* os.Create has made the file, under an id of its own.
LEMMA CreateKeeps ==
    ASSUME UploadsInv, NEW c \in Clients, At(c, "create"),
           disk' = Append(disk, [content |-> File(c).content, bytes |-> "some"]),
           upload' = [upload EXCEPT ![c] = [@ EXCEPT !.pc = "copy", !.id = Len(disk) + 1]],
           UNCHANGED <<rows, clock, worker>>
    PROVE  UploadsInv'
<1> DEFINE entry == [content |-> File(c).content, bytes |-> "some"]
<1>1. /\ upload[c] \in Request /\ RequestInv(upload[c]) /\ disk \in Seq(StoredFile)
      /\ Len(disk) \in Nat /\ Len(rows) \in Nat
  BY DEF UploadsInv
<1>2. File(c) \in Files
  BY <1>1 DEF RequestInv, At, File
<1>3. entry \in StoredFile
  BY <1>2 DEF StoredFile, Contents
<1>4. /\ disk' \in Seq(StoredFile) /\ Len(disk') = Len(disk) + 1
      /\ \A id \in 1..Len(disk) : disk'[id] = disk[id]
      /\ disk'[Len(disk) + 1] = entry
  BY <1>1, <1>3, AppendProperties
<1> DEFINE moved == [upload[c] EXCEPT !.pc = "copy", !.id = Len(disk) + 1]
<1>m. /\ moved \in Request
      /\ moved.pc = "copy" /\ moved.id = Len(disk) + 1
      /\ moved.file = upload[c].file /\ moved.createdAt = upload[c].createdAt
  <2>1. PICK old \in Request : old = upload[c]
    BY <1>1
  <2>2. PICK mid : mid = [old EXCEPT !.pc = "copy"]
    OBVIOUS
  <2>3. /\ mid \in Request
        /\ mid.pc = "copy" /\ mid.file = old.file /\ mid.createdAt = old.createdAt
    <3>1. "copy" \in HandlerPc \cup {"idle", "answered"}
      BY DEF HandlerPc
    <3> QED
      BY <2>2, <3>1, RequestAt
  <2>4. PICK new : new = [mid EXCEPT !.id = Len(disk) + 1]
    OBVIOUS
  <2>5. /\ new \in Request
        /\ new.id = Len(disk) + 1 /\ new.pc = mid.pc
        /\ new.file = mid.file /\ new.createdAt = mid.createdAt
    <3>1. Len(disk) + 1 \in Nat
      BY <1>1
    <3> QED
      BY <2>3, <2>4, <3>1, RequestNamed
  <2>6. moved = new
    BY <2>1, <2>2, <2>4
  <2> HIDE DEF moved
  <2> QED
    BY <2>1, <2>3, <2>5, <2>6
<1>u. upload' = [upload EXCEPT ![c] = moved]
  OBVIOUS
<1> HIDE DEF moved
<1>5. PICK req \in Request :
         /\ req = moved
         /\ req.pc = "copy" /\ req.id = Len(disk) + 1
         /\ req.file = upload[c].file /\ req.createdAt = upload[c].createdAt
  BY <1>m
<1>6. /\ upload' \in [Clients -> Request] /\ upload'[c] = req
      /\ \A d \in Clients \ {c} : upload'[d] = upload[d]
  BY <1>u, <1>5 DEF UploadsInv
<1> HIDE DEF entry
<1>7. \A r \in 1..Len(rows) : rows[r].id \in 1..Len(disk)
  BY DEF UploadsInv, RowInv
<1>8. ASSUME NEW d \in Clients PROVE RequestInv(upload[d])'
  <2>1. CASE d = c
    <3>1. \A r \in 1..Len(rows) : rows[r].id # Len(disk) + 1
      BY <1>1, <1>7
    <3>2. disk'[req.id].content = req.file.content
      BY <1>4, <1>5 DEF entry, File
    <3>3. RequestInv(req)'
      BY <1>1, <1>4, <1>5, <3>1, <3>2 DEF RequestInv, At, HandlerPc, HasFile
    <3> QED
      BY <1>6, <2>1, <3>3
  <2>2. CASE d # c
    <3>1. RequestInv(upload[d]) /\ upload[d] \in Request
      BY DEF UploadsInv
    <3>2. PICK other \in Request : other = upload[d]
      BY <3>1
    <3>3. RequestInv(other)'
      BY <1>1, <1>4, <3>1, <3>2, RequestKept DEF RequestInv, UploadsInv, HasFile
    <3> QED
      BY <1>6, <2>2, <3>2, <3>3
  <2> QED
    BY <2>1, <2>2
<1>9. ASSUME NEW d \in Clients, NEW e \in Clients,
             upload'[d].pc \in HasFile, upload'[e].pc \in HasFile,
             upload'[d].id = upload'[e].id
      PROVE  d = e
  <2>1. \A f \in Clients \ {c} : upload'[f].pc \in HasFile => upload'[f].id # Len(disk) + 1
    BY <1>1, <1>6 DEF UploadsInv, RequestInv
  <2> QED
    BY <1>5, <1>6, <1>9, <2>1 DEF UploadsInv
<1>10. ASSUME NEW r \in 1..Len(rows) PROVE RowInv(rows[r])'
  BY <1>1, <1>4 DEF RowInv, UploadsInv
<1>11. ASSUME NEW r \in 1..Len(rows), Passed(r)' PROVE EarlierUnseen(r)'
  BY <1>11 DEF UploadsInv, Passed, EarlierUnseen
<1> QED
  BY <1>4, <1>6, <1>8, <1>9, <1>10, <1>11 DEF UploadsInv

\* io.Copy has written every byte.
LEMMA CopyKeeps ==
    ASSUME UploadsInv, NEW c \in Clients, At(c, "copy"), Copied(c), Goto(c, "insert"),
           UNCHANGED <<rows, clock, worker>>
    PROVE  UploadsInv'
<1> DEFINE mine == upload[c].id
<1>1. /\ upload[c] \in Request /\ RequestInv(upload[c]) /\ disk \in Seq(StoredFile)
      /\ Len(disk) \in Nat /\ Len(rows) \in Nat
      /\ mine \in 1..Len(disk)
  BY DEF UploadsInv, RequestInv, At, HasFile
<1>2. /\ disk' \in Seq(StoredFile) /\ Len(disk') = Len(disk)
      /\ \A id \in 1..Len(disk) : disk'[id].content = disk[id].content
      /\ \A id \in 1..Len(disk) : id # mine => disk'[id] = disk[id]
      /\ disk'[mine].bytes = "all"
  <2>1. disk[mine] \in StoredFile
    BY <1>1
  <2>2. [disk[mine] EXCEPT !.bytes = "all"] \in StoredFile
    BY <2>1 DEF StoredFile
  <2>3. disk' = [disk EXCEPT ![mine] = [disk[mine] EXCEPT !.bytes = "all"]]
    BY DEF Copied
  <2> QED
    BY <1>1, <2>1, <2>2, <2>3, ExceptSeq DEF StoredFile
<1> DEFINE moved == [upload[c] EXCEPT !.pc = "insert"]
<1>m. /\ moved \in Request
      /\ moved.pc = "insert" /\ moved.id = mine
      /\ moved.file = upload[c].file /\ moved.createdAt = upload[c].createdAt
  BY <1>1 DEF Request, HandlerPc
<1>u. upload' = [upload EXCEPT ![c] = moved]
  BY DEF Goto
<1> HIDE DEF moved
<1>3. PICK req \in Request :
         /\ req = moved
         /\ req.pc = "insert" /\ req.id = mine
         /\ req.file = upload[c].file /\ req.createdAt = upload[c].createdAt
  BY <1>m
<1>4. /\ upload' \in [Clients -> Request] /\ upload'[c] = req
      /\ \A d \in Clients \ {c} : upload'[d] = upload[d]
  BY <1>u, <1>3 DEF UploadsInv
<1> HIDE DEF mine
<1>5. ASSUME NEW d \in Clients PROVE RequestInv(upload[d])'
  <2>1. CASE d = c
    <3>1. disk'[req.id].content = req.file.content /\ disk'[req.id].bytes = "all"
      BY <1>1, <1>2, <1>3 DEF RequestInv, At, HasFile, mine
    <3>2. \A r \in 1..Len(rows) : rows[r].id # req.id
      BY <1>1, <1>3 DEF RequestInv, At, HasFile, mine
    <3>3. req.id <= Len(disk') /\ req.createdAt <= clock /\ req.id \in 1..Len(disk')
      BY <1>1, <1>2, <1>3 DEF RequestInv
    <3>4. RequestInv(req)'
      BY <1>1, <1>3, <3>1, <3>2, <3>3 DEF RequestInv, At, HandlerPc, HasFile
    <3> QED
      BY <1>4, <2>1, <3>4
  <2>2. CASE d # c
    <3>1. RequestInv(upload[d]) /\ upload[d] \in Request
      BY DEF UploadsInv
    <3>2. upload[d].pc \in HasFile => upload[d].id # mine
      BY <2>2 DEF UploadsInv, At, HasFile, mine
    <3>3. PICK other \in Request : other = upload[d]
      BY <3>1
    <3>4. /\ RequestInv(other) /\ other.id \in Nat
          /\ other.pc \in HasFile => /\ other.id # mine /\ other.id \in 1..Len(disk)
                                     /\ \A r \in 1..Len(rows) : rows[r].id # other.id
      BY <3>1, <3>2, <3>3 DEF RequestInv, Request
    <3>5. /\ other.pc \in HasFile => /\ disk'[other.id].content = disk[other.id].content
                                     /\ disk'[other.id] = disk[other.id]
      BY <1>2, <3>4
    <3>6. other.pc \in {"insert", "commit"} => other.pc \in HasFile
      BY DEF HasFile
    <3>7. /\ Len(disk) \in Nat /\ Len(disk') \in Nat /\ Len(disk) <= Len(disk')
          /\ Len(rows) \in Nat /\ clock \in Nat /\ UNCHANGED <<rows, clock>>
      BY <1>1, <1>2 DEF UploadsInv
    <3>8. RequestInv(other)'
      BY <3>4, <3>5, <3>6, <3>7, RequestKept
    <3> QED
      BY <1>4, <2>2, <3>3, <3>8
  <2> QED
    BY <2>1, <2>2
<1>6. ASSUME NEW d \in Clients, NEW e \in Clients,
             upload'[d].pc \in HasFile, upload'[e].pc \in HasFile,
             upload'[d].id = upload'[e].id
      PROVE  d = e
  <2>1. upload[c].pc \in HasFile /\ upload'[c].id = upload[c].id
    BY <1>3, <1>4 DEF At, HasFile, mine
  <2>2. /\ upload[d].pc \in HasFile /\ upload[e].pc \in HasFile
        /\ upload[d].id = upload[e].id
    BY <1>4, <1>6, <2>1
  <2> QED
    BY <2>2 DEF UploadsInv
<1>7. ASSUME NEW r \in 1..Len(rows) PROVE RowInv(rows[r])'
  BY <1>1, <1>2 DEF RowInv, UploadsInv
<1>8. ASSUME NEW r \in 1..Len(rows), Passed(r)' PROVE EarlierUnseen(r)'
  BY <1>8 DEF UploadsInv, Passed, EarlierUnseen
<1> QED
  BY <1>2, <1>4, <1>5, <1>6, <1>7, <1>8 DEF UploadsInv

\* The request an answer leaves
LEMMA AnswerGives ==
    ASSUME UploadsInv, NEW c \in Clients, NEW code \in Codes, Answer(c, code)
    PROVE  \E req \in Request :
              /\ upload' = [upload EXCEPT ![c] = req]
              /\ req.pc = "answered" /\ req.answer = code
              /\ req.id = upload[c].id /\ req.createdAt = upload[c].createdAt
              /\ req.file = upload[c].file
<1>1. PICK old \in Request : old = upload[c]
  BY DEF UploadsInv
<1>2. PICK mid : mid = [old EXCEPT !.pc = "answered"]
  OBVIOUS
<1>3. /\ mid \in Request
      /\ mid.pc = "answered" /\ mid.id = old.id
      /\ mid.file = old.file /\ mid.createdAt = old.createdAt
  BY <1>2, RequestAt
<1>4. PICK req : req = [mid EXCEPT !.answer = code]
  OBVIOUS
<1>5. /\ req \in Request
      /\ req.answer = code /\ req.id = mid.id /\ req.pc = mid.pc
      /\ req.file = mid.file /\ req.createdAt = mid.createdAt
  BY <1>3, <1>4, RequestWithAnswer
<1>6. upload' = [upload EXCEPT ![c] = req]
  <2>1. req = [old EXCEPT !.pc = "answered", !.answer = code]
    BY <1>2, <1>4
  <2> QED
    BY <1>1, <2>1 DEF Answer
<1>7. /\ req.pc = "answered" /\ req.answer = code
      /\ req.id = upload[c].id /\ req.createdAt = upload[c].createdAt
      /\ req.file = upload[c].file
  BY <1>1, <1>3, <1>5
<1>8. req \in Request
  BY <1>5
<1> QED
  BY <1>6, <1>7, <1>8

\* The INSERT has committed, whatever the handler answers.
LEMMA CommitKeeps ==
    ASSUME UploadsInv, NEW c \in Clients, At(c, "commit"), Committed(c),
           NEW code \in Codes, Answer(c, code), UNCHANGED <<disk, worker>>
    PROVE  UploadsInv'
<1> DEFINE last == Len(rows) + 1
<1> DEFINE added == [id |-> upload[c].id, content |-> File(c).content, size |-> File(c).size,
                     mime |-> DetectMimeType(File(c)), createdAt |-> upload[c].createdAt,
                     committed |-> clock + 1, status |-> "UPLOADED"]
<1>1. /\ upload[c] \in Request /\ RequestInv(upload[c]) /\ rows \in Seq(Row)
      /\ Len(disk) \in Nat /\ Len(rows) \in Nat /\ clock \in Nat /\ clock' = clock + 1
  BY DEF UploadsInv, Committed
<1>2. /\ File(c) \in Files /\ File(c).size \in Nat /\ File(c).size <= MaxUploadSize
      /\ DetectMimeType(File(c)) \in AllowedMimeTypes
      /\ upload[c].id \in 1..Len(disk)
      /\ disk[upload[c].id].content = File(c).content
      /\ disk[upload[c].id].bytes = "all"
      /\ \A r \in 1..Len(rows) : rows[r].id # upload[c].id
  BY <1>1, UploadsAssumption DEF RequestInv, At, File, HasFile
<1>3. upload[c].createdAt \in Nat /\ upload[c].createdAt <= clock
  BY <1>1 DEF RequestInv, Request
<1>4. /\ added.id = upload[c].id /\ added.content = File(c).content
      /\ added.size = File(c).size /\ added.createdAt = upload[c].createdAt
      /\ added.committed = clock + 1 /\ added.status = "UPLOADED"
  OBVIOUS
<1>5. added \in Row
  <2>1. File(c).content \in Contents /\ clock + 1 \in Nat /\ upload[c].id \in Nat
    BY <1>1, <1>2 DEF Contents
  <2> QED
    BY <1>2, <1>3, <2>1 DEF Row
<1>6. rows' = Append(rows, added)
  BY DEF Committed
<1> HIDE DEF added
<1>7. /\ rows' \in Seq(Row) /\ Len(rows') = last
      /\ \A r \in 1..Len(rows) : rows'[r] = rows[r]
      /\ rows'[last] = added
  BY <1>1, <1>5, <1>6, AppendProperties
<1>8. PICK req \in Request :
         /\ upload' = [upload EXCEPT ![c] = req]
         /\ req.pc = "answered" /\ req.id = upload[c].id
         /\ req.createdAt = upload[c].createdAt /\ req.file = upload[c].file
  BY AnswerGives
<1>9. /\ upload' \in [Clients -> Request] /\ upload'[c] = req
      /\ \A d \in Clients \ {c} : upload'[d] = upload[d]
  BY <1>8 DEF UploadsInv
<1>10. ASSUME NEW d \in Clients PROVE RequestInv(upload[d])'
  <2>1. CASE d = c
    <3>1. req.id <= Len(disk') /\ req.createdAt <= clock'
      BY <1>1, <1>2, <1>3, <1>8
    <3>2. \E r \in 1..Len(rows') : rows'[r].id = req.id
      <4>1. last \in 1..Len(rows') /\ rows'[last].id = req.id
        BY <1>1, <1>4, <1>7, <1>8
      <4> QED
        BY <4>1
    <3>3. req.file \in Files
      BY <1>2, <1>8 DEF File
    <3>4. RequestInv(req)'
      BY <1>8, <3>1, <3>2, <3>3 DEF RequestInv, HandlerPc, HasFile
    <3> QED
      BY <1>9, <2>1, <3>4
  <2>2. CASE d # c
    <3>1. RequestInv(upload[d]) /\ upload[d] \in Request
      BY DEF UploadsInv
    <3>2. PICK other \in Request : other = upload[d]
      BY <3>1
    <3>3. other.pc \in HasFile => \A r \in 1..Len(rows') : rows'[r].id # other.id
      <4>1. other.pc \in HasFile => other.id # upload[c].id
        BY <2>2, <3>2 DEF UploadsInv, At, HasFile
      <4>2. other.pc \in HasFile => \A r \in 1..Len(rows) : rows[r].id # other.id
        BY <3>1, <3>2 DEF RequestInv
      <4>3. ASSUME NEW r \in 1..Len(rows') PROVE r \in 1..Len(rows) \/ r = last
        BY <1>1, <1>7
      <4>4. rows'[last].id = upload[c].id
        BY <1>4, <1>7
      <4> QED
        BY <1>7, <4>1, <4>2, <4>3, <4>4
    <3>4. RequestInv(other)'
      <4>1. RequestInv(other)
        BY <3>1, <3>2
      <4>2. /\ Len(rows') \in Nat /\ Len(rows) <= Len(rows')
            /\ clock' \in Nat /\ clock <= clock'
            /\ \A r \in 1..Len(rows) : rows'[r].id = rows[r].id
        BY <1>1, <1>7
      <4> HIDE DEF last
      <4> QED
        BY <1>1, <3>3, <4>1, <4>2, RequestKept
    <3> QED
      BY <1>9, <2>2, <3>2, <3>4
  <2> QED
    BY <2>1, <2>2
<1>11. ASSUME NEW d \in Clients, NEW e \in Clients,
             upload'[d].pc \in HasFile, upload'[e].pc \in HasFile,
             upload'[d].id = upload'[e].id
      PROVE  d = e
  BY <1>8, <1>9, <1>11 DEF UploadsInv, HasFile
<1>12. ASSUME NEW r \in 1..last PROVE RowInv(rows[r])'
  <2>1. CASE r = last
    <3>1. /\ rows'[r].id \in 1..Len(disk)
          /\ disk[rows'[r].id].content = rows'[r].content
          /\ disk[rows'[r].id].bytes = "all"
          /\ rows'[r].size <= MaxUploadSize
      BY <1>2, <1>4, <1>7, <2>1
    <3>2. rows'[r].createdAt < rows'[r].committed /\ rows'[r].committed <= clock'
      BY <1>1, <1>3, <1>4, <1>7, <2>1
    <3> QED
      BY <3>1, <3>2 DEF RowInv
  <2>2. CASE r # last
    <3>1. r \in 1..Len(rows)
      BY <1>1, <2>2
    <3>2. RowInv(rows[r]) /\ rows[r] \in Row
      BY <3>1 DEF UploadsInv
    <3>3. rows'[r] = rows[r]
      BY <1>7, <3>1
    <3>4. rows[r].committed <= clock'
      BY <1>1, <3>2 DEF RowInv, Row
    <3> QED
      BY <3>2, <3>3, <3>4 DEF RowInv
  <2> QED
    BY <2>1, <2>2
<1>13. ASSUME NEW r \in 1..last, NEW s \in 1..last, rows'[r].id = rows'[s].id
       PROVE  r = s
  <2>1. \A q \in 1..Len(rows) : rows'[q].id = rows[q].id /\ rows[q].id # upload[c].id
    BY <1>2, <1>7
  <2>2. rows'[last].id = upload[c].id
    BY <1>4, <1>7
  <2>3. CASE r = last \/ s = last
    BY <1>1, <1>13, <2>1, <2>2, <2>3
  <2>4. CASE r # last /\ s # last
    <3>1. r \in 1..Len(rows) /\ s \in 1..Len(rows)
      BY <1>1, <2>4
    <3>2. rows[r].id = rows[s].id
      BY <1>13, <2>1, <3>1
    <3> QED
      BY <3>1, <3>2 DEF UploadsInv
  <2> QED
    BY <2>3, <2>4
<1>14. ASSUME NEW r \in 1..last, Passed(r)' PROVE EarlierUnseen(r)'
  <2>1. r \in 1..Len(rows) /\ Passed(r)
    <3>1. CASE r = last
      <4>1. \A w \in Workers : worker[w].pc = "finalize" => worker[w].row # r
        BY <1>1, <3>1 DEF UploadsInv
      <4> QED
        BY <1>4, <1>7, <1>14, <3>1, <4>1 DEF Passed
    <3>2. CASE r # last
      BY <1>1, <1>7, <1>14, <3>2 DEF Passed
    <3> QED
      BY <3>1, <3>2
  <2>2. EarlierUnseen(r) /\ RowInv(rows[r]) /\ rows[r] \in Row
    BY <2>1 DEF UploadsInv
  <2>3. ASSUME NEW s \in 1..last,
               rows'[s].content = rows'[r].content,
               rows'[s].createdAt < rows'[r].createdAt
        PROVE  rows'[r].committed < rows'[s].committed
    <3>1. CASE s = last
      <4>1. rows[r].committed \in Nat /\ rows[r].committed <= clock
        BY <2>2 DEF RowInv, Row
      <4>2. rows'[r].committed = rows[r].committed /\ rows'[s].committed = clock + 1
        BY <1>4, <1>7, <2>1, <3>1
      <4> QED
        BY <1>1, <4>1, <4>2
    <3>2. CASE s # last
      BY <1>1, <1>7, <2>1, <2>2, <2>3, <3>2 DEF EarlierUnseen
    <3> QED
      BY <3>1, <3>2
  <2> QED
    BY <1>7, <2>3 DEF EarlierUnseen
<1>15. /\ clock' \in Nat /\ disk' \in Seq(StoredFile) /\ worker' \in [Workers -> WorkerPlace]
       /\ \A w \in Workers :
             /\ worker'[w].row <= last
             /\ worker'[w].pc # "poll" => worker'[w].row \in 1..last
  BY <1>1 DEF UploadsInv, WorkerPlace
<1> QED
  BY <1>7, <1>9, <1>10, <1>11, <1>12, <1>13, <1>14, <1>15 DEF UploadsInv

---------------------------------------------------------------------------
(* Steps of a worker *)

\* A worker takes its next place; a row that has passed the check had every
\* row created before it in view.
LEMMA WorkerMoves ==
    ASSUME UploadsInv, NEW w \in Workers, NEW place \in WorkerPlace,
           worker' = [worker EXCEPT ![w] = place],
           UNCHANGED <<upload, disk, rows, clock>>,
           place.row <= Len(rows),
           place.pc # "poll" => place.row \in 1..Len(rows),
           place.pc = "finalize" => EarlierUnseen(place.row)
    PROVE  UploadsInv'
<1>1. /\ worker' \in [Workers -> WorkerPlace] /\ worker'[w] = place
      /\ \A v \in Workers \ {w} : worker'[v] = worker[v]
  BY DEF UploadsInv
<1>2. ASSUME NEW v \in Workers
      PROVE  /\ worker'[v].row <= Len(rows)
             /\ worker'[v].pc # "poll" => worker'[v].row \in 1..Len(rows)
  BY <1>1 DEF UploadsInv
<1>3. ASSUME NEW r \in 1..Len(rows), Passed(r)' PROVE EarlierUnseen(r)'
  <2>1. EarlierUnseen(r)
    BY <1>1, <1>3 DEF UploadsInv, Passed
  <2> QED
    BY <2>1 DEF EarlierUnseen
<1>4. ASSUME NEW c \in Clients PROVE RequestInv(upload[c])'
  BY DEF UploadsInv, RequestInv
<1>5. ASSUME NEW r \in 1..Len(rows) PROVE RowInv(rows[r])'
  BY DEF UploadsInv, RowInv
<1> QED
  BY <1>1, <1>2, <1>3, <1>4, <1>5 DEF UploadsInv

\* A run ends and gives its row a status.
LEMMA SettleKeeps ==
    ASSUME UploadsInv, NEW w \in Workers, worker[w].pc # "poll",
           NEW status \in {"UPLOADED", "PENDING_REVIEW", "AUTO_PROCESSED", "FAILED"},
           Settle(w, status), UNCHANGED <<upload, disk, clock>>,
           status = "AUTO_PROCESSED" => worker[w].pc = "finalize"
    PROVE  UploadsInv'
<1> DEFINE mine == worker[w].row
<1> DEFINE changed == [rows[mine] EXCEPT !.status = status]
<1>1. mine \in 1..Len(rows) /\ rows \in Seq(Row) /\ rows[mine] \in Row /\ Len(rows) \in Nat
  BY DEF UploadsInv
<1>2. /\ changed \in Row /\ changed.status = status
      /\ changed.id = rows[mine].id /\ changed.content = rows[mine].content
      /\ changed.size = rows[mine].size /\ changed.createdAt = rows[mine].createdAt
      /\ changed.committed = rows[mine].committed
  BY <1>1 DEF Row
<1>3. rows' = [rows EXCEPT ![mine] = changed]
  BY DEF Settle
<1> HIDE DEF changed
<1>4. /\ rows' \in Seq(Row) /\ Len(rows') = Len(rows)
      /\ rows'[mine] = changed
      /\ \A r \in 1..Len(rows) : r # mine => rows'[r] = rows[r]
  BY <1>1, <1>2, <1>3, ExceptSeq
<1>5. \A r \in 1..Len(rows) :
         /\ rows'[r].id = rows[r].id /\ rows'[r].content = rows[r].content
         /\ rows'[r].size = rows[r].size /\ rows'[r].createdAt = rows[r].createdAt
         /\ rows'[r].committed = rows[r].committed
         /\ r # mine => rows'[r].status = rows[r].status
  BY <1>1, <1>2, <1>4
<1>6. /\ worker' \in [Workers -> WorkerPlace] /\ worker'[w].pc = "poll" /\ worker'[w].row = 0
      /\ \A v \in Workers \ {w} : worker'[v] = worker[v]
  <2>1. Polling \in WorkerPlace /\ Polling.pc = "poll" /\ Polling.row = 0
    BY DEF Polling, WorkerPlace
  <2> QED
    BY <2>1 DEF UploadsInv, Settle
<1> HIDE DEF mine
<1>7. ASSUME NEW v \in Workers
      PROVE  /\ worker'[v].row <= Len(rows)
             /\ worker'[v].pc # "poll" => worker'[v].row \in 1..Len(rows)
  BY <1>1, <1>6 DEF UploadsInv
<1>8. ASSUME NEW c \in Clients PROVE RequestInv(upload[c])'
  <2>1. RequestInv(upload[c]) /\ upload[c] \in Request
    BY DEF UploadsInv
  <2> QED
    BY <1>4, <1>5, <2>1 DEF RequestInv
<1>9. ASSUME NEW r \in 1..Len(rows) PROVE RowInv(rows[r])'
  <2>1. RowInv(rows[r])
    BY DEF UploadsInv
  <2> QED
    BY <1>5, <2>1 DEF RowInv
<1>10. ASSUME NEW r \in 1..Len(rows), Passed(r)' PROVE EarlierUnseen(r)'
  <2>1. Passed(r)
    <3>1. CASE rows'[r].status = "AUTO_PROCESSED"
      BY <1>2, <1>4, <1>5, <3>1 DEF Passed, mine
    <3>2. CASE \E v \in Workers : worker'[v].pc = "finalize" /\ worker'[v].row = r
      BY <1>6, <3>2 DEF Passed
    <3> QED
      BY <1>10, <3>1, <3>2 DEF Passed
  <2>2. EarlierUnseen(r)
    BY <2>1 DEF UploadsInv
  <2> QED
    BY <1>4, <1>5, <2>2 DEF EarlierUnseen
<1>11. ASSUME NEW r \in 1..Len(rows), NEW s \in 1..Len(rows), rows'[r].id = rows'[s].id
       PROVE  r = s
  BY <1>5, <1>11 DEF UploadsInv
<1> QED
  BY <1>4, <1>6, <1>7, <1>8, <1>9, <1>10, <1>11 DEF UploadsInv

---------------------------------------------------------------------------
(* The invariant *)

\* An answer that is no 201 and leaves files and rows as they are
LEMMA RefusedKeeps ==
    ASSUME UploadsInv, NEW c \in Clients, upload[c].pc # "idle",
           NEW req \in Request, upload' = [upload EXCEPT ![c] = req],
           req.pc = "answered", req.answer # 201,
           req.id = upload[c].id, req.createdAt = upload[c].createdAt,
           req.file = upload[c].file,
           UNCHANGED <<disk, rows, clock, worker>>
    PROVE  UploadsInv'
<1>1. RequestInv(upload[c]) /\ clock \in Nat
  BY DEF UploadsInv
<1>2. req.file \in Files /\ req.createdAt <= clock'
  BY <1>1 DEF RequestInv
<1>3. clock' \in Nat /\ clock <= clock' /\ UNCHANGED <<disk, rows, worker>>
  BY <1>1
<1>4. /\ req.pc \notin HandlerPc \ {"parse"} /\ req.pc \notin {"create"} \cup HasFile
      /\ req.pc \notin HasFile /\ req.pc \notin {"insert", "commit"}
  BY DEF HandlerPc, HasFile
<1> QED
  BY <1>2, <1>3, <1>4, RequestMoves

LEMMA RefusalKeeps ==
    ASSUME UploadsInv, NEW c \in Clients, upload[c].pc # "idle",
           NEW code \in Codes \ {201}, Answer(c, code),
           UNCHANGED <<disk, rows, clock, worker>>
    PROVE  UploadsInv'
<1>1. code \in Codes /\ code # 201
  OBVIOUS
<1>2. PICK req \in Request :
         /\ upload' = [upload EXCEPT ![c] = req]
         /\ req.pc = "answered" /\ req.answer = code
         /\ req.id = upload[c].id /\ req.createdAt = upload[c].createdAt
         /\ req.file = upload[c].file
  BY <1>1, AnswerGives
<1>3. req.answer # 201
  BY <1>1, <1>2
<1> QED
  BY <1>2, <1>3, RefusedKeeps

\* A handler goes to its next statement and changes nothing else.
LEMMA GotoKeeps ==
    ASSUME UploadsInv, NEW c \in Clients,
           NEW pc \in {"validate", "create"}, Goto(c, pc),
           UNCHANGED <<disk, rows, clock, worker>>,
           upload[c].pc # "idle", BodyFits(File(c)),
           pc = "create" =>
              /\ DetectMimeType(File(c)) \in AllowedMimeTypes
              /\ File(c).size <= MaxUploadSize
    PROVE  UploadsInv'
<1>1. PICK old \in Request : old = upload[c]
  BY DEF UploadsInv
<1>2. [old EXCEPT !.pc = pc] \in Request
  BY DEF Request, HandlerPc
<1>3. PICK req \in Request : req = [old EXCEPT !.pc = pc]
  BY <1>2
<1>4. /\ req.pc = pc /\ req.id = old.id /\ req.createdAt = old.createdAt
      /\ req.file = old.file
  BY <1>3 DEF Request
<1>5. upload' = [upload EXCEPT ![c] = req]
  BY <1>1, <1>3 DEF Goto
<1>6. RequestInv(upload[c]) /\ clock \in Nat
  BY DEF UploadsInv
<1>7. /\ req.file \in Files /\ req.createdAt <= clock'
      /\ BodyFits(req.file)
      /\ req.pc \in {"create"} \cup HasFile =>
            /\ DetectMimeType(req.file) \in AllowedMimeTypes
            /\ req.file.size <= MaxUploadSize
  BY <1>1, <1>4, <1>6 DEF RequestInv, File, HasFile
<1>8. req.pc \notin HasFile /\ req.pc # "answered" /\ req.pc \notin {"insert", "commit"}
  BY <1>4 DEF HasFile
<1>9. clock' \in Nat /\ clock <= clock' /\ UNCHANGED <<disk, rows, worker>>
  BY <1>6
<1>10. req.id = upload[c].id
  BY <1>1, <1>4
<1> QED
  BY <1>5, <1>7, <1>8, <1>9, <1>10, RequestMoves

LEMMA HandlerKeeps ==
    ASSUME UploadsInv, NEW c \in Clients, HandlerStep(c)
    PROVE  UploadsInv'
<1> USE DEF At
<1>1. RequestInv(upload[c]) /\ clock \in Nat /\ upload[c] \in Request
  BY DEF UploadsInv
<1>2. CASE ParseForm(c)
  <2>1. upload[c].pc # "idle"
    BY <1>2 DEF ParseForm
  <2>2. CASE BodyFits(File(c)) /\ Goto(c, "validate")
    BY <1>2, <2>1, <2>2, GotoKeeps DEF ParseForm
  <2>3. CASE Answer(c, 400)
    BY <1>2, <2>1, <2>3, RefusalKeeps DEF Codes, ParseForm
  <2> QED
    BY <1>2, <2>2, <2>3 DEF ParseForm
<1>3. CASE ValidateFile(c)
  <2>1. upload[c].pc # "idle" /\ BodyFits(File(c)) /\ File(c) \in Files
    BY <1>1, <1>3 DEF ValidateFile, RequestInv, HandlerPc, File
  <2>2. File(c).size \in Nat
    BY <2>1, UploadsAssumption
  <2>3. CASE DetectMimeType(File(c)) \notin AllowedMimeTypes
    BY <1>3, <2>1, <2>3, RefusalKeeps DEF Codes, ValidateFile
  <2>4. CASE DetectMimeType(File(c)) \in AllowedMimeTypes /\ File(c).size > MaxUploadSize
    BY <1>3, <2>1, <2>4, RefusalKeeps DEF Codes, ValidateFile
  <2>5. CASE DetectMimeType(File(c)) \in AllowedMimeTypes /\ ~(File(c).size > MaxUploadSize)
    <3>1. File(c).size <= MaxUploadSize /\ Goto(c, "create")
      BY <1>3, <2>2, <2>5, UploadsAssumption DEF ValidateFile
    <3> QED
      BY <1>3, <2>1, <2>5, <3>1, GotoKeeps DEF ValidateFile
  <2> QED
    BY <2>3, <2>4, <2>5
<1>4. CASE CreateFile(c)
  <2>1. CASE Answer(c, 500) /\ UNCHANGED disk
    BY <1>4, <2>1, RefusalKeeps DEF Codes, CreateFile
  <2>2. CASE ~(Answer(c, 500) /\ UNCHANGED disk)
    BY <1>4, <2>2, CreateKeeps DEF CreateFile
  <2> QED
    BY <2>1, <2>2
<1>5. CASE CopyFile(c)
  <2>1. CASE Answer(c, 500) /\ UNCHANGED disk
    BY <1>5, <2>1, RefusalKeeps DEF Codes, CopyFile
  <2>2. CASE Copied(c) /\ Goto(c, "insert")
    BY <1>5, <2>2, CopyKeeps DEF CopyFile
  <2> QED
    BY <1>5, <2>1, <2>2 DEF CopyFile
<1>6. CASE BeginInsert(c)
  <2>1. CASE Answer(c, 500) /\ UNCHANGED clock
    BY <1>6, <2>1, RefusalKeeps DEF Codes, BeginInsert
  <2>2. CASE ~(Answer(c, 500) /\ UNCHANGED clock)
    <3>1. PICK now \in Nat : now = clock + 1
      BY <1>1
    <3>2. PICK old \in Request : old = upload[c]
      BY <1>1
    <3>a. PICK mid : mid = [old EXCEPT !.pc = "commit"]
      OBVIOUS
    <3>b. mid \in Request /\ mid.pc = "commit" /\ mid.id = old.id /\ mid.file = old.file
      <4>1. "commit" \in HandlerPc \cup {"idle", "answered"}
        BY DEF HandlerPc
      <4> QED
        BY <3>a, <4>1, RequestAt
    <3>c. PICK req : req = [mid EXCEPT !.createdAt = now]
      OBVIOUS
    <3>4. req = [old EXCEPT !.pc = "commit", !.createdAt = now]
      BY <3>a, <3>c
    <3>5. /\ req \in Request
          /\ req.pc = "commit" /\ req.createdAt = now
          /\ req.id = old.id /\ req.file = old.file
      <4>1. /\ req \in Request /\ req.pc = mid.pc /\ req.createdAt = now
            /\ req.id = mid.id /\ req.file = mid.file
        BY <3>b, <3>c, RequestStamped
      <4> QED
        BY <3>b, <4>1
    <3>6. /\ clock' = now /\ upload' = [upload EXCEPT ![c] = req]
          /\ UNCHANGED <<disk, rows, worker>> /\ upload[c].pc = "insert"
      BY <1>6, <2>2, <3>1, <3>2, <3>4 DEF BeginInsert
    <3>7. /\ req.file \in Files /\ BodyFits(req.file)
          /\ DetectMimeType(req.file) \in AllowedMimeTypes
          /\ req.file.size <= MaxUploadSize
      BY <1>1, <3>2, <3>5, <3>6 DEF RequestInv, HandlerPc, HasFile
    <3>8. clock <= clock' /\ clock' \in Nat /\ req.createdAt <= clock'
      BY <1>1, <3>1, <3>5, <3>6
    <3> QED
      BY <3>2, <3>5, <3>6, <3>7, <3>8, RequestMoves DEF HasFile
  <2> QED
    BY <2>1, <2>2
<1>7. CASE CommitInsert(c)
  <2>1. PICK code \in {201, 500} : Answer(c, code)
    BY <1>7 DEF CommitInsert
  <2>2. CASE Committed(c)
    BY <1>7, <2>1, <2>2, CommitKeeps DEF Codes, CommitInsert
  <2>3. CASE ~Committed(c)
    BY <1>7, <2>3, RefusalKeeps DEF Codes, CommitInsert
  <2> QED
    BY <2>2, <2>3
<1> QED
  BY <1>2, <1>3, <1>4, <1>5, <1>6, <1>7 DEF HandlerStep

LEMMA ClientKeeps ==
    ASSUME UploadsInv, NEW c \in Clients,
           \/ \E file \in Files : SendFile(c, file)
           \/ HandlerStep(c) \/ CutOff(c) \/ TakeAnswer(c)
    PROVE  UploadsInv'
<1>1. clock \in Nat
  BY DEF UploadsInv
<1>2. ASSUME NEW file \in Files, SendFile(c, file) PROVE UploadsInv'
  <2>a. PICK old \in Request : old = Idle /\ old.id = 0 /\ old.createdAt = 0
    <3>1. Idle \in Request
      BY DEF Request, Idle
    <3>2. Idle.id = 0 /\ Idle.createdAt = 0
      BY DEF Idle
    <3> QED
      BY <3>1, <3>2
  <2>b. PICK mid : mid = [old EXCEPT !.pc = "parse"]
    OBVIOUS
  <2>c. mid \in Request /\ mid.pc = "parse" /\ mid.id = 0 /\ mid.createdAt = 0
    <3>1. "parse" \in HandlerPc \cup {"idle", "answered"}
      BY DEF HandlerPc
    <3>2. /\ mid \in Request /\ mid.pc = "parse"
          /\ mid.id = old.id /\ mid.createdAt = old.createdAt
      BY <2>b, <3>1, RequestAt
    <3> QED
      BY <2>a, <3>2
  <2>d. PICK req : req = [mid EXCEPT !.file = file]
    OBVIOUS
  <2>1. req = [old EXCEPT !.pc = "parse", !.file = file]
    BY <2>b, <2>d
  <2>2. /\ req \in Request
        /\ req.pc = "parse" /\ req.file = file /\ req.id = 0 /\ req.createdAt = 0
    <3>1. /\ req \in Request /\ req.file = file /\ req.pc = mid.pc
          /\ req.id = mid.id /\ req.createdAt = mid.createdAt
      BY <2>c, <2>d, RequestWithFile
    <3> QED
      BY <2>c, <3>1
  <2>3. /\ upload' = [upload EXCEPT ![c] = req] /\ UNCHANGED <<disk, rows, worker>>
        /\ clock' \in Nat /\ clock <= clock'
    <3>1. upload' = [upload EXCEPT ![c] = req]
      BY <1>2, <2>a, <2>1 DEF SendFile
    <3>2. UNCHANGED <<disk, rows, worker>> /\ clock' = clock
      BY <1>2 DEF SendFile
    <3> QED
      BY <1>1, <3>1, <3>2
  <2>4. /\ req.pc = "parse" /\ req.file \in Files /\ req.id = 0
        /\ req.createdAt <= clock' /\ req.pc \notin HasFile
    BY <1>1, <2>2, <2>3 DEF HasFile
  <2> QED
    BY <2>2, <2>3, <2>4, RequestMoves DEF HasFile
<1>3. CASE HandlerStep(c)
  BY <1>3, HandlerKeeps
<1>4. CASE CutOff(c)
  <2>1. upload[c].pc # "idle" /\ Answer(c, 0) /\ UNCHANGED <<disk, worker>>
    BY <1>4 DEF CutOff, HandlerPc
  <2>2. CASE UNCHANGED <<rows, clock>>
    BY <2>1, <2>2, RefusalKeeps DEF Codes
  <2>3. CASE At(c, "commit") /\ Committed(c)
    BY <2>1, <2>3, CommitKeeps DEF Codes
  <2> QED
    BY <1>4, <2>2, <2>3 DEF CutOff
<1>5. CASE TakeAnswer(c)
  <2>1. PICK req \in Request : req = Idle
    <3>1. Idle \in Request
      BY DEF Request, Idle
    <3> QED
      BY <3>1
  <2>2. /\ upload' = [upload EXCEPT ![c] = req] /\ UNCHANGED <<disk, rows, worker>>
        /\ clock' \in Nat /\ clock <= clock'
    BY <1>1, <1>5, <2>1 DEF TakeAnswer
  <2>3. req.pc = "idle" /\ req.id = 0 /\ req.createdAt <= clock' /\ req.pc \notin HasFile
    BY <2>1, <2>2 DEF Idle, HasFile
  <2> QED
    BY <2>2, <2>3, RequestMoves DEF HandlerPc, HasFile
<1> QED
  BY <1>2, <1>3, <1>4, <1>5

LEMMA WorkerKeeps ==
    ASSUME UploadsInv, NEW w \in Workers, WorkerStep(w)
    PROVE  UploadsInv'
<1>1. /\ worker[w] \in WorkerPlace /\ rows \in Seq(Row) /\ Len(rows) \in Nat
      /\ worker[w].pc # "poll" => worker[w].row \in 1..Len(rows)
  BY DEF UploadsInv
<1>2. DOMAIN rows = 1..Len(rows)
  BY <1>1
<1>3. \A pc \in {"check", "finalize"} : worker[w].pc # "poll" =>
         /\ [worker[w] EXCEPT !.pc = pc] \in WorkerPlace
         /\ [worker[w] EXCEPT !.pc = pc].pc = pc
         /\ [worker[w] EXCEPT !.pc = pc].row = worker[w].row
  BY <1>1 DEF WorkerPlace
<1>4. CASE ClaimNextUploaded(w)
  <2>1. PICK r \in EarliestCreated(Claimable) : worker' = [worker EXCEPT ![w] = [pc |-> "open", row |-> r]]
    BY <1>4 DEF ClaimNextUploaded
  <2>2. r \in 1..Len(rows)
    BY <1>2 DEF EarliestCreated, Claimable
  <2>3. PICK place \in WorkerPlace : place = [pc |-> "open", row |-> r]
    <3>1. r \in Nat
      BY <1>1, <2>2
    <3>2. [pc |-> "open", row |-> r] \in WorkerPlace
      BY <3>1 DEF WorkerPlace
    <3> QED
      BY <3>2
  <2>4. place.pc = "open" /\ place.row = r /\ place.row <= Len(rows)
    BY <1>1, <2>2, <2>3
  <2>5. UNCHANGED <<upload, disk, rows, clock>>
    BY <1>4 DEF ClaimNextUploaded, OnlyWorker
  <2> QED
    BY <2>1, <2>2, <2>3, <2>4, <2>5, WorkerMoves
<1>5. CASE OpenFile(w)
  <2>1. worker[w].pc # "poll" /\ UNCHANGED <<upload, disk, rows, clock>>
    BY <1>5 DEF OpenFile, OnlyWorker
  <2>2. PICK place \in WorkerPlace :
           place = [worker[w] EXCEPT !.pc = "check"] /\ place.pc = "check" /\ place.row = worker[w].row
    BY <1>3, <2>1
  <2>3. worker' = [worker EXCEPT ![w] = place]
    BY <1>5, <2>2 DEF OpenFile, WorkerGoto
  <2>4. place.row \in 1..Len(rows) /\ place.row <= Len(rows)
    BY <1>1, <2>1, <2>2
  <2> QED
    BY <2>1, <2>2, <2>3, <2>4, WorkerMoves
<1>6. CASE CheckExactDuplicate(w)
  <2>1. worker[w].pc # "poll" /\ UNCHANGED <<upload, disk, clock>>
    BY <1>6 DEF CheckExactDuplicate, OnlyWorker
  <2>2. PICK earliest \in FindByContentHash(rows[worker[w].row].content) :
           IF earliest = worker[w].row
           THEN WorkerGoto(w, "finalize") /\ UNCHANGED rows
           ELSE Settle(w, "PENDING_REVIEW")
    BY <1>6 DEF CheckExactDuplicate
  <2>3. CASE earliest = worker[w].row
    <3>1. PICK place \in WorkerPlace :
             /\ place = [worker[w] EXCEPT !.pc = "finalize"]
             /\ place.pc = "finalize" /\ place.row = worker[w].row
      BY <1>3, <2>1
    <3>2. worker' = [worker EXCEPT ![w] = place] /\ UNCHANGED rows
      BY <2>2, <2>3, <3>1 DEF WorkerGoto
    <3>3. place.row \in 1..Len(rows) /\ place.row <= Len(rows)
      BY <1>1, <2>1, <3>1
    <3>4. \A s \in 1..Len(rows) :
             rows[s].content = rows[place.row].content
                => rows[place.row].createdAt <= rows[s].createdAt
      BY <1>2, <2>2, <2>3, <3>1 DEF FindByContentHash, WithContentHash, EarliestCreated
    <3>5. EarlierUnseen(place.row)
      <4>1. \A s \in 1..Len(rows) : rows[s].createdAt \in Nat
        <5>1. \A s \in 1..Len(rows) : rows[s] \in Row
          BY <1>1
        <5> QED
          BY <5>1 DEF Row
      <4> QED
        BY <3>3, <3>4, <4>1 DEF EarlierUnseen
    <3> QED
      BY <2>1, <3>1, <3>2, <3>3, <3>5, WorkerMoves
  <2>4. CASE earliest # worker[w].row
    BY <2>1, <2>2, <2>4, SettleKeeps
  <2> QED
    BY <2>3, <2>4
<1>7. CASE FinalizeDocument(w)
  BY <1>7, SettleKeeps DEF FinalizeDocument, OnlyWorker
<1>8. CASE FailRun(w)
  BY <1>8, SettleKeeps DEF FailRun, OnlyWorker
<1> QED
  BY <1>4, <1>5, <1>6, <1>7, <1>8 DEF WorkerStep

LEMMA UploadsInductive == UploadsInv /\ [UploadsNext]_uploadVars => UploadsInv'
<1> SUFFICES ASSUME UploadsInv, [UploadsNext]_uploadVars PROVE UploadsInv'
  OBVIOUS
<1>1. CASE UploadsNext
  BY <1>1, ClientKeeps, WorkerKeeps DEF UploadsNext
<1>2. CASE UNCHANGED uploadVars
  BY <1>2 DEF uploadVars, UploadsInv, RequestInv, RowInv, Passed, EarlierUnseen
<1> QED
  BY <1>1, <1>2

\* In every state the statements of the handlers know what UploadsInv says
\* of the files and the rows.
THEOREM UploadsInvHolds == UploadsSpec => []UploadsInv
<1> QED
  BY UploadsInitially, UploadsInductive, PTL DEF UploadsSpec

---------------------------------------------------------------------------
(* The properties *)

\* However uploads, failures and workers interleave, a row of documents has
\* its complete file, of a size and type the upload accepts.
THEOREM DocumentHasItsFileHolds == UploadsSpec => []DocumentHasItsFile
<1>1. UploadsInv => DocumentHasItsFile
  <2> SUFFICES ASSUME UploadsInv PROVE DocumentHasItsFile
    OBVIOUS
  <2>1. rows \in Seq(Row) /\ disk \in Seq(StoredFile)
    BY DEF UploadsInv
  <2> SUFFICES ASSUME NEW r \in DOMAIN rows
               PROVE  /\ rows[r].id \in DOMAIN disk
                      /\ disk[rows[r].id] = [content |-> rows[r].content, bytes |-> "all"]
                      /\ rows[r].size <= MaxUploadSize
                      /\ rows[r].mime \in AllowedMimeTypes
    BY DEF DocumentHasItsFile
  <2>2. r \in 1..Len(rows) /\ rows[r] \in Row
    BY <2>1
  <2>3. RowInv(rows[r])
    BY <2>2 DEF UploadsInv
  <2>4. rows[r].id \in DOMAIN disk /\ disk[rows[r].id] \in StoredFile
    BY <2>1, <2>3 DEF RowInv
  <2>5. disk[rows[r].id] = [content |-> rows[r].content, bytes |-> "all"]
    BY <2>3, <2>4 DEF RowInv, StoredFile
  <2> QED
    BY <2>2, <2>3, <2>4, <2>5 DEF RowInv, Row
<1> QED
  BY <1>1, UploadsInvHolds, PTL

\* A client that was answered 201 finds its document.
THEOREM AcknowledgedIsStoredHolds == UploadsSpec => []AcknowledgedIsStored
<1>1. UploadsInv => AcknowledgedIsStored
  <2> SUFFICES ASSUME UploadsInv, NEW c \in Clients,
                      At(c, "answered"), upload[c].answer = 201
               PROVE  \E r \in DOMAIN rows : rows[r].id = upload[c].id
    BY DEF AcknowledgedIsStored
  <2>1. RequestInv(upload[c]) /\ rows \in Seq(Row)
    BY DEF UploadsInv
  <2>2. \E r \in 1..Len(rows) : rows[r].id = upload[c].id
    BY <2>1 DEF RequestInv, At
  <2> QED
    BY <2>1, <2>2
<1> QED
  BY <1>1, UploadsInvHolds, PTL

LEMMA UploadsInvSameBytes == UploadsInv => SameBytesProcessedOnce
<1> SUFFICES ASSUME UploadsInv, NEW r \in DOMAIN rows, NEW s \in DOMAIN rows,
                    rows[r].content = rows[s].content,
                    rows[r].status = "AUTO_PROCESSED", rows[s].status = "AUTO_PROCESSED"
             PROVE  Overlapped(r, s)
  BY DEF SameBytesProcessedOnce
<1>1. rows \in Seq(Row)
  BY DEF UploadsInv
<1>2. /\ r \in 1..Len(rows) /\ s \in 1..Len(rows)
      /\ rows[r] \in Row /\ rows[s] \in Row
  BY <1>1
<1>3. /\ EarlierUnseen(r) /\ EarlierUnseen(s)
      /\ RowInv(rows[r]) /\ RowInv(rows[s])
  BY <1>2 DEF UploadsInv, Passed
<1>4. /\ rows[r].createdAt \in Nat /\ rows[s].createdAt \in Nat
      /\ rows[r].committed \in Nat /\ rows[s].committed \in Nat
      /\ rows[r].createdAt < rows[r].committed /\ rows[s].createdAt < rows[s].committed
  BY <1>2, <1>3 DEF RowInv, Row
<1>5. /\ rows[r].createdAt < rows[s].createdAt => rows[s].committed < rows[r].committed
      /\ rows[s].createdAt < rows[r].createdAt => rows[r].committed < rows[s].committed
  BY <1>2, <1>3 DEF EarlierUnseen
<1> QED
  BY <1>4, <1>5 DEF Overlapped

\* Two documents with the same bytes that are both AUTO_PROCESSED were
\* inserted by transactions that overlapped: otherwise the later one's check
\* for an exact duplicate saw the earlier row.
THEOREM SameBytesProcessedOnceHolds == UploadsSpec => []SameBytesProcessedOnce
BY UploadsInvSameBytes, UploadsInvHolds, PTL

\* Every variable keeps its type, no request was read that is longer than
\* the limit on the body, and no file has two rows.
THEOREM UploadsTypeCorrect == UploadsSpec => []UploadsTypeOK
<1>1. UploadsInv => UploadsTypeOK
  <2> SUFFICES ASSUME UploadsInv PROVE UploadsTypeOK
    OBVIOUS
  <2>1. rows \in Seq(Row) /\ Len(rows) \in Nat
    BY DEF UploadsInv
  <2>2. ASSUME NEW c \in Clients
        PROVE  /\ upload[c].pc \in HandlerPc \ {"parse"} => BodyFits(File(c))
               /\ upload[c].id <= Len(disk) /\ upload[c].createdAt <= clock
    BY DEF UploadsInv, RequestInv, File
  <2>3. \A r, s \in DOMAIN rows : rows[r].id = rows[s].id => r = s
    BY <2>1 DEF UploadsInv
  <2>4. ASSUME NEW w \in Workers
        PROVE  worker[w] \in [pc : {"poll", "open", "check", "finalize"}, row : 0..Len(rows)]
    <3>1. worker[w] \in WorkerPlace /\ worker[w].row <= Len(rows)
      BY DEF UploadsInv
    <3>2. worker[w].row \in 0..Len(rows)
      BY <2>1, <3>1 DEF WorkerPlace
    <3> QED
      BY <3>1, <3>2 DEF WorkerPlace
  <2> QED
    BY <2>2, <2>3, <2>4 DEF UploadsTypeOK, UploadsInv
<1> QED
  BY <1>1, UploadsInvHolds, PTL

---------------------------------------------------------------------------
(* The page *)

PageStatus == {"none", "UPLOADED", "PENDING_REVIEW", "AUTO_PROCESSED", "FAILED"}

PageState == [document : Nat, status : PageStatus, busy : BOOLEAN]

GetState == [document : Nat, status : PageStatus \cup {"asked"}, from : Origin]

\* Where a request has the document its page will show
HasDocument(c) ==
    \/ upload[c].pc \in HasFile
    \/ upload[c].pc = "answered" /\ upload[c].answer = 201

NoUploadGet(c) == \A get \in gets[c] : get.from = "refresh"

\* A page shows documents it uploaded before, and so do its refreshes; what
\* it uploads now is newer, up to the read that follows the upload.
ClientInv(c) ==
    /\ page[c].document <= Len(disk)
    /\ \A get \in gets[c] : get.document <= Len(disk)
    /\ ~page[c].busy => upload[c].pc = "idle" /\ NoUploadGet(c)
    /\ upload[c].pc # "idle" => NoUploadGet(c)
    /\ HasDocument(c) =>
          /\ page[c].document < upload[c].id
          /\ \A get \in gets[c] : get.document < upload[c].id
    /\ \A get \in gets[c] : get.from = "upload" =>
          /\ page[c].document < get.document
          /\ \A other \in gets[c] :
                other = get \/ (other.from = "refresh" /\ other.document < get.document)

PageInv ==
    /\ UploadsInv
    /\ page \in [Clients -> PageState]
    /\ gets \in [Clients -> SUBSET GetState]
    /\ \A c \in Clients : ClientInv(c)

LEMMA PageInitially == PageInit => PageInv
<1> SUFFICES ASSUME PageInit PROVE PageInv
  OBVIOUS
<1>1. UploadsInv /\ Len(disk) = 0
  BY UploadsInitially DEF PageInit, UploadsInit
<1>2. [document |-> 0, status |-> "none", busy |-> FALSE] \in PageState
  BY DEF PageState, PageStatus
<1>3. page \in [Clients -> PageState] /\ gets \in [Clients -> SUBSET GetState]
  BY <1>2 DEF PageInit
<1>4. ASSUME NEW c \in Clients PROVE ClientInv(c)
  <2>1. /\ page[c].document = 0 /\ gets[c] = {} /\ upload[c] = Idle
    BY DEF PageInit, UploadsInit
  <2>2. upload[c].pc = "idle"
    BY <2>1 DEF Idle
  <2> QED
    BY <1>1, <2>1, <2>2 DEF ClientInv, HasDocument, NoUploadGet, HasFile
<1> QED
  BY <1>1, <1>3, <1>4 DEF PageInv

---------------------------------------------------------------------------
(* Steps of the API *)

\* What a step of a handler may do to the request it serves
LEMMA HandlerMoves ==
    ASSUME UploadsInv, NEW c \in Clients, HandlerStep(c) \/ CutOff(c)
    PROVE  /\ upload[c].pc # "idle"
           /\ \A d \in Clients \ {c} : upload'[d] = upload[d]
           /\ Len(disk) \in Nat /\ Len(disk') \in Nat /\ Len(disk) <= Len(disk')
           /\ HasDocument(c)' =>
                 \/ HasDocument(c) /\ upload'[c].id = upload[c].id
                 \/ upload'[c].id = Len(disk) + 1
<1> USE DEF At
<1>1. /\ upload \in [Clients -> Request] /\ upload[c] \in Request
      /\ disk \in Seq(StoredFile) /\ Len(disk) \in Nat
  BY DEF UploadsInv
<1>2. ASSUME NEW code \in {0, 201, 400, 413, 500}, Answer(c, code),
             code = 201 => upload[c].pc = "commit"
      PROVE  /\ \A d \in Clients \ {c} : upload'[d] = upload[d]
             /\ HasDocument(c)' => HasDocument(c) /\ upload'[c].id = upload[c].id
  <2>1. PICK req \in Request :
           /\ upload' = [upload EXCEPT ![c] = req]
           /\ req.pc = "answered" /\ req.answer = code /\ req.id = upload[c].id
    <3>1. code \in Codes
      BY DEF Codes
    <3> QED
      BY <1>2, <3>1, AnswerGives
  <2>2. upload'[c] = req /\ \A d \in Clients \ {c} : upload'[d] = upload[d]
    BY <1>1, <2>1
  <2> QED
    BY <1>2, <2>1, <2>2 DEF HasDocument, HasFile
<1>3. ASSUME NEW pc \in HandlerPc, Goto(c, pc),
             pc \in HasFile => upload[c].pc \in HasFile
      PROVE  /\ \A d \in Clients \ {c} : upload'[d] = upload[d]
             /\ HasDocument(c)' => HasDocument(c) /\ upload'[c].id = upload[c].id
  <2>1. [upload[c] EXCEPT !.pc = pc].pc = pc /\ [upload[c] EXCEPT !.pc = pc].id = upload[c].id
    BY <1>1 DEF Request
  <2>2. /\ upload'[c] = [upload[c] EXCEPT !.pc = pc]
        /\ \A d \in Clients \ {c} : upload'[d] = upload[d]
    BY <1>1, <1>3 DEF Goto
  <2> QED
    BY <1>3, <2>1, <2>2 DEF HasDocument, HasFile, HandlerPc
<1>4. CASE ParseForm(c)
  BY <1>1, <1>2, <1>3, <1>4 DEF ParseForm, HandlerPc, HasFile
<1>5. CASE ValidateFile(c)
  BY <1>1, <1>2, <1>3, <1>5 DEF ValidateFile, HandlerPc, HasFile
<1>6. CASE CreateFile(c)
  <2>1. CASE Answer(c, 500) /\ UNCHANGED disk
    BY <1>1, <1>2, <1>6, <2>1 DEF CreateFile
  <2>2. CASE ~(Answer(c, 500) /\ UNCHANGED disk)
    <3>1. /\ disk' = Append(disk, [content |-> File(c).content, bytes |-> "some"])
          /\ upload' = [upload EXCEPT ![c] = [@ EXCEPT !.pc = "copy", !.id = Len(disk) + 1]]
          /\ upload[c].pc = "create"
      BY <1>6, <2>2 DEF CreateFile
    <3>2. Len(disk') = Len(disk) + 1
      BY <1>1, <3>1
    <3>3. /\ upload'[c].id = Len(disk) + 1
          /\ \A d \in Clients \ {c} : upload'[d] = upload[d]
      BY <1>1, <3>1 DEF Request
    <3> QED
      BY <1>1, <3>1, <3>2, <3>3
  <2> QED
    BY <2>1, <2>2
<1>7. CASE CopyFile(c)
  <2>1. Len(disk') = Len(disk)
    BY <1>1, <1>7 DEF CopyFile, Copied
  <2> QED
    BY <1>1, <1>2, <1>3, <1>7, <2>1 DEF CopyFile, HandlerPc, HasFile
<1>8. CASE BeginInsert(c)
  <2>1. CASE Answer(c, 500) /\ UNCHANGED clock
    BY <1>1, <1>2, <1>8, <2>1 DEF BeginInsert
  <2>2. CASE ~(Answer(c, 500) /\ UNCHANGED clock)
    <3>1. /\ upload' = [upload EXCEPT ![c] = [@ EXCEPT !.pc = "commit", !.createdAt = clock + 1]]
          /\ upload[c].pc = "insert" /\ UNCHANGED disk
      BY <1>8, <2>2 DEF BeginInsert
    <3>2. /\ upload'[c].id = upload[c].id
          /\ \A d \in Clients \ {c} : upload'[d] = upload[d]
      BY <1>1, <3>1 DEF Request
    <3> QED
      BY <1>1, <3>1, <3>2 DEF HasDocument, HasFile
  <2> QED
    BY <2>1, <2>2
<1>9. CASE CommitInsert(c)
  BY <1>1, <1>2, <1>9 DEF CommitInsert
<1>10. CASE CutOff(c)
  BY <1>1, <1>2, <1>10 DEF CutOff, HandlerPc
<1> QED
  BY <1>4, <1>5, <1>6, <1>7, <1>8, <1>9, <1>10 DEF HandlerStep

---------------------------------------------------------------------------
(* Steps of the page *)

\* The page and the request of a client stay as they are.
LEMMA ClientKept ==
    ASSUME PageInv, NEW d \in Clients,
           upload'[d] = upload[d], page'[d] = page[d], gets'[d] = gets[d],
           Len(disk') \in Nat, Len(disk) <= Len(disk')
    PROVE  ClientInv(d)'
<1>1. /\ ClientInv(d) /\ page[d] \in PageState /\ gets[d] \subseteq GetState
      /\ Len(disk) \in Nat
  BY DEF PageInv, UploadsInv
<1>2. page[d].document \in Nat /\ \A get \in gets[d] : get.document \in Nat
  BY <1>1 DEF PageState, GetState
<1>3. /\ page'[d].document <= Len(disk')
      /\ \A get \in gets'[d] : get.document <= Len(disk')
  BY <1>1, <1>2 DEF ClientInv
<1>4. HasDocument(d)' <=> HasDocument(d)
  BY DEF HasDocument
<1>5. NoUploadGet(d)' <=> NoUploadGet(d)
  BY DEF NoUploadGet
<1> QED
  BY <1>1, <1>3, <1>4, <1>5 DEF ClientInv

\* What a page's own variables become does not matter to the uploads.
LEMMA UploadsKept ==
    ASSUME UploadsInv, UNCHANGED <<upload, disk, rows, clock, worker>>
    PROVE  UploadsInv'
<1>1. ASSUME NEW c \in Clients PROVE RequestInv(upload[c])'
  BY DEF UploadsInv, RequestInv
<1>2. ASSUME NEW r \in 1..Len(rows) PROVE RowInv(rows[r])'
  BY DEF UploadsInv, RowInv
<1>3. ASSUME NEW r \in 1..Len(rows), Passed(r)' PROVE EarlierUnseen(r)'
  <2>1. Passed(r)
    BY <1>3 DEF Passed
  <2>2. EarlierUnseen(r)
    BY <2>1 DEF UploadsInv
  <2> QED
    BY <2>2 DEF EarlierUnseen
<1> QED
  BY <1>1, <1>2, <1>3 DEF UploadsInv

\* From the state of one client to that of all
LEMMA ClientMoves ==
    ASSUME PageInv, UploadsInv', NEW c \in Clients,
           page' \in [Clients -> PageState], gets' \in [Clients -> SUBSET GetState],
           \A d \in Clients \ {c} :
              upload'[d] = upload[d] /\ page'[d] = page[d] /\ gets'[d] = gets[d],
           Len(disk) <= Len(disk'),
           ClientInv(c)'
    PROVE  PageInv'
<1>1. Len(disk') \in Nat
  BY DEF UploadsInv
<1>2. ASSUME NEW d \in Clients PROVE ClientInv(d)'
  BY <1>1, ClientKept
<1> QED
  BY <1>2 DEF PageInv

LEMMA GetIsState ==
    ASSUME NEW id \in Nat, NEW status \in PageStatus \cup {"asked"}, NEW from \in Origin
    PROVE  \E get \in GetState :
              /\ get = Get(id, status, from)
              /\ get.document = id /\ get.status = status /\ get.from = from
<1>1. Get(id, status, from) \in GetState
  BY DEF Get, GetState
<1>2. /\ Get(id, status, from).document = id
      /\ Get(id, status, from).status = status
      /\ Get(id, status, from).from = from
  BY DEF Get
<1> QED
  BY <1>1, <1>2

LEMMA HandlerKeepsPage ==
    ASSUME PageInv, NEW c \in Clients, HandlerStep(c) \/ CutOff(c), UNCHANGED pageVars
    PROVE  PageInv'
<1>1. UploadsInv /\ UploadsInv'
  BY ClientKeeps DEF PageInv
<1>2. /\ upload[c].pc # "idle"
      /\ \A d \in Clients \ {c} : upload'[d] = upload[d]
      /\ Len(disk) \in Nat /\ Len(disk') \in Nat /\ Len(disk) <= Len(disk')
      /\ HasDocument(c)' =>
            \/ HasDocument(c) /\ upload'[c].id = upload[c].id
            \/ upload'[c].id = Len(disk) + 1
  BY <1>1, HandlerMoves
<1>3. /\ ClientInv(c) /\ page[c] \in PageState /\ gets[c] \subseteq GetState
      /\ page' = page /\ gets' = gets
  BY DEF PageInv, pageVars
<1>4. page[c].document \in Nat /\ \A get \in gets[c] : get.document \in Nat
  BY <1>3 DEF PageState, GetState
<1>5. /\ page[c].busy /\ NoUploadGet(c)
      /\ page[c].document <= Len(disk) /\ \A get \in gets[c] : get.document <= Len(disk)
  BY <1>2, <1>3 DEF ClientInv, PageState
<1>6. HasDocument(c)' =>
         /\ page[c].document < upload'[c].id
         /\ \A get \in gets[c] : get.document < upload'[c].id
  <2>1. CASE HasDocument(c) /\ upload'[c].id = upload[c].id
    BY <1>3, <2>1 DEF ClientInv
  <2>2. CASE upload'[c].id = Len(disk) + 1
    BY <1>2, <1>4, <1>5, <2>2
  <2> QED
    BY <1>2, <2>1, <2>2
<1>7. page[c].document <= Len(disk') /\ \A get \in gets[c] : get.document <= Len(disk')
  BY <1>2, <1>4, <1>5
<1>8. NoUploadGet(c)' /\ \A get \in gets'[c] : get.from # "upload"
  BY <1>3, <1>5 DEF NoUploadGet
<1>9. ClientInv(c)'
  BY <1>3, <1>5, <1>6, <1>7, <1>8 DEF ClientInv
<1>10. ASSUME NEW d \in Clients PROVE ClientInv(d)'
  BY <1>2, <1>3, <1>9, ClientKept
<1> QED
  BY <1>1, <1>3, <1>10 DEF PageInv

LEMMA BusyState ==
    ASSUME PageInv, NEW c \in Clients, NEW busy \in BOOLEAN, SetBusy(c, busy)
    PROVE  \E shown \in PageState :
              /\ page' = [page EXCEPT ![c] = shown]
              /\ shown.busy = busy /\ shown.document = page[c].document
<1>1. PICK old \in PageState : old = page[c]
  BY DEF PageInv
<1>2. [old EXCEPT !.busy = busy] \in PageState
  BY DEF PageState
<1>3. PICK shown \in PageState : shown = [old EXCEPT !.busy = busy]
  BY <1>2
<1>4. shown.busy = busy /\ shown.document = old.document
  BY <1>3 DEF PageState
<1> QED
  BY <1>1, <1>3, <1>4 DEF SetBusy

LEMMA SubmitKeepsPage ==
    ASSUME PageInv, NEW c \in Clients, SubmitUpload(c)
    PROVE  PageInv'
<1>1. PICK file \in Files : SendFile(c, file)
  BY DEF SubmitUpload
<1>2. UploadsInv' /\ UNCHANGED <<disk, gets>>
  BY <1>1, ClientKeeps DEF PageInv, SendFile, SubmitUpload
<1>3. PICK shown \in PageState :
         /\ page' = [page EXCEPT ![c] = shown]
         /\ shown.busy = TRUE /\ shown.document = page[c].document
  BY BusyState DEF SubmitUpload
<1>4. /\ ClientInv(c) /\ NoUploadGet(c) /\ gets[c] \in SUBSET GetState
      /\ Len(disk) \in Nat
  BY DEF PageInv, SubmitUpload, ClientInv, UploadsInv
<1>5. /\ upload'[c].pc = "parse"
      /\ \A d \in Clients \ {c} : upload'[d] = upload[d]
  <2>1. [Idle EXCEPT !.pc = "parse", !.file = file].pc = "parse"
    BY DEF Idle
  <2> QED
    BY <1>1, <2>1 DEF SendFile, PageInv, UploadsInv
<1>6. /\ page' \in [Clients -> PageState] /\ gets' \in [Clients -> SUBSET GetState]
      /\ page'[c] = shown
      /\ \A d \in Clients \ {c} : page'[d] = page[d] /\ gets'[d] = gets[d]
  BY <1>2, <1>3 DEF PageInv
<1>7. ~HasDocument(c)'
  BY <1>5 DEF HasDocument, HasFile
<1>8. ClientInv(c)'
  BY <1>2, <1>3, <1>4, <1>6, <1>7 DEF ClientInv, NoUploadGet
<1> QED
  BY <1>2, <1>4, <1>5, <1>6, <1>8, ClientMoves

LEMMA ReceiveKeepsPage ==
    ASSUME PageInv, NEW c \in Clients, ReceiveAnswer(c)
    PROVE  PageInv'
<1>1. /\ TakeAnswer(c) /\ UNCHANGED disk
      /\ upload[c].pc = "answered"
  BY DEF ReceiveAnswer, TakeAnswer, At
<1>2. UploadsInv'
  BY <1>1, ClientKeeps DEF PageInv
<1>3. /\ ClientInv(c) /\ NoUploadGet(c) /\ gets[c] \in SUBSET GetState
      /\ page[c] \in PageState /\ page[c].busy /\ Len(disk) \in Nat
      /\ upload[c] \in Request /\ upload[c].id <= Len(disk)
  BY <1>1 DEF PageInv, ClientInv, UploadsInv, PageState, RequestInv
<1>4. /\ upload'[c].pc = "idle"
      /\ \A d \in Clients \ {c} : upload'[d] = upload[d]
  BY <1>1 DEF TakeAnswer, Idle, PageInv, UploadsInv
<1>5. ~HasDocument(c)'
  BY <1>4 DEF HasDocument, HasFile
<1>6. CASE upload[c].answer = 201
  <2>1. PICK get \in GetState :
           /\ get = Get(upload[c].id, "asked", "upload")
           /\ get.document = upload[c].id /\ get.from = "upload"
    <3>1. upload[c].id \in Nat
      BY <1>3 DEF Request
    <3> QED
      BY <3>1, GetIsState DEF Origin
  <2>2. PICK flying \in SUBSET GetState : flying = gets[c] \cup {get}
    BY <1>3
  <2>3. gets' = [gets EXCEPT ![c] = flying] /\ page' = page
    BY <1>6, <2>1, <2>2 DEF ReceiveAnswer
  <2>4. /\ page' \in [Clients -> PageState] /\ gets' \in [Clients -> SUBSET GetState]
        /\ gets'[c] = flying /\ page'[c] = page[c]
        /\ \A d \in Clients \ {c} : page'[d] = page[d] /\ gets'[d] = gets[d]
    BY <2>3 DEF PageInv
  <2>5. HasDocument(c)
    BY <1>1, <1>6 DEF HasDocument
  <2>6. /\ page[c].document < get.document
        /\ \A other \in gets[c] : other.from = "refresh" /\ other.document < get.document
    BY <1>3, <2>1, <2>5 DEF ClientInv, NoUploadGet
  <2>7. \A g \in flying : g.document <= Len(disk)
    BY <1>3, <2>1, <2>2 DEF ClientInv
  <2>8. ASSUME NEW g \in flying, g.from = "upload"
        PROVE  /\ page[c].document < g.document
               /\ \A other \in flying :
                     other = g \/ (other.from = "refresh" /\ other.document < g.document)
    <3>1. g = get
      BY <1>3, <2>2, <2>8 DEF NoUploadGet
    <3> QED
      BY <2>2, <2>6, <3>1
  <2>9. ClientInv(c)'
    BY <1>1, <1>3, <1>4, <1>5, <2>4, <2>7, <2>8 DEF ClientInv
  <2> QED
    BY <1>1, <1>2, <1>3, <1>4, <2>4, <2>9, ClientMoves
<1>7. CASE upload[c].answer # 201
  <2>1. PICK shown \in PageState :
           /\ page' = [page EXCEPT ![c] = shown]
           /\ shown.busy = FALSE /\ shown.document = page[c].document
    BY <1>7, BusyState DEF ReceiveAnswer
  <2>2. /\ page' \in [Clients -> PageState] /\ gets' \in [Clients -> SUBSET GetState]
        /\ page'[c] = shown /\ gets' = gets
        /\ \A d \in Clients \ {c} : page'[d] = page[d] /\ gets'[d] = gets[d]
    BY <1>7, <2>1 DEF ReceiveAnswer, PageInv
  <2>3. NoUploadGet(c)' /\ \A g \in gets'[c] : g.from # "upload"
    BY <1>3, <2>2 DEF NoUploadGet
  <2>4. ClientInv(c)'
    BY <1>1, <1>3, <1>4, <1>5, <2>1, <2>2, <2>3 DEF ClientInv
  <2> QED
    BY <1>1, <1>2, <1>3, <1>4, <2>2, <2>4, ClientMoves
<1> QED
  BY <1>6, <1>7

\* Reads that come and go, and pages that show what they brought
LEMMA GetKeepsPage ==
    ASSUME PageInv, NEW c \in Clients,
           \/ ClickRefresh(c)
           \/ \E from \in Origin : AnswerGet(c, from) \/ ShowDocument(c, from)
           \/ ShowGetFailed(c)
    PROVE  PageInv'
<1>1. UNCHANGED <<upload, disk, rows, clock, worker>>
  BY DEF ClickRefresh, AnswerGet, ShowDocument, ShowGetFailed, uploadVars
<1>2. UploadsInv'
  BY <1>1, UploadsKept DEF PageInv
<1>3. /\ ClientInv(c) /\ gets[c] \in SUBSET GetState /\ page[c] \in PageState
      /\ Len(disk) \in Nat
      /\ \A get \in gets[c] : get \in GetState /\ get.document \in Nat
  BY DEF PageInv, ClientInv, UploadsInv, GetState
<1>4. HasDocument(c)' <=> HasDocument(c)
  BY <1>1 DEF HasDocument
<1>5. CASE ClickRefresh(c)
  <2>1. PICK get \in GetState :
           /\ get = Get(page[c].document, "asked", "refresh")
           /\ get.document = page[c].document /\ get.from = "refresh"
    <3>1. page[c].document \in Nat
      BY <1>3 DEF PageState
    <3> QED
      BY <3>1, GetIsState DEF Origin
  <2>2. PICK flying \in SUBSET GetState : flying = gets[c] \cup {get}
    BY <1>3
  <2>3. gets' = [gets EXCEPT ![c] = flying] /\ page' = page
    BY <1>5, <2>1, <2>2 DEF ClickRefresh
  <2>4. /\ page' \in [Clients -> PageState] /\ gets' \in [Clients -> SUBSET GetState]
        /\ gets'[c] = flying /\ page'[c] = page[c]
        /\ \A d \in Clients \ {c} : page'[d] = page[d] /\ gets'[d] = gets[d]
    BY <2>3 DEF PageInv
  <2>5. NoUploadGet(c) => NoUploadGet(c)'
    BY <2>1, <2>2, <2>4 DEF NoUploadGet
  <2>6. ClientInv(c)'
    BY <1>1, <1>3, <1>4, <2>1, <2>2, <2>4, <2>5 DEF ClientInv
  <2> QED
    BY <1>1, <1>2, <1>3, <2>4, <2>6, ClientMoves
<1>6. CASE \E from \in Origin : AnswerGet(c, from)
  <2>1. PICK from \in Origin, get \in gets[c], r \in DOMAIN rows :
           /\ get.from = from
           /\ gets' = [gets EXCEPT ![c] =
                          (@ \ {get}) \cup {Get(get.document, rows[r].status, from)}]
           /\ page' = page
    BY <1>6 DEF AnswerGet
  <2>2. rows[r].status \in PageStatus
    <3>1. rows[r] \in Row
      BY DEF PageInv, UploadsInv
    <3> QED
      BY <3>1 DEF Row, PageStatus
  <2>3. PICK brought \in GetState :
           /\ brought = Get(get.document, rows[r].status, from)
           /\ brought.document = get.document /\ brought.from = get.from
    <3>1. get.document \in Nat
      BY <1>3
    <3> QED
      BY <2>1, <2>2, <3>1, GetIsState
  <2>4. PICK flying \in SUBSET GetState : flying = (gets[c] \ {get}) \cup {brought}
    BY <1>3
  <2>5. gets' = [gets EXCEPT ![c] = flying] /\ page' = page
    BY <2>1, <2>3, <2>4
  <2>6. /\ page' \in [Clients -> PageState] /\ gets' \in [Clients -> SUBSET GetState]
        /\ gets'[c] = flying /\ page'[c] = page[c]
        /\ \A d \in Clients \ {c} : page'[d] = page[d] /\ gets'[d] = gets[d]
    BY <2>5 DEF PageInv
  <2>7. NoUploadGet(c) => NoUploadGet(c)'
    BY <2>3, <2>4, <2>6 DEF NoUploadGet
  <2>8. ASSUME NEW g \in flying, g.from = "upload"
        PROVE  /\ page[c].document < g.document
               /\ \A other \in flying :
                     other = g \/ (other.from = "refresh" /\ other.document < g.document)
    <3>1. CASE g = brought
      BY <1>3, <2>3, <2>4, <2>8, <3>1 DEF ClientInv
    <3>2. CASE g # brought
      BY <1>3, <2>3, <2>4, <2>8, <3>2 DEF ClientInv
    <3> QED
      BY <3>1, <3>2
  <2>9. /\ \A g \in flying : g.document <= Len(disk)
        /\ HasDocument(c) => \A g \in flying : g.document < upload[c].id
    BY <1>3, <2>3, <2>4 DEF ClientInv
  <2>10. ClientInv(c)'
    BY <1>1, <1>3, <1>4, <2>6, <2>7, <2>8, <2>9 DEF ClientInv
  <2> QED
    BY <1>1, <1>2, <1>3, <2>6, <2>10, ClientMoves
<1>7. ASSUME NEW get \in gets[c], NEW shown \in PageState,
             gets' = [gets EXCEPT ![c] = @ \ {get}],
             page' = [page EXCEPT ![c] = shown],
             shown.document \in {page[c].document, get.document},
             shown.busy = (page[c].busy /\ get.from # "upload")
      PROVE  PageInv'
  <2>1. PICK flying \in SUBSET GetState : flying = gets[c] \ {get}
    BY <1>3
  <2>2. gets' = [gets EXCEPT ![c] = flying]
    BY <1>7, <2>1 DEF PageInv
  <2>3. /\ page' \in [Clients -> PageState] /\ gets' \in [Clients -> SUBSET GetState]
        /\ gets'[c] = flying /\ page'[c] = shown
        /\ \A d \in Clients \ {c} : page'[d] = page[d] /\ gets'[d] = gets[d]
    BY <1>7, <2>2 DEF PageInv
  <2>4. /\ shown.document <= Len(disk) /\ \A g \in flying : g.document <= Len(disk)
        /\ HasDocument(c) =>
              /\ shown.document < upload[c].id
              /\ \A g \in flying : g.document < upload[c].id
    BY <1>3, <1>7, <2>1 DEF ClientInv
  <2>5. NoUploadGet(c) => NoUploadGet(c)'
    BY <2>1, <2>3 DEF NoUploadGet
  <2>6. get.from = "upload" => upload[c].pc = "idle" /\ NoUploadGet(c)'
    BY <1>3, <2>1, <2>3 DEF ClientInv, NoUploadGet
  <2>7. ~shown.busy => upload[c].pc = "idle" /\ NoUploadGet(c)'
    BY <1>3, <1>7, <2>5, <2>6 DEF ClientInv
  <2>8. ASSUME NEW g \in flying, g.from = "upload"
        PROVE  /\ shown.document < g.document
               /\ \A other \in flying :
                     other = g \/ (other.from = "refresh" /\ other.document < g.document)
    BY <1>3, <1>7, <2>1, <2>8 DEF ClientInv
  <2>9. ClientInv(c)'
    BY <1>1, <1>3, <1>4, <2>3, <2>4, <2>5, <2>7, <2>8 DEF ClientInv
  <2> QED
    BY <1>1, <1>2, <1>3, <2>3, <2>9, ClientMoves
<1>8. CASE \E from \in Origin : ShowDocument(c, from)
  <2>1. PICK from \in Origin, get \in gets[c] :
           /\ get.from = from /\ get.status # "asked"
           /\ gets' = [gets EXCEPT ![c] = @ \ {get}]
           /\ page' = [page EXCEPT ![c] = [document |-> get.document, status |-> get.status,
                                           busy |-> @.busy /\ from # "upload"]]
    BY <1>8 DEF ShowDocument
  <2>2. PICK shown \in PageState :
           /\ shown = [document |-> get.document, status |-> get.status,
                       busy |-> page[c].busy /\ from # "upload"]
    BY <1>3, <2>1 DEF GetState, PageState
  <2>3. shown.document = get.document /\ shown.busy = (page[c].busy /\ get.from # "upload")
    BY <2>1, <2>2
  <2>4. page' = [page EXCEPT ![c] = shown]
    BY <2>1, <2>2
  <2> QED
    BY <1>7, <2>1, <2>3, <2>4
<1>9. CASE ShowGetFailed(c)
  <2>1. PICK get \in gets[c] :
           /\ gets' = [gets EXCEPT ![c] = @ \ {get}]
           /\ SetBusy(c, page[c].busy /\ get.from # "upload")
    BY <1>9 DEF ShowGetFailed
  <2>2. (page[c].busy /\ get.from # "upload") \in BOOLEAN
    BY <1>3 DEF PageState
  <2>3. PICK shown \in PageState :
           /\ page' = [page EXCEPT ![c] = shown]
           /\ shown.busy = (page[c].busy /\ get.from # "upload")
           /\ shown.document = page[c].document
    BY <2>1, <2>2, BusyState
  <2> QED
    BY <1>7, <2>1, <2>3
<1> QED
  BY <1>5, <1>6, <1>8, <1>9

---------------------------------------------------------------------------
(* The theorems *)

LEMMA PageInductive == PageInv /\ [PageNext]_allVars => PageInv'
<1> SUFFICES ASSUME PageInv, [PageNext]_allVars PROVE PageInv'
  OBVIOUS
<1>1. ASSUME NEW c \in Clients,
             \/ SubmitUpload(c) \/ ReceiveAnswer(c) \/ ClickRefresh(c)
             \/ \E from \in Origin : AnswerGet(c, from) \/ ShowDocument(c, from)
             \/ ShowGetFailed(c)
             \/ (HandlerStep(c) \/ CutOff(c)) /\ UNCHANGED pageVars
      PROVE  PageInv'
  BY <1>1, SubmitKeepsPage, ReceiveKeepsPage, GetKeepsPage, HandlerKeepsPage
<1>2. ASSUME NEW w \in Workers, WorkerStep(w), UNCHANGED pageVars PROVE PageInv'
  <2>1. UploadsInv'
    BY <1>2, WorkerKeeps DEF PageInv
  <2>2. UNCHANGED <<upload, disk, page, gets>>
    BY <1>2 DEF WorkerStep, ClaimNextUploaded, OpenFile, CheckExactDuplicate,
                FinalizeDocument, FailRun, OnlyWorker, pageVars
  <2>3. ASSUME NEW d \in Clients PROVE ClientInv(d)'
    BY <2>2, ClientKept DEF PageInv, UploadsInv
  <2> QED
    BY <2>1, <2>2, <2>3 DEF PageInv
<1>3. CASE UNCHANGED allVars
  <2>1. UNCHANGED <<upload, disk, rows, clock, worker, page, gets>>
    BY <1>3 DEF allVars, uploadVars, pageVars
  <2>2. UploadsInv'
    BY <2>1, UploadsKept DEF PageInv
  <2>3. ASSUME NEW d \in Clients PROVE ClientInv(d)'
    BY <2>1, ClientKept DEF PageInv, UploadsInv
  <2> QED
    BY <2>1, <2>2, <2>3 DEF PageInv
<1> QED
  BY <1>1, <1>2, <1>3 DEF PageNext

THEOREM PageInvHolds == PageSpec => []PageInv
BY PageInitially, PageInductive, PTL DEF PageSpec

\* A page goes back to an earlier document only where a refresh of that one
\* is answered late, however many clients, reads and failures there are.
THEOREM PageMovesForwardHolds == PageSpec => PageMovesForward
<1>1. ASSUME PageInv, [PageNext]_allVars,
             NEW c \in Clients, page'[c].document # page[c].document
      PROVE  \/ page'[c].document > page[c].document
             \/ \E get \in gets[c] :
                   get.document = page'[c].document /\ get.from = "refresh"
  <2>1. \A d \in Clients : page[d] \in PageState
    BY <1>1 DEF PageInv
  <2>2. \A d \in Clients, busy \in BOOLEAN :
           SetBusy(d, busy) => page'[c].document = page[c].document
    <3> SUFFICES ASSUME NEW d \in Clients, NEW busy \in BOOLEAN, SetBusy(d, busy)
                 PROVE  page'[c].document = page[c].document
      OBVIOUS
    <3>1. PICK shown \in PageState :
             page' = [page EXCEPT ![d] = shown] /\ shown.document = page[d].document
      BY <1>1, BusyState
    <3> QED
      BY <1>1, <3>1 DEF PageInv
  <2>3. PICK d \in Clients, from \in Origin : ShowDocument(d, from)
    <3>1. \A d \in Clients : ~SubmitUpload(d)
      BY <1>1, <2>2 DEF SubmitUpload
    <3>2. \A d \in Clients : ~ReceiveAnswer(d)
      BY <1>1, <2>2 DEF ReceiveAnswer
    <3>3. \A d \in Clients : ~ShowGetFailed(d)
      <4>1. \A d \in Clients : \A get \in gets[d] :
               (page[d].busy /\ get.from # "upload") \in BOOLEAN
        BY <2>1 DEF PageState
      <4> QED
        BY <1>1, <2>2, <4>1 DEF ShowGetFailed
    <3>4. \A d \in Clients : ~ClickRefresh(d) /\ \A from \in Origin : ~AnswerGet(d, from)
      BY <1>1 DEF ClickRefresh, AnswerGet
    <3>5. ~UNCHANGED pageVars /\ ~UNCHANGED allVars
      BY <1>1 DEF allVars, pageVars
    <3> QED
      BY <1>1, <3>1, <3>2, <3>3, <3>4, <3>5 DEF PageNext
  <2>4. PICK get \in gets[d] :
           /\ get.from = from
           /\ page' = [page EXCEPT ![d] = [document |-> get.document, status |-> get.status,
                                           busy |-> @.busy /\ from # "upload"]]
    BY <2>3 DEF ShowDocument
  <2>5. d = c /\ page'[c].document = get.document
    BY <1>1, <2>4 DEF PageInv
  <2>6. /\ ClientInv(c) /\ get.from \in Origin
        /\ get.document \in Nat /\ page[c].document \in Nat
    <3>1. get \in GetState
      BY <1>1, <2>4 DEF PageInv
    <3> QED
      BY <1>1, <2>1, <3>1 DEF PageInv, GetState, PageState
  <2>7. CASE get.from = "upload"
    BY <2>4, <2>5, <2>6, <2>7 DEF ClientInv
  <2>8. CASE get.from = "refresh"
    BY <2>4, <2>5, <2>8
  <2> QED
    BY <2>6, <2>7, <2>8 DEF Origin
<1>2. PageInv /\ [PageNext]_allVars
        => [\A c \in Clients :
              LET before == page[c].document
                  after == page'[c].document
              IN  after # before =>
                     \/ after > before
                     \/ \E get \in gets[c] : get.document = after /\ get.from = "refresh"]_page
  BY <1>1
<1> QED
  BY <1>2, PageInvHolds, PTL DEF PageSpec, PageMovesForward

\* What is proved of the uploads holds with the page and its reads, too.
THEOREM PageSameBytes == PageSpec => []SameBytesProcessedOnce
<1>1. PageInv => SameBytesProcessedOnce
  BY UploadsInvSameBytes DEF PageInv
<1> QED
  BY <1>1, PageInvHolds, PTL
=============================================================================
