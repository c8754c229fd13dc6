-------------------------- MODULE IngestionProofs --------------------------
(***************************************************************************)
(* Theorems about Ingestion, for every set of documents, people, keys,     *)
(* requests and workers and every bound, checked by TLAPS.                 *)
(***************************************************************************)
EXTENDS Ingestion, TLAPS, SequenceTheorems

UploadLabels == {"upload.insert", "upload.publish", "upload.commit"}
RowLabels == {"retry.update", "retry.publish", "retry.commit", "shred.update",
              "shred.destroy", "shred.forget", "admin.update", "admin.publish"}
WorkerLabels == {"read", "fetch", "write", "fail", "ack", "reject"}

-----------------------------------------------------------------------------
(* Types *)

\* A request's label tells its type.
LEMMA RequestKinds ==
    ASSUME NEW q \in Request
    PROVE  /\ q.at \in UploadLabels => q \in UploadReq
           /\ q.at \in RowLabels => q \in RowReq
           /\ q # Idle => q.me \in People /\ q.doc \in Docs
  BY DEF Request, Idle, UploadReq, RowReq, UploadLabels, RowLabels

\* A worker that is not idle handles a message.
LEMMA WorkerKinds ==
    ASSUME NEW q \in Worker
    PROVE  /\ q.at \in WorkerLabels => q \in Handling
           /\ q # Idle => q \in Handling
  BY DEF Worker, Idle, Handling, WorkerLabels

\* Moving a request to a label of its own kind keeps the requests well-typed.
LEMMA GoType ==
    ASSUME TypeOK, NEW r \in Requests, NEW at, Go(r, at),
           \/ req[r].at \in UploadLabels /\ at \in UploadLabels
           \/ req[r].at \in RowLabels /\ at \in RowLabels
    PROVE  req' \in [Requests -> Request]
<1>1. req[r] \in Request
  BY DEF TypeOK
<1>2. [req[r] EXCEPT !.at = at] \in Request
  <2>1. CASE req[r].at \in UploadLabels /\ at \in UploadLabels
    <3>1. req[r] \in UploadReq
      BY <1>1, <2>1, RequestKinds
    <3> QED BY <2>1, <3>1 DEF UploadReq, Request, UploadLabels
  <2>2. CASE req[r].at \in RowLabels /\ at \in RowLabels
    <3>1. req[r] \in RowReq
      BY <1>1, <2>2, RequestKinds
    <3> QED BY <2>2, <3>1 DEF RowReq, Request, RowLabels
  <2> QED BY <2>1, <2>2
<1> QED BY <1>2 DEF Go, TypeOK

\* So does finishing it.
LEMMA FinishType ==
    ASSUME TypeOK, NEW r \in Requests, Finish(r)
    PROVE  req' \in [Requests -> Request]
  BY DEF TypeOK, Finish, Request

\* Announcing a document adds one message about it and keeps the others.
LEMMA PublishType ==
    ASSUME TypeOK, NEW me \in People, NEW d \in Docs, Publish(me, d)
    PROVE  /\ msgs' \in Seq(Message)
           /\ DOMAIN msgs \subseteq DOMAIN msgs'
           /\ \A n \in DOMAIN msgs : msgs'[n] = msgs[n]
           /\ \E n \in DOMAIN msgs' : msgs'[n].doc = d
<1> DEFINE m == [doc |-> d, by |-> me, state |-> "new", deliveries |-> 0]
<1>1. m \in Message
  BY ConstantsAssumption DEF Message
<1>2. msgs \in Seq(Message) /\ msgs' = Append(msgs, m)
  BY DEF TypeOK, Publish
<1>3. /\ msgs' \in Seq(Message)
      /\ Len(msgs) \in Nat /\ Len(msgs') = Len(msgs) + 1
      /\ DOMAIN msgs = 1..Len(msgs) /\ DOMAIN msgs' = 1..Len(msgs')
      /\ \A n \in 1..Len(msgs) : msgs'[n] = msgs[n]
      /\ msgs'[Len(msgs) + 1] = m
  <2> HIDE DEF m
  <2> QED BY <1>1, <1>2, AppendProperties, LenProperties
<1>4. Len(msgs) + 1 \in DOMAIN msgs' /\ msgs'[Len(msgs) + 1].doc = d
  BY <1>3
<1> QED BY <1>3, <1>4

\* Moving a worker to another step of its message keeps the workers well-typed.
LEMMA WorkType ==
    ASSUME TypeOK, NEW w \in Workers, NEW at \in WorkerLabels, Work(w, at),
           worker[w].at \in WorkerLabels
    PROVE  /\ worker' \in [Workers -> Worker]
           /\ \A v \in Workers : worker'[v] # Idle =>
                 worker[v] # Idle /\ worker'[v].msg = worker[v].msg
<1>1. worker[w] \in Handling /\ worker[w] # Idle
  BY WorkerKinds DEF TypeOK, WorkerLabels, Idle
<1>2. /\ [worker[w] EXCEPT !.at = at] \in Handling
      /\ [worker[w] EXCEPT !.at = at].msg = worker[w].msg
  BY <1>1 DEF Handling, WorkerLabels
<1> QED BY <1>1, <1>2 DEF Work, TypeOK, Worker

\* The messages keep their number and what they say, whatever their state.
SameMessages ==
    /\ msgs' \in Seq(Message)
    /\ DOMAIN msgs' = DOMAIN msgs
    /\ \A n \in DOMAIN msgs : msgs'[n].doc = msgs[n].doc /\ msgs'[n].by = msgs[n].by

\* Changing the state of one message.
LEMMA MessageStep ==
    ASSUME TypeOK, NEW n \in DOMAIN msgs, NEW m \in Message,
           m.doc = msgs[n].doc, m.by = msgs[n].by,
           msgs' = [msgs EXCEPT ![n] = m]
    PROVE  SameMessages
<1>1. msgs \in Seq(Message)
  BY DEF TypeOK
<1>2. msgs' \in Seq(Message) /\ DOMAIN msgs' = DOMAIN msgs
  BY <1>1, ExceptSeq, LenProperties
<1> QED BY <1>2 DEF SameMessages

LEMMA InitType == Init => TypeOK
<1> SUFFICES ASSUME Init PROVE TypeOK
  OBVIOUS
<1>1. Absent \in Document /\ 0 \in 0..MaxChunks /\ 0 \in 0..MaxCrashes
  BY ConstantsAssumption DEF Absent, Document
<1>2. <<>> \in Seq(Message)
  BY EmptySeq
<1> QED BY <1>1, <1>2 DEF Init, TypeOK, Request, Worker

\* Setting a status keeps the rows well-typed.
LEMMA StatusType ==
    ASSUME TypeOK, NEW d \in Docs, NEW status \in {"pending", "processed", "failed"},
           SetStatus(d, status)
    PROVE  doc' \in [Docs -> Document]
<1>1. [doc[d] EXCEPT !.status = status] \in Document
  BY DEF TypeOK, Document
<1> QED BY <1>1 DEF SetStatus, TypeOK

\* The requests.
LEMMA StartType ==
    ASSUME TypeOK, NEW r \in Requests, Start(r)
    PROVE  TypeOK'
<1> PICK me \in People, d \in Docs :
        \/ \E k \in Keys \cup {NoKey} : UploadFind(r, me, d, k)
        \/ RetryFind(r, me, d) \/ AdminFind(r, me, d) \/ ShredFind(r, me, d)
  BY DEF Start
<1>1. CASE \E k \in Keys \cup {NoKey} : UploadFind(r, me, d, k)
  <2> PICK k \in Keys \cup {NoKey} : UploadFind(r, me, d, k)
    BY <1>1
  <2>1. [at |-> "upload.insert", me |-> me, doc |-> d, key |-> k] \in Request
    BY DEF Request, UploadReq
  <2> QED BY <2>1 DEF UploadFind, TypeOK
<1>2. ASSUME NEW at \in RowLabels,
             req' = [req EXCEPT ![r] = [at |-> at, me |-> me, doc |-> d]],
             UNCHANGED <<doc, blob, chunks, msgs, may, worker, crashes>>
      PROVE  TypeOK'
  <2>1. [at |-> at, me |-> me, doc |-> d] \in Request
    BY <1>2 DEF Request, RowReq, RowLabels
  <2> QED BY <1>2, <2>1 DEF TypeOK
<1>3. CASE RetryFind(r, me, d)
  BY <1>2, <1>3 DEF RetryFind, RowLabels
<1>4. CASE AdminFind(r, me, d)
  BY <1>2, <1>4 DEF AdminFind, RowLabels
<1>5. CASE ShredFind(r, me, d)
  BY <1>2, <1>5 DEF ShredFind, RowLabels
<1> QED BY <1>1, <1>3, <1>4, <1>5

LEMMA PublishStepType ==
    ASSUME TypeOK, NEW r \in Requests, NEW from, NEW to, PublishStep(r, from, to),
           \/ from \in UploadLabels /\ to \in UploadLabels
           \/ from \in RowLabels /\ to \in RowLabels \cup {"idle"}
    PROVE  TypeOK'
<1>1. req[r] \in Request /\ req[r] # Idle
  BY DEF TypeOK, PublishStep, Idle, UploadLabels, RowLabels
<1>2. req[r].me \in People /\ req[r].doc \in Docs
  BY <1>1, RequestKinds
<1>3. /\ msgs' \in Seq(Message)
      /\ DOMAIN msgs \subseteq DOMAIN msgs'
  BY <1>2, PublishType DEF PublishStep
<1>4. req' \in [Requests -> Request]
  <2>1. CASE to = "idle"
    BY <2>1, FinishType DEF PublishStep
  <2>2. CASE to # "idle"
    BY <2>2, GoType DEF PublishStep
  <2> QED BY <2>1, <2>2
<1> QED BY <1>3, <1>4 DEF TypeOK, PublishStep

LEMMA UpdateStepType ==
    ASSUME TypeOK, NEW r \in Requests, NEW from \in RowLabels, NEW to \in RowLabels,
           UpdateStep(r, from, to)
    PROVE  TypeOK'
<1>1. req' \in [Requests -> Request]
  <2>1. CASE can_write_document(req[r].me)
    BY <2>1, GoType DEF UpdateStep
  <2>2. CASE ~can_write_document(req[r].me)
    BY <2>2, FinishType DEF UpdateStep
  <2> QED BY <2>1, <2>2
<1> QED BY <1>1 DEF TypeOK, UpdateStep

LEMMA ContinueType ==
    ASSUME TypeOK, NEW r \in Requests, Continue(r)
    PROVE  TypeOK'
<1> USE DEF UploadLabels, RowLabels
<1>1. CASE UploadInsert(r)
  <2>1. req' \in [Requests -> Request]
    <3>1. CASE can_write_document(req[r].me) /\ KeyFree(req[r].key)
      BY <1>1, <3>1, GoType DEF UploadInsert
    <3>2. CASE ~(can_write_document(req[r].me) /\ KeyFree(req[r].key))
      BY <1>1, <3>2, FinishType DEF UploadInsert
    <3> QED BY <3>1, <3>2
  <2> QED BY <1>1, <2>1 DEF UploadInsert, TypeOK
<1>2. CASE UploadPublish(r)
  BY <1>2, PublishStepType DEF UploadPublish
<1>3. CASE UploadCommit(r)
  <2>1. req[r] \in UploadReq
    BY <1>3, RequestKinds DEF UploadCommit, TypeOK
  <2>2. Uploaded(req[r].key) \in Document /\ req[r].doc \in Docs
    BY <2>1 DEF UploadReq, Uploaded, Document
  <2>3. doc' \in [Docs -> Document]
    BY <1>3, <2>2 DEF UploadCommit, TypeOK
  <2> QED BY <1>3, <2>3, FinishType DEF UploadCommit, TypeOK
<1>4. CASE RetryUpdate(r)
  BY <1>4, UpdateStepType DEF RetryUpdate
<1>5. CASE RetryPublish(r)
  BY <1>5, PublishStepType DEF RetryPublish
<1>6. CASE RetryCommit(r)
  <2>1. req[r].doc \in Docs
    BY <1>6, RequestKinds DEF RetryCommit, TypeOK, RowReq
  <2>2. doc' \in [Docs -> Document]
    BY <1>6, <2>1, StatusType DEF RetryCommit
  <2> QED BY <1>6, <2>2, FinishType DEF RetryCommit, TypeOK
<1>7. CASE AdminUpdate(r)
  <2>1. req[r].doc \in Docs
    BY <1>7, RequestKinds DEF AdminUpdate, TypeOK, RowReq
  <2>2. doc' \in [Docs -> Document]
    BY <1>7, <2>1, StatusType DEF AdminUpdate
  <2> QED BY <1>7, <2>2, GoType DEF AdminUpdate, TypeOK
<1>8. CASE AdminPublish(r)
  BY <1>8, PublishStepType DEF AdminPublish
<1>9. CASE ShredUpdate(r)
  BY <1>9, UpdateStepType DEF ShredUpdate
<1>10. CASE ShredDestroy(r)
  BY <1>10, GoType DEF ShredDestroy, BlobsWithout, TypeOK
<1>11. CASE ShredForget(r)
  <2>1. req[r].doc \in Docs
    BY <1>11, RequestKinds DEF ShredForget, TypeOK, RowReq
  <2>2. [doc[req[r].doc] EXCEPT !.status = "deleted", !.refs = FALSE] \in Document
    BY <2>1 DEF TypeOK, Document
  <2>3. doc' \in [Docs -> Document]
    BY <1>11, <2>1, <2>2 DEF ShredForget, TypeOK
  <2> QED BY <1>11, <2>3, FinishType DEF ShredForget, TypeOK
<1> QED BY <1>1, <1>2, <1>3, <1>4, <1>5, <1>6, <1>7, <1>8, <1>9, <1>10, <1>11
         DEF Continue

\* The workers.
LEMMA TakeType ==
    ASSUME TypeOK, NEW w \in Workers, NEW n \in DOMAIN msgs,
           NEW tries \in 1..MAX_DELIVERIES, Take(w, n, tries)
    PROVE  TypeOK' /\ SameMessages
<1> DEFINE m == [msgs[n] EXCEPT !.state = "delivered", !.deliveries = tries]
<1>1. msgs[n] \in Message /\ n \in Nat
  BY ElementOfSeq, LenProperties DEF TypeOK
<1>2. m \in Message /\ m.doc = msgs[n].doc /\ m.by = msgs[n].by
  <2>1. tries \in 0..MAX_DELIVERIES
    BY ConstantsAssumption
  <2> QED BY <1>1, <2>1 DEF Message
<1>3. msgs' = [msgs EXCEPT ![n] = m]
  BY <1>1, LenProperties DEF Take, TypeOK
<1>4. SameMessages
  <2> HIDE DEF m
  <2> QED BY <1>2, <1>3, MessageStep
<1>5. [at |-> "read", msg |-> n, tries |-> tries, refs |-> FALSE] \in Handling
  BY <1>1 DEF Handling
<1>6. /\ worker' \in [Workers -> Worker]
      /\ \A v \in Workers : worker'[v] # Idle =>
            (v = w /\ worker'[v].msg = n) \/ worker'[v] = worker[v]
  BY <1>5 DEF Take, TypeOK, Worker
<1>7. \A v \in Workers : worker'[v] # Idle => worker'[v].msg \in DOMAIN msgs'
  BY <1>4, <1>6 DEF TypeOK, SameMessages
<1> QED BY <1>4, <1>6, <1>7 DEF Take, TypeOK, SameMessages

LEMMA ConsumeType ==
    ASSUME TypeOK, NEW w \in Workers, Consume(w)
    PROVE  TypeOK' /\ SameMessages
<1>1. CASE Deliver(w)
  <2>1. PICK n \in InState("new") : Take(w, n, 1)
    BY <1>1 DEF Deliver
  <2> QED BY <2>1, TakeType, ConstantsAssumption DEF InState
<1>2. CASE Reclaim(w)
  <2> DEFINE tries(n) == IF msgs[n].deliveries < MAX_DELIVERIES
                         THEN msgs[n].deliveries + 1 ELSE MAX_DELIVERIES
  <2>1. PICK n \in InState("delivered") : Take(w, n, tries(n))
    BY <1>2 DEF Reclaim
  <2>2. n \in DOMAIN msgs /\ msgs[n] \in Message
    BY <2>1, ElementOfSeq, LenProperties DEF InState, TypeOK
  <2>3. tries(n) \in 1..MAX_DELIVERIES
    BY <2>2, ConstantsAssumption DEF Message
  <2> QED BY <2>1, <2>2, <2>3, TakeType
<1> QED BY <1>1, <1>2 DEF Consume

LEMMA SettleType ==
    ASSUME TypeOK, NEW w \in Workers, worker[w].at \in WorkerLabels,
           NEW state \in {"acked", "dead"}, Settle(w, state),
           UNCHANGED <<doc, blob, chunks, may, req, crashes>>
    PROVE  TypeOK' /\ SameMessages
<1> DEFINE n == worker[w].msg
           to == IF msgs[n].state = "dead" THEN msgs[n].state ELSE state
           m == [msgs[n] EXCEPT !.state = to]
<1>1. worker[w] # Idle /\ n \in DOMAIN msgs
  BY DEF TypeOK, WorkerLabels, Idle
<1>2. msgs[n] \in Message
  BY <1>1, ElementOfSeq, LenProperties DEF TypeOK
<1>3. m \in Message /\ m.doc = msgs[n].doc /\ m.by = msgs[n].by
  <2>1. to \in {"acked", "dead"}
    OBVIOUS
  <2> HIDE DEF n, to
  <2> QED BY <1>2, <2>1 DEF Message
<1>4. msgs' = [msgs EXCEPT ![n] = m]
  BY <1>1 DEF Settle
<1>5. SameMessages
  <2> HIDE DEF n, m
  <2> QED BY <1>1, <1>3, <1>4, MessageStep
<1>6. worker' = [worker EXCEPT ![w] = Idle]
  BY DEF Settle
<1> QED BY <1>5, <1>6 DEF TypeOK, SameMessages, Worker

\* The message a worker handles, and the document the message names.
LEMMA HandledType ==
    ASSUME TypeOK, NEW w \in Workers, worker[w].at \in WorkerLabels
    PROVE  /\ worker[w] \in Handling /\ worker[w].msg \in DOMAIN msgs
           /\ Handled(w) \in Message /\ Handled(w).doc \in Docs
<1>1. worker[w] # Idle /\ worker[w] \in Handling /\ worker[w].msg \in DOMAIN msgs
  BY WorkerKinds DEF TypeOK, WorkerLabels, Idle
<1>2. Handled(w) \in Message
  BY <1>1, ElementOfSeq, LenProperties DEF TypeOK, Handled
<1> QED BY <1>1, <1>2 DEF Message

\* A step that does not touch the messages leaves them the same.
LEMMA UntouchedMessages == TypeOK /\ UNCHANGED msgs => SameMessages
  BY DEF TypeOK, SameMessages

LEMMA HandleType ==
    ASSUME TypeOK, NEW w \in Workers, Handle(w) \/ TransactionFails(w) \/ Crash(w)
    PROVE  TypeOK' /\ SameMessages
<1> USE DEF WorkerLabels
<1>1. CASE Read(w)
  <2> DEFINE at == IF \/ Handled(w).doc \notin Rows
                      \/ ~can_read_document(Handled(w).by)
                      \/ doc[Handled(w).doc].status = "processed"
                   THEN "ack" ELSE "fetch"
             q == [worker[w] EXCEPT !.at = at, !.refs = doc[Handled(w).doc].refs]
  <2>1. worker[w] \in Handling /\ worker[w].msg \in DOMAIN msgs /\ Handled(w).doc \in Docs
    BY <1>1, HandledType DEF Read
  <2>2. doc[Handled(w).doc].refs \in BOOLEAN
    BY <2>1 DEF TypeOK, Document
  <2>3. q \in Handling /\ q.msg = worker[w].msg
    BY <2>1, <2>2 DEF Handling
  <2>4. worker' = [worker EXCEPT ![w] = q]
    BY <1>1 DEF Read
  <2>5. /\ worker' \in [Workers -> Worker]
        /\ \A v \in Workers : worker'[v] # Idle => worker'[v].msg \in DOMAIN msgs
    <3> HIDE DEF q
    <3> QED BY <2>1, <2>3, <2>4 DEF TypeOK, Worker
  <2> QED BY <1>1, <2>5, UntouchedMessages DEF Read, TypeOK
<1>2. CASE Fetch(w)
  <2>1. PICK at \in {"write", "fail"} : Work(w, at)
    BY <1>2 DEF Fetch
  <2> QED BY <1>2, <2>1, WorkType, UntouchedMessages DEF Fetch, TypeOK
<1>3. CASE Write(w)
  <2>1. Handled(w).doc \in Docs
    BY <1>3, HandledType DEF Write
  <2>2. \E at \in {"ack", "reject"} : Work(w, at)
    BY <1>3 DEF Write
  <2>3. /\ worker' \in [Workers -> Worker]
        /\ \A v \in Workers : worker'[v] # Idle => worker'[v].msg \in DOMAIN msgs
    BY <1>3, <2>2, WorkType DEF Write, TypeOK
  <2>4. doc' \in [Docs -> Document] /\ chunks' \in [Docs -> 0..MaxChunks]
    <3>1. CASE can_write_document(Handled(w).by)
      <4>1. Recount(chunks[Handled(w).doc]) \in 0..MaxChunks
        BY <2>1, ConstantsAssumption DEF Recount, TypeOK
      <4>2. chunks' \in [Docs -> 0..MaxChunks]
        BY <1>3, <3>1, <4>1 DEF Write, TypeOK
      <4>3. SetStatus(Handled(w).doc, "processed")
        BY <1>3, <3>1 DEF Write
      <4> QED BY <2>1, <4>2, <4>3, StatusType
    <3>2. CASE ~can_write_document(Handled(w).by)
      BY <1>3, <3>2 DEF Write, TypeOK
    <3> QED BY <3>1, <3>2
  <2> QED BY <1>3, <2>3, <2>4, UntouchedMessages DEF Write, TypeOK
<1>4. CASE RecordFailure(w)
  <2>1. Handled(w).doc \in Docs
    BY <1>4, HandledType DEF RecordFailure
  <2>2. \E at \in {"ack", "reject"} : Work(w, at)
    BY <1>4 DEF RecordFailure
  <2>3. /\ worker' \in [Workers -> Worker]
        /\ \A v \in Workers : worker'[v] # Idle => worker'[v].msg \in DOMAIN msgs
    BY <1>4, <2>2, WorkType DEF RecordFailure, TypeOK
  <2>4. doc' \in [Docs -> Document]
    BY <1>4, <2>1, StatusType DEF RecordFailure, TypeOK
  <2> QED BY <1>4, <2>3, <2>4, UntouchedMessages DEF RecordFailure, TypeOK
<1>5. CASE Acknowledge(w)
  BY <1>5, SettleType DEF Acknowledge
<1>6. CASE Rejected(w)
  <2>1. CASE GivesUp(worker[w].tries)
    BY <1>6, <2>1, SettleType DEF Rejected
  <2>2. CASE ~GivesUp(worker[w].tries)
    BY <1>6, <2>2, UntouchedMessages DEF Rejected, TypeOK, Worker
  <2> QED BY <2>1, <2>2
<1>7. CASE TransactionFails(w)
  BY <1>7, WorkType, UntouchedMessages DEF TransactionFails, TypeOK
<1>8. CASE Crash(w)
  <2>1. crashes' \in 0..MaxCrashes
    BY <1>8, ConstantsAssumption DEF Crash, TypeOK
  <2> QED BY <1>8, <2>1, UntouchedMessages DEF Crash, TypeOK, Worker
<1> QED BY <1>1, <1>2, <1>3, <1>4, <1>5, <1>6, <1>7, <1>8 DEF Handle

LEMMA NextType == TypeOK /\ [Next]_vars => TypeOK'
<1> SUFFICES ASSUME TypeOK, [Next]_vars PROVE TypeOK'
  OBVIOUS
<1>1. CASE \E r \in Requests : Start(r) \/ Continue(r)
  BY <1>1, StartType, ContinueType
<1>2. CASE \E r \in Requests : Fail(r)
  BY <1>2, FinishType DEF Fail, TypeOK
<1>3. CASE \E w \in Workers : Consume(w) \/ Handle(w) \/ TransactionFails(w) \/ Crash(w)
  BY <1>3, ConsumeType, HandleType
<1>4. CASE \E me \in People, role \in {"none", "read", "write"} : AccessChanges(me, role)
  BY <1>4 DEF AccessChanges, TypeOK
<1>5. CASE UNCHANGED vars
  BY <1>5 DEF vars, TypeOK
<1> QED BY <1>1, <1>2, <1>3, <1>4, <1>5 DEF Next

\* Rows, messages, requests and workers keep their types, and a worker's message is in
\* the stream, for every number of documents, requests and workers.
THEOREM TypeCorrect == Spec => []TypeOK
<1> QED BY InitType, NextType, PTL DEF Spec

-----------------------------------------------------------------------------
(* Rows and announcements last *)

\* No step removes a row, and every message goes on naming its document.
Lasting ==
    /\ Rows \subseteq Rows'
    /\ DOMAIN msgs \subseteq DOMAIN msgs'
    /\ \A n \in DOMAIN msgs : msgs'[n].doc = msgs[n].doc

\* Setting a status adds no row but that of the document, and touches no reference.
LEMMA StatusRows ==
    ASSUME TypeOK, NEW d \in Docs, NEW status \in {"pending", "processed", "failed"},
           SetStatus(d, status)
    PROVE  Rows' = Rows \cup {d} /\ \A e \in Docs : doc'[e].refs = doc[e].refs
  BY DEF TypeOK, Document, SetStatus, Rows

\* An upload about to be announced or committed, and a row.
LEMMA ContinueLasting ==
    ASSUME TypeOK, NEW r \in Requests, Continue(r)
    PROVE  Lasting
<1>1. ASSUME NEW from, NEW to, from # "idle", PublishStep(r, from, to) PROVE Lasting
  <2>1. req[r].me \in People /\ req[r].doc \in Docs
    BY <1>1, RequestKinds DEF PublishStep, TypeOK, Idle
  <2>2. /\ DOMAIN msgs \subseteq DOMAIN msgs'
        /\ \A n \in DOMAIN msgs : msgs'[n] = msgs[n]
    BY <1>1, <2>1, PublishType DEF PublishStep
  <2> QED BY <1>1, <2>2 DEF PublishStep, Lasting, Rows
<1>2. CASE UploadPublish(r) \/ RetryPublish(r) \/ AdminPublish(r)
  BY <1>1, <1>2 DEF UploadPublish, RetryPublish, AdminPublish
<1>3. CASE UploadCommit(r)
  <2>1. Uploaded(req[r].key).status # "absent"
    BY DEF Uploaded
  <2> HIDE DEF Uploaded
  <2> QED BY <1>3, <2>1 DEF UploadCommit, TypeOK, Rows, Lasting
<1>4. CASE RetryCommit(r) \/ AdminUpdate(r)
  <2>1. req[r].doc \in Docs
    BY <1>4, RequestKinds DEF RetryCommit, AdminUpdate, TypeOK, Idle
  <2> QED BY <1>4, <2>1, StatusRows DEF RetryCommit, AdminUpdate, Lasting
<1>5. CASE ShredForget(r)
  <2>1. req[r].doc \in Docs
    BY <1>5, RequestKinds DEF ShredForget, TypeOK, Idle
  <2>2. Rows \subseteq Rows'
    BY <1>5, <2>1 DEF ShredForget, TypeOK, Document, Rows
  <2> QED BY <1>5, <2>2 DEF ShredForget, Lasting
<1>6. CASE \/ UploadInsert(r) \/ RetryUpdate(r) \/ ShredUpdate(r) \/ ShredDestroy(r)
  BY <1>6 DEF UploadInsert, RetryUpdate, ShredUpdate, UpdateStep, ShredDestroy,
              Lasting, Rows
<1> QED BY <1>2, <1>3, <1>4, <1>5, <1>6 DEF Continue

LEMMA HandleLasting ==
    ASSUME TypeOK, NEW w \in Workers,
           Consume(w) \/ Handle(w) \/ TransactionFails(w) \/ Crash(w)
    PROVE  Lasting
<1>1. SameMessages
  BY ConsumeType, HandleType
<1>2. Rows \subseteq Rows'
  <2>1. CASE UNCHANGED doc
    BY <2>1 DEF Rows
  <2>2. CASE SetStatus(Handled(w).doc, "processed") /\ Write(w)
    BY <2>2, HandledType, StatusRows DEF Write, WorkerLabels
  <2>3. CASE SetStatus(Handled(w).doc, "failed") /\ RecordFailure(w)
    BY <2>3, HandledType, StatusRows DEF RecordFailure, WorkerLabels
  <2> QED BY <2>1, <2>2, <2>3
          DEF Consume, Deliver, Reclaim, Take, Handle, Read, Fetch, Write, RecordFailure,
              Acknowledge, Rejected, TransactionFails, Crash
<1> QED BY <1>1, <1>2 DEF SameMessages, Lasting

LEMMA NextLasting == TypeOK /\ [Next]_vars => Lasting
<1> SUFFICES ASSUME TypeOK, [Next]_vars PROVE Lasting
  OBVIOUS
<1>1. CASE \E r \in Requests : Start(r)
  BY <1>1 DEF Start, UploadFind, RetryFind, AdminFind, ShredFind, Lasting, Rows
<1>2. CASE \E r \in Requests : Continue(r)
  BY <1>2, ContinueLasting
<1>3. CASE \E w \in Workers : Consume(w) \/ Handle(w) \/ TransactionFails(w) \/ Crash(w)
  BY <1>3, HandleLasting
<1>4. CASE UNCHANGED <<doc, msgs>>
  BY <1>4 DEF Lasting, Rows
<1> QED BY <1>1, <1>2, <1>3, <1>4 DEF Next, Fail, AccessChanges, vars

-----------------------------------------------------------------------------
(* Shredded content and announcements *)

\* Whoever is about to write a row's status has seen the row.
ActorsHaveRows ==
    /\ \A r \in Requests : req[r].at \in RowLabels => req[r].doc \in Rows
    /\ \A w \in Workers :
          worker[w].at \in {"fetch", "write", "fail"} => Handled(w).doc \in Rows

\* A row without references, or about to lose them, has no ciphertext.
ShreddingInv ==
    /\ ForgottenMeansDestroyed
    /\ \A r \in Requests : req[r].at = "shred.forget" => req[r].doc \notin blob

Announced(d) == \E n \in DOMAIN msgs : msgs[n].doc = d

\* The same after a step, of a document named after the step as well.
AnnouncedThen(d) == \E n \in DOMAIN msgs' : msgs'[n].doc = d

\* A row, or an upload about to commit one, has been announced.
AnnouncingInv ==
    /\ EveryDocumentIsAnnounced
    /\ \A r \in Requests : req[r].at = "upload.commit" => Announced(req[r].doc)

PipelineInv == TypeOK /\ ActorsHaveRows /\ ShreddingInv /\ AnnouncingInv

LEMMA AnnouncedLasts ==
    ASSUME TypeOK, Lasting, NEW d, Announced(d) PROVE AnnouncedThen(d)
  BY DEF Lasting, Announced, AnnouncedThen

\* What one request's step has to show; the other requests and the workers follow.
LEMMA ActorsStep ==
    ASSUME PipelineInv, Lasting, NEW r \in Requests,
           \A s \in Requests : s # r => req'[s] = req[s],
           req'[r].at \in RowLabels => req'[r].doc \in Rows',
           \A w \in Workers : worker'[w] = worker[w]
    PROVE  ActorsHaveRows'
<1>1. \A s \in Requests : req'[s].at \in RowLabels => req'[s].doc \in Rows'
  BY DEF PipelineInv, ActorsHaveRows, Lasting
<1>2. ASSUME NEW w \in Workers, worker'[w].at \in {"fetch", "write", "fail"}
      PROVE  Handled(w)'.doc \in Rows'
  <2>1. Handled(w).doc \in Rows /\ worker[w].msg \in DOMAIN msgs
    BY <1>2, HandledType DEF PipelineInv, ActorsHaveRows, WorkerLabels
  <2>2. Handled(w)'.doc = Handled(w).doc
    BY <2>1 DEF Handled, Lasting
  <2> QED BY <2>1, <2>2 DEF Lasting
<1> QED BY <1>1, <1>2 DEF ActorsHaveRows

\* The ciphertext shrinks, and references are lost only where it is gone.
LEMMA ShreddingStep ==
    ASSUME PipelineInv, blob' \subseteq blob,
           \A d \in Rows' : ~doc'[d].refs => d \notin blob' \/ (d \in Rows /\ ~doc[d].refs),
           \A r \in Requests : req'[r].at = "shred.forget" =>
               req'[r] = req[r] \/ req'[r].doc \notin blob'
    PROVE  ShreddingInv'
  BY DEF PipelineInv, ShreddingInv, ForgottenMeansDestroyed

\* Rows are added, and uploads come to their commit, only when announced.
LEMMA AnnouncingStep ==
    ASSUME PipelineInv, Lasting,
           \A d \in Rows' : d \in Rows \/ AnnouncedThen(d),
           \A r \in Requests : req'[r].at = "upload.commit" =>
               req'[r] = req[r] \/ AnnouncedThen(req'[r].doc)
    PROVE  AnnouncingInv'
<1>1. \A d \in Rows' : AnnouncedThen(d)
  BY AnnouncedLasts DEF PipelineInv, AnnouncingInv, EveryDocumentIsAnnounced, Announced
<1>2. ASSUME NEW r \in Requests, req'[r].at = "upload.commit"
      PROVE  AnnouncedThen(req'[r].doc)
  <2>1. CASE req'[r] = req[r]
    <3>1. Announced(req[r].doc)
      BY <1>2, <2>1 DEF PipelineInv, AnnouncingInv
    <3> QED BY <2>1, <3>1, AnnouncedLasts DEF PipelineInv
  <2> QED BY <1>2, <2>1
<1>3. EveryDocumentIsAnnounced'
  BY <1>1 DEF EveryDocumentIsAnnounced, AnnouncedThen
<1>4. (\A r \in Requests : req[r].at = "upload.commit" => Announced(req[r].doc))'
  BY <1>2 DEF Announced, AnnouncedThen
<1> QED BY <1>3, <1>4 DEF AnnouncingInv

LEMMA StartInv ==
    ASSUME PipelineInv, Lasting, NEW r \in Requests, Start(r)
    PROVE  ActorsHaveRows' /\ ShreddingInv' /\ AnnouncingInv'
<1> PICK me \in People, d \in Docs :
        \/ \E k \in Keys \cup {NoKey} : UploadFind(r, me, d, k)
        \/ RetryFind(r, me, d) \/ AdminFind(r, me, d) \/ ShredFind(r, me, d)
  BY DEF Start
<1> req \in [Requests -> Request]
  BY DEF PipelineInv, TypeOK
<1>1. CASE \E k \in Keys \cup {NoKey} : UploadFind(r, me, d, k)
  <2> PICK k \in Keys \cup {NoKey} : UploadFind(r, me, d, k)
    BY <1>1
  <2>1. /\ req'[r].at = "upload.insert"
        /\ \A s \in Requests : s # r => req'[s] = req[s]
        /\ blob' = blob \cup {d} /\ d \notin Rows
        /\ UNCHANGED <<doc, msgs, worker>> /\ Rows' = Rows
    BY DEF UploadFind, Rows
  <2>2. ActorsHaveRows'
    BY <2>1, ActorsStep DEF RowLabels
  <2>3. ShreddingInv'
    BY <2>1 DEF PipelineInv, ShreddingInv, ForgottenMeansDestroyed, ActorsHaveRows,
                RowLabels
  <2>4. AnnouncingInv'
    BY <2>1, AnnouncingStep
  <2> QED BY <2>2, <2>3, <2>4
<1>2. CASE RetryFind(r, me, d) \/ AdminFind(r, me, d) \/ ShredFind(r, me, d)
  <2>1. /\ req'[r].at \in {"retry.update", "admin.update", "shred.update"}
        /\ req'[r].doc = d /\ d \in Rows
        /\ \A s \in Requests : s # r => req'[s] = req[s]
        /\ UNCHANGED <<doc, blob, msgs, worker>> /\ Rows' = Rows
    BY <1>2 DEF RetryFind, AdminFind, ShredFind, Rows
  <2>2. ActorsHaveRows'
    BY <2>1, ActorsStep
  <2>3. ShreddingInv'
    BY <2>1, ShreddingStep
  <2>4. AnnouncingInv'
    BY <2>1, AnnouncingStep
  <2> QED BY <2>2, <2>3, <2>4
<1> QED BY <1>1, <1>2

\* A step of a request that moves it on or finishes it and writes nothing else.
LEMMA QuietStep ==
    ASSUME PipelineInv, Lasting, NEW r \in Requests,
           \A s \in Requests : s # r => req'[s] = req[s],
           UNCHANGED <<doc, blob, worker>>,
           req'[r].at \in RowLabels => req'[r].doc \in Rows,
           req'[r].at # "shred.forget",
           req'[r].at = "upload.commit" => AnnouncedThen(req'[r].doc)
    PROVE  ActorsHaveRows' /\ ShreddingInv' /\ AnnouncingInv'
<1>1. Rows' = Rows
  BY DEF Rows
<1>2. ActorsHaveRows'
  BY <1>1, ActorsStep
<1>3. ShreddingInv'
  BY <1>1, ShreddingStep
<1>4. AnnouncingInv'
  BY <1>1, AnnouncingStep
<1> QED BY <1>2, <1>3, <1>4

\* A step of a request that ends with it finished or at admin.publish, having set the
\* status of a row.
LEMMA StatusStep ==
    ASSUME PipelineInv, Lasting, NEW r \in Requests,
           \A s \in Requests : s # r => req'[s] = req[s],
           UNCHANGED <<blob, worker>>,
           req[r].at \in RowLabels,
           req'[r] = Idle \/ (req'[r].at = "admin.publish" /\ req'[r].doc = req[r].doc),
           SetStatus(req[r].doc, "pending")
    PROVE  ActorsHaveRows' /\ ShreddingInv' /\ AnnouncingInv'
<1>1. req[r].doc \in Docs /\ req[r].doc \in Rows
  BY DEF PipelineInv, ActorsHaveRows, Rows
<1>2. Rows' = Rows /\ \A e \in Docs : doc'[e].refs = doc[e].refs
  BY <1>1, StatusRows DEF PipelineInv
<1>3. ActorsHaveRows'
  BY <1>1, <1>2, ActorsStep DEF Idle, RowLabels
<1>4. ShreddingInv'
  BY <1>2, ShreddingStep DEF Idle, Rows
<1>5. AnnouncingInv'
  BY <1>2, AnnouncingStep DEF Idle
<1> QED BY <1>3, <1>4, <1>5

\* What a request holds after it moved on, and after it finished.
LEMMA GoHolds ==
    ASSUME TypeOK, NEW r \in Requests, NEW at, Go(r, at),
           req[r].at \in UploadLabels \cup RowLabels
    PROVE  /\ req'[r].at = at /\ req'[r].doc = req[r].doc
           /\ \A s \in Requests : s # r => req'[s] = req[s]
<1>1. req[r] \in UploadReq \cup RowReq
  BY RequestKinds DEF TypeOK
<1>2. /\ [req[r] EXCEPT !.at = at].at = at
      /\ [req[r] EXCEPT !.at = at].doc = req[r].doc
  BY <1>1 DEF UploadReq, RowReq
<1> QED BY <1>2 DEF Go, TypeOK

LEMMA FinishHolds ==
    ASSUME TypeOK, NEW r \in Requests, Finish(r)
    PROVE  /\ req'[r] = Idle
           /\ \A s \in Requests : s # r => req'[s] = req[s]
  BY DEF Finish, TypeOK

\* An announcement on the way to "to".
LEMMA PublishInv ==
    ASSUME PipelineInv, Lasting, NEW r \in Requests,
           NEW from \in UploadLabels \cup RowLabels,
           NEW to \in {"upload.commit", "retry.commit", "idle"},
           to = "retry.commit" => from \in RowLabels,
           PublishStep(r, from, to)
    PROVE  ActorsHaveRows' /\ ShreddingInv' /\ AnnouncingInv'
<1>1. TypeOK /\ req[r].at = from
  BY DEF PipelineInv, PublishStep
<1>2. req[r].me \in People /\ req[r].doc \in Docs
  BY <1>1, RequestKinds DEF TypeOK, Idle, UploadLabels, RowLabels
<1>3. AnnouncedThen(req[r].doc)
  BY <1>1, <1>2, PublishType DEF PublishStep, AnnouncedThen
<1>4. \A s \in Requests : s # r => req'[s] = req[s]
  BY <1>1, GoHolds, FinishHolds DEF PublishStep
<1>5. CASE to = "idle"
  <2>1. req'[r] = Idle
    BY <1>1, <1>5, FinishHolds DEF PublishStep
  <2> QED BY <1>4, <2>1, QuietStep DEF PublishStep, Idle, RowLabels
<1>6. CASE to # "idle"
  <2>1. req'[r].at = to /\ req'[r].doc = req[r].doc
    BY <1>1, <1>6, GoHolds DEF PublishStep
  <2>2. to \in RowLabels => req[r].doc \in Rows
    BY <1>1, <1>6 DEF PipelineInv, ActorsHaveRows, RowLabels
  <2> QED BY <1>3, <1>4, <1>6, <2>1, <2>2, QuietStep DEF PublishStep
<1> QED BY <1>5, <1>6

\* An update that opens a transaction's writes.
LEMMA UpdateInv ==
    ASSUME PipelineInv, Lasting, NEW r \in Requests, NEW from \in RowLabels,
           NEW to \in {"retry.publish", "shred.destroy"}, UpdateStep(r, from, to)
    PROVE  ActorsHaveRows' /\ ShreddingInv' /\ AnnouncingInv'
<1>1. TypeOK /\ req[r].at = from /\ req[r].doc \in Rows
  BY DEF PipelineInv, ActorsHaveRows, UpdateStep
<1>2. CASE Go(r, to)
  <2>1. /\ req'[r].at = to /\ req'[r].doc = req[r].doc
        /\ \A s \in Requests : s # r => req'[s] = req[s]
    BY <1>1, <1>2, GoHolds
  <2> QED BY <1>1, <2>1, QuietStep DEF UpdateStep
<1>3. CASE Finish(r)
  <2>1. req'[r] = Idle /\ \A s \in Requests : s # r => req'[s] = req[s]
    BY <1>1, <1>3, FinishHolds
  <2> QED BY <2>1, QuietStep DEF UpdateStep, Idle, RowLabels
<1> QED BY <1>2, <1>3 DEF UpdateStep

LEMMA ContinueInv ==
    ASSUME PipelineInv, Lasting, NEW r \in Requests, Continue(r)
    PROVE  ActorsHaveRows' /\ ShreddingInv' /\ AnnouncingInv'
<1> TypeOK
  BY DEF PipelineInv
<1>1. CASE UploadInsert(r)
  <2>1. CASE Go(r, "upload.publish")
    <3>1. /\ req'[r].at = "upload.publish"
          /\ \A s \in Requests : s # r => req'[s] = req[s]
      BY <1>1, <2>1, GoHolds DEF UploadInsert, UploadLabels
    <3> QED BY <1>1, <3>1, QuietStep DEF UploadInsert, RowLabels
  <2>2. CASE Finish(r)
    <3>1. req'[r] = Idle /\ \A s \in Requests : s # r => req'[s] = req[s]
      BY <2>2, FinishHolds
    <3> QED BY <1>1, <3>1, QuietStep DEF UploadInsert, Idle, RowLabels
  <2> QED BY <1>1, <2>1, <2>2 DEF UploadInsert
<1>2. CASE UploadPublish(r)
  BY <1>2, PublishInv DEF UploadPublish, UploadLabels
<1>3. CASE UploadCommit(r)
  <2>1. /\ req'[r] = Idle
        /\ \A s \in Requests : s # r => req'[s] = req[s]
        /\ UNCHANGED <<blob, worker, msgs>> /\ req[r].at = "upload.commit"
    BY <1>3, FinishHolds DEF UploadCommit
  <2>2. /\ \A e \in Docs : e # req[r].doc => doc'[e] = doc[e]
        /\ req[r].doc \in Docs => doc'[req[r].doc].refs
    BY <1>3 DEF UploadCommit, Uploaded, TypeOK
  <2>3. Announced(req[r].doc)
    BY <2>1 DEF PipelineInv, AnnouncingInv
  <2>4. ActorsHaveRows'
    BY <2>1, ActorsStep DEF Idle, RowLabels
  <2>5. ShreddingInv'
    BY <2>1, <2>2, ShreddingStep DEF Idle, Rows
  <2>6. AnnouncingInv'
    BY <2>1, <2>2, <2>3, AnnouncedLasts, AnnouncingStep DEF Idle, Rows
  <2> QED BY <2>4, <2>5, <2>6
<1>4. CASE RetryUpdate(r)
  BY <1>4, UpdateInv DEF RetryUpdate, RowLabels
<1>5. CASE RetryPublish(r)
  BY <1>5, PublishInv DEF RetryPublish, RowLabels
<1>6. CASE RetryCommit(r)
  <2>1. req'[r] = Idle /\ \A s \in Requests : s # r => req'[s] = req[s]
    BY <1>6, FinishHolds DEF RetryCommit
  <2>2. /\ UNCHANGED <<blob, worker>> /\ req[r].at \in RowLabels
        /\ SetStatus(req[r].doc, "pending")
    BY <1>6 DEF RetryCommit, RowLabels
  <2> QED BY <2>1, <2>2, StatusStep
<1>7. CASE AdminUpdate(r)
  <2>1. /\ req'[r].at = "admin.publish" /\ req'[r].doc = req[r].doc
        /\ \A s \in Requests : s # r => req'[s] = req[s]
    BY <1>7, GoHolds DEF AdminUpdate, RowLabels
  <2> QED BY <1>7, <2>1, StatusStep DEF AdminUpdate, RowLabels
<1>8. CASE AdminPublish(r)
  BY <1>8, PublishInv DEF AdminPublish, RowLabels
<1>9. CASE ShredUpdate(r)
  BY <1>9, UpdateInv DEF ShredUpdate, RowLabels
<1>10. CASE ShredDestroy(r)
  <2>1. /\ req'[r].at = "shred.forget" /\ req'[r].doc = req[r].doc
        /\ \A s \in Requests : s # r => req'[s] = req[s]
        /\ UNCHANGED <<doc, worker, msgs>> /\ blob' = blob \ {req[r].doc}
    BY <1>10, GoHolds DEF ShredDestroy, BlobsWithout, RowLabels
  <2>2. req[r].doc \in Rows /\ Rows' = Rows
    BY <1>10, <2>1 DEF ShredDestroy, PipelineInv, ActorsHaveRows, RowLabels, Rows
  <2>3. ActorsHaveRows'
    BY <2>1, <2>2, ActorsStep
  <2>4. ShreddingInv'
    BY <2>1, <2>2, ShreddingStep
  <2>5. AnnouncingInv'
    BY <2>1, <2>2, AnnouncingStep
  <2> QED BY <2>3, <2>4, <2>5
<1>11. CASE ShredForget(r)
  <2>1. /\ req'[r] = Idle
        /\ \A s \in Requests : s # r => req'[s] = req[s]
        /\ UNCHANGED <<blob, worker, msgs>>
    BY <1>11, FinishHolds DEF ShredForget
  <2>2. req[r].doc \in Rows /\ req[r].doc \notin blob
    BY <1>11 DEF ShredForget, PipelineInv, ActorsHaveRows, ShreddingInv, RowLabels
  <2>3. \A e \in Docs : e # req[r].doc => doc'[e] = doc[e]
    BY <1>11, <2>2 DEF ShredForget, TypeOK, Rows
  <2>4. ActorsHaveRows'
    BY <2>1, ActorsStep DEF Idle, RowLabels
  <2>5. \A e \in Rows' : ~doc'[e].refs =>
            e \notin blob' \/ (e \in Rows /\ ~doc[e].refs)
    BY <2>1, <2>2, <2>3 DEF Rows
  <2>6. ShreddingInv'
    BY <2>1, <2>5, ShreddingStep DEF Idle
  <2>7. AnnouncingInv'
    BY <2>1, <2>2, <2>3, AnnouncingStep DEF Idle, Rows
  <2> QED BY <2>4, <2>6, <2>7
<1> QED BY <1>1, <1>2, <1>3, <1>4, <1>5, <1>6, <1>7, <1>8, <1>9, <1>10, <1>11
         DEF Continue

\* What one worker's step has to show.
LEMMA WorkerStep ==
    ASSUME PipelineInv, Lasting, SameMessages, NEW w \in Workers,
           \A v \in Workers : v # w => worker'[v] = worker[v],
           UNCHANGED <<req, blob>>, Rows' = Rows,
           \A e \in Docs : doc'[e].refs = doc[e].refs,
           worker'[w].at \in {"fetch", "write", "fail"} =>
              worker'[w].msg = worker[w].msg /\ worker[w].msg \in DOMAIN msgs
              /\ Handled(w).doc \in Rows
    PROVE  ActorsHaveRows' /\ ShreddingInv' /\ AnnouncingInv'
<1>1. ASSUME NEW v \in Workers, worker'[v].at \in {"fetch", "write", "fail"}
      PROVE  Handled(v)'.doc \in Rows'
  <2>1. /\ worker'[v].msg = worker[v].msg /\ worker[v].msg \in DOMAIN msgs
        /\ Handled(v).doc \in Rows
    <3>1. CASE v = w
      BY <1>1, <3>1
    <3>2. CASE v # w
      BY <1>1, <3>2, HandledType DEF PipelineInv, ActorsHaveRows, WorkerLabels
    <3> QED BY <3>1, <3>2
  <2> QED BY <2>1 DEF Handled, SameMessages
<1>2. ActorsHaveRows'
  BY <1>1 DEF ActorsHaveRows, PipelineInv
<1>3. ShreddingInv'
  BY ShreddingStep DEF Rows
<1>4. AnnouncingInv'
  BY AnnouncingStep
<1> QED BY <1>2, <1>3, <1>4

\* The status a handler writes is that of a row it has seen.
LEMMA HandledStatus ==
    ASSUME PipelineInv, NEW w \in Workers, worker[w].at \in {"write", "fail"},
           NEW status \in {"processed", "failed"}, SetStatus(Handled(w).doc, status)
    PROVE  Rows' = Rows /\ \A e \in Docs : doc'[e].refs = doc[e].refs
<1>1. Handled(w).doc \in Rows /\ Handled(w).doc \in Docs
  BY DEF PipelineInv, ActorsHaveRows, Rows
<1> QED BY <1>1, StatusRows DEF PipelineInv

LEMMA WorkersInv ==
    ASSUME PipelineInv, Lasting, NEW w \in Workers,
           Consume(w) \/ Handle(w) \/ TransactionFails(w) \/ Crash(w)
    PROVE  ActorsHaveRows' /\ ShreddingInv' /\ AnnouncingInv'
<1>1. TypeOK /\ SameMessages /\ worker \in [Workers -> Worker]
  BY ConsumeType, HandleType DEF PipelineInv, TypeOK
<1>2. UNCHANGED <<req, blob>> /\ \A v \in Workers : v # w => worker'[v] = worker[v]
  BY <1>1 DEF Consume, Deliver, Reclaim, Take, Handle, Read, Fetch, Write, RecordFailure,
              Acknowledge, Rejected, Settle, TransactionFails, Crash, Work
<1>3. Rows' = Rows /\ \A e \in Docs : doc'[e].refs = doc[e].refs
  <2>1. CASE UNCHANGED doc
    BY <2>1 DEF Rows
  <2>2. CASE Write(w) /\ SetStatus(Handled(w).doc, "processed")
    BY <2>2, HandledStatus DEF Write
  <2>3. CASE RecordFailure(w) /\ SetStatus(Handled(w).doc, "failed")
    BY <2>3, HandledStatus DEF RecordFailure
  <2> QED BY <2>1, <2>2, <2>3
          DEF Consume, Deliver, Reclaim, Take, Handle, Read, Fetch, Write, RecordFailure,
              Acknowledge, Rejected, TransactionFails, Crash
<1>4. CASE Read(w)
  <2>1. worker[w] \in Handling /\ worker[w].msg \in DOMAIN msgs
    BY <1>1, <1>4, HandledType DEF Read, WorkerLabels
  <2>2. worker'[w].at = "fetch" => Handled(w).doc \in Rows
    BY <1>1, <1>4, <2>1 DEF Read, Handling
  <2>3. worker'[w].at \in {"ack", "fetch"} /\ worker'[w].msg = worker[w].msg
    BY <1>1, <1>4, <2>1 DEF Read, Handling
  <2> QED BY <1>1, <1>2, <1>3, <2>1, <2>2, <2>3, WorkerStep
<1>5. CASE Fetch(w)
  <2>1. /\ worker[w] \in Handling /\ worker[w].msg \in DOMAIN msgs
        /\ Handled(w).doc \in Rows
    BY <1>1, <1>5, HandledType DEF Fetch, WorkerLabels, PipelineInv, ActorsHaveRows
  <2>2. worker'[w].msg = worker[w].msg
    BY <1>1, <1>5, <2>1 DEF Fetch, Work, Handling
  <2> QED BY <1>1, <1>2, <1>3, <2>1, <2>2, WorkerStep
<1>6. CASE ~Read(w) /\ ~Fetch(w)
  <2>1. worker'[w].at \notin {"fetch", "write", "fail"}
    <3>1. CASE worker'[w] = Idle
      BY <3>1 DEF Idle
    <3>2. CASE Consume(w)
      <4>1. PICK n, tries : Take(w, n, tries)
        BY <3>2 DEF Consume, Deliver, Reclaim
      <4>2. worker'[w] = [at |-> "read", msg |-> n, tries |-> tries, refs |-> FALSE]
        BY <1>1, <4>1 DEF Take
      <4> QED BY <4>2
    <3>3. CASE worker[w].at \in WorkerLabels /\ (Work(w, "ack") \/ Work(w, "reject"))
      BY <1>1, <3>3, HandledType DEF Work, Handling
    <3>4. CASE Write(w) \/ RecordFailure(w) \/ TransactionFails(w)
      <4>1. worker[w].at \in WorkerLabels /\ (Work(w, "ack") \/ Work(w, "reject"))
        BY <3>4 DEF Write, RecordFailure, TransactionFails, WorkerLabels
      <4> QED BY <3>3, <4>1
    <3>5. CASE Acknowledge(w) \/ Rejected(w) \/ Crash(w)
      <4>1. worker' = [worker EXCEPT ![w] = Idle]
        BY <3>5 DEF Acknowledge, Rejected, Settle, Crash
      <4> QED BY <1>1, <3>1, <4>1
    <3> QED BY <1>6, <3>2, <3>4, <3>5 DEF Handle
  <2> QED BY <1>1, <1>2, <1>3, <2>1, WorkerStep
<1> QED BY <1>4, <1>5, <1>6

LEMMA InitInv == Init => PipelineInv
<1> SUFFICES ASSUME Init PROVE PipelineInv
  OBVIOUS
<1>1. Rows = {}
  BY DEF Init, Rows, Absent
<1> QED BY <1>1, InitType DEF Init, PipelineInv, ActorsHaveRows, ShreddingInv, AnnouncingInv,
           ForgottenMeansDestroyed, EveryDocumentIsAnnounced, Idle, RowLabels

LEMMA NextInv == PipelineInv /\ [Next]_vars => PipelineInv'
<1> SUFFICES ASSUME PipelineInv, [Next]_vars PROVE PipelineInv'
  OBVIOUS
<1>1. TypeOK /\ TypeOK' /\ Lasting
  BY NextType, NextLasting DEF PipelineInv
<1>2. CASE \E r \in Requests : Start(r) \/ Continue(r)
  BY <1>1, <1>2, StartInv, ContinueInv DEF PipelineInv
<1>3. CASE \E r \in Requests : Fail(r)
  <2> PICK r \in Requests : Fail(r)
    BY <1>3
  <2>1. /\ req'[r] = Idle /\ \A s \in Requests : s # r => req'[s] = req[s]
        /\ UNCHANGED <<doc, blob, worker>>
    BY <1>1, FinishHolds DEF Fail
  <2> QED BY <1>1, <2>1, QuietStep DEF PipelineInv, Idle, RowLabels
<1>4. CASE \E w \in Workers : Consume(w) \/ Handle(w) \/ TransactionFails(w) \/ Crash(w)
  BY <1>1, <1>4, WorkersInv DEF PipelineInv
<1>5. CASE UNCHANGED <<doc, blob, msgs, req, worker>>
  BY <1>1, <1>5 DEF PipelineInv, ActorsHaveRows, Handled, ShreddingInv, AnnouncingInv,
     Announced, ForgottenMeansDestroyed, EveryDocumentIsAnnounced, Rows
<1> QED BY <1>2, <1>3, <1>4, <1>5 DEF Next, AccessChanges, vars

\* A row that has given up its references, and with them the only copy of the key, has
\* no ciphertext in the store, whatever requests, workers and failures interleave.
THEOREM ForgottenStaysDestroyed == Spec => []ForgottenMeansDestroyed
<1>1. PipelineInv => ForgottenMeansDestroyed
  BY DEF PipelineInv, ShreddingInv
<1> QED BY <1>1, InitInv, NextInv, PTL DEF Spec

\* Every committed row was announced on the stream, wherever requests fail half-way.
THEOREM AlwaysAnnounced == Spec => []EveryDocumentIsAnnounced
<1>1. PipelineInv => EveryDocumentIsAnnounced
  BY DEF PipelineInv, AnnouncingInv
<1> QED BY <1>1, InitInv, NextInv, PTL DEF Spec

-----------------------------------------------------------------------------
(* Who writes rows and chunks *)

WritesRow(r) == UploadCommit(r) \/ RetryCommit(r) \/ AdminUpdate(r) \/ ShredForget(r)

LEMMA Writers ==
    ASSUME [Next]_vars
    PROVE  /\ \/ UNCHANGED doc
              \/ \E r \in Requests : WritesRow(r)
              \/ \E w \in Workers : Write(w) \/ RecordFailure(w)
           /\ UNCHANGED chunks \/ \E w \in Workers : Write(w)
<1>1. ASSUME NEW r \in Requests, Start(r) \/ Fail(r) PROVE UNCHANGED <<doc, chunks>>
  BY <1>1 DEF Start, UploadFind, RetryFind, AdminFind, ShredFind, Fail
<1>2. ASSUME NEW r \in Requests, Continue(r)
      PROVE  (UNCHANGED doc \/ WritesRow(r)) /\ UNCHANGED chunks
  BY <1>2 DEF Continue, WritesRow, UploadInsert, UploadPublish, UploadCommit, RetryUpdate,
              RetryPublish, RetryCommit, AdminUpdate, AdminPublish, ShredUpdate, ShredDestroy,
              ShredForget, PublishStep, UpdateStep
<1>3. ASSUME NEW w \in Workers, Consume(w) \/ Handle(w) \/ TransactionFails(w) \/ Crash(w)
      PROVE  /\ UNCHANGED doc \/ Write(w) \/ RecordFailure(w)
             /\ UNCHANGED chunks \/ Write(w)
  BY <1>3 DEF Consume, Deliver, Reclaim, Take, Handle, Read, Fetch, RecordFailure,
              Acknowledge, Rejected, TransactionFails, Crash
<1> QED BY <1>1, <1>2, <1>3 DEF Next, AccessChanges, vars

\* Rows are inserted by uploads that commit, and keep their keys.
LEMMA KeysKept ==
    ASSUME PipelineInv, [Next]_vars, NEW d \in Rows'
    PROVE  \/ d \in Rows /\ doc'[d].key = doc[d].key
           \/ \E r \in Requests : UploadCommit(r) /\ d = req[r].doc /\ doc'[d].key = req[r].key
<1>0. TypeOK /\ doc \in [Docs -> Document] /\ d \in Docs
  BY DEF PipelineInv, TypeOK, Rows
<1>1. ASSUME NEW e \in Rows, NEW status \in {"pending", "processed", "failed"},
             SetStatus(e, status)
      PROVE  d \in Rows /\ doc'[d].key = doc[d].key
  <2>1. e \in Docs
    BY DEF Rows
  <2> QED BY <1>0, <1>1, <2>1 DEF SetStatus, Rows, Document
<1>2. CASE UNCHANGED doc
  BY <1>2 DEF Rows
<1>3. ASSUME NEW r \in Requests, UploadCommit(r)
      PROVE  \/ d \in Rows /\ doc'[d].key = doc[d].key
             \/ d = req[r].doc /\ doc'[d].key = req[r].key
  BY <1>0, <1>3 DEF UploadCommit, Uploaded, Rows
<1>4. ASSUME NEW r \in Requests, RetryCommit(r) \/ AdminUpdate(r)
      PROVE  d \in Rows /\ doc'[d].key = doc[d].key
  <2>1. req[r].doc \in Rows /\ SetStatus(req[r].doc, "pending")
    BY <1>4 DEF RetryCommit, AdminUpdate, PipelineInv, ActorsHaveRows, RowLabels
  <2> QED BY <1>1, <2>1
<1>5. ASSUME NEW r \in Requests, ShredForget(r)
      PROVE  d \in Rows /\ doc'[d].key = doc[d].key
  <2>1. req[r].doc \in Rows /\ req[r].doc \in Docs
    BY <1>5 DEF ShredForget, PipelineInv, ActorsHaveRows, RowLabels, Rows
  <2> QED BY <1>0, <1>5, <2>1 DEF ShredForget, Rows, Document
<1>6. ASSUME NEW w \in Workers, Write(w) \/ RecordFailure(w)
      PROVE  d \in Rows /\ doc'[d].key = doc[d].key
  <2>1. Handled(w).doc \in Rows
    BY <1>6 DEF Write, RecordFailure, PipelineInv, ActorsHaveRows
  <2>2. CASE UNCHANGED doc
    BY <2>2 DEF Rows
  <2> QED BY <1>1, <1>6, <2>1, <2>2 DEF Write, RecordFailure
<1> QED BY <1>2, <1>3, <1>4, <1>5, <1>6, Writers DEF WritesRow

-----------------------------------------------------------------------------
(* One document per key *)

\* An upload whose row is inserted and not yet committed.
Inserted(r) == req[r].at \in {"upload.publish", "upload.commit"}

KeyInv ==
    /\ OneDocumentPerKey
    /\ \A r \in Requests : Inserted(r) => KeyFree(req[r].key)
    /\ \A r, s \in Requests :
          /\ Inserted(r) /\ Inserted(s)
          /\ req[r].key = req[s].key /\ req[r].key # NoKey
          => r = s

\* An inserted row was inserted before, or just now, when no other row had its key.
LEMMA InsertedBefore ==
    ASSUME TypeOK, [Next]_vars, NEW r \in Requests,
           req'[r].at \in {"upload.publish", "upload.commit"}
    PROVE  /\ req'[r].key = req[r].key
           /\ \/ Inserted(r) /\ ~UploadCommit(r)
              \/ /\ UploadInsert(r) /\ ~KeyLocked(req[r].key) /\ KeyFree(req[r].key)
                 /\ \A s \in Requests : s # r => req'[s] = req[s]
<1>0. req \in [Requests -> Request] /\ Idle.at = "idle"
  BY DEF TypeOK, Idle
<1>1. CASE req'[r] = req[r]
  <2>1. ~UploadCommit(r)
    BY <1>0, <1>1 DEF UploadCommit, Finish
  <2> QED BY <1>1, <2>1 DEF Inserted
<1>2. ASSUME NEW s \in Requests, Start(s) PROVE req'[r] = req[r]
  BY <1>0, <1>2 DEF Start, UploadFind, RetryFind, AdminFind, ShredFind
<1>3. ASSUME NEW s \in Requests, Continue(s) \/ Fail(s), s # r PROVE req'[r] = req[r]
  BY <1>0, <1>3 DEF Continue, Fail, UploadInsert, UploadPublish, UploadCommit, RetryUpdate,
              RetryPublish, RetryCommit, AdminUpdate, AdminPublish, ShredUpdate, ShredDestroy,
              ShredForget, PublishStep, UpdateStep, Go, Finish
<1>4. CASE UploadPublish(r)
  <2>1. req[r] \in UploadReq /\ Go(r, "upload.commit") /\ req[r].at = "upload.publish"
    BY <1>0, <1>4, RequestKinds DEF UploadPublish, PublishStep, UploadLabels
  <2>2. req'[r].key = req[r].key
    BY <1>0, <2>1 DEF Go, UploadReq
  <2> QED BY <2>1, <2>2 DEF Inserted, UploadCommit
<1>5. CASE UploadInsert(r)
  <2>1. req[r] \in UploadReq
    BY <1>0, <1>5, RequestKinds DEF UploadInsert, UploadLabels
  <2>2. Go(r, "upload.publish") /\ KeyFree(req[r].key) /\ ~KeyLocked(req[r].key)
    BY <1>0, <1>5 DEF UploadInsert, Finish
  <2>3. req'[r].key = req[r].key /\ \A s \in Requests : s # r => req'[s] = req[s]
    BY <1>0, <2>1, <2>2 DEF Go, UploadReq
  <2> QED BY <1>5, <2>2, <2>3
<1>6. ASSUME \/ Fail(r) \/ UploadCommit(r) \/ RetryUpdate(r) \/ RetryPublish(r)
             \/ RetryCommit(r) \/ AdminUpdate(r) \/ AdminPublish(r) \/ ShredUpdate(r)
             \/ ShredDestroy(r) \/ ShredForget(r)
      PROVE  FALSE
  <2>1. CASE Finish(r)
    BY <1>0, <2>1 DEF Finish
  <2>2. ASSUME NEW at \in RowLabels, Go(r, at), req[r].at \in RowLabels PROVE FALSE
    BY <2>2, GoHolds DEF RowLabels
  <2> QED BY <1>6, <2>1, <2>2
          DEF Fail, UploadCommit, RetryUpdate, RetryPublish, RetryCommit, AdminUpdate,
              AdminPublish, ShredUpdate, ShredDestroy, ShredForget, PublishStep, UpdateStep,
              RowLabels
<1>7. CASE UNCHANGED req
  BY <1>1, <1>7
<1>8. ASSUME NEW w \in Workers, Consume(w) \/ Handle(w) \/ TransactionFails(w) \/ Crash(w)
      PROVE  UNCHANGED req
  BY <1>8 DEF Consume, Deliver, Reclaim, Take, Handle, Read, Fetch, Write, RecordFailure,
              Acknowledge, Rejected, TransactionFails, Crash
<1>9. CASE \E s \in Requests : Start(s)
  BY <1>1, <1>2, <1>9
<1>10. CASE \E s \in Requests : Continue(s) \/ Fail(s)
  <2>1. PICK s \in Requests : Continue(s) \/ Fail(s)
    BY <1>10
  <2>2. CASE s # r
    BY <1>1, <1>3, <2>1, <2>2
  <2>3. CASE s = r
    BY <1>4, <1>5, <1>6, <2>1, <2>3 DEF Continue
  <2> QED BY <2>2, <2>3
<1> QED BY <1>7, <1>8, <1>9, <1>10 DEF Next, AccessChanges, vars

\* Whoever holds a key, as a row or as an insert, keeps others from it.
LEMMA KeyStep ==
    ASSUME PipelineInv, KeyInv, [Next]_vars
    PROVE  KeyInv'
<1>0. TypeOK
  BY DEF PipelineInv
<1>1. \A r \in Requests : UploadCommit(r) => Inserted(r)
  BY DEF UploadCommit, Inserted
<1>2. ASSUME NEW r \in Requests, NEW q \in Requests, UploadCommit(q),
             req'[r].at \in {"upload.publish", "upload.commit"},
             req'[r].key = req[q].key, req[q].key # NoKey
      PROVE  FALSE
  <2>1. CASE Inserted(r) /\ ~UploadCommit(r)
    BY <1>0, <1>1, <1>2, <2>1, InsertedBefore DEF KeyInv
  <2>2. CASE UploadInsert(r) /\ ~KeyLocked(req[r].key)
    BY <1>0, <1>1, <1>2, <2>2, InsertedBefore DEF KeyLocked, Inserted
  <2> QED BY <1>0, <1>2, <2>1, <2>2, InsertedBefore
<1>3. ASSUME NEW r \in Requests, req'[r].at \in {"upload.publish", "upload.commit"},
             NEW d \in Rows', doc'[d].key = req'[r].key, req'[r].key # NoKey
      PROVE  FALSE
  <2>1. KeyFree(req[r].key) /\ req'[r].key = req[r].key
    BY <1>0, <1>3, InsertedBefore DEF KeyInv
  <2>2. d \notin Rows \/ doc'[d].key # doc[d].key
    BY <1>3, <2>1 DEF KeyFree, Holding
  <2>3. PICK q \in Requests : UploadCommit(q) /\ doc'[d].key = req[q].key
    BY <2>2, KeysKept
  <2> QED BY <1>2, <1>3, <2>3
<1>4. (\A r \in Requests : Inserted(r) => KeyFree(req[r].key))'
  BY <1>3 DEF Inserted, KeyFree, Holding
<1>5. ASSUME NEW r \in Requests, NEW s \in Requests,
             req'[r].at \in {"upload.publish", "upload.commit"},
             req'[s].at \in {"upload.publish", "upload.commit"},
             req'[r].key = req'[s].key, req'[r].key # NoKey
      PROVE  r = s
  <2>1. CASE Inserted(r) /\ Inserted(s)
    BY <1>0, <1>5, <2>1, InsertedBefore DEF KeyInv
  <2>2. ASSUME NEW p \in Requests, NEW q \in Requests, p # q,
               req'[q].at \in {"upload.publish", "upload.commit"},
               UploadInsert(p), ~KeyLocked(req[p].key), req[p].key # NoKey,
               \A t \in Requests : t # p => req'[t] = req[t],
               req'[q].key = req[p].key
        PROVE  FALSE
    BY <2>2 DEF KeyLocked
  <2> QED BY <1>0, <1>5, <2>1, <2>2, InsertedBefore
<1>6. ASSUME NEW d \in Rows', NEW e \in Rows', doc'[d].key = doc'[e].key, doc'[d].key # NoKey
      PROVE  d = e
  <2>1. CASE d \in Rows /\ doc'[d].key = doc[d].key /\ e \in Rows /\ doc'[e].key = doc[e].key
    BY <1>6, <2>1 DEF KeyInv, OneDocumentPerKey
  <2>2. ASSUME NEW f \in Rows', NEW g \in Rows', doc'[f].key = doc'[g].key, doc'[f].key # NoKey,
               NEW r \in Requests, UploadCommit(r), f = req[r].doc, doc'[f].key = req[r].key
        PROVE  f = g
    <3>1. KeyFree(req[r].key)
      BY <1>1, <2>2 DEF KeyInv
    <3>2. g \notin Rows \/ doc'[g].key # doc[g].key
      BY <2>2, <3>1 DEF KeyFree, Holding
    <3>3. PICK q \in Requests : UploadCommit(q) /\ g = req[q].doc /\ doc'[g].key = req[q].key
      BY <3>2, KeysKept
    <3>4. r = q
      BY <1>1, <2>2, <3>3 DEF KeyInv
    <3> QED BY <2>2, <3>3, <3>4
  <2> QED BY <1>6, <2>1, <2>2, KeysKept
<1> QED BY <1>4, <1>5, <1>6 DEF KeyInv, OneDocumentPerKey, Inserted

-----------------------------------------------------------------------------
(* Status and index *)

\* Only Write makes a document processed, and it inserts a chunk as it does.
LEMMA IndexedStep ==
    ASSUME PipelineInv, ProcessedIsIndexed, [Next]_vars
    PROVE  ProcessedIsIndexed'
<1>0. TypeOK /\ doc \in [Docs -> Document] /\ chunks \in [Docs -> 0..MaxChunks]
  BY DEF PipelineInv, TypeOK
<1>1. ASSUME NEW d \in Docs, NEW status \in {"pending", "failed"}, SetStatus(d, status),
             UNCHANGED chunks
      PROVE  ProcessedIsIndexed'
  BY <1>0, <1>1 DEF SetStatus, ProcessedIsIndexed, Document
<1>2. CASE UNCHANGED <<doc, chunks>>
  BY <1>2 DEF ProcessedIsIndexed
<1>3. ASSUME NEW r \in Requests, UploadCommit(r) PROVE ProcessedIsIndexed'
  BY <1>0, <1>3 DEF UploadCommit, Uploaded, ProcessedIsIndexed
<1>4. ASSUME NEW r \in Requests, RetryCommit(r) \/ AdminUpdate(r) PROVE ProcessedIsIndexed'
  <2>1. req[r].doc \in Docs /\ SetStatus(req[r].doc, "pending") /\ UNCHANGED chunks
    BY <1>4 DEF RetryCommit, AdminUpdate, PipelineInv, ActorsHaveRows, RowLabels, Rows
  <2> QED BY <1>1, <2>1
<1>5. ASSUME NEW r \in Requests, ShredForget(r) PROVE ProcessedIsIndexed'
  <2>1. req[r].doc \in Docs
    BY <1>5 DEF ShredForget, PipelineInv, ActorsHaveRows, RowLabels, Rows
  <2> QED BY <1>0, <1>5, <2>1 DEF ShredForget, ProcessedIsIndexed, Document
<1>6. ASSUME NEW w \in Workers, RecordFailure(w) PROVE ProcessedIsIndexed'
  <2>1. Handled(w).doc \in Docs
    BY <1>6 DEF RecordFailure, PipelineInv, ActorsHaveRows, Rows
  <2> QED BY <1>1, <1>2, <1>6, <2>1 DEF RecordFailure
<1>7. ASSUME NEW w \in Workers, Write(w) PROVE ProcessedIsIndexed'
  <2>1. CASE UNCHANGED <<doc, chunks>>
    BY <1>2, <2>1
  <2>2. CASE can_write_document(Handled(w).by)
    <3>1. PICK d \in Docs : d = Handled(w).doc
      BY <1>7 DEF Write, PipelineInv, ActorsHaveRows, Rows
    <3>2. /\ doc' = [doc EXCEPT ![d].status = "processed"]
          /\ chunks' = [chunks EXCEPT ![d] = Recount(chunks[d])]
      BY <1>7, <2>2, <3>1 DEF Write, SetStatus
    <3>3. Recount(chunks[d]) > 0
      BY <1>0, ConstantsAssumption DEF Recount
    <3>4. \A e \in Docs : e # d => doc'[e] = doc[e] /\ chunks'[e] = chunks[e]
      BY <1>0, <3>2
    <3>5. chunks'[d] > 0
      BY <1>0, <3>2, <3>3
    <3> QED BY <3>4, <3>5 DEF ProcessedIsIndexed
  <2> QED BY <1>7, <2>1, <2>2 DEF Write
<1>8. CASE UNCHANGED doc /\ ~\E w \in Workers : Write(w)
  BY <1>2, <1>8, Writers
<1>9. CASE \E r \in Requests : WritesRow(r)
  BY <1>3, <1>4, <1>5, <1>9 DEF WritesRow
<1> QED BY <1>6, <1>7, <1>8, <1>9, Writers

LEMMA KeyInvInit == Init => KeyInv /\ ProcessedIsIndexed
<1> SUFFICES ASSUME Init PROVE KeyInv /\ ProcessedIsIndexed
  OBVIOUS
<1>1. Rows = {} /\ \A d \in Docs : doc[d].status = "absent"
  BY DEF Init, Rows, Absent
<1>2. \A r \in Requests : ~Inserted(r)
  BY DEF Init, Inserted, Idle
<1> QED BY <1>1, <1>2 DEF KeyInv, OneDocumentPerKey, ProcessedIsIndexed

\* Repeating an upload with its Idempotency-Key makes one row, however many requests carry
\* the key at the same time.
THEOREM KeysAreUnique == Spec => []OneDocumentPerKey
<1>1. Init => PipelineInv /\ KeyInv
  BY InitInv, KeyInvInit
<1>2. PipelineInv /\ KeyInv /\ [Next]_vars => PipelineInv' /\ KeyInv'
  BY NextInv, KeyStep
<1>3. KeyInv => OneDocumentPerKey
  BY DEF KeyInv
<1> QED BY <1>1, <1>2, <1>3, PTL DEF Spec

\* A processed document can be searched: no retry, shredding or failure separates the
\* status from the index.
THEOREM ProcessedHasText == Spec => []ProcessedIsIndexed
<1>1. Init => PipelineInv /\ ProcessedIsIndexed
  BY InitInv, KeyInvInit
<1>2. PipelineInv /\ ProcessedIsIndexed /\ [Next]_vars => PipelineInv' /\ ProcessedIsIndexed'
  BY NextInv, IndexedStep
<1> QED BY <1>1, <1>2, PTL DEF Spec

=============================================================================
