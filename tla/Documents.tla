------------------------------ MODULE Documents ------------------------------
(***************************************************************************)
(* The documents of one home: DocumentsService (upload, retry, shred), the *)
(* administrator's retry, and IngestionService consuming the queue with    *)
(* several workers.  The deployment is the durable one: PostgreSQL, an     *)
(* object store, the envelope KMS, whose only copy of a data key is the    *)
(* key_ref of the document row, and Redis Streams.                         *)
(*                                                                         *)
(* Row, ciphertext, text chunks and message of a document live in three    *)
(* stores that no transaction spans.  PostgreSQL runs at READ COMMITTED:   *)
(* what a request has written appears when it commits, and an updated row, *)
(* or an inserted unique key, makes others wait until then.  Time is not   *)
(* modelled: any message a worker has not settled may be reclaimed.        *)
(*                                                                         *)
(* A definition whose name ends in _ and a capital is a mutant of the one  *)
(* that follows it.                                                        *)
(***************************************************************************)
EXTENDS Naturals, Sequences, FiniteSets

CONSTANTS
    Docs,           \* ids of document rows, and of their blobs
    People,         \* people who call the API
    Keys,           \* values of the Idempotency-Key header
    NoKey,          \* SQL null: a request without the header
    Requests,       \* requests the API handles at the same time
    Workers,        \* activities that take messages, over all instances
    MAX_DELIVERIES, \* tries before a message becomes a dead letter
    MaxMessages,    \* bound on the messages ever published
    MaxChunks,      \* bound up to which the chunks of a document are counted
    MaxCrashes      \* bound on the crashes of workers

ASSUME ConstantsAssumption ==
    /\ NoKey \notin Keys
    /\ MAX_DELIVERIES \in Nat \ {0}
    /\ MaxMessages \in Nat /\ MaxChunks \in Nat \ {0} /\ MaxCrashes \in Nat

VARIABLES
    doc,       \* the table document
    blob,      \* ids whose ciphertext the object store holds
    chunks,    \* how many rows of document_chunk each document has
    msgs,      \* the stream document.uploaded
    may,       \* what the policies let each person do with the home's documents
    req,       \* what each request is doing
    worker,    \* what each worker is doing
    crashes    \* crashes so far

vars == <<doc, blob, chunks, msgs, may, req, worker, crashes>>

-----------------------------------------------------------------------------
(* Rows, messages, requests, workers *)

\* refs: are s3_key and encryption_key_ref filled in.
Document == [status: {"absent", "pending", "processed", "failed", "deleted"},
             refs: BOOLEAN, key: Keys \cup {NoKey}]

Absent == [status |-> "absent", refs |-> FALSE, key |-> NoKey]

Message == [doc: Docs, by: People, state: {"new", "delivered", "acked", "dead"},
            deliveries: 0..MAX_DELIVERIES]

Idle == [at |-> "idle"]

UploadReq == [at: {"upload.insert", "upload.publish", "upload.commit"},
              me: People, doc: Docs, key: Keys \cup {NoKey}]
RowReq    == [at: {"retry.update", "retry.publish", "retry.commit", "shred.update",
                   "shred.destroy", "shred.forget", "admin.update", "admin.publish"},
              me: People, doc: Docs]

Request == {Idle} \cup UploadReq \cup RowReq

\* A message being handled: which, at which try, and were refs seen in its row.
Handling == [at: {"read", "fetch", "write", "fail", "ack", "reject"},
             msg: Nat, tries: 1..MAX_DELIVERIES, refs: BOOLEAN]

Worker == {Idle} \cup Handling

Finish(r)   == req' = [req EXCEPT ![r] = Idle]
Go(r, at)   == req' = [req EXCEPT ![r].at = at]
Work(w, at) == worker' = [worker EXCEPT ![w].at = at]

-----------------------------------------------------------------------------
(* Policies, keys and locks.  The owner's role and the two grants an owner *)
(* can give (read, or read and write) are all there is.                    *)

can_read_document(me)  == may[me] # "none"
can_write_document(me) == may[me] = "write"

Rows == {d \in Docs : doc[d].status # "absent"}

Holding(k, d) == k # NoKey /\ doc[d].key = k

KeyFree_NoIndex(k) == TRUE

\* The unique index on idempotency_key.
KeyFree(k) == \A d \in Rows : ~Holding(k, d)

KeyLocked(k) ==
    \E q \in Requests : /\ req[q].at \in {"upload.publish", "upload.commit"}
                        /\ req[q].key = k /\ k # NoKey

\* An update of the row has not been committed yet.
RowLocked(d) ==
    \E q \in Requests :
        /\ req[q].at \in {"retry.publish", "retry.commit", "shred.destroy", "shred.forget"}
        /\ req[q].doc = d

SetStatus(d, status) == doc' = [doc EXCEPT ![d].status = status]

-----------------------------------------------------------------------------
(* The queue, as far as publishers see it *)

WillPublish == {r \in Requests :
    req[r].at \in {"upload.insert", "upload.publish", "retry.update", "retry.publish",
                   "admin.update", "admin.publish"}}

Room == Len(msgs) + Cardinality(WillPublish) < MaxMessages

Publish_Lossy(me, d) ==
    \E kept \in BOOLEAN : msgs' = IF kept THEN Append(msgs,
        [doc |-> d, by |-> me, state |-> "new", deliveries |-> 0]) ELSE msgs

Publish(me, d) ==
    msgs' = Append(msgs, [doc |-> d, by |-> me, state |-> "new", deliveries |-> 0])

\* All three publishers announce the document in the name of a person.
PublishStep(r, from, to) ==
    /\ req[r].at = from
    /\ Publish(req[r].me, req[r].doc)
    /\ IF to = "idle" THEN Finish(r) ELSE Go(r, to)
    /\ UNCHANGED <<doc, blob, chunks, may, worker, crashes>>

-----------------------------------------------------------------------------
(* upload *)

\* A row with the caller's key that the caller may read answers the request as it
\* is; otherwise the bytes are encrypted and stored under a new id.
UploadFind(r, me, d, k) ==
    /\ req[r] = Idle
    /\ d \notin Rows \cup blob
    /\ Room
    /\ can_read_document(me) => KeyFree(k)
    /\ blob' = blob \cup {d}
    /\ req' = [req EXCEPT ![r] = [at |-> "upload.insert", me |-> me, doc |-> d, key |-> k]]
    /\ UNCHANGED <<doc, chunks, msgs, may, worker, crashes>>

\* The insert waits for another one of the same key; refused, it leaves the blob.
UploadInsert(r) ==
    /\ req[r].at = "upload.insert"
    /\ ~KeyLocked(req[r].key)
    /\ IF can_write_document(req[r].me) /\ KeyFree(req[r].key)
       THEN Go(r, "upload.publish") ELSE Finish(r)
    /\ UNCHANGED <<doc, blob, chunks, msgs, may, worker, crashes>>

UploadPublish(r) == PublishStep(r, "upload.publish", "upload.commit")

Uploaded_Misnamed(k) == [status |-> "uploaded", refs |-> TRUE, key |-> k]

Uploaded(k) == [status |-> "pending", refs |-> TRUE, key |-> k]

UploadCommit(r) ==
    /\ req[r].at = "upload.commit"
    /\ doc' = [doc EXCEPT ![req[r].doc] = Uploaded(req[r].key)]
    /\ Finish(r)
    /\ UNCHANGED <<blob, chunks, msgs, may, worker, crashes>>

-----------------------------------------------------------------------------
(* retry, by a user and by an administrator *)

RetryFind(r, me, d) ==
    /\ req[r] = Idle
    /\ d \in Rows /\ can_read_document(me)
    /\ doc[d].status # "deleted" /\ doc[d].refs
    /\ Room
    /\ req' = [req EXCEPT ![r] = [at |-> "retry.update", me |-> me, doc |-> d]]
    /\ UNCHANGED <<doc, blob, chunks, msgs, may, worker, crashes>>

\* The two updates that open a transaction's writes: they wait for the row, and
\* fail for a caller who may not write.
UpdateStep(r, from, to) ==
    /\ req[r].at = from
    /\ ~RowLocked(req[r].doc)
    /\ IF can_write_document(req[r].me) THEN Go(r, to) ELSE Finish(r)
    /\ UNCHANGED <<doc, blob, chunks, msgs, may, worker, crashes>>

RetryUpdate(r) == UpdateStep(r, "retry.update", "retry.publish")

RetryPublish(r) == PublishStep(r, "retry.publish", "retry.commit")

RetryCommit(r) ==
    /\ req[r].at = "retry.commit"
    /\ SetStatus(req[r].doc, "pending")
    /\ Finish(r)
    /\ UNCHANGED <<blob, chunks, msgs, may, worker, crashes>>

\* The administrator's retry acts for the owner, whatever the document's status,
\* and commits its update before it publishes.
AdminFind(r, owner, d) ==
    /\ req[r] = Idle
    /\ d \in Rows /\ may[owner] = "write"
    /\ Room
    /\ req' = [req EXCEPT ![r] = [at |-> "admin.update", me |-> owner, doc |-> d]]
    /\ UNCHANGED <<doc, blob, chunks, msgs, may, worker, crashes>>

AdminUpdate(r) ==
    /\ req[r].at = "admin.update"
    /\ ~RowLocked(req[r].doc)
    /\ SetStatus(req[r].doc, "pending")
    /\ Go(r, "admin.publish")
    /\ UNCHANGED <<blob, chunks, msgs, may, worker, crashes>>

AdminPublish(r) == PublishStep(r, "admin.publish", "idle")

-----------------------------------------------------------------------------
(* shred *)

ShredFind(r, me, d) ==
    /\ req[r] = Idle
    /\ d \in Rows /\ can_read_document(me)
    /\ req' = [req EXCEPT ![r] = [at |-> "shred.update", me |-> me, doc |-> d]]
    /\ UNCHANGED <<doc, blob, chunks, msgs, may, worker, crashes>>

\* Status "deleting" is written and never committed.
ShredUpdate(r) == UpdateStep(r, "shred.update", "shred.destroy")

BlobsWithout_RowOnly(d) == blob

BlobsWithout(d) == blob \ {d}

\* The envelope KMS has nothing to destroy; the object store deletes at once.
ShredDestroy(r) ==
    /\ req[r].at = "shred.destroy"
    /\ blob' = BlobsWithout(req[r].doc)
    /\ Go(r, "shred.forget")
    /\ UNCHANGED <<doc, chunks, msgs, may, worker, crashes>>

\* The last update clears the references, and with them the key, and commits; a
\* caller who lost the right to write meanwhile has it all rolled back but the blob.
ShredForget(r) ==
    /\ req[r].at = "shred.forget"
    /\ doc' = IF can_write_document(req[r].me)
              THEN [doc EXCEPT ![req[r].doc].status = "deleted", ![req[r].doc].refs = FALSE]
              ELSE doc
    /\ Finish(r)
    /\ UNCHANGED <<blob, chunks, msgs, may, worker, crashes>>

=============================================================================
