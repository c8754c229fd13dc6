------------------------------ MODULE Ingestion ------------------------------
(***************************************************************************)
(* The pipeline of documents: the requests of Documents together with the  *)
(* workers of IngestionService, the consumer of the stream that delivers   *)
(* to them, requests that fail half-way, workers that crash, and owners    *)
(* that share, revoke and sell meanwhile.                                  *)
(***************************************************************************)
EXTENDS Documents

Init ==
    /\ doc = [d \in Docs |-> Absent]
    /\ blob = {}
    /\ chunks = [d \in Docs |-> 0]
    /\ msgs = <<>>
    /\ may \in [People -> {"none", "read", "write"}]
    /\ req = [r \in Requests |-> Idle]
    /\ worker = [w \in Workers |-> Idle]
    /\ crashes = 0

-----------------------------------------------------------------------------
(* The consumer *)

InState(s) == {n \in DOMAIN msgs : msgs[n].state = s}

Take(w, n, tries) ==
    /\ worker[w] = Idle
    /\ msgs' = [msgs EXCEPT ![n].state = "delivered", ![n].deliveries = tries]
    /\ worker' = [worker EXCEPT ![w] =
                     [at |-> "read", msg |-> n, tries |-> tries, refs |-> FALSE]]
    /\ UNCHANGED <<doc, blob, chunks, may, req, crashes>>

\* loop: the first message the group has not been given.
Deliver(w) ==
    \E n \in InState("new") :
        /\ \A m \in InState("new") : n <= m
        /\ Take(w, n, 1)

\* reclaim: any message that was delivered and not acknowledged.  The number of
\* tries matters up to MAX_DELIVERIES and is not counted beyond.
Reclaim(w) ==
    \E n \in InState("delivered") :
        Take(w, n, IF msgs[n].deliveries < MAX_DELIVERIES
                   THEN msgs[n].deliveries + 1 ELSE MAX_DELIVERIES)

\* A dead letter stays one when another worker acknowledges the message.
Settle(w, state) ==
    LET n == worker[w].msg
    IN  /\ msgs' = [msgs EXCEPT ![n].state = IF @ = "dead" THEN @ ELSE state]
        /\ worker' = [worker EXCEPT ![w] = Idle]

\* dispatch: the handler returned.
Acknowledge(w) ==
    /\ worker[w].at = "ack"
    /\ Settle(w, "acked")
    /\ UNCHANGED <<doc, blob, chunks, may, req, crashes>>

GivesUp_Never(tries) == FALSE

GivesUp(tries) == tries >= MAX_DELIVERIES

\* dispatch: the handler threw; the message is left pending, or is a dead letter.
Rejected(w) ==
    /\ worker[w].at = "reject"
    /\ IF GivesUp(worker[w].tries)
       THEN Settle(w, "dead")
       ELSE worker' = [worker EXCEPT ![w] = Idle] /\ UNCHANGED msgs
    /\ UNCHANGED <<doc, blob, chunks, may, req, crashes>>

-----------------------------------------------------------------------------
(* The handler, one transaction in the context of whoever announced the document *)

Handled(w) == msgs[worker[w].msg]

\* A document that the transaction cannot see, and one already processed, are done.
Read(w) ==
    /\ worker[w].at = "read"
    /\ LET d == Handled(w).doc
       IN  worker' = [worker EXCEPT
              ![w].at = IF \/ d \notin Rows \/ ~can_read_document(Handled(w).by)
                           \/ doc[d].status = "processed"
                        THEN "ack" ELSE "fetch",
              ![w].refs = doc[d].refs]
    /\ UNCHANGED <<doc, blob, chunks, msgs, may, req, crashes>>

\* Fetch, decrypt with the key_ref read before, and understand: without ciphertext
\* or key there is no text, and the reading may fail for reasons of its own.
Fetch(w) ==
    /\ worker[w].at = "fetch"
    /\ \E at \in IF worker[w].refs /\ Handled(w).doc \in blob
                 THEN {"write", "fail"} ELSE {"fail"} : Work(w, at)
    /\ UNCHANGED <<doc, blob, chunks, msgs, may, req, crashes>>

Recount_DeletesLast(n) == 0

\* The delete finds no row, there being no policy that lets it, then one is inserted.
Recount(n) == IF n < MaxChunks THEN n + 1 ELSE n

\* The chunk is inserted, the status updated, the transaction commits.  A caller
\* who may not write aborts the transaction, and so the update in the catch too.
Write(w) ==
    /\ worker[w].at = "write"
    /\ LET d == Handled(w).doc
       IN  /\ ~RowLocked(d)
           /\ IF can_write_document(Handled(w).by)
              THEN /\ SetStatus(d, "processed")
                   /\ chunks' = [chunks EXCEPT ![d] = Recount(@)]
                   /\ Work(w, "ack")
              ELSE Work(w, "reject") /\ UNCHANGED <<doc, chunks>>
    /\ UNCHANGED <<blob, msgs, may, req, crashes>>

\* The catch records the failure, which is a success for the queue.
RecordFailure(w) ==
    /\ worker[w].at = "fail"
    /\ LET d == Handled(w).doc
       IN  /\ ~RowLocked(d)
           /\ IF can_write_document(Handled(w).by)
              THEN SetStatus(d, "failed") /\ Work(w, "ack")
              ELSE Work(w, "reject") /\ UNCHANGED doc
    /\ UNCHANGED <<blob, chunks, msgs, may, req, crashes>>

\* The transaction times out or loses its connection before it commits.
TransactionFails(w) ==
    /\ worker[w].at \in {"read", "fetch", "write", "fail"}
    /\ Work(w, "reject")
    /\ UNCHANGED <<doc, blob, chunks, msgs, may, req, crashes>>

Crash(w) ==
    /\ crashes < MaxCrashes
    /\ worker[w] # Idle
    /\ worker' = [worker EXCEPT ![w] = Idle]
    /\ crashes' = crashes + 1
    /\ UNCHANGED <<doc, blob, chunks, msgs, may, req>>

-----------------------------------------------------------------------------
(* The whole *)

\* A request fails: what it has not committed is rolled back, blobs and messages stay.
Fail(r) ==
    /\ req[r] # Idle
    /\ Finish(r)
    /\ UNCHANGED <<doc, blob, chunks, msgs, may, worker, crashes>>

\* Sharing, revoking or selling the home changes what a person may do.
AccessChanges(me, role) ==
    /\ may' = [may EXCEPT ![me] = role]
    /\ UNCHANGED <<doc, blob, chunks, msgs, req, worker, crashes>>

Start(r) ==
    \E me \in People, d \in Docs :
        \/ \E k \in Keys \cup {NoKey} : UploadFind(r, me, d, k)
        \/ RetryFind(r, me, d) \/ AdminFind(r, me, d) \/ ShredFind(r, me, d)

Continue(r) ==
    \/ UploadInsert(r) \/ UploadPublish(r) \/ UploadCommit(r)
    \/ RetryUpdate(r) \/ RetryPublish(r) \/ RetryCommit(r)
    \/ AdminUpdate(r) \/ AdminPublish(r)
    \/ ShredUpdate(r) \/ ShredDestroy(r) \/ ShredForget(r)

Consume(w) == Deliver(w) \/ Reclaim(w)

Handle(w) ==
    \/ Read(w) \/ Fetch(w) \/ Write(w) \/ RecordFailure(w)
    \/ Acknowledge(w) \/ Rejected(w)

Next ==
    \/ \E r \in Requests : Start(r) \/ Continue(r) \/ Fail(r)
    \/ \E w \in Workers : Consume(w) \/ Handle(w) \/ TransactionFails(w) \/ Crash(w)
    \/ \E me \in People, role \in {"none", "read", "write"} : AccessChanges(me, role)

Spec == Init /\ [][Next]_vars

\* The event loop carries on with what it has begun, the consumer's loop and its
\* timer never stop, and PostgreSQL queues those who wait for a row.
FairSpec ==
    /\ Spec
    /\ \A r \in Requests : WF_vars(Continue(r))
    /\ \A w \in Workers : /\ WF_vars(Consume(w)) /\ WF_vars(Handle(w))
                          /\ SF_vars(Write(w) \/ RecordFailure(w))

-----------------------------------------------------------------------------
(* Properties *)

TypeOK ==
    /\ doc \in [Docs -> Document]
    /\ blob \subseteq Docs
    /\ chunks \in [Docs -> 0..MaxChunks]
    /\ msgs \in Seq(Message)
    /\ may \in [People -> {"none", "read", "write"}]
    /\ req \in [Requests -> Request]
    /\ worker \in [Workers -> Worker]
    /\ \A w \in Workers : worker[w] # Idle => worker[w].msg \in DOMAIN msgs
    /\ crashes \in 0..MaxCrashes

\* Status and index are written together: a processed document can be searched,
\* however often it was processed, retried or shredded on the way.
ProcessedIsIndexed == \A d \in Docs : doc[d].status = "processed" => chunks[d] > 0

\* A row gives up its references, the only copy of the key among them, after the
\* ciphertext is gone, and nothing brings it back: the content stays unreadable.
ForgottenMeansDestroyed == \A d \in Rows : ~doc[d].refs => d \notin blob

\* No request commits a document that was not announced, though it may fail between
\* any two of its steps: for every row there is, or was, a message.
EveryDocumentIsAnnounced == \A d \in Rows : \E n \in DOMAIN msgs : msgs[n].doc = d

\* Repeating an upload with its Idempotency-Key, even at the same time, makes one row.
OneDocumentPerKey ==
    \A d, e \in Rows : doc[d].key = doc[e].key /\ doc[d].key # NoKey => d = e

\* Every published message is acknowledged or given up in the end, whatever fails
\* and however often permissions change.
EveryMessageSettles ==
    \A n \in 1..MaxMessages :
        n \in DOMAIN msgs ~> n \in InState("acked") \cup InState("dead")

-----------------------------------------------------------------------------
(* What the repository says and its code does not do *)

\* A deleted document is not processed again: its status stays "deleted".
DeletedIsFinal ==
    [][\A d \in Docs : doc[d].status = "deleted" => doc'[d].status = "deleted"]_vars

\* What was shredded is "permanent ulæseligt" (documents.service.ts:101-102): document_chunk
\* keeps none of its text.
ShreddedHasNoText == \A d \in Docs : doc[d].status = "deleted" => chunks[d] = 0

\* Processing a document again replaces its chunks.
NoDuplicateChunks == \A d \in Docs : chunks[d] <= 1

\* No message is lost: a document waiting for the worker has a message on its way,
\* or given up where the administrator sees it.
PendingIsQueued ==
    \A d \in Docs : doc[d].status = "pending" =>
        \/ \E n \in DOMAIN msgs : msgs[n].doc = d /\ msgs[n].state # "acked"
        \/ \E r \in Requests : req[r].at = "admin.publish" /\ req[r].doc = d

=============================================================================
