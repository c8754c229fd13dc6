-------------------------------- MODULE Vault --------------------------------
(***************************************************************************)
(* Where the contents of documents live, for every deployment the modules  *)
(* of storage and queue can be wired to: an S3 bucket or a map in memory,  *)
(* the envelope KMS, whose wrapped keys are in the rows, or keys in        *)
(* memory, Redis Streams or jobs in memory.  What is in memory ends with   *)
(* the process.  Ingestion has the pipeline and the policies in detail for *)
(* the durable deployment; here a job is handled in one step.              *)
(*                                                                         *)
(* Ciphertexts may be copied to backups at any time, so that forgetting a  *)
(* content is a matter of its key; of backups of the database, with the    *)
(* wrapped keys, nothing is said.  doomed, forgotten and restarted are     *)
(* history.                                                                *)
(*                                                                         *)
(* A definition whose name ends in _ and a capital is a mutant of the one  *)
(* that follows it.                                                        *)
(***************************************************************************)
EXTENDS Naturals

CONSTANTS
    Docs, Works,   \* documents, and requests for them handled at the same time
    Configs        \* the deployments to consider

ASSUME VaultAssumption == Configs \subseteq [s3 : BOOLEAN, kms : BOOLEAN, redis : BOOLEAN]

VARIABLES
    config,     \* which of S3, the envelope KMS and Redis are configured
    row,        \* the table document
    objects,    \* documents whose ciphertext the store holds
    bucket,     \* does the S3 bucket exist
    keys,       \* documents whose key LocalKmsAdapter holds
    jobs,       \* documents announced and not handled
    work,       \* what each request is doing
    doomed,     \* documents somebody began to shred
    forgotten,  \* documents whose deletion was committed
    restarted   \* has the process been restarted

vault == <<config, row, objects, bucket, keys, jobs, work, doomed, forgotten, restarted>>
history == <<doomed, forgotten, restarted>>

\* refs: are s3_key and encryption_key_ref filled in.
Row == [status : {"absent", "pending", "processed", "failed", "deleted"}, refs : BOOLEAN,
        uploaded : BOOLEAN]
NoRow == [status |-> "absent", refs |-> FALSE, uploaded |-> FALSE]

Resting == [at |-> "rest"]
Work == {Resting} \cup
    [at : {"upload.publish", "upload.commit", "retry.update", "retry.commit",
           "shred.update", "shred.key", "shred.object", "shred.commit", "shred.refused"},
     doc : Docs, refs : BOOLEAN]

VaultTypeOK ==
    /\ config \in [s3 : BOOLEAN, kms : BOOLEAN, redis : BOOLEAN]
    /\ row \in [Docs -> Row]
    /\ objects \subseteq Docs /\ bucket \in BOOLEAN
    /\ ~bucket => config.s3 /\ objects = {}
    /\ keys \subseteq Docs /\ jobs \subseteq Docs
    /\ work \in [Works -> Work]
    /\ forgotten \subseteq doomed /\ doomed \subseteq Docs
    /\ restarted \in BOOLEAN

VaultInit ==
    /\ config \in Configs
    /\ row = [d \in Docs |-> NoRow]
    /\ objects = {} /\ bucket = TRUE /\ keys = {} /\ jobs = {}
    /\ work = [r \in Works |-> Resting]
    /\ doomed = {} /\ forgotten = {} /\ restarted = FALSE

Rest(r)     == work' = [work EXCEPT ![r] = Resting]
Turn(r, at) == work' = [work EXCEPT ![r].at = at]
Task(at, d) == [at |-> at, doc |-> d, refs |-> row[d].refs]

Known == {d \in Docs : row[d].status # "absent"}

\* A transaction has updated the row and not ended.
Locked(d) ==
    \E r \in Works : /\ work[r].at \in {"retry.commit", "shred.key", "shred.object", "shred.commit"}
                     /\ work[r].doc = d

-----------------------------------------------------------------------------
(* The adapters *)

\* Without a look at the answer.
put_Unchecked(d) == objects' = IF ~config.s3 \/ bucket THEN objects \cup {d} ELSE objects

\* S3 answers 404 once the bucket is gone, and the upload fails.
put(d) == (config.s3 => bucket) /\ objects' = objects \cup {d}

\* generateDataKey: the envelope KMS keeps nothing.
generateDataKey(d) == keys' = IF config.kms THEN keys ELSE keys \cup {d}

\* decryptDataKey, with the reference of the row.
decryptDataKey(d) == row[d].refs /\ (config.kms \/ d \in keys)

Readable(d) == d \in objects /\ decryptDataKey(d)

\* Destroying a key that a map holds is left to the row as well.
shredKey_RowOnly(d) == keys

shredKey(d) == keys \ {d}

\* What is left when the object that r's row names is deleted: the empty key names none.
Remaining(r) == IF work[r].refs THEN objects \ {work[r].doc} ELSE objects

\* A missing object is an error.
Refuses_Strict(r) == config.s3 /\ (IF work[r].refs THEN work[r].doc \notin objects ELSE objects # {})

\* With the empty key the URL is that of the bucket, which S3 keeps while it is not empty.
Refuses(r) == config.s3 /\ ~work[r].refs /\ objects # {}

BucketLeft(r) == bucket /\ (config.s3 => work[r].refs)

-----------------------------------------------------------------------------
(* DocumentsService *)

Upload(r, d) ==
    /\ work[r] = Resting
    /\ d \notin Known \cup objects
    /\ \A q \in Works : work[q] # Resting => work[q].doc # d
    /\ put(d)
    /\ generateDataKey(d)
    /\ work' = [work EXCEPT ![r] = Task("upload.publish", d)]
    /\ UNCHANGED <<config, row, bucket, jobs, history>>

\* A job in memory may run before the transaction commits, and finds no row.
UploadPublish(r) ==
    /\ work[r].at = "upload.publish"
    /\ jobs' = jobs \cup {work[r].doc}
    /\ Turn(r, "upload.commit")
    /\ UNCHANGED <<config, row, objects, bucket, keys, history>>

UploadCommit(r) ==
    /\ work[r].at = "upload.commit"
    /\ row' = [row EXCEPT ![work[r].doc] =
                  [status |-> "pending", refs |-> TRUE, uploaded |-> TRUE]]
    /\ Rest(r)
    /\ UNCHANGED <<config, objects, bucket, keys, jobs, history>>

\* The rows of a demo session name objects that were never stored.
DemoDocument(d) ==
    /\ d \notin Known \cup objects
    /\ \A q \in Works : work[q] # Resting => work[q].doc # d
    /\ row' = [row EXCEPT ![d] = [status |-> "processed", refs |-> TRUE, uploaded |-> FALSE]]
    /\ UNCHANGED <<config, objects, bucket, keys, jobs, work, history>>

Retry(r, d) ==
    /\ work[r] = Resting
    /\ d \in Known /\ row[d].status # "deleted" /\ row[d].refs
    /\ work' = [work EXCEPT ![r] = Task("retry.update", d)]
    /\ UNCHANGED <<config, row, objects, bucket, keys, jobs, history>>

RetryUpdate(r) ==
    /\ work[r].at = "retry.update" /\ ~Locked(work[r].doc)
    /\ jobs' = jobs \cup {work[r].doc}
    /\ Turn(r, "retry.commit")
    /\ UNCHANGED <<config, row, objects, bucket, keys, history>>

RetryCommit(r) ==
    /\ work[r].at = "retry.commit"
    /\ row' = [row EXCEPT ![work[r].doc].status = "pending"]
    /\ Rest(r)
    /\ UNCHANGED <<config, objects, bucket, keys, jobs, history>>

\* The administrator's retry, whatever the status.
retryDocument(d) ==
    /\ d \in Known /\ ~Locked(d)
    /\ row' = [row EXCEPT ![d].status = "pending"]
    /\ jobs' = jobs \cup {d}
    /\ UNCHANGED <<config, objects, bucket, keys, work, history>>

\* Both references are read before the row is locked.
Shred(r, d) ==
    /\ work[r] = Resting
    /\ d \in Known
    /\ work' = [work EXCEPT ![r] = Task("shred.update", d)]
    /\ UNCHANGED <<config, row, objects, bucket, keys, jobs, history>>

\* The key is forgotten about.
ShredUpdate_NoKey(r) ==
    /\ work[r].at = "shred.update" /\ ~Locked(work[r].doc)
    /\ Turn(r, "shred.object")
    /\ UNCHANGED <<config, row, objects, bucket, keys, jobs, history>>

ShredUpdate(r) ==
    /\ work[r].at = "shred.update" /\ ~Locked(work[r].doc)
    /\ Turn(r, "shred.key")
    /\ UNCHANGED <<config, row, objects, bucket, keys, jobs, history>>

ShredKey(r) ==
    /\ work[r].at = "shred.key"
    /\ keys' = IF work[r].refs /\ ~config.kms THEN shredKey(work[r].doc) ELSE keys
    /\ doomed' = doomed \cup {work[r].doc}
    /\ Turn(r, "shred.object")
    /\ UNCHANGED <<config, row, objects, bucket, jobs, forgotten, restarted>>

\* Refused, the update of the row is rolled back in WorkFails; the key does not come back.
ShredObject(r) ==
    /\ work[r].at = "shred.object"
    /\ IF Refuses(r)
       THEN Turn(r, "shred.refused") /\ UNCHANGED <<objects, bucket>>
       ELSE /\ objects' = Remaining(r)
            /\ bucket' = BucketLeft(r)
            /\ Turn(r, "shred.commit")
    /\ UNCHANGED <<config, row, keys, jobs, doomed, forgotten, restarted>>

Erased(d) == [row[d] EXCEPT !.status = "deleted", !.refs = FALSE]

ShredCommit(r) ==
    /\ work[r].at = "shred.commit"
    /\ row' = [row EXCEPT ![work[r].doc] = Erased(work[r].doc)]
    /\ forgotten' = forgotten \cup {work[r].doc}
    /\ Rest(r)
    /\ UNCHANGED <<config, objects, bucket, keys, jobs, doomed, restarted>>

-----------------------------------------------------------------------------
(* The worker, failures, restarts *)

\* A handler that throws has its job delivered again by Redis; in memory it is gone.
Handle(d) ==
    /\ d \in jobs /\ ~Locked(d)
    /\ \/ /\ d \notin Known \/ row[d].status = "processed"
          /\ jobs' = jobs \ {d} /\ UNCHANGED row
       \/ /\ d \in Known /\ row[d].status # "processed"
          /\ \E status \in IF Readable(d) THEN {"processed", "failed"} ELSE {"failed"} :
                 row' = [row EXCEPT ![d].status = status]
          /\ jobs' = jobs \ {d}
       \/ jobs' = (IF config.redis THEN jobs ELSE jobs \ {d}) /\ UNCHANGED row
    /\ UNCHANGED <<config, objects, bucket, keys, work, history>>

\* A statement or a call to the store fails: the transaction is rolled back.
WorkFails(r) ==
    /\ work[r] # Resting
    /\ Rest(r)
    /\ UNCHANGED <<config, row, objects, bucket, keys, jobs, history>>

\* A new process has the rows, the bucket and the stream of the old one.
VaultRestart ==
    /\ objects' = IF config.s3 THEN objects ELSE {}
    /\ keys' = {}
    /\ jobs' = IF config.redis THEN jobs ELSE {}
    /\ work' = [r \in Works |-> Resting]
    /\ restarted' = TRUE
    /\ UNCHANGED <<config, row, bucket, doomed, forgotten>>

-----------------------------------------------------------------------------

WorkBegins(r) == \E d \in Docs : Upload(r, d) \/ Retry(r, d) \/ Shred(r, d)

WorkGoesOn(r) ==
    \/ UploadPublish(r) \/ UploadCommit(r) \/ RetryUpdate(r) \/ RetryCommit(r)
    \/ ShredUpdate(r) \/ ShredKey(r) \/ ShredObject(r) \/ ShredCommit(r)

-----------------------------------------------------------------------------
(* Properties *)

\* What was uploaded and nobody asked to destroy can be read, whatever is shredded, fails
\* or is done twice around it: until a restart in every deployment, and for good where
\* contents and keys are both durable (storage.module.ts:11-12).
UploadsStayReadable ==
    \A d \in Known \ doomed : row[d].uploaded =>
        Readable(d) \/ (restarted /\ ~(config.s3 /\ config.kms))

\* Once a deletion is committed no key decrypts the content, though copies of the
\* ciphertext were kept (documents.service.ts:99-103, envelope-kms.adapter.ts:10-12).
ForgottenStaysForgotten ==
    \A d \in forgotten : ~decryptDataKey(d) /\ d \notin keys /\ (config.kms => ~row[d].refs)

\* A deletion that failed between key, object and row can be repeated until it succeeds:
\* the store refuses only what has been deleted before (s3-storage.adapter.ts:53-57).
ShredsAreRepeatable == \A r \in Works : work[r].at = "shred.refused" => work[r].doc \in forgotten
=============================================================================
