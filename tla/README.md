# House Passport in TLA+

A verification project for the House Passport API: TLA+ models of its core,
model-checked with TLC on small instances, and theorems about them checked by
TLAPS. Paths are those of the repository; `src/src/` holds the NestJS code and
`src/src/prisma/sql/security.sql` the row-level security (RLS) it relies on.

## The system

House Passport keeps one record per home that outlives its owners. Ownership is
a relation in time, everybody else's access is a grant by the owner, and
documents belong to the home. The API is one Node process (or several), over
PostgreSQL, an S3-like object store and Redis Streams. Most services run each
call in a transaction as the role `hp_app` with the caller's id in a session
setting, so RLS decides what they see (`TenantService.withTenant`); transfers,
registration and administration run on an admin connection without RLS.

| Component | State | Operations that change it | What makes it correct |
|---|---|---|---|
| transfer (`transfer/`) | `property_transfer`, `ownership_period`, `access_grant` | initiate, accept, cancel | one owner per home; title passes only from a verified owner to the person named; one open offer; a new owner starts with no grants |
| sharing (`sharing/`) | `access_grant` | share, revoke | only owners share; one open grant per person |
| verification (`identity/`) | pending sessions in memory, `ownership_period.mitid_verified`, `person.is_mitid_verified` | initiate, callback | verification belongs to a person and a home, and is not inherited |
| RLS and tenant context (`prisma/sql/`, `tenant/`) | none of its own | decides every statement | as stated by the components that run under it |
| authentication (`auth/`) | `person`; tokens at the callers | register, login | one account per e-mail; logins find it |
| documents (`documents/`) | `document`, ciphertext, key reference, messages | upload, retry, shred | one row per idempotency key; every row is announced; what is shredded is unreadable and stays so |
| ingestion (`documents/ingestion.service.ts`) | `document`, `document_chunk` | handle | status and index agree; reprocessing does not duplicate |
| queue (`queue/`) | stream, pending list, dead letters; or jobs in memory | publish, loop, reclaim, dispatch, requeue, discard | at least once; no message lost; no message given up early or tried for ever |
| storage and KMS (`storage/`) | objects; the key is wrapped in the row, or in memory | put, delete, shred | contents readable until shredded, never afterwards |
| administration (`admin/`) | `document`, admin flag, dead letters | retryDocument, requeue, discard, setAdmin | administrators come from the allow-list; as documents and queue |
| properties, onboarding (`properties/`) | `property`, `ownership_period` | createFromAddress, refreshBbr, deleteProperty | one home per BFE number; nobody loses a home but by a sale |
| registries (`registry/`), brokers (`identity/`) | none | lookupByAddress, lookupOwner, exchangeCode | a failure is not an answer |
| maintenance, warranties | `maintenance_task`, `warranty` | create, complete | a recurring task goes on, on sensible dates |
| AI adapters, search, overview, health | none | they compute | text is read as written; indexing never blocks; scores reward work |
| demo (`demo/`) | a person and a home | createSession | nobody sees half a demo home |

How they meet: all of them through the tables, whose policies ask
`ownership_period` and `access_grant`; a sale therefore changes what sharing,
documents, verification and the worker may do from one statement to the next.
Documents and the worker meet through the stream, the row and the object store,
which no transaction spans. Verification begins in one request and ends in
another that the broker sends.

What is hard here: PostgreSQL runs at READ COMMITTED, so a check and the write
it protects are two moments, inside a transaction too; the transfer service
issues autocommitted statements; messages are delivered more than once and
before the commit they speak of; requests, transactions and workers end at any
point. `PROJECT.json` lists the hazards line by line.

## Modules

| Module | What it is |
|---|---|
| `PassportTables` | tables, policies, requests and row locks of the access core |
| `Transfer`, `Sharing`, `Verification` | one module per service: its statements as actions over `PassportTables` |
| `Passport` | composes the three with registration, failures and restarts; properties |
| `TitleChain` | the abstract specification: a home has an owner, offers are promises, title passes along a promise |
| `Documents` | upload, retry, shred and the administrator's retry over row, ciphertext, stream |
| `Ingestion` | composes them with a consumer of the stream, the worker's handler, failures and crashes; properties |
| `StreamQueue` | the Redis Streams adapter command by command, with crashes, failing commands, trimming, dead letters |
| `AtLeastOnce` | the abstract specification: an entry is owed until handled, buried or trimmed over a backlog |
| `Outside` | what a service outside may answer: nothing, or not at all |
| `Registry` | look-ups of homes and owners, MitID tokens, owner matching, with all fall-backs |
| `Reading` | PDF text, the AI adapters, indexing of a file, search and ask |
| `Overview` | score, grade and upcoming tasks, month arithmetic, the health check |
| `Calculations` | puts a question to each of those three; properties of the answers |
| `Homes` | onboarding, refresh, deletion, demo sessions, tasks and warranties over `Registry`; properties |
| `Accounts` | registration, login, tokens, administrators; properties |
| `Vault` | where contents and keys are, in every wiring of storage, KMS and queue; properties |
| `Deployment` | composes `Accounts` and `Vault` in one process that restarts |
| `MCPassport`, `MCIngestion`, `MCStreamQueue`, `MCHomes`, `MCCalculations`, `MCDeployment` | instances for TLC |
| `PassportProofs`, `TitleProofs`, `RaceProofs` | theorems about `Passport`: ownership; verification and the refinement; what only races break |
| `IngestionProofs`, `StreamQueueProofs`, `HomesProofs`, `CalculationsProofs`, `DeploymentProofs` | theorems about the module of that name |

### How the models correspond to the code

*Requests.* A request is a record in `req[r]` (a worker in `worker[w]`, an
activity of the queue in `thread[t]`, a call in `call[c]`, work on documents in
`work[r]`) whose `at` names the next statement; its other fields are what the
handler has read. An action runs from one point where another request can come
between to the next. What a transaction writes appears in the action that commits
it (`AcceptCommit`, `ShareCommit`, `RetryCommit`, `ShredForget`, `CreateCommit`,
`CompleteCommit`); what its earlier statements decided is in the record. `accept`
is two actions because its statements see the rows committed when they run: the
set of grants it closes is fixed by `AcceptTx` and takes effect in
`AcceptCommit`, and a sharing may commit in between.

*Locks.* A row a transaction has written, and a unique key it has inserted, is
locked until the transaction ends. Locks are not variables: `GrantLocked`,
`HandoverRunning`, `KeyLocked`, `NumberLocked`, `RowLocked` and `Locked` say which
request in flight holds them, and a statement that needs one is not enabled
meanwhile.

*Failures.* `Fail(r)` (`CallFails`, `WorkFails`) ends a request anywhere:
statement errors, lost connections and Prisma's transaction timeout all roll back
what is not committed and leave what was autocommitted, stored or published.
`Restart` does it to all requests and empties what is in memory: sessions of the
broker in `Passport`; local keys, local objects and in-memory jobs in
`Deployment`. A worker's transaction fails (`TransactionFails`, the handler
throws) or the worker dies (`Crash`, nobody acknowledges). In `StreamQueue` a
Redis command can fail wherever the code sends one; where it is sent decides who
catches the error (`xackFails`, `commandFails`, `startFails`, `requeueStops`).

*The access core.* A table of `Passport` is a sequence: row ids are positions and
a deleted grant stays as a tombstone no query returns. An e-mail address is its
person, registered or not (`Accounts` has addresses as people type them). Dates
are dropped: `valid_to` is "open" or "closed". Organisation subjects of grants are
never created by the code and left out. MitID sessions are a set of person and
home; state, nonce and expiry decide only whether a callback ends early, which it
may. Whether the broker's answer matches the register's is a choice there and
computed in `Registry`.

*The pipeline.* A document's content is whether ciphertext (`blob`), key (`refs`:
the envelope KMS keeps the wrapped key only in the row) and text (`chunks`) exist.
`may[p]` is what the policies let `p` do with the home's documents, and changes at
any time as sharing, revoking and sales change it. Status "deleting" is written
and overwritten in one transaction and never seen. `Ingestion` takes a message
from delivery to its end in few steps and has the documents in detail;
`StreamQueue` has the messages in detail and knows handlers only as returning or
throwing. Documents of demo sessions never pass through upload: they are in
`Vault` (`DemoDocument`), not in `Ingestion`.

*The queue.* `log` is every entry ever published, `first` where trimming has got
to (`MAXLEN ~` trims no further than the limit, and how far is Redis's choice).
Time is one bit per entry: `Age` makes a delivered entry "idle", whether or not a
handler still works on it, which is why two instances, or two passes of one, can
have it at once. `reclaim` keeps the counts of the list it read while it works
through it. A trimmed entry that is claimed leaves the pending list (Redis 7). The
two commands of dead-lettering and of requeueing are separate steps.

*Homes.* A row of `homes` joins a home with its open period and its readers; sales
and grants are one step here, as `Passport` has them in detail. `DeleteHome`
changes nothing because no policy allows DELETE on the tables of the home,
`property` included: the transaction deletes grants only, fails at its last
statement and is rolled back. `ReturningIsChecked` is a question about
PostgreSQL's treatment of `INSERT ... RETURNING`, see the observations; the run
assumes the code's intention.

*Computations.* Texts are sequences of character codes, dictionaries sets of
names, embeddings their length and whether the model made them. The two loops of
the reader of PDF content are steps (`ReadStep`, `ExtractStep`) taken as often as
the content has characters, by when they have reached its end; `normalise` is the
three replacements of the last line of `extractPdfText`. Registers answer rows,
wrapped in the shapes `queryList` accepts, or fail, and "the first row that" is a
position in that list. The calendar is the Gregorian one. `PdfTextIsRead` has a
writer of strings in parentheses of its own (`Content`), which the program has not:
each character is written as it is, escaped, or in one to three octal digits, and
lines are continued; parentheses stand as they are where they are balanced. What it
made the reader must undo, but for what `AsRead` names: `\r` is lost, `\b` and `\f`
become letters, a continued line keeps its line feed. Not written are line ends other
than a line feed, and hexadecimal strings, which the reader does not look for. Of whole documents it speaks where every stream is what its
dictionary says (`Legible`), for the reasons under Observations.

*Deployments.* `config` says which adapters are wired. A copy of a ciphertext may
exist in a backup at any time, so that forgetting is about keys. Backups of the
database, which hold the wrapped keys, are outside the model.

Definitions named `X_Something` before `X` are mutants of `X`: each is a mistake
one could make in that code, and for each property `PROJECT.json` names one that
the property detects.

## Runs

Each run's bounds are in its `.cfg`. All passing runs are exhaustive.

| Run | Question | Instance |
|---|---|---|
| `PassportConcurrent` | Do owners, hand-overs and offers survive overlapping requests, and which races do offers not survive? `ImplementsTitleChain` is the refinement of `TitleChain` | 3 people, 1 home, 2 requests, 4 periods, no grants, 3 offers |
| `PassportSales` | Which sharings survive a sale, and when does a person come to have two grants? | 2 people, 1 home, 2 requests, 3 periods, 3 grants, 2 offers, 1 session |
| `PassportLiveness` | Does every request end, and do only owners share, while the home is sold? | 2 people, 1 home, 2 requests, 2 periods, 2 grants, 1 offer, fair |
| `IngestionPipeline` | Do row, index, ciphertext and messages stay consistent? | 1 document, 2 requests, 2 workers, 2 deliveries, 2 messages, 1 crash |
| `IngestionUploads` | Do concurrent uploads respect the key? | 2 documents, 2 people, 1 key, 2 requests, 3 messages |
| `IngestionLiveness` | Does every message settle? | 1 document, 1 request, 1 worker, 2 messages, 1 crash, fair |
| `StreamQueue` | Is anything lost, buried early, or forgotten by a requeue? | 2 instances, 3 activities, 2 entries, 1 administrator, 1 fault |
| `StreamQueueLiveness` | Does every entry settle? `ImplementsAtLeastOnce` is the refinement of `AtLeastOnce` | 1 instance, 3 entries, backlog of 2, 1 fault, fair |
| `Homes` | Do onboarding, demo sessions, deletion and recurring tasks keep homes, owners and rows right? | 2 people, 2 homes, 2 requests, 3 rows |
| `Calculations` | Are the computed answers right, and are failures answers? | every combination of the answers in `MCCalculations` |
| `Deployment` | Do accounts and contents survive races, failures and restarts in every wiring? | 2 people, 1 mailbox, 2 documents, 4 wirings, 2 in flight |

One run TLC must refute: `ShreddedHasNoText`. The text of a shredded document
stays in `document_chunk`, against `documents.service.ts:101-102` ("indholdet er
permanent ulæseligt"). Search no longer returns it, since it asks for documents that
are processed (`search.service.ts:34`, `Reading.search`); the row is there all the same.

**Bounds.** Three people are a seller, a buyer and somebody else (a second
buyer, a reader, the next owner); with three or four periods a home is sold,
resold and bought back. Two requests suffice for the races: every check in the
code is invalidated by one other request. `PassportSales` has two people, who sell
the home to each other, so that there is room for three grants over two sales: a grant
a first sale left is there for the second to close. Each disjunct of the races is needed
in these instances, since TLC finds a counterexample without it, but for the second of
`SharesRace`: seller and buyer sharing with one and the same person takes three people,
which `PassportSales` has no room for and `SharesOnlyRace` covers. In `Calculations` strings have
up to two of all characters that mean something to the reader in all ways, or up to
four of those that meet badly: parentheses, digits after octal numbers of one, two and
three digits, a `T` before the end. Two deliveries tell a first from a
last try; two messages tell "another message for the same document" from none.
In `StreamQueue` lists of one or two entries make passes end, continue and
overlap. Its two entries are never trimmed, so that nothing excuses a loss;
`StreamQueueLiveness` trims a third, with one instance and the refinement
checked; the theorems cover instances, trimming and requeues together. In
`Homes` a person can be one more than is registered (demo sessions make people),
and every address leads to the same number. `Deployment` bounds what is in flight
(`MaxInFlight`) and what is stored (`MaxRows`, persons and documents together) over
both components, because they meet only in restarts and in the administrator's
retry; its wirings take Redis together with S3, the queue mattering to nothing but
`jobs`. Bounds appear in guards of the actions that add rows or begin requests
(`MaxPeriods`, `MaxGrants`, `MaxOffers`, `MaxSessions`, `MaxMessages`,
`MaxEntries`, `MaxHomes`, `MaxNew`, `MaxRows`, `MaxTimes`, `MaxCrashes`,
`MaxFaults`; `MaxChunks` is where counting stops), so that no request is stopped
half-way by a bound. `MaxItems` is the code's own limit of six upcoming tasks,
lowered so that it is reached.

**Deadlock.** It is checked in `Passport`, `Ingestion` and `Deployment`, where
restarts and changes of access are always possible and waiting for ever is asked
of the liveness runs. `Calculations` stops when it has answered, `StreamQueue`
when everything is settled and the bounds are used up, `Homes` when its bounds
are: there the configuration says CHECK_DEADLOCK FALSE.

**Fairness.** Weak fairness on the steps of a request that has begun: the event
loop resolves its promises. Strong fairness on steps that wait for a row lock:
PostgreSQL queues waiters and hands a released row to them, while weak fairness
alone would let other requests take it again and again. Weak fairness on the
consumer's loop and reclaim timer, which never stop, on the handler, on the
passing of time, and on the start of an instance that is down (the compose file
restarts it). An instance that came up without a consumer is not assumed to try
again, because nothing makes it. Nothing is assumed of callers, failures, crashes
or permission changes.

## Observations

What the models showed about the code beyond the run above. A promise in
quotation marks is a comment of the code.

- Five promises about offers and grants can be broken by requests that overlap, all by
  the pattern of a check and a later write. The properties name the races, and say that
  nothing else breaks them. *One open offer, its verified owner's*
  (`OnlyRacesBreakOffers`): two initiates that both supersede before either creates;
  an initiate during a sale; a sale for an offer that was cancelled or superseded since
  it was read. *"Tilbuddet er ikke længere aktivt"* (`SettledOffersStaySettled`,
  `transfer.service.ts:112`): a request that read the offer while it was open still
  cancels or accepts it. *Each sale has its offer* (`OnlyRacesUnmatchSales`): such a
  request writes on an offer that has been accepted. *"ny ejer starter på en ren tavle"*
  (`OnlyRacesLeaveGrants`, `:94`): a sharing commits during the sale or after it, on a
  policy asked before. *One grant per person* (`OnlyRacesDoubleGrants`): two sharings
  that have no grant to replace, or the buyer's own sharing when the sale makes him the
  owner before it writes.
- Who may read a home and does not own it can complete `VerifyCallback`: the
  person is then marked verified and no period is (`verification.service.ts:62`).
- Definitions of `Ingestion` and `Homes` under "What the repository says and its
  code does not do" are in no run: `DeletedIsFinal` (a queued message makes a
  deleted document failed, `documents.service.ts:83`), `NoDuplicateChunks` (the
  DELETE before re-indexing finds nothing under RLS, `ingestion.service.ts:59`),
  `PendingIsQueued` (the message is consumed before the upload commits;
  with the in-memory queue this needs no second process), and `FictionIsMarked`
  ("Skriv ALDRIG fiktive data", `properties.service.ts:98`: onboarding while the
  address service is down stores the stub's year 1974, and a later refresh without
  a year in the register keeps it under the register's name).
- A shredding that loses its last update leaves a row with references to content
  that is gone; repeating it succeeds (`ShredsAreRepeatable`).
- Shredding a deleted document again sends DELETE for the bucket itself. S3 refuses
  while the bucket holds objects; an empty bucket is deleted, and uploads fail
  until it is made again.
- S3 without `KMS_MASTER_KEY` loses every content at the next restart; the module
  wires the two independently (`storage.module.ts:11-12`).
- `deleteProperty` never succeeds: there is no policy for DELETE on `property`.
- `property_select` is asked of the row `INSERT ... RETURNING` returns, before the
  period that would make it readable exists. With `ReturningIsChecked` TRUE no new
  home is ever onboarded.
- Completing a recurring task twice leaves two open occurrences.
- `health` waits on a Redis that cannot be reached: the client queues commands
  without limit of retries, so the answer never comes rather than "degraded".
- A PDF stream whose dictionary contains another dictionary after its filter is
  taken for unfiltered text, and its text is not found (`pdf-text.ts:17`).
- Only streams without a filter are asked whether they are images: a compressed image
  is read as text as soon as its data hold a `Tj` or `TJ` by chance
  (`pdf-text.ts:26-32`).
- Of PDF strings the reader loses `\r`, reads `\b` and `\f` as letters
  (`pdf-text.ts:49`, `:56`) and keeps the line feed of a continued line.
- "også i backups" (`documents.service.ts:102`) holds of copies of the ciphertext. With
  the envelope KMS the wrapped key is in the row, so that a backup of the database from
  before the shredding, the master key and a copy of the object give the content.
- `openai-ai.adapters.ts:95-98` mixes fallback vectors with the model's in one
  index, where distances between the two mean nothing.

## Proofs

Every theorem holds for any number of people, homes, documents, requests, rows and
messages, that is, for all constants the `ASSUME` of the module admits. An invariant
is proved by an inductive one that implies it; below, why that one is needed.

`PassportProofs`:

- `TypeCorrect`: `Spec => []TypeOK`. `TypeOK` is inductive because it says that
  the rows requests refer to exist, and rows are only appended.
- `AlwaysOneOwner`: `Spec => []OneOwner`, and `HandoversExclusive`:
  `Spec => []HandoversAreExclusive`. The inductive invariant is their
  conjunction with `TypeOK`: `OneOwner` alone is not inductive, since a hand-over
  that commits needs to know that the open period is still the seller's;
  `HandoversAreExclusive` alone is not, since only one owner makes the seller's
  period the only open one. Between `AcceptTx`, where the unique index is
  checked, and `AcceptCommit` no other action opens or closes a period of the
  home, because the lock excludes other hand-overs. The runs have one home; the
  theorems hold for any number of them at once.

`TitleProofs`, where requests overlap and fail as they like:

- `VerificationIsPersonal`: `Spec => []VerifiedPeriodsHaveVerifiedPersons`, and
  `GrantorsHaveOwned`: `Spec => []GrantsComeFromOwners`. `SharersHaveHeld` adds that
  whoever is about to commit a grant holds the home or has held it, since between the
  policy's answer and the commit it can be sold.
- `RefinesTitleChain`: `Spec => Title!TitleSpec`, for the mapping in `Passport`.
  `AddressedOffers` says that who accepts is whom the offer names, found by address or
  by person; together with `OneOwner` it makes `AcceptCommit` a step of the title along
  a promise. `InitiateSupersede`, `InitiateCreate` and `CancelWrite` withdraw and make
  promises; everything else stutters.

`RaceProofs`, for any number of overlapping requests, homes, offers, grants and sales.
No hypothesis says which requests overlap. A promise is "in order" at a home when it is
kept and the requests in flight there still rely on what is so; each theorem says of
every step that it keeps the promise in order, or is taken in one of the races named:

- `OffersOnlyRace`: `Spec => OnlyRacesBreakOffers`. Away from the races a sale is for
  the home's one pending offer, and leaves none pending and nobody making one
  (`SaleClearsOffers`); supersede clears the way for the create that follows.
- `SettledForGood`: `Spec => SettledOffersStaySettled`, of every step without exception:
  nothing that looks at an offer after it is settled writes it, so that the requests that
  found it pending are the only ones that can.
- `SalesOnlyRace`: `Spec => OnlyRacesUnmatchSales`. A sale adds one to accepted offers
  and to closed periods in one step (`OneSale`), other steps add to neither (`NoSale`).
- `GrantsOnlyRace`: `Spec => OnlyRacesLeaveGrants`. What a hand-over has selected is all
  there is until a sharing adds to it (`AllClosingStep`).
- `SharesOnlyRace`: `Spec => OnlyRacesDoubleGrants`. `SharesInv` adds that a sharing's
  grant is the home's and its subject's, and that no two that are about to commit
  replace the same one, the first holding its lock; so the second is rolled back.

They rest on `TitleInv` of `TitleProofs`: types, one owner, exclusive hand-overs, and
sales to whom the offer names.

`IngestionProofs`:

- `TypeCorrect`: `Spec => []TypeOK`.
- `ForgottenStaysDestroyed`: `Spec => []ForgottenMeansDestroyed`. Strengthened by
  `ShreddingInv`: a request about to clear the references has deleted the
  ciphertext, and by `ActorsHaveRows`: whoever is about to write a row, request or
  worker, has seen it, so that nothing can store its ciphertext again, uploads
  taking an id that is neither a row nor stored.
- `AlwaysAnnounced`: `Spec => []EveryDocumentIsAnnounced`. Strengthened by
  `AnnouncingInv`: an upload about to commit has published; messages are never
  removed (`Lasting`), and a worker's status update adds no row (`ActorsHaveRows`).
- `KeysAreUnique`: `Spec => []OneDocumentPerKey`. `KeyInv` adds that the key of an
  inserted row is free until it commits, and that no two uploads have inserted one key:
  the unique index makes the second wait, and fails it when the first has committed.
- `ProcessedHasText`: `Spec => []ProcessedIsIndexed`, from `PipelineInv`: status and text
  are written in one commit. It needs `MaxChunks > 0`, which a bound of nought would
  have made vacuously false.

`StreamQueueProofs`, for any number of instances, activities, administrators,
entries and faults:

- `NothingIsEverLost`: `Spec => []NothingIsLost`, `NeverBuriedEarly`:
  `Spec => []DeadAfterDeliveries`, and `LettersAlwaysKept`:
  `Spec => []LettersAreKept`. One inductive invariant, `QueueInv`, serves the three.
  `TaskInv` relates what a thread has in hand to what Redis knows: a task counts no
  more tries than Redis has delivered the entry, or will have once it is claimed
  (the list of hanging entries is read before), and a thread about to acknowledge
  has a handler's return or a letter behind it. `EntriesInv` says the same of entries
  that are acknowledged, and that trimming leaves a backlog; `LettersInv` that a
  letter is removed after its job was added again. `LettersExist` and `TypeOK` keep
  references valid. Every step moves one thread or one entry and takes nothing back
  (`Lasting`), so that threads which do not move keep their invariant (`TaskLasts`).
- `RefinesAtLeastOnce`: `Spec => Promise!Spec`, for the mapping in `StreamQueue`.
  `XADD` is `Publish`, with what it trims; a handler that returns is `Handle`, a dead
  letter is `Bury`, an acknowledgement is `Settle`, which `TaskInv` allows; everything
  else stutters, an entry that a claim finds trimmed included.

`HomesProofs`, from `HomesInv`:

- `TypeCorrect`: `Spec => []TypeOK`.
- `NumbersAreUnique`: `Spec => []OneHomePerNumber`. Between insert and commit a request
  has its number to itself (`NumberLocked` is the index making others wait), and what the
  registers say of an address is never a demo home's number, which is its row's.
- `NobodySeesHalfADemo`: `Spec => []DemosAreWholeOrUnseen`. Nobody else owns, reads or
  builds the home of a running session (`SessionIsPrivate`), and its person is not yet
  somebody who can call; sessions that broke off leave homes that stay so.
- `SeriesGoOn`: `Spec => []RecurringTasksGoOn`. Two completions of a task at once leave
  two occurrences, never none: `RowsInv` relates an occurrence to the task it came from,
  and says that only rows of one kind share a series, without which completing an
  ordinary task could end a recurring one.
- `NothingElseTakesAway`: `Spec => OnlySalesTakeAway`, of every step.

`DeploymentProofs`. `Accounts` and `Vault` share no variable, so that the invariant is
one of each and a step of one leaves the other alone:

- `TypeCorrect`: `Spec => []TypeOK`.
- `OneAccountPerMailbox`: `Spec => []LoginsFindTheirAccount`. `AccountsInv` says that
  addresses are stored as login normalises them, that a call under way carries a
  normalised one, and what the unique index says.
- `AdminsHaveAnOrigin`: `Spec => []AdminsDescendFromAllowlist`: past the guard of
  `setAdmin`, and wherever there is an administrator, somebody of the list registered.
- `UploadsLast`, `ForgottenForGood` and `ShredsCanBeRepeated`: `UploadsStayReadable`,
  `ForgottenStaysForgotten` and `ShredsAreRepeatable`. `VaultInv` says that a document
  being uploaded is nobody else's and is stored under a key, that a row has lost its
  references exactly when its deletion was committed, and that a shredding has destroyed
  the key before it reaches the object (`ShredsInOrder`); a restart takes from maps only.

`CalculationsProofs`. `AnswersInv` says that an answer is the program's to the question;
the work is in the lemmas about the computations, for inputs of any length. The
library's induction takes an operator for the property proved; here it is a set of
numbers, and `SetInduction` follows from the order of the numbers being well-founded
(`LeastNumber`). A recursive function is a CHOOSE, of which nothing is known until there
is one: `Loop` proves that a step taken again and again has a run, and `ReadLoop`,
`ExtractLoop` and `Joined` that the loops of the reader and the joining of pieces are runs.

- `FailuresAreNoted`: `Spec => []FailuresAreNotAbsence`, for every answer of the registers
  and of what the health check asks: that there is no number or no building is said only
  where a register answered so, whatever the others failed at.
- `TextIsRead`: `Spec => []PdfTextIsRead`, for strings of any length in any mixture of the
  six ways, with the exceptions `AsRead` names. `OctalRead` and `EscapeRead` say that what
  a writer makes of one character is read as `AsRead` says wherever it stands
  (`CharacterRead`); for octal numbers of fewer than three digits that needs no digit to
  follow, which `Writable` has from the format. `PiecesRead` says that after k rounds the
  reader has the first k characters, stands behind what was written for them, and is as
  deep as they have opened parentheses, which is where plain ones must be balanced;
  `StringRead` and `StringsAreRead` that it then closes, and that the operator after the
  string adds nothing. `StreamIsShown` and `DocumentIsRead`
  are about whole documents.
- `DocumentsAreIndexed`: `Spec => []IndexingNeverBlocks`, for every file and every
  answer of the model: what is read comes from the file or the model (`FileIsRead`), also
  through trimming and normalising, and is not empty.
- `FailuresVerifyNobody`: `Spec => []VerificationFailsClosed`, for every answer of the
  broker and the register of owners.
- `NextDueInMonth`: `Spec => []NextDueIsNear`, for every date of the calendar and every
  interval: `setMonth` never leads further than into the month after.
- `NoWorkIsPunished`: `Spec => []WorkPaysOff`, for every home: each part of the score is
  bounded and grows with what it counts, through the roundings and caps.

Attempting the proofs corrected the models where TLC had seen nothing. A conjunct of
`VaultTypeOK` was read as part of an implication and said less than it seemed.
`lookupOwner` was read differently by TLC and TLAPS for want of parentheses.
`IndexingNeverBlocks` asked for a chunk that is not blank, which held only because
no text of the run begins with 2000 blanks; a chunk that is not empty is what the code
promises. Its exception for a NUL had to name the model's reading of an image as well as
the file, and the fields it answers. `PdfTextIsRead` spoke of all streams that are closed and not nested; it is
false of a compressed image that holds a `Tj`, which no stream of the run did. `Null` and
`Down` were not said to differ from each other and from what a service answers
(`OutsideAssumption`). `Score` and `RecurringTasksGoOn` count with `Cardinality`, and the requests of
`Homes` are a union of named sets, so that they can be reasoned about.

Only model-checked are `EveryMessageSettles`, `EveryEntrySettles` and `RequestsFinish`:
liveness under fairness is beyond the prover, as is ENABLED.

Every invariant and every action property of the runs is stated by a theorem, and so are
both refinements.

No module uses a RECURSIVE operator.

## Not modelled, and the plan

Not modelled: the user interface; cryptography, signing and HTTP below the
adapters; prompts; the time line of the overview; listings and other reads without
a decision in them; an earlier Redis queue no module uses. Organisations are tables
and policies no code writes to. `PROJECT.json` gives the reason for every
component.

Left for later, in this order:

1. `Access`: documents composed with the tables of `Passport` instead of `may`:
   what a sale does to a message that acts for the seller.
2. `Sessions`: state, nonce, expiry and several instances of the MitID store.
