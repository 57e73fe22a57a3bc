# Remnant backend: models and proofs

This directory specifies the parts of the Remnant backend in which several actors
share state, checks them with TLC on small instances and proves their safety
properties with TLAPS for instances of every size. Paths are relative to the repository;
`PROJECT.json` maps every definition to the lines it stands for.

## 1. The system

Remnant is a NestJS application on AWS Lambda over one PostgreSQL database (Prisma),
an S3 bucket, an SQS queue and Cognito. Many invocations run at once: HTTP requests,
a relay and a matching worker every minute, daily maintenance. No invocation shares
memory with another; they meet in the database, in the bucket and in the queue. No
transaction asks for more than PostgreSQL's default READ COMMITTED, so every statement
sees what was committed when it began, and only row locks, unique indexes and the
WHERE of a guarded UPDATE stand between two invocations.

| Component | State it keeps | Operations | Meets |
|---|---|---|---|
| Messaging (`src/messages`) | conversations with a message counter, messages, read positions | `startConversation`, `createMessage`, `markAsRead`, `getMessages`, two triggers that number the rows of the previous backend and keep the counter | writes outbox events in the message's transaction; reads listings |
| Outbox relay (`src/outbox`) | event rows: status, attempts, lease, back-off | `relayPending`: claim, send in chunks, mark published, release for retry | takes events from messaging, hands them to SQS |
| Listings (`src/listings`) | listings: status, version, images, expiry, creation request | `create`, `createGuest`, `update`, `updateGuestStatus`, `updateGuestContact`, `remove`, `expireListings`, search and feed | uploads, matching jobs, moderation |
| Upload registry (`src/upload`, `src/utils/s3.service.ts`) | upload rows and S3 objects | `uploadForOwner`, `cleanupPendingUploads` | listings attach and release uploads |
| Moderation and reports (`src/admin`, `src/reports`) | reports, suspensions, statuses of listings | `updateListingStatus`, `removeListing`, `updateUser`, `createReport`, `actOnReport` | writes listings without their version and without a look at their owner, users without asking what they are doing |
| Matching jobs (`src/matching/matching-jobs.service.ts`) | versioned jobs: status, attempts, lease | `enqueueListing`, `processPending` | queued by listings and alerts, runs both matchers |
| Matching (`src/matching/matching.service.ts`) | matches with the versions they were computed from, participant states | `runMatchForListing`, `runDailyBackfill`, `getMatchesForUser`, `updateMatchStatus` | reads listings, notifies owners |
| Pair alerts (`src/pair-alerts`) | alerts with versions, their matches | `create`, `update`, `remove`, `updateMatchStatus`, `runMatchForAlert`, `runMatchForListing`, `saveMatch`, `findForUser` | jobs, listings, notifications |
| Accounts (`src/user`) | users, deletion requests | profile, `requestDeletion`, `purgeExpiredDeletionRequests` | listings, uploads, messages |
| Authentication, guest identities (`src/auth`) | the local user row of a Cognito or guest identity | `login` and what else ends in `syncUserFromClaims`, the guard's `ensureLocalUser`, guest tokens | Cognito, every handler |
| Notifications, email, support, achievements, reviews | rows of their own | inserts and reads | called by the others |
| Transactions, escrow, Paystack (`src/transactions`) | orders, their provider's reference, webhook events | `initiateTransaction`, `verifyPaystackTransaction`, two webhooks, `markShipped`, `confirmReceipt`, disputes, refunds; dormant, since `app.module.ts` does not register the module | Paystack, Escrow.com, listings |
| Entry points (`src/lambda.ts`, `src/backfill.handler.ts`) | none | dispatch of scheduled events | start the relay, the workers and maintenance |

### What is hard here

- **Messaging.** Concurrent sends number one conversation; a client repeats a send
  that is still running; a rollback may leave a gap or an event of a message that is
  not there; a device pages by sequence number and never looks below its cursor, so a
  number that becomes visible late is lost to it. Correct means: the numbers are
  gapless and become visible in order, a key makes one message, an answer given is
  durable, each message has its event, read positions move forward and never past the
  log, a device's window has no hole and every message reaches it.
- **Outbox relay.** Leases expire under a worker that is still running, invocations
  die after SQS has accepted a chunk, SQS accepts a part of a batch, the settling
  statements fail one by one. Correct means: what is marked published was accepted, an
  event is not sent more often than it was claimed, giving up needs the full number of
  attempts, a settled row stays settled, and every event is settled in the end.
- **Listings and uploads.** Edits read, check and write under a version; moderation
  writes without one; the sweep reads before it deletes; an S3 object and the row that
  describes it change in two steps. Correct means: images and registry agree, a status
  follows the transition table in spite of what happened after it was read, one request
  makes one listing, what is no longer needed is disposed of and nothing else is.
- **Matching and alerts.** Jobs are keyed by version and leased like the outbox; a
  slow run writes an old snapshot over a newer one; notifications are claimed, sent and
  given back in three steps; alert runs prune what concurrent listing runs have saved,
  and saves outlive a run that another of its saves has ended. Correct means: what is
  shown fits what both sides say now, what settles is shown, nobody is told twice and
  a match marked as announced was, a user's marks stay.
- **Accounts.** Three lookups, then a write, for each sign-in and each guarded request,
  while deletion, suspension and the purge write the same row, and administrators put
  listings back on offer whoever's they are. Correct means: an anonymised account keeps
  its address to itself and nobody acts for it, one that is shut out offers nothing new of
  its own doing, and a sign-in is refused by a race at most.
- **Transactions.** Every request reads a status, asks a provider, and writes without
  looking again; webhooks come late and twice. Correct means: paid is what was paid, the
  provider's outcomes are not invented, a payment can be found again.

`PROJECT.json` lists these hazards line by line, with the properties that watch them.

## 2. Modules

| Module | Models | Composes |
|---|---|---|
| `ConversationLog` | the abstract promise of messaging: a log per conversation, appended atomically, with notifications owed and read positions | - |
| `Messaging` | `createMessage` statement by statement, `markAsRead`, `startConversation`, the triggers | implements `ConversationLog` |
| `MessageSync` | devices that page through `getMessages` while others send | extends `Messaging` |
| `MessagingProofs` | theorems about `Messaging` and `MessageSync` | extends `MessageSync` |
| `EventDelivery` | the abstract promise of the outbox: an event is open until it is settled, published only if the queue has it, sent no oftener than attempted | - |
| `OutboxRelay` | `relayPending` and every way its steps fail | takes up what `Messaging` commits (`Enqueue`); implements `EventDelivery` |
| `OutboxRelayProofs` | theorems about `OutboxRelay` | extends `OutboxRelay` |
| `Compatibility` | the rules and the score of the matcher, as functions of what two listings say | instantiates the relation `Matching` takes |
| `Announcement` | the abstract promise of telling the owners of one match, which both matchers make | - |
| `PairAlerts` | alerts, their runs from both sides and `saveMatch` statement by statement | implements `Announcement` for each alert and listing |
| `Transactions` | orders under Paystack, Escrow.com or its stub | - |
| `Accounts` | identities, sign-in, the guard, deletion, suspension on reports, the purge, whose listings are on offer | - |
| `Catalogue` | the abstract promise of the listings: every change reads, checks and writes in one instant | - |
| `Listings` | listings, uploads, S3 objects, moderation's status writes, the sweep and the cleanup | implements `Catalogue` |
| `Matching` | matching jobs, runs of the matcher, the backfill, matches and their notification, against listings that change meanwhile | implements `Announcement` for each pair |
| `MatchingProofs`, `PairAlertsProofs`, `ListingsProofs`, `TransactionsProofs`, `AccountsProofs`, `CompatibilityProofs` | theorems about the module they are named for | extend it |
| `MC*` | instances for TLC | extend their module |

Definitions named in a comment as *Mutant* are variants of the one that follows, with a
plausible bug in it. No specification uses them; substituting one shows that a property
depends on the code it is about (`PROJECT.json`, "mutants").

### Messaging

`opened`, `nextMessageSequence`, `messages`, `events` and `lastReadSequence` are the
committed rows; `tx[s]` is what invocation `s` of `createMessage` has done and not yet
committed. The actions are the transaction's statements in order: `FindExisting`
(conversation, membership, and a row already under the key), `TakeSequence` (the UPDATE
that increments the counter and holds the row lock until the end), `InsertMessage` (P2002
when a unique index holds the row already), `CommitMessage` (the outbox row and the
commit, with the AFTER INSERT trigger's `GREATEST`), `RecoverExisting` (the read after
P2002), `Abort` (a failure or a kill anywhere). `LegacyInsert` is a row of the previous
backend during a rolling deploy, numbered by the BEFORE INSERT trigger under the same
lock. `markAsRead` runs outside any transaction: `ReadCounter`, `ResolveTarget` (which
clamps), `WritePosition`. Texts, types and timestamps are left out. `answers` is a history
of what callers were given.

`MessageSync` adds a device's window. What the device does with a page is the
protocol for which the endpoints return cursors; the client is in another repository.

### OutboxRelay

A `Worker` is an invocation of `relayPending`. `ClaimBatch` is the one-statement claim
with `FOR UPDATE SKIP LOCKED`; a claim remembers the attempt it made, which is what
`releaseForRetry` decides by. `SendChunk` is one batch call: an answer naming rejected
entries, or an exception after which some entries may have been accepted all the same.
The settling statements of a chunk run concurrently (`Promise.all`), so `MarkPublished`
and each `ReleaseForRetry` are actions of their own, in any order; a failure among them
enters the catch block while the rest still run (`PublishFails`, `ReleaseFails`). `Crash`
ends an invocation anywhere, and also stands for an exception out of the catch block.
`LeaseExpires` is allowed at any moment. The deployed function times out after 30 seconds
and a lease lasts five minutes, so most of these overlaps need a paused process; the
statements carry no owner check, hence the model does not rule them out. The SDK's own
retries inside one `send` are not unfolded: `delivered` counts accepted sends.

`EventDelivery` has neither workers nor leases. The mapping takes PENDING and PROCESSING for
one open state and `delivered` for what the queue has accepted.

### Listings

A listing's row is `status`, `version`, `images`, `request`, `expired`; an upload is its
row (`registry`, `listingId`, `aged`) and its `object`. An upload id stands for its S3
key. A transaction whose statements are guarded by row locks is one action; the read
before it is another, and what was read is kept in `call`. So `BeginUpdate`/`CommitUpdate`,
`BeginCreate`/`CommitCreate`, `BeginGuestStatus`/`CommitGuestStatus`, and for the jobs
`FindExpired`/`DeleteExpiredGuests`/`ExpireRegular` and
`FindUnattached`/`DeleteObject`/`MarkDeleted`. `updateGuestContact` and `remove` read
nothing that matters to the write. Batch limits (500 guests, 100 uploads) are left out:
a model instance is below them. Tags on S3 objects are left out, since nothing reads them.

Something a reader would not expect: `assertManagedImages` rejects an `update` without
images, and the DTO demands at least one upload with them, so in the model as in the code
every edit by an owner adds an image, a mere pause included. The branches of `update` for
absent images cannot be reached.

`Catalogue` is what a reader of the code would like to assume: no versions, no calls in
progress, no registry beside the images. An edit takes its images from those nobody uses
and frees the ones it drops, and a status follows the table from the one there is. What an
owner's listing shows is its `images`; what a guest's shows are the rows attached to it,
because the sweep may release the rows of a listing that was taken out between its read and
its transaction, and leave the column (`Offered`; `ReleasedWhenTakenOut` says how far that
goes, section 4). A listing an administrator has touched is excepted from the table, as it
is in the code.

### Matching

The state is the listings' `status`, `version` and `matchedVersion` and what they offer
(`piece`), the jobs (`jobStatus`, `attempts`, `expired` for leases that have ended) and the
matches (`row` with the two versions, `notified`, `participant`). A `Worker` is the
processing of one claimed job. `processPending` works through its batch in sequence, so
workers side by side allow more than the code does; several invocations overlap in any case
(`lambda.ts:104`, `:114`, `:136`). `Claim` is the one-statement claim; `Check` and
`ReadListing` are the two places that skip a superseded version; then follow `Search`, per
candidate `SaveMatch`, `JoinParticipants`, `ClaimNotice`, `Notify` (each owner who is no
guest is told or not) and `ReturnNotice`, at the end `Stamp`. Between any two of them
listings may change. `RunFails` is an error in any statement of the run, which `process`
remembers while it runs the alerts (`Alert`, of which only the error is modelled). A run
holds its listing's contents only until the search, and of a candidate only the version,
because that is all the rest of the code uses apart from texts.

`HIDDEN` stands for PAUSED and EXPIRED, `CLOSED` for COMPLETED, FLAGGED and DELETED: they
differ here only in who can leave them. Whether two pieces pass
`passesHardCompatibility` and reach the threshold is the relation `Complement`, which the
instance takes from `Compatibility` (`MCPiecesFit` compares the two). Left out:
the backoff of a released job, which only delays a claim that may be late anyway; the caps
of 200 candidates and 25 matches; the semantic search, off unless
`SEMANTIC_MATCHING_ENABLED`; a change of `MATCHING_ALGORITHM_VERSION`. A notification
that is still being written when the other owner's fails (`Promise.all`) is counted with
the failure. `attempts` stays at `MaxAttempts` once there: claims after a crash do not look
at the limit, only `releaseForRetry` does.

What the properties except is what the code does not guarantee, kept visible in history
variables: `Overtaken`, a run with an old snapshot writes it over a newer one, and the match
stays hidden until its listings change again, since both are stamped; `lost`, a worker dies
between claiming a notification and sending it, or the give-back fails, and the match is
never announced; `moderated`, a listing flagged and reinstated at one version, whose job was
completed as superseded meanwhile, which keeps the backfill (`skipDuplicates`) from queuing
another.

`Announcement` says what becomes of one match's notice: one call at a time has it to tell,
each owner is told once in an attempt, an attempt that did not reach them all is taken back
or lost with its call. The phase of a pair is read off the row and the workers that are past
their claim of it (`Phase`); an owner who is a guest is none of the recipients.

### Compatibility

`passesHardCompatibility` and `scoreCandidate` read a listing's category, intention,
attributes, texts, city and condition. `Content` is that, with texts as sets of words and
attribute values as opaque values that may read as a number; the tables of attributes per
category are parameters, so the theorems hold for every such table. Scores are in
thousandths, rounded down where the code rounds floating point for display, which no
property looks at. The semantic search replaces a score when
`SEMANTIC_MATCHING_ENABLED` is set; `MATCH_REQUIRE_CITY` filters the candidates of a
listing that has a city and not those of one that has none. Both are left out, and with
either the relation would not be symmetric.

### PairAlerts

Both halves of the service: a job of an alert's version (`SearchListings`, the saves, then
`Prune`, the `deleteMany` of what was not kept) and a job of a listing's version
(`SearchAlerts`, the saves). A call of `saveMatch` is a record in `saves`: `Upsert`,
`ClaimNotice`, `Tell` or `TellFails`, `GiveBack`. The saves of a run are concurrent, and
when one throws, `Promise.all` ends the run and leaves the others going (`Orphaned`); the
job is claimed again while they are. `Remove` deletes the matches with the alert, so that a
later statement of a save finds no row (`SaveImpossible`). A listing changes as in
`Matching`: with a job, with a version but no job until the backfill, or without either.
`Announcement` has one recipient here, and rows may be deleted under their saves. Attempts
are counted in `Matching`; here a failed job is tried again always.

### Transactions

A call is one request: what it has read, what it has yet to ask of the provider (`asks`)
and the status it will write. `Request` is the check each handler begins with; `Ask` is
one call of Escrow.com, which may agree, refuse, or agree and be lost; `Write` is the
unconditional update. `Look`, `Create`, `Initialize` and `Record` are
`createPaymentTransaction` with Paystack; `OpenEscrow` and `Insert` with Escrow.com. The
providers are external: `account[r]` is what they hold for a reference, `emitted` what
they may report, any number of times and as late as they like. The checkout's buyer is
sent to it when `Record` has stored the reference (`held` becomes "open").

### Accounts

`Look` and `GuardLooks` are each one of the lookups that find a row by id, Google identity
or address, in any order for a sign-in (`Promise.all`), one after the other for the guard,
which stops at the first row found by id or Google identity; a call keeps what it found.
`Sync` and `GuardEnds` then create or update, unless a unique index refuses. `Act` is any
handler on behalf of the user who was admitted: it creates a listing, writes one of the
user's, or does neither. A listing is reduced to its owner and its status, `"PAUSED"`
standing for every other status that is not on offer and not an administrator's.
`RequestDeletion` (which pauses what is active, and leaves what is flagged),
`RetentionEnds` (30 days), `PurgeReads` and `Purge` are the way out; `Suspend`,
`ActOnReport`, `Reinstate` and `AdminSetsStatus`, which writes any status of a listing
without a look at its owner, are moderation. `earlier[u]` remembers which requests began
before `u` was shut out. `RetentionEnds` waits for them: a request is limited to 30
seconds, the retention is 30 days.

## 3. What the runs check

| Run | Instance | Shows |
|---|---|---|
| `message_sync` | one conversation, two invocations on one key per member, a row of the previous backend, one reader, one device with pages of one | gapless numbers, visibility in order, one message per key, durable answers, nothing born read, refinement of `ConversationLog`, windows without holes, every send ends, every message arrives |
| `outbox` | one event, three workers, two attempts, one crash | deliveries bounded by claims, published means accepted, settled rows, settlement, refinement of `EventDelivery` |
| `outbox_order` | two events, one worker | *violation*: a conversation's events reach the queue out of order |
| `listings` | a guest's and an owner's listing, two uploads, one request, one call at a time, edits up to version 2, flagging and removal by an administrator | refinement of `Catalogue`, images and registry agree, images less than a day old have their objects, a flag no earlier call can overwrite holds, the sweep releases uploads from under a listing only where an administrator took it out, pending uploads and those of expired guests go in the end |
| `listings_cleanup` | one listing, one upload | *violation*: the cleanup deletes the object of an attached upload |
| `listings_flagged` | one listing, one call, flagging | *violation*: an edit overwrites a flag |
| `matching` | two listings whose contents fit by `Compatibility`, two workers, every statement may fail, one change at any point | what is shown fits, completed means matched, settled pairs are shown, refinement of `Announcement`, a claimed match was announced, marks stay |
| `matching_liveness` | one guest listing, two workers, two attempts, one change, one crash | a version that stays is matched, unless its job fails for good |
| `pair_alerts` | one alert, one listing, two jobs, any two of changes, failures and kills | what is shown fits, what settles is found, refinement of `Announcement`, users are told once over all rows of a match, what is dismissed stays so |
| `pair_alerts_pruned` | the same without failures | *violation*: a qualifying listing ends up without a match |
| `transactions` | two orders, two requests, three references, two prices, each provider | paid was paid, Escrow.com's outcomes are real, lost payments are bounded by concurrency |
| `accounts` | a password and a Google identity, two addresses, two requests, one listing, purges of one | an anonymised address stays away and nobody acts for the account, what is newly offered for one that is shut out is an administrator's doing, refusals need a race |

**Bounds.** Two invocations suffice for a lost update or a double insert; the third worker
in `outbox` acts on the outcome of a race it was not in. One key per member makes every pair
of sends by a member a retry. `MaxTarget` exceeds what there is to read at first, so callers
ask for too much; only the conversation's `Reader`s mark messages, which are its device's.
`MaxAttempts` is 2 for the outbox's 10: the limit is reached, and the last attempt differs
from the one before. In `listings` one call is in progress at a time, beside the sweep, the
cleanup, moderation and removal, which are what it races; calls that race one another exceed
what TLC explores in minutes, and `ListingsProofs` covers any number of them. `MaxVersion`
bounds the edits people make (the sweep may act once more) and the versions administrators
act on. They set FLAGGED and DELETED there (`Moderation`); with ACTIVE as well, reinstatement
at any time, the run passes too (200,716 states) but takes twice as long. In the same way the
batches of two events left `outbox` when `Published` was proved. `MaxCrashes` and `MaxFaults` count
killed invocations and failed statements; one at each point of an invocation is covered by
one. `MaxChanges` counts edits, status changes and marks together. One is enough in
`matching` for a stale snapshot, since each listing's own run and the other's overlap it in
every order; `pair_alerts` has two, for a mark to be outdated by an edit, but `MCTwoAtMost`
spends them on failures as well (`PairAlertsProofs` covers any number of both). `MaxAttempts` is
1 in `matching`, where a retry would only repeat the run (an expired lease repeats it
anyway), and 2 for the code's 8 in `matching_liveness`. In `transactions` three references
are one more than two requests can lose together. In `accounts` the password identity is the
one that can be reached in two ways, by its id and, once the Google identity has moved to its
address (`Move`), by that; so suspension (`Moderated`) and the listing (`Seller`) are its.
Administrators flag the listing and put it on offer there (`Moderation`), whatever its status
was, the purge's DELETED included. `PurgeLimit` is 1 for the code's 100, so that accounts
that are due wait for a second run. `AccountsProofs` needs none of these bounds. The run
explores 2.2 million states.

**Fairness.** `SendersProgress`: PostgreSQL queues waiters for a row lock, so a waiting
UPDATE is served in the end (strong fairness), and statements return; a device keeps
asking (`MESSAGING_REALTIME_SETUP.md` promises a 15-second catch-up). `OutboxRelay`:
the schedule invokes a relay every minute, time passes, and a worker that is not killed
goes on; no send is assumed to succeed. `Listings`: maintenance runs every day, and what
S3 or the database refuses is not refused forever (strong fairness of the disposal of
one upload and of the guests' transaction); no fairness for people. `Matching`: the
schedule claims every minute and runs the backfill every day, leases end, a worker that is
not killed goes on; no statement is assumed to succeed, which is why the conclusion allows
a FAILED job. `PairAlerts`, `Transactions` and `Accounts` are checked for safety only:
providers, people and the retention period promise nothing.

**Deadlock** is not checked where a run can be used up: every event settled, every
version taken and nothing left to clean, every change made.

## 4. Findings

- *Cleanup against attachment* (`upload.service.ts:54`). The object is deleted on the
  strength of a read made before the loop; the check that the upload is still unattached
  comes in the row's UPDATE, afterwards. `BACKEND_LAUNCH_SETUP.md:243-247` says it removes
  what remains unattached. Only images uploaded a day before can be hit (`YoungImages`): an
  owner would have to reuse an upload that has lain about, or that another edit released.
- *A flag does not count as a version* (`admin.service.ts:192`): an edit begun before the
  flag overwrites it, although the transition table lets nothing leave FLAGGED. Nothing
  else does: once the calls that had read the listing before have ended, a flag stays
  until the listing is removed or an administrator changes it (`FlagsHold`).
- *Order of a FIFO group* (`outbox-relay.service.ts:79`): a rejected entry is retried
  behind its successors, although `MESSAGING_REALTIME_SETUP.md:69-70` uses the group for
  ordering.
- *Pruning against saving* (`pair-alerts.service.ts:210`): an alert's run deletes the match
  that a listing's run saved after the alert's run had searched, and no job is left that
  would find the pair again.

Met on the way, and without a run of their own:

- *What the sweep spares loses its uploads* (`listings.service.ts:297-300`). The sweep
  releases the uploads of all the guests' listings it read, not of those its transaction
  deletes. A listing that was flagged or removed in between keeps naming images whose
  uploads the cleanup now deletes; if the flag was a mistake, they are gone.
  `ReleasedWhenTakenOut` bounds it: it takes an administrator in that window.
- *What an administrator removes keeps its images* (`admin.service.ts:198`, `:282`). An
  owner's `remove` and the sweep empty `images` and release the uploads; a removal by an
  administrator only writes the status, and since the sweep passes over DELETED, objects
  and rows stay attached for good. `ExpiredGuestsGo` excepts it, with what is flagged.
- *An administrator may offer for nobody* (`admin.service.ts:191`). A deletion request
  leaves a flagged listing as it is, and any listing may be set ACTIVE whoever owns it: a
  suspended, deactivated or anonymised account has a listing on offer again, and nobody to
  answer for it. `BlockedIsOut` says that nothing else brings that about.
- *The guard writes before it looks at the standing* (`cognito-auth.service.ts:94-118`). A
  guard that has found a deactivated account by its address, and is overtaken by the purge,
  writes the Google identity and the name into the anonymised row before it refuses the
  request; from then on that Google identity always finds the deactivated row and cannot
  sign in again. `AnonymousStays` bounds it to a guard that had found the row.

## 5. What is proved

All constants are arbitrary sets or numbers under the modules' ASSUMEs: two distinct
members per conversation, disjoint id spaces for the two backends, a symmetric
relation between pieces, positive sizes, finite sets where something is counted.

`MessagingProofs`: `TypeCorrect` first. The safety properties speak of committed rows
and are not inductive alone, since a commit depends on what its transaction has drawn.
`LogInv` adds that the holder of a conversation's row lock is the only transaction with a
number (`Exclusive`), that its number is the next one (`HoldsNext`), that a transaction
past its insert has a key nobody has used (`Unused`), and that counters and targets held
by `markAsRead` are at most the counter now (`PositionsWithin`). Both ways a row is
committed are one step, `AppendStep`: the message with the next number and an unused key.
From `LogInv` follow `Gapless`, `Idempotent`, `Durable`, `Outboxed`, and, as properties of
steps, `CommitOrder`, `BornUnread` and `ReadForward`.

Two results build on these. `LogImplemented` is the refinement: the committed rows of a
conversation, read in the order of their numbers, are the abstract log. That the mapped
sequence is one is `LogKept`, which follows from gaplessness; a commit or a legacy insert
appends to it (`CommitIsSend`, `LegacyIsSend`), storing a read position moves the abstract
one, and everything else leaves it alone. Since the log only takes messages of opened
conversations, calls in progress must have found theirs (`CallsOpened`).
`WindowsHaveNoHoles` is about `MessageSync` with any number of devices and any page limit.
Where numbers have no gaps, a page is an interval (`PageAfter`, `PageBefore`, by counting
the rows of an interval); `WindowInv` says that a window is the interval it claims to be and
ends at a number that exists; and by `CommitOrder` no row ever turns up below such a number
(`WindowsOutlastRows`).

`OutboxRelayProofs`: `TypeCorrect`; `Settled` needs typing only, since every settling
UPDATE asks for PROCESSING. For `Bounded`, counting accepted sends is not inductive: a
claim still to be sent would exceed the bound later. `RelayInv` says that a claim waits to
be sent with one worker at most (`OneHolder`), that its attempt is one the row has counted
(`ClaimsAreCounted`), and that accepted sends and sends still to come share out the
attempts (`SendsShareClaims`, with the cardinality lemmas it takes). `Published` rests on
`PublishingWasDelivered`, `Exhausted` on `ClaimsAreCounted`. `DeliveryImplemented` is the
refinement of `EventDelivery`, with a lemma for each statement that can be seen outside:
a claim is an attempt at its batch, a send is within the attempts because the bound still
holds after it (`SendIsAccept`), a release gives an event up or leaves it open.

`MatchingProofs`: `TypeCorrect`, on the invariant that the changes made bound the versions
and that a run never pairs a listing with itself. `ShownFit` rests on `SnapshotInv`: what
was recorded of a version is never ahead of it (`RowsPast`, `JobsPast`, `RunsPast`), and
while the version is current it is still true of the listing (`ReadIsCurrent`, `KeptFit`,
`RowsFit`); hence an edit during a run can only make its results invisible, never wrong.
`CompletedMatched` rests on `OutcomeInv`: a run about to be taken for a success has
stamped its listing, if the listing still is what the run was for. `Announced` and
`ClaimKept` rest on `NoticeInv`: a match has one teller at most, who holds its claim and
has told nobody yet, and nobody was told of an unclaimed match. From the same invariant,
`AnnouncementImplemented` shows that every step is, for every pair at once, a step of
`Announcement` or none; a run that dies or cannot give its claim back is `Abandon`, the one
way a notice is lost. `EachAnnounced` restates it for one pair. The property quantifies
the steps and not the specifications, since TLC does not take a quantified temporal
formula with an INSTANCE under it. `MarksKept` needs typing.

`SettledShown`, in the same module, is about what settles. Neither the stamp nor the match
says which run saw what, so the invariant (`FoundWhenDone`) speaks of runs in progress
too: once nothing more will be done about a pair on either side, because a listing is
stamped or its run no longer has the other as a candidate, the match has held both
versions. The later of two searches makes that true; a change of either listing starts its
side over.

`PairAlertsProofs` proves all six properties of the run. Here a save may go on after its run
has failed, so the invariants speak of saves and runs apart. `SnapshotInv`: versions carried
by jobs, runs, saves and rows are never ahead, and what was seen of versions that are
current still holds; hence `AlertsFit`. `NoticeInv`: a row is announced by one save at most
(`OneTeller`), which holds its claim, an unclaimed row was not told of, and a claim is
accounted for; hence `ToldOnce`, `ClaimsAreTold` and, as in `Matching`, the refinement of
`Announcement`, where deleting a row forgets what was done about it. A save names its row
by id: one whose row has been deleted may still send a notice, but neither claims nor gives
back the row that another save wrote in its place. `KeptInv`: a run about to delete keeps
every listing that fitted when it searched and has not changed since; hence
`DismissedIsKept`. For `FoundOnceSettled` a side is past a pair (`Past`) when its job is
completed, or its run has searched and has no save of the pair outstanding; once both sides
are past it, the row exists with both versions (`FoundWhenPast`).

`ListingsProofs`: registry and images change together, but in transactions that act on what
was read before. `Registered` adds to the two properties that nothing but attached rows
name a listing and that a listing without a row has no images; `CallOK` says what the
version guard is good for: if the listing still has the version a call read, it has the
images and the status the call read, but for a status an administrator set. `VersionedStep`
proves that of every action. `Stored` has it that the cleanup only handles uploads whose
storing is over, hence no object appears behind a row it marks (`Deleted`). From these
follow `Attached`, `Registry`, `Table` and, for any number of calls, `OnePerRequest`.
What the sweep found is due for it still, unless an administrator has intervened
(`FoundOK`): guests' changes of a listing that is due leave it due. That makes `Registry`
true of guests' listings, and gives `Released`: only a listing an administrator took out in
between can lose uploads it still names.

Three results say how far stale reads can go. `CatalogueImplemented`: however many edits
read, check and write in steps of their own, they amount to edits made in one instant. The
version guard alone does not give that. The table and the refusal of completed listings were
applied to what was read, so the invariant adds that a call with the current version is not
of a completed listing (`OpenOK`), again unless an administrator has intervened. Each commit is then one step of
`Catalogue` (`CreateIsPublish`, `UpdateIsEdit`, `DeletionIsSweep` and so on), and everything
before it none (`NothingShown`). `YoungImages`: an object is missing only behind an upload
the cleanup has read as a day old, or one without a row (`Kept`). `FlagsHold`: a call that
reads a flagged listing may only ask for the status to be kept, and one that read it before
conflicts once the version has moved; so the set of calls that may lift a flag (`MayLift`)
only shrinks.

`TransactionsProofs`: `Funded` is not inductive, because a status is written by a request
that decided earlier. `CallOK` says of each request that what it has yet to write is backed
by a payment already (payments only make progress, `Live`), and `RowOK` that an order names
a reference that was made for it. A reference is recorded by the request that made it
(`CheckoutsApart`), so a payment cannot be taken for another order's. `LostBounded` counts: of
the references an order's buyers were sent to (`Taken`), those it does not name (`Left`) and
the requests that have yet to name one (`Pending`) are together fewer than the requests. A
request begins a checkout only if it saw none named, so `Pending` grows only before the first
is; recording one turns a request into at most one reference that is lost.

`AccountsProofs`: for `Anonymised` and `Blocked` one has to know what every request in
progress remembers. The invariant says that a row in good standing that a request found
belongs to an account that is still in good standing, or to one the request is `earlier`
than; since the retention period ends only when no such request is left, none is there when
the account is purged. A step that brings a Google identity into an anonymised row is
`GuardEnds`, whose call had found the row by its address; a step after which more is on
offer for an account that is shut out is an `Act` of a request that is `earlier`, of which
there are none left, or `AdminSetsStatus`. `RefusedByRace` compares, for each unique index, the row that would
clash with what the lookups would now find.

`CompatibilityProofs`: the rules, the score and hence `Fits` are symmetric, which is what
`MatchingAssumption` asks of `Complement`: either listing's run finds the pair, and it does
not matter which of them writes the match. The score needs that sums over the considered
attributes are of equal functions, not how they are computed.

All safety properties of the passing runs are proved. Some weaker ones are proved and not
run, because a refinement or a stronger property says more: the type invariant of each
module, `AnnouncedOnce`, `FailedIsExhausted`, `AttachedIsListed`, `StatusFollowsTable`,
`DeletedMeansGone`, `OneListingPerRequest`, `PositionsOnlyAdvance`, `EventPerMessage`.
Only model-checked, since the prover does not reach them, are the properties under
fairness (`SendTerminates`, `EveryMessageArrives`, `EventsSettle`, `PendingIsResolved`,
`ExpiredGuestsGo`, `VersionsGetMatched`).

Not stated yet: abstract specifications of `Transactions` (what an order may become, given
what its provider reported) and `Accounts` (an account's standing), whose safety is proved
as invariants and properties of steps so far.

## 6. Not modelled

- Search, feeds, the conversation list, dashboards, profiles and exports: reads, and
  single updates by id.
- Embeddings and the semantic search: an external service and a floating-point distance.
- `startGuestConversation`, guests' contacts and guest tokens: tokens are signed and checked
  without the database, and the rows are made by statements that are modelled where
  `startConversation` and `createMessage` make them.
- Cognito: registration, confirmation, passwords, tokens.
- Reviews and achievements (no caller), support requests, notifications and email: single
  inserts, or calls whose failure is logged and dropped.
- A deployment with Paystack and Escrow.com enabled together, currencies and fees.
- Validation of request bodies, except where it decides a guard.
