# Verification of the event lead-capture platform

TLA+ models of this repository's API server, jobs and IoT scripts: the delivery of NFC
taps that become leads, the outbound queue that sends follow-up messages, the personal
data of an event from consent to erasure, and the routes and jobs behind the scenes.
Each model is checked by TLC on small instances and, for the statements listed under
*What is proved*, by TLAPS for every value of the constants. Paths without a prefix are
under `apps/api/src/`.

- [The system](#the-system)
- [Inventory](#inventory)
- [Modules](#modules)
- [Runs, bounds and what they show](#runs-bounds-and-what-they-show)
- [Fairness](#fairness)
- [What is proved](#what-is-proved)
- [Disagreements between code and documents](#disagreements-between-code-and-documents)
- [What else the models show of the code](#what-else-the-models-show-of-the-code)
- [What is not modelled, and why](#what-is-not-modelled-and-why)
- [Plan](#plan)

## The system

The platform is a Node.js API (`routes.mjs` holds nearly all handlers) with timers
and scripts beside it, over one of two backends: PostgreSQL
(`docker-compose.yml`) or the in-memory repositories, which are the default
(`app.mjs`, `REPOSITORY_BACKEND`) and what the tests use. Kiosks at the stalls of an event
read visitors' cards; a tap becomes a *tap event* and an *interaction* (the lead);
the visitor may then consent that the vendor, a sponsor or the organizer uses it;
the vendor writes follow-up messages, which a worker sends through a provider. A
second source of taps is an external IoT platform whose streams are polled by scripts
or by the orchestrator. Around that, organizers and administrators set up events, venues,
accounts and branding, vendors submit content for review, attendees ask for their data, and
daily jobs erase it when its retention is over.

Facts every model rests on:

| Fact | Where |
|---|---|
| A handler runs on one event loop, but every `await` lets other handlers, timers and other processes run. The API and the notification worker are separate processes that are restarted when they end; the IoT scripts are processes of their own. | `deploy/production/docker-compose.yml` |
| A transaction over PostgreSQL is a plain `BEGIN ... COMMIT` on one connection: READ COMMITTED. No statement uses `FOR UPDATE`, no lock is taken explicitly and no update checks a version or a status in its `WHERE`. | `db/postgres.mjs`, `repositories/postgres.mjs` |
| `update(record)` writes all columns it names from an object the caller read earlier: whatever was committed in between is overwritten. Some updates do not name every column, so what a handler sets there is lost over PostgreSQL. | `repositories/postgres.mjs` |
| After a failed statement PostgreSQL refuses the rest of the transaction and answers its `COMMIT` with a rollback, without an error. | used by `interactions/ingest-tap.mjs` |
| In the in-memory backend a repository call is a promise that is already resolved: its continuation is a microtask, so a handler keeps the thread until it awaits the outside world (an upload, a request, the hashing of a password, a timer). `withTransaction` only calls its argument, and no unique key is checked. | `repositories/memory.mjs` |
| With PostgreSQL the requests use the role `app_runtime`, whose grants and row policies are narrower than those of the jobs, which use the repositories directly. | `app.mjs`, `migrations/` |

## Inventory

For each component: its state, its operations, with whom it interacts, what is hard
about it, what makes it correct, and how far it is modelled.

| Component | State | Operations | Interacts with | Hard behaviour | Correct when | Status |
|---|---|---|---|---|---|---|
| Tap ingest (`interactions/ingest-tap.mjs`) | `tap_events`, `interactions`, `stall_folder_access` | `ingestTapEvent` | kiosk routes, IoT tap sync, Drive grants | deliveries of one tap that race, failed statements inside a transaction, crashes | a tap makes one tap event and one interaction; the answer tells the truth | modelled |
| Kiosk delivery (`/interactions/tap`, `/device/sync`, `packages/runtime/src/queue-store.mjs`) | the device's local queue, short links | capture, post, batch sync, answer | tap ingest | lost answers, retries that overtake the request they repeat, a batch that fails half way | what is marked synced is stored; what is queued is delivered in the end | partly: not its screens |
| IoT tap sync (`iot/tap-sync-service.mjs`, `iot/sync-support.mjs`) | a checkpoint row per stream | page, ingest, save checkpoint, save failure | tap ingest, IoT platform, health | overlapping runs that write checkpoints from stale copies, failures in the middle of a page | the cursor passes no item that is not stored; the stream drains; failures add up to a warning | partly: not contract checks |
| Device assignment and venue (`routes.mjs`) | `halls`, `stalls`, `sponsor_packages`, `user_role_assignments`, `devices`, `device_assignments` | create, move, delete, register, repair, retire, assign, unassign | tap ingest, events | look before write on two tables; two writes without a transaction | no row refers to one that is gone; a device has one assignment and says so | partly: not bulk imports |
| Attendees, cards and pass types (`routes.mjs`) | `attendees`, `pass_types` | register, import, give or take a card, tap a card | tap ingest | two first taps of one card; forced reassignment in two writes | a card has one holder; its taps are recorded on one attendee | partly: not profile pages |
| Wallet passes and short links (`routes.mjs`, `short-links.mjs`) | `wallet_passes`, `wallet_pass_attempts`, `short_links` | create, retry, mark, open, revoke | provider of passes | a link is opened, expired and revoked at once | a link that ended never works again | partly: links of other targets behave alike |
| Heartbeat, incident and device-ops syncs (`iot/*-sync-service.mjs`) | heartbeats, incidents, device snapshots | page and store; organizers annotate, resolve, escalate | IoT platform, health | look-up-then-create outside a transaction; organizers' copies of one row | an incident exists once and keeps what was written on it | partly |
| IoT orchestrator, certification, parity, alerts (`iot/`) | runs, certification, checkpoints, health, parity, alerts | run a cycle, refresh health, compare environments, route alerts | all syncs | one stage of several fails; runs that overlap; alerts with keys of their own | a run is closed; open alerts are those of what is wrong now | partly: the comparison of contracts is its verdict |
| Consent and suppression (`/consents/*`) | `consents`, `channel_consents`, `communication_suppressions` | capture, update, revoke | queue, exports, leads | consent that changes while a message is on its way | no message leaves once consent is gone, but for the one on its way | partly: not evidence and snapshots |
| Notification queue (`notification-worker.mjs`, `notification-receipts.mjs`, routes) | `followup_messages`, `notifications`, `notification_attempts`, `notification_receipts` | queue, send, retry, requeue, resend, cancel, record, receipts | consent, providers | claims that race, deadlocks, crashes around the provider call, writes from stale copies, late or early receipts | sent means sent, a dead letter is exhausted, nothing stays in the queue, the two rows agree | partly: not metrics and signatures |
| Transactional email worker (`jobs/email-delivery-worker.mjs`) | the same `notifications` table | list, send, count | notification queue | a 30-second timer that starts a batch while the last one runs; no claim | every e-mail is sent or given up | modelled |
| Data subject requests, retention, offboarding (`jobs/`, `compliance/post-event-lifecycle.mjs`) | `data_subject_requests`, `attendee_profiles`, `events.retention_status`, `tenant_offboarding_jobs` | submit, process, reject, complete, download, count down, purge, retire, offboard | leads, exports, e-mail | route and poller process one request at once; two generations of routes; a timer of 31 bits | who reports an erasure has done it; a request ends; the grace period is kept | partly: not the views and certificates |
| Exports and break-glass (`jobs/full-export-worker.mjs`, `jobs/break-glass-expiry.mjs`, routes) | `export_requests`, `break_glass_access` | request, approve, reject, process, download; ask, approve, use, revoke, expire | storage, privacy | two processors of one export; two families of routes over one session | a file is handed out once; a request ends; what was taken back stays so; a session ends | partly: not the content of files |
| Events and official reports (`routes.mjs`) | `events`, `report_snapshots` | edit, publish, go live, close, archive, freeze | retention, venue | checks on a row that was read before | an event goes forward; a version is made once | partly: not what a report counts |
| Vendor content moderation (`routes.mjs`) | `moderation_items`, `vendor_profiles` | edit, submit, claim, decide, supersede | exhibitor pages | an item, the one before it and the profile's pointer change together | what is shown is what was approved, and that what was submitted | modelled |
| Authentication and accounts (`auth/`, `app.mjs`, routes) | `users`, tokens, scopes, `device_credentials`, `api_clients` | invite, accept, login, reset, disable, delete, assign, provision, rotate, revoke | all routes | a copy that is written back after the hashing of a password | one account per address; a deleted account stays out | partly: not signatures, OIDC and the rate limiter |
| Stall document drives (`routes_drive.mjs`, `jobs/drive-token-refresh.mjs`) | `stall_drive_connections`, `stall_shared_folders`, `stall_folder_access` | connect, disconnect, refresh, share, archive, grant | provider, tap ingest | flows that come back together | one active connection for each provider | partly |
| Branding and commercial records (`routes.mjs`) | `branding_assets`, `commercial_*` | save, approve, publish; partners, deals, payouts | events | a body that is merged into the row | | partly: rows agree only as the routes make them |
| Go-live approvals and readiness | approvals | ask, decide | none: no route looks at them | none | | not modelled |
| Access control, masking, policy | none | decisions | all routes | none: tables | | not modelled |
| CRM, storage and webhook integrations | thin | call | outside services | answers | | not modelled |
| Other administration routes | tenants, organizations, settings | create, read, update | | none: one statement each | | not modelled |
| Web applications, deployment files | | | | | | not modelled |

## Modules

```
TapIngest ── DeviceTapRoutes ─┐
        └─── IotTapSync ──────┴── TapPlatform ──implements──> TapLedger
                                      ├── MCTapPlatform (runs tap_safety, duplicate_recovery, grant_error)
                                      │       └── MCTapApart (run tap_progress)
                                      └── TapPlatform_proofs ── TapLedger_proofs

NotificationStore ── NotificationWorker ─────────────────┐
                └─── NotificationReceipts ── FollowupRoutes ┴── OutboundQueue
                            ├── MCOutboundQueue (runs queue_settles, claim_overlap, lost_attempt)
                            │       └── MCQueueApart (run queue_overlap)
                            └── OutboundQueue_proofs

Builds ─┬─ LeadRecords ── SubjectRequests ─────────────┐
        ├─ EventRoutes ──┬─ Retention ─────────────────┼─ EventPrivacy ── MCEventPrivacy
        ├─ EventExports ─┘                             │   (runs event_privacy, offboarding_grace)
        │  (LeadRecords, EventRoutes) ── Offboarding ──┘
        └─ Accounts, Credentials, BreakGlass, Venue, Moderation, Branding, Commercial, DriveAccess,
           EmailDelivery, IotOperations, Cards, WalletPasses, FieldReports
               └── BackOffice ── MCBackOffice (runs back_office, deleted_account)

Builds ── Builds_proofs ─┬─ EventPrivacy_proofs       (with EventPrivacy)
                         └─ BackOffice_proofs         (with BackOffice: accounts, credentials, break-glass)
                                └── OfficeContent_proofs   (drives, moderation, venue)
                                        └── OfficeGround_proofs (links, cards, incidents, IoT, branding,
                                                                 commercial records, e-mail, and all types)
```

### Tap delivery

**TapIngest** is `ingestTapEvent` over the PostgreSQL repositories. A *client* is
one caller: a kiosk request or a run of the sync. `pc[c]` says at which `await` it
is: `resolve` (the routes' or the sync's look-up of device and assignment), `find`
(checks and look-up of an existing tap), `insert` (BEGIN and `tapEvents.create`),
`recover` (the `catch` of the duplicate), `interaction` (`interactions.create` and
`autoGrantDocumentAccess`), `commit`. `tapRows` and `leadRows` count committed rows by
key, so that a second row would be seen. An open transaction holds its key
(`Holds`): another `INSERT` of it waits, and fails once it is committed. `aborted[c]` is
PostgreSQL's state of the transaction after a failed statement. An assignment
stands for the event, the stall and the checksum that `ingestTapEvent` compares with the
tap. All taps are of one device: the unique key `(device_id, local_event_id)` and
the active assignment make devices independent of each other.

**DeviceTapRoutes** adds the device: its local queue (`queue`), `POST /interactions/tap`
(one tap, and a short link afterwards) and `POST /device/sync` (a batch, item by item,
where an item that throws ends the request), the answer, its loss, and the marking of
what was answered. **IotTapSync** adds `runPagedIotSync` with the tap item handler:
a run reads the checkpoint once, lists pages after the cursor, ingests the items of a
page, saves the checkpoint at the end of the page, and after a failure saves the cursor
of the start of the page and a failure count. The checkpoint it writes is built from the copy it
read at its start (`snapshot`). **TapPlatform** composes them.

**TapLedger** is the abstract specification: a tap becomes at most one lead, the device
is told *synced* only for recorded taps, the cursor only covers recorded taps.
`TapPlatform` implements it (`LedgerSpec`), with `leads <- leadRows`, `synced <-` the
queue's synced taps and `cursor <- checkpoint.cursor`. The ledger leaves out who
delivers, and allows the cursor to go back: overlapping runs do that.

### Outbound queue

**NotificationStore** holds the committed rows of one follow-up message (`fup`) and of the
notifications that carry it (`note`), the consent, and what every handler of the queue
shares: read a row inside a transaction, write back a changed copy of all columns.
`row[a]` and `frow[a]` are an actor's copies, first as read, then as its uncommitted
version. The first `UPDATE` of a row by a transaction waits for the
transaction that holds the row; `noteLine` and `fupLine` are the lines in front of the rows,
their head the holder. PostgreSQL grants such waits in order, which is why a waiting
worker cannot be overtaken for ever. Only the follow-up and one notification are
ever held together, so a deadlock has two parties, and PostgreSQL aborts one
(`BreakDeadlock`). The last write of a transaction and its `COMMIT` are one step, since
nothing is read between them. Times are abstracted to whether `next_attempt_at` has passed.

**NotificationWorker** is `processNotificationQueueBatch`: list, pick, resolve the
delivery context (`Look`, outside any transaction), then claim, send and complete in one
transaction. **FollowupRoutes** has the vendor's queue request, the organizer's retry,
requeue, resend, cancel and recording of an attempt (which decide on a copy read before
the transaction), and the attendee's revocation or decline, which cancels queued
follow-ups in the *other* order of rows. **NotificationReceipts** is the provider's webhook, which
writes the notification, the follow-up and the suppression without a transaction.
**OutboundQueue** composes them. `sends` counts messages that left (for a recorded
attempt, those the organizer says have left); `wins` counts committed attempts with
status sent; `late` the messages a worker sent since the consent was gone.

### How handlers and jobs run: Builds

The two families below share one model of execution. A *process* is
`<<operation, row, number>>`: a request (`<<"delete-user", "u1", 1>>`), a job of `app.mjs`, or
a worker that a route starts with `setImmediate`. `pc[p]` is the `await` it is at and `copy[p]`
what it has read. `build` is the backend:

- over `"postgres"` every statement is a step and any other process runs between two;
- in `"memory"` a process that has begun keeps the thread (`At`) until it is done or at `"io"`: a
  wait for something outside. Exceptions are the workers that a poll starts without `await`,
  whose microtasks interleave (`Immediate`), and that no timer fires before the
  `setImmediate` workers have begun (`Timers`).

Where a backend does less than the handler asks, the write says so: `WriteRequest`,
`WriteExport`, `WriteEvent` (columns the `UPDATE` does not name), `Accepts` (a `CHECK`), `Clash`, `Free`
(unique index, foreign keys), `Approve` in Offboarding (grants of the role).

One model holds all operations of a family, and a behaviour begins with one *cast*: the set of
processes that race in it (`Casts`, in the MC modules). `Restart` ends every process and its timers; it
exists over PostgreSQL, since the memory backend loses its rows as well.

### The personal data of an event

**LeadRecords**: the interactions with their consent and release, and the profiles; a tap, capture and
revocation of consent, classification. `Anonymized` is what every erasure writes over the row it has
read. **SubjectRequests**: the two generations of routes (`privacy-dsr`; `session-dsr` with the
organizer's `complete`), the worker `dsr-worker`, its poller, rejection and download. `about` is the `interaction_id` of a
request: `Selected` takes the interactions of its attendee and the one it names, as `anonymizeSubjectInEvent` does, even when
that one has no attendee any more. `FailRequest` is the `catch` of the worker: over PostgreSQL any statement between `processing` and
the end of its mail and webhooks (`report`) can throw, and the request is written back as `failed`. **EventExports**: lead lists
with their approval and full exports with worker, poller and download. **EventRoutes**: the status of the
event with `patch`, `publish`, `go-live`, `close`, `archive` and `freeze`. **Retention**: the daily countdown and
purge, force-purge, and the organizer's retention run over all of the above. **Offboarding**: initiation, approval,
the worker with its three paths, the timer (`alarm`, with `TimerDays` counting as `setTimeout` does) and the
days that pass. **EventPrivacy** composes them; `Clock` is time: the retention's end approaches, a day passes, a
timer fires.

### Behind the scenes

**Accounts**: the life of a user over the user and the admin routes; login, accepting an invitation, reset and
change of password, which hash between reading and writing (`Hashed`); invitation and reset tokens that lapse; scopes. The
e-mail address is a column like the others: `admin-user-update` looks for the new one among the users of the tenant
(`Readdress`) and writes the row that it read before, `admin-user-create` looks there as well, `users-invite` at every tenant
(`Taken`), and every copy that is written back carries the address it was read with.
**Credentials**: device credentials and API clients, noted at each use from the copy that was looked up.
**BreakGlass**: sessions over `/break-glass` and `/admin/break-glass`, their use, and the job that ends them.
**Venue**: halls, stalls, packages and roles, and the devices with both writes of assign and unassign.
**Moderation**: edits collect in the pending item of a vendor's profile; submission, claim, decision, superseding and
the pointer to what is shown, where a payload is the set of edits in it. **Branding**, **Commercial**: saving, approving and publishing of
a branding; partners, deals and payouts. **DriveAccess**: the OAuth flows around the provider's answer, the
refresh of tokens, folders and grants. **EmailDelivery**: overlapping batches of the 30-second timer.
**IotOperations**: a cycle stage by stage, what each stage writes, the level of health that follows from
the rows (`Worst`), the status of the run, parity, and the alert router. **Cards**: registration, pass types, giving and taking
cards, the tap of a card. **WalletPasses**: passes, their attempts, and the short links to them. **FieldReports**: heartbeats
and incidents from the sync, and what organizers do with an incident. **BackOffice** composes them. They share no
rows, so a cast that names one of them explores all that matters of it.

## Runs, bounds and what they show

Every run is described in PROJECT.json; the bounds are these.

| Run | Instance | Why it is enough | Shows |
|---|---|---|---|
| `tap_safety` | one kiosk request (a batch of two taps), two sync runs, a stream with a tap twice, pages of two, one fault | the unique key, the checkpoint and an acknowledgement each involve two parties; three clients give every pair and a third that interferes; one fault of any kind (crash, lost answer, failed fetch, moved device) at any place | `OneLeadPerTap`, `CheckpointCovered`, `SyncedIsStored`, `NoDanglingLink`, and that delivery implements the ledger |
| `tap_progress` | either two kiosk requests or two sync runs, chosen at the start (`ApartSpec`), pages of one, failure counts up to 3, failing grants, one fault | a retry and the request it overtakes; two runs overwrite each other's checkpoint, and three is the first count two stale writers could keep from being reached | `TapsAreDelivered`, `StreamDrains`, `FailuresEscalate` |
| `queue_overlap` | two notifications, two requests to queue, two attempts, one change of consent; either two workers, an organizer and the attendee over one notification, or one worker, an organizer and the provider's receipts over two (`ApartSpec`) | two workers race for a claim while a third party writes from a stale copy and a fourth holds the rows in the other order; a follow-up points to one of two notifications and a receipt overtakes the worker's commit | `NothingClaimedUnsent`, `LateSends`, `FollowupInStep`, `DeadLettersAreExhausted` |
| `queue_settles` | two workers, the attendee, one crash, two changes of consent, under fairness | the smallest instance in which a claim, a retry, a deadlock and a crash meet | `QueueSettles` |
| `event_privacy` | fourteen casts of up to seven processes in both backends; two leads, one attendee shared with another event; two requests of one subject; three exports; grace periods of 20 and 30 days; one restart | every check of these routes is on one row that was read before, so two writers and a job suffice to make it stale; each cast has them twice where a route may be sent twice | ten properties of erasure, files, the event and progress |
| `back_office` | thirty-three casts of up to nine processes in both backends; five users of two tenants with two addresses; two rows where a property relates two, else one | as above | fifteen properties |
| `duplicate_recovery`, `grant_error`, `claim_overlap`, `lost_attempt`, `offboarding_grace`, `deleted_account` | the smallest instances of each | | the disagreements below |

Symmetry is used only in runs without liveness, over clients that are interchangeable.
`MaxAttempts` is 2 in the queue, the smallest at which a temporary failure both returns to the
queue and exhausts it, and 3 (the code's constant) for e-mail. `MaxFaults`, `MaxRequests`, `MaxChanges`, `MaxRestarts`,
`MaxVersion`, `MaxBrandings` and `LastDay` bound the environment or the number of rows, and no step of a handler
that has begun, but for the versions of a report beyond the third.

`FollowupInStep` is stated until the first receipt: the webhook writes the two rows one by
one and may leave them apart for ever (a hazard that PROJECT.json lists).

Many properties of the last two families are stated of one backend, or as long as a certain route does not take
part, and say so in their comment. That is not to make them hold by chance: over PostgreSQL, where every statement is a step,
two routes that read a row and write a copy back lose an update, and the condition marks exactly who does. In the memory backend they
hold across the waits for the outside world, and this is where the interleavings they speak of are: the upload of a file,
the answer of a provider, the hashing of a password, the timers. `VenueInStep`, `TakenBack`, `LinksEndForGood`, `RequestsSettle`,
`EmailSettles`, `RunsAreClosed` and `AlertsMatchLastRun` hold of both.

Two properties name an exception of another kind, and TLC finds a counterexample to each without it.

- `OneAccountPerAddress` is a property of steps. A login reads the account and waits for the hash; an administrator moves the account to
  another address, an invitation takes the old one, and the login writes its copy back with the old address
  (`routes.mjs:5409`): two accounts of a tenant have one address, in the memory backend too. The property says that the
  end of such a hash (`Hashed` with an `Outdated` copy) is the only step that does this, whatever runs beside it.
- `NothingLeftBehind` asks for the profile of a completed delete request only `Within` the cases in which the route can
  reach it. The organizer's completion finds the profiles by the attendees that the selected interactions still have. A
  request that names an interaction selects it even when a purge has already anonymised it, so that over
  PostgreSQL it is completed while the profile is still there: until the purge comes to the profiles, or for ever when the purge
  stops half way (the cast `HalfPurged`). The other case is an organizer who names an interaction together with an attendee who
  has none: nobody asks whether the two belong together.

## Fairness

*Tap delivery.* `WF` of the step of every client that is under way, of the device's
next request while something is queued, and of the next sync run: the kiosk posts what is
replayable every 30 seconds (`apps/web/kiosk.html`), and the sync scripts are written to be
run again and again (a run that finds nothing ends at once); that somebody schedules them
is an assumption about the deployment. Nothing makes a
stream grow, a device move or a fault happen. `TapsAreDelivered`, `StreamDrains` and
`FailuresEscalate` are conditional on the device staying where it was (or staying
unassigned), since a tap captured under another assignment is rejected.

*Queue.* `WF` of every worker's step: the scheduler script calls the batch in a loop and
its container restarts (`restart: unless-stopped`,
`deploy/production/docker-compose.yml:21`). `WF` of the steps of requests under way, of
PostgreSQL's breaking a deadlock, and of time. Starting a request, a fault, or a change of
consent is never forced.

*Personal data.* `WF` of time (`Clock`), and of every process that has begun, of the workers
and of the pollers (`Runs`): a request under way is carried on by the event loop, `app.mjs` starts the
pollers with `setInterval`. The two daily jobs have `SF`: in the memory backend only one of them holds
the thread at a time, so that each is disabled again and again; the event loop serves timers in order, and
does not let one of them wait for ever. Nobody has to send a request.

*Behind the scenes.* `WF` of the end of a session and of the expiry job (an interval of `app.mjs`); `SF` of
each e-mail batch, for the same reason as above. Every other process may stop for ever; no property depends on it.

## What is proved

Every invariant and every action property of the passing runs is a theorem of the specification; PROJECT.json names
the theorem of each. The proofs assume what the `ASSUME`s of the modules say of the constants, and TLC evaluates those in every run.
They leave open the size of every set, the feed, the assignment of taps, the casts and the bounds, and say:

- for tap delivery and the queue (`TapAssumption`, `RequestAssumption`, `FeedAssumption`, `ClientAssumption`;
  `StoreAssumption`, `WorkerAssumption`, `ReceiptAssumption`, `RouteAssumption`, `ActorAssumption`), that the constants are of
  their types and the kinds of actors are distinct;
- `BuildsAssumption`: a backend is one of the two, a cast is a finite set of triples;
- for each component over `Builds`, that an operation is called with a row of the kind its route looks up, and that a row is made by one
  request (the routes draw a new id for each). Two say more. The accounts of a tenant that exist at the start differ in their
  addresses (`AccountsAssumption`). A grace period is at most 999 days (`OffboardingAssumption`), because the model writes the day of a
  timer that is not set as a number beyond them.

**Tap delivery.**

1. `TypeCorrect` (TapPlatform_proofs). `TypeOk` is not inductive: the tap of a step is
   `req[c][pos[c]]`, so `TypeInv` adds where the positions may be while a client is at
   each place (`Walk`, `RunWalk`, `RequestWalk`).
2. `OneLead` (TapLedger_proofs). `OneLeadPerTap` is preserved by a commit only if the
   committing transaction is the only one that holds the key and the key is not stored:
   `Owned`, which `InsertTap` establishes (it waits, and fails on a stored key) and every
   other step keeps. `LeadInv == OneLeadPerTap /\ \A c : Owned(c)`.
3. `NothingLost` (`CheckpointCovered`, `SyncedIsStored`, `NoDanglingLink`), *assuming no grant
   fails* (`~GrantMayFail`): with failing grants `SyncedIsStored` is false of the code, as
   the run `grant_error` shows. `StoredInv` says that what a client has walked past is
   stored (`Progress`), that an answer of success covers all of its request
   (`Answering`), and the three properties themselves.
4. `Implements`: every step is a step of the ledger or a stutter, from 2 and 3.

**Outbound queue** (all in OutboundQueue_proofs, for every number of workers, requests,
receipts and faults).

1. `QueueTypeCorrect`. `QueueTypeOk` is not inductive: what a step writes depends on what the
   actor does at which place. `TypeInv` adds what each kind of actor may be doing (`Job`),
   at which places (`Stage`), and which copies it then holds (`Copies`).
2. `DeadLettersExhausted` (`DeadLettersAreExhausted`, `NeverStranded`). A stale copy that is
   written back could undo either, so `RowInv` states them of the committed rows *and* of
   every actor's copy, and `Changes` shows that each step derives the rows it writes from these.
3. `ConsentIsRespected` (`LateSends`). `LateInv`: while consent is gone only a worker that has
   not yet sent anything since may still be on its way to the provider (`Sending`); only a
   look-up with consent sets out on that way.
4. `SentMeansSent` (`NothingClaimedUnsent`). `Told` states it of the copies and of the
   receipts under way. `Counting` is why no sending is counted twice: between the provider's
   answer and the COMMIT the transaction holds the notification's row, so that it is the only
   one that can count, and the message is not counted yet.

5. `RowsInStep` (`FollowupInStep`). `PairInv`: the committed rows match, and so do the two copies of a transaction
   that is to write both (`Pointing`, `Withdrawing`). Two transactions take the rows in opposite orders; what keeps the
   rows together is that a transaction which writes both holds both when it commits, and one that dies leaves neither.

`SyncedTapsAreStored` and `LinksLeadSomewhere` give the two other parts of `StoredInv` names of their own.

**How handlers run** (Builds_proofs). `ThreadKept`: in the memory backend no step makes two processes share the thread; of
two that are under way one is at a wait for the outside, unless both are workers of one poll. Most proofs below come down to
its corollary `Undisturbed` (or `NobodyElse`): a process that is between a read and the write that follows from it, without such a
wait, is the one that takes the next step, so that what it read is still so. Over PostgreSQL nothing of the kind holds, and
an invariant for that backend has to be one that a stale copy cannot break: it is stated of the copies as well.

**Behind the scenes** (BackOffice_proofs, OfficeContent_proofs, OfficeGround_proofs, for every cast). `StepCases` says that a step of
a process is one of one component and leaves the rows of the others alone. Each component then has an invariant of
its own, in three parts: its rows, what its processes hold (`...Proc`), and the thread.

| Theorem | Invariant, and why the property alone is not inductive |
|---|---|
| `OneAccount`, `DeletedAccountsStayOut` | `AccountInv`: who is about to create an account, or to give it a new address, has found the address free among its tenant's, and nobody can have come between (`Vacant`); a copy that waits for no hash has the mark and, but for that new address, the address of the row. `OneAccount` is a property of steps, so it follows from `AccountInv` and one step (`ApartWrite`) |
| `TakenBackForGood` | `BreakGlassInv`: a session is asked for once, and only in the memory backend |
| `OneDrive` | `DriveInv`: who replaces the active connections holds all that are active, since it looks again after the exchange of the code |
| `OneItemShown`, `ReviewersSeeWhatTheyDecide` | `ModerationInv`: what is about to be written is a move of the item as it still is (`Moves`), or an edit of an item that is not locked (`Extends`) |
| `VenueHangsTogether` | `VenueInv`: what each look has found holds until the write; a device and its assignment disagree only while a process is about to mark it (`Marks`). For PostgreSQL the foreign keys and the index give the first three parts |
| `EndedLinksStayEnded` | `WalletInv`: both writers of a link write a status that is not active |
| `OneHolder` | `CardInv`: the holder that a lookup found is the only one; a tap under way is on an attendee that holds the card |
| `WorkOnIncidentsStays` | `FieldInv`: what an organizer is about to write extends what is stored (`Covers`); over PostgreSQL if he is the only one |
| `RunsHaveAnEnd`, `AlertsTellTheTruth` | `IotInv`: an open run is that of a process in its stages; the alerts that are open, or still to be raised, are those of what is wrong (`AlertProc`) |
| `OfficeTypes` | all of the above, with `ScopeInv`, `BrandingInv`, `CommercialInv`, and `EmailInv`: a copy of an e-mail that a batch still has to try has attempts left, so that the *recorded* count stays within the limit although batches overlap and write old counts back. It does not bound the attempts that are made: two batches that overlap may make four of which three are recorded |

**The personal data of an event** (EventPrivacy_proofs, for every cast).

1. `PrivacyTypes`. `TypeInv` adds what each process holds at each place (`Fits`): an invariant of the rows alone would not
   survive the first copy that is written back.
2. `ReportsOnce`, `NeverBack`. `ReportInv`: in the memory backend the event that a process has read is as it was read, but for
   the columns that a job may change meanwhile, and no version beyond the current one has a report.
3. `ErasuresLast`. `DataInv`: the copy that a route of the leads is about to write is the row as it is (memory), and the rows that an
   erasure has listed are stored.
4. `ReportedErasuresAreDone`. `EraseInv`: while no new data arrives an interaction is whole or gone, a completed
   request leaves nothing of its subject (`Settled`, with the exception above), and what an erasure under way has not done yet is still before it
   (`Erasing`, `Purging`).
5. `FilesGoOutOnce`. `OnceInv` counts, for each row, the hand-outs that there have been and those that may still come (`ToCome`):
   together they are at most one. No worker claims its row; what keeps the second from starting the file anew is that
   only one can be past its look (`InTurn`).
6. `ShortGraceIsKept`. `GraceInv` follows a job from its creation to its deletion: there is at most one worker to come, timer and
   worker are never there together, and a timer set by a period that Node can count does not ring before the day.

**Only model-checked.** Liveness (`TapsAreDelivered`, `StreamDrains`,
`FailuresEscalate`, `QueueSettles`, `RequestsSettle`, `ExportsSettle`, `PurgeHappens`, `BreakGlassEnds`, `EmailSettles`)
is out of the prover's reach, and so are the runs that end with a counterexample.

## Disagreements between code and documents

Each is a run that TLC ends with a counterexample; PROJECT.json quotes the lines.

- `duplicate_recovery`: the look-up of the winner of a duplicate runs in the transaction
  that the duplicate has aborted, so the loser of a race gets a database error.
- `grant_error`: an error of the document grants is swallowed inside the transaction of the
  tap, whose COMMIT then rolls back while the device is told *created*.
- `claim_overlap`: a claim is a read and an unconditional update; a second worker claims what
  the first has sent.
- `lost_attempt`: the worker and a revocation take the two rows in opposite orders; when
  the deadlock ends the worker's transaction, a message has left without a trace.
- `offboarding_grace`: the deletion after a grace period is a `setTimeout` of more milliseconds than
  Node counts; it fires at once. `ShortGraceKept` shows that a period it can count is kept.
- `deleted_account`: a login that waits for the hash while an administrator deletes the account writes the
  account back as it was. `DeletedStaysOut` shows that nothing else does.

## What else the models show of the code

Behaviour that no document contradicts, met while modelling and visible in the models:

- Over PostgreSQL no route creates an attendee: the `INSERT` (`repositories/postgres.mjs:865`) names `event_id`, which no migration
  adds to the table (Cards). No migration creates `break_glass_access` (BreakGlass). Full exports stay `requested`, since the `CHECK` of
  their status does not know `processing` (EventExports, `Accepts`); escalating an incident fails on the `CHECK` of
  `migrations/001_init.sql:110` (FieldReports). Offboarding ends at the approval, which the role of the requests may not write.
- The `UPDATE`s of events, exports, data subject requests and brandings do not name the columns for retention status, file and
  download, and approval: a file is handed out as often as it is asked for, and the purge erases an event's data but never records that it did (the
  properties about them are therefore stated of the memory backend).
- `force-purge` marks the event `purging` and then calls the job that skips such events (`PurgeHappens` has to leave it out). A purge that
  `expired_pending_purge` announces does follow.
- `export_then_delete` waits for an export that nothing makes. A second approval of an offboarding in its grace period
  starts another worker.
- A revocation of the sponsor's part alone, of an interaction that a purge has anonymised marks it as active
  again, without its attendee (`Revoke` in LeadRecords; `NoNewData` leaves it out).
- When the organizer completes a request while the worker uploads its file, the file is handed out twice; a full export may be approved like
  a lead list, and then be downloaded over that route as often as one likes (`OneTimeLinks` leaves out both).
- A purge blanks the profile of an attendee who is also in another event; the organizer's completion of a request does not
  (`Shared`).
- The older break-glass approval asks for no status: it brings back what was rejected or revoked, and a session that
  `/admin/break-glass` created and it approved never expires (`TakenBack` and `BreakGlassEnds` leave these out).
- A retired or broken device may be assigned. A deal may be moved to another partner after its payout.
- The alert router is called by parity checks as well, which know of no run: they resolve the alert of a failed run
  (`Alone` in `AlertsMatchLastRun`).
- Two e-mail batches that overlap make more attempts than the notification records, and may pass `MAX_ATTEMPTS` with the messages
  they send: each writes the count it has read plus one.
- A delete request that is completed turns `failed` when a statement after the completion throws (`FailRequest` at `report`).
- The same address may belong to accounts of two tenants (`admin-user-create` looks at its own), while login and the reset of a
  password look for an address in all of them and take the first they find.
- Go-live approvals are asked by no route.
- Over PostgreSQL two callbacks can connect one drive twice, and a disconnection ends one of the two rows (`Disconnect` in DriveAccess;
  `OneDrivePerProvider` is about the memory backend).

## What is not modelled, and why

Within the modelled parts: the screens of the kiosk, how tokens are made, which folders
a grant opens; contract checks and the wording of failure codes; metrics, analytics and
audit rows, webhook signatures, the batch limit of the notification worker, receipts that report
neither delivery nor failure; the sponsor's and organizer's release in the queue, consent
evidence and snapshots; contents of files, reports and e-mails; bulk imports, which repeat the single operations. One
follow-up and one event per model: handlers never touch two. The assignment checksum is part of an assignment in TapIngest.

Whole components: access control and masking are decision tables without state; the outside integrations are calls with
thin state, whose answers are a choice where a modelled handler makes them; go-live approvals, readiness and the other
administration routes are single statements with no interplay; the web applications are user interface.

Also left out: the cleanup that deletes old alerts and runs of the IoT integration after their retention (`AlertsMatchLastRun`
speaks of the rows before it); and a deployment of the integration without an adapter for production, which compares no environments
(`iot/runtime.mjs:86`). Of a data subject request the statements outside the `try` of the worker (before `processing` is written)
and the failing of the `catch`'s own write are left out: the request then stays as it is. An account's role and
organization, which no modelled step depends on, are not part of its row.

In the memory backend a crash is not modelled for the two families over `Builds`: it loses the rows with the processes.

## Plan

Every safety property that a run checks is proved. What could follow:

1. The safety halves of the liveness properties, as theorems of their own: the measures that a step of a retry, of a batch or
   of a page never lets grow.
2. What PostgreSQL keeps, where the properties of the last two families are stated of the memory backend: for each, the strongest
   statement that stale copies leave true.
3. An abstract specification of erasure (data, requests, reports of being done) that `EventPrivacy` implements while no new data arrives.
