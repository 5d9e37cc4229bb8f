# THE EYE: a TLA+ verification project

THE EYE is a multi-tenant audit product: a FastAPI backend keeps an append-only,
hash-chained ledger of security events, Go agents on endpoints collect events and ship
them, a dashboard shows them, and a staff portal administers tenants. This directory
models the parts of it where order, concurrency, failure and arithmetic at boundaries
decide whether the product keeps its promises. TLC checks the models on small instances;
TLAPS proves every safety property that a passing run checks, and both refinements (of an
append-only log, of a register of signatures), for every value of the constants.

Paths below are relative to the repository's root (`src/` of this tree).

## 1. Inventory

| Component | State it keeps | Operations | What is hard about it |
|---|---|---|---|
| Hash-chained ledger (`backend/app/ledger`, `api/v1/events.py`) | `ledger.events`, the singleton `ledger.chain_head` | append one event or a batch in one transaction under `SELECT ... FOR UPDATE` | concurrent writers, error in the middle of a batch, crash before the commit or before the answer |
| Chain verification (`ledger/verify.py`) | none; reads the table | walk the rows, compare `prev_hash`, recompute `record_hash` | rows edited or removed underneath; what a column returns is not what was written |
| Agent queue (`agent/queue`) | a directory of JSON files, a counter in memory | Enqueue, Peek, ReadBatch, Ack, purgeStale, New | counter seeded again at each start, torn files, full directory, purge concurrent with shipping |
| Agent shipper (`agent/shipper`, `agent/main.go`) | none durable | ship a batch, decide by the status between ack, drop and retry | lost and late requests, lost answers, rate limiting, one bad event in a batch |
| Agent ingestion (`api/v1/agent.py`) | appends to the ledger | POST /v1/agent/events, registration, heartbeat | swallowed exceptions inside one transaction |
| Deletion requests (`services/deletion_request_service.py`, `api/v1/deletion_requests.py`) | `deletion_requests`, `deletion_approvals`, `is_active` of the target, the ledger | file, approve, reject, execute at the fourth signature, log | overlapping approvers, commits in the middle of the operation, crash between them |
| Accounts and sessions (`services/user_service.py`, `api/v1/auth.py`, `users.py`, `deps.py`) | `users`, `sessions`, audit events | login, logout, expiry, role change, (de)activation, password change | check-then-act without locks, login that overlaps a revocation |
| Rate limiter (`core/rate_limit.py`) | a dictionary of timestamps per key | `check_rate_limit` | window boundaries, table at its capacity |
| Tenant lifecycle and billing (`account.py`, `staff.py`, `paddle_service.py`, `billing.py`, `signup.py`) | `tenants`: `is_active`, `pending_deletion`, `scheduled_deletion_at`, plan | sign up, request/cancel deletion, suspend, schedule, approve, reject, webhooks, hard delete | three parties write one row without a lock; webhooks out of order; a cancellation racing an approval; rows that refer to the erased users |
| Sign-in of the front ends (`lib/auth.ts`, `lib/useRequireAuth.ts`, `lib/api-client.ts`, login and sign-up pages of both) | a marker per front end in `localStorage`, shared by its tabs; one cookie for both | guard, login, logout, sign-up and its timer, password change, any 401 | the marker, the cookie and the session are three copies of one fact, updated by answers in any order |
| Pages with tables (`app/admin/*`, `alerts`, `settings` team panel; the staff portal's `tenants`, `users`, `plans`, ...) | the rows shown, flags of requests under way, open dialogs, a one-time secret | load, row buttons, dialogs, reload or patch after a change | one flag for many rows, reloads that overtake each other, dialogs closed and reopened on a request under way |
| Pages that search and poll (`events`, `file-activity`, `audit-trail`, `forensics`, `investigate`, `chain`, `machines`; the staff portal's `audit`, `support`, `health`) | the question, the answer shown, the newest record seen | filter, search, select, poll, add a note | no request is cancelled and no answer is matched with its question |
| Settings (`app/settings/page.tsx`) | the danger zone, forms | delete the account, take it back, change a password | shows a request the backend also shows to others |
| API keys and sources (`api_keys.py`, `sources.py`, `agent.py`) | `api_keys`, `ingestion_sources` | create, revoke, resolve; first agent source | limits checked without a lock, creation by two agents at once |
| Alerts (`alert_service.py`) | acknowledgements per window bucket | compute, acknowledge, escalate | an acknowledgement outlives, or misses, its condition |
| Staff console (`api/v1/staff.py`) | tenants, users, keys, plans, announcements, notes, its own audit log | thin handlers over those rows; decisions on tenants | a decision and its audit row are one transaction, but nothing is locked between reading the row and committing |
| GeoIP cache (`geoip_service.py`) | dictionary shared by threads | lookup | clear at the cap while others fetch |
| Whistleblower reports, intrusion log | rows of their own plus ledger events | thin handlers | nothing the ledger's model does not cover |
| Read-only views, demo data, collectors, tray | none, or the operating system's | queries, rendering, I/O | little that a model checker reaches |

How they interact. Everything that reports goes through the ledger's `append_event`:
agents through `/v1/agent/events`, API clients through `/v1/events`, the backend itself
for logins, deletion decisions, rejected keys and reports. All of them therefore meet at
one row lock. The agent and the backend exchange one request and one answer per batch
over a network that loses either. Deletion requests call the account service's
deactivation, which commits the shared database session. The rate limiter sits in front
of login, sign-up, rejected keys and, per IP, every request, the agents' included. The
two front ends are clients of the same backend and, in one browser, share its session
cookie; each page talks to the backend by itself, and pages learn of each other's changes
only by loading again. A suspended tenant's users are shut out of the API as soon as
billing is configured, so the tenant's row decides what the settings page can do.

What makes each correct, in one line: the ledger is one unbroken chain and every
acknowledged event is in it; verification reports no row but for a reason, and lets nobody change the
past of a hash it vouches for; an agent loses
no event silently, and delivers in order; a deletion needs every signature and happens
once; a revoked session is gone and an admin remains; no window holds more requests than
allowed; a tenant is erased only on a request that still stands; a page at rest shows
what the server holds and what it says it shows; a front end shows the account the
backend answers as. Every line of this code at which one of these could go wrong in a way
tests hardly reach is listed under `hazards` in `PROJECT.json`, with the properties that
watch it or the reason none does.

## 2. Modules

| Module | Models | Its state |
|---|---|---|
| `AppendOnlyLog` | what the ledger promises: a log that grows by one whole request at a time | `log` |
| `Ledger` | `append_event`, `append_batch`, commit, rollback, answer; hashing; `verify_chain` | the committed table and head, the row lock, and per request its phase, uncommitted rows and in-session head |
| `LedgerStorageEdits` | `Ledger`, with a superuser who updates rows in any columns, inserts and deletes them underneath | adds `written`, the rows as committed |
| `AgentQueue` | `queue.go`, restart and torn writes | directory, counter, fates of events |
| `AgentDelivery` | extends `AgentQueue` with `shipper.go`, the network and `agent_ingest_events` | the batch in flight, late requests, this agent's part of the ledger |
| `SignatureRegister` | what the deletion workflow promises: a register in which every decision is one step, and the last approval carries the request out | outcomes, decisions, requests carried out |
| `DeletionApproval` | the four-signature workflow | requests, votes, active targets, one handler per user |
| `UserAccounts` | accounts, sessions, login, changes by an admin | users, sessions, one job per handler |
| `RateLimiter` | `check_rate_limit` | the dictionary, the clock, history of decisions |
| `TenantLifecycle` | `tenants`' row between its admin, the staff and Paddle, with the danger zone of the settings | the row, the admin's session, handlers at work with the row as each read it, what the page shows |
| `SignIn` | both front ends in one browser, with the backend's sessions | per tab its page, form and timer; markers, cookie, sessions, requests in flight |
| `TableTraits` | vocabulary: what a page with a table is made of, and the endpoints' effects on a row | |
| `DashboardTables`, `StaffTables` | each page's handlers and controls, in that vocabulary | |
| `TablePages` | a tab on any of the 18 tables of 15 pages, its requests and the server's rows | the rows shown, flags, dialogs, the secret, requests in flight |
| `SearchPages` | a tab on any of ten pages that ask and show | the question, the answer shown, timers, requests in flight |

`MC*` modules only define constants for TLC; `*Proofs` modules hold the theorems (section
4), mostly about the module they are named after. `AccessProofs` is about `UserAccounts`
and `RateLimiter`, `PageProofs` about `TablePages` and `SearchPages`; since each of them
extends two components, `RateLimiter` and `SearchPages` give their specifications names of
their own (`LimiterSpec`, `LimiterTypeOK`, `SearchSpec`, `SearchTypeOK`, ...).
`AgentQueue` leaves `paths`, the names the
shipper holds, to `AgentDelivery`, and is checked through it.

### How the models are cut

* **A handler is split where another can intervene.** A request of the backend is a
  coroutine with its own READ COMMITTED session, so its steps are its SQL statements as
  far as others' commits change their answers, and its commits. Statements between which
  nothing shared is read are one step. `CheckTarget` of `UserAccounts` merges loading the
  target and counting the admins: no other commit between these two changes what the
  handler decides that a commit right before or after them does not.
* **A unit of work writes what it changed.** A handler of `TenantLifecycle` reads the
  row (`Read`) and commits later (`Commit`); SQLAlchemy's UPDATE names only the columns
  whose value differs from the one read (`Written`). So a handler that assigns what it
  read does not overwrite what another has written meanwhile, and one that assigns
  something else does.
* **`_execute`** of `DeletionApproval` reads and deactivates the target in one step, and
  leaves the sessions it also deletes to `UserAccounts`.
* **A request of a page** is three steps: the handler runs up to its `await` (send), the
  backend does what it does (serve), the continuation runs (answer). Between them
  anything else may happen; answers arrive in any order. `Lose` covers a request that
  never arrives and an answer that does not. A page that is left keeps its requests alive
  for the backend, not for itself. In `TablePages` and `SearchPages` the backend's part
  is one effect on one row or record, since their properties are about the page; where
  the backend's own steps matter they are in `TenantLifecycle`, `DeletionApproval` and
  `UserAccounts`.
* **An answer is heard before it is handled.** In `SignIn` the browser stores an answer's
  cookie when the headers arrive (`Hear`); the script that awaited the answer, its body
  and the caller's promise sets or removes the marker later (`Answer`). Other tabs send,
  hear and handle in between. An answer whose body cannot be read any more (`Lose`), or
  whose page has been left, has set the cookie all the same. `clearSession` on a 401 needs
  no body and no cookie, so it is one step. What a page loads is not kept unless it is
  refused: nothing the properties are about depends on it.
* **Sessions end or pause.** `SessionEnds` is for good: expiry, and the administrators'
  deactivation, which deletes the rows. `Suspend` and `Activate` are the staff's: they
  change `is_active` and leave the sessions, which are refused in between (`UserOf`) and
  answered again afterwards.
* **Pages are data.** Every page with a table runs the same actions over a record of its
  handlers (what is awaited, which flag is set, which dialogs close, whether the list is
  reloaded, patched or neither) and of its controls (which rows draw a button, which
  flags disable it). The records are translated page by page from the components; the
  actions from what React and the browser do with them. `SearchPages` does the same with
  ten records.
* **History variables** (`written`, `excuse`, `crossed`, `overlap`, `setBy`, `cleared`, `activeBy`,
  `carried`, `disorder`, `raced`, `clashed`, `collided`, `refused`, `allowed`) record
  what has happened so that a property can say under which circumstances the code lets
  something through. No guard reads them.
* **Uncommitted data** is visible to its own transaction only. A unique index makes an
  INSERT wait for the transaction that holds the key, an UPDATE holds its row.
* **Hashes.** SHA-256 is a constructor: two digests are equal only if the payloads are.
  Collisions are outside the model.
* **JSONB.** `change_summary` and `metadata` are hashed as they came and stored as JSONB.
  The constant `Jsonb` says what the columns give back of a body; it need not be the same
  body (1e16 comes back as an integer, -0.0 without its sign), only one that comes back
  unchanged from then on. `LedgerEvent` hashes the event and stores `Jsonb` of it,
  `verify_chain` hashes what is stored.
* **Edited storage.** `EditRow` replaces a row, or adds one, with any number, body,
  unhashed columns, timestamp and `prev_hash`; its `record_hash` is one copied from
  anywhere, the row's own or the one computed over the new columns. `sequence_num` stays
  unique, for superusers too; an append that finds its number taken fails.
* **Timestamps.** `occurred_at` is an instant and the offset it was written with; the
  `timestamptz` column keeps the instant. `time.time()` and `datetime.now` of one host do
  not run backwards in the models. A schedule is the request it was set for.
* **One tenant.** Ledger rows of different tenants share one chain, so tenants are part of
  a row's opaque body. Accounts, deletion requests and the lifecycle never cross tenants.
* **Events** of the agent are numbered in the order they are collected. Whether
  `EventCreate` accepts one is a set (`Invalid`), plus the age limit of seven days.
* **Roles.** `APPROVER_ROLES` is a parameter (four in the code, three where a second
  holder of one role is wanted). That an approver's role changes between votes is not
  modelled.
* **Operators marked "Fault"** are wrong variants of the definition that follows them
  (a dropped lock, a missing reset, an off-by-one). No action uses them. They exist to
  show that each property notices a plausible mistake: with the variant put in the
  definition's place, TLC finds the property violated. `mutants` in `PROJECT.json` pairs
  them.

## 3. Runs

Ten runs pass and two exhibit a disagreement between the code and what it says.

| Run | Bounds | What it shows |
|---|---|---|
| `ledger` | three concurrent requests, batches of one and two events, two committed rows before new requests stop, clock 0..1; no symmetry, since liveness is checked | chain intact, acks durable, receipt order; `verify_chain` on untouched rows reports only events the columns do not keep as they came; `ImplementsLog`: refinement of `AppendOnlyLog`; `RequestsFinish`: no request waits for the `chain_head` lock for ever (73 thousand states) |
| `ledger_edits` | one writer with requests of one and two events, one body that JSONB changes, up to four rows numbered 0..3, two edits of any columns, insertions or deletions, appends going on between and after them | `HashVouchesForPast`: where a row still has a committed hash and nothing is reported up to it, the hashed columns up to it are those committed (355 thousand states) |
| `ledger_offsets` (violation) | clients that write a non-UTC offset | `VerifiesClean` fails |
| `agent_delivery` | three events, a directory of two files, batches of two, one unstorable event, one crash and restart, one network or backend fault, 429 answers | nothing vanishes but in the ways named, copies bounded by faults, first copies in order, every queued event leaves the queue (232 thousand states) |
| `deletion` | three roles, four approvers (two of one role), a target who is an approver and a target that does not exist, two cut-off handlers | at most one execution and only with the quorum, half-done execution only by a crash, ledger truthful; `ImplementsRegister`: refinement of `SignatureRegister` (1.0 million states) |
| `deletion_quorum` (violation) | the four roles, no crash | `QuorumExecutes` fails |
| `accounts` | two users, both admins (symmetric), two handlers, two logins (failed or cut-off ones included), one password change each | every session has its login's event and outlives a revocation only if its login overlapped it; no admin is left only after overlapping changes (1.2 million states) |
| `rate_limiter` | three keys for two places, two requests per two seconds, six instants | a request is let through exactly when its window and the table have room (71 thousand states) |
| `tenant_lifecycle` | four requests or webhooks, two handlers at work at a time, one mishap (lost answer, redelivered webhook, expired session) | schedules belong to their requests, `is_active` is accounted for, the danger zone agrees with the row, erasure is justified; each up to the overlaps it names (2.5 million states) |
| `sign_in` | two dashboard tabs and one staff tab, a customer and a staff member, three actions of the reader, one fault (lost request or answer, ended session, suspension) | a front end shows the account the backend answers as; signing out ends the session; every tab comes to rest, inside or out; the first two up to the circumstances they name (1.5 million states) |
| `table_pages` | any of the 18 tables, two rows (symmetric), three requests or mishaps, one dialog, one mishap | a page at rest shows the server's rows; flags prevent double requests; secrets stay until read (2.8 million states) |
| `search_pages` | any of ten pages, two questions, two records, three actions, two requests in flight, one fault | the answer on the screen is to the question shown; the live feed never goes back; a polling page catches up (182 thousand states) |

Why the bounds are enough. The ledger needs two writers to race and a third to wait
behind both; two rows per batch give every position in a loop (first, middle of a
transaction, last), and the proofs remove the bound altogether. The agent's queue needs
an event that does not fit, one behind an unstorable one, and the one fault or restart
that duplicates a batch or seeds the counter into it. In the deletion workflow two
handlers that overlap and a third that follows produce every pattern of counting; a
second holder of a role exercises the unique index; two crashes hit one vote and one
execution. Two handlers suffice for check-then-act on accounts and on the tenant's row:
one acts between the other's check and act; four operations make a request, its
schedule, its withdrawal and the next request (the same properties also hold with five,
15 million states, beyond what is run each time). The limiter's window is two seconds so
that a timestamp can be inside, at the cutoff and outside, and three keys for two places
fill the table. On the pages, two rows tell a flag that names a row from one that does
not, two requests race and the third is the one a wrongly freed flag lets through; two
questions tell an answer from the right one. Two tabs of one front end share a marker,
and a third on the other front end shares only the cookie; three actions of the reader
are a sign-in, its sign-out and another tab's sign-in that crosses it, or two sign-ins
that cross and a visit that shows what they left. There is no symmetry between the tabs,
since liveness is checked. Two edits of the ledger are a change and its cover-up: a row
and the hash that goes with it, a row and its successor, a deletion and the row put in its
place; the theorem has no bound.

`AtBound` in `Ledger`, `AgentDelivery` and `UserAccounts` is a stuttering step that is
enabled where only the model's bounds stop the system, so these runs check deadlock.
The four runs of the pages and the tenant's row say `CHECK_DEADLOCK FALSE`: a page all of
whose requests are answered, in front of a reader who has used up the bound, rests.

### Fairness

* `Ledger`: weak fairness of `InsertRow`, `Commit` and `Respond` (a coroutine that can run
  does), strong fairness of `SelectHeadForUpdate` (PostgreSQL queues waiters for a row
  lock). Nothing is assumed of arrivals, rollbacks or lost answers.
* `AgentDelivery`: weak fairness of the shipper goroutine, of a restart after a crash and
  of the backend answering what it receives. Faults are bounded by `MaxFaults`: a network
  that fails for ever delivers nothing. Collecting, purging and ageing are not fair.
* `SearchPages`: weak fairness of the debounce and the interval timers, and of serving
  and answering each request. Readers and new records are not fair.
* `SignIn`: weak fairness of effects and timers, of serving and of hearing and handling
  answers taken together: as long as one of them can go on, one of them does. Readers,
  faults, expiry, suspension and activation are not fair.

## 4. Proofs

Each `*Proofs` module proves, for every value of the constants its module's assumptions
allow, that the properties a run checks hold of the specification. All of them go the
same way: the properties are not inductive, so the module defines `IndInv`, their
conjunction with what they rest on, proves that `Init` implies it and every step keeps it,
conjunct by conjunct and under each conjunct action by action (`Step...` lemmas), and
concludes `Invariance == Spec => []IndInv` (in the two modules about two components
`LimiterIndInv`, `TableIndInv` and `SearchIndInv`, with invariance theorems named alike).
Each was checked by TLC on the run of its module before it was proved.

| Module | Theorem | States |
|---|---|---|
| `LedgerProofs` | `TypeCorrect`, `ChainAlwaysIntact`, `AcksAlwaysDurable`, `AlwaysReceivedInOrder` | `[]TypeOK`, `[]ChainIntact`, `[]AcksDurable`, `[]ReceivedInOrder` |
| | `DivergencesAlwaysExplained`, `RowsAlwaysHashed` | `[]DivergencesExplained`, `[]RowsHashed` |
| | `RefinesLog` | `ImplementsLog`: the ledger implements `AppendOnlyLog` |
| `LedgerStorageEditsProofs` | `HashAlwaysVouches` | `[]HashVouchesForPast` |
| `AgentDeliveryProofs` | `TypeCorrect`, `NoEventVanishes`, `CopiesBounded`, `FirstCopiesOrdered` | `[]TypeOK`, `[]NothingVanishes`, `[]CopiesNeedFaults`, `[]FirstCopiesInOrder` |
| `DeletionApprovalProofs` | `TypeCorrect`, `ExecutionNeedsQuorumOnce`, `HalfDoneOnlyByCrash`, `LedgerAlwaysTruthful` | `[]TypeOK`, `[]ExecutesOnceWithQuorum`, `[]HalfDoneNeedsCrash`, `[]LedgerTellsTheTruth` |
| | `DecisionsAlwaysStand` | `DecisionsStand`, of steps |
| | `RefinesRegister` | `ImplementsRegister`: the workflow implements `SignatureRegister` |
| `AccessProofs` | `TypeCorrect`, `SessionsAlwaysAccountedFor`, `LastAdminsOnlyClash` | `[]TypeOK`, `[]SessionsAccountedFor`, `[]LastAdminsClash` |
| | `LimiterTypeCorrect`, `WindowsAlwaysExact` | `[]LimiterTypeOK`, `[]WindowExact` |
| `TenantLifecycleProofs` | `TypeCorrect`, `ScheduledDatesExplained`, `ActivityExplained`, `DangerZoneTellsTheTruth` | `[]TypeOK`, `[]SchedulesBelongToRequests`, `[]ActiveIsAccountedFor`, `[]DangerZoneAgrees` |
| | `ErasuresJustified` | `ErasureIsJustified`, of steps |
| `SignInProofs` | `TypeCorrect`, `ShownAccountsAnswered`, `SignedOutExplained` | `[]TypeOK`, `[]ShownAccountIsAnswered`, `[]SignedOutMeansNoSession` |
| `PageProofs` | `TableTypeCorrect`, `SettledScreenAlwaysCurrent`, `NeverDoubleSent` | `[]TypeOK`, `[]SettledScreenIsCurrent`, `[]NoDoubleSend` of `TablePages` |
| | `SecretsAlwaysStay` | `SecretsStayUntilRead`, of steps |
| | `SearchTypeCorrect`, `ScreenAlwaysAnswers` | `[]SearchTypeOK`, `[]ScreenAnswersTheQuestion` |
| | `LiveFeedGoesForward` | `LiveFeedNeverRewinds`, of steps |

### The arguments

* **Ledger.** A commit replaces the head by what the transaction has built, of which
  `ChainIntact` says nothing. A transaction that holds the lock always extends the
  committed chain (`TransactionExtendsChain`); inserting a row built by `LedgerEvent` from
  the transaction's head keeps that so (`ChainExtends`, `LedgerEventFields`); and because
  only the holder has pending rows and only the holder commits (`LockDiscipline`), the
  chain it extends is still the one it read. The other theorems add one conjunct each:
  `AnswersCommitted` (an answer is built from committed rows), `StampedUnderLock` (the
  holder's clock has passed all earlier receipts), `RowsHashed` (each row keeps what its
  event's content becomes in the columns and has the hash of the event as it came) with
  `ChainMeetsExpectation` (along an unbroken chain the row visited before is the one
  numbered one less). A divergence is then one of a hash, and the event it belongs to is
  not read back as it was hashed (`SurvivorRecomputes`).
* **Refinement.** `LogOf` maps a table without gaps to the sequence of its rows' contents.
  `BuildsRequest` says that the rows a transaction has inserted are its request's events
  so far, in order; so a commit appends exactly one request (`CommitAppendsRequest`), and
  every other step leaves the log as it is.
* **Edited storage.** The rows as they were committed (`written`) behave as the ledger
  does whatever was done to the stored ones: `EditsLeaveHistory` is the refinement
  `Ledger WITH events <- written`, by which the theorems of `LedgerProofs` hold of them.
  Of the stored rows nothing is kept but that their numbers differ and that JSONB gives
  their bodies back (`EditsTracked`); no step of the argument asks where they came from.
  It goes down from the row that has a committed hash: the digest names one payload, so a
  row that verifies and has that hash has the number, the hashed columns and the
  `prev_hash` of the committed one (`HashNamesRow`); its `prev_hash` is, if nothing is
  reported, the hash of the nearest row stored before it (`CleanRowLinks`), which is the
  committed predecessor's, or the genesis hash, which no row has (`NoHashIsGenesis`).
  So every committed row down to number 1 is met (`NoRowMissing`): the largest number not
  met would be linked to by the row after it. That there is a largest (`LargestOf`) is
  taken from the well-founded order of the naturals. Below number 1 there is nothing: the
  first row's `prev_hash` is the genesis hash.
* **Delivery.** `NothingVanishes` needs to know what a file name stands for while the
  shipper waits: `ShipmentOK` says that a name it holds still holds the event it read,
  unless the name collided, and that an accepted batch is stored or skipped. `RemovedFile`
  then makes whoever removes a file answer for the event in it. `FirstCopiesInOrder`
  needs `NothingOvertaken`: an event older than one in the ledger is stored or will never
  be any more (`Settled`), and every request, also one the agent has given up on, carries
  only events whose elders are in it or settled. That in turn rests on names being as old
  as their events until the first restart (`NamesInOrder`) and on Peek returning the
  first names there are. `CopiesNeedFaults` is an account (`CopiesBudgeted`): copies
  stored, abandoned requests that carry the event and the copy the queue may still send
  never exceed one plus the faults and restarts so far; each step moves a copy from one
  place to another or is a fault.
* **Deletion.** While a handler holds a role's vote, flushed and not committed, nobody
  else's vote of that role exists (`VotesExclusive`, the unique index), so of a request
  whose votes are complete (`SignaturesComplete`) no handler is still holding one: it
  cannot be executed twice. `DecisionsGrounded` keeps a rejected request from ever
  reaching a quorum. For the refinement, the commit of a vote is the register's decision
  (`VoteSigns`: its role has not decided and the request is open), the commit inside
  `_execute` is the step that carries out (`LastVoteSigns`), and the commit after it either
  concludes what has been carried out (`PerformedCounted`) or changes nothing; all other
  steps stutter. A handler cut off between the two leaves the register carried out and not
  concluded, which the register allows: it promises nothing of when it concludes. That decided
  requests stay decided (`DecisionsStand`) is part of what the register promises, so no run
  checks it by itself; it is proved by itself, of steps.
* **Accounts.** A session is committed long after its user was read: `LoginsAccountedFor`
  says that a login under way knows of every change it has missed, `ChangesAccountedFor`
  what a change that has deleted the sessions has not deleted. The check for the last
  admin precedes the commit it guards: unless changes clashed it would still come out the
  same (`ChecksStand`).
* **Tenants.** Handlers write what they decided on a row read earlier. `ReadsAccepted` and
  `SnapsFresh` say what such a handler relies on and until when, `WithdrawalsNoticed` that
  a withdrawn request is noticed, `WebhooksInOrder` which of Paddle's announcements are
  still to come, `ZoneExplained` what the page's own request will answer.
* **Signing in.** What an answer under way says about a session stays true: the cookie of
  a sign-in names that account's session or a dead one, and a refusal of a right request
  names a session that is dead for good or of an account that has been suspended
  (`AnswerFits`). `LoginsCounted` keeps the backend's tokens within the number of
  sign-ins. The marker says nothing while a script has yet to run, so its agreement with
  the cookie (`MarkersAgree`) is only claimed when none has; what carries it over is
  `SettlingFits`: on the front end the cookie came from, the one script that has yet to
  run is the one of the sign-in that brought the cookie. Agreement is about whose session
  the cookie names (`Holder`), alive or suspended, so that it survives an activation.
* **Rate limiter.** `WindowExact` counts the requests that were let through, which the
  limiter does not remember. Its timestamps are the end of that history, and what came
  before them is older than the window (`Mirrors`): popping the aged ones
  (`DropAgedMirrors`), deleting a key's entry and creating it again keep that so. A
  request is let through only while fewer than `max_requests` timestamps are left, so the
  request `max_requests` places earlier has aged (`Spaced`). Two requests that far apart
  lie in no window together, so a window, also one of the past, has no more than
  `max_requests` places (`WindowBounded`); and `max_requests` timestamps left are that
  many places of the current one (`WindowUsed`).

* **Pages with tables.** The actions are the same on all 18 tables, so one argument serves
  them all, given how each is made (`WellMade`, proved page by page from the records of
  handlers and controls). Its parts are what a reviewer of a page would look for. What a
  continuation does to the row shown is what the endpoint does to the row, unless the
  list is loaded again or the row answered (`Suits`). A flag either guards every button
  whose handler sets it, or some button of that handler looks at no flag (`NoneTwice`).
  Where a continuation closes dialogs that cover the page, the flags of such dialogs are
  theirs alone (`ClosesItsOwn`). Whatever reveals a secret is guarded by one flag, and
  either the secret covers the page or starting takes it off (`Reveals`).
  `SettledScreenIsCurrent` says nothing of a page that waits: `ScreenAccountedFor` says of
  each request under way what its answer will do to its row, or that a list already read
  is still the server's. A flag is held by one request until its answer (`FlagsHeld`); a
  flag inside a dialog goes when the dialog does, which is why at most one covers the
  page (`OneCovers`), and why only the request that holds it closes it. `SecretAlone`
  keeps a second secret from being under way.
* **Pages that search and poll.** `OneQuestion` follows the one request there is unless
  requests have overlapped: it is about what was asked last, and so is what is on the
  screen, or the request will replace it. `AskedIsShown` ties what was asked last to the
  inputs where no button is waited for, and `TraitsKept` keeps the kinds of request to the
  pages that send them. The bound on records counts the notes not stored yet
  (`RecordsBounded`, `NoLongerWaits`).

### Assumptions

The named `ASSUME`s of the modules, which TLC evaluates in every run: nobody is called "no
writer", requests are non-empty sequences (`Ledger`); at least one file fits the directory
and one event the batch, the handler looks at whole batches (`AgentDelivery`: the code has
batches of 100 and a cap of 500); users are finitely many and an admin is one of them
(`UserAccounts`); accounts of customers and staff are different, tabs of the two front
ends too (`SignIn`); at least one handler may be at work (`TenantLifecycle`); a window
allows at least one request and the table holds at least one key (`RateLimiter`: the code
allows 5 to 300 requests and holds 50,000 keys); no row or question is called "none"
(`TablePages`, `SearchPages`) and at least one request fits in flight (`SearchPages`: the
browser's limit is not modelled otherwise); bounds are natural numbers.
What JSONB gives back of a body comes back unchanged (`Ledger`), and edits give rows
integers for numbers (`LedgerStorageEdits`). No theorem assumes anything of the offsets
clients write.

The bounds (`MaxEvents`, `MaxFaults`, `MaxAsks`, ...) are constants like any other: a
theorem holds for each value of them, so the behaviours it covers are those with
finitely many events, faults or requests, however many.

`Peek` and `ReadBatch` are written with `InOrder`, the ascending enumeration of a finite
set of names, rather than with a sorting operator: `InOrderSorts` proves from it that the
enumeration exists, is increasing and misses nothing, by ranking each name by the number
of names below it.

### Checked by TLC only

* Liveness: `RequestsFinish`, `QueueDrains`, `PollingCatchesUp`, `TabsSettle`. Fairness is
  about ENABLED, which this prover does not handle.
* The auxiliary conjuncts of the invariants are lemmas of the proofs and are no
  properties of a run of their own.

## 5. What the code does that it says it does not

Shown by a run:

* `ledger_offsets`: `_iso` (`backend/app/ledger/hashing.py:24`) hashes the offset the
  client wrote; the column returns UTC; `verify_chain` then reports untouched rows.
* `deletion_quorum`: two last approvers who overlap each count three signatures
  (`deletion_request_service.py:103`). All four are committed, the request stays pending
  and no role is left to vote.

Stated by how a passing property is qualified. Each qualification is a way the code lets
something through.

The ledger and the agent:

* `DivergencesExplained` lets `verify_chain` report untouched rows whose event has an
  offset other than UTC, or a number in `change_summary` or `metadata` that JSONB changes:
  `append_event` hashes Python values (`append.py:49`), so `1e16` is hashed as `1e+16` and
  read back as an integer, and `-0.0` loses its sign.
* `HashVouchesForPast` is less than the repository's README says (`README.md:39-41`: any
  tampering is detectable by recomputing the chain). `verify_chain` covers neither the
  columns outside the payload (`severity`, `origin_*`, `actor_display_name`,
  `received_at`) nor rows missing at the end, and never consults `chain_head`; whoever
  rewrites the last rows together with their hashes is not reported either. Somebody who
  has kept the hash of an acknowledgement can tell, if a row with that hash is stored.
* `NothingVanishes` lets an event collide after a restart: `New` (`agent/queue/queue.go:51`)
  seeds the counter with the file count plus nanoseconds modulo one million, which may be
  below names already present, though its comment (`:49`) wants no collision after a
  restart; `os.WriteFile` then replaces a queued event. It also counts a batch dropped on
  a 4xx as accounted for; a 429 from `global_rate_limit` is one (`shipper.go:143`).
* `FirstCopiesInOrder` holds within one start of the agent: after restarts a later event
  can get a smaller file name.
* `QueueDrains` exempts queues with an unstorable event: one that PostgreSQL refuses
  fails its whole batch with a 500, every time (`agent.py:358`), until it is seven days old.

Accounts, limits and tenants:

* `SessionsAccountedFor` exempts logins that overlapped the change: a login that verified
  the old password before the change commits its session after it (`auth.py:105`).
* `LastAdminsClash`: two admins who demote or block each other at once both pass the check
  (`users.py:67`, `:97`) and leave no active admin.
* `WindowExact` lets a full table refuse new keys: aged entries of keys that never return
  keep their place (`rate_limit.py:32`).
* `SchedulesBelongToRequests`: cancelling a deletion leaves `scheduled_deletion_at`
  (`account.py:74`), which the staff then see beside the next request.
* `ActiveIsAccountedFor`: `is_active` has three owners and the last handler to write wins:
  a cancellation reactivates a tenant the staff had suspended, a webhook overrides a
  suspension, a late webhook a newer one (`paddle_service.py:118`), and a value equal to
  the one read is not written at all, so that a suspension can be lost to an activation
  it overlapped (`staff.py:133`).
* `DangerZoneAgrees`: with billing configured the request suspends the tenant, and the 402
  of `deps.py:92` then refuses the admin's profile and the cancellation: the page offers
  to delete a tenant that is waiting for it, and only the staff can take the request back.
* `ErasureIsJustified`: an approval that read the request just before its cancellation
  commits erases the tenant all the same (`staff.py:869`). Sessions, acknowledgements and
  deletion requests refer to users without ON DELETE, so erasure fails while any such row
  is left, an expired session included (`staff.py:845`; `staff.py:485` has the same shape).

The front ends:

* `SettledScreenIsCurrent`: overlapping requests about the same rows may leave the older
  answer on the screen (`frontend/.../admin/users/page.tsx:85`); an error hides the list of
  `alerts` until the page is opened anew (`alerts/page.tsx:77`).
* `NoDoubleSend`: one `loadingId` serves all rows, and the second row's answer frees the
  first row's buttons (`admin/users/page.tsx:132`); the keyboard's way to a handler checks
  no flag (`staff-portal/.../tenants/[id]/page.tsx:303`, `deletion-requests/page.tsx:199`).
* `SecretsStayUntilRead`: a click outside the dialog closes it while its key is being
  created (`admin/api-keys/page.tsx:107`); of that key and the next one, the one answered
  last replaces the other, copied or not (`:279`).
* `ScreenAnswersTheQuestion`: requests that overlap may leave the answer to an earlier
  question; investigations and exports are headed by what is in the input
  (`investigate/page.tsx:65`); notes posted while another tenant is selected are drawn
  under its name (`support/page.tsx:47`).
* `PollingCatchesUp`: the live feed is silenced by an answer to other filters with a
  higher sequence number (`events/page.tsx:50`) and hidden by a failed search (`:42`).
* `ShownAccountIsAnswered`: the two front ends share a cookie; a sign-in on one, even one
  the staff portal denies (`login/page.tsx:38`), changes who the other acts as. Within one
  front end two sign-ins that cross leave the marker of one with the cookie of the other: the cookie is stored
  with the headers, the marker set after the body is read (`lib/api-client.ts:23-36`,
  `login/page.tsx:37-43`).
* `SignedOutMeansNoSession`: a logout request that fails is ignored (`Sidebar.tsx:125`); a
  wrong password for a staff decision is 401 and clears the marker
  (`deletion-requests/page.tsx:77`); so does a late 401 to a request of an earlier session
  (`lib/api-client.ts:26`). A front end refused while its user was suspended by the staff
  has forgotten a sign-in that is valid again after activation (`staff.py:528`,
  `user_service.py:112`). A sign-in heard while another tab's sign-out waits to clear the
  marker is left without one.

## 6. Not modelled

`components` in `PROJECT.json` lists every part with its reason. In short:

* Read-only views (statistics, graphs, prompts), demo data, migrations, charts and pages
  that load once hold no protocol of their own; the collectors and the tray are
  operating-system I/O that ends in Enqueue; whistleblower reports and the intrusion log
  are appends of the ledger with other payloads.
* Agent registration and heartbeat, and the source two agents of one tenant may create at
  once (`agent.py:191`): the loser's batch fails and is retried, which `AgentDelivery` has
  as a failing backend.
* Sign-up's two commits (`signup.py:67`): what a crash between them leaves is a tenant
  nobody can log in to, in which nothing else happens.
* Limits checked without a lock: 20 API keys (`api_keys.py:121`), the last staff admin
  (`staff.py:494`). The pattern is `UserAccounts`' `CheckTarget`; the consequence is the
  sentence itself.
* Deleting a note on the staff portal's support page: `SearchPages` only adds records. The
  notes of a tenant's own page, deletion included, are a table of `StaffTables`.
* The alerts' window buckets (`alert_service.py:6`) and the GeoIP cache, cleared as a whole
  at its cap (`geoip_service.py:78`): an early loss costs an alert acknowledged again, or a
  lookup.
* Collisions of SHA-256, clocks that run backwards and more than one tenant are abstracted
  away as described above.

## 7. Plan

Order: what the product promises first, then what administers it, then what shows it.

1. `AppendOnlyLog`, `Ledger`, `LedgerStorageEdits` and their proofs (done).
2. `AgentQueue`, `AgentDelivery` and their proofs (done).
3. `SignatureRegister`, `DeletionApproval`, `UserAccounts`, `RateLimiter` and their proofs (done).
4. `TenantLifecycle`, `SignIn`, `TablePages`, `SearchPages` and their proofs (done).
5. Theorems about the pages (done): no safety property of a run is left unproved.
6. Left to model, with less to gain: registration and the agent's own source, staff
   accounts with their sessions, sign-up's two commits, billing plans.
