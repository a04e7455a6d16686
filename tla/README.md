# A specification of the SpendGraph AI API (Expensea)

`src/apps/api` is a FastAPI service and a worker process over one PostgreSQL
database. It collects financial events from connectors and notes, lets a
language model propose how to read a note, lets the owner review the proposals,
and keeps a canonical ledger in which every payment appears once. The modules in
this directory specify the parts of it whose correctness depends on the order in
which several actors work: requests, workers, connectors and crashes.

The reference is the code. All paths below are relative to `src/apps/api/app`
unless they start with `docs/`.

## 1. The system

| Component | State | Operations | Interaction |
|---|---|---|---|
| **Job queue** `jobs/repository.py`, `jobs/service.py`, `models/job.py` | table `jobs`: status, attempts, review_retries, lease columns, payload, result | enqueue, claim (with recovery of lapsed leases), finish, review_retry, cancel | requests and workers meet only in the table; `ADMISSION_LOCK` serializes enqueue, review and claim |
| **Worker** `jobs/worker.py` | none that survives it: slots of asyncio tasks | poll, claim, extract under a timeout, finish | calls proposal extraction for the job's raw event |
| **Ingestion** `ingestion/` | `source_connections` (cursor), `raw_events`, `raw_event_processing`, `normalized_financial_events`, `evidence` | sync a connector page, ingest one envelope, mark failed | each postable event goes through reconciliation in the same transaction |
| **Proposal review** `ai/proposal_service.py` | `financial_event_proposals` | extract, approve, reject | approving a transaction goes through reconciliation; other kinds create obligations and recurring payments |
| **Reconciliation** `reconciliation/` | `reconciliation_cases`, insert-only `reconciliation_actions`; moves `evidence` | reconcile (merge, flag or create), merge, keep_separate, unmerge | one advisory lock per owner; completes raw event and proposal |
| **Ledger** `ledger/service.py` | `transactions`, merchants, categories | create, list by keyset pages, summarize | written by the owner, by ingestion, by approvals and by recurring payments |
| **Obligations** `ledger/obligation_*` | receivables, payables, settlements, people | create, settle, cancel, totals | row lock of the obligation |
| **Recurring payments** `ledger/recurring_*` | `recurring_payments` | create, pause, resume, end, record due occurrence | row lock; writes an expense |
| **Categorization** `categorization/` | rules, merchant map, corrections | classify, correct, create rule | read by every posting |
| **Gmail connection** `connections/router.py` | `gmail_credentials`, `source_connections` | start, callback, refresh, sync, disconnect | holds the credential row through provider calls; syncs ingestion |
| **Authentication** `auth/` | `auth_sessions`, `oauth_states` | login, callback, logout | one-time states shared with the Gmail connection |
| **Connectors** `connectors/` | none | fetch, normalize | Gmail, Keep and manual notes yield text events; CSV and the mock yield complete ones |
| **AI extraction** `ai/extraction.py`, `ai/retrying.py` | none | prompt, validate, retry | called by proposal extraction, outside any transaction |
| **Grounded agent** `agent/` | a count of running questions | ask: route, choose a tool, authorize, read | reads the ledger services; its model may only name a tool |
| **Analytics** `analytics/` | none | monthly report with insights | four statements over the ledger |
| **GraphQL, HTTP, configuration, observability** | none of their own | delegate | |
| **Web client** `src/apps/web` | browser state | | uses the API |

### What is hard, and what makes each part correct

* **Job queue.** A worker may die, stall or lose its connection at any point; its
  lease then lapses and somebody else recovers the row while the first worker may
  still be running (a *zombie*). Correct means: a zombie changes nothing any more;
  rows in `running` never exceed `JOBS_CONCURRENCY` over all processes; admission
  limits hold under concurrent requests; a job has one effect (one proposal); its
  note stays as long as it may be needed and no longer; every job ends; none
  starves.
* **Ingestion, review, reconciliation.** One payment reaches the system as an
  e-mail, a note, a bank line and a manual entry, in any order and concurrently.
  Correct means: one canonical transaction per event; no duplicate created because
  two deliveries did not see each other; case, evidence, proposal, raw event and
  audit trail always tell the same story; the two lock orders of the code never
  meet in a cycle.
* **Ingestion sync.** The cursor is read before a page and written after it, with
  no lock in between; pages are processed event by event. Correct means: no event
  between two cursors is lost, whatever fails or overlaps.
* **Gmail connection.** A provider that rotates and revokes tokens, a callback in
  flight while the owner disconnects, a timeout that rolls the rotated token back.
  Correct means: a disconnect is final for everything begun before it, and at most
  one Gmail source is active.
* **Obligations, recurring payments.** Concurrent settlements, retried recordings,
  calendar arithmetic. Correct means: settled sums and statuses agree and never
  exceed the principal; an occurrence is recorded once; dates only move forward.
* **Categorization.** Precedence of the four sources; corrections racing postings.

* **AI extraction, proposals.** A provider that fails, rejects or hangs inside a
  leased job; answers that come late or twice. Correct means: the timeout ends an
  attempt before its lease does; the two bounded retries bound the calls; the first
  answer is the one reviewed; a gap in it blocks approval and is shown.
* **Authentication.** First logins of one subject racing each other, logins racing
  logouts and expiry. Correct means: one user per subject and no row left behind; a
  session belongs to the subject it was made for and does not outlive the next
  login of its browser.
* **Agent, analytics, ledger views.** They write nothing, but they read in several
  statements, between which rows, days and sessions change. Correct means: the parts
  of one answer agree; a session that ended reads no more; a claim rests on what it
  names.
* **Connectors.** Limits are written in several files, identity and content in two
  hashes. Correct means: what is accepted can be normalized; what is delivered again
  is replayed and what only looks equal is not.

`PROJECT.json` lists these hazards at their lines, with the properties that
cover them.

## 2. The modules

```
Jobs ──────┬── JobsOrder        (history variable for fairness among rows)
           ├── JobsRefinement ── INSTANCE JobContract
           └── JobsProofs       (theorems, also about JobsOrder and JobsRefinement)
Reconciliation                  (ingestion, proposals, reconciliation, manual entries)
           └── ReconciliationRefinement ── INSTANCE CanonicalLedger
               └── ReconciliationProofs
Obligations   Calendar ── Recurring   Months ── LedgerViews   Categorization
Insights      Scoring                                  (the ledger's other parts)
Attempts      Proposals                                (extraction and its answer)
GmailConnection   Sync   Connectors                    (sources)
Login         Agent                                    (sign-in, questions)
Orders        the rows of a statement in the order it asks for (LedgerViews, Scoring)

MCJobs, MCJobsContract, MCReconciliation, MCGmailConnection
                                instances of one module
MCLedger    INSTANCE Obligations (Settlements, Exposure), Recurring (Schedules),
            LedgerViews (Summaries, Pages), Categorization (Classification),
            Insights (Report), Scoring (Copies)
MCServices  INSTANCE Login (SignIn), Sync (Mailbox), Agent (Asking),
            Attempts (Extraction), Proposals (Review), Connectors (Delivery)
MCLiveness  INSTANCE GmailConnection, Sync (twice), Agent

Sums                lemmas about sums over finite sets, smallest elements, orders
GmailProofs         EXTENDS MCGmailConnection (its constants are still parameters)
ServicesProofs      EXTENDS MCServices, Sums
ObligationsProofs   EXTENDS Obligations, Sums
ViewsProofs         EXTENDS MCLedger, Sums
LedgerProofs        EXTENDS ViewsProofs, INSTANCE ObligationsProofs (twice)
```

### Jobs

One record of columns per row (`job`), what each worker slot and each API request
is doing (`slot`, `request`), the admission lock, and the proposals the jobs
produce. Rows are named by owner and idempotency key, so a replayed enqueue finds
its row. Correspondence:

| Actions | Code |
|---|---|
| `EnqueueBegin/Commit`, `ReviewBegin/Commit`, `CancelBegin/Commit` | `JobRepository.enqueue`, `review_retry`, `cancel` as called by `JobService` |
| `ClaimBegin`, `ClaimCommit` (`Recovered`, `ClaimRow`, `ClaimNothing`) | `JobRepository.claim`: recovery of lapsed rows, count, `FOR UPDATE SKIP LOCKED`, update |
| `SubmitCheck`, `Persist`, `ExtractFails` | `JobWorker._execute` → `submit_manual_note` → `extract_raw_event` |
| `FinishBegin`, `FinishCommit` | `JobRepository.finish`: the clock is read, then the row is locked and checked |
| `Abandon` | death of the process, an uncaught error, a failed finish |
| `LeaseExpires`, `BackoffEnds` | time passing |

A transaction is split where the code decides on something it read earlier: the
counts under the admission lock and the later write, the clock and the later row
lock. Requests that are refused (404, 409, 429) and replays change nothing and
are not actions; an API process that dies inside a transaction rolls it back, which
is again no step. Abstractions: a uuid token is the name of the slot that received
it (tokens are only compared, and a slot holds one lease); `available_at <= now`
is membership of `due`, and the order of `available_at` is the order in which rows
became due; a lease may lapse at any time, so nothing rests on
`lease_seconds > timeout_seconds + 5` (what that buys is in `Attempts`). The proposal of a
job is a variable of its own because a zombie
may store one for a job that was cancelled meanwhile; the code allows that.

### JobContract, JobsRefinement, JobsOrder

`JobContract` is what a caller of the API may rely on: a bounded pool of open
tasks, at most one effect per task, an effect shown for each task reported done,
outcomes that stay, bounded reviews. `JobsRefinement` maps rows to tasks and
states that `Jobs` implements it. `JobsOrder` adds a counter of how often a claim
preferred another row to one that was due.

### Reconciliation

One owner's events from arrival to ledger. `raw`, `proposal`, `case`, `evidence`
and `trail` are the rows kept per raw event; `txn` is the ledger, reduced to the
content each transaction was created from; `session` is what each database session
does. Every operation is one transaction that takes its locks step by step
(`Acquire`), checks under each what the code checks once it holds it (`Passes`),
and writes everything in one commit, or rolls back at any point (`Rollback`: a
refusal, an error, a lost connection, a crash). `Plan` gives the locks in the
order of the code:

| Operation | Code | Locks |
|---|---|---|
| `post` | `_process_normalized` → `reconcile_transaction` | processing row, advisory lock |
| `park`, `fail` | `_post_or_queue_review`, `_mark_failed` | processing row |
| `extract` | `extract_raw_event` → `create_or_get` | key of the new proposal, processing row |
| `approve` | `FinancialProposalService.approve` | proposal, processing row, advisory lock (transactions only) |
| `reject` | `FinancialProposalService.reject` | proposal, processing row |
| `merge`, `keep` | `ReconciliationService.merge`, `keep_separate` | advisory lock, processing row, proposal if it is under reconciliation |
| `unmerge` | `ReconciliationService.unmerge` | advisory lock, proposal if it is approved |
| `EnterManually` | `LedgerService.create_transaction` | none |

Abstractions: the score of an event and a candidate is a constant relation
`Likeness` to the decision it leads to (not symmetric, because
`SequenceMatcher.ratio` is not), and `SameRef` says which events share a typed
payment identifier together with amount, currency and type. Which of several
candidates with the same decision scores best is left open. The limit of 20
candidates is not reached. Case and candidate rows are locked only by holders of
the advisory lock, so these locks never wait. `RawEventState.NORMALIZED` is set
and left in one transaction and is never visible; `TypeOK` states that. The same
raw event is never both posted by its connector and proposed by the model: the
connectors that ship text (`extraction_text`) normalize it to kind `unknown`, and
those that ship complete events have no text. That is a fact about
`connectors/`, and it is why one case per raw event is enough.

### CanonicalLedger, ReconciliationRefinement

`CanonicalLedger` is what an owner may rely on: each event ends on one transaction,
its own or one that was there; a doubtful one waits; only a split moves an event,
once, and it moves no other event's evidence; transactions are only added.
`ReconciliationRefinement` maps the status of a case to that fate, the evidence row
to the posting, and states that `Reconciliation` implements it. The safety
properties in `Reconciliation` say what the refinement does not: that the rows of
one event agree (`Agreement`), that the audit trail replays (`AuditReplays`), that
resembling events are compared (`NoUnseenDuplicate`), that nobody waits in a circle
(`NoDeadlock`).

### Attempts

One job's attempts on a clock: what the durations of `JobsSettings` (`jobs/config.py`)
buy. `Poll` is `JobRepository.claim` for this row, `Begin`, `Store` and `Ends` are
`JobWorker._execute`, `FailsForNow`, `CallAgain`, `Rejects` and `Fails` the loop of
`RetryingStructuredProvider`, `TimesOut` the worker's `asyncio.timeout`, `Finish`
`JobRepository.finish`, `Die` and `Restart` a process that ends and is started again.
`Tick` may pass only as far as a step that does not wait is allowed to lag (`Stall`),
a poll to be away (`Gap`), or a timer to fire. The five seconds of
`lease_exceeds_timeout` are `Margin`, and the module assumes `3 * Stall <= Margin`:
three steps lie between the claim and the timer, and between the timer and the end.
`Jobs` assumes nothing about durations and is safe when a lease lapses under a working
slot; `Attempts` shows that with the accepted settings this does not happen to a slot
that lives.

### Proposals

One raw event, the answers its extractions bring and the proposal kept of the first.
`SchemaValid` is the output schema, `Reasons` is `_review_reasons` of
`ai/extraction.py`, `Extracted` is `create_or_get` with the state it writes,
`Approve`, `Resolve` and `Reject` are `FinancialProposalService.approve`, the end of a
reconciliation, and `reject`. `Approvable` collects what approval insists on:
the checks of `_approve_obligation` and `_approve_recurring`, and those of the commands
they build (`parse_create_person`, `parse_create_obligation`), with the owner's local
date. Which row an approval creates is its target; the rows are in the modules below.

### Obligations

`row` is the two obligation tables, `settled` the sum of the settlement rows, `session`
what each request is doing. `AskSettle`/`AskCancel` read the owner's date, `Lock` waits
for `FOR UPDATE`, `Sum` is the second statement, `Settle` and `Cancel` validate and
write with what they read, `Rollback` is every refusal, error or lost connection.
`receipt` keeps the last view a settlement returned, because a client sees it after
the transaction is over.

### Calendar, Recurring

`Calendar` is `datetime.date` and `calendar.monthrange`; `Advance` in `Recurring` is
`advance_expected_date`. `AskRecord`, `Lock`, `Record` and `Transition` are
`record_due_payment` and `transition_status` under the row lock; a recording carries the
date its client saw (`expected_date`), which is how a retry is told from a new
request. `Upcoming` is the window of `upcoming_totals`.

### Months, LedgerViews

`Months` converts local month midnights to UTC as `periods.py` does, with a zone
abstracted to one change of offset: `Utc` is `astimezone` with `fold=0`. `LedgerViews`
has the repository's statements (`CategoryTotal`, `MerchantTotal`, `MonthTotal`,
`Spent`), the service's views of them (`FinancialSummary`, `SpendingByCategory`,
`SpendingByMerchant`, `MonthlySpending`), and keyset pages: `ReadPage` reads one page
behind the cursor of the last row, between arbitrary `Post` and `Recategorize`. Rows in
the order of a statement are `InOrder` of `Orders`: the k-th row is the one with k - 1
before it, so that nothing has to be sorted to be reasoned about.

### Categorization

`Classify` reads one layer per step (`user_rule`, `merchant_map`,
`verified_correction`, `retrieval`, then the model's hint), `Insert` posts with what
was found. `LockTransaction` and `Correct` are `CategorizationService.correct` with
history, assignment and merchant map in one commit. A correction carries the time its
transaction began (`created_at` is `now()`), which is not the order of commits:
`Newest` reads by the former, the chain of corrections is built by the latter.
`StrongerEvidenceWins` counts as evidence what rules, merchant and exact corrections said
when the posting began (`Evidence`). What retrieval said then may be gone when it is read:
a further correction of a similar description leaves the best scores divided, and the
code then takes none of them.

### GmailConnection

The credential row, the OAuth states, the source connections, and the requests that
meet on them: `Connect`/`StoreState`, `Consume`/`Exchange`/`StoreGrant` (the callback:
the state is deleted, the code exchanged outside any transaction, the grant stored),
`Lock` … `SyncOk` (refresh and sync in one transaction held to its end), `Timeout`,
`MarkTimeout` (the handler's transaction of its own), `LockToLeave` … `Disconnect`.
Google is external: it accepts the tokens in `valid`, may rotate a refresh token
whenever it is used, and the owner may revoke there.

### Login

`Begin` … `Respond` is one attempt: the browser goes to the provider, the callback
claims its state, checks the ID token, and in one transaction finds or inserts user and
identity and replaces the session. `InsertIdentity` waits for a concurrent insert of
the same subject (the unique index), and then loses its savepoint. `Expire`,
`AskLogout` and `Logout` may come anywhere.

### Sync, Connectors

`Sync` is `sync_connector` with the Gmail connector: `Start` reads the cursor, `List`
and `Read` fetch, `StoreRaw` and `Process` ingest one message each in transactions of
their own, `Advance` writes the cursor, `Fault` is any failure. What a sync has still to
do is a set of positions of its page, worked off from the smallest. The mailbox is
external: messages arrive at the front and are deleted anywhere, so positions shift
under a page token. `Connectors` is what becomes of one document: the limits of each
connector (`Refused`, `Ignored`, `Payload`, `KeepLabels`), identity and content
(`Identity`, `Content`), and the validation of the normalized event (`ValidEvent`).
Lengths are scaled down with their order kept. `stored` and `state` have a row for each
identity that has come, as the tables have. An event whose title the validation rejects
leaves its row in `received` (`StateAfter`). A state change of the raw event that
`Sync` takes as one outcome is explained by `Connectors`.

### Insights, Scoring

`Insights` is a report of four statements (`ReadCurrent`, `ReadPrevious`,
`ReadHistory`, `ReadOverdue`), between which rows are posted and recategorized,
receivables closed and midnight passes, and the pure rules of
`analytics/calculations.py` over what they read. `Scoring` is the lookup and the choice
of a candidate (`Temporal`, `Exact`, `Joined`, `Score`, `Reconciled`), which
`Reconciliation` takes as a constant. Rows with one identifier are read in any order,
since no `ORDER BY` settles it; `Others` are the candidates of the window that the lookup by
identifier has not found. `CopyMerges` supposes that no more rows than the limit are of the
very instant of the event: `reconciliation/repository.py:77-88` orders them by distance and then by id,
and may cut off the copy. One corner is left by `OrderIsNoMatter`'s statement
being about the decision as a whole: among several candidates with a perfect score,
one that shares no identifier may be chosen before the one that does, by its smaller
uuid; both merge.

### Agent

`Ask` admits or refuses at once, `Route` is `routing.py`, `Choose` the model, which may
only name a tool, `Authorize` looks the session up again before every read, `Read` is
one call of a service, `Timeout` the `asyncio.timeout` around all of it. A relationship
question and one about recurring payments read twice. A question is what the patterns
find in it; that one about an unserved period names no tool is `unsupported_period` of
`agent/routing.py`, and an assumption on `Questions`.

### The composites MCLedger, MCServices, MCLiveness

At this abstraction their components share no variable that one of them decides on:
an obligation's row lock, a mailbox cursor and a session cookie do not meet. Each
behaviour therefore is one of a single component (`part`), and the others stay in an
initial state; the sum of their state spaces is explored, not the product. A component
that needs different bounds for two questions appears twice, under two names. The values of
all their constants are in the configuration, so that the constants of a composite are as
general as those of its components. A group property
(`ObligationsHold`, `SchedulesHold`, `ViewsAgree`, `CategoriesHold`, `ReportsHold`,
`CopiesAreFound`, `LoginsHold`, `SyncsKeepAll`, `QuestionsAreGuarded`,
`ExtractionsHold`, `DeliveriesHold`, `GrantsHold`) conjoins the properties stated and
explained one by one in the component's module, and every conjunct has a mutant of its
own. Assumptions of an instanced module are plain definitions, checked by
`LedgerAssumptions`, `ServicesAssumptions` and `LivenessAssumptions`.

## 3. What is checked

| Run | Question | Bounds |
|---|---|---|
| `jobs_lifecycle` | fence, concurrency, note, result, finality | 2 jobs, 1 owner, 2 slots, 2 requests, concurrency 1, 2 attempts, 1 review |
| `jobs_capacity` | admission limits under racing requests and workers | 3 jobs, 2 owners, limits 2 and 1, 1 attempt |
| `jobs_liveness` | every job ends | 2 jobs, 2 slots, 1 request, 2 attempts |
| `jobs_contract` | `Jobs` implements `JobContract`; a waiting row is not starved | 2 jobs, 2 slots, concurrency 2, 1 request, 2 attempts, 1 review |
| `reconciliation_duplicates` | one posting per event, agreement of all rows, audit trail | 3 events (a note, two complete ones), 1 manual content, 4 transactions, 2 sessions |
| `reconciliation_sessions` | no deadlock, no unseen duplicate, `Reconciliation` implements `CanonicalLedger` | 3 mutually similar events (two notes), 3 sessions, 3 transactions |
| `gmail_requests` | tombstones, one redemption, one active account, a usable token | 2 consents, callbacks, operations, disconnects and accounts, 2 refresh tokens per consent |
| `ledger` | obligations, schedules, views, categories, reports, search for copies | see below |
| `services` | sign-in, syncs, questions, extraction attempts, proposals, deliveries | see below |
| `liveness` | a disconnect is answered, a mailbox ingested, a question ended | see below |
| `gmail_resurrected` | a violation: see *Departures* | 2 consents and callbacks, 1 disconnect |

Why the bounds suffice to meet the hard cases.

* *Jobs*: two slots under a concurrency of one give a zombie and a successor on one
  row; two attempts give expiry on the last attempt as well as before it; one review
  restarts a dead letter whose zombie still lives; two open requests give a cancel
  against a review and two enqueues for one free place; three rows of two owners
  separate the global from the owner limit.
* *Reconciliation*: three events give a third party whose candidate is a merge of two
  others, a shared identifier that moves with an unmerge, and two notes approved while
  a third event is posted; each event needs at most one transaction of its own
  (`OnePosting`), so three events need three and the fourth is the manual one; three
  sessions allow waiting cycles of length two and three.
* *Gmail*: two of everything gives a callback that began before a disconnect and one
  after it, a sync against a refresh, and a rotated token dropped by a timeout.
* *Ledger*: two sessions on one obligation of up to 3 units in two currencies, so that
  two payments may each fit and together not, and midnight in between; two
  obligations, one of each table, for exposure; schedules from the last days of months
  of 28, 29, 30 and 31 days over a leap year, with three recordings; every change of
  offset by one or two ticks near a first midnight; four rows in pages of two with
  inserts anywhere; two corrections of two transactions with one description and one
  merchant; a recall limit of one, so that retrieval overlooks something; a report
  whose rows hold a chain of monthly payments and a payment that breaks it, a refund,
  one large expense, and a change between any two statements; candidate sets of three
  with a limit of two, a row that does not match, and policies that are not accepted.
* *Services*: three logins of two subjects in two browsers; three messages in pages of
  two, one of them malformed and one that no row can hold, two syncs and one fault;
  three questions for two slots; every accepted lease and timeout up to 6 and 2 with
  three attempts of two calls and
  polls two ticks apart, so that a lease may lapse, a job fall due or a process die right
  after one; every answer a model can give, as far as its fields
  matter, brought by two extractions.
  Deliveries: each limit of a connector (1 to 3) has lengths below, at and above it (0 to
  4), each list of labels one entry too many; three deliveries give a document, another
  one with its identity, and the first again.
* *Liveness*: an operation on the row when the owner disconnects and another in the
  queue; two overlapping syncs of two pages, and one sync over three; two questions for
  one slot.

No run has a state constraint: attempts and reviews are bounded by the code; what the
code does not bound (deliveries, faults, recordings, amounts, changes during a report)
is bounded by a named constant in a guard, and every other operation is made
impossible by the states of the rows. Slots, requests, sessions and other identities
that are only compared are declared symmetric in the safety runs, never in the runs
with liveness properties, and not where an identity is ordered or has a role of its
own.

`CHECK_DEADLOCK FALSE` in all runs but those of the jobs: each request, delivery or
message is made once, and when all have been answered nothing is left to do. Whether
sessions wait for each other in a circle is the invariant `NoDeadlock`; that requests
end is the business of `liveness`.

### Fairness

*Jobs.* `Fairness` assumes weak fairness of each step the code is bound to take: time
passes (leases lapse, backoffs end), an open transaction ends, slots that live
keep polling (`JobWorker.run` loops for ever and compose restarts the process),
and a slot with a lease gets on to its end. There is no fairness on `Abandon`,
on requests, or on a slot surviving: a slot may die after every single claim, and
the bounded attempts end the job all the same.

*Gmail.* Weak fairness of `Timeout` and `GiveUp` of each operation and of the steps of
a disconnect: `asyncio.timeout` surrounds an operation, the HTTP client has limits of
its own, and PostgreSQL grants a row lock when it is free. Nothing is assumed about
Google answering. *Sync.* Weak fairness of `Start` and `Step`: the owner
goes on asking for syncs, and a sync that runs takes its next step,
which may be a failure of the process only within `MaxFaults` (none in this run; what a
failure leaves behind is in `SyncsKeepAll`). A message with content that no row can
hold is left out of `EverythingIsIngested`, see *Departures*. *Agent.* Weak fairness of
`Timeout` alone.

### Mutants

Next to a definition stands, where it helps, a mutated form marked `mutant:`: a
plausible mistake in that code (a dropped fence, a missing lock, a recovery
statement that is lost, an audit entry written too late). Each property is
violated by one of them, listed in `PROJECT.json`; they are used by no other
definition.

### Departures

Places where the code does not do what a line of the repository says of it. The first
is a run; the others were met while modelling, and the instances above leave the case
out or the property names it.

* `connections/router.py:182`, run `gmail_resurrected`. A callback accepts its grant
  while `disconnected_at` is NULL; `docs/security.md:102` says that the tombstone
  "prevents an already exchanging callback from resurrecting credentials". The owner
  disconnects while callback 1 exchanges its code, and connects again, which clears the
  tombstone; callback 1 then replaces the new grant by the one that was disconnected.
  `TombstoneHolds` is what does hold: nothing lifts a tombstone that still stands but a
  consent begun after it.
* `ledger/periods.py:85`. `month_period` takes the first of two local midnights. Where
  clocks went back across the midnight of the 1st (America/St_Johns, 1 November 2009),
  the hour after it belongs to November by `month_period` and to October by
  `YearMonth.containing` and `date_trunc`. `LedgerAssumptions` admits the zones without
  such a change (`Plain`).
* `ledger/recurring_service.py:206`. A date that is the last of its month is taken for a
  month-end schedule, also when it had been cut: a monthly payment of the 29th goes
  29 January 2023, 28 February, 31 March. The function is said to preserve "safe
  month-end behavior" (`recurring_service.py:192`). `CalendarSteps` says what remains:
  a day up to the 27th is kept, a later one stays behind the 27th.
* `categorization/repository.py:171`. Corrections are listed by the time their
  transaction began, and `docs/phase5-categorization.md:32` calls the history
  "newest-first": of two overlapping corrections the replaced one may come first.
  `LearnsTheLatest` is about corrections that did not overlap.
* `ingestion/service.py:102`. One message that cannot be stored (a NUL character, too
  large) ends every sync at the same place, and the messages behind it stay out, though
  `docs/phase2-ingestion.md:11` expects "hostile content".
* `connectors/google_keep_takeout.py:79`. A title longer than a description may be
  passes the connector and is rejected by the event's validation with an error nobody
  catches; the raw event stays `received`, and each import meets it again.
  `NormalizerAnswers` names this case and says that there is no other.
* `connectors/csv_import.py:218`. A row with the provider's id has a content hash that
  includes the file's hash: the same row in a later, longer export is refused as a
  mismatch, while `README.md:246` promises replay-safe delivery.
* `jobs/worker.py:124`. Every provider error but a disabled provider is retried by the
  queue, also a rejected request; `README.md:123` says that rejection fails immediately.
* `analytics/calculations.py:71`. Percentages are rounded half up before they are
  compared: a rise from 24.5 % counts as "at least 25%"
  (`docs/phase6-analytics.md:24`).
* `ai/extraction.py:268`. `docs/phase2-ingestion.md:101` says unknown required facts
  "add visible review reasons". A transfer without an amount, a recurring payment
  without a merchant, a counterparty between 121 and 160 characters
  (`ledger/obligation_commands.py:55`) and a due date before the local day of the
  obligation (`:79`) are refused at approval without having been flagged; nobody can
  edit a proposal, so it can only be rejected. `GapsAreShown` names these, and says that
  there are no others.
* `ai/proposal_service.py:204`. A late extraction clears or overwrites `last_error_code`
  of an event that has been reviewed meanwhile; no property is about that column.

## 4. What is proved

Every theorem holds for all values of the constants that satisfy the named assumption:
any number of jobs, events, sessions, requests, messages and so on, which TLC checks on
the small instances of section 3. Where no finiteness is listed, the sets may be
infinite. Nothing else is assumed.

| Module | Assumption | Theorems and the properties they state |
|---|---|---|
| `JobsProofs` | `JobsAssumption`: finite sets, an owner for each job, positive limits, `NULL`s that are not values | `Invariance`; `Typed` (`TypeOK`), `Fence` (`LeaseIsLatest`), `Fenced` (`FencedCompletion`), `NoteKept` (`PayloadKeptWhileNeeded`), `ResultShown` (`ResultIsTheProposal`), `ConcurrencyBounded` (`BoundedConcurrency`), `QueueBounded` (`BoundedQueue`), `ProposalFinal` (`ProposalIsFinal`), `SettledFinal` (`SettledIsFinal`), `BypassBounded` (`BoundedBypass`), `ContractHolds` (`ImplementsContract`) |
| `ReconciliationProofs` | `ReconciliationAssumption`: a shared identifier is shared both ways; `NULL`s that are not values | `Invariance`; `Typed` (`TypeOK`), `OnePosted` (`OnePosting`), `Agrees` (`Agreement`), `Replays` (`AuditReplays`), `DuplicatesSeen` (`NoUnseenDuplicate`), `NeverDeadlocked` (`NoDeadlock`), `Implements` (`ImplementsLedger`) |
| `GmailProofs` | `GmailAssumption`: a positive bound on rotations, operations that are no disconnects, a `NULL` that is no value | `Invariance`; `Typed` (`TypeOK`), `Grants` (`GrantsHold`), `Usable` (`UsableUnlessDropped`), `Tombstones` (`TombstoneHolds`) |
| `ObligationsProofs` | `ObligationsAssumption`: some obligation and some currency, each obligation a receivable or a payable, positive bounds | `Invariance`, `Typed`, `StatusTells`, `Terminal`, `Receipts`, `Lateness`, `Exposing` |
| `LedgerProofs` | `LedgerAssumptions`: those of the components; plain zones | `ObligationsKept` (`ObligationsHold`), `SchedulesKept` (`SchedulesHold`), `CategoriesKept` (`CategoriesHold`), `LedgerTyped` (`TypeOK`) |
| `ViewsProofs` | `LedgerAssumptions` | `ViewsKept` (`ViewsAgree`), `ReportsKept` (`ReportsHold`), `CopiesKept` (`CopiesAreFound`) |
| `ServicesProofs` | `ServicesAssumptions`: those of the components | `Logins` (`LoginsHold`), `Syncs` (`SyncsKeepAll`), `Guarded` (`QuestionsAreGuarded`), `Extractions` (`ExtractionsHold`), `Deliveries` (`DeliveriesHold`), `ServicesTyped` (`TypeOK`), and the theorems about each component |

What the components of the two composites assume is what their code or its settings
guarantee: durations, limits and page sizes are positive and fit together as the settings
are validated (`Valid` of `Attempts` and of `Scoring`, whose policies are those accepted);
ids name one row; rows, where they are added up, are finitely many; similarities are
percentages; and a `None` is no value. The window of dates, the number of months and the
number of changes are any numbers; every date of the Gregorian calendar is one that a
schedule may have.

### The arguments

*Jobs.* None of the properties is inductive alone. A finish may complete a
row only because a slot that is past its claim works on a row whose token, if it is
the slot's, was written by that very claim (`TokenInv`); a result can be shown only
because a slot carries a proposal that was stored and that nobody replaces
(`SlotInv`, `ResultInv`); a request commits what it decided earlier only because it
still holds the admission lock or the row it locked (`RequestInv`). `GoodRow` says
what a row satisfies by itself. It is preserved by each of the six row updates
(`EnqueuedRow`, `ReviewedRow`, `CancelledRow`, `RecoveredRow`, `ClaimedRow`,
`FinishedRow`), so each action only has to show which rows it updates and how. The
conjunction `IInv` is inductive (`InitInv`, `Induction`). The bounds need a second
invariant, `BoundInv`, relative to the first: whoever holds the admission lock with
the intention to add has seen room (`CapacityInv`), and nobody else can add
(`AddBound`, `ClaimBound`); all other steps shrink the counted sets or leave them
alone (`BoundsStay`). The refinement of `JobContract` maps each row update to one step of
the contract (a claim to giving up the rows it buries, a finish to completing or giving
up, an enqueue to accepting); what is open there is what is pending here, so that the
bounds carry over. `BoundedBypass` rests on two facts about the order in which rows fall
due: it is total (`DueInv`), and a claim under way, which may know less than is due by now,
knows the front of it (`RipeInv`). So a row that is preferred was ahead of the one it
bypassed, and the number of rows ahead and that of bypasses stay below the number of jobs
together (`BypassInv`).

*Reconciliation.* `IInv` says who holds which locks (`Exclusive`, `HeldShape`), and that
what a session has checked under its locks is still so (`SessionsOK`): the states of the
rows whose locks it has, and, once it has the owner's lock, that its verdict is the one
the ledger of that moment calls for. Under the lock of another nobody writes what a
session relies on, so a step of one session leaves the rows and the verdicts of
the others alone. The proof of a commit is therefore that the new rows of its own event
fit together (`RowsOK`, `PostingOK`, `Agreement`, `AuditReplays`). `NoUnseenDuplicate` is
inductive only with the verdicts: two events are posted apart only if the later of them,
under the owner's lock, has seen the earlier one. `NoDeadlock` needs no induction on the
length of a cycle. In any set of sessions, the one with the owner's lock waits for nobody,
or for one that itself waits for nobody (`Against`: when a case can be resolved, only an
extraction that has all it needs may be on the rows of its event); without
it, a session with a processing row waits for none of the others, and without that, one
with a proposal row does not. Every commit is one step of `CanonicalLedger` for its own event,
every other step a stutter.

*Gmail.* An operation that holds the row commits it with the account and the consent it
found there (`Holders`); a grant in a row is never that of a callback on its way, since
its state is deleted with the exchange (`Consents`); and a stored token Google does not
accept is explained by the holder of the row, a stranded consent or one that was revoked
(`Kept`). `TombstoneHolds` is about one step, and needs `IInv` for the consents.

*Obligations.* Two sessions past the row lock of one obligation are one (`LocksApart`),
so the status and the sum that a session read are those of the tables until it commits
(`SessionOK`). The amount it then validates is what is owed at that moment, which gives
`StatusFollowsHistory` and `TerminalIsFinal`. That the last receipt shows what is still
owed (`ReceiptOK`) makes the next one smaller. Exposure is a sum over the rows of one
direction and currency. It is compared with the sum after a step, term by term, for finitely
many rows: only those that exist count, each was opened by a step, and so they stay finitely
many though the set of names may not be (`FiniteTables`, `Exposing`).

*Sign-in.* At most one attempt has inserted the user of a subject without having
committed (`OneCreates`), because the unique index lets others wait; so the users are those of
the identities. A session exists exactly from the commit of its attempt on (`AttemptOK`),
and a cookie names one that exists (`CookiesOK`); a commit deletes the session that its
browser sent.

*Sync.* For a sync that stores, what is relevant on its page is kept or still to be done
(`RunOK`). `Min` removes one position of the page at a time (`MinExists`, from the order
of the naturals being well-founded); when none is left, everything relevant is kept, and
what is kept is never lost, whatever other syncs do: the cursor may move past the page.
`AcceptedOnce` is in `CountOK`: a message is counted in the transaction that accepts it.

*Agent.* `GoodAsk` says, for one question and its session, that only an allowed question
gets as far as a tool, that it has read less than its tool asks for until it is answered,
and that a read made after the session had ended was its last. `SlotsSuffice` counts: a
question enters with room, and all other steps leave the running set alone or shrink it.

*Attempts.* The clock moves on only while no slot is late, so each phase of a slot has an
age it cannot exceed (`Timed`); with the settings accepted, `3 * Stall <= Margin` puts the end
of every phase before the end of the lease. Hence the claim of a slot that lives is
the current one (`Owns`), of which there is one (`OneLive`), which is `NoOverlap` and
`EndsWithinLease`; its calls are those of its attempts (`Budget`). The deadline is a claim about
what will have been done, proved as a claim about what is: a waiting job is polled by
an idle slot, and a running one has a slot that works on it, or one that is down or idle and
back in time to find the lease lapsed (`Waits`, `Recovers`), at times that `Spent` bounds attempt
by attempt. A product of two constants is beyond the provers' linear arithmetic; the
two lemmas that need it (`BudgetGrows`, `SpentGrows`) take one attempt at a time.

*Review.* A row keeps the reasons of its answer, is approved only where `Approvable`
allows it, and has a target exactly when approved (`Reviewed`); the raw event is processed
exactly then. `MissingBlocks` and `GapsAreShown` then are about an answer alone: whatever
`Approvable` asks for and an answer lacks is a reason or one of the gaps that are named.

*Deliveries.* What was normalized is known by its identity and content (`SettledOK`), so its
redelivery can only be replayed; under each identity that is settled something was
normalized (`IdentitiesOK`), so a replayed row without a provider's id has the hash of one
delivered before, and a line of a file reads the same every time (`Readable`). That a label list
leaves at most so many tags, none too long, is an induction over the list, as a smallest place
at which it fails (`CollectKept`); with it `AcceptedIsValid` goes through the sources.

*Schedules.* Under the row lock what a recording read is the row (`ScheduleLocks`), and the next
date of a schedule is the successor of the last one posted, all of which lie before it
(`InStep`). The rest is the calendar: for every rule and every date of every year `Advance` gives a
date that exists, later than the one it follows, in the right month or seven days on
(`LaterMonth`, `LaterWeek`, `Advances`), from the lengths of the months and arithmetic with 12.

*Categories.* Corrections are committed with a time that grows, though they begin in any order
(`CommitOrder`); the merchant map holds the category of the last one committed for it
(`LearnedLast`). A posting that has asked some layers has found nothing there, and what was
known when it began still is: rules, merchants and corrections are only added. So no evidence
is stronger than the layer it asks next (`Evident`, with `Ceiling`), and none than the layer
that answers. The chain of corrections grows at its end, under the lock of the transaction.

*Views.* On a plain clock `Utc` of the first midnights of months ascends, so that every instant
is in exactly one month. The totals by category, by merchant and by month are sums over the
fibres of one finite set of rows, hence the same (`Sums`). A walker has seen rows in
descending order, the cursor is the last of them, and what was there when it began has been
seen or is behind the cursor (`Walks`); a page is a prefix of what is behind the cursor, in
order, and a last page is all of it (`PageRead`).

*Reports.* A statement reads rows of the ledger as it is (`ReadAs`), the ledger only grows, and a
row's day does not change; the history is read after both months and is thus a superset
of their rows, by id (`ReportInv`). The deltas of categories and merchants are differences of
sums over fibres (`SumDifference`). A chain of payments is sound because each of its rows but
the last has a next one (`ChainHolds`).

*Copies.* Rounded scores of accepted policies lie between 0 and the full one, which a shared
identifier and a copy in every respect reach (`EvidenceBounds`, `Scores`). The temporal part of the
lookup is closed under `Nearer` (`TemporalIs`), the rows with a shared identifier come first
(`JoinedSays`), and of the rows found one is best, since the order by score and id is total
(`BestIs`). The five promises follow from what was cut.

*From a component to the run.* A composite instantiates a component with its bounds, and
lets it take its own steps only. The run's specification implies that of the component,
action by action (`SignInSpec`, `ExtractionSpec`, `SchedulesRun` and their likes), so the
component's properties are the run's. Proofs are about the instance of the run itself; only
obligations, of which there are two, have a module of their own (`ObligationsProofs`),
instantiated twice, with lemmas that say that an instance of the component and that of
its proofs are the same (`SettleSpec`, `ExposeSpec`). Nothing depends on the bounds but the
component's assumption.

*Sums and sequences.* The library's induction theorems cannot be used here, since they take
an operator. `Sums` goes by the smallest natural (`Smallest`) or a minimal subset (`Minimal`) for
which a statement fails; the function that a recursive definition chooses is shown to
exist and to be unique (`SumExists`, `SumUnique`), and then to obey the laws of sums. The same
pattern proves what a fold over labels or rows does.

### Only model-checked

Liveness under fairness is out of the proof system's reach: `EveryJobSettles`,
`DisconnectAnswered`, `EverythingIsIngested` and `EveryQuestionEnds` are checked by TLC on the
instances of section 3. `SettledByDeadline` is the bounded form of the first that can be proved,
on a clock, for one job. All the other properties that a passing run checks, type invariants,
safety invariants, action properties and the two refinements, are proved.

## 5. What is not modelled

* *Pure translation*: GraphQL and HTTP types and mappers, the parsing of CSV, JSON,
  MIME and dates, prompts, telemetry and the provider's wire format, formatting and
  rendering. They keep no state; where a limit of theirs matters it is in `Connectors`
  or `Proposals`.
* *Configuration, logging, metrics, redaction*: settings that bound behaviour are
  constants of the modules.
* *How alike two texts are*: `difflib` and the token overlap are constants (`Alike`,
  `Likeness`), and so are the patterns that route a question.
* *Inserts under unique names*: categories, merchants, tags and people. A merchant is
  upserted (`ledger/repository.py:365`) inside a larger transaction; its row lock is a
  leaf, nothing is waited for behind it.
* *The connection pool*: a Gmail operation holds one connection while its connector
  asks for another (`connections/router.py:336`); the pool's own timeout and the
  operation's end every such wait, which `Timeout` stands for.
* *Reads that only read one statement*, the net exposure of two statements, and the way
  a duplicate rule is reported.
* *Google's and the model's inner life*: external; they answer anything they may.
* *Web client, migrations other than the constraints used above, evaluations, seed data
  and scripts*: no protocol of the server rests on them.

## 6. Plan

What would say more about this code, in this order.

1. The chain from a sync to the ledger in one module: `Sync` and `Reconciliation` meet in
   the processing row, which each models for itself. A refinement of `Sync` by the steps of
   `Reconciliation`'s `post` and `park` would replace the argument in section 2 that they
   agree.
2. People, merchants and tags: their inserts under unique names, inside the transactions
   of `Reconciliation` and `Obligations`, with the waits they add to `NoDeadlock`.
3. The GraphQL mutations as the callers of these modules: which of several services one
   request calls, and what is left when the second one refuses.
