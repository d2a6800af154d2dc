# Formal models of the Contamind platform

TLA+ specifications of the parts of the backend (`backend/app`) where several
requests, worker processes and external services meet on the same rows of the
database, with the TLC instances that check them and the TLAPS proofs of what
matters most. Paths below are relative to `backend/app` unless they say
otherwise; ADRs are in `backend/docs/adr`.

## 1. Inventory

The backend is a FastAPI application over SQLAlchemy. Every request opens one
session (`database/__init__.py`), which does not flush before queries
(`autoflush=False`) and is dropped without commit if the request fails. Two
kinds of worker process poll the same database, one job at a time. PostgreSQL
at its default isolation, READ COMMITTED, is the deployed database and SQLite
the development one. Handlers that call a provider or DIAN `await` the network
between loading rows and committing, so other transactions commit in between.

| Component | State | Operations | Interacts with |
|---|---|---|---|
| Provider connections (`services/provider_connection_service.py`) | `company_data_sources`, `provider_credentials` | save, revoke, test, enqueue, synchronise directly | credential store, adapter, sync queue |
| Party sync queue (same service, `workers/provider_sync_worker.py`) | `provider_sync_jobs`, `parties` | claim, load, fetch a page, confirm or fail it | connections (rotation cancels jobs), data sources (upserts) |
| Data sources (`services/data_source_service.py`) | `company_data_sources`, `parties` | create, upsert parties, upload parties | sync queue, imports |
| Bank reconciliation (`services/bank_reconciliation_service.py`) | `bank_transactions`, accounts, balance snapshots | import CSV, suggest, confirm, dismiss, exclude, reopen, verify a balance | payments of manual accounting, treasury |
| DIAN habilitation (`services/dian_electronic_habilitation_service.py`, `workers/dian_electronic_worker.py`) | documents, numbering ranges, outbox jobs, submissions, profile | register a range, upload a signed document, send, query, recover | DIAN web service (`integrations/dian/gateway.py`) |
| Manual accounting, file import (`services/manual_accounting_service.py`, `accounting_file_import_service.py`) | taxes, items, invoices, payments, journals, import batches | idempotent capture, import row by row | read by reconciliation and all analyses |
| Enrichment of the books (`receivables_operations_service.py`, `collection_followup_service.py`, `electronic_invoice_evidence_import_service.py`) | terms, follow-ups, evidence and its audit | update terms, create and update follow-ups, import evidence | captures, analyses |
| Analyses (`accounting_health`, `receivables`, `payables`, `cash_flow`, `treasury`, `exogenous_information`, `electronic_invoicing`, `bank_reconciliation_analysis` services) | none | one report from several queries | agents |
| Chat sessions, agents, workflows (`services/chat_service.py`, `ai/`) | bounded in-memory store with a time to live, `agent_executions` | one message; get, save, evict, expire | analyses, language model |
| Companies, memberships, authentication (`services/company_service.py`, `shared/`, `api/v1/auth.py`, `admin.py`, `company_memberships.py`) | tenants, companies, memberships, users, subscriptions | create within the plan's limit, grant, remove, log in, change password | every API route |
| Provider transport (`providers/transport.py`, `rate_limit.py`, `siigo.py`) | sliding window per company and provider | acquire, request with retries | adapters |
| DIAN acquirer pilot (`services/dian_acquirer_service.py`) | source status, lookups | one audited lookup | credential store, SOAP adapter |
| DIAN artifacts, configuration, migrations, frontend, deployment | none at run time | parsing, signing, wiring | - |

`PROJECT.json` lists the same components with their sources, and under
`hazards` the lines where the interesting failures would bite.

What makes the components correct:

* **Sync queue.** One live job per source; a finished job is never revived; no
  page is skipped however often a job is retried, reclaimed or written by a
  late worker; attempts are bounded; every job ends. **Connections**: active
  means tested with the credential in force; nothing fetched with a replaced
  secret is stored.
* **Reconciliation.** A payment is used once, whatever requests overlap; the
  status and the matched payment of a movement agree; suggestions offer free
  payments; imports do not disturb decisions.
* **DIAN outbox.** A document is transmitted at most once although no answer,
  lease or process is reliable; a number is used again only once DIAN has
  rejected its document; every document is settled or handed
  to a person unless DIAN goes on answering that it is processing it.
* **Capture and import.** A key names one row however requests repeat or
  overlap; a row references only its own company; an upload that stops half way
  or runs twice neither duplicates nor claims what it did not store.
* **Books and reports.** Columns that state one fact together agree; reports
  computed by different queries do not contradict each other; a diagnosis that
  finds nothing is right.
* **Conversations.** Nothing crosses from one conversation, user or company to
  another, unless an anonymous session id is spelled like a company's key; an
  answer is filed with its question; no agent but the treasury's leaves its
  question behind.
* **Companies.** A password change ends the sessions before it; the limit of a
  plan is passed only by requests that overlap or by an owner who gives up a row.
* **Provider calls.** A window is never exceeded, retries are bounded, every call
  ends, and every lookup is audited as it ended.

The hard behaviours are the same everywhere: rows loaded before an `await` and
written after it, leases that expire under a living worker, checks that another
transaction invalidates before the write, crashes between claim and commit, and
answers that are lost.

## 2. Modules

| Module | Models | State |
|---|---|---|
| `ProviderSync` | connections and sync queue | sources with their credential, jobs, one record per worker and per request in flight, how often each page was inserted |
| `BankReconciliation` | statement imports and reviews | committed rows, payments, one open transaction per request with what its session loaded, flushed and locked |
| `DianHabilitation` | numbering, documents, outbox | documents, the active range, jobs, workers, what DIAN holds, transmissions counted |
| `DianSubmissions` | what DIAN is promised, abstractly | the number of each document and DIAN's verdict |
| `AccountingCapture` | captures, file imports and party uploads | committed rows of all tables, requests between look-up and insert, batches |
| `Books` | what captures store, and the updates of stored rows | the tables of one company, audit rows of evidence, requests between load and commit |
| `BooksReports` | every analysis, as operators over `Books` | none of its own |
| `Conversations` | store, chat service, orchestrator, workflows, agents | entries of the store, context objects, messages waiting for the model, executions |
| `Tenancy` | accounts, sessions, tenants, companies, memberships, plans | committed rows, requests in flight |
| `ProviderCalls` | transport, limiter, Siigo page, acquirer lookup | calls, windows, the DIAN source, lookup rows |
| `MC*` | instances for TLC | symmetry sets, small sets of payloads |
| `*Proofs` | theorems and their proofs | - |

`PROJECT.json` maps each definition to the source lines it stands for.

### Conventions shared by the models

* **A transaction is a step.** What a session loaded before an `await` is kept
  in the record of its worker or request. `Written(loaded, new, current)` is
  SQLAlchemy's unit of work: a flush writes a column only if the new value
  differs from the one the session loaded, and leaves what others committed
  otherwise. That, not a plain assignment, decides what a late writer damages.
* **Time.** In `ProviderSync` a time column holds the ticks that remain until
  it, and `Tick` moves all of them. In `DianHabilitation` a lease is held or
  has expired, and `LeaseExpires` lets it. `overruns` counts the leases that
  expire while their worker is still at work; `LeasesHold` says there were
  none. A worker that dies never counts as an overrun.
* **Crash** drops a worker's local state; the row it had claimed stays as it
  was committed. It also stands for an exception while finalizing, after which
  the worker loop rolls back and goes on.
* **Providers** answer a page, or an error of the retryable or of the other
  kind. DIAN receives a transmission or does not, and answers or does not,
  independently.
* **History.** Variables described as history (`answers`, `stale`, `raced`,
  `blind`, `top`, `asked`, `through`, `sent`, ...) are read by properties only:
  they name what a property speaks of or the races it exempts. No guard reads
  one, but for `asked`, whose length numbers the messages and bounds them.
* Audit rows (but those of evidence, executions and lookups), timestamps nobody
  reads back, `processed_records`, user identifiers and texts are left out.

### `ProviderSync`

A worker goes `idle -> claimed -> fetching -> page | retryable | fatal -> idle`:
`Claim` is `_claim_next_sync_job` with `_claimable_job_filter`; `Load`,
`FetchPage` and `FetchError` are the body of `process_next_sync_job` up to the
end of its `await`; `FinalizePage` and `FinalizeFailure` are its two
transactions, whose UPDATE names the status of the job and not its lease. A
request is `BeginX` (loads) and `CommitX` (awaits over, commits). Save and
revoke select the jobs they cancel when they load. `CommitSave` changes nothing
when the credential row it loaded was inserted or deleted meanwhile, because the
flush raises. `sync_parties` has no caller in the application: it is in
`NextWithDirectSync` only. A cursor is the index of a page; 0 is also the null
cursor, as `None` starts a listing and ends one.

### `BankReconciliation`

A request is a transaction with its session. `Load` is the row read by `review`
with its checks; `dismiss` and `exclude` commit at once (`CommitDecision`);
`confirm` and `reopen` flush their row (`WriteDecision`), then run
`_refresh_open_suggestions` statement by statement (`Scan`, `Reset`, `Suggest`
for each row in any order, `CommitRefresh`), since under READ COMMITTED each
statement sees what others have committed by then; sessions do not flush by
themselves before a query (`autoflush=False`), so what `Suggest` assigns is
written by the commit. A flushed row is locked until the commit (`Free`), and
the unique index on the matched payment makes the flush wait for, or fail on,
another holder (`PaymentSettled`, `PaymentFree`). Two refreshes may wait for
each other: the database breaks such a deadlock by failing one, which is `Fail`.
Movements are the fingerprints of one account; `Fits` says which payments agree
in amount, currency, direction and date. Payments are recorded by manual
accounting (`RecordPayment`) and never changed.

### `DianHabilitation`

Uploads take the next number of the active range (`CreateNext`) or correct a
rejected document (`CreateCorrection`), under the lock on the range row; the
document and its `send_test_set` job are committed together. A worker first
closes an expired transmission (`RecoverExpiredSubmission`), else claims a job;
`SendTestSet` and `CheckStatus` are the calls, `LocalFailure` what fails before
one, `Record` the transaction that stores the outcome and queues the follow-up
query, as often as DIAN answers that it is processing the document: nothing in
the code limits that. `Settle` is DIAN deciding on its own, if it ever does. The
claim loads the rows too: only the expiry of the lease just taken could come in
between. The identity of a finished job is given to the next one (`Spare`), so
that a finite set of jobs serves an endless chain of queries; attempts are counted
up to their maximum (`Attempted`), since nothing is compared beyond it. The
profile is taken as configured.

### `DianSubmissions`

Three actions: a document gets its number, is submitted (while every other
document with the number is rejected), and is settled. `DianHabilitation`
implements it under the mapping `numbers <- documents[d].number`,
`verdicts <- dian`: `SendTestSet` that reaches DIAN is `Submit`, creating a
document is `Register`, all the rest stutters.

### `AccountingCapture`

A capture is `AnswerExisting` (the key was used: its row is the answer) or
`BeginCapture` (key free, references owned) followed by `CommitCapture`, where
the unique constraint decides (`KeyFree`). A file import is one request that
goes row by row through `LookUpRow` and `CommitRow`, each row a transaction, and
records its batch in `EndImport`; keys are the ones the code derives: from the
number for invoices and for payments with a reference, from the content of the
file and the place of the row for the rest (`KeyOf`). A refusal by the
constraint is not one of the errors that reject a row: it ends the upload. Party
uploads look every document up first and insert at the commit, and take over
rows found at another source of the company. `Abandon` is a request that ends
anywhere, with what it has committed. One table of rows stands for all tables; a
row has an entity, a source, a key, references and a label.

### `Books` and `BooksReports`

`Books` has the tables of one company as sequences. Captures store rounded
amounts and resolved due dates (`Record*`); requests and their races are in
`AccountingCapture`, so here a capture is one step. An invoice has one of the
five types of `InvoiceType`; the reports read sales and purchases, and the
diagnosis of the books all of them. An update loads a row (`Begin*`), checks
what it was sent against it, and commits later: the UPDATE names the columns
that differ from those loaded (`Changes`, `Merged`), and follow-ups meet the
CHECK constraint of their table. `updated_at` is `now()`, the start of the
transaction and not its commit: a follow-up takes its stamp when the update that
writes it begins, and a later commit may leave an earlier one. Creating a
follow-up is one step. An evidence import reads its file row by row and commits
once. A treasury report is two queries (`BeginTreasury`, `EndTreasury`). Amounts
arrive in tenths of a cent and are stored in cents, quantities arrive in tenths
of a millionth and are stored in millionths, so the rounding of both is
modelled: the last digit stands for all the column has no room for. A subtotal
is computed from the quantities as they arrived. Days are counted from the day
of the report. `BooksReports` translates each analysis from the queries of its
own service, so that properties can compare two computations of the same thing.
Findings are codes with a severity; percentages and wording are left out. Items
are no table of `Books`: how many lack a ledger account is a parameter of
`HealthFindings`, and the properties hold for any number. `FormsAssumption`,
`PartiesAssumption` and `BankAssumption` say what the schemas of the payloads
and the CHECK constraints of the bank's tables let through (any type of invoice,
no negative amount, no quantity or payment that is not positive, a date or none,
known fields and statuses); of the files of electronic evidence nothing is
assumed.

### `Conversations`

Handlers share one event loop; the only suspension is the call of the language
model. A message is therefore `Answer` (one step), or `Ask` followed by `Finish`
or `Cancel`. The store is a set of entries, each with the keys that were inserted
before it, which is the order of the dictionary: reading a session saves it with
a new time and in its old place, an expired one is purged, and the entries with
the fewest before them go when there are too many. Contexts are objects with an identity,
because a message that waits keeps the one it found even when the store has
dropped it. Messages are numbers, so that a context's content can be traced to
the message and conversation it came from (`asked`). A message may come without
`X-Request-ID` (`tagged`); its execution is then filed under the correlation the
context still has. `Restart` empties the process and leaves the database.
`SessionKey` is one space of keys: a company's conversation is found under a
key made of its three parts, an anonymous one under the session id it sends,
which is any text and goes into the same store as it is. What `process` leaves
out of `process_company` is modelled too: it does not label the context with a
company or a request (`Entered`), clears nothing (`Closed`) and, when it is
cancelled, saves nothing (`Cancel`). So a session id that is spelled like a
company's key shares that conversation's context; the docstring's "una clave que
no puede cruzar empresas" is true of the keys of companies, and not of that.
`SpelledAlike` names such a pair and the properties exempt it and nothing else.
The instance TLC runs has no such session id; the theorems are for every set of
chats, with and without one. An agent that may ask the model and finds it
switched on but not configured records its execution as degraded
(`LocalStatus`).

### `Tenancy`

Handlers run in threads: a request is `BeginX` (reads and checks), a commit,
and, for login and password change, `Issue`, which makes the session from a row
read again after the commit. Commits write what was computed from the rows
read; uniqueness is enforced by the database. `Role` and `Allowed` are
`shared/company_access.py`. Ownership of a tenant is never removed by any
request, but a tenant may have no owner: `Migration` starts with any companies
the migrations make of earlier data, whose tenants belong to whoever had an owner
row then, perhaps to nobody, and whose creator is unknown. `kept` is history: no
request has lowered or deleted the creator's own row.

### `ProviderCalls`

A call goes `none -> sent <-> waits -> ended`. `Request` is the transport used
with a limiter, which is asked once; `Fetch` is Siigo's page (two requests, one
for the token) or connection test (one); `Lookup` the acquirer service.
`Receive` handles a response with the retry rules of the transport and the
readings of each adapter (`Misread`); `Resend` ends a back-off; `Cancel` is the
task being cancelled. Credentials are saved and revoked meanwhile, the service
restarts, and `Tick` moves the window.

## 3. Runs

| Run | Question | Instance |
|---|---|---|
| `sync_queue` | safety of queue and connections with a late worker and rotations | 1 source, 2 jobs, 2 workers, 1 request at a time, 2 pages, 1 attempt, 2 saves, 1 overrun |
| `sync_liveness` | every job ends, through retries, crashes and late workers, within its attempts and with no page skipped | 1 job, 2 workers, 2 pages, 2 attempts, 1 crash, 1 overrun |
| `bank_sequential` | consistency of rows with one request at a time | 3 movements, 2 payments |
| `bank_overlapping` | double use of a payment and double import under overlap | 2 movements, 2 payments, 2 requests |
| `dian_outbox` | single transmission, numbering, refinement, jobs and verdicts | 2 documents, 2 numbers, 3 jobs, 2 workers, 1 crash or 1 overrun |
| `dian_liveness` | every document is settled, handed over, or for ever in process at DIAN | 1 document, 3 jobs, 2 workers, 1 crash, 1 overrun |
| `books_capture` | keys, references, repeated and interrupted imports, parties uploaded twice | 2 companies, 3 sources, 2 requests in flight of 4, 3 rows, 4 files |
| `books_reports` | overlapping updates of the books, and every report over every such book | 3 rows, 2 requests in flight, 12 invoices (one a credit note with a quantity the column rounds), payments in two currencies, 3 evidence files |
| `conversations` | isolation, filing and forgetting with messages that overlap | 3 conversations, 6 messages, 2 waiting at once, 3 messages in all, room for 1, expiry, restart |
| `tenancy` | sessions after password changes, plans under overlap and with rows given up | 2 accounts, 1 tenant, 3 companies, 2 requests; 1 migrated company, 2 password changes and 2 changes of memberships, 3 of these in all |
| `provider_calls` | windows, retries, audit of lookups, every call ends | 3 calls, limit 2, 1 retry, a window of 2 ticks |
| `sessions_eviction` | *disagreement*: `EvictsLeastRecentlyUsed` fails | 3 conversations, room for 2 |

Every property of a passing run has a mutant in its module (a definition with a
suffix, `JobAfterFailure_StartsOver`), a plausible bug in the code that makes
the property fail in that run.

**What holds, and when.** `PartiesInsertedOnce`, `AdvancesWhileLeased`,
`OpenIffActive` and `VerdictStays` hold while no lease has expired under a
worker at work; the finalizing writes do not check the lease, so with an overrun
they fail. `ActiveMeansTested` and `OnlyCurrentSecret` hold while requests to
one source do not overlap; `ReconciledIffMatched`, `SuggestionsAreFree` and
`ReconciledOnlyReopens` while requests of the account do not. `TermsAgree`,
`EvidenceIsAudited`, `BalanceCoversAccounts`, `PartyDocumentOnce`, `SessionsEnd`
and the filing part of `FiledWithItsQuestion` hold but for rows that a race did
touch; each says which, with a history variable. `PlanHolds` bounds by how much
a plan can be exceeded: by the requests that overlapped and the companies whose
owner row was given up. `EveryDocumentSettled` excepts a document of which DIAN
is asked again and again and answers for ever that it is processing it. All the
others hold under overruns and overlap alike.

**The disagreement** of code and documentation that a run shows: the session
store evicts the session inserted first and not the least recently used one
(`ai/session/manager.py:66`; the root README and the name `_evict_lru` say LRU).

**Further configurations** check the same modules outside the conditions above.
`sync_overlapping_requests.cfg` (2 requests and direct synchronisation, 1 worker)
passes. The others end in a counterexample, each a place where code and
documentation part:

1. `sync_late_worker.cfg`, `CursorOnlyAdvances`: a worker whose lease expired
   finalizes over the one that took its job
   (`provider_connection_service.py:278`): the cursor goes back, confirmed pages
   are fetched again. The docstring (184-186) and ADR-0015:18 say the cursor only
   advances. No page is ever lost (`NoPageSkipped` holds).
2. `sync_rotation_during_test.cfg`, `ActiveMeansTested` with two requests: a
   connection test activates a source whose credential was replaced or revoked
   while the provider was answering (`:118`; ADR-0015:14, 25, 34).
3. `bank_exclude_race.cfg`, `ReconciledOnlyReopens`: a dismissal or exclusion
   that loaded its movement before a confirmation ends the reconciliation without
   a reopening, and the payment stays blocked
   (`bank_reconciliation_service.py:402`; the message at 408 and ADR-0021:41-42).
4. `dian_late_answer.cfg`, `ReviewStays`: a worker that lost its lease takes a
   document out of manual review (`dian_electronic_habilitation_service.py:1064`;
   `docs/dian-habilitacion-software-propio.md:11`). Still, it was transmitted only
   once (`SentOnce`).
5. `dian_overlapping_ranges.cfg`, `ReuseIsCorrection`: a range that overlaps an
   earlier one hands out the number of a rejected document as a new one, with no
   link to what it replaces (`:444`; `models/dian_electronic.py:84`).
6. `plan_restored.cfg`, `OneCompanyPerAccess` with one request at a time: an
   account of the beta lowers its own owner row, creates a second company and
   restores the row (`services/company_service.py:214` counts owner rows;
   `docs/beta-privada.md:48` says one company per access).

**What the models show beside their properties.** The limiter is asked once per
logical call, so with retries more HTTP requests leave than it counts; and the
adapters build their transport without one. An answered lookup writes ACTIVE over
a revocation committed while it waited, and a cancelled lookup leaves no row. A
file import that meets the constraint ends without a batch though earlier rows
are stored; the next upload finds them. Two overlapping updates of terms can leave
a term that does not give the date; two evidence imports can leave a status and
a reference of different files. The question of the treasury agent stays in its
session: `chat_service.py:60` lists the other seven workflows. Electronic
invoicing's diagnosis and its list of exceptions normalise a status differently:
one takes accents off. Two overlapping password changes can leave one increment of
the version, and a session between them alive. The owner rows of a company can
all be removed: its tenant's owner still reaches it, if the tenant has one.

**Bounds.** Two actors of a kind are enough for every pairwise race, one overrun
for a late worker against a live one, two attempts for a first failure and an
exhausted budget (`sync_liveness`; one, where retries are not the question), two
pages for a first and a last one; a late worker can move a cursor *back* only
with three, which `sync_late_worker` has. Two jobs of a source let a new
job start while a late worker holds the cancelled one. A delay or lease of one
tick separates "not yet" from "now"; longer ones add only waiting. Two saves
make a rotation. Three movements over two payments give a payment wanted by two
movements and a movement with two candidates. Three jobs cover a transmission
and any number of queries beside another document, since finished rows are used
again. In `dian_outbox` a behaviour has one fault, a dead worker or an overrun
(`OneFault`), and states that differ only in what no guard reads any more, the
document and kind of a finished job, are one (`ReadState`); `dian_liveness` has
both faults and no such view. Four requests over three rows let
an upload stop, be repeated and race with a capture; the files share labels
("v1" is contained in "v2", the payment names the invoice, the item names a tax)
so that rows meet. Three rows in the books are an invoice with two payments, two
invoices with a payment, an invoice with two follow-ups, two accounts with a
balance; the invoices are due on both sides of every boundary of the agings and
periods. Room for one session makes every other conversation evict it while its
message waits, and three messages are a question, one that runs meanwhile, and
one that finds what both have left; a year needs three to be asked, too. Three
companies are a plan of one, the company of a request that overlapped, and one
more; two changes of a membership lower a row and restore it, one change of a
password lets an account of the beta work and a second one overlaps it
(`AtMostThree` bounds these and the migrated company together). Three
calls are one more than the window lets through. What is named a bound in the
CONSTANTS is not in the code: `MaxSaves`, `MaxCrashes`, `MaxOverruns`,
`MaxNumber`, `MaxRows`, `MaxRecords`, `MaxWork`, `MaxArrivals`, `MaxTime`,
`MaxMigrated`, `MaxTenants`, `MaxCompanies`, `MaxChanges`, `MaxGrants` and the sizes of the sets.

**Symmetry** is used for workers, requests, jobs and documents, which no
definition tells apart, and never in a run with a liveness property.

**Deadlock** is checked in the sync and bank runs. The others disable it: with
every document settled and no document or job row left, with every message or
request the bounds allow arrived, the system rests.

**Fairness.** A worker that is alive finishes what it claimed: calls have a
timeout and a bounded number of retries. The loops poll for ever and take the
job that has been available longest, so a job that is claimable again and again
is claimed (strong fairness of claiming each job). The clock advances. Requests
that have begun are answered. In `provider_calls`, an attempt is answered or ended
by the client's timeout, which counts as unreachable, and a back-off is a sleep
that ends (weak fairness of both, for each call). Nothing is assumed of users or
of DIAN, and crashes are bounded, not fair. The other modules state no liveness:
their requests are single transactions.

## 4. Proofs

Each theorem holds for all values of the constants that satisfy the named
assumptions: any number of actors, pages, attempts, crashes and overruns.

* `ProviderSyncProofs`. `QueueInv` is `TypeInv`, `Reservations` and
  `OneActiveJob`. Types are not enough: `TypeInv` adds that jobs, workers and
  requests name rows that exist, and `Reservations` that a request about to
  insert a job owns an identity no other holds and that the jobs a request is to
  cancel exist; without it a late commit could overwrite a live job. They give
  `TypeCorrect`, `OneActiveJobAlways`, and `FinishedForGood`, a property of steps:
  a finalizing UPDATE asks for `running`, a claim for a live status, and
  cancelling only finishes. `ActiveMeansTestedAlways` and `OnlyCurrentSecretAlways`
  are theorems of `SpecWithDirectSync /\ []Apart`: `Apart` says that no two requests
  in flight name one source, and the rotation during a test shows that it is
  needed. `ConnectedInv` adds that what a request loaded is still so, but for a
  worker that disabled the source (`Sees`), and that a worker whose job is still
  active works with the credential in force (`UsesCurrent`): a save cancels the
  jobs of the source, so a worker with an old secret has lost its job. All of
  `SpecWithDirectSync` is covered.
  `NoPageSkipped` is not inductive: what is written is
  what a worker or request loaded. `PagesInv` adds that *every copy* of a cursor,
  in a source, job, worker or request, has all pages before it persisted, and
  that a page whose parties were found is persisted. Insertions only accumulate,
  so stale copies stay true: a late worker repeats pages and never skips one.
  `PartiesInsertedOnceAlways` and `AdvancesAlways` rest on `LeasedInv`: while leases
  hold, a job that runs has one worker, whose copies of cursor and page count are
  those of the row, and a page it found missing has never been inserted.
  `AttemptBudgetAlways` holds without leases. `BudgetInv` counts the workers that
  hold a job (`Holders`) and those that will report a retryable failure
  (`MayRetry`): a holder too many is one that was lent the job by an expired lease,
  and every attempt over the maximum, spent or yet to be spent by such a report,
  is one of a lent job.
* `BankReconciliationProofs`. `MatchInv` states uniqueness of a payment over the
  committed rows and over what open transactions have flushed (a flushed match
  differs from every committed match of another movement and from every other
  flushed match), and that a recomputed suggestion keeps the match. The unique
  index, its wait for other transactions and the row locks preserve it;
  `PaymentReconciledOnce` is its committed part. `StagedInv` adds that only
  confirmations and reopenings get past their first statement, and gives
  `ImportsKeepDecisionsAlways` under every overlap. `ReconciledIffMatchedAlways`,
  `SuggestionsAreFreeAlways` and `ReopensOnly` are theorems of `Spec /\ []Alone`, one
  request at a time, as `bank_exclude_race` shows they must be. `SoundInv` follows a
  request from what it loaded to its commit: an import inserts proposals of free
  payments (`Importing`), a review holds the committed row (`Loaded`), a flushed
  decision changes that row and no other (`Decisive`), and a refresh goes by the
  rows it scanned (`Refreshing`).
* `DianHabilitationProofs`. `Inv` is `TypeInv` (types, a range within bounds,
  references), `SendInv` (a document has one transmission job; while that job is
  ready, or claimed and not yet sent, the document was never sent and nobody else
  holds the job) and `VerdictInv` (a rejection that is recorded, or that a worker
  carries, is one DIAN has pronounced; what was never sent DIAN does not know).
  They give `SentOnceAlways`, `RejectedBeforeReuseAlways`, and
  `KeepsPromiseAlways`: `DianSubmissions` is implemented, initial state and every
  step. `OpenIffActiveAlways` and `VerdictStaysAlways` rest on `LeaseInv`: while
  leases hold, a worker at work is the only one at its job, has its lease, and
  read the status the document still has (`HeldJobs`, `OneHolder`); a job is active
  for its document until it is finished, one job is (`OneActive`), and a document
  is open exactly while it has one (`OpenWatched`).
* `TenancyProofs`. `IInv` is `Typed`, `Referenced` (a request names rows that
  exist and that its user may operate on, the creator of a company exists, and
  has the owner row of a company it has kept), `VersionsKnown` (an account whose
  changes never overlapped has the version of its number of changes, and every
  request and session on it carries just that) and `SlotsCounted`. A plan counts
  companies only when a request begins, so the count of companies is not
  inductive: `SlotsCounted` adds the requests that are about to create one to
  those created and kept, which are among the owner rows the plan counts
  (`KeptAreCounted`), and bounds the sum; cardinalities are argued with the
  library's theorems on finite sets. They give `ChangesEndSessions` and
  `PlansHold`.
* `ProviderCallsProofs`. `IInv` is `Typed`, `SentSoFar` (what a call has sent is
  bounded by its step and attempt, and exceeds its attempt) and `RowsTold` (a
  lookup has a row exactly when it has ended uncancelled, and an active source
  has a succeeded row). They give `Audit` and `RetriesBounded`. `TrafficBounded`
  adds `Windowed`: the window of a key is an end of all that was let through, what
  it has dropped is out of the minute, and the last minute holds no more than the
  limit. Dropping a prefix is what makes it inductive, so the window is a
  subsequence by position and not a filter.
* `AccountingCaptureProofs`. A request writes what it found when it looked, so no
  property of the rows is inductive. `IInv` says what is still true of it at the
  commit: references resolved belong to the company, rows counted are stored, rows
  taken over are parties of the company (`RequestSound`); a document that was
  missed is still missing, and one look-up alone missed it, unless it is one that
  two missed (`StillMissing`, `LookedUpOnce`, which exempt `blind`). `RowsSound`
  says a key names one row, references stay in the company, an imported invoice
  has the key of its number. A commit of parties gives each row it inserts its
  own identity, counted in the order of the file. All six theorems hold for every
  interleaving.
* `ConversationsProofs`. A message finds its context through the store and comes
  back to it after the store may have dropped it, so isolation of the contexts is
  not inductive. `IInv` adds that an entry leads to a context of its key (`Placed`),
  that a message that waits is of the conversation its context belongs to, with
  its question still there unless another one ran (`Waits`), and that a context
  nobody is in holds no question to forget (`Forgotten`). The company of a context
  is the one whose key it has (`Owned`), so an anonymous message finds one only
  where `Spelled` says. They give the four invariants of the module, for every
  interleaving, eviction, expiry and restart.

* `BooksProofs`, of `Books` and `BooksReports`. An update commits what it
  computed from a row as it was loaded, so `IInv` says of each request what
  stays true of it whatever becomes of the row: its pair of due date and term
  agrees with the issue date (`TermsPending`), the rows it accepted are of
  different invoices, whose numbers are those the rows name (`EvidencePending`),
  the accounts it found exist. No update writes a type, an issue date, a number
  or an amount (`Kept`). From it follow `TypeCorrect`, `TermsAgreeAlways`,
  `PromiseHasDateAlways`, `EvidenceIsAuditedAlways` and
  `BalanceCoversAccountsAlways`, for every interleaving. `ReportsAgreeAlways`
  and `DiagnosesAreSoundAlways` need no more than the shape of the tables: every
  state of `IInv` has them. An open item is in exactly one bucket
  (`BucketFacts`) and, when it has a date, in one period (`PeriodFacts`), so
  what is counted or summed by class is the whole (`CountParts`,
  `AmountByPart`); fewer than all open items precede one on the list, so it is
  on one page (`BeforeFacts`); every transaction on follow-ups has a time of its
  own (`StampsApart`), so an invoice has one latest (`PromisesAre`). A sum is
  the library's fold, a recursion over subsets. The library's induction theorems
  take a predicate as a parameter, which the provers cannot instantiate;
  `FiniteInduction` takes the set of subsets that satisfy it instead, and rests
  on the strict subset order being well-founded (`WFMin`). That
  `CapturesAreSound` exempts fractions of a cent and of a millionth is needed: a
  sum is rounded once and its terms one by one.

Only model-checked: the liveness properties (`EveryJobEnds`,
`EveryDocumentSettled`, `EveryCallEnds`), since fairness and ENABLED are out of
the prover's reach. Every invariant and every action property of the passing runs
is a theorem; those that say so are theorems under `[]Apart` or `[]Alone`.
`PowerAssumption` (powers of two are natural numbers) is assumed because the
provers do not compute `^`; TLC evaluates it.

To run: `tlc -config sync_queue.cfg MCProviderSync`, `tlapm ProviderSyncProofs.tla`.

## 5. Not modelled, and the plan

Outside the models: the text of CSV, XML and SOAP, cryptography, agents' wording
and the words by which an intent is recognised, the mapping of a provider's
fields, configuration, the frontend, deployment and migrations but for the
companies they leave (no state, or no concurrency). Inside the modelled
components: the profile, credentials and feature flag of DIAN habilitation; a
page that fails half way, after some of its upserts
(`provider_connection_service.py:224` commits them); two requests that create a
numbering range at once; several sources in the sync queue (party uploads have
them); disabling, activating and renaming companies; expiry of sessions; the
provisioning of an account that does not exist.

Next, in this order:

1. **Numbering and profile of DIAN**: profile status, credential and template
   operations, and range creation as load and commit; that a range never gets
   stuck and that one range of a prefix is active.
2. **`PartyQueue`**, an abstract queue (a source is free or has one job, pages are
   delivered at least once and in order), implemented by `ProviderSync`; pages
   that fail half way.
