---------------------------- MODULE ProviderSync ----------------------------
(***************************************************************************)
(* The life cycle of an external provider connection and the persistent    *)
(* queue of party synchronisations: ProviderConnectionService              *)
(* (services/provider_connection_service.py) as driven by the HTTP API and *)
(* by any number of processes running workers/provider_sync_worker.py.     *)
(*                                                                         *)
(* Every transaction of the code is one step, and everything a session has *)
(* read before an `await` or before its commit is kept in the record of    *)
(* the worker or request that read it, because the code goes on using it:  *)
(* sessions do not refresh rows, and a flush writes only the columns whose *)
(* new value differs from the LOADED one (operator Written).               *)
(*                                                                         *)
(* Times are remaining ticks: `avail = 0` stands for available_at <= now   *)
(* and `lease = 0` for lease_expires_at <= now.                            *)
(***************************************************************************)
EXTENDS Integers, FiniteSets

CONSTANTS
    Sources,        \* data sources configured with an external provider
    Jobs,           \* the identities of the rows of provider_sync_jobs
    Workers,        \* worker processes
    Requests,       \* HTTP requests that may be in flight at once
    NoSource,       \* NULL in a column that references a source
    NoJob,          \* a worker that holds no job
    NumPages,       \* pages in the provider's listing of parties
    MaxAttempts,    \* PROVIDER_SYNC_MAX_ATTEMPTS
    RetryBase,      \* PROVIDER_SYNC_RETRY_BASE_SECONDS, in ticks
    RetryMax,       \* PROVIDER_SYNC_RETRY_MAX_SECONDS, in ticks
    LeaseTicks,     \* PROVIDER_SYNC_LEASE_SECONDS, in ticks
    MaxSaves,       \* bound: requests that save credentials
    MaxCrashes,     \* bound: worker processes that die
    MaxOverruns     \* bound: leases that expire under a worker still at work

ASSUME DistinctNulls == NoSource \notin Sources /\ NoJob \notin Jobs
ASSUME PagesAssumption == NumPages \in Nat \ {0}
ASSUME SettingsAssumption ==
    /\ MaxAttempts \in Nat \ {0}
    /\ RetryBase \in Nat \ {0}
    /\ RetryMax \in Nat \ {0}
    /\ LeaseTicks \in Nat \ {0}
ASSUME BoundsAssumption ==
    MaxSaves \in Nat /\ MaxCrashes \in Nat /\ MaxOverruns \in Nat
\* Powers of two are natural numbers; the provers do not compute `^'.
ASSUME PowerAssumption == \A n \in 0..MaxAttempts : 2^n \in Nat

VARIABLES
    sources,        \* rows of company_data_sources and their credentials
    jobs,           \* rows of provider_sync_jobs
    workers,        \* the local state of process_next_sync_job
    requests,       \* the local state of the API operations in flight
    inserted,       \* times the parties of a page were inserted in `parties'
    saves,          \* credentials saved so far; the next secret's name
    crashes,        \* bound counter
    overruns        \* bound counter

vars == <<sources, jobs, workers, requests, inserted, saves, crashes, overruns>>

-----------------------------------------------------------------------------
(* Data *)

\* A cursor is the page a listing goes on with. 0 is the null cursor: it
\* starts the listing, and a provider returns it after the last page.
Pages == 0 .. NumPages - 1
NextCursor(c) == IF c + 1 < NumPages THEN c + 1 ELSE 0
IsLastPage(c) == NextCursor(c) = 0

NoLease == -1
NoSecret == 0
NoCredential == [row |-> 0, secret |-> NoSecret]
Credentials == [row : Nat, secret : Nat]

SourceStatuses == {"pending", "active", "failed", "disabled"}
JobStatuses == {"absent", "queued", "running", "retrying",
                "succeeded", "failed", "cancelled"}
ActiveStatuses == {"queued", "running", "retrying"}
FinishedStatuses == {"succeeded", "failed", "cancelled"}

\* CompanyDataSourceRecord with the row of provider_credentials it owns;
\* `tested' is history: the secrets a connection test accepted.
SourceRow == [status : SourceStatuses, credential : Credentials,
              cursor : Pages, tested : SUBSET Nat]
NewSource == [status |-> "pending", credential |-> NoCredential,
              cursor |-> 0, tested |-> {}]

\* ProviderSyncJobRecord; `active' is active_data_source_id. `source' is
\* data_source_id, set once. `lent' is history: the claims of this job that
\* took it over from a worker whose lease had expired.
JobRow == [status : JobStatuses, source : Sources \cup {NoSource},
           active : Sources \cup {NoSource}, cursor : Pages, pages : Nat,
           attempts : Nat, avail : Nat, lease : {NoLease} \cup Nat, lent : Nat]
AbsentJob == [status |-> "absent", source |-> NoSource, active |-> NoSource,
              cursor |-> 0, pages |-> 0, attempts |-> 0, avail |-> 0,
              lease |-> NoLease, lent |-> 0]

\* What a worker holds: the job it claimed, the attributes it loaded, and
\* whether its upserts found the parties of the page missing.
WorkerState == [pc : {"idle", "claimed", "fetching", "page", "retryable", "fatal"},
                job : Jobs \cup {NoJob}, attempts : Nat, cursor : Pages,
                pages : Nat, sourceStatus : SourceStatuses,
                sourceCursor : Pages, secret : Nat, missing : BOOLEAN]
IdleWorker == [pc |-> "idle", job |-> NoJob, attempts |-> 0, cursor |-> 0,
               pages |-> 0, sourceStatus |-> "pending", sourceCursor |-> 0,
               secret |-> NoSecret, missing |-> FALSE]

\* What a request holds: the source row it loaded and the active jobs it
\* selected, with those of them it saw leased.
RequestState == [op : {"none", "save", "revoke", "test", "enqueue", "sync", "synced"},
                 source : Sources \cup {NoSource}, status : SourceStatuses,
                 cursor : Pages, credential : Credentials, secret : Nat,
                 jobs : SUBSET Jobs, leased : SUBSET Jobs, missing : BOOLEAN]
NoRequest == [op |-> "none", source |-> NoSource, status |-> "pending",
              cursor |-> 0, credential |-> NoCredential, secret |-> NoSecret,
              jobs |-> {}, leased |-> {}, missing |-> FALSE]

TypeOK ==
    /\ sources \in [Sources -> SourceRow]
    /\ jobs \in [Jobs -> JobRow]
    /\ workers \in [Workers -> WorkerState]
    /\ requests \in [Requests -> RequestState]
    /\ inserted \in [Sources -> [Pages -> Nat]]
    /\ saves \in Nat /\ crashes \in Nat /\ overruns \in Nat

Init ==
    /\ sources = [s \in Sources |-> NewSource]
    /\ jobs = [j \in Jobs |-> AbsentJob]
    /\ workers = [w \in Workers |-> IdleWorker]
    /\ requests = [r \in Requests |-> NoRequest]
    /\ inserted = [s \in Sources |-> [p \in Pages |-> 0]]
    /\ saves = 0 /\ crashes = 0 /\ overruns = 0

\* A flush writes a column only if its new value differs from the one the
\* session loaded; otherwise the row keeps what others committed meanwhile.
Written(loaded, new, current) == IF new = loaded THEN current ELSE new

ActiveJobs(s) == {j \in Jobs : jobs[j].active = s}

-----------------------------------------------------------------------------
(* The worker: process_next_sync_job *)

\* Mutant (never used by Next): an expired lease is never taken over.
Claimable_NeverExpired(j) ==
    jobs[j].status \in {"queued", "retrying"} /\ jobs[j].avail = 0

\* _claimable_job_filter
Claimable(j) ==
    \/ jobs[j].status \in {"queued", "retrying"} /\ jobs[j].avail = 0
    \/ jobs[j].status = "running" /\ jobs[j].lease = 0

JobAfterClaim(row) ==
    [row EXCEPT !.status = "running", !.attempts = @ + 1, !.lease = LeaseTicks,
                !.lent = IF row.status = "running" THEN @ + 1 ELSE @]

\* _claim_next_sync_job: one conditional UPDATE, committed at once. The code
\* takes the job that has been available longest; any claimable job may be
\* taken here, and Fairness keeps the consequence of that order.
Claim(w, j) ==
    /\ workers[w].pc = "idle"
    /\ Claimable(j)
    /\ jobs' = [jobs EXCEPT ![j] = JobAfterClaim(@)]
    /\ workers' = [workers EXCEPT ![w] =
            [IdleWorker EXCEPT !.pc = "claimed", !.job = j]]
    /\ UNCHANGED <<sources, requests, inserted, saves, crashes, overruns>>

\* The worker loads the job, its source and the secret, and refuses a source
\* that is not active or has no credential: neither error is retryable.
Load(w) ==
    LET job == jobs[workers[w].job]
        row == sources[job.source]
        usable == row.status = "active" /\ row.credential.secret # NoSecret
    IN  /\ workers[w].pc = "claimed"
        /\ workers' = [workers EXCEPT ![w] =
                [pc |-> IF usable THEN "fetching" ELSE "fatal",
                 job |-> @.job, attempts |-> job.attempts, cursor |-> job.cursor,
                 pages |-> job.pages, sourceStatus |-> row.status,
                 sourceCursor |-> row.cursor, secret |-> row.credential.secret,
                 missing |-> FALSE]]
        /\ UNCHANGED <<sources, jobs, requests, inserted, saves, crashes, overruns>>

\* Mutant: the parties of a page are inserted without looking them up.
Missing_NeverLooks(s, p) == TRUE

\* _upsert_party finds no party with the external_id.
Missing(s, p) == inserted[s][p] = 0

\* The adapter answers the awaited call: a page, whose upserts look the
\* parties up at once and stay in the session, or an error.
FetchPage(w) ==
    LET s == jobs[workers[w].job].source
    IN  /\ workers[w].pc = "fetching"
        /\ workers' = [workers EXCEPT ![w] =
                [@ EXCEPT !.pc = "page",
                          !.missing = Missing(s, workers[w].cursor)]]
        /\ UNCHANGED <<sources, jobs, requests, inserted, saves, crashes, overruns>>

FetchError(w, kind) ==
    /\ workers[w].pc = "fetching"
    /\ workers' = [workers EXCEPT ![w] = [@ EXCEPT !.pc = kind]]
    /\ UNCHANGED <<sources, jobs, requests, inserted, saves, crashes, overruns>>

\* The WHERE clause of both finalizing UPDATEs: it names the status only.
StillRunning(j) == jobs[j].status = "running"

\* Mutant: a job that succeeds keeps its source occupied.
JobAfterPage_KeepsActive(row, st) ==
    [row EXCEPT !.pages = st.pages + 1, !.attempts = 0,
                !.cursor = NextCursor(st.cursor), !.lease = NoLease,
                !.status = IF IsLastPage(st.cursor) THEN "succeeded" ELSE "queued"]

\* The job row after its page is confirmed, from the attributes loaded
\* before the await.
JobAfterPage(row, st) ==
    [row EXCEPT !.pages = st.pages + 1, !.attempts = 0,
                !.cursor = NextCursor(st.cursor), !.lease = NoLease,
                !.status = IF IsLastPage(st.cursor) THEN "succeeded" ELSE "queued",
                !.active = IF IsLastPage(st.cursor) THEN NoSource ELSE @,
                !.avail = IF IsLastPage(st.cursor) THEN @ ELSE 0]

\* The source row: its status was loaded as active and is not written.
SourceAfterPage(row, st) ==
    [row EXCEPT !.cursor = Written(st.sourceCursor, NextCursor(st.cursor), @)]

\* The page, the job and the cursor are confirmed in one transaction, or
\* rolled back together when the UPDATE of the job matches no row.
FinalizePage(w) ==
    LET st == workers[w]
        j == st.job
        s == jobs[j].source
    IN  /\ st.pc = "page"
        /\ workers' = [workers EXCEPT ![w] = IdleWorker]
        /\ IF StillRunning(j)
           THEN /\ jobs' = [jobs EXCEPT ![j] = JobAfterPage(@, st)]
                /\ sources' = [sources EXCEPT ![s] = SourceAfterPage(@, st)]
                /\ inserted' = [inserted EXCEPT ![s][st.cursor] =
                        IF st.missing THEN @ + 1 ELSE @]
           ELSE UNCHANGED <<jobs, sources, inserted>>
        /\ UNCHANGED <<requests, saves, crashes, overruns>>

\* _retry_delay_seconds
Power2(n) == 2^n
RetryDelay(attempts) ==
    LET delay == RetryBase * Power2(IF attempts > 1 THEN attempts - 1 ELSE 0)
    IN  IF delay < RetryMax THEN delay ELSE RetryMax

\* Mutants: one attempt too many; a failed page moves the cursor, or starts
\* the listing over.
Retries_OffByOne(st) == st.pc = "retryable" /\ st.attempts <= MaxAttempts
JobAfterFailure_AdvancesCursor(row, st) ==
    IF st.pc = "retryable" /\ st.attempts < MaxAttempts
    THEN [row EXCEPT !.status = "retrying", !.lease = NoLease,
                     !.avail = RetryDelay(st.attempts),
                     !.cursor = NextCursor(st.cursor)]
    ELSE [row EXCEPT !.status = "failed", !.active = NoSource, !.lease = NoLease]
JobAfterFailure_StartsOver(row, st) ==
    IF st.pc = "retryable" /\ st.attempts < MaxAttempts
    THEN [row EXCEPT !.status = "retrying", !.lease = NoLease,
                     !.avail = RetryDelay(st.attempts), !.cursor = 0]
    ELSE [row EXCEPT !.status = "failed", !.active = NoSource, !.lease = NoLease]

\* _failure_job_values
Retries(st) == st.pc = "retryable" /\ st.attempts < MaxAttempts
JobAfterFailure(row, st) ==
    IF Retries(st)
    THEN [row EXCEPT !.status = "retrying", !.lease = NoLease,
                     !.avail = RetryDelay(st.attempts)]
    ELSE [row EXCEPT !.status = "failed", !.active = NoSource, !.lease = NoLease]

\* A definitive failure disables a source that was loaded as active.
FinalizeFailure(w) ==
    LET st == workers[w]
        j == st.job
        s == jobs[j].source
        failsSource == ~Retries(st) /\ st.sourceStatus = "active"
    IN  /\ st.pc \in {"retryable", "fatal"}
        /\ workers' = [workers EXCEPT ![w] = IdleWorker]
        /\ IF StillRunning(j)
           THEN /\ jobs' = [jobs EXCEPT ![j] = JobAfterFailure(@, st)]
                /\ sources' = [sources EXCEPT ![s].status =
                        IF failsSource THEN "failed" ELSE @]
           ELSE UNCHANGED <<jobs, sources>>
        /\ UNCHANGED <<requests, inserted, saves, crashes, overruns>>

\* The process dies, or the session raises while finalizing (the worker loop
\* rolls back and goes on): the job stays running until its lease expires.
Crash(w) ==
    /\ workers[w].pc # "idle"
    /\ crashes < MaxCrashes
    /\ crashes' = crashes + 1
    /\ workers' = [workers EXCEPT ![w] = IdleWorker]
    /\ UNCHANGED <<sources, jobs, requests, inserted, saves, overruns>>

\* Time passes. A lease that expires while a worker still has the job is an
\* overrun, and there are at most MaxOverruns of them.
Down(n) == IF n > 0 THEN n - 1 ELSE n
Waiting(j) ==
    \/ jobs[j].status \in {"queued", "retrying"} /\ jobs[j].avail > 0
    \/ jobs[j].status = "running" /\ jobs[j].lease > 0
Overrun == \E j \in Jobs, w \in Workers :
    jobs[j].status = "running" /\ jobs[j].lease = 1 /\ workers[w].job = j
Tick ==
    /\ \E j \in Jobs : Waiting(j)
    /\ Overrun => overruns < MaxOverruns
    /\ overruns' = IF Overrun THEN overruns + 1 ELSE overruns
    /\ jobs' = [j \in Jobs |->
            IF Waiting(j)
            THEN [jobs[j] EXCEPT !.avail = Down(@), !.lease = Down(@)]
            ELSE jobs[j]]
    /\ UNCHANGED <<sources, workers, requests, inserted, saves, crashes>>

-----------------------------------------------------------------------------
(* API requests: each loads what it needs, and commits later *)

Idle(r) == requests[r].op = "none"
Begun(op, s) == [NoRequest EXCEPT !.op = op, !.source = s]
Respond(r) == requests' = [requests EXCEPT ![r] = NoRequest]

\* What save_credentials and revoke_credentials load: the source row, its
\* credential and the jobs to cancel. _cancel_active_sync_jobs selects them
\* now, and they are updated by primary key when the request commits.
Loaded(op, s) ==
    [Begun(op, s) EXCEPT !.status = sources[s].status,
                         !.cursor = sources[s].cursor,
                         !.credential = sources[s].credential,
                         !.jobs = ActiveJobs(s),
                         !.leased = {j \in ActiveJobs(s) : jobs[j].lease # NoLease}]
Cancelled_SparesLeased(req) ==  \* mutant: a job being processed goes on
    [j \in Jobs |->
        IF j \in req.jobs \ req.leased
        THEN [jobs[j] EXCEPT !.status = "cancelled", !.active = NoSource]
        ELSE jobs[j]]
Cancelled(req) ==
    [j \in Jobs |->
        IF j \in req.jobs
        THEN [jobs[j] EXCEPT !.status = "cancelled", !.active = NoSource,
                             !.lease = IF j \in req.leased THEN NoLease ELSE @]
        ELSE jobs[j]]

\* The row after save_credentials / revoke_credentials: the connection has to
\* be tested again, or is disabled, and the next listing starts over.
SourceReset_KeepsStatus(row, req, status, credential) ==    \* mutant
    [row EXCEPT !.cursor = Written(req.cursor, 0, @), !.credential = credential]
SourceReset(row, req, status, credential) ==
    [row EXCEPT !.status = Written(req.status, status, @),
                !.cursor = Written(req.cursor, 0, @),
                !.credential = credential]

BeginSave(r, s) ==
    /\ Idle(r)
    /\ saves < MaxSaves
    /\ saves' = saves + 1
    /\ requests' = [requests EXCEPT ![r] =
            [Loaded("save", s) EXCEPT !.secret = saves + 1]]
    /\ UNCHANGED <<sources, jobs, workers, inserted, crashes, overruns>>

\* The credential row is inserted or updated by primary key: the flush raises
\* if another request inserted it, or deleted it, since it was loaded.
CommitSave(r) ==
    LET req == requests[r]
        row == IF req.credential = NoCredential THEN req.secret ELSE req.credential.row
    IN  /\ req.op = "save"
        /\ Respond(r)
        /\ IF sources[req.source].credential.row = req.credential.row
           THEN /\ jobs' = Cancelled(req)
                /\ sources' = [sources EXCEPT ![req.source] =
                        SourceReset(@, req, "pending", [row |-> row, secret |-> req.secret])]
           ELSE UNCHANGED <<jobs, sources>>
        /\ UNCHANGED <<workers, inserted, saves, crashes, overruns>>

BeginRevoke(r, s) ==
    /\ Idle(r)
    /\ requests' = [requests EXCEPT ![r] = Loaded("revoke", s)]
    /\ UNCHANGED <<sources, jobs, workers, inserted, saves, crashes, overruns>>

\* The loaded credential row is deleted by primary key; deleting one that is
\* gone is no error.
CommitRevoke(r) ==
    LET req == requests[r]
        now == sources[req.source].credential
    IN  /\ req.op = "revoke"
        /\ Respond(r)
        /\ jobs' = Cancelled(req)
        /\ sources' = [sources EXCEPT ![req.source] =
                SourceReset(@, req, "disabled",
                            IF now.row = req.credential.row THEN NoCredential ELSE now)]
        /\ UNCHANGED <<workers, inserted, saves, crashes, overruns>>

BeginTest(r, s) ==
    /\ Idle(r)
    /\ requests' = [requests EXCEPT ![r] =
            [Begun("test", s) EXCEPT !.status = sources[s].status,
                                     !.secret = sources[s].credential.secret]]
    /\ UNCHANGED <<sources, jobs, workers, inserted, saves, crashes, overruns>>

SourceAfterTest(row, req, accepted) ==
    [row EXCEPT !.status = Written(req.status,
                                   IF accepted THEN "active" ELSE "failed", @),
                !.tested = IF accepted THEN @ \cup {req.secret} ELSE @]

\* The provider accepts or refuses the loaded secret; without one it is not
\* even asked.
CommitTest(r) ==
    LET req == requests[r]
    IN  /\ req.op = "test"
        /\ Respond(r)
        /\ \E accepted \in BOOLEAN :
            /\ accepted => req.secret # NoSecret
            /\ sources' = [sources EXCEPT ![req.source] =
                SourceAfterTest(@, req, accepted)]
        /\ UNCHANGED <<jobs, workers, inserted, saves, crashes, overruns>>

\* enqueue_party_sync. `jobs' holds the uuid4 of the new row.
BeginEnqueue(r, s) ==
    /\ Idle(r)
    /\ sources[s].status = "active"
    /\ ActiveJobs(s) = {}
    /\ \E j \in Jobs :
        /\ jobs[j].status = "absent"
        /\ \A other \in Requests : j \notin requests[other].jobs
        /\ requests' = [requests EXCEPT ![r] =
                [Begun("enqueue", s) EXCEPT !.cursor = sources[s].cursor, !.jobs = {j}]]
    /\ UNCHANGED <<sources, jobs, workers, inserted, saves, crashes, overruns>>

\* uq_provider_sync_jobs_active_source turns a second insert into CONFLICT.
UniqueActive(s) == ActiveJobs(s) = {}
CommitEnqueue(r) ==
    LET req == requests[r]
        new == [AbsentJob EXCEPT !.status = "queued", !.source = req.source,
                                 !.active = req.source, !.cursor = req.cursor]
    IN  /\ req.op = "enqueue"
        /\ Respond(r)
        /\ jobs' = IF UniqueActive(req.source)
                   THEN [j \in Jobs |-> IF j \in req.jobs THEN new ELSE jobs[j]]
                   ELSE jobs
        /\ UNCHANGED <<sources, workers, inserted, saves, crashes, overruns>>

\* sync_parties, the direct synchronisation of one page kept for internal
\* consumers: it neither sees nor holds a job.
BeginSync(r, s) ==
    /\ Idle(r)
    /\ sources[s].status = "active"
    /\ requests' = [requests EXCEPT ![r] =
            [Begun("sync", s) EXCEPT !.cursor = sources[s].cursor,
                                     !.secret = sources[s].credential.secret]]
    /\ UNCHANGED <<sources, jobs, workers, inserted, saves, crashes, overruns>>

SyncPage(r) ==
    LET req == requests[r]
    IN  /\ req.op = "sync"
        /\ req.secret # NoSecret
        /\ requests' = [requests EXCEPT ![r] =
                [req EXCEPT !.op = "synced",
                            !.missing = Missing(req.source, req.cursor)]]
        /\ UNCHANGED <<sources, jobs, workers, inserted, saves, crashes, overruns>>

SyncError(r) ==
    LET req == requests[r]
    IN  /\ req.op = "sync"
        /\ Respond(r)
        /\ sources' = [sources EXCEPT ![req.source].status = "failed"]
        /\ UNCHANGED <<jobs, workers, inserted, saves, crashes, overruns>>

CommitSync(r) ==
    LET req == requests[r]
        s == req.source
        next == NextCursor(req.cursor)
    IN  /\ req.op = "synced"
        /\ Respond(r)
        /\ sources' = [sources EXCEPT ![s].cursor = Written(req.cursor, next, @)]
        /\ inserted' = [inserted EXCEPT ![s][req.cursor] =
                IF req.missing THEN @ + 1 ELSE @]
        /\ UNCHANGED <<jobs, workers, saves, crashes, overruns>>

-----------------------------------------------------------------------------
Finalize(w) == FinalizePage(w) \/ FinalizeFailure(w)
Answer(w) ==
    \/ FetchPage(w)
    \/ \E kind \in {"retryable", "fatal"} : FetchError(w, kind)
WorkerStep(w) == Load(w) \/ Answer(w) \/ Finalize(w)
Begin(r) == \E s \in Sources :
    BeginSave(r, s) \/ BeginRevoke(r, s) \/ BeginTest(r, s) \/ BeginEnqueue(r, s)
Commit(r) == CommitSave(r) \/ CommitRevoke(r) \/ CommitTest(r) \/ CommitEnqueue(r)
DirectSync(r) ==
    \/ \E s \in Sources : BeginSync(r, s)
    \/ SyncPage(r) \/ SyncError(r) \/ CommitSync(r)

\* The deployed system: sync_parties has no caller in the application.
Next ==
    \/ \E w \in Workers :
        \/ \E j \in Jobs : Claim(w, j)
        \/ WorkerStep(w)
        \/ Crash(w)
    \/ \E r \in Requests : Begin(r) \/ Commit(r)
    \/ Tick

\* With the internal consumers of sync_parties.
NextWithDirectSync == Next \/ \E r \in Requests : DirectSync(r)

\* A worker that is alive finishes its page: the transport bounds the call
\* and its retries. The worker loop polls without end and takes the job
\* that has been available longest, so a job claimable again and again is
\* claimed. The clock advances. Users owe nothing, but a request that has
\* begun is answered.
Fairness ==
    /\ \A w \in Workers : WF_vars(WorkerStep(w))
    /\ \A j \in Jobs : SF_vars(\E w \in Workers : Claim(w, j))
    /\ \A r \in Requests : WF_vars(Commit(r))
    /\ WF_vars(Tick)

Spec == Init /\ [][Next]_vars
SpecWithDirectSync == Init /\ [][NextWithDirectSync]_vars
FairSpec == Spec /\ Fairness

-----------------------------------------------------------------------------
(* Properties *)

\* A job occupies its source exactly while it is queued, running or waiting
\* for a retry, and no two jobs occupy the same source: the unique column
\* active_data_source_id, which every transition has to keep in step with
\* the status column (ADR-0016, decision 3).
OneActiveJob ==
    /\ \A j \in Jobs :
        /\ jobs[j].status \in ActiveStatuses => jobs[j].active = jobs[j].source
        /\ jobs[j].status \notin ActiveStatuses => jobs[j].active = NoSource
    /\ \A i, j \in Jobs :
        (i # j /\ jobs[i].active # NoSource) => jobs[i].active # jobs[j].active

\* Whatever late worker, retry or request still holds a job that has
\* finished, the job is never queued, claimed or retried again.
FinishedStaysFinished ==
    [][\A j \in Jobs : jobs[j].status \in FinishedStatuses
                         => jobs'[j].status \in FinishedStatuses]_vars

\* All pages before cursor c of source s are among its imported parties.
Covered(s, c) == \A p \in Pages : p < c => inserted[s][p] > 0

\* No page is skipped: a cursor the system will go on from has all pages
\* before it persisted, and a job that succeeded has the whole listing
\* persisted, even when several workers, one of them late, finish it.
NoPageSkipped ==
    /\ \A s \in Sources : Covered(s, sources[s].cursor)
    /\ \A j \in Jobs :
        /\ jobs[j].status \in ActiveStatuses => Covered(jobs[j].source, jobs[j].cursor)
        /\ jobs[j].status = "succeeded" => Covered(jobs[j].source, NumPages)

\* Failed answers alone never take a job past its attempts: each claim over
\* MaxAttempts is one that took the job from an expired lease.
AttemptBudget == \A j \in Jobs : jobs[j].attempts <= MaxAttempts + jobs[j].lent

\* Only a successful connection test of the credential in force makes a
\* source active (ADR-0015, decision 1), and a source without credentials is
\* not active (DELETE /credentials is fail-closed).
ActiveMeansTested ==
    \A s \in Sources : sources[s].status = "active" =>
        /\ sources[s].credential # NoCredential
        /\ sources[s].credential.secret \in sources[s].tested

\* No page fetched with a replaced or revoked secret is persisted: rotation
\* and revocation cancel the job that is in flight (ADR-0016).
OnlyCurrentSecret ==
    [][\A w \in Workers :
        (workers[w].pc = "page" /\ jobs' # jobs /\ workers'[w].pc = "idle")
            => workers[w].secret = sources[jobs[workers[w].job].source].credential.secret]_vars

\* A job's cursor only moves forward and its pages are counted once, so no
\* page that was confirmed is requested again (docstring of
\* process_next_sync_job; ADR-0015, decision 5).
Advances == \A j \in Jobs :
    jobs'[j].status \in ActiveStatuses /\ jobs[j].status # "absent"
        => jobs'[j].cursor >= jobs[j].cursor /\ jobs'[j].pages >= jobs[j].pages
CursorOnlyAdvances == [][Advances]_vars

\* No lease has expired so far under a worker still at work.
LeasesHold == overruns = 0

\* A job's cursor only moves forward and its pages are counted once as long
\* as leases outlast the pages, whatever retries, crashes and rotations.
AdvancesWhileLeased == [][LeasesHold' => Advances]_vars

\* The parties of a page are inserted once and updated afterwards, as long as
\* no two workers are at the same page.
PartiesInsertedOnce ==
    LeasesHold => \A s \in Sources, p \in Pages : inserted[s][p] <= 1

\* Every job that occupies its source ends, through retries, dead workers and
\* late ones, and frees the source for another synchronisation.
EveryJobEnds ==
    \A j \in Jobs : (jobs[j].status \in ActiveStatuses)
                        ~> (jobs[j].status \in FinishedStatuses)
=============================================================================
