--------------------------- MODULE DianHabilitation ---------------------------
(***************************************************************************)
(* Electronic invoicing tests with DIAN: documents that take a number of   *)
(* the registered range, and the outbox of transmissions and status        *)
(* queries that workers process against DIAN's web service:                *)
(* DianElectronicHabilitationService                                       *)
(* (services/dian_electronic_habilitation_service.py) as driven by the API *)
(* and by any number of processes running workers/dian_electronic_worker.  *)
(*                                                                         *)
(* A worker goes on, after the call to DIAN, with the rows it loaded before *)
(* it, and its flush writes the columns it changed whatever the rows have  *)
(* become since. A job is claimed and loaded in one step: only the expiry  *)
(* of the lease just taken could come in between. A job that waits for     *)
(* available_at may be claimed at any time.                                *)
(***************************************************************************)
EXTENDS Integers, FiniteSets

CONSTANTS
    Documents,      \* identities of rows of dian_electronic_documents
    Jobs,           \* identities of rows of dian_electronic_outbox_jobs
    Workers,        \* worker processes
    NoDocument,     \* NULL in a column that references a document
    NoJob,          \* a worker that holds no job
    MaxNumber,      \* bound: the highest consecutive of a range
    MaxAttempts,    \* _MAX_ATTEMPTS
    MaxCrashes,     \* bound: worker processes that die
    MaxOverruns     \* bound: leases that expire under a worker still at work

ASSUME DistinctNulls == NoDocument \notin Documents /\ NoJob \notin Jobs
ASSUME NumberAssumption == MaxNumber \in Nat
ASSUME AttemptsAssumption == MaxAttempts \in Nat \ {0}
ASSUME BoundsAssumption == MaxCrashes \in Nat /\ MaxOverruns \in Nat

VARIABLES
    documents,      \* rows of dian_electronic_documents
    range,          \* the active row of dian_numbering_ranges
    bounds,         \* the bounds of every range registered
    jobs,           \* rows of dian_electronic_outbox_jobs
    workers,        \* the local state of process_next_job
    dian,           \* what DIAN holds about each document
    sent,           \* times each document was transmitted
    crashes,        \* bound counter
    overruns        \* bound counter

vars == <<documents, range, bounds, jobs, workers, dian, sent, crashes, overruns>>

-----------------------------------------------------------------------------
(* Data *)

Consecutives == 1 .. MaxNumber
Verdicts == {"none", "received", "accepted", "rejected"}
Final == {"accepted", "rejected"}
OpenStatuses == {"queued", "processing"}
DocumentStatuses == {"absent", "manual_review"} \cup OpenStatuses \cup Final
ReadyStatuses == {"queued", "retrying"}
JobStatuses == {"absent", "running", "succeeded", "failed"} \cup ReadyStatuses
Operations == {"send_test_set", "check_status"}

\* DianElectronicDocumentRecord; `number' is prefix and consecutive.
DocumentRow == [status : DocumentStatuses, number : 0 .. MaxNumber,
                corrects : Documents \cup {NoDocument}]
AbsentDocument == [status |-> "absent", number |-> 0, corrects |-> NoDocument]

\* DianNumberingRangeRecord of one prefix: the numbers first..last, and the
\* next one to hand out.
RangeRow == [first : Nat, last : Nat, next : Nat]
NoRange == [first |-> 1, last |-> 0, next |-> 1]

\* DianElectronicOutboxJobRecord; `active' is active_document_id. A lease
\* is compared with the clock only: it is held or it has expired.
JobRow == [status : JobStatuses, operation : Operations,
           document : Documents \cup {NoDocument},
           active : Documents \cup {NoDocument}, attempts : 0 .. MaxAttempts,
           lease : {"none", "held", "expired"}]
AbsentJob == [status |-> "absent", operation |-> "send_test_set",
              document |-> NoDocument, active |-> NoDocument,
              attempts |-> 0, lease |-> "none"]

\* What a worker holds: its job, the columns it loaded that it may write, and
\* what came of the call. "review" is any outcome that needs a person at once:
\* no credentials, a refusal, an answer without state.
Answers == {"review", "unreachable", "processing"} \cup Final
WorkerState == [pc : {"idle", "claimed", "answered"}, job : Jobs \cup {NoJob},
                status : DocumentStatuses, active : Documents \cup {NoDocument},
                attempts : 0 .. MaxAttempts, answer : Answers]
IdleWorker == [pc |-> "idle", job |-> NoJob, status |-> "absent",
               active |-> NoDocument, attempts |-> 0, answer |-> "review"]

TypeOK ==
    /\ documents \in [Documents -> DocumentRow]
    /\ range \in RangeRow
    /\ bounds \subseteq Consecutives \X Consecutives
    /\ jobs \in [Jobs -> JobRow]
    /\ workers \in [Workers -> WorkerState]
    /\ dian \in [Documents -> Verdicts]
    /\ sent \in [Documents -> Nat]
    /\ crashes \in Nat /\ overruns \in Nat

Init ==
    /\ documents = [d \in Documents |-> AbsentDocument]
    /\ range = NoRange
    /\ bounds = {}
    /\ jobs = [j \in Jobs |-> AbsentJob]
    /\ workers = [w \in Workers |-> IdleWorker]
    /\ dian = [d \in Documents |-> "none"]
    /\ sent = [d \in Documents |-> 0]
    /\ crashes = 0 /\ overruns = 0

\* A flush writes a column only if its new value differs from the one loaded.
Written(loaded, new, current) == IF new = loaded THEN current ELSE new

\* The documents that keep a number from being used again, and those a
\* correction may still replace.
Live(n) == {d \in Documents :
                documents[d].status \notin {"absent", "rejected"} /\ documents[d].number = n}
Correctable(n) == {d \in Documents :
    /\ documents[d].status = "rejected" /\ documents[d].number = n
    /\ \A e \in Documents : documents[e].corrects # d}

-----------------------------------------------------------------------------
(* Numbering and new documents *)

\* create_numbering_range: the new range replaces the active one of the
\* prefix. Only the same bounds are refused, by a unique constraint.
CreateNumberingRange(first, last) ==
    /\ first <= last
    /\ <<first, last>> \notin bounds
    /\ bounds' = bounds \cup {<<first, last>>}
    /\ range' = [first |-> first, last |-> last, next |-> first]
    /\ UNCHANGED <<documents, jobs, workers, dian, sent, crashes, overruns>>

\* uq_dian_electronic_documents_unrejected_number.
NumberFree_NotEnforced(d, n) == TRUE        \* mutant
NumberFree(d, n) == Live(n) \subseteq {d}

\* _enqueue_job inserts a row. No query reads the row of a finished job again,
\* so its identity serves for a later one once no worker holds it: however
\* often DIAN is asked, a few identities are enough.
Queued(d, operation) ==
    [AbsentJob EXCEPT !.status = "queued", !.operation = operation,
                      !.document = d, !.active = d]
Held(j) == \E w \in Workers : workers[w].job = j
Spare(j) == /\ jobs[j].status \in {"absent", "succeeded", "failed"}
            /\ jobs[j].active = NoDocument
            /\ ~Held(j)

\* create_signed_test_document with the outcome of _reserve_number: the
\* document, its number and its transmission are committed together. The
\* lock on the range orders the requests.
CreateDocument(d, j, n, corrected) ==
    /\ documents[d].status = "absent" /\ Spare(j)
    /\ NumberFree(d, n)
    /\ documents' = [documents EXCEPT ![d] =
            [status |-> "queued", number |-> n, corrects |-> corrected]]
    /\ jobs' = [jobs EXCEPT ![j] = Queued(d, "send_test_set")]
    /\ UNCHANGED <<bounds, workers, dian, sent, crashes, overruns>>

CreateNext(d, j) ==
    /\ range.next <= range.last
    /\ range' = [range EXCEPT !.next = @ + 1]
    /\ CreateDocument(d, j, range.next, NoDocument)

\* A number below the next one may only correct a rejected document.
Corrects(n) == IF Live(n) = {} THEN Correctable(n) ELSE {}
CreateCorrection(d, j) ==
    /\ \E n \in range.first .. range.next - 1 : \E corrected \in Corrects(n) :
            CreateDocument(d, j, n, corrected)
    /\ UNCHANGED range

-----------------------------------------------------------------------------
(* The worker: process_next_job *)

\* _recover_expired_submission: a transmission whose worker is gone is not
\* repeated. The first of them is closed, and nothing is claimed this time.
ExpiredSubmission(j) ==
    jobs[j].status = "running" /\ jobs[j].operation = "send_test_set" /\ jobs[j].lease = "expired"
RecoverExpiredSubmission_Requeues(j) ==     \* mutant
    /\ ExpiredSubmission(j)
    /\ jobs' = [jobs EXCEPT ![j].status = "queued", ![j].lease = "none"]
    /\ UNCHANGED <<documents, range, bounds, workers, dian, sent, crashes, overruns>>
RecoverExpiredSubmission(j) ==
    /\ ExpiredSubmission(j)
    /\ jobs' = [jobs EXCEPT ![j].status = "failed", ![j].active = NoDocument,
                            ![j].lease = "none"]
    /\ documents' = [documents EXCEPT ![jobs[j].document].status = "manual_review"]
    /\ UNCHANGED <<range, bounds, workers, dian, sent, crashes, overruns>>

\* Mutant: a query is claimed again before its lease expires.
Claimable_IgnoresLease(j) ==
    \/ jobs[j].status \in ReadyStatuses
    \/ jobs[j].status = "running" /\ jobs[j].operation = "check_status"

\* The WHERE clause of _claim_next_job.
Claimable(j) ==
    \/ jobs[j].status \in ReadyStatuses
    \/ /\ jobs[j].status = "running" /\ jobs[j].operation = "check_status"
       /\ jobs[j].lease = "expired"
\* The attempts of a job are only compared with _MAX_ATTEMPTS: larger counts,
\* which expired leases lead to, are one value.
Attempted(count) == IF count < MaxAttempts THEN count + 1 ELSE count
Claim(w, j) ==
    /\ workers[w].pc = "idle"
    /\ \A i \in Jobs : ~ExpiredSubmission(i)
    /\ Claimable(j)
    /\ jobs' = [jobs EXCEPT ![j].status = "running", ![j].lease = "held",
                            ![j].attempts = Attempted(@)]
    /\ workers' = [workers EXCEPT ![w] =
            [pc |-> "claimed", job |-> j, status |-> documents[jobs[j].document].status,
             active |-> jobs[j].active, attempts |-> Attempted(jobs[j].attempts),
             answer |-> "review"]]
    /\ UNCHANGED <<documents, range, bounds, dian, sent, crashes, overruns>>

Answered(w, answer) ==
    workers' = [workers EXCEPT ![w] = [@ EXCEPT !.pc = "answered", !.answer = answer]]

\* No call is made: the credentials, the TestSetId or the artifact are gone.
LocalFailure(w) ==
    /\ workers[w].pc = "claimed"
    /\ Answered(w, "review")
    /\ UNCHANGED <<documents, range, bounds, jobs, dian, sent, crashes, overruns>>

\* SendTestSetAsync. DIAN may not receive the call, and its answer may not
\* arrive. With a tracking identifier the answer is "processing"; without
\* one it may carry the verdict. An unconfirmed call is "unreachable".
SendTestSet(w) ==
    LET d == jobs[workers[w].job].document
    IN  /\ workers[w].pc = "claimed"
        /\ jobs[workers[w].job].operation = "send_test_set"
        /\ sent' = [sent EXCEPT ![d] = @ + 1]
        /\ \E verdict \in Verdicts :
            /\ dian' = [dian EXCEPT ![d] = verdict]
            /\ \/ Answered(w, "review") \/ Answered(w, "unreachable")
               \/ verdict # "none" /\ Answered(w, "processing")
               \/ verdict \in Final /\ Answered(w, verdict)
        /\ UNCHANGED <<documents, range, bounds, jobs, crashes, overruns>>

\* GetStatusZip, which may be repeated. DIAN may answer "processing" for ever.
CheckStatus(w) ==
    LET d == jobs[workers[w].job].document
    IN  /\ workers[w].pc = "claimed"
        /\ jobs[workers[w].job].operation = "check_status"
        /\ \/ \E answer \in {"review", "unreachable", "processing"} : Answered(w, answer)
           \/ dian[d] \in Final /\ Answered(w, dian[d])
        /\ UNCHANGED <<documents, range, bounds, jobs, dian, sent, crashes, overruns>>

\* An unreachable service is asked again while there are attempts left, but
\* for a transmission, which may have arrived.
Retries_Unconfirmed(st) == st.answer = "unreachable" /\ st.attempts < MaxAttempts  \* mutant
Retries(st) == /\ st.answer = "unreachable"
               /\ jobs[st.job].operation = "check_status"
               /\ st.attempts < MaxAttempts

\* _enqueue_job finds another active job of the document, which turns the
\* outcome into a manual review.
Busy(j, d) == \E i \in Jobs \ {j} : jobs[i].active = d

\* Where _record_gateway_response and _record_gateway_failure leave the
\* document.
Outcome(st, j) ==
    CASE st.answer \in Final -> st.answer
      [] st.answer = "processing" /\ ~Busy(j, jobs[j].document) -> "processing"
      [] Retries(st) -> "queued"
      [] OTHER -> "manual_review"

\* The job row: done with, or waiting for its next attempt.
Completed_KeepsActive(row, st, outcome) ==      \* mutant
    [row EXCEPT !.status = IF outcome \in {"processing", "accepted"} THEN "succeeded" ELSE "failed",
                !.lease = "none"]
Completed(row, st, outcome) ==
    [row EXCEPT !.status = IF outcome \in {"processing", "accepted"} THEN "succeeded" ELSE "failed",
                !.active = Written(st.active, NoDocument, @), !.lease = "none"]
Retrying(row) == [row EXCEPT !.status = "retrying", !.lease = "none"]

\* The status of the document, as the flush of st writes it.
Recorded(st, d, outcome) ==
    [documents EXCEPT ![d].status =
        IF st.answer = "processing" /\ outcome = "manual_review" THEN outcome
        ELSE Written(st.status, outcome, @)]

\* The outcome is committed with the query that follows a "processing". The
\* index on live numbers refuses to bring back a document that has been
\* rejected and corrected: all is rolled back and the worker goes on.
FollowUp_Forgotten(st, j, outcome) ==           \* mutant
    jobs' = [jobs EXCEPT ![j] =
        IF outcome = "queued" THEN Retrying(@) ELSE Completed(@, st, outcome)]
FollowUp(st, j, outcome) ==
    LET done == [jobs EXCEPT ![j] =
            IF outcome = "queued" THEN Retrying(@) ELSE Completed(@, st, outcome)]
    IN  IF outcome = "processing"
        THEN \E k \in Jobs :
                /\ Spare(k)
                /\ jobs' = [done EXCEPT ![k] = Queued(jobs[j].document, "check_status")]
        ELSE jobs' = done
Record(w) ==
    LET st == workers[w]
        j == st.job
        d == jobs[j].document
        outcome == Outcome(st, j)
        after == Recorded(st, d, outcome)
    IN  /\ st.pc = "answered"
        /\ workers' = [workers EXCEPT ![w] = IdleWorker]
        /\ IF after[d].status = "rejected" \/ NumberFree(d, documents[d].number)
           THEN documents' = after /\ FollowUp(st, j, outcome)
           ELSE UNCHANGED <<documents, jobs>>
        /\ UNCHANGED <<range, bounds, dian, sent, crashes, overruns>>

\* The process dies, or the commit fails: the job stays running.
Crash(w) ==
    /\ workers[w].pc # "idle"
    /\ crashes < MaxCrashes
    /\ crashes' = crashes + 1
    /\ workers' = [workers EXCEPT ![w] = IdleWorker]
    /\ UNCHANGED <<documents, range, bounds, jobs, dian, sent, overruns>>

-----------------------------------------------------------------------------
(* The environment *)

\* Ten minutes pass. A lease that expires under a worker that still has the
\* job is an overrun.
LeaseExpires(j) ==
    /\ jobs[j].status = "running" /\ jobs[j].lease = "held"
    /\ Held(j) => overruns < MaxOverruns
    /\ overruns' = IF Held(j) THEN overruns + 1 ELSE overruns
    /\ jobs' = [jobs EXCEPT ![j].lease = "expired"]
    /\ UNCHANGED <<documents, range, bounds, workers, dian, sent, crashes>>

\* DIAN settles a document, for good.
Settle(d) ==
    /\ dian[d] = "received"
    /\ \E verdict \in Final : dian' = [dian EXCEPT ![d] = verdict]
    /\ UNCHANGED <<documents, range, bounds, jobs, workers, sent, crashes, overruns>>

-----------------------------------------------------------------------------
User ==
    \/ \E first, last \in Consecutives : CreateNumberingRange(first, last)
    \/ \E d \in Documents, j \in Jobs : CreateNext(d, j) \/ CreateCorrection(d, j)
Work(w) == LocalFailure(w) \/ SendTestSet(w) \/ CheckStatus(w) \/ Record(w)

Next ==
    \/ User
    \/ \E j \in Jobs : RecoverExpiredSubmission(j) \/ LeaseExpires(j)
    \/ \E w \in Workers : Work(w) \/ Crash(w) \/ \E j \in Jobs : Claim(w, j)
    \/ \E d \in Documents : Settle(d)

\* A worker that is alive finishes its job: the call is bounded by a timeout.
\* The worker loop polls without end, in the order of available_at, and
\* leases expire. Users owe nothing, nor does DIAN.
Fairness ==
    /\ \A w \in Workers : WF_vars(Work(w))
    /\ \A j \in Jobs :
        /\ SF_vars(\E w \in Workers : Claim(w, j))
        /\ WF_vars(RecoverExpiredSubmission(j))
        /\ WF_vars(LeaseExpires(j))

Spec == Init /\ [][Next]_vars
FairSpec == Spec /\ Fairness

-----------------------------------------------------------------------------
(* Properties *)

\* A document is transmitted at most once, whatever dies, overruns its lease
\* or answers late (comment of _claim_next_job: "nunca se vuelve a
\* transmitir de forma implícita").
SentOnce == \A d \in Documents : sent[d] <= 1

\* A number is free for another document only after DIAN's own rejection: of
\* two documents with one number, DIAN has rejected one for good.
RejectedBeforeReuse ==
    \A d, e \in Documents :
        (d # e /\ documents[d].number # 0 /\ documents[d].number = documents[e].number)
            => "rejected" \in {dian[d], dian[e]}

\* What DIAN is promised: the outbox implements DianSubmissions.
Submissions == INSTANCE DianSubmissions WITH
    Numbers <- Consecutives, NoNumber <- 0,
    numbers <- [d \in Documents |-> documents[d].number], verdicts <- dian
KeepsPromise == Submissions!Spec

\* No lease has expired so far under a worker still at work.
LeasesHold == overruns = 0

\* No document is forgotten, and none worked on twice: while its state is
\* open a document has one active job, and none once it is settled or handed
\* to a person, as long as leases outlast the calls.
OpenIffActive == LeasesHold =>
    \A d \in Documents :
        LET active == {j \in Jobs : jobs[j].active = d}
        IN  /\ active = {j \in Jobs : /\ jobs[j].document = d
                                     /\ jobs[j].status \in ReadyStatuses \cup {"running"}}
            /\ Cardinality(active) = IF documents[d].status \in OpenStatuses THEN 1 ELSE 0

\* DIAN's verdict on a document, once recorded, stays, as long as leases
\* outlast the calls.
VerdictStays ==
    [][LeasesHold' => \A d \in Documents :
        documents[d].status \in Final => documents'[d].status = documents[d].status]_vars

\* Every document is settled or handed to a person, through lost answers, dead
\* workers and expired leases, unless DIAN goes on answering "processing": each
\* of those answers is followed by another query (_record_gateway_response), as
\* nothing limits them, and a document stays open for no other reason.
Open(d) == documents[d].status \in OpenStatuses
StillProcessing(d) == \E w \in Workers :
    /\ workers[w].pc = "answered" /\ workers[w].answer = "processing"
    /\ jobs[workers[w].job].document = d
EveryDocumentSettled ==
    \A d \in Documents :
        <>[]Open(d) => []<>StillProcessing(d) /\ []<>~StillProcessing(d)

\* A document whose transmission was not confirmed stays in manual review: no
\* worker takes it out (docs/dian-habilitacion-software-propio.md: "si el
\* worker pierde el lease durante un envío, el documento queda en revisión
\* manual").
ReviewStays ==
    [][\A d \in Documents : documents[d].status = "manual_review"
                              => documents'[d].status = "manual_review"]_vars

\* A number is used again only to correct a rejected document ("consecutivos
\* no reutilizables"; "puede cargarse una corrección vinculada").
ReuseIsCorrection ==
    \A d, e \in Documents :
        (d # e /\ documents[d].number # 0 /\ documents[d].number = documents[e].number)
            => documents[d].corrects # NoDocument \/ documents[e].corrects # NoDocument
=============================================================================
