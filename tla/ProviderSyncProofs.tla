------------------------- MODULE ProviderSyncProofs -------------------------
(***************************************************************************)
(* The queue of ProviderSync, for any number of sources, jobs, workers,    *)
(* requests and pages: its states are well typed, a source has at most one *)
(* active job, and a finished job stays finished.                          *)
(*                                                                         *)
(* Typing needs References: jobs, workers and requests name rows that      *)
(* exist. One active job per source is not inductive over the rows alone:  *)
(* requests commit later what they selected before, so Reservations says   *)
(* that a request that will insert a job owns an identity no other holds,  *)
(* and that the jobs a request will cancel exist.                          *)
(*                                                                         *)
(* While requests to one source do not overlap (Apart), its credential is  *)
(* the one its requests have seen (ConnectedInv): a source is active only  *)
(* with a credential that was tested, and only the current secret is sent. *)
(*                                                                         *)
(* No page is skipped (NoPageSkipped). A cursor travels: from the source   *)
(* to an enqueue request, to the job, to a worker that loads it, and back  *)
(* to the job and the source one page further. The inductive invariant     *)
(* says that wherever a copy of a cursor is, however stale, all pages      *)
(* before it are persisted; since parties are never deleted, a stale copy  *)
(* stays true.                                                             *)
(*                                                                         *)
(* While leases hold, a worker has its job to itself and what it loaded is *)
(* what is stored (LeasedInv): parties are inserted once and a cursor only *)
(* advances. The attempts of a job are bounded whether or not leases hold, *)
(* by a count of the workers that still hold it and of those that may yet  *)
(* put it back (BudgetInv).                                                *)
(***************************************************************************)
EXTENDS ProviderSync, FiniteSetTheorems, TLAPS

References ==
    /\ \A j \in Jobs : jobs[j].status # "absent" => jobs[j].source \in Sources
    /\ \A w \in Workers : workers[w].pc # "idle" =>
            workers[w].job \in Jobs /\ jobs[workers[w].job].status # "absent"
    /\ \A r \in Requests : requests[r].op # "none" => requests[r].source \in Sources

TypeInv == TypeOK /\ References

LEMMA NextCursorType == \A c \in Pages : NextCursor(c) \in Pages
  BY PagesAssumption DEF NextCursor, Pages

LEMMA ZeroPage == 0 \in Pages
  BY PagesAssumption DEF Pages

LEMMA NullTypes ==
    /\ NoCredential \in Credentials
    /\ NewSource \in SourceRow
    /\ AbsentJob \in JobRow
    /\ IdleWorker \in WorkerState
    /\ NoRequest \in RequestState
  BY ZeroPage DEF NoCredential, Credentials, NewSource, SourceRow, SourceStatuses,
     AbsentJob, JobRow, JobStatuses, IdleWorker, WorkerState, NoRequest, RequestState,
     NoSecret, NoLease

LEMMA InitType == Init => TypeInv
  <1> SUFFICES ASSUME Init PROVE TypeInv
    OBVIOUS
  <1>1. TypeOK
    BY NullTypes DEF Init, TypeOK
  <1>2. References
    BY DEF Init, References, AbsentJob, IdleWorker, NoRequest
  <1> QED BY <1>1, <1>2 DEF TypeInv

-----------------------------------------------------------------------------
(* The row operators return rows, and keep the source a job belongs to *)

LEMMA JobAfterClaimRow ==
  ASSUME NEW row \in JobRow
  PROVE  /\ JobAfterClaim(row) \in JobRow
         /\ JobAfterClaim(row).status = "running"
         /\ JobAfterClaim(row).source = row.source
  <1> DEFINE lent == IF row.status = "running" THEN row.lent + 1 ELSE row.lent
  <1>1. /\ row.attempts + 1 \in Nat
        /\ lent \in Nat
        /\ LeaseTicks \in {NoLease} \cup Nat
    BY SettingsAssumption DEF JobRow
  <1>2. "running" \in JobStatuses
    BY DEF JobStatuses
  <1>3. JobAfterClaim(row) = [row EXCEPT !.status = "running", !.attempts = @ + 1,
                                         !.lease = LeaseTicks, !.lent = lent]
    BY DEF JobAfterClaim
  <1> HIDE DEF lent
  <1> QED BY <1>1, <1>2, <1>3 DEF JobRow

LEMMA JobAfterPageRow ==
  ASSUME NEW row \in JobRow, NEW st \in WorkerState
  PROVE  /\ JobAfterPage(row, st) \in JobRow
         /\ JobAfterPage(row, st).status \in {"queued", "succeeded"}
         /\ JobAfterPage(row, st).source = row.source
  <1>1. st.pages + 1 \in Nat /\ st.cursor \in Pages /\ NextCursor(st.cursor) \in Pages
    BY NextCursorType DEF WorkerState
  <1>2. CASE IsLastPage(st.cursor)
    BY <1>1, <1>2 DEF JobAfterPage, JobRow, JobStatuses
  <1>3. CASE ~IsLastPage(st.cursor)
    BY <1>1, <1>3 DEF JobAfterPage, JobRow, JobStatuses
  <1> QED BY <1>2, <1>3

LEMMA RetryDelayType == \A n \in 0..MaxAttempts : RetryDelay(n) \in Nat
  <1>1. \A n \in 0..MaxAttempts : Power2(n) \in Nat
    BY PowerAssumption, Zenon DEF Power2
  <1> QED BY <1>1, SettingsAssumption DEF RetryDelay

LEMMA JobAfterFailureRow ==
  ASSUME NEW row \in JobRow, NEW st \in WorkerState
  PROVE  /\ JobAfterFailure(row, st) \in JobRow
         /\ JobAfterFailure(row, st).status \in {"retrying", "failed"}
         /\ JobAfterFailure(row, st).source = row.source
  <1>1. CASE Retries(st)
    <2>1. st.attempts \in 0..MaxAttempts
      BY <1>1, SettingsAssumption DEF Retries, WorkerState
    <2>2. RetryDelay(st.attempts) \in Nat
      BY <2>1, RetryDelayType
    <2> QED BY <1>1, <2>2 DEF JobAfterFailure, JobRow, JobStatuses
  <1>2. CASE ~Retries(st)
    BY <1>2 DEF JobAfterFailure, JobRow, JobStatuses
  <1> QED BY <1>1, <1>2

LEMMA SourceRows ==
  ASSUME NEW row \in SourceRow
  PROVE  /\ \A st \in WorkerState : SourceAfterPage(row, st) \in SourceRow
         /\ \A req \in RequestState, status \in SourceStatuses, credential \in Credentials :
                SourceReset(row, req, status, credential) \in SourceRow
         /\ \A req \in RequestState, accepted \in BOOLEAN :
                SourceAfterTest(row, req, accepted) \in SourceRow
  <1>1. \A st \in WorkerState : SourceAfterPage(row, st) \in SourceRow
    BY NextCursorType DEF SourceAfterPage, Written, SourceRow, WorkerState
  <1>2. \A req \in RequestState, status \in SourceStatuses, credential \in Credentials :
                SourceReset(row, req, status, credential) \in SourceRow
    BY ZeroPage DEF SourceReset, Written, SourceRow
  <1>3. ASSUME NEW req \in RequestState, NEW accepted \in BOOLEAN
        PROVE  SourceAfterTest(row, req, accepted) \in SourceRow
    <2>1. req.secret \in Nat
      BY DEF RequestState
    <2>2. row.tested \cup {req.secret} \in SUBSET Nat
      BY <2>1 DEF SourceRow
    <2>3. CASE accepted
      BY <2>2, <2>3 DEF SourceAfterTest, Written, SourceRow, SourceStatuses
    <2>4. CASE ~accepted
      BY <2>4 DEF SourceAfterTest, Written, SourceRow, SourceStatuses
    <2> QED BY <2>3, <2>4
  <1> QED BY <1>1, <1>2, <1>3

-----------------------------------------------------------------------------
(* Type correctness, one lemma per action of the worker *)

LEMMA ClaimType ==
  ASSUME NEW w \in Workers, NEW j \in Jobs, TypeInv, Claim(w, j)
  PROVE  TypeInv'
  <1> USE DEF TypeInv
  <1>1. jobs[j] \in JobRow /\ jobs[j].status # "absent"
    BY DEF Claim, Claimable, TypeOK
  <1>2. [IdleWorker EXCEPT !.pc = "claimed", !.job = j] \in WorkerState
    BY NullTypes DEF IdleWorker, WorkerState
  <1>3. TypeOK'
    BY <1>1, <1>2, JobAfterClaimRow DEF Claim, TypeOK
  <1>4. References'
    BY <1>1, JobAfterClaimRow DEF Claim, TypeOK, References, IdleWorker
  <1> QED BY <1>3, <1>4

LEMMA LoadType ==
  ASSUME NEW w \in Workers, TypeInv, Load(w)
  PROVE  TypeInv'
  <1> USE DEF TypeInv
  <1> DEFINE job == jobs[workers[w].job]
  <1>1. workers[w] \in WorkerState /\ workers[w].job \in Jobs /\ job \in JobRow
    BY DEF Load, TypeOK, References
  <1>2. job.source \in Sources
    BY <1>1 DEF Load, References
  <1>3. sources[job.source] \in SourceRow /\ sources[job.source].credential \in Credentials
    BY <1>2 DEF TypeOK, SourceRow
  <1>4. workers'[w] \in WorkerState
    BY <1>1, <1>3 DEF Load, TypeOK, WorkerState, JobRow, SourceRow, Credentials
  <1>5. TypeOK'
    BY <1>4 DEF Load, TypeOK
  <1>6. References'
    BY <1>1 DEF Load, References, TypeOK
  <1> QED BY <1>5, <1>6

LEMMA AnswerType ==
  ASSUME NEW w \in Workers, TypeInv, Answer(w)
  PROVE  TypeInv'
  <1> USE DEF TypeInv
  <1>1. workers[w] \in WorkerState
    BY DEF TypeOK
  <1>2. CASE FetchPage(w)
    BY <1>1, <1>2 DEF FetchPage, Missing, TypeOK, References, WorkerState
  <1>3. ASSUME NEW kind \in {"retryable", "fatal"}, FetchError(w, kind)
        PROVE  TypeInv'
    BY <1>1, <1>3 DEF FetchError, TypeOK, References, WorkerState
  <1> QED BY <1>2, <1>3 DEF Answer

LEMMA FinalizePageType ==
  ASSUME NEW w \in Workers, TypeInv, FinalizePage(w)
  PROVE  TypeInv'
  <1> USE DEF TypeInv
  <1> DEFINE st == workers[w]
             j == workers[w].job
             s == jobs[workers[w].job].source
  <1>1. st \in WorkerState /\ j \in Jobs /\ jobs[j] \in JobRow /\ s \in Sources
    BY DEF FinalizePage, TypeOK, References
  <1>2. workers' = [workers EXCEPT ![w] = IdleWorker]
    BY DEF FinalizePage
  <1>3. CASE ~StillRunning(j)
    BY <1>1, <1>2, <1>3, NullTypes DEF FinalizePage, TypeOK, References, IdleWorker
  <1>4. CASE StillRunning(j)
    <2>1. /\ jobs' = [jobs EXCEPT ![j] = JobAfterPage(@, st)]
          /\ sources' = [sources EXCEPT ![s] = SourceAfterPage(@, st)]
          /\ inserted' = [inserted EXCEPT ![s][st.cursor] = IF st.missing THEN @ + 1 ELSE @]
          /\ UNCHANGED <<requests, saves, crashes, overruns>>
      BY <1>4 DEF FinalizePage
    <2>2. jobs' \in [Jobs -> JobRow]
      BY <1>1, <2>1, JobAfterPageRow DEF TypeOK
    <2>3. sources' \in [Sources -> SourceRow]
      BY <1>1, <2>1, SourceRows DEF TypeOK
    <2>4. inserted' \in [Sources -> [Pages -> Nat]]
      BY <1>1, <2>1 DEF TypeOK, WorkerState
    <2>5. workers' \in [Workers -> WorkerState]
      BY <1>2, NullTypes DEF TypeOK
    <2>6. TypeOK'
      BY <2>1, <2>2, <2>3, <2>4, <2>5 DEF TypeOK
    <2>7. References'
      BY <1>1, <1>2, <2>1, JobAfterPageRow DEF References, TypeOK, IdleWorker
    <2> QED BY <2>6, <2>7
  <1> QED BY <1>3, <1>4

LEMMA FinalizeFailureType ==
  ASSUME NEW w \in Workers, TypeInv, FinalizeFailure(w)
  PROVE  TypeInv'
  <1> USE DEF TypeInv
  <1> DEFINE st == workers[w]
             j == workers[w].job
             s == jobs[workers[w].job].source
  <1>1. st \in WorkerState /\ j \in Jobs /\ jobs[j] \in JobRow /\ s \in Sources
    BY DEF FinalizeFailure, TypeOK, References
  <1>2. /\ workers' = [workers EXCEPT ![w] = IdleWorker]
        /\ UNCHANGED <<requests, inserted, saves, crashes, overruns>>
    BY DEF FinalizeFailure
  <1>3. CASE ~StillRunning(j)
    BY <1>1, <1>2, <1>3, NullTypes DEF FinalizeFailure, TypeOK, References, IdleWorker
  <1>4. CASE StillRunning(j)
    <2>1. PICK fails \in BOOLEAN :
          /\ jobs' = [jobs EXCEPT ![j] = JobAfterFailure(@, st)]
          /\ sources' = [sources EXCEPT ![s].status = IF fails THEN "failed" ELSE @]
      BY <1>4 DEF FinalizeFailure
    <2>2. jobs' \in [Jobs -> JobRow]
      BY <1>1, <2>1, JobAfterFailureRow DEF TypeOK
    <2>3. sources' \in [Sources -> SourceRow]
      BY <1>1, <2>1, ZenonT(40) DEF TypeOK, SourceRow, SourceStatuses
    <2>4. TypeOK'
      BY <1>2, <2>2, <2>3, NullTypes DEF TypeOK
    <2>5. References'
      BY <1>1, <1>2, <2>1, JobAfterFailureRow DEF References, TypeOK, IdleWorker
    <2> QED BY <2>4, <2>5
  <1> QED BY <1>3, <1>4

LEMMA CrashType ==
  ASSUME NEW w \in Workers, TypeInv, Crash(w)
  PROVE  TypeInv'
  BY NullTypes DEF TypeInv, Crash, TypeOK, References, IdleWorker

LEMMA TickType ==
  ASSUME TypeInv, Tick
  PROVE  TypeInv'
  <1> USE DEF TypeInv
  <1>1. ASSUME NEW j \in Jobs
        PROVE  /\ jobs'[j] \in JobRow
               /\ jobs'[j].status = jobs[j].status
               /\ jobs'[j].source = jobs[j].source
    <2>1. jobs[j] \in JobRow
      BY DEF TypeOK
    <2>2. Down(jobs[j].avail) \in Nat /\ Down(jobs[j].lease) \in {NoLease} \cup Nat
      BY <2>1 DEF JobRow, Down, NoLease
    <2> QED BY <2>1, <2>2 DEF Tick, JobRow
  <1>2. overruns' \in Nat
    <2>1. overruns' = overruns + 1 \/ overruns' = overruns
      BY Zenon DEF Tick
    <2> QED BY <2>1 DEF TypeOK
  <1>3. TypeOK'
    BY <1>1, <1>2 DEF Tick, TypeOK
  <1>4. References'
    BY <1>1 DEF Tick, References, TypeOK
  <1> QED BY <1>3, <1>4

-----------------------------------------------------------------------------
(* Type correctness, one lemma per action of a request *)

LEMMA BegunRequest ==
  ASSUME NEW s \in Sources, NEW op \in {"save", "revoke", "test", "enqueue", "sync"}
  PROVE  Begun(op, s) \in RequestState /\ Begun(op, s).source = s
  BY NullTypes DEF Begun, NoRequest, RequestState

LEMMA LoadedRequest ==
  ASSUME NEW s \in Sources, NEW op \in {"save", "revoke"}, TypeOK
  PROVE  Loaded(op, s) \in RequestState /\ Loaded(op, s).source = s
  <1>1. sources[s] \in SourceRow
    BY DEF TypeOK
  <1>2. /\ ActiveJobs(s) \subseteq Jobs
        /\ {j \in ActiveJobs(s) : jobs[j].lease # NoLease} \subseteq Jobs
    BY DEF ActiveJobs
  <1>3. Begun(op, s) \in RequestState /\ Begun(op, s).source = s
    BY BegunRequest
  <1> DEFINE active == ActiveJobs(s)
             leased == {j \in ActiveJobs(s) : jobs[j].lease # NoLease}
  <1>4. Loaded(op, s) = [Begun(op, s) EXCEPT !.status = sources[s].status,
                !.cursor = sources[s].cursor, !.credential = sources[s].credential,
                !.jobs = active, !.leased = leased]
    BY DEF Loaded
  <1>5. active \in SUBSET Jobs /\ leased \in SUBSET Jobs
    BY <1>2
  <1> HIDE DEF active, leased
  <1>6. /\ sources[s].status \in SourceStatuses
        /\ sources[s].cursor \in Pages
        /\ sources[s].credential \in Credentials
    BY <1>1 DEF SourceRow
  <1> QED BY <1>3, <1>4, <1>5, <1>6 DEF RequestState

LEMMA BeginType ==
  ASSUME NEW r \in Requests, TypeInv, Begin(r)
  PROVE  TypeInv'
  <1> USE DEF TypeInv
  <1>1. PICK s \in Sources :
          BeginSave(r, s) \/ BeginRevoke(r, s) \/ BeginTest(r, s) \/ BeginEnqueue(r, s)
    BY DEF Begin
  <1>2. /\ sources[s] \in SourceRow
        /\ sources[s].credential.secret \in Nat
        /\ saves \in Nat
    BY DEF TypeOK, SourceRow, Credentials
  <1>3. PICK req :
          /\ requests' = [requests EXCEPT ![r] = req]
          /\ req \in RequestState
          /\ req.source = s
    <2>1. CASE BeginSave(r, s)
      <3> DEFINE req == [Loaded("save", s) EXCEPT !.secret = saves + 1]
      <3>1. req \in RequestState /\ req.source = s
        BY <1>2, LoadedRequest DEF RequestState
      <3>2. requests' = [requests EXCEPT ![r] = req]
        BY <2>1 DEF BeginSave
      <3> QED BY <3>1, <3>2
    <2>2. CASE BeginRevoke(r, s)
      BY <2>2, LoadedRequest DEF BeginRevoke
    <2>3. CASE BeginTest(r, s)
      <3> DEFINE req == [Begun("test", s) EXCEPT !.status = sources[s].status,
                                     !.secret = sources[s].credential.secret]
      <3>0. Begun("test", s) \in RequestState /\ Begun("test", s).source = s
        BY BegunRequest
      <3>1. req \in RequestState /\ req.source = s
        BY <1>2, <3>0 DEF RequestState, SourceRow
      <3>2. requests' = [requests EXCEPT ![r] = req]
        BY <2>3 DEF BeginTest
      <3> QED BY <3>1, <3>2
    <2>4. CASE BeginEnqueue(r, s)
      <3>1. PICK j \in Jobs : requests' = [requests EXCEPT ![r] =
                [Begun("enqueue", s) EXCEPT !.cursor = sources[s].cursor, !.jobs = {j}]]
        BY <2>4 DEF BeginEnqueue
      <3> DEFINE req == [Begun("enqueue", s) EXCEPT !.cursor = sources[s].cursor,
                                                    !.jobs = {j}]
      <3>0. Begun("enqueue", s) \in RequestState /\ Begun("enqueue", s).source = s
        BY BegunRequest
      <3>2. req \in RequestState /\ req.source = s
        BY <1>2, <3>0 DEF RequestState, SourceRow
      <3> QED BY <3>1, <3>2
    <2> QED BY <1>1, <2>1, <2>2, <2>3, <2>4
  <1>4. saves' \in Nat /\ UNCHANGED <<sources, jobs, workers, inserted, crashes, overruns>>
    <2>1. CASE BeginSave(r, s)
      BY <1>2, <2>1 DEF BeginSave
    <2>2. CASE BeginRevoke(r, s) \/ BeginTest(r, s) \/ BeginEnqueue(r, s)
      BY <1>2, <2>2 DEF BeginRevoke, BeginTest, BeginEnqueue
    <2> QED BY <1>1, <2>1, <2>2
  <1>5. TypeOK'
    BY <1>3, <1>4 DEF TypeOK
  <1>6. References'
    BY <1>3, <1>4 DEF References, TypeOK
  <1> QED BY <1>5, <1>6

\* _cancel_active_sync_jobs keeps every row a row of the same source.
LEMMA CancelledRows ==
  ASSUME TypeOK, NEW req \in RequestState, jobs' = Cancelled(req),
         \A j \in req.jobs : jobs[j].status # "absent"
  PROVE  /\ jobs' \in [Jobs -> JobRow]
         /\ \A j \in Jobs : /\ jobs'[j].source = jobs[j].source
                            /\ (jobs[j].status = "absent") <=> (jobs'[j].status = "absent")
  <1>1. ASSUME NEW j \in Jobs
        PROVE  /\ jobs'[j] \in JobRow
               /\ jobs'[j].source = jobs[j].source
               /\ (jobs[j].status = "absent") <=> (jobs'[j].status = "absent")
    <2>1. jobs[j] \in JobRow
      BY DEF TypeOK
    <2>2. CASE j \in req.jobs /\ j \in req.leased
      BY <2>1, <2>2 DEF Cancelled, JobRow, JobStatuses
    <2>3. CASE j \in req.jobs /\ j \notin req.leased
      BY <2>1, <2>3 DEF Cancelled, JobRow, JobStatuses
    <2>4. CASE j \notin req.jobs
      BY <2>1, <2>4 DEF Cancelled
    <2> QED BY <2>2, <2>3, <2>4
  <1>2. jobs' = [j \in Jobs |-> jobs'[j]]
    BY DEF Cancelled
  <1> QED BY <1>1, <1>2

\* What a commit that keeps the workers and removes its request leaves true.
LEMMA RespondType ==
  ASSUME NEW r \in Requests, TypeInv, Respond(r),
         UNCHANGED <<workers, crashes, overruns, saves>>,
         sources' \in [Sources -> SourceRow],
         jobs' \in [Jobs -> JobRow],
         inserted' \in [Sources -> [Pages -> Nat]],
         \A j \in Jobs : jobs[j].status # "absent" =>
            jobs'[j].status # "absent" /\ jobs'[j].source = jobs[j].source,
         \A j \in Jobs : jobs[j].status = "absent" /\ jobs'[j].status # "absent" =>
            jobs'[j].source \in Sources
  PROVE  TypeInv'
  <1>1. TypeOK'
    BY NullTypes DEF TypeInv, TypeOK, Respond
  <1>2. References'
    BY DEF TypeInv, TypeOK, References, Respond, NoRequest
  <1> QED BY <1>1, <1>2 DEF TypeInv

LEMMA CommitSaveType ==
  ASSUME NEW r \in Requests, TypeInv, CommitSave(r),
         \A j \in requests[r].jobs : jobs[j].status # "absent"
  PROVE  TypeInv'
  <1> DEFINE req == requests[r]
  <1>1. req \in RequestState /\ req.source \in Sources
    BY DEF TypeInv, TypeOK, References, CommitSave
  <1>2. UNCHANGED <<workers, inserted, saves, crashes, overruns>> /\ Respond(r)
    BY DEF CommitSave
  <1>3. \/ jobs' = Cancelled(req) /\ \E c \in Credentials :
              sources' = [sources EXCEPT ![req.source] = SourceReset(@, req, "pending", c)]
        \/ UNCHANGED <<jobs, sources>>
    BY <1>1 DEF CommitSave, RequestState, Credentials
  <1>4. inserted' \in [Sources -> [Pages -> Nat]]
    BY <1>2 DEF TypeInv, TypeOK
  <1>5. ASSUME jobs' = Cancelled(req), NEW c \in Credentials,
               sources' = [sources EXCEPT ![req.source] = SourceReset(@, req, "pending", c)]
        PROVE  TypeInv'
    <2>1. sources' \in [Sources -> SourceRow]
      BY <1>1, <1>5, SourceRows DEF TypeInv, TypeOK, SourceStatuses
    <2>2. /\ jobs' \in [Jobs -> JobRow]
          /\ \A j \in Jobs : /\ jobs'[j].source = jobs[j].source
                             /\ (jobs[j].status = "absent") <=> (jobs'[j].status = "absent")
      BY <1>1, <1>5, CancelledRows DEF TypeInv
    <2> QED BY <1>1, <1>2, <1>4, <2>1, <2>2, RespondType
  <1>6. CASE UNCHANGED <<jobs, sources>>
    BY <1>1, <1>2, <1>4, <1>6, RespondType DEF TypeInv, TypeOK, References
  <1> QED BY <1>3, <1>5, <1>6

LEMMA CommitRevokeType ==
  ASSUME NEW r \in Requests, TypeInv, CommitRevoke(r),
         \A j \in requests[r].jobs : jobs[j].status # "absent"
  PROVE  TypeInv'
  <1> DEFINE req == requests[r]
  <1>1. req \in RequestState /\ req.source \in Sources
    BY DEF TypeInv, TypeOK, References, CommitRevoke
  <1>2. /\ UNCHANGED <<workers, inserted, saves, crashes, overruns>>
        /\ Respond(r)
        /\ jobs' = Cancelled(req)
    BY DEF CommitRevoke
  <1>3. PICK c \in Credentials :
          sources' = [sources EXCEPT ![req.source] = SourceReset(@, req, "disabled", c)]
    BY <1>1, NullTypes DEF CommitRevoke, TypeInv, TypeOK, SourceRow
  <1>4. sources' \in [Sources -> SourceRow]
    BY <1>1, <1>3, SourceRows DEF TypeInv, TypeOK, SourceStatuses
  <1>5. inserted' \in [Sources -> [Pages -> Nat]]
    BY <1>2 DEF TypeInv, TypeOK
  <1>6. /\ jobs' \in [Jobs -> JobRow]
        /\ \A j \in Jobs : /\ jobs'[j].source = jobs[j].source
                           /\ (jobs[j].status = "absent") <=> (jobs'[j].status = "absent")
    BY <1>1, <1>2, CancelledRows DEF TypeInv
  <1> QED BY <1>1, <1>2, <1>4, <1>5, <1>6, RespondType

LEMMA CommitTestType ==
  ASSUME NEW r \in Requests, TypeInv, CommitTest(r)
  PROVE  TypeInv'
  <1> DEFINE req == requests[r]
  <1>1. req \in RequestState /\ req.source \in Sources
    BY DEF TypeInv, TypeOK, References, CommitTest
  <1>2. UNCHANGED <<jobs, workers, inserted, saves, crashes, overruns>> /\ Respond(r)
    BY DEF CommitTest
  <1>3. PICK accepted \in BOOLEAN :
          sources' = [sources EXCEPT ![req.source] = SourceAfterTest(@, req, accepted)]
    BY DEF CommitTest
  <1>4. sources' \in [Sources -> SourceRow]
    BY <1>1, <1>3, SourceRows DEF TypeInv, TypeOK
  <1> QED BY <1>1, <1>2, <1>4, RespondType DEF TypeInv, TypeOK, References

LEMMA CommitEnqueueType ==
  ASSUME NEW r \in Requests, TypeInv, CommitEnqueue(r),
         \A j \in requests[r].jobs : jobs[j].status = "absent"
  PROVE  TypeInv'
  <1> DEFINE req == requests[r]
             new == [AbsentJob EXCEPT !.status = "queued", !.source = req.source,
                                      !.active = req.source, !.cursor = req.cursor]
  <1>1. req \in RequestState /\ req.source \in Sources
    BY DEF TypeInv, TypeOK, References, CommitEnqueue
  <1>2. UNCHANGED <<sources, workers, inserted, saves, crashes, overruns>> /\ Respond(r)
    BY DEF CommitEnqueue
  <1>3. new \in JobRow /\ new.status = "queued" /\ new.source = req.source
    BY <1>1, NullTypes DEF AbsentJob, JobRow, JobStatuses, RequestState
  <1> HIDE DEF new
  <1>4. \/ jobs' = jobs
        \/ jobs' = [j \in Jobs |-> IF j \in req.jobs THEN new ELSE jobs[j]]
    BY DEF CommitEnqueue, new
  <1>5. CASE jobs' = jobs
    BY <1>1, <1>2, <1>5, RespondType DEF TypeInv, TypeOK, References
  <1>6. CASE jobs' = [j \in Jobs |-> IF j \in req.jobs THEN new ELSE jobs[j]]
    <2>1. jobs' \in [Jobs -> JobRow]
      BY <1>3, <1>6 DEF TypeInv, TypeOK
    <2>2. \A j \in Jobs : jobs[j].status # "absent" => jobs'[j] = jobs[j]
      BY <1>6
    <2>3. \A j \in Jobs : jobs[j].status = "absent" /\ jobs'[j].status # "absent" =>
            jobs'[j].source \in Sources
      BY <1>1, <1>3, <1>6
    <2> QED BY <1>2, <2>1, <2>2, <2>3, RespondType DEF TypeInv, TypeOK
  <1> QED BY <1>4, <1>5, <1>6

LEMMA DirectSyncType ==
  ASSUME NEW r \in Requests, TypeInv, DirectSync(r)
  PROVE  TypeInv'
  <1> DEFINE req == requests[r]
  <1>1. req \in RequestState /\ (req.op # "none" => req.source \in Sources)
    BY DEF TypeInv, TypeOK, References
  <1>2. ASSUME NEW s \in Sources, BeginSync(r, s)
        PROVE  TypeInv'
    <2>1. sources[s] \in SourceRow
      BY DEF TypeInv, TypeOK
    <2>2. requests'[r] \in RequestState /\ requests'[r].source = s
      BY <1>2, <2>1, NullTypes DEF BeginSync, Begun, NoRequest, RequestState, TypeInv,
         TypeOK, SourceRow, Credentials
    <2> QED BY <1>2, <2>2 DEF BeginSync, TypeInv, TypeOK, References
  <1>3. CASE SyncPage(r)
    BY <1>1, <1>3 DEF SyncPage, Missing, TypeInv, TypeOK, References, RequestState
  <1>4. CASE SyncError(r)
    <2>1. sources' \in [Sources -> SourceRow]
      BY <1>1, <1>4 DEF SyncError, TypeInv, TypeOK, SourceRow, SourceStatuses
    <2> QED BY <1>4, <2>1, RespondType DEF SyncError, TypeInv, TypeOK, References
  <1>5. CASE CommitSync(r)
    <2>1. NextCursor(req.cursor) \in Pages
      BY <1>1, NextCursorType DEF RequestState
    <2>2. sources' \in [Sources -> SourceRow]
      BY <1>1, <1>5, <2>1 DEF CommitSync, Written, TypeInv, TypeOK, SourceRow
    <2>3. inserted' \in [Sources -> [Pages -> Nat]]
      BY <1>1, <1>5 DEF CommitSync, TypeInv, TypeOK, RequestState
    <2> QED BY <1>5, <2>2, <2>3, RespondType DEF CommitSync, TypeInv, TypeOK, References
  <1> QED BY <1>2, <1>3, <1>4, <1>5 DEF DirectSync

-----------------------------------------------------------------------------
(* The effect of every step on the rows of the queue *)

\* An enqueue request owns the identity of the row it will insert; the
\* requests that cancel name rows that exist.
Reservations ==
    \A r \in Requests :
        /\ requests[r].op \in {"save", "revoke"} =>
              \A j \in requests[r].jobs : jobs[j].status # "absent"
        /\ requests[r].op = "enqueue" =>
              \E j \in Jobs :
                 /\ requests[r].jobs = {j}
                 /\ jobs[j].status = "absent"
                 /\ \A other \in Requests \ {r} : j \notin requests[other].jobs
        /\ requests[r].op \notin {"save", "revoke", "enqueue"} => requests[r].jobs = {}

QueueInv == TypeInv /\ Reservations /\ OneActiveJob

Keeps(j) ==
    /\ jobs'[j].active = jobs[j].active
    /\ (jobs'[j].status = "absent") <=> (jobs[j].status = "absent")
    /\ (jobs'[j].status \in ActiveStatuses) <=> (jobs[j].status \in ActiveStatuses)
    /\ jobs'[j].source = jobs[j].source
Ends(j) ==
    /\ jobs[j].status # "absent"
    /\ jobs'[j].status \in FinishedStatuses
    /\ jobs'[j].active = NoSource
    /\ jobs'[j].source = jobs[j].source
Starts(r) ==
    /\ requests[r].op = "enqueue"
    /\ requests' = [requests EXCEPT ![r] = NoRequest]
    /\ \A i \in Jobs : jobs[i].active # requests[r].source
    /\ \A j \in Jobs :
        IF j \in requests[r].jobs
        THEN /\ jobs'[j].status = "queued"
             /\ jobs'[j].source = requests[r].source
             /\ jobs'[j].active = requests[r].source
        ELSE jobs'[j] = jobs[j]
JobsMove ==
    \/ \A j \in Jobs : Keeps(j) \/ Ends(j)
    \/ \E r \in Requests : Starts(r)

LEMMA UnchangedJobsMove == ASSUME UNCHANGED jobs PROVE JobsMove
  BY DEF JobsMove, Keeps

LEMMA ClaimMove ==
  ASSUME NEW w \in Workers, NEW j \in Jobs, QueueInv, Claim(w, j)
  PROVE  JobsMove
  <1>1. /\ jobs[j] \in JobRow
        /\ jobs[j].status \in ActiveStatuses
    BY DEF QueueInv, TypeInv, TypeOK, Claim, Claimable, ActiveStatuses
  <1>2. /\ JobAfterClaim(jobs[j]).status = "running"
        /\ JobAfterClaim(jobs[j]).source = jobs[j].source
        /\ JobAfterClaim(jobs[j]).active = jobs[j].active
    BY <1>1 DEF JobAfterClaim, JobRow
  <1>3. \A i \in Jobs : IF i = j THEN jobs'[i] = JobAfterClaim(jobs[j]) ELSE jobs'[i] = jobs[i]
    BY DEF QueueInv, TypeInv, TypeOK, Claim
  <1> QED BY <1>1, <1>2, <1>3 DEF JobsMove, Keeps, ActiveStatuses

LEMMA FinalizeMove ==
  ASSUME NEW w \in Workers, QueueInv, Finalize(w)
  PROVE  JobsMove
  <1> DEFINE st == workers[w]
             j == workers[w].job
  <1>1. st \in WorkerState /\ j \in Jobs /\ jobs[j] \in JobRow
    BY DEF Finalize, FinalizePage, FinalizeFailure, QueueInv, TypeInv, TypeOK, References
  <1>2. CASE ~StillRunning(j)
    BY <1>2, UnchangedJobsMove DEF Finalize, FinalizePage, FinalizeFailure
  <1>3. CASE StillRunning(j) /\ FinalizePage(w)
    <2>1. \A i \in Jobs : IF i = j THEN jobs'[i] = JobAfterPage(jobs[j], st)
                                  ELSE jobs'[i] = jobs[i]
      BY <1>1, <1>3 DEF FinalizePage, QueueInv, TypeInv, TypeOK
    <2>2. JobAfterPage(jobs[j], st).source = jobs[j].source
      BY <1>1, JobAfterPageRow
    <2>3. CASE IsLastPage(st.cursor)
      <3>1. /\ JobAfterPage(jobs[j], st).status = "succeeded"
            /\ JobAfterPage(jobs[j], st).active = NoSource
        BY <1>1, <2>3 DEF JobAfterPage, JobRow
      <3> QED BY <1>3, <2>1, <2>2, <3>1
              DEF JobsMove, Keeps, Ends, StillRunning, FinishedStatuses
    <2>4. CASE ~IsLastPage(st.cursor)
      <3>1. /\ JobAfterPage(jobs[j], st).status = "queued"
            /\ JobAfterPage(jobs[j], st).active = jobs[j].active
        BY <1>1, <2>4 DEF JobAfterPage, JobRow
      <3> QED BY <1>3, <2>1, <2>2, <3>1 DEF JobsMove, Keeps, StillRunning, ActiveStatuses
    <2> QED BY <2>3, <2>4
  <1>4. CASE StillRunning(j) /\ FinalizeFailure(w)
    <2>1. \A i \in Jobs : IF i = j THEN jobs'[i] = JobAfterFailure(jobs[j], st)
                                  ELSE jobs'[i] = jobs[i]
      BY <1>1, <1>4 DEF FinalizeFailure, QueueInv, TypeInv, TypeOK
    <2>2. JobAfterFailure(jobs[j], st).source = jobs[j].source
      BY <1>1, JobAfterFailureRow
    <2>3. CASE ~Retries(st)
      <3>1. /\ JobAfterFailure(jobs[j], st).status = "failed"
            /\ JobAfterFailure(jobs[j], st).active = NoSource
        BY <1>1, <2>3 DEF JobAfterFailure, JobRow
      <3> QED BY <1>4, <2>1, <2>2, <3>1
              DEF JobsMove, Keeps, Ends, StillRunning, FinishedStatuses
    <2>4. CASE Retries(st)
      <3>1. /\ JobAfterFailure(jobs[j], st).status = "retrying"
            /\ JobAfterFailure(jobs[j], st).active = jobs[j].active
        BY <1>1, <2>4 DEF JobAfterFailure, JobRow
      <3> QED BY <1>4, <2>1, <2>2, <3>1 DEF JobsMove, Keeps, StillRunning, ActiveStatuses
    <2> QED BY <2>3, <2>4
  <1> QED BY <1>2, <1>3, <1>4 DEF Finalize

LEMMA TickMove ==
  ASSUME QueueInv, Tick
  PROVE  JobsMove
  <1>1. ASSUME NEW j \in Jobs
        PROVE  /\ jobs'[j].status = jobs[j].status
               /\ jobs'[j].source = jobs[j].source
               /\ jobs'[j].active = jobs[j].active
    <2>1. jobs[j] \in JobRow
      BY DEF QueueInv, TypeInv, TypeOK
    <2> QED BY <2>1 DEF Tick, JobRow
  <1> QED BY <1>1 DEF JobsMove, Keeps

LEMMA CancelMove ==
  ASSUME NEW r \in Requests, QueueInv, jobs' = Cancelled(requests[r]),
         requests[r].op \in {"save", "revoke"}
  PROVE  JobsMove
  <1>1. ASSUME NEW j \in Jobs
        PROVE  Keeps(j) \/ Ends(j)
    <2>1. jobs[j] \in JobRow
      BY DEF QueueInv, TypeInv, TypeOK
    <2>2. CASE j \in requests[r].jobs
      <3>1. jobs[j].status # "absent"
        BY <2>2 DEF QueueInv, Reservations
      <3>2. jobs'[j].status = "cancelled" /\ jobs'[j].active = NoSource
            /\ jobs'[j].source = jobs[j].source
        BY <2>1, <2>2 DEF Cancelled, JobRow
      <3> QED BY <3>1, <3>2 DEF Ends, FinishedStatuses
    <2>3. CASE j \notin requests[r].jobs
      BY <2>3 DEF Cancelled, Keeps
    <2> QED BY <2>2, <2>3
  <1> QED BY <1>1 DEF JobsMove

LEMMA CommitMove ==
  ASSUME NEW r \in Requests, QueueInv, Commit(r)
  PROVE  JobsMove
  <1>1. CASE CommitSave(r)
    BY <1>1, CancelMove, UnchangedJobsMove DEF CommitSave
  <1>2. CASE CommitRevoke(r)
    BY <1>2, CancelMove DEF CommitRevoke
  <1>3. CASE CommitTest(r)
    BY <1>3, UnchangedJobsMove DEF CommitTest
  <1>4. CASE CommitEnqueue(r)
    <2>1. CASE ~UniqueActive(requests[r].source)
      BY <1>4, <2>1, UnchangedJobsMove DEF CommitEnqueue
    <2>2. CASE UniqueActive(requests[r].source)
      <3> DEFINE new == [AbsentJob EXCEPT !.status = "queued",
                            !.source = requests[r].source, !.active = requests[r].source,
                            !.cursor = requests[r].cursor]
      <3>1. /\ new.status = "queued"
            /\ new.source = requests[r].source
            /\ new.active = requests[r].source
        BY DEF AbsentJob
      <3> HIDE DEF new
      <3>2. jobs' = [j \in Jobs |-> IF j \in requests[r].jobs THEN new ELSE jobs[j]]
        BY <1>4, <2>2 DEF CommitEnqueue, new
      <3>3. \A i \in Jobs : jobs[i].active # requests[r].source
        BY <2>2 DEF UniqueActive, ActiveJobs
      <3> QED BY <1>4, <3>1, <3>2, <3>3 DEF JobsMove, Starts, CommitEnqueue, Respond
    <2> QED BY <2>1, <2>2
  <1> QED BY <1>1, <1>2, <1>3, <1>4 DEF Commit

LEMMA StepMove ==
  ASSUME QueueInv, NextWithDirectSync
  PROVE  JobsMove
  <1>1. ASSUME NEW w \in Workers, NEW j \in Jobs, Claim(w, j) PROVE JobsMove
    BY <1>1, ClaimMove
  <1>2. ASSUME NEW w \in Workers, WorkerStep(w) PROVE JobsMove
    BY <1>2, FinalizeMove, UnchangedJobsMove
       DEF WorkerStep, Load, Answer, FetchPage, FetchError
  <1>3. ASSUME NEW w \in Workers, Crash(w) PROVE JobsMove
    BY <1>3, UnchangedJobsMove DEF Crash
  <1>4. ASSUME NEW r \in Requests, Begin(r) PROVE JobsMove
    BY <1>4, UnchangedJobsMove DEF Begin, BeginSave, BeginRevoke, BeginTest, BeginEnqueue
  <1>5. ASSUME NEW r \in Requests, Commit(r) PROVE JobsMove
    BY <1>5, CommitMove
  <1>6. ASSUME NEW r \in Requests, DirectSync(r) PROVE JobsMove
    BY <1>6, UnchangedJobsMove DEF DirectSync, BeginSync, SyncPage, SyncError, CommitSync
  <1> QED BY <1>1, <1>2, <1>3, <1>4, <1>5, <1>6, TickMove DEF NextWithDirectSync, Next

-----------------------------------------------------------------------------
(* The invariant of the queue *)

LEMMA TypeStep ==
  ASSUME QueueInv, NextWithDirectSync
  PROVE  TypeInv'
  <1> USE DEF QueueInv
  <1>1. ASSUME NEW r \in Requests, Commit(r) PROVE TypeInv'
    BY <1>1, CommitSaveType, CommitRevokeType, CommitTestType, CommitEnqueueType
       DEF Commit, CommitSave, CommitRevoke, CommitEnqueue, Reservations
  <1>2. ASSUME NEW w \in Workers, WorkerStep(w) PROVE TypeInv'
    BY <1>2, LoadType, AnswerType, FinalizePageType, FinalizeFailureType
       DEF WorkerStep, Finalize
  <1> QED BY <1>1, <1>2, ClaimType, CrashType, TickType, BeginType, DirectSyncType
          DEF NextWithDirectSync, Next

\* Every step leaves the requests alone, ends one, or begins one whose jobs
\* are those of its operation; requests begin without touching the queue.
RequestsMove ==
    \/ UNCHANGED requests
    \/ \E r \in Requests, req \in RequestState :
        /\ requests' = [requests EXCEPT ![r] = req]
        /\ \/ req.jobs = {} /\ req.op \notin {"save", "revoke", "enqueue"}
           \/ /\ UNCHANGED jobs
              /\ req.op \in {"save", "revoke"}
              /\ \E s \in Sources : req.jobs = ActiveJobs(s)
           \/ /\ UNCHANGED jobs
              /\ req.op = "enqueue"
              /\ \E j \in Jobs :
                    /\ req.jobs = {j}
                    /\ jobs[j].status = "absent"
                    /\ \A other \in Requests : j \notin requests[other].jobs

LEMMA BeginRequests ==
  ASSUME NEW r \in Requests, NEW s \in Sources, QueueInv,
         BeginSave(r, s) \/ BeginRevoke(r, s) \/ BeginTest(r, s) \/ BeginEnqueue(r, s)
         \/ BeginSync(r, s)
  PROVE  RequestsMove
  <1>1. sources[s] \in SourceRow /\ sources[s].credential.secret \in Nat /\ saves \in Nat
    BY DEF QueueInv, TypeInv, TypeOK, SourceRow, Credentials
  <1>2. NoRequest.jobs = {}
    BY DEF NoRequest
  <1>3. ASSUME NEW op \in {"save", "revoke"}
        PROVE  /\ Loaded(op, s) \in RequestState
               /\ Loaded(op, s).op = op
               /\ Loaded(op, s).jobs = ActiveJobs(s)
    BY LoadedRequest DEF Loaded, Begun, NoRequest, QueueInv, TypeInv
  <1>4. CASE BeginSave(r, s)
    <2> DEFINE req == [Loaded("save", s) EXCEPT !.secret = saves + 1]
    <2>1. req \in RequestState /\ req.op = "save" /\ req.jobs = ActiveJobs(s)
      BY <1>1, <1>3 DEF RequestState
    <2>2. requests' = [requests EXCEPT ![r] = req] /\ UNCHANGED jobs
      BY <1>4 DEF BeginSave
    <2> QED BY <2>1, <2>2 DEF RequestsMove
  <1>5. CASE BeginRevoke(r, s)
    BY <1>3, <1>5 DEF BeginRevoke, RequestsMove
  <1>6. CASE BeginTest(r, s)
    <2> DEFINE req == [Begun("test", s) EXCEPT !.status = sources[s].status,
                                   !.secret = sources[s].credential.secret]
    <2>1. Begun("test", s) \in RequestState
      BY BegunRequest
    <2>2. req \in RequestState /\ req.op = "test" /\ req.jobs = {}
      BY <1>1, <1>2, <2>1 DEF RequestState, SourceRow, Begun, NoRequest
    <2>3. requests' = [requests EXCEPT ![r] = req]
      BY <1>6 DEF BeginTest
    <2> QED BY <2>2, <2>3 DEF RequestsMove
  <1>7. CASE BeginEnqueue(r, s)
    <2>1. PICK j \in Jobs :
            /\ jobs[j].status = "absent"
            /\ \A other \in Requests : j \notin requests[other].jobs
            /\ requests' = [requests EXCEPT ![r] =
                 [Begun("enqueue", s) EXCEPT !.cursor = sources[s].cursor, !.jobs = {j}]]
      BY <1>7 DEF BeginEnqueue
    <2> DEFINE req == [Begun("enqueue", s) EXCEPT !.cursor = sources[s].cursor,
                                                  !.jobs = {j}]
    <2>2. Begun("enqueue", s) \in RequestState
      BY BegunRequest
    <2>3. req \in RequestState /\ req.op = "enqueue" /\ req.jobs = {j}
      BY <1>1, <2>2 DEF RequestState, SourceRow, Begun, NoRequest
    <2>4. UNCHANGED jobs
      BY <1>7 DEF BeginEnqueue
    <2> QED BY <2>1, <2>3, <2>4 DEF RequestsMove
  <1>8. CASE BeginSync(r, s)
    <2> DEFINE req == [Begun("sync", s) EXCEPT !.cursor = sources[s].cursor,
                                   !.secret = sources[s].credential.secret]
    <2>1. Begun("sync", s) \in RequestState
      BY BegunRequest
    <2>2. req \in RequestState /\ req.op = "sync" /\ req.jobs = {}
      BY <1>1, <1>2, <2>1 DEF RequestState, SourceRow, Begun, NoRequest
    <2>3. requests' = [requests EXCEPT ![r] = req]
      BY <1>8 DEF BeginSync
    <2> QED BY <2>2, <2>3 DEF RequestsMove
  <1> QED BY <1>4, <1>5, <1>6, <1>7, <1>8

LEMMA StepRequests ==
  ASSUME QueueInv, NextWithDirectSync
  PROVE  RequestsMove
  <1>1. ASSUME NEW r \in Requests, Respond(r) PROVE RequestsMove
    BY <1>1, NullTypes DEF Respond, RequestsMove, NoRequest
  <1>2. ASSUME NEW r \in Requests, Commit(r) PROVE RequestsMove
    BY <1>1, <1>2 DEF Commit, CommitSave, CommitRevoke, CommitTest, CommitEnqueue
  <1>3. ASSUME NEW r \in Requests, SyncPage(r) PROVE RequestsMove
    <2> DEFINE req == [requests[r] EXCEPT !.op = "synced",
                         !.missing = Missing(requests[r].source, requests[r].cursor)]
    <2>1. requests[r] \in RequestState /\ requests[r].jobs = {}
      BY <1>3 DEF QueueInv, TypeInv, TypeOK, Reservations, SyncPage
    <2>2. req \in RequestState /\ req.op = "synced" /\ req.jobs = {}
      BY <2>1 DEF RequestState, Missing
    <2>3. requests' = [requests EXCEPT ![r] = req]
      BY <1>3 DEF SyncPage
    <2> QED BY <2>2, <2>3 DEF RequestsMove
  <1>4. ASSUME NEW r \in Requests, DirectSync(r) PROVE RequestsMove
    BY <1>1, <1>3, <1>4, BeginRequests DEF DirectSync, SyncError, CommitSync
  <1>5. ASSUME NEW r \in Requests, Begin(r) PROVE RequestsMove
    BY <1>5, BeginRequests DEF Begin
  <1>6. ASSUME NEW w \in Workers, WorkerStep(w) PROVE RequestsMove
    BY <1>6, Zenon DEF WorkerStep, Load, Answer, FetchPage, FetchError, Finalize, FinalizePage,
       FinalizeFailure, RequestsMove
  <1>7. CASE Tick \/ \E w \in Workers : Crash(w) \/ \E j \in Jobs : Claim(w, j)
    BY <1>7 DEF Tick, Crash, Claim, RequestsMove
  <1> QED BY <1>2, <1>4, <1>5, <1>6, <1>7 DEF NextWithDirectSync, Next

LEMMA ReservationsStep ==
  ASSUME QueueInv, JobsMove, RequestsMove, TypeInv'
  PROVE  Reservations'
  <1> USE DEF QueueInv, Reservations
  <1>1. requests \in [Requests -> RequestState] /\ requests' \in [Requests -> RequestState]
    BY DEF TypeInv, TypeOK
  <1>2. ASSUME NEW r \in Requests, Starts(r)
        PROVE  Reservations'
    <2>1. \A j \in Jobs : j \notin requests[r].jobs => jobs'[j] = jobs[j]
      BY <1>2 DEF Starts
    <2>2. \A j \in requests[r].jobs : jobs'[j].status # "absent" /\ j \in Jobs
      BY <1>1, <1>2 DEF Starts, RequestState
    <2>3. \A other \in Requests \ {r} : requests'[other] = requests[other]
      BY <1>1, <1>2 DEF Starts
    <2>4. requests'[r] = NoRequest /\ NoRequest.op = "none" /\ NoRequest.jobs = {}
      BY <1>1, <1>2 DEF Starts, NoRequest
    <2>5. \A other \in Requests \ {r} : \A j \in requests[r].jobs : j \notin requests[other].jobs
      BY <1>2 DEF Starts
    <2>6. \A other \in Requests \ {r} : requests[other].jobs \subseteq Jobs
      BY <1>1 DEF RequestState
    <2> QED BY <2>1, <2>2, <2>3, <2>4, <2>5, <2>6
  <1>3. ASSUME \A j \in Jobs : Keeps(j) \/ Ends(j)
        PROVE  Reservations'
    <2>1. \A j \in Jobs : (jobs'[j].status = "absent") <=> (jobs[j].status = "absent")
      BY <1>3 DEF Keeps, Ends, FinishedStatuses
    <2>2. \A r \in Requests : requests[r].jobs \subseteq Jobs
      BY <1>1 DEF RequestState
    <2>3. CASE UNCHANGED requests
      BY <2>1, <2>2, <2>3
    <2>4. ASSUME NEW r \in Requests, NEW req \in RequestState,
                 requests' = [requests EXCEPT ![r] = req],
                 req.jobs = {}, req.op \notin {"save", "revoke", "enqueue"}
          PROVE  Reservations'
      BY <1>1, <2>1, <2>2, <2>4
    <2>5. ASSUME NEW r \in Requests, NEW req \in RequestState, NEW s \in Sources,
                 requests' = [requests EXCEPT ![r] = req], UNCHANGED jobs,
                 req.op \in {"save", "revoke"}, req.jobs = ActiveJobs(s)
          PROVE  Reservations'
      <3>1. \A j \in ActiveJobs(s) : j \in Jobs /\ jobs[j].status # "absent"
        BY DistinctNulls DEF ActiveJobs, OneActiveJob, ActiveStatuses
      <3> QED BY <1>1, <2>2, <2>5, <3>1
    <2>6. ASSUME NEW r \in Requests, NEW req \in RequestState, NEW j \in Jobs,
                 requests' = [requests EXCEPT ![r] = req], UNCHANGED jobs,
                 req.op = "enqueue", req.jobs = {j}, jobs[j].status = "absent",
                 \A other \in Requests : j \notin requests[other].jobs
          PROVE  Reservations'
      BY <1>1, <2>2, <2>6
    <2> QED BY <2>3, <2>4, <2>5, <2>6 DEF RequestsMove
  <1> QED BY <1>2, <1>3 DEF JobsMove

LEMMA OneActiveJobStep ==
  ASSUME QueueInv, JobsMove, TypeInv'
  PROVE  OneActiveJob'
  <1> USE DEF QueueInv
  <1>1. ASSUME \A j \in Jobs : Keeps(j) \/ Ends(j)
        PROVE  OneActiveJob'
    <2>1. ASSUME NEW j \in Jobs
          PROVE  /\ jobs'[j].status \in ActiveStatuses => jobs'[j].active = jobs'[j].source
                 /\ jobs'[j].status \notin ActiveStatuses => jobs'[j].active = NoSource
                 /\ jobs'[j].active \in {NoSource, jobs[j].active}
      BY <1>1 DEF OneActiveJob, Keeps, Ends, ActiveStatuses, FinishedStatuses
    <2> QED BY <2>1 DEF OneActiveJob
  <1>2. ASSUME NEW r \in Requests, Starts(r)
        PROVE  OneActiveJob'
    <2>1. PICK j \in Jobs : requests[r].jobs = {j} /\ jobs[j].status = "absent"
      BY <1>2 DEF Starts, Reservations
    <2>2. /\ jobs'[j].status = "queued"
          /\ jobs'[j].source = requests[r].source
          /\ jobs'[j].active = requests[r].source
          /\ \A i \in Jobs \ {j} : jobs'[i] = jobs[i]
          /\ \A i \in Jobs : jobs[i].active # requests[r].source
      BY <1>2, <2>1 DEF Starts
    <2> QED BY <2>2 DEF OneActiveJob, ActiveStatuses
  <1> QED BY <1>1, <1>2 DEF JobsMove

LEMMA QueueInvInit == Init => QueueInv
  <1> SUFFICES ASSUME Init PROVE QueueInv
    OBVIOUS
  <1>1. TypeInv
    BY InitType
  <1>2. Reservations
    BY DEF Init, Reservations, NoRequest
  <1>3. OneActiveJob
    BY DEF Init, OneActiveJob, AbsentJob, ActiveStatuses
  <1> QED BY <1>1, <1>2, <1>3 DEF QueueInv

LEMMA QueueInvStep == QueueInv /\ [NextWithDirectSync]_vars => QueueInv'
  <1>1. ASSUME QueueInv, NextWithDirectSync PROVE QueueInv'
    BY <1>1, TypeStep, StepMove, StepRequests, ReservationsStep, OneActiveJobStep
       DEF QueueInv
  <1>2. ASSUME QueueInv, UNCHANGED vars PROVE QueueInv'
    BY <1>2 DEF vars, QueueInv, TypeInv, TypeOK, References, Reservations, OneActiveJob
  <1> QED BY <1>1, <1>2

LEMMA SpecStrengthens == Spec => SpecWithDirectSync
  <1>1. [Next]_vars => [NextWithDirectSync]_vars
    BY DEF NextWithDirectSync
  <1> QED BY <1>1, PTL DEF Spec, SpecWithDirectSync

\* Every reachable state is well typed, and what a job, a worker at work or a
\* request refers to exists, for any number of sources, jobs, workers and
\* requests: no handler is left with a row that went away beneath it.
THEOREM TypeCorrect == SpecWithDirectSync => [](TypeOK /\ References)
  <1>1. QueueInv => TypeOK /\ References
    BY DEF QueueInv, TypeInv
  <1> QED BY <1>1, QueueInvInit, QueueInvStep, PTL DEF SpecWithDirectSync

\* At most one synchronisation is queued, running or retrying per source, and
\* active_data_source_id says which: ADR-0016, decision 3, for any number of
\* worker processes and overlapping requests.
THEOREM OneActiveJobAlways == SpecWithDirectSync => []OneActiveJob
  <1>1. QueueInv => OneActiveJob
    BY DEF QueueInv
  <1> QED BY <1>1, QueueInvInit, QueueInvStep, PTL DEF SpecWithDirectSync

\* No step of any actor brings a finished job back to the queue, however
\* late the worker or the request that still holds it.
THEOREM FinishedForGood == SpecWithDirectSync => FinishedStaysFinished
  <1> DEFINE Stays == \A j \in Jobs : jobs[j].status \in FinishedStatuses
                         => jobs'[j].status \in FinishedStatuses
  <1>1. ASSUME QueueInv, NextWithDirectSync PROVE Stays
    <2>1. JobsMove /\ TypeInv'
      BY <1>1, StepMove, TypeStep
    <2>2. ASSUME NEW j \in Jobs, jobs[j].status \in FinishedStatuses
          PROVE  jobs'[j].status \in FinishedStatuses
      <3>1. jobs'[j].status \in JobStatuses
        BY <2>1 DEF TypeInv, TypeOK, JobRow
      <3>2. CASE \A i \in Jobs : Keeps(i) \/ Ends(i)
        BY <2>2, <3>1, <3>2 DEF Keeps, Ends, JobStatuses, ActiveStatuses, FinishedStatuses
      <3>3. ASSUME NEW r \in Requests, Starts(r)
            PROVE  jobs'[j].status \in FinishedStatuses
        BY <1>1, <2>2, <3>3 DEF Starts, QueueInv, Reservations, FinishedStatuses
      <3> QED BY <2>1, <3>2, <3>3 DEF JobsMove
    <2> QED BY <2>2
  <1>2. UNCHANGED vars => Stays
    BY DEF vars
  <1>3. QueueInv /\ [NextWithDirectSync]_vars => [Stays]_vars
    BY <1>1, <1>2
  <1> QED BY <1>3, QueueInvInit, QueueInvStep, PTL
          DEF SpecWithDirectSync, FinishedStaysFinished

-----------------------------------------------------------------------------
(* The credential in force, while requests to one source do not overlap *)

\* No two requests in flight name the same source.
Apart == \A q, r \in Requests :
    (/\ requests[q].op # "none" /\ requests[r].op # "none"
     /\ requests[q].source = requests[r].source) => q = r

\* What a request loaded is still so, but for a worker that disabled the
\* source: its status, the secret it tests and the jobs it will cancel.
Sees(r) ==
    /\ requests[r].op \in {"save", "revoke", "test"} =>
          sources[requests[r].source].status \in {requests[r].status, "failed"}
    /\ requests[r].op = "test" =>
          sources[requests[r].source].credential.secret = requests[r].secret
    /\ requests[r].op \in {"save", "revoke"} =>
          ActiveJobs(requests[r].source) \subseteq requests[r].jobs

\* A worker whose job is still active works with the credential in force.
UsesCurrent(w) ==
    workers[w].pc \notin {"idle", "claimed"} /\ jobs[workers[w].job].status \in ActiveStatuses
        => workers[w].secret = sources[jobs[workers[w].job].source].credential.secret

Connected ==
    /\ ActiveMeansTested
    /\ \A r \in Requests : Sees(r)
    /\ \A w \in Workers : UsesCurrent(w)
ConnectedInv == QueueInv /\ Connected

\* A source that no request commits to.
RowRests(s) ==
    /\ sources'[s].credential = sources[s].credential
    /\ sources'[s].tested = sources[s].tested
    /\ sources'[s].status \in {sources[s].status, "failed"}

LEMMA ConnectedInit == Init => ConnectedInv
  BY QueueInvInit DEF Init, ConnectedInv, Connected, ActiveMeansTested, NewSource, Sees,
     NoRequest, UsesCurrent, IdleWorker

LEMMA RestsTested ==
  ASSUME ActiveMeansTested, NEW s \in Sources, RowRests(s), sources'[s].status = "active"
  PROVE  /\ sources'[s].credential # NoCredential
         /\ sources'[s].credential.secret \in sources'[s].tested
  BY DEF ActiveMeansTested, RowRests

\* A request that waits sees what it saw, if its source rests.
LEMMA SeesStays ==
  ASSUME QueueInv, Apart, JobsMove, NEW r \in Requests, Sees(r),
         requests[r].op # "none", requests'[r] = requests[r], RowRests(requests[r].source)
  PROVE  Sees(r)'
  <1> DEFINE s == requests[r].source
  <1>1. s \in Sources /\ s # NoSource /\ requests'[r].source = s
    BY DistinctNulls DEF QueueInv, TypeInv, References
  <1>2. \A j \in Jobs : jobs'[j].active = s => jobs[j].active = s
    <2>1. CASE \A j \in Jobs : Keeps(j) \/ Ends(j)
      BY <1>1, <2>1 DEF Keeps, Ends
    <2>2. ASSUME NEW q \in Requests, Starts(q)
          PROVE  \A j \in Jobs : jobs'[j].active = s => jobs[j].active = s
      <3>1. requests'[q].op = "none"
        BY <2>2 DEF Starts, NoRequest, QueueInv, TypeInv, TypeOK
      <3>2. requests[q].source # s
        BY <2>2, <3>1 DEF Starts, Apart
      <3> QED BY <2>2, <3>2 DEF Starts
    <2> QED BY <2>1, <2>2 DEF JobsMove
  <1>3. (\A j \in Jobs : jobs[j].active = s => j \in requests[r].jobs) =>
          \A j \in Jobs : jobs'[j].active = s => j \in requests[r].jobs
    BY <1>2
  <1>4. requests[r].op \in {"save", "revoke"} =>
          \A j \in Jobs : jobs'[j].active = requests'[r].source => j \in requests'[r].jobs
    BY <1>3 DEF Sees, ActiveJobs
  <1>5. /\ requests[r].op \in {"save", "revoke", "test"} =>
              sources'[requests'[r].source].status \in {requests[r].status, "failed"}
        /\ requests[r].op = "test" =>
              sources'[requests'[r].source].credential.secret = requests[r].secret
    BY DEF Sees, RowRests
  <1> QED BY <1>4, <1>5 DEF Sees, ActiveJobs

\* A worker that does not move, if the credential of its job stays or the
\* job ends.
LEMMA UsesStays ==
  ASSUME QueueInv, JobsMove, NEW w \in Workers, UsesCurrent(w), workers'[w] = workers[w],
         NEW j, j = workers[w].job,
         \/ sources'[jobs[j].source].credential = sources[jobs[j].source].credential
         \/ jobs'[j].status \notin ActiveStatuses
  PROVE  UsesCurrent(w)'
  <1> SUFFICES ASSUME workers[w].pc \notin {"idle", "claimed"}, jobs'[j].status \in ActiveStatuses
               PROVE  workers[w].secret = sources'[jobs'[j].source].credential.secret
    BY DEF UsesCurrent
  <1>1. j \in Jobs /\ jobs[j].status # "absent"
    BY DEF QueueInv, TypeInv, References
  <1>2. jobs'[j].source = jobs[j].source /\ jobs[j].status \in ActiveStatuses
    <2>1. CASE Keeps(j) \/ Ends(j)
      BY <2>1 DEF Keeps, Ends, ActiveStatuses, FinishedStatuses
    <2>2. ASSUME NEW q \in Requests, Starts(q)
          PROVE  jobs'[j] = jobs[j]
      BY <1>1, <2>2 DEF Starts, QueueInv, Reservations
    <2> QED BY <1>1, <2>1, <2>2 DEF JobsMove
  <1>3. workers[w].secret = sources[jobs[j].source].credential.secret
    BY <1>2 DEF UsesCurrent
  <1> QED BY <1>2, <1>3

\* Steps after which no worker has loaded a secret it had not before.
LEMMA RestConnected ==
  ASSUME ConnectedInv, Apart, JobsMove,
         \A s \in Sources : RowRests(s),
         \A r \in Requests : requests'[r] = requests[r]
                             \/ requests'[r].op \notin {"save", "revoke", "test"},
         \A w \in Workers : \/ workers'[w].pc \in {"idle", "claimed"}
                            \/ workers'[w] = workers[w]
                            \/ UsesCurrent(w)'
  PROVE  Connected'
  <1> USE DEF ConnectedInv, Connected
  <1>1. ActiveMeansTested'
    BY RestsTested DEF ActiveMeansTested
  <1>2. ASSUME NEW r \in Requests PROVE Sees(r)'
    <2>1. CASE requests'[r] = requests[r] /\ requests[r].op # "none"
      BY <2>1, SeesStays DEF QueueInv, TypeInv, References
    <2>2. CASE requests'[r].op \notin {"save", "revoke", "test"}
      BY <2>2 DEF Sees
    <2> QED BY <2>1, <2>2
  <1>3. ASSUME NEW w \in Workers PROVE UsesCurrent(w)'
    <2>1. CASE workers'[w].pc \in {"idle", "claimed"}
      BY <2>1 DEF UsesCurrent
    <2>2. CASE workers'[w] = workers[w] /\ workers[w].pc \notin {"idle", "claimed"}
      <3>1. PICK j \in Jobs : j = workers[w].job /\ jobs[j].status # "absent"
        BY <2>2 DEF QueueInv, TypeInv, References
      <3>2. jobs[j].source \in Sources
        BY <3>1 DEF QueueInv, TypeInv, References
      <3> QED BY <2>2, <3>1, <3>2, UsesStays DEF RowRests
    <2> QED BY <2>1, <2>2
  <1> QED BY <1>1, <1>2, <1>3

LEMMA SameRows == ASSUME UNCHANGED sources PROVE \A s \in Sources : RowRests(s)
  BY DEF RowRests

LEMMA WorkerConnected ==
  ASSUME ConnectedInv, Apart, NEW w \in Workers,
         (\E j \in Jobs : Claim(w, j)) \/ WorkerStep(w) \/ Crash(w)
  PROVE  Connected'
  <1> USE DEF ConnectedInv, QueueInv, TypeInv, TypeOK
  <1>1. JobsMove /\ UNCHANGED requests
    <2>1. NextWithDirectSync
      BY DEF NextWithDirectSync, Next
    <2>2. UNCHANGED requests
      BY ZenonT(30) DEF Claim, WorkerStep, Load, Answer, FetchPage, FetchError, Finalize, FinalizePage,
         FinalizeFailure, Crash
    <2> QED BY <2>1, <2>2, StepMove
  <1>2. \A s \in Sources : RowRests(s)
    <2>1. CASE UNCHANGED sources
      BY <2>1, SameRows
    <2>2. CASE FinalizePage(w)
      <3>1. \A t \in Sources : sources'[t] = sources[t]
                               \/ sources'[t] = SourceAfterPage(sources[t], workers[w])
        BY <2>2 DEF FinalizePage
      <3>2. \A row \in SourceRow, st \in WorkerState :
              /\ SourceAfterPage(row, st).status = row.status
              /\ SourceAfterPage(row, st).credential = row.credential
              /\ SourceAfterPage(row, st).tested = row.tested
        BY DEF SourceAfterPage, SourceRow
      <3> QED BY <3>1, <3>2 DEF RowRests
    <2>3. CASE FinalizeFailure(w)
      <3>1. \A t \in Sources : sources'[t] = sources[t]
                               \/ sources'[t] = [sources[t] EXCEPT !.status = "failed"]
        <4>1. CASE UNCHANGED sources
          BY <4>1
        <4>2. CASE ~UNCHANGED sources
          <5>1. PICK s, st : sources' = [sources EXCEPT ![s].status = IF st THEN "failed" ELSE @]
            BY <2>3, <4>2 DEF FinalizeFailure
          <5>2. CASE st
            BY <5>1, <5>2
          <5>3. CASE ~st
            <6>1. \A t \in Sources : [sources[t] EXCEPT !.status = @] = sources[t]
              BY DEF SourceRow
            <6> QED BY <5>1, <5>3, <6>1
          <5> QED BY <5>2, <5>3
        <4> QED BY <4>1, <4>2
      <3>2. \A t \in Sources :
              /\ [sources[t] EXCEPT !.status = "failed"].status = "failed"
              /\ [sources[t] EXCEPT !.status = "failed"].credential = sources[t].credential
              /\ [sources[t] EXCEPT !.status = "failed"].tested = sources[t].tested
        BY DEF SourceRow
      <3> QED BY <3>1, <3>2 DEF RowRests
    <2> QED BY <2>1, <2>2, <2>3 DEF Claim, WorkerStep, Load, Answer, FetchPage, FetchError,
            Finalize, Crash
  <1>3. \A v \in Workers \ {w} : workers'[v] = workers[v]
    BY Zenon DEF Claim, WorkerStep, Load, Answer, FetchPage, FetchError, Finalize, FinalizePage,
       FinalizeFailure, Crash
  <1>4. workers'[w].pc \in {"idle", "claimed"} \/ UsesCurrent(w)'
    <2>1. CASE Load(w)
      <3>1. UNCHANGED <<sources, jobs>>
        BY <2>1 DEF Load
      <3>2. /\ workers'[w].job = workers[w].job
            /\ workers'[w].secret = sources[jobs[workers[w].job].source].credential.secret
        BY <2>1 DEF Load
      <3> QED BY <3>1, <3>2 DEF UsesCurrent
    <2>2. CASE Answer(w)
      <3>1. UNCHANGED <<sources, jobs>> /\ workers[w].pc = "fetching"
        BY <2>2 DEF Answer, FetchPage, FetchError
      <3>2. workers[w] \in WorkerState
        OBVIOUS
      <3>3. workers'[w].job = workers[w].job /\ workers'[w].secret = workers[w].secret
        <4>1. CASE FetchPage(w)
          BY <3>2, <4>1 DEF FetchPage, WorkerState
        <4>2. ASSUME NEW kind, FetchError(w, kind)
              PROVE  workers'[w].job = workers[w].job /\ workers'[w].secret = workers[w].secret
          BY <3>2, <4>2 DEF FetchError, WorkerState
        <4> QED BY <2>2, <4>1, <4>2 DEF Answer
      <3> QED BY <3>1, <3>3 DEF UsesCurrent, Connected
    <2>3. CASE Finalize(w) \/ Crash(w)
      <3>1. workers' = [workers EXCEPT ![w] = IdleWorker]
        BY <2>3 DEF Finalize, FinalizePage, FinalizeFailure, Crash
      <3>2. workers'[w] = IdleWorker
        BY <3>1
      <3> QED BY <3>2 DEF IdleWorker
    <2>4. ASSUME NEW j \in Jobs, Claim(w, j) PROVE workers'[w].pc = "claimed"
      BY <2>4 DEF Claim, IdleWorker
    <2> QED BY <2>1, <2>2, <2>3, <2>4 DEF WorkerStep
  <1> QED BY <1>1, <1>2, <1>3, <1>4, RestConnected

\* A request that begins sees what it loads.
LEMMA BeginConnected ==
  ASSUME ConnectedInv, Apart, NEW r \in Requests, NEW s \in Sources,
         BeginSave(r, s) \/ BeginRevoke(r, s) \/ BeginTest(r, s) \/ BeginEnqueue(r, s)
         \/ BeginSync(r, s)
  PROVE  Connected'
  <1> USE DEF ConnectedInv, QueueInv, TypeInv, TypeOK
  <1>1. UNCHANGED <<sources, jobs, workers>>
    BY DEF BeginSave, BeginRevoke, BeginTest, BeginEnqueue, BeginSync
  <1>2. PICK req :
          /\ requests' = [requests EXCEPT ![r] = req]
          /\ req.op \in {"save", "revoke", "test"} =>
                req.source = s /\ req.status = sources[s].status
          /\ req.op = "test" => req.secret = sources[s].credential.secret
          /\ req.op \in {"save", "revoke"} => req.jobs = ActiveJobs(s)
    <2>0. \A op \in {"save", "revoke", "test", "enqueue", "sync"} :
            /\ Begun(op, s) \in RequestState
            /\ Begun(op, s).op = op
            /\ Begun(op, s).source = s
      BY BegunRequest, ZenonT(30) DEF Begun, NoRequest
    <2>1. ASSUME NEW op \in {"save", "revoke"}
          PROVE  /\ Loaded(op, s) \in RequestState
                 /\ Loaded(op, s).op = op /\ Loaded(op, s).source = s
                 /\ Loaded(op, s).status = sources[s].status
                 /\ Loaded(op, s).jobs = ActiveJobs(s)
      BY LoadedRequest DEF Loaded, Begun, NoRequest
    <2>2. CASE BeginSave(r, s)
      <3> DEFINE req == [Loaded("save", s) EXCEPT !.secret = saves + 1]
      <3>1. /\ req.op = "save" /\ req.source = s /\ req.status = sources[s].status
            /\ req.jobs = ActiveJobs(s)
        BY <2>1 DEF RequestState
      <3>2. requests' = [requests EXCEPT ![r] = req]
        BY <2>2 DEF BeginSave
      <3> QED BY <3>1, <3>2
    <2>3. CASE BeginRevoke(r, s)
      BY <2>1, <2>3 DEF BeginRevoke
    <2>4. CASE BeginTest(r, s)
      <3> DEFINE req == [Begun("test", s) EXCEPT !.status = sources[s].status,
                                     !.secret = sources[s].credential.secret]
      <3>1. /\ req.op = "test" /\ req.source = s /\ req.status = sources[s].status
            /\ req.secret = sources[s].credential.secret
        BY <2>0 DEF RequestState
      <3>2. requests' = [requests EXCEPT ![r] = req]
        BY <2>4 DEF BeginTest
      <3> QED BY <3>1, <3>2
    <2>5. CASE BeginEnqueue(r, s)
      <3>1. PICK j \in Jobs : requests' = [requests EXCEPT ![r] =
                [Begun("enqueue", s) EXCEPT !.cursor = sources[s].cursor, !.jobs = {j}]]
        BY <2>5 DEF BeginEnqueue
      <3> DEFINE req == [Begun("enqueue", s) EXCEPT !.cursor = sources[s].cursor,
                                                    !.jobs = {j}]
      <3>2. req.op = "enqueue"
        BY <2>0 DEF RequestState
      <3> QED BY <3>1, <3>2
    <2>6. CASE BeginSync(r, s)
      <3> DEFINE req == [Begun("sync", s) EXCEPT !.cursor = sources[s].cursor,
                                     !.secret = sources[s].credential.secret]
      <3>1. req.op = "sync"
        BY <2>0 DEF RequestState
      <3>2. requests' = [requests EXCEPT ![r] = req]
        BY <2>6 DEF BeginSync
      <3> QED BY <3>1, <3>2
    <2> QED BY <2>2, <2>3, <2>4, <2>5, <2>6
  <1>3. requests'[r] = req /\ \A q \in Requests \ {r} : requests'[q] = requests[q]
    BY <1>2
  <1>4. ASSUME NEW q \in Requests PROVE Sees(q)'
    <2>1. CASE q = r
      BY <1>1, <1>2, <1>3, <2>1 DEF Sees, ActiveJobs
    <2>2. CASE q # r
      BY <1>1, <1>3, <2>2 DEF Sees, ActiveJobs, Connected
    <2> QED BY <2>1, <2>2
  <1>5. ActiveMeansTested' /\ \A w \in Workers : UsesCurrent(w)'
    BY <1>1 DEF Connected, ActiveMeansTested, UsesCurrent
  <1> QED BY <1>4, <1>5 DEF Connected

\* A request that writes its source: the requests to other sources, and the
\* workers of other sources, rest.
LEMMA CommitConnected ==
  ASSUME ConnectedInv, Apart, JobsMove, NEW r \in Requests, requests[r].op # "none",
         Respond(r), UNCHANGED workers,
         NEW s \in Sources, s = requests[r].source,
         \A t \in Sources \ {s} : sources'[t] = sources[t],
         sources'[s].status = "active" =>
            /\ sources'[s].credential # NoCredential
            /\ sources'[s].credential.secret \in sources'[s].tested,
         \/ sources'[s].credential = sources[s].credential
         \/ \A j \in Jobs : jobs[j].active = s => jobs'[j].status \notin ActiveStatuses
  PROVE  Connected'
  <1> USE DEF ConnectedInv, QueueInv, TypeInv, TypeOK
  <1>1. \A t \in Sources \ {s} : RowRests(t)
    BY DEF RowRests
  <1>2. ActiveMeansTested'
    BY DEF Connected, ActiveMeansTested
  <1>3. ASSUME NEW q \in Requests PROVE Sees(q)'
    <2>1. CASE q # r /\ requests[q].op # "none"
      <3>1. requests'[q] = requests[q]
        BY <2>1 DEF Respond
      <3>2. requests[q].source \in Sources /\ requests[q].source # s
        BY <2>1 DEF References, Apart
      <3> QED BY <1>1, <2>1, <3>1, <3>2, SeesStays DEF Connected
    <2>2. CASE q = r \/ requests[q].op = "none"
      BY <2>2 DEF Sees, Respond, NoRequest
    <2> QED BY <2>1, <2>2
  <1>4. ASSUME NEW w \in Workers, workers[w].pc \notin {"idle", "claimed"}
        PROVE  UsesCurrent(w)'
    <2>1. PICK j \in Jobs : j = workers[w].job /\ jobs[j].status # "absent"
      BY <1>4 DEF References
    <2>2. jobs[j].source \in Sources /\ (jobs[j].status \in ActiveStatuses => jobs[j].active = jobs[j].source)
      BY <2>1 DEF References, OneActiveJob
    <2>3. CASE sources'[jobs[j].source].credential = sources[jobs[j].source].credential
      BY <2>1, <2>3, UsesStays DEF Connected
    <2>4. CASE jobs'[j].status \notin ActiveStatuses
      BY <2>1, <2>4, UsesStays DEF Connected
    <2>5. CASE jobs[j].source = s /\ jobs[j].status \notin ActiveStatuses
      <3>1. jobs'[j].status \notin ActiveStatuses
        <4>1. CASE Keeps(j) \/ Ends(j)
          BY <2>5, <4>1 DEF Keeps, Ends, ActiveStatuses, FinishedStatuses
        <4>2. ASSUME NEW q \in Requests, Starts(q) PROVE jobs'[j] = jobs[j]
          BY <2>1, <4>2 DEF Starts, Reservations
        <4> QED BY <2>5, <4>1, <4>2 DEF JobsMove
      <3> QED BY <2>1, <3>1, UsesStays DEF Connected
    <2> QED BY <2>2, <2>3, <2>4, <2>5
  <1>5. \A w \in Workers : UsesCurrent(w)'
    BY <1>4 DEF UsesCurrent
  <1> QED BY <1>2, <1>3, <1>5 DEF Connected

LEMMA RequestConnected ==
  ASSUME ConnectedInv, Apart, NEW r \in Requests, Commit(r) \/ DirectSync(r)
  PROVE  Connected'
  <1> USE DEF ConnectedInv, QueueInv, TypeInv, TypeOK
  <1> DEFINE req == requests[r]
  <1>1. JobsMove
    <2>1. NextWithDirectSync
      BY DEF NextWithDirectSync, Next
    <2> QED BY <2>1, StepMove
  <1>2. CASE UNCHANGED sources /\ UNCHANGED workers /\ Respond(r)
    <2>1. \A q \in Requests : requests'[q] = requests[q] \/ requests'[q].op = "none"
      BY <1>2 DEF Respond, NoRequest
    <2> QED BY <1>1, <1>2, <2>1, SameRows, RestConnected
  <1>3. req \in RequestState /\ (req.op # "none" => req.source \in Sources)
    BY DEF References
  <1>4. CASE CommitSave(r) \/ CommitRevoke(r)
    <2>1. /\ req.op \in {"save", "revoke"} /\ req.source \in Sources
          /\ Respond(r) /\ UNCHANGED workers
      BY <1>3, <1>4 DEF CommitSave, CommitRevoke
    <2>2. PICK s \in Sources : s = req.source
      BY <2>1
    <2>3. CASE UNCHANGED sources
      BY <1>2, <2>1, <2>3
    <2>4. ASSUME NEW status \in {"pending", "disabled"}, NEW c, jobs' = Cancelled(req),
                 sources' = [sources EXCEPT ![s] = SourceReset(@, req, status, c)]
          PROVE  Connected'
      <3>1. sources[s] \in SourceRow /\ sources[s].status \in {req.status, "failed"}
        BY <2>1, <2>2 DEF Connected, Sees
      <3>2. SourceReset(sources[s], req, status, c).status # "active"
        BY <3>1 DEF SourceReset, Written, SourceRow
      <3>3. ASSUME NEW j \in Jobs, jobs[j].active = s
            PROVE  jobs'[j].status \notin ActiveStatuses
        <4>1. j \in req.jobs /\ jobs[j] \in JobRow
          BY <2>1, <2>2, <3>3 DEF Connected, Sees, ActiveJobs
        <4> QED BY <2>4, <4>1 DEF Cancelled, JobRow, ActiveStatuses
      <3>4. /\ \A t \in Sources \ {s} : sources'[t] = sources[t]
            /\ sources'[s].status # "active"
        BY <2>4, <3>2
      <3> QED BY <1>1, <2>1, <2>2, <3>3, <3>4, CommitConnected
    <2> QED BY <1>4, <2>2, <2>3, <2>4 DEF CommitSave, CommitRevoke
  <1>5. CASE CommitTest(r)
    <2>1. req.op = "test" /\ req.source \in Sources /\ Respond(r) /\ UNCHANGED workers
      BY <1>3, <1>5 DEF CommitTest
    <2>2. PICK s \in Sources : s = req.source
      BY <2>1
    <2>3. PICK accepted \in BOOLEAN :
            /\ accepted => req.secret # NoSecret
            /\ sources' = [sources EXCEPT ![s] = SourceAfterTest(@, req, accepted)]
      BY <1>5, <2>2 DEF CommitTest
    <2>4. /\ sources[s] \in SourceRow /\ sources[s].status \in {req.status, "failed"}
          /\ sources[s].credential.secret = req.secret
      BY <2>1, <2>2 DEF Connected, Sees
    <2> DEFINE new == SourceAfterTest(sources[s], req, accepted)
    <2>5. /\ new.credential = sources[s].credential
          /\ accepted => req.secret \in new.tested
          /\ ~accepted => new.tested = sources[s].tested
          /\ (new.status = "active" /\ ~accepted) => sources[s].status = "active"
      BY <2>4 DEF SourceAfterTest, Written, SourceRow
    <2>6. /\ \A t \in Sources \ {s} : sources'[t] = sources[t]
          /\ sources'[s] = new
      BY <2>3
    <2> HIDE DEF new
    <2>7. accepted => sources[s].credential # NoCredential
      BY <2>3, <2>4 DEF NoCredential
    <2>8. sources'[s].status = "active" =>
            /\ sources'[s].credential # NoCredential
            /\ sources'[s].credential.secret \in sources'[s].tested
      BY <2>4, <2>5, <2>6, <2>7 DEF Connected, ActiveMeansTested
    <2> QED BY <1>1, <2>1, <2>2, <2>5, <2>6, <2>8, CommitConnected
  <1>6. CASE CommitEnqueue(r)
    BY <1>2, <1>6 DEF CommitEnqueue
  <1>7. ASSUME NEW s \in Sources, BeginSync(r, s) PROVE Connected'
    BY <1>7, BeginConnected
  <1>8. CASE SyncPage(r)
    <2>1. /\ requests'[r].op = "synced" /\ UNCHANGED <<sources, workers>>
          /\ \A q \in Requests \ {r} : requests'[q] = requests[q]
      BY <1>3, <1>8 DEF SyncPage, RequestState
    <2> QED BY <1>1, <2>1, SameRows, RestConnected
  <1>9. CASE SyncError(r) \/ CommitSync(r)
    <2>1. req.op # "none" /\ Respond(r) /\ UNCHANGED workers
      BY <1>9 DEF SyncError, CommitSync
    <2>2. \A q \in Requests : requests'[q] = requests[q] \/ requests'[q].op = "none"
      BY <2>1 DEF Respond, NoRequest
    <2>3. \A t \in Sources : RowRests(t)
      <3>1. \A t \in Sources : sources[t] \in SourceRow
        OBVIOUS
      <3> QED BY <1>9, <3>1 DEF SyncError, CommitSync, RowRests, SourceRow
    <2> QED BY <1>1, <2>1, <2>2, <2>3, RestConnected
  <1> QED BY <1>4, <1>5, <1>6, <1>7, <1>8, <1>9 DEF Commit, DirectSync

LEMMA TickConnected == ASSUME ConnectedInv, Apart, Tick PROVE Connected'
  <1>1. UNCHANGED <<sources, workers, requests>> /\ JobsMove
    BY TickMove DEF Tick, ConnectedInv
  <1> QED BY <1>1, SameRows, RestConnected

LEMMA ConnectedStep == ConnectedInv /\ Apart /\ [NextWithDirectSync]_vars => ConnectedInv'
  <1>1. ASSUME ConnectedInv, Apart, NextWithDirectSync PROVE Connected'
    BY <1>1, WorkerConnected, BeginConnected, RequestConnected, TickConnected
       DEF NextWithDirectSync, Next, Begin
  <1>2. ASSUME ConnectedInv, UNCHANGED vars PROVE Connected'
    BY <1>2 DEF vars, ConnectedInv, Connected, ActiveMeansTested, Sees, ActiveJobs, UsesCurrent
  <1> QED BY <1>1, <1>2, QueueInvStep DEF ConnectedInv

\* As long as requests to one source do not overlap, only a successful test
\* of the credential in force makes the source active, whatever the workers
\* do meanwhile (ADR-0015, decision 1). Overlapping requests break it: run
\* sync_rotation_during_test.
THEOREM ActiveMeansTestedAlways == SpecWithDirectSync /\ []Apart => []ActiveMeansTested
  <1>1. ConnectedInv => ActiveMeansTested
    BY DEF ConnectedInv, Connected
  <1> QED BY <1>1, ConnectedInit, ConnectedStep, PTL DEF SpecWithDirectSync

LEMMA StepCurrent ==
  ASSUME ConnectedInv, NextWithDirectSync, NEW w \in Workers,
         workers[w].pc = "page", jobs' # jobs, workers'[w].pc = "idle"
  PROVE  workers[w].secret = sources[jobs[workers[w].job].source].credential.secret
  <1> USE DEF ConnectedInv, QueueInv, TypeInv, TypeOK
  <1>1. FinalizePage(w)
    <2>1. ASSUME NEW v \in Workers, (\E j \in Jobs : Claim(v, j)) \/ WorkerStep(v) \/ Crash(v)
          PROVE  FinalizePage(w)
      <3>1. v = w
        <4>1. v # w => workers'[w] = workers[w]
          BY <2>1, ZenonT(30) DEF Claim, WorkerStep, Load, Answer, FetchPage, FetchError, Finalize,
             FinalizePage, FinalizeFailure, Crash
        <4> QED BY <4>1
      <3> QED BY <2>1, <3>1, Zenon DEF Claim, WorkerStep, Load, Answer, FetchPage, FetchError,
              Finalize, FinalizeFailure, Crash
    <2>2. ASSUME NEW r \in Requests, Begin(r) \/ Commit(r) \/ DirectSync(r)
          PROVE  FALSE
      BY <2>2 DEF Begin, BeginSave, BeginRevoke, BeginTest, BeginEnqueue, Commit, CommitSave,
         CommitRevoke, CommitTest, CommitEnqueue, DirectSync, BeginSync, SyncPage, SyncError,
         CommitSync
    <2>3. CASE Tick
      BY <2>3 DEF Tick
    <2> QED BY <2>1, <2>2, <2>3 DEF NextWithDirectSync, Next
  <1>2. jobs[workers[w].job].status \in ActiveStatuses
    BY <1>1 DEF FinalizePage, StillRunning, ActiveStatuses
  <1> QED BY <1>2 DEF Connected, UsesCurrent

\* As long as requests to one source do not overlap, no page fetched with a
\* replaced or revoked secret is persisted: rotation and revocation cancel the
\* job in flight (ADR-0016). Overlapping requests break it, as a job enqueued
\* while the credential is being replaced is not cancelled.
THEOREM OnlyCurrentSecretAlways == SpecWithDirectSync /\ []Apart => OnlyCurrentSecret
  <1> DEFINE Current == \A w \in Workers :
        (workers[w].pc = "page" /\ jobs' # jobs /\ workers'[w].pc = "idle")
            => workers[w].secret = sources[jobs[workers[w].job].source].credential.secret
  <1>1. ConnectedInv /\ [NextWithDirectSync]_vars => [Current]_vars
    BY StepCurrent
  <1> QED BY <1>1, ConnectedInit, ConnectedStep, PTL DEF SpecWithDirectSync, OnlyCurrentSecret

-----------------------------------------------------------------------------
(* No page is skipped *)

CoveredSources == \A s \in Sources : Covered(s, sources[s].cursor)
CoveredJobs ==
    \A j \in Jobs : jobs[j].status # "absent" =>
        /\ Covered(jobs[j].source, jobs[j].cursor)
        /\ jobs[j].status = "succeeded" => Covered(jobs[j].source, NumPages)
CoveredWorker(w) ==
    workers[w].pc \notin {"idle", "claimed"} =>
        /\ Covered(jobs[workers[w].job].source, workers[w].cursor)
        /\ (workers[w].pc = "page" /\ ~workers[w].missing) =>
              inserted[jobs[workers[w].job].source][workers[w].cursor] > 0
CoveredWorkers == \A w \in Workers : CoveredWorker(w)
CoveredRequest(r) ==
    requests[r].op \in {"enqueue", "sync", "synced"} =>
        /\ Covered(requests[r].source, requests[r].cursor)
        /\ (requests[r].op = "synced" /\ ~requests[r].missing) =>
              inserted[requests[r].source][requests[r].cursor] > 0
CoveredRequests == \A r \in Requests : CoveredRequest(r)

Coverage == CoveredSources /\ CoveredJobs /\ CoveredWorkers /\ CoveredRequests
PagesInv == QueueInv /\ Coverage

LEMMA CoveredZero == \A s : Covered(s, 0)
  BY DEF Covered, Pages

LEMMA InitCoverage == Init => Coverage
  <1> SUFFICES ASSUME Init PROVE Coverage
    OBVIOUS
  <1> QED BY CoveredZero DEF Init, Coverage, CoveredSources, CoveredJobs, CoveredWorkers,
       CoveredWorker, CoveredRequests, CoveredRequest, NewSource, AbsentJob, IdleWorker,
       NoRequest

\* Pages persisted stay persisted.
Grows == \A s \in Sources, p \in Pages : inserted[s][p] > 0 => inserted'[s][p] > 0
KeepsSources == \A j \in Jobs : jobs[j].status # "absent" =>
    jobs'[j].status # "absent" /\ jobs'[j].source = jobs[j].source

\* Covered(s, c) in the next state, of a source and a cursor named now.
CoveredAfter(s, c) == \A p \in Pages : p < c => inserted'[s][p] > 0

LEMMA CoveredStays ==
  ASSUME Grows, NEW s \in Sources, NEW c, Covered(s, c)
  PROVE  Covered(s, c)'
  BY DEF Grows, Covered

\* The page at a covered cursor, once persisted, covers the next cursor, and
\* the whole listing if it was the last page.
LEMMA CoveredNext ==
  ASSUME Grows, NEW s \in Sources, NEW c \in Pages, Covered(s, c), inserted'[s][c] > 0
  PROVE  /\ CoveredAfter(s, NextCursor(c))
         /\ IsLastPage(c) => CoveredAfter(s, NumPages)
  <1>1. \A p \in Pages : p < c + 1 => inserted'[s][p] > 0
    BY DEF Grows, Covered, Pages
  <1>2. \A p \in Pages : NextCursor(c) \in Nat /\ (p < NextCursor(c) => p < c + 1)
    BY PagesAssumption DEF NextCursor, Pages
  <1>3. IsLastPage(c) => \A p \in Pages : p < NumPages => p < c + 1
    BY PagesAssumption DEF IsLastPage, NextCursor, Pages
  <1> QED BY <1>1, <1>2, <1>3 DEF CoveredAfter

LEMMA MoveKeepsSources == ASSUME QueueInv, JobsMove PROVE KeepsSources
  <1>1. CASE \A j \in Jobs : Keeps(j) \/ Ends(j)
    BY <1>1 DEF KeepsSources, Keeps, Ends, FinishedStatuses
  <1>2. ASSUME NEW r \in Requests, Starts(r) PROVE KeepsSources
    BY <1>2 DEF KeepsSources, Starts, QueueInv, Reservations
  <1> QED BY <1>1, <1>2 DEF JobsMove

\* A worker that keeps its state, or lets its page go, stays covered.
LEMMA WorkersStay ==
  ASSUME QueueInv, Coverage, Grows, KeepsSources,
         \A w \in Workers : workers'[w] = workers[w] \/ workers'[w].pc \in {"idle", "claimed"}
  PROVE  CoveredWorkers'
  <1>1. ASSUME NEW w \in Workers, workers'[w] = workers[w],
               workers[w].pc \notin {"idle", "claimed"}
        PROVE  CoveredWorker(w)'
    <2> DEFINE s == jobs[workers[w].job].source
    <2>1. /\ jobs'[workers[w].job].source = s
          /\ s \in Sources
          /\ workers[w].cursor \in Pages
      BY <1>1 DEF QueueInv, TypeInv, TypeOK, WorkerState, References, KeepsSources
    <2>2. CoveredWorker(w)
      BY DEF Coverage, CoveredWorkers
    <2>3. Covered(s, workers[w].cursor)'
      BY <1>1, <2>1, <2>2, CoveredStays DEF CoveredWorker
    <2> QED BY <1>1, <2>1, <2>2, <2>3 DEF CoveredWorker, Grows
  <1>2. ASSUME NEW w \in Workers, ~(workers[w].pc \notin {"idle", "claimed"}) \/ workers'[w] # workers[w]
        PROVE  CoveredWorker(w)'
    BY <1>2 DEF CoveredWorker
  <1> QED BY <1>1, <1>2 DEF CoveredWorkers

LEMMA RequestsStay ==
  ASSUME QueueInv, Coverage, Grows,
         \A r \in Requests : requests'[r] = requests[r]
                             \/ requests'[r].op \notin {"enqueue", "sync", "synced"}
  PROVE  CoveredRequests'
  <1>1. ASSUME NEW r \in Requests, requests'[r] = requests[r],
               requests[r].op \in {"enqueue", "sync", "synced"}
        PROVE  CoveredRequest(r)'
    <2>1. requests[r].source \in Sources /\ requests[r].cursor \in Pages
      BY <1>1 DEF QueueInv, TypeInv, TypeOK, RequestState, References
    <2>2. CoveredRequest(r)
      BY DEF Coverage, CoveredRequests
    <2>3. Covered(requests[r].source, requests[r].cursor)'
      BY <1>1, <2>1, <2>2, CoveredStays DEF CoveredRequest
    <2> QED BY <1>1, <2>1, <2>2, <2>3 DEF CoveredRequest, Grows
  <1> QED BY <1>1 DEF CoveredRequests, CoveredRequest

\* Rows that keep their cursor, or start over, stay covered.
LEMMA SourcesStay ==
  ASSUME QueueInv, Coverage, Grows,
         \A s \in Sources : sources'[s].cursor \in {0, sources[s].cursor}
  PROVE  CoveredSources'
  <1> SUFFICES ASSUME NEW s \in Sources PROVE Covered(s, sources[s].cursor)'
    BY DEF CoveredSources
  <1>1. Covered(s, sources[s].cursor)
    BY DEF Coverage, CoveredSources
  <1>2. \A p \in Pages : ~(p < 0)
    BY DEF Pages
  <1> QED BY <1>1, <1>2 DEF Grows, Covered

LEMMA JobsStay ==
  ASSUME QueueInv, Coverage, Grows, KeepsSources,
         \A j \in Jobs :
            \/ jobs[j].status = "absent" /\ jobs'[j].status = "absent"
            \/ /\ jobs[j].status # "absent"
               /\ jobs'[j].cursor = jobs[j].cursor
               /\ jobs'[j].status = "succeeded" => jobs[j].status = "succeeded"
  PROVE  CoveredJobs'
  <1> SUFFICES ASSUME NEW j \in Jobs, jobs'[j].status # "absent"
               PROVE  /\ Covered(jobs[j].source, jobs[j].cursor)'
                      /\ jobs'[j].status = "succeeded" => Covered(jobs[j].source, NumPages)'
    BY DEF CoveredJobs
  <1>1. jobs[j].status # "absent" /\ jobs[j].source \in Sources
        /\ jobs'[j].source = jobs[j].source
    BY DEF KeepsSources, QueueInv, TypeInv, References
  <1>2. Covered(jobs[j].source, jobs[j].cursor)
        /\ (jobs[j].status = "succeeded" => Covered(jobs[j].source, NumPages))
    BY <1>1 DEF Coverage, CoveredJobs
  <1> QED BY <1>1, <1>2 DEF Grows, Covered

-----------------------------------------------------------------------------
(* One lemma per action that moves a cursor or persists a page *)

LEMMA UnchangedGrows == ASSUME UNCHANGED inserted PROVE Grows
  BY DEF Grows

\* The steps that leave pages, cursors and the states of the jobs alone.
LEMMA QuietCoverage ==
  ASSUME PagesInv, JobsMove, UNCHANGED inserted,
         \A s \in Sources : sources'[s].cursor \in {0, sources[s].cursor},
         \A j \in Jobs :
            \/ jobs[j].status = "absent" /\ jobs'[j].status = "absent"
            \/ /\ jobs[j].status # "absent"
               /\ jobs'[j].cursor = jobs[j].cursor
               /\ jobs'[j].status = "succeeded" => jobs[j].status = "succeeded",
         \A w \in Workers : workers'[w] = workers[w] \/ workers'[w].pc \in {"idle", "claimed"},
         \A r \in Requests : requests'[r] = requests[r]
                             \/ requests'[r].op \notin {"enqueue", "sync", "synced"}
  PROVE  Coverage'
  BY UnchangedGrows, MoveKeepsSources, WorkersStay, RequestsStay, SourcesStay, JobsStay
     DEF PagesInv, Coverage

LEMMA ClaimCoverage ==
  ASSUME PagesInv, NEW w \in Workers, NEW j \in Jobs, Claim(w, j)
  PROVE  Coverage'
  <1>1. jobs[j] \in JobRow /\ jobs[j].status # "absent" /\ JobsMove
    BY ClaimMove DEF PagesInv, QueueInv, TypeInv, TypeOK, Claim, Claimable
  <1>2. /\ JobAfterClaim(jobs[j]).status = "running"
        /\ JobAfterClaim(jobs[j]).cursor = jobs[j].cursor
    BY <1>1 DEF JobAfterClaim, JobRow
  <1>3. \A i \in Jobs : IF i = j THEN jobs'[i] = JobAfterClaim(jobs[j]) ELSE jobs'[i] = jobs[i]
    BY DEF PagesInv, QueueInv, TypeInv, TypeOK, Claim
  <1>4. \A v \in Workers : workers'[v] = workers[v] \/ workers'[v].pc = "claimed"
    BY DEF PagesInv, QueueInv, TypeInv, TypeOK, Claim, IdleWorker
  <1> QED BY <1>1, <1>2, <1>3, <1>4, QuietCoverage DEF Claim

LEMMA LoadCoverage ==
  ASSUME PagesInv, NEW w \in Workers, Load(w)
  PROVE  Coverage'
  <1> USE DEF PagesInv
  <1> DEFINE j == workers[w].job
  <1>1. /\ j \in Jobs
        /\ workers[w] \in WorkerState
        /\ Covered(jobs[j].source, jobs[j].cursor)
    BY DEF Load, QueueInv, TypeInv, TypeOK, References, Coverage, CoveredJobs
  <1>2. /\ \A v \in Workers \ {w} : workers'[v] = workers[v]
        /\ workers'[w].job = j
        /\ workers'[w].cursor = jobs[j].cursor
        /\ workers'[w].pc # "page"
    BY DEF Load, QueueInv, TypeInv, TypeOK
  <1>3. UNCHANGED <<sources, jobs, requests, inserted>>
    BY DEF Load
  <1>4. CoveredWorkers'
    BY <1>1, <1>2, <1>3 DEF Coverage, CoveredWorkers, CoveredWorker, Covered
  <1> QED BY <1>3, <1>4 DEF Coverage, CoveredSources, CoveredJobs, CoveredRequests,
          CoveredRequest, Covered

LEMMA AnswerCoverage ==
  ASSUME PagesInv, NEW w \in Workers, Answer(w)
  PROVE  Coverage'
  <1> USE DEF PagesInv
  <1> DEFINE s == jobs[workers[w].job].source
             c == workers[w].cursor
  <1>1. /\ workers[w] \in WorkerState
        /\ workers[w].pc = "fetching"
        /\ s \in Sources
    BY DEF Answer, FetchPage, FetchError, QueueInv, TypeInv, TypeOK, References
  <1>2. UNCHANGED <<sources, jobs, requests, inserted>>
    BY DEF Answer, FetchPage, FetchError
  <1>3. /\ \A v \in Workers \ {w} : workers'[v] = workers[v]
        /\ workers'[w].job = workers[w].job
        /\ workers'[w].cursor = c
        /\ (workers'[w].pc = "page" /\ ~workers'[w].missing) => inserted[s][c] # 0
    <2>1. CASE FetchPage(w)
      BY <1>1, <2>1 DEF FetchPage, Missing, QueueInv, TypeInv, TypeOK, WorkerState
    <2>2. ASSUME NEW kind \in {"retryable", "fatal"}, FetchError(w, kind)
          PROVE  /\ \A v \in Workers \ {w} : workers'[v] = workers[v]
                 /\ workers'[w].job = workers[w].job
                 /\ workers'[w].cursor = c
                 /\ workers'[w].pc # "page"
      BY <1>1, <2>2 DEF FetchError, QueueInv, TypeInv, TypeOK, WorkerState
    <2> QED BY <2>1, <2>2 DEF Answer
  <1>4. inserted[s][c] \in Nat
    BY <1>1 DEF QueueInv, TypeInv, TypeOK, WorkerState
  <1>5. CoveredWorker(w)
    BY DEF Coverage, CoveredWorkers
  <1>6. CoveredWorker(w)'
    BY <1>1, <1>2, <1>3, <1>4, <1>5 DEF CoveredWorker, Covered
  <1>7. CoveredWorkers'
    BY <1>2, <1>3, <1>6 DEF Coverage, CoveredWorkers, CoveredWorker, Covered
  <1> QED BY <1>2, <1>7 DEF Coverage, CoveredSources, CoveredJobs, CoveredRequests,
          CoveredRequest, Covered

LEMMA FinalizePageCoverage ==
  ASSUME PagesInv, NEW w \in Workers, FinalizePage(w)
  PROVE  Coverage'
  <1> USE DEF PagesInv
  <1> DEFINE st == workers[w]
             j == workers[w].job
             s == jobs[workers[w].job].source
             c == workers[w].cursor
  <1>1. /\ st \in WorkerState /\ j \in Jobs /\ jobs[j] \in JobRow /\ s \in Sources
        /\ c \in Pages /\ st.pc = "page" /\ st.missing \in BOOLEAN
    BY DEF FinalizePage, QueueInv, TypeInv, TypeOK, References, WorkerState
  <1>2. /\ \A v \in Workers : workers'[v] = workers[v] \/ workers'[v].pc = "idle"
        /\ UNCHANGED requests
    BY DEF FinalizePage, QueueInv, TypeInv, TypeOK, IdleWorker
  <1>3. JobsMove
    BY FinalizeMove DEF Finalize
  <1>4. CASE ~StillRunning(j)
    <2>1. UNCHANGED <<jobs, sources, inserted>>
      BY <1>4 DEF FinalizePage
    <2>2. \A i \in Jobs : \/ jobs[i].status = "absent" /\ jobs'[i].status = "absent"
                          \/ /\ jobs[i].status # "absent"
                             /\ jobs'[i].cursor = jobs[i].cursor
                             /\ jobs'[i].status = "succeeded" => jobs[i].status = "succeeded"
      BY <2>1
    <2> QED BY <1>2, <1>3, <2>1, <2>2, QuietCoverage
  <1>5. CASE StillRunning(j)
    <2>1. /\ jobs' = [jobs EXCEPT ![j] = JobAfterPage(@, st)]
          /\ sources' = [sources EXCEPT ![s] = SourceAfterPage(@, st)]
          /\ inserted' = [inserted EXCEPT ![s][c] = IF st.missing THEN @ + 1 ELSE @]
      BY <1>5 DEF FinalizePage
    <2>2. Covered(s, c) /\ (~st.missing => inserted[s][c] > 0)
      BY <1>1 DEF Coverage, CoveredWorkers, CoveredWorker
    <2>3. Grows /\ inserted'[s][c] > 0
      <3>1. inserted \in [Sources -> [Pages -> Nat]]
        BY DEF QueueInv, TypeInv, TypeOK
      <3>2. \A t \in Sources, p \in Pages : inserted'[t][p] =
              IF t = s /\ p = c /\ st.missing THEN inserted[t][p] + 1 ELSE inserted[t][p]
        BY <1>1, <2>1, <3>1
      <3>3. \A t \in Sources, p \in Pages : inserted[t][p] \in Nat
        BY <3>1
      <3> QED BY <1>1, <2>2, <3>2, <3>3 DEF Grows
    <2>4. KeepsSources
      BY <1>3, MoveKeepsSources
    <2>5. CoveredAfter(s, NextCursor(c)) /\ (IsLastPage(c) => CoveredAfter(s, NumPages))
      BY <1>1, <2>2, <2>3, CoveredNext
    <2>6. CoveredSources'
      <3>1. ASSUME NEW u \in Sources PROVE CoveredAfter(u, sources[u].cursor)
        BY <2>3 DEF Coverage, CoveredSources, Covered, CoveredAfter, Grows
      <3>2. sources'[s].cursor \in {NextCursor(c), sources[s].cursor}
        <4>1. sources[s] \in SourceRow
          BY <1>1 DEF QueueInv, TypeInv, TypeOK
        <4> QED BY <1>1, <2>1, <4>1
                DEF SourceAfterPage, Written, SourceRow, QueueInv, TypeInv, TypeOK
      <3>3. \A u \in Sources \ {s} : sources'[u] = sources[u]
        BY <2>1 DEF QueueInv, TypeInv, TypeOK
      <3>4. \A u \in Sources : CoveredAfter(u, sources'[u].cursor)
        BY <2>5, <3>1, <3>2, <3>3
      <3> QED BY <3>4 DEF CoveredSources, Covered, CoveredAfter
    <2>7. CoveredJobs'
      <3>1. /\ JobAfterPage(jobs[j], st).cursor = NextCursor(c)
            /\ JobAfterPage(jobs[j], st).source = s
            /\ JobAfterPage(jobs[j], st).status = "succeeded" => IsLastPage(c)
        BY <1>1 DEF JobAfterPage, JobRow
      <3>2. jobs'[j] = JobAfterPage(jobs[j], st) /\ \A i \in Jobs \ {j} : jobs'[i] = jobs[i]
        BY <1>1, <2>1 DEF QueueInv, TypeInv, TypeOK
      <3>3. ASSUME NEW i \in Jobs \ {j}, jobs[i].status # "absent"
            PROVE  /\ CoveredAfter(jobs[i].source, jobs[i].cursor)
                   /\ jobs[i].status = "succeeded" => CoveredAfter(jobs[i].source, NumPages)
        <4>1. jobs[i].source \in Sources
          BY <3>3 DEF QueueInv, TypeInv, References
        <4> QED BY <2>3, <3>3, <4>1 DEF Coverage, CoveredJobs, Covered, CoveredAfter, Grows
      <3>4. /\ CoveredAfter(jobs'[j].source, jobs'[j].cursor)
            /\ jobs'[j].status = "succeeded" => CoveredAfter(jobs'[j].source, NumPages)
        BY <2>5, <3>1, <3>2
      <3>5. \A i \in Jobs : jobs'[i].status # "absent" =>
              /\ CoveredAfter(jobs'[i].source, jobs'[i].cursor)
              /\ jobs'[i].status = "succeeded" => CoveredAfter(jobs'[i].source, NumPages)
        BY <3>2, <3>3, <3>4
      <3> QED BY <3>5 DEF CoveredJobs, Covered, CoveredAfter
    <2> QED BY <1>2, <2>3, <2>4, <2>6, <2>7, WorkersStay, RequestsStay DEF Coverage
  <1> QED BY <1>4, <1>5

LEMMA FinalizeFailureCoverage ==
  ASSUME PagesInv, NEW w \in Workers, FinalizeFailure(w)
  PROVE  Coverage'
  <1> USE DEF PagesInv
  <1> DEFINE st == workers[w]
             j == workers[w].job
  <1>1. st \in WorkerState /\ j \in Jobs /\ jobs[j] \in JobRow
    BY DEF FinalizeFailure, QueueInv, TypeInv, TypeOK, References
  <1>2. JobsMove
    BY FinalizeMove DEF Finalize
  <1>3. /\ JobAfterFailure(jobs[j], st).cursor = jobs[j].cursor
        /\ JobAfterFailure(jobs[j], st).status \in {"retrying", "failed"}
    BY <1>1 DEF JobAfterFailure, JobRow
  <1>4. \A i \in Jobs : \/ jobs'[i] = jobs[i]
                        \/ i = j /\ StillRunning(j) /\ jobs'[i] = JobAfterFailure(jobs[j], st)
    BY <1>1 DEF FinalizeFailure, QueueInv, TypeInv, TypeOK
  <1>5. \A t \in Sources : sources'[t].cursor = sources[t].cursor
    <2>1. \A t \in Sources : sources[t] \in SourceRow
      BY DEF QueueInv, TypeInv, TypeOK
    <2>2. PICK fails :
          \/ sources' = [sources EXCEPT ![jobs[j].source].status = fails]
          \/ sources' = sources
      BY DEF FinalizeFailure
    <2> QED BY <2>1, <2>2 DEF SourceRow, QueueInv, TypeInv, TypeOK
  <1>6. \A v \in Workers : workers'[v] = workers[v] \/ workers'[v].pc = "idle"
    BY DEF FinalizeFailure, QueueInv, TypeInv, TypeOK, IdleWorker
  <1>7. UNCHANGED <<requests, inserted>>
    BY DEF FinalizeFailure
  <1>8. \A i \in Jobs : \/ jobs[i].status = "absent" /\ jobs'[i].status = "absent"
                        \/ /\ jobs[i].status # "absent"
                           /\ jobs'[i].cursor = jobs[i].cursor
                           /\ jobs'[i].status = "succeeded" => jobs[i].status = "succeeded"
    BY <1>3, <1>4 DEF StillRunning
  <1> QED BY <1>2, <1>5, <1>6, <1>7, <1>8, QuietCoverage

LEMMA TickCrashCoverage ==
  ASSUME PagesInv, Tick \/ \E w \in Workers : Crash(w)
  PROVE  Coverage'
  <1> USE DEF PagesInv
  <1>1. CASE Tick
    <2>1. ASSUME NEW j \in Jobs
          PROVE  jobs'[j].status = jobs[j].status /\ jobs'[j].cursor = jobs[j].cursor
      <3>1. jobs[j] \in JobRow
        BY DEF QueueInv, TypeInv, TypeOK
      <3> QED BY <1>1, <3>1 DEF Tick, JobRow
    <2>2. UNCHANGED <<sources, workers, requests, inserted>>
      BY <1>1 DEF Tick
    <2>3. JobsMove
      BY <1>1, TickMove
    <2> QED BY <2>1, <2>2, <2>3, QuietCoverage
  <1>2. ASSUME NEW w \in Workers, Crash(w) PROVE Coverage'
    <2>1. \A v \in Workers : workers'[v] = workers[v] \/ workers'[v].pc = "idle"
      BY <1>2 DEF Crash, QueueInv, TypeInv, TypeOK, IdleWorker
    <2>2. UNCHANGED <<sources, jobs, requests, inserted>> /\ JobsMove
      BY <1>2, UnchangedJobsMove DEF Crash
    <2>3. \A i \in Jobs : \/ jobs[i].status = "absent" /\ jobs'[i].status = "absent"
                          \/ /\ jobs[i].status # "absent"
                             /\ jobs'[i].cursor = jobs[i].cursor
                             /\ jobs'[i].status = "succeeded" => jobs[i].status = "succeeded"
      BY <2>2
    <2> QED BY <2>1, <2>2, <2>3, QuietCoverage
  <1> QED BY <1>1, <1>2

LEMMA BegunOp ==
  ASSUME NEW s \in Sources, NEW op \in {"save", "revoke", "test", "enqueue", "sync"}
  PROVE  Begun(op, s).op = op
  BY DEF Begun, NoRequest

LEMMA LoadedOp ==
  ASSUME NEW s \in Sources, NEW op \in {"save", "revoke"}
  PROVE  Loaded(op, s).op = op
  <1>1. Begun(op, s) \in RequestState
    BY BegunRequest
  <1> DEFINE active == ActiveJobs(s)
             leased == {j \in ActiveJobs(s) : jobs[j].lease # NoLease}
  <1>2. Loaded(op, s) = [Begun(op, s) EXCEPT !.status = sources[s].status,
                !.cursor = sources[s].cursor, !.credential = sources[s].credential,
                !.jobs = active, !.leased = leased]
    BY DEF Loaded
  <1> HIDE DEF active, leased
  <1> QED BY <1>1, <1>2, BegunOp DEF RequestState

\* A request that begins copies the cursor of its source.
LEMMA BeginCoverage ==
  ASSUME PagesInv, NEW r \in Requests, NEW s \in Sources,
         BeginSave(r, s) \/ BeginRevoke(r, s) \/ BeginTest(r, s) \/ BeginEnqueue(r, s)
         \/ BeginSync(r, s)
  PROVE  Coverage'
  <1> USE DEF PagesInv
  <1>1. UNCHANGED <<sources, jobs, workers, inserted>>
    BY DEF BeginSave, BeginRevoke, BeginTest, BeginEnqueue, BeginSync
  <1>2. sources[s] \in SourceRow /\ Covered(s, sources[s].cursor)
    BY DEF QueueInv, TypeInv, TypeOK, Coverage, CoveredSources
  <1>3. PICK req :
          /\ requests' = [requests EXCEPT ![r] = req]
          /\ \/ req.op \in {"save", "revoke", "test"}
             \/ /\ req.op \in {"enqueue", "sync"}
                /\ req.source = s
                /\ req.cursor = sources[s].cursor
    <2>1. CASE BeginSave(r, s)
      <3> DEFINE req == [Loaded("save", s) EXCEPT !.secret = saves + 1]
      <3>1. req.op = "save"
        BY LoadedOp, LoadedRequest DEF QueueInv, TypeInv, RequestState
      <3>2. requests' = [requests EXCEPT ![r] = req]
        BY <2>1 DEF BeginSave
      <3> QED BY <3>1, <3>2
    <2>2. CASE BeginRevoke(r, s)
      BY <2>2, LoadedOp DEF BeginRevoke
    <2>3. CASE BeginTest(r, s)
      <3> DEFINE req == [Begun("test", s) EXCEPT !.status = sources[s].status,
                                     !.secret = sources[s].credential.secret]
      <3>1. req.op = "test"
        BY BegunOp, BegunRequest DEF RequestState
      <3>2. requests' = [requests EXCEPT ![r] = req]
        BY <2>3 DEF BeginTest
      <3> QED BY <3>1, <3>2
    <2>4. CASE BeginEnqueue(r, s)
      <3>1. PICK j \in Jobs : requests' = [requests EXCEPT ![r] =
                [Begun("enqueue", s) EXCEPT !.cursor = sources[s].cursor, !.jobs = {j}]]
        BY <2>4 DEF BeginEnqueue
      <3> DEFINE req == [Begun("enqueue", s) EXCEPT !.cursor = sources[s].cursor,
                                                    !.jobs = {j}]
      <3>2. req.op = "enqueue" /\ req.source = s /\ req.cursor = sources[s].cursor
        BY BegunOp, BegunRequest DEF RequestState
      <3> QED BY <3>1, <3>2
    <2>5. CASE BeginSync(r, s)
      <3> DEFINE req == [Begun("sync", s) EXCEPT !.cursor = sources[s].cursor,
                                     !.secret = sources[s].credential.secret]
      <3>1. req.op = "sync" /\ req.source = s /\ req.cursor = sources[s].cursor
        BY BegunOp, BegunRequest DEF RequestState
      <3>2. requests' = [requests EXCEPT ![r] = req]
        BY <2>5 DEF BeginSync
      <3> QED BY <3>1, <3>2
    <2> QED BY <2>1, <2>2, <2>3, <2>4, <2>5
  <1>4. requests'[r] = req /\ \A other \in Requests \ {r} : requests'[other] = requests[other]
    BY <1>3 DEF QueueInv, TypeInv, TypeOK
  <1>5. CoveredRequests'
    BY <1>1, <1>2, <1>3, <1>4 DEF Coverage, CoveredRequests, CoveredRequest, Covered
  <1> QED BY <1>1, <1>5 DEF Coverage, CoveredSources, CoveredJobs, CoveredWorkers,
          CoveredWorker, Covered

LEMMA ResetCursor ==
  ASSUME NEW row \in SourceRow, NEW req, NEW status, NEW credential
  PROVE  SourceReset(row, req, status, credential).cursor \in {0, row.cursor}
  BY DEF SourceReset, Written, SourceRow

LEMMA CancelCoverage ==
  ASSUME PagesInv, NEW r \in Requests, requests[r].op \in {"save", "revoke"},
         jobs' = Cancelled(requests[r]), JobsMove, Respond(r),
         UNCHANGED <<workers, inserted>>,
         \A s \in Sources : sources'[s].cursor \in {0, sources[s].cursor}
  PROVE  Coverage'
  <1> USE DEF PagesInv
  <1>1. ASSUME NEW j \in Jobs
        PROVE  \/ jobs[j].status = "absent" /\ jobs'[j].status = "absent"
               \/ /\ jobs[j].status # "absent"
                  /\ jobs'[j].cursor = jobs[j].cursor
                  /\ jobs'[j].status = "succeeded" => jobs[j].status = "succeeded"
    <2>1. jobs[j] \in JobRow
      BY DEF QueueInv, TypeInv, TypeOK
    <2>2. j \in requests[r].jobs => jobs[j].status # "absent"
      BY DEF QueueInv, Reservations
    <2> QED BY <2>1, <2>2 DEF Cancelled, JobRow
  <1>2. \A other \in Requests : \/ requests'[other] = requests[other]
                                \/ requests'[other].op = "none"
    BY DEF Respond, NoRequest, QueueInv, TypeInv, TypeOK
  <1> QED BY <1>1, <1>2, QuietCoverage

LEMMA CommitCoverage ==
  ASSUME PagesInv, NEW r \in Requests, Commit(r)
  PROVE  Coverage'
  <1> USE DEF PagesInv
  <1> DEFINE req == requests[r]
  <1>1. /\ sources \in [Sources -> SourceRow]
        /\ req.op # "none" => req.source \in Sources
    BY DEF QueueInv, TypeInv, TypeOK, References
  <1>2. JobsMove
    BY CommitMove
  <1>3. Respond(r) => \A other \in Requests : \/ requests'[other] = requests[other]
                                              \/ requests'[other].op = "none"
    BY DEF Respond, NoRequest, QueueInv, TypeInv, TypeOK
  <1>4. ASSUME Respond(r), UNCHANGED <<jobs, workers, inserted>>,
               \A s \in Sources : sources'[s].cursor = sources[s].cursor
        PROVE  Coverage'
    <2>1. \A i \in Jobs : \/ jobs[i].status = "absent" /\ jobs'[i].status = "absent"
                          \/ /\ jobs[i].status # "absent"
                             /\ jobs'[i].cursor = jobs[i].cursor
                             /\ jobs'[i].status = "succeeded" => jobs[i].status = "succeeded"
      BY <1>4
    <2> QED BY <1>2, <1>3, <1>4, <2>1, QuietCoverage
  <1>5. CASE CommitSave(r)
    <2>1. CASE UNCHANGED <<jobs, sources>>
      BY <1>4, <1>5, <2>1 DEF CommitSave
    <2>2. ASSUME NEW c, jobs' = Cancelled(req),
                 sources' = [sources EXCEPT ![req.source] = SourceReset(@, req, "pending", c)]
          PROVE  Coverage'
      <3>1. \A s \in Sources : sources'[s].cursor \in {0, sources[s].cursor}
        BY <1>1, <2>2, ResetCursor
      <3> QED BY <1>2, <1>5, <2>2, <3>1, CancelCoverage DEF CommitSave
    <2> QED BY <1>5, <2>1, <2>2 DEF CommitSave
  <1>6. CASE CommitRevoke(r)
    <2>1. PICK c : sources' = [sources EXCEPT ![req.source] = SourceReset(@, req, "disabled", c)]
      BY <1>6 DEF CommitRevoke
    <2>2. \A s \in Sources : sources'[s].cursor \in {0, sources[s].cursor}
      BY <1>1, <2>1, ResetCursor
    <2> QED BY <1>2, <1>6, <2>2, CancelCoverage DEF CommitRevoke
  <1>7. CASE CommitTest(r)
    <2>1. PICK accepted \in BOOLEAN :
            sources' = [sources EXCEPT ![req.source] = SourceAfterTest(@, req, accepted)]
      BY <1>7 DEF CommitTest
    <2>2. \A row \in SourceRow : SourceAfterTest(row, req, accepted).cursor = row.cursor
      BY DEF SourceAfterTest, SourceRow
    <2>3. \A s \in Sources : sources'[s].cursor = sources[s].cursor
      BY <1>1, <2>1, <2>2
    <2> QED BY <1>4, <1>7, <2>3 DEF CommitTest
  <1>8. CASE CommitEnqueue(r)
    <2>1. CASE ~UniqueActive(req.source)
      BY <1>4, <1>8, <2>1 DEF CommitEnqueue
    <2>2. CASE UniqueActive(req.source)
      <3>1. req.source \in Sources /\ Covered(req.source, req.cursor)
        BY <1>1, <1>8 DEF CommitEnqueue, Coverage, CoveredRequests, CoveredRequest
      <3>2. UNCHANGED <<sources, workers, inserted>> /\ Respond(r)
        BY <1>8 DEF CommitEnqueue
      <3>3. \A i \in Jobs : \/ jobs'[i] = jobs[i]
                            \/ /\ jobs'[i].status = "queued"
                               /\ jobs'[i].source = req.source
                               /\ jobs'[i].cursor = req.cursor
        BY <1>8, <2>2 DEF CommitEnqueue, AbsentJob
      <3>4. CoveredJobs'
        BY <3>1, <3>2, <3>3 DEF Coverage, CoveredJobs, Covered
      <3>5. Grows /\ KeepsSources
        BY <1>2, <3>2, UnchangedGrows, MoveKeepsSources
      <3> QED BY <1>3, <3>2, <3>4, <3>5, WorkersStay, RequestsStay, SourcesStay DEF Coverage
    <2> QED BY <2>1, <2>2
  <1> QED BY <1>5, <1>6, <1>7, <1>8 DEF Commit

\* sync_parties confirms its page as a worker does, in no job.
LEMMA DirectSyncCoverage ==
  ASSUME PagesInv, NEW r \in Requests, SyncPage(r) \/ SyncError(r) \/ CommitSync(r)
  PROVE  Coverage'
  <1> USE DEF PagesInv
  <1> DEFINE req == requests[r]
             s == requests[r].source
             c == requests[r].cursor
  <1>1. /\ s \in Sources /\ c \in Pages /\ req \in RequestState
        /\ Covered(s, c)
        /\ req.op = "synced" /\ ~req.missing => inserted[s][c] > 0
    BY DEF SyncPage, SyncError, CommitSync, QueueInv, TypeInv, TypeOK, References,
           RequestState, Coverage, CoveredRequests, CoveredRequest
  <1>2. UNCHANGED <<jobs, workers>> /\ JobsMove
    BY UnchangedJobsMove DEF SyncPage, SyncError, CommitSync
  <1>3. \A j \in Jobs : \/ jobs[j].status = "absent" /\ jobs'[j].status = "absent"
                        \/ /\ jobs[j].status # "absent"
                           /\ jobs'[j].cursor = jobs[j].cursor
                           /\ jobs'[j].status = "succeeded" => jobs[j].status = "succeeded"
    BY <1>2
  <1>4. Respond(r) => \A other \in Requests : \/ requests'[other] = requests[other]
                                              \/ requests'[other].op = "none"
    BY DEF Respond, NoRequest, QueueInv, TypeInv, TypeOK
  <1>5. CASE SyncPage(r)
    <2>1. UNCHANGED <<sources, jobs, workers, inserted>>
      BY <1>5 DEF SyncPage
    <2>2. /\ requests'[r].source = s /\ requests'[r].cursor = c
          /\ ~requests'[r].missing => inserted[s][c] # 0
          /\ \A other \in Requests \ {r} : requests'[other] = requests[other]
      BY <1>1, <1>5 DEF SyncPage, Missing, QueueInv, TypeInv, TypeOK, RequestState
    <2>3. inserted[s][c] \in Nat
      BY <1>1 DEF QueueInv, TypeInv, TypeOK
    <2>4. CoveredRequest(r)'
      BY <1>1, <2>1, <2>2, <2>3 DEF CoveredRequest, Covered
    <2>5. CoveredRequests'
      BY <2>1, <2>2, <2>4 DEF Coverage, CoveredRequests, CoveredRequest, Covered
    <2> QED BY <2>1, <2>5 DEF Coverage, CoveredSources, CoveredJobs, CoveredWorkers,
            CoveredWorker, Covered
  <1>6. CASE SyncError(r)
    <2>1. Respond(r) /\ UNCHANGED inserted
          /\ sources' = [sources EXCEPT ![s].status = "failed"]
      BY <1>6 DEF SyncError
    <2>2. \A t \in Sources : sources'[t].cursor = sources[t].cursor
      <3>1. \A t \in Sources : sources[t] \in SourceRow
        BY DEF QueueInv, TypeInv, TypeOK
      <3> QED BY <2>1, <3>1 DEF SourceRow, QueueInv, TypeInv, TypeOK
    <2> QED BY <1>2, <1>3, <1>4, <2>1, <2>2, QuietCoverage
  <1>7. CASE CommitSync(r)
    <2>1. /\ req.op = "synced" /\ Respond(r)
          /\ sources' = [sources EXCEPT ![s].cursor = Written(c, NextCursor(c), @)]
          /\ inserted' = [inserted EXCEPT ![s][c] = IF req.missing THEN @ + 1 ELSE @]
      BY <1>7 DEF CommitSync
    <2>2. Grows /\ inserted'[s][c] > 0
      BY <1>1, <2>1 DEF Grows, QueueInv, TypeInv, TypeOK, RequestState
    <2>3. CoveredAfter(s, NextCursor(c))
      BY <1>1, <2>2, CoveredNext
    <2>4. CoveredSources'
      <3>1. ASSUME NEW u \in Sources PROVE CoveredAfter(u, sources[u].cursor)
        BY <2>2 DEF Coverage, CoveredSources, Covered, CoveredAfter, Grows
      <3>2. sources'[s].cursor \in {NextCursor(c), sources[s].cursor}
        <4>1. sources[s] \in SourceRow
          BY <1>1 DEF QueueInv, TypeInv, TypeOK
        <4> QED BY <1>1, <2>1, <4>1
                DEF Written, SourceRow, QueueInv, TypeInv, TypeOK
      <3>3. \A u \in Sources \ {s} : sources'[u] = sources[u]
        BY <2>1 DEF QueueInv, TypeInv, TypeOK
      <3>4. \A u \in Sources : CoveredAfter(u, sources'[u].cursor)
        BY <2>3, <3>1, <3>2, <3>3
      <3> QED BY <3>4 DEF CoveredSources, Covered, CoveredAfter
    <2>5. KeepsSources
      BY <1>2, MoveKeepsSources
    <2> QED BY <1>2, <1>3, <1>4, <2>1, <2>2, <2>4, <2>5, JobsStay, WorkersStay, RequestsStay
            DEF Coverage
  <1> QED BY <1>5, <1>6, <1>7

LEMMA PagesInvStep == PagesInv /\ [NextWithDirectSync]_vars => PagesInv'
  <1>1. ASSUME PagesInv, NextWithDirectSync PROVE Coverage'
    <2>1. ASSUME NEW w \in Workers,
                 (\E j \in Jobs : Claim(w, j)) \/ WorkerStep(w) \/ Crash(w)
          PROVE  Coverage'
      BY <1>1, <2>1, ClaimCoverage, LoadCoverage, AnswerCoverage, FinalizePageCoverage,
         FinalizeFailureCoverage, TickCrashCoverage DEF WorkerStep, Finalize
    <2>2. ASSUME NEW r \in Requests, Begin(r) \/ Commit(r) \/ DirectSync(r)
          PROVE  Coverage'
      BY <1>1, <2>2, BeginCoverage, CommitCoverage, DirectSyncCoverage DEF Begin, DirectSync
    <2>3. CASE Tick
      BY <1>1, <2>3, TickCrashCoverage
    <2> QED BY <1>1, <2>1, <2>2, <2>3 DEF NextWithDirectSync, Next
  <1>2. ASSUME PagesInv, UNCHANGED vars PROVE Coverage'
    BY <1>2 DEF vars, PagesInv, Coverage, CoveredSources, CoveredJobs, CoveredWorkers,
       CoveredWorker, CoveredRequests, CoveredRequest, Covered
  <1> QED BY <1>1, <1>2, QueueInvStep DEF PagesInv

\* However late, repeated or interrupted the workers and requests are, a
\* listing never goes on past a page that was not persisted, and a job that
\* succeeded has persisted the whole listing.
THEOREM NoPageSkippedAlways == SpecWithDirectSync => []NoPageSkipped
  <1>1. Init => PagesInv
    BY QueueInvInit, InitCoverage DEF PagesInv
  <1>2. PagesInv => NoPageSkipped
    BY DEF PagesInv, Coverage, CoveredSources, CoveredJobs, NoPageSkipped, ActiveStatuses
  <1> QED BY <1>1, <1>2, PagesInvStep, PTL DEF SpecWithDirectSync

-----------------------------------------------------------------------------
(* As long as leases hold: one worker per job, and what it loaded is true *)

ReadyStatuses == {"queued", "retrying"}
Holds(w, j) == workers[w].pc # "idle" /\ workers[w].job = j

\* The job of a worker at work is not up for grabs; if it is still running
\* (not cancelled meanwhile), its lease is, nobody else is at it, its row is
\* the one loaded, and a page whose parties were missing still misses them.
LeasedWorker(w) ==
    \A j \in Jobs : Holds(w, j) =>
        /\ jobs[j].status \notin ReadyStatuses
        /\ jobs[j].status = "running" =>
            /\ jobs[j].lease > 0
            /\ \A v \in Workers : Holds(v, j) => v = w
            /\ workers[w].pc # "claimed" =>
                  workers[w].cursor = jobs[j].cursor /\ workers[w].pages = jobs[j].pages
            /\ (workers[w].pc = "page" /\ workers[w].missing) =>
                  inserted[jobs[j].source][workers[w].cursor] = 0
InsertedOnce == \A s \in Sources, p \in Pages : inserted[s][p] <= 1
Leased == InsertedOnce /\ \A w \in Workers : LeasedWorker(w)
LeasedInv == QueueInv /\ (LeasesHold => Leased)

\* What a step may do to a job: keep its row and, if a worker is at it, its
\* lease; end it; or change it when no worker is left at it.
SameJob(j) ==
    /\ jobs'[j].status = jobs[j].status
    /\ jobs'[j].source = jobs[j].source
    /\ jobs'[j].cursor = jobs[j].cursor
    /\ jobs'[j].pages = jobs[j].pages
    /\ (\E w \in Workers : Holds(w, j)) /\ jobs[j].status = "running" /\ jobs[j].lease > 0
          => jobs'[j].lease > 0
OverJob(j) == jobs'[j].status \in FinishedStatuses
LeftJob(j) == \A w \in Workers : ~Holds(w, j)'

LEMMA LeasedStays ==
  ASSUME Leased, InsertedOnce',
         \A w \in Workers : workers'[w] = workers[w] \/ workers'[w].pc = "idle",
         \A j \in Jobs : SameJob(j) \/ OverJob(j) \/ LeftJob(j),
         \A w \in Workers, j \in Jobs :
            (Holds(w, j) /\ Holds(w, j)' /\ SameJob(j) /\ jobs[j].status = "running") =>
               inserted'[jobs[j].source][workers[w].cursor]
                 = inserted[jobs[j].source][workers[w].cursor]
  PROVE  Leased'
  <1> SUFFICES ASSUME NEW w \in Workers, NEW j \in Jobs, Holds(w, j)'
               PROVE  /\ jobs'[j].status \notin ReadyStatuses
                      /\ jobs'[j].status = "running" =>
                          /\ jobs'[j].lease > 0
                          /\ \A v \in Workers : Holds(v, j)' => v = w
                          /\ workers'[w].pc # "claimed" =>
                                /\ workers'[w].cursor = jobs'[j].cursor
                                /\ workers'[w].pages = jobs'[j].pages
                          /\ (workers'[w].pc = "page" /\ workers'[w].missing) =>
                                inserted'[jobs'[j].source][workers'[w].cursor] = 0
    BY DEF Leased, LeasedWorker
  <1>1. workers'[w] = workers[w] /\ Holds(w, j)
    BY DEF Holds
  <1>2. \A v \in Workers : Holds(v, j)' => Holds(v, j)
    BY DEF Holds
  <1>3. LeasedWorker(w)
    BY DEF Leased
  <1>4. CASE SameJob(j)
    BY <1>1, <1>2, <1>3, <1>4 DEF SameJob, LeasedWorker
  <1>5. CASE OverJob(j)
    BY <1>5 DEF OverJob, FinishedStatuses, ReadyStatuses
  <1>6. CASE LeftJob(j)
    BY <1>6 DEF LeftJob
  <1> QED BY <1>4, <1>5, <1>6

LEMMA ClaimLeased ==
  ASSUME QueueInv, Leased, NEW w \in Workers, NEW j \in Jobs, Claim(w, j)
  PROVE  Leased'
  <1> USE DEF QueueInv, TypeInv, TypeOK
  <1>1. /\ jobs[j] \in JobRow
        /\ \A i \in Jobs \ {j} : jobs'[i] = jobs[i]
        /\ jobs'[j].status = "running"
        /\ jobs'[j].lease = LeaseTicks
    <2>1. jobs[j] \in JobRow /\ jobs' = [jobs EXCEPT ![j] = JobAfterClaim(@)]
      BY DEF Claim
    <2>2. JobAfterClaim(jobs[j]).status = "running" /\ JobAfterClaim(jobs[j]).lease = LeaseTicks
      BY <2>1 DEF JobAfterClaim, JobRow
    <2> QED BY <2>1, <2>2
  <1>2. /\ workers'[w].pc = "claimed" /\ workers'[w].job = j
        /\ \A v \in Workers \ {w} : workers'[v] = workers[v]
    BY DEF Claim, IdleWorker
  <1>3. \A v \in Workers : ~Holds(v, j)
    BY <1>1 DEF Claim, Claimable, Leased, LeasedWorker, ReadyStatuses
  <1>4. UNCHANGED inserted /\ LeaseTicks > 0
    BY SettingsAssumption DEF Claim
  <1>5. ASSUME NEW v \in Workers \ {w} PROVE LeasedWorker(v)'
    <2>1. LeasedWorker(v)
      BY DEF Leased
    <2> QED BY <1>1, <1>2, <1>3, <1>4, <2>1 DEF LeasedWorker, Holds
  <1>6. LeasedWorker(w)'
    BY <1>1, <1>2, <1>3, <1>4 DEF LeasedWorker, Holds, ReadyStatuses
  <1>7. InsertedOnce'
    BY <1>4 DEF Leased, InsertedOnce
  <1> QED BY <1>5, <1>6, <1>7 DEF Leased

\* The steps between the claim and the end of a page move one worker only.
LEMMA WorkLeased ==
  ASSUME QueueInv, Leased, NEW w \in Workers, Load(w) \/ Answer(w)
  PROVE  Leased'
  <1> USE DEF QueueInv, TypeInv, TypeOK
  <1> DEFINE j == workers[w].job
  <1>1. workers[w].pc # "idle" /\ j \in Jobs /\ workers[w] \in WorkerState
        /\ UNCHANGED <<jobs, inserted>>
    BY DEF Load, Answer, FetchPage, FetchError, References
  <1>2. /\ \A v \in Workers \ {w} : workers'[v] = workers[v]
        /\ workers'[w].job = j /\ workers'[w].pc # "idle"
        /\ \/ workers'[w].cursor = jobs[j].cursor /\ workers'[w].pages = jobs[j].pages
           \/ /\ workers[w].pc # "claimed"
              /\ workers'[w].cursor = workers[w].cursor /\ workers'[w].pages = workers[w].pages
        /\ (workers'[w].pc = "page" /\ workers'[w].missing) =>
               inserted[jobs[j].source][workers'[w].cursor] = 0
    <2>1. CASE Load(w)
      BY <1>1, <2>1 DEF Load
    <2>2. CASE FetchPage(w)
      BY <1>1, <2>2 DEF FetchPage, Missing, WorkerState
    <2>3. ASSUME NEW kind \in {"retryable", "fatal"}, FetchError(w, kind)
          PROVE  /\ \A v \in Workers \ {w} : workers'[v] = workers[v]
                 /\ workers'[w].job = j /\ workers'[w].pc \in {"retryable", "fatal"}
                 /\ workers[w].pc # "claimed"
                 /\ workers'[w].cursor = workers[w].cursor
                 /\ workers'[w].pages = workers[w].pages
      BY <1>1, <2>3 DEF FetchError, WorkerState
    <2> QED BY <2>1, <2>2, <2>3 DEF Answer
  <1>3. \A v \in Workers, i \in Jobs : Holds(v, i)' <=> Holds(v, i)
    BY <1>1, <1>2 DEF Holds
  <1>4. ASSUME NEW v \in Workers \ {w} PROVE LeasedWorker(v)'
    <2>1. LeasedWorker(v) /\ workers'[v] = workers[v]
      BY <1>2 DEF Leased
    <2> QED BY <1>1, <1>3, <2>1 DEF LeasedWorker
  <1>5. LeasedWorker(w)'
    <2>1. LeasedWorker(w)
      BY DEF Leased
    <2>2. \A i \in Jobs : Holds(w, i) => i = j
      BY DEF Holds
    <2> QED BY <1>1, <1>2, <1>3, <2>1, <2>2 DEF LeasedWorker
  <1>6. InsertedOnce'
    BY <1>1 DEF Leased, InsertedOnce
  <1> QED BY <1>4, <1>5, <1>6 DEF Leased

LEMMA FinalizePageLeased ==
  ASSUME QueueInv, Leased, NEW w \in Workers, FinalizePage(w)
  PROVE  Leased'
  <1> USE DEF QueueInv, TypeInv, TypeOK
  <1>0. PICK j \in Jobs : Holds(w, j)
    BY DEF FinalizePage, References, Holds
  <1> DEFINE st == workers[w]
             s == jobs[j].source
             c == workers[w].cursor
  <1>1. /\ st \in WorkerState /\ st.job = j /\ jobs[j] \in JobRow /\ s \in Sources
        /\ c \in Pages /\ st.pc = "page"
    BY <1>0 DEF FinalizePage, References, WorkerState, Holds
  <1>2. /\ \A v \in Workers : workers'[v] = workers[v] \/ workers'[v].pc = "idle"
        /\ workers'[w].pc = "idle"
    BY DEF FinalizePage, IdleWorker
  <1>3. CASE ~StillRunning(j)
    <2>1. UNCHANGED <<jobs, inserted>>
      BY <1>1, <1>3 DEF FinalizePage
    <2>2. \A i \in Jobs : SameJob(i)
      BY <2>1 DEF SameJob
    <2>3. InsertedOnce'
      BY <2>1 DEF Leased, InsertedOnce
    <2> QED BY <1>2, <2>1, <2>2, <2>3, LeasedStays
  <1>4. CASE StillRunning(j)
    <2>1. /\ jobs' = [jobs EXCEPT ![j] = JobAfterPage(@, st)]
          /\ inserted' = [inserted EXCEPT ![s][c] = IF st.missing THEN @ + 1 ELSE @]
      BY <1>1, <1>4 DEF FinalizePage
    <2>2. LeasedWorker(w) /\ jobs[j].status = "running"
      BY <1>4 DEF Leased, StillRunning
    <2>3. LeftJob(j)
      BY <1>0, <1>2, <2>2 DEF LeftJob, LeasedWorker, Holds
    <2>4. \A i \in Jobs \ {j} : jobs'[i] = jobs[i]
      BY <1>1, <2>1
    <2>5. \A i \in Jobs : SameJob(i) \/ LeftJob(i)
      BY <2>3, <2>4 DEF SameJob
    <2>6. st.missing => inserted[s][c] = 0
      BY <1>0, <1>1, <2>2 DEF LeasedWorker
    <2>7. InsertedOnce'
      BY <1>1, <2>1, <2>6 DEF Leased, InsertedOnce
    <2>8. ASSUME NEW v \in Workers, NEW i \in Jobs, Holds(v, i)', jobs[i].status = "running"
          PROVE  inserted'[jobs[i].source] = inserted[jobs[i].source]
      <3>1. i # j
        BY <2>3, <2>8 DEF LeftJob
      <3>2. jobs[i].active = jobs[i].source /\ jobs[j].active = s /\ jobs[j].active # NoSource
        BY <1>1, <2>2, <2>8, DistinctNulls DEF OneActiveJob, ActiveStatuses
      <3>3. jobs[i].source # s
        BY <1>1, <3>1, <3>2 DEF OneActiveJob
      <3> QED BY <1>1, <2>1, <3>3
    <2> QED BY <1>2, <2>5, <2>7, <2>8, LeasedStays
  <1> QED BY <1>3, <1>4

LEMMA FinalizeFailureLeased ==
  ASSUME QueueInv, Leased, NEW w \in Workers, FinalizeFailure(w)
  PROVE  Leased'
  <1> USE DEF QueueInv, TypeInv, TypeOK
  <1>0. PICK j \in Jobs : Holds(w, j)
    BY DEF FinalizeFailure, References, Holds
  <1>1. /\ workers[w].job = j /\ UNCHANGED inserted
        /\ \A v \in Workers : workers'[v] = workers[v] \/ workers'[v].pc = "idle"
        /\ workers'[w].pc = "idle"
    BY <1>0 DEF FinalizeFailure, Holds, IdleWorker
  <1>2. \A i \in Jobs : jobs'[i] = jobs[i] \/ (i = j /\ StillRunning(j))
    BY <1>1 DEF FinalizeFailure
  <1>3. StillRunning(j) => LeftJob(j)
    BY <1>0, <1>1 DEF Leased, LeasedWorker, LeftJob, Holds, StillRunning
  <1>4. \A i \in Jobs : SameJob(i) \/ LeftJob(i)
    BY <1>2, <1>3 DEF SameJob
  <1>5. InsertedOnce'
    BY <1>1 DEF Leased, InsertedOnce
  <1> QED BY <1>1, <1>4, <1>5, LeasedStays

LEMMA QuietLeased ==
  ASSUME Leased, UNCHANGED inserted,
         \A w \in Workers : workers'[w] = workers[w] \/ workers'[w].pc = "idle",
         \A j \in Jobs : SameJob(j) \/ OverJob(j) \/ LeftJob(j)
  PROVE  Leased'
  BY LeasedStays DEF Leased, InsertedOnce

\* The clock moves only if no worker at work loses its lease by it.
LEMMA TickLeased ==
  ASSUME QueueInv, Leased, LeasesHold, LeasesHold', Tick
  PROVE  Leased'
  <1> USE DEF QueueInv, TypeInv, TypeOK
  <1>1. ~Overrun
    <2>1. Overrun => overruns' = overruns + 1
      BY Zenon DEF Tick
    <2> QED BY <2>1 DEF LeasesHold
  <1>2. ASSUME NEW j \in Jobs PROVE SameJob(j)
    <2>1. jobs[j] \in JobRow
      OBVIOUS
    <2>2. jobs'[j] = IF Waiting(j) THEN [jobs[j] EXCEPT !.avail = Down(@), !.lease = Down(@)]
                                   ELSE jobs[j]
      BY DEF Tick
    <2>3. jobs'[j].lease \in {jobs[j].lease, Down(jobs[j].lease)}
      BY <2>1, <2>2 DEF JobRow
    <2>4. ASSUME NEW w \in Workers, Holds(w, j), jobs[j].status = "running", jobs[j].lease > 0
          PROVE  jobs'[j].lease > 0
      <3>1. jobs[j].lease # 1
        BY <1>1, <2>4 DEF Overrun, Holds
      <3>2. jobs[j].lease \in {NoLease} \cup Nat
        BY <2>1 DEF JobRow
      <3> QED BY <2>3, <2>4, <3>1, <3>2 DEF Down, NoLease
    <2>5. /\ jobs'[j].status = jobs[j].status /\ jobs'[j].source = jobs[j].source
          /\ jobs'[j].cursor = jobs[j].cursor /\ jobs'[j].pages = jobs[j].pages
      BY <2>1, <2>2 DEF JobRow
    <2> QED BY <2>4, <2>5 DEF SameJob
  <1> QED BY <1>2, QuietLeased DEF Tick

LEMMA CrashLeased ==
  ASSUME QueueInv, Leased, NEW w \in Workers, Crash(w)
  PROVE  Leased'
  <1>1. \A v \in Workers : workers'[v] = workers[v] \/ workers'[v].pc = "idle"
    BY DEF Crash, IdleWorker, QueueInv, TypeInv, TypeOK
  <1>2. UNCHANGED <<jobs, inserted>>
    BY DEF Crash
  <1>3. \A j \in Jobs : SameJob(j)
    BY <1>2 DEF SameJob
  <1> QED BY <1>1, <1>2, <1>3, QuietLeased

\* A request ends jobs, or inserts one no worker can be at.
LEMMA RequestLeased ==
  ASSUME QueueInv, Leased, NEW r \in Requests, Begin(r) \/ Commit(r)
  PROVE  Leased'
  <1> USE DEF QueueInv, TypeInv, TypeOK
  <1>1. UNCHANGED <<workers, inserted>>
    BY DEF Begin, BeginSave, BeginRevoke, BeginTest, BeginEnqueue,
           Commit, CommitSave, CommitRevoke, CommitTest, CommitEnqueue
  <1>2. ASSUME UNCHANGED jobs PROVE \A j \in Jobs : SameJob(j)
    BY <1>2 DEF SameJob
  <1>3. ASSUME jobs' = Cancelled(requests[r]), NEW j \in Jobs
        PROVE  SameJob(j) \/ OverJob(j)
    <2>1. jobs[j] \in JobRow
      OBVIOUS
    <2>2. CASE j \in requests[r].jobs
      <3>1. jobs'[j].status = "cancelled"
        BY <1>3, <2>1, <2>2 DEF Cancelled, JobRow
      <3> QED BY <3>1 DEF OverJob, FinishedStatuses
    <2>3. CASE j \notin requests[r].jobs
      BY <1>3, <2>3 DEF Cancelled, SameJob
    <2> QED BY <2>2, <2>3
  <1>4. ASSUME CommitEnqueue(r), NEW j \in Jobs
        PROVE  SameJob(j) \/ LeftJob(j)
    <2>1. CASE j \in requests[r].jobs
      <3>1. jobs[j].status = "absent"
        BY <1>4, <2>1 DEF CommitEnqueue, Reservations
      <3> QED BY <1>1, <3>1 DEF LeftJob, Holds, References
    <2>2. CASE j \notin requests[r].jobs
      BY <1>4, <2>2 DEF CommitEnqueue, SameJob
    <2> QED BY <2>1, <2>2
  <1>5. \A j \in Jobs : SameJob(j) \/ OverJob(j) \/ LeftJob(j)
    <2>1. CASE CommitEnqueue(r)
      BY <1>4, <2>1
    <2>2. CASE Begin(r) \/ CommitTest(r)
      BY <1>2, <2>2, Zenon DEF Begin, BeginSave, BeginRevoke, BeginTest, BeginEnqueue, CommitTest
    <2>3. CASE CommitSave(r) \/ CommitRevoke(r)
      BY <1>2, <1>3, <2>3 DEF CommitSave, CommitRevoke
    <2> QED BY <2>1, <2>2, <2>3 DEF Commit
  <1> QED BY <1>1, <1>5, QuietLeased

LEMMA LeasesHeldBefore ==
  ASSUME QueueInv, Next, LeasesHold' PROVE LeasesHold
  <1>1. CASE Tick
    <2>1. overruns' = overruns + 1 \/ overruns' = overruns
      BY <1>1, Zenon DEF Tick
    <2> QED BY <2>1 DEF LeasesHold, QueueInv, TypeInv, TypeOK
  <1>2. CASE ~Tick
    BY <1>2, Zenon DEF LeasesHold, Next, Claim, WorkerStep, Load, Answer, FetchPage, FetchError,
       Finalize, FinalizePage, FinalizeFailure, Crash, Begin, BeginSave, BeginRevoke,
       BeginTest, BeginEnqueue, Commit, CommitSave, CommitRevoke, CommitTest, CommitEnqueue
  <1> QED BY <1>1, <1>2

LEMMA LeasedInit == Init => LeasedInv
  BY QueueInvInit DEF Init, LeasedInv, Leased, InsertedOnce, LeasedWorker, Holds, IdleWorker

LEMMA LeasedStep == LeasedInv /\ [Next]_vars => LeasedInv'
  <1>1. ASSUME LeasedInv, Next, LeasesHold' PROVE Leased'
    <2>1. QueueInv /\ Leased /\ LeasesHold
      BY <1>1, LeasesHeldBefore DEF LeasedInv
    <2>2. ASSUME NEW w \in Workers,
                 (\E j \in Jobs : Claim(w, j)) \/ WorkerStep(w) \/ Crash(w)
          PROVE  Leased'
      BY <2>1, <2>2, ClaimLeased, WorkLeased, FinalizePageLeased, FinalizeFailureLeased,
         CrashLeased DEF WorkerStep, Finalize
    <2> QED BY <1>1, <2>1, <2>2, RequestLeased, TickLeased DEF Next
  <1>2. ASSUME LeasedInv, UNCHANGED vars PROVE LeasedInv'
    <2>1. QueueInv'
      BY <1>2, QueueInvStep DEF LeasedInv
    <2> QED BY <1>2, <2>1 DEF vars, LeasedInv, LeasesHold, Leased, InsertedOnce,
            LeasedWorker, Holds
  <1>3. ASSUME LeasedInv, Next PROVE QueueInv'
    BY <1>3, QueueInvStep DEF LeasedInv, NextWithDirectSync
  <1> QED BY <1>1, <1>2, <1>3 DEF LeasedInv

\* Whatever retries, crashes, rotations and cancellations there are, the
\* parties of a page are inserted once, until a lease expires under a worker
\* that is still at its page.
THEOREM PartiesInsertedOnceAlways == Spec => []PartiesInsertedOnce
  <1>1. LeasedInv => PartiesInsertedOnce
    BY DEF LeasedInv, Leased, InsertedOnce, PartiesInsertedOnce
  <1> QED BY <1>1, LeasedInit, LeasedStep, PTL DEF Spec

LEMMA StepAdvances ==
  ASSUME LeasedInv, Next, LeasesHold' PROVE Advances
  <1> USE DEF QueueInv, TypeInv, TypeOK
  <1>1. QueueInv /\ Leased
    BY LeasesHeldBefore DEF LeasedInv
  <1>2. ASSUME NEW j \in Jobs, jobs[j].status # "absent",
               jobs'[j].cursor = jobs[j].cursor, jobs'[j].pages = jobs[j].pages
        PROVE  jobs'[j].cursor >= jobs[j].cursor /\ jobs'[j].pages >= jobs[j].pages
    <2>1. jobs[j].cursor \in Nat /\ jobs[j].pages \in Nat
      BY <1>1 DEF JobRow, Pages
    <2> QED BY <1>2, <2>1
  <1>3. ASSUME NEW w \in Workers, FinalizePage(w) PROVE Advances
    <2> DEFINE st == workers[w]
               j == workers[w].job
    <2>1. /\ st \in WorkerState /\ j \in Jobs /\ jobs[j] \in JobRow /\ Holds(w, j)
          /\ st.pc = "page"
      BY <1>1, <1>3 DEF FinalizePage, References, Holds
    <2>2. CASE ~StillRunning(j)
      BY <1>2, <1>3, <2>2 DEF FinalizePage, Advances
    <2>3. CASE StillRunning(j)
      <3>1. st.cursor = jobs[j].cursor /\ st.pages = jobs[j].pages
        BY <1>1, <2>1, <2>3 DEF Leased, LeasedWorker, StillRunning
      <3>2. jobs' = [jobs EXCEPT ![j] = JobAfterPage(@, st)]
        BY <1>3, <2>3 DEF FinalizePage
      <3>3. /\ JobAfterPage(jobs[j], st).pages = st.pages + 1
            /\ JobAfterPage(jobs[j], st).cursor = NextCursor(st.cursor)
            /\ JobAfterPage(jobs[j], st).status \in ActiveStatuses => ~IsLastPage(st.cursor)
        BY <2>1 DEF JobAfterPage, JobRow, ActiveStatuses
      <3>4. st.cursor \in Nat /\ st.pages \in Nat
        BY <2>1 DEF WorkerState, Pages
      <3>5. ~IsLastPage(st.cursor) => NextCursor(st.cursor) >= st.cursor
        BY <3>4 DEF IsLastPage, NextCursor
      <3>6. jobs'[j] = JobAfterPage(jobs[j], st) /\ \A i \in Jobs \ {j} : jobs'[i] = jobs[i]
        BY <1>1, <2>1, <3>2
      <3>7. jobs'[j].status \in ActiveStatuses =>
              jobs'[j].cursor >= jobs[j].cursor /\ jobs'[j].pages >= jobs[j].pages
        BY <3>1, <3>3, <3>4, <3>5, <3>6
      <3> QED BY <1>2, <3>6, <3>7 DEF Advances
    <2> QED BY <2>2, <2>3
  <1>4. ASSUME NEW w \in Workers, NEW j \in Jobs, Claim(w, j) PROVE Advances
    <2>1. /\ jobs[j] \in JobRow
          /\ jobs' = [jobs EXCEPT ![j] = JobAfterClaim(@)]
      BY <1>1, <1>4 DEF Claim
    <2>2. /\ JobAfterClaim(jobs[j]).cursor = jobs[j].cursor
          /\ JobAfterClaim(jobs[j]).pages = jobs[j].pages
      BY <2>1 DEF JobAfterClaim, JobRow
    <2> QED BY <1>1, <1>2, <2>1, <2>2 DEF Advances
  <1>5. ASSUME NEW w \in Workers, FinalizeFailure(w) PROVE Advances
    <2>1. /\ workers[w] \in WorkerState /\ workers[w].job \in Jobs
          /\ jobs[workers[w].job] \in JobRow
      BY <1>1, <1>5 DEF FinalizeFailure, References
    <2>2. \A row \in JobRow, st \in WorkerState :
            /\ JobAfterFailure(row, st).cursor = row.cursor
            /\ JobAfterFailure(row, st).pages = row.pages
      BY DEF JobAfterFailure, JobRow
    <2>3. UNCHANGED jobs
          \/ jobs' = [jobs EXCEPT ![workers[w].job] = JobAfterFailure(@, workers[w])]
      BY <1>5 DEF FinalizeFailure
    <2>4. ASSUME NEW j \in Jobs
          PROVE  jobs'[j].cursor = jobs[j].cursor /\ jobs'[j].pages = jobs[j].pages
      <3>1. jobs'[j] \in {jobs[j], JobAfterFailure(jobs[j], workers[w])} /\ jobs[j] \in JobRow
        BY <1>1, <2>1, <2>3
      <3> QED BY <2>1, <2>2, <3>1
    <2> QED BY <1>2, <2>4 DEF Advances
  <1>6. ASSUME UNCHANGED jobs PROVE Advances
    BY <1>2, <1>6 DEF Advances
  <1>7. ASSUME NEW r \in Requests, jobs' = Cancelled(requests[r]) PROVE Advances
    <2>1. \A j \in Jobs : jobs[j] \in JobRow
      BY <1>1
    <2>2. \A j \in Jobs : jobs'[j].cursor = jobs[j].cursor /\ jobs'[j].pages = jobs[j].pages
      BY <1>7, <2>1 DEF Cancelled, JobRow
    <2> QED BY <1>2, <2>2 DEF Advances
  <1>8. ASSUME NEW r \in Requests, CommitEnqueue(r) PROVE Advances
    <2>1. \A j \in Jobs : jobs'[j] = jobs[j] \/ j \in requests[r].jobs
      BY <1>8 DEF CommitEnqueue
    <2>2. \A j \in Jobs : j \in requests[r].jobs => jobs[j].status = "absent"
      BY <1>1, <1>8 DEF CommitEnqueue, Reservations
    <2> QED BY <1>2, <2>1, <2>2 DEF Advances
  <1>9. ASSUME Tick PROVE Advances
    <2>1. \A j \in Jobs : jobs[j] \in JobRow
      BY <1>1
    <2>2. \A j \in Jobs : jobs'[j].cursor = jobs[j].cursor /\ jobs'[j].pages = jobs[j].pages
      BY <1>9, <2>1 DEF Tick, JobRow
    <2> QED BY <1>2, <2>2 DEF Advances
  <1>10. ASSUME NEW w \in Workers, WorkerStep(w) \/ Crash(w) PROVE Advances
    BY <1>3, <1>5, <1>6, <1>10 DEF WorkerStep, Load, Answer, FetchPage, FetchError, Finalize,
       Crash
  <1>11. ASSUME NEW r \in Requests, Begin(r) \/ Commit(r) PROVE Advances
    BY <1>6, <1>7, <1>8, <1>11 DEF Begin, BeginSave, BeginRevoke, BeginTest, BeginEnqueue,
       Commit, CommitSave, CommitRevoke, CommitTest
  <1> QED BY <1>4, <1>9, <1>10, <1>11 DEF Next

\* Until a lease expires under a worker at work, a job's cursor moves only
\* forward and each page is counted once.
THEOREM AdvancesAlways == Spec => AdvancesWhileLeased
  <1>1. LeasedInv /\ [Next]_vars => [LeasesHold' => Advances]_vars
    BY StepAdvances
  <1> QED BY <1>1, LeasedInit, LeasedStep, PTL DEF Spec, AdvancesWhileLeased

-----------------------------------------------------------------------------
(* The attempts of a job: who may still spend one *)

\* The workers at a job, late ones included, and those of them whose failure
\* would put the job back in the queue.
Holders(j) == {w \in Workers : Holds(w, j)}
MayRetry(j) == {w \in Holders(j) :
    IF workers[w].pc = "claimed" THEN jobs[j].attempts < MaxAttempts
                                 ELSE workers[w].attempts < MaxAttempts}

\* h workers are at the job of a row, m of them may retry it. Every worker
\* too many was lent the job; every attempt over MaxAttempts, spent or still
\* to be spent by a retry, is one of a lent job.
Within(row, h, m) ==
    /\ row.status = "running" => h <= row.lent + 1
    /\ row.status \in ReadyStatuses => h <= row.lent
    /\ row.attempts >= MaxAttempts =>
        /\ row.status = "running" => row.attempts + m <= MaxAttempts + row.lent
        /\ row.status \in ReadyStatuses => row.attempts + m + 1 <= MaxAttempts + row.lent
    /\ row.attempts <= MaxAttempts + row.lent
Budget(j) ==
    /\ IsFiniteSet(Holders(j))
    /\ Within(jobs[j], Cardinality(Holders(j)), Cardinality(MayRetry(j)))
BudgetInv == QueueInv /\ \A j \in Jobs : Budget(j)

LEMMA Fewer ==
  ASSUME NEW B, IsFiniteSet(B), NEW A \in SUBSET B
  PROVE  /\ IsFiniteSet(A)
         /\ Cardinality(A) \in Nat /\ Cardinality(B) \in Nat
         /\ Cardinality(A) <= Cardinality(B)
  BY FS_Subset, FS_CardinalityType

LEMMA OneFewer ==
  ASSUME NEW B, IsFiniteSet(B), NEW x \in B, NEW A \in SUBSET (B \ {x})
  PROVE  /\ IsFiniteSet(A)
         /\ Cardinality(A) \in Nat /\ Cardinality(B) \in Nat
         /\ Cardinality(A) + 1 <= Cardinality(B)
  <1>1. IsFiniteSet(B \ {x}) /\ Cardinality(B \ {x}) = Cardinality(B) - 1
    BY FS_RemoveElement
  <1>2. Cardinality(A) <= Cardinality(B \ {x}) /\ IsFiniteSet(A)
    BY <1>1, FS_Subset
  <1>3. Cardinality(A) \in Nat /\ Cardinality(B) \in Nat
    BY <1>2, FS_CardinalityType
  <1> QED BY <1>1, <1>2, <1>3

\* The arithmetic of the moves of a job: at rest, claimed, taken over from an
\* expired lease, put back by a worker that may retry, and begun anew.
LEMMA RestWithin ==
  ASSUME NEW row \in JobRow, NEW new \in JobRow, NEW h \in Nat, NEW m \in Nat,
         NEW h2 \in Nat, NEW m2 \in Nat, Within(row, h, m), h2 <= h, m2 <= m,
         new.status = row.status \/ new.status \in FinishedStatuses,
         new.attempts = row.attempts, new.lent = row.lent
  PROVE  Within(new, h2, m2)
  BY SettingsAssumption DEF Within, JobRow, ReadyStatuses, FinishedStatuses

LEMMA ClaimWithin ==
  ASSUME NEW row \in JobRow, NEW h \in Nat, NEW m \in Nat,
         NEW m2 \in Nat, Within(row, h, m), m2 <= h,
         row.status \in ReadyStatuses \cup {"running"},
         row.attempts + 1 >= MaxAttempts => m2 <= m
  PROVE  Within(JobAfterClaim(row), h + 1, m2)
  <1> DEFINE new == JobAfterClaim(row)
  <1>1. /\ new.status = "running"
        /\ new.attempts = row.attempts + 1
        /\ row.status \in ReadyStatuses => new.lent = row.lent
        /\ row.status = "running" => new.lent = row.lent + 1
    BY DEF JobAfterClaim, JobRow, ReadyStatuses
  <1>2. row.attempts \in Nat /\ row.lent \in Nat /\ new.lent \in Nat
    BY JobAfterClaimRow DEF JobRow
  <1> HIDE DEF new
  <1>3. Within(new, h + 1, m2)
    BY <1>1, <1>2, SettingsAssumption DEF Within, ReadyStatuses
  <1> QED BY <1>3 DEF new

LEMMA RetryWithin ==
  ASSUME NEW row \in JobRow, NEW new \in JobRow, NEW h \in Nat, NEW m \in Nat,
         NEW h2 \in Nat, NEW m2 \in Nat, Within(row, h, m), h2 + 1 <= h, m2 + 1 <= m,
         row.status = "running", new.status = "retrying",
         new.attempts = row.attempts, new.lent = row.lent
  PROVE  Within(new, h2, m2)
  BY SettingsAssumption DEF Within, JobRow, ReadyStatuses

LEMMA PageWithin ==
  ASSUME NEW row \in JobRow, NEW new \in JobRow, NEW h \in Nat, NEW m \in Nat,
         NEW h2 \in Nat, NEW m2 \in Nat, Within(row, h, m), h2 + 1 <= h,
         row.status = "running", new.status \in {"queued", "succeeded"},
         new.attempts = 0, new.lent = row.lent
  PROVE  Within(new, h2, m2)
  BY SettingsAssumption DEF Within, JobRow, ReadyStatuses

\* A job that no worker joins, and whose row keeps its counters, or ends.
LEMMA RestBudget ==
  ASSUME QueueInv, QueueInv', NEW j \in Jobs, Budget(j),
         Holders(j)' \subseteq Holders(j), MayRetry(j)' \subseteq MayRetry(j),
         jobs'[j].status = jobs[j].status \/ jobs'[j].status \in FinishedStatuses,
         jobs'[j].attempts = jobs[j].attempts, jobs'[j].lent = jobs[j].lent
  PROVE  Budget(j)'
  <1>1. jobs[j] \in JobRow /\ jobs'[j] \in JobRow
    BY DEF QueueInv, TypeInv, TypeOK
  <1>2. IsFiniteSet(Holders(j)) /\ MayRetry(j) \subseteq Holders(j)
    BY DEF Budget, MayRetry
  <1>3. /\ IsFiniteSet(Holders(j)') /\ Cardinality(Holders(j)') \in Nat
        /\ Cardinality(Holders(j)) \in Nat
        /\ Cardinality(Holders(j)') <= Cardinality(Holders(j))
    BY <1>2, Fewer
  <1>4. /\ Cardinality(MayRetry(j)') \in Nat /\ Cardinality(MayRetry(j)) \in Nat
        /\ Cardinality(MayRetry(j)') <= Cardinality(MayRetry(j))
    BY <1>2, Fewer
  <1>5. Within(jobs[j], Cardinality(Holders(j)), Cardinality(MayRetry(j)))
    BY DEF Budget
  <1>6. Within(jobs'[j], Cardinality(Holders(j)'), Cardinality(MayRetry(j)'))
    BY <1>1, <1>3, <1>4, <1>5, RestWithin
  <1> QED BY <1>3, <1>6 DEF Budget, Within

\* Workers that keep their state, or go idle, join no job.
LEMMA NobodyJoins ==
  ASSUME NEW j \in Jobs, jobs'[j].attempts = jobs[j].attempts,
         \A w \in Workers : workers'[w] = workers[w] \/ workers'[w].pc = "idle"
  PROVE  Holders(j)' \subseteq Holders(j) /\ MayRetry(j)' \subseteq MayRetry(j)
  BY DEF Holders, Holds, MayRetry

LEMMA QuietBudget ==
  ASSUME BudgetInv, QueueInv',
         \A w \in Workers : workers'[w] = workers[w] \/ workers'[w].pc = "idle",
         NEW j \in Jobs,
         jobs'[j].status = jobs[j].status \/ jobs'[j].status \in FinishedStatuses,
         jobs'[j].attempts = jobs[j].attempts, jobs'[j].lent = jobs[j].lent
  PROVE  Budget(j)'
  BY NobodyJoins, RestBudget DEF BudgetInv

LEMMA ClaimBudget ==
  ASSUME BudgetInv, QueueInv', NEW w \in Workers, NEW k \in Jobs, Claim(w, k),
         NEW j \in Jobs
  PROVE  Budget(j)'
  <1> USE DEF BudgetInv, QueueInv, TypeInv, TypeOK
  <1>1. /\ jobs[k] \in JobRow /\ jobs'[k] = JobAfterClaim(jobs[k])
        /\ \A i \in Jobs \ {k} : jobs'[i] = jobs[i]
        /\ jobs[k].status \in ReadyStatuses \cup {"running"}
    BY DEF Claim, Claimable, ReadyStatuses
  <1>2. /\ workers[w].pc = "idle"
        /\ workers'[w].pc = "claimed" /\ workers'[w].job = k
        /\ \A v \in Workers \ {w} : workers'[v] = workers[v]
    BY DEF Claim, IdleWorker
  <1>3. CASE j # k
    <2>1. Holders(j)' \subseteq Holders(j) /\ MayRetry(j)' \subseteq MayRetry(j)
      BY <1>1, <1>2, <1>3 DEF Holders, Holds, MayRetry
    <2> QED BY <1>1, <1>3, <2>1, RestBudget
  <1>4. CASE j = k
    <2>1. Holders(j)' = Holders(j) \cup {w} /\ w \notin Holders(j)
      BY <1>2, <1>4 DEF Holders, Holds
    <2>2. jobs'[j].attempts = jobs[j].attempts + 1 /\ jobs[j].attempts \in Nat
      BY <1>1, <1>4 DEF JobAfterClaim, JobRow
    <2>3. ASSUME jobs[j].attempts + 1 >= MaxAttempts
          PROVE  MayRetry(j)' \subseteq MayRetry(j)
      <3>1. ~(jobs'[j].attempts < MaxAttempts)
        BY <2>2, <2>3, SettingsAssumption
      <3> QED BY <1>2, <2>1, <3>1 DEF Holders, Holds, MayRetry
    <2>4. IsFiniteSet(Holders(j)) /\ MayRetry(j) \subseteq Holders(j)
          /\ Within(jobs[j], Cardinality(Holders(j)), Cardinality(MayRetry(j)))
      BY DEF Budget, MayRetry
    <2>5. /\ IsFiniteSet(Holders(j)') /\ Cardinality(Holders(j)) \in Nat
          /\ Cardinality(Holders(j)') = Cardinality(Holders(j)) + 1
      BY <2>1, <2>4, FS_AddElement, FS_CardinalityType
    <2>6. Cardinality(MayRetry(j)) \in Nat
      BY <2>4, Fewer
    <2>7. CASE jobs[j].attempts + 1 >= MaxAttempts
      <3>1. /\ Cardinality(MayRetry(j)') \in Nat
            /\ Cardinality(MayRetry(j)') <= Cardinality(MayRetry(j))
        <4>1. IsFiniteSet(MayRetry(j))
          BY <2>4, Fewer
        <4> QED BY <2>3, <2>7, <4>1, Fewer
      <3>2. Cardinality(MayRetry(j)') <= Cardinality(Holders(j))
        BY <2>3, <2>4, <2>7, Fewer
      <3>3. Within(JobAfterClaim(jobs[j]), Cardinality(Holders(j)) + 1, Cardinality(MayRetry(j)'))
        BY <1>1, <1>4, <2>4, <2>5, <2>6, <3>1, <3>2, ClaimWithin
      <3> QED BY <1>1, <1>4, <2>5, <3>3 DEF Budget, Within
    <2>8. CASE ~(jobs[j].attempts + 1 >= MaxAttempts)
      <3>1. Within(JobAfterClaim(jobs[j]), Cardinality(Holders(j)) + 1, 0)
        BY <1>1, <1>4, <2>4, <2>5, <2>6, <2>8, ClaimWithin
      <3>2. ~(jobs'[j].attempts >= MaxAttempts)
        BY <2>2, <2>8, SettingsAssumption
      <3> QED BY <1>1, <1>4, <2>5, <3>1, <3>2 DEF Budget, Within
    <2> QED BY <2>7, <2>8
  <1> QED BY <1>3, <1>4

\* A worker at a page keeps its job, and the attempts it loaded.
LEMMA WorkBudget ==
  ASSUME BudgetInv, QueueInv', NEW w \in Workers, Load(w) \/ Answer(w), NEW j \in Jobs
  PROVE  Budget(j)'
  <1> USE DEF BudgetInv, QueueInv, TypeInv, TypeOK
  <1>1. UNCHANGED jobs /\ workers[w] \in WorkerState /\ workers[w].pc # "idle"
    BY DEF Load, Answer, FetchPage, FetchError
  <1>2. /\ \A v \in Workers \ {w} : workers'[v] = workers[v]
        /\ workers'[w].job = workers[w].job
        /\ workers'[w].pc \notin {"idle", "claimed"}
        /\ IF workers[w].pc = "claimed"
           THEN workers'[w].attempts = jobs[workers[w].job].attempts
           ELSE workers'[w].attempts = workers[w].attempts
    <2>1. CASE Load(w)
      BY <1>1, <2>1 DEF Load
    <2>2. CASE FetchPage(w)
      BY <1>1, <2>2 DEF FetchPage, WorkerState
    <2>3. ASSUME NEW kind \in {"retryable", "fatal"}, FetchError(w, kind)
          PROVE  /\ \A v \in Workers \ {w} : workers'[v] = workers[v]
                 /\ workers'[w].job = workers[w].job /\ workers'[w].pc = kind
                 /\ workers[w].pc # "claimed"
                 /\ workers'[w].attempts = workers[w].attempts
      BY <1>1, <2>3 DEF FetchError, WorkerState
    <2> QED BY <2>1, <2>2, <2>3 DEF Answer
  <1>3. Holders(j)' = Holders(j)
    BY <1>1, <1>2 DEF Holders, Holds
  <1>4. MayRetry(j)' \subseteq MayRetry(j)
    BY <1>1, <1>2, <1>3 DEF Holders, Holds, MayRetry
  <1> QED BY <1>1, <1>3, <1>4, RestBudget

\* The worker that confirms its page, or gives it up, leaves the job.
LEMMA HolderLeaves ==
  ASSUME QueueInv, NEW w \in Workers, NEW j \in Jobs, Holds(w, j), Budget(j),
         workers' = [workers EXCEPT ![w] = IdleWorker],
         jobs'[j].attempts = jobs[j].attempts \/ jobs'[j].attempts = 0
  PROVE  /\ IsFiniteSet(Holders(j)') /\ Cardinality(Holders(j)') \in Nat
         /\ Cardinality(Holders(j)) \in Nat
         /\ Cardinality(Holders(j)') + 1 <= Cardinality(Holders(j))
         /\ Cardinality(MayRetry(j)') \in Nat /\ Cardinality(MayRetry(j)) \in Nat
         /\ (w \in MayRetry(j) /\ jobs'[j].attempts = jobs[j].attempts) =>
               Cardinality(MayRetry(j)') + 1 <= Cardinality(MayRetry(j))
  <1>1. \A v \in Workers : workers'[v] = IF v = w THEN IdleWorker ELSE workers[v]
    BY DEF QueueInv, TypeInv, TypeOK
  <1>2. /\ w \in Holders(j) /\ IsFiniteSet(Holders(j))
        /\ Holders(j)' \subseteq Holders(j) \ {w}
    BY <1>1 DEF Holders, Holds, Budget, IdleWorker
  <1>3. MayRetry(j) \subseteq Holders(j) /\ MayRetry(j)' \subseteq Holders(j)'
    BY DEF MayRetry
  <1>4. /\ IsFiniteSet(Holders(j)') /\ Cardinality(Holders(j)') \in Nat
        /\ Cardinality(Holders(j)) \in Nat
        /\ Cardinality(Holders(j)') + 1 <= Cardinality(Holders(j))
    BY <1>2, OneFewer
  <1>5. /\ IsFiniteSet(MayRetry(j)) /\ Cardinality(MayRetry(j)') \in Nat
        /\ Cardinality(MayRetry(j)) \in Nat
    BY <1>2, <1>3, <1>4, Fewer
  <1>6. ASSUME w \in MayRetry(j), jobs'[j].attempts = jobs[j].attempts
        PROVE  Cardinality(MayRetry(j)') + 1 <= Cardinality(MayRetry(j))
    <2>1. MayRetry(j)' \subseteq MayRetry(j) \ {w}
      BY <1>1, <1>6 DEF MayRetry, Holders, Holds, IdleWorker
    <2> QED BY <1>5, <1>6, <2>1, OneFewer
  <1> QED BY <1>4, <1>5, <1>6

LEMMA FinalizePageBudget ==
  ASSUME BudgetInv, QueueInv', NEW w \in Workers, FinalizePage(w), NEW j \in Jobs
  PROVE  Budget(j)'
  <1> USE DEF BudgetInv, QueueInv, TypeInv, TypeOK
  <1>0. PICK k \in Jobs : Holds(w, k)
    BY DEF FinalizePage, References, Holds
  <1> DEFINE st == workers[w]
  <1>1. st \in WorkerState /\ st.job = k /\ jobs[k] \in JobRow /\ jobs'[k] \in JobRow
    BY <1>0 DEF Holds
  <1>2. workers' = [workers EXCEPT ![w] = IdleWorker]
    BY DEF FinalizePage
  <1>3. \A v \in Workers : workers'[v] = workers[v] \/ workers'[v].pc = "idle"
    BY <1>2 DEF IdleWorker
  <1>4. CASE ~StillRunning(k)
    <2>1. UNCHANGED jobs
      BY <1>1, <1>4 DEF FinalizePage
    <2> QED BY <1>3, <2>1, QuietBudget
  <1>5. CASE StillRunning(k)
    <2>1. jobs'[k] = JobAfterPage(jobs[k], st) /\ \A i \in Jobs \ {k} : jobs'[i] = jobs[i]
      BY <1>1, <1>5 DEF FinalizePage
    <2>2. CASE j # k
      BY <1>3, <2>1, <2>2, QuietBudget
    <2>3. CASE j = k
      <3>1. /\ jobs'[k].status \in {"queued", "succeeded"}
            /\ jobs'[k].attempts = 0
            /\ jobs'[k].lent = jobs[k].lent
        BY <1>1, <2>1 DEF JobAfterPage, JobRow
      <3>2. /\ IsFiniteSet(Holders(k)') /\ Cardinality(Holders(k)') \in Nat
            /\ Cardinality(Holders(k)) \in Nat
            /\ Cardinality(Holders(k)') + 1 <= Cardinality(Holders(k))
            /\ Cardinality(MayRetry(k)') \in Nat /\ Cardinality(MayRetry(k)) \in Nat
        BY <1>0, <1>2, <3>1, HolderLeaves
      <3>3. Within(jobs[k], Cardinality(Holders(k)), Cardinality(MayRetry(k)))
        BY DEF Budget
      <3>4. jobs[k].status = "running"
        BY <1>5 DEF StillRunning
      <3>5. Within(jobs'[k], Cardinality(Holders(k)'), Cardinality(MayRetry(k)'))
        BY <1>1, <3>1, <3>2, <3>3, <3>4, PageWithin
      <3> QED BY <2>3, <3>2, <3>5 DEF Budget, Within
    <2> QED BY <2>2, <2>3
  <1> QED BY <1>4, <1>5

LEMMA FinalizeFailureBudget ==
  ASSUME BudgetInv, QueueInv', NEW w \in Workers, FinalizeFailure(w), NEW j \in Jobs
  PROVE  Budget(j)'
  <1> USE DEF BudgetInv, QueueInv, TypeInv, TypeOK
  <1>0. PICK k \in Jobs : Holds(w, k)
    BY DEF FinalizeFailure, References, Holds
  <1> DEFINE st == workers[w]
  <1>1. st \in WorkerState /\ st.job = k /\ jobs[k] \in JobRow /\ jobs'[k] \in JobRow
    BY <1>0 DEF Holds
  <1>2. workers' = [workers EXCEPT ![w] = IdleWorker]
    BY DEF FinalizeFailure
  <1>3. \A v \in Workers : workers'[v] = workers[v] \/ workers'[v].pc = "idle"
    BY <1>2 DEF IdleWorker
  <1>4. CASE ~StillRunning(k)
    <2>1. UNCHANGED jobs
      BY <1>1, <1>4 DEF FinalizeFailure
    <2> QED BY <1>3, <2>1, QuietBudget
  <1>5. CASE StillRunning(k)
    <2>1. jobs'[k] = JobAfterFailure(jobs[k], st) /\ \A i \in Jobs \ {k} : jobs'[i] = jobs[i]
      BY <1>1, <1>5 DEF FinalizeFailure
    <2>2. jobs'[k].attempts = jobs[k].attempts /\ jobs'[k].lent = jobs[k].lent
      BY <1>1, <2>1 DEF JobAfterFailure, JobRow
    <2>3. CASE j # k
      BY <1>3, <2>1, <2>3, QuietBudget
    <2>4. CASE j = k /\ ~Retries(st)
      <3>1. jobs'[k].status \in FinishedStatuses
        BY <1>1, <2>1, <2>4 DEF JobAfterFailure, JobRow, FinishedStatuses
      <3> QED BY <1>3, <2>2, <2>4, <3>1, QuietBudget
    <2>5. CASE j = k /\ Retries(st)
      <3>1. jobs'[k].status = "retrying" /\ jobs[k].status = "running"
        BY <1>1, <1>5, <2>1, <2>5 DEF JobAfterFailure, JobRow, StillRunning
      <3>2. w \in MayRetry(k)
        BY <1>0, <2>5 DEF MayRetry, Holders, Retries
      <3>3. /\ IsFiniteSet(Holders(k)') /\ Cardinality(Holders(k)') \in Nat
            /\ Cardinality(Holders(k)) \in Nat
            /\ Cardinality(Holders(k)') + 1 <= Cardinality(Holders(k))
            /\ Cardinality(MayRetry(k)') \in Nat /\ Cardinality(MayRetry(k)) \in Nat
            /\ Cardinality(MayRetry(k)') + 1 <= Cardinality(MayRetry(k))
        BY <1>0, <1>2, <2>2, <3>2, HolderLeaves
      <3>4. Within(jobs[k], Cardinality(Holders(k)), Cardinality(MayRetry(k)))
        BY DEF Budget
      <3>5. Within(jobs'[k], Cardinality(Holders(k)'), Cardinality(MayRetry(k)'))
        BY <1>1, <2>2, <3>1, <3>3, <3>4, RetryWithin
      <3> QED BY <2>5, <3>3, <3>5 DEF Budget, Within
    <2> QED BY <2>3, <2>4, <2>5
  <1> QED BY <1>4, <1>5

LEMMA EnqueueBudget ==
  ASSUME BudgetInv, QueueInv', NEW r \in Requests, CommitEnqueue(r), NEW j \in Jobs
  PROVE  Budget(j)'
  <1> USE DEF BudgetInv, QueueInv, TypeInv, TypeOK
  <1>1. UNCHANGED workers
    BY DEF CommitEnqueue
  <1>2. CASE jobs'[j] = jobs[j]
    BY <1>1, <1>2, QuietBudget
  <1>3. CASE jobs'[j] # jobs[j]
    <2>1. jobs[j].status = "absent" /\ jobs'[j].attempts = 0 /\ jobs'[j].lent = 0
      BY <1>3 DEF CommitEnqueue, Reservations, AbsentJob
    <2>2. Holders(j)' = {} /\ MayRetry(j)' = {}
      BY <1>1, <2>1 DEF Holders, Holds, MayRetry, References
    <2>3. IsFiniteSet(Holders(j)') /\ Cardinality(Holders(j)') = 0
          /\ Cardinality(MayRetry(j)') = 0
      BY <2>2, FS_EmptySet
    <2>4. Within(jobs'[j], 0, 0)
      BY <2>1, SettingsAssumption DEF Within
    <2> QED BY <2>3, <2>4 DEF Budget, Within
  <1> QED BY <1>2, <1>3

\* The other steps leave counters alone, and the workers at work.
LEMMA OtherBudget ==
  ASSUME BudgetInv, QueueInv',
         \/ Tick \/ \E w \in Workers : Crash(w)
         \/ \E r \in Requests : Begin(r) \/ CommitSave(r) \/ CommitRevoke(r)
                                \/ CommitTest(r) \/ DirectSync(r),
         NEW j \in Jobs
  PROVE  Budget(j)'
  <1> USE DEF BudgetInv, QueueInv, TypeInv, TypeOK
  <1>1. jobs[j] \in JobRow
    OBVIOUS
  <1>2. \A w \in Workers : workers'[w] = workers[w] \/ workers'[w].pc = "idle"
    <2>1. ASSUME NEW w \in Workers, Crash(w)
          PROVE  \A v \in Workers : workers'[v] = workers[v] \/ workers'[v].pc = "idle"
      BY <2>1 DEF Crash, IdleWorker
    <2>2. ASSUME NEW r \in Requests, Begin(r) \/ CommitSave(r) \/ CommitRevoke(r)
                                     \/ CommitTest(r) \/ DirectSync(r)
          PROVE  UNCHANGED workers
      BY <2>2, Zenon DEF Begin, BeginSave, BeginRevoke, BeginTest, BeginEnqueue, CommitSave,
         CommitRevoke, CommitTest, DirectSync, BeginSync, SyncPage, SyncError, CommitSync
    <2> QED BY <2>1, <2>2 DEF Tick
  <1>3. CASE Tick
    <2>1. /\ jobs'[j].status = jobs[j].status /\ jobs'[j].attempts = jobs[j].attempts
          /\ jobs'[j].lent = jobs[j].lent
      BY <1>1, <1>3 DEF Tick, JobRow
    <2> QED BY <1>2, <2>1, QuietBudget
  <1>4. CASE UNCHANGED jobs
    BY <1>2, <1>4, QuietBudget
  <1>5. ASSUME NEW r \in Requests, jobs' = Cancelled(requests[r]) PROVE Budget(j)'
    <2>1. /\ jobs'[j].status = jobs[j].status \/ jobs'[j].status = "cancelled"
          /\ jobs'[j].attempts = jobs[j].attempts /\ jobs'[j].lent = jobs[j].lent
      BY <1>1, <1>5 DEF Cancelled, JobRow
    <2> QED BY <1>2, <2>1, QuietBudget DEF FinishedStatuses
  <1> QED BY <1>3, <1>4, <1>5, ZenonT(40) DEF Crash, Begin, BeginSave, BeginRevoke, BeginTest,
          BeginEnqueue, CommitSave, CommitRevoke, CommitTest, DirectSync, BeginSync,
          SyncPage, SyncError, CommitSync

LEMMA BudgetInit == Init => BudgetInv
  <1> SUFFICES ASSUME Init PROVE BudgetInv
    OBVIOUS
  <1>1. ASSUME NEW j \in Jobs PROVE Budget(j)
    <2>1. Holders(j) = {} /\ MayRetry(j) = {}
      BY DEF Init, Holders, Holds, MayRetry, IdleWorker
    <2>2. IsFiniteSet(Holders(j)) /\ Cardinality(Holders(j)) = 0 /\ Cardinality(MayRetry(j)) = 0
      BY <2>1, FS_EmptySet
    <2>3. Within(jobs[j], 0, 0)
      BY SettingsAssumption DEF Init, AbsentJob, Within, ReadyStatuses
    <2> QED BY <2>2, <2>3 DEF Budget
  <1> QED BY <1>1, QueueInvInit DEF BudgetInv

LEMMA BudgetStep == BudgetInv /\ [NextWithDirectSync]_vars => BudgetInv'
  <1>1. ASSUME BudgetInv, [NextWithDirectSync]_vars PROVE QueueInv'
    BY <1>1, QueueInvStep DEF BudgetInv
  <1>2. ASSUME BudgetInv, NextWithDirectSync, NEW j \in Jobs PROVE Budget(j)'
    <2>1. QueueInv'
      BY <1>1, <1>2
    <2>2. ASSUME NEW w \in Workers, (\E k \in Jobs : Claim(w, k)) \/ WorkerStep(w) \/ Crash(w)
          PROVE  Budget(j)'
      BY <1>2, <2>1, <2>2, ClaimBudget, WorkBudget, FinalizePageBudget, FinalizeFailureBudget,
         OtherBudget DEF WorkerStep, Finalize
    <2>3. ASSUME NEW r \in Requests, Begin(r) \/ Commit(r) \/ DirectSync(r)
          PROVE  Budget(j)'
      BY <1>2, <2>1, <2>3, EnqueueBudget, OtherBudget DEF Commit
    <2> QED BY <1>2, <2>1, <2>2, <2>3, OtherBudget DEF NextWithDirectSync, Next
  <1>3. ASSUME BudgetInv, UNCHANGED vars, NEW j \in Jobs PROVE Budget(j)'
    BY <1>3 DEF vars, BudgetInv, Budget, Within, Holders, Holds, MayRetry
  <1> QED BY <1>1, <1>2, <1>3 DEF BudgetInv

\* Failed answers alone never take a job past its attempts, for any number of
\* workers, late ones included: each claim over the maximum took the job from
\* an expired lease.
THEOREM AttemptBudgetAlways == SpecWithDirectSync => []AttemptBudget
  <1>1. BudgetInv => AttemptBudget
    BY DEF BudgetInv, Budget, Within, AttemptBudget
  <1> QED BY <1>1, BudgetInit, BudgetStep, PTL DEF SpecWithDirectSync
=============================================================================
