------------------------ MODULE DianHabilitationProofs ------------------------
(***************************************************************************)
(* The outbox never transmits a document twice and frees a number only on  *)
(* DIAN's own rejection, for any number of documents, jobs and workers:    *)
(* DianHabilitation implements DianSubmissions.                            *)
(*                                                                         *)
(* That a document was sent at most once is not inductive. The invariant   *)
(* adds why: a document has one transmission job, a job that is ready or   *)
(* was claimed and not yet sent has a document that was never sent, and    *)
(* nobody else holds that job. A rejection that a worker carries, or that  *)
(* was recorded, is one DIAN has pronounced and will not take back.        *)
(*                                                                         *)
(* While no lease is overrun, more holds (Leased): a worker has its job to *)
(* itself and its document as it loaded it, so that exactly one job is at  *)
(* work on an open document and no recorded verdict is overwritten.        *)
(***************************************************************************)
EXTENDS DianHabilitation, FiniteSetTheorems, TLAPS

Sends(j) == jobs[j].status # "absent" /\ jobs[j].operation = "send_test_set"
Holds(w, j) == workers[w].pc # "idle" /\ workers[w].job = j

RangeOK ==
    /\ range.first \in Nat \ {0} /\ range.last \in 0 .. MaxNumber
    /\ range.next \in range.first .. range.last + 1
References ==
    /\ \A j \in Jobs : jobs[j].status # "absent" =>
            /\ jobs[j].document \in Documents
            /\ documents[jobs[j].document].status # "absent"
    /\ \A w \in Workers : workers[w].pc # "idle" =>
            workers[w].job \in Jobs /\ jobs[workers[w].job].status # "absent"
    /\ \A d \in Documents : (documents[d].number = 0) <=> (documents[d].status = "absent")
TypeInv == TypeOK /\ RangeOK /\ References

OneSendJob == \A i, j \in Jobs :
    (i # j /\ Sends(i) /\ Sends(j)) => jobs[i].document # jobs[j].document
ReadyUnsent == \A j \in Jobs : (Sends(j) /\ jobs[j].status \in ReadyStatuses) =>
    /\ sent[jobs[j].document] = 0
    /\ \A w \in Workers : ~Holds(w, j)
ClaimedUnsent == \A w \in Workers : \A j \in Jobs :
    (workers[w].pc = "claimed" /\ workers[w].job = j /\ Sends(j)) =>
        /\ sent[jobs[j].document] = 0
        /\ \A v \in Workers \ {w} : ~Holds(v, j)
AbsentUnsent == \A d \in Documents : documents[d].status = "absent" => sent[d] = 0
SendInv == OneSendJob /\ ReadyUnsent /\ ClaimedUnsent /\ AbsentUnsent /\ SentOnce

UnsentUnknown == \A d \in Documents : sent[d] = 0 => dian[d] = "none"
RejectedByDian == \A d \in Documents :
    documents[d].status = "rejected" => dian[d] = "rejected"
CarriedByDian == \A w \in Workers :
    (workers[w].pc = "answered" /\ workers[w].answer = "rejected")
        => dian[jobs[workers[w].job].document] = "rejected"
VerdictInv == UnsentUnknown /\ RejectedByDian /\ CarriedByDian /\ RejectedBeforeReuse

Inv == TypeInv /\ SendInv /\ VerdictInv

-----------------------------------------------------------------------------
(* Rows *)

LEMMA NullTypes ==
    /\ AbsentDocument \in DocumentRow
    /\ AbsentJob \in JobRow
    /\ IdleWorker \in WorkerState
    /\ NoRange \in RangeRow
  BY NumberAssumption, AttemptsAssumption DEF AbsentDocument, DocumentRow, DocumentStatuses, OpenStatuses, Final,
     AbsentJob, JobRow, JobStatuses, ReadyStatuses, Operations, IdleWorker, WorkerState,
     Answers, NoRange, RangeRow

LEMMA QueuedRow ==
  ASSUME NEW d \in Documents, NEW operation \in Operations
  PROVE  /\ Queued(d, operation) \in JobRow
         /\ Queued(d, operation).status = "queued"
         /\ Queued(d, operation).operation = operation
         /\ Queued(d, operation).document = d
  <1>1. 0 \in 0 .. MaxAttempts
    BY AttemptsAssumption
  <1> QED BY <1>1 DEF Queued, AbsentJob, JobRow, JobStatuses, ReadyStatuses, Operations

LEMMA CompletedRow ==
  ASSUME NEW row \in JobRow, NEW st \in WorkerState, NEW outcome
  PROVE  /\ Completed(row, st, outcome) \in JobRow
         /\ Completed(row, st, outcome).status \in {"succeeded", "failed"}
         /\ Completed(row, st, outcome).operation = row.operation
         /\ Completed(row, st, outcome).document = row.document
  BY DEF Completed, Written, JobRow, JobStatuses

LEMMA RetryingRow ==
  ASSUME NEW row \in JobRow
  PROVE  /\ Retrying(row) \in JobRow
         /\ Retrying(row).status = "retrying"
         /\ Retrying(row).operation = row.operation
         /\ Retrying(row).document = row.document
  BY DEF Retrying, JobRow, JobStatuses, ReadyStatuses

LEMMA OutcomeStatus ==
  ASSUME NEW st \in WorkerState, NEW j
  PROVE  /\ Outcome(st, j) \in {"accepted", "rejected", "processing", "queued", "manual_review"}
         /\ Outcome(st, j) = "rejected" => st.answer = "rejected"
         /\ Outcome(st, j) = "queued" => Retries(st)
  BY DEF Outcome, Final, Retries, WorkerState, Answers

-----------------------------------------------------------------------------
(* What each action does to the rows *)

\* No action changes the document and operation of a job that is not done with,
\* and none makes a transmission ready again.
JobKept(i) == ~Spare(i) =>
    /\ jobs'[i].status = "absent" <=> jobs[i].status = "absent"
    /\ jobs'[i].document = jobs[i].document
    /\ jobs'[i].operation = jobs[i].operation
    /\ (jobs[i].operation = "send_test_set" /\ jobs'[i].status \in ReadyStatuses)
            => jobs[i].status \in ReadyStatuses
\* A spare row is as it was or is that of a new status query.
JobNew(i) == Spare(i) =>
    \/ jobs'[i] = jobs[i]
    \/ /\ jobs'[i].operation = "check_status" /\ jobs'[i].status = "queued"
       /\ jobs'[i].document \in Documents
       /\ documents'[jobs'[i].document].status # "absent"
JobsKept == \A i \in Jobs : JobKept(i) /\ JobNew(i)
DocumentsKept == \A d \in Documents :
    /\ documents'[d].number = documents[d].number
    /\ (documents'[d].status = "absent") <=> (documents[d].status = "absent")

LEMMA RecordRows ==
  ASSUME TypeInv, NEW w \in Workers, Record(w)
  PROVE  /\ documents' \in [Documents -> DocumentRow]
         /\ jobs' \in [Jobs -> JobRow]
         /\ DocumentsKept /\ JobsKept
         /\ \A d \in Documents : documents'[d].status = "rejected" =>
                \/ documents[d].status = "rejected"
                \/ workers[w].answer = "rejected" /\ d = jobs[workers[w].job].document
  <1> DEFINE st == workers[w]
             j == st.job
             d == jobs[j].document
             outcome == Outcome(st, j)
             after == Recorded(st, d, outcome)
  <1>1. /\ j \in Jobs /\ d \in Documents /\ st \in WorkerState
        /\ jobs[j] \in JobRow /\ jobs[j].status # "absent" /\ ~Spare(j)
        /\ documents[d] \in DocumentRow /\ documents[d].status # "absent"
        /\ documents \in [Documents -> DocumentRow] /\ jobs \in [Jobs -> JobRow]
    BY DEF TypeInv, TypeOK, References, Record, Spare, Held
  <1>2. /\ outcome \in {"accepted", "rejected", "processing", "queued", "manual_review"}
        /\ outcome = "rejected" => st.answer = "rejected"
        /\ outcome = "queued" => jobs[j].operation = "check_status"
    BY <1>1, OutcomeStatus DEF Retries
  <1>3. /\ after \in [Documents -> DocumentRow]
        /\ \A e \in Documents : after[e].number = documents[e].number
        /\ \A e \in Documents \ {d} : after[e] = documents[e]
        /\ after[d].status \in {outcome, documents[d].status}
    <2> DEFINE new == IF st.answer = "processing" /\ outcome = "manual_review" THEN outcome
                      ELSE Written(st.status, outcome, documents[d].status)
    <2>1. new \in {outcome, documents[d].status} /\ new \in DocumentStatuses
      BY <1>1, <1>2 DEF Written, DocumentRow, DocumentStatuses, OpenStatuses, Final
    <2>2. after = [documents EXCEPT ![d].status = new]
      BY DEF Recorded
    <2> HIDE DEF new, d, outcome, after
    <2> QED BY <1>1, <2>1, <2>2 DEF DocumentRow
  <1>4. CASE UNCHANGED <<documents, jobs>>
    BY <1>1, <1>4 DEF DocumentsKept, JobsKept, JobKept, JobNew
  <1>5. CASE documents' = after /\ FollowUp(st, j, outcome)
    <2>1. DocumentsKept /\ documents'[d].status # "absent"
      BY <1>1, <1>2, <1>3, <1>5 DEF DocumentsKept
    <2> DEFINE done == [jobs EXCEPT ![j] =
                    IF outcome = "queued" THEN Retrying(@) ELSE Completed(@, st, outcome)]
    <2>2. /\ done \in [Jobs -> JobRow]
          /\ done[j].status # "absent" /\ done[j].document = jobs[j].document
          /\ jobs[j].document = d
          /\ done[j].operation = jobs[j].operation
          /\ done[j].operation = "send_test_set" => done[j].status \notin ReadyStatuses
          /\ \A i \in Jobs \ {j} : done[i] = jobs[i]
      <3>1. CASE outcome = "queued"
        BY <1>1, <1>2, <3>1, RetryingRow
      <3>2. CASE outcome # "queued"
        BY <1>1, <3>2, CompletedRow DEF ReadyStatuses
      <3> QED BY <3>1, <3>2
    <2>3. \/ jobs' = done
          \/ \E k \in Jobs : /\ Spare(k)
                             /\ jobs' = [done EXCEPT ![k] = Queued(d, "check_status")]
      BY <1>5 DEF FollowUp
    <2> HIDE DEF done, d, j, outcome, after
    <2>4. jobs' \in [Jobs -> JobRow] /\ JobsKept
      <3>1. CASE jobs' = done
        BY <1>1, <2>2, <3>1 DEF JobsKept, JobKept, JobNew
      <3>2. ASSUME NEW k \in Jobs, Spare(k),
                   jobs' = [done EXCEPT ![k] = Queued(d, "check_status")]
            PROVE  jobs' \in [Jobs -> JobRow] /\ JobsKept
        <4>1. /\ Queued(d, "check_status") \in JobRow
              /\ Queued(d, "check_status").operation = "check_status"
              /\ Queued(d, "check_status").status = "queued"
              /\ Queued(d, "check_status").document = d
          BY <1>1, QueuedRow DEF Operations
        <4>2. /\ k # j /\ jobs'[k] = Queued(d, "check_status")
              /\ \A i \in Jobs \ {k} : jobs'[i] = done[i]
              /\ jobs' \in [Jobs -> JobRow]
          BY <1>1, <2>2, <3>2, <4>1
        <4>3. ASSUME NEW i \in Jobs PROVE JobKept(i)
          <5>1. CASE i = k
            BY <3>2, <5>1 DEF JobKept
          <5>2. CASE i # k
            BY <1>1, <2>2, <4>2, <5>2 DEF JobKept
          <5> QED BY <5>1, <5>2
        <4>4. \A i \in Jobs : JobNew(i)
          BY <1>1, <2>1, <2>2, <4>1, <4>2 DEF JobNew
        <4> QED BY <4>2, <4>3, <4>4 DEF JobsKept
      <3> QED BY <2>3, <3>1, <3>2
    <2>5. \A e \in Documents : documents'[e].status = "rejected" =>
                \/ documents[e].status = "rejected"
                \/ st.answer = "rejected" /\ e = d
      BY <1>2, <1>3, <1>5
    <2> QED BY <1>3, <1>5, <2>1, <2>4, <2>5 DEF d, j
  <1>6. (documents' = after /\ FollowUp(st, j, outcome)) \/ UNCHANGED <<documents, jobs>>
    BY DEF Record
  <1> QED BY <1>4, <1>5, <1>6

LEMMA CreateRows ==
  ASSUME TypeInv, NEW d \in Documents, NEW j \in Jobs, NEW n \in Consecutives,
         NEW corrected \in Documents \cup {NoDocument}, CreateDocument(d, j, n, corrected)
  PROVE  /\ documents' \in [Documents -> DocumentRow]
         /\ documents'[d].status = "queued" /\ documents'[d].number = n
         /\ documents[d].status = "absent" /\ documents[d].number = 0
         /\ \A e \in Documents \ {d} : documents'[e] = documents[e]
         /\ jobs' \in [Jobs -> JobRow]
         /\ Spare(j)
         /\ Sends(j)' /\ jobs'[j].document = d /\ jobs'[j].status = "queued"
         /\ \A i \in Jobs \ {j} : jobs'[i] = jobs[i]
         /\ \A e \in Documents \ {d} : documents[e].number = n =>
                documents[e].status = "rejected"
         /\ UNCHANGED <<workers, dian, sent>>
  <1>1. /\ documents \in [Documents -> DocumentRow] /\ jobs \in [Jobs -> JobRow]
        /\ documents[d].status = "absent" /\ Spare(j)
        /\ documents' = [documents EXCEPT ![d] =
                [status |-> "queued", number |-> n, corrects |-> corrected]]
        /\ jobs' = [jobs EXCEPT ![j] = Queued(d, "send_test_set")]
        /\ NumberFree(d, n) /\ UNCHANGED <<workers, dian, sent>>
    BY DEF TypeInv, TypeOK, CreateDocument
  <1>2. [status |-> "queued", number |-> n, corrects |-> corrected] \in DocumentRow
    BY NumberAssumption DEF DocumentRow, DocumentStatuses, OpenStatuses, Consecutives
  <1>3. /\ Queued(d, "send_test_set") \in JobRow
        /\ Queued(d, "send_test_set").status = "queued"
        /\ Queued(d, "send_test_set").operation = "send_test_set"
        /\ Queued(d, "send_test_set").document = d
    BY QueuedRow DEF Operations
  <1>4. ASSUME NEW e \in Documents \ {d}, documents[e].number = n
        PROVE  documents[e].status = "rejected"
    BY <1>1, <1>4 DEF NumberFree, Live, TypeInv, References, Consecutives
  <1>5. documents[d].number = 0
    BY <1>1 DEF TypeInv, References
  <1> QED BY <1>1, <1>2, <1>3, <1>4, <1>5 DEF Sends

\* Both ways of creating a document are CreateDocument with a number of the
\* range.
LEMMA CreatesNumber ==
  ASSUME TypeInv, NEW d \in Documents, NEW j \in Jobs,
         CreateNext(d, j) \/ CreateCorrection(d, j)
  PROVE  /\ \E n \in Consecutives, corrected \in Documents \cup {NoDocument} :
                CreateDocument(d, j, n, corrected)
         /\ RangeOK' /\ range' \in RangeRow
  <1>1. CASE CreateNext(d, j)
    <2>1. range.next \in Consecutives
      BY <1>1, NumberAssumption DEF CreateNext, TypeInv, RangeOK, Consecutives
    <2>2. range' = [range EXCEPT !.next = range.next + 1] /\ range.next <= range.last
      BY <1>1 DEF CreateNext
    <2>3. RangeOK' /\ range' \in RangeRow
      BY <2>2, NumberAssumption DEF TypeInv, TypeOK, RangeOK, RangeRow
    <2> QED BY <1>1, <2>1, <2>3 DEF CreateNext
  <1>2. CASE CreateCorrection(d, j)
    <2>1. RangeOK' /\ range' \in RangeRow
      BY <1>2 DEF CreateCorrection, TypeInv, TypeOK, RangeOK
    <2>2. PICK n \in range.first .. range.next - 1 : \E corrected \in Corrects(n) :
                CreateDocument(d, j, n, corrected)
      BY <1>2 DEF CreateCorrection
    <2>3. n \in Consecutives
      BY <2>2, NumberAssumption DEF TypeInv, RangeOK, Consecutives
    <2>4. Corrects(n) \subseteq Documents
      BY DEF Corrects, Correctable
    <2> QED BY <2>1, <2>2, <2>3, <2>4
  <1> QED BY <1>1, <1>2

\* The steps that leave the document rows alone and keep every job row but one.
LEMMA JobStep ==
  ASSUME TypeInv, NEW j \in Jobs, NEW row \in JobRow, ~Spare(j), jobs[j].status # "absent",
         jobs' = [jobs EXCEPT ![j] = row], row.status # "absent",
         row.document = jobs[j].document, row.operation = jobs[j].operation,
         (row.operation = "send_test_set" /\ row.status \in ReadyStatuses)
            => jobs[j].status \in ReadyStatuses
  PROVE  jobs' \in [Jobs -> JobRow] /\ JobsKept
  <1>1. jobs \in [Jobs -> JobRow]
    BY DEF TypeInv, TypeOK
  <1>2. ASSUME NEW i \in Jobs PROVE JobKept(i) /\ JobNew(i)
    <2>1. CASE i = j
      BY <1>1, <2>1 DEF JobKept, JobNew
    <2>2. CASE i # j
      BY <1>1, <2>2 DEF JobKept, JobNew
    <2> QED BY <2>1, <2>2
  <1> QED BY <1>1, <1>2 DEF JobsKept

LEMMA RecoverRows ==
  ASSUME TypeInv, NEW j \in Jobs, RecoverExpiredSubmission(j)
  PROVE  /\ documents' \in [Documents -> DocumentRow] /\ jobs' \in [Jobs -> JobRow]
         /\ DocumentsKept /\ JobsKept
         /\ \A d \in Documents : documents'[d].status = "rejected" =>
                documents[d].status = "rejected"
  <1> DEFINE d == jobs[j].document
             row == [jobs[j] EXCEPT !.status = "failed", !.active = NoDocument,
                                    !.lease = "none"]
  <1>1. /\ jobs[j] \in JobRow /\ d \in Documents /\ documents[d].status # "absent"
        /\ documents \in [Documents -> DocumentRow] /\ jobs \in [Jobs -> JobRow]
        /\ jobs[j].status = "running" /\ ~Spare(j)
    BY DEF TypeInv, TypeOK, References, RecoverExpiredSubmission, ExpiredSubmission, Spare
  <1>2. /\ jobs' = [jobs EXCEPT ![j] = row] /\ row \in JobRow
        /\ row.status = "failed" /\ row.document = d /\ row.operation = jobs[j].operation
    BY <1>1 DEF RecoverExpiredSubmission, JobRow, JobStatuses
  <1>3. jobs' \in [Jobs -> JobRow] /\ JobsKept
    <2>1. row.status # "absent" /\ row.status \notin ReadyStatuses
      BY <1>2 DEF ReadyStatuses
    <2> HIDE DEF row
    <2> QED BY <1>1, <1>2, <2>1, JobStep
  <1>4. documents' = [documents EXCEPT ![d].status = "manual_review"]
    BY DEF RecoverExpiredSubmission
  <1>5. documents' \in [Documents -> DocumentRow]
    BY <1>1, <1>4 DEF DocumentRow, DocumentStatuses
  <1>6. DocumentsKept /\ \A e \in Documents : documents'[e].status = "rejected" =>
                documents[e].status = "rejected"
    BY <1>1, <1>4 DEF DocumentsKept
  <1> QED BY <1>3, <1>5, <1>6

LEMMA ClaimRows ==
  ASSUME TypeInv, NEW w \in Workers, NEW j \in Jobs, Claim(w, j)
  PROVE  /\ jobs' \in [Jobs -> JobRow] /\ JobsKept
         /\ jobs[j].status # "absent" /\ jobs'[j].status = "running"
         /\ Sends(j) => jobs[j].status \in ReadyStatuses
         /\ workers' \in [Workers -> WorkerState]
         /\ workers'[w].pc = "claimed" /\ workers'[w].job = j
         /\ \A v \in Workers \ {w} : workers'[v] = workers[v]
         /\ UNCHANGED <<documents, dian, sent>>
  <1> DEFINE row == [jobs[j] EXCEPT !.status = "running", !.lease = "held",
                                    !.attempts = Attempted(jobs[j].attempts)]
             st == [pc |-> "claimed", job |-> j,
                    status |-> documents[jobs[j].document].status,
                    active |-> jobs[j].active, attempts |-> Attempted(jobs[j].attempts),
                    answer |-> "review"]
  <1>1. /\ Claimable(j)
        /\ jobs' = [jobs EXCEPT ![j] = row]
        /\ workers' = [workers EXCEPT ![w] = st]
        /\ UNCHANGED <<documents, dian, sent>>
    BY DEF Claim
  <1>2. /\ jobs[j] \in JobRow /\ jobs \in [Jobs -> JobRow]
        /\ workers \in [Workers -> WorkerState] /\ documents \in [Documents -> DocumentRow]
    BY DEF TypeInv, TypeOK
  <1>3. jobs[j].status # "absent" /\ ~Spare(j)
    BY <1>1 DEF Claimable, ReadyStatuses, Spare
  <1>4. jobs[j].document \in Documents
    BY <1>3 DEF TypeInv, References
  <1>5. Sends(j) => jobs[j].status \in ReadyStatuses
    BY <1>1 DEF Sends, Claimable
  <1>6. /\ row \in JobRow /\ row.status = "running" /\ row.document = jobs[j].document
        /\ row.operation = jobs[j].operation
    <2>1. "running" \in JobStatuses
      BY DEF JobStatuses
    <2> DEFINE attempts == Attempted(jobs[j].attempts)
    <2>2. attempts \in 0 .. MaxAttempts
      BY <1>2, AttemptsAssumption DEF JobRow, Attempted
    <2>3. row = [jobs[j] EXCEPT !.status = "running", !.lease = "held", !.attempts = attempts]
      OBVIOUS
    <2> HIDE DEF attempts, row
    <2> QED BY <1>2, <2>1, <2>2, <2>3 DEF JobRow
  <1>7. st \in WorkerState
    BY <1>2, <1>4, AttemptsAssumption DEF WorkerState, JobRow, DocumentRow, Answers, Attempted
  <1>8. workers'[w] = st /\ workers' \in [Workers -> WorkerState]
        /\ \A v \in Workers \ {w} : workers'[v] = workers[v]
    BY <1>1, <1>2, <1>7
  <1>9. jobs' \in [Jobs -> JobRow] /\ JobsKept
    <2>1. row.status # "absent" /\ row.status \notin ReadyStatuses
      BY <1>6 DEF ReadyStatuses
    <2> HIDE DEF row
    <2> QED BY <1>1, <1>3, <1>6, <2>1, JobStep
  <1>10. jobs'[j].status = "running"
    BY <1>1, <1>2, <1>6
  <1> QED BY <1>1, <1>3, <1>5, <1>8, <1>9, <1>10

\* LocalFailure, SendTestSet and CheckStatus answer the worker.
LEMMA WorkerAnswered ==
  ASSUME TypeInv, NEW w \in Workers, NEW answer \in Answers, Answered(w, answer)
  PROVE  /\ workers' \in [Workers -> WorkerState]
         /\ workers'[w].pc = "answered" /\ workers'[w].answer = answer
         /\ workers'[w].job = workers[w].job
         /\ \A v \in Workers \ {w} : workers'[v] = workers[v]
  BY DEF Answered, TypeInv, TypeOK, WorkerState

\* The call of a worker: what it answers, and that it may be believed.
LEMMA CallAnswers ==
  ASSUME TypeInv, NEW w \in Workers, LocalFailure(w) \/ SendTestSet(w) \/ CheckStatus(w)
  PROVE  /\ workers[w].pc = "claimed"
         /\ dian' \in [Documents -> Verdicts]
         /\ \E answer \in Answers :
                /\ Answered(w, answer)
                /\ answer = "rejected" => dian'[jobs[workers[w].job].document] = "rejected"
         /\ UNCHANGED <<documents, range, bounds, jobs, crashes, overruns>>
  <1> DEFINE d == jobs[workers[w].job].document
  <1>1. workers[w].pc = "claimed"
    BY DEF LocalFailure, SendTestSet, CheckStatus
  <1>2. d \in Documents /\ dian \in [Documents -> Verdicts]
    BY <1>1 DEF TypeInv, TypeOK, References
  <1>3. CASE LocalFailure(w)
    BY <1>1, <1>2, <1>3 DEF LocalFailure, Answers
  <1>4. CASE SendTestSet(w)
    <2>1. PICK verdict \in Verdicts :
            /\ dian' = [dian EXCEPT ![d] = verdict]
            /\ \/ Answered(w, "review") \/ Answered(w, "unreachable")
               \/ Answered(w, "processing")
               \/ verdict \in Final /\ Answered(w, verdict)
      BY <1>4 DEF SendTestSet
    <2>2. dian' \in [Documents -> Verdicts] /\ dian'[d] = verdict
      BY <1>2, <2>1
    <2> HIDE DEF d
    <2>3. \E answer \in Answers :
            Answered(w, answer) /\ (answer = "rejected" => dian'[d] = "rejected")
      BY <2>1, <2>2 DEF Answers, Final
    <2> QED BY <1>1, <1>4, <2>2, <2>3 DEF SendTestSet, d
  <1>5. CASE CheckStatus(w)
    <2>1. /\ UNCHANGED <<documents, range, bounds, jobs, dian, crashes, overruns>>
          /\ \/ Answered(w, "review") \/ Answered(w, "unreachable")
             \/ Answered(w, "processing")
             \/ dian[d] \in Final /\ Answered(w, dian[d])
      BY <1>5 DEF CheckStatus
    <2> HIDE DEF d
    <2>2. \E answer \in Answers :
            Answered(w, answer) /\ (answer = "rejected" => dian'[d] = "rejected")
      BY <2>1 DEF Answers, Final
    <2> QED BY <1>1, <1>2, <2>1, <2>2 DEF d
  <1> QED BY <1>3, <1>4, <1>5

-----------------------------------------------------------------------------
(* Type correctness *)

LEMMA InitType == Init => TypeInv
  <1> SUFFICES ASSUME Init PROVE TypeInv
    OBVIOUS
  <1>1. TypeOK
    BY NullTypes DEF Init, TypeOK, Verdicts
  <1>2. RangeOK
    BY NumberAssumption DEF Init, RangeOK, NoRange
  <1>3. References
    BY DEF Init, References, AbsentDocument, AbsentJob, IdleWorker
  <1> QED BY <1>1, <1>2, <1>3 DEF TypeInv

\* The references survive a step that keeps the rows.
LEMMA ReferencesKept ==
  ASSUME TypeInv, JobsKept, DocumentsKept,
         \A w \in Workers : workers'[w].pc # "idle" =>
            /\ workers'[w].job \in Jobs /\ jobs[workers'[w].job].status # "absent"
  PROVE  References'
  <1>1. ASSUME NEW j \in Jobs, jobs'[j].status # "absent"
        PROVE  jobs'[j].document \in Documents /\ documents'[jobs'[j].document].status # "absent"
    BY <1>1 DEF JobsKept, JobKept, JobNew, DocumentsKept, TypeInv, References
  <1>2. \A d \in Documents : (documents'[d].number = 0) <=> (documents'[d].status = "absent")
    BY DEF DocumentsKept, TypeInv, References
  <1> QED BY <1>1, <1>2 DEF JobsKept, JobKept, JobNew, References

LEMMA SameRows ==
  ASSUME TypeInv, UNCHANGED <<documents, jobs>>
  PROVE  JobsKept /\ DocumentsKept
  BY DEF JobsKept, JobKept, JobNew, DocumentsKept

LEMMA ExpiryRows ==
  ASSUME TypeInv, NEW j \in Jobs, LeaseExpires(j)
  PROVE  jobs' \in [Jobs -> JobRow] /\ JobsKept
  <1> DEFINE row == [jobs[j] EXCEPT !.lease = "expired"]
  <1>1. /\ jobs' = [jobs EXCEPT ![j] = row] /\ jobs[j].status = "running"
        /\ jobs[j] \in JobRow /\ ~Spare(j)
    BY DEF LeaseExpires, TypeInv, TypeOK, Spare
  <1>2. /\ row \in JobRow /\ row.status = "running" /\ row.document = jobs[j].document
        /\ row.operation = jobs[j].operation
    BY <1>1 DEF JobRow
  <1>3. row.status # "absent" /\ row.status \notin ReadyStatuses
    BY <1>2 DEF ReadyStatuses
  <1> HIDE DEF row
  <1> QED BY <1>1, <1>2, <1>3, JobStep

\* A worker that is done or dead is idle.
LEMMA WorkerIdle ==
  ASSUME TypeInv, NEW w \in Workers, workers' = [workers EXCEPT ![w] = IdleWorker]
  PROVE  /\ workers' \in [Workers -> WorkerState]
         /\ workers'[w].pc = "idle"
         /\ \A v \in Workers \ {w} : workers'[v] = workers[v]
  BY NullTypes DEF TypeInv, TypeOK, IdleWorker

LEMMA StutterType == TypeInv /\ UNCHANGED vars => TypeInv'
  BY DEF TypeInv, TypeOK, RangeOK, References, vars

LEMMA NextType == TypeInv /\ Next => TypeInv'
  <1> SUFFICES ASSUME TypeInv, Next PROVE TypeInv'
    OBVIOUS
  <1> USE DEF TypeInv
  <1>1. ASSUME NEW first \in Consecutives, NEW last \in Consecutives,
               CreateNumberingRange(first, last)
        PROVE  TypeInv'
    <2>1. range' \in RangeRow /\ RangeOK' /\ bounds' \subseteq Consecutives \X Consecutives
      BY <1>1, NumberAssumption
         DEF CreateNumberingRange, RangeRow, RangeOK, Consecutives, TypeOK
    <2> QED BY <1>1, <2>1 DEF CreateNumberingRange, TypeOK, References
  <1>2. ASSUME NEW d \in Documents, NEW j \in Jobs, CreateNext(d, j) \/ CreateCorrection(d, j)
        PROVE  TypeInv'
    <2>1. PICK n \in Consecutives, corrected \in Documents \cup {NoDocument} :
            CreateDocument(d, j, n, corrected)
      BY <1>2, CreatesNumber
    <2>2. range' \in RangeRow /\ RangeOK'
      BY <1>2, CreatesNumber
    <2>3. TypeOK'
      BY <2>1, <2>2, CreateRows DEF TypeOK, CreateDocument
    <2>4. References'
      BY <2>1, CreateRows, NumberAssumption DEF References, Sends, Consecutives
    <2> QED BY <2>2, <2>3, <2>4
  <1>3. ASSUME NEW j \in Jobs, RecoverExpiredSubmission(j) PROVE TypeInv'
    <2>1. References'
      BY <1>3, RecoverRows, ReferencesKept DEF RecoverExpiredSubmission, References
    <2> QED BY <1>3, <2>1, RecoverRows DEF RecoverExpiredSubmission, TypeOK, RangeOK
  <1>4. ASSUME NEW j \in Jobs, LeaseExpires(j) PROVE TypeInv'
    <2>1. References'
      <3>1. DocumentsKept
        BY <1>4 DEF LeaseExpires, DocumentsKept
      <3> QED BY <1>4, <3>1, ExpiryRows, ReferencesKept DEF LeaseExpires, References
    <2>2. overruns' \in Nat
      BY <1>4 DEF LeaseExpires, TypeOK
    <2>3. jobs' \in [Jobs -> JobRow]
      BY <1>4, ExpiryRows
    <2>4. UNCHANGED <<documents, range, bounds, workers, dian, sent, crashes>>
      BY <1>4 DEF LeaseExpires
    <2> QED BY <2>1, <2>2, <2>3, <2>4 DEF TypeOK, RangeOK
  <1>5. ASSUME NEW w \in Workers, LocalFailure(w) \/ SendTestSet(w) \/ CheckStatus(w)
        PROVE  TypeInv'
    <2>1. PICK answer \in Answers : Answered(w, answer)
      BY <1>5, CallAnswers
    <2>2. sent' \in [Documents -> Nat]
      <3>1. CASE sent' = sent
        BY <3>1 DEF TypeOK
      <3>2. CASE SendTestSet(w)
        <4> DEFINE d == jobs[workers[w].job].document
        <4>1. sent' = [sent EXCEPT ![d] = sent[d] + 1]
          BY <3>2 DEF SendTestSet
        <4>2. sent \in [Documents -> Nat] /\ d \in Documents
          BY <1>5, CallAnswers DEF TypeOK, References
        <4> HIDE DEF d
        <4> QED BY <4>1, <4>2
      <3> QED BY <1>5, <3>1, <3>2 DEF LocalFailure, CheckStatus
    <2>3. TypeOK' /\ RangeOK'
      BY <1>5, <2>1, <2>2, CallAnswers, WorkerAnswered DEF TypeOK, RangeOK
    <2>4. References'
      BY <1>5, <2>1, CallAnswers, WorkerAnswered DEF References
    <2> QED BY <2>3, <2>4
  <1>6. ASSUME NEW w \in Workers, Record(w) PROVE TypeInv'
    <2>1. workers' = [workers EXCEPT ![w] = IdleWorker]
      BY <1>6 DEF Record
    <2>2. TypeOK' /\ RangeOK'
      BY <1>6, <2>1, RecordRows, WorkerIdle DEF Record, TypeOK, RangeOK
    <2>3. References'
      BY <1>6, <2>1, RecordRows, WorkerIdle, ReferencesKept DEF References
    <2> QED BY <2>2, <2>3
  <1>7. ASSUME NEW w \in Workers, Crash(w) PROVE TypeInv'
    <2>1. workers' = [workers EXCEPT ![w] = IdleWorker]
      BY <1>7 DEF Crash
    <2>2. TypeOK' /\ RangeOK'
      <3>1. workers' \in [Workers -> WorkerState]
        BY <2>1, WorkerIdle
      <3>2. crashes' = crashes + 1 /\ UNCHANGED <<documents, range, bounds, jobs, dian, sent, overruns>>
        BY <1>7 DEF Crash
      <3> QED BY <3>1, <3>2 DEF TypeOK, RangeOK
    <2> QED BY <1>7, <2>1, <2>2, WorkerIdle DEF Crash, References
  <1>8. ASSUME NEW w \in Workers, NEW j \in Jobs, Claim(w, j) PROVE TypeInv'
    <2>1. TypeOK' /\ RangeOK'
      BY <1>8, ClaimRows DEF Claim, TypeOK, RangeOK
    <2>2. DocumentsKept
      BY <1>8 DEF Claim, DocumentsKept
    <2>3. References'
      BY <1>8, <2>2, ClaimRows, ReferencesKept DEF References
    <2> QED BY <2>1, <2>3
  <1>9. ASSUME NEW d \in Documents, Settle(d) PROVE TypeInv'
    <2>1. dian' \in [Documents -> Verdicts]
      BY <1>9 DEF Settle, TypeOK, Verdicts, Final
    <2> QED BY <1>9, <2>1 DEF Settle, TypeOK, RangeOK, References
  <1> QED BY <1>1, <1>2, <1>3, <1>4, <1>5, <1>6, <1>7, <1>8, <1>9 DEF Next, User, Work

-----------------------------------------------------------------------------
(* At most one transmission *)

\* A step that transmits nothing, creates no transmission and leaves every
\* worker that holds a job where it was, or takes it off, keeps SendInv.
LEMMA SendStable ==
  ASSUME TypeInv, SendInv, JobsKept, DocumentsKept, sent' = sent,
         \A w \in Workers : workers'[w].pc # "idle" =>
            workers[w].pc # "idle" /\ workers'[w].job = workers[w].job,
         \A w \in Workers : workers'[w].pc = "claimed" => workers'[w] = workers[w]
  PROVE  SendInv'
  <1>1. \A i \in Jobs : Sends(i)' =>
            /\ Sends(i) /\ jobs'[i].document = jobs[i].document
            /\ jobs'[i].status \in ReadyStatuses => jobs[i].status \in ReadyStatuses
    BY DEF JobsKept, JobKept, JobNew, Sends
  <1>2. \A w \in Workers, j \in Jobs : Holds(w, j)' => Holds(w, j)
    BY DEF Holds
  <1>3. OneSendJob'
    BY <1>1 DEF SendInv, OneSendJob
  <1>4. ReadyUnsent'
    BY <1>1, <1>2 DEF SendInv, ReadyUnsent
  <1>5. ClaimedUnsent'
    <2> SUFFICES ASSUME NEW w \in Workers, NEW j \in Jobs,
                        workers'[w].pc = "claimed", workers'[w].job = j, Sends(j)'
                 PROVE  /\ sent'[jobs'[j].document] = 0
                        /\ \A v \in Workers \ {w} : ~Holds(v, j)'
      BY DEF ClaimedUnsent
    <2>1. workers[w].pc = "claimed" /\ workers[w].job = j /\ Sends(j)
      BY <1>1
    <2> QED BY <1>1, <1>2, <2>1 DEF SendInv, ClaimedUnsent
  <1>6. AbsentUnsent' /\ SentOnce'
    BY DEF SendInv, AbsentUnsent, SentOnce, DocumentsKept
  <1> QED BY <1>3, <1>4, <1>5, <1>6 DEF SendInv

LEMMA SendCreate ==
  ASSUME TypeInv, SendInv, NEW d \in Documents, NEW j \in Jobs,
         CreateNext(d, j) \/ CreateCorrection(d, j)
  PROVE  SendInv'
  <1>1. PICK n \in Consecutives, corrected \in Documents \cup {NoDocument} :
            CreateDocument(d, j, n, corrected)
    BY CreatesNumber
  <1>2. /\ documents[d].status = "absent" /\ Spare(j)
        /\ documents'[d].status = "queued"
        /\ \A e \in Documents \ {d} : documents'[e] = documents[e]
        /\ jobs'[j].document = d
        /\ \A i \in Jobs \ {j} : jobs'[i] = jobs[i]
        /\ workers' = workers /\ sent' = sent
    BY <1>1, CreateRows
  <1>3. \A i \in Jobs : Sends(i) => jobs[i].document # d
    BY <1>2 DEF Sends, TypeInv, References
  <1>4. \A w \in Workers : ~Holds(w, j)
    BY <1>2 DEF Holds, Spare, Held
  <1>5. sent[d] = 0
    BY <1>2 DEF SendInv, AbsentUnsent
  <1>6. \A i \in Jobs \ {j} : Sends(i)' <=> Sends(i)
    BY <1>2 DEF Sends
  <1>7. \A w \in Workers, i \in Jobs : Holds(w, i)' <=> Holds(w, i)
    BY <1>2 DEF Holds
  <1>8. OneSendJob'
    BY <1>2, <1>3, <1>6 DEF SendInv, OneSendJob
  <1>9. ReadyUnsent'
    BY <1>2, <1>4, <1>5, <1>6, <1>7 DEF SendInv, ReadyUnsent
  <1>10. ClaimedUnsent'
    BY <1>2, <1>4, <1>5, <1>6, <1>7 DEF SendInv, ClaimedUnsent, Holds
  <1>11. AbsentUnsent' /\ SentOnce'
    BY <1>2 DEF SendInv, AbsentUnsent, SentOnce
  <1> QED BY <1>8, <1>9, <1>10, <1>11 DEF SendInv

LEMMA SendClaim ==
  ASSUME TypeInv, SendInv, NEW w \in Workers, NEW j \in Jobs, Claim(w, j)
  PROVE  SendInv'
  <1>1. /\ JobsKept /\ jobs[j].status # "absent" /\ jobs'[j].status = "running"
        /\ Sends(j) => jobs[j].status \in ReadyStatuses
        /\ workers'[w].pc = "claimed" /\ workers'[w].job = j
        /\ \A v \in Workers \ {w} : workers'[v] = workers[v]
        /\ documents' = documents /\ sent' = sent
    BY ClaimRows
  <1>2. \A i \in Jobs : Sends(i)' =>
            /\ Sends(i) /\ jobs'[i].document = jobs[i].document
            /\ jobs'[i].status \in ReadyStatuses => jobs[i].status \in ReadyStatuses /\ i # j
    BY <1>1 DEF JobsKept, JobKept, JobNew, Sends, ReadyStatuses
  <1>3. \A v \in Workers, i \in Jobs : Holds(v, i)' => Holds(v, i) \/ (v = w /\ i = j)
    BY <1>1 DEF Holds
  <1>4. OneSendJob'
    BY <1>2 DEF SendInv, OneSendJob
  <1>5. ReadyUnsent'
    BY <1>1, <1>2, <1>3 DEF SendInv, ReadyUnsent
  <1>6. ClaimedUnsent'
    <2> SUFFICES ASSUME NEW v \in Workers, NEW i \in Jobs,
                        workers'[v].pc = "claimed", workers'[v].job = i, Sends(i)'
                 PROVE  /\ sent'[jobs'[i].document] = 0
                        /\ \A u \in Workers \ {v} : ~Holds(u, i)'
      BY DEF ClaimedUnsent
    <2>1. Sends(i) /\ jobs'[i].document = jobs[i].document
      BY <1>2
    <2>2. CASE v = w
      <3>1. i = j /\ jobs[j].status \in ReadyStatuses
        BY <1>1, <2>1, <2>2
      <3> QED BY <1>1, <1>3, <2>1, <2>2, <3>1 DEF SendInv, ReadyUnsent
    <2>3. CASE v # w
      <3>1. workers[v].pc = "claimed" /\ workers[v].job = i /\ Holds(v, i)
        BY <1>1, <2>3 DEF Holds
      <3>2. i # j
        BY <1>1, <2>1, <3>1 DEF SendInv, ReadyUnsent
      <3> QED BY <1>1, <1>3, <2>1, <3>1, <3>2 DEF SendInv, ClaimedUnsent
    <2> QED BY <2>2, <2>3
  <1>7. AbsentUnsent' /\ SentOnce'
    BY <1>1 DEF SendInv, AbsentUnsent, SentOnce
  <1> QED BY <1>4, <1>5, <1>6, <1>7 DEF SendInv

\* The job of a transmission that starts: ready to be sent, and only once.
LEMMA SendCall ==
  ASSUME TypeInv, SendInv, NEW w \in Workers, SendTestSet(w)
  PROVE  /\ workers[w].job \in Jobs /\ Sends(workers[w].job)
         /\ jobs[workers[w].job].document \in Documents
         /\ documents[jobs[workers[w].job].document].status # "absent"
         /\ sent[jobs[workers[w].job].document] = 0
         /\ sent' = [sent EXCEPT ![jobs[workers[w].job].document] = 1]
         /\ \E verdict \in Verdicts :
                dian' = [dian EXCEPT ![jobs[workers[w].job].document] = verdict]
         /\ workers'[w].pc = "answered" /\ workers'[w].job = workers[w].job
         /\ \A v \in Workers \ {w} : workers'[v] = workers[v]
         /\ UNCHANGED <<documents, jobs>>
  <1> DEFINE j == workers[w].job
             d == jobs[j].document
  <1>1. /\ workers[w].pc = "claimed" /\ jobs[j].operation = "send_test_set"
        /\ sent' = [sent EXCEPT ![d] = sent[d] + 1]
        /\ \E verdict \in Verdicts : dian' = [dian EXCEPT ![d] = verdict]
    BY DEF SendTestSet
  <1>2. j \in Jobs /\ Sends(j) /\ d \in Documents /\ documents[d].status # "absent"
    BY <1>1 DEF TypeInv, References, Sends
  <1>3. sent[d] = 0
    BY <1>1, <1>2 DEF SendInv, ClaimedUnsent
  <1>4. PICK answer \in Answers : Answered(w, answer)
    BY CallAnswers
  <1>5. /\ workers'[w].pc = "answered" /\ workers'[w].job = j
        /\ \A v \in Workers \ {w} : workers'[v] = workers[v]
    BY <1>4, WorkerAnswered
  <1>6. UNCHANGED <<documents, jobs>>
    BY CallAnswers
  <1>7. sent' = [sent EXCEPT ![d] = 1]
    BY <1>1, <1>3
  <1> QED BY <1>1, <1>2, <1>3, <1>5, <1>6, <1>7

LEMMA SendSend ==
  ASSUME TypeInv, SendInv, NEW w \in Workers, SendTestSet(w)
  PROVE  SendInv'
  <1> DEFINE j == workers[w].job
             d == jobs[j].document
  <1>1. /\ j \in Jobs /\ Sends(j) /\ d \in Documents /\ documents[d].status # "absent"
        /\ sent' = [sent EXCEPT ![d] = 1]
        /\ workers'[w].pc = "answered" /\ workers'[w].job = j
        /\ \A v \in Workers \ {w} : workers'[v] = workers[v]
        /\ documents' = documents /\ jobs' = jobs
    BY SendCall
  <1>2. workers[w].pc = "claimed" /\ sent \in [Documents -> Nat]
    BY DEF SendTestSet, TypeInv, TypeOK
  <1> HIDE DEF d
  <1>3. \A e \in Documents \ {d} : sent'[e] = sent[e]
    BY <1>1, <1>2
  <1>4. \A i \in Jobs : Sends(i)' <=> Sends(i)
    BY <1>1 DEF Sends
  <1>5. \A v \in Workers, i \in Jobs : Holds(v, i)' <=> Holds(v, i)
    BY <1>1, <1>2 DEF Holds
  <1>6. \A i \in Jobs : Sends(i) =>
            jobs[i].document \in Documents /\ (i # j => jobs[i].document # d)
    BY <1>1 DEF SendInv, OneSendJob, TypeInv, References, Sends, d
  <1>7. OneSendJob'
    BY <1>1, <1>4 DEF SendInv, OneSendJob
  <1>8. ReadyUnsent'
    <2>1. jobs[j].status \notin ReadyStatuses
      BY <1>1, <1>2 DEF SendInv, ReadyUnsent, Holds
    <2> QED BY <1>1, <1>3, <1>4, <1>5, <1>6, <2>1 DEF SendInv, ReadyUnsent
  <1>9. ClaimedUnsent'
    <2> SUFFICES ASSUME NEW v \in Workers, NEW i \in Jobs,
                        workers'[v].pc = "claimed", workers'[v].job = i, Sends(i)'
                 PROVE  /\ sent'[jobs'[i].document] = 0
                        /\ \A u \in Workers \ {v} : ~Holds(u, i)'
      BY DEF ClaimedUnsent
    <2>1. v # w /\ workers[v].pc = "claimed" /\ workers[v].job = i /\ Sends(i)
      BY <1>1, <1>4
    <2>2. i # j
      BY <1>1, <1>2, <2>1 DEF SendInv, ClaimedUnsent, Holds
    <2> QED BY <1>1, <1>3, <1>5, <1>6, <2>1, <2>2 DEF SendInv, ClaimedUnsent
  <1>10. AbsentUnsent' /\ SentOnce'
    BY <1>1, <1>2, <1>3 DEF SendInv, AbsentUnsent, SentOnce
  <1> QED BY <1>7, <1>8, <1>9, <1>10 DEF SendInv

LEMMA SendStep == TypeInv /\ SendInv /\ [Next]_vars => SendInv'
  <1>1. ASSUME TypeInv, SendInv, NEW d \in Documents, NEW j \in Jobs,
               CreateNext(d, j) \/ CreateCorrection(d, j)
        PROVE  SendInv'
    BY <1>1, SendCreate
  <1>2. ASSUME TypeInv, SendInv, NEW w \in Workers, NEW j \in Jobs, Claim(w, j)
        PROVE  SendInv'
    BY <1>2, SendClaim
  <1>3. ASSUME TypeInv, SendInv, NEW w \in Workers, SendTestSet(w)
        PROVE  SendInv'
    BY <1>3, SendSend
  <1>4. ASSUME TypeInv, SendInv, NEW w \in Workers, LocalFailure(w) \/ CheckStatus(w)
        PROVE  SendInv'
    <2>1. PICK answer \in Answers : Answered(w, answer)
      BY <1>4, CallAnswers
    <2>2. /\ workers'[w].pc = "answered" /\ workers'[w].job = workers[w].job
          /\ \A v \in Workers \ {w} : workers'[v] = workers[v]
      BY <1>4, <2>1, WorkerAnswered
    <2>3. workers[w].pc = "claimed" /\ UNCHANGED <<documents, jobs>>
      BY <1>4, CallAnswers
    <2>4. sent' = sent
      BY <1>4 DEF LocalFailure, CheckStatus
    <2> QED BY <1>4, <2>2, <2>3, <2>4, SameRows, SendStable
  <1>5. ASSUME TypeInv, SendInv, NEW w \in Workers, Record(w)
        PROVE  SendInv'
    <2>1. workers' = [workers EXCEPT ![w] = IdleWorker] /\ sent' = sent
      BY <1>5 DEF Record
    <2>2. workers'[w].pc = "idle" /\ \A v \in Workers \ {w} : workers'[v] = workers[v]
      BY <1>5, <2>1, WorkerIdle
    <2> QED BY <1>5, <2>1, <2>2, RecordRows, SendStable
  <1>6. ASSUME TypeInv, SendInv, NEW w \in Workers, Crash(w)
        PROVE  SendInv'
    <2>1. /\ workers' = [workers EXCEPT ![w] = IdleWorker] /\ sent' = sent
          /\ UNCHANGED <<documents, jobs>>
      BY <1>6 DEF Crash
    <2>2. workers'[w].pc = "idle" /\ \A v \in Workers \ {w} : workers'[v] = workers[v]
      BY <1>6, <2>1, WorkerIdle
    <2> QED BY <1>6, <2>1, <2>2, SameRows, SendStable
  <1>7. ASSUME TypeInv, SendInv, NEW j \in Jobs,
               RecoverExpiredSubmission(j) \/ LeaseExpires(j)
        PROVE  SendInv'
    <2>1. workers' = workers /\ sent' = sent
      BY <1>7 DEF RecoverExpiredSubmission, LeaseExpires
    <2>2. JobsKept
      BY <1>7, RecoverRows, ExpiryRows
    <2>3. DocumentsKept
      BY <1>7, RecoverRows DEF LeaseExpires, DocumentsKept
    <2> QED BY <1>7, <2>1, <2>2, <2>3, SendStable
  <1>8. ASSUME TypeInv, SendInv, UNCHANGED <<documents, jobs, workers, sent>>
        PROVE  SendInv'
    BY <1>8, SameRows, SendStable
  <1> QED BY <1>1, <1>2, <1>3, <1>4, <1>5, <1>6, <1>7, <1>8
          DEF Next, User, Work, CreateNumberingRange, Settle, vars

-----------------------------------------------------------------------------
(* Rejected before reused *)

\* DIAN's rejections last, and no row or answer says "rejected" without one.
LEMMA VerdictStable ==
  ASSUME TypeInv, VerdictInv, DocumentsKept,
         \A d \in Documents : sent'[d] = 0 => sent[d] = 0 /\ dian'[d] = dian[d],
         \A d \in Documents : dian[d] = "rejected" => dian'[d] = "rejected",
         \A d \in Documents : documents'[d].status = "rejected" =>
            documents[d].status = "rejected" \/ dian[d] = "rejected",
         CarriedByDian'
  PROVE  VerdictInv'
  <1>1. UnsentUnknown'
    BY DEF VerdictInv, UnsentUnknown
  <1>2. RejectedByDian'
    BY DEF VerdictInv, RejectedByDian
  <1>3. RejectedBeforeReuse'
    BY DEF VerdictInv, RejectedBeforeReuse, DocumentsKept
  <1> QED BY <1>1, <1>2, <1>3 DEF VerdictInv

\* Workers whose answer is not new still carry what DIAN said.
LEMMA StillCarried ==
  ASSUME TypeInv, VerdictInv, JobsKept,
         \A d \in Documents : dian[d] = "rejected" => dian'[d] = "rejected",
         \A v \in Workers :
            \/ workers'[v] = workers[v]
            \/ workers'[v].pc # "answered"
            \/ workers'[v].answer = "rejected" =>
                    dian'[jobs'[workers'[v].job].document] = "rejected"
  PROVE  CarriedByDian'
  <1> SUFFICES ASSUME NEW v \in Workers, workers'[v] = workers[v],
                      workers[v].pc = "answered", workers[v].answer = "rejected"
               PROVE  dian'[jobs'[workers[v].job].document] = "rejected"
    BY DEF CarriedByDian
  <1>1. /\ workers[v].job \in Jobs
        /\ jobs[workers[v].job].document \in Documents
        /\ jobs'[workers[v].job].document = jobs[workers[v].job].document
    BY DEF TypeInv, References, JobsKept, JobKept, Spare, Held
  <1>2. dian[jobs[workers[v].job].document] = "rejected"
    BY DEF VerdictInv, CarriedByDian
  <1> QED BY <1>1, <1>2

LEMMA VerdictCreate ==
  ASSUME TypeInv, VerdictInv, NEW d \in Documents, NEW j \in Jobs,
         CreateNext(d, j) \/ CreateCorrection(d, j)
  PROVE  VerdictInv'
  <1>1. PICK n \in Consecutives, corrected \in Documents \cup {NoDocument} :
            CreateDocument(d, j, n, corrected)
    BY CreatesNumber
  <1>2. /\ documents'[d].status = "queued" /\ documents'[d].number = n
        /\ \A e \in Documents \ {d} : documents'[e] = documents[e]
        /\ \A e \in Documents \ {d} : documents[e].number = n =>
                documents[e].status = "rejected"
        /\ Spare(j)
        /\ \A i \in Jobs \ {j} : jobs'[i] = jobs[i]
        /\ workers' = workers /\ dian' = dian /\ sent' = sent
    BY <1>1, CreateRows
  <1>3. UnsentUnknown' /\ RejectedByDian'
    BY <1>2 DEF VerdictInv, UnsentUnknown, RejectedByDian
  <1>4. CarriedByDian'
    <2>1. \A w \in Workers : workers[w].pc # "idle" => workers[w].job \in Jobs \ {j}
      BY <1>2 DEF TypeInv, References, Spare, Held
    <2> QED BY <1>2, <2>1 DEF VerdictInv, CarriedByDian
  <1>5. RejectedBeforeReuse'
    <2> SUFFICES ASSUME NEW e \in Documents, NEW f \in Documents, e # f,
                        documents'[e].number # 0, documents'[e].number = documents'[f].number
                 PROVE  "rejected" \in {dian[e], dian[f]}
      BY <1>2 DEF RejectedBeforeReuse
    <2>1. CASE e = d
      BY <1>2, <2>1 DEF VerdictInv, RejectedByDian
    <2>2. CASE f = d
      BY <1>2, <2>2 DEF VerdictInv, RejectedByDian
    <2>3. CASE e # d /\ f # d
      BY <1>2, <2>3 DEF VerdictInv, RejectedBeforeReuse
    <2> QED BY <2>1, <2>2, <2>3
  <1> QED BY <1>3, <1>4, <1>5 DEF VerdictInv

LEMMA VerdictCall ==
  ASSUME TypeInv, SendInv, VerdictInv, NEW w \in Workers,
         LocalFailure(w) \/ SendTestSet(w) \/ CheckStatus(w)
  PROVE  VerdictInv'
  <1>1. PICK answer \in Answers :
            /\ Answered(w, answer)
            /\ answer = "rejected" => dian'[jobs[workers[w].job].document] = "rejected"
    BY CallAnswers
  <1>2. UNCHANGED <<documents, jobs>>
    BY CallAnswers
  <1>3. /\ workers'[w].answer = answer /\ workers'[w].job = workers[w].job
        /\ \A v \in Workers \ {w} : workers'[v] = workers[v]
    BY <1>1, WorkerAnswered
  <1>4. /\ \A d \in Documents : sent'[d] = 0 => sent[d] = 0 /\ dian'[d] = dian[d]
        /\ \A d \in Documents : dian[d] = "rejected" => dian'[d] = "rejected"
    <2>1. CASE sent' = sent /\ dian' = dian
      BY <2>1
    <2>2. CASE SendTestSet(w)
      <3> DEFINE d == jobs[workers[w].job].document
      <3>1. /\ d \in Documents /\ sent[d] = 0 /\ sent' = [sent EXCEPT ![d] = 1]
            /\ \E verdict \in Verdicts : dian' = [dian EXCEPT ![d] = verdict]
        BY <2>2, SendCall
      <3>2. /\ dian \in [Documents -> Verdicts] /\ sent \in [Documents -> Nat]
            /\ dian[d] = "none"
        BY <3>1 DEF TypeInv, TypeOK, VerdictInv, UnsentUnknown
      <3> HIDE DEF d
      <3> QED BY <3>1, <3>2
    <2> QED BY <2>1, <2>2 DEF LocalFailure, CheckStatus
  <1>5. JobsKept /\ DocumentsKept
    BY <1>2, SameRows
  <1>6. CarriedByDian'
    BY <1>1, <1>2, <1>3, <1>4, <1>5, StillCarried
  <1> QED BY <1>2, <1>4, <1>5, <1>6, VerdictStable

LEMMA VerdictRecord ==
  ASSUME TypeInv, VerdictInv, NEW w \in Workers, Record(w)
  PROVE  VerdictInv'
  <1>1. /\ workers' = [workers EXCEPT ![w] = IdleWorker] /\ workers[w].pc = "answered"
        /\ sent' = sent /\ dian' = dian
    BY DEF Record
  <1>2. workers'[w].pc = "idle" /\ \A v \in Workers \ {w} : workers'[v] = workers[v]
    BY <1>1, WorkerIdle
  <1>3. \A d \in Documents : documents'[d].status = "rejected" =>
            documents[d].status = "rejected" \/ dian[d] = "rejected"
    BY <1>1, RecordRows DEF VerdictInv, CarriedByDian
  <1>4. CarriedByDian'
    BY <1>1, <1>2, RecordRows, StillCarried
  <1> QED BY <1>1, <1>3, <1>4, RecordRows, VerdictStable

LEMMA VerdictStep == TypeInv /\ SendInv /\ VerdictInv /\ [Next]_vars => VerdictInv'
  <1> SUFFICES ASSUME TypeInv, SendInv, VerdictInv, [Next]_vars PROVE VerdictInv'
    OBVIOUS
  <1>1. CASE \E d \in Documents, j \in Jobs : CreateNext(d, j) \/ CreateCorrection(d, j)
    BY <1>1, VerdictCreate
  <1>2. CASE \E w \in Workers : LocalFailure(w) \/ SendTestSet(w) \/ CheckStatus(w)
    BY <1>2, VerdictCall
  <1>3. CASE \E w \in Workers : Record(w)
    BY <1>3, VerdictRecord
  <1>4. ASSUME NEW w \in Workers, Crash(w) PROVE VerdictInv'
    <2>1. /\ workers' = [workers EXCEPT ![w] = IdleWorker]
          /\ UNCHANGED <<documents, jobs, sent, dian>>
      BY <1>4 DEF Crash
    <2>2. workers'[w].pc = "idle" /\ \A v \in Workers \ {w} : workers'[v] = workers[v]
      BY <2>1, WorkerIdle
    <2>3. CarriedByDian'
      BY <2>1, <2>2, SameRows, StillCarried
    <2> QED BY <2>1, <2>3, SameRows, VerdictStable
  <1>5. ASSUME NEW w \in Workers, NEW j \in Jobs, Claim(w, j) PROVE VerdictInv'
    <2>1. DocumentsKept
      BY <1>5 DEF Claim, DocumentsKept
    <2>2. CarriedByDian'
      BY <1>5, ClaimRows, StillCarried
    <2> QED BY <1>5, <2>1, <2>2, ClaimRows, VerdictStable
  <1>6. ASSUME NEW j \in Jobs, RecoverExpiredSubmission(j) \/ LeaseExpires(j)
        PROVE  VerdictInv'
    <2>1. UNCHANGED <<workers, sent, dian>>
      BY <1>6 DEF RecoverExpiredSubmission, LeaseExpires
    <2>2. JobsKept
      BY <1>6, RecoverRows, ExpiryRows
    <2>3. DocumentsKept /\ \A d \in Documents : documents'[d].status = "rejected" =>
                documents[d].status = "rejected"
      BY <1>6, RecoverRows DEF LeaseExpires, DocumentsKept
    <2>4. CarriedByDian'
      BY <2>1, <2>2, StillCarried
    <2> QED BY <2>1, <2>3, <2>4, VerdictStable
  <1>7. ASSUME NEW d \in Documents, Settle(d) PROVE VerdictInv'
    <2>1. /\ dian[d] = "received" /\ UNCHANGED <<documents, jobs, workers, sent>>
          /\ \E verdict \in Final : dian' = [dian EXCEPT ![d] = verdict]
      BY <1>7 DEF Settle
    <2>2. /\ sent[d] # 0
          /\ \A e \in Documents \ {d} : dian'[e] = dian[e]
      BY <2>1 DEF VerdictInv, UnsentUnknown, TypeInv, TypeOK
    <2>3. \A e \in Documents : dian[e] = "rejected" => dian'[e] = "rejected"
      BY <2>1, <2>2
    <2>4. CarriedByDian'
      BY <2>1, <2>3, SameRows, StillCarried
    <2> QED BY <2>1, <2>2, <2>3, <2>4, SameRows, VerdictStable
  <1>8. CASE UNCHANGED <<documents, jobs, workers, sent, dian>>
    BY <1>8 DEF VerdictInv, UnsentUnknown, RejectedByDian, CarriedByDian, RejectedBeforeReuse
  <1> QED BY <1>1, <1>2, <1>3, <1>4, <1>5, <1>6, <1>7, <1>8
          DEF Next, User, Work, CreateNumberingRange, vars

-----------------------------------------------------------------------------
(* Theorems *)

LEMMA InvInit == Init => Inv
  <1> SUFFICES ASSUME Init PROVE Inv
    OBVIOUS
  <1>1. TypeInv
    BY InitType
  <1>2. SendInv
    BY DEF Init, SendInv, OneSendJob, ReadyUnsent, ClaimedUnsent, AbsentUnsent, SentOnce,
       Sends, AbsentJob, IdleWorker
  <1>3. VerdictInv
    BY DEF Init, VerdictInv, UnsentUnknown, RejectedByDian, CarriedByDian,
       RejectedBeforeReuse, AbsentDocument, IdleWorker
  <1> QED BY <1>1, <1>2, <1>3 DEF Inv

LEMMA InvStep == Inv /\ [Next]_vars => Inv'
  BY NextType, StutterType, SendStep, VerdictStep DEF Inv

\* Every reachable state is well typed, the next number of a range is within
\* it, and what jobs and workers refer to exists (the foreign keys of the
\* tables), for any number of documents, jobs and workers.
THEOREM TypeCorrect == Spec => [](TypeOK /\ RangeOK /\ References)
  <1>1. Inv => TypeOK /\ RangeOK /\ References
    BY DEF Inv, TypeInv
  <1> QED BY <1>1, InvInit, InvStep, PTL DEF Spec

\* Whatever crashes, overruns its lease or answers late, no document is
\* transmitted to DIAN twice.
THEOREM SentOnceAlways == Spec => []SentOnce
  <1>1. Inv => SentOnce
    BY DEF Inv, SendInv
  <1> QED BY <1>1, InvInit, InvStep, PTL DEF Spec

\* Two documents have one number only if DIAN has rejected one of them.
THEOREM RejectedBeforeReuseAlways == Spec => []RejectedBeforeReuse
  <1>1. Inv => RejectedBeforeReuse
    BY DEF Inv, VerdictInv
  <1> QED BY <1>1, InvInit, InvStep, PTL DEF Spec

-----------------------------------------------------------------------------
(* The outbox implements the promise *)

Numbered == [d \in Documents |-> documents[d].number]

\* The steps of DianSubmissions, over the outbox's state.
Stuttered == Numbered' = Numbered /\ dian' = dian

LEMMA Stutters ==
  ASSUME DocumentsKept, dian' = dian
  PROVE  Stuttered
  BY DEF DocumentsKept, Stuttered, Numbered

LEMMA CreateRegisters ==
  ASSUME TypeInv, NEW d \in Documents, NEW j \in Jobs,
         CreateNext(d, j) \/ CreateCorrection(d, j)
  PROVE  \E n \in Consecutives : Submissions!Register(d, n)
  <1>1. PICK n \in Consecutives, corrected \in Documents \cup {NoDocument} :
            CreateDocument(d, j, n, corrected)
    BY CreatesNumber
  <1>2. /\ documents[d].number = 0 /\ documents'[d].number = n
        /\ \A e \in Documents \ {d} : documents'[e] = documents[e]
        /\ dian' = dian
    BY <1>1, CreateRows
  <1>3. Numbered' = [Numbered EXCEPT ![d] = n] /\ Numbered[d] = 0
    BY <1>2 DEF Numbered
  <1> QED BY <1>2, <1>3 DEF Submissions!Register, Numbered

LEMMA SendSubmits ==
  ASSUME Inv, NEW w \in Workers, SendTestSet(w)
  PROVE  Stuttered \/ \E d \in Documents : Submissions!Submit(d)
  <1> DEFINE d == jobs[workers[w].job].document
  <1>1. /\ d \in Documents /\ documents[d].status # "absent" /\ sent[d] = 0
        /\ \E verdict \in Verdicts : dian' = [dian EXCEPT ![d] = verdict]
        /\ documents' = documents
    BY SendCall DEF Inv
  <1>2. PICK verdict \in Verdicts : dian' = [dian EXCEPT ![d] = verdict]
    BY <1>1
  <1> HIDE DEF d
  <1>3. /\ dian \in [Documents -> Verdicts] /\ dian[d] = "none"
        /\ Numbered' = Numbered /\ Numbered[d] # 0
    BY <1>1 DEF Inv, TypeInv, TypeOK, References, VerdictInv, UnsentUnknown, Numbered
  <1>4. CASE verdict = "none"
    BY <1>2, <1>3, <1>4 DEF Stuttered
  <1>5. CASE verdict # "none"
    <2>1. verdict \in Submissions!Verdicts \ {"none"}
      BY <1>5 DEF Submissions!Verdicts, Verdicts
    <2>2. \A e \in Documents \ {d} : Numbered[e] = Numbered[d] => dian[e] = "rejected"
      BY <1>1, <1>3 DEF Inv, VerdictInv, RejectedBeforeReuse, Numbered
    <2> QED BY <1>1, <1>2, <1>3, <2>1, <2>2 DEF Submissions!Submit, Numbered
  <1> QED BY <1>4, <1>5

LEMMA Refines == Inv /\ [Next]_vars => [Submissions!Next]_(Submissions!vars)
  <1> SUFFICES ASSUME Inv, [Next]_vars
               PROVE  Submissions!Next \/ Stuttered
    BY DEF Submissions!vars, Stuttered, Numbered
  <1> TypeInv
    BY DEF Inv
  <1>1. CASE \E d \in Documents, j \in Jobs : CreateNext(d, j) \/ CreateCorrection(d, j)
    BY <1>1, CreateRegisters DEF Submissions!Next
  <1>2. CASE \E w \in Workers : SendTestSet(w)
    BY <1>2, SendSubmits DEF Submissions!Next
  <1>3. CASE \E d \in Documents : Settle(d)
    <2>1. PICK d \in Documents : Settle(d)
      BY <1>3
    <2>2. Submissions!Settle(d)
      BY <2>1 DEF Settle, Submissions!Settle, Final, Submissions!Final
    <2> QED BY <2>2 DEF Submissions!Next
  <1>4. CASE \E w \in Workers : Record(w)
    BY <1>4, RecordRows, Stutters DEF Record
  <1>5. CASE \E j \in Jobs : RecoverExpiredSubmission(j)
    BY <1>5, RecoverRows, Stutters DEF RecoverExpiredSubmission
  <1>6. CASE UNCHANGED <<documents, dian>>
    BY <1>6 DEF Stuttered, Numbered
  <1> QED BY <1>1, <1>2, <1>3, <1>4, <1>5, <1>6
          DEF Next, User, Work, CreateNumberingRange, LeaseExpires, LocalFailure, CheckStatus,
              Crash, Claim, vars

\* The outbox, with its queue, leases, crashes and retries, submits only what
\* a client may: each document at most once, and a number again only after
\* DIAN rejected whatever had it.
THEOREM KeepsPromiseAlways == Spec => KeepsPromise
  <1>1. Init => Submissions!Init
    BY DEF Init, Submissions!Init, AbsentDocument
  <1> QED BY <1>1, InvInit, InvStep, Refines, PTL
          DEF Spec, KeepsPromise, Submissions!Spec

-----------------------------------------------------------------------------
(* While leases outlast the calls *)

\* A worker's job is its own, under a lease, and its document is as it loaded it;
\* the active jobs are the unfinished ones, one for each open document.
OpenJob(status) == status \in ReadyStatuses \cup {"running"}
HeldJobs == \A w \in Workers : workers[w].pc # "idle" =>
    /\ jobs[workers[w].job].status = "running" /\ jobs[workers[w].job].lease = "held"
    /\ workers[w].active = jobs[workers[w].job].active
    /\ workers[w].status = documents[jobs[workers[w].job].document].status
OneHolder == \A v, w \in Workers, j \in Jobs : Holds(v, j) /\ Holds(w, j) => v = w
ActiveUnfinished == \A j \in Jobs :
    jobs[j].active = IF OpenJob(jobs[j].status) THEN jobs[j].document ELSE NoDocument
OneActive == \A i, j \in Jobs : i # j /\ jobs[i].active # NoDocument => jobs[i].active # jobs[j].active
OpenWatched == \A d \in Documents :
    documents[d].status \in OpenStatuses <=> \E j \in Jobs : jobs[j].active = d
Leased == HeldJobs /\ OneHolder /\ ActiveUnfinished /\ OneActive /\ OpenWatched
LeaseInv == LeasesHold => Leased

\* What a worker at work knows of its job and of the document.
LEMMA AtWork ==
  ASSUME TypeInv, Leased, NEW w \in Workers, workers[w].pc # "idle"
  PROVE  LET j == workers[w].job
             d == jobs[j].document
         IN  /\ j \in Jobs /\ d \in Documents /\ jobs[j].status = "running"
             /\ jobs[j].lease = "held" /\ jobs[j].active = d /\ workers[w].active = d
             /\ workers[w].status = documents[d].status /\ documents[d].status \in OpenStatuses
             /\ \A v \in Workers \ {w} : workers[v].pc # "idle" =>
                    workers[v].job # j /\ jobs[workers[v].job].document # d
  <1> DEFINE j == workers[w].job
             d == jobs[j].document
  <1>1. j \in Jobs /\ jobs[j].status = "running" /\ jobs[j].lease = "held"
        /\ workers[w].active = jobs[j].active /\ workers[w].status = documents[d].status
    BY DEF TypeInv, References, Leased, HeldJobs
  <1>2. d \in Documents
    BY <1>1 DEF TypeInv, References
  <1>3. jobs[j].active = d
    BY <1>1 DEF Leased, ActiveUnfinished, OpenJob
  <1>4. documents[d].status \in OpenStatuses
    BY <1>1, <1>2, <1>3 DEF Leased, OpenWatched
  <1>5. ASSUME NEW v \in Workers \ {w}, workers[v].pc # "idle"
        PROVE  workers[v].job # j /\ jobs[workers[v].job].document # d
    <2>1. workers[v].job # j
      BY <1>1, <1>5 DEF Leased, OneHolder, Holds
    <2>2. /\ workers[v].job \in Jobs
          /\ jobs[workers[v].job].active = jobs[workers[v].job].document
      BY <1>5 DEF TypeInv, References, Leased, HeldJobs, ActiveUnfinished, OpenJob
    <2> QED BY <1>1, <1>2, <1>3, <2>1, <2>2, DistinctNulls DEF Leased, OneActive
  <1> QED BY <1>1, <1>2, <1>3, <1>4, <1>5

\* A step on one active job and its document, after which the job is active if
\* and only if the document is open.
LEMMA DocumentMoves ==
  ASSUME TypeInv, Leased, NEW d \in Documents, NEW j \in Jobs, jobs[j].active = d,
         NEW status \in DocumentStatuses, NEW row \in JobRow, NEW active \in {d, NoDocument},
         documents' = [documents EXCEPT ![d].status = status],
         jobs' = [jobs EXCEPT ![j] = row],
         row.document = d, row.active = active,
         active = IF OpenJob(row.status) THEN d ELSE NoDocument,
         active = d <=> status \in OpenStatuses,
         \A v \in Workers : workers'[v].pc # "idle" =>
            workers'[v] = workers[v] /\ workers[v].job # j
  PROVE  Leased'
  <1>1. /\ jobs \in [Jobs -> JobRow] /\ documents \in [Documents -> DocumentRow]
        /\ d # NoDocument
    BY DistinctNulls DEF TypeInv, TypeOK
  <1>2. /\ jobs'[j] = row /\ \A i \in Jobs \ {j} : jobs'[i] = jobs[i]
        /\ documents'[d].status = status
        /\ \A e \in Documents \ {d} : documents'[e] = documents[e]
    BY <1>1 DEF DocumentRow
  <1>3. ASSUME NEW v \in Workers, workers'[v].pc # "idle"
        PROVE  /\ workers'[v] = workers[v] /\ workers[v].job \in Jobs \ {j}
               /\ jobs'[workers[v].job] = jobs[workers[v].job]
               /\ documents'[jobs[workers[v].job].document] = documents[jobs[workers[v].job].document]
               /\ jobs[workers[v].job].document \in Documents
    <2>1. workers'[v] = workers[v] /\ workers[v].job # j /\ workers[v].pc # "idle"
      BY <1>3
    <2>2. /\ workers[v].job \in Jobs /\ jobs[workers[v].job].document \in Documents
          /\ jobs[workers[v].job].active = jobs[workers[v].job].document
      BY <2>1, AtWork
    <2>3. jobs[workers[v].job].document # d
      BY <1>1, <2>1, <2>2 DEF Leased, OneActive
    <2> QED BY <1>2, <2>1, <2>2, <2>3
  <1>4. HeldJobs'
    <2> SUFFICES ASSUME NEW v \in Workers, workers'[v].pc # "idle"
                 PROVE  /\ jobs'[workers'[v].job].status = "running"
                        /\ jobs'[workers'[v].job].lease = "held"
                        /\ workers'[v].active = jobs'[workers'[v].job].active
                        /\ workers'[v].status = documents'[jobs'[workers'[v].job].document].status
      BY DEF HeldJobs
    <2>1. /\ jobs[workers[v].job].status = "running" /\ jobs[workers[v].job].lease = "held"
          /\ workers[v].active = jobs[workers[v].job].active
          /\ workers[v].status = documents[jobs[workers[v].job].document].status
      BY <1>3 DEF Leased, HeldJobs
    <2>2. /\ workers'[v] = workers[v] /\ jobs'[workers[v].job] = jobs[workers[v].job]
          /\ documents'[jobs[workers[v].job].document] = documents[jobs[workers[v].job].document]
      BY <1>3
    <2> QED BY <2>1, <2>2
  <1>5. OneHolder'
    BY <1>3 DEF Leased, OneHolder, Holds
  <1>6. ActiveUnfinished'
    BY <1>2 DEF Leased, ActiveUnfinished
  <1>7. \A i \in Jobs \ {j} : jobs[i].active # d
    BY <1>1 DEF Leased, OneActive
  <1>8. OneActive'
    BY <1>1, <1>2, <1>7 DEF Leased, OneActive
  <1>9. OpenWatched'
    <2> SUFFICES ASSUME NEW e \in Documents
                 PROVE  documents'[e].status \in OpenStatuses <=> \E i \in Jobs : jobs'[i].active = e
      BY DEF OpenWatched
    <2>1. CASE e = d
      BY <1>1, <1>2, <1>7, <2>1
    <2>2. CASE e # d
      <3>1. (\E i \in Jobs : jobs'[i].active = e) <=> (\E i \in Jobs : jobs[i].active = e)
        <4>1. jobs[j].active # e /\ jobs'[j].active # e
          BY <1>2, <2>2, DistinctNulls
        <4> QED BY <1>2, <4>1
      <3> QED BY <1>2, <2>2, <3>1 DEF Leased, OpenWatched
    <2> QED BY <2>1, <2>2
  <1> QED BY <1>4, <1>5, <1>6, <1>8, <1>9 DEF Leased

\* A step that queues one more job for a document that was not watched.
LEMMA JobAdded ==
  ASSUME TypeInv, NEW before, before \in [Jobs -> JobRow], NEW d \in Documents, NEW k \in Jobs,
         NEW operation \in Operations,
         \A i \in Jobs : before[i].active = IF OpenJob(before[i].status) THEN before[i].document ELSE NoDocument,
         \A i, j \in Jobs : i # j /\ before[i].active # NoDocument => before[i].active # before[j].active,
         \A i \in Jobs : before[i].active # d,
         ~OpenJob(before[k].status),
         jobs' = [before EXCEPT ![k] = Queued(d, operation)],
         \A e \in Documents \ {d} :
            documents'[e].status \in OpenStatuses <=> \E j \in Jobs : before[j].active = e,
         documents'[d].status \in OpenStatuses
  PROVE  ActiveUnfinished' /\ OneActive' /\ OpenWatched'
  <1>1. /\ Queued(d, operation).active = d /\ Queued(d, operation).document = d
        /\ Queued(d, operation).status = "queued"
    BY DEF Queued, AbsentJob
  <1>2. /\ jobs'[k] = Queued(d, operation) /\ \A i \in Jobs \ {k} : jobs'[i] = before[i]
        /\ d # NoDocument /\ before[k].active = NoDocument
    BY DistinctNulls
  <1>3. ActiveUnfinished'
    BY <1>1, <1>2 DEF ActiveUnfinished, OpenJob, ReadyStatuses
  <1>4. OneActive'
    BY <1>1, <1>2 DEF OneActive
  <1>5. OpenWatched'
    <2> SUFFICES ASSUME NEW e \in Documents
                 PROVE  documents'[e].status \in OpenStatuses <=> \E i \in Jobs : jobs'[i].active = e
      BY DEF OpenWatched
    <2>1. CASE e = d
      BY <1>1, <1>2, <2>1
    <2>2. CASE e # d
      <3>1. before[k].active # e /\ jobs'[k].active # e
        BY <1>1, <1>2, <2>2, DistinctNulls
      <3>2. (\E i \in Jobs : jobs'[i].active = e) <=> (\E i \in Jobs : before[i].active = e)
        BY <1>2, <3>1
      <3> QED BY <2>2, <3>2
    <2> QED BY <2>1, <2>2
  <1> QED BY <1>3, <1>4, <1>5

LEMMA LeasedCreate ==
  ASSUME TypeInv, Leased, NEW d \in Documents, NEW j \in Jobs,
         CreateNext(d, j) \/ CreateCorrection(d, j)
  PROVE  Leased'
  <1>1. PICK n \in Consecutives, corrected \in Documents \cup {NoDocument} :
            CreateDocument(d, j, n, corrected)
    BY CreatesNumber
  <1>2. /\ documents[d].status = "absent" /\ Spare(j)
        /\ documents'[d].status = "queued"
        /\ \A e \in Documents \ {d} : documents'[e] = documents[e]
        /\ \A i \in Jobs \ {j} : jobs'[i] = jobs[i]
        /\ workers' = workers
    BY <1>1, CreateRows
  <1>3. jobs' = [jobs EXCEPT ![j] = Queued(d, "send_test_set")]
    BY <1>1 DEF CreateDocument
  <1>4. \A i \in Jobs : jobs[i].active # d
    BY <1>2 DEF Leased, OpenWatched, OpenStatuses
  <1>5. ActiveUnfinished' /\ OneActive' /\ OpenWatched'
    <2>1. jobs \in [Jobs -> JobRow] /\ "send_test_set" \in Operations
      BY DEF TypeInv, TypeOK, Operations
    <2>2. \A e \in Documents \ {d} :
            documents'[e].status \in OpenStatuses <=> \E i \in Jobs : jobs[i].active = e
      BY <1>2 DEF Leased, OpenWatched
    <2>3. documents'[d].status \in OpenStatuses
      BY <1>2 DEF OpenStatuses
    <2>4. /\ \A i \in Jobs :
                jobs[i].active = IF OpenJob(jobs[i].status) THEN jobs[i].document ELSE NoDocument
          /\ \A i, k \in Jobs :
                i # k /\ jobs[i].active # NoDocument => jobs[i].active # jobs[k].active
      BY DEF Leased, ActiveUnfinished, OneActive
    <2>5. ~OpenJob(jobs[j].status)
      BY <1>2 DEF Spare, OpenJob, ReadyStatuses
    <2> QED BY ONLY TypeInv, d \in Documents, j \in Jobs, <1>3, <1>4, <2>1, <2>2, <2>3, <2>4, <2>5, JobAdded, ZenonT(40)
  <1>6. ASSUME NEW w \in Workers, workers[w].pc # "idle"
        PROVE  /\ workers[w].job \in Jobs \ {j}
               /\ jobs[workers[w].job].document \in Documents \ {d}
    <2>1. workers[w].job \in Jobs /\ jobs[workers[w].job].status # "absent"
      BY <1>6 DEF TypeInv, References
    <2> QED BY <1>2, <1>6, <2>1 DEF TypeInv, References, Spare, Held
  <1>7. HeldJobs'
    BY <1>2, <1>6 DEF Leased, HeldJobs
  <1>8. OneHolder'
    BY <1>2 DEF Leased, OneHolder, Holds
  <1> QED BY <1>5, <1>7, <1>8 DEF Leased

LEMMA LeasedRecover ==
  ASSUME TypeInv, Leased, NEW j \in Jobs, RecoverExpiredSubmission(j)
  PROVE  /\ Leased' /\ documents[jobs[j].document].status \in OpenStatuses
         /\ documents' = [documents EXCEPT ![jobs[j].document].status = "manual_review"]
         /\ jobs[j].document \in Documents
  <1> DEFINE d == jobs[j].document
             row == [jobs[j] EXCEPT !.status = "failed", !.active = NoDocument, !.lease = "none"]
  <1>1. /\ jobs[j] \in JobRow /\ jobs[j].status = "running" /\ jobs[j].lease = "expired"
        /\ d \in Documents
    BY DEF RecoverExpiredSubmission, ExpiredSubmission, TypeInv, TypeOK, References
  <1>2. jobs[j].active = d
    BY <1>1 DEF Leased, ActiveUnfinished, OpenJob
  <1>3. documents[d].status \in OpenStatuses
    BY <1>1, <1>2 DEF Leased, OpenWatched
  <1>4. /\ jobs' = [jobs EXCEPT ![j] = row] /\ workers' = workers
        /\ documents' = [documents EXCEPT ![d].status = "manual_review"]
    BY DEF RecoverExpiredSubmission
  <1>5. row.document = d /\ row.active = NoDocument /\ row.status = "failed"
    BY <1>1 DEF JobRow
  <1>6. \A v \in Workers : workers[v].pc # "idle" => workers[v].job # j
    BY <1>1 DEF Leased, HeldJobs
  <1>7. /\ ~OpenJob(row.status) /\ NoDocument # d /\ "manual_review" \notin OpenStatuses
        /\ "manual_review" \in DocumentStatuses /\ row \in JobRow
    BY <1>1, <1>5, DistinctNulls
       DEF OpenJob, ReadyStatuses, OpenStatuses, DocumentStatuses, JobRow, JobStatuses
  <1> HIDE DEF d, row
  <1>8. Leased'
    BY <1>1, <1>2, <1>4, <1>5, <1>6, <1>7, DocumentMoves
  <1> QED BY <1>1, <1>3, <1>4, <1>8 DEF d

LEMMA LeasedClaim ==
  ASSUME TypeInv, Leased, NEW w \in Workers, NEW j \in Jobs, Claim(w, j)
  PROVE  Leased'
  <1> DEFINE row == [jobs[j] EXCEPT !.status = "running", !.lease = "held",
                                    !.attempts = Attempted(@)]
  <1>1. /\ Claimable(j) /\ jobs' = [jobs EXCEPT ![j] = row] /\ documents' = documents
        /\ workers' = [workers EXCEPT ![w] =
                [pc |-> "claimed", job |-> j, status |-> documents[jobs[j].document].status,
                 active |-> jobs[j].active, attempts |-> Attempted(jobs[j].attempts),
                 answer |-> "review"]]
    BY DEF Claim
  <1>2. /\ jobs \in [Jobs -> JobRow] /\ workers \in [Workers -> WorkerState]
    BY DEF TypeInv, TypeOK
  <1>3. /\ row.status = "running" /\ row.lease = "held" /\ row.document = jobs[j].document
        /\ row.active = jobs[j].active
    BY <1>2 DEF JobRow
  <1>4. OpenJob(jobs[j].status) /\ OpenJob("running")
    BY <1>1 DEF Claimable, OpenJob
  <1>5. /\ jobs'[j] = row /\ \A i \in Jobs \ {j} : jobs'[i] = jobs[i]
        /\ workers'[w].job = j /\ workers'[w].active = jobs[j].active
        /\ workers'[w].status = documents[jobs[j].document].status
        /\ \A v \in Workers \ {w} : workers'[v] = workers[v]
    BY <1>1, <1>2
  <1> HIDE DEF row
  <1>6. ASSUME NEW v \in Workers, workers[v].pc # "idle" PROVE workers[v].job \in Jobs \ {j}
    <2>1. /\ workers[v].job \in Jobs /\ jobs[workers[v].job].status = "running"
          /\ jobs[workers[v].job].lease = "held"
      BY <1>6 DEF TypeInv, References, Leased, HeldJobs
    <2> QED BY <1>1, <2>1 DEF Claimable, ReadyStatuses
  <1>7. HeldJobs'
    <2> SUFFICES ASSUME NEW v \in Workers, workers'[v].pc # "idle"
                 PROVE  /\ jobs'[workers'[v].job].status = "running"
                        /\ jobs'[workers'[v].job].lease = "held"
                        /\ workers'[v].active = jobs'[workers'[v].job].active
                        /\ workers'[v].status = documents'[jobs'[workers'[v].job].document].status
      BY DEF HeldJobs
    <2>1. CASE v = w
      BY <1>1, <1>3, <1>5, <2>1
    <2>2. CASE v # w
      BY <1>1, <1>5, <1>6, <2>2 DEF Leased, HeldJobs
    <2> QED BY <2>1, <2>2
  <1>8. OneHolder'
    BY <1>5, <1>6 DEF Leased, OneHolder, Holds
  <1>9. \A i \in Jobs : /\ jobs'[i].active = jobs[i].active /\ jobs'[i].document = jobs[i].document
                        /\ OpenJob(jobs'[i].status) <=> OpenJob(jobs[i].status)
    BY <1>3, <1>4, <1>5
  <1>10. ActiveUnfinished' /\ OneActive' /\ OpenWatched'
    BY <1>1, <1>9 DEF Leased, ActiveUnfinished, OneActive, OpenWatched
  <1> QED BY <1>7, <1>8, <1>10 DEF Leased

\* A step that leaves the rows alone and gives no worker a job.
LEMMA LeasedWorker ==
  ASSUME TypeInv, Leased, UNCHANGED <<documents, jobs>>,
         \A v \in Workers : workers'[v].pc # "idle" =>
            /\ workers[v].pc # "idle" /\ workers'[v].job = workers[v].job
            /\ workers'[v].active = workers[v].active /\ workers'[v].status = workers[v].status
  PROVE  Leased'
  <1>1. HeldJobs' /\ OneHolder'
    BY DEF Leased, HeldJobs, OneHolder, Holds
  <1>2. ActiveUnfinished' /\ OneActive' /\ OpenWatched'
    BY DEF Leased, ActiveUnfinished, OneActive, OpenWatched
  <1> QED BY <1>1, <1>2 DEF Leased

LEMMA LeasedExpires ==
  ASSUME TypeInv, Leased, NEW j \in Jobs, LeaseExpires(j), ~Held(j)
  PROVE  Leased'
  <1> DEFINE row == [jobs[j] EXCEPT !.lease = "expired"]
  <1>1. /\ jobs' = [jobs EXCEPT ![j] = row] /\ documents' = documents /\ workers' = workers
        /\ jobs \in [Jobs -> JobRow]
    BY DEF LeaseExpires, TypeInv, TypeOK
  <1>2. row.status = jobs[j].status /\ row.document = jobs[j].document /\ row.active = jobs[j].active
    BY <1>1 DEF JobRow
  <1>3. jobs'[j] = row /\ \A i \in Jobs \ {j} : jobs'[i] = jobs[i]
    BY <1>1
  <1> HIDE DEF row
  <1>4. \A v \in Workers : workers[v].pc # "idle" => workers[v].job \in Jobs \ {j}
    BY DEF Held, TypeInv, References
  <1>5. HeldJobs' /\ OneHolder'
    BY <1>1, <1>3, <1>4 DEF Leased, HeldJobs, OneHolder, Holds
  <1>6. ActiveUnfinished' /\ OneActive' /\ OpenWatched'
    <2>1. \A i \in Jobs : /\ jobs'[i].active = jobs[i].active /\ jobs'[i].document = jobs[i].document
                          /\ jobs'[i].status = jobs[i].status
      BY <1>2, <1>3
    <2> QED BY <1>1, <2>1 DEF Leased, ActiveUnfinished, OneActive, OpenWatched
  <1> QED BY <1>5, <1>6 DEF Leased

LEMMA LeasedRecord ==
  ASSUME TypeInv, Leased, NEW w \in Workers, Record(w)
  PROVE  LET d == jobs[workers[w].job].document
         IN  /\ Leased' /\ d \in Documents /\ documents[d].status \in OpenStatuses
             /\ \A e \in Documents \ {d} : documents'[e] = documents[e]
  <1> DEFINE st == workers[w]
             j == st.job
             d == jobs[j].document
             outcome == Outcome(st, j)
             row == IF outcome = "queued" THEN Retrying(jobs[j]) ELSE Completed(jobs[j], st, outcome)
             active == IF outcome = "queued" THEN d ELSE NoDocument
  <1>1. /\ st.pc = "answered" /\ workers' = [workers EXCEPT ![w] = IdleWorker]
    BY DEF Record
  <1>2. /\ j \in Jobs /\ d \in Documents /\ jobs[j].status = "running" /\ jobs[j].active = d
        /\ st.active = d /\ st.status = documents[d].status /\ documents[d].status \in OpenStatuses
        /\ \A v \in Workers \ {w} : workers[v].pc # "idle" =>
                workers[v].job # j /\ jobs[workers[v].job].document # d
    BY <1>1, AtWork
  <1>3. /\ st \in WorkerState /\ jobs \in [Jobs -> JobRow] /\ jobs[j] \in JobRow
        /\ documents \in [Documents -> DocumentRow]
    BY <1>2 DEF TypeInv, TypeOK
  <1>4. outcome \in {"accepted", "rejected", "processing", "queued", "manual_review"}
    BY <1>3, OutcomeStatus
  <1>5. Recorded(st, d, outcome) = [documents EXCEPT ![d].status = outcome]
    BY <1>2, <1>3 DEF Recorded, Written
  <1>6. row \in JobRow /\ row.document = d /\ row.active = active
        /\ active = IF OpenJob(row.status) THEN d ELSE NoDocument
    <2>1. CASE outcome = "queued"
      BY <1>2, <1>3, <2>1, RetryingRow DEF Retrying, JobRow, OpenJob, ReadyStatuses
    <2>2. CASE outcome # "queued"
      <3>1. /\ row.document = d /\ row.status \in {"succeeded", "failed"} /\ row \in JobRow
        BY <1>3, <2>2, CompletedRow
      <3>2. row.active = NoDocument
        BY <1>2, <1>3, <2>2 DEF Completed, Written, JobRow
      <3> QED BY <2>2, <3>1, <3>2 DEF OpenJob, ReadyStatuses
    <2> QED BY <2>1, <2>2
  <1>7. /\ workers'[w].pc = "idle"
        /\ \A v \in Workers \ {w} : workers'[v] = workers[v]
    BY <1>1, WorkerIdle
  <1>8. \A v \in Workers : workers'[v].pc # "idle" => workers'[v] = workers[v] /\ workers[v].job # j
    BY <1>2, <1>7
  <1>9. CASE UNCHANGED <<documents, jobs>>
    <2>1. Leased'
      BY <1>7, <1>9, LeasedWorker
    <2> QED BY <1>2, <1>9, <2>1
  <1>10. CASE documents' = [documents EXCEPT ![d].status = outcome] /\ FollowUp(st, j, outcome)
    <2>1. \A e \in Documents \ {d} : documents'[e] = documents[e]
      BY <1>3, <1>10
    <2>2. CASE outcome # "processing"
      <3>1. jobs' = [jobs EXCEPT ![j] = row]
        BY <1>10, <2>2 DEF FollowUp
      <3>2. active \in {d, NoDocument} /\ (active = d <=> outcome \in OpenStatuses)
        BY <1>2, <1>4, <2>2, DistinctNulls DEF OpenStatuses
      <3>3. documents' = [documents EXCEPT ![d].status = outcome]
        BY <1>10
      <3> HIDE DEF d, j, st, outcome, row, active
      <3>4. Leased'
        <4>1. d \in Documents /\ j \in Jobs /\ jobs[j].active = d
          BY <1>2
        <4>2. /\ row.document = d /\ row.active = active
              /\ active = IF OpenJob(row.status) THEN d ELSE NoDocument
          BY <1>6
        <4>3. \A v \in Workers : workers'[v].pc # "idle" =>
                workers'[v] = workers[v] /\ workers[v].job # j
          BY <1>8
        <4>4. outcome \in DocumentStatuses /\ row \in JobRow
          BY <1>4, <1>6 DEF DocumentStatuses, OpenStatuses, Final
        <4> QED BY ONLY TypeInv, Leased, <3>1, <3>2, <3>3, <4>1, <4>2, <4>3, <4>4, DocumentMoves, ZenonT(40)
      <3> QED BY <1>2, <2>1, <3>4 DEF d, j, st
    <2>3. CASE outcome = "processing"
      <3> DEFINE done == [jobs EXCEPT ![j] = row]
      <3>1. PICK k \in Jobs : Spare(k) /\ jobs' = [done EXCEPT ![k] = Queued(d, "check_status")]
        BY <1>10, <2>3 DEF FollowUp
      <3>2. /\ done \in [Jobs -> JobRow] /\ done[j] = row
            /\ \A i \in Jobs \ {j} : done[i] = jobs[i]
            /\ active = NoDocument
        BY <1>2, <1>3, <1>6, <2>3, <3>1
      <3>12. k # j
        BY <3>1 DEF Spare, Held
      <3>3. documents' = [documents EXCEPT ![d].status = outcome]
        BY <1>10
      <3> HIDE DEF d, j, st, outcome, row, active, done
      <3>4. /\ \A i \in Jobs : done[i].active = IF OpenJob(done[i].status) THEN done[i].document ELSE NoDocument
            /\ \A i, l \in Jobs : i # l /\ done[i].active # NoDocument => done[i].active # done[l].active
            /\ \A i \in Jobs : done[i].active # d
        BY <1>2, <1>6, <3>2, DistinctNulls DEF Leased, ActiveUnfinished, OneActive
      <3>5. ASSUME NEW e \in Documents \ {d}
            PROVE  documents'[e].status \in OpenStatuses <=> \E i \in Jobs : done[i].active = e
        <4>1. (\E i \in Jobs : done[i].active = e) <=> (\E i \in Jobs : jobs[i].active = e)
          <5>1. jobs[j].active # e /\ done[j].active # e
            BY <1>2, <1>6, <3>2, DistinctNulls
          <5> QED BY <3>2, <5>1
        <4> QED BY <2>1, <4>1 DEF Leased, OpenWatched
      <3>6. documents'[d].status \in OpenStatuses
        BY <1>2, <1>3, <2>3, <3>3 DEF OpenStatuses, DocumentRow
      <3>7. ActiveUnfinished' /\ OneActive' /\ OpenWatched'
        <4>1. ~OpenJob(done[k].status) /\ "check_status" \in Operations
          BY <3>1, <3>2, <3>12 DEF Operations, Spare, OpenJob, ReadyStatuses
        <4>2. /\ done \in [Jobs -> JobRow] /\ d \in Documents /\ k \in Jobs
              /\ jobs' = [done EXCEPT ![k] = Queued(d, "check_status")]
          BY <1>2, <3>1, <3>2
        <4>3. /\ \A i \in Jobs : done[i].active = IF OpenJob(done[i].status) THEN done[i].document ELSE NoDocument
              /\ \A i, l \in Jobs : i # l /\ done[i].active # NoDocument => done[i].active # done[l].active
              /\ \A i \in Jobs : done[i].active # d
          BY <3>4
        <4>4. \A e \in Documents \ {d} :
                documents'[e].status \in OpenStatuses <=> \E i \in Jobs : done[i].active = e
          BY <3>5
        <4> QED BY ONLY TypeInv, <3>6, <4>1, <4>2, <4>3, <4>4, JobAdded, ZenonT(40)
      <3>8. ASSUME NEW v \in Workers, workers'[v].pc # "idle"
            PROVE  /\ workers'[v] = workers[v] /\ jobs'[workers[v].job] = jobs[workers[v].job]
                   /\ workers[v].pc # "idle" /\ workers[v].job \in Jobs
                   /\ documents'[jobs[workers[v].job].document] = documents[jobs[workers[v].job].document]
        <4>1. v # w /\ workers'[v] = workers[v]
          BY <1>7, <3>8
        <4>2. /\ workers[v].job \in Jobs /\ workers[v].job # j
              /\ jobs[workers[v].job].document \in Documents \ {d}
              /\ jobs[workers[v].job].status = "running"
          BY <1>2, <3>8, <4>1, AtWork
        <4>3. workers[v].job # k
          BY <3>1 DEF Spare, Held
        <4> QED BY <2>1, <3>1, <3>2, <3>8, <4>1, <4>2, <4>3
      <3>9. HeldJobs'
        <4> SUFFICES ASSUME NEW v \in Workers, workers'[v].pc # "idle"
                     PROVE  /\ jobs'[workers'[v].job].status = "running"
                            /\ jobs'[workers'[v].job].lease = "held"
                            /\ workers'[v].active = jobs'[workers'[v].job].active
                            /\ workers'[v].status = documents'[jobs'[workers'[v].job].document].status
          BY DEF HeldJobs
        <4> QED BY <3>8 DEF Leased, HeldJobs
      <3>10. OneHolder'
        BY <3>8 DEF Leased, OneHolder, Holds
      <3>11. Leased'
        BY <3>7, <3>9, <3>10 DEF Leased
      <3> QED BY <1>2, <2>1, <3>11 DEF d, j, st
    <2> QED BY <2>2, <2>3
  <1>11. \/ UNCHANGED <<documents, jobs>>
         \/ documents' = [documents EXCEPT ![d].status = outcome] /\ FollowUp(st, j, outcome)
    BY <1>5 DEF Record
  <1> QED BY <1>9, <1>10, <1>11

\* While no lease was overrun, every step keeps the invariant and the verdicts.
LEMMA LeasedStep ==
  ASSUME TypeInv, Leased, [Next]_vars, LeasesHold'
  PROVE  /\ Leased'
         /\ \A d \in Documents :
               documents[d].status \in Final => documents'[d].status = documents[d].status
  <1> DEFINE Stays == \A d \in Documents :
               documents[d].status \in Final => documents'[d].status = documents[d].status
  <1>1. CASE UNCHANGED <<documents, jobs, workers>>
    BY <1>1, LeasedWorker
  <1>2. ASSUME NEW d \in Documents, NEW j \in Jobs, CreateNext(d, j) \/ CreateCorrection(d, j)
        PROVE  Leased' /\ Stays
    <2>1. PICK n \in Consecutives, corrected \in Documents \cup {NoDocument} :
            CreateDocument(d, j, n, corrected)
      BY <1>2, CreatesNumber
    <2>2. /\ documents[d].status = "absent" /\ "absent" \notin Final
          /\ \A e \in Documents \ {d} : documents'[e] = documents[e]
      BY <2>1, CreateRows DEF Final
    <2> QED BY <1>2, <2>2, LeasedCreate
  <1>3. ASSUME NEW j \in Jobs, RecoverExpiredSubmission(j)
        PROVE  Leased' /\ Stays
    <2>1. PICK d \in Documents : /\ documents[d].status \in OpenStatuses
                                 /\ documents' = [documents EXCEPT ![d].status = "manual_review"]
      BY <1>3, LeasedRecover
    <2>2. Stays
      BY <2>1 DEF OpenStatuses, Final, TypeInv, TypeOK
    <2> QED BY <1>3, <2>2, LeasedRecover
  <1>4. ASSUME NEW j \in Jobs, LeaseExpires(j) PROVE Leased' /\ Stays
    <2>1. ~Held(j)
      BY <1>4 DEF LeaseExpires, LeasesHold, TypeInv, TypeOK
    <2>2. documents' = documents
      BY <1>4 DEF LeaseExpires
    <2> QED BY <1>4, <2>1, <2>2, LeasedExpires
  <1>5. ASSUME NEW w \in Workers, LocalFailure(w) \/ SendTestSet(w) \/ CheckStatus(w)
        PROVE  Leased' /\ Stays
    <2>1. PICK answer \in Answers : Answered(w, answer)
      BY <1>5, CallAnswers
    <2>2. /\ UNCHANGED <<documents, jobs>> /\ workers[w].pc = "claimed"
      BY <1>5, CallAnswers
    <2>3. /\ workers' = [workers EXCEPT ![w] = [@ EXCEPT !.pc = "answered", !.answer = answer]]
          /\ workers \in [Workers -> WorkerState]
      BY <2>1 DEF Answered, TypeInv, TypeOK
    <2>4. \A v \in Workers : workers'[v].pc # "idle" =>
            /\ workers[v].pc # "idle" /\ workers'[v].job = workers[v].job
            /\ workers'[v].active = workers[v].active /\ workers'[v].status = workers[v].status
      BY <2>2, <2>3 DEF WorkerState
    <2> QED BY <2>2, <2>4, LeasedWorker
  <1>6. ASSUME NEW w \in Workers, Record(w) PROVE Leased' /\ Stays
    <2>1. PICK d \in Documents : /\ documents[d].status \in OpenStatuses
                                 /\ \A e \in Documents \ {d} : documents'[e] = documents[e]
      BY <1>6, LeasedRecord
    <2>2. Stays
      BY <2>1 DEF OpenStatuses, Final
    <2> QED BY <1>6, <2>2, LeasedRecord
  <1>7. ASSUME NEW w \in Workers, Crash(w) PROVE Leased' /\ Stays
    <2>1. UNCHANGED <<documents, jobs>> /\ workers' = [workers EXCEPT ![w] = IdleWorker]
      BY <1>7 DEF Crash
    <2>2. workers'[w].pc = "idle" /\ \A v \in Workers \ {w} : workers'[v] = workers[v]
      BY <2>1, WorkerIdle
    <2> QED BY <2>1, <2>2, LeasedWorker
  <1>8. ASSUME NEW w \in Workers, NEW j \in Jobs, Claim(w, j) PROVE Leased' /\ Stays
    BY <1>8, LeasedClaim DEF Claim
  <1> QED BY <1>1, <1>2, <1>3, <1>4, <1>5, <1>6, <1>7, <1>8
          DEF Next, User, Work, CreateNumberingRange, Settle, vars

\* Leases never hold again once one was overrun.
LEMMA LeasesHeld == TypeInv /\ [Next]_vars /\ LeasesHold' => LeasesHold
  <1> SUFFICES ASSUME TypeInv, [Next]_vars, overruns' = 0 PROVE overruns = 0
    BY DEF LeasesHold
  <1>1. CASE UNCHANGED overruns
    BY <1>1
  <1>2. ASSUME NEW j \in Jobs, LeaseExpires(j) PROVE overruns = 0
    BY <1>2 DEF LeaseExpires, TypeInv, TypeOK
  <1> QED BY <1>1, <1>2
          DEF Next, User, Work, CreateNumberingRange, CreateNext, CreateCorrection, CreateDocument,
              RecoverExpiredSubmission, LocalFailure, SendTestSet, CheckStatus, Record, Crash,
              Claim, Settle, vars

LEMMA AlwaysLeaseInv == Spec => [](Inv /\ LeaseInv)
  <1>1. Init => LeaseInv
    BY DistinctNulls
       DEF Init, LeaseInv, Leased, HeldJobs, OneHolder, Holds, ActiveUnfinished, OneActive, OpenWatched,
           AbsentDocument, AbsentJob, IdleWorker, OpenJob, ReadyStatuses, OpenStatuses
  <1>2. Inv /\ LeaseInv /\ [Next]_vars => LeaseInv'
    BY LeasedStep, LeasesHeld DEF Inv, LeaseInv
  <1> QED BY <1>1, <1>2, InvInit, InvStep, PTL DEF Spec

\* While leases outlast the calls, no document is forgotten and none worked on
\* twice: an open document has exactly one active job (active_document_id) and a
\* settled one has none, for any number of documents, jobs and workers that die.
THEOREM OpenIffActiveAlways == Spec => []OpenIffActive
  <1>1. Inv /\ LeaseInv => OpenIffActive
    <2> SUFFICES ASSUME TypeInv, Leased, NEW d \in Documents
                 PROVE  LET active == {j \in Jobs : jobs[j].active = d}
                        IN  /\ active = {j \in Jobs : /\ jobs[j].document = d
                                                     /\ jobs[j].status \in ReadyStatuses \cup {"running"}}
                            /\ Cardinality(active) = IF documents[d].status \in OpenStatuses THEN 1 ELSE 0
      BY DEF OpenIffActive, Inv, LeaseInv
    <2> DEFINE active == {j \in Jobs : jobs[j].active = d}
    <2>1. active = {j \in Jobs : /\ jobs[j].document = d
                                 /\ jobs[j].status \in ReadyStatuses \cup {"running"}}
      BY DistinctNulls DEF Leased, ActiveUnfinished, OpenJob
    <2>2. CASE documents[d].status \in OpenStatuses
      <3>1. PICK j \in Jobs : jobs[j].active = d
        BY <2>2 DEF Leased, OpenWatched
      <3>2. active = {j}
        BY <3>1, DistinctNulls DEF Leased, OneActive
      <3> QED BY <2>1, <2>2, <3>2, FS_Singleton
    <2>3. CASE documents[d].status \notin OpenStatuses
      <3>1. active = {}
        BY <2>3 DEF Leased, OpenWatched
      <3> QED BY <2>1, <2>3, <3>1, FS_EmptySet
    <2> QED BY <2>2, <2>3
  <1> QED BY <1>1, AlwaysLeaseInv, PTL

\* While leases outlast the calls, DIAN's verdict on a document, once recorded,
\* is never overwritten by a late or repeated answer, nor by the recovery of an
\* expired transmission.
THEOREM VerdictStaysAlways == Spec => VerdictStays
  <1>1. Inv /\ LeaseInv /\ [Next]_vars =>
           [LeasesHold' => \A d \in Documents :
               documents[d].status \in Final => documents'[d].status = documents[d].status]_vars
    BY LeasedStep, LeasesHeld DEF Inv, LeaseInv
  <1> QED BY <1>1, AlwaysLeaseInv, PTL DEF Spec, VerdictStays

=============================================================================
