-------------------------- MODULE BankReconciliation --------------------------
(***************************************************************************)
(* Bank statements and their reconciliation with the payments of a company: *)
(* BankReconciliationService (services/bank_reconciliation_service.py).    *)
(*                                                                         *)
(* A request is one database transaction of READ COMMITTED isolation: it   *)
(* sees what others have committed and what it has flushed itself, a row   *)
(* it has flushed is locked until it commits, and its session goes on with *)
(* the row it loaded. A flush writes only the columns whose new value      *)
(* differs from the loaded one, to whatever the row has become since.      *)
(***************************************************************************)
EXTENDS Naturals, FiniteSets

CONSTANTS
    Movements,      \* rows of bank statements, identified by fingerprint
    Payments,       \* accounting payments, identified by id
    Requests,       \* HTTP requests that may be in flight at once
    NoPayment,      \* NULL in a column that references a payment
    NoMovement,     \* a request that reviews nothing
    Fits            \* movement -> payments with its amount, currency,
                    \* direction and date within three days

ASSUME DistinctNulls == NoPayment \notin Payments /\ NoMovement \notin Movements
ASSUME FitsAssumption == Fits \in [Movements -> SUBSET Payments]

VARIABLES
    rows,           \* rows of bank_transactions, as committed
    paid,           \* payments recorded so far
    requests        \* the open transactions and their sessions

vars == <<rows, paid, requests>>

Statuses == {"absent", "pending", "suggested", "reconciled", "dismissed", "excluded"}
OpenStatuses == {"pending", "suggested"}
Reviews == {"confirm", "dismiss", "exclude", "reopen"}

\* BankTransactionRecord: the columns the reviews read and write.
Row == [status : Statuses, suggested : Payments \cup {NoPayment},
        matched : Payments \cup {NoPayment}]
AbsentRow == [status |-> "absent", suggested |-> NoPayment, matched |-> NoPayment]
NoRows == [t \in Movements |-> AbsentRow]

\* A request: the movement it reviews, the file rows it has yet to import or
\* the open rows whose suggestion it has yet to compute (`todo'), the rows its
\* session holds (`seen'), the versions it has flushed and not committed
\* (`mine', for the rows in `locked'), the open rows its refresh selected, and
\* what it has assigned to the rows since (`next').
Request == [op : {"none", "import"} \cup Reviews,
            pc : {"loaded", "written", "scanned", "reset"},
            movement : Movements \cup {NoMovement}, todo : SUBSET Movements,
            seen : [Movements -> Row], mine : [Movements -> Row],
            locked : SUBSET Movements, open : SUBSET Movements,
            next : [Movements -> Row]]
NoRequest == [op |-> "none", pc |-> "loaded", movement |-> NoMovement, todo |-> {},
              seen |-> NoRows, mine |-> NoRows, locked |-> {}, open |-> {},
              next |-> NoRows]

TypeOK ==
    /\ rows \in [Movements -> Row]
    /\ paid \subseteq Payments
    /\ requests \in [Requests -> Request]

Init ==
    /\ rows = NoRows
    /\ paid = {}
    /\ requests = [r \in Requests |-> NoRequest]

-----------------------------------------------------------------------------
(* Transactions *)

\* What request r sees of a movement.
View(r, t) == IF t \in requests[r].locked THEN requests[r].mine[t] ELSE rows[t]

\* The row an UPDATE leaves: unchanged columns keep their current value.
Written(loaded, new, current) == IF new = loaded THEN current ELSE new
Updated(loaded, new, current) ==
    [status |-> Written(loaded.status, new.status, current.status),
     suggested |-> Written(loaded.suggested, new.suggested, current.suggested),
     matched |-> Written(loaded.matched, new.matched, current.matched)]

\* No other transaction has updated these rows and is yet to commit.
Free(r, ts) == \A other \in Requests \ {r} : requests[other].locked \cap ts = {}

\* The session is closed: what it had not committed is rolled back.
Close(r) == requests' = [requests EXCEPT ![r] = NoRequest]

\* Payments of another module: they are recorded, never changed or deleted,
\* and recording one does not look at the bank statements.
RecordPayment(p) ==
    /\ p \notin paid
    /\ paid' = paid \cup {p}
    /\ UNCHANGED <<rows, requests>>

\* _suggest: a single candidate that no movement has matched.
Candidates(r, t) ==
    {p \in Fits[t] \cap paid : \A u \in Movements : View(r, u).matched # p}
Suggestion(r, t, row) ==
    IF Cardinality(Candidates(r, t)) = 1
    THEN [row EXCEPT !.status = "suggested",
                     !.suggested = CHOOSE p \in Candidates(r, t) : TRUE]
    ELSE [row EXCEPT !.status = "pending", !.suggested = NoPayment]

-----------------------------------------------------------------------------
(* import_csv *)

BeginImport(r, file) ==
    /\ requests[r].op = "none"
    /\ requests' = [requests EXCEPT ![r] =
            [NoRequest EXCEPT !.op = "import", !.todo = file]]
    /\ UNCHANGED <<rows, paid>>

\* One row of the file: skipped if its fingerprint is there already,
\* inserted with its suggestion otherwise.
ImportRow(r, t) ==
    LET req == requests[r]
    IN  /\ req.op = "import"
        /\ t \in req.todo
        /\ requests' = [requests EXCEPT ![r] =
                IF rows[t].status # "absent"
                THEN [req EXCEPT !.todo = @ \ {t}]
                ELSE [req EXCEPT !.todo = @ \ {t}, !.locked = @ \cup {t},
                                 !.mine[t] = Suggestion(r, t, AbsentRow)]]
        /\ UNCHANGED <<rows, paid>>

\* uq_bank_transactions_account_fingerprint: the import is rolled back whole
\* if another one has committed one of its rows meanwhile.
FreshFingerprints_NotEnforced(req) == TRUE      \* mutant
FreshFingerprints(req) == \A t \in req.locked : rows[t].status = "absent"
CommitImport(r) ==
    LET req == requests[r]
    IN  /\ req.op = "import"
        /\ req.todo = {}
        /\ Close(r)
        /\ rows' = IF FreshFingerprints(req)
                   THEN [t \in Movements |-> View(r, t)]
                   ELSE rows
        /\ UNCHANGED paid

-----------------------------------------------------------------------------
(* review *)

\* Mutant: a reconciled movement may be excluded.
Allowed_ExcludeReconciled(op, t) ==
    LET row == rows[t]
    IN  \/ /\ op = "confirm"
           /\ row.status = "suggested" /\ row.suggested # NoPayment
           /\ \A u \in Movements \ {t} : rows[u].matched # row.suggested
        \/ op = "dismiss" /\ row.status = "suggested"
        \/ op = "exclude" /\ row.status # "absent"
        \/ op = "reopen" /\ row.status \in {"reconciled", "dismissed", "excluded"}

\* The checks of review on the row it loaded.
Allowed(op, t) ==
    LET row == rows[t]
    IN  \/ /\ op = "confirm"
           /\ row.status = "suggested" /\ row.suggested # NoPayment
           /\ \A u \in Movements \ {t} : rows[u].matched # row.suggested
        \/ op = "dismiss" /\ row.status = "suggested"
        \/ op = "exclude" /\ row.status \notin {"absent", "reconciled"}
        \/ op = "reopen" /\ row.status \in {"reconciled", "dismissed", "excluded"}

Reopened_KeepsPayment(row) ==       \* mutant
    [row EXCEPT !.status = "pending", !.suggested = NoPayment]
Reopened(row) == [row EXCEPT !.status = "pending", !.suggested = NoPayment,
                             !.matched = NoPayment]

\* The row as review assigns it.
Decided(op, row) ==
    CASE op = "confirm" -> [row EXCEPT !.status = "reconciled", !.matched = row.suggested]
      [] op = "dismiss" -> [row EXCEPT !.status = "dismissed", !.suggested = NoPayment]
      [] op = "exclude" -> [row EXCEPT !.status = "excluded", !.suggested = NoPayment,
                                        !.matched = NoPayment]
      [] op = "reopen" -> Reopened(row)

Load(r, op, t) ==
    /\ requests[r].op = "none"
    /\ Allowed(op, t)
    /\ requests' = [requests EXCEPT ![r] =
            [NoRequest EXCEPT !.op = op, !.movement = t, !.seen[t] = rows[t]]]
    /\ UNCHANGED <<rows, paid>>

\* dismiss and exclude commit at once.
CommitDecision(r) ==
    LET req == requests[r]
        t == req.movement
    IN  /\ req.op \in {"dismiss", "exclude"}
        /\ Free(r, {t})
        /\ Close(r)
        /\ rows' = [rows EXCEPT ![t] =
                Updated(req.seen[t], Decided(req.op, req.seen[t]), @)]
        /\ UNCHANGED paid

\* uq_bank_transactions_matched_payment: the flush waits for a transaction
\* that has taken or given up the payment, and raises if it is taken.
PaymentSettled(r, p) == \A other \in Requests \ {r} : \A u \in requests[other].locked :
    rows[u].matched # p /\ requests[other].mine[u].matched # p
PaymentFree_NotEnforced(t, p) == TRUE           \* mutant
PaymentFree(t, p) == \A u \in Movements \ {t} : rows[u].matched # p

\* confirm and reopen flush their row first.
WriteDecision(r) ==
    LET req == requests[r]
        t == req.movement
        new == Decided(req.op, req.seen[t])
        payment == new.matched
    IN  /\ req.op \in {"confirm", "reopen"} /\ req.pc = "loaded"
        /\ Free(r, {t})
        /\ payment # NoPayment => PaymentSettled(r, payment)
        /\ IF payment # NoPayment => PaymentFree(t, payment)
           THEN requests' = [requests EXCEPT ![r] =
                    [req EXCEPT !.pc = "written", !.locked = {t}, !.seen[t] = new,
                                !.mine[t] = Updated(req.seen[t], new, rows[t])]]
           ELSE Close(r)
        /\ UNCHANGED <<rows, paid>>

\* _refresh_open_suggestions selects the open rows. The session keeps what
\* it has of the row it reviews and loads the others.
OpenRows_None(r) == {}      \* mutant: no refresh
OpenRows(r) == {t \in Movements : View(r, t).status \in OpenStatuses}
Scan(r) ==
    LET req == requests[r]
    IN  /\ req.pc = "written"
        /\ requests' = [requests EXCEPT ![r] =
                [req EXCEPT !.pc = "scanned", !.open = OpenRows(r),
                    !.seen = [t \in Movements |->
                        IF t \in OpenRows(r) \ {req.movement} THEN rows[t] ELSE @[t]]]]
        /\ UNCHANGED <<rows, paid>>

\* ... clears their suggestions with a flush ...
Reset(r) ==
    LET req == requests[r]
        cleared(t) == [req.seen[t] EXCEPT !.status = "pending", !.suggested = NoPayment]
        changed == {t \in req.open : cleared(t) # req.seen[t]}
        flushed == [t \in Movements |-> IF t \in req.open THEN cleared(t) ELSE req.seen[t]]
    IN  /\ req.pc = "scanned"
        /\ Free(r, changed)
        /\ requests' = [requests EXCEPT ![r] =
                [req EXCEPT !.pc = "reset", !.todo = req.open, !.locked = @ \cup changed,
                    !.seen = flushed, !.next = flushed,
                    !.mine = [t \in Movements |->
                        IF t \in changed
                        THEN Updated(req.seen[t], cleared(t), View(r, t)) ELSE @[t]]]]
        /\ UNCHANGED <<rows, paid>>

\* ... and computes them again, with a query for each row and no flush
\* between them ...
Suggest(r, t) ==
    LET req == requests[r]
    IN  /\ req.pc = "reset"
        /\ t \in req.todo
        /\ requests' = [requests EXCEPT ![r] =
                [req EXCEPT !.todo = @ \ {t},
                            !.next[t] = Suggestion(r, t, req.seen[t])]]
        /\ UNCHANGED <<rows, paid>>

\* ... to be written with the commit.
CommitRefresh(r) ==
    LET req == requests[r]
        changed == {t \in req.open : req.next[t] # req.seen[t]}
    IN  /\ req.pc = "reset"
        /\ req.todo = {}
        /\ Free(r, changed)
        /\ Close(r)
        /\ rows' = [t \in Movements |->
                IF t \in changed THEN Updated(req.seen[t], req.next[t], View(r, t))
                ELSE View(r, t)]
        /\ UNCHANGED paid

\* A statement fails, the process dies, or the database breaks a deadlock.
Fail(r) ==
    /\ requests[r].op # "none"
    /\ Close(r)
    /\ UNCHANGED <<rows, paid>>

-----------------------------------------------------------------------------
Import(r) ==
    \/ \E file \in SUBSET Movements : BeginImport(r, file)
    \/ \E t \in Movements : ImportRow(r, t)
    \/ CommitImport(r)
Review(r) ==
    \/ \E op \in Reviews, t \in Movements : Load(r, op, t)
    \/ CommitDecision(r)
    \/ WriteDecision(r) \/ Scan(r) \/ Reset(r) \/ CommitRefresh(r)
    \/ \E t \in Movements : Suggest(r, t)

Next ==
    \/ \E p \in Payments : RecordPayment(p)
    \/ \E r \in Requests : Import(r) \/ Review(r) \/ Fail(r)

Spec == Init /\ [][Next]_vars

-----------------------------------------------------------------------------
(* Properties *)

\* A payment is reconciled with at most one movement, whatever requests
\* overlap (README: "un pago no puede conciliarse dos veces").
PaymentReconciledOnce ==
    \A t, u \in Movements :
        (t # u /\ rows[t].matched # NoPayment) => rows[t].matched # rows[u].matched

\* A movement holds a payment exactly while it is reconciled: no payment is
\* left blocked by a movement that is open, dismissed or excluded.
ReconciledIffMatched ==
    \A t \in Movements : rows[t].status = "reconciled" <=> rows[t].matched # NoPayment

\* A reconciliation ends only by reopening it (the check of `exclude').
ReconciledOnlyReopens ==
    [][\A t \in Movements :
        (rows[t].status = "reconciled" /\ rows'[t].status # "reconciled")
            => \E r \in Requests : requests[r].op = "reopen" /\ requests[r].movement = t]_vars

\* No suggestion offers a payment that has been reconciled: confirming or
\* reopening a movement refreshes the suggestions of the others.
SuggestionsAreFree ==
    \A t, u \in Movements :
        rows[t].status = "suggested" => rows[t].suggested # rows[u].matched

\* Importing a statement again, at the same time included, leaves the
\* decisions on its movements alone.
ImportsKeepDecisions ==
    [][\A t \in Movements :
        (rows[t].status # "absent" /\ rows'[t] # rows[t])
            => \E r \in Requests : requests[r].op \in Reviews /\ requests'[r].op = "none"]_vars
=============================================================================
