--------------------------------- MODULE Books ---------------------------------
(***************************************************************************)
(* The books of one company once they are captured, and the operations     *)
(* that change them afterwards: the amounts and dates ManualAccountingSer- *)
(* vice stores, the payment terms (services/receivables_operations_service *)
(* .py, payables_operations_service.py), the electronic evidence imported  *)
(* for sale invoices (electronic_invoice_evidence_import_service.py), the  *)
(* collection follow-ups (collection_followup_service.py), and the bank    *)
(* accounts with their verified balances.                                  *)
(*                                                                         *)
(* A request loads a row, checks what it was sent against it and commits   *)
(* later; its UPDATE writes the columns that differ from what it loaded to *)
(* whatever the row has become. Amounts are sent in tenths of a cent and   *)
(* stored in cents, quantities are sent in tenths of a millionth and       *)
(* stored in millionths (Numeric(18, 6)): a tenth stands for whatever the  *)
(* column has no room for. Days are counted from the day of the reports.   *)
(***************************************************************************)
EXTENDS Integers, Sequences, FiniteSets, Functions

CONSTANTS
    None,               \* NULL in any column
    Requests,           \* HTTP requests that may be in flight at once
    PartyForms, InvoiceForms, PaymentForms, JournalForms, FollowUpForms, \* payloads
    TermsPatches, FollowUpPatches,                                 \* PATCH payloads
    EvidenceFiles,      \* files of electronic evidence, as sequences of rows
    SnapshotDates,      \* days for which balances are verified, none after today
    MaxTerms,           \* the longest term of payment (3650)
    MaxRecords,         \* bound: rows in the tables
    MaxArrivals,        \* bound: requests that update or report
    MaxWork             \* bound: rows and such requests together

ASSUME NoneAssumption == None \notin Int
ASSUME SnapshotsAssumption == \A d \in SnapshotDates : d \in Int /\ d <= 0
ASSUME LimitsAssumption == {MaxTerms, MaxRecords, MaxArrivals, MaxWork} \subseteq Nat

InvoiceTypes == {"sale", "purchase", "credit_note", "debit_note", "support_document"}

\* What the schemas of the payloads let through: every type of invoice, no amount
\* that is negative, no quantity or payment that is not positive, and a date is
\* one or is left out.
ASSUME FormsAssumption ==
    LET Optional == Int \cup {None}
    IN  /\ \A form \in InvoiceForms :
              /\ form.type \in InvoiceTypes /\ form.party \in BOOLEAN
              /\ form.issue \in Int /\ form.due \in Optional /\ form.terms \in Optional
              /\ form.lines \in Seq([quantity : Nat \ {0}, price : Nat])
              /\ form.tax \in Nat /\ form.withholding \in Nat
        /\ \A form \in PaymentForms : form.amount \in Nat \ {0} /\ form.date \in Int
        /\ JournalForms \subseteq Seq([debit : Nat, credit : Nat])
        /\ \A form \in FollowUpForms \cup FollowUpPatches : form.date \in Optional
        /\ \A patch \in TermsPatches : patch.due \in Optional /\ patch.terms \in Optional

VARIABLES
    parties, invoices, payments, journals, followups, accounts,  \* tables, by id
    snapshots,          \* verified balances: pairs of an account and a day
    audit,              \* evidence rows accepted by committed imports, in order
    requests,           \* what each request in flight has loaded and has to write
    reports,            \* history: what treasury reports said of the bank balances
    stale,              \* history: rows a commit found changed since it loaded them
    stamps,             \* transactions on follow-ups begun, for their now()
    arrivals            \* updates and reports begun

tables == <<parties, invoices, payments, journals, accounts>>
vars == <<tables, followups, snapshots, audit, requests, reports, stale, stamps, arrivals>>

\* The electronic statuses of an import, and two that only a capture can bring:
\* one no list knows, and one in a spelling (accents, repeated separators) that
\* only the normalisation of the list of exceptions reads.
KnownStatuses == {"accepted", "pending", "rejected"}
FreeStatuses == {"unknown", "accented"}

NoRequest == [op |-> "none"]
Records == Len(parties) + Len(invoices) + Len(payments) + Len(journals)
           + Len(followups) + Len(accounts) + Cardinality(snapshots)
Room == Records < MaxRecords /\ Records + arrivals < MaxWork
Arrive == /\ arrivals < MaxArrivals /\ Records + arrivals < MaxWork
          /\ arrivals' = arrivals + 1

\* ROUND_HALF_UP and the rounding of Numeric columns: no amount is negative.
Rounded(x, unit) == (x + unit \div 2) \div unit
Money(x) == Rounded(x, 10)                                          \* _money

Init ==
    /\ parties = <<>> /\ invoices = <<>> /\ payments = <<>> /\ journals = <<>>
    /\ followups = <<>> /\ accounts = <<>> /\ snapshots = {} /\ audit = <<>>
    /\ requests = [r \in Requests |-> NoRequest]
    /\ reports = {} /\ stale = {} /\ stamps = 0 /\ arrivals = 0

-----------------------------------------------------------------------------
(* What a capture stores *)

RecordParty(form) ==
    /\ Room
    /\ parties' = Append(parties, form)
    /\ UNCHANGED <<invoices, payments, journals, accounts, followups, snapshots, audit,
                   requests, reports, stale, stamps, arrivals>>

\* _resolve_due_date: which pairs it accepts, and the date it returns.
Resolvable(issue, due, terms) ==
    IF terms # None THEN terms \in 0..MaxTerms /\ due \in {None, issue + terms}
    ELSE due # None => due >= issue
Resolved(issue, due, terms) == IF terms # None THEN issue + terms ELSE due

Subtotal(lines) ==
    Rounded(SumFunction([n \in DOMAIN lines |-> lines[n].quantity * lines[n].price]), 100000000)
InvoiceTotal(form) == Subtotal(form.lines) + Money(form.tax) - Money(form.withholding)

\* create_invoice: the totals come from the amounts as sent; of the stored lines
\* the service rounds the prices, and the column the quantities.
RecordInvoice(form) ==
    /\ Room
    /\ InvoiceTotal(form) >= 0
    /\ Resolvable(form.issue, form.due, form.terms)
    /\ invoices' = Append(invoices,
           [type |-> form.type, number |-> form.number, party |-> form.party,
            issue |-> form.issue, due |-> Resolved(form.issue, form.due, form.terms),
            terms |-> form.terms, currency |-> form.currency,
            subtotal |-> Subtotal(form.lines), tax |-> Money(form.tax),
            withholding |-> Money(form.withholding), total |-> InvoiceTotal(form),
            lines |-> [n \in DOMAIN form.lines |->
                          [quantity |-> Rounded(form.lines[n].quantity, 10),
                           price |-> Money(form.lines[n].price)]],
            exact |-> \A n \in DOMAIN form.lines : /\ form.lines[n].quantity % 10 = 0
                                                   /\ form.lines[n].price % 10 = 0,
            status |-> form.status, reference |-> form.reference])
    /\ UNCHANGED <<parties, payments, journals, accounts, followups, snapshots, audit,
                   requests, reports, stale, stamps, arrivals>>

\* create_payment: an amount that rounds to nothing is refused (Payment).
RecordPayment(form, i) ==
    /\ Room
    /\ Money(form.amount) > 0
    /\ i \in DOMAIN invoices \cup {None}
    /\ payments' = Append(payments,
           [invoice |-> i, amount |-> Money(form.amount), currency |-> form.currency,
            date |-> form.date])
    /\ UNCHANGED <<parties, invoices, journals, accounts, followups, snapshots, audit,
                   requests, reports, stale, stamps, arrivals>>

Balanced_Unchecked(lines) == TRUE           \* mutant
Balanced(lines) ==
    LET debit == Money(SumFunction([n \in DOMAIN lines |-> lines[n].debit]))
        credit == Money(SumFunction([n \in DOMAIN lines |-> lines[n].credit]))
    IN  /\ debit > 0 /\ debit = credit
        /\ \A n \in DOMAIN lines : lines[n].debit = 0 \/ lines[n].credit = 0

\* create_journal_entry: the sums are rounded for the check, the lines one by
\* one for the table.
RecordJournal(lines) ==
    /\ Room
    /\ Balanced(lines)
    /\ journals' = Append(journals,
           [lines |-> [n \in DOMAIN lines |-> [debit |-> Money(lines[n].debit),
                                               credit |-> Money(lines[n].credit)]],
            exact |-> \A n \in DOMAIN lines : /\ lines[n].debit % 10 = 0
                                              /\ lines[n].credit % 10 = 0])
    /\ UNCHANGED <<parties, invoices, payments, accounts, followups, snapshots, audit,
                   requests, reports, stale, stamps, arrivals>>

\* create_account (BankReconciliationService): always active; nothing disables it.
RecordAccount ==
    /\ Room
    /\ accounts' = Append(accounts, [status |-> "active"])
    /\ UNCHANGED <<parties, invoices, payments, journals, followups, snapshots, audit,
                   requests, reports, stale, stamps, arrivals>>

\* create_balance_snapshot: one per account and day, never for a day to come.
RecordSnapshot(a, day) ==
    /\ Room
    /\ accounts[a].status = "active"
    /\ <<a, day>> \notin snapshots
    /\ snapshots' = snapshots \cup {<<a, day>>}
    /\ UNCHANGED <<tables, followups, audit, requests, reports, stale, stamps, arrivals>>

-----------------------------------------------------------------------------
(* Updates of a loaded row *)

\* The columns of `new' that an UPDATE names, and the row it leaves.
Changes(old, new) == [c \in {d \in DOMAIN new : new[d] # old[d]} |-> new[c]]
Merged(row, changes) ==
    [c \in DOMAIN row |-> IF c \in DOMAIN changes THEN changes[c] ELSE row[c]]
Columns(row, names) == [c \in names |-> row[c]]

Begin(r, request) ==
    /\ Arrive
    /\ requests[r] = NoRequest
    /\ requests' = [requests EXCEPT ![r] = request]
    /\ UNCHANGED <<tables, followups, snapshots, audit, reports, stale>>

Done(r) == requests' = [requests EXCEPT ![r] = NoRequest]
MarkStale(kind, id, row, loaded) ==
    stale' = IF Columns(row, DOMAIN loaded) = loaded THEN stale ELSE stale \cup {<<kind, id>>}

\* A mutant of TermsAfter: an agreed date leaves the old term in place.
TermsAfter_KeepsTerm(invoice, patch) ==
    [due |-> Resolved(invoice.issue, patch.due, patch.terms),
     terms |-> IF "terms" \in patch.fields THEN patch.terms ELSE invoice.terms]

\* update_terms: a date alone clears the term, a term alone gives the date, and
\* a term set to null leaves the date alone unless that is null too.
TermsAfter(invoice, patch) ==
    [due |-> IF patch.fields = {"terms"} /\ patch.terms = None THEN invoice.due
             ELSE Resolved(invoice.issue, patch.due, patch.terms),
     terms |-> patch.terms]

BeginTerms(r, i, patch) ==
    LET loaded == Columns(invoices[i], {"due", "terms"})
    IN  /\ invoices[i].type \in {"sale", "purchase"}
        /\ patch.fields # {}
        /\ Resolvable(invoices[i].issue, patch.due, patch.terms)
        /\ Begin(r, [op |-> "terms", id |-> i, loaded |-> loaded,
                     changes |-> Changes(loaded, TermsAfter(invoices[i], patch))])
        /\ UNCHANGED stamps

CommitTerms(r) ==
    LET q == requests[r]
    IN  /\ q.op = "terms"
        /\ invoices' = [invoices EXCEPT ![q.id] = Merged(@, q.changes)]
        /\ MarkStale("terms", q.id, invoices[q.id], q.loaded)
        /\ Done(r)
        /\ UNCHANGED <<parties, payments, journals, accounts, followups, snapshots, audit,
                       reports, stamps, arrivals>>

-----------------------------------------------------------------------------
(* Collection follow-ups *)

\* _validate_promise_date, and ck_collection_follow_ups_promise_date
PromiseDateValid(status, date) == (status = "promise_to_pay") <=> (date # None)
CheckConstraint_None(status, date) == TRUE         \* mutant
CheckConstraint(status, date) == PromiseDateValid(status, date)

\* _require_sales_invoice
Collectable(i) == invoices[i].type = "sale"

RecordFollowUp(form, i) ==
    /\ Room
    /\ Collectable(i)
    /\ PromiseDateValid(form.status, form.date)
    /\ stamps' = stamps + 1
    /\ followups' = Append(followups,
           [invoice |-> i, status |-> form.status, date |-> form.date, updated |-> stamps'])
    /\ UNCHANGED <<tables, snapshots, audit, requests, reports, stale, arrivals>>

\* update_followup: what the payload leaves out is taken from the loaded row for
\* the check, and is not written. The stamp is the now() of the transaction,
\* which began before the row was loaded.
BeginFollowUp(r, f, patch) ==
    LET loaded == Columns(followups[f], {"status", "date"})
        new == [c \in {"status", "date"} |->
                   IF c \in patch.fields THEN patch[c] ELSE loaded[c]]
    IN  /\ patch.fields # {}
        /\ "status" \in patch.fields => patch.status # None
        /\ PromiseDateValid(new.status, new.date)
        /\ stamps' = stamps + 1
        /\ Begin(r, [op |-> "followup", id |-> f, loaded |-> loaded,
                     changes |-> Changes(loaded, new), stamp |-> stamps'])

\* The CHECK constraint sees the row as the UPDATE leaves it. An update that
\* changes neither column may still change the note or who wrote it last: only
\* an UPDATE sets updated_at.
CommitFollowUp(r) ==
    LET q == requests[r]
        new == Merged(followups[q.id], q.changes)
        Write == followups' = [followups EXCEPT ![q.id] = [new EXCEPT !.updated = q.stamp]]
    IN  /\ q.op = "followup"
        /\ \/ CheckConstraint(new.status, new.date) /\ Write
           \/ /\ ~CheckConstraint(new.status, new.date) \/ DOMAIN q.changes = {}
              /\ UNCHANGED followups
        /\ Done(r)
        /\ UNCHANGED <<tables, snapshots, audit, reports, stale, stamps, arrivals>>

-----------------------------------------------------------------------------
(* Electronic evidence *)

Named(number) == {i \in DOMAIN invoices : invoices[i].type = "sale" /\ invoices[i].number = number}

BeginEvidence(r, file) ==
    /\ Begin(r, [op |-> "evidence", file |-> file, next |-> 1, accepted |-> <<>>,
                 duplicates |-> 0, rejected |-> 0])
    /\ UNCHANGED stamps

\* The outcome of a row: a number seen before in the file or evidence the
\* invoice has already is a duplicate; a missing number, a status no list
\* knows, or a number of no or of several sale invoices is rejected.
EvidenceRow(r, row) ==
    LET q == requests[r]
        i == CHOOSE j \in Named(row.number) : TRUE
        loaded == Columns(invoices[i], {"status", "reference"})
        new == Columns(row, {"status", "reference"})
    IN  CASE row.number = None -> [q EXCEPT !.rejected = @ + 1]
          [] \E m \in 1..(q.next - 1) : q.file[m].number = row.number ->
                [q EXCEPT !.duplicates = @ + 1]
          [] row.status \notin KnownStatuses \/ Cardinality(Named(row.number)) # 1 ->
                [q EXCEPT !.rejected = @ + 1]
          [] loaded = new -> [q EXCEPT !.duplicates = @ + 1]
          [] OTHER -> [q EXCEPT !.accepted = Append(@, [invoice |-> i, number |-> row.number,
                                                        loaded |-> loaded, new |-> new])]

ReadEvidence(r) ==
    LET q == requests[r]
    IN  /\ q.op = "evidence" /\ q.next <= Len(q.file)
        /\ requests' = [requests EXCEPT ![r] =
               [EvidenceRow(r, q.file[q.next]) EXCEPT !.next = @ + 1]]
        /\ UNCHANGED <<tables, followups, snapshots, audit, reports, stale, stamps, arrivals>>

\* A mutant of Evidenced: the reference is not taken over.
Evidenced_StatusOnly(invoice, row) == Merged(invoice, [status |-> row.new.status])
Evidenced(invoice, row) == Merged(invoice, Changes(row.loaded, row.new))

\* One commit for the invoices and for the audit rows.
CommitEvidence(r) ==
    LET q == requests[r]
        RowOf(i) == {n \in DOMAIN q.accepted : q.accepted[n].invoice = i}
        AcceptedRow(i) == q.accepted[CHOOSE n \in RowOf(i) : TRUE]
    IN  /\ q.op = "evidence" /\ q.next > Len(q.file)
        /\ invoices' = [i \in DOMAIN invoices |->
               IF RowOf(i) = {} THEN invoices[i] ELSE Evidenced(invoices[i], AcceptedRow(i))]
        /\ audit' = audit \o q.accepted
        /\ stale' = stale \cup {<<"evidence", i>> : i \in {j \in DOMAIN invoices :
               /\ RowOf(j) # {}
               /\ Columns(invoices[j], {"status", "reference"}) # AcceptedRow(j).loaded}}
        /\ Done(r)
        /\ UNCHANGED <<parties, payments, journals, accounts, followups, snapshots,
                       reports, stamps, arrivals>>

-----------------------------------------------------------------------------
(* The bank balances of a treasury report (_balance_snapshot_metrics): two *)
(* queries                                                                 *)

BeginTreasury(r) ==
    /\ Begin(r, [op |-> "treasury",
                 accounts |-> {a \in DOMAIN accounts : accounts[a].status = "active"}])
    /\ UNCHANGED stamps

LatestDay(a) == LET days == {s[2] : s \in {t \in snapshots : t[1] = a}}
                IN  CHOOSE d \in days : \A e \in days : e <= d

\* A mutant of Aligned: nobody looks whether every account is covered.
Aligned_Partial(active, covered) == Cardinality({LatestDay(a) : a \in covered}) = 1
Aligned(active, covered) ==
    /\ Cardinality(covered) = Cardinality(active)
    /\ Cardinality({LatestDay(a) : a \in covered}) = 1

\* The second query knows nothing of the accounts the first one found.
EndTreasury(r) ==
    LET active == requests[r].accounts
        covered == IF active = {} THEN {}
                   ELSE {s[1] : s \in {t \in snapshots : accounts[t[1]].status = "active"}}
    IN  /\ requests[r].op = "treasury"
        /\ reports' = reports \cup
               {[active |-> active, covered |-> covered,
                 cutoff |-> IF covered # {} /\ Aligned(active, covered)
                            THEN LatestDay(CHOOSE a \in covered : TRUE) ELSE None,
                 balances |-> {s \in snapshots : s[1] \in covered /\ s[2] = LatestDay(s[1])},
                 grown |-> active # {a \in DOMAIN accounts : accounts[a].status = "active"}]}
        /\ Done(r)
        /\ UNCHANGED <<tables, followups, snapshots, audit, stale, stamps, arrivals>>

\* The process stops, or an unforeseen error ends the request.
Abandon(r) ==
    /\ requests[r] # NoRequest
    /\ Done(r)
    /\ UNCHANGED <<tables, followups, snapshots, audit, reports, stale, stamps, arrivals>>

-----------------------------------------------------------------------------

Capture ==
    \/ \E form \in PartyForms : RecordParty(form)
    \/ \E form \in InvoiceForms : RecordInvoice(form)
    \/ \E form \in PaymentForms, i \in DOMAIN invoices \cup {None} : RecordPayment(form, i)
    \/ \E lines \in JournalForms : RecordJournal(lines)
    \/ RecordAccount
    \/ \E a \in DOMAIN accounts, day \in SnapshotDates : RecordSnapshot(a, day)
    \/ \E form \in FollowUpForms, i \in DOMAIN invoices : RecordFollowUp(form, i)

Update(r) ==
    \/ \E i \in DOMAIN invoices, patch \in TermsPatches : BeginTerms(r, i, patch)
    \/ \E f \in DOMAIN followups, patch \in FollowUpPatches : BeginFollowUp(r, f, patch)
    \/ \E file \in EvidenceFiles : BeginEvidence(r, file)
    \/ BeginTreasury(r)
    \/ CommitTerms(r) \/ CommitFollowUp(r) \/ ReadEvidence(r) \/ CommitEvidence(r)
    \/ EndTreasury(r) \/ Abandon(r)

Next == Capture \/ \E r \in Requests : Update(r)

Spec == Init /\ [][Next]_vars

-----------------------------------------------------------------------------
(* Properties *)

Request(q) ==
    CASE q.op = "none" -> TRUE
      [] q.op = "terms" -> q.id \in DOMAIN invoices
      [] q.op = "followup" -> q.id \in DOMAIN followups
      [] q.op = "evidence" ->
            /\ q.file \in EvidenceFiles
            /\ Len(q.accepted) + q.duplicates + q.rejected = q.next - 1
      [] q.op = "treasury" -> q.accounts \subseteq DOMAIN accounts
      [] OTHER -> FALSE

\* The shape of the tables: no amount of an invoice is negative and every payment
\* is positive, references are to rows that exist, a follow-up is of a sale, and
\* every row of a file has exactly one outcome so far.
TypeOK ==
    /\ \A i \in DOMAIN invoices :
          /\ invoices[i].type \in InvoiceTypes
          /\ {invoices[i].subtotal, invoices[i].tax, invoices[i].withholding, invoices[i].total}
                \subseteq Nat
          /\ invoices[i].lines \in Seq([quantity : Nat, price : Nat])
    /\ \A p \in DOMAIN payments : /\ payments[p].invoice \in DOMAIN invoices \cup {None}
                                  /\ payments[p].amount \in Nat \ {0}
    /\ \A f \in DOMAIN followups : /\ followups[f].invoice \in DOMAIN invoices
                                   /\ invoices[followups[f].invoice].type = "sale"
                                   /\ followups[f].updated \in 1..stamps
    /\ \A s \in snapshots : s[1] \in DOMAIN accounts /\ s[2] <= 0
    /\ \A r \in Requests : Request(requests[r])

\* An invoice that has a term of payment falls due that many days after its
\* issue, unless two updates of its terms overlapped: each then wrote only the
\* columns it changed (update_terms).
TermsAgree ==
    \A i \in DOMAIN invoices :
        /\ invoices[i].due # None => invoices[i].due >= invoices[i].issue
        /\ (invoices[i].terms # None /\ <<"terms", i>> \notin stale)
               => invoices[i].due = invoices[i].issue + invoices[i].terms

\* A follow-up promises a payment exactly when it has a date for it, also when
\* two requests change the status and the date of one follow-up at once.
PromiseHasDate ==
    \A f \in DOMAIN followups : PromiseDateValid(followups[f].status, followups[f].date)

\* The evidence an invoice shows is that of the last audit row accepted for it,
\* unless an import that overlapped another mixed their columns; and the row
\* was for its number.
EvidenceIsAudited ==
    \A n \in DOMAIN audit :
        LET i == audit[n].invoice
        IN  /\ invoices[i].number = audit[n].number
            /\ ((\A m \in (n + 1)..Len(audit) : audit[m].invoice # i)
                   /\ <<"evidence", i>> \notin stale)
                  => Columns(invoices[i], {"status", "reference"}) = audit[n].new

\* A single balance is reported only when it is one: each account that was
\* active has a verified balance of that day, and it is the latest of the
\* account. An account opened between the two queries may break it.
BalanceCoversAccounts ==
    \A report \in reports :
        (report.cutoff # None /\ ~report.grown) =>
            /\ report.balances = report.active \X {report.cutoff}
            /\ report.active # {}

=============================================================================
