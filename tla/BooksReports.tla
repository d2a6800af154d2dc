----------------------------- MODULE BooksReports -----------------------------
(***************************************************************************)
(* The read-only diagnoses of the books: accounting health, receivables,   *)
(* payables, the lists of open items, cash flow, treasury, exogenous in-   *)
(* formation and electronic invoicing. Each is computed from the tables by *)
(* queries of its own, so that what two of them say of the same books is   *)
(* not the same computation. The day of a report is day 0, its tax year    *)
(* YearDays. Reports say counts, amounts and findings, a finding being a   *)
(* code with its severity.                                                 *)
(***************************************************************************)
EXTENDS Books, FiniteSetsExt

CONSTANTS
    YearDays,       \* the days of the tax year
    BankStates      \* what the bank's movements may be: each a sequence of
                    \* records of a status and a number of candidates

PartyFields == {"type", "number", "city", "address"}
ASSUME PartiesAssumption == \A form \in PartyForms : form.has \subseteq PartyFields
ASSUME BankAssumption ==
    BankStates \subseteq Seq([status : {"pending", "suggested", "reconciled", "excluded",
                                        "dismissed"}, candidates : Nat])

Currencies == {invoices[i].currency : i \in DOMAIN invoices}
Count(S) == Cardinality(S)
Finding(holds, severity, code) == IF holds THEN {<<severity, code>>} ELSE {}
\* _summary of every report.
Status(findings) ==
    IF \E f \in findings : f[1] = "critical" THEN "critical"
    ELSE IF \E f \in findings : f[1] = "warning" THEN "needs_attention"
    ELSE "healthy"

-----------------------------------------------------------------------------
(* Balances: every report joins payments and invoices of the same currency *)

OfType(type) == {i \in DOMAIN invoices : invoices[i].type = type}
Matching(i) == {p \in DOMAIN payments : /\ payments[p].invoice = i
                                        /\ payments[p].currency = invoices[i].currency}
Amounts == [p \in DOMAIN payments |-> payments[p].amount]
Paid(i) == SumFunctionOnSet(Amounts, Matching(i))
Outstanding(i) == invoices[i].total - Paid(i)
Amount(S, c) == SumFunctionOnSet([i \in DOMAIN invoices |-> Outstanding(i)],
                                 {i \in S : invoices[i].currency = c})
Mismatched(S) == {p \in DOMAIN payments :
    /\ payments[p].invoice \in S
    /\ payments[p].currency # invoices[payments[p].invoice].currency}

-----------------------------------------------------------------------------
(* Receivables and payables *)

Buckets == {"missing_due_date", "not_due", "due_today", "overdue_1_30", "overdue_31_60",
            "overdue_61_90", "overdue_91_plus"}
Bucket_OffByOne(due) ==         \* mutant: the ninetieth day goes with the next bucket
    IF due = None THEN "missing_due_date" ELSE
    CASE due > 0 -> "not_due"
      [] due = 0 -> "due_today"
      [] -due \in 1..30 -> "overdue_1_30"
      [] -due \in 31..60 -> "overdue_31_60"
      [] -due \in 61..89 -> "overdue_61_90"
      [] OTHER -> "overdue_91_plus"
Bucket(due) ==
    IF due = None THEN "missing_due_date" ELSE
    CASE due > 0 -> "not_due"
      [] due = 0 -> "due_today"
      [] -due \in 1..30 -> "overdue_1_30"
      [] -due \in 31..60 -> "overdue_31_60"
      [] -due \in 61..90 -> "overdue_61_90"
      [] OTHER -> "overdue_91_plus"
DaysOverdue(due) == IF due = None THEN None ELSE IF due > 0 THEN 0 ELSE -due

Unpaid(S) == {i \in S : invoices[i].total > 0 /\ Paid(i) = 0}
Partial(S) == {i \in S : Paid(i) > 0 /\ Outstanding(i) > 0}
Overpaid(S) == {i \in S \ (Unpaid(S) \cup Partial(S)) : Paid(i) > invoices[i].total}
LatestPayment(i) == Max({payments[p].date : p \in Matching(i)})
Settled(S) == {i \in S : /\ invoices[i].total > 0 /\ Paid(i) >= invoices[i].total
                         /\ Matching(i) # {} /\ LatestPayment(i) >= invoices[i].issue}

\* The balances of _metrics, for the invoices of one type.
Balances(type) ==
    LET S == OfType(type)
        open == {i \in S : Outstanding(i) > 0}
        late == {i \in open : /\ Bucket(invoices[i].due) \notin {"due_today", "missing_due_date"}
                              /\ DaysOverdue(invoices[i].due) > 0}
    IN  [unpaid |-> Count(Unpaid(S)), partial |-> Count(Partial(S)),
         overpaid |-> Count(Overpaid(S)), settled |-> Count(Settled(S)),
         open |-> Count(Unpaid(S)) + Count(Partial(S)),
         missing |-> Count({i \in S : invoices[i].due = None}),
         dueToday |-> Count({i \in open : Bucket(invoices[i].due) = "due_today"}),
         overdue |-> Count(late),
         serious |-> Count({i \in late : DaysOverdue(invoices[i].due) > 90}),
         outstanding |-> [c \in Currencies |-> Amount(open, c)],
         aging |-> [b \in Buckets |-> {i \in open : Bucket(invoices[i].due) = b}],
         mismatched |-> Count(Mismatched(S))]

\* Of every open invoice the follow-up written last counts (_followup_metrics,
\* _latest_followups).
Latest(i) ==
    {f \in DOMAIN followups : /\ followups[f].invoice = i
                              /\ \A g \in DOMAIN followups : followups[g].invoice = i =>
                                     followups[g].updated <= followups[f].updated}
Promises ==
    LET latest == UNION {Latest(i) : i \in {j \in OfType("sale") : Outstanding(j) > 0}}
        promised == {f \in latest : followups[f].status = "promise_to_pay"}
        broken == {f \in promised : followups[f].date # None /\ followups[f].date < 0}
    IN  [pending |-> Count({f \in latest : followups[f].status = "pending"}),
         broken |-> Count(broken), open |-> Count(promised \ broken)]

\* The findings that ReceivablesService and PayablesService share, ...
BalanceFindings(type) ==
    LET m == Balances(type)
    IN  UNION {Finding(OfType(type) = {}, "info", "NO_INVOICES"),
               Finding(m.unpaid > 0, "warning", "UNPAID"),
               Finding(m.partial > 0, "warning", "PARTIALLY_PAID"),
               Finding(m.overpaid > 0, "warning", "OVERPAID"),
               Finding(m.missing > 0, "warning", "MISSING_DUE_DATE"),
               Finding(m.overdue > 0, "warning", "OVERDUE"),
               Finding(m.serious > 0, "critical", "SERIOUSLY_OVERDUE"),
               Finding(\E i \in OfType(type) : ~invoices[i].party, "warning", "WITHOUT_PARTY"),
               Finding(m.mismatched > 0, "info", "CURRENCY_MISMATCH")}
\* ... and those of the promises.
ReceivablesFindings ==
    BalanceFindings("sale")
    \cup Finding(Promises.broken > 0, "warning", "BROKEN_PAYMENT_PROMISES")
    \cup Finding(Promises.open > 0, "info", "OPEN_PAYMENT_PROMISES")
PayablesFindings == BalanceFindings("purchase")

\* open_items: the query behind the two lists counts and sums in the database.
OpenItems(type) == {i \in OfType(type) : Paid(i) < invoices[i].total}

\* The order of the list: first what falls due first, without a date last.
Precedes(i, j) ==
    LET key(k) == IF invoices[k].due = None THEN <<1, 0>> ELSE <<0, invoices[k].due>>
    IN  \/ key(i)[1] < key(j)[1]
        \/ key(i)[1] = key(j)[1] /\ key(i)[2] < key(j)[2]
        \/ key(i) = key(j) /\ invoices[i].issue < invoices[j].issue
        \/ key(i) = key(j) /\ invoices[i].issue = invoices[j].issue /\ i < j
PageOf(type, limit, offset) ==
    LET open == OpenItems(type)
        Before(i) == Count({j \in open : Precedes(j, i)})
    IN  {i \in open : Before(i) >= offset /\ Before(i) < offset + limit}

-----------------------------------------------------------------------------
(* Cash flow and treasury *)

Periods == {"overdue", "due_today", "next_7_days", "days_8_30", "days_31_60",
            "days_61_90", "beyond_90"}
Period(due) ==
    CASE due < 0 -> "overdue"
      [] due = 0 -> "due_today"
      [] due \in 1..7 -> "next_7_days"
      [] due \in 8..30 -> "days_8_30"
      [] due \in 31..60 -> "days_31_60"
      [] due \in 61..90 -> "days_61_90"
      [] OTHER -> "beyond_90"
\* _period_dates: the first and the last day a period is said to cover.
PeriodDates(period) ==
    CASE period = "overdue" -> <<None, -1>>
      [] period = "due_today" -> <<0, 0>>
      [] period = "next_7_days" -> <<1, 7>>
      [] period = "days_8_30" -> <<8, 30>>
      [] period = "days_31_60" -> <<31, 60>>
      [] period = "days_61_90" -> <<61, 90>>
      [] OTHER -> <<91, None>>
ThirtyDays == {"overdue", "due_today", "next_7_days", "days_8_30"}
NinetyDays == Periods \ {"beyond_90"}

Flow(type, period) == {i \in OpenItems(type) : /\ invoices[i].due # None
                                               /\ Period(invoices[i].due) = period}
Scheduled(type) == UNION {Flow(type, period) : period \in Periods}
Undated(type) == {i \in OpenItems(type) : invoices[i].due = None}
\* Inflows or outflows over some periods, summed period by period.
Projected(type, periods, c) ==
    SumFunctionOnSet([period \in Periods |-> Amount(Flow(type, period), c)], periods)
Net(periods, c) == Projected("sale", periods, c) - Projected("purchase", periods, c)

CashFlowFindings ==
    UNION {Finding(OpenItems("sale") \cup OpenItems("purchase") = {}, "info", "NO_OPEN_ITEMS"),
           Finding(Undated("sale") \cup Undated("purchase") # {}, "warning", "MISSING_DUE_DATE"),
           Finding(\E c \in Currencies : Net(NinetyDays, c) < 0, "warning", "NEGATIVE_NET"),
           Finding(Flow("sale", "overdue") # {}, "info", "OVERDUE_NOT_CONFIRMED")}


\* What BankReconciliationAnalysisService counts in the statuses and candidate
\* counts of the movements of the bank.
BankCounts(movements) ==
    LET With(status) == {t \in DOMAIN movements : movements[t].status = status}
        eligible == Count(DOMAIN movements) - Count(With("excluded"))
    IN  [pending |-> Count(With("pending")), suggested |-> Count(With("suggested")),
         ambiguous |-> Count({t \in With("pending") : movements[t].candidates > 1}),
         unmatched |-> Count({t \in With("pending") : movements[t].candidates = 0}
                             \cup With("dismissed")),
         rate |-> IF eligible = 0 THEN 0 ELSE (Count(With("reconciled")) * 100) \div eligible]
BankFindings(movements) ==
    LET m == BankCounts(movements)
    IN  UNION {Finding(accounts = <<>>, "info", "NO_BANK_ACCOUNTS_CONFIGURED"),
               Finding(accounts # <<>> /\ DOMAIN movements = {}, "info", "NO_TRANSACTIONS"),
               Finding(m.suggested > 0, "warning", "REQUIRE_HUMAN_REVIEW"),
               Finding(m.ambiguous > 0, "warning", "AMBIGUOUS"),
               Finding(m.unmatched > 0, "warning", "UNMATCHED")}

\* TreasuryService._findings, from what EndTreasury found of the balances.
TreasuryFindings(movements, report) ==
    LET m == BankCounts(movements)
        balance == CASE report.cutoff # None -> <<"info", "BALANCE_AVAILABLE">>
                     [] report.covered = {} -> <<"warning", "REQUIRES_BALANCE">>
                     [] Count(report.active) # Count(report.covered) ->
                            <<"warning", "BALANCE_INCOMPLETE">>
                     [] OTHER -> <<"warning", "CUTS_NOT_ALIGNED">>
    IN  UNION {{balance, <<"info", "REQUIRES_HUMAN_REVIEW">>},
               Finding(accounts = <<>> \/ DOMAIN movements = {}, "warning", "BANK_DATA_UNAVAILABLE"),
               Finding(m.pending + m.suggested + m.unmatched + m.ambiguous > 0,
                       "warning", "RECONCILIATION_REQUIRES_REVIEW"),
               Finding(Undated("sale") \cup Undated("purchase") # {}, "warning", "MISSING_DUE_DATE"),
               Finding(\E c \in Currencies : Net(ThirtyDays, c) < 0, "warning", "NEGATIVE_NET_30D"),
               Finding(Flow("sale", "overdue") # {}, "info", "OVERDUE_ARE_UNCERTAIN")}

-----------------------------------------------------------------------------
(* Accounting health *)

TotalMismatch(S) == {i \in S : invoices[i].total #
                        invoices[i].subtotal + invoices[i].tax - invoices[i].withholding}
LineSum(i) ==
    LET lines == invoices[i].lines
    IN  Rounded(SumFunction([n \in DOMAIN lines |-> lines[n].quantity * lines[n].price]), 1000000)
SubtotalMismatch == {i \in DOMAIN invoices : /\ invoices[i].lines # <<>>
                                             /\ invoices[i].subtotal # LineSum(i)}
\* Only invoices that payments join are looked at.
OverpaidInvoices == {i \in DOMAIN invoices : /\ Matching(i) # {}
                                             /\ Paid(i) > invoices[i].total}
Unbalanced == {j \in DOMAIN journals :
    LET lines == journals[j].lines
    IN  SumFunction([n \in DOMAIN lines |-> lines[n].debit])
            # SumFunction([n \in DOMAIN lines |-> lines[n].credit])}
BothSides == {j \in DOMAIN journals : \E n \in DOMAIN journals[j].lines :
    journals[j].lines[n].debit > 0 /\ journals[j].lines[n].credit > 0}
Identified(p) == "type" \in parties[p].has /\ "number" \in parties[p].has
\* _duplicate_party_documents
DuplicateDocuments == {p \in DOMAIN parties : Identified(p) /\ \E q \in DOMAIN parties \ {p} :
                          Identified(q) /\ parties[q].document = parties[p].document}

\* The findings, given the statuses of the sources, the rejected rows of the
\* imports of the company and how many of its items have no ledger account.
HealthFindings(sources, rejectedRows, itemsWithoutAccount) ==
    UNION {Finding("active" \notin sources, "info", "NO_ACTIVE_DATA_SOURCE"),
           Finding(parties = <<>> /\ invoices = <<>> /\ payments = <<>> /\ journals = <<>>,
                   "info", "NO_ACCOUNTING_DATA"),
           Finding(sources \cap {"failed", "disabled"} # {}, "warning", "SOURCE_NOT_READY"),
           Finding(rejectedRows > 0, "warning", "IMPORT_REJECTIONS"),
           Finding(\E p \in DOMAIN parties : ~Identified(p), "warning", "PARTIES_MISSING_TAX_ID"),
           Finding(DuplicateDocuments # {}, "warning", "DUPLICATE_PARTY_DOCUMENT"),
           Finding(itemsWithoutAccount > 0, "warning", "ITEMS_WITHOUT_LEDGER_ACCOUNT"),
           Finding(\E i \in OfType("sale") \cup OfType("purchase") : ~invoices[i].party,
                   "warning", "PARTY_MISSING"),
           Finding(\E i \in DOMAIN invoices : invoices[i].lines = <<>>, "warning", "NO_LINES"),
           Finding(SubtotalMismatch # {}, "warning", "INVOICE_SUBTOTAL_MISMATCH"),
           Finding(TotalMismatch(DOMAIN invoices) # {}, "warning", "INVOICE_TOTAL_MISMATCH"),
           Finding(\E p \in DOMAIN payments : payments[p].invoice = None, "info",
                   "UNLINKED_PAYMENTS"),
           Finding(\E p \in DOMAIN payments : /\ payments[p].invoice # None
                       /\ payments[p].date < invoices[payments[p].invoice].issue,
                   "warning", "PAYMENTS_BEFORE_INVOICE"),
           Finding(OverpaidInvoices # {}, "warning", "OVERPAID_INVOICES"),
           Finding(Unbalanced # {}, "critical", "UNBALANCED_JOURNAL"),
           Finding(\E j \in DOMAIN journals : journals[j].lines = <<>>, "critical",
                   "JOURNALS_WITHOUT_LINES"),
           Finding(BothSides # {}, "critical", "JOURNAL_LINES_WITH_BOTH_SIDES")}

-----------------------------------------------------------------------------
(* Electronic invoicing: the diagnosis and the list of exceptions read the *)
(* status with two normalisations; only the list's takes accents off and   *)
(* reads repeated separators as one                                        *)

StatusInReport(i) == IF invoices[i].status \in KnownStatuses THEN invoices[i].status ELSE "none"
StatusInList(i) == IF invoices[i].status = "accented" THEN "accepted" ELSE StatusInReport(i)

ElectronicFindings ==
    LET S == OfType("sale")
        Some(status) == \E i \in S : StatusInReport(i) = status
    IN  UNION {{<<"info", "DIAN_CONNECTION_NOT_CONFIGURED">>},
               Finding(S = {}, "info", "NO_SALES_INVOICES"),
               Finding(Some("rejected"), "critical", "ELECTRONIC_INVOICES_REJECTED"),
               Finding(Some("pending"), "warning", "ELECTRONIC_INVOICES_PENDING"),
               Finding(Some("none"), "warning", "ELECTRONIC_STATUS_MISSING"),
               Finding(\E i \in S : invoices[i].reference = None, "warning", "REFERENCE_MISSING"),
               Finding(\E i \in S : invoices[i].number = None, "warning", "MISSING_NUMBER"),
               Finding(\E i \in S : ~invoices[i].party, "warning", "WITHOUT_RECIPIENT"),
               Finding(TotalMismatch(S) # {}, "critical", "TOTAL_MISMATCH"),
               Finding(\E i \in S : invoices[i].issue > 0, "warning", "FUTURE_DATED")}

\* exceptions and _exception_item: the invoices with a code.
Exceptions ==
    {i \in OfType("sale") : \/ StatusInList(i) # "accepted"
                            \/ invoices[i].reference = None \/ invoices[i].number = None
                            \/ ~invoices[i].party \/ i \in TotalMismatch({i})
                            \/ invoices[i].issue > 0}

-----------------------------------------------------------------------------
(* Exogenous information of a tax year *)

YearInvoices == {i \in DOMAIN invoices : invoices[i].issue \in YearDays}
YearPayments == {p \in DOMAIN payments : payments[p].date \in YearDays}
MissingField(field) == {p \in DOMAIN parties : field \notin parties[p].has}

ExogenousFindings ==
    UNION {{<<"info", "OFFICIAL_RULES_NOT_CONFIGURED">>, <<"info", "OFFICIAL_FILES_NOT_GENERATED">>},
           Finding(parties = <<>>, "warning", "NO_PARTIES_REGISTERED"),
           Finding(MissingField("type") \cup MissingField("number") # {}, "critical",
                   "PARTIES_MISSING_IDENTIFICATION"),
           Finding(MissingField("city") \cup MissingField("address") # {}, "warning",
                   "PARTIES_MISSING_LOCATION"),
           Finding(\E i \in YearInvoices : invoices[i].number = None \/ ~invoices[i].party,
                   "warning", "INVOICES_MISSING_TRACEABILITY"),
           Finding(TotalMismatch(YearInvoices) # {}, "critical", "INVOICES_WITH_TOTAL_MISMATCH"),
           Finding(\E p \in YearPayments : payments[p].invoice = None, "warning",
                   "PAYMENTS_WITHOUT_INVOICE"),
           Finding(YearInvoices \cup YearPayments = {}, "info", "NO_FISCAL_YEAR_MOVEMENTS")}

\* exceptions: the records of the year with a code.
ExogenousExceptions ==
    {<<"party", p>> : p \in {q \in DOMAIN parties : parties[q].has # PartyFields}}
    \cup {<<"invoice", i>> : i \in {j \in YearInvoices :
             invoices[j].number = None \/ ~invoices[j].party \/ j \in TotalMismatch({j})}}
    \cup {<<"payment", p>> : p \in {q \in YearPayments : payments[q].invoice = None}}

-----------------------------------------------------------------------------
(* Properties *)

\* The reports agree on what is open: the diagnosis of receivables (and of
\* payables) classifies as unpaid or partially paid exactly what the list of
\* open items and the cash flow query select, its buckets hold each of them
\* once, the amounts of the buckets add up to the outstanding balance, and the
\* cash flow schedules or reports as undated every one of them.
OpenItemsAgree ==
    \A type \in {"sale", "purchase"} :
        LET m == Balances(type)
        IN  /\ m.open = Count(OpenItems(type))
            /\ m.open = SumFunctionOnSet([b \in Buckets |-> Count(m.aging[b])], Buckets)
            /\ \A c \in Currencies :
                  m.outstanding[c] = SumFunctionOnSet(
                      [b \in Buckets |-> Amount(m.aging[b], c)], Buckets)
            /\ Count(Scheduled(type)) + Count(Undated(type)) = m.open
            /\ m.overdue = Count(Flow(type, "overdue"))
            /\ m.dueToday = Count(Flow(type, "due_today"))

\* An invoice is more than ninety days late, and the diagnosis critical, exactly
\* when it is in the last bucket: the two are decided by separate comparisons.
SeriouslyOverdueIsLastBucket ==
    \A type \in {"sale", "purchase"} :
        LET last == Balances(type).aging["overdue_91_plus"]
        IN  /\ Balances(type).serious = Count(last)
            /\ Status(BalanceFindings(type)) = "critical" <=> last # {}

\* Money in another currency never settles an invoice: what is settled or over-
\* paid has received its total in its own currency, and of sales and purchases
\* accounting health, which looks at the notes and support documents too, finds
\* as many overpaid as receivables and payables together.
PaymentsCountInTheirCurrency ==
    LET received(i) == SumFunctionOnSet(Amounts,
            {p \in DOMAIN payments : /\ payments[p].invoice = i
                                     /\ payments[p].currency = invoices[i].currency})
    IN  /\ Count(OverpaidInvoices \cap (OfType("sale") \cup OfType("purchase")))
              = Balances("sale").overpaid + Balances("purchase").overpaid
        /\ \A i \in DOMAIN invoices :
              i \in Settled({i}) \cup OverpaidInvoices => received(i) >= invoices[i].total

Covers(dates, day) == /\ dates[1] # None => dates[1] <= day
                      /\ dates[2] # None => day <= dates[2]

\* The thirty days of treasury are part of the ninety of the cash flow, with
\* the same amounts: they differ by what falls due on days 31 to 90, each
\* invoice is within the days its period is labelled with, and no amount is
\* projected that is not outstanding.
HorizonsNest ==
    \A type \in {"sale", "purchase"} :
        LET open == OpenItems(type)
        IN  /\ \A period \in Periods : \A i \in Flow(type, period) :
                  Covers(PeriodDates(period), invoices[i].due)
            /\ \A c \in Currencies :
                  LET ninety == Projected(type, NinetyDays, c)
                  IN  /\ ninety <= Amount(open, c)
                      /\ ninety - Projected(type, ThirtyDays, c)
                            = Amount({i \in open : invoices[i].due \in 31..90}, c)

\* Every open item is on exactly one page of the list, whatever the page size.
PagesPartitionOpenItems ==
    \A type \in {"sale", "purchase"}, limit \in 1..2 :
        LET pages == [n \in 0..(Len(invoices) - 1) |-> PageOf(type, limit, n * limit)]
        IN  \A i \in OpenItems(type) : Count({n \in DOMAIN pages : i \in pages[n]}) = 1

\* A promise is open or broken, never both, and only the latest follow-up of an
\* open invoice is counted: their number never exceeds that of the open items,
\* and a promise no other follow-up is later than counts while its sale is open.
PromisesAreOfOpenItems ==
    /\ Promises.broken + Promises.open + Promises.pending <= Count(OpenItems("sale"))
    /\ \A f \in DOMAIN followups :
          (/\ \A g \in DOMAIN followups : followups[g].updated <= followups[f].updated
           /\ followups[f].status = "promise_to_pay"
           /\ followups[f].invoice \in OpenItems("sale"))
              => Promises.broken + Promises.open > 0

\* What a capture stores is sound for the diagnoses: no total ever differs from
\* its parts, and with prices in whole cents and quantities in whole millionths
\* neither does a subtotal from its lines nor a debit from a credit, so health is critical only for journals
\* that were sent with fractions of a cent.
CapturesAreSound ==
    /\ TotalMismatch(DOMAIN invoices) = {}
    /\ \A i \in SubtotalMismatch : ~invoices[i].exact
    /\ \A j \in Unbalanced : ~journals[j].exact
    /\ Status(HealthFindings({"active"}, 0, 0)) = "critical" => \E j \in DOMAIN journals :
          ~journals[j].exact

\* The diagnoses of electronic invoicing and of exogenous information ask for
\* attention exactly when their lists of exceptions have something to show,
\* but for a status that only one of them takes the accents off.
ListsMatchDiagnoses ==
    /\ (\A i \in DOMAIN invoices : invoices[i].status # "accented") =>
          (Exceptions # {} <=> Status(ElectronicFindings) # "healthy")
    /\ parties # <<>> =>
          (ExogenousExceptions # {} <=> Status(ExogenousFindings) # "healthy")

\* Receivables that are called healthy are: every sale is settled to the cent
\* and dated, and no promise is broken.
HealthyMeansCollected ==
    Status(ReceivablesFindings) = "healthy" =>
        /\ \A i \in OfType("sale") : Outstanding(i) = 0 /\ invoices[i].due # None
        /\ Promises.broken = 0

DueBy(type, day) == {i \in OpenItems(type) : invoices[i].due # None /\ invoices[i].due <= day}

\* Treasury that is called healthy is: one verified balance covers the accounts,
\* every movement of the bank is reconciled or excluded, every open item has a
\* date, and no currency has more to pay than to receive of what falls due in
\* thirty days. It is never healthy while the diagnosis of bank reconciliation
\* is not.
HealthyMeansConfirmed ==
    \A report \in reports, movements \in BankStates :
        Status(TreasuryFindings(movements, report)) = "healthy" =>
            /\ report.cutoff # None
            /\ \A t \in DOMAIN movements : movements[t].status \in {"reconciled", "excluded"}
            /\ \A i \in OfType("sale") \cup OfType("purchase") :
                  Outstanding(i) > 0 => invoices[i].due # None
            /\ \A c \in Currencies :
                  Amount(DueBy("purchase", 30), c) <= Amount(DueBy("sale", 30), c)
            /\ Status(BankFindings(movements)) = "healthy"

\* The reports of one set of books do not contradict each other.
ReportsAgree ==
    /\ OpenItemsAgree /\ SeriouslyOverdueIsLastBucket /\ PaymentsCountInTheirCurrency
    /\ HorizonsNest /\ PagesPartitionOpenItems /\ PromisesAreOfOpenItems
    /\ ListsMatchDiagnoses

\* A diagnosis that finds nothing wrong is right about the books, and none is
\* wrong about what a capture stored.
DiagnosesAreSound == CapturesAreSound /\ HealthyMeansCollected /\ HealthyMeansConfirmed

=============================================================================
