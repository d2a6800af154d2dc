SPECIFICATION Spec
CONSTANTS
    None = None
    Requests = {r1, r2}
    PartyForms <- MCParties
    InvoiceForms <- MCInvoices
    PaymentForms <- MCPayments
    JournalForms <- MCJournals
    FollowUpForms <- MCFollowUps
    TermsPatches <- MCTerms
    FollowUpPatches <- MCFollowUpPatches
    EvidenceFiles <- MCEvidence
    SnapshotDates = {0}
    BankStates <- MCBank
    YearDays <- MCYear
    MaxTerms = 3650
    MaxRecords = 3
    MaxArrivals = 2
    MaxWork = 4
SYMMETRY Symmetry
INVARIANTS
    TermsAgree
    PromiseHasDate
    EvidenceIsAudited
    BalanceCoversAccounts
    ReportsAgree
    DiagnosesAreSound
CHECK_DEADLOCK FALSE
