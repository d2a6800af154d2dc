SPECIFICATION Spec
CONSTANTS
    Documents = {d1, d2}
    Jobs = {j1, j2, j3}
    Workers = {w1, w2}
    NoDocument = NoDocument
    NoJob = NoJob
    MaxNumber = 2
    MaxAttempts = 2
    MaxCrashes = 1
    MaxOverruns = 1
SYMMETRY Symmetric
VIEW ReadState
CONSTRAINT OneFault
INVARIANTS
    SentOnce
    RejectedBeforeReuse
    OpenIffActive
PROPERTIES
    KeepsPromise
    VerdictStays
CHECK_DEADLOCK FALSE
