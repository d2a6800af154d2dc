SPECIFICATION Spec
CONSTANTS
    Documents = {d1, d2}
    Jobs = {j1, j2, j3}
    Workers = {w1}
    NoDocument = NoDocument
    NoJob = NoJob
    MaxNumber = 2
    MaxAttempts = 2
    MaxCrashes = 0
    MaxOverruns = 0
SYMMETRY Symmetric
INVARIANTS
    ReuseIsCorrection
CHECK_DEADLOCK FALSE
