SPECIFICATION Spec
CONSTANTS
    Documents = {d1}
    Jobs = {j1, j2, j3}
    Workers = {w1, w2}
    NoDocument = NoDocument
    NoJob = NoJob
    MaxNumber = 1
    MaxAttempts = 2
    MaxCrashes = 0
    MaxOverruns = 1
SYMMETRY Symmetric
PROPERTIES
    ReviewStays
CHECK_DEADLOCK FALSE
