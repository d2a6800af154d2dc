SPECIFICATION Spec
CONSTANTS
    Sources = {s1}
    Jobs = {j1, j2}
    Workers = {w1}
    Requests = {r1, r2}
    NoSource = NoSource
    NoJob = NoJob
    NumPages = 2
    MaxAttempts = 2
    RetryBase = 1
    RetryMax = 1
    LeaseTicks = 1
    MaxSaves = 2
    MaxCrashes = 0
    MaxOverruns = 0
SYMMETRY Symmetric
INVARIANTS
    ActiveMeansTested
