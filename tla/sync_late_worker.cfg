SPECIFICATION Spec
CONSTANTS
    Sources = {s1}
    Jobs = {j1}
    Workers = {w1, w2}
    Requests = {r1}
    NoSource = NoSource
    NoJob = NoJob
    NumPages = 3
    MaxAttempts = 2
    RetryBase = 1
    RetryMax = 1
    LeaseTicks = 1
    MaxSaves = 1
    MaxCrashes = 0
    MaxOverruns = 1
SYMMETRY Symmetric
PROPERTIES
    CursorOnlyAdvances
