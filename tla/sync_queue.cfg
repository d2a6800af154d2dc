SPECIFICATION Spec
CONSTANTS
    Sources = {s1}
    Jobs = {j1, j2}
    Workers = {w1, w2}
    Requests = {r1}
    NoSource = NoSource
    NoJob = NoJob
    NumPages = 2
    MaxAttempts = 1
    RetryBase = 1
    RetryMax = 1
    LeaseTicks = 1
    MaxSaves = 2
    MaxCrashes = 0
    MaxOverruns = 1
SYMMETRY Symmetric
INVARIANTS
    OneActiveJob
    PartiesInsertedOnce
    ActiveMeansTested
PROPERTIES
    OnlyCurrentSecret
