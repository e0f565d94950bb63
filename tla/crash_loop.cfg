SPECIFICATION SpecCut
CONSTANTS
    Jobs = {j1}
    Workers = {w1}
    Keys = {j1}
    TriggerTime <- OwnKey
    BadPayload = {}
    Unbuildable = {}
    SpringAnswers = {"answered"}
    RcaOutcomes = {"result"}
    MaxRequeue = 1
    MaxStarts = 4
    MaxFaults = 0
    NoJob = NoJob
INVARIANTS
    CrashLoopBounded
