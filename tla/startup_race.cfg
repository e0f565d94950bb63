SPECIFICATION Spec
CONSTANTS
    Jobs = {j1}
    Workers = {w1, w2}
    Keys <- JobKeys
    TriggerTime <- OwnKey
    BadPayload = {}
    Unbuildable = {}
    SpringAnswers = {"answered", "lost", "down"}
    RcaOutcomes = {"result", "error"}
    MaxRequeue = 1
    MaxStarts = 2
    MaxFaults = 0
    NoJob = NoJob
INVARIANTS
    StartupTakesOrphans
