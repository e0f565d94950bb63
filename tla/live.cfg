SPECIFICATION FairSpec
CONSTANTS
    Jobs = {j1}
    Workers = {w1, w2}
    Keys <- JobKeys
    TriggerTime <- OwnKey
    BadPayload = {}
    Unbuildable = {}
    SpringAnswers = {"answered", "lost", "down"}
    RcaOutcomes = {"result", "none", "error"}
    MaxRequeue = 1
    MaxStarts = 2
    MaxFaults = 1
    NoJob = NoJob
PROPERTIES
    RunningEnds
    DeliveringEnds
    ShutdownEnds
    AcceptedSettles
