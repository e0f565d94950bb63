SPECIFICATION FairSpec
CONSTANTS
    Jobs = {j1}
    Workers = {w1}
    Keys <- JobKeys
    TriggerTime <- OwnKey
    BadPayload = {}
    Unbuildable = {j1}
    SpringAnswers = {"answered", "lost", "down"}
    RcaOutcomes = {"result", "error"}
    MaxRequeue = 1
    MaxStarts = 1
    MaxFaults = 0
    NoJob = NoJob
PROPERTIES
    DeliveringEnds
