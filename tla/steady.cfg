SPECIFICATION Spec
CONSTANTS
    Jobs = {j1, j2}
    Workers = {w1, w2}
    Keys <- JobKeys
    TriggerTime <- OwnKey
    BadPayload = {j2}
    Unbuildable = {}
    SpringAnswers = {"answered", "lost", "down"}
    RcaOutcomes = {"result", "error"}
    MaxRequeue = 1
    MaxStarts = 1
    MaxFaults = 2
    NoJob = NoJob
INVARIANTS
    FileKept
    AtMostOneCopy
    RowAndSpringAgree
PROPERTIES
    LifecycleSpec
