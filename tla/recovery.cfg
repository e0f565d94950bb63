SPECIFICATION SpecCut
CONSTANTS
    Jobs = {j1}
    Workers = {w1, w2}
    Keys <- JobKeys
    TriggerTime <- OwnKey
    BadPayload = {}
    Unbuildable = {}
    SpringAnswers = {"answered", "lost", "down", "unauthorized"}
    RcaOutcomes = {"result", "error"}
    MaxRequeue = 1
    MaxStarts = 4
    MaxFaults = 1
    NoJob = NoJob
INVARIANTS
    TypeOK
    DeliveringHasResult
    
    PendingHasCarrier
    WaitsOnce
    AnalysisCrashesBounded
SYMMETRY WorkerSymmetry
