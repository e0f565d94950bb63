SPECIFICATION Spec
CONSTANTS
    Entries <- WideEntries
    Contexts <- WideContexts
    Times <- WideTimes
    Norm <- SmallNorm
    Sizes = {5}
    Width = 4
    Notice = 1
    limit = 14
    TriggerWindow = 3
    HighlightCap = 2
    ExemplarLimit = 1
INVARIANT AroundTrigger
CHECK_DEADLOCK FALSE
