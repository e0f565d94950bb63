SPECIFICATION Spec
CONSTANTS
    Entries <- SmallEntries
    Contexts <- SmallContexts
    Times <- SmallTimes
    Norm <- SmallNorm
    Sizes = {3}
    Width = 4
    Notice = 1
    limit = 14
    TriggerWindow = 3
    HighlightCap = 2
    ExemplarLimit = 1
INVARIANT ErrorsAreFacts
CHECK_DEADLOCK FALSE
