SPECIFICATION FairPayload
CONSTANTS
    Entries <- SmallEntries
    Times <- SmallTimes
    Zones <- SmallZones
    Sizes = {0, 2, 5}
    cap = 3
    MaxSends = 2
INVARIANTS
    TypeOK
    CapFilled
    NoFavourites
    WorstKept
    
    
    
PROPERTIES
    Terminates
CHECK_DEADLOCK FALSE
