SPECIFICATION Spec

CONSTANTS
    PhaseCount = 3
    ChargerMax = 4
    MaxTime = 3
    MaxPosts = 2
    Gen <- MCGen
    Readings <- MCReadings
    Successes <- MCSuccesses
    Requests <- MCRequests
    InitialSettings <- MCInitialSettings

INVARIANTS
    TypeOK
    OfferWithinBreaker

PROPERTIES
    ScheduledSwitch
    CatchesUp
    PostAtomic
