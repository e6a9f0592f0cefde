SPECIFICATION Spec

CONSTANTS
    PhaseCount = 2
    MaxCurrent = 33
    MaxChanges = 3
    Gen <- MCGen
    Inputs <- MCInputs
    InitialInput <- MCInitialInput

INVARIANT
    TypeOK

PROPERTIES
    Settles
    PassKeepsBreaker
    BreakerKept
    GridLimitKept
