SPECIFICATION Spec

CONSTANTS
    PhaseCount = 2
    MaxCurrent = 33
    MaxChanges = 3
    Gen <- MCGen
    Inputs <- MCInputs
    InitialInput <- MCInitialInput

PROPERTY
    BatterySpared
