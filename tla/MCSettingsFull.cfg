SPECIFICATION Spec

CONSTANTS
    Throws = Throws
    NoFile = NoFile
    Garbage = Garbage
    Faults = {"short"}
    MaxCrashes = 2
    Names <- MCNames
    AllNames <- MCAllNames
    Json <- MCJson
    Parse <- MCParse
    Default <- MCDefault
    Requests <- MCRequests
    StartFiles <- MCStartFiles

INVARIANT
    WrittenIsComplete
