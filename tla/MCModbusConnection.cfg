SPECIFICATION Spec

CONSTANTS
    v4 = v4
    v6 = v6
    battery_state = battery_state
    inverter_power = inverter_power
    grid = grid
    None = None
    Endpoint = {v4, v6}
    Register = {battery_state, inverter_power, grid}
    Words <- MCWords
    Candidates <- MCCandidates

INVARIANTS
    TypeOK
    AnswersTheQuestion

PROPERTIES
    ReadsFromCandidate
    Recovers
