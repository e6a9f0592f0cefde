SPECIFICATION Spec

CONSTANTS
    inverter4 = inverter4
    inverter6 = inverter6
    page = page
    sma = sma
    p1faker = p1faker
    a1 = a1
    a2 = a2
    NoResult = NoResult
    Key = {inverter4, inverter6, page}
    Name = {sma, p1faker}
    Inverters = {sma}
    Address = {a1, a2}
    NameOf <- MCNameOf

INVARIANT
    NoMissedChange

SYMMETRY MCSymmetry

CHECK_DEADLOCK FALSE
