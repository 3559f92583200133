SPECIFICATION Spec
CONSTANTS
    g1 = g1
    g2 = g2
    p1 = p1
    p2 = p2
    Hour = 2
    HoursPerDay = 2
    Days = 2
    Retain = 8
    Labels = {g1, g2}
    Values = {1, 4}
    Prompts = {p1, p2}
    Kinds <- JobKinds
    MayFail = TRUE
    MaxTime = 22
    MaxEvents = 2
INVARIANTS
    TypeOK
    HoursExact
    DaysExact
SYMMETRY Symmetry
CHECK_DEADLOCK FALSE
