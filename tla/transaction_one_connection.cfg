SPECIFICATION Spec
CONSTANTS
    Tasks = {t1, t2}
    Conns = {c1, c2}
    Faults = TRUE
    Reaped = TRUE
    MaxCalls = 2
    MaxStatements = 2
SYMMETRY MCSymmetry
INVARIANTS TypeOK OneBlock NothingOfAnOpenBlock CommittedIsStored RolledBackIsGone
CHECK_DEADLOCK FALSE
