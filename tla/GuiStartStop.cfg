CONSTANTS
    Start = {t1, t2}
    Stop = {h1, h2}
    Mapping = {m1, m2}
    NoStart = NoStart
SPECIFICATION MCSpec
CHECK_DEADLOCK FALSE
SYMMETRY Symmetry
INVARIANTS TypeOK ShownRunningIsServed MappingsGoWithTunnel StopDisconnects NoMissedStop
