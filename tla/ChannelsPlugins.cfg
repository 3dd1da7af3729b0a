CONSTANTS
    Chan = {c1, c2}
    TcpSvc = {t1}
    UdpSvc = {u1}
    Addr = {a1}
    NoChan = NoChan
    NoAddr = NoAddr
    MaxConns = 1
    GlobalMax = 2
    DynPlugins = TRUE
SPECIFICATION Spec
CHECK_DEADLOCK FALSE
SYMMETRY Symmetry
INVARIANTS ClientLimitEnforced SlotAccounting
PROPERTY IdsNeverReused
