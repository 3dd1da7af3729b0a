CONSTANTS
    Chan = {c1, c2}
    TcpSvc = {t1}
    UdpSvc = {u1}
    Addr = {a1}
    NoChan = NoChan
    NoAddr = NoAddr
    MaxConns = 2
    GlobalMax = 1
    DynPlugins = FALSE
    RatePipe = {r1, r2}
    Burst = 2
    MaxChunk = 3
    MaxClock = 3
SPECIFICATION MCSpec
CHECK_DEADLOCK FALSE
INVARIANTS TypeOK NoSlotLeak GlobalLimitEnforced RateBounded
PROPERTIES SlotReturned DisconnectCompletes EveryChunkPasses
