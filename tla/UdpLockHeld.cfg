CONSTANTS
    Chan = {c1, c2}
    TcpSvc = {}
    UdpSvc = {u1}
    Addr = {a1}
    NoChan = NoChan
    NoAddr = NoAddr
    MaxConns = 0
    GlobalMax = 0
    DynPlugins = TRUE
SPECIFICATION FairSpec
CHECK_DEADLOCK FALSE
PROPERTY DisconnectCompletes
