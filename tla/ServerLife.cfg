CONSTANTS
    Conn = {k1, k2}
    Port = {p1}
    NoConn = NoConn
    Wants <- AllPorts
    NewConns = 1
    Cap = 1
    MaxFrames = 3
    MaxPings = 1
SPECIFICATION MCSpec
CHECK_DEADLOCK FALSE
INVARIANTS TypeOK NoStaleEntry FramesStayWhole TcpNeverWedges
PROPERTIES PortsComeBack EveryConnectionSettles ShutdownCompletes SendersGetThrough DownReleasesAll
