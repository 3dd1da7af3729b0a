CONSTANTS
    TcpChan = {c1}
    UdpChan = {c2}
    NoChan = NoChan
    MaxIn = 2
    MaxOut = 2
    ServerCompress = TRUE
    ClientCompress = TRUE
    MaxChunks = 2
    FwdUser = {u1, u2}
    FwdPort = {p1, p2}
    MaxDgrams = 3
SPECIFICATION MCSpec
CHECK_DEADLOCK FALSE
INVARIANTS TypeOK CountMatchesTable AnswersTheAsker
PROPERTIES InboundIsStream OutboundIsStream HangupReachesService HangupReachesUser DownDrainsTunnel HalfCloseDelivers
