CONSTANTS
    Conn = {k1}
    Port = {p1}
    NoConn = NoConn
    Wants <- AllPorts
    NewConns = 1
SPECIFICATION Spec
CHECK_DEADLOCK FALSE
INVARIANT ReplyComesFirst
