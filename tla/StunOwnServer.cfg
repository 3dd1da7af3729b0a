CONSTANTS
    Hosts <- MCHosts
    HostPorts <- MCPorts
    Txn <- MCTxn
SPECIFICATION StunSpec
CHECK_DEADLOCK FALSE
INVARIANT OwnAnswerUnderstood
