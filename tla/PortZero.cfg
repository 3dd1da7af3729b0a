CONSTANTS
    LocalLists <- MCLocal
    PortLists <- MCPorts
    NotANumber = NotANumber
    Taken <- NoneTaken
SPECIFICATION PlanSpec
CHECK_DEADLOCK FALSE
INVARIANT ZeroMatchesLocal
