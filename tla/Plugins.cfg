CONSTANTS
    Caller = {g1, g2}
    MaxID = 2
    MaxNotes = 1
    Cap = 1
    MaxDup = 2
    HookChan = {h1, h2}
    HookUdp = {h2}
    IdleTicks = 1
    PipeCap = 2
    MaxLate = 1
SPECIFICATION MCSpec
CHECK_DEADLOCK FALSE
INVARIANTS AnswerIsMine ReaderNeverBlocks PendingIsInFlight TrackedIsOpen
PROPERTIES CallReturns OnlyIdleIsClosed IdleGetsClosed
