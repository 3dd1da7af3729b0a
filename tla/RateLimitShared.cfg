CONSTANTS
    RatePipe = {r1, r2}
    Burst = 2
    MaxChunk = 2
    MaxClock = 3
SPECIFICATION RateSpec
CHECK_DEADLOCK FALSE
INVARIANT SharedLimitHolds
