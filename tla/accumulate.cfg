\* buffers of up to 2 items under a reserve of 1 to 3: stitching, accumulation, unstitching,
\* commit_config, and a second start()
CONSTANTS
    NumInputs = 1
    NumOutputs = 0
    InReserves = {1,2,3}
    OutReserves = {1}
    InMaximum = 3
    OutMaximum = 0
    OutSize = 2
    PoolSize = 1
    MsgPorts = {}
    Failures = {"input"}
    Callers = {}
    Monitors = {}
    Top = top
    Nobody = nobody
    NeighboursFirst = FALSE
    MaxFeed = 3
    MaxChunk = 2
    MaxCalls = 0
    MaxCommits = 1
    MaxStarts = 1
    MaxMailbox = 2
SPECIFICATION Spec
INVARIANTS
    AvailableCoversQueue
    EnqueuedIsLength
    FrontHoldsReserve
CHECK_DEADLOCK FALSE
