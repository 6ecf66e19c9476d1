\* a kick refused because the sender still owns its copy of prio_token
CONSTANTS
    NumInputs = 1
    NumOutputs = 1
    InReserves = {1}
    OutReserves = {1}
    InMaximum = 3
    OutMaximum = 0
    OutSize = 2
    PoolSize = 1
    MsgPorts = {}
    Failures = {}
    Callers = {c1}
    Monitors = {}
    Top = top
    Nobody = nobody
    NeighboursFirst = FALSE
    MaxFeed = 1
    MaxChunk = 1
    MaxCalls = 1
    MaxCommits = 0
    MaxStarts = 0
    MaxMailbox = 3
SPECIFICATION Spec
INVARIANTS
    NeverAsleep
CHECK_DEADLOCK FALSE
