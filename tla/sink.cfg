\* a sink with two inputs, messages on one, reserves 0 and 1, a monitor
CONSTANTS
    NumInputs = 2
    NumOutputs = 0
    InReserves = {0,1}
    OutReserves = {1}
    InMaximum = 3
    OutMaximum = 0
    OutSize = 2
    PoolSize = 1
    MsgPorts = {1}
    Failures = {}
    Callers = {}
    Monitors = {m1}
    Top = top
    Nobody = nobody
    NeighboursFirst = FALSE
    MaxFeed = 2
    MaxChunk = 1
    MaxCalls = 1
    MaxCommits = 0
    MaxStarts = 0
    MaxMailbox = 3
SPECIFICATION Spec

    
PROPERTIES
    DrainedBeforeDone
CHECK_DEADLOCK FALSE
