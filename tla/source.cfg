\* a source with a pool of two buffers, reserves of up to half a buffer: partial use of a
\* buffer, mark_output_fail, commit_config, and a second start() that replaces the pool
CONSTANTS
    NumInputs = 0
    NumOutputs = 1
    InReserves = {1}
    OutReserves = {1,2}
    InMaximum = 3
    OutMaximum = 2
    OutSize = 4
    PoolSize = 2
    MsgPorts = {}
    Failures = {"output"}
    Callers = {}
    Monitors = {}
    Top = top
    Nobody = nobody
    NeighboursFirst = FALSE
    MaxFeed = 1
    MaxChunk = 1
    MaxCalls = 0
    MaxCommits = 1
    MaxStarts = 1
    MaxMailbox = 3
SPECIFICATION Spec
INVARIANTS
    OutputNotWedged
    PoolConserved
CHECK_DEADLOCK FALSE
