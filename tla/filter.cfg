\* a filter: one input, one output, a caller, a monitor, mark_input_fail, under the
\* fairness of the framework
CONSTANTS
    NumInputs = 1
    NumOutputs = 1
    InReserves = {1}
    OutReserves = {1}
    InMaximum = 3
    OutMaximum = 0
    OutSize = 2
    PoolSize = 1
    MsgPorts = {}
    Failures = {"input"}
    Callers = {c1}
    Monitors = {m1}
    Top = top
    Nobody = nobody
    NeighboursFirst = FALSE
    MaxFeed = 2
    MaxChunk = 1
    MaxCalls = 1
    MaxCommits = 0
    MaxStarts = 0
    MaxMailbox = 3
SPECIFICATION FairSpec
INVARIANTS
    TypeOK
    NoLostWakeup
    FailWaitsForInput
    
    DoneIsReleased
PROPERTIES
    
    WorkHappens
    CallsAnswered
    EndsAfterInput
CHECK_DEADLOCK FALSE
