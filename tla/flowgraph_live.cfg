\* two sources: one ends by itself, the other may block for ever in its thread
SPECIFICATION FairSpec
CONSTANTS
    source = source
    other = other
    sink = sink
    Blocks = {source, other, sink}
    Wires <- Join
    Sync <- OtherOnly
    Threaded = {source}
    Ending = {other}
    MaxMade <- OtherMakesOne
    MaxStarts = 1
PROPERTIES
    StopAnswered
    WaitReturnsAfter
CHECK_DEADLOCK FALSE
