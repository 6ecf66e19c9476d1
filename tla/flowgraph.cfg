\* a source with a special thread, and two blocks on one of its outputs
SPECIFICATION Spec
CONSTANTS
    source = source
    other = other
    sink = sink
    Blocks = {source, other, sink}
    Wires <- Fan
    Sync <- FanSync
    Threaded = {source}
    Ending = {source, sink}
    MaxMade <- EachMakesOne
    MaxStarts = 2
INVARIANTS
    WorkInCall
    EndIsHeard
    WaitEndsAll
PROPERTIES
    EndTakesAll
CHECK_DEADLOCK FALSE
