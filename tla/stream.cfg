\* a connection with a pool of two buffers, and one with a ring of two buffers that the
\* producer mixes with a buffer of its own; the ring is filled almost twice
CONSTANTS
    NumBuffs = 2
    BuffLen = 2
    CircLen = 4
    Kinds = {"pool", "ring"}
    PoolBuffs = 2
    PoolLen = 3
    ItemSize = 1
    Reserves = {1, 3}
    Maximum = 4
    MaxBytes = 7
    UserKinds = {"ring"}
    MaxUser = 1
    UserLen = 1
SPECIFICATION Spec
INVARIANTS
    StreamTypeOK
    NoOverlap
    WriteIsSafe
    EnqueuedIsTotal
    NeverStuck
    AssertsHold
PROPERTIES
    IsChannel
CHECK_DEADLOCK FALSE
