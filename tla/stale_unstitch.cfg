\* a pool beside which the producer posts one buffer of its own
CONSTANTS
    NumBuffs = 2
    BuffLen = 2
    CircLen = 4
    Kinds = {"pool"}
    PoolBuffs = 2
    PoolLen = 3
    ItemSize = 1
    Reserves = {2}
    Maximum = 3
    MaxBytes = 4
    UserKinds = {"pool"}
    MaxUser = 1
    UserLen = 1
SPECIFICATION Spec
INVARIANTS
    InOrder
CHECK_DEADLOCK FALSE
