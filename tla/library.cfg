SPECIFICATION LibrarySpec
CONSTANTS
    Threads = {t1, t2}
    Elements = {hier, block, other}
    None = none
    MaxArgs = 1
    Paths = {"/block", "/none"}
    Functions <- TheFunctions
    Modules <- TheModules
    MaxCalls = 3
    Contained = {block}
    Hier = {hier}
    Names = {"left", "right"}
    MaxSteps = 3
    Methods <- TheMethods
    Declared <- TheClasses
    hier = hier
    block = block
    other = other
    MaxX = 3
    MaxMixed = 2
    MaxUser = 3
SYMMETRY ThreadSymmetry
INVARIANTS
    DeadlockNeedsReentry
    EntryInUse
    UidsUnique
    UidReadIsLive
    FlowKeepsBlock
    TreeIsClosed
    CallIsPending
    CallRunsOnce
CHECK_DEADLOCK FALSE
