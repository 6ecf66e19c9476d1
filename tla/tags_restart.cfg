SPECIFICATION Spec
CONSTANTS
    Length = 3
    Delay <- SecondDelays
    Drained = FALSE
    MaxItems = 2
    MaxWork = 1
    MaxRestarts = 1
INVARIANT TagMarksItem
CHECK_DEADLOCK FALSE
