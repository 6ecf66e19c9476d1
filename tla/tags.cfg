SPECIFICATION Spec
CONSTANTS
    Length = 3
    Delay <- SecondDelays
    Drained = TRUE
    MaxItems = 4
    MaxWork = 2
    MaxRestarts = 1
INVARIANTS
    TagMarksItem
    TagComesFirst
    TagGoesWithItem
CHECK_DEADLOCK FALSE
