CONSTANTS
    MaxEvents = 3
    PageSize = 2
    Starts <- Edited
SPECIFICATION Spec
INVARIANT EditsUpdateTheirRow
CHECK_DEADLOCK FALSE
