CONSTANTS
    Messages = {m1, m2}
    Own = {m2}
    Budget <- NoFailures
SPECIFICATION Spec
INVARIANT ToggleTakesBack
CHECK_DEADLOCK FALSE
