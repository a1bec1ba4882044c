CONSTANTS
    NoDevice = NoDevice
    Devices = {d1}
    Budget = 2
SPECIFICATION Spec
INVARIANT RecoveryKeyShown
CHECK_DEADLOCK FALSE
