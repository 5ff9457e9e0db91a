SPECIFICATION Spec
CONSTANTS
    None = None
    MaxAttempt = 3
    MaxSession = 2
    MaxSocket = 1
    MaxFault = 0
PROPERTY HealthyNotRebuilt
CHECK_DEADLOCK FALSE
