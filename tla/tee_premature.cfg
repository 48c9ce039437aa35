SPECIFICATION Spec
CONSTANTS
    None = None
    MaxAttempts = 9
    MaxStarts = 1
INVARIANT NotPrematurelyBroken
CHECK_DEADLOCK FALSE
