SPECIFICATION Spec
CONSTANTS
    None = None
    MaxAttempts = 9
    MaxStarts = 2
INVARIANTS TypeOK DecisionFollowsState GivesUpLate
PROPERTIES EventuallyWorking ProbeEnds
CHECK_DEADLOCK FALSE
