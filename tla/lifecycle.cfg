SPECIFICATION Spec
CONSTANTS
    None = None
    Levels = {"TEE"}
    MaxRetries = 3
    MaxGenerations = 3
    MaxStale = 4
INVARIANTS TypeOK InjectedOnce GivesUpForCause NeverStranded
PROPERTY SettlesDown
CHECK_DEADLOCK FALSE
