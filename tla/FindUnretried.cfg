SPECIFICATION Spec
CONSTANTS
    NumPages = 2
    MaxAttempts = 3
    Levels = 4
    MaxCount = 2
    Default = 2
INVARIANTS
    ApiErrorsAreRetried
CHECK_DEADLOCK FALSE
