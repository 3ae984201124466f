SPECIFICATION Spec
CONSTANTS
    Calls = {c1, c2, c3}
    Threshold = 2
    Cooldown = 2
    HalfOpenMaxAttempts = 1
    Concurrency = 2
    Interval = 1
    MinConcurrency = 1
    MaxConcurrency = 2
    InitialConcurrency = 1
    IncreaseEvery = 1
    BaseDelay = 1
    MaxDelay = 4
    RetryMax = 1
    RetryAfters = {0, 3}
PROPERTY RetryAtHonoured
