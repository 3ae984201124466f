SPECIFICATION Spec
CONSTANTS
    Keys = {k1, k2}
    NoKey = NoKey
    BatchSize = 2
    Retries = 1
    MaxRows = 3
    MaxPerCall = 2
INVARIANT CloseLeavesNothing
\* A closed sink takes no more calls.
CHECK_DEADLOCK FALSE
