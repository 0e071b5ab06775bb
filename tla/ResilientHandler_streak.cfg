SPECIFICATION Spec
CONSTANTS
    Callers = {c1, c2}
    MaxFailures = 2
    Timeout = 1
    Users = {u1}
    Existing = {u1}
    MaxRetries = 2
    MaxFaults = 2
INVARIANT OpenedByStreak
