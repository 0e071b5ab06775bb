SPECIFICATION BusySpec
CONSTANTS
    Callers = {c1, c2}
    MaxFailures = 2
    Timeout = 2
    Users = {u1, u2}
    Existing = {u1}
    MaxRetries = 2
    MaxFaults = 1
INVARIANTS
    TypeOK
    CounterAgrees
    CountsConsecutive
    CounterBounded
PROPERTIES
    BreakerSpec
    EveryRequestAnswered
    BreakerRecovers
