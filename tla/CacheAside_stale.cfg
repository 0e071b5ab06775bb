SPECIFICATION Spec
CONSTANTS
    t1 = t1
    Clients = {c1, c2}
    Users = {u1}
    Tenants = {t1}
    Home <- MCHome
    MaxWrites = 2
    MaxFaults = 0
INVARIANT NextRequestIsFresh
