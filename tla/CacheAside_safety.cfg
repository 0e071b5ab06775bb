SPECIFICATION FairSpec
CONSTANTS
    t1 = t1
    Clients = {c1, c2, c3}
    Users = {u1}
    Tenants = {t1, t2}
    Home <- MCHome
    MaxWrites = 2
    MaxFaults = 1
INVARIANTS TypeOK StaleIsExcused
PROPERTY Converges
