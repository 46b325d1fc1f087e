SPECIFICATION FairSpec
CONSTANTS
    n1 = n1  n2 = n2  web = web  db = db  i1 = i1  i2 = i2  v6 = v6  x = x  y = y  z6 = z6
    Networks = {n1, n2}
    Services = {web, db}
    PodIPs = {i1, i2, v6}
    V4 = {i1, i2}
    TunnelIPs = {x, y, z6}
    TunnelV4 = {x, y}
    Statuses <- Changing
    Questions <- SomeQuestions
    Lookups <- SomeLookups
    Readers = {1}
    Absent = Absent
    Free = Free
    NoIP = NoIP
    MaxOps = 3
    MaxAsks = 1
    MaxFaults = 1
INVARIANTS TypeOK AnsweredFromNetwork NoFalseDenial MapMatches
PROPERTY MapConverges
CHECK_DEADLOCK FALSE
