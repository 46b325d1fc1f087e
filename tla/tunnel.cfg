SPECIFICATION FairSpec
CONSTANTS
    me = me  a = a  b = b  c = c  d = d  n1 = n1  n2 = n2  x = x
    Me = me
    Pods = {me, a, b, c, d}
    Networks = {n1, n2}
    Routes = {x}
    Statuses <- RolesBesideAnother
    LetterIndices = {0, 1}
    Absent = Absent
    NoGw = NoGw
    PartialSetups = FALSE
    Leftovers = TRUE
    MaxOps = 2
    MaxFaults = 1
INVARIANTS TypeOK NumbersDistinct LinksMatch RoutesMatch PortsMatch
PROPERTY Converges
CHECK_DEADLOCK FALSE
