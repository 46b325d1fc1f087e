SPECIFICATION Spec
CONSTANTS
    me = me  a = a  b = b  c = c  d = d  n1 = n1  n2 = n2  x = x
    Me = me
    Pods = {me, a, b, c, d}
    Networks = {n1, n2}
    Routes = {x}
    Statuses <- SharedPort
    LetterIndices = {0, 1}
    Absent = Absent
    NoGw = NoGw
    PartialSetups = FALSE
    Leftovers = FALSE
    MaxOps = 2
    MaxFaults = 0
INVARIANT PortOpenForLinks
CHECK_DEADLOCK FALSE
