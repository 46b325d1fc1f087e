SPECIFICATION FairSpec
CONSTANTS
    p1 = p1  p2 = p2  n1 = n1  n2 = n2  i1 = i1  i2 = i2  r1 = r1
    Pods = {p1}
    Networks = {n1}
    PodIPs = {i1, i2}
    Routes = {r1}
    RoutableNames = {r1}
    Specs <- OneSpec
    Annotations <- RouterOrNot
    Absent = Absent
    NoPod = NoPod
    NoIP = NoIP
    Drift = TRUE
    Resyncs = TRUE
    MaxOps = 4
    MaxFaults = 1
INVARIANT RoutersBacked
PROPERTIES DeletedPodLeaves DrainedNetworkLeaves EligibleIsAllocated EligibleIsAllocatedPromptly LeavingIsReleased
CHECK_DEADLOCK FALSE
