SPECIFICATION Spec
CONSTANTS
    p1 = p1  p2 = p2  n1 = n1  n2 = n2  i1 = i1  i2 = i2  r1 = r1
    Pods = {p1, p2}
    Networks = {n1}
    PodIPs = {i1, i2}
    Routes = {r1}
    RoutableNames = {r1}
    Specs <- OneSpec
    Annotations <- Roles
    Absent = Absent
    NoPod = NoPod
    NoIP = NoIP
    Drift = FALSE
    Resyncs = FALSE
    MaxOps = 4
    MaxFaults = 0
SYMMETRY Symmetry
INVARIANTS TypeOK UniqueAllocations RoutersBacked AllocationsOwned
PROPERTIES AddressStable ReleasedByOwnTurn NoGrantWhileDeleting FinalizedNetworkRemovedEmpty ImplementsAddressBook
CHECK_DEADLOCK FALSE
