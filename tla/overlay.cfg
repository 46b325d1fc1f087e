SPECIFICATION FairSpec
CONSTANTS
    r = r  a = a  b = b
    Pods = {r, a, b}
    Routers = {r}
    PodIPs = {11, 12, 13}
    Addresses = {101, 102, 103}
    Requests <- OneRequest
    NoRequest = NoRequest
    Cidr <- SmallCidr
    Port = 1000
    NoGw = NoGw
    Absent = Absent
INVARIANTS TypeOK Connected StaleHolderIsLeaving DeliveredToOwner
CHECK_DEADLOCK FALSE
PROPERTY Heals
