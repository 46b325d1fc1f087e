----------------------------- MODULE OverlayProofs -----------------------------
(***************************************************************************)
(* Theorems about module Overlay, for any number of pods, routers and      *)
(* addresses.                                                              *)
(***************************************************************************)
EXTENDS Overlay, TLAPS

-------------------------------------------------------------------------------
(* The plan of a sidecar in terms of leases *)

Holds(p, ip) == [pod |-> p, ip |-> ip] \in leases[Net]

InBook(p) == \E ip \in Addresses : Holds(p, ip)

\* The pods p is to have a tunnel to.
IsPeer(p, q) ==
    /\ InBook(p) /\ InBook(q)
    /\ IF p \in Routers THEN q # p ELSE q \in Routers

\* Leases are unique in both ways, and of pods that have been started.
BookOK ==
    /\ leases \in [{Net} -> SUBSET [pod : Pods, ip : Addresses]]
    /\ \A k, l \in leases[Net] : k.pod = l.pod \/ k.ip = l.ip => k = l
    /\ \A l \in leases[Net] : phase[l.pod] # "none" /\ podIP[l.pod] \in PodIPs

LEMMA HoldsOnce ==
    ASSUME BookOK, NEW p, NEW q, NEW i, NEW j, Holds(p, i), Holds(q, j)
    PROVE  /\ p \in Pods /\ i \in Addresses /\ InBook(p) /\ podIP[p] \in PodIPs /\ phase[p] # "none"
           /\ p = q <=> i = j
<1> DEFINE k == [pod |-> p, ip |-> i]
           l == [pod |-> q, ip |-> j]
<1>1. k \in leases[Net] /\ l \in leases[Net]
  BY DEF Holds
<1>2. k \in [pod : Pods, ip : Addresses]
  BY <1>1 DEF BookOK
<1>3. k.pod = p /\ k.ip = i /\ l.pod = q /\ l.ip = j
  OBVIOUS
<1>4. p \in Pods /\ i \in Addresses
  BY <1>2, <1>3
<1> QED
  BY <1>1, <1>3, <1>4 DEF BookOK, InBook

\* The entries of the status and those among them that are routers.
LEMMA StatusMeans ==
    ASSUME BookOK
    PROVE  /\ \A a \in Status.allocations :
                 /\ Holds(a.podName, a.ip) /\ a.podIP = podIP[a.podName]
                 /\ a = Entry([pod |-> a.podName, ip |-> a.ip])
           /\ \A q, i : Holds(q, i) =>
                 \E a \in Status.allocations : a.podName = q /\ a.ip = i /\ a.podIP = podIP[q]
           /\ Status.routers = {a \in Status.allocations : a.podName \in Routers}
<1>1. /\ Status.allocations = {Entry(l) : l \in leases[Net]}
      /\ Status.routers = {Entry(l) : l \in {k \in leases[Net] : k.pod \in Routers}}
  BY DEF Status
<1>2. \A l : Entry(l).podName = l.pod /\ Entry(l).ip = l.ip /\ Entry(l).podIP = podIP[l.pod]
  BY DEF Entry
<1>3. \A l \in leases[Net] : l = [pod |-> l.pod, ip |-> l.ip]
  BY DEF BookOK
<1>5. \A a \in Status.allocations :
        /\ Holds(a.podName, a.ip) /\ a.podIP = podIP[a.podName]
        /\ a = Entry([pod |-> a.podName, ip |-> a.ip])
  BY <1>1, <1>2, <1>3 DEF Holds
<1>6. \A q, i : Holds(q, i) =>
         \E a \in Status.allocations : a.podName = q /\ a.ip = i /\ a.podIP = podIP[q]
  <2> SUFFICES ASSUME NEW q, NEW i, Holds(q, i)
               PROVE  \E a \in Status.allocations : a.podName = q /\ a.ip = i /\ a.podIP = podIP[q]
    OBVIOUS
  <2> DEFINE l == [pod |-> q, ip |-> i]
  <2>1. l.pod = q /\ l.ip = i /\ l \in leases[Net]
    BY DEF Holds
  <2> HIDE DEF l
  <2>2. Entry(l) \in Status.allocations
    BY <1>1, <2>1
  <2> QED
    BY <1>2, <2>1, <2>2
<1>7. Status.routers = {a \in Status.allocations : a.podName \in Routers}
  <2> HIDE DEF Entry
  <2>1. \A a \in Status.routers : a \in Status.allocations /\ a.podName \in Routers
    BY <1>1, <1>2
  <2>2. \A a \in Status.allocations : a.podName \in Routers => a \in Status.routers
    BY <1>1, <1>2
  <2> QED
    BY <2>1, <2>2
<1> QED
  BY <1>5, <1>6, <1>7

\* Of two entries for one pod there is only one.
LEMMA OneEntry ==
    ASSUME BookOK, NEW a \in Status.allocations, NEW b \in Status.allocations,
           a.podName = b.podName
    PROVE  a = b
<1>1. Holds(a.podName, a.ip) /\ Holds(b.podName, b.ip)
  BY StatusMeans
<1>2. a.ip = b.ip
  BY <1>1, HoldsOnce
<1> QED
  BY <1>2, StatusMeans

\* Targets are the entries of the peers.
LEMMA TargetsMean ==
    ASSUME BookOK, NEW p \in Pods
    PROVE  /\ Plan(p)!IsRouter(Status) <=> InBook(p) /\ p \in Routers
           /\ Plan(p)!IsMember(Status) <=> InBook(p)
           /\ Plan(p)!Targets(Status) = {a \in Status.allocations : IsPeer(p, a.podName)}
           /\ \A q \in Pods : Keeps(p, q) <=> IsPeer(p, q)
<1>1. Plan(p)!IsMember(Status) <=> InBook(p)
  <2>1. ASSUME NEW a \in Status.allocations, a.podName = p PROVE InBook(p)
    BY <2>1, StatusMeans, HoldsOnce
  <2>2. ASSUME InBook(p) PROVE \E a \in Status.allocations : a.podName = p
    BY <2>2, StatusMeans DEF InBook
  <2> QED
    BY <2>1, <2>2 DEF Plan!IsMember
<1>2. Plan(p)!IsRouter(Status) <=> InBook(p) /\ p \in Routers
  BY <1>1, StatusMeans DEF Plan!IsRouter, Plan!IsMember
<1>3. \A a \in Status.allocations : InBook(a.podName)
  BY StatusMeans, HoldsOnce
<1>4. Plan(p)!Targets(Status) = {a \in Status.allocations : IsPeer(p, a.podName)}
  <2>1. CASE InBook(p) /\ p \in Routers
    BY <1>2, <1>3, <2>1 DEF Plan!Targets, IsPeer
  <2>2. CASE InBook(p) /\ p \notin Routers
    <3>1. Plan(p)!Targets(Status) = Status.routers
      BY <1>1, <1>2, <2>2 DEF Plan!Targets
    <3> QED
      BY <1>3, <2>2, <3>1, StatusMeans DEF IsPeer
  <2>3. CASE ~InBook(p)
    BY <1>1, <1>2, <2>3 DEF Plan!Targets, IsPeer
  <2> QED
    BY <2>1, <2>2, <2>3
<1>5. \A q \in Pods : InBook(q) => \E a \in Status.allocations : a.podName = q
  BY StatusMeans DEF InBook
<1>6. \A q \in Pods : Keeps(p, q) <=> IsPeer(p, q)
  BY <1>4, <1>5 DEF Keeps, IsPeer
<1> QED
  BY <1>1, <1>2, <1>4, <1>6

Host(ip) == [ip |-> ip, len |-> 32]

\* The link of p, which has address i, to q, which has j.
LinkTo(p, q, i, j) ==
    [local |-> podIP[p], remote |-> podIP[q],
     route |-> [dst |-> IF p \in Routers THEN Host(j) ELSE Cidr, gw |-> NoGw, src |-> i]]

\* What setupTunnelIface makes.
LEMMA SetUpMeans ==
    ASSUME BookOK, NEW p \in Pods, NEW a \in Plan(p)!Targets(Status)
    PROVE  /\ a.podName \in Pods /\ IsPeer(p, a.podName)
           /\ \E i \in Addresses, j \in Addresses :
                 /\ Holds(p, i) /\ Holds(a.podName, j)
                 /\ SetUp(p, a) = LinkTo(p, a.podName, i, j)
<1>1. a \in Status.allocations /\ IsPeer(p, a.podName)
  BY TargetsMean
<1>2. Holds(a.podName, a.ip) /\ a.podIP = podIP[a.podName]
  BY <1>1, StatusMeans
<1>3. a.podName \in Pods /\ a.ip \in Addresses
  BY <1>2, HoldsOnce
<1> DEFINE own == Plan(p)!Local(Status)
<1>4. own \in Status.allocations /\ own.podName = p
  <2>1. InBook(p)
    BY <1>1 DEF IsPeer
  <2>2. Plan(p)!IsMember(Status) /\ (Plan(p)!IsRouter(Status) <=> p \in Routers)
    BY <2>1, TargetsMean
  <2> QED
    BY <2>2, StatusMeans DEF Plan!Local, Plan!Member, Plan!IsMember, Plan!IsRouter
<1> HIDE DEF own
<1>5. Holds(p, own.ip) /\ own.podIP = podIP[p]
  BY <1>4, StatusMeans
<1>6. own.ip \in Addresses
  BY <1>5, HoldsOnce
<1>7. Plan(p)!IsRouter(Status) <=> p \in Routers
  BY <1>1, TargetsMean DEF IsPeer
<1>8. Plan(p)!OwnRoute(Status, a) = [dst |-> IF p \in Routers THEN Host(a.ip) ELSE Cidr,
                                     gw |-> NoGw, src |-> own.ip]
  <2>1. Status.allocatableCIDR = Cidr
    BY DEF Status
  <2> QED
    BY <1>7, <2>1 DEF Plan!OwnRoute, Plan!Host, Host, own
<1>9. SetUp(p, a) = LinkTo(p, a.podName, own.ip, a.ip)
  BY <1>2, <1>5, <1>8 DEF SetUp, LinkTo, own
<1> QED
  BY <1>1, <1>2, <1>3, <1>5, <1>6, <1>9

\* Such a link has the type of links.
LEMMA LinkToType ==
    ASSUME NEW p, NEW q, podIP[p] \in PodIPs, podIP[q] \in PodIPs,
           NEW i \in Addresses, NEW j \in Addresses
    PROVE  LinkTo(p, q, i, j) \in Link
BY DEF LinkTo, Link, Host

-------------------------------------------------------------------------------
(* The inductive invariant *)

\* A started pod has a cluster address, of its own while it lives.
AddressesOK ==
    /\ \A p \in Pods : phase[p] # "none" => podIP[p] \in PodIPs
    /\ \A p, q \in Pods : Alive(p) /\ Alive(q) /\ podIP[p] = podIP[q] => p = q

\* p has the address or had it and will have none again.
Had(p, ip) ==
    \/ Holds(p, ip)
    \/ ~InBook(p) /\ p \in released /\ phase[p] \in {"left", "deleting", "dead"}

\* A link is what the leases of its ends, which they have or had, made it.
LinkOK(p, q) ==
    /\ IF p \in Routers THEN q # p ELSE q \in Routers
    /\ \E i \in Addresses, j \in Addresses :
          Had(p, i) /\ Had(q, j) /\ links[p][q] = LinkTo(p, q, i, j)

LinksOK ==
    \A p, q \in Pods : links[p][q] # Absent => Alive(p) /\ LinkOK(p, q)

\* A sidecar that is up to date has the links of its peers.
CurrentOK ==
    \A p \in current : Alive(p) /\ \A q \in Pods : links[p][q] # Absent <=> IsPeer(p, q)

Inv == TypeOK /\ BookOK /\ AddressesOK /\ LinksOK /\ CurrentOK

LEMMA InvInit == Init => Inv
<1> SUFFICES ASSUME Init PROVE Inv
  OBVIOUS
<1>1. leases[Net] = {}
  BY DEF Init
<1>2. \A p, q \in Pods : links[p][q] = Absent
  BY DEF Init
<1>3. \A p \in Pods : ~Alive(p) /\ phase[p] = "none"
  BY DEF Init, Alive
<1>4. TypeOK
  BY DEF Init, TypeOK
<1>5. BookOK
  BY <1>1, <1>4 DEF TypeOK, BookOK
<1> QED
  BY <1>2, <1>3, <1>4, <1>5 DEF Init, Inv, AddressesOK, LinksOK, CurrentOK

\* The operator's steps, by the leases they leave.
LEMMA AllocateMeans ==
    ASSUME Inv, NEW p \in Pods, NEW ip \in Addresses, Allocate(p, ip)
    PROVE  /\ phase[p] # "none" /\ p \notin released /\ ~InBook(p) /\ \A q : ~Holds(q, ip)
           /\ leases' \in [{Net} -> SUBSET [pod : Pods, ip : Addresses]]
           /\ leases'[Net] = leases[Net] \cup {[pod |-> p, ip |-> ip]}
           /\ \A q, i : Holds(q, i)' <=> Holds(q, i) \/ (q = p /\ i = ip)
<1> DEFINE new == [pod |-> p, ip |-> ip]
<1>1. phase[p] # "none" /\ p \notin released
  BY DEF Allocate, Allocates
<1>2. /\ \A l \in leases[Net] : l.pod # new.pod /\ l.ip # new.ip
      /\ leases' = [leases EXCEPT ![Net] = leases[Net] \cup {new}]
  BY DEF Allocate, Book!Grant
<1>3. leases \in [{Net} -> SUBSET [pod : Pods, ip : Addresses]]
  BY DEF Inv, BookOK
<1>4. new \in [pod : Pods, ip : Addresses]
  OBVIOUS
<1>5. leases'[Net] = leases[Net] \cup {new}
  BY <1>2, <1>3
<1>6. leases' \in [{Net} -> SUBSET [pod : Pods, ip : Addresses]]
  BY <1>2, <1>3, <1>4
<1>7. \A q, i : Holds(q, i) => q # p /\ i # ip
  BY <1>2 DEF Holds
<1>8. \A q, i : Holds(q, i)' <=> Holds(q, i) \/ (q = p /\ i = ip)
  BY <1>5 DEF Holds
<1> QED
  BY <1>1, <1>5, <1>6, <1>7, <1>8 DEF InBook

LEMMA ReleaseMeans ==
    ASSUME Inv, NEW p \in Pods, Release(p)
    PROVE  /\ phase[p] \in {"left", "deleting", "dead"}
           /\ leases' \in [{Net} -> SUBSET [pod : Pods, ip : Addresses]]
           /\ leases'[Net] \subseteq leases[Net]
           /\ \A q, i : Holds(q, i)' <=> Holds(q, i) /\ q # p
           /\ current' = {} \/ UNCHANGED <<leases, current>>
<1>1. leases \in [{Net} -> SUBSET [pod : Pods, ip : Addresses]]
  BY DEF Inv, BookOK
<1>2. CASE LeaseOf(p) = {} /\ UNCHANGED <<leases, current>>
  <2>1. \A i : ~Holds(p, i)
    <3> SUFFICES ASSUME NEW i, Holds(p, i) PROVE FALSE
      OBVIOUS
    <3>1. [pod |-> p, ip |-> i] \in LeaseOf(p)
      BY DEF LeaseOf, Holds
    <3> QED
      BY <1>2, <3>1
  <2> QED
    BY <1>1, <1>2, <2>1 DEF Holds, Release, Releases
<1>3. ASSUME NEW l \in LeaseOf(p), Book!GiveBack(Net, l), current' = {}
      PROVE  /\ leases' \in [{Net} -> SUBSET [pod : Pods, ip : Addresses]]
             /\ leases'[Net] \subseteq leases[Net]
             /\ \A q, i : Holds(q, i)' <=> Holds(q, i) /\ q # p
  <2>1. l \in leases[Net] /\ l.pod = p /\ leases' = [leases EXCEPT ![Net] = leases[Net] \ {l}]
    BY <1>3 DEF LeaseOf, Book!GiveBack
  <2>2. leases'[Net] = leases[Net] \ {l}
    BY <1>1, <2>1
  <2>3. leases' \in [{Net} -> SUBSET [pod : Pods, ip : Addresses]]
    BY <1>1, <2>1
  <2>4. \A k \in leases[Net] : k.pod = p <=> k = l
    BY <2>1 DEF Inv, BookOK
  <2>5. \A q, i : Holds(q, i)' <=> Holds(q, i) /\ q # p
    <3> SUFFICES ASSUME NEW q, NEW i PROVE Holds(q, i)' <=> Holds(q, i) /\ q # p
      OBVIOUS
    <3> DEFINE k == [pod |-> q, ip |-> i]
    <3>1. k.pod = q
      OBVIOUS
    <3>2. (Holds(q, i) <=> k \in leases[Net]) /\ (Holds(q, i)' <=> k \in leases'[Net])
      BY DEF Holds
    <3> HIDE DEF k
    <3> QED
      BY <2>2, <2>4, <3>1, <3>2
  <2> QED
    BY <2>2, <2>3, <2>5
<1> QED
  BY <1>2, <1>3 DEF Release, Releases

\* A reconciliation, by the links it leaves.
LEMMA ReconcileMeans ==
    ASSUME Inv, NEW p \in Pods, Reconcile(p)
    PROVE  /\ Alive(p) /\ UNCHANGED <<phase, podIP, leases, released>>
           /\ \A r, q \in Pods : r # p => links'[r][q] = links[r][q]
           /\ links' \in [Pods -> [Pods -> Link \cup {Absent}]]
           /\ \A q \in Pods : \/ links'[p][q] = Absent \/ links'[p][q] = links[p][q]
                              \/ \E a \in Plan(p)!Targets(Status) :
                                    a.podName = q /\ links'[p][q] = SetUp(p, a)
           /\ \/ current' = current /\ p \notin current
              \/ /\ current' = current \cup {p}
                 /\ \A q \in Pods : links'[p][q] # Absent <=> IsPeer(p, q)
<1> DEFINE targets == Plan(p)!Targets(Status)
           kept == [q \in Pods |-> IF Keeps(p, q) THEN links[p][q] ELSE Absent]
           missing == {a \in targets : kept[a.podName] = Absent}
           Named(new, q) == CHOOSE a \in new : a.podName = q
           With(new) == [q \in Pods |-> IF \E a \in new : a.podName = q
                                        THEN SetUp(p, Named(new, q)) ELSE kept[q]]
<1>1. Alive(p) /\ p \notin current /\ UNCHANGED <<phase, podIP, leases, released>>
  BY DEF Reconcile
<1>2. PICK new \in SUBSET missing :
        /\ (new = missing /\ current' = current \cup {p}) \/ current' = current
        /\ links' = [links EXCEPT ![p] = With(new)]
  BY DEF Reconcile
<1>3. links \in [Pods -> [Pods -> Link \cup {Absent}]]
  BY DEF Inv, TypeOK
<1>4. /\ links'[p] = With(new)
      /\ \A r \in Pods : r # p => links'[r] = links[r]
  BY <1>2, <1>3
<1>5. \A q \in Pods : kept[q] = IF IsPeer(p, q) THEN links[p][q] ELSE Absent
  BY TargetsMean DEF Inv
<1> HIDE DEF kept, targets
<1>6. \A a \in targets : SetUp(p, a) \in Link /\ a.podName \in Pods /\ IsPeer(p, a.podName)
  <2> SUFFICES ASSUME NEW a \in targets
               PROVE  SetUp(p, a) \in Link /\ a.podName \in Pods /\ IsPeer(p, a.podName)
    OBVIOUS
  <2>1. a.podName \in Pods /\ IsPeer(p, a.podName)
    BY SetUpMeans DEF Inv, targets
  <2>2. PICK i \in Addresses, j \in Addresses :
          /\ Holds(p, i) /\ Holds(a.podName, j)
          /\ SetUp(p, a) = LinkTo(p, a.podName, i, j)
    BY SetUpMeans DEF Inv, targets
  <2>3. podIP[p] \in PodIPs /\ podIP[a.podName] \in PodIPs
    BY <2>2, HoldsOnce DEF Inv
  <2> QED
    BY <2>1, <2>2, <2>3, LinkToType
<1>7. ASSUME NEW q \in Pods
      PROVE  \/ /\ \E a \in new : a.podName = q
                /\ Named(new, q) \in new /\ Named(new, q).podName = q
                /\ With(new)[q] = SetUp(p, Named(new, q))
             \/ (~\E a \in new : a.podName = q) /\ With(new)[q] = kept[q]
  OBVIOUS
<1> HIDE DEF Named, With
<1>8. \A q \in Pods : \/ With(new)[q] = Absent \/ With(new)[q] = links[p][q]
                      \/ \E a \in targets : a.podName = q /\ With(new)[q] = SetUp(p, a)
  BY <1>5, <1>7
<1>9. With(new) \in [Pods -> Link \cup {Absent}]
  <2>1. \A q \in Pods : With(new)[q] \in Link \cup {Absent}
    BY <1>3, <1>6, <1>8
  <2> QED
    BY <2>1 DEF With
<1>10. new = missing => \A q \in Pods : With(new)[q] # Absent <=> IsPeer(p, q)
  <2> SUFFICES ASSUME new = missing, NEW q \in Pods
               PROVE  With(new)[q] # Absent <=> IsPeer(p, q)
    OBVIOUS
  <2>1. ASSUME \E a \in new : a.podName = q PROVE With(new)[q] # Absent /\ IsPeer(p, q)
    BY <1>6, <1>7, <2>1, AbsentAssumption
  <2>2. ASSUME ~\E a \in new : a.podName = q, IsPeer(p, q) PROVE With(new)[q] # Absent
    <3>1. PICK a \in targets : a.podName = q
      BY <2>2, TargetsMean DEF Keeps, Inv, targets
    <3>2. kept[q] # Absent
      BY <2>2, <3>1
    <3> QED
      BY <1>7, <2>2, <3>2
  <2>3. ASSUME ~\E a \in new : a.podName = q, ~IsPeer(p, q) PROVE With(new)[q] = Absent
    BY <1>5, <1>7, <2>3
  <2> QED
    BY <2>1, <2>2, <2>3
<1>11. links' \in [Pods -> [Pods -> Link \cup {Absent}]]
  BY <1>2, <1>3, <1>9
<1> QED
  BY <1>1, <1>2, <1>4, <1>8, <1>10, <1>11 DEF targets

\* What keeps the links right: they stay as they are or go, and their ends keep
\* the addresses they had.
LEMMA LinksStay ==
    ASSUME Inv,
           \A p \in Pods, i \in Addresses : Had(p, i) => Had(p, i)',
           \A p \in Pods : phase[p] # "none" => podIP'[p] = podIP[p],
           \A p, q \in Pods : links'[p][q] # Absent => links'[p][q] = links[p][q] /\ Alive(p)'
    PROVE  LinksOK'
<1> SUFFICES ASSUME NEW p \in Pods, NEW q \in Pods, links'[p][q] # Absent
             PROVE  Alive(p)' /\ LinkOK(p, q)'
  BY DEF LinksOK
<1>1. Alive(p) /\ Alive(p)' /\ LinkOK(p, q) /\ links'[p][q] = links[p][q]
  BY DEF Inv, LinksOK
<1>2. PICK i \in Addresses, j \in Addresses :
        Had(p, i) /\ Had(q, j) /\ links[p][q] = LinkTo(p, q, i, j)
  BY <1>1 DEF LinkOK
<1>3. phase[p] # "none" /\ phase[q] # "none"
  BY <1>1, <1>2, HoldsOnce DEF Had, Alive, Inv
<1>4. LinkTo(p, q, i, j)' = LinkTo(p, q, i, j)
  BY <1>3 DEF LinkTo
<1> QED
  BY <1>1, <1>2, <1>4 DEF LinkOK

LEMMA OperatorStep ==
    ASSUME Inv, NEW p \in Pods, Operator(p)
    PROVE  Inv'
<1> USE DEF Inv
<1>1. ASSUME NEW ip \in Addresses, Allocate(p, ip)
      PROVE  Inv'
  <2>1. /\ phase[p] # "none" /\ p \notin released /\ ~InBook(p) /\ \A q : ~Holds(q, ip)
        /\ leases' \in [{Net} -> SUBSET [pod : Pods, ip : Addresses]]
        /\ leases'[Net] = leases[Net] \cup {[pod |-> p, ip |-> ip]}
        /\ \A q, i : Holds(q, i)' <=> Holds(q, i) \/ (q = p /\ i = ip)
    BY <1>1, AllocateMeans
  <2>2. current' = {} /\ UNCHANGED <<phase, podIP, released, links>>
    BY <1>1 DEF Allocate
  <2>3. TypeOK'
    BY <2>1, <2>2 DEF TypeOK
  <2>4. BookOK'
    <3> DEFINE new == [pod |-> p, ip |-> ip]
    <3>1. \A k \in leases[Net] : k.pod # new.pod /\ k.ip # new.ip
      BY <1>1 DEF Allocate, Book!Grant
    <3>2. phase[new.pod] # "none" /\ podIP[new.pod] \in PodIPs
      BY <2>1 DEF AddressesOK
    <3> HIDE DEF new
    <3>3. leases'[Net] = leases[Net] \cup {new}
      BY <2>1 DEF new
    <3> QED
      BY <2>1, <2>2, <3>1, <3>2, <3>3 DEF BookOK
  <2>5. AddressesOK'
    BY <2>2 DEF AddressesOK, Alive
  <2>6. \A q \in Pods, i \in Addresses : Had(q, i) => Had(q, i)'
    BY <2>1, <2>2 DEF Had, InBook
  <2>7. LinksOK'
    <3>1. \A r, q \in Pods : links'[r][q] # Absent => links'[r][q] = links[r][q] /\ Alive(r)'
      BY <2>2 DEF LinksOK, Alive
    <3> QED
      BY <2>2, <2>6, <3>1, LinksStay
  <2> QED
    BY <2>2, <2>3, <2>4, <2>5, <2>7 DEF CurrentOK
<1>2. CASE Release(p)
  <2>1. /\ phase[p] \in {"left", "deleting", "dead"}
        /\ leases' \in [{Net} -> SUBSET [pod : Pods, ip : Addresses]]
        /\ leases'[Net] \subseteq leases[Net]
        /\ \A q, i : Holds(q, i)' <=> Holds(q, i) /\ q # p
        /\ current' = {} \/ UNCHANGED <<leases, current>>
    BY <1>2, ReleaseMeans
  <2>2. released' = released \cup {p} /\ UNCHANGED <<phase, podIP, links>>
    BY <1>2 DEF Release
  <2>3. TypeOK'
    BY <2>1, <2>2 DEF TypeOK
  <2>4. BookOK'
    BY <2>1, <2>2 DEF BookOK
  <2>5. AddressesOK'
    BY <2>2 DEF AddressesOK, Alive
  <2>6. \A q \in Pods, i \in Addresses : Had(q, i) => Had(q, i)'
    BY <2>1, <2>2 DEF Had, InBook
  <2>7. LinksOK'
    <3>1. \A r, q \in Pods : links'[r][q] # Absent => links'[r][q] = links[r][q] /\ Alive(r)'
      BY <2>2 DEF LinksOK, Alive
    <3> QED
      BY <2>2, <2>6, <3>1, LinksStay
  <2>8. CurrentOK'
    <3>1. CASE current' = {}
      BY <3>1 DEF CurrentOK
    <3>2. CASE UNCHANGED <<leases, current>>
      <4>1. \A r, q : IsPeer(r, q)' <=> IsPeer(r, q)
        BY <3>2 DEF IsPeer, InBook, Holds
      <4> QED
        BY <2>2, <3>2, <4>1 DEF CurrentOK, Alive
    <3> QED
      BY <2>1, <3>1, <3>2
  <2> QED
    BY <2>3, <2>4, <2>5, <2>7, <2>8
<1> QED
  BY <1>1, <1>2 DEF Operator

LEMMA ReconcileStep ==
    ASSUME Inv, NEW p \in Pods, Reconcile(p)
    PROVE  Inv'
<1> USE DEF Inv
<1>1. Alive(p) /\ UNCHANGED <<phase, podIP, leases, released>>
  BY ReconcileMeans
<1>2. \A r, q \in Pods : r # p => links'[r][q] = links[r][q]
  BY ReconcileMeans
<1>3. links' \in [Pods -> [Pods -> Link \cup {Absent}]]
  BY ReconcileMeans
<1>4. \A q \in Pods : \/ links'[p][q] = Absent \/ links'[p][q] = links[p][q]
                      \/ \E a \in Plan(p)!Targets(Status) :
                            a.podName = q /\ links'[p][q] = SetUp(p, a)
  BY ReconcileMeans
<1>5. \/ current' = current /\ p \notin current
      \/ /\ current' = current \cup {p}
         /\ \A q \in Pods : links'[p][q] # Absent <=> IsPeer(p, q)
  BY ReconcileMeans
<1>6. \A q, i : Holds(q, i)' <=> Holds(q, i)
  BY <1>1 DEF Holds
<1>7. \A q : (InBook(q)' <=> InBook(q)) /\ (Alive(q)' <=> Alive(q))
  BY <1>1, <1>6 DEF InBook, Alive
<1>8. \A r, q : IsPeer(r, q)' <=> IsPeer(r, q)
  BY <1>7 DEF IsPeer
<1>9. TypeOK'
  BY <1>1, <1>3, <1>5 DEF TypeOK
<1>10. BookOK' /\ AddressesOK'
  BY <1>1, <1>7 DEF BookOK, AddressesOK
<1>11. \A q, i : Had(q, i)' <=> Had(q, i)
  BY <1>1, <1>6, <1>7 DEF Had
<1>12. \A r, q, i, j : LinkTo(r, q, i, j)' = LinkTo(r, q, i, j)
  BY <1>1 DEF LinkTo
<1>13. LinksOK'
  <2> SUFFICES ASSUME NEW r \in Pods, NEW q \in Pods, links'[r][q] # Absent
               PROVE  Alive(r)' /\ LinkOK(r, q)'
    BY DEF LinksOK
  <2>1. CASE links'[r][q] = links[r][q]
    <3>1. Alive(r) /\ LinkOK(r, q)
      BY <2>1 DEF LinksOK
    <3> QED
      BY <1>7, <1>11, <1>12, <2>1, <3>1 DEF LinkOK
  <2>2. ASSUME r = p, NEW a \in Plan(p)!Targets(Status), a.podName = q, links'[p][q] = SetUp(p, a)
        PROVE  Alive(r)' /\ LinkOK(r, q)'
    <3>1. PICK i \in Addresses, j \in Addresses :
            Holds(p, i) /\ Holds(q, j) /\ SetUp(p, a) = LinkTo(p, q, i, j)
      BY <2>2, SetUpMeans
    <3>2. IsPeer(p, q)
      BY <2>2, SetUpMeans
    <3>3. Had(p, i) /\ Had(q, j)
      BY <3>1 DEF Had
    <3> QED
      BY <1>1, <1>7, <1>11, <1>12, <2>2, <3>1, <3>2, <3>3 DEF LinkOK, IsPeer
  <2> QED
    BY <1>2, <1>4, <2>1, <2>2
<1>14. CurrentOK'
  <2> SUFFICES ASSUME NEW r \in current'
               PROVE  Alive(r)' /\ \A q \in Pods : links'[r][q] # Absent <=> IsPeer(r, q)'
    BY DEF CurrentOK
  <2>1. CASE r # p
    <3>1. r \in current /\ r \in Pods
      BY <1>5, <2>1 DEF TypeOK
    <3> QED
      BY <1>2, <1>7, <1>8, <2>1, <3>1 DEF CurrentOK
  <2>2. CASE r = p
    BY <1>1, <1>5, <1>7, <1>8, <2>2
  <2> QED
    BY <2>1, <2>2
<1> QED
  BY <1>9, <1>10, <1>13, <1>14

LEMMA UsersStep ==
    ASSUME Inv, NEW p \in Pods, Users(p)
    PROVE  Inv'
<1> USE DEF Inv
<1>1. \A q, i : Holds(q, i)' <=> Holds(q, i)
  BY DEF Users, PodLeave, PodDelete, PodDead, PodStart, Holds
<1>2. \A r, q : (InBook(q)' <=> InBook(q)) /\ (IsPeer(r, q)' <=> IsPeer(r, q))
  BY <1>1 DEF InBook, IsPeer
<1>3. phase \in [Pods -> {"none", "running", "left", "deleting", "failed", "dead"}]
  BY DEF TypeOK
<1>4. ASSUME NEW ip \in PodIPs, PodStart(p, ip)
      PROVE  Inv'
  <2>1. /\ phase[p] = "none" /\ phase' = [phase EXCEPT ![p] = "running"]
        /\ \A q \in Pods : Alive(q) => podIP[q] # ip
        /\ podIP' = [podIP EXCEPT ![p] = ip]
        /\ UNCHANGED <<leases, released, links, current>>
    BY <1>4 DEF PodStart, Enter
  <2>2. /\ podIP'[p] = ip /\ \A q \in Pods : q # p => podIP'[q] = podIP[q]
        /\ phase'[p] = "running" /\ \A q \in Pods : q # p => phase'[q] = phase[q]
    BY <1>3, <2>1 DEF TypeOK
  <2>3. TypeOK'
    BY <2>1 DEF TypeOK
  <2>4. BookOK'
    <3>1. \A l \in leases[Net] : l.pod \in Pods /\ l.pod # p
      BY <2>1 DEF BookOK
    <3> QED
      BY <2>1, <2>2, <3>1 DEF BookOK
  <2>5. AddressesOK'
    <3>1. \A q \in Pods : q # p => (Alive(q)' <=> Alive(q))
      BY <2>2 DEF Alive
    <3> QED
      BY <2>1, <2>2, <3>1 DEF AddressesOK
  <2>6. \A q \in Pods, i \in Addresses : Had(q, i) => Had(q, i)'
    BY <1>1, <1>2, <2>1, <2>2 DEF Had
  <2>7. \A q \in Pods : Alive(q) => Alive(q)'
    BY <2>1, <2>2 DEF Alive
  <2>8. LinksOK'
    <3>1. \A r, q \in Pods : links'[r][q] # Absent => links'[r][q] = links[r][q] /\ Alive(r)'
      BY <2>1, <2>7 DEF LinksOK
    <3>2. \A q \in Pods : phase[q] # "none" => podIP'[q] = podIP[q]
      BY <2>1, <2>2
    <3> QED
      BY <2>6, <3>1, <3>2, LinksStay
  <2>9. CurrentOK'
    BY <1>2, <2>1, <2>7 DEF CurrentOK, TypeOK
  <2> QED
    BY <2>3, <2>4, <2>5, <2>8, <2>9
<1>5. CASE PodLeave(p) \/ PodDelete(p) \/ PodDead(p)
  <2> DEFINE ended == phase'[p] \in {"failed", "dead"}
  <2>1. /\ phase[p] # "none" /\ phase[p] # "dead"
        /\ phase'[p] \in {"left", "deleting", "failed", "dead"}
        /\ phase'[p] = "failed" => phase[p] = "running"
        /\ ~ended => phase[p] \in {"running", "left"}
        /\ \A q \in Pods : q # p => phase'[q] = phase[q]
        /\ phase' \in [Pods -> {"none", "running", "left", "deleting", "failed", "dead"}]
        /\ UNCHANGED <<podIP, leases, released>>
    BY <1>3, <1>5 DEF PodLeave, PodDelete, PodDead, Enter
  <2>2. /\ current' \subseteq current
        /\ ended => p \notin current' /\ \A q \in Pods : links'[p][q] = Absent
        /\ ~ended => UNCHANGED links
        /\ \A r, q \in Pods : r # p => links'[r][q] = links[r][q]
        /\ links' \in [Pods -> [Pods -> Link \cup {Absent}]]
    <3>1. CASE PodDead(p)
      BY <1>3, <3>1 DEF PodDead, Enter, TypeOK
    <3>2. CASE PodLeave(p) \/ PodDelete(p)
      <4>1. UNCHANGED <<links, current>> /\ (ended => phase[p] = "failed")
        BY <1>3, <3>2 DEF PodLeave, PodDelete, Enter
      <4>2. phase[p] = "failed" => p \notin current /\ \A q \in Pods : links[p][q] = Absent
        BY DEF LinksOK, CurrentOK, Alive
      <4> QED
        BY <4>1, <4>2 DEF TypeOK
    <3> QED
      BY <1>5, <3>1, <3>2
  <2>3. TypeOK'
    BY <2>1, <2>2 DEF TypeOK
  <2>4. BookOK'
    <3>1. \A l \in leases[Net] : l.pod \in Pods
      BY DEF BookOK
    <3> QED
      BY <2>1, <3>1 DEF BookOK
  <2>5. \A q \in Pods : /\ Alive(q)' => phase[q] # "none" /\ Alive(q)
                        /\ Alive(q) => Alive(q)' \/ (q = p /\ ended)
    BY <1>3, <2>1 DEF Alive
  <2>6. AddressesOK'
    BY <2>1, <2>5 DEF AddressesOK
  <2>7. \A q \in Pods, i \in Addresses : Had(q, i) => Had(q, i)'
    BY <1>1, <1>2, <2>1 DEF Had
  <2>8. LinksOK'
    <3>1. \A r, q \in Pods : links'[r][q] # Absent => links'[r][q] = links[r][q] /\ Alive(r)'
      BY <2>2, <2>5 DEF LinksOK
    <3> QED
      BY <2>1, <2>7, <3>1, LinksStay
  <2>9. CurrentOK'
    <3> SUFFICES ASSUME NEW r \in current'
                 PROVE  Alive(r)' /\ \A q \in Pods : links'[r][q] # Absent <=> IsPeer(r, q)'
      BY DEF CurrentOK
    <3>1. r \in current /\ r \in Pods /\ (r # p \/ ~ended)
      BY <2>2 DEF TypeOK
    <3>2. \A q \in Pods : links'[r][q] = links[r][q]
      BY <2>2, <3>1
    <3> QED
      BY <1>2, <2>5, <3>1, <3>2 DEF CurrentOK
  <2> QED
    BY <2>3, <2>4, <2>6, <2>8, <2>9
<1> QED
  BY <1>4, <1>5 DEF Users

LEMMA InvStep == Inv /\ [Next]_vars => Inv'
<1> SUFFICES ASSUME Inv, [Next]_vars PROVE Inv'
  OBVIOUS
<1>1. CASE UNCHANGED vars
  <2>1. UNCHANGED <<phase, podIP, leases, released, links, current>>
    BY <1>1 DEF vars
  <2>2. \A q : (InBook(q)' <=> InBook(q)) /\ (Alive(q)' <=> Alive(q))
    BY <2>1 DEF InBook, Holds, Alive
  <2>3. \A q, i : Had(q, i)' <=> Had(q, i)
    BY <2>1, <2>2 DEF Had, Holds
  <2>4. \A p, q : (LinkOK(p, q)' <=> LinkOK(p, q)) /\ (IsPeer(p, q)' <=> IsPeer(p, q))
    BY <2>1, <2>2, <2>3 DEF LinkOK, LinkTo, IsPeer
  <2>5. TypeOK' /\ BookOK' /\ AddressesOK'
    BY <2>1, <2>2 DEF Inv, TypeOK, BookOK, AddressesOK
  <2> QED
    BY <2>1, <2>2, <2>4, <2>5 DEF Inv, LinksOK, CurrentOK
<1> QED
  BY <1>1, OperatorStep, ReconcileStep, UsersStep DEF Next

LEMMA Invariance == Spec => []Inv
BY InvInit, InvStep, PTL DEF Spec

-------------------------------------------------------------------------------
(* Theorems *)

\* The pods, the book and the links keep their types: a pod is in the book only
\* once it has a cluster address, so every tunnel has two ends.
THEOREM TypeCorrect == Spec => []TypeOK
<1>1. Inv => TypeOK
  BY DEF Inv
<1> QED
  BY <1>1, Invariance, PTL

\* What a link tells of its ends.
LEMMA LinkMeans ==
    ASSUME Inv, NEW p \in Pods, NEW q \in Pods, links[p][q] # Absent
    PROVE  /\ Alive(p) /\ p # q
           /\ links[p][q].local = podIP[p] /\ links[p][q].remote = podIP[q]
           /\ links[p][q].route.src \in Addresses /\ Had(p, links[p][q].route.src)
           /\ p \notin Routers => q \in Routers /\ links[p][q].route.dst = Cidr
           /\ p \in Routers => \E j \in Addresses : Had(q, j) /\ links[p][q].route.dst = Host(j)
<1>1. Alive(p) /\ LinkOK(p, q)
  BY DEF Inv, LinksOK
<1>2. PICK i \in Addresses, j \in Addresses :
        Had(p, i) /\ Had(q, j) /\ links[p][q] = LinkTo(p, q, i, j)
  BY <1>1 DEF LinkOK
<1>3. /\ links[p][q].local = podIP[p] /\ links[p][q].remote = podIP[q]
      /\ links[p][q].route.src = i
      /\ links[p][q].route.dst = IF p \in Routers THEN Host(j) ELSE Cidr
  BY <1>2 DEF LinkTo
<1> QED
  BY <1>1, <1>2, <1>3 DEF LinkOK

\* What a link of a sidecar that is up to date tells.
LEMMA CurrentLinkMeans ==
    ASSUME Inv, NEW p \in current, NEW q \in Pods, links[p][q] # Absent
    PROVE  /\ IsPeer(p, q) /\ Holds(p, links[p][q].route.src)
           /\ \A ip \in Addresses : p \in Routers /\ q \in Out(p, ip) => Holds(q, ip)
<1>1. p \in Pods /\ IsPeer(p, q)
  BY DEF Inv, TypeOK, CurrentOK
<1>2. Holds(p, links[p][q].route.src)
  BY <1>1, LinkMeans DEF Had, IsPeer
<1>3. ASSUME NEW ip \in Addresses, p \in Routers, q \in Out(p, ip)
      PROVE  Holds(q, ip)
  <2>1. PICK j \in Addresses : Had(q, j) /\ links[p][q].route.dst = Host(j)
    BY <1>1, <1>3, LinkMeans
  <2>2. Host(j) \in {Cidr, Host(ip)}
    BY <1>3, <2>1 DEF Out, Plan!Host, Host
  <2>3. j = ip
    BY <2>2, OverlayAssumption DEF Host
  <2> QED
    BY <1>1, <2>1, <2>3 DEF Had, IsPeer
<1> QED
  BY <1>1, <1>2, <1>3

\* Who carries an address has or had it.
LEMMA CarriesMeans ==
    ASSUME Inv, NEW p \in Pods, NEW ip, Carries(p, ip)
    PROVE  /\ Alive(p) /\ Had(p, ip)
           /\ p \in current => Holds(p, ip)
<1>1. PICK q \in Pods : links[p][q] # Absent /\ links[p][q].route.src = ip
  BY DEF Carries
<1> QED
  BY <1>1, LinkMeans, CurrentLinkMeans

\* A pod that carries an address it has no lease for is leaving, and its sidecar
\* has not taken notice: for any number of pods.
THEOREM StaleHolderIsLeavingHolds == Spec => []StaleHolderIsLeaving
<1>1. ASSUME Inv, NEW p \in Pods, NEW ip \in Addresses, Carries(p, ip),
             [pod |-> p, ip |-> ip] \notin leases[Net]
      PROVE  phase[p] \in {"left", "deleting"} /\ ~UpToDate(p)
  <2>1. ~Holds(p, ip)
    BY <1>1 DEF Holds
  <2> QED
    BY <1>1, <2>1, CarriesMeans DEF Had, Alive, UpToDate
<1>2. Inv => StaleHolderIsLeaving
  BY <1>1 DEF StaleHolderIsLeaving
<1> QED
  BY <1>2, Invariance, PTL

\* A pod that is up to date and has links is current.
LEMMA SenderIsCurrent ==
    ASSUME Inv, NEW p \in Pods, UpToDate(p), NEW q \in Pods, links[p][q] # Absent
    PROVE  p \in current
BY LinkMeans DEF UpToDate

\* While no cluster address in the book is another's, a link to a pod of the book
\* leads to that pod.
LEMMA ArrivesAtPeer ==
    ASSUME Inv, ~Mistaken, NEW p \in Pods, NEW q \in Pods, links[p][q] # Absent, InBook(q),
           NEW s \in Arrives(p, q)
    PROVE  s = q
<1>1. s \in Pods /\ Alive(s) /\ podIP[s] = podIP[q]
  BY LinkMeans DEF Arrives
<1>2. PICK ip \in Addresses : Holds(q, ip)
  BY DEF InBook
<1> DEFINE l == [pod |-> q, ip |-> ip]
<1>3. l \in leases[Net] /\ l.pod = q
  BY <1>2 DEF Holds
<1> QED
  BY <1>1, <1>3 DEF Mistaken

\* Where the packets of an up to date pod go in a network whose routers are.
LEMMA PacketsGoToOwner ==
    ASSUME Inv, ~Mistaken, NEW p \in Pods, UpToDate(p), \A r \in Routers : UpToDate(r),
           NEW ip \in Addresses, NEW q \in Out(p, ip), NEW s \in Arrives(p, q)
    PROVE  /\ Carries(s, ip) => Holds(s, ip)
           /\ ~Carries(s, ip) =>
                 \A t \in Out(s, ip) : \A u \in Arrives(s, t) : Holds(u, ip)
<1>1. q \in Pods /\ links[p][q] # Absent
  BY DEF Out
<1>2. p \in current /\ s \in Pods
  BY <1>1, SenderIsCurrent DEF Arrives
<1>3. IsPeer(p, q) /\ InBook(q)
  BY <1>1, <1>2, CurrentLinkMeans DEF IsPeer
<1>4. s = q /\ Alive(s)
  BY <1>1, <1>3, ArrivesAtPeer DEF Arrives
<1>5. PICK back \in Pods : links[s][back] # Absent
  BY DEF Arrives
<1>6. CASE p \in Routers
  <2>1. Holds(s, ip)
    BY <1>1, <1>2, <1>4, <1>6, CurrentLinkMeans
  <2>2. Had(s, links[s][back].route.src)
    BY <1>2, <1>5, LinkMeans
  <2>3. Holds(s, links[s][back].route.src)
    BY <2>1, <2>2 DEF Had, InBook
  <2>4. links[s][back].route.src = ip
    BY <2>1, <2>3, HoldsOnce DEF Inv
  <2>5. Carries(s, ip)
    BY <1>5, <2>4 DEF Carries
  <2> QED
    BY <2>1, <2>5
<1>7. CASE p \notin Routers
  <2>1. s \in Routers
    BY <1>1, <1>2, <1>4, <1>7, LinkMeans
  <2>2. s \in current
    BY <1>4, <2>1 DEF UpToDate
  <2>3. Carries(s, ip) => Holds(s, ip)
    BY <1>2, <2>2, CarriesMeans
  <2>4. ASSUME NEW t \in Out(s, ip), NEW u \in Arrives(s, t)
        PROVE  Holds(u, ip)
    <3>1. t \in Pods /\ links[s][t] # Absent
      BY DEF Out
    <3>2. Holds(t, ip) /\ InBook(t)
      BY <2>1, <2>2, <3>1, CurrentLinkMeans DEF InBook
    <3>3. u = t
      BY <1>2, <3>1, <3>2, ArrivesAtPeer
    <3> QED
      BY <3>2, <3>3
  <2> QED
    BY <2>3, <2>4
<1> QED
  BY <1>6, <1>7

\* Packets for an address reach its owner or nobody once sender and routers are
\* up to date, for any number of pods and routers and whoever still carries the
\* address, while no pod in the book has lost its cluster address to another.
THEOREM DeliveredToOwnerHolds == Spec => []DeliveredToOwner
<1>1. Inv => DeliveredToOwner
  <2> SUFFICES ASSUME Inv, ~Mistaken, NEW p \in Pods, UpToDate(p), \A r \in Routers : UpToDate(r),
                      NEW ip \in Addresses, NEW q \in Out(p, ip), NEW s \in Arrives(p, q)
               PROVE  IF Carries(s, ip) THEN [pod |-> s, ip |-> ip] \in leases[Net]
                      ELSE \A t \in Out(s, ip) : \A u \in Arrives(s, t) :
                              Carries(u, ip) => [pod |-> u, ip |-> ip] \in leases[Net]
    BY DEF DeliveredToOwner, Sends
  <2> QED
    BY PacketsGoToOwner DEF Holds
<1> QED
  BY <1>1, Invariance, PTL

\* The tunnel between two pods of the book that are each other's peers works in
\* both directions.
LEMMA TunnelWorks ==
    ASSUME Inv, NEW p \in current, NEW q \in current, IsPeer(p, q), IsPeer(q, p)
    PROVE  /\ q \in Arrives(p, q)
           /\ \A ip \in Addresses : Holds(q, ip) => Carries(q, ip) /\ q \in Out(p, ip)
<1>1. p \in Pods /\ q \in Pods /\ Alive(q)
  BY DEF Inv, TypeOK, CurrentOK
<1>2. links[p][q] # Absent /\ links[q][p] # Absent
  BY <1>1 DEF Inv, CurrentOK
<1>3. q \in Arrives(p, q)
  BY <1>1, <1>2, LinkMeans DEF Arrives
<1>4. ASSUME NEW ip \in Addresses, Holds(q, ip)
      PROVE  Carries(q, ip) /\ q \in Out(p, ip)
  <2>1. links[q][p].route.src = ip
    BY <1>1, <1>2, <1>4, CurrentLinkMeans, HoldsOnce DEF Inv
  <2>2. Carries(q, ip)
    BY <1>1, <1>2, <2>1 DEF Carries
  <2>3. links[p][q].route.dst \in {Cidr, Host(ip)}
    <3>1. CASE p \notin Routers
      BY <1>1, <1>2, <3>1, LinkMeans
    <3>2. CASE p \in Routers
      <4>1. PICK j \in Addresses : Had(q, j) /\ links[p][q].route.dst = Host(j)
        BY <1>1, <1>2, <3>2, LinkMeans
      <4>2. Holds(q, j)
        BY <1>4, <4>1 DEF Had, InBook
      <4> QED
        BY <1>4, <4>1, <4>2, HoldsOnce DEF Inv
    <3> QED
      BY <3>1, <3>2
  <2> QED
    BY <1>1, <1>2, <2>2, <2>3 DEF Out, Plan!Host, Host
<1> QED
  BY <1>3, <1>4

\* When every sidecar is up to date and all pods of the book live, any two of them
\* reach each other, directly or over a router, and nobody else gets the packets.
THEOREM ConnectedHolds == Spec => []Connected
<1>1. ASSUME Inv, \A p \in Pods : UpToDate(p), Status.routers # {},
             NEW k \in leases[Net], NEW l \in leases[Net], k # l,
             \A m \in leases[Net] : Alive(m.pod)
      PROVE  /\ Arrive(k.pod, l.ip)
             /\ \A q \in Out(k.pod, l.ip) : \A s \in Arrives(k.pod, q) :
                   IF Carries(s, l.ip) THEN s = l.pod
                   ELSE \A t \in Out(s, l.ip) : \A u \in Arrives(s, t) :
                           Carries(u, l.ip) => u = l.pod
  <2>1. /\ Holds(k.pod, k.ip) /\ Holds(l.pod, l.ip) /\ k.pod # l.pod
        /\ k.pod \in Pods /\ l.pod \in Pods /\ l.ip \in Addresses /\ k.ip \in Addresses
    BY <1>1 DEF Inv, BookOK, Holds
  <2> DEFINE p == k.pod
             o == l.pod
             ip == l.ip
  <2>2. InBook(p) /\ InBook(o)
    BY <2>1 DEF InBook
  <2>3. \A q : InBook(q) => q \in current /\ q \in Pods
    <3> SUFFICES ASSUME NEW q, NEW i \in Addresses, Holds(q, i) PROVE q \in current /\ q \in Pods
      BY DEF InBook
    <3>1. q \in Pods
      BY <1>1, HoldsOnce DEF Inv
    <3>2. Alive(q)
      <4> DEFINE m == [pod |-> q, ip |-> i]
      <4>1. m \in leases[Net] /\ m.pod = q
        BY DEF Holds
      <4> QED
        BY <1>1, <4>1
    <3> QED
      BY <1>1, <3>1, <3>2 DEF UpToDate
  <2>4. ~Mistaken
    <3>1. \A m \in leases[Net] : m.pod \in Pods
      BY <1>1 DEF Inv, BookOK
    <3> QED
      BY <1>1, <3>1 DEF Mistaken, Inv, AddressesOK
  <2>5. \A q, i, j : Holds(q, i) /\ Holds(j, i) => q = j
    BY <1>1, HoldsOnce DEF Inv
  <2> HIDE DEF p, o, ip
  <2>6. /\ p \in Pods /\ o \in Pods /\ p # o /\ ip \in Addresses /\ Holds(o, ip)
        /\ InBook(p) /\ InBook(o) /\ p \in current /\ o \in current
    BY <2>1, <2>2, <2>3 DEF p, o, ip
  <2>7. \A r \in Routers : InBook(r) /\ r # o => o \in Out(r, ip) /\ o \in Arrives(r, o) /\ Carries(o, ip)
    <3> SUFFICES ASSUME NEW r \in Routers, InBook(r), r # o
                 PROVE  o \in Out(r, ip) /\ o \in Arrives(r, o) /\ Carries(o, ip)
      OBVIOUS
    <3>1. IsPeer(r, o) /\ IsPeer(o, r)
      BY <2>6 DEF IsPeer
    <3> QED
      BY <1>1, <2>3, <2>6, <3>1, TunnelWorks
  <2>8. \A r \in Routers : InBook(r) => \A t \in Out(r, ip) : t = o
    <3> SUFFICES ASSUME NEW r \in Routers, InBook(r), NEW t \in Out(r, ip) PROVE t = o
      OBVIOUS
    <3>1. Holds(t, ip)
      BY <1>1, <2>3, <2>6, CurrentLinkMeans DEF Out
    <3> QED
      BY <2>5, <2>6, <3>1
  <2>9. Arrive(p, ip)
    <3>1. CASE p \in Routers
      BY <2>6, <2>7, <2>8, <3>1 DEF Arrive
    <3>2. CASE p \notin Routers
      <4>1. PICK r \in Routers : InBook(r)
        <5>1. PICK a \in Status.allocations : a.podName \in Routers
          BY <1>1, StatusMeans DEF Inv
        <5>2. Holds(a.podName, a.ip)
          BY <1>1, StatusMeans DEF Inv
        <5> QED
          BY <1>1, <5>1, <5>2, HoldsOnce DEF Inv
      <4>2. ASSUME NEW q \in Routers, InBook(q)
            PROVE  /\ q \in Out(p, ip) /\ q \in Arrives(p, q)
                   /\ q = o => Carries(q, ip)
        <5>1. IsPeer(p, q) /\ IsPeer(q, p)
          BY <2>6, <3>2, <4>2 DEF IsPeer
        <5>2. q \in Arrives(p, q) /\ \A i \in Addresses : Holds(q, i) => Carries(q, i)
          BY <1>1, <2>3, <2>6, <4>2, <5>1, TunnelWorks
        <5>3. q \in Pods /\ links[p][q] # Absent
          BY <1>1, <2>3, <2>6, <4>2, <5>1 DEF Inv, CurrentOK
        <5>4. links[p][q].route.dst = Cidr
          BY <1>1, <2>6, <3>2, <5>3, LinkMeans
        <5> QED
          BY <2>6, <5>2, <5>3, <5>4 DEF Out
      <4>3. \A q \in Out(p, ip) : q \in Routers /\ InBook(q)
        <5> SUFFICES ASSUME NEW q \in Out(p, ip) PROVE q \in Routers /\ InBook(q)
          OBVIOUS
        <5>1. q \in Pods /\ links[p][q] # Absent
          BY DEF Out
        <5> QED
          BY <1>1, <2>6, <3>2, <5>1, CurrentLinkMeans DEF IsPeer
      <4>4. Out(p, ip) # {}
        BY <4>1, <4>2
      <4>5. ASSUME NEW q \in Out(p, ip)
            PROVE  \E s \in Arrives(p, q) : Carries(s, ip) \/
                      /\ Out(s, ip) # {}
                      /\ \A t \in Out(s, ip) : \E u \in Arrives(s, t) : Carries(u, ip)
        <5>1. q \in Routers /\ InBook(q) /\ q \in Arrives(p, q) /\ (q = o => Carries(q, ip))
          BY <4>2, <4>3
        <5>2. q # o => /\ Out(q, ip) # {}
                       /\ \A t \in Out(q, ip) : \E u \in Arrives(q, t) : Carries(u, ip)
          BY <2>7, <2>8, <5>1
        <5> QED
          BY <5>1, <5>2
      <4> QED
        BY <4>4, <4>5 DEF Arrive
    <3> QED
      BY <3>1, <3>2
  <2>10. \A q \in Out(p, ip) : \A s \in Arrives(p, q) :
            IF Carries(s, ip) THEN s = o
            ELSE \A t \in Out(s, ip) : \A u \in Arrives(s, t) : Carries(u, ip) => u = o
    <3>1. UpToDate(p) /\ \A r \in Routers : UpToDate(r)
      BY <1>1, <2>6, OverlayAssumption
    <3> QED
      BY <1>1, <2>4, <2>5, <2>6, <3>1, PacketsGoToOwner
  <2> QED
    BY <2>9, <2>10 DEF p, o, ip
<1>2. Inv => Connected
  BY <1>1 DEF Connected, Sends
<1> QED
  BY <1>2, Invariance, PTL

\* The overlay is built on the book that the operator keeps, and nothing in it
\* bypasses the book: seen from AddressBook, with a network that is open all the
\* time, every step is a grant, the return of a lease or no step.
FollowsBook == leases = [n \in {Net} |-> {}] /\ [][Book!Next]_(Book!vars)

\* Allocate and Release are steps of AddressBook, and no sidecar and no pod
\* writes leases: what Ipam is shown to implement is what the sidecars rely on.
THEOREM FollowsBookHolds == Spec => FollowsBook
<1>1. ASSUME Inv, Next PROVE [Book!Next]_(Book!vars)
  <2>1. PICK p \in Pods : Operator(p) \/ Reconcile(p) \/ Users(p)
    BY <1>1 DEF Next
  <2>2. ASSUME NEW ip \in Addresses, Allocate(p, ip) PROVE Book!Next
    <3>1. [pod |-> p, ip |-> ip] \in Book!Lease
      BY DEF Book!Lease
    <3>2. Book!Grant(Net, [pod |-> p, ip |-> ip])
      BY <2>2 DEF Allocate
    <3> QED
      BY <3>1, <3>2 DEF Book!Next
  <2>3. CASE Release(p)
    <3>1. CASE UNCHANGED leases
      BY <3>1 DEF Book!vars
    <3>2. ASSUME NEW l \in LeaseOf(p), Book!GiveBack(Net, l) PROVE Book!Next
      <4>1. l \in Book!Lease
        BY <1>1 DEF Inv, BookOK, LeaseOf, Book!Lease
      <4> QED
        BY <3>2, <4>1 DEF Book!Next
    <3> QED
      BY <2>3, <3>1, <3>2 DEF Release
  <2>4. CASE Reconcile(p) \/ Users(p)
    BY <2>4 DEF Reconcile, Users, PodStart, PodLeave, PodDelete, PodDead, Book!vars
  <2> QED
    BY <2>1, <2>2, <2>3, <2>4 DEF Operator
<1>2. ASSUME UNCHANGED vars PROVE UNCHANGED Book!vars
  BY <1>2 DEF vars, Book!vars
<1>3. Inv /\ [Next]_vars => [Book!Next]_(Book!vars)
  BY <1>1, <1>2
<1>4. Init => leases = [n \in {Net} |-> {}]
  BY DEF Init
<1> QED
  BY <1>3, <1>4, Invariance, PTL DEF Spec, FollowsBook
===============================================================================
