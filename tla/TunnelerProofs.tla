---------------------------- MODULE TunnelerProofs ----------------------------
(***************************************************************************)
(* Theorems about module Tunneler, for any number of pods, networks and    *)
(* routes and any bounds.  Types and numbers hold for any statuses the API *)
(* server shows.  That the kernel of a settled sidecar, one that has seen  *)
(* every change and has nothing left to do, matches what the networks ask  *)
(* for holds for the statuses that module Tunneler says the code relies on.*)
(***************************************************************************)
EXTENDS Tunneler, FiniteSetTheorems, TLAPS

-------------------------------------------------------------------------------
(* What a status asks for has its type *)

\* A pod with peers is in the network, and the peers are allocations.
LEMMA TargetsType ==
    ASSUME NEW nw \in Network
    PROVE  /\ Targets(nw) \subseteq Allocation
           /\ Targets(nw) # {} => Local(nw) \in Allocation
BY DEF Targets, Local, Network, IsRouter, IsMember, Member

\* The route of a link is a route.
LEMMA OwnRouteType ==
    ASSUME NEW nw \in Network, NEW peer \in Targets(nw)
    PROVE  OwnRoute(nw, peer) \in Route
<1>1. peer \in Allocation /\ Local(nw) \in Allocation
  BY TargetsType
<1>2. peer.ip \in Nat /\ Local(nw).ip \in Nat
  BY <1>1 DEF Allocation
<1>3. Host(peer.ip) \in Dst /\ nw.allocatableCIDR \in Dst
  BY <1>2 DEF Host, Dst, Network
<1> QED
  BY <1>2, <1>3 DEF OwnRoute, Route

\* Routes over routers are routes.
LEMMA ViaType ==
    ASSUME NEW nw, Local(nw) \in Allocation,
           NEW dsts, dsts \subseteq Dst, NEW routers, routers \subseteq Allocation
    PROVE  Via(nw, dsts, routers) \subseteq Route
<1>1. Local(nw).ip \in Nat
  BY DEF Allocation
<1>2. \A r \in routers : r.ip \in Nat
  BY DEF Allocation
<1> QED
  BY <1>1, <1>2 DEF Via, Route

\* So are the target routes of a pod with peers.
LEMMA TargetRoutesType ==
    ASSUME NEW nw \in Network, Targets(nw) # {}
    PROVE  TargetRoutes(nw) \subseteq Route
<1>1. Local(nw) \in Allocation
  BY TargetsType
<1>2. Via(nw, nw.routableCIDRs, nw.routers) \subseteq Route
  BY <1>1, ViaType DEF Network
<1>3. ExtraRoutes(nw) \subseteq Route
  <2>1. CASE ~IsMember(nw)
    BY <2>1 DEF ExtraRoutes
  <2>2. CASE IsMember(nw)
    <3>1. Member(nw).extraNetworks \subseteq Routes
      BY <2>2 DEF Member, IsMember, Network, Allocation
    <3>2. ASSUME NEW r \in Member(nw).extraNetworks
          PROVE  Via(nw, nw.optionalRoutes[r], nw.optionalRouters[r]) \subseteq Route
      <4>1. r \in Routes
        BY <3>1
      <4>2. nw.optionalRoutes[r] \subseteq Dst /\ nw.optionalRouters[r] \subseteq Allocation
        BY <4>1 DEF Network
      <4> QED
        BY <1>1, <4>2, ViaType
    <3> QED
      BY <2>2, <3>2 DEF ExtraRoutes
  <2> QED
    BY <2>1, <2>2
<1> QED
  BY <1>2, <1>3 DEF TargetRoutes

\* A link under construction is a link.
LEMMA SetUpType ==
    ASSUME NEW nw \in Network, NEW peer \in Targets(nw), NEW k \in 0 .. 4, work.net \in Networks
    PROVE  SetUp(nw, peer, k) \in Link
<1>1. peer \in Allocation /\ Local(nw) \in Allocation
  BY TargetsType
<1>2. OwnRoute(nw, peer) \in Route
  BY OwnRouteType
<1>3. OwnRoute(nw, peer).src \in Nat
  BY <1>2 DEF Route
<1>4. Local(nw).podIP \in Nat /\ peer.podIP \in Nat /\ nw.port \in Nat
  BY <1>1 DEF Allocation, Network
<1>5. LinkAdd(nw, peer) \in Link
  BY <1>4 DEF LinkAdd, Link
<1> DEFINE addrs == IF k >= 3 THEN {OwnRoute(nw, peer).src} ELSE {}
           routes == IF k = 4 \/ (k = 3 /\ ~IsRouter(nw)) THEN {OwnRoute(nw, peer)} ELSE {}
<1>6. addrs \in SUBSET Nat /\ routes \in SUBSET Route /\ (k >= 2) \in BOOLEAN
  BY <1>2, <1>3
<1>7. SetUp(nw, peer, k) = [LinkAdd(nw, peer) EXCEPT !.up = k >= 2, !.addrs = addrs, !.routes = routes]
  BY DEF SetUp
<1> HIDE DEF addrs, routes
<1> QED
  BY <1>5, <1>6, <1>7 DEF Link

-------------------------------------------------------------------------------
(* Numbers of networks *)

Numbered(names) == {m \in Networks : names[m] # -1}

\* The numbers given so far: 0 up to their count, each once.
NumbersOK(names) ==
    /\ names \in [Networks -> Index \cup {-1}]
    /\ \A n \in Networks : names[n] < Cardinality(Numbered(names))
    /\ \A n, m \in Networks : names[n] = names[m] /\ names[n] # -1 => n = m

\* Numbers stay below the number of networks.
LEMMA IndexIsNat == Cardinality(Networks) \in Nat /\ Index \subseteq Nat
BY FS_CardinalityType, TunnelerAssumption DEF Index

\* getNetworkId keeps the numbering in order and gives its network a number.
LEMMA GetNetworkIdOK ==
    ASSUME NumbersOK(networkToName), NEW n \in Networks
    PROVE  /\ NumbersOK(getNetworkId(n))
           /\ getNetworkId(n)[n] \in Index
<1>1. CASE networkToName[n] # -1
  BY <1>1 DEF getNetworkId, NumbersOK
<1>2. CASE networkToName[n] = -1
  <2> DEFINE old == Numbered(networkToName)
             next == getNetworkId(n)
  <2>1. next = [networkToName EXCEPT ![n] = Cardinality(old)]
    BY <1>2 DEF getNetworkId, Numbered
  <2>2. old \subseteq Networks /\ n \notin old
    BY <1>2 DEF Numbered
  <2>3. IsFiniteSet(old) /\ Cardinality(old) \in Nat
    BY <2>2, FS_Subset, FS_CardinalityType, TunnelerAssumption
  <2>4. Cardinality(old \cup {n}) = Cardinality(old) + 1
    BY <2>2, <2>3, FS_AddElement
  <2>5. Cardinality(old \cup {n}) <= Cardinality(Networks)
    <3>1. old \cup {n} \subseteq Networks
      BY <2>2
    <3> QED
      BY <3>1, FS_Subset, TunnelerAssumption
  <2>6. Cardinality(old) \in Index
    BY <2>3, <2>4, <2>5, IndexIsNat DEF Index
  <2>7. networkToName \in [Networks -> Index \cup {-1}]
    BY DEF NumbersOK
  <2>8. next \in [Networks -> Index \cup {-1}] /\ next[n] = Cardinality(old)
    BY <2>1, <2>6, <2>7
  <2>9. \A m \in Networks : m # n => next[m] = networkToName[m]
    BY <2>1, <2>7
  <2>10. Numbered(next) = old \cup {n}
    BY <2>3, <2>8, <2>9 DEF Numbered
  <2>11. \A m \in Networks : networkToName[m] \in Int /\ networkToName[m] < Cardinality(old)
    <3>1. \A m \in Networks : networkToName[m] < Cardinality(old)
      BY DEF NumbersOK
    <3>2. Index \cup {-1} \subseteq Int
      BY IndexIsNat
    <3> QED
      BY <2>7, <3>1, <3>2
  <2>12. \A m \in Networks : next[m] < Cardinality(Numbered(next))
    BY <2>3, <2>4, <2>8, <2>9, <2>10, <2>11
  <2>13. \A l, m \in Networks : next[l] = next[m] /\ next[l] # -1 => l = m
    BY <2>3, <2>8, <2>9, <2>11 DEF NumbersOK
  <2> QED
    BY <2>6, <2>8, <2>12, <2>13 DEF NumbersOK
<1> QED
  BY <1>1, <1>2

\* A new process starts with a numbering in order.
LEMMA NoNumbersOK == NumbersOK([n \in Networks |-> -1])
<1> DEFINE none == [n \in Networks |-> -1]
<1>1. Numbered(none) = {}
  BY DEF Numbered
<1>2. Cardinality(Numbered(none)) = 0
  BY <1>1, FS_EmptySet
<1> QED
  BY <1>2, TunnelerAssumption DEF NumbersOK

-------------------------------------------------------------------------------
(* The inductive invariant *)

\* The link of the network of work to this peer is there.
Present(peer) == links[Name(peer)] # Absent

\* A worker that sets up links or routes has numbered its network, and has a
\* link to every peer but those it is still to set up: only then have the steps
\* that look at a link one to look at.
WorkOK ==
    work # Idle /\ work.pc \in {"setup", "routes"} =>
        /\ Targets(work.nw) # {} => networkToName[work.net] \in Index
        /\ work.todo \subseteq Targets(work.nw)
        /\ \A a \in Targets(work.nw) : Present(a) \/ (work.pc = "setup" /\ a \in work.todo)

Inv == TypeOK /\ NumbersOK(networkToName) /\ WorkOK

\* No reconciliation begins as the idle one.
LEMMA WorkIsNotIdle == Idle \notin Work
BY DEF Idle, Work

\* The invariant holds at the start.
LEMMA InitInv == Init => Inv
<1> SUFFICES ASSUME Init PROVE Inv
  OBVIOUS
<1>1. networks \in [Networks -> Network \cup {Absent}]
  BY TunnelerAssumption DEF Init
<1>2. NumbersOK(networkToName)
  BY NoNumbersOK DEF Init
<1>3. networkToName \in [Networks -> Index \cup {-1}]
  BY <1>2 DEF NumbersOK
<1>4. TypeOK
  BY <1>1, <1>3, TunnelerAssumption DEF Init, TypeOK
<1>5. WorkOK
  BY DEF Init, WorkOK
<1> QED
  BY <1>2, <1>4, <1>5 DEF Inv

\* The name of a link to a peer.
LEMMA NameType ==
    ASSUME TypeOK, work \in Work, networkToName[work.net] \in Index, NEW peer \in Targets(work.nw)
    PROVE  Name(peer) \in LinkName
<1>1. peer \in Allocation
  BY TargetsType DEF Work
<1> QED
  BY <1>1 DEF Name, LinkName, Allocation

\* Start keeps the invariant.
LEMMA StartInv == ASSUME Inv, NEW n \in Networks, Start(n) PROVE Inv'
<1> USE DEF Inv
<1>1. NumbersOK(networkToName)'
  <2>1. networkToName' = networkToName \/ networkToName' = getNetworkId(n)
    BY DEF Start
  <2>2. NumbersOK(networkToName')
    BY <2>1, GetNetworkIdOK
  <2> QED
    BY <2>2 DEF NumbersOK, Numbered
<1>2. \/ work' = work /\ work = Idle
      \/ work' = [pc |-> "fou", net |-> n, nw |-> cache[n], todo |-> {}] /\ cache[n] # Absent
  BY DEF Start
<1>3. work' = Idle \/ work' \in Work
  BY <1>2 DEF TypeOK, Work, Start
<1>4. TypeOK'
  BY <1>1, <1>3 DEF TypeOK, Start, kernel, NumbersOK
<1>5. WorkOK'
  BY <1>2 DEF WorkOK, Start, Idle
<1> QED
  BY <1>1, <1>4, <1>5

\* A step without a change of numbers keeps them in order.
LEMMA SameNumbers == ASSUME NumbersOK(networkToName), UNCHANGED networkToName PROVE NumbersOK(networkToName)'
BY DEF NumbersOK, Numbered

\* A step of the worker leaves a reconciliation or none.
LEMMA StepType ==
    ASSUME TypeOK, work \in Work, NEW pc \in {"fou", "links", "setup", "routes"}, NEW todo,
           todo \subseteq Allocation, Step(pc, todo)
    PROVE  /\ work' \in Work /\ work'.pc = pc /\ work'.todo = todo
           /\ work'.net = work.net /\ work'.nw = work.nw
           /\ queue' \subseteq Networks /\ faults' \in Nat
BY DEF Step, TypeOK, Work

LEMMA FailType ==
    ASSUME TypeOK, work \in Work, Fail
    PROVE  work' = Idle /\ queue' \subseteq Networks
BY DEF Fail, TypeOK, Work

LEMMA FaultType == ASSUME TypeOK, Fault PROVE faults' \in Nat
BY DEF Fault, TypeOK

\* reconcileFOU keeps the invariant.
LEMMA FouInv == ASSUME Inv, work \in Work, reconcileFOU PROVE Inv'
<1> USE DEF Inv
<1>1. NumbersOK(networkToName)'
  BY SameNumbers DEF reconcileFOU
<1>2. CASE fou' = FouPorts(work.nw.port, Targets(work.nw) # {}) /\ Step("links", {})
  <2>1. work' \in Work /\ work'.pc = "links" /\ queue' \subseteq Networks /\ faults' \in Nat
    BY <1>2, StepType
  <2>2. fou' \subseteq Nat
    BY <1>2 DEF FouPorts, TypeOK, Work, Network
  <2>3. TypeOK'
    BY <2>1, <2>2 DEF reconcileFOU, TypeOK
  <2> QED
    BY <1>1, <2>1, <2>3 DEF WorkOK
<1>3. CASE Fault /\ Fail /\ UNCHANGED fou
  <2>1. work' = Idle /\ queue' \subseteq Networks /\ faults' \in Nat
    BY <1>3, FailType, FaultType
  <2>2. TypeOK'
    BY <1>3, <2>1 DEF reconcileFOU, TypeOK
  <2> QED
    BY <1>1, <2>1, <2>2 DEF WorkOK
<1> QED
  BY <1>2, <1>3 DEF reconcileFOU

\* A failing LinkList ends the reconciliation and keeps the invariant.
LEMMA LinkListInv == ASSUME Inv, work \in Work, LinkListFails PROVE Inv'
<1> USE DEF Inv
<1>1. work' = Idle /\ queue' \subseteq Networks /\ faults' \in Nat
  BY FailType, FaultType DEF LinkListFails, TypeOK
<1>2. TypeOK'
  BY <1>1 DEF LinkListFails, TypeOK, kernel
<1> QED
  BY <1>1, <1>2, SameNumbers DEF LinkListFails, WorkOK

\* DeleteLinks keeps the invariant: it deletes no link to a peer.
LEMMA DeleteLinksInv == ASSUME Inv, work \in Work, DeleteLinks PROVE Inv'
<1> USE DEF Inv
<1>1. work.net \in Networks /\ work.nw \in Network
  BY DEF Work
<1>2. NumbersOK(networkToName') /\ networkToName'[work.net] \in Index
  BY <1>1, GetNetworkIdOK DEF DeleteLinks
<1>3. NumbersOK(networkToName)' /\ networkToName' \in [Networks -> Index \cup {-1}]
  BY <1>2 DEF NumbersOK, Numbered
<1>4. PICK gone \in SUBSET StaleLinks :
         /\ links' = [l \in LinkName |-> IF l \in gone THEN Absent ELSE links[l]]
         /\ \/ /\ gone = StaleLinks
               /\ Step("setup", {a \in Targets(work.nw) :
                     links[<<networkToName'[work.net], a.podName>>] = Absent})
            \/ Fault /\ Fail
  BY DEF DeleteLinks
<1>5. links' \in [LinkName -> Link \cup {Absent}]
  BY <1>4 DEF TypeOK
<1>6. CASE Fault /\ Fail
  <2>1. work' = Idle /\ queue' \subseteq Networks /\ faults' \in Nat
    BY <1>6, FailType, FaultType
  <2>2. TypeOK'
    BY <1>3, <1>5, <2>1 DEF DeleteLinks, TypeOK
  <2> QED
    BY <1>3, <2>1, <2>2 DEF WorkOK
<1>7. CASE Step("setup", {a \in Targets(work.nw) :
              links[<<networkToName'[work.net], a.podName>>] = Absent})
  <2> DEFINE todo == {a \in Targets(work.nw) : links[<<networkToName'[work.net], a.podName>>] = Absent}
  <2>1. todo \subseteq Allocation
    BY <1>1, TargetsType
  <2>2. /\ work' \in Work /\ work'.pc = "setup" /\ work'.todo = todo
        /\ work'.net = work.net /\ work'.nw = work.nw
        /\ queue' \subseteq Networks /\ faults' \in Nat
    BY <1>7, <2>1, StepType
  <2>3. TypeOK'
    BY <1>3, <1>5, <2>2 DEF DeleteLinks, TypeOK
  <2>4. ASSUME NEW a \in Targets(work.nw), a \notin todo
        PROVE  links'[<<networkToName'[work.net], a.podName>>] # Absent
    <3>1. a.podName \in Pods
      BY <1>1, TargetsType DEF Allocation
    <3>2. <<networkToName'[work.net], a.podName>> \in LinkName
      BY <1>2, <3>1 DEF LinkName
    <3>3. <<networkToName'[work.net], a.podName>> \notin StaleLinks
      BY <2>4 DEF StaleLinks
    <3> QED
      BY <1>4, <2>4, <3>2, <3>3
  <2>5. WorkOK'
    BY <1>2, <2>2, <2>4 DEF WorkOK, Present, Name
  <2> QED
    BY <1>3, <2>3, <2>5
<1> QED
  BY <1>4, <1>6, <1>7

\* setupTunnelIface keeps the invariant: no other link is touched, and a peer
\* is done only when its link is there.
LEMMA SetupInv ==
    ASSUME Inv, work \in Work, NEW peer \in work.todo, setupTunnelIface(peer) PROVE Inv'
<1> USE DEF Inv
<1>1. work.net \in Networks /\ work.nw \in Network /\ work.pc = "setup" /\ work # Idle
  BY WorkIsNotIdle DEF Work, setupTunnelIface
<1>2. peer \in Targets(work.nw) /\ networkToName[work.net] \in Index
  BY <1>1 DEF WorkOK
<1>3. Name(peer) \in LinkName
  BY <1>2, NameType
<1>4. NumbersOK(networkToName)'
  BY SameNumbers DEF setupTunnelIface
<1>5. PICK k \in 0 .. 4 :
         /\ links' = IF k = 0 THEN links ELSE [links EXCEPT ![Name(peer)] = SetUp(work.nw, peer, k)]
         /\ \/ Fail /\ (UNCHANGED faults \/ Fault)
            \/ k = 4 /\ Step("setup", work.todo \ {peer})
  BY DEF setupTunnelIface
<1>6. SetUp(work.nw, peer, k) \in Link
  BY <1>1, <1>2, SetUpType
<1>7. links' \in [LinkName -> Link \cup {Absent}]
  BY <1>3, <1>5, <1>6 DEF TypeOK
<1>8. CASE Fail /\ (UNCHANGED faults \/ Fault)
  <2>1. work' = Idle /\ queue' \subseteq Networks /\ faults' \in Nat
    BY <1>8, FailType, FaultType DEF TypeOK
  <2>2. TypeOK'
    BY <1>7, <2>1 DEF setupTunnelIface, TypeOK
  <2> QED
    BY <1>4, <2>1, <2>2 DEF WorkOK
<1>9. CASE k = 4 /\ Step("setup", work.todo \ {peer})
  <2>1. work.todo \ {peer} \subseteq Allocation
    BY DEF Work
  <2>2. /\ work' \in Work /\ work'.pc = "setup" /\ work'.todo = work.todo \ {peer}
        /\ work'.net = work.net /\ work'.nw = work.nw
        /\ queue' \subseteq Networks /\ faults' \in Nat
    BY <1>9, <2>1, StepType
  <2>3. TypeOK'
    BY <1>7, <2>2 DEF setupTunnelIface, TypeOK
  <2>4. links' = [links EXCEPT ![Name(peer)] = SetUp(work.nw, peer, 4)]
    BY <1>5, <1>9
  <2>5. ASSUME NEW a \in Targets(work.nw), Present(a) \/ a = peer
        PROVE  links'[Name(a)] # Absent
    <3>1. Name(a) \in LinkName
      BY <1>2, NameType
    <3> QED
      BY <1>3, <1>6, <1>9, <2>4, <2>5, <3>1, TunnelerAssumption DEF Present, TypeOK
  <2>6. \A a \in Targets(work.nw) : Name(a)' = <<networkToName[work.net], a.podName>>
    BY <2>2 DEF Name, setupTunnelIface
  <2>7. WorkOK'
    BY <1>1, <1>2, <2>2, <2>5, <2>6 DEF WorkOK, Present, Name, setupTunnelIface
  <2> QED
    BY <1>4, <2>3, <2>7
<1> QED
  BY <1>5, <1>8, <1>9

\* LinksDone keeps the invariant: every peer has its link now.
LEMMA LinksDoneInv == ASSUME Inv, work \in Work, LinksDone PROVE Inv'
<1> USE DEF Inv
<1>1. work.nw \in Network /\ work.pc = "setup" /\ work # Idle
  BY WorkIsNotIdle DEF Work, LinksDone
<1>2. NumbersOK(networkToName)'
  BY SameNumbers DEF LinksDone
<1>3. Targets(work.nw) \subseteq Allocation
  BY <1>1, TargetsType
<1>4. /\ work' \in Work /\ work'.pc = "routes" /\ work'.todo = Targets(work.nw)
      /\ work'.net = work.net /\ work'.nw = work.nw
      /\ queue' \subseteq Networks /\ faults' \in Nat
  BY <1>3, StepType DEF LinksDone
<1>5. TypeOK'
  BY <1>4 DEF LinksDone, TypeOK, kernel
<1>6. WorkOK'
  BY <1>1, <1>4 DEF WorkOK, LinksDone, kernel, Present, Name
<1> QED
  BY <1>2, <1>5, <1>6

\* The routes of the link to peer that nobody asks for, and those it lacks.
Stale(peer) == StaleRoutes(links[Name(peer)].routes, Wanted(work.nw, peer))

Missing(peer) == {t \in Wanted(work.nw, peer) : \A r \in links[Name(peer)].routes : ~SameRoute(r, t)}

\* What reconcileRoutes makes of the link to a peer: some routes go, some come,
\* all of both unless it fails.
LEMMA RoutesEffect ==
    ASSUME Inv, work \in Work, NEW peer \in work.todo, reconcileRoutes(peer)
    PROVE  /\ peer \in Targets(work.nw) /\ networkToName[work.net] \in Index
           /\ Name(peer) \in LinkName /\ links[Name(peer)] \in Link
           /\ Wanted(work.nw, peer) \subseteq Route
           /\ \E gone \in SUBSET Stale(peer), new \in SUBSET Missing(peer) :
                 /\ links' = [links EXCEPT ![Name(peer)] =
                       [links[Name(peer)] EXCEPT !.routes = (links[Name(peer)].routes \ gone) \cup new]]
                 /\ \/ /\ gone = Stale(peer) /\ new = Missing(peer)
                       /\ Step("routes", work.todo \ {peer})
                    \/ Fail /\ (UNCHANGED faults \/ Fault)
<1> USE DEF Inv
<1>1. work.net \in Networks /\ work.nw \in Network /\ work.pc = "routes" /\ work # Idle
  BY WorkIsNotIdle DEF Work, reconcileRoutes
<1>2. peer \in Targets(work.nw) /\ networkToName[work.net] \in Index
  BY <1>1 DEF WorkOK
<1>3. Name(peer) \in LinkName /\ Present(peer)
  BY <1>1, <1>2, NameType DEF WorkOK
<1>4. links[Name(peer)] \in Link
  BY <1>3 DEF Present, TypeOK
<1>5. Wanted(work.nw, peer) \subseteq Route
  BY <1>1, <1>2, OwnRouteType, TargetRoutesType DEF Wanted
<1> DEFINE old == links[Name(peer)].routes
           After(gone) == [links EXCEPT ![Name(peer)].routes = @ \ gone]
<1>6. PICK gone \in SUBSET Stale(peer), new \in SUBSET Missing(peer) :
         /\ links' = [After(gone) EXCEPT ![Name(peer)].routes = @ \cup new]
         /\ \/ gone = Stale(peer) /\ new = Missing(peer) /\ Step("routes", work.todo \ {peer})
            \/ Fail /\ (UNCHANGED faults \/ Fault)
  BY DEF reconcileRoutes, Stale, Missing, Wanted
<1> DEFINE link == [links[Name(peer)] EXCEPT !.routes = (old \ gone) \cup new]
<1>7. links' = [links EXCEPT ![Name(peer)] = link]
  <2> DEFINE first == [links[Name(peer)] EXCEPT !.routes = old \ gone]
  <2>1. After(gone) = [links EXCEPT ![Name(peer)] = first]
    OBVIOUS
  <2>2. After(gone)[Name(peer)] = first
    BY <1>3, <2>1 DEF TypeOK
  <2>3. first.routes = old \ gone
    BY <1>4 DEF Link
  <2>4. links' = [After(gone) EXCEPT ![Name(peer)] = [first EXCEPT !.routes = (old \ gone) \cup new]]
    BY <1>6, <2>2, <2>3
  <2>5. [first EXCEPT !.routes = (old \ gone) \cup new] = link
    BY <1>4 DEF Link
  <2> HIDE DEF first, link, After
  <2> QED
    BY <1>3, <2>1, <2>4, <2>5 DEF TypeOK
<1> QED
  BY <1>2, <1>3, <1>4, <1>5, <1>6, <1>7

\* reconcileRoutes keeps the invariant: it changes the routes of a link that is
\* there.
LEMMA RoutesInv ==
    ASSUME Inv, work \in Work, NEW peer \in work.todo, reconcileRoutes(peer) PROVE Inv'
<1> USE DEF Inv
<1>1. work.net \in Networks /\ work.nw \in Network /\ work.pc = "routes" /\ work # Idle
  BY WorkIsNotIdle DEF Work, reconcileRoutes
<1>2. /\ peer \in Targets(work.nw) /\ networkToName[work.net] \in Index
      /\ Name(peer) \in LinkName /\ links[Name(peer)] \in Link
      /\ Wanted(work.nw, peer) \subseteq Route
  BY RoutesEffect
<1>3. NumbersOK(networkToName)'
  BY SameNumbers DEF reconcileRoutes
<1> DEFINE old == links[Name(peer)].routes
<1>4. PICK gone \in SUBSET Stale(peer), new \in SUBSET Missing(peer) :
         /\ links' = [links EXCEPT ![Name(peer)] =
               [links[Name(peer)] EXCEPT !.routes = (old \ gone) \cup new]]
         /\ \/ Step("routes", work.todo \ {peer})
            \/ Fail /\ (UNCHANGED faults \/ Fault)
  BY RoutesEffect
<1> DEFINE link == [links[Name(peer)] EXCEPT !.routes = (old \ gone) \cup new]
<1>5. old \subseteq Route /\ new \subseteq Route
  BY <1>2 DEF Link, Missing
<1>6. link \in Link
  BY <1>2, <1>5 DEF Link
<1>7. links' = [links EXCEPT ![Name(peer)] = link]
  BY <1>4
<1> HIDE DEF link
<1>8. links' \in [LinkName -> Link \cup {Absent}]
  BY <1>2, <1>6, <1>7 DEF TypeOK
<1>9. CASE Fail /\ (UNCHANGED faults \/ Fault)
  <2>1. work' = Idle /\ queue' \subseteq Networks /\ faults' \in Nat
    BY <1>9, FailType, FaultType DEF TypeOK
  <2>2. TypeOK'
    BY <1>8, <2>1 DEF reconcileRoutes, TypeOK
  <2> QED
    BY <1>3, <2>1, <2>2 DEF WorkOK
<1>10. CASE Step("routes", work.todo \ {peer})
  <2>1. work.todo \ {peer} \subseteq Allocation
    BY DEF Work
  <2>2. /\ work' \in Work /\ work'.pc = "routes" /\ work'.todo = work.todo \ {peer}
        /\ work'.net = work.net /\ work'.nw = work.nw
        /\ queue' \subseteq Networks /\ faults' \in Nat
    BY <1>10, <2>1, StepType
  <2>3. TypeOK'
    BY <1>8, <2>2 DEF reconcileRoutes, TypeOK
  <2>4. ASSUME NEW a \in Targets(work.nw) PROVE links'[Name(a)] # Absent
    <3>1. Name(a) \in LinkName /\ Present(a)
      BY <1>1, <1>2, NameType DEF WorkOK
    <3> QED
      BY <1>2, <1>6, <1>7, <3>1, TunnelerAssumption DEF Present, TypeOK
  <2>5. WorkOK'
    BY <1>1, <1>2, <2>2, <2>4 DEF WorkOK, Present, Name, reconcileRoutes
  <2> QED
    BY <1>3, <2>3, <2>5
<1> QED
  BY <1>4, <1>9, <1>10

\* The steps of the process and of its environment keep the invariant.
LEMMA OtherInv ==
    ASSUME Inv,
           \/ Finish \/ Shutdown \/ Crash \/ Restart
           \/ \E n \in Networks : Sync(n) \/ \E nw \in Statuses[n] \cup {Absent} : NetworkChange(n, nw)
           \/ UNCHANGED vars
    PROVE  Inv'
<1> USE DEF Inv
<1>1. CASE Finish
  <2>1. TypeOK'
    BY <1>1 DEF Finish, TypeOK, kernel
  <2> QED
    BY <1>1, <2>1, SameNumbers DEF Finish, WorkOK
<1>2. CASE Shutdown
  <2>1. links' \in [LinkName -> Link \cup {Absent}]
    BY <1>2 DEF Shutdown, TypeOK
  <2>2. TypeOK'
    BY <1>2, <2>1 DEF Shutdown, UserOp, TypeOK
  <2> QED
    BY <1>2, <2>2, SameNumbers DEF Shutdown, WorkOK
<1>3. CASE Crash
  <2>1. TypeOK'
    BY <1>3 DEF Crash, Fault, TypeOK, kernel
  <2> QED
    BY <1>3, <2>1, SameNumbers DEF Crash, WorkOK, Present, Name, kernel
<1>4. CASE Restart
  <2>1. NumbersOK(networkToName')
    BY <1>4, NoNumbersOK DEF Restart
  <2>2. NumbersOK(networkToName)' /\ networkToName' \in [Networks -> Index \cup {-1}]
    BY <2>1 DEF NumbersOK, Numbered
  <2>3. TypeOK'
    BY <1>4, <2>2 DEF Restart, TypeOK, kernel
  <2> QED
    BY <1>4, <2>2, <2>3 DEF Restart, WorkOK
<1>5. ASSUME NEW n \in Networks, Sync(n) PROVE Inv'
  <2>1. TypeOK'
    BY <1>5 DEF Sync, TypeOK, kernel
  <2> QED
    BY <1>5, <2>1, SameNumbers DEF Sync, WorkOK, Present, Name, kernel
<1>6. ASSUME NEW n \in Networks, NEW nw \in Statuses[n] \cup {Absent}, NetworkChange(n, nw) PROVE Inv'
  <2>1. nw \in Network \cup {Absent}
    BY TunnelerAssumption
  <2>2. TypeOK'
    BY <1>6, <2>1 DEF NetworkChange, UserOp, TypeOK, process, kernel
  <2> QED
    BY <1>6, <2>2, SameNumbers DEF NetworkChange, WorkOK, Present, Name, process, kernel
<1>7. CASE UNCHANGED vars
  <2>1. TypeOK'
    BY <1>7 DEF vars, TypeOK, process, kernel
  <2> QED
    BY <1>7, <2>1, SameNumbers DEF vars, WorkOK, Present, Name, process, kernel
<1> QED
  BY <1>1, <1>2, <1>3, <1>4, <1>5, <1>6, <1>7

\* Every step keeps the invariant.
LEMMA NextInv == Inv /\ [Next]_vars => Inv'
<1> SUFFICES ASSUME Inv, [Next]_vars PROVE Inv'
  OBVIOUS
<1>1. CASE Worker
  <2>1. work \in Work
    BY <1>1 DEF Worker, Inv, TypeOK
  <2> QED
    BY <1>1, <2>1, FouInv, LinkListInv, DeleteLinksInv, SetupInv, LinksDoneInv, RoutesInv, OtherInv DEF Worker
<1>2. CASE \E n \in Networks : Start(n)
  BY <1>2, StartInv
<1> QED
  BY <1>1, <1>2, OtherInv DEF Next

LEMMA Invariance == Spec => []Inv
BY InitInv, NextInv, PTL DEF Spec

\* The sidecar's state keeps its types: networks are numbered below their
\* count, and no step looks at a link that does not exist, as setupTunnelIface
\* and reconcileRoutes would after a deletion in between.
THEOREM TypeCorrect == Spec => []TypeOK
<1>1. Inv => TypeOK
  BY DEF Inv
<1> QED
  BY <1>1, Invariance, PTL

\* getNetworkId never gives one number to two networks, whatever networks come,
\* go and are left out by Reconcile, and across restarts.
THEOREM NumbersDistinctHold == Spec => []NumbersDistinct
<1>1. Inv => NumbersDistinct
  BY DEF Inv, NumbersOK, NumbersDistinct
<1> QED
  BY <1>1, Invariance, PTL

-------------------------------------------------------------------------------
(* The inductive invariants *)

\* A reconciliation of n is under way.
Busy(n) == work # Idle /\ work.net = n

\* The sidecar has dealt with n as its cache shows it.
Reconciled(n) == mode = "running" /\ n \notin queue /\ cache[n] # Absent /\ ~Busy(n)

\* Networks are as the API server had them at some time, and a reconciliation
\* whose network was not queued again works on what the cache shows.
StatusOK ==
    /\ \A n \in Networks : networks[n] \in Statuses[n] \cup {Absent}
    /\ \A n \in Networks : cache[n] \in Statuses[n] \cup {Absent}
    /\ work # Idle => /\ work.net \in Networks
                      /\ work.nw \in Statuses[work.net]
                      /\ mode = "running" /\ work.net \notin queue => work.nw = cache[work.net]

\* The port of a network whose ports are dealt with.
PortsOK ==
    \A n \in Networks :
        mode = "running" /\ n \notin queue /\ cache[n] # Absent /\ ~(Busy(n) /\ work.pc = "fou")
        => (cache[n].port \in fou <=> Targets(cache[n]) # {})

\* The links under the number of n lead to peers of nw.
OnlyPeers(n, nw) ==
    \A l \in LinkName : links[l] # Absent /\ l[1] = networkToName[n] =>
        \E a \in Targets(nw) : a.podName = l[2]

\* There is a link to every peer of nw under the number of n.
AllPeers(n, nw) ==
    \A a \in Targets(nw) : links[<<networkToName[n], a.podName>>] # Absent

\* The links of a network that is dealt with are those to its peers.
PeersOK ==
    /\ \A n \in Networks : Reconciled(n) =>
          networkToName[n] \in Index /\ OnlyPeers(n, cache[n]) /\ AllPeers(n, cache[n])
    /\ work # Idle /\ work.pc \in {"setup", "routes"} =>
          networkToName[work.net] \in Index /\ OnlyPeers(work.net, work.nw)

\* A link is what setupTunnelIface made it for a peer of this name.
Made(l) ==
    \E nw \in Statuses[links[l].net] : \E a \in Targets(nw) :
        /\ a.podName = l[2]
        /\ links[l].local = Local(nw).podIP /\ links[l].remote = a.podIP
        /\ links[l].port = nw.port /\ links[l].up /\ links[l].addrs = {Local(nw).ip}

MadeOK == \A l \in LinkName : links[l] # Absent => Made(l)

\* A route is one that some network asks for over the link.
Asked(l, r) ==
    \E n \in Networks : \E nw \in Statuses[n] : \E a \in Targets(nw) :
        a.podName = l[2] /\ r \in Wanted(nw, a)

\* The routes of the links to peers that are dealt with are those asked for.
RoutesOK ==
    /\ \A l \in LinkName : links[l] # Absent => \A r \in links[l].routes : Asked(l, r)
    /\ \A n \in Networks : Reconciled(n) =>
          \A a \in Targets(cache[n]) :
              links[<<networkToName[n], a.podName>>].routes = Wanted(cache[n], a)
    /\ work # Idle /\ work.pc = "routes" =>
          \A a \in Targets(work.nw) \ work.todo : links[Name(a)].routes = Wanted(work.nw, a)

-------------------------------------------------------------------------------
(* What the steps leave alone *)

\* A step of the worker goes on with its reconciliation, ends it with an error
\* and queues its network again, or is the end.
LEMMA WorkerFrame ==
    ASSUME Inv, Worker
    PROVE  /\ mode = "running" /\ work # Idle /\ work \in Work
           /\ UNCHANGED <<networks, cache, mode>>
           /\ \/ /\ work' # Idle /\ work' \in Work /\ work'.net = work.net /\ work'.nw = work.nw
                 /\ queue' = queue
              \/ work' = Idle /\ queue' = queue \cup {work.net}
              \/ work' = Idle /\ queue' = queue /\ Finish
<1>1. mode = "running" /\ work # Idle /\ work \in Work
  BY DEF Worker, Inv, TypeOK
<1>2. ASSUME Fail PROVE work' = Idle /\ queue' = queue \cup {work.net}
  BY <1>2 DEF Fail
<1>3. ASSUME NEW pc \in {"fou", "links", "setup", "routes"}, NEW todo, todo \subseteq Allocation,
             Step(pc, todo)
      PROVE  /\ work' # Idle /\ work' \in Work /\ work'.net = work.net /\ work'.nw = work.nw
             /\ queue' = queue
  <2>1. work' \in Work /\ work'.net = work.net /\ work'.nw = work.nw
    BY <1>1, <1>3, StepType DEF Inv
  <2> QED
    BY <1>3, <2>1, WorkIsNotIdle DEF Step
<1>4. Targets(work.nw) \subseteq Allocation /\ work.todo \subseteq Allocation
  BY <1>1, TargetsType DEF Work
<1>5. CASE reconcileFOU
  <2>1. (Step("links", {}) \/ Fail) /\ UNCHANGED <<networks, cache, mode>>
    BY <1>5 DEF reconcileFOU
  <2>2. {} \subseteq Allocation
    OBVIOUS
  <2> QED
    BY <1>1, <1>2, <1>3, <2>1, <2>2
<1>6. CASE DeleteLinks
  <2> DEFINE missing == {a \in Targets(work.nw) :
                            links[<<networkToName'[work.net], a.podName>>] = Absent}
  <2>1. (Fail \/ Step("setup", missing)) /\ UNCHANGED <<networks, cache, mode>>
    BY <1>6 DEF DeleteLinks
  <2>2. missing \subseteq Allocation
    BY <1>4
  <2> HIDE DEF missing
  <2> QED
    BY <1>1, <1>2, <1>3, <2>1, <2>2
<1>7. CASE LinksDone
  <2>1. Step("routes", Targets(work.nw)) /\ UNCHANGED <<networks, cache, mode>>
    BY <1>7 DEF LinksDone
  <2> QED
    BY <1>1, <1>3, <1>4, <2>1
<1>8. CASE Finish
  BY <1>1, <1>8 DEF Finish
<1>9. CASE LinkListFails
  BY <1>1, <1>2, <1>9 DEF LinkListFails
<1>10. ASSUME NEW peer \in work.todo, setupTunnelIface(peer) PROVE UNCHANGED <<networks, cache, mode>>
             /\ (Fail \/ Step("setup", work.todo \ {peer}))
  BY <1>10 DEF setupTunnelIface
<1>11. ASSUME NEW peer \in work.todo, reconcileRoutes(peer) PROVE UNCHANGED <<networks, cache, mode>>
             /\ (Fail \/ Step("routes", work.todo \ {peer}))
  BY <1>11 DEF reconcileRoutes
<1>12. CASE \E peer \in work.todo : setupTunnelIface(peer) \/ reconcileRoutes(peer)
  <2>1. PICK peer \in work.todo : setupTunnelIface(peer) \/ reconcileRoutes(peer)
    BY <1>12
  <2>2. /\ UNCHANGED <<networks, cache, mode>>
        /\ Fail \/ Step("setup", work.todo \ {peer}) \/ Step("routes", work.todo \ {peer})
    BY <1>10, <1>11, <2>1
  <2>3. work.todo \ {peer} \subseteq Allocation
    BY <1>4
  <2> QED
    BY <1>1, <1>2, <1>3, <2>2, <2>3
<1> QED
  BY <1>5, <1>6, <1>7, <1>8, <1>9, <1>12 DEF Worker

\* The statuses the sidecar works on.
LEMMA StatusInit == Init => StatusOK
BY DEF Init, StatusOK

LEMMA StatusNext == Inv /\ StatusOK /\ [Next]_vars => StatusOK'
<1> SUFFICES ASSUME Inv, StatusOK, [Next]_vars PROVE StatusOK'
  OBVIOUS
<1>1. CASE Worker
  BY <1>1, WorkerFrame DEF StatusOK
<1>2. ASSUME NEW n \in Networks, Start(n) PROVE StatusOK'
  <2>1. \/ work' = Idle
        \/ /\ work'.net = n /\ work'.nw = cache[n] /\ cache[n] # Absent
    BY <1>2 DEF Start
  <2>2. UNCHANGED <<networks, cache>>
    BY <1>2 DEF Start
  <2> QED
    BY <2>1, <2>2 DEF StatusOK
<1>3. ASSUME NEW n \in Networks, Sync(n) PROVE StatusOK'
  <2>1. cache' = [cache EXCEPT ![n] = networks[n]] /\ cache \in [Networks -> Network \cup {Absent}]
    BY <1>3 DEF Sync, Inv, TypeOK
  <2>2. \A m \in Networks : cache'[m] = IF m = n THEN networks[n] ELSE cache[m]
    BY <2>1
  <2>3. queue' = queue \cup {n} /\ UNCHANGED <<networks, work, mode>>
    BY <1>3 DEF Sync
  <2> QED
    BY <2>2, <2>3 DEF StatusOK
<1>4. CASE Shutdown \/ Crash
  BY <1>4 DEF Shutdown, Crash, StatusOK
<1>5. CASE Restart
  BY <1>5 DEF Restart, StatusOK
<1>6. ASSUME NEW n \in Networks, NEW nw \in Statuses[n] \cup {Absent}, NetworkChange(n, nw) PROVE StatusOK'
  <2>1. networks' = [networks EXCEPT ![n] = nw] /\ networks \in [Networks -> Network \cup {Absent}]
    BY <1>6 DEF NetworkChange, Inv, TypeOK
  <2>2. \A m \in Networks : networks'[m] = IF m = n THEN nw ELSE networks[m]
    BY <2>1
  <2>3. UNCHANGED <<cache, queue, work, mode>>
    BY <1>6 DEF NetworkChange, process
  <2> QED
    BY <2>2, <2>3 DEF StatusOK
<1>7. CASE UNCHANGED vars
  BY <1>7 DEF vars, process, StatusOK
<1> QED
  BY <1>1, <1>2, <1>3, <1>4, <1>5, <1>6, <1>7 DEF Next

-------------------------------------------------------------------------------
(* Receiving ports *)

\* No step breaks the ports of a network that is dealt with: its own
\* reconciliation sets them, that of another network has another port.
LEMMA PortsNext ==
    ASSUME PortsApart, Inv, StatusOK, PortsOK, [Next]_vars
    PROVE  PortsOK'
<1> SUFFICES ASSUME NEW n \in Networks, mode' = "running", n \notin queue', cache'[n] # Absent,
                    ~(Busy(n)' /\ work'.pc = "fou")
             PROVE  cache'[n].port \in fou' <=> Targets(cache'[n]) # {}
  BY DEF PortsOK
<1>1. CASE Worker
  <2>1. /\ work # Idle /\ work \in Work /\ mode = "running" /\ n \notin queue /\ cache'[n] = cache[n]
        /\ cache[n] # Absent
    BY <1>1, WorkerFrame
  <2>2. CASE reconcileFOU
    <3>1. CASE fou' = FouPorts(work.nw.port, Targets(work.nw) # {})
      <4>1. CASE n = work.net
        <5>1. work.nw = cache[n]
          BY <2>1, <4>1 DEF StatusOK
        <5> QED
          BY <2>1, <3>1, <5>1 DEF FouPorts
      <4>2. CASE n # work.net
        <5>1. cache[n].port \in fou <=> Targets(cache[n]) # {}
          BY <2>1, <4>2 DEF PortsOK, Busy
        <5>2. cache[n].port # work.nw.port
          BY <2>1, <4>2 DEF PortsApart, StatusOK
        <5> QED
          BY <2>1, <3>1, <5>1, <5>2 DEF FouPorts
      <4> QED
        BY <4>1, <4>2
    <3>2. CASE Fail /\ UNCHANGED fou
      <4>1. n # work.net
        BY <3>2 DEF Fail
      <4> QED
        BY <2>1, <3>2, <4>1 DEF PortsOK, Busy
    <3> QED
      BY <2>2, <3>1, <3>2 DEF reconcileFOU
  <2>3. CASE ~reconcileFOU
    <3>1. fou' = fou /\ work.pc # "fou"
      BY <1>1, <2>3 DEF Worker, LinkListFails, DeleteLinks, LinksDone, Finish, setupTunnelIface, reconcileRoutes, kernel
    <3> QED
      BY <2>1, <3>1 DEF PortsOK
  <2> QED
    BY <2>2, <2>3
<1>2. ASSUME NEW m \in Networks, Start(m) PROVE n # m
  BY <1>2 DEF Start, Busy, Idle
<1>3. CASE \E m \in Networks : Start(m)
  <2>1. PICK m \in Networks : Start(m)
    BY <1>3
  <2>2. n # m /\ n \notin queue /\ work = Idle /\ mode = "running" /\ UNCHANGED <<cache, fou>>
    BY <1>2, <2>1 DEF Start, kernel
  <2> QED
    BY <2>2 DEF PortsOK, Busy
<1>4. CASE \E m \in Networks : Sync(m)
  <2>1. PICK m \in Networks : Sync(m)
    BY <1>4
  <2>2. n # m /\ n \notin queue /\ mode = "running" /\ UNCHANGED <<work, fou>>
    BY <2>1 DEF Sync, kernel
  <2>3. cache'[n] = cache[n]
    BY <2>1, <2>2 DEF Sync, Inv, TypeOK
  <2> QED
    BY <2>2, <2>3 DEF PortsOK, Busy
<1>5. ~Shutdown /\ ~Crash
  BY DEF Shutdown, Crash
<1>6. ~Restart
  BY DEF Restart
<1>7. CASE \E m \in Networks : \E nw \in Statuses[m] \cup {Absent} : NetworkChange(m, nw)
  BY <1>7 DEF NetworkChange, process, kernel, PortsOK, Busy
<1>8. CASE UNCHANGED vars
  BY <1>8 DEF vars, process, kernel, PortsOK, Busy
<1> QED
  BY <1>1, <1>3, <1>4, <1>5, <1>6, <1>7, <1>8 DEF Next

\* What a settled sidecar has dealt with.
LEMMA SettledReconciled ==
    ASSUME Settled, NEW n \in Networks, networks[n] # Absent
    PROVE  Reconciled(n) /\ cache[n] = networks[n]
BY DEF Settled, Reconciled, Busy

\* If networks never share a port, a settled sidecar receives on the port of
\* every network it has peers in, and on no port of a network it has left,
\* whatever reconciliations failed or were cut short by a crash: reconcileFOU is
\* the only step that opens or closes ports.
THEOREM PortsMatchHolds == ASSUME PortsApart PROVE Spec => []PortsMatch
<1> DEFINE I == Inv /\ StatusOK /\ PortsOK
<1>1. Init => I
  <2>1. Init => PortsOK
    BY DEF Init, PortsOK
  <2> QED
    BY <2>1, InitInv, StatusInit
<1>2. I /\ [Next]_vars => I'
  BY NextInv, StatusNext, PortsNext
<1>3. I => PortsMatch
  BY SettledReconciled DEF PortsMatch, PortsOK, Reconciled
<1> HIDE DEF I
<1> QED
  BY <1>1, <1>2, <1>3, PTL DEF Spec

-------------------------------------------------------------------------------
(* What the steps do to the links *)

\* getNetworkId numbers its own network only.
LEMMA GetNetworkIdOthers ==
    ASSUME Inv, NEW n \in Networks, NEW m \in Networks, m # n
    PROVE  getNetworkId(n)[m] = networkToName[m]
BY DEF getNetworkId, Inv, TypeOK

\* DeleteLinks deletes links under the number of its network, after it all that
\* lead to nobody it asks for.
LEMMA DeleteEffect ==
    ASSUME Inv, work \in Work, DeleteLinks
    PROVE  /\ networkToName' = getNetworkId(work.net) /\ networkToName'[work.net] \in Index
           /\ \A l \in LinkName : \/ links'[l] = links[l]
                                  \/ links'[l] = Absent /\ l[1] = networkToName'[work.net]
           /\ work' # Idle =>
                 /\ work'.pc = "setup" /\ work'.net = work.net /\ work'.nw = work.nw
                 /\ OnlyPeers(work.net, work.nw)'
<1>1. work.net \in Networks
  BY DEF Work
<1>2. networkToName' = getNetworkId(work.net) /\ networkToName'[work.net] \in Index
  BY <1>1, GetNetworkIdOK DEF DeleteLinks, Inv
<1> DEFINE todo == {a \in Targets(work.nw) : links[<<networkToName'[work.net], a.podName>>] = Absent}
<1>3. PICK gone \in SUBSET StaleLinks :
         /\ links' = [l \in LinkName |-> IF l \in gone THEN Absent ELSE links[l]]
         /\ (gone = StaleLinks /\ Step("setup", todo)) \/ Fail
  BY DEF DeleteLinks
<1> HIDE DEF todo
<1>4. \A l \in LinkName : links'[l] = IF l \in gone THEN Absent ELSE links[l]
  BY <1>3
<1>5. \A l \in LinkName : l \in StaleLinks <=>
         /\ links[l] # Absent /\ l[1] = networkToName'[work.net]
         /\ l[2] \notin {a.podName : a \in Targets(work.nw)}
  BY <1>2 DEF StaleLinks
<1>6. ASSUME work' # Idle
      PROVE  /\ work'.pc = "setup" /\ work'.net = work.net /\ work'.nw = work.nw
             /\ OnlyPeers(work.net, work.nw)'
  <2>1. gone = StaleLinks /\ Step("setup", todo)
    BY <1>3, <1>6 DEF Fail
  <2>2. todo \subseteq Allocation
    BY TargetsType DEF todo, Work
  <2>3. work'.pc = "setup" /\ work'.net = work.net /\ work'.nw = work.nw
    BY <2>1, <2>2, StepType DEF Inv
  <2>4. ASSUME NEW l \in LinkName, links'[l] # Absent, l[1] = networkToName'[work.net]
        PROVE  \E a \in Targets(work.nw) : a.podName = l[2]
    BY <1>4, <1>5, <2>1, <2>4
  <2> QED
    BY <2>3, <2>4 DEF OnlyPeers
<1> QED
  BY <1>2, <1>4, <1>5, <1>6

\* setupTunnelIface adds the link to its peer, whole unless it may stop early.
LEMMA SetupEffect ==
    ASSUME Inv, work \in Work, NEW peer \in work.todo, setupTunnelIface(peer)
    PROVE  /\ peer \in Targets(work.nw) /\ networkToName[work.net] \in Index
           /\ Name(peer) \in LinkName
           /\ networkToName' = networkToName
           /\ \/ links' = links
              \/ \E k \in 1 .. 4 :
                    /\ SetUp(work.nw, peer, k) \in Link
                    /\ links' = [links EXCEPT ![Name(peer)] = SetUp(work.nw, peer, k)]
                    /\ ~PartialSetups => k >= 3
           /\ work' # Idle => work'.pc = "setup" /\ work'.net = work.net /\ work'.nw = work.nw
<1>1. work.net \in Networks /\ work.nw \in Network /\ work.pc = "setup" /\ work # Idle
  BY WorkIsNotIdle DEF Work, setupTunnelIface
<1>2. peer \in Targets(work.nw) /\ networkToName[work.net] \in Index
  BY <1>1 DEF WorkOK, Inv
<1>3. Name(peer) \in LinkName
  BY <1>2, NameType DEF Inv
<1>4. PICK k \in 0 .. 4 :
         /\ links' = IF k = 0 THEN links ELSE [links EXCEPT ![Name(peer)] = SetUp(work.nw, peer, k)]
         /\ k \in {0, 3, 4} \/ k \in Stops(work.nw)
         /\ Fail \/ Step("setup", work.todo \ {peer})
  BY DEF setupTunnelIface
<1>5. ~PartialSetups => k = 0 \/ k >= 3
  BY <1>4 DEF Stops
<1>6. k # 0 => SetUp(work.nw, peer, k) \in Link
  BY <1>1, <1>2, SetUpType DEF Inv
<1>7. ASSUME work' # Idle PROVE work'.pc = "setup" /\ work'.net = work.net /\ work'.nw = work.nw
  <2>1. Step("setup", work.todo \ {peer}) /\ work.todo \ {peer} \subseteq Allocation
    BY <1>4, <1>7 DEF Fail, Work
  <2> QED
    BY <2>1, StepType DEF Inv
<1>8. links' = links \/ k \in 1 .. 4
  BY <1>4
<1>9. networkToName' = networkToName
  BY DEF setupTunnelIface
<1>10. CASE k = 0
  BY <1>2, <1>3, <1>4, <1>7, <1>9, <1>10
<1>11. CASE k # 0
  <2>1. k \in 1 .. 4 /\ links' = [links EXCEPT ![Name(peer)] = SetUp(work.nw, peer, k)]
    BY <1>4, <1>11
  <2> QED
    BY <1>2, <1>3, <1>5, <1>6, <1>7, <1>9, <1>11, <2>1
<1> QED
  BY <1>10, <1>11

\* The worker leaves the links of other networks alone: they are under other
\* numbers.
LEMMA OtherLinksStay ==
    ASSUME Inv, Worker, NEW n \in Networks, n # work.net, networkToName[n] \in Index
    PROVE  /\ networkToName'[n] = networkToName[n]
           /\ \A l \in LinkName : l[1] = networkToName[n] => links'[l] = links[l]
<1>1. work \in Work /\ work.net \in Networks
  BY WorkerFrame DEF Work
<1>2. networkToName[n] # -1
  BY IndexIsNat
<1>3. networkToName[work.net] # networkToName[n]
  BY <1>1, <1>2 DEF Inv, NumbersOK
<1>4. CASE reconcileFOU \/ LinkListFails \/ LinksDone \/ Finish
  BY <1>4 DEF reconcileFOU, LinkListFails, LinksDone, Finish, kernel
<1>5. CASE DeleteLinks
  <2>1. networkToName'[n] = networkToName[n]
    BY <1>1, <1>5, DeleteEffect, GetNetworkIdOthers
  <2>2. networkToName'[work.net] # networkToName'[n]
    <3>1. NumbersOK(getNetworkId(work.net)) /\ networkToName' = getNetworkId(work.net)
      BY <1>1, <1>5, GetNetworkIdOK, DeleteEffect DEF Inv
    <3> QED
      BY <1>1, <1>2, <2>1, <3>1 DEF NumbersOK
  <2> QED
    BY <1>1, <1>5, <2>1, <2>2, DeleteEffect
<1>6. ASSUME NEW peer \in work.todo, setupTunnelIface(peer)
      PROVE  networkToName' = networkToName /\ \A l \in LinkName : l # Name(peer) => links'[l] = links[l]
  BY <1>1, <1>6, SetupEffect DEF Inv, TypeOK
<1>7. ASSUME NEW peer \in work.todo, reconcileRoutes(peer)
      PROVE  networkToName' = networkToName /\ \A l \in LinkName : l # Name(peer) => links'[l] = links[l]
  <2>1. networkToName' = networkToName
    BY <1>7 DEF reconcileRoutes
  <2>2. \E link : links' = [links EXCEPT ![Name(peer)] = link]
    BY <1>1, <1>7, RoutesEffect
  <2> QED
    BY <2>1, <2>2 DEF Inv, TypeOK
<1>8. CASE \E peer \in work.todo : setupTunnelIface(peer) \/ reconcileRoutes(peer)
  <2>1. PICK peer \in work.todo : setupTunnelIface(peer) \/ reconcileRoutes(peer)
    BY <1>8
  <2>2. networkToName' = networkToName /\ \A l \in LinkName : l # Name(peer) => links'[l] = links[l]
    BY <1>6, <1>7, <2>1
  <2>3. \A l \in LinkName : l[1] = networkToName[n] => l # Name(peer)
    BY <1>3 DEF Name
  <2> QED
    BY <2>2, <2>3
<1> QED
  BY <1>4, <1>5, <1>8 DEF Worker

\* A network is dealt with because its reconciliation just ended, or because it
\* was before; then the step left its number and its links alone.
LEMMA Kept ==
    ASSUME Inv, StatusOK, PeersOK, [Next]_vars, NEW n \in Networks, Reconciled(n)'
    PROVE  /\ cache'[n] = cache[n]
           /\ \/ Worker /\ Finish /\ n = work.net /\ work.nw = cache[n]
              \/ /\ Reconciled(n) /\ networkToName[n] \in Index
                 /\ networkToName'[n] = networkToName[n]
                 /\ \A l \in LinkName : l[1] = networkToName[n] => links'[l] = links[l]
<1>1. mode' = "running" /\ n \notin queue' /\ cache'[n] # Absent /\ ~Busy(n)'
  BY DEF Reconciled
<1>2. Reconciled(n) => networkToName[n] \in Index
  BY DEF PeersOK
<1>3. CASE Worker
  <2>1. /\ work # Idle /\ work \in Work /\ mode = "running" /\ n \notin queue
        /\ cache'[n] = cache[n] /\ cache[n] # Absent
    BY <1>1, <1>3, WorkerFrame
  <2>2. CASE n = work.net
    <3>1. Finish
      BY <1>1, <1>3, <2>2, WorkerFrame DEF Busy
    <3>2. work.nw = cache[n]
      BY <2>1, <2>2 DEF StatusOK
    <3> QED
      BY <1>3, <2>1, <2>2, <3>1, <3>2
  <2>3. CASE n # work.net
    <3>1. Reconciled(n)
      BY <2>1, <2>3 DEF Reconciled, Busy
    <3> QED
      BY <1>2, <1>3, <2>1, <2>3, <3>1, OtherLinksStay
  <2> QED
    BY <2>2, <2>3
<1>4. ASSUME NEW m \in Networks, Start(m)
      PROVE  Reconciled(n) /\ cache' = cache /\ networkToName'[n] = networkToName[n] /\ links' = links
  <2>1. n # m
    BY <1>1, <1>4 DEF Start, Busy, Idle
  <2>2. networkToName' = networkToName \/ networkToName' = getNetworkId(m)
    BY <1>4 DEF Start
  <2>3. networkToName'[n] = networkToName[n]
    BY <2>1, <2>2, GetNetworkIdOthers
  <2> QED
    BY <1>1, <1>4, <2>1, <2>3 DEF Start, Reconciled, Busy, kernel
<1>5. ASSUME NEW m \in Networks, Sync(m)
      PROVE  Reconciled(n) /\ cache'[n] = cache[n] /\ networkToName' = networkToName /\ links' = links
  <2>1. n # m
    BY <1>1, <1>5 DEF Sync
  <2>2. cache'[n] = cache[n]
    BY <1>5, <2>1 DEF Sync, Inv, TypeOK
  <2> QED
    BY <1>1, <1>5, <2>1, <2>2 DEF Sync, Reconciled, Busy, kernel
<1>6. ~Shutdown /\ ~Crash /\ ~Restart
  BY <1>1 DEF Shutdown, Crash, Restart
<1>7. ASSUME NEW m \in Networks, NEW nw, NetworkChange(m, nw)
      PROVE  Reconciled(n) /\ cache' = cache /\ networkToName' = networkToName /\ links' = links
  BY <1>1, <1>7 DEF NetworkChange, process, kernel, Reconciled, Busy
<1>8. ASSUME UNCHANGED vars
      PROVE  Reconciled(n) /\ cache' = cache /\ networkToName' = networkToName /\ links' = links
  BY <1>1, <1>8 DEF vars, process, kernel, Reconciled, Busy
<1> QED
  BY <1>2, <1>3, <1>4, <1>5, <1>6, <1>7, <1>8 DEF Next

\* A step that is not the worker's leaves a reconciliation under way alone, or
\* starts one or forgets it.
LEMMA WorkKept ==
    ASSUME Inv, [Next]_vars, ~Worker, work' # Idle, work'.pc \in {"setup", "routes"}
    PROVE  UNCHANGED <<work, networkToName, links>>
<1>1. \A m \in Networks : ~Start(m)
  BY DEF Start, Idle
<1>2. ~Restart /\ ~Shutdown
  BY DEF Restart, Shutdown
<1>3. ASSUME NEW m \in Networks, Sync(m) PROVE UNCHANGED <<work, networkToName, links>>
  BY <1>3 DEF Sync, kernel
<1>4. ASSUME NEW m \in Networks, NEW nw, NetworkChange(m, nw) PROVE UNCHANGED <<work, networkToName, links>>
  BY <1>4 DEF NetworkChange, process, kernel
<1>5. CASE Crash \/ UNCHANGED vars
  BY <1>5 DEF Crash, vars, process, kernel
<1> QED
  BY <1>1, <1>2, <1>3, <1>4, <1>5 DEF Next

\* The links of a network are the ones to its peers again when a reconciliation
\* ends, and stay so.
LEMMA PeersNext ==
    ASSUME Inv, StatusOK, PeersOK, [Next]_vars
    PROVE  PeersOK'
<1>1. ASSUME NEW n \in Networks, Reconciled(n)'
      PROVE  networkToName'[n] \in Index /\ OnlyPeers(n, cache[n])' /\ AllPeers(n, cache[n])'
  <2>1. cache'[n] = cache[n] /\ cache[n] # Absent /\ cache[n] \in Network
    BY <1>1, Kept DEF Reconciled, Inv, TypeOK
  <2>2. CASE Worker /\ Finish /\ n = work.net /\ work.nw = cache[n]
    <3>1. work # Idle /\ work.pc = "routes" /\ UNCHANGED <<links, networkToName>>
      BY <2>2 DEF Worker, Finish, kernel
    <3>2. networkToName[n] \in Index /\ OnlyPeers(n, cache[n])
      BY <2>2, <3>1 DEF PeersOK
    <3>3. AllPeers(n, cache[n])
      BY <2>2, <3>1 DEF Inv, WorkOK, Present, Name, AllPeers
    <3> QED
      BY <2>1, <3>1, <3>2, <3>3 DEF OnlyPeers, AllPeers
  <2>3. CASE /\ Reconciled(n) /\ networkToName[n] \in Index
             /\ networkToName'[n] = networkToName[n]
             /\ \A l \in LinkName : l[1] = networkToName[n] => links'[l] = links[l]
    <3>1. OnlyPeers(n, cache[n]) /\ AllPeers(n, cache[n])
      BY <2>3 DEF PeersOK
    <3>2. \A a \in Targets(cache[n]) : <<networkToName[n], a.podName>> \in LinkName
      BY <2>1, <2>3, TargetsType DEF LinkName, Allocation
    <3> QED
      BY <2>1, <2>3, <3>1, <3>2 DEF OnlyPeers, AllPeers
  <2> QED
    BY <1>1, <2>2, <2>3, Kept
<1>2. ASSUME work' # Idle, work'.pc \in {"setup", "routes"}
      PROVE  networkToName'[work'.net] \in Index /\ OnlyPeers(work.net, work.nw)'
  <2>1. CASE ~Worker
    BY <1>2, <2>1, WorkKept DEF PeersOK, OnlyPeers
  <2>2. CASE Worker
    <3>1. work # Idle /\ work \in Work /\ work'.net = work.net /\ work'.nw = work.nw
      BY <1>2, <2>2, WorkerFrame
    <3>2. ~Finish /\ ~LinkListFails
      BY <1>2 DEF Finish, LinkListFails, Fail
    <3>3. ~reconcileFOU
      <4>1. ASSUME reconcileFOU PROVE Step("links", {})
        BY <1>2, <4>1 DEF reconcileFOU, Fail
      <4>2. {} \subseteq Allocation
        OBVIOUS
      <4> QED
        BY <1>2, <3>1, <4>1, <4>2, StepType DEF Inv
    <3>4. CASE DeleteLinks
      BY <1>2, <3>1, <3>4, DeleteEffect DEF OnlyPeers
    <3>5. CASE LinksDone
      BY <3>1, <3>5 DEF LinksDone, kernel, PeersOK, OnlyPeers
    <3>6. ASSUME NEW peer \in work.todo, setupTunnelIface(peer)
          PROVE  networkToName' = networkToName /\ \A l \in LinkName :
                    links'[l] # Absent => links[l] # Absent \/ (l = Name(peer) /\ peer \in Targets(work.nw))
      BY <3>1, <3>6, SetupEffect DEF Inv, TypeOK
    <3>7. ASSUME NEW peer \in work.todo, reconcileRoutes(peer)
          PROVE  networkToName' = networkToName /\ \A l \in LinkName :
                    links'[l] # Absent => links[l] # Absent \/ (l = Name(peer) /\ peer \in Targets(work.nw))
      <4>1. networkToName' = networkToName
        BY <3>7 DEF reconcileRoutes
      <4>2. peer \in Targets(work.nw) /\ \E link : links' = [links EXCEPT ![Name(peer)] = link]
        BY <3>1, <3>7, RoutesEffect
      <4> QED
        BY <4>1, <4>2 DEF Inv, TypeOK
    <3>8. CASE \E peer \in work.todo : setupTunnelIface(peer) \/ reconcileRoutes(peer)
      <4>1. PICK peer \in work.todo : setupTunnelIface(peer) \/ reconcileRoutes(peer)
        BY <3>8
      <4>2. networkToName' = networkToName /\ \A l \in LinkName :
                links'[l] # Absent => links[l] # Absent \/ (l = Name(peer) /\ peer \in Targets(work.nw))
        BY <3>6, <3>7, <4>1
      <4>3. work.pc \in {"setup", "routes"}
        BY <4>1 DEF setupTunnelIface, reconcileRoutes
      <4>4. networkToName[work.net] \in Index /\ OnlyPeers(work.net, work.nw)
        BY <3>1, <4>3 DEF PeersOK
      <4> QED
        BY <3>1, <4>2, <4>4 DEF OnlyPeers, Name
    <3> QED
      BY <2>2, <3>2, <3>3, <3>4, <3>5, <3>8 DEF Worker
  <2> QED
    BY <2>1, <2>2
<1> QED
  BY <1>1, <1>2 DEF PeersOK

-------------------------------------------------------------------------------
(* Tunnels *)

\* The step may delete links and change their routes, and leaves them alone
\* otherwise.
SameTunnels ==
    \A l \in LinkName : links'[l] # Absent =>
        /\ links[l] # Absent
        /\ links'[l].net = links[l].net /\ links'[l].port = links[l].port
        /\ links'[l].local = links[l].local /\ links'[l].remote = links[l].remote
        /\ links'[l].up = links[l].up /\ links'[l].addrs = links[l].addrs

\* Only setupTunnelIface makes tunnels.
LEMMA TunnelsStay ==
    ASSUME Inv, [Next]_vars
    PROVE  SameTunnels \/ (Worker /\ \E peer \in work.todo : setupTunnelIface(peer))
<1>1. CASE links' = links
  BY <1>1 DEF SameTunnels
<1>2. CASE Shutdown
  <2>1. \A l \in LinkName : links'[l] = links[l] \/ links'[l] = Absent
    BY <1>2 DEF Shutdown
  <2> QED
    BY <2>1 DEF SameTunnels
<1>3. CASE Worker /\ DeleteLinks
  <2>1. work \in Work
    BY <1>3, WorkerFrame
  <2>2. \A l \in LinkName : links'[l] = links[l] \/ links'[l] = Absent
    BY <1>3, <2>1, DeleteEffect
  <2> QED
    BY <2>2 DEF SameTunnels
<1>4. ASSUME Worker, NEW peer \in work.todo, reconcileRoutes(peer) PROVE SameTunnels
  <2>1. work \in Work
    BY <1>4, WorkerFrame
  <2>2. Name(peer) \in LinkName /\ links[Name(peer)] \in Link
    BY <1>4, <2>1, RoutesEffect
  <2>3. PICK routes : links' = [links EXCEPT ![Name(peer)] = [links[Name(peer)] EXCEPT !.routes = routes]]
    BY <1>4, <2>1, RoutesEffect
  <2> DEFINE link == [links[Name(peer)] EXCEPT !.routes = routes]
  <2>4. /\ link.net = links[Name(peer)].net /\ link.port = links[Name(peer)].port
        /\ link.local = links[Name(peer)].local /\ link.remote = links[Name(peer)].remote
        /\ link.up = links[Name(peer)].up /\ link.addrs = links[Name(peer)].addrs
    BY <2>2 DEF Link
  <2>5. links' = [links EXCEPT ![Name(peer)] = link]
    BY <2>3
  <2>6. links[Name(peer)] # Absent
    BY <2>2, TunnelerAssumption
  <2> HIDE DEF link
  <2> QED
    BY <2>2, <2>4, <2>5, <2>6 DEF SameTunnels, Inv, TypeOK
<1>5. CASE Worker /\ ~DeleteLinks /\ ~\E peer \in work.todo : setupTunnelIface(peer) \/ reconcileRoutes(peer)
  BY <1>1, <1>5 DEF Worker, reconcileFOU, LinkListFails, LinksDone, Finish, kernel
<1>6. CASE ~Worker /\ ~Shutdown
  BY <1>1, <1>6 DEF Next, Start, Sync, Crash, Restart, NetworkChange, vars, kernel
<1> QED
  BY <1>2, <1>3, <1>4, <1>5, <1>6 DEF Next

\* The fields of the link setupTunnelIface leaves after k calls.
LEMMA SetUpFields ==
    ASSUME NEW nw \in Network, NEW peer \in Targets(nw), NEW k \in 1 .. 4, work.net \in Networks
    PROVE  LET link == SetUp(nw, peer, k)
           IN  /\ link.net = work.net /\ link.port = nw.port
               /\ link.local = Local(nw).podIP /\ link.remote = peer.podIP
               /\ k >= 3 => link.up /\ link.addrs = {Local(nw).ip}
               /\ link.routes \subseteq {OwnRoute(nw, peer)}
<1> DEFINE old == LinkAdd(nw, peer)
           link == SetUp(nw, peer, k)
           addrs == IF k >= 3 THEN {OwnRoute(nw, peer).src} ELSE {}
           routes == IF k = 4 \/ (k = 3 /\ ~IsRouter(nw)) THEN {OwnRoute(nw, peer)} ELSE {}
<1>1. OwnRoute(nw, peer).src = Local(nw).ip
  BY DEF OwnRoute
<1>2. k >= 3 => addrs = {Local(nw).ip}
  BY <1>1
<1>3. routes \subseteq {OwnRoute(nw, peer)}
  OBVIOUS
<1>4. link = [old EXCEPT !.up = k >= 2, !.addrs = addrs, !.routes = routes]
  BY DEF SetUp
<1>5. Local(nw).podIP \in Nat /\ peer.podIP \in Nat /\ nw.port \in Nat
  BY TargetsType DEF Allocation, Network
<1>6. /\ old \in Link
      /\ old.net = work.net /\ old.port = nw.port
      /\ old.local = Local(nw).podIP /\ old.remote = peer.podIP
  BY <1>5 DEF LinkAdd, Link
<1>7. k >= 3 => k >= 2
  OBVIOUS
<1> HIDE DEF addrs, routes, old, link
<1>8. /\ link.net = old.net /\ link.port = old.port /\ link.local = old.local
      /\ link.remote = old.remote
      /\ link.up = (k >= 2) /\ link.addrs = addrs /\ link.routes = routes
  BY <1>4, <1>6 DEF Link
<1>9. /\ link.net = work.net /\ link.port = nw.port
      /\ link.local = Local(nw).podIP /\ link.remote = peer.podIP
      /\ k >= 3 => link.up /\ link.addrs = {Local(nw).ip}
      /\ link.routes \subseteq {OwnRoute(nw, peer)}
  BY <1>2, <1>3, <1>6, <1>7, <1>8
<1> QED
  BY <1>9 DEF link

\* A link is what setupTunnelIface made it, as nobody changes it later.
LEMMA MadeNext ==
    ASSUME ~PartialSetups, Inv, StatusOK, MadeOK, [Next]_vars
    PROVE  MadeOK'
<1>1. CASE SameTunnels
  <2> SUFFICES ASSUME NEW l \in LinkName, links'[l] # Absent PROVE Made(l)'
    BY DEF MadeOK
  <2>1. Made(l)
    BY <1>1 DEF SameTunnels, MadeOK
  <2> QED
    BY <1>1, <2>1 DEF SameTunnels, Made
<1>2. ASSUME Worker, NEW peer \in work.todo, setupTunnelIface(peer) PROVE MadeOK'
  <2>1. work # Idle /\ work \in Work
    BY <1>2, WorkerFrame
  <2>2. peer \in Targets(work.nw) /\ Name(peer) \in LinkName
    BY <1>2, <2>1, SetupEffect
  <2>3. CASE links' = links
    BY <2>3 DEF MadeOK, Made
  <2>4. ASSUME NEW k \in 1 .. 4, ~PartialSetups => k >= 3,
               links' = [links EXCEPT ![Name(peer)] = SetUp(work.nw, peer, k)]
        PROVE  MadeOK'
    <3> DEFINE link == SetUp(work.nw, peer, k)
    <3>1. k >= 3 /\ work.nw \in Network /\ work.net \in Networks
      BY <2>1, <2>4 DEF Work
    <3>2. /\ link.net = work.net /\ link.port = work.nw.port
          /\ link.local = Local(work.nw).podIP /\ link.remote = peer.podIP
          /\ link.up /\ link.addrs = {Local(work.nw).ip}
      BY <2>2, <3>1, SetUpFields
    <3>3. \A l \in LinkName : links'[l] = IF l = Name(peer) THEN link ELSE links[l]
      BY <2>2, <2>4 DEF Inv, TypeOK
    <3> HIDE DEF link
    <3>4. work.nw \in Statuses[work.net] /\ Name(peer)[2] = peer.podName
      BY <2>1 DEF StatusOK, Name
    <3> SUFFICES ASSUME NEW l \in LinkName, links'[l] # Absent PROVE Made(l)'
      BY DEF MadeOK
    <3>5. CASE l = Name(peer)
      BY <2>2, <3>2, <3>3, <3>4, <3>5 DEF Made
    <3>6. CASE l # Name(peer)
      <4>1. Made(l) /\ links'[l] = links[l]
        BY <3>3, <3>6 DEF MadeOK
      <4> QED
        BY <4>1 DEF Made
    <3> QED
      BY <3>5, <3>6
  <2> QED
    BY <1>2, <2>1, <2>3, <2>4, SetupEffect
<1> QED
  BY <1>1, <1>2, TunnelsStay

\* A pod keeps its addresses in a network's statuses, the local one as well.
LEMMA SteadyLocal ==
    ASSUME SteadyPeers, NEW n \in Networks, NEW nw \in Statuses[n], NEW ow \in Statuses[n],
           NEW a \in Targets(nw), NEW b \in Targets(ow), a.podName = b.podName
    PROVE  /\ nw.port = ow.port /\ a.podIP = b.podIP /\ a.ip = b.ip
           /\ Local(nw).podIP = Local(ow).podIP /\ Local(nw).ip = Local(ow).ip
<1>1. ASSUME NEW x \in Statuses[n], NEW c \in Targets(x)
      PROVE  /\ \E d \in x.allocations : d.podName = c.podName /\ d.podIP = c.podIP /\ d.ip = c.ip
             /\ \E d \in x.allocations : d.podName = Me /\ d.podIP = Local(x).podIP /\ d.ip = Local(x).ip
  <2>1. \A e \in x.routers \cup x.allocations :
            \E d \in x.allocations : d.podName = e.podName /\ d.podIP = e.podIP /\ d.ip = e.ip
    BY TunnelerAssumption
  <2>2. IsRouter(x) \/ IsMember(x)
    BY <1>1 DEF Targets
  <2>3. Local(x) \in x.routers \cup x.allocations /\ Local(x).podName = Me
    BY <2>2 DEF Local, Member, IsRouter, IsMember
  <2>4. c \in x.routers \cup x.allocations
    BY <1>1 DEF Targets
  <2> QED
    BY <2>1, <2>3, <2>4
<1>2. PICK an \in nw.allocations, ln \in nw.allocations, bo \in ow.allocations, lo \in ow.allocations :
         /\ an.podName = a.podName /\ an.podIP = a.podIP /\ an.ip = a.ip
         /\ bo.podName = b.podName /\ bo.podIP = b.podIP /\ bo.ip = b.ip
         /\ ln.podName = Me /\ ln.podIP = Local(nw).podIP /\ ln.ip = Local(nw).ip
         /\ lo.podName = Me /\ lo.podIP = Local(ow).podIP /\ lo.ip = Local(ow).ip
  BY <1>1
<1>3. /\ nw.port = ow.port
      /\ \A c \in nw.allocations, d \in ow.allocations :
            c.podName = d.podName => c.podIP = d.podIP /\ c.ip = d.ip
  BY DEF SteadyPeers
<1> QED
  BY <1>2, <1>3

\* If networks keep their ports and pods their addresses, and setupTunnelIface
\* does not stop between LinkAdd and AddrAdd, a settled sidecar has a working
\* tunnel to every peer of its networks and to nobody else, whatever joined,
\* left, changed its role, failed, crashed and was restarted on the way, unless a
\* crash mixed up the numbers.
THEOREM LinksMatchHolds == ASSUME SteadyPeers, ~PartialSetups PROVE Spec => []LinksMatch
<1> DEFINE I == Inv /\ StatusOK /\ PeersOK /\ MadeOK
<1>1. Init => I
  <2>1. Init => PeersOK /\ MadeOK
    BY DEF Init, PeersOK, Reconciled, MadeOK
  <2> QED
    BY <2>1, InitInv, StatusInit
<1>2. I /\ [Next]_vars => I'
  BY NextInv, StatusNext, PeersNext, MadeNext
<1>3. ASSUME I PROVE LinksMatch
  <2> SUFFICES ASSUME Settled, OwnLinks, NEW n \in Networks, networks[n] # Absent
               PROVE  /\ \A a \in Targets(networks[n]) :
                            TunnelOK(networks[n], <<networkToName[n], a.podName>>, a)
                      /\ OnlyPeers(n, networks[n])
    BY DEF LinksMatch, OnlyPeers
  <2>1. /\ networkToName[n] \in Index /\ OnlyPeers(n, networks[n]) /\ AllPeers(n, networks[n])
        /\ networks[n] \in Network /\ networks[n] \in Statuses[n]
    BY <1>3, SettledReconciled DEF PeersOK, StatusOK, Inv, TypeOK
  <2>2. ASSUME NEW a \in Targets(networks[n])
        PROVE  TunnelOK(networks[n], <<networkToName[n], a.podName>>, a)
    <3> DEFINE l == <<networkToName[n], a.podName>>
    <3>1. l \in LinkName /\ l[1] = networkToName[n] /\ l[2] = a.podName
      BY <2>1, TargetsType DEF LinkName, Allocation
    <3>2. links[l] # Absent
      BY <2>1 DEF AllPeers
    <3> HIDE DEF l
    <3>3. links[l] \in Link
      BY <1>3, <3>1, <3>2 DEF Inv, TypeOK
    <3>4. networkToName[links[l].net] = networkToName[n] /\ links[l].net \in Networks
      BY <3>1, <3>2, <3>3 DEF OwnLinks, Link
    <3>5. links[l].net = n
      BY <1>3, <2>1, <3>4, IndexIsNat DEF Inv, NumbersOK
    <3>6. Made(l)
      BY <1>3, <3>1, <3>2 DEF MadeOK
    <3>7. PICK nw \in Statuses[n] : \E b \in Targets(nw) :
             /\ b.podName = l[2]
             /\ links[l].local = Local(nw).podIP /\ links[l].remote = b.podIP
             /\ links[l].port = nw.port /\ links[l].up /\ links[l].addrs = {Local(nw).ip}
      BY <3>5, <3>6 DEF Made
    <3>8. PICK b \in Targets(nw) :
             /\ b.podName = a.podName
             /\ links[l].local = Local(nw).podIP /\ links[l].remote = b.podIP
             /\ links[l].port = nw.port /\ links[l].up /\ links[l].addrs = {Local(nw).ip}
      BY <3>1, <3>7
    <3>9. /\ nw.port = networks[n].port /\ b.podIP = a.podIP
          /\ Local(nw).podIP = Local(networks[n]).podIP /\ Local(nw).ip = Local(networks[n]).ip
      BY <2>1, <3>8, SteadyLocal
    <3>10. TunnelOK(networks[n], l, a)
      BY <3>2, <3>8, <3>9 DEF TunnelOK
    <3> QED
      BY <3>10 DEF l
  <2> QED
    BY <2>1, <2>2
<1> HIDE DEF I
<1> QED
  BY <1>1, <1>2, <1>3, PTL DEF Spec

-------------------------------------------------------------------------------
(* Routes *)

\* When SameRoute takes no two routes for the same, a turn of reconcileRoutes
\* that does not fail leaves exactly the routes asked for.
LEMMA RoutesTurn ==
    ASSUME RoutesApart, work.net \in Networks, work.nw \in Statuses[work.net],
           NEW peer \in Targets(work.nw), \A r \in links[Name(peer)].routes : Asked(Name(peer), r)
    PROVE  (links[Name(peer)].routes \ Stale(peer)) \cup Missing(peer) = Wanted(work.nw, peer)
<1> DEFINE old == links[Name(peer)].routes
           wanted == Wanted(work.nw, peer)
<1>1. ASSUME NEW r \in old, NEW t \in wanted, SameRoute(r, t) PROVE r = t
  <2>1. PICK n \in Networks : \E nw \in Statuses[n] : \E a \in Targets(nw) :
            a.podName = Name(peer)[2] /\ r \in Wanted(nw, a)
    BY DEF Asked
  <2>2. PICK nw \in Statuses[n] : \E a \in Targets(nw) :
            a.podName = Name(peer)[2] /\ r \in Wanted(nw, a)
    BY <2>1
  <2>3. PICK a \in Targets(nw) : a.podName = Name(peer)[2] /\ r \in Wanted(nw, a)
    BY <2>2
  <2>4. a.podName = peer.podName
    BY <2>3 DEF Name
  <2> QED
    BY <1>1, <2>3, <2>4 DEF RoutesApart
<1>2. \A t \in wanted : SameRoute(t, t)
  BY DEF SameRoute, netEqual
<1>3. Stale(peer) = {r \in old : \A t \in wanted : ~SameRoute(r, t)}
  BY DEF Stale, StaleRoutes
<1>4. Missing(peer) = {t \in wanted : \A r \in old : ~SameRoute(r, t)}
  BY DEF Missing
<1> HIDE DEF old, wanted
<1>5. ASSUME NEW r \in old, r \notin Stale(peer) PROVE r \in wanted
  BY <1>1, <1>3, <1>5
<1>6. ASSUME NEW t \in wanted, t \notin Missing(peer) PROVE t \in old /\ t \notin Stale(peer)
  BY <1>1, <1>2, <1>3, <1>4, <1>6
<1>7. Missing(peer) \subseteq wanted
  BY <1>4
<1>8. (old \ Stale(peer)) \cup Missing(peer) = wanted
  BY <1>5, <1>6, <1>7
<1> QED
  BY <1>8 DEF old, wanted

\* Peers of one name are asked for the same routes.
LEMMA WantedByName ==
    ASSUME SteadyPeers, NEW n \in Networks, NEW nw \in Statuses[n],
           NEW a \in Targets(nw), NEW b \in Targets(nw), a.podName = b.podName
    PROVE  Wanted(nw, a) = Wanted(nw, b)
<1>1. a.ip = b.ip
  BY SteadyLocal
<1> QED
  BY <1>1 DEF Wanted, OwnRoute

\* Links only ever get routes that are asked for over them.
LEMMA AskedNext ==
    ASSUME Inv, StatusOK, \A l \in LinkName : links[l] # Absent => \A r \in links[l].routes : Asked(l, r),
           [Next]_vars
    PROVE  \A l \in LinkName : links'[l] # Absent => \A r \in links'[l].routes : Asked(l, r)
<1>1. ASSUME \A l \in LinkName : links'[l] = links[l] \/ links'[l] = Absent
      PROVE  \A l \in LinkName : links'[l] # Absent => \A r \in links'[l].routes : Asked(l, r)
  BY <1>1
<1>2. CASE links' = links
  BY <1>2
<1>3. CASE Shutdown
  BY <1>1, <1>3 DEF Shutdown
<1>4. CASE Worker /\ DeleteLinks
  BY <1>1, <1>4, WorkerFrame, DeleteEffect
<1>5. ASSUME Worker, NEW peer \in work.todo, setupTunnelIface(peer) \/ reconcileRoutes(peer),
             NEW l \in LinkName, links'[l] # Absent, NEW r \in links'[l].routes
      PROVE  Asked(l, r)
  <2>1. work # Idle /\ work \in Work /\ work.nw \in Network
    BY <1>5, WorkerFrame DEF Work
  <2>2. work.net \in Networks /\ work.nw \in Statuses[work.net]
    BY <2>1 DEF StatusOK
  <2>3. peer \in Targets(work.nw) /\ Name(peer) \in LinkName
    BY <1>5, <2>1, SetupEffect, RoutesEffect
  <2>4. Name(peer)[2] = peer.podName
    BY DEF Name
  <2>5. ASSUME NEW t \in Wanted(work.nw, peer) PROVE Asked(Name(peer), t)
    BY <2>2, <2>3, <2>4 DEF Asked
  <2>6. CASE links' = links
    BY <1>5, <2>6
  <2>7. ASSUME NEW link, links' = [links EXCEPT ![Name(peer)] = link],
               \A t \in link.routes : Asked(Name(peer), t)
        PROVE  Asked(l, r)
    <3>1. CASE l = Name(peer)
      BY <1>5, <2>3, <2>7, <3>1 DEF Inv, TypeOK
    <3>2. CASE l # Name(peer)
      BY <1>5, <2>3, <2>7, <3>2 DEF Inv, TypeOK
    <3> QED
      BY <3>1, <3>2
  <2>8. CASE setupTunnelIface(peer) /\ links' # links
    <3>1. PICK k \in 1 .. 4 : links' = [links EXCEPT ![Name(peer)] = SetUp(work.nw, peer, k)]
      BY <1>5, <2>1, <2>8, SetupEffect
    <3>2. SetUp(work.nw, peer, k).routes \subseteq {OwnRoute(work.nw, peer)}
      BY <2>1, <2>2, <2>3, SetUpFields
    <3>3. \A t \in SetUp(work.nw, peer, k).routes : Asked(Name(peer), t)
      BY <2>5, <3>2 DEF Wanted
    <3> QED
      BY <2>7, <3>1, <3>3
  <2>9. CASE reconcileRoutes(peer)
    <3>1. PICK gone \in SUBSET Stale(peer), new \in SUBSET Missing(peer) :
             links' = [links EXCEPT ![Name(peer)] =
                 [links[Name(peer)] EXCEPT !.routes = (links[Name(peer)].routes \ gone) \cup new]]
      BY <1>5, <2>1, <2>9, RoutesEffect
    <3> DEFINE routes == (links[Name(peer)].routes \ gone) \cup new
               link == [links[Name(peer)] EXCEPT !.routes = routes]
    <3>2. links[Name(peer)] \in Link /\ links[Name(peer)] # Absent
      BY <1>5, <2>1, <2>9, RoutesEffect, TunnelerAssumption
    <3>3. new \subseteq Wanted(work.nw, peer)
      BY DEF Missing
    <3>4. \A t \in routes : Asked(Name(peer), t)
      BY <2>3, <2>5, <3>2, <3>3
    <3> HIDE DEF routes
    <3>5. link.routes = routes
      BY <3>2 DEF Link
    <3>6. links' = [links EXCEPT ![Name(peer)] = link]
      BY <3>1 DEF routes
    <3> HIDE DEF link
    <3> QED
      BY <2>7, <3>4, <3>5, <3>6
  <2> QED
    BY <1>5, <2>6, <2>8, <2>9
<1>6. CASE Worker /\ ~DeleteLinks /\ ~\E peer \in work.todo : setupTunnelIface(peer) \/ reconcileRoutes(peer)
  BY <1>2, <1>6 DEF Worker, reconcileFOU, LinkListFails, LinksDone, Finish, kernel
<1>7. CASE ~Worker /\ ~Shutdown
  BY <1>2, <1>7 DEF Next, Start, Sync, Crash, Restart, NetworkChange, vars, kernel
<1> QED
  BY <1>3, <1>4, <1>5, <1>6, <1>7 DEF Next

\* The routes of a network are the ones asked for again when a reconciliation
\* ends, and stay so.
LEMMA RoutesNext ==
    ASSUME SteadyPeers, RoutesApart, Inv, StatusOK, PeersOK, RoutesOK, [Next]_vars
    PROVE  RoutesOK'
<1>1. \A l \in LinkName : links'[l] # Absent => \A r \in links'[l].routes : Asked(l, r)
  BY AskedNext DEF RoutesOK
<1>2. ASSUME NEW n \in Networks, Reconciled(n)', NEW a \in Targets(cache'[n])
      PROVE  links'[<<networkToName'[n], a.podName>>].routes = Wanted(cache'[n], a)
  <2>1. cache'[n] = cache[n] /\ cache[n] # Absent /\ cache[n] \in Network
    BY <1>2, Kept DEF Reconciled, Inv, TypeOK
  <2>2. CASE Worker /\ Finish /\ n = work.net /\ work.nw = cache[n]
    <3>1. work # Idle /\ work.pc = "routes" /\ work.todo = {} /\ UNCHANGED <<links, networkToName>>
      BY <2>2 DEF Worker, Finish, kernel
    <3>2. links[Name(a)].routes = Wanted(work.nw, a)
      BY <1>2, <2>1, <2>2, <3>1 DEF RoutesOK
    <3> QED
      BY <2>1, <2>2, <3>1, <3>2 DEF Name
  <2>3. CASE /\ Reconciled(n) /\ networkToName[n] \in Index
             /\ networkToName'[n] = networkToName[n]
             /\ \A l \in LinkName : l[1] = networkToName[n] => links'[l] = links[l]
    <3>1. <<networkToName[n], a.podName>> \in LinkName
      BY <1>2, <2>1, <2>3, TargetsType DEF LinkName, Allocation
    <3>2. links[<<networkToName[n], a.podName>>].routes = Wanted(cache[n], a)
      BY <1>2, <2>1, <2>3 DEF RoutesOK
    <3> QED
      BY <2>1, <2>3, <3>1, <3>2
  <2> QED
    BY <1>2, <2>2, <2>3, Kept
<1>3. ASSUME work' # Idle, work'.pc = "routes", NEW a \in Targets(work'.nw) \ work'.todo
      PROVE  links'[Name(a)'].routes = Wanted(work'.nw, a)
  <2>1. CASE ~Worker
    <3>1. UNCHANGED <<work, networkToName, links>>
      BY <1>3, <2>1, WorkKept
    <3> QED
      BY <1>3, <3>1 DEF RoutesOK, Name
  <2>2. CASE Worker
    <3>1. /\ work # Idle /\ work \in Work /\ work'.net = work.net /\ work'.nw = work.nw
          /\ work.net \in Networks /\ work.nw \in Statuses[work.net]
      BY <1>3, <2>2, WorkerFrame DEF StatusOK
    <3>2. ~Finish /\ ~LinkListFails
      BY <1>3 DEF Finish, LinkListFails, Fail
    <3>3. ~reconcileFOU
      <4>1. ASSUME reconcileFOU PROVE Step("links", {})
        BY <1>3, <4>1 DEF reconcileFOU, Fail
      <4>2. {} \subseteq Allocation
        OBVIOUS
      <4> QED
        BY <1>3, <3>1, <4>1, <4>2, StepType DEF Inv
    <3>4. ~DeleteLinks /\ \A peer \in work.todo : ~setupTunnelIface(peer)
      BY <1>3, <3>1, DeleteEffect, SetupEffect
    <3>5. ~LinksDone
      <4>1. Targets(work.nw) \subseteq Allocation
        BY <3>1, TargetsType DEF Work
      <4>2. LinksDone => work'.todo = Targets(work.nw)
        BY <3>1, <4>1, StepType DEF LinksDone, Inv
      <4> QED
        BY <1>3, <3>1, <4>2
    <3>6. PICK peer \in work.todo : reconcileRoutes(peer)
      BY <2>2, <3>2, <3>3, <3>4, <3>5 DEF Worker
    <3>7. /\ peer \in Targets(work.nw) /\ Name(peer) \in LinkName
          /\ links[Name(peer)] \in Link /\ links[Name(peer)] # Absent
      BY <3>1, <3>6, RoutesEffect, TunnelerAssumption
    <3>8. /\ links' = [links EXCEPT ![Name(peer)] = [links[Name(peer)] EXCEPT
                !.routes = (links[Name(peer)].routes \ Stale(peer)) \cup Missing(peer)]]
          /\ Step("routes", work.todo \ {peer})
      BY <1>3, <3>1, <3>6, RoutesEffect DEF Fail
    <3>9. (links[Name(peer)].routes \ Stale(peer)) \cup Missing(peer) = Wanted(work.nw, peer)
      <4>1. \A r \in links[Name(peer)].routes : Asked(Name(peer), r)
        BY <3>7 DEF RoutesOK
      <4> QED
        BY <3>1, <3>7, <4>1, RoutesTurn
    <3> DEFINE link == [links[Name(peer)] EXCEPT !.routes = Wanted(work.nw, peer)]
    <3>10. links' = [links EXCEPT ![Name(peer)] = link]
      BY <3>8, <3>9
    <3>11. link.routes = Wanted(work.nw, peer)
      BY <3>7 DEF Link
    <3> HIDE DEF link
    <3>12. work.todo \ {peer} \subseteq Allocation /\ work.pc = "routes" /\ networkToName' = networkToName
      BY <3>1, <3>6 DEF Work, reconcileRoutes
    <3>13. work'.todo = work.todo \ {peer}
      BY <3>1, <3>8, <3>12, StepType DEF Inv
    <3>14. a \in Targets(work.nw) /\ (a = peer \/ a \notin work.todo) /\ Name(a)' = Name(a)
      BY <1>3, <3>1, <3>12, <3>13 DEF Name
    <3>15. CASE a.podName = peer.podName
      <4>1. Wanted(work.nw, a) = Wanted(work.nw, peer) /\ Name(a) = Name(peer)
        BY <3>1, <3>7, <3>14, <3>15, WantedByName DEF Name
      <4> QED
        BY <3>1, <3>7, <3>10, <3>11, <3>14, <4>1 DEF Inv, TypeOK
    <3>16. CASE a.podName # peer.podName
      <4>1. Name(a) # Name(peer)
        BY <3>16 DEF Name
      <4>2. Name(a) \in LinkName
        BY <3>7, <3>14, <3>1, TargetsType DEF LinkName, Name, Work, Allocation
      <4>3. links'[Name(a)] = links[Name(a)]
        BY <3>10, <4>1, <4>2 DEF Inv, TypeOK
      <4>4. links[Name(a)].routes = Wanted(work.nw, a)
        BY <3>1, <3>12, <3>14, <3>16 DEF RoutesOK
      <4> QED
        BY <3>1, <3>14, <4>3, <4>4
    <3> QED
      BY <3>15, <3>16
  <2> QED
    BY <2>1, <2>2
<1> QED
  BY <1>1, <1>2, <1>3 DEF RoutesOK

\* If pods keep their addresses and no two routes over a link have masks of one
\* length and the same gateway, the links of a settled sidecar have exactly the
\* routes their networks ask for, whatever was added, withdrawn or refused on
\* the way and wherever a reconciliation stopped.
THEOREM RoutesMatchHolds == ASSUME SteadyPeers, RoutesApart PROVE Spec => []RoutesMatch
<1> DEFINE I == Inv /\ StatusOK /\ PeersOK /\ RoutesOK
<1>1. Init => I
  <2>1. Init => PeersOK /\ RoutesOK
    BY DEF Init, PeersOK, Reconciled, RoutesOK
  <2> QED
    BY <2>1, InitInv, StatusInit
<1>2. I /\ [Next]_vars => I'
  BY NextInv, StatusNext, PeersNext, RoutesNext
<1>3. I => RoutesMatch
  BY SettledReconciled DEF RoutesMatch, RoutesOK
<1> HIDE DEF I
<1> QED
  BY <1>1, <1>2, <1>3, PTL DEF Spec

===============================================================================
