------------------------------- MODULE Tunneler -------------------------------
(***************************************************************************)
(* The sidecar of one pod: the TunnelReconciler of tunneler/, which turns  *)
(* the status of every OverlayNetwork into tunnel links, addresses, routes *)
(* and receiving ports of the pod's network namespace.                     *)
(*                                                                         *)
(* The namespace belongs to the pod and outlives the sidecar's process;    *)
(* the process keeps only the numbers it gave to the networks, from which  *)
(* the links get their names.  One worker reconciles one network at a      *)
(* time, from the cached copy it reads first, in the order of the code:    *)
(* receiving port, links to delete, links to set up, routes.  Nobody else  *)
(* changes the namespace, so a call that fails or a process that dies      *)
(* between two calls of a step is the step's partial effect.               *)
(***************************************************************************)
EXTENDS TunnelPlan, FiniteSets

CONSTANTS
    Networks,       \* overlay network names
    Statuses,       \* per network, what the API server may hold for it
    LetterIndices,  \* numbers whose letter linkNameRegex accepts: A-Z, a-z
    Absent,         \* in place of an object that does not exist
    PartialSetups,  \* may setupTunnelIface stop between LinkAdd and AddrAdd?
    Leftovers,      \* may a process end without deleting its links?
    MaxOps,         \* bound: changes of networks and restarts
    MaxFaults       \* bound: failing netlink calls and crashes

VARIABLES
    networks,       \* API server: overlay networks
    cache,          \* informer cache of the sidecar
    queue,          \* work queue of the reconciler
    networkToName,  \* the number of each network, or -1
    work,           \* the reconciliation under way
    links,          \* kernel: tunnel links by name
    fou,            \* kernel: ports that receive FOU packets
    mode,           \* "running", "shutdown" or "crashed"
    ops, faults     \* what is left of MaxOps and MaxFaults

kernel == <<links, fou>>
process == <<cache, queue, networkToName, work, mode>>
vars == <<networks, process, kernel, ops, faults>>

-------------------------------------------------------------------------------
(* Links *)

Index == 0 .. Cardinality(Networks) - 1

\* A link's name is the letter of its network and the hash of the peer's name.
LinkName == Index \X Pods

\* The field net is history: the network the link was made for.
Link == [net : Networks, port : Nat, local : Nat, remote : Nat, up : BOOLEAN,
         addrs : SUBSET Nat, routes : SUBSET Route]

ASSUME TunnelerAssumption ==
    /\ IsFiniteSet(Networks) /\ Me \in Pods /\ Networks # {}
    /\ Statuses \in [Networks -> SUBSET Network]
    /\ \A n \in Networks : \A nw \in Statuses[n] : \A a \in nw.routers :
          \E b \in nw.allocations : b.podName = a.podName /\ b.podIP = a.podIP /\ b.ip = a.ip
    /\ LetterIndices \subseteq Nat
    /\ Absent \notin Network /\ Absent \notin Link
    /\ NoGw \notin Nat
    /\ PartialSetups \in BOOLEAN /\ Leftovers \in BOOLEAN
    /\ MaxOps \in Nat /\ MaxFaults \in Nat

-------------------------------------------------------------------------------
(* Reconcile and its steps.  A step that returns an error ends the         *)
(* reconciliation and brings the network back into the queue.              *)

Idle == [pc |-> "idle"]

Work == [pc : {"fou", "links", "setup", "routes"}, net : Networks, nw : Network,
         todo : SUBSET Allocation]

Fault == faults > 0 /\ faults' = faults - 1

Step(pc, todo) == work' = [work EXCEPT !.pc = pc, !.todo = todo] /\ UNCHANGED <<queue, faults>>

Fail == work' = Idle /\ queue' = queue \cup {work.net}

Name(peer) == <<networkToName[work.net], peer.podName>>

\* Mutant: counting starts at one.
getNetworkIdFromOne(n) ==
    IF networkToName[n] # -1 THEN networkToName
    ELSE [networkToName EXCEPT ![n] = 1 + Cardinality({m \in Networks : networkToName[m] # -1})]

\* Mutant: the number of a network that is gone is given away.
getNetworkIdReused(n) ==
    IF networkToName[n] # -1 THEN networkToName
    ELSE [networkToName EXCEPT ![n] =
             Cardinality({m \in Networks : networkToName[m] # -1 /\ cache[m] # Absent})]

\* networkToName after getNetworkId(n): a network without a number gets the
\* next one, networkIndex.
getNetworkId(n) ==
    IF networkToName[n] # -1 THEN networkToName
    ELSE [networkToName EXCEPT ![n] = Cardinality({m \in Networks : networkToName[m] # -1})]

\* Reconcile up to reconcileTunnelInterfaces.  A network that is gone is left
\* alone; getTunnelId numbers one that has peers.
Start(n) ==
    /\ mode = "running" /\ work = Idle
    /\ n \in queue
    /\ queue' = queue \ {n}
    /\ IF cache[n] = Absent
       THEN UNCHANGED <<work, networkToName>>
       ELSE /\ work' = [pc |-> "fou", net |-> n, nw |-> cache[n], todo |-> {}]
            /\ networkToName' = IF Targets(cache[n]) # {} THEN getNetworkId(n) ELSE networkToName
    /\ UNCHANGED <<networks, cache, mode, kernel, ops, faults>>

\* Mutant: the port of a network the pod left stays open.
FouPortsKept(port, shouldBePresent) ==
    IF shouldBePresent THEN fou \cup {port} ELSE fou

\* The ports after a successful reconcileFOU.
FouPorts(port, shouldBePresent) ==
    IF shouldBePresent THEN fou \cup {port} ELSE fou \ {port}

reconcileFOU ==
    /\ work.pc = "fou"
    /\ \/ /\ fou' = FouPorts(work.nw.port, Targets(work.nw) # {})
          /\ Step("links", {})
       \/ Fault /\ Fail /\ UNCHANGED fou
    /\ UNCHANGED <<networks, cache, networkToName, mode, links, ops>>

\* Mutant: the prefix is not compared.
StaleLinksOfAll ==
    {l \in LinkName : links[l] # Absent /\ l[2] \notin {a.podName : a \in Targets(work.nw)}}

\* The links of the network that it no longer asks for.
StaleLinks ==
    {l \in LinkName : /\ links[l] # Absent
                      /\ l[1] = getNetworkId(work.net)[work.net]
                      /\ l[2] \notin {a.podName : a \in Targets(work.nw)}}

\* reconcileTunnelInterfaces cannot list the links, the network is not numbered.
LinkListFails ==
    /\ work.pc = "links"
    /\ Fault
    /\ Fail
    /\ UNCHANGED <<networks, cache, networkToName, mode, kernel, ops>>

\* The first loop of reconcileTunnelInterfaces: delete stale links, some of
\* them when a deletion fails; every other link is taken as it is.
DeleteLinks ==
    /\ work.pc = "links"
    /\ networkToName' = getNetworkId(work.net)
    /\ \E gone \in SUBSET StaleLinks :
          /\ links' = [l \in LinkName |-> IF l \in gone THEN Absent ELSE links[l]]
          /\ \/ /\ gone = StaleLinks
                /\ Step("setup", {a \in Targets(work.nw) :
                      links[<<networkToName'[work.net], a.podName>>] = Absent})
             \/ Fault /\ Fail
    /\ UNCHANGED <<networks, cache, mode, fou, ops>>

\* Kernel: RouteAdd refuses a destination that is in the table already.
Refused(new, table) ==
    \/ \E r \in new : \E l \in LinkName : table[l] # Absent /\ \E s \in table[l].routes : s.dst = r.dst
    \/ \E r, s \in new : r # s /\ r.dst = s.dst

\* What LinkAdd of setupTunnelIface creates.
LinkAdd(nw, peer) ==
    [net |-> work.net, port |-> nw.port, local |-> Local(nw).podIP, remote |-> peer.podIP,
     up |-> FALSE, addrs |-> {}, routes |-> {}]

\* Kernel: LinkAdd refuses a second tunnel between the same two endpoints,
\* whatever its ports.
Taken(nw, peer) ==
    \E l \in LinkName : /\ links[l] # Absent
                        /\ links[l].local = Local(nw).podIP /\ links[l].remote = peer.podIP

\* Mutant: every address is added with a host mask.
SetUpHostMask(nw, peer, k) ==
    LET own == OwnRoute(nw, peer)
    IN  [LinkAdd(nw, peer) EXCEPT
            !.up = k >= 2,
            !.addrs = IF k >= 3 THEN {own.src} ELSE {},
            !.routes = IF k = 4 /\ IsRouter(nw) THEN {own} ELSE {}]

\* setupTunnelIface after its first k calls: LinkAdd, LinkSetUp, AddrAdd (with
\* the network's mask the kernel adds the network's route), and a router's
\* RouteAdd.
SetUp(nw, peer, k) ==
    LET own == OwnRoute(nw, peer)
    IN  [LinkAdd(nw, peer) EXCEPT
            !.up = k >= 2,
            !.addrs = IF k >= 3 THEN {own.src} ELSE {},
            !.routes = IF k = 4 \/ (k = 3 /\ ~IsRouter(nw)) THEN {own} ELSE {}]

\* Calls after which setupTunnelIface may return an error.
Stops(nw) == (IF PartialSetups THEN {0, 1, 2} ELSE {0}) \cup (IF IsRouter(nw) THEN {3} ELSE {})

setupTunnelIface(peer) ==
    LET refused == IsRouter(work.nw) /\ Refused({OwnRoute(work.nw, peer)}, links)
    IN  /\ work.pc = "setup"
        /\ peer \in work.todo
        /\ \E k \in 0 .. 4 :
              /\ links' = IF k = 0 THEN links ELSE [links EXCEPT ![Name(peer)] = SetUp(work.nw, peer, k)]
              /\ Taken(work.nw, peer) => k = 0
              /\ \/ k = 0 /\ Taken(work.nw, peer) /\ Fail /\ UNCHANGED faults
                 \/ k = 4 /\ ~refused /\ Step("setup", work.todo \ {peer})
                 \/ k = 3 /\ refused /\ Fail /\ UNCHANGED faults
                 \/ k \in Stops(work.nw) /\ Fault /\ Fail
        /\ UNCHANGED <<networks, cache, networkToName, mode, fou, ops>>

\* All links exist: on to reconcileRoutes.
LinksDone ==
    /\ work.pc = "setup"
    /\ work.todo = {}
    /\ Step("routes", Targets(work.nw))
    /\ UNCHANGED <<networks, cache, networkToName, mode, kernel, ops>>

\* netEqual compares the lengths of the two masks, and n1.IP with itself.
netEqual(n1, n2) == n1.len = n2.len

\* A listed route is the own route, or one of the target routes.
SameRoute(route, target) ==
    /\ netEqual(route.dst, target.dst)
    /\ route.gw = target.gw
    /\ target.gw = NoGw => route.src = target.src

\* Mutant: routes are only ever added.
StaleRoutesNone(old, target) == {}

\* The routes of a link that no target accounts for.
StaleRoutes(old, target) == {r \in old : \A t \in target : ~SameRoute(r, t)}

\* One turn of the loop of reconcileRoutes: delete the routes of the link that
\* no target accounts for, add the targets no route accounts for.  A target that
\* is listed twice is refused the second time and found at the next attempt.
reconcileRoutes(peer) ==
    LET target == {OwnRoute(work.nw, peer)} \cup TargetRoutes(work.nw)
        old == links[Name(peer)].routes
        stale == StaleRoutes(old, target)
        missing == {t \in target : \A r \in old : ~SameRoute(r, t)}
        After(gone) == [links EXCEPT ![Name(peer)].routes = @ \ gone]
    IN  /\ work.pc = "routes"
        /\ peer \in work.todo
        /\ \E gone \in SUBSET stale, new \in SUBSET missing :
              /\ new # {} => gone = stale
              /\ ~Refused(new, After(gone))
              /\ links' = [After(gone) EXCEPT ![Name(peer)].routes = @ \cup new]
              /\ \/ gone = stale /\ new = missing /\ Step("routes", work.todo \ {peer})
                 \/ /\ gone = stale
                    /\ \E r \in missing \ new : Refused({r}, links')
                    /\ Fail /\ UNCHANGED faults
                 \/ Fault /\ Fail
        /\ UNCHANGED <<networks, cache, networkToName, mode, fou, ops>>

\* Reconcile returns without an error.
Finish ==
    /\ work.pc = "routes"
    /\ work.todo = {}
    /\ work' = Idle
    /\ UNCHANGED <<networks, cache, queue, networkToName, mode, kernel, ops, faults>>

-------------------------------------------------------------------------------
(* The process and its environment *)

\* The watch brings the cache up to date and queues the network.
Sync(n) ==
    /\ mode = "running"
    /\ cache[n] # networks[n]
    /\ cache' = [cache EXCEPT ![n] = networks[n]]
    /\ queue' = queue \cup {n}
    /\ UNCHANGED <<networks, networkToName, work, mode, kernel, ops, faults>>

UserOp == ops > 0 /\ ops' = ops - 1

\* SIGTERM: the manager ends the reconciliation under way, Shutdown deletes the
\* links linkNameRegex matches.
Shutdown ==
    /\ UserOp
    /\ mode = "running" /\ work = Idle
    /\ mode' = "shutdown"
    /\ links' = [l \in LinkName |-> IF l[1] \in LetterIndices THEN Absent ELSE links[l]]
    /\ UNCHANGED <<networks, cache, queue, networkToName, work, fou, faults>>

\* The process dies, or cannot delete its links.
Crash ==
    /\ Leftovers
    /\ Fault
    /\ mode = "running"
    /\ mode' = "crashed"
    /\ UNCHANGED <<networks, cache, queue, networkToName, work, kernel, ops>>

\* The kubelet starts the container again, in the same network namespace:
\* SetupWithManager starts with no numbers, the informer lists everything.
Restart ==
    /\ mode # "running"
    /\ mode' = "running"
    /\ cache' = networks
    /\ queue' = {n \in Networks : networks[n] # Absent}
    /\ networkToName' = [n \in Networks |-> -1]
    /\ work' = Idle
    /\ UNCHANGED <<networks, kernel, ops, faults>>

\* The operator or a user changes, creates or removes a network.
NetworkChange(n, nw) ==
    /\ UserOp
    /\ nw # networks[n]
    /\ networks' = [networks EXCEPT ![n] = nw]
    /\ UNCHANGED <<process, kernel, faults>>

Init ==
    /\ networks \in [Networks -> UNION {Statuses[n] : n \in Networks} \cup {Absent}]
    /\ \A n \in Networks : networks[n] \in Statuses[n] \cup {Absent}
    /\ cache = networks
    /\ queue = {n \in Networks : networks[n] # Absent}
    /\ networkToName = [n \in Networks |-> -1]
    /\ work = Idle
    /\ links = [l \in LinkName |-> Absent]
    /\ fou = {}
    /\ mode = "running"
    /\ ops = MaxOps
    /\ faults = MaxFaults

Worker ==
    /\ mode = "running"
    /\ work # Idle
    /\ \/ reconcileFOU \/ LinkListFails \/ DeleteLinks \/ LinksDone \/ Finish
       \/ \E peer \in work.todo : setupTunnelIface(peer) \/ reconcileRoutes(peer)

Next ==
    \/ Worker
    \/ \E n \in Networks : Start(n) \/ Sync(n)
    \/ Shutdown \/ Crash \/ Restart
    \/ \E n \in Networks : \E nw \in Statuses[n] \cup {Absent} : NetworkChange(n, nw)

Spec == Init /\ [][Next]_vars

\* The worker goes on, serves its queue in turn, the informer delivers, the
\* kubelet restarts the container.
Fairness ==
    /\ WF_vars(Worker) /\ WF_vars(Restart)
    /\ \A n \in Networks : SF_vars(Start(n)) /\ WF_vars(Sync(n))

FairSpec == Spec /\ Fairness

-------------------------------------------------------------------------------
(* Invariants.  Most speak of a sidecar that has settled: it has seen every *)
(* change and its queue is empty.                                           *)

\* Every variable has its type.
TypeOK ==
    /\ networks \in [Networks -> Network \cup {Absent}]
    /\ cache \in [Networks -> Network \cup {Absent}]
    /\ queue \subseteq Networks
    /\ networkToName \in [Networks -> Index \cup {-1}]
    /\ work = Idle \/ work \in Work
    /\ links \in [LinkName -> Link \cup {Absent}]
    /\ fou \subseteq Nat
    /\ mode \in {"running", "shutdown", "crashed"}
    /\ ops \in Nat /\ faults \in Nat

Settled == mode = "running" /\ work = Idle /\ queue = {} /\ cache = networks

\* Two networks never share a number: the links of one would be deleted or
\* taken over by the reconciliation of the other.
NumbersDistinct ==
    \A n, m \in Networks :
        networkToName[n] = networkToName[m] /\ networkToName[n] # -1 => n = m

\* Peer a of nw has its tunnel under this name: the right endpoints and port,
\* up, and with the address this pod has in the network.
TunnelOK(nw, name, a) ==
    /\ links[name] # Absent
    /\ links[name].local = Local(nw).podIP /\ links[name].remote = a.podIP
    /\ links[name].port = nw.port
    /\ links[name].up
    /\ links[name].addrs = {Local(nw).ip}

\* Every network goes by the number its links are named after.  Links outlive a
\* crash and numbers do not, so with several networks a new process may give a
\* network another number than its links have.
OwnLinks == \A l \in LinkName : links[l] # Absent => networkToName[links[l].net] = l[1]

\* A settled sidecar has a working tunnel to every peer its network asks for
\* and to nobody else, whatever joined, left, changed its role, failed or
\* restarted on the way, unless a crash mixed up the numbers.
LinksMatch ==
    Settled /\ OwnLinks => \A n \in Networks : networks[n] # Absent =>
        /\ \A a \in Targets(networks[n]) :
              TunnelOK(networks[n], <<networkToName[n], a.podName>>, a)
        /\ \A l \in LinkName : links[l] # Absent /\ l[1] = networkToName[n] =>
              \E a \in Targets(networks[n]) : a.podName = l[2]

\* The routes of the link to this peer.
Wanted(nw, peer) == {OwnRoute(nw, peer)} \cup TargetRoutes(nw)

\* The links of a settled sidecar have exactly the routes of the network:
\* tunneler/network_controller.go:328 says "reconcileRoutes matches the
\* currently deployed route for interfaces in a single overlay network to match
\* extraCidrs".
RoutesMatch ==
    Settled /\ OwnLinks => \A n \in Networks : networks[n] # Absent =>
        \A a \in Targets(networks[n]) :
            links[<<networkToName[n], a.podName>>].routes = Wanted(networks[n], a)

\* A settled sidecar receives on the port of every network it has peers in, and
\* on no port of a network it has left.
PortsMatch ==
    Settled => \A n \in Networks : networks[n] # Absent =>
        (networks[n].port \in fou <=> Targets(networks[n]) # {})

\* What network_controller.go:303 says: "we consider the FOU required if there
\* is one or more links present for the given network".
PortOpenForLinks ==
    Settled => \A n \in Networks : networks[n] # Absent =>
        (Targets(networks[n]) # {} => networks[n].port \in fou)

\* What network_controller.go:236 says when reconcileRoutes is called: "at this
\* point all links exist, and the allocatable-cidr-routes are setup properly".
LinksReady ==
    work.pc = "routes" =>
        \A a \in Targets(work.nw) :
            /\ TunnelOK(work.nw, Name(a), a)
            /\ OwnRoute(work.nw, a) \in links[Name(a)].routes

-------------------------------------------------------------------------------
(* What the code relies on in the statuses it is shown.  Without it a       *)
(* settled sidecar need not match its networks.                             *)

\* No two networks ever use the same port.
PortsApart ==
    \A n, m \in Networks : n # m =>
        \A nw \in Statuses[n], ow \in Statuses[m] : nw.port # ow.port

\* A network keeps its port, and a pod its two addresses for as long as its name
\* is in use: reconcileTunnelInterfaces never looks at a link that exists.
SteadyPeers ==
    \A n \in Networks : \A nw, ow \in Statuses[n] :
        /\ nw.port = ow.port
        /\ \A a \in nw.allocations, b \in ow.allocations :
              a.podName = b.podName => a.podIP = b.podIP /\ a.ip = b.ip

\* Of the routes that are ever asked for over the link to a pod, SameRoute takes
\* no two for the same.
RoutesApart ==
    \A n, m \in Networks : \A nw \in Statuses[n], ow \in Statuses[m] :
        \A a \in Targets(nw), b \in Targets(ow) : a.podName = b.podName =>
            \A r \in Wanted(nw, a), t \in Wanted(ow, b) : SameRoute(r, t) => r = t

-------------------------------------------------------------------------------
(* Liveness *)

\* When the networks stop changing the sidecar settles: no reconciliation
\* fails for ever, unless a crash mixed up the numbers.
Converges == <>[]Settled \/ <>[]~OwnLinks
===============================================================================
