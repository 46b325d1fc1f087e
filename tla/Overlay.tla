-------------------------------- MODULE Overlay --------------------------------
(***************************************************************************)
(* The overlay network as its pods see it: the operator's book of leases   *)
(* and the sidecars of all pods together.                                  *)
(*                                                                         *)
(* The operator is module AddressBook, which Ipam implements, together     *)
(* with the conditions under which Ipam grants and takes back a lease.  A  *)
(* sidecar is module TunnelPlan, carried out in one step as Tunneler does  *)
(* in several: links without a peer are deleted, links to new peers made,  *)
(* the others left as they are.  The step touches nothing but the pod's    *)
(* own network namespace, so that it works from the informer's copy of the *)
(* status is the same as its coming early, and the changes after it late.  *)
(*                                                                         *)
(* One network, which stays.  A pod keeps its role, joins once, and its    *)
(* name is not used again: the sidecars do not look at the endpoints of a  *)
(* link they have.                                                         *)
(***************************************************************************)
EXTENDS Integers, FiniteSets

CONSTANTS
    Pods,           \* pod names
    Routers,        \* those that ask to be routers
    PodIPs,         \* cluster addresses
    Addresses,      \* overlay addresses of the network
    Requests,       \* per pod, the address it asks for, or NoRequest
    NoRequest,
    Cidr,           \* the network's allocatable CIDR
    Port,           \* its port
    NoGw,           \* the gateway of a route of scope link
    Absent          \* in place of a link that does not exist

ASSUME OverlayAssumption ==
    /\ Routers \subseteq Pods
    /\ IsFiniteSet(Pods)
    /\ PodIPs \subseteq Nat /\ Addresses \subseteq Nat
    /\ Requests \in [Pods -> Addresses \cup {NoRequest}]
    /\ Cidr \in [ip : Nat, len : 0 .. 31] /\ Port \in Nat

VARIABLES
    phase,          \* of each pod; "failed" and "dead" ones have ended, and
                    \* those "left", "deleting" or "dead" are to be released
    podIP,          \* cluster address of each pod, once it runs
    leases,         \* the book, of the one network
    released,       \* pods the operator has seen leave
    links,          \* per pod, its tunnels by peer
    current         \* pods whose sidecars are done with the status as it is

vars == <<phase, podIP, leases, released, links, current>>

Net == "network"

Book == INSTANCE AddressBook WITH
            Networks <- {Net}, Address <- Addresses, phase <- [n \in {Net} |-> "open"]

Plan(p) == INSTANCE TunnelPlan WITH Me <- p, Routes <- {}

-------------------------------------------------------------------------------
(* The operator *)

Entry(lease) ==
    [podName |-> lease.pod, podIP |-> podIP[lease.pod], ip |-> lease.ip, extraNetworks |-> {}]

Nobody == [r \in {} |-> {}]

\* The network as the book shows it.
Status ==
    [port |-> Port, allocatableCIDR |-> Cidr, routableCIDRs |-> {}, optionalRoutes |-> Nobody,
     allocations |-> {Entry(l) : l \in leases[Net]},
     routers |-> {Entry(l) : l \in {k \in leases[Net] : k.pod \in Routers}},
     optionalRouters |-> Nobody]

LeaseOf(p) == {l \in leases[Net] : l.pod = p}

\* Mutant: a pod need not have its cluster address yet.
AllocatesEarly(p) == p \notin released

\* Ipam gives an address to a pod that runs and asks for the network according
\* to the informer's copy: the pod itself may be gone by then.
Allocates(p) == phase[p] # "none" /\ p \notin released

\* The address p gets, if it is free: the one it requests, or the first free one.
Picks(p, ip) ==
    IF Requests[p] # NoRequest THEN ip = Requests[p]
    ELSE \A lower \in {i \in Addresses : i < ip} : \E l \in leases[Net] : l.ip = lower

Allocate(p, ip) ==
    /\ Allocates(p)
    /\ Picks(p, ip)
    /\ Book!Grant(Net, [pod |-> p, ip |-> ip])
    /\ current' = {}
    /\ UNCHANGED <<phase, podIP, released, links>>

\* Mutant: whoever is not in the network's copy of the pod list loses its lease.
ReleasesAnybody(p) == phase[p] # "none"

\* Ipam takes the address of a pod that is deleted or no longer asks, whether
\* or not its containers still run, as soon as its copy of the pod says so.  It
\* does not look at whether they run: a failed pod keeps its address.
Releases(p) == phase[p] \in {"left", "deleting", "dead"}

Release(p) ==
    /\ Releases(p)
    /\ p \notin released
    /\ released' = released \cup {p}
    /\ \/ LeaseOf(p) = {} /\ UNCHANGED <<leases, current>>
       \/ \E l \in LeaseOf(p) : Book!GiveBack(Net, l) /\ current' = {}
    /\ UNCHANGED <<phase, podIP, links>>

-------------------------------------------------------------------------------
(* The sidecars *)

Alive(p) == phase[p] \in {"running", "left", "deleting"}

Link == [local : PodIPs, remote : PodIPs,
         route : [dst : {Cidr} \cup [ip : Addresses, len : {32}], gw : {NoGw}, src : Addresses]]

ASSUME AbsentAssumption == Absent \notin Link

\* The link of p to this peer as setupTunnelIface makes it.
SetUp(p, peer) ==
    [local |-> Plan(p)!Local(Status).podIP, remote |-> peer.podIP,
     route |-> Plan(p)!OwnRoute(Status, peer)]

\* Mutant: links are only added.
KeepsAll(p, q) == TRUE

\* Does p keep the link it has to q?
Keeps(p, q) == \E a \in Plan(p)!Targets(Status) : a.podName = q

\* Kernel: two tunnels between the same endpoints do not go.
Conflict(table, new) ==
    \E q \in Pods : table[q] # Absent /\ table[q].local = new.local /\ table[q].remote = new.remote

\* A reconciliation of the network by the sidecar of p: the links it does not
\* keep go, the missing ones are set up one by one, until one is refused; then
\* it is tried again.
Reconcile(p) ==
    LET kept == [q \in Pods |-> IF Keeps(p, q) THEN links[p][q] ELSE Absent]
        missing == {a \in Plan(p)!Targets(Status) : kept[a.podName] = Absent}
        With(new) == [q \in Pods |-> IF \E a \in new : a.podName = q
                                     THEN SetUp(p, CHOOSE a \in new : a.podName = q) ELSE kept[q]]
    IN  /\ Alive(p)
        /\ p \notin current
        /\ UNCHANGED <<phase, podIP, leases, released>>
        /\ \E new \in SUBSET missing :
              /\ links' = [links EXCEPT ![p] = With(new)]
              /\ \A a \in new : ~Conflict(With(new \ {a}), SetUp(p, a))
              /\ \/ new = missing /\ current' = current \cup {p}
                 \/ /\ \E a \in missing \ new : Conflict(With(new), SetUp(p, a))
                    /\ UNCHANGED current

-------------------------------------------------------------------------------
(* The pods *)

Enter(p, from, to) == phase[p] \in from /\ phase' = [phase EXCEPT ![p] = to]

\* A pod starts, with a cluster address no live pod has: that of a dead one may
\* be given away although its lease is still in the book.  Only equality of
\* cluster addresses matters, so those never used are taken in order.
PodStart(p, ip) ==
    /\ Enter(p, {"none"}, "running")
    /\ \A q \in Pods : Alive(q) => podIP[q] # ip
    /\ \A lower \in {i \in PodIPs : i < ip} : \E q \in Pods : podIP[q] = lower
    /\ podIP' = [podIP EXCEPT ![p] = ip]
    /\ UNCHANGED <<leases, released, links, current>>

\* Its user takes the network out of its annotations.
PodLeave(p) ==
    /\ Enter(p, {"running"}, "left") \/ Enter(p, {"failed"}, "dead")
    /\ UNCHANGED <<podIP, leases, released, links, current>>

\* Its user deletes it; its containers run on for a while.
PodDelete(p) ==
    /\ Enter(p, {"running", "left"}, "deleting") \/ Enter(p, {"failed"}, "dead")
    /\ UNCHANGED <<podIP, leases, released, links, current>>

\* Its containers end, with its network namespace: it is deleted, or it is
\* evicted or fails and stays as an object until somebody deletes it.
PodDead(p) ==
    /\ Enter(p, {"left", "deleting"}, "dead") \/ Enter(p, {"running"}, "failed")
    /\ links' = [links EXCEPT ![p] = [q \in Pods |-> Absent]]
    /\ current' = current \ {p}
    /\ UNCHANGED <<podIP, leases, released>>

Init ==
    /\ phase = [p \in Pods |-> "none"]
    /\ podIP = [p \in Pods |-> 0]
    /\ leases = [n \in {Net} |-> {}]
    /\ released = {}
    /\ links = [p \in Pods |-> [q \in Pods |-> Absent]]
    /\ current = {}

Operator(p) == Release(p) \/ \E ip \in Addresses : Allocate(p, ip)

Users(p) ==
    PodLeave(p) \/ PodDelete(p) \/ PodDead(p) \/ \E ip \in PodIPs : PodStart(p, ip)

Next == \E p \in Pods : Operator(p) \/ Reconcile(p) \/ Users(p)

Spec == Init /\ [][Next]_vars

\* The operator serves every pod (module Ipam: EligibleIsAllocatedPromptly,
\* LeavingIsReleased, DeletedPodLeaves), watches deliver, sidecars retry.  That
\* one of them goes on while any of them can is all that is needed of this.
Fairness == WF_vars(\E p \in Pods : Operator(p) \/ Reconcile(p))

FairSpec == Spec /\ Fairness

-------------------------------------------------------------------------------
(* Packets *)

\* The address p has on its links.
Carries(p, ip) == \E q \in Pods : links[p][q] # Absent /\ links[p][q].route.src = ip

\* Where a packet over the link of p to q arrives: at the live pod that has the
\* link's remote address now, if that has a link back.
Arrives(p, q) ==
    {s \in Pods : /\ Alive(s) /\ podIP[s] = links[p][q].remote
                  /\ \E t \in Pods : /\ links[s][t] # Absent
                                     /\ links[s][t].remote = links[p][q].local}

\* The links over which p sends a packet for ip.
Out(p, ip) ==
    {q \in Pods : links[p][q] # Absent /\ links[p][q].route.dst \in {Cidr, Plan(p)!Host(ip)}}

\* Every packet that p sends to ip satisfies Good(s) of the pod s that receives
\* it: whichever link it takes, it arrives there at once or through one pod that
\* forwards it.
Sends(p, ip, Good(_)) ==
    \A q \in Out(p, ip) : \A s \in Arrives(p, q) :
        IF Carries(s, ip) THEN Good(s)
        ELSE \A t \in Out(s, ip) : \A u \in Arrives(s, t) : Carries(u, ip) => Good(u)

\* No packet that p sends to ip gets lost on the way.
Arrive(p, ip) ==
    /\ Out(p, ip) # {}
    /\ \A q \in Out(p, ip) : \E s \in Arrives(p, q) :
          Carries(s, ip) \/
              /\ Out(s, ip) # {}
              /\ \A t \in Out(s, ip) : \E u \in Arrives(s, t) : Carries(u, ip)

-------------------------------------------------------------------------------
(* Properties *)

\* Every variable has its type.
TypeOK ==
    /\ phase \in [Pods -> {"none", "running", "left", "deleting", "failed", "dead"}]
    /\ podIP \in [Pods -> PodIPs \cup {0}]
    /\ leases \in [{Net} -> SUBSET [pod : Pods, ip : Addresses]]
    /\ released \subseteq Pods
    /\ links \in [Pods -> [Pods -> Link \cup {Absent}]]
    /\ current \subseteq Pods

UpToDate(p) == Alive(p) => p \in current

\* When every sidecar is up to date, every two members of a network with a
\* router reach each other, and what is sent to a member's address arrives at
\* that member alone, whatever addresses changed hands on the way.
Connected ==
    (\A p \in Pods : UpToDate(p)) /\ Status.routers # {} =>
        \A k, l \in leases[Net] :
            k # l /\ (\A m \in leases[Net] : Alive(m.pod)) =>
                LET IsOwner(s) == s = l.pod
                IN  Arrive(k.pod, l.ip) /\ Sends(k.pod, l.ip, IsOwner)

\* A pod that carries an address it has no lease for is on its way out and has
\* not noticed yet: deletion gives the address back while the containers of the
\* pod run on, so the next owner may carry it at the same time.
StaleHolderIsLeaving ==
    \A p \in Pods, ip \in Addresses :
        Carries(p, ip) /\ [pod |-> p, ip |-> ip] \notin leases[Net] =>
            phase[p] \in {"left", "deleting"} /\ ~UpToDate(p)

\* The cluster address of a pod that is in the book is another one's by now.
Mistaken == \E l \in leases[Net], s \in Pods : Alive(s) /\ s # l.pod /\ podIP[s] = podIP[l.pod]

\* As soon as the sender and the routers are up to date nobody but the owner of
\* an address receives what is sent to it, also while the former owner is still
\* running with the address and its sidecar lags behind; unless a pod that
\* has ended is in the book whose cluster address was given away, for the tunnels to it lead
\* to the new pod.
DeliveredToOwner ==
    \A p \in Pods :
        ~Mistaken /\ UpToDate(p) /\ (\A r \in Routers : UpToDate(r)) =>
            \A ip \in Addresses :
                LET IsOwner(s) == [pod |-> s, ip |-> ip] \in leases[Net]
                IN  Sends(p, ip, IsOwner)

\* p is refused one of two tunnels it should have, because the cluster address
\* of a failed pod that nobody deleted was given to another.
Blocked(p) ==
    \E a, b \in Plan(p)!Targets(Status) :
        a # b /\ a.podIP = b.podIP /\ phase[a.podName] = "failed"

\* When users stop, every sidecar catches up, also one that was refused a tunnel
\* because the cluster address of a dead peer was given to a new one; but not
\* those that a failed pod blocks, as Reconcile of the PodReconciler takes no
\* address back before the pod is deleted (pod_controller.go:100).
Heals == <>[](\A p \in Pods : UpToDate(p) \/ Blocked(p))
===============================================================================
