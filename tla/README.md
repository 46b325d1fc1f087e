# A TLA+ development of kube-overlay-operator

The operator gives pods addresses in overlay networks and lets a sidecar in
every pod build the tunnels. This directory holds TLA+ models of its parts, TLC
configurations that check them on small instances, and TLAPS proofs of the
properties that matter most, for every number of pods and networks.

## The system

| Part | State it keeps | Operations | Interacts with |
|---|---|---|---|
| Pod controller (`controllers/pod_controller.go`) | none of its own; works on cached copies of pods and networks | `Reconcile`, `allocateIP`, `deallocateIP` | writes the status of every network of the namespace, removes the pods' finalizer |
| Overlay network controller (`controllers/overlaynetwork_controller.go`) | none of its own | `Reconcile`, `handleDeletion` | adds and removes the networks' finalizer |
| Address picking (`controllers/iputil`) | none | `FirstFreeHost`, `inc` | called by `allocateIP` |
| Webhooks (`webhooks/`) | none | `OverlayNetworkValidator.Handle`, `PodInjector.Handle` | gate what the API server stores, add the pods' finalizer |
| Tunneler, the sidecar (`tunneler/`, `cmd/sidecar`) | numbers of networks, and the pod's network namespace | `Reconcile`, `reconcileFOU`, `setupTunnelIface`, `reconcileRoutes`, `Shutdown` | reads the status of networks, changes links, routes and ports |
| DNS resolver (`resolver/`, `cmd/dns`) | a map of networks, shared by the reconciler and a goroutine per request | `Reconcile`, `handleDnsRequest`, `ServeDNS` | reads the status of networks, asks the cluster's DNS |
| Namespace controller (`controllers/namespace_controller.go`) | none | `Reconcile`, `reconcileServiceAccount`, `reconcileSecret`, `reconcileRole` | creates the service account and token `PodInjector` lets the sidecars mount |

The parts never call each other. They meet in the API server: each one reads
its informers' caches, which lag behind, and writes whole objects with
optimistic concurrency. What is hard:

* every decision (which address is free, is the network deleted, does it still
  have allocations) is made on a copy that may be out of date;
* a pod is in several networks, each a write of its own, and any of them can
  fail or be the last thing the process does;
* what must happen later depends on events and requeues: nobody polls;
* names are reused: a pod or a network can return under its old name;
* the sidecar's links outlive its process, its numbering does not;
* an overlay address changes hands while its former holder is still running, and
  each sidecar notices in its own time;
* the resolver's map is read and written without a lock.

What makes each part correct:

* IPAM: no address twice, no pod twice, only addresses of the CIDR; an
  allocation belongs to a pod that will be cleaned up after; an address never
  moves; a deleted pod and a drained network go, a pod that asks is served.
* Address picking: ends, and returns a free address if there is one.
* Webhooks: what they let pass keeps the controllers' assumptions.
* Tunneler: once nothing changes any more, links, routes and ports are what the
  status asks for.
* Resolver: an answer comes from what the networks said while it was made, and
  the map follows the networks.
* Namespace controller: every namespace ends up with account, token and role,
  and a pod mounts a secret that comes to exist.
* All together: members of a network reach each other, and a packet for an
  address reaches its owner and nobody else.

## Modules

| Module | Models | Uses |
|---|---|---|
| `Iputil` | `FirstFreeHost` by its result | |
| `IputilScan` | `FirstFreeHost` and `inc` byte by byte | `Iputil` |
| `Admission` | both webhooks, as predicates | `Iputil` |
| `Ipam` | both controllers, API server, caches, queues, users, kubelets | `Admission` |
| `AddressBook` | abstract: what the status of networks promises to its readers | |
| `IpamBook` | the mapping by which `Ipam` implements `AddressBook` | `Ipam`, `AddressBook` |
| `TunnelPlan` | what a network's status asks of one pod: peers and routes | |
| `Tunneler` | one sidecar and its network namespace | `TunnelPlan` |
| `Overlay` | the operator's book and the sidecars of all pods, with the packets they exchange | `AddressBook`, `TunnelPlan` |
| `Resolver` | the DNS process: reconciler, goroutines, Go's map | |
| `Access` | the namespace controller and the token part of the pod injector | |
| `MCIputilScan`, `MCIpam`, `MCTunneler`, `MCOverlay`, `MCResolver`, `MCAccess` | instances for TLC | |
| `IputilScanProofs` | the loop of `FirstFreeHost` agrees with `Iputil` and counts down | `IputilScan` |
| `IpamProofs`, `IpamOwnerProofs` | theorems about `Ipam` | `Ipam` |
| `IpamBookProofs` | `Ipam` implements `AddressBook` | `IpamBook`, `IpamProofs` |
| `TunnelerProofs` | types and numbers; a settled sidecar matches its networks | `Tunneler` |
| `OverlayProofs` | theorems about `Overlay` | `Overlay` |
| `ResolverProofs` | theorems about `Resolver` | `Resolver` |
| `AccessProofs` | theorems about `Access` | `Access` |

Operators whose comment begins with "Mutant" are deliberate mistakes, each next
to the definition it replaces; a property is only kept if one of them breaks it.

### IputilScan

One behaviour is one call of `FirstFreeHost`: `Start` is what comes before the
loop, `inc` one turn of the loop over the bytes, `Test` the loop's condition and
body. Addresses are three bytes of `ByteSize` values, enough for a carry through
a middle byte; as in Go, IPv4 addresses are a block of the long form, and
`Contains` (`IpnetContains`) compares the family of an address with that of the
masked network. So an IPv6 network around that whole block ends for the loop
where the block begins, which `Iputil` does not say (`AroundV4`; in Go the prefixes
of `::ffff:0:0` shorter than 96 bits); such networks are set aside.

### Ipam

State: `pods` and `networks` are the API server's objects, `podCache` and
`networkCache` the informers' copies, the two queues hold keys to reconcile,
`work` is what the pod worker carries from `List` to the end of `Reconcile`.
An object's `version` is its resourceVersion, counted per name in `revision`; an
update is refused unless its copy has the stored version, and an update that
changes nothing keeps it.

| Code | Actions |
|---|---|
| `PodReconciler.Reconcile` 63-98 | `PodReconcileStart` |
| its loop 108-137, `allocateIP`, `deallocateIP` | `PodReconcileNetwork`, one per network: the error returns before the write are `allocateIPFails`, the new status is `TurnResult`, the write is `UpdateNetwork` |
| 139-157 | `PodReconcileFinish` |
| `OverlayNetworkReconciler.Reconcile`, `handleDeletion` | `NetworkReconcile` (one cached read, one write) |
| informer events, `For(...)` | `SyncPod`, `SyncNetwork`, `Resync` |
| the process | `OperatorRestart` |
| users and kubelets (external) | `PodCreate` .. `NetworkDelete` |

A write answers nil, NotFound, Conflict or Lost: an error whether or not the
write was carried out. The status lists are sets (their order is not used).
There is one namespace, one operator process (the chart passes
`--leader-elect`) and one worker per controller (controller-runtime's default);
within one worker the networks of the loop are visited in any order, as `List`
promises none.

Annotations are the parsed sets, a CIDR is the record `net.ParseCIDR` leads to
(does it parse, address as written, first and last address); an address that
does not parse in `request-ip` is no request, as in the code. `PodCreate` stands
for a pod that the injector lets in: one that it refuses, for the lack of a
service account (`Access`) or for the use of the reserved volume, does not come
to exist.

### Tunneler

State: `networks`, `cache` and `queue` as above; `networkToName` is the
process's numbering; `links` and `fou` are the kernel's; `work` is the
reconciliation under way, whose `pc` follows the code: `reconcileFOU`,
`LinkListFails` or `DeleteLinks` (first loop of `reconcileTunnelInterfaces`), `setupTunnelIface`
per missing link, `reconcileRoutes` per link, `Finish`. Each can fail; an error
requeues. As only the sidecar changes the namespace, a call that fails in the
middle of a step is the step's partial effect: `SetUp(nw, peer, k)` is the link
after `k` of the four calls, and a route step may have deleted or added only
some routes. The kernel refuses a route whose destination is in the table
(`Refused`), a tunnel between two addresses that have one (`Taken`), and adds
the network's route with an address that has the network's mask; its other
refusals are not modelled. `Shutdown`, `Crash` and `Restart` end and begin the
process; `NetworkChange` gives a network any status of the instance. A link
remembers the network it was made for (`net`, a history field); `OwnLinks` says
that every network still has the number its links are named after. What the
code relies on in the statuses it is shown is stated as `PortsApart`,
`SteadyPeers` and `RoutesApart`. Target routes are a set; where the code lists
one twice, the second `RouteAdd` is refused and the next attempt finds it.

### Overlay

The composition. `leases` is the book of `AddressBook`, whose `Grant` and
`GiveBack` are conjuncts of `Allocate` and `Release`; to them come the conditions
under which `Ipam` acts (`Allocates`, `Releases`) and the address it picks, the
requested or the first free one (`Picks`). The
operator works on a copy of the pod, so a pod that left, was deleted or is dead
may still be granted an address; `released` are the pods whose leaving the
operator has seen, after which it grants them nothing.
`Status` is the network as the book shows it, and each pod has its own instance
`Plan(p)` of `TunnelPlan` that turns it into peers and routes. A sidecar's
reconciliation is one step here, because it touches nothing but the pod's own
namespace: reading an old copy is the same as running earlier. Pods start,
leave, are deleted, run on for a while and end; a cluster address is free again
when its pod has ended, the overlay address as soon as the operator noticed the
deletion. A pod may also end without a deletion, when it fails or is evicted
(`"failed"`): the operator looks at the deletion only (`pod_controller.go:100`), so
it stays in the book until somebody deletes it or takes it out of the network,
which nobody need do. `current` holds the sidecars that are done with the status as it is.

Packets are not steps: `Out`, `Arrives`, `Sends` and `Arrive` say where the
present links and routes take a packet, directly or over one pod that forwards.
Routers forward (`net.ipv4.ip_forward`), which the code does not set and the
model takes as given.

### Resolver

`key`, `mem` and `writing` are Go's map: the place of each key, the two words of
the entry there, and the mark of a write under way. `mapassign` marks, finds the
place and takes the mark off before the words are stored, one by one
(`ReconcileStart`, `Unmark`, `Store`); a goroutine finds the place (`Access`,
fatal under the mark, unless the map looks empty because its count is not yet
raised or already lowered) and copies the words one by one (`Load`). The data race is
these interleavings; the order of the stores and loads is left open. An entry
holds the allocations both of whose addresses have a four byte form (`FourByte`);
of several with one cluster address the last counts (`TunnelIP`). So the names of
a network with IPv6 overlay addresses, which the webhook admits, are always
denied, and `NoFalseDenial` speaks of the others. `source`,
and `shown` of a request, are history: the objects the map was built from while
the request was served.

| Code | Actions |
|---|---|
| `DNSReconciler.Reconcile` | `ReconcileStart` (with `Assign` or `Delete`), `Unmark`, `Store` |
| `handleDnsRequest`, `processDnsRequest` | `Ask`, `Access`, `Load`, `Resolve` |
| `ServeDNS`, `main` | `Listen`, `ListenFails`, `Exit`, `Restart` |

### Access

`Reconcile` is three steps, one per object, each with its read from the cache
and its `Create`: `ReconcileAccount`, `ReconcileSecret`, `ReconcileRole`. The
variable `sa` goes from the first to the second in `work` and is the zero
account (`None`) when the account was just created, which makes
`reconcileSecret` fail. The webhook has a cache of its own (`hook`) and decides
in `AdmitPod` which secret the sidecar mounts. Kubernetes deletes the content of
namespaces, fills token secrets, removes those of earlier accounts and, before
1.24 (`legacy`), lists an automatic secret in the account.

## Runs

| Run | Instance | Shows |
|---|---|---|
| `iputil_scan` | three bytes of two bits, every base, all seven prefix lengths, all but one address taken, requests for free and taken addresses | the loop ends and agrees with `Iputil` |
| `ipam_contention` | 2 pods in all roles, 1 network of 2 hosts, 4 operations | safety of the status, and that it implements `AddressBook` |
| `ipam_networks` | 1 pod, 2 networks, valid and invalid specs, 4 operations, 1 fault | a pod is freed only when it left all networks; addresses stay in the CIDR under edits |
| `ipam_liveness` | 1 pod, router or not, changing label and cluster address, 4 operations, 1 fault, with and without the resync | what must happen happens, and entries stay consistent |
| `tunnel` | 5 pods, 2 networks without a common peer, all roles in one of them, 2 changes, a fault, a shutdown or a crash | the sidecar settles, and correctly; networks do not disturb each other |
| `tunnel_shared` (violation) | two networks with a common peer | they never both settle, against `README.md:55` |
| `tunnel_partial` (violation) | one membership, one failing call | an incomplete link is accepted, against `network_controller.go:236` |
| `tunnel_port` (violation) | two networks, one port | a port in use is closed, against `:303` |
| `tunnel_reroute` (violation) | one CIDR replaced by another of its size | the old route stays, against `:328` |
| `resolver` | 2 networks, 2 services, addresses with and without four bytes, a cluster address listed twice, 3 changes, 1 request, 1 fault | answers under the race, what the map holds when nothing is left to do, recovery from its fatal errors |
| `access` | 1 namespace, 3 changes, 1 pod, 1 fault, both kinds of cluster | no namespace is forgotten, provisioning comes to its end |
| `overlay` | a router and 2 members, one of which requests its address; all may fail; 3 cluster and 3 overlay addresses | packets go to the owner of their address, members are connected, sidecars catch up unless a failed pod blocks them |

Bounds. `MaxOps` counts operations of users, `MaxFaults` lost calls, failing
netlink calls, crashes. Four operations are enough to create a network and a
pod, change one and delete the other, or to delete and re-create; steps of the
operator, its informers and the kubelets are not bounded. One fault suffices
for each hazard listed, as every property must then hold without further ones.
Two hosts in the CIDR make two pods compete and exhaust it. A request to the
resolver meets at most the replacement, deletion and re-creation of an entry, so
three changes and one request show every interleaving of a reader with the
writer; readers do not affect each other but by ending the process. In `overlay`
each pod lives once, and with as many addresses of either kind as pods a
newcomer can take over those of a failed, dead or leaving one. All instances may
stop: when the operations are used up and everything is reconciled nothing is
left to do, hence `CHECK_DEADLOCK FALSE`. Symmetry (pods and their addresses) is
used for safety only. `LetterIndices` holds all numbers of the instances; the
code's class `[A-Za-z]` has a gap after the 26th letter, so `Shutdown` leaves
the links of the 27th to 32nd network of a sidecar.

What the passing runs leave out on purpose, and where it is said: pods that
change label or address (`Drift`, on in `ipam_liveness`) when `AllocationsOwned`
is checked; a setup that fails half-way (`PartialSetups`), because
`tunnel_partial` shows what happens then; networks with a common peer, because
`tunnel_shared` does; links that outlive the process and fall to another network
(`OwnLinks`): the next process numbers the networks in the order it meets them,
and a network that gets the other's letter keeps the other's link, with its port
and address; a routable CIDR together with two routers, which never settles, as
the kernel refuses the second route; for the same reason a router that becomes a
member of two routers, as its links are kept and the second gets no own route; a
failed or evicted pod that nobody deletes, which keeps its lease while its
cluster address goes to a new pod: who should have a tunnel to both is refused
one of them for ever (`Blocked`), and `Heals` speaks of the others; a peer that returns under its name with
another address, which a FIXME in the code (`network_controller.go:215`) leaves
open; links of a network that no longer exists; requests to the resolver whose
network was not in the map all the time, which may be answered from a cleared
entry or from the network that got its place.

Fairness. Informers deliver and a reconciliation that began goes on (weak). A
queued key is taken in the end although the worker is busy with others again
and again: the queue is first in, first out, and a requeue is delayed by
back-off (strong fairness of `PodReconcileStart` and `Start`). Lost calls and
crashes are never forced and finitely many. `Resync` is not fair: the
informers' default period is ten hours, and the properties that need it
(`EligibleIsAllocated`, `Provisioned`) name it as their premise. Nothing is
assumed of users. `Restart` of the sidecar and of the resolver is fair: their
containers are restarted by the kubelet, and goroutines are scheduled. In
`Overlay` one weak fairness condition suffices: while the operator or a sidecar
can go on, one of them does. `ipam_liveness` (for the operator) and `tunnel` (for
each sidecar) justify more.

What liveness shows about `Ipam`: a pod waiting for a network that does not exist yet is
requeued (`EligibleIsAllocatedPromptly`). A pod whose write met NotFound is
not, and a later network of the same name is joined only with the resync
(`EligibleIsAllocated` holds with it and not without). A deleted pod that lost
its label stays until the label comes back, and then goes (`DeletedPodLeaves`).

A network that is deleted before its first reconciliation has no finalizer and
goes with its allocations, although `overlaynetwork_controller.go:95` says "As
long as we have allocations, we can not remove the network";
`FinalizedNetworkRemovedEmpty` and the step `Discard` of `AddressBook` say what
holds.

## Proofs

`IputilScanProofs` proves that the loop of `FirstFreeHost` returns what `Iputil`
says (`ScanMatchesHolds`), which all of `Ipam` rests on, for any size of a byte and
any networks, taken addresses and requests. Of prefix lengths it uses only what
`ScanAssumption` says: numbers of addresses divide the space of addresses, and
each other as powers of two do. Hence aligned blocks are nested or apart
(`Nested`), a masked network is within one family or around the IPv4 block
(`NetworkOneFamily`), and `Contains` is a comparison with its two ends
(`ContainsRange`). The result is not inductive. The invariant `ScanInv` says what
`inc` has done in the middle of a carry, when the bytes spell no address of
interest: those behind `j` are zero, and one at `j` completes the addition
(`CarryOK`); that the address under test is the successor of those tried, or zero
after the last of all (`NextOK`); and that all tried ones are taken and in the
network (`Behind`). `CountsDownHolds` is the part of `ScanTerminates` that needs no
fairness: each step lowers the natural number `Left`.

The theorems about `Ipam` hold for arbitrary sets of pods, networks, addresses,
specs and annotations, any `MaxOps` and `MaxFaults`, from `ConstantsAssumption`
(constants have their types, `Absent`, `NoPod` and `NoIP` are not values, pod
and network names are told apart).

`IpamProofs` proves `TypeCorrect`, then the safety of the status. None of the
properties is inductive: a write stores what was computed from a copy. The
invariant `Inv` adds

* `WorkOK`: the worker has a copy of every network it still has to visit;
* `VersionsOK`: no copy in a cache or in the worker's hands is newer than the
  stored object, and a copy with the stored object's version equals it;
* `GoodNetworks`: the stored networks have unique allocations in their CIDR
  that back the router lists.

From `VersionsOK` follows that an accepted write was computed from the stored
network, so each step changes a network in one of five ways (`NetworkChange`:
not at all, removed, created, edited, or the turn of a pod). `AllocateGood` and
`DeallocateGood` show that a turn keeps a good network good; `FirstFreeHostPicks`
that the picked address is free and in the CIDR. `UniqueAllocationsHold`,
`AllocationsInCIDRHold` and `RoutersBackedHold` follow from `Inv`;
`AddressStableHolds`, `ReleasedByOwnTurnHolds`, `NoGrantWhileDeletingHolds` and
`FinalizedNetworkRemovedEmptyHolds` from `Inv` and the classification.

`IpamOwnerProofs` proves `AllocationsOwned` when pods keep label and address
(`~Drift`). Its invariant says in addition that a labelled pod has the finalizer
until it is being deleted and released, that a copy of a pod the worker or a
cache holds is a pod still there with its finalizer or a known past one, that
the cache knows every network in which a pod is allocated, and that a worker
about to free a deleted pod has cleared every network it visited.

`IpamBookProofs` proves `ImplementsAddressBookHolds`. A step changes at most one
network, and for each action the change is one the book allows for a page
(`Turns`). The grant needs `Inv`: that the address is free and the pod has none
is what `Good` says of the network after the turn, and the stored network is the
worker's copy. That a lease is for an address of the book needs one fact more,
`SpecsOK`: every stored spec is one that users submit.

`TunnelerProofs` proves `TypeCorrect` and `NumbersDistinctHold` of one sidecar,
for any finite set of networks and any peers, routes and statuses
(`TunnelerAssumption`). Distinct numbers are not inductive: a new number is the
size of the map, so the invariant says that the numbers in use are below it, each
once. Neither are the types: the routes loop reads the link of a peer, so the
invariant says that a worker past the setup of a peer has its link.

`TunnelerProofs` also proves what a settled sidecar has in the kernel, whatever
failed, crashed or was restarted before: `PortsMatchHolds`, `LinksMatchHolds` and
`RoutesMatchHolds`. The invariants say what is true of a network that is dealt
with (`Reconciled`: the sidecar runs, the network is cached, not queued and not
being worked on) and of the part of a reconciliation that lies behind the worker:

* `StatusOK`: a reconciliation whose network was not queued again works on the
  status the cache shows;
* `PortsOK`, `PeersOK`: its port is open if and only if it has peers; its links
  are those to its peers. The links of two networks have different numbers
  (`NumbersDistinct`), so nobody touches those of another (`OtherLinksStay`);
* `MadeOK`: a link is what `setupTunnelIface` made it for a peer of its name, as
  nobody changes it later; `RoutesOK`: every route was asked for over its link at
  some time, and those of a network that is dealt with are asked for now.

The theorems have as hypotheses what the code relies on and does not check. Each
is needed: `PortsApart` because `reconcileFOU` closes a port without a look at
other networks (`tunnel_port` fails without it), `SteadyPeers` because an existing
link is taken as it is (the FIXME at `network_controller.go:215`), `RoutesApart`
because `netEqual` compares lengths only (`tunnel_reroute`), and that no setup
stops between `LinkAdd` and `AddrAdd` (`~PartialSetups`) for `LinksMatch`, which
`tunnel_partial` shows. `RolesMatchable` in `MCTunneler` has TLC evaluate that the
statuses of the run `tunnel` satisfy the first three.

`OverlayProofs` proves `TypeCorrect`, `StaleHolderIsLeavingHolds`,
`DeliveredToOwnerHolds` and `ConnectedHolds` for any numbers of pods, routers and
addresses. The invariant adds to the types `BookOK` (leases are unique both ways,
their pods have been started and have a cluster address), `AddressesOK` (running
pods have different cluster addresses), `LinksOK` (a link of `p` to `q` is the one
for an address `p` has or, if the operator saw it leave (`released`), had, and one
`q` has or had, and only a router has links to members) and `CurrentOK` (a sidecar that is up to date has
links to exactly its peers). From these follows which pod every
link of an up-to-date sidecar leads to, and a packet takes at most two of them.
The attempt at `DeliveredToOwner` showed that it was stated too strongly: a pod
that has ended stays in the book until the operator sees it deleted, its cluster
address may go to a new pod meanwhile, and what is sent to the old pod, or over
it if it was a router, then arrives at the newcomer. Without the exception for
these states (`Mistaken`) the run finds such a delivery. They end when the old pod
is deleted; if it failed and nobody deletes it they stay, and with them
what `Blocked` describes, which `Heals` leaves out.
`FollowsBookHolds` closes the chain: `Ipam` implements `AddressBook`
(`ImplementsAddressBookHolds`), and every step of `Overlay` is a step of
`AddressBook` on a network that stays open, or leaves the book alone. Grants
to pods already gone are covered: a pod out of the book counts as one that had an
address only once it is `released`, for until then it may be granted a first one.

`ResolverProofs` proves `TypeCorrect`, `AnsweredFromNetworkHolds`,
`NoFalseDenialHolds` and `MapMatchesHolds` for any number of concurrent requests
and up to eight networks, the most that Go keeps in one bucket
(`ResolverAssumption`). The invariant follows each word of memory: `KeysOK` (a key
has one place), `WorkOK` (what the writer carries belongs to the key at its
place), `MemOK` (a word is zero, or of the object its entry was built from, or of
the one before while it is not stored yet), `QueueOK` (what is not queued is in
the map as the informer shows it) and `ReadersOK` (a request has on record every
object whose words it may still meet, and while its network stays, the place it
found is its network's).

`AccessProofs` proves `TypeCorrect` and `NoneForgottenHolds`, the safety behind
`ProvisionedPromptly`: a namespace that nobody deleted or tampered with is served
or still on the controller's list. The invariant says of such a namespace that it
loses nothing (`Whole`), that what the caches of controller and webhook show of it
is there (`Views`), that a reconciliation has done what lies behind it (`WorkOK`),
and that its pods mount a listed secret or the token secret (`PodsOK`); on a new
cluster no secret is listed (`LegacyOK`), so the latter is the one the controller
makes.

Only model-checked: liveness, as fairness and `ENABLED` are beyond the prover
(`ScanTerminates`, the leads-to properties of `ipam_liveness` and `access`,
`Converges`, `MapConverges`, `Heals`), and the four disagreements, which the runs
that expect a violation show. Not stated by any theorem: addresses of more than
three bytes, because what a loop over any number of bytes computes is an
induction over data.

## Plan

Done: all modules of the table, all runs, and a theorem for every safety property
of the passing runs. What remains is liveness, which stays with TLC.

## Not modelled

Generated code (`zz_generated.deepcopy.go`) and the empty webhook scaffold
(`overlaynetwork_webhook.go`) of `api/`, which have no behaviour of their own;
flags, probes and certificates of the four `main` functions; loading and
decompressing of kernel modules (`cmd/sidecar`), system calls without state of
the program, whose errors `modInitFunc` drops unless they are `ENOSYS`; the
chart, read only for the number of replicas and leader election.
