--------------------------------- MODULE Ipam ---------------------------------
(***************************************************************************)
(* Address management of the operator: the PodReconciler and the           *)
(* OverlayNetworkReconciler of controllers/, the API server they write to, *)
(* the informer caches they read from, and the users and kubelets that     *)
(* change pods and networks under them.                                    *)
(*                                                                         *)
(* One namespace, one operator process (the chart runs it with             *)
(* --leader-elect), one worker per controller (controller-runtime's        *)
(* default).  A pod reconciliation is several steps, because every network *)
(* it touches is a write of its own, made from the copy listed at its      *)
(* start; a network reconciliation makes one write from one cached copy    *)
(* and is one step.                                                        *)
(*                                                                         *)
(* Optimistic concurrency: every object carries its resourceVersion, and a *)
(* write is refused with a conflict unless the copy it was computed from   *)
(* has the version of the stored object.  A write that changes nothing     *)
(* keeps the version.  A name never gets the same version twice, also when *)
(* its object is removed and created again.                                *)
(***************************************************************************)
EXTENDS Admission

CONSTANTS
    Pods,           \* pod names
    Networks,       \* overlay network names
    PodIPs,         \* cluster addresses the kubelets hand out
    Routes,         \* names of optional routes
    Specs,          \* the specs users submit
    Annotations,    \* the annotation sets users give pods
    Absent,         \* in place of an object that does not exist
    NoPod,          \* the pod worker is idle
    NoIP,           \* the empty pod.Status.PodIP
    Drift,          \* may a pod change its label or its cluster address?
    Resyncs,        \* may behaviours last until the informers' periodic resync?
    MaxOps,         \* bound: operations of users in a behaviour
    MaxFaults       \* bound: lost API calls and operator restarts

VARIABLES
    pods,           \* API server: the pod of each name
    networks,       \* API server: the overlay network of each name
    podCache,       \* informer cache of the operator, pods
    networkCache,   \* informer cache of the operator, networks
    podQueue,       \* work queue of the PodReconciler
    networkQueue,   \* work queue of the OverlayNetworkReconciler
    work,           \* what the pod worker holds between its API calls
    revision,       \* API server: the last version given to an object of a name
    ops, faults     \* what is left of MaxOps and MaxFaults

api == <<pods, networks, revision>>
caches == <<podCache, networkCache>>
queues == <<podQueue, networkQueue>>
bounds == <<ops, faults>>
vars == <<api, caches, queues, work, bounds>>

-------------------------------------------------------------------------------
(* Objects *)

\* OverlayNetworkIPAllocation.
Allocation == [podName : Pods, podIP : PodIPs, ip : Address, extraNetworks : SUBSET Routes]

\* What the reconciler parses out of a pod's annotations: member-of, router-for,
\* extra-router, extra-routes and request-ip, the last three per network.
Annotation == [member : SUBSET Networks, router : SUBSET Networks,
               extraRouter : [Networks -> SUBSET Routes],
               extraRoutes : [Networks -> SUBSET Routes],
               requestIP : [Networks -> Request]]

Pod == [version : Nat, label : BOOLEAN, annotation : Annotation, podIP : PodIPs \cup {NoIP},
        deleting : BOOLEAN, finalizer : BOOLEAN]

\* The status lists are sets: their order is not used, and the reconciler
\* appends an entry only for a pod that has none.
Network == [uid : Nat, version : Nat, spec : NetworkSpec, deleting : BOOLEAN, finalizer : BOOLEAN,
            allocations : SUBSET Allocation, routers : SUBSET Allocation,
            optionalRouters : [Routes -> SUBSET Allocation]]

Work == [pod : Pods \cup {NoPod}, obj : Pod \cup {Absent},
         nets : [Networks -> Network \cup {Absent}],
         todo : SUBSET Networks, hasErrors : BOOLEAN]

ASSUME ConstantsAssumption ==
    /\ Specs \subseteq NetworkSpec
    /\ Annotations \subseteq Annotation
    /\ Absent \notin Pod /\ Absent \notin Network
    /\ NoPod \notin Pods
    /\ Pods \cap Networks = {}
    /\ NoIP \notin PodIPs
    /\ Drift \in BOOLEAN /\ Resyncs \in BOOLEAN
    /\ MaxOps \in Nat /\ MaxFaults \in Nat

Idle == [pod |-> NoPod, obj |-> Absent, nets |-> [n \in Networks |-> Absent],
         todo |-> {}, hasErrors |-> FALSE]

Of(name, S) == {a \in S : a.podName = name}

Without(name, S) == {a \in S : a.podName # name}

\* uniqueNetworks: every network the pod asks to be in, empty once it is deleted.
UniqueNetworks(pod) ==
    IF pod.deleting THEN {} ELSE pod.annotation.member \cup pod.annotation.router

-------------------------------------------------------------------------------
(* The API server: storing an object, and its answers to a write that      *)
(* carries a copy.                                                         *)

PutNetwork(n, new) ==
    /\ networks' = [networks EXCEPT ![n] =
          IF new = Absent THEN Absent ELSE [new EXCEPT !.version = revision[n] + 1]]
    /\ revision' = [revision EXCEPT ![n] = @ + 1]

PutPod(p, new) ==
    /\ pods' = [pods EXCEPT ![p] =
          IF new = Absent THEN Absent ELSE [new EXCEPT !.version = revision[p] + 1]]
    /\ revision' = [revision EXCEPT ![p] = @ + 1]

\* Mutant: the last writer wins.
CurrentAnyVersion(stored, copy) == stored # Absent

Current(stored, copy) == stored # Absent /\ stored.version = copy.version

AcceptNetwork(n, old, new) ==
    /\ Current(networks[n], old)
    /\ IF new = old THEN UNCHANGED <<networks, revision>> ELSE PutNetwork(n, new)

AcceptPod(p, old, new) ==
    /\ Current(pods[p], old)
    /\ IF new = old THEN UNCHANGED <<pods, revision>> ELSE PutPod(p, new)

\* A status or metadata write of network n, computed from the copy old.
\* "Lost" is a call whose answer is an error, whether or not it was carried out.
UpdateNetwork(n, old, new, err) ==
    \/ /\ err = "nil" /\ AcceptNetwork(n, old, new)
       /\ UNCHANGED faults
    \/ /\ err = "NotFound" /\ networks[n] = Absent
       /\ UNCHANGED <<networks, revision, faults>>
    \/ /\ err = "Conflict" /\ networks[n] # Absent /\ ~Current(networks[n], old)
       /\ UNCHANGED <<networks, revision, faults>>
    \/ /\ err = "Lost" /\ faults > 0
       /\ faults' = faults - 1
       /\ AcceptNetwork(n, old, new) \/ UNCHANGED <<networks, revision>>

UpdatePod(p, old, new, err) ==
    \/ /\ err = "nil" /\ AcceptPod(p, old, new)
       /\ UNCHANGED faults
    \/ /\ err = "NotFound" /\ pods[p] = Absent
       /\ UNCHANGED <<pods, revision, faults>>
    \/ /\ err = "Conflict" /\ pods[p] # Absent /\ ~Current(pods[p], old)
       /\ UNCHANGED <<pods, revision, faults>>
    \/ /\ err = "Lost" /\ faults > 0
       /\ faults' = faults - 1
       /\ AcceptPod(p, old, new) \/ UNCHANGED <<pods, revision>>

Errors == {"nil", "NotFound", "Conflict", "Lost"}

-------------------------------------------------------------------------------
(* PodReconciler *)

\* Mutant: the addresses of the routers only are passed as taken.
PickIPBesidesRouters(nw, request) ==
    FirstFreeHost(nw.spec.allocatableCIDR, {a.ip : a \in nw.routers}, request)

\* The address FirstFreeHost picks for a pod that has no allocation in nw yet.
PickIP(nw, request) ==
    FirstFreeHost(nw.spec.allocatableCIDR, {a.ip : a \in nw.allocations}, request)

\* Mutant: a pod may be added before it has a cluster address.
allocateIPFailsWithoutPodIPCheck(nw, name, pod, request) ==
    /\ Of(name, nw.allocations) = {}
    /\ \/ nw.deleting
       \/ ~nw.spec.allocatableCIDR.ok
       \/ request # NoRequest /\ ~Contains(nw.spec.allocatableCIDR, request)
       \/ PickIP(nw, request).err # "nil"

\* Mutant: a network that is being deleted still takes pods in.
allocateIPFailsWithoutDeletionCheck(nw, name, pod, request) ==
    \/ pod.podIP = NoIP
    \/ /\ Of(name, nw.allocations) = {}
       /\ \/ ~nw.spec.allocatableCIDR.ok
          \/ request # NoRequest /\ ~Contains(nw.spec.allocatableCIDR, request)
          \/ PickIP(nw, request).err # "nil"

\* The error returns of allocateIP before its write.
allocateIPFails(nw, name, pod, request) ==
    \/ pod.podIP = NoIP
    \/ /\ Of(name, nw.allocations) = {}
       /\ \/ nw.deleting
          \/ ~nw.spec.allocatableCIDR.ok
          \/ request # NoRequest /\ ~Contains(nw.spec.allocatableCIDR, request)
          \/ PickIP(nw, request).err # "nil"

\* The allocation lo.FindIndexOf finds.
Found(nw, name) == CHOOSE a \in Of(name, nw.allocations) : TRUE

\* Mutant: an existing allocation is not looked for.
AllocationForAlwaysNew(nw, name, pod, extra, request) ==
    [podName |-> name, podIP |-> pod.podIP, ip |-> PickIP(nw, request).ip,
     extraNetworks |-> extra]

\* Mutant: an existing allocation follows the pod's cluster address.
AllocationForRefreshed(nw, name, pod, extra, request) ==
    IF Of(name, nw.allocations) # {}
    THEN [Found(nw, name) EXCEPT !.extraNetworks = extra, !.podIP = pod.podIP]
    ELSE AllocationForAlwaysNew(nw, name, pod, extra, request)

\* The allocation of the pod: the one it has, with the extra networks it now
\* asks for, or a new one.
AllocationFor(nw, name, pod, extra, request) ==
    IF Of(name, nw.allocations) # {}
    THEN [Found(nw, name) EXCEPT !.extraNetworks = extra]
    ELSE [podName |-> name, podIP |-> pod.podIP, ip |-> PickIP(nw, request).ip,
          extraNetworks |-> extra]

\* Add the allocation to a list unless the pod is already in it.
Ensure(allocation, S) ==
    IF Of(allocation.podName, S) = {} THEN S \cup {allocation} ELSE S

allocateIP(nw, name, pod, isRouter, extra, extraRouters, request) ==
    LET allocation == AllocationFor(nw, name, pod, extra, request)
    IN  [nw EXCEPT
            !.allocations = IF Of(name, @) = {} THEN @ \cup {allocation}
                            ELSE (@ \ {Found(nw, name)}) \cup {allocation},
            !.optionalRouters = [r \in Routes |->
                IF r \in extraRouters THEN Ensure(allocation, nw.optionalRouters[r])
                                      ELSE Without(name, nw.optionalRouters[r])],
            !.routers = IF isRouter THEN Ensure(allocation, @) ELSE Without(name, @)]

\* Mutant: the router lists are forgotten.
deallocateIPOnly(nw, name) == [nw EXCEPT !.allocations = Without(name, @)]

deallocateIP(nw, name) ==
    [nw EXCEPT !.allocations = Without(name, @),
               !.routers = Without(name, @),
               !.optionalRouters = [r \in Routes |-> Without(name, nw.optionalRouters[r])]]

\* Mutant: only the networks the pod asks for get a turn.
RequestedOnly(pod) ==
    {n \in UniqueNetworks(pod) : networkCache[n] # Absent}

\* The networks the loop visits: every listed one, since the pod may have to
\* leave any of them.
Visited(pod) == {n \in Networks : networkCache[n] # Absent}

\* Reconcile up to its loop: get the pod, skip it if it is gone or not
\* labelled, list the networks.
PodReconcileStart(p) ==
    /\ work.pod = NoPod
    /\ p \in podQueue
    /\ podQueue' = podQueue \ {p}
    /\ LET skip == IF podCache[p] = Absent THEN TRUE ELSE ~podCache[p].label
       IN  work' = IF skip THEN Idle
                   ELSE [pod |-> p, obj |-> podCache[p], nets |-> networkCache,
                         todo |-> Visited(podCache[p]), hasErrors |-> FALSE]
    /\ UNCHANGED <<api, caches, networkQueue, bounds>>

\* The turn of network n in the loop: does the pod belong there, does
\* allocateIP return an error before its write, and what is written.
Wanted(n) == n \in UniqueNetworks(work.obj)

TurnFails(n) ==
    /\ Wanted(n)
    /\ allocateIPFails(work.nets[n], work.pod, work.obj, work.obj.annotation.requestIP[n])

TurnResult(n) ==
    IF Wanted(n)
    THEN allocateIP(work.nets[n], work.pod, work.obj, n \in work.obj.annotation.router,
                    work.obj.annotation.extraRoutes[n], work.obj.annotation.extraRouter[n],
                    work.obj.annotation.requestIP[n])
    ELSE deallocateIP(work.nets[n], work.pod)

\* A network that is gone by the time of the write is not an error.
PodReconcileNetwork(n) ==
    /\ n \in work.todo
    /\ \/ /\ TurnFails(n)
          /\ work' = [work EXCEPT !.todo = @ \ {n}, !.hasErrors = TRUE]
          /\ UNCHANGED <<networks, revision, faults>>
       \/ /\ ~TurnFails(n)
          /\ \E err \in Errors :
                /\ UpdateNetwork(n, work.nets[n], TurnResult(n), err)
                /\ work' = [work EXCEPT !.todo = @ \ {n},
                                        !.hasErrors = @ \/ err \notin {"nil", "NotFound"}]
    /\ UNCHANGED <<pods, caches, queues, ops>>

\* Mutant: the finalizer goes although a network could not be written.
RemovesFinalizerRegardless == work.obj.deleting /\ work.obj.finalizer

\* Does the reconciliation remove the pod's finalizer?
RemovesFinalizer == work.obj.deleting /\ ~work.hasErrors /\ work.obj.finalizer

\* Networks that were asked for but not listed.
Unprocessed == {n \in UniqueNetworks(work.obj) : work.nets[n] = Absent}

\* Mutant: a failed finalizer removal is not tried again.
RequeuesWithoutUpdateError(err) == work.hasErrors \/ Unprocessed # {}

\* Mutant: the network is expected to bring the pod back.
RequeuesWithoutUnprocessed(err) == work.hasErrors \/ err # "nil"

\* Does the pod go back into the queue, given the error of its update?
Requeues(err) == work.hasErrors \/ err # "nil" \/ Unprocessed # {}

\* The end of Reconcile: a deleted pod that left every network loses its
\* finalizer; errors and unprocessed networks bring the pod back.
PodReconcileFinish ==
    LET p == work.pod
        pod == work.obj
    IN  /\ p # NoPod
        /\ work.todo = {}
        /\ \E err \in Errors :
              /\ \/ RemovesFinalizer /\ UpdatePod(p, pod, [pod EXCEPT !.finalizer = FALSE], err)
                 \/ ~RemovesFinalizer /\ err = "nil" /\ UNCHANGED <<pods, revision, faults>>
              /\ podQueue' = IF Requeues(err) THEN podQueue \cup {p} ELSE podQueue
        /\ work' = Idle
        /\ UNCHANGED <<networks, caches, networkQueue, ops>>

-------------------------------------------------------------------------------
(* OverlayNetworkReconciler *)

\* Mutant: allocations do not hold the network back.
handleDeletionAlwaysWrites(nw) == nw.finalizer

\* handleDeletion removes the finalizer of a deleted network without
\* allocations, which removes the network.
handleDeletionWrites(nw) == nw.finalizer /\ nw.allocations = {}

\* Reconcile: a network gets the finalizer, a deleted one loses it when it is
\* empty.  NotFound ends the reconciliation, every other error requeues.
NetworkReconcile(n) ==
    LET nw == networkCache[n]
        writes == /\ nw # Absent
                  /\ IF nw.deleting THEN handleDeletionWrites(nw) ELSE ~nw.finalizer
        new == IF nw.deleting THEN Absent ELSE [nw EXCEPT !.finalizer = TRUE]
    IN  /\ n \in networkQueue
        /\ \/ /\ ~writes
              /\ networkQueue' = networkQueue \ {n}
              /\ UNCHANGED <<networks, revision, faults>>
           \/ /\ writes
              /\ \E err \in Errors :
                    /\ UpdateNetwork(n, nw, new, err)
                    /\ networkQueue' = IF err \in {"nil", "NotFound"}
                                       THEN networkQueue \ {n} ELSE networkQueue
        /\ UNCHANGED <<pods, caches, podQueue, work, ops>>

-------------------------------------------------------------------------------
(* The informers and the process *)

\* The watch brings the cache up to date and queues the object's key.
SyncPod(p) ==
    /\ podCache[p] # pods[p]
    /\ podCache' = [podCache EXCEPT ![p] = pods[p]]
    /\ podQueue' = podQueue \cup {p}
    /\ UNCHANGED <<api, networkCache, networkQueue, work, bounds>>

\* Mutant: a predicate that lets only changes of the metadata and the spec pass.
SyncNetworkWithoutStatusEvents(n) ==
    /\ networkCache[n] # networks[n]
    /\ networkCache' = [networkCache EXCEPT ![n] = networks[n]]
    /\ networkQueue' =
          IF /\ Absent \notin {networkCache[n], networks[n]}
             /\ networkCache[n].spec = networks[n].spec
             /\ networkCache[n].deleting = networks[n].deleting
             /\ networkCache[n].finalizer = networks[n].finalizer
          THEN networkQueue ELSE networkQueue \cup {n}
    /\ UNCHANGED <<api, podCache, podQueue, work, bounds>>

SyncNetwork(n) ==
    /\ networkCache[n] # networks[n]
    /\ networkCache' = [networkCache EXCEPT ![n] = networks[n]]
    /\ networkQueue' = networkQueue \cup {n}
    /\ UNCHANGED <<api, podCache, podQueue, work, bounds>>

\* Mutant: pods are not reported.
ResyncNetworksOnly ==
    /\ Resyncs
    /\ networkQueue' = networkQueue \cup {n \in Networks : networkCache[n] # Absent}
    /\ UNCHANGED <<api, caches, podQueue, work, bounds>>

\* Every ten hours, the default of controller-runtime, the informers report
\* every cached object again.
Resync ==
    /\ Resyncs
    /\ podQueue' = podQueue \cup {p \in Pods : podCache[p] # Absent}
    /\ networkQueue' = networkQueue \cup {n \in Networks : networkCache[n] # Absent}
    /\ UNCHANGED <<api, caches, work, bounds>>

\* The process dies at any point; its successor lists everything anew.
OperatorRestart ==
    /\ faults > 0
    /\ faults' = faults - 1
    /\ podCache' = pods
    /\ networkCache' = networks
    /\ podQueue' = {p \in Pods : pods[p] # Absent}
    /\ networkQueue' = {n \in Networks : networks[n] # Absent}
    /\ work' = Idle
    /\ UNCHANGED <<api, ops>>

-------------------------------------------------------------------------------
(* Users and kubelets.  An operation that changes nothing is left out. *)

UserOp == ops > 0 /\ ops' = ops - 1 /\ UNCHANGED <<caches, queues, work, faults>>

\* A pod that PodInjector lets in.
PodCreate(p, label, annotation) ==
    /\ UserOp
    /\ pods[p] = Absent
    /\ PutPod(p, [version |-> 0, label |-> label, annotation |-> annotation, podIP |-> NoIP,
                  deleting |-> FALSE, finalizer |-> PodInjectorAddsFinalizer(label)])
    /\ UNCHANGED networks

PodAnnotate(p, annotation) ==
    /\ UserOp
    /\ pods[p] # Absent
    /\ pods[p].annotation # annotation
    /\ PutPod(p, [pods[p] EXCEPT !.annotation = annotation])
    /\ UNCHANGED networks

\* The webhook sees creations only: relabelling does not touch the finalizer.
PodRelabel(p) ==
    /\ UserOp
    /\ Drift
    /\ pods[p] # Absent
    /\ PutPod(p, [pods[p] EXCEPT !.label = ~@])
    /\ UNCHANGED networks

\* A deletion marks the pod.
PodDelete(p) ==
    /\ UserOp
    /\ pods[p] # Absent
    /\ ~pods[p].deleting
    /\ PutPod(p, [pods[p] EXCEPT !.deleting = TRUE])
    /\ UNCHANGED networks

\* The marked pod goes once it has no finalizer and its kubelet is done with it.
PodGone(p) ==
    /\ pods[p] # Absent
    /\ pods[p].deleting /\ ~pods[p].finalizer
    /\ PutPod(p, Absent)
    /\ UNCHANGED <<networks, caches, queues, work, bounds>>

\* The kubelet reports the pod's address.
KubeletSetIP(p, ip) ==
    /\ pods[p] # Absent
    /\ pods[p].podIP = NoIP
    /\ \A q \in Pods : pods[q] # Absent => pods[q].podIP # ip
    /\ PutPod(p, [pods[p] EXCEPT !.podIP = ip])
    /\ UNCHANGED <<networks, caches, queues, work, bounds>>

\* A new sandbox gives a running pod another address.
PodIPChange(p, ip) ==
    /\ UserOp
    /\ Drift
    /\ pods[p] # Absent
    /\ pods[p].podIP # NoIP
    /\ \A q \in Pods : pods[q] # Absent => pods[q].podIP # ip
    /\ PutPod(p, [pods[p] EXCEPT !.podIP = ip])
    /\ UNCHANGED networks

NetworkCreate(n, spec) ==
    /\ UserOp
    /\ networks[n] = Absent
    /\ NetworkValidatorAllows("Create", spec, spec)
    /\ PutNetwork(n, [uid |-> revision[n] + 1, version |-> 0, spec |-> spec, deleting |-> FALSE, finalizer |-> FALSE,
                      allocations |-> {}, routers |-> {},
                      optionalRouters |-> [r \in Routes |-> {}]])
    /\ UNCHANGED pods

NetworkUpdate(n, spec) ==
    /\ UserOp
    /\ networks[n] # Absent
    /\ networks[n].spec # spec
    /\ NetworkValidatorAllows("Update", networks[n].spec, spec)
    /\ PutNetwork(n, [networks[n] EXCEPT !.spec = spec])
    /\ UNCHANGED pods

\* Deleting a network that has a finalizer only marks it.
NetworkDelete(n) ==
    /\ UserOp
    /\ networks[n] # Absent
    /\ ~networks[n].deleting
    /\ PutNetwork(n, IF networks[n].finalizer THEN [networks[n] EXCEPT !.deleting = TRUE]
                     ELSE Absent)
    /\ UNCHANGED pods

-------------------------------------------------------------------------------
(* Specification *)

Init ==
    /\ pods = [p \in Pods |-> Absent]
    /\ networks = [n \in Networks |-> Absent]
    /\ podCache = pods
    /\ networkCache = networks
    /\ podQueue = {}
    /\ networkQueue = {}
    /\ work = Idle
    /\ revision = [x \in Pods \cup Networks |-> 0]
    /\ ops = MaxOps
    /\ faults = MaxFaults

Operator ==
    \/ \E p \in Pods : PodReconcileStart(p) \/ SyncPod(p)
    \/ \E n \in Networks : PodReconcileNetwork(n) \/ NetworkReconcile(n) \/ SyncNetwork(n)
    \/ PodReconcileFinish
    \/ Resync
    \/ OperatorRestart

Environment ==
    \/ \E p \in Pods :
          \/ \E label \in BOOLEAN, annotation \in Annotations : PodCreate(p, label, annotation)
          \/ \E annotation \in Annotations : PodAnnotate(p, annotation)
          \/ PodRelabel(p) \/ PodDelete(p) \/ PodGone(p)
          \/ \E ip \in PodIPs : KubeletSetIP(p, ip) \/ PodIPChange(p, ip)
    \/ \E n \in Networks :
          \/ \E spec \in Specs : NetworkCreate(n, spec) \/ NetworkUpdate(n, spec)
          \/ NetworkDelete(n)

Next == Operator \/ Environment

Spec == Init /\ [][Next]_vars

\* The work queue is served in turn, whatever else the worker is given; the
\* informers deliver; a reconciliation that has begun goes on.
Fairness ==
    /\ \A p \in Pods : SF_vars(PodReconcileStart(p)) /\ WF_vars(SyncPod(p))
    /\ \A n \in Networks : /\ WF_vars(PodReconcileNetwork(n))
                          /\ WF_vars(NetworkReconcile(n))
                          /\ WF_vars(SyncNetwork(n))
    /\ WF_vars(PodReconcileFinish)

FairSpec == Spec /\ Fairness

-------------------------------------------------------------------------------
(* Invariants *)

\* Every variable has its type: the API server's objects and all copies of
\* them are pods and networks as the api package declares them.
TypeOK ==
    /\ pods \in [Pods -> Pod \cup {Absent}]
    /\ networks \in [Networks -> Network \cup {Absent}]
    /\ podCache \in [Pods -> Pod \cup {Absent}]
    /\ networkCache \in [Networks -> Network \cup {Absent}]
    /\ podQueue \subseteq Pods
    /\ networkQueue \subseteq Networks
    /\ work \in Work
    /\ revision \in [Pods \cup Networks -> Nat]
    /\ ops \in Nat /\ faults \in Nat

\* No two pods hold the same overlay address in a network and no pod holds two,
\* although every allocation is computed from a copy of the network that may be
\* out of date (allocateIP reads nwList, the informer's cache).
UniqueAllocations ==
    \A n \in Networks : networks[n] # Absent =>
        \A a, b \in networks[n].allocations :
            a.ip = b.ip \/ a.podName = b.podName => a = b

\* Every address handed out lies in the network's allocatable CIDR, the CIDR the
\* network has now: the validator's immutability check is what keeps this true.
AllocationsInCIDR ==
    \A n \in Networks : networks[n] # Absent =>
        \A a \in networks[n].allocations :
            /\ networks[n].spec.allocatableCIDR.ok
            /\ Contains(networks[n].spec.allocatableCIDR, a.ip)

\* The copies kept in routers and optionalRouters describe the allocation the
\* pod has: sidecars build tunnels and routes from the copies, so one that
\* outlives its allocation would send traffic to an address of another pod.
RoutersBacked ==
    \A n \in Networks : networks[n] # Absent =>
        \A r \in networks[n].routers \cup UNION {networks[n].optionalRouters[o] : o \in Routes} :
            \E a \in networks[n].allocations :
                a.podName = r.podName /\ a.ip = r.ip /\ a.podIP = r.podIP

\* Every allocation belongs to a pod that still exists, will be cleaned up
\* after (it has the ipam finalizer), and has the address the tunnels point at:
\* no reconciliation, however stale its view, releases a pod before it has left
\* every network, and a pod created under an old name inherits nothing.
AllocationsOwned ==
    \A n \in Networks : networks[n] # Absent =>
        \A a \in networks[n].allocations :
            /\ pods[a.podName] # Absent
            /\ pods[a.podName].finalizer
            /\ pods[a.podName].podIP = a.podIP

-------------------------------------------------------------------------------
(* Action properties *)

Survives(n) == networks[n] # Absent /\ networks'[n] # Absent

\* As long as a pod keeps its allocation, the address stays the same: a
\* reconciliation replaces an allocation only to change its extra networks.
AddressStable ==
    [][\A n \in Networks : Survives(n) =>
          \A a \in networks[n].allocations, b \in networks'[n].allocations :
              a.podName = b.podName => a.ip = b.ip /\ a.podIP = b.podIP]_vars

\* A pod loses its address only in its own reconciliation, by one that saw it
\* deleted or no longer asking: a status computed from an outdated copy never
\* wipes out what another pod was given in the meantime.
ReleasedByOwnTurn ==
    [][\A n \in Networks : Survives(n) =>
          \A a \in networks[n].allocations :
              Of(a.podName, networks'[n].allocations) = {} =>
                  work.pod = a.podName /\ ~Wanted(n)]_vars

\* A network that is being deleted gives nobody a new address, although the
\* reconciler may look at a copy from before the deletion.
NoGrantWhileDeleting ==
    [][\A n \in Networks : Survives(n) /\ networks[n].deleting =>
          {b.podName : b \in networks'[n].allocations} \subseteq
              {a.podName : a \in networks[n].allocations}]_vars

\* A network that has its finalizer disappears only when no pod is left in it,
\* although handleDeletion counts the allocations of a cached copy.  One that
\* is deleted before its first reconciliation has no finalizer, and goes with
\* the pods allocated in it.
FinalizedNetworkRemovedEmpty ==
    [][\A n \in Networks :
          networks[n] # Absent /\ networks'[n] = Absent /\ networks[n].finalizer
              => networks[n].allocations = {}]_vars

-------------------------------------------------------------------------------
(* Liveness, under Fairness *)

\* Pod p is deleted, held back by its finalizer, and not skipped for want of
\* the label.
Held(p) ==
    /\ pods[p] # Absent
    /\ pods[p].deleting /\ pods[p].finalizer /\ pods[p].label

\* A deleted pod is let go: its finalizer is removed in the end, whatever
\* conflicts, lost calls and restarts its reconciliations meet.  One that lost
\* its label stays, with its addresses, and goes when the label comes back.
DeletedPodLeaves == \A p \in Pods : []<>~Held(p)

\* A deleted network goes away once it is empty: handleDeletion does not
\* requeue, so it is the event of the last release that must bring it back.
DrainedNetworkLeaves ==
    \A n \in Networks :
        (IF networks[n] = Absent THEN FALSE
         ELSE networks[n].deleting /\ networks[n].allocations = {}) ~> (networks[n] = Absent)

\* Pod p can have an address in n: it asks for one without naming it, has a
\* cluster address, and the pool is large enough for every pod.
Eligible(p, n) ==
    /\ pods[p] # Absent /\ networks[n] # Absent
    /\ pods[p].label /\ pods[p].podIP # NoIP
    /\ n \in UniqueNetworks(pods[p])
    /\ pods[p].annotation.requestIP[n] = NoRequest
    /\ ~networks[n].deleting
    /\ Cardinality(Candidates(networks[n].spec.allocatableCIDR)) >= Cardinality(Pods)

InNetwork(p, n) == networks[n] # Absent /\ Of(p, networks[n].allocations) # {}

\* A pod that stays eligible gets an address and keeps it.  Some orders need
\* the resync: a pod that was reconciled without errors, also when its network
\* was gone by the time of the write, is not queued when that network returns.
EligibleIsAllocated ==
    WF_vars(Resync) => \A p \in Pods, n \in Networks : <>[]Eligible(p, n) => <>[]InNetwork(p, n)

\* Without any resync this holds for the first network of a name, also when it
\* is created long after the pod: the requeue for unprocessed networks is all
\* that brings the pod back.
FirstOfName(n) == networks[n] # Absent /\ networks[n].uid = 1

EligibleIsAllocatedPromptly ==
    \A p \in Pods, n \in Networks :
        <>[](Eligible(p, n) /\ FirstOfName(n)) => <>[]InNetwork(p, n)

\* A pod whose annotations no longer name a network ends up out of it.
LeavingIsReleased ==
    \A p \in Pods, n \in Networks :
        <>[](/\ pods[p] # Absent
             /\ pods[p].label
             /\ n \notin UniqueNetworks(pods[p])) => <>[]~InNetwork(p, n)
===============================================================================
