---------------------------- MODULE IpamOwnerProofs ----------------------------
(***************************************************************************)
(* Every allocation has its pod, and a finalizer keeps that pod from       *)
(* leaving before the allocation does.  Proved for clusters in which a pod *)
(* keeps its label and its cluster address (Drift is FALSE): relabelling a *)
(* running pod, or giving it a new sandbox, breaks the property.           *)
(***************************************************************************)
EXTENDS IpamProofs

-------------------------------------------------------------------------------
(* The inductive invariant *)

\* A labelled pod that nobody deleted has the finalizer the webhook gave it.
Injected ==
    \A p \in Pods :
        pods[p] # Absent /\ pods[p].label /\ ~pods[p].deleting => pods[p].finalizer

\* The pod stored under name p is, or is the successor in all that matters of,
\* the one this copy was made of.
Alive(copy, p) ==
    /\ pods[p] # Absent /\ pods[p].finalizer
    /\ copy.podIP # NoIP => pods[p].podIP = copy.podIP

CacheAlive ==
    \A p \in Pods :
        podCache[p] # Absent /\ podCache[p].label /\ ~podCache[p].deleting
            => Alive(podCache[p], p)

WorkAlive ==
    \A p \in Pods : work.pod = p /\ ~work.obj.deleting => Alive(work.obj, p)

\* The cache knows every network that has allocations: they were written from a
\* copy the cache had.
CacheKnows ==
    \A n \in Networks :
        networks[n] # Absent /\ networks[n].allocations # {} => networkCache[n] # Absent

\* A worker that is clearing a deleted pod out of its networks, and met no error
\* so far, has cleared every network it is done with.
Clearing ==
    \A p \in Pods, n \in Networks :
        work.pod = p /\ work.obj.deleting /\ ~work.hasErrors /\ InNetwork(p, n)
            => n \in work.todo

OwnInv ==
    /\ Injected /\ CacheAlive /\ WorkAlive /\ CacheKnows /\ Clearing
    /\ AllocationsOwned

-------------------------------------------------------------------------------
(* The ways a stored pod can change when nothing drifts *)

Born(p) ==
    /\ pods[p] = Absent /\ pods'[p] # Absent
    /\ pods'[p].label => pods'[p].finalizer
    /\ UNCHANGED networks

Touched(p) ==
    /\ pods[p] # Absent /\ pods'[p] # Absent
    /\ pods'[p].finalizer = pods[p].finalizer
    /\ pods'[p].label = pods[p].label
    /\ pods[p].deleting => pods'[p].deleting
    /\ pods[p].podIP # NoIP => pods'[p].podIP = pods[p].podIP
    /\ UNCHANGED networks

Freed(p) ==
    /\ work.pod = p /\ pods[p] # Absent /\ pods[p] = work.obj /\ pods'[p] # Absent
    /\ work.obj.deleting /\ ~work.hasErrors /\ work.todo = {}
    /\ pods'[p].deleting
    /\ UNCHANGED networks

Gone(p) ==
    /\ pods[p] # Absent /\ pods[p].deleting /\ ~pods[p].finalizer
    /\ pods'[p] = Absent
    /\ UNCHANGED networks

PodChange(p) == pods'[p] = pods[p] \/ Born(p) \/ Touched(p) \/ Freed(p) \/ Gone(p)

\* Storing new changes what the caller changed and the version.
LEMMA PutPodMeans ==
    ASSUME TypeOK, NEW p \in Pods, NEW new \in Pod, PutPod(p, new)
    PROVE  /\ pods'[p] # Absent
           /\ pods'[p].label = new.label /\ pods'[p].podIP = new.podIP
           /\ pods'[p].deleting = new.deleting /\ pods'[p].finalizer = new.finalizer
           /\ \A q \in Pods \ {p} : pods'[q] = pods[q]
<1>1. new # Absent /\ revision[p] + 1 \in Nat
  BY ConstantsAssumption DEF TypeOK
<1>2. pods'[p] = [new EXCEPT !.version = revision[p] + 1]
  BY <1>1 DEF PutPod, TypeOK
<1>3. pods'[p] \in Pod
  BY <1>1, <1>2 DEF Pod
<1>4. pods'[p] # Absent
  BY <1>3, ConstantsAssumption
<1>5. \A q \in Pods \ {p} : pods'[q] = pods[q]
  BY DEF PutPod, TypeOK
<1> QED
  BY <1>2, <1>4, <1>5 DEF Pod

LEMMA PodChanges ==
    ASSUME ~Drift, TypeOK, WorkOK, VersionsOK, [Next]_vars
    PROVE  \A p \in Pods : PodChange(p)
<1>0. UNCHANGED pods => \A p \in Pods : PodChange(p)
  BY DEF PodChange
<1>1. CASE PodReconcileFinish
  <2>1. CASE UNCHANGED pods
    BY <1>0, <2>1
  <2>2. CASE /\ work.pod \in Pods /\ work.obj \in Pod /\ pods[work.pod] = work.obj
             /\ work.obj.deleting /\ ~work.hasErrors /\ work.todo = {}
             /\ [work.obj EXCEPT !.finalizer = FALSE] \in Pod
             /\ PutPod(work.pod, [work.obj EXCEPT !.finalizer = FALSE])
             /\ UNCHANGED networks
    <3> DEFINE new == [work.obj EXCEPT !.finalizer = FALSE]
    <3>1. new \in Pod /\ new.deleting /\ PutPod(work.pod, new)
      BY <2>2 DEF Pod
    <3> HIDE DEF new
    <3>2. pods[work.pod] # Absent
      BY <2>2, ConstantsAssumption
    <3> QED
      BY <2>2, <3>1, <3>2, PutPodMeans DEF PodChange, Freed
  <2> QED
    BY <1>1, <2>1, <2>2, FinishMeans
<1>2. ASSUME NEW p \in Pods, NEW label \in BOOLEAN, NEW annotation \in Annotations,
             PodCreate(p, label, annotation)
      PROVE  \A q \in Pods : PodChange(q)
  <2> DEFINE new == [version |-> 0, label |-> label, annotation |-> annotation, podIP |-> NoIP,
                     deleting |-> FALSE, finalizer |-> PodInjectorAddsFinalizer(label)]
  <2>1. new \in Pod /\ (new.label => new.finalizer)
    BY ConstantsAssumption DEF Pod, PodInjectorAddsFinalizer
  <2>2. PutPod(p, new) /\ pods[p] = Absent /\ UNCHANGED networks
    BY <1>2 DEF PodCreate
  <2> HIDE DEF new
  <2> QED
    BY <2>1, <2>2, PutPodMeans DEF PodChange, Born
<1>3. ASSUME NEW p \in Pods, NEW annotation \in Annotations, PodAnnotate(p, annotation)
      PROVE  \A q \in Pods : PodChange(q)
  <2> DEFINE new == [pods[p] EXCEPT !.annotation = annotation]
  <2>1. pods[p] \in Pod /\ pods[p] # Absent /\ PutPod(p, new) /\ UNCHANGED networks
    BY <1>3 DEF PodAnnotate, TypeOK
  <2>2. /\ new \in Pod /\ new.label = pods[p].label /\ new.podIP = pods[p].podIP
        /\ new.deleting = pods[p].deleting /\ new.finalizer = pods[p].finalizer
    BY <2>1, ConstantsAssumption DEF Pod
  <2> HIDE DEF new
  <2> QED
    BY <2>1, <2>2, PutPodMeans DEF PodChange, Touched
<1>4. ASSUME NEW p \in Pods, PodDelete(p)
      PROVE  \A q \in Pods : PodChange(q)
  <2> DEFINE new == [pods[p] EXCEPT !.deleting = TRUE]
  <2>1. pods[p] \in Pod /\ pods[p] # Absent /\ PutPod(p, new) /\ UNCHANGED networks
    BY <1>4 DEF PodDelete, TypeOK
  <2>2. /\ new \in Pod /\ new.label = pods[p].label /\ new.podIP = pods[p].podIP
        /\ new.deleting /\ new.finalizer = pods[p].finalizer
    BY <2>1 DEF Pod
  <2> HIDE DEF new
  <2> QED
    BY <2>1, <2>2, PutPodMeans DEF PodChange, Touched
<1>5. ASSUME NEW p \in Pods, PodGone(p)
      PROVE  \A q \in Pods : PodChange(q)
  BY <1>5 DEF PodGone, PutPod, TypeOK, PodChange, Gone
<1>6. ASSUME NEW p \in Pods, NEW ip \in PodIPs, KubeletSetIP(p, ip)
      PROVE  \A q \in Pods : PodChange(q)
  <2> DEFINE new == [pods[p] EXCEPT !.podIP = ip]
  <2>1. /\ pods[p] \in Pod /\ pods[p] # Absent /\ pods[p].podIP = NoIP
        /\ PutPod(p, new) /\ UNCHANGED networks
    BY <1>6 DEF KubeletSetIP, TypeOK
  <2>2. /\ new \in Pod /\ new.label = pods[p].label
        /\ new.deleting = pods[p].deleting /\ new.finalizer = pods[p].finalizer
    BY <2>1 DEF Pod
  <2> HIDE DEF new
  <2> QED
    BY <2>1, <2>2, PutPodMeans DEF PodChange, Touched
<1>7. ASSUME NEW p \in Pods, PodRelabel(p) \/ \E ip \in PodIPs : PodIPChange(p, ip)
      PROVE  FALSE
  BY <1>7 DEF PodRelabel, PodIPChange
<1>8. ASSUME \/ \E p \in Pods : PodReconcileStart(p) \/ SyncPod(p)
             \/ \E n \in Networks : PodReconcileNetwork(n) \/ NetworkReconcile(n) \/ SyncNetwork(n)
             \/ Resync \/ OperatorRestart \/ UNCHANGED vars
             \/ \E n \in Networks : NetworkDelete(n)
             \/ \E n \in Networks, spec \in Specs : NetworkCreate(n, spec) \/ NetworkUpdate(n, spec)
      PROVE  UNCHANGED pods
  BY <1>8 DEF PodReconcileStart, SyncPod, PodReconcileNetwork, NetworkReconcile, SyncNetwork,
              Resync, OperatorRestart, NetworkDelete, NetworkCreate, NetworkUpdate, vars, api
<1> QED
  BY <1>0, <1>1, <1>2, <1>3, <1>4, <1>5, <1>6, <1>7, <1>8 DEF Next, Operator, Environment

-------------------------------------------------------------------------------
(* The ways caches and worker can change *)

CachesFollow ==
    /\ \A p \in Pods : podCache'[p] = podCache[p] \/ podCache'[p] = pods'[p]
    /\ \A n \in Networks : networkCache'[n] = networkCache[n] \/ networkCache'[n] = networks'[n]

WorkChange ==
    \/ UNCHANGED work
    \/ work' = Idle
    \/ \E p \in Pods : PodReconcileStart(p)
    \/ \E n \in Networks : PodReconcileNetwork(n)

LEMMA OperatorChanges ==
    ASSUME TypeOK, [Next]_vars
    PROVE  CachesFollow /\ WorkChange
<1>1. ASSUME \/ UNCHANGED vars \/ Environment
             \/ \E n \in Networks : NetworkReconcile(n)
             \/ Resync
      PROVE  UNCHANGED caches /\ UNCHANGED work
  BY <1>1, EnvironmentOps DEF EnvironmentOp, NetworkReconcile, Resync, vars
<1>2. ASSUME \/ \E p \in Pods : PodReconcileStart(p)
             \/ \E n \in Networks : PodReconcileNetwork(n)
      PROVE  UNCHANGED caches /\ WorkChange
  BY <1>2 DEF PodReconcileStart, PodReconcileNetwork, WorkChange
<1>3. CASE PodReconcileFinish
  BY <1>3 DEF PodReconcileFinish, CachesFollow, WorkChange, caches
<1>4. CASE OperatorRestart
  BY <1>4 DEF OperatorRestart, CachesFollow, WorkChange, api
<1>5. ASSUME NEW p \in Pods, SyncPod(p)
      PROVE  CachesFollow /\ UNCHANGED work
  BY <1>5 DEF SyncPod, CachesFollow, TypeOK, api
<1>6. ASSUME NEW n \in Networks, SyncNetwork(n)
      PROVE  CachesFollow /\ UNCHANGED work
  BY <1>6 DEF SyncNetwork, CachesFollow, TypeOK, api
<1>7. UNCHANGED caches => CachesFollow
  BY DEF CachesFollow, caches
<1>8. UNCHANGED work => WorkChange
  BY DEF WorkChange
<1> QED
  BY <1>1, <1>2, <1>3, <1>4, <1>5, <1>6, <1>7, <1>8 DEF Next, Operator

\* Where an allocation comes from: it was there, or the worker just made it for
\* a pod that asks for the network.
LEMMA AllocationOrigin ==
    ASSUME Inv, [Next]_vars, NEW n \in Networks, networks'[n] # Absent,
           NEW b \in networks'[n].allocations
    PROVE  \/ /\ networks[n] # Absent
              /\ \E a \in networks[n].allocations : a.podName = b.podName /\ a.podIP = b.podIP
           \/ /\ Turned(n) /\ Wanted(n)
              /\ b.podName = work.pod /\ b.podIP = work.obj.podIP
<1>1. NetworkChange(n)
  BY NetworkChanges DEF Inv
<1>2. CASE Turned(n)
  <2>1. b \in TurnResult(n).allocations
    BY <1>2 DEF Turned, SameStatus
  <2>2. CASE Wanted(n)
    <3>1. Traced(TurnResult(n), networks[n], work.pod, work.obj)
      BY <1>2, <2>2, TurnResultGood DEF Turned, Inv
    <3> QED
      BY <1>2, <2>1, <2>2, <3>1 DEF Traced, Turned
  <2>3. CASE ~Wanted(n)
    <3>1. TurnResult(n).allocations = Without(work.pod, networks[n].allocations)
      BY <1>2, <2>3, TurnResultGood DEF Turned, Inv
    <3> QED
      BY <1>2, <2>1, <3>1 DEF Without, Turned
  <2> QED
    BY <2>2, <2>3
<1> QED
  BY <1>1, <1>2 DEF NetworkChange, Removed, Created, Edited, SameStatus

\* A deleted pod asks for no network.
LEMMA DeletedWantsNothing ==
    ASSUME NEW n \in Networks, Wanted(n)
    PROVE  ~work.obj.deleting
  BY DEF Wanted, UniqueNetworks

-------------------------------------------------------------------------------
(* The steps *)

LEMMA InjectedStep ==
    ASSUME ~Drift, Inv, Injected, [Next]_vars
    PROVE  Injected'
<1>1. \A p \in Pods : PodChange(p)
  BY PodChanges DEF Inv
<1> QED
  BY <1>1 DEF Injected, PodChange, Born, Touched, Freed, Gone

\* What is alive stays alive, unless it is freed.
LEMMA AliveStays ==
    ASSUME NEW p \in Pods, NEW copy, Alive(copy, p), PodChange(p), ~Freed(p)
    PROVE  /\ pods'[p] # Absent /\ pods'[p].finalizer
           /\ copy.podIP # NoIP => pods'[p].podIP = copy.podIP
  BY DEF Alive, PodChange, Born, Touched, Gone

LEMMA CacheAliveStep ==
    ASSUME ~Drift, Inv, Injected, CacheAlive, [Next]_vars
    PROVE  CacheAlive'
<1> SUFFICES ASSUME NEW p \in Pods, podCache'[p] # Absent, podCache'[p].label,
                    ~podCache'[p].deleting
             PROVE  /\ pods'[p] # Absent /\ pods'[p].finalizer
                    /\ podCache'[p].podIP # NoIP => pods'[p].podIP = podCache'[p].podIP
  BY DEF CacheAlive, Alive
<1>1. PodChange(p)
  BY PodChanges DEF Inv
<1>2. CASE podCache'[p] = pods'[p]
  BY <1>2, InjectedStep DEF Injected
<1>3. CASE podCache'[p] = podCache[p]
  <2>1. Alive(podCache[p], p)
    BY <1>3 DEF CacheAlive
  <2>2. ~Freed(p)
    <3> SUFFICES ASSUME Freed(p) PROVE FALSE
      OBVIOUS
    <3>1. podCache[p] = pods[p]
      BY DEF Freed, Inv, VersionsOK, Current
    <3> QED
      BY <1>3, <3>1 DEF Freed
  <2> QED
    BY <1>1, <1>3, <2>1, <2>2, AliveStays
<1> QED
  BY <1>2, <1>3, OperatorChanges DEF Inv, CachesFollow

LEMMA WorkAliveStep ==
    ASSUME ~Drift, Inv, CacheAlive, WorkAlive, [Next]_vars
    PROVE  WorkAlive'
<1> SUFFICES ASSUME NEW p \in Pods, work'.pod = p, ~work'.obj.deleting
             PROVE  /\ pods'[p] # Absent /\ pods'[p].finalizer
                    /\ work'.obj.podIP # NoIP => pods'[p].podIP = work'.obj.podIP
  BY DEF WorkAlive, Alive
<1>1. PodChange(p)
  BY PodChanges DEF Inv
<1>2. CASE work'.pod = work.pod /\ work'.obj = work.obj
  <2>1. Alive(work.obj, p) /\ ~Freed(p)
    BY <1>2 DEF WorkAlive, Freed
  <2> QED
    BY <1>1, <1>2, <2>1, AliveStays
<1>3. CASE work' = Idle
  BY <1>3, ConstantsAssumption DEF Idle
<1>4. ASSUME NEW q \in Pods, PodReconcileStart(q), work' # Idle
      PROVE  /\ pods'[p] # Absent /\ pods'[p].finalizer
             /\ work'.obj.podIP # NoIP => pods'[p].podIP = work'.obj.podIP
  <2>1. /\ work'.pod = q /\ work'.obj = podCache[q] /\ podCache[q] # Absent
        /\ podCache[q].label /\ UNCHANGED pods
    BY <1>4 DEF PodReconcileStart, api
  <2> QED
    BY <2>1 DEF CacheAlive, Alive
<1>5. ASSUME NEW n \in Networks, PodReconcileNetwork(n)
      PROVE  work'.pod = work.pod /\ work'.obj = work.obj
  BY <1>5 DEF PodReconcileNetwork, Inv, TypeOK, Work
<1> QED
  BY <1>2, <1>3, <1>4, <1>5, OperatorChanges DEF Inv, WorkChange

LEMMA CacheKnowsStep ==
    ASSUME Inv, CacheKnows, [Next]_vars
    PROVE  CacheKnows'
<1> SUFFICES ASSUME NEW n \in Networks, networks'[n] # Absent, networks'[n].allocations # {}
             PROVE  networkCache'[n] # Absent
  BY DEF CacheKnows
<1>1. NetworkChange(n)
  BY NetworkChanges DEF Inv
<1>2. networkCache[n] # Absent
  <2>1. CASE Turned(n)
    BY <2>1 DEF Turned, Inv, VersionsOK, Current
  <2> QED
    BY <1>1, <2>1 DEF NetworkChange, Removed, Created, Edited, SameStatus, CacheKnows
<1> QED
  BY <1>2, OperatorChanges DEF Inv, CachesFollow

\* The turn of a network, for a deleted pod: without an error the pod is out.
LEMMA ClearingTurn ==
    ASSUME Inv, NEW n \in Networks, PodReconcileNetwork(n), work.obj.deleting,
           ~work'.hasErrors
    PROVE  /\ ~work.hasErrors
           /\ networks'[n] # Absent => Of(work.pod, networks'[n].allocations) = {}
<1>1. ~Wanted(n) /\ ~TurnFails(n)
  BY DeletedWantsNothing DEF TurnFails
<1>2. n \in work.todo /\ work.nets[n] # Absent /\ work.hasErrors \in BOOLEAN
  BY DEF PodReconcileNetwork, Inv, WorkOK, TypeOK, Work
<1>3. PICK err \in Errors :
        /\ UpdateNetwork(n, work.nets[n], TurnResult(n), err)
        /\ work' = [work EXCEPT !.todo = @ \ {n},
                                !.hasErrors = @ \/ err \notin {"nil", "NotFound"}]
  BY <1>1 DEF PodReconcileNetwork
<1>4. ~work.hasErrors /\ err \in {"nil", "NotFound"}
  BY <1>2, <1>3 DEF Inv, TypeOK, Work
<1>5. /\ TurnResult(n) \in Network
      /\ TurnResult(n).allocations = Without(work.pod, work.nets[n].allocations)
  BY <1>1, <1>2, TurnResultGood DEF Inv
<1>6. Of(work.pod, TurnResult(n).allocations) = {}
  BY <1>5 DEF Of, Without
<1>7. CASE networks[n] = Absent /\ UNCHANGED networks
  BY <1>4, <1>7
<1>8. CASE Current(networks[n], work.nets[n]) /\ TurnResult(n) = work.nets[n] /\ UNCHANGED networks
  <2>1. networks[n] = TurnResult(n)
    BY <1>2, <1>8 DEF Inv, VersionsOK, CopyOf
  <2> QED
    BY <1>4, <1>6, <1>8, <2>1
<1>9. CASE PutNetwork(n, TurnResult(n))
  BY <1>4, <1>5, <1>6, <1>9, PutNetworkMeans DEF Inv, SameStatus
<1> QED
  BY <1>3, <1>4, <1>7, <1>8, <1>9 DEF UpdateNetwork, AcceptNetwork

LEMMA ClearingStep ==
    ASSUME Inv, CacheKnows, Clearing, [Next]_vars
    PROVE  Clearing'
<1> SUFFICES ASSUME NEW p \in Pods, NEW n \in Networks,
                    work'.pod = p, work'.obj.deleting, ~work'.hasErrors,
                    networks'[n] # Absent, Of(p, networks'[n].allocations) # {}
             PROVE  n \in work'.todo
  BY DEF Clearing, InNetwork
<1>1. PICK b \in networks'[n].allocations : b.podName = p
  BY DEF Of
<1>2. ASSUME work.pod = p, work.obj.deleting, ~work.hasErrors
      PROVE  n \in work.todo
  <2>1. ~Wanted(n)
    BY <1>2, DeletedWantsNothing
  <2>2. networks[n] # Absent /\ \E a \in networks[n].allocations : a.podName = b.podName
    BY <2>1, AllocationOrigin
  <2> QED
    BY <1>1, <1>2, <2>2 DEF Clearing, InNetwork, Of
<1>3. CASE UNCHANGED work
  BY <1>2, <1>3
<1>4. CASE work' = Idle
  BY <1>4, ConstantsAssumption DEF Idle
<1>5. ASSUME NEW q \in Pods, PodReconcileStart(q), work' # Idle
      PROVE  n \in work'.todo
  <2>1. UNCHANGED networks /\ work'.todo = {m \in Networks : networkCache[m] # Absent}
    BY <1>5 DEF PodReconcileStart, Visited, api
  <2> QED
    BY <1>1, <2>1 DEF CacheKnows
<1>6. ASSUME NEW m \in Networks, PodReconcileNetwork(m)
      PROVE  n \in work'.todo
  <2>1. work'.pod = work.pod /\ work'.obj = work.obj /\ work'.todo = work.todo \ {m}
    BY <1>6 DEF PodReconcileNetwork, Inv, TypeOK, Work
  <2>2. ~work.hasErrors /\ (networks'[m] # Absent => Of(p, networks'[m].allocations) = {})
    BY <1>6, <2>1, ClearingTurn
  <2>3. n # m
    BY <2>2
  <2> QED
    BY <1>2, <2>1, <2>2, <2>3
<1> QED
  BY <1>3, <1>4, <1>5, <1>6, OperatorChanges DEF Inv, WorkChange

LEMMA OwnedStep ==
    ASSUME ~Drift, Inv, OwnInv, [Next]_vars
    PROVE  AllocationsOwned'
<1> SUFFICES ASSUME NEW n \in Networks, networks'[n] # Absent,
                    NEW b \in networks'[n].allocations
             PROVE  /\ pods'[b.podName] # Absent /\ pods'[b.podName].finalizer
                    /\ pods'[b.podName].podIP = b.podIP
  BY DEF AllocationsOwned
<1> DEFINE p == b.podName
<1>1. p \in Pods /\ b.podIP # NoIP
  <2>1. TypeOK'
    BY TypeStep DEF Inv
  <2>2. b \in Allocation
    BY <2>1 DEF TypeOK, Network
  <2> QED
    BY <2>2, ConstantsAssumption DEF Allocation
<1>2. PodChange(p)
  BY <1>1, PodChanges DEF Inv
<1>3. CASE /\ networks[n] # Absent
           /\ \E a \in networks[n].allocations : a.podName = p /\ a.podIP = b.podIP
  <2>1. pods[p] # Absent /\ pods[p].finalizer /\ pods[p].podIP = b.podIP
    BY <1>3 DEF OwnInv, AllocationsOwned
  <2>2. ~Freed(p)
    BY <1>1, <1>3 DEF OwnInv, Clearing, InNetwork, Of, Freed
  <2> QED
    BY <1>1, <1>2, <2>1, <2>2 DEF PodChange, Born, Touched, Gone
<1>4. CASE UNCHANGED networks
  BY <1>3, <1>4
<1>5. CASE /\ Turned(n) /\ Wanted(n) /\ pods'[p] = pods[p]
           /\ p = work.pod /\ b.podIP = work.obj.podIP
  <2>1. Alive(work.obj, p)
    BY <1>1, <1>5, DeletedWantsNothing DEF OwnInv, WorkAlive
  <2> QED
    BY <1>1, <1>5, <2>1 DEF Alive
<1>6. UNCHANGED networks \/ pods'[p] = pods[p]
  BY <1>2 DEF PodChange, Born, Touched, Freed, Gone
<1> QED
  BY <1>3, <1>4, <1>5, <1>6, AllocationOrigin

LEMMA OwnInvStep ==
    ASSUME ~Drift
    PROVE  Inv /\ OwnInv /\ [Next]_vars => OwnInv'
  BY InjectedStep, CacheAliveStep, WorkAliveStep, CacheKnowsStep, ClearingStep, OwnedStep
     DEF OwnInv

LEMMA OwnInvInit == Init => OwnInv
<1> SUFFICES ASSUME Init PROVE OwnInv
  OBVIOUS
<1>1. Injected /\ CacheAlive /\ CacheKnows /\ AllocationsOwned
  BY DEF Init, Injected, CacheAlive, CacheKnows, AllocationsOwned
<1>2. WorkAlive /\ Clearing
  BY ConstantsAssumption DEF Init, WorkAlive, Clearing, Idle
<1> QED
  BY <1>1, <1>2 DEF OwnInv

\* Every allocation belongs to a pod that exists, has the cluster address the
\* allocation records, and cannot disappear before it was released: for any
\* number of pods and networks, with caches of any age, conflicts, lost calls
\* and restarts at any point of a reconciliation.
THEOREM AllocationsOwnedHold ==
    ASSUME ~Drift
    PROVE  Spec => []AllocationsOwned
<1>1. Init => OwnInv
  BY OwnInvInit
<1>2. Inv /\ OwnInv /\ [Next]_vars => OwnInv'
  BY OwnInvStep
<1>3. OwnInv => AllocationsOwned
  BY DEF OwnInv
<1> QED
  BY <1>1, <1>2, <1>3, Invariance, PTL DEF Spec
===============================================================================
