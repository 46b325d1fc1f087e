---------------------------- MODULE IpamBookProofs ----------------------------
(***************************************************************************)
(* Ipam implements AddressBook, for any number of pods and networks: every *)
(* step of the operator, its caches and its users changes the page of at   *)
(* most one network, in one of the ways the book allows.                   *)
(***************************************************************************)
EXTENDS IpamBook, IpamProofs

-------------------------------------------------------------------------------
(* Pages *)

Page(before, after) == Phase(before) = Phase(after) /\ Leases(before) = Leases(after)

\* A network moves on without a change of its leases.
Moves(before, after) ==
    /\ Leases(before) = Leases(after)
    /\ \/ Phase(before) = "none" /\ Phase(after) = "unsecured"
       \/ Phase(before) = "unsecured" /\ Phase(after) = "open"
       \/ Phase(before) = "open" /\ Phase(after) = "closing"
       \/ Phase(before) = "closing" /\ Phase(after) = "none" /\ Leases(before) = {}

Discards(before, after) ==
    Phase(before) = "unsecured" /\ Phase(after) = "none" /\ Leases(after) = {}

Grants(before, after, lease) ==
    /\ Phase(before) = Phase(after) /\ Phase(before) \in {"unsecured", "open"}
    /\ \A l \in Leases(before) : l.pod # lease.pod /\ l.ip # lease.ip
    /\ Leases(after) = Leases(before) \cup {lease}

GivesBack(before, after, lease) ==
    /\ Phase(before) = Phase(after)
    /\ lease \in Leases(before)
    /\ Leases(after) = Leases(before) \ {lease}

\* What may happen to the page of a network.
Turns(before, after) ==
    \/ Page(before, after) \/ Moves(before, after) \/ Discards(before, after)
    \/ \E lease \in Book!Lease : Grants(before, after, lease) \/ GivesBack(before, after, lease)

OnePage ==
    \/ UNCHANGED networks
    \/ \E n \in Networks : /\ Turns(networks[n], networks'[n])
                           /\ \A m \in Networks \ {n} : networks'[m] = networks[m]

\* A step that turns one page as allowed is a step of the book.
LEMMA OnePageIsBookStep ==
    ASSUME TypeOK, OnePage
    PROVE  [Book!Next]_(Book!vars)
<1>1. CASE UNCHANGED networks
  BY <1>1 DEF Book!vars
<1>2. ASSUME NEW n \in Networks, Turns(networks[n], networks'[n]),
             \A m \in Networks \ {n} : networks'[m] = networks[m]
      PROVE  [Book!Next]_(Book!vars)
  <2> DEFINE ph == [m \in Networks |-> Phase(networks[m])]
             phNext == [m \in Networks |-> Phase(networks'[m])]
             ls == [m \in Networks |-> Leases(networks[m])]
             lsNext == [m \in Networks |-> Leases(networks'[m])]
  <2>1. phNext = [ph EXCEPT ![n] = Phase(networks'[n])]
    BY <1>2
  <2>2. lsNext = [ls EXCEPT ![n] = Leases(networks'[n])]
    BY <1>2
  <2>3. ph[n] = Phase(networks[n]) /\ ls[n] = Leases(networks[n])
    OBVIOUS
  <2>4. Phase(networks[n]) = Phase(networks'[n]) => phNext = ph
    BY <2>1
  <2>5. Leases(networks[n]) = Leases(networks'[n]) => lsNext = ls
    BY <2>2
  <2>6. CASE Page(networks[n], networks'[n])
    BY <2>4, <2>5, <2>6 DEF Page, Book!vars
  <2>7. CASE Moves(networks[n], networks'[n])
    <3>1. Book!Open(n) \/ Book!Secure(n) \/ Book!Close(n) \/ Book!Remove(n)
      BY <2>1, <2>3, <2>5, <2>7 DEF Moves, Book!Open, Book!Secure, Book!Close, Book!Remove, Book!Enter
    <3> QED
      BY <3>1 DEF Book!Next
  <2>8. CASE Discards(networks[n], networks'[n])
    <3>1. Book!Discard(n)
      BY <2>1, <2>2, <2>3, <2>8 DEF Discards, Book!Discard, Book!Enter
    <3> QED
      BY <3>1 DEF Book!Next
  <2>9. ASSUME NEW lease \in Book!Lease, Grants(networks[n], networks'[n], lease)
        PROVE  Book!Next
    <3>1. Book!Grant(n, lease)
      BY <2>2, <2>3, <2>4, <2>9 DEF Grants, Book!Grant
    <3> QED
      BY <3>1 DEF Book!Next
  <2>10. ASSUME NEW lease \in Book!Lease, GivesBack(networks[n], networks'[n], lease)
         PROVE  Book!Next
    <3>1. Book!GiveBack(n, lease)
      BY <2>2, <2>3, <2>4, <2>10 DEF GivesBack, Book!GiveBack
    <3> QED
      BY <3>1 DEF Book!Next
  <2> QED
    BY <1>2, <2>6, <2>7, <2>8, <2>9, <2>10 DEF Turns
<1> QED
  BY <1>1, <1>2 DEF OnePage

-------------------------------------------------------------------------------
(* The steps of Ipam *)

\* Leases are for addresses of the CIDRs users submit only as long as the stored
\* specs are theirs.
SpecsOK == \A n \in Networks : networks[n] # Absent => networks[n].spec \in Specs

\* A lease of an allocation in the CIDR of a submitted spec.
LEMMA LeaseType ==
    ASSUME NEW nw \in Network, InCIDR(nw), nw.spec \in Specs, NEW a \in nw.allocations
    PROVE  [pod |-> a.podName, ip |-> a.ip] \in Book!Lease
<1>1. a.podName \in Pods
  BY DEF Network, Allocation
<1>2. a.ip \in nw.spec.allocatableCIDR.lo .. nw.spec.allocatableCIDR.hi
  BY DEF InCIDR, Contains
<1>3. a.ip \in Addressable
  BY <1>2, Zenon DEF Addressable
<1> QED
  BY <1>1, <1>3 DEF Book!Lease

\* The same status, deletion mark and finalizer are the same page.
LEMMA SamePage ==
    ASSUME NEW before, NEW after, before # Absent, after # Absent,
           after.allocations = before.allocations,
           after.deleting = before.deleting, after.finalizer = before.finalizer
    PROVE  Page(before, after)
BY DEF Page, Phase, Leases

\* A turn of the pod worker: allocateIP grants at most one lease, of the pod it
\* works for, deallocateIP gives at most one back.
LEMMA TurnTurns ==
    ASSUME Inv, SpecsOK, NEW n \in Networks, n \in work.todo, ~TurnFails(n),
           networks[n] = work.nets[n], work.nets[n] # Absent, NEW after, after # Absent,
           after.allocations = TurnResult(n).allocations,
           after.deleting = TurnResult(n).deleting, after.finalizer = TurnResult(n).finalizer
    PROVE  Turns(networks[n], after)
<1> DEFINE nw == networks[n]
           new == TurnResult(n)
<1>1. /\ nw \in Network /\ new \in Network /\ nw # Absent
      /\ SameBut(new, nw) /\ Good(nw) /\ Good(new)
      /\ Wanted(n) => Traced(new, nw, work.pod, work.obj)
      /\ ~Wanted(n) => new.allocations = Without(work.pod, nw.allocations)
  BY TurnResultGood DEF Inv, GoodNetworks
<1>2. nw.spec \in Specs /\ new.spec \in Specs
  BY <1>1 DEF SpecsOK, SameBut
<1>3. Phase(nw) = Phase(after)
  BY <1>1 DEF Phase, SameBut
<1>4. /\ Leases(nw) = {[pod |-> a.podName, ip |-> a.ip] : a \in nw.allocations}
      /\ Leases(after) = {[pod |-> a.podName, ip |-> a.ip] : a \in new.allocations}
  BY <1>1 DEF Leases
<1> HIDE DEF nw, new
<1>5. CASE Wanted(n)
  <2>1. \A b \in new.allocations :
          \/ \E a \in nw.allocations : a.podName = b.podName /\ a.ip = b.ip
          \/ Of(work.pod, nw.allocations) = {} /\ ~nw.deleting /\ b.podName = work.pod
    BY <1>1, <1>5 DEF Traced
  <2>2. \A a \in nw.allocations : \E b \in new.allocations : a.podName = b.podName
    BY <1>1, <1>5 DEF Traced
  <2>3. \A a \in nw.allocations : \E b \in new.allocations : a.podName = b.podName /\ a.ip = b.ip
    <3> SUFFICES ASSUME NEW a \in nw.allocations
                 PROVE  \E b \in new.allocations : a.podName = b.podName /\ a.ip = b.ip
      OBVIOUS
    <3>1. PICK b \in new.allocations : a.podName = b.podName
      BY <2>2
    <3>2. PICK c \in nw.allocations : c.podName = b.podName /\ c.ip = b.ip
      BY <2>1, <3>1 DEF Of
    <3>3. c = a
      BY <1>1, <3>1, <3>2 DEF Good, UniqueIn
    <3> QED
      BY <3>1, <3>2, <3>3
  <2>4. CASE \A b \in new.allocations : \E a \in nw.allocations : a.podName = b.podName /\ a.ip = b.ip
    <3>1. Leases(after) = Leases(nw)
      BY <1>4, <2>3, <2>4
    <3> QED
      BY <1>3, <3>1 DEF Turns, Page, nw
  <2>5. ASSUME NEW x \in new.allocations,
               ~\E a \in nw.allocations : a.podName = x.podName /\ a.ip = x.ip
        PROVE  Turns(networks[n], after)
    <3> DEFINE lease == [pod |-> x.podName, ip |-> x.ip]
    <3>1. Of(work.pod, nw.allocations) = {} /\ ~nw.deleting /\ x.podName = work.pod
      BY <2>1, <2>5
    <3>2. \A b \in new.allocations :
            b = x \/ \E a \in nw.allocations : a.podName = b.podName /\ a.ip = b.ip
      BY <1>1, <2>1, <3>1 DEF Good, UniqueIn
    <3>3. Leases(after) = Leases(nw) \cup {lease}
      BY <1>4, <2>3, <3>2
    <3>4. \A l \in Leases(nw) : l.pod # lease.pod /\ l.ip # lease.ip
      <4> SUFFICES ASSUME NEW a \in nw.allocations PROVE a.podName # x.podName /\ a.ip # x.ip
        BY <1>4
      <4>1. a.podName # x.podName
        BY <3>1 DEF Of
      <4>2. PICK b \in new.allocations : b.podName = a.podName /\ b.ip = a.ip
        BY <2>3
      <4> QED
        BY <1>1, <4>1, <4>2 DEF Good, UniqueIn
    <3>5. Phase(nw) \in {"unsecured", "open"}
      BY <1>1, <3>1 DEF Phase
    <3>6. lease \in Book!Lease
      BY <1>1, <1>2, LeaseType DEF Good
    <3> HIDE DEF lease
    <3>7. Grants(nw, after, lease)
      BY <1>3, <3>3, <3>4, <3>5 DEF Grants
    <3> QED
      BY <3>6, <3>7 DEF Turns, nw
  <2> QED
    BY <2>4, <2>5
<1>6. CASE ~Wanted(n)
  <2>1. new.allocations = {a \in nw.allocations : a.podName # work.pod}
    BY <1>1, <1>6 DEF Without
  <2>2. CASE \A a \in nw.allocations : a.podName # work.pod
    <3>1. new.allocations = nw.allocations
      BY <2>1, <2>2
    <3>2. Leases(after) = Leases(nw)
      BY <1>4, <3>1
    <3> QED
      BY <1>3, <3>2 DEF Turns, Page, nw
  <2>3. ASSUME NEW x \in nw.allocations, x.podName = work.pod
        PROVE  Turns(networks[n], after)
    <3> DEFINE lease == [pod |-> x.podName, ip |-> x.ip]
    <3>1. \A a \in nw.allocations : a = x \/ a.podName # work.pod
      BY <1>1, <2>3 DEF Good, UniqueIn
    <3>2. Leases(after) = Leases(nw) \ {lease}
      <4>1. new.allocations = nw.allocations \ {x}
        BY <2>1, <2>3, <3>1
      <4>2. \A a \in nw.allocations \ {x} : a.podName # x.podName
        BY <2>3, <3>1
      <4> QED
        BY <1>4, <4>1, <4>2
    <3>3. lease \in Leases(nw) /\ lease \in Book!Lease
      BY <1>1, <1>2, <1>4, LeaseType DEF Good
    <3> HIDE DEF lease
    <3>4. GivesBack(nw, after, lease)
      BY <1>3, <3>2, <3>3 DEF GivesBack
    <3> QED
      BY <3>3, <3>4 DEF Turns, nw
  <2> QED
    BY <2>2, <2>3
<1> QED
  BY <1>5, <1>6

\* What a step leaves: one page turned, and the specs users submitted.
Turn(n) ==
    /\ Turns(networks[n], networks'[n])
    /\ networks'[n] # Absent => networks'[n].spec \in Specs
    /\ \A m \in Networks \ {n} : networks'[m] = networks[m]

LEMMA TurnStep ==
    ASSUME SpecsOK, NEW n \in Networks, Turn(n)
    PROVE  OnePage /\ SpecsOK'
BY DEF OnePage, SpecsOK, Turn

LEMMA BookStep ==
    ASSUME Inv, SpecsOK, [Next]_vars
    PROVE  OnePage /\ SpecsOK'
<1> USE DEF Inv
<1>0. UNCHANGED networks => OnePage /\ SpecsOK'
  BY DEF OnePage, SpecsOK
<1>1. ASSUME NEW n \in Networks, PodReconcileNetwork(n)
      PROVE  OnePage /\ SpecsOK'
  <2>1. CASE UNCHANGED networks
    BY <1>0, <2>1
  <2>2. CASE /\ n \in work.todo /\ ~TurnFails(n) /\ networks[n] = work.nets[n]
             /\ work.nets[n] # Absent /\ TurnResult(n) \in Network
             /\ PutNetwork(n, TurnResult(n))
    <3> DEFINE new == TurnResult(n)
    <3>1. /\ networks'[n] # Absent /\ networks'[n].allocations = new.allocations
          /\ networks'[n].spec = new.spec
          /\ networks'[n].deleting = new.deleting /\ networks'[n].finalizer = new.finalizer
          /\ \A m \in Networks \ {n} : networks'[m] = networks[m]
      BY <2>2, PutNetworkMeans DEF SameStatus
    <3>2. new.spec = networks[n].spec
      BY <2>2, TurnResultGood DEF SameBut
    <3>3. Turns(networks[n], networks'[n])
      BY <2>2, <3>1, TurnTurns
    <3>4. networks'[n].spec \in Specs
      BY <2>2, <3>1, <3>2 DEF SpecsOK
    <3> QED
      BY <3>1, <3>3, <3>4, TurnStep DEF Turn
  <2> QED
    BY <1>1, <2>1, <2>2, LoopMeans
<1>2. ASSUME NEW n \in Networks, NetworkReconcile(n)
      PROVE  OnePage /\ SpecsOK'
  <2>1. CASE UNCHANGED networks
    BY <1>0, <2>1
  <2>2. CASE /\ networks[n] \in Network /\ ~networks[n].deleting /\ ~networks[n].finalizer
             /\ [networks[n] EXCEPT !.finalizer = TRUE] \in Network
             /\ PutNetwork(n, [networks[n] EXCEPT !.finalizer = TRUE])
    <3> DEFINE new == [networks[n] EXCEPT !.finalizer = TRUE]
    <3>1. /\ new.allocations = networks[n].allocations /\ new.spec = networks[n].spec
          /\ ~new.deleting /\ new.finalizer
      BY <2>2 DEF Network
    <3> HIDE DEF new
    <3>2. new \in Network /\ PutNetwork(n, new) /\ networks[n] # Absent
      BY <2>2, ConstantsAssumption DEF new
    <3>3. /\ networks'[n] # Absent /\ networks'[n].allocations = networks[n].allocations
          /\ networks'[n].spec = networks[n].spec
          /\ ~networks'[n].deleting /\ networks'[n].finalizer
          /\ \A m \in Networks \ {n} : networks'[m] = networks[m]
      BY <3>1, <3>2, PutNetworkMeans DEF SameStatus
    <3>4. Moves(networks[n], networks'[n])
      BY <2>2, <3>2, <3>3 DEF Moves, Phase, Leases
    <3> QED
      BY <3>2, <3>3, <3>4, TurnStep DEF Turn, Turns, SpecsOK
  <2>3. CASE /\ networks[n] \in Network /\ networks[n].deleting
             /\ networks[n].allocations = {} /\ PutNetwork(n, Absent)
    <3>1. /\ networks[n] # Absent /\ networks'[n] = Absent
          /\ \A m \in Networks \ {n} : networks'[m] = networks[m]
      BY <2>3, PutAbsentMeans, ConstantsAssumption
    <3>2. Moves(networks[n], networks'[n])
      BY <2>3, <3>1 DEF Moves, Phase, Leases
    <3> QED
      BY <3>1, <3>2, TurnStep DEF Turn, Turns
  <2> QED
    BY <1>2, <2>1, <2>2, <2>3, NetworkReconcileMeans
<1>3. ASSUME NEW n \in Networks, NEW spec \in Specs, NetworkCreate(n, spec)
      PROVE  OnePage /\ SpecsOK'
  <2> DEFINE new == [uid |-> revision[n] + 1, version |-> 0, spec |-> spec,
                     deleting |-> FALSE, finalizer |-> FALSE, allocations |-> {},
                     routers |-> {}, optionalRouters |-> [r \in Routes |-> {}]]
  <2>1. new \in Network
    BY ConstantsAssumption DEF Network, TypeOK
  <2>2. new.allocations = {} /\ ~new.deleting /\ ~new.finalizer /\ new.spec = spec
    OBVIOUS
  <2>3. PutNetwork(n, new) /\ networks[n] = Absent
    BY <1>3 DEF NetworkCreate
  <2> HIDE DEF new
  <2>4. /\ networks'[n] # Absent /\ networks'[n].allocations = {} /\ networks'[n].spec \in Specs
        /\ ~networks'[n].deleting /\ ~networks'[n].finalizer
        /\ \A m \in Networks \ {n} : networks'[m] = networks[m]
    BY <2>1, <2>2, <2>3, PutNetworkMeans DEF SameStatus
  <2>5. Moves(networks[n], networks'[n])
    BY <2>3, <2>4 DEF Moves, Phase, Leases
  <2> QED
    BY <2>4, <2>5, TurnStep DEF Turn, Turns
<1>4. ASSUME NEW n \in Networks, NEW spec \in Specs, NetworkUpdate(n, spec)
      PROVE  OnePage /\ SpecsOK'
  <2> DEFINE new == [networks[n] EXCEPT !.spec = spec]
  <2>1. networks[n] \in Network /\ networks[n] # Absent /\ PutNetwork(n, new)
    BY <1>4 DEF NetworkUpdate, TypeOK
  <2>2. /\ new \in Network /\ new.allocations = networks[n].allocations /\ new.spec = spec
        /\ new.deleting = networks[n].deleting /\ new.finalizer = networks[n].finalizer
    BY <2>1, ConstantsAssumption DEF Network
  <2> HIDE DEF new
  <2>3. /\ networks'[n] # Absent /\ networks'[n].allocations = networks[n].allocations
        /\ networks'[n].deleting = networks[n].deleting
        /\ networks'[n].finalizer = networks[n].finalizer
        /\ networks'[n].spec \in Specs
        /\ \A m \in Networks \ {n} : networks'[m] = networks[m]
    BY <2>1, <2>2, PutNetworkMeans DEF SameStatus
  <2>4. Page(networks[n], networks'[n])
    BY <2>1, <2>3, SamePage
  <2> QED
    BY <2>3, <2>4, TurnStep DEF Turn, Turns
<1>5. ASSUME NEW n \in Networks, NetworkDelete(n)
      PROVE  OnePage /\ SpecsOK'
  <2>1. networks[n] \in Network /\ networks[n] # Absent /\ ~networks[n].deleting
    BY <1>5 DEF NetworkDelete, TypeOK
  <2>2. CASE networks[n].finalizer
    <3> DEFINE new == [networks[n] EXCEPT !.deleting = TRUE]
    <3>1. /\ new \in Network /\ new.allocations = networks[n].allocations
          /\ new.spec = networks[n].spec /\ new.deleting
      BY <2>1 DEF Network
    <3>2. PutNetwork(n, new)
      BY <1>5, <2>2 DEF NetworkDelete
    <3> HIDE DEF new
    <3>3. /\ networks'[n] # Absent /\ networks'[n].allocations = networks[n].allocations
          /\ networks'[n].spec = networks[n].spec /\ networks'[n].deleting
          /\ \A m \in Networks \ {n} : networks'[m] = networks[m]
      BY <3>1, <3>2, PutNetworkMeans DEF SameStatus
    <3>4. Moves(networks[n], networks'[n])
      BY <2>1, <2>2, <3>3 DEF Moves, Phase, Leases
    <3> QED
      BY <2>1, <3>3, <3>4, TurnStep DEF Turn, Turns, SpecsOK
  <2>3. CASE ~networks[n].finalizer
    <3>1. /\ networks'[n] = Absent
          /\ \A m \in Networks \ {n} : networks'[m] = networks[m]
      BY <1>5, <2>3, PutAbsentMeans DEF NetworkDelete
    <3>2. Discards(networks[n], networks'[n])
      BY <2>1, <2>3, <3>1 DEF Discards, Phase, Leases
    <3> QED
      BY <3>1, <3>2, TurnStep DEF Turn, Turns
  <2> QED
    BY <2>2, <2>3
<1>6. ASSUME NEW p \in Pods,
             \/ PodReconcileStart(p) \/ SyncPod(p)
             \/ \E label \in BOOLEAN, annotation \in Annotations : PodCreate(p, label, annotation)
             \/ \E annotation \in Annotations : PodAnnotate(p, annotation)
             \/ PodRelabel(p) \/ PodDelete(p) \/ PodGone(p)
             \/ \E ip \in PodIPs : KubeletSetIP(p, ip) \/ PodIPChange(p, ip)
      PROVE  UNCHANGED networks
  BY <1>6 DEF PodReconcileStart, SyncPod, PodCreate, PodAnnotate, PodRelabel, PodDelete, PodGone,
              KubeletSetIP, PodIPChange, api
<1>7. ASSUME \/ PodReconcileFinish \/ Resync \/ OperatorRestart
             \/ \E n \in Networks : SyncNetwork(n)
             \/ UNCHANGED vars
      PROVE  UNCHANGED networks
  BY <1>7 DEF PodReconcileFinish, Resync, OperatorRestart, SyncNetwork, vars, api
<1> QED
  BY <1>0, <1>1, <1>2, <1>3, <1>4, <1>5, <1>6, <1>7 DEF Next, Operator, Environment

-------------------------------------------------------------------------------
(* The refinement *)

\* What the status of the stored networks shows follows the book of leases, for
\* any number of pods and networks: allocateIP grants only free addresses of
\* open networks, deallocateIP gives back one lease, handleDeletion lets a
\* network go only when it has none.
THEOREM ImplementsAddressBookHolds == Spec => ImplementsAddressBook
<1>1. Init => Book!Init /\ SpecsOK
  BY DEF Init, Book!Init, SpecsOK, Phase, Leases
<1>2. Inv /\ SpecsOK /\ [Next]_vars => [Book!Next]_(Book!vars) /\ SpecsOK'
  BY BookStep, OnePageIsBookStep DEF Inv
<1> QED
  BY <1>1, <1>2, Invariance, PTL DEF Spec, ImplementsAddressBook, Book!Spec
===============================================================================
