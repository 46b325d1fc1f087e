------------------------------ MODULE IpamProofs ------------------------------
(***************************************************************************)
(* Theorems about module Ipam, for any number of pods, networks, routes    *)
(* and addresses, any specs and annotations users submit, and any bounds.  *)
(***************************************************************************)
EXTENDS Ipam, WellFoundedInduction, TLAPS

-------------------------------------------------------------------------------
(* Address picking *)

\* Every non-empty set of naturals has a minimum, so Min (a CHOOSE) finds one.
LEMMA MinIsMember ==
    ASSUME NEW S, S \subseteq Nat, S # {}
    PROVE  Min(S) \in S
<1> DEFINE Less == {ss \in Nat \X Nat : ss[1] < ss[2]}
<1>1. IsWellFoundedOn(Less, Nat)
  BY NatLessThanWellFounded, Zenon DEF OpToRel
<1> HIDE DEF Less
<1>2. PICK x \in S : \A y \in S : ~(<<y, x>> \in Less)
  BY <1>1, WFMin
<1>3. \A y \in S : x <= y
  <2> SUFFICES ASSUME NEW y \in S PROVE x <= y
    OBVIOUS
  <2>1. x \in Nat /\ y \in Nat
    OBVIOUS
  <2>2. y < x => <<y, x>> \in Less
    BY <2>1 DEF Less
  <2>3. ~(y < x)
    BY <1>2, <2>2
  <2> QED
    BY <2>1, <2>3
<1> QED
  BY <1>3 DEF Min

\* FirstFreeHost picks an address nobody has, in the CIDR unless it was asked
\* for by name.
LEMMA FirstFreeHostPicks ==
    ASSUME NEW cidr \in Cidr, NEW taken, NEW request \in Request,
           FirstFreeHost(cidr, taken, request).err = "nil"
    PROVE  /\ FirstFreeHost(cidr, taken, request).ip \in Address
           /\ FirstFreeHost(cidr, taken, request).ip \notin taken
           /\ \/ request # NoRequest /\ FirstFreeHost(cidr, taken, request).ip = request
              \/ Contains(cidr, FirstFreeHost(cidr, taken, request).ip)
<1> DEFINE free == Candidates(cidr) \ taken
<1>1. CASE ~cidr.ok
  BY <1>1 DEF FirstFreeHost, Failed, Picked, Cidr
<1>2. CASE cidr.ok /\ request # NoRequest
  BY <1>2 DEF FirstFreeHost, Failed, Picked, Request, NoRequest, Address
<1>3. CASE cidr.ok /\ request = NoRequest /\ free = {}
  BY <1>3 DEF FirstFreeHost, Failed, Picked
<1>4. CASE cidr.ok /\ request = NoRequest /\ free # {}
  <2>1. free \subseteq Nat
    BY DEF Candidates, Cidr, Address
  <2>2. Min(free) \in free
    BY <1>4, <2>1, MinIsMember
  <2>3. FirstFreeHost(cidr, taken, request) = Picked(Min(free))
    BY <1>4 DEF FirstFreeHost
  <2> QED
    BY <2>1, <2>2, <2>3 DEF Picked, Candidates, Address
<1> QED
  BY <1>1, <1>2, <1>3, <1>4

-------------------------------------------------------------------------------
(* What allocateIP and deallocateIP make of a network *)

UniqueIn(nw) ==
    \A a, b \in nw.allocations : a.ip = b.ip \/ a.podName = b.podName => a = b

InCIDR(nw) ==
    \A a \in nw.allocations :
        nw.spec.allocatableCIDR.ok /\ Contains(nw.spec.allocatableCIDR, a.ip)

Backed(r, nw) ==
    \E a \in nw.allocations : a.podName = r.podName /\ a.ip = r.ip /\ a.podIP = r.podIP

RoutersIn(nw) ==
    /\ \A r \in nw.routers : Backed(r, nw)
    /\ \A o \in Routes : \A r \in nw.optionalRouters[o] : Backed(r, nw)

Good(nw) == UniqueIn(nw) /\ InCIDR(nw) /\ RoutersIn(nw)

SameBut(new, nw) ==
    /\ new.uid = nw.uid /\ new.version = nw.version /\ new.spec = nw.spec
    /\ new.deleting = nw.deleting /\ new.finalizer = nw.finalizer

\* Every allocation of new is one of nw, up to its extra networks, or a first
\* one for the pod; and no pod of nw is left out.
Traced(new, nw, name, pod) ==
    /\ \A b \in new.allocations :
          \/ \E a \in nw.allocations : a.podName = b.podName /\ a.ip = b.ip /\ a.podIP = b.podIP
          \/ /\ Of(name, nw.allocations) = {} /\ ~nw.deleting
             /\ b.podName = name /\ b.podIP = pod.podIP
    /\ \A a \in nw.allocations : \E b \in new.allocations : a.podName = b.podName

\* An allocation made for a pod that has none: of the right type, for an address
\* that is free and in the CIDR.
LEMMA NewAllocation ==
    ASSUME NEW nw \in Network, NEW name \in Pods, NEW pod \in Pod,
           NEW extra \in SUBSET Routes, NEW request \in Request,
           ~allocateIPFails(nw, name, pod, request), Of(name, nw.allocations) = {}
    PROVE  LET al == AllocationFor(nw, name, pod, extra, request)
           IN  /\ al \in Allocation /\ al.podName = name /\ al.podIP = pod.podIP
               /\ \A a \in nw.allocations : a.ip # al.ip
               /\ nw.spec.allocatableCIDR.ok /\ Contains(nw.spec.allocatableCIDR, al.ip)
               /\ ~nw.deleting
<1> DEFINE taken == {a.ip : a \in nw.allocations}
           pick == FirstFreeHost(nw.spec.allocatableCIDR, taken, request)
<1>1. nw.spec.allocatableCIDR \in Cidr
  BY DEF Network, NetworkSpec
<1>2. /\ pick.err = "nil" /\ pod.podIP # NoIP /\ ~nw.deleting /\ nw.spec.allocatableCIDR.ok
      /\ request # NoRequest => Contains(nw.spec.allocatableCIDR, request)
  BY DEF allocateIPFails, PickIP
<1> HIDE DEF taken
<1>3. /\ pick.ip \in Address /\ pick.ip \notin taken
      /\ Contains(nw.spec.allocatableCIDR, pick.ip)
  BY <1>1, <1>2, FirstFreeHostPicks
<1>4. AllocationFor(nw, name, pod, extra, request) =
        [podName |-> name, podIP |-> pod.podIP, ip |-> pick.ip, extraNetworks |-> extra]
  BY DEF AllocationFor, PickIP, taken
<1> HIDE DEF pick
<1>5. pod.podIP \in PodIPs
  BY <1>2 DEF Pod
<1> QED
  BY <1>2, <1>3, <1>4, <1>5 DEF Allocation, taken

\* allocateIP keeps a network well-formed: no address twice, none outside the
\* CIDR, no router entry without its allocation.
LEMMA AllocateGood ==
    ASSUME NEW nw \in Network, NEW name \in Pods, NEW pod \in Pod,
           NEW isRouter, NEW extra \in SUBSET Routes,
           NEW extraRouters \in SUBSET Routes, NEW request \in Request,
           ~allocateIPFails(nw, name, pod, request)
    PROVE  LET new == allocateIP(nw, name, pod, isRouter, extra, extraRouters, request)
           IN  /\ new \in Network
               /\ SameBut(new, nw)
               /\ Traced(new, nw, name, pod)
               /\ Good(nw) => Good(new)
<1> DEFINE old == Of(name, nw.allocations)
           al == AllocationFor(nw, name, pod, extra, request)
           had == Found(nw, name)
           new == allocateIP(nw, name, pod, isRouter, extra, extraRouters, request)
<1>1. /\ al \in Allocation /\ al.podName = name
      /\ old = {} => /\ \A a \in nw.allocations : a.ip # al.ip
                     /\ nw.spec.allocatableCIDR.ok
                     /\ Contains(nw.spec.allocatableCIDR, al.ip)
                     /\ ~nw.deleting /\ al.podIP = pod.podIP
      /\ old # {} => /\ had \in nw.allocations /\ had.podName = name
                     /\ al.ip = had.ip /\ al.podIP = had.podIP
  <2>1. CASE old = {}
    <3>1. /\ al \in Allocation /\ al.podName = name /\ al.podIP = pod.podIP
          /\ \A a \in nw.allocations : a.ip # al.ip
          /\ nw.spec.allocatableCIDR.ok /\ Contains(nw.spec.allocatableCIDR, al.ip)
          /\ ~nw.deleting
      BY <2>1, NewAllocation
    <3> QED
      BY <2>1, <3>1
  <2>2. CASE old # {}
    <3>1. had \in nw.allocations /\ had.podName = name
      BY <2>2 DEF Of, Found
    <3>2. had \in Allocation
      BY <3>1 DEF Network
    <3>3. al = [had EXCEPT !.extraNetworks = extra]
      BY <2>2 DEF AllocationFor
    <3> HIDE DEF al, had
    <3> QED
      BY <2>2, <3>1, <3>2, <3>3 DEF Allocation
  <2> QED
    BY <2>1, <2>2
<1> DEFINE als == IF old = {} THEN nw.allocations \cup {al}
                  ELSE (nw.allocations \ {had}) \cup {al}
           rts == IF isRouter THEN Ensure(al, nw.routers) ELSE Without(name, nw.routers)
           opt == [r \in Routes |->
                     IF r \in extraRouters THEN Ensure(al, nw.optionalRouters[r])
                                           ELSE Without(name, nw.optionalRouters[r])]
<1>0. new = [nw EXCEPT !.allocations = als, !.optionalRouters = opt, !.routers = rts]
  BY Zenon DEF allocateIP
<1> HIDE DEF new, al, had, als, rts, opt
<1>2. /\ new.allocations = IF old = {} THEN nw.allocations \cup {al}
                           ELSE (nw.allocations \ {had}) \cup {al}
      /\ new.routers = IF isRouter THEN Ensure(al, nw.routers) ELSE Without(name, nw.routers)
      /\ new.optionalRouters = [r \in Routes |->
            IF r \in extraRouters THEN Ensure(al, nw.optionalRouters[r])
                                  ELSE Without(name, nw.optionalRouters[r])]
      /\ SameBut(new, nw)
      /\ new = [uid |-> nw.uid, version |-> nw.version, spec |-> nw.spec,
                deleting |-> nw.deleting, finalizer |-> nw.finalizer,
                allocations |-> new.allocations, routers |-> new.routers,
                optionalRouters |-> new.optionalRouters]
  <2>1. /\ new.allocations = als /\ new.optionalRouters = opt /\ new.routers = rts
        /\ SameBut(new, nw)
    BY <1>0 DEF Network, SameBut
  <2>2. new = [uid |-> nw.uid, version |-> nw.version, spec |-> nw.spec,
               deleting |-> nw.deleting, finalizer |-> nw.finalizer,
               allocations |-> als, routers |-> rts, optionalRouters |-> opt]
    BY <1>0 DEF Network
  <2> QED
    BY <2>1, <2>2 DEF als, opt, rts
<1>3. /\ nw.allocations \in SUBSET Allocation /\ nw.routers \in SUBSET Allocation
      /\ \A o \in Routes : nw.optionalRouters[o] \in SUBSET Allocation
  BY DEF Network
<1>4. new.allocations \in SUBSET Allocation
  BY <1>1, <1>2, <1>3
<1>5. /\ new.routers \in SUBSET Allocation
      /\ \A r \in new.routers : r = al \/ (r \in nw.routers)
  BY <1>1, <1>2, <1>3 DEF Ensure, Without, Of
<1>6. \A o \in Routes : /\ new.optionalRouters[o] \in SUBSET Allocation
                        /\ \A r \in new.optionalRouters[o] : r = al \/ r \in nw.optionalRouters[o]
  <2> SUFFICES ASSUME NEW o \in Routes
               PROVE  /\ new.optionalRouters[o] \in SUBSET Allocation
                      /\ \A r \in new.optionalRouters[o] : r = al \/ r \in nw.optionalRouters[o]
    OBVIOUS
  <2>1. new.optionalRouters[o] = IF o \in extraRouters THEN Ensure(al, nw.optionalRouters[o])
                                 ELSE Without(name, nw.optionalRouters[o])
    BY <1>2
  <2> QED
    BY <1>1, <1>3, <2>1 DEF Ensure, Without, Of
<1>7. new \in Network
  <2>1. new.optionalRouters \in [Routes -> SUBSET Allocation]
    BY <1>2, <1>6
  <2> QED
    BY <1>2, <1>4, <1>5, <2>1 DEF Network
<1>8. ASSUME Good(nw) PROVE Good(new)
  <2>1. UniqueIn(nw) /\ InCIDR(nw) /\ RoutersIn(nw)
    BY <1>8 DEF Good
  <2>2. UniqueIn(new)
    <3>1. CASE old = {}
      BY <1>1, <1>2, <2>1, <3>1 DEF UniqueIn, Of
    <3>2. CASE old # {}
      BY <1>1, <1>2, <2>1, <3>2 DEF UniqueIn
    <3> QED
      BY <3>1, <3>2
  <2>3. InCIDR(new)
    BY <1>1, <1>2, <2>1 DEF InCIDR, SameBut
  <2>4. \A r : r = al \/ Backed(r, nw) => Backed(r, new)
    <3>1. al \in new.allocations
      BY <1>2
    <3>2. \A a \in nw.allocations : a \in new.allocations \/ (old # {} /\ a = had)
      BY <1>2
    <3> QED
      BY <1>1, <3>1, <3>2 DEF Backed
  <2>5. RoutersIn(new)
    BY <1>5, <1>6, <2>1, <2>4 DEF RoutersIn
  <2> QED
    BY <2>2, <2>3, <2>5 DEF Good
<1>9. Traced(new, nw, name, pod)
  BY <1>1, <1>2 DEF Traced
<1> QED
  BY <1>2, <1>7, <1>8, <1>9 DEF new

\* deallocateIP removes every trace of the pod, and of no other.
LEMMA DeallocateGood ==
    ASSUME NEW nw \in Network, NEW name \in Pods
    PROVE  LET new == deallocateIP(nw, name)
           IN  /\ new \in Network
               /\ SameBut(new, nw)
               /\ new.allocations = Without(name, nw.allocations)
               /\ Good(nw) => Good(new)
<1> DEFINE als == Without(name, nw.allocations)
           rts == Without(name, nw.routers)
           opt == [r \in Routes |-> Without(name, nw.optionalRouters[r])]
           new == deallocateIP(nw, name)
<1>0. new = [nw EXCEPT !.allocations = als, !.routers = rts, !.optionalRouters = opt]
  BY Zenon DEF deallocateIP
<1> HIDE DEF new, als, rts, opt
<1>1. /\ new.allocations = Without(name, nw.allocations)
      /\ new.routers = Without(name, nw.routers)
      /\ new.optionalRouters = [r \in Routes |-> Without(name, nw.optionalRouters[r])]
      /\ SameBut(new, nw)
      /\ new = [uid |-> nw.uid, version |-> nw.version, spec |-> nw.spec,
                deleting |-> nw.deleting, finalizer |-> nw.finalizer,
                allocations |-> new.allocations, routers |-> new.routers,
                optionalRouters |-> new.optionalRouters]
  <2>1. /\ new.allocations = als /\ new.optionalRouters = opt /\ new.routers = rts
        /\ SameBut(new, nw)
    BY <1>0 DEF Network, SameBut
  <2>2. new = [uid |-> nw.uid, version |-> nw.version, spec |-> nw.spec,
               deleting |-> nw.deleting, finalizer |-> nw.finalizer,
               allocations |-> als, routers |-> rts, optionalRouters |-> opt]
    BY <1>0 DEF Network
  <2> QED
    BY <2>1, <2>2 DEF als, opt, rts
<1>2. new \in Network
  BY <1>1 DEF Network, Without
<1>3. ASSUME Good(nw) PROVE Good(new)
  <2>1. \A r : Backed(r, nw) /\ r.podName # name => Backed(r, new)
    BY <1>1 DEF Backed, Without
  <2>2. RoutersIn(new)
    BY <1>1, <1>3, <2>1 DEF RoutersIn, Without, Good
  <2> QED
    BY <1>1, <1>3, <2>2 DEF Good, UniqueIn, InCIDR, Without, SameBut
<1> QED
  BY <1>1, <1>2, <1>3 DEF new

-------------------------------------------------------------------------------
(* Types *)

\* The worker holds a pod while it has networks to do, and a copy of each.
WorkOK ==
    /\ work.pod = NoPod => work.todo = {}
    /\ work.pod # NoPod => work.obj # Absent /\ work.obj.label
    /\ \A n \in work.todo : work.nets[n] # Absent

LEMMA PutNetworkType ==
    ASSUME TypeOK, NEW n \in Networks, NEW new \in Network \cup {Absent}, PutNetwork(n, new)
    PROVE  /\ networks' \in [Networks -> Network \cup {Absent}]
           /\ revision' \in [Pods \cup Networks -> Nat]
<1>1. revision[n] + 1 \in Nat
  BY DEF TypeOK
<1>2. new # Absent => [new EXCEPT !.version = revision[n] + 1] \in Network
  BY <1>1 DEF Network
<1> QED
  BY <1>1, <1>2 DEF TypeOK, PutNetwork

LEMMA PutPodType ==
    ASSUME TypeOK, NEW p \in Pods, NEW new \in Pod \cup {Absent}, PutPod(p, new)
    PROVE  /\ pods' \in [Pods -> Pod \cup {Absent}]
           /\ revision' \in [Pods \cup Networks -> Nat]
<1>1. revision[p] + 1 \in Nat
  BY DEF TypeOK
<1>2. new # Absent => [new EXCEPT !.version = revision[p] + 1] \in Pod
  BY <1>1 DEF Pod
<1> QED
  BY <1>1, <1>2 DEF TypeOK, PutPod

LEMMA UpdateNetworkType ==
    ASSUME TypeOK, NEW n \in Networks, NEW old, NEW new \in Network \cup {Absent},
           NEW err, UpdateNetwork(n, old, new, err)
    PROVE  /\ networks' \in [Networks -> Network \cup {Absent}]
           /\ revision' \in [Pods \cup Networks -> Nat]
           /\ faults' \in Nat
<1>1. CASE PutNetwork(n, new)
  BY <1>1, PutNetworkType DEF UpdateNetwork, TypeOK
<1>2. CASE UNCHANGED <<networks, revision>>
  BY <1>2 DEF UpdateNetwork, TypeOK
<1> QED
  BY <1>1, <1>2 DEF UpdateNetwork, AcceptNetwork

LEMMA UpdatePodType ==
    ASSUME TypeOK, NEW p \in Pods, NEW old, NEW new \in Pod \cup {Absent},
           NEW err, UpdatePod(p, old, new, err)
    PROVE  /\ pods' \in [Pods -> Pod \cup {Absent}]
           /\ revision' \in [Pods \cup Networks -> Nat]
           /\ faults' \in Nat
<1>1. CASE PutPod(p, new)
  BY <1>1, PutPodType DEF UpdatePod, TypeOK
<1>2. CASE UNCHANGED <<pods, revision>>
  BY <1>2 DEF UpdatePod, TypeOK
<1> QED
  BY <1>1, <1>2 DEF UpdatePod, AcceptPod

\* What a turn of the loop writes is a network, well-formed if its copy was.
LEMMA TurnResultGood ==
    ASSUME TypeOK, WorkOK, NEW n \in Networks, n \in work.todo, ~TurnFails(n)
    PROVE  /\ work.pod \in Pods /\ work.obj \in Pod /\ work.nets[n] \in Network
           /\ TurnResult(n) \in Network
           /\ SameBut(TurnResult(n), work.nets[n])
           /\ Wanted(n) => Traced(TurnResult(n), work.nets[n], work.pod, work.obj)
           /\ ~Wanted(n) => TurnResult(n).allocations = Without(work.pod, work.nets[n].allocations)
           /\ Good(work.nets[n]) => Good(TurnResult(n))
<1> DEFINE an == work.obj.annotation
<1>1. work.pod \in Pods /\ work.obj \in Pod /\ work.nets[n] \in Network
  BY DEF TypeOK, WorkOK, Work
<1>2. /\ an.extraRoutes[n] \in SUBSET Routes /\ an.extraRouter[n] \in SUBSET Routes
      /\ an.requestIP[n] \in Request
  BY <1>1 DEF Pod, Annotation
<1> HIDE DEF an
<1>3. CASE Wanted(n)
  <2>1. ~allocateIPFails(work.nets[n], work.pod, work.obj, an.requestIP[n])
    BY <1>3 DEF TurnFails, an
  <2>2. TurnResult(n) = allocateIP(work.nets[n], work.pod, work.obj, n \in an.router,
                                   an.extraRoutes[n], an.extraRouter[n], an.requestIP[n])
    BY <1>3 DEF TurnResult, an
  <2> QED
    BY <1>1, <1>2, <1>3, <2>1, <2>2, AllocateGood
<1>4. CASE ~Wanted(n)
  <2>1. TurnResult(n) = deallocateIP(work.nets[n], work.pod)
    BY <1>4 DEF TurnResult
  <2> QED
    BY <1>1, <1>4, <2>1, DeallocateGood
<1> QED
  BY <1>3, <1>4

LEMMA StartStep ==
    ASSUME TypeOK, WorkOK, NEW p \in Pods, PodReconcileStart(p)
    PROVE  TypeOK' /\ WorkOK'
<1>1. CASE work' = Idle
  BY <1>1 DEF TypeOK, WorkOK, PodReconcileStart, Idle, Work, api, caches, bounds
<1>2. CASE /\ podCache[p] # Absent /\ podCache[p].label
           /\ work' = [pod |-> p, obj |-> podCache[p], nets |-> networkCache,
                       todo |-> Visited(podCache[p]), hasErrors |-> FALSE]
  BY <1>2, ConstantsAssumption
     DEF TypeOK, WorkOK, PodReconcileStart, Visited, Work, api, caches, bounds
<1> QED
  BY <1>1, <1>2 DEF PodReconcileStart

LEMMA LoopStep ==
    ASSUME TypeOK, WorkOK, NEW n \in Networks, PodReconcileNetwork(n)
    PROVE  TypeOK' /\ WorkOK'
<1>1. \E b \in BOOLEAN : work' = [work EXCEPT !.todo = @ \ {n}, !.hasErrors = b]
  <2>1. work.hasErrors \in BOOLEAN
    BY DEF TypeOK, Work
  <2> QED
    BY <2>1 DEF PodReconcileNetwork
<1>2. work' \in Work /\ WorkOK'
  BY <1>1 DEF TypeOK, WorkOK, Work
<1>3. /\ networks' \in [Networks -> Network \cup {Absent}]
      /\ revision' \in [Pods \cup Networks -> Nat]
      /\ faults' \in Nat
  <2>1. CASE TurnFails(n)
    BY <2>1 DEF PodReconcileNetwork, TypeOK
  <2>2. CASE ~TurnFails(n)
    <3>1. n \in work.todo
      BY DEF PodReconcileNetwork
    <3>2. TurnResult(n) \in Network
      BY <2>2, <3>1, TurnResultGood
    <3>3. PICK err \in Errors : UpdateNetwork(n, work.nets[n], TurnResult(n), err)
      BY <2>2 DEF PodReconcileNetwork
    <3> QED
      BY <3>2, <3>3, UpdateNetworkType
  <2> QED
    BY <2>1, <2>2
<1> QED
  BY <1>2, <1>3 DEF PodReconcileNetwork, TypeOK, caches, queues

LEMMA FinishStep ==
    ASSUME TypeOK, WorkOK, PodReconcileFinish
    PROVE  TypeOK' /\ WorkOK'
<1>1. work' = Idle /\ work.pod \in Pods /\ work.obj \in Pod
  BY DEF PodReconcileFinish, TypeOK, WorkOK, Work
<1>2. work' \in Work /\ WorkOK'
  BY <1>1 DEF Idle, Work, WorkOK
<1>3. /\ pods' \in [Pods -> Pod \cup {Absent}]
      /\ revision' \in [Pods \cup Networks -> Nat]
      /\ faults' \in Nat
  <2>1. [work.obj EXCEPT !.finalizer = FALSE] \in Pod
    BY <1>1 DEF Pod
  <2>2. CASE UNCHANGED <<pods, revision, faults>>
    BY <2>2 DEF TypeOK
  <2>3. CASE \E err \in Errors :
               UpdatePod(work.pod, work.obj, [work.obj EXCEPT !.finalizer = FALSE], err)
    BY <1>1, <2>1, <2>3, UpdatePodType
  <2> QED
    BY <2>2, <2>3 DEF PodReconcileFinish
<1>4. podQueue' \subseteq Pods
  BY <1>1 DEF PodReconcileFinish, TypeOK
<1> QED
  BY <1>2, <1>3, <1>4 DEF PodReconcileFinish, TypeOK, caches

LEMMA NetworkReconcileStep ==
    ASSUME TypeOK, WorkOK, NEW n \in Networks, NetworkReconcile(n)
    PROVE  TypeOK' /\ WorkOK'
<1> DEFINE nw == networkCache[n]
           new == IF nw.deleting THEN Absent ELSE [nw EXCEPT !.finalizer = TRUE]
<1>1. /\ networks' \in [Networks -> Network \cup {Absent}]
      /\ revision' \in [Pods \cup Networks -> Nat]
      /\ faults' \in Nat
  <2>1. CASE UNCHANGED <<networks, revision, faults>>
    BY <2>1 DEF TypeOK
  <2>2. CASE nw # Absent /\ \E err \in Errors : UpdateNetwork(n, nw, new, err)
    <3>1. nw \in Network
      BY <2>2 DEF TypeOK
    <3>2. new \in Network \cup {Absent}
      BY <3>1 DEF Network
    <3> QED
      BY <2>2, <3>2, UpdateNetworkType
  <2> QED
    BY <2>1, <2>2 DEF NetworkReconcile
<1>2. networkQueue' \subseteq Networks
  BY DEF NetworkReconcile, TypeOK
<1> QED
  BY <1>1, <1>2 DEF NetworkReconcile, TypeOK, WorkOK, caches

LEMMA ProcessStep ==
    ASSUME TypeOK, WorkOK,
           \/ \E p \in Pods : SyncPod(p)
           \/ \E n \in Networks : SyncNetwork(n)
           \/ Resync
           \/ OperatorRestart
    PROVE  TypeOK' /\ WorkOK'
<1>1. CASE \E p \in Pods : SyncPod(p)
  BY <1>1 DEF SyncPod, TypeOK, WorkOK, api, bounds
<1>2. CASE \E n \in Networks : SyncNetwork(n)
  BY <1>2 DEF SyncNetwork, TypeOK, WorkOK, api, bounds
<1>3. CASE Resync
  BY <1>3 DEF Resync, TypeOK, WorkOK, api, caches, bounds
<1>4. CASE OperatorRestart
  <2>1. Idle \in Work
    BY DEF Idle, Work
  <2> QED
    BY <1>4, <2>1 DEF OperatorRestart, TypeOK, WorkOK, Idle, api
<1> QED
  BY <1>1, <1>2, <1>3, <1>4

\* Users and kubelets store a pod or a network and leave the operator alone.
PodOp(p, new) == PutPod(p, new) /\ UNCHANGED networks

NetworkOp(n, new) == PutNetwork(n, new) /\ UNCHANGED pods

EnvironmentOp ==
    /\ \/ \E p \in Pods, new \in Pod \cup {Absent} : PodOp(p, new)
       \/ \E n \in Networks, new \in Network \cup {Absent} : NetworkOp(n, new)
    /\ ops' \in Nat
    /\ UNCHANGED <<caches, queues, work, faults>>

LEMMA EnvironmentStep ==
    ASSUME TypeOK, WorkOK, EnvironmentOp
    PROVE  TypeOK' /\ WorkOK'
<1>1. CASE \E p \in Pods, new \in Pod \cup {Absent} : PodOp(p, new)
  BY <1>1, PutPodType DEF EnvironmentOp, PodOp, TypeOK, WorkOK, caches, queues
<1>2. CASE \E n \in Networks, new \in Network \cup {Absent} : NetworkOp(n, new)
  BY <1>2, PutNetworkType DEF EnvironmentOp, NetworkOp, TypeOK, WorkOK, caches, queues
<1> QED
  BY <1>1, <1>2 DEF EnvironmentOp

LEMMA EnvironmentOps ==
    ASSUME TypeOK, Environment
    PROVE  EnvironmentOp
<1>0. UserOp => ops' \in Nat /\ UNCHANGED <<caches, queues, work, faults>>
  BY DEF UserOp, TypeOK
<1>1. ASSUME NEW p \in Pods, NEW label \in BOOLEAN, NEW annotation \in Annotations,
             PodCreate(p, label, annotation)
      PROVE  EnvironmentOp
  <2>1. [version |-> 0, label |-> label, annotation |-> annotation, podIP |-> NoIP,
         deleting |-> FALSE, finalizer |-> PodInjectorAddsFinalizer(label)] \in Pod
    BY ConstantsAssumption DEF Pod, PodInjectorAddsFinalizer
  <2> QED
    BY <1>0, <1>1, <2>1 DEF PodCreate, EnvironmentOp, PodOp
<1>2. ASSUME NEW p \in Pods, NEW annotation \in Annotations, PodAnnotate(p, annotation)
      PROVE  EnvironmentOp
  <2>1. [pods[p] EXCEPT !.annotation = annotation] \in Pod
    BY <1>2, ConstantsAssumption DEF PodAnnotate, TypeOK, Pod
  <2> QED
    BY <1>0, <1>2, <2>1 DEF PodAnnotate, EnvironmentOp, PodOp
<1>3. ASSUME NEW p \in Pods, PodRelabel(p)
      PROVE  EnvironmentOp
  <2>1. [pods[p] EXCEPT !.label = ~@] \in Pod
    BY <1>3 DEF PodRelabel, TypeOK, Pod
  <2> QED
    BY <1>0, <1>3, <2>1 DEF PodRelabel, EnvironmentOp, PodOp
<1>4. ASSUME NEW p \in Pods, PodDelete(p)
      PROVE  EnvironmentOp
  <2>1. [pods[p] EXCEPT !.deleting = TRUE] \in Pod
    BY <1>4 DEF PodDelete, TypeOK, Pod
  <2> QED
    BY <1>0, <1>4, <2>1 DEF PodDelete, EnvironmentOp, PodOp
<1>5. ASSUME NEW p \in Pods, PodGone(p)
      PROVE  EnvironmentOp
  BY <1>5 DEF PodGone, EnvironmentOp, PodOp, TypeOK, bounds
<1>6. ASSUME NEW p \in Pods, NEW ip \in PodIPs, KubeletSetIP(p, ip) \/ PodIPChange(p, ip)
      PROVE  EnvironmentOp
  <2>1. [pods[p] EXCEPT !.podIP = ip] \in Pod
    BY <1>6 DEF KubeletSetIP, PodIPChange, TypeOK, Pod
  <2>2. /\ PutPod(p, [pods[p] EXCEPT !.podIP = ip]) /\ UNCHANGED networks
        /\ ops' \in Nat /\ UNCHANGED <<caches, queues, work, faults>>
    BY <1>0, <1>6 DEF KubeletSetIP, PodIPChange, TypeOK, bounds
  <2> QED
    BY <2>1, <2>2 DEF EnvironmentOp, PodOp
<1>7. ASSUME NEW n \in Networks, NEW spec \in Specs, NetworkCreate(n, spec)
      PROVE  EnvironmentOp
  <2>1. [uid |-> revision[n] + 1, version |-> 0, spec |-> spec, deleting |-> FALSE,
         finalizer |-> FALSE, allocations |-> {}, routers |-> {},
         optionalRouters |-> [r \in Routes |-> {}]] \in Network
    BY ConstantsAssumption DEF Network, TypeOK
  <2> QED
    BY <1>0, <1>7, <2>1 DEF NetworkCreate, EnvironmentOp, NetworkOp
<1>8. ASSUME NEW n \in Networks, NEW spec \in Specs, NetworkUpdate(n, spec)
      PROVE  EnvironmentOp
  <2>1. [networks[n] EXCEPT !.spec = spec] \in Network
    BY <1>8, ConstantsAssumption DEF NetworkUpdate, TypeOK, Network
  <2> QED
    BY <1>0, <1>8, <2>1 DEF NetworkUpdate, EnvironmentOp, NetworkOp
<1>9. ASSUME NEW n \in Networks, NetworkDelete(n)
      PROVE  EnvironmentOp
  <2>1. [networks[n] EXCEPT !.deleting = TRUE] \in Network
    BY <1>9 DEF NetworkDelete, TypeOK, Network
  <2> QED
    BY <1>0, <1>9, <2>1 DEF NetworkDelete, EnvironmentOp, NetworkOp
<1> QED
  BY <1>1, <1>2, <1>3, <1>4, <1>5, <1>6, <1>7, <1>8, <1>9 DEF Environment

LEMMA TypeStep ==
    TypeOK /\ WorkOK /\ [Next]_vars => TypeOK' /\ WorkOK'
<1> SUFFICES ASSUME TypeOK, WorkOK, [Next]_vars PROVE TypeOK' /\ WorkOK'
  OBVIOUS
<1>1. CASE Operator
  BY <1>1, StartStep, LoopStep, FinishStep, NetworkReconcileStep, ProcessStep DEF Operator
<1>2. CASE Environment
  BY <1>2, EnvironmentOps, EnvironmentStep
<1>3. CASE UNCHANGED vars
  BY <1>3 DEF TypeOK, WorkOK, vars, api, caches, queues, bounds
<1> QED
  BY <1>1, <1>2, <1>3 DEF Next

LEMMA TypeInit ==
    Init => TypeOK /\ WorkOK
  BY ConstantsAssumption DEF Init, TypeOK, WorkOK, Idle, Work

\* Type correctness: whatever the interleaving, stored objects, cached copies and
\* the worker's copies stay pods and networks of the declared types.  In
\* particular no allocation carries an empty cluster address.
THEOREM TypeCorrect == Spec => []TypeOK
<1>1. Init => TypeOK /\ WorkOK
  BY TypeInit
<1>2. TypeOK /\ WorkOK /\ [Next]_vars => (TypeOK /\ WorkOK)'
  BY TypeStep
<1> QED
  BY <1>1, <1>2, PTL DEF Spec

-------------------------------------------------------------------------------
(* Versions *)

CopyOf(copy, stored, rev) ==
    copy # Absent => copy.version <= rev /\ (Current(stored, copy) => copy = stored)

\* What optimistic concurrency rests on: a copy with the version of the stored
\* object is the stored object, and then the cache, which is never behind the
\* worker's copy, has it too.
VersionsOK ==
    /\ \A n \in Networks :
          /\ networks[n] # Absent => networks[n].version <= revision[n]
          /\ CopyOf(networkCache[n], networks[n], revision[n])
          /\ CopyOf(work.nets[n], networks[n], revision[n])
          /\ work.nets[n] # Absent /\ Current(networks[n], work.nets[n])
                => networkCache[n] = networks[n]
    /\ \A p \in Pods :
          /\ pods[p] # Absent => pods[p].version <= revision[p]
          /\ CopyOf(podCache[p], pods[p], revision[p])
          /\ work.pod = p => CopyOf(work.obj, pods[p], revision[p])
          /\ work.pod = p /\ Current(pods[p], work.obj) => podCache[p] = pods[p]

\* A stored object is left alone or gets a version nobody has seen.
Stored(before, after, rev, revAfter) ==
    \/ after = before /\ revAfter = rev
    \/ revAfter = rev + 1 /\ (after # Absent => after.version = revAfter)

StoresOK ==
    /\ \A n \in Networks : Stored(networks[n], networks'[n], revision[n], revision'[n])
    /\ \A p \in Pods : Stored(pods[p], pods'[p], revision[p], revision'[p])

LEMMA PutNetworkStores ==
    ASSUME TypeOK, NEW n \in Networks, NEW new \in Network \cup {Absent},
           PutNetwork(n, new), UNCHANGED pods
    PROVE  StoresOK
<1>1. new # Absent => [new EXCEPT !.version = revision[n] + 1].version = revision[n] + 1
  BY DEF Network
<1>2. \A p \in Pods : revision'[p] = revision[p]
  BY ConstantsAssumption DEF PutNetwork, TypeOK
<1>3. \A m \in Networks : Stored(networks[m], networks'[m], revision[m], revision'[m])
  BY <1>1 DEF PutNetwork, TypeOK, Stored
<1> QED
  BY <1>2, <1>3 DEF StoresOK, Stored

LEMMA PutPodStores ==
    ASSUME TypeOK, NEW p \in Pods, NEW new \in Pod \cup {Absent},
           PutPod(p, new), UNCHANGED networks
    PROVE  StoresOK
<1>1. new # Absent => [new EXCEPT !.version = revision[p] + 1].version = revision[p] + 1
  BY DEF Pod
<1>2. \A n \in Networks : revision'[n] = revision[n]
  BY ConstantsAssumption DEF PutPod, TypeOK
<1>3. \A q \in Pods : Stored(pods[q], pods'[q], revision[q], revision'[q])
  BY <1>1 DEF PutPod, TypeOK, Stored
<1> QED
  BY <1>2, <1>3 DEF StoresOK, Stored

LEMMA StoresUnchanged ==
    ASSUME UNCHANGED <<pods, networks, revision>>
    PROVE  StoresOK
  BY DEF StoresOK, Stored

\* A write from a copy is refused, changes nothing, or is made from the stored
\* object itself.
LEMMA UpdateNetworkMeans ==
    ASSUME NEW n \in Networks, NEW old, old # Absent, NEW new, NEW err,
           CopyOf(old, networks[n], revision[n]), UpdateNetwork(n, old, new, err)
    PROVE  \/ UNCHANGED <<networks, revision>>
           \/ networks[n] = old /\ new # old /\ PutNetwork(n, new)
  BY DEF UpdateNetwork, AcceptNetwork, CopyOf

LEMMA UpdatePodMeans ==
    ASSUME NEW p \in Pods, NEW old, old # Absent, NEW new, NEW err,
           CopyOf(old, pods[p], revision[p]), UpdatePod(p, old, new, err)
    PROVE  \/ UNCHANGED <<pods, revision>>
           \/ pods[p] = old /\ new # old /\ PutPod(p, new)
  BY DEF UpdatePod, AcceptPod, CopyOf

\* What the turn of network n does to the stores.
LEMMA LoopMeans ==
    ASSUME TypeOK, WorkOK, VersionsOK, NEW n \in Networks, PodReconcileNetwork(n)
    PROVE  \/ UNCHANGED <<pods, networks, revision>>
           \/ /\ n \in work.todo /\ ~TurnFails(n) /\ networks[n] = work.nets[n]
              /\ work.nets[n] # Absent /\ TurnResult(n) \in Network
              /\ PutNetwork(n, TurnResult(n)) /\ UNCHANGED pods
<1>1. n \in work.todo /\ work.nets[n] # Absent /\ UNCHANGED pods
  BY DEF PodReconcileNetwork, WorkOK
<1>2. CASE TurnFails(n)
  BY <1>1, <1>2 DEF PodReconcileNetwork
<1>3. CASE ~TurnFails(n)
  <2>1. PICK err \in Errors : UpdateNetwork(n, work.nets[n], TurnResult(n), err)
    BY <1>3 DEF PodReconcileNetwork
  <2>2. CopyOf(work.nets[n], networks[n], revision[n])
    BY DEF VersionsOK
  <2>3. TurnResult(n) \in Network
    BY <1>1, <1>3, TurnResultGood
  <2>4. \/ UNCHANGED <<networks, revision>>
        \/ networks[n] = work.nets[n] /\ PutNetwork(n, TurnResult(n))
    BY <1>1, <2>1, <2>2, UpdateNetworkMeans
  <2> QED
    BY <1>1, <1>3, <2>3, <2>4
<1> QED
  BY <1>2, <1>3

\* What the end of a pod's reconciliation does to the stores.
LEMMA FinishMeans ==
    ASSUME TypeOK, WorkOK, VersionsOK, PodReconcileFinish
    PROVE  \/ UNCHANGED <<pods, networks, revision>>
           \/ /\ work.pod \in Pods /\ work.obj \in Pod /\ pods[work.pod] = work.obj
              /\ work.obj.deleting /\ ~work.hasErrors /\ work.todo = {}
              /\ [work.obj EXCEPT !.finalizer = FALSE] \in Pod
              /\ PutPod(work.pod, [work.obj EXCEPT !.finalizer = FALSE])
              /\ UNCHANGED networks
<1>1. work.pod \in Pods /\ work.obj \in Pod /\ work.obj # Absent /\ work.todo = {}
  BY ConstantsAssumption DEF PodReconcileFinish, TypeOK, WorkOK, Work
<1>2. CASE UNCHANGED <<pods, revision, faults>>
  BY <1>2 DEF PodReconcileFinish
<1>3. CASE /\ work.obj.deleting /\ ~work.hasErrors
           /\ \E err \in Errors :
                 UpdatePod(work.pod, work.obj, [work.obj EXCEPT !.finalizer = FALSE], err)
  <2>1. CopyOf(work.obj, pods[work.pod], revision[work.pod])
    BY <1>1 DEF VersionsOK
  <2>2. \/ UNCHANGED <<pods, revision>>
        \/ /\ pods[work.pod] = work.obj
           /\ PutPod(work.pod, [work.obj EXCEPT !.finalizer = FALSE])
    BY <1>1, <1>3, <2>1, UpdatePodMeans
  <2>3. [work.obj EXCEPT !.finalizer = FALSE] \in Pod
    BY <1>1 DEF Pod
  <2>4. UNCHANGED networks
    BY DEF PodReconcileFinish
  <2> QED
    BY <1>1, <1>3, <2>2, <2>3, <2>4
<1> QED
  BY <1>2, <1>3 DEF PodReconcileFinish, RemovesFinalizer

\* What the reconciliation of network n does to the stores.
LEMMA NetworkReconcileMeans ==
    ASSUME TypeOK, VersionsOK, NEW n \in Networks, NetworkReconcile(n)
    PROVE  \/ UNCHANGED <<pods, networks, revision>>
           \/ /\ networks[n] \in Network /\ ~networks[n].deleting /\ ~networks[n].finalizer
              /\ [networks[n] EXCEPT !.finalizer = TRUE] \in Network
              /\ PutNetwork(n, [networks[n] EXCEPT !.finalizer = TRUE]) /\ UNCHANGED pods
           \/ /\ networks[n] \in Network /\ networks[n].deleting /\ networks[n].finalizer
              /\ networks[n].allocations = {}
              /\ PutNetwork(n, Absent) /\ UNCHANGED pods
<1> DEFINE nw == networkCache[n]
           new == IF nw.deleting THEN Absent ELSE [nw EXCEPT !.finalizer = TRUE]
<1>1. CASE UNCHANGED <<networks, revision, faults>>
  BY <1>1 DEF NetworkReconcile
<1>2. CASE /\ nw # Absent
           /\ IF nw.deleting THEN handleDeletionWrites(nw) ELSE ~nw.finalizer
           /\ \E err \in Errors : UpdateNetwork(n, nw, new, err)
  <2>1. nw \in Network /\ UNCHANGED pods
    BY <1>2 DEF TypeOK, NetworkReconcile
  <2>2. CopyOf(nw, networks[n], revision[n])
    BY DEF VersionsOK
  <2> HIDE DEF new
  <2>3. \/ UNCHANGED <<networks, revision>>
        \/ networks[n] = nw /\ PutNetwork(n, new)
    BY <1>2, <2>2, UpdateNetworkMeans
  <2>4. ~nw.deleting => [nw EXCEPT !.finalizer = TRUE] \in Network
    BY <2>1 DEF Network
  <2> QED
    BY <1>2, <2>1, <2>3, <2>4 DEF handleDeletionWrites, new
<1> QED
  BY <1>1, <1>2 DEF NetworkReconcile

LEMMA StoresStep ==
    ASSUME TypeOK, WorkOK, VersionsOK, [Next]_vars
    PROVE  StoresOK
<1>1. ASSUME NEW p \in Pods, PodReconcileStart(p) \/ SyncPod(p)
      PROVE  StoresOK
  BY <1>1, StoresUnchanged DEF PodReconcileStart, SyncPod, api
<1>2. ASSUME NEW n \in Networks, PodReconcileNetwork(n)
      PROVE  StoresOK
  BY <1>2, LoopMeans, PutNetworkStores, StoresUnchanged
<1>3. ASSUME NEW n \in Networks, NetworkReconcile(n)
      PROVE  StoresOK
  BY <1>3, NetworkReconcileMeans, PutNetworkStores, StoresUnchanged
<1>4. ASSUME NEW n \in Networks, SyncNetwork(n)
      PROVE  StoresOK
  BY <1>4, StoresUnchanged DEF SyncNetwork, api
<1>5. CASE PodReconcileFinish
  BY <1>5, FinishMeans, PutPodStores, StoresUnchanged
<1>6. CASE Resync \/ OperatorRestart
  BY <1>6, StoresUnchanged DEF Resync, OperatorRestart, api
<1>7. CASE Environment
  BY <1>7, EnvironmentOps, PutPodStores, PutNetworkStores DEF EnvironmentOp, PodOp, NetworkOp
<1>8. CASE UNCHANGED vars
  BY <1>8, StoresUnchanged DEF vars, api
<1> QED
  BY <1>1, <1>2, <1>3, <1>4, <1>5, <1>6, <1>7, <1>8 DEF Next, Operator

\* A copy stays a copy whatever happens to the stored object.
LEMMA CopyStays ==
    ASSUME NEW copy, NEW before, NEW after, NEW rev \in Nat, NEW revAfter,
           copy # Absent => copy.version \in Nat,
           CopyOf(copy, before, rev), Stored(before, after, rev, revAfter)
    PROVE  /\ CopyOf(copy, after, revAfter)
           /\ copy # Absent /\ Current(after, copy) => after = before /\ Current(before, copy)
  BY DEF CopyOf, Stored, Current

LEMMA NetworkCopiesStay ==
    ASSUME TypeOK, VersionsOK, StoresOK, NEW n \in Networks
    PROVE  /\ networks'[n] # Absent => networks'[n].version <= revision'[n]
           /\ CopyOf(networkCache[n], networks'[n], revision'[n])
           /\ CopyOf(work.nets[n], networks'[n], revision'[n])
           /\ work.nets[n] # Absent /\ Current(networks'[n], work.nets[n])
                 => networkCache[n] = networks'[n]
<1>1. /\ revision[n] \in Nat
      /\ networkCache[n] # Absent => networkCache[n].version \in Nat
      /\ work.nets[n] # Absent => work.nets[n].version \in Nat
  BY DEF TypeOK, Work, Network
<1>2. Stored(networks[n], networks'[n], revision[n], revision'[n])
  BY DEF StoresOK
<1>3. networks'[n] # Absent => networks'[n].version <= revision'[n]
  BY <1>1, <1>2 DEF VersionsOK, Stored
<1> QED
  BY <1>1, <1>2, <1>3, CopyStays DEF VersionsOK

LEMMA PodCopiesStay ==
    ASSUME TypeOK, WorkOK, VersionsOK, StoresOK, NEW p \in Pods
    PROVE  /\ pods'[p] # Absent => pods'[p].version <= revision'[p]
           /\ CopyOf(podCache[p], pods'[p], revision'[p])
           /\ work.pod = p => CopyOf(work.obj, pods'[p], revision'[p])
           /\ work.pod = p /\ Current(pods'[p], work.obj) => podCache[p] = pods'[p]
<1>1. /\ revision[p] \in Nat
      /\ podCache[p] # Absent => podCache[p].version \in Nat
      /\ work.obj # Absent => work.obj.version \in Nat
      /\ work.pod = p => work.obj # Absent
  BY ConstantsAssumption DEF TypeOK, WorkOK, Work, Pod
<1>2. Stored(pods[p], pods'[p], revision[p], revision'[p])
  BY DEF StoresOK
<1>3. pods'[p] # Absent => pods'[p].version <= revision'[p]
  BY <1>1, <1>2 DEF VersionsOK, Stored
<1> QED
  BY <1>1, <1>2, <1>3, CopyStays DEF VersionsOK

\* The worker keeps its copies.
KeepsCopies == work'.pod = work.pod /\ work'.obj = work.obj /\ work'.nets = work.nets

LEMMA VersionsKept ==
    ASSUME TypeOK, WorkOK, VersionsOK, StoresOK, UNCHANGED caches, KeepsCopies
    PROVE  VersionsOK'
  BY NetworkCopiesStay, PodCopiesStay DEF VersionsOK, KeepsCopies, caches

LEMMA VersionsStep ==
    ASSUME TypeOK, WorkOK, VersionsOK, [Next]_vars
    PROVE  VersionsOK'
<1>0. StoresOK
  BY StoresStep
<1>1. ASSUME NEW p \in Pods, PodReconcileStart(p)
      PROVE  VersionsOK'
  <2>1. CASE work' = Idle
    BY <1>1, <2>1, ConstantsAssumption
       DEF PodReconcileStart, VersionsOK, CopyOf, Idle, api, caches
  <2>2. CASE work' = [pod |-> p, obj |-> podCache[p], nets |-> networkCache,
                      todo |-> Visited(podCache[p]), hasErrors |-> FALSE]
             /\ podCache[p] # Absent
    BY <1>1, <2>2 DEF PodReconcileStart, VersionsOK, CopyOf, api, caches
  <2> QED
    BY <1>1, <2>1, <2>2 DEF PodReconcileStart
<1>2. ASSUME NEW n \in Networks, PodReconcileNetwork(n)
      PROVE  VersionsOK'
  <2>1. KeepsCopies /\ UNCHANGED caches
    BY <1>2 DEF PodReconcileNetwork, KeepsCopies, TypeOK, Work
  <2> QED
    BY <1>0, <2>1, VersionsKept
<1>3. ASSUME NEW n \in Networks, NetworkReconcile(n)
      PROVE  VersionsOK'
  <2>1. KeepsCopies /\ UNCHANGED caches
    BY <1>3 DEF NetworkReconcile, KeepsCopies
  <2> QED
    BY <1>0, <2>1, VersionsKept
<1>4. ASSUME NEW n \in Networks, SyncNetwork(n)
      PROVE  VersionsOK'
  BY <1>4 DEF SyncNetwork, VersionsOK, CopyOf, TypeOK, api
<1>5. ASSUME NEW p \in Pods, SyncPod(p)
      PROVE  VersionsOK'
  BY <1>5 DEF SyncPod, VersionsOK, CopyOf, TypeOK, api
<1>6. CASE PodReconcileFinish
  <2>1. /\ work' = Idle /\ UNCHANGED caches
    BY <1>6 DEF PodReconcileFinish
  <2> QED
    BY <1>0, <2>1, NetworkCopiesStay, PodCopiesStay, ConstantsAssumption
       DEF VersionsOK, Idle, caches, CopyOf
<1>7. CASE Resync
  <2>1. KeepsCopies /\ UNCHANGED caches
    BY <1>7 DEF Resync, KeepsCopies
  <2> QED
    BY <1>0, <2>1, VersionsKept
<1>8. CASE OperatorRestart
  BY <1>8, ConstantsAssumption DEF OperatorRestart, VersionsOK, CopyOf, Idle, api
<1>9. CASE Environment
  <2>1. KeepsCopies /\ UNCHANGED caches
    BY <1>9, EnvironmentOps DEF EnvironmentOp, KeepsCopies
  <2> QED
    BY <1>0, <2>1, VersionsKept
<1>10. CASE UNCHANGED vars
  <2>1. KeepsCopies /\ UNCHANGED caches
    BY <1>10 DEF vars, KeepsCopies
  <2> QED
    BY <1>0, <2>1, VersionsKept
<1> QED
  BY <1>1, <1>2, <1>3, <1>4, <1>5, <1>6, <1>7, <1>8, <1>9, <1>10 DEF Next, Operator

-------------------------------------------------------------------------------
(* The ways a stored network can change *)

Removed(n) ==
    /\ networks[n] # Absent /\ networks'[n] = Absent
    /\ networks[n].finalizer => networks[n].allocations = {}

Created(n) ==
    /\ networks[n] = Absent /\ networks'[n] # Absent
    /\ networks'[n].allocations = {} /\ networks'[n].routers = {}
    /\ \A o \in Routes : networks'[n].optionalRouters[o] = {}

SameStatus(new, nw) ==
    /\ new.allocations = nw.allocations /\ new.routers = nw.routers
    /\ new.optionalRouters = nw.optionalRouters

Edited(n) ==
    /\ networks[n] # Absent /\ networks'[n] # Absent
    /\ SameStatus(networks'[n], networks[n])
    /\ networks'[n].spec.allocatableCIDR = networks[n].spec.allocatableCIDR

Turned(n) ==
    /\ n \in work.todo /\ ~TurnFails(n)
    /\ work.nets[n] # Absent /\ networks[n] = work.nets[n] /\ networks'[n] # Absent
    /\ SameStatus(networks'[n], TurnResult(n))
    /\ networks'[n].spec = TurnResult(n).spec

NetworkChange(n) ==
    networks'[n] = networks[n] \/ Removed(n) \/ Created(n) \/ Edited(n) \/ Turned(n)

\* Storing new changes what the caller changed and the version.
LEMMA PutNetworkMeans ==
    ASSUME TypeOK, NEW n \in Networks, NEW new \in Network, PutNetwork(n, new)
    PROVE  /\ networks'[n] # Absent
           /\ SameStatus(networks'[n], new) /\ networks'[n].spec = new.spec
           /\ networks'[n].deleting = new.deleting /\ networks'[n].finalizer = new.finalizer
           /\ \A m \in Networks \ {n} : networks'[m] = networks[m]
<1>1. new # Absent /\ revision[n] + 1 \in Nat
  BY ConstantsAssumption DEF TypeOK
<1>2. networks'[n] = [new EXCEPT !.version = revision[n] + 1]
  BY <1>1 DEF PutNetwork, TypeOK
<1>3. networks'[n] \in Network
  BY <1>1, <1>2 DEF Network
<1>4. networks'[n] # Absent
  BY <1>3, ConstantsAssumption
<1>5. \A m \in Networks \ {n} : networks'[m] = networks[m]
  BY DEF PutNetwork, TypeOK
<1> QED
  BY <1>2, <1>4, <1>5 DEF Network, SameStatus

LEMMA PutAbsentMeans ==
    ASSUME TypeOK, NEW n \in Networks, PutNetwork(n, Absent)
    PROVE  networks'[n] = Absent /\ \A m \in Networks \ {n} : networks'[m] = networks[m]
  BY DEF PutNetwork, TypeOK

LEMMA NetworkChanges ==
    ASSUME TypeOK, WorkOK, VersionsOK, [Next]_vars
    PROVE  \A n \in Networks : NetworkChange(n)
<1>0. UNCHANGED networks => \A n \in Networks : NetworkChange(n)
  BY DEF NetworkChange
<1>1. ASSUME NEW n \in Networks, PodReconcileNetwork(n)
      PROVE  \A m \in Networks : NetworkChange(m)
  <2>1. CASE UNCHANGED networks
    BY <1>0, <2>1
  <2>2. CASE /\ n \in work.todo /\ ~TurnFails(n) /\ networks[n] = work.nets[n]
             /\ work.nets[n] # Absent /\ TurnResult(n) \in Network
             /\ PutNetwork(n, TurnResult(n))
    BY <2>2, PutNetworkMeans DEF NetworkChange, Turned
  <2> QED
    BY <1>1, <2>1, <2>2, LoopMeans
<1>2. ASSUME NEW n \in Networks, NetworkReconcile(n)
      PROVE  \A m \in Networks : NetworkChange(m)
  <2>1. CASE UNCHANGED networks
    BY <1>0, <2>1
  <2>2. CASE /\ networks[n] \in Network
             /\ [networks[n] EXCEPT !.finalizer = TRUE] \in Network
             /\ PutNetwork(n, [networks[n] EXCEPT !.finalizer = TRUE])
    <3> DEFINE new == [networks[n] EXCEPT !.finalizer = TRUE]
    <3>1. SameStatus(new, networks[n]) /\ new.spec = networks[n].spec
      BY <2>2 DEF Network, SameStatus
    <3> HIDE DEF new
    <3>2. new \in Network /\ PutNetwork(n, new) /\ networks[n] # Absent
      BY <2>2, ConstantsAssumption DEF new
    <3> QED
      BY <3>1, <3>2, PutNetworkMeans DEF NetworkChange, Edited, SameStatus
  <2>3. CASE /\ networks[n] \in Network /\ networks[n].allocations = {}
             /\ PutNetwork(n, Absent)
    BY <2>3, PutAbsentMeans, ConstantsAssumption DEF NetworkChange, Removed
  <2> QED
    BY <1>2, <2>1, <2>2, <2>3, NetworkReconcileMeans
<1>3. ASSUME NEW n \in Networks, NEW spec \in Specs, NetworkCreate(n, spec)
      PROVE  \A m \in Networks : NetworkChange(m)
  <2> DEFINE new == [uid |-> revision[n] + 1, version |-> 0, spec |-> spec,
                     deleting |-> FALSE, finalizer |-> FALSE, allocations |-> {},
                     routers |-> {}, optionalRouters |-> [r \in Routes |-> {}]]
  <2>1. new \in Network
    BY ConstantsAssumption DEF Network, TypeOK
  <2>2. /\ new.allocations = {} /\ new.routers = {}
        /\ \A o \in Routes : new.optionalRouters[o] = {}
    OBVIOUS
  <2>3. PutNetwork(n, new) /\ networks[n] = Absent
    BY <1>3 DEF NetworkCreate
  <2> HIDE DEF new
  <2> QED
    BY <2>1, <2>2, <2>3, PutNetworkMeans DEF NetworkChange, Created, SameStatus
<1>4. ASSUME NEW n \in Networks, NEW spec \in Specs, NetworkUpdate(n, spec)
      PROVE  \A m \in Networks : NetworkChange(m)
  <2> DEFINE new == [networks[n] EXCEPT !.spec = spec]
  <2>1. networks[n] \in Network /\ networks[n] # Absent /\ PutNetwork(n, new)
    BY <1>4 DEF NetworkUpdate, TypeOK
  <2>2. spec.allocatableCIDR = networks[n].spec.allocatableCIDR
    BY <1>4 DEF NetworkUpdate, NetworkValidatorAllows
  <2>3. new \in Network /\ SameStatus(new, networks[n]) /\ new.spec = spec
    BY <2>1, ConstantsAssumption DEF Network, SameStatus
  <2> HIDE DEF new
  <2> QED
    BY <2>1, <2>2, <2>3, PutNetworkMeans DEF NetworkChange, Edited, SameStatus
<1>5. ASSUME NEW n \in Networks, NetworkDelete(n)
      PROVE  \A m \in Networks : NetworkChange(m)
  <2>1. networks[n] \in Network /\ networks[n] # Absent
    BY <1>5 DEF NetworkDelete, TypeOK
  <2>2. CASE networks[n].finalizer
    <3> DEFINE new == [networks[n] EXCEPT !.deleting = TRUE]
    <3>1. new \in Network /\ SameStatus(new, networks[n]) /\ new.spec = networks[n].spec
      BY <2>1 DEF Network, SameStatus
    <3>2. PutNetwork(n, new)
      BY <1>5, <2>2 DEF NetworkDelete
    <3> HIDE DEF new
    <3> QED
      BY <2>1, <3>1, <3>2, PutNetworkMeans DEF NetworkChange, Edited, SameStatus
  <2>3. CASE ~networks[n].finalizer
    <3>1. PutNetwork(n, Absent)
      BY <1>5, <2>3 DEF NetworkDelete
    <3> QED
      BY <2>1, <2>3, <3>1, PutAbsentMeans DEF NetworkChange, Removed
  <2> QED
    BY <2>2, <2>3
<1>6. ASSUME NEW p \in Pods,
             \/ PodReconcileStart(p) \/ SyncPod(p)
             \/ \E label \in BOOLEAN, annotation \in Annotations : PodCreate(p, label, annotation)
             \/ \E annotation \in Annotations : PodAnnotate(p, annotation)
             \/ PodRelabel(p) \/ PodDelete(p) \/ PodGone(p)
             \/ \E ip \in PodIPs : KubeletSetIP(p, ip) \/ PodIPChange(p, ip)
      PROVE  UNCHANGED networks
  BY <1>6 DEF PodReconcileStart, SyncPod, PodCreate, PodAnnotate, PodRelabel, PodDelete, PodGone,
              KubeletSetIP, PodIPChange, api
<1>7. ASSUME \/ PodReconcileFinish \/ Resync \/ OperatorRestart
             \/ \E n \in Networks : SyncNetwork(n)
             \/ UNCHANGED vars
      PROVE  UNCHANGED networks
  BY <1>7 DEF PodReconcileFinish, Resync, OperatorRestart, SyncNetwork, vars, api
<1> QED
  BY <1>0, <1>1, <1>2, <1>3, <1>4, <1>5, <1>6, <1>7 DEF Next, Operator, Environment

-------------------------------------------------------------------------------
(* The allocations of a network *)

GoodNetworks == \A n \in Networks : networks[n] # Absent => Good(networks[n])

\* The inductive invariant.  The stored networks are good only because a write
\* is made from the stored network itself (VersionsOK) by a worker that holds a
\* copy of it (WorkOK).
Inv == TypeOK /\ WorkOK /\ VersionsOK /\ GoodNetworks

LEMMA GoodStep ==
    ASSUME Inv, [Next]_vars
    PROVE  GoodNetworks'
<1> USE DEF Inv
<1> SUFFICES ASSUME NEW n \in Networks, networks'[n] # Absent PROVE Good(networks'[n])
  BY DEF GoodNetworks
<1>1. NetworkChange(n)
  BY NetworkChanges
<1>2. networks[n] # Absent => Good(networks[n])
  BY DEF GoodNetworks
<1>3. CASE Created(n)
  BY <1>3 DEF Created, Good, UniqueIn, InCIDR, RoutersIn
<1>4. CASE Edited(n)
  BY <1>2, <1>4 DEF Edited, SameStatus, Good, UniqueIn, InCIDR, RoutersIn, Backed
<1>5. CASE Turned(n)
  <2>1. Good(TurnResult(n))
    BY <1>2, <1>5, TurnResultGood DEF Turned
  <2> QED
    BY <1>5, <2>1 DEF Turned, SameStatus, Good, UniqueIn, InCIDR, RoutersIn, Backed
<1> QED
  BY <1>1, <1>2, <1>3, <1>4, <1>5 DEF NetworkChange, Removed

LEMMA InvInit == Init => Inv
<1>1. Init => VersionsOK
  BY ConstantsAssumption DEF Init, VersionsOK, CopyOf, Idle
<1>2. Init => GoodNetworks
  BY DEF Init, GoodNetworks
<1> QED
  BY <1>1, <1>2, TypeInit DEF Inv

LEMMA InvStep == Inv /\ [Next]_vars => Inv'
  BY TypeStep, VersionsStep, GoodStep DEF Inv

LEMMA Invariance == Spec => []Inv
  BY InvInit, InvStep, PTL DEF Spec

\* No two pods share an address and no pod has two, for any number of pods and
\* networks, however stale the operator's caches and wherever it crashes.
THEOREM UniqueAllocationsHold == Spec => []UniqueAllocations
<1>1. Inv => UniqueAllocations
  BY DEF Inv, GoodNetworks, Good, UniqueIn, UniqueAllocations
<1> QED
  BY <1>1, Invariance, PTL

\* Every address handed out is in the network's CIDR, also after the network's
\* spec was edited and when the pod asked for the address.
THEOREM AllocationsInCIDRHold == Spec => []AllocationsInCIDR
<1>1. Inv => AllocationsInCIDR
  BY DEF Inv, GoodNetworks, Good, InCIDR, AllocationsInCIDR
<1> QED
  BY <1>1, Invariance, PTL

\* Every entry of routers and optionalRouters has its allocation.
THEOREM RoutersBackedHold == Spec => []RoutersBacked
<1>1. Inv => RoutersBacked
  BY DEF Inv, GoodNetworks, Good, RoutersIn, Backed, RoutersBacked
<1> QED
  BY <1>1, Invariance, PTL

\* A pod keeps the address it has in a network as long as it has one.
THEOREM AddressStableHolds == Spec => AddressStable
<1>1. ASSUME Inv, [Next]_vars, NEW n \in Networks, Survives(n),
             NEW a \in networks[n].allocations, NEW b \in networks'[n].allocations,
             a.podName = b.podName
      PROVE  a.ip = b.ip /\ a.podIP = b.podIP
  <2>1. NetworkChange(n)
    BY <1>1, NetworkChanges DEF Inv
  <2>2. UniqueIn(networks[n]) /\ networks[n] # Absent /\ networks'[n] # Absent
    BY <1>1 DEF Inv, GoodNetworks, Good, Survives
  <2>3. CASE Turned(n)
    <3>1. b \in TurnResult(n).allocations
      BY <1>1, <2>3 DEF Turned, SameStatus
    <3>2. CASE Wanted(n)
      <4>1. Traced(TurnResult(n), networks[n], work.pod, work.obj)
        BY <1>1, <2>3, <3>2, TurnResultGood DEF Turned, Inv
      <4> QED
        BY <1>1, <2>2, <3>1, <4>1 DEF Traced, UniqueIn, Of
    <3>3. CASE ~Wanted(n)
      <4>1. TurnResult(n).allocations = Without(work.pod, networks[n].allocations)
        BY <1>1, <2>3, <3>3, TurnResultGood DEF Turned, Inv
      <4> QED
        BY <1>1, <2>2, <3>1, <4>1 DEF Without, UniqueIn
    <3> QED
      BY <3>2, <3>3
  <2> QED
    BY <1>1, <2>1, <2>2, <2>3
       DEF NetworkChange, Removed, Created, Edited, SameStatus, UniqueIn
<1>2. Inv /\ [Next]_vars =>
        [\A n \in Networks : Survives(n) =>
            \A a \in networks[n].allocations, b \in networks'[n].allocations :
                a.podName = b.podName => a.ip = b.ip /\ a.podIP = b.podIP]_vars
  BY <1>1
<1> QED
  BY <1>2, Invariance, PTL DEF AddressStable, Spec

\* No pod is dropped from a network by a write made for another pod.
THEOREM ReleasedByOwnTurnHolds == Spec => ReleasedByOwnTurn
<1>1. ASSUME Inv, [Next]_vars, NEW n \in Networks, Survives(n),
             NEW a \in networks[n].allocations,
             Of(a.podName, networks'[n].allocations) = {}
      PROVE  work.pod = a.podName /\ ~Wanted(n)
  <2>1. NetworkChange(n)
    BY <1>1, NetworkChanges DEF Inv
  <2>2. networks[n] # Absent /\ networks'[n] # Absent
    BY <1>1 DEF Survives
  <2>3. CASE Turned(n)
    <3>1. \A b \in TurnResult(n).allocations : b.podName # a.podName
      BY <1>1, <2>3 DEF Turned, SameStatus, Of
    <3>2. CASE Wanted(n)
      <4>1. Traced(TurnResult(n), networks[n], work.pod, work.obj)
        BY <1>1, <2>3, <3>2, TurnResultGood DEF Turned, Inv
      <4> QED
        BY <1>1, <3>1, <4>1 DEF Traced
    <3>3. CASE ~Wanted(n)
      <4>1. TurnResult(n).allocations = Without(work.pod, networks[n].allocations)
        BY <1>1, <2>3, <3>3, TurnResultGood DEF Turned, Inv
      <4> QED
        BY <1>1, <3>1, <3>3, <4>1 DEF Without
    <3> QED
      BY <3>2, <3>3
  <2> QED
    BY <1>1, <2>1, <2>2, <2>3 DEF NetworkChange, Removed, Created, Edited, SameStatus, Of
<1>2. Inv /\ [Next]_vars =>
        [\A n \in Networks : Survives(n) =>
            \A a \in networks[n].allocations :
                Of(a.podName, networks'[n].allocations) = {} =>
                    work.pod = a.podName /\ ~Wanted(n)]_vars
  BY <1>1
<1> QED
  BY <1>2, Invariance, PTL DEF ReleasedByOwnTurn, Spec

\* A network that is being deleted takes in no pod, although the copy the
\* reconciler looks at may be older than the deletion.
THEOREM NoGrantWhileDeletingHolds == Spec => NoGrantWhileDeleting
<1>1. ASSUME Inv, [Next]_vars, NEW n \in Networks, Survives(n), networks[n].deleting,
             NEW b \in networks'[n].allocations
      PROVE  \E a \in networks[n].allocations : a.podName = b.podName
  <2>1. NetworkChange(n)
    BY <1>1, NetworkChanges DEF Inv
  <2>2. networks[n] # Absent /\ networks'[n] # Absent
    BY <1>1 DEF Survives
  <2>3. CASE Turned(n)
    <3>1. b \in TurnResult(n).allocations
      BY <1>1, <2>3 DEF Turned, SameStatus
    <3>2. CASE Wanted(n)
      <4>1. Traced(TurnResult(n), networks[n], work.pod, work.obj)
        BY <1>1, <2>3, <3>2, TurnResultGood DEF Turned, Inv
      <4> QED
        BY <1>1, <3>1, <4>1 DEF Traced
    <3>3. CASE ~Wanted(n)
      <4>1. TurnResult(n).allocations = Without(work.pod, networks[n].allocations)
        BY <1>1, <2>3, <3>3, TurnResultGood DEF Turned, Inv
      <4> QED
        BY <3>1, <4>1 DEF Without
    <3> QED
      BY <3>2, <3>3
  <2> QED
    BY <1>1, <2>1, <2>2, <2>3 DEF NetworkChange, Removed, Created, Edited, SameStatus
<1>2. Inv /\ [Next]_vars =>
        [\A n \in Networks : Survives(n) /\ networks[n].deleting =>
            {b.podName : b \in networks'[n].allocations} \subseteq
                {a.podName : a \in networks[n].allocations}]_vars
  BY <1>1
<1> QED
  BY <1>2, Invariance, PTL DEF NoGrantWhileDeleting, Spec

\* A network with a finalizer is removed only when its stored status, and not
\* just the cached copy handleDeletion looks at, has no allocation left.
THEOREM FinalizedNetworkRemovedEmptyHolds == Spec => FinalizedNetworkRemovedEmpty
<1>1. Inv /\ [Next]_vars =>
        [\A n \in Networks :
            networks[n] # Absent /\ networks'[n] = Absent /\ networks[n].finalizer
                => networks[n].allocations = {}]_vars
  BY NetworkChanges DEF Inv, NetworkChange, Removed, Created, Edited, Turned
<1> QED
  BY <1>1, Invariance, PTL DEF FinalizedNetworkRemovedEmpty, Spec
===============================================================================
