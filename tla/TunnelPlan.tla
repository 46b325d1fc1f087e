------------------------------ MODULE TunnelPlan ------------------------------
(***************************************************************************)
(* What the status of an OverlayNetwork asks of one pod: the first part of *)
(* the sidecar's Reconcile, which turns it into the peers the pod has      *)
(* tunnels to and the routes over them.                                    *)
(*                                                                         *)
(* Allocations and networks are what module Ipam leaves in the status.  A  *)
(* CIDR that does not parse is skipped by the code and not in the model.   *)
(***************************************************************************)
EXTENDS Integers

CONSTANTS
    Me,             \* POD_NAME of the sidecar
    Pods,           \* pod names
    Routes,         \* names of optional routes
    NoGw            \* the gateway of a route of scope link

Dst == [ip : Nat, len : Nat]

Allocation == [podName : Pods, podIP : Nat, ip : Nat, extraNetworks : SUBSET Routes]

Network == [port : Nat, allocatableCIDR : Dst, routableCIDRs : SUBSET Dst,
            optionalRoutes : [Routes -> SUBSET Dst],
            allocations : SUBSET Allocation, routers : SUBSET Allocation,
            optionalRouters : [Routes -> SUBSET Allocation]]

Route == [dst : Dst, gw : Nat \cup {NoGw}, src : Nat]

Host(ip) == [ip |-> ip, len |-> 32]

IsMember(nw) == \E a \in nw.allocations : a.podName = Me

IsRouter(nw) == \E a \in nw.routers : a.podName = Me

Member(nw) == CHOOSE a \in nw.allocations : a.podName = Me

\* localPodRouter or localPodMember.
Local(nw) == IF IsRouter(nw) THEN CHOOSE a \in nw.routers : a.podName = Me ELSE Member(nw)

\* targetLinkState: the peers this pod has a tunnel to.
Targets(nw) ==
    IF IsRouter(nw) THEN {a \in nw.allocations : a.podName # Me}
    ELSE IF IsMember(nw) THEN nw.routers ELSE {}

\* Mutant: a router's address has the mask of the network, too.
OwnRouteWide(nw, peer) ==
    [dst |-> nw.allocatableCIDR, gw |-> NoGw, src |-> Local(nw).ip]

\* The route every link has: a router reaches its peer, a member the network.
OwnRoute(nw, peer) ==
    [dst |-> IF IsRouter(nw) THEN Host(peer.ip) ELSE nw.allocatableCIDR,
     gw |-> NoGw, src |-> Local(nw).ip]

Via(nw, dsts, routers) ==
    {[dst |-> d, gw |-> r.ip, src |-> Local(nw).ip] : d \in dsts, r \in routers}

\* extraRoutes: optional routes this pod asked for and somebody serves.
ExtraRoutes(nw) ==
    IF IsMember(nw)
    THEN UNION {Via(nw, nw.optionalRoutes[r], nw.optionalRouters[r]) : r \in Member(nw).extraNetworks}
    ELSE {}

\* targetRoutes: those and, for members, what the routers route.
TargetRoutes(nw) ==
    ExtraRoutes(nw) \cup
        IF IsRouter(nw) THEN {} ELSE Via(nw, nw.routableCIDRs, nw.routers)
===============================================================================
