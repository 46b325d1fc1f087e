-------------------------------- MODULE MCIpam --------------------------------
(* Small instances of module Ipam for TLC. *)
EXTENDS IpamBook, TLC

CONSTANTS p1, p2, n1, n2, i1, i2, r1

-------------------------------------------------------------------------------
(* Networks users submit *)

\* 10.0.0.0/30 as an example: network address 0, hosts 1 .. 3.
SmallCidr == [ok |-> TRUE, base |-> 0, lo |-> 0, hi |-> 2]

\* The address as written has host bits: picking starts behind it.
OffsetCidr == [ok |-> TRUE, base |-> 5, lo |-> 4, hi |-> 6]

\* A string that is not a CIDR.
BadCidr == [ok |-> FALSE, base |-> 0, lo |-> 0, hi |-> 0]

NoRoutes == {}
GoodRoute == {[name |-> r1, ok |-> TRUE]}
BadRoute == {[name |-> r1, ok |-> FALSE]}

NwSpec(port, cidr, routes) ==
    [port |-> port, allocatableCIDR |-> cidr, routableCIDRs |-> routes]

OneSpec == {NwSpec(1000, SmallCidr, NoRoutes)}

\* Valid specs and edits, and ones the validator must refuse.
EditedSpecs ==
    {NwSpec(1000, OffsetCidr, NoRoutes), NwSpec(1000, OffsetCidr, GoodRoute),
     NwSpec(1000, OffsetCidr, BadRoute), NwSpec(1000, BadCidr, NoRoutes),
     NwSpec(0, OffsetCidr, NoRoutes), NwSpec(65536, OffsetCidr, NoRoutes)}

-------------------------------------------------------------------------------
(* Annotations users give pods *)

Ask(member, router, extraRouter, extraRoutes, requestIP) ==
    [member |-> member, router |-> router,
     extraRouter |-> [n \in Networks |-> extraRouter],
     extraRoutes |-> [n \in Networks |-> extraRoutes],
     requestIP |-> [n \in Networks |-> requestIP]]

NoNetwork == Ask({}, {}, {}, {}, NoRequest)
MemberOf(S) == Ask(S, {}, {}, {}, NoRequest)
RouterFor(S) == Ask({}, S, {r1}, {}, NoRequest)
Requests(S, ip) == Ask(S, {}, {}, {r1}, ip)

PlainAnnotations == {NoNetwork, MemberOf(Networks)}

RouterOrNot == {NoNetwork, RouterFor(Networks)}

Roles == {NoNetwork, RouterFor(Networks), Requests(Networks, 1)}

Symmetry == Permutations(Pods) \cup Permutations(PodIPs) \cup Permutations(Networks)
===============================================================================
