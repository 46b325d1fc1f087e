------------------------------ MODULE MCTunneler ------------------------------
(* Small instances of module Tunneler for TLC. *)
EXTENDS Tunneler

CONSTANTS me, a, b, c, d, n1, n2, x

\* Pod p in the network whose CIDR starts at base: cluster address 10 * k and
\* overlay address base + k for the k-th pod.
Number(p) == CASE p = me -> 1 [] p = a -> 2 [] p = b -> 3 [] p = c -> 4 [] p = d -> 5

Alloc(base, p, extra) ==
    [podName |-> p, podIP |-> 10 * Number(p), ip |-> base + Number(p), extraNetworks |-> extra]

Allocs(base, S) == {Alloc(base, p, {}) : p \in S}

Cidr(base) == [ip |-> base, len |-> 24]
Wide == [ip |-> 500, len |-> 16]
Narrow == [ip |-> 600, len |-> 28]
OtherNarrow == [ip |-> 700, len |-> 28]

Status(port, base, members, routers, routable) ==
    [port |-> port, allocatableCIDR |-> Cidr(base), routableCIDRs |-> routable,
     optionalRoutes |-> [r \in Routes |-> {Narrow}],
     allocations |-> Allocs(base, members), routers |-> Allocs(base, routers),
     optionalRouters |-> [r \in Routes |-> {}]]

\* The pod asks for the optional route x, which pod p serves.
Optional(port, base, p) ==
    [Status(port, base, {me, a, b}, {a}, {}) EXCEPT
        !.allocations = Allocs(base, {a, b}) \cup {Alloc(base, me, {x})},
        !.optionalRouters = [r \in Routes |-> {Alloc(base, p, {})}]]

-------------------------------------------------------------------------------
\* The roles a pod goes through: outside, member of one router or another,
\* router, with and without further routes.
Roles(port, base) ==
    {Status(port, base, {a, b}, {a}, {}),
     Status(port, base, {me, a, b}, {a}, {Wide}),
     Status(port, base, {me, b}, {b}, {}),
     Status(port, base, {me, a, b}, {me}, {Wide}),
     Optional(port, base, a),
     Optional(port, base, b)}

\* The roles in one network, next to another one with a port, peers and two
\* routers of its own.
RolesBesideAnother ==
    [n \in Networks |->
        IF n = n1 THEN Roles(1, 100)
        ELSE {Status(2, 200, {me, c, d}, {c, d}, {})}]

\* They are statuses the sidecar can match.
ASSUME RolesMatchable ==
    Statuses = RolesBesideAnother => PortsApart /\ SteadyPeers /\ RoutesApart

\* Two networks that use the same port.
SharedPort ==
    [n \in Networks |->
        LET base == IF n = n1 THEN 100 ELSE 200
        IN  {Status(1, base, {a, b}, {a}, {}), Status(1, base, {me, a}, {a}, {})}]

\* Memberships that never change, with the same peer in both networks.
Steady ==
    [n \in Networks |->
        LET port == IF n = n1 THEN 1 ELSE 2
        IN  {Status(port, 100 * port, {me, a}, {a}, {})}]

\* A routable CIDR is replaced by another one of the same size.
Rerouted ==
    [n \in Networks |-> {Status(1, 100, {me, a}, {a}, {Narrow}),
                         Status(1, 100, {me, a}, {a}, {OtherNarrow})}]
===============================================================================
