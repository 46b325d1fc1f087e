------------------------------ MODULE MCResolver ------------------------------
(* A small instance of module Resolver for TLC. *)
EXTENDS Resolver

CONSTANTS n1, n2, web, db, i1, i2, v6, x, y, z6

NwStatus(services, allocations) == [serviceNames |-> services, allocations |-> allocations]

Has(podIP, ip) == [podIP |-> podIP, ip |-> ip]

\* A network that gains and loses services and pods, with a pod of either
\* family and a cluster address that is listed twice, and a network with the
\* same service and cluster addresses whose overlay addresses differ.
Changing ==
    [n \in Networks |->
        IF n = n1
        THEN {NwStatus({web}, <<Has(i1, x), Has(v6, y), Has(i2, z6)>>),
              NwStatus({web, db}, <<Has(i2, y), Has(i2, x)>>),
              NwStatus({db}, <<Has(i1, x), Has(i2, y)>>)}
        ELSE {NwStatus({web}, <<Has(i1, y)>>)}]

Q(query, type, name) == [query |-> query, type |-> type, name |-> name]

SomeQuestions ==
    {Q(TRUE, "A", <<web, n1>>), Q(TRUE, "A", <<db, n1>>), Q(FALSE, "A", <<web, n1>>),
     Q(TRUE, "other", <<web, n1>>), Q(TRUE, "A", <<web>>)}

SomeLookups == {{i1}, {i1, i2, v6}, {}}
===============================================================================
