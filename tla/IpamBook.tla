------------------------------- MODULE IpamBook -------------------------------
(***************************************************************************)
(* The operator's address management implements the book of leases: what   *)
(* the status of the stored networks shows is what AddressBook allows.     *)
(***************************************************************************)
EXTENDS Ipam

Phase(nw) ==
    IF nw = Absent THEN "none"
    ELSE IF nw.deleting THEN "closing"
    ELSE IF nw.finalizer THEN "open" ELSE "unsecured"

Leases(nw) ==
    IF nw = Absent THEN {} ELSE {[pod |-> a.podName, ip |-> a.ip] : a \in nw.allocations}

\* The addresses of the CIDRs users ask for.
Addressable ==
    UNION {spec.allocatableCIDR.lo .. spec.allocatableCIDR.hi : spec \in Specs}

Book == INSTANCE AddressBook WITH
            Address <- Addressable,
            phase <- [n \in Networks |-> Phase(networks[n])],
            leases <- [n \in Networks |-> Leases(networks[n])]

\* Every step of the operator, of its caches and of its users is a step of the
\* book or none: an address is leased only while its network is open, to a pod
\* without a lease and only if it is free; a lease is given back whole; a
\* secured network goes only when all are.
ImplementsAddressBook == Book!Spec
===============================================================================
