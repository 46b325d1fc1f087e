------------------------------ MODULE AddressBook ------------------------------
(***************************************************************************)
(* What address management promises to everything that reads the status of *)
(* an OverlayNetwork: a book of leases per network.  A lease is granted    *)
(* only in an open network, to a pod that has none there, for an address   *)
(* that is free; it never changes; a closing network goes away once its    *)
(* last lease is given back.                                               *)
(*                                                                         *)
(* A network is open from its creation, but only secured once it carries   *)
(* its finalizer: deleting it before that discards it, leases and all.     *)
(***************************************************************************)
EXTENDS Integers

CONSTANTS Pods, Networks, Address

VARIABLES
    phase,      \* "none", "unsecured", "open" or "closing"
    leases      \* per network, the set of leases [pod, ip]

vars == <<phase, leases>>

Lease == [pod : Pods, ip : Address]

Init ==
    /\ phase = [n \in Networks |-> "none"]
    /\ leases = [n \in Networks |-> {}]

Enter(n, from, to) == phase[n] = from /\ phase' = [phase EXCEPT ![n] = to]

Open(n) == Enter(n, "none", "unsecured") /\ UNCHANGED leases

Secure(n) == Enter(n, "unsecured", "open") /\ UNCHANGED leases

Close(n) == Enter(n, "open", "closing") /\ UNCHANGED leases

Remove(n) == Enter(n, "closing", "none") /\ leases[n] = {} /\ UNCHANGED leases

Discard(n) == Enter(n, "unsecured", "none") /\ leases' = [leases EXCEPT ![n] = {}]

Grant(n, lease) ==
    /\ phase[n] \in {"unsecured", "open"}
    /\ \A l \in leases[n] : l.pod # lease.pod /\ l.ip # lease.ip
    /\ leases' = [leases EXCEPT ![n] = @ \cup {lease}]
    /\ UNCHANGED phase

GiveBack(n, lease) ==
    /\ lease \in leases[n]
    /\ leases' = [leases EXCEPT ![n] = @ \ {lease}]
    /\ UNCHANGED phase

Next ==
    \E n \in Networks :
        \/ Open(n) \/ Secure(n) \/ Close(n) \/ Remove(n) \/ Discard(n)
        \/ \E lease \in Lease : Grant(n, lease) \/ GiveBack(n, lease)

Spec == Init /\ [][Next]_vars
===============================================================================
