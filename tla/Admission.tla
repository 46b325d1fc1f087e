------------------------------- MODULE Admission -------------------------------
(***************************************************************************)
(* The admission webhooks: webhooks/validating.go and webhooks/pod.go.     *)
(*                                                                         *)
(* The specification of an OverlayNetwork keeps the fields the validator   *)
(* reads.  A routable CIDR is abstracted to whether net.ParseCIDR accepts  *)
(* it, paired with a name that tells two of them apart.                    *)
(***************************************************************************)
EXTENDS Iputil

CONSTANT RoutableNames

RoutableCidr == [name : RoutableNames, ok : BOOLEAN]

NetworkSpec == [port : Int, allocatableCIDR : Cidr, routableCIDRs : SUBSET RoutableCidr]

\* Mutant: the CIDR of a network may be edited.
NetworkValidatorAllowsCidrEdits(op, old, nw) ==
    /\ op = "Create" => nw.port > 0 /\ nw.port <= 65535 /\ nw.allocatableCIDR.ok
    /\ op = "Update" => old.port = nw.port
    /\ \A cidr \in nw.routableCIDRs : cidr.ok

\* OverlayNetworkValidator.Handle for operation op on the object nw; old is
\* the object an update replaces.
NetworkValidatorAllows(op, old, nw) ==
    /\ op = "Create" => /\ nw.port > 0 /\ nw.port <= 65535
                        /\ nw.allocatableCIDR.ok
    /\ op = "Update" => /\ old.port = nw.port
                        /\ old.allocatableCIDR = nw.allocatableCIDR
    /\ \A cidr \in nw.routableCIDRs : cidr.ok

\* PodInjector.Handle: does a pod with this label that is let in get the ipam
\* finalizer?  Pods it refuses (no service account, see module Access, or the
\* reserved volume name) never come to exist.
PodInjectorAddsFinalizer(label) == label
===============================================================================
