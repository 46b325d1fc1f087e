-------------------------------- MODULE Iputil --------------------------------
(***************************************************************************)
(* Address picking: controllers/iputil/pickip.go.                          *)
(*                                                                         *)
(* An address is a natural number.  A CIDR is what net.ParseCIDR makes of  *)
(* the configured string: whether it parses, the address written before   *)
(* the slash (base, host bits included) and the range lo..hi of the        *)
(* masked network.  The loop of FirstFreeHost is given here by its result; *)
(* module IputilScan models it byte by byte and checks that they agree.    *)
(***************************************************************************)
EXTENDS Integers, FiniteSetsExt

Address == Nat

\* A nil net.IP passed as the request.
NoRequest == -1

Request == Address \cup {NoRequest}

Cidr == [ok : BOOLEAN, base : Address, lo : Address, hi : Address]

\* net.IPNet.Contains for a parsed CIDR.
Contains(cidr, ip) == ip \in cidr.lo .. cidr.hi

Picked(ip) == [ip |-> ip, err |-> "nil"]

Failed(err) == [ip |-> 0, err |-> err]

\* The addresses the loop visits: it starts one past the address as written.
Candidates(cidr) == {ip \in cidr.base + 1 .. cidr.hi : Contains(cidr, ip)}

FirstFreeHost(cidr, allocated, request) ==
    LET free == Candidates(cidr) \ allocated
    IN  CASE ~cidr.ok -> Failed("ParseError")
          [] cidr.ok /\ request # NoRequest /\ request \notin allocated -> Picked(request)
          [] cidr.ok /\ request # NoRequest /\ request \in allocated -> Failed("ErrDuplicateIPRequest")
          [] cidr.ok /\ request = NoRequest /\ free # {} -> Picked(Min(free))
          [] cidr.ok /\ request = NoRequest /\ free = {} -> Failed("ErrAddressPoolExhausted")
===============================================================================
