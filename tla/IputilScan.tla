------------------------------ MODULE IputilScan ------------------------------
(***************************************************************************)
(* FirstFreeHost of controllers/iputil/pickip.go as the code runs it: the  *)
(* address is an array of bytes that inc counts up in place, from the last *)
(* byte, until net.IPNet.Contains says no.                                 *)
(*                                                                         *)
(* The array has three bytes.  As in Go, an IPv4 address is kept in the    *)
(* long form behind a fixed prefix (here a zero byte and a byte of ones,   *)
(* there ten zeros and two bytes of ones), and Contains compares an        *)
(* address of that form with IPv4 networks only.  A prefix length is given *)
(* by the number of addresses that share the prefix.                       *)
(***************************************************************************)
EXTENDS Iputil

CONSTANTS
    ByteSize,       \* values of a byte
    Sizes,          \* numbers of addresses a network may have
    AllocatedSets,  \* sets of addresses that may be taken
    Requests        \* addresses that may be asked for, NoRequest among them

Space == ByteSize * ByteSize * ByteSize

Divides(s, t) == \E k \in 1 .. t : t = k * s

\* All numbers of addresses are powers of two: networks cut the space of
\* addresses, and the last byte, evenly or in multiples.
ASSUME ScanAssumption ==
    /\ ByteSize \in Nat \ {0, 1}
    /\ Sizes \subseteq Nat \ {0}
    /\ \A s \in Sizes : Divides(s, Space) /\ (Divides(s, ByteSize) \/ Divides(ByteSize, s))
    /\ Requests \subseteq Request

VARIABLES
    cidr,           \* input: the parsed CIDR
    allocated,      \* input: addresses that are taken
    request,        \* input: address asked for, or NoRequest
    ip,             \* the byte array
    j,              \* index of inc's loop
    pc,             \* "start", "inc", "test" or "done"
    result          \* what FirstFreeHost returns

inputs == <<cidr, allocated, request>>
vars == <<inputs, ip, j, pc, result>>

Byte == 0 .. ByteSize - 1
Bytes == [1 .. 3 -> Byte]

Value(b) == (b[1] * ByteSize + b[2]) * ByteSize + b[3]

\* The addresses a with a.To4() # nil.
V4 == (ByteSize - 1) * ByteSize .. ByteSize * ByteSize - 1

\* net.ParseCIDR: the address as written and the masked network.
ParseCIDR(a, size, ok) ==
    LET lo == (a \div size) * size
    IN  [ok |-> ok, base |-> a, lo |-> lo, hi |-> lo + size - 1]

\* net.IPNet.Contains: an address of the other family is never contained.
IpnetContains(a) == (a \in V4) = (cidr.lo \in V4) /\ Contains(cidr, a)

Init ==
    /\ ip \in Bytes
    /\ \E size \in Sizes, ok \in BOOLEAN : cidr = ParseCIDR(Value(ip), size, ok)
    /\ allocated \in AllocatedSets
    /\ request \in Requests
    /\ j = 3
    /\ pc = "start"
    /\ result = Failed("none")

Return(r) == pc' = "done" /\ result' = r /\ UNCHANGED <<inputs, ip, j>>

\* Lines 16 to 25, before the loop.
Start ==
    /\ pc = "start"
    /\ \/ ~cidr.ok /\ Return(Failed("ParseError"))
       \/ cidr.ok /\ request # NoRequest /\ request \notin allocated /\ Return(Picked(request))
       \/ cidr.ok /\ request # NoRequest /\ request \in allocated /\ Return(Failed("ErrDuplicateIPRequest"))
       \/ cidr.ok /\ request = NoRequest /\ pc' = "inc" /\ UNCHANGED <<inputs, ip, j, result>>

\* Mutant: only the last byte is counted up.
incWithoutCarry ==
    /\ pc = "inc"
    /\ ip' = [ip EXCEPT ![j] = (@ + 1) % ByteSize]
    /\ pc' = "test"
    /\ UNCHANGED <<inputs, j, result>>

\* inc: one turn of its loop over the bytes.
inc ==
    /\ pc = "inc"
    /\ ip' = [ip EXCEPT ![j] = (@ + 1) % ByteSize]
    /\ IF ip'[j] > 0 \/ j = 1 THEN pc' = "test" /\ j' = 3 ELSE pc' = pc /\ j' = j - 1
    /\ UNCHANGED <<inputs, result>>

\* The condition of the loop over the addresses, and its body.
Test ==
    /\ pc = "test"
    /\ \/ ~IpnetContains(Value(ip)) /\ Return(Failed("ErrAddressPoolExhausted"))
       \/ /\ IpnetContains(Value(ip)) /\ Value(ip) \in allocated
          /\ pc' = "inc"
          /\ UNCHANGED <<inputs, ip, j, result>>
       \/ IpnetContains(Value(ip)) /\ Value(ip) \notin allocated /\ Return(Picked(Value(ip)))

Next == Start \/ inc \/ Test

Spec == Init /\ [][Next]_vars

\* The loop is one goroutine's, nothing it waits for.
FairSpec == Spec /\ WF_vars(Next)

-------------------------------------------------------------------------------
\* An IPv6 CIDR around the whole block of IPv4 addresses in long form.  The
\* loop stops at that block, which FirstFreeHost of module Iputil does not say.
AroundV4 == cidr.lo \notin V4 /\ Contains(cidr, ByteSize * ByteSize - 1)

\* The loop returns what Iputil's definition says: the lowest free address
\* behind the one written in the CIDR, the requested one, or the right error.
ScanMatches ==
    pc = "done" /\ ~AroundV4 => result = FirstFreeHost(cidr, allocated, request)

\* The loop ends for every CIDR and every set of taken addresses: neither the
\* last address of a family nor a carry through all bytes makes it turn round.
ScanTerminates == <>(pc = "done")
===============================================================================
