--------------------------- MODULE IputilScanProofs ---------------------------
(***************************************************************************)
(* The loop of FirstFreeHost computes what module Iputil says, for every   *)
(* size of a byte, every network, every set of taken addresses and every   *)
(* request.                                                                *)
(***************************************************************************)
EXTENDS IputilScan, TLAPS

(* Numbers *)

\* Multiples of s are s apart.
LEMMA Apart ==
    ASSUME NEW s \in Nat, NEW m \in Nat, NEW n \in Nat, m < n
    PROVE  m * s + s <= n * s
OBVIOUS

\* Two blocks of addresses of which one size divides the other are nested or
\* apart.
LEMMA Nested ==
    ASSUME NEW s \in Nat \ {0}, NEW t \in Nat \ {0}, Divides(s, t),
           NEW m \in Nat, NEW n \in Nat
    PROVE  \/ m * s + s <= n * t
           \/ n * t + t <= m * s
           \/ n * t <= m * s /\ m * s + s <= n * t + t
<1>1. PICK k \in 1 .. t : t = k * s
  BY DEF Divides
<1>2. n * k \in Nat /\ n * k + k \in Nat /\ n * t = (n * k) * s /\ n * t + t = (n * k + k) * s
  BY <1>1
<1> DEFINE first == n * k
           end == n * k + k
<1>3. first \in Nat /\ end \in Nat /\ n * t = first * s /\ n * t + t = end * s
  BY <1>2
<1> HIDE DEF first, end
<1>4. CASE m < first
  BY <1>3, <1>4, Apart
<1>5. CASE end <= m
  <2>1. end = m \/ end * s + s <= m * s
    BY <1>3, <1>5, Apart
  <2> QED
    BY <1>3, <2>1
<1>6. CASE first <= m /\ m < end
  <2>1. m * s + s <= end * s
    BY <1>3, <1>6, Apart
  <2>2. first = m \/ first * s + s <= m * s
    BY <1>3, <1>6, Apart
  <2> QED
    BY <1>3, <2>1, <2>2
<1> QED
  BY <1>3, <1>4, <1>5, <1>6

\* A byte counted up wraps round to zero and to nothing else.
LEMMA CountUp ==
    ASSUME NEW x \in Byte
    PROVE  \/ x + 1 < ByteSize /\ (x + 1) % ByteSize = x + 1
           \/ x + 1 = ByteSize /\ (x + 1) % ByteSize = 0
BY ScanAssumption DEF Byte

\* The products that bound the space of addresses.
LEMMA Bounds ==
    /\ Space \in Nat /\ ByteSize * ByteSize \in Nat
    /\ 0 < (ByteSize - 1) * ByteSize
    /\ (ByteSize - 1) * ByteSize + ByteSize = ByteSize * ByteSize
    /\ ByteSize * ByteSize <= Space
<1>1. ByteSize \in Nat /\ ByteSize > 1
  BY ScanAssumption
<1>2. ByteSize * ByteSize \in Nat /\ Space \in Nat
  BY <1>1 DEF Space
<1>3. 0 < (ByteSize - 1) * ByteSize
  BY <1>1
<1>4. 1 * (ByteSize * ByteSize) + ByteSize * ByteSize <= ByteSize * (ByteSize * ByteSize)
  BY <1>1, <1>2, Apart
<1> QED
  BY <1>1, <1>2, <1>3, <1>4 DEF Space

\* Every array of bytes is an address of the space.
LEMMA ValueInSpace ==
    ASSUME NEW b \in Bytes
    PROVE  Value(b) \in 0 .. Space - 1
<1> DEFINE x == b[1]
           y == b[2]
           z == b[3]
<1>1. ByteSize \in Nat /\ x \in 0 .. ByteSize - 1 /\ y \in 0 .. ByteSize - 1 /\ z \in 0 .. ByteSize - 1
  BY ScanAssumption DEF Bytes, Byte
<1>2. Value(b) = (x * ByteSize + y) * ByteSize + z
  BY DEF Value
<1> HIDE DEF x, y, z
<1>3. x * ByteSize \in Nat /\ x * ByteSize + ByteSize <= ByteSize * ByteSize
  BY <1>1, Apart
<1> DEFINE u == x * ByteSize + y
<1>4. u \in Nat /\ u < ByteSize * ByteSize /\ ByteSize * ByteSize \in Nat
  BY <1>1, <1>3
<1> HIDE DEF u
<1>5. u * ByteSize + ByteSize <= (ByteSize * ByteSize) * ByteSize /\ u * ByteSize \in Nat
  BY <1>1, <1>4, Apart
<1>6. (ByteSize * ByteSize) * ByteSize = Space
  BY DEF Space
<1> QED
  BY <1>1, <1>2, <1>5, <1>6, Bounds DEF u

-------------------------------------------------------------------------------
(* Networks *)

\* The mask makes a block of the space that holds the address as written.
LEMMA Mask ==
    ASSUME NEW a \in 0 .. Space - 1, NEW size \in Sizes
    PROVE  \E m \in Nat : /\ m * size = (a \div size) * size
                         /\ m * size <= a /\ a < m * size + size
                         /\ m * size + size <= Space
<1> DEFINE m == a \div size
<1>1. size \in Nat /\ size # 0 /\ a \in Nat /\ a < Space /\ Divides(size, Space)
  BY ScanAssumption, Bounds
<1>2. m \in Int /\ m * size <= a
  BY <1>1
<1>3. a < m * size + size
  BY <1>1
<1> HIDE DEF m
<1>4. m \in Nat
  BY <1>1, <1>2, <1>3
<1>5. PICK k \in 1 .. Space : Space = k * size
  BY <1>1 DEF Divides
<1>6. m < k
  <2>1. SUFFICES ASSUME k <= m PROVE FALSE
    BY <1>4, <1>5, Bounds
  <2>2. k = m \/ k * size + size <= m * size
    BY <1>1, <1>4, <1>5, <2>1, Bounds, Apart
  <2> QED
    BY <1>1, <1>2, <1>4, <1>5, <2>2, Bounds
<1>7. m * size + size <= Space
  BY <1>1, <1>4, <1>5, <1>6, Bounds, Apart
<1> QED
  BY <1>2, <1>3, <1>4, <1>7 DEF m

\* A network of a multiple of the last byte's addresses that begins with the
\* IPv4 addresses has no others.
LEMMA V4First ==
    ASSUME NEW size \in Sizes, NEW m \in Nat, Divides(ByteSize, size),
           m * size = (ByteSize - 1) * ByteSize
    PROVE  size = ByteSize
<1>1. ByteSize \in Nat /\ ByteSize > 1 /\ size \in Nat /\ size # 0
  BY ScanAssumption
<1>2. PICK k \in 1 .. size : size = k * ByteSize
  BY DEF Divides
<1>3. PICK n \in 1 .. Space : Space = n * size
  BY ScanAssumption DEF Divides
<1>4. k \in Nat /\ n \in Nat
  BY <1>1, <1>2, <1>3, Bounds
<1>5. (m * k) * ByteSize = (ByteSize - 1) * ByteSize
  BY <1>1, <1>2, <1>4
<1>6. m * k = ByteSize - 1
  BY <1>1, <1>4, <1>5
<1>7. (n * k) * ByteSize = (ByteSize * ByteSize) * ByteSize
  BY <1>1, <1>2, <1>3, <1>4 DEF Space
<1>8. n * k = ByteSize * ByteSize
  BY <1>1, <1>4, <1>7
<1>9. k * (n - m * (ByteSize + 1)) = 1
  BY <1>1, <1>4, <1>6, <1>8
<1> DEFINE x == n - m * (ByteSize + 1)
<1>10. k = 1
  <2>1. x \in Int /\ k * x = 1
    BY <1>1, <1>4, <1>9
  <2> HIDE DEF x
  <2>2. x \in Nat /\ x # 0
    BY <1>4, <2>1
  <2>3. SUFFICES ASSUME 1 < k PROVE FALSE
    BY <1>2, <1>4
  <2>4. 1 * x + x <= k * x
    BY <1>4, <2>2, <2>3, Apart
  <2> QED
    BY <2>1, <2>2, <2>4
<1> QED
  BY <1>1, <1>2, <1>10

\* What the loop relies on in a network: the addresses of a network that is not
\* around the IPv4 block are of one family, and are not the whole space.
OneFamily(lo, hi) ==
    \/ lo \notin V4 /\ ByteSize * ByteSize - 1 \in lo .. hi
    \/ /\ \A a \in lo .. hi : a \in V4 <=> lo \in V4
       /\ lo # 0 \/ hi # Space - 1

LEMMA NetworkOneFamily ==
    ASSUME NEW size \in Sizes, NEW m \in Nat, m * size + size <= Space
    PROVE  OneFamily(m * size, m * size + size - 1)
<1> DEFINE lo == m * size
           hi == m * size + size - 1
           ones == ByteSize - 1
           v4 == ones * ByteSize
<1>1. ByteSize \in Nat /\ ByteSize > 1 /\ size \in Nat /\ size # 0
  BY ScanAssumption
<1>2. /\ lo \in Nat /\ hi = lo + size - 1 /\ hi <= Space - 1
  BY <1>1, Bounds
<1>3. v4 \in Nat /\ 0 < v4 /\ v4 + ByteSize = ByteSize * ByteSize /\ ByteSize * ByteSize <= Space
  BY <1>1, Bounds
<1>4. ones \in Nat
  BY <1>1
<1> DEFINE last == ByteSize * ByteSize - 1
<1>5. last = v4 + ByteSize - 1 /\ last <= Space - 1 /\ Space \in Nat /\ V4 = v4 .. last
  BY <1>1, <1>3, Bounds DEF V4
<1> SUFFICES \/ lo \notin V4 /\ last \in lo .. hi
             \/ (\A a \in lo .. hi : a \in V4 <=> lo \in V4) /\ (lo # 0 \/ hi # Space - 1)
  BY DEF OneFamily
<1>6. lo = v4 /\ Divides(ByteSize, size) => size = ByteSize
  BY V4First
<1> HIDE DEF ones
<1>7. CASE Divides(size, ByteSize)
  <2>1. \/ lo + size <= v4
        \/ v4 + ByteSize <= lo
        \/ v4 <= lo /\ lo + size <= v4 + ByteSize
    BY <1>4, <1>7, ScanAssumption, Nested, Zenon
  <2> HIDE DEF last, lo, hi, v4
  <2> QED
    BY <1>1, <1>2, <1>3, <1>5, <2>1
<1>8. CASE Divides(ByteSize, size)
  <2>1. \/ v4 + ByteSize <= lo
        \/ lo + size <= v4
        \/ lo <= v4 /\ v4 + ByteSize <= lo + size
    BY <1>4, <1>8, ScanAssumption, Nested, Zenon
  <2> HIDE DEF last, lo, hi, v4
  <2> QED
    BY <1>1, <1>2, <1>3, <1>5, <1>6, <1>8, <2>1
<1> QED
  BY <1>7, <1>8, ScanAssumption

-------------------------------------------------------------------------------
(* The loop *)

InputsOK ==
    /\ cidr \in Cidr
    /\ cidr.base \in cidr.lo .. cidr.hi
    /\ cidr.hi < Space
    /\ OneFamily(cidr.lo, cidr.hi)
    /\ request \in Request

TypeOK ==
    /\ ip \in Bytes
    /\ j \in 1 .. 3
    /\ pc \in {"start", "inc", "test", "done"}

\* What adding one to the byte at k adds to the address.
Weight(k) == IF k = 3 THEN 1 ELSE IF k = 2 THEN ByteSize ELSE ByteSize * ByteSize

\* The loop is done with the addresses up to this one: they are in the network,
\* and all are taken.
Behind(w) == w \in cidr.base .. cidr.hi /\ cidr.base + 1 .. w \subseteq allocated

\* The carry of inc has left zeros behind; with it, the array is one more than
\* the address the loop was at.
CarryOK ==
    pc = "inc" => /\ \A k \in 1 .. 3 : k > j => ip[k] = 0
                  /\ ~AroundV4 => Behind(Value(ip) + Weight(j) - 1)

\* The address under test is the next one, or zero behind the last of all.
NextOK ==
    pc = "test" /\ ~AroundV4 =>
        IF Value(ip) = 0 THEN Behind(Space - 1) ELSE Behind(Value(ip) - 1)

ControlOK ==
    /\ pc = "start" => j = 3 /\ Value(ip) = cidr.base
    /\ pc \in {"inc", "test"} => cidr.ok /\ request = NoRequest
    /\ pc = "test" => j = 3

ScanInv == InputsOK /\ TypeOK /\ ControlOK /\ CarryOK /\ NextOK /\ ScanMatches

\* A network that is not around the IPv4 block contains the addresses between
\* its first and its last one, and no others.
LEMMA ContainsRange ==
    ASSUME InputsOK, ~AroundV4, NEW a \in 0 .. Space - 1
    PROVE  IpnetContains(a) <=> a \in cidr.lo .. cidr.hi
BY DEF InputsOK, AroundV4, OneFamily, IpnetContains, Contains

LEMMA InitInv == ASSUME Init PROVE ScanInv
<1>1. ip \in Bytes /\ j = 3 /\ pc = "start"
  BY DEF Init
<1>2. PICK size \in Sizes, ok \in BOOLEAN : cidr = ParseCIDR(Value(ip), size, ok)
  BY DEF Init
<1>3. Value(ip) \in 0 .. Space - 1
  BY <1>1, ValueInSpace
<1>4. PICK m \in Nat : /\ m * size = (Value(ip) \div size) * size
                       /\ m * size <= Value(ip) /\ Value(ip) < m * size + size
                       /\ m * size + size <= Space
  BY <1>3, Mask
<1>5. OneFamily(m * size, m * size + size - 1)
  BY <1>4, NetworkOneFamily
<1> DEFINE lo == m * size
<1>6. /\ lo \in Nat /\ lo <= Value(ip) /\ Value(ip) < lo + size /\ lo + size <= Space
      /\ size \in Nat /\ size # 0
  BY <1>4, ScanAssumption
<1>7. cidr = [ok |-> ok, base |-> Value(ip), lo |-> lo, hi |-> lo + size - 1]
  BY <1>2, <1>4 DEF ParseCIDR
<1> HIDE DEF lo
<1>8. InputsOK
  <2>1. request \in Request
    BY ScanAssumption DEF Init
  <2>2. OneFamily(cidr.lo, cidr.hi)
    BY <1>5, <1>7 DEF lo
  <2>3. cidr \in Cidr
    BY <1>3, <1>6, <1>7, Bounds DEF Cidr, Address
  <2> QED
    BY <1>3, <1>6, <1>7, <2>1, <2>2, <2>3, Bounds DEF InputsOK
<1>9. ControlOK
  BY <1>1, <1>7 DEF ControlOK
<1> QED
  BY <1>1, <1>8, <1>9 DEF ScanInv, TypeOK, CarryOK, NextOK, ScanMatches

\* The steps leave the inputs alone.
LEMMA SameInputs ==
    ASSUME Next \/ UNCHANGED vars
    PROVE  inputs' = inputs
BY DEF Next, Start, inc, Test, Return, vars

LEMMA InputsStay ==
    ASSUME InputsOK, inputs' = inputs
    PROVE  /\ InputsOK'
           /\ AroundV4' <=> AroundV4
           /\ \A w : Behind(w)' <=> Behind(w)
BY DEF InputsOK, inputs, AroundV4, Contains, Behind

LEMMA StartInv == ASSUME ScanInv, Start PROVE ScanInv'
<1>1. InputsOK /\ TypeOK /\ ControlOK /\ pc = "start" /\ inputs' = inputs
  BY SameInputs DEF ScanInv, Start, Next
<1>2. InputsOK' /\ (AroundV4' <=> AroundV4) /\ \A w : Behind(w)' <=> Behind(w)
  BY <1>1, InputsStay
<1>3. CASE ~cidr.ok /\ Return(Failed("ParseError"))
  <2>1. result' = FirstFreeHost(cidr, allocated, request)'
    BY <1>3 DEF FirstFreeHost, Return, inputs
  <2> QED
    BY <1>1, <1>2, <1>3, <2>1
    DEF ScanInv, TypeOK, ControlOK, CarryOK, NextOK, ScanMatches, Return
<1>4. CASE cidr.ok /\ request # NoRequest /\ request \notin allocated /\ Return(Picked(request))
  <2>1. result' = FirstFreeHost(cidr, allocated, request)'
    BY <1>4 DEF FirstFreeHost, Return, inputs
  <2> QED
    BY <1>1, <1>2, <1>4, <2>1
    DEF ScanInv, TypeOK, ControlOK, CarryOK, NextOK, ScanMatches, Return
<1>5. CASE /\ cidr.ok /\ request # NoRequest /\ request \in allocated
           /\ Return(Failed("ErrDuplicateIPRequest"))
  <2>1. result' = FirstFreeHost(cidr, allocated, request)'
    BY <1>5 DEF FirstFreeHost, Return, inputs
  <2> QED
    BY <1>1, <1>2, <1>5, <2>1
    DEF ScanInv, TypeOK, ControlOK, CarryOK, NextOK, ScanMatches, Return
<1>6. CASE cidr.ok /\ request = NoRequest /\ pc' = "inc" /\ UNCHANGED <<inputs, ip, j, result>>
  <2>1. j = 3 /\ Value(ip) = cidr.base /\ ip' = ip /\ j' = 3
    BY <1>1, <1>6 DEF ControlOK
  <2>2. Behind(cidr.base)
    BY <1>1 DEF Behind, InputsOK, Cidr, Address
  <2>3. Value(ip)' = cidr.base /\ Weight(j)' = 1 /\ cidr.base + 1 - 1 = cidr.base
    BY <1>1, <2>1 DEF Value, Weight, InputsOK, Cidr, Address
  <2>4. CarryOK'
    BY <1>2, <2>1, <2>2, <2>3 DEF CarryOK
  <2> QED
    BY <1>1, <1>2, <1>6, <2>1, <2>4
    DEF ScanInv, TypeOK, ControlOK, NextOK, ScanMatches, inputs
<1> QED
  BY <1>3, <1>4, <1>5, <1>6 DEF Start

\* An address as the sum of what its bytes weigh.
LEMMA ValueSum ==
    ASSUME NEW b \in Bytes
    PROVE  Value(b) = b[1] * (ByteSize * ByteSize) + b[2] * ByteSize + b[3]
<1> DEFINE x == b[1]
           y == b[2]
           z == b[3]
<1>1. ByteSize \in Nat /\ x \in Nat /\ y \in Nat /\ z \in Nat
  BY ScanAssumption DEF Bytes, Byte
<1> HIDE DEF x, y, z
<1>2. (x * ByteSize + y) * ByteSize + z = x * (ByteSize * ByteSize) + y * ByteSize + z
  BY <1>1
<1> QED
  BY <1>2 DEF Value, x, y, z

\* A turn of inc's loop counts the address up, carries, or falls back to zero
\* from the last address.
LEMMA IncTurn ==
    ASSUME NEW k \in 1 .. 3, NEW b \in Bytes, NEW c, c = [b EXCEPT ![k] = (b[k] + 1) % ByteSize],
           \A i \in 1 .. 3 : i > k => b[i] = 0
    PROVE  /\ c \in Bytes
           /\ \/ c[k] > 0 /\ Value(c) = Value(b) + Weight(k)
              \/ c[k] = 0 /\ k = 1 /\ Value(c) = 0 /\ Value(b) + Weight(k) = Space
              \/ /\ c[k] = 0 /\ k # 1 /\ \A i \in 1 .. 3 : i >= k => c[i] = 0
                 /\ Value(c) + Weight(k - 1) = Value(b) + Weight(k)
<1> DEFINE x == b[1]
           y == b[2]
           z == b[3]
           n == (b[k] + 1) % ByteSize
<1>1. ByteSize \in Nat /\ ByteSize > 1 /\ x \in Byte /\ y \in Byte /\ z \in Byte /\ b[k] \in Byte
  BY ScanAssumption DEF Bytes
<1>2. \/ b[k] + 1 < ByteSize /\ n = b[k] + 1
      \/ b[k] + 1 = ByteSize /\ n = 0
  BY <1>1, CountUp
<1>3. n \in Byte
  BY <1>1, <1>2 DEF Byte
<1>4. c \in Bytes /\ c[k] = n /\ \A i \in 1 .. 3 : i # k => c[i] = b[i]
  BY <1>3 DEF Bytes
<1>5. Value(b) = x * (ByteSize * ByteSize) + y * ByteSize + z
  BY ValueSum
<1> HIDE DEF n
<1>6. CASE k = 3
  <2>1. c[1] = x /\ c[2] = y /\ c[3] = n /\ b[k] = z /\ Weight(k) = 1 /\ Weight(k - 1) = ByteSize
    BY <1>4, <1>6 DEF Weight
  <2> HIDE DEF x, y, z
  <2>2. Value(c) = x * (ByteSize * ByteSize) + y * ByteSize + n
    BY <1>4, <2>1, ValueSum
  <2> QED
    BY <1>1, <1>2, <1>4, <1>5, <1>6, <2>1, <2>2 DEF Byte
<1>7. CASE k = 2
  <2>1. /\ c[1] = x /\ c[2] = n /\ c[3] = 0 /\ z = 0 /\ b[k] = y
        /\ Weight(k) = ByteSize /\ Weight(k - 1) = ByteSize * ByteSize
    BY <1>4, <1>7 DEF Weight
  <2> HIDE DEF x, y, z
  <2>2. Value(c) = x * (ByteSize * ByteSize) + n * ByteSize + 0
    BY <1>4, <2>1, ValueSum
  <2>3. CASE n = y + 1 /\ y + 1 < ByteSize
    BY <1>1, <1>4, <1>5, <1>7, <2>1, <2>2, <2>3 DEF Byte
  <2>4. CASE y = ByteSize - 1 /\ n = 0
    BY <1>1, <1>4, <1>5, <1>7, <2>1, <2>2, <2>4 DEF Byte
  <2> QED
    BY <1>1, <1>2, <2>1, <2>3, <2>4 DEF Byte
<1>8. CASE k = 1
  <2>1. /\ c[1] = n /\ c[2] = 0 /\ c[3] = 0 /\ y = 0 /\ z = 0 /\ b[k] = x
        /\ Weight(k) = ByteSize * ByteSize
    BY <1>4, <1>8 DEF Weight
  <2> HIDE DEF x, y, z
  <2>2. Value(c) = n * (ByteSize * ByteSize) + 0 * ByteSize + 0
    BY <1>4, <2>1, ValueSum
  <2>3. CASE n = x + 1 /\ x + 1 < ByteSize
    BY <1>1, <1>4, <1>5, <1>8, <2>1, <2>2, <2>3 DEF Byte
  <2>4. CASE x = ByteSize - 1 /\ n = 0
    BY <1>1, <1>4, <1>5, <1>8, <2>1, <2>2, <2>4 DEF Byte, Space
  <2> QED
    BY <1>1, <1>2, <2>1, <2>3, <2>4 DEF Byte
<1> QED
  BY <1>6, <1>7, <1>8

LEMMA IncInv == ASSUME ScanInv, inc PROVE ScanInv'
<1>1. /\ InputsOK /\ TypeOK /\ ControlOK /\ CarryOK /\ pc = "inc" /\ inputs' = inputs
      /\ ip' = [ip EXCEPT ![j] = (ip[j] + 1) % ByteSize]
      /\ \A i \in 1 .. 3 : i > j => ip[i] = 0
      /\ ~AroundV4 => Behind(Value(ip) + Weight(j) - 1)
  BY SameInputs DEF ScanInv, inc, Next, CarryOK
<1>2. InputsOK' /\ (AroundV4' <=> AroundV4) /\ \A w : Behind(w)' <=> Behind(w)
  BY <1>1, InputsStay
<1>3. /\ ip' \in Bytes
      /\ \/ ip'[j] > 0 /\ Value(ip') = Value(ip) + Weight(j)
         \/ ip'[j] = 0 /\ j = 1 /\ Value(ip') = 0 /\ Value(ip) + Weight(j) = Space
         \/ /\ ip'[j] = 0 /\ j # 1 /\ \A i \in 1 .. 3 : i >= j => ip'[i] = 0
            /\ Value(ip') + Weight(j - 1) = Value(ip) + Weight(j)
  BY <1>1, IncTurn DEF TypeOK
<1>4. Value(ip) \in Nat /\ Value(ip') \in Nat /\ Weight(j) \in Nat \ {0} /\ j \in 1 .. 3
  BY <1>1, <1>3, ValueInSpace, Bounds, ScanAssumption DEF TypeOK, Weight
<1>5. cidr'.ok /\ request' = NoRequest
  BY <1>1 DEF ControlOK, inputs
<1>6. CASE ip'[j] > 0 \/ j = 1
  <2>1. pc' = "test" /\ j' = 3
    BY <1>6 DEF inc
  <2>2. ~AroundV4 => IF Value(ip') = 0 THEN Behind(Space - 1) ELSE Behind(Value(ip') - 1)
    BY <1>1, <1>3, <1>4, <1>6
  <2>3. NextOK'
    BY <1>2, <2>2 DEF NextOK, Value
  <2> QED
    BY <1>2, <1>3, <1>5, <2>1, <2>3
    DEF ScanInv, TypeOK, ControlOK, CarryOK, ScanMatches
<1>7. CASE ip'[j] = 0 /\ j # 1
  <2>1. pc' = "inc" /\ j' = j - 1
    BY <1>1, <1>7 DEF inc
  <2>2. Weight(j - 1) \in Nat /\ Value(ip') + Weight(j - 1) = Value(ip) + Weight(j)
    BY <1>3, <1>4, <1>7, Bounds, ScanAssumption DEF Weight
  <2>3. ~AroundV4 => Behind(Value(ip') + Weight(j - 1) - 1)
    BY <1>1, <1>4, <2>2
  <2>4. CarryOK'
    BY <1>2, <1>3, <1>4, <1>7, <2>1, <2>3 DEF CarryOK, Value, Weight
  <2> QED
    BY <1>2, <1>3, <1>4, <1>5, <1>7, <2>1, <2>4
    DEF ScanInv, TypeOK, ControlOK, NextOK, ScanMatches
<1> QED
  BY <1>3, <1>4, <1>6, <1>7

\* Where the loop tests an address of the network it did not turn round: the
\* address is the one behind those it is done with.
LEMMA TestedIsNext ==
    ASSUME ScanInv, pc = "test", ~AroundV4
    PROVE  \/ /\ IpnetContains(Value(ip))
              /\ Value(ip) \in cidr.base + 1 .. cidr.hi
              /\ cidr.base + 1 .. Value(ip) - 1 \subseteq allocated
           \/ /\ ~IpnetContains(Value(ip))
              /\ cidr.base + 1 .. cidr.hi \subseteq allocated
<1> DEFINE v == Value(ip)
<1>1. InputsOK /\ v \in 0 .. Space - 1
  BY ValueInSpace DEF ScanInv, TypeOK
<1>2. IF v = 0 THEN Behind(Space - 1) ELSE Behind(v - 1)
  BY DEF ScanInv, NextOK
<1>3. IpnetContains(v) <=> v \in cidr.lo .. cidr.hi
  BY <1>1, ContainsRange
<1>4. /\ cidr.lo \in Nat /\ cidr.hi \in Nat /\ cidr.base \in Nat /\ Space \in Nat
      /\ cidr.base \in cidr.lo .. cidr.hi /\ cidr.hi < Space
  BY <1>1, Bounds DEF InputsOK, Cidr, Address
<1>5. cidr.lo # 0 \/ cidr.hi # Space - 1
  BY <1>1 DEF InputsOK, OneFamily, AroundV4, Contains
<1> HIDE DEF v
<1>6. CASE v = 0
  BY <1>1, <1>2, <1>3, <1>4, <1>5, <1>6 DEF Behind, v
<1>7. CASE v # 0
  BY <1>1, <1>2, <1>3, <1>4, <1>7 DEF Behind, v
<1> QED
  BY <1>6, <1>7

LEMMA TestInv == ASSUME ScanInv, Test PROVE ScanInv'
<1> DEFINE v == Value(ip)
<1>1. /\ InputsOK /\ TypeOK /\ ControlOK /\ pc = "test" /\ inputs' = inputs
      /\ j = 3 /\ cidr.ok /\ request = NoRequest
  BY SameInputs DEF ScanInv, Test, Next, ControlOK
<1>2. InputsOK' /\ (AroundV4' <=> AroundV4) /\ \A w : Behind(w)' <=> Behind(w)
  BY <1>1, InputsStay
<1>3. cidr.base \in Nat /\ cidr.hi \in Nat /\ cidr.lo \in Nat /\ cidr.lo <= cidr.base /\ v \in Nat
  BY <1>1, ValueInSpace, Bounds DEF InputsOK, Cidr, Address, TypeOK
<1> DEFINE free == Candidates(cidr) \ allocated
<1>4. free = (cidr.base + 1 .. cidr.hi) \ allocated
  BY <1>3 DEF Candidates, Contains
<1>5. /\ free = {} => FirstFreeHost(cidr, allocated, request) = Failed("ErrAddressPoolExhausted")
      /\ free # {} => FirstFreeHost(cidr, allocated, request) = Picked(Min(free))
  BY <1>1 DEF FirstFreeHost
<1> HIDE DEF free, v
<1>6. CASE ~IpnetContains(v) /\ Return(Failed("ErrAddressPoolExhausted"))
  <2>1. ~AroundV4 => free = {}
    BY <1>1, <1>4, <1>6, TestedIsNext DEF v
  <2>2. ScanMatches'
    BY <1>1, <1>2, <1>5, <1>6, <2>1 DEF ScanMatches, Return, inputs
  <2> QED
    BY <1>1, <1>2, <1>6, <2>2 DEF ScanInv, TypeOK, ControlOK, CarryOK, NextOK, Return
<1>7. CASE /\ IpnetContains(v) /\ v \in allocated /\ pc' = "inc"
           /\ UNCHANGED <<inputs, ip, j, result>>
  <2>1. ~AroundV4 => Behind(v)
    <3>1. SUFFICES ASSUME ~AroundV4 PROVE Behind(v)
      OBVIOUS
    <3>2. v \in cidr.base + 1 .. cidr.hi /\ cidr.base + 1 .. v - 1 \subseteq allocated
      BY <1>1, <1>7, <3>1, TestedIsNext DEF v
    <3> QED
      BY <1>3, <1>7, <3>2 DEF Behind
  <2>2. Value(ip)' = v /\ Weight(j)' = 1 /\ v + 1 - 1 = v /\ j' = 3
    BY <1>1, <1>3, <1>7 DEF v, Value, Weight
  <2>3. CarryOK'
    BY <1>2, <2>1, <2>2 DEF CarryOK
  <2> QED
    BY <1>1, <1>2, <1>7, <2>2, <2>3 DEF ScanInv, TypeOK, ControlOK, NextOK, ScanMatches, inputs
<1>8. CASE IpnetContains(v) /\ v \notin allocated /\ Return(Picked(v))
  <2>1. ~AroundV4 => free # {} /\ Min(free) = v
    <3>1. SUFFICES ASSUME ~AroundV4 PROVE free # {} /\ Min(free) = v
      OBVIOUS
    <3>2. v \in cidr.base + 1 .. cidr.hi /\ cidr.base + 1 .. v - 1 \subseteq allocated
      BY <1>1, <1>8, <3>1, TestedIsNext DEF v
    <3>3. v \in free /\ free \subseteq Nat /\ \A a \in free : v <= a
      BY <1>3, <1>4, <1>8, <3>2
    <3>4. \A m \in free : (\A a \in free : m <= a) => m = v
      BY <1>3, <3>3
    <3> QED
      BY <3>3, <3>4 DEF Min
  <2>2. ScanMatches'
    BY <1>1, <1>2, <1>5, <1>8, <2>1 DEF ScanMatches, Return, inputs
  <2> QED
    BY <1>1, <1>2, <1>8, <2>2 DEF ScanInv, TypeOK, ControlOK, CarryOK, NextOK, Return
<1> QED
  BY <1>6, <1>7, <1>8 DEF Test, v

LEMMA ScanInvHolds == Spec => []ScanInv
<1>1. Init => ScanInv
  BY InitInv
<1>2. ScanInv /\ [Next]_vars => ScanInv'
  <2>1. SUFFICES ASSUME ScanInv, [Next]_vars PROVE ScanInv'
    OBVIOUS
  <2>2. CASE UNCHANGED vars
    <3>1. InputsOK' /\ (AroundV4' <=> AroundV4) /\ \A w : Behind(w)' <=> Behind(w)
      BY <2>1, <2>2, InputsStay DEF ScanInv, vars
    <3> QED
      BY <2>1, <2>2, <3>1
      DEF ScanInv, TypeOK, ControlOK, CarryOK, NextOK, ScanMatches, Value, Weight, vars, inputs
  <2> QED
    BY <2>1, <2>2, StartInv, IncInv, TestInv DEF Next
<1> QED
  BY <1>1, <1>2, PTL DEF Spec

\* FirstFreeHost returns what module Iputil says, whatever the network (unless
\* it is an IPv6 network around all IPv4 addresses), whatever is taken and
\* whatever is requested: the loop neither misses a free address nor leaves the
\* network nor begins again at zero, for bytes of any size.
THEOREM ScanMatchesHolds == Spec => []ScanMatches
<1>1. ScanInv => ScanMatches
  BY DEF ScanInv
<1> QED
  BY <1>1, ScanInvHolds, PTL

-------------------------------------------------------------------------------
(* The end of the loop *)

\* The last address the loop is done with.
Reached ==
    CASE pc = "start" -> cidr.base
      [] pc = "inc" -> Value(ip) + Weight(j) - 1
      [] pc = "test" -> IF Value(ip) = 0 THEN Space - 1 ELSE Value(ip) - 1
      [] pc = "done" -> cidr.hi

\* A bound on the steps to come: at most three turns of inc and a test for each
\* address that is left.
Left ==
    5 * (cidr.hi - Reached)
    + CASE pc = "start" -> 5 [] pc = "inc" -> j + 1 [] pc = "test" -> 1 [] pc = "done" -> 0

\* Every step of the loop brings its end nearer.
CountsDown == [][~AroundV4 => Left \in Nat /\ Left' \in Nat /\ Left' < Left]_vars

LEMMA ReachedInNetwork ==
    ASSUME ScanInv, ~AroundV4
    PROVE  /\ Reached \in Nat /\ cidr.hi \in Nat /\ Reached <= cidr.hi
           /\ j \in 1 .. 3 /\ pc \in {"start", "inc", "test", "done"}
<1>1. /\ cidr.lo \in Nat /\ cidr.hi \in Nat /\ cidr.base \in cidr.lo .. cidr.hi
      /\ j \in 1 .. 3 /\ pc \in {"start", "inc", "test", "done"}
  BY DEF ScanInv, InputsOK, TypeOK, Cidr, Address
<1>2. CASE pc = "start"
  BY <1>1, <1>2 DEF Reached
<1>3. CASE pc = "inc"
  <2>1. Behind(Value(ip) + Weight(j) - 1)
    BY <1>3 DEF ScanInv, CarryOK
  <2> QED
    BY <1>1, <1>3, <2>1 DEF Reached, Behind
<1>4. CASE pc = "test"
  <2>1. IF Value(ip) = 0 THEN Behind(Space - 1) ELSE Behind(Value(ip) - 1)
    BY <1>4 DEF ScanInv, NextOK
  <2> QED
    BY <1>1, <1>4, <2>1 DEF Reached, Behind
<1>5. CASE pc = "done"
  BY <1>1, <1>5 DEF Reached
<1> QED
  BY <1>1, <1>2, <1>3, <1>4, <1>5

\* How much is left at each place of the loop.
LeftOK ==
    ~AroundV4 =>
        /\ Reached \in Nat /\ cidr.hi \in Nat /\ Reached <= cidr.hi /\ j \in 1 .. 3 /\ Left \in Nat
        /\ pc = "start" => Left = 5 * (cidr.hi - Reached) + 5
        /\ pc = "inc" => Left = 5 * (cidr.hi - Reached) + (j + 1)
        /\ pc = "test" => Left = 5 * (cidr.hi - Reached) + 1
        /\ pc = "done" => Left = 0

LEMMA LeftAt == ScanInv => LeftOK
<1> SUFFICES ASSUME ScanInv, ~AroundV4
             PROVE  LeftOK
  BY DEF LeftOK
<1>1. /\ Reached \in Nat /\ cidr.hi \in Nat /\ Reached <= cidr.hi
      /\ j \in 1 .. 3 /\ pc \in {"start", "inc", "test", "done"}
  BY ReachedInNetwork
<1>2. CASE pc = "start"
  <2>1. Left = 5 * (cidr.hi - Reached) + 5
    BY <1>2 DEF Left
  <2> QED
    BY <1>1, <1>2, <2>1 DEF LeftOK
<1>3. CASE pc = "inc"
  <2>1. Left = 5 * (cidr.hi - Reached) + (j + 1)
    BY <1>3 DEF Left
  <2> QED
    BY <1>1, <1>3, <2>1 DEF LeftOK
<1>4. CASE pc = "test"
  <2>1. Left = 5 * (cidr.hi - Reached) + 1
    BY <1>4 DEF Left
  <2> QED
    BY <1>1, <1>4, <2>1 DEF LeftOK
<1>5. CASE pc = "done"
  <2>1. Left = 5 * (cidr.hi - Reached) + 0 /\ Reached = cidr.hi
    BY <1>5 DEF Left, Reached
  <2>2. Left = 0
    BY <1>1, <2>1
  <2> QED
    BY <1>1, <1>5, <2>2 DEF LeftOK
<1> QED
  BY <1>1, <1>2, <1>3, <1>4, <1>5

\* What is left of the loop becomes less with every step.
LEMMA StepCountsDown ==
    ASSUME ScanInv, LeftOK, LeftOK', Next, ~AroundV4
    PROVE  Left \in Nat /\ Left' \in Nat /\ Left' < Left
<1>1. inputs' = inputs /\ ~AroundV4'
  BY SameInputs, InputsStay DEF ScanInv
<1>2. cidr' = cidr
  BY <1>1 DEF inputs
<1> DEFINE r == Reached
           s == Reached'
           hi == cidr.hi
<1>3. r \in Nat /\ s \in Nat /\ hi \in Nat /\ r <= hi /\ s <= hi /\ j \in 1 .. 3 /\ j' \in 1 .. 3
  BY <1>1, <1>2 DEF LeftOK
<1>4. /\ pc = "start" => Left = 5 * (hi - r) + 5
      /\ pc = "inc" => Left = 5 * (hi - r) + (j + 1)
      /\ pc = "test" => Left = 5 * (hi - r) + 1
      /\ Left \in Nat
  BY DEF LeftOK
<1>5. /\ pc' = "inc" => Left' = 5 * (hi - s) + (j' + 1)
      /\ pc' = "test" => Left' = 5 * (hi - s) + 1
      /\ pc' = "done" => Left' = 0
      /\ Left' \in Nat
  BY <1>1, <1>2 DEF LeftOK
<1>6. CASE Start
  <2>1. CASE pc' = "done"
    BY <1>3, <1>4, <1>5, <1>6, <2>1 DEF Start
  <2>2. CASE pc' = "inc"
    <3>1. pc = "start" /\ j = 3 /\ j' = j /\ ip' = ip /\ Value(ip) = cidr.base
      BY <1>6, <2>2 DEF Start, Return, ScanInv, ControlOK
    <3>2. r = cidr.base
      BY <3>1 DEF Reached
    <3>3. s = cidr.base + 1 - 1
      BY <2>2, <3>1 DEF Reached, Weight, Value
    <3>4. r = s
      BY <1>3, <3>2, <3>3
    <3> QED
      BY <1>3, <1>4, <1>5, <2>2, <3>1, <3>4
  <2> QED
    BY <1>6, <2>1, <2>2 DEF Start, Return
<1>7. CASE inc
  <2>1. /\ pc = "inc" /\ ip \in Bytes /\ ip' = [ip EXCEPT ![j] = (ip[j] + 1) % ByteSize]
        /\ \A i \in 1 .. 3 : i > j => ip[i] = 0
    BY <1>7 DEF inc, ScanInv, CarryOK, TypeOK
  <2>2. /\ ip' \in Bytes
        /\ \/ ip'[j] > 0 /\ Value(ip') = Value(ip) + Weight(j)
           \/ ip'[j] = 0 /\ j = 1 /\ Value(ip') = 0 /\ Value(ip) + Weight(j) = Space
           \/ /\ ip'[j] = 0 /\ j # 1
              /\ Value(ip') + Weight(j - 1) = Value(ip) + Weight(j)
    BY <1>3, <2>1, IncTurn
  <2>3. r = Value(ip) + Weight(j) - 1
    BY <2>1 DEF Reached
  <2>4. /\ Value(ip) \in Nat /\ Value(ip') \in Nat /\ Weight(j) \in Nat \ {0}
    BY <1>3, <2>1, <2>2, ValueInSpace, Bounds, ScanAssumption DEF Weight
  <2>5. CASE pc' = "test"
    <3>1. s = IF Value(ip') = 0 THEN Space - 1 ELSE Value(ip') - 1
      BY <2>5 DEF Reached, Value
    <3>2. ip'[j] > 0 \/ j = 1
      BY <1>7, <2>1, <2>5 DEF inc
    <3>3. r = s
      BY <2>2, <2>3, <2>4, <3>1, <3>2
    <3> QED
      BY <1>3, <1>4, <1>5, <2>1, <2>5, <3>3
  <2>6. CASE pc' = "inc"
    <3>1. j' = j - 1 /\ ~(ip'[j] > 0) /\ j # 1
      BY <1>7, <2>6 DEF inc
    <3>2. s = Value(ip') + Weight(j - 1) - 1
      BY <2>6, <3>1 DEF Reached, Value, Weight
    <3>3. Weight(j - 1) \in Nat
      BY <1>3, <3>1, Bounds, ScanAssumption DEF Weight
    <3>4. r = s
      BY <2>2, <2>3, <2>4, <3>1, <3>2, <3>3
    <3> QED
      BY <1>3, <1>4, <1>5, <2>1, <2>6, <3>1, <3>4
  <2> QED
    BY <1>7, <2>5, <2>6 DEF inc
<1>8. CASE Test
  <2>1. CASE pc' = "done"
    BY <1>3, <1>4, <1>5, <1>8, <2>1 DEF Test
  <2>2. CASE pc' = "inc"
    <3>1. pc = "test" /\ IpnetContains(Value(ip)) /\ ip' = ip /\ j' = j /\ j = 3
      BY <1>8, <2>2 DEF Test, Return, ScanInv, ControlOK
    <3>2. Value(ip) \in cidr.base + 1 .. cidr.hi /\ cidr.base \in Nat
      BY <3>1, TestedIsNext DEF ScanInv, InputsOK, Cidr, Address
    <3>3. r = Value(ip) - 1
      BY <3>1, <3>2 DEF Reached
    <3>4. s = Value(ip) + 1 - 1
      BY <2>2, <3>1 DEF Reached, Weight, Value
    <3>5. s = r + 1
      BY <1>3, <3>2, <3>3, <3>4
    <3> QED
      BY <1>3, <1>4, <1>5, <2>2, <3>1, <3>5
  <2> QED
    BY <1>8, <2>1, <2>2 DEF Test, Return
<1> QED
  BY <1>6, <1>7, <1>8 DEF Next

\* The loop ends, for bytes of any size and any network but one around all IPv4
\* addresses: each step lowers a number that cannot fall below zero.  With the
\* fairness of one goroutine this is ScanTerminates.
THEOREM CountsDownHolds == Spec => CountsDown
<1>1. ScanInv /\ LeftOK /\ LeftOK' /\ [Next]_vars
      => [~AroundV4 => Left \in Nat /\ Left' \in Nat /\ Left' < Left]_vars
  BY StepCountsDown
<1> QED
  BY <1>1, ScanInvHolds, LeftAt, PTL DEF Spec, CountsDown
===============================================================================
