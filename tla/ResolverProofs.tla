---------------------------- MODULE ResolverProofs ----------------------------
(***************************************************************************)
(* Theorems about module Resolver, for up to eight networks and any number *)
(* of services, addresses and concurrent requests, any objects the API     *)
(* server shows, anything the cluster's DNS answers, and any bounds.       *)
(***************************************************************************)
EXTENDS Resolver, FiniteSetTheorems, WellFoundedInduction, TLAPS

-------------------------------------------------------------------------------
(* The inductive invariant *)

\* The reconciler is giving network n a new entry.
Writes(n) == work # Idle /\ work.new # Absent /\ work.net = n

\* What a word of an entry built from an object is, and of one that is new.
WordOf(n, object, w) == IF object = Absent THEN Zero[w] ELSE Build(n, object)[w]

\* A key has one place, the networks with a place are those with an entry.
KeysOK ==
    /\ \A s, t \in Places : key[s] = key[t] /\ key[s] # Free => s = t
    /\ \A n \in Networks : source[n] = Absent <=> \A s \in Places : key[s] # n

\* The map is marked from the look for a place to its end, and the reconciler
\* knows the entry's place and the words the object asks for.
WorkOK ==
    /\ writing <=> work.pc = "marked"
    /\ work # Idle /\ work.new = Absent => work.place = 0 /\ work.left = {}
    /\ work # Idle /\ work.new # Absent =>
          /\ work.place \in Places
          /\ key[work.place] = work.net
          /\ source[work.net] # Absent
          /\ work.new = Build(work.net, source[work.net])

\* What a word of a place holds: zero if the place is free, else what its
\* object asks for, or the one before until the word is stored.
Word(s, w) ==
    IF key[s] = Free THEN Zero[w]
    ELSE IF work # Idle /\ work.new # Absent /\ work.place = s /\ w \in work.left
    THEN WordOf(key[s], work.old, w)
    ELSE WordOf(key[s], source[key[s]], w)

MemOK == \A s \in Places : \A w \in Words : mem[s][w] = Word(s, w)

\* What is not queued has been dealt with.
QueueOK ==
    mode = "running" => \A n \in Networks : n \notin queue => source[n] = informer[n]

\* A request has on record every object its network's entry comes from, so that
\* while the network stays it reads the entry's own place and copies words of
\* those objects.
ReaderOK(r) ==
    /\ reader[r].net \notin Networks => Absent \in reader[r].shown
    /\ reader[r].net \in Networks => source[reader[r].net] \in reader[r].shown
    /\ Writes(reader[r].net) => work.old \in reader[r].shown
    /\ reader[r].pc = "load" => reader[r].place \in Places
    /\ reader[r].pc = "resolve" => reader[r].left = {}
    /\ reader[r].pc # "answered" /\ Absent \notin reader[r].shown =>
          /\ reader[r].pc = "load" => key[reader[r].place] = reader[r].net
          /\ \A w \in Words \ reader[r].left : \E nw \in reader[r].shown :
                reader[r].cache[w] = Build(reader[r].net, nw)[w]

ReadersOK ==
    \A r \in Readers : reader[r] # Sleeping => mode = "running" /\ ReaderOK(r)

\* The invariant that every step preserves.
Inv ==
    /\ TypeOK /\ KeysOK /\ WorkOK /\ MemOK /\ QueueOK /\ ReadersOK
    /\ AnsweredFromNetwork /\ NoFalseDenial

-------------------------------------------------------------------------------
(* Operators *)

\* A non-empty set of numbers has a first one.
LEMMA FirstPlace ==
    ASSUME NEW S, S \subseteq Nat, S # {}
    PROVE  Min(S) \in S /\ \A y \in S : Min(S) <= y
<1> DEFINE Below == {p \in Nat \X Nat : p[1] < p[2]}
<1>1. IsWellFoundedOn(Below, Nat)
  BY NatLessThanWellFounded, Zenon DEF OpToRel
<1> HIDE DEF Below
<1>2. PICK x \in S : \A y \in S : ~(<<y, x>> \in Below)
  BY <1>1, WFMin
<1>3. ASSUME NEW y \in S PROVE x <= y
  <2>1. x \in Nat /\ y \in Nat
    OBVIOUS
  <2>2. y < x => <<y, x>> \in Below
    BY <2>1 DEF Below
  <2> QED
    BY <1>2, <2>1, <2>2
<1> QED
  BY <1>3 DEF Min

\* A non-empty set of positions has a last one.
LEMMA LastPosition ==
    ASSUME NEW m \in Nat, NEW S, S \subseteq 1 .. m, S # {}
    PROVE  Max(S) \in S /\ \A k \in S : k <= Max(S)
<1> DEFINE T == {m - k : k \in S}
<1>1. T \subseteq Nat /\ T # {}
  <2>1. \A k \in S : k \in Int /\ k <= m /\ m - k \in Nat
    OBVIOUS
  <2> QED
    BY <2>1
<1>2. Min(T) \in T /\ \A y \in T : Min(T) <= y
  BY <1>1, FirstPlace
<1>3. PICK x \in S : Min(T) = m - x
  BY <1>2
<1>4. ASSUME NEW y \in S PROVE x >= y
  <2>1. m - y \in T /\ x \in Int /\ y \in Int
    OBVIOUS
  <2>2. m - x <= m - y
    BY <1>2, <1>3, <2>1
  <2> QED
    BY <2>1, <2>2
<1>5. \E z \in S : \A y \in S : z >= y
  BY <1>4
<1>6. Max(S) \in S /\ \A y \in S : Max(S) >= y
  BY <1>5 DEF Max
<1> QED
  BY <1>6

\* The allocation at position k is the last one that Reconcile uses for i.
IsLast(nw, i, k) ==
    /\ k \in FourByte(nw) /\ nw.allocations[k].podIP = i
    /\ \A l \in FourByte(nw) : nw.allocations[l].podIP = i => l <= k

\* The address an entry gives a pod is that of the last allocation, if there is
\* one.
LEMMA TunnelIPFound ==
    ASSUME NEW nw \in Network, NEW i
    PROVE  \/ TunnelIP(nw, i) = NoIP /\ \A k \in FourByte(nw) : nw.allocations[k].podIP # i
           \/ \E k : IsLast(nw, i, k) /\ TunnelIP(nw, i) = nw.allocations[k].ip
<1> DEFINE found == {k \in FourByte(nw) : nw.allocations[k].podIP = i}
<1>1. TunnelIP(nw, i) = IF found = {} THEN NoIP ELSE nw.allocations[Max(found)].ip
  BY DEF TunnelIP
<1>2. Len(nw.allocations) \in Nat /\ found \subseteq 1 .. Len(nw.allocations)
  BY DEF Network, FourByte
<1>3. found # {} => Max(found) \in found /\ \A k \in found : k <= Max(found)
  <2> HIDE DEF found
  <2> QED
    BY <1>2, LastPosition
<1>4. CASE found = {}
  BY <1>1, <1>4
<1>5. CASE found # {}
  <2>1. IsLast(nw, i, Max(found))
    BY <1>3, <1>5 DEF IsLast
  <2> HIDE DEF found
  <2> QED
    BY <1>1, <1>5, <2>1
<1> QED
  BY <1>4, <1>5

\* The addresses an object gives are those of such allocations.
LEMMA AddressesFound ==
    ASSUME NEW nw \in Network, NEW found, NEW ip
    PROVE  ip \in Addresses(nw, found) <=>
               \E i \in found \cap V4 : \E k : IsLast(nw, i, k) /\ ip = nw.allocations[k].ip
<1>1. /\ DOMAIN nw.allocations \subseteq Int
      /\ \A k \in DOMAIN nw.allocations : nw.allocations[k] \in [podIP : PodIPs, ip : TunnelIPs]
  <2>1. nw.allocations \in Seq([podIP : PodIPs, ip : TunnelIPs])
    BY DEF Network
  <2>2. DOMAIN nw.allocations = 1 .. Len(nw.allocations) /\ Len(nw.allocations) \in Nat
    BY <2>1
  <2>3. DOMAIN nw.allocations \subseteq Int
    BY <2>2
  <2>4. \A k \in DOMAIN nw.allocations : nw.allocations[k] \in [podIP : PodIPs, ip : TunnelIPs]
    <3> DEFINE record == [podIP : PodIPs, ip : TunnelIPs]
               s == nw.allocations
    <3>1. s \in Seq(record)
      BY <2>1
    <3> HIDE DEF record, s
    <3>2. \A k \in DOMAIN s : s[k] \in record
      BY <3>1
    <3> QED
      BY <3>2 DEF record, s
  <2> QED
    BY <2>3, <2>4
<1>2. ASSUME ip \in Addresses(nw, found)
      PROVE  \E i \in found \cap V4 : \E k : IsLast(nw, i, k) /\ ip = nw.allocations[k].ip
  <2>1. PICK a \in [podIP : found \cap V4, ip : TunnelV4], k \in DOMAIN nw.allocations :
           /\ ip = a.ip /\ nw.allocations[k] = a
           /\ \A l \in DOMAIN nw.allocations :
                 l > k /\ nw.allocations[l].podIP = a.podIP => nw.allocations[l].ip \notin TunnelV4
    BY <1>2 DEF Addresses
  <2>2. a.podIP \in found \cap V4 /\ a.ip \in TunnelV4
    OBVIOUS
  <2>3. IsLast(nw, a.podIP, k)
    BY <1>1, <2>1, <2>2 DEF IsLast, FourByte
  <2> QED
    BY <2>1, <2>2, <2>3
<1>3. ASSUME NEW i \in found \cap V4, NEW k, IsLast(nw, i, k), ip = nw.allocations[k].ip
      PROVE  ip \in Addresses(nw, found)
  <2> DEFINE a == nw.allocations[k]
  <2>1. k \in DOMAIN nw.allocations /\ a.podIP = i /\ a.ip \in TunnelV4
    BY <1>3 DEF IsLast, FourByte
  <2>2. a \in [podIP : found \cap V4, ip : TunnelV4]
    BY <1>1, <2>1
  <2>3. \A l \in DOMAIN nw.allocations :
           l > k /\ nw.allocations[l].podIP = a.podIP => nw.allocations[l].ip \notin TunnelV4
    BY <1>1, <1>3, <2>1 DEF IsLast, FourByte
  <2> QED
    BY <1>3, <2>1, <2>2, <2>3 DEF Addresses
<1> QED
  BY <1>2, <1>3

\* An entry has the words of its type.
LEMMA BuildType ==
    ASSUME NEW n, NEW nw \in Network
    PROVE  /\ \A i : TunnelIP(nw, i) \in TunnelV4 \cup {NoIP}
           /\ Build(n, nw) \in NetworkCache
           /\ Zero \in NetworkCache
<1>1. \A i : TunnelIP(nw, i) \in TunnelV4 \cup {NoIP}
  BY TunnelIPFound DEF IsLast, FourByte
<1> QED
  BY <1>1 DEF Build, Zero, NetworkCache, Network

\* Replacing one word of an entry leaves the other.
LEMMA WordExcept ==
    ASSUME NEW c \in NetworkCache, NEW d \in NetworkCache, NEW w \in Words
    PROVE  /\ [c EXCEPT ![w] = d[w]] \in NetworkCache
           /\ \A v \in Words : [c EXCEPT ![w] = d[w]][v] = IF v = w THEN d[v] ELSE c[v]
<1>1. CASE w = "services"
  BY <1>1 DEF Words, NetworkCache
<1>2. CASE w = "ipCache"
  BY <1>2 DEF Words, NetworkCache
<1> QED
  BY <1>1, <1>2 DEF Words

\* Two entries with the same words are the same.
LEMMA WordsDecide ==
    ASSUME NEW c \in NetworkCache, NEW d \in NetworkCache, \A w \in Words : c[w] = d[w]
    PROVE  c = d
<1>1. c.services = d.services /\ c.ipCache = d.ipCache
  BY DEF Words
<1> QED
  BY <1>1 DEF NetworkCache

\* The table has a place for every network.
LEMMA PlacesFacts ==
    /\ Places \subseteq Nat /\ 0 \notin Places
    /\ IsFiniteSet(Places) /\ Cardinality(Places) = Cardinality(Networks)
<1>1. Cardinality(Networks) \in Int /\ Cardinality(Networks) >= 1
  BY ResolverAssumption
<1> QED
  BY <1>1, FS_Interval DEF Places

\* A network without a place finds a free one.
LEMMA FreePlace ==
    ASSUME TypeOK, KeysOK, NEW n \in Networks, PlaceOf(n) = {}
    PROVE  \E s \in Places : key[s] = Free
<1> SUFFICES ASSUME \A s \in Places : key[s] # Free PROVE FALSE
  OBVIOUS
<1>1. key \in [Places -> Networks \ {n}]
  BY DEF TypeOK, PlaceOf
<1>2. IsFiniteSet(Networks \ {n}) /\ Cardinality(Networks \ {n}) = Cardinality(Networks) - 1
  BY FS_RemoveElement, ResolverAssumption
<1>3. Cardinality(Networks \ {n}) < Cardinality(Places)
  BY <1>2, PlacesFacts, ResolverAssumption
<1>4. \E s, t \in Places : s # t /\ key[s] = key[t]
  <2> DEFINE others == Networks \ {n}
  <2>1. key \in [Places -> others] /\ IsFiniteSet(others) /\ Cardinality(others) < Cardinality(Places)
    BY <1>1, <1>2, <1>3
  <2>2. IsFiniteSet(Places)
    BY PlacesFacts
  <2> HIDE DEF others
  <2> QED
    BY <2>1, <2>2, FS_PigeonHole
<1> QED
  BY <1>4 DEF KeysOK

\* The place mapassign gives a key.
PlaceFor(n) ==
    IF PlaceOf(n) # {} THEN Min(PlaceOf(n)) ELSE Min({s \in Places : key[s] = Free})

\* It is the key's own place, or a free one if the key has none.
LEMMA PlaceForFacts ==
    ASSUME TypeOK, KeysOK, NEW n \in Networks
    PROVE  /\ PlaceFor(n) \in Places
           /\ key[PlaceFor(n)] \in {n, Free}
           /\ source[n] = Absent <=> key[PlaceFor(n)] = Free
           /\ \A s \in Places : key[s] = n => s = PlaceFor(n)
<1>1. CASE PlaceOf(n) # {}
  <2>1. PlaceFor(n) \in PlaceOf(n)
    BY <1>1, FirstPlace, PlacesFacts DEF PlaceFor, PlaceOf
  <2>2. PlaceFor(n) \in Places /\ key[PlaceFor(n)] = n
    BY <2>1 DEF PlaceOf
  <2> QED
    BY <2>2, ResolverAssumption DEF KeysOK
<1>2. CASE PlaceOf(n) = {}
  <2> DEFINE free == {s \in Places : key[s] = Free}
  <2>1. free # {} /\ free \subseteq Nat
    BY <1>2, FreePlace, PlacesFacts
  <2>2. Min(free) \in free
    BY <2>1, FirstPlace
  <2>3. PlaceFor(n) = Min(free)
    BY <1>2 DEF PlaceFor
  <2> QED
    BY <1>2, <2>2, <2>3 DEF KeysOK, PlaceOf
<1> QED
  BY <1>1, <1>2

\* The first place of a key that has one is its place.
LEMMA MinPlace ==
    ASSUME NEW n, PlaceOf(n) # {}
    PROVE  Min(PlaceOf(n)) \in Places /\ key[Min(PlaceOf(n))] = n
<1>1. Min(PlaceOf(n)) \in PlaceOf(n)
  BY FirstPlace, PlacesFacts DEF PlaceOf
<1> QED
  BY <1>1 DEF PlaceOf

-------------------------------------------------------------------------------
(* Requests and the history they keep *)

\* A goroutine without a request is idle, one with a request is not.
LEMMA ReaderIdle ==
    ASSUME TypeOK, NEW r \in Readers
    PROVE  /\ reader[r] = Sleeping \/ reader[r] \in Reader
           /\ reader[r].pc = "idle" <=> reader[r] = Sleeping
BY DEF TypeOK, Reader, Sleeping

\* Remember adds to the history of the requests for n and changes nothing else
\* of them.
LEMMA RememberReader ==
    ASSUME TypeOK, NEW n \in Networks, NEW object \in Network \cup {Absent}, Remember(n, object),
           NEW r \in Readers
    PROVE  /\ reader[r] = Sleeping => reader'[r] = Sleeping
           /\ reader[r] # Sleeping =>
                 /\ reader'[r] \in Reader /\ reader'[r] # Sleeping
                 /\ reader'[r].pc = reader[r].pc /\ reader'[r].question = reader[r].question
                 /\ reader'[r].net = reader[r].net /\ reader'[r].place = reader[r].place
                 /\ reader'[r].cache = reader[r].cache /\ reader'[r].left = reader[r].left
                 /\ reader'[r].found = reader[r].found /\ reader'[r].answer = reader[r].answer
                 /\ reader'[r].shown = reader[r].shown \cup (IF reader[r].net = n THEN {object} ELSE {})
<1>1. reader'[r] = IF reader[r].pc # "idle" /\ reader[r].net = n
                   THEN [reader[r] EXCEPT !.shown = @ \cup {object}] ELSE reader[r]
  BY DEF Remember
<1>2. CASE reader[r] = Sleeping
  BY <1>1, <1>2 DEF Sleeping
<1>3. CASE reader[r] # Sleeping
  <2>1. reader[r] \in Reader /\ reader[r].pc # "idle"
    BY <1>3, ReaderIdle
  <2>2. [reader[r] EXCEPT !.shown = @ \cup {object}] \in Reader
    BY <2>1 DEF Reader
  <2>3. \A x \in Reader : x # Sleeping
    BY DEF Reader, Sleeping
  <2>4. CASE reader[r].net = n
    <3>1. reader'[r] = [reader[r] EXCEPT !.shown = @ \cup {object}]
      BY <1>1, <2>1, <2>4
    <3> QED
      BY <2>1, <2>2, <2>3, <2>4, <3>1 DEF Reader
  <2>5. CASE reader[r].net # n
    <3>1. reader'[r] = reader[r]
      BY <1>1, <2>5
    <3> QED
      BY <1>3, <2>1, <2>5, <3>1
  <2> QED
    BY <2>4, <2>5
<1> QED
  BY <1>2, <1>3

\* A request's answer stays right when its history grows.
LEMMA RememberAnswers ==
    ASSUME TypeOK, AnsweredFromNetwork, NoFalseDenial,
           NEW n \in Networks, NEW object \in Network \cup {Absent}, Remember(n, object)
    PROVE  AnsweredFromNetwork' /\ NoFalseDenial'
<1> SUFFICES ASSUME NEW r \in Readers, Steady(r)'
             PROVE  /\ reader'[r].answer.rcode = "Success" =>
                          /\ \E nw \in reader'[r].shown : reader'[r].question.name[1] \in nw.serviceNames
                          /\ reader'[r].answer.ips \subseteq UNION {Addresses(nw, reader'[r].found) : nw \in reader'[r].shown}
                    /\ reader'[r].answer.rcode = "NameError" =>
                          \E nw \in reader'[r].shown :
                              \/ reader'[r].question.name[1] \notin nw.serviceNames
                              \/ reader'[r].found # Absent /\ Addresses(nw, reader'[r].found) = {}
  BY DEF AnsweredFromNetwork, NoFalseDenial
<1>1. reader[r] # Sleeping
  BY RememberReader DEF Steady, Sleeping
<1>2. /\ reader'[r].pc = reader[r].pc /\ reader'[r].question = reader[r].question
      /\ reader'[r].found = reader[r].found /\ reader'[r].answer = reader[r].answer
      /\ reader[r].shown \subseteq reader'[r].shown
  BY <1>1, RememberReader
<1>3. Steady(r)
  BY <1>2 DEF Steady
<1> QED
  BY <1>2, <1>3 DEF AnsweredFromNetwork, NoFalseDenial

\* Answers stay right while the requests are left alone.
LEMMA AnswersStay ==
    ASSUME AnsweredFromNetwork, NoFalseDenial, UNCHANGED reader
    PROVE  AnsweredFromNetwork' /\ NoFalseDenial'
BY DEF AnsweredFromNetwork, NoFalseDenial, Steady

-------------------------------------------------------------------------------
(* The reconciler *)

\* A reconciliation that writes an entry: mapassign finds the place.
LEMMA AssignStep ==
    ASSUME Inv, NEW n \in Networks, NEW nw \in Network, nw = informer[n], work = Idle, mode = "running",
           Assign(n, nw), queue' = queue \ {n},
           UNCHANGED <<networks, informer, mode, dns, bounds>>
    PROVE  Inv'
<1> DEFINE p == PlaceFor(n)
<1>1. /\ writing' = TRUE
      /\ key' = [key EXCEPT ![p] = n]
      /\ work' = [pc |-> "marked", net |-> n, place |-> p, old |-> source[n], new |-> Build(n, nw),
                  left |-> Words]
      /\ Remember(n, nw)
      /\ mem' = mem
  BY DEF Assign, PlaceFor
<1>2. /\ p \in Places
      /\ key[p] \in {n, Free}
      /\ source[n] = Absent <=> key[p] = Free
      /\ \A s \in Places : key[s] = n => s = p
  BY PlaceForFacts DEF Inv
<1> HIDE DEF p
<1>3. /\ key \in [Places -> Networks \cup {Free}] /\ mem \in [Places -> NetworkCache]
      /\ source \in [Networks -> Network \cup {Absent}] /\ source' = [source EXCEPT ![n] = nw]
      /\ Free \notin Networks /\ Absent \notin Network /\ Absent \notin NetworkCache
  BY <1>1, ResolverAssumption DEF Inv, TypeOK, Remember
<1>4. Build(n, nw) \in NetworkCache /\ Build(n, nw) # Absent
  BY <1>3, BuildType
<1>5. \A s \in Places : key'[s] = IF s = p THEN n ELSE key[s]
  BY <1>1, <1>2, <1>3
<1>6. \A m \in Networks : source'[m] = IF m = n THEN nw ELSE source[m]
  BY <1>3
<1>7. /\ work' # Idle /\ work'.pc = "marked" /\ work'.net = n /\ work'.place = p
      /\ work'.old = source[n] /\ work'.new = Build(n, nw) /\ work'.left = Words
  BY <1>1 DEF Idle
<1>10. TypeOK'
  <2>1. work' \in Work
    BY <1>1, <1>2, <1>3, <1>4 DEF Work
  <2>2. reader' \in [Readers -> Reader \cup {Sleeping}]
    <3>1. DOMAIN reader' = Readers /\ reader' = [r \in Readers |-> reader'[r]]
      BY <1>1 DEF Remember
    <3>2. \A r \in Readers : reader'[r] \in Reader \cup {Sleeping}
      BY <1>1, RememberReader DEF Inv
    <3> QED
      BY <3>1, <3>2
  <2>3. key' \in [Places -> Networks \cup {Free}]
    BY <1>1, <1>2, <1>3
  <2>4. source' \in [Networks -> Network \cup {Absent}]
    BY <1>3
  <2> QED
    BY <1>1, <2>1, <2>2, <2>3, <2>4 DEF Inv, TypeOK, bounds
<1>11. KeysOK'
  <2>1. ASSUME NEW s \in Places, NEW t \in Places, key'[s] = key'[t], key'[s] # Free PROVE s = t
    BY <1>2, <1>5, <2>1 DEF Inv, KeysOK
  <2>2. ASSUME NEW m \in Networks PROVE source'[m] = Absent <=> \A s \in Places : key'[s] # m
    <3>1. CASE m = n
      BY <1>2, <1>3, <1>5, <1>6, <3>1
    <3>2. CASE m # n
      <4>1. \A s \in Places : key'[s] = m <=> key[s] = m
        BY <1>2, <1>3, <1>5, <3>2
      <4> QED
        BY <1>6, <3>2, <4>1 DEF Inv, KeysOK
    <3> QED
      BY <3>1, <3>2
  <2> QED
    BY <2>1, <2>2 DEF KeysOK
<1>12. WorkOK'
  BY <1>1, <1>2, <1>3, <1>4, <1>5, <1>6, <1>7 DEF WorkOK
<1>13. MemOK'
  <2> SUFFICES ASSUME NEW s \in Places, NEW w \in Words PROVE mem'[s][w] = Word(s, w)'
    BY DEF MemOK
  <2>1. mem'[s][w] = IF key[s] = Free THEN Zero[w] ELSE WordOf(key[s], source[key[s]], w)
    BY <1>1 DEF Inv, MemOK, Word
  <2>2. CASE s = p
    <3>1. mem'[s][w] = WordOf(n, source[n], w)
      BY <1>2, <1>3, <2>1, <2>2 DEF WordOf
    <3> QED
      BY <1>3, <1>4, <1>5, <1>7, <2>2, <3>1 DEF Word
  <2>3. CASE s # p
    <3>1. key'[s] = key[s] /\ key[s] # n
      BY <1>2, <1>5, <2>3
    <3>2. key[s] # Free => source'[key[s]] = source[key[s]]
      BY <1>3, <1>6, <3>1
    <3> QED
      BY <1>7, <2>1, <2>3, <3>1, <3>2 DEF Word
  <2> QED
    BY <2>2, <2>3
<1>14. QueueOK'
  BY <1>6 DEF Inv, QueueOK
<1>15. ReadersOK'
  <2> SUFFICES ASSUME NEW r \in Readers, reader'[r] # Sleeping PROVE mode' = "running" /\ ReaderOK(r)'
    BY DEF ReadersOK
  <2>1. /\ reader[r] # Sleeping
        /\ reader'[r].pc = reader[r].pc
        /\ reader'[r].net = reader[r].net /\ reader'[r].place = reader[r].place
        /\ reader'[r].cache = reader[r].cache /\ reader'[r].left = reader[r].left
        /\ reader'[r].shown = reader[r].shown \cup (IF reader[r].net = n THEN {nw} ELSE {})
    BY <1>1, RememberReader DEF Inv
  <2>2. ReaderOK(r)
    BY <2>1 DEF Inv, ReadersOK
  <2>3. reader[r].net \in Networks => source'[reader[r].net] \in reader'[r].shown
    BY <1>6, <2>1, <2>2 DEF ReaderOK
  <2>4. reader[r].net = n => source[n] \in reader'[r].shown
    BY <2>1, <2>2 DEF ReaderOK
  <2>5. reader[r].place \in Places /\ key[reader[r].place] = reader[r].net /\ reader[r].net \in Networks
           => key'[reader[r].place] = reader[r].net
    BY <1>2, <1>3, <1>5
  <2> QED
    BY <1>7, <2>1, <2>2, <2>3, <2>4, <2>5 DEF ReaderOK, Writes
<1> QED
  BY <1>1, <1>10, <1>11, <1>12, <1>13, <1>14, <1>15, RememberAnswers DEF Inv

\* A reconciliation that deletes the entry of a network that is gone.
LEMMA DeleteStep ==
    ASSUME Inv, NEW n \in Networks, informer[n] = Absent, work = Idle, mode = "running",
           Delete(n), queue' = queue \ {n},
           UNCHANGED <<networks, informer, mode, dns, bounds>>
    PROVE  Inv'
<1>1. /\ key \in [Places -> Networks \cup {Free}] /\ mem \in [Places -> NetworkCache]
      /\ source \in [Networks -> Network \cup {Absent}] /\ Remember(n, Absent)
      /\ source' = [source EXCEPT ![n] = Absent]
      /\ Free \notin Networks
  BY ResolverAssumption DEF Inv, TypeOK, Delete, Remember
<1>2. \A s \in Places : key'[s] = IF key[s] = n THEN Free ELSE key[s]
  BY DEF Delete
<1>3. \A s \in Places : mem'[s] = IF key[s] = n THEN Zero ELSE mem[s]
  BY DEF Delete
<1>4. \A m \in Networks : source'[m] = IF m = n THEN Absent ELSE source[m]
  BY <1>1
<1>5. /\ work' # Idle /\ work'.pc = "marked" /\ work'.net = n /\ work'.place = 0
      /\ work'.new = Absent /\ work'.left = {} /\ writing' = TRUE
  BY DEF Delete, Idle
<1>6. TypeOK'
  <2>1. work' \in Work
    BY DEF Delete, Work
  <2>2. reader' \in [Readers -> Reader \cup {Sleeping}]
    <3>1. DOMAIN reader' = Readers /\ reader' = [r \in Readers |-> reader'[r]]
      BY <1>1 DEF Remember
    <3>2. \A r \in Readers : reader'[r] \in Reader \cup {Sleeping}
      BY <1>1, RememberReader DEF Inv
    <3> QED
      BY <3>1, <3>2
  <2>3. key' \in [Places -> Networks \cup {Free}]
    BY <1>1 DEF Delete
  <2>4. mem' \in [Places -> NetworkCache]
    <3>1. Zero \in NetworkCache
      BY DEF Zero, NetworkCache
    <3> QED
      BY <1>1, <3>1 DEF Delete
  <2>5. source' \in [Networks -> Network \cup {Absent}]
    BY <1>1
  <2> QED
    BY <1>5, <2>1, <2>2, <2>3, <2>4, <2>5 DEF Inv, TypeOK, bounds
<1>7. KeysOK'
  <2>1. ASSUME NEW s \in Places, NEW t \in Places, key'[s] = key'[t], key'[s] # Free PROVE s = t
    BY <1>2, <2>1 DEF Inv, KeysOK
  <2>2. ASSUME NEW m \in Networks PROVE source'[m] = Absent <=> \A s \in Places : key'[s] # m
    <3>1. CASE m = n
      BY <1>1, <1>2, <1>4, <3>1
    <3>2. CASE m # n
      <4>1. \A s \in Places : key'[s] = m <=> key[s] = m
        BY <1>1, <1>2, <3>2
      <4> QED
        BY <1>4, <3>2, <4>1 DEF Inv, KeysOK
    <3> QED
      BY <3>1, <3>2
  <2> QED
    BY <2>1, <2>2 DEF KeysOK
<1>8. WorkOK'
  BY <1>5 DEF WorkOK
<1>9. MemOK'
  <2> SUFFICES ASSUME NEW s \in Places, NEW w \in Words PROVE mem'[s][w] = Word(s, w)'
    BY DEF MemOK
  <2>1. CASE key[s] = n
    BY <1>2, <1>3, <2>1 DEF Word
  <2>2. CASE key[s] # n
    <3>1. key'[s] = key[s] /\ mem'[s] = mem[s]
      BY <1>2, <1>3, <2>2
    <3>2. key[s] # Free => source'[key[s]] = source[key[s]]
      BY <1>1, <1>4, <2>2
    <3> QED
      BY <1>5, <3>1, <3>2 DEF Inv, MemOK, Word
  <2> QED
    BY <2>1, <2>2
<1>10. QueueOK'
  BY <1>4 DEF Inv, QueueOK
<1>11. ReadersOK'
  <2> SUFFICES ASSUME NEW r \in Readers, reader'[r] # Sleeping PROVE mode' = "running" /\ ReaderOK(r)'
    BY DEF ReadersOK
  <2>1. /\ reader[r] # Sleeping
        /\ reader'[r].pc = reader[r].pc
        /\ reader'[r].net = reader[r].net /\ reader'[r].place = reader[r].place
        /\ reader'[r].cache = reader[r].cache /\ reader'[r].left = reader[r].left
        /\ reader'[r].shown = reader[r].shown \cup (IF reader[r].net = n THEN {Absent} ELSE {})
    BY <1>1, RememberReader DEF Inv
  <2>2. ReaderOK(r)
    BY <2>1 DEF Inv, ReadersOK
  <2>3. reader[r].net \in Networks => source'[reader[r].net] \in reader'[r].shown
    BY <1>4, <2>1, <2>2 DEF ReaderOK
  <2>4. reader[r].net # n /\ reader[r].place \in Places /\ key[reader[r].place] = reader[r].net
           => key'[reader[r].place] = reader[r].net
    BY <1>2
  <2> QED
    BY <1>5, <2>1, <2>2, <2>3, <2>4 DEF ReaderOK, Writes
<1> QED
  BY <1>1, <1>6, <1>7, <1>8, <1>9, <1>10, <1>11, RememberAnswers DEF Inv

\* Steps that leave the map, the reconciler and the requests alone, or change
\* only what a request need not know.
LEMMA MapUntouched ==
    ASSUME Inv, TypeOK', QueueOK', UNCHANGED <<work, table, reader, mode>>
    PROVE  Inv'
<1>1. KeysOK' /\ WorkOK' /\ MemOK'
  BY DEF Inv, KeysOK, WorkOK, MemOK, Word, table
<1>2. ReadersOK'
  BY DEF Inv, ReadersOK, ReaderOK, Writes, table
<1>3. AnsweredFromNetwork' /\ NoFalseDenial'
  BY AnswersStay DEF Inv
<1> QED
  BY <1>1, <1>2, <1>3 DEF Inv

\* Reconcile up to the mark.
LEMMA ReconcileStartStep ==
    ASSUME Inv, NEW n \in Networks, ReconcileStart(n)
    PROVE  Inv'
<1>1. /\ mode = "running" /\ work = Idle /\ queue' = queue \ {n}
      /\ UNCHANGED <<networks, informer, mode, dns, bounds>>
  BY DEF ReconcileStart
<1>2. CASE informer[n] # Absent /\ Assign(n, informer[n])
  <2>1. informer[n] \in Network
    BY <1>2 DEF Inv, TypeOK
  <2> QED
    BY <1>1, <1>2, <2>1, AssignStep
<1>3. CASE informer[n] = Absent /\ Delete(n)
  BY <1>1, <1>3, DeleteStep
<1>4. CASE informer[n] = Absent /\ ~Forgets(n) /\ UNCHANGED <<work, table, reader>>
  <2>1. source[n] = Absent
    BY <1>4, ResolverAssumption DEF Inv, KeysOK, Forgets
  <2>2. QueueOK'
    BY <1>1, <1>4, <2>1 DEF Inv, QueueOK, table
  <2>3. TypeOK'
    BY <1>1, <1>4 DEF Inv, TypeOK, table, bounds
  <2> QED
    BY <1>1, <1>4, <2>2, <2>3, MapUntouched
<1> QED
  BY <1>2, <1>3, <1>4 DEF ReconcileStart

\* The end of the mark.
LEMMA UnmarkStep ==
    ASSUME Inv, Unmark
    PROVE  Inv'
<1>1. /\ work.pc = "marked" /\ writing' = FALSE
      /\ work' = IF work.left = {} THEN Idle ELSE [work EXCEPT !.pc = "storing"]
      /\ UNCHANGED <<networks, informer, queue, key, mem, source, reader, mode, dns, bounds>>
  BY DEF Unmark
<1>2. work # Idle /\ work \in Work
  BY <1>1 DEF Inv, TypeOK, Idle
<1>3. work' = Idle \/ work' \in Work
  BY <1>1, <1>2 DEF Work
<1>4. \/ work' = Idle /\ work.left = {}
      \/ /\ work' # Idle /\ work'.pc = "storing" /\ work'.net = work.net /\ work'.place = work.place
         /\ work'.old = work.old /\ work'.new = work.new /\ work'.left = work.left
  BY <1>1, <1>2 DEF Work, Idle
<1>5. TypeOK' /\ KeysOK' /\ QueueOK'
  BY <1>1, <1>3 DEF Inv, TypeOK, KeysOK, QueueOK, bounds
<1>6. WorkOK'
  BY <1>1, <1>2, <1>4 DEF Inv, WorkOK, Idle
<1>7. MemOK'
  BY <1>1, <1>2, <1>4 DEF Inv, MemOK, Word
<1>8. ReadersOK'
  BY <1>1, <1>2, <1>4 DEF Inv, ReadersOK, ReaderOK, Writes
<1>9. AnsweredFromNetwork' /\ NoFalseDenial'
  BY <1>1, AnswersStay DEF Inv
<1> QED
  BY <1>5, <1>6, <1>7, <1>8, <1>9 DEF Inv

\* A word is stored.
LEMMA StoreStep ==
    ASSUME Inv, NEW w \in Words, Store(w)
    PROVE  Inv'
<1>1. /\ work.pc = "storing" /\ w \in work.left
      /\ mem' = [mem EXCEPT ![work.place] = [mem[work.place] EXCEPT ![w] = work.new[w]]]
      /\ work' = IF work.left = {w} THEN Idle ELSE [work EXCEPT !.left = @ \ {w}]
      /\ UNCHANGED <<networks, informer, queue, key, writing, source, reader, mode, dns, bounds>>
  BY DEF Store
<1>2. work # Idle /\ work \in Work
  BY <1>1 DEF Inv, TypeOK, Idle
<1>3. /\ work.new # Absent /\ work.place \in Places /\ work.new \in NetworkCache
      /\ key[work.place] = work.net /\ work.net \in Networks
      /\ source[work.net] # Absent /\ work.new = Build(work.net, source[work.net])
  BY <1>1, <1>2 DEF Inv, WorkOK, Work
<1>4. work' = Idle \/ work' \in Work
  BY <1>1, <1>2 DEF Work
<1>5. \/ work' = Idle /\ work.left = {w}
      \/ /\ work' # Idle /\ work'.pc = "storing" /\ work'.net = work.net /\ work'.place = work.place
         /\ work'.old = work.old /\ work'.new = work.new /\ work'.left = work.left \ {w}
  BY <1>1, <1>2 DEF Work, Idle
<1>6. mem \in [Places -> NetworkCache]
  BY DEF Inv, TypeOK
<1>7. /\ mem' \in [Places -> NetworkCache]
      /\ \A s \in Places : \A v \in Words :
            mem'[s][v] = IF s = work.place /\ v = w THEN work.new[v] ELSE mem[s][v]
  <2> DEFINE before == mem[work.place]
             after == work.new
             stored == [before EXCEPT ![w] = after[w]]
  <2>1. /\ stored \in NetworkCache
        /\ \A v \in Words : stored[v] = IF v = w THEN after[v] ELSE before[v]
    <3>1. before \in NetworkCache /\ after \in NetworkCache
      BY <1>3, <1>6
    <3> HIDE DEF before, after
    <3> QED
      BY <3>1, WordExcept
  <2>2. mem' = [mem EXCEPT ![work.place] = stored]
    BY <1>1
  <2> HIDE DEF stored
  <2>3. mem' \in [Places -> NetworkCache]
    BY <1>6, <2>1, <2>2
  <2>4. \A s \in Places : mem'[s] = IF s = work.place THEN stored ELSE mem[s]
    BY <1>6, <2>2
  <2> QED
    BY <2>1, <2>3, <2>4
<1>8. TypeOK' /\ KeysOK' /\ QueueOK'
  BY <1>1, <1>4, <1>7 DEF Inv, TypeOK, KeysOK, QueueOK, bounds
<1>9. WorkOK'
  BY <1>1, <1>2, <1>5 DEF Inv, WorkOK, Idle
<1>10. MemOK'
  <2> SUFFICES ASSUME NEW s \in Places, NEW v \in Words PROVE mem'[s][v] = Word(s, v)'
    BY DEF MemOK
  <2>1. mem[s][v] = Word(s, v)
    BY DEF Inv, MemOK
  <2>2. CASE s = work.place /\ v = w
    <3>1. mem'[s][v] = WordOf(key[s], source[key[s]], v)
      BY <1>3, <1>7, <2>2 DEF WordOf
    <3>2. key[s] # Free
      BY <1>3, <2>2, ResolverAssumption
    <3> QED
      BY <1>1, <1>5, <2>2, <3>1, <3>2 DEF Word
  <2>3. CASE ~(s = work.place /\ v = w)
    <3>1. mem'[s][v] = mem[s][v]
      BY <1>7, <2>3
    <3> QED
      BY <1>1, <1>2, <1>5, <2>1, <2>3, <3>1 DEF Word
  <2> QED
    BY <2>2, <2>3
<1>11. ReadersOK'
  BY <1>1, <1>2, <1>5 DEF Inv, ReadersOK, ReaderOK, Writes
<1>12. AnsweredFromNetwork' /\ NoFalseDenial'
  BY <1>1, AnswersStay DEF Inv
<1> QED
  BY <1>8, <1>9, <1>10, <1>11, <1>12 DEF Inv

-------------------------------------------------------------------------------
(* Requests *)

\* What the two properties say of one request.
RightAnswer(r) ==
    Steady(r) =>
        /\ reader[r].answer.rcode = "Success" =>
              /\ \E nw \in reader[r].shown : reader[r].question.name[1] \in nw.serviceNames
              /\ reader[r].answer.ips \subseteq UNION {Addresses(nw, reader[r].found) : nw \in reader[r].shown}
        /\ reader[r].answer.rcode = "NameError" =>
              \E nw \in reader[r].shown : \/ reader[r].question.name[1] \notin nw.serviceNames
                                          \/ reader[r].found # Absent /\ Addresses(nw, reader[r].found) = {}

\* A step of one request only has to answer for that request.
LEMMA OneReader ==
    ASSUME Inv, NEW r \in Readers, mode = "running", NEW x \in Reader, x # Sleeping,
           reader' = [reader EXCEPT ![r] = x], asks' \in Nat,
           UNCHANGED <<networks, informer, queue, work, table, mode, dns, ops, faults>>,
           ReaderOK(r)', RightAnswer(r)'
    PROVE  Inv'
<1>1. reader'[r] = x /\ \A q \in Readers : q # r => reader'[q] = reader[q]
  BY DEF Inv, TypeOK
<1>2. TypeOK' /\ KeysOK' /\ WorkOK' /\ MemOK' /\ QueueOK'
  <2>1. TypeOK'
    BY DEF Inv, TypeOK, table
  <2> QED
    BY <2>1 DEF Inv, KeysOK, WorkOK, MemOK, Word, QueueOK, table
<1>3. ReadersOK'
  <2> SUFFICES ASSUME NEW q \in Readers, q # r, reader'[q] # Sleeping PROVE ReaderOK(q)'
    BY DEF ReadersOK
  <2>1. ReaderOK(q)
    BY <1>1 DEF Inv, ReadersOK
  <2> QED
    BY <1>1, <2>1 DEF ReaderOK, Writes, table
<1>4. \A q \in Readers : RightAnswer(q)'
  <2> SUFFICES ASSUME NEW q \in Readers, q # r PROVE RightAnswer(q)'
    OBVIOUS
  <2>1. RightAnswer(q)
    BY DEF Inv, AnsweredFromNetwork, NoFalseDenial, RightAnswer
  <2>2. reader'[q] = reader[q]
    BY <1>1
  <2> QED
    BY <2>1, <2>2 DEF RightAnswer, Steady
<1>5. AnsweredFromNetwork' /\ NoFalseDenial'
  BY <1>4 DEF AnsweredFromNetwork, NoFalseDenial, RightAnswer
<1> QED
  BY <1>2, <1>3, <1>5 DEF Inv

\* A new request.
LEMMA AskStep ==
    ASSUME Inv, NEW r \in Readers, NEW q \in Questions, Ask(r, q)
    PROVE  Inv'
<1> DEFINE net == IF Len(q.name) = 2 THEN q.name[2] ELSE CHOOSE n \in Networks : TRUE
           x == [pc |-> IF Refusal(q) = "none" THEN "access" ELSE "answered",
                 question |-> q, net |-> net, place |-> 0, cache |-> Zero, left |-> Words,
                 shown |-> Shown(net), found |-> Absent,
                 answer |-> [NoAnswer EXCEPT !.rcode = Refusal(q)]]
<1>1. /\ mode = "running" /\ reader' = [reader EXCEPT ![r] = x] /\ asks' \in Nat
      /\ UNCHANGED <<networks, informer, queue, work, table, mode, dns, ops, faults>>
  BY DEF Ask, Inv, TypeOK
<1>2. net \in Networks \cup Services
  <2>1. Networks # {}
    BY ResolverAssumption, FS_EmptySet
  <2>2. q.name \in Seq(Services \cup Networks)
    BY ResolverAssumption DEF Question
  <2>3. Len(q.name) = 2 => q.name[2] \in Services \cup Networks
    BY <2>2
  <2> QED
    BY <2>1, <2>3
<1> HIDE DEF net
<1>3. Shown(net) \subseteq Network \cup {Absent}
  BY DEF Inv, TypeOK, Shown, Work
<1>4. Refusal(q) \in {"none", "NotImplemented", "NameError"}
  BY DEF Refusal
<1>5. x \in Reader /\ x # Sleeping
  <2>1. Zero \in NetworkCache
    BY DEF Zero, NetworkCache
  <2>2. [NoAnswer EXCEPT !.rcode = Refusal(q)] \in
            [rcode : {"none", "NotImplemented", "NameError", "ServerFailure", "Success"},
             ips : SUBSET TunnelIPs]
    BY <1>4 DEF NoAnswer
  <2>3. x \in Reader
    BY <1>2, <1>3, <1>4, <2>1, <2>2 DEF Reader
  <2> QED
    BY <2>3 DEF Reader, Sleeping
<1>6. reader'[r] = x
  BY <1>1 DEF Inv, TypeOK
<1>7. /\ reader'[r].net = net /\ reader'[r].shown = Shown(net) /\ reader'[r].left = Words
      /\ reader'[r].question = q
      /\ reader'[r].pc = IF Refusal(q) = "none" THEN "access" ELSE "answered"
  BY <1>6
<1> HIDE DEF x
<1>8. ReaderOK(r)'
  BY <1>1, <1>7 DEF ReaderOK, Shown, Writes, table
<1>9. RightAnswer(r)'
  BY <1>7 DEF RightAnswer, Steady
<1> QED
  BY <1>1, <1>5, <1>8, <1>9, OneReader

\* The end of the process leaves no request.
LEMMA DiesStep ==
    ASSUME Inv, Dies, faults' \in Nat,
           UNCHANGED <<networks, informer, queue, work, table, dns, ops, asks>>
    PROVE  Inv'
<1>1. \A r \in Readers : reader'[r] = Sleeping
  BY DEF Dies
<1>2. TypeOK' /\ KeysOK' /\ WorkOK' /\ MemOK' /\ QueueOK' /\ ReadersOK'
  <2>1. TypeOK'
    BY DEF Inv, TypeOK, Dies, table
  <2> QED
    BY <1>1, <2>1 DEF Inv, KeysOK, WorkOK, MemOK, Word, QueueOK, ReadersOK, Dies, table
<1>3. AnsweredFromNetwork' /\ NoFalseDenial'
  BY <1>1 DEF AnsweredFromNetwork, NoFalseDenial, Steady, Sleeping
<1> QED
  BY <1>2, <1>3 DEF Inv

\* A request whose network the map does not have, or does not have yet, has seen
\* that it was absent.
LEMMA AbsentShown ==
    ASSUME Inv, NEW r \in Readers, reader[r] # Sleeping,
           \/ PlaceOf(reader[r].net) = {}
           \/ writing /\ \A s \in Places : key[s] # Free => s = work.place /\ work.old = Absent
    PROVE  Absent \in reader[r].shown
<1>1. ReaderOK(r)
  BY DEF Inv, ReadersOK
<1> SUFFICES ASSUME reader[r].net \in Networks PROVE Absent \in reader[r].shown
  BY <1>1 DEF ReaderOK
<1>2. CASE PlaceOf(reader[r].net) = {}
  <2>1. source[reader[r].net] = Absent
    BY <1>2 DEF Inv, KeysOK, PlaceOf
  <2> QED
    BY <1>1, <2>1 DEF ReaderOK
<1>3. CASE PlaceOf(reader[r].net) # {} /\ writing
           /\ \A s \in Places : key[s] # Free => s = work.place /\ work.old = Absent
  <2>1. PICK s \in Places : key[s] = reader[r].net
    BY <1>3 DEF PlaceOf
  <2>2. s = work.place /\ work.old = Absent
    BY <1>3, <2>1, ResolverAssumption
  <2>3. work # Idle
    BY <1>3 DEF Inv, WorkOK, Idle
  <2>4. work.new # Absent /\ work.net = reader[r].net
    BY <2>1, <2>2, <2>3, PlacesFacts DEF Inv, WorkOK
  <2> QED
    BY <1>1, <2>2, <2>3, <2>4 DEF ReaderOK, Writes
<1> QED
  BY <1>2, <1>3

\* An answer without addresses to a request that has seen its network absent.
LEMMA Denied ==
    ASSUME Inv, NEW r \in Readers, mode = "running", reader[r] # Sleeping,
           Absent \in reader[r].shown, Answered(r, "NameError", {}),
           UNCHANGED <<networks, informer, queue, work, table, mode, dns, bounds>>
    PROVE  Inv'
<1> DEFINE x == [reader[r] EXCEPT !.pc = "answered", !.answer = [rcode |-> "NameError", ips |-> {}]]
<1>1. reader[r] \in Reader /\ reader \in [Readers -> Reader \cup {Sleeping}]
  BY ReaderIdle DEF Inv, TypeOK
<1>2. x \in Reader /\ x # Sleeping
  BY <1>1 DEF Reader, Sleeping
<1>3. reader' = [reader EXCEPT ![r] = x] /\ reader'[r] = x
  BY <1>1 DEF Answered
<1>4. /\ reader'[r].pc = "answered" /\ reader'[r].net = reader[r].net
      /\ reader'[r].shown = reader[r].shown
  BY <1>1, <1>3 DEF Reader
<1> HIDE DEF x
<1>5. ReaderOK(r)
  BY DEF Inv, ReadersOK
<1>6. ReaderOK(r)'
  BY <1>4, <1>5 DEF ReaderOK, Writes, table
<1>7. RightAnswer(r)'
  BY <1>4 DEF RightAnswer, Steady
<1>8. asks' \in Nat /\ UNCHANGED <<ops, faults>>
  BY DEF Inv, TypeOK, bounds
<1> QED
  BY <1>2, <1>3, <1>6, <1>7, <1>8, OneReader

\* The look into r.cache.
LEMMA AccessStep ==
    ASSUME Inv, NEW r \in Readers, Access(r)
    PROVE  Inv'
<1>1. /\ mode = "running" /\ reader[r].pc = "access"
      /\ UNCHANGED <<networks, informer, queue, work, table, dns, bounds>>
  BY DEF Access
<1>2. reader[r] # Sleeping /\ reader[r] \in Reader
  BY <1>1, ReaderIdle DEF Inv
<1>3. CASE /\ ~writing
           /\ PlaceOf(reader[r].net) # {}
           /\ reader' = [reader EXCEPT ![r] =
                 [@ EXCEPT !.pc = "load", !.place = Min(PlaceOf(reader[r].net))]]
           /\ UNCHANGED mode
  <2> DEFINE p == Min(PlaceOf(reader[r].net))
             x == [reader[r] EXCEPT !.pc = "load", !.place = p]
  <2>1. p \in Places /\ key[p] = reader[r].net
    BY <1>3, MinPlace
  <2> HIDE DEF p
  <2>2. x \in Reader /\ x # Sleeping
    BY <1>2, <2>1 DEF Reader, Sleeping
  <2>3. reader' = [reader EXCEPT ![r] = x] /\ reader'[r] = x
    BY <1>3 DEF Inv, TypeOK, p
  <2>4. /\ reader'[r].pc = "load" /\ reader'[r].net = reader[r].net /\ reader'[r].place = p
        /\ reader'[r].shown = reader[r].shown /\ reader'[r].left = reader[r].left
        /\ reader'[r].cache = reader[r].cache
    <3> DEFINE y == reader[r]
               z == reader'[r]
    <3>1. y \in Reader /\ z = [y EXCEPT !.pc = "load", !.place = p]
      BY <1>2, <2>3
    <3> HIDE DEF y, z
    <3>2. /\ z.pc = "load" /\ z.net = y.net /\ z.place = p /\ z.shown = y.shown
          /\ z.left = y.left /\ z.cache = y.cache
      BY <2>1, <3>1 DEF Reader
    <3> QED
      BY <3>2 DEF y, z
  <2> HIDE DEF x
  <2>5. ReaderOK(r)
    BY <1>2 DEF Inv, ReadersOK
  <2>6. ReaderOK(r)'
    BY <1>1, <2>1, <2>4, <2>5 DEF ReaderOK, Writes, table
  <2>7. RightAnswer(r)'
    BY <2>4 DEF RightAnswer, Steady
  <2>8. asks' \in Nat /\ UNCHANGED <<ops, faults>>
    BY <1>1 DEF Inv, TypeOK, bounds
  <2> QED
    BY <1>1, <1>3, <2>2, <2>3, <2>6, <2>7, <2>8, OneReader
<1>4. CASE ~writing /\ PlaceOf(reader[r].net) = {} /\ Answered(r, "NameError", {}) /\ UNCHANGED mode
  BY <1>1, <1>2, <1>4, AbsentShown, Denied
<1>5. CASE /\ writing
           /\ \A s \in Places : key[s] # Free => s = work.place /\ work.old = Absent
           /\ Answered(r, "NameError", {}) /\ UNCHANGED mode
  BY <1>1, <1>2, <1>5, AbsentShown, Denied
<1>6. CASE writing /\ Dies
  <2>1. faults' \in Nat /\ UNCHANGED <<ops, asks>>
    BY <1>1 DEF Inv, TypeOK, bounds
  <2> QED
    BY <1>1, <1>6, <2>1, DiesStep
<1> QED
  BY <1>3, <1>4, <1>5, <1>6 DEF Access

\* A word a request copies while its network stays belongs to an object it has
\* on record.
LEMMA LoadStep ==
    ASSUME Inv, NEW r \in Readers, NEW w \in Words, Load(r, w)
    PROVE  Inv'
<1> DEFINE c == [reader[r].cache EXCEPT ![w] = mem[reader[r].place][w]]
           x == [reader[r] EXCEPT !.cache = c, !.left = @ \ {w},
                                  !.pc = IF reader[r].left = {w} THEN "resolve" ELSE "load"]
<1>1. /\ mode = "running" /\ reader[r].pc = "load" /\ w \in reader[r].left
      /\ UNCHANGED <<networks, informer, queue, work, table, mode, dns, bounds>>
  BY DEF Load
<1>2. reader[r] # Sleeping /\ reader[r] \in Reader /\ ReaderOK(r)
  BY <1>1, ReaderIdle DEF Inv, ReadersOK
<1>3. reader[r].place \in Places
  BY <1>1, <1>2 DEF ReaderOK
<1>4. reader' = [reader EXCEPT ![r] = x] /\ reader'[r] = x
  <2>1. reader' = [reader EXCEPT ![r] = x]
    BY DEF Load
  <2> QED
    BY <2>1 DEF Inv, TypeOK
<1>5. /\ c \in NetworkCache
      /\ \A v \in Words : c[v] = IF v = w THEN mem[reader[r].place][v] ELSE reader[r].cache[v]
  <2> DEFINE before == reader[r].cache
             entry == mem[reader[r].place]
  <2>1. before \in NetworkCache /\ entry \in NetworkCache
    BY <1>2, <1>3 DEF Inv, TypeOK, Reader
  <2>2. c = [before EXCEPT ![w] = entry[w]]
    OBVIOUS
  <2> HIDE DEF before, entry, c
  <2>3. \A v \in Words : c[v] = IF v = w THEN entry[v] ELSE before[v]
    BY <2>1, <2>2, WordExcept
  <2>4. c \in NetworkCache
    BY <2>1, <2>2, WordExcept
  <2> QED
    BY <2>3, <2>4 DEF before, entry
<1> HIDE DEF c
<1>6. x \in Reader /\ x # Sleeping
  BY <1>2, <1>5 DEF Reader, Sleeping
<1>7. /\ reader'[r].net = reader[r].net /\ reader'[r].shown = reader[r].shown
      /\ reader'[r].place = reader[r].place
      /\ reader'[r].cache = c /\ reader'[r].left = reader[r].left \ {w}
      /\ reader'[r].pc = IF reader[r].left = {w} THEN "resolve" ELSE "load"
  <2> DEFINE y == reader[r]
             z == reader'[r]
             pc == IF reader[r].left = {w} THEN "resolve" ELSE "load"
  <2>1. y \in Reader /\ z = [y EXCEPT !.cache = c, !.left = @ \ {w}, !.pc = pc]
    BY <1>2, <1>4
  <2> HIDE DEF y, z, pc
  <2>2. /\ z.pc = pc /\ z.net = y.net /\ z.place = y.place /\ z.shown = y.shown
        /\ z.left = y.left \ {w} /\ z.cache = c
    BY <1>5, <2>1 DEF Reader
  <2> QED
    BY <2>2 DEF y, z, pc
<1> HIDE DEF x
<1>8. ASSUME Absent \notin reader[r].shown
      PROVE  \A v \in Words \ (reader[r].left \ {w}) : \E nw \in reader[r].shown :
                c[v] = Build(reader[r].net, nw)[v]
  <2>1. key[reader[r].place] = reader[r].net /\ reader[r].net \in Networks
    BY <1>1, <1>2, <1>8 DEF ReaderOK
  <2>2. reader[r].net # Free
    BY <2>1, ResolverAssumption
  <2>3. mem[reader[r].place][w] = Word(reader[r].place, w)
    BY <1>3 DEF Inv, MemOK
  <2>4. CASE work # Idle /\ work.new # Absent /\ work.place = reader[r].place /\ w \in work.left
    <3>1. work.net = reader[r].net
      BY <2>1, <2>4 DEF Inv, WorkOK
    <3>2. work.old \in reader[r].shown /\ work.old # Absent
      BY <1>2, <1>8, <2>4, <3>1 DEF ReaderOK, Writes
    <3>3. mem[reader[r].place][w] = Build(reader[r].net, work.old)[w]
      BY <2>1, <2>2, <2>3, <2>4, <3>2 DEF Word, WordOf
    <3> QED
      BY <1>1, <1>2, <1>5, <1>8, <3>2, <3>3 DEF ReaderOK
  <2>5. CASE ~(work # Idle /\ work.new # Absent /\ work.place = reader[r].place /\ w \in work.left)
    <3>1. source[reader[r].net] \in reader[r].shown /\ source[reader[r].net] # Absent
      BY <1>2, <1>8, <2>1 DEF ReaderOK
    <3>2. mem[reader[r].place][w] = Build(reader[r].net, source[reader[r].net])[w]
      BY <2>1, <2>2, <2>3, <2>5, <3>1 DEF Word, WordOf
    <3> QED
      BY <1>1, <1>2, <1>5, <1>8, <3>1, <3>2 DEF ReaderOK
  <2> QED
    BY <2>4, <2>5
<1>9. ReaderOK(r)'
  BY <1>1, <1>2, <1>7, <1>8 DEF ReaderOK, Writes, table
<1>10. RightAnswer(r)'
  BY <1>7 DEF RightAnswer, Steady
<1>11. asks' \in Nat /\ UNCHANGED <<ops, faults>>
  BY <1>1 DEF Inv, TypeOK, bounds
<1> QED
  BY <1>1, <1>4, <1>6, <1>9, <1>10, <1>11, OneReader

\* A request that has answered keeps its history.
LEMMA AnsweredReader ==
    ASSUME Inv, NEW r \in Readers, reader[r] # Sleeping, UNCHANGED <<work, table>>,
           reader'[r].pc = "answered", reader'[r].net = reader[r].net, reader'[r].shown = reader[r].shown
    PROVE  ReaderOK(r)'
<1>1. ReaderOK(r)
  BY DEF Inv, ReadersOK
<1> QED
  BY <1>1 DEF ReaderOK, Writes, table

\* The copy of an entry of a network that stays has the services and the
\* addresses of objects on record.
LEMMA CopyFromShown ==
    ASSUME Inv, NEW r \in Readers, reader[r] # Sleeping, reader[r].pc = "resolve",
           Absent \notin reader[r].shown
    PROVE  /\ reader[r].shown \subseteq Network
           /\ \E nw \in reader[r].shown : reader[r].cache.services = nw.serviceNames
           /\ \E nw \in reader[r].shown : \A i \in V4 : reader[r].cache.ipCache[i] = TunnelIP(nw, i)
<1>1. ReaderOK(r) /\ reader[r] \in Reader
  BY ReaderIdle DEF Inv, ReadersOK
<1>2. \A w \in Words : \E nw \in reader[r].shown : reader[r].cache[w] = Build(reader[r].net, nw)[w]
  BY <1>1 DEF ReaderOK
<1>3. PICK nw \in reader[r].shown : reader[r].cache["services"] = Build(reader[r].net, nw)["services"]
  BY <1>2 DEF Words
<1>4. PICK ow \in reader[r].shown : reader[r].cache["ipCache"] = Build(reader[r].net, ow)["ipCache"]
  BY <1>2 DEF Words
<1>5. reader[r].cache.services = nw.serviceNames
  BY <1>3 DEF Build
<1>6. \A i \in V4 : reader[r].cache.ipCache[i] = TunnelIP(ow, i)
  BY <1>4 DEF Build
<1>7. reader[r].shown \subseteq Network
  BY <1>1 DEF Reader
<1> QED
  BY <1>3, <1>4, <1>5, <1>6, <1>7

\* The answer from the copy.
LEMMA ResolveStep ==
    ASSUME Inv, NEW r \in Readers, Resolve(r)
    PROVE  Inv'
<1>1. /\ mode = "running" /\ reader[r].pc = "resolve"
      /\ UNCHANGED <<networks, informer, queue, work, table, mode, dns, bounds>>
  BY DEF Resolve
<1>2. reader[r] # Sleeping /\ reader[r] \in Reader
  BY <1>1, ReaderIdle DEF Inv
<1>3. asks' \in Nat /\ UNCHANGED <<ops, faults>>
  BY <1>1 DEF Inv, TypeOK, bounds
<1>4. reader \in [Readers -> Reader \cup {Sleeping}]
  BY DEF Inv, TypeOK
<1>5. ASSUME NEW rcode \in {"NameError", "ServerFailure"}, Answered(r, rcode, {}),
             rcode = "NameError" => reader[r].question.name[1] \notin reader[r].cache.services
      PROVE  Inv'
  <2> DEFINE x == [reader[r] EXCEPT !.pc = "answered", !.answer = [rcode |-> rcode, ips |-> {}]]
  <2>1. x \in Reader /\ x # Sleeping
    BY <1>2 DEF Reader, Sleeping
  <2>2. reader' = [reader EXCEPT ![r] = x] /\ reader'[r] = x
    BY <1>4, <1>5 DEF Answered
  <2>3. /\ reader'[r].pc = "answered" /\ reader'[r].net = reader[r].net
        /\ reader'[r].shown = reader[r].shown /\ reader'[r].question = reader[r].question
        /\ reader'[r].answer.rcode = rcode
    <3> DEFINE y == reader[r]
               z == reader'[r]
               a == [rcode |-> rcode, ips |-> {}]
    <3>1. y \in Reader /\ z = [y EXCEPT !.pc = "answered", !.answer = a] /\ a.rcode = rcode
      BY <1>2, <2>2
    <3> HIDE DEF y, z, a
    <3>2. /\ z.pc = "answered" /\ z.net = y.net /\ z.shown = y.shown /\ z.question = y.question
          /\ z.answer = a
      BY <3>1 DEF Reader
    <3> QED
      BY <3>1, <3>2 DEF y, z
  <2> HIDE DEF x
  <2>4. RightAnswer(r)'
    BY <1>1, <1>2, <1>5, <2>3, CopyFromShown DEF RightAnswer, Steady
  <2>5. ReaderOK(r)'
    BY <1>1, <1>2, <2>3, AnsweredReader
  <2> QED
    BY <1>1, <1>3, <2>1, <2>2, <2>4, <2>5, OneReader
<1>6. ASSUME NEW found \in Lookups, reader[r].question.name[1] \in reader[r].cache.services,
             NEW ips, ips = {reader[r].cache.ipCache[i] : i \in found \cap V4} \ {NoIP},
             reader' = [reader EXCEPT ![r] = [@ EXCEPT
                 !.pc = "answered", !.found = found,
                 !.answer = [rcode |-> IF ips # {} THEN "Success" ELSE "NameError", ips |-> ips]]]
      PROVE  Inv'
  <2> DEFINE a == [rcode |-> IF ips # {} THEN "Success" ELSE "NameError", ips |-> ips]
             x == [reader[r] EXCEPT !.pc = "answered", !.found = found, !.answer = a]
  <2>1. ips \subseteq TunnelIPs
    BY <1>2, <1>6, ResolverAssumption DEF Reader, NetworkCache
  <2>2. x \in Reader /\ x # Sleeping
    BY <1>2, <2>1 DEF Reader, Sleeping
  <2>3. reader' = [reader EXCEPT ![r] = x] /\ reader'[r] = x
    BY <1>4, <1>6
  <2>4. /\ reader'[r].pc = "answered" /\ reader'[r].net = reader[r].net
        /\ reader'[r].shown = reader[r].shown /\ reader'[r].question = reader[r].question
        /\ reader'[r].answer = a /\ reader'[r].found = found
    <3> DEFINE y == reader[r]
               z == reader'[r]
    <3>1. y \in Reader /\ z = [y EXCEPT !.pc = "answered", !.found = found, !.answer = a]
      BY <1>2, <2>3
    <3> HIDE DEF y, z, a
    <3>2. /\ z.pc = "answered" /\ z.net = y.net /\ z.shown = y.shown /\ z.question = y.question
          /\ z.answer = a /\ z.found = found
      BY <3>1 DEF Reader
    <3> QED
      BY <3>2 DEF y, z
  <2> HIDE DEF x
  <2>5. RightAnswer(r)'
    <3> SUFFICES ASSUME Absent \notin reader[r].shown
                 PROVE  /\ ips # {} =>
                              /\ \E nw \in reader[r].shown :
                                    reader[r].question.name[1] \in nw.serviceNames
                              /\ ips \subseteq UNION {Addresses(nw, found) : nw \in reader[r].shown}
                        /\ ips = {} => \E nw \in reader[r].shown : Addresses(nw, found) = {}
      <4>1. found # Absent
        BY ResolverAssumption
      <4>2. a.ips = ips /\ a.rcode = IF ips # {} THEN "Success" ELSE "NameError"
        OBVIOUS
      <4> HIDE DEF a
      <4> QED
        BY <2>4, <4>1, <4>2 DEF RightAnswer, Steady
    <3>1. reader[r].shown \subseteq Network
      BY <1>1, <1>2, CopyFromShown
    <3>2. \E nw \in reader[r].shown : reader[r].question.name[1] \in nw.serviceNames
      BY <1>1, <1>2, <1>6, CopyFromShown
    <3>3. PICK nw \in reader[r].shown : \A i \in V4 : reader[r].cache.ipCache[i] = TunnelIP(nw, i)
      BY <1>1, <1>2, CopyFromShown
    <3>4. nw \in Network
      BY <3>1
    <3>5. NoIP \notin TunnelV4
      BY ResolverAssumption
    <3>6. ips \subseteq Addresses(nw, found)
      <4> SUFFICES ASSUME NEW i \in found \cap V4, reader[r].cache.ipCache[i] # NoIP
                   PROVE  reader[r].cache.ipCache[i] \in Addresses(nw, found)
        BY <1>6
      <4>1. PICK k : IsLast(nw, i, k) /\ TunnelIP(nw, i) = nw.allocations[k].ip
        BY <3>3, <3>4, TunnelIPFound
      <4> QED
        BY <3>3, <3>4, <4>1, AddressesFound
    <3>7. ips = {} => Addresses(nw, found) = {}
      <4> SUFFICES ASSUME NEW ip \in Addresses(nw, found) PROVE ips # {}
        OBVIOUS
      <4>1. PICK i \in found \cap V4 : \E k : IsLast(nw, i, k)
        BY <3>4, AddressesFound
      <4>2. PICK k : IsLast(nw, i, k) /\ TunnelIP(nw, i) = nw.allocations[k].ip
        BY <3>4, <4>1, TunnelIPFound DEF IsLast
      <4>3. TunnelIP(nw, i) # NoIP
        BY <3>5, <4>2 DEF IsLast, FourByte
      <4> QED
        BY <1>6, <3>3, <4>3
    <3> QED
      BY <3>2, <3>3, <3>6, <3>7
  <2>6. ReaderOK(r)'
    BY <1>1, <1>2, <2>4, AnsweredReader
  <2> QED
    BY <1>1, <1>3, <2>2, <2>3, <2>5, <2>6, OneReader
<1> QED
  BY <1>5, <1>6 DEF Resolve

-------------------------------------------------------------------------------
(* The process and its environment *)

\* A new process starts with an empty map and lists every network.
LEMMA RestartStep ==
    ASSUME Inv, Restart
    PROVE  Inv'
<1>1. \A r \in Readers : reader'[r] = Sleeping
  BY DEF Restart, Inv, ReadersOK
<1>2. Zero \in NetworkCache
  BY DEF Zero, NetworkCache
<1>3. TypeOK'
  BY <1>2 DEF Inv, TypeOK, Restart, bounds
<1>4. KeysOK'
  BY ResolverAssumption DEF Restart, KeysOK
<1>5. WorkOK' /\ MemOK' /\ QueueOK' /\ ReadersOK'
  BY <1>1 DEF Restart, WorkOK, MemOK, Word, QueueOK, ReadersOK, Idle
<1>6. AnsweredFromNetwork' /\ NoFalseDenial'
  BY <1>1 DEF AnsweredFromNetwork, NoFalseDenial, Steady, Sleeping
<1> QED
  BY <1>3, <1>4, <1>5, <1>6 DEF Inv

\* The initial state.
LEMMA InitInv == Init => Inv
<1> SUFFICES ASSUME Init PROVE Inv
  OBVIOUS
<1>1. \A r \in Readers : reader[r] = Sleeping
  BY DEF Init
<1>2. Zero \in NetworkCache
  BY DEF Zero, NetworkCache
<1>3. TypeOK
  BY <1>2, ResolverAssumption DEF Init, TypeOK
<1>4. KeysOK
  BY ResolverAssumption DEF Init, KeysOK
<1>5. WorkOK /\ MemOK /\ QueueOK /\ ReadersOK
  BY <1>1 DEF Init, WorkOK, MemOK, Word, QueueOK, ReadersOK, Idle
<1>6. AnsweredFromNetwork /\ NoFalseDenial
  BY <1>1 DEF AnsweredFromNetwork, NoFalseDenial, Steady, Sleeping
<1> QED
  BY <1>3, <1>4, <1>5, <1>6 DEF Inv

\* Every step preserves the invariant.
LEMMA NextInv == Inv /\ [Next]_vars => Inv'
<1> SUFFICES ASSUME Inv, [Next]_vars PROVE Inv'
  OBVIOUS
<1>1. CASE Unmark
  BY <1>1, UnmarkStep
<1>2. ASSUME NEW w \in Words, Store(w) PROVE Inv'
  BY <1>2, StoreStep
<1>3. ASSUME NEW n \in Networks, ReconcileStart(n) PROVE Inv'
  BY <1>3, ReconcileStartStep
<1>4. ASSUME NEW n \in Networks, Sync(n) PROVE Inv'
  <2>1. TypeOK'
    BY <1>4 DEF Sync, Inv, TypeOK, table, bounds
  <2>2. QueueOK'
    BY <1>4 DEF Sync, Inv, TypeOK, QueueOK, table
  <2>3. UNCHANGED <<work, table, reader, mode>>
    BY <1>4 DEF Sync
  <2> QED
    BY <2>1, <2>2, <2>3, MapUntouched
<1>5. ASSUME NEW r \in Readers, Access(r) PROVE Inv'
  BY <1>5, AccessStep
<1>6. ASSUME NEW r \in Readers, Resolve(r) PROVE Inv'
  BY <1>6, ResolveStep
<1>7. ASSUME NEW r \in Readers, NEW w \in Words, Load(r, w) PROVE Inv'
  BY <1>7, LoadStep
<1>8. ASSUME NEW r \in Readers, NEW q \in Questions, Ask(r, q) PROVE Inv'
  BY <1>8, AskStep
<1>9. CASE Listen \/ ListenFails
  <2>1. TypeOK' /\ QueueOK' /\ UNCHANGED <<work, table, reader, mode>>
    BY <1>9 DEF Listen, ListenFails, Fault, Inv, TypeOK, QueueOK, table, bounds
  <2> QED
    BY <2>1, MapUntouched
<1>10. CASE Exit
  <2>1. faults' \in Nat
    BY <1>10 DEF Exit, Fault, Inv, TypeOK
  <2> QED
    BY <1>10, <2>1, DiesStep DEF Exit
<1>11. CASE Restart
  BY <1>11, RestartStep
<1>12. ASSUME NEW n \in Networks, NEW nw \in Statuses[n] \cup {Absent}, NetworkChange(n, nw) PROVE Inv'
  <2>1. nw \in Network \cup {Absent}
    BY ResolverAssumption
  <2>2. TypeOK'
    BY <1>12, <2>1 DEF NetworkChange, Inv, TypeOK, table
  <2>3. QueueOK' /\ UNCHANGED <<work, table, reader, mode>>
    BY <1>12 DEF NetworkChange, Inv, QueueOK, table
  <2> QED
    BY <2>2, <2>3, MapUntouched
<1>13. CASE UNCHANGED vars
  <2>1. TypeOK' /\ QueueOK' /\ UNCHANGED <<work, table, reader, mode>>
    BY <1>13 DEF vars, Inv, TypeOK, QueueOK, table, bounds
  <2> QED
    BY <2>1, MapUntouched
<1> QED
  BY <1>1, <1>2, <1>3, <1>4, <1>5, <1>6, <1>7, <1>8, <1>9, <1>10, <1>11, <1>12, <1>13
     DEF Next, Worker, Serve

LEMMA InvHolds == Spec => []Inv
  BY InitInv, NextInv, PTL DEF Spec

-------------------------------------------------------------------------------
(* Theorems *)

\* Every variable keeps its type: ip2int is only ever given four byte addresses,
\* mapassign stays within the table, and what a goroutine copies is an entry.
THEOREM TypeCorrect == Spec => []TypeOK
<1>1. Inv => TypeOK
  BY DEF Inv
<1> QED
  BY <1>1, InvHolds, PTL

\* While its network stays in r.cache a request is answered from objects the
\* entry was built from while it was served, although processDnsRequest reads
\* the two words of the entry while Reconcile replaces them and deletes and
\* writes other entries, for any number of requests at once.
THEOREM AnsweredFromNetworkHolds == Spec => []AnsweredFromNetwork
<1>1. Inv => AnsweredFromNetwork
  BY DEF Inv
<1> QED
  BY <1>1, InvHolds, PTL

\* And it is not denied a name that all of those objects list with an overlay
\* address of four bytes.
THEOREM NoFalseDenialHolds == Spec => []NoFalseDenial
<1>1. Inv => NoFalseDenial
  BY DEF Inv
<1> QED
  BY <1>1, InvHolds, PTL

\* A process with nothing left to do has in r.cache exactly the networks, as
\* they are.
THEOREM MapMatchesHolds == Spec => []MapMatches
<1>1. ASSUME Inv PROVE MapMatches
  <2> SUFFICES ASSUME mode = "running", work = Idle, queue = {}, informer = networks, NEW n \in Networks
               PROVE  Entry(n) = IF networks[n] = Absent THEN Absent ELSE Build(n, networks[n])
    BY DEF MapMatches, Mirrors
  <2>1. source[n] = networks[n]
    BY <1>1 DEF Inv, QueueOK
  <2>2. CASE networks[n] = Absent
    BY <1>1, <2>1, <2>2 DEF Inv, KeysOK, Entry, PlaceOf
  <2>3. CASE networks[n] # Absent
    <3>1. PlaceOf(n) # {}
      BY <1>1, <2>1, <2>3 DEF Inv, KeysOK, PlaceOf
    <3>2. PICK s \in Places : key[s] = n /\ Entry(n) = mem[s]
      BY <3>1 DEF Entry, PlaceOf
    <3>3. networks[n] \in Network /\ mem[s] \in NetworkCache
      BY <1>1, <2>3 DEF Inv, TypeOK
    <3>4. \A w \in Words : mem[s][w] = Build(n, networks[n])[w]
      BY <1>1, <2>1, <2>3, <3>2, ResolverAssumption DEF Inv, MemOK, Word, WordOf
    <3>5. mem[s] = Build(n, networks[n])
      BY <3>3, <3>4, BuildType, WordsDecide
    <3> QED
      BY <2>3, <3>2, <3>5
  <2> QED
    BY <2>2, <2>3
<1> QED
  BY <1>1, InvHolds, PTL

===============================================================================
