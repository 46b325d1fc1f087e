------------------------------- MODULE Resolver -------------------------------
(***************************************************************************)
(* The DNS resolver: the DNSReconciler of resolver/ and its process.  One  *)
(* worker writes the map r.cache, one goroutine per DNS request reads it,  *)
(* and nothing synchronises them.                                          *)
(*                                                                         *)
(* What the race does follows from Go's map.  A write (mapassign,          *)
(* mapdelete) marks the map while it searches; a read that meets the mark  *)
(* ends the process with a fatal error.  Both return the place of the      *)
(* entry, and the two words of a NetworkCache (the maps services and       *)
(* ipCache) are stored and loaded one by one after that, without a mark.   *)
(* A deleted entry's place is cleared and goes to the next new key.  Up to *)
(* eight keys share one table that never moves.  The maps a NetworkCache   *)
(* points to are never changed once it is in r.cache, and reading a nil    *)
(* map is reading an empty one.                                            *)
(***************************************************************************)
EXTENDS Integers, FiniteSets, Sequences, FiniteSetsExt

CONSTANTS
    Networks,       \* overlay network names
    Services,       \* names of services of the namespace
    PodIPs,         \* cluster addresses
    V4,             \* those with a four byte form
    TunnelIPs,      \* overlay addresses
    TunnelV4,       \* those with a four byte form
    Statuses,       \* per network, what the API server may hold for it
    Questions,      \* what clients ask
    Lookups,        \* what the cluster's DNS may answer for a service
    Readers,        \* goroutines that serve requests
    Absent,         \* in place of an object that does not exist
    Free,           \* the key of an empty place
    NoIP,           \* in place of an address ipCache does not have
    MaxOps,         \* bound: changes of networks
    MaxAsks,        \* bound: DNS requests
    MaxFaults       \* bound: ends of the process and failures to listen

VARIABLES
    networks,       \* API server: overlay networks
    informer,       \* informer cache of the process
    queue,          \* work queue of the reconciler
    work,           \* the reconciliation under way
    key, mem,       \* r.cache: the key and the two words of every place
    writing,        \* r.cache is marked as being written
    source,         \* history: the object each entry of r.cache was built from
    reader,         \* the goroutines
    mode,           \* "running" or "dead"
    dns,            \* "starting", "listening" or "failed"
    ops, asks, faults   \* what is left of the bounds

table == <<key, mem, writing, source>>
bounds == <<ops, asks, faults>>
vars == <<networks, informer, queue, work, table, reader, mode, dns, bounds>>

Network == [serviceNames : SUBSET Services, allocations : Seq([podIP : PodIPs, ip : TunnelIPs])]

NetworkCache == [services : SUBSET Services, ipCache : [V4 -> TunnelV4 \cup {NoIP}]]

Words == {"services", "ipCache"}

\* The places of a table that holds every network; a new key takes the first.
Places == 1 .. Cardinality(Networks)

Question == [query : BOOLEAN, type : {"A", "other"}, name : Seq(Services \cup Networks)]

ASSUME ResolverAssumption ==
    /\ IsFiniteSet(Networks) /\ Cardinality(Networks) \in 1 .. 8
    /\ V4 \subseteq PodIPs /\ TunnelV4 \subseteq TunnelIPs
    /\ Statuses \in [Networks -> SUBSET Network]
    /\ Questions \subseteq Question
    /\ Lookups \subseteq SUBSET PodIPs
    /\ Absent \notin Network /\ Absent \notin NetworkCache /\ Absent \notin Lookups
    /\ Free \notin Networks /\ NoIP \notin TunnelIPs
    /\ MaxOps \in Nat /\ MaxAsks \in Nat /\ MaxFaults \in Nat

Zero == [services |-> {}, ipCache |-> [i \in V4 |-> NoIP]]

PlaceOf(n) == {s \in Places : key[s] = n}

\* What r.cache holds for n.
Entry(n) == IF PlaceOf(n) = {} THEN Absent ELSE mem[CHOOSE s \in PlaceOf(n) : TRUE]

-------------------------------------------------------------------------------
(* DNSReconciler.Reconcile *)

Idle == [pc |-> "idle"]

Work == [pc : {"marked", "storing"}, net : Networks, place : Places \cup {0},
         old : Network \cup {Absent}, new : NetworkCache \cup {Absent}, left : SUBSET Words]

\* Mutant: only the cluster address is checked.
FourBytePods(nw) ==
    {k \in DOMAIN nw.allocations : nw.allocations[k].podIP \in V4}

\* The allocations of which both addresses have a four byte form: podIp and
\* tunnelIp are not nil.
FourByte(nw) ==
    {k \in DOMAIN nw.allocations : nw.allocations[k].podIP \in V4 /\ nw.allocations[k].ip \in TunnelV4}

\* The overlay address that Reconcile's loop leaves for a cluster address: that
\* of the last allocation, when there are several.
TunnelIP(nw, podIP) ==
    LET found == {k \in FourByte(nw) : nw.allocations[k].podIP = podIP}
    IN  IF found = {} THEN NoIP ELSE nw.allocations[Max(found)].ip

\* Mutant: the new entry starts from the addresses of the one it replaces.
BuildOnOld(n, nw) ==
    [services |-> nw.serviceNames,
     ipCache |-> [i \in V4 |-> IF TunnelIP(nw, i) = NoIP /\ Entry(n) # Absent
                               THEN Entry(n).ipCache[i] ELSE TunnelIP(nw, i)]]

\* The NetworkCache of network n, whose object is nw.
Build(n, nw) ==
    [services |-> nw.serviceNames, ipCache |-> [i \in V4 |-> TunnelIP(nw, i)]]

\* The history of the map and of the requests under way: every object whose
\* entry r.cache held for the asked network, or was being given, since the
\* request came.
Remember(n, object) ==
    /\ source' = [source EXCEPT ![n] = object]
    /\ reader' = [r \in Readers |-> IF reader[r].pc # "idle" /\ reader[r].net = n
                                    THEN [reader[r] EXCEPT !.shown = @ \cup {object}] ELSE reader[r]]

\* Mutant: an entry whose network is gone stays.
ForgetNothing(n) == FALSE

\* Does the reconciliation of a network that is gone write to the map?  delete
\* leaves an empty map alone.
Forgets(n) == \E s \in Places : key[s] # Free

\* mapdelete: mark the map and clear the entry.
Delete(n) ==
    /\ Forgets(n)
    /\ writing' = TRUE
    /\ key' = [s \in Places |-> IF key[s] = n THEN Free ELSE key[s]]
    /\ mem' = [s \in Places |-> IF key[s] = n THEN Zero ELSE mem[s]]
    /\ work' = [pc |-> "marked", net |-> n, place |-> 0, old |-> Absent, new |-> Absent, left |-> {}]
    /\ Remember(n, Absent)

\* Mutant: the entry is deleted before it is written anew.
AssignAfterDelete(n, nw) ==
    LET place == IF PlaceOf(n) # {} THEN Min(PlaceOf(n)) ELSE Min({s \in Places : key[s] = Free})
    IN  /\ writing' = TRUE
        /\ key' = [key EXCEPT ![place] = n]
        /\ mem' = [mem EXCEPT ![place] = Zero]
        /\ work' = [pc |-> "marked", net |-> n, place |-> place, old |-> source[n], new |-> Build(n, nw),
                    left |-> Words]
        /\ Remember(n, nw)

\* mapassign: mark the map and find the place of the entry, a new one for a
\* key that is not there.  Its words are stored later.
Assign(n, nw) ==
    LET place == IF PlaceOf(n) # {} THEN Min(PlaceOf(n)) ELSE Min({s \in Places : key[s] = Free})
    IN  /\ writing' = TRUE
        /\ key' = [key EXCEPT ![place] = n]
        /\ work' = [pc |-> "marked", net |-> n, place |-> place, old |-> source[n], new |-> Build(n, nw),
                    left |-> Words]
        /\ Remember(n, nw)
        /\ UNCHANGED mem

\* Reconcile up to the mark on the map: read the network from the informer's
\* cache, then delete or write its entry.
ReconcileStart(n) ==
    /\ mode = "running" /\ work = Idle
    /\ n \in queue
    /\ queue' = queue \ {n}
    /\ \/ informer[n] # Absent /\ Assign(n, informer[n])
       \/ informer[n] = Absent /\ Delete(n)
       \/ informer[n] = Absent /\ ~Forgets(n) /\ UNCHANGED <<work, table, reader>>
    /\ UNCHANGED <<networks, informer, mode, dns, bounds>>

\* The mark is taken off.
Unmark ==
    /\ mode = "running"
    /\ work.pc = "marked"
    /\ writing' = FALSE
    /\ work' = IF work.left = {} THEN Idle ELSE [work EXCEPT !.pc = "storing"]
    /\ UNCHANGED <<networks, informer, queue, key, mem, source, reader, mode, dns, bounds>>

\* Mutant: only one of the words is replaced.
StoreOne(w) ==
    /\ mode = "running"
    /\ work.pc = "storing"
    /\ w \in work.left
    /\ mem' = [mem EXCEPT ![work.place] = [@ EXCEPT ![w] = work.new[w]]]
    /\ work' = Idle
    /\ UNCHANGED <<networks, informer, queue, key, writing, source, reader, mode, dns, bounds>>

\* One word of the entry is stored; after both Reconcile returns.
Store(w) ==
    /\ mode = "running"
    /\ work.pc = "storing"
    /\ w \in work.left
    /\ mem' = [mem EXCEPT ![work.place] = [@ EXCEPT ![w] = work.new[w]]]
    /\ work' = IF work.left = {w} THEN Idle ELSE [work EXCEPT !.left = @ \ {w}]
    /\ UNCHANGED <<networks, informer, queue, key, writing, source, reader, mode, dns, bounds>>

-------------------------------------------------------------------------------
(* Requests *)

NoAnswer == [rcode |-> "none", ips |-> {}]

Sleeping == [pc |-> "idle"]

Reader == [pc : {"access", "load", "resolve", "answered"}, question : Questions,
           net : Networks \cup Services, place : Places \cup {0},
           cache : NetworkCache, left : SUBSET Words,
           shown : SUBSET (Network \cup {Absent}), found : Lookups \cup {Absent},
           answer : [rcode : {"none", "NotImplemented", "NameError", "ServerFailure", "Success"},
                     ips : SUBSET TunnelIPs]]

Answered(r, rcode, ips) ==
    reader' = [reader EXCEPT ![r] = [@ EXCEPT !.pc = "answered",
                                              !.answer = [rcode |-> rcode, ips |-> ips]]]

\* The answers that need no look at the map: handleDnsRequest, and
\* processDnsRequest when the name does not have two labels before the zone.
Refusal(q) ==
    IF ~q.query THEN "NotImplemented"
    ELSE IF q.type # "A" \/ Len(q.name) # 2 THEN "NameError" ELSE "none"

\* The objects whose entries r.cache holds for n, or is being given.
Shown(n) ==
    {IF n \in Networks THEN source[n] ELSE Absent} \cup
    (IF work # Idle /\ work.new # Absent /\ work.net = n THEN {work.old} ELSE {})

\* A request comes in.
Ask(r, q) ==
    /\ asks > 0 /\ asks' = asks - 1
    /\ mode = "running" /\ dns = "listening"
    /\ reader[r].pc \in {"idle", "answered"}
    /\ LET net == IF Len(q.name) = 2 THEN q.name[2] ELSE CHOOSE n \in Networks : TRUE
       IN  reader' = [reader EXCEPT ![r] =
              [pc |-> IF Refusal(q) = "none" THEN "access" ELSE "answered",
               question |-> q, net |-> net, place |-> 0, cache |-> Zero, left |-> Words,
               shown |-> Shown(net), found |-> Absent,
               answer |-> [NoAnswer EXCEPT !.rcode = Refusal(q)]]]
    /\ UNCHANGED <<networks, informer, queue, work, table, mode, dns, ops, faults>>

\* The process ends, with every request it was serving.
Dies == mode' = "dead" /\ reader' = [r \in Readers |-> Sleeping]

\* The look into r.cache.  It is fatal while the map is marked, unless it has
\* no key yet but the one that is being written, or none any more.
Access(r) ==
    /\ mode = "running"
    /\ reader[r].pc = "access"
    /\ \/ /\ ~writing
          /\ PlaceOf(reader[r].net) # {}
          /\ reader' = [reader EXCEPT ![r] =
                [@ EXCEPT !.pc = "load", !.place = Min(PlaceOf(reader[r].net))]]
          /\ UNCHANGED mode
       \/ /\ ~writing
          /\ PlaceOf(reader[r].net) = {}
          /\ Answered(r, "NameError", {})
          /\ UNCHANGED mode
       \/ /\ writing
          /\ \A s \in Places : key[s] # Free => s = work.place /\ work.old = Absent
          /\ Answered(r, "NameError", {})
          /\ UNCHANGED mode
       \/ writing /\ Dies
    /\ UNCHANGED <<networks, informer, queue, work, table, dns, bounds>>

\* One word of the entry is copied, whatever its place holds by now.
Load(r, w) ==
    /\ mode = "running"
    /\ reader[r].pc = "load"
    /\ w \in reader[r].left
    /\ reader' = [reader EXCEPT ![r] = [reader[r] EXCEPT
          !.cache = [@ EXCEPT ![w] = mem[reader[r].place][w]],
          !.left = @ \ {w},
          !.pc = IF reader[r].left = {w} THEN "resolve" ELSE "load"]]
    /\ UNCHANGED <<networks, informer, queue, work, table, mode, dns, bounds>>

\* The rest of processDnsRequest on the copy: the service must be listed, the
\* cluster's DNS names its pods, their overlay addresses are the answer.
Resolve(r) ==
    /\ mode = "running"
    /\ reader[r].pc = "resolve"
    /\ \/ /\ reader[r].question.name[1] \notin reader[r].cache.services
          /\ Answered(r, "NameError", {})
       \/ /\ reader[r].question.name[1] \in reader[r].cache.services
          /\ Answered(r, "ServerFailure", {})
       \/ /\ reader[r].question.name[1] \in reader[r].cache.services
          /\ \E found \in Lookups :
                LET ips == {reader[r].cache.ipCache[i] : i \in found \cap V4} \ {NoIP}
                IN  reader' = [reader EXCEPT ![r] = [@ EXCEPT
                       !.pc = "answered", !.found = found,
                       !.answer = [rcode |-> IF ips # {} THEN "Success" ELSE "NameError", ips |-> ips]]]
    /\ UNCHANGED <<networks, informer, queue, work, table, mode, dns, bounds>>

-------------------------------------------------------------------------------
(* The process and its environment *)

\* ServeDNS binds its port, next to the manager that starts.
Listen ==
    /\ mode = "running" /\ dns = "starting"
    /\ dns' = "listening"
    /\ UNCHANGED <<networks, informer, queue, work, table, reader, mode, bounds>>

Fault == faults > 0 /\ faults' = faults - 1

\* ServeDNS cannot bind: the error is logged, the process goes on without it.
ListenFails ==
    /\ Fault
    /\ mode = "running" /\ dns = "starting"
    /\ dns' = "failed"
    /\ UNCHANGED <<networks, informer, queue, work, table, reader, mode, ops, asks>>

\* SIGTERM or a crash.
Exit ==
    /\ Fault
    /\ mode = "running"
    /\ Dies
    /\ UNCHANGED <<networks, informer, queue, work, table, dns, ops, asks>>

\* main: an empty map, informers that list every network, a goroutine for DNS.
Restart ==
    /\ mode = "dead"
    /\ mode' = "running"
    /\ informer' = networks
    /\ queue' = {n \in Networks : networks[n] # Absent}
    /\ work' = Idle
    /\ key' = [s \in Places |-> Free]
    /\ mem' = [s \in Places |-> Zero]
    /\ writing' = FALSE
    /\ source' = [n \in Networks |-> Absent]
    /\ dns' = "starting"
    /\ UNCHANGED <<networks, reader, bounds>>

\* The watch brings the informer's cache up to date and queues the network.
Sync(n) ==
    /\ mode = "running"
    /\ informer[n] # networks[n]
    /\ informer' = [informer EXCEPT ![n] = networks[n]]
    /\ queue' = queue \cup {n}
    /\ UNCHANGED <<networks, work, table, reader, mode, dns, bounds>>

\* The operator or a user changes, creates or removes a network.
NetworkChange(n, nw) ==
    /\ ops > 0 /\ ops' = ops - 1
    /\ nw # networks[n]
    /\ networks' = [networks EXCEPT ![n] = nw]
    /\ UNCHANGED <<informer, queue, work, table, reader, mode, dns, asks, faults>>

Init ==
    /\ networks = [n \in Networks |-> Absent]
    /\ informer = networks
    /\ queue = {}
    /\ work = Idle
    /\ key = [s \in Places |-> Free]
    /\ mem = [s \in Places |-> Zero]
    /\ writing = FALSE
    /\ source = [n \in Networks |-> Absent]
    /\ reader = [r \in Readers |-> Sleeping]
    /\ mode = "running"
    /\ dns = "starting"
    /\ ops = MaxOps /\ asks = MaxAsks /\ faults = MaxFaults

Worker == Unmark \/ \E w \in Words : Store(w)

Serve(r) == Access(r) \/ Resolve(r) \/ \E w \in Words : Load(r, w)

Next ==
    \/ Worker
    \/ \E n \in Networks : ReconcileStart(n) \/ Sync(n)
    \/ \E r \in Readers : Serve(r) \/ \E q \in Questions : Ask(r, q)
    \/ Listen \/ ListenFails \/ Exit \/ Restart
    \/ \E n \in Networks : \E nw \in Statuses[n] \cup {Absent} : NetworkChange(n, nw)

Spec == Init /\ [][Next]_vars

\* The informer delivers, the worker serves its queue in turn, goroutines are
\* scheduled, and the kubelet restarts the container.
Fairness ==
    /\ WF_vars(Worker) /\ WF_vars(Restart) /\ WF_vars(Listen)
    /\ \A n \in Networks : SF_vars(ReconcileStart(n)) /\ WF_vars(Sync(n))
    /\ \A r \in Readers : WF_vars(Serve(r))

FairSpec == Spec /\ Fairness

-------------------------------------------------------------------------------
(* Properties *)

\* Every variable has its type; ip2int is only given four byte addresses.
TypeOK ==
    /\ networks \in [Networks -> Network \cup {Absent}]
    /\ informer \in [Networks -> Network \cup {Absent}]
    /\ queue \subseteq Networks
    /\ work = Idle \/ work \in Work
    /\ key \in [Places -> Networks \cup {Free}]
    /\ mem \in [Places -> NetworkCache]
    /\ writing \in BOOLEAN
    /\ source \in [Networks -> Network \cup {Absent}]
    /\ reader \in [Readers -> Reader \cup {Sleeping}]
    /\ mode \in {"running", "dead"}
    /\ dns \in {"starting", "listening", "failed"}
    /\ ops \in Nat /\ asks \in Nat /\ faults \in Nat

\* The request was answered after a look at the map, and the asked network had
\* an entry all the time.
Steady(r) ==
    /\ reader[r].pc = "answered"
    /\ Refusal(reader[r].question) = "none"
    /\ Absent \notin reader[r].shown

\* The overlay addresses the object nw gives the pods at the cluster addresses
\* found: the resolver's answers know four byte addresses only, so a network of others gives none.
\* A cluster address listed twice, for a dead pod and for the one that has it
\* now, stands for the later one.
Addresses(nw, found) ==
    LET usable == {a \in [podIP : found \cap V4, ip : TunnelV4] :
                      \E k \in DOMAIN nw.allocations :
                          /\ nw.allocations[k] = a
                          /\ \A l \in DOMAIN nw.allocations :
                                l > k /\ nw.allocations[l].podIP = a.podIP =>
                                    nw.allocations[l].ip \notin TunnelV4}
    IN  {a.ip : a \in usable}

\* As long as its network stays in the map, a request is answered from objects
\* the map was built from while it was served: the service was listed, and every
\* address is the overlay address of one of the service's pods in that network.
\* The two need not be of the same moment, as the words of an entry are read one
\* by one while the reconciler replaces them (processDnsRequest reads r.cache
\* without a lock).
AnsweredFromNetwork ==
    \A r \in Readers : Steady(r) /\ reader[r].answer.rcode = "Success" =>
        /\ \E nw \in reader[r].shown : reader[r].question.name[1] \in nw.serviceNames
        /\ reader[r].answer.ips \subseteq UNION {Addresses(nw, reader[r].found) : nw \in reader[r].shown}

\* A name that resolves all the time is never denied, although its entry is
\* replaced in two steps under the reader: if it is, one of the objects did not
\* list the service, or had no four byte address for the pods the cluster's DNS
\* named.  Names of a network with IPv6 addresses only are therefore denied.
NoFalseDenial ==
    \A r \in Readers : Steady(r) /\ reader[r].answer.rcode = "NameError" =>
        \E nw \in reader[r].shown :
            \/ reader[r].question.name[1] \notin nw.serviceNames
            \/ reader[r].found # Absent /\ Addresses(nw, reader[r].found) = {}

\* What the map holds once the networks stop changing.
Mirrors ==
    \A n \in Networks : Entry(n) =
        IF networks[n] = Absent THEN Absent ELSE Build(n, networks[n])

\* A process with nothing left to do has every network in its map as it is, word
\* by word, and no other, whatever order the changes, the deletions and the reuse
\* of places came in (Reconcile is the only writer of r.cache).
MapMatches ==
    mode = "running" /\ work = Idle /\ queue = {} /\ informer = networks => Mirrors

\* When the networks stop changing the map holds exactly them, also after the
\* fatal errors and restarts on the way.
MapConverges ==
    <>[](mode = "running" /\ work = Idle /\ Mirrors)
===============================================================================
