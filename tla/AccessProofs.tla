----------------------------- MODULE AccessProofs -----------------------------
(***************************************************************************)
(* Theorems about module Access: the types, and that the controller never  *)
(* turns away from a namespace it has not served.  They hold for any       *)
(* number of namespaces and any bounds, in old and in new clusters.        *)
(***************************************************************************)
EXTENDS Access, TLAPS

-------------------------------------------------------------------------------
(* The inductive invariant *)

\* A namespace nobody deleted or tampered with loses nothing.
Whole(n) ==
    /\ phase[n] # "terminating"
    /\ n \notin orphaned
    /\ "secret" \in has[n] => "account" \in has[n]

\* What the caches show of it is still there.
Views(n) ==
    /\ seen[n] \subseteq has[n]
    /\ account[n].exists => "account" \in has[n]
    /\ account[n].listed => n \in listed
    /\ hook[n].listed => n \in listed

\* A reconciliation of it has done what lies behind it, and the account it read
\* is what it was.
WorkOK(n) ==
    work # Idle /\ work.ns = n =>
        /\ "account" \in has[n]
        /\ work.sa # None /\ work.sa.listed => n \in listed
        /\ work.pc = "role" => n \in listed \/ "secret" \in has[n]

\* Its pods mount a listed secret that is there, or the token secret.
PodsOK(n) ==
    \A p \in pods : p.ns = n => (p.secret = "auto" /\ n \in listed) \/ p.secret = "token"

\* New clusters list no secrets.
LegacyOK == ~legacy => listed = {}

Inv ==
    /\ TypeOK
    /\ LegacyOK
    /\ \A n \in pristine : Whole(n) /\ Views(n) /\ WorkOK(n) /\ PodsOK(n)
    /\ NoneForgotten

LEMMA IdleIsNotWork == Idle \notin Work
BY DEF Idle, Work

\* An account as the API server shows it.
LEMMA AccountFields ==
    ASSUME NEW n
    PROVE  /\ Account(n) \in AccountView
           /\ Account(n).exists <=> "account" \in has[n]
           /\ Account(n).listed <=> n \in listed
<1> DEFINE e == "account" \in has[n]
           l == n \in listed
<1>1. e \in BOOLEAN /\ l \in BOOLEAN /\ Account(n) = [exists |-> e, listed |-> l]
  BY DEF Account
<1> HIDE DEF e, l
<1>2. Account(n) \in AccountView /\ Account(n).exists = e /\ Account(n).listed = l
  BY <1>1 DEF AccountView
<1> QED
  BY <1>2 DEF e, l

LEMMA InitInv == Init => Inv
<1> SUFFICES ASSUME Init PROVE Inv
  OBVIOUS
<1>1. \A n \in Namespaces : account[n] = Account(n) /\ hook[n] = Account(n)
  BY DEF Init
<1>2. account \in [Namespaces -> AccountView] /\ hook \in [Namespaces -> AccountView]
  BY AccountFields DEF Init
<1>3. TypeOK
  BY <1>2, AccessAssumption DEF Init, TypeOK
<1>4. ASSUME NEW n \in pristine PROVE Whole(n) /\ Views(n) /\ WorkOK(n) /\ PodsOK(n)
  BY <1>1, <1>4, AccountFields DEF Init, Whole, Views, WorkOK, PodsOK
<1> QED
  BY <1>3, <1>4 DEF Init, Inv, LegacyOK, NoneForgotten

-------------------------------------------------------------------------------
(* The controller *)

\* What an object that is created, or is not, does to the namespaces.
LEMMA Grown ==
    ASSUME TypeOK, NEW n \in Namespaces, NEW kind \in Kinds,
           has' = has \/ has' = [has EXCEPT ![n] = @ \cup {kind}]
    PROVE  /\ has' \in [Namespaces -> SUBSET Kinds]
           /\ \A m \in Namespaces : has[m] \subseteq has'[m]
           /\ \A m \in Namespaces : m # n => has'[m] = has[m]
           /\ has'[n] \subseteq has[n] \cup {kind}
BY DEF TypeOK

\* A step of the controller keeps the invariant if what it creates and where it
\* goes on, or stops, is right for the namespace it works on.
LEMMA ControllerStep ==
    ASSUME Inv, TypeOK',
           UNCHANGED <<phase, listed, filled, orphaned, pods, legacy, events, pristine, caches>>,
           \A m \in Namespaces : has[m] \subseteq has'[m],
           \A m \in pristine : "secret" \in has'[m] => "account" \in has'[m],
           \A m \in pristine : WorkOK(m)',
           \A m \in pristine : phase[m] = "active" /\ Pending(m) => Pending(m)' \/ Provided(m)'
    PROVE  Inv'
<1>1. pristine \subseteq Namespaces
  BY DEF Inv, TypeOK
<1>2. LegacyOK'
  BY DEF Inv, LegacyOK
<1>3. ASSUME NEW m \in pristine PROVE Whole(m)' /\ Views(m)' /\ PodsOK(m)'
  BY <1>1, <1>3 DEF Inv, Whole, Views, PodsOK, caches
<1>4. ASSUME NEW m \in pristine, phase[m] = "active" PROVE Pending(m)' \/ Provided(m)'
  <2>1. CASE Pending(m)
    BY <1>4, <2>1
  <2>2. CASE Provided(m)
    BY <1>1, <1>4, <2>2 DEF Provided
  <2> QED
    BY <1>4, <2>1, <2>2 DEF Inv, NoneForgotten
<1> QED
  BY <1>2, <1>3, <1>4 DEF Inv, NoneForgotten

LEMMA ReconcileAccountInv == ASSUME Inv, NEW n \in Namespaces, ReconcileAccount(n) PROVE Inv'
<1> USE DEF Inv
<1>1. /\ work = Idle /\ n \in queue
      /\ UNCHANGED <<phase, listed, filled, orphaned, pods, legacy, events, pristine, caches, ops, admits>>
  BY DEF ReconcileAccount
<1>2. has' = has \/ has' = [has EXCEPT ![n] = @ \cup {"account"}]
  BY DEF ReconcileAccount, Create
<1>3. /\ has' \in [Namespaces -> SUBSET Kinds]
      /\ \A m \in Namespaces : has[m] \subseteq has'[m]
      /\ \A m \in Namespaces : m # n => has'[m] = has[m]
      /\ has'[n] \subseteq has[n] \cup {"account"}
  BY <1>2, Grown DEF Kinds
<1>4. \/ Requeue(n)
      \/ account[n].exists /\ AfterAccount(n, account[n])
      \/ has' = [has EXCEPT ![n] = @ \cup {"account"}] /\ AfterAccount(n, None)
  BY DEF ReconcileAccount, Create
<1>5. \/ Requeue(n)
      \/ /\ queue' = queue \ {n}
         /\ \E sa \in AccountView \cup {None} :
               /\ work' = [pc |-> "secret", ns |-> n, sa |-> sa]
               /\ n \in pristine => "account" \in has'[n]
               /\ sa # None => sa = account[n]
  <2>1. n \in pristine /\ account[n].exists => "account" \in has'[n]
    BY <1>3 DEF Views
  <2>2. has' = [has EXCEPT ![n] = @ \cup {"account"}] => "account" \in has'[n]
    BY DEF TypeOK
  <2>3. account[n] \in AccountView
    BY DEF TypeOK
  <2> QED
    BY <1>4, <2>1, <2>2, <2>3 DEF AfterAccount
<1>6. faults' \in Nat
  BY DEF ReconcileAccount, Create, Lost, TypeOK
<1>7. pristine \subseteq Namespaces
  BY DEF TypeOK
<1>8. CASE Requeue(n)
  <2>1. work' = Idle /\ queue' = queue \cup {n}
    BY <1>8 DEF Requeue
  <2>2. TypeOK'
    BY <1>1, <1>3, <1>6, <2>1 DEF TypeOK, caches
  <2>3. \A m \in pristine : WorkOK(m)'
    BY <2>1 DEF WorkOK
  <2>4. \A m \in pristine : "secret" \in has'[m] => "account" \in has'[m]
    BY <1>3, <1>7 DEF Whole
  <2>5. \A m \in pristine : Pending(m) => Pending(m)'
    BY <1>1, <2>1 DEF Pending
  <2> QED
    BY <1>1, <1>3, <2>2, <2>3, <2>4, <2>5, ControllerStep
<1>9. ASSUME queue' = queue \ {n}, NEW sa \in AccountView \cup {None},
             work' = [pc |-> "secret", ns |-> n, sa |-> sa],
             n \in pristine => "account" \in has'[n], sa # None => sa = account[n]
      PROVE  Inv'
  <2>1. work' \in Work /\ work' # Idle /\ work'.ns = n /\ work'.pc = "secret" /\ work'.sa = sa
    BY <1>9 DEF Work, Idle
  <2>2. TypeOK'
    BY <1>1, <1>3, <1>6, <1>9, <2>1 DEF TypeOK, caches
  <2>3. \A m \in pristine : WorkOK(m)'
    BY <1>1, <1>9, <2>1 DEF WorkOK, Views
  <2>4. \A m \in pristine : "secret" \in has'[m] => "account" \in has'[m]
    BY <1>3, <1>7 DEF Whole
  <2>5. \A m \in pristine : Pending(m) => Pending(m)'
    BY <1>1, <1>9, <2>1 DEF Pending
  <2> QED
    BY <1>1, <1>3, <2>2, <2>3, <2>4, <2>5, ControllerStep
<1> QED
  BY <1>5, <1>8, <1>9

LEMMA ReconcileSecretInv == ASSUME Inv, ReconcileSecret PROVE Inv'
<1> USE DEF Inv
<1>1. /\ work.pc = "secret"
      /\ UNCHANGED <<phase, listed, filled, orphaned, pods, legacy, events, pristine, caches, ops, admits>>
  BY DEF ReconcileSecret
<1>2. work # Idle /\ work \in Work /\ work.ns \in Namespaces
  BY <1>1 DEF TypeOK, Idle, Work
<1> DEFINE n == work.ns
<1>3. has' = has \/ (work.sa # None /\ has' = [has EXCEPT ![n] = @ \cup {"secret"}])
  BY DEF ReconcileSecret, Create
<1>4. /\ has' \in [Namespaces -> SUBSET Kinds]
      /\ \A m \in Namespaces : has[m] \subseteq has'[m]
      /\ \A m \in Namespaces : m # n => has'[m] = has[m]
      /\ has'[n] \subseteq has[n] \cup {"secret"}
  BY <1>2, <1>3, Grown DEF Kinds
<1>5. \/ Requeue(n)
      \/ /\ AfterSecret
         /\ \/ ~NeedsSecret(work.sa)
            \/ "secret" \in seen[n]
            \/ has' = [has EXCEPT ![n] = @ \cup {"secret"}]
  BY DEF ReconcileSecret, Create, SecretFails
<1>6. faults' \in Nat
  BY DEF ReconcileSecret, Create, Lost, TypeOK
<1>7. pristine \subseteq Namespaces
  BY DEF TypeOK
<1>8. \A m \in pristine : "secret" \in has'[m] => "account" \in has'[m]
  BY <1>2, <1>4, <1>7 DEF Whole, WorkOK
<1>9. CASE Requeue(n)
  <2>1. work' = Idle /\ queue' = queue \cup {n}
    BY <1>9 DEF Requeue
  <2>2. TypeOK'
    BY <1>1, <1>2, <1>4, <1>6, <2>1 DEF TypeOK, caches
  <2>3. \A m \in pristine : WorkOK(m)'
    BY <2>1 DEF WorkOK
  <2>4. \A m \in pristine : Pending(m) => Pending(m)'
    BY <1>1, <2>1 DEF Pending
  <2> QED
    BY <1>1, <1>4, <1>8, <2>2, <2>3, <2>4, ControllerStep
<1>10. CASE AfterSecret /\ (~NeedsSecret(work.sa) \/ "secret" \in seen[n]
                             \/ has' = [has EXCEPT ![n] = @ \cup {"secret"}])
  <2>1. /\ queue' = queue /\ work' \in Work /\ work'.ns = n /\ work'.pc = "role" /\ work'.sa = work.sa
    BY <1>2, <1>10 DEF AfterSecret, Work
  <2>2. work' # Idle
    BY <2>1, IdleIsNotWork
  <2>3. TypeOK'
    BY <1>1, <1>4, <1>6, <2>1 DEF TypeOK, caches
  <2>4. n \in pristine => n \in listed \/ "secret" \in has'[n]
    <3>1. CASE ~NeedsSecret(work.sa)
      BY <1>2, <3>1 DEF NeedsSecret, WorkOK
    <3>2. CASE "secret" \in seen[n]
      BY <1>2, <1>4, <3>2 DEF Views
    <3>3. CASE has' = [has EXCEPT ![n] = @ \cup {"secret"}]
      BY <1>2, <3>3 DEF TypeOK
    <3> QED
      BY <1>10, <3>1, <3>2, <3>3
  <2>5. ASSUME NEW m \in pristine PROVE WorkOK(m)'
    BY <1>1, <1>2, <1>4, <1>7, <2>1, <2>4, <2>5 DEF WorkOK
  <2>6. \A m \in pristine : Pending(m) => Pending(m)'
    BY <1>1, <2>1, <2>2 DEF Pending
  <2> QED
    BY <1>1, <1>4, <1>8, <2>3, <2>5, <2>6, ControllerStep
<1> QED
  BY <1>5, <1>9, <1>10

LEMMA ReconcileRoleInv == ASSUME Inv, ReconcileRole PROVE Inv'
<1> USE DEF Inv
<1>1. /\ work.pc = "role"
      /\ UNCHANGED <<phase, listed, filled, orphaned, pods, legacy, events, pristine, caches, ops, admits>>
  BY DEF ReconcileRole
<1>2. work # Idle /\ work \in Work /\ work.ns \in Namespaces
  BY <1>1 DEF TypeOK, Idle, Work
<1> DEFINE n == work.ns
<1>3. has' = has \/ has' = [has EXCEPT ![n] = @ \cup {"role"}]
  BY DEF ReconcileRole, Create
<1>4. /\ has' \in [Namespaces -> SUBSET Kinds]
      /\ \A m \in Namespaces : has[m] \subseteq has'[m]
      /\ \A m \in Namespaces : m # n => has'[m] = has[m]
      /\ has'[n] \subseteq has[n] \cup {"role"}
  BY <1>2, <1>3, Grown DEF Kinds
<1>5. \/ Requeue(n)
      \/ Done /\ ("role" \in seen[n] \/ has' = [has EXCEPT ![n] = @ \cup {"role"}])
  BY DEF ReconcileRole, Create, RoleFails
<1>6. faults' \in Nat
  BY DEF ReconcileRole, Create, Lost, TypeOK
<1>7. pristine \subseteq Namespaces
  BY DEF TypeOK
<1>8. \A m \in pristine : "secret" \in has'[m] => "account" \in has'[m]
  BY <1>2, <1>4, <1>7 DEF Whole
<1>9. work' = Idle /\ queue' \subseteq Namespaces
  BY <1>2, <1>5 DEF Requeue, Done, TypeOK
<1>10. TypeOK'
  BY <1>1, <1>4, <1>6, <1>9 DEF TypeOK, caches
<1>11. \A m \in pristine : WorkOK(m)'
  BY <1>9 DEF WorkOK
<1>12. ASSUME NEW m \in pristine, Pending(m) PROVE Pending(m)' \/ Provided(m)'
  <2>1. CASE Requeue(n) \/ m # n
    BY <1>1, <1>5, <1>12, <2>1 DEF Pending, Requeue, Done
  <2>2. CASE m = n /\ ("role" \in seen[n] \/ has' = [has EXCEPT ![n] = @ \cup {"role"}])
    <3>1. "role" \in has'[n]
      BY <1>2, <1>4, <1>12, <2>2 DEF Views, TypeOK
    <3>2. "account" \in has'[n] /\ (n \in listed \/ "secret" \in has'[n])
      BY <1>1, <1>2, <1>4, <1>12, <2>2 DEF WorkOK
    <3>3. LegacyOK' /\ PodsOK(m)'
      BY <1>1, <1>12, <2>2 DEF LegacyOK, PodsOK
    <3> QED
      BY <1>1, <2>2, <3>1, <3>2, <3>3 DEF LegacyOK, PodsOK, Provided
  <2> QED
    BY <1>5, <2>1, <2>2
<1> QED
  BY <1>1, <1>4, <1>8, <1>10, <1>11, <1>12, ControllerStep

-------------------------------------------------------------------------------
(* Caches, events and restarts *)

\* A step that changes no object and forgets no key keeps the invariant if the
\* caches show what is there.
LEMMA ViewStep ==
    ASSUME Inv, TypeOK',
           UNCHANGED <<phase, has, listed, filled, orphaned, pods, legacy, pristine>>,
           work' = work \/ work' = Idle,
           \A m \in pristine : Views(m)',
           \A m \in pristine : phase[m] = "active" /\ Pending(m) => Pending(m)'
    PROVE  Inv'
<1>1. ASSUME NEW m \in pristine PROVE Whole(m)' /\ WorkOK(m)' /\ PodsOK(m)'
  BY <1>1 DEF Inv, Whole, WorkOK, PodsOK
<1>2. LegacyOK'
  BY DEF Inv, LegacyOK
<1>3. ASSUME NEW m \in pristine, phase[m] = "active" PROVE Pending(m)' \/ Provided(m)'
  BY <1>3 DEF Inv, NoneForgotten, Provided
<1> QED
  BY <1>1, <1>2, <1>3 DEF Inv, NoneForgotten

LEMMA SyncInv == ASSUME Inv, NEW n \in Namespaces, Sync(n) PROVE Inv'
<1> USE DEF Inv
<1>1. CASE SyncAccount(n)
  <2>1. /\ account' = [account EXCEPT ![n] = Account(n)]
        /\ UNCHANGED <<cluster, seen, hook, queue, work, bounds>>
    BY <1>1 DEF SyncAccount
  <2>2. \A m \in Namespaces : account'[m] = IF m = n THEN Account(n) ELSE account[m]
    BY <2>1 DEF TypeOK
  <2>3. account' \in [Namespaces -> AccountView]
    BY <2>1, AccountFields DEF TypeOK
  <2>4. TypeOK'
    BY <2>1, <2>3 DEF TypeOK, cluster, bounds
  <2>5. \A m \in pristine : Views(m)'
    BY <2>1, <2>2, AccountFields DEF Views, cluster, TypeOK
  <2>6. \A m \in pristine : Pending(m) => Pending(m)'
    BY <2>1 DEF Pending, cluster
  <2> QED
    BY <2>1, <2>4, <2>5, <2>6, ViewStep DEF cluster
<1>2. CASE SyncHook(n)
  <2>1. /\ hook' = [hook EXCEPT ![n] = Account(n)]
        /\ UNCHANGED <<cluster, seen, account, queue, work, bounds>>
    BY <1>2 DEF SyncHook
  <2>2. \A m \in Namespaces : hook'[m] = IF m = n THEN Account(n) ELSE hook[m]
    BY <2>1 DEF TypeOK
  <2>3. hook' \in [Namespaces -> AccountView]
    BY <2>1, AccountFields DEF TypeOK
  <2>4. TypeOK'
    BY <2>1, <2>3 DEF TypeOK, cluster, bounds
  <2>5. \A m \in pristine : Views(m)'
    BY <2>1, <2>2, AccountFields DEF Views, cluster, TypeOK
  <2>6. \A m \in pristine : Pending(m) => Pending(m)'
    BY <2>1 DEF Pending, cluster
  <2> QED
    BY <2>1, <2>4, <2>5, <2>6, ViewStep DEF cluster
<1>3. CASE NamespaceEvent(n)
  <2>1. /\ events' = events \ {n} /\ queue' = queue \cup {n}
        /\ UNCHANGED <<phase, has, listed, filled, orphaned, pods, legacy, pristine, caches, work, bounds>>
    BY <1>3 DEF NamespaceEvent
  <2>2. TypeOK'
    BY <2>1 DEF TypeOK, caches, bounds
  <2>3. \A m \in pristine : Views(m)'
    BY <2>1 DEF Views, caches
  <2>4. \A m \in pristine : Pending(m) => Pending(m)'
    BY <2>1 DEF Pending
  <2> QED
    BY <2>1, <2>2, <2>3, <2>4, ViewStep
<1>4. ASSUME NEW kind \in {"secret", "role"}, SyncObject(n, kind) PROVE Inv'
  <2>1. /\ seen' = [seen EXCEPT ![n] = IF kind \in has[n] THEN @ \cup {kind} ELSE @ \ {kind}]
        /\ UNCHANGED <<cluster, account, hook, queue, work, bounds>>
    BY <1>4 DEF SyncObject
  <2>2. \A m \in Namespaces : m # n => seen'[m] = seen[m]
    BY <2>1 DEF TypeOK
  <2>3. seen'[n] = IF kind \in has[n] THEN seen[n] \cup {kind} ELSE seen[n] \ {kind}
    BY <2>1 DEF TypeOK
  <2>4. seen' \in [Namespaces -> SUBSET {"secret", "role"}]
    BY <2>1 DEF TypeOK
  <2>5. TypeOK'
    BY <2>1, <2>4 DEF TypeOK, cluster, bounds
  <2>6. \A m \in pristine : Views(m)'
    BY <2>1, <2>2, <2>3 DEF Views, cluster, TypeOK
  <2>7. \A m \in pristine : Pending(m) => Pending(m)'
    BY <2>1 DEF Pending, cluster
  <2> QED
    BY <2>1, <2>5, <2>6, <2>7, ViewStep DEF cluster
<1> QED
  BY <1>1, <1>2, <1>3, <1>4 DEF Sync

LEMMA ProcessInv == ASSUME Inv, Resync \/ OperatorRestart \/ WebhookRestart PROVE Inv'
<1> USE DEF Inv
<1>1. CASE Resync
  <2>1. UNCHANGED <<cluster, caches, work, bounds>> /\ queue \subseteq queue' /\ queue' \subseteq Namespaces
    BY <1>1 DEF Resync, TypeOK
  <2>2. TypeOK'
    BY <2>1 DEF TypeOK, cluster, caches, bounds
  <2>3. \A m \in pristine : Views(m)' /\ (Pending(m) => Pending(m)')
    BY <2>1 DEF Views, Pending, cluster, caches
  <2> QED
    BY <2>1, <2>2, <2>3, ViewStep DEF cluster
<1>2. CASE OperatorRestart
  <2>1. /\ seen' = [n \in Namespaces |-> has[n] \ {"account"}]
        /\ account' = [n \in Namespaces |-> Account(n)]
        /\ queue' = {n \in Namespaces : phase[n] # "none"} /\ events' = {} /\ work' = Idle
        /\ UNCHANGED <<phase, has, listed, filled, orphaned, pods, legacy, pristine, hook, ops, admits>>
        /\ faults' \in Nat
    BY <1>2 DEF OperatorRestart, Lost, TypeOK
  <2>2. seen' \in [Namespaces -> SUBSET {"secret", "role"}]
    BY <2>1 DEF TypeOK, Kinds
  <2>3. account' \in [Namespaces -> AccountView]
    BY <2>1, AccountFields
  <2>4. TypeOK'
    BY <2>1, <2>2, <2>3 DEF TypeOK
  <2>5. \A m \in pristine : Views(m)'
    BY <2>1, AccountFields DEF Views, TypeOK
  <2>6. \A m \in pristine : phase[m] = "active" => Pending(m)'
    BY <2>1 DEF Pending, TypeOK
  <2> QED
    BY <2>1, <2>4, <2>5, <2>6, ViewStep
<1>3. CASE WebhookRestart
  <2>1. /\ hook' = [n \in Namespaces |-> Account(n)]
        /\ UNCHANGED <<cluster, seen, account, queue, work, ops, admits>>
        /\ faults' \in Nat
    BY <1>3 DEF WebhookRestart, Lost, TypeOK
  <2>2. hook' \in [Namespaces -> AccountView]
    BY <2>1, AccountFields
  <2>3. TypeOK'
    BY <2>1, <2>2 DEF TypeOK, cluster
  <2>4. \A m \in pristine : Views(m)'
    BY <2>1, AccountFields DEF Views, TypeOK, cluster
  <2>5. \A m \in pristine : Pending(m) => Pending(m)'
    BY <2>1 DEF Pending, cluster
  <2> QED
    BY <2>1, <2>3, <2>4, <2>5, ViewStep DEF cluster
<1> QED
  BY <1>1, <1>2, <1>3

-------------------------------------------------------------------------------
(* The cluster *)

\* A step of somebody else keeps the invariant if the namespaces nobody deleted
\* or tampered with keep their objects and their pods mount what is there.
LEMMA ClusterStep ==
    ASSUME Inv, TypeOK', LegacyOK', UNCHANGED <<caches, queue, work>>,
           pristine' \subseteq pristine, events \subseteq events',
           \A m \in pristine' : /\ phase'[m] = phase[m] \/ (phase'[m] = "active" /\ m \in events')
                                /\ has'[m] = has[m]
                                /\ m \in listed => m \in listed'
                                /\ m \notin orphaned'
                                /\ PodsOK(m)'
    PROVE  Inv'
<1>1. ASSUME NEW m \in pristine' PROVE Whole(m)' /\ Views(m)' /\ WorkOK(m)'
  BY <1>1 DEF Inv, Whole, Views, WorkOK, caches
<1>2. ASSUME NEW m \in pristine', phase'[m] = "active" PROVE Pending(m)' \/ Provided(m)'
  <2>1. CASE m \in events' \/ Pending(m)
    BY <2>1 DEF Pending
  <2>2. CASE m \notin events' /\ Provided(m)
    <3>1. {"account", "role"} \subseteq has'[m] /\ (m \in listed' \/ "secret" \in has'[m])
      BY <1>2, <2>2 DEF Provided
    <3>2. PodsOK(m)'
      BY <1>2
    <3> QED
      BY <3>1, <3>2 DEF Provided, PodsOK, LegacyOK
  <2> QED
    BY <1>2, <2>1, <2>2 DEF Inv, NoneForgotten
<1> QED
  BY <1>1, <1>2 DEF Inv, NoneForgotten

\* An object that is deleted leaves the other namespaces alone.
LEMMA GoneEffect ==
    ASSUME Inv, NEW n \in Namespaces, NEW kind \in Kinds, Gone(n, kind)
    PROVE  /\ has' \in [Namespaces -> SUBSET Kinds]
           /\ listed' \subseteq listed /\ filled' \subseteq filled /\ orphaned' \subseteq orphaned \cup {n}
           /\ pods' \subseteq [ns : Namespaces, secret : {"auto", "token", "gone"}]
           /\ \A m \in Namespaces : m # n =>
                 /\ has'[m] = has[m]
                 /\ m \in listed => m \in listed'
                 /\ \A p \in pods' : p.ns = m => p \in pods
<1> USE DEF Inv
<1>1. CASE kind # "account"
  BY <1>1 DEF Gone, SecretGone, TypeOK
<1>2. CASE kind = "account"
  <2>1. AccountGone(n)
    BY <1>2 DEF Gone
  <2>2. /\ has' = [has EXCEPT ![n] = @ \ {"account"}] /\ listed' = listed \ {n}
        /\ filled' = filled \ {n} /\ orphaned' \subseteq orphaned \cup {n}
    BY <2>1 DEF AccountGone
  <2>3. ASSUME NEW q \in pods'
        PROVE  \/ q \in pods
               \/ q \in [ns : Namespaces, secret : {"auto", "token", "gone"}] /\ q.ns = n
    <3>1. PICK p \in pods : q = IF p = [ns |-> n, secret |-> "auto"] THEN [p EXCEPT !.secret = "gone"] ELSE p
      BY <2>1, <2>3 DEF AccountGone
    <3>2. CASE p # [ns |-> n, secret |-> "auto"]
      BY <3>1, <3>2
    <3>3. CASE p = [ns |-> n, secret |-> "auto"]
      <4>1. q = [ns |-> n, secret |-> "gone"]
        BY <3>1, <3>3
      <4> QED
        BY <4>1
    <3> QED
      BY <3>2, <3>3
  <2> QED
    BY <2>2, <2>3 DEF TypeOK
<1> QED
  BY <1>1, <1>2

LEMMA KubernetesInv == ASSUME Inv, NEW n \in Namespaces, Kubernetes(n) PROVE Inv'
<1> USE DEF Inv
<1>1. pristine \subseteq Namespaces
  BY DEF TypeOK
<1>2. CASE FillToken(n)
  <2>1. /\ filled' = filled \cup {n}
        /\ UNCHANGED <<phase, has, listed, orphaned, pods, legacy, events, pristine, caches, queue, work, bounds>>
    BY <1>2 DEF FillToken
  <2>2. TypeOK'
    BY <2>1 DEF TypeOK, caches, bounds
  <2>3. LegacyOK' /\ \A m \in pristine : PodsOK(m)' /\ m \notin orphaned
    BY <2>1 DEF LegacyOK, PodsOK, Whole
  <2> QED
    BY <2>1, <2>2, <2>3, ClusterStep
<1>3. CASE ReapToken(n)
  <2>1. /\ has' = [has EXCEPT ![n] = @ \ {"secret"}]
        /\ filled' = filled \ {n} /\ orphaned' = orphaned \ {n}
        /\ UNCHANGED <<phase, listed, pods, legacy, events, pristine, caches, queue, work, bounds>>
    BY <1>3 DEF ReapToken, SecretGone
  <2>2. TypeOK'
    BY <2>1 DEF TypeOK, caches, bounds
  <2>3. n \notin pristine
    BY <1>3 DEF ReapToken, Whole
  <2>4. \A m \in pristine : has'[m] = has[m] /\ m \notin orphaned'
    BY <1>1, <2>1, <2>3 DEF TypeOK, Whole
  <2>5. LegacyOK' /\ \A m \in pristine : PodsOK(m)'
    BY <2>1 DEF LegacyOK, PodsOK
  <2> QED
    BY <2>1, <2>2, <2>4, <2>5, ClusterStep
<1>4. CASE ListSecret(n)
  <2>1. /\ legacy /\ listed' = listed \cup {n}
        /\ UNCHANGED <<phase, has, filled, orphaned, pods, legacy, events, pristine, caches, queue, work, bounds>>
    BY <1>4 DEF ListSecret
  <2>2. TypeOK'
    BY <2>1 DEF TypeOK, caches, bounds
  <2>3. LegacyOK' /\ \A m \in pristine : PodsOK(m)' /\ m \notin orphaned
    BY <2>1 DEF LegacyOK, PodsOK, Whole
  <2> QED
    BY <2>1, <2>2, <2>3, ClusterStep
<1>5. CASE NamespaceGone(n)
  <2>1. /\ phase' = [phase EXCEPT ![n] = "none"]
        /\ pods' = {p \in pods : p.ns # n}
        /\ events' = events \cup {n}
        /\ UNCHANGED <<has, listed, filled, orphaned, legacy, pristine, caches, queue, work, bounds>>
    BY <1>5 DEF NamespaceGone
  <2>2. TypeOK'
    BY <2>1 DEF TypeOK, caches, bounds
  <2>3. n \notin pristine
    BY <1>5 DEF NamespaceGone, Whole
  <2>4. \A m \in pristine : phase'[m] = phase[m]
    BY <1>1, <2>1, <2>3 DEF TypeOK
  <2>5. LegacyOK' /\ \A m \in pristine : PodsOK(m)' /\ m \notin orphaned
    BY <2>1 DEF LegacyOK, PodsOK, Whole
  <2> QED
    BY <2>1, <2>2, <2>4, <2>5, ClusterStep
<1>6. ASSUME NEW kind \in Kinds, ContentGone(n, kind) PROVE Inv'
  <2>1. /\ phase[n] = "terminating" /\ Gone(n, kind)
        /\ UNCHANGED <<phase, legacy, events, pristine, caches, queue, work, bounds>>
    BY <1>6 DEF ContentGone
  <2>2. TypeOK'
    BY <2>1, GoneEffect DEF TypeOK, caches, bounds
  <2>3. n \notin pristine
    BY <2>1 DEF Whole
  <2>4. LegacyOK'
    BY <2>1, GoneEffect DEF LegacyOK
  <2>5. \A m \in pristine : has'[m] = has[m] /\ (m \in listed => m \in listed') /\ m \notin orphaned'
    BY <1>1, <2>1, <2>3, GoneEffect DEF Whole
  <2>6. \A m \in pristine : PodsOK(m)'
    BY <1>1, <2>1, <2>3, GoneEffect DEF PodsOK
  <2> QED
    BY <2>1, <2>2, <2>4, <2>5, <2>6, ClusterStep
<1> QED
  BY <1>2, <1>3, <1>4, <1>5, <1>6 DEF Kubernetes

LEMMA UsersInv == ASSUME Inv, NEW n \in Namespaces, Users(n) PROVE Inv'
<1> USE DEF Inv
<1>1. pristine \subseteq Namespaces
  BY DEF TypeOK
<1>2. CASE NamespaceCreate(n)
  <2>1. /\ phase' = [phase EXCEPT ![n] = "active"] /\ events' = events \cup {n} /\ ops' \in Nat
        /\ UNCHANGED <<has, listed, filled, orphaned, pods, legacy, pristine, caches, queue, work, admits, faults>>
    BY <1>2 DEF NamespaceCreate, Op, TypeOK
  <2>2. TypeOK'
    BY <2>1 DEF TypeOK, caches
  <2>3. \A m \in pristine : phase'[m] = phase[m] \/ (phase'[m] = "active" /\ m \in events')
    BY <1>1, <2>1 DEF TypeOK
  <2>4. LegacyOK' /\ \A m \in pristine : PodsOK(m)' /\ m \notin orphaned
    BY <2>1 DEF LegacyOK, PodsOK, Whole
  <2> QED
    BY <2>1, <2>2, <2>3, <2>4, ClusterStep
<1>3. CASE NamespaceDelete(n)
  <2>1. /\ phase' = [phase EXCEPT ![n] = "terminating"] /\ events' = events \cup {n} /\ ops' \in Nat
        /\ pristine' = pristine \ {n}
        /\ UNCHANGED <<has, listed, filled, orphaned, pods, legacy, caches, queue, work, admits, faults>>
    BY <1>3 DEF NamespaceDelete, Op, TypeOK
  <2>2. TypeOK'
    BY <2>1 DEF TypeOK, caches
  <2>3. \A m \in pristine' : phase'[m] = phase[m]
    BY <1>1, <2>1 DEF TypeOK
  <2>4. LegacyOK' /\ \A m \in pristine' : PodsOK(m)' /\ m \notin orphaned
    BY <2>1 DEF LegacyOK, PodsOK, Whole
  <2> QED
    BY <2>1, <2>2, <2>3, <2>4, ClusterStep
<1>4. CASE AdmitPod(n)
  <2> DEFINE pod == [ns |-> n, secret |-> Mounted(hook[n])]
  <2>1. /\ pods' = pods \cup {pod} /\ admits' \in Nat
        /\ UNCHANGED <<phase, has, listed, filled, orphaned, legacy, events, pristine, caches, queue, work, ops, faults>>
    BY <1>4 DEF AdmitPod, TypeOK
  <2>2. pod.ns = n /\ pod.secret = Mounted(hook[n]) /\ Mounted(hook[n]) \in {"auto", "token"}
    BY DEF Mounted
  <2>3. pod \in [ns : Namespaces, secret : {"auto", "token", "gone"}]
    BY <2>2
  <2>4. Mounted(hook[n]) = "auto" => hook[n].listed
    BY DEF Mounted
  <2> HIDE DEF pod
  <2>5. TypeOK'
    BY <2>1, <2>3 DEF TypeOK, caches
  <2>6. LegacyOK' /\ \A m \in pristine : m \notin orphaned
    BY <2>1 DEF LegacyOK, Whole
  <2>7. ASSUME NEW m \in pristine PROVE PodsOK(m)'
    <3>1. m = n /\ pod.secret = "auto" => m \in listed
      BY <2>2, <2>4 DEF Views
    <3> QED
      BY <2>1, <2>2, <3>1 DEF PodsOK
  <2> QED
    BY <2>1, <2>5, <2>6, <2>7, ClusterStep
<1>5. ASSUME NEW kind \in Kinds, Tamper(n, kind) PROVE Inv'
  <2>1. /\ Gone(n, kind) /\ ops' \in Nat /\ pristine' = pristine \ {n}
        /\ UNCHANGED <<phase, legacy, events, caches, queue, work, admits, faults>>
    BY <1>5 DEF Tamper, Op, TypeOK
  <2>2. TypeOK'
    BY <2>1, GoneEffect DEF TypeOK, caches
  <2>3. LegacyOK'
    BY <2>1, GoneEffect DEF LegacyOK
  <2>4. \A m \in pristine' : has'[m] = has[m] /\ (m \in listed => m \in listed') /\ m \notin orphaned'
    BY <1>1, <2>1, GoneEffect DEF Whole
  <2>5. \A m \in pristine' : PodsOK(m)'
    BY <1>1, <2>1, GoneEffect DEF PodsOK
  <2> QED
    BY <2>1, <2>2, <2>3, <2>4, <2>5, ClusterStep
<1> QED
  BY <1>2, <1>3, <1>4, <1>5 DEF Users

-------------------------------------------------------------------------------
(* Theorems *)

LEMMA NextInv == Inv /\ [Next]_vars => Inv'
<1> SUFFICES ASSUME Inv, [Next]_vars PROVE Inv'
  OBVIOUS
<1>1. CASE UNCHANGED vars
  BY <1>1 DEF vars, cluster, caches, bounds, Inv, TypeOK, LegacyOK, Whole, Views, WorkOK, PodsOK,
              NoneForgotten, Pending, Provided
<1>2. CASE Next
  BY <1>2, ReconcileAccountInv, ReconcileSecretInv, ReconcileRoleInv, SyncInv, ProcessInv,
     KubernetesInv, UsersInv DEF Next, Worker
<1> QED
  BY <1>1, <1>2

LEMMA Invariance == Spec => []Inv
BY InitInv, NextInv, PTL DEF Spec

\* Every variable keeps its type: in particular a pod never mounts a secret
\* nobody named, and the reconciliation works on a namespace and on an account
\* as a cache showed it or on the zero one.
THEOREM TypeCorrect == Spec => []TypeOK
<1>1. Inv => TypeOK
  BY DEF Inv
<1> QED
  BY <1>1, Invariance, PTL

\* The controller never turns away from a namespace that nobody deleted or
\* tampered with before it has all that its sidecars need, however many
\* namespaces there are, whichever calls are lost and whoever restarts: what
\* Reconcile finds in its caches is still there, so a step it skips was done.
THEOREM NoneForgottenHolds == Spec => []NoneForgotten
<1>1. Inv => NoneForgotten
  BY DEF Inv
<1> QED
  BY <1>1, Invariance, PTL
===============================================================================
