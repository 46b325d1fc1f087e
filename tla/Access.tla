-------------------------------- MODULE Access --------------------------------
(***************************************************************************)
(* API access of the sidecars: the NamespaceReconciler of controllers/,    *)
(* which gives every namespace a service account, its token secret and a   *)
(* role binding, and the part of the PodInjector of webhooks/ that mounts  *)
(* the token into a pod.  Both read service accounts from informer caches  *)
(* of their own.                                                           *)
(*                                                                         *)
(* The namespaces, the deletion of their content and the token controller  *)
(* are Kubernetes'.  Before version 1.24 the token controller also makes   *)
(* a secret for every new account and lists it in sa.Secrets; the code     *)
(* tells the two kinds of cluster apart by that list.                      *)
(***************************************************************************)
EXTENDS Integers, FiniteSets

CONSTANTS
    Namespaces,     \* namespace names
    None,           \* in place of the service account of a fresh variable sa
    MaxOps,         \* bound: changes of namespaces and of their content
    MaxPods,        \* bound: pods admitted
    MaxFaults       \* bound: lost calls and restarts

Kinds == {"account", "secret", "role"}

\* What a cache shows of a service account.
AccountView == [exists : BOOLEAN, listed : BOOLEAN]

ASSUME AccessAssumption ==
    /\ None \notin AccountView
    /\ MaxOps \in Nat /\ MaxPods \in Nat /\ MaxFaults \in Nat

VARIABLES
    phase,          \* API server: phase of each namespace
    has,            \* API server: the overlay objects of each namespace
    listed,         \* accounts that list an automatic secret
    filled,         \* namespaces whose token secret holds a valid token
    orphaned,       \* namespaces whose token secret is of an earlier account
    pods,           \* admitted pods and the secrets they mount
    legacy,         \* the cluster is older than 1.24
    events,         \* namespaces with an event on its way to the operator
    seen,           \* operator: cached secrets and roles
    account,        \* operator: cached service accounts
    queue, work,    \* operator: work queue and reconciliation under way
    hook,           \* webhook: cached service accounts
    pristine,       \* history: namespaces nobody deleted or tampered with
    ops, admits, faults \* what is left of the bounds

cluster == <<phase, has, listed, filled, orphaned, pods, legacy, events, pristine>>
caches == <<seen, account, hook>>
bounds == <<ops, admits, faults>>
vars == <<cluster, caches, queue, work, bounds>>

Idle == [pc |-> "idle"]

Work == [pc : {"secret", "role"}, ns : Namespaces, sa : AccountView \cup {None}]

\* The account of n as the API server shows it.
Account(n) == [exists |-> "account" \in has[n], listed |-> n \in listed]

-------------------------------------------------------------------------------
(* NamespaceReconciler *)

Lost == faults > 0 /\ faults' = faults - 1

\* client.Create of the object of this kind: a namespace that is gone or being
\* deleted refuses it, and the answer may be lost with or without the request.
\* What follows the call is Goes when it succeeded or the object existed, and
\* Fails after any other error.
Create(n, kind, Goes, Fails) ==
    \/ /\ phase[n] = "active"
       /\ has' = [has EXCEPT ![n] = @ \cup {kind}]
       /\ Goes
       /\ UNCHANGED faults
    \/ /\ phase[n] # "active"
       /\ Fails
       /\ UNCHANGED <<has, faults>>
    \/ /\ Lost
       /\ has' \in {has, IF phase[n] = "active" THEN [has EXCEPT ![n] = @ \cup {kind}] ELSE has}
       /\ Fails

\* Return an error: the key is queued again.
Requeue(n) == work' = Idle /\ queue' = queue \cup {n}

\* Return nil.
Done == work' = Idle /\ UNCHANGED queue

\* Mutant: the account that was read does not reach the rest of Reconcile.
AfterAccountUnread(n, sa) ==
    /\ queue' = queue \ {n}
    /\ work' = [pc |-> "secret", ns |-> n, sa |-> None]

\* The reconciliation goes on with the variable sa as the Get left it.
AfterAccount(n, sa) ==
    /\ queue' = queue \ {n}
    /\ work' = [pc |-> "secret", ns |-> n, sa |-> sa]

\* The service account: Reconcile starts, reads it and creates it if need be.
\* The created one does not go into sa.
ReconcileAccount(n) ==
    /\ work = Idle
    /\ n \in queue
    /\ \/ /\ account[n].exists
          /\ AfterAccount(n, account[n])
          /\ UNCHANGED <<has, faults>>
       \/ /\ ~account[n].exists
          /\ Create(n, "account", AfterAccount(n, None), Requeue(n))
    /\ UNCHANGED <<phase, listed, filled, orphaned, pods, legacy, events, pristine, caches,
                   ops, admits>>

AfterSecret == work' = [work EXCEPT !.pc = "role"] /\ UNCHANGED queue

\* Mutant: the failure of reconcileSecret ends the reconciliation without error.
SecretFailsQuietly == Done

\* The error of reconcileSecret.
SecretFails == Requeue(work.ns)

\* Mutant: an account without secrets is left alone.
NeedsNoSecret(sa) == sa = None

\* Is sa.Secrets empty?
NeedsSecret(sa) == sa # None => ~sa.listed

\* reconcileSecret.  The zero sa has neither name nor namespace: nothing is
\* found and the client refuses to create an object without a namespace.
ReconcileSecret ==
    /\ work.pc = "secret"
    /\ \/ ~NeedsSecret(work.sa) /\ AfterSecret /\ UNCHANGED <<has, faults>>
       \/ NeedsSecret(work.sa) /\ work.sa = None /\ SecretFails /\ UNCHANGED <<has, faults>>
       \/ /\ NeedsSecret(work.sa) /\ work.sa # None
          /\ "secret" \in seen[work.ns]
          /\ AfterSecret
          /\ UNCHANGED <<has, faults>>
       \/ /\ NeedsSecret(work.sa) /\ work.sa # None
          /\ "secret" \notin seen[work.ns]
          /\ Create(work.ns, "secret", AfterSecret, SecretFails)
    /\ UNCHANGED <<phase, listed, filled, orphaned, pods, legacy, events, pristine, caches,
                   ops, admits>>

\* Mutant: the failure of reconcileRole ends the reconciliation without error.
RoleFailsQuietly == Done

\* The error of reconcileRole.
RoleFails == Requeue(work.ns)

\* The role binding, after which Reconcile returns.
ReconcileRole ==
    /\ work.pc = "role"
    /\ \/ "role" \in seen[work.ns] /\ Done /\ UNCHANGED <<has, faults>>
       \/ "role" \notin seen[work.ns] /\ Create(work.ns, "role", Done, RoleFails)
    /\ UNCHANGED <<phase, listed, filled, orphaned, pods, legacy, events, pristine, caches,
                   ops, admits>>

\* A namespace event reaches the controller.
NamespaceEvent(n) ==
    /\ n \in events
    /\ events' = events \ {n}
    /\ queue' = queue \cup {n}
    /\ UNCHANGED <<phase, has, listed, filled, orphaned, pods, legacy, pristine, caches, work,
                   bounds>>

\* The periodic resync of the namespace informer.
Resync ==
    /\ queue' = queue \cup {n \in Namespaces : phase[n] # "none"}
    /\ UNCHANGED <<cluster, caches, work, bounds>>

\* The caches of service accounts and of the other kinds catch up.
SyncAccount(n) ==
    /\ account[n] # Account(n)
    /\ account' = [account EXCEPT ![n] = Account(n)]
    /\ UNCHANGED <<cluster, seen, hook, queue, work, bounds>>

SyncObject(n, kind) ==
    /\ (kind \in seen[n]) # (kind \in has[n])
    /\ seen' = [seen EXCEPT ![n] = IF kind \in has[n] THEN @ \cup {kind} ELSE @ \ {kind}]
    /\ UNCHANGED <<cluster, account, hook, queue, work, bounds>>

\* The operator ends and starts again: its informers list everything.
OperatorRestart ==
    /\ Lost
    /\ seen' = [n \in Namespaces |-> has[n] \ {"account"}]
    /\ account' = [n \in Namespaces |-> Account(n)]
    /\ queue' = {n \in Namespaces : phase[n] # "none"}
    /\ events' = {}
    /\ work' = Idle
    /\ UNCHANGED <<phase, has, listed, filled, orphaned, pods, legacy, pristine, hook, ops, admits>>

-------------------------------------------------------------------------------
(* PodInjector *)

\* Mutant: the list of secrets is taken as it is.
MountedListOnly(sa) == IF sa.listed THEN "auto" ELSE "nothing"

\* The secret the sidecar's container mounts.
Mounted(sa) == IF sa.listed THEN "auto" ELSE "token"

\* A labelled pod is created in a live namespace; without the account in its
\* cache, or while it restarts, the webhook refuses it.
AdmitPod(n) ==
    /\ admits > 0 /\ admits' = admits - 1
    /\ phase[n] = "active"
    /\ hook[n].exists
    /\ pods' = pods \cup {[ns |-> n, secret |-> Mounted(hook[n])]}
    /\ UNCHANGED <<phase, has, listed, filled, orphaned, legacy, events, pristine, caches, queue,
                   work, ops, faults>>

SyncHook(n) ==
    /\ hook[n] # Account(n)
    /\ hook' = [hook EXCEPT ![n] = Account(n)]
    /\ UNCHANGED <<cluster, seen, account, queue, work, bounds>>

\* The webhook's process ends and starts again.
WebhookRestart ==
    /\ Lost
    /\ hook' = [n \in Namespaces |-> Account(n)]
    /\ UNCHANGED <<cluster, seen, account, queue, work, ops, admits>>

-------------------------------------------------------------------------------
(* The cluster *)

\* A service account is deleted: its automatic secret goes with it, and the
\* token secret is no longer its own.
AccountGone(n) ==
    /\ has' = [has EXCEPT ![n] = @ \ {"account"}]
    /\ listed' = listed \ {n}
    /\ filled' = filled \ {n}
    /\ orphaned' = IF n \in filled THEN orphaned \cup {n} ELSE orphaned
    /\ pods' = {IF p = [ns |-> n, secret |-> "auto"] THEN [p EXCEPT !.secret = "gone"] ELSE p : p \in pods}

SecretGone(n) ==
    /\ has' = [has EXCEPT ![n] = @ \ {"secret"}]
    /\ filled' = filled \ {n}
    /\ orphaned' = orphaned \ {n}
    /\ UNCHANGED <<listed, pods>>

\* An object of n is deleted.
Gone(n, kind) ==
    /\ kind \in has[n]
    /\ \/ kind = "account" /\ AccountGone(n)
       \/ kind = "secret" /\ SecretGone(n)
       \/ /\ kind = "role"
          /\ has' = [has EXCEPT ![n] = @ \ {"role"}]
          /\ UNCHANGED <<listed, filled, orphaned, pods>>

Op == ops > 0 /\ ops' = ops - 1

NamespaceCreate(n) ==
    /\ Op
    /\ phase[n] = "none"
    /\ phase' = [phase EXCEPT ![n] = "active"]
    /\ events' = events \cup {n}
    /\ UNCHANGED <<has, listed, filled, orphaned, pods, legacy, pristine, caches, queue, work,
                   admits, faults>>

NamespaceDelete(n) ==
    /\ Op
    /\ phase[n] = "active"
    /\ phase' = [phase EXCEPT ![n] = "terminating"]
    /\ events' = events \cup {n}
    /\ pristine' = pristine \ {n}
    /\ UNCHANGED <<has, listed, filled, orphaned, pods, legacy, caches, queue, work, admits, faults>>

\* The namespace controller deletes the content, then the namespace.
ContentGone(n, kind) ==
    /\ phase[n] = "terminating"
    /\ Gone(n, kind)
    /\ UNCHANGED <<phase, legacy, events, pristine, caches, queue, work, bounds>>

NamespaceGone(n) ==
    /\ phase[n] = "terminating"
    /\ has[n] = {}
    /\ phase' = [phase EXCEPT ![n] = "none"]
    /\ pods' = {p \in pods : p.ns # n}
    /\ events' = events \cup {n}
    /\ UNCHANGED <<has, listed, filled, orphaned, legacy, pristine, caches, queue, work, bounds>>

\* A user deletes one of the objects.
Tamper(n, kind) ==
    /\ Op
    /\ phase[n] = "active"
    /\ Gone(n, kind)
    /\ pristine' = pristine \ {n}
    /\ UNCHANGED <<phase, legacy, events, caches, queue, work, admits, faults>>

\* The token controller: it fills the secret of an account, removes one whose
\* account is gone and, before 1.24, lists an automatic secret.
FillToken(n) ==
    /\ "secret" \in has[n] /\ n \notin filled /\ n \notin orphaned
    /\ "account" \in has[n]
    /\ filled' = filled \cup {n}
    /\ UNCHANGED <<phase, has, listed, orphaned, pods, legacy, events, pristine, caches, queue,
                   work, bounds>>

ReapToken(n) ==
    /\ "secret" \in has[n]
    /\ n \in orphaned \/ "account" \notin has[n]
    /\ SecretGone(n)
    /\ UNCHANGED <<phase, legacy, events, pristine, caches, queue, work, bounds>>

ListSecret(n) ==
    /\ legacy
    /\ phase[n] = "active" /\ "account" \in has[n] /\ n \notin listed
    /\ listed' = listed \cup {n}
    /\ UNCHANGED <<phase, has, filled, orphaned, pods, legacy, events, pristine, caches, queue,
                   work, bounds>>

Init ==
    /\ phase = [n \in Namespaces |-> "none"]
    /\ has = [n \in Namespaces |-> {}]
    /\ listed = {} /\ filled = {} /\ orphaned = {}
    /\ pods = {}
    /\ legacy \in BOOLEAN
    /\ events = {}
    /\ seen = has
    /\ account = [n \in Namespaces |-> Account(n)]
    /\ hook = account
    /\ queue = {}
    /\ work = Idle
    /\ pristine = Namespaces
    /\ ops = MaxOps /\ admits = MaxPods /\ faults = MaxFaults

Sync(n) ==
    \/ SyncAccount(n) \/ SyncHook(n) \/ NamespaceEvent(n)
    \/ \E kind \in {"secret", "role"} : SyncObject(n, kind)

Worker == ReconcileSecret \/ ReconcileRole

Kubernetes(n) ==
    \/ FillToken(n) \/ ReapToken(n) \/ ListSecret(n) \/ NamespaceGone(n)
    \/ \E kind \in Kinds : ContentGone(n, kind)

Users(n) ==
    \/ NamespaceCreate(n) \/ NamespaceDelete(n) \/ AdmitPod(n)
    \/ \E kind \in Kinds : Tamper(n, kind)

Next ==
    \/ \E n \in Namespaces : ReconcileAccount(n) \/ Sync(n) \/ Kubernetes(n) \/ Users(n)
    \/ Worker \/ Resync
    \/ OperatorRestart \/ WebhookRestart

Spec == Init /\ [][Next]_vars

\* Watches deliver, the worker serves its queue in turn, and the controllers
\* of Kubernetes do their work.
Fairness ==
    /\ WF_vars(Worker)
    /\ \A n \in Namespaces :
          /\ SF_vars(ReconcileAccount(n))
          /\ WF_vars(SyncAccount(n)) /\ WF_vars(SyncHook(n)) /\ WF_vars(NamespaceEvent(n))
          /\ \A kind \in {"secret", "role"} : WF_vars(SyncObject(n, kind))
          /\ WF_vars(Kubernetes(n))

FairSpec == Spec /\ Fairness

-------------------------------------------------------------------------------
(* Properties *)

\* Every variable has its type; a pod never mounts a secret nobody named.
TypeOK ==
    /\ phase \in [Namespaces -> {"none", "active", "terminating"}]
    /\ has \in [Namespaces -> SUBSET Kinds]
    /\ listed \subseteq Namespaces /\ filled \subseteq Namespaces /\ orphaned \subseteq Namespaces
    /\ pods \subseteq [ns : Namespaces, secret : {"auto", "token", "gone"}]
    /\ legacy \in BOOLEAN
    /\ events \subseteq Namespaces /\ queue \subseteq Namespaces /\ pristine \subseteq Namespaces
    /\ seen \in [Namespaces -> SUBSET {"secret", "role"}]
    /\ account \in [Namespaces -> AccountView] /\ hook \in [Namespaces -> AccountView]
    /\ work = Idle \/ work \in Work
    /\ ops \in Nat /\ admits \in Nat /\ faults \in Nat

\* The sidecar of p finds the secret it mounts.
Starts(p) == IF p.secret = "auto" THEN p.ns \in listed ELSE p.ns \in filled

\* A sidecar in n finds a token and the right to use it, and so do the pods that
\* are there.  Before 1.24 that is only promised for the pods to come: a pod
\* admitted before the automatic secret is listed mounts <sa>-token, which the
\* controller need not create any more.
Served(n) ==
    /\ {"account", "role"} \subseteq has[n]
    /\ n \in listed \/ n \in filled
    /\ ~legacy => \A p \in pods : p.ns = n => Starts(p)

\* The controller still has to look at n.
Pending(n) == n \in events \cup queue \/ (work # Idle /\ work.ns = n)

\* The controller has done its part for n: account, role and a token secret are
\* there, and so is the secret every pod mounts, before 1.24 as said above.
Provided(n) ==
    /\ {"account", "role"} \subseteq has[n]
    /\ n \in listed \/ "secret" \in has[n]
    /\ \A p \in pods : p.ns = n =>
          \/ p.secret = "auto" /\ n \in listed
          \/ p.secret = "token" /\ (~legacy => "secret" \in has[n])

\* The controller never turns away from a namespace that nobody deleted or
\* tampered with before it has all that its sidecars need: Reconcile reports
\* every step it could not do, works on a stale cache only where that does no
\* harm, and the secret it creates is the one the webhook, which looks at a cache
\* of its own, lets the pods mount.
NoneForgotten == \A n \in pristine : phase[n] = "active" => Pending(n) \/ Provided(n)

\* A namespace that is created and left alone is served by the events of its
\* creation alone, although the first attempt always fails (sa is the zero
\* account after its creation), calls get lost and the operator restarts.  The
\* webhook and the controller decide separately, each from its own cache, which
\* secret holds the token.
ProvisionedPromptly ==
    <>[](\A n \in pristine : phase[n] = "active" => Served(n))

\* With the informers' resync that also holds for a namespace created again
\* under its name, whose old objects may still be in the caches, and for one
\* whose objects somebody deleted: the controller watches namespaces only.
Provisioned ==
    WF_vars(Resync) => <>[](\A n \in Namespaces : phase[n] = "active" => Served(n))

\* The retries of a namespace that stays come to an end.
RetriesEnd ==
    []<><<Resync>>_vars \/
    <>[](\A n \in Namespaces : phase[n] = "active" => n \notin queue)
===============================================================================
