------------------------ MODULE DNSPolicyController ------------------------
(***************************************************************************)
(* The DNSPolicy controller (internal/controller/routing/                  *)
(* dnspolicy_controller.go): one worker that takes a key from the          *)
(* workqueue, reads the policy from the informer's store, fetches the      *)
(* cluster identity and the DNS configuration, and writes the status.      *)
(*                                                                         *)
(* The API server, the informer, the queue and the two cluster-scoped      *)
(* settings change between any two of these steps.                         *)
(***************************************************************************)
EXTENDS Selection, Naturals

CONSTANTS
    Policies,       \* keys (namespace/name) of DNSPolicies
    PolicySpecs,    \* specs that users write
    Identities,     \* identities this cluster can be given
    Configs,        \* DNS configurations it can be given
    MaxEdits        \* bound: specs written by users in one behaviour

ASSUME PolicyInputs ==
    /\ PolicySpecs \subseteq PolicySpec
    /\ Identities \subseteq Identity
    /\ Configs \subseteq Config
    /\ None \notin Identities
    /\ None \notin Configs
    /\ MaxEdits \in Nat

VARIABLES
    policies,       \* the API server: each DNSPolicy, or None
    seenPolicies,   \* the informer's store of them
    policyQueue,    \* the controller's workqueue
    policyWorker,   \* what its worker holds
    identity,       \* what clusteridentity.Fetch returns
    identityOwed,   \* it changed and no ClusterIdentity event followed yet
    config,         \* what dnsconfiguration.Fetch returns
    configOwed,     \* it changed and no DNSConfiguration event followed yet
    edits           \* specs written so far

settingVars == <<identity, identityOwed, config, configOwed>>
vars == <<policies, seenPolicies, policyQueue, policyWorker,
          identity, identityOwed, config, configOwed, edits>>

IdentityView == INSTANCE NotifiedView WITH
    Values <- Identities, Missing <- None,
    view <- identity, owed <- identityOwed

ConfigView == INSTANCE NotifiedView WITH
    Values <- Configs, Missing <- None,
    view <- config, owed <- configOwed

-----------------------------------------------------------------------------
(***************************************************************************)
(* A policy is its spec, the revision of that spec (its UID and generation *)
(* in one: every write of a spec, by a creation too, takes a new one) and  *)
(* its status.  "reason" and "observed" are those of the Ready condition.  *)
(***************************************************************************)
PolicyPhases == {"", "Active"}
PolicyReasons == {"", "ReconciliationSucceeded", "PolicyInactive",
    "ValidationFailed", "ClusterIdentityNotAvailable",
    "DNSConfigurationNotAvailable"}

PolicyStatus ==
    [phase: PolicyPhases, active: BOOLEAN, controllers: SUBSET Controllers,
     reason: PolicyReasons, observed: 0..MaxEdits]

NewPolicyStatus ==
    [phase |-> "", active |-> FALSE, controllers |-> {}, reason |-> "",
     observed |-> 0]

Policy == [spec: PolicySpecs, rev: 1..MaxEdits, status: PolicyStatus]

ASSUME NoneIsNoPolicy == None \notin Policy

\* updateStatusActive, updateStatusInactive, and updateStatusPending and
\* updateStatusFailed, which differ in the reason only: the status each one
\* computes from that of the object it is given.
policyActiveStatus(obj, controllers) ==
    [phase |-> "Active", active |-> TRUE, controllers |-> controllers,
     reason |-> "ReconciliationSucceeded", observed |-> obj.rev]

policyInactiveStatusKeepsActive(obj) ==      \* mutant: Active is not reset
    [obj.status EXCEPT !.controllers = {},
                       !.reason = "PolicyInactive", !.observed = obj.rev]

policyInactiveStatus(obj) ==
    [obj.status EXCEPT !.active = FALSE, !.controllers = {},
                       !.reason = "PolicyInactive", !.observed = obj.rev]

policyNotReadyStatusResets(obj, reason) ==   \* mutant: not ready is not active
    [obj.status EXCEPT !.active = FALSE, !.controllers = {},
                       !.reason = reason, !.observed = obj.rev]

policyNotReadyStatus(obj, reason) ==
    [obj.status EXCEPT !.reason = reason, !.observed = obj.rev]

\* The whole of Reconcile after the Get, as a function of what it read.
PolicyVerdict(obj, id, cfg) ==
    IF id = None
    THEN policyNotReadyStatus(obj, "ClusterIdentityNotAvailable")
    ELSE IF cfg = None
    THEN policyNotReadyStatus(obj, "DNSConfigurationNotAvailable")
    ELSE IF ~validateDNSPolicy(obj.spec, cfg)
    THEN policyNotReadyStatus(obj, "ValidationFailed")
    ELSE IF ~isPolicyActive(obj.spec, id)
    THEN policyInactiveStatus(obj)
    ELSE policyActiveStatus(obj, determineActiveControllers(obj.spec, id, cfg))

-----------------------------------------------------------------------------
IdlePolicyWorker ==
    [pc |-> "idle", key |-> None, obj |-> None, id |-> None, cfg |-> None]

PolicyWorker ==
    {IdlePolicyWorker} \cup
    [pc: {"identity", "config", "update"}, key: Policies, obj: Policy,
     id: Identities \cup {None}, cfg: Configs \cup {None}]

PolicyTypeOK ==
    /\ policies \in [Policies -> Policy \cup {None}]
    /\ seenPolicies \in [Policies -> Policy \cup {None}]
    /\ policyQueue \subseteq Policies
    /\ policyWorker \in PolicyWorker
    /\ IdentityView!ViewTypeOK
    /\ ConfigView!ViewTypeOK
    /\ edits \in 0..MaxEdits

Init ==
    /\ policies = [p \in Policies |-> None]
    /\ seenPolicies = policies
    /\ policyQueue = {}
    /\ policyWorker = IdlePolicyWorker
    /\ IdentityView!ViewInit
    /\ ConfigView!ViewInit
    /\ edits = 0

-----------------------------------------------------------------------------
(***************************************************************************)
(* Users.  A DNSPolicy has no finalizer: a deletion removes it at once.    *)
(***************************************************************************)
WritePolicy(p, written) ==
    /\ edits < MaxEdits
    /\ edits' = edits + 1
    /\ policies' = [policies EXCEPT ![p] = written]
    /\ UNCHANGED <<seenPolicies, policyQueue, policyWorker, settingVars>>

CreatePolicy(p) ==
    /\ policies[p] = None
    /\ \E spec \in PolicySpecs:
        WritePolicy(p, [spec |-> spec, rev |-> edits + 1,
                        status |-> NewPolicyStatus])

EditPolicy(p) ==
    /\ policies[p] # None
    /\ \E spec \in PolicySpecs \ {policies[p].spec}:
        WritePolicy(p, [policies[p] EXCEPT !.spec = spec, !.rev = edits + 1])

DeletePolicy(p) ==
    /\ policies[p] # None
    /\ policies' = [policies EXCEPT ![p] = None]
    /\ UNCHANGED <<seenPolicies, policyQueue, policyWorker, settingVars, edits>>

(***************************************************************************)
(* The informer catches up with the API server and its event handler adds  *)
(* the key to the queue, which holds a key at most once.                   *)
(***************************************************************************)
InformPolicy(p) ==
    /\ seenPolicies[p] # policies[p]
    /\ seenPolicies' = [seenPolicies EXCEPT ![p] = policies[p]]
    /\ policyQueue' = policyQueue \cup {p}
    /\ UNCHANGED <<policies, policyWorker, settingVars, edits>>

(***************************************************************************)
(* The settings.  mapGlobalConfigToDNSPolicies lists the informer's store. *)
(***************************************************************************)
mapGlobalConfigToActivePolicies ==   \* mutant: inactive policies are left out
    {p \in Policies : seenPolicies[p] # None /\ seenPolicies[p].status.active}

mapGlobalConfigToDNSPolicies == {p \in Policies : seenPolicies[p] # None}

IdentityChanges ==
    /\ IdentityView!ViewChanges
    /\ UNCHANGED <<policies, seenPolicies, policyQueue, policyWorker,
                   config, configOwed, edits>>

ConfigChanges ==
    /\ ConfigView!ViewChanges
    /\ UNCHANGED <<policies, seenPolicies, policyQueue, policyWorker,
                   identity, identityOwed, edits>>

IdentityEvent ==
    /\ IdentityView!ViewEvent
    /\ policyQueue' = policyQueue \cup mapGlobalConfigToDNSPolicies
    /\ UNCHANGED <<policies, seenPolicies, policyWorker,
                   config, configOwed, edits>>

ConfigEventIsIgnored ==      \* mutant: DNSConfigurations are not watched
    /\ ConfigView!ViewEvent
    /\ UNCHANGED <<policies, seenPolicies, policyQueue, policyWorker,
                   identity, identityOwed, edits>>

ConfigEvent ==
    /\ ConfigView!ViewEvent
    /\ policyQueue' = policyQueue \cup mapGlobalConfigToDNSPolicies
    /\ UNCHANGED <<policies, seenPolicies, policyWorker,
                   identity, identityOwed, edits>>

-----------------------------------------------------------------------------
(***************************************************************************)
(* Reconcile.                                                              *)
(***************************************************************************)
StartPolicyUnchecked(p) ==   \* mutant: NotFound is not told from success
    /\ policyWorker.pc = "idle"
    /\ p \in policyQueue
    /\ policyQueue' = policyQueue \ {p}
    /\ policyWorker' = [pc |-> "identity", key |-> p, obj |-> seenPolicies[p],
                        id |-> None, cfg |-> None]
    /\ UNCHANGED <<policies, seenPolicies, settingVars, edits>>

\* The worker takes the key and r.Get reads the store.  NotFound ends it.
StartPolicy(p) ==
    /\ policyWorker.pc = "idle"
    /\ p \in policyQueue
    /\ policyQueue' = policyQueue \ {p}
    /\ policyWorker' =
        IF seenPolicies[p] = None
        THEN IdlePolicyWorker
        ELSE [pc |-> "identity", key |-> p, obj |-> seenPolicies[p],
              id |-> None, cfg |-> None]
    /\ UNCHANGED <<policies, seenPolicies, settingVars, edits>>

\* clusteridentity.Fetch: without an identity the status is written at once.
FetchIdentity ==
    /\ policyWorker.pc = "identity"
    /\ policyWorker' = [policyWorker EXCEPT
        !.pc = IF identity = None THEN "update" ELSE "config",
        !.id = identity]
    /\ UNCHANGED <<policies, seenPolicies, policyQueue, settingVars, edits>>

\* dnsconfiguration.Fetch; what follows it up to the status is computed.
FetchConfig ==
    /\ policyWorker.pc = "config"
    /\ policyWorker' = [policyWorker EXCEPT !.pc = "update", !.cfg = config]
    /\ UNCHANGED <<policies, seenPolicies, policyQueue, settingVars, edits>>

UpdateStatusBlindly ==       \* mutant: without the resource version
    LET w == policyWorker IN
    /\ w.pc = "update"
    /\ policies[w.key] # None
    /\ policies' = [policies EXCEPT
                        ![w.key].status = PolicyVerdict(w.obj, w.id, w.cfg)]
    /\ policyWorker' = IdlePolicyWorker
    /\ UNCHANGED <<seenPolicies, policyQueue, settingVars, edits>>

\* Status().Update succeeds if the object read is still the stored one.
UpdateStatus ==
    LET w == policyWorker IN
    /\ w.pc = "update"
    /\ policies[w.key] = w.obj
    /\ policies' = [policies EXCEPT
                        ![w.key].status = PolicyVerdict(w.obj, w.id, w.cfg)]
    /\ policyWorker' = IdlePolicyWorker
    /\ UNCHANGED <<seenPolicies, policyQueue, settingVars, edits>>

GiveUpPolicy ==              \* mutant: the error is logged and not returned
    /\ policyWorker' = IdlePolicyWorker
    /\ UNCHANGED <<policies, seenPolicies, policyQueue, settingVars, edits>>

\* A conflict asks for a requeue and any other error returns it: the key
\* goes back to the queue either way.
RequeuePolicy ==
    /\ policyQueue' = policyQueue \cup {policyWorker.key}
    /\ policyWorker' = IdlePolicyWorker
    /\ UNCHANGED <<policies, seenPolicies, settingVars, edits>>

UpdateConflict ==
    /\ policyWorker.pc = "update"
    /\ policies[policyWorker.key] # policyWorker.obj
    /\ RequeuePolicy

UpdateError ==
    /\ policyWorker.pc = "update"
    /\ policies[policyWorker.key] = policyWorker.obj
    /\ RequeuePolicy

(***************************************************************************)
(* The process stops at any point and a new one starts: the queue and the  *)
(* work in hand are lost, the informer lists everything anew.              *)
(***************************************************************************)
Restart ==
    /\ policyWorker' = IdlePolicyWorker
    /\ seenPolicies' = policies
    /\ policyQueue' = {p \in Policies : policies[p] # None}
    /\ IdentityView!ViewRestarts
    /\ ConfigView!ViewRestarts
    /\ UNCHANGED <<policies, edits>>

-----------------------------------------------------------------------------
UserNext == \E p \in Policies: CreatePolicy(p) \/ EditPolicy(p) \/ DeletePolicy(p)

ReconcileNext ==
    \/ \E p \in Policies: StartPolicy(p)
    \/ FetchIdentity
    \/ FetchConfig
    \/ UpdateStatus
    \/ UpdateConflict

\* What goes on when nobody edits anything and no process dies.
SystemNext ==
    \/ \E p \in Policies: InformPolicy(p)
    \/ IdentityEvent
    \/ ConfigEvent
    \/ ReconcileNext
    \/ UpdateError

Next ==
    \/ UserNext
    \/ IdentityChanges
    \/ ConfigChanges
    \/ Restart
    \/ SystemNext

(***************************************************************************)
(* The informer delivers, owed events arrive, and a worker runs what it    *)
(* holds.  The queue is first in, first out, so every key in it gets its   *)
(* turn although the worker is busy in between; and the API server does    *)
(* not refuse the same write for ever.                                     *)
(***************************************************************************)
Fairness ==
    /\ \A p \in Policies: WF_vars(InformPolicy(p))
    /\ \A p \in Policies: SF_vars(StartPolicy(p))
    /\ \A p \in Policies: SF_vars(policyWorker.key = p /\ UpdateStatus)
    /\ WF_vars(identityOwed /\ IdentityEvent)
    /\ WF_vars(configOwed /\ ConfigEvent)
    /\ WF_vars(FetchIdentity)
    /\ WF_vars(FetchConfig)
    /\ WF_vars(UpdateConflict \/ UpdateError)

Spec == Init /\ [][Next]_vars /\ Fairness

-----------------------------------------------------------------------------
(***************************************************************************)
(* Properties.                                                             *)
(***************************************************************************)
\* The status is what Reconcile would compute now: another run of it would
\* not change anything.
PolicyCurrent(p) ==
    policies[p] # None =>
        policies[p].status = PolicyVerdict(policies[p], identity, config)

\* Nothing is left to be done or to be told.
PolicyQuiescent ==
    /\ policyQueue = {}
    /\ policyWorker = IdlePolicyWorker
    /\ seenPolicies = policies
    /\ ~identityOwed
    /\ ~configOwed

\* No wake-up is lost: when the queue is empty and every event has been
\* delivered, each DNSPolicy's status is the one its spec, the cluster
\* identity and the DNS configuration call for, whatever changed while
\* Reconcile was between its reads and its write.
QuiescentCurrent == PolicyQuiescent => \A p \in Policies: PolicyCurrent(p)

\* The inductive form of QuiescentCurrent.
Revised(obj, bound) == obj = None \/ obj.rev <= bound

RevisionsArePast ==
    /\ \A p \in Policies: Revised(policies[p], edits)
    /\ \A p \in Policies: Revised(seenPolicies[p], edits)
    /\ Revised(policyWorker.obj, edits)

\* Something will make the controller look at p again.
PolicyPending(p) ==
    \/ p \in policyQueue
    \/ seenPolicies[p] # policies[p]
    \/ identityOwed
    \/ configOwed

\* An object that can still be written is the one the informer has.
WritableIsSeen ==
    policyWorker.pc # "idle" /\ policies[policyWorker.key] = policyWorker.obj
    => seenPolicies[policyWorker.key] = policyWorker.obj

\* The worker's reads are fresh, or its write will fail, or it will be told.
ReadsAreFresh ==
    LET w == policyWorker IN
    \/ w.pc \in {"idle", "identity"}
    \/ PolicyPending(w.key)
    \/ policies[w.key] # w.obj
    \/ /\ w.id = identity
       /\ w.pc = "config" \/ identity = None \/ w.cfg = config

StaleIsPending ==
    \A p \in Policies:
        \/ PolicyCurrent(p)
        \/ PolicyPending(p)
        \/ policyWorker.pc # "idle" /\ policyWorker.key = p

\* A status that is out of date is being worked on or is going to be: no
\* interleaving of reads, writes, conflicts, events and restarts forgets it.
NoLostWakeUp ==
    /\ RevisionsArePast
    /\ WritableIsSeen
    /\ ReadsAreFresh
    /\ StaleIsPending

\* A status is never written onto a spec it was not computed from: if a
\* step changes the status of a policy that stays in place, the condition's
\* observed generation is that of the spec stored after the step.
StatusOfItsSpec ==
    [][\A p \in Policies:
        (/\ None \notin {policies[p], policies'[p]}
         /\ policies'[p].status # policies[p].status)
        => policies'[p].status.observed = policies'[p].rev]_vars

\* What a status selects: the part of it that the routes go by.
PolicySelection(obj) == <<obj.status.active, obj.status.controllers>>

\* A policy that stays in place is given another selection only by a
\* reconcile that found both settings, and never by an edit.  While the
\* identity or the configuration is missing, as after a restart, the cluster
\* goes on publishing what it published.
SelectionStays ==
    [][\A p \in Policies:
        (/\ None \notin {policies[p], policies'[p]}
         /\ PolicySelection(policies'[p]) # PolicySelection(policies[p]))
        => /\ None \notin {policyWorker.id, policyWorker.cfg}
           /\ policies'[p].spec = policies[p].spec]_vars

\* The worker is going to write p's status from settings that have changed.
OutOfDate(p) ==
    LET w == policyWorker IN
    /\ w.pc \in {"config", "update"}
    /\ w.key = p
    /\ w.obj = policies[p]
    /\ w.id # identity \/ (w.pc = "update" /\ identity # None /\ w.cfg # config)

\* How often a status can still change if users and settings are left alone.
WritesLeft(p) ==
    IF OutOfDate(p) THEN 2 ELSE IF PolicyCurrent(p) THEN 0 ELSE 1

\* The controller does not keep itself busy: each status write is an event
\* that has the policy looked at again, and so is a conflict, a failed write
\* or a needless event; but between disturbances a status changes twice at
\* most, however many policies there are and whatever comes in between.
WritesSubside ==
    [][SystemNext =>
        \A p \in Policies:
            /\ WritesLeft(p)' <= WritesLeft(p)
            /\ policies'[p] # policies[p] => WritesLeft(p)' < WritesLeft(p)]_vars

\* Once users and settings are left alone, every status becomes and stays
\* what Reconcile calls for, however many stale reads, conflicts, failed
\* writes and needless events come in between.
PoliciesSettle ==
    <>[][SystemNext]_vars => <>[](\A p \in Policies: PolicyCurrent(p))
=============================================================================
