---------------------- MODULE ClusterIdentityController ----------------------
(***************************************************************************)
(* The ClusterIdentity controller (internal/controller/cluster/            *)
(* clusteridentity_controller.go) and the cache it fills for the others    *)
(* (internal/clusteridentity).                                             *)
(*                                                                         *)
(* Others read with Fetch: the cache or, when that is empty, the first     *)
(* ClusterIdentity the informer lists.  They are woken up by the watch     *)
(* events of ClusterIdentities, which do not wait for this controller.     *)
(* With one ClusterIdentity that is never deleted this is a NotifiedView;  *)
(* that it is not one otherwise is shown as well.                          *)
(***************************************************************************)
EXTENDS Selection, Naturals, FiniteSets

CONSTANTS
    Names,              \* names of ClusterIdentities
    Deletable,          \* those that users delete
    Identities,         \* specs that users write
    Configs,            \* DNS configurations the cluster can be given
    MaxIdentityEdits    \* bound: specs written by users in one behaviour

ASSUME IdentityInputs ==
    /\ Deletable \subseteq Names
    /\ Identities \subseteq Identity
    /\ Configs \subseteq Config
    /\ None \notin Identities
    /\ None \notin Configs
    /\ MaxIdentityEdits \in Nat

VARIABLES
    clusterIdentities,  \* the API server: each ClusterIdentity, or None
    seenIdentities,     \* the informer's store of them
    identityQueue,      \* the controller's workqueue
    identityWorker,     \* what its worker holds
    cache,              \* package clusteridentity's cache, None when empty
    notified,           \* no event of the informer is on its way to the others
    identityOwed,       \* history: Fetch changed and the others had no event since
    config,             \* what dnsconfiguration.Fetch returns
    configOwed,         \* it changed and no DNSConfiguration event followed yet
    identityEdits       \* specs written so far

configVars == <<config, configOwed>>
vars == <<clusterIdentities, seenIdentities, identityQueue, identityWorker, cache,
          notified, identityOwed, config, configOwed, identityEdits>>

ConfigView == INSTANCE NotifiedView WITH
    Values <- Configs, Missing <- None,
    view <- config, owed <- configOwed

-----------------------------------------------------------------------------
(***************************************************************************)
(* "rev" is the UID and the generation of a ClusterIdentity in one.  Of    *)
(* its status: the phase with the reason of the Ready condition, and the   *)
(* reason of AdoptedRegionsValid, each with its observed generation.       *)
(***************************************************************************)
IdentityReasons == {"", "ReconciliationSucceeded", "SingletonViolation"}
AdoptedReasons ==
    {"", "NoAdoptedRegions", "AdoptedRegionNotFound", "AllAdoptedRegionsValid"}

IdentityStatus ==
    [phase: {"", "Active", "Failed"}, reason: IdentityReasons,
     observed: 0..MaxIdentityEdits,
     adopted: AdoptedReasons, adoptedObserved: 0..MaxIdentityEdits]

NewIdentityStatus ==
    [phase |-> "", reason |-> "", observed |-> 0,
     adopted |-> "", adoptedObserved |-> 0]

ClusterIdentity ==
    [spec: Identities, rev: 1..MaxIdentityEdits, status: IdentityStatus]

ASSUME NoneIsNoIdentity == None \notin ClusterIdentity

\* What Fetch can return: one of several when they are listed in no order.
Fetch(cached, listed) ==
    IF cached # None THEN {cached}
    ELSE LET there == {listed[n] : n \in Names} \ {None}
         IN  IF there = {} THEN {None} ELSE {obj.spec : obj \in there}

Fetched == Fetch(cache, seenIdentities)

IdentityView == INSTANCE NotifiedView WITH
    Values <- (SUBSET Identities) \ {{}}, Missing <- {None},
    view <- Fetched, owed <- identityOwed

validateAtMostTwo ==             \* mutant: off by one
    Cardinality({n \in Names : seenIdentities[n] # None}) <= 2

\* validateSingleton, by the informer's store.  (The schema already promises
\* what validateSpec checks.)
validateSingleton ==
    \A m, n \in Names: None \notin {seenIdentities[m], seenIdentities[n]} => m = n

\* validateAdoptedRegions: a missing DNSConfiguration has no regions.
validateAdoptedRegions(obj, cfg) ==
    [obj EXCEPT
        !.status.adopted =
            LET known == IF cfg = None THEN {} ELSE {cfg[c] : c \in DOMAIN cfg}
            IN  IF obj.spec.adopts = {} THEN "NoAdoptedRegions"
                ELSE IF obj.spec.adopts \subseteq known
                THEN "AllAdoptedRegionsValid"
                ELSE "AdoptedRegionNotFound",
        !.status.adoptedObserved = obj.rev]

updateStatusActive(obj) ==
    [obj EXCEPT !.status.phase = "Active",
                !.status.reason = "ReconciliationSucceeded",
                !.status.observed = obj.rev]

updateStatusFailed(obj) ==
    [obj EXCEPT !.status.phase = "Failed",
                !.status.reason = "SingletonViolation",
                !.status.observed = obj.rev]

-----------------------------------------------------------------------------
\* "read" is the object as it was read, "obj" as it is to be stored.
IdleIdentityWorker == [pc |-> "idle", key |-> None, read |-> None, obj |-> None]

IdentityWorker ==
    {IdleIdentityWorker} \cup
    [pc: {"clear", "singleton", "adopted", "set", "update"}, key: Names,
     read: ClusterIdentity \cup {None}, obj: ClusterIdentity \cup {None}]

IdentityTypeOK ==
    /\ clusterIdentities \in [Names -> ClusterIdentity \cup {None}]
    /\ seenIdentities \in [Names -> ClusterIdentity \cup {None}]
    /\ identityQueue \subseteq Names
    /\ identityWorker \in IdentityWorker
    /\ identityWorker.pc \in {"singleton", "adopted", "set", "update"}
        => None \notin {identityWorker.read, identityWorker.obj}
    /\ cache \in Identities \cup {None}
    /\ notified \in BOOLEAN
    /\ identityOwed \in BOOLEAN
    /\ ConfigView!ViewTypeOK
    /\ identityEdits \in 0..MaxIdentityEdits

Init ==
    /\ clusterIdentities = [n \in Names |-> None]
    /\ seenIdentities = clusterIdentities
    /\ identityQueue = {}
    /\ identityWorker = IdleIdentityWorker
    /\ cache = None
    /\ notified = TRUE
    /\ identityOwed = FALSE
    /\ ConfigView!ViewInit
    /\ identityEdits = 0

-----------------------------------------------------------------------------
(***************************************************************************)
(* Users.  A ClusterIdentity has no finalizer.                             *)
(***************************************************************************)
WriteIdentity(n, written) ==
    /\ identityEdits < MaxIdentityEdits
    /\ identityEdits' = identityEdits + 1
    /\ clusterIdentities' = [clusterIdentities EXCEPT ![n] = written]
    /\ UNCHANGED <<seenIdentities, identityQueue, identityWorker, cache,
                   notified, identityOwed, configVars>>

CreateIdentity(n) ==
    /\ clusterIdentities[n] = None
    /\ \E spec \in Identities:
        WriteIdentity(n, [spec |-> spec, rev |-> identityEdits + 1,
                          status |-> NewIdentityStatus])

EditIdentity(n) ==
    /\ clusterIdentities[n] # None
    /\ \E spec \in Identities \ {clusterIdentities[n].spec}:
        WriteIdentity(n, [clusterIdentities[n] EXCEPT
                            !.spec = spec, !.rev = identityEdits + 1])

DeleteIdentity(n) ==
    /\ clusterIdentities[n] # None
    /\ clusterIdentities' = [clusterIdentities EXCEPT ![n] = None]
    /\ UNCHANGED <<seenIdentities, identityQueue, identityWorker, cache,
                   notified, identityOwed, configVars, identityEdits>>

(***************************************************************************)
(* The informer.  Its store is what List, and so Fetch, reads; afterwards  *)
(* the event goes to this controller and, on a way of its own, to those    *)
(* that watch ClusterIdentities too.                                       *)
(***************************************************************************)
\* The history of what is owed to them, for a step that may change Fetched.
Owes == identityOwed' = (identityOwed \/ Fetched' # Fetched)

InformIdentity(n) ==
    /\ seenIdentities[n] # clusterIdentities[n]
    /\ seenIdentities' = [seenIdentities EXCEPT ![n] = clusterIdentities[n]]
    /\ identityQueue' = identityQueue \cup {n}
    /\ notified' = FALSE
    /\ UNCHANGED <<clusterIdentities, identityWorker, cache, configVars,
                   identityEdits>>
    /\ Owes

\* The event reaches the others.
NotifyOthers ==
    /\ ~notified
    /\ notified' = TRUE
    /\ identityOwed' = FALSE
    /\ UNCHANGED <<clusterIdentities, seenIdentities, identityQueue,
                   identityWorker, cache, configVars, identityEdits>>

ConfigChanges ==
    /\ ConfigView!ViewChanges
    /\ UNCHANGED <<clusterIdentities, seenIdentities, identityQueue,
                   identityWorker, cache, notified, identityOwed, identityEdits>>

mapDNSConfigToNone == {}         \* mutant: DNSConfigurations are not watched

mapDNSConfigToClusterIdentities == {n \in Names : seenIdentities[n] # None}

ConfigEvent ==
    /\ ConfigView!ViewEvent
    /\ identityQueue' = identityQueue \cup mapDNSConfigToClusterIdentities
    /\ UNCHANGED <<clusterIdentities, seenIdentities, identityWorker, cache,
                   notified, identityOwed, identityEdits>>

-----------------------------------------------------------------------------
(***************************************************************************)
(* Reconcile, step by step: the worker's pc is what comes next.            *)
(***************************************************************************)
Continue(pc, obj) ==
    identityWorker' = [identityWorker EXCEPT !.pc = pc, !.obj = obj]

StartIdentityUnchecked(n) ==     \* mutant: NotFound is not told from success
    /\ identityWorker.pc = "idle"
    /\ n \in identityQueue
    /\ identityQueue' = identityQueue \ {n}
    /\ identityWorker' = [pc |-> "singleton", key |-> n,
                          read |-> seenIdentities[n], obj |-> seenIdentities[n]]
    /\ UNCHANGED <<clusterIdentities, seenIdentities, cache, notified,
                   identityOwed, configVars, identityEdits>>

\* The worker takes the key and r.Get reads the store.
StartIdentity(n) ==
    /\ identityWorker.pc = "idle"
    /\ n \in identityQueue
    /\ identityQueue' = identityQueue \ {n}
    /\ identityWorker' =
        [pc |-> IF seenIdentities[n] = None THEN "clear" ELSE "singleton",
         key |-> n, read |-> seenIdentities[n], obj |-> seenIdentities[n]]
    /\ UNCHANGED <<clusterIdentities, seenIdentities, cache, notified,
                   identityOwed, configVars, identityEdits>>

KeepCache ==                     \* mutant: NotFound does not clear the cache
    /\ identityWorker.pc = "clear"
    /\ identityWorker' = IdleIdentityWorker
    /\ UNCHANGED <<clusterIdentities, seenIdentities, identityQueue, cache,
                   notified, identityOwed, configVars, identityEdits>>

\* The object is gone: clusteridentity.Clear.
ClearCache ==
    /\ identityWorker.pc = "clear"
    /\ cache' = None
    /\ identityWorker' = IdleIdentityWorker
    /\ UNCHANGED <<clusterIdentities, seenIdentities, identityQueue, notified,
                   configVars, identityEdits>>
    /\ Owes

CheckSingleton ==
    /\ identityWorker.pc = "singleton"
    /\ IF validateSingleton
       THEN Continue("adopted", identityWorker.obj)
       ELSE Continue("update", updateStatusFailed(identityWorker.obj))
    /\ UNCHANGED <<clusterIdentities, seenIdentities, identityQueue, cache,
                   notified, identityOwed, configVars, identityEdits>>

CheckAdoptedRegions ==
    /\ identityWorker.pc = "adopted"
    /\ Continue("set", validateAdoptedRegions(identityWorker.obj, config))
    /\ UNCHANGED <<clusterIdentities, seenIdentities, identityQueue, cache,
                   notified, identityOwed, configVars, identityEdits>>

\* clusteridentity.Set comes before the status update.
SetCache ==
    /\ identityWorker.pc = "set"
    /\ cache' = identityWorker.obj.spec
    /\ Continue("update", updateStatusActive(identityWorker.obj))
    /\ UNCHANGED <<clusterIdentities, seenIdentities, identityQueue, notified,
                   configVars, identityEdits>>
    /\ Owes

UpdateIdentityPhase ==           \* mutant: no update while the phase is the same
    LET w == identityWorker IN
    /\ w.pc = "update"
    /\ clusterIdentities[w.key] = w.read
    /\ clusterIdentities' =
        IF w.obj.status.phase = w.read.status.phase
        THEN clusterIdentities
        ELSE [clusterIdentities EXCEPT ![w.key] = w.obj]
    /\ identityWorker' = IdleIdentityWorker
    /\ UNCHANGED <<seenIdentities, identityQueue, cache, notified, identityOwed,
                   configVars, identityEdits>>

\* Status().Update succeeds if the object read is still the stored one.
UpdateIdentityStatus ==
    LET w == identityWorker IN
    /\ w.pc = "update"
    /\ clusterIdentities[w.key] = w.read
    /\ clusterIdentities' = [clusterIdentities EXCEPT ![w.key] = w.obj]
    /\ identityWorker' = IdleIdentityWorker
    /\ UNCHANGED <<seenIdentities, identityQueue, cache, notified, identityOwed,
                   configVars, identityEdits>>

\* A conflict asks for a requeue and any other error returns it.
RequeueIdentity ==
    /\ identityQueue' = identityQueue \cup {identityWorker.key}
    /\ identityWorker' = IdleIdentityWorker
    /\ UNCHANGED <<clusterIdentities, seenIdentities, cache, notified,
                   identityOwed, configVars, identityEdits>>

IdentityConflict ==
    /\ identityWorker.pc = "update"
    /\ clusterIdentities[identityWorker.key] # identityWorker.read
    /\ RequeueIdentity

IdentityError ==
    /\ identityWorker.pc = "update"
    /\ clusterIdentities[identityWorker.key] = identityWorker.read
    /\ RequeueIdentity

(***************************************************************************)
(* The process dies, with its cache, and a new one lists everything.  The  *)
(* others start over with it and are owed nothing.                         *)
(***************************************************************************)
Restart ==
    /\ identityWorker' = IdleIdentityWorker
    /\ seenIdentities' = clusterIdentities
    /\ identityQueue' = {n \in Names : clusterIdentities[n] # None}
    /\ cache' = None
    /\ notified' = (identityQueue' = {})
    /\ identityOwed' = FALSE
    /\ ConfigView!ViewRestarts
    /\ UNCHANGED <<clusterIdentities, identityEdits>>

-----------------------------------------------------------------------------
UserNext ==
    \/ \E n \in Names: CreateIdentity(n) \/ EditIdentity(n)
    \/ \E n \in Deletable: DeleteIdentity(n)

IdentityReconcileNext ==
    \/ \E n \in Names: StartIdentity(n)
    \/ ClearCache
    \/ CheckSingleton
    \/ CheckAdoptedRegions
    \/ SetCache
    \/ UpdateIdentityStatus
    \/ IdentityConflict
    \/ IdentityError

Next ==
    \/ UserNext
    \/ \E n \in Names: InformIdentity(n)
    \/ NotifyOthers
    \/ ConfigChanges
    \/ ConfigEvent
    \/ IdentityReconcileNext
    \/ Restart

\* As for the controllers of the namespaces.
Fairness ==
    /\ \A n \in Names:
        /\ WF_vars(InformIdentity(n))
        /\ SF_vars(StartIdentity(n))
        /\ SF_vars(identityWorker.key = n /\ UpdateIdentityStatus)
    /\ WF_vars(NotifyOthers)
    /\ WF_vars(configOwed /\ ConfigEvent)
    /\ WF_vars(ClearCache \/ CheckSingleton \/ CheckAdoptedRegions \/ SetCache)
    /\ WF_vars(IdentityConflict \/ IdentityError)

Spec == Init /\ [][Next]_vars /\ Fairness

-----------------------------------------------------------------------------
(***************************************************************************)
(* Properties.                                                             *)
(***************************************************************************)
IdentityQuiescent ==
    /\ identityQueue = {}
    /\ identityWorker = IdleIdentityWorker
    /\ seenIdentities = clusterIdentities
    /\ notified
    /\ ~configOwed

\* What the namespaced controllers are checked with: each change of what
\* Fetch returns is followed by an event.  It comes from the status update
\* that follows Set, not from the event that caused Set, which the others
\* may have handled before.  True of one ClusterIdentity never deleted.
ImplementsNotifiedView == IdentityView!ViewSpec

\* With a single ClusterIdentity at rest, Fetch returns its spec and its
\* status says what its spec and the DNS configuration call for.
AloneIsCurrent ==
    IdentityQuiescent =>
        \A n \in Names:
            Names = {n} /\ clusterIdentities[n] # None =>
            /\ Fetched = {clusterIdentities[n].spec}
            /\ clusterIdentities[n] =
                updateStatusActive(
                    validateAdoptedRegions(clusterIdentities[n], config))

\* When no ClusterIdentity is left the cache is empty at last, whatever Set
\* was under way during the deletions.
DeletedIsForgotten ==
    IdentityQuiescent /\ (\A n \in Names: clusterIdentities[n] = None)
        => Fetched = {None}

\* At rest at most one ClusterIdentity is Active: although each of them only
\* counts what the informer has listed, two cannot both have been alone.
OneIsActive ==
    IdentityQuiescent =>
        \A m, n \in Names:
            /\ None \notin {clusterIdentities[m], clusterIdentities[n]}
            /\ clusterIdentities[m].status.phase = "Active"
            /\ clusterIdentities[n].status.phase = "Active"
            => m = n

(***************************************************************************)
(* What a comment promises and the code keeps only of a ClusterIdentity    *)
(* that is not deleted: with deletions this one is checked to be violated. *)
(***************************************************************************)
\* "Clear the cache when the resource is deleted to prevent other
\* controllers from using stale data" (Reconcile).  The event of the
\* deletion does not wait for Clear, and after Clear there is none.
OthersAreTold == IdentityQuiescent => ~identityOwed
=============================================================================
