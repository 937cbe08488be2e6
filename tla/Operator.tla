------------------------------ MODULE Operator ------------------------------
(***************************************************************************)
(* From end to end: the ClusterIdentity controller in one process with the *)
(* two of PolicyRouting.  There the identity changes at will and an event  *)
(* follows; here the ClusterIdentity controller does both:                 *)
(*                                                                         *)
(*   user -> ClusterIdentity.spec -> [ClusterIdentityController] -> cache  *)
(*        -> Fetch -> [PolicyRouting] -> DNSEndpoints                      *)
(*        -> informer -> events to all three                               *)
(*                                                                         *)
(* "identity" is what Fetch answers.  There is one ClusterIdentity, and    *)
(* nobody deletes it: with deletions the others are not always told.       *)
(***************************************************************************)
EXTENDS PolicyRouting

CONSTANTS
    Name,               \* the name of the ClusterIdentity
    MaxIdentityEdits    \* bound: specs written by users in one behaviour

VARIABLES clusterIdentities, seenIdentities, identityQueue, identityWorker,
          cache, notified, identityEdits

identityVars == <<clusterIdentities, seenIdentities, identityQueue,
                  identityWorker, cache, notified, identityEdits>>
operatorVars == <<vars, identityVars>>

I == INSTANCE ClusterIdentityController WITH
    Names <- {Name}, Deletable <- {}

ASSUME OperatorInputs ==
    /\ MaxIdentityEdits \in Nat
    /\ None \notin I!ClusterIdentity

OperatorInit ==
    /\ I!Init
    /\ identity \in I!Fetched
    /\ Init

-----------------------------------------------------------------------------
(***************************************************************************)
(* Steps of the ClusterIdentity controller and of what only it reads; of   *)
(* the two others; and of all three.                                       *)
(***************************************************************************)
OfIdentity(A) ==
    /\ A
    /\ identity' \in I!Fetched'
    /\ UNCHANGED <<policyVars, config, routeVars>>

OfOthers(A) == A /\ UNCHANGED identityVars

NotifyPolicies ==            \* mutant: routes do not watch ClusterIdentities
    I!NotifyOthers /\ P!IdentityEvent /\ UNCHANGED routeVars

NotifyOthers == I!NotifyOthers /\ IdentityEvent

OperatorConfigChanges == I!ConfigChanges /\ ConfigChanges

OperatorConfigEvent == I!ConfigEvent /\ OfPolicies(P!ConfigEvent)

OperatorRestart == I!Restart /\ identity' \in I!Fetched' /\ Restart

OperatorInforming ==
    \/ OfIdentity(I!InformIdentity(Name))
    \/ NotifyOthers
    \/ configOwed /\ OperatorConfigEvent
    \/ \E p \in Policies: OfOthers(InformPolicy(p))
    \/ OfOthers(OfRoutes(R!RouteInformerNext))
    \/ OfOthers(OfRoutes(R!CollectorNext))

\* ClearCache is for a ClusterIdentity that was deleted.
IdentityReconciles ==
    OfIdentity(\/ I!StartIdentity(Name)
               \/ I!CheckSingleton
               \/ I!CheckAdoptedRegions
               \/ I!SetCache
               \/ I!UpdateIdentityStatus
               \/ I!IdentityConflict)

OperatorSystemNext ==
    \/ OperatorInforming
    \/ IdentityReconciles
    \/ OfOthers(OfPolicies(P!ReconcileNext))
    \/ OfOthers(OfRoutes(R!RouteReconcileNext))

OperatorFault ==
    \/ OfIdentity(I!IdentityError)
    \/ OfOthers(OfPolicies(P!UpdateError))
    \/ OfOthers(OfRoutes(R!RouteError))
    \/ ~configOwed /\ OperatorConfigEvent

OperatorDisturbance ==
    \/ OfIdentity(I!UserNext)
    \/ OfOthers(OfPolicies(P!UserNext))
    \/ OfOthers(OfRoutes(R!UserNext))
    \/ OperatorConfigChanges
    \/ OperatorRestart

OperatorNext == OperatorDisturbance \/ OperatorFault \/ OperatorSystemNext

(***************************************************************************)
(* Less than what each controller was checked with: nothing is said of one *)
(* key, or of one kind of event, as failing calls do not go on for ever.   *)
(***************************************************************************)
OperatorFairness ==
    /\ WF_operatorVars(OperatorInforming)
    /\ WF_operatorVars(IdentityReconciles)
    /\ WF_operatorVars(OfOthers(OfPolicies(P!ReconcileNext)))
    /\ WF_operatorVars(OfOthers(OfRoutes(R!RouteReconcileNext)))

OperatorSpec == OperatorInit /\ [][OperatorNext]_operatorVars /\ OperatorFairness

-----------------------------------------------------------------------------
(***************************************************************************)
(* Properties.                                                             *)
(***************************************************************************)
\* What PolicyRouting leaves to the identity's will is all that a
\* ClusterIdentity controller, its cache and its informer do to the others.
ImplementsPolicyRouting == [][Next]_vars

\* No queue, no worker and no informer has anything left to do.  That nobody
\* is owed an event of the ClusterIdentity is not part of it.
OperatorRests ==
    /\ I!IdentityQuiescent
    /\ policyQueue = {}
    /\ policyWorker = P!IdlePolicyWorker
    /\ seenPolicies = policies
    /\ routeQueue = {}
    /\ routeWorker = R!IdleRouteWorker
    /\ seenRoutes = routes
    /\ seenEndpoints = endpoints
    /\ seenGateways = gateways
    /\ \A r \in Routes, c \in Controllers: ~R!Orphaned(r, c)

SpecifiedIdentity ==
    IF clusterIdentities[Name] = None
    THEN None
    ELSE clusterIdentities[Name].spec

\* From the specs of ClusterIdentity and DNSPolicy to the DNSEndpoints: when
\* everything rests the records of a route are those of the controllers that
\* a policy's spec selects for the identity users have written, and lead to
\* that cluster and region; whatever the order of the watch event, of the
\* two other controllers' reads, and of Set.
RestPublishesSpecified ==
    OperatorRests =>
        /\ identity = SpecifiedIdentity
        /\ \A r \in Routes \ unread: PublishedAsSelected(r)

\* Once nothing changes and nothing fails, the three controllers get there;
\* if the namespace has no second policy, or they may never rest.
SpecifiedSettles ==
    /\ <>[][OperatorSystemNext]_operatorVars
    /\ <>[](Cardinality(PoliciesHere) <= 1)
    => <>[](/\ identity = SpecifiedIdentity
            /\ \A r \in Routes \ unread: PublishedAsSelected(r))
=============================================================================
