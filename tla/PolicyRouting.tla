--------------------------- MODULE PolicyRouting ---------------------------
(***************************************************************************)
(* The two controllers that decide what DNS records a cluster publishes,   *)
(* in one process.  The DNSPolicy controller writes the status of the      *)
(* namespace's policies, the informer shows it to the ServiceRoute         *)
(* controller, and both fetch the same identity and configuration:         *)
(*                                                                         *)
(*   user -> DNSPolicy.spec -> [DNSPolicyController] -> DNSPolicy.status   *)
(*        -> informer -> [ServiceRouteController] -> DNSEndpoints          *)
(*                                                                         *)
(* A step is a step of one controller, or one of what they share.          *)
(***************************************************************************)
EXTENDS Selection, Naturals, FiniteSets

CONSTANTS Policies, PolicySpecs, MaxEdits,
          Routes, Hosts, GatewayNames, Namespaces, DefaultNamespace, Postfixes,
          RouteSpecs, MaxRouteEdits, Identities, Configs

VARIABLES policies, seenPolicies, policyQueue, policyWorker, edits,
          identity, identityOwed, config, configOwed,
          routes, seenRoutes, endpoints, seenEndpoints, gateways, seenGateways,
          routeQueue, routeWorker, unread, routeEdits

policyVars == <<policies, seenPolicies, policyQueue, policyWorker, configOwed, edits>>
routeVars == <<routes, seenRoutes, endpoints, seenEndpoints, gateways,
               seenGateways, routeQueue, routeWorker, unread, routeEdits>>
vars == <<policyVars, identity, identityOwed, config, routeVars>>

P == INSTANCE DNSPolicyController

\* What the ServiceRoute controller uses of a DNSPolicy: part of its status.
policyView(obj) ==
    IF obj = None THEN None
    ELSE [active |-> obj.status.active, controllers |-> obj.status.controllers]

R == INSTANCE ServiceRouteController WITH
    PolicyViews <- [active: BOOLEAN, controllers: SUBSET Controllers],
    policyViews <- [p \in Policies |-> policyView(seenPolicies[p])]

\* The assumptions of both.
ASSUME RoutingInputs ==
    /\ PolicySpecs \subseteq PolicySpec
    /\ RouteSpecs \subseteq R!RouteSpec
    /\ Identities \subseteq Identity
    /\ Configs \subseteq Config
    /\ DefaultNamespace \in Namespaces
    /\ MaxEdits \in Nat
    /\ MaxRouteEdits \in Nat
    /\ None \notin Identities
    /\ None \notin Configs
    /\ None \notin Postfixes
    /\ None \notin P!Policy
    /\ None \notin R!Route
    /\ None \notin R!Endpoint
    /\ None \notin [active: BOOLEAN, controllers: SUBSET Controllers]

Init == P!Init /\ R!Init

-----------------------------------------------------------------------------
OfPolicies(A) == A /\ UNCHANGED routeVars

OfRoutes(A) ==
    /\ UNCHANGED policyVars
    /\ UNCHANGED <<identity, identityOwed, config>>
    /\ A

InformPolicyOnly(p) ==       \* mutant: routes do not watch DNSPolicies
    P!InformPolicy(p) /\ UNCHANGED routeVars

\* The informer's event for a DNSPolicy goes to both controllers.
InformPolicy(p) == P!InformPolicy(p) /\ R!PolicyEvent

IdentityChanges == P!IdentityChanges /\ R!IdentityChanges

IdentityEvent == P!IdentityEvent /\ R!IdentityEvent

ConfigChanges == P!ConfigChanges /\ R!ConfigChanges

Restart == P!Restart /\ R!Restart

\* The informers and the garbage collector have something to deliver or do.
Informing ==
    \/ \E p \in Policies: InformPolicy(p)
    \/ identityOwed /\ IdentityEvent
    \/ configOwed /\ OfPolicies(P!ConfigEvent)
    \/ OfRoutes(R!RouteInformerNext)
    \/ OfRoutes(R!CollectorNext)

\* What goes on when nothing around the controllers changes or fails.
SystemNext ==
    \/ Informing
    \/ OfPolicies(P!ReconcileNext)
    \/ OfRoutes(R!RouteReconcileNext)

\* Failing calls and needless events.  Each controller by itself is checked
\* to live with any number of them; here they are counted as disturbances.
Fault ==
    \/ OfPolicies(P!UpdateError)
    \/ OfRoutes(R!RouteError)
    \/ ~identityOwed /\ IdentityEvent
    \/ ~configOwed /\ OfPolicies(P!ConfigEvent)

Disturbance ==
    \/ OfPolicies(P!UserNext)
    \/ OfRoutes(R!UserNext)
    \/ IdentityChanges
    \/ ConfigChanges
    \/ Restart
    \/ Fault

Next == Disturbance \/ SystemNext

\* That they do act is for the Operator module to say.
Spec == Init /\ [][Next]_vars

-----------------------------------------------------------------------------
(***************************************************************************)
(* Properties.                                                             *)
(***************************************************************************)
\* The ServiceRoute controller was checked with DNSPolicies whose statuses
\* change at will; next to the DNSPolicy controller it does nothing else.
ImplementsRouteController == [][R!Next]_(R!vars)

Resting == P!PolicyQuiescent /\ R!RouteQuiescent

\* The controllers whose zones are to have the records of a route under a
\* policy: the decision of determineActiveControllers from end to end.
Selected(policy) ==
    IF isPolicyActive(policy.spec, identity)
    THEN determineActiveControllers(policy.spec, identity, config)
    ELSE {}

\* A route that has everything that publishing it takes.
Publishable(r) ==
    /\ routes[r] # None
    /\ routes[r].spec.host # Unset
    /\ gateways[R!gatewayOf(routes[r].spec)] # None
    /\ identity # None
    /\ config # None

PoliciesHere == {policies[p] : p \in Policies} \ {None}

\* Under an active policy that selects nothing generateDNSEndpoints fails
\* before anything is deleted, and what was published before stays.
SelectsNothing(policy) ==
    isPolicyActive(policy.spec, identity) /\ Selected(policy) = {}

\* r is published by exactly the controllers that policy selects, and its
\* records lead to the cluster as it is identified now.
PublishedUnder(r, policy) ==
    /\ R!Published(r) = Selected(policy)
    /\ \A c \in R!Published(r):
        /\ endpoints[r, c].target[1] = identity.cluster
        /\ endpoints[r, c].target[2] = identity.region

\* Of the policies of the namespace it is one, and as a whole, that r is
\* published under; never a mixture of two.
PublishedAsSelected(r) ==
    Publishable(r) /\ PoliciesHere # {} =>
        \E policy \in PoliciesHere:
            SelectsNothing(policy) \/ PublishedUnder(r, policy)

\* From end to end: when both controllers rest, the DNSEndpoints of a route
\* are those of the controllers that a policy's spec, the cluster identity
\* and the DNS configuration select, and lead to this cluster; provided the
\* route was reconciled since the configuration last changed.
RestPublishesSelected ==
    Resting => \A r \in Routes \ unread: PublishedAsSelected(r)
=============================================================================
