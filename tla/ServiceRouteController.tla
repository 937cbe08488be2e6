----------------------- MODULE ServiceRouteController -----------------------
(***************************************************************************)
(* The ServiceRoute controller (internal/controller/routing/               *)
(* serviceroute_controller.go) and the DNSEndpoints it keeps, which        *)
(* ExternalDNS turns into DNS records, in one namespace.                   *)
(*                                                                         *)
(* Reconcile reads seven things that change under it: the route, the       *)
(* namespace's DNSPolicy, the DNS configuration, the gateway, the cluster  *)
(* identity and its own DNSEndpoints, as the informers have them; then it  *)
(* writes the DNSEndpoints one at a time, and last the route's status.     *)
(* The garbage collector removes DNSEndpoints whose owner is gone.         *)
(***************************************************************************)
EXTENDS Selection, Naturals, FiniteSets

CONSTANTS
    Routes,             \* names of ServiceRoutes
    Hosts,              \* service, environment and application of a route
    GatewayNames,
    Namespaces,         \* of gateways
    DefaultNamespace,   \* --default-router-gateway-namespace: of a route that names none
    Postfixes,          \* target postfixes of gateways
    Policies,           \* names of the DNSPolicies of the namespace
    RouteSpecs,         \* specs that users write
    PolicyViews,        \* what the status of a DNSPolicy can say
    Identities,         \* identities this cluster can be given
    Configs,            \* DNS configurations it can be given
    MaxRouteEdits       \* bound: specs of routes written in one behaviour

VARIABLES
    routes,             \* the API server: each ServiceRoute, or None
    seenRoutes,         \* the informer's store of them
    endpoints,          \* the API server: each DNSEndpoint, or None
    seenEndpoints,      \* the informer's store of them
    gateways,           \* the API server: the postfix of each Gateway, or None
    seenGateways,       \* the informer's store of them
    policyViews,        \* the informer's store of DNSPolicies
    routeQueue,         \* the controller's workqueue
    routeWorker,        \* what its worker holds
    identity,           \* what clusteridentity.Fetch returns
    identityOwed,       \* it changed and no ClusterIdentity event followed yet
    config,             \* what dnsconfiguration.Fetch returns
    unread,             \* history: routes not reconciled since it changed
    routeEdits          \* specs written so far

routeVars == <<routes, seenRoutes, routeEdits>>
endpointVars == <<endpoints, seenEndpoints>>
inputVars == <<gateways, seenGateways, policyViews, identity, identityOwed,
               config>>
vars == <<routes, seenRoutes, endpoints, seenEndpoints, gateways, seenGateways,
          policyViews, routeQueue, routeWorker, identity, identityOwed, config,
          unread, routeEdits>>

IdentityView == INSTANCE NotifiedView WITH
    Values <- Identities, Missing <- None,
    view <- identity, owed <- identityOwed

-----------------------------------------------------------------------------
(***************************************************************************)
(* Routes.  "host" is Unset when a part of it is empty, which the schema   *)
(* admits.  "born" is the UID: the revision of the creation.               *)
(***************************************************************************)
RouteSpec ==
    [host: Hosts \cup {Unset}, gateway: GatewayNames,
     gatewayNamespace: Namespaces \cup {Unset}]

GatewayKeys == GatewayNames \X Namespaces

ASSUME RouteInputs ==
    /\ RouteSpecs \subseteq RouteSpec
    /\ PolicyViews \subseteq [active: BOOLEAN, controllers: SUBSET Controllers]
    /\ Identities \subseteq Identity
    /\ Configs \subseteq Config
    /\ DefaultNamespace \in Namespaces
    /\ None \notin Identities
    /\ None \notin Configs
    /\ None \notin PolicyViews
    /\ None \notin Postfixes
    /\ MaxRouteEdits \in Nat

RoutePhases == {"", "Active", "Pending", "Failed"}
RouteReasons == {"", "ReconciliationSucceeded", "ValidationFailed",
    "DNSPolicyNotFound", "DNSPolicyInactive", "DNSConfigurationNotAvailable",
    "GatewayNotFound", "ClusterIdentityNotAvailable",
    "DNSEndpointGenerationFailed"}

\* "dnsEndpoint" is the controller of the DNSEndpoint the status names.
RouteStatus ==
    [phase: RoutePhases, reason: RouteReasons, observed: 0..MaxRouteEdits,
     dnsEndpoint: Controllers \cup {Unset}]

NewRouteStatus ==
    [phase |-> "", reason |-> "", observed |-> 0, dnsEndpoint |-> Unset]

Route ==
    [spec: RouteSpecs, rev: 1..MaxRouteEdits, born: 1..MaxRouteEdits,
     status: RouteStatus]

routeStatusOfItsOwn(obj, phase, reason) ==   \* mutant: a phase out of the schema
    [obj.status EXCEPT
        !.phase = IF reason = "DNSPolicyInactive" THEN "Inactive" ELSE phase,
        !.reason = reason, !.observed = obj.rev]

\* updateStatusPending, updateStatusFailed: the phase and the reason.
routeStatus(obj, phase, reason) ==
    [obj.status EXCEPT !.phase = phase, !.reason = reason, !.observed = obj.rev]

\* updateStatusActive names the first endpoint if there is one.  Endpoints
\* come in the order of the configuration; CHOOSE stands for that order.
updateStatusActive(obj, built) ==
    [routeStatus(obj, "Active", "ReconciliationSucceeded") EXCEPT
        !.dnsEndpoint = IF built = {} THEN @ ELSE CHOOSE c \in built: TRUE]

\* The namespace default, in Reconcile and in mapGatewayToServiceRoutes.
gatewayOf(spec) ==
    <<spec.gateway,
      IF spec.gatewayNamespace = Unset THEN DefaultNamespace
                                       ELSE spec.gatewayNamespace>>

(***************************************************************************)
(* A DNSEndpoint is the CNAME from its source to its target (its Spec) and *)
(* the region in its labels and in the annotation that says which          *)
(* ExternalDNS is to read it; "owner" is the UID in its owner reference.   *)
(* It is named after its route and its controller.                         *)
(***************************************************************************)
Endpoint ==
    [source: Hosts \X Zones,
     target: Clusters \X Regions \X Postfixes \X Zones,
     region: Regions,
     owner: 1..MaxRouteEdits]

EndpointKeys == Routes \X Controllers

ASSUME NoneIsNoObject == None \notin Route \cup Endpoint

endpointSpec(e) == <<e.source, e.target>>

buildDNSEndpoint(obj, region, postfix, id) ==
    [source |-> <<obj.spec.host, id.zone>>,
     target |-> <<id.cluster, id.region, postfix, id.zone>>,
     region |-> region,
     owner |-> obj.born]

\* generateDNSEndpoints: an active controller that the configuration does
\* not list is skipped.
generateDNSEndpoints(obj, active, cfg, postfix, id) ==
    [c \in active \cap DOMAIN cfg |-> buildDNSEndpoint(obj, cfg[c], postfix, id)]

-----------------------------------------------------------------------------
(***************************************************************************)
(* What Reconcile makes of what it has read: the calls to the API server,  *)
(* and the status to write when all of them have succeeded.  A call on the *)
(* endpoint of controller c is the pair of what the informer has and what  *)
(* is wanted: a create, a patch or a delete.                               *)
(***************************************************************************)
Call(c, old, new) == [controller |-> c, old |-> old, new |-> new]

Deletions(existing) ==
    {Call(c, existing[c], None) : c \in {c \in Controllers : existing[c] # None}}

ChangesOfKeys(existing, desired) ==      \* mutant: an endpoint is never patched
    {Call(c, None, desired[c]) : c \in {c \in DOMAIN desired : existing[c] = None}}
    \cup {call \in Deletions(existing) : call.controller \notin DOMAIN desired}

\* reconcileDNSEndpoints lists the existing endpoints in the namespaces of
\* the desired ones: without a desired endpoint it finds none to delete.
Changes(existing, desired) ==
    LET listed == [c \in Controllers |->
                    IF DOMAIN desired = {} THEN None ELSE existing[c]]
    IN  {Call(c, listed[c], desired[c]) :
            c \in {c \in DOMAIN desired :
                    listed[c] = None
                    \/ endpointSpec(listed[c]) # endpointSpec(desired[c])}}
        \cup
        {call \in Deletions(listed) : call.controller \notin DOMAIN desired}

Plan(calls, status) == [calls |-> calls, status |-> status]

StopAndClean(obj, existing, phase, reason) ==    \* mutant: clean up if unsure
    Plan(Deletions(existing), routeStatus(obj, phase, reason))

\* What is published is left alone while something is missing.
Stop(obj, existing, phase, reason) == Plan({}, routeStatus(obj, phase, reason))

RoutePlan(obj, existing, policy, cfg, postfix, id) ==
    LET stop(phase, reason) == Stop(obj, existing, phase, reason)
    IN  IF obj.spec.host = Unset
        THEN stop("Failed", "ValidationFailed")
        ELSE IF policy = None
        THEN stop("Pending", "DNSPolicyNotFound")
        ELSE IF ~policy.active
        THEN Plan(Deletions(existing),
                  routeStatus(obj, "Pending", "DNSPolicyInactive"))
        ELSE IF cfg = None
        THEN stop("Pending", "DNSConfigurationNotAvailable")
        ELSE IF postfix = None
        THEN stop("Pending", "GatewayNotFound")
        ELSE IF id = None
        THEN stop("Pending", "ClusterIdentityNotAvailable")
        ELSE IF policy.controllers = {}
        THEN stop("Failed", "DNSEndpointGenerationFailed")
        ELSE LET desired ==
                    generateDNSEndpoints(obj, policy.controllers, cfg, postfix, id)
             IN  Plan(Changes(existing, desired),
                      updateStatusActive(obj, DOMAIN desired))

\* getDNSPolicyForNamespace takes the first of a list in no set order.
ListedPolicies ==
    LET there == {policyViews[p] : p \in Policies} \ {None}
    IN  IF there = {} THEN {None} ELSE there

-----------------------------------------------------------------------------
IdleRouteWorker ==
    [pc |-> "idle", key |-> None, obj |-> None, calls |-> {}, status |-> None]

Calls ==
    [controller: Controllers, old: Endpoint \cup {None}, new: Endpoint \cup {None}]

RouteWorker ==
    {IdleRouteWorker} \cup
    [pc: {"gather", "apply"}, key: Routes, obj: Route \cup {None},
     calls: SUBSET Calls, status: RouteStatus \cup {None}]

RouteTypeOK ==
    /\ routes \in [Routes -> Route \cup {None}]
    /\ seenRoutes \in [Routes -> Route \cup {None}]
    /\ endpoints \in [EndpointKeys -> Endpoint \cup {None}]
    /\ seenEndpoints \in [EndpointKeys -> Endpoint \cup {None}]
    /\ gateways \in [GatewayKeys -> Postfixes \cup {None}]
    /\ seenGateways \in [GatewayKeys -> Postfixes \cup {None}]
    /\ policyViews \in [Policies -> PolicyViews \cup {None}]
    /\ routeQueue \subseteq Routes
    /\ routeWorker \in RouteWorker
    /\ IdentityView!ViewTypeOK
    /\ config \in Configs \cup {None}
    /\ unread \subseteq Routes
    /\ routeEdits \in 0..MaxRouteEdits

Init ==
    /\ routes = [r \in Routes |-> None]
    /\ seenRoutes = routes
    /\ endpoints = [k \in EndpointKeys |-> None]
    /\ seenEndpoints = endpoints
    /\ gateways \in [GatewayKeys -> Postfixes \cup {None}]
    /\ seenGateways = gateways
    /\ policyViews \in [Policies -> PolicyViews \cup {None}]
    /\ routeQueue = {}
    /\ routeWorker = IdleRouteWorker
    /\ IdentityView!ViewInit
    /\ config \in Configs \cup {None}
    /\ unread = {}
    /\ routeEdits = 0

-----------------------------------------------------------------------------
(***************************************************************************)
(* Users.  A ServiceRoute has no finalizer: a deletion removes it at once. *)
(***************************************************************************)
WriteRoute(r, written) ==
    /\ routeEdits < MaxRouteEdits
    /\ routeEdits' = routeEdits + 1
    /\ routes' = [routes EXCEPT ![r] = written]
    /\ UNCHANGED <<seenRoutes, endpointVars, inputVars, routeQueue, routeWorker,
                   unread>>

CreateRoute(r) ==
    /\ routes[r] = None
    /\ \E spec \in RouteSpecs:
        WriteRoute(r, [spec |-> spec, rev |-> routeEdits + 1,
                       born |-> routeEdits + 1, status |-> NewRouteStatus])

EditRoute(r) ==
    /\ routes[r] # None
    /\ \E spec \in RouteSpecs \ {routes[r].spec}:
        WriteRoute(r, [routes[r] EXCEPT !.spec = spec, !.rev = routeEdits + 1])

DeleteRoute(r) ==
    /\ routes[r] # None
    /\ routes' = [routes EXCEPT ![r] = None]
    /\ UNCHANGED <<seenRoutes, routeEdits, endpointVars, inputVars, routeQueue,
                   routeWorker, unread>>

WriteGateway(g) ==
    /\ \E postfix \in (Postfixes \cup {None}) \ {gateways[g]}:
        gateways' = [gateways EXCEPT ![g] = postfix]
    /\ UNCHANGED <<routeVars, endpointVars, seenGateways, policyViews, identity,
                   identityOwed, config, routeQueue, routeWorker, unread>>

(***************************************************************************)
(* The informers catch up, and their event handlers fill the queue.  They  *)
(* map an object to routes in the informer's store; a DNSEndpoint to the   *)
(* route its owner reference names, whether or not that route exists.      *)
(***************************************************************************)
FirstListedRoute ==          \* mutant: one request, not one for each route
    LET listed == {r \in Routes : seenRoutes[r] # None}
    IN  IF listed = {} THEN {} ELSE {CHOOSE r \in listed: TRUE}

ListedRoutes == {r \in Routes : seenRoutes[r] # None}

Enqueue(keys) == routeQueue' = routeQueue \cup keys

mapGatewayByRawNamespace(g) ==   \* mutant: the namespace default is forgotten
    {r \in ListedRoutes :
        <<seenRoutes[r].spec.gateway, seenRoutes[r].spec.gatewayNamespace>> = g}

mapGatewayToServiceRoutes(g) ==
    {r \in ListedRoutes : gatewayOf(seenRoutes[r].spec) = g}

InformRoute(r) ==
    /\ seenRoutes[r] # routes[r]
    /\ seenRoutes' = [seenRoutes EXCEPT ![r] = routes[r]]
    /\ Enqueue({r})
    /\ UNCHANGED <<routes, routeEdits, endpointVars, inputVars, routeWorker,
                   unread>>

InformEndpoint(r, c) ==
    /\ seenEndpoints[r, c] # endpoints[r, c]
    /\ seenEndpoints' = [seenEndpoints EXCEPT ![<<r, c>>] = endpoints[r, c]]
    /\ Enqueue({r})
    /\ UNCHANGED <<routeVars, endpoints, inputVars, routeWorker, unread>>

InformGateway(g) ==
    /\ seenGateways[g] # gateways[g]
    /\ seenGateways' = [seenGateways EXCEPT ![g] = gateways[g]]
    /\ Enqueue(mapGatewayToServiceRoutes(g))
    /\ UNCHANGED <<routeVars, endpointVars, gateways, policyViews, identity,
                   identityOwed, config, routeWorker, unread>>

\* mapDNSPolicyToServiceRoutes.  An event need not change what is used here.
PolicyEvent ==
    /\ policyViews' \in [Policies -> PolicyViews \cup {None}]
    /\ Enqueue(ListedRoutes)
    /\ UNCHANGED <<routeVars, endpointVars, gateways, seenGateways, identity,
                   identityOwed, config, routeWorker, unread>>

IdentityChanges ==
    /\ IdentityView!ViewChanges
    /\ UNCHANGED <<routeVars, endpointVars, gateways, seenGateways, policyViews,
                   config, routeQueue, routeWorker, unread>>

\* mapClusterIdentityToServiceRoutes.
IdentityEvent ==
    /\ IdentityView!ViewEvent
    /\ Enqueue(ListedRoutes)
    /\ UNCHANGED <<routeVars, endpointVars, gateways, seenGateways, policyViews,
                   config, routeWorker, unread>>

\* The controller does not watch DNSConfigurations: no event follows.
ConfigChanges ==
    /\ config' \in (Configs \cup {None}) \ {config}
    /\ unread' = Routes
    /\ UNCHANGED <<routeVars, endpointVars, gateways, seenGateways, policyViews,
                   identity, identityOwed, routeQueue, routeWorker>>

(***************************************************************************)
(* The garbage collector: an endpoint whose owner is gone, or has been     *)
(* replaced by another route of that name, is deleted.                     *)
(***************************************************************************)
LiveUID(r) == IF routes[r] = None THEN 0 ELSE routes[r].born

Orphaned(r, c) ==
    /\ endpoints[r, c] # None
    /\ endpoints[r, c].owner # LiveUID(r)

CollectEndpoint(r, c) ==
    /\ Orphaned(r, c)
    /\ endpoints' = [endpoints EXCEPT ![<<r, c>>] = None]
    /\ UNCHANGED <<routeVars, seenEndpoints, inputVars, routeQueue, routeWorker,
                   unread>>

-----------------------------------------------------------------------------
(***************************************************************************)
(* Reconcile.                                                              *)
(***************************************************************************)
\* The worker takes the key and r.Get reads the store.
StartRoute(r) ==
    /\ routeWorker.pc = "idle"
    /\ r \in routeQueue
    /\ routeQueue' = routeQueue \ {r}
    /\ routeWorker' = [IdleRouteWorker EXCEPT !.pc = "gather", !.key = r,
                                              !.obj = seenRoutes[r]]
    /\ UNCHANGED <<routeVars, endpointVars, inputVars, unread>>

\* The other reads, up to the first call that changes something.  None of
\* the things read here follows from a change of another one within this
\* time, so that reading them one after the other gives nothing new.
Gather ==
    LET w == routeWorker
        existing == [c \in Controllers |-> seenEndpoints[w.key, c]]
        read(plan) == routeWorker' =
            [w EXCEPT !.pc = "apply", !.calls = plan.calls, !.status = plan.status]
    IN
    /\ w.pc = "gather"
    /\ \/ /\ w.obj = None
          /\ read(Plan(Deletions(existing), None))
       \/ /\ w.obj # None
          /\ \E policy \in ListedPolicies:
                read(RoutePlan(w.obj, existing, policy, config,
                               seenGateways[gatewayOf(w.obj.spec)], identity))
    /\ unread' = unread \ {w.key}
    /\ UNCHANGED <<routeVars, endpointVars, inputVars, routeQueue>>

\* Why the worker makes its calls.
Reason(w) == IF w.obj = None THEN "ServiceRouteDeleted" ELSE w.status.reason

\* deleteDNSEndpointsForServiceRoute ignores that an endpoint is gone;
\* reconcileDNSEndpoints does not.
Cleaning == Reason(routeWorker) \in {"ServiceRouteDeleted", "DNSPolicyInactive"}

\* In any order, but the stale endpoints last.
NextCall(call) ==
    /\ routeWorker.pc = "apply"
    /\ call \in routeWorker.calls
    /\ call.new = None => \A other \in routeWorker.calls: other.new = None

\* A create needs a free name and a patch an object.  The patch says what
\* differs from the informer's copy: the Spec as a whole, and the region.
Accepted(call, stored) ==
    IF call.old = None THEN stored = None
    ELSE stored = None => call.new = None /\ Cleaning

Written(call, stored) ==
    IF None \in {call.old, call.new} THEN call.new
    ELSE [stored EXCEPT
            !.source = call.new.source,
            !.target = call.new.target,
            !.region = IF call.new.region = call.old.region
                       THEN @ ELSE call.new.region]

ApplyCall ==
    \E call \in routeWorker.calls:
        LET k == <<routeWorker.key, call.controller>> IN
        /\ NextCall(call)
        /\ Accepted(call, endpoints[k])
        /\ endpoints' = [endpoints EXCEPT ![k] = Written(call, @)]
        /\ routeWorker' = [routeWorker EXCEPT !.calls = @ \ {call}]
        /\ UNCHANGED <<routeVars, seenEndpoints, inputVars, routeQueue, unread>>

GiveUpRoute ==               \* mutant: the error is logged and not returned
    /\ routeWorker' = IdleRouteWorker
    /\ UNCHANGED <<routeVars, endpointVars, inputVars, routeQueue, unread>>

\* An error is returned, a conflict asks for a requeue: the key goes back to
\* the queue either way, and what was applied stays.
RequeueRoute ==
    /\ Enqueue({routeWorker.key})
    /\ routeWorker' = IdleRouteWorker
    /\ UNCHANGED <<routeVars, endpointVars, inputVars, unread>>

CallRefused ==
    /\ \E call \in routeWorker.calls:
        /\ NextCall(call)
        /\ ~Accepted(call, endpoints[routeWorker.key, call.controller])
    /\ RequeueRoute

Applied == routeWorker.pc = "apply" /\ routeWorker.calls = {}

FinishDeleted ==
    /\ Applied
    /\ routeWorker.obj = None
    /\ routeWorker' = IdleRouteWorker
    /\ UNCHANGED <<routeVars, endpointVars, inputVars, routeQueue, unread>>

UpdateRouteStatusBlindly ==  \* mutant: without the resource version
    LET w == routeWorker IN
    /\ Applied
    /\ w.obj # None
    /\ routes[w.key] # None
    /\ routes' = [routes EXCEPT ![w.key].status = w.status]
    /\ routeWorker' = IdleRouteWorker
    /\ UNCHANGED <<seenRoutes, routeEdits, endpointVars, inputVars, routeQueue,
                   unread>>

UpdateRouteStatus ==
    LET w == routeWorker IN
    /\ Applied
    /\ w.obj # None
    /\ routes[w.key] = w.obj
    /\ routes' = [routes EXCEPT ![w.key].status = w.status]
    /\ routeWorker' = IdleRouteWorker
    /\ UNCHANGED <<seenRoutes, routeEdits, endpointVars, inputVars, routeQueue,
                   unread>>

RouteConflict ==
    /\ Applied
    /\ routeWorker.obj # None
    /\ routes[routeWorker.key] # routeWorker.obj
    /\ RequeueRoute

\* The API server fails a call that it would have accepted.
RouteError ==
    /\ routeWorker.pc = "apply"
    /\ Applied => routeWorker.obj # None
    /\ RequeueRoute

(***************************************************************************)
(* The process stops at any point and a new one starts.  The informers     *)
(* list everything anew and each object is an event.                       *)
(***************************************************************************)
Restart ==
    /\ routeWorker' = IdleRouteWorker
    /\ seenRoutes' = routes
    /\ seenEndpoints' = endpoints
    /\ seenGateways' = gateways
    /\ routeQueue' = {r \in Routes :
            routes[r] # None \/ \E c \in Controllers: endpoints[r, c] # None}
    /\ policyViews' \in [Policies -> PolicyViews \cup {None}]
    /\ IdentityView!ViewRestarts
    /\ config' \in Configs \cup {None}
    /\ unread' = Routes
    /\ UNCHANGED <<routes, routeEdits, endpoints, gateways>>

-----------------------------------------------------------------------------
UserNext ==
    \/ \E r \in Routes: CreateRoute(r) \/ EditRoute(r) \/ DeleteRoute(r)
    \/ \E g \in GatewayKeys: WriteGateway(g)

RouteInformerNext ==
    \/ \E r \in Routes: InformRoute(r)
    \/ \E r \in Routes, c \in Controllers: InformEndpoint(r, c)
    \/ \E g \in GatewayKeys: InformGateway(g)

RouteReconcileNext ==
    \/ \E r \in Routes: StartRoute(r)
    \/ Gather
    \/ ApplyCall
    \/ CallRefused
    \/ FinishDeleted
    \/ UpdateRouteStatus
    \/ RouteConflict

CollectorNext == \E r \in Routes, c \in Controllers: CollectEndpoint(r, c)

\* What goes on when nothing around the controller changes.
SystemNext ==
    \/ RouteInformerNext
    \/ UNCHANGED policyViews /\ PolicyEvent
    \/ IdentityEvent
    \/ CollectorNext
    \/ RouteReconcileNext
    \/ RouteError

\* What happens to the controller.
Disturbance ==
    \/ UserNext
    \/ PolicyEvent
    \/ IdentityChanges
    \/ ConfigChanges
    \/ Restart

Next == Disturbance \/ SystemNext

(***************************************************************************)
(* As for the DNSPolicy controller; and the garbage collector gets to      *)
(* every orphan.                                                           *)
(***************************************************************************)
RouteFairness ==
    /\ \A r \in Routes:
        /\ WF_vars(InformRoute(r))
        /\ SF_vars(StartRoute(r))
        /\ SF_vars(routeWorker.key = r /\ ApplyCall)
        /\ SF_vars(routeWorker.key = r /\ UpdateRouteStatus)
        /\ \A c \in Controllers:
            /\ WF_vars(InformEndpoint(r, c))
            /\ WF_vars(CollectEndpoint(r, c))
    /\ \A g \in GatewayKeys: WF_vars(InformGateway(g))
    /\ WF_vars(identityOwed /\ IdentityEvent)
    /\ WF_vars(Gather)
    /\ WF_vars(CallRefused \/ FinishDeleted \/ RouteConflict \/ RouteError)

Spec == Init /\ [][Next]_vars /\ RouteFairness

-----------------------------------------------------------------------------
(***************************************************************************)
(* Properties.                                                             *)
(***************************************************************************)
EndpointsOf(r) == [c \in Controllers |-> endpoints[r, c]]

Published(r) == {c \in Controllers : endpoints[r, c] # None}

\* What r would publish if the controller looked at policy now.
Wanted(r, policy) ==
    generateDNSEndpoints(routes[r], policy.controllers, config,
                         gateways[gatewayOf(routes[r].spec)], identity)

\* A further Reconcile would change nothing, for some policy it may pick.
RouteCurrent(r) ==
    IF routes[r] = None
    THEN Published(r) = {}
    ELSE \E policy \in ListedPolicies:
            RoutePlan(routes[r], EndpointsOf(r), policy, config,
                      gateways[gatewayOf(routes[r].spec)], identity)
            = Plan({}, routes[r].status)

\* Nothing is left to be done or to be told.
RouteQuiescent ==
    /\ routeQueue = {}
    /\ routeWorker = IdleRouteWorker
    /\ seenRoutes = routes
    /\ seenEndpoints = endpoints
    /\ seenGateways = gateways
    /\ ~identityOwed
    /\ \A r \in Routes, c \in Controllers: ~Orphaned(r, c)

\* No wake-up is lost but that of the configuration: at rest, every route
\* that was reconciled since the DNSConfiguration last changed has the
\* DNSEndpoints and the status that its inputs call for, and a route that is
\* gone has no DNSEndpoint, whatever came between the reads, the calls and
\* the status update of a reconcile.
RestIsCurrent ==
    RouteQuiescent => \A r \in Routes \ unread: RouteCurrent(r)

\* At rest a cluster whose policies are all inactive publishes nothing for
\* the namespace: the records are another cluster's to publish.
InactivePublishesNothing ==
    RouteQuiescent =>
        \A r \in Routes \ unread:
            /\ routes[r] # None
            /\ routes[r].spec.host # Unset
            /\ ListedPolicies # {None}
            /\ \A policy \in ListedPolicies: ~policy.active
            => Published(r) = {}

\* At rest an Active route that has something to publish publishes just
\* that: one DNSEndpoint for each active controller the configuration
\* lists, with the source and target of today's identity and gateway, and
\* owned by the route that is there now.
ActivePublishesWanted ==
    RouteQuiescent =>
        \A r \in Routes \ unread:
            routes[r] # None /\ routes[r].status.phase = "Active" =>
            \E policy \in ListedPolicies:
                LET wanted == Wanted(r, policy) IN
                DOMAIN wanted # {} =>
                    /\ Published(r) = DOMAIN wanted
                    /\ \A c \in DOMAIN wanted:
                        /\ endpointSpec(endpoints[r, c]) = endpointSpec(wanted[c])
                        /\ endpoints[r, c].owner = LiveUID(r)

\* Records of the route that is there are withdrawn only because the policy
\* is inactive or selects other controllers: never because an identity, a
\* configuration, a gateway or a policy cannot be found, nor by the cleanup
\* of an earlier route of that name, nor by the garbage collector.
LiveRecordsStay ==
    [][\A r \in Routes, c \in Controllers:
        (/\ endpoints[r, c] # None
         /\ endpoints'[r, c] = None
         /\ endpoints[r, c].owner = LiveUID(r))
        => /\ routeWorker.pc = "apply"
           /\ Reason(routeWorker)
                \in {"DNSPolicyInactive", "ReconciliationSucceeded"}]_vars

\* A status is never written onto a spec it was not computed from, nor onto
\* another route of that name.
RouteStatusOfItsSpec ==
    [][\A r \in Routes:
        (/\ None \notin {routes[r], routes'[r]}
         /\ routes'[r].status # routes[r].status)
        => routes'[r].status.observed = routes'[r].rev]_vars

\* Once everything around it is left alone, each route settles: despite
\* stale informers, failing calls and needless events the endpoints and the
\* status become, and stay, what the inputs call for.
RoutesSettle ==
    <>[][SystemNext]_vars =>
        <>[](\A r \in Routes \ unread: RouteCurrent(r))

(***************************************************************************)
(* What a comment promises and the code does not keep: this one is checked *)
(* to be violated.                                                         *)
(***************************************************************************)
\* "Controller annotation MUST match the ExternalDNS deployment's filter"
\* (buildDNSEndpoint).  The annotation is the region of the controller, and
\* reconcileDNSEndpoints compares the Specs only, so that a controller that
\* is moved to another region keeps the annotation of the old one.
RegionIsCurrent ==
    RouteQuiescent /\ config # None =>
        \A r \in Routes \ unread, c \in DOMAIN config:
            /\ routes[r] # None
            /\ routes[r].status.phase = "Active"
            /\ endpoints[r, c] # None
            => endpoints[r, c].region = config[c]
=============================================================================
