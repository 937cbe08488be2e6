-------------------------- MODULE GatewayController --------------------------
(***************************************************************************)
(* The Gateway controller (internal/controller/routing/                    *)
(* gateway_controller.go) and the Istio Gateways it keeps: for each        *)
(* Gateway that some ServiceRoute names, an Istio Gateway of that name     *)
(* which accepts the hosts of all these routes.                            *)
(*                                                                         *)
(* The controller filters the events of everything it watches with         *)
(* GenerationChangedPredicate: creations, deletions and edits of a spec    *)
(* wake it up, updates that leave the generation alone do not.  So a load  *)
(* balancer changes unheard, be it its address, its label or its type, and *)
(* so does a Gateway that is replaced while the watch is interrupted, when *)
(* the new one has the generation of the old one.  ClusterIdentities are   *)
(* not watched at all.                                                     *)
(*                                                                         *)
(* Nobody reads ServiceRoutes and Services here but through the informer,  *)
(* which is why only its store of them is modelled.  An ingress (the       *)
(* "istio" label of a Service, the "controller" of a Gateway) has at most  *)
(* one Service of type LoadBalancer.                                       *)
(***************************************************************************)
EXTENDS Selection, Naturals

CONSTANTS
    Routes,             \* names of ServiceRoutes, of all namespaces
    Hosts,              \* service, environment and application of a route
    GatewayNames,
    Namespaces,
    DefaultNamespace,   \* --default-router-gateway-namespace
    Ingresses,          \* values of the label "istio"
    Credentials,        \* names of TLS secrets
    Addresses,          \* of load balancers
    RouteSpecs,         \* what a route can say
    GatewaySpecs,       \* specs of Gateways that users write
    Identities,         \* identities this cluster can be given
    MaxGatewayEdits     \* bound: specs of Gateways written in one behaviour

VARIABLES
    gateways,           \* the API server: each Gateway, or None
    seenGateways,       \* the informer's store of them
    istioGateways,      \* the API server: each Istio Gateway, or None
    seenIstioGateways,  \* the informer's store of them
    istioNews,          \* Istio Gateways with events that are not delivered
    routeViews,         \* the informer's store of ServiceRoutes
    serviceViews,       \* and of the load balancers: Unset without an address
    identity,           \* what clusteridentity.Fetch returns
    gatewayQueue,       \* the controller's workqueue
    timers,             \* keys to be queued after 30 seconds (RequeueAfter)
    gatewayWorker,      \* what its worker holds
    unheard,            \* history: not gathered since an input changed unheard
    gatewayEdits        \* specs written so far

gatewayVars == <<gateways, seenGateways, gatewayEdits>>
istioVars == <<istioGateways, seenIstioGateways, istioNews>>
inputVars == <<routeViews, serviceViews, identity>>
vars == <<gatewayVars, istioVars, inputVars, gatewayQueue, timers,
          gatewayWorker, unheard>>

-----------------------------------------------------------------------------
GatewayKeys == GatewayNames \X Namespaces

RouteSpec ==
    [host: Hosts, gateway: GatewayNames, gatewayNamespace: Namespaces \cup {Unset}]

\* "wellFormed" is whether the target postfix matches validateGateway's
\* pattern; the schema promises the rest of what is validated.
GatewaySpec == [controller: Ingresses, credential: Credentials, wellFormed: BOOLEAN]

ASSUME GatewayInputs ==
    /\ RouteSpecs \subseteq RouteSpec
    /\ GatewaySpecs \subseteq GatewaySpec
    /\ Identities \subseteq Identity
    /\ DefaultNamespace \in Namespaces
    /\ None \notin RouteSpecs \cup Identities \cup Addresses \cup {Unset}
    /\ Unset \notin Addresses \cup Credentials \cup Ingresses
    /\ MaxGatewayEdits \in Nat

\* The condition DNSReady says whether there is an address, and no more.
GatewayStatus ==
    [phase: {"", "Active", "Pending", "Failed"},
     reason: {"", "ReconciliationSucceeded", "ValidationFailed",
              "ClusterIdentityNotAvailable", "NoServiceRoutes"},
     observed: 0..MaxGatewayEdits,
     address: Addresses \cup {Unset}]

NewGatewayStatus ==
    [phase |-> "", reason |-> "", observed |-> 0, address |-> Unset]

\* "born" is the UID: the revision of the creation.  The generation counts
\* the specs since then, while no two Gateways share a revision.
Gateway ==
    [spec: GatewaySpecs, rev: 1..MaxGatewayEdits, born: 1..MaxGatewayEdits,
     generation: Nat, status: GatewayStatus]

\* "owner" is the UID in the owner reference, "credential" that of the TLS
\* settings, Unset when these are missing.
IstioGateway ==
    [owner: 1..MaxGatewayEdits, selector: Ingresses \cup {Unset},
     hosts: SUBSET (Hosts \X Zones), credential: Credentials \cup {Unset}]

\* What the controller asks of the API server: with "old" from the informer
\* and "new" what is wanted it creates, patches or deletes.
IstioCall == [old: IstioGateway \cup {None}, new: IstioGateway \cup {None}]

ASSUME NoneIsNoGateway ==
    None \notin Gateway /\ None \notin IstioGateway /\ None \notin IstioCall

-----------------------------------------------------------------------------
(***************************************************************************)
(* What Reconcile makes of what it has read.                               *)
(***************************************************************************)
\* The default of the namespace is in collectHostsFromServiceRoutes and, a
\* second time, in mapServiceRouteToGateway.
namesGateway(route, k) ==
    /\ route # None
    /\ k = <<route.gateway,
             IF route.gatewayNamespace = Unset THEN DefaultNamespace
                                               ELSE route.gatewayNamespace>>

collectHostsFromServiceRoutes(k, id) ==
    {<<routeViews[r].host, id.zone>> :
        r \in {r \in Routes : namesGateway(routeViews[r], k)}}

checkDNSOfAnyService(spec) == serviceViews[spec.controller]  \* mutant: there is none

\* The address, Unset without a Service or while it has none.
checkDNSStatus(spec) ==
    IF serviceViews[spec.controller] = None THEN Unset
    ELSE serviceViews[spec.controller]

generateIstioGateway(obj, hosts) ==
    [owner |-> obj.born, selector |-> obj.spec.controller, hosts |-> hosts,
     credential |-> obj.spec.credential]

\* The credentials are compared only if there are TLS settings on both sides.
istioGatewayNeedsUpdate(existing, desired) ==
    \/ existing.selector # desired.selector
    \/ existing.hosts # desired.hosts
    \/ Unset # existing.credential /\ existing.credential # desired.credential

gatewayStatus(obj, phase, reason, address) ==
    [phase |-> phase, reason |-> reason, observed |-> obj.rev,
     address |-> address]

\* The call to the API server, if any, and the status to write after it.
Call(old, new) == [old |-> old, new |-> new]

Plan(call, status) == [call |-> call, status |-> status]

withdrawWithoutIdentity(obj, existing) ==    \* mutant: deletes what it had
    Plan(IF existing = None THEN None ELSE Call(existing, None),
         gatewayStatus(obj, "Pending", "ClusterIdentityNotAvailable", Unset))

waitForIdentity(obj, existing) ==
    Plan(None, gatewayStatus(obj, "Pending", "ClusterIdentityNotAvailable", Unset))

GatewayPlan(k, obj, existing, id) ==
    IF ~obj.spec.wellFormed
    THEN Plan(None, gatewayStatus(obj, "Failed", "ValidationFailed",
                                  obj.status.address))
    ELSE IF id = None
    THEN waitForIdentity(obj, existing)
    ELSE LET hosts == collectHostsFromServiceRoutes(k, id)
             desired == generateIstioGateway(obj, hosts)
             address == checkDNSStatus(obj.spec)
         IN  IF hosts = {}
             THEN Plan(IF existing = None THEN None ELSE Call(existing, None),
                       gatewayStatus(obj, "Pending", "NoServiceRoutes", address))
             ELSE Plan(IF existing = None THEN Call(None, desired)
                       ELSE IF istioGatewayNeedsUpdate(existing, desired)
                       THEN Call(existing, desired)
                       ELSE None,
                       gatewayStatus(obj, "Active", "ReconciliationSucceeded",
                                     address))

-----------------------------------------------------------------------------
IdleGatewayWorker ==
    [pc |-> "idle", key |-> None, obj |-> None, call |-> None, status |-> None]

GatewayWorker ==
    {IdleGatewayWorker} \cup
    [pc: {"gather", "apply", "update"}, key: GatewayKeys, obj: Gateway,
     call: IstioCall \cup {None}, status: GatewayStatus \cup {None}]

GatewayTypeOK ==
    /\ gateways \in [GatewayKeys -> Gateway \cup {None}]
    /\ seenGateways \in [GatewayKeys -> Gateway \cup {None}]
    /\ istioGateways \in [GatewayKeys -> IstioGateway \cup {None}]
    /\ seenIstioGateways \in [GatewayKeys -> IstioGateway \cup {None}]
    /\ istioNews \subseteq GatewayKeys
    /\ routeViews \in [Routes -> RouteSpecs \cup {None}]
    /\ serviceViews \in [Ingresses -> Addresses \cup {Unset, None}]
    /\ identity \in Identities \cup {None}
    /\ gatewayQueue \subseteq GatewayKeys
    /\ timers \subseteq GatewayKeys
    /\ gatewayWorker \in GatewayWorker
    /\ unheard \subseteq GatewayKeys
    /\ gatewayEdits \in 0..MaxGatewayEdits

Init ==
    /\ gateways = [k \in GatewayKeys |-> None]
    /\ seenGateways = gateways
    /\ istioGateways = [k \in GatewayKeys |-> None]
    /\ seenIstioGateways = istioGateways
    /\ istioNews = {}
    /\ routeViews \in [Routes -> RouteSpecs \cup {None}]
    /\ serviceViews \in [Ingresses -> Addresses \cup {Unset, None}]
    /\ identity \in Identities \cup {None}
    /\ gatewayQueue = {}
    /\ timers = {}
    /\ gatewayWorker = IdleGatewayWorker
    /\ unheard = {}
    /\ gatewayEdits = 0

-----------------------------------------------------------------------------
(***************************************************************************)
(* Users.  A Gateway has no finalizer.  An Istio Gateway can be edited and *)
(* deleted by others too.                                                  *)
(***************************************************************************)
WriteGateway(k, written) ==
    /\ gatewayEdits < MaxGatewayEdits
    /\ gatewayEdits' = gatewayEdits + 1
    /\ gateways' = [gateways EXCEPT ![k] = written]
    /\ UNCHANGED <<seenGateways, istioVars, inputVars, gatewayQueue, timers,
                   gatewayWorker, unheard>>

CreateGateway(k) ==
    /\ gateways[k] = None
    /\ \E spec \in GatewaySpecs:
        WriteGateway(k, [spec |-> spec, rev |-> gatewayEdits + 1,
                         born |-> gatewayEdits + 1, generation |-> 1,
                         status |-> NewGatewayStatus])

EditGateway(k) ==
    /\ gateways[k] # None
    /\ \E spec \in GatewaySpecs \ {gateways[k].spec}:
        WriteGateway(k, [gateways[k] EXCEPT !.spec = spec,
                                            !.rev = gatewayEdits + 1,
                                            !.generation = @ + 1])

DeleteGateway(k) ==
    /\ gateways[k] # None
    /\ gateways' = [gateways EXCEPT ![k] = None]
    /\ UNCHANGED <<seenGateways, gatewayEdits, istioVars, inputVars,
                   gatewayQueue, timers, gatewayWorker, unheard>>

WriteIstioGateway(k, written) ==
    /\ istioGateways[k] # None
    /\ istioGateways' = [istioGateways EXCEPT ![k] = written]
    /\ istioNews' = istioNews \cup {k}
    /\ UNCHANGED <<gatewayVars, seenIstioGateways, inputVars, gatewayQueue,
                   timers, gatewayWorker, unheard>>

EditIstioGateway(k) ==
    /\ istioGateways[k] # None
    /\ \E edited \in {[istioGateways[k] EXCEPT !.selector = Unset],
                      [istioGateways[k] EXCEPT !.hosts = {}],
                      [istioGateways[k] EXCEPT !.credential = Unset]}:
        /\ edited # istioGateways[k]
        /\ WriteIstioGateway(k, edited)

DeleteIstioGateway(k) == WriteIstioGateway(k, None)

-----------------------------------------------------------------------------
(***************************************************************************)
(* The informers, and the events that the predicate lets pass.             *)
(***************************************************************************)
Enqueue(keys) == gatewayQueue' = gatewayQueue \cup keys

ListedGateways == {k \in GatewayKeys : seenGateways[k] # None}

\* A new revision is an edit, a creation or both: its status alone is not.
InformGateway(k) ==
    LET seen == seenGateways[k]  now == gateways[k] IN
    /\ seen # now
    /\ seenGateways' = [seenGateways EXCEPT ![k] = now]
    /\ IF None \notin {seen, now} /\ seen.rev = now.rev
       THEN UNCHANGED gatewayQueue
       ELSE Enqueue({k})
    /\ UNCHANGED <<gateways, gatewayEdits, istioVars, inputVars, timers,
                   gatewayWorker, unheard>>

\* After the watch was interrupted the store is listed anew.  A Gateway that
\* was deleted and created meanwhile appears as updated, and the predicate
\* drops an update that leaves the generation alone.
RelistGateway(k) ==
    LET seen == seenGateways[k]  now == gateways[k] IN
    /\ None \notin {seen, now}
    /\ seen.born # now.born
    /\ seen.generation = now.generation
    /\ seenGateways' = [seenGateways EXCEPT ![k] = now]
    /\ unheard' = unheard \cup {k}
    /\ UNCHANGED <<gateways, gatewayEdits, istioVars, inputVars, gatewayQueue,
                   timers, gatewayWorker>>

\* Owns: the owner, which has the name of what it owns.  A deletion is heard
\* of even if it takes back a creation that was not.
InformIstioGateway(k) ==
    /\ k \in istioNews
    /\ istioNews' = istioNews \ {k}
    /\ seenIstioGateways' = [seenIstioGateways EXCEPT ![k] = istioGateways[k]]
    /\ Enqueue({k})
    /\ UNCHANGED <<gatewayVars, istioGateways, inputVars, timers, gatewayWorker,
                   unheard>>

mapNewServiceRoute(old, new) ==      \* mutant: what a route named before is forgotten
    {k \in GatewayKeys : namesGateway(new, k)}

\* mapServiceRouteToGateway, of the route before and after the event.
mapServiceRouteToGateway(old, new) ==
    {k \in GatewayKeys : namesGateway(old, k) \/ namesGateway(new, k)}

RouteEvent(r) ==
    /\ \E new \in (RouteSpecs \cup {None}) \ {routeViews[r]}:
        /\ routeViews' = [routeViews EXCEPT ![r] = new]
        /\ Enqueue(mapServiceRouteToGateway(routeViews[r], new))
    /\ UNCHANGED <<gatewayVars, istioVars, serviceViews, identity, timers,
                   gatewayWorker, unheard>>

mapServiceToGateways(i) ==
    {k \in ListedGateways : seenGateways[k].spec.controller = i}

\* A load balancer is created, or deleted.
ServiceEvent(i) ==
    /\ \E new \in Addresses \cup {Unset, None}:
        /\ (serviceViews[i] = None) # (new = None)
        /\ serviceViews' = [serviceViews EXCEPT ![i] = new]
    /\ Enqueue(mapServiceToGateways(i))
    /\ UNCHANGED <<gatewayVars, istioVars, routeViews, identity, timers,
                   gatewayWorker, unheard>>

\* It is given an address or loses it, in its status, or a Service becomes
\* or ceases to be the load balancer of i, by its label or its type.
ServiceUpdated(i) ==
    /\ \E new \in (Addresses \cup {Unset, None}) \ {serviceViews[i]}:
        serviceViews' = [serviceViews EXCEPT ![i] = new]
    /\ unheard' = unheard \cup {k \in GatewayKeys :
            /\ seenGateways[k] # None
            /\ seenGateways[k].spec.controller = i}
    /\ UNCHANGED <<gatewayVars, istioVars, routeViews, identity, gatewayQueue,
                   timers, gatewayWorker>>

IdentityChanges ==
    /\ identity' \in (Identities \cup {None}) \ {identity}
    /\ unheard' = GatewayKeys
    /\ UNCHANGED <<gatewayVars, istioVars, routeViews, serviceViews,
                   gatewayQueue, timers, gatewayWorker>>

\* mapDNSConfigToGateways, although Reconcile reads no DNSConfiguration.
ConfigEvent ==
    /\ Enqueue(ListedGateways)
    /\ UNCHANGED <<gatewayVars, istioVars, inputVars, timers, gatewayWorker,
                   unheard>>

TimerExpires(k) ==
    /\ k \in timers
    /\ timers' = timers \ {k}
    /\ Enqueue({k})
    /\ UNCHANGED <<gatewayVars, istioVars, inputVars, gatewayWorker, unheard>>

(***************************************************************************)
(* The garbage collector: an Istio Gateway whose owner is gone, or has     *)
(* been replaced by another Gateway of that name, is deleted.              *)
(***************************************************************************)
Owned(k) == gateways[k] # None /\ istioGateways[k].owner = gateways[k].born

Orphaned(k) == istioGateways[k] # None /\ ~Owned(k)

CollectIstioGateway(k) ==
    /\ Orphaned(k)
    /\ WriteIstioGateway(k, None)

-----------------------------------------------------------------------------
(***************************************************************************)
(* Reconcile.                                                              *)
(***************************************************************************)
\* The worker takes the key and r.Get reads the store.  Without a Gateway
\* there is nothing to do.
StartGateway(k) ==
    /\ gatewayWorker.pc = "idle"
    /\ k \in gatewayQueue
    /\ gatewayQueue' = gatewayQueue \ {k}
    /\ gatewayWorker' =
        IF seenGateways[k] = None THEN IdleGatewayWorker
        ELSE [IdleGatewayWorker EXCEPT !.pc = "gather", !.key = k,
                                       !.obj = seenGateways[k]]
    /\ UNCHANGED <<gatewayVars, istioVars, inputVars, timers, unheard>>

\* The other reads, up to the call that changes something.
Gather ==
    LET w == gatewayWorker
        plan == GatewayPlan(w.key, w.obj, seenIstioGateways[w.key], identity)
    IN
    /\ w.pc = "gather"
    /\ gatewayWorker' =
        [w EXCEPT !.pc = IF plan.call = None THEN "update" ELSE "apply",
                  !.call = plan.call, !.status = plan.status]
    /\ unheard' = unheard \ {w.key}
    /\ UNCHANGED <<gatewayVars, istioVars, inputVars, gatewayQueue, timers>>

\* A create needs a free name, a patch and a delete an object.  A patch has
\* the fields that differ from the informer's copy; the list of servers,
\* with hosts and TLS settings, is one field.  It leaves the owner alone.
Accepted(call, stored) == (call.old = None) = (stored = None)

Servers(istio) == <<istio.hosts, istio.credential>>

Written(call, stored) ==
    IF None \in {call.old, call.new} THEN call.new
    ELSE LET field(old, new, current) == IF new = old THEN current ELSE new
             servers == field(Servers(call.old), Servers(call.new), Servers(stored))
         IN  [stored EXCEPT
                !.selector = field(call.old.selector, call.new.selector, @),
                !.hosts = servers[1],
                !.credential = servers[2]]

ApplyCall ==
    LET w == gatewayWorker IN
    /\ w.pc = "apply"
    /\ Accepted(w.call, istioGateways[w.key])
    /\ istioGateways' = [istioGateways EXCEPT ![w.key] = Written(w.call, @)]
    /\ istioNews' = istioNews \cup {w.key}
    /\ gatewayWorker' = [w EXCEPT !.pc = "update", !.call = None]
    /\ UNCHANGED <<gatewayVars, seenIstioGateways, inputVars, gatewayQueue,
                   timers, unheard>>

GiveUpGateway ==             \* mutant: the error is logged and not returned
    /\ gatewayWorker' = IdleGatewayWorker
    /\ UNCHANGED <<gatewayVars, istioVars, inputVars, gatewayQueue, timers,
                   unheard>>

\* An error is returned, a conflict asks for a requeue.
RequeueGateway ==
    /\ Enqueue({gatewayWorker.key})
    /\ gatewayWorker' = IdleGatewayWorker
    /\ UNCHANGED <<gatewayVars, istioVars, inputVars, timers, unheard>>

CallRefused ==
    /\ gatewayWorker.pc = "apply"
    /\ ~Accepted(gatewayWorker.call, istioGateways[gatewayWorker.key])
    /\ RequeueGateway

UpdateGatewayStatusBlindly ==    \* mutant: without the resource version
    LET w == gatewayWorker IN
    /\ w.pc = "update"
    /\ gateways[w.key] # None
    /\ gateways' = [gateways EXCEPT ![w.key].status = w.status]
    /\ gatewayWorker' = IdleGatewayWorker
    /\ UNCHANGED <<seenGateways, gatewayEdits, istioVars, inputVars,
                   gatewayQueue, timers, unheard>>

\* After Active and Pending without an address it comes back in 30 seconds.
UpdateGatewayStatus ==
    LET w == gatewayWorker IN
    /\ w.pc = "update"
    /\ gateways[w.key] = w.obj
    /\ gateways' = [gateways EXCEPT ![w.key].status = w.status]
    /\ timers' = IF w.status.phase # "Failed" /\ w.status.address = Unset
                 THEN timers \cup {w.key} ELSE timers
    /\ gatewayWorker' = IdleGatewayWorker
    /\ UNCHANGED <<seenGateways, gatewayEdits, istioVars, inputVars,
                   gatewayQueue, unheard>>

GatewayConflict ==
    /\ gatewayWorker.pc = "update"
    /\ gateways[gatewayWorker.key] # gatewayWorker.obj
    /\ RequeueGateway

\* The API server fails a call that it would have accepted.
GatewayError ==
    /\ gatewayWorker.pc \in {"apply", "update"}
    /\ RequeueGateway

\* The process stops at any point and a new one starts, which lists
\* everything anew.  What has changed meanwhile changes right afterwards.
Restart ==
    /\ gatewayWorker' = IdleGatewayWorker
    /\ seenGateways' = gateways
    /\ seenIstioGateways' = istioGateways
    /\ istioNews' = {}
    /\ gatewayQueue' = {k \in GatewayKeys :
            {gateways[k], istioGateways[k]} # {None}
            \/ \E r \in Routes: namesGateway(routeViews[r], k)}
    /\ timers' = {}
    /\ identity' \in Identities \cup {None}
    /\ unheard' = GatewayKeys
    /\ UNCHANGED <<gateways, gatewayEdits, istioGateways, routeViews,
                   serviceViews>>

-----------------------------------------------------------------------------
UserNext ==
    \/ \E k \in GatewayKeys:
        \/ CreateGateway(k)
        \/ EditGateway(k)
        \/ DeleteGateway(k)
        \/ EditIstioGateway(k)
        \/ DeleteIstioGateway(k)
    \/ \E r \in Routes: RouteEvent(r)
    \/ \E i \in Ingresses: ServiceEvent(i) \/ ServiceUpdated(i)

GatewayInformerNext ==
    \E k \in GatewayKeys:
        \/ InformGateway(k)
        \/ RelistGateway(k)
        \/ InformIstioGateway(k)
        \/ TimerExpires(k)

GatewayReconcileNext ==
    \/ \E k \in GatewayKeys: StartGateway(k)
    \/ Gather
    \/ ApplyCall
    \/ CallRefused
    \/ UpdateGatewayStatus
    \/ GatewayConflict

CollectorNext == \E k \in GatewayKeys: CollectIstioGateway(k)

\* What goes on when nothing around the controller changes.
SystemNext ==
    \/ GatewayInformerNext
    \/ ConfigEvent
    \/ CollectorNext
    \/ GatewayReconcileNext
    \/ GatewayError

Disturbance ==
    \/ UserNext
    \/ IdentityChanges
    \/ Restart

Next == Disturbance \/ SystemNext

\* As for the ServiceRoute controller.
GatewayFairness ==
    /\ WF_vars(\E k \in GatewayKeys: InformGateway(k))
    /\ WF_vars(\E k \in GatewayKeys: InformIstioGateway(k))
    /\ WF_vars(CollectorNext)
    /\ \A k \in GatewayKeys:
        /\ SF_vars(StartGateway(k))
        /\ SF_vars(gatewayWorker.key = k /\ (ApplyCall \/ UpdateGatewayStatus))
    /\ WF_vars(Gather \/ CallRefused \/ GatewayConflict \/ GatewayError)

Spec == Init /\ [][Next]_vars /\ GatewayFairness

-----------------------------------------------------------------------------
(***************************************************************************)
(* Properties.                                                             *)
(***************************************************************************)
GatewayQuiescent ==
    /\ gatewayQueue = {}
    /\ gatewayWorker = IdleGatewayWorker
    /\ seenGateways = gateways
    /\ istioNews = {}
    /\ \A k \in GatewayKeys: ~Orphaned(k)

\* The Istio Gateway accepts exactly the hosts of the routes that name k, on
\* the ingress its spec says, and belongs to the Gateway that is there now.
\* Without routes there is none.  The status tells the two cases apart and
\* has the address of the load balancer.
ServesItsRoutes(k) ==
    IF gateways[k] = None THEN istioGateways[k] = None
    ELSE gateways[k].spec.wellFormed /\ identity # None =>
        LET hosts == collectHostsFromServiceRoutes(k, identity)
            phase == gateways[k].status.phase
        IN  /\ gateways[k].status.address = checkDNSStatus(gateways[k].spec)
            /\ IF hosts = {}
               THEN istioGateways[k] = None /\ phase = "Pending"
               ELSE /\ phase = "Active"
                    /\ istioGateways[k] # None
                    /\ istioGateways[k].hosts = hosts
                    /\ istioGateways[k].selector = gateways[k].spec.controller
                    /\ Owned(k)

\* No wake-up is lost but those that the controller cannot hear: at rest a
\* Gateway that was gathered since the last of them serves its routes, whichever
\* of its routes came, went, or moved to another Gateway, and whatever
\* others did to the Istio Gateway meanwhile.
RestServesRoutes ==
    GatewayQuiescent => \A k \in GatewayKeys \ unheard: ServesItsRoutes(k)

\* The controller deletes the Istio Gateway of the Gateway that is there only
\* when no route names it, or when it is about to look again: not because
\* the identity is missing or the Gateway's spec is refused.
IstioGatewayStays ==
    [][\A k \in GatewayKeys:
        (/\ gatewayWorker.key = k /\ gatewayWorker' # gatewayWorker
         /\ istioGateways[k] # None /\ istioGateways'[k] = None
         /\ Owned(k))
        => \/ \A r \in Routes: ~namesGateway(routeViews[r], k)
           \/ k \in gatewayQueue]_vars

\* A status is never written onto a spec it was not computed from, nor onto
\* another Gateway of that name.
GatewayStatusOfItsSpec ==
    [][\A k \in GatewayKeys:
        (/\ None \notin {gateways[k], gateways'[k]}
         /\ gateways'[k].status # gateways[k].status)
        => gateways'[k].status.observed = gateways'[k].rev]_vars

\* Once everything around it is left alone, each Gateway comes to serve its
\* routes and goes on doing so.
GatewaysSettle ==
    <>[][SystemNext]_vars =>
        <>[](\A k \in GatewayKeys \ unheard: ServesItsRoutes(k))

=============================================================================
