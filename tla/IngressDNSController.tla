------------------------- MODULE IngressDNSController -------------------------
(***************************************************************************)
(* The IngressDNS controller (internal/controller/routing/                 *)
(* ingressdns_controller.go): the DNSEndpoints with the A records of the   *)
(* ingresses, one for each ingress and target postfix that a Gateway names *)
(* and each ExternalDNS controller of the DNSConfiguration.                *)
(*                                                                         *)
(* It has no object of its own: every event is mapped to the one key       *)
(* "global", under which it looks at everything.  A failed call is logged, *)
(* and neither returned nor tried again.  DNSEndpoints are not watched.    *)
(*                                                                         *)
(* Gateways and Services are read through the informer only, which is why  *)
(* its store of them is modelled and no more.  The Services with the label *)
(* "istio" are in one namespace, and each value of it is on at most one    *)
(* Service of type LoadBalancer.                                           *)
(***************************************************************************)
EXTENDS Selection, Naturals

CONSTANTS
    Gateways,           \* names of Gateways, of all namespaces
    Ingresses,          \* values of the label "istio"
    Postfixes,
    Addresses,          \* of load balancers
    Identities,         \* identities this cluster can be given
    Configs,            \* DNS configurations it can be given
    MaxServices         \* bound: Services created in one behaviour

ASSUME IngressInputs ==
    /\ Identities \subseteq Identity
    /\ Configs \subseteq Config
    /\ None \notin Identities
    /\ None \notin Configs
    /\ None \notin Ingresses \X Postfixes
    /\ Unset \notin Addresses
    /\ MaxServices \in Nat

VARIABLES
    gatewayViews,       \* the informer's store of Gateways
    serviceViews,       \* and of the load balancers
    services,           \* Services created so far
    endpoints,          \* the API server: each DNSEndpoint, or None
    seenEndpoints,      \* the informer's store of them
    identity,           \* what clusteridentity.Fetch returns
    identityOwed,       \* it changed and no event followed yet
    config,             \* the same for dnsconfiguration.Fetch
    configOwed,
    globalQueued,       \* whether the workqueue has the key
    globalTimer,        \* whether it is to be queued after a minute
    ingressWorker,      \* what the worker holds
    missed              \* history: left as they were by a failed call, a stale
                        \* copy or the garbage collector, and not right since

inputVars == <<gatewayViews, serviceViews, services>>
endpointVars == <<endpoints, seenEndpoints, missed>>
settingVars == <<identity, identityOwed, config, configOwed>>
queueVars == <<globalQueued, globalTimer>>
vars == <<inputVars, endpointVars, settingVars, queueVars, ingressWorker>>

IdentityView == INSTANCE NotifiedView WITH
    Values <- Identities, Missing <- None,
    view <- identity, owed <- identityOwed

ConfigView == INSTANCE NotifiedView WITH
    Values <- Configs, Missing <- None,
    view <- config, owed <- configOwed

-----------------------------------------------------------------------------
\* gatewayControllerConfig: ingress and target postfix.
ControllerConfigs == Ingresses \X Postfixes

\* The name of a DNSEndpoint is made of these three.
EndpointKeys == ControllerConfigs \X Controllers

Service == [uid: 1..MaxServices, address: Addresses \cup {Unset}]

HostNames == Clusters \X Regions \X Postfixes \X Zones

\* "owner" is the UID in the owner reference, "region" the label.
Endpoint ==
    [host: HostNames, address: Addresses, region: Regions, owner: 1..MaxServices]

ASSUME NoneIsNoEndpoint == None \notin Endpoint

activeConfigs == {gatewayViews[g] : g \in Gateways} \ {None}

targetHost(controllerConfig, id) ==
    <<id.cluster, id.region, controllerConfig[2], id.zone>>

desiredEndpoint(k, id, cfg, service) ==
    [host |-> targetHost(k[1], id), address |-> service.address,
     region |-> cfg[k[2]], owner |-> service.uid]

hasService(service) == service # None    \* mutant: the address is not looked at

hasAddress(service) == service # None /\ service.address # Unset

needsUpdateOfAddress(existing, desired) ==   \* mutant: hosts are not compared
    existing.address # desired.address

needsUpdate(existing, desired) ==
    \/ existing.address # desired.address
    \/ existing.host # desired.host

\* The patch: the list of endpoints, and the label if the copy differs in it.
\* The owner reference is not written.
Patched(stored, copy, desired) ==
    [stored EXCEPT
        !.host = desired.host,
        !.address = desired.address,
        !.region = IF desired.region = copy.region THEN @ ELSE desired.region]

-----------------------------------------------------------------------------
(***************************************************************************)
(* "left" is what the step at hand has still to go through: endpoints to   *)
(* be deleted, configurations, ExternalDNS controllers.                    *)
(***************************************************************************)
IngressWorker ==
    [pc: {"idle", "list", "delete", "identity", "config", "configs", "sync"},
     active: SUBSET ControllerConfigs,
     left: SUBSET (EndpointKeys \cup Controllers),
     id: Identities \cup {None}, cfg: Configs \cup {None},
     controllerConfig: ControllerConfigs \cup {None},
     service: Service \cup {None}]

IdleIngressWorker ==
    [pc |-> "idle", active |-> {}, left |-> {}, id |-> None, cfg |-> None,
     controllerConfig |-> None, service |-> None]

IngressTypeOK ==
    /\ gatewayViews \in [Gateways -> ControllerConfigs \cup {None}]
    /\ serviceViews \in [Ingresses -> Service \cup {None}]
    /\ services \in 0..MaxServices
    /\ endpoints \in [EndpointKeys -> Endpoint \cup {None}]
    /\ seenEndpoints \in [EndpointKeys -> Endpoint \cup {None}]
    /\ missed \subseteq EndpointKeys
    /\ IdentityView!ViewTypeOK
    /\ ConfigView!ViewTypeOK
    /\ globalQueued \in BOOLEAN
    /\ globalTimer \in BOOLEAN
    /\ ingressWorker \in IngressWorker
    /\ ingressWorker.pc = "delete" => ingressWorker.left \subseteq EndpointKeys
    /\ ingressWorker.pc \in {"config", "configs", "sync"}
        => ingressWorker.id # None
    /\ ingressWorker.pc \in {"configs", "sync"} => ingressWorker.cfg # None
    /\ ingressWorker.pc = "sync"
        => /\ ingressWorker.controllerConfig # None
           /\ hasAddress(ingressWorker.service)
           /\ ingressWorker.left \subseteq DOMAIN ingressWorker.cfg

Init ==
    /\ gatewayViews = [g \in Gateways |-> None]
    /\ serviceViews = [i \in Ingresses |-> None]
    /\ services = 0
    /\ endpoints = [k \in EndpointKeys |-> None]
    /\ seenEndpoints = endpoints
    /\ missed = {}
    /\ IdentityView!ViewInit
    /\ ConfigView!ViewInit
    /\ globalQueued = TRUE
    /\ globalTimer = FALSE
    /\ ingressWorker = IdleIngressWorker

-----------------------------------------------------------------------------
(***************************************************************************)
(* Events.  No predicate filters them, so that a change of a status, which *)
(* has the address, is heard of too.                                       *)
(***************************************************************************)
EnqueueIfIdle ==         \* mutant: events during a reconcile are lost
    /\ globalQueued' = (globalQueued \/ ingressWorker = IdleIngressWorker)
    /\ UNCHANGED globalTimer

\* mapGlobalEventsToRequest: one key, once in the queue, for all events.
Enqueue == globalQueued' = TRUE /\ UNCHANGED globalTimer

GatewayEvent(g) ==
    /\ \E now \in (ControllerConfigs \cup {None}) \ {gatewayViews[g]}:
        gatewayViews' = [gatewayViews EXCEPT ![g] = now]
    /\ Enqueue
    /\ UNCHANGED <<serviceViews, services, endpointVars, settingVars,
                   ingressWorker>>

\* A Service is deleted, its address changes, or a new one is created.
ServiceEvent(i) ==
    /\ \/ /\ serviceViews[i] # None
          /\ \E address \in (Addresses \cup {Unset}) \ {serviceViews[i].address}:
                serviceViews' = [serviceViews EXCEPT ![i].address = address]
          /\ UNCHANGED services
       \/ /\ serviceViews[i] # None
          /\ serviceViews' = [serviceViews EXCEPT ![i] = None]
          /\ UNCHANGED services
       \/ /\ serviceViews[i] = None
          /\ services < MaxServices
          /\ services' = services + 1
          /\ \E address \in Addresses \cup {Unset}:
                serviceViews' = [serviceViews EXCEPT
                                    ![i] = [uid |-> services', address |-> address]]
    /\ Enqueue
    /\ UNCHANGED <<gatewayViews, endpointVars, settingVars, ingressWorker>>

SettingsChange ==
    /\ \/ IdentityView!ViewChanges /\ UNCHANGED <<config, configOwed>>
       \/ ConfigView!ViewChanges /\ UNCHANGED <<identity, identityOwed>>
    /\ UNCHANGED <<inputVars, endpointVars, queueVars, ingressWorker>>

IdentityEvent ==
    /\ IdentityView!ViewEvent
    /\ Enqueue
    /\ UNCHANGED <<inputVars, endpointVars, config, configOwed, ingressWorker>>

ConfigEvent ==
    /\ ConfigView!ViewEvent
    /\ Enqueue
    /\ UNCHANGED <<inputVars, endpointVars, identity, identityOwed,
                   ingressWorker>>

TimerExpires ==
    /\ globalTimer
    /\ globalTimer' = FALSE
    /\ globalQueued' = TRUE
    /\ UNCHANGED <<inputVars, endpointVars, settingVars, ingressWorker>>

\* The informer hears of DNSEndpoints, the controller does not.
InformEndpoint(k) ==
    /\ seenEndpoints[k] # endpoints[k]
    /\ seenEndpoints' = [seenEndpoints EXCEPT ![k] = endpoints[k]]
    /\ UNCHANGED <<inputVars, endpoints, missed, settingVars, queueVars,
                   ingressWorker>>

(***************************************************************************)
(* The garbage collector deletes what belonged to a Service that is gone,  *)
(* whether or not another one has come in its place.                       *)
(***************************************************************************)
Dangling(k) ==
    /\ endpoints[k] # None
    /\ LET service == serviceViews[k[1][1]]
       IN  service # None => service.uid # endpoints[k].owner

CollectEndpoint(k) ==
    /\ Dangling(k)
    /\ endpoints' = [endpoints EXCEPT ![k] = None]
    /\ missed' = missed \cup {k}
    /\ UNCHANGED <<inputVars, seenEndpoints, settingVars, queueVars,
                   ingressWorker>>

-----------------------------------------------------------------------------
(***************************************************************************)
(* Reconcile.                                                              *)
(***************************************************************************)
\* The worker takes the key and lists the Gateways.
StartGlobal ==
    /\ ingressWorker.pc = "idle"
    /\ globalQueued
    /\ globalQueued' = FALSE
    /\ ingressWorker' = [IdleIngressWorker EXCEPT !.pc = "list",
                                                  !.active = activeConfigs]
    /\ UNCHANGED <<inputVars, endpointVars, settingVars, globalTimer>>

\* cleanupOrphanedDNSEndpoints looks where there is a Service.
Searched == \E i \in Ingresses: serviceViews[i] # None

Stale(k) == seenEndpoints[k] # endpoints[k]

orphans(active) ==
    {k \in EndpointKeys : seenEndpoints[k] # None /\ k[1] \notin active}

\* After the last orphan come the settings.
Cleanup(left) ==
    [ingressWorker EXCEPT !.pc = IF left = {} THEN "identity" ELSE "delete",
                          !.left = left]

ListOrphans ==
    LET w == ingressWorker
        inactive == {k \in EndpointKeys : k[1] \notin w.active}
        gone == {k \in inactive : endpoints[k] = None}
    IN
    /\ w.pc = "list"
    /\ ingressWorker' = Cleanup(IF Searched THEN orphans(w.active) ELSE {})
    /\ missed' = IF Searched
                 THEN (missed \ gone) \cup {k \in inactive : Stale(k)}
                 ELSE missed
    /\ UNCHANGED <<inputVars, endpoints, seenEndpoints, settingVars, queueVars>>

DeleteOrphan ==
    LET w == ingressWorker IN
    /\ w.pc = "delete"
    /\ \E k \in w.left:
        /\ endpoints[k] # None
        /\ endpoints' = [endpoints EXCEPT ![k] = None]
        /\ missed' = missed \ {k}
        /\ ingressWorker' = Cleanup(w.left \ {k})
    /\ UNCHANGED <<inputVars, seenEndpoints, settingVars, queueVars>>

\* Any error ends the cleanup, NotFound included.
DeleteFails ==
    LET w == ingressWorker IN
    /\ w.pc = "delete"
    /\ missed' = missed \cup w.left
    /\ ingressWorker' = Cleanup({})
    /\ UNCHANGED <<inputVars, endpoints, seenEndpoints, settingVars, queueVars>>

\* Without a ClusterIdentity or a DNSConfiguration: again in a minute.
Await ==
    /\ globalTimer' = TRUE
    /\ ingressWorker' = IdleIngressWorker
    /\ UNCHANGED <<inputVars, endpointVars, settingVars, globalQueued>>

FetchIdentity ==
    /\ ingressWorker.pc = "identity"
    /\ IF identity = None THEN Await
       ELSE /\ ingressWorker' = [ingressWorker EXCEPT !.pc = "config",
                                                      !.id = identity]
            /\ UNCHANGED <<inputVars, endpointVars, settingVars, queueVars>>

\* After the last configuration Reconcile returns, without an error.
NextConfig(w) ==
    IF w.active = {} THEN IdleIngressWorker
    ELSE [w EXCEPT !.pc = "configs", !.controllerConfig = None,
                   !.service = None, !.left = {}]

FetchConfig ==
    /\ ingressWorker.pc = "config"
    /\ IF config = None THEN Await
       ELSE /\ ingressWorker' =
                    NextConfig([ingressWorker EXCEPT !.cfg = config])
            /\ UNCHANGED <<inputVars, endpointVars, settingVars, queueVars>>

\* reconcileDNSEndpointsForConfig of one of them, in no set order, if it has
\* a load balancer with an address.
TakeConfig ==
    LET w == ingressWorker IN
    /\ w.pc = "configs"
    /\ \E c \in w.active:
        LET service == serviceViews[c[1]]
        IN  ingressWorker' =
                IF hasAddress(service)
                THEN [w EXCEPT !.pc = "sync", !.active = @ \ {c},
                               !.controllerConfig = c, !.service = service,
                               !.left = DOMAIN w.cfg]
                ELSE NextConfig([w EXCEPT !.active = @ \ {c}])
    /\ UNCHANGED <<inputVars, endpointVars, settingVars, queueVars>>

Called(copy, desired) == copy # None => needsUpdate(copy, desired)

\* Get reads the store.  What is missing there is created, what differs is
\* patched; the first needs a free name, the second an object.
SyncEndpoint ==
    LET w == ingressWorker IN
    /\ w.pc = "sync"
    /\ \E e \in w.left:
        LET k == <<w.controllerConfig, e>>
            copy == seenEndpoints[k]
            desired == desiredEndpoint(k, w.id, w.cfg, w.service)
            called == Called(copy, desired)
        IN
        /\ called => (copy = None) = (endpoints[k] = None)
        /\ endpoints' =
            IF ~called THEN endpoints
            ELSE [endpoints EXCEPT
                    ![k] = IF copy = None THEN desired
                           ELSE Patched(@, copy, desired)]
        /\ missed' = IF called \/ ~Stale(k) THEN missed \ {k}
                     ELSE missed \cup {k}
        /\ ingressWorker' = IF w.left = {e} THEN NextConfig(w)
                            ELSE [w EXCEPT !.left = @ \ {e}]
    /\ UNCHANGED <<inputVars, seenEndpoints, settingVars, queueVars>>

GiveUpAll ==                 \* mutant: the other configurations are given up too
    LET w == ingressWorker IN
    /\ missed' = missed \cup {<<w.controllerConfig, e>> : e \in w.left}
    /\ ingressWorker' = IdleIngressWorker

\* The error of one endpoint ends the work on its configuration.
GiveUpConfig ==
    LET w == ingressWorker IN
    /\ missed' = missed \cup {<<w.controllerConfig, e>> : e \in w.left}
    /\ ingressWorker' = NextConfig(w)

\* A call is refused, or fails although it would have been accepted.
SyncFails ==
    LET w == ingressWorker IN
    /\ w.pc = "sync"
    /\ \E e \in w.left:
        LET k == <<w.controllerConfig, e>>
            copy == seenEndpoints[k]
            desired == desiredEndpoint(k, w.id, w.cfg, w.service)
        IN  Called(copy, desired)
    /\ GiveUpConfig
    /\ UNCHANGED <<inputVars, endpoints, seenEndpoints, settingVars, queueVars>>

\* The process stops and another one lists everything.
Restart ==
    /\ ingressWorker' = IdleIngressWorker
    /\ seenEndpoints' = endpoints
    /\ globalQueued' = TRUE
    /\ globalTimer' = FALSE
    /\ IdentityView!ViewRestarts
    /\ ConfigView!ViewRestarts
    /\ UNCHANGED <<inputVars, endpoints, missed>>

-----------------------------------------------------------------------------
IngressReconcileNext ==
    \/ StartGlobal
    \/ ListOrphans
    \/ DeleteOrphan
    \/ DeleteFails
    \/ FetchIdentity
    \/ FetchConfig
    \/ TakeConfig
    \/ SyncEndpoint
    \/ SyncFails

SystemNext ==
    \/ IngressReconcileNext
    \/ \E k \in EndpointKeys: InformEndpoint(k) \/ CollectEndpoint(k)
    \/ IdentityEvent
    \/ ConfigEvent
    \/ TimerExpires

Disturbance ==
    \/ \E g \in Gateways: GatewayEvent(g)
    \/ \E i \in Ingresses: ServiceEvent(i)
    \/ SettingsChange
    \/ Restart

Next == Disturbance \/ SystemNext

\* The worker goes on, the informer and the garbage collector catch up and
\* owed events arrive.  No call is assumed to succeed.
IngressFairness ==
    /\ WF_vars(IngressReconcileNext)
    /\ WF_vars(\E k \in EndpointKeys: InformEndpoint(k))
    /\ WF_vars(\E k \in EndpointKeys: CollectEndpoint(k))
    /\ WF_vars(identityOwed /\ IdentityEvent)
    /\ WF_vars(configOwed /\ ConfigEvent)

Spec == Init /\ [][Next]_vars /\ IngressFairness

-----------------------------------------------------------------------------
(***************************************************************************)
(* Properties.                                                             *)
(***************************************************************************)
IngressQuiescent ==
    /\ ~globalQueued
    /\ ingressWorker = IdleIngressWorker
    /\ ~identityOwed
    /\ ~configOwed
    /\ \A k \in EndpointKeys: ~Dangling(k)

\* The record of an ingress and postfix that some Gateway names has the name
\* of this cluster and the address of the load balancer, once all of these
\* are known; one that no Gateway names any more is gone, if it is looked for.
RecordRight(k) ==
    LET service == serviceViews[k[1][1]] IN
    IF k[1] \notin activeConfigs THEN Searched => endpoints[k] = None
    ELSE (/\ hasAddress(service)
          /\ identity # None /\ config # None
          /\ k[2] \in DOMAIN config)
         => /\ endpoints[k] # None
            /\ endpoints[k].host = targetHost(k[1], identity)
            /\ endpoints[k].address = service.address

\* No wake-up is lost: although one key stands for all events and each
\* reconcile reads five things at five moments, at rest every record is
\* right but those that the code itself has left as they were.
RestPublishesIngresses ==
    IngressQuiescent => \A k \in EndpointKeys \ missed: RecordRight(k)

\* A Gateway that comes while the cleanup is under way is not forgotten: the
\* controller deletes the record of an ingress and postfix in use only when
\* it is about to look again.
IngressRecordsStay ==
    [][\A k \in EndpointKeys:
        (/\ ingressWorker.pc = "delete" /\ ingressWorker' # ingressWorker
         /\ endpoints[k] # None /\ endpoints'[k] = None)
        => k[1] \notin activeConfigs \/ globalQueued]_vars

\* Once Gateways, Services and settings are left alone, the records become
\* right and remain so, whatever calls fail: a failure leaves a record as it
\* was, and does not keep the controller from the other configurations.
IngressesSettle ==
    <>[][SystemNext]_vars =>
        <>[](\A k \in EndpointKeys \ missed: RecordRight(k))

(***************************************************************************)
(* What a comment promises and the code does not keep: this one is checked *)
(* to be violated.                                                         *)
(***************************************************************************)
\* "DNSEndpoints exist for every active Controller+Postfix combination"
\* (Reconcile).  A Service is deleted and created anew: the old DNSEndpoint is
\* still there when Reconcile looks, keeps the owner that is gone, and is then
\* garbage collected, which wakes nobody up.
EveryIngressIsPublished ==
    IngressQuiescent =>
        \A k \in EndpointKeys:
            (/\ k[1] \in activeConfigs
             /\ hasAddress(serviceViews[k[1][1]])
             /\ identity # None /\ config # None
             /\ k[2] \in DOMAIN config)
            => endpoints[k] # None
=============================================================================
