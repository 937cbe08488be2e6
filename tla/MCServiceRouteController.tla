---------------------- MODULE MCServiceRouteController ----------------------
(***************************************************************************)
(* Small instances of ServiceRouteController: two ExternalDNS controllers, *)
(* and a number of disturbances, of any kind, that a behaviour may have:   *)
(* the only bound on what happens around the controller.                   *)
(***************************************************************************)
EXTENDS ServiceRouteController

CONSTANTS weu, neu, blue, green, zone, extWeu, extNeu, host, main, infra, apps,
          public, private

viaDefault == [host |-> host, gateway |-> main, gatewayNamespace |-> Unset]
viaApps == [host |-> host, gateway |-> main, gatewayNamespace |-> apps]
incomplete == [host |-> Unset, gateway |-> main, gatewayNamespace |-> Unset]

MCOneRouteSpec == {viaDefault}

MCRouteSpecs == {viaDefault, viaApps, incomplete}

inactive == [active |-> FALSE, controllers |-> {}]
none == [active |-> TRUE, controllers |-> {}]
one == [active |-> TRUE, controllers |-> {extWeu}]
both == [active |-> TRUE, controllers |-> {extWeu, extNeu}]

MCViews == {inactive, none, both}

MCSwitching == {inactive, one}

blueInWeu == [region |-> weu, cluster |-> blue, zone |-> zone, adopts |-> {}]
greenInNeu == [region |-> neu, cluster |-> green, zone |-> zone, adopts |-> {}]

MCOneIdentity == {blueInWeu}

MCIdentities == {blueInWeu, greenInNeu}

bothListed == [c \in {extWeu, extNeu} |-> IF c = extWeu THEN weu ELSE neu]
bothInNeu == [c \in {extWeu, extNeu} |-> neu]
neuListed == [c \in {extNeu} |-> neu]

MCOneConfig == {bothListed}

MCWeuConfig == {[c \in {extWeu} |-> weu]}

MCConfigs == {bothListed, neuListed}

MCMovedConfigs == {bothListed, bothInNeu}
-----------------------------------------------------------------------------
CONSTANT MaxDisturbances    \* bound

VARIABLE disturbances

\* A cluster has its gateways, its first identity and its first
\* configuration, or none yet.
MCInit ==
    /\ Init
    /\ \E postfix \in Postfixes \cup {None}:
        gateways = [g \in GatewayKeys |-> postfix]
    /\ identity # greenInNeu
    /\ config # neuListed
    /\ disturbances = 0

MCNext ==
    \/ /\ disturbances < MaxDisturbances
       /\ disturbances' = disturbances + 1
       /\ Disturbance
    \/ SystemNext /\ UNCHANGED disturbances

MCSpec ==
    /\ MCInit
    /\ [][MCNext]_<<vars, disturbances>>
    /\ RouteFairness

(***************************************************************************)
(* A process that starts where the routes have been created already.  All  *)
(* of them may have been deleted and created again while none was running: *)
(* then the DNSEndpoints of the first of them are still there, owned by    *)
(* its predecessor, and the garbage collector is on its way.               *)
(***************************************************************************)
MCStarted ==
    /\ \E spec \in RouteSpecs:
        routes = [r \in Routes |->
            [spec |-> spec, rev |-> 2, born |-> 2, status |-> NewRouteStatus]]
    /\ seenRoutes = routes
    /\ routeEdits = 2
    /\ routeQueue = Routes
    /\ routeWorker = IdleRouteWorker
    /\ gateways \in [GatewayKeys -> Postfixes]
    /\ seenGateways = gateways
    /\ policyViews \in [Policies -> PolicyViews]
    /\ identity \in Identities
    /\ identityOwed = FALSE
    /\ config \in Configs
    /\ LET first == CHOOSE r \in Routes: TRUE
           old == [routes[first] EXCEPT !.born = 1]
       IN \E left \in {{}, DOMAIN config}:
            endpoints = [k \in EndpointKeys |->
                IF k[1] = first /\ k[2] \in left
                THEN buildDNSEndpoint(old, config[k[2]],
                                      gateways[gatewayOf(old.spec)], identity)
                ELSE None]
    /\ seenEndpoints = endpoints
    /\ unread = {}
    /\ disturbances = 0

MCStartedSpec ==
    /\ MCStarted
    /\ [][MCNext]_<<vars, disturbances>>
    /\ RouteFairness
=============================================================================
