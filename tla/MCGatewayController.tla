------------------------- MODULE MCGatewayController -------------------------
(***************************************************************************)
(* Small instances of GatewayController: two Gateways of one name in two   *)
(* namespaces, and a number of disturbances of any kind.                   *)
(***************************************************************************)
EXTENDS GatewayController

CONSTANTS weu, neu, blue, here, there, host, main, infra, apps, internal,
          external, cert, lbAddress

viaDefault == [host |-> host, gateway |-> main, gatewayNamespace |-> Unset]
viaApps == [host |-> host, gateway |-> main, gatewayNamespace |-> apps]

MCRouteSpecs == {viaDefault, viaApps}

onInternal == [controller |-> internal, credential |-> cert, wellFormed |-> TRUE]
onExternal == [controller |-> external, credential |-> cert, wellFormed |-> TRUE]
malformed == [controller |-> internal, credential |-> cert, wellFormed |-> FALSE]

MCGatewaySpecs == {onInternal, onExternal, malformed}

blueHere == [region |-> weu, cluster |-> blue, zone |-> here, adopts |-> {}]
blueThere == [region |-> weu, cluster |-> blue, zone |-> there, adopts |-> {}]

MCIdentities == {blueHere, blueThere}

-----------------------------------------------------------------------------
CONSTANT MaxDisturbances    \* bound

VARIABLE disturbances

(***************************************************************************)
(* A process starts where the Gateway in the default namespace has been    *)
(* created and routes may name it.                                         *)
(***************************************************************************)
MCStarted ==
    /\ gateways = [k \in GatewayKeys |->
        IF k[2] = DefaultNamespace
        THEN [spec |-> onInternal, rev |-> 1, born |-> 1, generation |-> 1,
              status |-> NewGatewayStatus]
        ELSE None]
    /\ seenGateways = gateways
    /\ gatewayEdits = 1
    /\ istioGateways = [k \in GatewayKeys |-> None]
    /\ seenIstioGateways = istioGateways
    /\ istioNews = {}
    /\ routeViews \in [Routes -> {viaDefault, None}]
    /\ serviceViews = [i \in Ingresses |-> lbAddress]
    /\ identity = blueHere
    /\ gatewayQueue = {k \in GatewayKeys : gateways[k] # None}
    /\ timers = {}
    /\ gatewayWorker = IdleGatewayWorker
    /\ unheard = {}
    /\ disturbances = 0

MCNext ==
    \/ /\ disturbances < MaxDisturbances
       /\ disturbances' = disturbances + 1
       /\ Disturbance
    \/ SystemNext /\ UNCHANGED disturbances

MCSpec ==
    /\ MCStarted
    /\ [][MCNext]_<<vars, disturbances>>
    /\ GatewayFairness
=============================================================================
