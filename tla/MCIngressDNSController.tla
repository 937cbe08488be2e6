------------------------ MODULE MCIngressDNSController ------------------------
(***************************************************************************)
(* Small instances of IngressDNSController: one ingress with two target    *)
(* postfixes, two ExternalDNS controllers, and a number of disturbances of *)
(* any kind.                                                               *)
(***************************************************************************)
EXTENDS IngressDNSController, FiniteSets, TLC

CONSTANTS weu, neu, blue, zone, extWeu, extNeu, internal, apps, tools, address,
          first


blueInWeu == [region |-> weu, cluster |-> blue, zone |-> zone, adopts |-> {}]
blueInNeu == [region |-> neu, cluster |-> blue, zone |-> zone, adopts |-> {}]

MCIdentities == {blueInWeu, blueInNeu}

bothListed == (extWeu :> weu) @@ (extNeu :> neu)
weuListed == extWeu :> weu

MCConfigs == {bothListed, weuListed}

-----------------------------------------------------------------------------
CONSTANT MaxDisturbances    \* bound

VARIABLE disturbances

\* Two ingress configurations or two ExternalDNS controllers, not both.
Wanted == IF config = None THEN 0
          ELSE Cardinality(activeConfigs) * Cardinality(DOMAIN config)
Few == Wanted <= 2

(***************************************************************************)
(* A process starts where there are Gateways and a load balancer, and no   *)
(* records yet.                                                            *)
(***************************************************************************)
MCStarted ==
    /\ gatewayViews \in [Gateways -> {<<internal, apps>>, <<internal, tools>>}]
    /\ gatewayViews[first] = <<internal, apps>>
    /\ serviceViews \in [Ingresses -> {[uid |-> 1, address |-> address]}]
    /\ services = 1
    /\ endpoints = [k \in EndpointKeys |-> None]
    /\ seenEndpoints = endpoints
    /\ missed = {}
    /\ identity = blueInWeu
    /\ config \in {bothListed, weuListed}
    /\ Wanted = 2
    /\ identityOwed = FALSE
    /\ configOwed = FALSE
    /\ globalQueued = TRUE
    /\ globalTimer = FALSE
    /\ ingressWorker = IdleIngressWorker
    /\ disturbances = 0

MCNext ==
    \/ /\ disturbances < MaxDisturbances
       /\ disturbances' = disturbances + 1
       /\ Disturbance
       /\ Few'
    \/ SystemNext /\ UNCHANGED disturbances

MCSpec ==
    /\ MCStarted
    /\ [][MCNext]_<<vars, disturbances>>
    /\ IngressFairness

\* Every call that could succeed does.
MCReliableSpec ==
    MCStarted /\ [][MCNext /\ ~SyncFails /\ ~DeleteFails]_<<vars, disturbances>>
=============================================================================
