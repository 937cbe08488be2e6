----------------------------- MODULE MCOperator -----------------------------
(***************************************************************************)
(* A small instance of Operator: one policy, one route, one gateway, one   *)
(* ExternalDNS controller, a disturbance of any kind and a fault.          *)
(***************************************************************************)
EXTENDS Operator

CONSTANTS weu, neu, blue, green, zone, extWeu, host, main, infra, public,
          MaxDisturbances, MaxFaults    \* bounds

MCRouteSpecs ==
    {[host |-> host, gateway |-> main, gatewayNamespace |-> Unset]}

everywhere == [mode |-> "Active", sourceRegion |-> Unset, sourceCluster |-> Unset]
pinned ==
    [mode |-> "RegionBound", sourceRegion |-> Unset, sourceCluster |-> blue]

MCPolicySpecs == {everywhere, pinned}

blueInWeu == [region |-> weu, cluster |-> blue, zone |-> zone, adopts |-> {}]
greenInNeu == [region |-> neu, cluster |-> green, zone |-> zone, adopts |-> {weu}]

MCIdentities == {blueInWeu, greenInNeu}

weuListed == [c \in {extWeu} |-> weu]

MCOneConfig == {weuListed}

-----------------------------------------------------------------------------
VARIABLES disturbances, faults

\* What has been created at first, with the status it has at last.
settledIdentity ==
    I!updateStatusActive(I!validateAdoptedRegions(
        [spec |-> blueInWeu, rev |-> 1, status |-> I!NewIdentityStatus], weuListed))

newPolicy(spec, rev) == [spec |-> spec, rev |-> rev, status |-> P!NewPolicyStatus]

settledPolicy(spec) ==
    [newPolicy(spec, 1) EXCEPT
        !.status = P!PolicyVerdict(newPolicy(spec, 1), blueInWeu, weuListed)]

settledRoute(spec) ==
    LET obj == [spec |-> spec, rev |-> 1, born |-> 1, status |-> R!NewRouteStatus]
    IN  [obj EXCEPT !.status = R!updateStatusActive(obj, {extWeu})]

(***************************************************************************)
(* A cluster at rest, with its identity, a policy that selects it and a    *)
(* route that is published: a state of Operator from which more can happen *)
(* within the bounds than from the empty cluster.  Or the policy has just  *)
(* been deleted and created again, and that is all that happens.           *)
(***************************************************************************)
MCInit ==
    /\ config = weuListed
    /\ configOwed = FALSE
    /\ identity = blueInWeu
    /\ identityOwed = FALSE
    /\ clusterIdentities = [n \in {Name} |-> settledIdentity]
    /\ seenIdentities = clusterIdentities
    /\ identityQueue = {}
    /\ identityWorker = I!IdleIdentityWorker
    /\ cache = blueInWeu
    /\ notified = TRUE
    /\ identityEdits = 1
    /\ \E spec \in PolicySpecs:
        /\ seenPolicies = [p \in Policies |-> settledPolicy(spec)]
        /\ \/ /\ policies = seenPolicies
              /\ edits = 1
              /\ disturbances = 0
              /\ faults = 0
           \/ /\ policies = [p \in Policies |-> newPolicy(spec, 2)]
              /\ edits = 2
              /\ disturbances = MaxDisturbances
              /\ faults = MaxFaults
    /\ policyQueue = {}
    /\ policyWorker = P!IdlePolicyWorker
    /\ gateways = [g \in R!GatewayKeys |-> public]
    /\ seenGateways = gateways
    /\ \E spec \in RouteSpecs: routes = [r \in Routes |-> settledRoute(spec)]
    /\ seenRoutes = routes
    /\ routeQueue = {}
    /\ routeWorker = R!IdleRouteWorker
    /\ routeEdits = 1
    /\ endpoints = [k \in R!EndpointKeys |->
            R!buildDNSEndpoint(routes[k[1]], weu, public, blueInWeu)]
    /\ seenEndpoints = endpoints
    /\ unread = {}

MCNext ==
    \/ /\ disturbances < MaxDisturbances
       /\ disturbances' = disturbances + 1
       /\ OperatorDisturbance
       /\ UNCHANGED faults
    \/ /\ faults < MaxFaults
       /\ faults' = faults + 1
       /\ OperatorFault
       /\ UNCHANGED disturbances
    \/ OperatorSystemNext /\ UNCHANGED <<disturbances, faults>>

MCSpec ==
    /\ MCInit
    /\ [][MCNext]_<<operatorVars, disturbances, faults>>
    /\ OperatorFairness
=============================================================================
