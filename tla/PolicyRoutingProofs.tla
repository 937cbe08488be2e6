------------------------ MODULE PolicyRoutingProofs ------------------------
(***************************************************************************)
(* The two controllers together, for all policies, routes and settings.    *)
(* Each step of the system is a step of either controller or leaves it     *)
(* alone, so that what is proved of each one by itself holds here; and the *)
(* two results make one, from a policy's spec to the DNSEndpoints.         *)
(*                                                                         *)
(* P and R are what the system is made of; PT and RT bring what is proved  *)
(* of them, about definitions that are the same by another name.           *)
(***************************************************************************)
EXTENDS PolicyRouting, TLAPS

PT == INSTANCE DNSPolicyControllerProofs

RT == INSTANCE ServiceRouteControllerProofs WITH
    PolicyViews <- [active: BOOLEAN, controllers: SUBSET Controllers],
    policyViews <- [p \in Policies |-> policyView(seenPolicies[p])]

-----------------------------------------------------------------------------
(***************************************************************************)
(* By another name.                                                        *)
(***************************************************************************)
\* What is proved of the DNSPolicy controller assumes this.
LEMMA PolicyAssumptions ==
    /\ PolicySpecs \subseteq PT!PolicySpec
    /\ Identities \subseteq PT!Identity
    /\ Configs \subseteq PT!Config
    /\ None \notin Identities
    /\ None \notin Configs
    /\ MaxEdits \in Nat
    /\ None \notin PT!Policy
BY RoutingInputs
DEF PolicySpec, PT!PolicySpec, Modes, PT!Modes, Identity, PT!Identity, Config,
   PT!Config, P!Policy, PT!Policy, P!PolicyStatus, PT!PolicyStatus,
   P!PolicyPhases, PT!PolicyPhases, P!PolicyReasons, PT!PolicyReasons

\* And what is proved of the ServiceRoute controller this.
LEMMA RouteAssumptions ==
    LET PolicyViews == [active: BOOLEAN, controllers: SUBSET Controllers] IN
    /\ RouteSpecs \subseteq RT!RouteSpec
    /\ PolicyViews \subseteq [active: BOOLEAN, controllers: SUBSET Controllers]
    /\ Identities \subseteq RT!Identity
    /\ Configs \subseteq RT!Config
    /\ DefaultNamespace \in Namespaces
    /\ None \notin Identities
    /\ None \notin Configs
    /\ None \notin PolicyViews
    /\ None \notin Postfixes
    /\ MaxRouteEdits \in Nat
    /\ None \notin RT!Route \cup RT!Endpoint
BY RoutingInputs
DEF Identity, RT!Identity, Config, RT!Config, R!RouteSpec, RT!RouteSpec,
   R!RoutePhases, RT!RoutePhases, R!RouteReasons, RT!RouteReasons,
   R!RouteStatus, RT!RouteStatus, R!Route, RT!Route, R!Endpoint, RT!Endpoint,
   R!GatewayKeys, RT!GatewayKeys, R!EndpointKeys, RT!EndpointKeys

\* The DNSPolicy controller is the one the proofs are about.
LEMMA SamePolicies ==
    /\ PT!Init <=> P!Init
    /\ [PT!Next]_(PT!vars) <=> [P!Next]_(P!vars)
    /\ PT!PolicyQuiescent <=> P!PolicyQuiescent
<1> USE DEF P!NewPolicyStatus, PT!NewPolicyStatus, P!policyActiveStatus,
          PT!policyActiveStatus, P!policyInactiveStatus,
          PT!policyInactiveStatus, P!policyNotReadyStatus,
          PT!policyNotReadyStatus, P!PolicyVerdict, PT!PolicyVerdict,
          P!isPolicyActive, PT!isPolicyActive, P!validateDNSPolicy,
          PT!validateDNSPolicy, P!Modes, PT!Modes, P!ControllersOf,
          PT!ControllersOf, P!determineActiveControllersForActiveMode,
          PT!determineActiveControllersForActiveMode,
          P!determineActiveControllersForRegionBoundMode,
          PT!determineActiveControllersForRegionBoundMode,
          P!determineActiveControllers, PT!determineActiveControllers,
          P!settingVars, PT!settingVars, P!IdlePolicyWorker,
          PT!IdlePolicyWorker, P!WritePolicy, PT!WritePolicy, P!CreatePolicy,
          PT!CreatePolicy, P!EditPolicy, PT!EditPolicy, P!DeletePolicy,
          PT!DeletePolicy, P!InformPolicy, PT!InformPolicy,
          P!mapGlobalConfigToDNSPolicies, PT!mapGlobalConfigToDNSPolicies,
          P!IdentityChanges, PT!IdentityChanges, P!ConfigChanges,
          PT!ConfigChanges, P!IdentityEvent, PT!IdentityEvent, P!ConfigEvent,
          PT!ConfigEvent, P!StartPolicy, PT!StartPolicy, P!FetchIdentity,
          PT!FetchIdentity, P!FetchConfig, PT!FetchConfig, P!UpdateStatus,
          PT!UpdateStatus, P!RequeuePolicy, PT!RequeuePolicy,
          P!UpdateConflict, PT!UpdateConflict, P!UpdateError, PT!UpdateError,
          P!Restart, PT!Restart, P!UserNext, PT!UserNext, P!ReconcileNext,
          PT!ReconcileNext, P!SystemNext, PT!SystemNext, P!Next, PT!Next,
          P!IdentityView!ViewInit, PT!IdentityView!ViewInit,
          P!IdentityView!ViewChanges, PT!IdentityView!ViewChanges,
          P!IdentityView!ViewEvent, PT!IdentityView!ViewEvent,
          P!IdentityView!ViewRestarts, PT!IdentityView!ViewRestarts,
          P!ConfigView!ViewInit, PT!ConfigView!ViewInit,
          P!ConfigView!ViewChanges, PT!ConfigView!ViewChanges,
          P!ConfigView!ViewEvent, PT!ConfigView!ViewEvent,
          P!ConfigView!ViewRestarts, PT!ConfigView!ViewRestarts
<1>1. PT!Init <=> P!Init
  BY DEF PT!Init, P!Init
<1>2. PT!Next <=> P!Next
  OBVIOUS
<1>3. UNCHANGED PT!vars <=> UNCHANGED P!vars
  BY DEF PT!vars, P!vars
<1>4. PT!PolicyQuiescent <=> P!PolicyQuiescent
  BY DEF PT!PolicyQuiescent, P!PolicyQuiescent
<1> QED
  BY <1>1, <1>2, <1>3, <1>4

\* So is the ServiceRoute controller.
LEMMA SameRoutes ==
    /\ RT!Init <=> R!Init
    /\ [RT!Next]_(RT!vars) <=> [R!Next]_(R!vars)
    /\ RT!RouteQuiescent <=> R!RouteQuiescent
<1> USE DEF R!RouteSpec, RT!RouteSpec, R!RoutePhases, RT!RoutePhases,
          R!RouteReasons, RT!RouteReasons, R!RouteStatus, RT!RouteStatus,
          R!Route, RT!Route, R!Endpoint, RT!Endpoint, R!GatewayKeys,
          RT!GatewayKeys, R!EndpointKeys, RT!EndpointKeys, R!NewRouteStatus,
          RT!NewRouteStatus, R!routeStatus, RT!routeStatus,
          R!updateStatusActive, RT!updateStatusActive, R!gatewayOf,
          RT!gatewayOf, R!endpointSpec, RT!endpointSpec, R!buildDNSEndpoint,
          RT!buildDNSEndpoint, R!generateDNSEndpoints,
          RT!generateDNSEndpoints, R!Call, RT!Call, R!Deletions, RT!Deletions,
          R!Changes, RT!Changes, R!Plan, RT!Plan, R!Stop, RT!Stop,
          R!RoutePlan, RT!RoutePlan, R!ListedPolicies, RT!ListedPolicies,
          R!routeVars, RT!routeVars, R!endpointVars, RT!endpointVars,
          R!inputVars, RT!inputVars, R!IdleRouteWorker, RT!IdleRouteWorker,
          R!WriteRoute, RT!WriteRoute, R!CreateRoute, RT!CreateRoute,
          R!EditRoute, RT!EditRoute, R!DeleteRoute, RT!DeleteRoute,
          R!WriteGateway, RT!WriteGateway, R!ListedRoutes, RT!ListedRoutes,
          R!Enqueue, RT!Enqueue, R!mapGatewayToServiceRoutes,
          RT!mapGatewayToServiceRoutes, R!InformRoute, RT!InformRoute,
          R!InformEndpoint, RT!InformEndpoint, R!InformGateway,
          RT!InformGateway, R!PolicyEvent, RT!PolicyEvent, R!IdentityChanges,
          RT!IdentityChanges, R!IdentityEvent, RT!IdentityEvent,
          R!ConfigChanges, RT!ConfigChanges, R!LiveUID, RT!LiveUID,
          R!Orphaned, RT!Orphaned, R!CollectEndpoint, RT!CollectEndpoint,
          R!StartRoute, RT!StartRoute, R!Gather, RT!Gather, R!Reason,
          RT!Reason, R!Cleaning, RT!Cleaning, R!NextCall, RT!NextCall,
          R!Accepted, RT!Accepted, R!Written, RT!Written, R!ApplyCall,
          RT!ApplyCall, R!RequeueRoute, RT!RequeueRoute, R!CallRefused,
          RT!CallRefused, R!Applied, RT!Applied, R!FinishDeleted,
          RT!FinishDeleted, R!UpdateRouteStatus, RT!UpdateRouteStatus,
          R!RouteConflict, RT!RouteConflict, R!RouteError, RT!RouteError,
          R!Restart, RT!Restart, R!UserNext, RT!UserNext, R!RouteInformerNext,
          RT!RouteInformerNext, R!RouteReconcileNext, RT!RouteReconcileNext,
          R!CollectorNext, RT!CollectorNext, R!SystemNext, RT!SystemNext,
          R!Disturbance, RT!Disturbance, R!Next, RT!Next,
          R!IdentityView!ViewInit, RT!IdentityView!ViewInit,
          R!IdentityView!ViewChanges, RT!IdentityView!ViewChanges,
          R!IdentityView!ViewEvent, RT!IdentityView!ViewEvent,
          R!IdentityView!ViewRestarts, RT!IdentityView!ViewRestarts
<1>1. RT!Init <=> R!Init
  BY DEF RT!Init, R!Init
<1>2. RT!Next <=> R!Next
  OBVIOUS
<1>3. UNCHANGED RT!vars <=> UNCHANGED R!vars
  BY DEF RT!vars, R!vars
<1>4. RT!RouteQuiescent <=> R!RouteQuiescent
  BY DEF RT!RouteQuiescent, R!RouteQuiescent
<1> QED
  BY <1>1, <1>2, <1>3, <1>4

-----------------------------------------------------------------------------
(***************************************************************************)
(* Steps.                                                                  *)
(***************************************************************************)
\* For the DNSPolicy controller the ServiceRoute controller does nothing.
LEMMA PolicyStep == [Next]_vars => [P!Next]_(P!vars)
<1> SUFFICES ASSUME [Next]_vars PROVE P!Next \/ UNCHANGED P!vars
  OBVIOUS
<1>1. ASSUME NEW p \in Policies, InformPolicy(p) PROVE P!Next
  BY <1>1 DEF InformPolicy, P!Next, P!SystemNext
<1>2. CASE \/ IdentityEvent \/ IdentityChanges \/ ConfigChanges \/ Restart
  BY <1>2 DEF IdentityEvent, IdentityChanges, ConfigChanges, Restart, P!Next,
     P!SystemNext
<1>3. CASE \/ OfPolicies(P!ReconcileNext) \/ OfPolicies(P!UserNext)
           \/ OfPolicies(P!UpdateError) \/ OfPolicies(P!ConfigEvent)
  BY <1>3 DEF OfPolicies, P!Next, P!SystemNext
<1>4. CASE UNCHANGED <<policyVars, identity, identityOwed, config>>
  BY <1>4 DEF policyVars, P!vars
<1> QED
  BY <1>1, <1>2, <1>3, <1>4
  DEF Next, Disturbance, SystemNext, Informing, Fault, OfRoutes, vars

\* For the ServiceRoute controller the DNSPolicy controller does nothing, and
\* the informer's event for a DNSPolicy is one of those it expects.
LEMMA RouteStep == [Next]_vars => [R!Next]_(R!vars)
<1> SUFFICES ASSUME [Next]_vars PROVE R!Next \/ UNCHANGED R!vars
  OBVIOUS
<1>1. ASSUME NEW p \in Policies, InformPolicy(p) PROVE R!Next
  BY <1>1 DEF InformPolicy, R!Next, R!Disturbance
<1>2. CASE \/ IdentityEvent \/ IdentityChanges \/ ConfigChanges \/ Restart
  BY <1>2 DEF IdentityEvent, IdentityChanges, ConfigChanges, Restart, R!Next,
     R!Disturbance, R!SystemNext
<1>3. CASE \/ OfRoutes(R!RouteReconcileNext) \/ OfRoutes(R!UserNext)
           \/ OfRoutes(R!RouteError) \/ OfRoutes(R!RouteInformerNext)
           \/ OfRoutes(R!CollectorNext)
  BY <1>3 DEF OfRoutes, R!Next, R!Disturbance, R!SystemNext
<1>4. ASSUME UNCHANGED routeVars,
             UNCHANGED <<seenPolicies, identity, identityOwed, config>>
      PROVE  UNCHANGED R!vars
  BY <1>4 DEF routeVars, R!vars
<1>5. CASE \/ OfPolicies(P!ReconcileNext) \/ OfPolicies(P!UserNext)
           \/ OfPolicies(P!UpdateError) \/ OfPolicies(P!ConfigEvent)
  <2>1. UNCHANGED <<seenPolicies, identity, identityOwed, config>>
    BY <1>5 DEF OfPolicies, P!ReconcileNext, P!UserNext, P!UpdateError,
       P!ConfigEvent, P!ConfigView!ViewEvent, P!StartPolicy, P!FetchIdentity,
       P!FetchConfig, P!UpdateStatus, P!UpdateConflict, P!RequeuePolicy,
       P!CreatePolicy, P!EditPolicy, P!DeletePolicy, P!WritePolicy, P!settingVars
  <2> QED
    BY <1>4, <1>5, <2>1 DEF OfPolicies
<1>6. CASE UNCHANGED vars
  BY <1>4, <1>6 DEF vars, policyVars
<1> QED
  BY <1>1, <1>2, <1>3, <1>5, <1>6 DEF Next, Disturbance, SystemNext, Informing, Fault

\* Next to the DNSPolicy controller the ServiceRoute controller takes only
\* the steps it takes when the policies change at will.
THEOREM RoutesAreImplemented == Spec => ImplementsRouteController
BY RouteStep, PTL DEF Spec, ImplementsRouteController

-----------------------------------------------------------------------------
(***************************************************************************)
(* From a policy's spec to the DNSEndpoints.                               *)
(***************************************************************************)
\* What is invariant of each controller.
RoutingInv == PT!PolicyTypeOK /\ PT!NoLostWakeUp /\ RT!RouteInv

\* Both invariants hold of the system.
THEOREM RoutingInvariant == Spec => []RoutingInv
<1>1. Init => RoutingInv
  <2>1. Init => PT!Init /\ RT!Init
    BY SamePolicies, SameRoutes DEF Init
  <2>2. PT!Init => PT!PolicyTypeOK /\ PT!NoLostWakeUp
    BY UnsetIsNoName, PolicyAssumptions, PT!PolicyTypeInit, PT!NoLostWakeUpInit
  <2>3. RT!Init => RT!RouteInv
    BY UnsetIsNoName, RouteAssumptions, RT!RouteInvInit
  <2> QED
    BY <2>1, <2>2, <2>3 DEF RoutingInv
<1>2. RoutingInv /\ [Next]_vars => RoutingInv'
  <2>1. [Next]_vars => [PT!Next]_(PT!vars) /\ [RT!Next]_(RT!vars)
    BY PolicyStep, RouteStep, SamePolicies, SameRoutes
  <2>2. PT!PolicyTypeOK /\ PT!NoLostWakeUp /\ [PT!Next]_(PT!vars)
            => PT!PolicyTypeOK' /\ PT!NoLostWakeUp'
    BY UnsetIsNoName, PolicyAssumptions, PT!PolicyTypeStep, PT!NoLostWakeUpStep
  <2>3. RT!RouteInv /\ [RT!Next]_(RT!vars) => RT!RouteInv'
    BY UnsetIsNoName, RouteAssumptions, RT!RouteInvStep
  <2> QED
    BY <2>1, <2>2, <2>3 DEF RoutingInv
<1> QED
  BY <1>1, <1>2, PTL DEF Spec

\* At rest a policy has the verdict of its spec in its status, and that is
\* what the routes are told of it.
LEMMA RestingVerdict ==
    ASSUME RoutingInv, Resting, NEW policy \in PoliciesHere,
           identity # None, config # None
    PROVE  /\ policyView(policy).active <=> isPolicyActive(policy.spec, identity)
           /\ policyView(policy).controllers = Selected(policy)
<1>1. PICK p \in Policies: policy = policies[p] /\ policy # None
  BY DEF PoliciesHere
<1>2. /\ policy \in PT!Policy
      /\ identity \in Identities
      /\ config \in Configs
  BY <1>1 DEF RoutingInv, PT!PolicyTypeOK, PT!IdentityView!ViewTypeOK,
     PT!ConfigView!ViewTypeOK
<1>3. policy.status = PT!PolicyVerdict(policy, identity, config)
  <2>1. PT!PolicyQuiescent
    BY SamePolicies DEF Resting
  <2>2. PT!QuiescentCurrent
    BY UnsetIsNoName, PolicyAssumptions, PT!QuiescentFollows DEF RoutingInv
  <2> QED
    BY <1>1, <2>1, <2>2 DEF PT!QuiescentCurrent, PT!PolicyCurrent
<1>4. PT!validateDNSPolicy(policy.spec, config)
  <2>1. policy.spec.mode \in PT!Modes
    BY <1>2, PolicyAssumptions DEF PT!Policy, PT!PolicySpec
  <2>2. DOMAIN config # {}
    BY <1>2, PolicyAssumptions DEF PT!Config
  <2> QED
    BY <2>1, <2>2 DEF PT!validateDNSPolicy
<1>5. policy.status =
        IF ~PT!isPolicyActive(policy.spec, identity)
        THEN PT!policyInactiveStatus(policy)
        ELSE PT!policyActiveStatus(policy,
                PT!determineActiveControllers(policy.spec, identity, config))
  BY <1>3, <1>4 DEF PT!PolicyVerdict
<1>6. policy.status \in PT!PolicyStatus
  BY <1>2 DEF PT!Policy
<1>7. /\ policy.status.active <=> isPolicyActive(policy.spec, identity)
      /\ policy.status.controllers = Selected(policy)
  <2>1. PT!isPolicyActive(policy.spec, identity)
            = isPolicyActive(policy.spec, identity)
    BY DEF PT!isPolicyActive, isPolicyActive
  <2>2. PT!determineActiveControllers(policy.spec, identity, config)
            = determineActiveControllers(policy.spec, identity, config)
    BY DEF ControllersOf, PT!ControllersOf, determineActiveControllersForActiveMode,
       PT!determineActiveControllersForActiveMode,
       determineActiveControllersForRegionBoundMode,
       PT!determineActiveControllersForRegionBoundMode,
       determineActiveControllers, PT!determineActiveControllers
  <2>3. CASE isPolicyActive(policy.spec, identity)
    BY <1>5, <2>1, <2>2, <2>3 DEF PT!policyActiveStatus, Selected
  <2>4. CASE ~isPolicyActive(policy.spec, identity)
    <3>1. policy.status = PT!policyInactiveStatus(policy)
      BY <1>5, <2>1, <2>4
    <3>2. policy.status.active = FALSE /\ policy.status.controllers = {}
      BY <1>6, <3>1 DEF PT!policyInactiveStatus, PT!PolicyStatus
    <3> QED
      BY <2>4, <3>2 DEF Selected
  <2> QED
    BY <2>3, <2>4
<1>8. policyView(policy) =
        [active |-> policy.status.active, controllers |-> policy.status.controllers]
  BY <1>1 DEF policyView
<1> QED
  BY <1>7, <1>8

\* At rest what getDNSPolicyForNamespace takes is one of the policies.
LEMMA RestingView ==
    ASSUME RoutingInv, Resting, PoliciesHere # {}, NEW view \in RT!ListedPolicies
    PROVE  view # None /\ \E policy \in PoliciesHere: view = policyView(policy)
<1>1. seenPolicies = policies
  BY DEF Resting, P!PolicyQuiescent
<1>2. ASSUME NEW policy \in PoliciesHere
      PROVE  /\ policyView(policy) # None
             /\ \E p \in Policies: policyView(seenPolicies[p]) = policyView(policy)
  <2>1. PICK p \in Policies: policy = policies[p] /\ policy # None
    BY DEF PoliciesHere
  <2>2. policy.status \in PT!PolicyStatus
    BY <2>1 DEF RoutingInv, PT!PolicyTypeOK, PT!Policy
  <2>3. policyView(policy) \in [active: BOOLEAN, controllers: SUBSET Controllers]
    BY <2>1, <2>2 DEF policyView, PT!PolicyStatus
  <2> QED
    BY <1>1, <2>1, <2>3, RoutingInputs
<1>3. PICK p \in Policies: view = policyView(seenPolicies[p]) /\ view # None
  BY <1>2 DEF RT!ListedPolicies
<1>4. policies[p] # None
  BY <1>1, <1>3 DEF policyView
<1> QED
  BY <1>1, <1>3, <1>4 DEF PoliciesHere

\* An inactive policy that satisfies a route: nothing is published.
LEMMA UnselectedIsSilent ==
    ASSUME RoutingInv, Resting, NEW r \in Routes \ unread, Publishable(r),
           NEW policy \in PoliciesHere, ~isPolicyActive(policy.spec, identity),
           policyView(policy) # None, RT!SatisfiedUnder(r, policyView(policy))
    PROVE  PublishedUnder(r, policy)
<1>1. ~policyView(policy).active
  BY RestingVerdict DEF Publishable
<1>2. RT!RouteQuiescent
  BY SameRoutes DEF Resting
<1>3. RT!Published(r) = {}
  BY <1>1, <1>2, UnsetIsNoName, RouteAssumptions, RT!SatisfiedIsSilent
  DEF RoutingInv, Publishable
<1> QED
  BY <1>3 DEF RT!Published, R!Published, Selected, PublishedUnder

\* An active policy that selects some controllers and satisfies a route:
\* published for these is what buildDNSEndpoint makes of today's identity.
LEMMA SelectedIsBuilt ==
    ASSUME RoutingInv, Resting, NEW r \in Routes \ unread, Publishable(r),
           NEW policy \in PoliciesHere, isPolicyActive(policy.spec, identity),
           Selected(policy) # {}, policyView(policy) \in RT!ListedPolicies,
           policyView(policy) # None, RT!SatisfiedUnder(r, policyView(policy))
    PROVE  PublishedUnder(r, policy)
<1> DEFINE view == policyView(policy)
           postfix == gateways[RT!gatewayOf(routes[r].spec)]
           wanted == RT!Wanted(r, view)
<1>1. view.active /\ view.controllers = Selected(policy)
  BY RestingVerdict DEF Publishable
<1> HIDE DEF view
<1>2. RT!RouteQuiescent
  BY SameRoutes DEF Resting
<1>3. postfix # None
  BY DEF Publishable, R!gatewayOf, RT!gatewayOf
<1>4. Selected(policy) \subseteq DOMAIN config
  BY DEF Selected, determineActiveControllers, ControllersOf,
     determineActiveControllersForActiveMode,
     determineActiveControllersForRegionBoundMode
<1>5. /\ DOMAIN wanted = Selected(policy)
      /\ \A c \in Selected(policy):
            wanted[c] = RT!buildDNSEndpoint(routes[r], config[c], postfix, identity)
  BY <1>1, <1>4 DEF RT!Wanted, RT!generateDNSEndpoints
<1> HIDE DEF wanted, postfix
<1>6. /\ RT!Published(r) = DOMAIN wanted
      /\ \A c \in DOMAIN wanted:
            RT!endpointSpec(endpoints[r, c]) = RT!endpointSpec(wanted[c])
  <2>1. /\ view \in RT!ListedPolicies /\ view # None /\ view.active
        /\ view.controllers # {} /\ RT!SatisfiedUnder(r, view)
        /\ DOMAIN RT!Wanted(r, view) # {}
    BY <1>1, <1>5 DEF view, wanted
  <2>2. /\ routes[r] # None /\ routes[r].spec.host # Unset
        /\ config # None /\ identity # None
        /\ gateways[RT!gatewayOf(routes[r].spec)] # None
    BY <1>3 DEF Publishable, postfix
  <2> QED
    BY <1>2, <2>1, <2>2, UnsetIsNoName, RouteAssumptions,
       RT!SatisfiedIsPublished DEF RoutingInv, wanted
<1>7. ASSUME NEW c \in Selected(policy)
      PROVE  /\ endpoints[r, c].target[1] = identity.cluster
             /\ endpoints[r, c].target[2] = identity.region
  <2>1. RT!endpointSpec(endpoints[r, c]) = RT!endpointSpec(wanted[c])
    BY <1>5, <1>6
  <2>2. endpoints[r, c].target = wanted[c].target
    BY <2>1 DEF RT!endpointSpec
  <2>3. wanted[c].target
            = <<identity.cluster, identity.region, postfix, identity.zone>>
    BY <1>5 DEF RT!buildDNSEndpoint
  <2> DEFINE target == endpoints[r, c].target
  <2>4. target = <<identity.cluster, identity.region, postfix, identity.zone>>
    BY <2>2, <2>3
  <2> HIDE DEF target
  <2>5. target[1] = identity.cluster /\ target[2] = identity.region
    BY <2>4
  <2> QED
    BY <2>5 DEF target
<1>8. R!Published(r) = Selected(policy)
  BY <1>5, <1>6 DEF RT!Published, R!Published
<1> QED
  BY <1>7, <1>8 DEF PublishedUnder

\* Each route that rests is satisfied by one of the policies, and published
\* under that one.
LEMMA RestingIsPublished ==
    ASSUME RoutingInv, Resting, NEW r \in Routes \ unread
    PROVE  PublishedAsSelected(r)
<1> SUFFICES ASSUME Publishable(r), PoliciesHere # {}
             PROVE  \E policy \in PoliciesHere:
                        SelectsNothing(policy) \/ PublishedUnder(r, policy)
  BY DEF PublishedAsSelected
<1>1. RT!RouteQuiescent
  BY SameRoutes DEF Resting
<1>2. PICK view \in RT!ListedPolicies: RT!SatisfiedUnder(r, view)
  BY <1>1, UnsetIsNoName, RouteAssumptions, RT!QuiescentIsSatisfied
  DEF RoutingInv, Publishable
<1>3. PICK policy \in PoliciesHere: view = policyView(policy)
  BY <1>2, RestingView
<1>4. view # None
  BY <1>2, RestingView
<1> QED
  BY <1>2, <1>3, <1>4, UnselectedIsSilent, SelectedIsBuilt DEF SelectsNothing

\* At rest the records of a route are those of the controllers that a
\* policy's spec, the identity and the configuration select, and lead to
\* this cluster: of the policy of the namespace, or of one of them if there
\* are several.
THEOREM SelectedIsPublished == Spec => []RestPublishesSelected
<1>1. RoutingInv => RestPublishesSelected
  BY RestingIsPublished DEF RestPublishesSelected
<1> QED
  BY <1>1, RoutingInvariant, PTL

-----------------------------------------------------------------------------
(***************************************************************************)
(* Two clusters under copies of one DNSPolicy, with one DNSConfiguration.  *)
(***************************************************************************)
SelectedBy(spec, id, cfg) ==
    IF isPolicyActive(spec, id) THEN determineActiveControllers(spec, id, cfg) ELSE {}

Managed(id) == {id.region} \cup id.adopts

\* What the clusters must be like for no zone to be published in by both
\* ("This prevents multiple clusters from racing to write the same DNS
\* records", docs/ARCHITECTURE.md): the constraints of the policy leave one
\* of them out, or in Active mode no region that has a controller is managed
\* by both.  It is sufficient and necessary: in RegionBound mode a
\* sourceRegion with two clusters does not prevent it, nor does Active mode
\* if one cluster adopts the region of the other.
THEOREM ZonesAreApart ==
    ASSUME NEW spec \in PolicySpec, NEW cfg \in Config,
           NEW a \in Identity, NEW b \in Identity
    PROVE  SelectedBy(spec, a, cfg) \cap SelectedBy(spec, b, cfg) = {}
           <=> \/ ~isPolicyActive(spec, a)
               \/ ~isPolicyActive(spec, b)
               \/ /\ spec.mode = "Active"
                  /\ \A c \in DOMAIN cfg: cfg[c] \notin Managed(a) \cap Managed(b)
<1>1. CASE ~isPolicyActive(spec, a) \/ ~isPolicyActive(spec, b)
  BY <1>1 DEF SelectedBy
<1>2. CASE isPolicyActive(spec, a) /\ isPolicyActive(spec, b)
  <2>1. CASE spec.mode = "Active"
    <3>1. /\ SelectedBy(spec, a, cfg) = {c \in DOMAIN cfg : cfg[c] \in Managed(a)}
          /\ SelectedBy(spec, b, cfg) = {c \in DOMAIN cfg : cfg[c] \in Managed(b)}
      BY <1>2, <2>1 DEF SelectedBy, Managed, determineActiveControllers,
         determineActiveControllersForActiveMode, ControllersOf
    <3> QED
      BY <1>2, <2>1, <3>1
  <2>2. CASE spec.mode # "Active"
    <3>1. SelectedBy(spec, a, cfg) = DOMAIN cfg /\ SelectedBy(spec, b, cfg) = DOMAIN cfg
      BY <1>2, <2>2 DEF SelectedBy, determineActiveControllers,
         determineActiveControllersForRegionBoundMode
    <3>2. DOMAIN cfg # {}
      BY DEF Config
    <3> QED
      BY <1>2, <2>2, <3>1, <3>2
  <2> QED
    BY <2>1, <2>2
<1> QED
  BY <1>1, <1>2
=============================================================================
