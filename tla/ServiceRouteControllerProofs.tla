-------------------- MODULE ServiceRouteControllerProofs --------------------
(***************************************************************************)
(* What holds of the ServiceRoute controller for all routes, policies,     *)
(* gateways, controllers and settings: its type invariant; that no wake-up *)
(* is lost (RouteInv, an inductive invariant), from which it follows that  *)
(* at rest the DNSEndpoints are those their inputs call for; and that the  *)
(* records of a live route are not withdrawn for want of an input.         *)
(***************************************************************************)
EXTENDS ServiceRouteController, TLAPS

USE DEF IdentityView!ViewTypeOK, IdentityView!ViewInit,
        IdentityView!ViewChanges, IdentityView!ViewEvent,
        IdentityView!ViewRestarts

-----------------------------------------------------------------------------
(***************************************************************************)
(* What Reconcile makes of what it has read.                               *)
(***************************************************************************)
\* A call is about what the informer had, changes something, and what it
\* creates or patches in belongs to the route that was read.
CallIsSound(call, obj, existing) ==
    /\ call \in Calls
    /\ call.old = existing[call.controller]
    /\ call.old # None \/ call.new # None
    /\ None \notin {call.old, call.new}
       => endpointSpec(call.old) # endpointSpec(call.new)
    /\ call.new # None => obj # None /\ call.new.owner = obj.born

\* Why a DNSEndpoint may be deleted.
Withdrawals == {"DNSPolicyInactive", "ReconciliationSucceeded"}

PlanIsSound(plan, obj, existing) ==
    /\ \A call \in plan.calls: CallIsSound(call, obj, existing)
    /\ \A a, b \in plan.calls: a.controller = b.controller => a = b
    /\ obj = None => plan.status = None
    /\ obj # None =>
        /\ plan.status \in RouteStatus
        /\ plan.status.observed = obj.rev
        /\ \A call \in plan.calls:
            call.new = None => plan.status.reason \in Withdrawals

\* deleteDNSEndpointsForServiceRoute deletes each DNSEndpoint once, all of
\* them.
LEMMA DeletionsAreSound ==
    ASSUME NEW existing \in [Controllers -> Endpoint \cup {None}], NEW obj
    PROVE  /\ \A call \in Deletions(existing):
                CallIsSound(call, obj, existing) /\ call.new = None
           /\ \A a, b \in Deletions(existing):
                a.controller = b.controller => a = b
           /\ \A c \in Controllers: existing[c] # None =>
                Call(c, existing[c], None) \in Deletions(existing)
BY DEF Deletions, Call, Calls, CallIsSound

AreBuilt(desired, obj) ==
    /\ DOMAIN desired \subseteq Controllers
    /\ \A c \in DOMAIN desired:
        desired[c] \in Endpoint /\ desired[c].owner = obj.born

\* buildDNSEndpoint builds a well-formed DNSEndpoint for each controller
\* that is active and listed.
LEMMA BuiltIsSound ==
    ASSUME NEW obj \in Route, obj.spec.host # Unset,
           NEW active \in SUBSET Controllers, NEW cfg \in Configs,
           NEW postfix \in Postfixes, NEW id \in Identities
    PROVE  AreBuilt(generateDNSEndpoints(obj, active, cfg, postfix, id), obj)
<1> DEFINE desired == generateDNSEndpoints(obj, active, cfg, postfix, id)
<1>1. PICK listed \in SUBSET Controllers: cfg \in [listed -> Regions]
  BY RouteInputs DEF Config
<1>2. DOMAIN desired = active \cap listed
  BY <1>1 DEF generateDNSEndpoints
<1>3. ASSUME NEW c \in active \cap listed
      PROVE  desired[c] \in Endpoint /\ desired[c].owner = obj.born
  <2>1. desired[c] = buildDNSEndpoint(obj, cfg[c], postfix, id)
    BY <1>1, <1>2 DEF generateDNSEndpoints
  <2>2. cfg[c] \in Regions
    BY <1>1, <1>2
  <2>3. obj.spec.host \in Hosts /\ obj.born \in 1..MaxRouteEdits
    BY RouteInputs DEF Route, RouteSpec
  <2>4. id.zone \in Zones /\ id.cluster \in Clusters /\ id.region \in Regions
    BY RouteInputs DEF Identity
  <2> QED
    BY <2>1, <2>2, <2>3, <2>4 DEF buildDNSEndpoint, Endpoint
<1> HIDE DEF desired
<1>4. AreBuilt(desired, obj)
  BY <1>1, <1>2, <1>3 DEF AreBuilt
<1> QED
  BY <1>4 DEF desired

\* reconcileDNSEndpoints creates what is missing, patches what differs and
\* deletes what is stale.
LEMMA ChangesAreSound ==
    ASSUME NEW existing \in [Controllers -> Endpoint \cup {None}],
           NEW obj \in Route, NEW desired, AreBuilt(desired, obj)
    PROVE  /\ \A call \in Changes(existing, desired):
                CallIsSound(call, obj, existing)
           /\ \A a, b \in Changes(existing, desired):
                a.controller = b.controller => a = b
<1> USE DEF AreBuilt
<1>1. CASE DOMAIN desired = {}
  <2>1. Changes(existing, desired) = {}
    BY <1>1 DEF Changes, Deletions
  <2> QED
    BY <2>1
<1>2. CASE DOMAIN desired # {}
  <2> DEFINE differs == {c \in DOMAIN desired :
                existing[c] = None
                \/ endpointSpec(existing[c]) # endpointSpec(desired[c])}
             writes == {Call(c, existing[c], desired[c]) : c \in differs}
             stale == {call \in Deletions(existing) :
                          call.controller \notin DOMAIN desired}
  <2>1. Changes(existing, desired) = writes \cup stale
    <3>1. [c \in Controllers |->
              IF DOMAIN desired = {} THEN None ELSE existing[c]] = existing
      BY <1>2
    <3> QED
      BY <3>1 DEF Changes
  <2>2. \A call \in writes:
          /\ CallIsSound(call, obj, existing)
          /\ call.controller \in DOMAIN desired
          /\ call.new = desired[call.controller]
    BY NoneIsNoObject DEF Call, Calls, CallIsSound
  <2>3. \A a, b \in writes: a.controller = b.controller => a = b
    BY DEF Call
  <2>4. \A call \in stale: CallIsSound(call, obj, existing)
    BY DeletionsAreSound
  <2>5. \A a, b \in stale: a.controller = b.controller => a = b
    BY DeletionsAreSound
  <2> HIDE DEF writes
  <2> QED
    BY <2>1, <2>2, <2>3, <2>4, <2>5
<1> QED
  BY <1>1, <1>2

\* Each of the updateStatus functions gives a well-formed status and records
\* the revision of its object.
LEMMA StatusIsSound ==
    ASSUME NEW obj \in Route, NEW phase \in RoutePhases,
           NEW reason \in RouteReasons
    PROVE  /\ routeStatus(obj, phase, reason) \in RouteStatus
           /\ routeStatus(obj, phase, reason).observed = obj.rev
           /\ routeStatus(obj, phase, reason).reason = reason
<1>1. obj.status \in RouteStatus /\ obj.rev \in 0..MaxRouteEdits
  BY RouteInputs DEF Route
<1> QED
  BY <1>1 DEF routeStatus, RouteStatus

\* updateStatusActive says of which spec it is, and why.
LEMMA ActiveStatusIsSound ==
    ASSUME NEW obj \in Route, NEW built \in SUBSET Controllers
    PROVE  /\ updateStatusActive(obj, built) \in RouteStatus
           /\ updateStatusActive(obj, built).observed = obj.rev
           /\ updateStatusActive(obj, built).reason = "ReconciliationSucceeded"
<1> DEFINE st == routeStatus(obj, "Active", "ReconciliationSucceeded")
           named == IF built = {} THEN st.dnsEndpoint ELSE CHOOSE c \in built: TRUE
<1>1. /\ st \in RouteStatus
      /\ st.observed = obj.rev
      /\ st.reason = "ReconciliationSucceeded"
  <2>1. "Active" \in RoutePhases /\ "ReconciliationSucceeded" \in RouteReasons
    BY DEF RoutePhases, RouteReasons
  <2> QED
    BY <2>1, StatusIsSound
<1>2. named \in Controllers \cup {Unset}
  BY <1>1 DEF RouteStatus
<1>3. updateStatusActive(obj, built) = [st EXCEPT !.dnsEndpoint = named]
  BY DEF updateStatusActive
<1> HIDE DEF st, named
<1> QED
  BY <1>1, <1>2, <1>3 DEF RouteStatus

\* What Reconcile is going to do makes sense whatever it has read.
LEMMA RoutePlanIsSound ==
    ASSUME NEW obj \in Route,
           NEW existing \in [Controllers -> Endpoint \cup {None}],
           NEW policy \in PolicyViews \cup {None},
           NEW cfg \in Configs \cup {None},
           NEW postfix \in Postfixes \cup {None},
           NEW id \in Identities \cup {None}
    PROVE  PlanIsSound(RoutePlan(obj, existing, policy, cfg, postfix, id),
                       obj, existing)
<1> DEFINE plan == RoutePlan(obj, existing, policy, cfg, postfix, id)
           desired == generateDNSEndpoints(obj, policy.controllers, cfg,
                                           postfix, id)
<1>1. ASSUME NEW phase \in RoutePhases, NEW reason \in RouteReasons,
             plan = Stop(obj, existing, phase, reason)
      PROVE  PlanIsSound(plan, obj, existing)
  <2>1. plan.calls = {} /\ plan.status = routeStatus(obj, phase, reason)
    BY <1>1 DEF Stop, Plan
  <2> HIDE DEF plan
  <2> QED
    BY <2>1, StatusIsSound, NoneIsNoObject DEF PlanIsSound
<1>2. ASSUME plan = Plan(Deletions(existing),
                         routeStatus(obj, "Pending", "DNSPolicyInactive"))
      PROVE  PlanIsSound(plan, obj, existing)
  <2>1. plan.calls = Deletions(existing)
        /\ plan.status = routeStatus(obj, "Pending", "DNSPolicyInactive")
    BY <1>2 DEF Plan
  <2>2. "Pending" \in RoutePhases /\ "DNSPolicyInactive" \in RouteReasons
    BY DEF RoutePhases, RouteReasons
  <2> HIDE DEF plan
  <2>3. /\ plan.status \in RouteStatus
        /\ plan.status.observed = obj.rev
        /\ plan.status.reason = "DNSPolicyInactive"
    BY <2>1, <2>2, StatusIsSound
  <2> QED
    BY <2>1, <2>3, DeletionsAreSound, NoneIsNoObject DEF PlanIsSound, Withdrawals
<1>3. ASSUME obj.spec.host # Unset, policy # None, cfg # None,
             postfix # None, id # None,
             plan = Plan(Changes(existing, desired),
                         updateStatusActive(obj, DOMAIN desired))
      PROVE  PlanIsSound(plan, obj, existing)
  <2>1. policy.controllers \in SUBSET Controllers
    BY <1>3, RouteInputs
  <2>2. AreBuilt(desired, obj)
    BY <1>3, <2>1, BuiltIsSound
  <2>3. plan.calls = Changes(existing, desired)
        /\ plan.status = updateStatusActive(obj, DOMAIN desired)
    BY <1>3 DEF Plan
  <2> HIDE DEF plan, desired
  <2> QED
    BY <2>2, <2>3, ChangesAreSound, ActiveStatusIsSound, NoneIsNoObject
    DEF PlanIsSound, Withdrawals, AreBuilt
<1>4. \/ \E phase \in RoutePhases, reason \in RouteReasons:
            plan = Stop(obj, existing, phase, reason)
      \/ plan = Plan(Deletions(existing),
                     routeStatus(obj, "Pending", "DNSPolicyInactive"))
      \/ /\ obj.spec.host # Unset /\ policy # None /\ cfg # None
         /\ postfix # None /\ id # None
         /\ plan = Plan(Changes(existing, desired),
                        updateStatusActive(obj, DOMAIN desired))
  BY DEF RoutePlan, RoutePhases, RouteReasons
<1> HIDE DEF plan, desired
<1> QED
  BY <1>1, <1>2, <1>3, <1>4 DEF plan

-----------------------------------------------------------------------------
(***************************************************************************)
(* Type correctness.                                                       *)
(***************************************************************************)
BusyWorker ==
    [pc: {"gather", "apply"}, key: Routes, obj: Route \cup {None},
     calls: SUBSET Calls, status: RouteStatus \cup {None}]

\* A worker that is not idle holds a route's name.
LEMMA WorkerType ==
    ASSUME RouteTypeOK, routeWorker.pc # "idle"
    PROVE  routeWorker \in BusyWorker
BY DEF RouteTypeOK, RouteWorker, IdleRouteWorker, BusyWorker

\* An idle worker holds nothing.
LEMMA WorkerIdle == IdleRouteWorker \in RouteWorker /\ IdleRouteWorker.pc = "idle"
BY DEF RouteWorker, IdleRouteWorker

\* A DNSEndpoint has an owner, which no route that is gone can be.
LEMMA OwnerIsSome ==
    ASSUME NEW e \in Endpoint
    PROVE  e.owner # 0
<1>1. e.owner \in 1..MaxRouteEdits
  BY DEF Endpoint
<1>2. MaxRouteEdits \in Nat
  BY RouteInputs
<1> QED
  BY <1>1, <1>2

\* The gateway of a route is one that can exist.
LEMMA GatewayOfRoute ==
    ASSUME NEW obj \in Route
    PROVE  gatewayOf(obj.spec) \in GatewayKeys
<1>1. obj.spec \in RouteSpec
  BY RouteInputs DEF Route
<1>2. obj.spec.gateway \in GatewayNames
      /\ obj.spec.gatewayNamespace \in Namespaces \cup {Unset}
  BY <1>1 DEF RouteSpec
<1> QED
  BY <1>2, RouteInputs DEF gatewayOf, GatewayKeys

\* What the informers have of r, and the plans Reconcile may make of it.
SeenEndpointsOf(r) == [c \in Controllers |-> seenEndpoints[r, c]]

\* The informer's DNSEndpoints of a route, one for each controller or none.
LEMMA SeenEndpointsType ==
    ASSUME RouteTypeOK, NEW r \in Routes
    PROVE  /\ SeenEndpointsOf(r) \in [Controllers -> Endpoint \cup {None}]
           /\ \A c \in Controllers: SeenEndpointsOf(r)[c] = seenEndpoints[r, c]
BY DEF SeenEndpointsOf, RouteTypeOK, EndpointKeys

\* What getDNSPolicyForNamespace takes is a DNSPolicy's status or nothing.
LEMMA ListedPoliciesType ==
    ASSUME RouteTypeOK
    PROVE  ListedPolicies \subseteq PolicyViews \cup {None}
BY DEF ListedPolicies, RouteTypeOK

\* A user's write stores a well-formed route under a revision of its own;
\* one that is created has a UID of its own.
LEMMA WriteIsNew ==
    ASSUME RouteTypeOK, NEW r \in Routes, CreateRoute(r) \/ EditRoute(r)
    PROVE  \E obj \in Route:
              /\ WriteRoute(r, obj)
              /\ obj.rev = routeEdits + 1
              /\ IF routes[r] = None THEN obj.born = routeEdits + 1
                 ELSE obj.born = routes[r].born /\ obj.status = routes[r].status
<1>1. CASE CreateRoute(r)
  <2>1. PICK spec \in RouteSpecs:
          WriteRoute(r, [spec |-> spec, rev |-> routeEdits + 1,
                         born |-> routeEdits + 1, status |-> NewRouteStatus])
    BY <1>1 DEF CreateRoute
  <2>2. NewRouteStatus \in RouteStatus
    BY RouteInputs DEF NewRouteStatus, RouteStatus, RoutePhases, RouteReasons
  <2>3. routeEdits + 1 \in 1..MaxRouteEdits
    BY <2>1, RouteInputs DEF WriteRoute, RouteTypeOK
  <2>4. routes[r] = None
    BY <1>1 DEF CreateRoute
  <2> QED
    BY <2>1, <2>2, <2>3, <2>4 DEF Route
<1>2. CASE EditRoute(r)
  <2>1. PICK spec \in RouteSpecs:
          WriteRoute(r, [routes[r] EXCEPT !.spec = spec, !.rev = routeEdits + 1])
    BY <1>2 DEF EditRoute
  <2> DEFINE obj == [routes[r] EXCEPT !.spec = spec, !.rev = routeEdits + 1]
  <2>2. routes[r] # None /\ routes[r] \in Route
    BY <1>2 DEF EditRoute, RouteTypeOK
  <2>3. routeEdits + 1 \in 1..MaxRouteEdits
    BY <2>1, RouteInputs DEF WriteRoute, RouteTypeOK
  <2>4. /\ obj \in Route
        /\ obj.rev = routeEdits + 1
        /\ obj.born = routes[r].born
        /\ obj.status = routes[r].status
    BY <2>2, <2>3 DEF Route
  <2> HIDE DEF obj
  <2>5. WriteRoute(r, obj)
    BY <2>1 DEF obj
  <2> QED
    BY <2>2, <2>4, <2>5
<1> QED
  BY <1>1, <1>2

\* What a call makes of the stored DNSEndpoint is one or none.  It keeps the
\* owner of what it patches.
LEMMA WrittenType ==
    ASSUME NEW call \in Calls, NEW stored \in Endpoint \cup {None},
           Accepted(call, stored)
    PROVE  /\ Written(call, stored) \in Endpoint \cup {None}
           /\ None \in {call.old, call.new} => Written(call, stored) = call.new
           /\ None \notin {call.old, call.new} =>
                /\ stored # None
                /\ Written(call, stored) # None
                /\ Written(call, stored).owner = stored.owner
                /\ endpointSpec(Written(call, stored)) = endpointSpec(call.new)
<1>1. CASE None \in {call.old, call.new}
  BY <1>1 DEF Written, Calls
<1>2. CASE None \notin {call.old, call.new}
  <2>1. stored \in Endpoint /\ stored # None
    BY <1>2, NoneIsNoObject DEF Accepted
  <2>2. call.new \in Endpoint
    BY <1>2 DEF Calls
  <2>3. PICK region \in Regions:
          Written(call, stored) = [stored EXCEPT !.source = call.new.source,
                                                 !.target = call.new.target,
                                                 !.region = region]
    BY <1>2, <2>1, <2>2 DEF Written, Endpoint
  <2>4. /\ Written(call, stored) \in Endpoint
        /\ Written(call, stored).owner = stored.owner
        /\ Written(call, stored).source = call.new.source
        /\ Written(call, stored).target = call.new.target
    BY <2>1, <2>2, <2>3 DEF Endpoint
  <2> QED
    BY <1>2, <2>1, <2>4, NoneIsNoObject DEF endpointSpec
<1> QED
  BY <1>1, <1>2

\* The controller starts in a well-formed state.
LEMMA RouteTypeInit == Init => RouteTypeOK
<1> SUFFICES ASSUME Init PROVE RouteTypeOK
  OBVIOUS
<1>1. routeEdits \in 0..MaxRouteEdits
  BY RouteInputs DEF Init
<1> QED
  BY <1>1, WorkerIdle DEF Init, RouteTypeOK

\* What Reconcile may make of obj, as an object of that name, if it gathers
\* now.
MayPlan(r, obj, plan) ==
    IF obj = None THEN plan = Plan(Deletions(SeenEndpointsOf(r)), None)
    ELSE \E policy \in ListedPolicies:
            plan = RoutePlan(obj, SeenEndpointsOf(r), policy, config,
                             seenGateways[gatewayOf(obj.spec)], identity)

\* It is one of the sound plans.
LEMMA MayPlanIsSound ==
    ASSUME RouteTypeOK, NEW r \in Routes, NEW obj \in Route \cup {None},
           NEW plan, MayPlan(r, obj, plan)
    PROVE  PlanIsSound(plan, obj, SeenEndpointsOf(r))
<1>1. SeenEndpointsOf(r) \in [Controllers -> Endpoint \cup {None}]
  BY SeenEndpointsType
<1>2. CASE obj = None
  <2>1. plan.calls = Deletions(SeenEndpointsOf(r)) /\ plan.status = None
    BY <1>2 DEF MayPlan, Plan
  <2> QED
    BY <1>1, <1>2, <2>1, DeletionsAreSound DEF PlanIsSound
<1>3. CASE obj # None
  <2>1. obj \in Route
    BY <1>3
  <2>2. PICK policy \in ListedPolicies:
          plan = RoutePlan(obj, SeenEndpointsOf(r), policy, config,
                           seenGateways[gatewayOf(obj.spec)], identity)
    BY <1>3 DEF MayPlan
  <2>3. policy \in PolicyViews \cup {None}
    BY ListedPoliciesType
  <2>4. seenGateways[gatewayOf(obj.spec)] \in Postfixes \cup {None}
    BY <2>1, GatewayOfRoute DEF RouteTypeOK
  <2>5. config \in Configs \cup {None} /\ identity \in Identities \cup {None}
    BY DEF RouteTypeOK
  <2> QED
    BY <1>1, <2>1, <2>2, <2>3, <2>4, <2>5, RoutePlanIsSound
<1> QED
  BY <1>2, <1>3

\* Gather keeps one of them for the calls and the status update.
LEMMA GatherIsSound ==
    ASSUME RouteTypeOK, Gather
    PROVE  \E plan:
              /\ MayPlan(routeWorker.key, routeWorker.obj, plan)
              /\ PlanIsSound(plan, routeWorker.obj,
                             SeenEndpointsOf(routeWorker.key))
              /\ routeWorker' = [routeWorker EXCEPT !.pc = "apply",
                                    !.calls = plan.calls, !.status = plan.status]
<1> DEFINE w == routeWorker
           existing == SeenEndpointsOf(w.key)
<1>1. w.key \in Routes /\ w.obj \in Route \cup {None}
  BY WorkerType DEF Gather, BusyWorker
<1>2. \E plan: /\ MayPlan(w.key, w.obj, plan)
               /\ w' = [w EXCEPT !.pc = "apply", !.calls = plan.calls,
                                 !.status = plan.status]
  <2>1. CASE w.obj = None
    BY <2>1 DEF Gather, SeenEndpointsOf, MayPlan
  <2>2. CASE w.obj # None
    BY <2>2 DEF Gather, SeenEndpointsOf, MayPlan
  <2> QED
    BY <2>1, <2>2
<1> QED
  BY <1>1, <1>2, MayPlanIsSound

\* What a worker that makes its calls holds.
WorkerIsSound ==
    routeWorker.pc = "apply" =>
    /\ \A call \in routeWorker.calls:
        call.new # None =>
            routeWorker.obj # None /\ call.new.owner = routeWorker.obj.born
    /\ routeWorker.obj # None =>
        /\ routeWorker.status \in RouteStatus
        /\ routeWorker.status.observed = routeWorker.obj.rev
        /\ \A call \in routeWorker.calls:
            call.new = None => routeWorker.status.reason \in Withdrawals

\* Each step of Reconcile leaves the worker with what it should hold.
LEMMA WorkerStep ==
    ASSUME RouteTypeOK, WorkerIsSound,
           \/ \E r \in Routes: StartRoute(r)
           \/ Gather \/ ApplyCall \/ CallRefused \/ FinishDeleted
           \/ UpdateRouteStatus \/ RouteConflict \/ RouteError \/ Restart
    PROVE  routeWorker' \in RouteWorker /\ WorkerIsSound'
<1> DEFINE w == routeWorker
<1>1. ASSUME NEW r \in Routes, StartRoute(r)
      PROVE  w' \in RouteWorker /\ WorkerIsSound'
  <2>1. w' = [pc |-> "gather", key |-> r, obj |-> seenRoutes[r], calls |-> {},
              status |-> None]
    BY <1>1 DEF StartRoute, IdleRouteWorker
  <2> QED
    BY <2>1 DEF RouteTypeOK, RouteWorker, WorkerIsSound
<1>2. CASE Gather
  <2>1. w \in BusyWorker
    BY <1>2, WorkerType DEF Gather
  <2>2. PICK plan:
          /\ PlanIsSound(plan, w.obj, SeenEndpointsOf(w.key))
          /\ w' = [w EXCEPT !.pc = "apply", !.calls = plan.calls,
                            !.status = plan.status]
    BY <1>2, GatherIsSound
  <2>3. /\ w' \in BusyWorker
        /\ w'.obj = w.obj /\ w'.calls = plan.calls /\ w'.status = plan.status
    BY <2>1, <2>2 DEF PlanIsSound, CallIsSound, BusyWorker
  <2>4. WorkerIsSound'
    BY <2>2, <2>3 DEF PlanIsSound, CallIsSound, WorkerIsSound
  <2> QED
    BY <2>3, <2>4 DEF BusyWorker, RouteWorker
<1>3. CASE ApplyCall
  <2>1. PICK call \in w.calls: w' = [w EXCEPT !.calls = @ \ {call}]
                               /\ w.pc = "apply"
    BY <1>3 DEF ApplyCall, NextCall
  <2>2. w \in BusyWorker
    BY <2>1, WorkerType
  <2>3. /\ w' \in BusyWorker
        /\ w'.obj = w.obj /\ w'.calls \subseteq w.calls /\ w'.status = w.status
    BY <2>1, <2>2 DEF BusyWorker
  <2>4. WorkerIsSound'
    BY <2>1, <2>3 DEF WorkerIsSound
  <2> QED
    BY <2>3, <2>4 DEF BusyWorker, RouteWorker
<1>4. CASE \/ CallRefused \/ FinishDeleted \/ UpdateRouteStatus
           \/ RouteConflict \/ RouteError \/ Restart
  <2>1. w' = IdleRouteWorker
    BY <1>4 DEF CallRefused, FinishDeleted, UpdateRouteStatus, RouteConflict,
       RouteError, Restart, RequeueRoute
  <2> QED
    BY <2>1, WorkerIdle DEF WorkerIsSound
<1> QED
  BY <1>1, <1>2, <1>3, <1>4

\* Every step keeps it so.
LEMMA RouteTypeStep ==
    RouteTypeOK /\ WorkerIsSound /\ [Next]_vars => RouteTypeOK' /\ WorkerIsSound'
<1> SUFFICES ASSUME RouteTypeOK, WorkerIsSound, [Next]_vars
             PROVE  RouteTypeOK' /\ WorkerIsSound'
  OBVIOUS
<1> USE RouteInputs DEF RouteTypeOK, routeVars, endpointVars, inputVars
<1>1. ASSUME NEW r \in Routes, CreateRoute(r) \/ EditRoute(r)
      PROVE  RouteTypeOK' /\ routeWorker' = routeWorker
  <2>1. PICK obj \in Route: WriteRoute(r, obj)
    BY <1>1, WriteIsNew
  <2>2. routeEdits' \in 0..MaxRouteEdits
    BY <2>1 DEF WriteRoute
  <2>3. routes' \in [Routes -> Route \cup {None}]
    BY <2>1 DEF WriteRoute
  <2> QED
    BY <2>1, <2>2, <2>3 DEF WriteRoute
<1>2. ASSUME NEW r \in Routes, DeleteRoute(r)
      PROVE  RouteTypeOK' /\ routeWorker' = routeWorker
  BY <1>2 DEF DeleteRoute
<1>3. ASSUME NEW g \in GatewayKeys, WriteGateway(g)
      PROVE  RouteTypeOK' /\ routeWorker' = routeWorker
  BY <1>3 DEF WriteGateway
<1>4. ASSUME NEW r \in Routes, InformRoute(r)
      PROVE  RouteTypeOK' /\ routeWorker' = routeWorker
  BY <1>4 DEF InformRoute, Enqueue
<1>5. ASSUME NEW r \in Routes, NEW c \in Controllers, InformEndpoint(r, c)
      PROVE  RouteTypeOK' /\ routeWorker' = routeWorker
  BY <1>5 DEF InformEndpoint, Enqueue, EndpointKeys
<1>6. ASSUME NEW g \in GatewayKeys, InformGateway(g)
      PROVE  RouteTypeOK' /\ routeWorker' = routeWorker
  BY <1>6 DEF InformGateway, Enqueue, mapGatewayToServiceRoutes, ListedRoutes
<1>7. CASE PolicyEvent \/ IdentityChanges \/ IdentityEvent \/ ConfigChanges
  <2>1. RouteTypeOK' /\ routeWorker' = routeWorker
    BY <1>7 DEF PolicyEvent, IdentityChanges, IdentityEvent, ConfigChanges,
       Enqueue, ListedRoutes
  <2> QED
    BY <2>1 DEF WorkerIsSound
<1>8. ASSUME NEW r \in Routes, NEW c \in Controllers, CollectEndpoint(r, c)
      PROVE  RouteTypeOK' /\ routeWorker' = routeWorker
  BY <1>8 DEF CollectEndpoint, EndpointKeys
<1>9. CASE \/ \E r \in Routes: StartRoute(r)
           \/ Gather \/ CallRefused \/ FinishDeleted \/ RouteConflict
           \/ RouteError
  <2>1. /\ routeQueue' \subseteq Routes
        /\ unread' \subseteq Routes
        /\ UNCHANGED <<routeVars, endpointVars, inputVars>>
    <3>1. ASSUME RequeueRoute, routeWorker.pc = "apply"
          PROVE  <2>1
      <4>1. routeWorker.key \in Routes
        BY <3>1, WorkerType DEF BusyWorker
      <4> QED
        BY <3>1, <4>1 DEF RequeueRoute, Enqueue
    <3> QED
      BY <1>9, <3>1 DEF StartRoute, Gather, CallRefused, FinishDeleted,
         RouteConflict, RouteError, Applied, NextCall
  <2> QED
    BY <1>9, <2>1, WorkerStep
<1>10. CASE ApplyCall
  <2>1. PICK call \in routeWorker.calls:
          LET k == <<routeWorker.key, call.controller>> IN
          /\ NextCall(call)
          /\ Accepted(call, endpoints[k])
          /\ endpoints' = [endpoints EXCEPT ![k] = Written(call, endpoints[k])]
          /\ UNCHANGED <<routeVars, seenEndpoints, inputVars, routeQueue, unread>>
    BY <1>10 DEF ApplyCall
  <2>2. call \in Calls /\ <<routeWorker.key, call.controller>> \in EndpointKeys
    BY <2>1, WorkerType DEF BusyWorker, NextCall, Calls, EndpointKeys
  <2>3. Written(call, endpoints[<<routeWorker.key, call.controller>>])
          \in Endpoint \cup {None}
    BY <2>1, <2>2, WrittenType
  <2>4. endpoints' \in [EndpointKeys -> Endpoint \cup {None}]
    BY <2>1, <2>2, <2>3
  <2> QED
    BY <1>10, <2>1, <2>4, WorkerStep
<1>11. CASE UpdateRouteStatus
  <2>1. routeWorker \in BusyWorker /\ routeWorker.pc = "apply"
    BY <1>11, WorkerType DEF UpdateRouteStatus, Applied
  <2>2. /\ routeWorker.obj \in Route
        /\ routeWorker.status \in RouteStatus
        /\ routes[routeWorker.key] = routeWorker.obj
        /\ routes' = [routes EXCEPT ![routeWorker.key] =
                        [routeWorker.obj EXCEPT !.status = routeWorker.status]]
        /\ UNCHANGED <<seenRoutes, routeEdits, endpointVars, inputVars,
                       routeQueue, unread>>
    BY <1>11, <2>1 DEF UpdateRouteStatus, WorkerIsSound, BusyWorker
  <2>3. routes' \in [Routes -> Route \cup {None}]
    BY <2>1, <2>2 DEF Route, BusyWorker
  <2> QED
    BY <1>11, <2>2, <2>3, WorkerStep
<1>12. CASE Restart
  BY <1>12, WorkerStep DEF Restart
<1>13. CASE UNCHANGED vars
  BY <1>13 DEF vars, WorkerIsSound
<1>14. routeWorker' = routeWorker => WorkerIsSound'
  BY DEF WorkerIsSound
<1> QED
  BY <1>1, <1>2, <1>3, <1>4, <1>5, <1>6, <1>7, <1>8, <1>9, <1>10, <1>11, <1>12,
     <1>13, <1>14
  DEF Next, SystemNext, Disturbance, UserNext, RouteInformerNext,
      RouteReconcileNext, CollectorNext

\* All variables keep their types, whatever is written, read, fails or is
\* restarted, and the calls of a worker make sense.
THEOREM RouteTypeCorrect == Spec => []RouteTypeOK
<1>1. Init => WorkerIsSound
  BY DEF Init, WorkerIsSound, IdleRouteWorker
<1> QED
  BY <1>1, RouteTypeInit, RouteTypeStep, PTL DEF Spec

-----------------------------------------------------------------------------
(***************************************************************************)
(* Revisions and UIDs.                                                     *)
(***************************************************************************)
Handling(r) == routeWorker.pc # "idle" /\ routeWorker.key = r

\* No revision is above the counter, so that the next one is new.
Numbered(obj, n) == obj # None => obj.rev <= n /\ obj.born <= n

NumbersArePast ==
    /\ \A r \in Routes: Numbered(routes[r], routeEdits)
                         /\ Numbered(seenRoutes[r], routeEdits)
    /\ Numbered(routeWorker.obj, routeEdits)
    /\ \A k \in EndpointKeys: endpoints[k] # None => endpoints[k].owner <= routeEdits

\* An object whose status can still be written is the informer's.
WritableIsSeen ==
    \A r \in Routes:
        Handling(r) /\ routeWorker.obj # None /\ routes[r] = routeWorker.obj
        => seenRoutes[r] = routes[r]

\* A route the informer does not have is not the one the worker has, and
\* owns nothing yet; nor does a route own anything while the worker cleans
\* up after another one of that name.
OwnersAreSeen ==
    \A r \in Routes:
        routes[r] # None =>
        /\ seenRoutes[r] = None /\ Handling(r) /\ routeWorker.obj # None
           => routeWorker.obj.born # routes[r].born
        /\ seenRoutes[r] = None \/ (Handling(r) /\ routeWorker.obj = None)
           => \A c \in Controllers:
                endpoints[r, c] # None => endpoints[r, c].owner # routes[r].born

\* Who is who among objects of one name.
HistoryIsSound == NumbersArePast /\ WritableIsSeen /\ OwnersAreSeen

\* Each step keeps the order of revisions and the owners as they should be.
LEMMA HistoryStep ==
    RouteTypeOK /\ WorkerIsSound /\ HistoryIsSound /\ [Next]_vars
        => HistoryIsSound'
<1> SUFFICES ASSUME RouteTypeOK, WorkerIsSound, HistoryIsSound, [Next]_vars
             PROVE  HistoryIsSound'
  OBVIOUS
<1> DEFINE w == routeWorker
<1> USE RouteInputs, NoneIsNoObject DEF HistoryIsSound
<1>e. routeEdits \in Nat
  BY DEF RouteTypeOK
<1>o. w.obj # None => w.obj \in Route
  BY DEF RouteTypeOK, RouteWorker, IdleRouteWorker
<1>1. ASSUME NEW r \in Routes, CreateRoute(r) \/ EditRoute(r)
      PROVE  HistoryIsSound'
  <2>1. PICK obj \in Route:
          /\ WriteRoute(r, obj)
          /\ obj.rev = routeEdits + 1
          /\ IF routes[r] = None THEN obj.born = routeEdits + 1
             ELSE obj.born = routes[r].born /\ obj.status = routes[r].status
    BY <1>1, WriteIsNew
  <2>2. /\ routes' = [routes EXCEPT ![r] = obj]
        /\ routeEdits' = routeEdits + 1
        /\ routes \in [Routes -> Route \cup {None}]
        /\ UNCHANGED <<seenRoutes, endpoints, routeWorker>>
    BY <2>1 DEF WriteRoute, RouteTypeOK, endpointVars
  <2>3. \A old \in Route:
          Numbered(old, routeEdits) => Numbered(old, routeEdits') /\ old # obj
    BY <1>e, <2>1, <2>2 DEF Numbered, Route
  <2>4. Numbered(obj, routeEdits')
    <3>1. routes[r] # None => routes[r].born <= routeEdits /\ routes[r] \in Route
      BY DEF NumbersArePast, Numbered, RouteTypeOK
    <3>2. obj.born <= routeEdits + 1
      BY <1>e, <2>1, <3>1 DEF Route
    <3> QED
      BY <1>e, <2>1, <2>2, <3>2 DEF Numbered
  <2>5. NumbersArePast'
    <3>1. \A q \in Routes: /\ Numbered(routes'[q], routeEdits')
                           /\ Numbered(seenRoutes'[q], routeEdits')
      <4>1. \A old \in Route \cup {None}:
              Numbered(old, routeEdits) => Numbered(old, routeEdits')
        BY <2>3 DEF Numbered
      <4>2. seenRoutes \in [Routes -> Route \cup {None}]
        BY DEF RouteTypeOK
      <4> QED
        BY <2>2, <2>4, <4>1, <4>2 DEF NumbersArePast
    <3>2. Numbered(w'.obj, routeEdits')
      BY <1>o, <2>2, <2>3 DEF NumbersArePast, Numbered
    <3>3. \A k \in EndpointKeys:
            endpoints'[k] # None => endpoints'[k].owner <= routeEdits'
      <4>1. \A e \in Endpoint: e.owner \in Nat
        BY DEF Endpoint
      <4> QED
        BY <1>e, <2>2, <4>1 DEF NumbersArePast, RouteTypeOK
    <3> QED
      BY <3>1, <3>2, <3>3 DEF NumbersArePast
  <2>6. WritableIsSeen'
    BY <1>o, <2>2, <2>3 DEF WritableIsSeen, Handling, NumbersArePast
  <2>7. OwnersAreSeen'
    <3>1. CASE routes[r] # None
      BY <2>1, <2>2, <3>1 DEF OwnersAreSeen, Handling
    <3>2. CASE routes[r] = None
      <4>1. obj.born = routeEdits + 1
        BY <2>1, <3>2
      <4>2. w.obj # None => w.obj.born # obj.born
        BY <1>e, <1>o, <4>1 DEF NumbersArePast, Numbered, Route
      <4>3. \A k \in EndpointKeys:
              endpoints[k] # None => endpoints[k].owner # obj.born
        BY <1>e, <4>1 DEF NumbersArePast, RouteTypeOK, Endpoint
      <4>4. \A c \in Controllers: <<r, c>> \in EndpointKeys
        BY DEF EndpointKeys
      <4> QED
        BY <2>2, <4>2, <4>3, <4>4 DEF OwnersAreSeen, Handling
    <3> QED
      BY <3>1, <3>2
  <2> QED
    BY <2>5, <2>6, <2>7
<1>2. ASSUME NEW r \in Routes, DeleteRoute(r) PROVE HistoryIsSound'
  <2>1. /\ routes' = [routes EXCEPT ![r] = None]
        /\ routes \in [Routes -> Route \cup {None}]
        /\ UNCHANGED <<seenRoutes, endpoints, routeWorker, routeEdits>>
    BY <1>2 DEF DeleteRoute, RouteTypeOK, endpointVars
  <2> QED
    BY <2>1 DEF NumbersArePast, Numbered, WritableIsSeen, OwnersAreSeen, Handling
<1>3. ASSUME NEW r \in Routes, InformRoute(r) PROVE HistoryIsSound'
  <2>1. /\ seenRoutes' = [seenRoutes EXCEPT ![r] = routes[r]]
        /\ seenRoutes \in [Routes -> Route \cup {None}]
        /\ UNCHANGED <<routes, endpoints, routeWorker, routeEdits>>
    BY <1>3 DEF InformRoute, RouteTypeOK, endpointVars
  <2> QED
    BY <2>1 DEF NumbersArePast, Numbered, WritableIsSeen, OwnersAreSeen, Handling
<1>4. ASSUME NEW r \in Routes, NEW c \in Controllers, CollectEndpoint(r, c)
      PROVE HistoryIsSound'
  <2>1. /\ endpoints' = [endpoints EXCEPT ![<<r, c>>] = None]
        /\ endpoints \in [EndpointKeys -> Endpoint \cup {None}]
        /\ UNCHANGED <<routes, seenRoutes, routeWorker, routeEdits>>
    BY <1>4 DEF CollectEndpoint, RouteTypeOK, routeVars
  <2>2. \A k \in EndpointKeys: endpoints'[k] \in {endpoints[k], None}
    BY <2>1
  <2>3. \A q \in Routes, d \in Controllers: <<q, d>> \in EndpointKeys
    BY DEF EndpointKeys
  <2>4. NumbersArePast' /\ WritableIsSeen'
    BY <2>1, <2>2 DEF NumbersArePast, Numbered, WritableIsSeen, Handling
  <2>5. OwnersAreSeen'
    BY <2>1, <2>2, <2>3 DEF OwnersAreSeen, Handling
  <2> QED
    BY <2>4, <2>5
<1>5. ASSUME NEW r \in Routes, StartRoute(r) PROVE HistoryIsSound'
  <2>1. /\ w.pc = "idle"
        /\ w' = [pc |-> "gather", key |-> r, obj |-> seenRoutes[r],
                 calls |-> {}, status |-> None]
        /\ UNCHANGED <<routes, seenRoutes, endpoints, routeEdits>>
    BY <1>5 DEF StartRoute, IdleRouteWorker, routeVars, endpointVars
  <2> QED
    BY <2>1 DEF NumbersArePast, Numbered, WritableIsSeen, OwnersAreSeen, Handling
<1>6. CASE Gather
  <2>1. w \in BusyWorker
    BY <1>6, WorkerType DEF Gather
  <2>2. /\ w'.key = w.key /\ w'.obj = w.obj /\ w'.pc # "idle" /\ w.pc # "idle"
        /\ UNCHANGED <<routes, seenRoutes, endpoints, routeEdits>>
    BY <1>6, <2>1, GatherIsSound DEF Gather, BusyWorker, routeVars, endpointVars
  <2> QED
    BY <2>2 DEF NumbersArePast, Numbered, WritableIsSeen, OwnersAreSeen, Handling
<1>7. CASE ApplyCall
  <2>1. PICK call \in w.calls:
          LET k == <<w.key, call.controller>> IN
          /\ NextCall(call)
          /\ Accepted(call, endpoints[k])
          /\ endpoints' = [endpoints EXCEPT ![k] = Written(call, endpoints[k])]
          /\ w' = [w EXCEPT !.calls = @ \ {call}]
          /\ UNCHANGED <<routes, seenRoutes, routeEdits>>
    BY <1>7 DEF ApplyCall, routeVars
  <2> DEFINE k == <<w.key, call.controller>>
  <2>2. w \in BusyWorker /\ w.pc = "apply"
    BY <2>1, WorkerType DEF NextCall
  <2>3. call \in Calls /\ k \in EndpointKeys
    BY <2>1, <2>2 DEF BusyWorker, Calls, EndpointKeys
  <2>4. /\ endpoints \in [EndpointKeys -> Endpoint \cup {None}]
        /\ endpoints' = [endpoints EXCEPT ![k] = Written(call, endpoints[k])]
    BY <2>1 DEF RouteTypeOK
  <2>5. w'.key = w.key /\ w'.obj = w.obj /\ w'.pc = w.pc
    BY <2>1, <2>2 DEF BusyWorker
  <2>6. endpoints'[k] # None =>
          \/ w.obj # None /\ endpoints'[k].owner = w.obj.born
          \/ endpoints[k] # None /\ endpoints'[k].owner = endpoints[k].owner
    BY <2>1, <2>2, <2>3, <2>4, WrittenType DEF WorkerIsSound
  <2>7. \A q \in EndpointKeys: q # k => endpoints'[q] = endpoints[q]
    BY <2>4
  <2>8. NumbersArePast'
    BY <1>o, <2>1, <2>3, <2>5, <2>6, <2>7 DEF NumbersArePast, Numbered
  <2>9. WritableIsSeen'
    BY <2>1, <2>5 DEF WritableIsSeen, Handling
  <2>10. OwnersAreSeen'
    <3>1. ASSUME NEW r \in Routes, routes[r] # None,
                 seenRoutes[r] = None \/ (Handling(r) /\ w.obj = None),
                 NEW c \in Controllers, endpoints'[r, c] # None
          PROVE  endpoints'[r, c].owner # routes[r].born
      <4>1. <<r, c>> \in EndpointKeys
        BY DEF EndpointKeys
      <4>2. CASE <<r, c>> # k
        BY <2>7, <3>1, <4>1, <4>2 DEF OwnersAreSeen
      <4>3. CASE <<r, c>> = k
        <5>1. w.key = r /\ Handling(r)
          BY <2>2, <4>3 DEF Handling
        <5> QED
          BY <2>6, <3>1, <4>3, <5>1 DEF OwnersAreSeen
      <4> QED
        BY <4>2, <4>3
    <3> QED
      BY <2>1, <2>5, <3>1 DEF OwnersAreSeen, Handling
  <2> QED
    BY <2>8, <2>9, <2>10
<1>8. CASE UpdateRouteStatus
  <2>1. /\ w.obj \in Route /\ w.key \in Routes /\ w.pc # "idle"
        /\ routes[w.key] = w.obj
        /\ routes' = [routes EXCEPT ![w.key] = [w.obj EXCEPT !.status = w.status]]
        /\ w' = IdleRouteWorker
        /\ UNCHANGED <<seenRoutes, endpoints, routeEdits>>
    BY <1>8, <1>o, WorkerType DEF UpdateRouteStatus, Applied, BusyWorker, endpointVars
  <2> DEFINE new == [w.obj EXCEPT !.status = w.status]
  <2>2. new.rev = w.obj.rev /\ new.born = w.obj.born
    BY <2>1 DEF Route
  <2>3. \A r \in Routes: routes'[r] = IF r = w.key THEN new ELSE routes[r]
    BY <2>1 DEF RouteTypeOK
  <2>4. w'.obj = None /\ w'.pc = "idle"
    BY <2>1 DEF IdleRouteWorker
  <2> HIDE DEF new
  <2>5. NumbersArePast'
    BY <2>1, <2>2, <2>3, <2>4 DEF NumbersArePast, Numbered
  <2>6. WritableIsSeen'
    BY <2>4 DEF WritableIsSeen, Handling
  <2>7. \A r \in Routes: routes'[r] # None =>
                        routes[r] # None /\ routes'[r].born = routes[r].born
    BY <2>1, <2>2, <2>3
  <2>8. OwnersAreSeen'
    BY <2>1, <2>4, <2>7 DEF OwnersAreSeen, Handling
  <2> QED
    BY <2>5, <2>6, <2>8
<1>9. CASE CallRefused \/ FinishDeleted \/ RouteConflict \/ RouteError
  <2>1. /\ w' = IdleRouteWorker
        /\ UNCHANGED <<routes, seenRoutes, endpoints, routeEdits>>
    BY <1>9 DEF CallRefused, FinishDeleted, RouteConflict, RouteError,
       RequeueRoute, routeVars, endpointVars
  <2> QED
    BY <2>1 DEF IdleRouteWorker, NumbersArePast, Numbered, WritableIsSeen,
       OwnersAreSeen, Handling
<1>10. CASE Restart
  <2>1. /\ w' = IdleRouteWorker /\ seenRoutes' = routes
        /\ UNCHANGED <<routes, endpoints, routeEdits>>
    BY <1>10 DEF Restart
  <2> QED
    BY <2>1 DEF IdleRouteWorker, NumbersArePast, Numbered, WritableIsSeen,
       OwnersAreSeen, Handling
<1>11. CASE UNCHANGED <<routes, seenRoutes, endpoints, routeWorker, routeEdits>>
  BY <1>11 DEF NumbersArePast, Numbered, WritableIsSeen, OwnersAreSeen, Handling
<1> QED
  BY <1>1, <1>2, <1>3, <1>4, <1>5, <1>6, <1>7, <1>8, <1>9, <1>10, <1>11
  DEF Next, SystemNext, Disturbance, UserNext, RouteInformerNext,
      RouteReconcileNext, CollectorNext, WriteGateway, InformEndpoint,
      InformGateway, PolicyEvent, IdentityChanges, IdentityEvent,
      ConfigChanges, vars, routeVars, endpointVars

\* What the theorems below rest on.
SoundState == RouteTypeOK /\ WorkerIsSound /\ HistoryIsSound

\* It holds at the start, when nothing is stored.
LEMMA SoundInit == Init => SoundState
<1> SUFFICES ASSUME Init PROVE SoundState
  OBVIOUS
<1>1. RouteTypeOK
  BY RouteTypeInit
<1>2. WorkerIsSound
  BY DEF Init, WorkerIsSound, IdleRouteWorker
<1>3. \A r \in Routes, c \in Controllers: <<r, c>> \in EndpointKeys
  BY DEF EndpointKeys
<1>4. HistoryIsSound
  BY <1>3 DEF Init, HistoryIsSound, NumbersArePast, Numbered, WritableIsSeen,
     OwnersAreSeen, Handling, IdleRouteWorker
<1> QED
  BY <1>1, <1>2, <1>4 DEF SoundState

\* Each step keeps it.
LEMMA SoundStep == SoundState /\ [Next]_vars => SoundState'
BY RouteTypeStep, HistoryStep DEF SoundState

-----------------------------------------------------------------------------
(***************************************************************************)
(* No wake-up is lost.  Reconcile is going to look at a route again, or    *)
(* the informer is going to bring a newer object of it, or the worker has  *)
(* it and works from what the informers have, or a DNSEndpoint differs     *)
(* from the informer's copy for good, or another look would change         *)
(* nothing.  The configuration has no events, which is what "unread" says. *)
(***************************************************************************)
Expected(r) == r \in routeQueue \/ (identityOwed /\ seenRoutes[r] # None)

\* The informer is going to deliver a change that nothing takes back.
Overtaken(r) == seenRoutes[r] # None /\ routes[r] # seenRoutes[r]

\* So it is with this DNSEndpoint.  One that the informer has not seen must
\* have its route's owner reference, or the garbage collector takes it back.
News(r, c) ==
    /\ endpoints[r, c] # seenEndpoints[r, c]
    /\ seenEndpoints[r, c] # None \/ endpoints[r, c].owner = LiveUID(r)

\* The worker does what plan says, and each call it has made is news.
CarriesOut(r, plan) ==
    /\ routeWorker.status = plan.status
    /\ routeWorker.calls \subseteq plan.calls
    /\ \A call \in plan.calls \ routeWorker.calls: News(r, call.controller)

OnCourse(r) ==
    /\ routeWorker.obj = seenRoutes[r]
    /\ routeWorker.pc = "apply" /\ r \notin unread =>
        \E plan: MayPlan(r, seenRoutes[r], plan) /\ CarriesOut(r, plan)

SeenStatus(r) == IF seenRoutes[r] = None THEN None ELSE seenRoutes[r].status

UpToDate(r) == MayPlan(r, seenRoutes[r], Plan({}, SeenStatus(r)))

AtRest(r) ==
    \/ r \in unread
    \/ \E c \in Controllers: News(r, c)
    \/ UpToDate(r)

RouteSettled(r) ==
    \/ Expected(r)
    \/ Overtaken(r)
    \/ Handling(r) /\ OnCourse(r)
    \/ ~Handling(r) /\ AtRest(r)

RouteInv == SoundState /\ \A r \in Routes: RouteSettled(r)

\* A step that changes none of this for r.
KeptFor(r) ==
    /\ Expected(r) => Expected(r)'
    /\ Overtaken(r) => Overtaken(r)'
    /\ seenRoutes'[r] = seenRoutes[r]
    /\ \A plan: MayPlan(r, seenRoutes[r], plan)
                => MayPlan(r, seenRoutes[r], plan)'
    /\ r \in unread => r \in unread'
    /\ \A c \in Controllers: News(r, c) => News(r, c)'
    /\ routeWorker' = routeWorker \/ (~Handling(r) /\ ~Handling(r)')

\* Such a step does no harm.
LEMMA KeptStaysSettled ==
    ASSUME SoundState, NEW r \in Routes, RouteSettled(r), KeptFor(r)
    PROVE  RouteSettled(r)'
<1>1. CASE Expected(r) \/ Overtaken(r)
  BY <1>1 DEF KeptFor, RouteSettled
<1>2. SeenStatus(r)' = SeenStatus(r)
  BY DEF KeptFor, SeenStatus
<1>3. CASE Handling(r) /\ OnCourse(r)
  <2>1. routeWorker' = routeWorker /\ Handling(r)'
    BY <1>3 DEF KeptFor, Handling
  <2>2. ASSUME routeWorker.pc = "apply", r \notin unread'
        PROVE  \E plan: /\ MayPlan(r, seenRoutes[r], plan)'
                        /\ CarriesOut(r, plan)'
    <3>1. PICK plan: MayPlan(r, seenRoutes[r], plan) /\ CarriesOut(r, plan)
      BY <1>3, <2>2 DEF OnCourse, KeptFor
    <3>2. MayPlan(r, seenRoutes[r], plan)'
      BY <3>1 DEF KeptFor
    <3>3. seenRoutes[r] \in Route \cup {None}
      BY DEF SoundState, RouteTypeOK
    <3>4. \A call \in plan.calls: call.controller \in Controllers
      BY <3>1, <3>3, MayPlanIsSound DEF SoundState, PlanIsSound, CallIsSound, Calls
    <3>5. CarriesOut(r, plan)'
      BY <2>1, <3>1, <3>4 DEF CarriesOut, KeptFor
    <3> QED
      BY <3>2, <3>5
  <2>3. OnCourse(r)'
    BY <1>3, <2>1, <2>2 DEF OnCourse, KeptFor
  <2> QED
    BY <2>1, <2>3 DEF RouteSettled
<1>4. CASE ~Handling(r) /\ AtRest(r)
  <2>1. ~Handling(r)'
    BY <1>4 DEF KeptFor, Handling
  <2>2. UpToDate(r) => UpToDate(r)'
    BY <1>2 DEF UpToDate, KeptFor
  <2>3. AtRest(r)'
    BY <1>4, <2>2 DEF AtRest, KeptFor
  <2> QED
    BY <2>1, <2>3 DEF RouteSettled
<1> QED
  BY <1>1, <1>3, <1>4 DEF RouteSettled

\* The plans for a route that is gone depend on its DNSEndpoints only.
LEMMA PlansKept ==
    ASSUME NEW r \in Routes,
           seenRoutes'[r] = seenRoutes[r],
           \A c \in Controllers: seenEndpoints'[r, c] = seenEndpoints[r, c],
           \/ seenRoutes[r] = None
           \/ /\ UNCHANGED <<policyViews, config, identity>>
              /\ seenGateways'[gatewayOf(seenRoutes[r].spec)]
                    = seenGateways[gatewayOf(seenRoutes[r].spec)]
    PROVE  \A plan: MayPlan(r, seenRoutes[r], plan)
                    => MayPlan(r, seenRoutes[r], plan)'
<1>1. SeenEndpointsOf(r)' = SeenEndpointsOf(r)
  BY DEF SeenEndpointsOf
<1>2. CASE seenRoutes[r] = None
  BY <1>1, <1>2 DEF MayPlan
<1>3. CASE /\ UNCHANGED <<policyViews, config, identity>>
           /\ seenGateways'[gatewayOf(seenRoutes[r].spec)]
                = seenGateways[gatewayOf(seenRoutes[r].spec)]
  <2>1. ListedPolicies' = ListedPolicies
    BY <1>3 DEF ListedPolicies
  <2> QED
    BY <1>1, <1>3, <2>1 DEF MayPlan
<1> QED
  BY <1>2, <1>3

\* A plan is its calls and its status.
LEMMA PlanForm ==
    ASSUME NEW r, NEW obj, NEW plan, MayPlan(r, obj, plan)
    PROVE  plan = Plan(plan.calls, plan.status)
<1>1. \A calls, status: LET p == Plan(calls, status)
                        IN  p = Plan(p.calls, p.status)
  BY DEF Plan
<1> QED
  BY <1>1 DEF MayPlan, RoutePlan, Stop

\* Each step leaves each route settled: the case of one route.
LEMMA SettledStep ==
    ASSUME SoundState, SoundState', [Next]_vars, NEW r \in Routes, RouteSettled(r)
    PROVE  RouteSettled(r)'
<1> DEFINE w == routeWorker
<1> USE DEF SoundState
<1>k. \A c \in Controllers: <<r, c>> \in EndpointKeys
  BY DEF EndpointKeys
<1>w. w.pc # "idle" => w \in BusyWorker
  BY WorkerType
<1>u. UNCHANGED <<routes, endpoints>> => LiveUID(r)' = LiveUID(r)
  BY DEF LiveUID
\* Steps that neither store anything nor touch the worker.
<1>s. ASSUME UNCHANGED <<routes, endpoints, routeWorker>>,
             seenRoutes'[r] = seenRoutes[r],
             \A c \in Controllers: seenEndpoints'[r, c] = seenEndpoints[r, c],
             \/ seenRoutes[r] = None
             \/ /\ UNCHANGED <<policyViews, config, identity>>
                /\ seenGateways'[gatewayOf(seenRoutes[r].spec)]
                      = seenGateways[gatewayOf(seenRoutes[r].spec)],
             routeQueue \subseteq routeQueue',
             seenRoutes[r] # None => identityOwed' = identityOwed,
             r \in unread => r \in unread'
      PROVE  RouteSettled(r)'
  <2>1. \A plan: MayPlan(r, seenRoutes[r], plan)
                 => MayPlan(r, seenRoutes[r], plan)'
    BY <1>s, PlansKept
  <2>2. (Expected(r) => Expected(r)') /\ (Overtaken(r) => Overtaken(r)')
    <3>1. Expected(r) => Expected(r)'
      BY <1>s DEF Expected
    <3>2. Overtaken(r) => Overtaken(r)'
      BY <1>s DEF Overtaken
    <3> QED
      BY <3>1, <3>2
  <2>3. \A c \in Controllers: News(r, c) => News(r, c)'
    BY <1>s, <1>u DEF News
  <2>4. KeptFor(r)
    BY <1>s, <2>1, <2>2, <2>3 DEF KeptFor
  <2> QED
    BY <2>4, KeptStaysSettled
\* Steps of the worker that are not about r.
<1>o. ASSUME UNCHANGED <<seenRoutes, seenEndpoints, inputVars>>,
             routes'[r] = routes[r],
             \A c \in Controllers: endpoints'[r, c] = endpoints[r, c],
             r \in routeQueue => r \in routeQueue',
             r \in unread => r \in unread',
             ~Handling(r), ~Handling(r)'
      PROVE  RouteSettled(r)'
  <2>1. \A plan: MayPlan(r, seenRoutes[r], plan)
                 => MayPlan(r, seenRoutes[r], plan)'
    BY <1>o, PlansKept DEF inputVars
  <2>2. (Expected(r) => Expected(r)') /\ (Overtaken(r) => Overtaken(r)')
    <3>1. identityOwed' = identityOwed /\ seenRoutes' = seenRoutes
      BY <1>o DEF inputVars
    <3>2. Expected(r) => Expected(r)'
      BY <1>o, <3>1 DEF Expected
    <3>3. Overtaken(r) => Overtaken(r)'
      BY <1>o, <3>1 DEF Overtaken
    <3> QED
      BY <3>2, <3>3
  <2>3. \A c \in Controllers: News(r, c) => News(r, c)'
    BY <1>o DEF News, LiveUID
  <2>4. KeptFor(r)
    BY <1>o, <2>1, <2>2, <2>3 DEF KeptFor
  <2> QED
    BY <2>4, KeptStaysSettled
\* Users' writes: the informer will deliver them, unless it does not have
\* the route at all, and then no DNSEndpoint is the route's.
<1>1. ASSUME NEW q \in Routes, NEW written,
             routes' = [routes EXCEPT ![q] = written],
             seenRoutes[q] # None => written # seenRoutes[q],
             UNCHANGED <<seenRoutes, endpointVars, inputVars, routeQueue,
                         routeWorker, unread>>
      PROVE  RouteSettled(r)'
  <2>1. \A plan: MayPlan(r, seenRoutes[r], plan)
                 => MayPlan(r, seenRoutes[r], plan)'
    BY <1>1, PlansKept DEF inputVars, endpointVars
  <2>2. routes \in [Routes -> Route \cup {None}]
    BY DEF RouteTypeOK
  <2>3. CASE q = r /\ seenRoutes[r] # None
    BY <1>1, <2>2, <2>3 DEF RouteSettled, Overtaken
  <2>4. CASE q # r \/ seenRoutes[r] = None
    <3>1. ASSUME NEW c \in Controllers, News(r, c) PROVE News(r, c)'
      <4>1. CASE seenEndpoints[r, c] # None
        BY <1>1, <3>1, <4>1 DEF News, endpointVars
      <4>2. CASE seenEndpoints[r, c] = None /\ q # r
        BY <1>1, <2>2, <3>1, <4>2 DEF News, LiveUID, endpointVars
      <4>3. CASE seenEndpoints[r, c] = None /\ q = r
        <5>1. endpoints[r, c] # None /\ endpoints[r, c].owner = LiveUID(r)
          BY <3>1, <4>3 DEF News
        <5>2. endpoints[r, c] \in Endpoint
          BY <1>k, <5>1 DEF RouteTypeOK
        <5>3. endpoints[r, c].owner # 0
          BY <5>2, OwnerIsSome
        <5>4. routes[r] # None
          BY <5>1, <5>3 DEF LiveUID
        <5> QED
          BY <2>4, <4>3, <5>1, <5>4 DEF LiveUID, HistoryIsSound, OwnersAreSeen
      <4> QED
        BY <4>1, <4>2, <4>3
    <3>2. (Expected(r) => Expected(r)') /\ (Overtaken(r) => Overtaken(r)')
      BY <1>1, <2>2, <2>4 DEF Expected, Overtaken, inputVars
    <3>3. KeptFor(r)
      BY <1>1, <2>1, <3>1, <3>2 DEF KeptFor
    <3> QED
      BY <3>3, KeptStaysSettled
  <2> QED
    BY <2>3, <2>4
<1>2. ASSUME NEW q \in Routes, CreateRoute(q) \/ EditRoute(q)
      PROVE  RouteSettled(r)'
  <2>1. PICK obj \in Route: WriteRoute(q, obj) /\ obj.rev = routeEdits + 1
    BY <1>2, WriteIsNew
  <2>2. obj # seenRoutes[q]
    <3>1. routeEdits \in Nat
      BY RouteInputs DEF RouteTypeOK
    <3>2. seenRoutes[q] # None => seenRoutes[q].rev <= routeEdits
      BY DEF HistoryIsSound, NumbersArePast, Numbered
    <3> QED
      BY <2>1, <3>1, <3>2, NoneIsNoObject DEF Route
  <2> QED
    BY <1>1, <2>1, <2>2 DEF WriteRoute
<1>3. ASSUME NEW q \in Routes, DeleteRoute(q) PROVE RouteSettled(r)'
  BY <1>1, <1>3 DEF DeleteRoute
<1>4. ASSUME NEW g \in GatewayKeys, WriteGateway(g) PROVE RouteSettled(r)'
  <2>1. UNCHANGED <<routes, seenRoutes, endpoints, seenEndpoints, seenGateways,
                    policyViews, identity, identityOwed, config, routeQueue,
                    routeWorker, unread>>
    BY <1>4 DEF WriteGateway, routeVars, endpointVars
  <2> QED
    BY <1>s, <2>1
\* What the informers bring.
<1>5. ASSUME NEW q \in Routes, InformRoute(q) PROVE RouteSettled(r)'
  <2>1. /\ seenRoutes' = [seenRoutes EXCEPT ![q] = routes[q]]
        /\ seenRoutes \in [Routes -> Route \cup {None}]
        /\ routeQueue' = routeQueue \cup {q}
        /\ UNCHANGED <<routes, endpoints, seenEndpoints, gateways, seenGateways,
                       policyViews, identity, identityOwed, config, routeWorker,
                       unread>>
    BY <1>5 DEF InformRoute, RouteTypeOK, Enqueue, endpointVars, inputVars
  <2>2. CASE q = r
    BY <2>1, <2>2 DEF RouteSettled, Expected
  <2>3. CASE q # r
    BY <1>s, <2>1, <2>3
  <2> QED
    BY <2>2, <2>3
<1>6. ASSUME NEW q \in Routes, NEW c \in Controllers, InformEndpoint(q, c)
      PROVE  RouteSettled(r)'
  <2>1. /\ seenEndpoints' = [seenEndpoints EXCEPT ![<<q, c>>] = endpoints[q, c]]
        /\ seenEndpoints \in [EndpointKeys -> Endpoint \cup {None}]
        /\ routeQueue' = routeQueue \cup {q}
        /\ UNCHANGED <<routes, seenRoutes, endpoints, gateways, seenGateways,
                       policyViews, identity, identityOwed, config, routeWorker,
                       unread>>
    BY <1>6 DEF InformEndpoint, RouteTypeOK, Enqueue, routeVars, inputVars
  <2>2. CASE q = r
    BY <2>1, <2>2 DEF RouteSettled, Expected
  <2>3. CASE q # r
    <3>1. \A d \in Controllers: seenEndpoints'[r, d] = seenEndpoints[r, d]
      BY <1>k, <2>1, <2>3
    <3> QED
      BY <1>s, <2>1, <3>1
  <2> QED
    BY <2>2, <2>3
<1>7. ASSUME NEW g \in GatewayKeys, InformGateway(g) PROVE RouteSettled(r)'
  <2>1. /\ seenGateways' = [seenGateways EXCEPT ![g] = gateways[g]]
        /\ seenGateways \in [GatewayKeys -> Postfixes \cup {None}]
        /\ routeQueue' = routeQueue \cup mapGatewayToServiceRoutes(g)
        /\ UNCHANGED <<routes, seenRoutes, endpoints, seenEndpoints,
                       policyViews, identity, identityOwed, config, routeWorker,
                       unread>>
    BY <1>7 DEF InformGateway, RouteTypeOK, Enqueue, routeVars, endpointVars
  <2>2. CASE seenRoutes[r] # None /\ gatewayOf(seenRoutes[r].spec) = g
    BY <2>1, <2>2 DEF RouteSettled, Expected, mapGatewayToServiceRoutes,
       ListedRoutes
  <2>3. CASE seenRoutes[r] = None \/ gatewayOf(seenRoutes[r].spec) # g
    <3>1. seenRoutes[r] # None =>
            seenGateways'[gatewayOf(seenRoutes[r].spec)]
                = seenGateways[gatewayOf(seenRoutes[r].spec)]
      <4>1. seenRoutes[r] # None => gatewayOf(seenRoutes[r].spec) \in GatewayKeys
        BY GatewayOfRoute DEF RouteTypeOK
      <4> QED
        BY <2>1, <2>3, <4>1
    <3> QED
      BY <1>s, <2>1, <3>1
  <2> QED
    BY <2>2, <2>3
\* The routes that the informer has are looked at again after a change of a
\* policy or of the identity; the plans for the others do not depend on it.
<1>8. CASE PolicyEvent \/ IdentityChanges \/ IdentityEvent
  <2>1. UNCHANGED <<routes, seenRoutes, endpoints, seenEndpoints, routeWorker,
                    unread>>
    BY <1>8 DEF PolicyEvent, IdentityChanges, IdentityEvent, routeVars,
       endpointVars
  <2>2. routeQueue \subseteq routeQueue'
    BY <1>8 DEF PolicyEvent, IdentityChanges, IdentityEvent, Enqueue
  <2>3. CASE seenRoutes[r] # None
    <3>1. r \in routeQueue' \/ identityOwed'
      BY <1>8, <2>3 DEF PolicyEvent, IdentityChanges, IdentityEvent, Enqueue,
         ListedRoutes
    <3> QED
      BY <2>1, <2>3, <3>1 DEF RouteSettled, Expected
  <2>4. CASE seenRoutes[r] = None
    BY <1>s, <2>1, <2>2, <2>4
  <2> QED
    BY <2>3, <2>4
\* The one change that nothing tells of.
<1>9. CASE ConfigChanges
  <2>1. /\ unread' = Routes
        /\ UNCHANGED <<routes, seenRoutes, endpoints, seenEndpoints, routeQueue,
                       routeWorker, identityOwed>>
    BY <1>9 DEF ConfigChanges, routeVars, endpointVars
  <2>2. Handling(r)' = Handling(r)
    BY <2>1 DEF Handling
  <2>3. CASE Handling(r)
    BY <2>1, <2>2, <2>3 DEF RouteSettled, Expected, Overtaken, OnCourse
  <2>4. CASE ~Handling(r)
    BY <2>1, <2>2, <2>4 DEF RouteSettled, AtRest
  <2> QED
    BY <2>3, <2>4
\* The garbage collector takes nothing that is a route's own.
<1>10. ASSUME NEW q \in Routes, NEW d \in Controllers, CollectEndpoint(q, d)
       PROVE  RouteSettled(r)'
  <2>1. /\ Orphaned(q, d)
        /\ endpoints' = [endpoints EXCEPT ![<<q, d>>] = None]
        /\ endpoints \in [EndpointKeys -> Endpoint \cup {None}]
        /\ UNCHANGED <<routes, seenRoutes, seenEndpoints, inputVars, routeQueue,
                       routeWorker, unread>>
    BY <1>10 DEF CollectEndpoint, RouteTypeOK, routeVars
  <2>2. ASSUME NEW c \in Controllers, News(r, c) PROVE News(r, c)'
    <3>1. LiveUID(r)' = LiveUID(r)
      BY <2>1 DEF LiveUID
    <3>2. CASE r = q /\ c = d
      <4>1. endpoints[r, c] # None /\ endpoints[r, c].owner # LiveUID(r)
        BY <2>1, <3>2 DEF Orphaned
      <4>2. seenEndpoints[r, c] # None
        BY <2>2, <4>1 DEF News
      <4>3. endpoints'[r, c] = None
        BY <1>k, <2>1, <3>2
      <4> QED
        BY <2>1, <4>2, <4>3 DEF News
    <3>3. CASE ~(r = q /\ c = d)
      <4>1. endpoints'[r, c] = endpoints[r, c]
        BY <1>k, <2>1, <3>3
      <4> QED
        BY <2>1, <2>2, <3>1, <4>1 DEF News
    <3> QED
      BY <3>2, <3>3
  <2>3. \A plan: MayPlan(r, seenRoutes[r], plan)
                 => MayPlan(r, seenRoutes[r], plan)'
    BY <2>1, PlansKept DEF inputVars
  <2>4. KeptFor(r)
    BY <2>1, <2>2, <2>3 DEF KeptFor, Expected, Overtaken, inputVars
  <2> QED
    BY <2>4, KeptStaysSettled
\* The worker.
<1>11. ASSUME NEW q \in Routes, StartRoute(q) PROVE RouteSettled(r)'
  <2>1. /\ w.pc = "idle"
        /\ w'.pc = "gather" /\ w'.key = q /\ w'.obj = seenRoutes[q]
        /\ routeQueue' = routeQueue \ {q}
        /\ UNCHANGED <<routes, seenRoutes, endpoints, seenEndpoints, inputVars,
                       unread>>
    BY <1>11 DEF StartRoute, IdleRouteWorker, routeVars, endpointVars
  <2>2. CASE q = r
    BY <2>1, <2>2 DEF RouteSettled, Handling, OnCourse
  <2>3. CASE q # r
    BY <1>o, <2>1, <2>3 DEF Handling
  <2> QED
    BY <2>2, <2>3
<1>12. CASE Gather
  <2>1. w \in BusyWorker /\ w.pc = "gather"
    BY <1>12, <1>w DEF Gather
  <2>2. PICK plan: /\ MayPlan(w.key, w.obj, plan)
                   /\ w' = [w EXCEPT !.pc = "apply", !.calls = plan.calls,
                                     !.status = plan.status]
    BY <1>12, GatherIsSound
  <2>3. w'.pc = "apply" /\ w'.key = w.key /\ w'.obj = w.obj
        /\ w'.calls = plan.calls /\ w'.status = plan.status
    BY <2>1, <2>2 DEF BusyWorker
  <2>4. /\ unread' = unread \ {w.key}
        /\ UNCHANGED <<routes, seenRoutes, endpoints, seenEndpoints, inputVars,
                       routeQueue>>
    BY <1>12 DEF Gather, routeVars, endpointVars
  <2>5. CASE w.key # r
    BY <1>o, <2>3, <2>4, <2>5 DEF Handling
  <2>6. CASE w.key = r
    <3>1. Handling(r) /\ Handling(r)'
      BY <2>1, <2>3, <2>6 DEF Handling
    <3>2. CASE Expected(r) \/ Overtaken(r)
      BY <2>4, <3>2 DEF RouteSettled, Expected, Overtaken, inputVars
    <3>3. CASE OnCourse(r)
      <4>1. w.obj = seenRoutes[r]
        BY <3>3 DEF OnCourse
      <4>2. MayPlan(r, seenRoutes[r], plan)'
        BY <2>2, <2>4, <2>6, <4>1, PlansKept DEF inputVars
      <4>3. CarriesOut(r, plan)'
        BY <2>3 DEF CarriesOut
      <4> QED
        BY <2>3, <2>4, <3>1, <4>1, <4>2, <4>3 DEF RouteSettled, OnCourse
    <3> QED
      BY <3>1, <3>2, <3>3 DEF RouteSettled
  <2> QED
    BY <2>5, <2>6
<1>13. CASE ApplyCall
  <2>1. PICK call \in w.calls:
          LET k == <<w.key, call.controller>> IN
          /\ NextCall(call)
          /\ Accepted(call, endpoints[k])
          /\ endpoints' = [endpoints EXCEPT ![k] = Written(call, endpoints[k])]
          /\ w' = [w EXCEPT !.calls = @ \ {call}]
          /\ UNCHANGED <<routes, seenRoutes, seenEndpoints, inputVars,
                         routeQueue, unread>>
    BY <1>13 DEF ApplyCall, routeVars
  <2> DEFINE k == <<w.key, call.controller>>
  <2>2. w \in BusyWorker /\ w.pc = "apply"
    BY <1>w, <2>1 DEF NextCall
  <2>3. call \in Calls /\ k \in EndpointKeys
    BY <2>1, <2>2 DEF BusyWorker, Calls, EndpointKeys
  <2>4. /\ w'.pc = "apply" /\ w'.key = w.key /\ w'.obj = w.obj
        /\ w'.calls = w.calls \ {call} /\ w'.status = w.status
    BY <2>1, <2>2 DEF BusyWorker
  <2>5. /\ endpoints'[k] = Written(call, endpoints[k])
        /\ \A q \in EndpointKeys: q # k => endpoints'[q] = endpoints[q]
    BY <2>1, <2>3 DEF RouteTypeOK
  <2>6. CASE w.key # r
    <3>1. \A c \in Controllers: endpoints'[r, c] = endpoints[r, c]
      BY <1>k, <2>5, <2>6
    <3> QED
      BY <1>o, <2>1, <2>4, <2>6, <3>1 DEF Handling
  <2>7. CASE w.key = r
    <3>1. Handling(r) /\ Handling(r)'
      BY <2>2, <2>4, <2>7 DEF Handling
    <3>2. CASE Expected(r) \/ Overtaken(r)
      BY <2>1, <3>2 DEF RouteSettled, Expected, Overtaken, inputVars
    <3>3. CASE OnCourse(r) /\ ~Overtaken(r)
      <4>1. w.obj = seenRoutes[r] /\ w'.obj = seenRoutes'[r]
        BY <2>1, <2>4, <3>3 DEF OnCourse
      <4>2. CASE r \in unread
        BY <2>1, <3>1, <4>1, <4>2 DEF RouteSettled, OnCourse
      <4>3. CASE r \notin unread
        <5>1. PICK plan: MayPlan(r, seenRoutes[r], plan) /\ CarriesOut(r, plan)
          BY <2>2, <3>3, <4>3 DEF OnCourse
        <5>2. PlanIsSound(plan, seenRoutes[r], SeenEndpointsOf(r))
          <6>1. seenRoutes[r] \in Route \cup {None}
            BY DEF RouteTypeOK
          <6> QED
            BY <5>1, <6>1, MayPlanIsSound
        <5>3. call \in plan.calls
          BY <2>1, <5>1 DEF CarriesOut
        <5>4. MayPlan(r, seenRoutes[r], plan)'
          BY <2>1, <5>1, PlansKept DEF inputVars
        <5>5. News(r, call.controller)'
          <6> DEFINE c == call.controller
          <6>1. /\ c \in Controllers /\ call.old = seenEndpoints[r, c]
                /\ seenEndpoints'[r, c] = seenEndpoints[r, c]
                /\ endpoints[k] \in Endpoint \cup {None}
            BY <2>1, <2>3, <5>2, <5>3, SeenEndpointsType
            DEF PlanIsSound, CallIsSound, Calls, RouteTypeOK
          <6>2. endpoints'[r, c] = Written(call, endpoints[k])
            BY <2>5, <2>7
          <6>3. /\ call.old # None \/ call.new # None
                /\ call.new # None =>
                    seenRoutes[r] # None /\ call.new.owner = seenRoutes[r].born
                /\ None \notin {call.old, call.new}
                    => endpointSpec(call.old) # endpointSpec(call.new)
            BY <5>2, <5>3 DEF PlanIsSound, CallIsSound
          <6>4. CASE call.old = None
            <7>1. endpoints'[r, c] = call.new
              BY <2>1, <2>3, <6>1, <6>2, <6>4, WrittenType
            <7>2. routes[r] = seenRoutes[r]
              BY <3>3, <6>3, <6>4 DEF Overtaken
            <7>3. LiveUID(r)' = call.new.owner
              BY <2>1, <6>3, <6>4, <7>2 DEF LiveUID
            <7> QED
              BY <6>1, <6>3, <6>4, <7>1, <7>3 DEF News
          <6>5. CASE call.old # None /\ call.new = None
            <7>1. endpoints'[r, c] = None
              BY <2>1, <2>3, <6>1, <6>2, <6>5, WrittenType
            <7> QED
              BY <6>1, <6>5, <7>1 DEF News
          <6>6. CASE None \notin {call.old, call.new}
            <7>1. endpointSpec(endpoints'[r, c]) = endpointSpec(call.new)
              BY <2>1, <2>3, <6>1, <6>2, <6>6, WrittenType
            <7>2. endpoints'[r, c] # call.old
              BY <6>3, <6>6, <7>1
            <7> QED
              BY <6>1, <6>6, <7>2 DEF News
          <6> QED
            BY <6>4, <6>5, <6>6
        <5>6. ASSUME NEW other \in plan.calls \ w'.calls
              PROVE  News(r, other.controller)'
          <6>1. CASE other = call
            BY <5>5, <6>1
          <6>2. CASE other # call
            <7>1. /\ other \in plan.calls \ w.calls
                  /\ other.controller # call.controller
                  /\ other.controller \in Controllers
              BY <2>4, <5>2, <5>3, <6>2 DEF PlanIsSound, CallIsSound, Calls
            <7>2. News(r, other.controller)
              BY <5>1, <7>1 DEF CarriesOut
            <7>3. endpoints'[r, other.controller] = endpoints[r, other.controller]
              BY <1>k, <2>5, <7>1
            <7> QED
              BY <2>1, <7>2, <7>3 DEF News, LiveUID
          <6> QED
            BY <6>1, <6>2
        <5>7. CarriesOut(r, plan)'
          BY <2>4, <5>1, <5>6 DEF CarriesOut
        <5> QED
          BY <3>1, <4>1, <5>4, <5>7 DEF RouteSettled, OnCourse
      <4> QED
        BY <4>2, <4>3
    <3> QED
      BY <3>1, <3>2, <3>3 DEF RouteSettled
  <2> QED
    BY <2>6, <2>7
<1>14. CASE CallRefused \/ RouteConflict \/ RouteError
  <2>1. /\ w.pc = "apply"
        /\ routeQueue' = routeQueue \cup {w.key}
        /\ w'.pc = "idle"
        /\ UNCHANGED <<routes, seenRoutes, endpoints, seenEndpoints, inputVars,
                       unread>>
    <3>1. RequeueRoute
      BY <1>14 DEF CallRefused, RouteConflict, RouteError
    <3>2. w.pc = "apply"
      BY <1>14 DEF CallRefused, RouteConflict, RouteError, NextCall, Applied
    <3> QED
      BY <3>1, <3>2 DEF RequeueRoute, Enqueue, IdleRouteWorker, routeVars,
         endpointVars
  <2>2. CASE w.key = r
    BY <2>1, <2>2 DEF RouteSettled, Expected
  <2>3. CASE w.key # r
    BY <1>o, <2>1, <2>3 DEF Handling
  <2> QED
    BY <2>2, <2>3
\* A worker on course that has made its calls leaves the route at rest.
<1>15. ASSUME w.pc = "apply", w.calls = {}, w.key = r, OnCourse(r),
              SeenStatus(r) = w.status
       PROVE  AtRest(r)
  <2>1. CASE r \in unread
    BY <2>1 DEF AtRest
  <2>2. CASE r \notin unread
    <3>1. PICK plan: MayPlan(r, seenRoutes[r], plan) /\ CarriesOut(r, plan)
      BY <1>15, <2>2 DEF OnCourse
    <3>2. PlanIsSound(plan, seenRoutes[r], SeenEndpointsOf(r))
      <4>1. seenRoutes[r] \in Route \cup {None}
        BY DEF RouteTypeOK
      <4> QED
        BY <3>1, <4>1, MayPlanIsSound
    <3>3. CASE plan.calls = {}
      <4>1. plan = Plan({}, SeenStatus(r))
        BY <1>15, <3>1, <3>3, PlanForm DEF CarriesOut
      <4> QED
        BY <3>1, <4>1 DEF AtRest, UpToDate
    <3>4. CASE plan.calls # {}
      <4>1. PICK call \in plan.calls: call.controller \in Controllers
        BY <3>2, <3>4 DEF PlanIsSound, CallIsSound, Calls
      <4>2. News(r, call.controller)
        BY <1>15, <3>1, <4>1 DEF CarriesOut
      <4> QED
        BY <4>1, <4>2 DEF AtRest
    <3> QED
      BY <3>3, <3>4
  <2> QED
    BY <2>1, <2>2
\* And so it stays if the status update changes nothing.
<1>16. ASSUME w.pc = "apply", w.calls = {}, w.key = r, SeenStatus(r) = w.status,
              w'.pc = "idle",
              UNCHANGED <<routes, seenRoutes, endpoints, seenEndpoints,
                          inputVars, routeQueue, unread>>
       PROVE  RouteSettled(r)'
  <2>1. Handling(r) /\ ~Handling(r)'
    BY <1>16 DEF Handling
  <2>2. CASE Expected(r) \/ Overtaken(r)
    BY <1>16, <2>2 DEF RouteSettled, Expected, Overtaken, inputVars
  <2>3. CASE OnCourse(r)
    <3>1. AtRest(r)
      BY <1>15, <1>16, <2>3
    <3>2. UpToDate(r) => UpToDate(r)'
      BY <1>16, PlansKept DEF UpToDate, SeenStatus, inputVars
    <3>3. \A c \in Controllers: News(r, c) => News(r, c)'
      BY <1>16, <1>u DEF News
    <3> QED
      BY <1>16, <2>1, <3>1, <3>2, <3>3 DEF RouteSettled, AtRest
  <2> QED
    BY <2>1, <2>2, <2>3 DEF RouteSettled
<1>17. CASE FinishDeleted
  <2>1. /\ w.pc = "apply" /\ w.calls = {} /\ w.obj = None /\ w'.pc = "idle"
        /\ UNCHANGED <<routes, seenRoutes, endpoints, seenEndpoints, inputVars,
                       routeQueue, unread>>
    BY <1>17 DEF FinishDeleted, Applied, IdleRouteWorker, routeVars, endpointVars
  <2>2. CASE w.key # r
    BY <1>o, <2>1, <2>2 DEF Handling
  <2>3. CASE w.key = r
    <3>1. Handling(r) /\ ~Handling(r)'
      BY <2>1, <2>3 DEF Handling
    <3>2. CASE Expected(r) \/ Overtaken(r)
      BY <2>1, <3>2 DEF RouteSettled, Expected, Overtaken, inputVars
    <3>3. CASE OnCourse(r)
      <4>1. SeenStatus(r) = w.status \/ r \in unread
        <5>1. seenRoutes[r] = None
          BY <2>1, <3>3 DEF OnCourse
        <5>2. ASSUME r \notin unread PROVE w.status = None
          <6>1. PICK plan: MayPlan(r, seenRoutes[r], plan) /\ CarriesOut(r, plan)
            BY <2>1, <3>3, <5>2 DEF OnCourse
          <6> QED
            BY <5>1, <6>1 DEF MayPlan, Plan, CarriesOut
        <5> QED
          BY <5>1, <5>2 DEF SeenStatus
      <4>2. CASE SeenStatus(r) = w.status
        BY <1>16, <2>1, <2>3, <4>2
      <4>3. CASE r \in unread
        BY <2>1, <3>1, <4>3 DEF RouteSettled, AtRest
      <4> QED
        BY <4>1, <4>2, <4>3
    <3> QED
      BY <3>1, <3>2, <3>3 DEF RouteSettled
  <2> QED
    BY <2>2, <2>3
\* A status that is new is a change that the informer is going to deliver.
<1>18. CASE UpdateRouteStatus
  <2>1. /\ w.pc = "apply" /\ w.calls = {} /\ w.obj # None
        /\ routes[w.key] = w.obj /\ w'.pc = "idle"
        /\ routes' = [routes EXCEPT ![w.key] = [w.obj EXCEPT !.status = w.status]]
        /\ UNCHANGED <<seenRoutes, endpoints, seenEndpoints, inputVars,
                       routeQueue, unread>>
    BY <1>18 DEF UpdateRouteStatus, Applied, IdleRouteWorker, endpointVars
  <2>2. w \in BusyWorker /\ routes \in [Routes -> Route \cup {None}]
    BY <1>w, <2>1 DEF RouteTypeOK
  <2>3. w.obj \in Route /\ w.key \in Routes
    BY <2>1, <2>2 DEF BusyWorker
  <2>4. CASE w.key # r
    BY <1>o, <2>1, <2>2, <2>4 DEF Handling
  <2>5. CASE w.key = r
    <3>1. seenRoutes[r] = w.obj
      BY <2>1, <2>5 DEF HistoryIsSound, WritableIsSeen, Handling
    <3>2. CASE w.status = w.obj.status
      <4>1. [w.obj EXCEPT !.status = w.status] = w.obj
        BY <2>3, <3>2 DEF Route
      <4>2. routes' = routes
        BY <2>1, <2>2, <4>1
      <4>3. SeenStatus(r) = w.status
        BY <2>1, <3>1, <3>2 DEF SeenStatus
      <4> QED
        BY <1>16, <2>1, <2>5, <4>2, <4>3
    <3>3. CASE w.status # w.obj.status
      <4>1. [w.obj EXCEPT !.status = w.status] # w.obj
        BY <2>3, <3>3 DEF Route
      <4>2. routes'[r] # seenRoutes'[r] /\ seenRoutes'[r] # None
        BY <2>1, <2>2, <2>5, <3>1, <4>1
      <4> QED
        BY <4>2 DEF RouteSettled, Overtaken
    <3> QED
      BY <3>2, <3>3
  <2> QED
    BY <2>4, <2>5
<1>19. CASE Restart
  BY <1>19 DEF Restart, IdleRouteWorker, RouteSettled, Handling, AtRest
<1>20. CASE UNCHANGED vars
  BY <1>s, <1>20 DEF vars
<1> QED
  BY <1>2, <1>3, <1>4, <1>5, <1>6, <1>7, <1>8, <1>9, <1>10, <1>11, <1>12, <1>13,
     <1>14, <1>17, <1>18, <1>19, <1>20
  DEF Next, SystemNext, Disturbance, UserNext, RouteInformerNext,
      RouteReconcileNext, CollectorNext

\* At the start there is nothing to be done for any route.
LEMMA RouteInvInit == Init => RouteInv
<1> SUFFICES ASSUME Init PROVE RouteInv
  OBVIOUS
<1>1. SoundState
  BY SoundInit
<1>2. ASSUME NEW r \in Routes PROVE RouteSettled(r)
  <2>1. ~Handling(r)
    BY DEF Init, Handling, IdleRouteWorker
  <2>2. seenRoutes[r] = None
    BY DEF Init
  <2>3. \A c \in Controllers: SeenEndpointsOf(r)[c] = None
    BY DEF Init, SeenEndpointsOf, EndpointKeys
  <2>4. Deletions(SeenEndpointsOf(r)) = {}
    BY <2>3 DEF Deletions
  <2>5. UpToDate(r)
    BY <2>2, <2>4 DEF UpToDate, MayPlan, SeenStatus
  <2> QED
    BY <2>1, <2>5 DEF RouteSettled, AtRest
<1> QED
  BY <1>1, <1>2 DEF RouteInv

\* Each step keeps every route settled.
LEMMA RouteInvStep == RouteInv /\ [Next]_vars => RouteInv'
<1> SUFFICES ASSUME RouteInv, [Next]_vars PROVE RouteInv'
  OBVIOUS
<1>1. SoundState /\ SoundState'
  BY SoundStep DEF RouteInv
<1>2. ASSUME NEW r \in Routes PROVE RouteSettled(r)'
  BY <1>1, SettledStep DEF RouteInv
<1> QED
  BY <1>1, <1>2 DEF RouteInv

\* No wake-up is lost, in any reachable state.
THEOREM RouteInvariant == Spec => []RouteInv
<1> QED
  BY RouteInvInit, RouteInvStep, PTL DEF Spec

-----------------------------------------------------------------------------
(***************************************************************************)
(* What follows from it when nothing is left to be done or to be told.     *)
(***************************************************************************)
\* The informers have what there is, and nobody's turn is due: another look
\* at the route would change nothing.
LEMMA QuiescentIsUpToDate ==
    ASSUME RouteInv, RouteQuiescent, NEW r \in Routes \ unread
    PROVE  UpToDate(r) /\ SeenEndpointsOf(r) = EndpointsOf(r)
<1>1. ~Expected(r) /\ ~Overtaken(r) /\ ~Handling(r)
  BY DEF RouteQuiescent, Expected, Overtaken, Handling, IdleRouteWorker
<1>2. \A c \in Controllers: ~News(r, c)
  BY DEF RouteQuiescent, News
<1>3. SeenEndpointsOf(r) = EndpointsOf(r)
  BY DEF RouteQuiescent, SeenEndpointsOf, EndpointsOf
<1> QED
  BY <1>1, <1>2, <1>3 DEF RouteInv, RouteSettled, AtRest

\* So each route is as its inputs call for, and one that is gone has nothing.
LEMMA QuiescentIsCurrent == RouteInv => RestIsCurrent
<1> SUFFICES ASSUME RouteInv, RouteQuiescent, NEW r \in Routes \ unread
             PROVE  RouteCurrent(r)
  BY DEF RestIsCurrent
<1>1. UpToDate(r) /\ SeenEndpointsOf(r) = EndpointsOf(r)
  BY QuiescentIsUpToDate
<1>2. seenRoutes = routes /\ seenGateways = gateways
  BY DEF RouteQuiescent
<1>3. CASE routes[r] = None
  <2>1. Deletions(EndpointsOf(r)) = {}
    BY <1>1, <1>2, <1>3 DEF UpToDate, MayPlan, SeenStatus, Plan
  <2>2. EndpointsOf(r) \in [Controllers -> Endpoint \cup {None}]
    BY <1>1, SeenEndpointsType DEF RouteInv, SoundState
  <2>3. \A c \in Controllers: EndpointsOf(r)[c] = None
    BY <2>1, <2>2, DeletionsAreSound
  <2>4. Published(r) = {}
    BY <2>3 DEF EndpointsOf, Published
  <2> QED
    BY <1>3, <2>4 DEF RouteCurrent
<1>4. CASE routes[r] # None
  <2>1. PICK policy \in ListedPolicies:
          Plan({}, routes[r].status)
            = RoutePlan(routes[r], EndpointsOf(r), policy, config,
                        gateways[gatewayOf(routes[r].spec)], identity)
    BY <1>1, <1>2, <1>4 DEF UpToDate, MayPlan, SeenStatus
  <2> QED
    BY <1>4, <2>1 DEF RouteCurrent
<1> QED
  BY <1>3, <1>4

\* At rest the DNSEndpoints and the status of each route are what its inputs
\* call for, for every route that was reconciled since the configuration last
\* changed.
THEOREM RoutesRestCurrent == Spec => []RestIsCurrent
BY RouteInvariant, QuiescentIsCurrent, PTL

\* When there is nothing to create, patch or delete, and something is wanted,
\* then what is wanted is there, and as wanted, and nothing else is.
LEMMA NothingToChange ==
    ASSUME NEW existing \in [Controllers -> Endpoint \cup {None}],
           NEW wanted, NEW obj, AreBuilt(wanted, obj), DOMAIN wanted # {},
           Changes(existing, wanted) = {}
    PROVE  /\ \A c \in DOMAIN wanted:
                /\ existing[c] # None
                /\ endpointSpec(existing[c]) = endpointSpec(wanted[c])
           /\ \A c \in Controllers \ DOMAIN wanted: existing[c] = None
<1>1. [c \in Controllers |->
        IF DOMAIN wanted = {} THEN None ELSE existing[c]] = existing
  OBVIOUS
<1>2. /\ {Call(c, existing[c], wanted[c]) :
            c \in {c \in DOMAIN wanted :
                    existing[c] = None
                    \/ endpointSpec(existing[c]) # endpointSpec(wanted[c])}}
          = {}
      /\ {call \in Deletions(existing) : call.controller \notin DOMAIN wanted}
          = {}
  BY <1>1 DEF Changes
<1>3. \A c \in Controllers \ DOMAIN wanted: existing[c] = None
  <2>1. \A c \in Controllers: existing[c] # None =>
          Call(c, existing[c], None) \in Deletions(existing)
    BY DeletionsAreSound
  <2>2. \A c \in Controllers: Call(c, existing[c], None).controller = c
    BY DEF Call
  <2> QED
    BY <1>2, <2>1, <2>2
<1> QED
  BY <1>2, <1>3

\* The plan for r under policy is to change nothing.
SatisfiedUnder(r, policy) ==
    RoutePlan(routes[r], EndpointsOf(r), policy, config,
              gateways[gatewayOf(routes[r].spec)], identity)
    = Plan({}, routes[r].status)

\* Under an inactive policy it is the plan to delete everything that changes
\* nothing, so there is nothing.
LEMMA SatisfiedIsSilent ==
    ASSUME RouteInv, RouteQuiescent, NEW r \in Routes \ unread,
           routes[r].spec.host # Unset,
           NEW policy, policy # None, ~policy.active, SatisfiedUnder(r, policy)
    PROVE  Published(r) = {}
<1>1. Deletions(EndpointsOf(r)) = {}
  BY DEF SatisfiedUnder, RoutePlan, Plan
<1>2. EndpointsOf(r) \in [Controllers -> Endpoint \cup {None}]
  BY QuiescentIsUpToDate, SeenEndpointsType DEF RouteInv, SoundState
<1> QED
  BY <1>1, <1>2, DeletionsAreSound DEF EndpointsOf, Published

\* Under an active policy it is the plan to publish what is wanted: if that
\* is something, it is there, and as wanted, and nothing else is.
LEMMA SatisfiedIsPublished ==
    ASSUME RouteInv, RouteQuiescent, NEW r \in Routes \ unread,
           routes[r] # None, routes[r].spec.host # Unset,
           config # None, identity # None,
           gateways[gatewayOf(routes[r].spec)] # None,
           NEW policy \in ListedPolicies, policy # None, policy.active,
           policy.controllers # {}, SatisfiedUnder(r, policy),
           DOMAIN Wanted(r, policy) # {}
    PROVE  LET wanted == Wanted(r, policy) IN
           /\ Published(r) = DOMAIN wanted
           /\ \A c \in DOMAIN wanted:
                /\ endpointSpec(endpoints[r, c]) = endpointSpec(wanted[c])
                /\ endpoints[r, c].owner = LiveUID(r)
<1> DEFINE obj == routes[r]
           existing == EndpointsOf(r)
           postfix == gateways[gatewayOf(obj.spec)]
           wanted == Wanted(r, policy)
<1>1. Changes(existing, wanted) = {}
  BY DEF SatisfiedUnder, RoutePlan, Plan, Wanted
<1>2. obj \in Route
  BY DEF RouteInv, SoundState, RouteTypeOK
<1>3. policy.controllers \in SUBSET Controllers
  BY ListedPoliciesType, RouteInputs DEF RouteInv, SoundState
<1>4. config \in Configs /\ identity \in Identities /\ postfix \in Postfixes
  BY <1>2, GatewayOfRoute DEF RouteInv, SoundState, RouteTypeOK
<1>5. AreBuilt(wanted, obj)
  BY <1>2, <1>3, <1>4, BuiltIsSound DEF Wanted
<1>6. existing \in [Controllers -> Endpoint \cup {None}]
  BY QuiescentIsUpToDate, SeenEndpointsType DEF RouteInv, SoundState
<1> HIDE DEF wanted, existing, obj, postfix
<1>7. /\ \A c \in DOMAIN wanted:
            /\ existing[c] # None
            /\ endpointSpec(existing[c]) = endpointSpec(wanted[c])
      /\ \A c \in Controllers \ DOMAIN wanted: existing[c] = None
  BY <1>1, <1>5, <1>6, NothingToChange DEF wanted
<1>8. \A c \in Controllers: existing[c] = endpoints[r, c]
  BY DEF existing, EndpointsOf
<1>9. Published(r) = DOMAIN wanted
  BY <1>5, <1>7, <1>8 DEF Published, AreBuilt
<1>10. \A c \in Controllers:
        endpoints[r, c] # None => endpoints[r, c].owner = LiveUID(r)
  BY DEF RouteQuiescent, Orphaned
<1> QED
  BY <1>5, <1>7, <1>8, <1>9, <1>10 DEF wanted, AreBuilt

\* Some policy it may pick satisfies each route that rests.
LEMMA QuiescentIsSatisfied ==
    ASSUME RouteInv, RouteQuiescent, NEW r \in Routes \ unread, routes[r] # None
    PROVE  \E policy \in ListedPolicies: SatisfiedUnder(r, policy)
BY QuiescentIsCurrent DEF RestIsCurrent, RouteCurrent, SatisfiedUnder

\* When all of them are inactive, so is the one that satisfies it.
LEMMA QuiescentIsSilent == RouteInv => InactivePublishesNothing
<1>1. ASSUME RouteInv, RouteQuiescent, NEW r \in Routes \ unread,
             routes[r] # None, routes[r].spec.host # Unset,
             ListedPolicies # {None},
             \A policy \in ListedPolicies: ~policy.active
      PROVE  Published(r) = {}
  <2>1. PICK policy \in ListedPolicies: SatisfiedUnder(r, policy)
    BY <1>1, QuiescentIsSatisfied
  <2>2. policy # None
    BY <1>1 DEF ListedPolicies
  <2> QED
    BY <1>1, <2>1, <2>2, SatisfiedIsSilent
<1> QED
  BY <1>1 DEF InactivePublishesNothing

\* At rest a cluster whose policies are inactive publishes nothing.
THEOREM InactiveIsSilent == Spec => []InactivePublishesNothing
BY RouteInvariant, QuiescentIsSilent, PTL

\* Of an Active route it is the plan to publish that changes nothing.
LEMMA QuiescentIsPublished == RouteInv => ActivePublishesWanted
<1>1. ASSUME RouteInv, RouteQuiescent, NEW r \in Routes \ unread,
             routes[r] # None, routes[r].status.phase = "Active"
      PROVE  \E policy \in ListedPolicies:
                LET wanted == Wanted(r, policy) IN
                DOMAIN wanted # {} =>
                    /\ Published(r) = DOMAIN wanted
                    /\ \A c \in DOMAIN wanted:
                        /\ endpointSpec(endpoints[r, c]) = endpointSpec(wanted[c])
                        /\ endpoints[r, c].owner = LiveUID(r)
  <2>1. PICK policy \in ListedPolicies: SatisfiedUnder(r, policy)
    BY <1>1, QuiescentIsSatisfied
  <2> DEFINE obj == routes[r]
             postfix == gateways[gatewayOf(obj.spec)]
  <2>2. obj \in Route /\ obj.status.phase = "Active"
    BY <1>1 DEF RouteInv, SoundState, RouteTypeOK
  <2>3. \A phase \in {"Pending", "Failed"}: \A reason:
          routeStatus(obj, phase, reason).phase # "Active"
    <3>1. obj.status \in RouteStatus
      BY <2>2 DEF Route
    <3> QED
      BY <3>1 DEF routeStatus, RouteStatus
  <2>4. /\ obj.spec.host # Unset /\ policy # None /\ config # None
        /\ postfix # None /\ identity # None
        /\ policy.active /\ policy.controllers # {}
    BY <2>1, <2>2, <2>3 DEF SatisfiedUnder, RoutePlan, Stop, Plan
  <2> QED
    BY <1>1, <2>1, <2>4, SatisfiedIsPublished
<1> QED
  BY <1>1 DEF ActivePublishesWanted

\* At rest an Active route with something to publish publishes just that.
THEOREM ActiveIsPublished == Spec => []ActivePublishesWanted
BY RouteInvariant, QuiescentIsPublished, PTL

-----------------------------------------------------------------------------
(***************************************************************************)
(* What no step does.                                                      *)
(***************************************************************************)
\* A DNSEndpoint of the route that is there is deleted by the worker alone,
\* and for one of two reasons.
LEMMA WithdrawalHasReason ==
    ASSUME SoundState, [Next]_vars, NEW r \in Routes, NEW c \in Controllers,
           endpoints[r, c] # None, endpoints'[r, c] = None,
           endpoints[r, c].owner = LiveUID(r)
    PROVE  /\ routeWorker.pc = "apply"
           /\ Reason(routeWorker) \in Withdrawals
<1> USE DEF SoundState
<1>k. \A q \in Routes, d \in Controllers: <<q, d>> \in EndpointKeys
  BY DEF EndpointKeys
<1>1. endpoints' # endpoints
  OBVIOUS
<1>2. ASSUME NEW q \in Routes, NEW d \in Controllers, CollectEndpoint(q, d)
      PROVE  FALSE
  <2>1. Orphaned(q, d) /\ endpoints' = [endpoints EXCEPT ![<<q, d>>] = None]
    BY <1>2 DEF CollectEndpoint
  <2>2. <<q, d>> = <<r, c>>
    BY <1>k, <2>1 DEF RouteTypeOK
  <2> QED
    BY <2>1, <2>2 DEF Orphaned
<1>3. CASE ApplyCall
  <2>1. PICK call \in routeWorker.calls:
          LET k == <<routeWorker.key, call.controller>> IN
          /\ NextCall(call)
          /\ Accepted(call, endpoints[k])
          /\ endpoints' = [endpoints EXCEPT ![k] = Written(call, endpoints[k])]
    BY <1>3 DEF ApplyCall
  <2> DEFINE k == <<routeWorker.key, call.controller>>
  <2>2. routeWorker \in BusyWorker /\ routeWorker.pc = "apply"
    BY <2>1, WorkerType DEF NextCall
  <2>3. call \in Calls /\ k \in EndpointKeys
    BY <2>1, <2>2 DEF BusyWorker, Calls, EndpointKeys
  <2>4. k = <<r, c>>
    BY <1>k, <2>1 DEF RouteTypeOK
  <2>5. endpoints[k] \in Endpoint /\ Written(call, endpoints[k]) = None
    BY <1>k, <2>1, <2>3, <2>4 DEF RouteTypeOK
  <2>6. call.new = None
    BY <2>1, <2>3, <2>5, WrittenType
  <2>7. routeWorker.obj # None
    <3>1. LiveUID(r) # 0
      BY <2>4, <2>5, OwnerIsSome
    <3>2. routes[r] # None /\ endpoints[r, c].owner = routes[r].born
      BY <3>1 DEF LiveUID
    <3>3. Handling(r)
      BY <2>2, <2>4 DEF Handling
    <3> QED
      BY <3>2, <3>3 DEF HistoryIsSound, OwnersAreSeen
  <2> QED
    BY <2>2, <2>6, <2>7 DEF WorkerIsSound, Reason
<1>4. ASSUME ~ApplyCall,
             ~\E q \in Routes, d \in Controllers: CollectEndpoint(q, d)
      PROVE  endpoints' = endpoints
  BY <1>4, WriteIsNew DEF Next, SystemNext, Disturbance, UserNext,
     RouteInformerNext, RouteReconcileNext, CollectorNext, CreateRoute,
     EditRoute, WriteRoute, DeleteRoute, WriteGateway, InformRoute,
     InformEndpoint, InformGateway, PolicyEvent, IdentityChanges, IdentityEvent,
     ConfigChanges, StartRoute, Gather, CallRefused, FinishDeleted,
     UpdateRouteStatus, RouteConflict, RouteError, RequeueRoute, Restart, vars,
     endpointVars
<1> QED
  BY <1>1, <1>2, <1>3, <1>4

\* Records of a live route are withdrawn for an inactive policy or another
\* selection, never for want of an input.
THEOREM LiveRecordsAreKept == Spec => LiveRecordsStay
<1>1. RouteInv /\ [Next]_vars =>
        [\A r \in Routes, c \in Controllers:
            (/\ endpoints[r, c] # None
             /\ endpoints'[r, c] = None
             /\ endpoints[r, c].owner = LiveUID(r))
            => /\ routeWorker.pc = "apply"
               /\ Reason(routeWorker)
                    \in {"DNSPolicyInactive", "ReconciliationSucceeded"}]_vars
  BY WithdrawalHasReason DEF RouteInv, Withdrawals
<1> QED
  BY <1>1, RouteInvariant, PTL DEF Spec, LiveRecordsStay

\* A status is written onto the spec it was computed from, and no other.
LEMMA StatusHasSpec ==
    ASSUME SoundState, [Next]_vars, NEW r \in Routes,
           None \notin {routes[r], routes'[r]},
           routes'[r].status # routes[r].status
    PROVE  routes'[r].status.observed = routes'[r].rev
<1> USE DEF SoundState
<1>t. routes \in [Routes -> Route \cup {None}]
  BY DEF RouteTypeOK
<1>1. CASE UpdateRouteStatus
  <2>1. /\ routeWorker.pc = "apply" /\ routeWorker.obj # None
        /\ routes[routeWorker.key] = routeWorker.obj
        /\ routes' = [routes EXCEPT ![routeWorker.key] =
                        [routeWorker.obj EXCEPT !.status = routeWorker.status]]
    BY <1>1 DEF UpdateRouteStatus, Applied
  <2>2. routeWorker.obj \in Route /\ routeWorker.key \in Routes
    BY <2>1, WorkerType DEF BusyWorker
  <2>3. routeWorker.key = r
    BY <1>t, <2>1
  <2>4. routes'[r] = [routeWorker.obj EXCEPT !.status = routeWorker.status]
    BY <1>t, <2>1, <2>3
  <2>5. routeWorker.status.observed = routeWorker.obj.rev
    BY <2>1 DEF WorkerIsSound
  <2> QED
    BY <2>2, <2>4, <2>5 DEF Route
<1>2. ASSUME NEW q \in Routes, CreateRoute(q) \/ EditRoute(q)
      PROVE  FALSE
  <2>1. PICK obj \in Route:
          /\ WriteRoute(q, obj)
          /\ routes[q] # None => obj.status = routes[q].status
    BY <1>2, WriteIsNew
  <2> QED
    BY <1>t, <2>1 DEF WriteRoute
<1>3. ASSUME NEW q \in Routes, DeleteRoute(q) PROVE FALSE
  BY <1>t, <1>3 DEF DeleteRoute
<1>4. ASSUME ~UpdateRouteStatus,
             ~\E q \in Routes: CreateRoute(q) \/ EditRoute(q) \/ DeleteRoute(q)
      PROVE  routes' = routes
  BY <1>4 DEF Next, SystemNext, Disturbance, UserNext,
     RouteInformerNext, RouteReconcileNext, CollectorNext, WriteGateway,
     InformRoute, InformEndpoint, InformGateway, PolicyEvent, IdentityChanges,
     IdentityEvent, ConfigChanges, CollectEndpoint, StartRoute, Gather,
     ApplyCall, CallRefused, FinishDeleted, RouteConflict, RouteError,
     RequeueRoute, Restart, vars, routeVars
<1> QED
  BY <1>1, <1>2, <1>3, <1>4

\* The status update is refused unless the object is the one that was read, so
\* that the status says which spec it is of.
THEOREM StatusIsOfItsSpec == Spec => RouteStatusOfItsSpec
<1>1. RouteInv /\ [Next]_vars =>
        [\A r \in Routes:
            (/\ None \notin {routes[r], routes'[r]}
             /\ routes'[r].status # routes[r].status)
            => routes'[r].status.observed = routes'[r].rev]_vars
  BY StatusHasSpec DEF RouteInv
<1> QED
  BY <1>1, RouteInvariant, PTL DEF Spec, RouteStatusOfItsSpec

=============================================================================
