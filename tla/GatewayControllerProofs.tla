---------------------- MODULE GatewayControllerProofs ----------------------
(***************************************************************************)
(* What holds of the Gateway controller for all Gateways, routes, ingresses *)
(* and identities: its type invariant; that no wake-up is lost but those of *)
(* the identity and the address (GatewayInv, an inductive invariant), from  *)
(* which it follows that at rest each Istio Gateway serves the routes of    *)
(* its Gateway; that it is not withdrawn while routes name it; and that a   *)
(* status belongs to its spec.                                              *)
(***************************************************************************)
EXTENDS GatewayController, TLAPS

-----------------------------------------------------------------------------
(***************************************************************************)
(* What Reconcile makes of what it has read.                               *)
(***************************************************************************)
\* Hosts and address are well formed, whatever the informers have.
LEMMA ReadsType ==
    ASSUME GatewayTypeOK, NEW k \in GatewayKeys, NEW id \in Identities,
           NEW spec \in GatewaySpecs
    PROVE  /\ collectHostsFromServiceRoutes(k, id) \in SUBSET (Hosts \X Zones)
           /\ checkDNSStatus(spec) \in Addresses \cup {Unset}
<1>1. id.zone \in Zones
  BY GatewayInputs DEF Identity
<1>2. \A r \in Routes: namesGateway(routeViews[r], k)
        => routeViews[r].host \in Hosts
  BY GatewayInputs DEF namesGateway, GatewayTypeOK, RouteSpec
<1>3. spec.controller \in Ingresses
  BY GatewayInputs DEF GatewaySpec
<1> QED
  BY <1>1, <1>2, <1>3
  DEF collectHostsFromServiceRoutes, checkDNSStatus, GatewayTypeOK

\* A call is about what the informer had and says something, what it writes
\* belongs to the Gateway that was read, and it deletes only what no route
\* names.
CallIsSound(call, k, obj) ==
    /\ call \in IstioCall
    /\ call.old # None \/ call.new # None
    /\ call.new # None => call.new.owner = obj.born

Unrouted(k) == \A r \in Routes: ~namesGateway(routeViews[r], k)

PlanIsSound(plan, k, obj) ==
    /\ plan = Plan(plan.call, plan.status)
    /\ plan.call # None => /\ CallIsSound(plan.call, k, obj)
                           /\ plan.call.new = None => Unrouted(k)
    /\ plan.status \in GatewayStatus
    /\ plan.status.observed = obj.rev

\* What Reconcile is going to do makes sense whatever it has read.
LEMMA GatewayPlanIsSound ==
    ASSUME GatewayTypeOK, NEW k \in GatewayKeys, NEW obj \in Gateway,
           NEW existing \in IstioGateway \cup {None},
           NEW id \in Identities \cup {None}
    PROVE  PlanIsSound(GatewayPlan(k, obj, existing, id), k, obj)
<1> DEFINE plan == GatewayPlan(k, obj, existing, id)
<1>1. /\ obj.spec \in GatewaySpecs
      /\ obj.rev \in 1..MaxGatewayEdits /\ obj.born \in 1..MaxGatewayEdits
      /\ obj.status.address \in Addresses \cup {Unset}
  BY DEF Gateway, GatewayStatus
<1>2. ASSUME NEW phase \in {"Active", "Pending", "Failed"},
             NEW reason \in {"ReconciliationSucceeded", "ValidationFailed",
                             "ClusterIdentityNotAvailable", "NoServiceRoutes"},
             NEW address \in Addresses \cup {Unset},
             NEW call,
             call # None => /\ CallIsSound(call, k, obj)
                            /\ call.new = None => Unrouted(k)
      PROVE  PlanIsSound(Plan(call, gatewayStatus(obj, phase, reason, address)),
                         k, obj)
  <2> DEFINE st == gatewayStatus(obj, phase, reason, address)
  <2>1. obj.rev \in 0..MaxGatewayEdits
    BY <1>1, GatewayInputs
  <2>2. st \in GatewayStatus /\ st.observed = obj.rev
    BY <2>1 DEF gatewayStatus, GatewayStatus
  <2> QED
    BY <1>2, <2>2 DEF Plan, PlanIsSound
<1>3. CASE ~obj.spec.wellFormed
  <2>1. plan = Plan(None, gatewayStatus(obj, "Failed", "ValidationFailed",
                                        obj.status.address))
    BY <1>3 DEF GatewayPlan
  <2> QED
    BY <1>1, <1>2, <2>1
<1>4. CASE obj.spec.wellFormed /\ id = None
  <2>1. plan = Plan(None, gatewayStatus(obj, "Pending",
                                        "ClusterIdentityNotAvailable", Unset))
    BY <1>4 DEF GatewayPlan, waitForIdentity
  <2> QED
    BY <1>2, <2>1
<1>5. CASE obj.spec.wellFormed /\ id # None
  <2> DEFINE hosts == collectHostsFromServiceRoutes(k, id)
             desired == generateIstioGateway(obj, hosts)
             address == checkDNSStatus(obj.spec)
  <2>1. hosts \in SUBSET (Hosts \X Zones) /\ address \in Addresses \cup {Unset}
    BY <1>1, <1>5, ReadsType
  <2>2. desired \in IstioGateway /\ desired.owner = obj.born
    BY <1>1, <2>1, GatewayInputs
    DEF generateIstioGateway, IstioGateway, GatewaySpec
  <2>3. hosts = {} => Unrouted(k)
    BY DEF collectHostsFromServiceRoutes, Unrouted
  <2>4. /\ existing # None =>
             /\ CallIsSound(Call(existing, None), k, obj)
             /\ CallIsSound(Call(existing, desired), k, obj)
        /\ CallIsSound(Call(None, desired), k, obj)
    BY <2>2, NoneIsNoGateway DEF CallIsSound, Call, IstioCall
  <2>5. Call(None, desired).new # None /\ Call(existing, desired).new # None
    BY <2>2, NoneIsNoGateway DEF Call
  <2>6. CASE hosts = {}
    <3> DEFINE call == IF existing = None THEN None ELSE Call(existing, None)
    <3>1. plan = Plan(call, gatewayStatus(obj, "Pending", "NoServiceRoutes",
                                          address))
      BY <1>5, <2>6 DEF GatewayPlan
    <3>2. call # None => CallIsSound(call, k, obj)
      BY <2>4
    <3> HIDE DEF hosts, address, call
    <3> QED
      BY <1>2, <2>1, <2>3, <2>6, <3>1, <3>2
  <2>7. CASE hosts # {}
    <3> DEFINE call == IF existing = None THEN Call(None, desired)
                       ELSE IF istioGatewayNeedsUpdate(existing, desired)
                       THEN Call(existing, desired) ELSE None
    <3>1. plan = Plan(call, gatewayStatus(obj, "Active",
                                          "ReconciliationSucceeded", address))
      BY <1>5, <2>7 DEF GatewayPlan
    <3> HIDE DEF desired
    <3>2. call # None => CallIsSound(call, k, obj) /\ call.new # None
      BY <2>4, <2>5
    <3> HIDE DEF address, call
    <3> QED
      BY <1>2, <2>1, <3>1, <3>2
  <2> QED
    BY <2>6, <2>7
<1> QED
  BY <1>3, <1>4, <1>5

\* Reconcile depends on the spec of what it has read, the hosts of its routes
\* and the address of its load balancer.
LEMMA PlanDependsOn ==
    ASSUME NEW k, NEW obj, NEW existing, NEW id,
           collectHostsFromServiceRoutes(k, id)'
               = collectHostsFromServiceRoutes(k, id),
           serviceViews'[obj.spec.controller] = serviceViews[obj.spec.controller]
    PROVE  GatewayPlan(k, obj, existing, id)'
               = GatewayPlan(k, obj, existing, id)
BY DEF GatewayPlan, checkDNSStatus, waitForIdentity

\* Reconcile of its own write has the same to do.
LEMMA PlanIsRepeated ==
    ASSUME NEW k, NEW obj \in Gateway, NEW existing, NEW id
    PROVE  LET plan == GatewayPlan(k, obj, existing, id) IN
           GatewayPlan(k, [obj EXCEPT !.status = plan.status], existing, id)
               = plan
<1> DEFINE plan == GatewayPlan(k, obj, existing, id)
           after == [obj EXCEPT !.status = plan.status]
<1>1. /\ after.spec = obj.spec /\ after.rev = obj.rev /\ after.born = obj.born
      /\ after.status = plan.status
  BY DEF Gateway
<1>2. ~obj.spec.wellFormed => plan.status.address = obj.status.address
  BY DEF GatewayPlan, Plan, gatewayStatus
<1>3. GatewayPlan(k, after, existing, id) = plan
  <2> HIDE DEF after
  <2> QED
    BY <1>1, <1>2
    DEF GatewayPlan, waitForIdentity, gatewayStatus, generateIstioGateway
<1> QED
  BY <1>3

-----------------------------------------------------------------------------
(***************************************************************************)
(* What the worker holds.                                                  *)
(***************************************************************************)
Handling(k) == gatewayWorker.pc # "idle" /\ gatewayWorker.key = k

BusyWorker ==
    [pc: {"gather", "apply", "update"}, key: GatewayKeys, obj: Gateway,
     call: IstioCall \cup {None}, status: GatewayStatus \cup {None}]

\* The worker is idle or busy.
LEMMA WorkerType ==
    ASSUME GatewayTypeOK, gatewayWorker.pc # "idle"
    PROVE  gatewayWorker \in BusyWorker
BY DEF GatewayTypeOK, GatewayWorker, IdleGatewayWorker, BusyWorker

\* An idle worker is in a well-formed state.
LEMMA WorkerIdle ==
    IdleGatewayWorker \in GatewayWorker /\ IdleGatewayWorker.pc = "idle"
BY DEF GatewayWorker, IdleGatewayWorker

\* What is still to be done was planned from what was read; and if it is to
\* delete, no route names the Gateway or another look is to come.
WorkerIsSound ==
    LET w == gatewayWorker IN
    /\ w.pc = "apply" =>
        /\ CallIsSound(w.call, w.key, w.obj)
        /\ w.call.new = None => w.key \in gatewayQueue \/ Unrouted(w.key)
    /\ w.pc \in {"gather", "update"} => w.call = None
    /\ w.pc \in {"apply", "update"} =>
        /\ w.status \in GatewayStatus
        /\ w.status.observed = w.obj.rev

\* A conflict, an error and a refused call all put the key back.
LEMMA RequeueForms ==
    CallRefused \/ GatewayConflict \/ GatewayError
        => RequeueGateway /\ gatewayWorker.pc # "idle"
BY DEF CallRefused, GatewayConflict, GatewayError

\* A change of an Istio Gateway by others or by the garbage collector.
LEMMA IstioForms ==
    ASSUME GatewayTypeOK, NEW k \in GatewayKeys,
           EditIstioGateway(k) \/ DeleteIstioGateway(k) \/ CollectIstioGateway(k)
    PROVE  \E written \in IstioGateway \cup {None}:
            /\ WriteIstioGateway(k, written)
            /\ written # None => written.owner = istioGateways[k].owner
<1>1. CASE DeleteIstioGateway(k) \/ CollectIstioGateway(k)
  BY <1>1 DEF DeleteIstioGateway, CollectIstioGateway
<1>2. CASE EditIstioGateway(k)
  <2>1. istioGateways[k] \in IstioGateway
    BY <1>2 DEF EditIstioGateway, GatewayTypeOK
  <2>2. PICK edited \in {[istioGateways[k] EXCEPT !.selector = Unset],
                         [istioGateways[k] EXCEPT !.hosts = {}],
                         [istioGateways[k] EXCEPT !.credential = Unset]}:
          WriteIstioGateway(k, edited)
    BY <1>2 DEF EditIstioGateway
  <2>3. edited \in IstioGateway /\ edited.owner = istioGateways[k].owner
    BY <2>1, <2>2 DEF IstioGateway
  <2> QED
    BY <2>2, <2>3
<1> QED
  BY <1>1, <1>2

\* A patch leaves a well-formed Istio Gateway with the owner it had.
LEMMA StaysIstioGateway ==
    ASSUME NEW k, NEW obj, NEW call, CallIsSound(call, k, obj),
           call.old # None, call.new # None, NEW stored \in IstioGateway
    PROVE  /\ Written(call, stored) \in IstioGateway
           /\ Written(call, stored).owner = stored.owner
<1> DEFINE servers == IF Servers(call.new) = Servers(call.old)
                      THEN Servers(stored) ELSE Servers(call.new)
           selector == IF call.new.selector = call.old.selector
                       THEN stored.selector ELSE call.new.selector
<1>1. Written(call, stored) =
        [stored EXCEPT !.selector = selector, !.hosts = servers[1],
                       !.credential = servers[2]]
  BY DEF Written
<1>2. call.new \in IstioGateway
  BY DEF CallIsSound, IstioCall
<1>3. selector \in Ingresses \cup {Unset}
  BY <1>2 DEF IstioGateway
<1>4. /\ servers[1] \in SUBSET (Hosts \X Zones)
      /\ servers[2] \in Credentials \cup {Unset}
  BY <1>2 DEF IstioGateway, Servers
<1> HIDE DEF servers, selector
<1> QED
  BY <1>1, <1>3, <1>4 DEF IstioGateway

\* A call that is accepted leaves a well-formed Istio Gateway or none, and
\* what it creates has its Gateway as owner.
LEMMA WrittenType ==
    ASSUME NEW k, NEW obj, NEW call, CallIsSound(call, k, obj),
           NEW stored \in IstioGateway \cup {None}, Accepted(call, stored)
    PROVE  /\ Written(call, stored) \in IstioGateway \cup {None}
           /\ Written(call, stored) # None =>
                \/ stored # None /\ Written(call, stored).owner = stored.owner
                \/ Written(call, stored).owner = obj.born
<1>1. CASE None \in {call.old, call.new}
  <2>1. Written(call, stored) = call.new
    BY <1>1 DEF Written
  <2> QED
    BY <2>1 DEF CallIsSound, IstioCall
<1>2. CASE None \notin {call.old, call.new}
  BY <1>2, StaysIstioGateway DEF Accepted
<1> QED
  BY <1>1, <1>2

-----------------------------------------------------------------------------
(***************************************************************************)
(* Type correctness.                                                       *)
(***************************************************************************)
\* The controller starts in a well-formed state.
LEMMA GatewayTypeInit == Init => GatewayTypeOK /\ WorkerIsSound
<1> SUFFICES ASSUME Init PROVE GatewayTypeOK /\ WorkerIsSound
  OBVIOUS
<1>1. 0 \in 0..MaxGatewayEdits
  BY GatewayInputs
<1>2. gatewayWorker \in GatewayWorker /\ gatewayWorker.pc = "idle"
  BY WorkerIdle DEF Init
<1>3. GatewayTypeOK
  BY <1>1, <1>2 DEF Init, GatewayTypeOK
<1>4. WorkerIsSound
  BY <1>2 DEF WorkerIsSound
<1> QED
  BY <1>3, <1>4

\* A step that leaves the worker alone leaves it sound: the queue grows, and
\* a route that comes to name a Gateway puts its key in.
LEMMA WorkerIsKept ==
    ASSUME WorkerIsSound, gatewayWorker' = gatewayWorker,
           gatewayQueue \subseteq gatewayQueue',
           \A k \in GatewayKeys: Unrouted(k) => Unrouted(k)' \/ k \in gatewayQueue',
           GatewayTypeOK
    PROVE  WorkerIsSound'
<1>1. gatewayWorker.pc = "apply" => gatewayWorker.key \in GatewayKeys
  BY WorkerType DEF BusyWorker
<1> QED
  BY <1>1 DEF WorkerIsSound, CallIsSound

\* The writes of users and of the garbage collector.
LEMMA WriteTypeStep ==
    ASSUME GatewayTypeOK, WorkerIsSound, NEW k \in GatewayKeys,
           \/ CreateGateway(k) \/ EditGateway(k) \/ DeleteGateway(k)
           \/ EditIstioGateway(k) \/ DeleteIstioGateway(k)
           \/ CollectIstioGateway(k)
    PROVE  GatewayTypeOK' /\ WorkerIsSound'
<1>1. ASSUME NEW written \in Gateway, WriteGateway(k, written)
      PROVE  GatewayTypeOK' /\ WorkerIsSound'
  <2>1. gatewayEdits + 1 \in 0..MaxGatewayEdits
    BY <1>1, GatewayInputs DEF WriteGateway, GatewayTypeOK
  <2>2. GatewayTypeOK'
    BY <1>1, <2>1 DEF WriteGateway, GatewayTypeOK, istioVars, inputVars
  <2>3. WorkerIsSound'
    BY <1>1, WorkerIsKept DEF WriteGateway, inputVars, Unrouted
  <2> QED
    BY <2>2, <2>3
<1>2. CASE CreateGateway(k)
  <2>1. PICK spec \in GatewaySpecs:
          WriteGateway(k, [spec |-> spec, rev |-> gatewayEdits + 1,
                           born |-> gatewayEdits + 1, generation |-> 1,
                           status |-> NewGatewayStatus])
    BY <1>2 DEF CreateGateway
  <2>2. gatewayEdits + 1 \in 1..MaxGatewayEdits /\ 0 \in 0..MaxGatewayEdits
    BY <2>1, GatewayInputs DEF WriteGateway, GatewayTypeOK
  <2>3. NewGatewayStatus \in GatewayStatus
    BY <2>2 DEF NewGatewayStatus, GatewayStatus
  <2> QED
    BY <1>1, <2>1, <2>2, <2>3 DEF Gateway
<1>3. CASE EditGateway(k)
  <2>1. PICK spec \in GatewaySpecs:
          WriteGateway(k, [gateways[k] EXCEPT !.spec = spec,
                                              !.rev = gatewayEdits + 1,
                                              !.generation = @ + 1])
    BY <1>3 DEF EditGateway
  <2>2. gatewayEdits + 1 \in 1..MaxGatewayEdits
    BY <2>1, GatewayInputs DEF WriteGateway, GatewayTypeOK
  <2>3. gateways[k] \in Gateway
    BY <1>3 DEF EditGateway, GatewayTypeOK
  <2>4. [gateways[k] EXCEPT !.spec = spec, !.rev = gatewayEdits + 1,
                            !.generation = @ + 1] \in Gateway
    <3>1. gateways[k].generation + 1 \in Nat
      BY <2>3 DEF Gateway
    <3> QED
      BY <2>2, <2>3, <3>1 DEF Gateway
  <2> QED
    BY <1>1, <2>1, <2>4
<1>4. CASE DeleteGateway(k)
  <2>1. GatewayTypeOK'
    BY <1>4 DEF DeleteGateway, GatewayTypeOK, istioVars, inputVars
  <2>2. WorkerIsSound'
    BY <1>4, WorkerIsKept DEF DeleteGateway, inputVars, Unrouted
  <2> QED
    BY <2>1, <2>2
<1>5. CASE EditIstioGateway(k) \/ DeleteIstioGateway(k) \/ CollectIstioGateway(k)
  <2>1. PICK written \in IstioGateway \cup {None}: WriteIstioGateway(k, written)
    BY <1>5, IstioForms
  <2>2. GatewayTypeOK'
    BY <2>1 DEF WriteIstioGateway, GatewayTypeOK, gatewayVars, inputVars
  <2>3. WorkerIsSound'
    BY <2>1, WorkerIsKept DEF WriteIstioGateway, inputVars, Unrouted
  <2> QED
    BY <2>2, <2>3
<1> QED
  BY <1>2, <1>3, <1>4, <1>5

\* The informers, and what changes around the controller.
LEMMA EventTypeStep ==
    ASSUME GatewayTypeOK, WorkerIsSound,
           \/ \E k \in GatewayKeys:
                \/ InformGateway(k) \/ RelistGateway(k)
                \/ InformIstioGateway(k) \/ TimerExpires(k)
           \/ \E r \in Routes: RouteEvent(r)
           \/ \E i \in Ingresses: ServiceEvent(i) \/ ServiceUpdated(i)
           \/ IdentityChanges \/ ConfigEvent
    PROVE  GatewayTypeOK' /\ WorkerIsSound'
<1> USE DEF Enqueue, istioVars, inputVars, gatewayVars
<1>1. ASSUME NEW k \in GatewayKeys,
             \/ InformGateway(k) \/ RelistGateway(k)
             \/ InformIstioGateway(k) \/ TimerExpires(k)
      PROVE  GatewayTypeOK' /\ WorkerIsSound'
  <2>1. GatewayTypeOK'
    BY <1>1
    DEF InformGateway, RelistGateway, InformIstioGateway, TimerExpires,
        GatewayTypeOK
  <2>2. /\ gatewayQueue \subseteq gatewayQueue' /\ gatewayWorker' = gatewayWorker
        /\ routeViews' = routeViews
    BY <1>1 DEF InformGateway, RelistGateway, InformIstioGateway, TimerExpires
  <2> QED
    BY <2>1, <2>2, WorkerIsKept DEF Unrouted
<1>2. ASSUME NEW r \in Routes, RouteEvent(r)
      PROVE  GatewayTypeOK' /\ WorkerIsSound'
  <2>1. PICK new \in RouteSpecs \cup {None}:
          /\ routeViews' = [routeViews EXCEPT ![r] = new]
          /\ gatewayQueue' = gatewayQueue
                \cup mapServiceRouteToGateway(routeViews[r], new)
    BY <1>2 DEF RouteEvent
  <2>2. mapServiceRouteToGateway(routeViews[r], new) \subseteq GatewayKeys
    BY DEF mapServiceRouteToGateway
  <2>3. GatewayTypeOK'
    BY <1>2, <2>1, <2>2 DEF RouteEvent, GatewayTypeOK
  <2>4. \A k \in GatewayKeys:
          Unrouted(k) => Unrouted(k)' \/ k \in gatewayQueue'
    BY <2>1 DEF Unrouted, mapServiceRouteToGateway, GatewayTypeOK
  <2>5. WorkerIsSound'
    BY <1>2, <2>1, <2>4, WorkerIsKept DEF RouteEvent
  <2> QED
    BY <2>3, <2>5
<1>3. ASSUME NEW i \in Ingresses, ServiceEvent(i) \/ ServiceUpdated(i)
      PROVE  GatewayTypeOK' /\ WorkerIsSound'
  <2>1. mapServiceToGateways(i) \subseteq GatewayKeys
    BY DEF mapServiceToGateways, ListedGateways
  <2>2. GatewayTypeOK'
    BY <1>3, <2>1 DEF ServiceEvent, ServiceUpdated, GatewayTypeOK
  <2>3. WorkerIsSound'
    BY <1>3, WorkerIsKept DEF ServiceEvent, ServiceUpdated, Unrouted
  <2> QED
    BY <2>2, <2>3
<1>4. CASE IdentityChanges \/ ConfigEvent
  <2>1. ListedGateways \subseteq GatewayKeys
    BY DEF ListedGateways
  <2>2. GatewayTypeOK'
    BY <1>4, <2>1 DEF IdentityChanges, ConfigEvent, GatewayTypeOK
  <2>3. WorkerIsSound'
    BY <1>4, WorkerIsKept DEF IdentityChanges, ConfigEvent, Unrouted
  <2> QED
    BY <2>2, <2>3
<1> QED
  BY <1>1, <1>2, <1>3, <1>4

\* What Gather leaves in the worker.
LEMMA GatherForm ==
    ASSUME GatewayTypeOK, Gather
    PROVE  LET w == gatewayWorker
               plan == GatewayPlan(w.key, w.obj, seenIstioGateways[w.key],
                                   identity)
           IN  /\ w.key \in GatewayKeys /\ w.obj \in Gateway
               /\ PlanIsSound(plan, w.key, w.obj)
               /\ gatewayWorker' \in GatewayWorker
               /\ gatewayWorker'.pc =
                    IF plan.call = None THEN "update" ELSE "apply"
               /\ gatewayWorker'.key = w.key
               /\ gatewayWorker'.obj = w.obj
               /\ gatewayWorker'.call = plan.call
               /\ gatewayWorker'.status = plan.status
<1> DEFINE w == gatewayWorker
           plan == GatewayPlan(w.key, w.obj, seenIstioGateways[w.key], identity)
           pc == IF plan.call = None THEN "update" ELSE "apply"
<1>1. w \in BusyWorker
  BY WorkerType DEF Gather
<1>2. w.key \in GatewayKeys /\ w.obj \in Gateway
  BY <1>1 DEF BusyWorker
<1>3. PlanIsSound(plan, w.key, w.obj)
  BY <1>2, GatewayPlanIsSound DEF GatewayTypeOK
<1>4. gatewayWorker' = [w EXCEPT !.pc = pc, !.call = plan.call,
                                 !.status = plan.status]
  BY DEF Gather
<1>5. /\ plan.call \in IstioCall \cup {None}
      /\ plan.status \in GatewayStatus
      /\ pc \in {"gather", "apply", "update"}
  BY <1>3 DEF PlanIsSound, CallIsSound
<1> HIDE DEF plan, pc
<1>6. gatewayWorker' \in BusyWorker
  BY <1>1, <1>4, <1>5 DEF BusyWorker
<1>7. BusyWorker \subseteq GatewayWorker
  BY DEF BusyWorker, GatewayWorker
<1>8. /\ gatewayWorker'.pc = pc
      /\ gatewayWorker'.key = w.key
      /\ gatewayWorker'.obj = w.obj
      /\ gatewayWorker'.call = plan.call
      /\ gatewayWorker'.status = plan.status
  BY <1>1, <1>4 DEF BusyWorker
<1> QED
  BY <1>2, <1>3, <1>6, <1>7, <1>8 DEF plan, pc

\* What an accepted call leaves.
LEMMA ApplyForm ==
    ASSUME GatewayTypeOK, WorkerIsSound, ApplyCall
    PROVE  LET w == gatewayWorker IN
           /\ w.pc = "apply" /\ w.key \in GatewayKeys /\ w.obj \in Gateway
           /\ CallIsSound(w.call, w.key, w.obj)
           /\ gatewayWorker' \in GatewayWorker
           /\ gatewayWorker'.pc = "update"
           /\ gatewayWorker'.key = w.key
           /\ gatewayWorker'.obj = w.obj
           /\ gatewayWorker'.call = None
           /\ gatewayWorker'.status = w.status
           /\ \E written \in IstioGateway \cup {None}:
                /\ istioGateways' = [istioGateways EXCEPT ![w.key] = written]
                /\ written = Written(w.call, istioGateways[w.key])
                /\ written # None =>
                    \/ /\ istioGateways[w.key] # None
                       /\ written.owner = istioGateways[w.key].owner
                    \/ written.owner = w.obj.born
<1> DEFINE w == gatewayWorker
           written == Written(w.call, istioGateways[w.key])
<1>1. w.pc = "apply" /\ w \in BusyWorker
  BY WorkerType DEF ApplyCall
<1>2. w.key \in GatewayKeys /\ w.obj \in Gateway
  BY <1>1 DEF BusyWorker
<1>3. CallIsSound(w.call, w.key, w.obj)
  BY <1>1 DEF WorkerIsSound
<1>4. istioGateways[w.key] \in IstioGateway \cup {None}
  BY <1>2 DEF GatewayTypeOK
<1>5. Accepted(w.call, istioGateways[w.key])
  BY DEF ApplyCall
<1>6. /\ written \in IstioGateway \cup {None}
      /\ written # None =>
            \/ /\ istioGateways[w.key] # None
               /\ written.owner = istioGateways[w.key].owner
            \/ written.owner = w.obj.born
  BY <1>3, <1>4, <1>5, WrittenType
<1>7. istioGateways' = [istioGateways EXCEPT ![w.key] = written]
  BY DEF ApplyCall
<1>8. /\ gatewayWorker' \in BusyWorker
      /\ gatewayWorker'.pc = "update"
      /\ gatewayWorker'.key = w.key
      /\ gatewayWorker'.obj = w.obj
      /\ gatewayWorker'.call = None
      /\ gatewayWorker'.status = w.status
  BY <1>1 DEF ApplyCall, BusyWorker
<1>9. BusyWorker \subseteq GatewayWorker
  BY DEF BusyWorker, GatewayWorker
<1> HIDE DEF written
<1>10. \E x \in IstioGateway \cup {None}:
          /\ istioGateways' = [istioGateways EXCEPT ![w.key] = x]
          /\ x = written
          /\ x # None =>
                \/ /\ istioGateways[w.key] # None
                   /\ x.owner = istioGateways[w.key].owner
                \/ x.owner = w.obj.born
  BY <1>6, <1>7
<1> QED
  BY <1>1, <1>2, <1>3, <1>8, <1>9, <1>10 DEF written

\* The status update writes one Gateway, and nothing of it but the status.
LEMMA UpdateForm ==
    ASSUME GatewayTypeOK, WorkerIsSound, UpdateGatewayStatus
    PROVE  LET w == gatewayWorker
               updated == [w.obj EXCEPT !.status = w.status]
           IN  /\ w.pc = "update" /\ w.key \in GatewayKeys /\ w.obj \in Gateway
               /\ w.call = None /\ w.status.observed = w.obj.rev
               /\ gateways[w.key] = w.obj
               /\ gateways' = [gateways EXCEPT ![w.key] = updated]
               /\ updated \in Gateway
               /\ updated.spec = w.obj.spec /\ updated.rev = w.obj.rev
               /\ updated.born = w.obj.born /\ updated.status = w.status
<1> DEFINE w == gatewayWorker
           updated == [w.obj EXCEPT !.status = w.status]
<1>1. w.pc = "update" /\ w \in BusyWorker
  BY WorkerType DEF UpdateGatewayStatus
<1>2. w.key \in GatewayKeys /\ w.obj \in Gateway
  BY <1>1 DEF BusyWorker
<1>3. /\ w.call = None /\ w.status \in GatewayStatus
      /\ w.status.observed = w.obj.rev
  BY <1>1 DEF WorkerIsSound
<1>4. gateways[w.key] = w.obj
  BY DEF UpdateGatewayStatus
<1>5. gateways' = [gateways EXCEPT ![w.key] = updated]
  BY <1>2, <1>4 DEF UpdateGatewayStatus, GatewayTypeOK
<1>6. /\ updated \in Gateway
      /\ updated.spec = w.obj.spec /\ updated.rev = w.obj.rev
      /\ updated.born = w.obj.born /\ updated.status = w.status
  BY <1>2, <1>3 DEF Gateway
<1> QED
  BY <1>1, <1>2, <1>3, <1>4, <1>5, <1>6

\* Every step keeps the types, and what the worker holds sound.
LEMMA GatewayTypeStep ==
    GatewayTypeOK /\ WorkerIsSound /\ [Next]_vars
        => GatewayTypeOK' /\ WorkerIsSound'
<1> SUFFICES ASSUME GatewayTypeOK, WorkerIsSound, [Next]_vars
             PROVE  GatewayTypeOK' /\ WorkerIsSound'
  OBVIOUS
<1> USE DEF istioVars, inputVars, gatewayVars
<1>1. ASSUME NEW k \in GatewayKeys,
             \/ CreateGateway(k) \/ EditGateway(k) \/ DeleteGateway(k)
             \/ EditIstioGateway(k) \/ DeleteIstioGateway(k)
             \/ CollectIstioGateway(k)
      PROVE  GatewayTypeOK' /\ WorkerIsSound'
  BY <1>1, WriteTypeStep
<1>2. CASE \/ \E k \in GatewayKeys:
                \/ InformGateway(k) \/ RelistGateway(k)
                \/ InformIstioGateway(k) \/ TimerExpires(k)
           \/ \E r \in Routes: RouteEvent(r)
           \/ \E i \in Ingresses: ServiceEvent(i) \/ ServiceUpdated(i)
           \/ IdentityChanges \/ ConfigEvent
  BY <1>2, EventTypeStep
<1>3. ASSUME NEW k \in GatewayKeys, StartGateway(k)
      PROVE  GatewayTypeOK' /\ WorkerIsSound'
  <2>1. CASE seenGateways[k] = None
    BY <1>3, <2>1, WorkerIdle DEF StartGateway, GatewayTypeOK, WorkerIsSound
  <2>2. CASE seenGateways[k] # None
    <3>1. gatewayWorker' = [pc |-> "gather", key |-> k, obj |-> seenGateways[k],
                            call |-> None, status |-> None]
      BY <1>3, <2>2 DEF StartGateway, IdleGatewayWorker
    <3>2. seenGateways[k] \in Gateway
      BY <2>2 DEF GatewayTypeOK
    <3>3. gatewayWorker' \in GatewayWorker
      BY <3>1, <3>2 DEF GatewayWorker
    <3>4. WorkerIsSound'
      BY <3>1 DEF WorkerIsSound
    <3>5. GatewayTypeOK'
      BY <1>3, <3>3 DEF StartGateway, GatewayTypeOK
    <3> QED
      BY <3>4, <3>5
  <2> QED
    BY <2>1, <2>2
<1>4. CASE Gather
  <2>1. GatewayTypeOK'
    BY <1>4, GatherForm DEF Gather, GatewayTypeOK
  <2>2. Unrouted(gatewayWorker.key) => Unrouted(gatewayWorker.key)'
    BY <1>4, GatherForm DEF Gather, Unrouted
  <2>3. WorkerIsSound'
    BY <1>4, <2>2, GatherForm DEF WorkerIsSound, PlanIsSound, CallIsSound
  <2> QED
    BY <2>1, <2>3
<1>5. CASE ApplyCall
  <2>1. GatewayTypeOK'
    BY <1>5, ApplyForm DEF ApplyCall, GatewayTypeOK
  <2>2. WorkerIsSound'
    BY <1>5, ApplyForm DEF WorkerIsSound
  <2> QED
    BY <2>1, <2>2
<1>6. CASE CallRefused \/ GatewayConflict \/ GatewayError
  <2>1. RequeueGateway /\ gatewayWorker.key \in GatewayKeys
    BY <1>6, RequeueForms, WorkerType DEF BusyWorker
  <2> QED
    BY <2>1, WorkerIdle
    DEF RequeueGateway, Enqueue, GatewayTypeOK, WorkerIsSound
<1>7. CASE UpdateGatewayStatus
  <2>1. /\ gatewayWorker' = IdleGatewayWorker
        /\ timers' \subseteq GatewayKeys
    BY <1>7, UpdateForm DEF UpdateGatewayStatus, GatewayTypeOK
  <2> QED
    BY <1>7, <2>1, UpdateForm, WorkerIdle
    DEF UpdateGatewayStatus, GatewayTypeOK, WorkerIsSound
<1>8. CASE Restart
  BY <1>8, WorkerIdle DEF Restart, GatewayTypeOK, WorkerIsSound
<1>9. CASE UNCHANGED vars
  <2>1. GatewayTypeOK'
    BY <1>9 DEF vars, GatewayTypeOK
  <2>2. WorkerIsSound'
    BY <1>9, WorkerIsKept DEF vars, Unrouted
  <2> QED
    BY <2>1, <2>2
<1> QED
  BY <1>1, <1>2, <1>3, <1>4, <1>5, <1>6, <1>7, <1>8, <1>9
  DEF Next, Disturbance, UserNext, SystemNext, GatewayInformerNext,
      GatewayReconcileNext, CollectorNext

\* The variables keep their types, whatever users, other controllers, load
\* balancers and failures of calls do.
THEOREM GatewayTypeCorrect == Spec => []GatewayTypeOK
<1>1. GatewayTypeOK /\ WorkerIsSound /\ [Next]_vars
        => (GatewayTypeOK /\ WorkerIsSound)'
  BY GatewayTypeStep
<1> QED
  BY <1>1, GatewayTypeInit, PTL DEF Spec

-----------------------------------------------------------------------------
(***************************************************************************)
(* Objects of one name.  A revision is given out once, so that two copies  *)
(* of one revision are of one spec and one Gateway; an Istio Gateway whose *)
(* informer has nothing to tell is the informer's.                         *)
(***************************************************************************)
\* No revision is above the counter, so that the next one is new.
Numbered(obj) ==
    obj # None => obj.rev <= gatewayEdits /\ obj.born <= gatewayEdits

NumbersArePast ==
    /\ \A k \in GatewayKeys:
        /\ Numbered(gateways[k])
        /\ Numbered(seenGateways[k])
        /\ istioGateways[k] # None => istioGateways[k].owner <= gatewayEdits
    /\ gatewayWorker.pc # "idle" => Numbered(gatewayWorker.obj)

\* A copy of what there is, but for the status.
SameRevision(copy, obj) ==
    copy # None /\ obj # None /\ copy.rev = obj.rev
        => copy.spec = obj.spec /\ copy.born = obj.born

CopiesAgree ==
    \A k \in GatewayKeys:
        /\ SameRevision(seenGateways[k], gateways[k])
        /\ Handling(k) => SameRevision(gatewayWorker.obj, gateways[k])

NewsIsNoted ==
    \A k \in GatewayKeys \ istioNews: seenIstioGateways[k] = istioGateways[k]

HistoryIsSound == NumbersArePast /\ CopiesAgree /\ NewsIsNoted

\* It starts so.
LEMMA HistoryInit == Init => HistoryIsSound
BY WorkerIdle
DEF Init, HistoryIsSound, NumbersArePast, Numbered, CopiesAgree, SameRevision,
    Handling, NewsIsNoted

\* What is written by users is newer than all copies.
LEMMA WriteHistoryStep ==
    ASSUME GatewayTypeOK, HistoryIsSound, NEW k \in GatewayKeys,
           CreateGateway(k) \/ EditGateway(k) \/ DeleteGateway(k)
    PROVE  HistoryIsSound'
<1> USE DEF istioVars, inputVars
<1>t. gatewayEdits \in Nat
  BY GatewayInputs DEF GatewayTypeOK
<1>1. ASSUME NEW written, WriteGateway(k, written),
             written.rev = gatewayEdits + 1,
             written.born <= gatewayEdits + 1
      PROVE  HistoryIsSound'
  <2>1. /\ gateways' = [gateways EXCEPT ![k] = written]
        /\ gatewayEdits' = gatewayEdits + 1
        /\ UNCHANGED <<seenGateways, istioGateways, seenIstioGateways, istioNews,
                       gatewayWorker>>
    BY <1>1 DEF WriteGateway
  <2>2. \A obj \in Gateway \cup {None}: Numbered(obj) => Numbered(obj)'
    <3>1. \A obj \in Gateway: obj.rev \in Nat /\ obj.born \in Nat
      BY GatewayInputs DEF Gateway
    <3> QED
      BY <1>t, <2>1, <3>1 DEF Numbered
  <2>3. NumbersArePast'
    <3>1. Numbered(written)'
      BY <1>1, <2>1 DEF Numbered
    <3>2. ASSUME NEW j \in GatewayKeys
          PROVE  Numbered(gateways[j])' /\ Numbered(seenGateways[j])'
      <4>1. Numbered(gateways[j]) /\ Numbered(seenGateways[j])
        BY DEF HistoryIsSound, NumbersArePast
      <4>2. gateways[j]' = IF j = k THEN written ELSE gateways[j]
        BY <2>1 DEF GatewayTypeOK
      <4>3. {gateways[j], seenGateways[j]} \subseteq Gateway \cup {None}
        BY DEF GatewayTypeOK
      <4> QED
        BY <2>1, <2>2, <3>1, <4>1, <4>2, <4>3 DEF Numbered
    <3>3. ASSUME NEW j \in GatewayKeys, istioGateways[j] # None
          PROVE  istioGateways[j].owner <= gatewayEdits'
      <4>1. istioGateways[j].owner \in Nat
        BY <3>3, GatewayInputs DEF GatewayTypeOK, IstioGateway
      <4> QED
        BY <1>t, <2>1, <3>3, <4>1 DEF HistoryIsSound, NumbersArePast
    <3>4. gatewayWorker.pc # "idle" => Numbered(gatewayWorker.obj)'
      <4>1. gatewayWorker.pc # "idle" => gatewayWorker.obj \in Gateway
        BY WorkerType DEF BusyWorker
      <4> QED
        BY <2>1, <2>2, <4>1 DEF HistoryIsSound, NumbersArePast, Numbered
    <3> QED
      BY <2>1, <3>2, <3>3, <3>4 DEF NumbersArePast
  <2>4. CopiesAgree'
    <3>1. \A obj \in Gateway: Numbered(obj) => obj.rev # written.rev
      <4>1. \A obj \in Gateway: obj.rev \in Nat /\ obj # None
        BY GatewayInputs, NoneIsNoGateway DEF Gateway
      <4> QED
        BY <1>t, <1>1, <4>1 DEF Numbered
    <3>2. \A j \in GatewayKeys: seenGateways[j] # None
            => seenGateways[j] \in Gateway /\ Numbered(seenGateways[j])
      BY DEF GatewayTypeOK, HistoryIsSound, NumbersArePast
    <3>3. gatewayWorker.pc # "idle"
            => gatewayWorker.obj \in Gateway /\ Numbered(gatewayWorker.obj)
      BY WorkerType DEF BusyWorker, HistoryIsSound, NumbersArePast
    <3> QED
      BY <2>1, <3>1, <3>2, <3>3
      DEF CopiesAgree, SameRevision, Handling, HistoryIsSound, GatewayTypeOK
  <2>5. NewsIsNoted'
    BY <2>1 DEF NewsIsNoted, HistoryIsSound
  <2> QED
    BY <2>3, <2>4, <2>5 DEF HistoryIsSound
<1>2. CASE CreateGateway(k)
  <2>1. PICK spec \in GatewaySpecs:
          WriteGateway(k, [spec |-> spec, rev |-> gatewayEdits + 1,
                           born |-> gatewayEdits + 1, generation |-> 1,
                           status |-> NewGatewayStatus])
    BY <1>2 DEF CreateGateway
  <2> QED
    BY <1>t, <1>1, <2>1
<1>3. CASE EditGateway(k)
  <2>1. PICK spec \in GatewaySpecs:
          WriteGateway(k, [gateways[k] EXCEPT !.spec = spec,
                                              !.rev = gatewayEdits + 1,
                                              !.generation = @ + 1])
    BY <1>3 DEF EditGateway
  <2> DEFINE written == [gateways[k] EXCEPT !.spec = spec, !.rev = gatewayEdits + 1,
                                            !.generation = @ + 1]
  <2>2. gateways[k] \in Gateway
    BY <1>3 DEF EditGateway, GatewayTypeOK
  <2>3. written.rev = gatewayEdits + 1 /\ written.born = gateways[k].born
    BY <2>2 DEF Gateway
  <2>4. gateways[k].born <= gatewayEdits /\ gateways[k].born \in Nat
    BY <2>2, NoneIsNoGateway, GatewayInputs
    DEF HistoryIsSound, NumbersArePast, Numbered, Gateway
  <2>5. written.born <= gatewayEdits + 1
    BY <1>t, <2>3, <2>4
  <2> QED
    BY <1>1, <2>1, <2>3, <2>5
<1>4. CASE DeleteGateway(k)
  BY <1>4
  DEF DeleteGateway, HistoryIsSound, NumbersArePast, Numbered, CopiesAgree,
      SameRevision, Handling, NewsIsNoted, GatewayTypeOK
<1> QED
  BY <1>2, <1>3, <1>4

\* Every step keeps this.
LEMMA HistoryStep ==
    GatewayTypeOK /\ WorkerIsSound /\ HistoryIsSound /\ [Next]_vars
        => HistoryIsSound'
<1> SUFFICES ASSUME GatewayTypeOK, WorkerIsSound, HistoryIsSound, [Next]_vars
             PROVE  HistoryIsSound'
  OBVIOUS
<1> DEFINE w == gatewayWorker
<1> USE DEF istioVars, inputVars, gatewayVars, HistoryIsSound
<1>1. ASSUME NEW k \in GatewayKeys,
             CreateGateway(k) \/ EditGateway(k) \/ DeleteGateway(k)
      PROVE  HistoryIsSound'
  BY <1>1, WriteHistoryStep
<1>2. ASSUME NEW k \in GatewayKeys,
             \/ EditIstioGateway(k) \/ DeleteIstioGateway(k)
             \/ CollectIstioGateway(k)
      PROVE  HistoryIsSound'
  <2>1. PICK written \in IstioGateway \cup {None}:
          /\ WriteIstioGateway(k, written)
          /\ written # None => written.owner = istioGateways[k].owner
    BY <1>2, IstioForms
  <2>2. /\ istioGateways[k] # None
        /\ istioGateways' = [istioGateways EXCEPT ![k] = written]
        /\ istioNews' = istioNews \cup {k}
        /\ UNCHANGED <<gateways, seenGateways, gatewayEdits, gatewayWorker,
                       seenIstioGateways>>
    BY <2>1 DEF WriteIstioGateway
  <2>3. NumbersArePast'
    BY <2>1, <2>2 DEF NumbersArePast, Numbered, GatewayTypeOK
  <2>4. CopiesAgree' /\ NewsIsNoted'
    BY <2>2 DEF CopiesAgree, SameRevision, Handling, NewsIsNoted, GatewayTypeOK
  <2> QED
    BY <2>3, <2>4
<1>3. ASSUME NEW k \in GatewayKeys, InformGateway(k) \/ RelistGateway(k)
      PROVE  HistoryIsSound'
  BY <1>3
  DEF InformGateway, RelistGateway, Enqueue, NumbersArePast, Numbered, CopiesAgree,
      SameRevision, Handling, NewsIsNoted, GatewayTypeOK
<1>4. ASSUME NEW k \in GatewayKeys, InformIstioGateway(k)
      PROVE  HistoryIsSound'
  BY <1>4
  DEF InformIstioGateway, NumbersArePast, Numbered, CopiesAgree, SameRevision,
      Handling, NewsIsNoted, GatewayTypeOK
<1>5. CASE \/ \E k \in GatewayKeys: TimerExpires(k)
           \/ \E r \in Routes: RouteEvent(r)
           \/ \E i \in Ingresses: ServiceEvent(i) \/ ServiceUpdated(i)
           \/ IdentityChanges \/ ConfigEvent \/ UNCHANGED vars
  <2>1. UNCHANGED <<gatewayVars, istioVars, gatewayWorker>>
    BY <1>5
    DEF TimerExpires, RouteEvent, ServiceEvent, ServiceUpdated,
        IdentityChanges, ConfigEvent, vars
  <2> QED
    BY <2>1 DEF NumbersArePast, Numbered, CopiesAgree, SameRevision, Handling,
                NewsIsNoted
<1>6. ASSUME NEW k \in GatewayKeys, StartGateway(k)
      PROVE  HistoryIsSound'
  <2>1. UNCHANGED <<gatewayVars, istioVars>>
    BY <1>6 DEF StartGateway
  <2>2. \/ gatewayWorker'.pc = "idle"
        \/ gatewayWorker'.key = k /\ gatewayWorker'.obj = seenGateways[k]
    BY <1>6, WorkerIdle DEF StartGateway, IdleGatewayWorker
  <2> QED
    BY <2>1, <2>2 DEF NumbersArePast, Numbered, CopiesAgree, SameRevision,
                      Handling, NewsIsNoted
<1>7. CASE Gather
  <2>1. UNCHANGED <<gatewayVars, istioVars>>
    BY <1>7 DEF Gather
  <2>2. gatewayWorker'.key = w.key /\ gatewayWorker'.obj = w.obj /\ w.pc # "idle"
    BY <1>7, GatherForm DEF Gather
  <2> QED
    BY <2>1, <2>2 DEF NumbersArePast, Numbered, CopiesAgree, SameRevision,
                      Handling, NewsIsNoted
<1>8. CASE ApplyCall
  <2>1. /\ UNCHANGED <<gatewayVars, seenIstioGateways>>
        /\ istioNews' = istioNews \cup {w.key}
    BY <1>8 DEF ApplyCall
  <2>2. /\ gatewayWorker'.key = w.key /\ gatewayWorker'.obj = w.obj
        /\ w.pc # "idle" /\ w.key \in GatewayKeys /\ w.obj \in Gateway
    BY <1>8, ApplyForm
  <2>3. PICK written \in IstioGateway \cup {None}:
          /\ istioGateways' = [istioGateways EXCEPT ![w.key] = written]
          /\ written # None =>
                \/ /\ istioGateways[w.key] # None
                   /\ written.owner = istioGateways[w.key].owner
                \/ written.owner = w.obj.born
    BY <1>8, ApplyForm
  <2>4. w.obj.born <= gatewayEdits
    BY <2>2, NoneIsNoGateway DEF NumbersArePast, Numbered
  <2>5. NumbersArePast'
    BY <2>1, <2>2, <2>3, <2>4 DEF NumbersArePast, Numbered, GatewayTypeOK
  <2>6. CopiesAgree'
    BY <2>1, <2>2 DEF CopiesAgree, SameRevision, Handling
  <2>7. NewsIsNoted'
    BY <2>1, <2>2, <2>3 DEF NewsIsNoted, GatewayTypeOK
  <2> QED
    BY <2>5, <2>6, <2>7
<1>9. CASE CallRefused \/ GatewayConflict \/ GatewayError
  <2>1. UNCHANGED <<gatewayVars, istioVars>> /\ gatewayWorker'.pc = "idle"
    BY <1>9, RequeueForms, WorkerIdle DEF RequeueGateway
  <2> QED
    BY <2>1 DEF NumbersArePast, Numbered, CopiesAgree, SameRevision, Handling,
                NewsIsNoted
<1>10. CASE UpdateGatewayStatus
  <2> DEFINE updated == [w.obj EXCEPT !.status = w.status]
  <2>1. /\ UNCHANGED <<seenGateways, gatewayEdits, istioVars>>
        /\ gatewayWorker'.pc = "idle"
    BY <1>10, WorkerIdle DEF UpdateGatewayStatus
  <2>2. /\ w.key \in GatewayKeys
        /\ gateways[w.key] = w.obj /\ w.obj \in Gateway
        /\ gateways' = [gateways EXCEPT ![w.key] = updated]
        /\ updated.spec = w.obj.spec /\ updated.rev = w.obj.rev
        /\ updated.born = w.obj.born
    BY <1>10, UpdateForm
  <2> HIDE DEF updated
  <2>3. NumbersArePast'
    BY <2>1, <2>2, NoneIsNoGateway DEF NumbersArePast, Numbered, GatewayTypeOK
  <2>4. CopiesAgree'
    BY <2>1, <2>2, NoneIsNoGateway
    DEF CopiesAgree, SameRevision, Handling, GatewayTypeOK
  <2>5. NewsIsNoted'
    BY <2>1 DEF NewsIsNoted
  <2> QED
    BY <2>3, <2>4, <2>5
<1>11. CASE Restart
  BY <1>11, WorkerIdle
  DEF Restart, NumbersArePast, Numbered, CopiesAgree, SameRevision, Handling,
      NewsIsNoted
<1> QED
  BY <1>1, <1>2, <1>3, <1>4, <1>5, <1>6, <1>7, <1>8, <1>9, <1>10, <1>11
  DEF Next, Disturbance, UserNext, SystemNext, GatewayInformerNext,
      GatewayReconcileNext, CollectorNext

\* What holds of the data in every state.
SoundState == GatewayTypeOK /\ WorkerIsSound /\ HistoryIsSound

-----------------------------------------------------------------------------
(***************************************************************************)
(* No wake-up is lost but those that the controller cannot hear.  A        *)
(* Gateway is going to be looked at, or the informer is going to bring     *)
(* another revision of it, or the garbage collector is going to delete its *)
(* Istio Gateway, or the worker has it and works from what there is, or    *)
(* another look would change nothing.                                      *)
(***************************************************************************)
Expected(k) == k \in gatewayQueue \cup istioNews

\* A change of the spec that the informer is going to deliver.
Overtaken(k) == seenGateways[k] = None \/ seenGateways[k].rev # gateways[k].rev

PlanNow(k, obj) == GatewayPlan(k, obj, seenIstioGateways[k], identity)

\* What the worker is going to do is what it would plan now.  If it has read
\* another revision, its update of the status will be refused.
OnCourse(k) ==
    /\ gatewayWorker.obj.rev = gateways[k].rev
    /\ gatewayWorker.pc \in {"apply", "update"}
    => \/ k \in unheard
       \/ Plan(gatewayWorker.call, gatewayWorker.status)
            = PlanNow(k, gatewayWorker.obj)

AtRest(k) ==
    \/ k \in unheard
    \/ PlanNow(k, gateways[k]) = Plan(None, gateways[k].status)

GatewaySettled(k) ==
    \/ gateways[k] = None
    \/ Expected(k)
    \/ Orphaned(k)
    \/ Overtaken(k)
    \/ Handling(k) /\ OnCourse(k)
    \/ ~Handling(k) /\ AtRest(k)

GatewayInv == SoundState /\ \A k \in GatewayKeys: GatewaySettled(k)

\* A step that changes none of this for k.
KeptFor(k) ==
    /\ gateways'[k] = gateways[k]
    /\ Expected(k) => Expected(k)'
    /\ istioGateways'[k] = istioGateways[k]
    /\ Overtaken(k) => Overtaken(k)'
    /\ k \in unheard => k \in unheard'
    /\ gateways[k] # None /\ ~Overtaken(k) =>
        \/ k \in unheard'
        \/ \A obj \in Gateway: obj.spec = gateways[k].spec
                               => PlanNow(k, obj)' = PlanNow(k, obj)
    /\ gatewayWorker' = gatewayWorker \/ (~Handling(k) /\ ~Handling(k)')

\* Such a step does no harm.
LEMMA KeptStaysSettled ==
    ASSUME SoundState, NEW k \in GatewayKeys, GatewaySettled(k), KeptFor(k)
    PROVE  GatewaySettled(k)'
<1>1. CASE gateways[k] = None \/ Expected(k) \/ Overtaken(k)
  BY <1>1 DEF GatewaySettled, KeptFor
<1>2. CASE Orphaned(k)
  BY <1>2 DEF GatewaySettled, KeptFor, Orphaned, Owned
<1>3. CASE Handling(k) /\ OnCourse(k) /\ gateways[k] # None /\ ~Overtaken(k)
  <2>1. gatewayWorker' = gatewayWorker /\ Handling(k)'
    BY <1>3 DEF KeptFor, Handling
  <2>2. gatewayWorker.obj \in Gateway /\ gatewayWorker.obj # None
    BY <1>3, WorkerType, NoneIsNoGateway DEF Handling, SoundState, BusyWorker
  <2>3. gatewayWorker.obj.rev = gateways[k].rev
            => gatewayWorker.obj.spec = gateways[k].spec
    BY <1>3, <2>2 DEF SoundState, HistoryIsSound, CopiesAgree, SameRevision
  <2>4. \/ gatewayWorker.obj.rev # gateways[k].rev
        \/ k \in unheard'
        \/ PlanNow(k, gatewayWorker.obj)' = PlanNow(k, gatewayWorker.obj)
    BY <1>3, <2>1, <2>2, <2>3 DEF KeptFor
  <2>5. gateways'[k] = gateways[k] /\ (k \in unheard => k \in unheard')
    BY DEF KeptFor
  <2>6. OnCourse(k)'
    BY <1>3, <2>1, <2>4, <2>5 DEF OnCourse
  <2> QED
    BY <2>1, <2>6 DEF GatewaySettled
<1>4. CASE ~Handling(k) /\ AtRest(k) /\ gateways[k] # None /\ ~Overtaken(k)
  <2>1. ~Handling(k)'
    BY <1>4 DEF KeptFor, Handling
  <2>2. gateways[k] \in Gateway
    BY <1>4 DEF SoundState, GatewayTypeOK
  <2>3. gateways'[k] = gateways[k] /\ (k \in unheard => k \in unheard')
    BY DEF KeptFor
  <2>4. k \in unheard' \/ PlanNow(k, gateways[k])' = PlanNow(k, gateways[k])
    BY <1>4, <2>2, <2>3 DEF KeptFor
  <2>5. AtRest(k)'
    BY <1>4, <2>3, <2>4 DEF AtRest
  <2> QED
    BY <2>1, <2>5 DEF GatewaySettled
<1> QED
  BY <1>1, <1>2, <1>3, <1>4 DEF GatewaySettled

\* A key that waits to be looked at is settled.
LEMMA ExpectedIsSettled ==
    ASSUME NEW k, Expected(k)'
    PROVE  GatewaySettled(k)'
BY DEF GatewaySettled

\* What Reconcile would do is the same if nothing it reads has changed.
LEMMA PlanNowIsKept ==
    ASSUME NEW k, NEW obj,
           routeViews' = routeViews, serviceViews' = serviceViews,
           identity' = identity, seenIstioGateways'[k] = seenIstioGateways[k]
    PROVE  PlanNow(k, obj)' = PlanNow(k, obj)
<1>1. \A id: collectHostsFromServiceRoutes(k, id)'
                = collectHostsFromServiceRoutes(k, id)
  BY DEF collectHostsFromServiceRoutes
<1>2. GatewayPlan(k, obj, seenIstioGateways[k], identity)'
        = GatewayPlan(k, obj, seenIstioGateways[k], identity)
  BY <1>1 DEF GatewayPlan, checkDNSStatus, waitForIdentity
<1> QED
  BY <1>2 DEF PlanNow

\* The writes of users and of the garbage collector leave a Gateway settled.
LEMMA WriteSettledStep ==
    ASSUME SoundState, NEW k \in GatewayKeys, GatewaySettled(k),
           NEW j \in GatewayKeys,
           \/ CreateGateway(j) \/ EditGateway(j) \/ DeleteGateway(j)
           \/ EditIstioGateway(j) \/ DeleteIstioGateway(j)
           \/ CollectIstioGateway(j)
    PROVE  GatewaySettled(k)'
<1> USE DEF istioVars, inputVars, gatewayVars
<1>1. CASE CreateGateway(j) \/ EditGateway(j) \/ DeleteGateway(j)
  <2>1. /\ \A i \in GatewayKeys \ {j}: gateways'[i] = gateways[i]
        /\ UNCHANGED <<seenGateways, istioVars, inputVars, gatewayQueue,
                       gatewayWorker, unheard>>
    BY <1>1
    DEF CreateGateway, EditGateway, DeleteGateway, WriteGateway, SoundState,
        GatewayTypeOK
  <2>2. CASE k # j
    <3>1. \A obj: PlanNow(k, obj)' = PlanNow(k, obj)
      BY <2>1, PlanNowIsKept
    <3>2. KeptFor(k)
      BY <2>1, <2>2, <3>1 DEF KeptFor, Expected, Overtaken
    <3> QED
      BY <3>2, KeptStaysSettled
  <2>3. CASE k = j /\ DeleteGateway(j)
    BY <2>3 DEF DeleteGateway, GatewaySettled, SoundState, GatewayTypeOK
  <2>4. CASE k = j /\ (CreateGateway(j) \/ EditGateway(j))
    <3>1. gateways'[k].rev = gatewayEdits + 1
      <4>1. CASE CreateGateway(k)
        <5>1. PICK spec \in GatewaySpecs:
                WriteGateway(k, [spec |-> spec, rev |-> gatewayEdits + 1,
                                 born |-> gatewayEdits + 1, generation |-> 1,
                                 status |-> NewGatewayStatus])
          BY <4>1 DEF CreateGateway
        <5> QED
          BY <5>1 DEF WriteGateway, SoundState, GatewayTypeOK
      <4>2. CASE EditGateway(k)
        <5>1. PICK spec \in GatewaySpecs:
                WriteGateway(k, [gateways[k] EXCEPT !.spec = spec,
                                                    !.rev = gatewayEdits + 1,
                                                    !.generation = @ + 1])
          BY <4>2 DEF EditGateway
        <5>2. gateways[k] \in Gateway
          BY <4>2 DEF EditGateway, SoundState, GatewayTypeOK
        <5>3. gateways'[k] = [gateways[k] EXCEPT !.spec = spec,
                                                 !.rev = gatewayEdits + 1,
                                                 !.generation = @ + 1]
          BY <5>1 DEF WriteGateway, SoundState, GatewayTypeOK
        <5> QED
          BY <5>2, <5>3 DEF Gateway
      <4> QED
        BY <2>4, <4>1, <4>2
    <3>2. seenGateways[k] # None =>
            seenGateways[k].rev <= gatewayEdits /\ seenGateways[k].rev \in Nat
      BY GatewayInputs
      DEF SoundState, HistoryIsSound, NumbersArePast, Numbered, GatewayTypeOK,
          Gateway
    <3>3. gatewayEdits \in Nat
      BY GatewayInputs DEF SoundState, GatewayTypeOK
    <3>4. Overtaken(k)'
      BY <2>1, <3>1, <3>2, <3>3 DEF Overtaken
    <3> QED
      BY <3>4 DEF GatewaySettled
  <2> QED
    BY <1>1, <2>2, <2>3, <2>4
<1>2. CASE \/ EditIstioGateway(j) \/ DeleteIstioGateway(j)
           \/ CollectIstioGateway(j)
  <2>1. PICK written \in IstioGateway \cup {None}: WriteIstioGateway(j, written)
    BY <1>2, IstioForms DEF SoundState
  <2>2. CASE k = j
    BY <2>1, <2>2, ExpectedIsSettled DEF WriteIstioGateway, Expected
  <2>3. CASE k # j
    <3>1. \A obj: PlanNow(k, obj)' = PlanNow(k, obj)
      BY <2>1, PlanNowIsKept DEF WriteIstioGateway
    <3>2. KeptFor(k)
      BY <2>1, <2>3, <3>1
      DEF WriteIstioGateway, KeptFor, Expected, Overtaken, SoundState,
          GatewayTypeOK
    <3> QED
      BY <3>2, KeptStaysSettled
  <2> QED
    BY <2>2, <2>3
<1> QED
  BY <1>1, <1>2

\* So does what the informer delivers: another revision puts the key into
\* the queue or goes unheard, and a status alone changes nothing that
\* Reconcile goes by.
LEMMA InformSettledStep ==
    ASSUME SoundState, NEW k \in GatewayKeys, GatewaySettled(k),
           NEW j \in GatewayKeys,
           \/ InformGateway(j) \/ RelistGateway(j)
           \/ InformIstioGateway(j) \/ TimerExpires(j)
    PROVE  GatewaySettled(k)'
<1> USE DEF istioVars, inputVars, gatewayVars, Enqueue
<1>1. CASE InformGateway(j)
  <2>1. /\ seenGateways' = [seenGateways EXCEPT ![j] = gateways[j]]
        /\ gatewayQueue \subseteq gatewayQueue'
        /\ UNCHANGED <<gateways, istioVars, inputVars, gatewayWorker, unheard>>
    BY <1>1 DEF InformGateway
  <2>2. \A obj: PlanNow(k, obj)' = PlanNow(k, obj)
    BY <2>1, PlanNowIsKept
  <2>3. Overtaken(k) => Overtaken(k)' \/ gateways[k] = None \/ Expected(k)'
    BY <1>1 DEF InformGateway, Overtaken, Expected, SoundState, GatewayTypeOK
  <2>4. gateways[k] = None \/ Expected(k)' => GatewaySettled(k)'
    BY <2>1 DEF GatewaySettled
  <2>5. (Overtaken(k) => Overtaken(k)') => KeptFor(k)
    BY <2>1, <2>2 DEF KeptFor, Expected
  <2> QED
    BY <2>3, <2>4, <2>5, KeptStaysSettled
<1>2. CASE InformIstioGateway(j)
  <2>1. CASE k = j
    BY <1>2, <2>1, ExpectedIsSettled DEF InformIstioGateway, Expected
  <2>2. CASE k # j
    <3>1. \A obj: PlanNow(k, obj)' = PlanNow(k, obj)
      BY <1>2, <2>2, PlanNowIsKept
      DEF InformIstioGateway, SoundState, GatewayTypeOK
    <3>2. KeptFor(k)
      BY <1>2, <2>2, <3>1 DEF InformIstioGateway, KeptFor, Expected, Overtaken
    <3> QED
      BY <3>2, KeptStaysSettled
  <2> QED
    BY <2>1, <2>2
<1>3. CASE TimerExpires(j)
  <2>1. \A obj: PlanNow(k, obj)' = PlanNow(k, obj)
    BY <1>3, PlanNowIsKept DEF TimerExpires
  <2>2. KeptFor(k)
    BY <1>3, <2>1 DEF TimerExpires, KeptFor, Expected, Overtaken
  <2> QED
    BY <2>2, KeptStaysSettled
<1>4. CASE RelistGateway(j)
  <2>1. /\ UNCHANGED <<gateways, istioVars, inputVars, gatewayQueue,
                       gatewayWorker>>
        /\ unheard' = unheard \cup {j}
        /\ \A i \in GatewayKeys \ {j}: seenGateways'[i] = seenGateways[i]
    BY <1>4 DEF RelistGateway, SoundState, GatewayTypeOK
  <2>2. CASE k = j
    BY <2>1, <2>2 DEF GatewaySettled, OnCourse, AtRest
  <2>3. CASE k # j
    <3>1. \A obj: PlanNow(k, obj)' = PlanNow(k, obj)
      BY <2>1, PlanNowIsKept
    <3>2. KeptFor(k)
      BY <2>1, <2>3, <3>1 DEF KeptFor, Expected, Overtaken
    <3> QED
      BY <3>2, KeptStaysSettled
  <2> QED
    BY <2>2, <2>3
<1> QED
  BY <1>1, <1>2, <1>3, <1>4

\* So does a change of what else Reconcile reads: of a route that named or
\* names the Gateway, or of its load balancer.
LEMMA InputSettledStep ==
    ASSUME SoundState, NEW k \in GatewayKeys, GatewaySettled(k),
           \/ \E r \in Routes: RouteEvent(r)
           \/ \E i \in Ingresses: ServiceEvent(i) \/ ServiceUpdated(i)
           \/ IdentityChanges \/ ConfigEvent
    PROVE  GatewaySettled(k)'
<1> USE DEF istioVars, inputVars, gatewayVars, Enqueue
<1>1. ASSUME NEW r \in Routes, RouteEvent(r)
      PROVE  GatewaySettled(k)'
  <2>1. PICK new \in RouteSpecs \cup {None}:
          /\ routeViews' = [routeViews EXCEPT ![r] = new]
          /\ gatewayQueue' = gatewayQueue
                \cup mapServiceRouteToGateway(routeViews[r], new)
    BY <1>1 DEF RouteEvent
  <2>2. CASE namesGateway(routeViews[r], k) \/ namesGateway(new, k)
    BY <2>1, <2>2, ExpectedIsSettled DEF Expected, mapServiceRouteToGateway
  <2>3. CASE ~namesGateway(routeViews[r], k) /\ ~namesGateway(new, k)
    <3>1. {q \in Routes : namesGateway(routeViews'[q], k)}
            = {q \in Routes : namesGateway(routeViews[q], k)}
      BY <2>1, <2>3 DEF SoundState, GatewayTypeOK
    <3>2. \A q \in Routes: namesGateway(routeViews[q], k)
            => routeViews'[q] = routeViews[q]
      BY <2>1, <2>3 DEF SoundState, GatewayTypeOK
    <3>3. \A id: collectHostsFromServiceRoutes(k, id)'
                    = collectHostsFromServiceRoutes(k, id)
      BY <3>1, <3>2 DEF collectHostsFromServiceRoutes
    <3>4. ASSUME NEW obj PROVE PlanNow(k, obj)' = PlanNow(k, obj)
      BY <1>1, <3>3
      DEF RouteEvent, PlanNow, GatewayPlan, checkDNSStatus, waitForIdentity
    <3>5. KeptFor(k)
      BY <1>1, <3>4 DEF RouteEvent, KeptFor, Expected, Overtaken
    <3> QED
      BY <3>5, KeptStaysSettled
  <2> QED
    BY <2>2, <2>3
<1>2. ASSUME NEW i \in Ingresses, ServiceEvent(i) \/ ServiceUpdated(i)
      PROVE  GatewaySettled(k)'
  <2>1. /\ UNCHANGED <<gatewayVars, istioVars, routeViews, identity,
                       gatewayWorker>>
        /\ gatewayQueue \subseteq gatewayQueue' /\ unheard \subseteq unheard'
        /\ \A c \in Ingresses \ {i}: serviceViews'[c] = serviceViews[c]
    BY <1>2 DEF ServiceEvent, ServiceUpdated, SoundState, GatewayTypeOK
  <2>2. CASE seenGateways[k] # None /\ seenGateways[k].spec.controller = i
    <3>1. CASE ServiceEvent(i)
      <4>1. Expected(k)'
        BY <2>2, <3>1
        DEF ServiceEvent, mapServiceToGateways, ListedGateways, Expected
      <4> QED
        BY <4>1, ExpectedIsSettled
    <3>2. CASE ServiceUpdated(i)
      <4>1. k \in unheard'
        BY <2>2, <3>2 DEF ServiceUpdated
      <4>2. KeptFor(k)
        BY <2>1, <4>1 DEF KeptFor, Expected, Overtaken
      <4> QED
        BY <4>2, KeptStaysSettled
    <3> QED
      BY <1>2, <3>1, <3>2
  <2>3. CASE ~(seenGateways[k] # None /\ seenGateways[k].spec.controller = i)
    <3>1. ASSUME gateways[k] # None, ~Overtaken(k),
                 NEW obj \in Gateway, obj.spec = gateways[k].spec
          PROVE  PlanNow(k, obj)' = PlanNow(k, obj)
      <4>1. seenGateways[k] # None /\ seenGateways[k].spec = gateways[k].spec
        BY <3>1
        DEF Overtaken, SoundState, HistoryIsSound, CopiesAgree, SameRevision
      <4>2. obj.spec.controller \in Ingresses \ {i}
        BY <2>3, <3>1, <4>1, GatewayInputs DEF Gateway, GatewaySpec
      <4>3. serviceViews'[obj.spec.controller] = serviceViews[obj.spec.controller]
        BY <2>1, <4>2
      <4>4. \A id: collectHostsFromServiceRoutes(k, id)'
                      = collectHostsFromServiceRoutes(k, id)
        BY <2>1 DEF collectHostsFromServiceRoutes
      <4> QED
        BY <2>1, <4>3, <4>4
        DEF PlanNow, GatewayPlan, checkDNSStatus, waitForIdentity
    <3>2. KeptFor(k)
      BY <2>1, <3>1 DEF KeptFor, Expected, Overtaken
    <3> QED
      BY <3>2, KeptStaysSettled
  <2> QED
    BY <2>2, <2>3
<1>3. CASE IdentityChanges
  <2>1. KeptFor(k)
    BY <1>3 DEF IdentityChanges, KeptFor, Expected, Overtaken
  <2> QED
    BY <2>1, KeptStaysSettled
<1>4. CASE ConfigEvent
  <2>1. \A obj: PlanNow(k, obj)' = PlanNow(k, obj)
    BY <1>4, PlanNowIsKept DEF ConfigEvent
  <2>2. KeptFor(k)
    BY <1>4, <2>1 DEF ConfigEvent, KeptFor, Expected, Overtaken
  <2> QED
    BY <2>2, KeptStaysSettled
<1> QED
  BY <1>1, <1>2, <1>3, <1>4

\* So does each step of Reconcile, for the Gateway it handles and for the
\* others.
LEMMA ReconcileSettledStep ==
    ASSUME SoundState, NEW k \in GatewayKeys, GatewaySettled(k),
           \/ \E j \in GatewayKeys: StartGateway(j)
           \/ Gather \/ ApplyCall \/ UpdateGatewayStatus
           \/ CallRefused \/ GatewayConflict \/ GatewayError
    PROVE  GatewaySettled(k)'
<1> DEFINE w == gatewayWorker
<1> USE DEF istioVars, inputVars, gatewayVars, Enqueue
<1>1. ASSUME NEW j \in GatewayKeys, StartGateway(j)
      PROVE  GatewaySettled(k)'
  <2>1. /\ UNCHANGED <<gatewayVars, istioVars, inputVars, unheard>>
        /\ gatewayQueue' = gatewayQueue \ {j}
        /\ ~Handling(k)
    BY <1>1 DEF StartGateway, Handling
  <2>2. CASE k # j
    <3>1. ~Handling(k)'
      BY <1>1, <2>2, WorkerIdle DEF StartGateway, Handling, IdleGatewayWorker
    <3>2. \A obj: PlanNow(k, obj)' = PlanNow(k, obj)
      BY <2>1, PlanNowIsKept
    <3>3. KeptFor(k)
      BY <2>1, <2>2, <3>1, <3>2 DEF KeptFor, Expected, Overtaken
    <3> QED
      BY <3>3, KeptStaysSettled
  <2>3. CASE k = j
    <3>1. CASE gateways[k] = None \/ Overtaken(k)
      BY <2>1, <3>1 DEF GatewaySettled, Overtaken
    <3>2. CASE ~Overtaken(k)
      <4>1. gatewayWorker' = [pc |-> "gather", key |-> k,
                              obj |-> seenGateways[k], call |-> None,
                              status |-> None]
        BY <1>1, <2>3, <3>2 DEF StartGateway, IdleGatewayWorker, Overtaken
      <4>2. Handling(k)' /\ OnCourse(k)'
        BY <2>1, <3>2, <4>1 DEF Handling, OnCourse, Overtaken
      <4> QED
        BY <4>2 DEF GatewaySettled
    <3> QED
      BY <3>1, <3>2
  <2> QED
    BY <2>2, <2>3
<1>2. CASE Gather
  <2>1. /\ UNCHANGED <<gatewayVars, istioVars, inputVars, gatewayQueue>>
        /\ unheard' = unheard \ {w.key}
        /\ w.pc = "gather"
    BY <1>2 DEF Gather
  <2>2. /\ w.key \in GatewayKeys
        /\ PlanIsSound(PlanNow(w.key, w.obj), w.key, w.obj)
        /\ gatewayWorker'.pc \in {"apply", "update"}
        /\ gatewayWorker'.key = w.key
        /\ gatewayWorker'.obj = w.obj
        /\ gatewayWorker'.call = PlanNow(w.key, w.obj).call
        /\ gatewayWorker'.status = PlanNow(w.key, w.obj).status
    BY <1>2, GatherForm DEF PlanNow, SoundState
  <2>3. \A obj: PlanNow(k, obj)' = PlanNow(k, obj)
    BY <2>1, PlanNowIsKept
  <2>4. CASE k # w.key
    <3>1. KeptFor(k)
      BY <2>1, <2>2, <2>3, <2>4 DEF KeptFor, Expected, Overtaken, Handling
    <3> QED
      BY <3>1, KeptStaysSettled
  <2>5. CASE k = w.key
    <3>1. Handling(k) /\ Handling(k)'
      BY <2>1, <2>2, <2>5 DEF Handling
    <3>2. CASE OnCourse(k)
      <4>1. Plan(gatewayWorker'.call, gatewayWorker'.status) = PlanNow(k, w.obj)
        BY <2>2, <2>5 DEF PlanIsSound
      <4>2. PlanNow(k, gatewayWorker.obj)' = PlanNow(k, w.obj)
        BY <2>2, <2>3
      <4>3. OnCourse(k)'
        BY <2>1, <2>2, <3>2, <4>1, <4>2 DEF OnCourse
      <4> QED
        BY <3>1, <4>3 DEF GatewaySettled
    <3>3. CASE gateways[k] = None \/ Expected(k) \/ Orphaned(k) \/ Overtaken(k)
      BY <2>1, <3>3 DEF GatewaySettled, Expected, Orphaned, Owned, Overtaken
    <3> QED
      BY <3>1, <3>2, <3>3 DEF GatewaySettled
  <2> QED
    BY <2>4, <2>5
<1>3. CASE ApplyCall
  <2>1. /\ UNCHANGED <<gatewayVars, seenIstioGateways, inputVars, gatewayQueue,
                       unheard>>
        /\ istioNews' = istioNews \cup {w.key}
    BY <1>3 DEF ApplyCall
  <2>2. /\ w.pc = "apply" /\ w.key \in GatewayKeys
        /\ gatewayWorker'.key = w.key
    BY <1>3, ApplyForm DEF SoundState
  <2>3. CASE k = w.key
    BY <2>1, <2>3, ExpectedIsSettled DEF Expected
  <2>4. CASE k # w.key
    <3>1. istioGateways'[k] = istioGateways[k]
      BY <1>3, <2>2, <2>4 DEF ApplyCall, SoundState, GatewayTypeOK
    <3>2. \A obj: PlanNow(k, obj)' = PlanNow(k, obj)
      BY <2>1, PlanNowIsKept
    <3>3. KeptFor(k)
      BY <2>1, <2>2, <2>4, <3>1, <3>2 DEF KeptFor, Expected, Overtaken, Handling
    <3> QED
      BY <3>3, KeptStaysSettled
  <2> QED
    BY <2>3, <2>4
<1>4. CASE CallRefused \/ GatewayConflict \/ GatewayError
  <2>1. RequeueGateway /\ w.pc # "idle"
    BY <1>4, RequeueForms
  <2>2. /\ UNCHANGED <<gatewayVars, istioVars, inputVars, unheard>>
        /\ gatewayQueue' = gatewayQueue \cup {w.key}
        /\ gatewayWorker'.pc = "idle"
    BY <2>1, WorkerIdle DEF RequeueGateway
  <2>3. CASE k = w.key
    BY <2>2, <2>3, ExpectedIsSettled DEF Expected
  <2>4. CASE k # w.key
    <3>1. \A obj: PlanNow(k, obj)' = PlanNow(k, obj)
      BY <2>2, PlanNowIsKept
    <3>2. KeptFor(k)
      BY <2>2, <2>4, <3>1 DEF KeptFor, Expected, Overtaken, Handling
    <3> QED
      BY <3>2, KeptStaysSettled
  <2> QED
    BY <2>3, <2>4
<1>5. CASE UpdateGatewayStatus
  <2> DEFINE updated == [w.obj EXCEPT !.status = w.status]
  <2>1. /\ UNCHANGED <<seenGateways, istioVars, inputVars, gatewayQueue, unheard>>
        /\ gatewayWorker'.pc = "idle"
    BY <1>5, WorkerIdle DEF UpdateGatewayStatus
  <2>2. /\ w.pc = "update" /\ w.key \in GatewayKeys /\ w.obj \in Gateway
        /\ w.call = None
        /\ gateways[w.key] = w.obj
        /\ gateways' = [gateways EXCEPT ![w.key] = updated]
        /\ updated \in Gateway
        /\ updated.spec = w.obj.spec /\ updated.rev = w.obj.rev
        /\ updated.born = w.obj.born /\ updated.status = w.status
    BY <1>5, UpdateForm DEF SoundState
  <2>3. \A obj: PlanNow(k, obj)' = PlanNow(k, obj)
    BY <2>1, PlanNowIsKept
  <2>4. CASE k # w.key
    <3>1. gateways'[k] = gateways[k]
      BY <2>2, <2>4 DEF SoundState, GatewayTypeOK
    <3>2. KeptFor(k)
      BY <2>1, <2>3, <2>4, <3>1 DEF KeptFor, Expected, Overtaken, Handling
    <3> QED
      BY <3>2, KeptStaysSettled
  <2>5. CASE k = w.key
    <3>1. gateways'[k] = updated /\ gateways[k] = w.obj
      BY <2>2, <2>5 DEF SoundState, GatewayTypeOK
    <3>2. ~Handling(k)'
      BY <2>1 DEF Handling
    <3>3. CASE OnCourse(k)
      <4>1. CASE k \in unheard
        BY <2>1, <3>2, <4>1 DEF GatewaySettled, AtRest
      <4>2. CASE Plan(None, w.status) = PlanNow(k, w.obj)
        <5>1. PlanNow(k, w.obj).status = w.status
          BY <4>2 DEF Plan
        <5>2. PlanNow(k, updated) = PlanNow(k, w.obj)
          BY <2>2, <5>1, PlanIsRepeated DEF PlanNow
        <5> HIDE DEF updated
        <5>3. PlanNow(k, gateways[k])' = Plan(None, gateways'[k].status)
          BY <2>2, <2>3, <3>1, <4>2, <5>2
        <5> QED
          BY <3>2, <5>3 DEF GatewaySettled, AtRest
      <4> QED
        BY <2>2, <3>1, <3>3, <4>1, <4>2 DEF OnCourse
    <3>4. CASE Expected(k) \/ Overtaken(k) \/ Orphaned(k)
      <4>1. updated # None
        BY <2>2, NoneIsNoGateway
      <4>2. updated.rev = gateways[k].rev /\ updated.born = gateways[k].born
        BY <2>2, <3>1
      <4> HIDE DEF updated
      <4>3. Expected(k) => Expected(k)'
        BY <2>1 DEF Expected
      <4>4. Overtaken(k) => Overtaken(k)'
        BY <2>1, <3>1, <4>2 DEF Overtaken
      <4>5. Orphaned(k) => Orphaned(k)'
        BY <2>1, <2>2, <3>1, <4>1, <4>2, NoneIsNoGateway DEF Orphaned, Owned
      <4> QED
        BY <3>4, <4>3, <4>4, <4>5 DEF GatewaySettled
    <3>5. Handling(k) /\ gateways[k] # None
      BY <2>2, <2>5, <3>1, NoneIsNoGateway DEF Handling
    <3> QED
      BY <3>3, <3>4, <3>5 DEF GatewaySettled
  <2> QED
    BY <2>4, <2>5
<1> QED
  BY <1>1, <1>2, <1>3, <1>4, <1>5

\* After a restart everything is looked at, and before that nothing is
\* promised, since the identity may read differently.
LEMMA RestartSettledStep ==
    ASSUME NEW k \in GatewayKeys, Restart
    PROVE  GatewaySettled(k)'
BY WorkerIdle DEF Restart, GatewaySettled, Handling, AtRest

\* Init establishes the invariant.
LEMMA GatewayInvInit == Init => GatewayInv
<1> SUFFICES ASSUME Init PROVE GatewayInv
  OBVIOUS
<1>1. \A k \in GatewayKeys: gateways[k] = None
  BY DEF Init
<1> QED
  BY <1>1, GatewayTypeInit, HistoryInit
  DEF GatewayInv, SoundState, GatewaySettled

\* Every step keeps it.
LEMMA GatewayInvStep == GatewayInv /\ [Next]_vars => GatewayInv'
<1> SUFFICES ASSUME GatewayInv, [Next]_vars PROVE GatewayInv'
  OBVIOUS
<1>1. SoundState'
  BY GatewayTypeStep, HistoryStep DEF GatewayInv, SoundState
<1>2. ASSUME NEW k \in GatewayKeys PROVE GatewaySettled(k)'
  <2>1. SoundState /\ GatewaySettled(k)
    BY DEF GatewayInv
  <2>2. ASSUME NEW j \in GatewayKeys,
               \/ CreateGateway(j) \/ EditGateway(j) \/ DeleteGateway(j)
               \/ EditIstioGateway(j) \/ DeleteIstioGateway(j)
               \/ CollectIstioGateway(j)
        PROVE  GatewaySettled(k)'
    BY <2>1, <2>2, WriteSettledStep
  <2>3. ASSUME NEW j \in GatewayKeys,
               \/ InformGateway(j) \/ RelistGateway(j)
               \/ InformIstioGateway(j) \/ TimerExpires(j)
        PROVE  GatewaySettled(k)'
    BY <2>1, <2>3, InformSettledStep
  <2>4. CASE \/ \E r \in Routes: RouteEvent(r)
             \/ \E i \in Ingresses: ServiceEvent(i) \/ ServiceUpdated(i)
             \/ IdentityChanges \/ ConfigEvent
    BY <2>1, <2>4, InputSettledStep
  <2>5. CASE \/ \E j \in GatewayKeys: StartGateway(j)
             \/ Gather \/ ApplyCall \/ UpdateGatewayStatus
             \/ CallRefused \/ GatewayConflict \/ GatewayError
    BY <2>1, <2>5, ReconcileSettledStep
  <2>6. CASE Restart
    BY <2>6, RestartSettledStep
  <2>7. CASE UNCHANGED vars
    <3>1. \A obj: PlanNow(k, obj)' = PlanNow(k, obj)
      BY <2>7, PlanNowIsKept DEF vars, inputVars, istioVars
    <3>2. KeptFor(k)
      BY <2>7, <3>1
      DEF vars, gatewayVars, istioVars, KeptFor, Expected, Overtaken
    <3> QED
      BY <2>1, <3>2, KeptStaysSettled
  <2> QED
    BY <2>2, <2>3, <2>4, <2>5, <2>6, <2>7
    DEF Next, Disturbance, UserNext, SystemNext, GatewayInformerNext,
        GatewayReconcileNext, CollectorNext
<1> QED
  BY <1>1, <1>2 DEF GatewayInv

\* The invariant holds in every state: no wake-up is lost.
THEOREM GatewayInvariant == Spec => []GatewayInv
BY GatewayInvInit, GatewayInvStep, PTL DEF Spec

-----------------------------------------------------------------------------
(***************************************************************************)
(* What follows.                                                           *)
(***************************************************************************)
\* At rest the informer has what there is, and nothing else is to be done.
LEMMA QuiescentIsAtRest ==
    ASSUME GatewayInv, GatewayQuiescent, NEW k \in GatewayKeys \ unheard,
           gateways[k] # None
    PROVE  PlanNow(k, gateways[k]) = Plan(None, gateways[k].status)
<1>1. GatewaySettled(k)
  BY DEF GatewayInv
<1>2. ~Expected(k) /\ ~Orphaned(k) /\ ~Overtaken(k)
  BY DEF GatewayQuiescent, Expected, Overtaken
<1>3. ~Handling(k)
  BY WorkerIdle DEF GatewayQuiescent, Handling
<1> QED
  BY <1>1, <1>2, <1>3 DEF GatewaySettled, AtRest

\* At rest each Gateway serves its routes.
LEMMA QuiescentServes == GatewayInv => RestServesRoutes
<1> SUFFICES ASSUME GatewayInv, GatewayQuiescent,
                    NEW k \in GatewayKeys \ unheard
             PROVE  ServesItsRoutes(k)
  BY DEF RestServesRoutes
<1>1. istioGateways[k] # None => Owned(k)
  BY DEF GatewayQuiescent, Orphaned
<1>2. CASE gateways[k] = None
  BY <1>1, <1>2 DEF ServesItsRoutes, Owned
<1>3. CASE gateways[k] # None /\ ~(gateways[k].spec.wellFormed /\ identity # None)
  BY <1>3 DEF ServesItsRoutes
<1>4. CASE gateways[k] # None /\ gateways[k].spec.wellFormed /\ identity # None
  <2> DEFINE obj == gateways[k]
             hosts == collectHostsFromServiceRoutes(k, identity)
             address == checkDNSStatus(obj.spec)
             desired == generateIstioGateway(obj, hosts)
             istio == istioGateways[k]
  <2>1. seenIstioGateways[k] = istio
    BY DEF GatewayInv, SoundState, HistoryIsSound, NewsIsNoted, GatewayQuiescent
  <2>2. GatewayPlan(k, obj, istio, identity) = Plan(None, obj.status)
    BY <1>4, <2>1, QuiescentIsAtRest DEF PlanNow
  <2>3. /\ Call(None, desired) # None
        /\ istio # None => /\ Call(istio, None) # None
                           /\ Call(istio, desired) # None
    <3>1. /\ obj \in Gateway /\ identity \in Identities
          /\ istio \in IstioGateway \cup {None}
      BY <1>4 DEF GatewayInv, SoundState, GatewayTypeOK
    <3>2. hosts \in SUBSET (Hosts \X Zones)
      BY <3>1, ReadsType DEF GatewayInv, SoundState, Gateway
    <3>3. desired \in IstioGateway
      BY <3>1, <3>2, GatewayInputs
      DEF generateIstioGateway, IstioGateway, Gateway, GatewaySpec
    <3> HIDE DEF desired
    <3> QED
      BY <3>1, <3>3, NoneIsNoGateway DEF Call, IstioCall
  <2>4. CASE hosts = {}
    <3>1. GatewayPlan(k, obj, istio, identity) =
            Plan(IF istio = None THEN None ELSE Call(istio, None),
                 gatewayStatus(obj, "Pending", "NoServiceRoutes", address))
      BY <1>4, <2>4 DEF GatewayPlan
    <3>2. /\ (IF istio = None THEN None ELSE Call(istio, None)) = None
          /\ obj.status = gatewayStatus(obj, "Pending", "NoServiceRoutes", address)
      BY <2>2, <3>1 DEF Plan
    <3>3. obj.status.phase = "Pending" /\ obj.status.address = address
      BY <3>2 DEF gatewayStatus
    <3> QED
      BY <1>4, <2>3, <2>4, <3>2, <3>3 DEF ServesItsRoutes
  <2>5. CASE hosts # {}
    <3> DEFINE call == IF istio = None THEN Call(None, desired)
                       ELSE IF istioGatewayNeedsUpdate(istio, desired)
                       THEN Call(istio, desired) ELSE None
               active == gatewayStatus(obj, "Active", "ReconciliationSucceeded",
                                       address)
    <3>1. GatewayPlan(k, obj, istio, identity) = Plan(call, active)
      BY <1>4, <2>5 DEF GatewayPlan
    <3>2. call = None /\ obj.status = active
      BY <2>2, <3>1 DEF Plan
    <3>3. obj.status.phase = "Active" /\ obj.status.address = address
      BY <3>2 DEF gatewayStatus
    <3>4. istio # None /\ ~istioGatewayNeedsUpdate(istio, desired)
      BY <2>3, <3>2
    <3>5. istio.selector = obj.spec.controller /\ istio.hosts = hosts
      BY <3>4 DEF istioGatewayNeedsUpdate, generateIstioGateway
    <3> QED
      BY <1>1, <1>4, <2>5, <3>3, <3>4, <3>5 DEF ServesItsRoutes
  <2> QED
    BY <2>4, <2>5
<1> QED
  BY <1>2, <1>3, <1>4

\* At rest each Gateway that was looked at since something changed unheard
\* has an Istio Gateway with the hosts of its routes, on its ingress, or none
\* if no route names it.
THEOREM RoutesAreServed == Spec => []RestServesRoutes
BY GatewayInvariant, QuiescentServes, PTL

\* A step of the worker that takes the Istio Gateway of the Gateway that is
\* there has a reason.
LEMMA WithdrawalHasReason ==
    ASSUME GatewayTypeOK, WorkerIsSound, [Next]_vars, NEW k \in GatewayKeys,
           gatewayWorker.key = k, gatewayWorker' # gatewayWorker,
           istioGateways[k] # None, istioGateways'[k] = None, Owned(k)
    PROVE  Unrouted(k) \/ k \in gatewayQueue
<1> USE DEF istioVars, gatewayVars
<1>1. CASE ApplyCall
  <2> DEFINE w == gatewayWorker
  <2>1. CallIsSound(w.call, k, w.obj) /\ w.pc = "apply"
    BY <1>1, ApplyForm
  <2>2. Accepted(w.call, istioGateways[k])
    BY <1>1 DEF ApplyCall
  <2>3. Written(w.call, istioGateways[k]) = None
    BY <1>1 DEF ApplyCall, GatewayTypeOK
  <2>4. w.call.new = None
    <3>1. SUFFICES ASSUME w.call.new # None PROVE FALSE
      OBVIOUS
    <3>2. w.call.old # None
      BY <2>2 DEF Accepted
    <3>3. istioGateways[k] \in IstioGateway
      BY DEF GatewayTypeOK
    <3>4. Written(w.call, istioGateways[k]) \in IstioGateway
      BY <2>1, <2>2, <2>3, <3>1, <3>2, <3>3, StaysIstioGateway
    <3> QED
      BY <2>3, <3>4, NoneIsNoGateway
  <2> QED
    BY <2>1, <2>4 DEF WorkerIsSound
<1>2. CASE UNCHANGED istioGateways \/ UNCHANGED gatewayWorker
  BY <1>2
<1>3. CASE Next /\ ~ApplyCall
  <2>1. UNCHANGED istioGateways \/ UNCHANGED gatewayWorker
    BY <1>3
    DEF Next, Disturbance, UserNext, SystemNext, GatewayInformerNext,
        GatewayReconcileNext, CollectorNext, CreateGateway, EditGateway,
        DeleteGateway, WriteGateway, EditIstioGateway, DeleteIstioGateway,
        WriteIstioGateway, CollectIstioGateway, InformGateway,
        RelistGateway, InformIstioGateway, TimerExpires, RouteEvent, ServiceEvent,
        ServiceUpdated, IdentityChanges, ConfigEvent, StartGateway, Gather,
        CallRefused, GatewayConflict, GatewayError, RequeueGateway,
        UpdateGatewayStatus, Restart
  <2> QED
    BY <1>2, <2>1
<1> QED
  BY <1>1, <1>2, <1>3 DEF vars

\* The controller withdraws an Istio Gateway only when no route names its
\* Gateway or another look is to come: never for want of an identity or
\* because a spec is refused.
THEOREM IstioGatewaysAreKept == Spec => IstioGatewayStays
<1>1. GatewayTypeOK /\ WorkerIsSound /\ [Next]_vars
        => [\A k \in GatewayKeys:
              (/\ gatewayWorker.key = k /\ gatewayWorker' # gatewayWorker
               /\ istioGateways[k] # None /\ istioGateways'[k] = None
               /\ Owned(k))
              => \/ \A r \in Routes: ~namesGateway(routeViews[r], k)
                 \/ k \in gatewayQueue]_vars
  BY WithdrawalHasReason DEF Unrouted
<1>2. Spec => [](GatewayTypeOK /\ WorkerIsSound)
  <2>1. GatewayTypeOK /\ WorkerIsSound /\ [Next]_vars
          => (GatewayTypeOK /\ WorkerIsSound)'
    BY GatewayTypeStep
  <2> QED
    BY <2>1, GatewayTypeInit, PTL DEF Spec
<1> QED
  BY <1>1, <1>2, PTL DEF Spec, IstioGatewayStays

\* Only the status update changes a status, and it is of the object read.
LEMMA StatusHasSpec ==
    ASSUME GatewayTypeOK, WorkerIsSound, [Next]_vars, NEW k \in GatewayKeys,
           gateways[k] # None, gateways'[k] # None,
           gateways'[k].status # gateways[k].status
    PROVE  gateways'[k].status.observed = gateways'[k].rev
<1> USE DEF istioVars, gatewayVars
<1>1. CASE UpdateGatewayStatus
  <2>1. gatewayWorker.key = k
    BY <1>1 DEF UpdateGatewayStatus, GatewayTypeOK
  <2> DEFINE updated == [gatewayWorker.obj EXCEPT !.status = gatewayWorker.status]
  <2>2. /\ gateways'[k] = updated
        /\ updated.rev = gatewayWorker.obj.rev
        /\ updated.status = gatewayWorker.status
        /\ gatewayWorker.status.observed = gatewayWorker.obj.rev
    BY <1>1, <2>1, UpdateForm DEF GatewayTypeOK
  <2> HIDE DEF updated
  <2> QED
    BY <2>2
<1>2. ASSUME NEW j \in GatewayKeys,
             CreateGateway(j) \/ EditGateway(j) \/ DeleteGateway(j)
      PROVE  FALSE
  <2>1. CASE j # k \/ CreateGateway(j) \/ DeleteGateway(j)
    BY <1>2, <2>1
    DEF CreateGateway, EditGateway, DeleteGateway, WriteGateway, GatewayTypeOK
  <2>2. CASE j = k /\ EditGateway(j)
    <3>1. PICK spec \in GatewaySpecs:
            WriteGateway(k, [gateways[k] EXCEPT !.spec = spec,
                                                !.rev = gatewayEdits + 1,
                                                !.generation = @ + 1])
      BY <2>2 DEF EditGateway
    <3>2. gateways[k] \in Gateway
      BY DEF GatewayTypeOK
    <3>3. gateways'[k] = [gateways[k] EXCEPT !.spec = spec,
                                             !.rev = gatewayEdits + 1,
                                             !.generation = @ + 1]
      BY <3>1 DEF WriteGateway, GatewayTypeOK
    <3> QED
      BY <3>2, <3>3 DEF Gateway
  <2> QED
    BY <1>2, <2>1, <2>2
<1>3. CASE UNCHANGED gateways
  BY <1>3
<1>4. CASE Next /\ ~UpdateGatewayStatus
  <2>1. \/ UNCHANGED gateways
        \/ \E j \in GatewayKeys:
             CreateGateway(j) \/ EditGateway(j) \/ DeleteGateway(j)
    BY <1>4
    DEF Next, Disturbance, UserNext, SystemNext, GatewayInformerNext,
        GatewayReconcileNext, CollectorNext, EditIstioGateway,
        DeleteIstioGateway, WriteIstioGateway, CollectIstioGateway,
        InformGateway, RelistGateway, InformIstioGateway, TimerExpires, RouteEvent,
        ServiceEvent, ServiceUpdated, IdentityChanges, ConfigEvent,
        StartGateway, Gather, ApplyCall, CallRefused, GatewayConflict,
        GatewayError, RequeueGateway, Restart
  <2> QED
    BY <1>2, <1>3, <2>1
<1> QED
  BY <1>1, <1>3, <1>4 DEF vars

\* No status is written onto a spec it was not computed from, nor onto
\* another Gateway of that name.
THEOREM GatewayStatusHasSpec == Spec => GatewayStatusOfItsSpec
<1>1. GatewayTypeOK /\ WorkerIsSound /\ [Next]_vars
        => [\A k \in GatewayKeys:
              (/\ None \notin {gateways[k], gateways'[k]}
               /\ gateways'[k].status # gateways[k].status)
              => gateways'[k].status.observed = gateways'[k].rev]_vars
  BY StatusHasSpec
<1>2. Spec => [](GatewayTypeOK /\ WorkerIsSound)
  <2>1. GatewayTypeOK /\ WorkerIsSound /\ [Next]_vars
          => (GatewayTypeOK /\ WorkerIsSound)'
    BY GatewayTypeStep
  <2> QED
    BY <2>1, GatewayTypeInit, PTL DEF Spec
<1> QED
  BY <1>1, <1>2, PTL DEF Spec, GatewayStatusOfItsSpec
=============================================================================
