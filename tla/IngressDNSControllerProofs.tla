---------------------- MODULE IngressDNSControllerProofs ----------------------
(***************************************************************************)
(* What holds of the IngressDNS controller for all Gateways, ingresses,    *)
(* settings and orders of events: its type invariant, that the cleanup     *)
(* takes no record of an ingress in use without a second look, and that no *)
(* wake-up is lost (IngressInv, an inductive invariant), from which it     *)
(* follows that at rest the records are right.                             *)
(***************************************************************************)
EXTENDS IngressDNSController, TLAPS

USE DEF IdentityView!ViewTypeOK, ConfigView!ViewTypeOK,
        IdentityView!ViewInit, ConfigView!ViewInit,
        IdentityView!ViewChanges, ConfigView!ViewChanges,
        IdentityView!ViewEvent, ConfigView!ViewEvent,
        IdentityView!ViewRestarts, ConfigView!ViewRestarts

-----------------------------------------------------------------------------
(***************************************************************************)
(* Type correctness.                                                       *)
(***************************************************************************)
\* What reconcileDNSEndpointsForConfig wants is a well-formed DNSEndpoint.
LEMMA DesiredType ==
    ASSUME NEW k \in EndpointKeys, NEW id \in Identities, NEW cfg \in Configs,
           k[2] \in DOMAIN cfg, NEW service \in Service,
           service.address # Unset
    PROVE  desiredEndpoint(k, id, cfg, service) \in Endpoint
<1>1. cfg[k[2]] \in Regions
  BY IngressInputs DEF Config
<1>2. targetHost(k[1], id) \in HostNames
  BY IngressInputs DEF targetHost, HostNames, Identity, EndpointKeys,
     ControllerConfigs
<1>3. service.address \in Addresses /\ service.uid \in 1..MaxServices
  BY DEF Service
<1> QED
  BY <1>1, <1>2, <1>3 DEF desiredEndpoint, Endpoint

\* So is what a patch makes of one.
LEMMA PatchedType ==
    ASSUME NEW stored \in Endpoint, NEW copy, NEW desired \in Endpoint
    PROVE  Patched(stored, copy, desired) \in Endpoint
BY DEF Patched, Endpoint

\* The worker goes on to another configuration or becomes idle.
LEMMA NextConfigType ==
    ASSUME NEW w \in IngressWorker
    PROVE  /\ NextConfig(w) \in IngressWorker
           /\ NextConfig(w).active = w.active
           /\ \/ NextConfig(w).pc = "idle" /\ w.active = {}
              \/ /\ NextConfig(w).pc = "configs"
                 /\ NextConfig(w).id = w.id
                 /\ NextConfig(w).cfg = w.cfg
BY DEF NextConfig, IngressWorker, IdleIngressWorker

\* The worker goes on with the cleanup or after it.
LEMMA CleanupType ==
    ASSUME NEW left \in SUBSET EndpointKeys, ingressWorker \in IngressWorker
    PROVE  /\ Cleanup(left) \in IngressWorker
           /\ Cleanup(left).pc \in {"identity", "delete"}
           /\ Cleanup(left).left = left
BY DEF Cleanup, IngressWorker

\* The controller starts in a well-formed state.
LEMMA IngressTypeInit == Init => IngressTypeOK
<1> SUFFICES ASSUME Init PROVE IngressTypeOK
  OBVIOUS
<1>1. services \in 0..MaxServices
  BY IngressInputs DEF Init
<1>2. ingressWorker \in IngressWorker /\ ingressWorker.pc = "idle"
  BY DEF Init, IdleIngressWorker, IngressWorker
<1> QED
  BY <1>1, <1>2 DEF Init, IngressTypeOK

\* Events of Gateways, Services and settings keep it so.
LEMMA EventTypeStep ==
    ASSUME IngressTypeOK,
           \/ \E g \in Gateways: GatewayEvent(g)
           \/ \E i \in Ingresses: ServiceEvent(i)
           \/ SettingsChange \/ IdentityEvent \/ ConfigEvent \/ TimerExpires
    PROVE  IngressTypeOK'
<1> USE IngressInputs DEF IngressTypeOK, Enqueue, endpointVars, settingVars,
                          inputVars, queueVars
<1>1. ASSUME NEW g \in Gateways, GatewayEvent(g) PROVE IngressTypeOK'
  BY <1>1 DEF GatewayEvent
<1>2. ASSUME NEW i \in Ingresses, ServiceEvent(i) PROVE IngressTypeOK'
  <2>1. CASE serviceViews[i] # None
    <3>1. services' = services
      BY <1>2, <2>1 DEF ServiceEvent
    <3>2. serviceViews[i] \in Service
      BY <2>1
    <3>3. \A address \in Addresses \cup {Unset}:
            [serviceViews[i] EXCEPT !.address = address] \in Service
      BY <3>2 DEF Service
    <3>4. serviceViews' \in [Ingresses -> Service \cup {None}]
      BY <1>2, <2>1, <3>3 DEF ServiceEvent
    <3> QED
      BY <1>2, <3>1, <3>4 DEF ServiceEvent
  <2>2. CASE serviceViews[i] = None
    <3>1. services' \in 1..MaxServices
      BY <1>2, <2>2 DEF ServiceEvent
    <3>2. \A address \in Addresses \cup {Unset}:
            [uid |-> services', address |-> address] \in Service
      BY <3>1 DEF Service
    <3>3. serviceViews' \in [Ingresses -> Service \cup {None}]
      BY <1>2, <2>2, <3>2 DEF ServiceEvent
    <3> QED
      BY <1>2, <3>1, <3>3 DEF ServiceEvent
  <2> QED
    BY <2>1, <2>2
<1>3. CASE SettingsChange \/ IdentityEvent \/ ConfigEvent
  BY <1>3 DEF SettingsChange, IdentityEvent, ConfigEvent
<1>4. CASE TimerExpires
  BY <1>4 DEF TimerExpires
<1> QED
  BY <1>1, <1>2, <1>3, <1>4

\* So does a call to the API server, and the failure of one.
LEMMA SyncTypeStep ==
    ASSUME IngressTypeOK, SyncEndpoint \/ SyncFails
    PROVE  IngressTypeOK'
<1> DEFINE w == ingressWorker
           record(e) == <<w.controllerConfig, e>>
           desired(e) == desiredEndpoint(record(e), w.id, w.cfg, w.service)
<1> USE IngressInputs DEF IngressTypeOK, settingVars, inputVars, queueVars
<1>1. /\ w.pc = "sync" /\ w \in IngressWorker
      /\ w.id # None /\ w.cfg # None /\ w.left \subseteq DOMAIN w.cfg
      /\ w.controllerConfig \in ControllerConfigs
      /\ w.service \in Service /\ w.service.address # Unset
  BY DEF SyncEndpoint, SyncFails, IngressWorker, hasAddress
<1>2. w.cfg \in Configs /\ w.id \in Identities
  BY <1>1 DEF IngressWorker
<1>3. DOMAIN w.cfg \subseteq Controllers
  BY <1>2 DEF Config
<1>4. \A e \in w.left: record(e) \in EndpointKeys
  BY <1>1, <1>3 DEF EndpointKeys
<1>5. /\ NextConfig(w) \in IngressWorker
      /\ NextConfig(w).pc \in {"idle", "configs"}
      /\ NextConfig(w).pc = "configs" => /\ NextConfig(w).id = w.id
                                         /\ NextConfig(w).cfg = w.cfg
  BY <1>1, NextConfigType
<1>6. CASE SyncEndpoint
  <2>1. PICK e \in w.left:
          /\ \/ endpoints' = endpoints
             \/ endpoints' = [endpoints EXCEPT ![record(e)] =
                                IF seenEndpoints[record(e)] = None THEN desired(e)
                                ELSE Patched(@, seenEndpoints[record(e)],
                                             desired(e))]
          /\ endpoints' # endpoints =>
                (seenEndpoints[record(e)] = None) = (endpoints[record(e)] = None)
          /\ missed' \subseteq missed \cup {record(e)}
          /\ ingressWorker' = IF w.left = {e} THEN NextConfig(w)
                              ELSE [w EXCEPT !.left = @ \ {e}]
    BY <1>6 DEF SyncEndpoint
  <2>2. record(e) \in EndpointKeys /\ desired(e) \in Endpoint
    BY <1>1, <1>2, <1>4, DesiredType
  <2>3. endpoints' \in [EndpointKeys -> Endpoint \cup {None}]
    <3>1. CASE endpoints' = endpoints
      BY <3>1
    <3>2. CASE endpoints' # endpoints /\ seenEndpoints[record(e)] = None
      BY <2>1, <2>2, <3>2
    <3>3. CASE endpoints' # endpoints /\ seenEndpoints[record(e)] # None
      <4>1. seenEndpoints[record(e)] \in Endpoint /\ endpoints[record(e)] \in Endpoint
        BY <2>1, <2>2, <3>3
      <4>2. Patched(endpoints[record(e)], seenEndpoints[record(e)], desired(e))
              \in Endpoint
        BY <2>2, <4>1, PatchedType
      <4> QED
        BY <2>1, <2>2, <3>3, <4>2
    <3> QED
      BY <3>1, <3>2, <3>3
  <2>4. missed' \subseteq EndpointKeys
    BY <2>1, <2>2
  <2>5. CASE w.left = {e}
    <3>1. ingressWorker' = NextConfig(w)
      BY <2>1, <2>5
    <3> QED
      BY <1>5, <1>6, <2>3, <2>4, <3>1 DEF SyncEndpoint
  <2>6. CASE w.left # {e}
    <3>1. ingressWorker' = [w EXCEPT !.left = @ \ {e}]
      BY <2>1, <2>6
    <3>2. /\ ingressWorker' \in IngressWorker
          /\ ingressWorker'.pc = "sync"
          /\ ingressWorker'.id = w.id /\ ingressWorker'.cfg = w.cfg
          /\ ingressWorker'.controllerConfig = w.controllerConfig
          /\ ingressWorker'.service = w.service
          /\ ingressWorker'.left \subseteq DOMAIN w.cfg
      BY <1>1, <3>1 DEF IngressWorker
    <3> QED
      BY <1>1, <1>6, <2>3, <2>4, <3>2 DEF SyncEndpoint, hasAddress
  <2> QED
    BY <2>5, <2>6
<1>7. CASE SyncFails
  <2>1. missed' \subseteq EndpointKeys
    BY <1>4, <1>7 DEF SyncFails, GiveUpConfig
  <2>2. ingressWorker' = NextConfig(w)
    BY <1>7 DEF SyncFails, GiveUpConfig
  <2> QED
    BY <1>5, <1>7, <2>1, <2>2 DEF SyncFails
<1> QED
  BY <1>6, <1>7

\* So does every other step of the worker, and the rest of the system.
LEMMA IngressTypeStep == IngressTypeOK /\ [Next]_vars => IngressTypeOK'
<1> SUFFICES ASSUME IngressTypeOK, [Next]_vars PROVE IngressTypeOK'
  OBVIOUS
<1> DEFINE w == ingressWorker
<1> USE IngressInputs DEF IngressTypeOK, settingVars, inputVars, queueVars,
                          endpointVars
<1>1. CASE \/ \E g \in Gateways: GatewayEvent(g)
           \/ \E i \in Ingresses: ServiceEvent(i)
           \/ SettingsChange \/ IdentityEvent \/ ConfigEvent \/ TimerExpires
  BY <1>1, EventTypeStep
<1>2. CASE SyncEndpoint \/ SyncFails
  BY <1>2, SyncTypeStep
<1>3. ASSUME NEW k \in EndpointKeys, InformEndpoint(k) \/ CollectEndpoint(k)
      PROVE  IngressTypeOK'
  BY <1>3 DEF InformEndpoint, CollectEndpoint
<1>4. IdleIngressWorker \in IngressWorker /\ IdleIngressWorker.pc = "idle"
  BY DEF IdleIngressWorker, IngressWorker
<1>5. CASE StartGlobal
  <2>1. activeConfigs \subseteq ControllerConfigs
    BY DEF activeConfigs
  <2>2. ingressWorker' \in IngressWorker /\ ingressWorker'.pc = "list"
    BY <1>5, <2>1 DEF StartGlobal, IdleIngressWorker, IngressWorker
  <2> QED
    BY <1>5, <2>2 DEF StartGlobal
<1>6. CASE ListOrphans
  <2>1. PICK left \in SUBSET EndpointKeys: ingressWorker' = Cleanup(left)
    BY <1>6 DEF ListOrphans, orphans
  <2>2. missed' \subseteq EndpointKeys
    BY <1>6 DEF ListOrphans
  <2> QED
    BY <1>6, <2>1, <2>2, CleanupType DEF ListOrphans
<1>7. CASE DeleteOrphan
  <2>1. PICK k \in w.left: /\ endpoints' = [endpoints EXCEPT ![k] = None]
                           /\ missed' = missed \ {k}
                           /\ ingressWorker' = Cleanup(w.left \ {k})
    BY <1>7 DEF DeleteOrphan
  <2>2. w.left \ {k} \in SUBSET EndpointKeys
    BY <1>7 DEF DeleteOrphan
  <2> QED
    BY <1>7, <2>1, <2>2, CleanupType DEF DeleteOrphan
<1>8. CASE DeleteFails
  <2>1. {} \in SUBSET EndpointKeys
    OBVIOUS
  <2> QED
    BY <1>8, <2>1, CleanupType DEF DeleteFails
<1>9. CASE FetchIdentity
  <2>1. CASE identity = None
    BY <1>4, <1>9, <2>1 DEF FetchIdentity, Await
  <2>2. CASE identity # None
    <3>1. ingressWorker' = [w EXCEPT !.pc = "config", !.id = identity]
      BY <1>9, <2>2 DEF FetchIdentity
    <3>2. /\ ingressWorker' \in IngressWorker
          /\ ingressWorker'.pc = "config" /\ ingressWorker'.id = identity
      BY <3>1 DEF IngressWorker
    <3> QED
      BY <1>9, <2>2, <3>2 DEF FetchIdentity
  <2> QED
    BY <2>1, <2>2
<1>10. CASE FetchConfig
  <2>1. CASE config = None
    BY <1>4, <1>10, <2>1 DEF FetchConfig, Await
  <2>2. CASE config # None
    <3> DEFINE read == [w EXCEPT !.cfg = config]
    <3>1. read \in IngressWorker /\ read.id # None /\ read.cfg # None
      BY <1>10, <2>2 DEF FetchConfig, IngressWorker
    <3>2. ingressWorker' = NextConfig(read)
      BY <1>10, <2>2 DEF FetchConfig
    <3> QED
      BY <1>10, <2>2, <3>1, <3>2, NextConfigType DEF FetchConfig
  <2> QED
    BY <2>1, <2>2
<1>11. CASE TakeConfig
  <2>1. PICK c \in w.active:
          ingressWorker' =
            IF hasAddress(serviceViews[c[1]])
            THEN [w EXCEPT !.pc = "sync", !.active = @ \ {c},
                           !.controllerConfig = c,
                           !.service = serviceViews[c[1]],
                           !.left = DOMAIN w.cfg]
            ELSE NextConfig([w EXCEPT !.active = @ \ {c}])
    BY <1>11 DEF TakeConfig
  <2>2. /\ w \in IngressWorker /\ w.id # None /\ w.cfg \in Configs
        /\ c \in ControllerConfigs
    BY <1>11 DEF TakeConfig, IngressWorker
  <2>3. CASE hasAddress(serviceViews[c[1]])
    <3>1. DOMAIN w.cfg \subseteq Controllers
      BY <2>2 DEF Config
    <3>2. serviceViews[c[1]] \in Service
      BY <2>2, <2>3 DEF hasAddress, ControllerConfigs
    <3>3. /\ ingressWorker' \in IngressWorker
          /\ ingressWorker'.pc = "sync"
          /\ ingressWorker'.id = w.id /\ ingressWorker'.cfg = w.cfg
          /\ ingressWorker'.controllerConfig = c
          /\ ingressWorker'.service = serviceViews[c[1]]
          /\ ingressWorker'.left = DOMAIN w.cfg
      BY <2>1, <2>2, <2>3, <3>1, <3>2 DEF IngressWorker
    <3>4. c # None
      BY <2>2 DEF ControllerConfigs
    <3> QED
      BY <1>11, <2>2, <2>3, <3>3, <3>4 DEF TakeConfig
  <2>4. CASE ~hasAddress(serviceViews[c[1]])
    <3> DEFINE next == [w EXCEPT !.active = @ \ {c}]
    <3>1. next \in IngressWorker /\ next.id # None /\ next.cfg # None
      BY <1>11, <2>2 DEF TakeConfig, IngressWorker
    <3>2. ingressWorker' = NextConfig(next)
      BY <2>1, <2>4
    <3> QED
      BY <1>11, <3>1, <3>2, NextConfigType DEF TakeConfig
  <2> QED
    BY <2>3, <2>4
<1>12. CASE Restart
  BY <1>4, <1>12 DEF Restart
<1>13. CASE UNCHANGED vars
  BY <1>13 DEF vars, hasAddress
<1> QED
  BY <1>1, <1>2, <1>3, <1>5, <1>6, <1>7, <1>8, <1>9, <1>10, <1>11, <1>12, <1>13
  DEF Next, SystemNext, Disturbance, IngressReconcileNext

\* In every reachable state the records, the stores and the worker are what
\* they can be; in particular a record is only written for a load balancer
\* that has an address.
THEOREM IngressTypeCorrect == Spec => []IngressTypeOK
<1>1. Init => IngressTypeOK
  BY IngressTypeInit
<1>2. IngressTypeOK /\ [Next]_vars => IngressTypeOK'
  BY IngressTypeStep
<1> QED
  BY <1>1, <1>2, PTL DEF Spec

-----------------------------------------------------------------------------
\* An event is in the queue or on its way to it.
WillLookAgain == globalQueued \/ identityOwed \/ configOwed

\* The orphans that are being deleted belong to no configuration in use.
OrphansUnused ==
    ingressWorker.pc = "delete"
        => \A k \in ingressWorker.left: k[1] \notin ingressWorker.active

\* What the worker knows of the Gateways, while it has used none of it up.
GatewaysKnown ==
    ingressWorker.pc \in {"list", "delete"}
        => ingressWorker.active = activeConfigs

\* What the worker has read is what there is.
WorkerCurrent ==
    LET w == ingressWorker IN
    /\ w.pc \in {"list", "delete", "identity", "config"}
        => w.active = activeConfigs
    /\ w.active \subseteq activeConfigs
    /\ w.pc \in {"config", "configs", "sync"} => w.id = identity
    /\ w.pc \in {"configs", "sync"} => w.cfg = config
    /\ w.pc = "sync" => /\ w.controllerConfig \in activeConfigs
                        /\ w.service = serviceViews[w.controllerConfig[1]]

\* The worker has still to come to the record k.
ToDo(k) ==
    LET w == ingressWorker IN
    \/ w.pc = "list"
    \/ w.pc = "delete" /\ k \in w.left
    \/ w.pc # "idle" /\ k[1] \in w.active
    \/ w.pc = "sync" /\ k[1] = w.controllerConfig /\ k[2] \in w.left

Settled(k) == k \in missed \/ RecordRight(k) \/ ToDo(k)

IngressInv ==
    /\ IngressTypeOK
    /\ OrphansUnused
    /\ globalQueued \/ GatewaysKnown
    /\ WillLookAgain \/ (WorkerCurrent /\ \A k \in EndpointKeys: Settled(k))
-----------------------------------------------------------------------------
(***************************************************************************)
(* The invariant is inductive.  In each step the records are treated one   *)
(* by one: what a step leaves alone stays settled.                         *)
(***************************************************************************)
LEMMA IngressInvInit == Init => IngressInv
BY IngressTypeInit DEF Init, IngressInv, OrphansUnused, GatewaysKnown,
   WillLookAgain, IdleIngressWorker

\* The first two parts, which are about the cleanup.
LEMMA CleanupStep ==
    ASSUME IngressInv, [Next]_vars
    PROVE  OrphansUnused' /\ (globalQueued \/ GatewaysKnown)'
<1> DEFINE w == ingressWorker
<1> USE DEF IngressInv, OrphansUnused, GatewaysKnown
<1>1. w \in IngressWorker
  BY DEF IngressTypeOK
<1>2. ASSUME NEW g \in Gateways, GatewayEvent(g)
      PROVE  OrphansUnused' /\ (globalQueued \/ GatewaysKnown)'
  BY <1>2 DEF GatewayEvent, Enqueue
<1>3. CASE StartGlobal
  BY <1>1, <1>3 DEF StartGlobal, IdleIngressWorker, activeConfigs, inputVars
<1>4. CASE ListOrphans
  BY <1>1, <1>4 DEF ListOrphans, Cleanup, orphans, IngressWorker, activeConfigs,
     inputVars, queueVars
<1>5. CASE DeleteOrphan \/ DeleteFails
  <2>1. /\ w.pc = "delete"
        /\ \E left \in SUBSET w.left: ingressWorker' = Cleanup(left)
    BY <1>5 DEF DeleteOrphan, DeleteFails
  <2>2. ingressWorker'.left \subseteq w.left /\ ingressWorker'.active = w.active
    BY <1>1, <2>1 DEF Cleanup, IngressWorker
  <2>3. gatewayViews' = gatewayViews /\ globalQueued' = globalQueued
    BY <1>5 DEF DeleteOrphan, DeleteFails, inputVars, queueVars
  <2> QED
    BY <2>1, <2>2, <2>3 DEF activeConfigs
<1>6. CASE \/ FetchIdentity \/ FetchConfig \/ TakeConfig \/ SyncEndpoint
           \/ SyncFails \/ Restart
  <2> DEFINE past == ingressWorker'.pc \notin {"list", "delete"}
  <2>1. CASE FetchIdentity \/ FetchConfig \/ Restart
    <3>1. \/ ingressWorker' \in {IdleIngressWorker,
                                 [w EXCEPT !.pc = "config", !.id = identity]}
          \/ \E read \in IngressWorker: ingressWorker' = NextConfig(read)
      BY <1>1, <2>1 DEF FetchIdentity, FetchConfig, Restart, Await,
         IngressTypeOK, IngressWorker
    <3>2. CASE ingressWorker' \in {IdleIngressWorker,
                                 [w EXCEPT !.pc = "config", !.id = identity]}
      <4>1. [w EXCEPT !.pc = "config", !.id = identity].pc = "config"
        BY <1>1 DEF IngressWorker
      <4>2. IdleIngressWorker.pc = "idle"
        BY DEF IdleIngressWorker
      <4> QED
        BY <3>2, <4>1, <4>2
    <3>3. CASE \E read \in IngressWorker: ingressWorker' = NextConfig(read)
      BY <3>3, NextConfigType
    <3> QED
      BY <3>1, <3>2, <3>3
  <2>2. CASE TakeConfig
    <3>1. PICK c \in w.active:
            \/ /\ ingressWorker'.pc = "sync"
            \/ ingressWorker' = NextConfig([w EXCEPT !.active = @ \ {c}])
      BY <1>1, <2>2 DEF TakeConfig, IngressWorker
    <3>2. [w EXCEPT !.active = @ \ {c}] \in IngressWorker
      BY <1>1 DEF IngressWorker
    <3> QED
      BY <3>1, <3>2, NextConfigType
  <2>3. CASE SyncEndpoint \/ SyncFails
    <3>1. /\ w.pc = "sync"
          /\ \/ ingressWorker' = NextConfig(w)
             \/ \E e \in w.left: ingressWorker' = [w EXCEPT !.left = @ \ {e}]
      BY <2>3 DEF SyncEndpoint, SyncFails, GiveUpConfig
    <3>2. past
      BY <1>1, <3>1, NextConfigType DEF IngressWorker
    <3> QED
      BY <3>2
  <2> QED
    BY <1>6, <2>1, <2>2, <2>3
<1>7. CASE \/ \E i \in Ingresses: ServiceEvent(i)
           \/ SettingsChange \/ IdentityEvent \/ ConfigEvent \/ TimerExpires
           \/ \E k \in EndpointKeys: InformEndpoint(k) \/ CollectEndpoint(k)
           \/ UNCHANGED vars
  <2>1. ingressWorker' = ingressWorker /\ gatewayViews' = gatewayViews
    BY <1>7 DEF ServiceEvent, SettingsChange, IdentityEvent, ConfigEvent,
       TimerExpires, InformEndpoint, CollectEndpoint, vars, inputVars
  <2>2. globalQueued => globalQueued'
    BY <1>7 DEF ServiceEvent, SettingsChange, IdentityEvent, ConfigEvent,
       TimerExpires, InformEndpoint, CollectEndpoint, vars, queueVars, Enqueue
  <2> QED
    BY <2>1, <2>2 DEF activeConfigs
<1> QED
  BY <1>2, <1>3, <1>4, <1>5, <1>6, <1>7
  DEF Next, SystemNext, Disturbance, IngressReconcileNext

\* What neither the step nor its inputs touch stays right.
LEMMA RightStays ==
    ASSUME NEW k \in EndpointKeys, RecordRight(k),
           UNCHANGED <<inputVars, settingVars>>, endpoints'[k] = endpoints[k]
    PROVE  RecordRight(k)'
BY DEF RecordRight, inputVars, settingVars, activeConfigs, Searched, hasAddress,
   targetHost

\* The worker's steps after which it has done with one configuration less.
LEMMA NextConfigSettles ==
    ASSUME NEW w \in IngressWorker, ingressWorker' = NextConfig(w),
           w.active \subseteq activeConfigs, w.id = identity, w.cfg = config,
           UNCHANGED <<inputVars, settingVars>>
    PROVE  /\ WorkerCurrent'
           /\ \A k \in EndpointKeys: k[1] \in w.active => Settled(k)'
<1>1. /\ ingressWorker'.active = w.active
      /\ \/ ingressWorker'.pc = "idle" /\ w.active = {}
         \/ /\ ingressWorker'.pc = "configs"
            /\ ingressWorker'.id = w.id /\ ingressWorker'.cfg = w.cfg
  BY NextConfigType
<1>2. activeConfigs' = activeConfigs /\ identity' = identity /\ config' = config
  BY DEF activeConfigs, inputVars, settingVars
<1> QED
  BY <1>1, <1>2 DEF WorkerCurrent, Settled, ToDo

\* The steps of the cleanup.
LEMMA CleanupSettles ==
    ASSUME IngressInv, ~WillLookAgain, ListOrphans \/ DeleteOrphan \/ DeleteFails
    PROVE  WorkerCurrent' /\ \A k \in EndpointKeys: Settled(k)'
<1> DEFINE w == ingressWorker
<1>1. /\ w \in IngressWorker /\ w.pc \in {"list", "delete"}
      /\ w.active = activeConfigs
      /\ \A k \in EndpointKeys: Settled(k)
  BY DEF IngressInv, IngressTypeOK, WorkerCurrent, ListOrphans, DeleteOrphan,
     DeleteFails
<1>2. /\ UNCHANGED <<inputVars, settingVars>>
      /\ activeConfigs' = activeConfigs
  BY DEF ListOrphans, DeleteOrphan, DeleteFails, inputVars, activeConfigs
<1>3. PICK left : ingressWorker' = Cleanup(left)
  BY DEF ListOrphans, DeleteOrphan, DeleteFails
<1>4. /\ ingressWorker'.active = w.active /\ ingressWorker'.left = left
      /\ ingressWorker'.pc = IF left = {} THEN "identity" ELSE "delete"
  BY <1>1, <1>3 DEF Cleanup, IngressWorker
<1>5. WorkerCurrent'
  BY <1>1, <1>2, <1>4 DEF WorkerCurrent
<1>6. ASSUME NEW k \in EndpointKeys, k[1] \in w.active \/ k \in left
      PROVE  Settled(k)'
  BY <1>4, <1>6 DEF Settled, ToDo
<1>7. ASSUME NEW k \in EndpointKeys, k[1] \notin w.active, k \notin left
      PROVE  Settled(k)'
  <2>1. CASE ListOrphans
    <3>1. left = IF Searched THEN orphans(w.active) ELSE {}
      BY <1>1, <1>3, <1>4, <2>1 DEF ListOrphans, Cleanup, IngressWorker
    <3>2. CASE Searched /\ Stale(k)
      BY <1>7, <2>1, <3>2 DEF ListOrphans, Settled
    <3>3. CASE ~(Searched /\ Stale(k))
      <4>1. Searched => endpoints[k] = None
        BY <1>7, <3>1, <3>3 DEF orphans, Stale
      <4>2. RecordRight(k)
        BY <1>1, <1>7, <4>1 DEF RecordRight
      <4> QED
        BY <1>2, <2>1, <4>2, RightStays DEF ListOrphans, Settled
    <3> QED
      BY <3>2, <3>3
  <2>2. CASE DeleteOrphan
    <3>1. PICK o \in w.left: /\ endpoints' = [endpoints EXCEPT ![o] = None]
                             /\ missed' = missed \ {o}
                             /\ ingressWorker' = Cleanup(w.left \ {o})
      BY <2>2 DEF DeleteOrphan
    <3>2. left = w.left \ {o}
      BY <1>1, <1>4, <3>1 DEF Cleanup, IngressWorker
    <3>3. endpoints \in [EndpointKeys -> Endpoint \cup {None}]
      BY DEF IngressInv, IngressTypeOK
    <3>4. CASE k = o
      <4>1. endpoints'[k] = None
        BY <3>1, <3>3, <3>4
      <4> QED
        BY <1>1, <1>2, <1>7, <4>1 DEF Settled, RecordRight
    <3>5. CASE k # o
      <4>1. endpoints'[k] = endpoints[k]
        BY <3>1, <3>3, <3>5
      <4>2. k \in missed \/ RecordRight(k)
        BY <1>1, <1>7, <2>2, <3>2, <3>5 DEF Settled, ToDo, DeleteOrphan
      <4> QED
        BY <1>2, <3>1, <3>5, <4>1, <4>2, RightStays DEF Settled
    <3> QED
      BY <3>4, <3>5
  <2>3. CASE DeleteFails
    <3>1. k \in missed \/ RecordRight(k) \/ k \in w.left
      BY <1>1, <1>7, <2>3 DEF Settled, ToDo, DeleteFails
    <3> QED
      BY <1>2, <2>3, <3>1, RightStays DEF Settled, DeleteFails
  <2> QED
    BY <2>1, <2>2, <2>3
<1> QED
  BY <1>5, <1>6, <1>7

\* The steps in which the settings and the Services are read.
LEMMA ReadSettles ==
    ASSUME IngressInv, ~WillLookAgain, FetchIdentity \/ FetchConfig \/ TakeConfig
    PROVE  WorkerCurrent' /\ \A k \in EndpointKeys: Settled(k)'
<1> DEFINE w == ingressWorker
<1>1. /\ w \in IngressWorker /\ w.pc \in {"identity", "config", "configs"}
      /\ WorkerCurrent
      /\ \A k \in EndpointKeys: Settled(k)
  BY DEF IngressInv, IngressTypeOK, FetchIdentity, FetchConfig, TakeConfig
<1>2. /\ UNCHANGED <<inputVars, settingVars>>
      /\ endpoints' = endpoints /\ missed' = missed
      /\ activeConfigs' = activeConfigs
  BY DEF FetchIdentity, FetchConfig, TakeConfig, Await, inputVars, endpointVars,
     activeConfigs
<1>3. ASSUME NEW k \in EndpointKeys, k[1] \notin w.active PROVE Settled(k)'
  <2>1. k \in missed \/ RecordRight(k)
    BY <1>1, <1>3 DEF Settled, ToDo
  <2> QED
    BY <1>2, <2>1, RightStays DEF Settled
<1>4. ASSUME NEW k \in EndpointKeys, k[1] \in w.active,
             ~hasAddress(serviceViews[k[1][1]]) \/ identity = None
             \/ config = None \/ k[2] \notin DOMAIN config
      PROVE  Settled(k)'
  <2>1. RecordRight(k)
    BY <1>1, <1>4 DEF RecordRight, WorkerCurrent
  <2> QED
    BY <1>2, <2>1, RightStays DEF Settled
<1>5. CASE ingressWorker' = IdleIngressWorker /\ (identity = None \/ config = None)
  BY <1>3, <1>4, <1>5 DEF WorkerCurrent, IdleIngressWorker
<1>6. CASE FetchIdentity /\ identity # None
  <2>1. ingressWorker' = [w EXCEPT !.pc = "config", !.id = identity]
    BY <1>6 DEF FetchIdentity
  <2>2. /\ ingressWorker'.pc = "config" /\ ingressWorker'.id = identity
        /\ ingressWorker'.active = w.active
    BY <1>1, <2>1 DEF IngressWorker
  <2>3. WorkerCurrent'
    BY <1>1, <1>2, <1>6, <2>2 DEF WorkerCurrent, settingVars, FetchIdentity
  <2>4. \A k \in EndpointKeys: k[1] \in w.active => Settled(k)'
    BY <2>2 DEF Settled, ToDo
  <2> QED
    BY <1>3, <2>3, <2>4
<1>7. CASE FetchConfig /\ config # None
  <2> DEFINE read == [w EXCEPT !.cfg = config]
  <2>1. ingressWorker' = NextConfig(read)
    BY <1>7 DEF FetchConfig
  <2>2. /\ read \in IngressWorker /\ read.active = w.active
        /\ read.id = w.id /\ read.cfg = config
    BY <1>1, <1>7 DEF IngressInv, IngressTypeOK, IngressWorker
  <2>3. w.active \subseteq activeConfigs /\ w.id = identity
    BY <1>1, <1>7 DEF WorkerCurrent, FetchConfig
  <2>4. WorkerCurrent' /\ \A k \in EndpointKeys: k[1] \in w.active => Settled(k)'
    BY <1>2, <2>1, <2>2, <2>3, NextConfigSettles
  <2> QED
    BY <1>3, <2>4
<1>8. CASE TakeConfig
  <2>1. PICK c \in w.active:
          ingressWorker' =
            IF hasAddress(serviceViews[c[1]])
            THEN [w EXCEPT !.pc = "sync", !.active = @ \ {c},
                           !.controllerConfig = c,
                           !.service = serviceViews[c[1]],
                           !.left = DOMAIN w.cfg]
            ELSE NextConfig([w EXCEPT !.active = @ \ {c}])
    BY <1>8 DEF TakeConfig
  <2>2. w.active \subseteq activeConfigs /\ w.id = identity /\ w.cfg = config
    BY <1>1, <1>8 DEF WorkerCurrent, TakeConfig
  <2>3. CASE hasAddress(serviceViews[c[1]])
    <3>1. /\ ingressWorker'.pc = "sync" /\ ingressWorker'.active = w.active \ {c}
          /\ ingressWorker'.id = w.id /\ ingressWorker'.cfg = w.cfg
          /\ ingressWorker'.controllerConfig = c
          /\ ingressWorker'.service = serviceViews[c[1]]
          /\ ingressWorker'.left = DOMAIN w.cfg
      BY <1>1, <2>1, <2>3 DEF IngressWorker
    <3>2. WorkerCurrent'
      BY <1>2, <2>2, <3>1 DEF WorkerCurrent, inputVars, settingVars
    <3>3. ASSUME NEW k \in EndpointKeys, k[1] \in w.active PROVE Settled(k)'
      BY <1>4, <2>2, <3>1, <3>3 DEF Settled, ToDo
    <3> QED
      BY <1>3, <3>2, <3>3
  <2>4. CASE ~hasAddress(serviceViews[c[1]])
    <3> DEFINE rest == [w EXCEPT !.active = @ \ {c}]
    <3>1. ingressWorker' = NextConfig(rest)
      BY <2>1, <2>4
    <3>2. /\ rest \in IngressWorker /\ rest.active = w.active \ {c}
          /\ rest.id = w.id /\ rest.cfg = w.cfg
      BY <1>1 DEF IngressWorker
    <3>3. /\ WorkerCurrent'
          /\ \A k \in EndpointKeys: k[1] \in rest.active => Settled(k)'
      BY <1>2, <2>2, <3>1, <3>2, NextConfigSettles
    <3>4. \A k \in EndpointKeys: k[1] = c => Settled(k)'
      BY <1>4, <2>4
    <3> QED
      BY <1>3, <3>2, <3>3, <3>4
  <2> QED
    BY <2>3, <2>4
<1> QED
  BY <1>5, <1>6, <1>7, <1>8 DEF FetchIdentity, FetchConfig, Await
\* A record that has been read, and written if it had to be, is right, or
\* the copy that was read was stale.
LEMMA SyncedIsRight ==
    ASSUME IngressTypeOK, WorkerCurrent, NEW e \in ingressWorker.left,
           ingressWorker.pc = "sync",
           NEW k \in EndpointKeys, k = <<ingressWorker.controllerConfig, e>>,
           NEW new \in Endpoint \cup {None},
           LET w == ingressWorker
               copy == seenEndpoints[k]
               desired == desiredEndpoint(k, w.id, w.cfg, w.service)
           IN  IF ~Called(copy, desired) THEN new = copy
               ELSE \/ new = desired
                    \/ endpoints[k] \in Endpoint
                       /\ new = Patched(endpoints[k], copy, desired)
    PROVE  /\ new # None
           /\ new.host = targetHost(k[1], identity)
           /\ new.address = serviceViews[k[1][1]].address
<1> DEFINE w == ingressWorker
           copy == seenEndpoints[k]
           desired == desiredEndpoint(k, w.id, w.cfg, w.service)
<1>1. /\ w.id = identity /\ k[1] = w.controllerConfig
      /\ w.service = serviceViews[k[1][1]]
  BY DEF WorkerCurrent
<1>2. /\ desired.host = targetHost(k[1], identity)
      /\ desired.address = serviceViews[k[1][1]].address
  BY <1>1 DEF desiredEndpoint
<1>3. CASE ~Called(copy, desired)
  BY <1>2, <1>3 DEF Called, needsUpdate
<1>4. desired \in Endpoint
  <2>1. /\ w.id \in Identities /\ w.cfg \in Configs /\ k[2] \in DOMAIN w.cfg
        /\ w.service \in Service /\ w.service.address # Unset
    BY DEF IngressTypeOK, IngressWorker, hasAddress
  <2> QED
    BY <2>1, DesiredType
<1>5. CASE Called(copy, desired) /\ new = desired
  BY <1>2, <1>4, <1>5, NoneIsNoEndpoint
<1>6. CASE endpoints[k] \in Endpoint /\ new = Patched(endpoints[k], copy, desired)
  <2>1. new.host = desired.host /\ new.address = desired.address
    BY <1>6 DEF Patched, Endpoint
  <2>2. new \in Endpoint
    BY <1>4, <1>6, PatchedType
  <2> QED
    BY <1>2, <2>1, <2>2, NoneIsNoEndpoint
<1> QED
  BY <1>3, <1>5, <1>6
\* The calls to the API server.
LEMMA SyncSettles ==
    ASSUME IngressInv, ~WillLookAgain, SyncEndpoint \/ SyncFails
    PROVE  WorkerCurrent' /\ \A k \in EndpointKeys: Settled(k)'
<1> DEFINE w == ingressWorker
           record(e) == <<w.controllerConfig, e>>
<1>1. /\ w \in IngressWorker /\ w.pc = "sync"
      /\ w.left \subseteq DOMAIN w.cfg /\ w.cfg \in Configs
      /\ w.controllerConfig \in ControllerConfigs
      /\ WorkerCurrent
  BY DEF IngressInv, IngressTypeOK, IngressWorker, SyncEndpoint, SyncFails
<1>2. /\ UNCHANGED <<inputVars, settingVars>>
      /\ activeConfigs' = activeConfigs
  BY DEF SyncEndpoint, SyncFails, inputVars, activeConfigs
<1>3. w.active \subseteq activeConfigs /\ w.id = identity /\ w.cfg = config
  BY <1>1 DEF WorkerCurrent
<1>4. \A k \in EndpointKeys, e \in w.left:
        k = record(e) <=> k[1] = w.controllerConfig /\ k[2] = e
  BY DEF EndpointKeys
<1>5. ASSUME NEW k \in EndpointKeys, k[1] \notin w.active
      PROVE  \/ k \in missed \/ RecordRight(k)
             \/ k[1] = w.controllerConfig /\ k[2] \in w.left
  <2>1. Settled(k)
    BY DEF IngressInv
  <2> QED
    BY <1>1, <1>5, <2>1 DEF Settled, ToDo
<1>6. ASSUME NEW k \in EndpointKeys, k \in missed', k[1] \notin w.active
      PROVE  Settled(k)'
  BY <1>6 DEF Settled
<1>7. ASSUME ingressWorker' = NextConfig(w)
      PROVE  /\ WorkerCurrent'
             /\ \A k \in EndpointKeys: k[1] \in w.active => Settled(k)'
  BY <1>1, <1>2, <1>3, <1>7, NextConfigSettles
<1>8. CASE SyncFails
  <2>1. /\ ingressWorker' = NextConfig(w) /\ endpoints' = endpoints
        /\ missed' = missed \cup {record(e) : e \in w.left}
    BY <1>8 DEF SyncFails, GiveUpConfig
  <2>2. ASSUME NEW k \in EndpointKeys, k[1] \notin w.active PROVE Settled(k)'
    <3>1. \/ k \in missed \/ RecordRight(k)
          \/ k[1] = w.controllerConfig /\ k[2] \in w.left
      BY <1>5, <2>2
    <3>2. CASE \/ k \in missed
               \/ k[1] = w.controllerConfig /\ k[2] \in w.left
      BY <1>4, <1>6, <2>1, <2>2, <3>2
    <3>3. CASE RecordRight(k)
      BY <1>2, <2>1, <3>3, RightStays DEF Settled
    <3> QED
      BY <3>1, <3>2, <3>3
  <2> QED
    BY <1>7, <2>1, <2>2
<1>9. CASE SyncEndpoint
  <2>1. PICK e \in w.left:
          LET k == record(e)
              copy == seenEndpoints[k]
              desired == desiredEndpoint(k, w.id, w.cfg, w.service)
              called == Called(copy, desired)
          IN  /\ called => (copy = None) = (endpoints[k] = None)
              /\ endpoints' =
                    IF ~called THEN endpoints
                    ELSE [endpoints EXCEPT
                            ![k] = IF copy = None THEN desired
                                   ELSE Patched(@, copy, desired)]
              /\ missed' = IF called \/ ~Stale(k) THEN missed \ {k}
                           ELSE missed \cup {k}
              /\ ingressWorker' = IF w.left = {e} THEN NextConfig(w)
                                  ELSE [w EXCEPT !.left = @ \ {e}]
    BY <1>9 DEF SyncEndpoint
  <2>2. PICK r \in EndpointKeys:
          r = record(e) /\ r[1] = w.controllerConfig /\ r[2] = e
    <3>1. e \in Controllers
      BY <1>1, IngressInputs DEF Config
    <3>2. record(e) \in EndpointKeys
      BY <1>1, <3>1 DEF EndpointKeys
    <3>3. record(e)[1] = w.controllerConfig /\ record(e)[2] = e
      OBVIOUS
    <3> HIDE DEF record
    <3> QED
      BY <3>2, <3>3
  <2> DEFINE copy == seenEndpoints[r]
             desired == desiredEndpoint(r, w.id, w.cfg, w.service)
  <2>3. IngressTypeOK /\ IngressTypeOK'
    BY <1>9, SyncTypeStep DEF IngressInv
  <2>4. ASSUME r \notin missed' PROVE RecordRight(r)'
    <3>1. IF ~Called(copy, desired) THEN endpoints'[r] = copy
          ELSE \/ endpoints'[r] = desired
               \/ endpoints[r] \in Endpoint
                  /\ endpoints'[r] = Patched(endpoints[r], copy, desired)
      <4> HIDE DEF copy, desired
      <4>1. CASE ~Called(copy, desired)
        <5>1. endpoints' = endpoints /\ ~Stale(r)
          BY <2>1, <2>2, <2>4, <4>1 DEF copy, desired
        <5> QED
          BY <4>1, <5>1 DEF Stale, copy
      <4>2. CASE Called(copy, desired) /\ copy = None
        <5>1. endpoints' = [endpoints EXCEPT ![r] = desired]
          BY <2>1, <2>2, <4>2 DEF copy, desired
        <5> QED
          BY <2>2, <2>3, <4>2, <5>1 DEF IngressTypeOK
      <4>3. CASE Called(copy, desired) /\ copy # None
        <5>1. endpoints' = [endpoints EXCEPT ![r] = Patched(@, copy, desired)]
          BY <2>1, <2>2, <4>3 DEF copy, desired
        <5>2. endpoints[r] # None
          BY <2>1, <2>2, <4>3 DEF copy, desired
        <5> QED
          BY <2>2, <2>3, <4>3, <5>1, <5>2 DEF IngressTypeOK
      <4> QED
        BY <4>1, <4>2, <4>3
    <3>2. endpoints'[r] \in Endpoint \cup {None}
      BY <2>2, <2>3 DEF IngressTypeOK
    <3>3. /\ endpoints'[r] # None
          /\ endpoints'[r].host = targetHost(r[1], identity)
          /\ endpoints'[r].address = serviceViews[r[1][1]].address
      BY <1>1, <2>2, <2>3, <3>1, <3>2, SyncedIsRight
    <3>4. r[1] \in activeConfigs
      BY <1>1, <2>2 DEF WorkerCurrent
    <3>5. /\ r[1] \in activeConfigs'
          /\ identity' = identity /\ serviceViews' = serviceViews
      BY <1>2, <3>4 DEF inputVars, settingVars
    <3> QED
      BY <3>3, <3>5 DEF RecordRight, targetHost
  <2>5. ASSUME NEW k \in EndpointKeys, k # r, RecordRight(k) PROVE RecordRight(k)'
    <3>1. endpoints'[k] = endpoints[k]
      BY <2>1, <2>2, <2>3, <2>5 DEF IngressTypeOK
    <3> QED
      BY <1>2, <2>5, <3>1, RightStays
  <2>6. ASSUME NEW k \in EndpointKeys, k # r, k \in missed PROVE k \in missed'
    BY <2>1, <2>2, <2>6
  <2>7. ASSUME NEW k \in EndpointKeys, k[1] \notin w.active
        PROVE  \/ Settled(k)'
               \/ k[1] = w.controllerConfig /\ k[2] \in w.left \ {e}
    <3>1. CASE k = r
      BY <2>4, <3>1 DEF Settled
    <3>2. CASE k # r
      <4>1. \/ k \in missed \/ RecordRight(k)
            \/ k[1] = w.controllerConfig /\ k[2] \in w.left
        BY <1>5, <2>7
      <4>2. k[1] = w.controllerConfig => k[2] # e
        BY <1>4, <2>2, <3>2
      <4>3. RecordRight(k) => Settled(k)'
        BY <2>5, <3>2 DEF Settled
      <4>4. k \in missed => Settled(k)'
        BY <2>6, <3>2 DEF Settled
      <4> QED
        BY <4>1, <4>2, <4>3, <4>4
    <3> QED
      BY <3>1, <3>2
  <2>8. CASE w.left = {e}
    BY <1>7, <2>1, <2>7, <2>8
  <2>9. CASE w.left # {e}
    <3>1. ingressWorker' = [w EXCEPT !.left = @ \ {e}]
      BY <2>1, <2>9
    <3>2. /\ ingressWorker'.pc = "sync" /\ ingressWorker'.active = w.active
          /\ ingressWorker'.id = w.id /\ ingressWorker'.cfg = w.cfg
          /\ ingressWorker'.controllerConfig = w.controllerConfig
          /\ ingressWorker'.service = w.service
          /\ ingressWorker'.left = w.left \ {e}
      BY <1>1, <3>1 DEF IngressWorker
    <3>3. WorkerCurrent'
      BY <1>1, <1>2, <3>2 DEF WorkerCurrent, inputVars, settingVars
    <3>4. ASSUME NEW k \in EndpointKeys,
                 \/ k[1] \in w.active
                 \/ k[1] = w.controllerConfig /\ k[2] \in w.left \ {e}
          PROVE  Settled(k)'
      BY <3>2, <3>4 DEF Settled, ToDo
    <3> QED
      BY <2>7, <3>3, <3>4
  <2> QED
    BY <2>8, <2>9
<1> QED
  BY <1>8, <1>9

\* Unless it is to look again, the worker knows what there is, and each
\* record is settled.
LEMMA SettledStep ==
    ASSUME IngressInv, [Next]_vars
    PROVE  WillLookAgain' \/ (WorkerCurrent' /\ \A k \in EndpointKeys: Settled(k)')
<1> SUFFICES ASSUME ~WillLookAgain'
             PROVE  WorkerCurrent' /\ \A k \in EndpointKeys: Settled(k)'
  OBVIOUS
<1>1. CASE \/ \E g \in Gateways: GatewayEvent(g)
           \/ \E i \in Ingresses: ServiceEvent(i)
           \/ SettingsChange \/ IdentityEvent \/ ConfigEvent \/ TimerExpires
           \/ Restart
  BY <1>1 DEF GatewayEvent, ServiceEvent, SettingsChange, IdentityEvent,
     ConfigEvent, TimerExpires, Restart, Enqueue, WillLookAgain
<1>2. CASE StartGlobal
  <2>1. /\ ingressWorker'.pc = "list" /\ ingressWorker'.active = activeConfigs'
    BY <1>2 DEF StartGlobal, IdleIngressWorker, activeConfigs, inputVars
  <2> QED
    BY <2>1 DEF WorkerCurrent, Settled, ToDo
<1>3. ASSUME \/ ListOrphans \/ DeleteOrphan \/ DeleteFails
             \/ FetchIdentity \/ FetchConfig \/ TakeConfig
             \/ SyncEndpoint \/ SyncFails
      PROVE  ~WillLookAgain
  BY <1>3 DEF ListOrphans, DeleteOrphan, DeleteFails, FetchIdentity, FetchConfig,
     TakeConfig, SyncEndpoint, SyncFails, Await, WillLookAgain, queueVars,
     settingVars
<1>4. CASE ListOrphans \/ DeleteOrphan \/ DeleteFails
  BY <1>3, <1>4, CleanupSettles
<1>5. CASE FetchIdentity \/ FetchConfig \/ TakeConfig
  BY <1>3, <1>5, ReadSettles
<1>6. CASE SyncEndpoint \/ SyncFails
  BY <1>3, <1>6, SyncSettles
<1>7. CASE \/ \E o \in EndpointKeys: InformEndpoint(o) \/ CollectEndpoint(o)
           \/ UNCHANGED vars
  <2>1. /\ UNCHANGED <<inputVars, settingVars, queueVars>>
        /\ ingressWorker' = ingressWorker
    BY <1>7 DEF InformEndpoint, CollectEndpoint, vars
  <2>2. ~WillLookAgain
    BY <2>1 DEF WillLookAgain, settingVars, queueVars
  <2>3. WorkerCurrent /\ \A k \in EndpointKeys: Settled(k)
    BY <2>2 DEF IngressInv
  <2>4. WorkerCurrent'
    BY <2>1, <2>3 DEF WorkerCurrent, activeConfigs, inputVars, settingVars
  <2>5. ASSUME NEW k \in EndpointKeys PROVE Settled(k)'
    <3>1. \/ k \in missed'
          \/ /\ endpoints'[k] = endpoints[k]
             /\ missed \subseteq missed'
      BY <1>7 DEF InformEndpoint, CollectEndpoint, vars, endpointVars,
         IngressInv, IngressTypeOK
    <3>2. ToDo(k) => ToDo(k)'
      BY <2>1 DEF ToDo
    <3>3. k \in missed \/ RecordRight(k) \/ ToDo(k)
      BY <2>3 DEF Settled
    <3> QED
      BY <2>1, <3>1, <3>2, <3>3, RightStays DEF Settled
  <2> QED
    BY <2>4, <2>5
<1> QED
  BY <1>1, <1>2, <1>4, <1>5, <1>6, <1>7
  DEF Next, SystemNext, Disturbance, IngressReconcileNext

LEMMA IngressInvStep == IngressInv /\ [Next]_vars => IngressInv'
<1> SUFFICES ASSUME IngressInv, [Next]_vars PROVE IngressInv'
  OBVIOUS
<1>1. IngressTypeOK'
  BY IngressTypeStep DEF IngressInv
<1>2. OrphansUnused' /\ (globalQueued \/ GatewaysKnown)'
  BY CleanupStep
<1>3. WillLookAgain' \/ (WorkerCurrent' /\ \A k \in EndpointKeys: Settled(k)')
  BY SettledStep
<1> QED
  BY <1>1, <1>2, <1>3 DEF IngressInv

\* No wake-up is lost, in any reachable state.
THEOREM IngressInvariant == Spec => []IngressInv
<1>1. Init => IngressInv
  BY IngressInvInit
<1>2. IngressInv /\ [Next]_vars => IngressInv'
  BY IngressInvStep
<1> QED
  BY <1>1, <1>2, PTL DEF Spec

\* With nothing queued, owed or under way, every record is right that the
\* code has not itself left as it was: one key for all events is enough.
THEOREM RestIsPublished == Spec => []RestPublishesIngresses
<1>1. IngressInv => RestPublishesIngresses
  BY DEF IngressInv, RestPublishesIngresses, IngressQuiescent, WillLookAgain,
     IdleIngressWorker, Settled, ToDo
<1> QED
  BY <1>1, IngressInvariant, PTL

\* The cleanup deletes the record of an ingress and postfix in use only with
\* an event in the queue that makes the controller look again.
THEOREM RecordsStay == Spec => IngressRecordsStay
<1> DEFINE stays(k) ==
        (/\ ingressWorker.pc = "delete" /\ ingressWorker' # ingressWorker
         /\ endpoints[k] # None /\ endpoints'[k] = None)
        => k[1] \notin activeConfigs \/ globalQueued
<1>1. ASSUME IngressInv, Next, NEW k \in EndpointKeys,
             ingressWorker.pc = "delete", ingressWorker' # ingressWorker,
             endpoints[k] # None, endpoints'[k] = None
      PROVE  k[1] \notin activeConfigs \/ globalQueued
  <2>1. DeleteOrphan \/ DeleteFails \/ Restart
    BY <1>1 DEF Next, SystemNext, Disturbance, IngressReconcileNext,
       GatewayEvent, ServiceEvent, SettingsChange, StartGlobal, ListOrphans,
       FetchIdentity, FetchConfig, TakeConfig, SyncEndpoint, SyncFails,
       InformEndpoint, CollectEndpoint, IdentityEvent, ConfigEvent, TimerExpires
  <2>2. DeleteOrphan
    BY <1>1, <2>1 DEF DeleteFails, Restart
  <2>3. PICK o \in ingressWorker.left: endpoints' = [endpoints EXCEPT ![o] = None]
    BY <2>2 DEF DeleteOrphan
  <2>4. k = o
    BY <1>1, <2>3 DEF IngressInv, IngressTypeOK
  <2> QED
    BY <1>1, <2>3, <2>4 DEF IngressInv, OrphansUnused, GatewaysKnown
<1>2. IngressInv /\ [Next]_vars => [\A k \in EndpointKeys: stays(k)]_vars
  BY <1>1
<1> QED
  BY <1>2, IngressInvariant, PTL DEF Spec, IngressRecordsStay

=============================================================================
