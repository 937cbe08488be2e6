--------------------------- MODULE OperatorProofs ---------------------------
(***************************************************************************)
(* The three controllers together, for all inputs.  Each step of the       *)
(* operator is a step of the ClusterIdentity controller or leaves it alone *)
(* and, because Fetch has one answer, a step of PolicyRouting or leaves    *)
(* that alone.  What is proved of either holds here, and the two results   *)
(* make one, from the ClusterIdentity's spec to the DNSEndpoints.          *)
(*                                                                         *)
(* I is what the operator is made of, and IT brings what is proved of it,  *)
(* about definitions that are the same by another name.                    *)
(***************************************************************************)
EXTENDS Operator, PolicyRoutingProofs

IT == INSTANCE ClusterIdentityControllerProofs WITH
    Names <- {Name}, Deletable <- {}

-----------------------------------------------------------------------------
(***************************************************************************)
(* By another name.                                                        *)
(***************************************************************************)
\* What is proved of the ClusterIdentity controller assumes this.
LEMMA IdentityAssumptions ==
    /\ {} \subseteq {Name}
    /\ Identities \subseteq IT!Identity
    /\ Configs \subseteq IT!Config
    /\ None \notin Identities
    /\ None \notin Configs
    /\ MaxIdentityEdits \in Nat
    /\ None \notin IT!ClusterIdentity
BY RoutingInputs, OperatorInputs
DEF Identity, IT!Identity, Config, IT!Config, I!ClusterIdentity,
   IT!ClusterIdentity, I!IdentityStatus, IT!IdentityStatus, I!IdentityReasons,
   IT!IdentityReasons, I!AdoptedReasons, IT!AdoptedReasons

\* The ClusterIdentity controller is the one the proofs are about.
LEMMA SameIdentities ==
    /\ IT!Init <=> I!Init
    /\ [IT!Next]_(IT!vars) <=> [I!Next]_(I!vars)
    /\ IT!IdentityQuiescent <=> I!IdentityQuiescent
    /\ IT!Fetched = I!Fetched
<1> USE DEF I!configVars, IT!configVars, I!NewIdentityStatus,
          IT!NewIdentityStatus, I!Fetch, IT!Fetch, I!Fetched, IT!Fetched,
          I!validateSingleton, IT!validateSingleton, I!validateAdoptedRegions,
          IT!validateAdoptedRegions, I!updateStatusActive,
          IT!updateStatusActive, I!updateStatusFailed, IT!updateStatusFailed,
          I!IdleIdentityWorker, IT!IdleIdentityWorker, I!WriteIdentity,
          IT!WriteIdentity, I!CreateIdentity, IT!CreateIdentity,
          I!EditIdentity, IT!EditIdentity, I!DeleteIdentity,
          IT!DeleteIdentity, I!Owes, IT!Owes, I!InformIdentity,
          IT!InformIdentity, I!NotifyOthers, IT!NotifyOthers,
          I!ConfigChanges, IT!ConfigChanges,
          I!mapDNSConfigToClusterIdentities,
          IT!mapDNSConfigToClusterIdentities, I!ConfigEvent, IT!ConfigEvent,
          I!Continue, IT!Continue, I!StartIdentity, IT!StartIdentity,
          I!ClearCache, IT!ClearCache, I!CheckSingleton, IT!CheckSingleton,
          I!CheckAdoptedRegions, IT!CheckAdoptedRegions, I!SetCache,
          IT!SetCache, I!UpdateIdentityStatus, IT!UpdateIdentityStatus,
          I!RequeueIdentity, IT!RequeueIdentity, I!IdentityConflict,
          IT!IdentityConflict, I!IdentityError, IT!IdentityError, I!Restart,
          IT!Restart, I!UserNext, IT!UserNext, I!IdentityReconcileNext,
          IT!IdentityReconcileNext, I!Next, IT!Next,
          I!ConfigView!ViewInit, IT!ConfigView!ViewInit,
          I!ConfigView!ViewChanges, IT!ConfigView!ViewChanges,
          I!ConfigView!ViewEvent, IT!ConfigView!ViewEvent,
          I!ConfigView!ViewRestarts, IT!ConfigView!ViewRestarts
<1>1. IT!Init <=> I!Init
  BY DEF IT!Init, I!Init
<1>2. IT!Next <=> I!Next
  OBVIOUS
<1>3. UNCHANGED IT!vars <=> UNCHANGED I!vars
  BY DEF IT!vars, I!vars
<1>4. IT!IdentityQuiescent <=> I!IdentityQuiescent
  BY DEF IT!IdentityQuiescent, I!IdentityQuiescent
<1>5. IT!Fetched = I!Fetched
  OBVIOUS
<1> QED
  BY <1>1, <1>2, <1>3, <1>4, <1>5

\* There is one ClusterIdentity, and nobody deletes it.
LEMMA OneIsThere == IT!OneIsKept
BY DEF IT!OneIsKept

-----------------------------------------------------------------------------
(***************************************************************************)
(* Steps.                                                                  *)
(***************************************************************************)
\* For the ClusterIdentity controller the two others do nothing.
LEMMA IdentityStep == [OperatorNext]_operatorVars => [I!Next]_(I!vars)
<1> SUFFICES ASSUME [OperatorNext]_operatorVars PROVE I!Next \/ UNCHANGED I!vars
  OBVIOUS
<1>1. CASE \/ OfIdentity(I!InformIdentity(Name)) \/ OfIdentity(I!UserNext)
           \/ IdentityReconciles \/ OfIdentity(I!IdentityError)
  BY <1>1 DEF OfIdentity, IdentityReconciles, I!Next, I!IdentityReconcileNext
<1>2. CASE \/ NotifyOthers \/ OperatorConfigChanges \/ OperatorConfigEvent
           \/ OperatorRestart
  BY <1>2 DEF NotifyOthers, OperatorConfigChanges, OperatorConfigEvent,
     OperatorRestart, I!Next
<1>3. ASSUME UNCHANGED identityVars, UNCHANGED <<identityOwed, config, configOwed>>
      PROVE  UNCHANGED I!vars
  BY <1>3 DEF identityVars, I!vars
<1>4. ASSUME NEW p \in Policies, OfOthers(InformPolicy(p))
      PROVE  UNCHANGED I!vars
  BY <1>3, <1>4 DEF OfOthers, InformPolicy, P!InformPolicy, P!settingVars
<1>5. CASE \/ OfOthers(OfRoutes(R!RouteInformerNext))
           \/ OfOthers(OfRoutes(R!CollectorNext))
           \/ OfOthers(OfRoutes(R!RouteReconcileNext))
           \/ OfOthers(OfRoutes(R!RouteError))
           \/ OfOthers(OfRoutes(R!UserNext))
  BY <1>3, <1>5 DEF OfOthers, OfRoutes, policyVars
<1>6. CASE \/ OfOthers(OfPolicies(P!ReconcileNext))
           \/ OfOthers(OfPolicies(P!UpdateError))
           \/ OfOthers(OfPolicies(P!UserNext))
  BY <1>3, <1>6 DEF OfOthers, OfPolicies, P!ReconcileNext, P!UserNext,
     P!UpdateError, P!StartPolicy, P!FetchIdentity, P!FetchConfig,
     P!UpdateStatus, P!UpdateConflict, P!RequeuePolicy, P!CreatePolicy,
     P!EditPolicy, P!DeletePolicy, P!WritePolicy, P!settingVars
<1>7. CASE UNCHANGED operatorVars
  BY <1>3, <1>7 DEF operatorVars, vars, policyVars
<1> QED
  BY <1>1, <1>2, <1>4, <1>5, <1>6, <1>7
  DEF OperatorNext, OperatorDisturbance, OperatorFault, OperatorSystemNext,
     OperatorInforming

\* With one ClusterIdentity Fetch has one answer: what is cached or listed.
LEMMA OneAnswer == \A cached, listed: \E id: I!Fetch(cached, listed) = {id}
<1> SUFFICES ASSUME NEW cached, NEW listed
             PROVE  \E id: I!Fetch(cached, listed) = {id}
  OBVIOUS
<1>1. {listed[n] : n \in {Name}} = {listed[Name]}
  OBVIOUS
<1>2. CASE cached # None
  BY <1>2 DEF I!Fetch
<1>3. CASE cached = None /\ listed[Name] = None
  BY <1>1, <1>3 DEF I!Fetch
<1>4. CASE cached = None /\ listed[Name] # None
  <2>1. {listed[n] : n \in {Name}} \ {None} = {listed[Name]}
    BY <1>1, <1>4
  <2>2. I!Fetch(cached, listed) = {listed[Name].spec}
    BY <1>4, <2>1 DEF I!Fetch
  <2> QED
    BY <2>2
<1> QED
  BY <1>2, <1>3, <1>4

\* What the others take for the identity is that answer.
Answered == I!Fetched = {identity}

LEMMA AnsweredStep == Answered /\ [OperatorNext]_operatorVars => Answered'
<1> SUFFICES ASSUME Answered, [OperatorNext]_operatorVars
             PROVE  I!Fetched' = {identity'}
  BY DEF Answered
<1>1. ASSUME identity' \in I!Fetched' PROVE I!Fetched' = {identity'}
  <2>1. I!Fetched' = I!Fetch(cache', seenIdentities')
    BY DEF I!Fetched
  <2>2. PICK id: I!Fetched' = {id}
    BY <2>1, OneAnswer
  <2> QED
    BY <1>1, <2>2
<1>2. ASSUME UNCHANGED <<cache, seenIdentities, identity>>
      PROVE  I!Fetched' = {identity'}
  BY <1>2 DEF Answered, I!Fetched
<1>3. CASE \/ OfIdentity(I!InformIdentity(Name)) \/ OfIdentity(I!UserNext)
           \/ IdentityReconciles \/ OfIdentity(I!IdentityError)
           \/ OperatorRestart
  BY <1>1, <1>3 DEF OfIdentity, IdentityReconciles, OperatorRestart
<1>4. CASE NotifyOthers \/ OperatorConfigChanges \/ OperatorConfigEvent
  BY <1>2, <1>4 DEF NotifyOthers, OperatorConfigChanges, OperatorConfigEvent,
     I!NotifyOthers, I!ConfigChanges, I!ConfigEvent, IdentityEvent,
     P!IdentityEvent, P!IdentityView!ViewEvent, ConfigChanges,
     P!ConfigChanges, OfPolicies, P!ConfigEvent
<1>5. ASSUME NEW p \in Policies, OfOthers(InformPolicy(p))
      PROVE  I!Fetched' = {identity'}
  BY <1>2, <1>5 DEF OfOthers, InformPolicy, P!InformPolicy, P!settingVars,
     identityVars
<1>6. CASE \/ OfOthers(OfRoutes(R!RouteInformerNext))
           \/ OfOthers(OfRoutes(R!CollectorNext))
           \/ OfOthers(OfRoutes(R!RouteReconcileNext))
           \/ OfOthers(OfRoutes(R!RouteError))
           \/ OfOthers(OfRoutes(R!UserNext))
  BY <1>2, <1>6 DEF OfOthers, OfRoutes, identityVars
<1>7. CASE \/ OfOthers(OfPolicies(P!ReconcileNext))
           \/ OfOthers(OfPolicies(P!UpdateError))
           \/ OfOthers(OfPolicies(P!UserNext))
  BY <1>2, <1>7 DEF OfOthers, OfPolicies, P!ReconcileNext, P!UserNext,
     P!UpdateError, P!StartPolicy, P!FetchIdentity, P!FetchConfig,
     P!UpdateStatus, P!UpdateConflict, P!RequeuePolicy, P!CreatePolicy,
     P!EditPolicy, P!DeletePolicy, P!WritePolicy, P!settingVars, identityVars
<1>8. CASE UNCHANGED operatorVars
  BY <1>2, <1>8 DEF operatorVars, vars, identityVars
<1> QED
  BY <1>3, <1>4, <1>5, <1>6, <1>7, <1>8
  DEF OperatorNext, OperatorDisturbance, OperatorFault, OperatorSystemNext,
     OperatorInforming

\* The inductive invariant: that of the ClusterIdentity controller, and the
\* answer it gives the others.
OperatorInv == IT!AloneInv /\ Answered

\* The invariant of the ClusterIdentity controller holds next to the others.
THEOREM OperatorInvariant == OperatorSpec => []OperatorInv
<1>1. OperatorInit => OperatorInv
  <2> SUFFICES ASSUME OperatorInit PROVE OperatorInv
    OBVIOUS
  <2>1. IT!AloneInv
    BY SameIdentities, UnsetIsNoName, IdentityAssumptions, IT!AloneInit
    DEF OperatorInit
  <2>2. PICK id: I!Fetched = {id}
    BY OneAnswer DEF I!Fetched
  <2>3. identity \in I!Fetched
    BY DEF OperatorInit
  <2> QED
    BY <2>1, <2>2, <2>3 DEF OperatorInv, Answered
<1>2. OperatorInv /\ [OperatorNext]_operatorVars => OperatorInv'
  <2>1. [OperatorNext]_operatorVars => [IT!Next]_(IT!vars)
    BY IdentityStep, SameIdentities
  <2>2. IT!AloneInv /\ [IT!Next]_(IT!vars) => IT!AloneInv'
    BY OneIsThere, UnsetIsNoName, IdentityAssumptions, IT!AloneStep
  <2> QED
    BY <2>1, <2>2, AnsweredStep DEF OperatorInv
<1> QED
  BY <1>1, <1>2, PTL DEF OperatorSpec

\* A step of the ClusterIdentity controller by which Fetch answers the same
\* and nobody is told.
LEMMA SilentStep ==
    ASSUME OperatorInv, OperatorInv',
           UNCHANGED <<policyVars, config, routeVars, identityOwed>>,
           UNCHANGED <<cache, seenIdentities>>
    PROVE  UNCHANGED vars
<1>1. I!Fetched' = I!Fetched
  BY DEF I!Fetched
<1>2. identity' = identity
  BY <1>1 DEF OperatorInv, Answered
<1> QED
  BY <1>2 DEF vars

\* The answer is a spec that users write, or none.
AnswerTypeOK == identity \in Identities \cup {None}

LEMMA AnswerType == OperatorInv => AnswerTypeOK
<1>1. IT!IdentityTypeOK => IT!Fetched \subseteq Identities \cup {None}
  BY UnsetIsNoName, IdentityAssumptions, IT!FetchType
<1> QED
  BY <1>1, SameIdentities
  DEF AnswerTypeOK, OperatorInv, IT!AloneInv, IT!WriterInv, Answered

LEMMA NextAnswerType == OperatorInv' => AnswerTypeOK'
BY AnswerType, PTL

\* One by which it may answer something else, and then owes the others an
\* event.
LEMMA OwingStep ==
    ASSUME OperatorInv, OperatorInv',
           UNCHANGED <<policyVars, config, routeVars>>, I!Owes
    PROVE  IdentityChanges \/ UNCHANGED vars
<1>1. identityOwed \in BOOLEAN
  BY DEF OperatorInv, IT!AloneInv, IT!WriterInv, IT!IdentityTypeOK
<1>2. CASE identity' = identity
  <2>1. I!Fetched' = I!Fetched
    BY <1>2 DEF OperatorInv, Answered
  <2>2. identityOwed' = identityOwed
    BY <1>1, <2>1 DEF I!Owes
  <2> QED
    BY <1>2, <2>2 DEF vars
<1>3. CASE identity' # identity
  <2>1. identityOwed' = TRUE
    BY <1>3 DEF OperatorInv, Answered, I!Owes
  <2> QED
    BY <1>3, <2>1, NextAnswerType
    DEF AnswerTypeOK, IdentityChanges, P!IdentityChanges, R!IdentityChanges,
       P!IdentityView!ViewChanges, R!IdentityView!ViewChanges, policyVars,
       routeVars, R!routeVars, R!endpointVars
<1> QED
  BY <1>2, <1>3

\* For the two others the ClusterIdentity controller is one by whose will the
\* identity changes, and whose events follow.
LEMMA RoutingStep ==
    ASSUME OperatorInv, OperatorInv', [OperatorNext]_operatorVars
    PROVE  [Next]_vars
<1>1. CASE \/ \E n \in {Name}: OfIdentity(I!StartIdentity(n))
           \/ OfIdentity(I!CheckSingleton)
           \/ OfIdentity(I!CheckAdoptedRegions)
           \/ OfIdentity(I!UpdateIdentityStatus)
           \/ OfIdentity(I!IdentityConflict)
           \/ OfIdentity(I!IdentityError)
  <2>1. UNCHANGED <<cache, seenIdentities, identityOwed>>
    BY <1>1 DEF OfIdentity, I!StartIdentity, I!CheckSingleton,
       I!CheckAdoptedRegions, I!UpdateIdentityStatus, I!IdentityConflict,
       I!IdentityError, I!RequeueIdentity
  <2>2. UNCHANGED <<policyVars, config, routeVars>>
    BY <1>1 DEF OfIdentity
  <2> QED
    BY <2>1, <2>2, SilentStep
<1>2. CASE OfIdentity(I!UserNext)
  <2>1. UNCHANGED <<cache, seenIdentities, identityOwed>>
    BY <1>2 DEF OfIdentity, I!UserNext, I!CreateIdentity, I!EditIdentity,
       I!WriteIdentity
  <2>2. UNCHANGED <<policyVars, config, routeVars>>
    BY <1>2 DEF OfIdentity
  <2> QED
    BY <2>1, <2>2, SilentStep
<1>3. CASE OfIdentity(I!InformIdentity(Name)) \/ OfIdentity(I!SetCache)
  <2>1. I!Owes /\ UNCHANGED <<policyVars, config, routeVars>>
    BY <1>3 DEF OfIdentity, I!InformIdentity, I!SetCache
  <2> QED
    BY <2>1, OwingStep DEF Next, Disturbance
<1>4. CASE NotifyOthers
  BY <1>4 DEF NotifyOthers, Next, Disturbance, Fault, SystemNext, Informing
<1>5. CASE OperatorConfigEvent
  BY <1>5 DEF OperatorConfigEvent, Next, Disturbance, Fault, SystemNext,
     Informing
<1>6. CASE OperatorConfigChanges \/ OperatorRestart
  BY <1>6 DEF OperatorConfigChanges, OperatorRestart, Next, Disturbance
<1>7. ASSUME NEW p \in Policies, OfOthers(InformPolicy(p)) PROVE Next
  BY <1>7 DEF OfOthers, Next, SystemNext, Informing
<1>8. CASE \/ OfOthers(OfRoutes(R!RouteInformerNext))
           \/ OfOthers(OfRoutes(R!CollectorNext))
           \/ OfOthers(OfRoutes(R!RouteReconcileNext))
           \/ OfOthers(OfRoutes(R!RouteError))
           \/ OfOthers(OfRoutes(R!UserNext))
  BY <1>8 DEF OfOthers, Next, Disturbance, Fault, SystemNext, Informing
<1>9. CASE \/ OfOthers(OfPolicies(P!ReconcileNext))
           \/ OfOthers(OfPolicies(P!UpdateError))
           \/ OfOthers(OfPolicies(P!UserNext))
  BY <1>9 DEF OfOthers, Next, Disturbance, Fault, SystemNext
<1>10. CASE UNCHANGED operatorVars
  BY <1>10 DEF operatorVars
<1>11. ASSUME IdentityReconciles PROVE [Next]_vars
  BY <1>1, <1>3, <1>11 DEF IdentityReconciles, OfIdentity
<1> QED
  BY <1>1, <1>2, <1>3, <1>4, <1>5, <1>6, <1>7, <1>8, <1>9, <1>10, <1>11
  DEF OperatorNext, OperatorDisturbance, OperatorFault, OperatorSystemNext,
     OperatorInforming

\* What PolicyRouting supposes of the identity is kept by the ClusterIdentity
\* controller, its cache and its informer: no change of what Fetch answers
\* is left without an event, and nothing else reaches the two others.
THEOREM OperatorIsPolicyRouting == OperatorSpec => Init /\ ImplementsPolicyRouting
<1>1. OperatorInv /\ OperatorInv' /\ [OperatorNext]_operatorVars => [Next]_vars
  BY RoutingStep
<1>2. OperatorInit => Init
  BY DEF OperatorInit
<1> QED
  BY <1>1, <1>2, OperatorInvariant, PTL DEF OperatorSpec, ImplementsPolicyRouting

-----------------------------------------------------------------------------
(***************************************************************************)
(* From the ClusterIdentity's spec to the DNSEndpoints.                    *)
(***************************************************************************)
\* When everything rests nobody is owed an event.
LEMMA RestingOwesNothing ==
    ASSUME OperatorInv, OperatorRests
    PROVE  Resting
<1>1. IT!IdentityQuiescent
  BY SameIdentities DEF OperatorRests
<1>2. ~identityOwed
  BY <1>1, OneIsThere, UnsetIsNoName, IdentityAssumptions, IT!AloneIsTold
  DEF OperatorInv, IT!OthersAreTold
<1>3. ~configOwed
  BY DEF OperatorRests, I!IdentityQuiescent
<1> QED
  BY <1>2, <1>3 DEF Resting, OperatorRests, P!PolicyQuiescent, R!RouteQuiescent

\* And Fetch answers what is specified.
LEMMA RestingIsSpecified ==
    ASSUME OperatorInv, OperatorRests
    PROVE  identity = SpecifiedIdentity
<1>1. IT!IdentityQuiescent
  BY SameIdentities DEF OperatorRests
<1>2. IT!Fetched = {identity}
  BY SameIdentities DEF OperatorInv, Answered
<1> QED
  BY <1>1, <1>2, UnsetIsNoName, IdentityAssumptions, IT!AloneIsFetched
  DEF OperatorInv, SpecifiedIdentity

\* At rest the records of a route are those that the specs of the
\* ClusterIdentity and of a DNSPolicy call for, whatever the order in which
\* the three controllers, the watch events and Set got there.
THEOREM SpecifiedIsPublished == OperatorSpec => []RestPublishesSpecified
<1>1. OperatorInv /\ RoutingInv => RestPublishesSpecified
  BY RestingOwesNothing, RestingIsSpecified, RestingIsPublished
  DEF RestPublishesSpecified
<1>2. OperatorSpec => []RoutingInv
  <2>1. OperatorSpec => Spec
    BY OperatorIsPolicyRouting DEF ImplementsPolicyRouting, Spec
  <2> QED
    BY <2>1, RoutingInvariant
<1> QED
  BY <1>1, <1>2, OperatorInvariant, PTL
=============================================================================
