--------------------- MODULE DNSPolicyControllerProofs ---------------------
(***************************************************************************)
(* What holds of the DNSPolicy controller for all policies, regions,       *)
(* controllers, identities and configurations: its type invariant, and     *)
(* that no wake-up is lost (NoLostWakeUp, an inductive invariant), from    *)
(* which it follows that a quiescent controller's statuses are current.    *)
(***************************************************************************)
EXTENDS DNSPolicyController, TLAPS

USE DEF IdentityView!ViewTypeOK, ConfigView!ViewTypeOK,
        IdentityView!ViewInit, ConfigView!ViewInit,
        IdentityView!ViewChanges, ConfigView!ViewChanges,
        IdentityView!ViewEvent, ConfigView!ViewEvent,
        IdentityView!ViewRestarts, ConfigView!ViewRestarts

-----------------------------------------------------------------------------
(***************************************************************************)
(* The verdict.                                                            *)
(***************************************************************************)
\* Only configured controllers are selected: determineActiveControllers
\* returns names out of the DNSConfiguration, in either mode.
LEMMA SelectsConfigured ==
    ASSUME NEW spec, NEW id, NEW cfg \in Configs
    PROVE  determineActiveControllers(spec, id, cfg) \in SUBSET Controllers
<1>1. DOMAIN cfg \subseteq Controllers
  BY PolicyInputs DEF Config
<1> QED
  BY <1>1 DEF determineActiveControllers,
     determineActiveControllersForActiveMode, ControllersOf,
     determineActiveControllersForRegionBoundMode

\* Reconcile computes a well-formed status.
LEMMA VerdictType ==
    ASSUME NEW obj \in Policy, NEW id \in Identities \cup {None},
           NEW cfg \in Configs \cup {None}
    PROVE  PolicyVerdict(obj, id, cfg) \in PolicyStatus
<1>1. obj.rev \in 0..MaxEdits /\ obj.status \in PolicyStatus
  BY PolicyInputs DEF Policy
<1>2. CASE id = None \/ cfg = None
  BY <1>1, <1>2 DEF PolicyVerdict, policyNotReadyStatus, PolicyStatus,
     PolicyReasons
<1>3. CASE id # None /\ cfg # None
  <2>1. determineActiveControllers(obj.spec, id, cfg) \in SUBSET Controllers
    BY <1>3, SelectsConfigured
  <2> QED
    BY <1>1, <1>3, <2>1 DEF PolicyVerdict, policyNotReadyStatus,
       policyInactiveStatus, policyActiveStatus, PolicyStatus, PolicyPhases,
       PolicyReasons
<1> QED
  BY <1>2, <1>3

\* Reconcile is idempotent: computing the status again from the object it
\* has just written gives that status.
LEMMA VerdictIdempotent ==
    ASSUME NEW obj \in Policy, NEW id, NEW cfg,
           PolicyVerdict(obj, id, cfg) \in PolicyStatus,
           NEW new, new = [obj EXCEPT !.status = PolicyVerdict(obj, id, cfg)]
    PROVE  PolicyVerdict(new, id, cfg) = PolicyVerdict(obj, id, cfg)
<1> DEFINE st == PolicyVerdict(obj, id, cfg)
<1>1. new.spec = obj.spec /\ new.rev = obj.rev /\ new.status = st
  BY DEF Policy
<1>2. obj.status \in PolicyStatus
  BY DEF Policy
<1> QED
  BY <1>1, <1>2 DEF PolicyVerdict, policyNotReadyStatus,
     policyInactiveStatus, policyActiveStatus, PolicyStatus

-----------------------------------------------------------------------------
(***************************************************************************)
(* Type correctness.                                                       *)
(***************************************************************************)
\* The operator starts in a well-formed state.
LEMMA PolicyTypeInit == Init => PolicyTypeOK
<1> SUFFICES ASSUME Init PROVE PolicyTypeOK
  OBVIOUS
<1>1. policies \in [Policies -> Policy \cup {None}] /\ seenPolicies = policies
  BY DEF Init
<1>2. edits \in 0..MaxEdits
  BY PolicyInputs DEF Init
<1>3. policyQueue \subseteq Policies /\ policyWorker \in PolicyWorker
  BY DEF Init, PolicyWorker
<1>4. IdentityView!ViewTypeOK /\ ConfigView!ViewTypeOK
  BY DEF Init
<1> QED
  BY <1>1, <1>2, <1>3, <1>4 DEF PolicyTypeOK

\* A user's write stores a well-formed policy under a revision of its own.
LEMMA WriteIsNew ==
    ASSUME PolicyTypeOK, NEW p \in Policies, CreatePolicy(p) \/ EditPolicy(p)
    PROVE  \E obj \in Policy: obj.rev = edits + 1 /\ WritePolicy(p, obj)
<1>1. CASE CreatePolicy(p)
  <2>1. PICK spec \in PolicySpecs:
          WritePolicy(p, [spec |-> spec, rev |-> edits + 1,
                          status |-> NewPolicyStatus])
    BY <1>1 DEF CreatePolicy
  <2>2. NewPolicyStatus \in PolicyStatus
    BY PolicyInputs DEF NewPolicyStatus, PolicyStatus, PolicyPhases,
       PolicyReasons
  <2>3. edits + 1 \in 1..MaxEdits
    BY <2>1, PolicyInputs DEF WritePolicy, PolicyTypeOK
  <2> QED
    BY <2>1, <2>2, <2>3 DEF Policy
<1>2. CASE EditPolicy(p)
  <2>1. PICK spec \in PolicySpecs:
          WritePolicy(p, [policies[p] EXCEPT !.spec = spec, !.rev = edits + 1])
    BY <1>2 DEF EditPolicy
  <2>2. policies[p] \in Policy
    BY <1>2 DEF EditPolicy, PolicyTypeOK
  <2>3. edits + 1 \in 1..MaxEdits
    BY <2>1, PolicyInputs DEF WritePolicy, PolicyTypeOK
  <2> QED
    BY <2>1, <2>2, <2>3 DEF Policy
<1> QED
  BY <1>1, <1>2

\* Every step of users, settings, informer, worker and restarts keeps it so.
LEMMA PolicyTypeStep == PolicyTypeOK /\ [Next]_vars => PolicyTypeOK'
<1> SUFFICES ASSUME PolicyTypeOK, [Next]_vars PROVE PolicyTypeOK'
  OBVIOUS
<1> USE PolicyInputs DEF PolicyTypeOK
<1>1. ASSUME NEW p \in Policies, CreatePolicy(p) \/ EditPolicy(p)
      PROVE  PolicyTypeOK'
  <2>1. PICK obj \in Policy: obj.rev = edits + 1 /\ WritePolicy(p, obj)
    BY <1>1, WriteIsNew
  <2>2. edits' \in 0..MaxEdits
    BY <2>1 DEF WritePolicy
  <2>3. policies' \in [Policies -> Policy \cup {None}]
    BY <2>1 DEF WritePolicy
  <2> QED
    BY <2>1, <2>2, <2>3 DEF WritePolicy, settingVars
<1>2. ASSUME NEW p \in Policies, DeletePolicy(p) PROVE PolicyTypeOK'
  BY <1>2 DEF DeletePolicy, settingVars
<1>3. ASSUME NEW p \in Policies, InformPolicy(p) PROVE PolicyTypeOK'
  BY <1>3 DEF InformPolicy, settingVars
<1>4. CASE IdentityChanges \/ ConfigChanges
  BY <1>4 DEF IdentityChanges, ConfigChanges
<1>5. CASE IdentityEvent \/ ConfigEvent
  BY <1>5 DEF IdentityEvent, ConfigEvent, mapGlobalConfigToDNSPolicies
<1>6. ASSUME NEW p \in Policies, StartPolicy(p) PROVE PolicyTypeOK'
  <2>1. policyWorker' \in PolicyWorker
    <3>1. CASE seenPolicies[p] = None
      BY <1>6, <3>1 DEF StartPolicy, PolicyWorker
    <3>2. CASE seenPolicies[p] # None
      <4>1. seenPolicies[p] \in Policy
        BY <3>2
      <4> QED
        BY <1>6, <3>2, <4>1 DEF StartPolicy, PolicyWorker
    <3> QED
      BY <3>1, <3>2
  <2> QED
    BY <1>6, <2>1 DEF StartPolicy, settingVars
<1>7. CASE FetchIdentity \/ FetchConfig
  <2>1. policyWorker \in
          [pc: {"identity", "config", "update"}, key: Policies, obj: Policy,
           id: Identities \cup {None}, cfg: Configs \cup {None}]
    BY <1>7 DEF FetchIdentity, FetchConfig, PolicyWorker, IdlePolicyWorker
  <2>2. CASE FetchIdentity
    BY <2>1, <2>2 DEF FetchIdentity, settingVars, PolicyWorker
  <2>3. CASE FetchConfig
    BY <2>1, <2>3 DEF FetchConfig, settingVars, PolicyWorker
  <2> QED
    BY <1>7, <2>2, <2>3
<1>8. CASE UpdateStatus
  <2> DEFINE w == policyWorker
  <2>1. /\ w.key \in Policies
        /\ w.obj \in Policy
        /\ w.id \in Identities \cup {None}
        /\ w.cfg \in Configs \cup {None}
    BY <1>8 DEF UpdateStatus, PolicyWorker, IdlePolicyWorker
  <2>2. PolicyVerdict(w.obj, w.id, w.cfg) \in PolicyStatus
    BY <2>1, VerdictType
  <2>3. [policies[w.key] EXCEPT !.status = PolicyVerdict(w.obj, w.id, w.cfg)]
        \in Policy
    BY <1>8, <2>1, <2>2 DEF UpdateStatus, Policy
  <2> QED
    BY <1>8, <2>1, <2>3 DEF UpdateStatus, settingVars, PolicyWorker
<1>9. CASE UpdateConflict \/ UpdateError
  BY <1>9 DEF UpdateConflict, UpdateError, RequeuePolicy, settingVars,
     PolicyWorker, IdlePolicyWorker
<1>10. CASE Restart
  BY <1>10 DEF Restart, settingVars, PolicyWorker
<1>11. CASE UNCHANGED vars
  BY <1>11 DEF vars
<1> QED
  BY <1>1, <1>2, <1>3, <1>4, <1>5, <1>6, <1>7, <1>8, <1>9, <1>10, <1>11
     DEF Next, UserNext, SystemNext, ReconcileNext

\* Every variable keeps its type: in particular no stored status names a
\* controller that is not one, and no revision passes the bound.
THEOREM PolicyTypeCorrect == Spec => []PolicyTypeOK
BY PolicyTypeInit, PolicyTypeStep, PTL DEF Spec

-----------------------------------------------------------------------------
(***************************************************************************)
(* No wake-up is lost.                                                     *)
(***************************************************************************)
\* A worker that is not idle holds a key, an object and what it has fetched.
LEMMA WorkerType ==
    ASSUME PolicyTypeOK, policyWorker.pc # "idle"
    PROVE  policyWorker \in
             [pc: {"identity", "config", "update"}, key: Policies,
              obj: Policy, id: Identities \cup {None}, cfg: Configs \cup {None}]
BY DEF PolicyTypeOK, PolicyWorker, IdlePolicyWorker

\* At the start there is no policy to forget.
LEMMA NoLostWakeUpInit == Init => NoLostWakeUp
BY DEF Init, NoLostWakeUp, RevisionsArePast, Revised, WritableIsSeen,
   ReadsAreFresh, StaleIsPending, PolicyCurrent, IdlePolicyWorker

\* The informer and the worker are behind a user's write: nobody has read
\* its revision yet.
LEMMA WriteIsUnread ==
    ASSUME PolicyTypeOK, NoLostWakeUp, NEW p \in Policies, NEW obj \in Policy,
           obj.rev = edits + 1
    PROVE  /\ obj # seenPolicies[p]
           /\ policyWorker.pc # "idle" => obj # policyWorker.obj
<1>1. edits \in 0..MaxEdits /\ MaxEdits \in Nat
  BY PolicyInputs DEF PolicyTypeOK
<1>2. ASSUME NEW old \in Policy \cup {None}, Revised(old, edits)
      PROVE  obj # old
  BY <1>1, <1>2, NoneIsNoPolicy DEF Revised, Policy
<1> QED
  BY <1>2, WorkerType DEF NoLostWakeUp, RevisionsArePast, PolicyTypeOK

\* Each step keeps the four parts of the invariant.  The delicate one is
\* UpdateStatus: the object written is the stored one and the informer's, so
\* either what was read is still the case, and by VerdictIdempotent the new
\* status is current, or a wake-up is pending and the write does not undo it.
LEMMA NoLostWakeUpStep ==
    PolicyTypeOK /\ NoLostWakeUp /\ [Next]_vars => NoLostWakeUp'
<1> SUFFICES ASSUME PolicyTypeOK, NoLostWakeUp, [Next]_vars
             PROVE  NoLostWakeUp'
  OBVIOUS
<1> DEFINE w == policyWorker
<1>t. PolicyTypeOK'
  BY PolicyTypeStep
<1>w. w.pc # "idle" => w.key \in Policies /\ w.obj \in Policy
  BY WorkerType
<1> USE <1>w, PolicyInputs, NoneIsNoPolicy DEF NoLostWakeUp
<1>1. ASSUME NEW p \in Policies, CreatePolicy(p) \/ EditPolicy(p)
      PROVE  NoLostWakeUp'
  <2>1. PICK obj \in Policy: obj.rev = edits + 1 /\ WritePolicy(p, obj)
    BY <1>1, WriteIsNew
  <2>2. obj # seenPolicies[p] /\ (w.pc # "idle" => obj # w.obj)
    BY <2>1, WriteIsUnread
  <2>3. /\ policies' = [policies EXCEPT ![p] = obj]
        /\ policies \in [Policies -> Policy \cup {None}]
        /\ edits' = edits + 1
        /\ edits \in 0..MaxEdits
        /\ UNCHANGED <<seenPolicies, policyQueue, policyWorker, settingVars>>
    BY <2>1 DEF WritePolicy, PolicyTypeOK
  <2>4. RevisionsArePast'
    <3>1. ASSUME NEW old \in Policy \cup {None}, Revised(old, edits)
          PROVE  Revised(old, edits')
      BY <2>3, <3>1 DEF Revised, Policy
    <3>2. w.obj \in Policy \cup {None}
      BY DEF PolicyTypeOK, PolicyWorker, IdlePolicyWorker
    <3> QED
      BY <2>1, <2>3, <3>1, <3>2 DEF RevisionsArePast, Revised, PolicyTypeOK
  <2>5. WritableIsSeen'
    BY <2>2, <2>3 DEF WritableIsSeen
  <2>6. ReadsAreFresh'
    BY <2>2, <2>3 DEF ReadsAreFresh, PolicyPending, settingVars
  <2>7. StaleIsPending'
    BY <2>2, <2>3 DEF StaleIsPending, PolicyCurrent, PolicyPending, settingVars
  <2> QED
    BY <2>4, <2>5, <2>6, <2>7
<1>2. ASSUME NEW p \in Policies, DeletePolicy(p) PROVE NoLostWakeUp'
  <2>1. /\ policies' = [policies EXCEPT ![p] = None]
        /\ policies \in [Policies -> Policy \cup {None}]
        /\ UNCHANGED <<seenPolicies, policyQueue, policyWorker, settingVars, edits>>
    BY <1>2 DEF DeletePolicy, PolicyTypeOK
  <2>2. RevisionsArePast'
    BY <2>1 DEF RevisionsArePast, Revised
  <2>3. WritableIsSeen'
    BY <2>1 DEF WritableIsSeen
  <2>4. ReadsAreFresh'
    BY <2>1 DEF ReadsAreFresh, PolicyPending, settingVars
  <2>5. StaleIsPending'
    BY <2>1 DEF StaleIsPending, PolicyCurrent, PolicyPending, settingVars
  <2> QED
    BY <2>2, <2>3, <2>4, <2>5
<1>3. ASSUME NEW p \in Policies, InformPolicy(p) PROVE NoLostWakeUp'
  <2>1. /\ seenPolicies' = [seenPolicies EXCEPT ![p] = policies[p]]
        /\ seenPolicies \in [Policies -> Policy \cup {None}]
        /\ policyQueue' = policyQueue \cup {p}
        /\ UNCHANGED <<policies, policyWorker, settingVars, edits>>
    BY <1>3 DEF InformPolicy, PolicyTypeOK
  <2>2. RevisionsArePast'
    BY <2>1 DEF RevisionsArePast, Revised
  <2>3. WritableIsSeen'
    BY <2>1 DEF WritableIsSeen
  <2>4. ReadsAreFresh'
    BY <2>1 DEF ReadsAreFresh, PolicyPending, settingVars
  <2>5. StaleIsPending'
    BY <2>1 DEF StaleIsPending, PolicyCurrent, PolicyPending, settingVars
  <2> QED
    BY <2>2, <2>3, <2>4, <2>5
<1>4. CASE IdentityChanges \/ ConfigChanges
  <2>1. /\ identityOwed' \/ configOwed'
        /\ UNCHANGED <<policies, seenPolicies, policyQueue, policyWorker, edits>>
    BY <1>4 DEF IdentityChanges, ConfigChanges
  <2> QED
    BY <2>1 DEF RevisionsArePast, Revised, WritableIsSeen, ReadsAreFresh,
       StaleIsPending, PolicyPending
<1>5. CASE IdentityEvent \/ ConfigEvent
  <2>1. /\ policyQueue' = policyQueue \cup {p \in Policies : seenPolicies[p] # None}
        /\ UNCHANGED <<policies, seenPolicies, policyWorker, identity, config, edits>>
    BY <1>5 DEF IdentityEvent, ConfigEvent, mapGlobalConfigToDNSPolicies
  <2>2. RevisionsArePast' /\ WritableIsSeen'
    BY <2>1 DEF RevisionsArePast, Revised, WritableIsSeen
  <2>3. ReadsAreFresh'
    BY <2>1 DEF ReadsAreFresh, WritableIsSeen, PolicyPending
  <2>4. StaleIsPending'
    BY <2>1 DEF StaleIsPending, PolicyCurrent, PolicyPending
  <2> QED
    BY <2>2, <2>3, <2>4
<1>6. ASSUME NEW p \in Policies, StartPolicy(p) PROVE NoLostWakeUp'
  <2>1. /\ w.pc = "idle"
        /\ policyQueue' = policyQueue \ {p}
        /\ UNCHANGED <<policies, seenPolicies, identity, identityOwed, config,
                       configOwed, edits>>
    BY <1>6 DEF StartPolicy, settingVars
  <2>2. CASE seenPolicies[p] = None
    <3>1. policyWorker' = IdlePolicyWorker
      BY <1>6, <2>2 DEF StartPolicy
    <3> QED
      BY <2>1, <2>2, <3>1 DEF RevisionsArePast, Revised, WritableIsSeen,
         ReadsAreFresh, StaleIsPending, PolicyCurrent, PolicyPending,
         IdlePolicyWorker
  <2>3. CASE seenPolicies[p] # None
    <3>1. policyWorker' = [pc |-> "identity", key |-> p,
                           obj |-> seenPolicies[p], id |-> None, cfg |-> None]
      BY <1>6, <2>3 DEF StartPolicy
    <3> QED
      BY <2>1, <3>1 DEF RevisionsArePast, Revised, WritableIsSeen,
         ReadsAreFresh, StaleIsPending, PolicyCurrent, PolicyPending
  <2> QED
    BY <2>2, <2>3
<1>7. CASE FetchIdentity \/ FetchConfig
  <2>1. policyWorker \in
          [pc: {"identity", "config", "update"}, key: Policies, obj: Policy,
           id: Identities \cup {None}, cfg: Configs \cup {None}]
    BY <1>7, WorkerType DEF FetchIdentity, FetchConfig
  <2>2. /\ policyWorker'.key = w.key
        /\ policyWorker'.obj = w.obj
        /\ policyWorker'.pc # "idle"
        /\ UNCHANGED <<policies, seenPolicies, policyQueue, identity,
                       identityOwed, config, configOwed, edits>>
    BY <1>7, <2>1 DEF FetchIdentity, FetchConfig, settingVars
  <2>3. RevisionsArePast' /\ WritableIsSeen'
    BY <2>1, <2>2 DEF RevisionsArePast, Revised, WritableIsSeen
  <2>4. ReadsAreFresh'
    BY <1>7, <2>1, <2>2 DEF ReadsAreFresh, PolicyPending, FetchIdentity, FetchConfig
  <2>5. StaleIsPending'
    BY <2>1, <2>2 DEF StaleIsPending, PolicyCurrent, PolicyPending
  <2> QED
    BY <2>3, <2>4, <2>5
<1>8. CASE UpdateStatus
  <2>1. /\ w.pc = "update"
        /\ policies[w.key] = w.obj
        /\ policies' = [policies EXCEPT
                          ![w.key].status = PolicyVerdict(w.obj, w.id, w.cfg)]
        /\ policyWorker' = IdlePolicyWorker
        /\ UNCHANGED <<seenPolicies, policyQueue, identity, identityOwed,
                       config, configOwed, edits>>
    BY <1>8 DEF UpdateStatus, settingVars
  <2>2. /\ w.key \in Policies
        /\ w.obj \in Policy
        /\ w.id \in Identities \cup {None}
        /\ w.cfg \in Configs \cup {None}
    BY <2>1, WorkerType
  <2> DEFINE st == PolicyVerdict(w.obj, w.id, w.cfg)
             new == [w.obj EXCEPT !.status = st]
  <2>3. st \in PolicyStatus
    BY <2>2, VerdictType
  <2>4. /\ policies \in [Policies -> Policy \cup {None}]
        /\ policies' = [policies EXCEPT ![w.key] = new]
    BY <2>1 DEF PolicyTypeOK
  <2>5. new.rev = w.obj.rev /\ new.status = st /\ new # None
    BY <2>2, <2>3 DEF Policy
  <2>6. RevisionsArePast'
    BY <2>1, <2>2, <2>4, <2>5 DEF RevisionsArePast, Revised, IdlePolicyWorker
  <2>7. WritableIsSeen' /\ ReadsAreFresh'
    BY <2>1 DEF WritableIsSeen, ReadsAreFresh, IdlePolicyWorker
  <2>8. PICK p \in Policies: p = w.key
    BY <2>2
  <2>9. PolicyCurrent(p)' \/ PolicyPending(p)'
    <3>1. CASE w.id = identity /\ (identity = None \/ w.cfg = config)
      <4>1. PolicyVerdict(new, w.id, w.cfg) = st
        BY <2>2, <2>3, VerdictIdempotent
      <4>2. PolicyVerdict(new, w.id, w.cfg) = PolicyVerdict(new, identity, config)
        BY <3>1 DEF PolicyVerdict
      <4>3. policies'[p] = new
        BY <2>4, <2>8
      <4>4. PolicyVerdict(policies'[p], identity', config') = policies'[p].status
        BY <2>1, <2>5, <4>1, <4>2, <4>3
      <4> QED
        BY <4>4 DEF PolicyCurrent
    <3>2. CASE PolicyPending(p)
      <4>1. seenPolicies[p] = w.obj
        BY <2>1, <2>8 DEF WritableIsSeen
      <4> QED
        BY <2>1, <2>8, <3>2, <4>1 DEF PolicyPending
    <3> QED
      BY <2>1, <2>8, <3>1, <3>2 DEF ReadsAreFresh, PolicyPending
  <2>10. ASSUME NEW q \in Policies, q # p
         PROVE  PolicyCurrent(q)' \/ PolicyPending(q)'
    <3>1. policies'[q] = policies[q]
      BY <2>4, <2>8, <2>10
    <3>2. PolicyCurrent(q) \/ PolicyPending(q)
      BY <2>8, <2>10 DEF StaleIsPending
    <3> QED
      BY <2>1, <3>1, <3>2 DEF PolicyCurrent, PolicyPending
  <2>11. StaleIsPending'
    BY <2>9, <2>10 DEF StaleIsPending
  <2> QED
    BY <2>6, <2>7, <2>11
<1>9. CASE UpdateConflict \/ UpdateError
  <2>1. /\ policyQueue' = policyQueue \cup {w.key}
        /\ policyWorker' = IdlePolicyWorker
        /\ UNCHANGED <<policies, seenPolicies, identity, identityOwed, config,
                       configOwed, edits>>
    BY <1>9 DEF UpdateConflict, UpdateError, RequeuePolicy, settingVars
  <2> QED
    BY <2>1 DEF RevisionsArePast, Revised, WritableIsSeen, ReadsAreFresh,
       StaleIsPending, PolicyCurrent, PolicyPending, IdlePolicyWorker
<1>10. CASE Restart
  <2>1. /\ policyQueue' = {p \in Policies : policies[p] # None}
        /\ policyWorker' = IdlePolicyWorker
        /\ seenPolicies' = policies
        /\ UNCHANGED <<policies, edits>>
    BY <1>10 DEF Restart
  <2> QED
    BY <2>1 DEF RevisionsArePast, Revised, WritableIsSeen, ReadsAreFresh,
       StaleIsPending, PolicyCurrent, PolicyPending, IdlePolicyWorker
<1>11. CASE UNCHANGED vars
  BY <1>11 DEF vars, RevisionsArePast, Revised, WritableIsSeen, ReadsAreFresh,
     StaleIsPending, PolicyCurrent, PolicyPending
<1> QED
  BY <1>1, <1>2, <1>3, <1>4, <1>5, <1>6, <1>7, <1>8, <1>9, <1>10, <1>11
     DEF Next, UserNext, SystemNext, ReconcileNext

\* No interleaving of reconciles, events, conflicts and restarts leaves a
\* DNSPolicy with a status that is out of date and that nothing will redo.
THEOREM NoWakeUpIsLost == Spec => []NoLostWakeUp
BY PolicyTypeCorrect, PolicyTypeInit, PolicyTypeStep, NoLostWakeUpInit,
   NoLostWakeUpStep, PTL DEF Spec

\* A status that nothing is pending for is current.
LEMMA QuiescentFollows == NoLostWakeUp => QuiescentCurrent
BY DEF NoLostWakeUp, StaleIsPending, QuiescentCurrent, PolicyQuiescent,
   PolicyPending, IdlePolicyWorker

\* When the controller has nothing left to do and has been told everything,
\* every status is what the spec, the identity and the configuration call
\* for.
THEOREM QuiescentIsCurrent == Spec => []QuiescentCurrent
BY QuiescentFollows, NoWakeUpIsLost, PTL

-----------------------------------------------------------------------------
(***************************************************************************)
(* Statuses and the specs they are computed from.                          *)
(***************************************************************************)
\* Each of the updateStatus functions records the revision of its object.
LEMMA VerdictObserves ==
    ASSUME NEW obj \in Policy, NEW id, NEW cfg
    PROVE  PolicyVerdict(obj, id, cfg).observed = obj.rev
BY DEF PolicyVerdict, policyNotReadyStatus, policyInactiveStatus,
   policyActiveStatus, Policy, PolicyStatus

\* Only UpdateStatus changes a status in place, and by then the object read
\* is the stored one.
LEMMA StatusWritten ==
    ASSUME PolicyTypeOK, [Next]_vars, NEW p \in Policies,
           policies[p] # None, policies'[p] # None,
           policies'[p].status # policies[p].status
    PROVE  LET w == policyWorker IN
           /\ UpdateStatus
           /\ w.obj \in Policy
           /\ policies[p] = w.obj
           /\ policies'[p] =
                [w.obj EXCEPT !.status = PolicyVerdict(w.obj, w.id, w.cfg)]
<1> DEFINE w == policyWorker
<1>1. policies[p] \in Policy /\ policies \in [Policies -> Policy \cup {None}]
  BY DEF PolicyTypeOK
<1>2. ASSUME NEW q \in Policies, CreatePolicy(q) \/ DeletePolicy(q)
      PROVE  FALSE
  BY <1>1, <1>2 DEF CreatePolicy, WritePolicy, DeletePolicy
<1>3. ASSUME NEW q \in Policies, EditPolicy(q) PROVE FALSE
  <2>1. PICK spec \in PolicySpecs:
          policies' = [policies EXCEPT
              ![q] = [policies[q] EXCEPT !.spec = spec, !.rev = edits + 1]]
    BY <1>3 DEF EditPolicy, WritePolicy
  <2>2. p = q
    BY <1>1, <2>1
  <2>3. policies'[p] = [policies[p] EXCEPT !.spec = spec, !.rev = edits + 1]
    BY <1>1, <2>1, <2>2
  <2> QED
    BY <1>1, <2>3 DEF Policy
<1>4. CASE UpdateStatus
  <2>1. /\ w.key \in Policies
        /\ w.obj \in Policy
        /\ policies[w.key] = w.obj
        /\ policies' = [policies EXCEPT
              ![w.key].status = PolicyVerdict(w.obj, w.id, w.cfg)]
    BY <1>4, WorkerType DEF UpdateStatus
  <2>2. p = w.key
    BY <1>1, <2>1
  <2>3. policies'[p] = [w.obj EXCEPT !.status = PolicyVerdict(w.obj, w.id, w.cfg)]
    BY <1>1, <2>1, <2>2
  <2> QED
    BY <1>4, <2>1, <2>2, <2>3
<1>5. CASE UNCHANGED policies
  BY <1>5
<1> QED
  BY <1>2, <1>3, <1>4, <1>5 DEF Next, UserNext, SystemNext, ReconcileNext,
     IdentityChanges, ConfigChanges, Restart, InformPolicy, IdentityEvent,
     ConfigEvent, StartPolicy, FetchIdentity, FetchConfig, UpdateConflict,
     UpdateError, RequeuePolicy, vars

\* A status is written onto the spec it was computed from, or not at all.
THEOREM StatusMatchesSpec == Spec => StatusOfItsSpec
<1>1. PolicyTypeOK /\ [Next]_vars =>
        [\A p \in Policies:
            (/\ None \notin {policies[p], policies'[p]}
             /\ policies'[p].status # policies[p].status)
            => policies'[p].status.observed = policies'[p].rev]_vars
  BY StatusWritten, VerdictObserves DEF Policy
<1> QED
  BY <1>1, PolicyTypeCorrect, PTL DEF Spec, StatusOfItsSpec

\* Without both settings Reconcile leaves the selection as it is.
LEMMA NotReadyKeepsSelection ==
    ASSUME NEW obj \in Policy, NEW id, NEW cfg, id = None \/ cfg = None
    PROVE  LET st == PolicyVerdict(obj, id, cfg) IN
           st.active = obj.status.active /\ st.controllers = obj.status.controllers
BY DEF PolicyVerdict, policyNotReadyStatus, Policy, PolicyStatus

\* What a policy selects changes only on a verdict that had both settings.
THEOREM SelectionIsKept == Spec => SelectionStays
<1>1. ASSUME PolicyTypeOK, [Next]_vars, NEW p \in Policies,
             policies[p] # None, policies'[p] # None,
             PolicySelection(policies'[p]) # PolicySelection(policies[p])
      PROVE  /\ None \notin {policyWorker.id, policyWorker.cfg}
             /\ policies'[p].spec = policies[p].spec
  <2> DEFINE w == policyWorker
             st == PolicyVerdict(w.obj, w.id, w.cfg)
  <2>1. policies'[p].status # policies[p].status
    BY <1>1 DEF PolicySelection
  <2>2. /\ w.obj \in Policy
        /\ policies[p] = w.obj
        /\ policies'[p] = [w.obj EXCEPT !.status = st]
    BY <1>1, <2>1, StatusWritten
  <2>3. policies'[p].status = st /\ policies'[p].spec = policies[p].spec
    BY <2>2 DEF Policy
  <2>4. ~(st.active = w.obj.status.active /\ st.controllers = w.obj.status.controllers)
    BY <1>1, <2>2, <2>3 DEF PolicySelection
  <2> QED
    BY <2>2, <2>3, <2>4, NotReadyKeepsSelection
<1>2. PolicyTypeOK /\ [Next]_vars =>
        [\A p \in Policies:
            (/\ None \notin {policies[p], policies'[p]}
             /\ PolicySelection(policies'[p]) # PolicySelection(policies[p]))
            => /\ None \notin {policyWorker.id, policyWorker.cfg}
               /\ policies'[p].spec = policies[p].spec]_vars
  BY <1>1
<1> QED
  BY <1>2, PolicyTypeCorrect, PTL DEF Spec, SelectionStays

-----------------------------------------------------------------------------
(***************************************************************************)
(* The controller does not keep itself busy.                               *)
(***************************************************************************)
\* What a reconcile of settings that have not changed since writes is
\* current, and if that is what is stored it writes nothing new.
LEMMA WrittenIsCurrent ==
    ASSUME PolicyTypeOK, UpdateStatus, NEW p \in Policies,
           policyWorker.key = p, ~OutOfDate(p)
    PROVE  /\ PolicyCurrent(p)'
           /\ PolicyCurrent(p) => policies' = policies
<1> DEFINE w == policyWorker
           st == PolicyVerdict(w.obj, w.id, w.cfg)
<1>1. /\ w.obj \in Policy /\ w.id \in Identities \cup {None}
      /\ w.cfg \in Configs \cup {None}
      /\ policies \in [Policies -> Policy \cup {None}]
  BY WorkerType DEF UpdateStatus, PolicyTypeOK
<1>2. /\ w.pc = "update" /\ policies[p] = w.obj
      /\ policies' = [policies EXCEPT ![p].status = st]
      /\ UNCHANGED <<identity, config>>
  BY DEF UpdateStatus, settingVars
<1>3. \A obj: PolicyVerdict(obj, w.id, w.cfg) = PolicyVerdict(obj, identity, config)
  BY <1>2 DEF OutOfDate, PolicyVerdict
<1>4. policies'[p] = [w.obj EXCEPT !.status = st]
  BY <1>1, <1>2
<1>5. st \in PolicyStatus
  BY <1>1, VerdictType
<1>6. PolicyCurrent(p)'
  <2>1. PolicyVerdict(policies'[p], w.id, w.cfg) = st
    BY <1>1, <1>4, <1>5, VerdictIdempotent
  <2>2. policies'[p].status = st
    BY <1>1, <1>4 DEF Policy
  <2>3. policies'[p].status = PolicyVerdict(policies'[p], identity', config')
    BY <1>2, <1>3, <2>1, <2>2
  <2> QED
    BY <2>3 DEF PolicyCurrent
<1>7. ASSUME PolicyCurrent(p) PROVE policies' = policies
  <2>1. w.obj # None
    BY <1>1, NoneIsNoPolicy
  <2>2. w.obj.status = st
    BY <1>2, <1>3, <1>7, <2>1 DEF PolicyCurrent
  <2>3. policies'[p] = policies[p]
    BY <1>1, <1>2, <1>4, <2>2 DEF Policy
  <2> QED
    BY <1>1, <1>2, <2>3
<1> QED
  BY <1>6, <1>7

\* While users and settings are left alone each policy has fewer writes left
\* with each that changes it, and none of the other steps adds any: not the
\* events that the writes cause, nor conflicts, nor writes that fail.
LEMMA WritesStep ==
    ASSUME PolicyTypeOK, SystemNext, NEW p \in Policies
    PROVE  /\ WritesLeft(p)' <= WritesLeft(p)
           /\ policies'[p] # policies[p] => WritesLeft(p)' < WritesLeft(p)
<1> DEFINE w == policyWorker
<1>1. UNCHANGED <<identity, config>>
  BY DEF SystemNext, ReconcileNext, InformPolicy, IdentityEvent, ConfigEvent,
     StartPolicy, FetchIdentity, FetchConfig, UpdateStatus, UpdateConflict,
     UpdateError, RequeuePolicy, settingVars
<1>2. ASSUME policies'[p] = policies[p], OutOfDate(p)' => OutOfDate(p)
      PROVE  /\ WritesLeft(p)' <= WritesLeft(p)
             /\ policies'[p] # policies[p] => WritesLeft(p)' < WritesLeft(p)
  <2>1. PolicyCurrent(p)' <=> PolicyCurrent(p)
    BY <1>1, <1>2 DEF PolicyCurrent
  <2> QED
    BY <1>2, <2>1 DEF WritesLeft
<1>3. ASSUME policyWorker'.pc \in {"idle", "identity"} PROVE ~OutOfDate(p)'
  BY <1>3 DEF OutOfDate
<1>4. CASE \/ \E q \in Policies: InformPolicy(q)
           \/ IdentityEvent \/ ConfigEvent
  <2>1. UNCHANGED <<policies, policyWorker>>
    BY <1>4 DEF InformPolicy, IdentityEvent, ConfigEvent
  <2> QED
    BY <1>1, <1>2, <2>1 DEF OutOfDate
<1>5. CASE \/ \E q \in Policies: StartPolicy(q)
           \/ UpdateConflict \/ UpdateError
  <2>1. UNCHANGED policies /\ policyWorker'.pc \in {"idle", "identity"}
    BY <1>5 DEF StartPolicy, UpdateConflict, UpdateError, RequeuePolicy,
       IdlePolicyWorker
  <2> QED
    BY <1>2, <1>3, <2>1
<1>6. CASE FetchIdentity \/ FetchConfig
  <2>1. /\ UNCHANGED policies
        /\ w \in [pc: {"identity", "config", "update"}, key: Policies,
                  obj: Policy, id: Identities \cup {None},
                  cfg: Configs \cup {None}]
    BY <1>6, WorkerType DEF FetchIdentity, FetchConfig
  <2>2. CASE FetchIdentity
    <3>1. /\ policyWorker'.id = identity
          /\ policyWorker'.pc = "update" => identity = None
      BY <2>1, <2>2 DEF FetchIdentity
    <3>2. ~OutOfDate(p)'
      BY <1>1, <3>1 DEF OutOfDate
    <3> QED
      BY <1>2, <2>1, <3>2
  <2>3. CASE FetchConfig
    <3>1. /\ w.pc = "config"
          /\ policyWorker'.id = w.id /\ policyWorker'.cfg = config
          /\ policyWorker'.key = w.key /\ policyWorker'.obj = w.obj
      BY <2>1, <2>3 DEF FetchConfig
    <3>2. OutOfDate(p)' => OutOfDate(p)
      BY <1>1, <2>1, <3>1 DEF OutOfDate
    <3> QED
      BY <1>2, <2>1, <3>2
  <2> QED
    BY <1>6, <2>2, <2>3
<1>7. CASE UpdateStatus
  <2>1. ~OutOfDate(p)'
    BY <1>3, <1>7 DEF UpdateStatus, IdlePolicyWorker
  <2>2. CASE w.key # p
    <3>1. policies'[p] = policies[p]
      BY <1>7, <2>2 DEF UpdateStatus, PolicyTypeOK
    <3> QED
      BY <1>2, <2>1, <3>1
  <2>3. CASE w.key = p /\ OutOfDate(p)
    BY <2>1, <2>3 DEF WritesLeft
  <2>4. CASE w.key = p /\ ~OutOfDate(p)
    <3>1. /\ PolicyCurrent(p)'
          /\ PolicyCurrent(p) => policies' = policies
      BY <1>7, <2>4, WrittenIsCurrent
    <3> QED
      BY <2>1, <2>4, <3>1 DEF WritesLeft
  <2> QED
    BY <2>2, <2>3, <2>4
<1> QED
  BY <1>4, <1>5, <1>6, <1>7 DEF SystemNext, ReconcileNext

\* So between disturbances a status changes at most twice.
THEOREM StatusWritesSubside == Spec => WritesSubside
<1>1. PolicyTypeOK /\ [Next]_vars =>
        [SystemNext =>
            \A p \in Policies:
                /\ WritesLeft(p)' <= WritesLeft(p)
                /\ policies'[p] # policies[p]
                    => WritesLeft(p)' < WritesLeft(p)]_vars
  BY WritesStep
<1> QED
  BY <1>1, PolicyTypeCorrect, PTL DEF Spec, WritesSubside
=============================================================================
