-------------------- MODULE DNSConfigurationControllerProofs --------------------
(***************************************************************************)
(* What holds of the DNSConfiguration controller for all names, specs and  *)
(* orders of events: its type invariant, that a status belongs to its      *)
(* spec, that of several DNSConfigurations at most one ends Ready and that *)
(* the one left is served, and that a lone one is served, or refused, and  *)
(* told to the others.  WriterInv, an inductive invariant, is what the     *)
(* proofs share, as in ClusterIdentityControllerProofs.                    *)
(***************************************************************************)
EXTENDS DNSConfigurationController, TLAPS

USE DEF apiVars, othersVars

-----------------------------------------------------------------------------
(***************************************************************************)
(* The objects and the worker.                                             *)
(***************************************************************************)
Reasons == {"ReconciliationSucceeded", "SingletonViolation", "InvalidSpec"}

\* A verdict on a DNSConfiguration is well-formed and changes the status only.
LEMMA VerdictType ==
    ASSUME NEW obj \in DNSConfiguration, NEW reason \in Reasons
    PROVE  /\ withStatus(obj, reason) \in DNSConfiguration
           /\ withStatus(obj, reason).spec = obj.spec
           /\ withStatus(obj, reason).rev = obj.rev
           /\ withStatus(obj, reason).status.ready = reason
           /\ withStatus(obj, reason).status.observed = obj.rev
<1>1. obj.rev \in 0..MaxConfigEdits
  BY ConfigInputs DEF DNSConfiguration
<1>2. obj = [spec |-> obj.spec, rev |-> obj.rev, status |-> obj.status]
  BY DEF DNSConfiguration
<1>3. [ready |-> reason, observed |-> obj.rev] \in ConfigStatus
  BY <1>1 DEF ConfigStatus, Reasons
<1> QED
  BY <1>2, <1>3 DEF withStatus, DNSConfiguration

\* The numbers of an object are natural, and its status has two fields.
LEMMA ObjectType ==
    ASSUME NEW obj \in DNSConfiguration
    PROVE  /\ obj.rev \in Nat /\ obj.status.observed \in Nat
           /\ obj.status = [ready |-> obj.status.ready,
                            observed |-> obj.status.observed]
           /\ obj # None
<1>1. obj.rev \in 1..MaxConfigEdits /\ obj.status \in ConfigStatus
  BY DEF DNSConfiguration
<1>2. obj.status.observed \in 0..MaxConfigEdits
  BY <1>1 DEF ConfigStatus
<1>3. obj.status = [ready |-> obj.status.ready,
                    observed |-> obj.status.observed]
  BY DEF DNSConfiguration, ConfigStatus
<1> QED
  BY <1>1, <1>2, <1>3, ConfigInputs, NoneIsNoConfiguration

Handling(n) ==
    /\ configWorker.pc \in {"validate", "set", "update"}
    /\ configWorker.key = n

\* The worker changes the status of the object it has read, and does so for
\* the generation it has read; it caches no spec that is refused.
WorkerIsSound ==
    LET w == configWorker IN
    /\ w.pc \in {"validate", "set"} => w.obj = w.read
    /\ w.pc \in {"validate", "set", "update"}
        => w.obj.spec = w.read.spec /\ w.obj.rev = w.read.rev
    /\ w.pc = "set" => w.obj.spec \notin Refused
    /\ w.pc = "update" => /\ w.obj.status.observed = w.obj.rev
                          /\ w.obj.status.ready \in Reasons

\* No copy of an object is newer than the last spec that was written.
NotAhead(obj) ==
    obj # None => obj.rev <= configEdits /\ obj.status.observed <= configEdits

NumbersArePast ==
    /\ \A n \in Names: NotAhead(configurations[n]) /\ NotAhead(seenConfigurations[n])
    /\ \A n \in Names: Handling(n) => NotAhead(configWorker.read)

\* If an update would be accepted, the object has not changed in the
\* informer's store since it was read.
WritableIsSeen ==
    \A n \in Names:
        Handling(n) /\ configurations[n] = configWorker.read
            => seenConfigurations[n] = configurations[n]

WriterInv ==
    ConfigTypeOK /\ WorkerIsSound /\ NumbersArePast /\ WritableIsSeen

\* It holds at the start.
LEMMA WriterInit == Init => WriterInv
<1> SUFFICES ASSUME Init PROVE WriterInv
  OBVIOUS
<1>1. configWorker \in ConfigWorker /\ configWorker.pc = "idle"
  BY DEF Init, IdleConfigWorker, ConfigWorker
<1>2. configEdits \in 0..MaxConfigEdits
  BY ConfigInputs DEF Init
<1>3. ConfigTypeOK
  BY <1>1, <1>2 DEF Init, ConfigTypeOK
<1>4. \A n \in Names: configurations[n] = None /\ seenConfigurations[n] = None
  BY DEF Init
<1> QED
  BY <1>1, <1>3, <1>4 DEF WriterInv, WorkerIsSound, NumbersArePast, NotAhead,
     WritableIsSeen, Handling

\* What users write is well-formed, and is told from everything read before
\* by its generation.
LEMMA WrittenIsNew ==
    ASSUME WriterInv, NEW n \in Names, CreateOrEditConfiguration(n)
    PROVE  /\ \E written \in DNSConfiguration:
                /\ WriteConfiguration(n, written)
                /\ configurations'[n] = written
                /\ written.rev = configEdits + 1
                /\ written.status.observed <= configEdits
           /\ configEdits' = configEdits + 1
           /\ configEdits + 1 \in 1..MaxConfigEdits
           /\ configurations'[n] # None
           /\ configurations'[n].status.observed # configurations'[n].rev
           /\ configurations'[n] # seenConfigurations[n]
           /\ Handling(n) => configurations'[n] # configWorker.read
           /\ configurations[n] # None =>
                configurations'[n].status = configurations[n].status
           /\ \A m \in Names \ {n}: configurations'[m] = configurations[m]
<1> DEFINE new(spec) == [spec |-> spec, rev |-> configEdits + 1,
                         status |-> [ready |-> "", observed |-> 0]]
           edited(spec) == [configurations[n] EXCEPT !.spec = spec,
                                                     !.rev = configEdits + 1]
<1>0. configEdits \in 0..MaxConfigEdits /\ MaxConfigEdits \in Nat
      /\ configEdits < MaxConfigEdits /\ configEdits' = configEdits + 1
  BY ConfigInputs DEF WriterInv, ConfigTypeOK, CreateOrEditConfiguration
<1>1. configEdits + 1 \in 1..MaxConfigEdits
  BY <1>0
<1>2. PICK spec \in Specs:
        WriteConfiguration(n, IF configurations[n] = None THEN new(spec)
                              ELSE edited(spec))
  BY <1>0 DEF CreateOrEditConfiguration
<1>3. PICK written \in DNSConfiguration:
        /\ WriteConfiguration(n, written)
        /\ written.rev = configEdits + 1
        /\ \/ written.status.observed = 0 /\ configurations[n] = None
           \/ /\ configurations[n] # None
              /\ written.status = configurations[n].status
  <2>1. CASE configurations[n] = None
    <3>1. [ready |-> "", observed |-> 0] \in ConfigStatus
      BY ConfigInputs DEF ConfigStatus
    <3>2. new(spec) \in DNSConfiguration
      BY <1>1, <3>1 DEF DNSConfiguration
    <3> QED
      BY <1>2, <2>1, <3>2
  <2>2. CASE configurations[n] # None
    <3>1. configurations[n] \in DNSConfiguration
      BY <2>2 DEF WriterInv, ConfigTypeOK
    <3>2. /\ edited(spec) \in DNSConfiguration
          /\ edited(spec).rev = configEdits + 1
          /\ edited(spec).status = configurations[n].status
      BY <1>1, <3>1 DEF DNSConfiguration
    <3> QED
      BY <1>2, <2>2, <3>2
  <2> QED
    BY <2>1, <2>2
<1>4. /\ configurations'[n] = written
      /\ \A m \in Names \ {n}: configurations'[m] = configurations[m]
  BY <1>3 DEF WriteConfiguration, WriterInv, ConfigTypeOK
<1>5. NotAhead(configurations[n]) /\ NotAhead(seenConfigurations[n])
  BY DEF WriterInv, NumbersArePast
<1>6. written.status.observed <= configEdits
  BY <1>0, <1>3, <1>5 DEF NotAhead
<1>7. written # None
  BY NoneIsNoConfiguration
<1>8. written # seenConfigurations[n]
  BY <1>0, <1>3, <1>5, <1>7 DEF NotAhead
<1>9. Handling(n) => written # configWorker.read
  BY <1>0, <1>3, <1>7 DEF NotAhead, WriterInv, NumbersArePast
<1>10. written.status.observed # written.rev
  BY <1>0, <1>3, <1>6
<1> QED
  BY <1>0, <1>1, <1>3, <1>4, <1>6, <1>7, <1>8, <1>9, <1>10

\* What the proofs below need to know of the worker: what it holds, and how
\* the steps of Reconcile change it.
LEMMA WorkerStep ==
    ASSUME ConfigTypeOK
    PROVE  /\ configWorker.pc \in {"validate", "set", "update"} =>
                configWorker \in [pc: {"validate", "set", "update"}, key: Names,
                                  read: DNSConfiguration, obj: DNSConfiguration]
           /\ Validate =>
                /\ configWorker.pc = "validate"
                /\ configWorker'.key = configWorker.key
                /\ configWorker'.read = configWorker.read
                /\ \/ /\ validateSingleton /\ validateSpec(configWorker.obj)
                      /\ configWorker'.pc = "set"
                      /\ configWorker'.obj = configWorker.obj
                   \/ /\ ~validateSingleton
                      /\ configWorker'.pc = "update"
                      /\ configWorker'.obj =
                            withStatus(configWorker.obj, "SingletonViolation")
                   \/ /\ validateSingleton /\ ~validateSpec(configWorker.obj)
                      /\ configWorker'.pc = "update"
                      /\ configWorker'.obj =
                            withStatus(configWorker.obj, "InvalidSpec")
           /\ SetCache =>
                /\ configWorker.pc = "set"
                /\ configWorker'.key = configWorker.key
                /\ configWorker'.read = configWorker.read
                /\ configWorker'.pc = "update"
                /\ configWorker'.obj =
                        withStatus(configWorker.obj, "ReconciliationSucceeded")
<1>1. ASSUME configWorker.pc \in {"validate", "set", "update"}
      PROVE  configWorker \in [pc: {"validate", "set", "update"}, key: Names,
                               read: DNSConfiguration, obj: DNSConfiguration]
  BY <1>1 DEF ConfigTypeOK, ConfigWorker, IdleConfigWorker
<1> QED
  BY <1>1 DEF Validate, SetCache

\* The steps of Reconcile store a well-formed worker, that is sound.
LEMMA ReconcileStep ==
    ASSUME ConfigTypeOK, WorkerIsSound, Validate \/ SetCache
    PROVE  /\ configWorker' \in [pc: {"set", "update"}, key: Names,
                                 read: DNSConfiguration, obj: DNSConfiguration]
           /\ WorkerIsSound'
           /\ Handling(configWorker.key)
           /\ configWorker'.key = configWorker.key
           /\ configWorker'.read = configWorker.read
           /\ UNCHANGED <<apiVars, seenConfigurations, configQueue, notified>>
<1> DEFINE w == configWorker
<1>1. /\ w.pc \in {"validate", "set"}
      /\ w \in [pc: {"validate", "set", "update"}, key: Names,
                read: DNSConfiguration, obj: DNSConfiguration]
      /\ UNCHANGED <<apiVars, seenConfigurations, configQueue, notified>>
  BY WorkerStep DEF Validate, SetCache
<1>2. w.obj.spec = w.read.spec /\ w.obj.rev = w.read.rev /\ w.obj = w.read
  BY <1>1 DEF WorkerIsSound
<1>3. configWorker'.key = w.key /\ configWorker'.read = w.read
  BY WorkerStep
<1>4. {"ReconciliationSucceeded", "SingletonViolation", "InvalidSpec"} = Reasons
  BY DEF Reasons
<1>5. \/ /\ configWorker'.pc = "set" /\ configWorker'.obj = w.obj
         /\ w.obj.spec \notin Refused
      \/ /\ configWorker'.pc = "update"
         /\ \E reason \in Reasons: configWorker'.obj = withStatus(w.obj, reason)
  BY <1>4, WorkerStep DEF validateSpec
<1>6. /\ configWorker'.obj \in DNSConfiguration
      /\ configWorker'.pc \in {"set", "update"}
      /\ WorkerIsSound'
  BY <1>1, <1>2, <1>3, <1>5, VerdictType DEF WorkerIsSound
<1>7. configWorker' = [pc |-> configWorker'.pc, key |-> configWorker'.key,
                       read |-> configWorker'.read, obj |-> configWorker'.obj]
  BY <1>1 DEF Validate, SetCache
<1> QED
  BY <1>1, <1>3, <1>6, <1>7 DEF Handling

\* An accepted update stores what was computed from the informer's object.
LEMMA AcceptedUpdate ==
    ASSUME WriterInv, UpdateConfigStatus
    PROVE  LET w == configWorker
               k == configWorker.key
           IN
           /\ k \in Names /\ Handling(k) /\ w.pc = "update"
           /\ w.read = configurations[k]
           /\ w.obj \in DNSConfiguration
           /\ w.obj.spec = configurations[k].spec
           /\ w.obj.rev = configurations[k].rev
           /\ w.obj.status.observed = configurations[k].rev
           /\ configurations[k] \in DNSConfiguration
           /\ seenConfigurations[k] = configurations[k]
           /\ configurations'[k] = w.obj
           /\ \A n \in Names \ {k}: configurations'[n] = configurations[n]
           /\ configWorker' = IdleConfigWorker /\ configWorker'.pc = "idle"
           /\ UNCHANGED <<lone, configEdits, seenConfigurations, configQueue, cache,
                          othersVars>>
<1> DEFINE w == configWorker
           k == configWorker.key
<1>1. w.pc = "update" /\ configurations[k] = w.read
  BY DEF UpdateConfigStatus
<1>2. k \in Names /\ w.read \in DNSConfiguration /\ w.obj \in DNSConfiguration
  BY <1>1, WorkerStep DEF WriterInv
<1>3. Handling(k)
  BY <1>1 DEF Handling
<1>4. seenConfigurations[k] = configurations[k]
  BY <1>1, <1>2, <1>3 DEF WriterInv, WritableIsSeen
<1>5. /\ configurations'[k] = w.obj
      /\ \A n \in Names \ {k}: configurations'[n] = configurations[n]
  BY <1>2 DEF UpdateConfigStatus, WriterInv, ConfigTypeOK
<1>6. /\ w.obj.spec = w.read.spec /\ w.obj.rev = w.read.rev
      /\ w.obj.status.observed = w.obj.rev
  BY <1>1 DEF WriterInv, WorkerIsSound
<1> QED
  BY <1>1, <1>2, <1>3, <1>4, <1>5, <1>6 DEF UpdateConfigStatus, IdleConfigWorker

\* Every step keeps the invariant of the writer.
LEMMA WriterStep == WriterInv /\ [Next]_vars => WriterInv'
<1> SUFFICES ASSUME WriterInv, [Next]_vars PROVE WriterInv'
  OBVIOUS
<1> DEFINE w == configWorker
<1>0. ConfigTypeOK /\ configEdits \in Nat
  BY DEF WriterInv, ConfigTypeOK
<1>1. /\ IdleConfigWorker \in ConfigWorker /\ IdleConfigWorker.pc = "idle"
  BY DEF IdleConfigWorker, ConfigWorker
<1>2. ASSUME NEW n \in Names, CreateOrEditConfiguration(n) PROVE WriterInv'
  <2>1. PICK written \in DNSConfiguration:
          /\ WriteConfiguration(n, written)
          /\ configurations'[n] = written
          /\ written.rev = configEdits + 1
          /\ written.status.observed <= configEdits
    BY <1>2, WrittenIsNew
  <2>2. /\ UNCHANGED <<configWorker, seenConfigurations, configQueue, cache,
                       notified, configOwed>>
        /\ configEdits' = configEdits + 1
        /\ configEdits' \in 0..MaxConfigEdits
        /\ lone' \in BOOLEAN
        /\ \A m \in Names \ {n}: configurations'[m] = configurations[m]
        /\ configurations' \in [Names -> DNSConfiguration \cup {None}]
    BY <1>0, <1>2, <2>1, WrittenIsNew DEF WriteConfiguration, ConfigTypeOK
  <2>3. ConfigTypeOK'
    BY <1>0, <2>2 DEF ConfigTypeOK
  <2>4. \A obj \in DNSConfiguration: NotAhead(obj) => NotAhead(obj)'
    <3> SUFFICES ASSUME NEW obj \in DNSConfiguration, NotAhead(obj)
                 PROVE  NotAhead(obj)'
      OBVIOUS
    <3>1. obj.rev \in Nat /\ obj.status.observed \in Nat /\ obj # None
      BY ObjectType
    <3> QED
      BY <1>0, <2>2, <3>1 DEF NotAhead
  <2>5. \A m \in Names: NotAhead(seenConfigurations[m])'
    BY <1>0, <2>2, <2>4 DEF WriterInv, NumbersArePast, NotAhead, ConfigTypeOK
  <2>6. NotAhead(configurations[n])'
    <3>1. written.status.observed \in Nat
      BY ObjectType
    <3> QED
      BY <1>0, <2>1, <2>2, <3>1 DEF NotAhead
  <2>7. \A m \in Names \ {n}: NotAhead(configurations[m])'
    BY <1>0, <2>2, <2>4 DEF WriterInv, NumbersArePast, NotAhead, ConfigTypeOK
  <2>8. \A m \in Names: Handling(m)' => NotAhead(configWorker.read)'
    <3> SUFFICES ASSUME NEW m \in Names, Handling(m)
                 PROVE  NotAhead(configWorker.read)'
      BY <2>2 DEF Handling
    <3>1. configWorker.read \in DNSConfiguration /\ NotAhead(configWorker.read)
      BY <1>0, WorkerStep DEF WriterInv, NumbersArePast, Handling
    <3> QED
      BY <2>2, <2>4, <3>1 DEF NotAhead
  <2>9. NumbersArePast'
    BY <2>5, <2>6, <2>7, <2>8 DEF NumbersArePast
  <2>10. WritableIsSeen'
    BY <1>2, <2>2, WrittenIsNew DEF WriterInv, WritableIsSeen, Handling
  <2> QED
    BY <2>2, <2>3, <2>9, <2>10 DEF WriterInv, WorkerIsSound
<1>3. ASSUME NEW n \in Names, DeleteConfiguration(n) PROVE WriterInv'
  <2>1. /\ configurations'[n] = None
        /\ UNCHANGED <<configWorker, seenConfigurations, configQueue, cache,
                       notified, configOwed, configEdits>>
        /\ \A m \in Names \ {n}: configurations'[m] = configurations[m]
        /\ configurations' \in [Names -> DNSConfiguration \cup {None}]
        /\ lone' \in BOOLEAN
    BY <1>0, <1>3 DEF DeleteConfiguration, WriteConfiguration, ConfigTypeOK
  <2>2. ConfigTypeOK'
    BY <1>0, <2>1 DEF ConfigTypeOK
  <2>3. Handling(n) => configWorker.read # None
    BY <1>0, WorkerStep, NoneIsNoConfiguration DEF Handling
  <2>4. WritableIsSeen'
    BY <2>1, <2>3 DEF WriterInv, WritableIsSeen, Handling
  <2>5. NumbersArePast'
    BY <2>1 DEF WriterInv, NumbersArePast, NotAhead, Handling
  <2> QED
    BY <2>1, <2>2, <2>4, <2>5 DEF WriterInv, WorkerIsSound
<1>4. ASSUME NEW n \in Names, InformConfiguration(n) PROVE WriterInv'
  <2>1. /\ UNCHANGED <<configurations, configWorker, configEdits>>
        /\ seenConfigurations'[n] = configurations[n]
        /\ \A m \in Names \ {n}: seenConfigurations'[m] = seenConfigurations[m]
    BY <1>0, <1>4 DEF InformConfiguration, ConfigTypeOK
  <2>2. ConfigTypeOK'
    BY <1>0, <1>4 DEF InformConfiguration, ConfigTypeOK, Owes
  <2>3. WorkerIsSound' /\ WritableIsSeen' /\ NumbersArePast'
    BY <2>1 DEF WriterInv, WritableIsSeen, WorkerIsSound, NumbersArePast,
       NotAhead, Handling
  <2> QED
    BY <2>2, <2>3 DEF WriterInv
<1>5. CASE NotifyOthers \/ UNCHANGED vars
  BY <1>5 DEF NotifyOthers, vars, WriterInv, ConfigTypeOK, WorkerIsSound,
     NumbersArePast, NotAhead, WritableIsSeen, Handling
<1>6. ASSUME NEW n \in Names, StartConfig(n) PROVE WriterInv'
  <2>1. /\ UNCHANGED <<configurations, seenConfigurations, configEdits>>
        /\ configWorker' =
            [pc |-> IF n \in Listed THEN "validate" ELSE "clear", key |-> n,
             read |-> seenConfigurations[n], obj |-> seenConfigurations[n]]
    BY <1>6 DEF StartConfig
  <2>2. /\ configWorker'.pc \in {"clear", "validate"}
        /\ configWorker'.pc = "validate" => seenConfigurations[n] # None
        /\ configWorker'.key = n
        /\ configWorker'.read = seenConfigurations[n]
        /\ configWorker'.obj = seenConfigurations[n]
    BY <2>1 DEF Listed
  <2>3. configWorker' \in ConfigWorker
    BY <1>0, <2>1 DEF ConfigWorker, ConfigTypeOK
  <2>4. ConfigTypeOK'
    BY <1>0, <1>6, <2>2, <2>3 DEF StartConfig, ConfigTypeOK
  <2>5. WorkerIsSound'
    BY <2>2 DEF WorkerIsSound
  <2>6. WritableIsSeen'
    BY <2>1, <2>2 DEF WritableIsSeen, Handling
  <2>7. NumbersArePast'
    BY <2>1, <2>2 DEF WriterInv, NumbersArePast, NotAhead, Handling
  <2> QED
    BY <2>4, <2>5, <2>6, <2>7 DEF WriterInv
<1>7. CASE Validate \/ SetCache
  <2>1. /\ configWorker' \in [pc: {"set", "update"}, key: Names,
                              read: DNSConfiguration, obj: DNSConfiguration]
        /\ WorkerIsSound'
        /\ configWorker'.key = w.key /\ configWorker'.read = w.read
        /\ Handling(w.key)
        /\ UNCHANGED <<apiVars, seenConfigurations, configQueue, notified>>
    BY <1>0, <1>7, ReconcileStep DEF WriterInv
  <2>2. /\ configWorker' \in ConfigWorker
        /\ None \notin {configWorker'.read, configWorker'.obj}
    BY <2>1, NoneIsNoConfiguration DEF ConfigWorker
  <2>3. /\ cache' \in (Specs \ Refused) \cup {None}
        /\ configOwed' \in BOOLEAN
    <3>1. CASE Validate
      BY <1>0, <3>1 DEF Validate, ConfigTypeOK
    <3>2. CASE SetCache
      <4>1. w.obj.spec \notin Refused
        BY <3>2 DEF SetCache, WriterInv, WorkerIsSound
      <4>2. w.obj.spec \in Specs
        BY <1>0, <3>2, WorkerStep DEF SetCache, DNSConfiguration
      <4> QED
        BY <1>0, <3>2, <4>1, <4>2 DEF SetCache, Owes, ConfigTypeOK
    <3> QED
      BY <1>7, <3>1, <3>2
  <2>4. ConfigTypeOK'
    BY <1>0, <2>1, <2>2, <2>3 DEF ConfigTypeOK
  <2>5. WritableIsSeen'
    BY <2>1 DEF WriterInv, WritableIsSeen, Handling
  <2>6. NumbersArePast'
    BY <2>1 DEF WriterInv, NumbersArePast, NotAhead, Handling
  <2> QED
    BY <2>1, <2>4, <2>5, <2>6 DEF WriterInv
<1>8. CASE UpdateConfigStatus
  <2>1. NotAhead(w.obj)
    BY <1>8, AcceptedUpdate, NoneIsNoConfiguration
       DEF WriterInv, NumbersArePast, NotAhead
  <2>2. NumbersArePast'
    BY <1>8, <2>1, AcceptedUpdate DEF WriterInv, NumbersArePast, NotAhead, Handling
  <2>3. configurations' \in [Names -> DNSConfiguration \cup {None}]
    BY <1>0, <1>8, AcceptedUpdate DEF UpdateConfigStatus, ConfigTypeOK
  <2>4. ConfigTypeOK'
    BY <1>0, <1>1, <1>8, <2>3 DEF UpdateConfigStatus, ConfigTypeOK
  <2> QED
    BY <1>8, <2>2, <2>4, AcceptedUpdate
       DEF WriterInv, WorkerIsSound, WritableIsSeen, Handling
<1>9. CASE ClearCache \/ UpdateFails \/ Restart
  <2>1. /\ UNCHANGED <<configurations, configEdits>>
        /\ \/ seenConfigurations' = seenConfigurations
           \/ seenConfigurations' = configurations
        /\ configWorker' = IdleConfigWorker
    BY <1>9 DEF ClearCache, UpdateFails, Restart
  <2>2. NumbersArePast'
    BY <1>1, <2>1 DEF WriterInv, NumbersArePast, NotAhead, Handling
  <2>3. UpdateFails => w.key \in Names
    BY <1>0, WorkerStep DEF UpdateFails
  <2>4. ConfigTypeOK'
    BY <1>0, <1>1, <1>9, <2>3 DEF ClearCache, UpdateFails, Restart, Owes,
       ConfigTypeOK
  <2> QED
    BY <1>1, <2>1, <2>2, <2>4 DEF WriterInv, WorkerIsSound, WritableIsSeen, Handling
<1> QED
  BY <1>2, <1>3, <1>4, <1>5, <1>6, <1>7, <1>8, <1>9 DEF Next

\* The invariant that the proofs below share.
THEOREM WriterInvariant == Spec => []WriterInv
<1> QED
  BY WriterInit, WriterStep, PTL DEF Spec

\* Every variable keeps its type; no spec that is refused is ever cached.
THEOREM ConfigTypeCorrect == Spec => []ConfigTypeOK
<1>1. WriterInv => ConfigTypeOK
  BY DEF WriterInv
<1> QED
  BY <1>1, WriterInvariant, PTL

\* A status is never written onto a spec it was not computed from.
THEOREM ConfigStatusHasSpec == Spec => ConfigStatusOfItsSpec
<1> DEFINE matches ==
        \A n \in Names:
            (/\ None \notin {configurations[n], configurations'[n]}
             /\ configurations'[n].status # configurations[n].status)
            => configurations'[n].status.observed = configurations'[n].rev
<1>1. WriterInv /\ Next => matches
  <2> SUFFICES ASSUME WriterInv, Next, NEW n \in Names,
                      None \notin {configurations[n], configurations'[n]},
                      configurations'[n].status # configurations[n].status
               PROVE  configurations'[n].status.observed = configurations'[n].rev
    OBVIOUS
  <2>1. ASSUME NEW m \in Names, CreateOrEditConfiguration(m) PROVE FALSE
    BY <2>1, WrittenIsNew
  <2>2. ASSUME NEW m \in Names, DeleteConfiguration(m) PROVE FALSE
    BY <2>2 DEF DeleteConfiguration, WriteConfiguration, WriterInv, ConfigTypeOK
  <2>3. UpdateConfigStatus
    BY <2>1, <2>2 DEF Next, InformConfiguration, StartConfig, NotifyOthers,
       ClearCache, Validate, SetCache, UpdateFails, Restart
  <2> QED
    BY <2>3, AcceptedUpdate
<1>2. WriterInv /\ [Next]_vars => [matches]_vars
  BY <1>1
<1> QED
  BY <1>2, WriterInvariant, PTL DEF Spec, ConfigStatusOfItsSpec

-----------------------------------------------------------------------------
(***************************************************************************)
(* Several DNSConfigurations.                                              *)
(***************************************************************************)
\* The object that the worker handles is listed, or its key is queued again.
HandledIsSeen ==
    \A n \in Names: Handling(n) => n \in Listed \/ n \in configQueue

\* A cache that outlives the last DNSConfiguration is about to be cleared.
ClearIsDue ==
    Listed = {} /\ cache # None => configQueue # {} \/ configWorker.pc = "clear"

\* The DNSConfiguration is not Ready, or it will be looked at again before
\* the controller rests, or what is about to be written is not "Ready".
Refusing(n) ==
    \/ n \in configQueue
    \/ seenConfigurations[n] # configurations[n]
    \/ Handling(n) /\ configWorker.pc = "validate"
    \/ /\ Handling(n)
       /\ configWorker.pc = "update"
       /\ configWorker.obj.status.ready # "ReconciliationSucceeded"
    \/ ~Handling(n) /\ ~Ready(n)

\* Of any two there is one that will not be found Ready at rest.
OneRefuses ==
    \A m, n \in Existing: m # n => Refusing(m) \/ Refusing(n)

\* The cache is empty or has the spec of n, or is about to be cleared, or
\* another DNSConfiguration is still listed or queued.
CacheFine(n) ==
    \/ cache \in {None, configurations[n].spec}
    \/ configWorker.pc = "clear"
    \/ \E m \in Names \ {n}: m \in Listed \/ m \in configQueue

\* It will be looked at again, or what the worker is about to write, or has
\* written, is Ready only with such a cache.
Tended(n) ==
    \/ n \in configQueue
    \/ seenConfigurations[n] # configurations[n]
    \/ /\ Handling(n)
       /\ configWorker.read = configurations[n]
       /\ (configWorker.pc = "update"
            /\ configWorker.obj.status.ready = "ReconciliationSucceeded")
          => CacheFine(n)
    \/ ~Handling(n) /\ (Ready(n) => CacheFine(n))

SeveralInv ==
    /\ HandledIsSeen
    /\ ClearIsDue
    /\ OneRefuses
    /\ \A n \in Existing: Tended(n)

\* No deletion is overlooked.
LEMMA ForgetStep ==
    ASSUME WriterInv, HandledIsSeen, ClearIsDue, [Next]_vars
    PROVE  HandledIsSeen' /\ ClearIsDue'
<1> DEFINE w == configWorker
<1>0. ConfigTypeOK
  BY DEF WriterInv
<1>1. IdleConfigWorker.pc = "idle"
  BY DEF IdleConfigWorker
<1>2. CASE \/ \E n \in Names: CreateOrEditConfiguration(n) \/ DeleteConfiguration(n)
           \/ NotifyOthers \/ UNCHANGED vars
  <2>1. UNCHANGED <<seenConfigurations, configQueue, configWorker, cache>>
    BY <1>2 DEF CreateOrEditConfiguration, DeleteConfiguration,
       WriteConfiguration, NotifyOthers, vars
  <2> QED
    BY <2>1 DEF HandledIsSeen, ClearIsDue, Handling, Listed
<1>3. ASSUME NEW n \in Names, InformConfiguration(n)
      PROVE  HandledIsSeen' /\ ClearIsDue'
  <2>1. /\ UNCHANGED <<configWorker, cache>>
        /\ configQueue' = configQueue \cup {n}
        /\ \A m \in Names \ {n}: m \in Listed <=> m \in Listed'
    BY <1>0, <1>3 DEF InformConfiguration, ConfigTypeOK, Listed
  <2> QED
    BY <2>1 DEF HandledIsSeen, ClearIsDue, Handling
<1>4. ASSUME NEW n \in Names, StartConfig(n)
      PROVE  HandledIsSeen' /\ ClearIsDue'
  <2>1. /\ UNCHANGED <<seenConfigurations, cache>>
        /\ Listed' = Listed
        /\ configWorker'.key = n
        /\ configWorker'.pc = IF n \in Listed THEN "validate" ELSE "clear"
    BY <1>4 DEF StartConfig, Listed
  <2> QED
    BY <2>1 DEF HandledIsSeen, Handling, ClearIsDue
<1>5. CASE Validate \/ SetCache
  <2>1. /\ Handling(w.key) /\ w.key \in Names
        /\ configWorker'.key = w.key
        /\ configWorker'.pc \in {"set", "update"}
        /\ UNCHANGED <<seenConfigurations, configQueue>>
        /\ Listed' = Listed
    BY <1>0, <1>5, ReconcileStep, WorkerStep DEF WriterInv, Handling, Listed
  <2> QED
    BY <2>1 DEF HandledIsSeen, Handling, ClearIsDue
<1>6. CASE UpdateConfigStatus
  <2>1. /\ UNCHANGED <<seenConfigurations, configQueue, cache>>
        /\ w.key \in Names /\ Handling(w.key)
        /\ configWorker'.pc = "idle"
        /\ Listed' = Listed
    BY <1>6, AcceptedUpdate DEF Listed
  <2> QED
    BY <2>1 DEF HandledIsSeen, Handling, ClearIsDue
<1>7. CASE UpdateFails
  BY <1>1, <1>7 DEF UpdateFails, HandledIsSeen, Handling, ClearIsDue
<1>8. CASE ClearCache \/ Restart
  BY <1>1, <1>8 DEF ClearCache, Restart, HandledIsSeen, Handling, ClearIsDue
<1> QED
  BY <1>2, <1>3, <1>4, <1>5, <1>6, <1>7, <1>8 DEF Next

\* What a step does to one DNSConfiguration: it goes on refusing, unless it
\* is the one that is found to be alone.
LEMMA RefusingStep ==
    ASSUME WriterInv, Next, NEW n \in Names, configurations'[n] # None,
           configurations[n] = None \/ Refusing(n),
           ~(Validate /\ Handling(n) /\ validateSingleton)
    PROVE  Refusing(n)'
<1> DEFINE w == configWorker
<1>0. ConfigTypeOK
  BY DEF WriterInv
<1>1. IdleConfigWorker.pc = "idle"
  BY DEF IdleConfigWorker
\* A step on another one leaves it as it is.
<1>2. ASSUME Refusing(n), ~Handling(n), ~Handling(n)',
             seenConfigurations'[n] = seenConfigurations[n],
             configurations'[n] = configurations[n],
             n \in configQueue => n \in configQueue'
      PROVE  Refusing(n)'
  BY <1>2 DEF Refusing, Ready
<1>3. ASSUME NEW m \in Names, CreateOrEditConfiguration(m) PROVE Refusing(n)'
  <2>1. UNCHANGED <<configWorker, seenConfigurations, configQueue>>
    BY <1>3 DEF CreateOrEditConfiguration, WriteConfiguration
  <2>2. CASE m = n
    BY <1>3, <2>1, <2>2, WrittenIsNew DEF Refusing
  <2>3. CASE m # n
    <3>1. configurations'[n] = configurations[n]
      BY <1>3, <2>3, WrittenIsNew
    <3> QED
      BY <2>1, <3>1 DEF Refusing, Handling, Ready
  <2> QED
    BY <2>2, <2>3
<1>4. ASSUME NEW m \in Names, DeleteConfiguration(m) PROVE Refusing(n)'
  <2>1. /\ UNCHANGED <<configWorker, seenConfigurations, configQueue>>
        /\ configurations'[n] = configurations[n]
    BY <1>0, <1>4 DEF DeleteConfiguration, WriteConfiguration, ConfigTypeOK
  <2> QED
    BY <2>1 DEF Refusing, Handling, Ready
<1>5. ASSUME NEW m \in Names, InformConfiguration(m) PROVE Refusing(n)'
  <2>1. /\ UNCHANGED <<configurations, configWorker>>
        /\ configQueue' = configQueue \cup {m}
        /\ m # n => seenConfigurations'[n] = seenConfigurations[n]
    BY <1>0, <1>5 DEF InformConfiguration, ConfigTypeOK
  <2> QED
    BY <2>1 DEF Refusing, Handling, Ready
<1>6. CASE NotifyOthers
  BY <1>6 DEF NotifyOthers, Refusing, Handling, Ready
<1>7. ASSUME NEW m \in Names, StartConfig(m) PROVE Refusing(n)'
  <2>1. /\ UNCHANGED <<configurations, seenConfigurations>>
        /\ w.pc = "idle"
        /\ configQueue' = configQueue \ {m}
        /\ configWorker'.key = m
        /\ configWorker'.pc = IF m \in Listed THEN "validate" ELSE "clear"
    BY <1>7 DEF StartConfig
  <2>2. CASE m = n
    BY <2>1, <2>2 DEF Refusing, Handling, Listed
  <2>3. CASE m # n
    BY <1>2, <2>1, <2>3 DEF Handling
  <2> QED
    BY <2>2, <2>3
<1>8. CASE ClearCache
  <2>1. /\ UNCHANGED <<configurations, seenConfigurations, configQueue>>
        /\ ~Handling(n) /\ ~Handling(n)'
    BY <1>1, <1>8 DEF ClearCache, Handling
  <2> QED
    BY <1>2, <2>1
<1>9. CASE Validate \/ SetCache
  <2>1. /\ UNCHANGED <<configurations, seenConfigurations, configQueue>>
        /\ Handling(w.key)
        /\ configWorker'.key = w.key
    BY <1>0, <1>9, ReconcileStep DEF WriterInv
  <2>2. CASE w.key # n
    BY <1>2, <2>1, <2>2 DEF Handling
  <2>3. CASE w.key = n /\ SetCache
    BY <2>1, <2>3, WorkerStep, <1>0 DEF Refusing, Handling
  <2>4. CASE w.key = n /\ Validate
    <3>1. /\ w.obj \in DNSConfiguration
          /\ configWorker'.pc = "update"
          /\ configWorker'.obj = withStatus(w.obj, "SingletonViolation")
      BY <1>0, <2>1, <2>4, WorkerStep
    <3>2. configWorker'.obj.status.ready = "SingletonViolation"
      BY <3>1, VerdictType DEF Reasons
    <3> QED
      BY <2>1, <2>4, <3>1, <3>2 DEF Refusing, Handling
  <2> QED
    BY <1>9, <2>2, <2>3, <2>4
<1>10. CASE UpdateConfigStatus
  <2>1. /\ UNCHANGED <<seenConfigurations, configQueue>>
        /\ ~Handling(n)' /\ w.pc = "update"
    BY <1>1, <1>10, AcceptedUpdate DEF Handling
  <2>2. CASE w.key # n
    <3>1. configurations'[n] = configurations[n] /\ ~Handling(n)
      BY <1>10, <2>2, AcceptedUpdate DEF Handling
    <3> QED
      BY <1>2, <2>1, <3>1, <1>10, AcceptedUpdate
  <2>3. CASE w.key = n
    <3>1. /\ configurations'[n] = w.obj
          /\ seenConfigurations[n] = configurations[n]
          /\ Handling(n)
          /\ configurations[n] # None
      BY <1>10, <2>3, AcceptedUpdate, NoneIsNoConfiguration
    <3> QED
      BY <2>1, <3>1 DEF Refusing, Ready
  <2> QED
    BY <2>2, <2>3
<1>11. CASE UpdateFails
  <2>1. /\ UNCHANGED <<configurations, seenConfigurations>>
        /\ configQueue' = configQueue \cup {w.key}
        /\ ~Handling(n)'
    BY <1>1, <1>11 DEF UpdateFails, Handling
  <2> QED
    BY <2>1 DEF Refusing, Handling, Ready
<1>12. CASE Restart
  BY <1>12 DEF Restart, Refusing
<1> QED
  BY <1>3, <1>4, <1>5, <1>6, <1>7, <1>8, <1>9, <1>10, <1>11, <1>12 DEF Next

\* If one of two stops refusing, because it is alone in the informer's
\* store, then the other is not there yet and will be looked at.
LEMMA OneRefusesStep == WriterInv /\ OneRefuses /\ [Next]_vars => OneRefuses'
<1> SUFFICES ASSUME WriterInv, OneRefuses, [Next]_vars,
                    NEW m \in Names, NEW n \in Names, m # n,
                    configurations'[m] # None, configurations'[n] # None
             PROVE  Refusing(m)' \/ Refusing(n)'
  BY DEF OneRefuses, Existing
<1>1. CASE UNCHANGED vars
  BY <1>1 DEF OneRefuses, Existing, Refusing, Handling, Ready, vars
<1>2. CASE Next /\ ~(Validate /\ validateSingleton)
  BY <1>2, RefusingStep DEF OneRefuses, Existing
<1>3. CASE Validate /\ validateSingleton
  <2>1. /\ UNCHANGED <<configurations, seenConfigurations>>
        /\ seenConfigurations[m] = None \/ seenConfigurations[n] = None
    BY <1>3 DEF Validate, validateSingleton, Listed
  <2> QED
    BY <2>1 DEF Refusing
<1> QED
  BY <1>1, <1>2, <1>3

\* The cache stays fine as long as the DNSConfiguration keeps its spec: what
\* another one puts into it will be cleared, or that one is still there.
LEMMA CacheFineStep ==
    ASSUME WriterInv, HandledIsSeen, Next, NEW n \in Names, CacheFine(n),
           configurations'[n].spec = configurations[n].spec,
           SetCache /\ Handling(n) => configWorker.obj.spec = configurations[n].spec
    PROVE  CacheFine(n)'
<1> DEFINE w == configWorker
           others == \E m \in Names \ {n}: m \in Listed \/ m \in configQueue
<1>0. ConfigTypeOK
  BY DEF WriterInv
<1>1. CASE \/ \E m \in Names: CreateOrEditConfiguration(m) \/ DeleteConfiguration(m)
           \/ NotifyOthers
  <2>1. UNCHANGED <<seenConfigurations, configQueue, configWorker, cache>>
    BY <1>1 DEF CreateOrEditConfiguration, DeleteConfiguration,
       WriteConfiguration, NotifyOthers
  <2> QED
    BY <2>1 DEF CacheFine, Listed
<1>2. ASSUME NEW m \in Names, InformConfiguration(m) PROVE CacheFine(n)'
  <2>1. /\ UNCHANGED <<configWorker, cache>>
        /\ configQueue' = configQueue \cup {m}
        /\ \A k \in Names \ {m}: k \in Listed <=> k \in Listed'
    BY <1>0, <1>2 DEF InformConfiguration, ConfigTypeOK, Listed
  <2> QED
    BY <2>1 DEF CacheFine
<1>3. ASSUME NEW m \in Names, StartConfig(m) PROVE CacheFine(n)'
  <2>1. /\ UNCHANGED cache
        /\ w.pc = "idle"
        /\ Listed' = Listed
        /\ configQueue' = configQueue \ {m}
        /\ configWorker'.pc = IF m \in Listed THEN "validate" ELSE "clear"
    BY <1>3 DEF StartConfig, Listed
  <2> QED
    BY <2>1 DEF CacheFine
<1>4. CASE ClearCache \/ Restart
  BY <1>4 DEF ClearCache, Restart, CacheFine
<1>5. CASE Validate
  BY <1>5 DEF Validate, CacheFine, Listed
<1>6. CASE SetCache
  <2>1. /\ w.key \in Names /\ Handling(w.key)
        /\ cache' = w.obj.spec
        /\ Listed' = Listed /\ configQueue' = configQueue
    BY <1>0, <1>6, WorkerStep DEF SetCache, Handling, Listed
  <2>2. CASE w.key = n
    BY <1>6, <2>1, <2>2 DEF CacheFine
  <2>3. CASE w.key # n
    BY <2>1, <2>3 DEF HandledIsSeen, CacheFine
  <2> QED
    BY <2>2, <2>3
<1>7. CASE UpdateConfigStatus
  BY <1>7, AcceptedUpdate DEF CacheFine, Listed
<1>8. CASE UpdateFails
  BY <1>8 DEF UpdateFails, CacheFine, Listed
<1> QED
  BY <1>1, <1>2, <1>3, <1>4, <1>5, <1>6, <1>7, <1>8 DEF Next

\* No DNSConfiguration is left Ready with the spec of another in the cache.
LEMMA TendedStep ==
    ASSUME WriterInv, HandledIsSeen, [Next]_vars, NEW n \in Names,
           configurations'[n] # None, configurations[n] = None \/ Tended(n)
    PROVE  Tended(n)'
<1> DEFINE w == configWorker
           succeeds == w.obj.status.ready = "ReconciliationSucceeded"
<1>0. ConfigTypeOK
  BY DEF WriterInv
<1>1. IdleConfigWorker.pc = "idle"
  BY DEF IdleConfigWorker
<1>2. CASE UNCHANGED vars
  BY <1>2 DEF vars, Tended, CacheFine, Handling, Ready, Listed
<1>3. CASE n \in configQueue'
  BY <1>3 DEF Tended
<1>4. CASE seenConfigurations'[n] # configurations'[n]
  BY <1>4 DEF Tended
<1> SUFFICES ASSUME Next, n \notin configQueue',
                    seenConfigurations'[n] = configurations'[n]
             PROVE  Tended(n)'
  BY <1>2, <1>3, <1>4
<1>5. ASSUME NEW m \in Names,
             CreateOrEditConfiguration(m) \/ DeleteConfiguration(m)
             \/ InformConfiguration(m)
      PROVE  m # n
  <2>1. CASE CreateOrEditConfiguration(m)
    <3>1. configurations'[m] # seenConfigurations[m]
      BY <2>1, WrittenIsNew
    <3>2. UNCHANGED seenConfigurations
      BY <2>1 DEF CreateOrEditConfiguration, WriteConfiguration
    <3> QED
      BY <3>1, <3>2
  <2>2. CASE DeleteConfiguration(m)
    BY <1>0, <2>2 DEF DeleteConfiguration, WriteConfiguration, ConfigTypeOK
  <2>3. CASE InformConfiguration(m)
    BY <2>3 DEF InformConfiguration
  <2> QED
    BY <1>5, <2>1, <2>2, <2>3
<1>6. ASSUME NEW m \in Names, StartConfig(m), m = n PROVE Tended(n)'
  <2>1. /\ configWorker'.key = n
        /\ configWorker'.read = seenConfigurations[n]
        /\ configWorker'.pc = IF n \in Listed THEN "validate" ELSE "clear"
        /\ UNCHANGED <<configurations, seenConfigurations>>
    BY <1>6 DEF StartConfig
  <2>2. configWorker'.pc = "validate"
    BY <2>1 DEF Listed
  <2> QED
    BY <2>1, <2>2 DEF Tended, Handling
<1>7. CASE Restart
  BY <1>0, <1>7 DEF Restart, ConfigTypeOK
<1>8. CASE UpdateConfigStatus /\ w.key = n
  <2>1. /\ configurations'[n] = w.obj
        /\ seenConfigurations[n] = configurations[n]
        /\ seenConfigurations' = seenConfigurations
        /\ configQueue' = configQueue
        /\ ~Handling(n)'
        /\ w.pc = "update" /\ Handling(n)
        /\ configurations'[n].spec = configurations[n].spec
        /\ configurations[n] # None
    BY <1>1, <1>8, AcceptedUpdate, NoneIsNoConfiguration DEF Handling
  <2>2. succeeds => CacheFine(n)
    BY <2>1 DEF Tended
  <2>3. succeeds => CacheFine(n)'
    BY <1>8, <2>1, <2>2, CacheFineStep DEF SetCache
  <2> QED
    BY <2>1, <2>3 DEF Tended, Ready
<1>9. CASE UpdateFails /\ w.key = n
  BY <1>9 DEF UpdateFails
\* Of the other steps none changes it.
<1>10. ASSUME ~\E m \in Names: StartConfig(m) /\ m = n,
              ~(UpdateConfigStatus /\ w.key = n), ~(UpdateFails /\ w.key = n),
              ~Restart
       PROVE  /\ configurations'[n] = configurations[n]
              /\ seenConfigurations'[n] = seenConfigurations[n]
              /\ n \in configQueue => n \in configQueue'
              /\ Handling(n)' <=> Handling(n)
              /\ configurations[n] # None
  <2>1. ASSUME NEW m \in Names,
               CreateOrEditConfiguration(m) \/ DeleteConfiguration(m)
               \/ InformConfiguration(m)
        PROVE  /\ configurations'[n] = configurations[n]
               /\ seenConfigurations'[n] = seenConfigurations[n]
               /\ configQueue \subseteq configQueue'
               /\ UNCHANGED configWorker
    BY <1>0, <1>5, <2>1 DEF CreateOrEditConfiguration, WriteConfiguration,
       DeleteConfiguration, InformConfiguration, ConfigTypeOK
  <2>2. CASE Validate \/ SetCache
    BY <1>0, <2>2, ReconcileStep DEF WriterInv, Handling
  <2>3. CASE UpdateConfigStatus
    BY <1>10, <2>3, AcceptedUpdate DEF Handling
  <2>4. CASE UpdateFails
    BY <1>1, <1>10, <2>4 DEF UpdateFails, Handling
  <2>5. CASE ClearCache \/ NotifyOthers
    BY <1>1, <2>5 DEF ClearCache, NotifyOthers, Handling
  <2>6. ASSUME NEW m \in Names, StartConfig(m), m # n
        PROVE  /\ configurations'[n] = configurations[n]
               /\ seenConfigurations'[n] = seenConfigurations[n]
               /\ n \in configQueue => n \in configQueue'
               /\ Handling(n)' <=> Handling(n)
    <3>1. /\ w.pc = "idle" /\ configWorker'.key = m
          /\ configQueue' = configQueue \ {m}
          /\ UNCHANGED <<configurations, seenConfigurations>>
      BY <2>6 DEF StartConfig
    <3> QED
      BY <2>6, <3>1 DEF Handling
  <2> QED
    BY <1>10, <2>1, <2>2, <2>3, <2>4, <2>5, <2>6 DEF Next, Handling
<1>11. ASSUME ~\E m \in Names: StartConfig(m) /\ m = n,
              ~(UpdateConfigStatus /\ w.key = n), ~(UpdateFails /\ w.key = n),
              ~Restart
       PROVE  Tended(n)'
  <2>1. CASE ~Handling(n)
    <3>1. Ready(n)' => CacheFine(n)
      BY <1>10, <1>11, <2>1 DEF Tended, Ready
    <3>2. CacheFine(n) => CacheFine(n)'
      BY <1>10, <1>11, <2>1, CacheFineStep
    <3> QED
      BY <1>10, <1>11, <2>1, <3>1, <3>2 DEF Tended
  <2>2. CASE Handling(n)
    <3>1. /\ w.read = configurations[n]
          /\ w.pc = "update" /\ succeeds => CacheFine(n)
      BY <1>10, <1>11, <2>2 DEF Tended
    <3>2. CASE Validate \/ SetCache
      <4>1. configWorker'.read = w.read
        BY <1>0, <3>2, ReconcileStep DEF WriterInv
      <4>2. CASE Validate
        <5>1. ~(configWorker'.pc = "update"
                /\ configWorker'.obj.status.ready = "ReconciliationSucceeded")
          BY <1>0, <4>2, WorkerStep, VerdictType DEF Reasons
        <5> QED
          BY <1>10, <1>11, <2>2, <3>1, <4>1, <5>1 DEF Tended
      <4>3. CASE SetCache
        <5>1. cache' = w.obj.spec /\ w.obj.spec = w.read.spec
          BY <4>3 DEF SetCache, WriterInv, WorkerIsSound
        <5>2. CacheFine(n)'
          BY <1>10, <1>11, <3>1, <5>1 DEF CacheFine
        <5> QED
          BY <1>10, <1>11, <2>2, <3>1, <4>1, <5>2 DEF Tended
      <4> QED
        BY <3>2, <4>2, <4>3
    <3>3. CASE ~(Validate \/ SetCache)
      <4>1. UNCHANGED configWorker
        BY <1>11, <2>2, <3>3 DEF Next, Handling, CreateOrEditConfiguration,
           DeleteConfiguration, WriteConfiguration, InformConfiguration,
           StartConfig, NotifyOthers, ClearCache, UpdateConfigStatus, UpdateFails
      <4>2. CacheFine(n) => CacheFine(n)'
        BY <1>10, <1>11, <3>3, CacheFineStep
      <4> QED
        BY <1>10, <1>11, <2>2, <3>1, <4>1, <4>2 DEF Tended
    <3> QED
      BY <3>2, <3>3
  <2> QED
    BY <2>1, <2>2
<1> QED
  BY <1>6, <1>7, <1>8, <1>9, <1>11

\* What several of them owe each other holds in every reachable state.
THEOREM SeveralInvariant == Spec => []SeveralInv
<1>1. Init => SeveralInv
  <2> SUFFICES ASSUME Init PROVE SeveralInv
    OBVIOUS
  <2>1. configWorker.pc = "idle" /\ cache = None /\ Existing = {}
    BY DEF Init, IdleConfigWorker, Existing
  <2> QED
    BY <2>1 DEF SeveralInv, HandledIsSeen, ClearIsDue, OneRefuses, Handling
<1>2. WriterInv /\ SeveralInv /\ [Next]_vars => SeveralInv'
  <2> SUFFICES ASSUME WriterInv, SeveralInv, [Next]_vars PROVE SeveralInv'
    OBVIOUS
  <2>1. HandledIsSeen' /\ ClearIsDue'
    BY ForgetStep DEF SeveralInv
  <2>2. OneRefuses'
    BY OneRefusesStep DEF SeveralInv
  <2>3. \A n \in Existing': Tended(n)'
    BY TendedStep DEF SeveralInv, Existing
  <2> QED
    BY <2>1, <2>2, <2>3 DEF SeveralInv
<1> QED
  BY <1>1, <1>2, WriterInvariant, PTL DEF Spec

\* At rest at most one DNSConfiguration is Ready, in whatever order they come
\* and go, and when none is left nothing is served.
THEOREM AtMostOneIsReady == Spec => []OneIsReady
<1>1. SeveralInv => OneIsReady
  <2> SUFFICES ASSUME SeveralInv, ConfigQuiescent PROVE
          /\ \A m, n \in Names: Ready(m) /\ Ready(n) => m = n
          /\ Existing = {} => Fetched = {None}
    BY DEF OneIsReady
  <2>1. /\ configWorker.pc = "idle" /\ configQueue = {}
        /\ \A n \in Names: ~Handling(n)
        /\ Listed = Existing
    BY DEF ConfigQuiescent, IdleConfigWorker, Handling, Listed, Existing
  <2>2. ASSUME NEW m \in Names, NEW n \in Names, Ready(m), Ready(n) PROVE m = n
    BY <2>1, <2>2 DEF SeveralInv, OneRefuses, Refusing, ConfigQuiescent, Ready,
       Existing
  <2>3. ASSUME Existing = {} PROVE Fetched = {None}
    BY <2>1, <2>3 DEF SeveralInv, ClearIsDue, Fetched
  <2> QED
    BY <2>2, <2>3
<1> QED
  BY <1>1, SeveralInvariant, PTL

\* The only DNSConfiguration there is served at rest if it is Ready, whatever
\* others came and went before.
THEOREM TheReadyIsServed == Spec => []ReadyIsServed
<1>1. SeveralInv => ReadyIsServed
  <2> SUFFICES ASSUME SeveralInv, ConfigQuiescent, NEW n \in Names,
                      Existing = {n}, Ready(n)
               PROVE  Fetched = {configurations[n].spec}
    BY DEF ReadyIsServed
  <2>1. /\ configWorker.pc = "idle" /\ configQueue = {}
        /\ ~Handling(n)
        /\ Listed = {n}
        /\ seenConfigurations = configurations
    BY DEF ConfigQuiescent, IdleConfigWorker, Handling, Listed, Existing
  <2>2. CacheFine(n)
    BY <2>1 DEF SeveralInv, Tended
  <2>3. cache \in {None, configurations[n].spec}
    BY <2>1, <2>2 DEF CacheFine
  <2> QED
    BY <2>1, <2>3 DEF Fetched
<1> QED
  BY <1>1, SeveralInvariant, PTL

-----------------------------------------------------------------------------
(***************************************************************************)
(* A lone DNSConfiguration.                                                *)
(***************************************************************************)
\* As long as none was deleted and never were there two, nothing is ever
\* missing: there is nothing to clear.
OnlyOne ==
    /\ \A m, n \in Existing: m = n
    /\ Listed \subseteq Existing
    /\ configQueue \subseteq Listed
    /\ configWorker.pc # "clear"
    /\ \A n \in Names: Handling(n) => n \in Listed

\* What validateSpec says of it.
Verdict(spec) ==
    IF spec \in Refused THEN "InvalidSpec" ELSE "ReconciliationSucceeded"

\* It will be looked at again, or what is about to be written, or is
\* written, is the verdict on its spec.
Judged(n) ==
    \/ n \in configQueue
    \/ seenConfigurations[n] # configurations[n]
    \/ /\ Handling(n)
       /\ configWorker.pc = "update" =>
            configWorker.obj.status.ready = Verdict(configWorker.obj.spec)
    \/ /\ ~Handling(n)
       /\ configurations[n].status.ready = Verdict(configurations[n].spec)
       /\ configurations[n].status.observed = configurations[n].rev

\* Its status is that of its spec.
Reported(n) ==
    configurations[n].status.observed = configurations[n].rev

\* Then everybody has its spec already, unless it is refused, and the worker
\* may only write the same again: nothing that Fetch returns will change.
Known(n) ==
    LET spec == configurations[n].spec IN
    /\ n \in Listed /\ seenConfigurations[n].spec = spec
    /\ spec \notin Refused => cache \in {None, spec}
    /\ Handling(n) => configWorker.read.spec = spec

\* What was cached is what the update is about.
CacheIsWritten ==
    configWorker.pc = "update" =>
        configWorker.obj.spec \in Refused \/ cache = configWorker.obj.spec

Told ==
    configOwed =>
        \/ ~notified
        \/ \E n \in Existing: seenConfigurations[n] # configurations[n]
                              \/ ~Reported(n)

LoneInv ==
    lone => /\ OnlyOne
            /\ \A n \in Existing: Judged(n) /\ (Reported(n) => Known(n))
            /\ CacheIsWritten
            /\ Told

\* A lone DNSConfiguration is judged by its spec only.
LEMMA LoneVerdict ==
    ASSUME WriterInv, OnlyOne, Validate
    PROVE  /\ configWorker'.pc \in {"set", "update"}
           /\ configWorker'.obj.spec = configWorker.obj.spec
           /\ configWorker'.pc = "update" =>
                /\ configWorker'.obj.spec \in Refused
                /\ configWorker'.obj.status.ready
                    = Verdict(configWorker'.obj.spec)
<1>1. ConfigTypeOK
  BY DEF WriterInv
<1>2. configWorker.obj \in DNSConfiguration
  BY <1>1, WorkerStep
<1>3. validateSingleton
  BY DEF OnlyOne, validateSingleton
<1>4. "InvalidSpec" \in Reasons
  BY DEF Reasons
<1> QED
  BY <1>1, <1>2, <1>3, <1>4, WorkerStep, VerdictType DEF validateSpec, Verdict

\* LoneInv is inductive.
LEMMA LoneStep == WriterInv /\ LoneInv /\ [Next]_vars => LoneInv'
<1> DEFINE known == \A n \in Existing: Reported(n) => Known(n)
           judged == \A n \in Existing: Judged(n)
           w == configWorker
<1> SUFFICES ASSUME WriterInv, LoneInv, [Next]_vars, lone'
             PROVE  OnlyOne' /\ judged' /\ known' /\ CacheIsWritten' /\ Told'
  BY DEF LoneInv
<1>0. ConfigTypeOK
  BY DEF WriterInv
<1>1. IdleConfigWorker.pc = "idle"
  BY DEF IdleConfigWorker
<1>2. lone
  BY DEF Next, CreateOrEditConfiguration, DeleteConfiguration,
     WriteConfiguration, InformConfiguration, StartConfig, NotifyOthers,
     ClearCache, Validate, SetCache, UpdateConfigStatus, UpdateFails, Restart,
     vars
<1>3. OnlyOne /\ judged /\ known /\ CacheIsWritten /\ Told
  BY <1>2 DEF LoneInv
<1>4. ASSUME NEW n \in Names, CreateOrEditConfiguration(n)
      PROVE  OnlyOne' /\ judged' /\ known' /\ CacheIsWritten' /\ Told'
  <2>1. /\ UNCHANGED <<seenConfigurations, configQueue, configWorker, cache,
                       notified, configOwed>>
        /\ \A m \in Names \ {n}: configurations[m] = None
    BY <1>4 DEF CreateOrEditConfiguration, WriteConfiguration
  <2>2. /\ configurations'[n] # None
        /\ configurations'[n].status.observed # configurations'[n].rev
        /\ configurations'[n] # seenConfigurations[n]
        /\ \A m \in Names \ {n}: configurations'[m] = configurations[m]
    BY <1>4, WrittenIsNew
  <2>3. Existing' = {n} /\ Listed' = Listed
    BY <2>1, <2>2 DEF Existing, Listed
  <2>4. Listed \subseteq {n}
    BY <1>3, <2>1 DEF OnlyOne, Existing
  <2>5. OnlyOne'
    BY <1>3, <2>1, <2>3, <2>4 DEF OnlyOne, Handling
  <2>6. judged' /\ known' /\ Told'
    BY <2>1, <2>2, <2>3 DEF Judged, Reported, Told
  <2> QED
    BY <1>3, <2>1, <2>5, <2>6 DEF CacheIsWritten
<1>5. ASSUME NEW n \in Names, DeleteConfiguration(n) PROVE FALSE
  BY <1>5 DEF DeleteConfiguration, WriteConfiguration
<1>6. ASSUME NEW n \in Names, InformConfiguration(n)
      PROVE  OnlyOne' /\ judged' /\ known' /\ CacheIsWritten' /\ Told'
  <2>1. /\ UNCHANGED <<configurations, configWorker, cache>>
        /\ seenConfigurations'[n] = configurations[n]
        /\ seenConfigurations[n] # configurations[n]
        /\ configQueue' = configQueue \cup {n}
        /\ \A m \in Names \ {n}: seenConfigurations'[m] = seenConfigurations[m]
        /\ ~notified' /\ Existing' = Existing
    BY <1>0, <1>6 DEF InformConfiguration, ConfigTypeOK, Existing
  <2>2. configurations[n] # None
    BY <1>3, <2>1 DEF OnlyOne, Listed, Existing
  <2>3. Listed' = Listed \cup {n} /\ n \in Existing
    BY <2>1, <2>2 DEF Listed, Existing
  <2>4. OnlyOne'
    BY <1>3, <2>1, <2>3 DEF OnlyOne, Handling
  <2>5. judged'
    <3> SUFFICES ASSUME NEW m \in Existing' PROVE Judged(m)'
      OBVIOUS
    <3>1. m = n
      BY <1>3, <2>1, <2>3 DEF OnlyOne
    <3> QED
      BY <2>1, <3>1 DEF Judged
  <2>6. known'
    <3> SUFFICES ASSUME NEW m \in Existing', Reported(m)' PROVE Known(m)'
      OBVIOUS
    <3>1. m = n /\ Reported(n)
      BY <1>3, <2>1, <2>3 DEF OnlyOne, Reported
    <3>2. Known(n)
      BY <1>3, <2>3, <3>1
    <3> QED
      BY <2>1, <2>3, <3>1, <3>2 DEF Known, Handling
  <2> QED
    BY <1>3, <2>1, <2>4, <2>5, <2>6 DEF CacheIsWritten, Told
<1>7. CASE NotifyOthers
  BY <1>3, <1>7 DEF NotifyOthers, OnlyOne, Judged, Known, Reported,
     CacheIsWritten, Told, Handling, Listed, Existing
<1>8. CASE UNCHANGED vars
  BY <1>3, <1>8 DEF vars, OnlyOne, Judged, Known, Reported,
     CacheIsWritten, Told, Handling, Listed, Existing
<1>9. ASSUME NEW n \in Names, StartConfig(n)
      PROVE  OnlyOne' /\ judged' /\ known' /\ CacheIsWritten' /\ Told'
  <2>1. /\ UNCHANGED <<configurations, seenConfigurations, cache, notified,
                       configOwed>>
        /\ w.pc = "idle" /\ n \in configQueue
        /\ configQueue' = configQueue \ {n}
        /\ configWorker'.key = n
        /\ configWorker'.read = seenConfigurations[n]
        /\ configWorker'.pc = IF n \in Listed THEN "validate" ELSE "clear"
        /\ Listed' = Listed /\ Existing' = Existing
    BY <1>9 DEF StartConfig, Listed, Existing
  <2>2. n \in Listed /\ configWorker'.pc = "validate"
    BY <1>3, <2>1 DEF OnlyOne
  <2>3. OnlyOne' /\ judged' /\ CacheIsWritten' /\ Told'
    BY <1>3, <2>1, <2>2 DEF OnlyOne, Judged, CacheIsWritten, Told, Reported,
       Handling
  <2>4. known'
    BY <1>3, <2>1, <2>2 DEF Known, Reported, Handling
  <2> QED
    BY <2>3, <2>4
<1>10. CASE ClearCache
  BY <1>3, <1>10 DEF ClearCache, OnlyOne
<1>11. CASE Validate
  <2>1. /\ UNCHANGED <<configurations, seenConfigurations, configQueue, cache,
                       notified, configOwed>>
        /\ Listed' = Listed /\ Existing' = Existing
        /\ w.pc = "validate"
        /\ configWorker'.key = w.key /\ configWorker'.read = w.read
    BY <1>0, <1>11, WorkerStep DEF Validate, Listed, Existing
  <2>2. /\ configWorker'.pc \in {"set", "update"}
        /\ configWorker'.pc = "update" =>
            /\ configWorker'.obj.spec \in Refused
            /\ configWorker'.obj.status.ready = Verdict(configWorker'.obj.spec)
    BY <1>3, <1>11, LoneVerdict
  <2>3. \A n \in Names: Handling(n)' <=> Handling(n)
    BY <2>1, <2>2 DEF Handling
  <2>4. judged'
    <3> SUFFICES ASSUME NEW m \in Existing' PROVE Judged(m)'
      OBVIOUS
    <3>1. Judged(m) /\ m \in Names
      BY <1>3, <2>1 DEF Existing
    <3>2. Handling(m)' <=> Handling(m)
      BY <2>3, <3>1
    <3> QED
      BY <2>1, <2>2, <3>1, <3>2 DEF Judged
  <2>5. known'
    <3> SUFFICES ASSUME NEW m \in Existing', Reported(m)' PROVE Known(m)'
      OBVIOUS
    <3>1. Known(m) /\ m \in Names
      BY <1>3, <2>1 DEF Existing, Reported
    <3>2. Handling(m)' <=> Handling(m)
      BY <2>3, <3>1
    <3> QED
      BY <2>1, <3>1, <3>2 DEF Known
  <2>6. OnlyOne' /\ CacheIsWritten' /\ Told'
    BY <1>3, <2>1, <2>2, <2>3 DEF OnlyOne, CacheIsWritten, Told, Reported
  <2> QED
    BY <2>4, <2>5, <2>6
<1>12. CASE SetCache
  <2> DEFINE n == w.key
  <2>1. /\ UNCHANGED <<configurations, seenConfigurations, configQueue, notified>>
        /\ Listed' = Listed /\ Existing' = Existing
        /\ w.pc = "set" /\ cache' = w.obj.spec
        /\ configWorker'.key = n /\ configWorker'.read = w.read
        /\ configWorker'.pc = "update"
        /\ configWorker'.obj = withStatus(w.obj, "ReconciliationSucceeded")
        /\ w.obj \in DNSConfiguration /\ n \in Names
        /\ Owes
    BY <1>0, <1>12, WorkerStep DEF SetCache, Listed, Existing
  <2>2. /\ w.obj.spec = w.read.spec /\ w.obj.spec \notin Refused
    BY <2>1 DEF WriterInv, WorkerIsSound
  <2>3. /\ configWorker'.obj.spec = w.obj.spec
        /\ configWorker'.obj.status.ready = "ReconciliationSucceeded"
    BY <2>1, VerdictType DEF Reasons
  <2>4. \A m \in Names: Handling(m)' <=> Handling(m)
    BY <2>1 DEF Handling
  <2>5. Handling(n) /\ n \in Listed /\ n \in Existing /\ Existing = {n}
        /\ Listed = {n}
    BY <1>3, <2>1 DEF OnlyOne, Handling
  <2>6. judged'
    <3> SUFFICES ASSUME NEW m \in Existing' PROVE Judged(m)'
      OBVIOUS
    <3>1. m = n /\ m \in Names /\ Handling(m)
      BY <2>1, <2>5
    <3>3. Handling(m)'
      BY <2>4, <3>1
    <3>2. configWorker'.obj.status.ready = Verdict(configWorker'.obj.spec)
      BY <2>2, <2>3 DEF Verdict
    <3> QED
      BY <3>2, <3>3 DEF Judged
  <2>7. ASSUME Reported(n) PROVE Known(n)' /\ Fetched' = Fetched
    <3> DEFINE spec == configurations[n].spec
    <3>1. /\ seenConfigurations[n].spec = spec /\ w.read.spec = spec
          /\ spec \notin Refused => cache \in {None, spec}
      BY <1>3, <2>5, <2>7 DEF Known
    <3>2. cache' = spec /\ cache \in {None, spec}
      BY <2>1, <2>2, <3>1
    <3>3. spec # None
      BY <1>0, <2>5, ConfigInputs DEF ConfigTypeOK, DNSConfiguration, Existing
    <3>4. Fetched' = {spec}
      BY <3>2, <3>3 DEF Fetched
    <3>5. Fetched = {spec}
      BY <2>5, <3>1, <3>2, <3>3 DEF Fetched
    <3> QED
      BY <2>1, <2>5, <3>1, <3>2, <3>4, <3>5 DEF Known
  <2>8. known'
    BY <2>1, <2>5, <2>7 DEF Reported
  <2>9. Told'
    BY <1>3, <2>1, <2>5, <2>7 DEF Told, Owes, Reported
  <2> QED
    BY <1>3, <2>1, <2>3, <2>4, <2>6, <2>8, <2>9 DEF OnlyOne, CacheIsWritten
<1>13. CASE UpdateConfigStatus
  <2> DEFINE n == w.key
  <2>1. /\ UNCHANGED <<seenConfigurations, configQueue, cache, notified, configOwed>>
        /\ n \in Names /\ w.pc = "update" /\ Handling(n)
        /\ w.obj # None /\ configurations[n] # None
        /\ w.obj.spec = configurations[n].spec
        /\ w.obj.rev = configurations[n].rev
        /\ w.obj.status.observed = configurations[n].rev
        /\ seenConfigurations[n] = configurations[n]
        /\ configurations'[n] = w.obj
        /\ \A m \in Names \ {n}: configurations'[m] = configurations[m]
        /\ \A m \in Names: ~Handling(m)'
        /\ configWorker'.pc = "idle"
    BY <1>13, AcceptedUpdate, NoneIsNoConfiguration DEF Handling
  <2>2. Listed' = Listed /\ Existing' = Existing
    BY <2>1 DEF Listed, Existing
  <2>3. Existing = {n}
    BY <1>3, <2>1 DEF OnlyOne, Existing
  <2>4. judged'
    BY <1>3, <2>1, <2>2, <2>3 DEF Judged
  <2>5. known'
    BY <1>3, <2>1, <2>2, <2>3 DEF Known, CacheIsWritten, Existing, Listed
  <2>6. Told'
    BY <1>3, <2>1, <2>2, <2>3 DEF Told, Reported
  <2> QED
    BY <1>3, <2>1, <2>2, <2>4, <2>5, <2>6 DEF OnlyOne, CacheIsWritten
<1>14. CASE UpdateFails
  <2>1. /\ UNCHANGED <<configurations, seenConfigurations, cache, notified,
                       configOwed>>
        /\ configQueue' = configQueue \cup {w.key}
        /\ configWorker'.pc = "idle"
        /\ \A m \in Names: ~Handling(m)'
        /\ Listed' = Listed /\ Existing' = Existing
    BY <1>1, <1>14 DEF UpdateFails, Handling, Listed, Existing
  <2>2. Handling(w.key) /\ w.key \in Names
    BY <1>0, <1>14, WorkerStep DEF UpdateFails, Handling
  <2>3. judged'
    <3> SUFFICES ASSUME NEW n \in Existing PROVE Judged(n)'
      BY <2>1
    <3>1. Judged(n) /\ n \in Names
      BY <1>3 DEF Existing
    <3>2. Handling(n) => n = w.key
      BY DEF Handling
    <3> QED
      BY <2>1, <3>1, <3>2 DEF Judged
  <2> QED
    BY <1>3, <2>1, <2>2, <2>3 DEF OnlyOne, Known, Reported, CacheIsWritten, Told
<1>15. CASE Restart
  <2>1. /\ UNCHANGED configurations
        /\ seenConfigurations' = configurations
        /\ configQueue' = Existing
        /\ cache' = None /\ ~configOwed'
        /\ configWorker'.pc = "idle"
        /\ \A m \in Names: ~Handling(m)'
        /\ Listed' = Existing /\ Existing' = Existing
    BY <1>1, <1>15 DEF Restart, Handling, Listed, Existing
  <2> QED
    BY <1>3, <2>1 DEF OnlyOne, Judged, Known, Reported, CacheIsWritten, Told,
       Existing
<1> QED
  BY <1>4, <1>5, <1>6, <1>7, <1>8, <1>9, <1>10, <1>11, <1>12, <1>13, <1>14, <1>15
     DEF Next

\* A DNSConfiguration that was never deleted and always the only one is Ready
\* at rest exactly if its spec is valid, is then what Fetch returns, and the
\* others have had an event since Fetch last changed.
THEOREM TheLoneIsServed == Spec => []LoneIsServed
<1>1. Init => LoneInv
  <2> SUFFICES ASSUME Init PROVE LoneInv
    OBVIOUS
  <2>1. /\ configWorker.pc = "idle" /\ configQueue = {} /\ ~configOwed
        /\ Existing = {} /\ Listed = {}
    BY DEF Init, IdleConfigWorker, Existing, Listed
  <2> QED
    BY <2>1 DEF LoneInv, OnlyOne, CacheIsWritten, Told, Handling
<1>2. WriterInv /\ LoneInv /\ ReadyIsServed => LoneIsServed
  <2> SUFFICES ASSUME WriterInv, LoneInv, ReadyIsServed, ConfigQuiescent, lone
               PROVE  /\ \A n \in Existing:
                          /\ Ready(n) <=> configurations[n].spec \notin Refused
                          /\ Ready(n) => Fetched = {configurations[n].spec}
                      /\ ~configOwed
    BY DEF LoneIsServed
  <2>1. /\ configQueue = {} /\ seenConfigurations = configurations /\ notified
        /\ \A n \in Names: ~Handling(n)
    BY DEF ConfigQuiescent, IdleConfigWorker, Handling
  <2>2. ASSUME NEW n \in Existing
        PROVE  /\ configurations[n].status =
                    [ready |-> Verdict(configurations[n].spec),
                     observed |-> configurations[n].rev]
               /\ configurations[n].status.ready
                    = Verdict(configurations[n].spec)
               /\ Reported(n)
               /\ n \in Names /\ configurations[n] # None /\ Existing = {n}
    <3>1. configurations[n] \in DNSConfiguration /\ n \in Names
      BY DEF WriterInv, ConfigTypeOK, Existing
    <3>2. Judged(n)
      BY DEF LoneInv
    <3>3. /\ configurations[n].status.ready = Verdict(configurations[n].spec)
          /\ configurations[n].status.observed = configurations[n].rev
      BY <2>1, <3>1, <3>2 DEF Judged
    <3>4. Existing = {n}
      BY DEF LoneInv, OnlyOne
    <3> QED
      BY <3>1, <3>3, <3>4, ObjectType DEF Reported
  <2>3. ASSUME NEW n \in Existing
        PROVE  Ready(n) <=> configurations[n].spec \notin Refused
    <3>1. CASE configurations[n].spec \in Refused
      <4>1. Verdict(configurations[n].spec) = "InvalidSpec"
        BY <3>1 DEF Verdict
      <4>2. configurations[n].status.ready = "InvalidSpec"
        BY <2>2, <4>1
      <4> QED
        BY <3>1, <4>2 DEF Ready
    <3>2. CASE configurations[n].spec \notin Refused
      BY <2>2, <3>2 DEF Ready, Verdict
    <3> QED
      BY <3>1, <3>2
  <2>4. \A n \in Existing: Ready(n) => Fetched = {configurations[n].spec}
    BY <2>2 DEF ReadyIsServed
  <2>5. ~configOwed
    <3>1. Told
      BY DEF LoneInv
    <3>2. \A n \in Existing: Reported(n)
      BY <2>2
    <3> QED
      BY <2>1, <3>1, <3>2 DEF Told
  <2> QED
    BY <2>3, <2>4, <2>5
<1> QED
  BY <1>1, <1>2, LoneStep, WriterInvariant, TheReadyIsServed, PTL DEF Spec
=============================================================================
