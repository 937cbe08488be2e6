-------------------- MODULE ClusterIdentityControllerProofs --------------------
(***************************************************************************)
(* What holds of the ClusterIdentity controller for all regions,           *)
(* ClusterIdentities, DNS configurations and orders of events: its type    *)
(* invariant, that of several ClusterIdentities at most one ends Active,   *)
(* that the cache is empty once all are deleted, and that a single one is  *)
(* served and is told to the others.  WriterInv, an inductive invariant,   *)
(* is what they share: a status update that the API server accepts was     *)
(* computed from what the informer's store holds now.                      *)
(***************************************************************************)
EXTENDS ClusterIdentityController, TLAPS

USE DEF ConfigView!ViewTypeOK, ConfigView!ViewInit, ConfigView!ViewChanges,
        ConfigView!ViewEvent, ConfigView!ViewRestarts, configVars

-----------------------------------------------------------------------------
(***************************************************************************)
(* Type correctness.                                                       *)
(***************************************************************************)
\* The verdicts on a ClusterIdentity are about it, and well-formed.
LEMMA VerdictType ==
    ASSUME NEW obj \in ClusterIdentity, NEW cfg
    PROVE  /\ validateAdoptedRegions(obj, cfg) \in ClusterIdentity
           /\ updateStatusActive(obj) \in ClusterIdentity
           /\ updateStatusFailed(obj) \in ClusterIdentity
<1>1. obj.rev \in 1..MaxIdentityEdits /\ obj.rev \in 0..MaxIdentityEdits
  BY IdentityInputs DEF ClusterIdentity
<1>2. obj.status \in IdentityStatus /\ obj.spec \in Identities
  BY DEF ClusterIdentity
<1>3. validateAdoptedRegions(obj, cfg) \in ClusterIdentity
  BY <1>1, <1>2 DEF validateAdoptedRegions, ClusterIdentity, IdentityStatus,
     AdoptedReasons
<1>4. updateStatusActive(obj) \in ClusterIdentity
  BY <1>1, <1>2 DEF updateStatusActive, ClusterIdentity, IdentityStatus,
     IdentityReasons
<1>5. updateStatusFailed(obj) \in ClusterIdentity
  BY <1>1, <1>2 DEF updateStatusFailed, ClusterIdentity, IdentityStatus,
     IdentityReasons
<1> QED
  BY <1>3, <1>4, <1>5

\* They change the status only.
LEMMA VerdictFields ==
    ASSUME NEW obj \in ClusterIdentity, NEW cfg
    PROVE  /\ validateAdoptedRegions(obj, cfg).spec = obj.spec
           /\ validateAdoptedRegions(obj, cfg).rev = obj.rev
           /\ updateStatusActive(obj).spec = obj.spec
           /\ updateStatusActive(obj).rev = obj.rev
           /\ updateStatusActive(obj).status.phase = "Active"
           /\ updateStatusActive(obj).status.observed = obj.rev
           /\ updateStatusFailed(obj).spec = obj.spec
           /\ updateStatusFailed(obj).rev = obj.rev
           /\ updateStatusFailed(obj).status.phase = "Failed"
           /\ updateStatusFailed(obj).status.observed = obj.rev
<1>1. obj = [spec |-> obj.spec, rev |-> obj.rev, status |-> obj.status]
  BY DEF ClusterIdentity
<1>2. DOMAIN obj.status = {"phase", "reason", "observed", "adopted",
                           "adoptedObserved"}
  BY DEF ClusterIdentity, IdentityStatus
<1> QED
  BY <1>1, <1>2 DEF validateAdoptedRegions, updateStatusActive,
     updateStatusFailed, ClusterIdentity, IdentityStatus

\* Its numbers are natural.
LEMMA NumbersType ==
    ASSUME NEW obj \in ClusterIdentity
    PROVE  obj.rev \in Nat /\ obj.status.observed \in Nat
<1>1. obj.rev \in 1..MaxIdentityEdits /\ obj.status \in IdentityStatus
  BY DEF ClusterIdentity
<1>2. obj.status.observed \in 0..MaxIdentityEdits
  BY <1>1 DEF IdentityStatus
<1> QED
  BY <1>1, <1>2, IdentityInputs

\* The controller starts in a well-formed state.
LEMMA IdentityTypeInit == Init => IdentityTypeOK
<1> SUFFICES ASSUME Init PROVE IdentityTypeOK
  OBVIOUS
<1>1. identityEdits \in 0..MaxIdentityEdits
  BY IdentityInputs DEF Init
<1>2. identityWorker \in IdentityWorker /\ identityWorker.pc = "idle"
  BY DEF Init, IdleIdentityWorker, IdentityWorker
<1> QED
  BY <1>1, <1>2 DEF Init, IdentityTypeOK

\* What users write is well-formed.
LEMMA WriteStep ==
    ASSUME IdentityTypeOK, NEW n \in Names, CreateIdentity(n) \/ EditIdentity(n)
    PROVE  \E written \in ClusterIdentity:
            /\ WriteIdentity(n, written)
            /\ written.rev = identityEdits + 1
            /\ written.status = NewIdentityStatus
                \/ /\ clusterIdentities[n] # None
                   /\ written.status = clusterIdentities[n].status
<1>1. identityEdits + 1 \in 1..MaxIdentityEdits
  <2>1. identityEdits < MaxIdentityEdits
    BY DEF CreateIdentity, EditIdentity, WriteIdentity
  <2>2. identityEdits \in 0..MaxIdentityEdits /\ MaxIdentityEdits \in Nat
    BY IdentityInputs DEF IdentityTypeOK
  <2> QED
    BY <2>1, <2>2
<1>2. CASE CreateIdentity(n)
  <2>1. PICK spec \in Identities:
          WriteIdentity(n, [spec |-> spec, rev |-> identityEdits + 1,
                            status |-> NewIdentityStatus])
    BY <1>2 DEF CreateIdentity
  <2>2. NewIdentityStatus \in IdentityStatus
    BY IdentityInputs DEF NewIdentityStatus, IdentityStatus, IdentityReasons,
       AdoptedReasons
  <2>3. [spec |-> spec, rev |-> identityEdits + 1,
         status |-> NewIdentityStatus] \in ClusterIdentity
    BY <1>1, <2>2 DEF ClusterIdentity
  <2> QED
    BY <1>2, <2>1, <2>3 DEF CreateIdentity
<1>3. CASE EditIdentity(n)
  <2>1. PICK spec \in Identities:
          WriteIdentity(n, [clusterIdentities[n] EXCEPT
                              !.spec = spec, !.rev = identityEdits + 1])
    BY <1>3 DEF EditIdentity
  <2>2. clusterIdentities[n] \in ClusterIdentity
    BY <1>3 DEF EditIdentity, IdentityTypeOK
  <2>3. [clusterIdentities[n] EXCEPT !.spec = spec, !.rev = identityEdits + 1]
          \in ClusterIdentity
    BY <1>1, <2>2 DEF ClusterIdentity
  <2>4. /\ [clusterIdentities[n] EXCEPT !.spec = spec,
                                        !.rev = identityEdits + 1].rev
            = identityEdits + 1
        /\ [clusterIdentities[n] EXCEPT !.spec = spec,
                                        !.rev = identityEdits + 1].status
            = clusterIdentities[n].status
    BY <2>2 DEF ClusterIdentity
  <2> QED
    BY <1>3, <2>1, <2>3, <2>4 DEF EditIdentity
<1> QED
  BY <1>2, <1>3

\* The steps that end a reconcile, or go on with it, as they change the
\* worker: what the later proofs need to know of them.
LEMMA WorkerStep ==
    ASSUME IdentityTypeOK
    PROVE  /\ CheckSingleton =>
                /\ identityWorker.key \in Names
                /\ identityWorker'.key = identityWorker.key
                /\ identityWorker'.read = identityWorker.read
                /\ \/ /\ validateSingleton
                      /\ identityWorker'.pc = "adopted"
                      /\ identityWorker'.obj = identityWorker.obj
                   \/ /\ ~validateSingleton
                      /\ identityWorker'.pc = "update"
                      /\ identityWorker'.obj =
                            updateStatusFailed(identityWorker.obj)
           /\ CheckAdoptedRegions =>
                /\ identityWorker.key \in Names
                /\ identityWorker'.key = identityWorker.key
                /\ identityWorker'.read = identityWorker.read
                /\ identityWorker'.pc = "set"
                /\ identityWorker'.obj =
                        validateAdoptedRegions(identityWorker.obj, config)
           /\ SetCache =>
                /\ identityWorker.key \in Names
                /\ identityWorker'.key = identityWorker.key
                /\ identityWorker'.read = identityWorker.read
                /\ identityWorker'.pc = "update"
                /\ identityWorker'.obj = updateStatusActive(identityWorker.obj)
           /\ identityWorker.pc \in {"singleton", "adopted", "set", "update"} =>
                /\ identityWorker \in [pc: {"singleton", "adopted", "set", "update"},
                                       key: Names, read: ClusterIdentity,
                                       obj: ClusterIdentity]
           /\ identityWorker = IdleIdentityWorker \/ identityWorker.key \in Names
<1>1. ASSUME identityWorker.pc \in {"singleton", "adopted", "set", "update"}
      PROVE  identityWorker \in [pc: {"singleton", "adopted", "set", "update"},
                                 key: Names, read: ClusterIdentity,
                                 obj: ClusterIdentity]
  BY <1>1 DEF IdentityTypeOK, IdentityWorker, IdleIdentityWorker
<1>2. identityWorker = IdleIdentityWorker \/ identityWorker.key \in Names
  BY DEF IdentityTypeOK, IdentityWorker
<1> QED
  BY <1>1, <1>2 DEF CheckSingleton, CheckAdoptedRegions, SetCache, Continue

\* Every step keeps the state well-formed.
LEMMA IdentityTypeStep == IdentityTypeOK /\ [Next]_vars => IdentityTypeOK'
<1> SUFFICES ASSUME IdentityTypeOK, [Next]_vars PROVE IdentityTypeOK'
  OBVIOUS
<1> DEFINE w == identityWorker
<1> USE IdentityInputs DEF IdentityTypeOK
<1>0. IdleIdentityWorker \in IdentityWorker /\ IdleIdentityWorker.pc = "idle"
  BY DEF IdleIdentityWorker, IdentityWorker
<1>1. ASSUME NEW n \in Names, CreateIdentity(n) \/ EditIdentity(n)
      PROVE  IdentityTypeOK'
  <2>1. PICK written \in ClusterIdentity: WriteIdentity(n, written)
    BY <1>1, WriteStep
  <2> QED
    BY <2>1 DEF WriteIdentity
<1>2. ASSUME NEW n \in Deletable, DeleteIdentity(n) PROVE IdentityTypeOK'
  BY <1>2 DEF DeleteIdentity
<1>3. ASSUME NEW n \in Names, InformIdentity(n) PROVE IdentityTypeOK'
  BY <1>3 DEF InformIdentity, Owes
<1>4. CASE NotifyOthers \/ ConfigChanges \/ ConfigEvent
  BY <1>4 DEF NotifyOthers, ConfigChanges, ConfigEvent,
     mapDNSConfigToClusterIdentities
<1>5. ASSUME NEW n \in Names, StartIdentity(n) PROVE IdentityTypeOK'
  <2>1. seenIdentities[n] \in ClusterIdentity \cup {None}
    OBVIOUS
  <2>2. identityWorker' \in IdentityWorker
    BY <1>5, <2>1 DEF StartIdentity, IdentityWorker
  <2>3. identityWorker'.pc \in {"singleton", "adopted", "set", "update"}
          => None \notin {identityWorker'.read, identityWorker'.obj}
    BY <1>5 DEF StartIdentity
  <2> QED
    BY <1>5, <2>2, <2>3 DEF StartIdentity
<1>6. CASE ClearCache
  BY <1>0, <1>6 DEF ClearCache, Owes
<1>7. CASE CheckSingleton
  <2>1. identityWorker' \in [pc: {"adopted", "update"}, key: Names,
                             read: ClusterIdentity, obj: ClusterIdentity]
    BY <1>7, WorkerStep, VerdictType DEF CheckSingleton, Continue
  <2>2. identityWorker' \in IdentityWorker
        /\ None \notin {identityWorker'.read, identityWorker'.obj}
    BY <2>1, NoneIsNoIdentity DEF IdentityWorker
  <2> QED
    BY <1>7, <2>2 DEF CheckSingleton
<1>8. CASE CheckAdoptedRegions
  <2>1. identityWorker' \in [pc: {"set"}, key: Names,
                             read: ClusterIdentity, obj: ClusterIdentity]
    BY <1>8, WorkerStep, VerdictType DEF CheckAdoptedRegions, Continue
  <2>2. identityWorker' \in IdentityWorker
        /\ None \notin {identityWorker'.read, identityWorker'.obj}
    BY <2>1, NoneIsNoIdentity DEF IdentityWorker
  <2> QED
    BY <1>8, <2>2 DEF CheckAdoptedRegions
<1>9. CASE SetCache
  <2>1. identityWorker' \in [pc: {"update"}, key: Names,
                             read: ClusterIdentity, obj: ClusterIdentity]
    BY <1>9, WorkerStep, VerdictType DEF SetCache, Continue
  <2>2. identityWorker' \in IdentityWorker
        /\ None \notin {identityWorker'.read, identityWorker'.obj}
    BY <2>1, NoneIsNoIdentity DEF IdentityWorker
  <2>3. cache' \in Identities
    BY <1>9, WorkerStep DEF SetCache, ClusterIdentity
  <2> QED
    BY <1>9, <2>2, <2>3 DEF SetCache, Owes
<1>10. CASE UpdateIdentityStatus
  BY <1>0, <1>10, WorkerStep DEF UpdateIdentityStatus
<1>11. CASE IdentityConflict \/ IdentityError
  BY <1>0, <1>11, WorkerStep DEF IdentityConflict, IdentityError,
     RequeueIdentity
<1>12. CASE Restart
  BY <1>0, <1>12 DEF Restart
<1>13. CASE UNCHANGED vars
  BY <1>13 DEF vars
<1> QED
  BY <1>1, <1>2, <1>3, <1>4, <1>5, <1>6, <1>7, <1>8, <1>9, <1>10, <1>11, <1>12,
     <1>13 DEF Next, UserNext, IdentityReconcileNext

\* Every variable keeps the type it is declared with.
THEOREM IdentityTypeCorrect == Spec => []IdentityTypeOK
<1> QED
  BY IdentityTypeInit, IdentityTypeStep, PTL DEF Spec

-----------------------------------------------------------------------------
(***************************************************************************)
(* The writer of the statuses.                                             *)
(***************************************************************************)
Handling(n) ==
    /\ identityWorker.pc \in {"singleton", "adopted", "set", "update"}
    /\ identityWorker.key = n

\* The worker changes the status of the object it has read, and stores it
\* with a phase for the generation it has read.
WorkerIsSound ==
    LET w == identityWorker IN
    /\ w.pc \in {"singleton", "adopted"} => w.obj = w.read
    /\ w.pc \in {"singleton", "adopted", "set", "update"}
        => w.obj.spec = w.read.spec /\ w.obj.rev = w.read.rev
    /\ w.pc = "update" => /\ w.obj.status.phase \in {"Active", "Failed"}
                          /\ w.obj.status.observed = w.obj.rev

\* No copy of an object is newer than the last spec that was written.
NotAhead(obj) ==
    obj # None => obj.rev <= identityEdits /\ obj.status.observed <= identityEdits

NumbersArePast ==
    /\ \A n \in Names: NotAhead(clusterIdentities[n]) /\ NotAhead(seenIdentities[n])
    /\ \A n \in Names: Handling(n) => NotAhead(identityWorker.read)

\* If an update would be accepted, the object has not changed in the
\* informer's store since it was read.
WritableIsSeen ==
    \A n \in Names:
        Handling(n) /\ clusterIdentities[n] = identityWorker.read
            => seenIdentities[n] = clusterIdentities[n]

WriterInv ==
    IdentityTypeOK /\ WorkerIsSound /\ NumbersArePast /\ WritableIsSeen

\* It holds at the start.
LEMMA WriterInit == Init => WriterInv
<1> SUFFICES ASSUME Init PROVE WriterInv
  OBVIOUS
<1>1. identityWorker.pc = "idle"
  BY DEF Init, IdleIdentityWorker
<1>2. \A n \in Names: clusterIdentities[n] = None /\ seenIdentities[n] = None
  BY DEF Init
<1> QED
  BY <1>1, <1>2, IdentityTypeInit DEF WriterInv, WorkerIsSound, NumbersArePast,
     NotAhead, WritableIsSeen, Handling

\* A write is told from everything read before by its generation.
LEMMA WrittenIsNew ==
    ASSUME WriterInv, NEW n \in Names, CreateIdentity(n) \/ EditIdentity(n)
    PROVE  /\ \E written \in ClusterIdentity:
                /\ WriteIdentity(n, written)
                /\ clusterIdentities'[n] = written
                /\ written.rev = identityEdits + 1
                /\ written.status.observed <= identityEdits
                /\ written.status.phase # "Active"
                    \/ clusterIdentities[n] # None
           /\ clusterIdentities'[n] # None
           /\ clusterIdentities'[n].status.observed # clusterIdentities'[n].rev
           /\ clusterIdentities'[n] # seenIdentities[n]
           /\ Handling(n) => clusterIdentities'[n] # identityWorker.read
<1>0. identityEdits \in Nat
  BY DEF WriterInv, IdentityTypeOK
<1>1. PICK written \in ClusterIdentity:
        /\ WriteIdentity(n, written)
        /\ written.rev = identityEdits + 1
        /\ written.status = NewIdentityStatus
            \/ /\ clusterIdentities[n] # None
               /\ written.status = clusterIdentities[n].status
  BY WriteStep DEF WriterInv
<1>2. clusterIdentities'[n] = written
  BY <1>1 DEF WriteIdentity, WriterInv, IdentityTypeOK
<1>3. NotAhead(clusterIdentities[n]) /\ NotAhead(seenIdentities[n])
  BY DEF WriterInv, NumbersArePast
<1>4. written.status.observed <= identityEdits
  <2>1. NewIdentityStatus.observed = 0
    BY DEF NewIdentityStatus
  <2> QED
    BY <1>0, <1>1, <1>3, <2>1 DEF NotAhead
<1>5. written # None
  BY NoneIsNoIdentity
<1>6. written # seenIdentities[n]
  BY <1>0, <1>1, <1>3, <1>5 DEF NotAhead
<1>7. Handling(n) => written # identityWorker.read
  BY <1>0, <1>1, <1>5 DEF NotAhead, WriterInv, NumbersArePast
<1>8. written.status.phase # "Active" \/ clusterIdentities[n] # None
  <2>1. NewIdentityStatus.phase = ""
    BY DEF NewIdentityStatus
  <2> QED
    BY <1>1, <2>1
<1>9. written.status.observed # written.rev
  BY <1>0, <1>1, <1>4
<1> QED
  BY <1>1, <1>2, <1>4, <1>5, <1>6, <1>7, <1>8, <1>9

\* An accepted update stores what was computed from the informer's object.
LEMMA AcceptedUpdate ==
    ASSUME WriterInv, UpdateIdentityStatus
    PROVE  LET k == identityWorker.key IN
           /\ k \in Names
           /\ Handling(k)
           /\ identityWorker.read = clusterIdentities[k]
           /\ identityWorker.obj \in ClusterIdentity
           /\ identityWorker.obj.spec = clusterIdentities[k].spec
           /\ identityWorker.obj.rev = clusterIdentities[k].rev
           /\ identityWorker.obj.status.observed = clusterIdentities[k].rev
           /\ clusterIdentities[k] \in ClusterIdentity
           /\ seenIdentities[k] = clusterIdentities[k]
           /\ clusterIdentities'[k] = identityWorker.obj
           /\ \A n \in Names \ {k}: clusterIdentities'[n] = clusterIdentities[n]
           /\ identityWorker' = IdleIdentityWorker
           /\ UNCHANGED <<seenIdentities, identityQueue, cache, notified,
                          identityOwed, configVars, identityEdits>>
<1> DEFINE k == identityWorker.key
<1>1. identityWorker.pc = "update"
  BY DEF UpdateIdentityStatus
<1>2. k \in Names /\ identityWorker.read \in ClusterIdentity
      /\ identityWorker.obj \in ClusterIdentity
  BY <1>1, WorkerStep DEF WriterInv
<1>3. Handling(k) /\ clusterIdentities[k] = identityWorker.read
  BY <1>1 DEF Handling, UpdateIdentityStatus
<1>4. seenIdentities[k] = clusterIdentities[k]
  BY <1>2, <1>3 DEF WriterInv, WritableIsSeen
<1>5. /\ clusterIdentities'[k] = identityWorker.obj
      /\ \A n \in Names \ {k}: clusterIdentities'[n] = clusterIdentities[n]
  BY <1>2 DEF UpdateIdentityStatus, WriterInv, IdentityTypeOK
<1>6. /\ identityWorker.obj.spec = identityWorker.read.spec
      /\ identityWorker.obj.rev = identityWorker.read.rev
      /\ identityWorker.obj.status.observed = identityWorker.obj.rev
  BY <1>1 DEF WriterInv, WorkerIsSound
<1> QED
  BY <1>1, <1>2, <1>3, <1>4, <1>5, <1>6 DEF UpdateIdentityStatus

\* Every step keeps it.
LEMMA WriterStep == WriterInv /\ [Next]_vars => WriterInv'
<1> SUFFICES ASSUME WriterInv, [Next]_vars PROVE WriterInv'
  OBVIOUS
<1> DEFINE w == identityWorker
<1>0. IdentityTypeOK /\ IdentityTypeOK'
  BY IdentityTypeStep DEF WriterInv
<1>1. identityEdits \in Nat
  BY <1>0 DEF IdentityTypeOK
<1>2. IdleIdentityWorker.pc = "idle"
  BY DEF IdleIdentityWorker
<1> SUFFICES WorkerIsSound' /\ NumbersArePast' /\ WritableIsSeen'
  BY <1>0 DEF WriterInv
<1>3. ASSUME NEW n \in Names, CreateIdentity(n) \/ EditIdentity(n)
      PROVE  WorkerIsSound' /\ NumbersArePast' /\ WritableIsSeen'
  <2>1. PICK written \in ClusterIdentity:
          /\ WriteIdentity(n, written)
          /\ clusterIdentities'[n] = written
          /\ written.rev = identityEdits + 1
          /\ written.status.observed <= identityEdits
    BY <1>3, WrittenIsNew
  <2>2. /\ UNCHANGED <<identityWorker, seenIdentities>>
        /\ identityEdits' = identityEdits + 1
        /\ \A m \in Names \ {n}: clusterIdentities'[m] = clusterIdentities[m]
    BY <1>0, <2>1 DEF WriteIdentity, IdentityTypeOK
  <2>3. \A obj \in ClusterIdentity \cup {None}: NotAhead(obj) => NotAhead(obj)'
    <3> SUFFICES ASSUME NEW obj \in ClusterIdentity, NotAhead(obj), obj # None
                 PROVE  NotAhead(obj)'
      BY DEF NotAhead
    <3>1. obj.rev \in Nat /\ obj.status.observed \in Nat
      BY NumbersType
    <3> QED
      BY <1>1, <2>2, <3>1 DEF NotAhead
  <2>4. \A m \in Names: NotAhead(seenIdentities[m])'
    BY <1>0, <2>2, <2>3 DEF WriterInv, NumbersArePast, NotAhead, IdentityTypeOK
  <2>5. \A m \in Names: NotAhead(clusterIdentities[m])'
    <3>1. written.status.observed \in Nat
      BY NumbersType
    <3>2. NotAhead(clusterIdentities[n])'
      BY <1>1, <2>1, <2>2, <3>1 DEF NotAhead
    <3>3. \A m \in Names \ {n}: NotAhead(clusterIdentities[m])'
      BY <1>0, <2>2, <2>3 DEF WriterInv, NumbersArePast, NotAhead, IdentityTypeOK
    <3> QED
      BY <3>2, <3>3
  <2>6. \A m \in Names: Handling(m)' => NotAhead(identityWorker.read)'
    <3> SUFFICES ASSUME NEW m \in Names, Handling(m)
                 PROVE  NotAhead(identityWorker.read)'
      BY <2>2 DEF Handling
    <3>1. identityWorker.read \in ClusterIdentity /\ NotAhead(identityWorker.read)
      BY <1>0, WorkerStep DEF WriterInv, NumbersArePast, Handling
    <3> QED
      BY <2>2, <2>3, <3>1 DEF NotAhead
  <2>7. WritableIsSeen'
    BY <1>3, <2>2, WrittenIsNew DEF WriterInv, WritableIsSeen, Handling
  <2>8. WorkerIsSound'
    BY <2>2 DEF WriterInv, WorkerIsSound
  <2> QED
    BY <2>4, <2>5, <2>6, <2>7, <2>8 DEF NumbersArePast
<1>4. ASSUME NEW n \in Deletable, DeleteIdentity(n)
      PROVE  WorkerIsSound' /\ NumbersArePast' /\ WritableIsSeen'
  <2>1. n \in Names
    BY IdentityInputs
  <2>2. /\ clusterIdentities'[n] = None
        /\ UNCHANGED <<identityWorker, seenIdentities, identityEdits>>
        /\ \A m \in Names \ {n}: clusterIdentities'[m] = clusterIdentities[m]
    BY <1>0, <1>4, <2>1 DEF DeleteIdentity, IdentityTypeOK
  <2>3. Handling(n) => identityWorker.read # None
    BY <1>0, WorkerStep, NoneIsNoIdentity DEF Handling
  <2>4. WritableIsSeen'
    BY <2>1, <2>2, <2>3 DEF WriterInv, WritableIsSeen, Handling
  <2>5. NumbersArePast'
    BY <2>2 DEF WriterInv, NumbersArePast, NotAhead, Handling
  <2> QED
    BY <2>2, <2>4, <2>5 DEF WriterInv, WorkerIsSound
<1>5. ASSUME NEW n \in Names, InformIdentity(n)
      PROVE  WorkerIsSound' /\ NumbersArePast' /\ WritableIsSeen'
  <2>1. /\ UNCHANGED <<clusterIdentities, identityWorker, identityEdits>>
        /\ seenIdentities'[n] = clusterIdentities[n]
        /\ \A m \in Names \ {n}: seenIdentities'[m] = seenIdentities[m]
    BY <1>0, <1>5 DEF InformIdentity, IdentityTypeOK
  <2>2. WorkerIsSound' /\ WritableIsSeen'
    BY <2>1 DEF WriterInv, WritableIsSeen, WorkerIsSound, Handling
  <2>3. NumbersArePast'
    BY <2>1 DEF WriterInv, NumbersArePast, NotAhead, Handling
  <2> QED
    BY <2>2, <2>3
<1>6. CASE \/ NotifyOthers \/ ConfigChanges \/ ConfigEvent
           \/ UNCHANGED vars
  <2>1. UNCHANGED <<clusterIdentities, seenIdentities, identityWorker,
                    identityEdits>>
    BY <1>6 DEF NotifyOthers, ConfigChanges, ConfigEvent, vars
  <2> QED
    BY <2>1 DEF WriterInv, WorkerIsSound, NumbersArePast, NotAhead,
       WritableIsSeen, Handling
<1>7. ASSUME NEW n \in Names, StartIdentity(n)
      PROVE  WorkerIsSound' /\ NumbersArePast' /\ WritableIsSeen'
  <2>1. /\ UNCHANGED <<clusterIdentities, seenIdentities, identityEdits>>
        /\ identityWorker' =
            [pc |-> IF seenIdentities[n] = None THEN "clear" ELSE "singleton",
             key |-> n, read |-> seenIdentities[n], obj |-> seenIdentities[n]]
    BY <1>7 DEF StartIdentity
  <2>2. /\ identityWorker'.pc \in {"clear", "singleton"}
        /\ identityWorker'.key = n
        /\ identityWorker'.read = seenIdentities[n]
        /\ identityWorker'.obj = seenIdentities[n]
    BY <2>1
  <2>3. WorkerIsSound'
    BY <2>2 DEF WorkerIsSound
  <2>4. WritableIsSeen'
    BY <2>1, <2>2 DEF WritableIsSeen, Handling
  <2>5. NumbersArePast'
    BY <2>1, <2>2 DEF WriterInv, NumbersArePast, NotAhead, Handling
  <2> QED
    BY <2>3, <2>4, <2>5
<1>8. CASE CheckSingleton \/ CheckAdoptedRegions \/ SetCache
  <2>1. /\ UNCHANGED <<clusterIdentities, seenIdentities, identityEdits>>
        /\ w.pc \in {"singleton", "adopted", "set"}
        /\ identityWorker'.read = w.read
        /\ identityWorker'.key = w.key
        /\ identityWorker'.pc \in {"adopted", "set", "update"}
        /\ w.obj \in ClusterIdentity
    BY <1>0, <1>8, WorkerStep DEF CheckSingleton, CheckAdoptedRegions, SetCache
  <2>2. WritableIsSeen'
    BY <2>1 DEF WriterInv, WritableIsSeen, Handling
  <2>3. NumbersArePast'
    BY <2>1 DEF WriterInv, NumbersArePast, NotAhead, Handling
  <2>4. w.obj.spec = w.read.spec /\ w.obj.rev = w.read.rev
    BY <2>1 DEF WriterInv, WorkerIsSound
  <2>5. CASE CheckSingleton
    <3>1. w.obj = w.read
      BY <2>5 DEF WriterInv, WorkerIsSound, CheckSingleton
    <3>2. \/ identityWorker'.pc = "adopted" /\ identityWorker'.obj = w.obj
          \/ /\ identityWorker'.pc = "update"
             /\ identityWorker'.obj = updateStatusFailed(w.obj)
      BY <1>0, <2>5, WorkerStep
    <3> QED
      BY <2>1, <2>2, <2>3, <2>4, <3>1, <3>2, VerdictFields DEF WorkerIsSound
  <2>6. CASE CheckAdoptedRegions
    <3>1. /\ identityWorker'.pc = "set"
          /\ identityWorker'.obj = validateAdoptedRegions(w.obj, config)
      BY <1>0, <2>6, WorkerStep
    <3> QED
      BY <2>1, <2>2, <2>3, <2>4, <3>1, VerdictFields DEF WorkerIsSound
  <2>7. CASE SetCache
    <3>1. /\ identityWorker'.pc = "update"
          /\ identityWorker'.obj = updateStatusActive(w.obj)
      BY <1>0, <2>7, WorkerStep
    <3> QED
      BY <2>1, <2>2, <2>3, <2>4, <3>1, VerdictFields DEF WorkerIsSound
  <2> QED
    BY <1>8, <2>5, <2>6, <2>7
<1>9. CASE UpdateIdentityStatus
  <2>1. NotAhead(identityWorker.obj)
    BY <1>9, AcceptedUpdate, NoneIsNoIdentity DEF WriterInv, NumbersArePast, NotAhead
  <2>2. identityWorker'.pc = "idle"
    BY <1>2, <1>9, AcceptedUpdate
  <2>3. NumbersArePast'
    BY <1>9, <2>1, <2>2, AcceptedUpdate
       DEF WriterInv, NumbersArePast, NotAhead, Handling
  <2> QED
    BY <2>2, <2>3 DEF WorkerIsSound, WritableIsSeen, Handling
<1>10. CASE ClearCache \/ IdentityConflict \/ IdentityError \/ Restart
  <2>1. /\ UNCHANGED <<clusterIdentities, identityEdits>>
        /\ seenIdentities' = seenIdentities \/ seenIdentities' = clusterIdentities
        /\ identityWorker'.pc = "idle"
    BY <1>2, <1>10 DEF ClearCache, IdentityConflict, IdentityError,
       RequeueIdentity, Restart
  <2>2. NumbersArePast'
    BY <2>1 DEF WriterInv, NumbersArePast, NotAhead, Handling
  <2> QED
    BY <2>1, <2>2 DEF WorkerIsSound, WritableIsSeen, Handling
<1> QED
  BY <1>3, <1>4, <1>5, <1>6, <1>7, <1>8, <1>9, <1>10 DEF Next, UserNext,
     IdentityReconcileNext

\* The invariant that the proofs below share.
THEOREM WriterInvariant == Spec => []WriterInv
<1> QED
  BY WriterInit, WriterStep, PTL DEF Spec

-----------------------------------------------------------------------------
(***************************************************************************)
(* Deletions.                                                              *)
(***************************************************************************)
\* The object that the worker handles is listed, or its key is queued again.
HandledIsSeen ==
    \A n \in Names: Handling(n) => seenIdentities[n] # None \/ n \in identityQueue

\* A cache that outlives the last ClusterIdentity is about to be cleared.
ClearIsDue ==
    (\A n \in Names: seenIdentities[n] = None) /\ cache # None
        => identityQueue # {} \/ identityWorker.pc = "clear"

ForgetInv == IdentityTypeOK /\ HandledIsSeen /\ ClearIsDue

\* No deletion is overlooked: ForgetInv is inductive.
LEMMA ForgetStep == ForgetInv /\ [Next]_vars => ForgetInv'
<1> SUFFICES ASSUME ForgetInv, [Next]_vars PROVE ForgetInv'
  OBVIOUS
<1> DEFINE w == identityWorker
<1>0. IdentityTypeOK /\ IdentityTypeOK'
  BY IdentityTypeStep DEF ForgetInv
<1>1. IdleIdentityWorker.pc = "idle"
  BY DEF IdleIdentityWorker
<1> SUFFICES HandledIsSeen' /\ ClearIsDue'
  BY <1>0 DEF ForgetInv
<1>2. CASE UserNext \/ NotifyOthers \/ ConfigChanges \/ UNCHANGED vars
  <2>1. UNCHANGED <<seenIdentities, identityQueue, identityWorker, cache>>
    BY <1>2 DEF UserNext, CreateIdentity, EditIdentity, WriteIdentity,
       DeleteIdentity, NotifyOthers, ConfigChanges, vars
  <2> QED
    BY <2>1 DEF ForgetInv, HandledIsSeen, ClearIsDue, Handling
<1>3. CASE ConfigEvent
  <2>1. /\ UNCHANGED <<seenIdentities, identityWorker, cache>>
        /\ identityQueue \subseteq identityQueue'
    BY <1>3 DEF ConfigEvent
  <2> QED
    BY <2>1 DEF ForgetInv, HandledIsSeen, ClearIsDue, Handling
<1>4. ASSUME NEW n \in Names, InformIdentity(n)
      PROVE  HandledIsSeen' /\ ClearIsDue'
  <2>1. /\ UNCHANGED <<identityWorker, cache>>
        /\ identityQueue' = identityQueue \cup {n}
        /\ \A m \in Names \ {n}: seenIdentities'[m] = seenIdentities[m]
    BY <1>0, <1>4 DEF InformIdentity, IdentityTypeOK
  <2> QED
    BY <2>1 DEF ForgetInv, HandledIsSeen, ClearIsDue, Handling
<1>5. ASSUME NEW n \in Names, StartIdentity(n)
      PROVE  HandledIsSeen' /\ ClearIsDue'
  <2>1. /\ UNCHANGED <<seenIdentities, cache>>
        /\ identityWorker'.key = n
        /\ identityWorker'.pc = IF seenIdentities[n] = None THEN "clear"
                                ELSE "singleton"
    BY <1>5 DEF StartIdentity
  <2>2. HandledIsSeen'
    BY <2>1 DEF HandledIsSeen, Handling
  <2>3. ClearIsDue'
    BY <2>1 DEF ClearIsDue
  <2> QED
    BY <2>2, <2>3
<1>6. CASE CheckSingleton \/ CheckAdoptedRegions \/ SetCache
  <2>1. /\ UNCHANGED <<seenIdentities, identityQueue>>
        /\ w.pc \in {"singleton", "adopted", "set"}
        /\ w.key \in Names
        /\ identityWorker'.key = w.key
        /\ identityWorker'.pc \in {"adopted", "set", "update"}
    BY <1>0, <1>6, WorkerStep DEF CheckSingleton, CheckAdoptedRegions, SetCache
  <2>2. HandledIsSeen'
    BY <2>1 DEF ForgetInv, HandledIsSeen, Handling
  <2>3. ClearIsDue'
    BY <2>1, <2>2 DEF HandledIsSeen, Handling, ClearIsDue
  <2> QED
    BY <2>2, <2>3
<1>7. CASE UpdateIdentityStatus
  <2>1. /\ UNCHANGED <<seenIdentities, identityQueue, cache>>
        /\ w.pc = "update"
        /\ identityWorker'.pc = "idle"
    BY <1>1, <1>7 DEF UpdateIdentityStatus
  <2> QED
    BY <2>1 DEF ForgetInv, HandledIsSeen, Handling, ClearIsDue
<1>8. CASE IdentityConflict \/ IdentityError
  <2>1. identityQueue' # {} /\ identityWorker'.pc = "idle"
    BY <1>1, <1>8 DEF IdentityConflict, IdentityError, RequeueIdentity
  <2> QED
    BY <2>1 DEF HandledIsSeen, Handling, ClearIsDue
<1>9. CASE ClearCache \/ Restart
  <2>1. cache' = None /\ identityWorker'.pc = "idle"
    BY <1>1, <1>9 DEF ClearCache, Restart
  <2> QED
    BY <2>1 DEF HandledIsSeen, Handling, ClearIsDue
<1> QED
  BY <1>2, <1>3, <1>4, <1>5, <1>6, <1>7, <1>8, <1>9 DEF Next, IdentityReconcileNext

LEMMA ForgetInit == Init => ForgetInv
<1> SUFFICES ASSUME Init PROVE ForgetInv
  OBVIOUS
<1>1. identityWorker.pc = "idle" /\ cache = None
  BY DEF Init, IdleIdentityWorker
<1> QED
  BY <1>1, IdentityTypeInit DEF ForgetInv, HandledIsSeen, ClearIsDue, Handling

LEMMA ForgetIsForgotten == ForgetInv => DeletedIsForgotten
<1> SUFFICES ASSUME ForgetInv, IdentityQuiescent,
                    \A n \in Names: clusterIdentities[n] = None
             PROVE  Fetched = {None}
  BY DEF DeletedIsForgotten
<1>1. \A n \in Names: seenIdentities[n] = None
  BY DEF IdentityQuiescent
<1>2. cache = None
  BY <1>1 DEF ForgetInv, ClearIsDue, IdentityQuiescent, IdleIdentityWorker
<1>3. {seenIdentities[n] : n \in Names} \ {None} = {}
  BY <1>1
<1> QED
  BY <1>2, <1>3 DEF Fetched, Fetch

\* When no ClusterIdentity is left, at rest Fetch returns none, whatever Set
\* was under way during the deletions and whichever was deleted first.
THEOREM DeletionsAreForgotten == Spec => []DeletedIsForgotten
BY ForgetInit, ForgetStep, ForgetIsForgotten, PTL DEF Spec

-----------------------------------------------------------------------------
(***************************************************************************)
(* Several ClusterIdentities.                                              *)
(***************************************************************************)
\* The ClusterIdentity is not Active, or it will be looked at again before
\* the controller rests, or what is about to be written is not "Active".
Refusing(n) ==
    \/ n \in identityQueue
    \/ seenIdentities[n] # clusterIdentities[n]
    \/ Handling(n) /\ identityWorker.pc = "singleton"
    \/ /\ Handling(n)
       /\ identityWorker.pc = "update"
       /\ identityWorker.obj.status.phase = "Failed"
    \/ ~Handling(n) /\ clusterIdentities[n].status.phase # "Active"

\* Of any two there is one that will not be found Active at rest.
OneRefuses ==
    \A m, n \in Names:
        (m # n /\ None \notin {clusterIdentities[m], clusterIdentities[n]})
        => Refusing(m) \/ Refusing(n)

\* A step of the worker on one ClusterIdentity leaves the others as they are.
LEMMA OthersKeepRefusing ==
    ASSUME NEW n \in Names, Refusing(n), ~Handling(n), ~Handling(n)',
           seenIdentities'[n] = seenIdentities[n],
           clusterIdentities'[n] = clusterIdentities[n],
           n \in identityQueue => n \in identityQueue'
    PROVE  Refusing(n)'
BY DEF Refusing

\* What a step does to one ClusterIdentity: it goes on refusing, unless it is
\* the one that is found to be alone.
LEMMA RefusingStep ==
    ASSUME WriterInv, Next, NEW n \in Names, clusterIdentities'[n] # None,
           clusterIdentities[n] = None \/ Refusing(n),
           ~(CheckSingleton /\ Handling(n) /\ validateSingleton)
    PROVE  Refusing(n)'
<1> DEFINE w == identityWorker
<1>0. IdentityTypeOK
  BY DEF WriterInv
<1>1. IdleIdentityWorker.pc = "idle"
  BY DEF IdleIdentityWorker
<1>2. ASSUME NEW m \in Names, CreateIdentity(m) \/ EditIdentity(m)
      PROVE  Refusing(n)'
  <2>1. PICK written: WriteIdentity(m, written)
    BY <1>2, WrittenIsNew
  <2>2. /\ UNCHANGED <<identityWorker, seenIdentities, identityQueue>>
        /\ m # n => clusterIdentities'[n] = clusterIdentities[n]
    BY <1>0, <2>1 DEF WriteIdentity, IdentityTypeOK
  <2>3. CASE m = n
    <3>1. clusterIdentities'[n] # seenIdentities[n]
      BY <1>2, <2>3, WrittenIsNew
    <3> QED
      BY <2>2, <3>1 DEF Refusing
  <2>4. CASE m # n
    BY <2>2, <2>4 DEF Refusing, Handling
  <2> QED
    BY <2>3, <2>4
<1>3. ASSUME NEW m \in Deletable, DeleteIdentity(m) PROVE Refusing(n)'
  <2>1. m # n
    BY <1>0, <1>3 DEF DeleteIdentity, IdentityTypeOK
  <2>2. /\ UNCHANGED <<identityWorker, seenIdentities, identityQueue>>
        /\ clusterIdentities'[n] = clusterIdentities[n]
    BY <1>0, <1>3, <2>1 DEF DeleteIdentity, IdentityTypeOK
  <2> QED
    BY <2>2 DEF Refusing, Handling
<1>4. ASSUME NEW m \in Names, InformIdentity(m) PROVE Refusing(n)'
  <2>1. /\ UNCHANGED <<clusterIdentities, identityWorker>>
        /\ identityQueue' = identityQueue \cup {m}
        /\ m # n => seenIdentities'[n] = seenIdentities[n]
    BY <1>0, <1>4 DEF InformIdentity, IdentityTypeOK
  <2> QED
    BY <2>1 DEF Refusing, Handling
<1>5. CASE NotifyOthers \/ ConfigChanges \/ ConfigEvent
  <2>1. /\ UNCHANGED <<clusterIdentities, seenIdentities, identityWorker>>
        /\ identityQueue \subseteq identityQueue'
    BY <1>5 DEF NotifyOthers, ConfigChanges, ConfigEvent
  <2> QED
    BY <2>1 DEF Refusing, Handling
<1>6. ASSUME NEW m \in Names, StartIdentity(m) PROVE Refusing(n)'
  <2>1. /\ UNCHANGED <<clusterIdentities, seenIdentities>>
        /\ w.pc = "idle"
        /\ identityQueue' = identityQueue \ {m}
        /\ identityWorker'.key = m
        /\ identityWorker'.pc = IF seenIdentities[m] = None THEN "clear"
                                ELSE "singleton"
    BY <1>6 DEF StartIdentity
  <2>2. CASE m = n
    BY <2>1, <2>2 DEF Refusing, Handling
  <2>3. CASE m # n
    BY <2>1, <2>3, OthersKeepRefusing DEF Handling
  <2> QED
    BY <2>2, <2>3
<1>7. CASE ClearCache
  <2>1. /\ UNCHANGED <<clusterIdentities, seenIdentities, identityQueue>>
        /\ ~Handling(n) /\ ~Handling(n)'
    BY <1>1, <1>7 DEF ClearCache, Handling
  <2> QED
    BY <2>1, OthersKeepRefusing
<1>8. CASE CheckSingleton \/ CheckAdoptedRegions \/ SetCache
  <2>1. /\ UNCHANGED <<clusterIdentities, seenIdentities, identityQueue>>
        /\ w.pc \in {"singleton", "adopted", "set"}
        /\ identityWorker'.key = w.key
        /\ identityWorker'.pc \in {"adopted", "set", "update"}
    BY <1>0, <1>8, WorkerStep DEF CheckSingleton, CheckAdoptedRegions, SetCache
  <2>2. CASE w.key # n
    BY <2>1, <2>2, OthersKeepRefusing DEF Handling
  <2>3. CASE w.key = n /\ w.pc # "singleton"
    BY <2>1, <2>3 DEF Refusing, Handling
  <2>4. CASE w.key = n /\ w.pc = "singleton"
    <3>1. CheckSingleton /\ Handling(n)
      BY <1>8, <2>4 DEF CheckAdoptedRegions, SetCache, Handling
    <3>2. /\ w.obj \in ClusterIdentity
          /\ identityWorker'.pc = "update"
          /\ identityWorker'.obj = updateStatusFailed(w.obj)
      BY <1>0, <2>4, <3>1, WorkerStep
    <3> QED
      BY <2>1, <2>4, <3>2, VerdictFields DEF Refusing, Handling
  <2> QED
    BY <2>1, <2>2, <2>3, <2>4
<1>9. CASE UpdateIdentityStatus
  <2>1. /\ UNCHANGED <<seenIdentities, identityQueue>>
        /\ identityWorker'.pc = "idle" /\ w.pc = "update"
        /\ ~Handling(n)'
    BY <1>1, <1>9 DEF UpdateIdentityStatus, Handling
  <2>2. CASE w.key # n
    <3>1. clusterIdentities'[n] = clusterIdentities[n] /\ ~Handling(n)
      BY <1>9, <2>2, AcceptedUpdate DEF Handling
    <3> QED
      BY <2>1, <3>1, OthersKeepRefusing
  <2>3. CASE w.key = n
    <3>1. /\ clusterIdentities'[n] = w.obj
          /\ seenIdentities[n] = clusterIdentities[n]
          /\ Handling(n)
          /\ clusterIdentities[n] # None
      BY <1>9, <2>3, AcceptedUpdate, NoneIsNoIdentity
    <3> QED
      BY <2>1, <3>1 DEF Refusing
  <2> QED
    BY <2>2, <2>3
<1>10. CASE IdentityConflict \/ IdentityError
  <2>1. /\ UNCHANGED <<clusterIdentities, seenIdentities>>
        /\ identityQueue' = identityQueue \cup {w.key}
        /\ ~Handling(n)'
    BY <1>1, <1>10 DEF IdentityConflict, IdentityError, RequeueIdentity, Handling
  <2> QED
    BY <2>1 DEF Refusing, Handling
<1>11. CASE Restart
  BY <1>11 DEF Restart, Refusing
<1> QED
  BY <1>2, <1>3, <1>4, <1>5, <1>6, <1>7, <1>8, <1>9, <1>10, <1>11
     DEF Next, UserNext, IdentityReconcileNext

\* If one of two stops refusing, because it is alone in the informer's
\* store, then the other is not there yet and will be looked at.
LEMMA OneRefusesStep == WriterInv /\ OneRefuses /\ [Next]_vars => OneRefuses'
<1> SUFFICES ASSUME WriterInv, OneRefuses, [Next]_vars,
                    NEW m \in Names, NEW n \in Names, m # n,
                    clusterIdentities'[m] # None, clusterIdentities'[n] # None
             PROVE  Refusing(m)' \/ Refusing(n)'
  BY DEF OneRefuses
<1>1. CASE UNCHANGED vars
  BY <1>1 DEF OneRefuses, Refusing, Handling, vars
<1>2. CASE Next /\ ~(CheckSingleton /\ validateSingleton)
  BY <1>2, RefusingStep DEF OneRefuses
<1>3. CASE CheckSingleton /\ validateSingleton
  <2>1. /\ UNCHANGED <<clusterIdentities, seenIdentities>>
        /\ seenIdentities[m] = None \/ seenIdentities[n] = None
    BY <1>3 DEF CheckSingleton, validateSingleton
  <2> QED
    BY <2>1 DEF Refusing
<1> QED
  BY <1>1, <1>2, <1>3

\* At rest at most one ClusterIdentity is Active, in whatever order they are
\* created, informed of, counted and deleted.
THEOREM AtMostOneIsActive == Spec => []OneIsActive
<1>1. Init => OneRefuses
  BY DEF Init, OneRefuses
<1>2. OneRefuses => OneIsActive
  <2> SUFFICES ASSUME OneRefuses, IdentityQuiescent,
                      NEW m \in Names, NEW n \in Names,
                      None \notin {clusterIdentities[m], clusterIdentities[n]},
                      clusterIdentities[m].status.phase = "Active",
                      clusterIdentities[n].status.phase = "Active",
                      m # n
               PROVE  FALSE
    BY DEF OneIsActive
  <2>1. ~Handling(m) /\ ~Handling(n)
    BY DEF Handling, IdentityQuiescent, IdleIdentityWorker
  <2> QED
    BY <2>1 DEF OneRefuses, Refusing, IdentityQuiescent
<1> QED
  BY <1>1, <1>2, OneRefusesStep, WriterInvariant, PTL DEF Spec

-----------------------------------------------------------------------------
(***************************************************************************)
(* A single ClusterIdentity.                                               *)
(***************************************************************************)
\* What the ClusterIdentity is to be stored as.
Verdict(obj, cfg) == updateStatusActive(validateAdoptedRegions(obj, cfg))

\* It will be looked at again.
LookAgain(n) ==
    \/ n \in identityQueue
    \/ seenIdentities[n] # clusterIdentities[n]
    \/ configOwed

\* The worker handles what the informer's store holds, with the
\* configuration of now.
OnCourse(n) ==
    LET w == identityWorker IN
    /\ Handling(n)
    /\ w.read = seenIdentities[n]
    /\ w.pc = "set" => w.obj = validateAdoptedRegions(w.read, config)
    /\ w.pc = "update" => w.obj = Verdict(w.read, config) /\ cache = w.read.spec

\* It is stored as it is to be, and the cache, if it is filled, has its spec.
Served(n) ==
    /\ ~Handling(n)
    /\ clusterIdentities[n] = Verdict(clusterIdentities[n], config)
    /\ cache \in {None, clusterIdentities[n].spec}

Tended(n) ==
    clusterIdentities[n] # None => LookAgain(n) \/ OnCourse(n) \/ Served(n)

\* A verdict on a verdict is the same verdict: the status has no part in it.
LEMMA VerdictTwice ==
    ASSUME NEW obj \in ClusterIdentity, NEW cfg
    PROVE  Verdict(Verdict(obj, cfg), cfg) = Verdict(obj, cfg)
<1> DEFINE valid == validateAdoptedRegions(obj, cfg)
           verdict == updateStatusActive(valid)
           valid2 == validateAdoptedRegions(verdict, cfg)
           verdict2 == updateStatusActive(valid2)
<1>1. /\ valid \in ClusterIdentity /\ verdict \in ClusterIdentity
      /\ valid2 \in ClusterIdentity /\ verdict2 \in ClusterIdentity
  BY VerdictType
<1>2. ASSUME NEW o \in ClusterIdentity
      PROVE  /\ updateStatusActive(o).status.reason = "ReconciliationSucceeded"
             /\ updateStatusActive(o).status.adopted = o.status.adopted
             /\ updateStatusActive(o).status.adoptedObserved
                    = o.status.adoptedObserved
             /\ validateAdoptedRegions(o, cfg).status.adoptedObserved = o.rev
  <2>1. o = [spec |-> o.spec, rev |-> o.rev, status |-> o.status]
    BY DEF ClusterIdentity
  <2>2. DOMAIN o.status = {"phase", "reason", "observed", "adopted",
                           "adoptedObserved"}
    BY DEF ClusterIdentity, IdentityStatus
  <2> QED
    BY <2>1, <2>2 DEF updateStatusActive, validateAdoptedRegions
<1>3. validateAdoptedRegions(verdict, cfg).status.adopted
        = validateAdoptedRegions(obj, cfg).status.adopted
  <2> DEFINE known == IF cfg = None THEN {} ELSE {cfg[c] : c \in DOMAIN cfg}
             adopted == IF obj.spec.adopts = {} THEN "NoAdoptedRegions"
                        ELSE IF obj.spec.adopts \subseteq known
                        THEN "AllAdoptedRegionsValid"
                        ELSE "AdoptedRegionNotFound"
  <2>1. verdict.spec = obj.spec
    BY <1>1, VerdictFields
  <2>2. validateAdoptedRegions(obj, cfg) =
          [obj EXCEPT !.status.adopted = adopted,
                      !.status.adoptedObserved = obj.rev]
    BY DEF validateAdoptedRegions
  <2>3. validateAdoptedRegions(verdict, cfg) =
          [verdict EXCEPT !.status.adopted = adopted,
                          !.status.adoptedObserved = verdict.rev]
    BY <2>1 DEF validateAdoptedRegions
  <2> HIDE DEF adopted
  <2>4. \A o \in ClusterIdentity:
          [o EXCEPT !.status.adopted = adopted,
                    !.status.adoptedObserved = o.rev].status.adopted = adopted
    <3> SUFFICES ASSUME NEW o \in ClusterIdentity
                 PROVE  [o EXCEPT !.status.adopted = adopted,
                                  !.status.adoptedObserved = o.rev].status.adopted
                        = adopted
      OBVIOUS
    <3>1. o = [spec |-> o.spec, rev |-> o.rev, status |-> o.status]
      BY DEF ClusterIdentity
    <3>2. DOMAIN o.status = {"phase", "reason", "observed", "adopted",
                             "adoptedObserved"}
      BY DEF ClusterIdentity, IdentityStatus
    <3> QED
      BY <3>1, <3>2
  <2> QED
    BY <1>1, <2>2, <2>3, <2>4
<1> HIDE DEF valid, verdict, valid2, verdict2
<1>4. /\ verdict.spec = valid.spec /\ verdict.rev = valid.rev
      /\ verdict.status.phase = "Active" /\ verdict.status.observed = valid.rev
      /\ verdict.status.reason = "ReconciliationSucceeded"
      /\ verdict.status.adopted = valid.status.adopted
      /\ verdict.status.adoptedObserved = valid.status.adoptedObserved
  BY <1>1, <1>2, VerdictFields DEF verdict
<1>5. /\ verdict2.spec = valid2.spec /\ verdict2.rev = valid2.rev
      /\ verdict2.status.phase = "Active" /\ verdict2.status.observed = valid2.rev
      /\ verdict2.status.reason = "ReconciliationSucceeded"
      /\ verdict2.status.adopted = valid2.status.adopted
      /\ verdict2.status.adoptedObserved = valid2.status.adoptedObserved
  BY <1>1, <1>2, VerdictFields DEF verdict2
<1>6. /\ valid2.spec = verdict.spec /\ valid2.rev = verdict.rev
      /\ valid2.status.adopted = valid.status.adopted
      /\ valid2.status.adoptedObserved = verdict.rev
  BY <1>1, <1>2, <1>3, VerdictFields DEF valid2, valid
<1>7. valid.status.adoptedObserved = valid.rev
  BY <1>2, VerdictFields DEF valid
<1>8. verdict2.status = verdict.status
  <2>1. /\ verdict2.status.phase = verdict.status.phase
        /\ verdict2.status.observed = verdict.status.observed
        /\ verdict2.status.reason = verdict.status.reason
        /\ verdict2.status.adopted = verdict.status.adopted
        /\ verdict2.status.adoptedObserved = verdict.status.adoptedObserved
    BY <1>4, <1>5, <1>6, <1>7
  <2>2. ASSUME NEW o \in ClusterIdentity
        PROVE  o.status =
                [phase |-> o.status.phase, reason |-> o.status.reason,
                 observed |-> o.status.observed, adopted |-> o.status.adopted,
                 adoptedObserved |-> o.status.adoptedObserved]
    BY DEF ClusterIdentity, IdentityStatus
  <2>3. /\ verdict.status =
            [phase |-> verdict.status.phase, reason |-> verdict.status.reason,
             observed |-> verdict.status.observed,
             adopted |-> verdict.status.adopted,
             adoptedObserved |-> verdict.status.adoptedObserved]
        /\ verdict2.status =
            [phase |-> verdict2.status.phase, reason |-> verdict2.status.reason,
             observed |-> verdict2.status.observed,
             adopted |-> verdict2.status.adopted,
             adoptedObserved |-> verdict2.status.adoptedObserved]
    BY <1>1, <2>2
  <2> QED
    BY <2>1, <2>3
<1>9. verdict2 = verdict
  BY <1>1, <1>4, <1>5, <1>6, <1>8 DEF ClusterIdentity
<1> QED
  BY <1>9 DEF Verdict, valid, verdict, valid2, verdict2

\* Its spec is that of the object.
LEMMA VerdictSpec ==
    ASSUME NEW obj \in ClusterIdentity, NEW cfg
    PROVE  Verdict(obj, cfg).spec = obj.spec
BY VerdictType, VerdictFields DEF Verdict

\* No change of a single ClusterIdentity, or of the configuration, is lost.
LEMMA TendedStep ==
    ASSUME NEW n, Names = {n}, WriterInv, Tended(n), [Next]_vars
    PROVE  Tended(n)'
<1> DEFINE w == identityWorker
           look == LookAgain(n)
<1> SUFFICES ASSUME clusterIdentities'[n] # None
             PROVE  (LookAgain(n) \/ OnCourse(n) \/ Served(n))'
  BY DEF Tended
<1>0. IdentityTypeOK /\ n \in Names
  BY DEF WriterInv
<1>1. IdleIdentityWorker.pc = "idle"
  BY DEF IdleIdentityWorker
<1>2. ASSUME NEW m \in Names, CreateIdentity(m) \/ EditIdentity(m)
      PROVE  LookAgain(n)'
  <2>1. m = n /\ clusterIdentities'[n] # seenIdentities[n]
    BY <1>2, WrittenIsNew
  <2>2. UNCHANGED seenIdentities
    BY <1>2 DEF CreateIdentity, EditIdentity, WriteIdentity
  <2> QED
    BY <2>1, <2>2 DEF LookAgain
<1>3. ASSUME NEW m \in Deletable, DeleteIdentity(m) PROVE FALSE
  BY <1>0, <1>3, IdentityInputs DEF DeleteIdentity, IdentityTypeOK
<1>4. ASSUME NEW m \in Names, InformIdentity(m) PROVE LookAgain(n)'
  BY <1>0, <1>4 DEF InformIdentity, LookAgain
<1>5. CASE NotifyOthers \/ UNCHANGED vars
  BY <1>5 DEF NotifyOthers, vars, Tended, LookAgain, OnCourse, Served, Handling
<1>6. CASE ConfigChanges
  BY <1>6 DEF ConfigChanges, LookAgain
<1>7. CASE ConfigEvent
  <2>1. UNCHANGED <<clusterIdentities, seenIdentities, identityWorker, cache,
                    config>>
    BY <1>7 DEF ConfigEvent
  <2>2. CASE seenIdentities[n] = None
    BY <2>1, <2>2 DEF LookAgain
  <2>3. CASE seenIdentities[n] # None
    BY <1>0, <1>7, <2>3 DEF ConfigEvent, mapDNSConfigToClusterIdentities, LookAgain
  <2> QED
    BY <2>2, <2>3
<1>8. ASSUME NEW m \in Names, StartIdentity(m)
      PROVE  LookAgain(n)' \/ OnCourse(n)'
  <2>1. /\ m = n
        /\ UNCHANGED <<clusterIdentities, seenIdentities, config>>
        /\ identityWorker'.key = n
        /\ identityWorker'.read = seenIdentities[n]
        /\ identityWorker'.pc = IF seenIdentities[n] = None THEN "clear"
                                ELSE "singleton"
    BY <1>8 DEF StartIdentity
  <2>2. CASE seenIdentities[n] = None
    BY <2>1, <2>2 DEF LookAgain
  <2>3. CASE seenIdentities[n] # None
    BY <2>1, <2>3 DEF OnCourse, Handling
  <2> QED
    BY <2>2, <2>3
<1>9. CASE ClearCache
  <2>1. /\ UNCHANGED <<clusterIdentities, seenIdentities, identityQueue, config,
                       configOwed>>
        /\ cache' = None
        /\ ~Handling(n) /\ ~Handling(n)'
    BY <1>1, <1>9 DEF ClearCache, Handling
  <2> QED
    BY <2>1 DEF Tended, LookAgain, OnCourse, Served
<1>10. CASE CheckSingleton \/ CheckAdoptedRegions \/ SetCache
  <2>1. /\ UNCHANGED <<clusterIdentities, seenIdentities, identityQueue, config,
                       configOwed>>
        /\ w.pc \in {"singleton", "adopted", "set"}
        /\ w.key = n
        /\ identityWorker'.key = w.key
        /\ identityWorker'.read = w.read
        /\ identityWorker'.pc \in {"adopted", "set", "update"}
    BY <1>0, <1>10, WorkerStep DEF CheckSingleton, CheckAdoptedRegions, SetCache
  <2>2. Handling(n) /\ Handling(n)'
    BY <2>1 DEF Handling
  <2>3. CASE LookAgain(n)
    BY <2>1, <2>3 DEF LookAgain
  <2>4. CASE OnCourse(n)
    <3>1. CASE CheckSingleton
      <4>1. identityWorker'.pc = "adopted"
        BY <1>0, <3>1, WorkerStep DEF validateSingleton
      <4> QED
        BY <2>1, <2>2, <2>4, <4>1 DEF OnCourse
    <3>2. CASE CheckAdoptedRegions
      <4>1. w.obj = w.read
        BY <3>2 DEF CheckAdoptedRegions, WriterInv, WorkerIsSound
      <4>2. /\ identityWorker'.pc = "set"
            /\ identityWorker'.obj = validateAdoptedRegions(w.obj, config)
        BY <1>0, <3>2, WorkerStep
      <4> QED
        BY <2>1, <2>2, <2>4, <4>1, <4>2 DEF OnCourse
    <3>3. CASE SetCache
      <4>1. /\ w.pc = "set"
            /\ cache' = w.obj.spec
            /\ w.obj.spec = w.read.spec
        BY <3>3 DEF SetCache, WriterInv, WorkerIsSound
      <4>2. w.obj = validateAdoptedRegions(w.read, config)
        BY <2>4, <4>1 DEF OnCourse
      <4>3. /\ identityWorker'.pc = "update"
            /\ identityWorker'.obj = updateStatusActive(w.obj)
        BY <1>0, <3>3, WorkerStep
      <4> QED
        BY <2>1, <2>2, <2>4, <4>1, <4>2, <4>3 DEF OnCourse, Verdict
    <3> QED
      BY <1>10, <3>1, <3>2, <3>3
  <2> QED
    BY <2>1, <2>2, <2>3, <2>4 DEF Tended, Served
<1>11. CASE UpdateIdentityStatus
  <2>1. /\ UNCHANGED <<seenIdentities, identityQueue, cache, config, configOwed>>
        /\ w.pc = "update" /\ w.key = n
        /\ Handling(n) /\ ~Handling(n)'
        /\ w.read = clusterIdentities[n]
        /\ clusterIdentities[n] \in ClusterIdentity
        /\ seenIdentities[n] = clusterIdentities[n]
        /\ clusterIdentities'[n] = w.obj
    BY <1>1, <1>11, AcceptedUpdate DEF UpdateIdentityStatus, Handling
  <2>2. CASE n \in identityQueue \/ configOwed
    BY <2>1, <2>2 DEF LookAgain
  <2>3. CASE OnCourse(n)
    <3>1. w.obj = Verdict(w.read, config) /\ cache = w.read.spec
      BY <2>1, <2>3 DEF OnCourse
    <3>2. Verdict(w.obj, config) = w.obj /\ w.obj.spec = w.read.spec
      BY <2>1, <3>1, VerdictTwice, VerdictSpec
    <3> QED
      BY <2>1, <3>1, <3>2 DEF Served
  <2> QED
    BY <2>1, <2>2, <2>3, NoneIsNoIdentity DEF Tended, LookAgain, Served
<1>12. CASE IdentityConflict \/ IdentityError
  BY <1>0, <1>12, WorkerStep, <1>1 DEF IdentityConflict, IdentityError,
     RequeueIdentity, LookAgain
<1>13. CASE Restart
  BY <1>0, <1>13 DEF Restart, LookAgain
<1> QED
  BY <1>2, <1>3, <1>4, <1>5, <1>6, <1>7, <1>8, <1>9, <1>10, <1>11, <1>12, <1>13
     DEF Next, UserNext, IdentityReconcileNext

\* What a single ClusterIdentity that is tended comes to.
LEMMA TendedIsServed ==
    ASSUME WriterInv, IdentityQuiescent, NEW n \in Names, Names = {n}, Tended(n),
           clusterIdentities[n] # None
    PROVE  /\ Fetched = {clusterIdentities[n].spec}
           /\ clusterIdentities[n] = Verdict(clusterIdentities[n], config)
<1>1. Served(n)
  BY DEF Tended, LookAgain, OnCourse, Handling, IdentityQuiescent,
     IdleIdentityWorker
<1>2. CASE cache = None
  <2>1. {seenIdentities[m] : m \in Names} \ {None} = {clusterIdentities[n]}
    BY DEF IdentityQuiescent
  <2> QED
    BY <1>1, <1>2, <2>1 DEF Fetched, Fetch, Served
<1>3. CASE cache # None
  BY <1>1, <1>3 DEF Served, Fetched, Fetch
<1> QED
  BY <1>1, <1>2, <1>3 DEF Served

\* At rest what Fetch returns and the status of a single ClusterIdentity are
\* those of its spec and of the DNS configuration, also when it is deleted
\* and created again.
THEOREM OneIsServed == Spec => []AloneIsCurrent
<1> DEFINE tended == \A n \in Names: Names = {n} => Tended(n)
<1>1. Init => tended
  BY DEF Init, Tended
<1>2. WriterInv /\ tended /\ [Next]_vars => tended'
  BY TendedStep
<1>3. WriterInv /\ tended => AloneIsCurrent
  BY TendedIsServed DEF AloneIsCurrent, Verdict
<1> QED
  BY <1>1, <1>2, <1>3, WriterInvariant, PTL DEF Spec

-----------------------------------------------------------------------------
(***************************************************************************)
(* What the others are told.                                               *)
(***************************************************************************)
\* Fetch answers with specs that users wrote, or with none.
LEMMA FetchType ==
    IdentityTypeOK => Fetched \in ((SUBSET Identities) \ {{}}) \cup {{None}}
<1> SUFFICES ASSUME IdentityTypeOK
             PROVE  Fetched \in ((SUBSET Identities) \ {{}}) \cup {{None}}
  OBVIOUS
<1> DEFINE there == {seenIdentities[n] : n \in Names} \ {None}
<1>1. CASE cache # None
  BY <1>1 DEF IdentityTypeOK, Fetched, Fetch
<1>2. CASE cache = None /\ there = {}
  BY <1>2 DEF Fetched, Fetch
<1>3. CASE cache = None /\ there # {}
  <2>1. there \subseteq ClusterIdentity
    BY DEF IdentityTypeOK
  <2>2. Fetched = {obj.spec : obj \in there}
    BY <1>3 DEF Fetched, Fetch
  <2>3. \A obj \in there: obj.spec \in Identities
    BY <2>1 DEF ClusterIdentity
  <2>4. Fetched # {}
    BY <1>3, <2>2
  <2> QED
    BY <2>2, <2>3, <2>4
<1> QED
  BY <1>1, <1>2, <1>3

\* There is one ClusterIdentity, and nobody deletes it.
OneIsKept == Deletable = {} /\ \E n \in Names: Names = {n}

\* Its status is that of its spec.
Reported(n) ==
    /\ clusterIdentities[n] # None
    /\ clusterIdentities[n].status.observed = clusterIdentities[n].rev

\* Then everybody has its spec already, and the worker may only write the
\* same again: nothing that Fetch returns will change.
Known(n) ==
    LET spec == clusterIdentities[n].spec IN
    /\ seenIdentities[n] # None /\ seenIdentities[n].spec = spec
    /\ cache \in {None, spec}
    /\ Handling(n) => identityWorker.read.spec = spec

KeptInv(n) ==
    /\ n \in identityQueue \/ Handling(n) => seenIdentities[n] # None
    /\ seenIdentities[n] # None => clusterIdentities[n] # None
    /\ identityWorker.pc # "clear"
    /\ identityWorker.pc = "update" => cache = identityWorker.obj.spec
    /\ Reported(n) => Known(n)
    /\ identityOwed => \/ ~notified
                       \/ seenIdentities[n] # clusterIdentities[n]
                       \/ clusterIdentities[n] # None /\ ~Reported(n)

\* Every change of what Fetch returns is followed by an event, that of the
\* ClusterIdentity or that of its status: KeptInv is inductive.
LEMMA KeptStep ==
    ASSUME NEW n, Names = {n}, Deletable = {},
           WriterInv, KeptInv(n), [Next]_vars
    PROVE  KeptInv(n)'
<1> DEFINE w == identityWorker
<1>0. IdentityTypeOK /\ n \in Names
  BY DEF WriterInv
<1>1. IdleIdentityWorker.pc = "idle"
  BY DEF IdleIdentityWorker
<1>2. ASSUME NEW m \in Names, CreateIdentity(m) \/ EditIdentity(m)
      PROVE  KeptInv(n)'
  <2>1. /\ clusterIdentities'[n] # None
        /\ clusterIdentities'[n].status.observed # clusterIdentities'[n].rev
    BY <1>2, WrittenIsNew
  <2>2. UNCHANGED <<seenIdentities, identityQueue, identityWorker, cache>>
    BY <1>2 DEF CreateIdentity, EditIdentity, WriteIdentity
  <2> QED
    BY <2>1, <2>2 DEF KeptInv, Reported, Handling
<1>3. ASSUME NEW m \in Names, InformIdentity(m) PROVE KeptInv(n)'
  <2>1. /\ UNCHANGED <<clusterIdentities, identityWorker, cache>>
        /\ seenIdentities'[n] = clusterIdentities[n]
        /\ seenIdentities[n] # clusterIdentities[n]
        /\ ~notified'
    BY <1>0, <1>3 DEF InformIdentity, IdentityTypeOK
  <2>2. clusterIdentities[n] # None
    BY <2>1 DEF KeptInv
  <2> QED
    BY <2>1, <2>2 DEF KeptInv, Reported, Known, Handling
<1>4. CASE NotifyOthers
  BY <1>4 DEF NotifyOthers, KeptInv, Reported, Known, Handling
<1>5. CASE ConfigChanges \/ UNCHANGED vars
  BY <1>5 DEF ConfigChanges, vars, KeptInv, Reported, Known, Handling
<1>6. CASE ConfigEvent
  <2>1. /\ UNCHANGED <<clusterIdentities, seenIdentities, identityWorker, cache,
                       notified, identityOwed>>
        /\ n \in identityQueue' => n \in identityQueue \/ seenIdentities[n] # None
    BY <1>6 DEF ConfigEvent, mapDNSConfigToClusterIdentities
  <2> QED
    BY <2>1 DEF KeptInv, Reported, Known, Handling
<1>7. ASSUME NEW m \in Names, StartIdentity(m) PROVE KeptInv(n)'
  <2>1. /\ m = n /\ n \in identityQueue
        /\ identityQueue' = identityQueue \ {n}
        /\ UNCHANGED <<clusterIdentities, seenIdentities, cache, notified,
                       identityOwed>>
        /\ identityWorker'.key = n
        /\ identityWorker'.read = seenIdentities[n]
        /\ identityWorker'.pc = IF seenIdentities[n] = None THEN "clear"
                                ELSE "singleton"
    BY <1>7 DEF StartIdentity
  <2>2. seenIdentities[n] # None
    BY <2>1 DEF KeptInv
  <2> QED
    BY <2>1, <2>2 DEF KeptInv, Reported, Known, Handling
<1>8. CASE ClearCache
  BY <1>8 DEF ClearCache, KeptInv
<1>9. CASE CheckSingleton \/ CheckAdoptedRegions
  <2>1. /\ UNCHANGED <<clusterIdentities, seenIdentities, identityQueue, cache,
                       notified, identityOwed>>
        /\ w.pc \in {"singleton", "adopted"}
        /\ identityWorker'.key = w.key
        /\ identityWorker'.read = w.read
    BY <1>0, <1>9, WorkerStep DEF CheckSingleton, CheckAdoptedRegions
  <2>2. identityWorker'.pc \in {"adopted", "set"}
    BY <1>0, <1>9, WorkerStep DEF validateSingleton
  <2> QED
    BY <2>1, <2>2 DEF KeptInv, Reported, Known, Handling
<1>10. CASE SetCache
  <2>1. /\ UNCHANGED <<clusterIdentities, seenIdentities, identityQueue, notified>>
        /\ w.pc = "set"
        /\ cache' = w.obj.spec
        /\ Owes
    BY <1>10 DEF SetCache
  <2>2. /\ w.key = n
        /\ w.read \in ClusterIdentity /\ w.obj \in ClusterIdentity
        /\ identityWorker'.key = w.key
        /\ identityWorker'.read = w.read
        /\ identityWorker'.pc = "update"
        /\ identityWorker'.obj = updateStatusActive(w.obj)
    BY <1>0, <1>10, <2>1, WorkerStep
  <2>3. w.obj.spec = w.read.spec
    BY <2>1 DEF WriterInv, WorkerIsSound
  <2>4. cache' = identityWorker'.obj.spec
    BY <2>1, <2>2, VerdictFields
  <2>5. /\ Handling(n) /\ Handling(n)'
        /\ seenIdentities[n] # None /\ clusterIdentities[n] # None
    BY <2>1, <2>2 DEF KeptInv, Handling
  <2>6. ASSUME Reported(n) PROVE Known(n)' /\ Fetched' = Fetched
    <3> DEFINE spec == clusterIdentities[n].spec
    <3>1. /\ seenIdentities[n].spec = spec /\ cache \in {None, spec}
          /\ w.read.spec = spec
      BY <2>5, <2>6 DEF KeptInv, Known
    <3>2. spec # None
      BY <1>0, <2>5, IdentityInputs DEF IdentityTypeOK, ClusterIdentity
    <3>3. cache' = spec
      BY <2>1, <2>3, <3>1
    <3>4. Fetched' = {spec}
      BY <3>2, <3>3 DEF Fetched, Fetch
    <3>5. CASE cache = None
      <4>1. {seenIdentities[m] : m \in Names} \ {None} = {seenIdentities[n]}
        BY <2>5
      <4>2. Fetched = {seenIdentities[n].spec}
        BY <3>5, <4>1 DEF Fetched, Fetch
      <4> QED
        BY <2>1, <2>2, <2>5, <3>1, <3>3, <3>4, <4>2 DEF Known
    <3>6. CASE cache = spec
      <4>1. Fetched = {spec}
        BY <3>2, <3>6 DEF Fetched, Fetch
      <4> QED
        BY <2>1, <2>2, <2>5, <3>1, <3>3, <3>4, <4>1 DEF Known
    <3> QED
      BY <3>1, <3>5, <3>6
  <2>7. Reported(n)' <=> Reported(n)
    BY <2>1 DEF Reported
  <2>8. /\ Reported(n)' => Known(n)'
        /\ identityOwed' => \/ ~notified'
                            \/ seenIdentities'[n] # clusterIdentities'[n]
                            \/ clusterIdentities'[n] # None /\ ~Reported(n)'
    BY <2>1, <2>5, <2>6, <2>7 DEF KeptInv, Owes
  <2> QED
    BY <2>1, <2>2, <2>4, <2>5, <2>8 DEF KeptInv
<1>11. CASE UpdateIdentityStatus
  <2>1. /\ UNCHANGED <<seenIdentities, identityQueue, cache, notified,
                       identityOwed>>
        /\ w.pc = "update" /\ w.key = n
        /\ Handling(n)
        /\ w.obj \in ClusterIdentity /\ w.obj.spec = clusterIdentities[n].spec
        /\ w.obj.rev = clusterIdentities[n].rev
        /\ w.obj.status.observed = clusterIdentities[n].rev
        /\ seenIdentities[n] = clusterIdentities[n]
        /\ clusterIdentities'[n] = w.obj
        /\ identityWorker' = IdleIdentityWorker
    BY <1>11, AcceptedUpdate DEF UpdateIdentityStatus
  <2>2. ~Handling(n)' /\ identityWorker'.pc = "idle"
    BY <1>1, <2>1 DEF Handling
  <2>3. w.obj # None
    BY <2>1, NoneIsNoIdentity
  <2>4. Reported(n)' /\ Known(n)'
    BY <2>1, <2>2, <2>3 DEF Reported, Known, KeptInv
  <2>5. ASSUME identityOwed', notified'
        PROVE  seenIdentities'[n] # clusterIdentities'[n]
    BY <2>1, <2>5 DEF KeptInv, Reported
  <2> QED
    BY <2>1, <2>2, <2>3, <2>4, <2>5 DEF KeptInv
<1>12. CASE IdentityConflict \/ IdentityError
  <2>1. /\ UNCHANGED <<clusterIdentities, seenIdentities, cache, notified,
                       identityOwed>>
        /\ w.pc = "update"
        /\ identityQueue' = identityQueue \cup {w.key}
        /\ identityWorker'.pc = "idle"
        /\ ~Handling(n)'
    BY <1>1, <1>12 DEF IdentityConflict, IdentityError, RequeueIdentity, Handling
  <2>2. w.key = n /\ Handling(n)
    BY <1>0, <2>1, WorkerStep DEF Handling
  <2> QED
    BY <2>1, <2>2 DEF KeptInv, Reported, Known
<1>13. CASE Restart
  <2>1. /\ UNCHANGED clusterIdentities
        /\ seenIdentities' = clusterIdentities
        /\ identityQueue' = {m \in Names : clusterIdentities[m] # None}
        /\ cache' = None
        /\ ~identityOwed'
        /\ ~Handling(n)' /\ identityWorker'.pc = "idle"
    BY <1>1, <1>13 DEF Restart, Handling
  <2> QED
    BY <2>1 DEF KeptInv, Reported, Known
<1> QED
  BY <1>2, <1>3, <1>4, <1>5, <1>6, <1>7, <1>8, <1>9, <1>10, <1>11, <1>12, <1>13
     DEF Next, UserNext, IdentityReconcileNext

\* The inductive invariant of one ClusterIdentity that is never deleted.
AloneInv ==
    /\ WriterInv
    /\ ForgetInv
    /\ \A n \in Names: Tended(n) /\ KeptInv(n)

LEMMA AloneInit == Init => AloneInv
<1> SUFFICES ASSUME Init, NEW n \in Names PROVE Tended(n) /\ KeptInv(n)
  BY WriterInit, ForgetInit DEF AloneInv
<1>1. /\ identityWorker.pc = "idle" /\ ~identityOwed
      /\ identityQueue = {}
      /\ clusterIdentities[n] = None /\ seenIdentities[n] = None
  BY DEF Init, IdleIdentityWorker
<1> QED
  BY <1>1 DEF Tended, KeptInv, Reported, Handling

LEMMA AloneStep == OneIsKept /\ AloneInv /\ [Next]_vars => AloneInv'
<1> SUFFICES ASSUME OneIsKept, AloneInv, [Next]_vars PROVE AloneInv'
  OBVIOUS
<1>1. WriterInv' /\ ForgetInv'
  BY WriterStep, ForgetStep DEF AloneInv
<1>2. ASSUME NEW n \in Names PROVE Tended(n)' /\ KeptInv(n)'
  <2>1. Names = {n} /\ Deletable = {}
    BY DEF OneIsKept
  <2>2. WriterInv /\ Tended(n) /\ KeptInv(n)
    BY DEF AloneInv
  <2> QED
    BY <2>1, <2>2, TendedStep, KeptStep
<1> QED
  BY <1>1, <1>2 DEF AloneInv

\* At rest the others have been told.
LEMMA AloneIsTold == OneIsKept /\ AloneInv => OthersAreTold
<1> SUFFICES ASSUME OneIsKept, AloneInv, IdentityQuiescent, identityOwed
             PROVE  FALSE
  BY DEF OthersAreTold
<1>1. PICK n \in Names: Names = {n}
  BY DEF OneIsKept
<1>2. /\ WriterInv /\ Tended(n)
      /\ clusterIdentities[n] # None /\ ~Reported(n)
  BY <1>1 DEF AloneInv, KeptInv, IdentityQuiescent
<1>3. clusterIdentities[n] = Verdict(clusterIdentities[n], config)
  BY <1>1, <1>2, TendedIsServed
<1>4. clusterIdentities[n] \in ClusterIdentity
  BY <1>2 DEF WriterInv, IdentityTypeOK
<1>5. Verdict(clusterIdentities[n], config).status.observed
        = clusterIdentities[n].rev
  BY <1>4, VerdictType, VerdictFields DEF Verdict
<1> QED
  BY <1>2, <1>3, <1>5 DEF Reported

\* At rest Fetch returns its spec, or nothing if it was never created.
LEMMA AloneIsFetched ==
    ASSUME AloneInv, IdentityQuiescent, NEW n, Names = {n}
    PROVE  Fetched = {IF clusterIdentities[n] = None THEN None
                      ELSE clusterIdentities[n].spec}
<1>1. WriterInv /\ Tended(n) /\ n \in Names
  BY DEF AloneInv
<1>2. CASE clusterIdentities[n] = None
  BY <1>2, ForgetIsForgotten DEF AloneInv, DeletedIsForgotten
<1>3. CASE clusterIdentities[n] # None
  BY <1>1, <1>3, TendedIsServed
<1> QED
  BY <1>2, <1>3

\* Of one ClusterIdentity that is never deleted the others always learn, by
\* an event that comes after the change.  (With deletions OthersAreTold does
\* not hold, as a run shows.)
THEOREM OneIsAnnounced == ASSUME OneIsKept PROVE Spec => []OthersAreTold
BY AloneInit, AloneStep, AloneIsTold, PTL DEF Spec

=============================================================================
