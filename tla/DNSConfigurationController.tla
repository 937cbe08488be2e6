---------------------- MODULE DNSConfigurationController ----------------------
(***************************************************************************)
(* The DNSConfiguration controller (internal/controller/cluster/           *)
(* dnsconfiguration_controller.go) and the cache it fills for the others   *)
(* (internal/dnsconfiguration).                                            *)
(*                                                                         *)
(* It is made like the ClusterIdentity controller, with one difference:    *)
(* the schema admits what validateSpec refuses, and the list that Fetch    *)
(* falls back to when the cache is empty has the refused specs too.        *)
(***************************************************************************)
EXTENDS Naturals

CONSTANTS
    Names,              \* names of DNSConfigurations
    Specs,              \* specs that users write
    Refused,            \* those of them with a nameless controller or region
    None,
    MaxConfigEdits      \* bound: specs written in one behaviour

ASSUME ConfigInputs ==
    /\ Refused \subseteq Specs
    /\ None \notin Specs
    /\ MaxConfigEdits \in Nat

VARIABLES
    configurations,     \* the API server: each DNSConfiguration, or None
    seenConfigurations, \* the informer's store of them
    configQueue,        \* the controller's workqueue
    configWorker,       \* what its worker holds
    cache,              \* package dnsconfiguration's cache, None when empty
    notified,           \* no event of the informer is on its way to the others
    configOwed,         \* history: Fetch changed and the others had no event since
    lone,               \* history: none was deleted and never were there two
    configEdits         \* specs written so far

apiVars == <<configurations, lone, configEdits>>
othersVars == <<notified, configOwed>>
vars == <<apiVars, seenConfigurations, configQueue, configWorker, cache,
          othersVars>>

-----------------------------------------------------------------------------
\* The condition Ready by its reason, and its observed generation; "rev" is
\* the UID and the generation in one.
ConfigStatus ==
    [ready: {"", "ReconciliationSucceeded", "SingletonViolation", "InvalidSpec"},
     observed: 0..MaxConfigEdits]

DNSConfiguration == [spec: Specs, rev: 1..MaxConfigEdits, status: ConfigStatus]

ASSUME NoneIsNoConfiguration == None \notin DNSConfiguration

Listed == {n \in Names : seenConfigurations[n] # None}

\* What Fetch can return: one of several when they are listed in no order.
Fetched ==
    IF cache # None THEN {cache}
    ELSE IF Listed = {} THEN {None}
    ELSE {seenConfigurations[n].spec : n \in Listed}

validateSingleton == \A m, n \in Listed: m = n

validateNothing(obj) == TRUE    \* mutant: the spec is not validated

validateSpec(obj) == obj.spec \notin Refused

withStatus(obj, reason) ==
    [obj EXCEPT !.status = [ready |-> reason, observed |-> obj.rev]]

\* updateStatusReady comes after Set, updateStatusFailed instead of it.
IdleConfigWorker == [pc |-> "idle", key |-> None, read |-> None, obj |-> None]

ConfigWorker ==
    {IdleConfigWorker} \cup
    [pc: {"clear", "validate", "set", "update"}, key: Names,
     read: DNSConfiguration \cup {None}, obj: DNSConfiguration \cup {None}]

ConfigTypeOK ==
    /\ configurations \in [Names -> DNSConfiguration \cup {None}]
    /\ seenConfigurations \in [Names -> DNSConfiguration \cup {None}]
    /\ configQueue \subseteq Names
    /\ configWorker \in ConfigWorker
    /\ configWorker.pc \in {"validate", "set", "update"}
        => None \notin {configWorker.read, configWorker.obj}
    /\ cache \in (Specs \ Refused) \cup {None}
    /\ {notified, configOwed, lone} \subseteq BOOLEAN
    /\ configEdits \in 0..MaxConfigEdits

Init ==
    /\ configurations = [n \in Names |-> None]
    /\ seenConfigurations = configurations
    /\ configQueue = {}
    /\ configWorker = IdleConfigWorker
    /\ cache = None
    /\ notified = TRUE
    /\ configOwed = FALSE
    /\ lone = TRUE
    /\ configEdits = 0

-----------------------------------------------------------------------------
(***************************************************************************)
(* Users, the informer, and those that watch DNSConfigurations too.        *)
(***************************************************************************)
WriteConfiguration(n, written) ==
    /\ configurations' = [configurations EXCEPT ![n] = written]
    /\ lone' = (lone /\ written # None
                     /\ \A m \in Names \ {n}: configurations[m] = None)
    /\ UNCHANGED <<seenConfigurations, configQueue, configWorker, cache,
                   othersVars>>

CreateOrEditConfiguration(n) ==
    /\ configEdits < MaxConfigEdits
    /\ configEdits' = configEdits + 1
    /\ \E spec \in Specs:
        WriteConfiguration(n,
            IF configurations[n] = None
            THEN [spec |-> spec, rev |-> configEdits',
                  status |-> [ready |-> "", observed |-> 0]]
            ELSE [configurations[n] EXCEPT !.spec = spec, !.rev = configEdits'])

DeleteConfiguration(n) ==
    /\ configurations[n] # None
    /\ WriteConfiguration(n, None)
    /\ UNCHANGED configEdits

\* For a step that may change what Fetch returns.
Owes == configOwed' = (configOwed \/ Fetched' # Fetched)

InformConfiguration(n) ==
    /\ seenConfigurations[n] # configurations[n]
    /\ seenConfigurations' = [seenConfigurations EXCEPT ![n] = configurations[n]]
    /\ configQueue' = configQueue \cup {n}
    /\ notified' = FALSE
    /\ UNCHANGED <<apiVars, configWorker, cache>>
    /\ Owes

NotifyOthers ==
    /\ ~notified
    /\ notified' = TRUE
    /\ configOwed' = FALSE
    /\ UNCHANGED <<apiVars, seenConfigurations, configQueue, configWorker, cache>>

-----------------------------------------------------------------------------
(***************************************************************************)
(* Reconcile.                                                              *)
(***************************************************************************)
StartConfig(n) ==
    /\ configWorker.pc = "idle"
    /\ n \in configQueue
    /\ configQueue' = configQueue \ {n}
    /\ configWorker' =
        [pc |-> IF n \in Listed THEN "validate" ELSE "clear", key |-> n,
         read |-> seenConfigurations[n], obj |-> seenConfigurations[n]]
    /\ UNCHANGED <<apiVars, seenConfigurations, cache, othersVars>>

KeepCache ==                 \* mutant: NotFound does not clear the cache
    /\ configWorker.pc = "clear"
    /\ configWorker' = IdleConfigWorker
    /\ UNCHANGED <<apiVars, seenConfigurations, configQueue, cache, othersVars>>

\* The object is gone: dnsconfiguration.Clear.
ClearCache ==
    /\ configWorker.pc = "clear"
    /\ cache' = None
    /\ configWorker' = IdleConfigWorker
    /\ UNCHANGED <<apiVars, seenConfigurations, configQueue, notified>>
    /\ Owes

Validate ==
    LET w == configWorker
        refuse(reason) == [w EXCEPT !.pc = "update", !.obj = withStatus(@, reason)]
    IN
    /\ w.pc = "validate"
    /\ configWorker' =
        IF ~validateSingleton THEN refuse("SingletonViolation")
        ELSE IF ~validateSpec(w.obj) THEN refuse("InvalidSpec")
        ELSE [w EXCEPT !.pc = "set"]
    /\ UNCHANGED <<apiVars, seenConfigurations, configQueue, cache, othersVars>>

SetOnce ==                   \* mutant: a cache that is filled is left alone
    /\ configWorker.pc = "set"
    /\ cache' = IF cache = None THEN configWorker.obj.spec ELSE cache
    /\ configWorker' = [configWorker EXCEPT
            !.pc = "update", !.obj = withStatus(@, "ReconciliationSucceeded")]
    /\ UNCHANGED <<apiVars, seenConfigurations, configQueue, notified>>
    /\ Owes

\* dnsconfiguration.Set.
SetCache ==
    /\ configWorker.pc = "set"
    /\ cache' = configWorker.obj.spec
    /\ configWorker' = [configWorker EXCEPT
            !.pc = "update", !.obj = withStatus(@, "ReconciliationSucceeded")]
    /\ UNCHANGED <<apiVars, seenConfigurations, configQueue, notified>>
    /\ Owes

UpdateConfigBlindly ==       \* mutant: without the resource version
    LET w == configWorker IN
    /\ w.pc = "update"
    /\ configurations[w.key] # None
    /\ configurations' = [configurations EXCEPT ![w.key].status = w.obj.status]
    /\ configWorker' = IdleConfigWorker
    /\ UNCHANGED <<lone, configEdits, seenConfigurations, configQueue, cache,
                   othersVars>>

\* Status().Update succeeds if the object read is still the stored one.
UpdateConfigStatus ==
    LET w == configWorker IN
    /\ w.pc = "update"
    /\ configurations[w.key] = w.read
    /\ configurations' = [configurations EXCEPT ![w.key] = w.obj]
    /\ configWorker' = IdleConfigWorker
    /\ UNCHANGED <<lone, configEdits, seenConfigurations, configQueue, cache,
                   othersVars>>

\* A conflict asks for a requeue and any other error returns it.
UpdateFails ==
    /\ configWorker.pc = "update"
    /\ configQueue' = configQueue \cup {configWorker.key}
    /\ configWorker' = IdleConfigWorker
    /\ UNCHANGED <<apiVars, seenConfigurations, cache, othersVars>>

\* The process dies, with its cache, and the others with it.
Restart ==
    /\ configWorker' = IdleConfigWorker
    /\ seenConfigurations' = configurations
    /\ configQueue' = {n \in Names : configurations[n] # None}
    /\ cache' = None
    /\ notified' = (configQueue' = {})
    /\ configOwed' = FALSE
    /\ UNCHANGED apiVars

-----------------------------------------------------------------------------
Next ==
    \/ \E n \in Names:
        \/ CreateOrEditConfiguration(n)
        \/ DeleteConfiguration(n)
        \/ InformConfiguration(n)
        \/ StartConfig(n)
    \/ NotifyOthers
    \/ ClearCache
    \/ Validate
    \/ SetCache
    \/ UpdateConfigStatus
    \/ UpdateFails
    \/ Restart

Spec == Init /\ [][Next]_vars

-----------------------------------------------------------------------------
(***************************************************************************)
(* Properties.                                                             *)
(***************************************************************************)
ConfigQuiescent ==
    /\ configQueue = {}
    /\ configWorker = IdleConfigWorker
    /\ seenConfigurations = configurations
    /\ notified

Ready(n) ==
    /\ configurations[n] # None
    /\ configurations[n].status =
        [ready |-> "ReconciliationSucceeded", observed |-> configurations[n].rev]

Existing == {n \in Names : configurations[n] # None}

\* A single DNSConfiguration that is edited, also to a spec that is refused,
\* while the process restarts: at rest it is Ready exactly if its spec is
\* valid, Fetch then returns its spec, and the others, which are checked with
\* a NotifiedView, have had an event since Fetch last changed.
LoneIsServed ==
    ConfigQuiescent /\ lone =>
        /\ \A n \in Existing:
            /\ Ready(n) <=> configurations[n].spec \notin Refused
            /\ Ready(n) => Fetched = {configurations[n].spec}
        /\ ~configOwed

\* "DNSConfiguration is valid and cached": whatever others came and went
\* before, the only one there is served once it is Ready.
ReadyIsServed ==
    ConfigQuiescent =>
        \A n \in Names:
            Existing = {n} /\ Ready(n) => Fetched = {configurations[n].spec}

\* Of two that come and go at most one stays Ready, and when none is left
\* nothing is served, whatever Set was under way during the deletions.
OneIsReady ==
    ConfigQuiescent =>
        /\ \A m, n \in Names: Ready(m) /\ Ready(n) => m = n
        /\ Existing = {} => Fetched = {None}

\* A status is never written onto a spec it was not computed from.
ConfigStatusOfItsSpec ==
    [][\A n \in Names:
        (/\ None \notin {configurations[n], configurations'[n]}
         /\ configurations'[n].status # configurations[n].status)
        => configurations'[n].status.observed = configurations'[n].rev]_vars
=============================================================================
