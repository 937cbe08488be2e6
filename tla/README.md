# Service Router Operator: specifications and proofs

This directory specifies, in TLA+, the controllers of the service router
operator and what they owe each other, checks them with TLC on small instances,
and proves the central results with TLAPS for every instance. File names below
without a path are in this directory; source paths are relative to the
repository.

## The system

The operator runs in every cluster of a multi-region fleet, as one process with
one worker per controller, over one informer cache
(`cmd/main.go`). Its resources and controllers:

| Part | Source | State it keeps | Operations |
|---|---|---|---|
| ClusterIdentity controller and cache | `internal/controller/cluster/clusteridentity_controller.go`, `internal/clusteridentity` | status of the resource, the process-wide cache | Reconcile: singleton check, adopted regions, `Set`/`Clear`, status; `Fetch` for the others |
| DNSConfiguration controller and cache | `internal/controller/cluster/dnsconfiguration_controller.go`, `internal/dnsconfiguration` | the same | the same, without the adopted regions |
| DNSPolicy controller | `internal/controller/routing/dnspolicy_controller.go` | `status.active`, `status.activeControllers` | Reconcile: fetch both settings, match the cluster, select ExternalDNS controllers |
| ServiceRoute controller | `internal/controller/routing/serviceroute_controller.go` | DNSEndpoints (CNAME), the route's status | Reconcile: read policy, configuration, gateway and identity; create, patch, delete endpoints |
| Gateway controller | `internal/controller/routing/gateway_controller.go` | an Istio Gateway with the hosts of its routes, its status | Reconcile: validate, collect the hosts of the routes, look up the load balancer, create, patch or delete the Istio Gateway |
| IngressDNS controller | `internal/controller/routing/ingressdns_controller.go` | DNSEndpoints (A) | one reconcile for everything: cleanup of orphans, then create or patch for each ingress, postfix and ExternalDNS controller |
| ExternalDNS (external) | deployments in `gitops/` | DNS records and their TXT owners | reads DNSEndpoints whose annotation names its region |

How they interact:

    ClusterIdentity ---> cache --Fetch--+--> DNSPolicy controller --> DNSPolicy.status
    DNSConfiguration --> cache --Fetch--+           |                       |
         |                              |           | watch                 | watch
         +-- watch events --------------+-----------+                       v
                                        +--------------------> ServiceRoute controller
    ServiceRoute, Gateway, own DNSEndpoints --watch-------------->  |
                                                                    v
                                            DNSEndpoints --> ExternalDNS --> DNS records
                                                                    ^
    Gateway, Service, both settings --watch--> IngressDNS controller|
    Gateway, ServiceRoute, Service, own Istio Gateway --watch-----> Gateway controller --> Istio Gateway

Two paths carry a cluster-scoped setting: the cache, by function calls, and the
watch events, by the informer. Nothing orders them. The design rests on *every
change of what `Fetch` returns being followed by an event*; this is the module
`NotifiedView`, and which part of the code keeps it is a question of its own
(`ClusterIdentityController`).

What is hard: a reconcile reads several things one after the other, from stores
that lag behind the API server, and writes several things one after the other;
every one of these can change, fail or be cut off by a restart in between. The
hazards are listed with their lines in `PROJECT.json`.

What makes each part correct:

- *settings*: what `Fetch` returns is the one valid resource, the others are told
  of each change, deletion forgets;
- *DNSPolicy*: at rest the status is the one that spec, identity and configuration
  call for; no wake-up is lost; a status belongs to its spec;
- *ServiceRoute*: at rest the endpoints are those that its inputs call for; an
  inactive policy publishes nothing; nothing is withdrawn because an input is
  missing; what is written for a deleted route does not hit its successor;
- *together*: the records lead to this cluster, in the zones of the selected
  controllers and no others;
- *Gateway*: at rest the Istio Gateway accepts exactly the hosts of the routes that
  name its Gateway, and is not withdrawn because something is missing;
- *IngressDNS*: at rest the A records of the ingresses in use have this cluster's
  name and the load balancer's address, and those no longer in use are gone.

## Modules

| Module | What it is |
|---|---|
| `Selection` | vocabulary and pure decisions: `isPolicyActive`, `determineActiveControllers` per mode |
| `NotifiedView` | what a controller may assume of a cluster-scoped setting |
| `DNSPolicyController` | the DNSPolicy controller |
| `DNSPolicyControllerProofs` | its theorems |
| `ServiceRouteController` | the ServiceRoute controller, its DNSEndpoints, the garbage collector |
| `ServiceRouteControllerProofs` | its theorems |
| `PolicyRouting` | both of them in one process |
| `PolicyRoutingProofs` | its theorems, from those of the two, and one about two clusters |
| `ClusterIdentityController` | the ClusterIdentity controller, its cache, and the refinement of `NotifiedView` |
| `ClusterIdentityControllerProofs` | its theorems |
| `Operator` | the ClusterIdentity controller in one process with the two of `PolicyRouting`: no setting that changes at will but the configuration |
| `OperatorProofs` | its theorems, from those of the three |
| `DNSConfigurationController` | the DNSConfiguration controller and its cache, with specs that are refused |
| `DNSConfigurationControllerProofs` | its theorems |
| `GatewayController` | the Gateway controller, the Istio Gateways, others who edit them, the garbage collector |
| `GatewayControllerProofs` | its theorems |
| `IngressDNSController` | the IngressDNS controller, its DNSEndpoints, the garbage collector |
| `IngressDNSControllerProofs` | its theorems |
| `MC...` | instances for TLC |

### How state and actions correspond to the code

*API server and informer.* Each kind of object is a function from names to an
object or `None` (`policies`, `routes`, `endpoints`, `gateways`,
`clusterIdentities`), and a second one is the informer's store (`seen...`).
`Inform...` brings one entry of the store up to date and runs the event
handlers: the key, or what the map function returns, joins the queue. The store
may skip versions and may catch up in any order of the keys, which is more than a
watch stream does: what holds here holds there. `client.Get` and `client.List`
read the store; `Create`, `Patch`, `Delete` and `Status().Update` act on the API
server. `resourceVersion` is modelled by comparing the whole object: an update
succeeds if the object read is still the one stored. (A spec that is written
takes a new revision `rev`, which stands for UID and generation. A status that
is written back unchanged does not change the version in the API server either.)

*Queue and worker.* A controller has one worker (`MaxConcurrentReconciles` is not
set) and a queue that holds a key once; the queue is a set, and a worker takes
any key. A conflict and an error both put the key back. A reconcile is a record
with a program counter. `policyWorker` has a step for the read of the policy,
each fetch, and the write. `routeWorker` has a step for the read of the route
(`StartRoute`), one for the other reads (`Gather`), one for each call on a
DNSEndpoint (`ApplyCall`) and one for the status. `Gather` merges reads that the
code does one after the other: policy, configuration, gateway, identity and
endpoints are changed by independent parties, no step of this controller lies
between the reads, and no change of one of them is caused by a change of another
that Reconcile could have read half of, within its time, and be told of neither.
The endpoints are changed by this controller and the garbage collector only.

`gatewayWorker` is like `routeWorker`: read of the Gateway, other reads, one call
on the Istio Gateway, status. Routes and Services are read by the Gateway and the
IngressDNS controller from the informer and written by neither, so there the store
itself is the variable (`routeViews`, `serviceViews`, `gatewayViews`) and its change
and the event are one step. `ingressWorker` has a step for every read of Reconcile,
because here they are far apart, with calls in between: the list of Gateways
(`StartGlobal`), of orphans (`ListOrphans`), each deletion, each `Fetch`, the read of
the load balancer for each configuration (`TakeConfig`) and each read and write of a
DNSEndpoint (`SyncEndpoint`). `configWorker` has a step for `Get`, the validation,
`Set` or `Clear`, and the write of the status.

*Garbage collector.* An object whose owner's UID no longer exists is deleted at some
time. Owner references hold the revision at which the owner was created.

*Predicates.* `GenerationChangedPredicate` drops updates that leave the generation
alone. In `GatewayController` the informer's steps enqueue only if the revision of
the spec changed. An update of a Service, be it of its address, its label or its
type, is never heard of, as Services have no generation (`ServiceUpdated`). When a watch
was interrupted and the store is listed anew, a Gateway that was deleted and created
meanwhile comes as an update, which is dropped if the new one has the generation of the
old one (`RelistGateway`); this is why a Gateway has a generation of its own beside
the revision, which no two share.

*Composition.* In `PolicyRouting` and `Operator` an action takes place in the modules of
all controllers it concerns: `IdentityEvent` is the watch event of the
ClusterIdentity reaching both namespaced controllers, `OperatorRestart` the restart of
three. What concerns one leaves the variables of the others alone (`OfPolicies`,
`OfRoutes`, `OfIdentity`, `OfOthers`). In `Operator` the variable `identity` is
tied to the ClusterIdentity controller: after each of its steps it is what `Fetch`
answers (`OfIdentity`), so that the reads of the others find the cache as `Set` left it
and not as the watch event promised it. Nothing else changes it but a restart,
which empties the cache.

*Restart.* `Restart` may happen at any step: queue, worker and caches are lost,
the new process lists everything before a controller starts (the manager waits
for the informers), and the settings may read differently.

*Data.* A host is one value; the name of a DNSEndpoint is the pair of route and
controller (so that two pairs never share a name, as they can in the code); a target is the tuple its format string is filled with; lists of
controllers are sets. Conditions keep their reason and observed generation, not
their message.

## Runs

All bounds are constants of the configurations. `MaxEdits`, `MaxRouteEdits`,
`MaxGatewayEdits`, `MaxIdentityEdits` and `MaxConfigEdits` bound the specs users
write (a further edit repeats what an earlier one started from: the revision before
it is what a stale read has), `MaxServices` the Services created, with as many UIDs;
`MaxDisturbances` bounds everything that is done *to* the controllers, restarts
included, and none of their own steps.

| Run | Bounds | What it shows |
|---|---|---|
| `dnspolicy` | 1 policy of 2 specs, one of each mode, 2 edits, 2 identities, 1 configuration that comes and goes, unbounded changes of settings, restarts and errors | `PolicyTypeOK`, `NoLostWakeUp` (the inductive invariant), `QuiescentCurrent`, `StatusOfItsSpec`, `SelectionStays`, `WritesSubside`, `PoliciesSettle` |
| `serviceroute` | 1 route of 3 specs, 2 gateway namespaces, a policy that is inactive, absent, or selects both controllers or none, 2 identities, 2 configurations, 3 disturbances | `RouteTypeOK`, `RestIsCurrent`, `ActivePublishesWanted`, `InactivePublishesNothing`, `LiveRecordsStay`, `RouteStatusOfItsSpec` |
| `serviceroute_live` | 2 routes that were just created, a policy that turns active and inactive, 1 disturbance, any number of failing calls | `RoutesSettle`: every event reaches every route, and none is starved |
| `operator` | ClusterIdentity, DNSPolicy and ServiceRoute controller, 1 policy of 2 specs, 1 route, 1 ExternalDNS controller, 2 identities, 1 disturbance and 1 failing call or needless event, from a cluster at rest; or a policy that was just created again | `RestPublishesSpecified`, `RestPublishesSelected`, `SpecifiedSettles`; `ImplementsPolicyRouting`: the steps of the three are steps of `PolicyRouting` |
| `identity_alone` | 1 ClusterIdentity, not deleted, 3 edits | `AloneIsCurrent`, `OthersAreTold`, `ImplementsNotifiedView` with its liveness |
| `identity_several` | 2 ClusterIdentities, 3 edits, deletions | `IdentityTypeOK`, `DeletedIsForgotten`, `OneIsActive` |
| `dnsconfiguration` | 2 DNSConfigurations, 2 valid specs and a refused one, 3 edits, unbounded deletions, errors and restarts | `ConfigTypeOK`, `LoneIsServed`, `ReadyIsServed`, `OneIsReady`, `ConfigStatusOfItsSpec` |
| `gateway` | Gateways of one name in 2 namespaces, 1 route that moves between them, 2 ingresses, 2 zones of the identity, 2 edits, 2 disturbances, any number of failing calls | `GatewayTypeOK`, `RestServesRoutes`, `IstioGatewayStays`, `GatewayStatusOfItsSpec`, `GatewaysSettle` |
| `ingress` | 2 Gateways, 1 ingress with 2 postfixes, 2 ExternalDNS controllers, 2 Services one after the other, 2 disturbances, any number of failing calls | `IngressTypeOK`, `RestPublishesIngresses`, `IngressRecordsStay`, `IngressesSettle` |

The instances are small in names and large in steps: two ExternalDNS controllers
in two regions are the least for which the two modes select differently, two
Gateways for which a route can move, two configurations (ingress and postfix) for
which the failure of one can keep the controller from the other. Two
disturbances are the least for which one can come in the middle of the handling
of another; where the run has one, the state it starts from (a policy and routes that
have just been created) has the handling of the first under way. `operator` starts from
a cluster at rest, from which an edit of the ClusterIdentity, of the policy or of the
route and a fault reach all three controllers; its one ExternalDNS controller is
selected or not by the policy and the identity. `ingress` has
either two configurations or two ExternalDNS controllers at a time (`Few`), which are
handled by the same two loops.
One policy is enough for `dnspolicy`, and one route for `serviceroute`, because their
safety properties are proved for any number of them, of edits and of disturbances, and
the same goes for `operator`, `gateway` and the Gateways of `ingress`. The run
`operator` does not check for deadlock: once nothing is owed and no disturbance is
left, the system rests. In the others needless events and failing calls keep it moving.

Every property is paired, in `PROJECT.json`, with a mutant: a plausible bug of
one definition, under which TLC finds the property violated. Their definitions
are marked `\* mutant:` in the modules.

### Disagreements between the code and what it says of itself

| Run | Property violated | What happens |
|---|---|---|
| `serviceroute_region` | `RegionIsCurrent` | an endpoint keeps the annotation of the region its controller was in |
| `identity_deleted` | `OthersAreTold` | the event of a deletion comes before the cache is cleared, and none after it |
| `ingress_recreated` | `EveryIngressIsPublished` | a Service is deleted and created anew: its old DNSEndpoint is patched, keeps the old owner, is garbage collected and not created again; no call fails on the way |

More were met while modelling and have no run:

- `updateStatusPending` and `updateStatusFailed` leave `status.active` as it was
  (`dnspolicy_controller.go:321`): a policy that stops matching the cluster while the
  DNSConfiguration is missing stays active, although `dnspolicy_types.go` says
  that a policy is inactive if it does not match;
- a DNSPolicy that was deleted and created again has a status without a verdict, which
  reads as inactive (`serviceroute_controller.go:102`): until the DNSPolicy controller
  has written it, routes that are looked at have their records withdrawn;
- `updateStatusInactive` does not write the phase, so that of an inactive policy
  stays `Active`, although `dnspolicy_types.go` lists `Inactive` among the phases;
- when an active policy selects no controller, `generateDNSEndpoints` fails before
  anything is deleted (`serviceroute_controller.go:277`): a cluster that is moved
  to a region without controllers publishes in the region it left;
- the ServiceRoute controller does not watch DNSConfigurations: a route that was
  reconciled under one that came and went, without a change of the policy's
  status, is not told;
- with two DNSPolicies in a namespace, of which one is active, a route may never
  rest: it is published under one and withdrawn under the other, and the event of each
  change has it looked at again (`serviceroute_controller.go:251`). The docs expect one
  policy in a namespace, and so does `SpecifiedSettles`;
- `Clear` does not ask whose spec is cached (`clusteridentity_controller.go:66`,
  `dnsconfiguration_controller.go:55`): the deletion of one resource empties the cache
  of the one that is Active, or Ready, and `Fetch` falls back to the list;
- after a restart, and whenever the cache is empty, `Fetch` returns the first spec of
  the list, one that validation has refused included;
- the Gateway controller is not woken up by a ClusterIdentity nor by an update of a
  load balancer (`gateway_controller.go:654`): the hosts keep the old
  domain, and `status.loadBalancerIP` the old address, until something else happens.
  Only a Gateway *without* an address looks again, every 30 seconds. Nor by a Gateway
  that replaces one of the same generation while the watch is interrupted: without an
  Istio Gateway, whose collection would be an event, it stays without a status;
- the name `<route>-<controller>` of a DNSEndpoint (`serviceroute_controller.go:359`) can
  be the same for two routes of a namespace when the parts have hyphens: the second route
  does not find it by its labels, and has its create refused at every retry;
- the IngressDNS controller logs the errors of its calls and returns nil
  (`ingressdns_controller.go:109`), and does not watch DNSEndpoints: what a failed
  call left undone, or what was deleted by others, stays so until the next event;
- it does not compare labels (`ingressdns_controller.go:201`): a controller that is
  listed under another region keeps the endpoint of the old one; and it does not clean
  up after a controller that is no longer listed, nor anything while there is
  no Service with the label `istio`;
- its names `gateway-controller-<controller>-<postfix>-<name>` can be the same for two
  combinations when the parts have hyphens.

Some of these bound what the other runs may be read for. The settings of
`DNSPolicyController`, `ServiceRouteController` and `IngressDNSController` are
`NotifiedView`s: they cover a setting that is created, edited and lost with a
restart, and a deletion whose event comes late, not one whose event comes early.
Three history variables except what the code does not promise: `unread`, the routes
that were not reconciled since the DNSConfiguration changed; `unheard`, the Gateways
not gathered since something they depend on changed without an event; `missed`, the A records that a
failed call, a stale copy or the garbage collector left as they were, until they
are written again. None of them is read by an action.

## Fairness

Weak fairness for what the process or the API server does as long as there is
something to do: an informer delivers, an owed event arrives, a reconcile goes on,
the garbage collector collects. Strong fairness, for each key by itself, for taking
it, because the queue is first in, first out and the worker is busy now and then
in between; and for its API calls to succeed at last, since retries go on with
growing but finite delays and no refusal is permanent. (For the calls of a
controller as a whole this would be too weak: `serviceroute_live` would find one
route whose calls always fail while those of the other succeed.) Where a run has
several keys of no further interest, or where failing calls are counted as
disturbances (`operator`, and the informers in `gateway` and `ingress`), one weak fairness
condition stands for a group of actions, which is less than what the code
guarantees. The IngressDNS controller retries nothing, and its calls are not assumed
to succeed. Nothing is assumed of users,
restarts, changes of settings and errors; liveness properties have the form "if
from some time on only the system acts, then it settles and stays settled".

## Proofs

`DNSPolicyControllerProofs` proves, for all constants that satisfy the
assumptions `UnsetIsNoName`, `PolicyInputs` and `NoneIsNoPolicy` (specs,
identities and configurations are well formed, and `None` is none of them):

- `PolicyTypeCorrect`: the type invariant;
- `NoWakeUpIsLost`: the inductive invariant `NoLostWakeUp`;
- `QuiescentIsCurrent`: at rest every status is current;
- `StatusMatchesSpec`: no status is written onto another spec;
- `SelectionIsKept`: `SelectionStays`. What a policy selects changes only on a verdict
  that had both settings: Pending and Failed leave it alone;
- `StatusWritesSubside`: `WritesSubside`. Between disturbances a status changes at most
  twice: once by a reconcile that has old settings in hand, once to what the new ones call
  for. A conflict may repeat itself until the informer has caught up, and so may a failing
  call, but without a write. The measure (`WritesLeft`) needs no sum over the policies,
  as no step adds to that of any.

That a status is current at rest is not inductive. `NoLostWakeUp` strengthens it
to what holds in the middle of a reconcile:

- `StaleIsPending`: a status that is not current is being worked on or will be
  (its key is queued, the informer has not caught up, or an event is owed);
- `ReadsAreFresh`: what the worker has read is current, or its write will be
  refused, or its key will be taken again. Without this the write at the end
  could leave a stale status with nothing pending;
- `WritableIsSeen`: an object the worker can still write is the informer's, so
  that its write is one the informer has yet to deliver;
- `RevisionsArePast`: a written spec differs from all earlier ones, so that an
  object that looks the same is the same.

The lemma `VerdictIdempotent` (the status computed from an object that has that
status is that status again) closes the argument: a reconcile of its own write
changes nothing. There is one step for each action and below it one for each
part that the action touches.

`ServiceRouteControllerProofs` proves, under `UnsetIsNoName`, `RouteInputs` and
`NoneIsNoObject` (specs, policies' views, identities and configurations are well formed,
and `None` is no object):

- `RouteTypeCorrect`: the type invariant;
- `RouteInvariant`: the inductive invariant `RouteInv`;
- `RoutesRestCurrent`, `InactiveIsSilent`, `ActiveIsPublished`: at rest the DNSEndpoints
  and the status are those that the inputs call for, and what this means for an
  inactive and for an active policy;
- `LiveRecordsAreKept`: a live route's records are withdrawn for two reasons only;
- `StatusIsOfItsSpec`: no status is written onto another spec.

`RouteInv` has two parts. `SoundState` is about the data: the types; that what the
worker holds was planned from what it read (`WorkerIsSound`); that every number in use
is one that was given out (`NumbersArePast`), that an object the worker can still
write is the informer's (`WritableIsSeen`), and that the owner of a DNSEndpoint is no
newer than the route the informer shows (`OwnersAreSeen`). The lemma `RoutePlanIsSound`
says what `Reconcile` can make of any reads at all. `RouteSettled` is about wake-ups, for
each route: it is going to be looked at (`Expected`); or the informer is going to
bring a newer object of it (`Overtaken`); or the worker has it and is `OnCourse`; or
it rests. Being on course is where the two writes of a reconcile, and all that can come
between them, are dealt with: the worker does what *some* plan says that the controller
could make of the informers' stores now (`MayPlan`), and each call it has made already is
`News`, a DNSEndpoint that differs from the informer's copy for good. A change of any
store that `Reconcile` reads puts the key back into the queue; a change of none of them
leaves the plan one it may make; and news, when it comes, wakes the route up. What
could go wrong is news that is taken back before the informer has seen it, so that
nobody hears of it: the garbage collector could do that to a DNSEndpoint with an old
owner, and `News` says that the owner is the live one. At rest there is no news,
nobody is expected, and the plan is to change nothing.

`PolicyRoutingProofs` proves, under `UnsetIsNoName` and `RoutingInputs` (the assumptions
of both):

- `RoutesAreImplemented`: the composition implements `ServiceRouteController`, with the
  policies' views read off the informer's store of the other controller (by proof only: no
  run checks it);
- `RoutingInvariant`: both inductive invariants hold of the composition;
- `SelectedIsPublished`: `RestPublishesSelected`, for any number of policies.

Each step of the composition is a step of either controller or leaves it alone
(`PolicyStep`, `RouteStep`), so that the invariants are those proved of each by itself,
instantiated. `RestingView` and `RestingVerdict` join them: at rest what the ServiceRoute
controller takes is one of the policies, and its view of that one is the verdict on its
spec, from which `UnselectedIsSilent` and `SelectedIsBuilt` conclude. With several
policies the controller takes the first of an unordered list
(`serviceroute_controller.go:251`), which may be another each time. So the property says
"under one of them", and the theorem that this one is taken as a whole: the records
at rest are never a mixture of what two policies select.

`ZonesAreApart`, in the same module, is about two clusters that have copies of one policy
and one DNSConfiguration, as a fleet has: no zone has records of both if and only if
the policy's constraints leave one of them out or, in Active mode, no region that has an
ExternalDNS controller is managed by both. Together with `SelectedIsPublished` in each
cluster this is what `docs/ARCHITECTURE.md` says of the modes ("prevents multiple
clusters from racing to write the same DNS records"), with what it takes: names of
clusters that are unique under `sourceCluster`, one cluster in a `sourceRegion`, and
adopted regions that are nobody else's. Nothing in the code sees to that.

`OperatorProofs` proves, under `UnsetIsNoName`, `RoutingInputs` and `OperatorInputs`:

- `OperatorInvariant`: `OperatorInv`, which is the invariant of the ClusterIdentity
  controller (`AloneInv`) and that `Fetch` has one answer, the `identity` of the
  others (`Answered`);
- `OperatorIsPolicyRouting`: `ImplementsPolicyRouting`;
- `SpecifiedIsPublished`: `RestPublishesSpecified`, for any specs, policies, routes and
  number of edits.

`PolicyRouting` supposes of the identity that its changes are followed by events, and the
second theorem discharges it: a step that changes what `Fetch` answers is one that owes
an event (`OwingStep`), any other is no step for the two (`SilentStep`), so that
`RoutingInvariant` and `SelectedIsPublished` hold here without being proved again. In the third one the
hypothesis "at rest" no longer has "nobody is owed an event" in it. That is concluded
(`RestingOwesNothing`), by the invariant of the ClusterIdentity controller: the status
update that follows `Set` is an event, and at rest the status is that of the spec.
This is why the order in which the namespaced controllers see the first event, and `Set`,
does not matter; and the mutant of this property, which omits a status update that
changes no phase, is how it would come to matter.

`GatewayControllerProofs` proves, under `GatewayInputs` and `NoneIsNoGateway`:

- `GatewayTypeCorrect`: the type invariant;
- `GatewayInvariant`: the inductive invariant `GatewayInv`;
- `RoutesAreServed`: `RestServesRoutes`;
- `IstioGatewaysAreKept`, `GatewayStatusHasSpec`: `IstioGatewayStays` and
  `GatewayStatusOfItsSpec`.

`GatewayInv` has the shape of `RouteInv`, with two differences that the predicate makes.
The informer does not put a key back for a status alone, so that `Overtaken` and
`OnCourse` compare revisions and not objects; that this is enough is `CopiesAgree` (two
copies of one revision have one spec) and the lemma `PlanIsRepeated` (Reconcile of its
own write has the same to do). And `unheard` excepts what was planned before an unheard
change. A Gateway leaves `unheard` when the worker plans anew, which may be from an
object that has been replaced unheard since it was read; then the update of the
status is refused for certain, and the conflict puts the key back (`OnCourse` asks
nothing of a worker whose object is of another revision). That `IstioGatewayStays` needs no more than the
queue is part of what the worker holds (`WorkerIsSound`): a route that comes to name a
Gateway whose Istio Gateway is about to be deleted has put the key back.

`IngressDNSControllerProofs` proves, under `UnsetIsNoName`, `IngressInputs` and
`NoneIsNoEndpoint`, for any Gateways, ingresses, postfixes and settings:

- `IngressTypeCorrect`: the type invariant;
- `IngressInvariant`: the inductive invariant `IngressInv`;
- `RestIsPublished`: at rest every record is right but the missed ones;
- `RecordsStay`: the cleanup deletes nothing in use unless it is to look again.

One key stands for all events, so a reconcile that is under way when an event comes
has an arbitrary mixture of old and new reads. `IngressInv` says why that is
harmless. Either the controller will look again (`WillLookAgain`: its key is queued or
an event is owed), and nothing need hold; or everything the worker has read is what
there is (`WorkerCurrent`), and each record is `Settled`: it is right, or was missed, or
is still ahead of the worker (`ToDo`). What is ahead shrinks as the program counter
moves on, and is everything when a reconcile starts. `OrphansUnused` and
`GatewaysKnown` say the same of the list that the cleanup works through, which is
used across the deletions. The lemmas `NextConfigSettles`, `CleanupSettles`,
`ReadSettles` and `SyncSettles` show for each stage of Reconcile that what it leaves
behind is settled.

`ClusterIdentityControllerProofs` proves, under `IdentityInputs` and `NoneIsNoIdentity`:

- `IdentityTypeCorrect`: the type invariant;
- `WriterInvariant`: an update of the status that the API server accepts was computed
  from what the informer's store holds now;
- `DeletionsAreForgotten`, `AtMostOneIsActive`: `DeletedIsForgotten` and `OneIsActive`,
  for any number of ClusterIdentities;
- `OneIsServed`: `AloneIsCurrent`;
- `OneIsAnnounced`: `OthersAreTold`, *if* there is one ClusterIdentity and nobody
  deletes it. The run `identity_deleted` shows that the assumption is needed.

Each has a strengthening of its own on top of `WriterInv`, and `AloneInv` joins
those that hold of one ClusterIdentity that is not deleted; `OperatorProofs` builds on it. `ForgetInv`: a cache that
outlives the last ClusterIdentity has a key in the queue, or is being cleared. `OneRefuses`:
of two that exist, one is going to be looked at, or is about to be written as Failed,
or is not Active; the argument turns on the singleton check, which reads the store
*after* the object, so that the one whose check passes saw no other, and the other is
still to be informed of. `Tended`: a single ClusterIdentity is going to be looked
at, or is handled with the configuration of now, or is served; `VerdictTwice` says that
the controller's own write calls for nothing. `KeptInv`: once the status is that of
the spec (`Reported`), the cache and the store have that spec already (`Known`), so
that nothing can change after the last event; before that, the event of the status is
still to come.

`DNSConfigurationControllerProofs` proves, under `ConfigInputs` and
`NoneIsNoConfiguration`:

- `ConfigTypeCorrect`, `ConfigStatusHasSpec`: the type invariant, which says that a refused
  spec is never cached, and `ConfigStatusOfItsSpec`;
- `SeveralInvariant`: the inductive invariant `SeveralInv` of several DNSConfigurations;
- `AtMostOneIsReady`, `TheReadyIsServed`: `OneIsReady` and `ReadyIsServed`;
- `TheLoneIsServed`: `LoneIsServed`.

`SeveralInv` has `OneRefuses` and the invariant of deletions like the above, and
`CacheFine`: the cache may have the spec of another DNSConfiguration only as long as
that one is listed or queued, or the cache is about to be cleared. So one that is found to be
alone is found with a cache that is its own, empty or about to be emptied. `LoneInv` adds
what holds as long as nothing was deleted: what is written is the verdict on the spec
(`Judged`), and a status that is that of its spec means that all know it (`Known`).

Only model-checked: liveness, which with `ENABLED` is outside the prover's reach. This
includes `ImplementsNotifiedView`: its safety part constrains little, since a
`NotifiedView` may change at any time and `identityOwed` records that it did, so that its
content is the fairness, that what is owed is delivered. What the proofs have to say of
that is `OneIsAnnounced` and `TheLoneIsServed`: at rest nothing is owed.

## Not modelled, and the plan

All six controllers are modelled. In the order of the plan: `Selection`,
`NotifiedView`, the DNSPolicy controller with its proofs, the ServiceRoute
controller with its proofs, their composition and what follows for it, the
ClusterIdentity controller, the DNSConfiguration controller, the Gateway controller
and the IngressDNS controller, each with its proofs, and the composition with the
ClusterIdentity controller (`Operator`) with its proofs.

What could follow:

1. the DNSConfiguration controller in the composition: in `Operator` the configuration is
   still a `NotifiedView`. With a list that is not sorted and holds refused specs `Fetch`
   has several answers, so that the view of one reconcile need not be that of another;
2. for the other controllers what `WritesSubside` says of the DNSPolicy controller, that
   none keeps itself busy: `SpecifiedSettles` is checked for small instances only;
3. the owners of TXT records in ExternalDNS, that is what happens when two clusters do
   publish in one zone; `ZonesAreApart` says when they do.

Simplified: a DNSConfiguration lists a controller once; the Services with the label
`istio` are in one namespace and each value of it is on at most one load balancer; a
Gateway has no finalizers, so that a deletion is immediate; a ServiceRoute is not replaced
by one of the same generation while the Gateway controller's watch is interrupted; calls that read from the
informer do not fail.

Left out for good: flags, probes, metrics, logging, leader election (one process
acts at a time), generated DeepCopy code, charts, manifests and dashboards; the
wording of messages; the DNS provider behind ExternalDNS.
