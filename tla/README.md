# Verification of the Octops GameServer ingress controller

The controller watches Agones GameServers and makes each one that carries
`octops.io/gameserver-ingress-mode` reachable: a headless Service, an Ingress or
(with `octops.io/router-backend: gateway`) an HTTPRoute, and at the end the
annotation `octops.io/ingress-ready` on the GameServer itself. This directory
models that logic in TLA+, checks it with TLC on small instances and proves its
safety for all of them with TLAPS.

## 1. Inventory

| Component | State | Operations | Interacts with |
|---|---|---|---|
| Event source (`pkg/controller`, `pkg/manager`) | informer cache, pending events | Create/Update/Delete events, resync every 15 s, start, stop | calls the event handler from one listener goroutine; its workqueue feeds `Reconciler.Reconcile`, which does nothing |
| Event handler (`pkg/handlers`) | none between events | `OnAdd`, `OnUpdate`, `OnDelete`, `Reconcile` | calls the four reconcilers in order; swallows every error |
| Service / Ingress / Gateway reconcilers (`pkg/reconcilers`) | none | look up in cache, build, Create | lister caches (stale reads), API server (writes) |
| GameServer reconciler | none | annotate under `RetryOnConflict` | Agones lister cache, API server |
| Stores (`pkg/stores`) | lister caches, informer factories | `NewStore`, `HasSynced`, `Get*`, `Create*`, `UpdateGameServer` | informer goroutines |
| Process (`pkg/app`, `internal/runtime`) | start phase, gateway backend on or off | `StartController`, `resolveGatewayAPIEnabled`, signals | everything above |
| Options (`pkg/reconcilers/*_options.go`) | the object under construction | custom annotations and templates (loops over a Go map), rules, TLS, class, issuer, parent reference | run one after the other when an object is built; the first error ends it |
| Recorder (`pkg/record`) | none that is read back | `RecordCreating`, `RecordSuccess`, `RecordFailed`, `RecordWarning`, `RecordEvent` | called by the reconcilers |
| Command line and clients (`cmd`, `pkg/k8sutil`) | flags | `initConfig`, `NewClusterConfig`, `NewClientSet` | environment, kubeconfig files; before the process above starts |
| Deployment (`deploy/install.yaml`) | container | liveness probe of `/healthz`, kill, restart | the manager serves the endpoint |
| Logging, version, `examples/` | none | | |

What is hard here: all reads come from caches that trail the API server; the
handler's object may be older than the cache, and the cache older than the
cluster; names are used again by new GameServers while objects and events of the
old one linger; Agones, users, the garbage collector and a second instance
(rolling update, no leader election) write at any time; errors are logged and
never requeued; a reply may be lost, a process may die between two writes; and
the start races its own informer goroutines. The list, line by line, is
`hazards` in `PROJECT.json`.

What makes the components correct:

* handler and reconcilers: nothing is created that the owning GameServer did not
  ask for; the annotation comes last; a write never undoes someone else's;
  whatever failed, a GameServer that stays reconcilable gets its route;
* GameServer reconciler: the retries end, and only the annotation changes;
* start: no event before the caches are complete, the gateway flag is respected,
  the start ends, an Interrupt ends the process, and a process that has gone deaf
  does not linger;
* options: the objects carry what was declared, in whatever order the map is
  ranged over; Ingress and HTTPRoute publish the same addresses, the TLS section
  covers the rules, the routes lead to the Service; an error depends on the
  annotations alone;
* recorder: a creation that was told is answered, no success is invented and no
  alarm is false;
* clients: all of them talk to one cluster.

## 2. Modules

| Module | Models | Used by |
|---|---|---|
| `GameServer` | `pkg/gameserver`, `GameServerReconciler.MustReconcile`: operators on GameServer records | `IngressController`, `RouteOptions` |
| `IngressController` | any number of instances of the controller with API server, Agones, users and garbage collector | `EventRecorder`, `MCIngressController`, `IngressControllerProofs` |
| `Publication` | abstract specification: ask, publish, announce | instantiated by `IngressController` (`PublicationSpec`) |
| `RouteOptions` | the values the options compute and the conditions of their errors, as operators | `ObjectBuilder`, `MCIngressController` |
| `ObjectBuilder` | `newService`, `newIngress`, `newHTTPRoute` and all their options as a state machine | `MCObjectBuilder`, `ObjectBuilderProofs` |
| `EventRecorder` | `IngressController` together with what its steps tell users | `MCEventRecorder`, `EventRecorderProofs` |
| `Startup` | one process from start to end | `Deployment`, `StartupProofs` |
| `Deployment` | `Startup` under the kubelet: probes, kills, restarts, CRDs that come and go | its runs, `DeploymentProofs` |
| `Configuration` | command line, environment and kubeconfig files to the three API clients | `MCConfiguration`, `ConfigurationProofs` |
| `MCIngressController`, `MCObjectBuilder`, `MCEventRecorder`, `MCConfiguration` | constants for TLC | the runs of the `.cfg` files |
| `IngressControllerProofs`, `EventRecorderProofs`, `StartupProofs`, `DeploymentProofs`, `ObjectBuilderProofs`, `ConfigurationProofs` | the theorems of the module each is named after | `EventRecorderProofs` extends the first, `DeploymentProofs` extends `StartupProofs` |

### IngressController

State: `gs`, `lives`, `version`, `obj` are the cluster (GameServers with uid and
resourceVersion, and for each kind and name the uid of the object's owner).
For each instance, `queue` holds the events on their way to its handler, `known`
and `agones` are its lister caches, and `pc`, `cur`, `copy`, `attempts` are the
handler's place in the code, the event's GameServer, the deep copy it will send
and the conflicts met so far. `wanted`, `created`, `announced` are history
variables for the properties.

| Action | Code |
|---|---|
| `OnDelete`, `Skip`, `Reconcile` | the handler takes an event; early returns of `Reconcile` |
| `ReconcileService`, `CreateService` | `ServiceReconciler`: cache lookup and build; Create |
| `ReconcileRoute`, `CreateRoute` | the backend switch with `IngressReconciler` and `GatewayReconciler` |
| `Annotate`, `Update` | `GameServerReconciler`: cache read and deep copy; Update, conflict, retry |
| `Panic` | the write into the annotation map of a cached GameServer that has no annotations left |
| `SyncStores`, `StartManager`, `Crash` | start with synced stores, first list, death |
| `Observe`, `ObserveGameServer`, `Resync` | informers and the `SyncPeriod` |
| `CreateGameServer`, `AgonesTransition`, `EditAnnotations`, `DeleteGameServer`, `GarbageCollect`, `UserDeletes` | other clients of the API server (external) |

Each action contains at most one read of a cache or one call of the API server,
so other instances and the cluster interleave wherever they can in the code. The
calls may fail, or succeed with the reply lost.

Abstractions. An object is represented by its owner's uid: nothing in the
handler reads more. `Builds` says whether the options return an error; for TLC it
is the negation of `Invalid` of `RouteOptions`, which the run `builder`
shows to be what the options compute (`RefusedIffInvalid`). A cache jumps to the present instead of walking through the versions
missed; that is what a delayed watch looks like to the handler, which reads each
key once per step. The order of events is kept per name; between names it
is free, which includes the informer's order. A resync event carries the
object the informer holds: the last one delivered, or the one at the head of the
queue while newer ones are under way. A write that changes nothing produces no
new version, as in the API server. With a nil Agones store (see `Startup`) the
handler panics when it reads that cache: the same steps followed by `Crash`, so
the behaviours are included. Log lines are left out.

### RouteOptions and ObjectBuilder

Text is a sequence of tokens (a blank, a template action, or a piece nothing takes
apart), a list annotation the sequence of the texts between its commas; so
`strings.Split`, `TrimSpace`, `ReplaceAll`, `fmt.Sprintf` and `text/template` are
modelled by what they do: a template whose `Execute` fails half-way leaves the
output written before, as in the code, which drops the error. `ObjectBuilder`
drafts an object of a kind and runs the kind's `Options` in their order; `at` is
the running option, `left` the annotation keys its loop has not visited, in any
order, `draft` the object so far. Each option is an action, `Fail` its error, which
adds the kind to `refused`, `Finish` the end, which adds the draft to `built`. `Declared`
and `Invalid` in `RouteOptions` are the reference: the annotations an object shall
carry and whether it can exist, said without options, loops or order.

### EventRecorder

Each handler step of `IngressController` that records an event is conjoined with
what it tells: `LookUpTells` for the first half of `reconcileNotFound`,
`CreateTells` for the second, `TellUpdate` for the annotation; all other steps
are `Silent`. `told` is a history of reasons with kind and GameServer, `open` the
creation that an instance has told and not answered yet, and `unbuildable` a history
of what a stored version of a GameServer asked for and the options refuse to build
for it. Three runs check properties of the controller itself under `TellSpec`: the
three variables are read by no guard, so every behaviour of `Spec` is one of
`TellSpec` with them hidden, and the converse is `RecordingIsPassive`.

### Startup

`main` is the place of the main goroutine in `StartController`; `launched` are
the `go factory.Start` goroutines that have not run, which start whatever is
`registered` then and nothing later; `attempt` counts `withRetry`; `mgr` is the
manager goroutine, whose `Start` may fail at once (`ManagerStarts`) or while it
serves (`ManagerFails`), with the error read by nobody; `interrupted` and `stopping` are the two contexts. `withFatal`
and panics lead to `main = "dead"`. `TimesOut` is free when an awaited informer
will never list, because it is not started or because its CRD is gone, and otherwise costs a fault. A process is modelled until it ends;
`SyncStores`, `StartManager` and `Crash` of `IngressController` are its
abstraction.

### Deployment and Configuration

`Deployment` extends `Startup`. `/healthz` answers while the manager runs
(`Healthy`); `ProbeFails` counts failures in a row, `Kill` ends the process at the
threshold, `Restart` runs `main` again with nothing left of the process before,
and `InstallCRDs` and `RemoveCRDs` may come at any time. `Configuration` is what
`Startup` takes for one step (`Configure`): flags, `initConfig`, the `app.Config` made
of the flags (`Run`), then `StartController` with the duration and three calls, each
of which passes `config.Kubeconfig` on as its argument: `NewManager`, the
configuration of the stores (`ClusterConfig`) and `NewClientSet`. Each evaluates
`NewClusterConfig` anew, and kubeconfig files may be rewritten before, between and
after. `rewritten` remembers which file was rewritten before which step.

## 3. Runs

| Run | Checks | Shows |
|---|---|---|
| `reuse` | `TypeOK`, `EveryObjectWanted`, `IInv`, `CreatedIsBacked`, `FailuresAreReal` | a name used again, stale events and caches, manifests that cannot be built, an unparsable ready annotation, all annotations removed; what is told of the predecessor and of the successor is true of each (2.1 M states) |
| `edits` | `ControllerOnlyAnnotates`, `PublicationSpec`, `CreationsAnswered` | annotation edits, backend switches, an unbuildable manifest, one fault (3.3 M states) |
| `rolling` | `EveryObjectWanted`, `ReadyAfterResources`, `CreatedIsBacked`, `FailuresAreReal`, `AnnotatedOnce` | two instances, one without the gateway backend, and GameServers for either backend: both annotate those that want an Ingress (1.1 M states) |
| `live` | `RoutableIsRouted`, `ReconcileTerminates` | routes come in spite of faults, panics and swallowed errors; every Reconcile ends, without any cache catching up (437 k states) |
| `allocated` | `AllocatedIsRouted` (violated) | finding 1 |
| `startup` | `TypeOK`, `ServingIsSynced`, `GatewayAsConfigured`, `StartupSettles`, `InterruptExits`, `DeafIsKilled` | all interleavings of a start, two signals, probes, kills and restarts, CRDs that come and go (module `Deployment`, 144 k states) |
| `startup_race` | `ControllerStarts` (violated) | finding 2 |
| `startup_auto` | `AutoFollowsCRDs` (violated) | finding 3 |
| `builder` | `TypeOK`, `AnnotationsAsDeclared`, `RefusedIffInvalid`, `TLSCoversHosts`, `SameRoutes`, `RoutesReachService`, `BuilderInv` | 420 GameServers, every order of every loop (30 k states) |
| `builder_blanks` | `AccessibleThroughAll` (violated) | finding 4 |
| `events_warning` | `WarnedInGateway` (violated) | finding 5 |
| `configuration` | `OneCluster` | every combination of flags, environment, two files and pod, two rewrites, one fault (766 k states) |

Deadlock is not checked: the bounds stop Agones and the users, and a process ends.

Bounds. `MaxVersion` limits the versions Agones and users write, not those of the
controllers, so 3 or 4 suffices for create, two transitions and an edit or a
second life (3 where a GameServer is born `Scheduled`; 1 in `rolling`, where only the
two instances compete). `MaxLives = 2` is one reuse of a name; a third incarnation
meets leftovers no different from those the second meets. One fault is enough for each single failure, crash or
lost reply at every place; combinations are left to the theorems, which have no
bound. `RetrySteps` is 2 (5 in client-go): one
retry and the exhaustion of the retries both happen. `MaxPending` keeps resyncs
from filling a queue: 2 lets one overtake newer events, 1 or 0 only resyncs an
idle informer. One name is enough for TLC because names share nothing but the
handler's attention; the theorems hold for any set. `Scheduled` stands for
`RequestReady`, which the code treats alike everywhere. `Startup` uses 2 retries
for 5 and two faults, so that a slow cache can exhaust one wait. `Deployment` adds
a threshold of 2 for the kubelet's 3, so that one failed probe may be
followed by a good one, and two restarts. In `ObjectBuilder` each group of
annotation maps varies one concern (routing and TLS, class and gateway, custom
annotations and templates) over all values the code tells apart, the others fixed;
two custom annotations are enough for their order to matter. `TLSCoversHosts` and
`SameRoutes` leave out domain lists with blanks at the ends of items, which is
finding 4. In `Configuration` two files and two servers are enough for two
clients to differ, and two rewrites for a file that changes and changes back.

Fairness. `HandlerFairness`: the listener goroutine, once inside `Reconcile`,
goes on. This assumes that a call of the API server is answered or that its
connection breaks in the end: `k8sutil.go` sets QPS and Burst of the clients and no
timeout, so a call that hangs would stop the handling of all events (listed under
`hazards`). `HandlerSpec` has this fairness alone, and `ReconcileTerminates` rests on nothing more. `EnvironmentFairness`,
a premise of `RoutableIsRouted`, adds that queues are
drained in order (strong fairness of `Handle`, since events of different names
take turns), that informers deliver and resync (a sync period above 0), that a dead process is restarted
by its Deployment, and that the garbage collector runs. Agones, users and faults
are never required to act. In `Startup` the goroutines run and a started
informer lists in the end; no timeouts, signals or faults are required.
`Deployment` requires nothing of the kubelet, so that `StartupSettles` and
`InterruptExits` do not rest on it; only `DeafIsKilled` has its fairness
(`KubeletFairness`: it probes periodically, and kills at the threshold) as a
premise.

## 4. Findings

1. `AllocatedIsRouted`: the reconcilers take a cached object of the same name for
   the GameServer's own (`service_reconciler.go:44`, `ingress_reconciler.go:43`).
   A successor of the same name is annotated because of its predecessor's
   objects; the garbage collector removes them; from `Allocated` on events are
   skipped, so the GameServer keeps its annotation without a route, against
   `docs/gateway-api-support-plan.md:215`. While it stays `Ready` a resync
   repairs this (`RoutableIsRouted`).
2. `ControllerStarts`: `go factory.Start` (`store.go:28`, `:42`,
   `agones_store.go:32`) races with the registration of the informers in
   `HasSynced`; the loser's caches never sync and the process exits.
3. `AutoFollowsCRDs`: any error of the discovery call counts as absent CRDs.
4. `AccessibleThroughAll`: in domain mode `WithIngressRule` composes the host before
   the blanks are trimmed (`ingress_options.go:205`), so "a.com, b.com" makes the
   host "gs. b.com"; the HTTPRoute of the same GameServer is right.
5. `WarnedInGateway`: the warning about TLS annotations in gateway mode is emitted
   only when the HTTPRoute is created (`gateway_reconciler.go:49`).

Two more observations have no run. The gateway backend is decided at the start only
(`app/controller.go:64`, actions `InstallCRDs`, `RemoveCRDs`), though the handler's error
(`gameserver_handler.go:100`) offers the installation of the CRDs as a remedy. And
`--master` is parsed and read by nothing (`cmd/root.go:83`, `k8sutil.go:38`).

## 5. Proofs

Every invariant and every action property that a run checks is a theorem, for
every value of the constants. The assumptions are few and named in the modules:

| Assumption | Why the code justifies it |
|---|---|
| `NotFoundAssumption`, `NoneAssumption` | the values for "nothing" are not GameServers or kinds |
| `InstancesAssumption`, `LifecycleAssumption` | gateway instances are instances, states are Agones states |
| `BuildsAssumption` | the options return an error or do not |
| `PrefixAssumption` | `TrimPrefix` of one prefix maps two keys to two names |
| `ServersAssumption` | a GameServer's name is not blank; the value of a list annotation is a list of texts |
| `BoundsAssumption`, `StartupBounds`, `DeploymentBounds`, `ConfigurationBounds` | bounds are natural numbers, the retries at least one |

### The controller: IngressControllerProofs

`Invariance` (`Spec => []IInv`) is the core. The properties are not inductive: that an object was
asked for depends on the event it is made from, hence on the queue it came from.
`IInv` adds

* `HoldsStored`: what is queued, cached or being handled is a version the API
  server once stored, of an incarnation that exists or existed, and all it asks
  for is in `wanted`;
* `Coherent`: a cached GameServer with the present resourceVersion is the present
  one, and so is a copy about to be sent, but for the annotation. A new version
  has a resourceVersion above all that are held, which is why a stale copy is
  refused;
* `Accounted`: what is in the cluster or a cache was created by an instance, for
  an incarnation that asked for it;
* `Stages`: the handler's place implies what has been created by then;
* `Announced`: `ReadyAfterResources` itself.

`StoreStep` shows the first two for any write of a new version, frame lemmas for
steps that only copy or forget; there is one lemma for each group of actions.
`Panic` is one of them: a process that dies there leaves the same state as a
crash. From `Invariance` follow `TypeCorrect`, `OnlyWantedObjects`, `ReadyIsBacked`, the
action properties `NoLostUpdate` (only `Write` changes a GameServer, and by
`Coherent` it changes the annotation) and `OneAnnotation` (what `Write` sends was
not marked when it was read, and what it is accepted for is the present GameServer,
which therefore is not marked either), and `Refinement` (stores ask, `Insert`
publishes, `Write` announces and asks for nothing new, the rest stutters).

### What users are told: EventRecorderProofs

`RecordingIsPassive` (`TellSpec => Spec`): a step with its recording is a step of
the controller, hence `IInv`, `NoLostUpdate` and `Refinement` carry over
(`RecordingAnnotatesOnly`, `RecordingAnnotatesOnce`, `RecordingRefines`).
`RecorderInv` adds the three properties, which are not inductive with `IInv` alone.
`CreatedIsTrue` needs `Accounted`, since `AlreadyExists` is answered by an object
that an instance created. `NoFalseAlarm` is about the GameServer told of, while
the handler builds for the copy in the event, which may be older than the present
version or of a deleted GameServer: hence `Remembered`, which says of every version
stored, queued or being handled that what it asks for in vain is in `unbuildable`.
It is kept like `HoldsStored`: a version enters `unbuildable` when it is stored
(`Remember`), and all copies come from the store through the queues (`QueuesFrom`,
`HandledFromQueue`).

### The options: ObjectBuilderProofs

`BuilderInv` says what a half-built object is, from the position `at` and the keys
`left` alone: `Named` are the names under which the draft has annotations, a key
that the first loop has `Copied` has its text there, one that the second has
`Templated` its filled text (`AnnotationsSoFar`); what has run returned no error
(`NoErrorSoFar`) and has set its fields (`FieldsSoFar`). So two orders of a loop that
have visited the same keys meet in the same draft, which is the argument for
`MapOrderIsNoMatter` and `ErrorsAreDeclared`. It rests on two keys never having
one suffix (`SuffixInjective`), without which the loops would overwrite each
other. There is one lemma for each option, `LateStep` holding what all options
after the loops have in common, and for `Finish` three: the draft is then the
`Declared` one, can be built, and has its fields.

`RoutesLeadToService`, `TLSHasTheHosts` and `BackendsAgree` follow from the fields by
lemmas about text: `TrimSpace` leaves a text alone exactly if it does not begin or end
with a blank (`TrimTight`, `TrimmedEnd`, for texts of any length, from the least and
the greatest element of a set of positions), so the host that is composed first
and trimmed afterwards is the one that is trimmed first (`TrimSubdomain`), and
the three options agree item by item (`SameHosts`). `Tidy` is needed: finding 4
is what happens without it.

### Start, deployment, clients

`StartupProofs` proves `TypeOK`, `ServingIsSynced` and `GatewayAsConfigured` for
any number of retries, faults and signals, from an invariant (`StartupInv`) that ties
the place of the main goroutine to the informers and the flag; it includes that only what is
registered was started and only what was started has synced, so that a process
without the gateway has no HTTPRoute informer. `DeploymentProofs` keeps it through
probes, kills, restarts and CRDs that come and go (no part of it speaks
of the present CRDs, and a restarted process begins where the first one did), hence the same
three properties of `DeploySpec`. `ConfigurationProofs` proves `OneCluster`: each
reading gives what the user means at that moment, for whichever caller
(`ReadsWhatIsMeant`); afterwards the meaning changes only by a rewrite of the
chosen file, which leaves its trace at the step that was about to be taken
(`MeantFrame`). So the invariant relates each client to the one before, step by step.

### Only model-checked

The liveness properties (`ReconcileTerminates`, `RoutableIsRouted`,
`StartupSettles`, `InterruptExits`, `DeafIsKilled`), since fairness and
`ENABLED` are beyond the prover; and the violations, which are counterexamples.

## 6. Not modelled

* The workqueue of controller-runtime: `Reconciler.Reconcile` is empty and handlers
  never return an error, so nothing is ever queued on purpose and nothing
  depends on what is.
* Real time: the order of timeouts, probes and resyncs is free, their lengths are
  not compared (whether five waits for the caches fit into the probes' budget).
* Delivery and aggregation of recorded events (client-go), metrics, webhooks and
  the readiness probe: nothing in the controller reads them back.
* Services, Ingresses and HTTPRoutes of a GameServer's name that are not the
  controller's. The code takes them for its own (`service_reconciler.go:44` and `:64`,
  and alike for the routes): it would announce a GameServer whose route is somebody
  else's. In the model every object was created by an instance, as `Accounted` says;
  that an object of another owner is taken is modelled for predecessors only.
* Labels, namespaces and selectors of the objects: constants or copies of the
  GameServer's name, alike for all kinds.
* Logging and version: output only. `examples/gameserver-http` is a demonstration
  of a game server, not a part of the controller.

## 7. Plan

Done: `GameServer`, `Publication`, `IngressController` (core, refinement,
proofs), `Startup`, `RouteOptions` and `ObjectBuilder`, `EventRecorder`,
`Deployment`, `Configuration`, and the proofs of all their invariants and action
properties.

Next, in this order:

1. The composition that is argued in prose so far: a process of `Startup` appears to
   `IngressController` as `SyncStores`, `StartManager` and `Crash`, as a refinement
   mapping from `Startup` to the life of one instance, checked and proved.
2. The safety half of the liveness properties: bounds on the steps that are left
   (of `Reconcile`, of the start) that every step decreases,
   as action properties.
