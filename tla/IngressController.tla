-------------------------- MODULE IngressController --------------------------
(***************************************************************************)
(* The reconciliation of GameServers by one or more running copies of the  *)
(* controller, against an API server that Agones, users and the garbage    *)
(* collector also write to.                                                *)
(*                                                                         *)
(* A copy (an "instance") handles watch events one at a time: the          *)
(* informer's listener goroutine calls GameSeverEventHandler directly.     *)
(* Each call runs Reconcile of pkg/handlers: the Service, then the Ingress *)
(* or the HTTPRoute, then the annotation octops.io/ingress-ready on the    *)
(* GameServer.  The reads go to informer caches that trail the API server; *)
(* the writes go to the API server.  Steps of other instances and of the   *)
(* cluster interleave between any two of them.                             *)
(***************************************************************************)
EXTENDS GameServer, Naturals, Sequences, FiniteSets

CONSTANTS
  Names,             \* GameServer names (one namespace)
  Instances,         \* running copies of the controller
  GatewayInstances,  \* the copies started with the Gateway API backend enabled
  Manifests,         \* annotation maps users give their GameServers
  Builds(_, _),      \* Builds(kind, annotations): the object can be built
  Born,              \* states in which Agones creates a GameServer
  Lifecycle,         \* pairs <<s, t>>: Agones moves a GameServer from s to t
  NotFound,          \* the answer for an object that does not exist
  RetrySteps,        \* attempts of retry.DefaultRetry
  MaxLives,          \* bound: how often a name is used again
  MaxVersion,        \* bound: resource versions that Agones and users write
  MaxFaults,         \* bound: failed calls, lost replies, crashes, deletions
  MaxPending         \* bound: pending events of a name for a resync to add one

ServiceKind   == "Service"
IngressKind   == "Ingress"
HTTPRouteKind == "HTTPRoute"
Kinds         == {ServiceKind, IngressKind, HTTPRouteKind}
RouteKinds    == {IngressKind, HTTPRouteKind}

AnnotationMaps == Manifests \cup {WithReady(m) : m \in Manifests}

(***************************************************************************)
(* A GameServer as the API server stores it.  The uid counts the           *)
(* incarnations of a name; rv is metadata.resourceVersion.                 *)
(***************************************************************************)
GameServers ==
  [name: Names, uid: Nat, rv: Nat, state: GameServerState,
   annotations: AnnotationMaps]

Events == [type: {"add", "update", "resync", "delete"}, object: GameServers]

ASSUME NotFoundAssumption  == NotFound \notin GameServers
ASSUME InstancesAssumption == GatewayInstances \subseteq Instances
ASSUME BuildsAssumption    == \A k \in Kinds, a \in AnnotationMaps : Builds(k, a) \in BOOLEAN
ASSUME LifecycleAssumption == /\ Born \subseteq GameServerState
                              /\ Lifecycle \subseteq GameServerState \X GameServerState
ASSUME BoundsAssumption    == /\ RetrySteps \in Nat \ {0}
                              /\ MaxLives \in Nat
                              /\ MaxVersion \in Nat
                              /\ MaxFaults \in Nat
                              /\ MaxPending \in Nat

VARIABLES
  gs,         \* gs[n]: the GameServer n in the API server, or NotFound
  lives,      \* lives[n]: incarnations of n so far
  version,    \* the last resourceVersion given out
  obj,        \* obj[k][n]: owner uid of the object of kind k named n; 0: none
  pc,         \* pc[i]: where instance i is
  queue,      \* queue[i][n]: events of n on their way to i's handler
  known,      \* known[i][k][n]: i's lister cache, the owner uid; 0: none
  agones,     \* agones[i][n]: i's Agones lister cache
  cur,        \* cur[i]: the GameServer of the event being handled
  copy,       \* copy[i]: the deep copy about to be sent with Update
  attempts,   \* attempts[i]: conflicts met by the present RetryOnConflict
  faults,     \* faults so far
  wanted,     \* history: <<k, n, u>> some stored version of n asked for
  created,    \* history: <<k, n, u>> the controllers created
  announced   \* history: <<n, u>> the controllers annotated as ready

cluster == <<gs, lives, version, obj>>
handler == <<pc, cur, copy, attempts>>
caches  == <<known, agones>>
history == <<wanted, created, announced>>
vars    == <<cluster, handler, caches, queue, faults, history>>

PCs == {"down", "synced", "idle", "service", "createService",
        "route", "createRoute", "annotate", "update"}

Listening(i) == pc[i] \notin {"down", "synced"}

Owners == Names \X Nat

TypeOK ==
  /\ gs \in [Names -> GameServers \cup {NotFound}]
  /\ lives \in [Names -> Nat]
  /\ version \in Nat
  /\ obj \in [Kinds -> [Names -> Nat]]
  /\ pc \in [Instances -> PCs]
  /\ queue \in [Instances -> [Names -> Seq(Events)]]
  /\ known \in [Instances -> [Kinds -> [Names -> Nat]]]
  /\ agones \in [Instances -> [Names -> GameServers \cup {NotFound}]]
  /\ cur \in [Instances -> GameServers \cup {NotFound}]
  /\ copy \in [Instances -> GameServers \cup {NotFound}]
  /\ attempts \in [Instances -> 0 .. RetrySteps - 1]
  /\ faults \in Nat
  /\ wanted \subseteq Kinds \X Names \X Nat
  /\ created \subseteq Kinds \X Names \X Nat
  /\ announced \subseteq Owners

Init ==
  /\ gs = [n \in Names |-> NotFound]
  /\ lives = [n \in Names |-> 0]
  /\ version = 0
  /\ obj = [k \in Kinds |-> [n \in Names |-> 0]]
  /\ pc = [i \in Instances |-> "down"]
  /\ queue = [i \in Instances |-> [n \in Names |-> << >>]]
  /\ known = [i \in Instances |-> [k \in Kinds |-> [n \in Names |-> 0]]]
  /\ agones = [i \in Instances |-> [n \in Names |-> NotFound]]
  /\ cur = [i \in Instances |-> NotFound]
  /\ copy = [i \in Instances |-> NotFound]
  /\ attempts = [i \in Instances |-> 0]
  /\ faults = 0
  /\ wanted = {}
  /\ created = {}
  /\ announced = {}

-----------------------------------------------------------------------------
(***************************************************************************)
(* What the handler reads from a GameServer.                               *)
(***************************************************************************)

(* The switch on the backend: anything but "gateway" means Ingress.        *)
RouteKind(g) ==
  IF GetRouterBackend(g) = RouterBackendGateway THEN HTTPRouteKind ELSE IngressKind

Wants(g) ==
  IF Reconcilable(g)
  THEN {<<k, g.name, g.uid>> : k \in {ServiceKind, RouteKind(g)}}
  ELSE {}

-----------------------------------------------------------------------------
(***************************************************************************)
(* The API server and its other clients.                                   *)
(***************************************************************************)

(* Every instance that listens gets the watch event.                       *)
Notify(n, type, g) ==
  queue' = [i \in Instances |->
              IF Listening(i)
              THEN [queue[i] EXCEPT ![n] = Append(@, [type |-> type, object |-> g])]
              ELSE queue[i]]

(* Store g under a fresh resourceVersion.                                  *)
Store(n, type, g) ==
  /\ gs' = [gs EXCEPT ![n] = g]
  /\ version' = g.rv
  /\ wanted' = wanted \cup Wants(g)
  /\ Notify(n, type, g)

CreateGameServer(n) ==
  /\ gs[n] = NotFound
  /\ lives[n] < MaxLives
  /\ version < MaxVersion
  /\ \E s \in Born, m \in Manifests :
       Store(n, "add", [name |-> n, uid |-> lives[n] + 1, rv |-> version + 1,
                        state |-> s, annotations |-> m])
  /\ lives' = [lives EXCEPT ![n] = @ + 1]
  /\ UNCHANGED <<obj, handler, caches, faults, created, announced>>

AgonesTransition(n) ==
  /\ gs[n] # NotFound
  /\ version < MaxVersion
  /\ \E s \in GameServerState :
       /\ <<gs[n].state, s>> \in Lifecycle
       /\ Store(n, "update", [gs[n] EXCEPT !.rv = version + 1, !.state = s])
  /\ UNCHANGED <<lives, obj, handler, caches, faults, created, announced>>

(* A user edits the annotations, with or without the controller's own one. *)
EditAnnotations(n) ==
  /\ gs[n] # NotFound
  /\ version < MaxVersion
  /\ \E m \in Manifests :
       \E a \in {m} \cup (IF IsReady(gs[n]) THEN {WithReady(m)} ELSE {}) :
         /\ a # gs[n].annotations
         /\ Store(n, "update", [gs[n] EXCEPT !.rv = version + 1, !.annotations = a])
  /\ UNCHANGED <<lives, obj, handler, caches, faults, created, announced>>

DeleteGameServer(n) ==
  /\ gs[n] # NotFound
  /\ gs' = [gs EXCEPT ![n] = NotFound]
  /\ Notify(n, "delete", gs[n])
  /\ UNCHANGED <<lives, version, obj, handler, caches, faults, history>>

(* An object whose owner reference names a uid that does not exist.        *)
Orphan(k, n) ==
  obj[k][n] \notin {0} \cup (IF gs[n] = NotFound THEN {} ELSE {gs[n].uid})

GarbageCollect(k, n) ==
  /\ Orphan(k, n)
  /\ obj' = [obj EXCEPT ![k][n] = 0]
  /\ UNCHANGED <<gs, lives, version, handler, caches, queue, faults, history>>

Fault ==
  /\ faults < MaxFaults
  /\ faults' = faults + 1

(* A user deletes a Service, an Ingress or an HTTPRoute by hand.           *)
UserDeletes(k, n) ==
  /\ obj[k][n] # 0
  /\ Fault
  /\ obj' = [obj EXCEPT ![k][n] = 0]
  /\ UNCHANGED <<gs, lives, version, handler, caches, queue, history>>

-----------------------------------------------------------------------------
(***************************************************************************)
(* The life of an instance and its caches.                                 *)
(***************************************************************************)

(* The informers of NewStore: HTTPRoutes only with the gateway backend.    *)
Watched(i) == IF i \in GatewayInstances THEN Kinds ELSE Kinds \ {HTTPRouteKind}

(* NewStore and NewAgonesStore return once their caches have synced.       *)
SyncStores(i) ==
  /\ pc[i] = "down"
  /\ pc' = [pc EXCEPT ![i] = "synced"]
  /\ known' = [known EXCEPT ![i] = [k \in Kinds |-> IF k \in Watched(i) THEN obj[k] ELSE @[k]]]
  /\ agones' = [agones EXCEPT ![i] = gs]
  /\ UNCHANGED <<cluster, cur, copy, attempts, queue, faults, history>>

(* Manager.Start lists the GameServers: one Create event for each.         *)
StartManager(i) ==
  /\ pc[i] = "synced"
  /\ pc' = [pc EXCEPT ![i] = "idle"]
  /\ queue' = [queue EXCEPT ![i] =
                 [n \in Names |-> IF gs[n] = NotFound THEN << >>
                                  ELSE << [type |-> "add", object |-> gs[n]] >>]]
  /\ UNCHANGED <<cluster, cur, copy, attempts, caches, faults, history>>

(* The process dies; all it had in memory is gone.                         *)
Die(i) ==
  /\ pc' = [pc EXCEPT ![i] = "down"]
  /\ cur' = [cur EXCEPT ![i] = NotFound]
  /\ copy' = [copy EXCEPT ![i] = NotFound]
  /\ attempts' = [attempts EXCEPT ![i] = 0]
  /\ queue' = [queue EXCEPT ![i] = [n \in Names |-> << >>]]
  /\ known' = [known EXCEPT ![i] = [k \in Kinds |-> [n \in Names |-> 0]]]
  /\ agones' = [agones EXCEPT ![i] = [n \in Names |-> NotFound]]
  /\ UNCHANGED <<cluster, history>>

Crash(i) ==
  /\ pc[i] # "down"
  /\ Fault
  /\ Die(i)

(* A lister cache catches up with the API server.                          *)
Observe(i, k, n) ==
  /\ pc[i] # "down"
  /\ k \in Watched(i)
  /\ known[i][k][n] # obj[k][n]
  /\ known' = [known EXCEPT ![i][k][n] = obj[k][n]]
  /\ UNCHANGED <<cluster, handler, agones, queue, faults, history>>

ObserveGameServer(i, n) ==
  /\ pc[i] # "down"
  /\ agones[i][n] # gs[n]
  /\ agones' = [agones EXCEPT ![i][n] = gs[n]]
  /\ UNCHANGED <<cluster, handler, known, queue, faults, history>>

(* Mutant: no SyncPeriod, only the replay of events under way.             *)
ResyncPendingOnly(i, n) ==
  /\ Listening(i)
  /\ Len(queue[i][n]) \in 1 .. MaxPending - 1
  /\ LET e == Head(queue[i][n])
     IN  /\ e.type \in {"add", "update"}
         /\ queue' = [queue EXCEPT ![i][n] =
              << e, [type |-> "resync", object |-> e.object] >> \o Tail(@)]
  /\ UNCHANGED <<cluster, handler, caches, faults, history>>

(* The SyncPeriod elapses: the informer hands out once more the object it  *)
(* holds, the last one of the stream or, while newer ones are under way,   *)
(* the one at its head.                                                    *)
Resync(i, n) ==
  /\ Listening(i)
  /\ \/ /\ queue[i][n] = << >>
        /\ gs[n] # NotFound
        /\ queue' = [queue EXCEPT ![i][n] = << [type |-> "resync", object |-> gs[n]] >>]
     \/ /\ Len(queue[i][n]) \in 1 .. MaxPending - 1
        /\ LET e == Head(queue[i][n])
           IN  /\ e.type \in {"add", "update"}
               /\ queue' = [queue EXCEPT ![i][n] =
                    << e, [type |-> "resync", object |-> e.object] >> \o Tail(@)]
  /\ UNCHANGED <<cluster, handler, caches, faults, history>>

-----------------------------------------------------------------------------
(***************************************************************************)
(* The event handler.  Every way out of Reconcile, an error included, ends *)
(* the handling of the event: OnAdd and OnUpdate log the error and return  *)
(* nil, so nothing is queued again.                                        *)
(***************************************************************************)

Goto(i, label) ==
  /\ pc' = [pc EXCEPT ![i] = label]
  /\ UNCHANGED <<cur, copy, attempts>>

Return(i) ==
  /\ pc' = [pc EXCEPT ![i] = "idle"]
  /\ cur' = [cur EXCEPT ![i] = NotFound]
  /\ copy' = [copy EXCEPT ![i] = NotFound]
  /\ attempts' = [attempts EXCEPT ![i] = 0]

Dequeue(i, n) ==
  /\ pc[i] = "idle"
  /\ queue[i][n] # << >>
  /\ queue' = [queue EXCEPT ![i][n] = Tail(@)]

OnDelete(i, n) ==
  /\ Dequeue(i, n)
  /\ Head(queue[i][n]).type = "delete"
  /\ UNCHANGED <<cluster, handler, caches, faults, history>>

(* The early returns of Reconcile.                                         *)
Skip(i, n) ==
  /\ Dequeue(i, n)
  /\ Head(queue[i][n]).type # "delete"
  /\ ~Reconcilable(Head(queue[i][n]).object)
  /\ UNCHANGED <<cluster, handler, caches, faults, history>>

(* OnAdd and OnUpdate: the event's object goes through Reconcile.          *)
Reconcile(i, n) ==
  /\ Dequeue(i, n)
  /\ Head(queue[i][n]).type # "delete"
  /\ Reconcilable(Head(queue[i][n]).object)
  /\ cur' = [cur EXCEPT ![i] = Head(queue[i][n]).object]
  /\ pc' = [pc EXCEPT ![i] = "service"]
  /\ UNCHANGED <<cluster, copy, attempts, caches, faults, history>>

(* The look-up of a reconciler in its lister cache: what is found is taken *)
(* as it is; what is not found is built, and a failed build is an error.   *)
LookUp(i, k, found, create) ==
  \/ /\ known[i][k][cur[i].name] # 0
     /\ Goto(i, found)
  \/ /\ known[i][k][cur[i].name] = 0
     /\ Builds(k, cur[i].annotations)
     /\ Goto(i, create)
  \/ /\ known[i][k][cur[i].name] = 0
     /\ ~Builds(k, cur[i].annotations)
     /\ Return(i)

ReconcileService(i) ==
  /\ pc[i] = "service"
  /\ LookUp(i, ServiceKind, "route", "createService")
  /\ UNCHANGED <<cluster, caches, queue, faults, history>>

(* Mutant: with the gateway backend disabled, fall back to an Ingress.     *)
FallBackToIngress(i) ==
  IF RouteKind(cur[i]) \in Watched(i) THEN RouteKind(cur[i]) ELSE IngressKind

(* The kind of the reconciler the switch selects; without the gateway      *)
(* backend gatewayReconciler is nil, which is an error.                    *)
Route(i) ==
  IF RouteKind(cur[i]) \in Watched(i) THEN RouteKind(cur[i]) ELSE "none"

ReconcileRoute(i) ==
  /\ pc[i] = "route"
  /\ \/ Route(i) = "none" /\ Return(i)
     \/ Route(i) # "none" /\ LookUp(i, Route(i), "annotate", "createRoute")
  /\ UNCHANGED <<cluster, caches, queue, faults, history>>

(* Mutant: own the object by what the Agones cache now holds under the     *)
(* event's name.                                                           *)
InsertForCached(i, k) ==
  /\ agones[i][cur[i].name] # NotFound
  /\ obj[k][cur[i].name] = 0
  /\ obj' = [obj EXCEPT ![k][cur[i].name] = agones[i][cur[i].name].uid]
  /\ created' = created \cup {<<k, cur[i].name, agones[i][cur[i].name].uid>>}
  /\ UNCHANGED <<gs, lives, version, wanted, announced>>

(* The object carries a controller reference to the event's GameServer.    *)
Insert(i, k) ==
  /\ obj[k][cur[i].name] = 0
  /\ obj' = [obj EXCEPT ![k][cur[i].name] = cur[i].uid]
  /\ created' = created \cup {<<k, cur[i].name, cur[i].uid>>}
  /\ UNCHANGED <<gs, lives, version, wanted, announced>>

(* Mutant: go on after a failed Create as after AlreadyExists.             *)
CreateIgnoringErrors(i, k, next) ==
  \/ Insert(i, k) /\ Goto(i, next) /\ UNCHANGED faults
  \/ obj[k][cur[i].name] # 0 /\ Goto(i, next) /\ UNCHANGED <<cluster, faults, history>>
  \/ Fault /\ Goto(i, next) /\ UNCHANGED <<cluster, history>>

(* Mutant: AlreadyExists is an error like any other.                       *)
CreateStrict(i, k, next) ==
  \/ Insert(i, k) /\ Goto(i, next) /\ UNCHANGED faults
  \/ obj[k][cur[i].name] # 0 /\ Return(i) /\ UNCHANGED <<cluster, faults, history>>
  \/ Fault /\ Return(i) /\ UNCHANGED <<cluster, history>>
  \/ Fault /\ Insert(i, k) /\ Return(i)

(* Create of the API: it succeeds; the object exists, which counts as      *)
(* success; it fails; or it succeeds and the reply is lost.                *)
Create(i, k, next) ==
  \/ Insert(i, k) /\ Goto(i, next) /\ UNCHANGED faults
  \/ obj[k][cur[i].name] # 0 /\ Goto(i, next) /\ UNCHANGED <<cluster, faults, history>>
  \/ Fault /\ Return(i) /\ UNCHANGED <<cluster, history>>
  \/ Fault /\ Insert(i, k) /\ Return(i)

(* Mutant: a new Service ends the reconciliation of the routes.            *)
CreateServiceOnly(i) ==
  /\ pc[i] = "createService"
  /\ Create(i, ServiceKind, "annotate")
  /\ UNCHANGED <<caches, queue>>

CreateService(i) ==
  /\ pc[i] = "createService"
  /\ Create(i, ServiceKind, "route")
  /\ UNCHANGED <<caches, queue>>

CreateRoute(i) ==
  /\ pc[i] = "createRoute"
  /\ Create(i, Route(i), "annotate")
  /\ UNCHANGED <<caches, queue>>

(* Mutant: send the event's object under the cached resourceVersion.       *)
AnnotateEventObject(i) ==
  /\ pc[i] = "annotate"
  /\ LET g == agones[i][cur[i].name]
     IN  \/ /\ MustAnnotate(cur[i]) # "yes" \/ g = NotFound
           /\ Return(i)
        \/ /\ MustAnnotate(cur[i]) = "yes"
           /\ g # NotFound
           /\ copy' = [copy EXCEPT ![i] = [cur[i] EXCEPT !.rv = g.rv, !.annotations = WithReady(@)]]
           /\ pc' = [pc EXCEPT ![i] = "update"]
           /\ UNCHANGED <<cur, attempts>>
  /\ UNCHANGED <<cluster, caches, queue, faults, history>>

(* GameServerReconciler up to the deep copy: MustReconcile looks at the    *)
(* event's object, the copy is of the object in the Agones cache, which    *)
(* may by now have no annotations at all.                                  *)
Annotate(i) ==
  /\ pc[i] = "annotate"
  /\ LET g == agones[i][cur[i].name]
     IN  \/ /\ MustAnnotate(cur[i]) # "yes" \/ g = NotFound
           /\ Return(i)
        \/ /\ MustAnnotate(cur[i]) = "yes"
           /\ g # NotFound
           /\ DOMAIN g.annotations # {}
           /\ copy' = [copy EXCEPT ![i] = [g EXCEPT !.annotations = WithReady(@)]]
           /\ pc' = [pc EXCEPT ![i] = "update"]
           /\ UNCHANGED <<cur, attempts>>
  /\ UNCHANGED <<cluster, caches, queue, faults, history>>

(* The map of annotations is then nil, and writing to it panics.           *)
Panic(i) ==
  /\ pc[i] = "annotate"
  /\ MustAnnotate(cur[i]) = "yes"
  /\ agones[i][cur[i].name] # NotFound
  /\ DOMAIN agones[i][cur[i].name].annotations = {}
  /\ Die(i)
  /\ UNCHANGED faults

(* Mutant: an update without a resourceVersion.                            *)
AcceptsUnversioned(g) == gs[g.name] # NotFound

(* The API server's optimistic concurrency check.                          *)
Accepts(g) == gs[g.name] # NotFound /\ gs[g.name].rv = g.rv

(* Store the copy; a write that changes nothing makes no new version.      *)
Write(i) ==
  /\ Accepts(copy[i])
  /\ IF gs[copy[i].name] = copy[i]
     THEN UNCHANGED <<gs, version, wanted, queue>>
     ELSE Store(copy[i].name, "update", [copy[i] EXCEPT !.rv = version + 1])
  /\ announced' = announced \cup {<<copy[i].name, copy[i].uid>>}
  /\ UNCHANGED <<lives, obj, created>>

UpdateSucceeds(i) ==
  /\ Write(i)
  /\ UNCHANGED faults

(* RetryOnConflict starts over, with a new read of the cache, until the    *)
(* attempts are used up.                                                   *)
UpdateConflicts(i) ==
  /\ gs[copy[i].name] # NotFound
  /\ ~Accepts(copy[i])
  /\ UNCHANGED <<cluster, queue, faults, history>>

UpdateFails(i) ==
  \/ /\ gs[copy[i].name] = NotFound
     /\ UNCHANGED <<cluster, queue, faults, history>>
  \/ Fault /\ UNCHANGED <<cluster, queue, history>>
  \/ Fault /\ Write(i)

(* Mutant: off by one, an attempt too many.                                *)
RetryOnceMore(i) ==
  /\ attempts[i] < RetrySteps
  /\ pc' = [pc EXCEPT ![i] = "annotate"]
  /\ copy' = [copy EXCEPT ![i] = NotFound]
  /\ attempts' = [attempts EXCEPT ![i] = @ + 1]
  /\ UNCHANGED cur

(* Mutant: retry for as long as there are conflicts.                       *)
RetryForever(i) ==
  /\ pc' = [pc EXCEPT ![i] = "annotate"]
  /\ copy' = [copy EXCEPT ![i] = NotFound]
  /\ UNCHANGED <<cur, attempts>>

Retry(i) ==
  /\ attempts[i] + 1 < RetrySteps
  /\ pc' = [pc EXCEPT ![i] = "annotate"]
  /\ copy' = [copy EXCEPT ![i] = NotFound]
  /\ attempts' = [attempts EXCEPT ![i] = @ + 1]
  /\ UNCHANGED cur

Update(i) ==
  /\ pc[i] = "update"
  /\ \/ UpdateSucceeds(i) /\ Return(i)
     \/ UpdateConflicts(i) /\ Retry(i)
     \/ UpdateConflicts(i) /\ attempts[i] + 1 >= RetrySteps /\ Return(i)
     \/ UpdateFails(i) /\ Return(i)
  /\ UNCHANGED caches

-----------------------------------------------------------------------------
Handle(i, n) == OnDelete(i, n) \/ Skip(i, n) \/ Reconcile(i, n)

HandlerStep(i) ==
  \/ ReconcileService(i)
  \/ CreateService(i)
  \/ ReconcileRoute(i)
  \/ CreateRoute(i)
  \/ Annotate(i)
  \/ Panic(i)
  \/ Update(i)

InstanceStep(i) ==
  \/ SyncStores(i)
  \/ StartManager(i)
  \/ Crash(i)
  \/ HandlerStep(i)
  \/ \E n \in Names :
       \/ Handle(i, n)
       \/ Resync(i, n)
       \/ ObserveGameServer(i, n)
       \/ \E k \in Kinds : Observe(i, k, n)

ClusterStep(n) ==
  \/ CreateGameServer(n)
  \/ AgonesTransition(n)
  \/ EditAnnotations(n)
  \/ DeleteGameServer(n)
  \/ \E k \in Kinds : GarbageCollect(k, n) \/ UserDeletes(k, n)

Next ==
  \/ \E n \in Names : ClusterStep(n)
  \/ \E i \in Instances : InstanceStep(i)

Spec == Init /\ [][Next]_vars

-----------------------------------------------------------------------------
(***************************************************************************)
(* Fairness.  The listener goroutine of a running instance takes its next  *)
(* step and reaches every queued event (the queues are FIFO); informers    *)
(* deliver; resyncs are periodic; a dead instance is started again by its  *)
(* Deployment; the garbage collector runs.                                 *)
(***************************************************************************)
HandlerFairness ==
  \A i \in Instances : WF_vars(HandlerStep(i))

EnvironmentFairness ==
  /\ \A i \in Instances, n \in Names :
       /\ SF_vars(Handle(i, n))
       /\ WF_vars(Resync(i, n))
       /\ WF_vars(ObserveGameServer(i, n))
       /\ \A k \in Kinds : WF_vars(Observe(i, k, n))
  /\ \A i \in Instances : WF_vars(SyncStores(i)) /\ WF_vars(StartManager(i))
  /\ \A k \in Kinds, n \in Names : WF_vars(GarbageCollect(k, n))

HandlerSpec == Spec /\ HandlerFairness

FairSpec == HandlerSpec /\ EnvironmentFairness

-----------------------------------------------------------------------------
(***************************************************************************)
(* Safety.                                                                 *)
(***************************************************************************)

(* Every Service, Ingress and HTTPRoute in the cluster is owned by an      *)
(* incarnation of the GameServer of its name that was once reconcilable    *)
(* with exactly that kind of object selected.  So nothing is made for a    *)
(* GameServer that is not scheduled yet or does not carry the mode         *)
(* annotation, an event handled late attributes nothing to a successor of  *)
(* the same name, and a GameServer that asks for the gateway gets no       *)
(* Ingress in its stead, whichever instances handle it.                    *)
EveryObjectWanted ==
  \A k \in Kinds, n \in Names : obj[k][n] # 0 => <<k, n, obj[k][n]>> \in wanted

(* c, the objects made so far, has one of kind k for one of the first u    *)
(* incarnations of n.                                                      *)
Existed(c, k, n, u) == \E v \in 1 .. u : <<k, n, v>> \in c

Reachable(c, n, u) ==
  /\ Existed(c, ServiceKind, n, u)
  /\ \E r \in RouteKinds : Existed(c, r, n, u)

(* No GameServer is annotated octops.io/ingress-ready before its name had  *)
(* a Service and a route, made for it or for an earlier GameServer of the  *)
(* same name; where names are not used again they were made for it.        *)
ReadyAfterResources == \A x \in announced : Reachable(created, x[1], x[2])

(* A step of a controller instance changes at most the ready annotation    *)
(* and the resourceVersion of a GameServer: however old the copy it sends  *)
(* with Update, no state written by Agones and no annotation edited by a   *)
(* user meanwhile is undone, and no deleted GameServer comes back.         *)
OnlyAnnotates(n) ==
  gs'[n] = gs[n] \/
  /\ gs[n] # NotFound
  /\ gs'[n] = [gs[n] EXCEPT !.rv = gs'[n].rv, !.annotations = WithReady(@)]
  /\ gs'[n].rv > gs[n].rv

ControllerOnlyAnnotates ==
  [][(\E i \in Instances : pc'[i] # pc[i]) => \A n \in Names : OnlyAnnotates(n)]_vars

(* The annotation is written once: a GameServer that carries it gets no    *)
(* new version from any instance.  Each write wakes every instance, and an *)
(* event from before it still says that the annotation is missing, so two  *)
(* instances could go on answering each other's writes.                    *)
AnnotatedOnce ==
  [][(\E i \in Instances : pc'[i] # pc[i]) =>
       \A n \in Names :
         gs[n] # NotFound /\ gs[n].annotations = WithReady(gs[n].annotations) => gs'[n] = gs[n]]_vars

(* The controllers together implement the abstract specification.          *)
P == INSTANCE Publication WITH
       Uids <- 1 .. MaxLives, Backend <- ServiceKind, Routes <- RouteKinds,
       asked <- wanted, published <- created

PublicationSpec == P!Spec

-----------------------------------------------------------------------------
(***************************************************************************)
(* The inductive invariant behind the safety properties.                   *)
(***************************************************************************)

(* g is a version that the API server has stored, when the names are in    *)
(* their lives l, the last resourceVersion is v and w has been asked for.  *)
StoredIn(g, l, v, w) ==
  /\ g.uid \in 1 .. l[g.name]
  /\ g.rv <= v
  /\ Wants(g) \subseteq w

(* What events, caches and handlers hold are stored versions.              *)
HoldsStored ==
  /\ \A n \in Names :
       /\ lives[n] <= MaxLives
       /\ gs[n] # NotFound =>
            /\ gs[n].name = n
            /\ gs[n].uid = lives[n]
            /\ StoredIn(gs[n], lives, version, wanted)
  /\ \A i \in Instances, n \in Names :
       /\ agones[i][n] # NotFound =>
            /\ agones[i][n].name = n
            /\ StoredIn(agones[i][n], lives, version, wanted)
       /\ \A j \in DOMAIN queue[i][n] :
            StoredIn(queue[i][n][j].object, lives, version, wanted)
  /\ \A i \in Instances :
       cur[i] # NotFound => StoredIn(cur[i], lives, version, wanted)

(* A resourceVersion identifies the version: a cached GameServer, or the   *)
(* copy about to be sent, that the API server would accept is the present  *)
(* one (for the copy: but for the annotation).                             *)
Coherent ==
  \A i \in Instances :
    /\ \A n \in Names :
         agones[i][n] # NotFound /\ gs[n] # NotFound /\ agones[i][n].rv = gs[n].rv
           => agones[i][n] = gs[n]
    /\ copy[i] # NotFound =>
         /\ copy[i].rv <= version
         /\ copy[i].name = cur[i].name
         /\ Accepts(copy[i]) =>
              copy[i] = [gs[copy[i].name] EXCEPT !.annotations = WithReady(@)]

(* An object in the cluster or in a cache was made by a controller, for an *)
(* incarnation that asked for it.                                          *)
Accounted ==
  /\ created \subseteq wanted
  /\ \A x \in created : x[3] \in 1 .. lives[x[2]]
  /\ \A k \in Kinds, n \in Names :
       /\ obj[k][n] # 0 => <<k, n, obj[k][n]>> \in created
       /\ \A i \in Instances :
            known[i][k][n] # 0 => <<k, n, known[i][k][n]>> \in created

(* How far a handler has come tells what exists.                           *)
Stage(i) ==
  /\ pc[i] \notin {"down", "synced", "idle"} =>
       cur[i] # NotFound /\ Reconcilable(cur[i])
  /\ pc[i] \in {"route", "createRoute", "annotate", "update"} =>
       Existed(created, ServiceKind, cur[i].name, lives[cur[i].name])
  /\ pc[i] = "createRoute" => Route(i) # "none"
  /\ pc[i] \in {"annotate", "update"} =>
       Reachable(created, cur[i].name, lives[cur[i].name])
  /\ pc[i] = "update" <=> copy[i] # NotFound

Stages == \A i \in Instances : Stage(i)

Announced ==
  /\ ReadyAfterResources
  /\ \A x \in announced : x[2] \in 1 .. MaxLives

(* Every instance handles stored versions only, knows only what was made   *)
(* on behalf of such a version, and sends an Update whose content is the   *)
(* present GameServer whenever its resourceVersion is the present one.     *)
IInv ==
  /\ TypeOK
  /\ HoldsStored
  /\ Coherent
  /\ Accounted
  /\ Stages
  /\ Announced

-----------------------------------------------------------------------------
(***************************************************************************)
(* Liveness.                                                               *)
(***************************************************************************)

(* Every Reconcile comes to an end, even if no cache ever catches up: the  *)
(* conflict retries are bounded.                                           *)
ReconcileTerminates ==
  \A i \in Instances : (cur[i] # NotFound) ~> (cur[i] = NotFound)

Routable(n) ==
  /\ gs[n] # NotFound
  /\ Reconcilable(gs[n])
  /\ MustAnnotate(gs[n]) # "error"
  /\ \A k \in {ServiceKind, RouteKind(gs[n])} : Builds(k, gs[n].annotations)

HasRoute(n) ==
  /\ obj[ServiceKind][n] = gs[n].uid
  /\ \E r \in RouteKinds : obj[r][n] = gs[n].uid

Routed(n) ==
  /\ obj[ServiceKind][n] = gs[n].uid
  /\ obj[RouteKind(gs[n])][n] = gs[n].uid
  /\ IsReady(gs[n])

(* A GameServer that stays Scheduled, RequestReady or Ready gets its own   *)
(* Service, the route it selects and the annotation, whatever failed       *)
(* before: errors are not requeued, the periodic resync makes up for it.   *)
(* It rests on the surroundings (informers, resyncs, restarts, collector)  *)
(* going on; the end of a single Reconcile above does not.                 *)
RoutableIsRouted ==
  EnvironmentFairness => \A n \in Names : Routable(n) ~> (~Routable(n) \/ Routed(n))

(* The annotation means that the routing resource is ready: a GameServer   *)
(* that carries it and has players allocated to it has, or comes to have,  *)
(* its Service and a route.                                                *)
AllocatedIsRouted ==
  \A n \in Names :
    LET InUse == gs[n] # NotFound /\ gs[n].state = "Allocated" /\ IsReady(gs[n])
    IN  InUse ~> (~InUse \/ HasRoute(n))
=============================================================================
