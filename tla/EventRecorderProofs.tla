------------------------ MODULE EventRecorderProofs ------------------------
(***************************************************************************)
(* What the controller tells is true, for any names, instances, manifests  *)
(* and bounds.  A step that tells is a step of IngressController, so IInv  *)
(* holds beside it.  With it, and with what queues and handlers hold of    *)
(* GameServers that cannot be built, the three properties are inductive.   *)
(***************************************************************************)
EXTENDS EventRecorder, IngressControllerProofs

(* A resource of the name has been created by some instance.               *)
Backed(k, n) == \E owner \in 1 .. MaxLives : <<k, n, owner>> \in created

(* Where a handler is between a Creating and its answer.                   *)
CreatePCs == {"createService", "createRoute"}

(* The kinds and the answers keep apart.                                   *)
LEMMA KindNames ==
  /\ ServiceKind \in Kinds /\ "none" \notin Kinds
  /\ \A g : RouteKind(g) \in Kinds
  /\ \A i : Route(i) # "none" => Route(i) = RouteKind(cur[i])
  BY DEF Kinds, ServiceKind, IngressKind, HTTPRouteKind, RouteKind, Route

(* What a GameServer of an event cannot have was noted when its version    *)
(* was stored, so a handler that fails late fails for a reason.            *)
Remembered ==
  /\ \A n \in Names : gs[n] # NotFound => Unbuildable(gs[n]) \subseteq unbuildable
  /\ \A i \in Instances, n \in Names : \A j \in DOMAIN queue[i][n] :
       Unbuildable(queue[i][n][j].object) \subseteq unbuildable
  /\ \A i \in Instances : cur[i] # NotFound => Unbuildable(cur[i]) \subseteq unbuildable

(* What is told is answered and true.                                      *)
ToldTrue ==
  /\ DOMAIN open = Instances
  /\ CreationsAnswered
  /\ CreatedIsBacked
  /\ FailuresAreReal

RecorderInv == IInv /\ Remembered /\ ToldTrue

-----------------------------------------------------------------------------
(* A step that tells, or stays silent, is a step of the controller.        *)
LEMMA TellIsNext == [TellNext]_allVars => [Next]_vars
  BY DEF TellNext, allVars, Silent, TellService, TellRoute, TellUpdate, TellCrash,
         Next, InstanceStep, HandlerStep

(* Faults are counted and creations remembered.                            *)
LEMMA HistoryGrows ==
  ASSUME IInv, [Next]_vars
  PROVE  faults \in Nat /\ faults' \in Nat /\ faults <= faults' /\ created \subseteq created'
<1>1. faults \in Nat
  BY DEF IInv, TypeOK
<1>2. ASSUME UNCHANGED faults \/ Fault PROVE faults' \in Nat /\ faults <= faults'
  BY <1>1, <1>2 DEF Fault
<1>3. UNCHANGED faults \/ Fault
  <2>1. ASSUME NEW n \in Names, ClusterStep(n) PROVE UNCHANGED faults \/ Fault
    BY <2>1, Zenon DEF ClusterStep, CreateGameServer, AgonesTransition, EditAnnotations,
         DeleteGameServer, GarbageCollect, UserDeletes
  <2>2. ASSUME NEW i \in Instances, InstanceStep(i) PROVE UNCHANGED faults \/ Fault
    BY <2>2 DEF InstanceStep, HandlerStep, SyncStores, StartManager, Crash, Panic, Handle,
         OnDelete, Skip, Reconcile, Resync, ObserveGameServer, Observe, ReconcileService,
         CreateService, Create, CreateRoute, ReconcileRoute, Annotate, Update,
         UpdateSucceeds, UpdateConflicts, UpdateFails
  <2>. QED BY <2>1, <2>2 DEF Next, vars
<1>4. created \subseteq created'
  <2>1. ASSUME NEW n \in Names, ClusterStep(n) PROVE created' = created
    BY <2>1 DEF ClusterStep, CreateGameServer, AgonesTransition, EditAnnotations,
         DeleteGameServer, GarbageCollect, UserDeletes, history
  <2>2. ASSUME NEW i \in Instances, NEW k, Insert(i, k) PROVE created \subseteq created'
    BY <2>2 DEF Insert
  <2>3. ASSUME NEW i \in Instances, InstanceStep(i) PROVE created \subseteq created'
    <3>1. CASE CreateService(i) \/ CreateRoute(i)
      BY <2>2, <3>1 DEF CreateService, CreateRoute, Create, history
    <3>2. CASE Update(i)
      BY <3>2 DEF Update, UpdateSucceeds, UpdateConflicts, UpdateFails, Write, history
    <3>. QED BY <2>3, <3>1, <3>2 DEF InstanceStep, HandlerStep, SyncStores, StartManager,
           Crash, Panic, Die, Handle, OnDelete, Skip, Reconcile, Resync, ObserveGameServer,
           Observe, ReconcileService, ReconcileRoute, Annotate, history
  <2>. QED BY <2>1, <2>3 DEF Next, vars, history
<1>. QED BY <1>1, <1>2, <1>3, <1>4

-----------------------------------------------------------------------------
(* i has an event of n with the object g.                                  *)
FromQueue(i, n, g) == \E l \in DOMAIN queue[i][n] : g = queue[i][n][l].object

(* What a step may put into a queue: what was in it or what is stored.     *)
QueuesFrom ==
  \A i \in Instances, n \in Names : \A j \in DOMAIN queue'[i][n] :
    LET g == queue'[i][n][j].object
    IN  \/ FromQueue(i, n, g)
        \/ gs[n] # NotFound /\ g = gs[n]
        \/ gs'[n] # NotFound /\ g = gs'[n]

(* A version that is stored, by whom ever, is sent to every instance.      *)
LEMMA StoreFeedsQueues ==
  ASSUME TypeOK, NEW n \in Names, NEW type \in {"add", "update"}, NEW g \in GameServers,
         Store(n, type, g)
  PROVE  QueuesFrom
<1>1. gs'[n] = g /\ g # NotFound
  BY NotFoundAssumption DEF Store, TypeOK
<1>2. \A i \in Instances, m \in Names : \A j \in DOMAIN queue'[i][m] :
        \/ m = n /\ queue'[i][m][j].object = g
        \/ \E k \in DOMAIN queue[i][m] : queue'[i][m][j].object = queue[i][m][k].object
  BY NotifyKeepsEvents DEF Store
<1>. QED BY <1>1, <1>2 DEF QueuesFrom, FromQueue

(* The events of the cluster.                                              *)
LEMMA ClusterFeedsQueues ==
  ASSUME IInv, NEW n \in Names, ClusterStep(n)
  PROVE  QueuesFrom
<1>1. TypeOK
  BY DEF IInv
<1>2. CASE CreateGameServer(n) \/ AgonesTransition(n) \/ EditAnnotations(n)
  <2>1. PICK type \in {"add", "update"}, g \in GameServers : Stores(n, type, g)
    BY <1>2, OthersStore
  <2>. QED BY <1>1, <2>1, StoreFeedsQueues DEF Stores
<1>3. CASE DeleteGameServer(n)
  <2>1. gs[n] # NotFound /\ gs[n] \in GameServers /\ Notify(n, "delete", gs[n])
    BY <1>1, <1>3 DEF DeleteGameServer, TypeOK
  <2>2. \A i \in Instances, m \in Names : \A j \in DOMAIN queue'[i][m] :
          \/ m = n /\ queue'[i][m][j].object = gs[n]
          \/ \E k \in DOMAIN queue[i][m] : queue'[i][m][j].object = queue[i][m][k].object
    BY <1>1, <2>1, NotifyKeepsEvents
  <2>. QED BY <2>1, <2>2 DEF QueuesFrom, FromQueue
<1>4. CASE \E k \in Kinds : GarbageCollect(k, n) \/ UserDeletes(k, n)
  BY <1>4 DEF GarbageCollect, UserDeletes, QueuesFrom, FromQueue
<1>. QED BY <1>2, <1>3, <1>4 DEF ClusterStep

(* The events of an instance: its list, its resyncs, its own Updates.      *)
LEMMA InstanceFeedsQueues ==
  ASSUME IInv, NEW i \in Instances, InstanceStep(i)
  PROVE  QueuesFrom
<1>1. TypeOK
  BY DEF IInv
<1>2. CASE UNCHANGED queue
  BY <1>2 DEF QueuesFrom, FromQueue
<1>3. CASE StartManager(i) \/ \E n \in Names : Resync(i, n) \/ Dequeue(i, n)
  <2>1. \A l \in Instances, m \in Names : \A j \in DOMAIN queue'[l][m] :
          \/ gs[m] # NotFound /\ queue'[l][m][j].object = gs[m]
          \/ \E k \in DOMAIN queue[l][m] : queue'[l][m][j].object = queue[l][m][k].object
    BY <1>1, <1>3, QueuesKeepEvents
  <2>. QED BY <2>1 DEF QueuesFrom, FromQueue
<1>4. CASE Die(i)
  <2>1. queue' = [queue EXCEPT ![i] = [n \in Names |-> << >>]]
    BY <1>4 DEF Die
  <2>2. \A l \in Instances, n \in Names :
          queue'[l][n] = << >> \/ queue'[l][n] = queue[l][n]
    BY <1>1, <2>1 DEF TypeOK
  <2>. QED BY <2>2 DEF QueuesFrom, FromQueue
<1>5. CASE Update(i) /\ Write(i)
  <2>1. pc[i] = "update" /\ Accepts(copy[i])
    BY <1>5 DEF Update, Write
  <2>2. /\ copy[i].name \in Names /\ gs[copy[i].name] \in GameServers
        /\ copy[i] = [gs[copy[i].name] EXCEPT !.annotations = WithReady(@)]
    BY <2>1, WriteOnlyAnnotates
  <2>3. copy[i] \in GameServers /\ version + 1 \in Nat
    <3>1. copy[i] \in GameServers \cup {NotFound} /\ copy[i] # NotFound
      BY <1>1, <2>1 DEF TypeOK, IInv, Stages, Stage
    <3>. QED BY <1>1, <3>1 DEF TypeOK
  <2>4. [copy[i] EXCEPT !.rv = version + 1] \in GameServers
    BY <2>3 DEF GameServers
  <2>5. \/ UNCHANGED queue
        \/ Store(copy[i].name, "update", [copy[i] EXCEPT !.rv = version + 1])
    BY <1>5 DEF Write
  <2>. QED BY <1>1, <1>2, <2>2, <2>4, <2>5, StoreFeedsQueues
<1>6. \/ UNCHANGED queue
      \/ StartManager(i) \/ \E n \in Names : Resync(i, n) \/ Dequeue(i, n)
      \/ Die(i)
      \/ Update(i) /\ Write(i)
  BY DEF InstanceStep, HandlerStep, SyncStores, Crash, Panic, Handle, OnDelete, Skip,
       Reconcile, ObserveGameServer, Observe, ReconcileService, CreateService,
       ReconcileRoute, CreateRoute, Annotate, Update, UpdateSucceeds, UpdateConflicts,
       UpdateFails
<1>. QED BY <1>2, <1>3, <1>4, <1>5, <1>6

(* A handler takes what it handles from its queue.                         *)
LEMMA HandledFromQueue ==
  ASSUME IInv, [Next]_vars, NEW l \in Instances
  PROVE  cur'[l] \in {cur[l], NotFound} \/ \E n \in Names : FromQueue(l, n, cur'[l])
<1>1. cur \in [Instances -> GameServers \cup {NotFound}]
      /\ queue \in [Instances -> [Names -> Seq(Events)]]
  BY DEF IInv, TypeOK
<1>2. CASE UNCHANGED cur
  BY <1>2
<1>3. CASE \E i \in Instances : cur' = [cur EXCEPT ![i] = NotFound]
  BY <1>1, <1>3
<1>4. ASSUME NEW i \in Instances, NEW n \in Names, Reconcile(i, n)
      PROVE  cur'[l] = cur[l] \/ FromQueue(l, n, cur'[l])
  <2>1. /\ cur' = [cur EXCEPT ![i] = Head(queue[i][n]).object]
        /\ queue[i][n] \in Seq(Events) /\ queue[i][n] # << >>
    BY <1>1, <1>4 DEF Reconcile, Dequeue
  <2>2. 1 \in DOMAIN queue[i][n] /\ Head(queue[i][n]) = queue[i][n][1]
    BY <2>1
  <2>. QED BY <1>1, <2>1, <2>2 DEF FromQueue
<1>5. \/ UNCHANGED cur
      \/ \E i \in Instances : cur' = [cur EXCEPT ![i] = NotFound]
      \/ \E i \in Instances, n \in Names : Reconcile(i, n)
  <2>1. CASE UNCHANGED vars
    BY <2>1 DEF vars, handler
  <2>2. ASSUME NEW n \in Names, ClusterStep(n) PROVE UNCHANGED cur
    BY <2>2 DEF ClusterStep, CreateGameServer, AgonesTransition, EditAnnotations,
         DeleteGameServer, GarbageCollect, UserDeletes, handler
  <2>3. ASSUME NEW i \in Instances, InstanceStep(i)
        PROVE  \/ UNCHANGED cur
               \/ cur' = [cur EXCEPT ![i] = NotFound]
               \/ \E n \in Names : Reconcile(i, n)
    BY <2>3 DEF InstanceStep, HandlerStep, SyncStores, StartManager, Crash, Panic, Die, Handle,
         OnDelete, Skip, Resync, ObserveGameServer, Observe, ReconcileService, LookUp, Goto,
         Return, CreateService, Create, ReconcileRoute, CreateRoute, Annotate, Update, Retry,
         handler
  <2>. QED BY <2>1, <2>2, <2>3 DEF Next
<1>. QED BY <1>2, <1>3, <1>4, <1>5

(* Nothing that is held is older than its note.                            *)
LEMMA NextRemembers ==
  ASSUME IInv, Remembered, [TellNext]_allVars
  PROVE  Remembered' /\ unbuildable \subseteq unbuildable'
<1>1. [Next]_vars
  BY TellIsNext
<1>2. unbuildable \subseteq unbuildable'
  BY DEF TellNext, Remember, allVars
<1>3. \A n \in Names : gs'[n] # NotFound => Unbuildable(gs'[n]) \subseteq unbuildable'
  <2>1. CASE Remember
    BY <2>1 DEF Remember
  <2>2. CASE UNCHANGED allVars
    BY <2>2 DEF allVars, vars, cluster, Remembered
  <2>. QED BY <2>1, <2>2 DEF TellNext
<1>4. QueuesFrom
  <2>1. CASE UNCHANGED vars
    BY <2>1 DEF vars, QueuesFrom, FromQueue
  <2>. QED BY <1>1, <2>1, ClusterFeedsQueues, InstanceFeedsQueues DEF Next
<1>5. ASSUME NEW i \in Instances, NEW n \in Names, NEW j \in DOMAIN queue'[i][n]
      PROVE  Unbuildable(queue'[i][n][j].object) \subseteq unbuildable'
  <2>. DEFINE g == queue'[i][n][j].object
  <2>1. \/ FromQueue(i, n, g)
        \/ gs[n] # NotFound /\ g = gs[n]
        \/ gs'[n] # NotFound /\ g = gs'[n]
    BY <1>4 DEF QueuesFrom
  <2>. HIDE DEF g
  <2>2. Unbuildable(g) \subseteq unbuildable'
    BY <1>2, <1>3, <2>1 DEF Remembered, FromQueue
  <2>. QED BY <2>2 DEF g
<1>6. ASSUME NEW i \in Instances, cur'[i] # NotFound
      PROVE  Unbuildable(cur'[i]) \subseteq unbuildable'
  <2>1. cur'[i] = cur[i] \/ \E n \in Names : FromQueue(i, n, cur'[i])
    BY <1>1, <1>6, HandledFromQueue
  <2>. QED BY <1>2, <1>6, <2>1 DEF Remembered, FromQueue
<1>7. (\A n \in Names : gs[n] # NotFound => Unbuildable(gs[n]) \subseteq unbuildable)'
  BY <1>3 DEF Unbuildable, Wants, RouteKind
<1>8. (\A i \in Instances, n \in Names : \A j \in DOMAIN queue[i][n] :
         Unbuildable(queue[i][n][j].object) \subseteq unbuildable)'
  BY <1>5 DEF Unbuildable, Wants, RouteKind
<1>9. (\A i \in Instances : cur[i] # NotFound => Unbuildable(cur[i]) \subseteq unbuildable)'
  BY <1>6 DEF Unbuildable, Wants, RouteKind
<1>. QED BY <1>2, <1>7, <1>8, <1>9 DEF Remembered

-----------------------------------------------------------------------------
(* What has been told stays true, so a step needs to answer for the events *)
(* it adds.                                                                *)
LEMMA ToldFrame ==
  ASSUME RecorderInv, [Next]_vars, unbuildable \subseteq unbuildable',
         \A k \in Kinds, n \in Names, u \in 1 .. MaxLives :
           /\ <<"Created", k, n, u>> \in told' \ told => Backed(k, n)'
           /\ faults' = 0 /\ <<"Failed", k, n, u>> \in told' \ told =>
                <<k, n, u>> \in unbuildable'
  PROVE  CreatedIsBacked' /\ FailuresAreReal'
<1>1. faults \in Nat /\ faults' \in Nat /\ faults <= faults' /\ created \subseteq created'
  BY HistoryGrows DEF RecorderInv
<1>2. \A k \in Kinds, n \in Names : Backed(k, n) => Backed(k, n)'
  BY <1>1 DEF Backed
<1>3. CreatedIsBacked'
  BY <1>2 DEF RecorderInv, ToldTrue, CreatedIsBacked, Backed
<1>4. faults' = 0 => faults = 0
  BY <1>1
<1>5. FailuresAreReal'
  BY <1>4 DEF RecorderInv, ToldTrue, FailuresAreReal
<1>. QED BY <1>3, <1>5

(* Instance i moves: the others' creations are as open as before.          *)
LEMMA OpenFrame ==
  ASSUME RecorderInv, NEW i \in Instances, NEW v,
         open' = [open EXCEPT ![i] = v],
         \A j \in Instances : j # i => pc'[j] = pc[j],
         pc'[i] \notin CreatePCs => v = "none"
  PROVE  DOMAIN open' = Instances /\ CreationsAnswered'
  BY DEF RecorderInv, ToldTrue, CreationsAnswered, CreatePCs

(* A step that tells nothing and moves no handler out of a creation.       *)
LEMMA UntoldFrame ==
  ASSUME RecorderInv, [Next]_vars, unbuildable \subseteq unbuildable', UNCHANGED recorder,
         \A j \in Instances : pc'[j] \notin CreatePCs => pc[j] \notin CreatePCs
  PROVE  ToldTrue'
<1>1. CreatedIsBacked' /\ FailuresAreReal'
  <2>1. told' = told
    BY DEF recorder
  <2>2. faults \in Nat /\ faults' \in Nat /\ faults <= faults' /\ created \subseteq created'
    BY HistoryGrows DEF RecorderInv
  <2>. QED BY <2>1, <2>2 DEF RecorderInv, ToldTrue, CreatedIsBacked, FailuresAreReal
<1>2. DOMAIN open' = Instances /\ CreationsAnswered'
  BY DEF RecorderInv, ToldTrue, recorder, CreationsAnswered, CreatePCs
<1>. QED BY <1>1, <1>2 DEF ToldTrue

-----------------------------------------------------------------------------
(* The look-up opens a creation exactly if it goes on to make it; what it  *)
(* reports as failed, the options refuse to the version it handles.        *)
LEMMA LookUpKeepsToldTrue ==
  ASSUME RecorderInv, [Next]_vars, unbuildable \subseteq unbuildable', NEW i \in Instances,
         NEW k \in {ServiceKind, RouteKind(cur[i])},
         NEW found \in PCs \ CreatePCs, NEW create \in CreatePCs,
         pc[i] \notin {"down", "synced", "idle"}, pc[i] \notin CreatePCs,
         LookUp(i, k, found, create), LookUpTells(i, k, create)
  PROVE  ToldTrue'
<1>1. /\ TypeOK /\ create \in PCs /\ create # "idle" /\ found # create
      /\ cur[i] \in GameServers
  BY Handled DEF RecorderInv, IInv, CreatePCs, PCs
<1>2. /\ \A j \in Instances : j # i => pc'[j] = pc[j]
      /\ \/ known[i][k][cur[i].name] # 0 /\ pc'[i] = found
         \/ known[i][k][cur[i].name] = 0 /\ Builds(k, cur[i].annotations) /\ pc'[i] = create
         \/ known[i][k][cur[i].name] = 0 /\ ~Builds(k, cur[i].annotations) /\ pc'[i] = "idle"
  <2>1. ASSUME NEW label \in PCs, Goto(i, label)
        PROVE  pc'[i] = label /\ \A j \in Instances : j # i => pc'[j] = pc[j]
    BY <1>1, <2>1 DEF Goto, TypeOK
  <2>2. ASSUME Return(i)
        PROVE  pc'[i] = "idle" /\ \A j \in Instances : j # i => pc'[j] = pc[j]
    BY <1>1, <2>2 DEF Return, TypeOK
  <2>. QED BY <1>1, <2>1, <2>2 DEF LookUp
<1>3. CASE known[i][k][cur[i].name] # 0
  <2>1. UNCHANGED recorder
    BY <1>3 DEF LookUpTells
  <2>2. \A j \in Instances : pc'[j] \notin CreatePCs => pc[j] \notin CreatePCs
    BY <1>2, <1>3
  <2>. QED BY <2>1, <2>2, UntoldFrame
<1>4. CASE known[i][k][cur[i].name] = 0
  <2>1. DOMAIN open' = Instances /\ CreationsAnswered'
    <3>1. open' = [open EXCEPT ![i] = IF pc'[i] = create THEN k ELSE "none"]
      BY <1>4 DEF LookUpTells
    <3>2. pc'[i] \notin CreatePCs => (IF pc'[i] = create THEN k ELSE "none") = "none"
      OBVIOUS
    <3>. QED BY <1>2, <3>1, <3>2, OpenFrame
  <2>2. told' = told \cup RecordCreating(i, k) \cup RecordWarning(i, k)
                     \cup (IF pc'[i] = create THEN {} ELSE RecordFailed(i, k))
    BY <1>4 DEF LookUpTells
  <2>3. pc'[i] # create => <<k, cur[i].name, cur[i].uid>> \in unbuildable'
    <3>1. Reconcilable(cur[i]) /\ Unbuildable(cur[i]) \subseteq unbuildable
      BY DEF RecorderInv, Remembered, IInv, Stages, Stage
    <3>2. <<k, cur[i].name, cur[i].uid>> \in Wants(cur[i])
      BY <3>1 DEF Wants
    <3>3. ~Builds(k, cur[i].annotations) => <<k, cur[i].name, cur[i].uid>> \in Unbuildable(cur[i])
      BY <3>2 DEF Unbuildable
    <3>. QED BY <1>2, <1>4, <3>1, <3>3
  <2>4. ASSUME NEW kk \in Kinds, NEW n \in Names, NEW u \in 1 .. MaxLives
        PROVE  /\ <<"Created", kk, n, u>> \notin told' \ told
               /\ <<"Failed", kk, n, u>> \in told' \ told =>
                    kk = k /\ n = cur[i].name /\ u = cur[i].uid /\ pc'[i] # create
    BY <2>2 DEF RecordCreating, RecordWarning, RecordFailed, About
  <2>5. CreatedIsBacked' /\ FailuresAreReal'
    BY <2>3, <2>4, ToldFrame
  <2>. QED BY <2>1, <2>5 DEF ToldTrue
<1>. QED BY <1>3, <1>4

(* The answer closes the creation: success is told when the object exists, *)
(* failure when a call has failed.                                         *)
LEMMA CreateKeepsToldTrue ==
  ASSUME RecorderInv, [Next]_vars, unbuildable \subseteq unbuildable', NEW i \in Instances, NEW k \in Kinds,
         NEW next \in PCs \ {"idle"}, pc[i] \in CreatePCs,
         Create(i, k, next), CreateTells(i, k, next)
  PROVE  ToldTrue'
<1>1. IInv /\ TypeOK
  BY DEF RecorderInv, IInv
<1>2. /\ cur[i].name \in Names /\ cur[i].uid \in 1 .. lives[cur[i].name]
      /\ obj[k][cur[i].name] # 0 => Existed(created, k, cur[i].name, lives[cur[i].name])
  BY <1>1, Handled DEF CreatePCs
<1>3. 1 .. lives[cur[i].name] \subseteq 1 .. MaxLives
  BY <1>1, <1>2, BoundsAssumption DEF IInv, HoldsStored, TypeOK
<1>4. \A j \in Instances : j # i => pc'[j] = pc[j]
  BY <1>1 DEF Create, Goto, Return, TypeOK
<1>5. pc'[i] = next \/ (pc'[i] = "idle" /\ Fault)
  BY <1>1 DEF Create, Goto, Return, TypeOK
<1>6. pc'[i] = next => \E owner \in 1 .. MaxLives : <<k, cur[i].name, owner>> \in created'
  <2>. SUFFICES ASSUME pc'[i] = next
                PROVE  \E owner \in 1 .. MaxLives : <<k, cur[i].name, owner>> \in created'
    OBVIOUS
  <2>1. Insert(i, k) \/ (obj[k][cur[i].name] # 0 /\ UNCHANGED history)
    BY <1>1 DEF Create, Goto, Return, TypeOK
  <2>2. CASE Insert(i, k)
    BY <1>2, <1>3, <2>1, <2>2 DEF Insert
  <2>3. CASE obj[k][cur[i].name] # 0 /\ UNCHANGED history
    BY <1>2, <1>3, <2>1, <2>3 DEF Existed, history
  <2>. QED BY <2>1, <2>2, <2>3
<1>7. DOMAIN open' = Instances /\ CreationsAnswered'
  BY <1>4, OpenFrame DEF CreateTells
<1>8. told' = told \cup (IF pc'[i] = next THEN RecordSuccess(i, k) ELSE RecordFailed(i, k))
  BY DEF CreateTells
<1>9. ASSUME NEW kk \in Kinds, NEW n \in Names, NEW u \in 1 .. MaxLives
      PROVE  /\ <<"Created", kk, n, u>> \in told' \ told =>
                   kk = k /\ n = cur[i].name /\ pc'[i] = next
             /\ <<"Failed", kk, n, u>> \in told' \ told => pc'[i] # next
  BY <1>8 DEF RecordSuccess, RecordFailed, About
<1>10. pc'[i] # next => faults' # 0
  BY <1>1, <1>5 DEF Fault, TypeOK
<1>11. CreatedIsBacked' /\ FailuresAreReal'
  BY <1>6, <1>9, <1>10, ToldFrame DEF Backed
<1>. QED BY <1>7, <1>11 DEF ToldTrue

(* The Service reconciler.                                                 *)
LEMMA TellServiceKeepsToldTrue ==
  ASSUME RecorderInv, [Next]_vars, unbuildable \subseteq unbuildable', NEW i \in Instances, TellService(i)
  PROVE  ToldTrue'
<1>. USE DEF PCs, CreatePCs
<1>1. CASE ReconcileService(i) /\ LookUpTells(i, ServiceKind, "createService")
  <2>1. pc[i] = "service" /\ LookUp(i, ServiceKind, "route", "createService")
    BY <1>1 DEF ReconcileService
  <2>. QED BY <1>1, <2>1, LookUpKeepsToldTrue
<1>2. CASE CreateService(i) /\ CreateTells(i, ServiceKind, "route")
  <2>1. pc[i] = "createService" /\ Create(i, ServiceKind, "route")
    BY <1>2 DEF CreateService
  <2>. QED BY <1>2, <2>1, KindNames, CreateKeepsToldTrue
<1>. QED BY <1>1, <1>2 DEF TellService

(* The reconciler of the route, or the error of there being none.          *)
LEMMA TellRouteKeepsToldTrue ==
  ASSUME RecorderInv, [Next]_vars, unbuildable \subseteq unbuildable', NEW i \in Instances, TellRoute(i)
  PROVE  ToldTrue'
<1>. USE DEF PCs, CreatePCs
<1>1. CASE ReconcileRoute(i) /\ Route(i) = "none" /\ UNCHANGED recorder
  <2>1. pc[i] = "route" /\ Return(i)
    BY <1>1 DEF ReconcileRoute
  <2>2. \A j \in Instances : pc'[j] \notin CreatePCs => pc[j] \notin CreatePCs
    BY <2>1 DEF Return, RecorderInv, IInv, TypeOK
  <2>. QED BY <1>1, <2>2, UntoldFrame
<1>2. CASE /\ ReconcileRoute(i) /\ Route(i) # "none"
           /\ LookUpTells(i, Route(i), "createRoute")
  <2>1. pc[i] = "route" /\ LookUp(i, Route(i), "annotate", "createRoute")
    BY <1>2 DEF ReconcileRoute
  <2>2. Route(i) = RouteKind(cur[i])
    BY <1>2, KindNames
  <2>. QED BY <1>2, <2>1, <2>2, LookUpKeepsToldTrue
<1>3. CASE CreateRoute(i) /\ CreateTells(i, Route(i), "annotate")
  <2>1. pc[i] = "createRoute" /\ Create(i, Route(i), "annotate")
    BY <1>3 DEF CreateRoute
  <2>2. Route(i) \in Kinds
    BY <2>1, KindNames DEF RecorderInv, IInv, Stages, Stage
  <2>. QED BY <1>3, <2>1, <2>2, CreateKeepsToldTrue
<1>. QED BY <1>1, <1>2, <1>3 DEF TellRoute

(* Updates and deprecations are no answers to a creation.                  *)
LEMMA TellUpdateKeepsToldTrue ==
  ASSUME RecorderInv, [Next]_vars, unbuildable \subseteq unbuildable', NEW i \in Instances, TellUpdate(i)
  PROVE  ToldTrue'
<1>1. pc[i] = "update" /\ \A j \in Instances : j # i => pc'[j] = pc[j]
  BY DEF TellUpdate, Update, Return, Retry, RecorderInv, IInv, TypeOK
<1>2. DOMAIN open' = Instances /\ CreationsAnswered'
  BY <1>1 DEF TellUpdate, RecorderInv, ToldTrue, CreationsAnswered
<1>3. told' = told \/ told' = told \cup RecordEvent(copy[i])
  BY DEF TellUpdate
<1>4. ASSUME NEW k \in Kinds, NEW n \in Names, NEW u \in 1 .. MaxLives
      PROVE  /\ <<"Created", k, n, u>> \notin told' \ told
             /\ <<"Failed", k, n, u>> \notin told' \ told
  BY <1>3 DEF RecordEvent
<1>5. CreatedIsBacked' /\ FailuresAreReal'
  BY <1>4, ToldFrame
<1>. QED BY <1>2, <1>5 DEF ToldTrue

(* What a process had open dies with it.                                   *)
LEMMA TellCrashKeepsToldTrue ==
  ASSUME RecorderInv, [Next]_vars, unbuildable \subseteq unbuildable', NEW i \in Instances, TellCrash(i)
  PROVE  ToldTrue'
<1>1. \A j \in Instances : j # i => pc'[j] = pc[j]
  BY DEF TellCrash, Crash, Panic, Die, RecorderInv, IInv, TypeOK
<1>2. DOMAIN open' = Instances /\ CreationsAnswered'
  BY <1>1, OpenFrame DEF TellCrash
<1>3. CreatedIsBacked' /\ FailuresAreReal'
  BY ToldFrame DEF TellCrash
<1>. QED BY <1>2, <1>3 DEF ToldTrue

(* The steps that record nothing start or continue no creation.            *)
LEMMA SilentKeepsToldTrue ==
  ASSUME RecorderInv, [Next]_vars, unbuildable \subseteq unbuildable', UNCHANGED recorder,
         (\E n \in Names : ClusterStep(n)) \/ \E i \in Instances : Silent(i)
  PROVE  ToldTrue'
<1>1. pc \in [Instances -> PCs]
  BY DEF RecorderInv, IInv, TypeOK
<1>2. CASE \E n \in Names : ClusterStep(n)
  <2>1. UNCHANGED pc
    BY <1>2 DEF ClusterStep, CreateGameServer, AgonesTransition, EditAnnotations,
         DeleteGameServer, GarbageCollect, UserDeletes, handler
  <2>. QED BY <2>1, UntoldFrame
<1>3. CASE \E i \in Instances : Silent(i)
  <2>1. PICK i \in Instances : Silent(i)
    BY <1>3
  <2>2. \/ UNCHANGED pc
        \/ pc[i] \in {"down", "synced", "idle", "annotate"} /\ \E l : pc' = [pc EXCEPT ![i] = l]
    BY <2>1 DEF Silent, SyncStores, StartManager, Annotate, Return, Handle, OnDelete, Skip,
         Reconcile, Dequeue, Resync, ObserveGameServer, Observe, handler
  <2>3. \A j \in Instances : pc'[j] \notin CreatePCs => pc[j] \notin CreatePCs
    BY <1>1, <2>2 DEF CreatePCs
  <2>. QED BY <2>3, UntoldFrame
<1>. QED BY <1>2, <1>3

(* Every step keeps the invariant.                                         *)
LEMMA NextRecorderInv == RecorderInv /\ [TellNext]_allVars => RecorderInv'
<1>. SUFFICES ASSUME RecorderInv, [TellNext]_allVars PROVE RecorderInv'
  OBVIOUS
<1>1. [Next]_vars
  BY TellIsNext
<1>2. IInv'
  BY <1>1, NextKeepsIInv DEF RecorderInv
<1>3. Remembered' /\ unbuildable \subseteq unbuildable'
  BY NextRemembers DEF RecorderInv
<1>4. CASE UNCHANGED allVars
  <2>1. UNCHANGED recorder /\ UNCHANGED pc
    BY <1>4 DEF allVars, vars, handler
  <2>2. ToldTrue'
    BY <1>1, <1>3, <2>1, UntoldFrame
  <2>. QED BY <1>2, <1>3, <2>2 DEF RecorderInv
<1>5. CASE TellNext
  <2>1. ToldTrue'
    BY <1>1, <1>3, <1>5, TellServiceKeepsToldTrue, TellRouteKeepsToldTrue,
       TellUpdateKeepsToldTrue, TellCrashKeepsToldTrue, SilentKeepsToldTrue DEF TellNext
  <2>. QED BY <1>2, <1>3, <2>1 DEF RecorderInv
<1>. QED BY <1>4, <1>5

(* Before anything is told.                                                *)
LEMMA InitRecorderInv == TellInit => RecorderInv
<1>. SUFFICES ASSUME TellInit PROVE RecorderInv
  OBVIOUS
<1>1. IInv
  BY InitIInv DEF TellInit
<1>2. Remembered
  BY DEF TellInit, Init, Remembered
<1>3. ToldTrue
  BY DEF TellInit, ToldTrue, CreationsAnswered, CreatedIsBacked, FailuresAreReal
<1>. QED BY <1>1, <1>2, <1>3 DEF RecorderInv

-----------------------------------------------------------------------------
(* In every reachable state, what was told is backed by what was done.     *)
THEOREM RecorderInvariance == TellSpec => []RecorderInv
  BY InitRecorderInv, NextRecorderInv, PTL DEF TellSpec

(* Recording changes nothing of what the controllers do: its safety, its   *)
(* action property and its refinement of Publication carry over.           *)
THEOREM RecordingIsPassive == TellSpec => Spec
<1>1. TellInit => Init
  BY DEF TellInit
<1>. QED BY <1>1, TellIsNext, PTL DEF TellSpec, Spec

(* No reader of the events is left with a creation that neither succeeded  *)
(* nor failed once its handler has moved on.                               *)
THEOREM NoOpenCreation == TellSpec => []CreationsAnswered
<1>1. RecorderInv => CreationsAnswered
  BY DEF RecorderInv, ToldTrue
<1>. QED BY <1>1, RecorderInvariance, PTL

(* "Created" is told of resources that some instance did create.           *)
THEOREM CreatedIsTrue == TellSpec => []CreatedIsBacked
<1>1. RecorderInv => CreatedIsBacked
  BY DEF RecorderInv, ToldTrue
<1>. QED BY <1>1, RecorderInvariance, PTL

(* "Failed" is told, where no call has failed, of what the options refused *)
(* to a version of the very GameServer it is told of.                      *)
THEOREM NoFalseAlarm == TellSpec => []FailuresAreReal
<1>1. RecorderInv => FailuresAreReal
  BY DEF RecorderInv, ToldTrue
<1>. QED BY <1>1, RecorderInvariance, PTL

(* With the recorder too, a step of the controller changes nothing of a    *)
(* GameServer but its annotation and its resourceVersion.                  *)
THEOREM RecordingAnnotatesOnly == TellSpec => ControllerOnlyAnnotates
  BY RecordingIsPassive, NoLostUpdate, PTL

(* With the recorder too, no instance answers another's annotation.        *)
THEOREM RecordingAnnotatesOnce == TellSpec => AnnotatedOnce
  BY RecordingIsPassive, OneAnnotation, PTL

(* With the recorder too, the controllers implement Publication.           *)
THEOREM RecordingRefines == TellSpec => PublicationSpec
  BY RecordingIsPassive, Refinement, PTL
=============================================================================
