----------------------- MODULE IngressControllerProofs -----------------------
(***************************************************************************)
(* The safety of IngressController, for any names, instances, annotations, *)
(* life cycle and bounds: IInv is inductive, and the safety properties,    *)
(* the action property and the abstract specification follow from it.      *)
(***************************************************************************)
EXTENDS IngressController, TLAPS

-----------------------------------------------------------------------------
(***************************************************************************)
(* Annotations.                                                            *)
(***************************************************************************)

(* Setting octops.io/ingress-ready twice is setting it once.               *)
LEMMA WithReadyIdempotent ==
  ASSUME NEW a PROVE WithReady(WithReady(a)) = WithReady(a)
  BY DEF WithReady

(* The annotated map of a GameServer is one of the maps it may carry.      *)
LEMMA WithReadyClosed ==
  ASSUME NEW a \in AnnotationMaps PROVE WithReady(a) \in AnnotationMaps
<1>1. CASE a \in Manifests
  BY <1>1 DEF AnnotationMaps
<1>2. CASE \E m \in Manifests : a = WithReady(m)
  BY <1>2, WithReadyIdempotent DEF AnnotationMaps
<1>. QED BY <1>1, <1>2 DEF AnnotationMaps

(* The annotation changes nothing the handler's early returns and its      *)
(* choice of the backend look at.                                          *)
LEMMA WithReadyWants ==
  ASSUME NEW g \in GameServers, NEW v \in Nat
  PROVE  Wants([g EXCEPT !.rv = v, !.annotations = WithReady(@)]) = Wants(g)
<1>. DEFINE h == [g EXCEPT !.rv = v, !.annotations = WithReady(g.annotations)]
<1>1. /\ h.name = g.name /\ h.uid = g.uid /\ h.state = g.state
      /\ h.annotations = WithReady(g.annotations)
  BY DEF GameServers
<1>2. ASSUME NEW key \in {IngressMode, RouterBackend}
      PROVE  /\ HasAnnotation(h, key) <=> HasAnnotation(g, key)
             /\ HasAnnotation(g, key) => h.annotations[key] = g.annotations[key]
  BY <1>1 DEF HasAnnotation, WithReady, IngressMode, RouterBackend, IngressReady
<1>. HIDE DEF h
<1>3. Reconcilable(h) <=> Reconcilable(g)
  BY <1>1, <1>2 DEF Reconcilable, IsShutdown, MustReconcile
<1>4. RouteKind(h) = RouteKind(g)
  BY <1>2 DEF RouteKind, GetRouterBackend
<1>5. Wants(h) = Wants(g)
  BY <1>1, <1>3, <1>4 DEF Wants
<1>. QED BY <1>5 DEF h

(* A GameServer that Agones moves to a new state is a GameServer still,    *)
(* the same incarnation under the new resourceVersion.                     *)
LEMMA NewState ==
  ASSUME NEW g \in GameServers, NEW v \in Nat, NEW s \in GameServerState
  PROVE  /\ [g EXCEPT !.rv = v, !.state = s] \in GameServers
         /\ [g EXCEPT !.rv = v, !.state = s].name = g.name
         /\ [g EXCEPT !.rv = v, !.state = s].uid = g.uid
         /\ [g EXCEPT !.rv = v, !.state = s].rv = v
<1>. DEFINE h == [g EXCEPT !.rv = v]
<1>1. h \in GameServers /\ h.name = g.name /\ h.uid = g.uid /\ h.rv = v
  BY DEF GameServers
<1>. HIDE DEF h
<1>2. /\ [h EXCEPT !.state = s] \in GameServers
      /\ [h EXCEPT !.state = s].name = g.name
      /\ [h EXCEPT !.state = s].uid = g.uid
      /\ [h EXCEPT !.state = s].rv = v
  BY <1>1 DEF GameServers
<1>. QED BY <1>2, Zenon DEF h

(* A GameServer whose annotations a user edits is a GameServer still, the  *)
(* same incarnation under the new resourceVersion.                         *)
LEMMA NewAnnotations ==
  ASSUME NEW g \in GameServers, NEW v \in Nat, NEW a \in AnnotationMaps
  PROVE  /\ [g EXCEPT !.rv = v, !.annotations = a] \in GameServers
         /\ [g EXCEPT !.rv = v, !.annotations = a].name = g.name
         /\ [g EXCEPT !.rv = v, !.annotations = a].uid = g.uid
         /\ [g EXCEPT !.rv = v, !.annotations = a].rv = v
<1>. DEFINE h == [g EXCEPT !.rv = v]
<1>1. h \in GameServers /\ h.name = g.name /\ h.uid = g.uid /\ h.rv = v
  BY DEF GameServers
<1>. HIDE DEF h
<1>2. /\ [h EXCEPT !.annotations = a] \in GameServers
      /\ [h EXCEPT !.annotations = a].name = g.name
      /\ [h EXCEPT !.annotations = a].uid = g.uid
      /\ [h EXCEPT !.annotations = a].rv = v
  BY <1>1 DEF GameServers
<1>. QED BY <1>2, Zenon DEF h

(* Annotating and giving a new resourceVersion, in either order.           *)
LEMMA AnnotatedVersion ==
  ASSUME NEW g \in GameServers, NEW v
  PROVE  [[g EXCEPT !.annotations = WithReady(@)] EXCEPT !.rv = v]
           = [g EXCEPT !.rv = v, !.annotations = WithReady(@)]
<1>. DEFINE a == WithReady(g.annotations)
<1>1. [[g EXCEPT !.annotations = a] EXCEPT !.rv = v] = [[g EXCEPT !.rv = v] EXCEPT !.annotations = a]
  BY DEF GameServers
<1>2. [g EXCEPT !.rv = v, !.annotations = WithReady(@)] = [[g EXCEPT !.rv = v] EXCEPT !.annotations = a]
  BY Zenon
<1>. QED BY <1>1, <1>2, Zenon

-----------------------------------------------------------------------------
(***************************************************************************)
(* Queues.                                                                 *)
(***************************************************************************)

(* An event of a queue is an event.                                        *)
LEMMA EventOf ==
  ASSUME NEW q \in Seq(Events), NEW j \in DOMAIN q
  PROVE  q[j] \in Events /\ q[j].object \in GameServers
<1>1. q[j] \in Events
  OBVIOUS
<1>2. QED BY <1>1 DEF Events

(* A stored version stays one: nothing is forgotten.                       *)
LEMMA StoredMonotone ==
  ASSUME NEW g \in GameServers,
         NEW l \in [Names -> Nat], NEW v \in Nat, NEW w,
         NEW l2 \in [Names -> Nat], NEW v2 \in Nat, NEW w2,
         StoredIn(g, l, v, w),
         \A m \in Names : l[m] <= l2[m], v <= v2, w \subseteq w2
  PROVE  StoredIn(g, l2, v2, w2)
<1>. g.name \in Names /\ g.uid \in Nat /\ g.rv \in Nat
  BY DEF GameServers
<1>. QED BY DEF StoredIn

(* Storing a new version of n: it and all that was held before are stored  *)
(* versions, and no cache, no copy has its resourceVersion.                *)
LEMMA StoreStep ==
  ASSUME IInv, NEW n \in Names, NEW type \in {"add", "update"}, NEW g \in GameServers,
         Store(n, type, g),
         g.name = n, g.uid = lives'[n], g.uid > 0, g.rv = version + 1,
         lives' \in [Names -> Nat],
         \A m \in Names : lives[m] <= lives'[m] /\ lives'[m] <= MaxLives,
         \A m \in Names : m # n => lives'[m] = lives[m],
         agones' = agones,
         cur' \in [Instances -> GameServers \cup {NotFound}],
         copy' \in [Instances -> GameServers \cup {NotFound}],
         \A i \in Instances : cur'[i] # NotFound => cur'[i] = cur[i],
         \A i \in Instances : copy'[i] # NotFound =>
                                copy'[i] = copy[i] /\ cur'[i] = cur[i]
  PROVE  /\ gs' \in [Names -> GameServers \cup {NotFound}]
         /\ version' \in Nat
         /\ queue' \in [Instances -> [Names -> Seq(Events)]]
         /\ wanted' \subseteq Kinds \X Names \X Nat
         /\ HoldsStored'
         /\ Coherent'
<1>. USE NotFoundAssumption
<1>1. /\ TypeOK /\ HoldsStored /\ Coherent
  BY DEF IInv
<1>2. /\ gs' = [gs EXCEPT ![n] = g]
      /\ version' = version + 1
      /\ wanted' = wanted \cup Wants(g)
      /\ queue' = [i \in Instances |->
              IF Listening(i)
              THEN [queue[i] EXCEPT ![n] = Append(@, [type |-> type, object |-> g])]
              ELSE queue[i]]
  BY DEF Store, Notify
<1>3. version \in Nat /\ version' \in Nat /\ version < version'
  BY <1>1, <1>2 DEF TypeOK
<1>4. gs' \in [Names -> GameServers \cup {NotFound}]
  BY <1>1, <1>2 DEF TypeOK
<1>5. Wants(g) \subseteq Kinds \X Names \X Nat
  BY DEF Wants, GameServers, RouteKind, Kinds, ServiceKind, IngressKind, HTTPRouteKind
<1>6. wanted' \subseteq Kinds \X Names \X Nat
  BY <1>1, <1>2, <1>5 DEF TypeOK
<1>7. [type |-> type, object |-> g] \in Events
  BY DEF Events
<1>8. queue' \in [Instances -> [Names -> Seq(Events)]]
  BY <1>1, <1>2, <1>7 DEF TypeOK
<1>9. ASSUME NEW h \in GameServers, StoredIn(h, lives, version, wanted)
      PROVE  StoredIn(h, lives', version', wanted')
  <2>1. lives \in [Names -> Nat] /\ version <= version' /\ wanted \subseteq wanted'
    BY <1>1, <1>2, <1>3 DEF TypeOK
  <2>. QED BY <1>3, <1>9, <2>1, StoredMonotone
<1>10. StoredIn(g, lives', version', wanted')
  <2>1. g.uid \in Nat /\ lives'[g.name] \in Nat
    BY DEF GameServers
  <2>. QED BY <1>2, <1>3, <2>1 DEF StoredIn
<1>11. ASSUME NEW m \in Names, gs'[m] # NotFound
       PROVE  gs'[m].name = m /\ gs'[m].uid = lives'[m] /\ StoredIn(gs'[m], lives', version', wanted')
  <2>1. CASE m = n
    BY <1>1, <1>2, <1>10, <2>1 DEF TypeOK
  <2>2. CASE m # n
    <3>1. gs'[m] = gs[m] /\ gs[m] \in GameServers /\ lives'[m] = lives[m]
      BY <1>1, <1>2, <1>11, <2>2 DEF TypeOK
    <3>2. /\ gs[m].name = m /\ gs[m].uid = lives[m]
          /\ StoredIn(gs[m], lives, version, wanted)
      BY <1>1, <1>11, <3>1 DEF HoldsStored
    <3>. QED BY <1>9, <3>1, <3>2
  <2>. QED BY <2>1, <2>2
<1>12. ASSUME NEW i \in Instances, NEW m \in Names
       PROVE  /\ agones'[i][m] # NotFound =>
                   agones'[i][m].name = m /\ StoredIn(agones'[i][m], lives', version', wanted')
              /\ \A j \in DOMAIN queue'[i][m] : StoredIn(queue'[i][m][j].object, lives', version', wanted')
  <2>1. agones'[i][m] # NotFound => agones'[i][m].name = m /\ StoredIn(agones'[i][m], lives', version', wanted')
    BY <1>1, <1>9 DEF TypeOK, HoldsStored
  <2>2. ASSUME NEW j \in DOMAIN queue[i][m] PROVE StoredIn(queue[i][m][j].object, lives', version', wanted')
    <3>1. queue[i][m] \in Seq(Events)
      BY <1>1 DEF TypeOK
    <3>2. queue[i][m][j].object \in GameServers
      BY <2>2, <3>1, EventOf
    <3>3. StoredIn(queue[i][m][j].object, lives, version, wanted)
      BY <1>1, <2>2 DEF HoldsStored
    <3>. QED BY <1>9, <3>2, <3>3
  <2>3. ASSUME NEW j \in DOMAIN queue'[i][m]
        PROVE  \/ j \in DOMAIN queue[i][m] /\ queue'[i][m][j] = queue[i][m][j]
               \/ queue'[i][m][j] = [type |-> type, object |-> g]
    BY <1>1, <1>2, <1>7, <2>3 DEF TypeOK
  <2>4. ASSUME NEW j \in DOMAIN queue'[i][m] PROVE StoredIn(queue'[i][m][j].object, lives', version', wanted')
    BY <1>10, <2>2, <2>3, <2>4
  <2>. QED BY <2>1, <2>4
<1>13. ASSUME NEW i \in Instances, cur'[i] # NotFound PROVE StoredIn(cur'[i], lives', version', wanted')
  BY <1>1, <1>9, <1>13 DEF TypeOK, HoldsStored
<1>14. HoldsStored'
  BY <1>11, <1>12, <1>13 DEF HoldsStored
<1>15. Coherent'
  <2>1. ASSUME NEW i \in Instances, NEW m \in Names, agones'[i][m] # NotFound,
               gs'[m] # NotFound, agones'[i][m].rv = gs'[m].rv
        PROVE  agones'[i][m] = gs'[m]
    <3>1. agones[i][m].rv <= version /\ agones[i][m].rv \in Nat
      BY <1>1, <2>1 DEF TypeOK, HoldsStored, StoredIn, GameServers
    <3>2. m # n
      BY <1>1, <1>2, <1>3, <2>1, <3>1 DEF TypeOK
    <3>. QED BY <1>1, <1>2, <2>1, <3>2 DEF Coherent, TypeOK
  <2>2. ASSUME NEW i \in Instances, copy'[i] # NotFound
        PROVE  /\ copy'[i].rv <= version'
               /\ copy'[i].name = cur'[i].name
               /\ Accepts(copy[i])' =>
                    copy'[i] = [gs'[copy'[i].name] EXCEPT !.annotations = WithReady(@)]
    <3>1. copy'[i] = copy[i] /\ cur'[i] = cur[i] /\ copy[i] \in GameServers
      BY <1>1, <2>2 DEF TypeOK
    <3>2. copy[i].rv <= version /\ copy[i].rv \in Nat /\ copy[i].name \in Names
      BY <1>1, <2>2, <3>1 DEF Coherent, GameServers
    <3>3. copy[i].name = cur[i].name
      BY <1>1, <2>2, <3>1 DEF Coherent
    <3>4. CASE copy[i].name = n
      <4>1. ~Accepts(copy[i])'
        BY <1>1, <1>2, <1>3, <3>1, <3>2, <3>4 DEF Accepts, TypeOK
      <4>. QED BY <1>3, <3>1, <3>2, <3>3, <4>1
    <3>5. CASE copy[i].name # n
      <4>1. gs'[copy[i].name] = gs[copy[i].name]
        BY <1>1, <1>2, <3>2, <3>5 DEF TypeOK
      <4>2. Accepts(copy[i])' <=> Accepts(copy[i])
        BY <3>1, <4>1 DEF Accepts
      <4>. QED BY <1>1, <1>3, <2>2, <3>1, <3>2, <3>3, <4>1, <4>2 DEF Coherent
    <3>. QED BY <3>4, <3>5
  <2>. QED BY <2>1, <2>2 DEF Coherent
<1>. QED BY <1>3, <1>4, <1>6, <1>8, <1>14, <1>15

-----------------------------------------------------------------------------
(***************************************************************************)
(* What a step keeps when it touches little of what a part is about.       *)
(***************************************************************************)

(* Handing stored versions on, or forgetting them, keeps HoldsStored.      *)
LEMMA HoldsStoredFrame ==
  ASSUME TypeOK, HoldsStored,
         UNCHANGED <<lives, version, wanted>>,
         \A n \in Names : gs'[n] \in {gs[n], NotFound},
         \A i \in Instances, n \in Names :
           agones'[i][n] \in {agones[i][n], gs[n], NotFound},
         \A i \in Instances, n \in Names : \A j \in DOMAIN queue'[i][n] :
           \/ gs[n] # NotFound /\ queue'[i][n][j].object = gs[n]
           \/ \E k \in DOMAIN queue[i][n] : queue'[i][n][j].object = queue[i][n][k].object,
         \A i \in Instances :
           \/ cur'[i] \in {cur[i], NotFound}
           \/ \E n \in Names : \E k \in DOMAIN queue[i][n] : cur'[i] = queue[i][n][k].object
  PROVE  HoldsStored'
<1>1. ASSUME NEW n \in Names
      PROVE  /\ lives'[n] <= MaxLives
             /\ gs'[n] # NotFound =>
                  /\ gs'[n].name = n
                  /\ gs'[n].uid = lives'[n]
                  /\ StoredIn(gs'[n], lives', version', wanted')
  BY DEF HoldsStored
<1>2. ASSUME NEW i \in Instances, NEW n \in Names
      PROVE  agones'[i][n] # NotFound =>
               /\ agones'[i][n].name = n
               /\ StoredIn(agones'[i][n], lives', version', wanted')
  BY DEF HoldsStored
<1>3. ASSUME NEW i \in Instances, NEW n \in Names, NEW j \in DOMAIN queue'[i][n]
      PROVE  StoredIn(queue'[i][n][j].object, lives', version', wanted')
  BY <1>3 DEF HoldsStored
<1>4. ASSUME NEW i \in Instances, cur'[i] # NotFound
      PROVE  StoredIn(cur'[i], lives', version', wanted')
  BY <1>4 DEF HoldsStored
<1>. QED BY <1>1, <1>2, <1>3, <1>4 DEF HoldsStored

(* Catching up and forgetting keep Coherent.                               *)
LEMMA CoherentFrame ==
  ASSUME TypeOK, Coherent, version' = version,
         \A n \in Names : gs'[n] \in {gs[n], NotFound},
         \A i \in Instances, n \in Names :
           agones'[i][n] \in {agones[i][n], gs[n], NotFound},
         \A i \in Instances : copy'[i] # NotFound =>
           copy'[i] = copy[i] /\ cur'[i].name = cur[i].name
  PROVE  Coherent'
<1>1. ASSUME NEW i \in Instances, NEW n \in Names, agones'[i][n] # NotFound,
             gs'[n] # NotFound, agones'[i][n].rv = gs'[n].rv
      PROVE  agones'[i][n] = gs'[n]
  <2>1. gs'[n] = gs[n] /\ gs[n] # NotFound
    BY <1>1
  <2>2. agones'[i][n] = gs[n] \/ (agones'[i][n] = agones[i][n] /\ agones[i][n] # NotFound)
    BY <1>1
  <2>3. agones[i][n] # NotFound /\ agones[i][n].rv = gs[n].rv => agones[i][n] = gs[n]
    BY <2>1 DEF Coherent
  <2>. QED BY <1>1, <2>1, <2>2, <2>3
<1>2. ASSUME NEW i \in Instances, copy'[i] # NotFound
      PROVE  /\ copy'[i].rv <= version'
             /\ copy'[i].name = cur'[i].name
             /\ Accepts(copy[i])' =>
                  copy'[i] = [gs'[copy'[i].name] EXCEPT !.annotations = WithReady(@)]
  <2>1. copy[i] \in GameServers /\ copy'[i] = copy[i] /\ copy[i].name \in Names
    BY <1>2, NotFoundAssumption DEF TypeOK, GameServers
  <2>2. Accepts(copy[i])' => Accepts(copy[i]) /\ gs'[copy[i].name] = gs[copy[i].name]
    BY <2>1 DEF Accepts
  <2>3. /\ copy[i].rv <= version
        /\ copy[i].name = cur[i].name
        /\ Accepts(copy[i]) =>
             copy[i] = [gs[copy[i].name] EXCEPT !.annotations = WithReady(@)]
    BY <1>2, <2>1 DEF Coherent
  <2>. QED BY <1>2, <2>1, <2>2, <2>3
<1>. QED BY <1>1, <1>2 DEF Coherent

(* What existed has existed ever since.                                    *)
LEMMA ReachableMonotone ==
  ASSUME NEW c, NEW d, c \subseteq d, NEW n, NEW u \in Nat, NEW v \in Nat, u <= v
  PROVE  /\ \A k : Existed(c, k, n, u) => Existed(d, k, n, v)
         /\ Reachable(c, n, u) => Reachable(d, n, v)
  BY DEF Existed, Reachable

(* An instance that does not move stays where it is in Stages.             *)
LEMMA StageFrame ==
  ASSUME TypeOK, NEW i \in Instances, Stage(i),
         pc'[i] = pc[i], cur'[i] = cur[i], copy'[i] = copy[i],
         lives' \in [Names -> Nat], \A n \in Names : lives[n] <= lives'[n],
         created \subseteq created'
  PROVE  Stage(i)'
<1>1. CASE pc[i] \in {"down", "synced", "idle"}
  BY <1>1 DEF Stage
<1>2. CASE pc[i] \notin {"down", "synced", "idle"}
  <2>1. /\ cur[i].name \in Names
        /\ lives[cur[i].name] \in Nat /\ lives'[cur[i].name] \in Nat
        /\ lives[cur[i].name] <= lives'[cur[i].name]
    BY <1>2 DEF Stage, TypeOK, GameServers
  <2>2. /\ Existed(created, ServiceKind, cur[i].name, lives[cur[i].name]) =>
              Existed(created', ServiceKind, cur[i].name, lives'[cur[i].name])
        /\ Reachable(created, cur[i].name, lives[cur[i].name]) =>
              Reachable(created', cur[i].name, lives'[cur[i].name])
    BY <2>1, ReachableMonotone
  <2>3. Route(i)' = Route(i)
    BY DEF Route
  <2>. QED BY <2>2, <2>3 DEF Stage
<1>. QED BY <1>1, <1>2

(* Objects come and go, caches catch up or forget, more is asked for and   *)
(* nothing new is made: Accounted stays.                                   *)
LEMMA AccountedFrame ==
  ASSUME TypeOK, Accounted, created' = created, wanted \subseteq wanted',
         lives' \in [Names -> Nat], \A n \in Names : lives[n] <= lives'[n],
         \A k \in Kinds, n \in Names : obj'[k][n] \in {obj[k][n], 0},
         \A i \in Instances, k \in Kinds, n \in Names :
           known'[i][k][n] \in {known[i][k][n], obj[k][n], 0}
  PROVE  Accounted'
<1>1. created' \subseteq wanted'
  BY DEF Accounted
<1>2. ASSUME NEW x \in created' PROVE x[3] \in 1 .. lives'[x[2]]
  <2>1. x[3] \in 1 .. lives[x[2]] /\ x[2] \in Names
    BY <1>2 DEF Accounted, TypeOK
  <2>. QED BY <2>1 DEF TypeOK
<1>3. ASSUME NEW k \in Kinds, NEW n \in Names, obj'[k][n] # 0
      PROVE  <<k, n, obj'[k][n]>> \in created'
  BY <1>3 DEF Accounted
<1>4. ASSUME NEW i \in Instances, NEW k \in Kinds, NEW n \in Names, known'[i][k][n] # 0
      PROVE  <<k, n, known'[i][k][n]>> \in created'
  BY <1>4 DEF Accounted
<1>. QED BY <1>1, <1>2, <1>3, <1>4 DEF Accounted

(* A step that neither makes an object nor annotates keeps Announced.      *)
LEMMA AnnouncedFrame ==
  ASSUME Announced, created' = created, announced' = announced
  PROVE  Announced'
  BY DEF Announced, ReadyAfterResources

-----------------------------------------------------------------------------
(***************************************************************************)
(* The steps of the cluster.                                               *)
(***************************************************************************)

(* g is a next version of n, stored by a client other than the controller. *)
Stores(n, type, g) ==
  /\ Store(n, type, g) /\ g.name = n /\ g.rv = version + 1
  /\ g.uid = lives'[n] /\ g.uid > 0
  /\ lives' \in [Names -> Nat]
  /\ \A m \in Names : lives[m] <= lives'[m] /\ lives'[m] <= MaxLives
  /\ \A m \in Names : m # n => lives'[m] = lives[m]

(* CreateGameServer, AgonesTransition and EditAnnotations store a version. *)
LEMMA OthersStore ==
  ASSUME IInv, NEW n \in Names,
         CreateGameServer(n) \/ AgonesTransition(n) \/ EditAnnotations(n)
  PROVE  \E type \in {"add", "update"}, g \in GameServers : Stores(n, type, g)
<1>. USE NotFoundAssumption DEF Stores
<1>1. TypeOK /\ HoldsStored
  BY DEF IInv
<1>2. CASE CreateGameServer(n)
  <2>1. PICK s \in Born, m \in Manifests :
          Store(n, "add", [name |-> n, uid |-> lives[n] + 1, rv |-> version + 1,
                           state |-> s, annotations |-> m])
    BY <1>2 DEF CreateGameServer
  <2>. DEFINE g == [name |-> n, uid |-> lives[n] + 1, rv |-> version + 1,
                    state |-> s, annotations |-> m]
  <2>2. lives \in [Names -> Nat] /\ version \in Nat /\ lives[n] < MaxLives
        /\ lives' = [lives EXCEPT ![n] = @ + 1] /\ MaxLives \in Nat
    BY <1>1, <1>2, BoundsAssumption DEF TypeOK, CreateGameServer
  <2>3. \A x \in Names : lives[x] <= MaxLives
    BY <1>1 DEF HoldsStored
  <2>4. g \in GameServers /\ g.name = n /\ g.rv = version + 1 /\ g.uid = lives[n] + 1
    BY <2>2, LifecycleAssumption DEF GameServers, AnnotationMaps
  <2>5. /\ lives' \in [Names -> Nat] /\ lives'[n] = lives[n] + 1
        /\ \A x \in Names : lives[x] <= lives'[x] /\ lives'[x] <= MaxLives
        /\ \A x \in Names : x # n => lives'[x] = lives[x]
    BY <2>2, <2>3
  <2>6. g.uid = lives'[n] /\ g.uid > 0
    BY <2>2, <2>4, <2>5
  <2>. QED BY <2>1, <2>4, <2>5, <2>6
<1>3. ASSUME NEW g \in GameServers, Store(n, "update", g), gs[n] \in GameServers,
             lives' = lives,
             g.name = gs[n].name, g.uid = gs[n].uid, g.rv = version + 1
      PROVE  Stores(n, "update", g)
  <2>1. gs[n].name = n /\ gs[n].uid = lives[n] /\ gs[n].uid \in 1 .. lives[n]
    BY <1>1, <1>3 DEF HoldsStored, StoredIn
  <2>2. lives \in [Names -> Nat] /\ \A m \in Names : lives[m] <= MaxLives
    BY <1>1 DEF TypeOK, HoldsStored
  <2>. QED BY <1>3, <2>1, <2>2
<1>4. CASE AgonesTransition(n)
  <2>1. PICK s \in GameServerState :
          Store(n, "update", [gs[n] EXCEPT !.rv = version + 1, !.state = s])
    BY <1>4 DEF AgonesTransition
  <2>2. gs[n] \in GameServers /\ version \in Nat /\ lives' = lives
    BY <1>1, <1>4 DEF AgonesTransition, TypeOK
  <2>. DEFINE g == [gs[n] EXCEPT !.rv = version + 1, !.state = s]
  <2>3. /\ g \in GameServers
        /\ g.name = gs[n].name
        /\ g.uid = gs[n].uid
        /\ g.rv = version + 1
    <3>1. version + 1 \in Nat
      BY <2>2
    <3>. QED BY <2>2, <3>1, NewState
  <2>. HIDE DEF g
  <2>4. Store(n, "update", g)
    BY <2>1 DEF g
  <2>. QED BY <1>3, <2>2, <2>3, <2>4
<1>5. CASE EditAnnotations(n)
  <2>1. PICK a \in AnnotationMaps :
          Store(n, "update", [gs[n] EXCEPT !.rv = version + 1, !.annotations = a])
    BY <1>5 DEF EditAnnotations, AnnotationMaps
  <2>2. gs[n] \in GameServers /\ version \in Nat /\ lives' = lives
    BY <1>1, <1>5 DEF EditAnnotations, TypeOK
  <2>. DEFINE g == [gs[n] EXCEPT !.rv = version + 1, !.annotations = a]
  <2>3. /\ g \in GameServers
        /\ g.name = gs[n].name
        /\ g.uid = gs[n].uid
        /\ g.rv = version + 1
    <3>1. version + 1 \in Nat
      BY <2>2
    <3>. QED BY <2>2, <3>1, NewAnnotations
  <2>. HIDE DEF g
  <2>4. Store(n, "update", g)
    BY <2>1 DEF g
  <2>. QED BY <1>3, <2>2, <2>3, <2>4
<1>. QED BY <1>2, <1>4, <1>5

(* Storing a version keeps the invariant.                                  *)
LEMMA StoreKeepsIInv ==
  ASSUME IInv, NEW n \in Names,
         CreateGameServer(n) \/ AgonesTransition(n) \/ EditAnnotations(n)
  PROVE  IInv'
<1>. USE NotFoundAssumption
<1>1. TypeOK /\ HoldsStored /\ Coherent /\ Accounted /\ Stages /\ Announced
  BY DEF IInv
<1>2. UNCHANGED <<obj, handler, caches, faults, created, announced>>
  BY DEF CreateGameServer, AgonesTransition, EditAnnotations
<1>3. UNCHANGED <<obj, pc, cur, copy, attempts, known, agones, faults, created, announced>>
  BY <1>2 DEF handler, caches
<1>4. \E type \in {"add", "update"}, g \in GameServers : Stores(n, type, g)
  BY OthersStore
<1>5. /\ gs' \in [Names -> GameServers \cup {NotFound}]
      /\ version' \in Nat
      /\ queue' \in [Instances -> [Names -> Seq(Events)]]
      /\ wanted' \subseteq Kinds \X Names \X Nat
      /\ HoldsStored' /\ Coherent'
      /\ lives' \in [Names -> Nat]
      /\ wanted \subseteq wanted'
      /\ \A m \in Names : lives[m] <= lives'[m]
  <2>1. PICK type \in {"add", "update"}, g \in GameServers : Stores(n, type, g)
    BY <1>4
  <2>2. /\ cur' \in [Instances -> GameServers \cup {NotFound}]
        /\ copy' \in [Instances -> GameServers \cup {NotFound}]
    BY <1>1, <1>3 DEF TypeOK
  <2>3. wanted \subseteq wanted'
    BY <2>1 DEF Store, Stores
  <2>. QED BY <1>3, <2>1, <2>2, <2>3, StoreStep DEF Stores
<1>6. TypeOK'
  BY <1>1, <1>3, <1>5 DEF TypeOK
<1>7. Accounted'
  BY <1>1, <1>3, <1>5, AccountedFrame
<1>8. Stages'
  BY <1>1, <1>3, <1>5, StageFrame DEF Stages
<1>9. Announced'
  BY <1>1, <1>3, AnnouncedFrame
<1>. QED BY <1>5, <1>6, <1>7, <1>8, <1>9 DEF IInv

(* The watch event of n is appended to some of the queues of n.            *)
LEMMA NotifyKeepsEvents ==
  ASSUME TypeOK, NEW n \in Names, NEW type \in {"add", "update", "delete"},
         NEW g \in GameServers, Notify(n, type, g)
  PROVE  /\ queue' \in [Instances -> [Names -> Seq(Events)]]
         /\ \A i \in Instances, m \in Names : \A j \in DOMAIN queue'[i][m] :
              \/ m = n /\ queue'[i][m][j].object = g
              \/ \E k \in DOMAIN queue[i][m] : queue'[i][m][j].object = queue[i][m][k].object
<1>. DEFINE e == [type |-> type, object |-> g]
<1>1. e \in Events /\ e.object = g
  BY DEF Events
<1>. HIDE DEF e
<1>2. queue' = [i \in Instances |->
                  IF Listening(i) THEN [queue[i] EXCEPT ![n] = Append(@, e)] ELSE queue[i]]
  BY DEF Notify, e
<1>3. queue \in [Instances -> [Names -> Seq(Events)]]
  BY DEF TypeOK
<1>4. queue' \in [Instances -> [Names -> Seq(Events)]]
  BY <1>1, <1>2, <1>3
<1>5. ASSUME NEW i \in Instances, NEW m \in Names, NEW j \in DOMAIN queue'[i][m]
      PROVE  \/ m = n /\ queue'[i][m][j] = e
             \/ j \in DOMAIN queue[i][m] /\ queue'[i][m][j] = queue[i][m][j]
  BY <1>1, <1>2, <1>3, <1>5
<1>. QED BY <1>1, <1>4, <1>5

(* Deleting a GameServer: the objects made for it and the versions held of *)
(* it stay accounted for, and no copy of it is accepted any more.          *)
LEMMA DeleteKeepsIInv ==
  ASSUME IInv, NEW n \in Names, DeleteGameServer(n)
  PROVE  IInv'
<1>1. TypeOK /\ HoldsStored /\ Coherent /\ Accounted /\ Stages /\ Announced
  BY DEF IInv
<1>2. UNCHANGED <<lives, version, obj, pc, cur, copy, attempts, known, agones, faults,
                  wanted, created, announced>>
  BY DEF DeleteGameServer, handler, caches, history
<1>3. gs' = [gs EXCEPT ![n] = NotFound] /\ gs[n] # NotFound /\ Notify(n, "delete", gs[n])
  BY DEF DeleteGameServer
<1>4. gs \in [Names -> GameServers \cup {NotFound}] /\ gs[n] \in GameServers
  BY <1>1, <1>3 DEF TypeOK
<1>5. /\ gs' \in [Names -> GameServers \cup {NotFound}]
      /\ \A m \in Names : gs'[m] \in {gs[m], NotFound}
  BY <1>3, <1>4
<1>6. /\ queue' \in [Instances -> [Names -> Seq(Events)]]
      /\ \A i \in Instances, m \in Names : \A j \in DOMAIN queue'[i][m] :
           \/ m = n /\ queue'[i][m][j].object = gs[n]
           \/ \E k \in DOMAIN queue[i][m] : queue'[i][m][j].object = queue[i][m][k].object
  BY <1>1, <1>3, <1>4, NotifyKeepsEvents
<1>7. TypeOK'
  BY <1>1, <1>2, <1>5, <1>6 DEF TypeOK
<1>8. HoldsStored'
  BY <1>1, <1>2, <1>3, <1>5, <1>6, HoldsStoredFrame
<1>9. Coherent'
  BY <1>1, <1>2, <1>5, CoherentFrame
<1>10. lives' \in [Names -> Nat] /\ \A m \in Names : lives[m] <= lives'[m]
  BY <1>1, <1>2 DEF TypeOK
<1>11. Accounted'
  BY <1>1, <1>2, <1>10, AccountedFrame
<1>12. Stages'
  BY <1>1, <1>2, <1>10, StageFrame DEF Stages
<1>13. Announced'
  BY <1>1, <1>2, AnnouncedFrame
<1>. QED BY <1>7, <1>8, <1>9, <1>11, <1>12, <1>13 DEF IInv

(* GarbageCollect and UserDeletes remove an object.                        *)
LEMMA RemoveKeepsIInv ==
  ASSUME IInv, NEW n \in Names, NEW k \in Kinds,
         GarbageCollect(k, n) \/ UserDeletes(k, n)
  PROVE  IInv'
<1>1. TypeOK /\ HoldsStored /\ Coherent /\ Accounted /\ Stages /\ Announced
  BY DEF IInv
<1>2. UNCHANGED <<gs, lives, version, pc, cur, copy, attempts, known, agones, queue,
                  wanted, created, announced>>
  BY DEF GarbageCollect, UserDeletes, handler, caches, history
<1>3. obj' = [obj EXCEPT ![k][n] = 0] /\ faults' \in Nat
  BY <1>1 DEF GarbageCollect, UserDeletes, Fault, TypeOK
<1>4. obj \in [Kinds -> [Names -> Nat]]
  BY <1>1 DEF TypeOK
<1>5. /\ obj' \in [Kinds -> [Names -> Nat]]
      /\ \A l \in Kinds, m \in Names : obj'[l][m] \in {obj[l][m], 0}
  BY <1>3, <1>4
<1>6. TypeOK'
  BY <1>1, <1>2, <1>3, <1>5 DEF TypeOK
<1>7. HoldsStored'
  BY <1>1, <1>2 DEF HoldsStored
<1>8. Coherent'
  BY <1>1, <1>2 DEF Coherent, Accepts
<1>9. lives' \in [Names -> Nat] /\ \A m \in Names : lives[m] <= lives'[m]
  BY <1>1, <1>2 DEF TypeOK
<1>10. Accounted'
  BY <1>1, <1>2, <1>5, <1>9, AccountedFrame
<1>11. Stages'
  BY <1>1, <1>2, <1>9, StageFrame DEF Stages
<1>12. Announced'
  BY <1>1, <1>2, AnnouncedFrame
<1>. QED BY <1>6, <1>7, <1>8, <1>10, <1>11, <1>12 DEF IInv

-----------------------------------------------------------------------------
(***************************************************************************)
(* The life of an instance and its caches.                                 *)
(***************************************************************************)

(* Only instance i moves.                                                  *)
LEMMA OthersStay ==
  ASSUME TypeOK, Stages, NEW i \in Instances, Stage(i)',
         \A j \in Instances : j # i =>
           pc'[j] = pc[j] /\ cur'[j] = cur[j] /\ copy'[j] = copy[j],
         lives' = lives, created \subseteq created'
  PROVE  Stages'
<1>1. lives' \in [Names -> Nat] /\ \A n \in Names : lives[n] <= lives'[n]
  BY DEF TypeOK
<1>2. ASSUME NEW j \in Instances, j # i PROVE Stage(j)'
  BY <1>1, <1>2, StageFrame DEF Stages
<1>. QED BY <1>2 DEF Stages

(* SyncStores, Observe and ObserveGameServer copy from the API server;     *)
(* Crash and Panic forget.                                                 *)
LEMMA CachesKeepIInv ==
  ASSUME IInv, NEW i \in Instances,
         \/ SyncStores(i) \/ Crash(i) \/ Panic(i)
         \/ \E n \in Names : ObserveGameServer(i, n) \/ \E k \in Kinds : Observe(i, k, n)
  PROVE  IInv'
<1>1. TypeOK /\ HoldsStored /\ Coherent /\ Accounted /\ Stages /\ Announced
  BY DEF IInv
<1>2. UNCHANGED <<gs, lives, version, obj, wanted, created, announced>>
  BY DEF SyncStores, Crash, Panic, Die, ObserveGameServer, Observe, cluster, history
<1>3. /\ gs \in [Names -> GameServers \cup {NotFound}]
      /\ agones \in [Instances -> [Names -> GameServers \cup {NotFound}]]
      /\ obj \in [Kinds -> [Names -> Nat]]
      /\ known \in [Instances -> [Kinds -> [Names -> Nat]]]
      /\ lives \in [Names -> Nat]
  BY <1>1 DEF TypeOK
<1>4. /\ known' \in [Instances -> [Kinds -> [Names -> Nat]]]
      /\ \A j \in Instances, k \in Kinds, n \in Names :
           known'[j][k][n] \in {known[j][k][n], obj[k][n], 0}
  <2>1. CASE SyncStores(i)
    <3>1. known' = [known EXCEPT ![i] = [k \in Kinds |-> IF k \in Watched(i) THEN obj[k] ELSE known[i][k]]]
      BY <2>1 DEF SyncStores
    <3>. QED BY <1>3, <3>1
  <2>2. CASE Crash(i) \/ Panic(i)
    <3>1. Die(i)
      BY <2>2 DEF Crash, Panic
    <3>. QED BY <1>3, <3>1 DEF Die
  <2>3. CASE \E n \in Names : ObserveGameServer(i, n)
    BY <1>3, <2>3 DEF ObserveGameServer
  <2>4. ASSUME NEW n \in Names, NEW k \in Kinds, Observe(i, k, n)
        PROVE  /\ known' \in [Instances -> [Kinds -> [Names -> Nat]]]
               /\ \A j \in Instances, l \in Kinds, m \in Names :
                    known'[j][l][m] \in {known[j][l][m], obj[l][m], 0}
    <3>1. known' = [known EXCEPT ![i][k][n] = obj[k][n]]
      BY <2>4 DEF Observe
    <3>. QED BY <1>3, <3>1
  <2>. QED BY <2>1, <2>2, <2>3, <2>4
<1>5. /\ agones' \in [Instances -> [Names -> GameServers \cup {NotFound}]]
      /\ \A j \in Instances, n \in Names :
           agones'[j][n] \in {agones[j][n], gs[n], NotFound}
  <2>1. CASE SyncStores(i)
    BY <1>3, <2>1 DEF SyncStores
  <2>2. CASE Crash(i) \/ Panic(i)
    <3>1. Die(i)
      BY <2>2 DEF Crash, Panic
    <3>. QED BY <1>3, <3>1 DEF Die
  <2>3. CASE \E n \in Names : ObserveGameServer(i, n)
    BY <1>3, <2>3 DEF ObserveGameServer
  <2>4. CASE \E n \in Names : \E k \in Kinds : Observe(i, k, n)
    BY <1>3, <2>4 DEF Observe
  <2>. QED BY <2>1, <2>2, <2>3, <2>4
<1>6. /\ \A j \in Instances : j # i => UNCHANGED <<pc[j], cur[j], copy[j], queue[j]>>
      /\ \/ UNCHANGED <<pc, cur, copy, queue, attempts>>
         \/ pc[i] = "down" /\ pc'[i] = "synced" /\ UNCHANGED <<cur, copy, queue, attempts>>
         \/ /\ pc'[i] = "down" /\ cur'[i] = NotFound /\ copy'[i] = NotFound
            /\ queue'[i] = [n \in Names |-> << >>]
  <2>1. /\ pc \in [Instances -> PCs]
        /\ cur \in [Instances -> GameServers \cup {NotFound}]
        /\ copy \in [Instances -> GameServers \cup {NotFound}]
        /\ queue \in [Instances -> [Names -> Seq(Events)]]
    BY <1>1 DEF TypeOK
  <2>2. CASE SyncStores(i)
    BY <2>1, <2>2 DEF SyncStores
  <2>3. CASE Crash(i) \/ Panic(i)
    BY <2>1, <2>3 DEF Crash, Panic, Die
  <2>4. CASE \E n \in Names : ObserveGameServer(i, n) \/ \E k \in Kinds : Observe(i, k, n)
    BY <2>4 DEF ObserveGameServer, Observe, handler
  <2>. QED BY <2>2, <2>3, <2>4
<1>7. /\ pc' \in [Instances -> PCs]
      /\ cur' \in [Instances -> GameServers \cup {NotFound}]
      /\ copy' \in [Instances -> GameServers \cup {NotFound}]
      /\ attempts' \in [Instances -> 0 .. RetrySteps - 1]
      /\ queue' \in [Instances -> [Names -> Seq(Events)]]
      /\ faults' \in Nat
  <2>1. /\ pc \in [Instances -> PCs]
        /\ cur \in [Instances -> GameServers \cup {NotFound}]
        /\ copy \in [Instances -> GameServers \cup {NotFound}]
        /\ attempts \in [Instances -> 0 .. RetrySteps - 1]
        /\ queue \in [Instances -> [Names -> Seq(Events)]]
        /\ faults \in Nat
    BY <1>1 DEF TypeOK
  <2>2. CASE SyncStores(i)
    BY <2>1, <2>2 DEF SyncStores, PCs
  <2>3. CASE Crash(i) \/ Panic(i)
    <3>1. 0 \in 0 .. RetrySteps - 1
      BY BoundsAssumption
    <3>2. [n \in Names |-> << >>] \in [Names -> Seq(Events)]
      OBVIOUS
    <3>3. Die(i) /\ faults' \in Nat
      BY <2>1, <2>3 DEF Crash, Panic, Fault
    <3>. QED BY <2>1, <3>1, <3>2, <3>3 DEF Die, PCs
  <2>4. CASE \E n \in Names : ObserveGameServer(i, n) \/ \E k \in Kinds : Observe(i, k, n)
    BY <2>1, <2>4 DEF ObserveGameServer, Observe, handler
  <2>. QED BY <2>2, <2>3, <2>4
<1>8. TypeOK'
  BY <1>1, <1>2, <1>4, <1>5, <1>7 DEF TypeOK
<1>9. \A j \in Instances, n \in Names : \A l \in DOMAIN queue'[j][n] :
        \E k \in DOMAIN queue[j][n] : queue'[j][n][l].object = queue[j][n][k].object
  <2>1. \A j \in Instances, n \in Names : queue'[j][n] \in {queue[j][n], << >>}
    BY <1>6
  <2>2. DOMAIN << >> = {}
    OBVIOUS
  <2>. QED BY <2>1, <2>2
<1>10. \A j \in Instances : cur'[j] \in {cur[j], NotFound}
  BY <1>6
<1>11. HoldsStored'
  BY <1>1, <1>2, <1>5, <1>9, <1>10, HoldsStoredFrame
<1>12. \A j \in Instances : copy'[j] # NotFound => copy'[j] = copy[j] /\ cur'[j].name = cur[j].name
  BY <1>6
<1>13. Coherent'
  BY <1>1, <1>2, <1>5, <1>12, CoherentFrame
<1>14. Accounted'
  BY <1>1, <1>2, <1>3, <1>4, AccountedFrame
<1>15. Stages'
  <2>1. Stage(i)
    BY <1>1 DEF Stages
  <2>2. Stage(i)'
    <3>1. CASE UNCHANGED <<pc, cur, copy, queue, attempts>>
      BY <1>1, <1>2, <1>3, <2>1, <3>1, StageFrame
    <3>2. CASE pc[i] = "down" /\ pc'[i] = "synced" /\ UNCHANGED <<cur, copy, queue, attempts>>
      BY <2>1, <3>2 DEF Stage
    <3>3. CASE pc'[i] = "down" /\ cur'[i] = NotFound /\ copy'[i] = NotFound
      BY <3>3 DEF Stage
    <3>. QED BY <1>6, <3>1, <3>2, <3>3
  <2>. QED BY <1>1, <1>2, <1>6, <2>2, OthersStay
<1>16. Announced'
  BY <1>1, <1>2, AnnouncedFrame
<1>. QED BY <1>8, <1>11, <1>13, <1>14, <1>15, <1>16 DEF IInv

(* What StartManager, Resync and Handle do to the queues: events of the    *)
(* present version, or of versions that were queued already.               *)
LEMMA QueuesKeepEvents ==
  ASSUME TypeOK, NEW i \in Instances,
         StartManager(i) \/ \E n \in Names : Resync(i, n) \/ Dequeue(i, n)
  PROVE  /\ queue' \in [Instances -> [Names -> Seq(Events)]]
         /\ \A l \in Instances, m \in Names : \A j \in DOMAIN queue'[l][m] :
              \/ gs[m] # NotFound /\ queue'[l][m][j].object = gs[m]
              \/ \E k \in DOMAIN queue[l][m] : queue'[l][m][j].object = queue[l][m][k].object
<1>. DEFINE Fresh(m, e) == gs[m] # NotFound /\ e.object = gs[m]
            Old(l, m, e) == \E k \in DOMAIN queue[l][m] : e.object = queue[l][m][k].object
            Good == /\ queue' \in [Instances -> [Names -> Seq(Events)]]
                    /\ \A l \in Instances, m \in Names : \A j \in DOMAIN queue'[l][m] :
                         Fresh(m, queue'[l][m][j]) \/ Old(l, m, queue'[l][m][j])
<1>1. /\ queue \in [Instances -> [Names -> Seq(Events)]]
      /\ gs \in [Names -> GameServers \cup {NotFound}]
  BY DEF TypeOK
<1>2. ASSUME NEW n \in Names, NEW q \in Seq(Events),
             queue' = [queue EXCEPT ![i][n] = q],
             \A j \in DOMAIN q : Fresh(n, q[j]) \/ Old(i, n, q[j])
      PROVE  Good
  <2>1. queue' \in [Instances -> [Names -> Seq(Events)]]
    BY <1>1, <1>2
  <2>2. ASSUME NEW l \in Instances, NEW m \in Names
        PROVE  queue'[l][m] = IF l = i /\ m = n THEN q ELSE queue[l][m]
    BY <1>1, <1>2
  <2>. HIDE DEF Fresh
  <2>. QED BY <1>2, <2>1, <2>2
<1>3. ASSUME StartManager(i) PROVE Good
  <2>. DEFINE q(n) == IF gs[n] = NotFound THEN << >>
                      ELSE << [type |-> "add", object |-> gs[n]] >>
  <2>1. queue' = [queue EXCEPT ![i] = [n \in Names |-> q(n)]]
    BY <1>3 DEF StartManager
  <2>2. ASSUME NEW n \in Names
        PROVE  q(n) \in Seq(Events) /\ \A j \in DOMAIN q(n) : Fresh(n, q(n)[j])
    <3>1. CASE gs[n] = NotFound
      BY <3>1
    <3>2. CASE gs[n] # NotFound
      <4>1. [type |-> "add", object |-> gs[n]] \in Events
        BY <1>1, <3>2 DEF Events
      <4>. QED BY <3>2, <4>1
    <3>. QED BY <3>1, <3>2
  <2>. HIDE DEF q, Fresh
  <2>3. queue' \in [Instances -> [Names -> Seq(Events)]]
    BY <1>1, <2>1, <2>2
  <2>4. ASSUME NEW l \in Instances, NEW m \in Names
        PROVE  queue'[l][m] = IF l = i THEN q(m) ELSE queue[l][m]
    BY <1>1, <2>1
  <2>5. ASSUME NEW l \in Instances, NEW m \in Names, NEW j \in DOMAIN queue'[l][m]
        PROVE  Fresh(m, queue'[l][m][j]) \/ Old(l, m, queue'[l][m][j])
    <3>1. CASE l = i
      BY <2>2, <2>4, <2>5, <3>1
    <3>2. CASE l # i
      BY <2>4, <2>5, <3>2
    <3>. QED BY <3>1, <3>2
  <2>. HIDE DEF Old
  <2>. QED BY <2>3, <2>5
<1>4. ASSUME NEW n \in Names, Resync(i, n) PROVE Good
  <2>1. CASE /\ queue[i][n] = << >> /\ gs[n] # NotFound
             /\ queue' = [queue EXCEPT ![i][n] = << [type |-> "resync", object |-> gs[n]] >>]
    <3>1. [type |-> "resync", object |-> gs[n]] \in Events
      BY <1>1, <2>1 DEF Events
    <3>2. /\ << [type |-> "resync", object |-> gs[n]] >> \in Seq(Events)
          /\ \A j \in DOMAIN << [type |-> "resync", object |-> gs[n]] >> :
               Fresh(n, << [type |-> "resync", object |-> gs[n]] >>[j])
      BY <2>1, <3>1
    <3>. QED BY <1>2, <2>1, <3>2
  <2>2. CASE /\ Len(queue[i][n]) \in 1 .. MaxPending - 1
             /\ queue' = [queue EXCEPT ![i][n] =
                  << Head(queue[i][n]),
                     [type |-> "resync", object |-> Head(queue[i][n]).object] >>
                  \o Tail(queue[i][n])]
    <3>. DEFINE h == queue[i][n]
                e == [type |-> "resync", object |-> Head(h).object]
                q == << Head(h), e >> \o Tail(h)
    <3>1. h \in Seq(Events) /\ h # << >> /\ 1 \in DOMAIN h /\ Head(h) = h[1]
      BY <1>1, <2>2
    <3>2. e \in Events /\ e.object = h[1].object
      BY <3>1, EventOf DEF Events
    <3>. HIDE DEF e, h
    <3>3. q \in Seq(Events)
      BY <3>1, <3>2
    <3>4. ASSUME NEW j \in DOMAIN q   \* e stands between the head and the tail
          PROVE  q[j] = h[1] \/ q[j] = e \/ (j - 1 \in DOMAIN h /\ q[j] = h[j - 1])
      BY <3>1, <3>2, <3>4
    <3>5. ASSUME NEW j \in DOMAIN q PROVE \E k \in DOMAIN h : q[j].object = h[k].object
      BY <3>1, <3>2, <3>4, <3>5
    <3>6. queue' = [queue EXCEPT ![i][n] = q]
      BY <2>2 DEF h, e
    <3>. HIDE DEF q
    <3>7. \A j \in DOMAIN q : Old(i, n, q[j])
      BY <3>5 DEF h
    <3>. QED BY <1>2, <3>3, <3>6, <3>7
  <2>. QED BY <1>4, <2>1, <2>2 DEF Resync
<1>5. ASSUME NEW n \in Names, Dequeue(i, n) PROVE Good
  <2>1. /\ queue[i][n] \in Seq(Events) /\ queue[i][n] # << >>
        /\ queue' = [queue EXCEPT ![i][n] = Tail(queue[i][n])]
    BY <1>1, <1>5 DEF Dequeue
  <2>2. /\ Tail(queue[i][n]) \in Seq(Events)
        /\ \A j \in DOMAIN Tail(queue[i][n]) :
             j + 1 \in DOMAIN queue[i][n] /\ Tail(queue[i][n])[j] = queue[i][n][j + 1]
    BY <2>1
  <2>3. \A j \in DOMAIN Tail(queue[i][n]) : Old(i, n, Tail(queue[i][n])[j])
    BY <2>2
  <2>. QED BY <1>2, <2>1, <2>2, <2>3
<1>. QED BY <1>3, <1>4, <1>5

(* Starting, resyncs and the hand-over of an event to the handler.         *)
LEMMA QueuesKeepIInv ==
  ASSUME IInv, NEW i \in Instances,
         StartManager(i) \/ \E n \in Names : Resync(i, n) \/ Handle(i, n)
  PROVE  IInv'
<1>1. TypeOK /\ HoldsStored /\ Coherent /\ Accounted /\ Stages /\ Announced
  BY DEF IInv
<1>2. UNCHANGED <<gs, lives, version, obj, copy, attempts, known, agones, faults,
                  wanted, created, announced>>
  BY DEF StartManager, Resync, Handle, OnDelete, Skip, Reconcile, cluster, handler,
         caches, history
<1>3. StartManager(i) \/ \E n \in Names : Resync(i, n) \/ Dequeue(i, n)
  BY DEF Handle, OnDelete, Skip, Reconcile
<1>4. /\ queue' \in [Instances -> [Names -> Seq(Events)]]
      /\ \A l \in Instances, m \in Names : \A j \in DOMAIN queue'[l][m] :
           \/ gs[m] # NotFound /\ queue'[l][m][j].object = gs[m]
           \/ \E k \in DOMAIN queue[l][m] : queue'[l][m][j].object = queue[l][m][k].object
  BY <1>1, <1>3, QueuesKeepEvents
<1>5. \/ UNCHANGED <<pc, cur>>
      \/ pc[i] = "synced" /\ pc' = [pc EXCEPT ![i] = "idle"] /\ cur' = cur
      \/ \E n \in Names :
           /\ pc[i] = "idle" /\ queue[i][n] # << >>
           /\ Reconcilable(Head(queue[i][n]).object)
           /\ pc' = [pc EXCEPT ![i] = "service"]
           /\ cur' = [cur EXCEPT ![i] = Head(queue[i][n]).object]
  BY DEF StartManager, Resync, Handle, OnDelete, Skip, Reconcile, Dequeue, handler
<1>6. /\ pc \in [Instances -> PCs]
      /\ cur \in [Instances -> GameServers \cup {NotFound}]
      /\ queue \in [Instances -> [Names -> Seq(Events)]]
  BY <1>1 DEF TypeOK
<1>7. ASSUME NEW n \in Names, queue[i][n] # << >>
      PROVE  /\ Head(queue[i][n]).object \in GameServers
             /\ 1 \in DOMAIN queue[i][n] /\ Head(queue[i][n]) = queue[i][n][1]
  <2>1. queue[i][n] \in Seq(Events)
    BY <1>6
  <2>2. 1 \in DOMAIN queue[i][n] /\ Head(queue[i][n]) = queue[i][n][1]
    BY <1>7, <2>1
  <2>. QED BY <2>1, <2>2, EventOf
<1>8. /\ pc' \in [Instances -> PCs]
      /\ cur' \in [Instances -> GameServers \cup {NotFound}]
      /\ \A j \in Instances : j # i => pc'[j] = pc[j] /\ cur'[j] = cur[j]
  BY <1>5, <1>6, <1>7 DEF PCs
<1>9. \A j \in Instances :
        \/ cur'[j] \in {cur[j], NotFound}
        \/ \E n \in Names : \E k \in DOMAIN queue[j][n] : cur'[j] = queue[j][n][k].object
  BY <1>5, <1>6, <1>7
<1>10. TypeOK'
  BY <1>1, <1>2, <1>4, <1>8 DEF TypeOK
<1>11. HoldsStored'
  BY <1>1, <1>2, <1>4, <1>9, HoldsStoredFrame
<1>12. \A j \in Instances : copy'[j] # NotFound => copy'[j] = copy[j] /\ cur'[j].name = cur[j].name
  <2>1. copy[i] # NotFound => pc[i] = "update"
    BY <1>1 DEF Stages, Stage
  <2>. QED BY <1>2, <1>5, <1>6, <1>8, <2>1
<1>13. Coherent'
  BY <1>1, <1>2, <1>12, CoherentFrame
<1>14. lives' \in [Names -> Nat] /\ \A m \in Names : lives[m] <= lives'[m]
  BY <1>1, <1>2 DEF TypeOK
<1>15. Accounted'
  BY <1>1, <1>2, <1>14, AccountedFrame
<1>16. Stage(i)'
  <2>1. Stage(i)
    BY <1>1 DEF Stages
  <2>2. CASE UNCHANGED <<pc, cur>>
    BY <1>1, <1>2, <1>14, <2>1, <2>2, StageFrame
  <2>3. CASE pc[i] = "synced" /\ pc' = [pc EXCEPT ![i] = "idle"] /\ cur' = cur
    BY <1>2, <1>6, <2>1, <2>3 DEF Stage
  <2>4. ASSUME NEW n \in Names, pc[i] = "idle", queue[i][n] # << >>,
               Reconcilable(Head(queue[i][n]).object),
               pc' = [pc EXCEPT ![i] = "service"],
               cur' = [cur EXCEPT ![i] = Head(queue[i][n]).object]
        PROVE  Stage(i)'
    <3>1. pc'[i] = "service" /\ cur'[i] = Head(queue[i][n]).object
      BY <1>6, <2>4
    <3>2. cur'[i] # NotFound /\ Reconcilable(cur'[i])
      BY <1>7, <2>4, <3>1, NotFoundAssumption
    <3>3. copy'[i] = NotFound
      BY <1>2, <2>1, <2>4 DEF Stage
    <3>. QED BY <3>1, <3>2, <3>3 DEF Stage
  <2>. QED BY <1>5, <2>2, <2>3, <2>4
<1>17. Stages'
  BY <1>1, <1>2, <1>8, <1>16, OthersStay
<1>18. Announced'
  BY <1>1, <1>2, AnnouncedFrame
<1>. QED BY <1>10, <1>11, <1>13, <1>15, <1>17, <1>18 DEF IInv

-----------------------------------------------------------------------------
(***************************************************************************)
(* The handler.                                                            *)
(***************************************************************************)

(* Goto and Return of instance i touch the handler variables of i only,    *)
(* and Return leaves it idle.                                              *)
LEMMA Moves ==
  ASSUME TypeOK, NEW i \in Instances, NEW label \in PCs, Goto(i, label) \/ Return(i)
  PROVE  /\ pc' \in [Instances -> PCs]
         /\ cur' \in [Instances -> GameServers \cup {NotFound}]
         /\ copy' \in [Instances -> GameServers \cup {NotFound}]
         /\ attempts' \in [Instances -> 0 .. RetrySteps - 1]
         /\ \A j \in Instances : j # i => UNCHANGED <<pc[j], cur[j], copy[j]>>
         /\ \A j \in Instances : cur'[j] \in {cur[j], NotFound}
         /\ \A j \in Instances : copy'[j] # NotFound => copy'[j] = copy[j] /\ cur'[j] = cur[j]
         /\ Goto(i, label) => pc'[i] = label /\ UNCHANGED <<cur[i], copy[i]>>
         /\ Return(i) => pc'[i] = "idle" /\ cur'[i] = NotFound /\ copy'[i] = NotFound
<1>1. /\ pc \in [Instances -> PCs]
      /\ cur \in [Instances -> GameServers \cup {NotFound}]
      /\ copy \in [Instances -> GameServers \cup {NotFound}]
      /\ attempts \in [Instances -> 0 .. RetrySteps - 1]
      /\ 0 \in 0 .. RetrySteps - 1
  BY BoundsAssumption DEF TypeOK
<1>2. CASE Goto(i, label)
  BY <1>1, <1>2, NotFoundAssumption DEF Goto, Return
<1>3. CASE Return(i)
  BY <1>1, <1>3 DEF Goto, Return, PCs
<1>. QED BY <1>2, <1>3

(* A step inside the process: where the handler goes to suits Stages.      *)
LEMMA LocalStep ==
  ASSUME IInv, NEW i \in Instances, NEW label \in PCs,
         UNCHANGED <<cluster, caches, queue, history>>, faults' \in Nat,
         \/ Goto(i, label) /\ Stage(i)'
         \/ Return(i)
  PROVE  IInv'
<1>1. TypeOK /\ HoldsStored /\ Coherent /\ Accounted /\ Stages /\ Announced
  BY DEF IInv
<1>2. UNCHANGED <<gs, lives, version, obj, known, agones, queue,
                  wanted, created, announced>>
  BY DEF cluster, caches, history
<1>3. /\ pc' \in [Instances -> PCs]
      /\ cur' \in [Instances -> GameServers \cup {NotFound}]
      /\ copy' \in [Instances -> GameServers \cup {NotFound}]
      /\ attempts' \in [Instances -> 0 .. RetrySteps - 1]
      /\ \A j \in Instances : j # i => UNCHANGED <<pc[j], cur[j], copy[j]>>
      /\ \A j \in Instances : cur'[j] \in {cur[j], NotFound}
      /\ \A j \in Instances : copy'[j] # NotFound => copy'[j] = copy[j] /\ cur'[j] = cur[j]
      /\ Return(i) => pc'[i] = "idle" /\ cur'[i] = NotFound /\ copy'[i] = NotFound
  BY <1>1, Moves
<1>4. TypeOK'
  BY <1>1, <1>2, <1>3 DEF TypeOK
<1>5. HoldsStored'
  BY <1>1, <1>2, <1>3, HoldsStoredFrame
<1>6. Coherent'
  BY <1>1, <1>2, <1>3, CoherentFrame
<1>7. lives' \in [Names -> Nat] /\ \A m \in Names : lives[m] <= lives'[m]
  BY <1>1, <1>2 DEF TypeOK
<1>8. Accounted'
  BY <1>1, <1>2, <1>7, AccountedFrame
<1>9. Stage(i)'
  BY <1>3 DEF Stage
<1>10. Stages'
  BY <1>1, <1>2, <1>3, <1>9, OthersStay
<1>11. Announced'
  BY <1>1, <1>2, AnnouncedFrame
<1>. QED BY <1>4, <1>5, <1>6, <1>8, <1>10, <1>11 DEF IInv

(* The GameServer being handled is a stored version that asks for a        *)
(* Service and its kind of route; a cached object of its name once existed.*)
LEMMA Handled ==
  ASSUME IInv, NEW i \in Instances, pc[i] \notin {"down", "synced", "idle"}
  PROVE  /\ cur[i] \in GameServers /\ cur[i].name \in Names
         /\ cur[i].uid \in 1 .. lives[cur[i].name]
         /\ \A k \in {ServiceKind, RouteKind(cur[i])} :
              <<k, cur[i].name, cur[i].uid>> \in wanted
         /\ \A k \in Kinds :
              /\ known[i][k][cur[i].name] # 0 =>
                   Existed(created, k, cur[i].name, lives[cur[i].name])
              /\ obj[k][cur[i].name] # 0 =>
                   Existed(created, k, cur[i].name, lives[cur[i].name])
<1>1. TypeOK /\ HoldsStored /\ Accounted /\ Stage(i)
  BY DEF IInv, Stages
<1>2. cur[i] # NotFound /\ Reconcilable(cur[i])
  BY <1>1 DEF Stage
<1>3. cur[i] \in GameServers /\ cur[i].name \in Names
  BY <1>1, <1>2 DEF TypeOK, GameServers
<1>4. StoredIn(cur[i], lives, version, wanted)
  BY <1>1, <1>2 DEF HoldsStored
<1>5. \A k \in {ServiceKind, RouteKind(cur[i])} : <<k, cur[i].name, cur[i].uid>> \in wanted
  BY <1>2, <1>4 DEF StoredIn, Wants
<1>6. ASSUME NEW k \in Kinds, NEW n \in Names, NEW u, <<k, n, u>> \in created
      PROVE  Existed(created, k, n, lives[n])
  <2>1. u \in 1 .. lives[n]
    BY <1>1, <1>6 DEF Accounted
  <2>. QED BY <1>6, <2>1 DEF Existed
<1>7. ASSUME NEW k \in Kinds
      PROVE  /\ known[i][k][cur[i].name] # 0 =>
                  Existed(created, k, cur[i].name, lives[cur[i].name])
             /\ obj[k][cur[i].name] # 0 =>
                  Existed(created, k, cur[i].name, lives[cur[i].name])
  BY <1>1, <1>3, <1>6 DEF Accounted
<1>. QED BY <1>3, <1>4, <1>5, <1>7 DEF StoredIn

(* ServiceReconciler.Reconcile up to the Create call: a cached Service of  *)
(* the name was made by some instance.                                     *)
LEMMA ReconcileServiceKeepsIInv ==
  ASSUME IInv, NEW i \in Instances, ReconcileService(i)
  PROVE  IInv'
<1>1. /\ pc[i] = "service" /\ LookUp(i, ServiceKind, "route", "createService")
      /\ UNCHANGED <<cluster, caches, queue, faults, history>>
  BY DEF ReconcileService
<1>2. TypeOK /\ Stage(i) /\ UNCHANGED <<lives, created>> /\ faults' \in Nat
  BY <1>1 DEF IInv, Stages, cluster, history, TypeOK
<1>3. CASE known[i][ServiceKind][cur[i].name] # 0 /\ Goto(i, "route")
  <2>1. Existed(created, ServiceKind, cur[i].name, lives[cur[i].name])
    BY <1>1, <1>3, Handled DEF Kinds
  <2>2. pc'[i] = "route" /\ UNCHANGED <<cur[i], copy[i]>>
    BY <1>2, <1>3, Moves DEF PCs
  <2>3. Stage(i)'
    BY <1>1, <1>2, <2>1, <2>2 DEF Stage
  <2>. QED BY <1>1, <1>2, <1>3, <2>3, LocalStep DEF PCs
<1>4. CASE Goto(i, "createService")
  <2>1. pc'[i] = "createService" /\ UNCHANGED <<cur[i], copy[i]>>
    BY <1>2, <1>4, Moves DEF PCs
  <2>2. Stage(i)'
    BY <1>1, <1>2, <2>1 DEF Stage
  <2>. QED BY <1>1, <1>2, <1>4, <2>2, LocalStep DEF PCs
<1>5. CASE Return(i)
  <2>1. "idle" \in PCs
    BY DEF PCs
  <2>. QED BY <1>1, <1>2, <1>5, <2>1, LocalStep
<1>. QED BY <1>1, <1>3, <1>4, <1>5 DEF LookUp

(* The same of IngressReconciler and GatewayReconciler; a nil gateway      *)
(* reconciler ends the handling.                                           *)
LEMMA ReconcileRouteKeepsIInv ==
  ASSUME IInv, NEW i \in Instances, ReconcileRoute(i)
  PROVE  IInv'
<1>1. /\ pc[i] = "route"
      /\ \/ Return(i)
         \/ Route(i) # "none" /\ LookUp(i, Route(i), "annotate", "createRoute")
      /\ UNCHANGED <<cluster, caches, queue, faults, history>>
  BY DEF ReconcileRoute
<1>2. TypeOK /\ Stage(i) /\ UNCHANGED <<lives, created>> /\ faults' \in Nat
  BY <1>1 DEF IInv, Stages, cluster, history, TypeOK
<1>3. ASSUME Route(i) # "none" PROVE Route(i) \in RouteKinds /\ Route(i) \in Kinds
  BY <1>3 DEF Route, RouteKind, RouteKinds, Kinds
<1>4. CASE Route(i) # "none" /\ known[i][Route(i)][cur[i].name] # 0 /\ Goto(i, "annotate")
  <2>1. Existed(created, Route(i), cur[i].name, lives[cur[i].name])
    BY <1>1, <1>3, <1>4, Handled
  <2>2. Reachable(created, cur[i].name, lives[cur[i].name])
    BY <1>1, <1>2, <1>3, <1>4, <2>1 DEF Stage, Reachable
  <2>3. pc'[i] = "annotate" /\ UNCHANGED <<cur[i], copy[i]>>
    BY <1>2, <1>4, Moves DEF PCs
  <2>4. Stage(i)'
    BY <1>1, <1>2, <2>2, <2>3 DEF Stage
  <2>. QED BY <1>1, <1>2, <1>4, <2>4, LocalStep DEF PCs
<1>5. CASE Route(i) # "none" /\ Goto(i, "createRoute")
  <2>1. pc'[i] = "createRoute" /\ UNCHANGED <<cur[i], copy[i]>>
    BY <1>2, <1>5, Moves DEF PCs
  <2>2. Route(i)' = Route(i)
    BY <2>1 DEF Route
  <2>3. Stage(i)'
    BY <1>1, <1>2, <1>5, <2>1, <2>2 DEF Stage
  <2>. QED BY <1>1, <1>2, <1>5, <2>3, LocalStep DEF PCs
<1>6. CASE Return(i)
  <2>1. "idle" \in PCs
    BY DEF PCs
  <2>. QED BY <1>1, <1>2, <1>6, <2>1, LocalStep
<1>. QED BY <1>1, <1>4, <1>5, <1>6 DEF LookUp

(* A new object for the GameServer being handled is accounted for.         *)
LEMMA InsertKeepsParts ==
  ASSUME IInv, NEW i \in Instances, pc[i] \notin {"down", "synced", "idle"},
         NEW k \in Kinds, k \in {ServiceKind, RouteKind(cur[i])},
         Insert(i, k), UNCHANGED caches
  PROVE  /\ obj' \in [Kinds -> [Names -> Nat]]
         /\ created' \subseteq Kinds \X Names \X Nat
         /\ created \subseteq created'
         /\ Accounted'
         /\ Existed(created', k, cur[i].name, lives[cur[i].name])
<1>. DEFINE x == <<k, cur[i].name, cur[i].uid>>
<1>1. TypeOK /\ Accounted
  BY DEF IInv
<1>2. /\ obj' = [obj EXCEPT ![k][cur[i].name] = cur[i].uid]
      /\ created' = created \cup {x}
      /\ UNCHANGED <<lives, wanted, known>>
  BY DEF Insert, caches
<1>3. /\ cur[i].name \in Names /\ cur[i].uid \in 1 .. lives[cur[i].name] /\ x \in wanted
      /\ cur[i].uid \in Nat
  BY Handled DEF GameServers
<1>4. obj \in [Kinds -> [Names -> Nat]] /\ created \subseteq Kinds \X Names \X Nat
  BY <1>1 DEF TypeOK
<1>5. /\ obj' \in [Kinds -> [Names -> Nat]]
      /\ \A l \in Kinds, m \in Names :
           obj'[l][m] = obj[l][m] \/ <<l, m, obj'[l][m]>> = x
  BY <1>2, <1>3, <1>4
<1>6. created' \subseteq Kinds \X Names \X Nat /\ created \subseteq created'
  BY <1>2, <1>3, <1>4
<1>7. \A y \in created' : y[3] \in 1 .. lives'[y[2]]
  <2>1. x[3] \in 1 .. lives[x[2]]
    BY <1>3
  <2>2. \A y \in created : y[3] \in 1 .. lives[y[2]]
    BY <1>1 DEF Accounted
  <2>. HIDE DEF x
  <2>. QED BY <1>2, <2>1, <2>2
<1>8. created' \subseteq wanted'
  BY <1>1, <1>2, <1>3 DEF Accounted
<1>9. ASSUME NEW l \in Kinds, NEW m \in Names
      PROVE  /\ obj'[l][m] # 0 => <<l, m, obj'[l][m]>> \in created'
             /\ \A j \in Instances :
                  known'[j][l][m] # 0 => <<l, m, known'[j][l][m]>> \in created'
  <2>1. obj[l][m] # 0 => <<l, m, obj[l][m]>> \in created
    BY <1>1 DEF Accounted
  <2>2. \A j \in Instances : known[j][l][m] # 0 => <<l, m, known[j][l][m]>> \in created
    BY <1>1 DEF Accounted
  <2>. HIDE DEF x
  <2>. QED BY <1>2, <1>5, <2>1, <2>2
<1>10. Accounted'
  BY <1>7, <1>8, <1>9 DEF Accounted
<1>11. Existed(created', k, cur[i].name, lives[cur[i].name])
  BY <1>2, <1>3 DEF Existed
<1>. QED BY <1>5, <1>6, <1>10, <1>11

(* Create, whatever its outcome, when the label it goes to suits Stages.   *)
LEMMA CreateKeepsIInv ==
  ASSUME IInv, NEW i \in Instances, pc[i] \notin {"down", "synced", "idle"},
         NEW k \in Kinds, k \in {ServiceKind, RouteKind(cur[i])}, NEW label \in PCs,
         Create(i, k, label), UNCHANGED <<caches, queue>>,
         /\ Goto(i, label)
         /\ created \subseteq created'
         /\ Existed(created', k, cur[i].name, lives[cur[i].name])
         /\ lives' = lives
         => Stage(i)'
  PROVE  IInv'
<1>1. TypeOK /\ HoldsStored /\ Coherent /\ Accounted /\ Stages /\ Announced
  BY DEF IInv
<1>2. /\ Goto(i, label) \/ Return(i)
      /\ faults' \in Nat
      /\ \/ Insert(i, k)
         \/ /\ UNCHANGED <<cluster, history>>
            /\ Return(i) \/ obj[k][cur[i].name] # 0
  BY <1>1 DEF Create, Fault, TypeOK
<1>3. CASE UNCHANGED <<cluster, history>> /\ (Return(i) \/ obj[k][cur[i].name] # 0)
  <2>1. CASE Return(i)
    BY <1>2, <1>3, <2>1, LocalStep
  <2>2. CASE Goto(i, label) /\ obj[k][cur[i].name] # 0
    <3>1. Existed(created, k, cur[i].name, lives[cur[i].name])
      BY <2>2, Handled
    <3>2. Stage(i)'
      BY <1>3, <2>2, <3>1 DEF cluster, history
    <3>. QED BY <1>2, <1>3, <2>2, <3>2, LocalStep
  <2>. QED BY <1>2, <1>3, <2>1, <2>2
<1>4. CASE Insert(i, k)
  <2>1. UNCHANGED <<gs, lives, version, known, agones, queue, wanted, announced>>
    BY <1>4 DEF Insert, caches
  <2>2. /\ obj' \in [Kinds -> [Names -> Nat]]
        /\ created' \subseteq Kinds \X Names \X Nat
        /\ created \subseteq created'
        /\ Accounted'
        /\ Existed(created', k, cur[i].name, lives[cur[i].name])
    BY <1>4, InsertKeepsParts
  <2>3. /\ pc' \in [Instances -> PCs]
        /\ cur' \in [Instances -> GameServers \cup {NotFound}]
        /\ copy' \in [Instances -> GameServers \cup {NotFound}]
        /\ attempts' \in [Instances -> 0 .. RetrySteps - 1]
        /\ \A j \in Instances : j # i => UNCHANGED <<pc[j], cur[j], copy[j]>>
        /\ \A j \in Instances : cur'[j] \in {cur[j], NotFound}
        /\ \A j \in Instances : copy'[j] # NotFound => copy'[j] = copy[j] /\ cur'[j] = cur[j]
        /\ Return(i) => pc'[i] = "idle" /\ cur'[i] = NotFound /\ copy'[i] = NotFound
    BY <1>1, <1>2, Moves
  <2>4. TypeOK'
    BY <1>1, <1>2, <2>1, <2>2, <2>3 DEF TypeOK
  <2>5. HoldsStored'
    BY <1>1, <2>1, <2>3, HoldsStoredFrame
  <2>6. Coherent'
    BY <1>1, <2>1, <2>3, CoherentFrame
  <2>7. Stage(i)'
    <3>1. CASE Goto(i, label)
      BY <2>1, <2>2, <3>1
    <3>2. CASE Return(i)
      BY <2>3, <3>2 DEF Stage
    <3>. QED BY <1>2, <3>1, <3>2
  <2>8. Stages'
    BY <1>1, <2>1, <2>2, <2>3, <2>7, OthersStay
  <2>9. Announced'
    <3>1. ASSUME NEW x \in announced PROVE Reachable(created', x[1], x[2])
      <4>1. x[2] \in Nat /\ Reachable(created, x[1], x[2])
        BY <1>1, <3>1 DEF Announced, ReadyAfterResources
      <4>. QED BY <2>2, <4>1 DEF Reachable, Existed
    <3>. QED BY <1>1, <2>1, <3>1 DEF Announced, ReadyAfterResources
  <2>. QED BY <2>2, <2>4, <2>5, <2>6, <2>8, <2>9 DEF IInv
<1>. QED BY <1>2, <1>3, <1>4

(* Creating the Service leads to the reconciliation of the route.          *)
LEMMA CreateServiceKeepsIInv ==
  ASSUME IInv, NEW i \in Instances, CreateService(i)
  PROVE  IInv'
<1>1. /\ pc[i] = "createService" /\ Create(i, ServiceKind, "route")
      /\ UNCHANGED <<caches, queue>>
  BY DEF CreateService
<1>2. TypeOK /\ Stage(i) /\ "route" \in PCs /\ ServiceKind \in Kinds
  BY DEF IInv, Stages, PCs, Kinds
<1>3. ASSUME Goto(i, "route"), lives' = lives,
             Existed(created', ServiceKind, cur[i].name, lives[cur[i].name])
      PROVE  Stage(i)'
  <2>1. pc'[i] = "route" /\ UNCHANGED <<cur[i], copy[i]>>
    BY <1>2, <1>3, Moves
  <2>. QED BY <1>1, <1>2, <1>3, <2>1 DEF Stage
<1>. QED BY <1>1, <1>2, <1>3, CreateKeepsIInv

(* Creating the route leads to the annotation: by now the name has had     *)
(* both a Service and a route.                                             *)
LEMMA CreateRouteKeepsIInv ==
  ASSUME IInv, NEW i \in Instances, CreateRoute(i)
  PROVE  IInv'
<1>1. /\ pc[i] = "createRoute" /\ Create(i, Route(i), "annotate")
      /\ UNCHANGED <<caches, queue>>
  BY DEF CreateRoute
<1>2. TypeOK /\ Stage(i) /\ "annotate" \in PCs
  BY DEF IInv, Stages, PCs
<1>3. Route(i) = RouteKind(cur[i]) /\ Route(i) \in RouteKinds /\ Route(i) \in Kinds
  BY <1>1, <1>2 DEF Stage, Route, RouteKind, RouteKinds, Kinds
<1>4. ASSUME Goto(i, "annotate"), lives' = lives, created \subseteq created',
             Existed(created', Route(i), cur[i].name, lives[cur[i].name])
      PROVE  Stage(i)'
  <2>1. pc'[i] = "annotate" /\ UNCHANGED <<cur[i], copy[i]>>
    BY <1>2, <1>4, Moves
  <2>2. Existed(created, ServiceKind, cur[i].name, lives[cur[i].name])
    BY <1>1, <1>2 DEF Stage
  <2>3. Existed(created', ServiceKind, cur[i].name, lives[cur[i].name])
    BY <1>4, <2>2 DEF Existed
  <2>4. Reachable(created', cur[i].name, lives[cur[i].name])
    BY <1>3, <1>4, <2>3 DEF Reachable
  <2>. QED BY <1>1, <1>2, <1>4, <2>1, <2>3, <2>4 DEF Stage
<1>. QED BY <1>1, <1>2, <1>3, <1>4, CreateKeepsIInv

(* The copy is of a cached version: should the API server accept it, it is *)
(* the present one.                                                        *)
LEMMA AnnotateKeepsIInv ==
  ASSUME IInv, NEW i \in Instances, Annotate(i)
  PROVE  IInv'
<1>. USE NotFoundAssumption
<1>1. TypeOK /\ HoldsStored /\ Coherent /\ Accounted /\ Stages /\ Announced
  BY DEF IInv
<1>. DEFINE g == agones[i][cur[i].name]
            h == [g EXCEPT !.annotations = WithReady(@)]
<1>2. pc[i] = "annotate" /\ UNCHANGED <<cluster, caches, queue, faults, history>>
  BY DEF Annotate
<1>3. UNCHANGED <<gs, lives, version, obj, known, agones, queue, faults,
                  wanted, created, announced>>
  BY <1>2 DEF cluster, caches, history
<1>4. CASE Return(i)
  <2>1. faults' \in Nat /\ "idle" \in PCs
    BY <1>1, <1>3 DEF TypeOK, PCs
  <2>. QED BY <1>2, <1>4, <2>1, LocalStep
<1>5. CASE /\ g # NotFound
           /\ copy' = [copy EXCEPT ![i] = h]
           /\ pc' = [pc EXCEPT ![i] = "update"]
           /\ UNCHANGED <<cur, attempts>>
  <2>1. cur[i] \in GameServers /\ cur[i].name \in Names
    BY <1>2, Handled
  <2>2. /\ g \in GameServers /\ g.name = cur[i].name /\ g.rv <= version
    BY <1>1, <1>5, <2>1 DEF TypeOK, HoldsStored, StoredIn
  <2>3. g.annotations \in AnnotationMaps /\ WithReady(g.annotations) \in AnnotationMaps
    BY <2>2, WithReadyClosed DEF GameServers
  <2>4. h \in GameServers /\ h.name = g.name /\ h.rv = g.rv
    BY <2>2, <2>3 DEF GameServers
  <2>5. /\ pc \in [Instances -> PCs] /\ "update" \in PCs
        /\ copy \in [Instances -> GameServers \cup {NotFound}]
    BY <1>1 DEF TypeOK, PCs
  <2>6. /\ pc' \in [Instances -> PCs] /\ pc'[i] = "update"
        /\ copy' \in [Instances -> GameServers \cup {NotFound}] /\ copy'[i] = h
        /\ \A j \in Instances : j # i => UNCHANGED <<pc[j], cur[j], copy[j]>>
    <3>. HIDE DEF h
    <3>. QED BY <1>5, <2>4, <2>5
  <2>7. TypeOK'
    BY <1>1, <1>3, <1>5, <2>6 DEF TypeOK
  <2>8. HoldsStored'
    BY <1>1, <1>3, <1>5, HoldsStoredFrame
  <2>9. Coherent'
    <3>1. ASSUME NEW j \in Instances, NEW n \in Names, agones'[j][n] # NotFound,
                 gs'[n] # NotFound, agones'[j][n].rv = gs'[n].rv
          PROVE  agones'[j][n] = gs'[n]
      BY <1>1, <1>3, <3>1 DEF Coherent
    <3>2. ASSUME NEW j \in Instances, copy'[j] # NotFound
          PROVE  /\ copy'[j].rv <= version'
                 /\ copy'[j].name = cur'[j].name
                 /\ Accepts(copy[j])' =>
                      copy'[j] = [gs'[copy'[j].name] EXCEPT !.annotations = WithReady(@)]
      <4>1. CASE j = i
        <5>1. g.rv = gs[g.name].rv /\ gs[g.name] # NotFound => g = gs[g.name]
          BY <1>1, <1>5, <2>1, <2>2 DEF Coherent
        <5>2. Accepts(copy[i])' <=> gs[h.name] # NotFound /\ gs[h.name].rv = h.rv
          BY <1>3, <2>6 DEF Accepts
        <5>. HIDE DEF g
        <5>. QED BY <1>3, <1>5, <2>2, <2>4, <2>6, <4>1, <5>1, <5>2
      <4>2. CASE j # i
        <5>1. UNCHANGED <<copy[j], cur[j]>>
          BY <2>6, <4>2
        <5>2. Accepts(copy[j])' <=> Accepts(copy[j])
          BY <1>3, <5>1 DEF Accepts
        <5>3. /\ copy[j].rv <= version
              /\ copy[j].name = cur[j].name
              /\ Accepts(copy[j]) =>
                   copy[j] = [gs[copy[j].name] EXCEPT !.annotations = WithReady(@)]
          BY <1>1, <3>2, <5>1 DEF Coherent
        <5>. QED BY <1>3, <5>1, <5>2, <5>3
      <4>. QED BY <4>1, <4>2
    <3>. QED BY <3>1, <3>2 DEF Coherent
  <2>10. lives' \in [Names -> Nat] /\ \A m \in Names : lives[m] <= lives'[m]
    BY <1>1, <1>3 DEF TypeOK
  <2>11. Accounted'
    BY <1>1, <1>3, <2>10, AccountedFrame
  <2>12. Stage(i)'
    <3>1. copy'[i] # NotFound
      BY <2>4, <2>6
    <3>2. Stage(i)
      BY <1>1 DEF Stages
    <3>. QED BY <1>2, <1>3, <1>5, <2>6, <3>1, <3>2 DEF Stage
  <2>13. Stages'
    BY <1>1, <1>3, <2>6, <2>12, OthersStay
  <2>14. Announced'
    BY <1>1, <1>3, AnnouncedFrame
  <2>. QED BY <2>7, <2>8, <2>9, <2>11, <2>13, <2>14 DEF IInv
<1>. QED BY <1>4, <1>5 DEF Annotate

(* What Update writes when the API server accepts the copy: the present    *)
(* version with the annotation.                                            *)
LEMMA WriteOnlyAnnotates ==
  ASSUME IInv, NEW i \in Instances, pc[i] = "update", Accepts(copy[i])
  PROVE  /\ copy[i] \in GameServers /\ copy[i].name = cur[i].name
         /\ copy[i].name \in Names
         /\ gs[copy[i].name] \in GameServers
         /\ copy[i] = [gs[copy[i].name] EXCEPT !.annotations = WithReady(@)]
         /\ copy[i].uid = lives[copy[i].name] /\ copy[i].uid \in 1 .. MaxLives
<1>. USE NotFoundAssumption
<1>1. TypeOK /\ HoldsStored /\ Coherent /\ Stage(i)
  BY DEF IInv, Stages
<1>2. copy[i] \in GameServers /\ copy[i] # NotFound
  BY <1>1 DEF TypeOK, Stage
<1>3. copy[i].name \in Names
  BY <1>2 DEF GameServers
<1>4. gs[copy[i].name] \in GameServers /\ gs[copy[i].name] # NotFound
  BY <1>1, <1>3 DEF Accepts, TypeOK
<1>5. /\ copy[i].name = cur[i].name
      /\ copy[i] = [gs[copy[i].name] EXCEPT !.annotations = WithReady(@)]
  BY <1>1, <1>2 DEF Coherent
<1>6. /\ gs[copy[i].name].uid = lives[copy[i].name]
      /\ gs[copy[i].name].uid \in 1 .. lives[copy[i].name]
      /\ lives[copy[i].name] <= MaxLives /\ lives[copy[i].name] \in Nat
  BY <1>1, <1>3, <1>4 DEF HoldsStored, StoredIn, TypeOK
<1>7. copy[i].uid = gs[copy[i].name].uid
  BY <1>4, <1>5 DEF GameServers
<1>. QED BY <1>2, <1>3, <1>4, <1>5, <1>6, <1>7, BoundsAssumption

(* What Update adds to the history is covered: the name of the GameServer  *)
(* being handled has had a Service and a route by now.                     *)
LEMMA WriteKeepsAnnounced ==
  ASSUME IInv, NEW i \in Instances, pc[i] = "update", Accepts(copy[i]),
         announced' = announced \cup {<<copy[i].name, copy[i].uid>>},
         UNCHANGED created
  PROVE  announced' \subseteq Owners /\ Announced'
<1>. DEFINE y == <<copy[i].name, copy[i].uid>>
<1>1. /\ copy[i].name = cur[i].name /\ copy[i].name \in Names
      /\ copy[i].uid = lives[copy[i].name] /\ copy[i].uid \in 1 .. MaxLives
  BY WriteOnlyAnnotates
<1>2. TypeOK /\ Announced /\ Stage(i)
  BY DEF IInv, Stages
<1>3. y[1] = copy[i].name /\ y[2] = copy[i].uid
  OBVIOUS
<1>4. Reachable(created, y[1], y[2])
  BY <1>1, <1>2, <1>3 DEF Stage
<1>5. y \in Owners /\ y[2] \in 1 .. MaxLives
  BY <1>1, BoundsAssumption DEF Owners
<1>. HIDE DEF y
<1>6. announced' = announced \cup {y} /\ announced \subseteq Owners
  BY <1>2 DEF y, TypeOK
<1>7. ASSUME NEW x \in announced' PROVE Reachable(created', x[1], x[2]) /\ x[2] \in 1 .. MaxLives
  BY <1>2, <1>4, <1>5, <1>6, <1>7 DEF Announced, ReadyAfterResources
<1>. QED BY <1>5, <1>6, <1>7 DEF Announced, ReadyAfterResources

(* An Update that the API server carries out, whether or not the reply     *)
(* reaches the controller.                                                 *)
LEMMA WriteKeepsIInv ==
  ASSUME IInv, NEW i \in Instances, pc[i] = "update",
         Write(i), Return(i), UNCHANGED caches, faults' \in Nat
  PROVE  IInv'
<1>. USE NotFoundAssumption
<1>1. TypeOK /\ HoldsStored /\ Coherent /\ Accounted /\ Stages /\ Announced
  BY DEF IInv
<1>2. Accepts(copy[i]) /\ UNCHANGED <<lives, obj, created, known, agones>>
  BY DEF Write, caches
<1>3. announced' \subseteq Owners /\ Announced'
  BY <1>2, WriteKeepsAnnounced DEF Write
<1>4. /\ pc' \in [Instances -> PCs]
      /\ cur' \in [Instances -> GameServers \cup {NotFound}]
      /\ copy' \in [Instances -> GameServers \cup {NotFound}]
      /\ attempts' \in [Instances -> 0 .. RetrySteps - 1]
      /\ \A j \in Instances : j # i => UNCHANGED <<pc[j], cur[j], copy[j]>>
      /\ \A j \in Instances : cur'[j] \in {cur[j], NotFound}
      /\ \A j \in Instances : copy'[j] # NotFound => copy'[j] = copy[j] /\ cur'[j] = cur[j]
      /\ pc'[i] = "idle" /\ cur'[i] = NotFound /\ copy'[i] = NotFound
  <2>1. "idle" \in PCs
    BY DEF PCs
  <2>. QED BY <1>1, <2>1, Moves
<1>5. lives \in [Names -> Nat] /\ \A m \in Names : lives[m] <= lives'[m] /\ lives'[m] <= MaxLives
  BY <1>1, <1>2 DEF TypeOK, HoldsStored
<1>6. Stages'
  <2>1. Stage(i)'
    BY <1>4 DEF Stage
  <2>. QED BY <1>1, <1>2, <1>4, <2>1, OthersStay
<1>. DEFINE Kept == /\ gs' \in [Names -> GameServers \cup {NotFound}]
                    /\ version' \in Nat
                    /\ queue' \in [Instances -> [Names -> Seq(Events)]]
                    /\ wanted' \subseteq Kinds \X Names \X Nat
                    /\ wanted \subseteq wanted'
                    /\ HoldsStored'
                    /\ Coherent'
<1>7. ASSUME UNCHANGED <<gs, version, wanted, queue>> PROVE Kept
  <2>1. HoldsStored'
    BY <1>1, <1>2, <1>4, <1>7, HoldsStoredFrame
  <2>2. Coherent'
    BY <1>1, <1>2, <1>4, <1>7, CoherentFrame
  <2>. QED BY <1>1, <1>7, <2>1, <2>2 DEF TypeOK
<1>8. ASSUME Store(copy[i].name, "update", [copy[i] EXCEPT !.rv = version + 1]) PROVE Kept
  <2>. DEFINE g == [copy[i] EXCEPT !.rv = version + 1]
              n == copy[i].name
  <2>1. /\ copy[i] \in GameServers /\ n \in Names
        /\ copy[i].uid = lives[n] /\ copy[i].uid \in 1 .. MaxLives /\ version \in Nat
    BY <1>1, <1>2, WriteOnlyAnnotates DEF TypeOK
  <2>2. /\ g \in GameServers /\ g.name = n /\ g.uid = copy[i].uid /\ g.rv = version + 1
    BY <2>1 DEF GameServers
  <2>. HIDE DEF g, n
  <2>3. Store(n, "update", g)
    BY <1>8 DEF g, n
  <2>4. g.uid = lives'[n] /\ g.uid > 0
    BY <1>2, <2>1, <2>2
  <2>5. wanted \subseteq wanted'
    BY <2>3 DEF Store
  <2>. QED BY <1>2, <1>4, <1>5, <2>1, <2>2, <2>3, <2>4, <2>5, StoreStep
<1>9. Kept
  BY <1>7, <1>8 DEF Write
<1>10. TypeOK'
  BY <1>1, <1>2, <1>3, <1>4, <1>9 DEF TypeOK
<1>11. Accounted'
  BY <1>1, <1>2, <1>5, <1>9, AccountedFrame
<1>. QED BY <1>3, <1>6, <1>9, <1>10, <1>11 DEF IInv

(* After a conflict the copy is dropped and the reads start over.          *)
LEMMA RetryKeepsIInv ==
  ASSUME IInv, NEW i \in Instances, pc[i] = "update", Retry(i),
         UNCHANGED <<cluster, caches, queue, faults, history>>
  PROVE  IInv'
<1>. USE NotFoundAssumption
<1>1. TypeOK /\ HoldsStored /\ Coherent /\ Accounted /\ Stages /\ Announced
  BY DEF IInv
<1>2. UNCHANGED <<gs, lives, version, obj, known, agones, queue, faults,
                  wanted, created, announced, cur>>
  BY DEF cluster, caches, history, Retry
<1>3. /\ pc \in [Instances -> PCs] /\ "annotate" \in PCs
      /\ copy \in [Instances -> GameServers \cup {NotFound}]
      /\ attempts \in [Instances -> 0 .. RetrySteps - 1] /\ RetrySteps \in Nat
      /\ lives \in [Names -> Nat]
  BY <1>1, BoundsAssumption DEF TypeOK, PCs
<1>4. /\ attempts[i] + 1 < RetrySteps
      /\ pc' = [pc EXCEPT ![i] = "annotate"]
      /\ copy' = [copy EXCEPT ![i] = NotFound]
      /\ attempts' = [attempts EXCEPT ![i] = attempts[i] + 1]
  BY DEF Retry
<1>5. /\ pc' \in [Instances -> PCs] /\ pc'[i] = "annotate"
      /\ copy' \in [Instances -> GameServers \cup {NotFound}] /\ copy'[i] = NotFound
      /\ \A j \in Instances : j # i => UNCHANGED <<pc[j], copy[j]>>
  BY <1>3, <1>4
<1>6. attempts' \in [Instances -> 0 .. RetrySteps - 1]
  BY <1>3, <1>4
<1>7. TypeOK'
  BY <1>1, <1>2, <1>5, <1>6 DEF TypeOK
<1>8. HoldsStored'
  BY <1>1, <1>2, HoldsStoredFrame
<1>9. Coherent'
  BY <1>1, <1>2, <1>5, CoherentFrame
<1>10. Accounted'
  BY <1>1, <1>2, <1>3, AccountedFrame
<1>11. Stage(i)'
  <2>1. Stage(i)
    BY <1>1 DEF Stages
  <2>. QED BY <1>2, <1>5, <2>1 DEF Stage
<1>12. Stages'
  BY <1>1, <1>2, <1>5, <1>11, OthersStay
<1>13. Announced'
  BY <1>1, <1>2, AnnouncedFrame
<1>. QED BY <1>7, <1>8, <1>9, <1>10, <1>12, <1>13 DEF IInv

(* Update, whatever the API server answers.                                *)
LEMMA UpdateKeepsIInv ==
  ASSUME IInv, NEW i \in Instances, Update(i)
  PROVE  IInv'
<1>1. pc[i] = "update" /\ UNCHANGED caches /\ faults \in Nat /\ "idle" \in PCs
  BY DEF Update, IInv, TypeOK, PCs
<1>2. CASE Write(i) /\ Return(i) /\ (UNCHANGED faults \/ Fault)
  BY <1>1, <1>2, WriteKeepsIInv DEF Fault
<1>3. CASE UpdateConflicts(i) /\ Retry(i)
  BY <1>1, <1>3, RetryKeepsIInv DEF UpdateConflicts
<1>4. CASE UNCHANGED <<cluster, queue, history>> /\ Return(i) /\ (UNCHANGED faults \/ Fault)
  <2>1. faults' \in Nat
    BY <1>1, <1>4 DEF Fault
  <2>. QED BY <1>1, <1>4, <2>1, LocalStep
<1>. QED BY <1>2, <1>3, <1>4 DEF Update, UpdateSucceeds, UpdateConflicts, UpdateFails

-----------------------------------------------------------------------------
(***************************************************************************)
(* The theorems.                                                           *)
(***************************************************************************)

(* The invariant holds before anything has happened.                       *)
LEMMA InitIInv == Init => IInv
<1>. SUFFICES ASSUME Init PROVE IInv
  OBVIOUS
<1>. USE NotFoundAssumption, BoundsAssumption
<1>1. TypeOK
  BY DEF Init, TypeOK, PCs
<1>2. HoldsStored
  BY DEF Init, HoldsStored
<1>3. Coherent
  BY DEF Init, Coherent
<1>4. Accounted
  BY DEF Init, Accounted
<1>5. Stages
  BY DEF Init, Stages, Stage
<1>6. Announced
  BY DEF Init, Announced, ReadyAfterResources
<1>. QED BY <1>1, <1>2, <1>3, <1>4, <1>5, <1>6 DEF IInv

(* Every step keeps the invariant.                                         *)
LEMMA NextKeepsIInv == IInv /\ [Next]_vars => IInv'
<1>. SUFFICES ASSUME IInv, [Next]_vars PROVE IInv'
  OBVIOUS
<1>1. ASSUME NEW n \in Names, ClusterStep(n) PROVE IInv'
  BY <1>1, StoreKeepsIInv, DeleteKeepsIInv, RemoveKeepsIInv DEF ClusterStep
<1>2. ASSUME NEW i \in Instances, HandlerStep(i) PROVE IInv'
  BY <1>2, ReconcileServiceKeepsIInv, CreateServiceKeepsIInv, ReconcileRouteKeepsIInv,
     CreateRouteKeepsIInv, AnnotateKeepsIInv, UpdateKeepsIInv, CachesKeepIInv DEF HandlerStep
<1>3. ASSUME NEW i \in Instances, InstanceStep(i) PROVE IInv'
  BY <1>2, <1>3, CachesKeepIInv, QueuesKeepIInv DEF InstanceStep
<1>4. CASE UNCHANGED vars
  <2>1. UNCHANGED <<gs, lives, version, obj, pc, cur, copy, attempts, known, agones,
                    queue, faults, wanted, created, announced>>
    BY <1>4 DEF vars, cluster, handler, caches, history
  <2>. QED BY <2>1 DEF IInv, TypeOK, HoldsStored, Coherent, Accounted, Stages, Stage,
                       Announced, ReadyAfterResources, Accepts, Route
<1>. QED BY <1>1, <1>3, <1>4 DEF Next

(* In every reachable state, with any number of instances crashing and     *)
(* restarting, events, caches and handlers hold stored versions, objects   *)
(* are accounted for, and the copy an Update sends is the present          *)
(* GameServer whenever its resourceVersion is the present one.             *)
THEOREM Invariance == Spec => []IInv
  BY InitIInv, NextKeepsIInv, PTL DEF Spec

(* The types, among them the bound on the attempts of RetryOnConflict.     *)
THEOREM TypeCorrect == Spec => []TypeOK
<1>1. IInv => TypeOK
  BY DEF IInv
<1>. QED BY <1>1, Invariance, PTL

(* Every object in the cluster was asked for by the incarnation of the     *)
(* GameServer that owns it, whichever event it was made for.               *)
THEOREM OnlyWantedObjects == Spec => []EveryObjectWanted
<1>1. IInv => EveryObjectWanted
  BY DEF IInv, Accounted, EveryObjectWanted
<1>. QED BY <1>1, Invariance, PTL

(* The ready annotation comes after a Service and a route of the name.     *)
THEOREM ReadyIsBacked == Spec => []ReadyAfterResources
<1>1. IInv => ReadyAfterResources
  BY DEF IInv, Announced
<1>. QED BY <1>1, Invariance, PTL

(* A write that the API server accepts changes the annotation and the      *)
(* resourceVersion of one GameServer, and nothing else of it.              *)
LEMMA WriteStep ==
  ASSUME IInv, NEW i \in Instances, pc[i] = "update", Write(i), NEW n \in Names
  PROVE  OnlyAnnotates(n)
<1>. USE NotFoundAssumption
<1>. DEFINE m == copy[i].name
            g == [copy[i] EXCEPT !.rv = version + 1]
<1>1. /\ Accepts(copy[i])
      /\ UNCHANGED gs \/ gs' = [gs EXCEPT ![m] = g]
  BY DEF Write, Store
<1>2. /\ m \in Names /\ gs[m] \in GameServers
      /\ copy[i] = [gs[m] EXCEPT !.annotations = WithReady(@)]
  BY <1>1, WriteOnlyAnnotates
<1>3. /\ gs \in [Names -> GameServers \cup {NotFound}] /\ version \in Nat
      /\ gs[m].rv <= version /\ gs[m].rv \in Nat
  BY <1>2 DEF IInv, TypeOK, HoldsStored, StoredIn, GameServers
<1>4. g.rv = version + 1
  BY <1>2 DEF GameServers
<1>5. g = [gs[m] EXCEPT !.rv = g.rv, !.annotations = WithReady(@)]
  <2>1. g = [gs[m] EXCEPT !.rv = version + 1, !.annotations = WithReady(@)]
    BY <1>2, AnnotatedVersion, Zenon
  <2>. QED BY <1>4, <2>1, Zenon
<1>6. CASE UNCHANGED gs
  BY <1>6 DEF OnlyAnnotates
<1>7. CASE n # m /\ gs' = [gs EXCEPT ![m] = g]
  <2>. HIDE DEF g
  <2>. QED BY <1>3, <1>7 DEF OnlyAnnotates
<1>8. CASE n = m /\ gs' = [gs EXCEPT ![m] = g]
  <2>1. g.rv > gs[m].rv
    BY <1>3, <1>4
  <2>. HIDE DEF g
  <2>2. gs'[m] = g
    BY <1>2, <1>3, <1>8
  <2>3. gs'[m] = [gs[m] EXCEPT !.rv = gs'[m].rv, !.annotations = WithReady(@)]
    BY <1>5, <2>2, Zenon
  <2>4. gs[m] # NotFound
    BY <1>2
  <2>. QED BY <1>8, <2>1, <2>2, <2>3, <2>4, Zenon DEF OnlyAnnotates
<1>. QED BY <1>1, <1>6, <1>7, <1>8

(* The one call of a handler that changes a GameServer is Update.          *)
LEMMA OnlyUpdateWrites ==
  ASSUME Next, NEW j \in Instances, pc'[j] # pc[j]
  PROVE  UNCHANGED gs \/ \E i \in Instances : pc[i] = "update" /\ Write(i)
<1>1. ASSUME NEW m \in Names PROVE ~ClusterStep(m)
  BY <1>1 DEF ClusterStep, CreateGameServer, AgonesTransition, EditAnnotations,
              DeleteGameServer, GarbageCollect, UserDeletes, handler
<1>2. PICK i \in Instances : InstanceStep(i)
  BY <1>1 DEF Next
<1>3. CASE Update(i)
  BY <1>3 DEF Update, UpdateSucceeds, UpdateConflicts, UpdateFails, cluster
<1>4. CASE ~Update(i)
  BY <1>2, <1>4 DEF InstanceStep, HandlerStep, SyncStores, StartManager, Crash, Panic, Die, Handle,
       OnDelete, Skip, Reconcile, Resync, ObserveGameServer, Observe, ReconcileService,
       CreateService, ReconcileRoute, CreateRoute, Create, Insert, Annotate, cluster
<1>. QED BY <1>3, <1>4

(* No handler undoes what Agones or a user wrote, and none brings a        *)
(* deleted GameServer back: the copy from the cache, however old, is       *)
(* stored only if the resourceVersion shows it to be the present one.      *)
THEOREM NoLostUpdate == Spec => ControllerOnlyAnnotates
<1>. DEFINE A == (\E i \in Instances : pc'[i] # pc[i]) => \A n \in Names : OnlyAnnotates(n)
<1>1. IInv /\ [Next]_vars => [A]_vars
  <2>. SUFFICES ASSUME IInv, Next, NEW j \in Instances, pc'[j] # pc[j], NEW n \in Names
                PROVE  OnlyAnnotates(n)
    OBVIOUS
  <2>1. CASE UNCHANGED gs
    BY <2>1 DEF OnlyAnnotates
  <2>. QED BY <2>1, OnlyUpdateWrites, WriteStep
<1>. QED BY <1>1, Invariance, PTL DEF Spec, ControllerOnlyAnnotates

(* An accepted copy of a GameServer that carries the annotation equals the *)
(* GameServer: the write makes no new version.                             *)
LEMMA MarkedIsKept ==
  ASSUME IInv, NEW i \in Instances, pc[i] = "update", Write(i), NEW n \in Names,
         gs[n].annotations = WithReady(gs[n].annotations)
  PROVE  gs'[n] = gs[n]
<1>. DEFINE m == copy[i].name
<1>1. Accepts(copy[i])
  BY DEF Write
<1>2. /\ m \in Names /\ gs[m] \in GameServers
      /\ copy[i] = [gs[m] EXCEPT !.annotations = WithReady(@)]
  BY <1>1, WriteOnlyAnnotates
<1>3. gs \in [Names -> GameServers \cup {NotFound}]
  BY DEF IInv, TypeOK
<1>4. CASE gs[m] = copy[i]
  BY <1>4 DEF Write
<1>5. CASE gs[m] # copy[i]
  <2>1. \E g : gs' = [gs EXCEPT ![m] = g]
    BY <1>5 DEF Write, Store
  <2>2. n # m
    BY <1>2, <1>5 DEF GameServers
  <2>. QED BY <1>3, <2>1, <2>2
<1>. QED BY <1>4, <1>5

(* However many instances answer the same events, each GameServer gets one *)
(* new version for its annotation, and not one from every instance.        *)
THEOREM OneAnnotation == Spec => AnnotatedOnce
<1>. DEFINE Marked(n) == gs[n] # NotFound /\ gs[n].annotations = WithReady(gs[n].annotations)
            A == (\E i \in Instances : pc'[i] # pc[i]) =>
                   \A n \in Names : Marked(n) => gs'[n] = gs[n]
<1>1. IInv /\ [Next]_vars => [A]_vars
  <2>. SUFFICES ASSUME IInv, Next, NEW j \in Instances, pc'[j] # pc[j],
                       NEW n \in Names, Marked(n)
                PROVE  gs'[n] = gs[n]
    OBVIOUS
  <2>. QED BY OnlyUpdateWrites, MarkedIsKept
<1>. QED BY <1>1, Invariance, PTL DEF Spec, AnnotatedOnce

-----------------------------------------------------------------------------
(***************************************************************************)
(* The refinement: each step asks, publishes, announces, or is a stutter.  *)
(***************************************************************************)

(* A version stored by Agones or a user asks for its objects.              *)
LEMMA StoreAsks ==
  ASSUME IInv, NEW n \in Names,
         CreateGameServer(n) \/ AgonesTransition(n) \/ EditAnnotations(n)
  PROVE  [P!Next]_(P!vars)
<1>1. UNCHANGED <<created, announced>>
  BY DEF CreateGameServer, AgonesTransition, EditAnnotations
<1>2. PICK type \in {"add", "update"}, g \in GameServers : Stores(n, type, g)
  BY OthersStore
<1>3. wanted' = wanted \cup Wants(g) /\ g.name = n /\ g.uid \in 1 .. MaxLives
  BY <1>2, BoundsAssumption DEF Stores, Store, GameServers
<1>4. CASE Reconcilable(g)
  <2>1. Wants(g) = {<<ServiceKind, n, g.uid>>, <<RouteKind(g), n, g.uid>>}
    BY <1>3, <1>4 DEF Wants
  <2>2. RouteKind(g) \in RouteKinds
    BY DEF RouteKind, RouteKinds
  <2>3. P!Ask(n, g.uid)
    BY <1>1, <1>3, <2>1, <2>2 DEF P!Ask
  <2>. QED BY <1>3, <2>3 DEF P!Next
<1>5. CASE ~Reconcilable(g)
  BY <1>1, <1>3, <1>5 DEF Wants, P!vars
<1>. QED BY <1>4, <1>5

(* Create publishes what the handled GameServer asked for, a route only    *)
(* after a Service.                                                        *)
LEMMA InsertPublishes ==
  ASSUME IInv, NEW i \in Instances, pc[i] \notin {"down", "synced", "idle"},
         NEW k \in Kinds, k \in {ServiceKind, RouteKind(cur[i])}, Insert(i, k),
         k \in RouteKinds => pc[i] = "createRoute"
  PROVE  P!Next
<1>. DEFINE n == cur[i].name
            u == cur[i].uid
<1>1. /\ n \in Names /\ u \in 1 .. lives[n] /\ <<k, n, u>> \in wanted
      /\ lives[n] <= MaxLives /\ lives[n] \in Nat
  BY Handled DEF IInv, HoldsStored, TypeOK
<1>2. u \in 1 .. MaxLives
  BY <1>1, BoundsAssumption
<1>3. /\ created' = created \cup {<<k, n, u>>} /\ UNCHANGED <<wanted, announced>>
  BY DEF Insert
<1>4. ASSUME k \in RouteKinds PROVE \E v \in 1 .. MaxLives : <<ServiceKind, n, v>> \in created
  <2>1. Existed(created, ServiceKind, n, lives[n])
    BY <1>4 DEF IInv, Stages, Stage
  <2>. QED BY <1>1, <2>1, BoundsAssumption DEF Existed
<1>5. k \in {ServiceKind} \cup RouteKinds
  BY DEF Kinds, RouteKinds
<1>. HIDE DEF n, u
<1>6. P!Publish(k, n, u)
  BY <1>1, <1>3, <1>4 DEF P!Publish, P!Published
<1>. QED BY <1>1, <1>2, <1>5, <1>6 DEF P!Next, n

(* Update announces the GameServer and asks for nothing new.               *)
LEMMA WriteAnnounces ==
  ASSUME IInv, NEW i \in Instances, pc[i] = "update", Write(i)
  PROVE  P!Next
<1>. DEFINE n == copy[i].name
            u == copy[i].uid
            g == [copy[i] EXCEPT !.rv = version + 1]
<1>1. Accepts(copy[i]) /\ created' = created /\ announced' = announced \cup {<<n, u>>}
  BY DEF Write
<1>2. /\ n \in Names /\ u \in 1 .. MaxLives /\ n = cur[i].name
      /\ gs[n] \in GameServers
      /\ copy[i] = [gs[n] EXCEPT !.annotations = WithReady(@)]
  BY <1>1, WriteOnlyAnnotates
<1>3. Wants(g) \subseteq wanted
  <2>1. version \in Nat /\ version + 1 \in Nat
    BY DEF IInv, TypeOK
  <2>2. gs[n] # NotFound
    BY <1>2, NotFoundAssumption
  <2>3. Wants(gs[n]) \subseteq wanted
    BY <1>2, <2>2 DEF IInv, HoldsStored, StoredIn
  <2>4. g = [gs[n] EXCEPT !.rv = version + 1, !.annotations = WithReady(@)]
    BY <1>2, AnnotatedVersion, Zenon
  <2>5. Wants([gs[n] EXCEPT !.rv = version + 1, !.annotations = WithReady(@)]) = Wants(gs[n])
    BY <1>2, <2>1, WithReadyWants
  <2>. QED BY <2>3, <2>4, <2>5, Zenon
<1>4. wanted' = wanted
  <2>1. UNCHANGED wanted \/ wanted' = wanted \cup Wants(g)
    BY DEF Write, Store
  <2>. QED BY <1>3, <2>1
<1>5. Reachable(created, n, lives[n]) /\ lives[n] \in Nat /\ lives[n] <= MaxLives
  BY <1>2 DEF IInv, Stages, Stage, TypeOK, HoldsStored
<1>. HIDE DEF n, u, g
<1>6. P!Announce(n, u)
  BY <1>1, <1>4, <1>5, BoundsAssumption DEF P!Announce, P!Published, Reachable, Existed
<1>. QED BY <1>2, <1>6 DEF P!Next

(* Every step of the system is a step of Publication.                      *)
LEMMA NextRefines == IInv /\ [Next]_vars => [P!Next]_(P!vars)
<1>. SUFFICES ASSUME IInv, [Next]_vars PROVE [P!Next]_(P!vars)
  OBVIOUS
<1>1. ASSUME UNCHANGED history PROVE [P!Next]_(P!vars)
  BY <1>1 DEF history, P!vars
<1>2. ASSUME NEW n \in Names, ClusterStep(n) PROVE [P!Next]_(P!vars)
  <2>1. CASE CreateGameServer(n) \/ AgonesTransition(n) \/ EditAnnotations(n)
    BY <2>1, StoreAsks
  <2>2. CASE DeleteGameServer(n) \/ \E k \in Kinds : GarbageCollect(k, n) \/ UserDeletes(k, n)
    BY <1>1, <2>2 DEF DeleteGameServer, GarbageCollect, UserDeletes
  <2>. QED BY <1>2, <2>1, <2>2 DEF ClusterStep
<1>3. ASSUME NEW i \in Instances, CreateService(i) PROVE [P!Next]_(P!vars)
  <2>1. CASE Insert(i, ServiceKind)
    <3>1. pc[i] = "createService" /\ ServiceKind \in Kinds /\ ServiceKind \notin RouteKinds
      BY <1>3 DEF CreateService, Kinds, RouteKinds, ServiceKind, IngressKind, HTTPRouteKind
    <3>. QED BY <2>1, <3>1, InsertPublishes
  <2>. QED BY <1>1, <1>3, <2>1 DEF CreateService, Create
<1>4. ASSUME NEW i \in Instances, CreateRoute(i) PROVE [P!Next]_(P!vars)
  <2>1. CASE Insert(i, Route(i))
    <3>1. pc[i] = "createRoute" /\ Route(i) # "none"
      BY <1>4 DEF CreateRoute, IInv, Stages, Stage
    <3>2. Route(i) = RouteKind(cur[i]) /\ Route(i) \in Kinds
      BY <3>1 DEF Route, RouteKind, Kinds
    <3>. QED BY <2>1, <3>1, <3>2, InsertPublishes
  <2>. QED BY <1>1, <1>4, <2>1 DEF CreateRoute, Create
<1>5. ASSUME NEW i \in Instances, Update(i) PROVE [P!Next]_(P!vars)
  <2>1. pc[i] = "update" /\ (Write(i) \/ UNCHANGED history)
    BY <1>5 DEF Update, UpdateSucceeds, UpdateConflicts, UpdateFails
  <2>. QED BY <1>1, <2>1, WriteAnnounces
<1>6. ASSUME NEW i \in Instances, InstanceStep(i) PROVE [P!Next]_(P!vars)
  <2>1. \/ CreateService(i) \/ CreateRoute(i) \/ Update(i)
        \/ UNCHANGED history
    BY <1>6 DEF InstanceStep, HandlerStep, SyncStores, StartManager, Crash, Panic, Die, Handle, OnDelete,
         Skip, Reconcile, Resync, ObserveGameServer, Observe, ReconcileService,
         ReconcileRoute, Annotate
  <2>. QED BY <1>1, <1>3, <1>4, <1>5, <2>1
<1>7. CASE UNCHANGED vars
  BY <1>1, <1>7 DEF vars
<1>. QED BY <1>2, <1>6, <1>7 DEF Next

(* The instances together, with caches, retries, crashes and lost replies, *)
(* do what Publication promises: nothing that was not asked for, routes    *)
(* after Services, the announcement last.                                  *)
THEOREM Refinement == Spec => PublicationSpec
<1>1. Init => P!Init
  BY DEF Init, P!Init
<1>. QED BY <1>1, NextRefines, Invariance, PTL DEF Spec, PublicationSpec, P!Spec
=============================================================================
