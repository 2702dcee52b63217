---------------------------- MODULE StartupProofs ----------------------------
(***************************************************************************)
(* The safety of Startup for any number of retries, faults and signals.    *)
(***************************************************************************)
EXTENDS Startup, TLAPS

(* Where the main goroutine is when NewStore has returned a store.         *)
HasStore == {"agones", "gameservers", "syncAgones", "controller", "wait"}

(* Where it is when resolveGatewayAPIEnabled has returned.                 *)
Resolved == HasStore \cup {"stores", "services", "ingresses", "routes", "sync"}

(* What the flag says of gatewayEnabled.                                   *)
AsConfigured ==
  /\ mode = "true" => gateway
  /\ mode = "false" => ~gateway

(* The manager is started last, by a main goroutine that has its store,    *)
(* and an informer syncs after it was started, by a factory it is known to.*)
StartupInv ==
  /\ TypeOK
  /\ main \in Starting => mgr = "none"
  /\ main \in HasStore \/ mgr # "none" => StoreInformers \subseteq synced
  /\ main \in Resolved \/ mgr # "none" => AsConfigured
  /\ main \in {"configure", "resolve"} => registered = {}
  /\ main = "routes" => gateway
  /\ "HTTPRoute" \in registered => gateway
  /\ started \subseteq registered
  /\ synced \subseteq started

(* Before anything has happened.                                           *)
LEMMA InitStartupInv == Init => StartupInv
<1>. SUFFICES ASSUME Init PROVE StartupInv
  OBVIOUS
<1>1. gateway \in BOOLEAN /\ agones \in BOOLEAN /\ interrupted \in BOOLEAN /\ stopping \in BOOLEAN
  BY Zenon DEF Init
<1>2. /\ mode \in Modes /\ crds \in BOOLEAN /\ main = "configure" /\ mgr = "none"
      /\ launched = {} /\ registered = {} /\ started = {} /\ synced = {}
      /\ attempt = 1 /\ signals = 0 /\ faults = 0
  BY Zenon DEF Init
<1>. QED BY <1>1, <1>2, StartupBounds DEF StartupInv, TypeOK, Starting, HasStore, Resolved

(* The attempts of withRetry stay within their bound, and success is the   *)
(* only way to the label done when there is another one for failure.       *)
LEMMA WithRetryStep ==
  ASSUME TypeOK, NEW xs, NEW done, NEW failed, withRetry(xs, done, failed)
  PROVE  /\ attempt' \in 1 .. MaxRetries
         /\ faults' \in Nat
         /\ main' \in {main, done, failed}
         /\ main' \notin {main, failed} => xs \subseteq synced
  BY StartupBounds DEF TypeOK, withRetry, TimesOut, Fault

(* The steps of the main goroutine that wait for nothing.                  *)
LEMMA MainKeepsStartupInv ==
  ASSUME StartupInv,
         Configure \/ resolveGatewayAPIEnabled \/ NewStore \/ RegisterInformers
           \/ NewAgonesStore \/ StartGameServerController \/ ReturnFromStart
  PROVE  StartupInv'
<1>. USE DEF StartupInv, TypeOK, Starting, HasStore, Resolved, AsConfigured, StoreInformers,
             inputs, informers, shutdown, Fault
<1>1. CASE Configure
  BY <1>1 DEF Configure, Call
<1>2. CASE resolveGatewayAPIEnabled
  <2>1. /\ main = "resolve"
        /\ UNCHANGED <<mode, crds, launched, registered, started, synced, attempt, agones,
                       mgr, interrupted, stopping, signals>>
    BY <1>2 DEF resolveGatewayAPIEnabled
  <2>2. gateway' \in BOOLEAN
    BY <1>2, Zenon DEF resolveGatewayAPIEnabled, ResolveDisabled, ResolveRequired, ResolveAuto
  <2>3. faults' \in Nat /\ main' \in {"stores", "dead"}
    BY <1>2 DEF resolveGatewayAPIEnabled, ResolveDisabled, ResolveRequired, ResolveAuto, Probe
  <2>4. ASSUME main' = "stores" PROVE AsConfigured'
    <3>1. CASE ResolveDisabled
      BY <2>1, <3>1 DEF ResolveDisabled
    <3>2. CASE ResolveRequired
      <4>1. PICK found \in BOOLEAN : /\ Probe(found)
                                     /\ gateway' = found
                                     /\ main' = IF found THEN "stores" ELSE "dead"
        BY <3>2 DEF ResolveRequired
      <4>2. found
        BY <2>4, <4>1
      <4>. QED BY <2>1, <3>2, <4>1, <4>2 DEF ResolveRequired, Probe
    <3>3. CASE ResolveAuto
      <4>1. PICK found \in BOOLEAN : Probe(found) /\ gateway' = found
        BY <3>3 DEF ResolveAuto
      <4>. QED BY <2>1, <3>3, <4>1 DEF ResolveAuto
    <3>. QED BY <1>2, <3>1, <3>2, <3>3 DEF resolveGatewayAPIEnabled
  <2>. QED BY <2>1, <2>2, <2>3, <2>4
<1>3. CASE NewStore
  BY <1>3 DEF NewStore, Factories
<1>4. CASE RegisterInformers
  <2>1. CASE Register("Service", "services", "ingresses")
    BY <2>1 DEF Register, Informers
  <2>2. CASE Register("Ingress", "ingresses", IF gateway THEN "routes" ELSE "sync")
    BY <2>2 DEF Register, Informers
  <2>3. CASE Register("HTTPRoute", "routes", "sync")
    BY <2>3 DEF Register, Informers
  <2>4. CASE Register("GameServer", "gameservers", "syncAgones")
    BY <2>4 DEF Register, Informers
  <2>. QED BY <1>4, <2>1, <2>2, <2>3, <2>4 DEF RegisterInformers
<1>5. CASE NewAgonesStore
  <2>1. /\ main = "agones" /\ main' \in {"gameservers", "controller"}
        /\ UNCHANGED <<mode, crds, gateway, registered, started, synced, attempt, agones,
                       mgr, interrupted, stopping, signals>>
    BY <1>5 DEF NewAgonesStore
  <2>2. launched' \in {launched, launched \cup {"agones"}}
    BY <1>5, Zenon DEF NewAgonesStore
  <2>3. faults' = faults \/ Fault
    BY <1>5, Zenon DEF NewAgonesStore
  <2>4. faults' \in Nat /\ launched' \subseteq Factories
    BY <2>2, <2>3 DEF Factories
  <2>. QED BY <2>1, <2>4
<1>6. CASE StartGameServerController
  <2>1. /\ main = "controller"
        /\ UNCHANGED <<mode, crds, gateway, launched, registered, started, synced, attempt,
                       agones, interrupted, stopping, signals>>
    BY <1>6 DEF StartGameServerController, Call
  <2>2. /\ faults' \in Nat
        /\ \/ main' = "wait" /\ mgr' = "launched"
           \/ main' = "dead" /\ mgr' = mgr
    BY <1>6 DEF StartGameServerController, Call
  <2>. QED BY <2>1, <2>2
<1>7. CASE ReturnFromStart
  BY <1>7 DEF ReturnFromStart
<1>. QED BY <1>1, <1>2, <1>3, <1>4, <1>5, <1>6, <1>7

(* The two waits: only the one for the Kubernetes store must succeed.      *)
LEMMA SyncKeepsStartupInv ==
  ASSUME StartupInv, HasSynced \/ AgonesHasSynced
  PROVE  StartupInv'
<1>1. TypeOK
  BY DEF StartupInv
<1>2. CASE HasSynced
  <2>1. /\ main = "sync"
        /\ UNCHANGED <<mode, crds, gateway, launched, registered, started, synced, agones,
                       mgr, interrupted, stopping, signals>>
    BY <1>2 DEF HasSynced, inputs, informers, shutdown
  <2>2. /\ attempt' \in 1 .. MaxRetries /\ faults' \in Nat
        /\ main' \in {"sync", "agones", "dead"}
        /\ main' = "agones" => StoreInformers \subseteq synced
    BY <1>1, <1>2, <2>1, WithRetryStep DEF HasSynced
  <2>. QED BY <2>1, <2>2 DEF StartupInv, TypeOK, Starting, HasStore, Resolved, AsConfigured,
                             StoreInformers
<1>3. CASE AgonesHasSynced
  <2>1. /\ main = "syncAgones" /\ agones' \in BOOLEAN
        /\ UNCHANGED <<mode, crds, gateway, launched, registered, started, synced,
                       mgr, interrupted, stopping, signals>>
    BY <1>3 DEF AgonesHasSynced, inputs, informers, shutdown
  <2>2. /\ attempt' \in 1 .. MaxRetries /\ faults' \in Nat
        /\ main' \in {"syncAgones", "controller"}
    BY <1>1, <1>3, <2>1, WithRetryStep DEF AgonesHasSynced
  <2>. QED BY <2>1, <2>2 DEF StartupInv, TypeOK, Starting, HasStore, Resolved, AsConfigured,
                             StoreInformers
<1>. QED BY <1>2, <1>3

(* The factories, the informers, the manager and the signals.              *)
LEMMA OthersKeepStartupInv ==
  ASSUME StartupInv,
         \/ \E f \in Factories : StartFactory(f)
         \/ \E x \in Informers : SyncInformer(x)
         \/ ManagerStep \/ ManagerFails \/ HandlerPanics \/ Interrupt \/ Terminate
  PROVE  StartupInv'
<1>. USE DEF StartupInv, TypeOK, Starting, HasStore, Resolved, AsConfigured, StoreInformers,
             inputs, informers, shutdown, Fault, Alive
<1>1. CASE \E f \in Factories : StartFactory(f)
  BY <1>1 DEF StartFactory
<1>2. CASE \E x \in Informers : SyncInformer(x)
  BY <1>2 DEF SyncInformer
<1>3. CASE ManagerStep
  BY <1>3 DEF ManagerStep, SetupSignalHandler, ManagerStarts, ManagerStops
<1>4. CASE ManagerFails
  BY <1>4 DEF ManagerFails
<1>5. CASE HandlerPanics
  BY <1>5 DEF HandlerPanics
<1>6. CASE Interrupt
  <2>1. /\ main' \in {main, "dead"} /\ signals' \in Nat
        /\ UNCHANGED <<mode, crds, gateway, launched, registered, started, synced, attempt,
                       agones, mgr, faults>>
    BY <1>6 DEF Interrupt, ManagerSignalled
  <2>2. interrupted' \in BOOLEAN /\ stopping' \in BOOLEAN
    BY <1>6, Zenon DEF Interrupt, ManagerSignalled
  <2>. QED BY <2>1, <2>2
<1>7. CASE Terminate
  <2>1. /\ main' \in {main, "dead"} /\ signals' \in Nat
        /\ UNCHANGED <<mode, crds, gateway, launched, registered, started, synced, attempt,
                       agones, mgr, faults>>
    BY <1>7 DEF Terminate, ManagerSignalled
  <2>2. interrupted' \in BOOLEAN /\ stopping' \in BOOLEAN
    BY <1>7, Zenon DEF Terminate, ManagerSignalled
  <2>. QED BY <2>1, <2>2
<1>. QED BY <1>1, <1>2, <1>3, <1>5, <1>6, <1>7, <1>4

(* Every step keeps the invariant.                                         *)
LEMMA NextStartupInv == StartupInv /\ [Next]_vars => StartupInv'
<1>. SUFFICES ASSUME StartupInv, [Next]_vars PROVE StartupInv'
  OBVIOUS
<1>1. CASE UNCHANGED vars
  BY <1>1 DEF vars, StartupInv, TypeOK, AsConfigured, StoreInformers
<1>2. CASE Next
  BY <1>2, MainKeepsStartupInv, SyncKeepsStartupInv, OthersKeepStartupInv DEF Next, MainStep
<1>. QED BY <1>1, <1>2

(* The types, among them the bound on the attempts of withRetry.           *)
THEOREM StartupTypes == Spec => []TypeOK
<1>1. StartupInv => TypeOK
  BY DEF StartupInv
<1>. QED BY <1>1, InitStartupInv, NextStartupInv, PTL DEF Spec

(* Events are handled with complete caches only, in whatever order the     *)
(* goroutines run.                                                         *)
THEOREM CachesBeforeEvents == Spec => []ServingIsSynced
<1>1. StartupInv => ServingIsSynced
  BY DEF StartupInv, ServingIsSynced, StoreInformers
<1>. QED BY <1>1, InitStartupInv, NextStartupInv, PTL DEF Spec

(* The gateway backend is on or off as the flag says, and HTTPRoutes are   *)
(* watched if and only if it is on.                                        *)
THEOREM FlagRespected == Spec => []GatewayAsConfigured
<1>1. StartupInv => GatewayAsConfigured
  BY DEF StartupInv, GatewayAsConfigured, AsConfigured, StoreInformers
<1>. QED BY <1>1, InitStartupInv, NextStartupInv, PTL DEF Spec
=============================================================================
