------------------------------- MODULE Startup -------------------------------
(***************************************************************************)
(* One process of the controller from its start to its end: StartController*)
(* of pkg/app, the stores it waits for, the manager it starts and the      *)
(* signals that stop it.                                                   *)
(*                                                                         *)
(* Besides the main goroutine there is one for every "go factory.Start"    *)
(* and one for the manager.  A factory starts the informers registered so  *)
(* far, and an informer is registered by the first call of Informer().     *)
(***************************************************************************)
EXTENDS Naturals

CONSTANTS
  Modes,        \* values of --enable-gateway-api
  MaxRetries,   \* attempts of withRetry
  MaxFaults,    \* bound: failed calls and slow caches
  MaxSignals    \* bound: signals sent to the process

ASSUME StartupBounds == /\ MaxRetries \in Nat \ {0}
                        /\ MaxFaults \in Nat
                        /\ MaxSignals \in Nat

Informers == {"Service", "Ingress", "HTTPRoute", "GameServer"}

Factories == {"core", "gateway", "agones"}

InformersOf(f) ==
  CASE f = "core"    -> {"Service", "Ingress"}
    [] f = "gateway" -> {"HTTPRoute"}
    [] f = "agones"  -> {"GameServer"}

VARIABLES
  mode,         \* --enable-gateway-api
  crds,         \* the API server serves httproutes.gateway.networking.k8s.io
  main,         \* where the main goroutine is; "dead": the process has ended
  gateway,      \* gatewayEnabled: a gateway store and a gateway reconciler exist
  launched,     \* factories whose Start goroutine has not run yet
  registered,   \* informers a factory knows of
  started,      \* informers a factory has started
  synced,       \* informers that have listed their objects
  attempt,      \* the attempt withRetry is at
  agones,       \* NewAgonesStore returned a store, not nil
  mgr,          \* the manager goroutine
  interrupted,  \* ctx is cancelled
  stopping,     \* the context of the manager is cancelled
  signals,
  faults

vars == <<mode, crds, main, gateway, launched, registered, started, synced, attempt,
          agones, mgr, interrupted, stopping, signals, faults>>

inputs    == <<mode, crds>>
informers == <<launched, registered, started, synced>>
shutdown  == <<interrupted, stopping, signals>>

Starting == {"configure", "resolve", "stores", "services", "ingresses", "routes", "sync",
             "agones", "gameservers", "syncAgones", "controller"}

TypeOK ==
  /\ mode \in Modes
  /\ crds \in BOOLEAN
  /\ main \in Starting \cup {"wait", "dead"}
  /\ gateway \in BOOLEAN
  /\ launched \subseteq Factories
  /\ registered \subseteq Informers
  /\ started \subseteq Informers
  /\ synced \subseteq Informers
  /\ attempt \in 1 .. MaxRetries
  /\ agones \in BOOLEAN
  /\ mgr \in {"none", "launched", "signals", "serving", "stopped"}
  /\ interrupted \in BOOLEAN
  /\ stopping \in BOOLEAN
  /\ signals \in Nat
  /\ faults \in Nat

Init ==
  /\ mode \in Modes
  /\ crds \in BOOLEAN
  /\ main = "configure"
  /\ gateway = FALSE
  /\ launched = {}
  /\ registered = {}
  /\ started = {}
  /\ synced = {}
  /\ attempt = 1
  /\ agones = FALSE
  /\ mgr = "none"
  /\ interrupted = FALSE
  /\ stopping = FALSE
  /\ signals = 0
  /\ faults = 0

Fault ==
  /\ faults < MaxFaults
  /\ faults' = faults + 1

Alive == main # "dead"

-----------------------------------------------------------------------------
(***************************************************************************)
(* The main goroutine.  withFatal ends the process.                        *)
(***************************************************************************)

Call(from, to) ==
  /\ main = from
  /\ \/ main' = to /\ UNCHANGED faults
     \/ main' = "dead" /\ Fault

(* The sync period, the manager, the cluster config and the client.        *)
Configure ==
  /\ Call("configure", "resolve")
  /\ UNCHANGED <<inputs, gateway, informers, attempt, agones, mgr, shutdown>>

(* checkGatewayAPICRDs: any error of the discovery call counts as absence. *)
Probe(found) ==
  \/ found = crds /\ UNCHANGED faults
  \/ crds /\ ~found /\ Fault

ResolveDisabled ==
  /\ mode = "false"
  /\ main' = "stores"
  /\ gateway' = FALSE
  /\ UNCHANGED faults

(* Mutant: a missing CRD is only a warning.                                *)
ResolveLeniently ==
  /\ mode = "true"
  /\ \E found \in BOOLEAN : Probe(found) /\ gateway' = found
  /\ main' = "stores"

ResolveRequired ==
  /\ mode = "true"
  /\ \E found \in BOOLEAN :
       /\ Probe(found)
       /\ gateway' = found
       /\ main' = IF found THEN "stores" ELSE "dead"

ResolveAuto ==
  /\ mode \notin {"true", "false"}
  /\ \E found \in BOOLEAN : Probe(found) /\ gateway' = found
  /\ main' = "stores"

resolveGatewayAPIEnabled ==
  /\ main = "resolve"
  /\ ResolveDisabled \/ ResolveRequired \/ ResolveAuto
  /\ UNCHANGED <<inputs, informers, attempt, agones, mgr, shutdown>>

(* NewStore up to HasSynced.  The gateway client may fail to be built.     *)
NewStore ==
  /\ main = "stores"
  /\ \/ main' = "services" /\ UNCHANGED faults
     \/ gateway /\ main' = "dead" /\ Fault
  /\ launched' = {"core"} \cup (IF gateway THEN {"gateway"} ELSE {})
  /\ UNCHANGED <<inputs, gateway, registered, started, synced, attempt, agones, mgr, shutdown>>

Register(x, from, to) ==
  /\ main = from
  /\ main' = to
  /\ registered' = registered \cup {x}
  /\ UNCHANGED <<inputs, gateway, launched, started, synced, attempt, agones, mgr, shutdown, faults>>

(* The first lines of the two HasSynced functions.                         *)
RegisterInformers ==
  \/ Register("Service", "services", "ingresses")
  \/ Register("Ingress", "ingresses", IF gateway THEN "routes" ELSE "sync")
  \/ Register("HTTPRoute", "routes", "sync")
  \/ Register("GameServer", "gameservers", "syncAgones")

(* An informer of xs that no factory will start, or that cannot list.      *)
Hopeless(xs) ==
  \/ interrupted
  \/ "HTTPRoute" \in xs \ synced /\ ~crds
  \/ \E f \in Factories \ launched : (xs \cap InformersOf(f)) \ started # {}

TimesOut(xs) ==
  /\ ~(xs \subseteq synced)
  /\ \/ Hopeless(xs) /\ UNCHANGED faults
     \/ Fault

(* Mutant: no limit on the attempts.                                       *)
withRetryForever(xs, done, failed) ==
  \/ /\ xs \subseteq synced
     /\ main' = done
     /\ attempt' = 1
     /\ UNCHANGED faults
  \/ /\ TimesOut(xs)
     /\ attempt' = (attempt % MaxRetries) + 1
     /\ UNCHANGED main

(* Mutant: one attempt more.                                               *)
withRetryOnceMore(xs, done, failed) ==
  \/ /\ xs \subseteq synced
     /\ main' = done
     /\ attempt' = 1
     /\ UNCHANGED faults
  \/ /\ TimesOut(xs)
     /\ attempt <= MaxRetries
     /\ attempt' = attempt + 1
     /\ UNCHANGED main
  \/ /\ TimesOut(xs)
     /\ attempt > MaxRetries
     /\ attempt' = 1
     /\ main' = failed

(* WaitForCacheSync under a timeout, again and again.                      *)
withRetry(xs, done, failed) ==
  \/ /\ xs \subseteq synced
     /\ main' = done
     /\ attempt' = 1
     /\ UNCHANGED faults
  \/ /\ TimesOut(xs)
     /\ attempt < MaxRetries
     /\ attempt' = attempt + 1
     /\ UNCHANGED main
  \/ /\ TimesOut(xs)
     /\ attempt = MaxRetries
     /\ attempt' = 1
     /\ main' = failed

(* Mutant: the HTTPRoutes are not waited for.                              *)
StoreInformersCore == {"Service", "Ingress"}

StoreInformers == {"Service", "Ingress"} \cup (IF gateway THEN {"HTTPRoute"} ELSE {})

HasSynced ==
  /\ main = "sync"
  /\ withRetry(StoreInformers, "agones", "dead")
  /\ UNCHANGED <<inputs, gateway, informers, agones, mgr, shutdown>>

(* NewAgonesStore: its error is assigned and never looked at, so that the  *)
(* process goes on with a nil store.                                       *)
NewAgonesStore ==
  /\ main = "agones"
  /\ \/ /\ main' = "gameservers"
        /\ launched' = launched \cup {"agones"}
        /\ UNCHANGED faults
     \/ /\ main' = "controller"
        /\ Fault
        /\ UNCHANGED launched
  /\ UNCHANGED <<inputs, gateway, registered, started, synced, attempt, agones, mgr, shutdown>>

AgonesHasSynced ==
  /\ main = "syncAgones"
  /\ withRetry({"GameServer"}, "controller", "controller")
  /\ agones' = (main' = "controller" /\ "GameServer" \in synced)
  /\ UNCHANGED <<inputs, gateway, informers, mgr, shutdown>>

(* NewGameServerController and Start up to the wait for ctx.               *)
StartGameServerController ==
  /\ Call("controller", "wait")
  /\ mgr' = IF main' = "wait" THEN "launched" ELSE mgr
  /\ UNCHANGED <<inputs, gateway, informers, attempt, agones, shutdown>>

(* Mutant: wait for the manager too.                                       *)
ReturnAfterManager ==
  /\ main = "wait"
  /\ interrupted
  /\ mgr = "stopped"
  /\ main' = "dead"
  /\ UNCHANGED <<inputs, gateway, informers, attempt, agones, mgr, shutdown, faults>>

(* <-ctx.Done(), and main returns.                                         *)
ReturnFromStart ==
  /\ main = "wait"
  /\ interrupted
  /\ main' = "dead"
  /\ UNCHANGED <<inputs, gateway, informers, attempt, agones, mgr, shutdown, faults>>

MainStep ==
  \/ Configure
  \/ resolveGatewayAPIEnabled
  \/ NewStore
  \/ RegisterInformers
  \/ HasSynced
  \/ NewAgonesStore
  \/ AgonesHasSynced
  \/ StartGameServerController
  \/ ReturnFromStart

-----------------------------------------------------------------------------
(***************************************************************************)
(* The other goroutines.                                                   *)
(***************************************************************************)

(* SharedInformerFactory.Start: what is registered now, nothing later.     *)
StartFactory(f) ==
  /\ Alive
  /\ f \in launched
  /\ launched' = launched \ {f}
  /\ started' = started \cup (registered \cap InformersOf(f))
  /\ UNCHANGED <<inputs, main, gateway, registered, synced, attempt, agones, mgr, shutdown, faults>>

(* The HTTPRoutes are listed only while their CRD is there.                *)
SyncInformer(x) ==
  /\ Alive
  /\ x \in started \ synced
  /\ x = "HTTPRoute" => crds
  /\ ~interrupted
  /\ synced' = synced \cup {x}
  /\ UNCHANGED <<inputs, main, gateway, launched, registered, started, attempt, agones, mgr,
                 shutdown, faults>>

SetupSignalHandler ==
  /\ Alive
  /\ mgr = "launched"
  /\ mgr' = "signals"
  /\ UNCHANGED <<inputs, main, gateway, informers, attempt, agones, shutdown, faults>>

(* Manager.Start: handlers run, or it returns an error nobody reads.       *)
ManagerStarts ==
  /\ Alive
  /\ mgr = "signals"
  /\ ~stopping
  /\ \/ mgr' = "serving" /\ UNCHANGED faults
     \/ mgr' = "stopped" /\ Fault
  /\ UNCHANGED <<inputs, main, gateway, informers, attempt, agones, shutdown>>

ManagerStops ==
  /\ Alive
  /\ mgr \in {"signals", "serving"}
  /\ stopping
  /\ mgr' = "stopped"
  /\ UNCHANGED <<inputs, main, gateway, informers, attempt, agones, shutdown, faults>>

(* Manager.Start returns with an error while it serves; nobody reads it.   *)
ManagerFails ==
  /\ Alive
  /\ mgr = "serving"
  /\ Fault
  /\ mgr' = "stopped"
  /\ UNCHANGED <<inputs, main, gateway, informers, attempt, agones, shutdown>>

(* The first GameServer to be annotated meets the nil Agones store.        *)
HandlerPanics ==
  /\ Alive
  /\ mgr = "serving"
  /\ ~agones
  /\ main' = "dead"
  /\ UNCHANGED <<inputs, gateway, informers, attempt, agones, mgr, shutdown, faults>>

ManagerStep == SetupSignalHandler \/ ManagerStarts \/ ManagerStops

-----------------------------------------------------------------------------
(***************************************************************************)
(* Signals.  ctx follows Interrupt only; the manager's handler, once there *)
(* is one, takes Interrupt and SIGTERM, and the second of them kills.      *)
(***************************************************************************)

ManagerSignalled ==
  IF mgr \in {"none", "launched"}
  THEN UNCHANGED <<main, stopping>>
  ELSE /\ stopping' = TRUE
       /\ main' = IF stopping THEN "dead" ELSE main

Interrupt ==
  /\ Alive
  /\ signals < MaxSignals
  /\ signals' = signals + 1
  /\ interrupted' = TRUE
  /\ ManagerSignalled
  /\ UNCHANGED <<inputs, gateway, informers, attempt, agones, mgr, faults>>

Terminate ==
  /\ Alive
  /\ signals < MaxSignals
  /\ signals' = signals + 1
  /\ \/ mgr \in {"none", "launched"} /\ main' = "dead" /\ UNCHANGED stopping
     \/ mgr \notin {"none", "launched"} /\ ManagerSignalled
  /\ UNCHANGED <<inputs, gateway, informers, attempt, agones, mgr, interrupted, faults>>

Next ==
  \/ MainStep
  \/ \E f \in Factories : StartFactory(f)
  \/ \E x \in Informers : SyncInformer(x)
  \/ ManagerStep
  \/ ManagerFails
  \/ HandlerPanics
  \/ Interrupt
  \/ Terminate

Spec == Init /\ [][Next]_vars

(***************************************************************************)
(* Goroutines run; a started informer lists its objects in the end.        *)
(***************************************************************************)
Fairness ==
  /\ WF_vars(MainStep)
  /\ WF_vars(ManagerStep)
  /\ \A f \in Factories : WF_vars(StartFactory(f))
  /\ \A x \in Informers : WF_vars(SyncInformer(x))

FairSpec == Spec /\ Fairness

-----------------------------------------------------------------------------
(***************************************************************************)
(* Properties.                                                             *)
(***************************************************************************)

(* No event is handled before the caches of Services, Ingresses and, with  *)
(* the gateway backend, HTTPRoutes are complete, whichever of the          *)
(* goroutines ran first and however often the wait timed out: an event     *)
(* handled earlier would take every existing object for missing.           *)
ServingIsSynced ==
  mgr = "serving" =>
    /\ {"Service", "Ingress"} \subseteq synced
    /\ gateway => "HTTPRoute" \in synced

(* A process that handles events runs the backends its flag names: "true"  *)
(* never without the gateway, "false" never with it.  It has an HTTPRoute  *)
(* informer to read from exactly if it has a gateway reconciler, though    *)
(* CRDs come and go after the choice was made.                             *)
GatewayAsConfigured ==
  mgr # "none" =>
    /\ mode = "true" => gateway
    /\ mode = "false" => ~gateway
    /\ gateway <=> "HTTPRoute" \in registered

(* The start comes to an end: the controller waits for its context or the  *)
(* process is dead, even if an informer was registered too late to be      *)
(* started: withRetry gives up.                                            *)
StartupSettles == (main \in Starting) ~> (main \in {"wait", "dead"})

(* An Interrupt ends the process, whatever it interrupts: the waits for    *)
(* the caches run out, and Start returns when ctx is cancelled, whether or *)
(* not the manager was there to take the signal.                           *)
InterruptExits == interrupted ~> (main = "dead")

(* Left alone the controller starts and comes to handle events.            *)
ControllerStarts == <>(mgr = "serving")

(* With "auto" the gateway backend is enabled if its CRDs are present.     *)
AutoFollowsCRDs == mode = "auto" /\ mgr = "serving" /\ crds => gateway
=============================================================================
