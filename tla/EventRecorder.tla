--------------------------- MODULE EventRecorder ---------------------------
(***************************************************************************)
(* pkg/record: what the controller tells users, as events on a GameServer, *)
(* while it reconciles.  Every step of the handler that records an event   *)
(* is a step of IngressController together with what it tells; the events  *)
(* follow from the branch that the step takes.                             *)
(*                                                                         *)
(* Told is what was handed to the recorder.  Its delivery is client-go's.  *)
(***************************************************************************)
EXTENDS IngressController

VARIABLES
  told,        \* history: <<reason, kind, name, uid>>
  open,        \* open[i]: the kind whose creation i has told of and not its end
  unbuildable  \* history: <<k, n, u>> some stored version of n asked for in vain

recorder == <<told, open>>
allVars  == <<vars, recorder, unbuildable>>

(* The subject of most events: the GameServer of the event being handled.  *)
About(i, reason, k) == <<reason, k, cur[i].name, cur[i].uid>>

(* What g asks for and the options refuse to build for its annotations.    *)
Unbuildable(g) == {x \in Wants(g) : ~Builds(x[1], g.annotations)}

TellInit ==
  /\ Init
  /\ told = {}
  /\ open = [i \in Instances |-> "none"]
  /\ unbuildable = {}

-----------------------------------------------------------------------------
RecordCreating(i, k) == {About(i, "Creating", k)}

RecordFailed(i, k) == {About(i, "Failed", k)}

RecordSuccess(i, k) == {About(i, "Created", k)}

(* The annotations for TLS mean nothing to an HTTPRoute.                   *)
TLSAnnotated(g) == HasAnnotation(g, TerminateTLS) \/ HasAnnotation(g, IssuerName)

RecordWarning(i, k) ==
  IF k = HTTPRouteKind /\ TLSAnnotated(cur[i]) THEN {About(i, "Warning", k)} ELSE {}

(* The updated GameServer is the one the Agones cache held.                *)
RecordEvent(g) ==
  {<<"Updated", "GameServer", g.name, g.uid>>}
    \cup (IF HasAnnotation(g, IngressClassLegacy)
          THEN {<<"Deprecated", "GameServer", g.name, g.uid>>} ELSE {})

-----------------------------------------------------------------------------
(* Mutant: an object that cannot be built is not reported.                 *)
LookUpTellsLess(i, k, create) ==
  IF known[i][k][cur[i].name] # 0
  THEN UNCHANGED recorder
  ELSE /\ told' = told \cup RecordCreating(i, k) \cup RecordWarning(i, k)
       /\ open' = [open EXCEPT ![i] = k]

(* Mutant: the success is told ahead of Create.                            *)
LookUpTellsSuccess(i, k, create) ==
  IF known[i][k][cur[i].name] # 0
  THEN UNCHANGED recorder
  ELSE /\ told' = told \cup RecordCreating(i, k) \cup RecordWarning(i, k)
                       \cup (IF pc'[i] = create THEN RecordSuccess(i, k) ELSE RecordFailed(i, k))
       /\ open' = [open EXCEPT ![i] = IF pc'[i] = create THEN k ELSE "none"]

(* The start of reconcileNotFound, up to the object's construction.        *)
LookUpTells(i, k, create) ==
  IF known[i][k][cur[i].name] # 0
  THEN UNCHANGED recorder
  ELSE /\ told' = told \cup RecordCreating(i, k) \cup RecordWarning(i, k)
                       \cup (IF pc'[i] = create THEN {} ELSE RecordFailed(i, k))
       /\ open' = [open EXCEPT ![i] = IF pc'[i] = create THEN k ELSE "none"]

(* Its end: what the API answered; AlreadyExists is told as a success.     *)
CreateTells(i, k, next) ==
  /\ told' = told \cup (IF pc'[i] = next THEN RecordSuccess(i, k) ELSE RecordFailed(i, k))
  /\ open' = [open EXCEPT ![i] = "none"]

TellService(i) ==
  \/ ReconcileService(i) /\ LookUpTells(i, ServiceKind, "createService")
  \/ CreateService(i) /\ CreateTells(i, ServiceKind, "route")

(* Without the gateway backend the error is only logged.                   *)
TellRoute(i) ==
  \/ /\ ReconcileRoute(i)
     /\ IF Route(i) = "none" THEN UNCHANGED recorder ELSE LookUpTells(i, Route(i), "createRoute")
  \/ CreateRoute(i) /\ CreateTells(i, Route(i), "annotate")

(* After RetryOnConflict: an answer that was lost is an error, and untold. *)
TellUpdate(i) ==
  /\ Update(i)
  /\ told' = IF Accepts(copy[i]) /\ faults' = faults THEN told \cup RecordEvent(copy[i]) ELSE told
  /\ UNCHANGED open

TellCrash(i) ==
  /\ Crash(i) \/ Panic(i)
  /\ open' = [open EXCEPT ![i] = "none"]
  /\ UNCHANGED told

Silent(i) ==
  \/ SyncStores(i)
  \/ StartManager(i)
  \/ Annotate(i)
  \/ \E n \in Names :
       \/ Handle(i, n)
       \/ Resync(i, n)
       \/ ObserveGameServer(i, n)
       \/ \E k \in Kinds : Observe(i, k, n)

(* Of every version that comes to be stored.                               *)
Remember ==
  unbuildable' = unbuildable \cup UNION {Unbuildable(gs'[n]) : n \in {m \in Names : gs'[m] # NotFound}}

TellNext ==
  /\ \/ \E n \in Names : ClusterStep(n) /\ UNCHANGED recorder
     \/ \E i \in Instances :
          \/ Silent(i) /\ UNCHANGED recorder
          \/ TellService(i)
          \/ TellRoute(i)
          \/ TellUpdate(i)
          \/ TellCrash(i)
  /\ Remember

TellSpec == TellInit /\ [][TellNext]_allVars

-----------------------------------------------------------------------------
(***************************************************************************)
(* Properties.                                                             *)
(***************************************************************************)
(* Whatever branch a reconciler leaves by, and whichever of its answers is *)
(* lost: a creation that was told has been answered by Created or Failed   *)
(* when the handler turns to the next resource or the next event.          *)
CreationsAnswered ==
  \A i \in Instances : pc[i] \notin {"createService", "createRoute"} => open[i] = "none"

(* A user who reads "created" for a resource of a GameServer can rely on   *)
(* a copy of the controller having created it, for this GameServer or, as  *)
(* AlreadyExists does not say who owns it, for another of the same name.   *)
CreatedIsBacked ==
  \A k \in Kinds, n \in Names, u \in 1 .. MaxLives :
    <<"Created", k, n, u>> \in told => \E owner \in 1 .. MaxLives : <<k, n, owner>> \in created

(* No false alarm: as long as no call has failed, a failure is told of a   *)
(* GameServer only if a version of this very GameServer asked for the kind *)
(* and could not have it.  That a cache is stale, that a predecessor of    *)
(* the name could not have it, or that another instance was faster, is no  *)
(* failure.                                                                *)
FailuresAreReal ==
  \A k \in Kinds, n \in Names, u \in 1 .. MaxLives :
    faults = 0 /\ <<"Failed", k, n, u>> \in told => <<k, n, u>> \in unbuildable

(* README: "The controller will emit a warning event if either annotation  *)
(* is found on a game server using the gateway backend."                   *)
WarnedInGateway ==
  \A i \in Instances :
    /\ pc[i] \in {"annotate", "update"}
    /\ RouteKind(cur[i]) = HTTPRouteKind
    /\ TLSAnnotated(cur[i])
    => About(i, "Warning", HTTPRouteKind) \in told
=============================================================================
