--------------------------- MODULE Configuration ---------------------------
(***************************************************************************)
(* From the command line to the clients of the API server: cmd/root.go,    *)
(* the first half of StartController, NewManager and pkg/k8sutil.  It is   *)
(* what Startup takes for one step, Configure.                             *)
(*                                                                         *)
(* Three clients are made, each from a configuration of its own: that of   *)
(* the manager, which watches the GameServers, that of the Agones and the  *)
(* Gateway API stores, and that of the Service and the Ingress stores.     *)
(***************************************************************************)
EXTENDS Naturals

CONSTANTS
  Paths,        \* names of kubeconfig files
  APIServers,
  None,         \* an empty flag or variable; no server
  MaxRewrites,  \* bound: how often a kubeconfig file is rewritten
  MaxFaults     \* bound: calls that fail for other reasons

ASSUME ConfigurationBounds == MaxRewrites \in Nat /\ MaxFaults \in Nat

(* The flags that configure the clients.  --master is not one of them: its *)
(* value is stored in a variable that nothing reads.                       *)
Flags ==
  [wellFormed: BOOLEAN,          \* cobra knows the flags and their types
   config: BOOLEAN,              \* --config is given
   kubeconfig: Paths \cup {None},
   syncPeriod: BOOLEAN]          \* --sync-period is a duration

VARIABLES
  flags,
  KUBECONFIG,   \* the environment variable
  home,         \* the home directory is known
  pod,          \* the server of the cluster this process is a pod of, or None
  files,        \* files[p]: the server that file p names; None: unreadable
  step,
  config,       \* the app.Config that StartController is called with
  client,       \* by use: the server the client talks to
  rewritten,    \* history: <<p, s>>, file p was rewritten when step was s
  rewrites,
  faults

inputs == <<flags, KUBECONFIG, home, pod>>
disk   == <<files, rewritten, rewrites>>
vars   == <<inputs, disk, step, config, client, faults>>

Clients == {"manager", "stores", "core"}

Init ==
  /\ flags \in Flags
  /\ KUBECONFIG \in Paths \cup {None}
  /\ home \in BOOLEAN
  /\ pod \in APIServers \cup {None}
  /\ files \in [Paths -> APIServers \cup {None}]
  /\ step = "flags"
  /\ config = [Kubeconfig |-> None, SyncPeriod |-> FALSE]
  /\ client = [c \in Clients |-> None]
  /\ rewritten = {}
  /\ rewrites = 0
  /\ faults = 0

-----------------------------------------------------------------------------
(* Go on, or exit with status 1.                                           *)
Proceed(from, ok, to) ==
  /\ step = from
  /\ step' = IF ok THEN to ELSE "exit"

Execute ==
  /\ Proceed("flags", flags.wellFormed, "init")
  /\ UNCHANGED <<inputs, disk, config, client, faults>>

(* Without --config the home directory is searched.  What the file says is *)
(* read and used nowhere, and an error of reading it is ignored.           *)
initConfig ==
  /\ Proceed("init", flags.config \/ home, "run")
  /\ UNCHANGED <<inputs, disk, config, client, faults>>

(* The flags become the fields of an app.Config.                           *)
Run ==
  /\ Proceed("run", TRUE, "period")
  /\ config' = [Kubeconfig |-> flags.kubeconfig, SyncPeriod |-> flags.syncPeriod]
  /\ UNCHANGED <<inputs, disk, client, faults>>

ParseDuration ==
  /\ Proceed("period", config.SyncPeriod, "manager")
  /\ UNCHANGED <<inputs, disk, config, client, faults>>

(* The file named by the argument or else by the variable, or the cluster  *)
(* it runs in; None is an error.  BuildConfigFromFlags gets no address.    *)
NewClusterConfig(kubeconfig) ==
  LET file == IF kubeconfig = None THEN KUBECONFIG ELSE kubeconfig
  IN  IF file = None THEN pod ELSE files[file]

(* A client for the server of a configuration just read; it may fail too.  *)
Connect(c, server, from, to) ==
  /\ \/ /\ Proceed(from, server # None, to)
        /\ client' = [client EXCEPT ![c] = server]
        /\ UNCHANGED faults
     \/ /\ Proceed(from, FALSE, to)
        /\ faults < MaxFaults
        /\ faults' = faults + 1
        /\ UNCHANGED client
  /\ UNCHANGED <<inputs, disk, config>>

NewManager(kubeconfig) ==
  Connect("manager", NewClusterConfig(kubeconfig), "manager", "stores")

(* Handed to NewStore, for the HTTPRoutes, and to NewAgonesStore.          *)
ClusterConfig(kubeconfig) ==
  Connect("stores", NewClusterConfig(kubeconfig), "stores", "core")

(* Mutant: the argument is dropped on the way.                             *)
NewClientSetOfEnv(kubeconfig) ==
  Connect("core", NewClusterConfig(None), "core", "configured")

NewClientSet(kubeconfig) ==
  Connect("core", NewClusterConfig(kubeconfig), "core", "configured")

StartController ==
  \/ ParseDuration
  \/ NewManager(config.Kubeconfig)
  \/ ClusterConfig(config.Kubeconfig)
  \/ NewClientSet(config.Kubeconfig)

(* Someone edits a kubeconfig file, or changes its context.                *)
Rewrite(p) ==
  /\ rewrites < MaxRewrites
  /\ rewrites' = rewrites + 1
  /\ rewritten' = rewritten \cup {<<p, step>>}
  /\ \E server \in (APIServers \cup {None}) \ {files[p]} :
       files' = [files EXCEPT ![p] = server]
  /\ UNCHANGED <<inputs, step, config, client, faults>>

Next ==
  \/ Execute
  \/ initConfig
  \/ Run
  \/ StartController
  \/ \E p \in Paths : Rewrite(p)

Spec == Init /\ [][Next]_vars

-----------------------------------------------------------------------------
(* What a user of the command line means: the file of the flag, without it *)
(* that of the variable, without both the cluster the process runs in.     *)
Chosen == IF flags.kubeconfig # None THEN flags.kubeconfig ELSE KUBECONFIG

Meant == IF Chosen = None THEN pod ELSE files[Chosen]

(* That file was rewritten while StartController was about to take step s. *)
RewrittenAt(s) == <<Chosen, s>> \in rewritten

(* The GameServers watched and annotated, the HTTPRoutes and the Services  *)
(* and Ingresses made for them are in one cluster, the one that the user   *)
(* meant.  Three callers in two packages pass the name of the file on and  *)
(* read it anew: two of the clients part only if it was rewritten after    *)
(* the one reading and before the next, and the last of them has what it   *)
(* says now unless it was rewritten since.  A file nobody named, and a     *)
(* rewrite at another time, never splits them.                             *)
OneCluster ==
  step = "configured" =>
    /\ client["manager"] = client["stores"] \/ RewrittenAt("stores")
    /\ client["stores"] = client["core"] \/ RewrittenAt("core")
    /\ client["core"] = Meant \/ RewrittenAt("configured")
=============================================================================
