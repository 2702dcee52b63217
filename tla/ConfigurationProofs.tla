------------------------ MODULE ConfigurationProofs ------------------------
(***************************************************************************)
(* One cluster for every client, for any files, servers, flags, rewrites   *)
(* and faults.                                                             *)
(***************************************************************************)
EXTENDS Configuration, TLAPS

(* Where StartController is once Run has handed it the flags.              *)
Called == {"period", "manager", "stores", "core", "configured"}

(* The latest reading is what the chosen file says now, unless it was      *)
(* rewritten since; each earlier one is the reading after it, unless the   *)
(* file was rewritten between the two.                                     *)
ConfigurationInv ==
  /\ DOMAIN client = Clients
  /\ step \in Called => config.Kubeconfig = flags.kubeconfig
  /\ step = "stores" => client["manager"] = Meant \/ RewrittenAt("stores")
  /\ step = "core" => /\ client["manager"] = client["stores"] \/ RewrittenAt("stores")
                      /\ client["stores"] = Meant \/ RewrittenAt("core")
  /\ OneCluster

(* Nothing has been read yet.                                              *)
LEMMA InitConfigurationInv == Init => ConfigurationInv
  BY DEF Init, ConfigurationInv, OneCluster, Called

(* A caller that passes the flag on reads what the user meant.             *)
LEMMA ReadsWhatIsMeant ==
  ASSUME config.Kubeconfig = flags.kubeconfig
  PROVE  NewClusterConfig(config.Kubeconfig) = Meant
  BY DEF NewClusterConfig, Meant, Chosen

(* What is meant, and when it was rewritten, is up to the user alone.      *)
LEMMA MeantFrame ==
  ASSUME UNCHANGED <<inputs, disk>>
  PROVE  /\ Meant' = Meant /\ Chosen' = Chosen
         /\ \A s : RewrittenAt(s)' <=> RewrittenAt(s)
  BY DEF Meant, Chosen, RewrittenAt, inputs, disk

(* Each client takes one reading, of what is meant at that moment.         *)
LEMMA ConnectKeepsConfigurationInv ==
  ASSUME ConfigurationInv,
         \/ NewManager(config.Kubeconfig)
         \/ ClusterConfig(config.Kubeconfig)
         \/ NewClientSet(config.Kubeconfig)
  PROVE  ConfigurationInv'
<1>1. UNCHANGED <<inputs, disk, config>>
  BY DEF NewManager, ClusterConfig, NewClientSet, Connect
<1>2. /\ Meant' = Meant /\ flags' = flags
      /\ RewrittenAt("stores")' <=> RewrittenAt("stores")
      /\ RewrittenAt("core")' <=> RewrittenAt("core")
  BY <1>1, MeantFrame DEF inputs
<1>3. step \in {"manager", "stores", "core"}
  BY DEF NewManager, ClusterConfig, NewClientSet, Connect, Proceed
<1>4. config.Kubeconfig = flags.kubeconfig /\ NewClusterConfig(config.Kubeconfig) = Meant
  BY <1>3, ReadsWhatIsMeant DEF ConfigurationInv, Called
<1>5. CASE step' = "exit"
  <2>1. DOMAIN client' = Clients
    BY DEF NewManager, ClusterConfig, NewClientSet, Connect, ConfigurationInv
  <2>. QED BY <1>5, <2>1 DEF ConfigurationInv, Called, OneCluster
<1>6. CASE step' # "exit"
  <2>. USE DEF ConfigurationInv, Called, Clients, OneCluster
  <2>1. CASE NewManager(config.Kubeconfig)
    <3>1. step' = "stores" /\ client' = [client EXCEPT !["manager"] = Meant]
      BY <1>4, <1>6, <2>1 DEF NewManager, Connect, Proceed
    <3>. QED BY <1>1, <1>2, <1>4, <3>1
  <2>2. CASE ClusterConfig(config.Kubeconfig)
    <3>1. step = "stores" /\ step' = "core" /\ client' = [client EXCEPT !["stores"] = Meant]
      BY <1>4, <1>6, <2>2 DEF ClusterConfig, Connect, Proceed
    <3>. QED BY <1>1, <1>2, <1>4, <3>1
  <2>3. CASE NewClientSet(config.Kubeconfig)
    <3>1. step = "core" /\ step' = "configured" /\ client' = [client EXCEPT !["core"] = Meant]
      BY <1>4, <1>6, <2>3 DEF NewClientSet, Connect, Proceed
    <3>. QED BY <1>1, <1>2, <1>4, <3>1
  <2>. QED BY <2>1, <2>2, <2>3
<1>. QED BY <1>5, <1>6

(* A rewrite leaves what is meant as it is or is remembered with the step. *)
LEMMA RewriteKeepsConfigurationInv ==
  ASSUME ConfigurationInv, NEW p \in Paths, Rewrite(p)
  PROVE  ConfigurationInv'
<1>1. /\ UNCHANGED <<flags, KUBECONFIG, pod, step, config, client>>
      /\ rewritten' = rewritten \cup {<<p, step>>}
      /\ \E server : files' = [files EXCEPT ![p] = server]
  BY DEF Rewrite, inputs
<1>2. Chosen' = Chosen
  BY <1>1 DEF Chosen
<1>3. Meant' = Meant \/ p = Chosen
  BY <1>1, <1>2 DEF Meant
<1>4. p = Chosen => RewrittenAt(step)'
  BY <1>1, <1>2 DEF RewrittenAt
<1>5. \A s : RewrittenAt(s) => RewrittenAt(s)'
  BY <1>1, <1>2 DEF RewrittenAt
<1>6. Meant' = Meant \/ RewrittenAt(step)'
  BY <1>3, <1>4
<1>. QED BY <1>1, <1>5, <1>6 DEF ConfigurationInv, OneCluster

(* Every step keeps the invariant.                                         *)
LEMMA NextConfigurationInv == ConfigurationInv /\ [Next]_vars => ConfigurationInv'
<1>. SUFFICES ASSUME ConfigurationInv, [Next]_vars PROVE ConfigurationInv'
  OBVIOUS
<1>1. CASE UNCHANGED vars
  <2>1. UNCHANGED <<flags, step, config, client>> /\ UNCHANGED <<inputs, disk>>
    BY <1>1 DEF vars, inputs
  <2>. QED BY <2>1, MeantFrame DEF ConfigurationInv, OneCluster
<1>2. CASE Execute \/ initConfig \/ Run \/ ParseDuration
  <2>1. client' = client /\ step' \in {"init", "run", "period", "manager", "exit"}
    BY <1>2 DEF Execute, initConfig, Run, ParseDuration, Proceed
  <2>2. step' \in Called => config'.Kubeconfig = flags'.kubeconfig
    BY <1>2 DEF Execute, initConfig, Run, ParseDuration, Proceed, Called, ConfigurationInv, inputs
  <2>. QED BY <2>1, <2>2 DEF ConfigurationInv, OneCluster
<1>. QED BY <1>1, <1>2, ConnectKeepsConfigurationInv, RewriteKeepsConfigurationInv
         DEF Next, StartController

(* Whatever the flags, the environment and the files, two of the three     *)
(* clients part only if the file that the user named was rewritten between *)
(* their two readings: each caller passes on the name it was given.        *)
THEOREM ClientsShareCluster == Spec => []OneCluster
<1>1. ConfigurationInv => OneCluster
  BY DEF ConfigurationInv
<1>. QED BY <1>1, InitConfigurationInv, NextConfigurationInv, PTL DEF Spec
=============================================================================
