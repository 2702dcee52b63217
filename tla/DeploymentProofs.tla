-------------------------- MODULE DeploymentProofs --------------------------
(***************************************************************************)
(* The safety of Startup under the kubelet: kills, restarts and CRDs that  *)
(* come and go, for any thresholds and bounds.                             *)
(***************************************************************************)
EXTENDS Deployment, StartupProofs

(* No process ever starts with something its predecessor left.             *)
LEMMA RestartKeepsStartupInv ==
  ASSUME StartupInv, Restart
  PROVE  StartupInv'
<1>1. gateway' \in BOOLEAN /\ agones' \in BOOLEAN /\ interrupted' \in BOOLEAN /\ stopping' \in BOOLEAN
  BY Zenon DEF Restart
<1>2. /\ mode' \in Modes /\ crds' \in BOOLEAN /\ signals' \in Nat /\ faults' \in Nat
  BY DEF Restart, inputs, StartupInv, TypeOK
<1>3. /\ main' = "configure" /\ mgr' = "none" /\ attempt' = 1
      /\ launched' = {} /\ registered' = {} /\ started' = {} /\ synced' = {}
  BY Zenon DEF Restart
<1>. QED BY <1>1, <1>2, <1>3, StartupBounds DEF StartupInv, TypeOK, Starting, HasStore, Resolved

(* The kubelet reads the process and ends it; of the CRDs the process has  *)
(* only what it found when it resolved its flag.                           *)
LEMMA KubeletKeepsStartupInv ==
  ASSUME StartupInv, ProbeFails \/ ProbeSucceeds \/ Kill \/ InstallCRDs \/ RemoveCRDs
  PROVE  StartupInv'
<1>. USE DEF StartupInv, TypeOK, AsConfigured, StoreInformers
<1>1. CASE ProbeFails \/ ProbeSucceeds
  BY <1>1 DEF ProbeFails, ProbeSucceeds, vars
<1>2. CASE Kill
  BY <1>2 DEF Kill, inputs, informers, shutdown, Starting, HasStore, Resolved
<1>3. CASE InstallCRDs \/ RemoveCRDs
  <2>1. UNCHANGED <<mode, main, gateway, launched, registered, started, synced, attempt,
                    agones, mgr, interrupted, stopping, signals>>
    BY <1>3, Zenon DEF InstallCRDs, RemoveCRDs, informers, shutdown
  <2>2. crds' \in BOOLEAN
    BY <1>3, Zenon DEF InstallCRDs, RemoveCRDs
  <2>3. faults' \in Nat
    BY <1>3 DEF InstallCRDs, RemoveCRDs, Fault
  <2>. QED BY <2>1, <2>2, <2>3
<1>. QED BY <1>1, <1>2, <1>3

(* Every step of the process or of what surrounds it keeps the invariant.  *)
LEMMA DeployNextStartupInv == StartupInv /\ [DeployNext]_allVars => StartupInv'
<1>. SUFFICES ASSUME StartupInv, [DeployNext]_allVars PROVE StartupInv'
  OBVIOUS
<1>1. CASE UNCHANGED allVars
  BY <1>1, NextStartupInv DEF allVars
<1>2. CASE Next
  BY <1>2, NextStartupInv
<1>. QED BY <1>1, <1>2, RestartKeepsStartupInv, KubeletKeepsStartupInv DEF DeployNext

(* The initial state of the deployment is one of the process.              *)
LEMMA DeployInitStartupInv == DeployInit => StartupInv
  BY InitStartupInv DEF DeployInit

(* The types, over any number of processes.                                *)
THEOREM DeploymentTypes == DeploySpec => []TypeOK
<1>1. StartupInv => TypeOK
  BY DEF StartupInv
<1>. QED BY <1>1, DeployInitStartupInv, DeployNextStartupInv, PTL DEF DeploySpec

(* The process that follows a killed one waits for its own caches: none of *)
(* the restarts serves an event with the caches of a process before it.    *)
THEOREM CachesBeforeEventsAlways == DeploySpec => []ServingIsSynced
<1>1. StartupInv => ServingIsSynced
  BY DEF StartupInv, ServingIsSynced, StoreInformers
<1>. QED BY <1>1, DeployInitStartupInv, DeployNextStartupInv, PTL DEF DeploySpec

(* The backends are those of the flag in every process, also when the CRDs *)
(* come or go between the resolution of the flag and the first event.      *)
THEOREM FlagRespectedAlways == DeploySpec => []GatewayAsConfigured
<1>1. StartupInv => GatewayAsConfigured
  BY DEF StartupInv, GatewayAsConfigured, AsConfigured, StoreInformers
<1>. QED BY <1>1, DeployInitStartupInv, DeployNextStartupInv, PTL DEF DeploySpec
=============================================================================
