----------------------------- MODULE Deployment -----------------------------
(***************************************************************************)
(* The process of Startup under the kubelet, as deploy/install.yaml runs   *)
(* it: a container whose liveness is probed at /healthz, which is killed   *)
(* after a number of failed probes in a row and started again whenever its *)
(* process has ended.  The Gateway API CRDs may come and go meanwhile.     *)
(*                                                                         *)
(* The endpoint is served by the manager (AddHealthzCheck, healthz.Ping),  *)
(* so it answers from the start of the manager to its end.                 *)
(***************************************************************************)
EXTENDS Startup

CONSTANTS
  FailureThreshold,  \* failed probes in a row that make the kubelet act
  MaxRestarts        \* bound: how often the container is started again

ASSUME DeploymentBounds == /\ FailureThreshold \in Nat \ {0}
                           /\ MaxRestarts \in Nat

VARIABLES
  failures,          \* failed probes in a row
  restarts

kubelet == <<failures, restarts>>
allVars == <<vars, kubelet>>

(* Mutant: an endpoint of the process, not of the manager.                 *)
HealthyProcess == Alive

Healthy == Alive /\ mgr = "serving"

DeployInit ==
  /\ Init
  /\ failures = 0
  /\ restarts = 0

ProbeFails ==
  /\ Alive
  /\ ~Healthy
  /\ failures < FailureThreshold
  /\ failures' = failures + 1
  /\ UNCHANGED <<vars, restarts>>

ProbeSucceeds ==
  /\ Healthy
  /\ failures \in 1 .. FailureThreshold - 1
  /\ failures' = 0
  /\ UNCHANGED <<vars, restarts>>

(* SIGTERM and, after the grace period, SIGKILL.                           *)
Kill ==
  /\ Alive
  /\ failures = FailureThreshold
  /\ main' = "dead"
  /\ UNCHANGED <<inputs, gateway, informers, attempt, agones, mgr, shutdown, faults, kubelet>>

(* main.main in a new process: nothing is left of the one before.          *)
Restart ==
  /\ ~Alive
  /\ restarts < MaxRestarts
  /\ restarts' = restarts + 1
  /\ failures' = 0
  /\ main' = "configure"
  /\ gateway' = FALSE
  /\ launched' = {} /\ registered' = {} /\ started' = {} /\ synced' = {}
  /\ attempt' = 1
  /\ agones' = FALSE
  /\ mgr' = "none"
  /\ interrupted' = FALSE /\ stopping' = FALSE
  /\ UNCHANGED <<inputs, signals, faults>>

InstallCRDs ==
  /\ ~crds
  /\ crds' = TRUE
  /\ UNCHANGED <<mode, main, gateway, informers, attempt, agones, mgr, shutdown, faults, kubelet>>

RemoveCRDs ==
  /\ crds
  /\ Fault
  /\ crds' = FALSE
  /\ UNCHANGED <<mode, main, gateway, informers, attempt, agones, mgr, shutdown, kubelet>>

DeployNext ==
  \/ Next /\ UNCHANGED kubelet
  \/ ProbeFails
  \/ ProbeSucceeds
  \/ Kill
  \/ Restart
  \/ InstallCRDs
  \/ RemoveCRDs

(***************************************************************************)
(* What Startup promises, it promises without the kubelet, so the fairness *)
(* of the kubelet, which probes periodically and then kills, is a premise  *)
(* of the one property that rests on it.                                   *)
(***************************************************************************)
DeploySpec == DeployInit /\ [][DeployNext]_allVars /\ Fairness

KubeletFairness == WF_allVars(ProbeFails) /\ WF_allVars(Kill)

-----------------------------------------------------------------------------
(***************************************************************************)
(* Properties.                                                             *)
(***************************************************************************)

(* A process that has stopped handling events, because SIGTERM stopped its *)
(* manager and not its main goroutine or because the manager failed, at    *)
(* its start or later, and nobody read the error, does not linger: the     *)
(* probes fail and end it.                                                 *)
DeafIsKilled == KubeletFairness => ((Alive /\ mgr = "stopped") ~> (main = "dead"))
=============================================================================
