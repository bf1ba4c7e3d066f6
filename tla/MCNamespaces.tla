---------------------------- MODULE MCNamespaces ----------------------------
(***************************************************************************)
(* Three instances of Namespace side by side: on names the one a behaviour *)
(* belongs to.                                                             *)
(*   "suspend"   a service that is suspended when idle, its image in two   *)
(*               versions, on one worker                                   *)
(*   "workers"   a service that runs on demand, on two workers that crash  *)
(*               and return and that may be granted pods before they are   *)
(*               set up, as the orchestrator does                          *)
(*   "policies"  a service or a job, on demand or always on                *)
(***************************************************************************)
EXTENDS Naturals, Sequences, FiniteSets, TLC

CONSTANTS Parts, Pods, Worker, Workers, Artifact, Artifacts, Image, PodSpecs, MaxRetries,
          DepthLimit, MaxBatch, None, Never
VARIABLES on, ns

Suspending ==
  [pod_spec: PodSpecs, respects_demand: {TRUE}, suspend_on_idle: {TRUE}, run_policy: {"Service"}]
OnDemand ==
  [pod_spec: {Image}, respects_demand: {TRUE}, suspend_on_idle: {FALSE}, run_policy: {"Service"}]
Policies ==
  [pod_spec: {Image}, respects_demand: BOOLEAN, suspend_on_idle: {FALSE},
   run_policy: {"Service", "Job"}]

S == INSTANCE Namespace WITH Workers <- {Worker}, Specs <- Suspending, EarlyGrants <- FALSE
W == INSTANCE Namespace WITH Artifacts <- {Artifact}, PodSpecs <- {Image}, Specs <- OnDemand,
                             EarlyGrants <- TRUE
P == INSTANCE Namespace WITH Workers <- {Worker}, Artifacts <- {Artifact}, PodSpecs <- {Image},
                             Specs <- Policies, EarlyGrants <- FALSE

(* Nothing depends on the order of the two workers, and the worker of the  *)
(* other instances is not one of them.                                     *)
WorkerSymmetry == Permutations(Workers)

----------------------------------------------------------------------------
Init == /\ on \in Parts
        /\ IF on = "workers" THEN W!Init ELSE S!Init

Next == \/ on = "suspend" /\ S!Next /\ UNCHANGED on
        \/ on = "workers" /\ W!Next /\ UNCHANGED on
        \/ on = "policies" /\ P!Next /\ UNCHANGED on

Spec == Init /\ [][Next]_<<on, ns>>

Each(s, w, p) == CASE on = "suspend" -> s [] on = "workers" -> w [] on = "policies" -> p

----------------------------------------------------------------------------
(* Between cycles every pod has its workload, and every VM its pod: what   *)
(* was launched is stopped in the end.  Under early grants a VM may be     *)
(* left over, which is the subject of NamespaceEarlyStop.cfg.              *)
PodsAreAccountedFor ==
  Each(S!EveryPodIsOwned /\ S!NoOrphanVm, W!EveryPodIsOwned, P!EveryPodIsOwned /\ P!NoOrphanVm)

(* No machine of the router keeps an old view of another (sm-router).      *)
InputsAreCurrent == Each(S!InputsAreCurrent, W!InputsAreCurrent, P!InputsAreCurrent)

(* A workload is announced ready only while its pod runs its current spec  *)
(* on that worker, and commands carry the current spec (sm/workload.rs).   *)
ReadinessIsReal == Each(S!ReadinessIsReal /\ S!LaunchedAsSpecified,
                        W!ReadinessIsReal /\ W!LaunchedAsSpecified,
                        P!ReadinessIsReal /\ P!LaunchedAsSpecified)

(* An artifact port exists exactly while the workload refers to it         *)
(* (adapter/artifact).                                                     *)
ArtifactsAreReferenced == Each(S!ArtifactsAreReferenced, W!ArtifactsAreReferenced,
                               P!ArtifactsAreReferenced)

(* No order of events leaves a workload with demand without a pod and      *)
(* without a timer that ends its wait (sm/workload.rs).                    *)
DemandIsServed == Each(S!DemandIsServed, W!DemandIsServed, P!DemandIsServed)


=============================================================================
