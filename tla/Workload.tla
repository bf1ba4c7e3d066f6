------------------------------ MODULE Workload ------------------------------
(***************************************************************************)
(* One workload under every order of inputs: its endpoints' demand, the    *)
(* spec set by the management adapter, the reports of its pod, the         *)
(* artifact port, admin commands and timers.                               *)
(*                                                                         *)
(* The pod is represented by report, the status last delivered about the   *)
(* pod the workload owns ("New" before the first report). Reports follow   *)
(* the pod's lifecycle (PodLifecycle), and the empty report may come at    *)
(* any time: the workload must survive a pod that disappears.              *)
(***************************************************************************)
EXTENDS WorkloadSm

VARIABLES wl, report

vars == <<wl, report>>

Init == wl = NewWorkload /\ report = "New"

(* A handler runs while the instance exists; a new pod has reported nothing. *)
Handle(w) ==
  /\ wl' = w
  /\ report' = IF w.pod_id = wl.pod_id /\ w.created = {} THEN report ELSE "New"

Exists == ~wl.destroyed

(* The allocator never returns the id of a pod that is still known.        *)
FreshPod == CHOOSE p \in Pods : p # wl.pod_id

OnDemand ==
  /\ Exists
  /\ \E active \in BOOLEAN, eps \in SUBSET Endpoints :
       Handle(DemandInput(wl, [active |-> active, endpoints |-> eps], FreshPod))

OnSpec ==
  /\ Exists
  /\ \E spec \in Specs \cup {None}, ep \in Endpoints :
       /\ spec # wl.out_pod_launch_spec
       /\ Handle(SpecInput(wl, spec, FreshPod, ep))

(* The next report about a pod: the steps of PodLifecycle.                 *)
MayFollow(s) ==
  \/ report = "New"        /\ s = "Pending"
  \/ report = "Pending"    /\ s = "Running"
  \/ report = "Running"    /\ s = "Suspending" /\ wl.out_pod_intent = "Suspend"
  \/ report = "Suspending" /\ s = "Suspended"
  \/ report \in {"Pending", "Running", "Suspending"} /\ s \in {"Finished", "Failed", "Displaced"}

OnPodStatus ==
  /\ Exists
  /\ wl.pod_id # None
  /\ \E s \in {"Pending", "Running", "Suspending", "Suspended", "Finished", "Failed",
               "Displaced"}, a \in Artifacts :
       LET w == PodStatusInput(wl, {[status |-> s, artifact_id |-> a]}, FreshPod)
       IN /\ MayFollow(s)
          /\ wl' = w
          /\ report' = IF w.pod_id = wl.pod_id /\ w.created = {} THEN s ELSE "New"

OnPodsGone == Exists /\ Handle(PodStatusInput(wl, {}, FreshPod))

OnPodWorker ==
  Exists /\ \E worker \in Workers \cup {None} : Handle(PodWorkerInput(wl, worker))

OnScavenge == Exists /\ Handle(Scavenge(wl, FreshPod))

OnRestart == Exists /\ Handle(Restart(wl, FreshPod))

OnArtifact ==
  Exists /\ \E valid \in {"valid", "invalid"} : Handle(ArtifactInput(wl, valid, FreshPod))

(* A timer cancelled in the meantime may still fire.                       *)
OnRetryBackoff == Exists /\ Handle(RetryBackoffFired(wl, FreshPod))

OnArtifactConfirm == Exists /\ Handle(ArtifactConfirmFired(wl, FreshPod))

Next ==
  \/ OnDemand
  \/ OnSpec
  \/ OnPodStatus
  \/ OnPodsGone
  \/ OnPodWorker
  \/ OnScavenge
  \/ OnRestart
  \/ OnArtifact
  \/ OnRetryBackoff
  \/ OnArtifactConfirm

Spec == Init /\ [][Next]_vars

-----------------------------------------------------------------------------
TypeOK == wl \in Workload

(* The edges are what the fields say, on every path that forgets a pod or  *)
(* an artifact: a pod that is forgotten but still owned would never be     *)
(* reaped, and an artifact that is forgotten but still referenced would    *)
(* never be released.                                                      *)
EdgesMatchFields ==
  /\ wl.out_pod_ownership = {wl.pod_id} \ {None}
  /\ wl.out_artifact_ref = {wl.artifact_port} \ {None}

(* A workload in backoff or waiting for its artifact has the timer that    *)
(* ends the wait, and no other timer.                                      *)
EveryWaitHasItsTimer == ~wl.destroyed => wl.out_wanted_timers = TimersOf(wl)

(* Every handler leaves the workload reconciled: it owns a pod if and only *)
(* if it wants one, except while a suspend is in progress, while it waits  *)
(* for the artifact to be confirmed, or while it retains a dead pod.       *)
Reconciled ==
  (~wl.destroyed /\ ~wl.awaiting_suspend) =>
     /\ WantPod(wl) /\ ~AwaitsArtifact(wl) => wl.pod_id # None
     /\ wl.pod_id # None => WantPod(wl) \/ RetainsDeadPod(wl)

(* A suspend in progress has a pod that is being asked to suspend.         *)
SuspendHasPod ==
  wl.awaiting_suspend => wl.pod_id # None /\ wl.out_pod_intent = "Suspend"

(* Backoff is entered for a retry that is allowed.                         *)
BackoffMeansRetry ==
  wl.in_backoff => wl.consecutive_failures \in 1..(MaxRetries - 1)

(* What reconcile says of a pod that it creates from an artifact: the      *)
(* reference is kept until the pod is running, so that a failed resume can *)
(* be retried from the same artifact.                                      *)
FailedResumeKeepsArtifact ==
  [][(report = "Pending" /\ wl.artifact_port # None
        /\ wl'.consecutive_failures > wl.consecutive_failures)
       => wl'.artifact_port = wl.artifact_port]_vars
=============================================================================
