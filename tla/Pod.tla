-------------------------------- MODULE Pod --------------------------------
(***************************************************************************)
(* One pod under every order of inputs its neighbours can produce: the     *)
(* owner workload, the scheduler's lease, the worker port, the worker's    *)
(* notifications and the timer wheel.                                      *)
(***************************************************************************)
EXTENDS PodSm

VARIABLE pod

(* The router creates a pod for a cold boot or to resume an artifact.      *)
Init == \E artifact \in Artifacts \cup {None} : pod = NewPod(artifact)

(* A handler runs only while the instance exists in the router.            *)
Exists == ~pod.destroyed

OnLaunchSpec ==
  Exists /\ \E spec \in Specs \cup {None} : pod' = LaunchSpecInput(pod, spec)

OnWorker ==
  Exists /\ \E w \in Workers \cup {None} : pod' = WorkerInput(pod, w)

OnOwner ==
  Exists /\ \E owner \in Owner \cup {None} : pod' = OwnerInput(pod, owner)

OnNotifyStatus ==
  Exists /\ \E s \in {"Running", "Finished", "Failed"} : pod' = NotifyPodStatus(pod, s)

OnNotifySuspended ==
  Exists /\ \E a \in Artifacts : pod' = NotifyPodSuspended(pod, a)

OnLease ==
  Exists /\ \E w \in Workers \cup {None} : pod' = LeaseInput(pod, w)

(* A timer that the pod has cancelled in the meantime may still fire.      *)
OnTimer ==
  Exists /\ \E key \in PodTimerKey : pod' = PodTimerFired(pod, key)

(* A requested timer fires in the end: the wheel keeps it until it is due. *)
RequestedTimer ==
  Exists /\ \E key \in pod.out_wanted_timers : pod' = PodTimerFired(pod, key)

Next ==
  \/ OnLaunchSpec
  \/ OnWorker
  \/ OnOwner
  \/ OnNotifyStatus
  \/ OnNotifySuspended
  \/ OnLease
  \/ OnTimer

Spec == Init /\ [][Next]_pod

FairSpec == Spec /\ WF_pod(RequestedTimer)

-----------------------------------------------------------------------------
TypeOK == pod \in Pod

(* The reaping rule of maybe_reap: a pod is destroyed exactly when it is   *)
(* terminal and nobody owns it. No zombie stays in the router, and no pod  *)
(* is destroyed under an owner that has not read its last status.          *)
ReapedExactlyWhenDone ==
  pod.destroyed <=> (is_terminal(pod.status) /\ pod.workload_id = None)

(* update_timer_signal is called with every status change: a pod waits in  *)
(* Pending or Suspending only with the timeout of that status armed, and   *)
(* leaves no timeout behind when it moves on.                              *)
EveryWaitHasItsTimeout == pod.out_wanted_timers = TimersOf(pod.status)

(* The worker that receives the launch command (the placement edge) is the *)
(* one the lease names as long as the pod lives, whatever the order of     *)
(* LeaseInput and WorkerInput; a suspending pod keeps asking that worker   *)
(* to suspend it even when its launch spec changes meanwhile.              *)
PlacementFollowsLease ==
  ~is_terminal(pod.status) =>
     /\ pod.out_pod_placement = {pod.assigned_worker} \ {None}
     /\ pod.out_schedule_request.suspend = (pod.status = "Suspending")

(* OwnerInput, "Abandon" path of the header of pod.rs: the step in which a *)
(* pod loses its owner is the step that destroys it, from every status.    *)
AbandonedPodDies ==
  [][pod.workload_id # None /\ pod'.workload_id = None => pod'.destroyed]_pod

(* The lifecycle is linear and terminal statuses are final: late worker    *)
(* notifications, stale timers and leases never revive a pod.              *)
Lifecycle == INSTANCE PodLifecycle WITH status <- pod.status, gone <- pod.destroyed
LinearLifecycle == Lifecycle!Spec

(* update_timer_signal together with the timer wheel: a pod neither waits  *)
(* for ever to be launched nor for ever to be suspended.                   *)
WaitsAreBounded ==
  \A s \in {"Pending", "Suspending"} : (pod.status = s) ~> (pod.status # s)

=============================================================================
