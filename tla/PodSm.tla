------------------------------- MODULE PodSm -------------------------------
(***************************************************************************)
(* The handlers of the pod state machine                                   *)
(* (crates/orchestrator/src/sm/pod.rs), one operator per input.            *)
(*                                                                         *)
(* A handler takes the pod and an input and returns the pod after the      *)
(* handler and after the router has applied the effects it buffered in its *)
(* context: the signals and the outgoing edges of the pod are the fields   *)
(* whose names start with out_, and destroyed records self_destruct().     *)
(*                                                                         *)
(* Abstracted: exit codes and reason strings (only displayed), the         *)
(* duration and the generation of a timer (a pod has at most one timer     *)
(* request, and the two keys differ), the contents of a launch spec.       *)
(***************************************************************************)
CONSTANTS Workloads, Workers, Artifacts, Specs, None

ASSUME NoneAssumption ==
  /\ None \notin Workloads
  /\ None \notin Workers
  /\ None \notin Artifacts
  /\ None \notin Specs

PodStatus == {"Pending", "Running", "Suspending",
              "Suspended", "Finished", "Failed", "Displaced"}

is_terminal(s) == s \in {"Suspended", "Finished", "Failed", "Displaced"}

PodIntent == {"None", "Want", "Suspend"}
PodTimerKey == {"LaunchTimeout", "SuspendTimeout"}

(* What the router delivers as OwnerInput: the owner and its intent.       *)
Owner == [workload: Workloads, intent: PodIntent]

ASSUME NoOwnerAssumption == None \notin Owner

PodScheduleRequest ==
  [resume_artifact: Artifacts \cup {None}, suspend: BOOLEAN, spec: Specs \cup {None}]

Pod ==
  [ status           : PodStatus,
    artifact_id      : Artifacts \cup {None},   \* payload of Suspended
    workload_id      : Workloads \cup {None},
    worker_id        : Workers \cup {None},
    intent           : PodIntent,
    resume_artifact  : Artifacts \cup {None},
    assigned_worker  : Workers \cup {None},
    launch_spec      : Specs \cup {None},
    out_assigned_worker  : Workers \cup {None},
    out_schedule_request : PodScheduleRequest,
    out_wanted_timers    : SUBSET PodTimerKey,
    out_pod_report       : SUBSET Workloads,
    out_pod_placement    : SUBSET Workers,
    destroyed            : BOOLEAN ]

-----------------------------------------------------------------------------
make_schedule_request(p) ==
  [resume_artifact |-> p.resume_artifact,
   suspend         |-> p.status = "Suspending",
   spec            |-> p.launch_spec]

TimersOf(status) ==
  {key \in PodTimerKey : \/ key = "LaunchTimeout"  /\ status = "Pending"
                         \/ key = "SuspendTimeout" /\ status = "Suspending"}

update_timer_signal(p) == [p EXCEPT !.out_wanted_timers = TimersOf(p.status)]

\* Slip: the owner is not consulted.
maybe_reap_eager(p) == IF is_terminal(p.status) THEN [p EXCEPT !.destroyed = TRUE] ELSE p

(* Self-destruct if terminal and no owner (the reaping rule).              *)
maybe_reap(p) ==
  IF is_terminal(p.status) /\ p.workload_id = None
  THEN [p EXCEPT !.destroyed = TRUE]
  ELSE p

\* Slip: update_timer_signal is forgotten.
BecomeStatus_no_timer(p, s) == [p EXCEPT !.status = s]

(* A status change always goes with set_status and update_timer_signal.    *)
BecomeStatus(p, s) == update_timer_signal([p EXCEPT !.status = s])

-----------------------------------------------------------------------------
(* new, new_from_artifact and initialize: a pod as the router has          *)
(* materialized it, before its first input. The default of every signal    *)
(* that initialize does not set is the value given here.                   *)
NewPod(artifact) ==
  LET p == [ status          |-> "Pending",
             artifact_id     |-> None,
             workload_id     |-> None,
             worker_id       |-> None,
             intent          |-> "None",
             resume_artifact |-> artifact,
             assigned_worker |-> None,
             launch_spec     |-> None,
             out_assigned_worker  |-> None,
             out_schedule_request |-> [resume_artifact |-> artifact,
                                       suspend |-> FALSE, spec |-> None],
             out_wanted_timers    |-> {},
             out_pod_report       |-> {},
             out_pod_placement    |-> {},
             destroyed            |-> FALSE ]
  IN update_timer_signal(p)

-----------------------------------------------------------------------------
(* The inputs, in the order of PodSm::handle.                              *)

\* Slip: the request is rebuilt as for a fresh pod.
LaunchSpecInput_fresh(p, spec) ==
  [p EXCEPT !.launch_spec = spec,
            !.out_schedule_request = [@ EXCEPT !.suspend = FALSE, !.spec = spec]]

\* Slip: the request is not emitted again.
LaunchSpecInput_silent(p, spec) == [p EXCEPT !.launch_spec = spec]

LaunchSpecInput(p, spec) ==
  IF p.launch_spec # spec
  THEN LET q == [p EXCEPT !.launch_spec = spec]
       IN [q EXCEPT !.out_schedule_request = make_schedule_request(q)]
  ELSE p

\* Slip: any change of worker displaces the pod.
WorkerInput_any_change(p, worker) ==
  LET q == [p EXCEPT !.worker_id = worker, !.out_assigned_worker = worker]
  IN IF worker # p.worker_id /\ ~is_terminal(q.status)
     THEN maybe_reap(BecomeStatus(q, "Displaced")) ELSE q

(* The worker port is gone: the infrastructure displaces a live pod.       *)
WorkerInput(p, worker) ==
  LET q == IF worker # p.worker_id
           THEN [p EXCEPT !.worker_id = worker, !.out_assigned_worker = worker]
           ELSE p
  IN IF worker = None /\ ~is_terminal(q.status)
     THEN maybe_reap(BecomeStatus(q, "Displaced"))
     ELSE q

(* The new owner, if any, is where the pod reports.                        *)
AdoptOwner(p, owner) ==
  IF owner = None
  THEN [p EXCEPT !.workload_id = None, !.intent = "None", !.out_pod_report = {}]
  ELSE [p EXCEPT !.workload_id = owner.workload, !.intent = owner.intent,
                 !.out_pod_report = {owner.workload}]

BeginSuspend(p) ==
  IF p.status = "Running" /\ p.intent = "Suspend"
  THEN LET q == BecomeStatus(p, "Suspending")
       IN [q EXCEPT !.out_schedule_request = make_schedule_request(q)]
  ELSE p

\* Slip: had_owner is read after the owner has been replaced.
FailIfOwnerLost_late(p, had_owner) == p

(* had_owner is read before the owner is replaced.                         *)
FailIfOwnerLost(p, had_owner) ==
  IF had_owner /\ p.workload_id = None /\ ~is_terminal(p.status)
  THEN BecomeStatus(p, "Failed")
  ELSE p

OwnerInput(p, owner) ==
  maybe_reap(FailIfOwnerLost(BeginSuspend(AdoptOwner(p, owner)),
                             p.workload_id # None))

\* Slip: a terminal pod still listens to its worker.
AcceptsStatus_always(p, s) == s \in {"Running", "Failed", "Finished"}

(* Only the status changes a worker may report are accepted: Running from  *)
(* Pending, and Failed or Finished from any live state.                    *)
AcceptsStatus(p, s) ==
  /\ ~is_terminal(p.status)
  /\ \/ s = "Running" /\ p.status = "Pending"
     \/ s \in {"Failed", "Finished"}

NotifyPodStatus(p, s) ==
  IF AcceptsStatus(p, s) THEN maybe_reap(BecomeStatus(p, s)) ELSE p

NotifyPodSuspended(p, artifact) ==
  IF p.status = "Suspending"
  THEN maybe_reap([BecomeStatus(p, "Suspended") EXCEPT !.artifact_id = artifact])
  ELSE p

LeaseGranted(p, worker) ==
  [p EXCEPT !.assigned_worker = worker, !.out_assigned_worker = worker,
            !.out_pod_placement = {worker}]

LeaseRevoked(p) ==
  maybe_reap(BecomeStatus([p EXCEPT !.assigned_worker = None,
                                    !.out_pod_placement = {}], "Displaced"))

LeaseInput(p, lease) ==
  LET had_lease == p.assigned_worker # None
  IN CASE lease # None /\ ~had_lease /\ p.status = "Pending" ->
            LeaseGranted(p, lease)
       [] lease = None /\ had_lease /\ ~is_terminal(p.status) ->
            LeaseRevoked(p)
       [] OTHER -> p

\* Slip: the key is taken for the status.
PodTimerFired_key_as_status(p, key) == maybe_reap(BecomeStatus(p, key))

\* Slip: only the launch timeout is handled.
PodTimerFired_launch_only(p, key) ==
  IF key = "LaunchTimeout" /\ p.status = "Pending"
  THEN maybe_reap(BecomeStatus(p, "Failed")) ELSE p

PodTimerFired(p, key) ==
  IF \/ key = "LaunchTimeout" /\ p.status = "Pending"
     \/ key = "SuspendTimeout" /\ p.status = "Suspending"
  THEN maybe_reap(BecomeStatus(p, "Failed"))
  ELSE p
=============================================================================
