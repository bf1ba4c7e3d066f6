----------------------------- MODULE WorkloadSm -----------------------------
(***************************************************************************)
(* The handlers of the workload state machine                              *)
(* (crates/orchestrator/src/sm/workload.rs), one operator per input and    *)
(* one per method.                                                         *)
(*                                                                         *)
(* As in PodSm, a handler returns the workload after the router has        *)
(* applied the effects buffered in its context: fields out_ hold signals   *)
(* and outgoing edges, created holds the pods asked for with create_pod    *)
(* in this handler, destroyed records self_destruct(). A handler that may  *)
(* create a pod takes the id the router's allocator would return, fresh.   *)
(*                                                                         *)
(* Abstracted: spec_version and launched_with_spec_version are compared    *)
(* for equality only and spec_version never decreases, so stale stands for *)
(* their difference; generations and durations of timers; exit codes,      *)
(* failure reasons, restart_count and wants_pod, which are only displayed; *)
(* the pod's address, which is part of the pod spec. The id 0 that         *)
(* update_readiness puts for a missing pod or worker is None.              *)
(***************************************************************************)
EXTENDS Naturals

CONSTANTS Pods, Workers, Artifacts, Endpoints, PodSpecs, Specs, MaxRetries, None

ASSUME NoneAssumption ==
  /\ None \notin Pods
  /\ None \notin Workers
  /\ None \notin Artifacts
  /\ None \notin Endpoints
  /\ None \notin PodSpecs
  /\ None \notin Specs

ASSUME MaxRetriesAssumption == MaxRetries \in Nat \ {0}

RunPolicy == {"Service", "Job"}

(* WorkloadSpec: the pod spec and the workload's configuration. The        *)
(* management adapter always fills in the network.                         *)
WorkloadSpec == [pod_spec: PodSpecs, respects_demand: BOOLEAN,
                 suspend_on_idle: BOOLEAN, run_policy: RunPolicy]

ASSUME SpecsAssumption == Specs \subseteq WorkloadSpec

PodIntent == {"None", "Want", "Suspend"}
WorkloadTimerKey == {"RetryBackoff", "ArtifactConfirm"}
WlStatus == {"Completed", "Failed", "RetryBackoff", "Suspending", "Suspended",
             "Running", "Launching", "WaitingForSpec", "Dormant"}

ReadyInfo == [pod: Pods \cup {None}, worker: Workers \cup {None}]
EndpointConfig == [has_activation: BOOLEAN]

ASSUME NoRecordAssumption == None \notin ReadyInfo /\ None \notin EndpointConfig

Workload ==
  [ has_spec             : BOOLEAN,
    has_demand           : BOOLEAN,
    pod_running          : BOOLEAN,
    pod_id               : Pods \cup {None},
    committed_to_boot    : BOOLEAN,
    stale                : BOOLEAN,
    consecutive_failures : Nat,
    in_backoff           : BOOLEAN,
    pod_worker_id        : Workers \cup {None},
    suspend_on_idle      : BOOLEAN,
    artifact_port        : Artifacts \cup {None},
    artifact_confirmed   : BOOLEAN,
    awaiting_suspend     : BOOLEAN,
    current_pod_spec     : PodSpecs \cup {None},
    endpoint_id          : Endpoints \cup {None},
    run_policy           : RunPolicy,
    completed            : BOOLEAN,
    respects_demand      : BOOLEAN,
    out_readiness          : ReadyInfo \cup {None},
    out_placement          : Workers \cup {None},
    out_pod_intent         : PodIntent,
    out_pod_launch_spec    : Specs \cup {None},
    out_wanted_timers      : SUBSET WorkloadTimerKey,
    out_status             : WlStatus,
    out_endpoint_config    : EndpointConfig \cup {None},
    out_endpoint_readiness : SUBSET Endpoints,
    out_pod_ownership      : SUBSET Pods,
    out_artifact_ref       : SUBSET Artifacts,
    created                : SUBSET [id: Pods, artifact: Artifacts \cup {None}],
    destroyed              : BOOLEAN ]

-----------------------------------------------------------------------------
effective_demand(w) == ~w.respects_demand \/ w.has_demand

(* The demand that reconcile and update_status_signals act on.             *)
Demanded(w) == effective_demand(w) \/ w.committed_to_boot

OutOfRetries(w) == w.consecutive_failures >= MaxRetries

(* A failed pod kept for inspection during backoff or terminal failure.    *)
RetainsDeadPod(w) ==
  /\ w.pod_id # None
  /\ ~w.pod_running
  /\ w.in_backoff \/ OutOfRetries(w)

AwaitsArtifact(w) == w.artifact_port # None /\ ~w.artifact_confirmed

TimersOf(w) ==
  {key \in WorkloadTimerKey : \/ key = "RetryBackoff"    /\ w.in_backoff
                              \/ key = "ArtifactConfirm" /\ AwaitsArtifact(w)}

update_timer_signal(w) == [w EXCEPT !.out_wanted_timers = TimersOf(w)]

StatusOf(w) ==
  IF w.completed                                       THEN "Completed"
  ELSE IF OutOfRetries(w) /\ Demanded(w)               THEN "Failed"
  ELSE IF w.in_backoff                                 THEN "RetryBackoff"
  ELSE IF w.awaiting_suspend                           THEN "Suspending"
  ELSE IF w.artifact_port # None /\ w.pod_id = None    THEN "Suspended"
  ELSE IF w.pod_running                                THEN "Running"
  ELSE IF w.pod_id # None                              THEN "Launching"
  ELSE IF ~w.has_spec /\ Demanded(w)                   THEN "WaitingForSpec"
  ELSE                                                      "Dormant"

update_status_signals(w) == [w EXCEPT !.out_status = StatusOf(w)]

-----------------------------------------------------------------------------
(* Giving up pieces of state.                                              *)

\* Slip: the artifact is forgotten but its reference edge stays.
clear_artifact_ref_keep_edge(w) == [w EXCEPT !.artifact_port = None, !.artifact_confirmed = FALSE]

(* The reference edge and artifact_port go together; artifact_confirmed    *)
(* falls only if there was a reference.                                    *)
clear_artifact_ref(w) ==
  IF w.artifact_port # None
  THEN [w EXCEPT !.artifact_port = None, !.artifact_confirmed = FALSE,
                 !.out_artifact_ref = {}]
  ELSE w

(* Removing the ownership edge: a terminal pod is reaped by it, a live one *)
(* drives itself to a terminal status.                                     *)
ReleasePod(w) ==
  [w EXCEPT !.pod_id = None, !.out_pod_ownership = {}, !.out_pod_intent = "None"]

\* Slip: only the placement is withdrawn.
NotReady_placement_only(w) == [w EXCEPT !.out_placement = None]

NotReady(w) == [w EXCEPT !.out_readiness = None, !.out_placement = None]

reap_retained_pod(w) == IF RetainsDeadPod(w) THEN ReleasePod(w) ELSE w

\* Slip: a suspend in progress is not called off.
destroy_current_pod_keep_suspend(w) ==
  NotReady(clear_artifact_ref(IF w.pod_id # None THEN ReleasePod(w) ELSE w))

destroy_current_pod(w) ==
  LET released == IF w.pod_id # None THEN ReleasePod(w) ELSE w
  IN NotReady(clear_artifact_ref([released EXCEPT !.awaiting_suspend = FALSE]))

(* Retry state is forgotten, so that a failed or completed workload may    *)
(* run again.                                                              *)
ForgetFailures(w) ==
  [w EXCEPT !.consecutive_failures = 0, !.in_backoff = FALSE, !.completed = FALSE]

Uncommit(w) == [w EXCEPT !.committed_to_boot = FALSE]

(* The commitment of a dead pod survives only as long as there is demand.  *)
ReevaluateCommitment(w) == IF effective_demand(w) THEN w ELSE Uncommit(w)

-----------------------------------------------------------------------------
WantPod(w) ==
  /\ w.has_spec
  /\ Demanded(w)
  /\ ~w.in_backoff
  /\ ~OutOfRetries(w)
  /\ ~w.completed

create_pod(w, fresh) ==
  [w EXCEPT !.created = @ \cup {[id |-> fresh, artifact |-> w.artifact_port]},
            !.pod_id = fresh,
            !.stale = FALSE,
            !.out_pod_ownership = {fresh},
            !.out_pod_intent = "Want"]

BeginSuspend(w) == [w EXCEPT !.out_pod_intent = "Suspend", !.awaiting_suspend = TRUE]

reconcile(w, fresh) ==
  IF w.awaiting_suspend THEN w
  ELSE IF WantPod(w)
       THEN IF w.pod_id # None       THEN [w EXCEPT !.out_pod_intent = "Want"]
            ELSE IF AwaitsArtifact(w) THEN w
            ELSE create_pod(w, fresh)
  ELSE IF w.pod_id = None                   THEN [w EXCEPT !.out_pod_intent = "None"]
  ELSE IF w.pod_running /\ w.suspend_on_idle THEN BeginSuspend(w)
  ELSE IF RetainsDeadPod(w)                  THEN w
  ELSE NotReady(ReleasePod(w))

-----------------------------------------------------------------------------
(* What follows a change of the pod's status.                              *)

update_readiness(w) ==
  [w EXCEPT !.out_readiness = [pod |-> w.pod_id, worker |-> w.pod_worker_id]]

on_pod_running(w, fresh) ==
  LET v == clear_artifact_ref([w EXCEPT !.committed_to_boot = FALSE,
                                        !.consecutive_failures = 0])
  IN IF v.stale                      THEN reconcile(destroy_current_pod(v), fresh)
     ELSE IF ~effective_demand(v)    THEN reconcile(v, fresh)
     ELSE update_readiness(v)

on_pod_finished(w, fresh) ==
  LET v == ReleasePod(NotReady(clear_artifact_ref([w EXCEPT !.awaiting_suspend = FALSE])))
      u == IF v.run_policy = "Job" THEN Uncommit([v EXCEPT !.completed = TRUE])
           ELSE ReevaluateCommitment(v)
  IN reconcile(u, fresh)

\* Slip: a failed pod always means backoff.
on_pod_failed_always_backoff(w, fresh) ==
  reconcile(NotReady(clear_artifact_ref(
              [w EXCEPT !.awaiting_suspend = FALSE, !.consecutive_failures = @ + 1,
                        !.in_backoff = TRUE])), fresh)

(* The failed pod is kept for inspection, unless nobody wants a retry.     *)
on_pod_failed(w, fresh) ==
  LET v == NotReady(clear_artifact_ref([w EXCEPT !.awaiting_suspend = FALSE,
                                                 !.consecutive_failures = @ + 1]))
      u == IF OutOfRetries(v) THEN Uncommit(v) ELSE ReevaluateCommitment(v)
      t == IF Demanded(u) /\ ~OutOfRetries(u) THEN [u EXCEPT !.in_backoff = TRUE]
           ELSE IF ~effective_demand(u)
                THEN reap_retained_pod([u EXCEPT !.consecutive_failures = 0])
           ELSE u
  IN reconcile(t, fresh)

\* Slip: the workload waits for an input that reconciles it.
on_pod_displaced_no_reconcile(w, fresh) ==
  ReevaluateCommitment(ReleasePod(NotReady([w EXCEPT !.awaiting_suspend = FALSE])))

(* Infrastructure loss is no failure and keeps the artifact.               *)
on_pod_displaced(w, fresh) ==
  reconcile(ReevaluateCommitment(
              ReleasePod(NotReady([w EXCEPT !.awaiting_suspend = FALSE]))), fresh)

(* A snapshot taken with an outdated spec is discarded.                    *)
on_pod_suspended(w, artifact, fresh) ==
  LET v == IF w.stale THEN w
           ELSE [w EXCEPT !.artifact_port = artifact, !.artifact_confirmed = FALSE,
                          !.out_artifact_ref = {artifact}]
  IN reconcile(ReleasePod(NotReady([v EXCEPT !.awaiting_suspend = FALSE])), fresh)

(* The safety net for a pod that disappears under the workload.            *)
AllPodsGone(w) ==
  NotReady(ReleasePod([w EXCEPT !.pod_worker_id = None, !.awaiting_suspend = FALSE,
                                !.committed_to_boot = FALSE]))

-----------------------------------------------------------------------------
(* The inputs, in the order of WorkloadSm::handle. Enter starts a handler  *)
(* with an empty list of creations; every path but the early returns ends  *)
(* in update_status_signals.                                               *)
Enter(w) == [w EXCEPT !.created = {}]

Leave(w) == update_status_signals(update_timer_signal(w))

\* Slip: the change of demand is noted, but not acted upon.
DemandInput_only_noted(w, demand, fresh) ==
  Leave([Enter(w) EXCEPT !.has_demand = demand.active,
                         !.committed_to_boot = @ \/ (demand.active /\ ~w.has_demand),
                         !.out_endpoint_readiness = demand.endpoints])

(* demand.active: some endpoint asks for a backend; demand.endpoints: all  *)
(* endpoints connected to the workload.                                    *)
DemandInput(w, demand, fresh) ==
  LET v == [Enter(w) EXCEPT !.has_demand = demand.active,
                            !.committed_to_boot = @ \/ (demand.active /\ ~w.has_demand)]
      u == IF ~v.has_demand /\ (v.pod_id = None \/ RetainsDeadPod(v))
           THEN Uncommit(ForgetFailures(v)) ELSE v
  IN Leave(reconcile([u EXCEPT !.out_endpoint_readiness = demand.endpoints], fresh))

(* The configuration part of a spec, and the endpoint the workload owns.   *)
ConfigureFrom(w, spec, endpoint) ==
  [w EXCEPT !.endpoint_id = IF @ = None THEN endpoint ELSE @,
            !.out_endpoint_config = [has_activation |-> spec.respects_demand],
            !.respects_demand = spec.respects_demand,
            !.suspend_on_idle = spec.suspend_on_idle,
            !.run_policy = spec.run_policy,
            !.completed = @ /\ ~(w.run_policy = "Job" /\ spec.run_policy = "Service"),
            !.current_pod_spec = spec.pod_spec]

(* A running pod is restarted at once; a pending one when it is running.   *)
PodSpecChanged(w) ==
  LET v == clear_artifact_ref(ForgetFailures(
             reap_retained_pod([w EXCEPT !.stale = TRUE])))
  IN IF v.pod_running THEN destroy_current_pod(v) ELSE v

SuspendOnIdleDropped(w) ==
  clear_artifact_ref(IF w.awaiting_suspend THEN destroy_current_pod(w) ELSE w)

SpecInput(w, spec, fresh, endpoint) ==
  LET e == [Enter(w) EXCEPT !.out_pod_launch_spec = spec]
  IN IF spec = None
     THEN IF w.has_spec
          THEN [destroy_current_pod(e) EXCEPT !.current_pod_spec = None, !.destroyed = TRUE]
          ELSE Leave(reconcile(e, fresh))
     ELSE LET c == ConfigureFrom(e, spec, endpoint)
              v == IF w.has_spec /\ w.current_pod_spec # spec.pod_spec
                   THEN PodSpecChanged(c) ELSE c
              u == IF w.suspend_on_idle /\ ~spec.suspend_on_idle
                   THEN SuspendOnIdleDropped(v) ELSE v
          IN Leave(reconcile([u EXCEPT !.has_spec = TRUE], fresh))

(* statuses: what the pods connected by a report edge report.              *)
PodStatusInput(w, statuses, fresh) ==
  LET is(s)     == \E r \in statuses : r.status = s
      artifacts == {r.artifact_id : r \in {x \in statuses : x.status = "Suspended"}}
      e         == [Enter(w) EXCEPT !.pod_running = is("Running")]
      v         == IF statuses = {} /\ e.pod_id # None THEN AllPodsGone(e) ELSE e
      u == IF artifacts # {}
             THEN on_pod_suspended(v, CHOOSE a \in artifacts : TRUE, fresh)
           ELSE IF v.pod_running /\ ~w.pod_running THEN on_pod_running(v, fresh)
           ELSE IF is("Failed") /\ v.pod_id # None    THEN on_pod_failed(v, fresh)
           ELSE IF is("Displaced") /\ v.pod_id # None THEN on_pod_displaced(v, fresh)
           ELSE IF is("Finished") /\ v.pod_id # None  THEN on_pod_finished(v, fresh)
           ELSE IF ~v.pod_running /\ w.pod_running THEN reconcile(NotReady(v), fresh)
           ELSE reconcile(v, fresh)
  IN Leave(u)

PodWorkerInput(w, worker) ==
  LET e == Enter(w)
      v == [e EXCEPT !.pod_worker_id = worker, !.out_placement = worker]
  IN update_status_signals(IF worker = w.pod_worker_id THEN e
                           ELSE IF w.pod_running       THEN update_readiness(v)
                           ELSE v)

Scavenge(w, fresh) ==
  IF effective_demand(w) THEN Enter(w)
  ELSE Leave(reconcile(destroy_current_pod(clear_artifact_ref(
               Uncommit(ForgetFailures(Enter(w))))), fresh))

Restart(w, fresh) ==
  Leave(reconcile([destroy_current_pod(ForgetFailures(Enter(w))) EXCEPT !.stale = FALSE],
                  fresh))

\* Slip: the confirmation is noted, but the pod that waited for it is not created.
ArtifactInput_only_noted(w, valid, fresh) ==
  LET e == Enter(w)
  IN Leave(IF valid = "valid" THEN [e EXCEPT !.artifact_confirmed = TRUE]
           ELSE IF e.artifact_port # None THEN reconcile(clear_artifact_ref(e), fresh)
           ELSE e)

ArtifactInput(w, valid, fresh) ==
  LET e == Enter(w)
  IN Leave(IF valid = "valid" THEN reconcile([e EXCEPT !.artifact_confirmed = TRUE], fresh)
           ELSE IF e.artifact_port # None THEN reconcile(clear_artifact_ref(e), fresh)
           ELSE e)

\* Slip: the end of the backoff takes back a failure, whether or not it is running.
RetryBackoffFired_refund(w, fresh) ==
  Leave(reconcile([reap_retained_pod(Enter(w)) EXCEPT !.in_backoff = FALSE,
                                                      !.consecutive_failures = @ - 1], fresh))

RetryBackoffFired(w, fresh) ==
  IF w.in_backoff
  THEN Leave(reconcile([reap_retained_pod(Enter(w)) EXCEPT !.in_backoff = FALSE], fresh))
  ELSE update_status_signals(Enter(w))

\* Slip: the expired timer stays in the request.
ArtifactConfirmFired_keep_timer(w, fresh) ==
  IF AwaitsArtifact(w)
  THEN update_status_signals(reconcile(clear_artifact_ref(Enter(w)), fresh))
  ELSE update_status_signals(Enter(w))

ArtifactConfirmFired(w, fresh) ==
  IF AwaitsArtifact(w)
  THEN Leave(reconcile(clear_artifact_ref(Enter(w)), fresh))
  ELSE update_status_signals(Enter(w))

-----------------------------------------------------------------------------
(* new and initialize.                                                     *)
NewWorkload ==
  update_status_signals(
    [ has_spec |-> FALSE, has_demand |-> FALSE, pod_running |-> FALSE, pod_id |-> None,
      committed_to_boot |-> FALSE, stale |-> FALSE, consecutive_failures |-> 0,
      in_backoff |-> FALSE, pod_worker_id |-> None, suspend_on_idle |-> FALSE,
      artifact_port |-> None, artifact_confirmed |-> FALSE, awaiting_suspend |-> FALSE,
      current_pod_spec |-> None, endpoint_id |-> None, run_policy |-> "Service",
      completed |-> FALSE, respects_demand |-> FALSE,
      out_readiness |-> None, out_placement |-> None, out_pod_intent |-> "None",
      out_pod_launch_spec |-> None, out_wanted_timers |-> {}, out_status |-> "Dormant",
      out_endpoint_config |-> None, out_endpoint_readiness |-> {},
      out_pod_ownership |-> {}, out_artifact_ref |-> {}, created |-> {},
      destroyed |-> FALSE ])
=============================================================================
