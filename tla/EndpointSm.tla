----------------------------- MODULE EndpointSm -----------------------------
(***************************************************************************)
(* The handlers of the endpoint state machine                              *)
(* (crates/orchestrator/src/sm/endpoint.rs), one operator per input. The   *)
(* conventions are those of PodSm.                                         *)
(*                                                                         *)
(* Abstracted: the idle timeout's duration and generation, addresses and   *)
(* DNS names, the service policy. EndpointState is derived from the other  *)
(* fields at the end of every handler, so it is the operator State. The    *)
(* backend address of a service's EndpointInfo is the ready pod's and is   *)
(* present exactly when the endpoint is active.                            *)
(***************************************************************************)
CONSTANTS Pods, Workers, Workloads, None

ASSUME NoneAssumption == None \notin Pods \cup Workers \cup Workloads

EndpointKind == {"Service", "Workload"}
ReadyInfo == [pod: Pods \cup {None}, worker: Workers \cup {None}]
EndpointConfig == [kind: EndpointKind, workload: Workloads, has_activation: BOOLEAN]
EndpointInfo == [kind: EndpointKind, worker: Workers \cup {None}, active: BOOLEAN]

ASSUME NoRecordAssumption ==
  None \notin ReadyInfo /\ None \notin EndpointConfig /\ None \notin EndpointInfo

Endpoint ==
  [ has_activation      : BOOLEAN,
    idle_timer_active   : BOOLEAN,
    last_readiness      : ReadyInfo \cup {None},
    active_level        : BOOLEAN,
    placement_worker_id : Workers \cup {None},
    kind                : EndpointKind \cup {None},
    out_demand          : BOOLEAN,
    out_wanted_timers   : SUBSET {"IdleTimeout"},
    out_endpoint_info   : EndpointInfo \cup {None},
    out_endpoint_demand : SUBSET Workloads,
    destroyed           : BOOLEAN ]

-----------------------------------------------------------------------------

compute_demand(e) == ~e.has_activation \/ e.active_level \/ e.idle_timer_active

(* derive_state: EndpointState.                                            *)
State(e) ==
  IF e.last_readiness # None THEN "Active"
  ELSE IF compute_demand(e)  THEN "NeedBackend"
  ELSE "Idle"

update_timer_signal(e) ==
  [e EXCEPT !.out_wanted_timers = IF e.idle_timer_active THEN {"IdleTimeout"} ELSE {}]

\* Slip: the placement is taken for the backend.
endpoint_info_placement(e) ==
  IF e.kind = None THEN None
  ELSE [kind |-> e.kind, worker |-> e.placement_worker_id, active |-> e.placement_worker_id # None]

(* A workload's endpoint is announced as soon as its kind is known, with   *)
(* the placement if there is one; a service's without a backend only if it *)
(* can be activated by traffic.                                            *)
endpoint_info(e) ==
  IF e.kind = None THEN None
  ELSE IF State(e) = "Active"
       THEN [kind |-> e.kind, worker |-> e.last_readiness.worker, active |-> TRUE]
  ELSE IF e.kind = "Workload"
       THEN [kind |-> e.kind, worker |-> e.placement_worker_id, active |-> FALSE]
  ELSE IF e.has_activation
       THEN [kind |-> e.kind, worker |-> None, active |-> FALSE]
  ELSE None

(* The end of every handler: derive_state, set_demand and                  *)
(* update_status_signals.                                                  *)
Leave(e) == [e EXCEPT !.out_demand = compute_demand(e), !.out_endpoint_info = endpoint_info(e)]

StopIdleTimer(e) == update_timer_signal([e EXCEPT !.idle_timer_active = FALSE])

-----------------------------------------------------------------------------
(* new and initialize.                                                     *)
NewEndpoint(has_activation) ==
  Leave([ has_activation |-> has_activation, idle_timer_active |-> FALSE,
          last_readiness |-> None, active_level |-> FALSE,
          placement_worker_id |-> None, kind |-> None,
          out_demand |-> FALSE, out_wanted_timers |-> {}, out_endpoint_info |-> None,
          out_endpoint_demand |-> {}, destroyed |-> FALSE ])

\* Slip: the idle timer survives the removal of activation.
ConfigInput_keep_timer(e, config) ==
  IF config = None THEN Leave([e EXCEPT !.destroyed = TRUE])
  ELSE Leave([e EXCEPT !.kind = config.kind, !.has_activation = config.has_activation,
                       !.out_endpoint_demand = {config.workload}])

(* The owner's configuration; an endpoint without owner destroys itself.   *)
ConfigInput(e, config) ==
  IF config = None THEN Leave([e EXCEPT !.destroyed = TRUE])
  ELSE LET v == [e EXCEPT !.kind = config.kind, !.has_activation = config.has_activation,
                          !.out_endpoint_demand = {config.workload}]
       IN Leave(IF v.idle_timer_active /\ ~v.has_activation THEN StopIdleTimer(v) ELSE v)

\* Slip: the worker is stored where the ready pod belongs.
ReadinessInput_worker(e, ready) ==
  IF ready = None THEN Leave([e EXCEPT !.last_readiness = None])
  ELSE [e EXCEPT !.last_readiness = ready.worker]

ReadinessInput(e, ready) == Leave([e EXCEPT !.last_readiness = ready])

PlacementInput(e, worker) == Leave([e EXCEPT !.placement_worker_id = worker])

(* The level of the activators; a rising level replaces the idle timer.    *)
BackendNeedInput(e, active) ==
  LET v == [e EXCEPT !.active_level = active]
  IN Leave(IF active /\ v.idle_timer_active THEN StopIdleTimer(v) ELSE v)

EndpointDemandTraffic(e) ==
  Leave(IF e.has_activation THEN update_timer_signal([e EXCEPT !.idle_timer_active = TRUE])
        ELSE e)

\* Slip: the timer is ignored.
EndpointTimerFired_ignored(e) == Leave(e)

EndpointTimerFired(e) == Leave(IF e.idle_timer_active THEN StopIdleTimer(e) ELSE e)
=============================================================================
