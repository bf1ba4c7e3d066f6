-------------------------- MODULE NamespaceRouter ---------------------------
(***************************************************************************)
(* The signal router of one namespace with one workload: the state         *)
(* machines, the edges between them, and propagation to a fixed point      *)
(* (crates/sm-router-macros/src/generate/, topology in                     *)
(* crates/orchestrator/src/sm/mod.rs), together with the two adapters that *)
(* act on what reaches a port: pod assignment and artifacts                *)
(* (crates/orchestrator/src/adapter/).                                     *)
(*                                                                         *)
(* All operators work on n, the state of the namespace. A dirty input is a *)
(* pair <<name, target>>. Signals and edges live in the out_ fields of the *)
(* machine that sets them; an edge set has at most one member here. The    *)
(* inputs of the timer, schedule request, fabric, DNS and observability    *)
(* ports have no effect on the machines: the flag ports stands for all of  *)
(* them, because they count as dirty when rounds are counted.              *)
(***************************************************************************)
EXTENDS Naturals, Sequences, FiniteSets

CONSTANTS Pods, Workers, Artifacts, PodSpecs, Specs, MaxRetries,
          DepthLimit,    \* Router::new(16)
          None, Never    \* Never: an input that has not been delivered yet

WL == "wl"    \* the workload
EP == "ep"    \* the endpoint it owns

P == INSTANCE PodSm WITH Workloads <- {WL}
W == INSTANCE WorkloadSm WITH Endpoints <- {EP}
E == INSTANCE EndpointSm WITH Workloads <- {WL}
S == INSTANCE SequencesExt

WlInputs == {<<k, WL>> : k \in {"Demand", "Spec", "PodStatus", "PodWorker", "Artifact"}}
EpInputs == {<<k, EP>> : k \in {"Config", "Readiness", "Placement", "Need"}}
PodInputs(p) == {<<k, p>> : k \in {"Worker", "Owner", "LaunchSpec", "Lease"}}
Inputs == WlInputs \cup EpInputs \cup UNION {PodInputs(p) : p \in Pods}

(* The worker port exists from WorkerConnected on.                         *)
HasPort(n, w) == n.worker[w] \in {"pending", "active"}

NothingPlaced == [p \in Pods |-> None]

-----------------------------------------------------------------------------
(* What a set of targets makes dirty.                                      *)
Marks(names, targets) ==
  S!FlattenSeq([i \in 1..Cardinality(targets) |->
     [j \in DOMAIN names |-> <<names[j], S!SetToSeq(targets)[i]>>]])

(* set_signal: nothing if the value is the same, else the targets of the   *)
(* edges as they are before the handler's own edge changes.                *)
Signal(changed, name, targets) == IF changed THEN Marks(<<name>>, targets) ELSE <<>>

\* Slip: only added edges mark their targets.
Edges_added_only(names, old, new) == Marks(names, new \ old)

(* EdgeMap::set_edges: removed targets, then added ones.                   *)
Edges(names, old, new) == Marks(names, old \ new) \o Marks(names, new \ old)

(* self_destruct: signals and edges are applied first, then the outgoing   *)
(* edges that are left are cleared.                                        *)
Cleared(destroyed, names, targets) == IF destroyed THEN Marks(names, targets) ELSE <<>>

Owned(w) == IF w.endpoint_id = None THEN {} ELSE {w.endpoint_id}

WorkloadMarks(o, w) ==
     Signal(o.out_readiness # w.out_readiness, "Readiness", o.out_endpoint_readiness)
  \o Signal(o.out_placement # w.out_placement, "Placement", o.out_endpoint_readiness)
  \o Signal(o.out_pod_intent # w.out_pod_intent, "Owner", o.out_pod_ownership)
  \o Signal(o.out_pod_launch_spec # w.out_pod_launch_spec, "LaunchSpec", o.out_pod_ownership)
  \o Signal(o.out_endpoint_config # w.out_endpoint_config, "Config", Owned(o))
  \o Edges(<<"Config">>, Owned(o), Owned(w))
  \o Edges(<<"Readiness", "Placement">>, o.out_endpoint_readiness, w.out_endpoint_readiness)
  \o Edges(<<"Owner", "LaunchSpec">>, o.out_pod_ownership, w.out_pod_ownership)
  \o Edges(<<"Refs">>, o.out_artifact_ref, w.out_artifact_ref)
  \o Cleared(w.destroyed, <<"Config">>, Owned(w))
  \o Cleared(w.destroyed, <<"Readiness", "Placement">>, w.out_endpoint_readiness)
  \o Cleared(w.destroyed, <<"Owner", "LaunchSpec">>, w.out_pod_ownership)
  \o Cleared(w.destroyed, <<"Refs">>, w.out_artifact_ref)

PodMarks(o, q) ==
     Signal(o.status # q.status, "PodStatus", o.out_pod_report)
  \o Signal(o.out_assigned_worker # q.out_assigned_worker, "PodWorker", o.out_pod_report)
  \o Signal(o.out_schedule_request # q.out_schedule_request, "Assigned", o.out_pod_placement)
  \o Edges(<<"PodStatus", "PodWorker">>, o.out_pod_report, q.out_pod_report)
  \o Edges(<<"Assigned">>, o.out_pod_placement, q.out_pod_placement)
  \o Cleared(q.destroyed, <<"PodStatus", "PodWorker">>, q.out_pod_report)
  \o Cleared(q.destroyed, <<"Assigned">>, q.out_pod_placement)

EndpointMarks(o, e) ==
     Signal(o.out_demand # e.out_demand, "Demand", o.out_endpoint_demand)
  \o Edges(<<"Demand">>, o.out_endpoint_demand, e.out_endpoint_demand)
  \o Cleared(e.destroyed, <<"Demand">>, e.out_endpoint_demand)

-----------------------------------------------------------------------------
(* apply_*_effects: creations are queued, signals and edges mark inputs,   *)
(* and a machine that destroyed itself is removed with its signal state,   *)
(* which includes the values last delivered to it.                         *)
Forget(last, inputs) == [i \in Inputs |-> IF i \in inputs THEN Never ELSE last[i]]

ApplyWorkload(n, w) ==
  LET o == n.wl
  IN [n EXCEPT
        !.creates = @ \cup w.created,
        !.new_ep  = IF o.endpoint_id # w.endpoint_id THEN w.respects_demand ELSE @,
        !.dirty   = @ \o WorkloadMarks(o, w),
        !.ports   = @ \/ o # w,
        !.wl      = IF w.destroyed THEN None ELSE [w EXCEPT !.created = {}],
        !.last    = IF w.destroyed THEN Forget(@, WlInputs) ELSE @]

ApplyPod(n, p, q) ==
  LET o == n.pods[p]
  IN [n EXCEPT
        !.dirty   = @ \o PodMarks(o, q),
        !.ports   = @ \/ o # q,
        !.pods[p] = IF q.destroyed THEN None ELSE q,
        !.last    = IF q.destroyed THEN Forget(@, PodInputs(p)) ELSE @]

(* The demand ports of a destroyed endpoint stay behind without effect: a  *)
(* new endpoint has a new id.                                              *)
ApplyEndpoint(n, e) ==
  LET o == n.ep
  IN [n EXCEPT
        !.dirty = @ \o EndpointMarks(o, e),
        !.ports = @ \/ o # e,
        !.ep    = IF e.destroyed THEN None ELSE e,
        !.need  = IF e.destroyed THEN {} ELSE @,
        !.last  = IF e.destroyed THEN Forget(@, EpInputs) ELSE @]

-----------------------------------------------------------------------------
(* aggregate_*: the value of an input, from the sources that exist.        *)
Reporters(n) == {p \in Pods : n.pods[p] # None /\ WL \in n.pods[p].out_pod_report}

Connected(n) == IF n.ep # None /\ WL \in n.ep.out_endpoint_demand THEN {EP} ELSE {}

OwnerOf(n, p) == n.wl # None /\ p \in n.wl.out_pod_ownership

(* The first of at most one source, or None.                               *)
First(set) == IF set = {} THEN None ELSE CHOOSE x \in set : TRUE

ToWorkload(n, k) ==
  CASE k = "Demand"    -> [active |-> Connected(n) # {} /\ n.ep.out_demand,
                           endpoints |-> Connected(n)]
    [] k = "Spec"      -> n.spec
    [] k = "PodStatus" -> {[status |-> n.pods[p].status, artifact_id |-> n.pods[p].artifact_id] :
                              p \in Reporters(n)}
    [] k = "PodWorker" -> First({n.pods[p].out_assigned_worker : p \in Reporters(n)})
    [] k = "Artifact"  -> IF n.valid # {} THEN "valid" ELSE "invalid"

ToEndpoint(n, k) ==
  CASE k = "Config" -> IF n.wl = None \/ EP \notin Owned(n.wl) THEN None
                       ELSE [kind |-> "Workload", workload |-> WL,
                             has_activation |-> n.wl.out_endpoint_config.has_activation]
    [] k = "Readiness" -> IF n.wl # None /\ EP \in n.wl.out_endpoint_readiness
                          THEN n.wl.out_readiness ELSE None
    [] k = "Placement" -> IF n.wl # None /\ EP \in n.wl.out_endpoint_readiness
                          THEN n.wl.out_placement ELSE None
    [] k = "Need"      -> n.need # {}

ToPod(n, k, p) ==
  CASE k = "Worker"     -> First({w \in Workers : HasPort(n, w) /\ p \in n.assigned[w]})
    [] k = "Owner"      -> IF OwnerOf(n, p)
                           THEN [workload |-> WL, intent |-> n.wl.out_pod_intent] ELSE None
    [] k = "LaunchSpec" -> IF OwnerOf(n, p) THEN n.wl.out_pod_launch_spec ELSE None
    [] k = "Lease"      -> n.lease[p]

Aggregate(n, i) ==
  CASE i \in WlInputs -> ToWorkload(n, i[1])
    [] i \in EpInputs -> ToEndpoint(n, i[1])
    [] OTHER          -> ToPod(n, i[1], i[2])

-----------------------------------------------------------------------------
(* Identifiers are never reused by the code. The model reuses one when     *)
(* nothing refers to it any more.                                          *)
FreshPods(n) ==
  {p \in Pods :
     /\ n.pods[p] = None
     /\ n.lease[p] = None
     /\ p \notin n.granted \cup {c.id : c \in n.creates} \cup {d.pod : d \in n.deferred}
     /\ p \notin {t.target : t \in n.due}
     /\ n.wl # None => n.wl.pod_id # p
     /\ \A w \in Workers : /\ p \notin n.assigned[w]
                           /\ n.vm[w][p] = None
                           /\ n.placed[w][p] = None
                           /\ n.buffered[w][p] = None}

FreshPod(n) == CHOOSE p \in FreshPods(n) : TRUE

FreshArtifacts(n) ==
  {a \in Artifacts :
     /\ a \notin n.artifacts
     /\ n.wl # None => n.wl.artifact_port # a
     /\ \A p \in Pods : n.pods[p] # None =>
                           a \notin {n.pods[p].artifact_id, n.pods[p].resume_artifact}
     /\ \A w \in Workers, p \in Pods : n.vm[w][p] # None => n.vm[w][p].snapshot # a}

-----------------------------------------------------------------------------
(* The worker port: PodAssignmentIncrementalAggregator turns the change of *)
(* a pod's request into a delta, and collect_effects the delta into a      *)
(* command. What worker w has been told to run is n.vm[w]; commands for a  *)
(* worker that is still being set up are in n.buffered[w].                 *)
Panic(n, why) == [n EXCEPT !.panic = why]

Command(request) ==
  [spec |-> request.spec, resume |-> request.resume_artifact, snapshot |-> None]

(* Launch and Resume. build_resume_command looks the worker's pool up among *)
(* the active workers.                                                     *)
StartPod(n, w, p, request) ==
  IF n.worker[w] = "active" THEN [n EXCEPT !.vm[w][p] = Command(request)]
  ELSE IF request.resume_artifact # None THEN Panic(n, "resume target worker must have a pool")
  ELSE [n EXCEPT !.buffered[w][p] = Command(request)]

(* Stop is sent to the worker at once, also while it is being set up.      *)
StopPod(n, w, p) == [n EXCEPT !.vm[w][p] = None]

SuspendPod(n, w, p) ==
  IF n.worker[w] # "active" THEN Panic(n, "suspend target worker must have a pool")
  ELSE IF n.vm[w][p] = None THEN n
  ELSE [n EXCEPT !.vm[w][p].snapshot = CHOOSE a \in FreshArtifacts(n) : TRUE]

\* Slip: the removal of a request is not reported.
PlacementDelta_no_stop(n, w, p) ==
  LET old == n.placed[w][p]
      new == IF n.pods[p] # None /\ w \in n.pods[p].out_pod_placement
             THEN n.pods[p].out_schedule_request ELSE None
      m   == [n EXCEPT !.placed[w][p] = new]
  IN IF old = None /\ new # None THEN StartPod(m, w, p, new)
     ELSE IF old # None /\ new # None /\ new.suspend /\ ~old.suspend THEN SuspendPod(m, w, p)
     ELSE m

PlacementDelta(n, w, p) ==
  LET old == n.placed[w][p]
      new == IF n.pods[p] # None /\ w \in n.pods[p].out_pod_placement
             THEN n.pods[p].out_schedule_request ELSE None
      m   == [n EXCEPT !.placed[w][p] = new]
  IN IF old = None /\ new # None THEN StartPod(m, w, p, new)
     ELSE IF old # None /\ new = None THEN StopPod(m, w, p)
     ELSE IF old # None /\ new # None /\ new.suspend /\ ~old.suspend THEN SuspendPod(m, w, p)
     ELSE m

(* The artifact port: a reference appears or disappears. The adapter acts  *)
(* on it after propagation.                                                *)
ReferenceDelta(n, a) ==
  LET refers == n.wl # None /\ a \in n.wl.out_artifact_ref
  IN IF refers /\ a \notin n.refs
     THEN [n EXCEPT !.refs = @ \cup {a}, !.deltas = Append(@, <<"Referenced", a>>)]
     ELSE IF ~refers /\ a \in n.refs
     THEN [n EXCEPT !.refs = @ \ {a}, !.deltas = Append(@, <<"Released", a>>)]
     ELSE n

(* Steps in sequence, until one of them panics.                            *)
Fold(f(_, _), n, seq) ==
  LET g[i \in 0..Len(seq)] ==
        IF i = 0 THEN n
        ELSE LET m == g[i - 1] IN IF m.panic # None THEN m ELSE f(m, seq[i])
  IN g[Len(seq)]

-----------------------------------------------------------------------------
(* process_dirty_input: an input whose target is gone is skipped, a value  *)
(* equal to the one last delivered is suppressed.                          *)
HandleWorkload(n, k, v) ==
  LET fresh == FreshPod(n)
  IN ApplyWorkload(n,
       CASE k = "Demand"    -> W!DemandInput(n.wl, v, fresh)
         [] k = "Spec"      -> W!SpecInput(n.wl, v, fresh, EP)
         [] k = "PodStatus" -> W!PodStatusInput(n.wl, v, fresh)
         [] k = "PodWorker" -> W!PodWorkerInput(n.wl, v)
         [] k = "Artifact"  -> W!ArtifactInput(n.wl, v, fresh))

HandleEndpoint(n, k, v) ==
  ApplyEndpoint(n,
    CASE k = "Config"    -> E!ConfigInput(n.ep, v)
      [] k = "Readiness" -> E!ReadinessInput(n.ep, v)
      [] k = "Placement" -> E!PlacementInput(n.ep, v)
      [] k = "Need"      -> E!BackendNeedInput(n.ep, v))

HandlePod(n, k, p, v) ==
  ApplyPod(n, p,
    CASE k = "Worker"     -> P!WorkerInput(n.pods[p], v)
      [] k = "Owner"      -> P!OwnerInput(n.pods[p], v)
      [] k = "LaunchSpec" -> P!LaunchSpecInput(n.pods[p], v)
      [] k = "Lease"      -> P!LeaseInput(n.pods[p], v))

(* An input of a machine that is gone, and one that has not changed, is    *)
(* not delivered.                                                          *)
Undelivered(n, i, v) ==
  \/ i \in WlInputs /\ n.wl = None
  \/ i \in EpInputs /\ n.ep = None
  \/ i[2] \in Pods /\ n.pods[i[2]] = None
  \/ n.last[i] = v

ProcessInput(n, i) ==
  LET k == i[1]
      t == i[2]
      v == Aggregate(n, i)
      m == [n EXCEPT !.last[i] = v]
  IN CASE k = "Assigned" -> IF HasPort(n, t)
                            THEN Fold(LAMBDA x, p : PlacementDelta(x, t, p), n, S!SetToSeq(Pods))
                            ELSE n
       [] k = "Refs"     -> IF t \in n.artifacts THEN ReferenceDelta(n, t) ELSE n
       [] i \in Inputs   -> IF Undelivered(n, i, v) THEN n
                            ELSE IF i \in WlInputs THEN HandleWorkload(m, k, v)
                            ELSE IF i \in EpInputs THEN HandleEndpoint(m, k, v)
                            ELSE HandlePod(m, k, t, v)

(* A worker reports about a pod, over a WorkerAssignment or a PodPlacement *)
(* edge; notified is the pod that took note.                               *)
ProcessReport(n, p, w, notified) ==
  IF ~HasPort(n, w)
     \/ ~(p \in n.assigned[w] \/ (n.pods[p] # None /\ w \in n.pods[p].out_pod_placement))
  THEN Panic(n, "no edge between worker and pod")
  ELSE IF n.pods[p] = None THEN n
  ELSE ApplyPod(n, p, notified)

(* process_event: an event without an edge between sender and receiver is  *)
(* a panic; the receiver of an event may be gone.                          *)
ProcessEvent(n, e) ==
  LET p == e.target
  IN CASE e.kind = "WorkloadTimerFired" ->
            IF n.wl = None THEN Panic(n, "no edge between timer and workload")
            ELSE ApplyWorkload(n,
                   IF e.payload = "RetryBackoff" THEN W!RetryBackoffFired(n.wl, FreshPod(n))
                   ELSE W!ArtifactConfirmFired(n.wl, FreshPod(n)))
       [] e.kind = "EndpointTimerFired" ->
            IF n.ep = None THEN Panic(n, "no edge between timer and endpoint")
            ELSE ApplyEndpoint(n, E!EndpointTimerFired(n.ep))
       [] e.kind = "PodTimerFired" ->
            IF n.pods[p] = None THEN Panic(n, "no edge between timer and pod")
            ELSE ApplyPod(n, p, P!PodTimerFired(n.pods[p], e.payload))
       [] e.kind = "AdminCommand" ->
            IF n.wl = None THEN n
            ELSE ApplyWorkload(n, IF e.payload = "Restart" THEN W!Restart(n.wl, FreshPod(n))
                                  ELSE W!Scavenge(n.wl, FreshPod(n)))
       [] e.kind = "EndpointDemandTraffic" ->
            IF n.ep = None THEN n ELSE ApplyEndpoint(n, E!EndpointDemandTraffic(n.ep))
       [] e.kind = "NotifyPodStatus" ->
            ProcessReport(n, p, e.sender, P!NotifyPodStatus(n.pods[p], e.payload))
       [] e.kind = "NotifyPodSuspended" ->
            ProcessReport(n, p, e.sender, P!NotifyPodSuspended(n.pods[p], e.payload))

-----------------------------------------------------------------------------
(* materialize_pending_creates: new machines are initialized at once; no   *)
(* input of theirs is marked.                                              *)
Materialize(n) ==
  [n EXCEPT
     !.pods    = [p \in Pods |-> IF \E c \in n.creates : c.id = p
                                 THEN P!NewPod((CHOOSE c \in n.creates : c.id = p).artifact)
                                 ELSE @[p]],
     !.ep      = IF n.new_ep = None THEN @ ELSE E!NewEndpoint(n.new_ep),
     !.ports   = @ \/ n.creates # {} \/ n.new_ep # None,
     !.creates = {},
     !.new_ep  = None]

(* drain_and_dedup_dirty: each input once, in the order of its first mark. *)
Wave(dirty) == S!FoldLeft(LAMBDA q, i : IF S!Contains(q, i) THEN q ELSE Append(q, i), <<>>, dirty)

Pending(n) ==
  n.dirty # <<>> \/ n.ports \/ n.events # <<>> \/ n.creates # {} \/ n.new_ep # None

(* One round of propagate.                                                 *)
Round(n) ==
  LET m == Materialize(n)
      u == Fold(ProcessInput, [m EXCEPT !.dirty = <<>>, !.ports = FALSE], Wave(m.dirty))
      v == Fold(ProcessEvent, [u EXCEPT !.events = <<>>], u.events)
  IN IF n.depth + 1 = DepthLimit THEN Panic(n, "depth limit") ELSE [v EXCEPT !.depth = n.depth + 1]
=============================================================================
